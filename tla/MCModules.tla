----------------------------- MODULE MCModules ------------------------------
EXTENDS Modules

Requested(G) == UNION {{<<m, d>> : d \in G[m]} : m \in Mods}

\* All graphs without a module that requests itself, and small ones with one.
SmallGraphs ==
  {G \in [Mods -> SUBSET Mods] :
     (\E m \in Mods : m \in G[m]) => Cardinality(Requested(G)) <= 2}
=============================================================================
