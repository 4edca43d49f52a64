SPECIFICATION FairSpec
CONSTANTS
  Mods = {1, 2, 3}
  Graphs <- SmallGraphs
  MaxImports = 2
INVARIANTS
  RunsOnceInOrder
  PromiseTruthful
  GraphConsistent
PROPERTIES
  FreshImportsSettle
CHECK_DEADLOCK FALSE
