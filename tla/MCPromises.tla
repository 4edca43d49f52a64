----------------------------- MODULE MCPromises -----------------------------
EXTENDS Promises

\* A scenario: a script that does at most f[op] of each operation.
Scenario(f) == [op \in Ops |-> IF op \in DOMAIN f THEN f[op] ELSE 0]

Scenarios == {
  Scenario([new |-> 2, call |-> 2, then |-> 1]),
  Scenario([new |-> 1, call |-> 1, then |-> 2]),
  Scenario([new |-> 1, call |-> 2, finally |-> 1]),
  Scenario([settle |-> 2, finally |-> 1]),
  Scenario([new |-> 1, call |-> 1, async |-> 1, await |-> 2]),
  Scenario([new |-> 2, call |-> 2, all |-> 1]),
  Scenario([gen |-> 1, request |-> 2, await |-> 1]),
  Scenario([new |-> 1, call |-> 1, gen |-> 1, request |-> 2]),
  Scenario([gen |-> 1, request |-> 3])}
=============================================================================
