SPECIFICATION Spec
CONSTANTS
  Keys = {k1, k2, k3}
  Values = {v1, v2}
  Iterators = {i1, i2}
  ForEachs = {f1}
  Gone = Gone
  MaxRecords = 4
INVARIANTS
  RefsExact
PROPERTIES
  ImplementsOrderedMap
CHECK_DEADLOCK FALSE
