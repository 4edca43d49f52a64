CONSTANTS
  CharOrder <- MCCharOrder
  Unreserved = {"a"}
  Names <- MCNames
  Values <- MCValues
  Queries <- MCQueries
  MaxObjects = 2
  MaxPairs = 2
SPECIFICATION Spec
INVARIANT SearchAgrees
PROPERTY EditsAreExact
CHECK_DEADLOCK FALSE
