SPECIFICATION FairSpec
CONSTANTS
  Mods = {1, 2, 3}
  Graphs <- SmallGraphs
  MaxImports = 2
PROPERTIES
  ImportsSettle
CHECK_DEADLOCK FALSE
