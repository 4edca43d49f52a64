SPECIFICATION Spec
CONSTANTS
  Objects = {o1, o2, o3}
  Cells = {c1}
  Slots = {s1}
  None = None
  MaxRecords = 1
  MaxRepeats = 1
  MaxJobs = 1
INVARIANTS
  NothingDangles
  CountsExact
PROPERTIES
  GarbageFound
CHECK_DEADLOCK FALSE
SYMMETRY Symmetry
