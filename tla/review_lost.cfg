SPECIFICATION Spec
CONSTANTS
  u1 = u1
  u2 = u2
  u3 = u3
  Main = Main
  None = None
  Units <- TwoUnits
  Bare = {}
  MaxConcurrent = 2
  Overlap = FALSE
  DbFails = FALSE
  FileFails = FALSE
  MaxRuns = 2
  MaxFaults = 1
CHECK_DEADLOCK FALSE
INVARIANTS FindingsKept
