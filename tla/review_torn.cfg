SPECIFICATION Spec
CONSTANTS
  u1 = u1
  u2 = u2
  u3 = u3
  Main = Main
  None = None
  Units <- TwoUnits
  Bare = {}
  MaxConcurrent = 2
  Overlap = TRUE
  DbFails = TRUE
  FileFails = TRUE
  MaxRuns = 2
  MaxFaults = 2
CHECK_DEADLOCK FALSE
SYMMETRY TwoSymmetry
INVARIANTS NoFindingTwice
