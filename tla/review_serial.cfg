SPECIFICATION FairSpec
CONSTANTS
  u1 = u1
  u2 = u2
  u3 = u3
  Main = Main
  None = None
  Units <- ThreeUnits
  Bare = {u3}
  MaxConcurrent = 1
  Overlap = FALSE
  DbFails = FALSE
  FileFails = TRUE
  MaxRuns = 3
  MaxFaults = 2
CHECK_DEADLOCK FALSE
INVARIANTS FindingsKept
PROPERTIES FinishedNotRedone EventuallyPublished
