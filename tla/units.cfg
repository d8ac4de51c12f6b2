SPECIFICATION UnitsSpec
CONSTANTS
  NumPaths = 5
  Planned <- Batches
  maxUnitRetries = 4
  enableSplit = TRUE
  minPathsToSplit = 2
  MaxConcurrent = 2
  NumRoles = 3
  PoolSize = 2
  LlmRetries = 1
  Callers = {k1, k2}
  MaxSpawns = 3
  MaxCalls = 4
CHECK_DEADLOCK FALSE
INVARIANTS
  UnitsTypeOK PathsCovered NothingOverlooked CompletedIsWhole
  RolesAccounted BridgeSound
PROPERTIES EventuallyConcluded UnitEnds CallsSettle
