SPECIFICATION Spec
CONSTANTS
  NumPaths = 5
  Planned <- Batches
  maxUnitRetries = 3
  enableSplit = TRUE
  minPathsToSplit = 2
  MaxConcurrent = 2
CHECK_DEADLOCK FALSE
INVARIANTS FixedOnlyWhenReviewed
