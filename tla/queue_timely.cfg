SPECIFICATION Spec
CONSTANTS
  w1 = w1
  w2 = w2
  None = None
  Workers <- MCWorkers
  NumJobs = 2
  MaxAttempts = 2
  ListLimit = 1
  Lease = 3
  StartupLease = 2
  RetryDelay = 1
  HeartbeatEvery = 1
  PrepareTime = 1
  Stalls = FALSE
  Serves <- AnyOrg
  Broker = FALSE
  AnswersLost = FALSE
  MaxFaults = 2
  AttemptBound = 5
INVARIANTS
  TypeOK OwnerExecutes
PROPERTIES LockKept ExclusiveSpec
