SPECIFICATION Spec
CONSTANTS
  w1 = w1
  w2 = w2
  None = None
  Workers <- MCWorkers
  NumJobs = 2
  MaxAttempts = 2
  ListLimit = 2
  Lease = 3
  StartupLease = 1
  RetryDelay = 1
  HeartbeatEvery = 1
  PrepareTime = 1
  Stalls = FALSE
  Serves <- AnyOrg
  Broker = FALSE
  AnswersLost = FALSE
  MaxFaults = 1
  AttemptBound = 4
PROPERTIES LockKept
