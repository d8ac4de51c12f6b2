SPECIFICATION HFairSpec
CONSTANTS
  w1 = w1
  w2 = w2
  None = None
  Workers <- MCWorkers
  NumJobs = 1
  MaxAttempts = 2
  ListLimit = 2
  Lease = 2
  StartupLease = 1
  RetryDelay = 1
  HeartbeatEvery = 1
  PrepareTime = 0
  Stalls = FALSE
  Serves <- AnyOrg
  Broker = TRUE
  AnswersLost = TRUE
  MaxFaults = 2
  AttemptBound = 4
  RepublishLimit = 1
  PublishBound = 2
INVARIANTS
  ExclusiveExecution
PROPERTIES EventuallySettled
