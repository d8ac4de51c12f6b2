SPECIFICATION FairSpec
CONSTANTS
  w1 = w1
  w2 = w2
  None = None
  Workers <- MCWorkers
  NumJobs = 2
  MaxAttempts = 2
  ListLimit = 2
  Lease = 3
  StartupLease = 2
  RetryDelay = 1
  HeartbeatEvery = 1
  PrepareTime = 1
  Stalls = TRUE
  Serves <- TwoOrgs
  Broker = TRUE
  AnswersLost = TRUE
  MaxFaults = 1
  AttemptBound = 8
INVARIANTS FreshTokens DeadOnlyWhenSpent
PROPERTIES EventuallySettled
