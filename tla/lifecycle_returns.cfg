SPECIFICATION FindingSpec
CONSTANTS
  Reviewers = {r1, r2}
  PullRequests = {p1}
  MaxReviews = 3
  MaxVerdicts = 0
  MaxPushes = 2
CHECK_DEADLOCK FALSE
INVARIANTS ReturnedReopens
