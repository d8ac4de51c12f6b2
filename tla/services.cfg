SPECIFICATION ServicesSpec
CONSTANTS
  NumFindings = 4
  FileOf <- Files
  OnDiff <- LinesOnDiff
  CommentCap = 3
  MaxPublications = 2
  MaxLost = 1
  Handlers = {h1, h2, h3}
  MaxPgFailures = 1
  r1 = r1
  r2 = r2
  p1 = p1
  p2 = p2
  Reviewers <- TwoReviewers
  PullRequests <- TwoPullRequests
  MaxReviews = 2
  MaxVerdicts = 1
  MaxPushes = 1
  NumCandidates = 3
  BatchSize = 2
  MaxRows = 2
  b1 = b1
  b2 = b2
  b3 = b3
  Bugs <- ThreeBugs
  NumJudged = 3
  EarlierRows <- SomeRows
  SeverityFloor = 0
  NitCap = 2
  MaxFindings = 2
  Repos = {x, y}
  MinRepoCount = 2
  MinOrgRepos = 2
  MinOrgCount = 2
  MinImportantCount = 1
  MaxOutcomes = 3
  MaxConsolidations = 2
  MaxStoreFailures = 1
  Tenants = {t1, t2}
  Api = api
  Settings = {"on"}
  JobWorkers = {api, w1}
  MaxEdits = 2
  MaxRestarts = 1
  MaxConfigFailures = 1
  q1 = q1
  q2 = q2
  q3 = q3
  Primary = q0
  LinkedRepos <- ThreeRepos
  NumLinks = 3
  SomeLinks <- LinksOfFour
  Budgets <- SomeBudgets
  Users = {u1, u2, u3}
  Founders = {u1}
  Invitees = {u2}
  MaxSeats = 2
  NumCalls = 2
  MaxFailures = 2
  f1 = f1
  f2 = f2
  f3 = f3
  j1 = j1
  j2 = j2
  Noted <- ThreeNoted
  PathOf <- FileOfNoted
  ScopeOf <- TagsOfNoted
  Pulls <- TwoPullRequests
  ChangedBy <- FilesChanged
  AppliedBy <- FixesApplied
  Sensitive = {"auth"}
  MergeJobs = {j1, j2}
  PullOf <- TwoDeliveries
  FirstStandings <- OpenRows
  MaxAttempts = 2
  MaxSignals = 1
  NumDocRequests = 3
  MaxDocFailures = 1
CHECK_DEADLOCK FALSE
INVARIANTS
  ServicesTypeOK PublicationTrue DeliveryHandled RowsFollowReviews
  VerdictsLand ReportSound LearningSound SettingsSound
  FanOutSound MembersKept SeatsRespected
PROPERTIES WritesAreFair
