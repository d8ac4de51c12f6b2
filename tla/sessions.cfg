SPECIFICATION SessionsSpec
CONSTANTS
  MaxGlobalRetries = 1
  MaxTries = 2
  MaxRequests = 1
  MaxFaults = 1
  MaxInFlight = 2
  NumEvents = 3
  MaxBreaks = 1
  Reviews = {s1, s2}
  WithUnits = {s1}
  Nothing = Nothing
  MaxPicks = 3
  MaxUnderWay = 2
  MaxFetchFailures = 1
  NumRows = 4
  AutoFlush = 2
  MaxFlushes = 2
  NumPaths = 3
  Planned <- TwoAndOne
  Limits = {1, 2}
  MaxCrashes = 2
CHECK_DEADLOCK FALSE
INVARIANTS
  SessionsTypeOK SplitsAccounted
PROPERTIES SessionComesToRest EventsArrive PageSettles TracesSettle
