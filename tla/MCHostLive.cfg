SPECIFICATION FairSpec
CONSTANTS
  Paths = {p1}
  NoPath = NoPath
  Capacity = 2
  RetryLimit = 1
  Delay = 1
  Faults = {"spawn", "clock"}
  MaxSubmits = 2
  MaxClock = 0
PROPERTIES
  RetryWaits DeadWorkerRefuses
  SubmissionsSettle RunsSettle
CHECK_DEADLOCK FALSE
