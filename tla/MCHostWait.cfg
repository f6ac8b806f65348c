SPECIFICATION Spec
CONSTANTS
  Paths = {p1}
  NoPath = NoPath
  Capacity = 2
  RetryLimit = 1
  Delay = 1
  Faults = {"spawn"}
  MaxSubmits = 2
  MaxClock = 2

PROPERTIES WaitStartsAfterFailure
CHECK_DEADLOCK FALSE
