SPECIFICATION Spec
CONSTANTS
  Paths = {p1}
  NoPath = NoPath
  Capacity = 2
  RetryLimit = 1
  Delay = 1
  Faults = {"spawn", "wait", "poll"}
  MaxSubmits = 3
  MaxClock = 0
INVARIANTS
  OneProcessPerCommand FirstPlanOnce
  AttemptsPaid NeedRemembered
PROPERTIES
  KeepsPromise
CHECK_DEADLOCK FALSE
