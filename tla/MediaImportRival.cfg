SPECIFICATION Spec
CONSTANTS
    None = None
    Imports = {i1, i2}
    Contents = {right, wrong}
    Reported = right
    MaxStoreFaults = 0
    MaxFileFaults = 0
    MaxRestarts = 0
    MaxReports = 1
    MaxOpens = 0
PROPERTY TurnedAwayForCause
CHECK_DEADLOCK FALSE
