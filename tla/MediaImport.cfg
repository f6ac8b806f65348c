SPECIFICATION FairSpec
CONSTANTS
    None = None
    Imports = {i1, i2}
    Contents = {right, wrong}
    Reported = right
    MaxStoreFaults = 1
    MaxFileFaults = 1
    MaxRestarts = 1
    MaxReports = 1
    MaxOpens = 1
INVARIANTS CurrentCopySound ServedIsVerified ClosedStoreUntouched
PROPERTIES ReplacedOnlyByRight CopiesSettle
CHECK_DEADLOCK FALSE
