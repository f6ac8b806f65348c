SPECIFICATION FairSpec
CONSTANTS
    Texts = {a, b}
    FirstText = a
    None = None
    MaxEdits = 2
    MaxOthers = 1
    MaxFaults = 2
    MaxFollows = 1
    MaxExports = 1
INVARIANTS
    PageMatchesStore
    CarriedOutOnce
PROPERTIES
    InputKept
    PageSettles
CHECK_DEADLOCK FALSE
