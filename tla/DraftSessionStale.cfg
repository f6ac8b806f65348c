SPECIFICATION Spec
CONSTANTS
    Texts = {a, b}
    FirstText = a
    None = None
    MaxEdits = 1
    MaxOthers = 1
    MaxFaults = 1
    MaxFollows = 1
    MaxExports = 1
PROPERTIES
    ExportedStaysReadOnly
CHECK_DEADLOCK FALSE
