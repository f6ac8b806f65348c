SPECIFICATION Spec
CONSTANTS
  MaxEdits = 4
  MaxActions = 2
  MaxCoverage = 1
INVARIANTS
  EachCorrectable
  ExportedIsSound
PROPERTY
  EntriesKept
CHECK_DEADLOCK FALSE
