SPECIFICATION Spec
CONSTANTS
    SchemaId = "number"
    FirstSteps = {2, 6, 9}
    MaxChanges = 2
    MaxForks = 1
INVARIANTS TruthAccepted SnapshotIsHistory
PROPERTY DecidedStays

CHECK_DEADLOCK FALSE
