SPECIFICATION Spec
CONSTANTS
    SchemaId = "text"
    FirstSteps = {2, 6, 9}
    MaxChanges = 2
    MaxForks = 0
INVARIANT TruthTaken
CHECK_DEADLOCK FALSE
