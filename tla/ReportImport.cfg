SPECIFICATION Spec
CONSTANTS
  SchemaId = "number"
  Choices <- Selections
  MaxFiles = 3
  MaxTroubles = 1
INVARIANTS CoverageGrounded JudgementsHold OnlyDiskFails ReceivedIsJudged
PROPERTIES GapsRemain
CHECK_DEADLOCK FALSE
