SPECIFICATION Spec
CONSTANTS
  SchemaId = "number"
  Choices <- Selections
  MaxFiles = 3
  MaxTroubles = 1
PROPERTY GapsWaitForUploads
CHECK_DEADLOCK FALSE
