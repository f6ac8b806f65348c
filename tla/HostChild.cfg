SPECIFICATION Spec
CONSTANTS
  Command = "submit"
  Capacity = 2
  PipeSize = 2
  Quota = 1
  MaxPieces = 3
  Faults = {"wait", "read"}
INVARIANTS AnswerIsTruth SlotOutlivesProcess
PROPERTIES PipesKeepMoving ExitedIsCollected
CHECK_DEADLOCK FALSE
