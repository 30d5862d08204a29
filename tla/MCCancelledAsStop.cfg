SPECIFICATION Spec
CONSTANTS
  Ctx = 34
  MaxChoices = 2
  Vision = TRUE
  PageCapacity = 0
  PromptPage = 4
  DefaultThinking = "medium"
  Requests <- RequestsDef
  BufferCap = 2
INVARIANTS
  StopMeansEnd
CHECK_DEADLOCK FALSE
