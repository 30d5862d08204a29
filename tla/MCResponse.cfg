SPECIFICATION Spec
CONSTANTS
  Ctx = 34
  MaxChoices = 2
  Vision = TRUE
  PageCapacity = 9
  PromptPage = 4
  DefaultThinking = "medium"
  Requests <- RequestsDef
  BufferCap = 2
INVARIANTS
  WholeResponse
  PromptTiled
PROPERTIES
  NobodyWaits
CHECK_DEADLOCK FALSE
