CONSTANTS
  NSlots = 4
  Page <- MCPage
  PageTokens = 2
  Ctx = 4
  Job = {"a", "b", "c"}
  Prompt <- MCPrompt
  NChoices <- MCNChoices
  MaxTokens <- MCMaxTokens
  SnapshotPoints <- MCSnapshotPoints
  Token <- MCToken
  BatchMax = 5
  PrefillChunk = 1
  MaxQueue = 2
  Prefix = FALSE
SPECIFICATION Spec
CHECK_DEADLOCK FALSE
INVARIANTS
  CapacityKept
