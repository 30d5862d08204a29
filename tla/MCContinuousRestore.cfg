CONSTANTS
  NSlots = 2
  Page <- MCPage
  PageTokens = 2
  Ctx = 4
  Job = {"a", "b"}
  Prompt <- MCPrompt
  NChoices <- MCNChoices
  MaxTokens <- MCMaxTokens
  SnapshotPoints <- MCSnapshotPoints
  Token <- MCToken
  BatchMax = 3
  PrefillChunk = 1
  MaxQueue = 1
  Prefix = TRUE
SPECIFICATION Spec
CHECK_DEADLOCK FALSE
INVARIANTS
  TypeOK
  OneHolder
  TextsAgree
  LogitsCurrent
  CapacityKept
  Accounted
PROPERTIES
  EveryJobAnswered
