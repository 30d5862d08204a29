CONSTANTS
  Token <- MCToken
  StopIds = {3}
  ThinkClose = 2
  Prompts <- MCPrompts
  MaxPrompt = 4
  Ctx = 5
  BatchMax = 3
  SpecK = 2
  Prefix = TRUE
  Engines <- EitherLoop
  NVocab = 5
  NTiles = 2
  PerTile = 2
  Cand = 2
  Margin = 3
  Rows <- MCRows
  WideRows <- MCWideRows
  Settings <- MCSettings
SPECIFICATION Spec
INVARIANTS
  TypeOK
  StateCovered
  LogitsOfState
  OutputFollows
  DraftsAlmostInvisible
  CancelledOnlyIfAsked
  RoundsSound
  SamplingSound
PROPERTIES
  RequestEnds
