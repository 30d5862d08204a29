CONSTANTS
  Token <- MCToken
  StopIds = {3}
  ThinkClose = 2
  Prompts <- MCPrompts
  MaxPrompt = 2
  Ctx = 5
  BatchMax = 3
  SpecK = 2
  Prefix = FALSE
  Engines <- StopsInDrafts
SPECIFICATION Spec
INVARIANT
  DrawnInPhase
