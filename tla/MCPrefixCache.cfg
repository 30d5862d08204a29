SPECIFICATION Spec
CONSTANTS
  Token = {"s", "u"}
  RoleOf <- RoleOfDef
  Tier <- TierDef
  Expiring = {"u"}
  Persisted = {"s", "u"}
  Snapped = {"s", "u"}
  ChunkLen = 2
  MinTokens = 2
  SnapBytes = 2
  Budget = 9
  Modes = {"serial", "continuous"}
  Requests <- RequestsDef
  StagingSizes = {1, 4}
  ReusePages = 1
  ReaderCap = 1
  WriterCap = 1
  MaxEvents = 2
INVARIANTS
  TypeOK
  BudgetKept
  RestoreSound
  NoLeak
  StagingConserved
PROPERTIES
  EvictsLowest
  EngineServed
CHECK_DEADLOCK FALSE
