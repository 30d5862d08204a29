SPECIFICATION Spec
CONSTANTS
  NNodes = 2
  NCores = 2
  Layers <- LayersDef
  HasMtp = TRUE
  VisionLayers = 1
  VisionChunks = 2
  Jobs = {"step", "prefill", "remainder", "verify", "continuous", "batch", "extend", "draft", "vision", "rows_out", "rows_in", "snap_out", "snap_in", "fork", "page", "load"}
  Models = {1, 2}
  Program <- ProgramDef
  Schedule <- ScheduleDef
  GenBase = 1000
INVARIANTS
  TypeOK
  NoRace
  Separated
  JobAlive
PROPERTIES
  ImplementsBarrier
  RunReturns
