CONSTANTS
  NSlots = 3
  Page = {p1, p2, p3}
  PageTokens = 2
  Ctx = 3
  Token = {a}
  NoRow = NoRow
  BatchMax = 3
  MaxGeneration = 2
SPECIFICATION Spec
SYMMETRY Interchangeable
CHECK_DEADLOCK FALSE
INVARIANTS
  TypeOK
  RefsExact
  TablesSound
  WritesPrivate
  PreflightSuffices
PROPERTIES
  PreflightExact
