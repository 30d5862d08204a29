CONSTANTS
  NSlots = 2
  Page = {p1, p2, p3}
  PageTokens = 2
  Ctx = 3
  Token = {a, b}
  NoRow = NoRow
  BatchMax = 2
  MaxGeneration = 2
SPECIFICATION Spec
SYMMETRY Interchangeable
CHECK_DEADLOCK FALSE
PROPERTIES
  ImplementsIndependent
