SPECIFICATION Spec
CONSTANTS
  a = a
  b = b
  x = x
  y = y
  Ids = {a, b}
  Vals = {x, y}
  Written <- MCWritten
  None = None
  NoReq = NoReq
  NoHalf = NoHalf
  SizeOf <- MCSizeOf
  IdxNum = 3
  Space = 9
  Align = 2
INVARIANTS
  TypeOK
  CopiesFit
PROPERTIES
  ImplementsNvStore
