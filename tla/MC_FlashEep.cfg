CONSTANTS
  a = a
  b = b
  v1 = v1
  v2 = v2
  Ids = {a, b}
  Vals = {v1, v2}
  Written <- MCWritten
  None = None
  NoId = NoId
  NoReq = NoReq
  SizeOf <- MCSizeOf
  ByteOf <- MCByteOf
  NSect = 2
  SectorSize = 14
  MaxObj = 2
  TornSizes = {2, 6}
SPECIFICATION Spec
INVARIANTS
  InsideSector
  PackFaithful
PROPERTIES
  NeverHeadless
  ImplementsKvStore
