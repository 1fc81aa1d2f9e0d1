SPECIFICATION ScanSpec
CONSTANTS
  a = a
  b = b
  Devs = {a, b}
  Adverts <- MCAdverts
  Keyed = {a, b}
  IdByte <- MCIdByte
  Word = 2
  Beyond = {0, 1}
  Log10k <- MCLog10k
  Targets = {0, 1, 9}
  NoTarget = 9
INVARIANTS ReadingsCurrent OffMeansOff NoTriggerLost
PROPERTIES KeepsOnWhileMoving
