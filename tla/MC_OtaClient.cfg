SPECIFICATION Spec
CONSTANTS
  Version = {v0, v1, v2}
  Factory = v0
  Offers = {v1, v2}
  NoVer = NoVer
  Body = 3
  ResumeAfter = 1
  SaveEvery = 1
  BlockRetries = 2
  EndRetries = 2
  AddrRetries = 2
  MaxTasks = 2
  MaxUnderWay = 1
INVARIANTS BootsWholeImage KeepsAsking
SYMMETRY Others
