SPECIFICATION LiveSpec
CONSTANTS
  Devs = {0, 1}
  Ble = {0}
  Slots = {1, 2}
  SrcEp <- LiveSrcEp
  Addr <- LiveAddr
  DstEp <- LiveDstEp
  Window = 2
  MinReport = 2
  Forever = 2
  Times = {1, 2}
  MaxCmds = 2
  MaxReports = 0
  MaxFlight = 2
  MaxUtc = 1
  MaxStep = 1
  MaxLeaves = 1
INVARIANTS Armed
PROPERTIES GoesOff Reaches
