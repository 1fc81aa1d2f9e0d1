SPECIFICATION Spec
CONSTANTS
  Devs = {0, 1}
  Ble = {0}
  Slots = {1, 2, 3}
  SrcEp <- MCSrcEp
  Addr <- MCAddr
  DstEp <- MCDstEp
  Window = 1
  MinReport = 2
  Forever = 1
  Times = {}
  MaxCmds = 2
  MaxReports = 1
  MaxFlight = 2
  MaxUtc = 2
  MaxStep = 1
  MaxLeaves = 1
INVARIANTS TypeOK Chased RepeatsToBoundEndpoint OffWithoutPermission
