SPECIFICATION RadioFairSpec
CONSTANTS
  AdvPeriod = 4
  AfterConn = 2
  MaxPresses = 3
INVARIANTS OnMeansReachable
PROPERTIES AdvertisingEnds ZigbeeRuns
