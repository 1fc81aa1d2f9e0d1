SPECIFICATION ResetFairSpec
CONSTANTS
  Entries = {1, 2}
  Analog = {2}
  Cluster <- MCCluster
  Values = {0, 1}
  Change = 0
  Defaults <- MCDefaults
  Intervals <- MCIntervals
  Steps = {1, 2}
  NoMax = 9
  NoFailure = 7
  Ample = 4
  MaxChanges = 1
  MaxConfigs = 2
  MaxResets = 1
INVARIANTS RepeatsIfLimited NeverSilentIfLimited EarlyOnce
PROPERTIES HearsInTheEnd
