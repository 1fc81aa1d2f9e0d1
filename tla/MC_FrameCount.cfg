SPECIFICATION CountSpec
CONSTANTS
  MaxCount = 14
  Words = 4
  Thres = 2
  Torn <- MCTorn
  NoReq = NoReq
INVARIANTS
  NeverBack
  NoLeap
