SPECIFICATION FairSpec
CONSTANTS
  MaxPolls = 2
  MaxAttempts = 1
  MaxLosses = 1
  MaxEvents = 2
  MaxTasks = 2
INVARIANTS  FastPollTimed  RejoinEnds
 
CHECK_DEADLOCK FALSE
