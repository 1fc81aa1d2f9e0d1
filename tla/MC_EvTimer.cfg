SPECIFICATION Spec
CONSTANTS
  Timer = {0, 1}
  None = None
  TicksPerMs = 2
  Wrap = 6
  MaxGap = 4
  Waits = {0, 1, 2}
  MaxNow = 7
INVARIANTS ListIsPool
PROPERTIES OnTime ImplementsTimers
CHECK_DEADLOCK FALSE
