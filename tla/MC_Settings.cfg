SPECIFICATION Spec
CONSTANTS
  Channels = 2
  MaxSets = 3
  MaxStarts = 2
INVARIANTS NothingForeign RamIsStored
PROPERTIES NeverErased
CHECK_DEADLOCK FALSE
