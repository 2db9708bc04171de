SPECIFICATION Spec
CONSTANTS
  Samples = 2
  Ticks = 1
  MaxTimers = 2
  Device = {0, 1}
  Default = 1
  Boot = 0
  MaxOp = 3
  MaxClick = 3
  MaxFault = 1
INVARIANTS SwitchAgrees SavedTogether NoDeadEnd
PROPERTIES SaveCloses
CHECK_DEADLOCK FALSE
