SPECIFICATION Spec
CONSTANTS
  t1 = t1
  t2 = t2
  Task = {t1, t2}
  Est <- MCEst
  Total = {0, 5}
  NoTask = NoTask
  MaxTime = 3
  MaxClick = 5
INVARIANTS RunningIsActive TicksLoseNothing HiddenCountedAtMostTwice RemainingIsExact
CHECK_DEADLOCK FALSE
