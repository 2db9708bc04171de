SPECIFICATION Spec
CONSTANTS
  Handler = {h1, h2}
  Day = {d1}
  Task = {t1, t2}
  Duration = {1}
  Elapsed = {0, 2}
  Available = {1, 2}
  Priority = {TRUE, FALSE}
  Action = {"START", "FINISH"}
  NoInput = NoInput
SYMMETRY Symmetry
INVARIANTS     SlotFreeAtInsert NoLockDeadlock
PROPERTIES  CompletedTimerFrozen
