SPECIFICATION AppSpec
CONSTANTS
  t1 = t1
  t2 = t2
  t3 = t3
  Task = {t1, t2, t3}
  Seeded = {t1, t2}
  Urgent = {t3}
  Important = {t2, t3}
  Zombie = {t2}
  Overdue = {t2}
  Default = 3
  Total = {3, 5}
  Est <- MCEst
  NoTask = NoTask
  MaxOp = 2
  MaxClick = 3
  MaxLost = 1
  MaxTime = 1
  Gemini = TRUE
INVARIANTS TimeNotDoubled FinishedIsCompleted ListAgrees
  
CHECK_DEADLOCK FALSE
