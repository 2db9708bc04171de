SPECIFICATION Spec
CONSTANTS
  Proc = {p1, p2}
  MaxTask = 2
  MaxDay = 1
  BatchSize = 1
  Retries = 1
  MaxStart = 3
  None = None
INVARIANTS PushedOnce ScanCoversOverdue ArchivedIsQuiet BadgeAgrees
PROPERTIES BadgeAnswered
CHECK_DEADLOCK FALSE
