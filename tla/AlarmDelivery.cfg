SPECIFICATION Spec
CONSTANTS
  Task = {t1}
  Caller = {c1, c2}
  MaxCall = 2
  MaxRetry = 1
  MaxSocket = 2
  MaxStart = 3
INVARIANTS NoAlarmLost NoneWaitsWhileConnected BadgeAgrees QueueHoldsLatest
CHECK_DEADLOCK FALSE
