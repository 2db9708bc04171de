SPECIFICATION Spec
CONSTANTS
  Request = {r1, r2}
  Task = {t1}
  Action = {"COMPLETED", "SNOOZED", "ARCHIVE_REJECTED"}
  MaxActions = 4
  Core = 1
  MaxPool = 2
  Capacity = 1
  NoWork = NoWork
INVARIANTS LoggedOncePerCommit RowAgreesWithActions
PROPERTIES ActionsAreSettled
CHECK_DEADLOCK FALSE
