SPECIFICATION EnrollmentSpec
CONSTANTS
  MaxEdits = 2
  Required = 2
  Null = Null
  NoModel = NoModel
INVARIANTS CancelledNeverInstalled
