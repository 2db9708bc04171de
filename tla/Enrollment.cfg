SPECIFICATION EnrollmentSpec
CONSTANTS
  MaxEdits = 3
  Required = 2
  Null = Null
  NoModel = NoModel
INVARIANTS ActiveNotReleased ShadowMatchesState RestartKeepsModel
PROPERTIES TrainingEnds
