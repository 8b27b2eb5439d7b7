SPECIFICATION Spec
CONSTANTS
  MaxKeyFrames = 4
  MaxPoints = 1
  MaxMaps = 3
  MaxSessions = 3
  Inertial = TRUE
INVARIANTS
  TypeOK
  IdsAreFresh
  LoadedFitsTogether
  WholePointsReturn
CHECK_DEADLOCK FALSE
