\* Visual sensor: every loop closure launches a global bundle adjustment.
SPECIFICATION Spec
CONSTANTS
  MaxKeyFrames = 3
  Workers = {g1, g2}
  Inertial = FALSE
  Operations = {"loop"}
  LaunchGBA = {TRUE}
  ActiveLC = TRUE
  MaxOperations = 2
  MaxResets = 1
  MaxMaps = 1
INVARIANTS
  ResetFindsThreadsClean
SYMMETRY WorkerSymmetry
CHECK_DEADLOCK FALSE
