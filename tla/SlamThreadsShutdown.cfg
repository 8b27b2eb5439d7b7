\* Shutdown and the lock order of Release and SetFinish.
SPECIFICATION FairSpec
CONSTANTS
  MaxKeyFrames = 2
  Workers = {g1}
  Inertial = TRUE
  Operations = {"loop", "merge", "merge2"}
  LaunchGBA = {FALSE}
  ActiveLC = TRUE
  MaxOperations = 1
  MaxResets = 1
  MaxMaps = 0
PROPERTIES
  ShutdownReturns
CHECK_DEADLOCK FALSE
