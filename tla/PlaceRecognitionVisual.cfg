\* Visual sensor, one map: loops, confirmed over several keyframes or given up.
SPECIFICATION Spec
CONSTANTS
  MaxKeyFrames = 5
  MaxMaps = 1
  MaxWeight = 1
  Reach = 2
  Threshold = 1
  Culling = TRUE
  Kinds = {"loop"}
  Inertial = FALSE
  MinKeyFrames = 2
  BoWMatches = {2}
  MaxQueue = 1
INVARIANT
  LoopVerified
CHECK_DEADLOCK FALSE
