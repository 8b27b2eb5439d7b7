\* Inertial sensor, two maps: loops and merges, confirmed or refused.
SPECIFICATION Spec
CONSTANTS
  MaxKeyFrames = 4
  MaxMaps = 2
  MaxWeight = 1
  Reach = 3
  Threshold = 1
  Culling = TRUE
  Kinds = {"loop", "merge"}
  Inertial = TRUE
  MinKeyFrames = 2
  BoWMatches = {2, 3}
  MaxQueue = 2
INVARIANTS
  TreeSound
  MergeVerified
  DeferredErasureIsMade
PROPERTIES
  LoopEdgesKept
CHECK_DEADLOCK FALSE
