\* Inertial sensor; maps too large for a global bundle adjustment to be launched.
SPECIFICATION FairSpec
CONSTANTS
  MaxKeyFrames = 3
  Workers = {g1}
  Inertial = TRUE
  Operations = {"loop", "merge", "merge2"}
  LaunchGBA = {FALSE}
  ActiveLC = TRUE
  MaxOperations = 2
  MaxResets = 1
  MaxMaps = 1
INVARIANTS
  TypeOK
  StoppedMeansIdle
  NotStopHonoured
  PendingWorkAbortsBA
  CorrectionExclusive
PROPERTIES
  HandshakeIsLease
  
  
CHECK_DEADLOCK FALSE
