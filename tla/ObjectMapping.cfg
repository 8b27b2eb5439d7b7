\* Two tracks, one keyframe, two maps; the thresholds are scaled down.
SPECIFICATION FairSpec
CONSTANTS
  Tracks = {t1, t2}
  KeyFrames = {k1}
  NoKeyFrame = none
  ReconstructAfter = 1
  InsertAfter = 2
  History = 2
  Forget = 0
  Recall = 1
  MaxMaps = 2
INVARIANTS
  TypeOK
  QueueMatchesSet
  QueuedObjectsAlive
  SingleMapSound
PROPERTIES
  LivesOnce
  ModifiedIsServed
  FinishAnswered
CHECK_DEADLOCK FALSE
