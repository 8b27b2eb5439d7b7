\* An object deleted after a new map was created.
SPECIFICATION Spec
CONSTANTS
  Tracks = {t1, t2}
  KeyFrames = {k1}
  NoKeyFrame = none
  ReconstructAfter = 1
  InsertAfter = 2
  History = 2
  Forget = 0
  Recall = 1
  MaxMaps = 2
INVARIANTS
  DeletedLeavesMaps
CHECK_DEADLOCK FALSE
