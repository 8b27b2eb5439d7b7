SPECIFICATION Spec
CONSTANTS
  MaxKeyFrames = 3
  MaxPoints = 2
  Features = {1, 2}
  DepthFeatures = {1}
  ThObs = 1
  MinKeyFrames = 2
  MaxLoops = 1
INVARIANTS
  TypeOK
  ObservationsMatchSlots
  NeverUndercounted
  ReferenceObserves
  MapHoldsGoodPoints
CHECK_DEADLOCK FALSE
