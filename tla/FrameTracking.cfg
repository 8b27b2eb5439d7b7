SPECIFICATION FairSpec
CONSTANTS
  KFLimit = 1
  JumpTime = 1
  RecentlyLostTime = 2
  VisualLostTime = 2
  Menus = {"reset", "stop", "step", "quit"}
INVARIANTS
  LostIsTransient
  PredictionIsBounded
  PoseMeansLocalised
  NotDrawnWhileCleared

  
  
CHECK_DEADLOCK FALSE
