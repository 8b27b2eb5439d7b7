SPECIFICATION Spec
CONSTANTS
  Period = 2
  MaxTime = 5
  MaxSkew = 1
  MaxImu = 3
  MaxDepth = 2
INVARIANTS
  TypeOK
  SpanCoversFrame
  FrameUsesItsSamples
  ClosestDepthIsMatched
CHECK_DEADLOCK FALSE
