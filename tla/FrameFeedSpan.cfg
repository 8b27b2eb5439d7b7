SPECIFICATION Spec
CONSTANTS
  Period = 2
  MaxTime = 5
  MaxSkew = 1
  MaxImu = 3
  MaxDepth = 2
INVARIANT
  SpanIsTheInterval
CHECK_DEADLOCK FALSE
