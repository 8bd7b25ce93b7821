SPECIFICATION Spec
CONSTANTS
  Parts = 3
  Graphs <- LongEdge
  BucketSize = 1
  CostFactor = 5
  Unreachable = 1000000
  ThresholdDelta = 1
CHECK_DEADLOCK FALSE
INVARIANTS BestRoute
