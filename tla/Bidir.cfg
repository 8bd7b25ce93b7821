SPECIFICATION Spec
CONSTANTS
  Parts = 2
  Graphs <- BidirGraphs
  BucketSize = 2
  CostFactor = 5
  Unreachable = 1000000
  ThresholdDelta = 5
CHECK_DEADLOCK FALSE
INVARIANTS TypeOK BestRoute NoRouteMissed
PROPERTIES ConnectionsHold TreesUseLabelQueue
