SPECIFICATION Spec
CONSTANTS
  Parts = 3
  Graphs <- SearchGraphs
  BucketSize = 5
  CostFactor = 10
  Unreachable = 1000000
  MaxDistance = 100
  MaxNoConvergence = 8
CHECK_DEADLOCK FALSE
INVARIANTS TypeOK BestRoute NoRouteMissed RestrictionsObeyed LabelsConsistent SearchEnds
PROPERTIES UsesLabelQueue
