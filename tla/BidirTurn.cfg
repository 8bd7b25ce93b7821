SPECIFICATION Spec
CONSTANTS
  Parts = 2
  Graphs <- Crossings
  BucketSize = 2
  CostFactor = 5
  Unreachable = 1000000
  ThresholdDelta = 40
CHECK_DEADLOCK FALSE
INVARIANTS RestrictionsObeyed
