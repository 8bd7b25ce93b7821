SPECIFICATION Spec
CONSTANTS
  Parts = 3
  Graphs <- Detour
  BucketSize = 1
  CostFactor = 10
  Unreachable = 1000000
  MaxDistance = 100
  MaxNoConvergence = 8
CHECK_DEADLOCK FALSE
INVARIANTS BestRouteInShade
