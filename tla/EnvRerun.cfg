SPECIFICATION Spec
CONSTANTS
  Workers = {w1}
  NTiles = 1
  Infos = {i1}
  Scores = {0, 1, 2}
  MaxTags = 3
  MaxRuns = 2
INVARIANTS RerunTakesEffect
CHECK_DEADLOCK FALSE
