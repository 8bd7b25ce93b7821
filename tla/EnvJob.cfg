SPECIFICATION FairSpec
CONSTANTS
  Workers = {w1, w2}
  NTiles = 2
  Infos = {i1}
  Scores = {0, 1, 2}
  MaxTags = 2
  MaxRuns = 2
INVARIANTS TypeOK OneWorkerPerTile OkMeansIntact OkMeansTagged
PROPERTIES JobEnds
CHECK_DEADLOCK FALSE
