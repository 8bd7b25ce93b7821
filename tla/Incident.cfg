SPECIFICATION FairSpec
CONSTANTS
  Tiles = {t1, t2}
  Configs <- MCConfigs
  MaxTime = 2
  MaxWrites = 3
INVARIANTS TypeOK NoMissedUpdate ReadyMeansLoaded
PROPERTIES CacheConverges ConstructorReturns
CHECK_DEADLOCK FALSE
