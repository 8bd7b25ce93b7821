SPECIFICATION Spec
CONSTANTS
  Threads = {t1}
  Tiles = {a, b, c}
  Sizes = {3}
  Configs <- HardExtract
  max_cache_size = 5
  AVERAGE_MM_TILE_SIZE = 2
  Word = 64
  tile_getter = TRUE
  Server = {a}
  MaxReplace = 1
  MaxHeld = 4
INVARIANTS NeverOvercommitted
