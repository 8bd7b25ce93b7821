SPECIFICATION Spec
CONSTANTS
  Threads = {t1, t2}
  Tiles = {a, b}
  Sizes = {2, 3, 6}
  Configs <- SoundConfigs
  max_cache_size = 5
  AVERAGE_MM_TILE_SIZE = 2
  Word = 64
  tile_getter = TRUE
  Server = {a}
  MaxReplace = 1
  MaxHeld = 3
SYMMETRY Symmetry
INVARIANTS TypeOK BooksBalance NeverOvercommitted TilesRight
PROPERTIES TrimRelieves
