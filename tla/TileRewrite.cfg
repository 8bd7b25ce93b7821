SPECIFICATION Spec
CONSTANTS
  Edges <- MCEdges
  Values <- MCValues
  Width <- MCWidth
  Owner <- MCOwner
  kMaxNamesPerEdge = 2
  BaseSizes = {13}
  NameWidths = {6}
  BinSizes = {1}
  ElevationSizes = {0, 2, 8}
  MaxBatch = 2
INVARIANTS TypeOK TileConsistent TextsKept
