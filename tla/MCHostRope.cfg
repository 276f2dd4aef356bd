\* As MCHostCode.cfg, with rotation tables longer than the sequence.
SPECIFICATION HostSpec
CONSTANTS
  Length = 33
  Chunk = 2
  Nth = 2
  Threads = {a, b, c}
  Storages <- StorageNames
  Ops <- AllOps
  Machines = {"kernels"}
  Shapes <- KernelShapes
  Strides = {0, 1, 3}
  Tile = 2
  PoolSize = 3
  Lanes = 2
  RowsPerPiece = 2
  RowTile = 2
  ColTile = 1
  LongTables = TRUE
INVARIANT ComputesAsDefined
SYMMETRY Symmetry
CHECK_DEADLOCK FALSE
