\* As MCHostCode.cfg, with two threads that add to each other's operand; asks
\* whether they ever wait for each other.
SPECIFICATION HostSpec
CONSTANTS
  Length = 33
  Chunk = 2
  Nth = 2
  Threads = {a, b}
  Storages <- StorageNames
  Ops <- TwoOps
  Machines = {"locks"}
  Shapes <- KernelShapes
  Strides = {0, 1, 3}
  Tile = 2
  PoolSize = 3
  Lanes = 2
  RowsPerPiece = 2
  RowTile = 2
  ColTile = 1
  LongTables = FALSE
SYMMETRY Symmetry
INVARIANT NoCircularWait
CHECK_DEADLOCK FALSE
