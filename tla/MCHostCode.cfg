\* 33 elements in pieces of 2 for 2 threads: 17 pieces in runs of 2, the
\* last run and the last piece short; the rest as in MCHostCode.
SPECIFICATION HostSpec
CONSTANTS
  Length = 33
  Chunk = 2
  Nth = 2
  Threads = {a, b, c}
  Storages <- StorageNames
  Ops <- AllOps
  Machines = {"helpers", "locks", "views", "kernels", "blocks", "product"}
  Shapes <- KernelShapes
  Strides = {0, 1, 3}
  Tile = 2
  PoolSize = 3
  Lanes = 2
  RowsPerPiece = 2
  RowTile = 2
  ColTile = 1
  LongTables = FALSE
SYMMETRY Symmetry
INVARIANTS
  PiecesDisjoint
  SliceCovered
  CirclesCrossOrder
  HalfWrittenNotUsed
  ViewShowsSelected
  PiecesApart
  ComputesAsDefined
  DecodedAsStored
CHECK_DEADLOCK FALSE
