\* Two threads that block, one of which also awaits; two storages over two
\* buffers and a ring of one slot.
SPECIFICATION Spec
CONSTANTS
  NVal = 2
  Tensors = {t1, t2}
  Threads = {a, b}
  Buffers = {b1, b2}
  None = None
  Inputs = {1}
  Blocking = {a, b}
  Async = {b}
  RingSlots = 1
  Targets = {"native"}
  MaxCommands = 2
  MaxStaged = 1
  MaxInFlight = 1
SYMMETRY Symmetry
INVARIANTS
  TypeOK
  AsIfEager
  PoolIsIdle
  OneOwner
