\* A thread that computes and one that synchronises, two storages over four
\* buffers; batches of one dispatch (Vulkan) or of one or two commands (Metal).
SPECIFICATION Spec
CONSTANTS
  NVal = 2
  Tensors = {t1, t2}
  Threads = {a, b}
  Buffers = {b1, b2, b3, b4}
  None = None
  Inputs = {1}
  X = x
  Y = y
  Workers = {a}
  MaxSets = 1
  QueryCap = 3
  MaxCopies = 1
  MaxCommands = 2
  Limits <- MCLimits
  Profiling = {TRUE, FALSE}
SYMMETRY Symmetry
INVARIANTS
  TypeOK
  AsIfEager
  PoolIsIdle
  HolderGoesOn
