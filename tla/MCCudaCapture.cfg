\* A driver and another thread, two storages, two contents, two staged
\* buffers, captures of two steps, with operations that copy from the host.
SPECIFICATION Spec
CONSTANTS
  NVal = 2
  Tensors = {t1, t2}
  Threads = {d, a}
  Driver = d
  None = None
  Inputs = {0, 1}
  X = x
  Y = y
  Staged = {s1, s2}
  MaxCaptured = 2
SYMMETRY Symmetry
VIEW View
INVARIANTS
  TypeOK
  AsIfEager
  GraphReadsStaged
