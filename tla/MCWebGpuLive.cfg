\* Liveness, natively and in a browser, where a flush does not wait:
\* a blocking and an async thread, one storage over two buffers.
SPECIFICATION FairSpec
CONSTANTS
  NVal = 2
  Tensors = {t1}
  Threads = {a, b}
  Buffers = {b1, b2}
  None = None
  Inputs = {1}
  Blocking = {a}
  Async = {b}
  RingSlots = 1
  Targets = {"native", "wasm32"}
  MaxCommands = 2
  MaxStaged = 1
  MaxInFlight = 1
PROPERTIES
  OperationsReturn
