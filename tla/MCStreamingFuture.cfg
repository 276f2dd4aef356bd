\* As MCStreaming.cfg; asks whether attention ever sees a later column.
SPECIFICATION StreamingSpec
CONSTANTS
  max_seq_len = 4
  SeqLens <- AllLens
  MaxTotal = 40
  context = 3
  StepLens = {1, 2, 4}
  MaxPos = 7
  MaxStreams = 1
  Batches = {{x, y}, {z}}
  MimiContext = 3
  MimiMaxFed = 8
  Machines = {"mimi"}
SYMMETRY Symmetry
INVARIANT NoFutureKey
