\* As MCStreaming.cfg; asks whether every step of the scattered cache attends.
SPECIFICATION StreamingSpec
CONSTANTS
  max_seq_len = 4
  SeqLens <- AllLens
  MaxTotal = 40
  context = 3
  StepLens = {1, 2, 4}
  MaxPos = 7
  MaxStreams = 1
  Batches = {{z}}
  MimiContext = 8
  MimiMaxFed = 16
  Machines = {"scattered"}
SYMMETRY Symmetry
INVARIANT AttendsToOwnStream
