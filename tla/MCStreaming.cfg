\* A ring of four keys, appends from a single key to twice the ring and one;
\* two elements over rings of three that advance, pause and are reset
\* independently; the other machines as MCStreaming instantiates them.
SPECIFICATION StreamingSpec
CONSTANTS
  max_seq_len = 4
  SeqLens <- AllLens
  MaxTotal = 40
  context = 3
  StepLens = {1, 2, 4}
  MaxPos = 7
  MaxStreams = 1
  Batches = {{x, y}, {z}}
  MimiContext = 8
  MimiMaxFed = 12
  Machines = {"ring", "scattered", "mimi", "demucs"}
SYMMETRY Symmetry
INVARIANTS
  TypeOK
  RingInOrder
  PositionsUnlessRingful
  MaskMatchesReturned
  ReturnsLastKeys
  IndexFollowsPosition
  AttendsOnceStored
  StreamIsWhole
  FramesAlign
  FlushCompletes
