CONSTANTS
  BLOCK_LEN = 2
  PROT_LEN = 2
  FIELDS_LEN = 3
  UNKNOWN_ID = 20
  PEER_FIELDS <- MCPeerFields
  PieceLens = {3, 4}
  FileLens <- MCFileLens
  MaxPartial = 2
  BufferLens <- MCBufferLens
  Limits = {1, 2, 3, 4, 5, 6, 7}
  Streams <- MCStreams
  BlockCount = 4
  MIN_TIMEOUT = 1
  SLOW_START_ERROR_MARGIN = 1
  START_REQUEST_QUEUE_LEN = 2
  WEIGHT = 2
  INVERTED_GAIN = 2
  RATE_UNIT = 64
  MaxTicks = 5
  MaxBlocks = 5
  MaxUnchokes = 2
SPECIFICATION Spec
INVARIANTS
  LayoutConsistent
  PieceWritten
  WriteStaysInPiece
  ReadIsExact
  SplitKeepsBytes
  StreamReceived
  LoopPicks
  SingleRequestUntilRecovery
  PipelineNeverStalls
  AverageWithinSamples
  RoundsSent
CHECK_DEADLOCK FALSE
