\* Every part below the MQTT client on a small instance; see MCTransport.tla.
SPECIFICATION TransportSpec
CONSTANTS
  BUF_SIZE = 3
  Bytes = {0, 1}
  MaxChunk = 4
  MaxLen = 4
  MaxStacks = 3
  MaxMessages = 2
  Streams <- MCStreams
  BufLen = 131
  Junk <- SomeJunk
  Rems <- Lengths
  ReadBufLen = 131
  Packets <- AllPackets
  Frames <- AllFrames
  Slack <- SomeSlack
  MaxCount = 2
  Stale = 1
  LengthEdges <- Edges
  Filters <- MCFilters
  Names <- MCNames
INVARIANTS
  SessionSafe
  ReaderSafe
  CodecSafe
  ReturnedIsWhole
  MatchIsMeaning
PROPERTIES
  ImplementsStream
  TransportProgress
CHECK_DEADLOCK FALSE
