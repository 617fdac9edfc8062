SPECIFICATION FairSpec
CONSTANTS
  PacketFrames = 2
  CatchUp = 2
  Burst = 2
  ChunkSizes = {0, 3, 7}
  MaxChunk = 7
  Intervals = {1, 2}
  SeqModulus = 3
  MaxFrames = 14
  MaxLag = 5
INVARIANTS FramesAreAccountedFor StreamIsRegular BacklogIsBounded
PROPERTIES ReadyIsSent
CHECK_DEADLOCK FALSE
