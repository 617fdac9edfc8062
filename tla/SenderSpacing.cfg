SPECIFICATION FairSpec
CONSTANTS
  PacketFrames = 2
  CatchUp = 2
  Burst = 2
  ChunkSizes = {0, 3, 7}
  MaxChunk = 7
  Intervals = {2}
  SeqModulus = 3
  MaxFrames = 14
  MaxLag = 5
PROPERTIES PacketsAreSpaced
CHECK_DEADLOCK FALSE
