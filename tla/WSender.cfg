SPECIFICATION FairSpec
CONSTANTS
  CaptureSizes = {2, 5}
  MaxPacketFrames = 2
  SeqModulus = 3
  MaxCaptures = 3
INVARIANTS NoLostEvent PositionsFollowCapture BufferIsReturned
PROPERTIES CaptureIsDrained ShutdownCompletes
CHECK_DEADLOCK FALSE
