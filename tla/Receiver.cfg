SPECIFICATION ReceiverSpec
CONSTANTS
  Rate = 400
  LatencyMs = 5
  QueueCapacity = 2
  MaxDatagrams = 3
  Byte = 16
  Streams = {1, 2}
  None = None
  MaxPacket = 2
  MaxTime = 1
  PacketFrames = 2
  SeqModulus = 4
  PosMod = 64
  FixedDelay = 2
  Capacity = 240
  Tolerance = 4
  MissLimit = 200
  RenderSizes = {2}
  Sub = 4
  Eps = 1
  Step = 4
  CorrPerFrame = 1
  CorrMax = 2
  SwitchTimeout = 1
  MaxWait = 1
  ClockSync = FALSE
  TickFrames = 2
  DriftTicks = 1
  Sent <- MCSent
  Strays <- MCStrays
  RecvBuffer = 60
INVARIANTS RetrySucceeds LossIsReported EveryDatagramIsAccountedFor ParsedIsSent
PROPERTIES IsLossyFifo SilenceIsLoss DatagramsReachBuffer
