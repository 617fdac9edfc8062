SPECIFICATION Spec
CONSTANTS
  s1 = s1
  Streams = {s1}
  None = None
  MaxPacket = 5
  MaxTime = 0
  PacketFrames = 2
  SeqModulus = 4
  PosMod = 64
  FixedDelay = 3
  Capacity = 9
  Tolerance = 1
  MissLimit = 2
  RenderSizes = {1, 2}
  Sub = 4
  Eps = 1
  Step = 4
  CorrPerFrame = 1
  CorrMax = 2
  SwitchTimeout = 2
  MaxWait = 0
  ClockSync = FALSE
  TickFrames = 2
  DriftTicks = 1
INVARIANTS TypeOK SilenceRunBounded ReceivedIsAccountedFor
PROPERTIES ReceivedAudioIsPlayed DelayIsHeld
