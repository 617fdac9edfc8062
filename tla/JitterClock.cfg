SPECIFICATION Spec
CONSTANTS
  s1 = s1
  s2 = s2
  Streams = {s1, s2}
  None = None
  MaxPacket = 4
  MaxTime = 3
  PacketFrames = 2
  SeqModulus = 4
  PosMod = 64
  FixedDelay = 2
  Capacity = 9
  Tolerance = 1
  MissLimit = 2
  RenderSizes = {2}
  Sub = 4
  Eps = 1
  Step = 5
  CorrPerFrame = 1
  CorrMax = 2
  SwitchTimeout = 2
  MaxWait = 1
  ClockSync = TRUE
  TickFrames = 2
  DriftTicks = 1
INVARIANTS BufferIsCurrentStream
SYMMETRY StreamSymmetry
PROPERTIES RendersBehindNewest ReaderNeverBacktracks
