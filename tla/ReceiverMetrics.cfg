SPECIFICATION Spec
CONSTANTS
  s1 = s1
  s2 = s2
  Senders <- MCSenders
  None = None
  ClockOf <- MCClockOf
  SampleCapacity = 1
  MaxTime = 2
  MaxArrivals = 3
  MaxPackets = 3
  MaxCallbacks = 2
INVARIANTS RatesDoNotWrap SamplesAreReportedOnce ForeignIsAnother StallIsSeen SendGapIsOneSenders
