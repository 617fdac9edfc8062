SPECIFICATION FeedbackSpec
CONSTANTS
  Byte = 16
  None = None
  SampleRate = 600
  FixedDelay = 8
  Subframes = 12
  Drifts <- MCDrifts
  CorrPerFrame = 1
  CorrMax = 6
  AsrcKp = 1
  AsrcMax = 3
  MsUnit = 3
  ReportRounds = 4
  MaxInFlight = 2
  Strays <- MCStrays
INVARIANTS HeldIsAStatus LevelStaysInBand
PROPERTIES DriftIsCorrected
