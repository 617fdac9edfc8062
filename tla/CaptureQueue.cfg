SPECIFICATION FairSpec
CONSTANTS
  QueueCapacity = 2
  Spare = 2
  MaxCallbacks = 6
INVARIANTS PoolNeverDry EveryChunkIsAccountedFor NoLostWakeup
PROPERTIES IsLossyFifo QueuedIsHandled
