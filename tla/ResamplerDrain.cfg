SPECIFICATION Spec
CONSTANTS
  Sub = 10
  Ratios = {20, 21}
  ChunkSizes = {1, 2, 5}
  MaxFrames = 30
INVARIANTS DrainInBounds
CHECK_DEADLOCK FALSE
