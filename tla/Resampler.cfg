SPECIFICATION Spec
CONSTANTS
  Sub = 10
  Ratios = {9, 10, 11, 20}
  ChunkSizes = {0, 1, 2, 5}
  MaxFrames = 12
INVARIANTS DrainInBounds TimelineIsKept ChunkingIsInvisible
