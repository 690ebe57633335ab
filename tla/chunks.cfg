SPECIFICATION Spec
CONSTANTS
  Regions = {r1, r2}
  NoRegion = NoRegion
  WordSize = 16
  HeaderSize = 1
  MinChunkSize = 2
  AllocationSize = 8
  Needs <- ChunkNeeds
SYMMETRY Symmetry
INVARIANTS
  TypeOK
  LiveApart
  WordsOutOfReach
  UnusedChunksListed
  InductiveInvariant
CHECK_DEADLOCK FALSE
