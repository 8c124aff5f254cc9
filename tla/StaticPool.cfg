SPECIFICATION Spec
CONSTANTS
  PoolStart = 10
  pool_size = 48
  HeaderSize = 8
  HeaderAlign = 2
  Sizes = {1, 2, 5, 12}
  Aligns = {2, 4}
CHECK_DEADLOCK FALSE
INVARIANTS
  LiveChunks
  ListIsSound
PROPERTY ImplementsBlocks
