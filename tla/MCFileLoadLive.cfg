CONSTANTS
  l1 = l1
  l2 = l2
  b1 = b1
  b2 = b2
  NULL = NULL
  Junk = Junk
  Loads <- TwoLoads
  Blocks <- TwoBlocks
  Chunks = 2
  Errors = {}
  OutOfMemory = FALSE

SPECIFICATION FairSpec
CHECK_DEADLOCK FALSE

PROPERTIES LoadEnds
