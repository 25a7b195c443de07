CONSTANTS
  l1 = l1
  l2 = l2
  b1 = b1
  b2 = b2
  NULL = NULL
  Junk = Junk
  Loads <- TwoLoads
  Blocks <- TwoBlocks
  Chunks = 2
  Errors <- AllErrors
  OutOfMemory = TRUE

SPECIFICATION Spec
CHECK_DEADLOCK FALSE

INVARIANTS OneOperation UriOwnsData ExactDelivery WindowTracksRequest
