CONSTANTS
  disk = disk
  net = net
  d1 = d1
  d2 = d2
  n1 = n1
  NoStream = NoStream
  NoPB = NoPB
  MaxOps = 3
  Streams <- MCStreams
  PBs <- MCPBs
  Owner <- MCOwner
  Level <- MCLevel

SPECIFICATION FairSpec

INVARIANTS NoLostWakeup LinkedOnce HeadStable

PROPERTIES EventLoopReturns DeliversInOrder EveryOperationHandled
