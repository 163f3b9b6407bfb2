SPECIFICATION Spec
CONSTANTS
  Requests = {r1}
  Files = {f1}
  Alike <- NoneAlike
  MaxChunks = 1
  PoolSize = 1
  QueueSize = 1
  Ops <- WriteOnly
  SplitOutcomes <- ChunkedOnly
  Faults <- EmbedOnly
  MaxCrashes = 0
  NoId = NoId
INVARIANTS
  CompletedMeansIndexed
CHECK_DEADLOCK FALSE
