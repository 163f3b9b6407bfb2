SPECIFICATION FairSpec
CONSTANTS
  Requests = {r1, r2, r3}
  Files = {f1}
  Alike <- NoneAlike
  MaxChunks = 1
  PoolSize = 1
  QueueSize = 1
  Ops <- WriteOrNot
  SplitOutcomes <- AllOutcomes
  Faults <- DatabaseOnly
  MaxCrashes = 1
  NoId = NoId
PROPERTIES
  PoolIsRespected
  PollingEnds
CHECK_DEADLOCK FALSE
