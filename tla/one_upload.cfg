SPECIFICATION FairSpec
CONSTANTS
  Requests = {r1}
  Files = {f1, f2}
  Alike <- NoneAlike
  MaxChunks = 2
  PoolSize = 1
  QueueSize = 1
  Ops <- AllOps
  SplitOutcomes <- AllOutcomes
  Faults <- AllFaults
  MaxCrashes = 1
  NoId = NoId
INVARIANTS
  TypeOK
  CompletedMeansOver
  FailedMeansOver
  CompletedItemsEmbedded
PROPERTIES
  UnsupportedSticks
  CompletedIsFinal
  SplitsAsAgreed
  TasksTerminate
CHECK_DEADLOCK FALSE
