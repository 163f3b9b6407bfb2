SPECIFICATION Spec
CONSTANTS
  Requests = {r1, r2}
  Files = {f1, f2}
  Alike <- OneFindsAll
  MaxChunks = 2
  PoolSize = 2
  QueueSize = 1
  Ops <- WriteOrNot
  SplitOutcomes <- ChunkedOnly
  Faults <- DatabaseAndDeadline
  MaxCrashes = 1
  NoId = NoId
INVARIANTS
  CompletedMeansIndexed
  SomeVersionStays
  OrphansWereTurnedAway
SYMMETRY UploadSymmetry
CHECK_DEADLOCK FALSE
