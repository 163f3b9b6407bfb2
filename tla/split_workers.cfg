SPECIFICATION FairSpec
CONSTANTS
  Files = {f1, f2, f3}
  MaxConcurrency = 2
  MayExpire = TRUE
  NoFile = NoFile
INVARIANTS
  TypeOK
  SuccessIsComplete
  ErrorsAreComplete
  ReadsWhenQuiet
PROPERTIES
  IsSplitPhase
  CallReturns
  WorkersEnd
CHECK_DEADLOCK FALSE
