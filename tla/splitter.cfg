SPECIFICATION Spec
CONSTANTS
  Options <- MCOptions
  Documents <- MCDocuments
  MaxUnits = 10
  MaxBreaks = 1
  MaxCuts = 1
INVARIANTS
  WindowsCoverText
  RangesAreOrdered
  PiecesAreTrue
CHECK_DEADLOCK FALSE
