SPECIFICATION Spec
CONSTANTS
  NoClient = NoClient
  QueryLimit = 3
  PageSize = 2
  Marks = {"/", "."}
  Codebases <- MCCodebases
  Layout <- MCFiles
  Dirs <- MCDirs
  Slots = {s1, s2}
  MaxCalls = 3
  Faults = TRUE
INVARIANTS
  TypeOK
PROPERTIES
  OnlyWhatMatches
  RenameIsComplete
  
  ListingIsComplete
SYMMETRY Symmetry
CHECK_DEADLOCK FALSE
