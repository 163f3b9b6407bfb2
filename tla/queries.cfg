SPECIFICATION Spec
CONSTANTS
  TreeRequests <- MCTreeRequests
  Questions <- MCQuestions
  Places = {1, 2}
  Scores = {1, 2}
  MaxDocuments = 2
  DefaultTopK = 1
  Tables <- MCTables
  Stores <- MCStores
INVARIANTS
  TreeShowsEveryFile
  SearchKeepsDocuments
  SummariesAreTrue
CHECK_DEADLOCK FALSE
