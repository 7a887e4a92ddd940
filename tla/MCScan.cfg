SPECIFICATION Spec
CONSTANTS
  Documents <- MCDocuments
  Uri <- MCUri
  Terms = {"c", "r", "x", "z"}
  SkipInterval = 2
  Params = 1
  Corpora <- MCCorpora
  Queries <- MCQueries
  Limits = {1, 2}
  Globals <- MCGlobals
  None = None
CHECK_DEADLOCK TRUE
INVARIANTS
  AnswerIsExhaustive
  CursorsReadTheList
PROPERTIES
  TurnsAdvance
