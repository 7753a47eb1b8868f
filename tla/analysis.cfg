CONSTANTS
  NoName = NoName
  NoTarget = NoTarget
  ErrorsOf <- SemErrors
  Builtins <- MCBuiltins
  Texts <- MCTexts
  Scripts <- MCScripts
  Rows <- MCRows
  Lookups <- MCLookups
  Summarized <- MCStatements
  Requests <- MCRequests
  MaxLines = 4
  MaxScript = 6
  MaxRows = 5
INIT Init
NEXT Next
CHECK_DEADLOCK FALSE
INVARIANTS
  TranslateExact
  NeverUnderFlags
  PlanRebuilt
  SuggestsNearest
  SummaryNamesTables
  VerdictIsOwn
  NamesMatchSql
