SPECIFICATION FairSpec
CONSTANTS
  Stmts <- AllShapes
  Sessions = {s1}
  NoSession = NoSession
  MaxRows = 3
  Caps = {0, 2}
  MaxBatch = 2
  MaxTargets = 2
CHECK_DEADLOCK FALSE
INVARIANTS ContactOnlyAdmitted ModeIsContract AnswerLeavesNoSession
PROPERTIES FailureIsSticky EveryRequestAnswered
