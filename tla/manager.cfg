SPECIFICATION ManagerSpec
CONSTANTS
  Stmts <- Shapes
  Sessions = {s1, s2}
  NoSession = NoSession
  MaxRows = 3
  Caps = {0, 2}
INVARIANTS NoLeakedSession
  OnlyExecuteWrites CutIsReported
PROPERTY CallIsAtomic
