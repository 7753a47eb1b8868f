SPECIFICATION Spec
CONSTANTS
  Callers = {d1}
  Quarters = {q1, q2}
  Installed = {q1}
  Entries = {e1, e2, e3, e4}
  Children = {c1, c2, c3, c4}
  IdleTimeout = 1
  GiveUpAfter = 1
  MaxTime = 2
  Faults = {"spawn", "call", "crash"}
  NoEntry = NoEntry
  NoChild = NoChild
  NoQuarter = NoQuarter
  Free = Free
SYMMETRY Symmetry
INVARIANTS NoOrphanChild CloseDrains MapHoldsLive
PROPERTY ChildrenAreOwned
