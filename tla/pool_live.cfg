SPECIFICATION FairSpec
CONSTANTS
  Callers = {d1, d2}
  Quarters = {q1}
  Installed = {q1}
  Entries = {e1, e2}
  Children = {c1, c2}
  IdleTimeout = 1
  GiveUpAfter = 0
  MaxTime = 1
  Faults = {}
  NoEntry = NoEntry
  NoChild = NoChild
  NoQuarter = NoQuarter
  Free = Free
INVARIANT CallIsolation
PROPERTIES DispatchReturns CloseReturns IdleSweep
