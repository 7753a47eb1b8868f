SPECIFICATION Spec
CONSTANTS
  q1 = q1
  q2 = q2
  bin = bin
  opt = opt
  Unknown = Unknown
  Malformed = Malformed
  NoStamp = NoStamp
  NoPath = NoPath
  Quarters <- TwoQuarters
  Dirs <- TwoDirs
  PathOrder <- SearchPath
  LinkNames = {Unknown}
  Disks <- SomeDisks
  Arguments <- SomeArguments
  Install <- Packages
  Params <- SomeParams
  MaxChanges = 1
CHECK_DEADLOCK FALSE
INVARIANTS RightParser OneExec ListingAgrees AnswerFromQuarter OneHop
PROPERTIES RoutingEnds CallEnds
