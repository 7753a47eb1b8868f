SPECIFICATION Spec
CONSTANTS
  q1 = q1
  q2 = q2
  bin = bin
  opt = opt
  Unknown = Unknown
  Malformed = Malformed
  NoStamp = NoStamp
  NoPath = NoPath
  Quarters <- TwoQuarters
  Dirs <- TwoDirs
  PathOrder <- SearchPath
  LinkNames <- AnyName
  Disks <- LinkedDisks
  Arguments <- SomeArguments
  Install <- Packages
  Params <- SomeParams
  MaxChanges = 0
CHECK_DEADLOCK FALSE
PROPERTY RoutingEnds
