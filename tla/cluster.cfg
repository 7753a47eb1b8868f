SPECIFICATION FairSpec
CONSTANTS
  Tests = {t1, t2}
  Main = Main
  External = External
  Nobody = Nobody
  NoCluster = NoCluster
  DsnSet = {TRUE, FALSE}
  Faults = {"binary", "tempdir", "exec", "deaf", "signal", "kill", "remove"}
CHECK_DEADLOCK FALSE
INVARIANTS FailedStartClean StopAccounts OneSharedCluster NothingOutlivesTests
PROPERTIES BinaryExits
