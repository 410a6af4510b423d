SPECIFICATION Spec
CONSTANTS
  Setups <- MCSetups
  Sinks <- MCSinks
  Limits = {0, 1, 3, 5}
  Counts = {0, 1, 2, 3, 7}
  OverrunFiles = FALSE
  kMinimumSize = 3
  MaxInt = 11
  MaxWritten = 9
  Paths <- MCPaths
  Files = {"f1", "f2", "f3"}
  Procs = {1, 2}
  Plans <- MCPlans
  Trees <- MCTrees
  Schemes = {"file", "other"}
  MaxFaults = 1
INVARIANTS BackUpIsAccepted LimitIsKept OnlyWhatWasWritten NothingIsHeldBack
PROPERTIES ReadsInOrder TreesAreAsTold ContentIsWhole
CHECK_DEADLOCK FALSE
