SPECIFICATION Spec
CONSTANTS
  Vectors = {"a", "b"}
  Values = {"x", "y"}
  kFit = 2
  MaxSize = 3
  MaxThreads = 24
  ByteBits = 4
  WordBytes = 4
  Width = 8
  Clients = {c1, c2, c3}
  Callbacks = {f, g}
  NoCallback = noCallback
  NoClient = noClient
  Timeouts = {0, 1}
  Threads = {t1, t2, t3}
  References = {r1, r2, r3, r4}
  Nobody = nobody
  Addresses = {a1, a2}
  NoObject = noObject
  MaxFrames = 3
INVARIANTS StorageIsSound WalkVisitsEveryQueue EncodingsKeepOrder NumbersAreRead TextIsKept PathsKeepThePlace MessagesMerge ClearedCallbackIsQuiet CountIsTrusted
PROPERTIES IsASequence FreedOnceAndInTime
CHECK_DEADLOCK FALSE
