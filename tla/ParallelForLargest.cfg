CONSTANTS
  Workers = {w1, w2}
  Callers = {main}
  Calls <- MCLargest
  kStartupCycles = 50
  kPerThreadCycles = 50
  kTaskSize = 20
  IntLimit = 128
SPECIFICATION SearchSpec
INVARIANTS BarrierCountFits
