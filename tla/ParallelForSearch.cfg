CONSTANTS
  Workers = {w1, w2, w3, w4}
  Callers = {main}
  Calls <- MCSearches
  kStartupCycles = 50
  kPerThreadCycles = 50
  kTaskSize = 20
  IntLimit = 256
SPECIFICATION SearchSpec
INVARIANTS SearchKeepsThreadsBusy
PROPERTIES SearchMakesProgress
