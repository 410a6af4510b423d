CONSTANTS
  Workers = {w1, w2}
  Callers = {main, w1}
  Calls <- MCCalls
  kStartupCycles = 50
  kPerThreadCycles = 50
  kTaskSize = 20
  IntLimit = 128
SPECIFICATION FairSpec
INVARIANTS EveryIndexOnce BarrierGuardsTheFrame
PROPERTIES CallersReturn
