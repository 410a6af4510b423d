CONSTANTS
  Waiters = {p1, p2}
  Notifiers = {n1, n2}
  Nobody = nobody
  EpochMod = 16
  MaxWaits = 3
SPECIFICATION Spec
SYMMETRY Symmetry
INVARIANTS NobodyIsForgotten
PROPERTIES KeepsItsContract
