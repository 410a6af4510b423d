CONSTANTS
  Waiters = {p1, p2}
  Notifiers = {n1}
  Nobody = nobody
  EpochMod = 12
  MaxWaits = 3
SPECIFICATION FairSpec
PROPERTIES NotifiedWaiterLeaves CancelReturns
