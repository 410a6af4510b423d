CONSTANTS
  Notifiers = {n1, n2, n3, n4}
  Waiters = {u1, u2}
  Free = free
SPECIFICATION FairSpec
INVARIANTS NobodyReturnsEarly DestroyedAfterUse
PROPERTIES WaitersReturn
