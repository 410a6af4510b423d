---------------------------- MODULE MCEventCount ----------------------------
(* Model checking of EventCount: the waiters are interchangeable, and so   *)
(* are the notifiers.                                                      *)
EXTENDS EventCount, TLC

Symmetry == Permutations(Waiters) \cup Permutations(Notifiers)
=============================================================================
