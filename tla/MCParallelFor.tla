--------------------------- MODULE MCParallelFor ---------------------------
(* Model checking of ParallelFor, with the cost constants in the ratio of  *)
(* the code's (100000, 100000, 40000).                                     *)
EXTENDS ParallelFor

Call(n, cost, align) == [n |-> n, cost |-> cost, align |-> align]

(* Loops of 0 to 4 blocks, two at a time, one of them from inside the      *)
(* pool: nothing to do, run inline, blocks of 1 and of 2, blocks made      *)
(* coarser, a short last block, aligned blocks.                            *)
MCCalls == {Call(0, 21, 1), Call(8, 1, 1), Call(5, 21, 2), Call(8, 14, 1), Call(10, 11, 4)}

(* The search for a block size alone, for every total up to 80 *)
MCSearches == {Call(n, cost, align) : n \in 0..80, cost \in -1..25, align \in {1, 3, 4}}

SearchNext ==
  \/ \E c \in Callers : (\E a \in Calls : Start(c, a)) \/ Coarsen(c)
  \/ UNCHANGED vars

SearchSpec == Init /\ [][SearchNext]_vars

(* Totals up to the largest Index *)
MCLargest == {Call(n, cost, 1) : n \in 100..127, cost \in 1..9}
=============================================================================
