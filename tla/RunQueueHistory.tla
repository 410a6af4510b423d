-------------------------- MODULE RunQueueHistory --------------------------
(***************************************************************************)
(* RunQueue with a history variable: how often front_ has been moved while *)
(* a thread is in Size().  Its second load of front_ (run_queue.h:121)     *)
(* compares index and modification counter, and both come round: the       *)
(* counter after Laps pushes, and the index, which a pop moves without     *)
(* touching the counter (line 51), after Lap pops that PushBack made up    *)
(* for.  How far a reported size can be trusted depends on it.             *)
(***************************************************************************)
EXTENDS RunQueue

VARIABLE moves   \* moves[t]: changes of front_ since the Size() that t is in
                 \* loaded it

InSize(t) == pc[t] \in {SizeBack[c] : c \in Callers} \cup {SizeCheck[c] : c \in Callers}

HistoryInit == Init /\ moves = [t \in Thieves |-> 0]

HistoryNext ==
  /\ Next
  /\ moves' = [t \in Thieves |->
                 IF ~(InSize(t) /\ InSize(t)') THEN 0
                 ELSE IF front' = front THEN moves[t] ELSE moves[t] + 1]

HistorySpec == HistoryInit /\ [][HistoryNext]_<<vars, moves>>

-----------------------------------------------------------------------------
(* Neither the counter nor the index had the time to come round. *)
Brief(t) == moves[t] < Laps /\ moves[t] < Lap

(* Size() never reports fewer elements than were ready at some instant     *)
(* during the call, so Empty() cannot hide work from a worker about to     *)
(* sleep, unless front_ was moved too often in between: what the           *)
(* modification counters and the second load are for.                      *)
SizeNeverTooSmall ==
  \A t \in Thieves, caller \in Callers, size \in 0..kSize :
    SizeIs(t, caller, size) /\ Brief(t) => size >= reg[t].seen
=============================================================================
