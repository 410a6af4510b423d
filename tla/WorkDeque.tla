------------------------------ MODULE WorkDeque ------------------------------
(***************************************************************************)
(* What a RunQueue promises to the pool: a bounded double-ended queue      *)
(* whose operations take effect at one instant.  One owner works at the    *)
(* front; any thread may work at the back.  A refused push and a pop that  *)
(* finds nothing (or finds the lock taken) change nothing and are          *)
(* stuttering steps here.                                                  *)
(***************************************************************************)
EXTENDS Naturals, Sequences, SequencesExt

CONSTANTS Works,       \* the work items
          Capacity     \* kSize

VARIABLES deque,       \* the queued items, front first
          out          \* the items handed to a caller by some pop

dequeVars == <<deque, out>>

DequeTypeOK ==
  /\ deque \in BoundedSeq(Works, Capacity)
  /\ out \subseteq Works

DequeInit ==
  /\ deque = <<>>
  /\ out = {}

Queued == {deque[i] : i \in 1..Len(deque)}

DequePushFront(w) ==
  /\ w \notin out \cup Queued
  /\ Len(deque) < Capacity
  /\ deque' = <<w>> \o deque
  /\ UNCHANGED out

DequePushBack(w) ==
  /\ w \notin out \cup Queued
  /\ Len(deque) < Capacity
  /\ deque' = Append(deque, w)
  /\ UNCHANGED out

DequePopFront ==
  /\ deque # <<>>
  /\ deque' = Tail(deque)
  /\ out' = out \cup {Head(deque)}

(* PopBack takes one item, PopBackHalf at most half of a full queue.       *)
DequePopBack(n) ==
  /\ n \in 1..Len(deque)
  /\ deque' = SubSeq(deque, 1, Len(deque) - n)
  /\ out' = out \cup {deque[i] : i \in (Len(deque) - n + 1)..Len(deque)}

DequeNext ==
  \/ \E w \in Works : DequePushFront(w) \/ DequePushBack(w)
  \/ DequePopFront
  \/ \E n \in 1..(Capacity \div 2) : DequePopBack(n)

DequeSpec == DequeInit /\ [][DequeNext]_dequeVars
==============================================================================
