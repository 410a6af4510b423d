------------------------------ MODULE StealWalk ------------------------------
(***************************************************************************)
(* The loop shared by Steal and NonEmptyQueueIndex                         *)
(* (src/core/base/thread/non_blocking_thread_pool.h), for every number of  *)
(* queues up to MaxThreads and every random draw: the walk on which        *)
(* WaitForWork relies when it concludes that all queues are empty.         *)
(***************************************************************************)
EXTENDS StealOrder, FiniteSets

CONSTANT MaxThreads
ASSUME MaxThreadsAssumption == MaxThreads \in Nat \ {0}

VARIABLES size,      \* queues_.size()
          inc,       \* coprimes_[r % coprimes_.size()]
          victim,    \* the queue to visit next
          visited    \* the queues visited, in order

walkVars == <<size, inc, victim, visited>>

WalkInit ==
  /\ size \in 1..MaxThreads
  /\ \E r \in Draws(size) :
       /\ inc = Increment(r, size)
       /\ victim = FirstVictim(r, size)
  /\ visited = <<>>

Visit ==
  /\ Len(visited) < size
  /\ visited' = Append(visited, victim)
  /\ victim' = NextVictim(victim, inc, size)
  /\ UNCHANGED <<size, inc>>

WalkDone == Len(visited) = size /\ UNCHANGED walkVars

WalkNext == Visit \/ WalkDone
WalkSpec == WalkInit /\ [][WalkNext]_walkVars

-----------------------------------------------------------------------------
(* A walk that finds nothing has looked at every queue, and at none twice, *)
(* though the step is reduced by a single subtraction.                     *)
WalkVisitsEveryQueue ==
  /\ \A i, j \in 1..Len(visited) : visited[i] = visited[j] => i = j
  /\ Len(visited) = size => {visited[i] : i \in 1..size} = 0..(size - 1)
=============================================================================
