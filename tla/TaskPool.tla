------------------------------ MODULE TaskPool ------------------------------
(***************************************************************************)
(* What a thread pool promises to those who schedule tasks: a scheduled    *)
(* task starts exactly once, and when the destructor returns every task    *)
(* that was scheduled has finished.                                        *)
(***************************************************************************)
CONSTANT Tasks

VARIABLES status,     \* status[x]: how far task x has come
          destroyed   \* the destructor of the pool has returned

poolVars == <<status, destroyed>>

PoolInit ==
  /\ status = [x \in Tasks |-> "new"]
  /\ destroyed = FALSE

Move(x, from, to) ==
  /\ ~destroyed
  /\ status[x] = from
  /\ status' = [status EXCEPT ![x] = to]
  /\ UNCHANGED destroyed

Submit(x) == Move(x, "new", "queued")

(* A task runs when a thread takes it from a queue, or at once, on the     *)
(* thread that schedules it.                                               *)
Start(x) == Move(x, "queued", "running") \/ Move(x, "new", "running")

Finish(x) == Move(x, "running", "finished")

Destroy ==
  /\ \A x \in Tasks : status[x] \in {"new", "finished"}
  /\ destroyed' = TRUE
  /\ UNCHANGED status

PoolNext == (\E x \in Tasks : Submit(x) \/ Start(x) \/ Finish(x)) \/ Destroy

PoolSpec == PoolInit /\ [][PoolNext]_poolVars
=============================================================================
