----------------------------- MODULE ThreadPool -----------------------------
(***************************************************************************)
(* NonBlockingThreadPoolTempl                                              *)
(* (src/core/base/thread/non_blocking_thread_pool.h): the workers, the     *)
(* threads that schedule tasks, and the destructor.                        *)
(*                                                                         *)
(* The run queues and the event count are the atomic objects that RunQueue *)
(* and EventCount are shown to implement (WorkDeque, EventCountSpec).  An  *)
(* operation on the back of a queue holds the queue's lock from its effect *)
(* until the following action, so that the others find it taken.           *)
(***************************************************************************)
EXTENDS Integers, Sequences, FiniteSets, StealOrder

CONSTANTS NumThreads,  \* num_threads
          Tasks,       \* all tasks
          Roots,       \* the tasks the owner of the pool schedules, in order
          Children,    \* Children[x]: the tasks x schedules when it runs
          Main,        \* the thread that owns the pool
          Free,        \* a queue's lock nobody holds
          Capacity,    \* kSize of the queues, 1024 in the code
          Spins        \* rounds of stealing of a spinning worker, 1000

ASSUME PoolAssumption ==
  /\ NumThreads \in Nat \ {0} /\ Capacity \in Nat \ {0} /\ Spins \in Nat \ {0}
  /\ Roots \in Seq(Tasks) /\ Children \in [Tasks -> Seq(Tasks)]
  /\ Main \notin Nat /\ Free \notin Nat \cup {Main}

(* A task is one call of Schedule: no two calls schedule the same one. *)
Schedules(x) == IF x = Main THEN Roots ELSE Children[x]

ASSUME TaskAssumption ==
  /\ Main \notin Tasks
  /\ \A x, y \in Tasks \cup {Main} :
       \A i \in 1..Len(Schedules(x)), j \in 1..Len(Schedules(y)) :
         Schedules(x)[i] = Schedules(y)[j] => x = y /\ i = j

Workers == 0..(NumThreads - 1)
Threads == Workers \cup {Main}

VARIABLES
  queue,       \* queue[q]: the tasks in queues_[q], front first
  lock,        \* lock[q]: who holds the mutex_ of queues_[q]
  announced, parked, released,   \* ec_
  blocked,     \* blocked_
  spinning,    \* spinning_
  done,        \* done_
  pc,          \* pc[t]: where thread t is
  frames,      \* frames[t]: the calls of ExecuteTask t is in, innermost first
  walk,        \* walk[t]: its walk over the queues in Steal, NonEmptyQueueIndex
  status       \* status[x]: "new", "queued", "running" or "finished"

ecVars == <<announced, parked, released>>
vars == <<queue, lock, ecVars, blocked, spinning, done, pc, frames, walk, status>>

Ec == INSTANCE EventCountSpec WITH Waiters <- Workers

-----------------------------------------------------------------------------
Go(t, label) == pc' = [pc EXCEPT ![t] = label]

NoWalk == [victim |-> 0, inc |-> 1, left |-> 0, rounds |-> 0]
WalkFrom(r, rounds) ==
  [victim |-> FirstVictim(r, NumThreads), inc |-> Increment(r, NumThreads),
   left |-> NumThreads, rounds |-> rounds]
Onward(k) ==
  [k EXCEPT !.victim = NextVictim(k.victim, k.inc, NumThreads), !.left = @ - 1]

Init ==
  /\ queue = [q \in Workers |-> <<>>]
  /\ lock = [q \in Workers |-> Free]
  /\ announced = <<>> /\ parked = <<>> /\ released = {}
  /\ blocked = 0
  /\ spinning = FALSE
  /\ done = FALSE
  /\ pc = [t \in Threads |-> IF t = Main THEN "run" ELSE "loop"]
  /\ frames = [t \in Threads |-> IF t = Main THEN <<[task |-> Main, rest |-> Roots]>>
                                             ELSE <<>>]
  /\ walk = [t \in Threads |-> NoWalk]
  /\ status = [x \in Tasks |-> "new"]

-----------------------------------------------------------------------------
(* ExecuteTask(x) begins, on top of whatever t is executing already. *)
Execute(t, x) ==
  /\ frames' = [frames EXCEPT ![t] = <<[task |-> x, rest |-> Children[x]]>> \o @]
  /\ status' = [status EXCEPT ![x] = "running"]

Current(t) == Head(frames[t])
Next1(t) == Head(Current(t).rest)        \* the task it schedules next
Scheduled(t) ==                          \* ... has been scheduled
  [frames EXCEPT ![t] = <<[Current(t) EXCEPT !.rest = Tail(@)]>> \o Tail(@)]

(* Schedule(x) called by t.  A worker pushes at the front of its own       *)
(* queue; any other thread locks a random queue and pushes at its back.    *)
(* A push that finds every element in use, one of them perhaps by the pop  *)
(* a thief has under way, is refused; the caller then executes the task.   *)
Refuses(t, q) ==
  IF t \in Workers
  THEN q = t /\ Len(queue[q]) + (IF lock[q] \in Workers THEN 1 ELSE 0) >= Capacity
  ELSE lock[q] = Free /\ Len(queue[q]) >= Capacity

ScheduleOwn(t) ==
  /\ t \in Workers /\ pc[t] = "run" /\ Current(t).rest # <<>>
  /\ Len(queue[t]) < Capacity
  /\ queue' = [queue EXCEPT ![t] = <<Next1(t)>> \o @]
  /\ status' = [status EXCEPT ![Next1(t)] = "queued"]
  /\ frames' = Scheduled(t)
  /\ Go(t, "notify")
  /\ UNCHANGED <<lock, ecVars, blocked, spinning, done, walk>>

ScheduleRandom(t, q) ==
  /\ t \notin Workers /\ pc[t] = "run" /\ Current(t).rest # <<>>
  /\ lock[q] = Free
  /\ Len(queue[q]) < Capacity
  /\ queue' = [queue EXCEPT ![q] = Append(@, Next1(t))]
  /\ lock' = [lock EXCEPT ![q] = t]
  /\ status' = [status EXCEPT ![Next1(t)] = "queued"]
  /\ frames' = Scheduled(t)
  /\ Go(t, "unlock")
  /\ UNCHANGED <<ecVars, blocked, spinning, done, walk>>

ScheduleUnlock(t) ==
  /\ pc[t] = "unlock" /\ t \notin Workers
  /\ lock' = [q \in Workers |-> IF lock[q] = t THEN Free ELSE lock[q]]
  /\ Go(t, "notify")
  /\ UNCHANGED <<queue, ecVars, blocked, spinning, done, frames, walk, status>>

ScheduleInline(t) ==
  LET x == Next1(t) IN
  /\ pc[t] = "run" /\ Current(t).rest # <<>>
  /\ \E q \in Workers : Refuses(t, q)
  /\ frames' = [frames EXCEPT ![t] = <<[task |-> x, rest |-> Children[x]]>> \o Scheduled(t)[t]]
  /\ status' = [status EXCEPT ![x] = "running"]
  /\ UNCHANGED <<queue, lock, ecVars, blocked, spinning, done, pc, walk>>

NotifyOne == Ec!EcNotifyOne \/ (announced \o parked = <<>> /\ UNCHANGED ecVars)
NotifyAll == Ec!EcNotifyAll \/ (announced \o parked = <<>> /\ UNCHANGED ecVars)

ScheduleNotify(t) ==
  /\ pc[t] = "notify"
  /\ NotifyOne
  /\ Go(t, "run")
  /\ UNCHANGED <<queue, lock, blocked, spinning, done, frames, walk, status>>

(* The task returns to the loop, or to the Schedule that ran it inline. *)
TaskReturns(t) ==
  /\ pc[t] = "run" /\ Current(t).rest = <<>> /\ Current(t).task # Main
  /\ status' = [status EXCEPT ![Current(t).task] = "finished"]
  /\ frames' = [frames EXCEPT ![t] = Tail(@)]
  /\ Go(t, IF Len(frames[t]) = 1 THEN "loop" ELSE "run")
  /\ UNCHANGED <<queue, lock, ecVars, blocked, spinning, done, walk>>

-----------------------------------------------------------------------------
(* WorkerLoop *)

(* PopFront on the worker's own queue; nothing there, so Steal begins. *)
LoopPopFront(t) ==
  /\ pc[t] = "loop"
  /\ IF queue[t] # <<>>
     THEN /\ Execute(t, Head(queue[t]))
          /\ queue' = [queue EXCEPT ![t] = Tail(@)]
          /\ Go(t, "run")
          /\ UNCHANGED walk
     ELSE /\ \E r \in Draws(NumThreads) : walk' = [walk EXCEPT ![t] = WalkFrom(r, 0)]
          /\ Go(t, "steal")
          /\ UNCHANGED <<queue, frames, status>>
  /\ UNCHANGED <<lock, ecVars, blocked, spinning, done>>

(* PopBack of queue q by t: it takes the last task, or finds the queue     *)
(* empty or its lock taken.                                                *)
PopBackTakes(t, q) ==
  /\ queue[q] # <<>> /\ lock[q] = Free
  /\ queue' = [queue EXCEPT ![q] = SubSeq(@, 1, Len(@) - 1)]
  /\ lock' = [lock EXCEPT ![q] = t]
  /\ Execute(t, queue[q][Len(queue[q])])
  /\ Go(t, "unlock")

PopBackFails(q) == queue[q] = <<>> \/ lock[q] # Free

(* Leaving PopBack with a task; a spinning worker then stops spinning. *)
PopBackUnlock(t) ==
  /\ pc[t] = "unlock" /\ t \in Workers
  /\ lock' = [q \in Workers |-> IF lock[q] = t THEN Free ELSE lock[q]]
  /\ IF walk[t].rounds > 0 THEN Go(t, "spin.stop") ELSE Go(t, "run")
  /\ walk' = [walk EXCEPT ![t] = NoWalk]
  /\ UNCHANGED <<queue, ecVars, blocked, spinning, done, frames, status>>

StealTakes(t) ==
  /\ pc[t] = "steal" /\ walk[t].left > 0
  /\ PopBackTakes(t, walk[t].victim)
  /\ UNCHANGED <<ecVars, blocked, spinning, done, walk>>

StealFails(t) ==
  /\ pc[t] = "steal" /\ walk[t].left > 0
  /\ PopBackFails(walk[t].victim)
  /\ walk' = [walk EXCEPT ![t] = Onward(@)]
  /\ UNCHANGED <<queue, lock, ecVars, blocked, spinning, done, pc, frames, status>>

(* All victims visited in vain: spin if nobody else does, for a number of  *)
(* rounds, then wait.                                                      *)
StealEnds(t) ==
  /\ pc[t] = "steal" /\ walk[t].left = 0
  /\ \/ /\ walk[t].rounds = 0 /\ ~spinning
        /\ spinning' = TRUE
        /\ \E r \in Draws(NumThreads) : walk' = [walk EXCEPT ![t] = WalkFrom(r, 1)]
        /\ UNCHANGED pc
     \/ /\ walk[t].rounds = 0 /\ spinning
        /\ walk' = [walk EXCEPT ![t] = NoWalk]
        /\ Go(t, "prewait")
        /\ UNCHANGED spinning
     \/ /\ walk[t].rounds \in 1..(Spins - 1)
        /\ \E r \in Draws(NumThreads) :
             walk' = [walk EXCEPT ![t] = WalkFrom(r, walk[t].rounds + 1)]
        /\ UNCHANGED <<pc, spinning>>
     \/ /\ walk[t].rounds > 0 /\ walk[t].rounds = Spins
        /\ walk' = [walk EXCEPT ![t] = NoWalk]
        /\ Go(t, "spin.stop")
        /\ UNCHANGED spinning
  /\ UNCHANGED <<queue, lock, ecVars, blocked, done, frames, status>>

SpinStop(t) ==
  /\ pc[t] = "spin.stop"
  /\ spinning' = FALSE
  /\ Go(t, IF frames[t] # <<>> THEN "run" ELSE "prewait")
  /\ UNCHANGED <<queue, lock, ecVars, blocked, done, frames, walk, status>>

-----------------------------------------------------------------------------
(* WaitForWork *)

Prewait(t) ==
  /\ pc[t] = "prewait"
  /\ Ec!EcPrewait(t)
  /\ \E r \in Draws(NumThreads) : walk' = [walk EXCEPT ![t] = WalkFrom(r, 0)]
  /\ Go(t, "check")
  /\ UNCHANGED <<queue, lock, blocked, spinning, done, frames, status>>

(* NonEmptyQueueIndex.  Size() counts an element from the moment a push    *)
(* has moved the index, a little before it can be popped.                  *)
BeingPushed(q) ==
  \/ pc[q] = "run" /\ Current(q).rest # <<>>
  \/ pc[Main] = "run" /\ Current(Main).rest # <<>>

SeesNonEmpty(q) == queue[q] # <<>> \/ BeingPushed(q)

Found(t, label, found) ==
  /\ pc[t] = label /\ walk[t].left > 0
  /\ SeesNonEmpty(walk[t].victim)
  /\ Go(t, found)
  /\ UNCHANGED <<queue, lock, ecVars, blocked, spinning, done, frames, walk, status>>

Visited(t, label) ==
  /\ pc[t] = label /\ walk[t].left > 0
  /\ queue[walk[t].victim] = <<>>
  /\ walk' = [walk EXCEPT ![t] = Onward(@)]
  /\ UNCHANGED <<queue, lock, ecVars, blocked, spinning, done, pc, frames, status>>

NoneFound(t, label, none) ==
  /\ pc[t] = label /\ walk[t].left = 0
  /\ walk' = [walk EXCEPT ![t] = NoWalk]
  /\ Go(t, none)
  /\ UNCHANGED <<queue, lock, ecVars, blocked, spinning, done, frames, status>>

CheckQueues(t) ==
  Found(t, "check", "cancel") \/ Visited(t, "check") \/ NoneFound(t, "check", "block")

(* CancelWait: on its turn, or once it is notified, which uses it up. *)
Cancelled(t) == Ec!EcCancel(t) \/ Ec!EcLeave(t)

CancelThenPop(t) ==
  /\ pc[t] = "cancel"
  /\ Cancelled(t)
  /\ Go(t, "pop")
  /\ UNCHANGED <<queue, lock, blocked, spinning, done, frames, walk, status>>

PopFound(t) ==
  /\ pc[t] = "pop"
  /\ \/ /\ PopBackTakes(t, walk[t].victim)
        /\ UNCHANGED walk
     \/ /\ PopBackFails(walk[t].victim)
        /\ walk' = [walk EXCEPT ![t] = NoWalk]
        /\ Go(t, "loop")
        /\ UNCHANGED <<queue, lock, frames, status>>
  /\ UNCHANGED <<ecVars, blocked, spinning, done>>

Block(t) ==
  /\ pc[t] = "block"
  /\ blocked' = blocked + 1
  /\ Go(t, "test.done")
  /\ UNCHANGED <<queue, lock, ecVars, spinning, done, frames, walk, status>>

TestDone(t) ==
  /\ pc[t] = "test.done"
  /\ Go(t, IF done THEN "test.blocked" ELSE "commit")
  /\ UNCHANGED <<queue, lock, ecVars, blocked, spinning, done, frames, walk, status>>

TestBlocked(t) ==
  /\ pc[t] = "test.blocked"
  /\ Go(t, IF blocked = NumThreads THEN "exit.cancel" ELSE "commit")
  /\ UNCHANGED <<queue, lock, ecVars, blocked, spinning, done, frames, walk, status>>

(* CommitWait sleeps, unless a notification came first. *)
Commit(t) ==
  /\ pc[t] = "commit"
  /\ \/ Ec!EcSleep(t) /\ Go(t, "park")
     \/ Ec!EcLeave(t) /\ Go(t, "unblock")
  /\ UNCHANGED <<queue, lock, blocked, spinning, done, frames, walk, status>>

(* mutant: blocked_ is not decremented *)
WakeUpBlocked(t) ==
  /\ pc[t] = "park"
  /\ Ec!EcLeave(t)
  /\ Go(t, "loop")
  /\ UNCHANGED <<queue, lock, blocked, spinning, done, frames, walk, status>>

WakeUp(t) ==
  /\ pc[t] = "park"
  /\ Ec!EcLeave(t)
  /\ Go(t, "unblock")
  /\ UNCHANGED <<queue, lock, blocked, spinning, done, frames, walk, status>>

Unblock(t) ==
  /\ pc[t] = "unblock"
  /\ blocked' = blocked - 1
  /\ Go(t, "loop")
  /\ UNCHANGED <<queue, lock, ecVars, spinning, done, frames, walk, status>>

(* mutant: the queues are not checked again *)
ExitUnchecked(t) ==
  /\ pc[t] = "exit.cancel"
  /\ Cancelled(t)
  /\ Go(t, "exit.notify")
  /\ UNCHANGED <<queue, lock, blocked, spinning, done, frames, walk, status>>

ExitCancel(t) ==
  /\ pc[t] = "exit.cancel"
  /\ Cancelled(t)
  /\ \E r \in Draws(NumThreads) : walk' = [walk EXCEPT ![t] = WalkFrom(r, 0)]
  /\ Go(t, "exit.check")
  /\ UNCHANGED <<queue, lock, blocked, spinning, done, frames, status>>

(* A queue that is not empty after all: blocked_-- and back to the loop. *)
FoundAfterAll(t) ==
  /\ pc[t] = "exit.check" /\ walk[t].left > 0
  /\ SeesNonEmpty(walk[t].victim)
  /\ walk' = [walk EXCEPT ![t] = NoWalk]
  /\ Go(t, "unblock")
  /\ UNCHANGED <<queue, lock, ecVars, blocked, spinning, done, frames, status>>

ExitCheck(t) ==
  FoundAfterAll(t) \/ Visited(t, "exit.check") \/ NoneFound(t, "exit.check", "exit.notify")

(* mutant: the last worker wakes nobody *)
ExitSilently(t) ==
  /\ pc[t] = "exit.notify"
  /\ Go(t, "exited")
  /\ UNCHANGED <<queue, lock, ecVars, blocked, spinning, done, frames, walk, status>>

Exit(t) ==
  /\ pc[t] = "exit.notify"
  /\ NotifyAll
  /\ Go(t, "exited")
  /\ UNCHANGED <<queue, lock, blocked, spinning, done, frames, walk, status>>

-----------------------------------------------------------------------------
(* ~NonBlockingThreadPoolTempl, once the owner has scheduled its tasks *)

SetDone ==
  /\ pc[Main] = "run" /\ Current(Main).task = Main /\ Current(Main).rest = <<>>
  /\ done' = TRUE
  /\ Go(Main, "destroy.notify")
  /\ UNCHANGED <<queue, lock, ecVars, blocked, spinning, frames, walk, status>>

DestroyNotify ==
  /\ pc[Main] = "destroy.notify"
  /\ NotifyAll
  /\ Go(Main, "join")
  /\ UNCHANGED <<queue, lock, blocked, spinning, done, frames, walk, status>>

(* Deleting a thread joins it; the queues go last. *)
(* mutant: the threads are not joined *)
DeleteWithoutJoin ==
  /\ pc[Main] = "join"
  /\ Go(Main, "destroyed")
  /\ UNCHANGED <<queue, lock, ecVars, blocked, spinning, done, frames, walk, status>>

JoinAndDelete ==
  /\ pc[Main] = "join"
  /\ \A t \in Workers : pc[t] = "exited"
  /\ Go(Main, "destroyed")
  /\ UNCHANGED <<queue, lock, ecVars, blocked, spinning, done, frames, walk, status>>

-----------------------------------------------------------------------------
Schedule(t) ==
  \/ ScheduleOwn(t) \/ (\E q \in Workers : ScheduleRandom(t, q)) \/ ScheduleUnlock(t)
  \/ ScheduleInline(t) \/ ScheduleNotify(t) \/ TaskReturns(t)

WorkerLoop(t) ==
  \/ LoopPopFront(t) \/ PopBackUnlock(t)
  \/ StealTakes(t) \/ StealFails(t) \/ StealEnds(t) \/ SpinStop(t)

WaitForWork(t) ==
  \/ Prewait(t) \/ CheckQueues(t) \/ CancelThenPop(t) \/ PopFound(t)
  \/ Block(t) \/ TestDone(t) \/ TestBlocked(t) \/ Commit(t) \/ WakeUp(t) \/ Unblock(t)
  \/ ExitCancel(t) \/ ExitCheck(t) \/ Exit(t)

WorkerNext(t) == Schedule(t) \/ WorkerLoop(t) \/ WaitForWork(t)
MainNext == Schedule(Main) \/ SetDone \/ DestroyNotify \/ JoinAndDelete

Terminated == pc[Main] = "destroyed" /\ UNCHANGED vars

Next == MainNext \/ (\E t \in Workers : WorkerNext(t)) \/ Terminated

Spec == Init /\ [][Next]_vars

(* Every thread keeps running: a step that stays possible is taken. *)
FairSpec == Spec /\ WF_vars(MainNext) /\ \A t \in Workers : WF_vars(WorkerNext(t))

-----------------------------------------------------------------------------
(* Types *)

Labels ==
  {"run", "unlock", "notify", "loop", "steal", "spin.stop", "prewait", "check", "cancel", "pop",
   "block", "test.done", "test.blocked", "commit", "park", "unblock",
   "exit.cancel", "exit.check", "exit.notify", "exited",
   "destroy.notify", "join", "destroyed"}

TypeOK ==
  /\ queue \in [Workers -> Seq(Tasks)]
  /\ \A q \in Workers : Len(queue[q]) <= Capacity
  /\ lock \in [Workers -> Threads \cup {Free}]
  /\ announced \in Seq(Workers) /\ parked \in Seq(Workers) /\ released \subseteq Workers
  /\ blocked \in 0..NumThreads
  /\ spinning \in BOOLEAN /\ done \in BOOLEAN
  /\ pc \in [Threads -> Labels]
  /\ \A t \in Threads : walk[t].victim \in Workers /\ walk[t].left \in 0..NumThreads
  /\ \A t \in Threads :
       \A i \in 1..Len(frames[t]) : frames[t][i].rest \in Seq(Tasks)
  /\ status \in [Tasks -> {"new", "queued", "running", "finished"}]

(* Safety *)

Asleep == {parked[i] : i \in 1..Len(parked)}
Exited == {t \in Workers : pc[t] = "exited"}

(* No wake-up is lost between a push and a worker going to sleep: while a  *)
(* task is queued, a worker is up, or the thread that pushed has yet to    *)
(* call Notify.                                                            *)
QueuedWorkIsAttended ==
  (\E q \in Workers : queue[q] # <<>>) =>
    \/ Workers \ (Asleep \cup Exited) # {}
    \/ \E t \in Threads : pc[t] \in {"unlock", "notify"}

(* blocked_ counts the workers between its increment and its decrement,    *)
(* the ones that left for good included.                                   *)
BlockedLabels == {"test.done", "test.blocked", "commit", "park", "unblock",
                  "exit.cancel", "exit.check", "exit.notify", "exited"}
BlockedWorkers == {t \in Workers : pc[t] \in BlockedLabels}

BlockedIsExact == blocked = Cardinality(BlockedWorkers)

(* What ~EventCount and ~RunQueue check with their DCHECKs (event_count.h: *)
(* 26, run_queue.h:26): once the threads are joined nobody is registered   *)
(* as waiting, no queue holds a task, and what was scheduled has run, the  *)
(* tasks that tasks scheduled included.                                    *)
NothingLeftBehind ==
  pc[Main] = "destroyed" =>
    /\ \A i \in 1..Len(Roots) : status[Roots[i]] = "finished"
    /\ \A x \in Tasks : status[x] = "finished" =>
         \A i \in 1..Len(Children[x]) : status[Children[x][i]] = "finished"
    /\ announced \o parked = <<>> /\ released = {}
    /\ \A q \in Workers : queue[q] = <<>> /\ lock[q] = Free
    /\ ~spinning

(* No task is stranded, neither while the pool runs nor when it is gone.   *)
WorkIsNeverStranded == TypeOK /\ QueuedWorkIsAttended /\ NothingLeftBehind

(* At most one worker spins. *)
Spinners == {t \in Workers : walk[t].rounds > 0 \/ pc[t] = "spin.stop"}

OneSpinner == Cardinality(Spinners) = IF spinning THEN 1 ELSE 0

(* Both counters that workers change without a lock tell the truth:        *)
(* BlockedIsExact, on which the shutdown relies, and OneSpinner.           *)
CountersAreExact == BlockedIsExact /\ OneSpinner

-----------------------------------------------------------------------------
(* The pool runs every task exactly once and is destroyed only after all   *)
(* of them (threadpool_unittest.cc, DoWork).                               *)
Pool == INSTANCE TaskPool WITH destroyed <- pc[Main] = "destroyed"
RunsEveryTaskOnce == Pool!PoolSpec

(* The destructor returns, whatever was scheduled before it was called.    *)
DestructorReturns == <>(pc[Main] = "destroyed")

(* A queued task is executed. *)
QueuedTaskRuns == \A x \in Tasks : status[x] = "queued" ~> status[x] = "finished"
=============================================================================
