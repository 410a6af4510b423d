------------------------------- MODULE Barrier -------------------------------
(***************************************************************************)
(* Barrier (src/core/base/thread/device_thread_pool.h): a count and a      *)
(* waiter flag in one atomic word, and a mutex with a condition variable   *)
(* for a waiter that comes before the last notification.  The barrier is   *)
(* a local variable of its waiter's caller, so it dies as soon as the      *)
(* waiters have returned, whatever the notifiers are still doing with it.  *)
(* Notification is the barrier with a single notifier.                     *)
(***************************************************************************)
EXTENDS Integers, FiniteSets

CONSTANTS Notifiers,   \* the calls of Notify; the constructor's count
          Waiters,     \* the threads that call Wait
          Free         \* mu_ is not held

ASSUME NotifiersAssumption == IsFiniteSet(Notifiers)
ASSUME ThreadsAssumption ==
  /\ Waiters # {} /\ Notifiers \cap Waiters = {}
  /\ Free \notin Notifiers \cup Waiters

VARIABLES
  state,       \* state_: twice the outstanding notifications, plus the flag
  notified,    \* notified_
  mu,          \* the holder of mu_
  pc,          \* pc[t]: the next access of thread t
  alive        \* the destructor has not run

vars == <<state, notified, mu, pc, alive>>
Threads == Notifiers \cup Waiters

-----------------------------------------------------------------------------
Go(t, label) == pc' = [pc EXCEPT ![t] = label]

Count(v) == v \div 2          \* v >> 1
WithFlag(v) == IF v % 2 = 0 THEN v + 1 ELSE v

Init ==
  /\ state = 2 * Cardinality(Notifiers)
  /\ notified = FALSE
  /\ mu = Free
  /\ pc = [t \in Threads |-> IF t \in Notifiers THEN "notify" ELSE "wait"]
  /\ alive = TRUE

(* Notify: fetch_sub(2); only who brings a flagged word to a count of 0    *)
(* goes on to wake the waiters.                                            *)
(* mutant: the waiters are woken whether there are any or not              *)
NotifySubAlwaysWakes(n) ==
  /\ pc[n] = "notify"
  /\ state' = state - 2
  /\ Go(n, IF Count(state') = 0 THEN "notify.lock" ELSE "notified")
  /\ UNCHANGED <<notified, mu, alive>>

NotifySub(n) ==
  /\ pc[n] = "notify"
  /\ state' = state - 2
  /\ Go(n, IF state' = 1 THEN "notify.lock" ELSE "notified")
  /\ UNCHANGED <<notified, mu, alive>>

NotifyLock(n) ==
  /\ pc[n] = "notify.lock"
  /\ mu = Free
  /\ mu' = n
  /\ Go(n, "notify.set")
  /\ UNCHANGED <<state, notified, alive>>

NotifySet(n) ==
  /\ pc[n] = "notify.set"
  /\ notified' = TRUE
  /\ Go(n, "notify.all")
  /\ UNCHANGED <<state, mu, alive>>

(* cv_.notify_all: who waits on cv_ must get mu_ again. *)
NotifyAll(n) ==
  /\ pc[n] = "notify.all"
  /\ pc' = [t \in Threads |-> IF t = n THEN "notify.unlock"
                              ELSE IF pc[t] = "wait.cv" THEN "wait.lock" ELSE pc[t]]
  /\ UNCHANGED <<state, notified, mu, alive>>

NotifyUnlock(n) ==
  /\ pc[n] = "notify.unlock"
  /\ mu' = Free
  /\ Go(n, "notified")
  /\ UNCHANGED <<state, notified, alive>>

(* Wait: fetch_or(1); with no notification outstanding it returns at once. *)
(* mutants: the flag is not set; the last notification is not awaited *)
WaitNoFlag(t) ==
  /\ pc[t] = "wait"
  /\ Go(t, IF Count(state) = 0 THEN "returned" ELSE "wait.lock")
  /\ UNCHANGED <<state, notified, mu, alive>>
WaitOffByOne(t) ==
  /\ pc[t] = "wait"
  /\ state' = WithFlag(state)
  /\ Go(t, IF Count(state) <= 1 THEN "returned" ELSE "wait.lock")
  /\ UNCHANGED <<notified, mu, alive>>

WaitOr(t) ==
  /\ pc[t] = "wait"
  /\ state' = WithFlag(state)
  /\ Go(t, IF Count(state) = 0 THEN "returned" ELSE "wait.lock")
  /\ UNCHANGED <<notified, mu, alive>>

WaitLock(t) ==
  /\ pc[t] = "wait.lock"
  /\ mu = Free
  /\ mu' = t
  /\ Go(t, "wait.test")
  /\ UNCHANGED <<state, notified, alive>>

(* cv_.wait releases mu_ as it goes to sleep. *)
WaitTest(t) ==
  /\ pc[t] = "wait.test"
  /\ mu' = Free
  /\ Go(t, IF notified THEN "returned" ELSE "wait.cv")
  /\ UNCHANGED <<state, notified, alive>>

SpuriousWakeup(t) ==
  /\ pc[t] = "wait.cv"
  /\ Go(t, "wait.lock")
  /\ UNCHANGED <<state, notified, mu, alive>>

(* The waiters' scope ends. *)
Destroy ==
  /\ alive
  /\ \A t \in Waiters : pc[t] = "returned"
  /\ alive' = FALSE
  /\ UNCHANGED <<state, notified, mu, pc>>

NotifierNext(n) ==
  \/ NotifySub(n) \/ NotifyLock(n) \/ NotifySet(n) \/ NotifyAll(n) \/ NotifyUnlock(n)

WaiterStep(t) == WaitOr(t) \/ WaitLock(t) \/ WaitTest(t)
WaiterNext(t) == WaiterStep(t) \/ SpuriousWakeup(t)

Terminated == ~alive /\ UNCHANGED vars

Next ==
  \/ \E n \in Notifiers : NotifierNext(n)
  \/ \E t \in Waiters : WaiterNext(t)
  \/ Destroy
  \/ Terminated

Spec == Init /\ [][Next]_vars

(* Every thread keeps running; a thread that keeps finding mu_ free gets   *)
(* it, spurious wake-ups of the others notwithstanding.                    *)
FairSpec ==
  /\ Spec
  /\ \A n \in Notifiers : SF_vars(NotifierNext(n))
  /\ \A t \in Waiters : SF_vars(WaiterStep(t))

-----------------------------------------------------------------------------
(* Types *)

NotifierLabels ==
  {"notify", "notify.lock", "notify.set", "notify.all", "notify.unlock", "notified"}
WaiterLabels == {"wait", "wait.lock", "wait.test", "wait.cv", "returned"}

TypeOK ==
  /\ state \in Nat
  /\ notified \in BOOLEAN
  /\ mu \in Threads \cup {Free}
  /\ pc \in [Threads -> NotifierLabels \cup WaiterLabels]
  /\ alive \in BOOLEAN

(* Safety *)

Outstanding == {n \in Notifiers : pc[n] = "notify"}

(* Wait returns only when every Notify has been called: what ParallelFor   *)
(* relies on to return after the last block.                               *)
NobodyReturnsEarly ==
  (\E t \in Waiters : pc[t] = "returned") => Outstanding = {}

(* The barrier is not touched after its destruction: when the last waiter  *)
(* is out, no notifier is still about to use the word, the mutex or the    *)
(* condition variable.                                                     *)
NoUseAfterDestruction ==
  ~alive => /\ \A n \in Notifiers : pc[n] = "notified"
            /\ mu = Free

(* DCHECK(((v + 2) & ~1) != 0) at line 50, DCHECK(!notified_) at line 54   *)
(* and DCHECK((state_ >> 1) == 0) in the destructor.                       *)
AssertionsHold ==
  /\ (\E n \in Notifiers : pc[n] = "notify") => Count(state) # 0
  /\ (\E n \in Notifiers : pc[n] = "notify.set") => ~notified
  /\ ~alive => Count(state) = 0

(* The word says who may touch the barrier: the assertions about it hold,  *)
(* and nobody does after its destruction.                                  *)
DestroyedAfterUse == TypeOK /\ NoUseAfterDestruction /\ AssertionsHold

(* Once every notifier has called Notify the waiters return, whoever of    *)
(* them came first.                                                        *)
WaitersReturn == <>(\A t \in Waiters : pc[t] = "returned")

-----------------------------------------------------------------------------
(* The inductive invariant behind the safety properties *)

Flag == IF \E t \in Waiters : pc[t] # "wait" THEN 1 ELSE 0

Late == {"notify.lock", "notify.set", "notify.all", "notify.unlock"}
Inside == {"wait.lock", "wait.test", "wait.cv"}

(* The labels at which a thread holds mu_ *)
Holding == {"notify.set", "notify.all", "notify.unlock", "wait.test"}

WordIsExact == state = 2 * Cardinality(Outstanding) + Flag

LabelsFit ==
  /\ \A n \in Notifiers : pc[n] \in NotifierLabels
  /\ \A t \in Waiters : pc[t] \in WaiterLabels

LockIsExact == \A t \in Threads : pc[t] \in Holding <=> mu = t

(* Only the last notifier wakes, and it finds a waiter that cannot leave   *)
(* before it is done.                                                      *)
LastNotifier ==
  \A n \in Notifiers : pc[n] \in Late =>
    /\ Outstanding = {}
    /\ \A m \in Notifiers : pc[m] \in Late => m = n
    /\ \E t \in Waiters : pc[t] \in Inside
    /\ notified <=> pc[n] \in {"notify.all", "notify.unlock"}

NotifiedAtTheEnd == notified => Outstanding = {}

WaitersAreOut == ~alive => \A t \in Waiters : pc[t] = "returned"

Inv ==
  /\ TypeOK /\ LabelsFit /\ WordIsExact /\ LockIsExact
  /\ LastNotifier /\ NotifiedAtTheEnd
  /\ NobodyReturnsEarly /\ WaitersAreOut /\ NoUseAfterDestruction
=============================================================================
