----------------------------- MODULE EventCount -----------------------------
(***************************************************************************)
(* EventCount (src/core/base/thread/event_count.h), one action per access  *)
(* to state_, to a waiter's next pointer or to a waiter's mutex.  state_   *)
(* packs the epoch, the number of undecided waiters and the top of the     *)
(* stack of sleeping waiters into one 64-bit word; here it is a record,    *)
(* read and exchanged as a whole.  Accesses are sequentially consistent.   *)
(***************************************************************************)
EXTENDS Integers, Sequences, FiniteSets

CONSTANTS Waiters,     \* the threads that wait, each with its Waiter
          Notifiers,   \* the threads that call Notify
          Nobody,      \* null, and kStackMask in the stack field
          EpochMod,    \* number of epochs, 2^32 in the code
          MaxWaits     \* bound: calls of Prewait in a behaviour

(* Turns are compared as signed numbers and words by their epoch: both go  *)
(* wrong if half of the epochs pass while a thread stands still inside an  *)
(* operation.  A behaviour has fewer decisions than that.                  *)
ASSUME EpochAssumption == EpochMod \in Nat /\ MaxWaits < EpochMod \div 2
ASSUME BoundAssumption == MaxWaits \in Nat
ASSUME ThreadAssumption ==
  /\ IsFiniteSet(Waiters) /\ Waiters \cap Notifiers = {}
  /\ Nobody \notin Waiters \cup Notifiers

VARIABLES
  state,      \* state_
  next,       \* next[w]: the Waiter below w on the stack
  signal,     \* signal[w]: Waiter::state
  turn,       \* turn[w]: the epoch at which w decides, from Waiter::epoch
  pc,         \* pc[t]: the next access of a waiter or notifier
  seen,       \* seen[t]: the value of state_ a loop last loaded
  todo,       \* todo[n]: what the Notify of n does and whom it still wakes
  waits       \* calls of Prewait so far (bounds the model)

vars == <<state, next, signal, turn, pc, seen, todo, waits>>

-----------------------------------------------------------------------------
Empty(s) == s.top = Nobody

(* kEpochMask: the pool constructs ec_ while waiters_ is still empty, so   *)
(* the epoch starts at its last value and wraps at the first decision.     *)
InitState == [epoch |-> EpochMod - 1, waiters |-> 0, top |-> Nobody]

(* The epoch at which a waiter that announces itself in state s decides:   *)
(* one turn after each waiter that is undecided then.  CommitWait and      *)
(* CancelWait compute it from the state_ that Prewait left in w->epoch.    *)
TurnFrom(s) == (s.epoch + s.waiters) % EpochMod

(* int64_t((state & kEpochMask) - epoch) compared with 0, where the epoch  *)
(* is the top field of the word and wraps around                           *)
Behind(s, w) == (s.epoch - turn[w]) % EpochMod >= EpochMod \div 2
OnTurn(s, w) == s.epoch = turn[w]
Ahead(s, w) == ~Behind(s, w) /\ ~OnTurn(s, w)

DecidedSameEpoch(s) == [s EXCEPT !.waiters = @ - 1]     \* mutant: no new epoch
Decided(s) == [s EXCEPT !.waiters = @ - 1, !.epoch = (@ + 1) % EpochMod]

NothingToDo == [all |-> FALSE, below |-> Nobody, wake |-> Nobody, then |-> Nobody]

Go(t, label) == pc' = [pc EXCEPT ![t] = label]

Init ==
  /\ state = InitState
  /\ next = [w \in Waiters |-> Nobody]
  /\ signal = [w \in Waiters |-> "kNotSignaled"]
  /\ turn = [w \in Waiters |-> 0]
  /\ pc = [t \in Waiters \cup Notifiers |-> "idle"]
  /\ seen = [t \in Waiters \cup Notifiers |-> InitState]
  /\ todo = [n \in Notifiers |-> NothingToDo]
  /\ waits = 0

-----------------------------------------------------------------------------
(* The waiting side *)

Prewait(w) ==
  /\ pc[w] = "idle"
  /\ waits < MaxWaits
  /\ waits' = waits + 1
  /\ turn' = [turn EXCEPT ![w] = TurnFrom(state)]
  /\ state' = [state EXCEPT !.waiters = @ + 1]
  /\ Go(w, "announced")
  /\ UNCHANGED <<next, signal, seen, todo>>

(* The caller decides; CommitWait first resets the waiter's signal. *)
CommitWait(w) ==
  /\ pc[w] = "announced"
  /\ signal' = [signal EXCEPT ![w] = "kNotSignaled"]
  /\ Go(w, "commit.load")
  /\ UNCHANGED <<state, next, turn, seen, todo, waits>>

(* While it is behind its turn the thread yields and loads again. *)
CommitLoad(w) ==
  /\ pc[w] = "commit.load"
  /\ \/ /\ Ahead(state, w)
        /\ Go(w, "idle")
        /\ UNCHANGED seen
     \/ /\ OnTurn(state, w)
        /\ seen' = [seen EXCEPT ![w] = state]
        /\ Go(w, "commit.next")
  /\ UNCHANGED <<state, next, signal, turn, todo, waits>>

CommitNext(w) ==
  /\ pc[w] = "commit.next"
  /\ next' = [next EXCEPT ![w] = seen[w].top]
  /\ Go(w, "commit.cas")
  /\ UNCHANGED <<state, signal, turn, seen, todo, waits>>

CommitCas(w) ==
  /\ pc[w] = "commit.cas"
  /\ IF state = seen[w]
     THEN /\ state' = [Decided(state) EXCEPT !.top = w]
          /\ Go(w, "park.lock")
     ELSE /\ Go(w, "commit.load")
          /\ UNCHANGED state
  /\ seen' = [seen EXCEPT ![w] = InitState]
  /\ UNCHANGED <<next, signal, turn, todo, waits>>

(* Park: under mu, until signalled, go to sleep on cv (which releases mu). *)
Park(w) ==
  /\ pc[w] = "park.lock"
  /\ IF signal[w] = "kSignaled"
     THEN /\ Go(w, "idle")
          /\ UNCHANGED signal
     ELSE /\ signal' = [signal EXCEPT ![w] = "kWaiting"]
          /\ Go(w, "park.wait")
  /\ UNCHANGED <<state, next, turn, seen, todo, waits>>

(* cv.wait may return without a notification. *)
SpuriousWakeup(w) ==
  /\ pc[w] = "park.wait"
  /\ Go(w, "park.lock")
  /\ UNCHANGED <<state, next, signal, turn, seen, todo, waits>>

CancelWait(w) ==
  /\ pc[w] = "announced"
  /\ Go(w, "cancel.load")
  /\ UNCHANGED <<state, next, signal, turn, seen, todo, waits>>

CancelLoad(w) ==
  /\ pc[w] = "cancel.load"
  /\ \/ /\ Ahead(state, w)
        /\ Go(w, "idle")
        /\ UNCHANGED seen
     \/ /\ OnTurn(state, w)
        /\ seen' = [seen EXCEPT ![w] = state]
        /\ Go(w, "cancel.cas")
  /\ UNCHANGED <<state, next, signal, turn, todo, waits>>

CancelCas(w) ==
  /\ pc[w] = "cancel.cas"
  /\ IF state = seen[w]
     THEN /\ state' = Decided(state)
          /\ Go(w, "idle")
     ELSE /\ Go(w, "cancel.load")
          /\ UNCHANGED state
  /\ seen' = [seen EXCEPT ![w] = InitState]
  /\ UNCHANGED <<next, signal, turn, todo, waits>>

-----------------------------------------------------------------------------
(* The notifying side *)

NotifyLoad(n, all) ==
  /\ \/ pc[n] = "idle"
     \/ pc[n] = "notify.load" /\ all = todo[n].all
  /\ IF Empty(state) /\ state.waiters = 0
     THEN /\ Go(n, "idle")
          /\ todo' = [todo EXCEPT ![n] = NothingToDo]
          /\ UNCHANGED seen
     ELSE /\ seen' = [seen EXCEPT ![n] = state]
          /\ todo' = [todo EXCEPT ![n].all = all]
          /\ Go(n, IF ~all /\ state.waiters = 0 THEN "notify.next" ELSE "notify.cas")
  /\ UNCHANGED <<state, next, signal, turn, waits>>

(* The waiter below the one to wake, read before the exchange *)
NotifyNext(n) ==
  /\ pc[n] = "notify.next"
  /\ todo' = [todo EXCEPT ![n].below = next[seen[n].top]]
  /\ Go(n, "notify.cas")
  /\ UNCHANGED <<state, next, signal, turn, seen, waits>>

(* newstate: all undecided and sleeping waiters are let go, or the oldest  *)
(* undecided one, or the one on top of the stack (which is no new epoch).  *)
Notified(s, all, below) ==
  IF all THEN [epoch |-> (s.epoch + s.waiters) % EpochMod, waiters |-> 0, top |-> Nobody]
  ELSE IF s.waiters > 0 THEN Decided(s)
  ELSE [s EXCEPT !.top = below]

(* compare_exchange_weak on the whole word; a mutant leaves out the epoch,  *)
(* which is what tells two visits of a waiter to the top of the stack apart *)
SameButEpoch(s, t) == s.waiters = t.waiters /\ s.top = t.top
SameWord(s, t) == s = t

NotifyCas(n) ==
  LET s == seen[n]
      all == todo[n].all IN
  /\ pc[n] = "notify.cas"
  /\ IF SameWord(state, s)
     THEN /\ state' = Notified(s, all, todo[n].below)
          /\ IF Empty(s) \/ (~all /\ s.waiters > 0)
             THEN /\ todo' = [todo EXCEPT ![n] = NothingToDo]
                  /\ Go(n, "idle")
             ELSE /\ todo' = [todo EXCEPT ![n].wake = s.top, ![n].below = Nobody]
                  /\ Go(n, IF all THEN "unpark.next" ELSE "notify.clear")
     ELSE /\ todo' = [todo EXCEPT ![n].below = Nobody]
          /\ Go(n, "notify.load")
          /\ UNCHANGED state
  /\ seen' = [seen EXCEPT ![n] = InitState]
  /\ UNCHANGED <<next, signal, turn, waits>>

NotifyClear(n) ==
  /\ pc[n] = "notify.clear"
  /\ next' = [next EXCEPT ![todo[n].wake] = Nobody]
  /\ Go(n, "unpark.next")
  /\ UNCHANGED <<state, signal, turn, seen, todo, waits>>

(* Unpark walks the list from its first waiter. *)
UnparkNext(n) ==
  /\ pc[n] = "unpark.next"
  /\ IF todo[n].wake = Nobody
     THEN /\ todo' = [todo EXCEPT ![n] = NothingToDo]
          /\ Go(n, "idle")
     ELSE /\ todo' = [todo EXCEPT ![n].then = next[todo[n].wake]]
          /\ Go(n, "unpark.signal")
  /\ UNCHANGED <<state, next, signal, turn, seen, waits>>

UnparkStep(n) == [todo EXCEPT ![n].wake = todo[n].then, ![n].then = Nobody]

(* under mu *)
(* mutant: the condition variable is left alone *)
UnparkSilently(n) ==
  /\ pc[n] = "unpark.signal"
  /\ signal' = [signal EXCEPT ![todo[n].wake] = "kSignaled"]
  /\ Go(n, "unpark.next") /\ todo' = UnparkStep(n)
  /\ UNCHANGED <<state, next, turn, seen, waits>>

UnparkSignal(n) ==
  LET w == todo[n].wake IN
  /\ pc[n] = "unpark.signal"
  /\ signal' = [signal EXCEPT ![w] = "kSignaled"]
  /\ IF signal[w] = "kWaiting"
     THEN Go(n, "unpark.cv") /\ UNCHANGED todo
     ELSE Go(n, "unpark.next") /\ todo' = UnparkStep(n)
  /\ UNCHANGED <<state, next, turn, seen, waits>>

(* cv.notify_one, after mu is released: w may be in a later wait by now. *)
UnparkCv(n) ==
  LET w == todo[n].wake IN
  /\ pc[n] = "unpark.cv"
  /\ pc' = [pc EXCEPT ![n] = "unpark.next",
                      ![w] = IF @ = "park.wait" THEN "park.lock" ELSE @]
  /\ todo' = UnparkStep(n)
  /\ UNCHANGED <<state, next, signal, turn, seen, waits>>

-----------------------------------------------------------------------------
WaiterStep(w) ==
  \/ CommitLoad(w) \/ CommitNext(w) \/ CommitCas(w) \/ Park(w)
  \/ CancelLoad(w) \/ CancelCas(w)

Decide(w) == CommitWait(w) \/ CancelWait(w)

NotifierStep(n) ==
  \/ pc[n] # "idle" /\ \E all \in BOOLEAN : NotifyLoad(n, all)
  \/ NotifyNext(n) \/ NotifyCas(n) \/ NotifyClear(n)
  \/ UnparkNext(n) \/ UnparkSignal(n) \/ UnparkCv(n)

StartNotify(n) == pc[n] = "idle" /\ \E all \in BOOLEAN : NotifyLoad(n, all)

Next ==
  \/ \E w \in Waiters : Prewait(w) \/ Decide(w) \/ WaiterStep(w) \/ SpuriousWakeup(w)
  \/ \E n \in Notifiers : StartNotify(n) \/ NotifierStep(n)

Spec == Init /\ [][Next]_vars

(* A thread inside an operation keeps running, and a caller of Prewait     *)
(* goes on to CommitWait or CancelWait; nobody is obliged to notify.       *)
FairSpec ==
  /\ Spec
  /\ \A w \in Waiters : WF_vars(Decide(w)) /\ WF_vars(WaiterStep(w))
  /\ \A n \in Notifiers : WF_vars(NotifierStep(n))

-----------------------------------------------------------------------------
(* Types *)

States == [epoch : 0..(EpochMod - 1), waiters : 0..Cardinality(Waiters),
           top : Waiters \cup {Nobody}]

Labels ==
  {"idle", "announced", "commit.load", "commit.next", "commit.cas",
   "park.lock", "park.wait", "cancel.load", "cancel.cas",
   "notify.load", "notify.next", "notify.cas", "notify.clear",
   "unpark.next", "unpark.signal", "unpark.cv"}

TypeOK ==
  /\ state \in States
  /\ next \in [Waiters -> Waiters \cup {Nobody}]
  /\ signal \in [Waiters -> {"kNotSignaled", "kWaiting", "kSignaled"}]
  /\ turn \in [Waiters -> 0..(EpochMod - 1)]
  /\ pc \in [Waiters \cup Notifiers -> Labels]
  /\ seen \in [Waiters \cup Notifiers -> States]
  /\ todo \in [Notifiers -> [all : BOOLEAN, below : Waiters \cup {Nobody},
                             wake : Waiters \cup {Nobody}, then : Waiters \cup {Nobody}]]
  /\ waits \in 0..MaxWaits

-----------------------------------------------------------------------------
(* Safety *)

Undecided == {w \in Waiters :
                /\ pc[w] \in {"announced", "commit.load", "commit.next", "commit.cas",
                              "cancel.load", "cancel.cas"}
                /\ ~Ahead(state, w)}

(* What following next from w meets, w first *)
Chain(w) ==
  LET at[i \in 1..(Cardinality(Waiters) + 1)] ==
        IF i = 1 THEN w ELSE IF at[i - 1] = Nobody THEN Nobody ELSE next[at[i - 1]]
  IN [i \in 1..Cardinality({j \in DOMAIN at : at[j] # Nobody}) |-> at[i]]

Stack == Chain(state.top)
Members(seq) == {seq[i] : i \in 1..Len(seq)}

(* The DCHECKs at event_count.h:47 and :73: a thread whose turn it is to   *)
(* decide is still counted in the waiter field, so subtracting one from it *)
(* never borrows from the epoch.                                           *)
DeciderIsCounted ==
  \A w \in Waiters :
    pc[w] \in {"commit.load", "cancel.load"} /\ OnTurn(state, w) => state.waiters > 0

(* The turns of the undecided waiters are the epochs from the current one  *)
(* on, one each: no notification can hit two of them or miss the oldest,   *)
(* across the wrap-around of the epoch.                                    *)
TurnsAreConsecutive ==
  /\ state.waiters = Cardinality(Undecided)
  /\ {(turn[w] - state.epoch) % EpochMod : w \in Undecided} = 0..(state.waiters - 1)

(* The stack linked through next is free of cycles and holds only threads  *)
(* that are in Park and not notified, although Notify reads next of a      *)
(* waiter that may leave and come back before the exchange.                *)
StackIsSound ==
  /\ Len(Stack) = Cardinality(Members(Stack))
  /\ \A w \in Members(Stack) :
       pc[w] \in {"park.lock", "park.wait"} /\ signal[w] # "kSignaled"

(* Waiters some notifier has taken off the stack and not signalled yet *)
BeingWoken ==
  UNION {IF pc[n] = "notify.clear" THEN {todo[n].wake}
         ELSE IF pc[n] \in {"unpark.next", "unpark.signal"} THEN Members(Chain(todo[n].wake))
         ELSE IF pc[n] = "unpark.cv" THEN Members(Chain(todo[n].then))
         ELSE {} : n \in Notifiers}

(* A sleeper is never forgotten: it is on the stack, where the next Notify *)
(* finds it, or on the list of a notifier that will signal it, or it has   *)
(* its signal; and of these exactly one, so that no stale signal ends a    *)
(* later wait.                                                             *)
SleeperIsReachable ==
  \A w \in Waiters :
    pc[w] \in {"park.lock", "park.wait"} =>
      Cardinality({c \in {"stack", "list", "signal"} :
                     \/ c = "stack" /\ w \in Members(Stack)
                     \/ c = "list" /\ w \in BeingWoken
                     \/ c = "signal" /\ signal[w] = "kSignaled"}) = 1

(* ... and a signalled sleeper is awake or about to get the notify_one:    *)
(* signalling under mu and notifying outside it loses no wake-up.          *)
SignalReachesTheSleeper ==
  \A w \in Waiters :
    pc[w] = "park.wait" /\ signal[w] = "kSignaled" =>
      \E n \in Notifiers : pc[n] = "unpark.cv" /\ todo[n].wake = w

(* The word, the stack and the signals agree about every waiter, from its  *)
(* Prewait to the end of its sleep: no notification passes it by.          *)
NobodyIsForgotten ==
  /\ TypeOK /\ DeciderIsCounted /\ TurnsAreConsecutive
  /\ StackIsSound /\ SleeperIsReachable /\ SignalReachesTheSleeper

-----------------------------------------------------------------------------
(* Refinement: the announced waiters in the order of their turns, the      *)
(* stack, and the rest of those inside a wait.                             *)

InOrder ==
  LET onTurn(i) == {w \in Undecided : (turn[w] - state.epoch) % EpochMod = i - 1}
  IN [i \in 1..Cardinality(Undecided) |->
        IF onTurn(i) = {} THEN Nobody ELSE CHOOSE w \in onTurn(i) : TRUE]

Released ==
  {w \in Waiters : pc[w] # "idle"} \ (Undecided \cup Members(Stack))

Contract == INSTANCE EventCountSpec
              WITH announced <- InOrder, parked <- Stack, released <- Released

(* The packed word, the turns and the next pointers implement the queue  *)
(* of announced waiters and the stack of sleepers.                         *)
KeepsItsContract == Contract!EcSpec

-----------------------------------------------------------------------------
(* Liveness *)

(* A waiter that Notify picked gets out of its wait: not one wake-up is    *)
(* lost between the exchange, the signal and the condition variable.       *)
NotifiedWaiterLeaves == \A w \in Waiters : w \in Released ~> w \notin Released

(* CancelWait, which spins until every earlier waiter has decided, returns.*)
CancelReturns == \A w \in Waiters : pc[w] = "cancel.load" ~> pc[w] = "idle"
=============================================================================
