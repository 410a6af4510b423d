------------------------------ MODULE RunQueue ------------------------------
(***************************************************************************)
(* RunQueue (src/core/base/thread/run_queue.h), one action per atomic      *)
(* access.  The owner uses the front without a lock; the other threads     *)
(* use the back under mutex_, and only PushBack waits for that lock.  The  *)
(* two ends meet in array_, where an element changes hands by a            *)
(* compare-and-swap of its state.                                          *)
(*                                                                         *)
(* A state.load followed by compare_exchange_strong is one action: the     *)
(* load reads a value that the exchange then confirms or refuses, and a    *)
(* refusal changes nothing whichever of the two finds it.  Accesses are    *)
(* sequentially consistent here.                                           *)
(***************************************************************************)
EXTENDS Integers, FiniteSets, Sequences

CONSTANTS Owner,       \* the thread PushFront and PopFront belong to
          Thieves,     \* the threads that call the operations on the back
          Works,       \* work items, each pushed at most once
          NoWork,      \* the empty Work()
          NoThread,    \* mutex_ is free
          kSize,       \* elements of the array
          Laps         \* values of the modification counter kept above the
                       \* index bits of front_ and back_

ASSUME SizeAssumption ==
  kSize \in {4, 8, 16, 32, 64, 128, 256, 512, 1024, 2048, 4096, 8192, 16384,
            32768, 65536}
ASSUME LapsAssumption == Laps \in Nat \ {0}
ASSUME WorkAssumption == NoWork \notin Works
ASSUME ThreadAssumption == Owner \notin Thieves /\ NoThread \notin Thieves

Threads == Thieves \cup {Owner}
Slots == 0..(kSize - 1)

VARIABLES
  front, back,   \* front_ and back_
  state,         \* state[e]: array_[e].state
  w,             \* w[e]: array_[e].w
  mutex,         \* the holder of mutex_
  pc,            \* pc[t]: the next access of thread t
  reg,           \* reg[t]: the locals of the operation t is in
  fresh,         \* items in callers' hands, to be pushed (again if refused)
  delivered      \* items a pop returned to its caller

vars == <<front, back, state, w, mutex, pc, reg, fresh, delivered>>

-----------------------------------------------------------------------------
(* Index arithmetic: the low bits, modulo 2 * kSize, say which element;    *)
(* the bits above count the increments.                                    *)

Lap == 2 * kSize                       \* kMask2 + 1
Modulus == Lap * Laps                  \* 2^32 in the code

Slot(x) == x % kSize                   \* x & kMask
IncrementedNoLap(x) == (x + 1) % Modulus     \* mutant: the counter stays put
Incremented(x) == (x + 1 + Lap) % Modulus
Decremented(x) == (x - (x % Lap)) + ((x + Lap - 1) % Lap)

(* The number of elements front and back enclose, before Size() clips it. *)
Distance(f, b) == (f + Lap - (b % Lap)) % Lap
SizeOf(f, b) == IF Distance(f, b) > kSize THEN kSize ELSE Distance(f, b)

ReadySlots == {e \in Slots : state[e] = "kReady"}

(* Locals.  item: the Work passed in, or popped; took: the items a         *)
(* PopBackHalf collected; f, b: the loads of Size(); seen: how many        *)
(* elements were ready when b was loaded (observed, not part of the code); *)
(* e: the claimed element; i: mid - back; start: start - back of a half    *)
(* pop; n: how many it moved.                                              *)
NoLocals == [item |-> NoWork, took |-> {}, f |-> 0, b |-> 0, seen |-> 0,
             e |-> 0, i |-> 0, start |-> 0, n |-> 0]

Go(t, label) == pc' = [pc EXCEPT ![t] = label]

Return(t) ==
  /\ pc' = [pc EXCEPT ![t] = "idle"]
  /\ reg' = [reg EXCEPT ![t] = NoLocals]

Init ==
  /\ front = 0 /\ back = 0
  /\ state = [e \in Slots |-> "kEmpty"]
  /\ w = [e \in Slots |-> NoWork]
  /\ mutex = NoThread
  /\ pc = [t \in Threads |-> "idle"]
  /\ reg = [t \in Threads |-> NoLocals]
  /\ fresh = Works
  /\ delivered = {}

-----------------------------------------------------------------------------
(* The item the next push is called with: they are interchangeable. *)
NextItem == CHOOSE item \in fresh : TRUE

(* PushFront *)

PushFrontClaim ==
  LET e == Slot(front)
      item == NextItem IN
  /\ pc[Owner] = "idle"
  /\ fresh # {}
  /\ state[e] = "kEmpty"         \* otherwise it returns w at once
  /\ fresh' = fresh \ {item}
  /\ state' = [state EXCEPT ![e] = "kBusy"]
  /\ reg' = [reg EXCEPT ![Owner].item = item, ![Owner].e = e]
  /\ Go(Owner, "PushFront.front")
  /\ UNCHANGED <<front, back, w, mutex, delivered>>

PushFrontAdvance ==
  /\ pc[Owner] = "PushFront.front"
  /\ front' = Incremented(front)
  /\ Go(Owner, "PushFront.write")
  /\ UNCHANGED <<back, state, w, mutex, reg, fresh, delivered>>

PushFrontWrite ==
  /\ pc[Owner] = "PushFront.write"
  /\ w' = [w EXCEPT ![reg[Owner].e] = reg[Owner].item]
  /\ reg' = [reg EXCEPT ![Owner].item = NoWork]
  /\ Go(Owner, "PushFront.ready")
  /\ UNCHANGED <<front, back, state, mutex, fresh, delivered>>

PushFrontPublish ==
  /\ pc[Owner] = "PushFront.ready"
  /\ state' = [state EXCEPT ![reg[Owner].e] = "kReady"]
  /\ Return(Owner)
  /\ UNCHANGED <<front, back, w, mutex, fresh, delivered>>

(* PopFront *)

PopFrontClaim ==
  LET e == Slot(front + Lap - 1) IN
  /\ pc[Owner] = "idle"
  /\ state[e] = "kReady"         \* otherwise it returns Work() at once
  /\ state' = [state EXCEPT ![e] = "kBusy"]
  /\ reg' = [reg EXCEPT ![Owner].e = e]
  /\ Go(Owner, "PopFront.take")
  /\ UNCHANGED <<front, back, w, mutex, fresh, delivered>>

PopFrontTake ==
  LET e == reg[Owner].e IN
  /\ pc[Owner] = "PopFront.take"
  /\ reg' = [reg EXCEPT ![Owner].item = w[e]]
  /\ w' = [w EXCEPT ![e] = NoWork]
  /\ Go(Owner, "PopFront.empty")
  /\ UNCHANGED <<front, back, state, mutex, fresh, delivered>>

PopFrontRelease ==
  /\ pc[Owner] = "PopFront.empty"
  /\ state' = [state EXCEPT ![reg[Owner].e] = "kEmpty"]
  /\ Go(Owner, "PopFront.front")
  /\ UNCHANGED <<front, back, w, mutex, reg, fresh, delivered>>

(* mutant: front_ is not moved back *)
PopFrontNoRetreat ==
  /\ pc[Owner] = "PopFront.front"
  /\ delivered' = delivered \cup {reg[Owner].item}
  /\ Return(Owner)
  /\ UNCHANGED <<front, back, state, w, mutex, fresh>>

PopFrontRetreat ==
  /\ pc[Owner] = "PopFront.front"
  /\ front' = Decremented(front)
  /\ delivered' = delivered \cup {reg[Owner].item}
  /\ Return(Owner)
  /\ UNCHANGED <<back, state, w, mutex, fresh>>

-----------------------------------------------------------------------------
(* Leaving the scope of std::unique_lock, with what was popped *)
Unlock(t) ==
  /\ pc[t] = "unlock"
  /\ mutex' = NoThread
  /\ delivered' = delivered \cup (({reg[t].item} \cup reg[t].took) \ {NoWork})
  /\ Return(t)
  /\ UNCHANGED <<front, back, state, w, fresh>>

(* PushBack *)

PushBackLock(t) ==
  /\ pc[t] = "idle"
  /\ fresh # {}
  /\ mutex = NoThread
  /\ mutex' = t
  /\ fresh' = fresh \ {NextItem}
  /\ reg' = [reg EXCEPT ![t].item = NextItem]
  /\ Go(t, "PushBack.claim")
  /\ UNCHANGED <<front, back, state, w, delivered>>

PushBackClaim(t) ==
  LET e == Slot(back + Lap - 1) IN
  /\ pc[t] = "PushBack.claim"
  /\ \/ /\ state[e] = "kEmpty"
        /\ state' = [state EXCEPT ![e] = "kBusy"]
        /\ reg' = [reg EXCEPT ![t].e = e]
        /\ Go(t, "PushBack.back")
        /\ UNCHANGED fresh
     \/ /\ state[e] # "kEmpty"
        /\ fresh' = fresh \cup {reg[t].item}
        /\ reg' = [reg EXCEPT ![t].item = NoWork]
        /\ Go(t, "unlock")
        /\ UNCHANGED state
  /\ UNCHANGED <<front, back, w, mutex, delivered>>

PushBackRetreat(t) ==
  /\ pc[t] = "PushBack.back"
  /\ back' = Decremented(back)
  /\ Go(t, "PushBack.write")
  /\ UNCHANGED <<front, state, w, mutex, reg, fresh, delivered>>

PushBackWrite(t) ==
  /\ pc[t] = "PushBack.write"
  /\ w' = [w EXCEPT ![reg[t].e] = reg[t].item]
  /\ reg' = [reg EXCEPT ![t].item = NoWork]
  /\ Go(t, "PushBack.ready")
  /\ UNCHANGED <<front, back, state, mutex, fresh, delivered>>

PushBackPublish(t) ==
  /\ pc[t] = "PushBack.ready"
  /\ state' = [state EXCEPT ![reg[t].e] = "kReady"]
  /\ Go(t, "unlock")
  /\ UNCHANGED <<front, back, w, mutex, reg, fresh, delivered>>

-----------------------------------------------------------------------------
(* Size(): the three loads, for the caller named by the label.  A second   *)
(* load of front_ that differs from the first starts over.                 *)

Callers == {"PopBack", "PopBackHalf", "Half"}
SizeFront == [PopBack |-> "PopBack.size.front",
              PopBackHalf |-> "PopBackHalf.size.front", Half |-> "Half.size.front"]
SizeBack == [PopBack |-> "PopBack.size.back",
             PopBackHalf |-> "PopBackHalf.size.back", Half |-> "Half.size.back"]
SizeCheck == [PopBack |-> "PopBack.size.check",
              PopBackHalf |-> "PopBackHalf.size.check", Half |-> "Half.size.check"]
TryLock == [PopBack |-> "PopBack.try_lock", PopBackHalf |-> "PopBackHalf.try_lock"]

SizeLoadFront(t, caller) ==
  /\ \/ pc[t] = SizeFront[caller]
     \/ pc[t] = "idle" /\ caller # "Half"
  /\ reg' = [reg EXCEPT ![t].f = front]
  /\ Go(t, SizeBack[caller])
  /\ UNCHANGED <<front, back, state, w, mutex, fresh, delivered>>

SizeLoadBack(t, caller) ==
  /\ pc[t] = SizeBack[caller]
  /\ reg' = [reg EXCEPT ![t].b = back, ![t].seen = Cardinality(ReadySlots)]
  /\ Go(t, SizeCheck[caller])
  /\ UNCHANGED <<front, back, state, w, mutex, fresh, delivered>>

SizeRetry(t, caller) ==
  /\ pc[t] = SizeCheck[caller]
  /\ front # reg[t].f
  /\ reg' = [reg EXCEPT ![t] = NoLocals]
  /\ Go(t, SizeFront[caller])
  /\ UNCHANGED <<front, back, state, w, mutex, fresh, delivered>>

SizeIs(t, caller, size) ==
  /\ pc[t] = SizeCheck[caller]
  /\ front = reg[t].f
  /\ size = SizeOf(reg[t].f, reg[t].b)

(* Empty() and the try_to_lock that PopBack and PopBackHalf begin with *)

PopIfNotEmpty(t, caller) ==
  /\ caller # "Half"
  /\ \E size \in 0..kSize :
       /\ SizeIs(t, caller, size)
       /\ IF size = 0
          THEN Return(t)
          ELSE /\ Go(t, TryLock[caller])
               /\ reg' = [reg EXCEPT ![t] = NoLocals]
  /\ UNCHANGED <<front, back, state, w, mutex, fresh, delivered>>

PopTryLock(t, caller) ==
  /\ caller # "Half"
  /\ pc[t] = TryLock[caller]
  /\ \/ /\ mutex = NoThread
        /\ mutex' = t
        /\ Go(t, IF caller = "PopBack" THEN "PopBack.claim" ELSE "Half.size.front")
        /\ UNCHANGED reg
     \/ /\ mutex # NoThread
        /\ Return(t)
        /\ UNCHANGED mutex
  /\ UNCHANGED <<front, back, state, w, fresh, delivered>>

(* PopBack, under the lock *)

(* mutant: a load and no exchange *)
PopBackNoClaim(t) ==
  /\ pc[t] = "PopBack.claim"
  /\ reg' = [reg EXCEPT ![t].e = Slot(back)]
  /\ Go(t, IF state[Slot(back)] = "kReady" THEN "PopBack.take" ELSE "unlock")
  /\ UNCHANGED <<front, back, state, w, mutex, fresh, delivered>>

PopBackClaim(t) ==
  LET e == Slot(back) IN
  /\ pc[t] = "PopBack.claim"
  /\ \/ /\ state[e] = "kReady"
        /\ state' = [state EXCEPT ![e] = "kBusy"]
        /\ reg' = [reg EXCEPT ![t].e = e]
        /\ Go(t, "PopBack.take")
     \/ /\ state[e] # "kReady"
        /\ Go(t, "unlock")
        /\ UNCHANGED <<state, reg>>
  /\ UNCHANGED <<front, back, w, mutex, fresh, delivered>>

PopBackTake(t) ==
  LET e == reg[t].e IN
  /\ pc[t] = "PopBack.take"
  /\ reg' = [reg EXCEPT ![t].item = w[e]]
  /\ w' = [w EXCEPT ![e] = NoWork]
  /\ Go(t, "PopBack.empty")
  /\ UNCHANGED <<front, back, state, mutex, fresh, delivered>>

PopBackRelease(t) ==
  /\ pc[t] = "PopBack.empty"
  /\ state' = [state EXCEPT ![reg[t].e] = "kEmpty"]
  /\ Go(t, "PopBack.back")
  /\ UNCHANGED <<front, back, w, mutex, reg, fresh, delivered>>

PopBackAdvance(t) ==
  /\ pc[t] = "PopBack.back"
  /\ back' = Incremented(back)
  /\ Go(t, "unlock")
  /\ UNCHANGED <<front, state, w, mutex, reg, fresh, delivered>>

(* PopBackHalf, under the lock: mid runs from the middle down to back.     *)
(* The first ready element is claimed by a compare-and-swap; the elements  *)
(* below it are moved without one, on the strength of the DCHECK.          *)

HalfSize(t) ==
  /\ \E size \in 0..kSize :
       /\ SizeIs(t, "Half", size)
       /\ reg' = [reg EXCEPT ![t] =
            [NoLocals EXCEPT !.i = IF size > 1 THEN (size - 1) \div 2 ELSE 0]]
  /\ Go(t, "Half.element")
  /\ UNCHANGED <<front, back, state, w, mutex, fresh, delivered>>

(* mutant: no element is claimed, not even the first *)
HalfElementNoClaim(t) ==
  /\ pc[t] = "Half.element"
  /\ reg[t].i >= 0
  /\ IF reg[t].n > 0 \/ state[Slot(back + reg[t].i)] = "kReady"
     THEN /\ reg' = [reg EXCEPT ![t].e = Slot(back + reg[t].i),
                               ![t].start = IF reg[t].n = 0 THEN reg[t].i ELSE @]
          /\ Go(t, "Half.move")
     ELSE /\ reg' = [reg EXCEPT ![t].i = @ - 1]
          /\ UNCHANGED pc
  /\ UNCHANGED <<front, back, state, w, mutex, fresh, delivered>>

HalfElement(t) ==
  LET e == Slot(back + reg[t].i) IN
  /\ pc[t] = "Half.element"
  /\ reg[t].i >= 0
  /\ \/ /\ reg[t].n = 0
        /\ state[e] = "kReady"
        /\ state' = [state EXCEPT ![e] = "kBusy"]
        /\ reg' = [reg EXCEPT ![t].e = e, ![t].start = reg[t].i]
        /\ Go(t, "Half.move")
     \/ /\ reg[t].n = 0
        /\ state[e] # "kReady"
        /\ reg' = [reg EXCEPT ![t].i = @ - 1]
        /\ UNCHANGED <<state, pc>>
     \/ /\ reg[t].n > 0
        /\ reg' = [reg EXCEPT ![t].e = e]
        /\ Go(t, "Half.move")
        /\ UNCHANGED state
  /\ UNCHANGED <<front, back, w, mutex, fresh, delivered>>

HalfMove(t) ==
  LET e == reg[t].e IN
  /\ pc[t] = "Half.move"
  /\ reg' = [reg EXCEPT ![t].took = @ \cup {w[e]}]
  /\ w' = [w EXCEPT ![e] = NoWork]
  /\ Go(t, "Half.empty")
  /\ UNCHANGED <<front, back, state, mutex, fresh, delivered>>

HalfRelease(t) ==
  /\ pc[t] = "Half.empty"
  /\ state' = [state EXCEPT ![reg[t].e] = "kEmpty"]
  /\ reg' = [reg EXCEPT ![t].n = @ + 1, ![t].i = @ - 1]
  /\ Go(t, "Half.element")
  /\ UNCHANGED <<front, back, w, mutex, fresh, delivered>>

HalfAdvance(t) ==
  /\ pc[t] = "Half.element"
  /\ reg[t].i < 0
  /\ IF reg[t].n # 0 THEN back' = Incremented(back + reg[t].start)
                     ELSE UNCHANGED back
  /\ Go(t, "unlock")
  /\ UNCHANGED <<front, state, w, mutex, reg, fresh, delivered>>

-----------------------------------------------------------------------------
OwnerNext ==
  \/ PushFrontClaim \/ PushFrontAdvance \/ PushFrontWrite \/ PushFrontPublish
  \/ PopFrontClaim \/ PopFrontTake \/ PopFrontRelease \/ PopFrontRetreat

ThiefNext(t) ==
  \/ PushBackLock(t) \/ PushBackClaim(t) \/ PushBackRetreat(t) \/ PushBackWrite(t) \/ PushBackPublish(t)
  \/ \E caller \in Callers :
       \/ SizeLoadFront(t, caller) \/ SizeLoadBack(t, caller) \/ SizeRetry(t, caller)
       \/ PopIfNotEmpty(t, caller) \/ PopTryLock(t, caller)
  \/ PopBackClaim(t) \/ PopBackTake(t) \/ PopBackRelease(t) \/ PopBackAdvance(t)
  \/ HalfSize(t) \/ HalfElement(t) \/ HalfMove(t) \/ HalfRelease(t) \/ HalfAdvance(t)
  \/ Unlock(t)

Next == OwnerNext \/ \E t \in Thieves : ThiefNext(t)

Spec == Init /\ [][Next]_vars

-----------------------------------------------------------------------------
(* Types *)

OwnerLabels ==
  {"idle", "PushFront.front", "PushFront.write", "PushFront.ready",
   "PopFront.take", "PopFront.empty", "PopFront.front"}

ThiefLabels ==
  {"idle", "unlock",
   "PushBack.claim", "PushBack.back", "PushBack.write", "PushBack.ready",
   "PopBack.size.back", "PopBack.size.check", "PopBack.size.front",
   "PopBackHalf.size.back", "PopBackHalf.size.check", "PopBackHalf.size.front",
   "Half.size.back", "Half.size.check", "Half.size.front",
   "PopBack.try_lock", "PopBackHalf.try_lock",
   "PopBack.claim", "PopBack.take", "PopBack.empty", "PopBack.back",
   "Half.element", "Half.move", "Half.empty"}

Locals ==
  [item : Works \cup {NoWork}, took : SUBSET (Works \cup {NoWork}),
   f : 0..(Modulus - 1), b : 0..(Modulus - 1), seen : 0..kSize,
   e : Slots, i : -1..(kSize - 1), start : 0..(kSize - 1), n : 0..kSize]

TypeOK ==
  /\ front \in 0..(Modulus - 1) /\ back \in 0..(Modulus - 1)
  /\ state \in [Slots -> {"kEmpty", "kBusy", "kReady"}]
  /\ w \in [Slots -> Works \cup {NoWork}]
  /\ mutex \in Thieves \cup {NoThread}
  /\ pc \in [Threads -> OwnerLabels \cup ThiefLabels]
  /\ reg \in [Threads -> Locals]
  /\ fresh \subseteq Works /\ delivered \subseteq Works

-----------------------------------------------------------------------------
(* Safety *)

InFlight(t) == ({reg[t].item} \cup reg[t].took) \ {NoWork}
InArray == {w[e] : e \in Slots} \ {NoWork}

(* No item is lost and none is delivered twice: every item is in exactly   *)
(* one place, be it the caller's hands, the locals of one operation or one *)
(* element of the array, however the two ends race for the last element.   *)
EveryItemInOnePlace ==
  /\ Works = fresh \cup delivered \cup InArray
             \cup UNION {InFlight(t) : t \in Threads}
  /\ fresh \cap delivered = {}
  /\ InArray \cap (fresh \cup delivered) = {}
  /\ \A e1, e2 \in Slots : w[e1] = w[e2] /\ w[e1] # NoWork => e1 = e2
  /\ \A t \in Threads :
       /\ InFlight(t) \cap (fresh \cup delivered \cup InArray) = {}
       /\ \A u \in Threads \ {t} : InFlight(t) \cap InFlight(u) = {}

(* The elements an operation may read or write: those it claimed by the    *)
(* compare-and-swap, and for PopBackHalf also the ones below the first.    *)
HalfClaimed(t) ==
  pc[t] \in {"Half.move", "Half.empty"} \/ (pc[t] = "Half.element" /\ reg[t].n > 0)

Uses(t) ==
  IF HalfClaimed(t) THEN {Slot(back + j) : j \in 0..reg[t].i}
  ELSE IF pc[t] \in {"PushFront.front", "PushFront.write", "PushFront.ready",
                     "PopFront.take", "PopFront.empty",
                     "PushBack.back", "PushBack.write", "PushBack.ready",
                     "PopBack.take", "PopBack.empty"}
       THEN {reg[t].e} ELSE {}

(* e->w is not atomic: no two operations that may touch the same element   *)
(* are ever under way together, the unclaimed ones of PopBackHalf and the  *)
(* ones the owner is about to overwrite included, and a touched element is *)
(* not offered as empty.                                                   *)
NoRaceOnElements ==
  \A t \in Threads :
    /\ \A e \in Uses(t) : state[e] # "kEmpty"
    /\ \A u \in Threads \ {t} : Uses(t) \cap Uses(u) = {}

(* DCHECK(s == kReady), run_queue.h:106: below the element it claimed,     *)
(* PopBackHalf finds only ready elements, whatever the owner did meanwhile.*)
HalfFindsReadyElements ==
  \A t \in Thieves :
    pc[t] = "Half.element" /\ reg[t].n > 0 =>
      \A j \in 0..reg[t].i : state[Slot(back + j)] = "kReady"

(* Whatever the interleaving, an item is in one place, and an element in   *)
(* the hands of one operation.                                             *)
ElementsAreSafe ==
  TypeOK /\ EveryItemInOnePlace /\ NoRaceOnElements /\ HalfFindsReadyElements

(* A push returns the item to its caller, who then runs it inline, only    *)
(* when more than half of the array is in use.                             *)
RefusesOnlyWhenCrowded ==
  LET refusing == \/ pc[Owner] = "idle" /\ state[Slot(front)] # "kEmpty"
                  \/ \E t \in Thieves : /\ pc[t] = "PushBack.claim"
                                       /\ state[Slot(back + Lap - 1)] # "kEmpty"
  IN refusing => Cardinality({e \in Slots : state[e] # "kEmpty"}) > kSize \div 2

-----------------------------------------------------------------------------
(* Refinement.  A pop takes effect at its compare-and-swap, a push when it *)
(* makes the element ready.  A pop counts as having moved its index from   *)
(* its claim on, a push as not having moved it until the item is there.    *)

FrontOfDeque ==
  IF pc[Owner] \in {"PushFront.write", "PushFront.ready",
                    "PopFront.take", "PopFront.empty", "PopFront.front"}
  THEN Decremented(front) ELSE front

BackOfDeque ==
  IF mutex = NoThread THEN back
  ELSE IF pc[mutex] \in {"PushBack.write", "PushBack.ready",
                         "PopBack.take", "PopBack.empty", "PopBack.back"} THEN back + 1
  ELSE IF HalfClaimed(mutex) THEN back + reg[mutex].start + 1
  ELSE back

DequeContents ==
  [j \in 1..Distance(FrontOfDeque, BackOfDeque) |-> w[Slot(FrontOfDeque + Lap - j)]]

Popping(t) ==
  \/ HalfClaimed(t)
  \/ pc[t] \in {"PopFront.take", "PopFront.empty", "PopFront.front",
                "PopBack.take", "PopBack.empty", "PopBack.back", "unlock"}

HandedOut ==
  delivered \cup UNION {(InFlight(t) \cup {w[e] : e \in Uses(t)}) \ {NoWork} :
                        t \in {u \in Threads : Popping(u)}}

Deque == INSTANCE WorkDeque
           WITH Capacity <- kSize, deque <- DequeContents, out <- HandedOut

(* The lock-free queue is a bounded deque whose operations are atomic.     *)
IsADeque == Deque!DequeSpec
=============================================================================
