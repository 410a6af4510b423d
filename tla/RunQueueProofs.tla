--------------------------- MODULE RunQueueProofs ---------------------------
(***************************************************************************)
(* The elements of a RunQueue, for every size of the array, any number of  *)
(* threads and of items, and any value of the modification counters.       *)
(*                                                                         *)
(* The array is a ring of which the queue occupies an arc.  A thread's     *)
(* claim of an element and its move of front_ or back_ are two steps; what *)
(* makes the invariant inductive is to count an index as moved from the    *)
(* step at which its element stops (or starts) being kEmpty.  With the     *)
(* indices counted so, the elements that are not kEmpty are exactly the    *)
(* arc between them, but for the gap a PopBackHalf opens in it, and each   *)
(* busy element is at the end of the thread that claimed it.               *)
(*                                                                         *)
(* A further part shows that the queue implements WorkDeque: the contents   *)
(* of the deque are read off the same arc, cut at what is claimed, and     *)
(* each action either leaves them or is one of the deque's operations.     *)
(***************************************************************************)
EXTENDS RunQueueHistory, FiniteSetTheorems, SequenceTheorems, TLAPS

(* The ring.  Indices are taken modulo Lap; + and - 1 wrap around. *)
Up(x) == IF x = Lap - 1 THEN 0 ELSE x + 1
Down(x) == IF x = 0 THEN Lap - 1 ELSE x - 1
Plus(x, j) == IF x + j < Lap THEN x + j ELSE x + j - Lap
Fold(x) == IF x < kSize THEN x ELSE x - kSize

(* From index b up to index f, and from b's element up to element s *)
Arc(f, b) == IF f >= b THEN f - b ELSE f - b + Lap
Off(b, s) == IF s >= Fold(b) THEN s - Fold(b) ELSE s - Fold(b) + kSize

Indices == 0..(Lap - 1)
ElementStates == {"kEmpty", "kBusy", "kReady"}

(* st: the states; own and thf: the elements claimed by the owner and by   *)
(* the thief that holds the lock; lo + 1 .. hi: the gap, as offsets.       *)
Occupied(f, b, lo, hi, s) == Off(b, s) < Arc(f, b) /\ ~(lo < Off(b, s) /\ Off(b, s) <= hi)

Shape(f, b, st, own, thf, lo, hi) ==
  /\ f \in Indices /\ b \in Indices /\ st \in [Slots -> ElementStates]
  /\ Arc(f, b) <= kSize
  /\ lo \in Int /\ hi \in Int
  /\ (lo = -1 /\ hi = -1) \/ (0 <= lo /\ lo <= hi /\ hi < Arc(f, b))
  /\ \A s \in Slots : st[s] # "kEmpty" <=> Occupied(f, b, lo, hi, s)
  /\ \A s \in Slots : st[s] = "kBusy" <=> s \in own \cup thf
  /\ own \subseteq Slots /\ thf \subseteq Slots /\ own \cap thf = {}
  /\ \A s \in own : Off(b, s) = Arc(f, b) - 1
  /\ \A s \in thf : lo = hi /\ Off(b, s) = IF lo = -1 THEN 0 ELSE lo
  /\ 0 <= lo /\ lo = hi => thf # {}

-----------------------------------------------------------------------------
(* The ring as the threads' labels and locals describe it *)

FrontEnd ==
  IF pc[Owner] = "PushFront.front" THEN Up(front % Lap)
  ELSE IF pc[Owner] = "PopFront.front" THEN Down(front % Lap)
  ELSE front % Lap

OwnerHolds ==
  IF pc[Owner] \in {"PushFront.front", "PushFront.write", "PushFront.ready",
                    "PopFront.take", "PopFront.empty"}
  THEN {reg[Owner].e} ELSE {}

BackEndOf(t) ==
  IF pc[t] = "PushBack.back" THEN Down(back % Lap)
  ELSE IF pc[t] = "PopBack.back" THEN Up(back % Lap)
  ELSE IF HalfClaimed(t) /\ reg[t].i < 0 THEN Plus(back % Lap, reg[t].start + 1)
  ELSE back % Lap

HoldsOf(t) ==
  IF \/ pc[t] \in {"PushBack.back", "PushBack.write", "PushBack.ready",
                   "PopBack.take", "PopBack.empty"}
     \/ pc[t] \in {"Half.move", "Half.empty"} /\ reg[t].n = 0
  THEN {reg[t].e} ELSE {}

Gap(t) == HalfClaimed(t) /\ reg[t].i >= 0
LowOf(t) == IF Gap(t) THEN reg[t].i ELSE -1
HighOf(t) == IF Gap(t) THEN reg[t].start ELSE -1

(* Only the thief that holds the lock has anything under way at the back. *)
BackEnd == IF mutex = NoThread THEN back % Lap ELSE BackEndOf(mutex)
ThiefHolds == IF mutex = NoThread THEN {} ELSE HoldsOf(mutex)
GapLow == IF mutex = NoThread THEN -1 ELSE LowOf(mutex)
GapHigh == IF mutex = NoThread THEN -1 ELSE HighOf(mutex)

RingOK ==
  /\ Shape(FrontEnd, BackEnd, state, OwnerHolds, ThiefHolds, GapLow, GapHigh)
  /\ \A t \in Thieves :
       pc[t] \in {"Half.move", "Half.empty"} => reg[t].e = Fold(Plus(back % Lap, reg[t].i))

(* Labels, locals and the lock *)

LockedLabels ==
  {"unlock", "PushBack.claim", "PushBack.back", "PushBack.write", "PushBack.ready",
   "Half.size.back", "Half.size.check", "Half.size.front",
   "PopBack.claim", "PopBack.take", "PopBack.empty", "PopBack.back",
   "Half.element", "Half.move", "Half.empty"}

HalfLocals(t) ==
  /\ pc[t] = "Half.element" => 2 * reg[t].i < kSize
  /\ pc[t] \in {"Half.move", "Half.empty"} => reg[t].i >= 0
  /\ HalfClaimed(t) => 2 * reg[t].start < kSize /\ reg[t].i + reg[t].n = reg[t].start

ControlOK ==
  /\ front \in 0..(Modulus - 1) /\ back \in 0..(Modulus - 1)
  /\ state \in [Slots -> ElementStates]
  /\ w \in [Slots -> Works \cup {NoWork}]
  /\ mutex \in Thieves \cup {NoThread}
  /\ pc \in [Threads -> OwnerLabels \cup ThiefLabels]
  /\ pc[Owner] \in OwnerLabels /\ \A t \in Thieves : pc[t] \in ThiefLabels
  /\ reg \in [Threads -> Locals]
  /\ \A t \in Thieves : (pc[t] \in LockedLabels <=> mutex = t) /\ HalfLocals(t)
  /\ fresh \subseteq Works \cup {NoWork}

(* Items *)

HasItem(t) ==
  pc[t] \in {"PushFront.front", "PushFront.write", "PopFront.empty", "PopFront.front",
             "PushBack.claim", "PushBack.back", "PushBack.write",
             "PopBack.empty", "PopBack.back"}

LocalItemsOK(t) ==
  /\ HasItem(t) => reg[t].item \in Works
  /\ ~HasItem(t) /\ pc[t] # "unlock" => reg[t].item = NoWork
  /\ NoWork \notin reg[t].took
  /\ pc[t] \notin {"Half.element", "Half.move", "Half.empty", "unlock"} => reg[t].took = {}

(* The claimed element has no item before the write of a push and after   *)
(* the read of a pop.                                                      *)
VacatedBy(t) ==
  IF pc[t] \in {"PushFront.front", "PushFront.write", "PopFront.empty",
                "PushBack.back", "PushBack.write", "PopBack.empty", "Half.empty"}
  THEN {reg[t].e} ELSE {}

ElementItemsOK ==
  \A e \in Slots :
    w[e] = NoWork <=> state[e] = "kEmpty" \/ \E t \in Threads : e \in VacatedBy(t)

(* Where the items are: with callers (fr), delivered (de), in the elements *)
(* (ws) or in the hands of a thread (hs) *)
Placed(fr, de, ws, hs) ==
  /\ fr \subseteq Works /\ de \subseteq Works
  /\ ws \in [Slots -> Works \cup {NoWork}] /\ hs \in [Threads -> SUBSET Works]
  /\ \A x \in Works : \/ x \in fr \/ x \in de
                      \/ \E e \in Slots : ws[e] = x
                      \/ \E t \in Threads : x \in hs[t]
  /\ fr \cap de = {}
  /\ \A e \in Slots : ws[e] \notin fr \cup de
  /\ \A e1, e2 \in Slots : ws[e1] = ws[e2] /\ ws[e1] # NoWork => e1 = e2
  /\ \A t \in Threads : \A x \in hs[t] :
       /\ x \notin fr \cup de
       /\ \A e \in Slots : ws[e] # x
       /\ \A u \in Threads : x \in hs[u] => u = t

Hands == [t \in Threads |-> InFlight(t)]

ItemsOK ==
  /\ \A t \in Threads : LocalItemsOK(t)
  /\ ElementItemsOK
  /\ Placed(fresh, delivered, w, Hands)

-----------------------------------------------------------------------------
(* Arithmetic of the indices *)

(* The sizes as numbers: the provers need no more of SizeAssumption. *)
LEMMA Sizes == kSize \in Nat /\ kSize >= 4 /\ Lap \in Nat /\ Lap = kSize + kSize
                /\ Modulus \in Nat /\ Modulus >= Lap
<1>1. kSize \in Nat /\ kSize >= 4 /\ Lap \in Nat /\ Lap = kSize + kSize
  BY SizeAssumption DEF Lap
<1>2. Modulus \in Nat /\ Modulus >= Lap
  BY <1>1, LapsAssumption DEF Modulus
<1> QED
  BY <1>1, <1>2

(* Division with remainder *)
LEMMA Division ==
  ASSUME NEW d \in Nat \ {0}, NEW x \in Int
  PROVE  /\ x \div d \in Int
         /\ x = d * (x \div d) + (x % d)
         /\ x % d \in 0..(d - 1)
  OBVIOUS

(* The remainder is the one number below d that division leaves. *)
LEMMA Remainder ==
  ASSUME NEW d \in Nat \ {0}, NEW q \in Int, NEW r \in 0..(d - 1)
  PROVE  (d * q + r) % d = r
  OBVIOUS

(* Dropping the modification counter keeps the element's index. *)
LEMMA IndexOfModulus ==
  ASSUME NEW x \in Nat
  PROVE  (x % Modulus) % Lap = x % Lap
<1> DEFINE q == x \div Modulus
           r == x % Modulus
           p == r \div Lap
<1>1. Lap \in Nat \ {0} /\ Modulus \in Nat \ {0} /\ Laps \in Nat
  BY Sizes, LapsAssumption
<1>2. q \in Int /\ x = Modulus * q + r /\ r \in Int
  BY <1>1, Division
<1>3. p \in Int /\ r = Lap * p + (r % Lap) /\ r % Lap \in 0..(Lap - 1)
  BY <1>1, <1>2, Division
<1> HIDE DEF q, r, p
<1>4. Modulus * q = Lap * (Laps * q) /\ Laps * q \in Int
  BY <1>1, <1>2 DEF Modulus
<1>5. Laps * q + p \in Int /\ x = Lap * (Laps * q + p) + (r % Lap)
  BY <1>1, <1>2, <1>3, <1>4
<1>6. x % Lap = r % Lap
  BY <1>1, <1>3, <1>5, Remainder
<1> QED
  BY <1>6 DEF r

(* Which element an index names, and the indices j after it *)
LEMMA SlotIsFold ==
  ASSUME NEW x \in Nat
  PROVE  /\ x % Lap \in Indices
         /\ Slot(x) = Fold(x % Lap)
         /\ Slot(x + Lap - 1) = Fold(Down(x % Lap))
         /\ \A j \in 0..(kSize - 1) :
              Slot(x + j) = Fold(Plus(x % Lap, j)) /\ (x + j) % Lap = Plus(x % Lap, j)
<1>1. x % Lap \in Indices /\ Slot(x) = Fold(x % Lap)
  BY SizeAssumption DEF Lap, Indices, Slot, Fold
<1>2. (x + Lap - 1) % Lap = Down(x % Lap) /\ x + Lap - 1 \in Nat
  BY SizeAssumption DEF Lap, Down
<1>3. \A y \in Nat : Slot(y) = Fold(y % Lap)
  BY SizeAssumption DEF Lap, Slot, Fold
<1>4. \A j \in 0..(kSize - 1) : (x + j) % Lap = Plus(x % Lap, j) /\ x + j \in Nat
  BY SizeAssumption DEF Lap, Plus
<1> QED
  BY <1>1, <1>2, <1>3, <1>4

(* Incremented and Decremented move the index by one, modulo Lap. *)
LEMMA MovesByOne ==
  ASSUME NEW x \in Nat
  PROVE  /\ Incremented(x) \in 0..(Modulus - 1)
         /\ Incremented(x) % Lap = Up(x % Lap)
         /\ x < Modulus => Decremented(x) \in 0..(Modulus - 1)
         /\ Decremented(x) % Lap = Down(x % Lap)
<1>1. x + 1 + Lap \in Nat
  BY Sizes
<1>2. (x + 1 + Lap) % Lap = Up(x % Lap)
  BY SizeAssumption DEF Lap, Up
<1>3. Incremented(x) \in 0..(Modulus - 1)
  BY <1>1, Sizes, Division DEF Incremented
<1>4. Incremented(x) % Lap = Up(x % Lap)
  BY <1>1, <1>2, IndexOfModulus DEF Incremented
<1>5. Decremented(x) % Lap = Down(x % Lap)
  BY SizeAssumption DEF Lap, Down, Decremented
<1>6. ASSUME x < Modulus PROVE Decremented(x) \in 0..(Modulus - 1)
  BY <1>6, SizeAssumption, LapsAssumption, SMTT(30) DEF Lap, Decremented, Modulus
<1> QED
  BY <1>3, <1>4, <1>5, <1>6

-----------------------------------------------------------------------------
(* Steps of the ring.  Each lemma is one change of states and indices.     *)

(* Distances from b are one to one on the elements; where an arc ends *)
LEMMA RingArithmetic ==
  ASSUME NEW f \in Indices, NEW b \in Indices
  PROVE  /\ Fold(f) \in Slots /\ Up(f) \in Indices /\ Down(f) \in Indices
         /\ Up(Down(f)) = f /\ Down(Up(f)) = f
         /\ Arc(f, b) \in Nat
         /\ \A s \in Slots : Off(b, s) \in 0..(kSize - 1)
         /\ \A s1, s2 \in Slots : Off(b, s1) = Off(b, s2) => s1 = s2
         /\ Arc(f, b) < kSize => Off(b, Fold(f)) = Arc(f, b)
         /\ Arc(f, b) = kSize => Off(b, Fold(f)) = 0
         /\ 0 < Arc(f, b) /\ Arc(f, b) <= kSize => Off(b, Fold(Down(f))) = Arc(f, b) - 1
  BY Sizes DEF Slots, Indices, Fold, Up, Down, Arc, Off

(* Moving either end by one: the arc and the distances from the back *)
LEMMA BackArithmetic ==
  ASSUME NEW f \in Indices, NEW b \in Indices
  PROVE  /\ Off(b, Fold(b)) = 0
         /\ Off(b, Fold(Down(b))) = kSize - 1
         /\ Arc(f, b) < kSize =>
              /\ Arc(f, Down(b)) = Arc(f, b) + 1
              /\ Arc(Up(f), b) = Arc(f, b) + 1
         /\ Arc(f, b) > 0 =>
              /\ Arc(f, Up(b)) = Arc(f, b) - 1
              /\ Arc(Down(f), b) = Arc(f, b) - 1
         /\ \A s \in Slots :
              /\ Off(Down(b), s) = IF Off(b, s) = kSize - 1 THEN 0 ELSE Off(b, s) + 1
              /\ Off(Up(b), s) = IF Off(b, s) = 0 THEN kSize - 1 ELSE Off(b, s) - 1
  BY Sizes DEF Slots, Indices, Fold, Up, Down, Arc, Off

(* Moving the back by j: the arc and the distances from it *)
LEMMA PlusArithmetic ==
  ASSUME NEW f \in Indices, NEW b \in Indices, NEW j \in 0..kSize
  PROVE  /\ Plus(b, j) \in Indices
         /\ j < kSize => Fold(Plus(b, j)) \in Slots /\ Off(b, Fold(Plus(b, j))) = j
         /\ Arc(f, b) >= j => Arc(f, Plus(b, j)) = Arc(f, b) - j
         /\ j < kSize => Up(Plus(b, j)) = Plus(b, j + 1)
         /\ \A s \in Slots :
              Off(Plus(b, j), s) = IF Off(b, s) < j THEN Off(b, s) - j + kSize
                                                    ELSE Off(b, s) - j
  BY Sizes DEF Slots, Indices, Fold, Plus, Up, Arc, Off

(* A push claims the empty element in front of the arc, which grows. *)
LEMMA PushFrontClaims ==
  ASSUME NEW f, NEW b, NEW st, NEW thf, NEW lo, NEW hi,
         Shape(f, b, st, {}, thf, lo, hi), st[Fold(f)] = "kEmpty"
  PROVE  Shape(Up(f), b, [st EXCEPT ![Fold(f)] = "kBusy"], {Fold(f)}, thf, lo, hi)
<1> DEFINE e == Fold(f)
<1>1. f \in Indices /\ b \in Indices /\ e \in Slots /\ Up(f) \in Indices
  BY RingArithmetic DEF Shape
<1>2. Arc(f, b) < kSize
  BY <1>1, RingArithmetic, Sizes DEF Shape, Occupied
<1>3. Off(b, e) = Arc(f, b) /\ Arc(Up(f), b) = Arc(f, b) + 1
  BY <1>1, <1>2, RingArithmetic, BackArithmetic
<1> QED
  BY <1>1, <1>2, <1>3, RingArithmetic, Sizes DEF Shape, Occupied, ElementStates

(* It makes the element ready. *)
LEMMA FrontPublishes ==
  ASSUME NEW f, NEW b, NEW st, NEW e, NEW thf, NEW lo, NEW hi,
         Shape(f, b, st, {e}, thf, lo, hi)
  PROVE  Shape(f, b, [st EXCEPT ![e] = "kReady"], {}, thf, lo, hi)
  BY DEF Shape, ElementStates

(* A pop claims the last element of the arc, which stays. *)
LEMMA PopFrontClaims ==
  ASSUME NEW f, NEW b, NEW st, NEW thf, NEW lo, NEW hi,
         Shape(f, b, st, {}, thf, lo, hi), st[Fold(Down(f))] = "kReady"
  PROVE  Shape(f, b, [st EXCEPT ![Fold(Down(f))] = "kBusy"], {Fold(Down(f))}, thf, lo, hi)
<1> DEFINE e == Fold(Down(f))
<1>1. f \in Indices /\ b \in Indices /\ e \in Slots /\ Down(f) \in Indices
  BY RingArithmetic DEF Shape
<1>2. Off(b, e) \in Nat /\ Off(b, e) < Arc(f, b) /\ Arc(f, b) <= kSize
  BY <1>1, RingArithmetic DEF Shape, Occupied
<1>3. Off(b, e) = Arc(f, b) - 1
  BY <1>1, <1>2, RingArithmetic
<1> QED
  BY <1>1, <1>2, <1>3 DEF Shape, ElementStates

(* It empties the element: the arc shrinks. *)
LEMMA PopFrontReleases ==
  ASSUME NEW f, NEW b, NEW st, NEW e, NEW thf, NEW lo, NEW hi,
         Shape(f, b, st, {e}, thf, lo, hi)
  PROVE  Shape(Down(f), b, [st EXCEPT ![e] = "kEmpty"], {}, thf, lo, hi)
<1>1. f \in Indices /\ b \in Indices /\ e \in Slots /\ Down(f) \in Indices
  BY RingArithmetic DEF Shape
<1>2. Off(b, e) = Arc(f, b) - 1 /\ Off(b, e) \in Nat /\ Arc(f, b) \in Nat
  BY <1>1, RingArithmetic DEF Shape
<1>3. Arc(Down(f), b) = Arc(f, b) - 1
  BY <1>1, <1>2, BackArithmetic
<1>4. st[e] # "kEmpty" /\ e \notin thf /\ lo \in Int /\ hi \in Int
  BY <1>1 DEF Shape
<1>5. ~(hi = Arc(f, b) - 1 /\ lo < hi)
  BY <1>1, <1>2, <1>4 DEF Shape, Occupied
<1>6. ~(hi = Arc(f, b) - 1 /\ lo = hi /\ lo >= 0)
  BY <1>1, <1>2, <1>4, RingArithmetic DEF Shape
<1>7. hi < Arc(f, b) - 1
  BY <1>1, <1>2, <1>4, <1>5, <1>6 DEF Shape
<1> DEFINE st1 == [st EXCEPT ![e] = "kEmpty"]
<1>8. st1 \in [Slots -> ElementStates] /\ st1[e] = "kEmpty"
      /\ \A s \in Slots : s # e => st1[s] = st[s]
  BY <1>1 DEF Shape, ElementStates
<1>9. \A s \in Slots : st1[s] # "kEmpty" <=> Occupied(Down(f), b, lo, hi, s)
  BY <1>1, <1>2, <1>3, <1>8, RingArithmetic DEF Shape, Occupied
<1>10. \A s \in Slots : st1[s] = "kBusy" <=> s \in {} \cup thf
  BY <1>1, <1>4, <1>8 DEF Shape
<1> QED
  BY <1>1, <1>2, <1>3, <1>4, <1>7, <1>8, <1>9, <1>10, Sizes DEF Shape

(* The same at the back, where there is no gap: a push claims, *)
LEMMA PushBackClaims ==
  ASSUME NEW f, NEW b, NEW st, NEW own,
         Shape(f, b, st, own, {}, -1, -1), st[Fold(Down(b))] = "kEmpty"
  PROVE  Shape(f, Down(b), [st EXCEPT ![Fold(Down(b))] = "kBusy"], own, {Fold(Down(b))}, -1, -1)
<1> DEFINE e == Fold(Down(b))
<1>1. f \in Indices /\ b \in Indices /\ e \in Slots /\ Down(b) \in Indices
  BY RingArithmetic DEF Shape
<1>2. Off(b, e) = kSize - 1 /\ Arc(f, b) \in Nat
  BY <1>1, BackArithmetic, RingArithmetic
<1>3. Arc(f, b) < kSize
  BY <1>1, <1>2, Sizes DEF Shape, Occupied
<1>4. Arc(f, Down(b)) = Arc(f, b) + 1 /\ Off(Down(b), e) = 0
  BY <1>1, <1>2, <1>3, BackArithmetic
<1>5. \A s \in Slots : s # e => Off(Down(b), s) = Off(b, s) + 1
  BY <1>1, <1>2, BackArithmetic, RingArithmetic
<1> DEFINE st1 == [st EXCEPT ![e] = "kBusy"]
<1>6. \A s \in Slots : Off(b, s) \in Nat
  BY <1>1, RingArithmetic
<1>7. st1 \in [Slots -> ElementStates] /\ st1[e] = "kBusy" /\ \A s \in Slots \ {e} : st1[s] = st[s]
  BY <1>1 DEF Shape, ElementStates
<1> HIDE DEF st1, e
<1>8. \A s \in Slots : st1[s] # "kEmpty" <=> Occupied(f, Down(b), -1, -1, s)
  BY <1>1, <1>2, <1>3, <1>4, <1>5, <1>6, <1>7 DEF Shape, Occupied
<1>9. /\ \A s \in Slots : st1[s] = "kBusy" <=> s \in own \cup {e}
      /\ own \cap {e} = {}
  BY <1>1, <1>7 DEF Shape, e
<1>10. \A s \in own : Off(Down(b), s) = Arc(f, Down(b)) - 1
  BY <1>2, <1>4, <1>5, <1>6, <1>9 DEF Shape
<1>11. Shape(f, Down(b), st1, own, {e}, -1, -1)
  BY <1>1, <1>2, <1>3, <1>4, <1>7, <1>8, <1>9, <1>10, Sizes DEF Shape
<1> QED
  BY <1>11 DEF st1, e

(* publishes, *)
LEMMA BackPublishes ==
  ASSUME NEW f, NEW b, NEW st, NEW own, NEW e,
         Shape(f, b, st, own, {e}, -1, -1)
  PROVE  Shape(f, b, [st EXCEPT ![e] = "kReady"], own, {}, -1, -1)
  BY DEF Shape, ElementStates

(* and a pop claims *)
LEMMA PopBackClaims ==
  ASSUME NEW f, NEW b, NEW st, NEW own,
         Shape(f, b, st, own, {}, -1, -1), st[Fold(b)] = "kReady"
  PROVE  Shape(f, b, [st EXCEPT ![Fold(b)] = "kBusy"], own, {Fold(b)}, -1, -1)
<1>1. f \in Indices /\ b \in Indices /\ Fold(b) \in Slots /\ Off(b, Fold(b)) = 0
  BY RingArithmetic, BackArithmetic DEF Shape
<1> QED
  BY <1>1 DEF Shape, ElementStates

(* and releases. *)
LEMMA PopBackReleases ==
  ASSUME NEW f, NEW b, NEW st, NEW own, NEW e,
         Shape(f, b, st, own, {e}, -1, -1)
  PROVE  Shape(f, Up(b), [st EXCEPT ![e] = "kEmpty"], own, {}, -1, -1)
<1>1. f \in Indices /\ b \in Indices /\ e \in Slots /\ Up(b) \in Indices /\ Off(b, e) = 0
  BY RingArithmetic DEF Shape
<1>2. Arc(f, b) \in Nat /\ Arc(f, b) > 0
  BY <1>1, RingArithmetic DEF Shape, Occupied
<1>3. Arc(f, Up(b)) = Arc(f, b) - 1 /\ Off(Up(b), e) = kSize - 1
  BY <1>1, <1>2, BackArithmetic
<1>4. \A s \in Slots : s # e => Off(Up(b), s) = Off(b, s) - 1
  BY <1>1, BackArithmetic, RingArithmetic
<1> QED
  BY <1>1, <1>2, <1>3, <1>4, RingArithmetic, Sizes, SMTT(30) DEF Shape, Occupied, ElementStates

(* The first element a PopBackHalf finds ready, at offset i *)
LEMMA HalfClaims ==
  ASSUME NEW f, NEW b, NEW st, NEW own, NEW i \in 0..(kSize - 1),
         Shape(f, b, st, own, {}, -1, -1), st[Fold(Plus(b, i))] = "kReady"
  PROVE  Shape(f, b, [st EXCEPT ![Fold(Plus(b, i))] = "kBusy"], own, {Fold(Plus(b, i))}, i, i)
<1> DEFINE e == Fold(Plus(b, i))
<1>1. f \in Indices /\ b \in Indices /\ e \in Slots /\ Off(b, e) = i
  BY PlusArithmetic, Sizes DEF Shape
<1> QED
  BY <1>1, RingArithmetic DEF Shape, Occupied, ElementStates

(* An element released by PopBackHalf, the claimed one or one below it *)
LEMMA HalfReleases ==
  ASSUME NEW f, NEW b, NEW st, NEW own, NEW thf, NEW lo, NEW hi, NEW e \in Slots,
         Shape(f, b, st, own, thf, lo, hi), lo > 0,
         Off(b, e) = lo, thf = {e} \/ (thf = {} /\ lo < hi)
  PROVE  Shape(f, b, [st EXCEPT ![e] = "kEmpty"], own, {}, lo - 1, hi)
<1>1. f \in Indices /\ b \in Indices /\ Arc(f, b) \in Nat
  BY RingArithmetic DEF Shape
<1>2. e \notin own
  BY <1>1 DEF Shape
<1> QED
  BY <1>1, <1>2, RingArithmetic DEF Shape, Occupied, ElementStates

(* The last one: the gap now begins at the back and leaves the arc. *)
LEMMA HalfReleasesLast ==
  ASSUME NEW f, NEW b, NEW st, NEW own, NEW thf, NEW hi, NEW e \in Slots,
         Shape(f, b, st, own, thf, 0, hi),
         Off(b, e) = 0, thf = {e} \/ (thf = {} /\ 0 < hi)
  PROVE  Shape(f, Plus(b, hi + 1), [st EXCEPT ![e] = "kEmpty"], own, {}, -1, -1)
<1>1. f \in Indices /\ b \in Indices /\ Arc(f, b) \in Nat
  BY RingArithmetic DEF Shape
<1>2. hi \in Nat /\ hi + 1 <= Arc(f, b) /\ Arc(f, b) <= kSize
  BY <1>1 DEF Shape
<1>3. e \notin own
  BY <1>1, <1>2 DEF Shape
<1>4. hi + 1 \in 0..kSize
  BY <1>1, <1>2, Sizes
<1>5. /\ Plus(b, hi + 1) \in Indices
      /\ Arc(f, Plus(b, hi + 1)) = Arc(f, b) - (hi + 1)
      /\ \A s \in Slots : Off(Plus(b, hi + 1), s) = IF Off(b, s) < hi + 1
                                                    THEN Off(b, s) - (hi + 1) + kSize
                                                    ELSE Off(b, s) - (hi + 1)
  BY <1>1, <1>2, <1>4, PlusArithmetic
<1> DEFINE st1 == [st EXCEPT ![e] = "kEmpty"]
           b1 == Plus(b, hi + 1)
<1>6. st1 \in [Slots -> ElementStates] /\ st1[e] = "kEmpty"
      /\ \A s \in Slots : s # e => st1[s] = st[s]
  BY DEF Shape, ElementStates
<1>7. \A s \in Slots : Off(b, s) \in 0..(kSize - 1) /\ (s # e => Off(b, s) # 0)
  BY <1>1, RingArithmetic
<1>8. \A s \in Slots : s # e => (Occupied(f, b1, -1, -1, s) <=> Occupied(f, b, 0, hi, s))
  BY <1>1, <1>2, <1>5, <1>7, Sizes DEF Occupied
<1>9. ~Occupied(f, b1, -1, -1, e)
  BY <1>1, <1>2, <1>5, RingArithmetic, Sizes DEF Occupied
<1>10. \A s \in Slots : st1[s] # "kEmpty" <=> Occupied(f, b1, -1, -1, s)
  BY <1>6, <1>8, <1>9 DEF Shape
<1>11. \A s \in Slots : st1[s] = "kBusy" <=> s \in own \cup {}
  BY <1>3, <1>6, RingArithmetic DEF Shape
<1>12. \A s \in own : s \in Slots /\ Off(b, s) = Arc(f, b) - 1 /\ Off(b, s) > hi
  BY <1>1, <1>2, <1>3, <1>7 DEF Shape, Occupied
<1>13. \A s \in own : Off(b1, s) = Arc(f, b1) - 1
  BY <1>1, <1>2, <1>5, <1>7, <1>12
<1>14. Arc(f, b1) <= kSize
  BY <1>1, <1>2, <1>5, Sizes
<1> QED
  BY <1>1, <1>5, <1>6, <1>10, <1>11, <1>13, <1>14 DEF Shape

-----------------------------------------------------------------------------
(* Labels, locals and the lock *)

(* What a thread counts when it loads back_ is a number of elements. *)
LEMMA ReadyCount == Cardinality(ReadySlots) \in 0..kSize
<1>1. IsFiniteSet(Slots) /\ Cardinality(Slots) = kSize
  BY Sizes, FS_Interval DEF Slots
<1>2. ReadySlots \in SUBSET Slots
  BY DEF ReadySlots
<1> QED
  BY <1>1, <1>2, FS_Subset, FS_CardinalityType, Sizes

(* Size() is at most the size of the array. *)
LEMMA SizeRange ==
  ASSUME NEW f \in Nat, NEW b \in Nat
  PROVE  SizeOf(f, b) \in 0..kSize
<1>1. b % Lap \in 0..(Lap - 1) /\ Lap \in Nat \ {0}
  BY Sizes, Division
<1>2. f + Lap - (b % Lap) \in Int
  BY <1>1
<1>3. Distance(f, b) \in 0..(Lap - 1)
  BY <1>1, <1>2, Division DEF Distance
<1> QED
  BY <1>3, Sizes DEF SizeOf

(* The next item to push is one of those not pushed. *)
LEMMA FreshItem ==
  ASSUME fresh # {}
  PROVE  NextItem \in fresh
  BY DEF NextItem

(* An index names an element. *)
LEMMA SlotType == ASSUME NEW x \in Nat PROVE Slot(x) \in Slots
  BY Sizes, Division DEF Slot, Slots

ThreadStep(t) ==
  /\ pc' \in [Threads -> OwnerLabels \cup ThiefLabels] /\ reg' \in [Threads -> Locals]
  /\ \A u \in Threads \ {t} : pc'[u] = pc[u] /\ reg'[u] = reg[u]
  /\ state' \in [Slots -> ElementStates] /\ w' \in [Slots -> Works \cup {NoWork}]
  /\ front' \in 0..(Modulus - 1) /\ back' \in 0..(Modulus - 1)
  /\ fresh' \subseteq Works \cup {NoWork}

OwnerStep ==
  /\ ThreadStep(Owner) /\ pc'[Owner] \in OwnerLabels
  /\ mutex' = mutex /\ back' = back

ThiefStep(t) ==
  /\ ThreadStep(t) /\ pc'[t] \in ThiefLabels
  /\ front' = front
  /\ HalfLocals(t)'
  /\ \/ mutex' = mutex /\ (pc[t] \in LockedLabels <=> pc'[t] \in LockedLabels)
     \/ mutex = NoThread /\ mutex' = t /\ pc'[t] \in LockedLabels
     \/ mutex = t /\ mutex' = NoThread /\ pc'[t] \notin LockedLabels

(* What a step of the owner keeps to leaves ControlOK, *)
LEMMA OwnerKeepsControl == ASSUME ControlOK, OwnerStep PROVE ControlOK'
  BY ThreadAssumption DEF ControlOK, OwnerStep, ThreadStep, Threads, HalfLocals, HalfClaimed

(* and so does what a step of a thief keeps to. *)
LEMMA ThiefKeepsControl == ASSUME ControlOK, NEW t \in Thieves, ThiefStep(t) PROVE ControlOK'
<1>1. t \in Threads /\ t # Owner /\ NoThread \notin Thieves
  BY ThreadAssumption DEF Threads
<1>2. \A u \in Thieves \ {t} : HalfLocals(u)'
  BY DEF ControlOK, ThiefStep, ThreadStep, Threads, HalfLocals, HalfClaimed
<1>3. \A u \in Thieves \ {t} : pc'[u] = pc[u] /\ u \in Threads
  BY DEF ThiefStep, ThreadStep, Threads
<1>4. mutex' \in Thieves \cup {NoThread}
      /\ \A u \in Thieves : pc'[u] \in LockedLabels <=> mutex' = u
  BY <1>1, <1>3 DEF ControlOK, ThiefStep
<1>5. pc'[Owner] \in OwnerLabels /\ \A u \in Thieves : pc'[u] \in ThiefLabels
  BY <1>1, <1>3 DEF ControlOK, ThiefStep, ThreadStep, Threads
<1> QED
  BY <1>1, <1>2, <1>4, <1>5 DEF ControlOK, ThiefStep, ThreadStep

(* What the owner's and a thief's actions do to labels, locals and types *)

(* The locals of a thread that is in no operation have their types. *)
LEMMA NoLocalsType == NoLocals \in Locals
  BY Sizes DEF NoLocals, Locals, Slots

(* The owner's actions keep to that, *)
LEMMA OwnerControl == ASSUME ControlOK, OwnerNext PROVE OwnerStep
<1>1. Owner \in Threads /\ reg[Owner] \in Locals /\ front \in Nat /\ front < Modulus
  BY Sizes DEF ControlOK, Threads
<1>2. Slot(front) \in Slots /\ Slot(front + Lap - 1) \in Slots
  BY <1>1, SlotType, Sizes
<1>3. Incremented(front) \in 0..(Modulus - 1) /\ Decremented(front) \in 0..(Modulus - 1)
  BY <1>1, MovesByOne
<1> USE DEF ControlOK, OwnerStep, ThreadStep, Go, Return, Locals, OwnerLabels, ElementStates
<1>4. CASE PushFrontClaim
  BY <1>4, <1>1, <1>2, <1>3, FreshItem DEF PushFrontClaim
<1>5. CASE PushFrontAdvance
  BY <1>5, <1>1, <1>2, <1>3 DEF PushFrontAdvance
<1>6. CASE PushFrontWrite
  BY <1>6, <1>1, <1>2, <1>3 DEF PushFrontWrite
<1>7. CASE PushFrontPublish
  BY <1>7, <1>1, <1>2, <1>3, NoLocalsType DEF PushFrontPublish
<1>8. CASE PopFrontClaim
  BY <1>8, <1>1, <1>2, <1>3 DEF PopFrontClaim
<1>9. CASE PopFrontTake
  BY <1>9, <1>1, <1>2, <1>3 DEF PopFrontTake
<1>10. CASE PopFrontRelease
  BY <1>10, <1>1, <1>2, <1>3 DEF PopFrontRelease
<1>11. CASE PopFrontRetreat
  BY <1>11, <1>1, <1>2, <1>3, NoLocalsType DEF PopFrontRetreat
<1> QED
  BY <1>4, <1>5, <1>6, <1>7, <1>8, <1>9, <1>10, <1>11 DEF OwnerNext

(* the thieves' loads of Size() and their try_lock, *)
LEMMA SizeControl ==
  ASSUME ControlOK, NEW t \in Thieves, NEW caller \in Callers,
         \/ SizeLoadFront(t, caller) \/ SizeLoadBack(t, caller) \/ SizeRetry(t, caller)
         \/ PopIfNotEmpty(t, caller) \/ PopTryLock(t, caller)
  PROVE  ThiefStep(t)
<1>1. t \in Threads /\ reg[t] \in Locals /\ mutex \in Thieves \cup {NoThread}
  BY DEF ControlOK, Threads
<1> USE DEF ControlOK, ThiefStep, ThreadStep, HalfLocals, HalfClaimed, LockedLabels,
            Go, Return, Locals, ThiefLabels, Callers,
            SizeFront, SizeBack, SizeCheck, TryLock
<1>2. CASE SizeLoadFront(t, caller)
  BY <1>2, <1>1 DEF SizeLoadFront
<1>3. CASE SizeLoadBack(t, caller)
  <2>1. reg' = [reg EXCEPT ![t] = [reg[t] EXCEPT !.b = back, !.seen = Cardinality(ReadySlots)]]
    BY <1>3 DEF SizeLoadBack
  <2>2. reg' \in [Threads -> Locals]
    BY <2>1, <1>1, ReadyCount
  <2>3. ThreadStep(t) /\ pc'[t] \in ThiefLabels
    BY <2>1, <2>2, <1>3, <1>1 DEF SizeLoadBack
  <2>4. HalfLocals(t)'
    BY <1>3, <1>1 DEF SizeLoadBack
  <2>5. mutex' = mutex /\ (pc[t] \in LockedLabels <=> pc'[t] \in LockedLabels)
    BY <1>3, <1>1 DEF SizeLoadBack
  <2> QED BY <2>3, <2>4, <2>5, <1>3 DEF SizeLoadBack
<1>4. CASE SizeRetry(t, caller)
  BY <1>4, <1>1, NoLocalsType DEF SizeRetry
<1>5. CASE PopIfNotEmpty(t, caller)
  <2>1. reg' \in [Threads -> Locals] /\ reg' = [reg EXCEPT ![t] = NoLocals]
    BY <1>5, <1>1, NoLocalsType DEF PopIfNotEmpty
  <2>2. ThreadStep(t) /\ pc'[t] \in ThiefLabels
    BY <2>1, <1>5, <1>1 DEF PopIfNotEmpty
  <2>3. HalfLocals(t)'
    BY <1>5, <1>1 DEF PopIfNotEmpty
  <2>4. mutex' = mutex /\ (pc[t] \in LockedLabels <=> pc'[t] \in LockedLabels)
    BY <1>5, <1>1 DEF PopIfNotEmpty, SizeIs
  <2> QED BY <2>2, <2>3, <2>4, <1>5 DEF PopIfNotEmpty
<1>6. CASE PopTryLock(t, caller)
  BY <1>6, <1>1, NoLocalsType DEF PopTryLock
<1> QED
  BY <1>2, <1>3, <1>4, <1>5, <1>6

(* and all actions of the thieves. *)
LEMMA ThiefControl == ASSUME ControlOK, NEW t \in Thieves, ThiefNext(t) PROVE ThiefStep(t)
<1>1. t \in Threads /\ reg[t] \in Locals /\ mutex \in Thieves \cup {NoThread}
      /\ back \in Nat /\ back < Modulus
  BY Sizes DEF ControlOK, Threads
<1>2. Slot(back) \in Slots /\ Slot(back + Lap - 1) \in Slots
      /\ \A j \in 0..(kSize - 1) : Slot(back + j) \in Slots
  BY <1>1, SlotType, Sizes
<1>3. Incremented(back) \in 0..(Modulus - 1) /\ Decremented(back) \in 0..(Modulus - 1)
      /\ \A j \in 0..(kSize - 1) : Incremented(back + j) \in 0..(Modulus - 1)
  BY <1>1, MovesByOne, Sizes
<1> USE DEF ControlOK, ThiefStep, ThreadStep, HalfLocals, HalfClaimed, LockedLabels,
            Go, Return, Locals, ThiefLabels, ElementStates
<1>4. CASE PushBackLock(t)
  <2>1. reg' = [reg EXCEPT ![t] = [reg[t] EXCEPT !.item = NextItem]] /\ NextItem \in Works \cup {NoWork}
    BY <1>4, <1>1, FreshItem DEF PushBackLock
  <2>2. reg' \in [Threads -> Locals]
    BY <2>1, <1>1
  <2>3. ThreadStep(t) /\ pc'[t] \in ThiefLabels
    BY <2>1, <2>2, <1>4, <1>1 DEF PushBackLock
  <2>4. HalfLocals(t)'
    BY <1>4, <1>1 DEF PushBackLock
  <2>5. mutex = NoThread /\ mutex' = t /\ pc'[t] \in LockedLabels
    BY <1>4, <1>1 DEF PushBackLock
  <2> QED BY <2>3, <2>4, <2>5, <1>4 DEF PushBackLock
<1>5. CASE PushBackClaim(t)
  <2>1. CASE state[Slot(back + Lap - 1)] = "kEmpty"
    <3>1. /\ reg' \in [Threads -> Locals] /\ \A u \in Threads \ {t} : reg'[u] = reg[u]
          /\ state' \in [Slots -> ElementStates]
      BY <2>1, <1>5, <1>1, <1>2, SMTT(30) DEF PushBackClaim
    <3>2. HalfLocals(t)'
      BY <2>1, <1>5, <1>1 DEF PushBackClaim
    <3>3. pc' = [pc EXCEPT ![t] = "PushBack.back"] /\ pc[t] = "PushBack.claim"
      BY <2>1, <1>5 DEF PushBackClaim
    <3>4. UNCHANGED <<front, back, w, mutex, fresh>>
      BY <2>1, <1>5 DEF PushBackClaim
    <3>5. ThreadStep(t)
      BY <3>1, <3>3, <3>4, <1>1
    <3>6. pc'[t] \in ThiefLabels /\ (pc[t] \in LockedLabels <=> pc'[t] \in LockedLabels)
      BY <3>3, <1>1
    <3> HIDE DEF ControlOK, ThreadStep, HalfLocals, LockedLabels, ThiefLabels
    <3> QED
      BY <3>2, <3>4, <3>5, <3>6
  <2>2. CASE state[Slot(back + Lap - 1)] # "kEmpty"
    BY <2>2, <1>5, <1>1, <1>2 DEF PushBackClaim
  <2> QED
    BY <2>1, <2>2
<1>6. CASE PushBackRetreat(t)
  BY <1>6, <1>1, <1>2, <1>3 DEF PushBackRetreat
<1>7. CASE PushBackWrite(t)
  BY <1>7, <1>1, <1>2, <1>3 DEF PushBackWrite
<1>8. CASE PushBackPublish(t)
  BY <1>8, <1>1, <1>2, <1>3 DEF PushBackPublish
<1>9. CASE PopBackClaim(t)
  <2>1. CASE state[Slot(back)] = "kReady"
    BY <2>1, <1>9, <1>1, <1>2 DEF PopBackClaim
  <2>2. CASE state[Slot(back)] # "kReady"
    BY <2>2, <1>9, <1>1, <1>2 DEF PopBackClaim
  <2> QED
    BY <2>1, <2>2
<1>10. CASE PopBackTake(t)
  BY <1>10, <1>1, <1>2, <1>3 DEF PopBackTake
<1>11. CASE PopBackRelease(t)
  BY <1>11, <1>1, <1>2, <1>3 DEF PopBackRelease
<1>12. CASE PopBackAdvance(t)
  BY <1>12, <1>1, <1>2, <1>3 DEF PopBackAdvance
<1>13. CASE HalfSize(t)
  <2> DEFINE size == SizeOf(reg[t].f, reg[t].b)
             i == IF size > 1 THEN (size - 1) \div 2 ELSE 0
  <2>1. size \in 0..kSize
    BY <1>1, SizeRange, Sizes
  <2>2. i \in 0..(kSize - 1) /\ 2 * i < kSize
    BY <2>1, Sizes
  <2>3. reg' = [reg EXCEPT ![t] = [NoLocals EXCEPT !.i = i]]
    BY <1>13 DEF HalfSize, SizeIs
  <2> HIDE DEF i
  <2>4. [NoLocals EXCEPT !.i = i] \in Locals
    BY <2>2, NoLocalsType, Sizes
  <2>5. ThreadStep(t) /\ pc'[t] \in ThiefLabels
    BY <2>3, <2>4, <1>13, <1>1 DEF HalfSize
  <2>6. pc'[t] = "Half.element" /\ reg'[t].i = i /\ reg'[t].n = 0
    BY <2>3, <1>13, <1>1 DEF HalfSize, NoLocals
  <2>7. HalfLocals(t)'
    BY <2>6, <2>2
  <2>8. mutex' = mutex /\ (pc[t] \in LockedLabels <=> pc'[t] \in LockedLabels)
    BY <2>6, <1>13, <1>1 DEF HalfSize, SizeIs, SizeCheck
  <2> QED
    BY <2>5, <2>7, <2>8, <1>13 DEF HalfSize
<1>14. CASE HalfElement(t)
  <2>1. CASE reg[t].n = 0 /\ state[Slot(back + reg[t].i)] = "kReady"
    <3> DEFINE r == [reg[t] EXCEPT !.e = Slot(back + reg[t].i), !.start = reg[t].i]
    <3>1. reg[t].i \in 0..(kSize - 1)
      BY <1>14, <1>1, Sizes DEF HalfElement
    <3>2. r \in Locals
      BY <3>1, <1>1, <1>2
    <3>3. reg' = [reg EXCEPT ![t] = r] /\ r \in Locals
      <4>1. reg' = [reg EXCEPT ![t].e = Slot(back + reg[t].i), ![t].start = reg[t].i]
        BY <2>1, <1>14 DEF HalfElement
      <4> QED
        BY <4>1, <3>2, <1>1
    <3>4. ThreadStep(t) /\ pc'[t] \in ThiefLabels
      <4>1. reg' \in [Threads -> Locals] /\ \A u \in Threads \ {t} : reg'[u] = reg[u]
        BY <3>3, <1>1
      <4>2. state' \in [Slots -> ElementStates]
        BY <2>1, <1>14, <1>1, <1>2 DEF HalfElement
      <4> QED
        BY <4>1, <4>2, <2>1, <1>14, <1>1, SMTT(30) DEF HalfElement
    <3>5. HalfLocals(t)'
      BY <3>3, <2>1, <1>14, <1>1 DEF HalfElement
    <3> QED
      BY <3>4, <3>5, <2>1, <1>14, <1>1 DEF HalfElement
  <2>2. CASE reg[t].n = 0 /\ state[Slot(back + reg[t].i)] # "kReady"
    BY <2>2, <1>14, <1>1, <1>2, Sizes DEF HalfElement
  <2>3. CASE reg[t].n > 0
    <3> DEFINE r == [reg[t] EXCEPT !.e = Slot(back + reg[t].i)]
    <3>1. reg[t].i \in 0..(kSize - 1) /\ reg' = [reg EXCEPT ![t] = r]
      BY <2>3, <1>14, <1>1, Sizes DEF HalfElement
    <3>2. r \in Locals /\ r.i = reg[t].i /\ r.n = reg[t].n /\ r.start = reg[t].start
      BY <3>1, <1>1, <1>2
    <3> HIDE DEF r
    <3>3. ThreadStep(t) /\ pc'[t] \in ThiefLabels
      BY <3>1, <3>2, <2>3, <1>14, <1>1 DEF HalfElement
    <3>4. HalfLocals(t)'
      BY <3>1, <3>2, <2>3, <1>14, <1>1 DEF HalfElement
    <3> QED
      BY <3>3, <3>4, <2>3, <1>14, <1>1 DEF HalfElement
  <2> QED
    BY <2>1, <2>2, <2>3, <1>1
<1>15. CASE HalfMove(t)
  BY <1>15, <1>1, <1>2, <1>3, SMTT(30) DEF HalfMove
<1>16. CASE HalfRelease(t)
  <2> DEFINE r == [reg[t] EXCEPT !.n = reg[t].n + 1, !.i = reg[t].i - 1]
  <2>1. reg' = [reg EXCEPT ![t] = r]
    BY <1>16, <1>1 DEF HalfRelease
  <2>2. r \in Locals /\ r.i = reg[t].i - 1 /\ r.n = reg[t].n + 1 /\ r.start = reg[t].start
    BY <1>16, <1>1, Sizes DEF HalfRelease
  <2> HIDE DEF r
  <2>3. ThreadStep(t) /\ pc'[t] \in ThiefLabels
    BY <2>1, <2>2, <1>16, <1>1 DEF HalfRelease
  <2>4. HalfLocals(t)'
    BY <2>1, <2>2, <1>16, <1>1, Sizes, SMTT(30) DEF HalfRelease
  <2> QED
    BY <2>3, <2>4, <1>16, <1>1 DEF HalfRelease
<1>17. CASE HalfAdvance(t)
  BY <1>17, <1>1, <1>2, <1>3 DEF HalfAdvance
<1>18. CASE Unlock(t)
  BY <1>18, <1>1, <1>2, <1>3, NoLocalsType DEF Unlock
<1> HIDE DEF ControlOK, ThiefStep, ThreadStep, HalfLocals, HalfClaimed, LockedLabels,
            Go, Return, Locals, ThiefLabels, ElementStates
<1>19. CASE \E caller \in Callers :
            \/ SizeLoadFront(t, caller) \/ SizeLoadBack(t, caller) \/ SizeRetry(t, caller)
            \/ PopIfNotEmpty(t, caller) \/ PopTryLock(t, caller)
  BY <1>19, SizeControl
<1> QED
  BY <1>4, <1>5, <1>6, <1>7, <1>8, <1>9, <1>10, <1>11, <1>12, <1>13, <1>14, <1>15, <1>16, <1>17, <1>18, <1>19 DEF ThiefNext

(* Labels, locals and lock at the start, *)
LEMMA ControlInit == Init => ControlOK
  BY Sizes, ThreadAssumption, NoLocalsType
     DEF Init, ControlOK, Threads, OwnerLabels, ThiefLabels, LockedLabels, HalfLocals,
         HalfClaimed, ElementStates

(* and after each step *)
LEMMA ControlNext == ControlOK /\ [Next]_vars => ControlOK'
<1>1. ASSUME ControlOK, Next PROVE ControlOK'
  BY <1>1, OwnerControl, OwnerKeepsControl, ThiefControl, ThiefKeepsControl DEF Next
<1>2. ASSUME ControlOK, UNCHANGED vars PROVE ControlOK'
  BY <1>2 DEF vars, ControlOK, HalfLocals, HalfClaimed
<1> QED
  BY <1>1, <1>2

-----------------------------------------------------------------------------
(* The ring, seen by the thread that takes a step *)

(* The owner does not change what the ring shows at the back, *)
LEMMA OwnerLeavesBack ==
  ASSUME ControlOK, OwnerStep
  PROVE  /\ BackEnd' = BackEnd /\ ThiefHolds' = ThiefHolds
         /\ GapLow' = GapLow /\ GapHigh' = GapHigh
         /\ \A t \in Thieves : pc'[t] = pc[t] /\ reg'[t] = reg[t]
<1>1. \A t \in Thieves : pc'[t] = pc[t] /\ reg'[t] = reg[t]
  BY ThreadAssumption DEF OwnerStep, ThreadStep, Threads
<1>2. \A t \in Thieves : /\ BackEndOf(t)' = BackEndOf(t) /\ HoldsOf(t)' = HoldsOf(t)
                         /\ LowOf(t)' = LowOf(t) /\ HighOf(t)' = HighOf(t)
  BY <1>1 DEF OwnerStep, BackEndOf, HoldsOf, LowOf, HighOf, Gap, HalfClaimed
<1>3. mutex' = mutex /\ back' = back /\ mutex \in Thieves \cup {NoThread}
  BY DEF OwnerStep, ControlOK
<1> QED
  BY <1>1, <1>2, <1>3 DEF BackEnd, ThiefHolds, GapLow, GapHigh

(* nor a thief what it shows at the front. *)
LEMMA ThiefLeavesFront ==
  ASSUME ControlOK, NEW t \in Thieves, ThiefStep(t)
  PROVE  FrontEnd' = FrontEnd /\ OwnerHolds' = OwnerHolds
<1>1. pc'[Owner] = pc[Owner] /\ reg'[Owner] = reg[Owner] /\ front' = front
  BY ThreadAssumption DEF ThiefStep, ThreadStep, Threads
<1> QED
  BY <1>1 DEF FrontEnd, OwnerHolds

Quiet(t) ==
  /\ pc[t] \notin {"PushBack.back", "PushBack.write", "PushBack.ready",
                   "PopBack.take", "PopBack.empty", "PopBack.back"}
  /\ ~HalfClaimed(t)

(* A thread that has no element in hand shows back_ as it is, *)
LEMMA QuietView ==
  ASSUME NEW t, Quiet(t)
  PROVE  BackEndOf(t) = back % Lap /\ HoldsOf(t) = {} /\ LowOf(t) = -1 /\ HighOf(t) = -1
  BY DEF Quiet, BackEndOf, HoldsOf, LowOf, HighOf, Gap, HalfClaimed

(* also after a step. *)
LEMMA QuietViewNext ==
  ASSUME NEW t, Quiet(t)'
  PROVE  BackEndOf(t)' = back' % Lap /\ HoldsOf(t)' = {} /\ LowOf(t)' = -1 /\ HighOf(t)' = -1
  BY DEF Quiet, BackEndOf, HoldsOf, LowOf, HighOf, Gap, HalfClaimed

(* The ring's back is what the holder of the lock shows, *)
LEMMA HolderView ==
  ASSUME NEW t \in Thieves, mutex = t
  PROVE  /\ BackEnd = BackEndOf(t) /\ ThiefHolds = HoldsOf(t)
         /\ GapLow = LowOf(t) /\ GapHigh = HighOf(t)
  BY ThreadAssumption DEF BackEnd, ThiefHolds, GapLow, GapHigh

(* also after a step. *)
LEMMA HolderViewNext ==
  ASSUME NEW t \in Thieves, mutex' = t
  PROVE  /\ BackEnd' = BackEndOf(t)' /\ ThiefHolds' = HoldsOf(t)'
         /\ GapLow' = LowOf(t)' /\ GapHigh' = HighOf(t)'
  BY ThreadAssumption DEF BackEnd, ThiefHolds, GapLow, GapHigh

(* The step of a thief that has no element in hand before or after it *)
QuietStep(t) == Quiet(t) /\ Quiet(t)' /\ back' = back /\ state' = state

(* A step between two such states leaves the ring. *)
LEMMA QuietKeepsRing ==
  ASSUME ControlOK, RingOK, NEW t \in Thieves, ThiefStep(t), QuietStep(t)
  PROVE  RingOK'
<1>1. FrontEnd' = FrontEnd /\ OwnerHolds' = OwnerHolds
  BY ThiefLeavesFront
<1>2. \A u \in Thieves \ {t} : pc'[u] = pc[u] /\ reg'[u] = reg[u]
  BY DEF ThiefStep, ThreadStep, Threads
<1>3. back' = back /\ state' = state /\ back % Lap = back' % Lap
  BY DEF QuietStep
<1>4. /\ BackEnd' = BackEnd /\ ThiefHolds' = ThiefHolds
      /\ GapLow' = GapLow /\ GapHigh' = GapHigh
  <2>1. CASE mutex' = mutex /\ mutex # t
    <3>1. \A u \in Thieves \ {t} :
            /\ BackEndOf(u)' = BackEndOf(u) /\ HoldsOf(u)' = HoldsOf(u)
            /\ LowOf(u)' = LowOf(u) /\ HighOf(u)' = HighOf(u)
      BY <1>2, <1>3 DEF BackEndOf, HoldsOf, LowOf, HighOf, Gap, HalfClaimed
    <3> QED
      BY <3>1, <1>3, <2>1 DEF BackEnd, ThiefHolds, GapLow, GapHigh, ControlOK
  <2>2. CASE ~(mutex' = mutex /\ mutex # t)
    <3>1. (mutex = t \/ mutex = NoThread) /\ (mutex' = t \/ mutex' = NoThread)
      BY <2>2 DEF ThiefStep
    <3>2. BackEnd = back % Lap /\ ThiefHolds = {} /\ GapLow = -1 /\ GapHigh = -1
      BY <3>1, QuietView DEF QuietStep, BackEnd, ThiefHolds, GapLow, GapHigh
    <3>3. BackEnd' = back' % Lap /\ ThiefHolds' = {} /\ GapLow' = -1 /\ GapHigh' = -1
      BY <3>1, QuietViewNext DEF QuietStep, BackEnd, ThiefHolds, GapLow, GapHigh
    <3> QED
      BY <3>2, <3>3, <1>3
  <2> QED
    BY <2>1, <2>2
<1>5. \A u \in Thieves : pc'[u] \in {"Half.move", "Half.empty"} =>
        reg'[u].e = Fold(Plus(back' % Lap, reg'[u].i))
  BY <1>2, <1>3 DEF RingOK, QuietStep, Quiet, HalfClaimed
<1> QED
  BY <1>1, <1>3, <1>4, <1>5 DEF RingOK

(* A step of the lock holder at the back: the lock stays with it. *)
LEMMA HolderKeepsRing ==
  ASSUME ControlOK, RingOK, NEW t \in Thieves, ThiefStep(t), mutex' = t,
         Shape(FrontEnd, BackEndOf(t)', state', OwnerHolds, HoldsOf(t)', LowOf(t)', HighOf(t)'),
         pc'[t] \in {"Half.move", "Half.empty"} =>
           reg'[t].e = Fold(Plus(back' % Lap, reg'[t].i))
  PROVE  RingOK'
<1>1. FrontEnd' = FrontEnd /\ OwnerHolds' = OwnerHolds
  BY ThiefLeavesFront
<1>2. \A u \in Thieves \ {t} : pc'[u] = pc[u] /\ pc[u] \notin LockedLabels
  BY ThreadAssumption DEF ThiefStep, ThreadStep, Threads, ControlOK
<1>3. \A u \in Thieves : pc'[u] \in {"Half.move", "Half.empty"} =>
        reg'[u].e = Fold(Plus(back' % Lap, reg'[u].i))
  BY <1>2 DEF LockedLabels
<1> QED
  BY <1>1, <1>3, HolderViewNext DEF RingOK

(* The owner's actions keep the shape of the ring: PushFront, PopFront, *)
LEMMA OwnerKeepsRing ==
  ASSUME ControlOK, RingOK, OwnerNext
  PROVE  RingOK'
<1>1. OwnerStep
  BY OwnerControl
<1> USE <1>1
<1> DEFINE Seen(f, st, own) == Shape(f, BackEnd, st, own, ThiefHolds, GapLow, GapHigh)
<1>2. Seen(FrontEnd, state, OwnerHolds)
  BY DEF RingOK
<1>3. ASSUME Seen(FrontEnd', state', OwnerHolds') PROVE RingOK'
  <2>1. Shape(FrontEnd, BackEnd, state, OwnerHolds, ThiefHolds, GapLow, GapHigh)'
    BY <1>3, OwnerLeavesBack
  <2>2. \A t \in Thieves :
          pc'[t] \in {"Half.move", "Half.empty"} => reg'[t].e = Fold(Plus(back' % Lap, reg'[t].i))
    BY OwnerLeavesBack DEF RingOK, OwnerStep
  <2> QED
    BY <2>1, <2>2 DEF RingOK
<1>4. Owner \in Threads /\ front \in Nat /\ pc \in [Threads -> OwnerLabels \cup ThiefLabels]
      /\ reg \in [Threads -> Locals]
  BY Sizes DEF ControlOK, Threads
<1>5. /\ Slot(front) = Fold(front % Lap) /\ Slot(front + Lap - 1) = Fold(Down(front % Lap))
      /\ front % Lap \in Indices
      /\ Incremented(front) % Lap = Up(front % Lap)
      /\ Decremented(front) % Lap = Down(front % Lap)
  BY <1>4, SlotIsFold, MovesByOne
<1> HIDE DEF Seen
<1>6. CASE PushFrontClaim
  <2>1. FrontEnd = front % Lap /\ OwnerHolds = {} /\ state[Fold(front % Lap)] = "kEmpty"
    BY <1>6, <1>5 DEF PushFrontClaim, FrontEnd, OwnerHolds
  <2>2. /\ FrontEnd' = Up(front % Lap) /\ OwnerHolds' = {Fold(front % Lap)}
        /\ state' = [state EXCEPT ![Fold(front % Lap)] = "kBusy"]
    BY <1>6, <1>4, <1>5 DEF PushFrontClaim, FrontEnd, OwnerHolds, Go, Locals
  <2>3. Seen(Up(front % Lap), [state EXCEPT ![Fold(front % Lap)] = "kBusy"], {Fold(front % Lap)})
    BY <1>2, <2>1, PushFrontClaims DEF Seen
  <2> QED
    BY <2>2, <2>3, <1>3
<1>7. CASE PushFrontAdvance
  <2>1. FrontEnd' = FrontEnd /\ OwnerHolds' = OwnerHolds /\ state' = state
    BY <1>7, <1>4, <1>5 DEF PushFrontAdvance, FrontEnd, OwnerHolds, Go
  <2> QED
    BY <2>1, <1>2, <1>3
<1>8. CASE PushFrontWrite
  <2>1. FrontEnd' = FrontEnd /\ OwnerHolds' = OwnerHolds /\ state' = state
    BY <1>8, <1>4 DEF PushFrontWrite, FrontEnd, OwnerHolds, Go, Locals
  <2> QED
    BY <2>1, <1>2, <1>3
<1>9. CASE PushFrontPublish
  <2>1. FrontEnd = front % Lap /\ OwnerHolds = {reg[Owner].e}
    BY <1>9 DEF PushFrontPublish, FrontEnd, OwnerHolds
  <2>2. /\ FrontEnd' = front % Lap /\ OwnerHolds' = {}
        /\ state' = [state EXCEPT ![reg[Owner].e] = "kReady"]
    BY <1>9, <1>4 DEF PushFrontPublish, FrontEnd, OwnerHolds, Return
  <2>3. Seen(front % Lap, [state EXCEPT ![reg[Owner].e] = "kReady"], {})
    BY <1>2, <2>1, FrontPublishes DEF Seen
  <2> QED
    BY <2>2, <2>3, <1>3
<1>10. CASE PopFrontClaim
  <2> DEFINE e == Fold(Down(front % Lap))
  <2>1. FrontEnd = front % Lap /\ OwnerHolds = {} /\ state[e] = "kReady"
    BY <1>10, <1>5 DEF PopFrontClaim, FrontEnd, OwnerHolds
  <2>2. /\ FrontEnd' = front % Lap /\ OwnerHolds' = {e}
        /\ state' = [state EXCEPT ![e] = "kBusy"]
    BY <1>10, <1>4, <1>5 DEF PopFrontClaim, FrontEnd, OwnerHolds, Go, Locals
  <2>3. Seen(front % Lap, [state EXCEPT ![e] = "kBusy"], {e})
    BY <1>2, <2>1, PopFrontClaims DEF Seen
  <2> QED
    BY <2>2, <2>3, <1>3
<1>11. CASE PopFrontTake
  <2>1. FrontEnd' = FrontEnd /\ OwnerHolds' = OwnerHolds /\ state' = state
    BY <1>11, <1>4 DEF PopFrontTake, FrontEnd, OwnerHolds, Go, Locals
  <2> QED
    BY <2>1, <1>2, <1>3
<1>12. CASE PopFrontRelease
  <2>1. FrontEnd = front % Lap /\ OwnerHolds = {reg[Owner].e}
    BY <1>12 DEF PopFrontRelease, FrontEnd, OwnerHolds
  <2>2. /\ FrontEnd' = Down(front % Lap) /\ OwnerHolds' = {}
        /\ state' = [state EXCEPT ![reg[Owner].e] = "kEmpty"]
    BY <1>12, <1>4 DEF PopFrontRelease, FrontEnd, OwnerHolds, Go
  <2>3. Seen(Down(front % Lap), [state EXCEPT ![reg[Owner].e] = "kEmpty"], {})
    BY <1>2, <2>1, PopFrontReleases DEF Seen
  <2> QED
    BY <2>2, <2>3, <1>3
<1>13. CASE PopFrontRetreat
  <2>1. FrontEnd' = FrontEnd /\ OwnerHolds' = OwnerHolds /\ state' = state
    BY <1>13, <1>4, <1>5 DEF PopFrontRetreat, FrontEnd, OwnerHolds, Return
  <2> QED
    BY <2>1, <1>2, <1>3
<1> QED
  BY <1>6, <1>7, <1>8, <1>9, <1>10, <1>11, <1>12, <1>13 DEF OwnerNext

(* What a thief knows of its own label and locals, and of the indices *)
LEMMA ThiefFacts ==
  ASSUME ControlOK, NEW t \in Thieves
  PROVE  /\ t \in Threads /\ reg[t] \in Locals /\ reg \in [Threads -> Locals]
         /\ pc \in [Threads -> OwnerLabels \cup ThiefLabels]
         /\ state \in [Slots -> ElementStates]
         /\ back \in Nat /\ back % Lap \in Indices
         /\ Slot(back) = Fold(back % Lap) /\ Slot(back + Lap - 1) = Fold(Down(back % Lap))
         /\ Incremented(back) % Lap = Up(back % Lap)
         /\ Decremented(back) % Lap = Down(back % Lap)
         /\ \A j \in 0..(kSize - 1) :
              /\ Slot(back + j) = Fold(Plus(back % Lap, j))
              /\ Incremented(back + j) % Lap = Plus(back % Lap, j + 1)
<1>1. /\ t \in Threads /\ reg[t] \in Locals /\ reg \in [Threads -> Locals]
      /\ pc \in [Threads -> OwnerLabels \cup ThiefLabels] /\ back \in Nat
      /\ state \in [Slots -> ElementStates]
  BY Sizes DEF ControlOK, Threads
<1>2. /\ back % Lap \in Indices
      /\ Slot(back) = Fold(back % Lap) /\ Slot(back + Lap - 1) = Fold(Down(back % Lap))
      /\ Incremented(back) % Lap = Up(back % Lap)
      /\ Decremented(back) % Lap = Down(back % Lap)
  BY <1>1, SlotIsFold, MovesByOne
<1>3. ASSUME NEW j \in 0..(kSize - 1)
      PROVE  /\ Slot(back + j) = Fold(Plus(back % Lap, j))
             /\ Incremented(back + j) % Lap = Plus(back % Lap, j + 1)
  <2>1. back + j \in Nat /\ j \in 0..kSize /\ j < kSize
    BY <1>1, Sizes
  <2>2. Slot(back + j) = Fold(Plus(back % Lap, j)) /\ (back + j) % Lap = Plus(back % Lap, j)
    BY <1>1, SlotIsFold
  <2>3. Incremented(back + j) % Lap = Up(Plus(back % Lap, j))
    BY <2>1, <2>2, MovesByOne
  <2> QED
    BY <2>1, <2>2, <2>3, <1>2, PlusArithmetic
<1> QED
  BY <1>1, <1>2, <1>3

(* the loads of Size() and the try_lock, *)
LEMMA SizeKeepsRing ==
  ASSUME ControlOK, RingOK, NEW t \in Thieves, NEW caller \in Callers,
         \/ SizeLoadFront(t, caller) \/ SizeLoadBack(t, caller) \/ SizeRetry(t, caller)
         \/ PopIfNotEmpty(t, caller) \/ PopTryLock(t, caller)
  PROVE  RingOK'
<1>1. ThiefStep(t)
  BY SizeControl
<1>2. QuietStep(t)
  BY ThiefFacts
     DEF QuietStep, Quiet, HalfClaimed, Callers, SizeFront, SizeBack, SizeCheck, TryLock,
         SizeLoadFront, SizeLoadBack, SizeRetry, PopIfNotEmpty, SizeIs, PopTryLock, Go, Return
<1> QED
  BY <1>1, <1>2, QuietKeepsRing

(* PushBack, *)
LEMMA PushBackKeepsRing ==
  ASSUME ControlOK, RingOK, NEW t \in Thieves, ThiefStep(t),
         \/ PushBackLock(t) \/ PushBackClaim(t) \/ PushBackRetreat(t)
         \/ PushBackWrite(t) \/ PushBackPublish(t)
  PROVE  RingOK'
<1> DEFINE b == back % Lap
           Seen(bk, st, thf) == Shape(FrontEnd, bk, st, OwnerHolds, thf, -1, -1)
<1>1. CASE PushBackLock(t)
  <2>1. QuietStep(t)
    BY <1>1, ThiefFacts DEF PushBackLock, QuietStep, Quiet, HalfClaimed, Go
  <2> QED
    BY <2>1, QuietKeepsRing
<1>2. CASE pc[t] = "PushBack.claim" /\ PushBackClaim(t) /\ state[Slot(back + Lap - 1)] # "kEmpty"
  <2>1. QuietStep(t)
    BY <1>2, ThiefFacts DEF PushBackClaim, QuietStep, Quiet, HalfClaimed, Go
  <2> QED
    BY <2>1, QuietKeepsRing
<1>3. ASSUME pc[t] \in {"PushBack.claim", "PushBack.back", "PushBack.write", "PushBack.ready"}
      PROVE  /\ mutex = t
             /\ Seen(BackEndOf(t), state, HoldsOf(t))
             /\ LowOf(t) = -1 /\ HighOf(t) = -1
  <2>1. mutex = t
    BY <1>3 DEF ControlOK, LockedLabels
  <2>2. LowOf(t) = -1 /\ HighOf(t) = -1
    BY <1>3 DEF LowOf, HighOf, Gap, HalfClaimed
  <2> QED
    BY <2>1, <2>2, HolderView DEF RingOK
<1>4. ASSUME pc'[t] \in {"PushBack.back", "PushBack.write", "PushBack.ready", "unlock"},
             mutex' = t, Seen(BackEndOf(t)', state', HoldsOf(t)')
      PROVE  RingOK'
  <2>1. LowOf(t)' = -1 /\ HighOf(t)' = -1
    BY <1>4 DEF LowOf, HighOf, Gap, HalfClaimed
  <2> QED
    BY <2>1, <1>4, HolderKeepsRing
<1> HIDE DEF Seen
<1>5. CASE PushBackClaim(t) /\ state[Slot(back + Lap - 1)] = "kEmpty"
  <2> DEFINE e == Fold(Down(b))
  <2>1. /\ BackEndOf(t) = b /\ HoldsOf(t) = {} /\ state[e] = "kEmpty"
        /\ pc[t] = "PushBack.claim" /\ pc'[t] = "PushBack.back"
        /\ back' = back /\ mutex' = mutex
    BY <1>5, ThiefFacts DEF PushBackClaim, BackEndOf, HoldsOf, HalfClaimed, Go
  <2>2. BackEndOf(t)' = Down(b) /\ HoldsOf(t)' = {e} /\ state' = [state EXCEPT ![e] = "kBusy"]
    BY <1>5, <2>1, ThiefFacts DEF PushBackClaim, BackEndOf, HoldsOf, HalfClaimed, Locals
  <2>3. Seen(Down(b), [state EXCEPT ![e] = "kBusy"], {e})
    BY <2>1, <1>3, PushBackClaims DEF Seen
  <2> QED
    BY <2>1, <2>2, <2>3, <1>3, <1>4
<1>6. CASE PushBackRetreat(t) \/ PushBackWrite(t)
  <2>1. /\ BackEndOf(t)' = BackEndOf(t) /\ HoldsOf(t)' = HoldsOf(t) /\ state' = state
        /\ pc[t] \in {"PushBack.back", "PushBack.write"}
        /\ pc'[t] \in {"PushBack.write", "PushBack.ready"} /\ mutex' = mutex
    BY <1>6, ThiefFacts DEF PushBackRetreat, PushBackWrite, BackEndOf, HoldsOf, HalfClaimed, Go, Locals
  <2> QED
    BY <2>1, <1>3, <1>4
<1>7. CASE PushBackPublish(t)
  <2>1. /\ BackEndOf(t) = b /\ HoldsOf(t) = {reg[t].e}
        /\ pc[t] = "PushBack.ready" /\ pc'[t] = "unlock" /\ back' = back /\ mutex' = mutex
        /\ BackEndOf(t)' = b /\ HoldsOf(t)' = {}
        /\ state' = [state EXCEPT ![reg[t].e] = "kReady"]
    BY <1>7, ThiefFacts DEF PushBackPublish, BackEndOf, HoldsOf, HalfClaimed, Go
  <2>2. Seen(b, [state EXCEPT ![reg[t].e] = "kReady"], {})
    BY <2>1, <1>3, BackPublishes DEF Seen
  <2> QED
    BY <2>1, <2>2, <1>3, <1>4
<1> QED
  BY <1>1, <1>2, <1>5, <1>6, <1>7 DEF PushBackClaim

(* PopBack, *)
LEMMA PopBackKeepsRing ==
  ASSUME ControlOK, RingOK, NEW t \in Thieves, ThiefStep(t),
         \/ PopBackClaim(t) \/ PopBackTake(t) \/ PopBackRelease(t) \/ PopBackAdvance(t)
  PROVE  RingOK'
<1> DEFINE b == back % Lap
           Seen(bk, st, thf) == Shape(FrontEnd, bk, st, OwnerHolds, thf, -1, -1)
<1>1. CASE PopBackClaim(t) /\ state[Slot(back)] # "kReady"
  <2>1. QuietStep(t)
    BY <1>1, ThiefFacts DEF PopBackClaim, QuietStep, Quiet, HalfClaimed, Go
  <2> QED
    BY <2>1, QuietKeepsRing
<1>2. ASSUME pc[t] \in {"PopBack.claim", "PopBack.take", "PopBack.empty", "PopBack.back"}
      PROVE  /\ mutex = t
             /\ Seen(BackEndOf(t), state, HoldsOf(t))
             /\ LowOf(t) = -1 /\ HighOf(t) = -1
  <2>1. mutex = t
    BY <1>2 DEF ControlOK, LockedLabels
  <2>2. LowOf(t) = -1 /\ HighOf(t) = -1
    BY <1>2 DEF LowOf, HighOf, Gap, HalfClaimed
  <2> QED
    BY <2>1, <2>2, HolderView DEF RingOK
<1>3. ASSUME pc'[t] \in {"PopBack.take", "PopBack.empty", "PopBack.back", "unlock"},
             mutex' = t, Seen(BackEndOf(t)', state', HoldsOf(t)')
      PROVE  RingOK'
  <2>1. LowOf(t)' = -1 /\ HighOf(t)' = -1
    BY <1>3 DEF LowOf, HighOf, Gap, HalfClaimed
  <2> QED
    BY <2>1, <1>3, HolderKeepsRing
<1> HIDE DEF Seen
<1>4. CASE PopBackClaim(t) /\ state[Slot(back)] = "kReady"
  <2> DEFINE e == Fold(b)
  <2>1. /\ BackEndOf(t) = b /\ HoldsOf(t) = {} /\ state[e] = "kReady"
        /\ pc[t] = "PopBack.claim" /\ pc'[t] = "PopBack.take" /\ back' = back /\ mutex' = mutex
    BY <1>4, ThiefFacts DEF PopBackClaim, BackEndOf, HoldsOf, HalfClaimed, Go
  <2>2. BackEndOf(t)' = b /\ HoldsOf(t)' = {e} /\ state' = [state EXCEPT ![e] = "kBusy"]
    BY <1>4, <2>1, ThiefFacts DEF PopBackClaim, BackEndOf, HoldsOf, HalfClaimed, Locals
  <2>3. Seen(b, [state EXCEPT ![e] = "kBusy"], {e})
    BY <2>1, <1>2, PopBackClaims DEF Seen
  <2> QED
    BY <2>1, <2>2, <2>3, <1>2, <1>3
<1>5. CASE PopBackTake(t) \/ PopBackAdvance(t)
  <2>1. /\ BackEndOf(t)' = BackEndOf(t) /\ HoldsOf(t)' = HoldsOf(t) /\ state' = state
        /\ pc[t] \in {"PopBack.take", "PopBack.back"}
        /\ pc'[t] \in {"PopBack.empty", "unlock"} /\ mutex' = mutex
    BY <1>5, ThiefFacts DEF PopBackTake, PopBackAdvance, BackEndOf, HoldsOf, HalfClaimed, Go, Locals
  <2> QED
    BY <2>1, <1>2, <1>3
<1>6. CASE PopBackRelease(t)
  <2>1. /\ BackEndOf(t) = b /\ HoldsOf(t) = {reg[t].e}
        /\ pc[t] = "PopBack.empty" /\ pc'[t] = "PopBack.back" /\ mutex' = mutex
        /\ BackEndOf(t)' = Up(b) /\ HoldsOf(t)' = {}
        /\ state' = [state EXCEPT ![reg[t].e] = "kEmpty"]
    BY <1>6, ThiefFacts DEF PopBackRelease, BackEndOf, HoldsOf, HalfClaimed, Go
  <2>2. Seen(Up(b), [state EXCEPT ![reg[t].e] = "kEmpty"], {})
    BY <2>1, <1>2, PopBackReleases DEF Seen
  <2> QED
    BY <2>1, <2>2, <1>2, <1>3
<1> QED
  BY <1>1, <1>4, <1>5, <1>6 DEF PopBackClaim

(* PopBackHalf, which moves the gap down from its first claim, *)
LEMMA HalfKeepsRing ==
  ASSUME ControlOK, RingOK, NEW t \in Thieves, ThiefStep(t),
         \/ HalfSize(t) \/ HalfElement(t) \/ HalfMove(t) \/ HalfRelease(t) \/ HalfAdvance(t)
  PROVE  RingOK'
<1> DEFINE b == back % Lap
           i == reg[t].i
           start == reg[t].start
           Seen(bk, st, thf, lo, hi) == Shape(FrontEnd, bk, st, OwnerHolds, thf, lo, hi)
<1>1. /\ i \in -1..(kSize - 1) /\ start \in 0..(kSize - 1) /\ reg[t].n \in Nat
      /\ HalfClaimed(t) => i + reg[t].n = start
      /\ pc[t] \in {"Half.move", "Half.empty"} => i >= 0
  BY ThiefFacts, Sizes DEF ControlOK, HalfLocals, Locals
<1>2. CASE HalfSize(t) \/ (HalfElement(t) /\ reg[t].n = 0 /\ state[Slot(back + i)] # "kReady")
  <2>1. QuietStep(t)
    <3>1. CASE HalfSize(t)
      BY <3>1, ThiefFacts
         DEF HalfSize, SizeIs, SizeCheck, NoLocals, QuietStep, Quiet, HalfClaimed, Go
    <3>2. CASE HalfElement(t) /\ reg[t].n = 0 /\ state[Slot(back + i)] # "kReady"
      BY <3>2, ThiefFacts DEF HalfElement, QuietStep, Quiet, HalfClaimed, Go, Locals
    <3> QED
      BY <1>2, <3>1, <3>2
  <2> QED
    BY <2>1, QuietKeepsRing
<1>3. ASSUME pc[t] \in {"Half.element", "Half.move", "Half.empty"}
      PROVE  mutex = t /\ Seen(BackEndOf(t), state, HoldsOf(t), LowOf(t), HighOf(t))
  <2>1. mutex = t
    BY <1>3 DEF ControlOK, LockedLabels
  <2> QED
    BY <2>1, HolderView DEF RingOK
<1>4. ASSUME mutex' = t, Seen(BackEndOf(t)', state', HoldsOf(t)', LowOf(t)', HighOf(t)'),
             pc'[t] \in {"Half.move", "Half.empty"} =>
               reg'[t].e = Fold(Plus(back' % Lap, reg'[t].i))
      PROVE  RingOK'
  BY <1>4, HolderKeepsRing
<1> HIDE DEF Seen
<1>5. CASE HalfElement(t) /\ reg[t].n = 0 /\ state[Slot(back + i)] = "kReady"
  <2> DEFINE e == Fold(Plus(b, i))
  <2>1. /\ pc[t] = "Half.element" /\ i \in 0..(kSize - 1)
        /\ pc'[t] = "Half.move" /\ back' = back /\ mutex' = mutex
    BY <1>5, <1>1, ThiefFacts, Sizes DEF HalfElement, Go
  <2>2. /\ BackEndOf(t) = b /\ HoldsOf(t) = {} /\ LowOf(t) = -1 /\ HighOf(t) = -1
        /\ Slot(back + i) = e /\ state[e] = "kReady"
    BY <1>5, <2>1, ThiefFacts DEF BackEndOf, HoldsOf, LowOf, HighOf, Gap, HalfClaimed
  <2>3. reg' = [reg EXCEPT ![t].e = e, ![t].start = i] /\ state' = [state EXCEPT ![e] = "kBusy"]
    BY <1>5, <2>2 DEF HalfElement
  <2>4. reg'[t].e = e /\ reg'[t].start = i /\ reg'[t].i = i /\ reg'[t].n = 0
    BY <2>3, <1>5, ThiefFacts DEF Locals
  <2>5. BackEndOf(t)' = b /\ HoldsOf(t)' = {e} /\ LowOf(t)' = i /\ HighOf(t)' = i
    BY <2>1, <2>4 DEF BackEndOf, HoldsOf, LowOf, HighOf, Gap, HalfClaimed
  <2>6. Seen(b, [state EXCEPT ![e] = "kBusy"], {e}, i, i)
    BY <2>1, <2>2, <1>3, HalfClaims DEF Seen
  <2> QED
    BY <2>1, <2>3, <2>4, <2>5, <2>6, <1>3, <1>4
<1>6. CASE HalfElement(t) /\ reg[t].n > 0
  <2>1. /\ pc[t] = "Half.element" /\ i \in 0..(kSize - 1) /\ reg[t].n # 0
        /\ pc'[t] = "Half.move" /\ back' = back /\ mutex' = mutex /\ state' = state
    BY <1>6, <1>1, ThiefFacts, Sizes DEF HalfElement, Go
  <2>2. reg' = [reg EXCEPT ![t].e = Fold(Plus(b, i))]
    BY <1>6, <1>1, <2>1, ThiefFacts DEF HalfElement
  <2>3. /\ reg'[t].e = Fold(Plus(b, i)) /\ reg'[t].start = start /\ reg'[t].i = i
        /\ reg'[t].n = reg[t].n
    BY <2>2, ThiefFacts DEF Locals
  <2>4. BackEndOf(t)' = BackEndOf(t) /\ HoldsOf(t)' = HoldsOf(t)
        /\ LowOf(t)' = LowOf(t) /\ HighOf(t)' = HighOf(t)
    BY <2>1, <2>3, <1>6 DEF BackEndOf, HoldsOf, LowOf, HighOf, Gap, HalfClaimed
  <2> QED
    BY <2>1, <2>3, <2>4, <1>3, <1>4
<1>7. CASE HalfMove(t)
  <2>1. /\ pc[t] = "Half.move" /\ pc'[t] = "Half.empty" /\ back' = back /\ mutex' = mutex
        /\ state' = state /\ reg' = [reg EXCEPT ![t].took = @ \cup {w[reg[t].e]}]
    BY <1>7, ThiefFacts DEF HalfMove, Go
  <2>2. /\ reg'[t].e = reg[t].e /\ reg'[t].start = start /\ reg'[t].i = i
        /\ reg'[t].n = reg[t].n
    BY <2>1, ThiefFacts DEF Locals
  <2>3. BackEndOf(t)' = BackEndOf(t) /\ HoldsOf(t)' = HoldsOf(t)
        /\ LowOf(t)' = LowOf(t) /\ HighOf(t)' = HighOf(t)
    BY <2>1, <2>2 DEF BackEndOf, HoldsOf, LowOf, HighOf, Gap, HalfClaimed
  <2> QED
    BY <2>1, <2>2, <2>3, <1>3, <1>4 DEF RingOK
<1>8. CASE HalfRelease(t)
  <2> DEFINE e == reg[t].e
             thf == IF reg[t].n = 0 THEN {e} ELSE {}
  <2>1. /\ pc[t] = "Half.empty" /\ pc'[t] = "Half.element" /\ back' = back /\ mutex' = mutex
        /\ state' = [state EXCEPT ![e] = "kEmpty"]
        /\ reg' = [reg EXCEPT ![t].n = @ + 1, ![t].i = @ - 1]
    BY <1>8, ThiefFacts DEF HalfRelease, Go
  <2>2. reg'[t].start = start /\ reg'[t].i = i - 1 /\ reg'[t].n = reg[t].n + 1
    BY <2>1, ThiefFacts DEF Locals
  <2>3. /\ i \in 0..(kSize - 1) /\ i \in 0..kSize /\ i < kSize /\ i <= start
        /\ reg[t].n = 0 <=> i = start
    BY <2>1, <1>1, Sizes DEF HalfClaimed
  <2>4. BackEndOf(t) = b /\ HoldsOf(t) = thf /\ LowOf(t) = i /\ HighOf(t) = start
    BY <2>1, <2>3 DEF BackEndOf, HoldsOf, LowOf, HighOf, Gap, HalfClaimed
  <2>5. e = Fold(Plus(b, i)) /\ e \in Slots /\ Off(b, e) = i
    BY <2>1, <2>3, ThiefFacts, PlusArithmetic DEF RingOK
  <2>6. Seen(b, state, thf, i, start)
    BY <2>1, <2>4, <1>3
  <2>7. thf = {e} \/ (thf = {} /\ i < start)
    BY <2>3, <1>1
  <2>8. HoldsOf(t)' = {} /\ reg'[t].n > 0
    BY <2>1, <2>2, <1>1 DEF HoldsOf
  <2>9. CASE i > 0
    <3>1. BackEndOf(t)' = b /\ LowOf(t)' = i - 1 /\ HighOf(t)' = start
      BY <2>1, <2>2, <2>3, <2>8, <2>9 DEF BackEndOf, LowOf, HighOf, Gap, HalfClaimed
    <3>2. Seen(b, [state EXCEPT ![e] = "kEmpty"], {}, i - 1, start)
      <4> HIDE DEF e, thf, i, start
      <4> QED BY <2>5, <2>6, <2>7, <2>9, HalfReleases DEF Seen
    <3> QED
      BY <2>1, <2>8, <3>1, <3>2, <1>3, <1>4
  <2>10. CASE i = 0
    <3>1. BackEndOf(t)' = Plus(b, start + 1) /\ LowOf(t)' = -1 /\ HighOf(t)' = -1
      BY <2>1, <2>2, <2>3, <2>8, <2>10 DEF BackEndOf, LowOf, HighOf, Gap, HalfClaimed
    <3>2. Seen(Plus(b, start + 1), [state EXCEPT ![e] = "kEmpty"], {}, -1, -1)
      <4>1. Seen(b, state, thf, 0, start) /\ Off(b, e) = 0
        BY <2>5, <2>6, <2>10
      <4> HIDE DEF e, thf, i, start
      <4> QED BY <4>1, <2>5, <2>7, <2>10, HalfReleasesLast DEF Seen
    <3> QED
      BY <2>1, <2>8, <3>1, <3>2, <1>3, <1>4
  <2> QED
    BY <2>3, <2>9, <2>10
<1>9. CASE HalfAdvance(t)
  <2>1. /\ pc[t] = "Half.element" /\ pc'[t] = "unlock" /\ mutex' = mutex
        /\ state' = state /\ reg' = reg /\ i < 0
    BY <1>9, ThiefFacts DEF HalfAdvance, Go
  <2>2. HoldsOf(t) = {} /\ LowOf(t) = -1 /\ HighOf(t) = -1
        /\ HoldsOf(t)' = {} /\ LowOf(t)' = -1 /\ HighOf(t)' = -1
        /\ BackEndOf(t)' = back' % Lap
    BY <2>1, <1>1 DEF HoldsOf, LowOf, HighOf, Gap, HalfClaimed, BackEndOf
  <2>3. BackEndOf(t) = back' % Lap
    BY <2>1, <1>9, <1>1, ThiefFacts DEF HalfAdvance, BackEndOf, HalfClaimed
  <2> QED
    BY <2>1, <2>2, <2>3, <1>3, <1>4
<1> QED
  BY <1>1, <1>2, <1>5, <1>6, <1>7, <1>8, <1>9 DEF HalfElement

(* and so all actions of the thieves. *)
LEMMA ThiefKeepsRing ==
  ASSUME ControlOK, RingOK, NEW t \in Thieves, ThiefNext(t)
  PROVE  RingOK'
<1>1. ThiefStep(t)
  BY ThiefControl
<1>2. CASE Unlock(t)
  <2>1. QuietStep(t)
    BY <1>2, ThiefFacts DEF Unlock, QuietStep, Quiet, HalfClaimed, Return
  <2> QED
    BY <1>1, <2>1, QuietKeepsRing
<1> QED
  BY <1>1, <1>2, SizeKeepsRing, PushBackKeepsRing, PopBackKeepsRing, HalfKeepsRing DEF ThiefNext

(* The shape of the ring at the start, *)
LEMMA RingInit == Init => RingOK
<1> SUFFICES ASSUME Init PROVE RingOK
  OBVIOUS
<1>1. /\ FrontEnd = 0 /\ BackEnd = 0 /\ OwnerHolds = {} /\ ThiefHolds = {}
      /\ GapLow = -1 /\ GapHigh = -1
  BY SizeAssumption, ThreadAssumption
     DEF Init, FrontEnd, BackEnd, OwnerHolds, ThiefHolds, GapLow, GapHigh, Threads, Lap
<1>2. Arc(0, 0) = 0 /\ 0 \in Indices /\ \A s \in Slots : Off(0, s) \in Nat
  BY Sizes DEF Arc, Indices, Off, Fold, Slots
<1>3. Shape(0, 0, state, {}, {}, -1, -1)
  BY <1>2, Sizes DEF Init, Shape, Occupied, ElementStates
<1> QED
  BY <1>1, <1>3 DEF RingOK, Init, Threads

(* and after each step *)
LEMMA RingNext == ControlOK /\ RingOK /\ [Next]_vars => RingOK'
<1>1. ASSUME ControlOK, RingOK, Next PROVE RingOK'
  BY <1>1, OwnerKeepsRing, ThiefKeepsRing DEF Next
<1>2. ASSUME RingOK, UNCHANGED vars PROVE RingOK'
  BY <1>2 DEF vars, RingOK, FrontEnd, OwnerHolds, BackEnd, ThiefHolds, GapLow, GapHigh,
              BackEndOf, HoldsOf, LowOf, HighOf, Gap, HalfClaimed
<1> QED
  BY <1>1, <1>2

-----------------------------------------------------------------------------
(* What the ring says of the elements in use *)

(* A thread without the lock uses nothing; the owner, what it claimed. *)
LEMMA UsesOfOthers ==
  ASSUME ControlOK
  PROVE  /\ Uses(Owner) = OwnerHolds
         /\ \A t \in Thieves : mutex # t => Uses(t) = {}
<1>1. Uses(Owner) = OwnerHolds
  BY DEF ControlOK, OwnerLabels, Uses, OwnerHolds, HalfClaimed
<1>2. \A t \in Thieves : mutex # t => Uses(t) = {}
  BY DEF ControlOK, ThiefLabels, LockedLabels, Uses, HalfClaimed
<1> QED
  BY <1>1, <1>2

(* What the holder of the lock uses is not empty and not the owner's. *)
LEMMA UsesOfHolder ==
  ASSUME ControlOK, RingOK, NEW t \in Thieves, mutex = t, NEW e \in Uses(t)
  PROVE  /\ e \in Slots /\ e \notin OwnerHolds /\ state[e] # "kEmpty"
         /\ HalfClaimed(t) /\ reg[t].n > 0 => state[e] = "kReady"
<1>1. Shape(FrontEnd, BackEndOf(t), state, OwnerHolds, HoldsOf(t), LowOf(t), HighOf(t))
  BY HolderView DEF RingOK
<1>2. CASE HalfClaimed(t)
  <2> DEFINE b == back % Lap
             i == reg[t].i
             hi == reg[t].start
  <2>1. PICK j \in 0..i : e = Slot(back + j)
    BY <1>2 DEF Uses
  <2>2. /\ i \in 0..(kSize - 1) /\ j \in 0..(kSize - 1) /\ j \in 0..kSize /\ j < kSize /\ j <= i
        /\ hi \in Int
        /\ reg[t].n > 0 <=> i < hi
    BY <1>2, <2>1, ThiefFacts, Sizes DEF ControlOK, HalfLocals, Locals
  <2>3. BackEndOf(t) = b /\ LowOf(t) = i /\ HighOf(t) = hi
    BY <1>2, <2>2 DEF BackEndOf, LowOf, HighOf, Gap, HalfClaimed
  <2>4. Shape(FrontEnd, b, state, OwnerHolds, HoldsOf(t), i, hi) /\ b \in Indices /\ FrontEnd \in Indices
    BY <1>1, <2>3 DEF Shape
  <2>5. e = Fold(Plus(b, j)) /\ e \in Slots /\ Off(b, e) = j
    BY <2>1, <2>2, <2>4, ThiefFacts, PlusArithmetic
  <2> HIDE DEF b, i, hi
  <2>6. state[e] # "kEmpty"
    <3>1. i >= 0 /\ i # -1
      BY <2>2, Sizes
    <3>2. hi < Arc(FrontEnd, b) /\ Arc(FrontEnd, b) \in Nat /\ i <= hi
      BY <3>1, <2>4, RingArithmetic DEF Shape
    <3>3. Occupied(FrontEnd, b, i, hi, e)
      BY <3>2, <2>2, <2>5, Sizes DEF Occupied
    <3> QED
      BY <3>3, <2>4, <2>5 DEF Shape
  <2>7. e \notin OwnerHolds
    <3> SUFFICES ASSUME e \in OwnerHolds PROVE FALSE
      OBVIOUS
    <3>1. j = Arc(FrontEnd, b) - 1 /\ Arc(FrontEnd, b) \in Nat
      BY <2>4, <2>5, RingArithmetic DEF Shape
    <3>2. i = hi /\ j = i /\ hi >= 0
      BY <3>1, <2>2, <2>4 DEF Shape
    <3>3. PICK s \in HoldsOf(t) : s \in Slots /\ Off(b, s) = j
      BY <3>2, <2>2, <2>4 DEF Shape
    <3>4. s = e
      BY <3>3, <2>4, <2>5, RingArithmetic
    <3> QED
      BY <3>3, <3>4, <2>4 DEF Shape
  <2>8. ASSUME reg[t].n > 0 PROVE state[e] = "kReady"
    <3>1. \A s \in HoldsOf(t) : FALSE
      BY <2>2, <2>4, <2>8 DEF Shape
    <3>2. state[e] # "kBusy" /\ state[e] \in ElementStates
      BY <3>1, <2>4, <2>5, <2>7 DEF Shape
    <3> QED
      BY <3>2, <2>6 DEF ElementStates
  <2> QED
    BY <2>5, <2>6, <2>7, <2>8
<1>3. CASE ~HalfClaimed(t)
  <2>1. e \in HoldsOf(t)
    BY <1>3 DEF Uses, HoldsOf, HalfClaimed, ControlOK, ThiefLabels
  <2> QED
    BY <2>1, <1>1, <1>3 DEF Shape
<1> QED
  BY <1>2, <1>3

(* So no two threads use one element, and the DCHECK holds. *)
LEMMA ElementsApart == ControlOK /\ RingOK => NoRaceOnElements /\ HalfFindsReadyElements
<1> SUFFICES ASSUME ControlOK, RingOK
             PROVE  NoRaceOnElements /\ HalfFindsReadyElements
  OBVIOUS
<1>1. ASSUME NEW e \in OwnerHolds PROVE e \in Slots /\ state[e] # "kEmpty"
  BY <1>1 DEF RingOK, Shape
<1>2. \A t \in Thieves : \A e \in Uses(t) : e \notin OwnerHolds /\ state[e] # "kEmpty"
  BY UsesOfHolder, UsesOfOthers
<1>3. \A t, u \in Thieves : t # u => Uses(t) = {} \/ Uses(u) = {}
  BY UsesOfOthers
<1>4. NoRaceOnElements
  BY <1>1, <1>2, <1>3, UsesOfOthers DEF NoRaceOnElements, Threads
<1>5. ASSUME NEW t \in Thieves, pc[t] = "Half.element", reg[t].n > 0, NEW j \in 0..reg[t].i
      PROVE  state[Slot(back + j)] = "kReady"
  <2>1. HalfClaimed(t) /\ Slot(back + j) \in Uses(t)
    BY <1>5 DEF HalfClaimed, Uses
  <2>2. mutex = t
    BY <1>5 DEF ControlOK, LockedLabels
  <2> QED
    BY <1>5, <2>1, <2>2, UsesOfHolder
<1> QED
  BY <1>4, <1>5 DEF HalfFindsReadyElements

-----------------------------------------------------------------------------
(* An item moves from one place to another. *)

(* The ways of an item: from its caller into a thread's hands, *)
LEMMA CallerToHand ==
  ASSUME NEW fr, NEW de, NEW ws, NEW hs, Placed(fr, de, ws, hs),
         NEW x \in fr, NEW t \in Threads, hs[t] = {}
  PROVE  Placed(fr \ {x}, de, ws, [hs EXCEPT ![t] = {x}])
  BY WorkAssumption DEF Placed

(* back to the caller, *)
LEMMA HandToCaller ==
  ASSUME NEW fr, NEW de, NEW ws, NEW hs, Placed(fr, de, ws, hs),
         NEW x \in Works, NEW t \in Threads, hs[t] = {x}
  PROVE  Placed(fr \cup {x}, de, ws, [hs EXCEPT ![t] = {}])
  BY WorkAssumption DEF Placed

(* from the hands into an element without an item, *)
LEMMA HandToElement ==
  ASSUME NEW fr, NEW de, NEW ws, NEW hs, Placed(fr, de, ws, hs),
         NEW x \in Works, NEW t \in Threads, hs[t] = {x}, NEW e \in Slots, ws[e] = NoWork
  PROVE  Placed(fr, de, [ws EXCEPT ![e] = x], [hs EXCEPT ![t] = {}])
  BY WorkAssumption DEF Placed

(* out of an element, *)
LEMMA ElementToHand ==
  ASSUME NEW fr, NEW de, NEW ws, NEW hs, Placed(fr, de, ws, hs),
         NEW t \in Threads, NEW e \in Slots, ws[e] \in Works
  PROVE  Placed(fr, de, [ws EXCEPT ![e] = NoWork], [hs EXCEPT ![t] = hs[t] \cup {ws[e]}])
  BY WorkAssumption DEF Placed

(* and to whoever called the pop. *)
LEMMA HandToDelivered ==
  ASSUME NEW fr, NEW de, NEW ws, NEW hs, Placed(fr, de, ws, hs), NEW t \in Threads
  PROVE  Placed(fr, de \cup hs[t], ws, [hs EXCEPT ![t] = {}])
  BY WorkAssumption DEF Placed

(* Hands written again with what is in them *)
LEMMA StaysPlaced ==
  ASSUME NEW fr, NEW de, NEW ws, NEW hs, Placed(fr, de, ws, hs), NEW t \in Threads
  PROVE  Placed(fr, de, ws, [hs EXCEPT ![t] = hs[t]])
  BY DEF Placed

(* Placed says what EveryItemInOnePlace says. *)
LEMMA PlacedIsOnePlace == Placed(fresh, delivered, w, Hands) => EveryItemInOnePlace
  BY WorkAssumption DEF Placed, Hands, EveryItemInOnePlace, InArray

-----------------------------------------------------------------------------
(* An element changes hands. *)

(* An element without its item is in use by the thread that vacated it, *)
LEMMA VacatedInUse ==
  ASSUME ControlOK, RingOK, NEW t \in Threads, NEW e \in VacatedBy(t)
  PROVE  e \in Uses(t)
<1>1. CASE pc[t] = "Half.empty"
  <2>1. t \in Thieves
    BY <1>1 DEF ControlOK, OwnerLabels, Threads
  <2>2. reg[t].i \in 0..reg[t].i /\ reg[t].i \in 0..(kSize - 1)
    BY <1>1, <2>1, ThiefFacts, Sizes DEF ControlOK, HalfLocals, Locals
  <2>3. e = Slot(back + reg[t].i)
    BY <1>1, <2>1, <2>2, ThiefFacts DEF RingOK, VacatedBy
  <2> QED
    BY <1>1, <2>2, <2>3 DEF Uses, HalfClaimed
<1>2. CASE pc[t] # "Half.empty"
  BY <1>2 DEF VacatedBy, Uses, HalfClaimed
<1> QED
  BY <1>1, <1>2

(* by no other, and not empty. *)
LEMMA VacatedApart ==
  ASSUME ControlOK, RingOK, NEW t \in Threads, NEW e \in VacatedBy(t)
  PROVE  state[e] # "kEmpty" /\ \A u \in Threads \ {t} : e \notin Uses(u)
  BY VacatedInUse, ElementsApart DEF NoRaceOnElements

(* A step at one element keeps the rule of who has an item, *)
LEMMA ElementStep ==
  ASSUME ElementItemsOK, NEW t \in Threads, ThreadStep(t), NEW e \in Slots,
         \A s \in Slots \ {e} : /\ w'[s] = w[s]
                                /\ state'[s] = "kEmpty" <=> state[s] = "kEmpty"
                                /\ s \in VacatedBy(t)' <=> s \in VacatedBy(t),
         \A u \in Threads \ {t} : e \notin VacatedBy(u),
         w'[e] = NoWork <=> state'[e] = "kEmpty" \/ e \in VacatedBy(t)'
  PROVE  ElementItemsOK'
<1>1. \A u \in Threads \ {t} : VacatedBy(u)' = VacatedBy(u)
  BY DEF ThreadStep, VacatedBy
<1> QED
  BY <1>1 DEF ElementItemsOK

(* and so does a step that changes no item. *)
LEMMA SameElements ==
  ASSUME ElementItemsOK, NEW t \in Threads, ThreadStep(t), w' = w,
         VacatedBy(t)' = VacatedBy(t),
         \A s \in Slots : state'[s] = "kEmpty" <=> state[s] = "kEmpty"
  PROVE  ElementItemsOK'
<1>1. \A u \in Threads \ {t} : VacatedBy(u)' = VacatedBy(u)
  BY DEF ThreadStep, VacatedBy
<1> QED
  BY <1>1 DEF ElementItemsOK

(* A push claims an empty element. *)
LEMMA ClaimsEmpty ==
  ASSUME ControlOK, RingOK, ElementItemsOK, NEW t \in Threads, ThreadStep(t), NEW e \in Slots,
         state[e] = "kEmpty", state' = [state EXCEPT ![e] = "kBusy"], w' = w,
         VacatedBy(t) = {}, VacatedBy(t)' = {e}
  PROVE  ElementItemsOK'
<1>1. \A u \in Threads \ {t} : e \notin VacatedBy(u)
  BY VacatedApart
<1>2. w[e] = NoWork
  BY DEF ElementItemsOK
<1> QED
  BY <1>1, <1>2, ElementStep DEF ControlOK

(* A push writes the item into the element it claimed. *)
LEMMA Writes ==
  ASSUME ControlOK, RingOK, ElementItemsOK, NEW t \in Threads, ThreadStep(t), NEW e \in Slots,
         NEW x \in Works, w' = [w EXCEPT ![e] = x], state' = state,
         VacatedBy(t) = {e}, VacatedBy(t)' = {}
  PROVE  ElementItemsOK' /\ w[e] = NoWork
<1>1. state[e] # "kEmpty" /\ \A u \in Threads \ {t} : e \notin VacatedBy(u)
  BY VacatedApart, VacatedInUse
<1>2. w'[e] # NoWork
  BY WorkAssumption DEF ControlOK
<1>3. w[e] = NoWork
  BY DEF ElementItemsOK
<1>4. \A s \in Slots \ {e} : w'[s] = w[s]
  BY DEF ControlOK
<1> QED
  BY <1>1, <1>2, <1>3, <1>4, ElementStep

(* A pop reads the item and leaves none. *)
LEMMA Takes ==
  ASSUME ControlOK, RingOK, ElementItemsOK, NEW t \in Threads, ThreadStep(t), NEW e \in Uses(t),
         e \in Slots, w' = [w EXCEPT ![e] = NoWork], state' = state,
         VacatedBy(t) = {}, VacatedBy(t)' = {e}
  PROVE  ElementItemsOK' /\ w[e] \in Works
<1>1. state[e] # "kEmpty" /\ \A u \in Threads \ {t} : e \notin VacatedBy(u)
  BY VacatedApart, ElementsApart DEF NoRaceOnElements
<1>2. w[e] # NoWork
  BY <1>1 DEF ElementItemsOK
<1>3. w'[e] = NoWork /\ \A s \in Slots \ {e} : w'[s] = w[s]
  BY DEF ControlOK
<1> QED
  BY <1>1, <1>2, <1>3, ElementStep DEF ControlOK

(* A pop offers the element again. *)
LEMMA Releases ==
  ASSUME ControlOK, RingOK, ElementItemsOK, NEW t \in Threads, ThreadStep(t), NEW e \in Slots,
         w' = w, state' = [state EXCEPT ![e] = "kEmpty"],
         VacatedBy(t) = {e}, VacatedBy(t)' = {}
  PROVE  ElementItemsOK'
<1>1. \A u \in Threads \ {t} : e \notin VacatedBy(u)
  BY VacatedApart, VacatedInUse
<1>2. w[e] = NoWork
  BY DEF ElementItemsOK
<1> QED
  BY <1>1, <1>2, ElementStep DEF ControlOK

(* What thread t must show of its step for ItemsOK *)
LEMMA ItemsStep ==
  ASSUME ItemsOK, NEW t \in Threads, ThreadStep(t), ControlOK,
         LocalItemsOK(t)', ElementItemsOK',
         Placed(fresh', delivered', w', [Hands EXCEPT ![t] = InFlight(t)'])
  PROVE  ItemsOK'
<1>1. \A u \in Threads \ {t} : LocalItemsOK(u)'
  BY DEF ItemsOK, ThreadStep, LocalItemsOK, HasItem
<1>2. Hands' = [Hands EXCEPT ![t] = InFlight(t)']
  BY DEF ThreadStep, Hands, InFlight
<1> QED
  BY <1>1, <1>2 DEF ItemsOK

-----------------------------------------------------------------------------
(* Every action keeps the items. *)

(* What is in the hands of a thread, from its locals *)
LEMMA InHand ==
  ASSUME ItemsOK, NEW t \in Threads
  PROVE  /\ Hands[t] = InFlight(t)
         /\ HasItem(t) /\ reg[t].took = {} => Hands[t] = {reg[t].item} /\ reg[t].item \in Works
         /\ reg[t].item = NoWork => Hands[t] = reg[t].took
  BY WorkAssumption DEF ItemsOK, LocalItemsOK, Hands, InFlight

(* Steps that move no item *)
LEMMA NothingMoves ==
  ASSUME ControlOK, ItemsOK, NEW t \in Threads, ThreadStep(t),
         LocalItemsOK(t)', ElementItemsOK', InFlight(t)' = InFlight(t),
         w' = w, fresh' = fresh, delivered' = delivered
  PROVE  ItemsOK'
<1>1. Placed(fresh, delivered, w, [Hands EXCEPT ![t] = Hands[t]])
  BY StaysPlaced DEF ItemsOK
<1> QED
  BY <1>1, InHand, ItemsStep

(* The owner's actions keep each item in one place. *)
LEMMA OwnerKeepsItems ==
  ASSUME ControlOK, RingOK, ItemsOK, OwnerNext
  PROVE  ItemsOK'
<1> DEFINE t == Owner
           e == reg[Owner].e
<1>1. /\ t \in Threads /\ reg[t] \in Locals /\ reg \in [Threads -> Locals]
      /\ pc \in [Threads -> OwnerLabels \cup ThiefLabels] /\ front \in Nat
      /\ state \in [Slots -> ElementStates] /\ w \in [Slots -> Works \cup {NoWork}]
  BY Sizes DEF ControlOK, Threads
<1>2. ThreadStep(t)
  BY OwnerControl DEF OwnerStep
<1>3. LocalItemsOK(t) /\ ElementItemsOK /\ Placed(fresh, delivered, w, Hands)
  BY <1>1 DEF ItemsOK
<1>4. e \in Slots /\ (pc[t] \in {"PushFront.ready", "PopFront.take"} => e \in Uses(t) /\ state[e] # "kEmpty")
  BY <1>1, ElementsApart DEF Locals, Uses, HalfClaimed, NoRaceOnElements
<1>5. NoLocals.item = NoWork /\ NoLocals.took = {}
  BY DEF NoLocals
<1>6. CASE PushFrontClaim
  <2> DEFINE c == Slot(front)
  <2>1. /\ pc[t] = "idle" /\ pc'[t] = "PushFront.front" /\ state[c] = "kEmpty"
        /\ NextItem \in fresh /\ NextItem \in Works /\ w' = w /\ delivered' = delivered
        /\ fresh' = fresh \ {NextItem} /\ c \in Slots
        /\ state' = [state EXCEPT ![c] = "kBusy"]
    BY <1>6, <1>1, <1>3, FreshItem, SlotType DEF PushFrontClaim, Go, Placed
  <2>2. reg'[t].item = NextItem /\ reg'[t].e = c /\ reg'[t].took = reg[t].took
    BY <1>6, <1>1 DEF PushFrontClaim, Locals
  <2>3. reg[t].item = NoWork /\ reg[t].took = {}
    BY <2>1, <1>3 DEF LocalItemsOK, HasItem
  <2>4. LocalItemsOK(t)' /\ InFlight(t)' = {NextItem} /\ Hands[t] = {}
    BY <2>1, <2>2, <2>3, <1>1, InHand, WorkAssumption DEF LocalItemsOK, HasItem, InFlight
  <2>5. VacatedBy(t) = {} /\ VacatedBy(t)' = {c}
    BY <2>1, <2>2 DEF VacatedBy
  <2>6. ElementItemsOK'
    BY <2>1, <2>5, <1>1, <1>2, <1>3, ClaimsEmpty
  <2>7. Placed(fresh', delivered', w', [Hands EXCEPT ![t] = InFlight(t)'])
    BY <2>1, <2>4, <1>1, <1>3, CallerToHand
  <2> QED
    BY <2>4, <2>6, <2>7, <1>1, <1>2, ItemsStep
<1>7. CASE PushFrontAdvance
  <2>1. LocalItemsOK(t)' /\ InFlight(t)' = InFlight(t) /\ VacatedBy(t)' = VacatedBy(t)
    BY <1>7, <1>1, <1>3 DEF PushFrontAdvance, Go, LocalItemsOK, HasItem, InFlight, VacatedBy
  <2>2. ElementItemsOK'
    BY <1>7, <2>1, <1>1, <1>2, <1>3, SameElements DEF PushFrontAdvance
  <2> QED
    BY <1>7, <2>1, <2>2, <1>1, <1>2, NothingMoves DEF PushFrontAdvance
<1>8. CASE PushFrontWrite
  <2> DEFINE x == reg[t].item
  <2>1. /\ pc[t] = "PushFront.write" /\ pc'[t] = "PushFront.ready"
        /\ w' = [w EXCEPT ![e] = x] /\ state' = state
        /\ fresh' = fresh /\ delivered' = delivered
        /\ reg'[t].item = NoWork /\ reg'[t].took = reg[t].took
    BY <1>8, <1>1 DEF PushFrontWrite, Go, Locals
  <2>2. x \in Works /\ reg[t].took = {} /\ Hands[t] = {x}
    BY <2>1, <1>1, <1>3, InHand DEF LocalItemsOK, HasItem
  <2>3. LocalItemsOK(t)' /\ InFlight(t)' = {}
    BY <2>1, <2>2 DEF LocalItemsOK, HasItem, InFlight
  <2>4. VacatedBy(t) = {e} /\ VacatedBy(t)' = {}
    BY <2>1 DEF VacatedBy
  <2>5. ElementItemsOK' /\ w[e] = NoWork
    BY <2>1, <2>2, <2>4, <1>1, <1>2, <1>3, <1>4, Writes
  <2>6. Placed(fresh', delivered', w', [Hands EXCEPT ![t] = InFlight(t)'])
    BY <2>1, <2>2, <2>3, <2>5, <1>1, <1>3, <1>4, HandToElement
  <2> QED
    BY <2>3, <2>5, <2>6, <1>1, <1>2, ItemsStep
<1>9. CASE PushFrontPublish
  <2>1. /\ pc[t] = "PushFront.ready" /\ pc'[t] = "idle" /\ reg'[t] = NoLocals
        /\ state' = [state EXCEPT ![e] = "kReady"]
    BY <1>9, <1>1 DEF PushFrontPublish, Return
  <2>2. LocalItemsOK(t)' /\ InFlight(t)' = InFlight(t) /\ VacatedBy(t)' = VacatedBy(t)
    BY <2>1, <1>3, <1>5 DEF LocalItemsOK, HasItem, InFlight, VacatedBy
  <2>3. ElementItemsOK'
    BY <1>9, <2>1, <2>2, <1>1, <1>2, <1>3, <1>4, SameElements DEF PushFrontPublish
  <2> QED
    BY <1>9, <2>2, <2>3, <1>1, <1>2, NothingMoves DEF PushFrontPublish
<1>10. CASE PopFrontClaim
  <2>1. LocalItemsOK(t)' /\ InFlight(t)' = InFlight(t) /\ VacatedBy(t)' = VacatedBy(t)
    BY <1>10, <1>1, <1>3 DEF PopFrontClaim, Go, LocalItemsOK, HasItem, InFlight, VacatedBy, Locals
  <2>2. \A s \in Slots : state'[s] = "kEmpty" <=> state[s] = "kEmpty"
    BY <1>10, <1>1 DEF PopFrontClaim
  <2>3. ElementItemsOK'
    BY <1>10, <2>1, <2>2, <1>1, <1>2, <1>3, SameElements DEF PopFrontClaim
  <2> QED
    BY <1>10, <2>1, <2>3, <1>1, <1>2, NothingMoves DEF PopFrontClaim
<1>11. CASE PopFrontTake
  <2>1. /\ pc[t] = "PopFront.take" /\ pc'[t] = "PopFront.empty"
        /\ w' = [w EXCEPT ![e] = NoWork] /\ state' = state
        /\ fresh' = fresh /\ delivered' = delivered
        /\ reg'[t].item = w[e] /\ reg'[t].took = reg[t].took /\ reg'[t].e = e
    BY <1>11, <1>1 DEF PopFrontTake, Go, Locals
  <2>2. reg[t].took = {} /\ Hands[t] = {}
    BY <2>1, <1>1, <1>3, InHand DEF LocalItemsOK, HasItem
  <2>3. VacatedBy(t) = {} /\ VacatedBy(t)' = {e}
    BY <2>1 DEF VacatedBy
  <2>4. ElementItemsOK' /\ w[e] \in Works
    BY <2>1, <2>3, <1>1, <1>2, <1>3, <1>4, Takes
  <2>5. LocalItemsOK(t)' /\ InFlight(t)' = {w[e]}
    BY <2>1, <2>2, <2>4, WorkAssumption DEF LocalItemsOK, HasItem, InFlight
  <2>6. Placed(fresh', delivered', w', [Hands EXCEPT ![t] = InFlight(t)'])
    <3>1. Placed(fresh, delivered, w', [Hands EXCEPT ![t] = Hands[t] \cup {w[e]}])
      BY <2>1, <2>4, <1>1, <1>3, <1>4, ElementToHand
    <3>2. Hands[t] \cup {w[e]} = InFlight(t)'
      BY <2>2, <2>5
    <3> QED
      BY <3>1, <3>2, <2>1
  <2> QED
    BY <2>4, <2>5, <2>6, <1>1, <1>2, ItemsStep
<1>12. CASE PopFrontRelease
  <2>1. /\ pc[t] = "PopFront.empty" /\ pc'[t] = "PopFront.front" /\ reg' = reg /\ w' = w
        /\ state' = [state EXCEPT ![e] = "kEmpty"]
    BY <1>12, <1>1 DEF PopFrontRelease, Go
  <2>2. LocalItemsOK(t)' /\ InFlight(t)' = InFlight(t) /\ VacatedBy(t) = {e} /\ VacatedBy(t)' = {}
    BY <2>1, <1>3 DEF LocalItemsOK, HasItem, InFlight, VacatedBy
  <2>3. ElementItemsOK'
    BY <2>1, <2>2, <1>1, <1>2, <1>3, <1>4, Releases
  <2> QED
    BY <1>12, <2>2, <2>3, <1>1, <1>2, NothingMoves DEF PopFrontRelease
<1>13. CASE PopFrontRetreat
  <2>1. /\ pc[t] = "PopFront.front" /\ pc'[t] = "idle" /\ reg'[t] = NoLocals
        /\ state' = state /\ w' = w /\ fresh' = fresh
        /\ delivered' = delivered \cup {reg[t].item}
    BY <1>13, <1>1 DEF PopFrontRetreat, Return
  <2>2. LocalItemsOK(t)' /\ InFlight(t)' = {} /\ Hands[t] = {reg[t].item}
        /\ VacatedBy(t)' = VacatedBy(t)
    BY <2>1, <1>1, <1>3, <1>5, InHand DEF LocalItemsOK, HasItem, InFlight, VacatedBy
  <2>3. ElementItemsOK'
    BY <2>1, <2>2, <1>1, <1>2, <1>3, SameElements
  <2>4. Placed(fresh', delivered', w', [Hands EXCEPT ![t] = InFlight(t)'])
    BY <2>1, <2>2, <1>1, <1>3, HandToDelivered
  <2> QED
    BY <2>2, <2>3, <2>4, <1>1, <1>2, ItemsStep
<1> QED
  BY <1>6, <1>7, <1>8, <1>9, <1>10, <1>11, <1>12, <1>13 DEF OwnerNext

(* What the lemmas below need of a thief *)
LEMMA ThiefItemFacts ==
  ASSUME ControlOK, RingOK, ItemsOK, NEW t \in Thieves
  PROVE  /\ t \in Threads /\ reg[t] \in Locals /\ reg \in [Threads -> Locals]
         /\ pc \in [Threads -> OwnerLabels \cup ThiefLabels] /\ pc[t] \in ThiefLabels
         /\ state \in [Slots -> ElementStates] /\ w \in [Slots -> Works \cup {NoWork}]
         /\ LocalItemsOK(t) /\ ElementItemsOK /\ Placed(fresh, delivered, w, Hands)
         /\ reg[t].e \in Slots
         /\ pc[t] \in {"PushBack.ready", "PopBack.take", "Half.move"} =>
              reg[t].e \in Uses(t) /\ state[reg[t].e] # "kEmpty"
         /\ NoLocals.item = NoWork /\ NoLocals.took = {}
<1>1. /\ t \in Threads /\ reg[t] \in Locals /\ reg \in [Threads -> Locals]
      /\ pc \in [Threads -> OwnerLabels \cup ThiefLabels] /\ pc[t] \in ThiefLabels
      /\ state \in [Slots -> ElementStates] /\ w \in [Slots -> Works \cup {NoWork}]
  BY DEF ControlOK, Threads
<1>2. LocalItemsOK(t) /\ ElementItemsOK /\ Placed(fresh, delivered, w, Hands)
  BY <1>1 DEF ItemsOK
<1>3. NoLocals.item = NoWork /\ NoLocals.took = {}
  BY DEF NoLocals
<1>4. CASE pc[t] = "Half.move"
  <2>1. reg[t].i \in 0..reg[t].i /\ reg[t].i \in 0..(kSize - 1)
    BY <1>4, ThiefFacts, Sizes DEF ControlOK, HalfLocals, Locals
  <2>2. reg[t].e = Slot(back + reg[t].i)
    BY <1>4, <2>1, ThiefFacts DEF RingOK
  <2>3. reg[t].e \in Uses(t)
    BY <1>4, <2>1, <2>2 DEF Uses, HalfClaimed
  <2> QED
    BY <1>1, <1>2, <1>3, <2>3, ElementsApart DEF Locals, NoRaceOnElements
<1>5. CASE pc[t] # "Half.move"
  BY <1>1, <1>2, <1>3, <1>5, ElementsApart DEF Locals, Uses, HalfClaimed, NoRaceOnElements
<1> QED
  BY <1>4, <1>5

(* Steps that leave the elements alone and move no item *)
LEMMA ElsewhereKeepsItems ==
  ASSUME ControlOK, RingOK, ItemsOK, NEW t \in Thieves, ThreadStep(t),
         state' = state, w' = w, fresh' = fresh, delivered' = delivered,
         InFlight(t)' = InFlight(t), VacatedBy(t)' = VacatedBy(t), LocalItemsOK(t)'
  PROVE  ItemsOK'
<1>1. ElementItemsOK'
  BY ThiefItemFacts, SameElements
<1> QED
  BY <1>1, ThiefItemFacts, NothingMoves

(* So do the loads of Size() and the try_lock, *)
LEMMA SizeKeepsItems ==
  ASSUME ControlOK, RingOK, ItemsOK, NEW t \in Thieves, NEW caller \in Callers,
         \/ SizeLoadFront(t, caller) \/ SizeLoadBack(t, caller) \/ SizeRetry(t, caller)
         \/ PopIfNotEmpty(t, caller) \/ PopTryLock(t, caller)
  PROVE  ItemsOK'
<1>1. ThiefStep(t)
  BY SizeControl
<1>2. state' = state /\ w' = w /\ fresh' = fresh /\ delivered' = delivered
  BY DEF SizeLoadFront, SizeLoadBack, SizeRetry, PopIfNotEmpty, PopTryLock
<1>3. /\ pc[t] \in {"idle", "PopBack.size.back", "PopBack.size.check", "PopBack.size.front",
                    "PopBackHalf.size.back", "PopBackHalf.size.check", "PopBackHalf.size.front",
                    "Half.size.back", "Half.size.check", "Half.size.front",
                    "PopBack.try_lock", "PopBackHalf.try_lock"}
      /\ pc'[t] \in {"idle", "PopBack.size.back", "PopBack.size.check", "PopBack.size.front",
                     "PopBackHalf.size.back", "PopBackHalf.size.check", "PopBackHalf.size.front",
                     "Half.size.back", "Half.size.check", "Half.size.front",
                     "PopBack.try_lock", "PopBackHalf.try_lock", "PopBack.claim"}
  BY ThiefItemFacts
     DEF Callers, SizeFront, SizeBack, SizeCheck, TryLock, SizeLoadFront, SizeLoadBack,
         SizeRetry, PopIfNotEmpty, SizeIs, PopTryLock, Go, Return
<1>4. reg[t].item = NoWork /\ reg[t].took = {}
  BY <1>3, ThiefItemFacts DEF LocalItemsOK, HasItem
<1>5. reg'[t].item = NoWork /\ reg'[t].took = {}
  BY <1>4, ThiefItemFacts
     DEF SizeLoadFront, SizeLoadBack, SizeRetry, PopIfNotEmpty, PopTryLock, Return, Locals
<1>6. LocalItemsOK(t)' /\ InFlight(t)' = InFlight(t) /\ VacatedBy(t)' = VacatedBy(t)
  BY <1>3, <1>4, <1>5 DEF LocalItemsOK, HasItem, InFlight, VacatedBy
<1> QED
  BY <1>1, <1>2, <1>6, ElsewhereKeepsItems DEF ThiefStep

(* PushBack, *)
LEMMA PushBackKeepsItems ==
  ASSUME ControlOK, RingOK, ItemsOK, NEW t \in Thieves, ThreadStep(t),
         \/ PushBackLock(t) \/ PushBackClaim(t) \/ PushBackRetreat(t)
         \/ PushBackWrite(t) \/ PushBackPublish(t)
  PROVE  ItemsOK'
<1> DEFINE e == reg[t].e
           x == reg[t].item
           c == Slot(back + Lap - 1)
<1>1. CASE PushBackLock(t)
  <2>1. /\ pc[t] = "idle" /\ pc'[t] = "PushBack.claim"
        /\ NextItem \in fresh /\ NextItem \in Works /\ w' = w /\ delivered' = delivered
        /\ state' = state /\ fresh' = fresh \ {NextItem}
        /\ reg'[t].item = NextItem /\ reg'[t].took = reg[t].took
    BY <1>1, ThiefItemFacts, FreshItem DEF PushBackLock, Go, Placed, Locals
  <2>2. reg[t].item = NoWork /\ reg[t].took = {}
    BY <2>1, ThiefItemFacts DEF LocalItemsOK, HasItem
  <2>3. /\ LocalItemsOK(t)' /\ InFlight(t)' = {NextItem} /\ Hands[t] = {}
        /\ VacatedBy(t)' = VacatedBy(t)
    BY <2>1, <2>2, ThiefItemFacts, InHand, WorkAssumption
       DEF LocalItemsOK, HasItem, InFlight, VacatedBy
  <2>4. ElementItemsOK'
    BY <2>1, <2>3, ThiefItemFacts, SameElements
  <2>5. Placed(fresh', delivered', w', [Hands EXCEPT ![t] = InFlight(t)'])
    <3>1. Placed(fresh \ {NextItem}, delivered, w, [Hands EXCEPT ![t] = {NextItem}])
      BY <2>1, <2>3, ThiefItemFacts, CallerToHand
    <3> QED
      BY <3>1, <2>1, <2>3
  <2> QED
    BY <2>3, <2>4, <2>5, ThiefItemFacts, ItemsStep
<1>2. CASE PushBackClaim(t) /\ state[c] = "kEmpty"
  <2>1. /\ pc[t] = "PushBack.claim" /\ pc'[t] = "PushBack.back" /\ c \in Slots
        /\ state' = [state EXCEPT ![c] = "kBusy"] /\ reg' = [reg EXCEPT ![t].e = c]
        /\ w' = w /\ fresh' = fresh /\ delivered' = delivered
    BY <1>2, ThiefFacts, RingArithmetic DEF PushBackClaim, Go
  <2>2. LocalItemsOK(t)' /\ InFlight(t)' = InFlight(t) /\ VacatedBy(t) = {} /\ VacatedBy(t)' = {c}
    BY <2>1, ThiefItemFacts DEF LocalItemsOK, HasItem, InFlight, VacatedBy, Locals
  <2>3. ElementItemsOK'
    BY <1>2, <2>1, <2>2, ThiefItemFacts, ClaimsEmpty
  <2> QED
    BY <2>1, <2>2, <2>3, ThiefItemFacts, NothingMoves
<1>3. CASE PushBackClaim(t) /\ state[c] # "kEmpty"
  <2>1. /\ pc[t] = "PushBack.claim" /\ pc'[t] = "unlock" /\ state' = state
        /\ w' = w /\ fresh' = fresh \cup {x} /\ delivered' = delivered
        /\ reg' = [reg EXCEPT ![t].item = NoWork]
    BY <1>3, ThiefItemFacts DEF PushBackClaim, Go
  <2>2. x \in Works /\ reg[t].took = {} /\ Hands[t] = {x}
    BY <2>1, ThiefItemFacts, InHand DEF LocalItemsOK, HasItem
  <2>3. LocalItemsOK(t)' /\ InFlight(t)' = {} /\ VacatedBy(t)' = VacatedBy(t)
    BY <2>1, <2>2, ThiefItemFacts DEF LocalItemsOK, HasItem, InFlight, VacatedBy, Locals
  <2>4. ElementItemsOK'
    BY <2>1, <2>3, ThiefItemFacts, SameElements
  <2>5. Placed(fresh', delivered', w', [Hands EXCEPT ![t] = InFlight(t)'])
    BY <2>1, <2>2, <2>3, ThiefItemFacts, HandToCaller
  <2> QED
    BY <2>3, <2>4, <2>5, ThiefItemFacts, ItemsStep
<1>4. CASE PushBackRetreat(t)
  <2>1. LocalItemsOK(t)' /\ InFlight(t)' = InFlight(t) /\ VacatedBy(t)' = VacatedBy(t)
    BY <1>4, ThiefItemFacts DEF PushBackRetreat, Go, LocalItemsOK, HasItem, InFlight, VacatedBy
  <2> QED
    BY <1>4, <2>1, ElsewhereKeepsItems DEF PushBackRetreat
<1>5. CASE PushBackWrite(t)
  <2>1. /\ pc[t] = "PushBack.write" /\ pc'[t] = "PushBack.ready"
        /\ w' = [w EXCEPT ![e] = x] /\ state' = state
        /\ fresh' = fresh /\ delivered' = delivered
        /\ reg'[t].item = NoWork /\ reg'[t].took = reg[t].took
    BY <1>5, ThiefItemFacts DEF PushBackWrite, Go, Locals
  <2>2. x \in Works /\ reg[t].took = {} /\ Hands[t] = {x}
    BY <2>1, ThiefItemFacts, InHand DEF LocalItemsOK, HasItem
  <2>3. LocalItemsOK(t)' /\ InFlight(t)' = {} /\ VacatedBy(t) = {e} /\ VacatedBy(t)' = {}
    BY <2>1, <2>2 DEF LocalItemsOK, HasItem, InFlight, VacatedBy
  <2>4. ElementItemsOK' /\ w[e] = NoWork
    BY <2>1, <2>2, <2>3, ThiefItemFacts, Writes
  <2>5. Placed(fresh', delivered', w', [Hands EXCEPT ![t] = InFlight(t)'])
    BY <2>1, <2>2, <2>3, <2>4, ThiefItemFacts, HandToElement
  <2> QED
    BY <2>3, <2>4, <2>5, ThiefItemFacts, ItemsStep
<1>6. CASE PushBackPublish(t)
  <2>1. /\ pc[t] = "PushBack.ready" /\ pc'[t] = "unlock" /\ reg' = reg /\ w' = w
        /\ fresh' = fresh /\ delivered' = delivered /\ state' = [state EXCEPT ![e] = "kReady"]
    BY <1>6, ThiefItemFacts DEF PushBackPublish, Go
  <2>2. LocalItemsOK(t)' /\ InFlight(t)' = InFlight(t) /\ VacatedBy(t)' = VacatedBy(t)
    BY <2>1, ThiefItemFacts DEF LocalItemsOK, HasItem, InFlight, VacatedBy
  <2>3. \A s \in Slots : state'[s] = "kEmpty" <=> state[s] = "kEmpty"
    BY <2>1, ThiefItemFacts
  <2>4. ElementItemsOK'
    BY <2>1, <2>2, <2>3, ThiefItemFacts, SameElements
  <2> QED
    BY <2>1, <2>2, <2>4, ThiefItemFacts, NothingMoves
<1> QED
  BY <1>1, <1>2, <1>3, <1>4, <1>5, <1>6 DEF PushBackClaim

(* PopBack, *)
LEMMA PopBackKeepsItems ==
  ASSUME ControlOK, RingOK, ItemsOK, NEW t \in Thieves, ThreadStep(t),
         \/ PopBackClaim(t) \/ PopBackTake(t) \/ PopBackRelease(t) \/ PopBackAdvance(t)
  PROVE  ItemsOK'
<1> DEFINE e == reg[t].e
<1>1. CASE PopBackClaim(t)
  <2>1. /\ pc[t] = "PopBack.claim" /\ pc'[t] \in {"PopBack.take", "unlock"}
        /\ w' = w /\ fresh' = fresh /\ delivered' = delivered
        /\ reg'[t].item = reg[t].item /\ reg'[t].took = reg[t].took
    BY <1>1, ThiefItemFacts DEF PopBackClaim, Go, Locals
  <2>2. LocalItemsOK(t)' /\ InFlight(t)' = InFlight(t) /\ VacatedBy(t)' = VacatedBy(t)
    BY <2>1, ThiefItemFacts DEF LocalItemsOK, HasItem, InFlight, VacatedBy
  <2>3. \A s \in Slots : state'[s] = "kEmpty" <=> state[s] = "kEmpty"
    BY <1>1, ThiefItemFacts DEF PopBackClaim
  <2>4. ElementItemsOK'
    BY <2>1, <2>2, <2>3, ThiefItemFacts, SameElements
  <2> QED
    BY <2>1, <2>2, <2>4, ThiefItemFacts, NothingMoves
<1>2. CASE PopBackTake(t)
  <2>1. /\ pc[t] = "PopBack.take" /\ pc'[t] = "PopBack.empty"
        /\ w' = [w EXCEPT ![e] = NoWork] /\ state' = state
        /\ fresh' = fresh /\ delivered' = delivered
        /\ reg'[t].item = w[e] /\ reg'[t].took = reg[t].took /\ reg'[t].e = e
    BY <1>2, ThiefItemFacts DEF PopBackTake, Go, Locals
  <2>2. reg[t].took = {} /\ Hands[t] = {}
    BY <2>1, ThiefItemFacts, InHand DEF LocalItemsOK, HasItem
  <2>3. VacatedBy(t) = {} /\ VacatedBy(t)' = {e}
    BY <2>1 DEF VacatedBy
  <2>4. ElementItemsOK' /\ w[e] \in Works
    BY <2>1, <2>3, ThiefItemFacts, Takes
  <2>5. LocalItemsOK(t)' /\ InFlight(t)' = Hands[t] \cup {w[e]}
    BY <2>1, <2>2, <2>4, WorkAssumption DEF LocalItemsOK, HasItem, InFlight
  <2>6. Placed(fresh', delivered', w', [Hands EXCEPT ![t] = InFlight(t)'])
    <3>1. Placed(fresh, delivered, w', [Hands EXCEPT ![t] = Hands[t] \cup {w[e]}])
      BY <2>1, <2>4, ThiefItemFacts, ElementToHand
    <3> QED
      BY <3>1, <2>1, <2>5
  <2> QED
    BY <2>4, <2>5, <2>6, ThiefItemFacts, ItemsStep
<1>3. CASE PopBackRelease(t)
  <2>1. /\ pc[t] = "PopBack.empty" /\ pc'[t] = "PopBack.back" /\ reg' = reg /\ w' = w
        /\ fresh' = fresh /\ delivered' = delivered /\ state' = [state EXCEPT ![e] = "kEmpty"]
    BY <1>3, ThiefItemFacts DEF PopBackRelease, Go
  <2>2. LocalItemsOK(t)' /\ InFlight(t)' = InFlight(t) /\ VacatedBy(t) = {e} /\ VacatedBy(t)' = {}
    BY <2>1, ThiefItemFacts DEF LocalItemsOK, HasItem, InFlight, VacatedBy
  <2>3. ElementItemsOK'
    BY <2>1, <2>2, ThiefItemFacts, Releases
  <2> QED
    BY <2>1, <2>2, <2>3, ThiefItemFacts, NothingMoves
<1>4. CASE PopBackAdvance(t)
  <2>1. LocalItemsOK(t)' /\ InFlight(t)' = InFlight(t) /\ VacatedBy(t)' = VacatedBy(t)
    BY <1>4, ThiefItemFacts DEF PopBackAdvance, Go, LocalItemsOK, HasItem, InFlight, VacatedBy
  <2> QED
    BY <1>4, <2>1, ElsewhereKeepsItems DEF PopBackAdvance
<1> QED
  BY <1>1, <1>2, <1>3, <1>4

(* PopBackHalf, *)
LEMMA HalfKeepsItems ==
  ASSUME ControlOK, RingOK, ItemsOK, NEW t \in Thieves, ThreadStep(t),
         \/ HalfSize(t) \/ HalfElement(t) \/ HalfMove(t) \/ HalfRelease(t) \/ HalfAdvance(t)
  PROVE  ItemsOK'
<1> DEFINE e == reg[t].e
<1>1. CASE HalfSize(t)
  <2>1. /\ pc[t] = "Half.size.check" /\ pc'[t] = "Half.element"
        /\ reg'[t].item = NoWork /\ reg'[t].took = {}
    BY <1>1, ThiefItemFacts DEF HalfSize, SizeIs, SizeCheck, Go, NoLocals
  <2>2. LocalItemsOK(t)' /\ InFlight(t)' = InFlight(t) /\ VacatedBy(t)' = VacatedBy(t)
    BY <2>1, ThiefItemFacts DEF LocalItemsOK, HasItem, InFlight, VacatedBy
  <2> QED
    BY <1>1, <2>2, ElsewhereKeepsItems DEF HalfSize
<1>2. CASE HalfElement(t)
  <2>1. /\ pc[t] = "Half.element" /\ pc'[t] \in {"Half.element", "Half.move"}
        /\ w' = w /\ fresh' = fresh /\ delivered' = delivered
        /\ reg'[t].item = reg[t].item /\ reg'[t].took = reg[t].took
    BY <1>2, ThiefItemFacts DEF HalfElement, Go, Locals
  <2>2. LocalItemsOK(t)' /\ InFlight(t)' = InFlight(t) /\ VacatedBy(t)' = VacatedBy(t)
    BY <2>1, ThiefItemFacts DEF LocalItemsOK, HasItem, InFlight, VacatedBy
  <2>3. \A s \in Slots : state'[s] = "kEmpty" <=> state[s] = "kEmpty"
    BY <1>2, ThiefItemFacts DEF HalfElement
  <2>4. ElementItemsOK'
    BY <2>1, <2>2, <2>3, ThiefItemFacts, SameElements
  <2> QED
    BY <2>1, <2>2, <2>4, ThiefItemFacts, NothingMoves
<1>3. CASE HalfMove(t)
  <2>1. /\ pc[t] = "Half.move" /\ pc'[t] = "Half.empty"
        /\ w' = [w EXCEPT ![e] = NoWork] /\ state' = state
        /\ fresh' = fresh /\ delivered' = delivered
        /\ reg'[t].item = reg[t].item /\ reg'[t].took = reg[t].took \cup {w[e]}
        /\ reg'[t].e = e
    BY <1>3, ThiefItemFacts DEF HalfMove, Go, Locals
  <2>2. reg[t].item = NoWork /\ Hands[t] = reg[t].took
    BY <2>1, ThiefItemFacts, InHand DEF LocalItemsOK, HasItem
  <2>3. VacatedBy(t) = {} /\ VacatedBy(t)' = {e}
    BY <2>1 DEF VacatedBy
  <2>4. ElementItemsOK' /\ w[e] \in Works
    BY <2>1, <2>3, ThiefItemFacts, Takes
  <2>5. LocalItemsOK(t)' /\ InFlight(t)' = Hands[t] \cup {w[e]}
    BY <2>1, <2>2, <2>4, ThiefItemFacts, WorkAssumption DEF LocalItemsOK, HasItem, InFlight
  <2>6. Placed(fresh', delivered', w', [Hands EXCEPT ![t] = InFlight(t)'])
    <3>1. Placed(fresh, delivered, w', [Hands EXCEPT ![t] = Hands[t] \cup {w[e]}])
      BY <2>1, <2>4, ThiefItemFacts, ElementToHand
    <3> QED
      BY <3>1, <2>1, <2>5
  <2> QED
    BY <2>4, <2>5, <2>6, ThiefItemFacts, ItemsStep
<1>4. CASE HalfRelease(t)
  <2>1. /\ pc[t] = "Half.empty" /\ pc'[t] = "Half.element" /\ w' = w
        /\ fresh' = fresh /\ delivered' = delivered /\ state' = [state EXCEPT ![e] = "kEmpty"]
        /\ reg'[t].item = reg[t].item /\ reg'[t].took = reg[t].took
    BY <1>4, ThiefItemFacts DEF HalfRelease, Go, Locals
  <2>2. LocalItemsOK(t)' /\ InFlight(t)' = InFlight(t) /\ VacatedBy(t) = {e} /\ VacatedBy(t)' = {}
    BY <2>1, ThiefItemFacts DEF LocalItemsOK, HasItem, InFlight, VacatedBy
  <2>3. ElementItemsOK'
    BY <2>1, <2>2, ThiefItemFacts, Releases
  <2> QED
    BY <2>1, <2>2, <2>3, ThiefItemFacts, NothingMoves
<1>5. CASE HalfAdvance(t)
  <2>1. LocalItemsOK(t)' /\ InFlight(t)' = InFlight(t) /\ VacatedBy(t)' = VacatedBy(t)
    BY <1>5, ThiefItemFacts DEF HalfAdvance, Go, LocalItemsOK, HasItem, InFlight, VacatedBy
  <2> QED
    BY <1>5, <2>1, ElsewhereKeepsItems DEF HalfAdvance
<1> QED
  BY <1>1, <1>2, <1>3, <1>4, <1>5

(* and the return of what was popped. *)
LEMMA UnlockKeepsItems ==
  ASSUME ControlOK, RingOK, ItemsOK, NEW t \in Thieves, ThreadStep(t), Unlock(t)
  PROVE  ItemsOK'
<1>1. /\ pc[t] = "unlock" /\ pc'[t] = "idle" /\ reg'[t] = NoLocals
      /\ state' = state /\ w' = w /\ fresh' = fresh /\ delivered' = delivered \cup InFlight(t)
  BY ThiefItemFacts DEF Unlock, Return, InFlight
<1>2. /\ LocalItemsOK(t)' /\ InFlight(t)' = {} /\ VacatedBy(t)' = VacatedBy(t)
      /\ Hands[t] = InFlight(t)
  BY <1>1, ThiefItemFacts, InHand DEF LocalItemsOK, HasItem, InFlight, VacatedBy
<1>3. ElementItemsOK'
  BY <1>1, <1>2, ThiefItemFacts, SameElements
<1>4. Placed(fresh', delivered', w', [Hands EXCEPT ![t] = InFlight(t)'])
  BY <1>1, <1>2, ThiefItemFacts, HandToDelivered
<1> QED
  BY <1>2, <1>3, <1>4, ThiefItemFacts, ItemsStep

(* The items at the start, *)
LEMMA ItemsInit == Init => ItemsOK
<1> SUFFICES ASSUME Init PROVE ItemsOK
  OBVIOUS
<1>1. \A t \in Threads : pc[t] = "idle" /\ reg[t] = NoLocals /\ InFlight(t) = {} /\ VacatedBy(t) = {}
  BY DEF Init, NoLocals, InFlight, VacatedBy
<1>2. \A t \in Threads : LocalItemsOK(t)
  BY <1>1 DEF LocalItemsOK, HasItem, NoLocals
<1>3. ElementItemsOK
  BY <1>1 DEF ElementItemsOK, Init
<1>4. Placed(fresh, delivered, w, Hands)
  BY <1>1, WorkAssumption DEF Placed, Hands, Init
<1> QED
  BY <1>2, <1>3, <1>4 DEF ItemsOK

(* and after each step *)
LEMMA ItemsNext == ControlOK /\ RingOK /\ ItemsOK /\ [Next]_vars => ItemsOK'
<1>1. ASSUME ControlOK, RingOK, ItemsOK, NEW t \in Thieves, ThiefNext(t) PROVE ItemsOK'
  <2>1. ThreadStep(t)
    BY <1>1, ThiefControl DEF ThiefStep
  <2> QED
    BY <1>1, <2>1, SizeKeepsItems, PushBackKeepsItems, PopBackKeepsItems, HalfKeepsItems,
       UnlockKeepsItems DEF ThiefNext
<1>2. ASSUME ItemsOK, UNCHANGED vars PROVE ItemsOK'
  BY <1>2 DEF vars, ItemsOK, LocalItemsOK, HasItem, ElementItemsOK, VacatedBy, Hands, InFlight
<1> QED
  BY <1>1, <1>2, OwnerKeepsItems DEF Next

-----------------------------------------------------------------------------
(* When a push is refused *)

(* A full ring, but for a gap of less than half of it *)
LEMMA MoreThanHalf ==
  ASSUME NEW f, NEW b, NEW st, NEW own, NEW thf, NEW lo, NEW hi,
         Shape(f, b, st, own, thf, lo, hi), Arc(f, b) = kSize, 2 * hi < kSize
  PROVE  Cardinality({s \in Slots : st[s] # "kEmpty"}) > kSize \div 2
<1> DEFINE G == {s \in Slots : lo < Off(b, s) /\ Off(b, s) <= hi}
           offset == [s \in G |-> Off(b, s)]
<1>1. /\ f \in Indices /\ b \in Indices /\ lo \in Int /\ hi \in Int
      /\ ((lo = -1 /\ hi = -1) \/ (0 <= lo /\ lo <= hi))
  BY DEF Shape
<1>2. IsFiniteSet(Slots) /\ Cardinality(Slots) = kSize
  BY Sizes, FS_Interval DEF Slots
<1>3. \A s \in Slots : Off(b, s) \in 0..(kSize - 1)
  BY <1>1, RingArithmetic
<1>4. {s \in Slots : st[s] # "kEmpty"} = Slots \ G
  BY <1>3, Sizes DEF Shape, Occupied
<1>5. offset \in Injection(G, (lo + 1)..hi)
  <2>1. offset \in [G -> (lo + 1)..hi]
    BY <1>1, <1>3
  <2>2. \A s1, s2 \in G : offset[s1] = offset[s2] => s1 = s2
    BY <1>1, RingArithmetic
  <2> QED
    BY <2>1, <2>2 DEF Injection, IsInjective
<1>6. /\ IsFiniteSet((lo + 1)..hi)
      /\ Cardinality((lo + 1)..hi) = IF lo + 1 > hi THEN 0 ELSE hi - (lo + 1) + 1
  BY <1>1, FS_Interval
<1>7. IsFiniteSet(G) /\ Cardinality(G) \in Nat /\ Cardinality(G) <= Cardinality((lo + 1)..hi)
  BY <1>5, <1>6, FS_Injection, FS_CardinalityType
<1>8. 2 * Cardinality(G) < kSize
  BY <1>1, <1>6, <1>7, Sizes
<1>9. Cardinality(Slots \ G) = kSize - Cardinality(G)
  <2>1. Slots \cap G = G
    OBVIOUS
  <2> QED
    BY <2>1, <1>2, FS_Difference
<1>10. Cardinality(Slots \ G) > kSize \div 2
  <2> HIDE DEF G
  <2> QED
    BY <1>7, <1>8, <1>9, Sizes
<1> QED
  BY <1>4, <1>10, Zenon

(* A refused push found the arc of the ring all around, less the gap. *)
LEMMA RefusedWhenFull == ControlOK /\ RingOK => RefusesOnlyWhenCrowded
<1> SUFFICES ASSUME ControlOK, RingOK PROVE RefusesOnlyWhenCrowded
  OBVIOUS
<1>1. /\ Shape(FrontEnd, BackEnd, state, OwnerHolds, ThiefHolds, GapLow, GapHigh)
      /\ FrontEnd \in Indices /\ BackEnd \in Indices
  BY DEF RingOK, Shape
<1>2. 2 * GapHigh < kSize
  <2>1. \A t \in Thieves : 2 * HighOf(t) < kSize
    BY Sizes DEF ControlOK, HalfLocals, HighOf, Gap
  <2> QED
    BY <2>1, Sizes DEF GapHigh, ControlOK
<1>3. Arc(FrontEnd, BackEnd) \in Nat /\ Arc(FrontEnd, BackEnd) <= kSize
  BY <1>1, RingArithmetic DEF Shape
<1>4. ASSUME pc[Owner] = "idle", state[Slot(front)] # "kEmpty"
      PROVE  Arc(FrontEnd, BackEnd) = kSize
  <2>1. FrontEnd = front % Lap /\ Slot(front) = Fold(FrontEnd)
    BY <1>4, SlotIsFold, Sizes DEF FrontEnd, ControlOK
  <2>2. /\ Fold(FrontEnd) \in Slots
        /\ (Arc(FrontEnd, BackEnd) < kSize => Off(BackEnd, Fold(FrontEnd)) = Arc(FrontEnd, BackEnd))
    BY <1>1, RingArithmetic
  <2>3. Occupied(FrontEnd, BackEnd, GapLow, GapHigh, Fold(FrontEnd))
    BY <1>1, <1>4, <2>1, <2>2 DEF Shape
  <2> QED
    BY <1>3, <2>2, <2>3, Sizes DEF Occupied
<1>5. ASSUME NEW t \in Thieves, pc[t] = "PushBack.claim", state[Slot(back + Lap - 1)] # "kEmpty"
      PROVE  Arc(FrontEnd, BackEnd) = kSize
  <2>1. mutex = t /\ Quiet(t)
    BY <1>5 DEF ControlOK, LockedLabels, Quiet, HalfClaimed
  <2>2. BackEnd = back % Lap
    BY <2>1, HolderView, QuietView
  <2>3. /\ Slot(back + Lap - 1) = Fold(Down(BackEnd)) /\ Slot(back + Lap - 1) \in Slots
        /\ Off(BackEnd, Fold(Down(BackEnd))) = kSize - 1
    <3>1. Slot(back + Lap - 1) = Fold(Down(back % Lap)) /\ Slot(back + Lap - 1) \in Slots
      BY <1>5, ThiefFacts, SlotIsFold, SlotType, Sizes DEF ControlOK
    <3>2. Off(BackEnd, Fold(Down(BackEnd))) = kSize - 1
      BY <1>1, BackArithmetic
    <3> QED
      BY <3>1, <3>2, <2>2
  <2>4. Occupied(FrontEnd, BackEnd, GapLow, GapHigh, Slot(back + Lap - 1))
    BY <1>1, <1>5, <2>3 DEF Shape
  <2> QED
    BY <1>3, <2>3, <2>4, Sizes DEF Occupied
<1> QED
  BY <1>1, <1>2, <1>4, <1>5, MoreThanHalf DEF RefusesOnlyWhenCrowded

-----------------------------------------------------------------------------
RunQueueInv == ControlOK /\ RingOK /\ ItemsOK

(* Init satisfies the invariant and every step keeps it. *)
THEOREM RunQueueInvariant == Spec => []RunQueueInv
<1>1. Init => RunQueueInv
  BY ControlInit, RingInit, ItemsInit DEF RunQueueInv
<1>2. RunQueueInv /\ [Next]_vars => RunQueueInv'
  BY ControlNext, RingNext, ItemsNext DEF RunQueueInv
<1> QED
  BY <1>1, <1>2, PTL DEF Spec

(* ElementsAreSafe (run_queue.h:14): whatever the owner and the threads at *)
(* the back interleave, no item is lost or delivered twice, no element is  *)
(* touched by two operations, and PopBackHalf's DCHECK holds.              *)
THEOREM RunQueueElementsAreSafe == Spec => []ElementsAreSafe
<1>1. RunQueueInv => ElementsAreSafe
  <2> SUFFICES ASSUME RunQueueInv PROVE ElementsAreSafe
    OBVIOUS
  <2>1. TypeOK
    BY DEF RunQueueInv, ControlOK, ItemsOK, Placed, TypeOK, ElementStates
  <2> QED
    BY <2>1, ElementsApart, PlacedIsOnePlace DEF RunQueueInv, ItemsOK, ElementsAreSafe
<1> QED
  BY <1>1, RunQueueInvariant, PTL

(* RefusesOnlyWhenCrowded (run_queue.h:32, 73): a push hands its item back *)
(* only when more than half of the array is in use, even in the middle of  *)
(* a PopBackHalf.                                                          *)
THEOREM RunQueueRefusesOnlyWhenCrowded == Spec => []RefusesOnlyWhenCrowded
<1>1. RunQueueInv => RefusesOnlyWhenCrowded
  BY RefusedWhenFull DEF RunQueueInv
<1> QED
  BY <1>1, RunQueueInvariant, PTL

-----------------------------------------------------------------------------
(* The refinement of WorkDeque.  The items of the n elements from b on, the *)
(* last of them first *)
Span(b, n, ws) == [j \in 1..n |-> ws[Fold(Plus(b, n - j))]]

(* A span is a sequence of n items. *)
LEMMA SpanIsSequence ==
  ASSUME NEW b \in Indices, NEW n \in 0..kSize, NEW ws \in [Slots -> Works \cup {NoWork}]
  PROVE  /\ Span(b, n, ws) \in Seq(Works \cup {NoWork})
         /\ Len(Span(b, n, ws)) = n /\ DOMAIN Span(b, n, ws) = 1..n
         /\ \A j \in 1..n : /\ n - j \in 0..(kSize - 1) /\ Fold(Plus(b, n - j)) \in Slots
                            /\ Span(b, n, ws)[j] = ws[Fold(Plus(b, n - j))]
<1>1. kSize \in Nat /\ n \in Nat
  BY Sizes
<1>2. \A j \in 1..n : n - j \in 0..(kSize - 1)
  BY <1>1
<1>3. \A j \in 1..n : Fold(Plus(b, n - j)) \in Slots
  BY <1>1, <1>2, PlusArithmetic
<1>4. \A j \in 1..n : ws[Fold(Plus(b, n - j))] \in Works \cup {NoWork}
  BY <1>3
<1> QED
  BY <1>1, <1>2, <1>3, <1>4 DEF Span

(* A push at the front and a pop there *)
LEMMA SpanFront ==
  ASSUME NEW b \in Indices, NEW n \in 0..(kSize - 1), NEW ws \in [Slots -> Works \cup {NoWork}]
  PROVE  /\ Span(b, n + 1, ws) = <<ws[Fold(Plus(b, n))]>> \o Span(b, n, ws)
         /\ Span(b, n + 1, ws) # <<>>
         /\ Head(Span(b, n + 1, ws)) = ws[Fold(Plus(b, n))]
         /\ Tail(Span(b, n + 1, ws)) = Span(b, n, ws)
<1> DEFINE long == Span(b, n + 1, ws)
           short == Span(b, n, ws)
           x == ws[Fold(Plus(b, n))]
<1>1. kSize \in Nat /\ n \in Nat /\ n + 1 \in 0..kSize /\ n \in 0..kSize
  BY Sizes
<1>2. /\ long \in Seq(Works \cup {NoWork}) /\ Len(long) = n + 1
      /\ \A j \in 1..(n + 1) : long[j] = ws[Fold(Plus(b, n + 1 - j))]
  BY <1>1, SpanIsSequence
<1>3. /\ short \in Seq(Works \cup {NoWork}) /\ Len(short) = n
      /\ \A j \in 1..n : short[j] = ws[Fold(Plus(b, n - j))]
  BY <1>1, SpanIsSequence
<1>4. Fold(Plus(b, n)) \in Slots /\ x \in Works \cup {NoWork}
  BY <1>1, PlusArithmetic
<1>5. n + 1 - 1 = n /\ \A j \in 1..n : n + 1 - (j + 1) = n - j /\ j + 1 \in 1..(n + 1)
  BY <1>1
<1>a. 1 \in 1..(n + 1) /\ x = ws[Fold(Plus(b, n))]
  BY <1>1
<1> HIDE DEF long, short, x
<1>6. long[1] = x /\ \A j \in 1..n : long[j + 1] = short[j]
  <2>1. long[1] = x
    BY <1>2, <1>5, <1>a
  <2>2. ASSUME NEW j \in 1..n PROVE long[j + 1] = short[j]
    BY <1>2, <1>3, <1>5
  <2> QED
    BY <2>1, <2>2
<1>7. <<x>> \o short \in Seq(Works \cup {NoWork}) /\ Len(<<x>> \o short) = n + 1
      /\ \A j \in 1..(n + 1) : (<<x>> \o short)[j] = IF j = 1 THEN x ELSE short[j - 1]
  BY <1>1, <1>3, <1>4
<1>8. \A j \in 1..(n + 1) : long[j] = (<<x>> \o short)[j]
  <2> TAKE j \in 1..(n + 1)
  <2>1. j # 1 => j - 1 \in 1..n /\ j - 1 + 1 = j
    BY <1>1
  <2> QED
    BY <1>6, <1>7, <2>1
<1>9. long = <<x>> \o short
  BY <1>1, <1>2, <1>7, <1>8, SeqEqual
<1>10. long # <<>> /\ Head(long) = x /\ Tail(long) = short
  BY <1>3, <1>4, <1>9
<1> QED
  BY <1>9, <1>10 DEF long, short, x

(* A push at the back *)
LEMMA SpanBack ==
  ASSUME NEW b \in Indices, NEW n \in 0..(kSize - 1), NEW ws \in [Slots -> Works \cup {NoWork}]
  PROVE  Span(Down(b), n + 1, ws) = Append(Span(b, n, ws), ws[Fold(Down(b))])
<1> DEFINE long == Span(Down(b), n + 1, ws)
           short == Span(b, n, ws)
           x == ws[Fold(Down(b))]
<1>1. kSize \in Nat /\ n \in Nat /\ n + 1 \in 0..kSize /\ n \in 0..kSize /\ Down(b) \in Indices
  BY Sizes, RingArithmetic
<1>2. /\ long \in Seq(Works \cup {NoWork}) /\ Len(long) = n + 1
      /\ \A j \in 1..(n + 1) : long[j] = ws[Fold(Plus(Down(b), n + 1 - j))]
  BY <1>1, SpanIsSequence
<1>3. /\ short \in Seq(Works \cup {NoWork}) /\ Len(short) = n
      /\ \A j \in 1..n : short[j] = ws[Fold(Plus(b, n - j))]
  BY <1>1, SpanIsSequence
<1>4. Fold(Down(b)) \in Slots /\ x \in Works \cup {NoWork}
  BY <1>1, RingArithmetic
<1>5. \A j \in 1..n : Plus(Down(b), n + 1 - j) = Plus(b, n - j)
  BY <1>1, Sizes DEF Plus, Down, Indices
<1>6. Plus(Down(b), n + 1 - (n + 1)) = Down(b)
  BY <1>1, Sizes DEF Plus, Indices
<1>7. long[n + 1] = x /\ \A j \in 1..n : long[j] = short[j]
  BY <1>1, <1>2, <1>3, <1>5, <1>6, SMTT(30)
<1> HIDE DEF long, short, x
<1>8. Append(short, x) \in Seq(Works \cup {NoWork}) /\ Len(Append(short, x)) = n + 1
      /\ \A j \in 1..(n + 1) : Append(short, x)[j] = IF j = n + 1 THEN x ELSE short[j]
  BY <1>1, <1>3, <1>4
<1>9. \A j \in 1..(n + 1) : long[j] = Append(short, x)[j]
  BY <1>1, <1>7, <1>8
<1>10. long = Append(short, x)
  BY <1>1, <1>2, <1>8, <1>9, SeqEqual
<1> QED
  BY <1>10 DEF long, short, x

(* The pop of k elements at the back, and which they are *)
Lasts(s, n, k) == {s[j] : j \in (n - k + 1)..n}
Items(b, k, ws) == {ws[Fold(Plus(b, j))] : j \in 0..(k - 1)}

(* A pop at the back: the last k items are those of the first k elements. *)
LEMMA SpanDrops ==
  ASSUME NEW b \in Indices, NEW n \in 0..kSize, NEW k \in 1..n,
         NEW ws \in [Slots -> Works \cup {NoWork}]
  PROVE  /\ Span(Plus(b, k), n - k, ws) = SubSeq(Span(b, n, ws), 1, n - k)
         /\ Lasts(Span(b, n, ws), n, k) = Items(b, k, ws)
<1> DEFINE long == Span(b, n, ws)
           short == Span(Plus(b, k), n - k, ws)
<1>1. kSize \in Nat /\ n \in Nat /\ k \in Nat /\ n - k \in 0..kSize /\ k \in 0..kSize
  BY Sizes
<1>2. Plus(b, k) \in Indices
  BY <1>1, PlusArithmetic
<1>3. /\ long \in Seq(Works \cup {NoWork}) /\ Len(long) = n
      /\ \A j \in 1..n : long[j] = ws[Fold(Plus(b, n - j))]
  BY SpanIsSequence
<1>4. /\ short \in Seq(Works \cup {NoWork}) /\ Len(short) = n - k
      /\ \A j \in 1..(n - k) : short[j] = ws[Fold(Plus(Plus(b, k), n - k - j))]
  BY <1>1, <1>2, SpanIsSequence
<1>5. \A j \in 1..(n - k) : Plus(Plus(b, k), n - k - j) = Plus(b, n - j) /\ j \in 1..n
  BY <1>1, Sizes DEF Plus, Indices
<1>6. \A j \in 1..(n - k) : short[j] = long[j]
  BY <1>3, <1>4, <1>5
<1> HIDE DEF long, short
<1>7. /\ SubSeq(long, 1, n - k) \in Seq(Works \cup {NoWork}) /\ Len(SubSeq(long, 1, n - k)) = n - k
      /\ \A j \in 1..(n - k) : SubSeq(long, 1, n - k)[j] = long[j]
  BY <1>1, <1>3
<1>8. short = SubSeq(long, 1, n - k)
  BY <1>1, <1>4, <1>6, <1>7, SeqEqual
<1>9. \A j \in (n - k + 1)..n : n - j \in 0..(k - 1) /\ long[j] = ws[Fold(Plus(b, n - j))]
  BY <1>1, <1>3
<1>10. \A j \in 0..(k - 1) : n - j \in (n - k + 1)..n /\ n - (n - j) = j
  BY <1>1
<1>11. {long[j] : j \in (n - k + 1)..n} = {ws[Fold(Plus(b, j))] : j \in 0..(k - 1)}
  <2>1. ASSUME NEW j \in (n - k + 1)..n PROVE long[j] \in {ws[Fold(Plus(b, i))] : i \in 0..(k - 1)}
    BY <1>9
  <2>2. ASSUME NEW j \in 0..(k - 1) PROVE ws[Fold(Plus(b, j))] \in {long[i] : i \in (n - k + 1)..n}
    BY <1>9, <1>10
  <2> QED
    BY <2>1, <2>2
<1> QED
  BY <1>8, <1>11 DEF long, short, Lasts, Items

(* A span sees only its own elements. *)
LEMMA SpanKeeps ==
  ASSUME NEW b \in Indices, NEW n \in 0..kSize, NEW ws, NEW vs,
         \A s \in Slots : Off(b, s) < n => ws[s] = vs[s]
  PROVE  Span(b, n, ws) = Span(b, n, vs)
<1>1. \A j \in 1..n : n - j \in 0..(kSize - 1) /\ n - j < n
  BY Sizes
<1>2. \A j \in 1..n : Fold(Plus(b, n - j)) \in Slots /\ Off(b, Fold(Plus(b, n - j))) = n - j
  BY <1>1, PlusArithmetic, Sizes
<1>3. \A j \in 1..n : ws[Fold(Plus(b, n - j))] = vs[Fold(Plus(b, n - j))]
  BY <1>1, <1>2
<1> QED
  BY <1>3 DEF Span

-----------------------------------------------------------------------------
(* Where the deque lies on the ring: what is claimed at either end, and    *)
(* the gap, are not part of it. *)
DequeFront(f, own) == IF own = {} THEN f ELSE Down(f)
Cut(thf, hi) == IF hi >= 0 THEN hi + 1 ELSE IF thf = {} THEN 0 ELSE 1
DequeBack(b, thf, hi) == Plus(b, Cut(thf, hi))

(* On a ring of the right shape, the deque has at most kSize elements, all  *)
(* of them ready; what the two ends hold is what it lacks of the arc.       *)
LEMMA DequeOnRing ==
  ASSUME NEW f, NEW b, NEW st, NEW own, NEW thf, NEW lo, NEW hi,
         Shape(f, b, st, own, thf, lo, hi)
  PROVE  /\ DequeFront(f, own) \in Indices /\ DequeBack(b, thf, hi) \in Indices
         /\ Cut(thf, hi) \in 0..kSize
         /\ Arc(DequeFront(f, own), DequeBack(b, thf, hi)) \in 0..kSize
         /\ Arc(f, b) = Arc(DequeFront(f, own), DequeBack(b, thf, hi))
                         + Cut(thf, hi) + (IF own = {} THEN 0 ELSE 1)
         /\ \A s \in Slots : Off(DequeBack(b, thf, hi), s) < Arc(DequeFront(f, own), DequeBack(b, thf, hi)) =>
              st[s] = "kReady" /\ Off(b, s) >= Cut(thf, hi)
<1> DEFINE k == Cut(thf, hi)
           one == IF own = {} THEN 0 ELSE 1
<1>1. /\ f \in Indices /\ b \in Indices /\ Arc(f, b) \in Nat /\ Arc(f, b) <= kSize
      /\ kSize \in Nat /\ lo \in Int /\ hi \in Int
      /\ \A s \in Slots : Off(b, s) \in 0..(kSize - 1)
  BY RingArithmetic, Sizes DEF Shape
<1>2. \A s \in thf : s \in Slots /\ Off(b, s) < Arc(f, b) /\ (Off(b, s) = IF lo = -1 THEN 0 ELSE lo) /\ lo = hi
  BY DEF Shape, Occupied
<1>3. \A s \in own : s \in Slots /\ Off(b, s) = Arc(f, b) - 1 /\ Occupied(f, b, lo, hi, s) /\ s \notin thf
  BY DEF Shape
<1>4. (lo = -1 /\ hi = -1) \/ (0 <= lo /\ lo <= hi /\ hi < Arc(f, b))
  BY DEF Shape
<1>5. k \in 0..kSize /\ k <= Arc(f, b)
  <2>1. CASE hi >= 0
    BY <2>1, <1>1, <1>4 DEF Cut
  <2>2. CASE hi < 0 /\ thf = {}
    BY <2>2, <1>1, <1>4 DEF Cut
  <2>3. CASE hi < 0 /\ thf # {}
    BY <2>3, <1>1, <1>2, <1>4 DEF Cut
  <2> QED
    BY <1>1, <2>1, <2>2, <2>3
<1>6. own # {} => k <= Arc(f, b) - 1
  <2> SUFFICES ASSUME NEW e \in own PROVE k <= Arc(f, b) - 1
    BY <1>1
  <2>1. \A s \in thf : Off(b, s) # Off(b, e)
    BY <1>1, <1>2, <1>3, RingArithmetic
  <2>2. CASE hi >= 0 /\ lo < hi
    BY <2>2, <1>1, <1>3, <1>4 DEF Cut, Occupied
  <2>3. CASE hi >= 0 /\ lo = hi
    <3>1. PICK s \in thf : TRUE
      BY <2>3, <1>1, <1>4 DEF Shape
    <3> QED
      BY <2>1, <2>3, <3>1, <1>1, <1>2, <1>3, <1>4 DEF Cut
  <2>4. CASE hi < 0 /\ thf = {}
    BY <2>4, <1>1, <1>3, <1>4 DEF Cut
  <2>5. CASE hi < 0 /\ thf # {}
    <3>1. PICK s \in thf : TRUE
      BY <2>5
    <3> QED
      BY <2>1, <2>5, <3>1, <1>1, <1>2, <1>3, <1>4 DEF Cut
  <2> QED
    BY <1>1, <1>4, <2>2, <2>3, <2>4, <2>5
<1>7. one \in {0, 1} /\ k <= Arc(f, b) - one
  BY <1>1, <1>5, <1>6
<1> DEFINE df == DequeFront(f, own)
<1>8. df \in Indices /\ Arc(df, b) = Arc(f, b) - one
  <2>1. own = {} => df = f /\ one = 0
    BY DEF DequeFront
  <2>2. own # {} => df = Down(f) /\ one = 1
    BY DEF DequeFront
  <2> QED
    BY <1>1, <1>5, <1>7, <2>1, <2>2, RingArithmetic, BackArithmetic
<1> HIDE DEF k, one, df
<1>9. Plus(b, k) \in Indices /\ Arc(df, Plus(b, k)) = Arc(df, b) - k
      /\ \A s \in Slots : Off(Plus(b, k), s) = IF Off(b, s) < k THEN Off(b, s) - k + kSize ELSE Off(b, s) - k
  BY <1>1, <1>5, <1>7, <1>8, PlusArithmetic
<1>10. Arc(df, Plus(b, k)) \in 0..kSize /\ Arc(f, b) = Arc(df, Plus(b, k)) + k + one
  BY <1>1, <1>5, <1>7, <1>8, <1>9
<1>11. ASSUME NEW s \in Slots, Off(Plus(b, k), s) < Arc(df, Plus(b, k))
       PROVE  st[s] = "kReady" /\ Off(b, s) >= k
  <2>1. Off(b, s) >= k /\ Off(b, s) < Arc(f, b) - one
    BY <1>1, <1>5, <1>7, <1>8, <1>9, <1>11
  <2>2. hi >= 0 => k = hi + 1
    BY DEF k, Cut
  <2>3. Occupied(f, b, lo, hi, s)
    BY <2>1, <2>2, <1>1, <1>4, <1>7 DEF Occupied
  <2>4. s \notin own
    <3>1. own # {} => one = 1
      BY DEF one
    <3> QED
      BY <2>1, <3>1, <1>1, <1>3
  <2>5. s \notin thf
    <3>1. thf # {} /\ hi < 0 => k = 1
      BY <1>1 DEF k, Cut
    <3> QED
      BY <2>1, <2>2, <3>1, <1>1, <1>2, <1>4
  <2>6. st[s] \in ElementStates /\ st[s] # "kEmpty" /\ st[s] # "kBusy"
    BY <2>3, <2>4, <2>5 DEF Shape
  <2> QED
    BY <2>1, <2>6 DEF ElementStates
<1> QED
  BY <1>5, <1>8, <1>9, <1>10, <1>11 DEF k, one, df, DequeBack

DF == FrontOfDeque % Lap
DB == BackOfDeque % Lap
DN == Arc(DF, DB)

(* The two ends of the deque are those of the ring, less what is claimed. *)
LEMMA DequeEnds ==
  ASSUME ControlOK
  PROVE  /\ FrontOfDeque \in Nat /\ BackOfDeque \in Nat
         /\ DF = DequeFront(FrontEnd, OwnerHolds)
         /\ DB = DequeBack(BackEnd, ThiefHolds, GapHigh)
<1>1. front \in Nat /\ back \in Nat /\ front < Modulus
  BY Sizes DEF ControlOK
<1>2. /\ front % Lap \in Indices /\ back % Lap \in Indices
      /\ Decremented(front) \in Nat /\ Decremented(front) % Lap = Down(front % Lap)
  <2>1. front % Lap \in Indices /\ back % Lap \in Indices
    BY <1>1, SlotIsFold
  <2>2. Decremented(front) \in 0..(Modulus - 1) /\ Decremented(front) % Lap = Down(front % Lap)
    BY <1>1, MovesByOne
  <2> QED
    BY <2>1, <2>2, Sizes
<1>3. FrontOfDeque \in Nat /\ DF = DequeFront(FrontEnd, OwnerHolds)
  <2>1. pc[Owner] \in OwnerLabels
    BY DEF ControlOK
  <2> QED
    BY <1>1, <1>2, <2>1, RingArithmetic
       DEF DF, FrontOfDeque, DequeFront, FrontEnd, OwnerHolds, OwnerLabels
<1>4. \A j \in 0..(kSize - 1) : (back + j) % Lap = Plus(back % Lap, j)
  BY <1>1, SlotIsFold
<1>5. kSize \in Nat /\ kSize >= 4
  BY Sizes
<1>6. Plus(back % Lap, 0) = back % Lap /\ (back + 1) % Lap = Plus(back % Lap, 1)
      /\ Plus(Down(back % Lap), 1) = back % Lap /\ Plus(back % Lap, 1) = Up(back % Lap)
      /\ \A x \in Indices : Plus(x, 0) = x
  BY <1>2, <1>4, <1>5, Sizes DEF Plus, Down, Up, Indices
<1>7. BackOfDeque \in Nat /\ DB = DequeBack(BackEnd, ThiefHolds, GapHigh)
  <2>1. CASE mutex = NoThread
    BY <2>1, <1>1, <1>6 DEF DB, BackOfDeque, DequeBack, Cut, BackEnd, ThiefHolds, GapHigh
  <2>2. CASE mutex # NoThread
    <3>1. mutex \in Thieves /\ pc[mutex] \in ThiefLabels /\ HalfLocals(mutex)
      BY <2>2 DEF ControlOK
    <3>2. reg[mutex].start \in 0..(kSize - 1) /\ reg[mutex].i \in -1..(kSize - 1) /\ reg[mutex].n \in 0..kSize
      BY <3>1 DEF ControlOK, Locals, Threads
    <3>3. CASE HalfClaimed(mutex)
      <4> DEFINE start == reg[mutex].start
      <4>1. start + 1 \in 0..(kSize - 1)
        BY <3>1, <3>2, <3>3, <1>5 DEF HalfLocals
      <4>2. BackOfDeque = back + (start + 1)
        BY <2>2, <3>2, <3>3, <1>1, <1>5 DEF BackOfDeque, HalfClaimed
      <4>3. BackOfDeque \in Nat /\ DB = Plus(back % Lap, start + 1)
        BY <4>1, <4>2, <1>1, <1>4, <1>5 DEF DB
      <4>4. CASE reg[mutex].i >= 0
        <5>1. GapHigh = start /\ BackEnd = back % Lap
          BY <2>2, <3>2, <3>3, <4>4, <1>5 DEF GapHigh, HighOf, Gap, BackEnd, BackEndOf, HalfClaimed
        <5> QED
          BY <3>2, <4>3, <5>1, <1>5 DEF DequeBack, Cut
      <4>5. CASE reg[mutex].i < 0
        <5>1. GapHigh = -1 /\ BackEnd = Plus(back % Lap, start + 1)
          BY <2>2, <3>2, <3>3, <4>5, <1>5 DEF GapHigh, HighOf, Gap, BackEnd, BackEndOf, HalfClaimed
        <5>2. ThiefHolds = {}
          BY <2>2, <3>1, <3>3, <4>5, <3>2, <1>5 DEF ThiefHolds, HoldsOf, HalfClaimed, HalfLocals
        <5>3. BackEnd \in Indices
          BY <4>1, <5>1, <1>2, <1>5, PlusArithmetic
        <5> QED
          BY <4>3, <5>1, <5>2, <5>3, <1>6 DEF DequeBack, Cut
      <4> QED
        BY <3>2, <4>4, <4>5
    <3>4. CASE ~HalfClaimed(mutex)
      <4>1. GapHigh = -1
        BY <2>2, <3>4 DEF GapHigh, HighOf, Gap
      <4>2. pc[mutex] \in {"Half.move", "Half.empty"} => FALSE
        BY <3>4 DEF HalfClaimed
      <4> DEFINE l == pc[mutex]
      <4>3. CASE l = "PushBack.back"
        <5>1. BackOfDeque = back
          BY <2>2, <3>4, <4>3 DEF BackOfDeque
        <5>2. BackEnd = Down(back % Lap) /\ ThiefHolds = {reg[mutex].e}
          BY <2>2, <3>4, <4>3 DEF BackEnd, BackEndOf, ThiefHolds, HoldsOf
        <5>3. Cut(ThiefHolds, GapHigh) = 1
          BY <4>1, <5>2 DEF Cut
        <5> QED
          BY <5>1, <5>2, <5>3, <1>1, <1>6 DEF DB, DequeBack
      <4>4. CASE l = "PopBack.back"
        <5>1. BackOfDeque = back + 1
          BY <2>2, <3>4, <4>4 DEF BackOfDeque
        <5>2. BackEnd = Up(back % Lap) /\ ThiefHolds = {}
          BY <2>2, <3>4, <4>4 DEF BackEnd, BackEndOf, ThiefHolds, HoldsOf
        <5>3. Cut(ThiefHolds, GapHigh) = 0 /\ Up(back % Lap) \in Indices
          BY <4>1, <5>2, <1>2, RingArithmetic DEF Cut
        <5> QED
          BY <5>1, <5>2, <5>3, <1>1, <1>6 DEF DB, DequeBack
      <4>5. CASE l \in {"PushBack.write", "PushBack.ready", "PopBack.take", "PopBack.empty"}
        <5>1. BackOfDeque = back + 1
          BY <2>2, <4>5 DEF BackOfDeque
        <5>2. BackEnd = back % Lap /\ ThiefHolds = {reg[mutex].e}
          BY <2>2, <3>4, <4>5 DEF BackEnd, BackEndOf, ThiefHolds, HoldsOf
        <5>3. Cut(ThiefHolds, GapHigh) = 1
          BY <4>1, <5>2 DEF Cut
        <5> QED
          BY <5>1, <5>2, <5>3, <1>1, <1>6 DEF DB, DequeBack
      <4>6. CASE l \notin {"PushBack.back", "PopBack.back", "PushBack.write", "PushBack.ready",
                           "PopBack.take", "PopBack.empty"}
        <5>1. BackOfDeque = back
          BY <2>2, <3>4, <4>6 DEF BackOfDeque
        <5>2. BackEnd = back % Lap /\ ThiefHolds = {}
          BY <2>2, <3>4, <4>2, <4>6 DEF BackEnd, BackEndOf, ThiefHolds, HoldsOf
        <5>3. Cut(ThiefHolds, GapHigh) = 0
          BY <4>1, <5>2 DEF Cut
        <5> QED
          BY <5>1, <5>2, <5>3, <1>1, <1>6 DEF DB, DequeBack
      <4> QED
        BY <4>3, <4>4, <4>5, <4>6
    <3> QED
      BY <3>3, <3>4
  <2> QED
    BY <2>1, <2>2
<1> QED
  BY <1>3, <1>7

DequeFacts ==
  /\ DF \in Indices /\ DB \in Indices /\ DN \in 0..kSize /\ BackEnd \in Indices
  /\ w \in [Slots -> Works \cup {NoWork}]
  /\ DequeContents = Span(DB, DN, w)
  /\ \A s \in Slots : Off(DB, s) < DN =>
       state[s] = "kReady" /\ Off(BackEnd, s) >= Cut(ThiefHolds, GapHigh)
  /\ DF = DequeFront(FrontEnd, OwnerHolds) /\ DB = Plus(BackEnd, Cut(ThiefHolds, GapHigh))
  /\ Arc(FrontEnd, BackEnd) = DN + Cut(ThiefHolds, GapHigh) + (IF OwnerHolds = {} THEN 0 ELSE 1)
  /\ Cut(ThiefHolds, GapHigh) \in 0..kSize

(* The contents of the deque are the items of an arc of ready elements that *)
(* neither a claim nor the gap reaches.                                     *)
LEMMA DequeView == ControlOK /\ RingOK => DequeFacts
<1> SUFFICES ASSUME ControlOK, RingOK PROVE DequeFacts
  OBVIOUS
<1>1. /\ DF \in Indices /\ DB \in Indices /\ DN \in 0..kSize
      /\ Cut(ThiefHolds, GapHigh) \in 0..kSize
      /\ \A s \in Slots : Off(DB, s) < DN => state[s] = "kReady" /\ Off(BackEnd, s) >= Cut(ThiefHolds, GapHigh)
      /\ Arc(FrontEnd, BackEnd) = DN + Cut(ThiefHolds, GapHigh) + (IF OwnerHolds = {} THEN 0 ELSE 1)
  BY DequeEnds, DequeOnRing DEF RingOK, DN
<1>2. FrontOfDeque \in Nat /\ BackOfDeque \in Nat
  BY DequeEnds
<1>3. Distance(FrontOfDeque, BackOfDeque) = DN
  <2>1. \A x, y \in Nat : (x + Lap - (y % Lap)) % Lap = Arc(x % Lap, y % Lap)
    BY SizeAssumption DEF Lap, Arc
  <2> QED
    BY <1>2, <2>1 DEF Distance, DN, DF, DB
<1>4. \A j \in 1..DN : Slot(FrontOfDeque + Lap - j) = Fold(Plus(DB, DN - j))
  <2>1. \A x \in Nat, j \in 1..kSize :
          (x + Lap - j) % Lap = (IF x % Lap >= j THEN (x % Lap) - j ELSE (x % Lap) - j + Lap)
    BY SizeAssumption DEF Lap
  <2>2. \A x \in Nat : Slot(x) = Fold(x % Lap)
    BY SlotIsFold
  <2> TAKE j \in 1..DN
  <2>3. j \in 1..kSize /\ FrontOfDeque + Lap - j \in Nat
    BY <1>1, <1>2, Sizes
  <2>4. (FrontOfDeque + Lap - j) % Lap = IF DF >= j THEN DF - j ELSE DF - j + Lap
    BY <2>1, <2>3, <1>2 DEF DF
  <2>5. (IF DF >= j THEN DF - j ELSE DF - j + Lap) = Plus(DB, DN - j)
    BY <1>1, <2>3, Sizes DEF DN, Arc, Plus, Indices
  <2> QED
    BY <2>2, <2>3, <2>4, <2>5
<1>5. DequeContents = Span(DB, DN, w)
  BY <1>3, <1>4 DEF DequeContents, Span
<1> QED
  BY <1>1, <1>5, DequeEnds DEF DequeFacts, ControlOK, RingOK, Shape, DequeBack

(* The same after a step *)
LEMMA DequeViewNext == ControlOK' /\ RingOK' => DequeFacts'
  BY DequeView, PTL

(* What an operation uses is not in the deque. *)
LEMMA UsesOffDeque ==
  ASSUME ControlOK, RingOK, NEW t \in Threads, NEW e \in Uses(t)
  PROVE  e \in Slots /\ ~(Off(DB, e) < DN)
<1>1. DequeFacts
  BY DequeView
<1>2. CASE t = Owner
  <2>1. e \in OwnerHolds
    BY <1>2, UsesOfOthers
  <2>2. e \in Slots /\ state[e] = "kBusy"
    BY <2>1 DEF RingOK, Shape
  <2> QED
    BY <1>1, <2>2 DEF DequeFacts
<1>3. CASE t \in Thieves
  <2>1. mutex = t
    BY <1>3, UsesOfOthers
  <2>2. e \in Slots
    BY <1>3, <2>1, UsesOfHolder
  <2>3. CASE HalfClaimed(t)
    <3>1. PICK j \in 0..reg[t].i : e = Slot(back + j)
      BY <2>3 DEF Uses
    <3>2. /\ reg[t].i \in 0..(kSize - 1) /\ j \in 0..(kSize - 1) /\ j <= reg[t].i
          /\ reg[t].start \in 0..(kSize - 1) /\ reg[t].i <= reg[t].start
      BY <1>3, <2>3, <3>1, ThiefFacts, Sizes DEF ControlOK, HalfLocals, Locals
    <3>3. BackEnd = back % Lap /\ GapHigh = reg[t].start
      BY <1>3, <2>1, <2>3, <3>2, HolderView DEF BackEndOf, HighOf, Gap, HalfClaimed
    <3>4. Off(BackEnd, e) = j
      <4>1. e = Fold(Plus(BackEnd, j)) /\ BackEnd \in Indices
        BY <1>1, <1>3, <3>1, <3>2, <3>3, ThiefFacts DEF DequeFacts
      <4>2. j \in 0..kSize /\ j < kSize
        BY <3>2, Sizes
      <4> QED
        BY <4>1, <4>2, PlusArithmetic
    <3>5. Cut(ThiefHolds, GapHigh) = reg[t].start + 1
      BY <3>2, <3>3 DEF Cut
    <3> QED
      BY <1>1, <2>2, <3>2, <3>4, <3>5, Sizes DEF DequeFacts
  <2>4. CASE ~HalfClaimed(t)
    <3>1. e \in HoldsOf(t)
      BY <1>3, <2>4 DEF Uses, HoldsOf, HalfClaimed, ControlOK, ThiefLabels
    <3>2. state[e] = "kBusy"
      BY <1>3, <2>1, <2>2, <3>1, HolderView DEF RingOK, Shape
    <3> QED
      BY <1>1, <2>2, <3>2 DEF DequeFacts
  <2> QED
    BY <2>3, <2>4
<1> QED
  BY <1>2, <1>3 DEF Threads

(* What an operation that pops has taken *)
Taken(t) == IF Popping(t) THEN (InFlight(t) \cup {w[e] : e \in Uses(t)}) \ {NoWork} ELSE {}

(* What was handed out is what was returned and what each pop has taken. *)
LEMMA HandedIs == HandedOut = delivered \cup UNION {Taken(t) : t \in Threads}
  BY DEF HandedOut, Taken

(* A step of thread t that writes only to the elements t uses *)
DequeStep(t) ==
  /\ ControlOK /\ RingOK /\ ControlOK' /\ RingOK' /\ ThreadStep(t)
  /\ \A e \in Slots \ Uses(t) : w'[e] = w[e]
  /\ back' = back \/ mutex = t

(* What the other threads have taken does not change. *)
LEMMA OthersKeepTaken ==
  ASSUME NEW t \in Threads, DequeStep(t), NEW u \in Threads \ {t}
  PROVE  Taken(u)' = Taken(u)
<1>1. pc'[u] = pc[u] /\ reg'[u] = reg[u]
  BY DEF DequeStep, ThreadStep
<1>2. HalfClaimed(u)' = HalfClaimed(u) /\ Popping(u)' = Popping(u) /\ InFlight(u)' = InFlight(u)
  BY <1>1 DEF HalfClaimed, Popping, InFlight
<1>3. Uses(u)' = Uses(u)
  <2>1. CASE HalfClaimed(u)
    <3>1. u \in Thieves /\ mutex = u
      BY <2>1 DEF HalfClaimed, DequeStep, ControlOK, Threads, OwnerLabels, LockedLabels
    <3>2. back' = back
      BY <3>1 DEF DequeStep
    <3> QED
      BY <1>1, <1>2, <3>2 DEF Uses
  <2>2. CASE ~HalfClaimed(u)
    BY <1>1, <1>2, <2>2 DEF Uses
  <2> QED
    BY <2>1, <2>2
<1>4. \A e \in Uses(u) : e \in Slots /\ e \notin Uses(t)
  BY ElementsApart, UsesOffDeque DEF DequeStep, NoRaceOnElements
<1>5. {w'[e] : e \in Uses(u)} = {w[e] : e \in Uses(u)}
  BY <1>4 DEF DequeStep
<1> QED
  BY <1>2, <1>3, <1>5 DEF Taken

Receives(t, X) == delivered' \cup Taken(t)' = (delivered \cup Taken(t)) \cup X

(* What thread t receives is what is handed out in addition. *)
LEMMA HandsMore ==
  ASSUME NEW t \in Threads, DequeStep(t), NEW X, Receives(t, X)
  PROVE  HandedOut' = HandedOut \cup X
<1>1. \A u \in Threads \ {t} : Taken(u)' = Taken(u)
  BY OthersKeepTaken
<1>2. HandedOut' = delivered' \cup UNION {Taken(u)' : u \in Threads}
  BY DEF HandedOut, Taken
<1> DEFINE rest == UNION {Taken(u) : u \in Threads \ {t}}
<1>3. UNION {Taken(u) : u \in Threads} = Taken(t) \cup rest
  OBVIOUS
<1>4. UNION {Taken(u)' : u \in Threads} = Taken(t)' \cup rest
  BY <1>1
<1> HIDE DEF rest
<1> QED
  BY <1>2, <1>3, <1>4, HandedIs DEF Receives

(* If it receives nothing, nothing more is handed out. *)
LEMMA HandsSame ==
  ASSUME NEW t \in Threads, DequeStep(t),
         delivered' \cup Taken(t)' = delivered \cup Taken(t)
  PROVE  HandedOut' = HandedOut
<1>1. Receives(t, {})
  BY DEF Receives
<1>2. HandedOut' = HandedOut \cup {}
  BY <1>1, HandsMore
<1> QED
  BY <1>2

(* A step that moves neither end leaves the contents. *)
LEMMA ContentsSame ==
  ASSUME NEW t \in Threads, DequeStep(t), DF' = DF, DB' = DB
  PROVE  DequeContents' = DequeContents
<1>1. DequeFacts /\ DequeFacts'
  BY DequeView, DequeViewNext DEF DequeStep
<1>2. DN' = DN
  BY DEF DN
<1>3. \A s \in Slots : Off(DB, s) < DN => w'[s] = w[s]
  BY UsesOffDeque DEF DequeStep
<1>4. Span(DB, DN, w') = Span(DB, DN, w)
  BY <1>1, <1>3, SpanKeeps DEF DequeFacts
<1>5. DequeContents' = Span(DB', DN', w')
  BY <1>1 DEF DequeFacts, Span
<1> QED
  BY <1>1, <1>2, <1>4, <1>5 DEF DequeFacts

-----------------------------------------------------------------------------
(* The five steps that change the deque, and the others *)

DequeStays == UNCHANGED <<DequeContents, HandedOut>>

(* It is a stuttering step of the deque if nothing is received either. *)
LEMMA Stutters ==
  ASSUME NEW t \in Threads, DequeStep(t), DF' = DF, DB' = DB,
         delivered' \cup Taken(t)' = delivered \cup Taken(t)
  PROVE  DequeStays
  BY HandsSame, ContentsSame DEF DequeStays

(* The contents before and after a step, as spans *)
LEMMA StepView ==
  ASSUME NEW t \in Threads, DequeStep(t)
  PROVE  /\ DB \in Indices /\ DN \in 0..kSize /\ DN \in Nat /\ kSize \in Nat
         /\ w \in [Slots -> Works \cup {NoWork}]
         /\ DequeContents = Span(DB, DN, w) /\ Len(DequeContents) = DN
         /\ DN' \in Nat /\ DN' <= kSize /\ DequeContents' = Span(DB', DN', w')
<1>1. DequeFacts /\ DequeFacts'
  BY DequeView, DequeViewNext DEF DequeStep
<1>2. /\ DB \in Indices /\ DN \in 0..kSize /\ w \in [Slots -> Works \cup {NoWork}]
      /\ DequeContents = Span(DB, DN, w)
  BY <1>1 DEF DequeFacts
<1>3. DN' \in 0..kSize /\ DequeContents' = Span(DB', DN', w')
  BY <1>1 DEF DequeFacts, Span
<1>4. Len(Span(DB, DN, w)) = DN
  BY <1>2, SpanIsSequence
<1> QED
  BY <1>2, <1>3, <1>4, Sizes

(* An item that is about to be offered is nowhere yet. *)
LEMMA OfferedIsNew ==
  ASSUME RunQueueInv, NEW t \in Threads, ~Popping(t), NEW e \in Uses(t), w[e] # NoWork
  PROVE  /\ w[e] \in Works /\ w[e] \notin HandedOut
         /\ \A j \in 1..Len(DequeContents) : DequeContents[j] # w[e]
<1>1. ControlOK /\ RingOK /\ Placed(fresh, delivered, w, Hands) /\ DequeFacts
  BY DequeView DEF RunQueueInv, ItemsOK
<1>2. e \in Slots /\ ~(Off(DB, e) < DN) /\ w[e] \in Works
  BY <1>1, UsesOffDeque DEF ControlOK
<1>3. w[e] \notin delivered
  BY <1>1, <1>2 DEF Placed
<1>4. ASSUME NEW u \in Threads PROVE w[e] \notin Taken(u)
  <2>1. CASE u = t
    BY <2>1 DEF Taken
  <2>2. CASE u # t
    <3>1. w[e] \notin InFlight(u)
      BY <1>1, <1>2 DEF Placed, Hands
    <3>2. \A s \in Uses(u) : s \in Slots /\ s # e
      BY <1>1, <2>2, ElementsApart, UsesOffDeque DEF NoRaceOnElements
    <3>3. \A s \in Uses(u) : w[s] # w[e]
      BY <1>1, <1>2, <3>2 DEF Placed
    <3> QED
      BY <3>1, <3>3 DEF Taken
  <2> QED
    BY <2>1, <2>2
<1>5. w[e] \notin HandedOut
  BY <1>3, <1>4, HandedIs
<1>6. ASSUME NEW j \in 1..Len(DequeContents) PROVE DequeContents[j] # w[e]
  <2> DEFINE s == Fold(Plus(DB, DN - j))
  <2>1. j \in 1..DN /\ DN - j \in 0..(kSize - 1) /\ s \in Slots /\ DequeContents[j] = w[s]
    BY <1>1, <1>6, SpanIsSequence DEF DequeFacts
  <2>2. Off(DB, s) < DN
    BY <1>1, <2>1, PlusArithmetic, Sizes DEF DequeFacts
  <2> QED
    BY <1>1, <1>2, <2>1, <2>2 DEF Placed
<1> QED
  BY <1>2, <1>5, <1>6

(* One more element at the front, and it is offered: PushFront *)
LEMMA FrontPush ==
  ASSUME NEW t \in Threads, DequeStep(t), RunQueueInv, ~Popping(t), ~Popping(t)',
         NEW e \in Uses(t), w' = w, w[e] # NoWork, delivered' = delivered,
         DB' = DB, DN' = DN + 1, e = Fold(Plus(DB, DN))
  PROVE  Deque!DequePushFront(w[e])
<1>1. /\ DB \in Indices /\ DN \in 0..kSize /\ DN \in Nat /\ kSize \in Nat
      /\ w \in [Slots -> Works \cup {NoWork}]
      /\ DequeContents = Span(DB, DN, w) /\ Len(DequeContents) = DN
      /\ DN' \in Nat /\ DN' <= kSize /\ DequeContents' = Span(DB', DN', w')
  BY StepView
<1>2. DN \in 0..(kSize - 1)
  BY <1>1
<1>3. DequeContents' = <<w[e]>> \o DequeContents
  BY <1>1, <1>2, SpanFront
<1>4. HandedOut' = HandedOut
  <2>1. delivered' \cup Taken(t)' = delivered \cup Taken(t)
    BY DEF Taken
  <2> QED
    BY <2>1, HandsSame
<1>5. /\ w[e] \notin HandedOut
      /\ \A j \in 1..Len(DequeContents) : DequeContents[j] # w[e]
  BY OfferedIsNew
<1>6. w[e] \notin HandedOut \cup Deque!Queued
  BY <1>5 DEF Deque!Queued
<1>7. Len(DequeContents) < kSize
  BY <1>1, <1>2
<1> QED
  BY <1>3, <1>4, <1>6, <1>7 DEF Deque!DequePushFront

(* One more element at the back, and it is offered: PushBack *)
LEMMA BackPush ==
  ASSUME NEW t \in Threads, DequeStep(t), RunQueueInv, ~Popping(t), Taken(t)' = {},
         NEW e \in Uses(t), w' = w, w[e] # NoWork, delivered' = delivered,
         DB' = Down(DB), DN' = DN + 1, e = Fold(Down(DB))
  PROVE  Deque!DequePushBack(w[e])
<1>1. /\ DB \in Indices /\ DN \in 0..kSize /\ DN \in Nat /\ kSize \in Nat
      /\ w \in [Slots -> Works \cup {NoWork}]
      /\ DequeContents = Span(DB, DN, w) /\ Len(DequeContents) = DN
      /\ DN' \in Nat /\ DN' <= kSize /\ DequeContents' = Span(DB', DN', w')
  BY StepView
<1>2. DN \in 0..(kSize - 1)
  BY <1>1
<1>3. DequeContents' = Append(DequeContents, w[e])
  BY <1>1, <1>2, SpanBack
<1>4. HandedOut' = HandedOut
  <2>1. delivered' \cup Taken(t)' = delivered \cup Taken(t)
    BY DEF Taken
  <2> QED
    BY <2>1, HandsSame
<1>5. /\ w[e] \notin HandedOut
      /\ \A j \in 1..Len(DequeContents) : DequeContents[j] # w[e]
  BY OfferedIsNew
<1>6. w[e] \notin HandedOut \cup Deque!Queued
  BY <1>5 DEF Deque!Queued
<1>7. Len(DequeContents) < kSize
  BY <1>1, <1>2
<1> QED
  BY <1>3, <1>4, <1>6, <1>7 DEF Deque!DequePushBack

(* One less at the front, and its item is received: PopFront *)
LEMMA FrontPop ==
  ASSUME NEW t \in Threads, DequeStep(t), w' = w, NEW e \in Slots, Receives(t, {w[e]}),
         NEW n \in Nat, DB' = DB, DN = n + 1, DN' = n, e = Fold(Plus(DB, n))
  PROVE  Deque!DequePopFront
<1>1. /\ DB \in Indices /\ n + 1 \in 0..kSize /\ kSize \in Nat
      /\ w \in [Slots -> Works \cup {NoWork}]
      /\ DequeContents = Span(DB, n + 1, w) /\ DequeContents' = Span(DB, n, w)
  BY StepView
<1>2. n \in 0..(kSize - 1)
  BY <1>1
<1>3. DequeContents # <<>> /\ Head(DequeContents) = w[e] /\ DequeContents' = Tail(DequeContents)
  BY <1>1, <1>2, SpanFront
<1>4. HandedOut' = HandedOut \cup {w[e]}
  BY HandsMore
<1> QED
  BY <1>3, <1>4 DEF Deque!DequePopFront

(* k less at the back, and their items are received: PopBack and PopBackHalf *)
LEMMA BackPop ==
  ASSUME NEW t \in Threads, DequeStep(t), w' = w, NEW k \in Nat \ {0},
         Receives(t, Items(DB, k, w)),
         NEW n \in Nat, DB' = Plus(DB, k), DN = n + k, DN' = n
  PROVE  Deque!DequePopBack(k)
<1> DEFINE m == n + k
<1>1. /\ DB \in Indices /\ m \in 0..kSize
      /\ w \in [Slots -> Works \cup {NoWork}]
      /\ DequeContents = Span(DB, m, w) /\ Len(DequeContents) = m
      /\ DequeContents' = Span(Plus(DB, k), n, w)
  BY StepView
<1>2. n = m - k /\ k \in 1..m
  OBVIOUS
<1> HIDE DEF m
<1>3. /\ DequeContents' = SubSeq(DequeContents, 1, m - k)
      /\ Lasts(DequeContents, m, k) = Items(DB, k, w)
  <2>1. /\ Span(Plus(DB, k), m - k, w) = SubSeq(Span(DB, m, w), 1, m - k)
        /\ Lasts(Span(DB, m, w), m, k) = Items(DB, k, w)
    BY <1>1, <1>2, SpanDrops
  <2>2. /\ DequeContents' = Span(Plus(DB, k), m - k, w) /\ DequeContents = Span(DB, m, w)
    BY <1>1, <1>2
  <2> QED
    BY <2>1, <2>2
<1>4. HandedOut' = HandedOut \cup Lasts(DequeContents, m, k)
  BY <1>3, HandsMore
<1> QED
  BY <1>1, <1>2, <1>3, <1>4 DEF Deque!DequePopBack, Lasts

-----------------------------------------------------------------------------
(* The owner *)

OwnerTaken ==
  IF pc[Owner] = "PopFront.take" THEN {w[reg[Owner].e]}
  ELSE IF pc[Owner] \in {"PopFront.empty", "PopFront.front"} THEN {reg[Owner].item}
  ELSE {}

OwnerTakesSo == Taken(Owner) = OwnerTaken

(* What the owner has taken, label by label *)
LEMMA OwnerTakes == RunQueueInv => OwnerTakesSo
<1> SUFFICES ASSUME RunQueueInv PROVE Taken(Owner) = OwnerTaken
  BY DEF OwnerTakesSo
<1>1. /\ Owner \in Threads /\ pc[Owner] \in OwnerLabels /\ reg[Owner].e \in Slots
      /\ LocalItemsOK(Owner) /\ ElementItemsOK /\ ControlOK /\ RingOK
  BY DEF RunQueueInv, ControlOK, ItemsOK, Threads, Locals
<1>2. ~HalfClaimed(Owner)
  BY <1>1 DEF HalfClaimed, OwnerLabels
<1>3. InFlight(Owner) = {reg[Owner].item} \ {NoWork}
  BY <1>1 DEF LocalItemsOK, InFlight, OwnerLabels
<1>4. CASE pc[Owner] = "PopFront.take"
  <2>1. Uses(Owner) = {reg[Owner].e}
    BY <1>2, <1>4 DEF Uses
  <2>2. state[reg[Owner].e] # "kEmpty" /\ \A u \in Threads \ {Owner} : reg[Owner].e \notin VacatedBy(u)
    BY <1>1, <2>1, ElementsApart, VacatedInUse DEF NoRaceOnElements
  <2>3. VacatedBy(Owner) = {}
    BY <1>4 DEF VacatedBy
  <2>4. w[reg[Owner].e] # NoWork
    BY <1>1, <2>2, <2>3 DEF ElementItemsOK
  <2>5. InFlight(Owner) = {}
    BY <1>1, <1>3, <1>4 DEF LocalItemsOK, HasItem
  <2> QED
    BY <1>4, <2>1, <2>4, <2>5 DEF Taken, OwnerTaken, Popping
<1>5. CASE pc[Owner] = "PopFront.empty"
  <2>1. Uses(Owner) = {reg[Owner].e} /\ VacatedBy(Owner) = {reg[Owner].e}
    BY <1>2, <1>5 DEF Uses, VacatedBy
  <2>2. w[reg[Owner].e] = NoWork
    BY <1>1, <2>1 DEF ElementItemsOK
  <2>3. reg[Owner].item \in Works
    BY <1>1, <1>5 DEF LocalItemsOK, HasItem
  <2> QED
    BY <1>3, <1>5, <2>1, <2>2, <2>3, WorkAssumption DEF Taken, OwnerTaken, Popping
<1>6. CASE pc[Owner] = "PopFront.front"
  <2>1. Uses(Owner) = {}
    BY <1>2, <1>6 DEF Uses
  <2>2. reg[Owner].item \in Works
    BY <1>1, <1>6 DEF LocalItemsOK, HasItem
  <2> QED
    BY <1>3, <1>6, <2>1, <2>2, WorkAssumption DEF Taken, OwnerTaken, Popping
<1>7. CASE pc[Owner] \notin {"PopFront.take", "PopFront.empty", "PopFront.front"}
  BY <1>1, <1>2, <1>7 DEF Taken, OwnerTaken, Popping, OwnerLabels
<1> QED
  BY <1>4, <1>5, <1>6, <1>7

(* The same after a step *)
LEMMA OwnerTakesNext == RunQueueInv' => OwnerTakesSo'
  BY OwnerTakes, PTL

(* From b, as far as from b to f, is f. *)
LEMMA PlusArc == ASSUME NEW f \in Indices, NEW b \in Indices PROVE Plus(b, Arc(f, b)) = f
  BY Sizes DEF Plus, Arc, Indices

(* Each step of the owner is a step of the deque or leaves it: the deque    *)
(* changes where PushFront publishes and where PopFront claims.             *)
LEMMA OwnerOnDeque ==
  ASSUME RunQueueInv, RunQueueInv', OwnerNext
  PROVE  Deque!DequeNext \/ DequeStays
<1> DEFINE t == Owner
           e == reg[Owner].e
           one == IF OwnerHolds = {} THEN 0 ELSE 1
<1>1. /\ ControlOK /\ RingOK /\ ControlOK' /\ RingOK' /\ ItemsOK
      /\ OwnerStep /\ ThreadStep(t) /\ back' = back /\ t \in Threads
  BY OwnerControl DEF RunQueueInv, OwnerStep, Threads
<1>2. /\ front \in Nat /\ w \in [Slots -> Works \cup {NoWork}] /\ e \in Slots
      /\ reg[t] \in Locals /\ reg \in [Threads -> Locals]
      /\ pc \in [Threads -> OwnerLabels \cup ThiefLabels]
  BY <1>1, Sizes DEF ControlOK, Locals
<1>3. DequeFacts /\ DequeFacts'
  BY <1>1, DequeView, DequeViewNext
<1>4. DB' = DB /\ BackEnd' = BackEnd /\ ThiefHolds' = ThiefHolds /\ GapHigh' = GapHigh
  BY <1>1, <1>3, OwnerLeavesBack DEF DequeFacts
<1>5. DB \in Indices /\ DF \in Indices /\ DF' \in Indices /\ DN \in Nat /\ DN' \in Nat
  BY <1>3, Sizes DEF DequeFacts
<1>6. Plus(DB, DN) = DF /\ Plus(DB, DN') = DF'
  BY <1>4, <1>5, PlusArc DEF DN
<1>7. Cut(ThiefHolds, GapHigh) \in Nat /\ Cut(ThiefHolds', GapHigh') = Cut(ThiefHolds, GapHigh)
  BY <1>3, <1>4, Sizes DEF DequeFacts
<1>8. Arc(FrontEnd, BackEnd) = DN + Cut(ThiefHolds, GapHigh) + one
      /\ Arc(FrontEnd', BackEnd) = DN' + Cut(ThiefHolds, GapHigh) + one'
  BY <1>3, <1>4, <1>7 DEF DequeFacts, Cut
<1>9. Taken(t) = OwnerTaken /\ Taken(t)' = OwnerTaken'
  BY OwnerTakes, OwnerTakesNext DEF OwnerTakesSo
<1>10. front % Lap \in Indices /\ Slot(front + Lap - 1) = Fold(Down(front % Lap))
       /\ Decremented(front) % Lap = Down(front % Lap)
       /\ Incremented(front) \in Nat /\ Incremented(front) % Lap = Up(front % Lap)
       /\ Decremented(Incremented(front)) % Lap = front % Lap
  BY <1>2, SlotIsFold, MovesByOne, RingArithmetic, Sizes
<1> HIDE DEF t, e, one
<1>11. ASSUME w' = w, PushFrontClaim \/ PushFrontAdvance \/ PopFrontRelease \/ PopFrontRetreat
       PROVE  DequeStays
  <2>1. DequeStep(t)
    BY <1>1, <1>11 DEF DequeStep
  <2>2. DF' = DF
    BY <1>1, <1>2, <1>10, <1>11
       DEF t, DF, FrontOfDeque, PushFrontClaim, PushFrontAdvance, PopFrontRelease, PopFrontRetreat, Go, Return
  <2>3. delivered' \cup OwnerTaken' = delivered \cup OwnerTaken
    BY <1>1, <1>2, <1>11
       DEF t, OwnerTaken, PushFrontClaim, PushFrontAdvance, PopFrontRelease, PopFrontRetreat, Go, Return
  <2> QED
    BY <1>1, <1>4, <1>9, <2>1, <2>2, <2>3, Stutters
<1>12. CASE PushFrontClaim \/ PushFrontAdvance \/ PopFrontRelease \/ PopFrontRetreat
  <2>1. w' = w
    BY <1>12 DEF PushFrontClaim, PushFrontAdvance, PopFrontRelease, PopFrontRetreat
  <2> QED
    BY <1>11, <1>12, <2>1
<1>13. CASE PushFrontWrite \/ PopFrontTake
  <2>1. e \in Uses(t) /\ \A s \in Slots \ {e} : w'[s] = w[s]
    BY <1>2, <1>13 DEF t, e, PushFrontWrite, PopFrontTake, Uses, HalfClaimed
  <2>2. DequeStep(t)
    BY <1>1, <2>1 DEF DequeStep
  <2>3. DF' = DF
    BY <1>1, <1>2, <1>13 DEF t, DF, FrontOfDeque, PushFrontWrite, PopFrontTake, Go
  <2>4. delivered' \cup OwnerTaken' = delivered \cup OwnerTaken
    BY <1>1, <1>2, <1>13 DEF t, e, OwnerTaken, PushFrontWrite, PopFrontTake, Go, Locals
  <2> QED
    BY <1>1, <1>4, <1>9, <2>2, <2>3, <2>4, Stutters
<1>14. CASE PushFrontPublish
  <2>1. /\ pc[t] = "PushFront.ready" /\ pc'[t] = "idle" /\ w' = w /\ delivered' = delivered
        /\ front' = front
    BY <1>1, <1>2, <1>14 DEF t, PushFrontPublish, Return
  <2>2. DequeStep(t) /\ ~Popping(t) /\ ~Popping(t)' /\ e \in Uses(t)
    BY <1>1, <2>1 DEF DequeStep, Popping, HalfClaimed, Uses, t, e
  <2>3. FrontEnd = front % Lap /\ FrontEnd' = front % Lap /\ OwnerHolds = {e} /\ OwnerHolds' = {}
    BY <2>1 DEF FrontEnd, OwnerHolds, t, e
  <2>4. DN' = DN + 1
    BY <1>5, <1>7, <1>8, <2>3 DEF one
  <2>5. e = Fold(DF)
    <3>1. DF = Down(front % Lap)
      BY <1>10, <2>1 DEF DF, FrontOfDeque, t
    <3>2. /\ Off(BackEnd, e) = Arc(front % Lap, BackEnd) - 1 /\ BackEnd \in Indices
          /\ Arc(front % Lap, BackEnd) <= kSize
      BY <1>1, <2>3 DEF RingOK, Shape
    <3>3. 0 < Arc(front % Lap, BackEnd)
      BY <1>5, <1>7, <1>8, <2>3 DEF one
    <3>4. Off(BackEnd, Fold(Down(front % Lap))) = Arc(front % Lap, BackEnd) - 1
          /\ Fold(Down(front % Lap)) \in Slots
      BY <1>10, <3>2, <3>3, RingArithmetic
    <3> QED
      BY <1>2, <1>10, <3>1, <3>2, <3>4, RingArithmetic DEF e
  <2>6. w[e] # NoWork
    <3>1. state[e] # "kEmpty" /\ \A u \in Threads \ {t} : e \notin VacatedBy(u)
      BY <1>1, <2>2, ElementsApart, VacatedInUse DEF NoRaceOnElements
    <3>2. e \notin VacatedBy(t)
      BY <2>1 DEF VacatedBy
    <3> QED
      BY <1>1, <1>2, <3>1, <3>2 DEF ItemsOK, ElementItemsOK, e
  <2>7. Deque!DequePushFront(w[e])
    BY <1>1, <1>4, <1>6, <2>1, <2>2, <2>4, <2>5, <2>6, FrontPush
  <2> QED
    BY <1>2, <2>6, <2>7 DEF Deque!DequeNext, e
<1>15. CASE PopFrontClaim
  <2> DEFINE c == Slot(front + Lap - 1)
  <2>1. /\ pc[t] = "idle" /\ pc'[t] = "PopFront.take" /\ w' = w /\ delivered' = delivered
        /\ front' = front /\ reg'[t].e = c
    BY <1>1, <1>2, <1>15 DEF t, PopFrontClaim, Go, Locals
  <2>2. DequeStep(t)
    BY <1>1, <2>1 DEF DequeStep
  <2>3. FrontEnd = front % Lap /\ FrontEnd' = front % Lap /\ OwnerHolds = {} /\ OwnerHolds' = {c}
    BY <2>1 DEF FrontEnd, OwnerHolds, t
  <2>a. PICK n \in Nat : DN' = n
    BY <1>5
  <2>4. DN = n + 1
    <3>1. DN + Cut(ThiefHolds, GapHigh) + 0 = n + Cut(ThiefHolds, GapHigh) + 1
      BY <1>8, <2>3, <2>a DEF one
    <3> QED
      BY <1>5, <1>7, <3>1
  <2>5. DF' = Down(front % Lap) /\ c = Fold(DF') /\ c \in Slots
    BY <1>10, <2>1, RingArithmetic DEF DF, FrontOfDeque, t
  <2>6. Receives(t, {w[c]})
    <3>1. OwnerTaken = {} /\ OwnerTaken' = {w[c]}
      BY <2>1 DEF OwnerTaken, t
    <3> QED
      BY <1>9, <2>1, <3>1 DEF Receives
  <2> HIDE DEF c
  <2>7. Deque!DequePopFront
    BY <1>1, <1>4, <1>6, <2>1, <2>2, <2>4, <2>5, <2>6, <2>a, FrontPop
  <2> QED
    BY <2>7 DEF Deque!DequeNext
<1> QED
  BY <1>12, <1>13, <1>14, <1>15 DEF OwnerNext

-----------------------------------------------------------------------------
(* The threads at the back *)

(* A PopBackHalf that has moved nothing yet holds nothing. *)
StartsEmpty ==
  \A t \in Thieves : pc[t] = "Half.element" /\ reg[t].n = 0 => reg[t].took = {}

(* That is invariant: HalfSize forgets what an earlier call collected. *)
LEMMA StartsEmptyNext == ControlOK /\ StartsEmpty /\ [Next]_vars => StartsEmpty'
<1> SUFFICES ASSUME ControlOK, StartsEmpty, [Next]_vars PROVE StartsEmpty'
  OBVIOUS
<1>1. CASE OwnerNext
  BY <1>1, OwnerControl, ThreadAssumption DEF OwnerStep, ThreadStep, StartsEmpty, Threads
<1>2. ASSUME NEW t \in Thieves, ThiefNext(t) PROVE StartsEmpty'
  <2>1. /\ ThreadStep(t) /\ t \in Threads /\ reg \in [Threads -> Locals]
        /\ pc \in [Threads -> OwnerLabels \cup ThiefLabels] /\ reg[t] \in Locals
    BY <1>2, ThiefControl DEF ThiefStep, ControlOK, Threads
  <2>2. \A u \in Thieves \ {t} : pc'[u] = pc[u] /\ reg'[u] = reg[u]
    BY <2>1 DEF ThreadStep, Threads
  <2>3. ASSUME pc'[t] = "Half.element", reg'[t].n = 0 PROVE reg'[t].took = {}
    <3>1. HalfSize(t) \/ HalfElement(t) \/ HalfRelease(t)
      BY <1>2, <2>1, <2>3
         DEF ThiefNext, PushBackLock, PushBackClaim, PushBackRetreat, PushBackWrite, PushBackPublish,
             SizeLoadFront, SizeLoadBack, SizeRetry, PopIfNotEmpty, PopTryLock, Callers,
             SizeFront, SizeBack, SizeCheck, TryLock,
             PopBackClaim, PopBackTake, PopBackRelease, PopBackAdvance, HalfMove, HalfAdvance,
             Unlock, Go, Return
    <3>2. CASE HalfSize(t)
      BY <3>2, <2>1 DEF HalfSize, NoLocals, Locals
    <3>3. CASE HalfElement(t)
      BY <3>3, <2>1, <2>3 DEF HalfElement, StartsEmpty, Go, Locals
    <3>4. CASE HalfRelease(t)
      <4>1. reg'[t].n = reg[t].n + 1 /\ reg[t].n \in Nat
        BY <3>4, <2>1, Sizes DEF HalfRelease, Locals
      <4> QED
        BY <4>1, <2>3
    <3> QED
      BY <3>1, <3>2, <3>3, <3>4
  <2> QED
    BY <2>2, <2>3 DEF StartsEmpty
<1>3. CASE UNCHANGED vars
  BY <1>3 DEF vars, StartsEmpty
<1> QED
  BY <1>1, <1>2, <1>3 DEF Next

Under(t) == {w[Slot(back + j)] : j \in 0..reg[t].i} \ {NoWork}

ThiefTaken(t) ==
  IF pc[t] = "PopBack.take" THEN {w[reg[t].e]}
  ELSE IF pc[t] \in {"PopBack.empty", "PopBack.back"} THEN {reg[t].item}
  ELSE IF pc[t] = "unlock" THEN ({reg[t].item} \cup reg[t].took) \ {NoWork}
  ELSE IF HalfClaimed(t) THEN reg[t].took \cup Under(t)
  ELSE {}

ThiefTakesSo == \A t \in Thieves : Taken(t) = ThiefTaken(t)

(* What a thief has taken, label by label *)
LEMMA ThiefTakes == RunQueueInv => ThiefTakesSo
<1> SUFFICES ASSUME RunQueueInv, NEW t \in Thieves PROVE Taken(t) = ThiefTaken(t)
  BY DEF ThiefTakesSo
<1>1. /\ t \in Threads /\ pc[t] \in ThiefLabels /\ reg[t] \in Locals /\ reg[t].e \in Slots
      /\ LocalItemsOK(t) /\ ElementItemsOK /\ ControlOK /\ RingOK
  BY DEF RunQueueInv, ControlOK, ItemsOK, Threads, Locals
<1>2. InFlight(t) = ({reg[t].item} \cup reg[t].took) \ {NoWork}
  BY DEF InFlight
<1>3. NoWork \notin reg[t].took
  BY <1>1 DEF LocalItemsOK
<1>4. CASE pc[t] = "PopBack.take"
  <2>1. Uses(t) = {reg[t].e} /\ Popping(t)
    BY <1>4 DEF Uses, HalfClaimed, Popping
  <2>2. state[reg[t].e] # "kEmpty" /\ \A u \in Threads \ {t} : reg[t].e \notin VacatedBy(u)
    BY <1>1, <2>1, ElementsApart, VacatedInUse DEF NoRaceOnElements
  <2>3. VacatedBy(t) = {}
    BY <1>4 DEF VacatedBy
  <2>4. w[reg[t].e] # NoWork
    BY <1>1, <2>2, <2>3 DEF ElementItemsOK
  <2>5. InFlight(t) = {}
    BY <1>1, <1>2, <1>4 DEF LocalItemsOK, HasItem
  <2> QED
    BY <1>4, <2>1, <2>4, <2>5 DEF Taken, ThiefTaken
<1>5. CASE pc[t] = "PopBack.empty"
  <2>1. Uses(t) = {reg[t].e} /\ VacatedBy(t) = {reg[t].e} /\ Popping(t)
    BY <1>5 DEF Uses, HalfClaimed, VacatedBy, Popping
  <2>2. w[reg[t].e] = NoWork
    BY <1>1, <2>1 DEF ElementItemsOK
  <2>3. reg[t].item \in Works /\ reg[t].took = {}
    BY <1>1, <1>5 DEF LocalItemsOK, HasItem
  <2> QED
    BY <1>2, <1>5, <2>1, <2>2, <2>3, WorkAssumption DEF Taken, ThiefTaken
<1>6. CASE pc[t] = "PopBack.back"
  <2>1. Uses(t) = {} /\ Popping(t)
    BY <1>6 DEF Uses, HalfClaimed, Popping
  <2>2. reg[t].item \in Works /\ reg[t].took = {}
    BY <1>1, <1>6 DEF LocalItemsOK, HasItem
  <2> QED
    BY <1>2, <1>6, <2>1, <2>2, WorkAssumption DEF Taken, ThiefTaken
<1>7. CASE pc[t] = "unlock"
  <2>1. Uses(t) = {} /\ Popping(t)
    BY <1>7 DEF Uses, HalfClaimed, Popping
  <2> QED
    BY <1>2, <1>7, <2>1 DEF Taken, ThiefTaken
<1>8. CASE HalfClaimed(t)
  <2>1. Uses(t) = {Slot(back + j) : j \in 0..reg[t].i} /\ Popping(t)
    BY <1>8 DEF Uses, Popping
  <2>2. {w[s] : s \in Uses(t)} \ {NoWork} = Under(t)
    BY <2>1 DEF Under
  <2>3. reg[t].item = NoWork
    BY <1>1, <1>8 DEF LocalItemsOK, HasItem, HalfClaimed
  <2>4. InFlight(t) = reg[t].took
    BY <1>2, <1>3, <2>3
  <2>5. ThiefTaken(t) = reg[t].took \cup Under(t)
    BY <1>8 DEF ThiefTaken, HalfClaimed
  <2>6. Taken(t) = (InFlight(t) \cup {w[s] : s \in Uses(t)}) \ {NoWork}
    BY <2>1 DEF Taken
  <2> QED
    BY <1>3, <2>2, <2>4, <2>5, <2>6
<1>9. CASE pc[t] \notin {"PopBack.take", "PopBack.empty", "PopBack.back", "unlock"} /\ ~HalfClaimed(t)
  BY <1>1, <1>9 DEF Taken, ThiefTaken, Popping, ThiefLabels
<1> QED
  BY <1>4, <1>5, <1>6, <1>7, <1>8, <1>9

(* The same after a step *)
LEMMA ThiefTakesNext == RunQueueInv' => ThiefTakesSo'
  BY ThiefTakes, PTL

(* The back of the deque as the thief with the lock sees it *)
BackAt(t) ==
  IF pc[t] \in {"PushBack.write", "PushBack.ready", "PopBack.take", "PopBack.empty", "PopBack.back"}
  THEN back + 1
  ELSE IF HalfClaimed(t) THEN back + reg[t].start + 1
  ELSE back

(* The deque ends where the holder of the lock sees it end; a thread        *)
(* without the lock does not move that.                                     *)
LEMMA BackSeen ==
  ASSUME ControlOK, NEW t \in Thieves, ThiefStep(t)
  PROVE  /\ mutex = t => BackOfDeque = BackAt(t)
         /\ mutex' = t => BackOfDeque' = BackAt(t)'
         /\ BackAt(t) = back /\ BackAt(t)' = back /\ back' = back => DB' = DB
         /\ DF' = DF
<1>1. NoThread # t /\ Owner # t /\ Owner \in Threads /\ t \in Threads
  BY ThreadAssumption DEF Threads
<1>2. mutex = t => BackOfDeque = BackAt(t)
  BY <1>1 DEF BackOfDeque, BackAt
<1>3. mutex' = t => BackOfDeque' = BackAt(t)'
  BY <1>1 DEF BackOfDeque, BackAt
<1>4. \A u \in Threads \ {t} : pc'[u] = pc[u] /\ reg'[u] = reg[u] /\ HalfClaimed(u)' = HalfClaimed(u)
  BY DEF ThiefStep, ThreadStep, HalfClaimed
<1>5. ASSUME BackAt(t) = back, BackAt(t)' = back, back' = back
      PROVE  DB' = DB
  <2>1. CASE mutex' = mutex /\ mutex = NoThread
    BY <2>1, <1>5 DEF DB, BackOfDeque
  <2>2. CASE mutex' = mutex /\ mutex = t
    BY <2>2, <1>2, <1>3, <1>5 DEF DB
  <2>3. CASE mutex' = mutex /\ mutex # t /\ mutex # NoThread
    <3>1. mutex \in Threads \ {t}
      BY <2>3 DEF ControlOK, Threads
    <3>2. BackOfDeque' = BackOfDeque
      BY <2>3, <3>1, <1>4, <1>5 DEF BackOfDeque
    <3> QED
      BY <3>2 DEF DB
  <2>4. CASE mutex = NoThread /\ mutex' = t
    BY <2>4, <1>3, <1>5 DEF DB, BackOfDeque
  <2>5. CASE mutex = t /\ mutex' = NoThread
    BY <2>5, <1>2, <1>5 DEF DB, BackOfDeque
  <2> QED
    BY <2>1, <2>2, <2>3, <2>4, <2>5 DEF ThiefStep
<1>6. DF' = DF
  BY <1>1, <1>4 DEF DF, FrontOfDeque, ThiefStep
<1> QED
  BY <1>2, <1>3, <1>5, <1>6

ThiefContext(t) ==
  /\ RunQueueInv /\ RunQueueInv' /\ StartsEmpty /\ t \in Thieves /\ ThiefStep(t)

(* What the lemmas below need of that context *)
LEMMA ContextFacts ==
  ASSUME NEW t, ThiefContext(t)
  PROVE  /\ ControlOK /\ RingOK /\ ControlOK' /\ RingOK' /\ ItemsOK /\ ThreadStep(t) /\ t \in Threads
         /\ LocalItemsOK(t) /\ ElementItemsOK /\ DequeFacts /\ DequeFacts'
         /\ Taken(t) = ThiefTaken(t) /\ Taken(t)' = ThiefTaken(t)' /\ DF' = DF
         /\ reg[t] \in Locals /\ reg \in [Threads -> Locals] /\ t \in Thieves
         /\ pc \in [Threads -> OwnerLabels \cup ThiefLabels]
         /\ w \in [Slots -> Works \cup {NoWork}]
         /\ (pc[t] \in LockedLabels <=> mutex = t) /\ (pc'[t] \in LockedLabels <=> mutex' = t)
<1>1. ControlOK /\ RingOK /\ ControlOK' /\ RingOK' /\ ItemsOK /\ ThreadStep(t) /\ t \in Threads /\ t \in Thieves
  BY DEF ThiefContext, RunQueueInv, ThiefStep, Threads
<1>2. Taken(t) = ThiefTaken(t) /\ Taken(t)' = ThiefTaken(t)'
  BY ThiefTakes, ThiefTakesNext DEF ThiefContext, ThiefTakesSo
<1>3. DequeFacts /\ DequeFacts'
  BY <1>1, DequeView, DequeViewNext
<1> QED
  BY <1>1, <1>2, <1>3, BackSeen DEF ThiefContext, ControlOK, ItemsOK

(* Steps that touch no element and do not move the back *)
LEMMA PlainStep ==
  ASSUME NEW t, ThiefContext(t), w' = w, back' = back, BackAt(t) = back, BackAt(t)' = back,
         delivered' \cup ThiefTaken(t)' = delivered \cup ThiefTaken(t)
  PROVE  DequeStays
<1>1. DequeStep(t)
  BY ContextFacts DEF DequeStep
<1>2. DB' = DB
  BY ContextFacts, BackSeen DEF ThiefContext
<1> QED
  BY <1>1, <1>2, ContextFacts, Stutters

(* Size(), Empty() and the try_lock leave the deque. *)
LEMMA SizeOnDeque ==
  ASSUME NEW t, ThiefContext(t), NEW caller \in Callers,
         \/ SizeLoadFront(t, caller) \/ SizeLoadBack(t, caller) \/ SizeRetry(t, caller)
         \/ PopIfNotEmpty(t, caller) \/ PopTryLock(t, caller)
  PROVE  DequeStays
<1>1. t \in Threads /\ pc \in [Threads -> OwnerLabels \cup ThiefLabels]
  BY ContextFacts
<1>2. w' = w /\ back' = back /\ delivered' = delivered
  BY DEF SizeLoadFront, SizeLoadBack, SizeRetry, PopIfNotEmpty, PopTryLock
<1>3. /\ pc[t] \notin {"PushBack.write", "PushBack.ready", "PopBack.take", "PopBack.empty", "PopBack.back",
                       "unlock", "Half.move", "Half.empty", "Half.element"}
      /\ pc'[t] \notin {"PushBack.write", "PushBack.ready", "PopBack.take", "PopBack.empty", "PopBack.back",
                        "unlock", "Half.move", "Half.empty", "Half.element"}
  BY <1>1 DEF Callers, SizeFront, SizeBack, SizeCheck, TryLock,
              SizeLoadFront, SizeLoadBack, SizeRetry, PopIfNotEmpty, SizeIs, PopTryLock, Go, Return
<1>4. BackAt(t) = back /\ BackAt(t)' = back /\ ThiefTaken(t) = {} /\ ThiefTaken(t)' = {}
  BY <1>2, <1>3 DEF BackAt, HalfClaimed, ThiefTaken
<1> QED
  BY <1>2, <1>4, PlainStep

(* So do taking and leaving the lock and the attempts that fail. *)
LEMMA PlainOnDeque ==
  ASSUME NEW t, ThiefContext(t),
         \/ PushBackLock(t) \/ PushBackClaim(t) \/ HalfSize(t) \/ Unlock(t)
         \/ PopBackClaim(t) /\ pc'[t] = "unlock"
         \/ HalfElement(t) /\ pc'[t] = "Half.element"
         \/ HalfAdvance(t) /\ reg[t].n = 0
  PROVE  DequeStays
<1>1. /\ t \in Threads /\ pc \in [Threads -> OwnerLabels \cup ThiefLabels] /\ t \in Thieves
      /\ reg[t] \in Locals /\ reg \in [Threads -> Locals] /\ LocalItemsOK(t) /\ StartsEmpty
  BY ContextFacts DEF ThiefContext
<1>2. NoLocals.n = 0
  BY DEF NoLocals
<1>3. CASE PushBackLock(t) \/ PushBackClaim(t) \/ Unlock(t) \/ (PopBackClaim(t) /\ pc'[t] = "unlock")
  <2>1. w' = w /\ back' = back /\ BackAt(t) = back /\ BackAt(t)' = back
    BY <1>1, <1>3 DEF BackAt, HalfClaimed, PushBackLock, PushBackClaim, Unlock, PopBackClaim, Go, Return
  <2>2. delivered' \cup ThiefTaken(t)' = delivered \cup ThiefTaken(t)
    <3>1. CASE PushBackLock(t)
      BY <3>1, <1>1 DEF ThiefTaken, HalfClaimed, PushBackLock, Go
    <3>2. CASE PushBackClaim(t)
      BY <3>2, <1>1 DEF ThiefTaken, HalfClaimed, PushBackClaim, Go, LocalItemsOK, Locals
    <3>3. CASE Unlock(t)
      BY <3>3, <1>1 DEF ThiefTaken, HalfClaimed, Unlock, Return
    <3>4. CASE PopBackClaim(t) /\ pc'[t] = "unlock"
      BY <3>4, <1>1 DEF ThiefTaken, HalfClaimed, PopBackClaim, Go, LocalItemsOK, HasItem
    <3> QED
      BY <1>3, <3>1, <3>2, <3>3, <3>4
  <2> QED
    BY <2>1, <2>2, PlainStep
<1>4. CASE HalfSize(t) \/ (HalfElement(t) /\ pc'[t] = "Half.element")
  <2>1. /\ w' = w /\ back' = back /\ delivered' = delivered /\ pc'[t] = "Half.element"
        /\ pc[t] \in {"Half.size.check", "Half.element"} /\ reg'[t].n = 0
        /\ pc[t] = "Half.element" => reg[t].n = 0
    BY <1>1, <1>2, <1>4 DEF HalfSize, HalfElement, SizeIs, SizeCheck, Go, NoLocals, Locals
  <2>2. BackAt(t) = back /\ BackAt(t)' = back /\ ThiefTaken(t) = {} /\ ThiefTaken(t)' = {}
    BY <2>1 DEF BackAt, ThiefTaken, HalfClaimed
  <2> QED
    BY <2>1, <2>2, PlainStep
<1>5. CASE HalfAdvance(t) /\ reg[t].n = 0
  <2>1. /\ w' = w /\ back' = back /\ delivered' = delivered /\ pc'[t] = "unlock"
        /\ pc[t] = "Half.element" /\ reg' = reg
    BY <1>1, <1>5 DEF HalfAdvance, Go
  <2>2. reg[t].took = {} /\ reg[t].item = NoWork
    BY <1>1, <1>5, <2>1 DEF StartsEmpty, LocalItemsOK, HasItem
  <2>3. BackAt(t) = back /\ BackAt(t)' = back /\ ThiefTaken(t) = {} /\ ThiefTaken(t)' = {}
    BY <1>5, <2>1, <2>2 DEF BackAt, ThiefTaken, HalfClaimed
  <2> QED
    BY <2>1, <2>3, PlainStep
<1> QED
  BY <1>3, <1>4, <1>5

(* The moves of back_, modulo Lap *)
LEMMA BackModulo ==
  ASSUME NEW x \in Nat
  PROVE  /\ (x + 1) % Lap = Up(x % Lap) /\ x % Lap \in Indices
         /\ (Decremented(x) + 1) % Lap = x % Lap
         /\ \A j \in 0..(kSize - 1) : Incremented(x + j) % Lap = (x + j + 1) % Lap
<1>1. \A y \in Nat : (y + 1) % Lap = Up(y % Lap)
  BY SizeAssumption DEF Lap, Up
<1>2. \A y \in Nat : Incremented(y) % Lap = (y + 1) % Lap
  BY <1>1, MovesByOne
<1>3. (Decremented(x) + 1) % Lap = x % Lap
  BY SizeAssumption DEF Lap, Decremented
<1>4. \A j \in 0..(kSize - 1) : x + j \in Nat
  BY Sizes
<1> QED
  BY <1>1, <1>2, <1>3, <1>4, SlotIsFold

(* Steps of the thief with the lock that leave the back of the deque *)
LEMMA HeldStep ==
  ASSUME NEW t, ThiefContext(t), mutex = t, mutex' = t,
         BackAt(t)' % Lap = BackAt(t) % Lap,
         \A e \in Slots \ Uses(t) : w'[e] = w[e],
         delivered' \cup ThiefTaken(t)' = delivered \cup ThiefTaken(t)
  PROVE  DequeStays
<1>1. DequeStep(t)
  BY ContextFacts DEF DequeStep
<1>2. DB' = DB
  BY ContextFacts, BackSeen DEF ThiefContext, DB
<1> QED
  BY <1>1, <1>2, ContextFacts, Stutters

(* Who is under the lock before and after a step had it throughout. *)
LEMMA HeldByLabel ==
  ASSUME NEW t, ThiefContext(t), pc[t] \in LockedLabels, pc'[t] \in LockedLabels
  PROVE  mutex = t /\ mutex' = t
  BY ContextFacts

(* A PushBack shows nothing before its element is ready. *)
LEMMA PushBackMoves ==
  ASSUME NEW t, ThiefContext(t), PushBackRetreat(t) \/ PushBackWrite(t)
  PROVE  DequeStays
<1>1. /\ t \in Threads /\ pc \in [Threads -> OwnerLabels \cup ThiefLabels] /\ t \in Thieves
      /\ reg[t] \in Locals /\ reg \in [Threads -> Locals] /\ w \in [Slots -> Works \cup {NoWork}]
      /\ back \in Nat /\ reg[t].e \in Slots
  BY ContextFacts, Sizes DEF ControlOK, Locals
<1>2. mutex = t /\ mutex' = t
  BY <1>1, HeldByLabel DEF PushBackRetreat, PushBackWrite, Go, LockedLabels
<1>3. CASE PushBackRetreat(t)
  <2>1. BackAt(t) = back /\ BackAt(t)' = Decremented(back) + 1 /\ w' = w /\ delivered' = delivered
        /\ ThiefTaken(t) = {} /\ ThiefTaken(t)' = {}
    BY <1>1, <1>3 DEF PushBackRetreat, BackAt, ThiefTaken, HalfClaimed, Go
  <2> QED
    BY <1>1, <1>2, <2>1, BackModulo, HeldStep
<1>4. CASE PushBackWrite(t)
  <2>1. BackAt(t)' = BackAt(t) /\ delivered' = delivered /\ ThiefTaken(t) = {} /\ ThiefTaken(t)' = {}
    BY <1>1, <1>4 DEF PushBackWrite, BackAt, ThiefTaken, HalfClaimed, Go
  <2>2. \A e \in Slots \ Uses(t) : w'[e] = w[e]
    BY <1>1, <1>4 DEF PushBackWrite, Uses, HalfClaimed
  <2> QED
    BY <1>2, <2>1, <2>2, HeldStep
<1> QED
  BY <1>3, <1>4

(* After its claim, a PopBack shows nothing. *)
LEMMA PopBackMoves ==
  ASSUME NEW t, ThiefContext(t), PopBackTake(t) \/ PopBackRelease(t) \/ PopBackAdvance(t)
  PROVE  DequeStays
<1>1. /\ t \in Threads /\ pc \in [Threads -> OwnerLabels \cup ThiefLabels] /\ t \in Thieves
      /\ reg[t] \in Locals /\ reg \in [Threads -> Locals] /\ w \in [Slots -> Works \cup {NoWork}]
      /\ back \in Nat /\ reg[t].e \in Slots /\ LocalItemsOK(t)
  BY ContextFacts, Sizes DEF ControlOK, Locals
<1>2. mutex = t /\ mutex' = t
  BY <1>1, HeldByLabel DEF PopBackTake, PopBackRelease, PopBackAdvance, Go, LockedLabels
<1>3. CASE PopBackTake(t)
  <2>1. BackAt(t)' = BackAt(t) /\ delivered' = delivered
    BY <1>1, <1>3 DEF PopBackTake, BackAt, HalfClaimed, Go
  <2>2. ThiefTaken(t) = {w[reg[t].e]} /\ ThiefTaken(t)' = {w[reg[t].e]}
    BY <1>1, <1>3 DEF PopBackTake, ThiefTaken, Go, Locals
  <2>3. \A e \in Slots \ Uses(t) : w'[e] = w[e]
    BY <1>1, <1>3 DEF PopBackTake, Uses, HalfClaimed
  <2> QED
    BY <1>2, <2>1, <2>2, <2>3, HeldStep
<1>4. CASE PopBackRelease(t)
  <2>1. BackAt(t)' = BackAt(t) /\ delivered' = delivered /\ w' = w /\ ThiefTaken(t)' = ThiefTaken(t)
    BY <1>1, <1>4 DEF PopBackRelease, BackAt, ThiefTaken, Go
  <2> QED
    BY <1>2, <2>1, HeldStep
<1>5. CASE PopBackAdvance(t)
  <2>1. BackAt(t) = back + 1 /\ BackAt(t)' = Incremented(back) /\ delivered' = delivered /\ w' = w
    BY <1>1, <1>5 DEF PopBackAdvance, BackAt, HalfClaimed, Go
  <2>2. Incremented(back) % Lap = (back + 1) % Lap
    BY <1>1, BackModulo, MovesByOne
  <2>3. ThiefTaken(t)' = ThiefTaken(t)
    BY <1>1, <1>5, WorkAssumption DEF PopBackAdvance, ThiefTaken, Go, LocalItemsOK, HasItem
  <2> QED
    BY <1>2, <2>1, <2>2, <2>3, HeldStep
<1> QED
  BY <1>3, <1>4, <1>5

(* Nor does a PopBackHalf after its first claim: what it has not moved yet  *)
(* counts as taken, and moving it changes nothing.                          *)
LEMMA HalfMoves ==
  ASSUME NEW t, ThiefContext(t), reg[t].n > 0 \/ ~HalfElement(t), reg[t].n # 0 \/ ~HalfAdvance(t),
         HalfElement(t) \/ HalfMove(t) \/ HalfRelease(t) \/ HalfAdvance(t)
  PROVE  DequeStays
<1> DEFINE e == reg[t].e
           i == reg[t].i
           n == reg[t].n
           start == reg[t].start
<1>1. /\ t \in Threads /\ pc \in [Threads -> OwnerLabels \cup ThiefLabels] /\ t \in Thieves
      /\ reg[t] \in Locals /\ reg \in [Threads -> Locals] /\ w \in [Slots -> Works \cup {NoWork}]
      /\ back \in Nat /\ e \in Slots /\ i \in -1..(kSize - 1) /\ n \in Nat /\ start \in 0..(kSize - 1)
      /\ LocalItemsOK(t) /\ ControlOK /\ RingOK /\ ElementItemsOK
  BY ContextFacts, Sizes DEF ControlOK, Locals
<1>2. mutex = t /\ mutex' = t
  BY <1>1, HeldByLabel DEF HalfElement, HalfMove, HalfRelease, HalfAdvance, Go, LockedLabels
<1>3. HalfClaimed(t)
  BY <1>1 DEF HalfClaimed, HalfElement, HalfMove, HalfRelease, HalfAdvance
<1>4. BackAt(t) = back + start + 1 /\ ThiefTaken(t) = reg[t].took \cup Under(t)
  BY <1>3 DEF BackAt, ThiefTaken, HalfClaimed
<1>5. CASE HalfElement(t)
  <2>1. /\ reg'[t].start = start /\ reg'[t].i = i /\ reg'[t].took = reg[t].took
        /\ w' = w /\ back' = back /\ delivered' = delivered /\ pc'[t] = "Half.move"
    BY <1>1, <1>5 DEF HalfElement, Go, Locals
  <2>2. BackAt(t)' = back + start + 1 /\ ThiefTaken(t)' = ThiefTaken(t)
    BY <1>4, <2>1 DEF BackAt, ThiefTaken, HalfClaimed, Under
  <2> QED
    BY <1>2, <1>4, <2>1, <2>2, HeldStep
<1>6. ASSUME pc[t] \in {"Half.move", "Half.empty"}
      PROVE  i \in 0..(kSize - 1) /\ i \in 0..i /\ e = Slot(back + i)
             /\ \A j \in 0..i : Slot(back + j) \in Slots
  <2>1. i \in 0..(kSize - 1) /\ i \in 0..i
    BY <1>1, <1>6, Sizes DEF ControlOK, HalfLocals
  <2>2. e = Slot(back + i)
    BY <1>1, <1>6, <2>1, ThiefFacts DEF RingOK
  <2>3. \A j \in 0..i : back + j \in Nat
    BY <1>1, <2>1
  <2> QED
    BY <2>1, <2>2, <2>3, SlotType
<1>7. CASE HalfMove(t)
  <2>1. /\ reg'[t].start = start /\ reg'[t].i = i /\ reg'[t].took = reg[t].took \cup {w[e]}
        /\ w' = [w EXCEPT ![e] = NoWork] /\ back' = back /\ delivered' = delivered
        /\ pc[t] = "Half.move" /\ pc'[t] = "Half.empty"
    BY <1>1, <1>7 DEF HalfMove, Go, Locals
  <2>2. e = Slot(back + i) /\ i \in 0..i /\ \A j \in 0..i : Slot(back + j) \in Slots
    BY <1>6, <2>1
  <2>3. e \in Uses(t)
    BY <1>3, <2>2 DEF Uses
  <2>4. w[e] # NoWork
    <3>1. state[e] # "kEmpty" /\ \A u \in Threads \ {t} : e \notin VacatedBy(u)
      BY <1>1, <2>3, ElementsApart, VacatedInUse DEF NoRaceOnElements
    <3>2. e \notin VacatedBy(t)
      BY <2>1 DEF VacatedBy
    <3> QED
      BY <1>1, <3>1, <3>2 DEF ElementItemsOK
  <2>5. BackAt(t)' = back + start + 1 /\ ThiefTaken(t)' = reg[t].took \cup {w[e]} \cup Under(t)'
    BY <2>1 DEF BackAt, ThiefTaken, HalfClaimed
  <2>6. Under(t)' = {w'[Slot(back + j)] : j \in 0..i} \ {NoWork}
    BY <2>1 DEF Under
  <2>7. w[e] \in Under(t)
    BY <2>2, <2>4 DEF Under
  <2>8. Under(t)' \subseteq Under(t)
    BY <1>1, <2>1, <2>2, <2>6 DEF Under
  <2>9. ASSUME NEW x \in Under(t) PROVE x \in Under(t)' \cup {w[e]}
    BY <1>1, <2>1, <2>2, <2>6, <2>9 DEF Under
  <2>10. ThiefTaken(t)' = ThiefTaken(t)
    BY <1>4, <2>5, <2>7, <2>8, <2>9
  <2>11. \A s \in Slots \ Uses(t) : w'[s] = w[s]
    BY <1>1, <2>1, <2>3
  <2> QED
    BY <1>2, <1>4, <2>1, <2>5, <2>10, <2>11, HeldStep
<1>8. CASE HalfRelease(t)
  <2>1. /\ reg'[t].start = start /\ reg'[t].i = i - 1 /\ reg'[t].took = reg[t].took
        /\ reg'[t].n = n + 1
        /\ w' = w /\ back' = back /\ delivered' = delivered
        /\ pc[t] = "Half.empty" /\ pc'[t] = "Half.element"
    BY <1>1, <1>8 DEF HalfRelease, Go, Locals
  <2>2. e = Slot(back + i) /\ i \in 0..i /\ i \in Int
    BY <1>1, <1>6, <2>1
  <2>3. HalfClaimed(t)'
    BY <1>1, <2>1 DEF HalfClaimed
  <2>4. BackAt(t)' = back + start + 1 /\ ThiefTaken(t)' = reg[t].took \cup Under(t)'
    BY <2>1, <2>3 DEF BackAt, ThiefTaken
  <2>5. w[e] = NoWork
    BY <1>1, <2>1 DEF ElementItemsOK, VacatedBy
  <2>6. Under(t)' = {w[Slot(back + j)] : j \in 0..(i - 1)} \ {NoWork}
    BY <2>1 DEF Under
  <2>7. \A j \in 0..i : j = i \/ j \in 0..(i - 1)
    BY <2>2
  <2>8. \A j \in 0..(i - 1) : j \in 0..i
    BY <2>2
  <2>9. Under(t)' = Under(t)
    BY <2>2, <2>5, <2>6, <2>7, <2>8 DEF Under
  <2> QED
    BY <1>2, <1>4, <2>1, <2>4, <2>9, HeldStep
<1>9. CASE HalfAdvance(t)
  <2>1. /\ back' = Incremented(back + start) /\ w' = w /\ delivered' = delivered /\ reg' = reg
        /\ pc[t] = "Half.element" /\ pc'[t] = "unlock" /\ i < 0
    BY <1>1, <1>9 DEF HalfAdvance, Go
  <2>2. BackAt(t)' = Incremented(back + start)
    BY <2>1 DEF BackAt, HalfClaimed
  <2>3. Incremented(back + start) % Lap = (back + start + 1) % Lap
    BY <1>1, BackModulo
  <2>4. Under(t) = {}
    BY <1>1, <2>1 DEF Under
  <2>5. ThiefTaken(t)' = ({reg[t].item} \cup reg[t].took) \ {NoWork}
    BY <2>1 DEF ThiefTaken
  <2>6. reg[t].item = NoWork /\ NoWork \notin reg[t].took
    BY <1>1, <2>1 DEF LocalItemsOK, HasItem
  <2> QED
    BY <1>2, <1>4, <2>1, <2>2, <2>3, <2>4, <2>5, <2>6, HeldStep
<1> QED
  BY <1>5, <1>7, <1>8, <1>9

(* The number of elements on either side of a step at the back *)
LEMMA BackCount ==
  ASSUME NEW t, ThiefContext(t), BackEnd' = BackEnd, NEW k \in Nat, NEW l \in Nat,
         Cut(ThiefHolds, GapHigh) = k, Cut(ThiefHolds, GapHigh)' = l
  PROVE  \E m, n \in Nat : DN = m /\ DN' = n /\ m + k = n + l
<1>1. DequeFacts /\ DequeFacts' /\ FrontEnd' = FrontEnd /\ OwnerHolds' = OwnerHolds
  BY ContextFacts, ThiefLeavesFront DEF ThiefContext
<1>2. DN \in Nat /\ DN' \in Nat
  BY <1>1, Sizes DEF DequeFacts
<1>3. PICK m \in Nat : DN = m
  BY <1>2
<1>4. PICK n \in Nat : DN' = n
  BY <1>2
<1>5. PICK one \in Nat : one = IF OwnerHolds = {} THEN 0 ELSE 1
  OBVIOUS
<1>6. PICK arc : arc = Arc(FrontEnd, BackEnd)
  OBVIOUS
<1>7. arc = m + k + one
  BY <1>1, <1>3, <1>5, <1>6 DEF DequeFacts
<1>8. arc = n + l + one
  BY <1>1, <1>4, <1>5, <1>6 DEF DequeFacts
<1>9. m + k = n + l
  BY <1>7, <1>8
<1> QED
  BY <1>3, <1>4, <1>9

(* The publishing step of PushBack is a PushBack of the deque. *)
LEMMA PublishOnDeque ==
  ASSUME NEW t, ThiefContext(t), PushBackPublish(t)
  PROVE  Deque!DequeNext
<1> DEFINE e == reg[t].e
<1>1. /\ t \in Threads /\ pc \in [Threads -> OwnerLabels \cup ThiefLabels] /\ t \in Thieves
      /\ reg \in [Threads -> Locals] /\ w \in [Slots -> Works \cup {NoWork}]
      /\ back \in Nat /\ back % Lap \in Indices /\ e \in Slots /\ LocalItemsOK(t)
      /\ ControlOK /\ RingOK /\ ElementItemsOK /\ RunQueueInv
  BY ContextFacts, ThiefFacts, Sizes DEF Locals, ThiefContext
<1>2. /\ pc[t] = "PushBack.ready" /\ pc'[t] = "unlock" /\ w' = w /\ delivered' = delivered
      /\ back' = back /\ reg' = reg
  BY <1>1 DEF PushBackPublish, Go
<1>3. mutex = t /\ mutex' = t
  BY <1>1, <1>2, HeldByLabel DEF LockedLabels
<1>4. DequeStep(t) /\ ~Popping(t) /\ e \in Uses(t)
  BY <1>2, ContextFacts DEF DequeStep, Popping, HalfClaimed, Uses
<1>5. /\ BackEnd = back % Lap /\ ThiefHolds = {e} /\ GapHigh = -1 /\ GapLow = -1
      /\ BackEnd' = back % Lap /\ ThiefHolds' = {} /\ GapHigh' = -1
  BY <1>1, <1>2, <1>3, HolderView, HolderViewNext
     DEF BackEndOf, HoldsOf, LowOf, HighOf, Gap, HalfClaimed
<1>6. Cut(ThiefHolds, GapHigh) = 1 /\ Cut(ThiefHolds, GapHigh)' = 0
  BY <1>5 DEF Cut
<1>7. DN' = DN + 1
  <2>1. PICK m, n \in Nat : DN = m /\ DN' = n /\ m + 1 = n + 0
    BY <1>5, <1>6, BackCount
  <2>2. n = m + 1
    BY <2>1
  <2> QED
    BY <2>1, <2>2
<1>8. DB' = back % Lap /\ DB = Up(back % Lap)
  <2>1. BackOfDeque = back + 1 /\ BackOfDeque' = back
    BY <1>1, <1>2, <1>3, BackSeen DEF BackAt, HalfClaimed, ThiefContext
  <2> QED
    BY <1>1, <2>1, BackModulo DEF DB
<1>9. Down(DB) = back % Lap
  BY <1>1, <1>8, RingArithmetic
<1>10. e = Fold(back % Lap)
  <2>1. Off(back % Lap, e) = 0
    BY <1>1, <1>5 DEF RingOK, Shape
  <2> QED
    BY <1>1, <2>1, Sizes DEF Off, Fold, Slots, Indices
<1>11. Taken(t)' = {}
  <2>1. reg[t].item = NoWork /\ reg[t].took = {}
    BY <1>1, <1>2 DEF LocalItemsOK, HasItem
  <2>2. ThiefTaken(t)' = {}
    BY <1>2, <2>1 DEF ThiefTaken
  <2> QED
    BY <2>2, ContextFacts
<1>12. w[e] # NoWork
  <2>1. state[e] # "kEmpty" /\ \A u \in Threads \ {t} : e \notin VacatedBy(u)
    BY <1>1, <1>4, ElementsApart, VacatedInUse DEF NoRaceOnElements
  <2>2. e \notin VacatedBy(t)
    BY <1>2 DEF VacatedBy
  <2> QED
    BY <1>1, <2>1, <2>2 DEF ElementItemsOK
<1> HIDE DEF e
<1>13. Deque!DequePushBack(w[e])
  BY <1>1, <1>2, <1>4, <1>7, <1>8, <1>9, <1>10, <1>11, <1>12, BackPush
<1> QED
  BY <1>1, <1>12, <1>13 DEF Deque!DequeNext

(* The compare-and-swap of PopBack takes one item off the deque. *)
LEMMA ClaimOnDeque ==
  ASSUME NEW t, ThiefContext(t), PopBackClaim(t), pc'[t] = "PopBack.take"
  PROVE  Deque!DequeNext
<1> DEFINE e == Slot(back)
<1>1. /\ t \in Threads /\ pc \in [Threads -> OwnerLabels \cup ThiefLabels] /\ t \in Thieves
      /\ reg \in [Threads -> Locals] /\ reg[t] \in Locals
      /\ back \in Nat /\ back % Lap \in Indices /\ e \in Slots /\ e = Fold(back % Lap)
      /\ ControlOK
  BY ContextFacts, ThiefFacts, SlotType
<1>2. /\ pc[t] = "PopBack.claim" /\ w' = w /\ delivered' = delivered
      /\ back' = back /\ reg'[t].e = e
  BY <1>1 DEF PopBackClaim, Go, Locals
<1>3. mutex = t /\ mutex' = t
  BY <1>1, <1>2, HeldByLabel DEF LockedLabels
<1>4. DequeStep(t)
  BY <1>2, ContextFacts DEF DequeStep
<1> HIDE DEF e
<1>5. /\ BackEnd = back % Lap /\ ThiefHolds = {} /\ GapHigh = -1
      /\ BackEnd' = back % Lap /\ ThiefHolds' = {e} /\ GapHigh' = -1
  BY <1>1, <1>2, <1>3, HolderView, HolderViewNext
     DEF BackEndOf, HoldsOf, HighOf, Gap, HalfClaimed
<1>6. Cut(ThiefHolds, GapHigh) = 0 /\ Cut(ThiefHolds, GapHigh)' = 1
  BY <1>5 DEF Cut
<1>7. PICK n \in Nat : DN' = n /\ DN = n + 1
  <2>1. PICK m, n \in Nat : DN = m /\ DN' = n /\ m + 0 = n + 1
    BY <1>5, <1>6, BackCount
  <2>2. m = n + 1
    BY <2>1
  <2> QED
    BY <2>1, <2>2
<1>8. DB = back % Lap /\ DB' = Plus(back % Lap, 1)
  <2>1. BackOfDeque = back /\ BackOfDeque' = back + 1
    BY <1>1, <1>2, <1>3, BackSeen DEF BackAt, HalfClaimed, ThiefContext
  <2>2. (back + 1) % Lap = Plus(back % Lap, 1)
    <3>1. 1 \in 0..(kSize - 1)
      BY Sizes
    <3>2. \A j \in 0..(kSize - 1) : (back + j) % Lap = Plus(back % Lap, j)
      BY <1>1, SlotIsFold
    <3> QED
      BY <3>1, <3>2
  <2> QED
    BY <2>1, <2>2 DEF DB
<1>9. Items(DB, 1, w) = {w[e]}
  <2>1. Plus(DB, 0) = DB
    BY <1>1, <1>8, Sizes DEF Plus, Indices
  <2>2. 0..(1 - 1) = {0}
    OBVIOUS
  <2> QED
    BY <1>1, <1>8, <2>1, <2>2 DEF Items
<1>10. Receives(t, Items(DB, 1, w))
  <2>1. ThiefTaken(t) = {} /\ ThiefTaken(t)' = {w[e]}
    BY <1>2 DEF ThiefTaken, HalfClaimed
  <2> QED
    BY <1>2, <1>9, <2>1, ContextFacts DEF Receives
<1>11. Deque!DequePopBack(1)
  BY <1>1, <1>2, <1>4, <1>7, <1>8, <1>10, BackPop
<1>12. 1 \in 1..(kSize \div 2)
  BY SizeAssumption
<1> QED
  BY <1>11, <1>12 DEF Deque!DequeNext

(* The one compare-and-swap of PopBackHalf takes its element and all those  *)
(* behind it off the deque, at most half of the array.                      *)
LEMMA HalfClaimOnDeque ==
  ASSUME NEW t, ThiefContext(t), HalfElement(t), reg[t].n = 0, pc'[t] = "Half.move"
  PROVE  Deque!DequeNext
<1> DEFINE i == reg[t].i
           k == i + 1
<1>1. /\ t \in Threads /\ pc \in [Threads -> OwnerLabels \cup ThiefLabels] /\ t \in Thieves
      /\ reg \in [Threads -> Locals] /\ reg[t] \in Locals /\ back \in Nat
      /\ back % Lap \in Indices /\ ControlOK /\ RingOK /\ ElementItemsOK
      /\ w \in [Slots -> Works \cup {NoWork}]
      /\ \A j \in 0..(kSize - 1) : Slot(back + j) = Fold(Plus(back % Lap, j))
  BY ContextFacts, ThiefFacts
<1>2. /\ pc[t] = "Half.element" /\ w' = w /\ delivered' = delivered /\ back' = back
      /\ i \in 0..(kSize - 1) /\ 2 * i < kSize
      /\ reg'[t].e = Slot(back + i) /\ reg'[t].i = i /\ reg'[t].start = i
      /\ reg'[t].took = reg[t].took /\ reg'[t].n = 0
  <2>1. pc[t] = "Half.element" /\ i \in -1..(kSize - 1) /\ i >= 0
    BY <1>1 DEF HalfElement, Locals
  <2>2. i \in 0..(kSize - 1) /\ 2 * i < kSize
    BY <1>1, <2>1, Sizes DEF ControlOK, HalfLocals
  <2> QED
    BY <1>1, <2>1, <2>2 DEF HalfElement, Go, Locals
<1>3. mutex = t /\ mutex' = t
  BY <1>1, <1>2, HeldByLabel DEF LockedLabels
<1>4. DequeStep(t)
  BY <1>2, ContextFacts DEF DequeStep
<1>5. k \in 1..kSize /\ k \in Nat /\ k \in 1..(kSize \div 2) /\ k - 1 = i
  BY <1>2, SizeAssumption
<1> HIDE DEF i
<1>6. /\ BackEnd = back % Lap /\ ThiefHolds = {} /\ GapHigh = -1
      /\ BackEnd' = back % Lap /\ GapHigh' = i
  <2>1. ~HalfClaimed(t) /\ HalfClaimed(t)' /\ reg'[t].i >= 0
    BY <1>2 DEF HalfClaimed
  <2>2. Gap(t)' /\ ~Gap(t)
    BY <2>1 DEF Gap
  <2> QED
    BY <1>1, <1>2, <1>3, <2>1, <2>2, HolderView, HolderViewNext DEF BackEndOf, HoldsOf, HighOf
<1>7. Cut(ThiefHolds, GapHigh) = 0 /\ Cut(ThiefHolds, GapHigh)' = k
  BY <1>2, <1>6 DEF Cut
<1> HIDE DEF k
<1>8. PICK n \in Nat : DN' = n /\ DN = n + k
  <2>1. PICK m, n \in Nat : DN = m /\ DN' = n /\ m + 0 = n + k
    BY <1>5, <1>6, <1>7, BackCount
  <2>2. m = n + k
    BY <1>5, <2>1
  <2> QED
    BY <2>1, <2>2
<1>9. DB = BackEnd /\ DB' = Plus(BackEnd, k)
  BY <1>6, <1>7, ContextFacts, Sizes DEF DequeFacts, Plus, Indices
<1>10. ThiefTaken(t) = {} /\ ThiefTaken(t)' = Under(t)'
  <2>1. reg[t].took = {}
    BY <1>2 DEF ThiefContext, StartsEmpty
  <2>2. ~HalfClaimed(t) /\ HalfClaimed(t)'
    BY <1>2 DEF HalfClaimed
  <2> QED
    BY <1>2, <2>1, <2>2 DEF ThiefTaken
<1>11. \A j \in 0..i : w[Slot(back + j)] # NoWork
  <2> SUFFICES ASSUME NEW j \in 0..i PROVE w[Slot(back + j)] # NoWork
    OBVIOUS
  <2> DEFINE s == Slot(back + j)
  <2>1. j \in 0..kSize /\ j < kSize /\ j < k /\ j \in 0..(kSize - 1)
    BY <1>2, <1>5, Sizes
  <2>2. s \in Slots /\ Off(DB, s) = j
    BY <1>1, <1>6, <1>9, <2>1, PlusArithmetic
  <2>3. j < DN
    BY <1>5, <1>8, <2>1
  <2> HIDE DEF s
  <2>4. state[s] = "kReady"
    BY <2>2, <2>3, ContextFacts DEF DequeFacts
  <2>5. \A u \in Threads : s \notin VacatedBy(u)
    BY <1>1, <2>2, <2>3, UsesOffDeque, VacatedInUse
  <2>6. w[s] # NoWork
    BY <1>1, <2>2, <2>4, <2>5 DEF ElementItemsOK
  <2> QED
    BY <2>6 DEF s
<1>12. Under(t)' = Items(DB, k, w)
  <2>1. Under(t)' = {w[Slot(back + j)] : j \in 0..i}
    BY <1>2, <1>11 DEF Under
  <2>2. \A j \in 0..i : w[Slot(back + j)] = w[Fold(Plus(DB, j))]
    BY <1>1, <1>2, <1>6, <1>9, Sizes
  <2>3. 0..(k - 1) = 0..i
    BY <1>5
  <2> QED
    BY <2>1, <2>2, <2>3 DEF Items
<1>13. Receives(t, Items(DB, k, w))
  BY <1>2, <1>10, <1>12, ContextFacts DEF Receives
<1>14. Deque!DequePopBack(k)
  BY <1>1, <1>2, <1>4, <1>5, <1>8, <1>9, <1>13, BackPop
<1> QED
  BY <1>5, <1>14 DEF Deque!DequeNext

(* Each step of a thief is a step of the deque or leaves it. *)
LEMMA ThiefOnDeque ==
  ASSUME RunQueueInv, RunQueueInv', StartsEmpty, NEW t \in Thieves, ThiefNext(t)
  PROVE  Deque!DequeNext \/ DequeStays
<1>1. ThiefContext(t)
  BY ThiefControl DEF ThiefContext, RunQueueInv
<1>2. /\ pc \in [Threads -> OwnerLabels \cup ThiefLabels] /\ t \in Threads
      /\ reg[t].n \in Nat
  BY <1>1, ContextFacts, Sizes DEF Locals
<1>3. CASE \/ PushBackLock(t) \/ PushBackClaim(t) \/ HalfSize(t) \/ Unlock(t)
           \/ \E caller \in Callers :
                \/ SizeLoadFront(t, caller) \/ SizeLoadBack(t, caller) \/ SizeRetry(t, caller)
                \/ PopIfNotEmpty(t, caller) \/ PopTryLock(t, caller)
  BY <1>1, <1>3, PlainOnDeque, SizeOnDeque
<1>4. CASE PushBackRetreat(t) \/ PushBackWrite(t)
  BY <1>1, <1>4, PushBackMoves
<1>5. CASE PushBackPublish(t)
  BY <1>1, <1>5, PublishOnDeque
<1>6. CASE PopBackClaim(t)
  <2>1. pc'[t] = "PopBack.take" \/ pc'[t] = "unlock"
    BY <1>2, <1>6 DEF PopBackClaim, Go
  <2> QED
    BY <1>1, <1>6, <2>1, ClaimOnDeque, PlainOnDeque
<1>7. CASE PopBackTake(t) \/ PopBackRelease(t) \/ PopBackAdvance(t)
  BY <1>1, <1>7, PopBackMoves
<1>8. CASE HalfElement(t)
  <2>1. CASE reg[t].n > 0
    BY <1>1, <1>8, <2>1, HalfMoves DEF HalfElement, HalfAdvance
  <2>2. CASE reg[t].n = 0
    <3>1. pc'[t] = "Half.move" \/ pc'[t] = "Half.element"
      BY <1>2, <1>8 DEF HalfElement, Go
    <3> QED
      BY <1>1, <1>8, <2>2, <3>1, HalfClaimOnDeque, PlainOnDeque
  <2> QED
    BY <1>2, <2>1, <2>2
<1>9. CASE HalfMove(t) \/ HalfRelease(t)
  <2>1. ~HalfElement(t) /\ ~HalfAdvance(t)
    BY <1>9 DEF HalfMove, HalfRelease, HalfElement, HalfAdvance
  <2> QED
    BY <1>1, <1>9, <2>1, HalfMoves
<1>10. CASE HalfAdvance(t)
  <2>1. ~HalfElement(t)
    <3>1. reg[t].i \in Int
      BY <1>1, ContextFacts, Sizes DEF Locals
    <3> QED
      BY <1>10, <3>1 DEF HalfElement, HalfAdvance
  <2> QED
    BY <1>1, <1>10, <2>1, HalfMoves, PlainOnDeque
<1> QED
  BY <1>3, <1>4, <1>5, <1>6, <1>7, <1>8, <1>9, <1>10 DEF ThiefNext

(* The deque starts empty. *)
LEMMA DequeStarts == Init => Deque!DequeInit /\ StartsEmpty
<1> SUFFICES ASSUME Init PROVE Deque!DequeInit /\ StartsEmpty
  OBVIOUS
<1>1. /\ pc = [u \in Threads |-> "idle"] /\ back = 0 /\ front = 0 /\ mutex = NoThread /\ delivered = {}
      /\ Owner \in Threads
  BY DEF Init, Threads
<1>2. \A u \in Threads : ~Popping(u)
  BY <1>1 DEF Popping, HalfClaimed
<1>3. HandedOut = {}
  BY <1>1, <1>2, HandedIs DEF Taken
<1>4. FrontOfDeque = 0 /\ BackOfDeque = 0
  BY <1>1 DEF FrontOfDeque, BackOfDeque
<1>5. Distance(0, 0) = 0
  BY SizeAssumption DEF Distance, Lap
<1>6. DequeContents = <<>>
  BY <1>4, <1>5 DEF DequeContents
<1>7. StartsEmpty
  BY <1>1 DEF StartsEmpty, Threads
<1> QED
  BY <1>3, <1>6, <1>7 DEF Deque!DequeInit

(* Every step of the lock-free queue is one step of the deque or none of   *)
(* its: a pop takes effect at its compare-and-swap, that of PopBackHalf    *)
(* for all its elements together, and a push when its element is ready     *)
(* (run_queue.h), for every size of the array and number of threads.       *)
THEOREM RunQueueIsADeque == Spec => IsADeque
<1>1. Init => Deque!DequeInit /\ StartsEmpty
  BY DequeStarts
<1>2. RunQueueInv /\ StartsEmpty /\ [Next]_vars => StartsEmpty'
  BY StartsEmptyNext DEF RunQueueInv
<1>3. RunQueueInv /\ RunQueueInv' /\ StartsEmpty /\ [Next]_vars
        => [Deque!DequeNext]_(Deque!dequeVars)
  <2> SUFFICES ASSUME RunQueueInv, RunQueueInv', StartsEmpty, [Next]_vars
               PROVE  Deque!DequeNext \/ DequeStays
    BY DEF DequeStays, Deque!dequeVars
  <2>1. CASE OwnerNext
    BY <2>1, OwnerOnDeque
  <2>2. ASSUME NEW t \in Thieves, ThiefNext(t) PROVE Deque!DequeNext \/ DequeStays
    BY <2>2, ThiefOnDeque
  <2>3. CASE UNCHANGED vars
    <3>1. DequeContents' = DequeContents
      BY <2>3 DEF vars, DequeContents, FrontOfDeque, BackOfDeque, HalfClaimed
    <3>2. HandedOut' = HandedOut
      BY <2>3 DEF vars, HandedOut, Popping, InFlight, Uses, HalfClaimed
    <3> QED
      BY <3>1, <3>2 DEF DequeStays
  <2> QED
    BY <2>1, <2>2, <2>3 DEF Next
<1> QED
  BY <1>1, <1>2, <1>3, RunQueueInvariant, PTL DEF Spec, IsADeque, Deque!DequeSpec

-----------------------------------------------------------------------------
(* Size(), with the history of front_ *)

(* The elements that are ready lie between back_ and front_ as they are,   *)
(* wherever the threads stand that have claimed others.                    *)
LEMMA ReadyBetween ==
  ASSUME ControlOK, RingOK, NEW s \in ReadySlots
  PROVE  Off(back % Lap, s) < Arc(front % Lap, back % Lap)
<1>1. PICK f \in Indices, b \in Indices : f = front % Lap /\ b = back % Lap
  <2>1. front \in Nat /\ back \in Nat
    BY Sizes DEF ControlOK
  <2> QED
    BY <2>1, SlotIsFold
<1>2. PICK F \in Indices, B \in Indices, lo \in Int, hi \in Int, own \in SUBSET Slots, thf \in SUBSET Slots :
        /\ F = FrontEnd /\ B = BackEnd /\ lo = GapLow /\ hi = GapHigh
        /\ own = OwnerHolds /\ thf = ThiefHolds
        /\ Shape(F, B, state, own, thf, lo, hi)
  BY DEF RingOK, Shape
<1>3. s \in Slots /\ state[s] = "kReady" /\ s \notin own \cup thf
  BY <1>2 DEF ReadySlots, Shape
<1>4. Off(B, s) < Arc(F, B) /\ Arc(F, B) \in 0..kSize /\ Off(B, s) \in 0..(kSize - 1)
  <2>1. Arc(F, B) \in Nat /\ Off(B, s) \in 0..(kSize - 1)
    BY <1>2, <1>3, RingArithmetic
  <2>2. Off(B, s) < Arc(F, B) /\ Arc(F, B) <= kSize
    BY <1>2, <1>3 DEF Shape, Occupied
  <2> QED
    BY <2>1, <2>2, Sizes
<1>5. Off(B, s) < Arc(f, B) /\ Arc(f, B) \in 0..(kSize + 1)
  <2>1. CASE pc[Owner] = "PushFront.front"
    <3>1. F = Up(f) /\ own = {reg[Owner].e} /\ reg[Owner].e \in Slots /\ s # reg[Owner].e
      BY <1>1, <1>2, <1>3, <2>1 DEF FrontEnd, OwnerHolds, Shape
    <3>2. Off(B, reg[Owner].e) = Arc(F, B) - 1
      BY <1>2, <3>1 DEF Shape
    <3>3. Off(B, s) # Arc(F, B) - 1
      BY <1>2, <1>3, <3>1, <3>2, RingArithmetic
    <3> QED
      BY <1>1, <1>2, <1>4, <3>1, <3>3, Sizes DEF Indices, Up, Arc
  <2>2. CASE pc[Owner] = "PopFront.front"
    <3>1. F = Down(f)
      BY <1>1, <1>2, <2>2 DEF FrontEnd
    <3> QED
      BY <1>1, <1>2, <1>4, <3>1, Sizes DEF Indices, Down, Arc
  <2>3. CASE pc[Owner] \notin {"PushFront.front", "PopFront.front"}
    BY <1>1, <1>2, <1>4, <2>3, Sizes DEF FrontEnd
  <2> QED
    BY <2>1, <2>2, <2>3
<1>6. Off(b, s) < Arc(f, b)
  <2>1. CASE B = b
    BY <1>5, <2>1
  <2>2. ASSUME B # b PROVE mutex \in Thieves /\ B = BackEndOf(mutex) /\ thf = HoldsOf(mutex) /\ lo = LowOf(mutex)
    BY <1>1, <1>2, <2>2, HolderView DEF BackEnd, ControlOK
  <2>3. CASE B # b /\ pc[mutex] = "PushBack.back"
    <3>1. B = Down(b) /\ thf = {reg[mutex].e} /\ reg[mutex].e \in Slots /\ s # reg[mutex].e
      BY <1>1, <1>2, <1>3, <2>2, <2>3 DEF BackEndOf, HoldsOf, Shape
    <3>2. lo = -1
      BY <2>2, <2>3 DEF LowOf, Gap, HalfClaimed
    <3>3. Off(B, reg[mutex].e) = 0
      BY <1>2, <3>1, <3>2 DEF Shape
    <3>4. Off(B, s) # 0
      BY <1>2, <1>3, <3>1, <3>3, RingArithmetic
    <3> QED
      BY <1>1, <1>2, <1>3, <1>4, <1>5, <3>1, <3>4, Sizes DEF Indices, Slots, Down, Arc, Off, Fold
  <2>4. CASE B # b /\ pc[mutex] = "PopBack.back"
    <3>1. B = Up(b)
      BY <1>1, <2>2, <2>4 DEF BackEndOf
    <3> QED
      BY <1>1, <1>2, <1>3, <1>4, <1>5, <3>1, Sizes DEF Indices, Slots, Up, Arc, Off, Fold
  <2>5. CASE B # b /\ pc[mutex] \notin {"PushBack.back", "PopBack.back"}
    <3>1. HalfClaimed(mutex) /\ B = Plus(b, reg[mutex].start + 1)
      BY <1>1, <2>2, <2>5 DEF BackEndOf
    <3>2. PICK j \in Nat : j = reg[mutex].start + 1 /\ 2 * j <= kSize + 1
      BY <2>2, <2>5, <3>1, Sizes DEF ControlOK, HalfLocals, Locals, Threads
    <3> QED
      BY <1>1, <1>2, <1>3, <1>4, <1>5, <3>1, <3>2, Sizes DEF Indices, Slots, Plus, Arc, Off, Fold
  <2> QED
    BY <2>1, <2>3, <2>4, <2>5
<1> QED
  BY <1>1, <1>6

(* Distance is the arc from back_ to front_. *)
LEMMA DistanceIsArc ==
  ASSUME NEW x \in Nat, NEW y \in Nat
  PROVE  Distance(x, y) = Arc(x % Lap, y % Lap)
<1>1. x % Lap \in Indices /\ y % Lap \in Indices
  BY SlotIsFold
<1>2. \A z \in Indices : (x + Lap - z) % Lap = Arc(x % Lap, z)
  BY SizeAssumption DEF Lap, Indices, Arc
<1> QED
  BY <1>1, <1>2 DEF Distance

(* So there are no more of them than Size() would say of the two indices.  *)
LEMMA SizeSuffices ==
  ASSUME ControlOK, RingOK
  PROVE  Cardinality(ReadySlots) <= SizeOf(front, back)
<1> DEFINE offset == [s \in ReadySlots |-> Off(back % Lap, s)]
<1>1. PICK f \in Indices, b \in Indices : f = front % Lap /\ b = back % Lap
  <2>1. front \in Nat /\ back \in Nat
    BY Sizes DEF ControlOK
  <2> QED
    BY <2>1, SlotIsFold
<1>2. PICK n \in Nat : n = Arc(f, b)
  BY <1>1, RingArithmetic
<1>3. offset \in Injection(ReadySlots, 0..(n - 1))
  <2>1. \A s \in ReadySlots : s \in Slots /\ Off(b, s) \in 0..(kSize - 1) /\ Off(b, s) < n
    BY <1>1, <1>2, ReadyBetween, RingArithmetic DEF ReadySlots
  <2>2. offset \in [ReadySlots -> 0..(n - 1)]
    BY <1>1, <1>2, <2>1, Sizes
  <2>3. \A s1, s2 \in ReadySlots : offset[s1] = offset[s2] => s1 = s2
    BY <1>1, <2>1, RingArithmetic
  <2> QED
    BY <2>2, <2>3 DEF Injection, IsInjective
<1>4. IsFiniteSet(0..(n - 1)) /\ Cardinality(0..(n - 1)) = n
  <2>1. 0 \in Int /\ n - 1 \in Int
    BY <1>2
  <2>2. IsFiniteSet(0..(n - 1)) /\ Cardinality(0..(n - 1)) = IF 0 > n - 1 THEN 0 ELSE (n - 1) - 0 + 1
    BY <2>1, FS_Interval
  <2> QED
    BY <1>2, <2>2
<1>5. Cardinality(ReadySlots) <= n
  BY <1>3, <1>4, FS_Injection
<1>6. Distance(front, back) = n
  BY <1>1, <1>2, DistanceIsArc, Sizes DEF ControlOK
<1> QED
  BY <1>2, <1>5, <1>6, ReadyCount, Sizes DEF SizeOf

(* From x to y in n moves: u pushes and d pops, of which z had to take the *)
(* index from 0 to the other end, with the counter q times round.          *)
Within(x, y, n) ==
  \E u \in Nat, d \in Nat, z \in Nat, q \in Int :
    /\ z <= d /\ u + d = n
    /\ y = x + (u - d) + Lap * (u + z + Laps * q)

(* A multiple of d that is closer to 0 than d is 0. *)
LEMMA SmallMultiple ==
  ASSUME NEW d \in Nat, NEW c \in Int, NEW a \in Int, a + d * c = 0, a < d, -a < d
  PROVE  a = 0 /\ c = 0
<1>1. CASE c >= 1
  <2>1. d * c >= d
    BY <1>1
  <2> QED
    BY <2>1
<1>2. CASE c <= -1
  <2>1. d * c <= -d
    BY <1>2
  <2> QED
    BY <2>1
<1>3. CASE c = 0
  BY <1>3
<1> QED
  BY <1>1, <1>2, <1>3

(* Few moves do not lead back to where they began, unless there were none, *)
LEMMA NotRound ==
  ASSUME NEW x \in Int, NEW n \in Nat, Within(x, x, n), n < Lap, n < Laps
  PROVE  n = 0
<1>1. PICK u \in Nat, d \in Nat, z \in Nat, q \in Int :
        z <= d /\ u + d = n /\ x = x + (u - d) + Lap * (u + z + Laps * q)
  BY DEF Within
<1>2. PICK c \in Int : c = u + z + Laps * q
  BY <1>1, LapsAssumption
<1>3. PICK m \in Int : m = Lap * c
  BY <1>2, Sizes
<1>4. (u - d) + Lap * c = 0
  BY <1>1, <1>2, <1>3
<1>5. u - d = 0 /\ c = 0
  BY <1>1, <1>4, Sizes, SmallMultiple
<1>6. (u + z) + Laps * q = 0 /\ u + z < Laps /\ -(u + z) < Laps
  BY <1>1, <1>2, <1>5, LapsAssumption
<1>7. u + z = 0
  BY <1>6, LapsAssumption, SmallMultiple
<1> QED
  BY <1>1, <1>5, <1>7

(* and one more move leads one further. *)
LEMMA OneMoreMove ==
  ASSUME NEW x \in Nat, NEW y \in Nat, NEW n \in Nat, Within(x, y, n)
  PROVE  Within(x, Incremented(y), n + 1) /\ Within(x, Decremented(y), n + 1)
<1>1. PICK u \in Nat, d \in Nat, z \in Nat, q \in Int :
        z <= d /\ u + d = n /\ y = x + (u - d) + Lap * (u + z + Laps * q)
  BY DEF Within
<1>2. PICK p \in Int : y + 1 + Lap = Incremented(y) + Lap * (Laps * p)
  <2>1. y + 1 + Lap \in Int /\ Modulus \in Nat \ {0}
    BY Sizes
  <2>2. PICK p \in Int : y + 1 + Lap = Modulus * p + Incremented(y)
    BY <2>1, Division DEF Incremented
  <2>3. Modulus * p = Lap * (Laps * p) /\ Lap * (Laps * p) \in Int /\ Incremented(y) \in Int
    BY Sizes, LapsAssumption, MovesByOne DEF Modulus
  <2> QED
    BY <2>2, <2>3
<1>3. Within(x, Incremented(y), n + 1)
  <2>1. PICK a \in Int, e \in Int, g \in Int : a = u + z + Laps * q /\ e = Laps * p /\ g = a + 1 - e
    BY <1>1, <1>2, LapsAssumption
  <2>2. Lap * g = Lap * a + Lap - Lap * e /\ Lap * a \in Int /\ Lap * e \in Int
    BY <2>1, Sizes
  <2>3. g = (u + 1) + z + Laps * (q - p)
    BY <2>1, LapsAssumption
  <2>4. Incremented(y) = x + ((u + 1) - d) + Lap * g
    BY <1>1, <1>2, <2>1, <2>2, Sizes, MovesByOne
  <2>5. PICK i \in Nat, h \in Int : i = u + 1 /\ h = q - p
    BY <1>1, <1>2
  <2>6. i + z + Laps * h = g
    BY <2>3, <2>5, Zenon
  <2>7. z <= d /\ i + d = n + 1 /\ Incremented(y) = x + (i - d) + Lap * g
    BY <1>1, <2>4, <2>5
  <2>8. Incremented(y) = x + (i - d) + Lap * (i + z + Laps * h)
    BY <2>6, <2>7, Zenon
  <2> SUFFICES \E up \in Nat, dn \in Nat, wr \in Nat, r \in Int :
                 /\ wr <= dn /\ up + dn = n + 1
                 /\ Incremented(y) = x + (up - dn) + Lap * (up + wr + Laps * r)
    BY DEF Within
  <2> WITNESS i \in Nat, d \in Nat, z \in Nat, h \in Int
  <2> QED
    BY <2>7, <2>8
<1>4. PICK k \in {0, 1} : Decremented(y) = y - 1 + Lap * k
  BY SizeAssumption DEF Lap, Decremented
<1>5. Within(x, Decremented(y), n + 1)
  <2>1. PICK a \in Int, g \in Int : a = u + z + Laps * q /\ g = a + k
    BY <1>1, <1>4, LapsAssumption
  <2>2. Lap * g = Lap * a + Lap * k /\ Lap * a \in Int /\ Lap * k \in Int
    BY <2>1, <1>4, Sizes
  <2>3. g = u + (z + k) + Laps * q /\ z + k \in Nat /\ z + k <= d + 1
    BY <1>1, <1>4, <2>1, LapsAssumption
  <2>4. Decremented(y) = x + (u - (d + 1)) + Lap * g
    BY <1>1, <1>4, <2>1, <2>2
  <2>5. PICK i \in Nat, j \in Nat : i = d + 1 /\ j = z + k
    BY <1>1, <2>3
  <2>6. u + j + Laps * q = g
    BY <2>3, <2>5, Zenon
  <2>7. j <= i /\ u + i = n + 1 /\ Decremented(y) = x + (u - i) + Lap * g
    BY <1>1, <2>3, <2>4, <2>5
  <2>8. Decremented(y) = x + (u - i) + Lap * (u + j + Laps * q)
    BY <2>6, <2>7, Zenon
  <2> SUFFICES \E up \in Nat, dn \in Nat, wr \in Nat, r \in Int :
                 /\ wr <= dn /\ up + dn = n + 1
                 /\ Decremented(y) = x + (up - dn) + Lap * (up + wr + Laps * r)
    BY DEF Within
  <2> WITNESS u \in Nat, i \in Nat, j \in Nat, q \in Int
  <2> QED
    BY <2>7, <2>8
<1> QED
  BY <1>3, <1>5

(* What the history tells of a thread in Size(): how far front_ has come   *)
(* since it was loaded, and if it has not moved, that back_ was loaded     *)
(* from the same state of the queue.                                       *)
HistoryOK ==
  /\ moves \in [Thieves -> Nat]
  /\ \A t \in Thieves :
       InSize(t) =>
         /\ Within(reg[t].f, front, moves[t])
         /\ moves[t] = 0 => front = reg[t].f
         /\ moves[t] = 0 /\ pc[t] \in {SizeCheck[c] : c \in Callers} =>
              reg[t].seen <= SizeOf(reg[t].f, reg[t].b)

(* Nothing has moved when Size() has loaded front_. *)
LEMMA NotMoved == ASSUME NEW x \in Nat PROVE Within(x, x, 0)
<1>1. PICK n \in Nat : n = 0
  OBVIOUS
<1>2. PICK c \in Int : c = n + n + Laps * n
  BY <1>1, LapsAssumption
<1>3. c = 0
  BY <1>1, <1>2, LapsAssumption
<1>4. Lap * c = 0
  BY <1>3, Sizes
<1>5. n <= n /\ n + n = 0 /\ x = x + (n - n) + Lap * c
  BY <1>1, <1>4
<1>6. x = x + (n - n) + Lap * (n + n + Laps * n)
  BY <1>2, <1>5, Zenon
<1> SUFFICES \E v \in Nat, e \in Nat, f \in Nat, r \in Int :
               /\ f <= e /\ v + e = 0 /\ x = x + (v - e) + Lap * (v + f + Laps * r)
  BY DEF Within
<1> WITNESS n \in Nat, n \in Nat, n \in Nat, n \in Int
<1> QED
  BY <1>5, <1>6

(* The owner moves front_ by one or not at all. *)
LEMMA OwnerMoves ==
  ASSUME OwnerNext
  PROVE  front' \in {front, Incremented(front), Decremented(front)}
  BY DEF OwnerNext, PushFrontClaim, PushFrontAdvance, PushFrontWrite, PushFrontPublish,
         PopFrontClaim, PopFrontTake, PopFrontRelease, PopFrontRetreat

(* A thread comes into Size() with its first load and stays with its second. *)
LEMMA ThiefInSize ==
  ASSUME ControlOK, NEW t \in Thieves, ThiefNext(t), InSize(t)'
  PROVE  \E caller \in Callers : SizeLoadFront(t, caller) \/ SizeLoadBack(t, caller)
<1>1. t \in Threads /\ pc \in [Threads -> OwnerLabels \cup ThiefLabels]
  BY DEF ControlOK, Threads
<1>2. InSize(t)' => pc'[t] \in {"PopBack.size.back", "PopBackHalf.size.back", "Half.size.back",
                               "PopBack.size.check", "PopBackHalf.size.check", "Half.size.check"}
  BY DEF InSize, Callers, SizeBack, SizeCheck
<1>3. ~(PushBackLock(t) \/ PushBackClaim(t) \/ PushBackRetreat(t) \/ PushBackWrite(t) \/ PushBackPublish(t))
  BY <1>1, <1>2 DEF PushBackLock, PushBackClaim, PushBackRetreat, PushBackWrite, PushBackPublish, Go
<1>4. ~(PopBackClaim(t) \/ PopBackTake(t) \/ PopBackRelease(t) \/ PopBackAdvance(t))
  BY <1>1, <1>2 DEF PopBackClaim, PopBackTake, PopBackRelease, PopBackAdvance, Go
<1>5. ~(HalfSize(t) \/ HalfElement(t) \/ HalfMove(t) \/ HalfRelease(t) \/ HalfAdvance(t) \/ Unlock(t))
  BY <1>1, <1>2 DEF HalfSize, HalfElement, HalfMove, HalfRelease, HalfAdvance, Unlock, Go, Return
<1>6. \A caller \in Callers : ~(SizeRetry(t, caller) \/ PopIfNotEmpty(t, caller) \/ PopTryLock(t, caller))
  BY <1>1, <1>2 DEF SizeRetry, PopIfNotEmpty, PopTryLock, Go, Return, Callers, SizeFront, TryLock
<1> QED
  BY <1>3, <1>4, <1>5, <1>6 DEF ThiefNext

(* Every step keeps what the history tells. *)
LEMMA HistoryStep ==
  ASSUME ControlOK, RingOK, HistoryOK, HistoryNext
  PROVE  HistoryOK'
<1>1. front \in Nat /\ \A t \in Thieves : moves[t] \in Nat /\ reg[t].f \in Nat /\ t \in Threads
  BY Sizes DEF ControlOK, HistoryOK, Threads, Locals
<1>2. /\ moves' \in [Thieves -> Nat]
      /\ \A t \in Thieves :
           moves'[t] = IF ~(InSize(t) /\ InSize(t)') THEN 0
                       ELSE IF front' = front THEN moves[t] ELSE moves[t] + 1
  BY <1>1 DEF HistoryNext
<1>3. CASE OwnerNext
  <2>1. \A t \in Thieves : pc'[t] = pc[t] /\ reg'[t] = reg[t]
    BY <1>3, OwnerControl, OwnerLeavesBack
  <2>2. ASSUME NEW t \in Thieves, InSize(t)'
        PROVE  /\ Within(reg'[t].f, front', moves'[t])
               /\ moves'[t] = 0 => front' = reg'[t].f
               /\ moves'[t] = 0 /\ pc'[t] \in {SizeCheck[c] : c \in Callers} =>
                    reg'[t].seen <= SizeOf(reg'[t].f, reg'[t].b)
    <3>1. InSize(t) /\ pc'[t] = pc[t] /\ reg'[t] = reg[t]
      BY <2>1, <2>2 DEF InSize
    <3>2. CASE front' = front
      BY <1>2, <2>2, <3>1, <3>2 DEF HistoryOK
    <3>3. CASE front' # front
      <4>1. moves'[t] = moves[t] + 1 /\ moves'[t] # 0
        BY <1>1, <1>2, <2>2, <3>1, <3>3
      <4>2. Within(reg[t].f, front, moves[t])
        BY <3>1 DEF HistoryOK
      <4>3. Within(reg[t].f, front', moves[t] + 1)
        BY <1>1, <1>3, <3>3, <4>2, OwnerMoves, OneMoreMove
      <4> QED
        BY <3>1, <4>1, <4>3
    <3> QED
      BY <3>2, <3>3
  <2> QED
    BY <1>2, <2>2 DEF HistoryOK
<1>4. ASSUME NEW u \in Thieves, ThiefNext(u) PROVE HistoryOK'
  <2>1. ThiefStep(u) /\ front' = front
    BY <1>4, ThiefControl DEF ThiefStep
  <2>2. ASSUME NEW t \in Thieves, InSize(t)'
        PROVE  /\ Within(reg'[t].f, front', moves'[t])
               /\ moves'[t] = 0 => front' = reg'[t].f
               /\ moves'[t] = 0 /\ pc'[t] \in {SizeCheck[c] : c \in Callers} =>
                    reg'[t].seen <= SizeOf(reg'[t].f, reg'[t].b)
    <3>1. CASE t # u
      <4>1. pc'[t] = pc[t] /\ reg'[t] = reg[t]
        BY <1>1, <2>1, <3>1 DEF ThiefStep, ThreadStep
      <4>2. InSize(t) /\ moves'[t] = moves[t]
        BY <1>2, <2>1, <2>2, <4>1 DEF InSize
      <4> QED
        BY <2>1, <4>1, <4>2 DEF HistoryOK
    <3>2. CASE t = u
      <4>1. PICK caller \in Callers : SizeLoadFront(t, caller) \/ SizeLoadBack(t, caller)
        BY <1>4, <2>2, <3>2, ThiefInSize
      <4>2. reg[t] \in Locals /\ reg \in [Threads -> Locals]
            /\ pc \in [Threads -> OwnerLabels \cup ThiefLabels] /\ t \in Threads
        BY <1>1 DEF ControlOK
      <4>3. CASE SizeLoadFront(t, caller)
        <5>1. reg'[t].f = front /\ pc'[t] = SizeBack[caller] /\ (pc[t] = SizeFront[caller] \/ pc[t] = "idle")
          BY <4>2, <4>3 DEF SizeLoadFront, Go, Locals
        <5>2. ~InSize(t) /\ pc'[t] \notin {SizeCheck[c] : c \in Callers}
          BY <5>1 DEF InSize, Callers, SizeFront, SizeBack, SizeCheck
        <5>3. moves'[t] = 0
          BY <1>2, <5>2
        <5> QED
          BY <1>1, <2>1, <5>1, <5>2, <5>3, NotMoved
      <4>4. CASE SizeLoadBack(t, caller)
        <5>1. /\ reg'[t].f = reg[t].f /\ reg'[t].b = back /\ reg'[t].seen = Cardinality(ReadySlots)
              /\ pc[t] = SizeBack[caller]
          BY <4>2, <4>4 DEF SizeLoadBack, Locals
        <5>2. InSize(t)
          BY <5>1 DEF InSize
        <5>3. moves'[t] = moves[t]
          BY <1>2, <2>1, <2>2, <5>2
        <5> QED
          BY <2>1, <5>1, <5>2, <5>3, SizeSuffices DEF HistoryOK
      <4> QED
        BY <4>1, <4>3, <4>4
    <3> QED
      BY <3>1, <3>2
  <2> QED
    BY <1>2, <2>2 DEF HistoryOK
<1> QED
  BY <1>3, <1>4 DEF HistoryNext, Next

(* The history tells the same after a step in which nothing happens. *)
LEMMA HistoryStays == ASSUME HistoryOK, UNCHANGED <<vars, moves>> PROVE HistoryOK'
  BY DEF HistoryOK, InSize, vars, Within, SizeOf, Distance

(* It is the last load of front_ that tells: when it shows what the first  *)
(* did, and too few moves lie between them to come round, none does.       *)
LEMMA SnapshotIsOne == ControlOK /\ HistoryOK => SizeNeverTooSmall
<1> SUFFICES ASSUME ControlOK, HistoryOK, NEW t \in Thieves, NEW caller \in Callers,
                    NEW size \in 0..kSize, SizeIs(t, caller, size), Brief(t)
             PROVE  size >= reg[t].seen
  BY DEF SizeNeverTooSmall
<1>1. pc[t] \in {SizeCheck[c] : c \in Callers} /\ InSize(t) /\ front = reg[t].f
  BY DEF SizeIs, InSize
<1>2. moves[t] \in Nat /\ front \in Int /\ reg[t].seen \in Int
  BY Sizes DEF HistoryOK, ControlOK, Locals, Threads
<1>3. Within(front, front, moves[t])
  BY <1>1 DEF HistoryOK
<1>4. moves[t] = 0
  BY <1>2, <1>3, NotRound DEF Brief
<1>5. reg[t].seen <= size
  BY <1>1, <1>4 DEF HistoryOK, SizeIs
<1> QED
  BY <1>2, <1>5

(* RunQueue runs as before under its history. *)
LEMMA HistoryIsOfRunQueue == HistorySpec => Spec
<1>1. HistoryInit => Init
  BY DEF HistoryInit
<1>2. [HistoryNext]_<<vars, moves>> => [Next]_vars
  BY DEF HistoryNext
<1> QED
  BY <1>1, <1>2, PTL DEF HistorySpec, Spec

(* HistoryOK holds from the beginning on. *)
THEOREM HistoryHolds == HistorySpec => []HistoryOK
<1>1. HistoryInit => HistoryOK
  <2>1. ASSUME HistoryInit, NEW t \in Thieves PROVE ~InSize(t)
    BY <2>1 DEF HistoryInit, Init, InSize, Threads, Callers, SizeBack, SizeCheck
  <2> QED
    BY <2>1 DEF HistoryInit, HistoryOK
<1>2. RunQueueInv /\ HistoryOK /\ [HistoryNext]_<<vars, moves>> => HistoryOK'
  BY HistoryStep, HistoryStays DEF RunQueueInv
<1> QED
  BY <1>1, <1>2, HistoryIsOfRunQueue, RunQueueInvariant, PTL DEF HistorySpec

(* SizeNeverTooSmall (run_queue.h:117): as long as front_ is moved too few *)
(* times during one Size() for its index or its counter to come round,     *)
(* what is reported suffices for what was ready when back_ was loaded.     *)
THEOREM SizeIsTrusted == HistorySpec => []SizeNeverTooSmall
<1>1. RunQueueInv /\ HistoryOK => SizeNeverTooSmall
  BY SnapshotIsOne DEF RunQueueInv
<1> QED
  BY <1>1, HistoryHolds, HistoryIsOfRunQueue, RunQueueInvariant, PTL
=============================================================================
