---------------------------- MODULE LibraryProofs ----------------------------
(***************************************************************************)
(* The classes of the base library, one after the other: InlinedVector,    *)
(* RefCounted, callbacks and CallOptions.                                  *)
(***************************************************************************)
EXTENDS InlinedVector, RefCount, Callbacks, CallOptions, FiniteSetTheorems, SequenceTheorems,
        Iteration, TLAPS

-----------------------------------------------------------------------------
(* InlinedVector: the memory that holds a sequence at its beginning        *)

Memory(n, s) == [i \in 1..n |-> IF i <= Len(s) THEN s[i] ELSE Raw]

(* The length and the elements of a sequence of values *)
LEMMA SequenceIs ==
  ASSUME NEW s \in Seq(Values)
  PROVE  /\ Len(s) \in Nat /\ DOMAIN s = 1..Len(s)
         /\ \A i \in 1..Len(s) : s[i] \in Values
  BY LenProperties, ElementOfSeq

(* u is s and then t *)
Joined(u, s, t) ==
  /\ u \in Seq(Values) /\ Len(u) = Len(s) + Len(t)
  /\ \A i \in 1..Len(s) : u[i] = s[i]
  /\ \A i \in 1..Len(t) : u[Len(s) + i] = t[i]

(* u is s with t over what follows its first from elements *)
Overlaid(u, s, from, t) ==
  /\ u \in Seq(Values) /\ Len(u) = Len(s)
  /\ \A i \in 1..Len(s) : u[i] = IF from < i /\ i <= from + Len(t) THEN t[i - from] ELSE s[i]

(* u is the beginning of s *)
Beginning(u, s) ==
  /\ u \in Seq(Values) /\ Len(u) <= Len(s)
  /\ \A i \in 1..Len(u) : u[i] = s[i]

(* Constructing in raw cells, behind the elements *)
LEMMA ConstructedIs ==
  ASSUME NEW n \in Nat, NEW s \in Seq(Values), NEW t \in Seq(Values), NEW u, Joined(u, s, t),
         Len(u) <= n
  PROVE  Constructed(Memory(n, s), Len(s), t) = Memory(n, u)
<1> DEFINE m == Memory(n, s)
<1>1. PICK k \in Nat, j \in Nat : k = Len(s) /\ j = Len(t)
  BY SequenceIs
<1>2. DOMAIN m = 1..n /\ \A i \in 1..n : m[i] = IF i <= k THEN s[i] ELSE Raw
  BY <1>1 DEF Memory
<1>3. ASSUME NEW i \in 1..n
      PROVE  (IF i \notin Range1(k, j) THEN m[i]
              ELSE IF m[i] # Raw \/ t[i - k] \in {Raw, Bad} THEN Bad ELSE t[i - k])
             = Memory(n, u)[i]
  <2>1. Memory(n, u)[i] = IF i <= k + j THEN u[i] ELSE Raw
    BY <1>1 DEF Memory, Joined
  <2>2. CASE i <= k
    <3>1. i \notin Range1(k, j) /\ m[i] = s[i]
      BY <1>1, <1>2, <2>2 DEF Range1
    <3>2. i \in 1..Len(s)
      BY <1>1, <2>2
    <3>3. u[i] = s[i]
      BY <3>2 DEF Joined
    <3> QED
      BY <1>1, <2>1, <2>2, <3>1, <3>3
  <2>3. CASE k < i /\ i <= k + j
    <3>1. i \in Range1(k, j) /\ m[i] = Raw
      BY <1>1, <1>2, <2>3 DEF Range1
    <3>2. i - k \in 1..Len(t) /\ i = Len(s) + (i - k)
      BY <1>1, <2>3
    <3>3. u[i] = t[i - k] /\ t[i - k] \in Values
      BY <3>2, SequenceIs DEF Joined
    <3>4. t[i - k] \notin {Raw, Bad}
      BY <3>3, CellAssumption
    <3> QED
      BY <2>1, <2>3, <3>1, <3>3, <3>4
  <2>4. CASE k + j < i
    <3>1. i \notin Range1(k, j) /\ m[i] = Raw
      BY <1>1, <1>2, <2>4 DEF Range1
    <3> QED
      BY <1>1, <2>1, <2>4, <3>1
  <2> QED
    BY <1>1, <2>2, <2>3, <2>4
<1> HIDE DEF m
<1>4. Constructed(m, Len(s), t) =
      [i \in 1..n |-> IF i \notin Range1(k, j) THEN m[i]
                      ELSE IF m[i] # Raw \/ t[i - k] \in {Raw, Bad} THEN Bad ELSE t[i - k]]
  BY <1>1, <1>2 DEF Constructed
<1>5. Memory(n, u) = [i \in 1..n |-> Memory(n, u)[i]]
  BY DEF Memory
<1> QED
  BY <1>3, <1>4, <1>5 DEF m

(* Assigning to elements *)
LEMMA AssignedIs ==
  ASSUME NEW n \in Nat, NEW s \in Seq(Values), NEW t \in Seq(Values), NEW from \in Nat, NEW u,
         Overlaid(u, s, from, t), Len(s) <= n, from + Len(t) <= Len(s)
  PROVE  Assigned(Memory(n, s), from, t) = Memory(n, u)
<1> DEFINE m == Memory(n, s)
<1>1. PICK k \in Nat, j \in Nat : k = Len(s) /\ j = Len(t)
  BY SequenceIs
<1>2. DOMAIN m = 1..n /\ \A i \in 1..n : m[i] = IF i <= k THEN s[i] ELSE Raw
  BY <1>1 DEF Memory
<1>3. ASSUME NEW i \in 1..n
      PROVE  (IF i \notin Range1(from, j) THEN m[i]
              ELSE IF m[i] \in {Raw, Bad} \/ t[i - from] \in {Raw, Bad} THEN Bad ELSE t[i - from])
             = Memory(n, u)[i]
  <2>1. Memory(n, u)[i] = IF i <= k THEN u[i] ELSE Raw
    BY <1>1 DEF Memory, Overlaid
  <2>2. CASE from < i /\ i <= from + j
    <3>1. i \in Range1(from, j) /\ i <= k /\ m[i] = s[i]
      BY <1>1, <1>2, <2>2 DEF Range1
    <3>2. i - from \in 1..Len(t) /\ i \in 1..Len(s)
      BY <1>1, <2>2, <3>1
    <3>3. u[i] = t[i - from] /\ t[i - from] \in Values /\ s[i] \in Values
      BY <1>1, <2>2, <3>2, SequenceIs DEF Overlaid
    <3>4. t[i - from] \notin {Raw, Bad} /\ s[i] \notin {Raw, Bad}
      BY <3>3, CellAssumption
    <3> QED
      BY <2>1, <3>1, <3>3, <3>4
  <2>3. CASE ~(from < i /\ i <= from + j)
    <3>1. i \notin Range1(from, j)
      BY <2>3 DEF Range1
    <3>2. i <= k => u[i] = s[i]
      BY <1>1, <2>3 DEF Overlaid
    <3> QED
      BY <1>2, <2>1, <3>1, <3>2
  <2> QED
    BY <2>2, <2>3
<1> HIDE DEF m
<1>4. Assigned(m, from, t) =
      [i \in 1..n |-> IF i \notin Range1(from, j) THEN m[i]
                      ELSE IF m[i] \in {Raw, Bad} \/ t[i - from] \in {Raw, Bad} THEN Bad
                      ELSE t[i - from]]
  BY <1>1, <1>2 DEF Assigned
<1>5. Memory(n, u) = [i \in 1..n |-> Memory(n, u)[i]]
  BY DEF Memory
<1> QED
  BY <1>3, <1>4, <1>5 DEF m

(* Destroying the last d elements of s leaves u in n cells. *)
LeavesIn(n, s, u, d) == Destroyed(Memory(n, s), Len(u), d) = Memory(n, u)

(* Destroying the last elements *)
LEMMA DestroyedIs ==
  ASSUME NEW n \in Nat, NEW s \in Seq(Values), NEW u, Beginning(u, s), Len(s) <= n,
         NEW d, d = Len(s) - Len(u)
  PROVE  LeavesIn(n, s, u, d)
<1> DEFINE m == Memory(n, s)
<1>1. PICK k \in Nat, j \in Nat : k = Len(s) /\ j = Len(u)
  BY SequenceIs DEF Beginning
<1>2. DOMAIN m = 1..n /\ \A i \in 1..n : m[i] = IF i <= k THEN s[i] ELSE Raw
  BY <1>1 DEF Memory
<1>3. ASSUME NEW i \in 1..n
      PROVE  (IF i \notin Range1(j, d) THEN m[i] ELSE IF m[i] = Raw THEN Bad ELSE Raw)
             = Memory(n, u)[i]
  <2>1. Memory(n, u)[i] = IF i <= j THEN u[i] ELSE Raw
    BY <1>1 DEF Memory
  <2>2. j <= k /\ (i <= j => u[i] = s[i])
    BY <1>1 DEF Beginning
  <2>3. i <= k => s[i] \in Values /\ s[i] # Raw
    BY <1>1, SequenceIs, CellAssumption
  <2>4. i \in Range1(j, d) <=> j < i /\ i <= k
    BY <1>1, <2>2 DEF Range1
  <2> QED
    BY <1>2, <2>1, <2>2, <2>3, <2>4
<1> HIDE DEF m
<1>4. Destroyed(m, Len(u), d) =
      [i \in 1..n |-> IF i \notin Range1(j, d) THEN m[i] ELSE IF m[i] = Raw THEN Bad ELSE Raw]
  BY <1>1, <1>2 DEF Destroyed
<1>5. Memory(n, u) = [i \in 1..n |-> Memory(n, u)[i]]
  BY DEF Memory
<1>6. Destroyed(Memory(n, s), Len(u), d) = Memory(n, u)
  BY <1>3, <1>4, <1>5 DEF m
<1> QED
  BY <1>6, Zenon DEF LeavesIn

(* Reading elements *)
LEMMA MemoryHolds ==
  ASSUME NEW n \in Nat, NEW s \in Seq(Values), Len(s) <= n, NEW a \in Nat \ {0}, NEW b \in Int,
         b <= Len(s)
  PROVE  /\ SubSeq(Memory(n, s), a, b) = SubSeq(s, a, b)
         /\ SubSeq(s, a, b) \in Seq(Values)
         /\ Len(SubSeq(s, a, b)) = IF a <= b THEN b - a + 1 ELSE 0
         /\ \A i \in 1..(b - a + 1) : SubSeq(s, a, b)[i] = s[a + i - 1]
<1> DEFINE m == Memory(n, s)
<1>1. PICK k \in Nat : k = Len(s)
  BY SequenceIs
<1>2. \A i \in a..b : m[i] = s[i] /\ s[i] \in Values
  BY <1>1, SequenceIs DEF Memory
<1> HIDE DEF m
<1>3. /\ SubSeq(s, a, b) \in Seq(Values)
      /\ Len(SubSeq(s, a, b)) = IF a <= b THEN b - a + 1 ELSE 0
      /\ \A i \in 1..(b - a + 1) : SubSeq(s, a, b)[i] = s[a + i - 1]
  BY <1>2, SubSeqProperties, SMTT(30)
<1>4. /\ SubSeq(m, a, b) \in Seq(Values)
      /\ Len(SubSeq(m, a, b)) = IF a <= b THEN b - a + 1 ELSE 0
      /\ \A i \in 1..(b - a + 1) : SubSeq(m, a, b)[i] = m[a + i - 1]
  BY <1>2, SubSeqProperties
<1>5. ASSUME NEW i \in 1..Len(SubSeq(s, a, b)) PROVE SubSeq(s, a, b)[i] = SubSeq(m, a, b)[i]
  <2>1. i \in 1..(b - a + 1) /\ a + i - 1 \in a..b
    BY <1>3
  <2> QED
    BY <1>2, <1>3, <1>4, <2>1
<1>6. SubSeq(s, a, b) = SubSeq(m, a, b)
  BY <1>3, <1>4, <1>5, SeqEqual
<1> QED
  BY <1>3, <1>6 DEF m

ReadsAs(n, s, a, b) == SubSeq(Memory(n, s), a, b) = SubSeq(s, a, b)

(* The first of these, for citing *)
LEMMA MemoryReads ==
  ASSUME NEW n \in Nat, NEW s \in Seq(Values), Len(s) <= n, NEW a \in Nat \ {0}, NEW b \in Int,
         b <= Len(s)
  PROVE  ReadsAs(n, s, a, b)
BY MemoryHolds DEF ReadsAs

-----------------------------------------------------------------------------
(* Blocks                                                                  *)

(* What PowerOfTwo computes *)
LEMMA Powers ==
  /\ \A k \in Nat : PowerOfTwo[k] \in Nat
  /\ \A k \in Nat : PowerOfTwo[k] > k
<1> DEFINE step == [q \in Nat \X Nat |-> 2 * q[2]]
<1>1. step \in [Nat \X Nat -> Nat] /\ 1 \in Nat
  OBVIOUS
<1>2. PICK f : Iterated(f, Nat, 1, step)
  <2> HIDE DEF step
  <2> QED
    BY <1>1, Iterates
<1>3. \A k \in Nat : f[k] = IF k = 0 THEN 1 ELSE 2 * f[k - 1]
  <2> SUFFICES ASSUME NEW k \in Nat, k # 0 PROVE f[k] = 2 * f[k - 1]
    BY <1>2 DEF Iterated
  <2>1. k - 1 \in Nat /\ (k - 1) + 1 = k
    OBVIOUS
  <2>2. f[k - 1] \in Nat /\ f[(k - 1) + 1] = step[<<k - 1, f[k - 1]>>]
    BY <1>2, <2>1 DEF Iterated
  <2> QED
    BY <2>1, <2>2
<1> HIDE DEF step
<1>4. f = [k \in Nat |-> IF k = 0 THEN 1 ELSE 2 * f[k - 1]]
  BY <1>2, <1>3 DEF Iterated
<1>5. PowerOfTwo = [k \in Nat |-> IF k = 0 THEN 1 ELSE 2 * PowerOfTwo[k - 1]]
  BY <1>4, Zenon DEF PowerOfTwo
<1> DEFINE T == {k \in Nat : PowerOfTwo[k] \in Nat /\ PowerOfTwo[k] > k}
<1>6. 0 \in T
  BY <1>5
<1>7. ASSUME NEW k \in Nat, k \in T PROVE k + 1 \in T
  <2>1. PowerOfTwo[k + 1] = 2 * PowerOfTwo[k]
    BY <1>5
  <2> QED
    BY <1>7, <2>1
<1>8. Nat \subseteq T
  <2> HIDE DEF T
  <2> QED
    BY <1>6, <1>7, Induction
<1> QED
  BY <1>8

(* Grow finds a block that is large enough. *)
LEMMA TargetIs ==
  ASSUME NEW n \in Nat
  PROVE  TargetLg(n) \in Nat /\ PowerOfTwo[TargetLg(n)] >= n
<1> DEFINE Large(k) == PowerOfTwo[k] >= kFit /\ PowerOfTwo[k] >= n
           T == {k \in Nat : Large(k)}
<1>1. kFit \in Nat /\ n + kFit \in Nat
  BY FitAssumption
<1>2. n + kFit \in T
  BY <1>1, Powers
<1>3. PICK m \in T : \A k \in T : m <= k
  <2> HIDE DEF T
  <2>1. T \in SUBSET Nat /\ T # {}
    BY <1>2 DEF T
  <2> QED
    BY <2>1, LeastNatural
<1>4. m \in 0..(n + kFit)
  BY <1>1, <1>2, <1>3
<1>5. \A k \in 0..(m - 1) : PowerOfTwo[k] < kFit \/ PowerOfTwo[k] < n
  BY <1>1, <1>3, Powers
<1>6. /\ TargetLg(n) \in 0..(n + kFit)
      /\ PowerOfTwo[TargetLg(n)] >= kFit /\ PowerOfTwo[TargetLg(n)] >= n
  BY <1>3, <1>4, <1>5, Zenon DEF TargetLg
<1> QED
  BY <1>1, <1>6

(* A vector that holds s, inside (b) or in a block of 2^g cells            *)
Room(b, g) == IF b THEN kFit ELSE PowerOfTwo[g]
Rep(b, g, s) == [inline |-> b, lg |-> g, size |-> Len(s), cells |-> Memory(Room(b, g), s),
                 freed |-> TRUE]
Fits(b, g, s) == b \in BOOLEAN /\ g \in Nat /\ s \in Seq(Values) /\ Len(s) <= Room(b, g)

(* r holds s, soundly. *)
Is(r, s) == \E b, g : Fits(b, g, s) /\ r = Rep(b, g, s)

(* The parts of a vector *)
LEMMA RepHas ==
  ASSUME NEW b, NEW g, NEW s, Fits(b, g, s)
  PROVE  /\ s \in Seq(Values)
         /\ Room(b, g) \in Nat /\ Len(s) \in Nat /\ Len(s) <= Room(b, g)
         /\ Rep(b, g, s).size = Len(s) /\ Rep(b, g, s).freed
         /\ Rep(b, g, s).cells = Memory(Room(b, g), s)
         /\ Capacity(Rep(b, g, s)) = Room(b, g)
         /\ Elements(Rep(b, g, s)) = s
<1>1. b \in BOOLEAN /\ g \in Nat /\ s \in Seq(Values) /\ Len(s) \in Nat /\ Len(s) <= Room(b, g)
  BY SequenceIs DEF Fits
<1>2. Room(b, g) \in Nat
  BY <1>1, Powers, FitAssumption DEF Room
<1>3. /\ Rep(b, g, s).size = Len(s) /\ Rep(b, g, s).freed
      /\ Rep(b, g, s).cells = Memory(Room(b, g), s)
      /\ Rep(b, g, s).inline = b /\ Rep(b, g, s).lg = g
  BY DEF Rep
<1>4. Capacity(Rep(b, g, s)) = Room(b, g)
  BY <1>3 DEF Capacity, Room
<1>5. SubSeq(Memory(Room(b, g), s), 1, Len(s)) = s
  <2>1. SubSeq(Memory(Room(b, g), s), 1, Len(s)) = SubSeq(s, 1, Len(s))
    <3>1. PICK n, a, e : /\ n = Room(b, g) /\ n \in Nat /\ Len(s) <= n
                         /\ a = 1 /\ a \in Nat \ {0} /\ e = Len(s) /\ e \in Int /\ e <= Len(s)
      BY <1>1, <1>2 DEF Fits
    <3>2. s \in Seq(Values)
      BY <1>1
    <3>3. ReadsAs(n, s, a, e)
      BY <3>1, <3>2, MemoryReads
    <3> QED
      BY <3>1, <3>3, Zenon DEF ReadsAs
  <2> QED
    BY <1>1, <2>1, SubSeqFull
<1> QED
  BY <1>1, <1>2, <1>3, <1>4, <1>5 DEF Elements

(* A vector by its fields *)
Vector(b, g, k, m, f) == [inline |-> b, lg |-> g, size |-> k, cells |-> m, freed |-> f]

(* A vector with other cells *)
LEMMA NewCells ==
  ASSUME NEW b, NEW g, NEW k, NEW m, NEW f, NEW w
  PROVE  [Vector(b, g, k, m, f) EXCEPT !.cells = w] = Vector(b, g, k, w, f)
  BY DEF Vector

(* A vector with another freed *)
LEMMA NewFreed ==
  ASSUME NEW b, NEW g, NEW k, NEW m, NEW f, NEW e
  PROVE  [Vector(b, g, k, m, f) EXCEPT !.freed = e] = Vector(b, g, k, m, e)
  BY DEF Vector

(* A vector with another size *)
LEMMA NewSize ==
  ASSUME NEW b, NEW g, NEW k, NEW m, NEW f, NEW n, NEW r, r = Vector(b, g, k, m, f)
  PROVE  Sized(r, n) = Vector(b, g, n, m, f)
<1>1. Sized(Vector(b, g, k, m, f), n) = Vector(b, g, n, m, f)
  BY DEF Vector, Sized
<1> QED
  BY <1>1

(* A method that leaves u in the memory and sets the size to its length makes a vector of u. *)
LEMMA Rewritten ==
  ASSUME NEW b, NEW g, NEW s, NEW u, NEW n, n = Len(u), NEW w, w = Memory(Room(b, g), u)
  PROVE  Sized([Rep(b, g, s) EXCEPT !.cells = w], n) = Rep(b, g, u)
<1>0. PICK f, k, m : f = TRUE /\ k = Len(s) /\ m = Memory(Room(b, g), s)
  OBVIOUS
<1>1. Rep(b, g, s) = Vector(b, g, k, m, f)
  BY <1>0 DEF Rep, Vector
<1>2. [Vector(b, g, k, m, f) EXCEPT !.cells = w] = Vector(b, g, k, w, f)
  BY NewCells
<1>3. [Rep(b, g, s) EXCEPT !.cells = w] = Vector(b, g, k, w, f)
  BY <1>1, <1>2, Zenon
<1>4. Sized([Rep(b, g, s) EXCEPT !.cells = w], n) = Vector(b, g, n, w, f)
  BY <1>3, NewSize
<1> QED
  BY <1>0, <1>4 DEF Rep, Vector

(* What moves out of a block and is destroyed there leaves it raw. *)
LEMMA BlockIsLeft ==
  ASSUME NEW b, NEW g, NEW s, Fits(b, g, s)
  PROVE  /\ Discarded(Rep(b, g, s), Rep(b, g, s).cells)
         /\ Discarded(Rep(b, g, s), MovedFrom(Rep(b, g, s).cells, Len(s)))
<1>1. PICK n \in Nat, k \in Nat : n = Room(b, g) /\ k = Len(s) /\ k <= n
  BY RepHas
<1> DEFINE m == Memory(n, s)
<1>2. DOMAIN m = 1..n /\ \A i \in 1..n : m[i] = IF i <= k THEN s[i] ELSE Raw
  BY <1>1 DEF Memory
<1>3. \A i \in 1..k : s[i] # Raw
  BY <1>1, SequenceIs, CellAssumption DEF Fits
<1> HIDE DEF m
<1>4. AllRaw(Destroyed(m, 0, k))
  BY <1>1, <1>2, <1>3 DEF AllRaw, Destroyed, Range1
<1>5. AllRaw(Destroyed(MovedFrom(m, k), 0, k))
  <2>1. /\ DOMAIN MovedFrom(m, k) = 1..n
        /\ \A i \in 1..n : MovedFrom(m, k)[i] = IF i <= k THEN Moved ELSE Raw
    BY <1>1, <1>2 DEF MovedFrom
  <2>2. Moved # Raw
    BY DEF Moved, Raw
  <2> QED
    BY <1>1, <2>1, <2>2 DEF AllRaw, Destroyed, Range1
<1> QED
  BY <1>1, <1>4, <1>5, RepHas DEF Discarded, m

(* Constructing in a new block: the new elements, and then the old ones before them *)
LEMMA BuiltIs ==
  ASSUME NEW n \in Nat, NEW s \in Seq(Values), NEW t \in Seq(Values), NEW u, Joined(u, s, t),
         Len(u) <= n
  PROVE  Constructed(Constructed(RawCells(n), Len(s), t), 0, s) = Memory(n, u)
<1>1. PICK k \in Nat, j \in Nat : k = Len(s) /\ j = Len(t)
  BY SequenceIs
<1> DEFINE m == Constructed(RawCells(n), Len(s), t)
<1>2. m = [i \in 1..n |-> IF i \notin Range1(k, j) THEN Raw
                          ELSE IF t[i - k] \in {Raw, Bad} THEN Bad ELSE t[i - k]]
  BY <1>1 DEF Constructed, RawCells
<1>3. DOMAIN m = 1..n
  BY <1>2
<1>4. \A i \in 1..n : m[i] = IF k < i /\ i <= k + j THEN t[i - k] ELSE Raw
  <2> SUFFICES ASSUME NEW i \in 1..n
               PROVE  m[i] = IF k < i /\ i <= k + j THEN t[i - k] ELSE Raw
    OBVIOUS
  <2>1. i \in Range1(k, j) <=> k < i /\ i <= k + j
    BY DEF Range1
  <2>2. i \in Range1(k, j) => i - k \in 1..Len(t)
    BY <1>1, <2>1
  <2>3. i \in Range1(k, j) => t[i - k] \notin {Raw, Bad}
    BY <2>2, SequenceIs, CellAssumption
  <2> HIDE DEF m
  <2> QED
    BY <1>2, <2>1, <2>3
<1> HIDE DEF m
<1>5. ASSUME NEW i \in 1..n
      PROVE  (IF i \notin Range1(0, k) THEN m[i]
              ELSE IF m[i] # Raw \/ s[i - 0] \in {Raw, Bad} THEN Bad ELSE s[i - 0])
             = Memory(n, u)[i]
  <2>1. Memory(n, u)[i] = IF i <= k + j THEN u[i] ELSE Raw
    BY <1>1 DEF Memory, Joined
  <2>2. i \in Range1(0, k) <=> i <= k
    BY DEF Range1
  <2>3. CASE i <= k
    <3>1. m[i] = Raw /\ i - 0 = i /\ i \in 1..Len(s)
      BY <1>1, <1>4, <2>3
    <3>2. u[i] = s[i] /\ s[i] \notin {Raw, Bad}
      BY <3>1, SequenceIs, CellAssumption DEF Joined
    <3> QED
      BY <2>1, <2>2, <2>3, <3>1, <3>2
  <2>4. CASE k < i /\ i <= k + j
    <3>1. i - k \in 1..Len(t) /\ i = Len(s) + (i - k)
      BY <1>1, <2>4
    <3>2. u[i] = t[i - k]
      BY <3>1 DEF Joined
    <3> QED
      BY <1>4, <2>1, <2>2, <2>4, <3>2
  <2>5. CASE k + j < i
    BY <1>4, <2>1, <2>2, <2>5
  <2> QED
    BY <2>3, <2>4, <2>5
<1>6. Constructed(m, 0, s) =
      [i \in 1..n |-> IF i \notin Range1(0, k) THEN m[i]
                      ELSE IF m[i] # Raw \/ s[i - 0] \in {Raw, Bad} THEN Bad ELSE s[i - 0]]
  BY <1>1, <1>3 DEF Constructed
<1>7. Memory(n, u) = [i \in 1..n |-> Memory(n, u)[i]]
  BY DEF Memory
<1> QED
  BY <1>5, <1>6, <1>7 DEF m

(* What Grow has to do: with the size set, it is a vector of u in a block that has room for n. *)
Arguments(r, args) == [i \in DOMAIN args |-> Argument(r.cells, args[i])]
GrownTo(r, n, args, t, u) ==
  \E c, h : /\ Fits(c, h, u) /\ n <= Room(c, h)
            /\ Sized(Grow(r, n, args), Len(u)) = Rep(c, h, u)
            /\ t = <<>> => Grow(r, n, args) = Rep(c, h, u)

(* Grow moves the elements to a block that has room, and constructs the new ones there. *)
LEMMA GrowIs ==
  ASSUME NEW r, NEW s, Is(r, s), NEW args, NEW t \in Seq(Values), t = Arguments(r, args),
         NEW u, Joined(u, s, t), NEW n \in Nat, Len(u) <= n
  PROVE  GrownTo(r, n, args, t, u)
<1>0. PICK b, g : Fits(b, g, s) /\ r = Rep(b, g, s)
  BY DEF Is
<1>1. PICK h \in Nat : h = TargetLg(n) /\ PowerOfTwo[h] >= n
  BY TargetIs
<1>2. PowerOfTwo[h] \in Nat /\ Len(u) \in Nat /\ u \in Seq(Values)
  BY <1>1, Powers, SequenceIs DEF Joined
<1>3. Room(FALSE, h) = PowerOfTwo[h]
  BY DEF Room
<1>4. Fits(FALSE, h, u)
  <2>1. Len(u) <= PowerOfTwo[h]
    BY <1>1, <1>2
  <2> QED
    BY <1>2, <2>1 DEF Fits, Room
<1>5. Constructed(Constructed(RawCells(PowerOfTwo[h]), Len(s), t), 0, s) = Memory(PowerOfTwo[h], u)
  BY <1>0, <1>1, <1>2, RepHas, BuiltIs
<1>6. Discarded(r, MovedFrom(r.cells, r.size)) = TRUE
  <2>1. Discarded(r, MovedFrom(r.cells, r.size))
    BY <1>0, RepHas, BlockIsLeft
  <2>2. Discarded(r, MovedFrom(r.cells, r.size)) \in BOOLEAN
    BY <1>0 DEF Discarded, AllRaw, Rep
  <2> QED
    BY <2>1, <2>2
<1>7. Grow(r, n, args) = Vector(FALSE, h, Len(s), Memory(PowerOfTwo[h], u), TRUE)
  <2>1. r.size = Len(s) /\ Elements(r) = s
    BY <1>0, RepHas
  <2>2. Grow(r, n, args)
        = Vector(FALSE, h, Len(s),
            Constructed(Constructed(RawCells(PowerOfTwo[h]), Len(s), t), 0, s),
            Discarded(r, MovedFrom(r.cells, r.size)))
    BY <1>1, <2>1, Zenon DEF Grow, Vector, Arguments
  <2> QED
    BY <1>5, <1>6, <2>2, Zenon
<1>8. PICK c, f, k, w, l : /\ c = FALSE /\ f = TRUE /\ k = Len(s)
                          /\ w = Memory(PowerOfTwo[h], u) /\ l = Len(u)
  OBVIOUS
<1>9. Grow(r, n, args) = Vector(c, h, k, w, f)
  BY <1>7, <1>8, Zenon
<1>10. Sized(Grow(r, n, args), l) = Vector(c, h, l, w, f)
  BY <1>9, NewSize
<1>11. Rep(c, h, u) = Vector(c, h, l, w, f)
  BY <1>3, <1>8 DEF Rep, Vector
<1>12. Sized(Grow(r, n, args), Len(u)) = Rep(c, h, u)
  BY <1>8, <1>10, <1>11, Zenon
<1>13. ASSUME t = <<>> PROVE Grow(r, n, args) = Rep(c, h, u)
  <2>1. Len(u) = Len(s)
    BY <1>0, <1>13, RepHas, EmptySeq DEF Joined
  <2> QED
    BY <1>8, <1>9, <1>11, <2>1, Zenon
<1>14. Fits(c, h, u) /\ n <= Room(c, h)
  <2>1. n <= PowerOfTwo[h]
    BY <1>1, <1>2
  <2> QED
    BY <1>3, <1>4, <1>8, <2>1
<1> QED
  BY <1>12, <1>13, <1>14, Zenon DEF GrownTo

-----------------------------------------------------------------------------
(* Sequences                                                               *)

(* Two sequences with the same elements *)
LEMMA SameSequence ==
  ASSUME NEW s \in Seq(Values), NEW t \in Seq(Values), Len(s) = Len(t),
         \A i \in 1..Len(s) : s[i] = t[i]
  PROVE  s = t
  BY SeqEqual

(* The empty sequence, and one of one value *)
LEMMA ShortSequences ==
  ASSUME NEW v \in Values
  PROVE  /\ <<>> \in Seq(Values) /\ Len(<<>>) = 0
         /\ <<v>> \in Seq(Values) /\ Len(<<v>>) = 1 /\ <<v>>[1] = v
  BY EmptySeq

(* The ways to join *)
LEMMA JoinedIs ==
  ASSUME NEW s \in Seq(Values), NEW t \in Seq(Values)
  PROVE  /\ Joined(s \o t, s, t)
         /\ \A u : Joined(u, s, t) => u = s \o t
         /\ Joined(s, s, <<>>) /\ Joined(s, <<>>, s)
<1>1. s \o t \in Seq(Values) /\ Len(s \o t) = Len(s) + Len(t) /\ Len(s) \in Nat /\ Len(t) \in Nat
  BY ConcatProperties, SequenceIs
<1>2. \A i \in 1..(Len(s) + Len(t)) :
        (s \o t)[i] = IF i <= Len(s) THEN s[i] ELSE t[i - Len(s)]
  BY ConcatProperties
<1>3. \A i \in 1..Len(s) : (s \o t)[i] = s[i]
  BY <1>1, <1>2
<1>4. \A i \in 1..Len(t) : (s \o t)[Len(s) + i] = t[i]
  <2> SUFFICES ASSUME NEW i \in 1..Len(t) PROVE (s \o t)[Len(s) + i] = t[i]
    OBVIOUS
  <2>1. Len(s) + i \in 1..(Len(s) + Len(t)) /\ ~(Len(s) + i <= Len(s)) /\ (Len(s) + i) - Len(s) = i
    BY <1>1
  <2> QED
    BY <1>2, <2>1
<1>5. Joined(s \o t, s, t)
  BY <1>1, <1>3, <1>4 DEF Joined
<1>6. ASSUME NEW u, Joined(u, s, t) PROVE u = s \o t
  <2>1. u \in Seq(Values) /\ Len(u) = Len(s \o t)
    BY <1>1, <1>6 DEF Joined
  <2>2. ASSUME NEW i \in 1..Len(u) PROVE u[i] = (s \o t)[i]
    <3>1. CASE i <= Len(s)
      BY <1>1, <1>3, <1>6, <2>1, <3>1 DEF Joined
    <3>2. CASE i > Len(s)
      <4>1. PICK j \in 1..Len(t) : i = Len(s) + j
        <5>1. i - Len(s) \in 1..Len(t) /\ i = Len(s) + (i - Len(s))
          BY <1>1, <2>1, <3>2
        <5> QED
          BY <5>1
      <4>2. u[Len(s) + j] = t[j]
        BY <1>6 DEF Joined
      <4>3. (s \o t)[Len(s) + j] = t[j]
        BY <1>4
      <4> QED
        BY <4>1, <4>2, <4>3, Zenon
    <3>3. i <= Len(s) \/ i > Len(s)
      BY <1>1, <2>1
    <3> QED
      BY <3>1, <3>2, <3>3, Zenon
  <2> QED
    BY <1>1, <2>1, <2>2, SameSequence
<1>7. <<>> \in Seq(Values) /\ Len(<<>>) = 0
  BY EmptySeq
<1>8. Joined(s, s, <<>>) /\ Joined(s, <<>>, s)
  BY <1>1, <1>7 DEF Joined
<1> QED
  BY <1>5, <1>6, <1>8

(* Append joins a sequence of one. *)
LEMMA AppendJoins ==
  ASSUME NEW s \in Seq(Values), NEW v \in Values
  PROVE  Joined(Append(s, v), s, <<v>>) /\ Append(s, v) = s \o <<v>>
<1>1. /\ Append(s, v) \in Seq(Values) /\ Len(Append(s, v)) = Len(s) + 1
      /\ \A i \in 1..Len(s) : Append(s, v)[i] = s[i]
      /\ Append(s, v)[Len(s) + 1] = v
  BY SequenceIs
<1>2. <<v>> \in Seq(Values) /\ Len(<<v>>) = 1 /\ <<v>>[1] = v
  BY ShortSequences
<1>3. Joined(Append(s, v), s, <<v>>)
  <2>1. ASSUME NEW i \in 1..Len(<<v>>) PROVE Append(s, v)[Len(s) + i] = <<v>>[i]
    BY <1>1, <1>2
  <2> QED
    BY <1>1, <1>2, <2>1 DEF Joined
<1> QED
  BY <1>2, <1>3, JoinedIs

(* A part of a sequence *)
LEMMA PartIs ==
  ASSUME NEW s \in Seq(Values), NEW a \in Nat \ {0}, NEW b \in Int, b <= Len(s)
  PROVE  /\ SubSeq(s, a, b) \in Seq(Values)
         /\ Len(SubSeq(s, a, b)) = IF a <= b THEN b - a + 1 ELSE 0
         /\ \A i \in 1..(b - a + 1) : SubSeq(s, a, b)[i] = s[a + i - 1]
  BY SequenceIs, MemoryHolds

(* The beginning of a sequence *)
LEMMA BeginningIs ==
  ASSUME NEW s \in Seq(Values), NEW k \in 0..Len(s)
  PROVE  Beginning(SubSeq(s, 1, k), s) /\ Len(SubSeq(s, 1, k)) = k
<1>1. k \in Nat /\ k <= Len(s) /\ Len(s) \in Nat
  BY SequenceIs
<1>2. SubSeq(s, 1, k) \in Seq(Values) /\ Len(SubSeq(s, 1, k)) = k
  BY <1>1, PartIs
<1>3. \A i \in 1..k : SubSeq(s, 1, k)[i] = s[i]
  <2> SUFFICES ASSUME NEW i \in 1..k PROVE SubSeq(s, 1, k)[i] = s[i]
    OBVIOUS
  <2>1. i \in 1..(k - 1 + 1) /\ 1 + i - 1 = i
    BY <1>1
  <2>2. SubSeq(s, 1, k)[i] = s[1 + i - 1]
    BY <1>1, <2>1, PartIs
  <2> QED
    BY <2>1, <2>2
<1> QED
  BY <1>1, <1>2, <1>3 DEF Beginning

(* A value n times *)
LEMMA RepeatedIs ==
  ASSUME NEW n \in Nat, NEW v \in Values
  PROVE  /\ Repeated(n, v) \in Seq(Values) /\ Len(Repeated(n, v)) = n
         /\ \A i \in 1..n : Repeated(n, v)[i] = v
<1>1. Repeated(n, v) \in [1..n -> Values]
  BY DEF Repeated
<1>2. Repeated(n, v) \in Seq(Values)
  BY <1>1, SeqDef
<1>3. Len(Repeated(n, v)) = n
  BY <1>2 DEF Repeated
<1> QED
  BY <1>2, <1>3 DEF Repeated

-----------------------------------------------------------------------------
(* The methods                                                             *)

(* Constructing t behind the elements makes a vector of u. *)
AddedTo(b, g, s, t, u) ==
  /\ Sized([Rep(b, g, s) EXCEPT !.cells = Constructed(Memory(Room(b, g), s), Len(s), t)], Len(u))
     = Rep(b, g, u)
  /\ Fits(b, g, u)

(* So it does when u is s and then t, and there is room. *)
LEMMA AddedIs ==
  ASSUME NEW b, NEW g, NEW s, Fits(b, g, s), NEW t \in Seq(Values), NEW u, Joined(u, s, t),
         Len(u) <= Room(b, g)
  PROVE  AddedTo(b, g, s, t, u)
<1>1. PICK w : w = Constructed(Memory(Room(b, g), s), Len(s), t)
  OBVIOUS
<1>2. w = Memory(Room(b, g), u)
  BY <1>1, RepHas, ConstructedIs
<1>3. PICK n : n = Len(u)
  OBVIOUS
<1>4. Sized([Rep(b, g, s) EXCEPT !.cells = w], n) = Rep(b, g, u)
  BY <1>2, <1>3, Rewritten
<1>5. Fits(b, g, u)
  BY DEF Fits, Joined
<1> QED
  BY <1>1, <1>3, <1>4, <1>5, Zenon DEF AddedTo

(* Assigning t to the elements after the first from leaves u in the memory. *)
ChangedTo(b, g, s, from, t, u) ==
  Assigned(Memory(Room(b, g), s), from, t) = Memory(Room(b, g), u) /\ Fits(b, g, u)

(* So it does when u is s with t over it. *)
LEMMA ChangedIs ==
  ASSUME NEW b, NEW g, NEW s, Fits(b, g, s), NEW t \in Seq(Values), NEW from \in Nat, NEW u,
         Overlaid(u, s, from, t), from + Len(t) <= Len(s)
  PROVE  ChangedTo(b, g, s, from, t, u)
<1>1. Assigned(Memory(Room(b, g), s), from, t) = Memory(Room(b, g), u)
  BY RepHas, AssignedIs
<1> QED
  BY <1>1, RepHas DEF Fits, Overlaid, ChangedTo

(* Destroying the last d elements makes a vector of u. *)
CutTo(b, g, s, u, d) ==
  /\ Sized([Rep(b, g, s) EXCEPT !.cells = Destroyed(Memory(Room(b, g), s), Len(u), d)], Len(u))
     = Rep(b, g, u)
  /\ Fits(b, g, u)

(* So it does when u is the beginning of s that is left. *)
LEMMA CutIs ==
  ASSUME NEW b, NEW g, NEW s, Fits(b, g, s), NEW u, Beginning(u, s), NEW d, d = Len(s) - Len(u)
  PROVE  CutTo(b, g, s, u, d)
<1>1. PICK w : w = Destroyed(Memory(Room(b, g), s), Len(u), d)
  OBVIOUS
<1>2. w = Memory(Room(b, g), u)
  <2>1. s \in Seq(Values) /\ Room(b, g) \in Nat /\ Len(s) <= Room(b, g)
    BY RepHas
  <2>2. LeavesIn(Room(b, g), s, u, d)
    BY <2>1, DestroyedIs
  <2> QED
    BY <1>1, <2>2, Zenon DEF LeavesIn
<1>3. PICK n : n = Len(u)
  OBVIOUS
<1>4. Sized([Rep(b, g, s) EXCEPT !.cells = w], n) = Rep(b, g, u)
  BY <1>2, <1>3, Rewritten
<1>5. Fits(b, g, u)
  BY RepHas, SequenceIs, SMTT(30) DEF Fits, Beginning
<1> QED
  BY <1>1, <1>3, <1>4, <1>5, Zenon DEF CutTo

(* A new vector is empty. *)
LEMMA InitIs == Is(InitRep, <<>>) /\ InitRep = Rep(TRUE, 0, <<>>) /\ Fits(TRUE, 0, <<>>)
<1>1. <<>> \in Seq(Values) /\ Len(<<>>) = 0
  BY EmptySeq
<1>2. Memory(kFit, <<>>) = RawCells(kFit)
  BY <1>1, FitAssumption DEF Memory, RawCells
<1>3. InitRep = Rep(TRUE, 0, <<>>)
  BY <1>1, <1>2 DEF InitRep, Rep, Room
<1>4. Fits(TRUE, 0, <<>>)
  BY <1>1, FitAssumption DEF Fits, Room
<1> QED
  BY <1>3, <1>4 DEF Is

(* Clear gives its memory up raw. *)
LEMMA ClearIs ==
  ASSUME NEW r, NEW s, Is(r, s)
  PROVE  Clear(r) = InitRep
<1>1. PICK b, g : Fits(b, g, s) /\ r = Rep(b, g, s)
  BY DEF Is
<1>2. Discarded(r, r.cells) = TRUE
  <2>1. Discarded(r, r.cells) /\ Discarded(r, r.cells) \in BOOLEAN
    BY <1>1, BlockIsLeft DEF Discarded, AllRaw, Rep
  <2> QED
    BY <2>1
<1>3. PICK i, f, m : i = TRUE /\ f = TRUE /\ m = RawCells(kFit)
  OBVIOUS
<1>4. InitRep = Vector(i, 0, 0, m, f)
  BY <1>3 DEF InitRep, Vector
<1>5. [Vector(i, 0, 0, m, f) EXCEPT !.freed = f] = Vector(i, 0, 0, m, f)
  BY NewFreed
<1>6. [InitRep EXCEPT !.freed = f] = InitRep
  BY <1>4, <1>5, Zenon
<1> QED
  BY <1>2, <1>3, <1>6 DEF Clear

(* Reserve makes room and keeps the elements. *)
LEMMA ReserveIs ==
  ASSUME NEW r, NEW s, Is(r, s), NEW n \in Nat
  PROVE  \E b, g : Fits(b, g, s) /\ Reserve(r, n) = Rep(b, g, s) /\ n <= Room(b, g)
<1>1. PICK b, g : Fits(b, g, s) /\ r = Rep(b, g, s)
  BY DEF Is
<1>2. /\ s \in Seq(Values) /\ Room(b, g) \in Nat /\ Len(s) \in Nat /\ Len(s) <= Room(b, g)
      /\ Capacity(r) = Room(b, g)
  BY <1>1, RepHas
<1>3. CASE n > Room(b, g)
  <2>1. PICK t : t = <<>> /\ t \in Seq(Values)
    BY EmptySeq
  <2>2. t = Arguments(r, t) /\ Joined(s, s, t)
    BY <1>2, <2>1, JoinedIs DEF Arguments
  <2>3. PICK c, h : Fits(c, h, s) /\ n <= Room(c, h) /\ Grow(r, n, t) = Rep(c, h, s)
    <3>1. Len(s) <= n
      BY <1>2, <1>3
    <3>2. GrownTo(r, n, t, t, s)
      BY <2>1, <2>2, <3>1, GrowIs
    <3> QED
      BY <2>1, <3>2 DEF GrownTo
  <2>4. Reserve(r, n) = Rep(c, h, s)
    BY <1>2, <1>3, <2>1, <2>3, Zenon DEF Reserve
  <2> QED
    BY <2>3, <2>4
<1>4. CASE n <= Room(b, g)
  BY <1>1, <1>2, <1>4 DEF Reserve
<1> QED
  BY <1>2, <1>3, <1>4

(* EmplaceBack appends its argument, which may be an element of the vector. *)
LEMMA EmplaceBackIs ==
  ASSUME NEW r, NEW s, Is(r, s), NEW arg, arg.alias \in 0..Len(s), NEW v \in Values,
         v = IF arg.alias > 0 THEN s[arg.alias] ELSE arg.value
  PROVE  Is(EmplaceBack(r, arg), Append(s, v))
<1>1. PICK b, g : Fits(b, g, s) /\ r = Rep(b, g, s)
  BY DEF Is
<1>2. /\ s \in Seq(Values) /\ Room(b, g) \in Nat /\ Len(s) \in Nat /\ Len(s) <= Room(b, g)
      /\ Capacity(r) = Room(b, g) /\ r.cells = Memory(Room(b, g), s) /\ r.size = Len(s)
  BY <1>1, RepHas
<1>5. PICK t : t = <<v>> /\ t \in Seq(Values) /\ Len(t) = 1
  BY ShortSequences
<1>3. PICK u : u = Append(s, v) /\ Joined(u, s, t) /\ Len(u) = Len(s) + 1
  <2>1. Joined(Append(s, v), s, t)
    BY <1>2, <1>5, AppendJoins
  <2>2. Len(Append(s, v)) = Len(s) + Len(t)
    BY <2>1 DEF Joined
  <2> QED
    BY <1>5, <2>1, <2>2
<1>8. Joined(u, s, t) /\ t \in Seq(Values)
  BY <1>3, <1>5
<1>9. Len(u) = Len(s) + 1
  BY <1>3
<1>4. Argument(r.cells, arg) = v
  <2>1. \A i \in 1..Len(s) : r.cells[i] = s[i]
    BY <1>2 DEF Memory
  <2> QED
    BY <1>2, <2>1 DEF Argument
<1>6. CASE r.size < Capacity(r)
  <2>1. AddedTo(b, g, s, t, u)
    <3>1. Len(u) <= Room(b, g)
      BY <1>2, <1>6, <1>9
    <3> QED
      BY <1>1, <1>8, <3>1, AddedIs
  <2>2. EmplaceBack(r, arg)
        = Sized([r EXCEPT !.cells = Constructed(r.cells, r.size, t)], r.size + 1)
    BY <1>4, <1>5, <1>6, Zenon DEF EmplaceBack
  <2>3. r.size + 1 = Len(u)
    BY <1>2, <1>3
  <2>4. EmplaceBack(r, arg) = Rep(b, g, u) /\ Fits(b, g, u)
    BY <1>1, <1>2, <2>1, <2>2, <2>3, Zenon DEF AddedTo
  <2> QED
    BY <1>3, <2>4 DEF Is
<1>7. CASE ~(r.size < Capacity(r))
  <2>1. PICK args : args = <<arg>>
    OBVIOUS
  <2>2. t = Arguments(r, args)
    BY <1>4, <1>5, <2>1 DEF Arguments
  <2>3. PICK n \in Nat : n = Len(u) /\ n = r.size + 1
    BY <1>2, <1>3
  <2>4. GrownTo(r, n, args, t, u)
    <3>1. Len(u) <= n
      BY <2>3
    <3> QED
      BY <1>8, <2>2, <3>1, GrowIs
  <2>5. PICK c, h : Fits(c, h, u) /\ Sized(Grow(r, n, args), Len(u)) = Rep(c, h, u)
    BY <2>4 DEF GrownTo
  <2>6. EmplaceBack(r, arg) = Sized(Grow(r, n, args), Len(u))
    BY <1>7, <2>1, <2>3, Zenon DEF EmplaceBack
  <2> QED
    BY <1>3, <2>5, <2>6 DEF Is
<1> QED
  BY <1>6, <1>7

(* PopBack destroys the last element. *)
LEMMA PopBackIs ==
  ASSUME NEW r, NEW s, Is(r, s), Len(s) > 0
  PROVE  Is(PopBack(r), SubSeq(s, 1, Len(s) - 1))
<1>1. PICK b, g : Fits(b, g, s) /\ r = Rep(b, g, s)
  BY DEF Is
<1>2. /\ s \in Seq(Values) /\ Len(s) \in Nat /\ r.cells = Memory(Room(b, g), s) /\ r.size = Len(s)
  BY <1>1, RepHas
<1>3. PICK n : n = Len(s) - 1 /\ n \in 0..Len(s) /\ Len(s) - n = 1
  BY <1>2
<1>4. PICK u : u = SubSeq(s, 1, n) /\ Beginning(u, s) /\ Len(u) = n
  BY <1>2, <1>3, BeginningIs
<1>5. PICK d : d = 1 /\ d = Len(s) - Len(u)
  BY <1>3, <1>4
<1>6. CutTo(b, g, s, u, d)
  BY <1>1, <1>4, <1>5, CutIs
<1>7. PopBack(r) = Sized([r EXCEPT !.cells = Destroyed(r.cells, r.size - 1, 1)], r.size - 1)
  BY Zenon DEF PopBack
<1>8. r.size - 1 = Len(u)
  BY <1>2, <1>3, <1>4
<1>9. PopBack(r) = Rep(b, g, u) /\ Fits(b, g, u)
  BY <1>1, <1>2, <1>5, <1>6, <1>7, <1>8, Zenon DEF CutTo
<1> QED
  BY <1>3, <1>4, <1>9 DEF Is

(* Any sequence can be laid over another. *)
LEMMA OverlayExists ==
  ASSUME NEW s \in Seq(Values), NEW t \in Seq(Values), NEW from \in Nat
  PROVE  \E u : Overlaid(u, s, from, t)
<1>1. PICK k \in Nat, j \in Nat : k = Len(s) /\ j = Len(t)
  BY SequenceIs
<1> DEFINE u == [i \in 1..k |-> IF from < i /\ i <= from + j THEN t[i - from] ELSE s[i]]
<1>2. u \in [1..k -> Values]
  <2> SUFFICES ASSUME NEW i \in 1..k
               PROVE  (IF from < i /\ i <= from + j THEN t[i - from] ELSE s[i]) \in Values
    OBVIOUS
  <2>1. from < i /\ i <= from + j => i - from \in 1..Len(t)
    BY <1>1
  <2>2. s[i] \in Values
    BY <1>1, SequenceIs
  <2> QED
    BY <2>1, <2>2, SequenceIs
<1>3. u \in Seq(Values)
  <2> HIDE DEF u
  <2> QED
    BY <1>2, SeqDef
<1>4. Len(u) = k
  BY <1>3
<1>5. \A i \in 1..Len(s) : u[i] = IF from < i /\ i <= from + Len(t) THEN t[i - from] ELSE s[i]
  BY <1>1
<1> HIDE DEF u
<1> QED
  BY <1>1, <1>3, <1>4, <1>5 DEF Overlaid

(* What is left after Erase *)
LEMMA ErasedIs ==
  ASSUME NEW s \in Seq(Values), NEW first \in 0..Len(s), NEW last \in first..Len(s),
         NEW t, t = SubSeq(s, last + 1, Len(s)), NEW o, Overlaid(o, s, first, t)
  PROVE  /\ Beginning(SubSeq(s, 1, first) \o t, o)
         /\ Len(SubSeq(s, 1, first) \o t) = Len(s) - (last - first)
<1>1. Len(s) \in Nat /\ first \in Nat /\ last \in Nat /\ first <= last /\ last <= Len(s)
  BY SequenceIs
<1>2. PICK u : u = SubSeq(s, 1, first) \o t
  OBVIOUS
<1>3. PICK a : a = SubSeq(s, 1, first) /\ Beginning(a, s) /\ Len(a) = first
  BY <1>1, BeginningIs
<1>4. t \in Seq(Values) /\ Len(t) = Len(s) - last
  <2>1. last + 1 \in Nat \ {0} /\ Len(s) \in Int /\ Len(s) <= Len(s)
    BY <1>1
  <2>2. /\ SubSeq(s, last + 1, Len(s)) \in Seq(Values)
        /\ Len(SubSeq(s, last + 1, Len(s))) = IF last + 1 <= Len(s) THEN Len(s) - (last + 1) + 1 ELSE 0
    BY <2>1, PartIs
  <2> QED
    BY <1>1, <2>2
<1>5. Joined(u, a, t)
  <2>1. a \in Seq(Values) /\ t \in Seq(Values)
    BY <1>3, <1>4 DEF Beginning
  <2>2. Joined(a \o t, a, t)
    BY <2>1, JoinedIs, ZenonT(30)
  <2> QED
    BY <1>2, <1>3, <2>2, Zenon
<1>6. u \in Seq(Values) /\ Len(u) = Len(s) - (last - first)
  <2>1. u \in Seq(Values) /\ Len(u) = Len(a) + Len(t) /\ Len(a) = first
    BY <1>3, <1>5 DEF Joined
  <2> QED
    BY <1>1, <1>4, <2>1
<1>7. ASSUME NEW i \in 1..Len(u) PROVE u[i] = o[i]
  <2>1. i \in 1..Len(s)
    BY <1>1, <1>6
  <2>2. CASE i <= first
    <3>1. i \in 1..Len(a)
      BY <1>3, <2>2
    <3>2. u[i] = a[i] /\ a[i] = s[i]
      BY <1>3, <1>5, <3>1 DEF Joined, Beginning
    <3>3. o[i] = s[i]
      BY <1>1, <2>1, <2>2 DEF Overlaid
    <3> QED
      BY <3>2, <3>3
  <2>3. CASE first < i
    <3>1. PICK j : j = i - first /\ j \in 1..Len(t) /\ i = first + j
      BY <1>1, <1>4, <1>6, <2>3
    <3>2. u[Len(a) + j] = t[j]
      BY <1>5, <3>1 DEF Joined
    <3>3. u[i] = t[j]
      BY <1>3, <3>1, <3>2
    <3>4. i <= first + Len(t)
      BY <1>1, <1>4, <3>1
    <3>5. o[i] = t[i - first]
      BY <1>1, <2>1, <2>3, <3>4 DEF Overlaid
    <3> QED
      BY <3>1, <3>3, <3>5
  <2> QED
    BY <1>1, <2>1, <2>2, <2>3
<1>8. Beginning(u, o)
  <2>1. Len(u) <= Len(o)
    BY <1>1, <1>6 DEF Overlaid
  <2> QED
    BY <1>6, <1>7, <2>1 DEF Beginning
<1> QED
  BY <1>2, <1>6, <1>8

(* Erase assigns what follows to the gap, and destroys the last elements. *)
LEMMA EraseIs ==
  ASSUME NEW r, NEW s, Is(r, s), NEW first \in 0..Len(s), NEW last \in first..Len(s)
  PROVE  Is(Erase(r, first, last), SubSeq(s, 1, first) \o SubSeq(s, last + 1, Len(s)))
<1>1. PICK b, g : Fits(b, g, s) /\ r = Rep(b, g, s)
  BY DEF Is
<1>2. /\ s \in Seq(Values) /\ Len(s) \in Nat /\ r.cells = Memory(Room(b, g), s) /\ r.size = Len(s)
      /\ Room(b, g) \in Nat /\ Len(s) <= Room(b, g)
  BY <1>1, RepHas
<1>3. PICK t : t = SubSeq(s, last + 1, Len(s))
  OBVIOUS
<1>4. t \in Seq(Values) /\ Len(t) = Len(s) - last /\ SubSeq(r.cells, last + 1, r.size) = t
  <2>1. last + 1 \in Nat \ {0} /\ Len(s) \in Int /\ Len(s) <= Len(s) /\ last <= Len(s) /\ last \in Int
    BY <1>2
  <2>2. PICK a : a = last + 1 /\ a \in Nat \ {0} /\ a <= Len(s) + 1
    BY <2>1
  <2>3. s \in Seq(Values) /\ Room(b, g) \in Nat /\ Len(s) <= Room(b, g) /\ a \in Nat \ {0}
    BY <1>2, <2>2
  <2>4. SubSeq(Memory(Room(b, g), s), a, Len(s)) = SubSeq(s, a, Len(s))
    BY <2>1, <2>3, MemoryHolds
  <2>5. /\ SubSeq(s, a, Len(s)) \in Seq(Values)
        /\ Len(SubSeq(s, a, Len(s))) = IF a <= Len(s) THEN Len(s) - a + 1 ELSE 0
    BY <2>1, <2>3, PartIs
  <2>6. SubSeq(r.cells, last + 1, r.size) = SubSeq(s, a, Len(s)) /\ t = SubSeq(s, a, Len(s))
    BY <1>2, <1>3, <2>2, <2>4, Zenon
  <2>7. t \in Seq(Values) /\ Len(t) = IF a <= Len(s) THEN Len(s) - a + 1 ELSE 0
    BY <2>5, <2>6, Zenon
  <2>8. Len(t) = Len(s) - last
    BY <2>1, <2>2, <2>7
  <2> QED
    BY <2>6, <2>7, <2>8, Zenon
<1>5. PICK o : Overlaid(o, s, first, t)
  BY <1>2, <1>4, OverlayExists
<1>6. PICK u : u = SubSeq(s, 1, first) \o t
  OBVIOUS
<1>7. Beginning(u, o) /\ Len(u) = Len(s) - (last - first)
  BY <1>2, <1>3, <1>5, <1>6, ErasedIs
<1>8. ChangedTo(b, g, s, first, t, o)
  <2>1. first \in Nat /\ first + Len(t) <= Len(s)
    BY <1>2, <1>4
  <2> QED
    BY <1>1, <1>4, <1>5, <2>1, ChangedIs
<1>9. PICK n, d : n = Len(u) /\ d = last - first /\ n = Len(s) - d /\ d = Len(s) - n
  BY <1>2, <1>7
<1>10. Destroyed(Memory(Room(b, g), o), n, d) = Memory(Room(b, g), u)
  <2>1. o \in Seq(Values) /\ Len(o) = Len(s)
    BY <1>5 DEF Overlaid
  <2>2. d = Len(o) - Len(u) /\ Len(o) <= Room(b, g)
    BY <1>2, <1>9, <2>1
  <2>3. Destroyed(Memory(Room(b, g), o), Len(u), d) = Memory(Room(b, g), u)
    <3>1. LeavesIn(Room(b, g), o, u, d)
      BY <1>2, <1>7, <2>1, <2>2, DestroyedIs
    <3> QED
      BY <3>1, Zenon DEF LeavesIn
  <2> QED
    BY <1>9, <2>3
<1>11. PICK c : c = Destroyed(Assigned(r.cells, first, SubSeq(r.cells, last + 1, r.size)),
                              r.size - (last - first), last - first)
  OBVIOUS
<1>12. r.size - (last - first) = n
  BY <1>2, <1>9
<1>13. PICK w : w = Memory(Room(b, g), u)
  OBVIOUS
<1>14. c = w
  BY <1>2, <1>4, <1>8, <1>9, <1>10, <1>11, <1>12, <1>13, Zenon DEF ChangedTo
<1>15. Erase(r, first, last) = Sized([r EXCEPT !.cells = w], n)
  <2>1. Erase(r, first, last) = Sized([r EXCEPT !.cells = c], r.size - (last - first))
    BY <1>11, Zenon DEF Erase
  <2> QED
    BY <1>12, <1>14, <2>1, Zenon
<1>16. Sized([r EXCEPT !.cells = w], n) = Rep(b, g, u)
  <2>1. n = Len(u)
    BY <1>9
  <2>2. Sized([Rep(b, g, s) EXCEPT !.cells = w], n) = Rep(b, g, u)
    BY <1>13, <2>1, Rewritten
  <2> QED
    BY <1>1, <2>2, Zenon
<1>17. Fits(b, g, u)
  BY <1>1, <1>2, <1>7, <1>9 DEF Fits, Beginning
<1> QED
  BY <1>3, <1>6, <1>15, <1>16, <1>17, Zenon DEF Is

(* Resize destroys the last elements, or adds copies of a value. *)
LEMMA ResizeIs ==
  ASSUME NEW r, NEW s, Is(r, s), NEW n \in Nat, NEW v \in Values
  PROVE  Is(Resize(r, n, v), IF n <= Len(s) THEN SubSeq(s, 1, n)
                             ELSE s \o Repeated(n - Len(s), v))
<1>1. PICK b, g : Fits(b, g, s) /\ r = Rep(b, g, s)
  BY DEF Is
<1>2. /\ s \in Seq(Values) /\ Len(s) \in Nat /\ r.cells = Memory(Room(b, g), s) /\ r.size = Len(s)
  BY <1>1, RepHas
<1>3. CASE n <= Len(s)
  <2>1. n \in 0..Len(s)
    BY <1>2, <1>3
  <2>2. PICK u : u = SubSeq(s, 1, n) /\ Beginning(u, s) /\ Len(u) = n
    BY <1>2, <2>1, BeginningIs
  <2>3. Beginning(u, s) /\ Len(u) = n
    BY <2>2
  <2>4. PICK d : d = Len(s) - Len(u)
    OBVIOUS
  <2>5. CutTo(b, g, s, u, d)
    BY <1>1, <2>3, <2>4, CutIs
  <2>6. Resize(r, n, v) = Sized([r EXCEPT !.cells = Destroyed(r.cells, n, r.size - n)], n)
    BY <1>2, <1>3, Zenon DEF Resize
  <2>7. Resize(r, n, v) = Rep(b, g, u) /\ Fits(b, g, u)
    BY <1>1, <1>2, <2>3, <2>4, <2>5, <2>6, Zenon DEF CutTo
  <2> QED
    BY <1>3, <2>2, <2>7, Zenon DEF Is
<1>4. CASE ~(n <= Len(s))
  <2>1. PICK m \in Nat : m = n - Len(s) /\ n = Len(s) + m
    BY <1>2, <1>4
  <2>2. PICK t : t = Repeated(m, v) /\ t \in Seq(Values) /\ Len(t) = m
    BY RepeatedIs
  <2>3. t \in Seq(Values) /\ Len(t) = m
    BY <2>2
  <2>4. PICK u : u = s \o t /\ Joined(u, s, t)
    BY <1>2, <2>3, JoinedIs
  <2>5. Joined(u, s, t)
    BY <2>4
  <2>6. Len(u) = n
    BY <2>1, <2>3, <2>5 DEF Joined
  <2>7. PICK c, h : Fits(c, h, s) /\ Reserve(r, n) = Rep(c, h, s) /\ n <= Room(c, h)
    BY ReserveIs
  <2>8. AddedTo(c, h, s, t, u)
    <3>1. Len(u) <= Room(c, h)
      BY <2>6, <2>7
    <3> QED
      BY <2>3, <2>5, <2>7, <3>1, AddedIs
  <2>9. Rep(c, h, s).cells = Memory(Room(c, h), s)
    BY <2>7, RepHas
  <2>10. Resize(r, n, v) = Sized([Reserve(r, n) EXCEPT
                             !.cells = Constructed(Reserve(r, n).cells, r.size, Repeated(n - r.size, v))], n)
    BY <1>2, <1>4, Zenon DEF Resize
  <2>11. Resize(r, n, v) = Rep(c, h, u) /\ Fits(c, h, u)
    BY <1>2, <2>1, <2>2, <2>6, <2>7, <2>8, <2>9, <2>10, Zenon DEF AddedTo
  <2> QED
    BY <1>4, <2>1, <2>2, <2>4, <2>11, Zenon DEF Is
<1> QED
  BY <1>3, <1>4

(* What Insert leaves when it has moved the elements up by assignment *)
LEMMA InsertedIs ==
  ASSUME NEW s \in Seq(Values), NEW pos \in 0..Len(s), pos < Len(s), NEW v \in Values,
         NEW c \in Seq(Values), Len(c) = 1, c[1] = s[Len(s)], NEW opened, Joined(opened, s, c),
         NEW t, t = SubSeq(opened, pos + 1, Len(s) - 1),
         NEW shifted, Overlaid(shifted, opened, pos + 1, t),
         NEW w \in Seq(Values), Len(w) = 1, w[1] = v, NEW u, Overlaid(u, shifted, pos, w)
  PROVE  u = SubSeq(s, 1, pos) \o w \o SubSeq(s, pos + 1, Len(s))
<1>1. Len(s) \in Nat /\ pos \in Nat /\ s[Len(s)] \in Values
  <2>1. Len(s) \in Nat /\ pos \in Nat
    BY SequenceIs
  <2>2. Len(s) \in 1..Len(s)
    BY <2>1
  <2> QED
    BY <2>1, <2>2, SequenceIs
<1>2. c \in Seq(Values) /\ Len(c) = 1 /\ c[1] = s[Len(s)]
  OBVIOUS
<1>3. w \in Seq(Values) /\ Len(w) = 1 /\ w[1] = v
  OBVIOUS
<1>4. /\ opened \in Seq(Values) /\ Len(opened) = Len(s) + 1
      /\ \A i \in 1..Len(s) : opened[i] = s[i]
      /\ opened[Len(s) + 1] = s[Len(s)]
  BY <1>1, <1>2 DEF Joined
<1>5. /\ t \in Seq(Values) /\ Len(t) = Len(s) - 1 - pos
      /\ \A i \in 1..(Len(s) - 1 - pos) : t[i] = s[pos + i]
  <2>1. PICK a, b : a = pos + 1 /\ b = Len(s) - 1 /\ a \in Nat \ {0} /\ b \in Int /\ b <= Len(opened)
    BY <1>1, <1>4
  <2>2. t = SubSeq(opened, a, b)
    BY <2>1
  <2>3. /\ t \in Seq(Values)
        /\ Len(t) = IF a <= b THEN b - a + 1 ELSE 0
        /\ \A i \in 1..(b - a + 1) : t[i] = opened[a + i - 1]
    BY <1>4, <2>1, <2>2, PartIs
  <2>4. Len(t) = Len(s) - 1 - pos
    BY <1>1, <2>1, <2>3
  <2>5. ASSUME NEW i \in 1..(Len(s) - 1 - pos) PROVE t[i] = s[pos + i]
    <3>1. i \in 1..(b - a + 1) /\ a + i - 1 = pos + i /\ pos + i \in 1..Len(s)
      BY <1>1, <2>1
    <3> QED
      BY <1>4, <2>3, <3>1
  <2> QED
    BY <2>3, <2>4, <2>5
<1>6. /\ u \in Seq(Values) /\ Len(u) = Len(s) + 1
      /\ shifted \in Seq(Values) /\ Len(shifted) = Len(s) + 1
  BY <1>4 DEF Overlaid
<1>7. ASSUME NEW i \in 1..(Len(s) + 1)
      PROVE  u[i] = IF i <= pos THEN s[i] ELSE IF i = pos + 1 THEN v ELSE s[i - 1]
  <2>1. u[i] = IF pos < i /\ i <= pos + 1 THEN w[i - pos] ELSE shifted[i]
    <3>1. \A j \in 1..Len(shifted) :
            u[j] = IF pos < j /\ j <= pos + Len(w) THEN w[j - pos] ELSE shifted[j]
      BY Zenon DEF Overlaid
    <3> QED
      BY <1>6, <3>1
  <2>2. shifted[i] = IF pos + 1 < i /\ i <= pos + 1 + Len(t) THEN t[i - (pos + 1)] ELSE opened[i]
    BY <1>4 DEF Overlaid
  <2>3. CASE i <= pos
    <3>1. i \in 1..Len(s) /\ ~(pos < i) /\ ~(pos + 1 < i)
      BY <1>1, <2>3
    <3>2. shifted[i] = opened[i] /\ u[i] = shifted[i]
      BY <2>1, <2>2, <3>1, Zenon
    <3> QED
      BY <1>4, <2>3, <3>1, <3>2
  <2>4. CASE i = pos + 1
    <3>1. i - pos = 1 /\ ~(i <= pos) /\ pos < i /\ i <= pos + 1
      BY <1>1, <2>4
    <3> QED
      BY <1>3, <2>1, <2>4, <3>1
  <2>5. CASE i > pos + 1
    <3>1. u[i] = shifted[i] /\ ~(i <= pos) /\ i # pos + 1
      BY <1>1, <2>1, <2>5
    <3>2. CASE i <= Len(s)
      <4>1. /\ shifted[i] = t[i - (pos + 1)] /\ i - (pos + 1) \in 1..(Len(s) - 1 - pos)
            /\ pos + (i - (pos + 1)) = i - 1
        BY <1>1, <1>5, <2>2, <2>5, <3>2
      <4>2. t[i - (pos + 1)] = s[i - 1]
        BY <1>5, <4>1
      <4> QED
        BY <3>1, <4>1, <4>2
    <3>3. CASE i = Len(s) + 1
      <4>1. ~(i <= pos + 1 + Len(t)) /\ i - 1 = Len(s)
        <5>1. PICK m, n : m = Len(t) /\ n = Len(s)
          OBVIOUS
        <5>2. n \in Nat /\ pos \in Nat /\ i = n + 1 /\ m = n - 1 - pos
          BY <1>1, <1>5, <3>3, <5>1, Zenon
        <5>3. i - 1 = n
          BY <5>2
        <5>4. ~(i <= pos + 1 + m)
          BY <5>2
        <5> QED
          BY <5>1, <5>3, <5>4, Zenon
      <4>2. shifted[i] = opened[i]
        BY <2>2, <4>1, Zenon
      <4>3. opened[i] = s[i - 1]
        BY <1>4, <3>3, <4>1, Zenon
      <4> QED
        BY <3>1, <4>2, <4>3, Zenon
    <3> QED
      BY <1>1, <3>2, <3>3, SMTT(30)
  <2> QED
    BY <1>1, <2>3, <2>4, <2>5
<1>8. PICK x : x = SubSeq(s, 1, pos) /\ x \in Seq(Values) /\ Len(x) = pos
               /\ \A i \in 1..pos : x[i] = s[i]
  <2>1. Beginning(SubSeq(s, 1, pos), s) /\ Len(SubSeq(s, 1, pos)) = pos
    BY BeginningIs
  <2> QED
    BY <2>1 DEF Beginning
<1>9. PICK z : z = SubSeq(s, pos + 1, Len(s)) /\ z \in Seq(Values) /\ Len(z) = Len(s) - pos
               /\ \A i \in 1..(Len(s) - pos) : z[i] = s[pos + i]
  <2>1. PICK a : a = pos + 1 /\ a \in Nat \ {0} /\ Len(s) \in Int
    BY <1>1
  <2>2. PICK z : z = SubSeq(s, a, Len(s))
    OBVIOUS
  <2>3. /\ z \in Seq(Values)
        /\ Len(z) = IF a <= Len(s) THEN Len(s) - a + 1 ELSE 0
        /\ \A i \in 1..(Len(s) - a + 1) : z[i] = s[a + i - 1]
    BY <1>1, <2>1, <2>2, PartIs
  <2>4. Len(z) = Len(s) - pos
    BY <1>1, <2>1, <2>3
  <2>5. ASSUME NEW i \in 1..(Len(s) - pos) PROVE z[i] = s[pos + i]
    <3>1. i \in 1..(Len(s) - a + 1) /\ a + i - 1 = pos + i
      BY <1>1, <2>1
    <3> QED
      BY <2>3, <3>1
  <2>6. z = SubSeq(s, pos + 1, Len(s))
    BY <2>1, <2>2
  <2>7. z \in Seq(Values)
    BY <2>3
  <2> QED
    BY <2>4, <2>5, <2>6, <2>7
<1>10. x \in Seq(Values) /\ Len(x) = pos /\ \A i \in 1..pos : x[i] = s[i]
  BY <1>8
<1>11. z \in Seq(Values) /\ Len(z) = Len(s) - pos /\ \A i \in 1..(Len(s) - pos) : z[i] = s[pos + i]
  BY <1>9
<1>12. PICK y : y = x \o w /\ Joined(y, x, w)
  BY <1>3, <1>10, JoinedIs
<1>13. y \in Seq(Values) /\ Len(y) = pos + 1 /\ \A i \in 1..pos : y[i] = x[i]
  BY <1>3, <1>10, <1>12 DEF Joined
<1>14. y[pos + 1] = v
  <2>1. \A i \in 1..Len(w) : y[Len(x) + i] = w[i]
    BY <1>12, Zenon DEF Joined
  <2> QED
    BY <1>1, <1>10, <2>1
<1>15. PICK k : k = y \o z /\ Joined(k, y, z)
  BY <1>11, <1>13, JoinedIs
<1>16. k \in Seq(Values) /\ Len(k) = Len(s) + 1
  BY <1>1, <1>11, <1>13, <1>15 DEF Joined
<1>17. ASSUME NEW i \in 1..(Len(s) + 1) PROVE u[i] = k[i]
  <2>1. CASE i <= pos
    <3>1. i \in 1..pos /\ i \in 1..Len(y)
      BY <1>1, <1>13, <2>1
    <3>2. k[i] = y[i]
      BY <1>15, <3>1 DEF Joined
    <3> QED
      BY <1>7, <1>10, <1>13, <2>1, <3>1, <3>2
  <2>2. CASE i = pos + 1
    <3>1. i \in 1..Len(y) /\ ~(i <= pos)
      BY <1>1, <1>13, <2>2
    <3>2. k[i] = y[i]
      BY <1>15, <3>1 DEF Joined
    <3>3. y[i] = v
      BY <1>14, <2>2
    <3>4. u[i] = v
      BY <1>7, <2>2, <3>1
    <3> QED
      BY <3>2, <3>3, <3>4
  <2>3. CASE i > pos + 1
    <3>1. PICK j \in 1..Len(z) : i = Len(y) + j /\ j = i - (pos + 1)
      BY <1>1, <1>11, <1>13, <2>3
    <3>2. k[Len(y) + j] = z[j]
      BY <1>15, <3>1, Zenon DEF Joined
    <3>3. z[j] = s[pos + j] /\ pos + j = i - 1
      <4>1. j \in 1..(Len(s) - pos)
        BY <1>11, <3>1
      <4>2. pos \in Nat /\ j = i - (pos + 1)
        BY <1>1, <3>1, Zenon
      <4>3. pos + j = i - 1
        BY <4>1, <4>2
      <4> QED
        BY <1>11, <4>1, <4>3
    <3>4. ~(i <= pos) /\ i # pos + 1
      BY <1>1, <2>3
    <3> QED
      <4>1. u[i] = s[i - 1]
        BY <1>7, <3>4
      <4>2. k[i] = s[pos + j]
        BY <3>1, <3>2, <3>3
      <4> QED
        BY <3>3, <4>1, <4>2
  <2>4. i <= pos \/ i = pos + 1 \/ i > pos + 1
    BY <1>1
  <2> QED
    BY <2>1, <2>2, <2>3, <2>4, Zenon
<1>18. u = k
  BY <1>6, <1>16, <1>17, SameSequence
<1> QED
  BY <1>8, <1>9, <1>12, <1>15, <1>18, Zenon

(* Insert opens a gap and puts the value there. *)
LEMMA InsertIs ==
  ASSUME NEW r, NEW s, Is(r, s), NEW pos \in 0..Len(s), NEW v \in Values
  PROVE  Is(Insert(r, pos, v), SubSeq(s, 1, pos) \o <<v>> \o SubSeq(s, pos + 1, Len(s)))
<1>1. PICK b, g : Fits(b, g, s) /\ r = Rep(b, g, s)
  BY DEF Is
<1>2. /\ s \in Seq(Values) /\ Len(s) \in Nat /\ r.cells = Memory(Room(b, g), s) /\ r.size = Len(s)
      /\ Capacity(r) = Room(b, g) /\ Len(s) <= Room(b, g) /\ Room(b, g) \in Nat
  BY <1>1, RepHas
<1>3. PICK w : w = <<v>> /\ w \in Seq(Values) /\ Len(w) = 1 /\ w[1] = v
  BY ShortSequences
<1>4. w \in Seq(Values) /\ Len(w) = 1 /\ w[1] = v
  BY <1>3
<1>5. CASE pos = Len(s)
  <2>1. PICK arg : arg = [alias |-> 0, value |-> v]
    OBVIOUS
  <2>2. arg.alias = 0 /\ arg.value = v
    BY <2>1
  <2>3. Insert(r, pos, v) = EmplaceBack(r, arg)
    BY <1>2, <1>5, <2>1, Zenon DEF Insert
  <2>4. Is(EmplaceBack(r, arg), Append(s, v))
    <3>1. arg.alias \in 0..Len(s) /\ v = IF arg.alias > 0 THEN s[arg.alias] ELSE arg.value
      BY <1>2, <2>2
    <3> QED
      BY <3>1, EmplaceBackIs
  <2>5. Append(s, v) = s \o w
    BY <1>2, <1>3, AppendJoins
  <2>6. SubSeq(s, 1, pos) = s
    <3>1. Beginning(SubSeq(s, 1, pos), s) /\ Len(SubSeq(s, 1, pos)) = pos
      BY <1>2, BeginningIs
    <3>2. PICK x : x = SubSeq(s, 1, pos)
      OBVIOUS
    <3>3. x \in Seq(Values) /\ Len(x) = Len(s) /\ \A i \in 1..Len(x) : x[i] = s[i]
      BY <1>5, <3>1, <3>2, Zenon DEF Beginning
    <3>4. x = s
      BY <1>2, <3>3, SameSequence
    <3> QED
      BY <3>2, <3>4
  <2>7. (s \o w) \o SubSeq(s, pos + 1, Len(s)) = s \o w
    <3>1. PICK a : a = pos + 1 /\ a \in Nat \ {0} /\ a > Len(s) /\ Len(s) \in Int
      BY <1>2, <1>5
    <3>2. PICK z : z = SubSeq(s, a, Len(s))
      OBVIOUS
    <3>3. z \in Seq(Values) /\ Len(z) = IF a <= Len(s) THEN Len(s) - a + 1 ELSE 0
      BY <1>2, <3>1, <3>2, PartIs
    <3>4. z = <<>>
      BY <1>2, <3>1, <3>3, EmptySeq
    <3>5. PICK y : y = s \o w /\ Joined(y, s, w)
      BY <1>2, <1>4, JoinedIs
    <3>6. y \in Seq(Values)
      BY <3>5, Zenon DEF Joined
    <3>7. y \o z = y
      BY <3>4, <3>6, JoinedIs
    <3> QED
      BY <3>1, <3>2, <3>5, <3>7, Zenon
  <2>8. SubSeq(s, 1, pos) \o <<v>> \o SubSeq(s, pos + 1, Len(s)) = Append(s, v)
    BY <1>3, <2>5, <2>6, <2>7, Zenon
  <2> QED
    BY <2>3, <2>4, <2>8, Zenon
<1>6. CASE pos # Len(s)
  <2>1. pos \in Nat /\ pos < Len(s) /\ s[Len(s)] \in Values /\ Len(s) \in 1..Len(s)
    <3>1. pos \in Nat /\ pos < Len(s) /\ Len(s) \in 1..Len(s)
      BY <1>2, <1>6
    <3> QED
      BY <1>2, <3>1, SequenceIs
  <2>2. PICK n \in Nat : n = r.size + 1 /\ n = Len(s) + 1
    BY <1>2
  <2>3. PICK c, h : Fits(c, h, s) /\ Reserve(r, n) = Rep(c, h, s) /\ n <= Room(c, h)
    BY ReserveIs
  <2>4. PICK room : room = IF r.size = Capacity(r) THEN Grow(r, r.size + 1, <<>>) ELSE r
    OBVIOUS
  <2>5. room = Reserve(r, n)
    <3>1. (r.size = Capacity(r)) <=> n > Capacity(r)
      BY <1>2, <2>2
    <3> QED
      BY <2>2, <2>4, <3>1, Zenon DEF Reserve
  <2>6. /\ room = Rep(c, h, s) /\ room.cells = Memory(Room(c, h), s) /\ Room(c, h) \in Nat
        /\ Len(s) + 1 <= Room(c, h) /\ Fits(c, h, s)
    BY <2>2, <2>3, <2>5, RepHas
  <2>7. PICK e : e = <<room.cells[Len(s)]>> /\ e \in Seq(Values) /\ Len(e) = 1 /\ e[1] = s[Len(s)]
    <3>1. room.cells[Len(s)] = s[Len(s)]
      BY <1>2, <2>1, <2>6 DEF Memory
    <3> QED
      BY <2>1, <3>1, ShortSequences
  <2>8. e \in Seq(Values) /\ Len(e) = 1 /\ e[1] = s[Len(s)]
    BY <2>7
  <2>9. PICK o : o = s \o e /\ Joined(o, s, e)
    BY <1>2, <2>8, JoinedIs
  <2>10. Joined(o, s, e)
    BY <2>9
  <2>11. o \in Seq(Values) /\ Len(o) = Len(s) + 1 /\ Len(o) <= Room(c, h)
    <3>1. o \in Seq(Values) /\ Len(o) = Len(s) + Len(e)
      BY <2>10, Zenon DEF Joined
    <3> QED
      BY <2>6, <2>8, <3>1
  <2>12. Fits(c, h, o)
    BY <2>6, <2>11 DEF Fits
  <2>13. Constructed(Memory(Room(c, h), s), Len(s), e) = Memory(Room(c, h), o)
    BY <1>2, <2>6, <2>8, <2>10, <2>11, ConstructedIs
  <2>14. PICK a, k : a = pos + 1 /\ k = Len(s) - 1 /\ a \in Nat \ {0} /\ k \in Int /\ k <= Len(o)
                     /\ k = r.size - 1
    BY <1>2, <2>1, <2>11
  <2>15. PICK t : t = SubSeq(o, a, k)
    OBVIOUS
  <2>16. SubSeq(Memory(Room(c, h), o), a, k) = t
    <3>1. Room(c, h) \in Nat /\ o \in Seq(Values) /\ Len(o) <= Room(c, h)
      BY <2>6, <2>11
    <3>2. a \in Nat \ {0} /\ k \in Int /\ k <= Len(o)
      BY <2>14
    <3>3. SubSeq(Memory(Room(c, h), o), a, k) = SubSeq(o, a, k)
      <4>1. ReadsAs(Room(c, h), o, a, k)
        BY <3>1, <3>2, MemoryReads
      <4> QED
        BY <4>1, Zenon DEF ReadsAs
    <3> QED
      BY <2>15, <3>3, Zenon
  <2>17. t \in Seq(Values) /\ a + Len(t) <= Len(o)
    <3>1. t \in Seq(Values) /\ Len(t) = IF a <= k THEN k - a + 1 ELSE 0
      <4>1. o \in Seq(Values) /\ a \in Nat \ {0} /\ k \in Int /\ k <= Len(o)
        BY <2>11, <2>14
      <4>2. /\ SubSeq(o, a, k) \in Seq(Values)
            /\ Len(SubSeq(o, a, k)) = IF a <= k THEN k - a + 1 ELSE 0
        BY <4>1, PartIs
      <4> QED
        BY <2>15, <4>2, Zenon
    <3>2. a = pos + 1 /\ k = Len(s) - 1 /\ Len(o) = Len(s) + 1 /\ Len(s) \in Nat /\ pos \in Nat
          /\ pos < Len(s)
      BY <1>2, <2>1, <2>11, <2>14
    <3>3. a + Len(t) <= Len(o)
      <4>1. CASE a <= k
        <5>1. Len(t) = k - a + 1
          BY <3>1, <4>1
        <5>2. a + Len(t) = k + 1
          BY <3>2, <5>1
        <5>3. k + 1 <= Len(o)
          BY <3>2
        <5> QED
          BY <5>2, <5>3
      <4>2. CASE ~(a <= k)
        <5>1. Len(t) = 0
          BY <3>1, <4>2
        <5>2. a <= Len(o) /\ a \in Nat
          BY <3>2
        <5> QED
          BY <5>1, <5>2
      <4> QED
        BY <4>1, <4>2
    <3> QED
      BY <3>1, <3>3, Zenon
  <2>18. PICK x : Overlaid(x, o, a, t)
    <3>1. a \in Nat
      BY <2>14
    <3> QED
      BY <2>11, <2>17, <3>1, OverlayExists, Zenon
  <2>19. ChangedTo(c, h, o, a, t, x)
    <3>1. a \in Nat
      BY <2>14
    <3> QED
      BY <2>12, <2>17, <2>18, <3>1, ChangedIs
  <2>20. Assigned(Memory(Room(c, h), o), a, t) = Memory(Room(c, h), x) /\ Fits(c, h, x)
    BY <2>19, Zenon DEF ChangedTo
  <2>21. x \in Seq(Values) /\ Len(x) = Len(s) + 1
    BY <2>11, <2>18 DEF Overlaid
  <2>22. PICK u : Overlaid(u, x, pos, w)
    BY <1>4, <2>1, <2>21, OverlayExists
  <2>23. ChangedTo(c, h, x, pos, w, u)
    <3>1. pos + Len(w) <= Len(x)
      BY <1>2, <1>4, <2>1, <2>21
    <3> QED
      BY <1>4, <2>1, <2>20, <2>22, <3>1, ChangedIs
  <2>24. Assigned(Memory(Room(c, h), x), pos, w) = Memory(Room(c, h), u) /\ Fits(c, h, u)
    BY <2>23, Zenon DEF ChangedTo
  <2>25. Len(u) = Len(s) + 1
    BY <2>21, <2>22 DEF Overlaid
  <2>26. u = SubSeq(s, 1, pos) \o w \o SubSeq(s, pos + 1, Len(s))
    <3>1. t = SubSeq(o, pos + 1, Len(s) - 1) /\ Overlaid(x, o, pos + 1, t)
      BY <2>14, <2>15, <2>18, Zenon
    <3> QED
      BY <1>2, <1>4, <2>1, <2>8, <2>10, <2>22, <3>1, InsertedIs
  <2>27. Insert(r, pos, v) = InsertShifting(r, pos, v, k)
    BY <1>2, <1>6, <2>14, Zenon DEF Insert
  <2>28. InsertShifting(r, pos, v, k) = Sized([room EXCEPT !.cells = Memory(Room(c, h), u)], r.size + 1)
    <3>1. Constructed(room.cells, r.size, <<room.cells[r.size]>>) = Memory(Room(c, h), o)
      BY <1>2, <2>6, <2>7, <2>13, Zenon
    <3>2. InsertShifting(r, pos, v, k)
          = Sized([room EXCEPT !.cells =
               Assigned(Assigned(Constructed(room.cells, r.size, <<room.cells[r.size]>>), pos + 1,
                                 SubSeq(Constructed(room.cells, r.size, <<room.cells[r.size]>>), pos + 1, k)),
                        pos, <<v>>)], r.size + 1)
      BY <2>4, Zenon DEF InsertShifting
    <3> QED
      BY <1>3, <2>14, <2>16, <2>20, <2>24, <3>1, <3>2, Zenon
  <2>29. PICK m, q : m = Memory(Room(c, h), u) /\ q = r.size + 1 /\ q = Len(u)
    BY <1>2, <2>25
  <2>30. Sized([Rep(c, h, s) EXCEPT !.cells = m], q) = Rep(c, h, u)
    <3>1. m = Memory(Room(c, h), u) /\ q = Len(u)
      BY <2>29
    <3> QED
      BY <3>1, Rewritten
  <2>31. Insert(r, pos, v) = Rep(c, h, u)
    BY <2>6, <2>27, <2>28, <2>29, <2>30, Zenon
  <2> QED
    BY <1>3, <2>24, <2>26, <2>31, Zenon DEF Is
<1> QED
  BY <1>5, <1>6

(* The vectors that hold sequences *)
SoundReps == {x \in {Rep(p[1], p[2], p[3]) : p \in BOOLEAN \X Nat \X Seq(Values)} : \E s : Is(x, s)}

(* SoundReps has the vectors that hold some sequence, and no other. *)
LEMMA SoundRepsAre ==
  ASSUME NEW r
  PROVE  r \in SoundReps <=> \E s : Is(r, s)
<1>1. ASSUME NEW s, Is(r, s) PROVE r \in SoundReps
  <2>1. PICK b, g : Fits(b, g, s) /\ r = Rep(b, g, s)
    BY <1>1 DEF Is
  <2>2. <<b, g, s>> \in BOOLEAN \X Nat \X Seq(Values)
    BY <2>1, Zenon DEF Fits
  <2>3. PICK p \in BOOLEAN \X Nat \X Seq(Values) : p = <<b, g, s>>
    BY <2>2
  <2>4. Rep(p[1], p[2], p[3]) = r
    <3>1. p[1] = b /\ p[2] = g /\ p[3] = s
      BY <2>3
    <3> QED
      BY <2>1, <3>1, Zenon
  <2>5. r \in {Rep(q[1], q[2], q[3]) : q \in BOOLEAN \X Nat \X Seq(Values)}
    BY <2>3, <2>4, Zenon
  <2> QED
    BY <1>1, <2>5, Zenon DEF SoundReps
<1> QED
  BY <1>1, Zenon DEF SoundReps

(* u is s and then the first k of vals. *)
Added(u, s, vals, k) ==
  /\ u \in Seq(Values) /\ Len(u) = Len(s) + k
  /\ \A i \in 1..Len(s) : u[i] = s[i]
  /\ \A i \in 1..k : u[Len(s) + i] = vals[i]

(* One push_back adds the next of them. *)
LEMMA PushIs ==
  ASSUME NEW r, NEW s \in Seq(Values), NEW vals \in Seq(Values), NEW k \in 1..Len(vals), NEW u,
         Is(r, u), Added(u, s, vals, k - 1)
  PROVE  \E w : Is(EmplaceBack(r, [alias |-> 0, value |-> vals[k]]), w) /\ Added(w, s, vals, k)
<1>1. PICK v : v = vals[k] /\ v \in Values
  BY SequenceIs
<1>2. PICK arg : arg = [alias |-> 0, value |-> vals[k]]
  OBVIOUS
<1>3. arg.alias = 0 /\ arg.value = v
  BY <1>1, <1>2
<1>4. /\ u \in Seq(Values) /\ Len(u) \in Nat /\ Len(s) \in Nat /\ Len(u) = Len(s) + (k - 1)
      /\ k \in Nat /\ k >= 1
  <2>1. u \in Seq(Values) /\ Len(u) = Len(s) + (k - 1)
    BY Zenon DEF Added
  <2>2. Len(u) \in Nat /\ Len(s) \in Nat /\ Len(vals) \in Nat
    BY <2>1, SequenceIs
  <2> QED
    BY <2>1, <2>2
<1>5. PICK e : e = <<v>> /\ e \in Seq(Values) /\ Len(e) = 1 /\ e[1] = v
  BY <1>1, ShortSequences
<1>6. e \in Seq(Values) /\ Len(e) = 1 /\ e[1] = v
  BY <1>5
<1>7. PICK w : w = Append(u, v) /\ Joined(w, u, e)
  BY <1>1, <1>4, <1>5, AppendJoins
<1>8. Is(EmplaceBack(r, arg), w)
  <2>1. arg.alias \in 0..Len(u) /\ v = IF arg.alias > 0 THEN u[arg.alias] ELSE arg.value
    BY <1>3, <1>4
  <2>2. Is(EmplaceBack(r, arg), Append(u, v))
    BY <1>1, <2>1, EmplaceBackIs
  <2> QED
    BY <1>7, <2>2, Zenon
<1>9. Added(w, s, vals, k)
  <2>1. w \in Seq(Values) /\ Len(w) = Len(u) + Len(e)
    BY <1>7, Zenon DEF Joined
  <2>2. Len(w) = Len(s) + k
    BY <1>4, <1>6, <2>1
  <2>3. ASSUME NEW i \in 1..Len(s) PROVE w[i] = s[i]
    <3>1. i \in 1..Len(u)
      BY <1>4
    <3>2. w[i] = u[i]
      BY <1>7, <3>1, Zenon DEF Joined
    <3>3. u[i] = s[i]
      BY Zenon DEF Added
    <3> QED
      BY <3>2, <3>3
  <2>4. ASSUME NEW i \in 1..k PROVE w[Len(s) + i] = vals[i]
    <3>1. CASE i = k
      <4>1. 1 \in 1..Len(e)
        BY <1>6
      <4>2. w[Len(u) + 1] = e[1]
        BY <1>7, <4>1, Zenon DEF Joined
      <4>3. Len(u) + 1 = Len(s) + i
        BY <1>4, <3>1
      <4> QED
        BY <1>1, <1>6, <3>1, <4>2, <4>3
    <3>2. CASE i # k
      <4>1. i \in 1..(k - 1) /\ Len(s) + i \in 1..Len(u)
        BY <1>4, <3>2
      <4>2. w[Len(s) + i] = u[Len(s) + i]
        BY <1>7, <4>1, Zenon DEF Joined
      <4>3. u[Len(s) + i] = vals[i]
        BY <4>1, Zenon DEF Added
      <4> QED
        BY <4>2, <4>3
    <3> QED
      BY <3>1, <3>2
  <2> QED
    BY <2>1, <2>2, <2>3, <2>4 DEF Added
<1> QED
  BY <1>2, <1>8, <1>9

(* PushAll adds every one of them. *)
LEMMA PushAllIs ==
  ASSUME NEW r, NEW s, Is(r, s), NEW vals \in Seq(Values)
  PROVE  Is(PushAll(r, vals), s \o vals)
<1>0. s \in Seq(Values) /\ Len(s) \in Nat
  BY RepHas DEF Is
<1>1. PICK n \in Nat : n = Len(vals)
  BY SequenceIs
<1> DEFINE one(q) == EmplaceBack(q[2], [alias |-> 0, value |-> vals[q[1] + 1]])
           step == [q \in Nat \X SoundReps |-> IF q[1] < n THEN one(q) ELSE q[2]]
<1>2. ASSUME NEW k \in 1..n, NEW x \in SoundReps
      PROVE  EmplaceBack(x, [alias |-> 0, value |-> vals[k]]) \in SoundReps
  <2>1. PICK u : Is(x, u)
    BY SoundRepsAre
  <2>2. PICK v : v = vals[k] /\ v \in Values
    BY <1>1, SequenceIs
  <2>3. PICK arg : arg = [alias |-> 0, value |-> vals[k]]
    OBVIOUS
  <2>4. arg.alias = 0 /\ arg.value = v
    BY <2>2, <2>3
  <2>5. Len(u) \in Nat
    BY <2>1, RepHas DEF Is
  <2>6. arg.alias \in 0..Len(u) /\ v = IF arg.alias > 0 THEN u[arg.alias] ELSE arg.value
    BY <2>4, <2>5
  <2>7. v \in Values
    BY <2>2
  <2>8. Is(EmplaceBack(x, arg), Append(u, v))
    BY <2>1, <2>6, <2>7, EmplaceBackIs
  <2> QED
    BY <2>3, <2>8, SoundRepsAre
<1>3. step \in [Nat \X SoundReps -> SoundReps]
  <2> SUFFICES ASSUME NEW q \in Nat \X SoundReps
               PROVE  (IF q[1] < n THEN one(q) ELSE q[2]) \in SoundReps
    OBVIOUS
  <2>1. q[1] \in Nat /\ q[2] \in SoundReps
    OBVIOUS
  <2>2. q[1] < n => q[1] + 1 \in 1..n
    BY <2>1
  <2> QED
    BY <1>2, <2>1, <2>2
<1>4. r \in SoundReps
  BY SoundRepsAre
<1>5. PICK f : Recursive(f, n, SoundReps, r, step)
  <2> HIDE DEF step
  <2> QED
    BY <1>3, <1>4, Recursion
<1>6. /\ f \in [0..n -> SoundReps]
      /\ f = [k \in 0..n |-> IF k = 0 THEN r ELSE step[<<k - 1, f[k - 1]>>]]
  BY <1>5 DEF Recursive
<1>7. f = [k \in 0..n |-> IF k = 0 THEN r
                          ELSE EmplaceBack(f[k - 1], [alias |-> 0, value |-> vals[k]])]
  <2>1. \A k \in 0..n : k # 0 => step[<<k - 1, f[k - 1]>>]
                                 = EmplaceBack(f[k - 1], [alias |-> 0, value |-> vals[k]])
    <3> SUFFICES ASSUME NEW k \in 0..n, k # 0
                 PROVE  step[<<k - 1, f[k - 1]>>]
                        = EmplaceBack(f[k - 1], [alias |-> 0, value |-> vals[k]])
      OBVIOUS
    <3>1. k - 1 \in 0..n /\ k - 1 \in Nat /\ k - 1 < n /\ (k - 1) + 1 = k
      OBVIOUS
    <3>2. f[k - 1] \in SoundReps
      BY <1>6, <3>1
    <3>3. PICK q : q = <<k - 1, f[k - 1]>> /\ q \in Nat \X SoundReps /\ q[1] = k - 1 /\ q[2] = f[k - 1]
      <4>1. PICK a \in Nat, x \in SoundReps : a = k - 1 /\ x = f[k - 1]
        BY <3>1, <3>2
      <4>2. <<a, x>> \in Nat \X SoundReps /\ <<a, x>>[1] = a /\ <<a, x>>[2] = x
        OBVIOUS
      <4> QED
        BY <4>1, <4>2, Zenon
    <3>4. step[q] = one(q)
      BY <3>1, <3>3
    <3> HIDE DEF step
    <3> QED
      BY <3>1, <3>3, <3>4, Zenon
  <2> HIDE DEF step
  <2> QED
    BY <1>6, <2>1, Zenon
<1> HIDE DEF step
<1> DEFINE push == CHOOSE h : h = [k \in 0..n |-> IF k = 0 THEN r
                              ELSE EmplaceBack(h[k - 1], [alias |-> 0, value |-> vals[k]])]
<1>8. push = [k \in 0..n |-> IF k = 0 THEN r
                             ELSE EmplaceBack(push[k - 1], [alias |-> 0, value |-> vals[k]])]
  BY <1>7, Zenon
<1>9. PushAll(r, vals) = push[n]
  BY <1>1, Zenon DEF PushAll
<1> HIDE DEF push
<1>10. push[0] = r
  BY <1>8
<1>11. \A k \in 1..n : push[k] = EmplaceBack(push[k - 1], [alias |-> 0, value |-> vals[k]])
  <2> SUFFICES ASSUME NEW k \in 1..n
               PROVE  push[k] = EmplaceBack(push[k - 1], [alias |-> 0, value |-> vals[k]])
    OBVIOUS
  <2>1. k \in 0..n /\ k # 0
    OBVIOUS
  <2> QED
    BY <1>8, <2>1, Zenon
<1> DEFINE T == {k \in Nat : k <= n => \E u : Is(push[k], u) /\ Added(u, s, vals, k)}
<1>12. 0 \in T
  <2>1. Added(s, s, vals, 0)
    BY <1>0 DEF Added
  <2> QED
    BY <1>10, <2>1
<1>13. ASSUME NEW k \in Nat, k \in T PROVE k + 1 \in T
  <2> SUFFICES ASSUME k + 1 <= n
               PROVE  \E u : Is(push[k + 1], u) /\ Added(u, s, vals, k + 1)
    OBVIOUS
  <2>1. PICK u : Is(push[k], u) /\ Added(u, s, vals, k)
    BY <1>13
  <2> HIDE DEF T
  <2>2. PICK j \in 1..Len(vals) : j = k + 1 /\ j \in 1..n
    BY <1>1
  <2>3. j - 1 = k
    BY <2>2
  <2>4. Is(push[j - 1], u) /\ Added(u, s, vals, j - 1)
    BY <2>1, <2>3
  <2>5. PICK x : x = push[j - 1]
    OBVIOUS
  <2>6. Is(x, u) /\ Added(u, s, vals, j - 1)
    BY <2>4, <2>5
  <2>7. \E w : Is(EmplaceBack(x, [alias |-> 0, value |-> vals[j]]), w) /\ Added(w, s, vals, j)
    BY <1>0, <2>6, PushIs
  <2>8. push[j] = EmplaceBack(x, [alias |-> 0, value |-> vals[j]])
    BY <1>11, <2>2, <2>5, Zenon
  <2> QED
    BY <2>2, <2>7, <2>8, Zenon
<1>14. Nat \subseteq T
  <2> HIDE DEF T
  <2> QED
    BY <1>12, <1>13, Induction
<1>15. PICK u : Is(push[n], u) /\ Added(u, s, vals, n)
  BY <1>14
<1>16. Joined(u, s, vals)
  BY <1>1, <1>15 DEF Added, Joined
<1>17. u = s \o vals
  BY <1>0, <1>16, JoinedIs
<1> QED
  BY <1>9, <1>15, <1>17, Zenon

(* New contents of the same length *)
LEMMA RewrittenInPlace ==
  ASSUME NEW b, NEW g, NEW s, NEW u, Len(u) = Len(s), NEW w, w = Memory(Room(b, g), u)
  PROVE  [Rep(b, g, s) EXCEPT !.cells = w] = Rep(b, g, u)
<1>0. PICK f, k, m : f = TRUE /\ k = Len(s) /\ m = Memory(Room(b, g), s)
  OBVIOUS
<1>1. Rep(b, g, s) = Vector(b, g, k, m, f)
  BY <1>0 DEF Rep, Vector
<1>2. [Vector(b, g, k, m, f) EXCEPT !.cells = w] = Vector(b, g, k, w, f)
  BY NewCells
<1>3. [Rep(b, g, s) EXCEPT !.cells = w] = Vector(b, g, k, w, f)
  BY <1>1, <1>2, Zenon
<1> QED
  BY <1>0, <1>3 DEF Rep, Vector

(* Writing a sequence over one of its length leaves it alone. *)
LEMMA WholeOverlay ==
  ASSUME NEW s \in Seq(Values), NEW t \in Seq(Values), Len(s) = Len(t)
  PROVE  Overlaid(t, s, 0, t)
<1>1. ASSUME NEW i \in 1..Len(s)
      PROVE  t[i] = IF 0 < i /\ i <= 0 + Len(t) THEN t[i - 0] ELSE s[i]
  <2>1. Len(s) \in Nat
    BY SequenceIs
  <2>2. 0 < i /\ i <= 0 + Len(t) /\ i - 0 = i
    BY <2>1
  <2> QED
    BY <2>2
<1> QED
  BY <1>1 DEF Overlaid

(* A beginning and the rest are the sequence. *)
LEMMA SplitIs ==
  ASSUME NEW s \in Seq(Values), NEW k \in 0..Len(s)
  PROVE  \E p, q : /\ p = SubSeq(s, 1, k) /\ q = SubSeq(s, k + 1, Len(s))
                   /\ Beginning(p, s) /\ Len(p) = k /\ q \in Seq(Values) /\ Len(q) = Len(s) - k
                   /\ Joined(s, p, q)
<1>1. Len(s) \in Nat /\ k \in Nat /\ k <= Len(s)
  <2>1. Len(s) \in Nat
    BY SequenceIs
  <2> QED
    BY <2>1
<1>2. PICK p : p = SubSeq(s, 1, k) /\ Beginning(p, s) /\ Len(p) = k
  BY BeginningIs
<1>3. p \in Seq(Values) /\ Len(p) = k /\ \A i \in 1..Len(p) : p[i] = s[i]
  BY <1>2, Zenon DEF Beginning
<1>4. PICK a : a = k + 1 /\ a \in Nat \ {0} /\ Len(s) \in Int
  BY <1>1
<1>5. PICK q : q = SubSeq(s, a, Len(s))
  OBVIOUS
<1>6. /\ q \in Seq(Values)
      /\ Len(q) = IF a <= Len(s) THEN Len(s) - a + 1 ELSE 0
      /\ \A i \in 1..(Len(s) - a + 1) : q[i] = s[a + i - 1]
  BY <1>1, <1>4, <1>5, PartIs
<1>7. Len(q) = Len(s) - k
  <2>1. CASE a <= Len(s)
    <3>1. Len(q) = Len(s) - a + 1
      BY <1>6, <2>1
    <3> QED
      BY <1>1, <1>4, <3>1
  <2>2. CASE ~(a <= Len(s))
    <3>1. Len(q) = 0
      BY <1>6, <2>2
    <3>2. Len(s) = k
      BY <1>1, <1>4, <2>2
    <3> QED
      BY <1>1, <3>1, <3>2
  <2> QED
    BY <2>1, <2>2
<1>8. ASSUME NEW i \in 1..Len(q) PROVE s[Len(p) + i] = q[i]
  <2>1. i \in 1..(Len(s) - a + 1) /\ a + i - 1 = k + i
    BY <1>1, <1>4, <1>7
  <2>2. q[i] = s[a + i - 1]
    BY <1>6, <2>1
  <2> QED
    BY <1>3, <2>1, <2>2
<1>9. ASSUME NEW i \in 1..Len(p) PROVE s[i] = p[i]
  BY <1>3
<1>10. Len(s) = Len(p) + Len(q)
  BY <1>1, <1>3, <1>7
<1>11. Joined(s, p, q)
  BY <1>8, <1>9, <1>10 DEF Joined
<1>12. q = SubSeq(s, k + 1, Len(s)) /\ q \in Seq(Values)
  BY <1>4, <1>5, <1>6
<1> QED
  BY <1>2, <1>7, <1>11, <1>12, Zenon

(* AppendRange constructs the range behind the elements. *)
LEMMA AppendRangeIs ==
  ASSUME NEW r, NEW s, Is(r, s), NEW vals \in Seq(Values)
  PROVE  Is(AppendRange(r, vals), s \o vals)
<1>1. PICK b, g : Fits(b, g, s) /\ r = Rep(b, g, s)
  BY DEF Is
<1>2. s \in Seq(Values) /\ Len(s) \in Nat /\ r.size = Len(s) /\ Len(vals) \in Nat
  BY <1>1, RepHas, SequenceIs
<1>3. PICK n \in Nat : n = r.size + Len(vals) /\ n = Len(s) + Len(vals)
  BY <1>2
<1>4. PICK u : u = s \o vals /\ Joined(u, s, vals)
  BY <1>2, JoinedIs
<1>5. Joined(u, s, vals)
  BY <1>4
<1>6. Len(u) = n
  BY <1>3, <1>5 DEF Joined
<1>7. PICK c, h : Fits(c, h, s) /\ Reserve(r, n) = Rep(c, h, s) /\ n <= Room(c, h)
  BY ReserveIs
<1>8. AddedTo(c, h, s, vals, u)
  <2>1. Len(u) <= Room(c, h)
    BY <1>6, <1>7
  <2> QED
    BY <1>5, <1>7, <2>1, AddedIs
<1>9. Rep(c, h, s).cells = Memory(Room(c, h), s)
  BY <1>7, RepHas
<1>10. AppendRange(r, vals)
       = Sized([Reserve(r, n) EXCEPT !.cells = Constructed(Reserve(r, n).cells, r.size, vals)], n)
  BY <1>3, Zenon DEF AppendRange
<1>11. AppendRange(r, vals) = Rep(c, h, u) /\ Fits(c, h, u)
  BY <1>2, <1>6, <1>7, <1>8, <1>9, <1>10, Zenon DEF AddedTo
<1> QED
  BY <1>4, <1>11, Zenon DEF Is

(* A vector of n copies *)
LEMMA FillIs ==
  ASSUME NEW n \in Nat, NEW v \in Values
  PROVE  Is(FillConstructor(n, v), Repeated(n, v))
<1>1. PICK s : s = <<>> /\ s \in Seq(Values) /\ Len(s) = 0
  BY ShortSequences
<1>2. s \in Seq(Values) /\ Len(s) = 0 /\ Is(InitRep, s)
  BY <1>1, InitIs
<1>3. Capacity(InitRep) = kFit
  BY DEF Capacity, InitRep
<1>4. PICK room : room = IF n > kFit THEN Grow(InitRep, n, <<>>) ELSE InitRep
  OBVIOUS
<1>5. room = Reserve(InitRep, n)
  BY <1>3, <1>4, Zenon DEF Reserve
<1>6. PICK c, h : Fits(c, h, s) /\ Reserve(InitRep, n) = Rep(c, h, s) /\ n <= Room(c, h)
  BY <1>2, ReserveIs
<1>7. PICK t : t = Repeated(n, v) /\ t \in Seq(Values) /\ Len(t) = n
  BY RepeatedIs
<1>8. t \in Seq(Values) /\ Len(t) = n
  BY <1>7
<1>9. Joined(t, s, t)
  BY <1>2, <1>8 DEF Joined
<1>10. AddedTo(c, h, s, t, t)
  <2>1. Len(t) <= Room(c, h)
    BY <1>6, <1>8
  <2> QED
    BY <1>6, <1>8, <1>9, <2>1, AddedIs
<1>11. Rep(c, h, s).cells = Memory(Room(c, h), s)
  BY <1>6, RepHas
<1>12. FillConstructor(n, v) = Sized([room EXCEPT !.cells = Constructed(room.cells, 0, Repeated(n, v))], n)
  BY <1>4, Zenon DEF FillConstructor
<1>13. FillConstructor(n, v) = Rep(c, h, t) /\ Fits(c, h, t)
  BY <1>2, <1>5, <1>6, <1>7, <1>10, <1>11, <1>12, Zenon DEF AddedTo
<1> QED
  BY <1>7, <1>13, Zenon DEF Is

(* The cells of a vector read as the beginning and the rest of s. *)
CellsReadAs(r, s, k) ==
  /\ SubSeq(r.cells, 1, k) = SubSeq(s, 1, k)
  /\ SubSeq(r.cells, k + 1, Len(s)) = SubSeq(s, k + 1, Len(s))

(* So they do when the vector holds s. *)
LEMMA CellsRead ==
  ASSUME NEW r, NEW s, Is(r, s), NEW k \in 0..Len(s)
  PROVE  CellsReadAs(r, s, k)
<1>1. PICK b, g : Fits(b, g, s) /\ r = Rep(b, g, s)
  BY DEF Is
<1>2. /\ s \in Seq(Values) /\ Len(s) \in Nat /\ r.cells = Memory(Room(b, g), s)
      /\ Len(s) <= Room(b, g) /\ Room(b, g) \in Nat
  BY <1>1, RepHas
<1>3. PICK m : m = Room(b, g) /\ m \in Nat /\ Len(s) <= m
  BY <1>2
<1>4. PICK a, o, e : /\ a = k + 1 /\ a \in Nat \ {0} /\ o = 1 /\ o \in Nat \ {0}
                     /\ e = Len(s) /\ e \in Int /\ e <= Len(s) /\ k \in Int /\ k <= Len(s)
  BY <1>2
<1>5. ReadsAs(m, s, o, k)
  BY <1>2, <1>3, <1>4, MemoryReads
<1>6. ReadsAs(m, s, a, e)
  BY <1>2, <1>3, <1>4, MemoryReads
<1> QED
  BY <1>2, <1>3, <1>4, <1>5, <1>6, Zenon DEF ReadsAs, CellsReadAs

(* Assignment of a vector that is longer: room, assignment, and push_back of the rest *)
LEMMA AssignLongerIs ==
  ASSUME NEW r, NEW s, Is(r, s), NEW v, NEW t, Is(v, t), Len(s) < Len(t)
  PROVE  Is(Assign(r, v), t)
<1>1. s \in Seq(Values) /\ Len(s) \in Nat /\ r.size = Len(s)
  BY RepHas DEF Is
<1>2. t \in Seq(Values) /\ Len(t) \in Nat /\ v.size = Len(t)
  BY RepHas DEF Is
<1>3. PICK k \in 0..Len(t) : k = Len(s)
  BY <1>1, <1>2
<1>4. PICK p, q : /\ p = SubSeq(t, 1, k) /\ q = SubSeq(t, k + 1, Len(t))
                  /\ Beginning(p, t) /\ Len(p) = k /\ q \in Seq(Values) /\ Joined(t, p, q)
  BY <1>2, SplitIs
<1>5. SubSeq(v.cells, 1, k) = p /\ SubSeq(v.cells, k + 1, Len(t)) = q
  <2>1. CellsReadAs(v, t, k)
    BY CellsRead
  <2> QED
    BY <1>4, <2>1, Zenon DEF CellsReadAs
<1>6. Joined(t, p, q) /\ Len(p) = Len(s) /\ Beginning(p, t) /\ q \in Seq(Values)
  BY <1>3, <1>4
<1>7. p \in Seq(Values)
  BY <1>6, Zenon DEF Beginning
<1>8. t = p \o q
  BY <1>6, <1>7, JoinedIs
<1>9. PICK n \in Nat : n = v.size
  BY <1>2
<1>10. PICK c, h : Fits(c, h, s) /\ Reserve(r, n) = Rep(c, h, s) /\ n <= Room(c, h)
  BY ReserveIs
<1>11. Rep(c, h, s).cells = Memory(Room(c, h), s)
  BY <1>10, RepHas
<1>12. Overlaid(p, s, 0, p)
  BY <1>1, <1>6, <1>7, WholeOverlay
<1>13. ChangedTo(c, h, s, 0, p, p)
  <2>1. 0 + Len(p) <= Len(s) /\ 0 \in Nat
    BY <1>1, <1>6
  <2> QED
    BY <1>7, <1>10, <1>12, <2>1, ChangedIs
<1>14. PICK w : w = Memory(Room(c, h), p)
  OBVIOUS
<1>15. Assigned(Memory(Room(c, h), s), 0, p) = w /\ Fits(c, h, p)
  BY <1>13, <1>14, Zenon DEF ChangedTo
<1>16. [Rep(c, h, s) EXCEPT !.cells = w] = Rep(c, h, p)
  BY <1>6, <1>14, RewrittenInPlace
<1>17. [Reserve(r, n) EXCEPT !.cells = Assigned(Reserve(r, n).cells, 0, SubSeq(v.cells, 1, r.size))]
       = Rep(c, h, p)
  BY <1>1, <1>3, <1>5, <1>10, <1>11, <1>15, <1>16, Zenon
<1>18. Assign(r, v) = PushAll(Rep(c, h, p), q)
  <2>1. r.size < v.size
    BY <1>1, <1>2
  <2>2. Assign(r, v)
        = PushAll([Reserve(r, n) EXCEPT !.cells = Assigned(Reserve(r, n).cells, 0,
                                                           SubSeq(v.cells, 1, r.size))],
                  SubSeq(v.cells, r.size + 1, v.size))
    BY <1>9, <2>1, Zenon DEF Assign
  <2> QED
    BY <1>1, <1>2, <1>3, <1>5, <1>17, <2>2, Zenon
<1>19. Is(Rep(c, h, p), p)
  BY <1>15, Zenon DEF Is
<1>20. Is(PushAll(Rep(c, h, p), q), p \o q)
  BY <1>6, <1>19, PushAllIs
<1> QED
  BY <1>8, <1>18, <1>20, Zenon

(* Assignment of a vector that is not longer: the surplus is erased first. *)
LEMMA AssignShorterIs ==
  ASSUME NEW r, NEW s, Is(r, s), NEW v, NEW t, Is(v, t), Len(t) <= Len(s)
  PROVE  Is(Assign(r, v), t)
<1>1. s \in Seq(Values) /\ Len(s) \in Nat /\ r.size = Len(s)
  BY RepHas DEF Is
<1>2. t \in Seq(Values) /\ Len(t) \in Nat /\ v.size = Len(t) /\ Elements(v) = t
  BY RepHas DEF Is
<1>3. PICK k \in 0..Len(s) : k = Len(t)
  BY <1>1, <1>2
<1>4. PICK e \in k..Len(s) : e = Len(s)
  BY <1>1
<1>5. PICK x : x = SubSeq(s, 1, k) \o SubSeq(s, e + 1, Len(s))
  OBVIOUS
<1>6. Is(Erase(r, k, e), x)
  BY <1>5, EraseIs
<1>7. Len(x) = Len(t) /\ x \in Seq(Values)
  <2>1. PICK p : p = SubSeq(s, 1, k) /\ Beginning(p, s) /\ Len(p) = k
    BY <1>1, BeginningIs
  <2>2. p \in Seq(Values) /\ Len(p) = k
    BY <2>1, Zenon DEF Beginning
  <2>3. PICK a : a = e + 1 /\ a \in Nat \ {0} /\ a > Len(s) /\ Len(s) \in Int /\ Len(s) <= Len(s)
    BY <1>1, <1>4
  <2>4. PICK z : z = SubSeq(s, a, Len(s))
    OBVIOUS
  <2>5. z \in Seq(Values) /\ Len(z) = IF a <= Len(s) THEN Len(s) - a + 1 ELSE 0
    BY <1>1, <2>3, <2>4, PartIs
  <2>6. ~(a <= Len(s))
    BY <1>1, <2>3
  <2>7. z \in Seq(Values) /\ Len(z) = 0
    BY <2>5, <2>6, Zenon
  <2>8. Joined(x, p, z)
    <3>1. Joined(p \o z, p, z)
      BY <2>2, <2>7, JoinedIs
    <3> QED
      BY <1>5, <2>1, <2>3, <2>4, <3>1, Zenon
  <2>9. x \in Seq(Values) /\ Len(x) = Len(p) + Len(z)
    BY <2>8, Zenon DEF Joined
  <2> QED
    BY <1>2, <1>3, <2>2, <2>7, <2>9
<1>8. PICK b, g : Fits(b, g, x) /\ Erase(r, k, e) = Rep(b, g, x)
  BY <1>6, Zenon DEF Is
<1>9. Rep(b, g, x).cells = Memory(Room(b, g), x)
  BY <1>8, RepHas
<1>10. Overlaid(t, x, 0, t)
  BY <1>2, <1>7, WholeOverlay
<1>11. ChangedTo(b, g, x, 0, t, t)
  <2>1. 0 + Len(t) <= Len(x) /\ 0 \in Nat
    BY <1>2, <1>7
  <2> QED
    BY <1>2, <1>8, <1>10, <2>1, ChangedIs
<1>12. PICK w : w = Memory(Room(b, g), t)
  OBVIOUS
<1>13. Assigned(Memory(Room(b, g), x), 0, t) = w /\ Fits(b, g, t)
  BY <1>11, <1>12, Zenon DEF ChangedTo
<1>14. [Rep(b, g, x) EXCEPT !.cells = w] = Rep(b, g, t)
  BY <1>7, <1>12, RewrittenInPlace
<1>15. Assign(r, v) = Rep(b, g, t)
  <2>1. ~(r.size < v.size)
    BY <1>1, <1>2
  <2>2. Assign(r, v)
        = [Erase(r, v.size, r.size) EXCEPT !.cells = Assigned(Erase(r, v.size, r.size).cells, 0,
                                                              Elements(v))]
    BY <2>1, Zenon DEF Assign
  <2> QED
    BY <1>1, <1>2, <1>3, <1>4, <1>8, <1>9, <1>13, <1>14, <2>2, Zenon
<1> QED
  BY <1>13, <1>15, Zenon DEF Is

(* Assignment makes a vector what the other is. *)
LEMMA AssignIs ==
  ASSUME NEW r, NEW s, Is(r, s), NEW v, NEW t, Is(v, t)
  PROVE  Is(Assign(r, v), t)
<1>1. Len(s) \in Nat
  BY RepHas DEF Is
<1>2. Len(t) \in Nat
  BY RepHas DEF Is
<1>3. Len(s) < Len(t) \/ Len(t) <= Len(s)
  BY <1>1, <1>2
<1> QED
  BY <1>3, AssignLongerIs, AssignShorterIs

(* What moving the elements of the larger vector across has to do *)
MovedAcrossIs(a, b, s, t) ==
  \E u, w : Is(u, t) /\ Is(w, s) /\ MovedAcross(a, b) = <<u, w>>

(* MovedAcross exchanges what the two hold. *)
LEMMA MovedIs ==
  ASSUME NEW a, NEW s, Is(a, s), NEW b, NEW t, Is(b, t), Len(t) <= Len(s)
  PROVE  MovedAcrossIs(a, b, s, t)
<1>1. PICK d, e : Fits(d, e, s) /\ a = Rep(d, e, s)
  BY DEF Is
<1>2. /\ s \in Seq(Values) /\ Len(s) \in Nat /\ a.size = Len(s) /\ a.cells = Memory(Room(d, e), s)
      /\ Room(d, e) \in Nat /\ Len(s) <= Room(d, e)
  BY <1>1, RepHas
<1>3. t \in Seq(Values) /\ Len(t) \in Nat /\ b.size = Len(t) /\ Elements(b) = t
  BY RepHas DEF Is
<1>4. PICK k \in 0..Len(s) : k = Len(t)
  BY <1>2, <1>3
<1>5. PICK p, q : /\ p = SubSeq(s, 1, k) /\ q = SubSeq(s, k + 1, Len(s))
                  /\ Beginning(p, s) /\ Len(p) = k /\ q \in Seq(Values) /\ Joined(s, p, q)
  BY <1>2, SplitIs
<1>6. SubSeq(a.cells, 1, b.size) = p /\ SubSeq(a.cells, b.size + 1, a.size) = q
  <2>1. CellsReadAs(a, s, k)
    BY CellsRead
  <2> QED
    BY <1>2, <1>3, <1>4, <1>5, <2>1, Zenon DEF CellsReadAs
<1>7. Joined(s, p, q) /\ Len(p) = Len(t) /\ q \in Seq(Values)
  BY <1>4, <1>5
<1>8. p \in Seq(Values)
  BY <1>5, Zenon DEF Beginning

<1>9. PICK n \in Nat : n = a.size /\ n = Len(s)
  BY <1>2
<1>10. PICK room : room = IF Capacity(b) < a.size THEN Grow(b, a.size, <<>>) ELSE b
  OBVIOUS
<1>11. room = Reserve(b, n)
  <2>1. n > Capacity(b) <=> Capacity(b) < n
    OBVIOUS
  <2> QED
    BY <1>9, <1>10, <2>1, Zenon DEF Reserve
<1>12. PICK c, h : Fits(c, h, t) /\ Reserve(b, n) = Rep(c, h, t) /\ n <= Room(c, h)
  BY ReserveIs
<1>13. Rep(c, h, t).cells = Memory(Room(c, h), t) /\ Room(c, h) \in Nat
  BY <1>12, RepHas

<1>14. PICK o : Overlaid(o, s, 0, t)
  <2>1. 0 \in Nat
    OBVIOUS
  <2> QED
    BY <1>2, <1>3, <2>1, OverlayExists
<1>15. o \in Seq(Values) /\ Len(o) = Len(s)
  BY <1>14 DEF Overlaid
<1>16. Beginning(t, o)
  <2>1. ASSUME NEW i \in 1..Len(t) PROVE t[i] = o[i]
    <3>1. i \in 1..Len(s) /\ 0 < i /\ i <= 0 + Len(t) /\ i - 0 = i
      BY <1>2, <1>3
    <3>2. o[i] = t[i - 0]
      BY <1>14, <3>1 DEF Overlaid
    <3> QED
      BY <3>1, <3>2
  <2> QED
    BY <1>3, <1>15, <2>1 DEF Beginning
<1>17. ChangedTo(d, e, s, 0, t, o)
  <2>1. 0 + Len(t) <= Len(s) /\ 0 \in Nat
    BY <1>2, <1>3
  <2> QED
    BY <1>1, <1>3, <1>14, <2>1, ChangedIs
<1>18. PICK x : x = Len(s) - Len(t) /\ x = Len(o) - Len(t)
  BY <1>15
<1>19. Destroyed(Memory(Room(d, e), o), Len(t), x) = Memory(Room(d, e), t)
  <2>1. Room(d, e) \in Nat /\ Len(o) <= Room(d, e) /\ x = Len(o) - Len(t)
    BY <1>2, <1>15, <1>18
  <2> QED
    <3>1. LeavesIn(Room(d, e), o, t, x)
      BY <1>15, <1>16, <2>1, DestroyedIs
    <3> QED
      BY <3>1, Zenon DEF LeavesIn
<1>20. PICK m : m = Memory(Room(d, e), t)
  OBVIOUS
<1>21. Destroyed(Assigned(a.cells, 0, Elements(b)), b.size, a.size - b.size) = m
  BY <1>2, <1>3, <1>17, <1>18, <1>19, <1>20, Zenon DEF ChangedTo
<1>22. Fits(d, e, t)
  BY <1>1, <1>2, <1>3 DEF Fits
<1>23. PICK j : j = Len(t) /\ j = b.size
  BY <1>3
<1>24. Sized([Rep(d, e, s) EXCEPT !.cells = m], j) = Rep(d, e, t)
  <2>1. j = Len(t)
    BY <1>23
  <2> QED
    BY <1>20, <2>1, Rewritten

<1>25. Overlaid(p, t, 0, p)
  BY <1>3, <1>7, <1>8, WholeOverlay
<1>26. ChangedTo(c, h, t, 0, p, p)
  <2>1. 0 + Len(p) <= Len(t) /\ 0 \in Nat
    BY <1>3, <1>7
  <2> QED
    BY <1>8, <1>12, <1>25, <2>1, ChangedIs
<1>27. Constructed(Memory(Room(c, h), p), Len(p), q) = Memory(Room(c, h), s)
  <2>1. Len(s) <= Room(c, h)
    BY <1>9, <1>12
  <2> QED
    BY <1>7, <1>8, <1>13, <2>1, ConstructedIs
<1>28. PICK y : y = Memory(Room(c, h), s)
  OBVIOUS
<1>29. Constructed(Assigned(room.cells, 0, SubSeq(a.cells, 1, b.size)), b.size,
                   SubSeq(a.cells, b.size + 1, a.size)) = y
  BY <1>3, <1>6, <1>7, <1>11, <1>12, <1>13, <1>26, <1>27, <1>28, Zenon DEF ChangedTo
<1>30. Fits(c, h, s)
  BY <1>2, <1>9, <1>12 DEF Fits
<1>31. Sized([Rep(c, h, t) EXCEPT !.cells = y], n) = Rep(c, h, s)
  <2>1. n = Len(s)
    BY <1>9
  <2> QED
    BY <1>28, <2>1, Rewritten

<1>32. MovedAcross(a, b)
       = <<Sized([a EXCEPT !.cells = Destroyed(Assigned(a.cells, 0, Elements(b)), b.size,
                                               a.size - b.size)], b.size),
           Sized([room EXCEPT !.cells = Constructed(Assigned(room.cells, 0, SubSeq(a.cells, 1, b.size)),
                                                    b.size, SubSeq(a.cells, b.size + 1, a.size))],
                 a.size)>>
  BY <1>10, Zenon DEF MovedAcross
<1>33. MovedAcross(a, b) = <<Rep(d, e, t), Rep(c, h, s)>>
  BY <1>1, <1>9, <1>11, <1>12, <1>21, <1>23, <1>24, <1>29, <1>31, <1>32, Zenon
<1>34. Is(Rep(d, e, t), t) /\ Is(Rep(c, h, s), s)
  BY <1>22, <1>30, Zenon DEF Is
<1> QED
  BY <1>33, <1>34, Zenon DEF MovedAcrossIs

(* Exchanging the pointers to two blocks *)
LEMMA FreedKept ==
  ASSUME NEW b, NEW g, NEW s, NEW f, f = TRUE
  PROVE  [Rep(b, g, s) EXCEPT !.freed = f] = Rep(b, g, s)
<1>1. PICK k, m, e : k = Len(s) /\ m = Memory(Room(b, g), s) /\ e = f
  OBVIOUS
<1>2. Rep(b, g, s) = Vector(b, g, k, m, f)
  BY <1>1 DEF Rep, Vector
<1>3. Rep(b, g, s) = Vector(b, g, k, m, e)
  BY <1>1, <1>2, Zenon
<1>4. [Vector(b, g, k, m, e) EXCEPT !.freed = e] = Vector(b, g, k, m, e)
  BY NewFreed
<1> QED
  BY <1>1, <1>3, <1>4, Zenon

(* Two vectors exchange what they hold. *)
SwappedIs(a, b, s, t) == \E u, w : Is(u, t) /\ Is(w, s) /\ Swapped(a, b) = <<u, w>>

(* swap makes them do so, in every combination of inline and not. *)
LEMMA SwapIs ==
  ASSUME NEW a, NEW s, Is(a, s), NEW b, NEW t, Is(b, t)
  PROVE  SwappedIs(a, b, s, t)
<1>1. PICK d, e : Fits(d, e, s) /\ a = Rep(d, e, s)
  BY DEF Is
<1>2. PICK c, h : Fits(c, h, t) /\ b = Rep(c, h, t)
  BY DEF Is
<1>3. PICK f : f = TRUE
  OBVIOUS
<1>4. a.freed = f /\ b.freed = f
  <2>1. Rep(d, e, s).freed = TRUE /\ Rep(c, h, t).freed = TRUE
    BY DEF Rep
  <2> QED
    BY <1>1, <1>2, <1>3, <2>1, Zenon
<1>5. Len(s) \in Nat /\ a.size = Len(s) /\ Len(t) \in Nat /\ b.size = Len(t)
  BY <1>1, <1>2, RepHas
<1>6. CASE ~a.inline /\ ~b.inline
  <2>1. [a EXCEPT !.freed = f] = a /\ [b EXCEPT !.freed = f] = b
    BY <1>1, <1>2, <1>3, FreedKept
  <2>2. Swapped(a, b) = <<[b EXCEPT !.freed = a.freed], [a EXCEPT !.freed = b.freed]>>
    BY <1>6, Zenon DEF Swapped
  <2>3. Swapped(a, b) = <<b, a>>
    BY <1>4, <2>1, <2>2, Zenon
  <2> QED
    BY <2>3, Zenon DEF SwappedIs
<1>7. CASE ~(~a.inline /\ ~b.inline) /\ a.size < b.size
  <2>1. Len(s) <= Len(t)
    BY <1>5, <1>7
  <2>2. MovedAcrossIs(b, a, t, s)
    BY <2>1, MovedIs
  <2>3. PICK u, w : Is(u, s) /\ Is(w, t) /\ MovedAcross(b, a) = <<u, w>>
    BY <2>2 DEF MovedAcrossIs
  <2>4. Swapped(a, b) = <<MovedAcross(b, a)[2], MovedAcross(b, a)[1]>>
    BY <1>7, Zenon DEF Swapped
  <2>5. <<u, w>>[1] = u /\ <<u, w>>[2] = w
    OBVIOUS
  <2>6. Swapped(a, b) = <<w, u>>
    BY <2>3, <2>4, <2>5, Zenon
  <2> QED
    BY <2>3, <2>6, Zenon DEF SwappedIs
<1>8. CASE ~(~a.inline /\ ~b.inline) /\ ~(a.size < b.size)
  <2>1. Len(t) <= Len(s)
    BY <1>5, <1>8
  <2>2. MovedAcrossIs(a, b, s, t)
    BY <2>1, MovedIs
  <2>3. Swapped(a, b) = MovedAcross(a, b)
    BY <1>8, Zenon DEF Swapped
  <2> QED
    BY <2>2, <2>3, Zenon DEF SwappedIs, MovedAcrossIs
<1> QED
  BY <1>6, <1>7, <1>8

-----------------------------------------------------------------------------
(* InlinedVector: the theorems                                             *)

(* What Sequence says of each operation *)
LEMMA AfterIs ==
  ASSUME NEW s, NEW t, NEW c
  PROVE  /\ c.op = "push_back" => Abstract!After(s, t, c) = Append(s, Abstract!Value(s, c))
         /\ c.op = "pop_back" => Abstract!After(s, t, c) = SubSeq(s, 1, Len(s) - 1)
         /\ c.op = "insert" => Abstract!After(s, t, c) = Abstract!InsertAt(s, c.pos + 1, c.value)
         /\ c.op = "erase" => Abstract!After(s, t, c)
                              = SubSeq(s, 1, c.pos) \o SubSeq(s, c.last + 1, Len(s))
         /\ c.op = "resize" => Abstract!After(s, t, c)
                               = IF c.n <= Len(s) THEN SubSeq(s, 1, c.n)
                                 ELSE s \o Repeated(c.n - Len(s), c.value)
         /\ c.op = "fill" => Abstract!After(s, t, c) = Repeated(c.n, c.value)
         /\ c.op \in {"range", "assign", "swap"} => Abstract!After(s, t, c) = t
         /\ c.op = "clear" => Abstract!After(s, t, c) = <<>>
         /\ c.op = "reserve" => Abstract!After(s, t, c) = s
<1>1. ASSUME c.op = "push_back"
      PROVE  Abstract!After(s, t, c) = Append(s, Abstract!Value(s, c))
  BY <1>1 DEF Abstract!After
<1>2. ASSUME c.op = "pop_back" PROVE Abstract!After(s, t, c) = SubSeq(s, 1, Len(s) - 1)
  BY <1>2 DEF Abstract!After, Abstract!Front
<1>3. ASSUME c.op = "insert"
      PROVE  Abstract!After(s, t, c) = Abstract!InsertAt(s, c.pos + 1, c.value)
  BY <1>3 DEF Abstract!After
<1>4. ASSUME c.op = "erase"
      PROVE  Abstract!After(s, t, c) = SubSeq(s, 1, c.pos) \o SubSeq(s, c.last + 1, Len(s))
  BY <1>4 DEF Abstract!After
<1>5. ASSUME c.op = "resize"
      PROVE  Abstract!After(s, t, c) = IF c.n <= Len(s) THEN SubSeq(s, 1, c.n)
                                       ELSE s \o Repeated(c.n - Len(s), c.value)
  BY <1>5 DEF Abstract!After, Abstract!Copies, Repeated
<1>6. ASSUME c.op = "fill" PROVE Abstract!After(s, t, c) = Repeated(c.n, c.value)
  BY <1>6 DEF Abstract!After, Abstract!Copies, Repeated
<1>7. ASSUME c.op \in {"range", "assign", "swap"} PROVE Abstract!After(s, t, c) = t
  BY <1>7 DEF Abstract!After
<1>8. ASSUME c.op = "clear" PROVE Abstract!After(s, t, c) = <<>>
  BY <1>8 DEF Abstract!After
<1>9. ASSUME c.op = "reserve" PROVE Abstract!After(s, t, c) = s
  BY <1>9 DEF Abstract!After
<1> QED
  BY <1>1, <1>2, <1>3, <1>4, <1>5, <1>6, <1>7, <1>8, <1>9, Zenon

(* The invariant: every vector holds a sequence, soundly. *)
VectorInv == DOMAIN vec = Vectors /\ vec = [x \in Vectors |-> vec[x]]
             /\ \A x \in Vectors : \E s : Is(vec[x], s)

(* What a vector holds is its elements. *)
LEMMA HoldsElements ==
  ASSUME NEW r, NEW s, Is(r, s)
  PROVE  s = Elements(r) /\ s \in Seq(Values) /\ Len(s) \in Nat /\ r.size = Len(s)
BY RepHas DEF Is

(* A vector that holds a sequence is as StorageIsSound says. *)
LEMMA SoundIs ==
  ASSUME NEW r, NEW s, Is(r, s)
  PROVE  /\ r.freed /\ Len(r.cells) = Capacity(r) /\ r.size <= Capacity(r)
         /\ \A i \in DOMAIN r.cells :
              IF i <= r.size THEN r.cells[i] \in Values ELSE r.cells[i] = Raw
<1>1. PICK b, g : Fits(b, g, s) /\ r = Rep(b, g, s)
  BY DEF Is
<1>2. /\ s \in Seq(Values) /\ Room(b, g) \in Nat /\ Len(s) \in Nat /\ Len(s) <= Room(b, g)
      /\ r.size = Len(s) /\ r.freed /\ r.cells = Memory(Room(b, g), s) /\ Capacity(r) = Room(b, g)
  BY <1>1, RepHas
<1>3. DOMAIN r.cells = 1..Room(b, g) /\ Len(r.cells) = Room(b, g)
  <2>1. PICK n \in Nat : n = Room(b, g)
    BY <1>2
  <2>2. PICK m : m = Memory(n, s)
    OBVIOUS
  <2>3. m = [i \in 1..n |-> IF i <= Len(s) THEN s[i] ELSE Raw]
    BY <2>2 DEF Memory
  <2>4. m \in Seq({m[i] : i \in 1..n}) /\ DOMAIN m = 1..n
    <3>1. DOMAIN m = 1..n /\ m = [i \in 1..n |-> m[i]]
      BY <2>3
    <3>2. m \in [1..n -> {m[i] : i \in 1..n}]
      BY <3>1
    <3> QED
      BY <3>1, <3>2, SeqDef
  <2>5. Len(m) = n
    BY <2>4, LenProperties
  <2> QED
    BY <1>2, <2>1, <2>2, <2>4, <2>5, Zenon
<1>4. ASSUME NEW i \in DOMAIN r.cells
      PROVE  IF i <= r.size THEN r.cells[i] \in Values ELSE r.cells[i] = Raw
  <2>1. i \in 1..Room(b, g)
    BY <1>3
  <2>2. r.cells[i] = IF i <= Len(s) THEN s[i] ELSE Raw
    BY <1>2, <2>1 DEF Memory
  <2>3. i <= Len(s) => s[i] \in Values
    <3>1. i <= Len(s) => i \in 1..Len(s)
      BY <1>2, <2>1
    <3> QED
      BY <1>2, <3>1, SequenceIs
  <2> QED
    BY <1>2, <2>2, <2>3
<1> QED
  BY <1>2, <1>3, <1>4

(* h is f but at x and y. *)
DiffersAt(h, f, x, y, a, b) == h = [f EXCEPT ![x] = a, ![y] = b]

(* A function that differs from another at two places *)
LEMMA TwoChanges ==
  ASSUME NEW S, NEW f, f = [z \in S |-> f[z]], NEW x \in S, NEW y \in S, x # y, NEW a, NEW b,
         NEW h, h = [z \in S |-> h[z]], h[x] = a, h[y] = b, \A z \in S \ {x, y} : h[z] = f[z]
  PROVE  DiffersAt(h, f, x, y, a, b)
<1>1. PICK g : g = [f EXCEPT ![x] = a, ![y] = b]
  OBVIOUS
<1>2. g = [z \in S |-> g[z]]
  BY <1>1
<1>3. ASSUME NEW z \in S PROVE g[z] = h[z]
  <2>1. CASE z = x
    BY <1>1, <2>1
  <2>2. CASE z = y
    BY <1>1, <2>2
  <2>3. CASE z \in S \ {x, y}
    BY <1>1, <2>3
  <2> QED
    BY <2>1, <2>2, <2>3
<1>4. g = h
  BY <1>2, <1>3
<1> QED
  BY <1>1, <1>4 DEF DiffersAt

(* A step that makes x and y hold what Sequence says they become *)
Changes(x, y, c, r, q, u, w) ==
  /\ c.on = x /\ made' = c
  /\ Is(r, u) /\ Is(q, w) /\ vec' = [vec EXCEPT ![x] = r, ![y] = q]
  /\ u = Abstract!After(Elements(vec[x]), Elements(vec[y]), c)
  /\ w = IF c.op = "swap" THEN Elements(vec[x]) ELSE Elements(vec[y])

(* It keeps the invariant and is a step of Sequence. *)
LEMMA StepIs ==
  ASSUME VectorInv, NEW x \in Vectors, NEW y \in Vectors, x # y,
         NEW c, NEW r, NEW q, NEW u, NEW w, Changes(x, y, c, r, q, u, w)
  PROVE  VectorInv' /\ Abstract!SeqNext
<1>0. /\ c.on = x /\ made' = c
      /\ Is(r, u) /\ Is(q, w) /\ vec' = [vec EXCEPT ![x] = r, ![y] = q]
      /\ u = Abstract!After(Elements(vec[x]), Elements(vec[y]), c)
      /\ w = IF c.op = "swap" THEN Elements(vec[x]) ELSE Elements(vec[y])
  BY Zenon DEF Changes
<1>1. vec = [z \in Vectors |-> vec[z]] /\ DOMAIN vec = Vectors
  BY DEF VectorInv
<1>20. vec' = [vec EXCEPT ![x] = r, ![y] = q]
  BY <1>0
<1>2. vec' = [z \in Vectors |-> vec'[z]] /\ DOMAIN vec' = Vectors
  BY <1>1, <1>20
<1>3. vec'[x] = r /\ vec'[y] = q /\ \A z \in Vectors \ {x, y} : vec'[z] = vec[z]
  BY <1>1, <1>20
<1>4. \A z \in Vectors : \E s : Is(vec'[z], s)
  <2> SUFFICES ASSUME NEW z \in Vectors PROVE \E s : Is(vec'[z], s)
    OBVIOUS
  <2>1. CASE z = x
    <3>1. Is(vec'[z], u)
      BY <1>0, <1>3, <2>1, Zenon
    <3> QED
      BY <3>1
  <2>2. CASE z = y
    <3>1. Is(vec'[z], w)
      BY <1>0, <1>3, <2>2, Zenon
    <3> QED
      BY <3>1
  <2>3. CASE z # x /\ z # y
    <3>1. vec'[z] = vec[z]
      BY <1>3, <2>3
    <3> QED
      BY <3>1, Zenon DEF VectorInv
  <2> QED
    BY <2>1, <2>2, <2>3
<1>5. VectorInv'
  BY <1>2, <1>4, Zenon DEF VectorInv
<1>6. Elements(r) = u /\ Elements(q) = w
  <2>1. Is(r, u) /\ Is(q, w)
    BY <1>0
  <2> QED
    BY <2>1, HoldsElements
<1>7. PICK f, h : f = AsSequences /\ h = AsSequences'
  OBVIOUS
<1>8. /\ f = [z \in Vectors |-> f[z]] /\ h = [z \in Vectors |-> h[z]]
      /\ DOMAIN f = Vectors /\ f[x] = Elements(vec[x]) /\ f[y] = Elements(vec[y])
  BY <1>7 DEF AsSequences
<1>9. h[x] = u /\ h[y] = w
  <2>1. h[x] = Elements(vec'[x]) /\ h[y] = Elements(vec'[y])
    BY <1>7 DEF AsSequences
  <2> QED
    BY <1>3, <1>6, <2>1, Zenon
<1>10. ASSUME NEW z \in Vectors \ {x, y} PROVE h[z] = f[z]
  <2>1. h[z] = Elements(vec'[z]) /\ f[z] = Elements(vec[z])
    BY <1>7 DEF AsSequences
  <2> QED
    BY <1>3, <2>1, Zenon
<1>11. h = [f EXCEPT ![x] = u, ![y] = w]
  <2>1. DiffersAt(h, f, x, y, u, w)
    BY <1>8, <1>9, <1>10, TwoChanges
  <2> QED
    BY <2>1, Zenon DEF DiffersAt
<1>12. PICK e : e = IF made'.op = "swap" THEN f[x] ELSE f[y]
  OBVIOUS
<1>13. e = w /\ Abstract!After(f[x], f[y], made') = u
  BY <1>0, <1>8, <1>12, Zenon
<1>14. x \in DOMAIN f /\ y \in DOMAIN f /\ made'.on = x
  BY <1>0, <1>8
<1>16. h = [f EXCEPT ![x] = Abstract!After(f[x], f[y], made'),
                     ![y] = IF made'.op = "swap" THEN f[x] ELSE f[y]]
  BY <1>11, <1>12, <1>13, Zenon
<1>17. x \in DOMAIN AsSequences /\ y \in DOMAIN AsSequences /\ made'.on = x
  BY <1>7, <1>14, Zenon
<1>18. AsSequences' = [AsSequences EXCEPT ![x] = Abstract!After(AsSequences[x], AsSequences[y], made'),
                           ![y] = IF made'.op = "swap" THEN AsSequences[x] ELSE AsSequences[y]]
  BY <1>7, <1>16, Zenon
<1>19. Abstract!SeqNext
  BY <1>17, <1>18, Zenon DEF Abstract!SeqNext
<1> QED
  BY <1>5, <1>19

(* A method of one object, which makes x hold what Sequence says it becomes *)
Becomes(x, y, c, r) ==
  /\ c.on = x /\ c.op # "swap" /\ Does(r, c)
  /\ Is(r, Abstract!After(Elements(vec[x]), Elements(vec[y]), c))

(* It keeps the invariant and is a step of Sequence. *)
LEMMA DoesIs ==
  ASSUME VectorInv, NEW x \in Vectors, NEW y \in Vectors, x # y, NEW c, NEW r, Becomes(x, y, c, r)
  PROVE  VectorInv' /\ Abstract!SeqNext
<1>0. PICK u : /\ c.on = x /\ c.op # "swap" /\ Does(r, c)
               /\ u = Abstract!After(Elements(vec[x]), Elements(vec[y]), c) /\ Is(r, u)
  BY Zenon DEF Becomes
<1>1. PICK w : Is(vec[y], w)
  BY DEF VectorInv
<1>2. w = IF c.op = "swap" THEN Elements(vec[x]) ELSE Elements(vec[y])
  <2>1. w = Elements(vec[y])
    BY <1>1, HoldsElements
  <2> QED
    BY <1>0, <2>1, Zenon
<1>3. vec = [z \in Vectors |-> vec[z]] /\ DOMAIN vec = Vectors
  BY DEF VectorInv
<1>4. vec' = [vec EXCEPT ![x] = r] /\ made' = c
  BY <1>0 DEF Does
<1>5. PICK q : q = vec[y]
  OBVIOUS
<1>6. vec' = [vec EXCEPT ![x] = r, ![y] = q]
  <2>1. PICK f, h : f = vec /\ h = vec'
    OBVIOUS
  <2>2. f = [z \in Vectors |-> f[z]]
    BY <1>3, <2>1
  <2>3. /\ h = [z \in Vectors |-> h[z]] /\ h[x] = r /\ h[y] = q
        /\ \A z \in Vectors \ {x, y} : h[z] = f[z]
    BY <1>3, <1>4, <1>5, <2>1
  <2>4. h = [f EXCEPT ![x] = r, ![y] = q]
    <3>1. DiffersAt(h, f, x, y, r, q)
      BY <2>2, <2>3, TwoChanges
    <3> QED
      BY <3>1, Zenon DEF DiffersAt
  <2> QED
    BY <2>1, <2>4, Zenon
<1>7. Is(q, w)
  BY <1>1, <1>5
<1>8. Changes(x, y, c, r, q, u, w)
  BY <1>0, <1>2, <1>4, <1>6, <1>7, Zenon DEF Changes
<1> QED
  BY <1>8, StepIs

(* What the vectors hold before a step *)
LEMMA BeforeStep ==
  ASSUME VectorInv, NEW x \in Vectors
  PROVE  \E s : Is(vec[x], s) /\ s = Elements(vec[x]) /\ s \in Seq(Values) /\ Len(s) \in Nat
                /\ vec[x].size = Len(s)
<1>1. PICK s : Is(vec[x], s)
  BY DEF VectorInv
<1>2. s = Elements(vec[x]) /\ s \in Seq(Values) /\ Len(s) \in Nat /\ vec[x].size = Len(s)
  BY <1>1, HoldsElements
<1> QED
  BY <1>1, <1>2, Zenon

(* push_back; its argument may be an element of the same vector. *)
LEMMA PushBackStep ==
  ASSUME VectorInv, NEW x \in Vectors, NEW y \in Vectors, x # y, PushBack(x)
  PROVE  VectorInv' /\ Abstract!SeqNext
<1>1. PICK s : Is(vec[x], s) /\ s = Elements(vec[x]) /\ s \in Seq(Values) /\ Len(s) \in Nat
               /\ vec[x].size = Len(s)
  BY BeforeStep
<1>2. PICK arg \in [alias : {0}, value : Values]
                   \cup {[alias |-> i, value |-> vec[x].cells[i]] : i \in 1..vec[x].size} :
        Does(EmplaceBack(vec[x], arg),
             [on |-> x, op |-> "push_back", alias |-> arg.alias, value |-> arg.value])
  BY DEF PushBack
<1>3. PICK v \in Values : v = IF arg.alias > 0 THEN s[arg.alias] ELSE arg.value
  <2>1. CASE arg \in [alias : {0}, value : Values]
    <3>1. arg.alias = 0 /\ arg.value \in Values
      BY <2>1
    <3> QED
      BY <3>1
  <2>2. CASE arg \in {[alias |-> i, value |-> vec[x].cells[i]] : i \in 1..vec[x].size}
    <3>1. PICK i \in 1..vec[x].size : arg = [alias |-> i, value |-> vec[x].cells[i]]
      BY <2>2
    <3>2. arg.alias = i
      BY <3>1
    <3>3. i \in 1..Len(s) /\ i > 0
      BY <1>1
    <3>4. s[i] \in Values
      BY <1>1, <3>3, SequenceIs
    <3> QED
      BY <3>2, <3>3, <3>4
  <2> QED
    BY <1>2, <2>1, <2>2
<1>4. arg.alias \in 0..Len(s)
  <2>1. CASE arg \in [alias : {0}, value : Values]
    BY <1>1, <2>1
  <2>2. CASE arg \in {[alias |-> i, value |-> vec[x].cells[i]] : i \in 1..vec[x].size}
    <3>1. PICK i \in 1..vec[x].size : arg = [alias |-> i, value |-> vec[x].cells[i]]
      BY <2>2
    <3>2. arg.alias = i
      BY <3>1
    <3> QED
      BY <1>1, <3>2
  <2> QED
    BY <1>2, <2>1, <2>2
<1>5. Is(EmplaceBack(vec[x], arg), Append(s, v))
  <2>1. Is(vec[x], s)
    BY <1>1
  <2> QED
    BY <1>3, <1>4, <2>1, EmplaceBackIs
<1>6. PICK c : c = [on |-> x, op |-> "push_back", alias |-> arg.alias, value |-> arg.value]
  OBVIOUS
<1>9. c.on = x /\ c.op = "push_back" /\ c.alias = arg.alias /\ c.value = arg.value
  BY <1>6
<1>10. c.op = "push_back"
  BY <1>9
<1>7. Abstract!After(Elements(vec[x]), Elements(vec[y]), c) = Append(s, v)
  <2>1. Abstract!Value(s, c) = v
    BY <1>3, <1>9, Zenon DEF Abstract!Value
  <2>2. Abstract!After(s, Elements(vec[y]), c) = Append(s, Abstract!Value(s, c))
    BY <1>10, AfterIs
  <2> QED
    BY <1>1, <2>1, <2>2, Zenon
<1>8. Becomes(x, y, c, EmplaceBack(vec[x], arg))
  <2>1. c.op # "swap"
    BY <1>10
  <2> QED
    BY <1>2, <1>5, <1>6, <1>7, <1>9, <2>1, Zenon DEF Becomes
<1> QED
  BY <1>8, DoesIs

(* pop_back *)
LEMMA PopBackStep ==
  ASSUME VectorInv, NEW x \in Vectors, NEW y \in Vectors, x # y, pop_back(x)
  PROVE  VectorInv' /\ Abstract!SeqNext
<1>1. PICK s : Is(vec[x], s) /\ s = Elements(vec[x]) /\ s \in Seq(Values) /\ Len(s) \in Nat
               /\ vec[x].size = Len(s)
  BY BeforeStep
<1>2. vec[x].size > 0 /\ Does(PopBack(vec[x]), [on |-> x, op |-> "pop_back"])
  BY DEF pop_back
<1>3. Is(PopBack(vec[x]), SubSeq(s, 1, Len(s) - 1))
  <2>1. Is(vec[x], s) /\ Len(s) > 0
    BY <1>1, <1>2
  <2> QED
    BY <2>1, PopBackIs
<1>4. PICK c : c = [on |-> x, op |-> "pop_back"]
  OBVIOUS
<1>9. c.on = x /\ c.op = "pop_back"
  BY <1>4
<1>10. c.op = "pop_back"
  BY <1>9
<1>5. Abstract!After(s, Elements(vec[y]), c) = SubSeq(s, 1, Len(s) - 1)
  BY <1>10, AfterIs
<1>6. Becomes(x, y, c, PopBack(vec[x]))
  <2>1. c.op # "swap"
    BY <1>10
  <2> QED
    BY <1>1, <1>2, <1>3, <1>4, <1>5, <1>9, <2>1, Zenon DEF Becomes
<1> QED
  BY <1>6, DoesIs

(* insert *)
LEMMA InsertStep ==
  ASSUME VectorInv, NEW x \in Vectors, NEW y \in Vectors, x # y, insert(x)
  PROVE  VectorInv' /\ Abstract!SeqNext
<1>1. PICK s : Is(vec[x], s) /\ s = Elements(vec[x]) /\ s \in Seq(Values) /\ Len(s) \in Nat
               /\ vec[x].size = Len(s)
  BY BeforeStep
<1>2. PICK pos \in 0..vec[x].size, v \in Values :
        Does(Insert(vec[x], pos, v), [on |-> x, op |-> "insert", pos |-> pos, value |-> v])
  BY DEF insert
<1>3. Is(Insert(vec[x], pos, v), SubSeq(s, 1, pos) \o <<v>> \o SubSeq(s, pos + 1, Len(s)))
  <2>1. Is(vec[x], s) /\ pos \in 0..Len(s)
    BY <1>1
  <2> QED
    BY <2>1, InsertIs
<1>4. PICK c : c = [on |-> x, op |-> "insert", pos |-> pos, value |-> v]
  OBVIOUS
<1>9. c.on = x /\ c.op = "insert" /\ c.pos = pos /\ c.value = v
  BY <1>4
<1>10. c.op = "insert"
  BY <1>9
<1>5. Abstract!After(s, Elements(vec[y]), c)
      = SubSeq(s, 1, pos) \o <<v>> \o SubSeq(s, pos + 1, Len(s))
  <2>1. Abstract!After(s, Elements(vec[y]), c) = Abstract!InsertAt(s, c.pos + 1, c.value)
    BY <1>10, AfterIs
  <2>2. (pos + 1) - 1 = pos
    BY <1>1
  <2> QED
    BY <1>9, <2>1, <2>2, Zenon DEF Abstract!InsertAt
<1>6. Becomes(x, y, c, Insert(vec[x], pos, v))
  <2>1. c.op # "swap"
    BY <1>10
  <2> QED
    BY <1>1, <1>2, <1>3, <1>4, <1>5, <1>9, <2>1, Zenon DEF Becomes
<1> QED
  BY <1>6, DoesIs

(* erase *)
LEMMA EraseStep ==
  ASSUME VectorInv, NEW x \in Vectors, NEW y \in Vectors, x # y, erase(x)
  PROVE  VectorInv' /\ Abstract!SeqNext
<1>1. PICK s : Is(vec[x], s) /\ s = Elements(vec[x]) /\ s \in Seq(Values) /\ Len(s) \in Nat
               /\ vec[x].size = Len(s)
  BY BeforeStep
<1>2. PICK first \in 0..vec[x].size, last \in 0..vec[x].size :
        /\ first <= last
        /\ Does(Erase(vec[x], first, last), [on |-> x, op |-> "erase", pos |-> first, last |-> last])
  BY DEF erase
<1>3. Is(Erase(vec[x], first, last), SubSeq(s, 1, first) \o SubSeq(s, last + 1, Len(s)))
  <2>1. Is(vec[x], s) /\ first \in 0..Len(s) /\ last \in first..Len(s)
    BY <1>1, <1>2
  <2> QED
    BY <2>1, EraseIs
<1>4. PICK c : c = [on |-> x, op |-> "erase", pos |-> first, last |-> last]
  OBVIOUS
<1>9. c.on = x /\ c.op = "erase" /\ c.pos = first /\ c.last = last
  BY <1>4
<1>10. c.op = "erase"
  BY <1>9
<1>5. Abstract!After(s, Elements(vec[y]), c) = SubSeq(s, 1, first) \o SubSeq(s, last + 1, Len(s))
  <2>1. Abstract!After(s, Elements(vec[y]), c)
        = SubSeq(s, 1, c.pos) \o SubSeq(s, c.last + 1, Len(s))
    BY <1>10 DEF Abstract!After
  <2> QED
    BY <1>9, <2>1, Zenon
<1>6. Becomes(x, y, c, Erase(vec[x], first, last))
  <2>1. c.op # "swap"
    BY <1>10
  <2> QED
    BY <1>1, <1>2, <1>3, <1>4, <1>5, <1>9, <2>1, Zenon DEF Becomes
<1> QED
  BY <1>6, DoesIs

(* resize *)
LEMMA ResizeStep ==
  ASSUME VectorInv, NEW x \in Vectors, NEW y \in Vectors, x # y, resize(x)
  PROVE  VectorInv' /\ Abstract!SeqNext
<1>1. PICK s : Is(vec[x], s) /\ s = Elements(vec[x]) /\ s \in Seq(Values) /\ Len(s) \in Nat
               /\ vec[x].size = Len(s)
  BY BeforeStep
<1>2. PICK n \in 0..MaxSize, v \in Values :
        Does(Resize(vec[x], n, v), [on |-> x, op |-> "resize", n |-> n, value |-> v])
  BY DEF resize
<1>3. Is(Resize(vec[x], n, v), IF n <= Len(s) THEN SubSeq(s, 1, n) ELSE s \o Repeated(n - Len(s), v))
  <2>1. Is(vec[x], s) /\ n \in Nat
    BY <1>1, FitAssumption
  <2> QED
    BY <2>1, ResizeIs
<1>4. PICK c : c = [on |-> x, op |-> "resize", n |-> n, value |-> v]
  OBVIOUS
<1>9. c.on = x /\ c.op = "resize" /\ c.n = n /\ c.value = v
  BY <1>4
<1>10. c.op = "resize"
  BY <1>9
<1>5. Abstract!After(s, Elements(vec[y]), c)
      = IF n <= Len(s) THEN SubSeq(s, 1, n) ELSE s \o Repeated(n - Len(s), v)
  <2>1. Abstract!After(s, Elements(vec[y]), c)
        = IF c.n <= Len(s) THEN SubSeq(s, 1, c.n) ELSE s \o Repeated(c.n - Len(s), c.value)
    BY <1>10 DEF Abstract!After, Abstract!Copies, Repeated
  <2> QED
    BY <1>9, <2>1, Zenon
<1>6. Becomes(x, y, c, Resize(vec[x], n, v))
  <2>1. c.op # "swap"
    BY <1>10
  <2> QED
    BY <1>1, <1>2, <1>3, <1>4, <1>5, <1>9, <2>1, Zenon DEF Becomes
<1> QED
  BY <1>6, DoesIs

(* reserve *)
LEMMA ReserveStep ==
  ASSUME VectorInv, NEW x \in Vectors, NEW y \in Vectors, x # y, reserve(x)
  PROVE  VectorInv' /\ Abstract!SeqNext
<1>1. PICK s : Is(vec[x], s) /\ s = Elements(vec[x]) /\ s \in Seq(Values) /\ Len(s) \in Nat
               /\ vec[x].size = Len(s)
  BY BeforeStep
<1>2. PICK n \in 0..(MaxSize + 2) : Does(Reserve(vec[x], n), [on |-> x, op |-> "reserve"])
  BY DEF reserve
<1>3. Is(Reserve(vec[x], n), s)
  <2>1. Is(vec[x], s) /\ n \in Nat
    BY <1>1, FitAssumption
  <2>2. PICK b, g : Fits(b, g, s) /\ Reserve(vec[x], n) = Rep(b, g, s)
    BY <2>1, ReserveIs
  <2> QED
    BY <2>2, Zenon DEF Is
<1>4. PICK c : c = [on |-> x, op |-> "reserve"]
  OBVIOUS
<1>9. c.on = x /\ c.op = "reserve"
  BY <1>4
<1>10. c.op = "reserve"
  BY <1>9
<1>5. Abstract!After(s, Elements(vec[y]), c) = s
  BY <1>10, AfterIs
<1>6. Becomes(x, y, c, Reserve(vec[x], n))
  <2>1. c.op # "swap"
    BY <1>10
  <2> QED
    BY <1>1, <1>2, <1>3, <1>4, <1>5, <1>9, <2>1, Zenon DEF Becomes
<1> QED
  BY <1>6, DoesIs

(* clear *)
LEMMA ClearStep ==
  ASSUME VectorInv, NEW x \in Vectors, NEW y \in Vectors, x # y, clear(x)
  PROVE  VectorInv' /\ Abstract!SeqNext
<1>1. PICK s : Is(vec[x], s) /\ s = Elements(vec[x])
  BY BeforeStep
<1>2. Does(Clear(vec[x]), [on |-> x, op |-> "clear"])
  BY DEF clear
<1>3. Is(Clear(vec[x]), <<>>)
  BY <1>1, ClearIs, InitIs
<1>4. PICK c : c = [on |-> x, op |-> "clear"]
  OBVIOUS
<1>9. c.on = x /\ c.op = "clear"
  BY <1>4
<1>10. c.op = "clear"
  BY <1>9
<1>5. Abstract!After(s, Elements(vec[y]), c) = <<>>
  BY <1>10, AfterIs
<1>6. Becomes(x, y, c, Clear(vec[x]))
  <2>1. c.op # "swap"
    BY <1>10
  <2> QED
    BY <1>1, <1>2, <1>3, <1>4, <1>5, <1>9, <2>1, Zenon DEF Becomes
<1> QED
  BY <1>6, DoesIs

(* A constructor, after the destructor *)
LEMMA ConstructStep ==
  ASSUME VectorInv, NEW x \in Vectors, NEW y \in Vectors, x # y, construct(x, y)
  PROVE  VectorInv' /\ Abstract!SeqNext
<1>1. PICK s : Is(vec[x], s) /\ s = Elements(vec[x])
  BY BeforeStep
<1>2. PICK t : Is(vec[y], t) /\ t = Elements(vec[y]) /\ t \in Seq(Values)
  BY BeforeStep
<1>3. t \in Seq(Values) /\ Is(vec[y], t)
  BY <1>2
<1> DEFINE again(r) == [r EXCEPT !.freed = r.freed /\ Clear(vec[x]).freed]
<1>4. ASSUME NEW r, NEW u, Is(r, u) PROVE Is(again(r), u)
  <2>1. PICK b, g : Fits(b, g, u) /\ r = Rep(b, g, u)
    BY <1>4 DEF Is
  <2>2. PICK f : f = (r.freed /\ Clear(vec[x]).freed)
    OBVIOUS
  <2>3. f = TRUE
    <3>1. Rep(b, g, u).freed = TRUE
      BY DEF Rep
    <3>2. InitRep.freed = TRUE
      BY DEF InitRep
    <3>3. Clear(vec[x]) = InitRep
      BY <1>1, ClearIs
    <3> QED
      BY <2>1, <2>2, <3>1, <3>2, <3>3, Zenon
  <2>4. [Rep(b, g, u) EXCEPT !.freed = f] = Rep(b, g, u)
    BY <2>3, FreedKept
  <2>5. again(r) = r
    BY <2>1, <2>2, <2>4, Zenon
  <2> QED
    BY <1>4, <2>5, Zenon
<1>5. \/ \E n \in 0..MaxSize, v \in Values :
           Does(again(FillConstructor(n, v)), [on |-> x, op |-> "fill", n |-> n, value |-> v])
      \/ Does(again(AppendRange(InitRep, Elements(vec[y]))), [on |-> x, op |-> "range"])
      \/ Does(again(PushAll(InitRep, Elements(vec[y]))), [on |-> x, op |-> "range"])
      \/ Does(again(Assign(InitRep, vec[y])), [on |-> x, op |-> "assign"])
  BY Zenon DEF construct
<1> HIDE DEF again
<1>6. Is(InitRep, <<>>)
  BY InitIs
<1>7. <<>> \o t = t
  BY <1>2, JoinedIs
<1>8. CASE \E n \in 0..MaxSize, v \in Values :
             Does(again(FillConstructor(n, v)), [on |-> x, op |-> "fill", n |-> n, value |-> v])
  <2>1. PICK n \in 0..MaxSize, v \in Values :
          Does(again(FillConstructor(n, v)), [on |-> x, op |-> "fill", n |-> n, value |-> v])
    BY <1>8
  <2>2. PICK c : c = [on |-> x, op |-> "fill", n |-> n, value |-> v]
    OBVIOUS
  <2>3. c.on = x /\ c.op = "fill" /\ c.n = n /\ c.value = v
    BY <2>2
  <2>4. c.op = "fill" /\ c.op # "swap"
    BY <2>3
  <2>5. Abstract!After(s, t, c) = Repeated(c.n, c.value)
    BY <2>4, AfterIs
  <2>6. Is(FillConstructor(n, v), Repeated(n, v))
    <3>1. n \in Nat
      BY FitAssumption
    <3> QED
      BY <3>1, FillIs
  <2>7. Is(again(FillConstructor(n, v)), Repeated(n, v))
    BY <1>4, <2>6
  <2>8. Becomes(x, y, c, again(FillConstructor(n, v)))
    BY <1>1, <1>2, <2>1, <2>2, <2>3, <2>4, <2>5, <2>7, Zenon DEF Becomes
  <2> QED
    BY <2>8, DoesIs
<1>9. ASSUME NEW r, NEW c, Is(r, t), c.on = x, c.op \in {"range", "assign"}, Does(again(r), c)
      PROVE  VectorInv' /\ Abstract!SeqNext
  <2>1. c.op \in {"range", "assign", "swap"} /\ c.op # "swap"
    BY <1>9
  <2>2. Abstract!After(s, t, c) = t
    BY <2>1, AfterIs
  <2>3. Is(again(r), t)
    BY <1>4, <1>9
  <2>4. Becomes(x, y, c, again(r))
    BY <1>1, <1>2, <1>9, <2>1, <2>2, <2>3, Zenon DEF Becomes
  <2> QED
    BY <2>4, DoesIs
<1>10. PICK c : c = [on |-> x, op |-> "range"]
  OBVIOUS
<1>11. c.on = x /\ c.op \in {"range", "assign"}
  BY <1>10
<1>12. PICK d : d = [on |-> x, op |-> "assign"]
  OBVIOUS
<1>13. d.on = x /\ d.op \in {"range", "assign"}
  BY <1>12
<1>14. Is(AppendRange(InitRep, Elements(vec[y])), t)
  <2>1. Is(AppendRange(InitRep, t), <<>> \o t)
    BY <1>3, <1>6, AppendRangeIs
  <2> QED
    BY <1>2, <1>7, <2>1, Zenon
<1>15. Is(PushAll(InitRep, Elements(vec[y])), t)
  <2>1. Is(PushAll(InitRep, t), <<>> \o t)
    BY <1>3, <1>6, PushAllIs
  <2> QED
    BY <1>2, <1>7, <2>1, Zenon
<1>16. Is(Assign(InitRep, vec[y]), t)
  BY <1>3, <1>6, AssignIs
<1>17. CASE Does(again(AppendRange(InitRep, Elements(vec[y]))), [on |-> x, op |-> "range"])
  BY <1>9, <1>10, <1>11, <1>14, <1>17, Zenon
<1>18. CASE Does(again(PushAll(InitRep, Elements(vec[y]))), [on |-> x, op |-> "range"])
  BY <1>9, <1>10, <1>11, <1>15, <1>18, Zenon
<1>19. CASE Does(again(Assign(InitRep, vec[y])), [on |-> x, op |-> "assign"])
  BY <1>9, <1>12, <1>13, <1>16, <1>19, Zenon
<1> QED
  BY <1>5, <1>8, <1>17, <1>18, <1>19, Zenon

(* operator= *)
LEMMA AssignStep ==
  ASSUME VectorInv, NEW x \in Vectors, NEW y \in Vectors, x # y, operatorAssign(x, y)
  PROVE  VectorInv' /\ Abstract!SeqNext
<1>1. PICK s : Is(vec[x], s) /\ s = Elements(vec[x])
  BY BeforeStep
<1>2. PICK t : Is(vec[y], t) /\ t = Elements(vec[y])
  BY BeforeStep
<1>3. Does(Assign(vec[x], vec[y]), [on |-> x, op |-> "assign"])
  BY DEF operatorAssign
<1>4. Is(vec[x], s) /\ Is(vec[y], t)
  BY <1>1, <1>2
<1>5. Is(Assign(vec[x], vec[y]), t)
  BY <1>4, AssignIs
<1>6. PICK c : c = [on |-> x, op |-> "assign"]
  OBVIOUS
<1>7. c.on = x /\ c.op = "assign"
  BY <1>6
<1>8. c.op \in {"range", "assign", "swap"} /\ c.op # "swap"
  BY <1>7
<1>9. Abstract!After(s, t, c) = t
  BY <1>8, AfterIs
<1>10. Becomes(x, y, c, Assign(vec[x], vec[y]))
  BY <1>1, <1>2, <1>3, <1>5, <1>6, <1>7, <1>8, <1>9, Zenon DEF Becomes
<1> QED
  BY <1>10, DoesIs

(* swap *)
LEMMA SwapStep ==
  ASSUME VectorInv, NEW x \in Vectors, NEW y \in Vectors, x # y, swap(x, y)
  PROVE  VectorInv' /\ Abstract!SeqNext
<1>1. PICK s : Is(vec[x], s) /\ s = Elements(vec[x])
  BY BeforeStep
<1>2. PICK t : Is(vec[y], t) /\ t = Elements(vec[y])
  BY BeforeStep
<1>3. Is(vec[x], s) /\ Is(vec[y], t)
  BY <1>1, <1>2
<1>4. SwappedIs(vec[x], vec[y], s, t)
  BY <1>3, SwapIs
<1>5. PICK u, w : Is(u, t) /\ Is(w, s) /\ Swapped(vec[x], vec[y]) = <<u, w>>
  BY <1>4, Zenon DEF SwappedIs
<1>6. /\ vec' = [vec EXCEPT ![x] = Swapped(vec[x], vec[y])[1], ![y] = Swapped(vec[x], vec[y])[2]]
      /\ made' = [on |-> x, op |-> "swap"]
  BY Zenon DEF swap
<1>7. vec' = [vec EXCEPT ![x] = u, ![y] = w]
  <2>1. <<u, w>>[1] = u /\ <<u, w>>[2] = w
    OBVIOUS
  <2> QED
    BY <1>5, <1>6, <2>1, Zenon
<1>8. PICK c : c = [on |-> x, op |-> "swap"]
  OBVIOUS
<1>9. c.on = x /\ c.op = "swap"
  BY <1>8
<1>10. c.op \in {"range", "assign", "swap"}
  BY <1>9
<1>11. Abstract!After(s, t, c) = t
  BY <1>10, AfterIs
<1>12. Changes(x, y, c, u, w, t, s)
  BY <1>1, <1>2, <1>5, <1>6, <1>7, <1>8, <1>9, <1>11, Zenon DEF Changes
<1> QED
  BY <1>12, StepIs

(* Every step keeps the invariant and is a step of Sequence. *)
LEMMA VectorStep ==
  ASSUME VectorInv, [VectorNext]_vectorVars
  PROVE  VectorInv' /\ [Abstract!SeqNext]_(Abstract!seqVars)
<1>1. ASSUME UNCHANGED vectorVars PROVE VectorInv' /\ [Abstract!SeqNext]_(Abstract!seqVars)
  <2>1. vec' = vec /\ made' = made
    BY <1>1 DEF vectorVars
  <2>2. VectorInv'
    BY <2>1, Zenon DEF VectorInv
  <2>3. UNCHANGED Abstract!seqVars
    BY <2>1, Zenon DEF Abstract!seqVars, AsSequences
  <2> QED
    BY <2>2, <2>3
<1>2. ASSUME NEW x \in Vectors, NEW y \in Vectors, x # y,
             \/ PushBack(x) \/ pop_back(x) \/ insert(x) \/ erase(x) \/ resize(x) \/ reserve(x)
             \/ clear(x) \/ construct(x, y) \/ operatorAssign(x, y) \/ swap(x, y)
      PROVE  VectorInv' /\ Abstract!SeqNext
  <2>1. CASE PushBack(x)
    BY <1>2, <2>1, PushBackStep
  <2>2. CASE pop_back(x)
    BY <1>2, <2>2, PopBackStep
  <2>3. CASE insert(x)
    BY <1>2, <2>3, InsertStep
  <2>4. CASE erase(x)
    BY <1>2, <2>4, EraseStep
  <2>5. CASE resize(x)
    BY <1>2, <2>5, ResizeStep
  <2>6. CASE reserve(x)
    BY <1>2, <2>6, ReserveStep
  <2>7. CASE clear(x)
    BY <1>2, <2>7, ClearStep
  <2>8. CASE construct(x, y)
    BY <1>2, <2>8, ConstructStep
  <2>9. CASE operatorAssign(x, y)
    BY <1>2, <2>9, AssignStep
  <2>10. CASE swap(x, y)
    BY <1>2, <2>10, SwapStep
  <2> QED
    BY <1>2, <2>1, <2>2, <2>3, <2>4, <2>5, <2>6, <2>7, <2>8, <2>9, <2>10
<1>3. ASSUME VectorNext PROVE VectorInv' /\ Abstract!SeqNext
  BY <1>2, <1>3, Zenon DEF VectorNext
<1> QED
  BY <1>1, <1>3

(* New vectors are empty. *)
LEMMA VectorStart ==
  ASSUME VectorInit
  PROVE  VectorInv /\ Abstract!SeqInit
<1>1. vec = [x \in Vectors |-> InitRep]
  BY DEF VectorInit
<1>2. VectorInv
  <2>1. \A x \in Vectors : vec[x] = InitRep
    BY <1>1
  <2>2. \A x \in Vectors : \E s : Is(vec[x], s)
    BY <2>1, InitIs
  <2> QED
    BY <1>1, <2>2 DEF VectorInv
<1>3. Elements(InitRep) = <<>>
  BY InitIs, HoldsElements
<1>4. AsSequences = [x \in Vectors |-> <<>>]
  BY <1>1, <1>3 DEF AsSequences
<1>5. DOMAIN AsSequences = Vectors
  BY DEF AsSequences
<1> QED
  BY <1>2, <1>4, <1>5, Zenon DEF Abstract!SeqInit

(* In every reachable state every vector holds a sequence, soundly: the    *)
(* invariant of InlinedVector. It needs no more: what each method does to  *)
(* the memory follows from what the memory holds before.                   *)
THEOREM VectorInvHolds == VectorSpec => []VectorInv
<1>1. VectorInit => VectorInv
  BY VectorStart
<1>2. VectorInv /\ [VectorNext]_vectorVars => VectorInv'
  BY VectorStep
<1> QED
  BY <1>1, <1>2, PTL DEF VectorSpec

(* Exactly the cells below size are constructed, each once, and what a     *)
(* vector gives up was destroyed before, for vectors of any size and with  *)
(* any number of elements inside: Grow, Insert, Erase, Swap and the others *)
(* of inlined_vector.h. An argument of push_back may be an element of the  *)
(* vector itself; those of Insert and Resize are elsewhere.                *)
THEOREM StorageStaysSound == VectorSpec => []StorageIsSound
<1>1. VectorInv => StorageIsSound
  BY SoundIs, Zenon DEF VectorInv, StorageIsSound
<1> QED
  BY <1>1, VectorInvHolds, PTL

(* InlinedVector implements Sequence: each method does to the elements     *)
(* what it does to a std::vector, inside the object, in a heap block and   *)
(* on the way from one to the other.                                       *)
THEOREM VectorsAreSequences == VectorSpec => IsASequence
<1>1. VectorInit => Abstract!SeqInit
  BY VectorStart
<1>2. VectorInv /\ [VectorNext]_vectorVars => [Abstract!SeqNext]_(Abstract!seqVars)
  BY VectorStep
<1> QED
  BY <1>1, <1>2, VectorInvHolds, PTL DEF VectorSpec, IsASequence, Abstract!SeqSpec

-----------------------------------------------------------------------------
(* RefCount, for any number of threads and references.  Inv says that ref_  *)
(* is the number of references held, so that a thread that reads 1 while   *)
(* it holds one knows that no other thread does.                           *)

USE ReferencesAssumption, ThreadsAssumption

(* The references held are finitely many. *)
LEMMA HeldFinite ==
  /\ IsFiniteSet(Held)
  /\ Cardinality(Held) \in Nat
  /\ Cardinality(Held) = 0 <=> Held = {}
<1>1. IsFiniteSet(Held)
  BY FS_Subset DEF Held
<1> QED
  BY <1>1, FS_CardinalityType, FS_EmptySet

(* A count of one is the count of the reference the caller holds. *)
LEMMA OneIsMine ==
  ASSUME CountIsExact, deletions = 0, ref = 1, NEW r \in Held
  PROVE  Held = {r}
<1>1. Cardinality(Held) = 1
  BY DEF CountIsExact
<1>2. PICK x : Held = {x}
  BY <1>1, HeldFinite, FS_Singleton
<1> QED
  BY <1>2

(* The constructor leaves one reference. *)
LEMMA RefInitInv == RefInit => Inv
<1> SUFFICES ASSUME RefInit PROVE Inv
  OBVIOUS
<1>1. PICK t \in Threads, r \in References :
        /\ holder = [x \in References |-> IF x = r THEN t ELSE Nobody]
        /\ dropping = [u \in Threads |-> r]
  BY DEF RefInit
<1>2. Held = {r}
  BY <1>1 DEF Held
<1>3. Cardinality(Held) = 1
  BY <1>2, FS_Singleton
<1>4. RefTypeOK
  BY <1>1 DEF RefInit, RefTypeOK
<1>5. CountIsExact /\ NeverLeaked
  BY <1>2, <1>3 DEF RefInit, CountIsExact, NeverLeaked
<1>6. DropsItsOwn /\ DeleterIsAlone /\ NothingAfterDelete
  BY DEF RefInit, DropsItsOwn, DeleterIsAlone, NothingAfterDelete
<1> QED
  BY <1>4, <1>5, <1>6 DEF Inv

(* Every step keeps the invariant. *)
LEMMA RefStepKeepsInv == Inv /\ [RefNext]_refVars => Inv'
<1> SUFFICES ASSUME Inv, [RefNext]_refVars PROVE Inv'
  OBVIOUS
<1> USE DEF Inv
(* While a thread holds a reference the object is there. *)
<1>0. ASSUME NEW t \in Threads, NEW r \in References, holder[r] = t
      PROVE  r \in Held /\ deletions = 0 /\ \A u \in Threads \ {t} : pc[u] # "delete"
  BY <1>0 DEF Held, NothingAfterDelete, DeleterIsAlone, RefTypeOK
<1>1. ASSUME NEW t \in Threads, Ref(t) PROVE Inv'
  <2>1. PICK r \in References : holder[r] = t
    BY <1>1 DEF Ref
  <2>2. PICK x \in References \ Held : holder' = [holder EXCEPT ![x] = t]
    BY <1>1 DEF Ref
  <2>3. /\ pc[t] = "idle" /\ ref' = ref + 1
        /\ UNCHANGED <<pc, dropping, deletions>>
    BY <1>1 DEF Ref
  <2>4. deletions = 0 /\ \A u \in Threads : pc[u] # "delete"
    BY <1>0, <2>1, <2>3
  <2>5. Held' = Held \cup {x} /\ x \notin Held
    BY <2>2 DEF Held, RefTypeOK
  <2>6. Cardinality(Held') = Cardinality(Held) + 1
    BY <2>5, HeldFinite, FS_AddElement
  <2>7. RefTypeOK'
    BY <2>2, <2>3 DEF RefTypeOK
  <2>8. CountIsExact'
    BY <2>3, <2>4, <2>6 DEF CountIsExact
  <2>9. DropsItsOwn'
    BY <2>2, <2>3 DEF DropsItsOwn, RefTypeOK, Held
  <2> QED
    BY <2>3, <2>4, <2>5, <2>7, <2>8, <2>9
       DEF DeleterIsAlone, NothingAfterDelete, NeverLeaked, RefTypeOK
<1>2. ASSUME NEW t \in Threads, NEW u \in Threads, HandOver(t, u) PROVE Inv'
  <2>1. PICK r \in References : holder[r] = t /\ holder' = [holder EXCEPT ![r] = u]
    BY <1>2 DEF HandOver
  <2>2. pc[t] = "idle" /\ UNCHANGED <<ref, pc, dropping, deletions>>
    BY <1>2 DEF HandOver
  <2>3. deletions = 0 /\ \A v \in Threads : pc[v] # "delete"
    BY <1>0, <2>1, <2>2
  <2>4. Held' = Held
    BY <2>1 DEF Held, RefTypeOK
  <2>5. RefTypeOK' /\ DropsItsOwn'
    BY <2>1, <2>2 DEF RefTypeOK, DropsItsOwn
  <2> QED
    BY <2>1, <2>2, <2>3, <2>4, <2>5, <1>0
       DEF CountIsExact, DeleterIsAlone, NothingAfterDelete, NeverLeaked
<1>3. ASSUME NEW t \in Threads, UnrefLoad(t) PROVE Inv'
  <2>1. PICK r \in References :
          holder[r] = t /\ dropping' = [dropping EXCEPT ![t] = r]
    BY <1>3 DEF UnrefLoad
  <2>2. /\ pc[t] = "idle"
        /\ pc' = [pc EXCEPT ![t] = IF ref = 1 THEN "delete" ELSE "subtract"]
        /\ UNCHANGED <<ref, holder, deletions>>
    BY <1>3 DEF UnrefLoad
  <2>3. r \in Held /\ deletions = 0 /\ \A u \in Threads : pc[u] # "delete"
    BY <1>0, <2>1, <2>2
  <2>4. Held' = Held
    BY <2>2 DEF Held
  <2>5. RefTypeOK' /\ DropsItsOwn' /\ CountIsExact'
    BY <2>1, <2>2, <2>4 DEF RefTypeOK, DropsItsOwn, CountIsExact
  <2>6. DeleterIsAlone'
    <3>1. CASE ref = 1
      <4>1. Held = {r}
        BY <2>3, <3>1, OneIsMine
      <4>2. \A u \in Threads \ {t} : pc[u] = "idle"
        <5> SUFFICES ASSUME NEW u \in Threads \ {t}, pc[u] # "idle" PROVE FALSE
          OBVIOUS
        <5>1. pc[u] = "subtract"
          BY <2>3 DEF RefTypeOK
        <5>2. holder[dropping[u]] = u /\ dropping[u] \in References
          BY <5>1 DEF DropsItsOwn, RefTypeOK
        <5>3. dropping[u] \in Held
          BY <5>2, <1>0
        <5> QED
          BY <5>2, <5>3, <4>1, <2>1
      <4> QED
        BY <2>1, <2>2, <2>3, <2>4, <4>1, <4>2 DEF DeleterIsAlone, RefTypeOK
    <3>2. CASE ref # 1
      BY <2>2, <2>3, <3>2 DEF DeleterIsAlone, RefTypeOK
    <3> QED BY <3>1, <3>2
  <2> QED
    BY <2>2, <2>3, <2>4, <2>5, <2>6 DEF NothingAfterDelete, NeverLeaked
<1>4. ASSUME NEW t \in Threads, UnrefSubtract(t) PROVE Inv'
  <2> DEFINE r == dropping[t]
  <2>1. /\ pc[t] = "subtract" /\ ref' = ref - 1
        /\ holder' = [holder EXCEPT ![r] = Nobody]
        /\ pc' = [pc EXCEPT ![t] = IF ref = 1 THEN "delete" ELSE "idle"]
        /\ UNCHANGED <<dropping, deletions>>
    BY <1>4 DEF UnrefSubtract
  <2>2. r \in References /\ holder[r] = t
    BY <2>1 DEF DropsItsOwn, RefTypeOK
  <2>3. r \in Held /\ deletions = 0 /\ \A u \in Threads : pc[u] # "delete"
    BY <1>0, <2>1, <2>2
  <2>4. Held' = Held \ {r}
    BY <2>1, <2>2 DEF Held, RefTypeOK
  <2>5. /\ Cardinality(Held') = Cardinality(Held) - 1
        /\ Cardinality(Held) \in Nat /\ Cardinality(Held) # 0
    BY <2>3, <2>4, HeldFinite, FS_RemoveElement
  <2>6. ref = Cardinality(Held) /\ ref' = Cardinality(Held')
    BY <2>1, <2>3, <2>5 DEF CountIsExact
  <2>7. RefTypeOK'
    <3>1. ref' \in Nat
      BY <2>5, <2>6
    <3> QED BY <2>1, <2>2, <3>1 DEF RefTypeOK
  <2>8. DropsItsOwn'
    BY <2>1, <2>2 DEF DropsItsOwn, RefTypeOK
  <2>9. CASE ref = 1
    <3>1. Held = {r} /\ Held' = {}
      BY <2>3, <2>4, <2>9, OneIsMine
    <3>2. \A u \in Threads \ {t} : pc[u] = "idle"
      <4> SUFFICES ASSUME NEW u \in Threads \ {t}, pc[u] = "subtract" PROVE FALSE
        BY <2>3 DEF RefTypeOK
      <4>1. holder[dropping[u]] = u /\ dropping[u] \in References
        BY DEF DropsItsOwn, RefTypeOK
      <4>2. dropping[u] \in Held
        BY <4>1, <1>0
      <4> QED
        BY <4>1, <4>2, <3>1, <2>2
    <3>3. DeleterIsAlone'
      BY <2>1, <2>3, <3>1, <3>2 DEF DeleterIsAlone, RefTypeOK
    <3>4. pc'[t] = "delete"
      BY <2>1, <2>9 DEF RefTypeOK
    <3> QED
      BY <2>1, <2>3, <2>6, <2>7, <2>8, <3>3, <3>4
         DEF CountIsExact, NothingAfterDelete, NeverLeaked
  <2>10. CASE ref # 1
    <3>1. Held' # {}
      <4>1. Cardinality(Held') # 0
        BY <2>5, <2>6, <2>10
      <4>2. Cardinality({}) = 0
        BY FS_EmptySet
      <4> QED
        BY <4>1, <4>2
    <3>2. DeleterIsAlone'
      BY <2>1, <2>3, <2>10 DEF DeleterIsAlone, RefTypeOK
    <3> QED
      BY <2>1, <2>3, <2>6, <2>7, <2>8, <3>1, <3>2
         DEF CountIsExact, NothingAfterDelete, NeverLeaked
  <2> QED BY <2>9, <2>10
<1>5. ASSUME NEW t \in Threads, Delete(t) PROVE Inv'
  <2>1. /\ pc[t] = "delete" /\ ref' = 0
        /\ holder' = [holder EXCEPT ![dropping[t]] = Nobody]
        /\ deletions' = deletions + 1
        /\ pc' = [pc EXCEPT ![t] = "idle"] /\ dropping' = dropping
    BY <1>5 DEF Delete
  <2>2. /\ deletions = 0
        /\ \A r \in Held : r = dropping[t]
        /\ \A u \in Threads \ {t} : pc[u] = "idle"
    BY <2>1 DEF DeleterIsAlone
  <2>3. Held' = {}
    BY <2>1, <2>2 DEF Held, RefTypeOK
  <2>4. \A u \in Threads : pc'[u] = "idle"
    BY <2>1, <2>2 DEF RefTypeOK
  <2>5. RefTypeOK'
    BY <2>1, <2>2 DEF RefTypeOK
  <2> QED
    BY <2>1, <2>2, <2>3, <2>4, <2>5
       DEF CountIsExact, DropsItsOwn, DeleterIsAlone, NothingAfterDelete, NeverLeaked
<1>6. ASSUME UNCHANGED refVars PROVE Inv'
  BY <1>6 DEF refVars, RefTypeOK, CountIsExact, DropsItsOwn, DeleterIsAlone, NothingAfterDelete,
              NeverLeaked, Held
<1> QED
  BY <1>1, <1>2, <1>3, <1>4, <1>5, <1>6 DEF RefNext, Gone

(* The invariant holds in every reachable state. *)
THEOREM RefInvHolds == RefSpec => []Inv
<1>1. RefInit => Inv
  BY RefInitInv
<1>2. Inv /\ [RefNext]_refVars => Inv'
  BY RefStepKeepsInv
<1> QED
  BY <1>1, <1>2, PTL DEF RefSpec

(* The destructor runs once, while no other thread holds a reference or is *)
(* inside Unref: nobody can use the object afterwards.                     *)
THEOREM DeletedSafely == RefSpec => []DeletedAloneAndOnce
<1>1. Inv => DeletedAloneAndOnce
  <2> SUFFICES ASSUME Inv PROVE DeletedAloneAndOnce
    OBVIOUS
  <2>1. deletions <= 1
    BY DEF Inv, RefTypeOK, NothingAfterDelete
  <2>2. ASSUME NEW t \in Threads, pc[t] = "delete" \/ deletions = 1,
               NEW u \in Threads \ {t}
        PROVE  pc[u] = "idle" /\ \A r \in References : holder[r] # u
    BY <2>2 DEF Inv, DeleterIsAlone, NothingAfterDelete, Held
  <2> QED
    BY <2>1, <2>2 DEF DeletedAloneAndOnce
<1> QED
  BY <1>1, RefInvHolds, PTL

(* The object does not outlive its last reference. *)
THEOREM NotLeaked == RefSpec => []NeverLeaked
<1>1. Inv => NeverLeaked
  BY DEF Inv
<1> QED
  BY <1>1, RefInvHolds, PTL

(* RefCountIsOne tells its caller that it has the object to itself. *)
THEOREM ExclusiveAccess == RefSpec => []OneMeansExclusive
<1>1. Inv => OneMeansExclusive
  <2> SUFFICES ASSUME Inv, NEW t \in Threads, NEW r \in References,
                      holder[r] = t, pc[t] = "idle", ref = 1
               PROVE  Held = {r} /\ \A u \in Threads : pc[u] = "idle"
    BY DEF OneMeansExclusive
  <2>1. r \in Held /\ deletions = 0
    BY DEF Inv, Held, NothingAfterDelete, RefTypeOK
  <2>2. Held = {r}
    BY <2>1, OneIsMine DEF Inv
  <2>3. ASSUME NEW u \in Threads, pc[u] # "idle" PROVE FALSE
    <3>1. CASE pc[u] = "subtract"
      BY <3>1, <2>2 DEF Inv, DropsItsOwn, RefTypeOK, Held
    <3>2. CASE pc[u] = "delete"
      BY <3>2, <2>1 DEF Inv, DeleterIsAlone
    <3> QED
      BY <2>3, <3>1, <3>2 DEF Inv, RefTypeOK
  <2> QED
    BY <2>2, <2>3
<1> QED
  BY <1>1, RefInvHolds, PTL

(* The three, together: the counter can be trusted, for any number of      *)
(* threads and references.                                                 *)
THEOREM TrustedCount == RefSpec => []CountIsTrusted
<1>1. DeletedAloneAndOnce /\ NeverLeaked /\ OneMeansExclusive => CountIsTrusted
  BY DEF CountIsTrusted
<1> QED
  BY <1>1, DeletedSafely, NotLeaked, ExclusiveAccess, PTL

-----------------------------------------------------------------------------
(* Callbacks: one is freed once and in time, for any number of addresses   *)
(* and any depth of nested runs.  CallbackInv says why: a run that will    *)
(* delete its callback is the only one that will, and the callback is      *)
(* there until then; a callback of NewCallback that was started has such a *)
(* run.  CallOptions, which keeps one callback, follows.                   *)

USE NoObjectAssumption

Frames == [this : Addresses, needs_delete : BOOLEAN]

CallbackTypeOK ==
  /\ object \in [Addresses -> Objects \cup {NoObject}]
  /\ stack \in Seq(Frames)

Deletes(i, a) == stack[i].this = a /\ stack[i].needs_delete

DeleterFindsIt ==
  \A i \in 1..Len(stack) : stack[i].needs_delete =>
    LET o == object[stack[i].this] IN o # NoObject /\ o.self_deleting /\ o.started

OneDeleter ==
  \A i, j \in 1..Len(stack) :
    stack[i].needs_delete /\ stack[j].needs_delete /\ stack[i].this = stack[j].this => i = j

StartedIsRunning ==
  \A a \in Addresses :
    object[a] # NoObject /\ object[a].self_deleting /\ object[a].started =>
      \E i \in 1..Len(stack) : Deletes(i, a)

CallbackInv == CallbackTypeOK /\ DeleterFindsIt /\ OneDeleter /\ StartedIsRunning

(* There is nothing at first. *)
LEMMA CallbackInitInv == CallbackInit => CallbackInv
BY DEF CallbackInit, CallbackInv, CallbackTypeOK, DeleterFindsIt, OneDeleter, StartedIsRunning

(* The frames of a stack.                                                  *)
LEMMA FrameTypes ==
  ASSUME CallbackTypeOK
  PROVE  \A i \in 1..Len(stack) : stack[i] \in Frames /\ stack[i].this \in Addresses
<1>1. \A i \in 1..Len(stack) : stack[i] \in Frames
  BY DEF CallbackTypeOK
<1>2. \A f \in Frames : f.this \in Addresses
  BY DEF Frames
<1> QED
  BY <1>1, <1>2

(* An allocation changes a free address only.                             *)
LEMMA NewKeepsInv ==
  ASSUME CallbackInv, NEW a \in Addresses, NEW class \in Closures \cup ResultCallbacks,
         NEW self_deleting \in BOOLEAN, New(a, class, self_deleting)
  PROVE  CallbackInv'
<1> DEFINE o == [class |-> class, self_deleting |-> self_deleting, started |-> FALSE]
<1>1. object[a] = NoObject /\ object' = [object EXCEPT ![a] = o] /\ stack' = stack
  BY DEF New
<1>2. o \in Objects /\ ~o.started
  BY DEF Objects
<1>3. CallbackTypeOK'
  BY <1>1, <1>2 DEF CallbackInv, CallbackTypeOK
<1>4. DeleterFindsIt'
  BY <1>1 DEF CallbackInv, CallbackTypeOK, DeleterFindsIt
<1>5. OneDeleter'
  BY <1>1 DEF CallbackInv, OneDeleter
<1>6. StartedIsRunning'
  BY <1>1, <1>2 DEF CallbackInv, CallbackTypeOK, StartedIsRunning, Deletes
<1> QED
  BY <1>3, <1>4, <1>5, <1>6 DEF CallbackInv

(* A run of a callback of NewCallback is its first. *)
LEMMA RunKeepsInv ==
  ASSUME CallbackInv, NEW a \in Addresses, Run(a)
  PROVE  CallbackInv'
<1> DEFINE frame == [this |-> a, needs_delete |-> object[a].self_deleting]
<1>1. /\ object[a] \in Objects /\ (object[a].self_deleting => ~object[a].started)
      /\ stack' = Append(stack, frame)
      /\ object' = [object EXCEPT ![a] = [object[a] EXCEPT !.started = TRUE]]
  BY DEF Run, MayRun, CallbackInv, CallbackTypeOK
<1>2. object[a].self_deleting \in BOOLEAN
  BY <1>1 DEF Objects
<1>3. /\ frame \in Frames
      /\ frame.this = a /\ frame.needs_delete = object[a].self_deleting
  BY <1>2 DEF Frames
<1>4. /\ object'[a] \in Objects /\ object'[a].started
      /\ object'[a].self_deleting = object[a].self_deleting
      /\ \A b \in Addresses \ {a} : object'[b] = object[b]
  BY <1>1 DEF CallbackInv, CallbackTypeOK, Objects
<1>5. /\ Len(stack') = Len(stack) + 1 /\ Len(stack) \in Nat
      /\ stack'[Len(stack) + 1] = frame
      /\ \A i \in 1..Len(stack) : stack'[i] = stack[i]
  BY <1>1, <1>3 DEF CallbackInv, CallbackTypeOK
<1>6. CallbackTypeOK'
  BY <1>1, <1>3, <1>4 DEF CallbackInv, CallbackTypeOK
<1>7. \A i \in 1..Len(stack) : stack[i].needs_delete => stack[i].this # a \/ ~frame.needs_delete
  BY <1>1, <1>3 DEF CallbackInv, DeleterFindsIt
<1>8. DeleterFindsIt'
  <2> SUFFICES ASSUME NEW i \in 1..Len(stack'), stack'[i].needs_delete
               PROVE  LET o == object'[stack'[i].this] IN
                      o # NoObject /\ o.self_deleting /\ o.started
    BY DEF DeleterFindsIt
  <2>1. CASE i = Len(stack) + 1
    BY <2>1, <1>3, <1>4, <1>5
  <2>2. CASE i \in 1..Len(stack)
    <3>1. stack'[i] = stack[i] /\ stack[i].needs_delete /\ stack[i].this \in Addresses
      BY <2>2, <1>5, FrameTypes DEF CallbackInv
    <3>2. LET o == object[stack[i].this] IN o # NoObject /\ o.self_deleting /\ o.started
      BY <2>2, <3>1 DEF CallbackInv, DeleterFindsIt
    <3>3. CASE stack[i].this = a
      BY <3>1, <3>2, <3>3, <1>4
    <3>4. CASE stack[i].this # a
      BY <3>1, <3>2, <3>4, <1>4
    <3> QED
      BY <3>3, <3>4
  <2> QED
    BY <2>1, <2>2, <1>5
<1>9. OneDeleter'
  <2> SUFFICES ASSUME NEW i \in 1..Len(stack'), NEW j \in 1..Len(stack'),
                      stack'[i].needs_delete, stack'[j].needs_delete,
                      stack'[i].this = stack'[j].this
               PROVE  i = j
    BY DEF OneDeleter
  <2>1. CASE i = Len(stack) + 1 \/ j = Len(stack) + 1
    BY <2>1, <1>3, <1>5, <1>7
  <2>2. CASE i \in 1..Len(stack) /\ j \in 1..Len(stack)
    BY <2>2, <1>5 DEF CallbackInv, OneDeleter
  <2> QED
    BY <2>1, <2>2, <1>5
<1>10. StartedIsRunning'
  <2> SUFFICES ASSUME NEW b \in Addresses, object'[b] # NoObject,
                      object'[b].self_deleting, object'[b].started
               PROVE  \E i \in 1..Len(stack') : Deletes(i, b)'
    BY DEF StartedIsRunning
  <2>1. CASE b = a
    BY <2>1, <1>3, <1>4, <1>5 DEF Deletes
  <2>2. CASE b # a
    <3>1. PICK i \in 1..Len(stack) : Deletes(i, b)
      BY <2>2, <1>4 DEF CallbackInv, StartedIsRunning
    <3> QED
      BY <3>1, <1>5 DEF Deletes
  <2> QED
    BY <2>1, <2>2
<1> QED
  BY <1>6, <1>8, <1>9, <1>10 DEF CallbackInv

(* A permanent callback has no run that will delete it.                    *)
LEMMA DeleteKeepsInv ==
  ASSUME CallbackInv, NEW a \in Addresses, DeletePermanent(a)
  PROVE  CallbackInv'
<1>1. /\ object[a] # NoObject /\ ~object[a].self_deleting /\ stack' = stack
      /\ object' = [object EXCEPT ![a] = NoObject]
  BY DEF DeletePermanent
<1>2. object'[a] = NoObject /\ \A b \in Addresses \ {a} : object'[b] = object[b]
  BY <1>1 DEF CallbackInv, CallbackTypeOK
<1>3. CallbackTypeOK'
  BY <1>1 DEF CallbackInv, CallbackTypeOK
<1>4. DeleterFindsIt'
  BY <1>1, <1>2 DEF CallbackInv, CallbackTypeOK, DeleterFindsIt
<1>5. OneDeleter'
  BY <1>1 DEF CallbackInv, OneDeleter
<1>6. StartedIsRunning'
  BY <1>1, <1>2 DEF CallbackInv, StartedIsRunning, Deletes
<1> QED
  BY <1>3, <1>4, <1>5, <1>6 DEF CallbackInv

(* What a return does to the stack.                                        *)
LEMMA Returned ==
  ASSUME CallbackInv, Return
  PROVE  LET n == Len(stack) IN
         /\ n \in Nat /\ n > 0 /\ stack[n] \in Frames
         /\ Len(stack') = n - 1 /\ \A i \in 1..(n - 1) : stack'[i] = stack[i]
         /\ stack' \in Seq(Frames)
         /\ stack' = Front(stack) /\ Last(stack) = stack[n]
         /\ object' = IF stack[n].needs_delete THEN [object EXCEPT ![stack[n].this] = NoObject]
                      ELSE object
<1>1. stack # <<>> /\ stack \in Seq(Frames)
  BY DEF Return, CallbackInv, CallbackTypeOK
<1>2. Len(stack) \in Nat /\ Len(stack) > 0
  BY <1>1
<1>3. stack' = SubSeq(stack, 1, Len(stack) - 1) /\ Last(stack) = stack[Len(stack)]
  BY DEF Return, Front, Last
<1>4. Len(stack') = Len(stack) - 1 /\ \A i \in 1..(Len(stack) - 1) : stack'[i] = stack[i]
  <2> DEFINE m == Len(stack) - 1
  <2>1. m \in Nat /\ \A i \in 1..m : stack[i] \in Frames
    BY <1>1, <1>2
  <2> HIDE DEF m
  <2>2. /\ Len(SubSeq(stack, 1, m)) = IF 1 <= m THEN m - 1 + 1 ELSE 0
        /\ \A i \in 1..(m - 1 + 1) : SubSeq(stack, 1, m)[i] = stack[1 + i - 1]
    BY <2>1, SubSeqProperties
  <2>3. Len(SubSeq(stack, 1, m)) = m /\ \A i \in 1..m : SubSeq(stack, 1, m)[i] = stack[i]
    BY <2>1, <2>2
  <2> QED
    BY <2>3, <1>3 DEF m
<1>5. stack' \in Seq(Frames) /\ stack[Len(stack)] \in Frames
  BY <1>1, <1>2, <1>3
<1>6. object' = IF stack[Len(stack)].needs_delete
                THEN [object EXCEPT ![stack[Len(stack)].this] = NoObject] ELSE object
  BY <1>3 DEF Return, NeedsDelete
<1>7. stack' = Front(stack)
  BY DEF Return
<1> QED
  BY <1>2, <1>3, <1>4, <1>5, <1>6, <1>7

(* When a run ends, the only one that would delete that callback is over.  *)
LEMMA ReturnKeepsInv ==
  ASSUME CallbackInv, Return
  PROVE  CallbackInv'
<1> DEFINE n == Len(stack)
           a == stack[n].this
<1>0. n \in 1..n => a \in Addresses
  BY FrameTypes DEF CallbackInv
<1>1. /\ n \in Nat /\ n > 0 /\ a \in Addresses
      /\ Len(stack') = n - 1 /\ \A i \in 1..(n - 1) : stack'[i] = stack[i]
      /\ stack' \in Seq(Frames)
      /\ object' = IF stack[n].needs_delete THEN [object EXCEPT ![a] = NoObject] ELSE object
  BY <1>0, Returned
<1>2. \A b \in Addresses : b # a \/ ~stack[n].needs_delete => object'[b] = object[b]
  BY <1>1 DEF CallbackInv, CallbackTypeOK
<1>3. stack[n].needs_delete => object'[a] = NoObject
  BY <1>1 DEF CallbackInv, CallbackTypeOK
<1>4. \A i \in 1..(n - 1) : stack[i].this \in Addresses
  BY <1>1, FrameTypes DEF CallbackInv
<1>5. CallbackTypeOK'
  BY <1>1 DEF CallbackInv, CallbackTypeOK
<1>6. DeleterFindsIt'
  <2> SUFFICES ASSUME NEW i \in 1..(n - 1), stack[i].needs_delete
               PROVE  LET o == object'[stack[i].this] IN
                      o # NoObject /\ o.self_deleting /\ o.started
    BY <1>1 DEF DeleterFindsIt
  <2>1. i \in 1..n /\ n \in 1..n /\ i # n
    BY <1>1
  <2>2. stack[i].this # a \/ ~stack[n].needs_delete
    BY <2>1 DEF CallbackInv, OneDeleter
  <2>3. object'[stack[i].this] = object[stack[i].this]
    BY <2>2, <1>2, <1>4
  <2> QED
    BY <2>1, <2>3 DEF CallbackInv, DeleterFindsIt
<1>7. OneDeleter'
  <2> SUFFICES ASSUME NEW i \in 1..(n - 1), NEW j \in 1..(n - 1),
                      stack[i].needs_delete, stack[j].needs_delete, stack[i].this = stack[j].this
               PROVE  i = j
    BY <1>1 DEF OneDeleter
  <2>1. i \in 1..n /\ j \in 1..n
    BY <1>1
  <2> QED
    BY <2>1 DEF CallbackInv, OneDeleter
<1>8. StartedIsRunning'
  <2> SUFFICES ASSUME NEW b \in Addresses, object'[b] # NoObject,
                      object'[b].self_deleting, object'[b].started
               PROVE  \E i \in 1..(n - 1) : stack'[i].this = b /\ stack'[i].needs_delete
    BY <1>1 DEF StartedIsRunning, Deletes
  <2>1. b # a \/ ~stack[n].needs_delete
    BY <1>3
  <2>2. PICK i \in 1..n : stack[i].this = b /\ stack[i].needs_delete
    BY <2>1, <1>2 DEF CallbackInv, StartedIsRunning, Deletes
  <2>3. i \in 1..(n - 1)
    BY <2>1, <2>2, <1>1
  <2> QED
    BY <2>2, <2>3, <1>1
<1> QED
  BY <1>5, <1>6, <1>7, <1>8 DEF CallbackInv

(* The invariant after each step *)
LEMMA CallbackStepKeepsInv == CallbackInv /\ [CallbackNext]_callbackVars => CallbackInv'
<1> SUFFICES ASSUME CallbackInv, [CallbackNext]_callbackVars PROVE CallbackInv'
  OBVIOUS
<1>1. ASSUME NEW a \in Addresses, NewCallback(a) PROVE CallbackInv'
  BY <1>1, NewKeepsInv DEF NewCallback
<1>2. ASSUME NEW a \in Addresses, NewPermanentCallback(a) PROVE CallbackInv'
  BY <1>2, NewKeepsInv DEF NewPermanentCallback
<1>3. ASSUME NEW a \in Addresses, Run(a) PROVE CallbackInv'
  BY <1>3, RunKeepsInv
<1>4. ASSUME NEW a \in Addresses, DeletePermanent(a) PROVE CallbackInv'
  BY <1>4, DeleteKeepsInv
<1>5. CASE Return
  BY <1>5, ReturnKeepsInv
<1>6. CASE UNCHANGED callbackVars
  BY <1>6 DEF callbackVars, CallbackInv, CallbackTypeOK, DeleterFindsIt, OneDeleter, StartedIsRunning,
              Deletes
<1> QED
  BY <1>1, <1>2, <1>3, <1>4, <1>5, <1>6 DEF CallbackNext

(* CallbackInv holds in every state of the program.                                *)
THEOREM CallbackInvHolds == CallbackSpec => []CallbackInv
BY CallbackInitInv, CallbackStepKeepsInv, PTL DEF CallbackSpec

(* Only the end of its run frees a callback of NewCallback, and only its   *)
(* deletion a permanent one.                                               *)
LEMMA ReturnIsInTime ==
  ASSUME CallbackInv, CallbackInv', Return, NEW a \in Addresses
  PROVE  InTime(a)
<1> DEFINE n == Len(stack)
<1>1. /\ n \in 1..n /\ stack' = Front(stack) /\ Last(stack) = stack[n]
      /\ object' = IF stack[n].needs_delete THEN [object EXCEPT ![stack[n].this] = NoObject]
                   ELSE object
  BY Returned
<1>2. object[a] # NoObject /\ object'[a] = NoObject =>
        stack[n].this = a /\ object[a].self_deleting /\ object[a].started
  BY <1>1 DEF CallbackInv, CallbackTypeOK, DeleterFindsIt
<1> QED
  BY <1>1, <1>2 DEF InTime, CallbackInv, StartedIsRunning, Running, Deletes

(* Every callback is freed once and in time, at any depth of nested runs.  *)
THEOREM FreedInTime == CallbackSpec => FreedOnceAndInTime
<1>1. ASSUME CallbackInv, CallbackInv', [CallbackNext]_callbackVars
      PROVE  [\A a \in Addresses : InTime(a)]_callbackVars
  <2> SUFFICES ASSUME NEW a \in Addresses, CallbackNext PROVE InTime(a)
    BY <1>1
  <2>1. StartedIsRunning'
    BY <1>1 DEF CallbackInv
  <2>2. object'[a] # NoObject /\ object'[a].self_deleting /\ object'[a].started => Running(a)'
    BY <2>1 DEF StartedIsRunning, Running, Deletes
  <2>3. ASSUME NEW b \in Addresses, NEW class, NEW self_deleting, New(b, class, self_deleting)
        PROVE  InTime(a)
    BY <1>1, <2>2, <2>3 DEF New, InTime, CallbackInv, CallbackTypeOK
  <2>4. ASSUME NEW b \in Addresses, Run(b) PROVE InTime(a)
    <3>1. object[b] \in Objects
      BY <1>1, <2>4 DEF Run, MayRun, CallbackInv, CallbackTypeOK
    <3>2. [object[b] EXCEPT !.started = TRUE] # NoObject
      BY <3>1 DEF Objects
    <3> QED
      BY <1>1, <2>2, <2>4, <3>2 DEF Run, InTime, CallbackInv, CallbackTypeOK
  <2>5. ASSUME NEW b \in Addresses, DeletePermanent(b) PROVE InTime(a)
    BY <1>1, <2>2, <2>5 DEF DeletePermanent, InTime, CallbackInv, CallbackTypeOK
  <2>6. CASE Return
    BY <1>1, <2>6, ReturnIsInTime
  <2> QED
    BY <2>3, <2>4, <2>5, <2>6 DEF CallbackNext, NewCallback, NewPermanentCallback
<1> QED
  BY <1>1, CallbackInvHolds, PTL DEF FreedOnceAndInTime, CallbackSpec

-----------------------------------------------------------------------------
(* CallOptions, for any number of threads and callbacks. OptionsInv says   *)
(* why a cleared callback is quiet: whoever is inside a method holds mu_,  *)
(* so that cancel_func stands still while it runs, and what was taken out  *)
(* is not what is set.                                                     *)

USE CallbackAssumption, ClientAssumption

OptionsTypeOK ==
  /\ mu \in Clients \cup {NoClient}
  /\ cancel_func \in Callbacks \cup {NoCallback}
  /\ timeout \in Timeouts
  /\ at \in [Clients -> Methods \cup {"idle", "callback"}]
  /\ running \in [Clients -> Callbacks \cup {NoCallback}]
  /\ cleared \subseteq Callbacks

InsideHoldsTheLock == \A t \in Clients : at[t] # "idle" <=> mu = t

RunsWhatIsSet ==
  \A t \in Clients : running[t] # NoCallback => at[t] = "callback" /\ running[t] = cancel_func

SetIsNotCleared == cancel_func \notin cleared

OptionsInv == OptionsTypeOK /\ InsideHoldsTheLock /\ RunsWhatIsSet /\ SetIsNotCleared

(* The constructor establishes the invariant. *)
LEMMA OptionsInit == CallInit => OptionsInv
BY DEF CallInit, OptionsInv, OptionsTypeOK, InsideHoldsTheLock, RunsWhatIsSet, SetIsNotCleared

(* While a method is in its critical section no callback runs, but the one *)
(* it has started itself.                                                  *)
LEMMA OthersAreOutside ==
  ASSUME OptionsInv, NEW t \in Clients, at[t] # "idle", NEW u \in Clients \ {t}
  PROVE  at[u] = "idle" /\ running[u] = NoCallback
<1>1. mu = t
  BY DEF OptionsInv, InsideHoldsTheLock
<1>2. at[u] = "idle"
  BY <1>1 DEF OptionsInv, InsideHoldsTheLock
<1> QED
  BY <1>2 DEF OptionsInv, RunsWhatIsSet

(* Every step keeps the invariant. *)
LEMMA OptionsStep == OptionsInv /\ [CallNext]_callVars => OptionsInv'
<1> SUFFICES ASSUME OptionsInv, [CallNext]_callVars PROVE OptionsInv'
  OBVIOUS
<1> USE DEF OptionsInv, OptionsTypeOK
<1>1. ASSUME NEW t \in Clients, Enter(t) PROVE OptionsInv'
  <2>1. PICK method \in Methods : at' = [at EXCEPT ![t] = method]
    BY <1>1 DEF Enter
  <2>2. /\ at[t] = "idle" /\ mu = NoClient /\ mu' = t
        /\ UNCHANGED <<cancel_func, timeout, running, cleared>>
    BY <1>1 DEF Enter
  <2>3. method # "idle"
    BY DEF Methods
  <2>4. OptionsTypeOK'
    BY <2>1, <2>2
  <2>5. InsideHoldsTheLock'
    BY <2>1, <2>2, <2>3 DEF InsideHoldsTheLock
  <2> QED
    BY <2>1, <2>2, <2>4, <2>5 DEF RunsWhatIsSet, SetIsNotCleared
<1>2. ASSUME NEW t \in Clients, StartCancel(t) PROVE OptionsInv'
  <2>1. /\ at[t] = "StartCancel" /\ cancel_func # NoCallback
        /\ running' = [running EXCEPT ![t] = cancel_func]
        /\ at' = [at EXCEPT ![t] = "callback"]
        /\ UNCHANGED <<mu, cancel_func, timeout, cleared>>
    BY <1>2 DEF StartCancel
  <2> QED
    BY <2>1 DEF InsideHoldsTheLock, RunsWhatIsSet, SetIsNotCleared
(* The steps that leave: t is outside afterwards, and so is everyone else. *)
<1>3. ASSUME NEW t \in Clients, at[t] # "idle", Leave(t), OptionsTypeOK',
             running'[t] = NoCallback,
             \A u \in Clients \ {t} : running'[u] = running[u],
             SetIsNotCleared'
      PROVE  OptionsInv'
  <2>1. mu' = NoClient /\ at' = [at EXCEPT ![t] = "idle"]
    BY <1>3 DEF Leave
  <2>2. \A u \in Clients \ {t} : at[u] = "idle" /\ running[u] = NoCallback
    BY <1>3, OthersAreOutside
  <2>3. InsideHoldsTheLock' /\ RunsWhatIsSet'
    BY <1>3, <2>1, <2>2 DEF InsideHoldsTheLock, RunsWhatIsSet
  <2> QED
    BY <1>3, <2>3
<1>4. ASSUME NEW t \in Clients, at[t] \notin {"idle", "callback"} PROVE running[t] = NoCallback
  BY <1>4 DEF RunsWhatIsSet
<1>5. ASSUME NEW t \in Clients, NothingToCancel(t) PROVE OptionsInv'
  BY <1>3, <1>4, <1>5 DEF NothingToCancel, Leave, SetIsNotCleared
<1>6. ASSUME NEW t \in Clients, CallbackReturns(t) PROVE OptionsInv'
  BY <1>3, <1>6 DEF CallbackReturns, Leave, SetIsNotCleared
<1>7. ASSUME NEW t \in Clients, NEW f \in Callbacks, SetCancelCallback(t, f) PROVE OptionsInv'
  BY <1>3, <1>4, <1>7 DEF SetCancelCallback, Leave, SetIsNotCleared
<1>8. ASSUME NEW t \in Clients, ClearCancelCallback(t) PROVE OptionsInv'
  BY <1>3, <1>4, <1>8 DEF ClearCancelCallback, Leave, SetIsNotCleared
<1>9. ASSUME NEW t \in Clients, GetTimeout(t) PROVE OptionsInv'
  BY <1>3, <1>4, <1>9 DEF GetTimeout, Leave, SetIsNotCleared
<1>10. ASSUME NEW t \in Clients, NEW ms \in Timeouts, SetTimeout(t, ms) PROVE OptionsInv'
  BY <1>3, <1>4, <1>10 DEF SetTimeout, Leave, SetIsNotCleared
<1>11. ASSUME UNCHANGED callVars PROVE OptionsInv'
  BY <1>11 DEF callVars, InsideHoldsTheLock, RunsWhatIsSet, SetIsNotCleared
<1> QED
  BY <1>1, <1>2, <1>5, <1>6, <1>7, <1>8, <1>9, <1>10, <1>11 DEF CallNext, ClientStep

(* The invariant holds in every reachable state. *)
THEOREM OptionsInvHolds == CallSpec => []OptionsInv
<1>1. CallInit => OptionsInv
  BY OptionsInit
<1>2. OptionsInv /\ [CallNext]_callVars => OptionsInv'
  BY OptionsStep
<1> QED
  BY <1>1, <1>2, PTL DEF CallSpec

(* A callback that was cleared or replaced neither runs nor is running.    *)
THEOREM ClearedIsQuiet == CallSpec => []ClearedCallbackIsQuiet
<1>1. OptionsInv => ClearedCallbackIsQuiet
  BY DEF OptionsInv, RunsWhatIsSet, SetIsNotCleared, ClearedCallbackIsQuiet
<1> QED
  BY <1>1, OptionsInvHolds, PTL
=============================================================================
