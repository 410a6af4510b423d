-------------------------- MODULE ParallelForProofs --------------------------
(***************************************************************************)
(* ParallelFor (ParallelFor.tla) is exact for every pool, every set of     *)
(* callers and every call whose sizes divup can add: f is called once for  *)
(* every index, the barrier counts the blocks that are still to come, no   *)
(* range outlives the frame it refers to, and the search for a block size  *)
(* makes progress and keeps the threads busy.                              *)
(*                                                                         *)
(* The search is arithmetic: a coarser size has fewer blocks, and the      *)
(* efficiency of the best division so far is compared as a fraction.  The  *)
(* rest is about the ranges in the queues and on the stacks: for each call *)
(* they cut what is left of [0, n), without overlap, at multiples of the   *)
(* block size, so that the blocks still to come are those that start in    *)
(* what some range holds, as many as the barrier counts.                   *)
(***************************************************************************)
EXTENDS ParallelFor, FiniteSetTheorems, SequenceTheorems, TLAPS

(* The calls for which divup does not overflow: no sum of two sizes, nor   *)
(* of a size and the number of threads, leaves the Index.  Beyond them the *)
(* theorems below fail (parallel_for_largest).                             *)
RoomForABlock ==
  \A a \in Calls : 2 * a.n <= IntLimit /\ a.n + NumThreads <= IntLimit

-----------------------------------------------------------------------------
(* Arithmetic                                                              *)

(* Division with remainder *)
LEMMA Division ==
  ASSUME NEW x \in Int, NEW y \in Nat \ {0}
  PROVE  x \div y \in Int /\ x % y \in 0..(y - 1) /\ x = y * (x \div y) + (x % y)
OBVIOUS

(* The remainder is the one number below y that division leaves. *)
LEMMA Residue ==
  ASSUME NEW y \in Nat \ {0}, NEW q \in Int, NEW r \in 0..(y - 1)
  PROVE  (q * y + r) % y = r
OBVIOUS

(* An Index that is not negative is not wrapped. *)
LEMMA WrapIsIdentity ==
  ASSUME NEW x \in Nat, x < IntLimit
  PROVE  Wrap(x) = x
<1> DEFINE w == 2 * IntLimit
           s == x + IntLimit
<1>1. IntLimit \in Nat \ {0}
  BY InputAssumption
<1>2. w \in Nat \ {0} /\ s \in 0..(w - 1)
  BY <1>1
<1>3. 0 * w + s = s
  BY <1>2
<1> HIDE DEF w, s
<1>4. (0 * w + s) % w = s
  BY <1>2, Residue
<1> QED
  BY <1>1, <1>3, <1>4 DEF Wrap, w, s

(* divup rounds up, as long as its sum is an Index. *)
LEMMA DivUp ==
  ASSUME NEW x \in Nat, NEW y \in Nat \ {0}, x + y <= IntLimit
  PROVE  /\ divup(x, y) \in Nat
         /\ x <= divup(x, y) * y
         /\ divup(x, y) * y < x + y
<1> DEFINE s == x + y - 1
           q == s \div y
<1>1. s \in Nat /\ s < IntLimit
  BY InputAssumption
<1>2. divup(x, y) = q
  <2>1. Wrap(s) = s
    BY <1>1, WrapIsIdentity
  <2> QED
    BY <1>1, <2>1 DEF divup, Quotient
<1> HIDE DEF q
<1>3. q \in Int /\ s % y \in 0..(y - 1) /\ s = y * q + (s % y)
  BY <1>1, Division DEF q
<1> HIDE DEF s
<1>4. q * y = y * q /\ q * y \in Int
  BY <1>3
<1>5. s = x + y - 1 /\ q * y <= s /\ s <= q * y + y - 1
  BY <1>1, <1>3, <1>4 DEF s
<1>6. x <= q * y /\ q * y < x + y
  BY <1>1, <1>4, <1>5
<1>7. q >= 0
  <2>1. ASSUME q <= -1 PROVE FALSE
    <3>1. q * y <= -y
      BY <1>3, <2>1
    <3> QED
      BY <3>1, <1>4, <1>6
  <2> QED
    BY <2>1, <1>3
<1> QED
  BY <1>2, <1>3, <1>6, <1>7

(* So the quotient lies between 1 and what is divided. *)
LEMMA DivUpBounds ==
  ASSUME NEW x \in Nat \ {0}, NEW y \in Nat \ {0}, x + y <= IntLimit
  PROVE  divup(x, y) \in 1..x
<1> DEFINE q == divup(x, y)
<1>1. q \in Nat /\ x <= q * y /\ q * y < x + y
  BY DivUp
<1> HIDE DEF q
<1>2. q # 0
  BY <1>1
<1>3. ASSUME q >= x + 1 PROVE FALSE
  <2>1. q * y >= (x + 1) * y
    BY <1>1, <1>3
  <2>2. (x + 1) * y = x * y + y /\ x * y >= x
    OBVIOUS
  <2> QED
    BY <1>1, <2>1, <2>2
<1> QED
  BY <1>1, <1>2, <1>3 DEF q

(* Mid cuts a range that is larger than a block strictly inside it, after  *)
(* a whole number of blocks.                                               *)
LEMMA MidCuts ==
  ASSUME NEW first \in Nat, NEW last \in Nat, NEW size \in Nat \ {0},
         last - first > size, 2 * last <= IntLimit
  PROVE  /\ Mid(first, last, size) \in Nat
         /\ first < Mid(first, last, size) /\ Mid(first, last, size) < last
         /\ \E q \in Nat : Mid(first, last, size) = first + q * size
<1> DEFINE d == last - first
           h == d \div 2
           q == divup(h, size)
<1>1. d \in Nat /\ d >= size + 1 /\ d <= last
  OBVIOUS
<1> HIDE DEF d
<1>2. h \in Nat /\ 2 * h <= d /\ d <= 2 * h + 1
  BY <1>1
<1> HIDE DEF h
<1>3. h >= 1 /\ h + size <= IntLimit
  <2>1. IntLimit \in Nat
    BY InputAssumption
  <2>2. size \in Nat /\ size >= 1
    OBVIOUS
  <2> QED
    BY <1>1, <1>2, <2>1, <2>2
<1>4. q \in 1..h /\ h <= q * size /\ q * size < h + size
  BY <1>2, <1>3, DivUp, DivUpBounds
<1> HIDE DEF q
<1>5. q * size \in Nat /\ q * size >= 1
  BY <1>2, <1>4
<1>6. q * size < d
  <2>1. CASE h <= size
    <3>1. ASSUME q >= 2 PROVE FALSE
      <4>1. q * size >= 2 * size
        BY <3>1, <1>4, <1>2
      <4> QED
        BY <4>1, <2>1, <1>2, <1>4, <1>5
    <3>2. q = 1
      BY <3>1, <1>2, <1>4
    <3> QED
      BY <3>2, <1>1
  <2>2. CASE h > size
    BY <2>2, <1>1, <1>2, <1>4, <1>5
  <2> QED
    BY <2>1, <2>2, <1>2
<1>7. Mid(first, last, size) = first + q * size
  BY DEF Mid, d, h, q
<1>8. d = last - first
  BY DEF d
<1>9. /\ first + q * size \in Nat
      /\ first < first + q * size /\ first + q * size < last
  BY <1>1, <1>5, <1>6, <1>8
<1>10. q \in Nat
  BY <1>2, <1>4
<1> QED
  BY <1>7, <1>9, <1>10

(* A number of whole blocks further on, the grid is the same. *)
LEMMA OnTheGrid ==
  ASSUME NEW first \in Nat, NEW size \in Nat \ {0}, first % size = 0, NEW q \in Nat
  PROVE  (first + q * size) % size = 0
<1>1. first = size * (first \div size) + (first % size) /\ first \div size \in Int
  BY Division
<1> DEFINE p == first \div size
<1> HIDE DEF p
<1>2. p \in Int /\ first = size * p
  BY <1>1 DEF p
<1>3. first + q * size = (p + q) * size + 0
  BY <1>2
<1>4. ((p + q) * size + 0) % size = 0
  BY <1>2, Residue
<1> QED
  BY <1>3, <1>4

-----------------------------------------------------------------------------
(* The search for a block size                                             *)

(* The pool has a thread. *)
LEMMA PoolHasThreads == NumThreads \in Nat \ {0}
<1>1. Cardinality(Workers) \in Nat /\ Cardinality(Workers) # 0
  BY PoolAssumption, FS_CardinalityType, FS_EmptySet
<1> QED
  BY <1>1 DEF NumThreads

(* A call that is not run at once has a cost, so that dividing by it is    *)
(* defined.                                                                *)
LEMMA DividedCallsCost ==
  ASSUME NEW n \in Nat, NEW cost \in Int, numThreads(n, cost) # 1
  PROVE  cost \in Nat \ {0}
<1> SUFFICES ASSUME cost <= 0 PROVE numThreads(n, cost) = 1
  OBVIOUS
<1> DEFINE p == 10 * kPerThreadCycles
           m == n * cost
           e == 10 * (m - kStartupCycles) + 9 * kPerThreadCycles
           v == Quotient(e, p)
<1>1. /\ kPerThreadCycles \in Nat /\ kPerThreadCycles >= 1 /\ kStartupCycles \in Nat
      /\ IntLimit \in Nat /\ IntLimit >= 1
  BY CostAssumption, InputAssumption
<1>2. m \in Int /\ m <= 0
  OBVIOUS
<1>3. numThreads(n, cost) = Lesser(NumThreads, Greater(1, IF v >= IntLimit THEN -IntLimit ELSE v))
  BY DEF numThreads
<1> HIDE DEF m
<1>4. p \in Nat \ {0} /\ e \in Int /\ e < p
  BY <1>1, <1>2
<1> HIDE DEF p, e
<1>5. v \in Int /\ v <= 0
  <2>1. CASE e >= 0
    <3>1. e \div p \in Int /\ e % p \in 0..(p - 1) /\ e = p * (e \div p) + (e % p)
      BY <1>4, Division
    <3> DEFINE q == e \div p
    <3> HIDE DEF q
    <3>2. q \in Int /\ p * q <= e
      BY <1>4, <3>1 DEF q
    <3>3. ASSUME q >= 1 PROVE FALSE
      <4>1. p * q >= p
        BY <1>4, <3>2, <3>3
      <4> QED
        BY <4>1, <1>4, <3>2
    <3> QED
      BY <2>1, <3>2, <3>3 DEF Quotient, q
  <2>2. CASE ~(e >= 0)
    <3> DEFINE x == -e
    <3>0. x \in Int /\ x >= 0 /\ v = -(x \div p)
      BY <2>2, <1>4 DEF Quotient
    <3> HIDE DEF x, v
    <3>1. x \div p \in Int /\ x % p \in 0..(p - 1) /\ x = p * (x \div p) + (x % p)
      BY <1>4, <3>0, Division
    <3> DEFINE q == x \div p
    <3> HIDE DEF q
    <3>2. q \in Int /\ x < p * q + p
      BY <1>4, <3>0, <3>1 DEF q
    <3>3. ASSUME q <= -1 PROVE FALSE
      <4>1. p * q <= -p
        BY <1>4, <3>2, <3>3
      <4> QED
        BY <4>1, <1>4, <3>0, <3>2
    <3> QED
      BY <3>0, <3>2, <3>3 DEF q
  <2> QED
    BY <2>1, <2>2
<1> HIDE DEF v
<1>6. Greater(1, IF v >= IntLimit THEN -IntLimit ELSE v) = 1
  BY <1>1, <1>5 DEF Greater
<1>7. Lesser(NumThreads, 1) = 1
  BY PoolHasThreads DEF Lesser
<1> QED
  BY <1>3, <1>6, <1>7

(* A block has at least one index and at most all of them. *)
LEMMA IdealSize ==
  ASSUME NEW n \in Nat \ {0}, NEW cost \in Nat \ {0}, NEW factor \in Nat
  PROVE  BlockSizeFor(n, cost, factor) \in 1..n
<1> DEFINE m == factor * kTaskSize
           v == m \div cost
<1>1. m \in Int
  BY CostAssumption
<1> HIDE DEF m
<1>2. v \in Int
  BY <1>1, Division
<1> HIDE DEF v
<1>3. Lesser(n, Greater(1, v)) \in 1..n
  BY <1>2 DEF Lesser, Greater
<1> QED
  BY <1>3 DEF BlockSizeFor, v, m

(* Aligning does not make it smaller, unless it is the whole call. *)
LEMMA AlignedSize ==
  ASSUME NEW n \in Nat \ {0}, NEW size \in Nat \ {0}, NEW align \in Nat \ {0}
  PROVE  /\ Aligned(n, size, align) \in 1..n
         /\ Aligned(n, size, align) >= size \/ Aligned(n, size, align) = n
<1> DEFINE x == size + align - 1
           q == x \div align
           y == align * q
<1>1. x \in Int
  OBVIOUS
<1>2. q \in Int /\ x % align \in 0..(align - 1) /\ x = y + (x % align)
  BY <1>1, Division
<1> HIDE DEF q
<1>3. y \in Int /\ y >= size
  BY <1>2
<1> HIDE DEF y
<1>4. Aligned(n, size, align) = Lesser(n, y)
  BY DEF Aligned, x, q, y
<1> HIDE DEF x
<1>5. /\ Lesser(n, y) \in 1..n
      /\ Lesser(n, y) >= size \/ Lesser(n, y) = n
  BY <1>3 DEF Lesser
<1> QED
  BY <1>4, <1>5

(* Fractions with a positive denominator: AtLeast(a, 0, b) orders them,    *)
(* and AtLeast(a, 1, b) with one percent of slack.                         *)
Fractions == Nat \X (Nat \ {0})

(* The numerator and the denominator of a fraction *)
LEMMA FractionParts ==
  ASSUME NEW a \in Fractions
  PROVE  a[1] \in Nat /\ a[2] \in Nat /\ a[2] >= 1
BY DEF Fractions

(* Percents of slack carry over to a fraction that is no larger. *)
LEMMA Slack ==
  ASSUME NEW a1 \in Nat, NEW a2 \in Nat \ {0}, NEW b1 \in Nat, NEW b2 \in Nat \ {0},
         NEW c1 \in Nat, NEW c2 \in Nat \ {0}, NEW s \in 0..1,
         (100 * a1 + s * a2) * b2 >= 100 * b1 * a2, b1 * c2 >= c1 * b2
  PROVE  (100 * a1 + s * a2) * c2 >= 100 * c1 * a2
<1> DEFINE x == 100 * a1 + s * a2
<1>1. x \in Nat
  OBVIOUS
<1> HIDE DEF x
<1>2. x * b2 >= 100 * b1 * a2
  BY DEF x
<1>3. (x * b2) * c2 >= (100 * b1 * a2) * c2
  BY <1>1, <1>2
<1>4. (b1 * c2) * (100 * a2) >= (c1 * b2) * (100 * a2)
  OBVIOUS
<1>5. /\ (100 * b1 * a2) * c2 = (b1 * c2) * (100 * a2)
      /\ (c1 * b2) * (100 * a2) = (100 * c1 * a2) * b2
      /\ (x * b2) * c2 = (x * c2) * b2
  BY <1>1
<1>6. x * c2 \in Int /\ 100 * c1 * a2 \in Int
  BY <1>1
<1> DEFINE l == x * c2
           r == 100 * c1 * a2
<1>7. l * b2 >= r * b2
  <2>1. (x * b2) * c2 \in Int /\ (100 * b1 * a2) * c2 \in Int
        /\ (b1 * c2) * (100 * a2) \in Int /\ (c1 * b2) * (100 * a2) \in Int
    BY <1>1
  <2> QED
    BY <1>3, <1>4, <1>5, <2>1
<1>8. l \in Int /\ r \in Int
  BY <1>6
<1> HIDE DEF l, r
<1>9. l >= r
  <2> SUFFICES ASSUME l <= r - 1 PROVE FALSE
    BY <1>8
  <2>1. l * b2 <= (r - 1) * b2
    BY <1>8
  <2>2. (r - 1) * b2 = r * b2 - b2 /\ r * b2 \in Int /\ l * b2 \in Int
    BY <1>8
  <2> QED
    BY <1>7, <2>1, <2>2
<1> QED
  BY <1>9 DEF l, r, x

(* AtLeast is reflexive and total, *)
LEMMA AtLeastIsAnOrder ==
  ASSUME NEW a \in Fractions, NEW b \in Fractions
  PROVE  /\ AtLeast(a, 1, a)
         /\ AtLeast(a, 0, b) \/ AtLeast(b, 0, a)
         /\ AtLeast(a, 1, b) \/ AtLeast(b, 0, a)
<1> DEFINE a1 == a[1]
           a2 == a[2]
           b1 == b[1]
           b2 == b[2]
<1>1. a1 \in Nat /\ a2 \in Nat \ {0} /\ b1 \in Nat /\ b2 \in Nat \ {0}
  BY FractionParts
<1>2. /\ \A s \in 0..1 : AtLeast(a, s, a) <=> ((100 * a1 + s * a2) * a2 >= 100 * a1 * a2)
      /\ \A s \in 0..1 : AtLeast(a, s, b) <=> ((100 * a1 + s * a2) * b2 >= 100 * b1 * a2)
      /\ \A s \in 0..1 : AtLeast(b, s, a) <=> ((100 * b1 + s * b2) * a2 >= 100 * a1 * b2)
  BY DEF AtLeast
<1> HIDE DEF a1, a2, b1, b2
<1> DEFINE x == a1 * b2
           y == b1 * a2
           z == a2 * b2
           w == a1 * a2
           u == a2 * a2
<1>3. x \in Nat /\ y \in Nat /\ z \in Nat /\ w \in Nat /\ u \in Nat
  BY <1>1
<1>4. /\ (100 * a1 + 1 * a2) * a2 = 100 * w + u /\ 100 * a1 * a2 = 100 * w
      /\ (100 * a1 + 0 * a2) * b2 = 100 * x /\ 100 * b1 * a2 = 100 * y
      /\ (100 * b1 + 0 * b2) * a2 = 100 * y /\ 100 * a1 * b2 = 100 * x
      /\ (100 * a1 + 1 * a2) * b2 = 100 * x + z
  BY <1>1
<1>5. /\ AtLeast(a, 1, a) <=> (100 * w + u >= 100 * w)
      /\ AtLeast(a, 0, b) <=> (100 * x >= 100 * y)
      /\ AtLeast(b, 0, a) <=> (100 * y >= 100 * x)
      /\ AtLeast(a, 1, b) <=> (100 * x + z >= 100 * y)
  BY <1>2, <1>4
<1> HIDE DEF x, y, z, w, u
<1> QED
  BY <1>3, <1>5

(* and transitive. *)
LEMMA AtLeastIsTransitive ==
  ASSUME NEW a \in Fractions, NEW b \in Fractions, NEW c \in Fractions, NEW s \in 0..1,
         AtLeast(a, s, b), AtLeast(b, 0, c)
  PROVE  AtLeast(a, s, c)
<1> DEFINE a1 == a[1]
           a2 == a[2]
           b1 == b[1]
           b2 == b[2]
           c1 == c[1]
           c2 == c[2]
<1>1. a1 \in Nat /\ a2 \in Nat \ {0} /\ b1 \in Nat /\ b2 \in Nat \ {0} /\ c1 \in Nat /\ c2 \in Nat \ {0}
  BY FractionParts
<1>2. /\ (100 * a1 + s * a2) * b2 >= 100 * b1 * a2
      /\ (100 * b1 + 0 * b2) * c2 >= 100 * c1 * b2
  BY DEF AtLeast
<1>3. AtLeast(a, s, c) <=> ((100 * a1 + s * a2) * c2 >= 100 * c1 * a2)
  BY DEF AtLeast
<1> HIDE DEF a1, a2, b1, b2, c1, c2
<1>4. b1 * c2 >= c1 * b2
  <2> DEFINE x == b1 * c2
             y == c1 * b2
  <2>1. x \in Nat /\ y \in Nat /\ (100 * b1 + 0 * b2) * c2 = 100 * x /\ 100 * c1 * b2 = 100 * y
    BY <1>1
  <2>2. 100 * x >= 100 * y
    BY <1>2, <2>1
  <2> HIDE DEF x, y
  <2>3. x >= y
    BY <2>1, <2>2
  <2> QED
    BY <2>3 DEF x, y
<1> QED
  BY <1>1, <1>2, <1>3, <1>4, Slack

(* A call, the size the search starts from, and what the search keeps *)
CallRecords ==
  [n : Nat, cost : Int, align : Nat, size : Nat, blocks : Nat, best : Fractions, prev : Nat]

Finest(k) == divup(k.n, FirstSize(k.n, k.cost, k.align))

(* What the search keeps: best is between the efficiency of the blocks and *)
(* that of the finest division.                                            *)
Divided(k) ==
  /\ k.n >= 1 /\ 2 * k.n <= IntLimit /\ k.n + NumThreads <= IntLimit
  /\ k.cost >= 1 /\ k.align >= 1
  /\ k.size \in 1..k.n /\ k.blocks = divup(k.n, k.size) /\ k.prev \in 1..k.n
  /\ AtLeast(Efficiency(k.blocks), 1, k.best)
  /\ AtLeast(k.best, 0, Efficiency(Finest(k)))
  /\ AtLeast(Efficiency(k.blocks), 1, Efficiency(k.prev))
  /\ k.size <= Greater(BlockSizeFor(k.n, k.cost, 2), FirstSize(k.n, k.cost, k.align))

(* The efficiency of a division in blocks is a fraction. *)
LEMMA EfficiencyIsFraction ==
  ASSUME NEW b \in Nat \ {0}, b + NumThreads <= IntLimit
  PROVE  Efficiency(b) \in Fractions
<1>1. NumThreads \in Nat \ {0}
  BY PoolHasThreads
<1>2. divup(b, NumThreads) \in 1..b
  BY <1>1, DivUpBounds
<1> DEFINE q == divup(b, NumThreads)
<1> HIDE DEF q
<1>3. q \in Nat \ {0}
  BY <1>2 DEF q
<1>4. q * NumThreads \in Nat \ {0}
  BY <1>1, <1>3
<1> QED
  BY <1>4 DEF Efficiency, Fractions, q

(* The size the search starts from is one of 1..n. *)
LEMMA FirstSizeIsThere ==
  ASSUME NEW n \in Nat \ {0}, NEW cost \in Nat \ {0}, NEW align \in Nat \ {0}
  PROVE  FirstSize(n, cost, align) \in 1..n
<1>1. BlockSizeFor(n, cost, 1) \in 1..n
  BY IdealSize
<1>2. BlockSizeFor(n, cost, 1) \in Nat \ {0}
  BY <1>1
<1> QED
  BY <1>2, AlignedSize DEF FirstSize

(* The blocks of a size *)
LEMMA BlocksOfSize ==
  ASSUME NEW n \in Nat \ {0}, NEW size \in 1..n, 2 * n <= IntLimit, n + NumThreads <= IntLimit
  PROVE  /\ divup(n, size) \in 1..n
         /\ Efficiency(divup(n, size)) \in Fractions
<1>1. IntLimit \in Nat /\ size \in Nat \ {0} /\ n + size <= IntLimit
  BY InputAssumption
<1>2. divup(n, size) \in 1..n
  BY <1>1, DivUpBounds
<1> DEFINE b == divup(n, size)
<1> HIDE DEF b
<1>3. b \in Nat \ {0} /\ b + NumThreads <= IntLimit
  BY <1>2, <1>1, PoolHasThreads DEF b
<1>4. Efficiency(b) \in Fractions
  BY <1>3, EfficiencyIsFraction
<1> QED
  BY <1>2, <1>4 DEF b

(* The search starts with a division that has all it keeps. *)
LEMMA StartDivides ==
  ASSUME NEW a \in Calls, RoomForABlock, a.n > 1, numThreads(a.n, a.cost) # 1
  PROVE  LET size == FirstSize(a.n, a.cost, a.align)
             blocks == divup(a.n, size)
             k == [n |-> a.n, cost |-> a.cost, align |-> a.align, size |-> size,
                   blocks |-> blocks, best |-> Efficiency(blocks), prev |-> blocks]
         IN  k \in CallRecords /\ Divided(k)
<1> DEFINE size == FirstSize(a.n, a.cost, a.align)
           blocks == divup(a.n, size)
           eff == Efficiency(blocks)
           k == [n |-> a.n, cost |-> a.cost, align |-> a.align, size |-> size,
                 blocks |-> blocks, best |-> eff, prev |-> blocks]
<1>1. a.n \in Nat \ {0} /\ a.cost \in Int /\ a.align \in Nat \ {0}
  BY InputAssumption
<1>2. a.cost \in Nat \ {0}
  BY <1>1, DividedCallsCost
<1>3. size \in 1..a.n
  BY <1>1, <1>2, FirstSizeIsThere
<1>4. 2 * a.n <= IntLimit /\ a.n + NumThreads <= IntLimit
  BY DEF RoomForABlock
<1>5. blocks \in 1..a.n /\ eff \in Fractions
  BY <1>1, <1>3, <1>4, BlocksOfSize
<1>6. AtLeast(eff, 1, eff) /\ AtLeast(eff, 0, eff)
  BY <1>5, AtLeastIsAnOrder
<1>7. BlockSizeFor(a.n, a.cost, 2) \in 1..a.n
  BY <1>1, <1>2, IdealSize
<1>8. size <= Greater(BlockSizeFor(a.n, a.cost, 2), size)
  <2> DEFINE b == BlockSizeFor(a.n, a.cost, 2)
  <2> HIDE DEF b, size
  <2>1. b \in Int /\ size \in Int
    BY <1>1, <1>3, <1>7 DEF b
  <2>2. size <= Greater(b, size)
    BY <2>1 DEF Greater
  <2> QED
    BY <2>2 DEF b
<1> HIDE DEF eff, blocks
<1>9. k \in CallRecords
  BY <1>1, <1>3, <1>5 DEF CallRecords
<1>10. Finest(k) = blocks
  BY DEF Finest, blocks
<1>11. eff = Efficiency(blocks)
  BY DEF eff
<1>12. blocks = divup(a.n, size)
  BY DEF blocks
<1> HIDE DEF size
<1>13. /\ k.n = a.n /\ k.cost = a.cost /\ k.align = a.align /\ k.size = size
       /\ k.blocks = blocks /\ k.best = eff /\ k.prev = blocks
  OBVIOUS
<1>14. size = FirstSize(a.n, a.cost, a.align)
  BY DEF size
<1> HIDE DEF k
<1>15. /\ k.n >= 1 /\ k.cost >= 1 /\ k.align >= 1
  BY <1>1, <1>2, <1>13
<1>16. Divided(k)
  BY <1>3, <1>4, <1>5, <1>6, <1>8, <1>10, <1>11, <1>12, <1>13, <1>14, <1>15 DEF Divided
<1> QED
  BY <1>9, <1>16 DEF k, eff, blocks, size

(* One iteration of the search *)
Coarser(k) ==
  LET size == CoarserSize(k)
      blocks == divup(k.n, size)
      eff == Efficiency(blocks)
      taken == AtLeast(eff, 1, k.best)
  IN [k EXCEPT !.prev = blocks,
               !.size = IF taken THEN size ELSE @,
               !.blocks = IF taken THEN blocks ELSE @,
               !.best = IF taken /\ ~AtLeast(@, 0, eff) THEN eff ELSE @]

(* has fewer blocks than the one before *)
LEMMA CoarserHasFewerBlocks ==
  ASSUME NEW k \in CallRecords, Divided(k), k.prev > 1
  PROVE  /\ CoarserSize(k) \in 1..k.n
         /\ divup(k.n, CoarserSize(k)) \in 1..(k.prev - 1)
<1> DEFINE n == k.n
           p == k.prev - 1
           d == divup(n, p)
           size == CoarserSize(k)
           q == divup(n, size)
<1>1. /\ n \in Nat \ {0} /\ p \in 1..(n - 1) /\ k.align \in Nat \ {0}
      /\ 2 * n <= IntLimit /\ n + NumThreads <= IntLimit /\ IntLimit \in Nat
  BY InputAssumption DEF Divided, CallRecords
<1>2. p \in Nat \ {0} /\ n + p <= IntLimit
  BY <1>1
<1>3. d \in 1..n /\ n <= d * p
  BY <1>1, <1>2, DivUp, DivUpBounds
<1>4. size = Aligned(n, d, k.align)
  BY DEF CoarserSize
<1> HIDE DEF d
<1>5. d \in Nat \ {0}
  BY <1>3
<1>6. size \in 1..n /\ (size >= d \/ size = n)
  BY <1>1, <1>4, <1>5, AlignedSize
<1> HIDE DEF size, p
<1>7. size * p >= n
  <2>1. CASE size >= d
    <3>1. size * p >= d * p
      BY <2>1, <1>2, <1>5, <1>6
    <3>2. size * p \in Int /\ d * p \in Int
      BY <1>2, <1>5, <1>6
    <3> QED
      BY <3>1, <3>2, <1>1, <1>3
  <2>2. CASE size = n
    BY <2>2, <1>1, <1>2
  <2> QED
    BY <2>1, <2>2, <1>6
<1>8. size \in Nat \ {0} /\ n + size <= IntLimit
  BY <1>1, <1>6
<1>9. q \in 1..n /\ q * size < n + size
  BY <1>1, <1>8, DivUp, DivUpBounds
<1> HIDE DEF q
<1>10. q <= p
  <2> SUFFICES ASSUME q >= p + 1 PROVE FALSE
    BY <1>1, <1>2, <1>9
  <2>1. q * size >= (p + 1) * size
    BY <1>2, <1>8, <1>9, <1>1
  <2>2. (p + 1) * size = size * p + size /\ size * p \in Int /\ q * size \in Int
    BY <1>2, <1>8, <1>9, <1>1
  <2> QED
    BY <2>1, <2>2, <1>1, <1>7, <1>8, <1>9
<1>11. q \in 1..p
  BY <1>1, <1>2, <1>9, <1>10
<1> QED
  BY <1>6, <1>11 DEF q, size, p

(* and keeps what the search keeps. *)
LEMMA CoarserDivides ==
  ASSUME NEW k \in CallRecords, Divided(k), SearchGoesOn(k)
  PROVE  /\ Coarser(k) \in CallRecords /\ Divided(Coarser(k))
         /\ Coarser(k).prev \in 1..(k.prev - 1)
<1> DEFINE n == k.n
           size == CoarserSize(k)
           blocks == divup(n, size)
           eff == Efficiency(blocks)
           finest == Efficiency(Finest(k))
           bound == Greater(BlockSizeFor(n, k.cost, 2), FirstSize(n, k.cost, k.align))
           old == Efficiency(k.blocks)
           taken == AtLeast(eff, 1, k.best)
           better == taken /\ ~AtLeast(k.best, 0, eff)
           m == Coarser(k)
<1>1. /\ k.prev > 1 /\ size <= BlockSizeFor(n, k.cost, 2)
  BY DEF SearchGoesOn
<1>2. /\ n \in Nat \ {0} /\ k.align \in Nat \ {0} /\ k.cost \in Nat \ {0}
      /\ 2 * n <= IntLimit /\ n + NumThreads <= IntLimit
      /\ k.size \in 1..n /\ k.blocks = divup(n, k.size) /\ k.prev \in 1..n
      /\ k.size \in Nat /\ k.blocks \in Nat /\ k.best \in Fractions
  BY DEF Divided, CallRecords
<1>3. size \in 1..n /\ blocks \in 1..(k.prev - 1)
  BY <1>1, CoarserHasFewerBlocks
<1>4. eff \in Fractions /\ old \in Fractions
  BY <1>2, <1>3, BlocksOfSize
<1>5. FirstSize(n, k.cost, k.align) \in 1..n /\ BlockSizeFor(n, k.cost, 2) \in 1..n
  BY <1>2, FirstSizeIsThere, IdealSize
<1>6. finest \in Fractions
  BY <1>2, <1>5, BlocksOfSize DEF Finest
<1>7. size <= bound
  <2> DEFINE b == BlockSizeFor(n, k.cost, 2)
             f == FirstSize(n, k.cost, k.align)
  <2>1. b \in Int /\ f \in Int /\ size \in Int /\ size <= b
    BY <1>1, <1>2, <1>3, <1>5
  <2> HIDE DEF b, f, size
  <2>2. size <= Greater(b, f)
    BY <2>1 DEF Greater
  <2> QED
    BY <2>2 DEF b, f
<1>8. /\ AtLeast(old, 1, k.best) /\ AtLeast(k.best, 0, finest)
      /\ k.size <= bound
  BY DEF Divided
<1>9. /\ DOMAIN k = {"n", "cost", "align", "size", "blocks", "best", "prev"}
      /\ m = [k EXCEPT !.prev = blocks,
               !.size = IF taken THEN size ELSE k.size,
               !.blocks = IF taken THEN blocks ELSE k.blocks,
               !.best = IF better THEN eff ELSE k.best]
  BY DEF CallRecords, Coarser
<1> HIDE DEF taken, better, finest, old, bound, eff, blocks, size, m
<1>10. /\ m.n = n /\ m.cost = k.cost /\ m.align = k.align /\ m.prev = blocks
       /\ m.size = IF taken THEN size ELSE k.size
       /\ m.blocks = IF taken THEN blocks ELSE k.blocks
       /\ m.best = IF better THEN eff ELSE k.best
  BY <1>9
<1>11. m \in CallRecords
  <2>1. blocks \in Nat /\ size \in Nat
    BY <1>2, <1>3
  <2>2. /\ (IF taken THEN size ELSE k.size) \in Nat
        /\ (IF taken THEN blocks ELSE k.blocks) \in Nat
        /\ (IF better THEN eff ELSE k.best) \in Fractions
    BY <2>1, <1>2, <1>4
  <2> QED
    BY <1>9, <2>1, <2>2 DEF CallRecords
<1>12. /\ AtLeast(eff, 1, eff)
       /\ better => AtLeast(eff, 0, k.best)
       /\ ~taken => AtLeast(k.best, 0, eff)
  BY <1>2, <1>4, AtLeastIsAnOrder DEF taken, better
<1>13. /\ blocks = divup(n, size) /\ eff = Efficiency(blocks) /\ old = Efficiency(k.blocks)
       /\ finest = Efficiency(Finest(k))
       /\ bound = Greater(BlockSizeFor(n, k.cost, 2), FirstSize(n, k.cost, k.align))
  BY DEF blocks, eff, old, finest, bound
<1>14. Finest(m) = Finest(k)
  BY <1>10 DEF Finest
<1>15. better => AtLeast(eff, 0, finest)
  BY <1>2, <1>4, <1>6, <1>8, <1>12, AtLeastIsTransitive
<1>16. ~taken => AtLeast(old, 1, eff)
  BY <1>2, <1>4, <1>8, <1>12, AtLeastIsTransitive
<1>17. AtLeast(m.best, 0, Efficiency(Finest(m)))
  BY <1>8, <1>10, <1>13, <1>14, <1>15
<1>18. AtLeast(Efficiency(m.blocks), 1, m.best)
  <2>1. CASE better
    BY <2>1, <1>10, <1>12, <1>13 DEF better
  <2>2. CASE taken /\ ~better
    BY <2>2, <1>10, <1>13 DEF taken
  <2>3. CASE ~taken
    BY <2>3, <1>8, <1>10, <1>13 DEF better
  <2> QED
    BY <2>1, <2>2, <2>3
<1>19. AtLeast(Efficiency(m.blocks), 1, Efficiency(m.prev))
  BY <1>10, <1>12, <1>13, <1>16
<1>20. m.size \in 1..m.n /\ m.blocks = divup(m.n, m.size)
  BY <1>2, <1>3, <1>10, <1>13
<1>21. m.prev \in 1..m.n /\ m.prev \in 1..(k.prev - 1)
  BY <1>2, <1>3, <1>10
<1>22. m.size <= Greater(BlockSizeFor(m.n, m.cost, 2), FirstSize(m.n, m.cost, m.align))
  BY <1>7, <1>8, <1>10, <1>13
<1>23. /\ m.n >= 1 /\ 2 * m.n <= IntLimit /\ m.n + NumThreads <= IntLimit
       /\ m.cost >= 1 /\ m.align >= 1
  BY <1>2, <1>10
<1>24. Divided(m)
  BY <1>17, <1>18, <1>19, <1>20, <1>21, <1>22, <1>23 DEF Divided
<1> QED
  BY <1>11, <1>21, <1>24 DEF m

-----------------------------------------------------------------------------
(* The callers: what a call is made of at every moment                     *)

CallsOK ==
  /\ call \in [Callers -> CallRecords]
  /\ pc \in [Callers -> {"start", "search", "wait", "returned"}]
  /\ \A c \in Callers :
       /\ call[c].n < IntLimit
       /\ pc[c] = "start" => call[c].n = 0
       /\ call[c].size <= call[c].n /\ call[c].blocks <= call[c].n
       /\ pc[c] \in {"search", "wait"} => Divided(call[c])

(* The call of a caller that has made none, or one that was run at once *)
LEMMA NoCallIsARecord ==
  NoCall \in CallRecords /\ \A n \in Nat : [NoCall EXCEPT !.n = n] \in CallRecords
BY DEF NoCall, CallRecords, Fractions

(* No call has been made at the start. *)
LEMMA CallsInit == Init => CallsOK
<1> SUFFICES ASSUME Init PROVE CallsOK
  OBVIOUS
<1>1. NoCall.n = 0 /\ NoCall.size = 0 /\ NoCall.blocks = 0
  BY DEF NoCall
<1>2. \A c \in Callers : call[c] = NoCall /\ pc[c] = "start"
  BY DEF Init
<1>3. 0 < IntLimit
  BY InputAssumption
<1>4. call \in [Callers -> CallRecords] /\ pc \in [Callers -> {"start", "search", "wait", "returned"}]
  BY NoCallIsARecord DEF Init
<1> QED
  BY <1>1, <1>2, <1>3, <1>4 DEF CallsOK

(* Every action but Start, Coarsen and Return moves no call. *)
LEMMA CallKept ==
  ASSUME CallsOK, NEW c \in Callers, NEW l \in {"start", "search", "wait", "returned"},
         call' = call, pc' = [pc EXCEPT ![c] = l],
         l = "wait" => pc[c] = "search", l # "search", l # "start"
  PROVE  CallsOK'
<1>1. pc' \in [Callers -> {"start", "search", "wait", "returned"}]
  BY DEF CallsOK
<1>2. \A d \in Callers : pc'[d] = IF d = c THEN l ELSE pc[d]
  BY DEF CallsOK
<1>3. \A d \in Callers : pc'[d] \in {"search", "wait"} => pc[d] \in {"search", "wait"}
  BY <1>2
<1>4. \A d \in Callers : pc'[d] = "start" => pc[d] = "start"
  BY <1>2
<1> QED
  BY <1>1, <1>3, <1>4 DEF CallsOK

(* What Start does: it runs the call at once, or it starts the search. *)
LEMMA StartIs ==
  ASSUME CallsOK, RoomForABlock, NEW c \in Callers, NEW a \in Calls, Start(c, a)
  PROVE  \E k \in CallRecords :
           /\ k.n = a.n
           /\ k.size <= k.n /\ k.blocks <= k.n
           /\ call' = [call EXCEPT ![c] = k]
           /\ \/ /\ pc' = [pc EXCEPT ![c] = "returned"]
                 /\ runs' = [runs EXCEPT ![c] = [i \in 0..(a.n - 1) |-> 1]]
              \/ /\ pc' = [pc EXCEPT ![c] = "search"] /\ Divided(k)
                 /\ runs' = [runs EXCEPT ![c] = [i \in 0..(a.n - 1) |-> 0]]
<1> DEFINE size == FirstSize(a.n, a.cost, a.align)
           blocks == divup(a.n, size)
           inline == a.n <= 1 \/ NumThreads = 1 \/ numThreads(a.n, a.cost) = 1
           k0 == [NoCall EXCEPT !.n = a.n]
           k1 == [n |-> a.n, cost |-> a.cost, align |-> a.align, size |-> size,
                  blocks |-> blocks, best |-> Efficiency(blocks), prev |-> blocks]
<1>1. /\ call' = [call EXCEPT ![c] = IF inline THEN k0 ELSE k1]
      /\ runs' = [runs EXCEPT ![c] = [i \in 0..(a.n - 1) |-> IF inline THEN 1 ELSE 0]]
      /\ pc' = [pc EXCEPT ![c] = IF inline THEN "returned" ELSE "search"]
  BY Zenon DEF Start, Go
<1>2. a.n \in Nat
  BY InputAssumption
<1>3. CASE inline
  <2>1. k0 \in CallRecords /\ k0.n = a.n /\ k0.size = 0 /\ k0.blocks = 0
    BY <1>2, NoCallIsARecord DEF NoCall
  <2>2. [i \in 0..(a.n - 1) |-> IF inline THEN 1 ELSE 0] = [i \in 0..(a.n - 1) |-> 1]
    BY <1>3, Zenon
  <2>3. /\ call' = [call EXCEPT ![c] = k0] /\ pc' = [pc EXCEPT ![c] = "returned"]
        /\ runs' = [runs EXCEPT ![c] = [i \in 0..(a.n - 1) |-> 1]]
    BY <1>1, <1>3, <2>2, Zenon
  <2> HIDE DEF k0, inline
  <2>4. k0.size <= k0.n /\ k0.blocks <= k0.n
    BY <1>2, <2>1
  <2> QED
    BY <2>1, <2>3, <2>4, Zenon
<1>4. CASE ~inline
  <2>1. a.n > 1 /\ numThreads(a.n, a.cost) # 1
    BY <1>2, <1>4
  <2>2. k1 \in CallRecords /\ Divided(k1)
    BY <2>1, StartDivides
  <2>3. k1.n = a.n /\ k1.size = size /\ k1.blocks = blocks
    OBVIOUS
  <2>4. [i \in 0..(a.n - 1) |-> IF inline THEN 1 ELSE 0] = [i \in 0..(a.n - 1) |-> 0]
    BY <1>4, Zenon
  <2>5. /\ call' = [call EXCEPT ![c] = k1] /\ pc' = [pc EXCEPT ![c] = "search"]
        /\ runs' = [runs EXCEPT ![c] = [i \in 0..(a.n - 1) |-> 0]]
    BY <1>1, <1>4, <2>4, Zenon
  <2> HIDE DEF k1, inline, size, blocks
  <2>6. k1.size <= k1.n /\ k1.blocks <= k1.n
    <3>1. k1.n \in Nat \ {0} /\ k1.size \in 1..k1.n /\ 2 * k1.n <= IntLimit
          /\ k1.n + NumThreads <= IntLimit /\ k1.blocks = divup(k1.n, k1.size)
      BY <2>2 DEF CallRecords, Divided
    <3>2. k1.blocks \in 1..k1.n
      BY <3>1, BlocksOfSize
    <3> QED
      BY <3>1, <3>2
  <2> QED
    BY <2>2, <2>3, <2>5, <2>6, Zenon
<1> QED
  BY <1>3, <1>4

(* What an iteration of the search does, *)
LEMMA CoarsenIs ==
  ASSUME NEW c \in Callers, Coarsen(c)
  PROVE  /\ pc[c] = "search" /\ SearchGoesOn(call[c])
         /\ call' = [call EXCEPT ![c] = Coarser(call[c])]
         /\ UNCHANGED <<pc, count, scheduled, stack, runs>>
BY Zenon DEF Coarsen, Coarser

(* which keeps the invariant of the calls, *)
LEMMA CoarsenKeepsCalls ==
  ASSUME CallsOK, NEW c \in Callers, Coarsen(c)
  PROVE  CallsOK' /\ call'[c].prev \in 1..(call[c].prev - 1) /\ call'[c].n = call[c].n
<1> DEFINE k == call[c]
           m == Coarser(k)
<1>1. /\ pc[c] = "search" /\ SearchGoesOn(k) /\ call' = [call EXCEPT ![c] = m] /\ pc' = pc
  BY CoarsenIs
<1>2. k \in CallRecords /\ Divided(k) /\ k.n < IntLimit
  BY <1>1 DEF CallsOK
<1>3. m \in CallRecords /\ Divided(m) /\ m.prev \in 1..(k.prev - 1)
  BY <1>1, <1>2, CoarserDivides
<1>4. m.n = k.n
  BY <1>2 DEF Coarser, CallRecords
<1> HIDE DEF m
<1>5. m.size <= m.n /\ m.blocks <= m.n
  <2>1. m.n \in Nat \ {0} /\ m.size \in 1..m.n /\ 2 * m.n <= IntLimit
        /\ m.n + NumThreads <= IntLimit /\ m.blocks = divup(m.n, m.size)
    BY <1>3 DEF CallRecords, Divided
  <2>2. m.blocks \in 1..m.n
    BY <2>1, BlocksOfSize
  <2> QED
    BY <2>1, <2>2
<1>6. call' \in [Callers -> CallRecords] /\ \A d \in Callers : call'[d] = IF d = c THEN m ELSE call[d]
  BY <1>1, <1>3 DEF CallsOK
<1>7. CallsOK'
  BY <1>1, <1>2, <1>3, <1>4, <1>5, <1>6 DEF CallsOK
<1> QED
  BY <1>3, <1>4, <1>6, <1>7

(* and so does Start, *)
LEMMA StartKeepsCalls ==
  ASSUME CallsOK, RoomForABlock, NEW c \in Callers, NEW a \in Calls, Start(c, a)
  PROVE  CallsOK'
<1>1. PICK k \in CallRecords :
           /\ k.n = a.n
           /\ k.size <= k.n /\ k.blocks <= k.n
           /\ call' = [call EXCEPT ![c] = k]
           /\ \/ pc' = [pc EXCEPT ![c] = "returned"]
              \/ pc' = [pc EXCEPT ![c] = "search"] /\ Divided(k)
  BY StartIs
<1>2. a.n < IntLimit
  BY InputAssumption
<1>3. call' \in [Callers -> CallRecords] /\ \A d \in Callers : call'[d] = IF d = c THEN k ELSE call[d]
  BY <1>1 DEF CallsOK
<1>4. /\ pc' \in [Callers -> {"start", "search", "wait", "returned"}]
      /\ \A d \in Callers : d # c => pc'[d] = pc[d]
      /\ pc'[c] # "start" /\ (pc'[c] \in {"search", "wait"} => Divided(k))
  BY <1>1 DEF CallsOK
<1> QED
  BY <1>1, <1>2, <1>3, <1>4 DEF CallsOK

(* and every step. *)
LEMMA CallsNext == RoomForABlock /\ CallsOK /\ [Next]_vars => CallsOK'
<1> SUFFICES ASSUME RoomForABlock, CallsOK, [Next]_vars PROVE CallsOK'
  OBVIOUS
<1>1. ASSUME NEW c \in Callers, NEW a \in Calls, Start(c, a) PROVE CallsOK'
  BY <1>1, StartKeepsCalls
<1>2. ASSUME NEW c \in Callers, Coarsen(c) PROVE CallsOK'
  BY <1>2, CoarsenKeepsCalls
<1>3. ASSUME NEW c \in Callers, HandleAll(c) PROVE CallsOK'
  BY <1>3, CallKept DEF HandleAll, HandleAllWith, Go
<1>4. ASSUME NEW c \in Callers, Return(c) PROVE CallsOK'
  BY <1>4, CallKept DEF Return, Go
<1>5. ASSUME UNCHANGED <<call, pc>> PROVE CallsOK'
  BY <1>5 DEF CallsOK
<1>6. ASSUME NEW t \in Threads, HandleRange(t) PROVE CallsOK'
  BY <1>6, <1>5 DEF HandleRange, RunBlock, NotifyBarrier, Split, ScheduleHalf
<1>7. ASSUME NEW t \in Workers, WorkerStep(t) PROVE CallsOK'
  BY <1>7, <1>5 DEF WorkerStep, Take
<1>8. CASE Terminated \/ UNCHANGED vars
  BY <1>8, <1>5 DEF Terminated, vars
<1> QED
  BY <1>1, <1>2, <1>3, <1>4, <1>6, <1>7, <1>8 DEF Next, CallerStep

(* The call of a caller that searches or waits is a division of [0, n) in  *)
(* blocks, as the search (device_thread_pool.h:171) keeps it.              *)
THEOREM CallsHold == ASSUME RoomForABlock PROVE Spec => []CallsOK
<1>1. CallsOK /\ [Next]_vars => CallsOK'
  BY CallsNext
<1> QED
  BY <1>1, CallsInit, PTL DEF Spec

(* DCHECK(coarser_block_count < prev_block_count),                         *)
(* device_thread_pool.h:182: each iteration of the search has fewer blocks *)
(* than the one before, so it ends.                                        *)
THEOREM SearchProgress == ASSUME RoomForABlock PROVE Spec => SearchMakesProgress
<1>1. ASSUME CallsOK, [Next]_vars
      PROVE  [\A c \in Callers :
       pc[c] = "search" /\ call'[c] # call[c] => call'[c].prev \in 1..(call[c].prev - 1)]_vars
  <2> SUFFICES ASSUME Next, NEW c \in Callers, pc[c] = "search", call'[c] # call[c]
               PROVE  call'[c].prev \in 1..(call[c].prev - 1)
    BY <1>1
  <2>1. ASSUME NEW d \in Callers, NEW a \in Calls, Start(d, a) PROVE FALSE
    <3>1. pc[d] = "start" /\ \E k : call' = [call EXCEPT ![d] = k]
      BY <2>1, Zenon DEF Start
    <3> QED
      BY <1>1, <3>1 DEF CallsOK
  <2>2. ASSUME NEW d \in Callers, Coarsen(d) PROVE d = c
    <3>1. \E k : call' = [call EXCEPT ![d] = k]
      BY <2>2, CoarsenIs
    <3> QED
      BY <1>1, <3>1 DEF CallsOK
  <2>3. \/ \E d \in Callers : (\E a \in Calls : Start(d, a)) \/ Coarsen(d)
        \/ call' = call
    BY DEF Next, CallerStep, HandleAll, HandleAllWith, Return, WorkerStep, Take, HandleRange,
           RunBlock, NotifyBarrier, Split, ScheduleHalf, Terminated, vars
  <2>4. Coarsen(c)
    BY <2>1, <2>2, <2>3
  <2> QED
    BY <1>1, <2>4, CoarsenKeepsCalls
<1> QED
  BY <1>1, CallsHold, PTL DEF Spec, SearchMakesProgress

(* The search (device_thread_pool.h:171) ends with a division that keeps   *)
(* the threads, within one percent, as busy as the finest one and as the   *)
(* one it tried last, for every total, cost, alignment and pool.           *)
THEOREM SearchIsGood == ASSUME RoomForABlock PROVE Spec => []SearchKeepsThreadsBusy
<1>1. ASSUME CallsOK PROVE SearchKeepsThreadsBusy
  <2> SUFFICES ASSUME NEW c \in Callers, pc[c] \in {"search", "wait"}
               PROVE  LET k == call[c] IN
                      /\ AtLeast(Efficiency(k.blocks), 1, Efficiency(Finest(k)))
                      /\ AtLeast(Efficiency(k.blocks), 1, Efficiency(k.prev))
                      /\ k.blocks = divup(k.n, k.size)
                      /\ k.size <= Greater(BlockSizeFor(k.n, k.cost, 2), FirstSize(k.n, k.cost, k.align))
    BY DEF SearchKeepsThreadsBusy, Finest
  <2> DEFINE k == call[c]
  <2>1. k \in CallRecords /\ Divided(k)
    BY <1>1 DEF CallsOK
  <2> HIDE DEF k
  <2>2. /\ k.n \in Nat \ {0} /\ k.cost \in Nat \ {0} /\ k.align \in Nat \ {0}
        /\ 2 * k.n <= IntLimit /\ k.n + NumThreads <= IntLimit
        /\ k.size \in 1..k.n /\ k.blocks = divup(k.n, k.size) /\ k.best \in Fractions
    BY <2>1 DEF CallRecords, Divided
  <2>3. Efficiency(k.blocks) \in Fractions
    BY <2>2, BlocksOfSize
  <2>4. Efficiency(Finest(k)) \in Fractions
    BY <2>2, FirstSizeIsThere, BlocksOfSize DEF Finest
  <2>5. AtLeast(Efficiency(k.blocks), 1, Efficiency(Finest(k)))
    BY <2>1, <2>2, <2>3, <2>4, AtLeastIsTransitive DEF Divided
  <2> QED
    BY <2>1, <2>5 DEF Divided, k
<1> QED
  BY <1>1, CallsHold, PTL

-----------------------------------------------------------------------------
(* Sequences, by their elements *)

Items(s) == {s[i] : i \in 1..Len(s)}
Distinct(s) == \A i, j \in 1..Len(s) : s[i] = s[j] => i = j

(* A sequence without items is the empty one. *)
LEMMA ItemsOfSeq ==
  ASSUME NEW S, NEW s \in Seq(S)
  PROVE  /\ Len(s) \in Nat /\ Items(s) \subseteq S
         /\ s = <<>> <=> Items(s) = {}
         /\ s = <<>> <=> Len(s) = 0
<1>1. Len(s) \in Nat /\ \A i \in 1..Len(s) : s[i] \in S
  BY LenProperties, ElementOfSeq
<1>2. s = <<>> <=> Len(s) = 0
  BY EmptySeq
<1>3. Len(s) = 0 <=> Items(s) = {}
  <2>1. CASE Len(s) = 0
    BY <2>1 DEF Items
  <2>2. CASE Len(s) # 0
    <3>1. s[1] \in Items(s)
      BY <2>2, <1>1 DEF Items
    <3> QED
      BY <3>1, <2>2
  <2> QED
    BY <2>1, <2>2
<1> QED
  BY <1>1, <1>2, <1>3 DEF Items

(* The empty sequence *)
LEMMA EmptySequence == Items(<<>>) = {} /\ Distinct(<<>>) /\ Len(<<>>) = 0
  BY DEF Items, Distinct

(* One more item in front, *)
LEMMA PushedInFront ==
  ASSUME NEW S, NEW s \in Seq(S), NEW x \in S
  PROVE  /\ <<x>> \o s \in Seq(S) /\ Len(<<x>> \o s) = Len(s) + 1
         /\ (<<x>> \o s)[1] = x
         /\ \A i \in 1..Len(s) : (<<x>> \o s)[i + 1] = s[i]
         /\ Items(<<x>> \o s) = {x} \cup Items(s)
         /\ x \notin Items(s) /\ Distinct(s) => Distinct(<<x>> \o s)
<1> DEFINE t == <<x>> \o s
<1>1. <<x>> \in Seq(S) /\ Len(<<x>>) = 1 /\ <<x>>[1] = x /\ Len(s) \in Nat
  OBVIOUS
<1>2. /\ t \in Seq(S) /\ Len(t) = Len(s) + 1
      /\ \A i \in 1..(Len(s) + 1) : t[i] = IF i <= 1 THEN <<x>>[i] ELSE s[i - 1]
  BY <1>1, ConcatProperties
<1>3. t[1] = x /\ \A i \in 1..Len(s) : t[i + 1] = s[i]
  BY <1>1, <1>2
<1> HIDE DEF t
<1>4. Items(t) = {x} \cup Items(s)
  <2>1. \A i \in 1..Len(t) : i = 1 \/ i - 1 \in 1..Len(s)
    BY <1>1, <1>2
  <2>2. \A i \in 1..Len(t) : t[i] = x \/ \E j \in 1..Len(s) : t[i] = s[j]
    BY <1>1, <1>2, <1>3, <2>1
  <2>3. 1 \in 1..Len(t) /\ \A j \in 1..Len(s) : j + 1 \in 1..Len(t)
    BY <1>1, <1>2
  <2> QED
    BY <1>3, <2>2, <2>3, SMTT(30) DEF Items
<1>5. ASSUME x \notin Items(s), Distinct(s) PROVE Distinct(t)
  <2>1. \A j \in 1..Len(s) : s[j] # x
    BY <1>5 DEF Items
  <2>2. \A i \in 1..Len(t) : i = 1 \/ (i - 1 \in 1..Len(s) /\ t[i] = s[i - 1])
    BY <1>1, <1>2
  <2>3. \A i \in 1..Len(t), j \in 1..Len(t) : i # 1 /\ j # 1 /\ t[i] = t[j] => i = j
    BY <1>1, <1>2, <1>5, <2>2 DEF Distinct
  <2> QED
    BY <1>3, <2>1, <2>2, <2>3 DEF Distinct
<1> QED
  BY <1>2, <1>3, <1>4, <1>5 DEF t

(* and one less in front *)
LEMMA PoppedInFront ==
  ASSUME NEW S, NEW s \in Seq(S), s # <<>>, Distinct(s)
  PROVE  /\ Head(s) \in Items(s) /\ Head(s) \in S /\ Head(s) = s[1]
         /\ Tail(s) \in Seq(S) /\ Len(Tail(s)) = Len(s) - 1 /\ Distinct(Tail(s))
         /\ Items(Tail(s)) = Items(s) \ {Head(s)}
         /\ \A i \in 1..Len(Tail(s)) : Tail(s)[i] = s[i + 1]
<1> DEFINE t == Tail(s)
           x == Head(s)
<1>1. /\ Len(s) \in Nat \ {0} /\ t \in Seq(S) /\ Len(t) = Len(s) - 1
      /\ \A i \in 1..Len(t) : t[i] = s[i + 1]
  BY EmptySeq, HeadTailProperties
<1>2. x = s[1]
  OBVIOUS
<1> HIDE DEF t, x
<1>3. x \in Items(s) /\ x \in S
  BY <1>1, <1>2, ElementOfSeq DEF Items
<1>4. Distinct(t)
  BY <1>1 DEF Distinct
<1>5. Items(t) = Items(s) \ {x}
  <2>1. \A i \in 1..Len(t) : i + 1 \in 1..Len(s) /\ t[i] # x
    BY <1>1, <1>2 DEF Distinct
  <2>2. \A i \in 1..Len(s) : s[i] # x => i - 1 \in 1..Len(t) /\ t[i - 1] = s[i]
    BY <1>1, <1>2
  <2> QED
    BY <1>1, <2>1, <2>2 DEF Items
<1> QED
  BY <1>1, <1>2, <1>3, <1>4, <1>5 DEF t, x

-----------------------------------------------------------------------------
(* The ranges: who holds them, and what they hold                          *)

RangeRecords == [of : Callers, first : Nat, last : Nat, at : {"enter", "right", "left", "notify"}]

(* The ranges in the queues and on the stacks *)
Handled == scheduled \cup UNION {Frames(t) : t \in Threads}

(* Every range is in one place: in a queue, or once on one stack. *)
Placed ==
  /\ scheduled \subseteq RangeRecords
  /\ stack \in [Threads -> Seq(RangeRecords)]
  /\ \A t \in Threads : Distinct(stack[t]) /\ Frames(t) \cap scheduled = {}
  /\ \A t, u \in Threads : t # u => Frames(t) \cap Frames(u) = {}
  /\ \A c \in Callers : pc[c] = "search" => stack[c] = <<>>

(* A range is a part of the call it is of, cut at the grid of its blocks. *)
RangeOK(r) ==
  LET k == call[r.of] IN
  /\ pc[r.of] = "wait"
  /\ r.first < r.last /\ r.last <= k.n
  /\ r.first % k.size = 0
  /\ r.last % k.size = 0 \/ r.last = k.n
  /\ r.at = "notify" => IsBlock(r)
  /\ r.at \in {"right", "left"} => ~IsBlock(r)

RangesOK == \A r \in Handled : RangeOK(r)

(* No two ranges hold an index of one call. *)
Overlap(r, s) == r.of = s.of /\ \E i \in Nat : Holds(r, i) /\ Holds(s, i)
PartsApart == \A r, s \in Handled : Overlap(r, s) => r = s

(* The indices of c that some range holds, those for which f is still to   *)
(* be called, and the starts of blocks among them                          *)
Held(c, i) == \E r \in Handled : r.of = c /\ Holds(r, i)
Pending(c, i) == \E r \in Handled : r.of = c /\ r.at # "notify" /\ Holds(r, i)
Starts(c) == {i \in 0..(call[c].n - 1) : i % call[c].size = 0 /\ Held(c, i)}

(* The barrier counts the blocks that are still to come. *)
CountsOK ==
  /\ count \in [Callers -> Nat]
  /\ \A c \in Callers : pc[c] = "wait" => count[c] = Cardinality(Starts(c))

(* f was called once for each index that no range holds. *)
RunsOK ==
  /\ DOMAIN runs = Callers
  /\ \A c \in Callers :
       /\ DOMAIN runs[c] = 0..(call[c].n - 1)
       /\ \A i \in 0..(call[c].n - 1) :
            /\ pc[c] = "search" => runs[c][i] = 0
            /\ pc[c] = "wait" => runs[c][i] = IF Pending(c, i) THEN 0 ELSE 1
            /\ pc[c] = "returned" => runs[c][i] = 1

(* The inductive invariant *)
Inv == CallsOK /\ Placed /\ RangesOK /\ PartsApart /\ CountsOK /\ RunsOK

(* The frames of a stack are its items. *)
LEMMA FramesAreItems ==
  /\ \A t : Frames(t) = Items(stack[t])
  /\ \A t : Frames(t)' = Items(stack'[t])
BY DEF Frames, Items

(* Ranges are ranges. *)
LEMMA HandledAre ==
  ASSUME Placed
  PROVE  /\ Handled \subseteq RangeRecords
         /\ \A r \in Handled : r.of \in Callers /\ r.first \in Nat /\ r.last \in Nat
<1>1. \A t \in Threads : Frames(t) \subseteq RangeRecords
  <2> SUFFICES ASSUME NEW t \in Threads PROVE Items(stack[t]) \subseteq RangeRecords
    BY FramesAreItems
  <2>1. stack[t] \in Seq(RangeRecords)
    BY DEF Placed
  <2> QED
    BY <2>1, ItemsOfSeq
<1>2. Handled \subseteq RangeRecords
  BY <1>1 DEF Placed, Handled
<1> QED
  BY <1>2 DEF RangeRecords

(* A thread's step rearranges its own stack and adds to the queues. *)
Rearranges(t, f, s, new, queued) ==
  /\ stack[t] # <<>> /\ f = Frame(t)
  /\ stack' = [stack EXCEPT ![t] = s]
  /\ s \in Seq(RangeRecords) /\ Distinct(s)
  /\ Items(s) = (Items(stack[t]) \ {f}) \cup new
  /\ scheduled' = scheduled \cup queued

(* Then the ranges handled change by just that. *)
LEMMA Rearranged ==
  ASSUME Placed, NEW t \in Threads, NEW f, NEW s, NEW new, NEW queued,
         Rearranges(t, f, s, new, queued),
         new \subseteq RangeRecords, queued \subseteq RangeRecords, new \cap queued = {},
         \A g \in new \cup queued : g \notin Handled \ {f},
         f \notin queued, pc' = pc
  PROVE  /\ Placed' /\ f \in Handled
         /\ Handled' = (Handled \ {f}) \cup new \cup queued
<1>1. stack[t] \in Seq(RangeRecords) /\ Distinct(stack[t]) /\ stack[t] # <<>>
  BY DEF Placed, Rearranges
<1>2. f \in Items(stack[t])
  BY <1>1, PoppedInFront DEF Rearranges, Frame
<1>3. \A u \in Threads : Frames(u) = Items(stack[u]) /\ Frames(u)' = Items(stack'[u])
  BY FramesAreItems
<1>4. \A u \in Threads : stack'[u] = IF u = t THEN s ELSE stack[u]
  BY DEF Rearranges, Placed
<1>5. /\ Frames(t)' = (Frames(t) \ {f}) \cup new
      /\ \A u \in Threads : u # t => Frames(u)' = Frames(u)
  BY <1>3, <1>4 DEF Rearranges
<1>6. f \in Frames(t) /\ f \notin scheduled /\ \A u \in Threads : u # t => f \notin Frames(u)
  BY <1>2, <1>3 DEF Placed
<1>7. f \in Handled /\ \A u \in Threads : Frames(u) \subseteq Handled
  BY <1>6 DEF Handled
<1>8. Handled' = scheduled' \cup UNION {Frames(u)' : u \in Threads}
  BY DEF Handled
<1>9. scheduled' = scheduled \cup queued
  BY DEF Rearranges
<1>10. Handled' = (Handled \ {f}) \cup new \cup queued
  <2>1. ASSUME NEW g \in Handled' PROVE g \in (Handled \ {f}) \cup new \cup queued
    <3>1. CASE g \in scheduled'
      BY <3>1, <1>6, <1>9 DEF Handled
    <3>2. ASSUME NEW u \in Threads, g \in Frames(u)' PROVE g \in (Handled \ {f}) \cup new
      BY <3>2, <1>5, <1>6, <1>7
    <3> QED
      BY <3>1, <3>2, <1>8
  <2>2. ASSUME NEW g \in (Handled \ {f}) \cup new \cup queued PROVE g \in Handled'
    <3>1. CASE g \in new
      BY <3>1, <1>5, <1>8
    <3>2. CASE g \in queued \/ g \in scheduled
      BY <3>2, <1>8, <1>9
    <3>3. ASSUME NEW u \in Threads, g \in Frames(u), g # f PROVE g \in Frames(u)'
      BY <3>3, <1>5
    <3> QED
      BY <3>1, <3>2, <3>3, <1>8 DEF Handled
  <2> QED
    BY <2>1, <2>2
<1>11. \A g \in new \cup queued : g \notin scheduled /\ \A u \in Threads : u # t => g \notin Frames(u)
  <2> SUFFICES ASSUME NEW g \in new \cup queued
               PROVE  g \notin scheduled /\ \A u \in Threads : u # t => g \notin Frames(u)
    OBVIOUS
  <2>1. CASE g = f
    BY <2>1, <1>6
  <2>2. CASE g \notin Handled
    BY <2>2, <1>7 DEF Handled
  <2> QED
    BY <2>1, <2>2
<1>12. \A g \in queued : g \notin Frames(t)
  <2> SUFFICES ASSUME NEW g \in queued PROVE g \notin Frames(t)
    OBVIOUS
  <2>1. g # f
    OBVIOUS
  <2> QED
    BY <2>1, <1>7
<1>13. scheduled' \subseteq RangeRecords /\ stack' \in [Threads -> Seq(RangeRecords)]
  BY <1>9 DEF Placed, Rearranges
<1>14. \A u \in Threads : Distinct(stack'[u])
  BY <1>4 DEF Placed, Rearranges
<1>15. \A u \in Threads : Frames(u)' \cap scheduled' = {}
  <2> SUFFICES ASSUME NEW u \in Threads PROVE Frames(u)' \cap scheduled' = {}
    OBVIOUS
  <2>1. Frames(u) \cap scheduled = {}
    BY DEF Placed
  <2>2. CASE u = t
    BY <2>1, <2>2, <1>5, <1>9, <1>11, <1>12
  <2>3. CASE u # t
    BY <2>1, <2>3, <1>5, <1>9, <1>11
  <2> QED
    BY <2>2, <2>3
<1>16. \A u, v \in Threads : u # v => Frames(u)' \cap Frames(v)' = {}
  <2> SUFFICES ASSUME NEW u \in Threads, NEW v \in Threads, u # v
               PROVE  Frames(u)' \cap Frames(v)' = {}
    OBVIOUS
  <2>1. Frames(u) \cap Frames(v) = {}
    BY DEF Placed
  <2>2. CASE u = t
    BY <2>1, <2>2, <1>5, <1>11
  <2>3. CASE v = t
    BY <2>1, <2>3, <1>5, <1>11
  <2>4. CASE u # t /\ v # t
    BY <2>1, <2>4, <1>5
  <2> QED
    BY <2>2, <2>3, <2>4
<1>17. \A c \in Callers : pc'[c] = "search" => stack'[c] = <<>>
  <2>1. \A c \in Callers : c \in Threads
    BY DEF Threads
  <2> QED
    BY <1>1, <1>4, <2>1 DEF Placed
<1>18. Placed'
  BY <1>13, <1>14, <1>15, <1>16, <1>17 DEF Placed
<1> QED
  BY <1>7, <1>10, <1>18

(* What a range of a call in progress is *)
LEMMA RangeFacts ==
  ASSUME CallsOK, Placed, RangesOK, NEW f \in Handled
  PROVE  /\ f \in RangeRecords /\ f.of \in Callers /\ f.first \in Nat /\ f.last \in Nat
         /\ pc[f.of] = "wait" /\ RangeOK(f)
         /\ call[f.of].n \in Nat \ {0} /\ call[f.of].size \in Nat \ {0}
         /\ call[f.of].size <= call[f.of].n
         /\ 2 * call[f.of].n <= IntLimit /\ call[f.of].n + NumThreads <= IntLimit
         /\ call[f.of].blocks = divup(call[f.of].n, call[f.of].size)
         /\ f.first < f.last /\ f.last <= call[f.of].n
<1>1. f \in RangeRecords /\ f.of \in Callers /\ f.first \in Nat /\ f.last \in Nat
  BY HandledAre
<1>2. RangeOK(f) /\ pc[f.of] = "wait"
  BY DEF RangesOK, RangeOK
<1>3. call[f.of] \in CallRecords /\ Divided(call[f.of])
  BY <1>1, <1>2 DEF CallsOK
<1> QED
  BY <1>1, <1>2, <1>3 DEF RangeOK, Divided, CallRecords

(* and where it is cut *)
LEMMA MidIsInside ==
  ASSUME CallsOK, Placed, RangesOK, NEW f \in Handled, ~IsBlock(f)
  PROVE  LET mid == Mid(f.first, f.last, call[f.of].size) IN
         mid \in Nat /\ f.first < mid /\ mid < f.last /\ mid % call[f.of].size = 0
<1> DEFINE size == call[f.of].size
           mid == Mid(f.first, f.last, size)
<1>1. /\ f.first \in Nat /\ f.last \in Nat /\ size \in Nat \ {0}
      /\ 2 * f.last <= IntLimit /\ f.first % size = 0
  <2>1. IntLimit \in Nat
    BY InputAssumption
  <2> QED
    BY <2>1, RangeFacts DEF RangeOK
<1>2. f.last - f.first > size
  BY <1>1 DEF IsBlock
<1> HIDE DEF size
<1>3. /\ mid \in Nat /\ f.first < mid /\ mid < f.last
      /\ \E q \in Nat : mid = f.first + q * size
  BY <1>1, <1>2, MidCuts
<1>4. mid % size = 0
  <2>1. PICK q \in Nat : mid = f.first + q * size
    BY <1>3
  <2>2. (f.first + q * size) % size = 0
    BY <1>1, OnTheGrid
  <2> QED
    BY <2>1, <2>2
<1> QED
  BY <1>3, <1>4 DEF size, mid

(* It ends after its first index. *)
LEMMA EndOfRange ==
  ASSUME CallsOK, Placed, RangesOK, NEW f \in Handled
  PROVE  End(f) \in Nat /\ f.first < End(f) /\ End(f) <= f.last /\ Holds(f, f.first)
<1>1. f.first \in Nat /\ f.last \in Nat /\ f.first < f.last
  BY RangeFacts
<1>2. CASE f.at = "left"
  <2>1. ~IsBlock(f)
    BY <1>2, RangeFacts DEF RangeOK
  <2>2. /\ End(f) = Mid(f.first, f.last, call[f.of].size)
    BY <1>2 DEF End
  <2>3. End(f) \in Nat /\ f.first < End(f) /\ End(f) < f.last
    BY <2>1, <2>2, MidIsInside
  <2> QED
    BY <1>1, <2>3 DEF Holds
<1>3. CASE f.at # "left"
  BY <1>1, <1>3 DEF End, Holds
<1> QED
  BY <1>2, <1>3

(* The parts that a step puts in the place of f *)
Parts(f, new) ==
  /\ new \subseteq RangeRecords
  /\ \A g \in new : /\ g.of = f.of /\ RangeOK(g)
                    /\ \A i \in Nat : Holds(g, i) => Holds(f, i)
  /\ \A g, h \in new : Overlap(g, h) => g = h

(* Ranges stay apart when one is replaced by parts of it. *)
LEMMA PartsKeep ==
  ASSUME Placed, RangesOK, PartsApart, NEW f \in Handled, NEW new, Parts(f, new),
         Handled' = (Handled \ {f}) \cup new, UNCHANGED <<call, pc>>
  PROVE  RangesOK' /\ PartsApart'
<1>1. /\ \A r : RangeOK(r)' <=> RangeOK(r)
      /\ \A r, i : Holds(r, i)' <=> Holds(r, i)
  BY DEF RangeOK, IsBlock, Holds, End
<1>2. RangesOK'
  BY <1>1 DEF RangesOK, Parts
<1>3. \A r, s : Overlap(r, s)' <=> Overlap(r, s)
  BY <1>1 DEF Overlap
<1>4. ASSUME NEW g \in new, NEW s \in Handled \ {f} PROVE ~Overlap(g, s) /\ ~Overlap(s, g)
  <2> SUFFICES ASSUME Overlap(g, s) \/ Overlap(s, g) PROVE FALSE
    OBVIOUS
  <2>1. g.of = s.of /\ \E i \in Nat : Holds(g, i) /\ Holds(s, i)
    BY DEF Overlap
  <2>2. Overlap(f, s)
    BY <2>1 DEF Overlap, Parts
  <2> QED
    BY <2>2 DEF PartsApart
<1>5. \A r, s \in Handled' : Overlap(r, s) => r = s
  <2> SUFFICES ASSUME NEW r \in Handled', NEW s \in Handled', Overlap(r, s) PROVE r = s
    OBVIOUS
  <2>1. CASE r \in new /\ s \in new
    BY <2>1 DEF Parts
  <2>2. CASE r \in new /\ s \in Handled \ {f}
    BY <2>2, <1>4
  <2>3. CASE r \in Handled \ {f} /\ s \in new
    BY <2>3, <1>4
  <2>4. CASE r \in Handled \ {f} /\ s \in Handled \ {f}
    BY <2>4 DEF PartsApart
  <2> QED
    BY <2>1, <2>2, <2>3, <2>4
<1> QED
  BY <1>2, <1>3, <1>5 DEF PartsApart

(* The parts make up f. *)
Covered(f, new) == \A i \in Nat : Holds(f, i) => \E g \in new : Holds(g, i)

(* So if the parts make up f, every index is held as before. *)
LEMMA HeldAsBefore ==
  ASSUME NEW f \in Handled, NEW new, Parts(f, new), Covered(f, new),
         Handled' = (Handled \ {f}) \cup new, UNCHANGED <<call, pc>>
  PROVE  \A c, i : i \in Nat => (Held(c, i)' <=> Held(c, i))
<1>1. \A r, i : Holds(r, i)' <=> Holds(r, i)
  BY DEF Holds, End
<1> SUFFICES ASSUME NEW c, NEW i, i \in Nat
             PROVE  (\E r \in Handled' : r.of = c /\ Holds(r, i)) <=> Held(c, i)
  BY <1>1 DEF Held
<1>2. ASSUME NEW r \in Handled', r.of = c, Holds(r, i) PROVE Held(c, i)
  <2>1. CASE r \in new
    BY <2>1, <1>2 DEF Held, Parts
  <2>2. CASE r \in Handled
    BY <2>2, <1>2 DEF Held
  <2> QED
    BY <2>1, <2>2
<1>3. ASSUME NEW r \in Handled, r.of = c, Holds(r, i)
      PROVE  \E s \in Handled' : s.of = c /\ Holds(s, i)
  <2>1. CASE r = f
    <3>1. PICK g \in new : Holds(g, i)
      BY <2>1, <1>3 DEF Covered
    <3> QED
      BY <3>1, <2>1, <1>3 DEF Parts
  <2>2. CASE r # f
    BY <2>2, <1>3
  <2> QED
    BY <2>1, <2>2
<1> QED
  BY <1>2, <1>3 DEF Held

(* So are the indices for which f is still to be called, if nothing is     *)
(* called.                                                                 *)
LEMMA PendingAsBefore ==
  ASSUME NEW f \in Handled, NEW new, Parts(f, new), Covered(f, new),
         Handled' = (Handled \ {f}) \cup new, UNCHANGED <<call, pc>>,
         f.at # "notify", \A g \in new : g.at # "notify"
  PROVE  \A c, i : i \in Nat => (Pending(c, i)' <=> Pending(c, i))
<1>1. \A r, i : Holds(r, i)' <=> Holds(r, i)
  BY DEF Holds, End
<1> SUFFICES ASSUME NEW c, NEW i, i \in Nat
             PROVE  (\E r \in Handled' : r.of = c /\ r.at # "notify" /\ Holds(r, i)) <=> Pending(c, i)
  BY <1>1 DEF Pending
<1>2. ASSUME NEW r \in Handled', r.of = c, r.at # "notify", Holds(r, i) PROVE Pending(c, i)
  <2>1. CASE r \in new
    BY <2>1, <1>2 DEF Pending, Parts
  <2>2. CASE r \in Handled
    BY <2>2, <1>2 DEF Pending
  <2> QED
    BY <2>1, <2>2
<1>3. ASSUME NEW r \in Handled, r.of = c, r.at # "notify", Holds(r, i)
      PROVE  \E s \in Handled' : s.of = c /\ s.at # "notify" /\ Holds(s, i)
  <2>1. CASE r = f
    <3>1. PICK g \in new : Holds(g, i)
      BY <2>1, <1>3 DEF Covered
    <3> QED
      BY <3>1, <2>1, <1>3 DEF Parts
  <2>2. CASE r # f
    BY <2>2, <1>3
  <2> QED
    BY <2>1, <2>2
<1> QED
  BY <1>2, <1>3 DEF Pending

-----------------------------------------------------------------------------
(* handleRange, one lemma per step: what it puts in the place of its range *)

(* A part is held by no other range. *)
LEMMA PartsAreNew ==
  ASSUME CallsOK, Placed, RangesOK, PartsApart, NEW f \in Handled, NEW new, Parts(f, new),
         NEW g \in new
  PROVE  g \notin Handled \ {f}
<1> SUFFICES ASSUME g \in Handled PROVE g = f
  OBVIOUS
<1>1. g.first \in Nat /\ Holds(g, g.first)
  BY EndOfRange, HandledAre
<1>2. Holds(f, g.first) /\ g.of = f.of
  BY <1>1 DEF Parts
<1> QED
  BY <1>1, <1>2 DEF PartsApart, Overlap

(* The bookkeeping, when a step replaces its range by parts of it *)
LEMMA PartsAreHandled ==
  ASSUME CallsOK, Placed, RangesOK, PartsApart,
         NEW t \in Threads, NEW f, NEW s, NEW kept, NEW queued,
         Rearranges(t, f, s, kept, queued), UNCHANGED <<call, pc>>,
         kept \cap queued = {}, f \notin queued, Parts(f, kept \cup queued)
  PROVE  /\ f \in Handled /\ Handled' = (Handled \ {f}) \cup (kept \cup queued)
         /\ Placed' /\ RangesOK' /\ PartsApart'
<1> DEFINE new == kept \cup queued
<1>1. stack[t] \in Seq(RangeRecords) /\ Distinct(stack[t]) /\ stack[t] # <<>> /\ f = Head(stack[t])
  BY DEF Placed, Rearranges, Frame
<1>2. f \in Frames(t)
  BY <1>1, PoppedInFront, FramesAreItems
<1>3. f \in Handled
  BY <1>2 DEF Handled
<1>4. new \subseteq RangeRecords /\ \A g \in new : g.of = f.of
  BY DEF Parts
<1>5. ASSUME NEW g \in new PROVE g \notin Handled \ {f}
  BY <1>3, <1>5, PartsAreNew
<1>6. /\ Placed' /\ Handled' = (Handled \ {f}) \cup kept \cup queued
  BY <1>4, <1>5, Rearranged
<1>7. Handled' = (Handled \ {f}) \cup new
  BY <1>6
<1>8. RangesOK' /\ PartsApart'
  BY <1>3, <1>7, PartsKeep
<1> QED
  BY <1>3, <1>6, <1>7, <1>8

(* What a stack becomes *)
LEMMA StackMoves ==
  ASSUME Placed, NEW t \in Threads, stack[t] # <<>>
  PROVE  LET f == Frame(t)
             r == Tail(stack[t])
             I == Items(stack[t]) \ {f}
         IN /\ f \in Handled
            /\ r \in Seq(RangeRecords) /\ Distinct(r) /\ Items(r) = I
            /\ \A g \in RangeRecords : g \notin Handled \ {f} =>
                 /\ <<g>> \o r \in Seq(RangeRecords) /\ Distinct(<<g>> \o r)
                 /\ Items(<<g>> \o r) = I \cup {g}
            /\ \A g, h \in RangeRecords :
                 g \notin Handled \ {f} /\ h \notin Handled \ {f} /\ g # h =>
                 /\ <<h>> \o (<<g>> \o r) \in Seq(RangeRecords)
                 /\ Distinct(<<h>> \o (<<g>> \o r))
                 /\ Items(<<h>> \o (<<g>> \o r)) = I \cup {g, h}
<1> DEFINE f == Frame(t)
           r == Tail(stack[t])
           I == Items(stack[t]) \ {f}
<1>1. stack[t] \in Seq(RangeRecords) /\ Distinct(stack[t]) /\ f = Head(stack[t])
  BY DEF Placed, Frame
<1>2. /\ f \in Items(stack[t])
      /\ r \in Seq(RangeRecords) /\ Distinct(r) /\ Items(r) = I
  BY <1>1, PoppedInFront
<1>3. Items(stack[t]) \subseteq Handled
  BY FramesAreItems DEF Handled
<1>4. f \in Handled /\ I \subseteq Handled \ {f}
  BY <1>2, <1>3
<1> HIDE DEF f, r, I
<1>5. ASSUME NEW g \in RangeRecords, g \notin Handled \ {f}
      PROVE  /\ <<g>> \o r \in Seq(RangeRecords) /\ Distinct(<<g>> \o r)
             /\ Items(<<g>> \o r) = I \cup {g}
  <2>1. g \notin Items(r)
    BY <1>2, <1>4, <1>5
  <2>2. /\ <<g>> \o r \in Seq(RangeRecords) /\ Items(<<g>> \o r) = {g} \cup Items(r)
        /\ Distinct(<<g>> \o r)
    BY <1>2, <2>1, PushedInFront
  <2> QED
    BY <1>2, <2>2
<1>6. ASSUME NEW g \in RangeRecords, NEW h \in RangeRecords,
             g \notin Handled \ {f}, h \notin Handled \ {f}, g # h
      PROVE  /\ <<h>> \o (<<g>> \o r) \in Seq(RangeRecords)
             /\ Distinct(<<h>> \o (<<g>> \o r))
             /\ Items(<<h>> \o (<<g>> \o r)) = I \cup {g, h}
  <2> DEFINE s == <<g>> \o r
  <2>1. s \in Seq(RangeRecords) /\ Distinct(s) /\ Items(s) = I \cup {g}
    BY <1>5, <1>6
  <2> HIDE DEF s
  <2>2. h \notin Items(s)
    BY <2>1, <1>4, <1>6
  <2>3. /\ <<h>> \o s \in Seq(RangeRecords) /\ Items(<<h>> \o s) = {h} \cup Items(s)
        /\ Distinct(<<h>> \o s)
    BY <2>1, <2>2, PushedInFront
  <2>4. Items(<<h>> \o s) = I \cup {g, h}
    BY <2>1, <2>3
  <2> QED
    BY <2>3, <2>4 DEF s
<1> QED
  BY <1>2, <1>4, <1>5, <1>6 DEF f, r, I

(* The range of a block that was run, and one about to be split, hold what *)
(* they held before.                                                       *)
LEMMA RelabelIsPart ==
  ASSUME CallsOK, Placed, RangesOK, NEW f \in Handled, f.at = "enter",
         NEW label \in {"right", "notify"}, label = "notify" <=> IsBlock(f)
  PROVE  LET g == [f EXCEPT !.at = label] IN
         Parts(f, {g}) /\ Covered(f, {g}) /\ g.at = label
<1> DEFINE g == [f EXCEPT !.at = label]
<1>1. f \in RangeRecords /\ RangeOK(f)
  BY RangeFacts
<1>2. g \in RangeRecords /\ g.of = f.of /\ g.first = f.first /\ g.last = f.last /\ g.at = label
  BY <1>1 DEF RangeRecords
<1> HIDE DEF g
<1>3. End(g) = f.last /\ End(f) = f.last
  BY <1>2 DEF End
<1>4. \A i : Holds(g, i) <=> Holds(f, i)
  BY <1>2, <1>3 DEF Holds
<1>5. IsBlock(g) <=> IsBlock(f)
  BY <1>2 DEF IsBlock
<1>6. RangeOK(g)
  BY <1>1, <1>2, <1>5 DEF RangeOK
<1>7. Parts(f, {g}) /\ Covered(f, {g})
  BY <1>2, <1>4, <1>6 DEF Parts, Covered
<1> QED
  BY <1>2, <1>7 DEF g

(* The right half and what is left make up the range, *)
LEMMA RightIsPart ==
  ASSUME CallsOK, Placed, RangesOK, NEW f \in Handled, f.at = "right"
  PROVE  LET g == [f EXCEPT !.at = "left"]
             h == Half(f, "right")
         IN  Parts(f, {g, h}) /\ Covered(f, {g, h}) /\ g # h /\ g.at = "left" /\ h.at = "enter"
<1> DEFINE g == [f EXCEPT !.at = "left"]
           h == Half(f, "right")
           size == call[f.of].size
           mid == Mid(f.first, f.last, size)
<1>1. /\ f \in RangeRecords /\ RangeOK(f) /\ ~IsBlock(f)
      /\ f.first \in Nat /\ f.last \in Nat
  BY RangeFacts DEF RangeOK
<1>2. mid \in Nat /\ f.first < mid /\ mid < f.last /\ mid % size = 0
  BY <1>1, MidIsInside
<1>3. h = [f EXCEPT !.first = mid, !.at = "enter"]
  BY DEF Half
<1> HIDE DEF mid, h
<1>4. g \in RangeRecords /\ g.of = f.of /\ g.first = f.first /\ g.last = f.last /\ g.at = "left"
  BY <1>1 DEF RangeRecords
<1>5. h \in RangeRecords /\ h.of = f.of /\ h.first = mid /\ h.last = f.last /\ h.at = "enter"
  BY <1>1, <1>2, <1>3 DEF RangeRecords
<1> HIDE DEF g
<1>6. End(g) = mid /\ End(h) = f.last /\ End(f) = f.last
  BY <1>4, <1>5 DEF End, mid
<1>7. /\ \A i : Holds(g, i) <=> f.first <= i /\ i < mid
      /\ \A i : Holds(h, i) <=> mid <= i /\ i < f.last
      /\ \A i : Holds(f, i) <=> f.first <= i /\ i < f.last
  BY <1>4, <1>5, <1>6 DEF Holds
<1>8. ~IsBlock(g)
  BY <1>1, <1>4 DEF IsBlock
<1>9. RangeOK(g)
  BY <1>1, <1>4, <1>8 DEF RangeOK
<1>10. RangeOK(h)
  BY <1>1, <1>2, <1>5 DEF RangeOK
<1>11. ~Overlap(g, h) /\ ~Overlap(h, g)
  BY <1>1, <1>2, <1>7 DEF Overlap
<1>12. \A i \in Nat : /\ Holds(g, i) => Holds(f, i)
                      /\ Holds(h, i) => Holds(f, i)
                      /\ Holds(f, i) => Holds(g, i) \/ Holds(h, i)
  BY <1>1, <1>2, <1>7
<1>13. Parts(f, {g, h})
  BY <1>4, <1>5, <1>9, <1>10, <1>11, <1>12 DEF Parts
<1>14. Covered(f, {g, h})
  BY <1>12 DEF Covered
<1> QED
  BY <1>4, <1>5, <1>13, <1>14 DEF g, h

(* and then the left half is what is left. *)
LEMMA LeftIsPart ==
  ASSUME CallsOK, Placed, RangesOK, NEW f \in Handled, f.at = "left"
  PROVE  LET h == Half(f, "left")
         IN  Parts(f, {h}) /\ Covered(f, {h}) /\ h.at = "enter"
<1> DEFINE h == Half(f, "left")
           size == call[f.of].size
           mid == Mid(f.first, f.last, size)
<1>1. /\ f \in RangeRecords /\ RangeOK(f) /\ ~IsBlock(f)
      /\ f.first \in Nat /\ f.last \in Nat
  BY RangeFacts DEF RangeOK
<1>2. mid \in Nat /\ f.first < mid /\ mid < f.last /\ mid % size = 0
  BY <1>1, MidIsInside
<1>3. h = [f EXCEPT !.last = mid, !.at = "enter"]
  BY DEF Half
<1> HIDE DEF mid, h
<1>4. h \in RangeRecords /\ h.of = f.of /\ h.first = f.first /\ h.last = mid /\ h.at = "enter"
  BY <1>1, <1>2, <1>3 DEF RangeRecords
<1>5. End(h) = mid /\ End(f) = mid
  BY <1>4 DEF End, mid
<1>6. \A i : Holds(h, i) <=> Holds(f, i)
  BY <1>4, <1>5 DEF Holds
<1>7. mid <= call[f.of].n
  <2>1. f.last <= call[f.of].n /\ call[f.of].n \in Nat
    BY RangeFacts
  <2> QED
    BY <1>1, <1>2, <2>1
<1>8. h.last % size = 0 /\ h.first < h.last
  BY <1>2, <1>4
<1>9. RangeOK(h)
  BY <1>1, <1>4, <1>7, <1>8 DEF RangeOK
<1>10. Parts(f, {h}) /\ Covered(f, {h})
  BY <1>4, <1>6, <1>9 DEF Parts, Covered
<1> QED
  BY <1>4, <1>10 DEF h

-----------------------------------------------------------------------------
(* The steps of handleRange keep the invariant.                            *)

(* Two starts of blocks less than a block apart are the same. *)
LEMMA OneStartInABlock ==
  ASSUME NEW size \in Nat \ {0}, NEW x \in Nat, NEW y \in Nat,
         x % size = 0, y % size = 0, x <= y, y < x + size
  PROVE  x = y
<1> DEFINE p == x \div size
           q == y \div size
<1>1. p \in Int /\ q \in Int /\ x = size * p /\ y = size * q
  <2>1. x = size * (x \div size) + (x % size) /\ x \div size \in Int
    BY Division
  <2>2. y = size * (y \div size) + (y % size) /\ y \div size \in Int
    BY Division
  <2> QED
    BY <2>1, <2>2
<1> HIDE DEF p, q
<1>2. ASSUME q >= p + 1 PROVE FALSE
  <2>1. size * q >= size * (p + 1)
    BY <1>1, <1>2
  <2>2. size * (p + 1) = size * p + size /\ size * q \in Int /\ size * p \in Int
    BY <1>1
  <2> QED
    BY <2>1, <2>2, <1>1
<1>3. ASSUME q <= p - 1 PROVE FALSE
  <2>1. size * q <= size * (p - 1)
    BY <1>1, <1>3
  <2>2. size * (p - 1) = size * p - size /\ size * q \in Int /\ size * p \in Int
    BY <1>1
  <2> QED
    BY <2>1, <2>2, <1>1
<1>4. p = q
  BY <1>1, <1>2, <1>3
<1> QED
  BY <1>1, <1>4

(* The blocks owed can be counted. *)
LEMMA StartsAreFinite ==
  ASSUME CallsOK, NEW c \in Callers
  PROVE  IsFiniteSet(Starts(c)) /\ Cardinality(Starts(c)) \in Nat
<1>1. call[c].n \in Nat
  BY DEF CallsOK, CallRecords
<1> DEFINE m == call[c].n - 1
<1>2. 0 \in Int /\ m \in Int
  BY <1>1
<1> HIDE DEF m
<1>3. IsFiniteSet(0..m)
  BY <1>2, FS_Interval
<1>4. Starts(c) \subseteq 0..m
  BY DEF Starts, m
<1>5. IsFiniteSet(Starts(c))
  BY <1>3, <1>4, FS_Subset
<1> QED
  BY <1>5, FS_CardinalityType

(* A step that holds the same indices for every call owes the same blocks. *)
LEMMA CountsStay ==
  ASSUME CallsOK, CountsOK, UNCHANGED <<call, pc, count>>,
         \A c, i : i \in Nat => (Held(c, i)' <=> Held(c, i))
  PROVE  CountsOK'
<1>1. ASSUME NEW c \in Callers PROVE Starts(c)' = Starts(c)
  <2>1. call[c].n \in Nat
    BY DEF CallsOK, CallRecords
  <2>2. \A i \in 0..(call[c].n - 1) : i \in Nat
    BY <2>1
  <2>3. Starts(c)' = {i \in 0..(call[c].n - 1) : i % call[c].size = 0 /\ Held(c, i)'}
    BY DEF Starts
  <2> QED
    BY <2>2, <2>3 DEF Starts
<1> QED
  BY <1>1 DEF CountsOK

(* A step that calls f for nothing, and loses nothing, leaves runs right. *)
LEMMA RunsStay ==
  ASSUME CallsOK, RunsOK, UNCHANGED <<call, pc, runs>>,
         \A c, i : i \in Nat => (Pending(c, i)' <=> Pending(c, i))
  PROVE  RunsOK'
<1>1. ASSUME NEW c \in Callers, NEW i \in 0..(call[c].n - 1) PROVE Pending(c, i)' <=> Pending(c, i)
  <2>1. call[c].n \in Nat
    BY DEF CallsOK, CallRecords
  <2> QED
    BY <2>1
<1> QED
  BY <1>1 DEF RunsOK

(* f is called for a block, *)
LEMMA RunBlockKeeps ==
  ASSUME Inv, NEW t \in Threads, RunBlock(t)
  PROVE  Placed' /\ RangesOK' /\ PartsApart' /\ CountsOK' /\ RunsOK'
<1>f. PICK f : f = Frame(t)
  OBVIOUS
<1>c. PICK c : c = f.of
  OBVIOUS
<1> DEFINE g == [f EXCEPT !.at = "notify"]
           R == Tail(stack[t])
<1>1. /\ stack[t] # <<>> /\ f.at = "enter" /\ IsBlock(f)
      /\ stack' = [stack EXCEPT ![t] = <<g>> \o Tail(@)]
      /\ UNCHANGED <<call, pc, count, scheduled>>
  BY <1>f DEF RunBlock, Busy, Reach
<1>2. runs' = [runs EXCEPT ![c] =
        [i \in DOMAIN @ |-> IF i \in f.first..(f.last - 1) THEN @[i] + 1 ELSE @[i]]]
  BY <1>f, <1>c DEF RunBlock, RunIndices
<1>3. CallsOK /\ Placed /\ RangesOK /\ PartsApart /\ CountsOK /\ RunsOK
  BY DEF Inv
<1>4. f \in Handled
  BY <1>f, <1>1, <1>3, StackMoves
<1>5. Parts(f, {g}) /\ Covered(f, {g}) /\ g.at = "notify"
  BY <1>1, <1>3, <1>4, RelabelIsPart
<1> HIDE DEF g
<1>6. g \in RangeRecords /\ g \notin Handled \ {f}
  BY <1>3, <1>4, <1>5, PartsAreNew DEF Parts
<1>7. /\ <<g>> \o R \in Seq(RangeRecords) /\ Distinct(<<g>> \o R)
      /\ Items(<<g>> \o R) = (Items(stack[t]) \ {f}) \cup {g}
  BY <1>f, <1>1, <1>3, <1>6, StackMoves
<1>8. Rearranges(t, f, <<g>> \o R, {g}, {})
  <2>1. stack' = [stack EXCEPT ![t] = <<g>> \o R]
    BY <1>1, <1>3 DEF Placed
  <2>2. scheduled' = scheduled \cup {}
    BY <1>1
  <2> QED
    BY <1>f, <2>1, <2>2, <1>1, <1>7 DEF Rearranges
<1>9. /\ Handled' = (Handled \ {f}) \cup {g}
      /\ Placed' /\ RangesOK' /\ PartsApart'
  <2>1. {g} \cup {} = {g} /\ {g} \cap {} = {}
    OBVIOUS
  <2> QED
    BY <1>1, <1>3, <1>5, <1>8, <2>1, PartsAreHandled
<1>10. CountsOK'
  BY <1>1, <1>3, <1>4, <1>5, <1>9, HeldAsBefore, CountsStay
<1> HIDE DEF R
<1>11. /\ f \in RangeRecords /\ c \in Callers /\ pc[c] = "wait"
       /\ f.first \in Nat /\ f.last \in Nat
  BY <1>c, <1>3, <1>4, RangeFacts
<1>12. \A r, i : Holds(r, i)' <=> Holds(r, i)
  BY <1>1 DEF Holds, End
<1>13. \A i : Holds(f, i) <=> f.first <= i /\ i < f.last
  BY <1>1 DEF Holds, End
<1>14. \A i \in Nat : Holds(f, i) => Pending(c, i)
  BY <1>c, <1>1, <1>4 DEF Pending
<1>15. ASSUME NEW i \in Nat, Holds(f, i) PROVE ~Pending(c, i)'
  <2> SUFFICES ASSUME NEW r \in Handled', r.of = c, r.at # "notify", Holds(r, i) PROVE FALSE
    BY <1>12 DEF Pending
  <2>1. r # g /\ r \in Handled /\ r # f
    BY <1>5, <1>9
  <2>2. Overlap(r, f)
    BY <1>c, <1>15 DEF Overlap
  <2> QED
    BY <2>1, <2>2, <1>3, <1>4 DEF PartsApart
<1>16. ASSUME NEW d, NEW i \in Nat, d # c \/ ~Holds(f, i) PROVE Pending(d, i)' <=> Pending(d, i)
  <2>1. ASSUME NEW r \in Handled', r.of = d, r.at # "notify", Holds(r, i) PROVE Pending(d, i)
    BY <2>1, <1>5, <1>9 DEF Pending
  <2>2. ASSUME NEW r \in Handled, r.of = d, r.at # "notify", Holds(r, i)
        PROVE  r \in Handled'
    <3>1. r # f
      BY <2>2, <1>16, <1>c
    <3> QED
      BY <3>1, <1>9
  <2> QED
    BY <2>1, <2>2, <1>12 DEF Pending
<1>17. /\ DOMAIN runs' = Callers
       /\ \A d \in Callers : d # c => runs'[d] = runs[d]
       /\ runs'[c] = [i \in DOMAIN runs[c] |->
            IF i \in f.first..(f.last - 1) THEN runs[c][i] + 1 ELSE runs[c][i]]
  <2>1. DOMAIN runs = Callers
    BY <1>3 DEF RunsOK
  <2> DEFINE m == [i \in DOMAIN runs[c] |->
            IF i \in f.first..(f.last - 1) THEN runs[c][i] + 1 ELSE runs[c][i]]
  <2>2. runs' = [runs EXCEPT ![c] = m]
    BY <1>2
  <2> HIDE DEF m
  <2>3. /\ DOMAIN runs' = Callers
        /\ \A d \in Callers : d # c => runs'[d] = runs[d]
        /\ runs'[c] = m
    BY <2>1, <2>2, <1>11
  <2> QED
    BY <2>3 DEF m
<1>18. RunsOK'
  <2> SUFFICES ASSUME NEW d \in Callers
               PROVE  /\ DOMAIN runs'[d] = 0..(call[d].n - 1)
                      /\ \A i \in 0..(call[d].n - 1) :
                           /\ pc[d] = "search" => runs'[d][i] = 0
                           /\ pc[d] = "wait" => runs'[d][i] = IF Pending(d, i)' THEN 0 ELSE 1
                           /\ pc[d] = "returned" => runs'[d][i] = 1
    BY <1>1, <1>17 DEF RunsOK
  <2>1. DOMAIN runs'[d] = 0..(call[d].n - 1)
    BY <1>3, <1>17 DEF RunsOK
  <2>2. call[d].n \in Nat
    BY <1>3 DEF CallsOK, CallRecords
  <2>3. ASSUME NEW i \in 0..(call[d].n - 1), d # c \/ ~Holds(f, i)
        PROVE  runs'[d][i] = runs[d][i] /\ (Pending(d, i)' <=> Pending(d, i))
    <3>1. i \in Nat /\ i \in DOMAIN runs[d]
      BY <2>2, <1>3 DEF RunsOK
    <3>2. d = c => i \notin f.first..(f.last - 1)
      BY <3>1, <2>3, <1>11, <1>13
    <3> QED
      BY <3>1, <3>2, <2>3, <1>16, <1>17
  <2>4. ASSUME NEW i \in 0..(call[d].n - 1), d = c, Holds(f, i)
        PROVE  runs'[d][i] = 1 /\ ~Pending(d, i)'
    <3>1. i \in Nat /\ i \in DOMAIN runs[c]
      BY <2>2, <2>4, <1>3, <1>11 DEF RunsOK
    <3>2. i \in f.first..(f.last - 1)
      BY <3>1, <2>4, <1>11, <1>13
    <3>3. runs[c][i] = 0
      BY <3>1, <2>4, <1>3, <1>11, <1>14 DEF RunsOK
    <3> QED
      BY <3>1, <3>2, <3>3, <2>4, <1>15, <1>17
  <2>5. ASSUME NEW i \in 0..(call[d].n - 1)
        PROVE  /\ pc[d] = "search" => runs'[d][i] = 0
               /\ pc[d] = "wait" => runs'[d][i] = IF Pending(d, i)' THEN 0 ELSE 1
               /\ pc[d] = "returned" => runs'[d][i] = 1
    <3>1. /\ pc[d] = "search" => runs[d][i] = 0
          /\ pc[d] = "wait" => runs[d][i] = IF Pending(d, i) THEN 0 ELSE 1
          /\ pc[d] = "returned" => runs[d][i] = 1
      BY <1>3 DEF RunsOK
    <3>2. CASE d # c \/ ~Holds(f, i)
      BY <3>1, <3>2, <2>3
    <3>3. CASE d = c /\ Holds(f, i)
      BY <3>3, <2>4, <1>11
    <3> QED
      BY <3>2, <3>3
  <2> QED
    BY <2>1, <2>5
<1> QED
  BY <1>9, <1>10, <1>18

(* the barrier is notified of it, *)
LEMMA NotifyKeeps ==
  ASSUME Inv, NEW t \in Threads, NotifyBarrier(t)
  PROVE  Placed' /\ RangesOK' /\ PartsApart' /\ CountsOK' /\ RunsOK'
<1>f. PICK f : f = Frame(t)
  OBVIOUS
<1>c. PICK c : c = f.of
  OBVIOUS
<1> DEFINE R == Tail(stack[t])
<1>1. /\ stack[t] # <<>> /\ f.at = "notify"
      /\ count' = [count EXCEPT ![c] = @ - 1]
      /\ stack' = [stack EXCEPT ![t] = Tail(@)]
      /\ UNCHANGED <<call, pc, scheduled, runs>>
  BY <1>f, <1>c DEF NotifyBarrier, Busy
<1>2. CallsOK /\ Placed /\ RangesOK /\ PartsApart /\ CountsOK /\ RunsOK
  BY DEF Inv
<1>3. /\ f \in Handled
      /\ R \in Seq(RangeRecords) /\ Distinct(R) /\ Items(R) = Items(stack[t]) \ {f}
  BY <1>f, <1>1, <1>2, StackMoves
<1>4. Parts(f, {})
  BY DEF Parts
<1>5. Rearranges(t, f, R, {}, {})
  <2>1. stack' = [stack EXCEPT ![t] = R]
    BY <1>1, <1>2 DEF Placed
  <2>2. scheduled' = scheduled \cup {}
    BY <1>1
  <2>3. Items(R) = (Items(stack[t]) \ {f}) \cup {}
    BY <1>3
  <2> QED
    BY <1>f, <2>1, <2>2, <2>3, <1>1, <1>3 DEF Rearranges
<1>6. /\ Handled' = Handled \ {f}
      /\ Placed' /\ RangesOK' /\ PartsApart'
  <2>1. {} \cup {} = {} /\ {} \cap {} = {} /\ (Handled \ {f}) \cup {} = Handled \ {f}
    OBVIOUS
  <2> QED
    BY <1>1, <1>2, <1>4, <1>5, <2>1, PartsAreHandled
<1> HIDE DEF R
<1>7. /\ f \in RangeRecords /\ c \in Callers /\ pc[c] = "wait" /\ RangeOK(f)
      /\ f.first \in Nat /\ f.last \in Nat
      /\ call[c].n \in Nat /\ call[c].size \in Nat \ {0}
      /\ f.first < f.last /\ f.last <= call[c].n
  BY <1>c, <1>2, <1>3, RangeFacts
<1>8. \A r, i : Holds(r, i)' <=> Holds(r, i)
  BY <1>1 DEF Holds, End
<1>9. \A i : Holds(f, i) <=> f.first <= i /\ i < f.last
  BY <1>1 DEF Holds, End
<1>10. f.first % call[c].size = 0 /\ f.last - f.first <= call[c].size
  BY <1>c, <1>1, <1>7 DEF RangeOK, IsBlock
<1>11. ASSUME NEW d, NEW i \in Nat, d # c \/ ~Holds(f, i) PROVE Held(d, i)' <=> Held(d, i)
  <2>1. ASSUME NEW r \in Handled', r.of = d, Holds(r, i) PROVE Held(d, i)
    BY <2>1, <1>6 DEF Held
  <2>2. ASSUME NEW r \in Handled, r.of = d, Holds(r, i) PROVE r \in Handled'
    BY <2>2, <1>c, <1>6, <1>11
  <2> QED
    BY <2>1, <2>2, <1>8 DEF Held
<1>12. ASSUME NEW i \in Nat, Holds(f, i) PROVE Held(c, i) /\ ~Held(c, i)'
  <2>1. Held(c, i)
    BY <1>c, <1>3, <1>12 DEF Held
  <2>2. ASSUME NEW r \in Handled', r.of = c, Holds(r, i) PROVE FALSE
    <3>1. r \in Handled /\ r # f
      BY <1>6
    <3>2. Overlap(r, f)
      BY <2>2, <1>c, <1>12 DEF Overlap
    <3> QED
      BY <3>1, <3>2, <1>2, <1>3 DEF PartsApart
  <2>3. ~Held(c, i)'
    BY <2>2, <1>8 DEF Held
  <2> QED
    BY <2>1, <2>3
<1>13. ASSUME NEW d \in Callers PROVE Starts(d)' = IF d = c THEN Starts(d) \ {f.first} ELSE Starts(d)
  <2>1. call[d].n \in Nat
    BY <1>2 DEF CallsOK, CallRecords
  <2>2. Starts(d)' = {i \in 0..(call[d].n - 1) : i % call[d].size = 0 /\ Held(d, i)'}
    BY <1>1 DEF Starts
  <2>3. \A i \in 0..(call[d].n - 1) : i \in Nat
    BY <2>1
  <2>4. CASE d # c
    BY <2>2, <2>3, <2>4, <1>11 DEF Starts
  <2>5. CASE d = c
    <3>1. ASSUME NEW i \in 0..(call[d].n - 1), i % call[d].size = 0, Holds(f, i) PROVE i = f.first
      <4>1. i \in Nat /\ f.first <= i /\ i < f.last
        BY <2>3, <3>1, <1>9
      <4>2. i < f.first + call[c].size
        BY <4>1, <1>7, <1>10
      <4> QED
        BY <4>1, <4>2, <3>1, <2>5, <1>7, <1>10, OneStartInABlock
    <3>2. ~Held(c, f.first)'
      BY <1>7, <1>9, <1>12
    <3>3. \A i \in 0..(call[d].n - 1) : i % call[d].size = 0 =>
             (Held(d, i)' <=> Held(d, i) /\ i # f.first)
      BY <2>3, <2>5, <3>1, <3>2, <1>11
    <3> QED
      BY <2>2, <2>5, <3>3 DEF Starts
  <2> QED
    BY <2>4, <2>5
<1>14. f.first \in Starts(c)
  BY <1>7, <1>9, <1>10, <1>12 DEF Starts
<1>15. IsFiniteSet(Starts(c)) /\ Cardinality(Starts(c)) \in Nat
  BY <1>2, <1>7, StartsAreFinite
<1>16. Cardinality(Starts(c)') = Cardinality(Starts(c)) - 1
  <2>1. Starts(c)' = Starts(c) \ {f.first}
    BY <1>7, <1>13
  <2> QED
    BY <2>1, <1>14, <1>15, FS_RemoveElement
<1>17. /\ Cardinality(Starts(c)) # 0
  BY <1>14, <1>15, FS_EmptySet
<1>18. CountsOK'
  <2>1. count[c] = Cardinality(Starts(c)) /\ count \in [Callers -> Nat]
    BY <1>2, <1>7 DEF CountsOK
  <2>2. count[c] - 1 \in Nat
    BY <2>1, <1>15, <1>17
  <2>3. /\ count' \in [Callers -> Nat] /\ count'[c] = count[c] - 1
        /\ \A d \in Callers : d # c => count'[d] = count[d]
    BY <2>1, <2>2, <1>1, <1>7
  <2>4. ASSUME NEW d \in Callers, pc[d] = "wait" PROVE count'[d] = Cardinality(Starts(d)')
    <3>1. CASE d = c
      BY <3>1, <2>1, <2>3, <1>16
    <3>2. CASE d # c
      BY <3>2, <2>3, <2>4, <1>2, <1>13 DEF CountsOK
    <3> QED
      BY <3>1, <3>2
  <2> QED
    BY <2>3, <2>4, <1>1 DEF CountsOK
<1>19. \A d, i : i \in Nat => (Pending(d, i)' <=> Pending(d, i))
  BY <1>1, <1>6, <1>8 DEF Pending
<1>20. RunsOK'
  BY <1>1, <1>2, <1>19, RunsStay
<1> QED
  BY <1>6, <1>18, <1>20

(* a range larger than a block is about to be split, *)
LEMMA SplitKeeps ==
  ASSUME Inv, NEW t \in Threads, Split(t)
  PROVE  Placed' /\ RangesOK' /\ PartsApart' /\ CountsOK' /\ RunsOK'
<1>f. PICK f : f = Frame(t)
  OBVIOUS
<1> DEFINE g == [f EXCEPT !.at = "right"]
           R == Tail(stack[t])
<1>1. /\ stack[t] # <<>> /\ f.at = "enter" /\ ~IsBlock(f)
      /\ stack' = [stack EXCEPT ![t] = <<g>> \o Tail(@)]
      /\ UNCHANGED <<call, pc, count, scheduled, runs>>
  BY <1>f DEF Split, Busy, Reach
<1>2. CallsOK /\ Placed /\ RangesOK /\ PartsApart /\ CountsOK /\ RunsOK
  BY DEF Inv
<1>3. f \in Handled
  BY <1>f, <1>1, <1>2, StackMoves
<1>4. Parts(f, {g}) /\ Covered(f, {g}) /\ g.at = "right"
  BY <1>1, <1>2, <1>3, RelabelIsPart
<1> HIDE DEF g
<1>5. g \in RangeRecords /\ g \notin Handled \ {f}
  BY <1>2, <1>3, <1>4, PartsAreNew DEF Parts
<1>6. /\ <<g>> \o R \in Seq(RangeRecords) /\ Distinct(<<g>> \o R)
      /\ Items(<<g>> \o R) = (Items(stack[t]) \ {f}) \cup {g}
  BY <1>f, <1>1, <1>2, <1>5, StackMoves
<1>7. Rearranges(t, f, <<g>> \o R, {g}, {})
  <2>1. stack' = [stack EXCEPT ![t] = <<g>> \o R]
    BY <1>1, <1>2 DEF Placed
  <2>2. scheduled' = scheduled \cup {}
    BY <1>1
  <2> QED
    BY <1>f, <2>1, <2>2, <1>1, <1>6 DEF Rearranges
<1>8. /\ Handled' = (Handled \ {f}) \cup {g}
      /\ Placed' /\ RangesOK' /\ PartsApart'
  <2>1. {g} \cup {} = {g} /\ {g} \cap {} = {}
    OBVIOUS
  <2> QED
    BY <1>1, <1>2, <1>4, <1>7, <2>1, PartsAreHandled
<1>9. CountsOK'
  BY <1>1, <1>2, <1>3, <1>4, <1>8, HeldAsBefore, CountsStay
<1>10. f.at # "notify" /\ \A h \in {g} : h.at # "notify"
  BY <1>1, <1>4
<1>11. RunsOK'
  BY <1>1, <1>2, <1>3, <1>4, <1>8, <1>10, PendingAsBefore, RunsStay
<1> QED
  BY <1>8, <1>9, <1>11

(* When a half goes to the pool, what is left of the call stays. *)
LEMMA PartsAreRunLater ==
  ASSUME Inv, NEW t \in Threads, NEW f, f \in Handled, NEW s, NEW kept, NEW queued,
         Rearranges(t, f, s, kept, queued), UNCHANGED <<call, pc, count, runs>>,
         kept \cap queued = {}, f.at # "enter", f.at # "notify",
         \A g \in kept \cup queued : g.at # "notify", \A g \in queued : g.at = "enter",
         Parts(f, kept \cup queued), Covered(f, kept \cup queued)
  PROVE  Placed' /\ RangesOK' /\ PartsApart' /\ CountsOK' /\ RunsOK'
<1> DEFINE new == kept \cup queued
<1>1. CallsOK /\ Placed /\ RangesOK /\ PartsApart /\ CountsOK /\ RunsOK
  BY DEF Inv
<1>2. f \notin queued
  OBVIOUS
<1>3. /\ Handled' = (Handled \ {f}) \cup new
      /\ Placed' /\ RangesOK' /\ PartsApart'
  BY <1>1, <1>2, PartsAreHandled
<1>4. Parts(f, new) /\ Covered(f, new) /\ \A g \in new : g.at # "notify"
  OBVIOUS
<1> HIDE DEF new
<1>5. CountsOK'
  BY <1>1, <1>3, <1>4, HeldAsBefore, CountsStay
<1>6. RunsOK'
  BY <1>1, <1>3, <1>4, PendingAsBefore, RunsStay
<1> QED
  BY <1>3, <1>5, <1>6

(* The right half is handed to the pool, or handled at once, *)
LEMMA ScheduleRightKeeps ==
  ASSUME Inv, NEW t \in Threads, ScheduleHalf(t, "right")
  PROVE  Placed' /\ RangesOK' /\ PartsApart' /\ CountsOK' /\ RunsOK'
<1>f. PICK f : f = Frame(t)
  OBVIOUS
<1>h. PICK h : h = Half(f, "right")
  OBVIOUS
<1> DEFINE g == [f EXCEPT !.at = "left"]
           R == Tail(stack[t])
<1>1. /\ stack[t] # <<>> /\ f.at = "right"
      /\ UNCHANGED <<call, pc, count, runs>>
      /\ \/ /\ scheduled' = scheduled \cup {h}
            /\ stack' = [stack EXCEPT ![t] = <<g>> \o R]
         \/ /\ stack' = [stack EXCEPT ![t] = <<h>> \o (<<g>> \o R)]
            /\ scheduled' = scheduled
  BY <1>f, <1>h DEF ScheduleHalf, Busy, AfterHalf
<1>2. CallsOK /\ Placed /\ RangesOK /\ PartsApart
  BY DEF Inv
<1>3. f \in Handled
  BY <1>f, <1>1, <1>2, StackMoves
<1>4. Parts(f, {g, h}) /\ Covered(f, {g, h}) /\ g # h /\ g.at = "left" /\ h.at = "enter"
  BY <1>h, <1>1, <1>2, <1>3, RightIsPart
<1> HIDE DEF g
<1>5. /\ g \in RangeRecords /\ g \notin Handled \ {f}
      /\ h \in RangeRecords /\ h \notin Handled \ {f}
  BY <1>2, <1>3, <1>4, PartsAreNew DEF Parts
<1>6. /\ <<g>> \o R \in Seq(RangeRecords) /\ Distinct(<<g>> \o R)
      /\ Items(<<g>> \o R) = (Items(stack[t]) \ {f}) \cup {g}
      /\ <<h>> \o (<<g>> \o R) \in Seq(RangeRecords) /\ Distinct(<<h>> \o (<<g>> \o R))
      /\ Items(<<h>> \o (<<g>> \o R)) = (Items(stack[t]) \ {f}) \cup {g, h}
  BY <1>f, <1>1, <1>2, <1>4, <1>5, StackMoves
<1> HIDE DEF R
<1>7. CASE scheduled' = scheduled \cup {h} /\ stack' = [stack EXCEPT ![t] = <<g>> \o R]
  <2>1. Rearranges(t, f, <<g>> \o R, {g}, {h})
    BY <1>f, <1>1, <1>6, <1>7 DEF Rearranges
  <2>2. {g} \cup {h} = {g, h} /\ {g} \cap {h} = {}
    BY <1>4
  <2>3. /\ \A x \in {g} \cup {h} : x.at # "notify"
        /\ \A x \in {h} : x.at = "enter"
    BY <1>4
  <2> QED
    BY <1>1, <1>3, <1>4, <2>1, <2>2, <2>3, PartsAreRunLater
<1>8. CASE scheduled' = scheduled /\ stack' = [stack EXCEPT ![t] = <<h>> \o (<<g>> \o R)]
  <2>1. Rearranges(t, f, <<h>> \o (<<g>> \o R), {g, h}, {})
    <3>1. scheduled' = scheduled \cup {}
      BY <1>8
    <3> QED
      BY <1>f, <1>1, <1>6, <1>8, <3>1 DEF Rearranges
  <2>2. {g, h} \cup {} = {g, h} /\ {g, h} \cap {} = {}
    OBVIOUS
  <2>3. \A x \in {g, h} \cup {} : x.at # "notify"
    BY <1>4
  <2> QED
    BY <1>1, <1>3, <1>4, <2>1, <2>2, <2>3, PartsAreRunLater
<1> QED
  BY <1>1, <1>7, <1>8

(* and then the left half is. *)
LEMMA ScheduleLeftKeeps ==
  ASSUME Inv, NEW t \in Threads, ScheduleHalf(t, "left")
  PROVE  Placed' /\ RangesOK' /\ PartsApart' /\ CountsOK' /\ RunsOK'
<1>f. PICK f : f = Frame(t)
  OBVIOUS
<1>h. PICK h : h = Half(f, "left")
  OBVIOUS
<1> DEFINE R == Tail(stack[t])
<1>1. /\ stack[t] # <<>> /\ f.at = "left"
      /\ UNCHANGED <<call, pc, count, runs>>
      /\ \/ /\ scheduled' = scheduled \cup {h}
            /\ stack' = [stack EXCEPT ![t] = R]
         \/ /\ stack' = [stack EXCEPT ![t] = <<h>> \o R]
            /\ scheduled' = scheduled
  BY <1>f, <1>h DEF ScheduleHalf, Busy, AfterHalf
<1>2. CallsOK /\ Placed /\ RangesOK /\ PartsApart
  BY DEF Inv
<1>3. f \in Handled
  BY <1>f, <1>1, <1>2, StackMoves
<1>4. Parts(f, {h}) /\ Covered(f, {h}) /\ h.at = "enter"
  BY <1>h, <1>1, <1>2, <1>3, LeftIsPart
<1>5. h \in RangeRecords /\ h \notin Handled \ {f}
  BY <1>2, <1>3, <1>4, PartsAreNew DEF Parts
<1>6. /\ R \in Seq(RangeRecords) /\ Distinct(R) /\ Items(R) = (Items(stack[t]) \ {f}) \cup {}
      /\ <<h>> \o R \in Seq(RangeRecords) /\ Distinct(<<h>> \o R)
      /\ Items(<<h>> \o R) = (Items(stack[t]) \ {f}) \cup {h}
  BY <1>f, <1>1, <1>2, <1>5, StackMoves
<1> HIDE DEF R
<1>7. /\ {} \cup {h} = {h} /\ {} \cap {h} = {} /\ {h} \cup {} = {h} /\ {h} \cap {} = {}
      /\ \A x \in {h} : x.at # "notify" /\ x.at = "enter"
  BY <1>4
<1>8. CASE scheduled' = scheduled \cup {h} /\ stack' = [stack EXCEPT ![t] = R]
  <2>1. Rearranges(t, f, R, {}, {h})
    BY <1>f, <1>1, <1>6, <1>8 DEF Rearranges
  <2> QED
    BY <1>1, <1>3, <1>4, <2>1, <1>7, PartsAreRunLater
<1>9. CASE scheduled' = scheduled /\ stack' = [stack EXCEPT ![t] = <<h>> \o R]
  <2>1. Rearranges(t, f, <<h>> \o R, {h}, {})
    <3>1. scheduled' = scheduled \cup {}
      BY <1>9
    <3> QED
      BY <1>f, <1>1, <1>6, <1>9, <3>1 DEF Rearranges
  <2> QED
    BY <1>1, <1>3, <1>4, <2>1, <1>7, PartsAreRunLater
<1> QED
  BY <1>1, <1>8, <1>9

-----------------------------------------------------------------------------
(* The steps of the workers and of the callers keep the invariant.         *)

(* A range goes from a queue to an empty stack, *)
LEMMA TakeKeeps ==
  ASSUME Inv, NEW t \in Workers, NEW r \in scheduled, Take(t, r)
  PROVE  Placed' /\ RangesOK' /\ PartsApart' /\ CountsOK' /\ RunsOK'
<1>1. /\ stack[t] = <<>> /\ (t \in Callers => pc[t] \in {"start", "returned"})
      /\ scheduled' = scheduled \ {r}
      /\ stack' = [stack EXCEPT ![t] = <<r>>]
      /\ UNCHANGED <<call, pc, count, runs>>
  BY DEF Take
<1>2. CallsOK /\ Placed /\ RangesOK /\ PartsApart /\ CountsOK /\ RunsOK
  BY DEF Inv
<1>3. t \in Threads /\ r \in RangeRecords
  BY <1>2 DEF Threads, Placed
<1>4. <<r>> \in Seq(RangeRecords) /\ Distinct(<<r>>) /\ Items(<<r>>) = {r}
  BY <1>3 DEF Distinct, Items
<1>5. /\ stack' \in [Threads -> Seq(RangeRecords)]
      /\ \A u \in Threads : stack'[u] = IF u = t THEN <<r>> ELSE stack[u]
  BY <1>1, <1>2, <1>4 DEF Placed
<1>6. Frames(t) = {}
  BY <1>1, EmptySequence, FramesAreItems
<1>7. /\ Frames(t)' = {r}
      /\ \A u \in Threads : u # t => Frames(u)' = Frames(u)
  BY <1>3, <1>4, <1>5, FramesAreItems
<1>8. r \notin UNION {Frames(u) : u \in Threads}
  BY <1>2 DEF Placed
<1>9. Placed'
  <2>1. scheduled' \subseteq RangeRecords /\ \A u \in Threads : Distinct(stack'[u])
    BY <1>1, <1>2, <1>4, <1>5 DEF Placed
  <2>2. \A u \in Threads : Frames(u)' \cap scheduled' = {}
    <3> SUFFICES ASSUME NEW u \in Threads PROVE Frames(u)' \cap scheduled' = {}
      OBVIOUS
    <3>1. Frames(u) \cap scheduled = {}
      BY <1>2 DEF Placed
    <3> QED
      BY <3>1, <1>1, <1>7
  <2>3. \A u, v \in Threads : u # v => Frames(u)' \cap Frames(v)' = {}
    <3> SUFFICES ASSUME NEW u \in Threads, NEW v \in Threads, u # v
                 PROVE  Frames(u)' \cap Frames(v)' = {}
      OBVIOUS
    <3>1. Frames(u) \cap Frames(v) = {}
      BY <1>2 DEF Placed
    <3> QED
      BY <3>1, <1>7, <1>8
  <2>4. \A c \in Callers : pc'[c] = "search" => stack'[c] = <<>>
    <3>1. \A c \in Callers : c \in Threads
      BY DEF Threads
    <3> QED
      BY <3>1, <1>1, <1>2, <1>5 DEF Placed
  <2> QED
    BY <1>5, <2>1, <2>2, <2>3, <2>4 DEF Placed
<1>10. Handled' = Handled
  <2>1. Handled' = scheduled' \cup UNION {Frames(u)' : u \in Threads}
    BY DEF Handled
  <2>2. ASSUME NEW g \in Handled' PROVE g \in Handled
    <3>1. CASE g \in scheduled'
      BY <3>1, <1>1 DEF Handled
    <3>2. ASSUME NEW u \in Threads, g \in Frames(u)' PROVE g \in Handled
      BY <3>2, <1>7 DEF Handled
    <3> QED
      BY <3>1, <3>2, <2>1
  <2>3. ASSUME NEW g \in Handled PROVE g \in Handled'
    <3>1. CASE g \in scheduled
      BY <3>1, <2>1, <1>1, <1>3, <1>7
    <3>2. ASSUME NEW u \in Threads, g \in Frames(u) PROVE g \in Handled'
      BY <3>2, <2>1, <1>6, <1>7
    <3> QED
      BY <3>1, <3>2 DEF Handled
  <2> QED
    BY <2>2, <2>3
<1>11. /\ \A s : RangeOK(s)' <=> RangeOK(s)
       /\ \A s, i : Holds(s, i)' <=> Holds(s, i)
  BY <1>1 DEF RangeOK, IsBlock, Holds, End
<1>12. RangesOK' /\ PartsApart'
  BY <1>2, <1>10, <1>11 DEF RangesOK, PartsApart, Overlap
<1>13. \A c, i : (Held(c, i)' <=> Held(c, i)) /\ (Pending(c, i)' <=> Pending(c, i))
  BY <1>10, <1>11 DEF Held, Pending
<1>14. CountsOK'
  BY <1>1, <1>2, <1>13, CountsStay
<1>15. RunsOK'
  BY <1>1, <1>2, <1>13, RunsStay
<1> QED
  BY <1>9, <1>12, <1>14, <1>15

(* A step of a caller that has no ranges *)
Alone(c) ==
  /\ \A r \in Handled : r.of # c
  /\ scheduled' = scheduled /\ stack' = stack
  /\ call' \in [Callers -> CallRecords]
  /\ \A d \in Callers \ {c} : call'[d] = call[d] /\ pc'[d] = pc[d]

(* A caller that does not wait has no ranges. *)
LEMMA NoRanges ==
  ASSUME RangesOK, NEW c \in Callers, pc[c] # "wait"
  PROVE  \A r \in Handled : r.of # c
BY DEF RangesOK, RangeOK

(* leaves the others what they have. *)
LEMMA AloneKeeps ==
  ASSUME Inv, NEW c \in Callers, Alone(c), pc'[c] = "search" => stack[c] = <<>>
  PROVE  /\ Placed' /\ RangesOK' /\ PartsApart'
         /\ \A d \in Callers \ {c} : /\ Starts(d)' = Starts(d)
                                     /\ \A i : Pending(d, i)' <=> Pending(d, i)
<1>1. CallsOK /\ Placed /\ RangesOK /\ PartsApart /\ CountsOK /\ RunsOK
  BY DEF Inv
<1>2. Handled' = Handled
  BY DEF Handled, Frames, Alone
<1>3. \A r \in Handled : r.of \in Callers \ {c}
  BY <1>1, HandledAre DEF Alone
<1>4. /\ \A r \in Handled : RangeOK(r)' <=> RangeOK(r)
      /\ \A r \in Handled : \A i : Holds(r, i)' <=> Holds(r, i)
  <2> SUFFICES ASSUME NEW r \in Handled
               PROVE  (RangeOK(r)' <=> RangeOK(r)) /\ \A i : Holds(r, i)' <=> Holds(r, i)
    OBVIOUS
  <2>1. call'[r.of] = call[r.of] /\ pc'[r.of] = pc[r.of]
    BY <1>3 DEF Alone
  <2> QED
    BY <2>1 DEF RangeOK, IsBlock, Holds, End
<1>5. RangesOK' /\ PartsApart'
  BY <1>1, <1>2, <1>4 DEF RangesOK, PartsApart, Overlap
<1>6. \A d, i : (Held(d, i)' <=> Held(d, i)) /\ (Pending(d, i)' <=> Pending(d, i))
  BY <1>2, <1>4 DEF Held, Pending
<1>7. ASSUME NEW d \in Callers \ {c} PROVE Starts(d)' = Starts(d)
  <2>1. Starts(d)' = {i \in 0..(call'[d].n - 1) : i % call'[d].size = 0 /\ Held(d, i)'}
    BY DEF Starts
  <2> QED
    BY <2>1, <1>6 DEF Starts, Alone
<1>8. Placed'
  <2>1. \A t \in Threads : Frames(t)' = Frames(t)
    BY DEF Frames, Alone
  <2> QED
    BY <2>1, <1>1 DEF Placed, Alone
<1> QED
  BY <1>5, <1>6, <1>7, <1>8

(* The barriers stay exact, *)
LEMMA AloneCounts ==
  ASSUME Inv, NEW c \in Callers, Alone(c), pc'[c] # "wait", count' = count,
         pc'[c] = "search" => stack[c] = <<>>
  PROVE  CountsOK'
<1>1. \A d \in Callers : pc'[d] = "wait" => d # c /\ pc[d] = "wait" /\ Starts(d)' = Starts(d)
  BY AloneKeeps DEF Alone
<1> QED
  BY <1>1 DEF CountsOK, Inv

(* and so do the calls of f. *)
LEMMA AloneRuns ==
  ASSUME Inv, NEW c \in Callers, Alone(c), pc'[c] = "search" => stack[c] = <<>>,
         DOMAIN runs' = Callers, \A d \in Callers \ {c} : runs'[d] = runs[d],
         DOMAIN runs'[c] = 0..(call'[c].n - 1), pc'[c] # "wait",
         \A i \in 0..(call'[c].n - 1) : /\ pc'[c] = "search" => runs'[c][i] = 0
                                        /\ pc'[c] = "returned" => runs'[c][i] = 1
  PROVE  RunsOK'
<1>1. \A d \in Callers \ {c} : /\ call'[d] = call[d] /\ pc'[d] = pc[d]
                               /\ \A i : Pending(d, i)' <=> Pending(d, i)
  BY AloneKeeps DEF Alone
<1>2. ASSUME NEW d \in Callers
      PROVE  /\ DOMAIN runs'[d] = 0..(call'[d].n - 1)
             /\ \A i \in 0..(call'[d].n - 1) :
                  /\ pc'[d] = "search" => runs'[d][i] = 0
                  /\ pc'[d] = "wait" => runs'[d][i] = IF Pending(d, i)' THEN 0 ELSE 1
                  /\ pc'[d] = "returned" => runs'[d][i] = 1
  <2>1. CASE d = c
    BY <2>1
  <2>2. CASE d # c
    BY <2>2, <1>1 DEF Inv, RunsOK
  <2> QED
    BY <2>1, <2>2
<1> QED
  BY <1>2 DEF RunsOK

(* A caller starts, *)
LEMMA StartKeeps ==
  ASSUME Inv, RoomForABlock, NEW c \in Callers, NEW a \in Calls, Start(c, a)
  PROVE  Placed' /\ RangesOK' /\ PartsApart' /\ CountsOK' /\ RunsOK'
<1>1. CallsOK /\ Placed /\ RangesOK /\ PartsApart /\ CountsOK /\ RunsOK
  BY DEF Inv
<1>2. /\ pc[c] = "start" /\ stack[c] = <<>> /\ UNCHANGED <<count, scheduled, stack>>
  BY DEF Start
<1>3. PICK k \in CallRecords :
           /\ k.n = a.n
           /\ call' = [call EXCEPT ![c] = k]
           /\ \/ /\ pc' = [pc EXCEPT ![c] = "returned"]
                 /\ runs' = [runs EXCEPT ![c] = [i \in 0..(a.n - 1) |-> 1]]
              \/ /\ pc' = [pc EXCEPT ![c] = "search"] /\ Divided(k)
                 /\ runs' = [runs EXCEPT ![c] = [i \in 0..(a.n - 1) |-> 0]]
  BY <1>1, StartIs
<1>4. /\ call' \in [Callers -> CallRecords] /\ call'[c] = k
      /\ \A d \in Callers \ {c} : call'[d] = call[d]
  BY <1>1, <1>3 DEF CallsOK
<1>5. /\ pc'[c] \in {"returned", "search"}
      /\ \A d \in Callers \ {c} : pc'[d] = pc[d]
  BY <1>1, <1>3 DEF CallsOK
<1>6. Alone(c)
  BY <1>1, <1>2, <1>4, <1>5, NoRanges DEF Alone
<1>7. /\ DOMAIN runs' = Callers /\ \A d \in Callers \ {c} : runs'[d] = runs[d]
  BY <1>1, <1>3 DEF RunsOK
<1>8. /\ DOMAIN runs'[c] = 0..(call'[c].n - 1)
      /\ \A i \in 0..(call'[c].n - 1) : /\ pc'[c] = "search" => runs'[c][i] = 0
                                        /\ pc'[c] = "returned" => runs'[c][i] = 1
  <2>1. CASE /\ pc' = [pc EXCEPT ![c] = "returned"]
             /\ runs' = [runs EXCEPT ![c] = [i \in 0..(a.n - 1) |-> 1]]
    <3>1. pc'[c] = "returned" /\ runs'[c] = [i \in 0..(a.n - 1) |-> 1]
      BY <2>1, <1>1 DEF CallsOK, RunsOK
    <3> QED
      BY <3>1, <1>3, <1>4
  <2>2. CASE /\ pc' = [pc EXCEPT ![c] = "search"]
             /\ runs' = [runs EXCEPT ![c] = [i \in 0..(a.n - 1) |-> 0]]
    <3>1. pc'[c] = "search" /\ runs'[c] = [i \in 0..(a.n - 1) |-> 0]
      BY <2>2, <1>1 DEF CallsOK, RunsOK
    <3> QED
      BY <3>1, <1>3, <1>4
  <2> QED
    BY <1>3, <2>1, <2>2
<1>9. pc'[c] # "wait"
  BY <1>5
<1>10. Placed' /\ RangesOK' /\ PartsApart'
  BY <1>2, <1>6, AloneKeeps
<1>11. CountsOK'
  BY <1>2, <1>6, <1>9, AloneCounts
<1>12. RunsOK'
  BY <1>2, <1>6, <1>7, <1>8, <1>9, AloneRuns
<1> QED
  BY <1>10, <1>11, <1>12

(* searches, *)
LEMMA CoarsenKeeps ==
  ASSUME Inv, NEW c \in Callers, Coarsen(c)
  PROVE  Placed' /\ RangesOK' /\ PartsApart' /\ CountsOK' /\ RunsOK'
<1>1. CallsOK /\ Placed /\ RangesOK /\ PartsApart /\ CountsOK /\ RunsOK
  BY DEF Inv
<1>2. /\ pc[c] = "search" /\ call' = [call EXCEPT ![c] = Coarser(call[c])]
      /\ UNCHANGED <<pc, count, scheduled, stack, runs>>
  BY CoarsenIs
<1>3. CallsOK' /\ call'[c].n = call[c].n
  BY <1>1, CoarsenKeepsCalls
<1>4. \A d \in Callers \ {c} : call'[d] = call[d]
  BY <1>1, <1>2 DEF CallsOK
<1>5. stack[c] = <<>>
  BY <1>1, <1>2 DEF Placed
<1>6. \A r \in Handled : r.of # c
  BY <1>1, <1>2, NoRanges
<1>7. Alone(c)
  BY <1>2, <1>3, <1>4, <1>6 DEF Alone, CallsOK
<1>8. pc'[c] # "wait" /\ pc'[c] = "search"
  BY <1>2
<1>9. /\ DOMAIN runs' = Callers /\ \A d \in Callers \ {c} : runs'[d] = runs[d]
      /\ DOMAIN runs'[c] = 0..(call'[c].n - 1)
      /\ \A i \in 0..(call'[c].n - 1) : /\ pc'[c] = "search" => runs'[c][i] = 0
                                        /\ pc'[c] = "returned" => runs'[c][i] = 1
  BY <1>1, <1>2, <1>3 DEF RunsOK
<1>10. Placed' /\ RangesOK' /\ PartsApart'
  BY <1>5, <1>7, AloneKeeps
<1>11. CountsOK'
  BY <1>2, <1>5, <1>7, <1>8, AloneCounts
<1>12. RunsOK'
  BY <1>5, <1>7, <1>8, <1>9, AloneRuns
<1> QED
  BY <1>10, <1>11, <1>12

(* A caller that waits for nothing has no ranges. *)
LEMMA NothingOwedNothingHeld ==
  ASSUME CallsOK, Placed, RangesOK, CountsOK, NEW c \in Callers, pc[c] = "wait", count[c] = 0
  PROVE  \A r \in Handled : r.of # c
<1>1. Starts(c) = {}
  BY StartsAreFinite, FS_EmptySet DEF CountsOK
<1> SUFFICES ASSUME NEW r \in Handled, r.of = c PROVE FALSE
  OBVIOUS
<1>2. /\ r.first \in Nat /\ r.last \in Nat /\ r.first < r.last /\ r.last <= call[c].n
      /\ call[c].n \in Nat /\ RangeOK(r)
  BY RangeFacts
<1>3. Holds(r, r.first)
  BY EndOfRange
<1>4. Held(c, r.first)
  BY <1>3 DEF Held
<1>5. r.first \in 0..(call[c].n - 1) /\ r.first % call[c].size = 0
  BY <1>2 DEF RangeOK
<1> QED
  BY <1>1, <1>4, <1>5 DEF Starts

(* and returns, when the barrier has counted all its blocks. *)
LEMMA ReturnKeeps ==
  ASSUME Inv, NEW c \in Callers, Return(c)
  PROVE  Placed' /\ RangesOK' /\ PartsApart' /\ CountsOK' /\ RunsOK'
<1>1. CallsOK /\ Placed /\ RangesOK /\ PartsApart /\ CountsOK /\ RunsOK
  BY DEF Inv
<1>2. /\ pc[c] = "wait" /\ count[c] = 0 /\ pc' = [pc EXCEPT ![c] = "returned"]
      /\ UNCHANGED <<call, count, scheduled, stack, runs>>
  BY DEF Return, Go
<1>3. pc'[c] = "returned" /\ \A d \in Callers \ {c} : pc'[d] = pc[d]
  BY <1>1, <1>2 DEF CallsOK
<1>4. \A r \in Handled : r.of # c
  BY <1>1, <1>2, NothingOwedNothingHeld
<1>5. Alone(c)
  BY <1>1, <1>2, <1>3, <1>4 DEF Alone, CallsOK
<1>6. \A i : ~Pending(c, i)
  BY <1>4 DEF Pending
<1>7. \A i \in 0..(call[c].n - 1) : runs[c][i] = 1
  BY <1>1, <1>2, <1>6 DEF RunsOK
<1>8. pc'[c] # "wait" /\ pc'[c] # "search"
  BY <1>3
<1>9. /\ DOMAIN runs' = Callers /\ \A d \in Callers \ {c} : runs'[d] = runs[d]
      /\ DOMAIN runs'[c] = 0..(call'[c].n - 1)
      /\ \A i \in 0..(call'[c].n - 1) : /\ pc'[c] = "search" => runs'[c][i] = 0
                                        /\ pc'[c] = "returned" => runs'[c][i] = 1
  BY <1>1, <1>2, <1>7, <1>8 DEF RunsOK
<1>10. Placed' /\ RangesOK' /\ PartsApart'
  BY <1>5, <1>8, AloneKeeps
<1>11. CountsOK'
  BY <1>2, <1>5, <1>8, AloneCounts
<1>12. RunsOK'
  BY <1>5, <1>8, <1>9, AloneRuns
<1> QED
  BY <1>10, <1>11, <1>12

(* As many blocks start in [0, n) as divup counts. *)
LEMMA BlocksOfACall ==
  ASSUME NEW n \in Nat \ {0}, NEW size \in Nat \ {0}, n + size <= IntLimit
  PROVE  Cardinality({i \in 0..(n - 1) : i % size = 0}) = divup(n, size)
<1> DEFINE b == divup(n, size)
           S == 0..(b - 1)
           T == {i \in 0..(n - 1) : i % size = 0}
           g == [j \in S |-> j * size]
<1>1. b \in Nat /\ n <= b * size /\ b * size < n + size
  BY DivUp
<1> HIDE DEF b
<1>2. ASSUME NEW j \in S PROVE j * size \in T
  <2>1. j \in Nat /\ j <= b - 1
    BY <1>1
  <2>2. j * size \in Nat /\ b * size \in Nat
    BY <1>1, <2>1
  <2>3. j * size <= (b - 1) * size
    BY <1>1, <2>1
  <2>4. (b - 1) * size = b * size - size
    BY <1>1
  <2>5. j * size <= n - 1
    BY <1>1, <2>2, <2>3, <2>4
  <2>6. (j * size + 0) % size = 0
    BY <2>1, Residue
  <2>7. j * size + 0 = j * size
    BY <2>2
  <2>8. (j * size) % size = 0
    BY <2>6, <2>7
  <2>9. j * size \in 0..(n - 1)
    BY <2>2, <2>5
  <2> QED
    BY <2>8, <2>9
<1>3. ASSUME NEW i \in T PROVE \E j \in S : i = j * size
  <2> DEFINE p == i \div size
  <2>1. i \in Nat /\ i <= n - 1 /\ i % size = 0
    OBVIOUS
  <2>2. i = size * (i \div size) + (i % size) /\ p \in Int
    <3>1. i \in Int
      BY <2>1
    <3> QED
      BY <3>1, Division
  <2>3. i = size * p
    BY <2>1, <2>2
  <2> HIDE DEF p
  <2>4. ASSUME p <= -1 PROVE FALSE
    <3>1. size * p <= -size
      BY <2>2, <2>4
    <3> QED
      BY <3>1, <2>1, <2>3
  <2>5. ASSUME p >= b PROVE FALSE
    <3>1. size * p >= size * b
      BY <1>1, <2>2, <2>5
    <3>2. size * b = b * size /\ b * size \in Nat
      BY <1>1
    <3> QED
      BY <3>1, <3>2, <1>1, <2>1, <2>3
  <2>6. p \in S
    BY <1>1, <2>2, <2>4, <2>5
  <2>7. i = p * size
    BY <2>2, <2>3
  <2> QED
    BY <2>6, <2>7
<1>4. ASSUME NEW j \in S, NEW k \in S, j * size = k * size PROVE j = k
  <2>1. j \in Int /\ k \in Int
    BY <1>1
  <2>2. ASSUME j >= k + 1 PROVE FALSE
    <3>1. j * size >= (k + 1) * size
      BY <2>1, <2>2
    <3>2. (k + 1) * size = k * size + size /\ k * size \in Int
      BY <2>1
    <3> QED
      BY <3>1, <3>2, <1>4
  <2>3. ASSUME k >= j + 1 PROVE FALSE
    <3>1. k * size >= (j + 1) * size
      BY <2>1, <2>3
    <3>2. (j + 1) * size = j * size + size /\ j * size \in Int
      BY <2>1
    <3> QED
      BY <3>1, <3>2, <1>4
  <2> QED
    BY <2>1, <2>2, <2>3
<1>5. IsFiniteSet(S) /\ Cardinality(S) = b
  <2> DEFINE e == b - 1
  <2>1. 0 \in Int /\ e \in Int /\ e = b - 1
    BY <1>1
  <2> HIDE DEF e
  <2>2. IsFiniteSet(0..e) /\ Cardinality(0..e) = IF 0 > e THEN 0 ELSE e - 0 + 1
    BY <2>1, FS_Interval
  <2>3. (IF 0 > e THEN 0 ELSE e - 0 + 1) = b
    BY <1>1, <2>1
  <2> QED
    BY <2>2, <2>3 DEF e
<1> HIDE DEF S, T
<1>6. g \in Bijection(S, T)
  <2>1. g \in [S -> T]
    BY <1>2
  <2>2. \A j, k \in S : g[j] = g[k] => j = k
    BY <1>4
  <2>3. \A i \in T : \E j \in S : g[j] = i
    BY <1>3
  <2> HIDE DEF g
  <2> QED
    BY <2>1, <2>2, <2>3, Zenon DEF Bijection, Injection, Surjection, IsInjective
<1> HIDE DEF g
<1>7. Cardinality(T) = b
  BY <1>5, <1>6, FS_Bijection, Zenon DEF ExistsBijection
<1> QED
  BY <1>7 DEF T, b

(* The caller handles [0, n) itself, with a barrier for all its blocks. *)
LEMMA HandleAllKeeps ==
  ASSUME Inv, NEW c \in Callers, HandleAll(c)
  PROVE  Placed' /\ RangesOK' /\ PartsApart' /\ CountsOK' /\ RunsOK'
<1>k. PICK k : k = call[c]
  OBVIOUS
<1> DEFINE w == [of |-> c, first |-> 0, last |-> k.n, at |-> "enter"]
<1>1. /\ pc[c] = "search"
      /\ count' = [count EXCEPT ![c] = k.blocks % IntLimit]
      /\ stack' = [stack EXCEPT ![c] = <<w>>]
      /\ pc' = [pc EXCEPT ![c] = "wait"]
      /\ UNCHANGED <<call, scheduled, runs>>
  BY <1>k DEF HandleAll, HandleAllWith, Go
<1>2. CallsOK /\ Placed /\ RangesOK /\ PartsApart /\ CountsOK /\ RunsOK
  BY DEF Inv
<1>3. /\ k.n \in Nat \ {0} /\ k.size \in Nat \ {0} /\ k.size <= k.n /\ k.n < IntLimit
      /\ 2 * k.n <= IntLimit /\ k.n + NumThreads <= IntLimit /\ k.blocks = divup(k.n, k.size)
  <2>1. k \in CallRecords /\ Divided(k) /\ k.n < IntLimit
    BY <1>k, <1>1, <1>2 DEF CallsOK
  <2> QED
    BY <2>1 DEF CallRecords, Divided
<1>4. IntLimit \in Nat /\ k.size \in 1..k.n /\ k.n + k.size <= IntLimit
  BY <1>3, InputAssumption
<1>5. k.blocks \in 1..k.n
  BY <1>3, <1>4, BlocksOfSize
<1>6. k.blocks % IntLimit = k.blocks
  <2> DEFINE b == k.blocks
  <2>1. b \in Nat /\ b \in 0..(IntLimit - 1) /\ IntLimit \in Nat \ {0}
    BY <1>3, <1>4, <1>5
  <2> HIDE DEF b
  <2>2. (0 * IntLimit + b) % IntLimit = b
    BY <2>1, Residue
  <2>3. 0 * IntLimit + b = b
    BY <2>1
  <2> QED
    BY <2>2, <2>3 DEF b
<1>7. /\ pc'[c] = "wait" /\ \A d \in Callers \ {c} : pc'[d] = pc[d]
  BY <1>1, <1>2 DEF CallsOK
<1>8. \A r \in Handled : r.of # c
  BY <1>1, <1>2, NoRanges
<1>9. c \in Threads /\ stack[c] = <<>>
  BY <1>1, <1>2 DEF Threads, Placed
<1>10. w \in RangeRecords /\ w.of = c /\ w.first = 0 /\ w.last = k.n /\ w.at = "enter"
  BY <1>3 DEF RangeRecords
<1> HIDE DEF w
<1>11. w \notin Handled
  BY <1>8, <1>10
<1>12. <<w>> \in Seq(RangeRecords) /\ Distinct(<<w>>) /\ Items(<<w>>) = {w}
  BY <1>10 DEF Distinct, Items
<1>13. /\ stack' \in [Threads -> Seq(RangeRecords)]
       /\ \A u \in Threads : stack'[u] = IF u = c THEN <<w>> ELSE stack[u]
  BY <1>1, <1>2, <1>9, <1>12 DEF Placed
<1>14. Frames(c) = {}
  BY <1>9, EmptySequence, FramesAreItems
<1>15. /\ Frames(c)' = {w}
       /\ \A u \in Threads : u # c => Frames(u)' = Frames(u)
  BY <1>9, <1>12, <1>13, FramesAreItems
<1>16. w \notin scheduled /\ \A u \in Threads : w \notin Frames(u)
  BY <1>11 DEF Handled
<1>17. Placed'
  <2>1. scheduled' \subseteq RangeRecords /\ \A u \in Threads : Distinct(stack'[u])
    BY <1>1, <1>2, <1>12, <1>13 DEF Placed
  <2>2. \A u \in Threads : Frames(u)' \cap scheduled' = {}
    <3> SUFFICES ASSUME NEW u \in Threads PROVE Frames(u)' \cap scheduled' = {}
      OBVIOUS
    <3>1. Frames(u) \cap scheduled = {}
      BY <1>2 DEF Placed
    <3> QED
      BY <3>1, <1>1, <1>15, <1>16
  <2>3. \A u, v \in Threads : u # v => Frames(u)' \cap Frames(v)' = {}
    <3> SUFFICES ASSUME NEW u \in Threads, NEW v \in Threads, u # v
                 PROVE  Frames(u)' \cap Frames(v)' = {}
      OBVIOUS
    <3>1. Frames(u) \cap Frames(v) = {}
      BY <1>2 DEF Placed
    <3> QED
      BY <3>1, <1>15, <1>16
  <2>4. \A d \in Callers : pc'[d] = "search" => stack'[d] = <<>>
    <3>1. \A d \in Callers : d \in Threads
      BY DEF Threads
    <3> QED
      BY <3>1, <1>2, <1>7, <1>13 DEF Placed
  <2> QED
    BY <1>13, <2>1, <2>2, <2>3, <2>4 DEF Placed
<1>18. Handled' = Handled \cup {w}
  <2>1. Handled' = scheduled' \cup UNION {Frames(u)' : u \in Threads}
    BY DEF Handled
  <2>2. ASSUME NEW g \in Handled' PROVE g \in Handled \cup {w}
    <3>1. CASE g \in scheduled'
      BY <3>1, <1>1 DEF Handled
    <3>2. ASSUME NEW u \in Threads, g \in Frames(u)' PROVE g \in Handled \cup {w}
      BY <3>2, <1>15 DEF Handled
    <3> QED
      BY <3>1, <3>2, <2>1
  <2>3. w \in Handled'
    BY <2>1, <1>9, <1>15
  <2>4. ASSUME NEW g \in Handled PROVE g \in Handled'
    <3>1. CASE g \in scheduled
      BY <3>1, <2>1, <1>1
    <3>2. ASSUME NEW u \in Threads, g \in Frames(u) PROVE g \in Handled'
      BY <3>2, <2>1, <1>14, <1>15
    <3> QED
      BY <3>1, <3>2 DEF Handled
  <2> QED
    BY <2>2, <2>3, <2>4
<1>19. \A r, i : Holds(r, i)' <=> Holds(r, i)
  BY <1>1 DEF Holds, End
<1>20. \A i \in 0..(k.n - 1) : i \in Nat /\ Holds(w, i)
  BY <1>3, <1>10 DEF Holds, End
<1>21. RangesOK'
  <2>1. ASSUME NEW r \in Handled PROVE RangeOK(r)'
    <3>1. RangeOK(r) /\ r.of \in Callers \ {c}
      BY <1>2, <1>8, HandledAre DEF RangesOK
    <3> QED
      BY <3>1, <1>1, <1>7 DEF RangeOK, IsBlock
  <2>2. RangeOK(w)'
    <3>1. 0 % k.size = 0
      <4>1. (0 * k.size + 0) % k.size = 0 /\ 0 * k.size + 0 = 0
        BY <1>3, Residue
      <4> QED
        BY <4>1
    <3>2. k.n > 0
      BY <1>3
    <3>3. call'[w.of] = k /\ pc'[w.of] = "wait"
      BY <1>k, <1>1, <1>7, <1>10
    <3> QED
      BY <3>1, <3>2, <3>3, <1>10, <1>3 DEF RangeOK
  <2> QED
    BY <2>1, <2>2, <1>18 DEF RangesOK
<1>22. PartsApart'
  <2>1. \A r, s : Overlap(r, s)' <=> Overlap(r, s)
    BY <1>19 DEF Overlap
  <2>2. \A r \in Handled : ~Overlap(r, w) /\ ~Overlap(w, r)
    BY <1>8, <1>10 DEF Overlap
  <2> QED
    BY <2>1, <2>2, <1>2, <1>18 DEF PartsApart
<1>23. ASSUME NEW d \in Callers, d # c, NEW i
       PROVE  (Held(d, i)' <=> Held(d, i)) /\ (Pending(d, i)' <=> Pending(d, i))
  BY <1>10, <1>18, <1>19, <1>23 DEF Held, Pending
<1>24. ASSUME NEW i \in 0..(k.n - 1) PROVE Held(c, i)' /\ Pending(c, i)'
  BY <1>10, <1>18, <1>19, <1>20 DEF Held, Pending
<1>25. ASSUME NEW d \in Callers, d # c PROVE Starts(d)' = Starts(d)
  BY <1>1, <1>23, <1>25 DEF Starts
<1>26. Cardinality(Starts(c)') = k.blocks
  <2>1. Starts(c)' = {i \in 0..(call'[c].n - 1) : i % call'[c].size = 0 /\ Held(c, i)'}
    BY DEF Starts
  <2>2. call'[c] = k
    BY <1>k, <1>1
  <2>3. Starts(c)' = {i \in 0..(k.n - 1) : i % k.size = 0}
    BY <2>1, <2>2, <1>24
  <2>4. Cardinality({i \in 0..(k.n - 1) : i % k.size = 0}) = divup(k.n, k.size)
    BY <1>3, <1>4, BlocksOfACall
  <2> QED
    BY <2>3, <2>4, <1>3
<1>27. CountsOK'
  <2>1. /\ count' \in [Callers -> Nat] /\ count'[c] = k.blocks
        /\ \A d \in Callers : d # c => count'[d] = count[d]
    BY <1>1, <1>2, <1>5, <1>6 DEF CountsOK
  <2>2. ASSUME NEW d \in Callers, pc'[d] = "wait" PROVE count'[d] = Cardinality(Starts(d)')
    <3>1. CASE d = c
      BY <3>1, <2>1, <1>26
    <3>2. CASE d # c
      BY <3>2, <2>1, <2>2, <1>2, <1>7, <1>25 DEF CountsOK
    <3> QED
      BY <3>1, <3>2
  <2> QED
    BY <2>1, <2>2 DEF CountsOK
<1>28. RunsOK'
  <2>1. ASSUME NEW d \in Callers, d # c
        PROVE  \A i \in 0..(call[d].n - 1) :
                 /\ pc'[d] = "search" => runs[d][i] = 0
                 /\ pc'[d] = "wait" => runs[d][i] = IF Pending(d, i)' THEN 0 ELSE 1
                 /\ pc'[d] = "returned" => runs[d][i] = 1
    BY <2>1, <1>2, <1>7, <1>23 DEF RunsOK
  <2>2. \A i \in 0..(call[c].n - 1) : runs[c][i] = 0 /\ Pending(c, i)'
    BY <1>k, <1>1, <1>2, <1>24 DEF RunsOK
  <2>3. \A d \in Callers : DOMAIN runs[d] = 0..(call[d].n - 1)
    BY <1>2 DEF RunsOK
  <2>4. DOMAIN runs' = Callers
    BY <1>1, <1>2 DEF RunsOK
  <2>5. ASSUME NEW d \in Callers
        PROVE  \A i \in 0..(call[d].n - 1) :
                 /\ pc'[d] = "search" => runs[d][i] = 0
                 /\ pc'[d] = "wait" => runs[d][i] = IF Pending(d, i)' THEN 0 ELSE 1
                 /\ pc'[d] = "returned" => runs[d][i] = 1
    <3>1. CASE d = c
      BY <3>1, <2>2, <1>7
    <3>2. CASE d # c
      BY <3>2, <2>1
    <3> QED
      BY <3>1, <3>2
  <2> QED
    BY <2>3, <2>4, <2>5, <1>1 DEF RunsOK
<1> QED
  BY <1>17, <1>21, <1>22, <1>27, <1>28

-----------------------------------------------------------------------------
(* The invariant                                                           *)

(* The invariant holds at the start, *)
LEMMA InitInv == Init => Inv
<1> SUFFICES ASSUME Init PROVE Inv
  OBVIOUS
<1>1. CallsOK
  BY CallsInit
<1>2. /\ \A c \in Callers : call[c] = NoCall /\ pc[c] = "start"
      /\ count = [c \in Callers |-> 0] /\ scheduled = {}
      /\ stack = [t \in Threads |-> <<>>] /\ runs = [c \in Callers |-> <<>>]
  BY DEF Init
<1>3. \A t \in Threads : stack[t] = <<>> /\ Frames(t) = {}
  BY <1>2, EmptySequence, FramesAreItems
<1>4. Placed
  BY <1>2, <1>3, EmptySequence DEF Placed
<1>5. Handled = {}
  BY <1>2, <1>3 DEF Handled
<1>6. RangesOK /\ PartsApart
  BY <1>5 DEF RangesOK, PartsApart
<1>7. CountsOK
  BY <1>2 DEF CountsOK
<1>8. RunsOK
  <2>1. \A c \in Callers : call[c].n = 0
    BY <1>2 DEF NoCall
  <2>2. 0..(0 - 1) = {}
    OBVIOUS
  <2>3. DOMAIN <<>> = {}
    OBVIOUS
  <2>4. DOMAIN runs = Callers /\ \A c \in Callers : DOMAIN runs[c] = {}
    BY <1>2, <2>3
  <2> QED
    BY <2>1, <2>2, <2>4 DEF RunsOK
<1> QED
  BY <1>1, <1>4, <1>6, <1>7, <1>8 DEF Inv

(* and each step keeps it. *)
LEMMA NextInv == RoomForABlock /\ Inv /\ [Next]_vars => Inv'
<1> SUFFICES ASSUME RoomForABlock, Inv, [Next]_vars PROVE Inv'
  OBVIOUS
<1>1. CallsOK'
  BY CallsNext DEF Inv
<1> DEFINE Kept == Placed' /\ RangesOK' /\ PartsApart' /\ CountsOK' /\ RunsOK'
<1>2. ASSUME NEW c \in Callers, NEW a \in Calls, Start(c, a) PROVE Kept
  BY <1>2, StartKeeps
<1>3. ASSUME NEW c \in Callers, CallerStep(c) PROVE Kept
  BY <1>3, CoarsenKeeps, HandleAllKeeps, ReturnKeeps DEF CallerStep
<1>4. ASSUME NEW t \in Workers, WorkerStep(t) PROVE Kept
  BY <1>4, TakeKeeps DEF WorkerStep
<1>5. ASSUME NEW t \in Threads, HandleRange(t) PROVE Kept
  <2>1. CASE RunBlock(t)
    BY <2>1, RunBlockKeeps
  <2>2. CASE NotifyBarrier(t)
    BY <2>2, NotifyKeeps
  <2>3. CASE Split(t)
    BY <2>3, SplitKeeps
  <2>4. CASE ScheduleHalf(t, "right")
    BY <2>4, ScheduleRightKeeps
  <2>5. CASE ScheduleHalf(t, "left")
    BY <2>5, ScheduleLeftKeeps
  <2> QED
    BY <1>5, <2>1, <2>2, <2>3, <2>4, <2>5 DEF HandleRange
<1>6. ASSUME UNCHANGED vars PROVE Kept
  <2>1. UNCHANGED <<call, pc, count, scheduled, stack, runs>>
    BY <1>6 DEF vars
  <2>2. \A t : Frames(t)' = Frames(t)
    BY <2>1 DEF Frames
  <2>3. Handled' = Handled
    BY <2>1, <2>2 DEF Handled
  <2>4. /\ \A r : RangeOK(r)' <=> RangeOK(r)
        /\ \A r, i : Holds(r, i)' <=> Holds(r, i)
    BY <2>1 DEF RangeOK, IsBlock, Holds, End
  <2>5. \A c, i : (Held(c, i)' <=> Held(c, i)) /\ (Pending(c, i)' <=> Pending(c, i))
    BY <2>3, <2>4 DEF Held, Pending
  <2>6. Placed' /\ RangesOK' /\ PartsApart'
    BY <2>1, <2>2, <2>3, <2>4 DEF Inv, Placed, RangesOK, PartsApart, Overlap
  <2>7. CountsOK' /\ RunsOK'
    BY <2>1, <2>5, CountsStay, RunsStay DEF Inv
  <2> QED
    BY <2>6, <2>7
<1>7. Kept
  BY <1>2, <1>3, <1>4, <1>5, <1>6 DEF Next, Terminated
<1> QED
  BY <1>1, <1>7 DEF Inv

(* The ranges in the queues and on the stacks always make up what is left  *)
(* of each call, cut at the grid of its blocks, and the barrier counts     *)
(* their blocks.                                                           *)
THEOREM InvHolds == ASSUME RoomForABlock PROVE Spec => []Inv
<1>1. Inv /\ [Next]_vars => Inv'
  BY NextInv
<1> QED
  BY <1>1, InitInv, PTL DEF Spec

(* When ParallelFor returns, f has been called once for every index        *)
(* (threadpool_test.cc:61), and at no time twice for one.                  *)
THEOREM EveryIndexIsRunOnce == ASSUME RoomForABlock PROVE Spec => []EveryIndexOnce
<1>1. ASSUME Inv PROVE EveryIndexOnce
  <2> SUFFICES ASSUME NEW c \in Callers, NEW i \in DOMAIN runs[c]
               PROVE  runs[c][i] <= 1 /\ (pc[c] = "returned" => runs[c][i] = 1)
    BY DEF EveryIndexOnce
  <2>1. /\ pc[c] \in {"start", "search", "wait", "returned"}
        /\ pc[c] = "start" => call[c].n = 0
        /\ i \in 0..(call[c].n - 1)
    BY <1>1 DEF Inv, CallsOK, RunsOK
  <2>2. pc[c] # "start"
    <3>1. 0..(0 - 1) = {}
      OBVIOUS
    <3> QED
      BY <3>1, <2>1
  <2>3. runs[c][i] \in {0, 1} /\ (pc[c] = "returned" => runs[c][i] = 1)
    BY <1>1, <2>1, <2>2 DEF Inv, RunsOK
  <2> QED
    BY <2>3
<1> QED
  BY <1>1, InvHolds, PTL

(* Who holds a block is known by where it starts. *)
LEMMA BlocksByTheirStart ==
  ASSUME Inv, NEW c \in Callers, pc[c] = "wait"
  PROVE  Cardinality(OwedBlocks(c)) = Cardinality(Starts(c))
<1>1. CallsOK /\ Placed /\ PartsApart
  BY DEF Inv
<1>2. call[c].n \in Nat
  BY <1>1 DEF CallsOK, CallRecords
<1>3. Live(c) = {r \in Handled : r.of = c}
  BY DEF Live, Handled
<1> DEFINE g == [b \in OwedBlocks(c) |-> b[2]]
           S == OwedBlocks(c)
           T == Starts(c)
<1>4. ASSUME NEW b \in S
      PROVE  /\ b[1] \in Handled /\ b[1].of = c /\ b[2] \in 0..(call[c].n - 1) /\ b[2] \in Nat
             /\ Holds(b[1], b[2]) /\ b[2] % call[c].size = 0 /\ b = <<b[1], b[2]>>
  BY <1>2, <1>3 DEF OwedBlocks
<1>5. \A b \in S : b[2] \in T
  BY <1>4 DEF Starts, Held
<1>6. \A a, b \in S : a[2] = b[2] => a = b
  <2> SUFFICES ASSUME NEW a \in S, NEW b \in S, a[2] = b[2] PROVE a = b
    OBVIOUS
  <2>1. Overlap(a[1], b[1])
    BY <1>4 DEF Overlap
  <2>2. a[1] = b[1]
    BY <2>1, <1>1, <1>4 DEF PartsApart
  <2>3. a = <<a[1], a[2]>> /\ b = <<b[1], b[2]>>
    BY <1>4
  <2> QED
    BY <2>2, <2>3
<1>7. \A i \in T : \E b \in S : b[2] = i
  <2> SUFFICES ASSUME NEW i \in T PROVE \E b \in S : b[2] = i
    OBVIOUS
  <2>1. PICK r \in Handled : r.of = c /\ Holds(r, i)
    BY DEF Starts, Held
  <2>2. i \in 0..(call[c].n - 1) /\ i % call[c].size = 0
    BY DEF Starts
  <2>3. <<r, i>> \in Live(c) \X (0..(call[c].n - 1)) /\ <<r, i>>[1] = r /\ <<r, i>>[2] = i
    BY <1>3, <2>1, <2>2
  <2>4. <<r, i>> \in S
    BY <2>1, <2>2, <2>3 DEF OwedBlocks
  <2> QED
    BY <2>3, <2>4
<1>8. IsFiniteSet(T)
  BY <1>1, StartsAreFinite
<1> HIDE DEF S, T
<1>9. S = OwedBlocks(c)
  BY DEF S
<1>10. g \in Bijection(S, T)
  <2>1. g \in [S -> T]
    BY <1>5, <1>9
  <2>2. \A a, b \in S : g[a] = g[b] => a = b
    BY <1>6, <1>9
  <2>3. \A i \in T : \E b \in S : g[b] = i
    BY <1>7, <1>9
  <2> HIDE DEF g
  <2> QED
    BY <2>1, <2>2, <2>3, Zenon DEF Bijection, Injection, Surjection, IsInjective
<1> HIDE DEF g
<1>11. g \in Injection(S, T) /\ g \in Surjection(S, T)
  BY <1>10, Zenon DEF Bijection
<1>12. Cardinality(S) = Cardinality(T)
  BY <1>8, <1>11, FS_Injection
<1> QED
  BY <1>12 DEF S, T

(* The barrier counts the blocks that the queues and the stacks hold       *)
(* (device_thread_pool.h:195), and no range outlives the frame it refers   *)
(* to.                                                                     *)
THEOREM BarrierIsExact == ASSUME RoomForABlock PROVE Spec => []BarrierGuardsTheFrame
<1>1. ASSUME Inv PROVE TypeOK
  <2>1. \A c \in Callers : /\ call[c].n \in 0..(IntLimit - 1)
                           /\ call[c].size \in 0..call[c].n /\ call[c].blocks \in 0..call[c].n
    <3> SUFFICES ASSUME NEW c \in Callers
                 PROVE  /\ call[c].n \in 0..(IntLimit - 1)
                        /\ call[c].size \in 0..call[c].n /\ call[c].blocks \in 0..call[c].n
      OBVIOUS
    <3>1. /\ call[c].n \in Nat /\ call[c].size \in Nat /\ call[c].blocks \in Nat
          /\ call[c].n < IntLimit /\ call[c].size <= call[c].n /\ call[c].blocks <= call[c].n
      BY <1>1 DEF Inv, CallsOK, CallRecords
    <3>2. IntLimit \in Nat
      BY InputAssumption
    <3> QED
      BY <3>1, <3>2
  <2>2. RangeRecords \subseteq Ranges
    BY DEF RangeRecords, Ranges
  <2>3. \A s \in Seq(RangeRecords) : s \in Seq(Ranges)
    BY <2>2, SeqMonotonic
  <2>4. scheduled \subseteq Ranges /\ \A t \in Threads : stack[t] \in Seq(Ranges)
    BY <1>1, <2>2, <2>3 DEF Inv, Placed
  <2>5. \A c \in Callers : \A i \in DOMAIN runs[c] : runs[c][i] \in Nat
    <3> SUFFICES ASSUME NEW c \in Callers, NEW i \in DOMAIN runs[c] PROVE runs[c][i] \in Nat
      OBVIOUS
    <3>1. /\ pc[c] \in {"start", "search", "wait", "returned"}
          /\ pc[c] = "start" => call[c].n = 0
          /\ i \in 0..(call[c].n - 1)
      BY <1>1 DEF Inv, CallsOK, RunsOK
    <3>2. 0..(0 - 1) = {}
      OBVIOUS
    <3> QED
      BY <3>1, <3>2, <1>1 DEF Inv, RunsOK
  <2>6. count \in [Callers -> Nat] /\ pc \in [Callers -> {"start", "search", "wait", "returned"}]
    BY <1>1 DEF Inv, CallsOK, CountsOK
  <2> QED
    BY <2>1, <2>4, <2>5, <2>6 DEF TypeOK
<1>2. ASSUME Inv PROVE FrameOutlivesItsRanges
  <2> SUFFICES ASSUME NEW c \in Callers, pc[c] = "returned" PROVE Live(c) = {}
    BY DEF FrameOutlivesItsRanges
  <2>1. \A r \in Handled : r.of # c
    BY <1>2, NoRanges DEF Inv
  <2> QED
    BY <2>1 DEF Live, Handled
<1>3. ASSUME Inv PROVE BarrierCountsTheBlocks
  BY <1>3, BlocksByTheirStart DEF BarrierCountsTheBlocks, Inv, CountsOK
<1>4. Inv => BarrierGuardsTheFrame
  BY <1>1, <1>2, <1>3 DEF BarrierGuardsTheFrame
<1> QED
  BY <1>4, InvHolds, PTL
=============================================================================
