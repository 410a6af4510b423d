-------------------------- MODULE ThreadPoolProofs --------------------------
(***************************************************************************)
(* ThreadPool, for any number of workers, any tasks and any capacity of    *)
(* the queues:                                                             *)
(*   - blocked_ and spinning_ are exact (CountersAreExact);                *)
(*   - no task is stranded (WorkIsNeverStranded);                          *)
(*   - every task is run once, and the destructor returns after the last   *)
(*     one: the pool implements TaskPool (RunsEveryTaskOnce).              *)
(*                                                                         *)
(* Every action is one thread's: it moves that thread's label and walk and *)
(* no other's.  So a lemma says, for each part of the invariant, what a    *)
(* step of thread t does to the state this part is about (Blocks and       *)
(* Spins1, WorkerControl, WaitStep, StaysAlert, WorkerMoves), with one     *)
(* case per action, and another that such a step keeps the part.           *)
(*                                                                         *)
(* The first part is about the walk of Steal and NonEmptyQueueIndex alone  *)
(* (StealWalk): it visits every queue exactly once, for every number of    *)
(* queues and every draw of the random generator.  Euclid's loop keeps the *)
(* common divisors of its two numbers, so a step for which it ends at 1    *)
(* shares none with the number of queues; and then no fewer steps than     *)
(* there are queues lead back to the queue where the walk began.           *)
(* Induction over numbers is by the least counterexample.                  *)
(***************************************************************************)
EXTENDS ThreadPool, StealWalk, FiniteSetTheorems, FunctionTheorems, SequenceTheorems,
        WellFoundedInduction, TLAPS

-----------------------------------------------------------------------------
(* The walk over the queues                                                *)

Divides(d, x) == \E k \in Int : x = d * k

(* A set of natural numbers that is not empty has a least element. *)
LEMMA LeastElement ==
  ASSUME NEW T \in SUBSET Nat, T # {}
  PROVE  \E m \in T : \A k \in T : m <= k
<1>1. PICK m \in T : \A y \in T : ~ (<<y, m>> \in OpToRel(<, Nat))
  BY WFMin, NatLessThanWellFounded
<1>2. \A y \in T : ~(y < m)
  BY <1>1 DEF OpToRel
<1>3. m \in Nat /\ \A y \in T : y \in Nat
  OBVIOUS
<1> QED
  BY <1>2, <1>3

(* Division with remainder *)
LEMMA Quotient ==
  ASSUME NEW n \in Nat \ {0}, NEW x \in Int
  PROVE  /\ x \div n \in Int /\ x % n \in 0..(n - 1)
         /\ x = n * (x \div n) + (x % n)
  OBVIOUS

(* The remainder is the one number below n that division leaves. *)
LEMMA Residue ==
  ASSUME NEW n \in Nat \ {0}, NEW q \in Int, NEW r \in 0..(n - 1)
  PROVE  (n * q + r) % n = r
  OBVIOUS

(* Adding before or after taking the remainder *)
LEMMA ModuloOfSum ==
  ASSUME NEW n \in Nat \ {0}, NEW x \in Int, NEW y \in Int
  PROVE  ((x % n) + y) % n = (x + y) % n
<1> DEFINE q == x \div n
           r == x % n
           p == (r + y) \div n
           s == (r + y) % n
<1>1. q \in Int /\ r \in Int /\ x = n * q + r
  BY Quotient
<1>2. p \in Int /\ s \in 0..(n - 1) /\ r + y = n * p + s
  BY <1>1, Quotient
<1> HIDE DEF q, r, p, s
<1>3. x + y = n * (q + p) + s /\ q + p \in Int
  BY <1>1, <1>2
<1>4. (x + y) % n = s
  BY <1>2, <1>3, Residue
<1> QED
  BY <1>4 DEF s, r

-----------------------------------------------------------------------------
(* Euclid's algorithm *)

EuclidEquation(e, n) ==
  e = [b \in 0..n |-> [a \in 0..n |-> IF b = 0 THEN a ELSE e[a % b][b]]]

(* A step of Euclid's algorithm keeps the common divisors. *)
LEMMA CommonDivisors ==
  ASSUME NEW a \in Nat, NEW b \in Nat \ {0}, NEW d \in Nat \ {0}
  PROVE  Divides(d, a) /\ Divides(d, b) <=> Divides(d, b) /\ Divides(d, a % b)
<1> DEFINE q == a \div b
           r == a % b
<1>1. q \in Int /\ r \in Int /\ a = b * q + r
  BY Quotient
<1> HIDE DEF q, r
<1>2. ASSUME Divides(d, a), Divides(d, b) PROVE Divides(d, r)
  <2>1. PICK k \in Int : a = d * k
    BY <1>2 DEF Divides
  <2>2. PICK l \in Int : b = d * l
    BY <1>2 DEF Divides
  <2>3. r = d * (k - l * q) /\ k - l * q \in Int
    BY <1>1, <2>1, <2>2
  <2> QED
    BY <2>3 DEF Divides
<1>3. ASSUME Divides(d, r), Divides(d, b) PROVE Divides(d, a)
  <2>1. PICK k \in Int : r = d * k
    BY <1>3 DEF Divides
  <2>2. PICK l \in Int : b = d * l
    BY <1>3 DEF Divides
  <2>3. a = d * (l * q + k) /\ l * q + k \in Int
    BY <1>1, <2>1, <2>2
  <2> QED
    BY <2>3 DEF Divides
<1> QED
  BY <1>2, <1>3 DEF r

(* The recursion has a solution: the greatest common divisor. *)
LEMMA EuclidExists ==
  ASSUME NEW n \in Nat
  PROVE  \E e : EuclidEquation(e, n)
<1> DEFINE Common(a, b) == {d \in Nat \ {0} : Divides(d, a) /\ Divides(d, b)}
           Greatest(S) == CHOOSE g \in S : \A d \in S : d <= g
           gcd(b, a) == IF b = 0 THEN a ELSE Greatest(Common(a, b))
           e == [b \in 0..n |-> [a \in 0..n |-> gcd(b, a)]]
<1>1. ASSUME NEW a \in 0..n, NEW b \in 1..n PROVE gcd(b, a) = gcd(a % b, b)
  <2>1. Common(a, b) = Common(b, a % b)
    BY CommonDivisors
  <2>2. CASE a % b # 0
    BY <2>1, <2>2
  <2>3. CASE a % b = 0
    <3>1. Divides(b, b) /\ Divides(b, 0) /\ b \in Nat \ {0}
      BY DEF Divides
    <3>2. b \in Common(a, b)
      BY <2>1, <2>3, <3>1
    <3>3. \A d \in Common(a, b) : d \in Nat /\ d <= b
      BY <3>1 DEF Divides
    <3> HIDE DEF Common
    <3>4. Greatest(Common(a, b)) = b
      BY <3>1, <3>2, <3>3
    <3> QED
      BY <3>4, <2>3
  <2> QED
    BY <2>2, <2>3
<1>2. \A a \in 0..n, b \in 1..n : a % b \in 0..n
  BY Quotient
<1> HIDE DEF gcd
<1>3. \A a \in 0..n, b \in 1..n : e[b][a] = e[a % b][b]
  BY <1>1, <1>2
<1>4. \A a \in 0..n : e[0][a] = a
  BY DEF gcd
<1>5. ASSUME NEW b \in 0..n
      PROVE  e[b] = [a \in 0..n |-> IF b = 0 THEN a ELSE e[a % b][b]]
  <2>1. \A a \in 0..n : gcd(b, a) = IF b = 0 THEN a ELSE e[a % b][b]
    <3>1. \A a \in 0..n : e[b][a] = gcd(b, a)
      OBVIOUS
    <3> HIDE DEF e
    <3>2. CASE b = 0
      BY <3>1, <3>2, <1>4
    <3>3. CASE b # 0
      <4>1. b \in 1..n
        BY <3>3
      <4> QED
        BY <3>1, <3>3, <4>1, <1>3
    <3> QED
      BY <3>2, <3>3
  <2>2. e[b] = [a \in 0..n |-> gcd(b, a)]
    OBVIOUS
  <2> HIDE DEF e
  <2> QED
    BY <2>1, <2>2
<1>6. e = [b \in 0..n |-> e[b]]
  OBVIOUS
<1>7. EuclidEquation(e, n)
  <2> HIDE DEF e
  <2> QED
    BY <1>5, <1>6 DEF EuclidEquation
<1> QED
  BY <1>7

(* Gcd is a function that satisfies Euclid's equations. *)
LEMMA GcdIsEuclid ==
  ASSUME NEW n \in Nat
  PROVE  \E e : EuclidEquation(e, n) /\ \A i : Gcd(i, n) = e[n][i]
  BY EuclidExists, Zenon DEF EuclidEquation, Gcd

(* Every common divisor divides the result, *)
LEMMA DividesGcd ==
  ASSUME NEW n \in Nat, NEW i \in 0..n, NEW d \in Nat \ {0}, Divides(d, i), Divides(d, n)
  PROVE  Divides(d, Gcd(i, n))
<1>1. PICK e : EuclidEquation(e, n) /\ \A j : Gcd(j, n) = e[n][j]
  BY GcdIsEuclid
<1> DEFINE Bad == {b \in 0..n : \E a \in 0..n : /\ Divides(d, a) /\ Divides(d, b)
                                               /\ ~Divides(d, e[b][a])}
<1>2. Bad = {}
  <2> SUFFICES ASSUME Bad # {} PROVE FALSE
    OBVIOUS
  <2>1. Bad \in SUBSET Nat
    OBVIOUS
  <2>2. PICK b \in Bad : \A c \in Bad : b <= c
    <3> HIDE DEF Bad
    <3> QED
      BY <2>1, LeastElement
  <2>3. PICK a \in 0..n : Divides(d, a) /\ Divides(d, b) /\ ~Divides(d, e[b][a])
    OBVIOUS
  <2>4. b \in 0..n /\ e[b][a] = IF b = 0 THEN a ELSE e[a % b][b]
    BY <1>1 DEF EuclidEquation
  <2>5. b # 0
    BY <2>3, <2>4
  <2>6. a % b \in 0..(b - 1) /\ a \in Nat /\ b \in Nat \ {0}
    <3>1. a \in Nat /\ b \in Nat \ {0}
      BY <2>4, <2>5
    <3>2. \A x \in Nat, y \in Nat \ {0} : x % y \in 0..(y - 1)
      BY Quotient
    <3> QED
      BY <3>1, <3>2
  <2>7. Divides(d, a % b)
    BY <2>3, <2>6, CommonDivisors
  <2>8. a % b \in Bad
    BY <2>3, <2>4, <2>5, <2>6, <2>7
  <2> HIDE DEF Bad
  <2> QED
    BY <2>2, <2>6, <2>8
<1>3. n \in 0..n
  OBVIOUS
<1> QED
  BY <1>1, <1>2, <1>3

(* which is 1 for 1, *)
LEMMA GcdOfOne ==
  ASSUME NEW n \in Nat \ {0}
  PROVE  Gcd(1, n) = 1
<1>1. PICK e : EuclidEquation(e, n) /\ \A j : Gcd(j, n) = e[n][j]
  BY GcdIsEuclid
<1>2. \A b \in 0..n, a \in 0..n : e[b][a] = IF b = 0 THEN a ELSE e[a % b][b]
  BY <1>1 DEF EuclidEquation
<1>3. n % 1 = 0 /\ 1 % 1 = 0 /\ 1 \in 0..n /\ n \in 0..n /\ 0 \in 0..n
  OBVIOUS
<1>4. e[0][1] = 1 /\ e[1][n] = e[0][1]
  BY <1>2, <1>3
<1>5. CASE n = 1
  BY <1>1, <1>4, <1>5
<1>6. CASE n > 1
  <2>1. 1 % n = 1
    BY <1>6, Residue
  <2>2. e[n][1] = e[1][n]
    BY <1>2, <1>3, <1>6, <2>1
  <2> QED
    BY <1>1, <1>4, <2>2
<1> QED
  BY <1>5, <1>6

-----------------------------------------------------------------------------
(* Steps coprime to the number of queues *)

(* so a step that the constructor keeps shares only 1 with the size. *)
LEMMA CoprimeHasNoDivisor ==
  ASSUME NEW n \in Nat \ {0}, NEW i \in CoprimeSet(n), NEW d \in Nat \ {0},
         Divides(d, i), Divides(d, n)
  PROVE  d = 1
<1>1. i \in 0..n /\ Gcd(i, n) = 1
  BY DEF CoprimeSet
<1>2. PICK k \in Int : 1 = d * k
  <2>1. Divides(d, Gcd(i, n))
    BY <1>1, DividesGcd
  <2> QED
    BY <2>1, <1>1 DEF Divides
<1>3. k > 0
  BY <1>2
<1>4. d <= d * k
  BY <1>3
<1> QED
  BY <1>2, <1>4

(* The walk comes back to a queue after no fewer than n steps. *)
LEMMA NoShortCycle ==
  ASSUME NEW n \in Nat \ {0}, NEW i \in CoprimeSet(n), NEW j \in 1..(n - 1)
  PROVE  ~Divides(n, i * j)
<1> SUFFICES ASSUME Divides(n, i * j) PROVE FALSE
  OBVIOUS
<1>1. i \in 1..n
  BY DEF CoprimeSet
<1> DEFINE Back == {m \in Nat \ {0} : Divides(n, i * m)}
<1>2. PICK m \in Back : \A k \in Back : m <= k
  <2>1. Back \in SUBSET Nat /\ j \in Back
    OBVIOUS
  <2> HIDE DEF Back
  <2> QED
    BY <2>1, LeastElement
<1>3. m \in Nat \ {0} /\ m <= j /\ Divides(n, i * m)
  BY <1>2
<1>4. PICK t \in Int : i * m = n * t
  BY <1>3 DEF Divides
<1> DEFINE q == n \div m
           r == n % m
<1>5. q \in Int /\ r \in 0..(m - 1) /\ n = m * q + r
  BY <1>3, Quotient
<1> HIDE DEF q, r
<1>6. r = 0
  <2> SUFFICES ASSUME r # 0 PROVE FALSE
    OBVIOUS
  <2>1. i * r = i * n - (i * m) * q
    BY <1>1, <1>3, <1>5
  <2>2. i * r = n * (i - t * q) /\ i - t * q \in Int
    BY <1>1, <1>4, <1>5, <2>1
  <2>3. Divides(n, i * r)
    BY <2>2 DEF Divides
  <2>4. r \in Back
    BY <1>5, <2>3
  <2> HIDE DEF Back
  <2> QED
    BY <1>2, <1>3, <1>5, <2>4
<1>7. n = q * m /\ q > 1
  BY <1>3, <1>5, <1>6
<1>8. i * m = (q * t) * m
  BY <1>3, <1>4, <1>5, <1>7
<1>9. i = q * t
  BY <1>1, <1>3, <1>5, <1>8
<1>10. Divides(q, i) /\ Divides(q, n) /\ q \in Nat \ {0}
  BY <1>3, <1>5, <1>7, <1>9 DEF Divides
<1> QED
  BY <1>7, <1>10, CoprimeHasNoDivisor

(* Coprimes lists the set in ascending order: every rank is taken once. *)
LEMMA CoprimesListed ==
  ASSUME NEW n \in Nat \ {0}
  PROVE  /\ IsFiniteSet(CoprimeSet(n))
         /\ Cardinality(CoprimeSet(n)) \in Nat \ {0}
         /\ Len(Coprimes(n)) = Cardinality(CoprimeSet(n))
         /\ \A k \in 1..Len(Coprimes(n)) : Coprimes(n)[k] \in CoprimeSet(n)
<1> DEFINE C == CoprimeSet(n)
           c == Cardinality(C)
           upTo(i) == {j \in C : j <= i}
           rank == [i \in C |-> Cardinality(upTo(i))]
<1>1. IsFiniteSet(C) /\ C \subseteq 1..n
  <2>1. C \in SUBSET (1..n)
    BY DEF CoprimeSet
  <2>2. IsFiniteSet(1..n)
    BY FS_Interval
  <2> HIDE DEF C
  <2> QED
    BY <2>1, <2>2, FS_Subset
<1>2. 1 \in C
  BY GcdOfOne DEF CoprimeSet
<1>3. c \in Nat \ {0}
  BY <1>1, <1>2, FS_CardinalityType, FS_EmptySet
<1>4. \A i \in C : IsFiniteSet(upTo(i)) /\ rank[i] \in Nat /\ rank[i] <= c
  BY <1>1, FS_Subset, FS_CardinalityType
<1>5. ASSUME NEW i \in C, NEW j \in C, i < j PROVE rank[i] < rank[j]
  <2>1. i \in Nat /\ j \in Nat
    BY <1>1
  <2>2. upTo(i) \subseteq upTo(j) /\ j \in upTo(j) /\ j \notin upTo(i)
    BY <1>1, <1>5, <2>1
  <2>3. Cardinality(upTo(i)) <= Cardinality(upTo(j))
    BY <1>4, <2>2, FS_Subset
  <2>4. Cardinality(upTo(i)) # Cardinality(upTo(j))
    BY <1>4, <2>2, FS_Subset
  <2> QED
    BY <1>4, <2>3, <2>4
<1>6. \A i \in C : rank[i] \in 1..c
  <2> SUFFICES ASSUME NEW i \in C PROVE rank[i] # 0
    BY <1>3, <1>4
  <2>1. i \in upTo(i)
    BY <1>1
  <2> QED
    BY <1>4, <2>1, FS_EmptySet
<1>7. rank \in Injection(C, 1..c)
  <2>1. rank \in [C -> 1..c]
    BY <1>6
  <2>2. \A i, j \in C : rank[i] = rank[j] => i = j
    <3> SUFFICES ASSUME NEW i \in C, NEW j \in C, rank[i] = rank[j] PROVE i = j
      OBVIOUS
    <3>1. i \in Nat /\ j \in Nat /\ rank[i] \in Nat /\ rank[j] \in Nat
      BY <1>1, <1>4
    <3> HIDE DEF rank
    <3>2. ~(i < j) /\ ~(j < i)
      BY <3>1, <1>5
    <3> QED
      BY <3>1, <3>2
  <2> QED
    BY <2>1, <2>2, Fun_IsInj
<1>8. rank \in Surjection(C, 1..c)
  <2>1. IsFiniteSet(1..c) /\ Cardinality(1..c) = c
    BY <1>3, FS_Interval
  <2> QED
    BY <1>7, <2>1, FS_Injection
<1>9. \A k \in 1..c : \E i \in C : Cardinality(upTo(i)) = k
  <2>1. \A k \in 1..c : \E i \in C : rank[i] = k
    <3> HIDE DEF rank, c, C
    <3> QED
      BY <1>8, Fun_SurjectionProperties, Zenon
  <2> QED
    BY <2>1
<1>10. Coprimes(n) = [k \in 1..c |-> CHOOSE i \in C : Cardinality(upTo(i)) = k]
  BY DEF Coprimes
<1> HIDE DEF upTo, C
<1>11. \A k \in 1..c : Coprimes(n)[k] \in C
  BY <1>9, <1>10
<1>12. Coprimes(n) \in [1..c -> C]
  BY <1>10, <1>11
<1>13. Coprimes(n) \in Seq(C)
  BY <1>3, <1>12, SeqDef
<1>14. Len(Coprimes(n)) = c
  BY <1>3, <1>12, <1>13, LenProperties
<1> QED
  BY <1>1, <1>3, <1>11, <1>14 DEF C

(* Whatever the draw, the walk starts at a queue and has a coprime step. *)
LEMMA DrawnWalk ==
  ASSUME NEW n \in Nat \ {0}, NEW r \in Draws(n)
  PROVE  FirstVictim(r, n) \in 0..(n - 1) /\ Increment(r, n) \in CoprimeSet(n)
<1> DEFINE c == Len(Coprimes(n))
<1>1. c \in Nat \ {0} /\ \A k \in 1..c : Coprimes(n)[k] \in CoprimeSet(n)
  BY CoprimesListed
<1> HIDE DEF c
<1>2. n * c - 1 \in Int /\ r \in 0..(n * c - 1)
  BY <1>1 DEF Draws, c
<1>3. r \in Nat
  BY <1>2
<1>4. r % n \in 0..(n - 1) /\ r % c \in 0..(c - 1)
  BY <1>1, <1>3, Quotient
<1>5. (r % c) + 1 \in 1..c
  BY <1>1, <1>4
<1> QED
  BY <1>1, <1>4, <1>5 DEF FirstVictim, Increment, c

(* The queue j steps on from queue v *)
Stop(v, i, n, j) == (v + j * i) % n

(* One step of the walk goes from its stop j to its stop j + 1. *)
LEMMA OneStepOn ==
  ASSUME NEW n \in Nat \ {0}, NEW i \in CoprimeSet(n), NEW v \in 0..(n - 1)
  PROVE  /\ Stop(v, i, n, 0) = v
         /\ NextVictim(v, i, n) = (v + i) % n /\ NextVictim(v, i, n) \in 0..(n - 1)
         /\ \A j \in Int : /\ Stop(v, i, n, j) \in 0..(n - 1)
                           /\ NextVictim(Stop(v, i, n, j), i, n) = Stop(v, i, n, j + 1)
                           /\ Stop(NextVictim(v, i, n), i, n, j) = Stop(v, i, n, j + 1)
<1>1. i \in 1..n
  BY DEF CoprimeSet
<1>2. ASSUME NEW u \in 0..(n - 1)
      PROVE  NextVictim(u, i, n) = (u + i) % n /\ NextVictim(u, i, n) \in 0..(n - 1)
  <2>1. CASE u + i >= n
    <3>1. u + i - n \in 0..(n - 1) /\ u + i = n * 1 + (u + i - n)
      BY <1>1, <2>1
    <3>2. (n * 1 + (u + i - n)) % n = u + i - n
      BY <3>1, Residue
    <3> QED
      BY <2>1, <3>1, <3>2 DEF NextVictim
  <2>2. CASE u + i < n
    BY <1>1, <2>2 DEF NextVictim
  <2> QED
    BY <1>1, <2>1, <2>2
<1>3. \A j \in Int : v + j * i \in Int
  BY <1>1
<1>4. \A j \in Int : Stop(v, i, n, j) \in 0..(n - 1)
  BY <1>3, Quotient DEF Stop
<1>5. ASSUME NEW j \in Int PROVE (Stop(v, i, n, j) + i) % n = Stop(v, i, n, j + 1)
  <2> DEFINE x == v + j * i
  <2>1. x \in Int /\ i \in Int /\ v + (j + 1) * i = x + i
    BY <1>1, <1>3
  <2>2. Stop(v, i, n, j) = x % n /\ Stop(v, i, n, j + 1) = (x + i) % n
    BY <2>1 DEF Stop
  <2> HIDE DEF x
  <2> QED
    BY <2>1, <2>2, ModuloOfSum
<1>6. ASSUME NEW j \in Int PROVE Stop((v + i) % n, i, n, j) = Stop(v, i, n, j + 1)
  <2>1. v + i \in Int /\ j * i \in Int /\ v + (j + 1) * i = (v + i) + j * i
    BY <1>1
  <2> QED
    BY <2>1, ModuloOfSum DEF Stop
<1>7. Stop(v, i, n, 0) = v
  BY <1>1 DEF Stop
<1> QED
  BY <1>2, <1>4, <1>5, <1>6, <1>7

(* The first n stops are n different queues: all of them. *)
LEMMA StopsApart ==
  ASSUME NEW n \in Nat \ {0}, NEW i \in CoprimeSet(n), NEW v \in 0..(n - 1),
         NEW j \in 0..(n - 1), NEW k \in 0..(n - 1), Stop(v, i, n, j) = Stop(v, i, n, k)
  PROVE  j = k
<1>1. ASSUME NEW a \in 0..(n - 1), NEW b \in 0..(n - 1), a < b,
             Stop(v, i, n, a) = Stop(v, i, n, b)
      PROVE  FALSE
  <2> DEFINE x == v + a * i
             y == v + b * i
             p == x \div n
             q == y \div n
             s == x % n
  <2>1. i \in Nat /\ x \in Int /\ y \in Int /\ x % n = y % n
    BY <1>1 DEF CoprimeSet, Stop
  <2>2. p \in Int /\ q \in Int /\ s \in Int /\ x = n * p + s /\ y = n * q + s
    <3> HIDE DEF x, y
    <3> QED
      BY <2>1, Quotient
  <2> HIDE DEF p, q, s
  <2>3. i * (b - a) = n * (q - p) /\ q - p \in Int
    BY <2>1, <2>2
  <2>4. Divides(n, i * (b - a)) /\ b - a \in 1..(n - 1)
    BY <1>1, <2>3 DEF Divides
  <2> QED
    BY <2>4, NoShortCycle
<1>2. ~(j < k) /\ ~(k < j)
  BY <1>1
<1> QED
  BY <1>2

(* The first n stops of a walk are all the queues. *)
LEMMA StopsEverywhere ==
  ASSUME NEW n \in Nat \ {0}, NEW i \in CoprimeSet(n), NEW v \in 0..(n - 1)
  PROVE  \A u \in 0..(n - 1) : \E j \in 0..(n - 1) : Stop(v, i, n, j) = u
<1> DEFINE Q == 0..(n - 1)
           stop == [j \in Q |-> Stop(v, i, n, j)]
<1>1. stop \in [Q -> Q]
  BY OneStepOn
<1>2. \A j, k \in Q : stop[j] = stop[k] => j = k
  BY StopsApart
<1>3. stop \in Injection(Q, Q)
  BY <1>1, <1>2, Fun_IsInj
<1>4. IsFiniteSet(Q)
  BY FS_Interval
<1>5. stop \in Surjection(Q, Q)
  BY <1>3, <1>4, FS_Injection
<1>6. \A u \in Q : \E j \in Q : stop[j] = u
  <2> HIDE DEF stop, Q
  <2> QED
    BY <1>5, Fun_SurjectionProperties
<1> QED
  BY <1>6

-----------------------------------------------------------------------------
(* The walk *)

WalkInv ==
  /\ size \in Nat \ {0} /\ inc \in CoprimeSet(size)
  /\ visited \in Seq(0..(size - 1)) /\ Len(visited) <= size
  /\ \E v \in 0..(size - 1) :
       /\ victim = Stop(v, inc, size, Len(visited))
       /\ \A k \in 1..Len(visited) : visited[k] = Stop(v, inc, size, k - 1)

(* The walk's invariant at the start, *)
LEMMA WalkBegins == WalkInit => WalkInv
<1> SUFFICES ASSUME WalkInit PROVE WalkInv
  OBVIOUS
<1>1. size \in Nat \ {0}
  BY MaxThreadsAssumption DEF WalkInit
<1>2. inc \in CoprimeSet(size) /\ victim \in 0..(size - 1)
  BY <1>1, DrawnWalk DEF WalkInit
<1>3. victim = Stop(victim, inc, size, 0)
  BY <1>1, <1>2, OneStepOn
<1>4. visited = <<>> /\ visited \in Seq(0..(size - 1)) /\ Len(visited) = 0
  BY DEF WalkInit
<1> QED
  BY <1>1, <1>2, <1>3, <1>4 DEF WalkInv

(* after each step, *)
LEMMA WalkGoesOn == WalkInv /\ [WalkNext]_walkVars => WalkInv'
<1>1. ASSUME WalkInv, Visit PROVE WalkInv'
  <2>1. /\ size' = size /\ inc' = inc /\ Len(visited) < size
        /\ visited' = Append(visited, victim) /\ victim' = NextVictim(victim, inc, size)
    BY <1>1 DEF Visit
  <2>2. PICK v \in 0..(size - 1) :
          /\ victim = Stop(v, inc, size, Len(visited))
          /\ \A k \in 1..Len(visited) : visited[k] = Stop(v, inc, size, k - 1)
    BY <1>1 DEF WalkInv
  <2>3. /\ size \in Nat \ {0} /\ inc \in CoprimeSet(size)
        /\ visited \in Seq(0..(size - 1)) /\ Len(visited) \in Nat
    BY <1>1 DEF WalkInv
  <2>4. /\ victim \in 0..(size - 1)
        /\ victim' = Stop(v, inc, size, Len(visited) + 1)
    BY <2>1, <2>2, <2>3, OneStepOn
  <2>5. /\ visited' \in Seq(0..(size - 1)) /\ Len(visited') = Len(visited) + 1
        /\ \A k \in 1..Len(visited) : visited'[k] = visited[k]
        /\ visited'[Len(visited) + 1] = victim
    BY <2>1, <2>3, <2>4, AppendProperties
  <2>6. ASSUME NEW k \in 1..Len(visited') PROVE visited'[k] = Stop(v, inc, size, k - 1)
    <3>1. CASE k = Len(visited) + 1
      BY <3>1, <2>2, <2>3, <2>5
    <3>2. CASE k # Len(visited) + 1
      <4>1. k \in 1..Len(visited)
        BY <3>2, <2>3, <2>5
      <4> QED
        BY <4>1, <2>2, <2>5
    <3> QED
      BY <3>1, <3>2
  <2> QED
    BY <2>1, <2>2, <2>3, <2>4, <2>5, <2>6 DEF WalkInv
<1>2. ASSUME WalkInv, UNCHANGED walkVars PROVE WalkInv'
  BY <1>2 DEF WalkInv, walkVars
<1> QED
  BY <1>1, <1>2 DEF WalkNext, WalkDone

(* and what it says at the end *)
LEMMA WalkComplete == WalkInv => WalkVisitsEveryQueue
<1> SUFFICES ASSUME WalkInv PROVE WalkVisitsEveryQueue
  OBVIOUS
<1>1. PICK v \in 0..(size - 1) :
        /\ victim = Stop(v, inc, size, Len(visited))
        /\ \A k \in 1..Len(visited) : visited[k] = Stop(v, inc, size, k - 1)
  BY DEF WalkInv
<1>2. /\ size \in Nat \ {0} /\ inc \in CoprimeSet(size)
      /\ Len(visited) \in Nat /\ Len(visited) <= size
      /\ \A k \in 1..Len(visited) : visited[k] \in 0..(size - 1)
  BY DEF WalkInv
<1>3. \A i, j \in 1..Len(visited) : visited[i] = visited[j] => i = j
  <2> SUFFICES ASSUME NEW i \in 1..Len(visited), NEW j \in 1..Len(visited),
                      visited[i] = visited[j]
               PROVE  i = j
    OBVIOUS
  <2>1. i - 1 \in 0..(size - 1) /\ j - 1 \in 0..(size - 1)
    BY <1>2
  <2>2. Stop(v, inc, size, i - 1) = Stop(v, inc, size, j - 1)
    BY <1>1
  <2>3. i - 1 = j - 1
    BY <1>2, <2>1, <2>2, StopsApart
  <2> QED
    BY <2>3
<1>4. ASSUME Len(visited) = size
      PROVE  {visited[i] : i \in 1..size} = 0..(size - 1)
  <2>1. ASSUME NEW u \in 0..(size - 1) PROVE \E i \in 1..size : visited[i] = u
    <3>1. PICK j \in 0..(size - 1) : Stop(v, inc, size, j) = u
      BY <1>2, StopsEverywhere
    <3>2. j + 1 \in 1..size /\ (j + 1) - 1 = j
      BY <1>2
    <3>3. visited[j + 1] = u
      BY <1>1, <1>4, <3>1, <3>2
    <3> QED
      BY <3>2, <3>3
  <2> QED
    BY <1>2, <1>4, <2>1
<1> QED
  BY <1>3, <1>4 DEF WalkVisitsEveryQueue

(* WalkVisitsEveryQueue (non_blocking_thread_pool.h:189): a walk that      *)
(* finds nothing has looked at every queue, and at none twice.             *)
THEOREM WalkIsComplete == WalkSpec => []WalkVisitsEveryQueue
<1>1. WalkSpec => []WalkInv
  BY WalkBegins, WalkGoesOn, PTL DEF WalkSpec
<1> QED
  BY <1>1, WalkComplete, PTL

-----------------------------------------------------------------------------
(* The counters                                                            *)

(* The labels at which a worker that spins can be *)
SpinLabels == {"steal", "unlock"}

Walks == \A t \in Threads : "rounds" \in DOMAIN walk[t] /\ walk[t].rounds \in Nat

Counted ==
  /\ pc \in [Threads -> Labels]
  /\ DOMAIN walk = Threads /\ Walks
  /\ spinning \in BOOLEAN
  /\ BlockedIsExact
  /\ \A t \in Workers : walk[t].rounds > 0 => pc[t] \in SpinLabels
  /\ \A t, u \in Spinners : t = u
  /\ spinning <=> Spinners # {}

(* What an action of thread t does to its label, its walk and the counters *)
KeepsOthers(t) ==
  /\ pc' \in [Threads -> Labels] /\ DOMAIN walk' = Threads
  /\ \A u \in Threads \ {t} : pc'[u] = pc[u] /\ walk'[u] = walk[u]
  /\ "rounds" \in DOMAIN walk'[t] /\ walk'[t].rounds \in Nat

Blocks(t) ==
  \/ (pc[t] \in BlockedLabels <=> pc'[t] \in BlockedLabels) /\ blocked' = blocked
  \/ pc[t] \notin BlockedLabels /\ pc'[t] \in BlockedLabels /\ blocked' = blocked + 1
  \/ pc[t] \in BlockedLabels /\ pc'[t] \notin BlockedLabels /\ blocked' = blocked - 1

SpinsAt(t) == walk[t].rounds > 0 \/ pc[t] = "spin.stop"

Spins1(t) ==
  /\ walk'[t].rounds > 0 => pc'[t] \in SpinLabels
  /\ \/ (SpinsAt(t) <=> SpinsAt(t)') /\ spinning' = spinning
     \/ ~SpinsAt(t) /\ SpinsAt(t)' /\ ~spinning /\ spinning' = TRUE
     \/ SpinsAt(t) /\ ~SpinsAt(t)' /\ spinning' = FALSE

(* The workers are finitely many, and the owner is none of them. *)
LEMMA WorkersFinite ==
  /\ IsFiniteSet(Workers) /\ Workers \subseteq Nat /\ Main \notin Workers
  /\ Workers \subseteq Threads /\ Main \in Threads
<1>1. NumThreads - 1 \in Int /\ 0 \in Int /\ Main \notin Nat
  BY PoolAssumption
<1>2. IsFiniteSet(0..(NumThreads - 1))
  BY <1>1, FS_Interval
<1> QED
  BY <1>1, <1>2 DEF Workers, Threads

(* So the blocked ones have a number. *)
LEMMA BlockedFinite ==
  IsFiniteSet(BlockedWorkers) /\ Cardinality(BlockedWorkers) \in Nat
<1>1. IsFiniteSet(BlockedWorkers)
  BY WorkersFinite, FS_Subset DEF BlockedWorkers
<1> QED
  BY <1>1, FS_CardinalityType

(* A worker's step that moves blocked_ together with its label *)
LEMMA WorkerKeepsCounts ==
  ASSUME Counted, NEW t \in Workers, KeepsOthers(t), Blocks(t), Spins1(t)
  PROVE  Counted'
<1>1. t \in Threads /\ \A u \in Workers \ {t} : u \in Threads \ {t}
  BY WorkersFinite
<1>2. Walks' /\ spinning' \in BOOLEAN
  BY <1>1 DEF Counted, KeepsOthers, Walks, Spins1
<1>3. BlockedIsExact'
  <2>1. CASE (pc[t] \in BlockedLabels <=> pc'[t] \in BlockedLabels) /\ blocked' = blocked
    <3>1. BlockedWorkers' = BlockedWorkers
      BY <2>1, <1>1 DEF BlockedWorkers, KeepsOthers
    <3> QED
      BY <3>1, <2>1 DEF Counted, BlockedIsExact
  <2>2. CASE pc[t] \notin BlockedLabels /\ pc'[t] \in BlockedLabels /\ blocked' = blocked + 1
    <3>1. BlockedWorkers' = BlockedWorkers \cup {t} /\ t \notin BlockedWorkers
      BY <2>2, <1>1 DEF BlockedWorkers, KeepsOthers
    <3>2. Cardinality(BlockedWorkers') = Cardinality(BlockedWorkers) + 1
      BY <3>1, BlockedFinite, FS_AddElement
    <3> QED
      BY <3>2, <2>2 DEF Counted, BlockedIsExact
  <2>3. CASE pc[t] \in BlockedLabels /\ pc'[t] \notin BlockedLabels /\ blocked' = blocked - 1
    <3>1. BlockedWorkers' = BlockedWorkers \ {t} /\ t \in BlockedWorkers
      BY <2>3, <1>1 DEF BlockedWorkers, KeepsOthers
    <3>2. Cardinality(BlockedWorkers') = Cardinality(BlockedWorkers) - 1
      BY <3>1, BlockedFinite, FS_RemoveElement
    <3> QED
      BY <3>2, <2>3 DEF Counted, BlockedIsExact
  <2> QED
    BY <2>1, <2>2, <2>3 DEF Blocks
<1>4. \A u \in Workers \ {t} : u \in Spinners' <=> u \in Spinners
  BY <1>1 DEF Spinners, KeepsOthers
<1>5. t \in Spinners <=> SpinsAt(t)
  BY DEF Spinners, SpinsAt
<1>6. t \in Spinners' <=> SpinsAt(t)'
  BY DEF Spinners, SpinsAt
<1>7. Spinners \subseteq Workers /\ Spinners' \subseteq Workers
  BY DEF Spinners
<1>8. /\ \A u, v \in Spinners' : u = v
      /\ spinning' <=> Spinners' # {}
  <2> USE DEF Counted, SpinsAt
  <2>1. CASE (SpinsAt(t) <=> SpinsAt(t)') /\ spinning' = spinning
    <3>1. t \in Spinners' <=> t \in Spinners
      BY <2>1, <1>5, <1>6
    <3>2. \A u \in Workers : u \in Spinners' <=> u \in Spinners
      BY <3>1, <1>4
    <3>3. Spinners' = Spinners
      <4> HIDE DEF Counted, SpinsAt
      <4> QED BY <3>2, <1>7
    <3> QED BY <3>3, <2>1
  <2>2. CASE ~SpinsAt(t) /\ SpinsAt(t)' /\ ~spinning /\ spinning' = TRUE
    <3>1. Spinners' = {t}
      BY <2>2, <1>4, <1>6, <1>7
    <3> QED BY <3>1, <2>2
  <2>3. CASE SpinsAt(t) /\ ~SpinsAt(t)' /\ spinning' = FALSE
    <3>1. Spinners = {t}
      BY <2>3, <1>5
    <3>2. Spinners' = {}
      BY <2>3, <3>1, <1>4, <1>6, <1>7
    <3> QED BY <3>2, <2>3
  <2> QED
    BY <2>1, <2>2, <2>3 DEF Spins1
<1>9. \A u \in Workers : walk'[u].rounds > 0 => pc'[u] \in SpinLabels
  BY <1>1 DEF Counted, KeepsOthers, Spins1
<1> QED
  BY <1>2, <1>3, <1>8, <1>9 DEF Counted, KeepsOthers

(* The owner of the pool is not a worker: what it does leaves them alone.  *)
LEMMA OwnerKeepsCounts ==
  ASSUME Counted, KeepsOthers(Main), UNCHANGED <<blocked, spinning>>
  PROVE  Counted'
<1>1. \A u \in Workers : pc'[u] = pc[u] /\ walk'[u] = walk[u]
  BY WorkersFinite DEF KeepsOthers
<1>2. BlockedWorkers' = BlockedWorkers /\ Spinners' = Spinners
  BY <1>1 DEF BlockedWorkers, Spinners
<1>3. Walks'
  BY DEF Counted, KeepsOthers, Walks
<1> QED
  BY <1>1, <1>2, <1>3 DEF Counted, BlockedIsExact, KeepsOthers

(* Nobody is blocked and nobody spins at first. *)
LEMMA InitCounted == Init => Counted
<1> SUFFICES ASSUME Init PROVE Counted
  OBVIOUS
<1>1. \A t \in Workers : pc[t] = "loop"
  BY WorkersFinite DEF Init
<1>2. /\ pc \in [Threads -> Labels]
      /\ DOMAIN walk = Threads
      /\ \A t \in Threads : walk[t] = NoWalk
  BY DEF Init, Labels
<1>3. Walks
  BY <1>2 DEF Walks, NoWalk
<1>4. BlockedWorkers = {} /\ Spinners = {}
  <2>1. \A t \in Workers : ~(walk[t].rounds > 0)
    BY <1>2, WorkersFinite DEF NoWalk
  <2> QED
    BY <2>1, <1>1 DEF BlockedWorkers, BlockedLabels, Spinners
<1>5. BlockedIsExact
  BY <1>4, FS_EmptySet DEF Init, BlockedIsExact
<1>6. \A t \in Workers : ~(walk[t].rounds > 0)
  BY <1>2, WorkersFinite DEF NoWalk
<1> QED
  BY <1>2, <1>3, <1>4, <1>5, <1>6 DEF Init, Counted

(* Every action of a worker moves blocked_ and spinning_ with its label. *)
LEMMA WorkerStepCounts ==
  ASSUME Counted, NEW t \in Workers, WorkerNext(t)
  PROVE  KeepsOthers(t) /\ Blocks(t) /\ Spins1(t)
<1>0. /\ t \in Threads /\ t # Main
      /\ walk[t].rounds \in Nat /\ "rounds" \in DOMAIN walk[t]
  BY WorkersFinite DEF Counted, Walks
<1> USE <1>0 DEF Counted, Go, Labels, BlockedLabels, SpinLabels, KeepsOthers, Blocks, Spins1,
                 SpinsAt
<1>1. CASE ScheduleOwn(t)
  BY <1>1 DEF ScheduleOwn
<1>2. CASE ScheduleInline(t)
  BY <1>2 DEF ScheduleInline
<1>3. CASE ScheduleNotify(t)
  BY <1>3 DEF ScheduleNotify
<1>4. CASE TaskReturns(t)
  BY <1>4 DEF TaskReturns
<1>5. CASE LoopPopFront(t)
  BY <1>5 DEF LoopPopFront, WalkFrom
<1>6. CASE PopBackUnlock(t)
  BY <1>6 DEF PopBackUnlock, NoWalk
<1>7. CASE StealTakes(t)
  BY <1>7 DEF StealTakes, PopBackTakes
<1>8. CASE StealFails(t)
  BY <1>8 DEF StealFails, Onward
<1>9. CASE StealEnds(t)
  BY <1>9 DEF StealEnds, WalkFrom, NoWalk
<1>10. CASE SpinStop(t)
  BY <1>10 DEF SpinStop
<1>11. CASE Prewait(t)
  BY <1>11 DEF Prewait, WalkFrom
<1>12. CASE CheckQueues(t)
  <2>1. CASE Found(t, "check", "cancel")
    BY <2>1 DEF Found
  <2>2. CASE Visited(t, "check")
    BY <2>2 DEF Visited, Onward
  <2>3. CASE NoneFound(t, "check", "block")
    BY <2>3 DEF NoneFound, NoWalk
  <2> QED
    BY <1>12, <2>1, <2>2, <2>3 DEF CheckQueues
<1>13. CASE CancelThenPop(t)
  BY <1>13 DEF CancelThenPop
<1>14. CASE PopFound(t)
  BY <1>14 DEF PopFound, PopBackTakes, NoWalk
<1>15. CASE Block(t)
  BY <1>15 DEF Block
<1>16. CASE TestDone(t)
  BY <1>16 DEF TestDone
<1>17. CASE TestBlocked(t)
  BY <1>17 DEF TestBlocked
<1>18. CASE Commit(t)
  BY <1>18 DEF Commit
<1>19. CASE WakeUp(t)
  BY <1>19 DEF WakeUp
<1>20. CASE Unblock(t)
  BY <1>20 DEF Unblock
<1>21. CASE ExitCancel(t)
  BY <1>21 DEF ExitCancel, WalkFrom
<1>22. CASE ExitCheck(t)
  <2>1. CASE FoundAfterAll(t)
    BY <2>1 DEF FoundAfterAll, NoWalk
  <2>2. CASE Visited(t, "exit.check")
    BY <2>2 DEF Visited, Onward
  <2>3. CASE NoneFound(t, "exit.check", "exit.notify")
    BY <2>3 DEF NoneFound, NoWalk
  <2> QED
    BY <1>22, <2>1, <2>2, <2>3 DEF ExitCheck
<1>23. CASE Exit(t)
  BY <1>23 DEF Exit
<1>24. ~ScheduleUnlock(t) /\ \A q \in Workers : ~ScheduleRandom(t, q)
  BY DEF ScheduleUnlock, ScheduleRandom
<1> QED
  BY <1>1, <1>2, <1>3, <1>4, <1>5, <1>6, <1>7, <1>8, <1>9, <1>10, <1>11, <1>12, <1>13, <1>14, <1>15, <1>16, <1>17, <1>18, <1>19, <1>20, <1>21, <1>22, <1>23, <1>24 DEF WorkerNext, Schedule, WorkerLoop, WaitForWork

(* The owner schedules, or destroys the pool. *)
LEMMA OwnerStepCounts ==
  ASSUME Counted, MainNext \/ Terminated
  PROVE  KeepsOthers(Main) /\ UNCHANGED <<blocked, spinning>>
<1>0. /\ Main \in Threads /\ Main \notin Workers
      /\ walk[Main].rounds \in Nat /\ "rounds" \in DOMAIN walk[Main]
  BY WorkersFinite DEF Counted, Walks
<1> USE <1>0 DEF Counted, Go, Labels, KeepsOthers
<1>1. CASE \E q \in Workers : ScheduleRandom(Main, q)
  BY <1>1 DEF ScheduleRandom
<1>2. CASE ScheduleUnlock(Main)
  BY <1>2 DEF ScheduleUnlock
<1>3. CASE ScheduleInline(Main)
  BY <1>3 DEF ScheduleInline
<1>4. CASE ScheduleNotify(Main)
  BY <1>4 DEF ScheduleNotify
<1>5. CASE TaskReturns(Main)
  BY <1>5 DEF TaskReturns
<1>6. CASE SetDone
  BY <1>6 DEF SetDone
<1>7. CASE DestroyNotify
  BY <1>7 DEF DestroyNotify
<1>8. CASE JoinAndDelete
  BY <1>8 DEF JoinAndDelete
<1>9. CASE Terminated
  BY <1>9 DEF Terminated, vars
<1>10. ~ScheduleOwn(Main)
  BY DEF ScheduleOwn
<1> QED
  BY <1>1, <1>2, <1>3, <1>4, <1>5, <1>6, <1>7, <1>8, <1>9, <1>10 DEF MainNext, Schedule

(* Every step keeps the counters exact. *)
LEMMA StepKeepsCounted == Counted /\ [Next]_vars => Counted'
<1> SUFFICES ASSUME Counted, [Next]_vars PROVE Counted'
  OBVIOUS
<1>1. ASSUME NEW t \in Workers, WorkerNext(t) PROVE Counted'
  BY <1>1, WorkerStepCounts, WorkerKeepsCounts
<1>2. ASSUME MainNext \/ Terminated PROVE Counted'
  BY <1>2, OwnerStepCounts, OwnerKeepsCounts
<1>3. ASSUME UNCHANGED vars PROVE Counted'
  BY <1>3 DEF vars, Counted, Walks, BlockedIsExact, BlockedWorkers, Spinners
<1> QED
  BY <1>1, <1>2, <1>3 DEF Next

(* The counters are exact in every reachable state. *)
THEOREM CountedHolds == Spec => []Counted
<1>1. Init => Counted
  BY InitCounted
<1>2. Counted /\ [Next]_vars => Counted'
  BY StepKeepsCounted
<1> QED
  BY <1>1, <1>2, PTL DEF Spec

(* blocked_ is the number of workers that are blocked or have left, so the *)
(* worker that reads num_threads is right to conclude that all of them are *)
(* (non_blocking_thread_pool.h:169).                                       *)
THEOREM BlockedCountIsExact == Spec => []BlockedIsExact
<1>1. Counted => BlockedIsExact
  BY DEF Counted
<1> QED
  BY <1>1, CountedHolds, PTL

(* At most one worker spins, and spinning_ is set exactly while one does.  *)
THEOREM AtMostOneSpinner == Spec => []OneSpinner
<1>1. Counted => OneSpinner
  <2> SUFFICES ASSUME Counted PROVE OneSpinner
    OBVIOUS
  <2>1. CASE Spinners = {}
    BY <2>1, FS_EmptySet DEF Counted, OneSpinner
  <2>2. CASE Spinners # {}
    <3>1. PICK t : t \in Spinners
      BY <2>2
    <3>2. Spinners = {t}
      BY <3>1 DEF Counted
    <3>3. Cardinality(Spinners) = 1
      BY <3>2, FS_Singleton
    <3> QED
      BY <3>3, <2>2 DEF Counted, OneSpinner
  <2> QED
    BY <2>1, <2>2
<1> QED
  BY <1>1, CountedHolds, PTL

(* The two counters, together. *)
THEOREM ExactCounters == Spec => []CountersAreExact
<1>1. BlockedIsExact /\ OneSpinner => CountersAreExact
  BY DEF CountersAreExact
<1> QED
  BY <1>1, BlockedCountIsExact, AtMostOneSpinner, PTL

-----------------------------------------------------------------------------
(* Sequences, by their elements *)

Items(s) == {s[i] : i \in 1..Len(s)}
Distinct(s) == \A i, j \in 1..Len(s) : s[i] = s[j] => i = j

(* The items of a sequence, and when there are none *)
LEMMA ItemsOfSeq ==
  ASSUME NEW S, NEW s \in Seq(S)
  PROVE  /\ Len(s) \in Nat /\ Items(s) \subseteq S
         /\ s = <<>> <=> Items(s) = {}
         /\ s = <<>> <=> Len(s) = 0
<1>1. Len(s) \in Nat /\ \A i \in 1..Len(s) : s[i] \in S
  BY LenProperties, ElementOfSeq
<1>2. s = <<>> <=> Len(s) = 0
  BY EmptySeq
<1>3. Len(s) = 0 <=> Items(s) = {}
  <2>1. CASE Len(s) = 0
    BY <2>1 DEF Items
  <2>2. CASE Len(s) # 0
    <3>1. s[1] \in Items(s)
      BY <2>2, <1>1 DEF Items
    <3> QED
      BY <3>1, <2>2
  <2> QED
    BY <2>1, <2>2
<1> QED
  BY <1>1, <1>2, <1>3 DEF Items

(* The empty sequence *)
LEMMA EmptySequence == Items(<<>>) = {} /\ Distinct(<<>>) /\ Len(<<>>) = 0
  BY DEF Items, Distinct

(* One more item in front, *)
LEMMA PushedInFront ==
  ASSUME NEW S, NEW s \in Seq(S), NEW x \in S
  PROVE  /\ <<x>> \o s \in Seq(S) /\ Len(<<x>> \o s) = Len(s) + 1
         /\ (<<x>> \o s)[1] = x
         /\ \A i \in 1..Len(s) : (<<x>> \o s)[i + 1] = s[i]
         /\ Items(<<x>> \o s) = {x} \cup Items(s)
         /\ x \notin Items(s) /\ Distinct(s) => Distinct(<<x>> \o s)
<1> DEFINE t == <<x>> \o s
<1>1. <<x>> \in Seq(S) /\ Len(<<x>>) = 1 /\ <<x>>[1] = x /\ Len(s) \in Nat
  OBVIOUS
<1>2. /\ t \in Seq(S) /\ Len(t) = Len(s) + 1
      /\ \A i \in 1..(Len(s) + 1) : t[i] = IF i <= 1 THEN <<x>>[i] ELSE s[i - 1]
  BY <1>1, ConcatProperties
<1>3. t[1] = x /\ \A i \in 1..Len(s) : t[i + 1] = s[i]
  BY <1>1, <1>2
<1> HIDE DEF t
<1>4. Items(t) = {x} \cup Items(s)
  <2>1. \A i \in 1..Len(t) : i = 1 \/ i - 1 \in 1..Len(s)
    BY <1>1, <1>2
  <2>2. \A i \in 1..Len(t) : t[i] = x \/ \E j \in 1..Len(s) : t[i] = s[j]
    BY <1>1, <1>2, <1>3, <2>1
  <2>3. 1 \in 1..Len(t) /\ \A j \in 1..Len(s) : j + 1 \in 1..Len(t)
    BY <1>1, <1>2
  <2> QED
    BY <1>3, <2>2, <2>3, SMTT(30) DEF Items
<1>5. ASSUME x \notin Items(s), Distinct(s) PROVE Distinct(t)
  <2>1. \A j \in 1..Len(s) : s[j] # x
    BY <1>5 DEF Items
  <2>2. \A i \in 1..Len(t) : i = 1 \/ (i - 1 \in 1..Len(s) /\ t[i] = s[i - 1])
    BY <1>1, <1>2
  <2>3. \A i \in 1..Len(t), j \in 1..Len(t) : i # 1 /\ j # 1 /\ t[i] = t[j] => i = j
    BY <1>1, <1>2, <1>5, <2>2 DEF Distinct
  <2> QED
    BY <1>3, <2>1, <2>2, <2>3 DEF Distinct
<1> QED
  BY <1>2, <1>3, <1>4, <1>5 DEF t

(* one more behind, *)
LEMMA PushedBehind ==
  ASSUME NEW S, NEW s \in Seq(S), NEW x \in S
  PROVE  /\ Append(s, x) \in Seq(S) /\ Len(Append(s, x)) = Len(s) + 1
         /\ Items(Append(s, x)) = {x} \cup Items(s)
         /\ x \notin Items(s) /\ Distinct(s) => Distinct(Append(s, x))
<1> DEFINE t == Append(s, x)
<1>1. /\ t \in Seq(S) /\ Len(t) = Len(s) + 1 /\ Len(s) \in Nat
      /\ \A i \in 1..Len(s) : t[i] = s[i]
      /\ t[Len(s) + 1] = x
  BY AppendProperties, LenProperties
<1> HIDE DEF t
<1>2. Items(t) = {x} \cup Items(s)
  <2>1. \A i \in 1..Len(t) : i = Len(s) + 1 \/ i \in 1..Len(s)
    BY <1>1
  <2>2. Len(s) + 1 \in 1..Len(t) /\ \A i \in 1..Len(s) : i \in 1..Len(t)
    BY <1>1
  <2> QED
    BY <1>1, <2>1, <2>2 DEF Items
<1>3. ASSUME x \notin Items(s), Distinct(s) PROVE Distinct(t)
  <2>1. \A j \in 1..Len(s) : s[j] # x
    BY <1>3 DEF Items
  <2> QED
    BY <1>1, <1>3, <2>1 DEF Distinct
<1> QED
  BY <1>1, <1>2, <1>3 DEF t

(* one less in front, *)
LEMMA PoppedInFront ==
  ASSUME NEW S, NEW s \in Seq(S), s # <<>>, Distinct(s)
  PROVE  /\ Head(s) \in Items(s) /\ Head(s) \in S /\ Head(s) = s[1]
         /\ Tail(s) \in Seq(S) /\ Len(Tail(s)) = Len(s) - 1 /\ Distinct(Tail(s))
         /\ Items(Tail(s)) = Items(s) \ {Head(s)}
         /\ \A i \in 1..Len(Tail(s)) : Tail(s)[i] = s[i + 1]
<1> DEFINE t == Tail(s)
           x == Head(s)
<1>1. /\ Len(s) \in Nat \ {0} /\ t \in Seq(S) /\ Len(t) = Len(s) - 1
      /\ \A i \in 1..Len(t) : t[i] = s[i + 1]
  BY EmptySeq, HeadTailProperties
<1>2. x = s[1]
  OBVIOUS
<1> HIDE DEF t, x
<1>3. x \in Items(s) /\ x \in S
  BY <1>1, <1>2, ElementOfSeq DEF Items
<1>4. Distinct(t)
  BY <1>1 DEF Distinct
<1>5. Items(t) = Items(s) \ {x}
  <2>1. \A i \in 1..Len(t) : i + 1 \in 1..Len(s) /\ t[i] # x
    BY <1>1, <1>2 DEF Distinct
  <2>2. \A i \in 1..Len(s) : s[i] # x => i - 1 \in 1..Len(t) /\ t[i - 1] = s[i]
    BY <1>1, <1>2
  <2> QED
    BY <1>1, <2>1, <2>2 DEF Items
<1> QED
  BY <1>1, <1>2, <1>3, <1>4, <1>5 DEF t, x

(* and one less behind *)
LEMMA PoppedBehind ==
  ASSUME NEW S, NEW s \in Seq(S), s # <<>>, Distinct(s)
  PROVE  LET t == SubSeq(s, 1, Len(s) - 1)
             x == s[Len(s)]
         IN  /\ x \in Items(s) /\ x \in S
             /\ t \in Seq(S) /\ Len(t) = Len(s) - 1 /\ Distinct(t)
             /\ Items(t) = Items(s) \ {x}
<1> DEFINE t == SubSeq(s, 1, Len(s) - 1)
           x == s[Len(s)]
<1>1. Len(s) \in Nat \ {0} /\ \A i \in 1..(Len(s) - 1) : s[i] \in S
  BY EmptySeq, ElementOfSeq
<1>2. /\ t \in Seq(S) /\ Len(t) = Len(s) - 1
      /\ \A i \in 1..(Len(s) - 1) : t[i] = s[i]
  <2> DEFINE n == Len(s) - 1
  <2>1. n \in Int /\ n >= 0 /\ 1 \in Int /\ n - 1 + 1 = n
    BY <1>1
  <2>2. \A i \in 1..n : s[i] \in S
    BY <1>1
  <2> HIDE DEF n
  <2>3. /\ SubSeq(s, 1, n) \in Seq(S)
        /\ Len(SubSeq(s, 1, n)) = IF 1 <= n THEN n - 1 + 1 ELSE 0
        /\ \A i \in 1..(n - 1 + 1) : SubSeq(s, 1, n)[i] = s[1 + i - 1]
    BY <2>1, <2>2, SubSeqProperties
  <2>4. \A i \in 1..n : SubSeq(s, 1, n)[i] = s[i]
    BY <2>1, <2>3
  <2>5. Len(SubSeq(s, 1, n)) = n
    BY <2>1, <2>3
  <2> QED
    BY <2>3, <2>4, <2>5 DEF n
<1>3. x \in Items(s) /\ x \in S
  BY <1>1, ElementOfSeq DEF Items
<1> HIDE DEF t
<1>4. Distinct(t)
  BY <1>1, <1>2 DEF Distinct
<1>5. Items(t) = Items(s) \ {x}
  <2>1. \A i \in 1..Len(t) : i \in 1..Len(s) /\ t[i] = s[i] /\ t[i] # x
    BY <1>1, <1>2 DEF Distinct
  <2>2. \A i \in 1..Len(s) : s[i] # x => i \in 1..Len(t)
    BY <1>1, <1>2
  <2> QED
    BY <1>1, <2>1, <2>2 DEF Items
<1> QED
  BY <1>2, <1>3, <1>4, <1>5 DEF t

-----------------------------------------------------------------------------
(* Who is registered with the event count.  all: the workers between       *)
(* Prewait and their return from the wait; atPark: those that fell asleep. *)

Waiting(an, pk, re, all, atPark) ==
  /\ an \in Seq(Workers) /\ pk \in Seq(Workers)
  /\ Distinct(an) /\ Distinct(pk)
  /\ all \subseteq Workers
  /\ Items(an) \cup Items(pk) \cup re = all
  /\ Items(an) \cap Items(pk) = {}
  /\ re \cap (Items(an) \cup Items(pk)) = {}
  /\ Items(pk) \subseteq atPark /\ atPark \subseteq all /\ Items(an) \cap atPark = {}

(* An announcement keeps the book of the event count's waiters, *)
LEMMA WaitingPrewait ==
  ASSUME NEW all, NEW atPark, NEW u \in Workers,
         Waiting(announced, parked, released, all, atPark), u \notin all, Ec!EcPrewait(u)
  PROVE  Waiting(announced', parked', released', all \cup {u}, atPark)
<1>1. announced' = Append(announced, u) /\ parked' = parked /\ released' = released
  BY DEF Ec!EcPrewait
<1>2. announced \in Seq(Workers) /\ Distinct(announced) /\ u \notin Items(announced)
  BY DEF Waiting
<1>3. /\ announced' \in Seq(Workers) /\ Distinct(announced')
      /\ Items(announced') = {u} \cup Items(announced)
  BY <1>1, <1>2, PushedBehind
<1> QED
  BY <1>1, <1>3 DEF Waiting

(* and so does leaving after a wake-up. *)
LEMMA WaitingLeave ==
  ASSUME NEW all, NEW atPark, NEW u \in Workers,
         Waiting(announced, parked, released, all, atPark), Ec!EcLeave(u)
  PROVE  u \in released /\ Waiting(announced', parked', released', all \ {u}, atPark \ {u})
  BY DEF Ec!EcLeave, Waiting

(* Who decides is first of the announced, and the others stay in order. *)
LEMMA WaitingTurn ==
  ASSUME NEW all, NEW atPark, NEW u \in Workers,
         Waiting(announced, parked, released, all, atPark), Ec!EcMyTurn(u)
  PROVE  /\ u \in Items(announced)
         /\ Tail(announced) \in Seq(Workers) /\ Distinct(Tail(announced))
         /\ Items(Tail(announced)) = Items(announced) \ {u}
<1>1. announced \in Seq(Workers) /\ Distinct(announced) /\ announced # <<>> /\ Head(announced) = u
  BY DEF Waiting, Ec!EcMyTurn
<1> QED
  BY <1>1, PoppedInFront

(* A cancelled wait keeps the book, *)
LEMMA WaitingCancel ==
  ASSUME NEW all, NEW atPark, NEW u \in Workers,
         Waiting(announced, parked, released, all, atPark), Ec!EcCancel(u)
  PROVE  Waiting(announced', parked', released', all \ {u}, atPark) /\ u \notin atPark
<1>1. /\ announced' = Tail(announced) /\ parked' = parked /\ released' = released
      /\ Ec!EcMyTurn(u)
  BY DEF Ec!EcCancel
<1>2. /\ u \in Items(announced)
      /\ announced' \in Seq(Workers) /\ Distinct(announced')
      /\ Items(announced') = Items(announced) \ {u}
  BY <1>1, WaitingTurn
<1> QED
  BY <1>1, <1>2 DEF Waiting

(* and so does one that goes to sleep. *)
LEMMA WaitingSleep ==
  ASSUME NEW all, NEW atPark, NEW u \in Workers,
         Waiting(announced, parked, released, all, atPark), Ec!EcSleep(u)
  PROVE  /\ u \in Items(announced) /\ released' = released
         /\ Waiting(announced', parked', released', all, atPark \cup {u})
<1>1. /\ announced' = Tail(announced) /\ parked' = <<u>> \o parked /\ released' = released
      /\ Ec!EcMyTurn(u)
  BY DEF Ec!EcSleep
<1>2. /\ u \in Items(announced)
      /\ announced' \in Seq(Workers) /\ Distinct(announced')
      /\ Items(announced') = Items(announced) \ {u}
  BY <1>1, WaitingTurn
<1>3. parked \in Seq(Workers) /\ Distinct(parked) /\ u \notin Items(parked)
  BY <1>2 DEF Waiting
<1>4. /\ parked' \in Seq(Workers) /\ Distinct(parked')
      /\ Items(parked') = {u} \cup Items(parked)
  BY <1>1, <1>3, PushedInFront
<1> QED
  BY <1>1, <1>2, <1>4 DEF Waiting

(* A notification is lost only if nobody is announced or asleep. *)
LEMMA WaitingNotified ==
  ASSUME NEW all, NEW atPark,
         Waiting(announced, parked, released, all, atPark), NotifyOne \/ NotifyAll
  PROVE  /\ Waiting(announced', parked', released', all, atPark)
         /\ released \subseteq released'
         /\ released' # released \/ Items(announced) \cup Items(parked) = {}
<1>1. CASE announced \o parked = <<>> /\ UNCHANGED ecVars
  <2>1. announced = <<>> /\ parked = <<>>
    BY <1>1, ConcatEqualIffEmpty DEF Waiting
  <2> QED
    BY <1>1, <2>1, EmptySequence DEF ecVars
<1>2. CASE Ec!EcNotifyOne /\ announced # <<>>
  <2>1. /\ released' = released \cup {Head(announced)}
        /\ announced' = Tail(announced) /\ parked' = parked
    BY <1>2 DEF Ec!EcNotifyOne
  <2>2. /\ Head(announced) \in Items(announced)
        /\ announced' \in Seq(Workers) /\ Distinct(announced')
        /\ Items(announced') = Items(announced) \ {Head(announced)}
    BY <1>2, <2>1, PoppedInFront DEF Waiting
  <2> QED
    BY <2>1, <2>2 DEF Waiting
<1>3. CASE Ec!EcNotifyOne /\ announced = <<>>
  <2>1. /\ released' = released \cup {Head(parked)} /\ parked # <<>>
        /\ parked' = Tail(parked) /\ announced' = announced
    BY <1>3 DEF Ec!EcNotifyOne
  <2>2. /\ Head(parked) \in Items(parked)
        /\ parked' \in Seq(Workers) /\ Distinct(parked')
        /\ Items(parked') = Items(parked) \ {Head(parked)}
    BY <2>1, PoppedInFront DEF Waiting
  <2> QED
    BY <2>1, <2>2 DEF Waiting
<1>4. CASE Ec!EcNotifyAll
  <2>1. /\ released' = released \cup Ec!ToSet(announced \o parked)
        /\ announced' = <<>> /\ parked' = <<>>
        /\ announced \o parked # <<>>
    BY <1>4 DEF Ec!EcNotifyAll
  <2>2. announced \in Seq(Workers) /\ parked \in Seq(Workers)
    BY DEF Waiting
  <2>3. /\ announced \o parked \in Seq(Workers)
        /\ Len(announced \o parked) = Len(announced) + Len(parked)
        /\ \A i \in 1..(Len(announced) + Len(parked)) : (announced \o parked)[i] =
             IF i <= Len(announced) THEN announced[i] ELSE parked[i - Len(announced)]
    BY <2>2, ConcatProperties
  <2>4. Ec!ToSet(announced \o parked) = Items(announced \o parked)
    BY <2>3, LenProperties DEF Ec!ToSet, Items
  <2>5. Items(announced \o parked) = Items(announced) \cup Items(parked)
    <3>1. Len(announced) \in Nat /\ Len(parked) \in Nat
      BY <2>2, LenProperties
    <3>2. \A i \in 1..Len(announced \o parked) :
            \/ i \in 1..Len(announced) /\ (announced \o parked)[i] = announced[i]
            \/ /\ i - Len(announced) \in 1..Len(parked)
               /\ (announced \o parked)[i] = parked[i - Len(announced)]
      BY <2>3, <3>1
    <3>3. \A i \in 1..Len(announced) :
            i \in 1..Len(announced \o parked) /\ (announced \o parked)[i] = announced[i]
      BY <2>3, <3>1
    <3>4. \A i \in 1..Len(parked) :
            /\ i + Len(announced) \in 1..Len(announced \o parked)
            /\ (announced \o parked)[i + Len(announced)] = parked[i]
      BY <2>3, <3>1
    <3> QED
      BY <3>2, <3>3, <3>4 DEF Items
  <2>6. Items(announced \o parked) # {}
    <3>1. \A t \in Seq(Workers) : t # <<>> => Items(t) # {}
      BY ItemsOfSeq
    <3> QED
      BY <2>1, <2>3, <3>1, Zenon
  <2>7. /\ <<>> \in Seq(Workers) /\ Items(<<>>) = {} /\ Distinct(<<>>)
    BY EmptySequence, EmptySeq
  <2> QED
    BY <2>1, <2>4, <2>5, <2>6, <2>7 DEF Waiting
<1> QED
  BY <1>1, <1>2, <1>3, <1>4 DEF NotifyOne, NotifyAll, Ec!EcNotifyOne

-----------------------------------------------------------------------------
(* Walks over the queues: Ahead(k) are those that walk k has yet to visit. *)

WalkType == [victim : Workers, inc : CoprimeSet(NumThreads), left : 0..NumThreads, rounds : Nat]

Ahead(k) == {Stop(k.victim, k.inc, NumThreads, j) : j \in 0..(k.left - 1)}

(* No walk under way *)
LEMMA NoWalkType == NoWalk \in WalkType /\ NoWalk.rounds = 0
<1>1. NumThreads \in Nat \ {0}
  BY PoolAssumption
<1>2. 1 \in CoprimeSet(NumThreads)
  BY <1>1, GcdOfOne DEF CoprimeSet
<1> QED
  BY <1>1, <1>2 DEF NoWalk, WalkType, Workers

(* A new walk has all queues ahead. *)
LEMMA NewWalk ==
  ASSUME NEW r \in Draws(NumThreads), NEW n \in Nat
  PROVE  /\ WalkFrom(r, n) \in WalkType /\ WalkFrom(r, n).rounds = n
         /\ Ahead(WalkFrom(r, n)) = Workers
<1>1. NumThreads \in Nat \ {0}
  BY PoolAssumption
<1>2. FirstVictim(r, NumThreads) \in Workers /\ Increment(r, NumThreads) \in CoprimeSet(NumThreads)
  BY <1>1, DrawnWalk DEF Workers
<1>3. WalkFrom(r, n) \in WalkType
  BY <1>1, <1>2 DEF WalkFrom, WalkType
<1>4. Ahead(WalkFrom(r, n)) =
        {Stop(FirstVictim(r, NumThreads), Increment(r, NumThreads), NumThreads, j) : j \in Workers}
  BY DEF Ahead, WalkFrom, Workers
<1>5. Ahead(WalkFrom(r, n)) = Workers
  <2> DEFINE v == FirstVictim(r, NumThreads)
             i == Increment(r, NumThreads)
  <2>1. v \in 0..(NumThreads - 1) /\ i \in CoprimeSet(NumThreads)
    BY <1>2 DEF Workers
  <2> HIDE DEF v, i
  <2>2. \A j \in Int : Stop(v, i, NumThreads, j) \in 0..(NumThreads - 1)
    BY <1>1, <2>1, OneStepOn
  <2>3. \A u \in 0..(NumThreads - 1) : \E j \in 0..(NumThreads - 1) : Stop(v, i, NumThreads, j) = u
    BY <1>1, <2>1, StopsEverywhere
  <2>4. {Stop(v, i, NumThreads, j) : j \in Workers} = Workers
    BY <1>1, <2>2, <2>3 DEF Workers
  <2> QED
    BY <1>4, <2>4 DEF v, i
<1> QED
  BY <1>3, <1>5 DEF WalkFrom

(* A step of the walk leaves behind no queue but the one it looked at. *)
LEMMA WalkOnward ==
  ASSUME NEW k \in WalkType, k.left > 0
  PROVE  /\ Onward(k) \in WalkType /\ Onward(k).rounds = k.rounds
         /\ k.victim \in Workers
         /\ Ahead(k) \subseteq Ahead(Onward(k)) \cup {k.victim}
<1>1. /\ NumThreads \in Nat \ {0} /\ k.left \in Nat
      /\ k.victim \in 0..(NumThreads - 1) /\ k.inc \in CoprimeSet(NumThreads)
  BY PoolAssumption DEF WalkType, Workers
<1> DEFINE v == NextVictim(k.victim, k.inc, NumThreads)
<1>2. /\ v \in 0..(NumThreads - 1) /\ Stop(k.victim, k.inc, NumThreads, 0) = k.victim
      /\ \A j \in Int : Stop(v, k.inc, NumThreads, j) = Stop(k.victim, k.inc, NumThreads, j + 1)
  <2>1. v \in 0..(NumThreads - 1) /\ Stop(k.victim, k.inc, NumThreads, 0) = k.victim
    BY <1>1, OneStepOn
  <2>2. ASSUME NEW j \in Int
        PROVE  Stop(v, k.inc, NumThreads, j) = Stop(k.victim, k.inc, NumThreads, j + 1)
    BY <1>1, OneStepOn, ZenonT(30)
  <2> QED
    BY <2>1, <2>2
<1>3. /\ Onward(k).victim = v /\ Onward(k).inc = k.inc
      /\ Onward(k).left = k.left - 1 /\ Onward(k).rounds = k.rounds
      /\ v \in Workers /\ k.left - 1 \in 0..NumThreads => Onward(k) \in WalkType
  BY DEF Onward, WalkType
<1> HIDE DEF v
<1>4. Onward(k) \in WalkType /\ Onward(k).rounds = k.rounds
  <2>1. k.left - 1 \in 0..NumThreads
    BY <1>1 DEF WalkType
  <2> QED
    BY <1>2, <1>3, <2>1 DEF Workers
<1>5. ASSUME NEW j \in 0..(k.left - 1), j # 0
      PROVE  Stop(k.victim, k.inc, NumThreads, j) \in Ahead(Onward(k))
  <2>1. j - 1 \in 0..((k.left - 1) - 1)
    BY <1>1, <1>5
  <2>2. Stop(v, k.inc, NumThreads, j - 1) = Stop(k.victim, k.inc, NumThreads, j)
    BY <1>2
  <2> QED
    BY <2>1, <2>2, <1>3 DEF Ahead
<1>6. Ahead(k) \subseteq Ahead(Onward(k)) \cup {k.victim}
  BY <1>2, <1>5 DEF Ahead
<1> QED
  BY <1>1, <1>4, <1>6 DEF Workers

(* A walk that has ended has nothing ahead. *)
LEMMA WalkEnded == ASSUME NEW k, k.left = 0 PROVE Ahead(k) = {}
  BY DEF Ahead

-----------------------------------------------------------------------------
(* Where every task is, as its status says: unscheduled, in a queue, being *)
(* executed, or finished.  The calls of Schedule that a task under way     *)
(* has yet to make are the last ones it makes; Main stands for the owner.  *)

Statuses == {"new", "queued", "running", "finished"}
Frame == [task : Tasks \cup {Main}, rest : Seq(Tasks)]

Partway(f, st) ==
  LET body == Schedules(f.task)
      made == Len(body) - Len(f.rest)
  IN /\ Len(f.rest) <= Len(body)
     /\ \A j \in 1..Len(f.rest) : f.rest[j] = body[made + j]
     /\ \A k \in 1..Len(body) : st[body[k]] = "new" <=> k > made

AllNew(x, st) == \A k \in 1..Len(Schedules(x)) : st[Schedules(x)[k]] = "new"
NoneNew(x, st) == \A k \in 1..Len(Schedules(x)) : st[Schedules(x)[k]] # "new"

(* fs: the frames of all threads *)
Planned(fs, st) ==
  /\ fs \subseteq Frame /\ st \in [Tasks -> Statuses]
  /\ \A f, g \in fs : f.task = g.task => f = g
  /\ \A x \in Tasks : st[x] = "running" <=> \E f \in fs : f.task = x
  /\ \A f \in fs : Partway(f, st)
  /\ \A x \in Tasks : st[x] \in {"new", "queued"} => AllNew(x, st)
  /\ \A x \in Tasks : st[x] = "finished" => NoneNew(x, st)

(* What a task schedules is a sequence of tasks. *)
LEMMA SchedulesType ==
  ASSUME NEW x \in Tasks \cup {Main}
  PROVE  Schedules(x) \in Seq(Tasks) /\ (x # Main => Schedules(x) = Children[x])
  BY PoolAssumption, TaskAssumption DEF Schedules

NextFrame(f) == [f EXCEPT !.rest = Tail(@)]

(* A frame schedules its next task. *)
(* What holds of the plan once frame f of fs has scheduled x. *)
PlanAfter(fs, f, x, st, st2) ==
  /\ x \in Tasks /\ st[x] = "new" /\ \A g \in fs : g.task # x
  /\ NextFrame(f) \in Frame /\ NextFrame(f).task = f.task
  /\ st2 \in [Tasks -> Statuses]
  /\ Partway(NextFrame(f), st2)
  /\ \A g \in fs \ {f} : Partway(g, st2)
  /\ \A y \in Tasks : st2[y] \in {"new", "queued"} => AllNew(y, st2)
  /\ \A y \in Tasks : st2[y] = "finished" => NoneNew(y, st2)
  /\ AllNew(x, st2)

(* A frame that schedules its next task leaves the plan as PlanAfter says. *)
LEMMA PlanScheduled ==
  ASSUME NEW fs, NEW st, Planned(fs, st), NEW f \in fs, f.rest # <<>>,
         NEW x, x = Head(f.rest), NEW st2,
         \/ st2 = [st EXCEPT ![x] = "queued"]
         \/ st2 = [st EXCEPT ![x] = "running"]
  PROVE  PlanAfter(fs, f, x, st, st2)
<1> DEFINE body == Schedules(f.task)
           made == Len(body) - Len(f.rest)
           h == NextFrame(f)
<1>1. /\ f \in Frame /\ f.task \in Tasks \cup {Main} /\ f.rest \in Seq(Tasks)
      /\ fs \subseteq Frame /\ st \in [Tasks -> Statuses]
  BY DEF Planned, Frame
<1>2. /\ x \in Tasks /\ Tail(f.rest) \in Seq(Tasks) /\ Len(Tail(f.rest)) = Len(f.rest) - 1
      /\ x = f.rest[1] /\ Len(f.rest) \in Nat \ {0}
      /\ \A i \in 1..Len(Tail(f.rest)) : Tail(f.rest)[i] = f.rest[i + 1]
  BY <1>1, HeadTailProperties, EmptySeq
<1>3. h \in Frame /\ h.task = f.task /\ h.rest = Tail(f.rest)
  BY <1>1, <1>2 DEF NextFrame, Frame
<1>4. body \in Seq(Tasks) /\ Len(body) \in Nat /\ \A k \in 1..Len(body) : body[k] \in Tasks
  BY <1>1, SchedulesType, LenProperties, ElementOfSeq
<1>5. /\ Len(f.rest) <= Len(body)
      /\ \A j \in 1..Len(f.rest) : f.rest[j] = body[made + j]
      /\ \A k \in 1..Len(body) : (st[body[k]] = "new") <=> (k > made)
  BY DEF Planned, Partway
<1>6. /\ made \in Nat /\ made + 1 \in 1..Len(body) /\ x = body[made + 1] /\ st[x] = "new"
  <2>1. made \in Nat /\ made + 1 \in 1..Len(body) /\ 1 \in 1..Len(f.rest) /\ made + 1 > made
    <3>1. Len(body) \in Nat /\ Len(f.rest) \in Nat \ {0} /\ Len(f.rest) <= Len(body)
      BY <1>2, <1>4, <1>5
    <3>2. \A m, n \in Nat : (n # 0 /\ n <= m) =>
            /\ m - n \in Nat /\ (m - n) + 1 \in 1..m /\ 1 \in 1..n /\ (m - n) + 1 > m - n
      OBVIOUS
    <3> QED
      BY <3>1, <3>2, Zenon
  <2> HIDE DEF made, body
  <2>2. x = body[made + 1]
    BY <1>2, <1>5, <2>1
  <2> QED
    BY <1>5, <2>1, <2>2
<1>7. \A g \in fs : g.task # x
  BY <1>2, <1>6 DEF Planned
<1>8. st2 \in [Tasks -> Statuses] /\ st2[x] \in {"queued", "running"} /\ \A y \in Tasks \ {x} : st2[y] = st[y]
  BY <1>1, <1>2 DEF Statuses
<1>9. \A y \in Tasks \cup {Main} : \A k \in 1..Len(Schedules(y)) :
        /\ Schedules(y)[k] \in Tasks
        /\ Schedules(y)[k] = x => y = f.task /\ k = made + 1
  <2>1. \A y \in Tasks \cup {Main} : \A k \in 1..Len(Schedules(y)) : Schedules(y)[k] \in Tasks
    BY SchedulesType, ElementOfSeq
  <2>2. made + 1 \in 1..Len(Schedules(f.task)) /\ Schedules(f.task)[made + 1] = x
    BY <1>6
  <2> HIDE DEF made
  <2>3. \A y \in Tasks \cup {Main} : \A k \in 1..Len(Schedules(y)) :
          Schedules(y)[k] = x => y = f.task /\ k = made + 1
    BY <1>1, <2>2, TaskAssumption
  <2> QED
    BY <2>1, <2>3
<1> HIDE DEF h, made, body
<1>10. Partway(h, st2)
  <2>1. Len(h.rest) = Len(f.rest) - 1 /\ Len(body) - Len(h.rest) = made + 1
    <3>1. Len(body) \in Nat /\ Len(f.rest) \in Nat \ {0}
      BY <1>2, <1>4
    <3>2. Len(h.rest) = Len(f.rest) - 1
      BY <1>2, <1>3
    <3> QED
      BY <3>1, <3>2 DEF made
  <2>2. \A j \in 1..Len(h.rest) : h.rest[j] = body[(made + 1) + j]
    <3> SUFFICES ASSUME NEW j \in 1..Len(h.rest) PROVE h.rest[j] = body[(made + 1) + j]
      OBVIOUS
    <3>1. h.rest[j] = f.rest[j + 1] /\ j + 1 \in 1..Len(f.rest) /\ (made + 1) + j = made + (j + 1)
      BY <1>2, <1>3, <1>6, <2>1
    <3>2. f.rest[j + 1] = body[made + (j + 1)]
      BY <1>5, <3>1
    <3> QED
      BY <3>1, <3>2
  <2>3. ASSUME NEW k \in 1..Len(body) PROVE (st2[body[k]] = "new") <=> (k > made + 1)
    <3>1. CASE k = made + 1
      <4>1. body[k] = x
        BY <3>1, <1>6
      <4> QED
        BY <3>1, <4>1, <1>6, <1>8
    <3>2. CASE k # made + 1
      <4>1. body[k] \in Tasks \ {x}
        BY <1>1, <1>9, <3>2 DEF body
      <4>2. st2[body[k]] = st[body[k]]
        BY <4>1, <1>8
      <4>3. (k > made) <=> (k > made + 1)
        BY <3>2, <1>4, <1>6
      <4> QED
        BY <4>2, <4>3, <1>5
    <3> QED
      BY <3>1, <3>2
  <2>4. Len(h.rest) <= Len(body)
    BY <1>2, <1>4, <1>5, <2>1
  <2> QED
    BY <1>3, <2>1, <2>2, <2>3, <2>4 DEF Partway, body
<1>11. ASSUME NEW y \in Tasks \cup {Main}, y # f.task
       PROVE  \A k \in 1..Len(Schedules(y)) : st2[Schedules(y)[k]] = st[Schedules(y)[k]]
  BY <1>8, <1>9, <1>11
<1>12. ASSUME NEW g \in fs \ {f} PROVE Partway(g, st2)
  <2>1. g.task \in Tasks \cup {Main} /\ g.task # f.task /\ Partway(g, st)
    BY <1>1 DEF Planned, Frame
  <2> QED
    BY <2>1, <1>11 DEF Partway
<1>13. x # f.task
  BY <1>7
<1>14. AllNew(x, st2)
  <2>1. AllNew(x, st)
    BY <1>2, <1>6 DEF Planned
  <2>2. \A k \in 1..Len(Schedules(x)) : st2[Schedules(x)[k]] = st[Schedules(x)[k]]
    BY <1>2, <1>11, <1>13
  <2> QED
    BY <2>1, <2>2 DEF AllNew
<1>15. ASSUME NEW y \in Tasks, st2[y] \in {"new", "queued"} PROVE AllNew(y, st2)
  <2>1. CASE y = x
    BY <2>1, <1>14
  <2>2. CASE y # x
    <3>1. st[y] \in {"new", "queued"} /\ st[y] # "running"
      BY <2>2, <1>8, <1>15
    <3>2. y # f.task
      BY <3>1 DEF Planned
    <3> QED
      BY <3>1, <3>2, <1>11 DEF Planned, AllNew
  <2> QED
    BY <2>1, <2>2
<1>16. ASSUME NEW y \in Tasks, st2[y] = "finished" PROVE NoneNew(y, st2)
  <2>1. y # x /\ st[y] = "finished"
    BY <1>8, <1>16
  <2>2. y # f.task
    BY <2>1 DEF Planned
  <2> QED
    BY <2>1, <2>2, <1>11 DEF Planned, NoneNew
<1> QED
  BY <1>2, <1>3, <1>6, <1>7, <1>8, <1>10, <1>12, <1>14, <1>15, <1>16 DEF h, PlanAfter

(* If the task is queued, the plan holds again. *)
LEMMA PlanQueued ==
  ASSUME NEW fs, NEW st, Planned(fs, st), NEW f \in fs, f.rest # <<>>
  PROVE  LET x == Head(f.rest)
         IN  /\ x \in Tasks /\ st[x] = "new"
             /\ NextFrame(f) \in Frame /\ \A g \in fs \ {f} : g # NextFrame(f)
             /\ Planned((fs \ {f}) \cup {NextFrame(f)}, [st EXCEPT ![x] = "queued"])
<1> DEFINE x == Head(f.rest)
           st2 == [st EXCEPT ![x] = "queued"]
           h == NextFrame(f)
           fs2 == (fs \ {f}) \cup {h}
<1>1. /\ x \in Tasks /\ st[x] = "new" /\ \A g \in fs : g.task # x
      /\ h \in Frame /\ h.task = f.task
      /\ st2 \in [Tasks -> Statuses]
      /\ Partway(h, st2) /\ \A g \in fs \ {f} : Partway(g, st2)
      /\ \A y \in Tasks : st2[y] \in {"new", "queued"} => AllNew(y, st2)
      /\ \A y \in Tasks : st2[y] = "finished" => NoneNew(y, st2)
  <2>1. PlanAfter(fs, f, x, st, st2)
    BY PlanScheduled
  <2> QED
    BY <2>1 DEF PlanAfter
<1>2. st2[x] = "queued" /\ \A y \in Tasks \ {x} : st2[y] = st[y]
  BY <1>1 DEF Planned
<1> HIDE DEF x, st2, h
<1>3. /\ fs2 \subseteq Frame
      /\ \A f1, g1 \in fs2 : f1.task = g1.task => f1 = g1
      /\ \A g \in fs \ {f} : g # h
      /\ \A g \in fs2 : Partway(g, st2)
  BY <1>1 DEF Planned
<1>4. ASSUME NEW y \in Tasks PROVE (st2[y] = "running") <=> (\E g \in fs2 : g.task = y)
  <2>1. (\E g \in fs2 : g.task = y) <=> (\E g \in fs : g.task = y)
    BY <1>1
  <2>2. (st[y] = "running") <=> (\E g \in fs : g.task = y)
    BY DEF Planned
  <2> QED
    BY <1>1, <1>2, <2>1, <2>2
<1>5. Planned(fs2, st2)
  BY <1>1, <1>3, <1>4 DEF Planned
<1> QED
  BY <1>1, <1>3, <1>5 DEF x, st2, h

(* The frame of a task of which nothing has been executed *)
NewFrame(x) == [task |-> x, rest |-> Children[x]]

(* The frame of a task that starts, *)
LEMMA NewFrameType ==
  ASSUME NEW x \in Tasks
  PROVE  NewFrame(x) \in Frame /\ NewFrame(x).task = x /\ NewFrame(x).rest = Schedules(x)
  BY SchedulesType, TaskAssumption DEF NewFrame, Frame

(* which has all it schedules ahead *)
LEMMA NewFramePartway ==
  ASSUME NEW x \in Tasks, NEW st, AllNew(x, st)
  PROVE  Partway(NewFrame(x), st)
<1> DEFINE body == Schedules(x)
           made == Len(body) - Len(body)
<1>1. Len(body) \in Nat
  BY SchedulesType, LenProperties
<1>2. made = 0 /\ Len(body) <= Len(body) /\ \A k \in 1..Len(body) : 0 + k = k /\ k > 0
  BY <1>1
<1>3. \A k \in 1..Len(body) : st[body[k]] = "new"
  BY DEF AllNew
<1>4. NewFrame(x).task = x /\ NewFrame(x).rest = body
  BY NewFrameType
<1> HIDE DEF body
<1>5. /\ Len(body) <= Len(body)
      /\ \A j \in 1..Len(body) : body[j] = body[made + j]
      /\ \A k \in 1..Len(body) : (st[body[k]] = "new") <=> (k > made)
  BY <1>2, <1>3
<1> QED
  BY <1>4, <1>5 DEF Partway, body

(* If the task is run at once, the plan holds again. *)
LEMMA PlanInline ==
  ASSUME NEW fs, NEW st, Planned(fs, st), NEW f \in fs, f.rest # <<>>
  PROVE  LET x == Head(f.rest)
         IN  /\ x \in Tasks /\ st[x] = "new"
             /\ NextFrame(f) \in Frame /\ NewFrame(x) \in Frame /\ NewFrame(x) # NextFrame(f)
             /\ NewFrame(x) \notin fs
             /\ \A g \in fs \ {f} : g # NextFrame(f)
             /\ Planned((fs \ {f}) \cup {NextFrame(f), NewFrame(x)},
                        [st EXCEPT ![x] = "running"])
<1> DEFINE x == Head(f.rest)
           st2 == [st EXCEPT ![x] = "running"]
           h == NextFrame(f)
           n == NewFrame(x)
           fs2 == (fs \ {f}) \cup {h, n}
<1>1. /\ x \in Tasks /\ st[x] = "new" /\ \A g \in fs : g.task # x
      /\ h \in Frame /\ h.task = f.task
      /\ st2 \in [Tasks -> Statuses]
      /\ Partway(h, st2) /\ \A g \in fs \ {f} : Partway(g, st2)
      /\ \A y \in Tasks : st2[y] \in {"new", "queued"} => AllNew(y, st2)
      /\ \A y \in Tasks : st2[y] = "finished" => NoneNew(y, st2)
      /\ AllNew(x, st2)
  <2>1. PlanAfter(fs, f, x, st, st2)
    BY PlanScheduled
  <2> QED
    BY <2>1 DEF PlanAfter
<1>2. st2[x] = "running" /\ \A y \in Tasks \ {x} : st2[y] = st[y]
  BY <1>1 DEF Planned
<1>3. n \in Frame /\ n.task = x /\ Partway(n, st2)
  BY <1>1, NewFrameType, NewFramePartway
<1> HIDE DEF x, st2, h, n
<1>4. /\ fs2 \subseteq Frame
      /\ \A f1, g1 \in fs2 : f1.task = g1.task => f1 = g1
      /\ \A g \in fs \ {f} : g # h
      /\ n # h /\ n \notin fs
      /\ \A g \in fs2 : Partway(g, st2)
  BY <1>1, <1>3 DEF Planned
<1>5. ASSUME NEW y \in Tasks PROVE (st2[y] = "running") <=> (\E g \in fs2 : g.task = y)
  <2>1. (\E g \in fs2 : g.task = y) <=> (y = x \/ \E g \in fs : g.task = y)
    BY <1>1, <1>3
  <2>2. (st[y] = "running") <=> (\E g \in fs : g.task = y)
    BY DEF Planned
  <2> QED
    BY <1>1, <1>2, <2>1, <2>2
<1>6. Planned(fs2, st2)
  BY <1>1, <1>4, <1>5 DEF Planned
<1> QED
  BY <1>1, <1>3, <1>4, <1>6 DEF x, st2, h, n

(* What is said of unscheduled tasks depends on no other status. *)
LEMMA SameNew ==
  ASSUME NEW st, NEW st2, \A y \in Tasks : (st2[y] = "new") <=> (st[y] = "new")
  PROVE  /\ \A y \in Tasks : (AllNew(y, st2) <=> AllNew(y, st))
         /\ \A y \in Tasks : (NoneNew(y, st2) <=> NoneNew(y, st))
         /\ \A f \in Frame : Partway(f, st) => Partway(f, st2)
<1>1. \A y \in Tasks \cup {Main} : \A k \in 1..Len(Schedules(y)) :
        (st2[Schedules(y)[k]] = "new") <=> (st[Schedules(y)[k]] = "new")
  BY SchedulesType, ElementOfSeq
<1>2. \A f \in Frame : f.task \in Tasks \cup {Main}
  BY DEF Frame
<1>3. ASSUME NEW f \in Frame, Partway(f, st) PROVE Partway(f, st2)
  BY <1>1, <1>2, <1>3 DEF Partway
<1> QED
  BY <1>1, <1>3 DEF AllNew, NoneNew

(* If a queued task is taken, the plan holds again, *)
LEMMA PlanTaken ==
  ASSUME NEW fs, NEW st, Planned(fs, st), NEW x \in Tasks, st[x] = "queued"
  PROVE  /\ NewFrame(x) \in Frame /\ NewFrame(x) \notin fs
         /\ Planned(fs \cup {NewFrame(x)}, [st EXCEPT ![x] = "running"])
<1> DEFINE st2 == [st EXCEPT ![x] = "running"]
           n == NewFrame(x)
           fs2 == fs \cup {n}
<1>1. /\ st2 \in [Tasks -> Statuses] /\ st2[x] = "running"
      /\ \A y \in Tasks \ {x} : st2[y] = st[y]
  BY DEF Planned, Statuses
<1>2. n \in Frame /\ n.task = x
  BY NewFrameType
<1> HIDE DEF st2, n
<1>3. /\ \A y \in Tasks : (AllNew(y, st2) <=> AllNew(y, st))
      /\ \A y \in Tasks : (NoneNew(y, st2) <=> NoneNew(y, st))
      /\ \A f \in Frame : Partway(f, st) => Partway(f, st2)
  <2>1. \A y \in Tasks : (st2[y] = "new") <=> (st[y] = "new")
    BY <1>1
  <2> QED
    BY <2>1, SameNew
<1>4. Partway(n, st2)
  <2>1. AllNew(x, st)
    BY DEF Planned
  <2> QED
    BY <1>3, <2>1, NewFramePartway DEF n
<1>5. \A g \in fs : g.task # x
  BY DEF Planned
<1>6. /\ fs2 \subseteq Frame /\ n \notin fs
      /\ \A f1, g1 \in fs2 : f1.task = g1.task => f1 = g1
      /\ \A g \in fs2 : Partway(g, st2)
  BY <1>2, <1>3, <1>4, <1>5 DEF Planned
<1>7. ASSUME NEW y \in Tasks PROVE (st2[y] = "running") <=> (\E g \in fs2 : g.task = y)
  <2>1. (\E g \in fs2 : g.task = y) <=> (y = x \/ \E g \in fs : g.task = y)
    BY <1>2
  <2>2. (st[y] = "running") <=> (\E g \in fs : g.task = y)
    BY DEF Planned
  <2> QED
    BY <1>1, <2>1, <2>2
<1>8. /\ \A y \in Tasks : st2[y] \in {"new", "queued"} => AllNew(y, st2)
      /\ \A y \in Tasks : st2[y] = "finished" => NoneNew(y, st2)
  BY <1>1, <1>3 DEF Planned
<1>9. Planned(fs2, st2)
  BY <1>1, <1>6, <1>7, <1>8 DEF Planned
<1> QED
  BY <1>2, <1>6, <1>9 DEF st2, n

(* and if a task is finished. *)
LEMMA PlanReturned ==
  ASSUME NEW fs, NEW st, Planned(fs, st), NEW f \in fs, f.rest = <<>>, f.task \in Tasks
  PROVE  /\ st[f.task] = "running"
         /\ Planned(fs \ {f}, [st EXCEPT ![f.task] = "finished"])
<1> DEFINE x == f.task
           st2 == [st EXCEPT ![x] = "finished"]
           fs2 == fs \ {f}
<1>1. /\ st2 \in [Tasks -> Statuses] /\ st2[x] = "finished" /\ st[x] = "running" /\ x \in Tasks
      /\ \A y \in Tasks \ {x} : st2[y] = st[y]
  BY DEF Planned, Statuses
<1> HIDE DEF st2
<1>2. /\ \A y \in Tasks : (AllNew(y, st2) <=> AllNew(y, st))
      /\ \A y \in Tasks : (NoneNew(y, st2) <=> NoneNew(y, st))
      /\ \A g \in Frame : Partway(g, st) => Partway(g, st2)
  <2>1. \A y \in Tasks : (st2[y] = "new") <=> (st[y] = "new")
    BY <1>1
  <2> QED
    BY <2>1, SameNew
<1>3. NoneNew(x, st)
  <2> DEFINE body == Schedules(x)
  <2>1. Len(body) \in Nat
    BY <1>1, SchedulesType, LenProperties
  <2>2. \A k \in 1..Len(body) : (st[body[k]] = "new") <=> (k > Len(body) - Len(f.rest))
    BY DEF Planned, Partway
  <2>3. Len(f.rest) = 0
    BY EmptySequence
  <2> HIDE DEF body
  <2>4. \A k \in 1..Len(body) : st[body[k]] # "new"
    BY <2>1, <2>2, <2>3
  <2> QED
    BY <2>4 DEF NoneNew, body
<1>4. /\ fs2 \subseteq Frame
      /\ \A f1, g1 \in fs2 : f1.task = g1.task => f1 = g1
      /\ \A g \in fs2 : Partway(g, st2)
  BY <1>2 DEF Planned
<1>5. ASSUME NEW y \in Tasks PROVE (st2[y] = "running") <=> (\E g \in fs2 : g.task = y)
  <2>1. (\E g \in fs2 : g.task = y) <=> (y # x /\ \E g \in fs : g.task = y)
    BY DEF Planned
  <2>2. (st[y] = "running") <=> (\E g \in fs : g.task = y)
    BY DEF Planned
  <2> QED
    BY <1>1, <2>1, <2>2
<1>6. /\ \A y \in Tasks : st2[y] \in {"new", "queued"} => AllNew(y, st2)
      /\ \A y \in Tasks : st2[y] = "finished" => NoneNew(y, st2)
  BY <1>1, <1>2, <1>3 DEF Planned
<1>7. Planned(fs2, st2)
  BY <1>1, <1>4, <1>5, <1>6 DEF Planned
<1> QED
  BY <1>1, <1>7 DEF st2

-----------------------------------------------------------------------------
(* Families of sequences that have no element twice and none in common:    *)
(* the queues, and the stacks of frames.                                   *)

Apart(G, H, S) ==
  /\ G \in [H -> Seq(S)]
  /\ \A h \in H : Distinct(G[h])
  /\ \A h, k \in H : h # k => Items(G[h]) \cap Items(G[k]) = {}

AllOf(G, H) == UNION {Items(G[h]) : h \in H}

(* One member of the family loses the elements out and gets the new ones. *)
Exchange(G, H, S, h, s, out, new, G2) ==
  /\ Apart(G, H, S) /\ h \in H
  /\ s \in Seq(S) /\ Distinct(s)
  /\ out \subseteq Items(G[h])
  /\ Items(s) = (Items(G[h]) \ out) \cup new
  /\ \A e \in new : e \in out \/ e \notin AllOf(G, H)
  /\ G2 = [G EXCEPT ![h] = s]

(* Replacing some items of one sequence keeps it apart from the others. *)
LEMMA Replaced ==
  ASSUME NEW G, NEW H, NEW S, NEW h, NEW s, NEW out, NEW new, NEW G2,
         Exchange(G, H, S, h, s, out, new, G2)
  PROVE  Apart(G2, H, S) /\ AllOf(G2, H) = (AllOf(G, H) \ out) \cup new
<1> USE DEF Exchange
<1>1. /\ G2 \in [H -> Seq(S)] /\ G2[h] = s
      /\ \A k \in H \ {h} : G2[k] = G[k]
  BY DEF Apart
<1>2. \A k \in H \ {h} : Items(G[k]) \cap Items(G[h]) = {} /\ Items(G[k]) \cap new = {}
  BY DEF Apart, AllOf
<1>3. \A k \in H \ {h} : Items(G2[k]) \cap Items(s) = {}
  BY <1>1, <1>2
<1>4. Apart(G2, H, S)
  BY <1>1, <1>3 DEF Apart
<1>5. ASSUME NEW e
      PROVE  e \in AllOf(G2, H) <=> (e \in AllOf(G, H) /\ e \notin out) \/ e \in new
  <2>1. e \in AllOf(G2, H) <=> e \in Items(s) \/ \E k \in H \ {h} : e \in Items(G[k])
    BY <1>1 DEF AllOf
  <2>2. e \in AllOf(G, H) <=> e \in Items(G[h]) \/ \E k \in H \ {h} : e \in Items(G[k])
    BY DEF AllOf
  <2>3. \A k \in H \ {h} : e \in Items(G[k]) => e \notin Items(G[h])
    BY <1>2
  <2> QED
    BY <2>1, <2>2, <2>3
<1> QED
  BY <1>4, <1>5

Bottom(s) == s # <<>> /\ s[Len(s)].task = Main

(* A stack whose innermost frame schedules a task *)
Advanced(s) == <<NextFrame(Head(s))>> \o Tail(s)

(* A stack whose top frame has scheduled one more task, *)
LEMMA AdvancedStack ==
  ASSUME NEW s \in Seq(Frame), s # <<>>, Distinct(s), NextFrame(Head(s)) \in Frame,
         NextFrame(Head(s)).task = Head(s).task,
         \A g \in Items(s) \ {Head(s)} : g # NextFrame(Head(s))
  PROVE  /\ Head(s) \in Items(s)
         /\ Advanced(s) \in Seq(Frame) /\ Advanced(s) # <<>> /\ Distinct(Advanced(s))
         /\ Items(Advanced(s)) = (Items(s) \ {Head(s)}) \cup {NextFrame(Head(s))}
         /\ Bottom(s) => Bottom(Advanced(s))
<1> DEFINE f == Head(s)
           h == NextFrame(f)
           r == Tail(s)
           a == <<h>> \o r
<1>1. /\ f \in Items(s) /\ f = s[1]
      /\ r \in Seq(Frame) /\ Len(r) = Len(s) - 1 /\ Distinct(r)
      /\ Items(r) = Items(s) \ {f}
      /\ \A i \in 1..Len(r) : r[i] = s[i + 1]
  BY PoppedInFront
<1> HIDE DEF f, r
<1>2. h \in Frame /\ h \notin Items(r)
  BY <1>1 DEF f
<1> HIDE DEF h
<1>3. /\ a \in Seq(Frame) /\ Len(a) = Len(r) + 1 /\ a[1] = h
      /\ \A i \in 1..Len(r) : a[i + 1] = r[i]
      /\ Items(a) = {h} \cup Items(r) /\ Distinct(a)
  BY <1>1, <1>2, PushedInFront
<1> HIDE DEF a
<1>4. Len(s) \in Nat \ {0} /\ Len(r) \in Nat
  BY <1>1, LenProperties, EmptySeq
<1>5. a # <<>>
  BY <1>3, <1>4, EmptySequence
<1>6. ASSUME s[Len(s)].task = Main PROVE a[Len(a)].task = Main
  <2>1. CASE Len(s) = 1
    <3>1. s[1].task = Main /\ a[Len(a)] = h
      BY <2>1, <1>1, <1>3, <1>6
    <3>2. h.task = f.task
      BY DEF h, f
    <3> QED
      BY <3>1, <3>2, <1>1
  <2>2. CASE Len(s) # 1
    <3>1. Len(r) \in 1..Len(r) /\ Len(r) + 1 = Len(a) /\ Len(r) + 1 = Len(s)
      BY <2>2, <1>1, <1>3, <1>4
    <3>2. a[Len(a)] = s[Len(s)]
      BY <3>1, <1>1, <1>3
    <3> QED
      BY <3>2, <1>6
  <2> QED
    BY <2>1, <2>2
<1> QED
  BY <1>1, <1>3, <1>5, <1>6 DEF a, r, h, f, Advanced, Bottom

(* one with a frame more, *)
LEMMA PushedStack ==
  ASSUME NEW s \in Seq(Frame), Distinct(s), NEW n \in Frame, n \notin Items(s)
  PROVE  /\ <<n>> \o s \in Seq(Frame) /\ <<n>> \o s # <<>> /\ Distinct(<<n>> \o s)
         /\ Items(<<n>> \o s) = (Items(s) \ {}) \cup {n}
         /\ Bottom(s) => Bottom(<<n>> \o s)
<1> DEFINE a == <<n>> \o s
<1>1. /\ a \in Seq(Frame) /\ Len(a) = Len(s) + 1
      /\ \A i \in 1..Len(s) : a[i + 1] = s[i]
      /\ Items(a) = {n} \cup Items(s) /\ Distinct(a)
  BY PushedInFront
<1> HIDE DEF a
<1>2. Len(s) \in Nat
  BY LenProperties
<1>3. a # <<>>
  BY <1>1, <1>2, EmptySequence
<1>4. ASSUME s # <<>> PROVE a[Len(a)] = s[Len(s)]
  <2>1. Len(s) \in 1..Len(s)
    BY <1>2, <1>4, EmptySeq
  <2> QED
    BY <2>1, <1>1
<1> QED
  BY <1>1, <1>3, <1>4 DEF a, Bottom

(* and one with a frame less *)
LEMMA PoppedStack ==
  ASSUME NEW s \in Seq(Frame), s # <<>>, Distinct(s)
  PROVE  /\ Head(s) \in Items(s) /\ Tail(s) \in Seq(Frame) /\ Distinct(Tail(s))
         /\ Items(Tail(s)) = (Items(s) \ {Head(s)}) \cup {}
         /\ Tail(s) = <<>> <=> Len(s) = 1
         /\ Bottom(s) /\ Head(s).task # Main => Bottom(Tail(s))
<1> DEFINE r == Tail(s)
<1>1. /\ Head(s) \in Items(s) /\ Head(s) = s[1]
      /\ r \in Seq(Frame) /\ Len(r) = Len(s) - 1 /\ Distinct(r)
      /\ Items(r) = Items(s) \ {Head(s)}
      /\ \A i \in 1..Len(r) : r[i] = s[i + 1]
  BY PoppedInFront
<1> HIDE DEF r
<1>2. Len(s) \in Nat \ {0} /\ Len(r) \in Nat
  BY <1>1, LenProperties, EmptySeq
<1>3. r = <<>> <=> Len(s) = 1
  <2>1. r = <<>> <=> Len(r) = 0
    BY <1>1, EmptySeq
  <2> QED
    BY <2>1, <1>1, <1>2
<1>4. ASSUME Bottom(s), Head(s).task # Main PROVE Bottom(r)
  <2>1. Len(s) # 1
    BY <1>1, <1>4 DEF Bottom
  <2>2. Len(r) \in 1..Len(r) /\ Len(r) + 1 = Len(s)
    BY <2>1, <1>1, <1>2
  <2>3. r[Len(r)] = s[Len(s)]
    BY <2>2, <1>1
  <2> QED
    BY <2>1, <2>3, <1>3, <1>4 DEF Bottom
<1> QED
  BY <1>1, <1>3, <1>4 DEF r

-----------------------------------------------------------------------------
(* The book of tasks: each is in at most one place, the one its status     *)
(* names, and what is left of every call is as the plan says.              *)

Book ==
  /\ Apart(queue, Workers, Tasks) /\ \A q \in Workers : Len(queue[q]) <= Capacity
  /\ Apart(frames, Threads, Frame)
  /\ Planned(AllOf(frames, Threads), status)
  /\ \A x \in Tasks : (status[x] = "queued") <=> (x \in AllOf(queue, Workers))

(* How a task moves when thread t schedules it, runs it without a queue,   *)
(* takes it from queue q, or returns from it                               *)
Moved(x, from, to) == status[x] = from /\ status' = [status EXCEPT ![x] = to]
Scheduling(t) == frames[t] # <<>> /\ Current(t).rest # <<>>

Pushes(t, q) ==
  /\ Scheduling(t) /\ Len(queue[q]) < Capacity
  /\ \/ queue' = [queue EXCEPT ![q] = <<Next1(t)>> \o queue[q]]
     \/ queue' = [queue EXCEPT ![q] = Append(queue[q], Next1(t))]
  /\ frames' = [frames EXCEPT ![t] = Advanced(frames[t])]
  /\ status' = [status EXCEPT ![Next1(t)] = "queued"]

Inlines(t) ==
  /\ Scheduling(t)
  /\ frames' = [frames EXCEPT ![t] = <<NewFrame(Next1(t))>> \o Advanced(frames[t])]
  /\ status' = [status EXCEPT ![Next1(t)] = "running"]
  /\ UNCHANGED queue

Takes(t, q) ==
  /\ queue[q] # <<>>
  /\ \E x \in Tasks :
       /\ \/ x = Head(queue[q]) /\ queue' = [queue EXCEPT ![q] = Tail(queue[q])]
          \/ /\ x = queue[q][Len(queue[q])]
             /\ queue' = [queue EXCEPT ![q] = SubSeq(queue[q], 1, Len(queue[q]) - 1)]
       /\ frames' = [frames EXCEPT ![t] = <<NewFrame(x)>> \o frames[t]]
       /\ status' = [status EXCEPT ![x] = "running"]

Returns(t) ==
  /\ frames[t] # <<>> /\ Current(t).rest = <<>> /\ Current(t).task # Main
  /\ frames' = [frames EXCEPT ![t] = Tail(frames[t])]
  /\ status' = [status EXCEPT ![Current(t).task] = "finished"]
  /\ UNCHANGED queue

(* Where thread t stands in the book *)
LEMMA BookAt ==
  ASSUME Book, NEW t \in Threads
  PROVE  /\ frames[t] \in Seq(Frame) /\ Distinct(frames[t])
         /\ Items(frames[t]) \subseteq AllOf(frames, Threads)
         /\ AllOf(frames, Threads) \subseteq Frame
         /\ frames[t] # <<>> => /\ Current(t) \in Items(frames[t])
                                /\ Current(t) \in AllOf(frames, Threads)
                                /\ Current(t) \in Frame
<1>1. frames[t] \in Seq(Frame) /\ Distinct(frames[t])
  BY DEF Book, Apart
<1>2. Items(frames[t]) \subseteq AllOf(frames, Threads) /\ AllOf(frames, Threads) \subseteq Frame
  BY DEF AllOf, Book, Planned
<1>3. frames[t] # <<>> => Current(t) \in Items(frames[t])
  BY <1>1, PoppedInFront DEF Current
<1> QED
  BY <1>1, <1>2, <1>3

(* A push into a queue keeps the book and moves one task to "queued", *)
LEMMA BookPushes ==
  ASSUME Book, NEW t \in Threads, NEW q \in Workers, Pushes(t, q)
  PROVE  /\ Book'
         /\ frames'[t] # <<>> /\ (Bottom(frames[t]) => Bottom(frames'[t]))
         /\ \E x \in Tasks : Moved(x, "new", "queued")
<1> DEFINE f == Current(t)
           x == Next1(t)
           all == AllOf(frames, Threads)
<1>1. /\ frames[t] \in Seq(Frame) /\ Distinct(frames[t]) /\ frames[t] # <<>>
      /\ f \in Items(frames[t]) /\ f \in all /\ Items(frames[t]) \subseteq all
      /\ f = Head(frames[t]) /\ x = Head(f.rest) /\ f.rest # <<>>
  BY BookAt DEF Pushes, Scheduling, Current, Next1
<1>2. /\ frames' = [frames EXCEPT ![t] = Advanced(frames[t])]
      /\ status' = [status EXCEPT ![x] = "queued"]
  BY DEF Pushes
<1> HIDE DEF f, x, all
<1>3. /\ x \in Tasks /\ status[x] = "new"
      /\ NextFrame(f) \in Frame /\ \A g \in all \ {f} : g # NextFrame(f)
      /\ Planned((all \ {f}) \cup {NextFrame(f)}, status')
  <2>1. Planned(all, status)
    BY DEF Book, all
  <2> QED
    BY <1>1, <1>2, <2>1, PlanQueued, ZenonT(40)
<1>4. NextFrame(f).task = f.task
  BY <1>1 DEF NextFrame, Planned, Book, Frame, all
<1>5. /\ Advanced(frames[t]) \in Seq(Frame) /\ Advanced(frames[t]) # <<>>
      /\ Distinct(Advanced(frames[t]))
      /\ Items(Advanced(frames[t])) = (Items(frames[t]) \ {f}) \cup {NextFrame(f)}
      /\ Bottom(frames[t]) => Bottom(Advanced(frames[t]))
  BY <1>1, <1>3, <1>4, AdvancedStack
<1>6. Apart(frames', Threads, Frame) /\ AllOf(frames', Threads) = (all \ {f}) \cup {NextFrame(f)}
  <2>1. Apart(frames, Threads, Frame)
    BY DEF Book
  <2>2. \A e \in {NextFrame(f)} : e \in {f} \/ e \notin AllOf(frames, Threads)
    BY <1>3 DEF all
  <2>3. {f} \subseteq Items(frames[t])
    BY <1>1
  <2>4. Exchange(frames, Threads, Frame, t, Advanced(frames[t]), {f}, {NextFrame(f)}, frames')
    BY <1>2, <1>5, <2>1, <2>2, <2>3 DEF Exchange
  <2> QED
    BY <2>4, Replaced DEF all
<1>7. queue[q] \in Seq(Tasks) /\ Distinct(queue[q]) /\ Apart(queue, Workers, Tasks)
  BY DEF Book, Apart
<1>8. x \notin AllOf(queue, Workers) /\ x \notin Items(queue[q])
  BY <1>3 DEF Book, AllOf
<1>9. PICK s \in Seq(Tasks) :
        /\ queue' = [queue EXCEPT ![q] = s]
        /\ Len(s) = Len(queue[q]) + 1 /\ Distinct(s)
        /\ Items(s) = (Items(queue[q]) \ {}) \cup {x}
  <2>1. CASE queue' = [queue EXCEPT ![q] = <<x>> \o queue[q]]
    <3>1. /\ <<x>> \o queue[q] \in Seq(Tasks) /\ Len(<<x>> \o queue[q]) = Len(queue[q]) + 1
          /\ Items(<<x>> \o queue[q]) = {x} \cup Items(queue[q]) /\ Distinct(<<x>> \o queue[q])
      BY <1>3, <1>7, <1>8, PushedInFront
    <3> QED
      BY <2>1, <3>1
  <2>2. CASE queue' = [queue EXCEPT ![q] = Append(queue[q], x)]
    <3>1. /\ Append(queue[q], x) \in Seq(Tasks) /\ Len(Append(queue[q], x)) = Len(queue[q]) + 1
          /\ Items(Append(queue[q], x)) = {x} \cup Items(queue[q])
          /\ Distinct(Append(queue[q], x))
      BY <1>3, <1>7, <1>8, PushedBehind
    <3> QED
      BY <2>2, <3>1
  <2> QED
    BY <2>1, <2>2 DEF Pushes, x
<1>10. /\ Apart(queue', Workers, Tasks)
       /\ AllOf(queue', Workers) = (AllOf(queue, Workers) \ {}) \cup {x}
  <2>1. \A e \in {x} : e \in {} \/ e \notin AllOf(queue, Workers)
    BY <1>8
  <2>2. Exchange(queue, Workers, Tasks, q, s, {}, {x}, queue')
    BY <1>7, <1>9, <2>1 DEF Exchange
  <2> QED
    BY <2>2, Replaced
<1>11. \A p \in Workers : Len(queue'[p]) <= Capacity
  <2>1. Len(queue[q]) < Capacity /\ Len(queue[q]) \in Nat /\ Capacity \in Nat
    BY <1>7, LenProperties, PoolAssumption DEF Pushes
  <2> QED
    BY <2>1, <1>7, <1>9 DEF Book, Apart
<1>12. \A y \in Tasks : (status'[y] = "queued") <=> (y \in AllOf(queue', Workers))
  <2>1. status'[x] = "queued" /\ \A y \in Tasks \ {x} : status'[y] = status[y]
    BY <1>2, <1>3 DEF Book, Planned
  <2> QED
    BY <1>10, <2>1 DEF Book
<1>13. Book'
  BY <1>3, <1>6, <1>10, <1>11, <1>12 DEF Book
<1>14. frames'[t] = Advanced(frames[t])
  BY <1>2 DEF Book, Apart
<1> QED
  BY <1>2, <1>3, <1>5, <1>13, <1>14 DEF Moved

(* running a refused task at once moves it to "running", *)
LEMMA BookInlines ==
  ASSUME Book, NEW t \in Threads, Inlines(t)
  PROVE  /\ Book'
         /\ frames'[t] # <<>> /\ (Bottom(frames[t]) => Bottom(frames'[t]))
         /\ \E x \in Tasks : Moved(x, "new", "running")
<1> DEFINE f == Current(t)
           x == Next1(t)
           all == AllOf(frames, Threads)
           a == Advanced(frames[t])
           s == <<NewFrame(x)>> \o a
<1>1. /\ frames[t] \in Seq(Frame) /\ Distinct(frames[t]) /\ frames[t] # <<>>
      /\ f \in Items(frames[t]) /\ f \in all /\ Items(frames[t]) \subseteq all
      /\ f = Head(frames[t]) /\ x = Head(f.rest) /\ f.rest # <<>>
  BY BookAt DEF Inlines, Scheduling, Current, Next1
<1>2. /\ frames' = [frames EXCEPT ![t] = s] /\ queue' = queue
      /\ status' = [status EXCEPT ![x] = "running"]
  BY DEF Inlines
<1> HIDE DEF f, x, all
<1>3. /\ x \in Tasks /\ status[x] = "new"
      /\ NextFrame(f) \in Frame /\ NewFrame(x) \in Frame /\ NewFrame(x) # NextFrame(f)
      /\ NewFrame(x) \notin all
      /\ \A g \in all \ {f} : g # NextFrame(f)
      /\ Planned((all \ {f}) \cup {NextFrame(f), NewFrame(x)}, status')
  <2>1. Planned(all, status)
    BY DEF Book, all
  <2> QED
    BY <1>1, <1>2, <2>1, PlanInline
<1>4. NextFrame(f).task = f.task
  BY <1>1 DEF NextFrame, Planned, Book, Frame, all
<1>5. /\ a \in Seq(Frame) /\ a # <<>> /\ Distinct(a)
      /\ Items(a) = (Items(frames[t]) \ {f}) \cup {NextFrame(f)}
      /\ Bottom(frames[t]) => Bottom(a)
  BY <1>1, <1>3, <1>4, AdvancedStack
<1> HIDE DEF a
<1>6. /\ s \in Seq(Frame) /\ s # <<>> /\ Distinct(s)
      /\ Items(s) = (Items(a) \ {}) \cup {NewFrame(x)}
      /\ Bottom(a) => Bottom(s)
  <2>1. NewFrame(x) \notin Items(a)
    BY <1>1, <1>3, <1>5
  <2> QED
    BY <2>1, <1>3, <1>5, PushedStack
<1> HIDE DEF s
<1>7. /\ Apart(frames', Threads, Frame)
      /\ AllOf(frames', Threads) = (all \ {f}) \cup {NextFrame(f), NewFrame(x)}
  <2>1. Apart(frames, Threads, Frame)
    BY DEF Book
  <2>2. \A e \in {NextFrame(f), NewFrame(x)} : e \in {f} \/ e \notin AllOf(frames, Threads)
    BY <1>3 DEF all
  <2>3. {f} \subseteq Items(frames[t])
    BY <1>1
  <2>4. Items(s) = (Items(frames[t]) \ {f}) \cup {NextFrame(f), NewFrame(x)}
    BY <1>5, <1>6
  <2>5. Exchange(frames, Threads, Frame, t, s, {f}, {NextFrame(f), NewFrame(x)}, frames')
    BY <1>2, <1>6, <2>1, <2>2, <2>3, <2>4 DEF Exchange
  <2> QED
    BY <2>5, Replaced DEF all
<1>8. \A y \in Tasks : (status'[y] = "queued") <=> (status[y] = "queued")
  BY <1>2, <1>3 DEF Book, Planned
<1>9. Book'
  BY <1>2, <1>3, <1>7, <1>8 DEF Book
<1>10. frames'[t] = s
  BY <1>2 DEF Book, Apart
<1> QED
  BY <1>2, <1>3, <1>5, <1>6, <1>9, <1>10 DEF Moved

(* so does taking it from a queue, *)
LEMMA BookTakes ==
  ASSUME Book, NEW t \in Threads, NEW q \in Workers, Takes(t, q)
  PROVE  /\ Book'
         /\ frames'[t] # <<>> /\ (Bottom(frames[t]) => Bottom(frames'[t]))
         /\ \E x \in Tasks : Moved(x, "queued", "running")
<1>1. PICK x \in Tasks :
        /\ \/ x = Head(queue[q]) /\ queue' = [queue EXCEPT ![q] = Tail(queue[q])]
           \/ /\ x = queue[q][Len(queue[q])]
              /\ queue' = [queue EXCEPT ![q] = SubSeq(queue[q], 1, Len(queue[q]) - 1)]
        /\ frames' = [frames EXCEPT ![t] = <<NewFrame(x)>> \o frames[t]]
        /\ status' = [status EXCEPT ![x] = "running"]
  BY DEF Takes
<1>2. /\ queue[q] \in Seq(Tasks) /\ queue[q] # <<>> /\ Distinct(queue[q])
      /\ Apart(queue, Workers, Tasks)
  BY DEF Book, Apart, Takes
<1>3. PICK s \in Seq(Tasks) :
        /\ queue' = [queue EXCEPT ![q] = s] /\ x \in Items(queue[q])
        /\ Len(s) = Len(queue[q]) - 1 /\ Distinct(s)
        /\ Items(s) = (Items(queue[q]) \ {x}) \cup {}
  <2>1. CASE x = Head(queue[q]) /\ queue' = [queue EXCEPT ![q] = Tail(queue[q])]
    <3>1. /\ Tail(queue[q]) \in Seq(Tasks) /\ Len(Tail(queue[q])) = Len(queue[q]) - 1
          /\ Items(Tail(queue[q])) = Items(queue[q]) \ {x} /\ Distinct(Tail(queue[q]))
          /\ x \in Items(queue[q])
      BY <2>1, <1>2, PoppedInFront
    <3> QED
      BY <2>1, <3>1
  <2>2. CASE /\ x = queue[q][Len(queue[q])]
             /\ queue' = [queue EXCEPT ![q] = SubSeq(queue[q], 1, Len(queue[q]) - 1)]
    <3> DEFINE r == SubSeq(queue[q], 1, Len(queue[q]) - 1)
    <3>1. /\ r \in Seq(Tasks) /\ Len(r) = Len(queue[q]) - 1
          /\ Items(r) = Items(queue[q]) \ {x} /\ Distinct(r)
          /\ x \in Items(queue[q])
      BY <2>2, <1>2, PoppedBehind
    <3>2. queue' = [queue EXCEPT ![q] = r]
      BY <2>2
    <3> HIDE DEF r
    <3> QED
      BY <3>1, <3>2
  <2> QED
    BY <2>1, <2>2, <1>1
<1>4. /\ Apart(queue', Workers, Tasks)
      /\ AllOf(queue', Workers) = (AllOf(queue, Workers) \ {x}) \cup {}
  <2>1. Exchange(queue, Workers, Tasks, q, s, {x}, {}, queue')
    BY <1>2, <1>3 DEF Exchange
  <2> QED
    BY <2>1, Replaced
<1>5. status[x] = "queued"
  BY <1>3 DEF Book, AllOf
<1>6. /\ NewFrame(x) \in Frame /\ NewFrame(x) \notin AllOf(frames, Threads)
      /\ Planned(AllOf(frames, Threads) \cup {NewFrame(x)}, status')
  <2>1. Planned(AllOf(frames, Threads), status)
    BY DEF Book
  <2> QED
    BY <1>1, <1>5, <2>1, PlanTaken
<1> DEFINE a == <<NewFrame(x)>> \o frames[t]
<1>7. /\ a \in Seq(Frame) /\ a # <<>> /\ Distinct(a)
      /\ Items(a) = (Items(frames[t]) \ {}) \cup {NewFrame(x)}
      /\ Bottom(frames[t]) => Bottom(a)
  <2>1. /\ frames[t] \in Seq(Frame) /\ Distinct(frames[t])
        /\ NewFrame(x) \notin Items(frames[t])
    BY <1>6, BookAt
  <2> QED
    BY <2>1, <1>6, PushedStack
<1>8. frames' = [frames EXCEPT ![t] = a]
  BY <1>1
<1> HIDE DEF a
<1>9. /\ Apart(frames', Threads, Frame)
      /\ AllOf(frames', Threads) = (AllOf(frames, Threads) \ {}) \cup {NewFrame(x)}
  <2>1. Apart(frames, Threads, Frame)
    BY DEF Book
  <2>2. Exchange(frames, Threads, Frame, t, a, {}, {NewFrame(x)}, frames')
    BY <1>6, <1>7, <1>8, <2>1 DEF Exchange
  <2> QED
    BY <2>2, Replaced
<1>10. \A p \in Workers : Len(queue'[p]) <= Capacity
  <2>1. Len(queue[q]) \in Nat /\ Capacity \in Nat /\ Len(queue[q]) <= Capacity
    BY <1>2, LenProperties, PoolAssumption DEF Book
  <2> QED
    BY <2>1, <1>2, <1>3 DEF Book, Apart
<1>11. \A y \in Tasks : (status'[y] = "queued") <=> (y \in AllOf(queue', Workers))
  <2>1. status'[x] = "running" /\ \A y \in Tasks \ {x} : status'[y] = status[y]
    BY <1>1 DEF Book, Planned
  <2> QED
    BY <1>4, <2>1 DEF Book
<1>12. AllOf(frames, Threads) \ {} = AllOf(frames, Threads)
  OBVIOUS
<1>13. Book'
  BY <1>4, <1>6, <1>9, <1>10, <1>11, <1>12 DEF Book
<1>14. frames'[t] = a
  BY <1>8 DEF Book, Apart
<1> QED
  BY <1>1, <1>5, <1>7, <1>13, <1>14 DEF Moved

(* and its end moves it to "finished". *)
LEMMA BookReturns ==
  ASSUME Book, NEW t \in Threads, Returns(t)
  PROVE  /\ Book'
         /\ frames'[t] = <<>> <=> Len(frames[t]) = 1
         /\ Bottom(frames[t]) => Bottom(frames'[t])
         /\ \E x \in Tasks : Moved(x, "running", "finished")
<1> DEFINE f == Current(t)
           all == AllOf(frames, Threads)
           r == Tail(frames[t])
<1>1. /\ frames[t] \in Seq(Frame) /\ Distinct(frames[t]) /\ frames[t] # <<>>
      /\ f \in Items(frames[t]) /\ f \in all
      /\ f = Head(frames[t]) /\ f.rest = <<>> /\ f.task \in Tasks
  BY BookAt DEF Returns, Current, Frame
<1>2. /\ frames' = [frames EXCEPT ![t] = r] /\ queue' = queue
      /\ status' = [status EXCEPT ![f.task] = "finished"]
  BY DEF Returns
<1>3. /\ r \in Seq(Frame) /\ Distinct(r)
      /\ Items(r) = (Items(frames[t]) \ {f}) \cup {}
      /\ r = <<>> <=> Len(frames[t]) = 1
      /\ Bottom(frames[t]) /\ f.task # Main => Bottom(r)
  BY <1>1, PoppedStack
<1> HIDE DEF f, all, r
<1>4. /\ status[f.task] = "running" /\ Planned(all \ {f}, status')
  <2>1. Planned(all, status)
    BY DEF Book, all
  <2> QED
    BY <1>1, <1>2, <2>1, PlanReturned
<1>5. Apart(frames', Threads, Frame) /\ AllOf(frames', Threads) = (all \ {f}) \cup {}
  <2>1. Apart(frames, Threads, Frame) /\ {f} \subseteq Items(frames[t])
    BY <1>1 DEF Book
  <2>2. Exchange(frames, Threads, Frame, t, r, {f}, {}, frames')
    BY <1>2, <1>3, <2>1 DEF Exchange
  <2> QED
    BY <2>2, Replaced DEF all
<1>6. \A y \in Tasks : (status'[y] = "queued") <=> (status[y] = "queued")
  BY <1>1, <1>2, <1>4 DEF Book, Planned
<1>7. (all \ {f}) \cup {} = all \ {f}
  OBVIOUS
<1>8. Book'
  BY <1>2, <1>4, <1>5, <1>6, <1>7 DEF Book
<1>9. frames'[t] = r
  BY <1>2 DEF Book, Apart
<1>10. f.task # Main
  BY DEF Returns, f
<1> QED
  BY <1>1, <1>2, <1>3, <1>4, <1>8, <1>9, <1>10 DEF Moved

-----------------------------------------------------------------------------
(* The inductive invariant *)

Registered == {"check", "cancel", "block", "test.done", "test.blocked", "commit", "park",
               "exit.cancel"}
Executing == {"run", "notify", "unlock"}
Closing == {"destroy.notify", "join", "destroyed"}
Leaving == {"test.blocked", "exit.cancel", "exit.check", "exit.notify", "exited"}

At(labels) == {u \in Workers : pc[u] \in labels}

(* Where the threads are, what they hold, and how that fits done_ *)
ControlOK ==
  /\ pc \in [Threads -> Labels] /\ pc[Main] \in Executing \cup Closing
  /\ \A u \in Workers : pc[u] \notin Closing
  /\ walk \in [Threads -> WalkType]
  /\ lock \in [Workers -> Threads \cup {Free}]
  /\ \A q \in Workers : lock[q] # Free => pc[lock[q]] = "unlock"
  /\ done \in BOOLEAN /\ (done <=> pc[Main] \in Closing)
  /\ \A u \in Workers : pc[u] \in Leaving => done
  /\ pc[Main] = "destroyed" => \A u \in Workers : pc[u] = "exited"

(* A worker is registered with ec_ from Prewait on until it is back. *)
WaitersOK == Waiting(announced, parked, released, At(Registered), At({"park"}))

(* Worker u looks at queue q, or at all queues anew, before it sleeps or   *)
(* leaves.                                                                 *)
Busy == {"run", "notify", "unlock", "loop", "steal", "spin.stop", "prewait", "cancel", "pop",
         "unblock", "exit.cancel"}

Alert(u, q) ==
  \/ pc[u] \in Busy
  \/ pc[u] \in {"check", "exit.check"} /\ q \in Ahead(walk[u])
  \/ u \in released

Attended ==
  \A q \in Workers : queue[q] # <<>> =>
    pc[Main] \in {"unlock", "notify"} \/ \E u \in Workers : Alert(u, q)

(* A thread executes something where it must, and nothing elsewhere. *)
StacksOK ==
  /\ \A u \in Workers : pc[u] \in Executing => frames[u] # <<>>
  /\ \A u \in Workers : pc[u] \notin Executing \cup {"spin.stop"} => frames[u] = <<>>
  /\ Bottom(frames[Main])
  /\ pc[Main] \in Closing => Len(frames[Main]) = 1 /\ Current(Main).rest = <<>>

PoolInv == Counted /\ ControlOK /\ WaitersOK /\ Attended /\ Book /\ StacksOK

(* What a step of thread t does to the labels, the walks and the locks *)
Locks(t) ==
  \/ UNCHANGED lock /\ pc[t] # "unlock"
  \/ /\ pc[t] # "unlock" /\ pc'[t] = "unlock"
     /\ \E q \in Workers : lock' = [lock EXCEPT ![q] = t]
  \/ lock' = [q \in Workers |-> IF lock[q] = t THEN Free ELSE lock[q]]

WorkerControl(t) ==
  /\ walk' \in [Threads -> WalkType] /\ Locks(t) /\ UNCHANGED done
  /\ pc'[t] \notin Closing /\ (pc'[t] \in Leaving => done)
  /\ pc[t] # "exited"

OwnerControl ==
  /\ UNCHANGED walk /\ Locks(Main)
  /\ pc'[Main] \in Executing \cup Closing
  /\ done' \in BOOLEAN /\ (done' <=> pc'[Main] \in Closing) /\ (done => done')
  /\ pc'[Main] = "destroyed" => \A u \in Workers : pc[u] = "exited"

(* Each action of a worker sets its labels and walk in one of these ways, *)
LEMMA WorkerControls ==
  ASSUME Counted, ControlOK, NEW t \in Workers, WorkerNext(t)
  PROVE  WorkerControl(t)
<1>0. /\ t \in Threads /\ t # Main /\ pc \in [Threads -> Labels]
      /\ walk \in [Threads -> WalkType] /\ walk[t] \in WalkType /\ walk[t].rounds \in Nat
      /\ walk[t].victim \in Workers
      /\ pc[t] \in Leaving => done
  BY WorkersFinite DEF ControlOK, WalkType
<1>w. /\ NoWalk \in WalkType /\ \A k \in WalkType : k.left > 0 => Onward(k) \in WalkType
      /\ \A r \in Draws(NumThreads), n \in Nat : WalkFrom(r, n) \in WalkType
  BY NoWalkType, NewWalk, WalkOnward
<1> USE <1>0, <1>w DEF Go, Closing, Leaving, WorkerControl, Locks
<1>1. CASE ScheduleOwn(t)
  BY <1>1 DEF ScheduleOwn
<1>2. CASE ScheduleInline(t)
  BY <1>2 DEF ScheduleInline
<1>3. CASE ScheduleNotify(t)
  BY <1>3 DEF ScheduleNotify
<1>4. CASE TaskReturns(t)
  BY <1>4 DEF TaskReturns
<1>5. CASE LoopPopFront(t)
  BY <1>5 DEF LoopPopFront
<1>6. CASE PopBackUnlock(t)
  BY <1>6 DEF PopBackUnlock
<1>7. CASE StealTakes(t)
  BY <1>7 DEF StealTakes, PopBackTakes
<1>8. CASE StealFails(t)
  BY <1>8 DEF StealFails
<1>9. CASE StealEnds(t)
  BY <1>9 DEF StealEnds
<1>10. CASE SpinStop(t)
  BY <1>10 DEF SpinStop
<1>11. CASE Prewait(t)
  BY <1>11 DEF Prewait
<1>12. CASE CheckQueues(t)
  BY <1>12 DEF CheckQueues, Found, Visited, NoneFound
<1>13. CASE CancelThenPop(t)
  BY <1>13 DEF CancelThenPop
<1>14. CASE PopFound(t)
  BY <1>14 DEF PopFound, PopBackTakes
<1>15. CASE Block(t)
  BY <1>15 DEF Block
<1>16. CASE TestDone(t)
  BY <1>16 DEF TestDone
<1>17. CASE TestBlocked(t)
  BY <1>17 DEF TestBlocked
<1>18. CASE Commit(t)
  BY <1>18 DEF Commit
<1>19. CASE WakeUp(t)
  BY <1>19 DEF WakeUp
<1>20. CASE Unblock(t)
  BY <1>20 DEF Unblock
<1>21. CASE ExitCancel(t)
  BY <1>21 DEF ExitCancel
<1>22. CASE ExitCheck(t)
  BY <1>22 DEF ExitCheck, FoundAfterAll, Visited, NoneFound
<1>23. CASE Exit(t)
  BY <1>23 DEF Exit
<1>24. ~ScheduleUnlock(t) /\ \A q \in Workers : ~ScheduleRandom(t, q)
  BY DEF ScheduleUnlock, ScheduleRandom
<1> QED
  BY <1>1, <1>2, <1>3, <1>4, <1>5, <1>6, <1>7, <1>8, <1>9, <1>10, <1>11, <1>12, <1>13, <1>14, <1>15, <1>16, <1>17, <1>18, <1>19, <1>20, <1>21, <1>22, <1>23, <1>24 DEF WorkerNext, Schedule, WorkerLoop, WaitForWork

(* and each of the owner *)
LEMMA OwnerControls ==
  ASSUME ControlOK, StacksOK, Book, MainNext
  PROVE  OwnerControl
<1>0. /\ Main \in Threads /\ Main \notin Workers /\ pc \in [Threads -> Labels]
      /\ done \in BOOLEAN /\ (done <=> pc[Main] \in Closing)
  BY WorkersFinite DEF ControlOK
<1> USE <1>0 DEF Go, Closing, Executing, OwnerControl, Locks
<1>1. CASE \E q \in Workers : ScheduleRandom(Main, q)
  <2>1. PICK q \in Workers : ScheduleRandom(Main, q)
    BY <1>1
  <2> QED
    BY <2>1 DEF ScheduleRandom
<1>2. CASE ScheduleUnlock(Main)
  BY <1>2 DEF ScheduleUnlock
<1>3. CASE ScheduleInline(Main)
  BY <1>3 DEF ScheduleInline
<1>4. CASE ScheduleNotify(Main)
  BY <1>4 DEF ScheduleNotify
<1>5. CASE TaskReturns(Main)
  <2>1. Len(frames[Main]) # 1
    <3>1. frames[Main] # <<>> /\ frames[Main] \in Seq(Frame)
      BY BookAt DEF StacksOK, Bottom
    <3>2. Current(Main) = frames[Main][1]
      BY <3>1 DEF Current
    <3> QED
      BY <1>5, <3>2 DEF TaskReturns, StacksOK, Bottom
  <2> QED
    BY <1>5, <2>1 DEF TaskReturns
<1>6. CASE SetDone
  BY <1>6 DEF SetDone
<1>7. CASE DestroyNotify
  BY <1>7 DEF DestroyNotify
<1>8. CASE JoinAndDelete
  BY <1>8 DEF JoinAndDelete
<1>9. ~ScheduleOwn(Main)
  BY DEF ScheduleOwn
<1> QED
  BY <1>1, <1>2, <1>3, <1>4, <1>5, <1>6, <1>7, <1>8, <1>9 DEF MainNext, Schedule

(* Taking or releasing one queue's lock keeps the locks. *)
LEMMA LocksKept ==
  ASSUME ControlOK, NEW t \in Threads, Locks(t), pc' \in [Threads -> Labels],
         \A u \in Threads \ {t} : pc'[u] = pc[u]
  PROVE  /\ lock' \in [Workers -> Threads \cup {Free}]
         /\ \A q \in Workers : lock'[q] # Free => pc'[lock'[q]] = "unlock"
<1>1. /\ lock \in [Workers -> Threads \cup {Free}]
      /\ \A q \in Workers : lock[q] # Free => lock[q] \in Threads /\ pc[lock[q]] = "unlock"
  BY DEF ControlOK
<1>2. CASE UNCHANGED lock /\ pc[t] # "unlock"
  BY <1>1, <1>2
<1>3. CASE /\ pc[t] # "unlock" /\ pc'[t] = "unlock"
           /\ \E q \in Workers : lock' = [lock EXCEPT ![q] = t]
  BY <1>1, <1>3
<1>4. CASE lock' = [q \in Workers |-> IF lock[q] = t THEN Free ELSE lock[q]]
  BY <1>1, <1>4
<1> QED
  BY <1>2, <1>3, <1>4 DEF Locks

(* So ControlOK survives the workers *)
LEMMA WorkerKeepsControl ==
  ASSUME ControlOK, NEW t \in Workers, KeepsOthers(t), WorkerControl(t)
  PROVE  ControlOK'
<1>1. /\ t \in Threads /\ t # Main /\ Main \in Threads /\ Workers \subseteq Threads
      /\ pc' \in [Threads -> Labels] /\ \A u \in Threads \ {t} : pc'[u] = pc[u]
  BY WorkersFinite DEF KeepsOthers
<1>2. /\ lock' \in [Workers -> Threads \cup {Free}]
      /\ \A q \in Workers : lock'[q] # Free => pc'[lock'[q]] = "unlock"
  BY <1>1, LocksKept DEF WorkerControl
<1>3. pc'[Main] = pc[Main] /\ done' = done /\ pc[Main] # "destroyed"
  BY <1>1 DEF WorkerControl, ControlOK
<1> QED
  <2>1. /\ pc'[t] \notin Closing /\ (pc'[t] \in Leaving => done)
        /\ walk' \in [Threads -> WalkType]
    BY DEF WorkerControl
  <2>2. /\ \A u \in Workers : u = t \/ pc'[u] = pc[u]
        /\ \A u \in Workers : pc[u] \notin Closing /\ (pc[u] \in Leaving => done)
    BY <1>1 DEF ControlOK
  <2>3. \A u \in Workers : pc'[u] \notin Closing
    BY <2>2, <2>1
  <2>4. \A u \in Workers : pc'[u] \in Leaving => done'
    BY <1>3, <2>2, <2>1
  <2> QED
    BY <1>1, <1>2, <1>3, <2>1, <2>3, <2>4 DEF ControlOK

(* and the owner. *)
LEMMA OwnerKeepsControl ==
  ASSUME ControlOK, KeepsOthers(Main), OwnerControl
  PROVE  ControlOK'
<1>1. /\ Main \in Threads /\ Workers \subseteq Threads /\ Main \notin Workers
      /\ pc' \in [Threads -> Labels] /\ \A u \in Threads \ {Main} : pc'[u] = pc[u]
  BY WorkersFinite DEF KeepsOthers
<1>2. /\ lock' \in [Workers -> Threads \cup {Free}]
      /\ \A q \in Workers : lock'[q] # Free => pc'[lock'[q]] = "unlock"
  BY <1>1, LocksKept DEF OwnerControl
<1>3. \A u \in Workers : pc'[u] = pc[u]
  BY <1>1
<1> QED
  BY <1>1, <1>2, <1>3 DEF OwnerControl, ControlOK

(* What a step of thread t does with ec_ *)
WaitStep(t) ==
  \/ /\ UNCHANGED ecVars \/ NotifyOne \/ NotifyAll
     /\ pc'[t] \in Registered <=> pc[t] \in Registered
     /\ pc'[t] = "park" <=> pc[t] = "park"
  \/ Ec!EcPrewait(t) /\ pc[t] \notin Registered /\ pc'[t] \in Registered \ {"park"}
  \/ Ec!EcLeave(t) /\ pc'[t] \notin Registered
  \/ Ec!EcCancel(t) /\ pc[t] # "park" /\ pc'[t] \notin Registered
  \/ Ec!EcSleep(t) /\ pc[t] \in Registered /\ pc'[t] = "park"

(* A worker's action is at most one step of the event count, *)
LEMMA WorkerWaits ==
  ASSUME Counted, NEW t \in Workers, WorkerNext(t)
  PROVE  WaitStep(t)
<1>0. t \in Threads /\ pc \in [Threads -> Labels]
  BY WorkersFinite DEF Counted
<1> USE <1>0 DEF Go, Registered, WaitStep
<1>1. CASE ScheduleOwn(t)
  BY <1>1 DEF ScheduleOwn
<1>2. CASE ScheduleInline(t)
  BY <1>2 DEF ScheduleInline
<1>3. CASE ScheduleNotify(t)
  BY <1>3 DEF ScheduleNotify
<1>4. CASE TaskReturns(t)
  BY <1>4 DEF TaskReturns
<1>5. CASE LoopPopFront(t)
  BY <1>5 DEF LoopPopFront
<1>6. CASE PopBackUnlock(t)
  BY <1>6 DEF PopBackUnlock
<1>7. CASE StealTakes(t)
  BY <1>7 DEF StealTakes, PopBackTakes
<1>8. CASE StealFails(t)
  BY <1>8 DEF StealFails
<1>9. CASE StealEnds(t)
  BY <1>9 DEF StealEnds
<1>10. CASE SpinStop(t)
  BY <1>10 DEF SpinStop
<1>11. CASE Prewait(t)
  BY <1>11 DEF Prewait
<1>12. CASE CheckQueues(t)
  BY <1>12 DEF CheckQueues, Found, Visited, NoneFound
<1>13. CASE CancelThenPop(t)
  BY <1>13 DEF CancelThenPop, Cancelled
<1>14. CASE PopFound(t)
  BY <1>14 DEF PopFound, PopBackTakes
<1>15. CASE Block(t)
  BY <1>15 DEF Block
<1>16. CASE TestDone(t)
  BY <1>16 DEF TestDone
<1>17. CASE TestBlocked(t)
  BY <1>17 DEF TestBlocked
<1>18. CASE Commit(t)
  BY <1>18 DEF Commit
<1>19. CASE WakeUp(t)
  BY <1>19 DEF WakeUp
<1>20. CASE Unblock(t)
  BY <1>20 DEF Unblock
<1>21. CASE ExitCancel(t)
  BY <1>21 DEF ExitCancel, Cancelled
<1>22. CASE ExitCheck(t)
  BY <1>22 DEF ExitCheck, FoundAfterAll, Visited, NoneFound
<1>23. CASE Exit(t)
  BY <1>23 DEF Exit
<1>24. ~ScheduleUnlock(t) /\ \A q \in Workers : ~ScheduleRandom(t, q)
  BY DEF ScheduleUnlock, ScheduleRandom
<1> QED
  BY <1>1, <1>2, <1>3, <1>4, <1>5, <1>6, <1>7, <1>8, <1>9, <1>10, <1>11, <1>12, <1>13, <1>14, <1>15, <1>16, <1>17, <1>18, <1>19, <1>20, <1>21, <1>22, <1>23, <1>24 DEF WorkerNext, Schedule, WorkerLoop, WaitForWork

(* the owner's at most a notification. *)
LEMMA OwnerNotifies ==
  ASSUME Counted, MainNext
  PROVE  UNCHANGED ecVars \/ NotifyOne \/ NotifyAll
  BY DEF MainNext, Schedule, ScheduleOwn, ScheduleRandom, ScheduleUnlock, ScheduleInline,
         ScheduleNotify, TaskReturns, SetDone, DestroyNotify, JoinAndDelete

(* So the book of waiters survives the workers, and wake-ups stay, *)
LEMMA WorkerKeepsWaiters ==
  ASSUME WaitersOK, NEW t \in Workers, KeepsOthers(t), WaitStep(t)
  PROVE  WaitersOK' /\ released \ {t} \subseteq released'
<1> DEFINE all == At(Registered)
           atPark == At({"park"})
<1>0. Waiting(announced, parked, released, all, atPark)
  BY DEF WaitersOK
<1>1. \A u \in Workers \ {t} : pc'[u] = pc[u]
  BY WorkersFinite DEF KeepsOthers
<1>2. /\ t \in all <=> pc[t] \in Registered
      /\ t \in all' <=> pc'[t] \in Registered
      /\ t \in atPark <=> pc[t] = "park"
      /\ t \in atPark' <=> pc'[t] = "park"
      /\ all \subseteq Workers /\ all' \subseteq Workers
      /\ atPark \subseteq Workers /\ atPark' \subseteq Workers
      /\ \A u \in Workers \ {t} : (u \in all' <=> u \in all) /\ (u \in atPark' <=> u \in atPark)
  BY <1>1 DEF At
<1>3. "park" \in Registered
  BY DEF Registered
<1>4. SUFFICES /\ Waiting(announced', parked', released', all', atPark')
               /\ released \ {t} \subseteq released'
  BY DEF WaitersOK
<1> HIDE DEF all, atPark
<1>5. CASE /\ UNCHANGED ecVars \/ NotifyOne \/ NotifyAll
           /\ pc'[t] \in Registered <=> pc[t] \in Registered
           /\ pc'[t] = "park" <=> pc[t] = "park"
  <2>1. all' = all /\ atPark' = atPark
    BY <1>2, <1>5
  <2>2. CASE UNCHANGED ecVars
    BY <1>0, <2>1, <2>2 DEF ecVars
  <2>3. CASE NotifyOne \/ NotifyAll
    BY <1>0, <2>1, <2>3, WaitingNotified
  <2> QED
    BY <1>5, <2>2, <2>3
<1>6. CASE Ec!EcPrewait(t) /\ pc[t] \notin Registered /\ pc'[t] \in Registered \ {"park"}
  <2>1. t \notin all /\ all' = all \cup {t} /\ atPark' = atPark
    BY <1>2, <1>3, <1>6
  <2>2. Waiting(announced', parked', released', all', atPark')
    BY <1>0, <1>6, <2>1, WaitingPrewait
  <2> QED
    BY <1>6, <2>2 DEF Ec!EcPrewait
<1>7. CASE Ec!EcLeave(t) /\ pc'[t] \notin Registered
  <2>1. all' = all \ {t} /\ atPark' = atPark \ {t}
    BY <1>2, <1>3, <1>7
  <2>2. Waiting(announced', parked', released', all', atPark')
    BY <1>0, <1>7, <2>1, WaitingLeave
  <2> QED
    BY <1>7, <2>2 DEF Ec!EcLeave
<1>8. CASE Ec!EcCancel(t) /\ pc[t] # "park" /\ pc'[t] \notin Registered
  <2>1. all' = all \ {t} /\ atPark' = atPark
    BY <1>2, <1>3, <1>8
  <2>2. Waiting(announced', parked', released', all', atPark')
    BY <1>0, <1>8, <2>1, WaitingCancel
  <2> QED
    BY <1>8, <2>2 DEF Ec!EcCancel
<1>9. CASE Ec!EcSleep(t) /\ pc[t] \in Registered /\ pc'[t] = "park"
  <2>1. all' = all /\ atPark' = atPark \cup {t}
    BY <1>2, <1>3, <1>9
  <2>2. Waiting(announced', parked', released', all', atPark')
    BY <1>0, <1>9, <2>1, WaitingSleep
  <2> QED
    BY <1>9, <2>2 DEF Ec!EcSleep
<1> QED
  BY <1>5, <1>6, <1>7, <1>8, <1>9 DEF WaitStep

(* and so it does the owner. *)
LEMMA OwnerKeepsWaiters ==
  ASSUME WaitersOK, KeepsOthers(Main), UNCHANGED ecVars \/ NotifyOne \/ NotifyAll
  PROVE  WaitersOK' /\ released \subseteq released'
<1>1. \A u \in Workers : pc'[u] = pc[u]
  BY WorkersFinite DEF KeepsOthers
<1>2. At(Registered)' = At(Registered) /\ At({"park"})' = At({"park"})
  BY <1>1 DEF At, Registered
<1>3. CASE UNCHANGED ecVars
  BY <1>2, <1>3 DEF ecVars, WaitersOK
<1>4. CASE NotifyOne \/ NotifyAll
  BY <1>2, <1>4, WaitingNotified DEF WaitersOK
<1> QED
  BY <1>3, <1>4

(* The acting worker stays alert as long as there is a reason to be. *)
StaysAlert(t) ==
  \A q \in Workers :
    queue'[q] # <<>> /\ (Alert(t, q) \/ queue[q] = <<>>) => Alert(t, q)'

(* What is alert to a queue stays so unless it hands that on. *)
LEMMA WorkerStaysAlert ==
  ASSUME ControlOK, WaitersOK, NEW t \in Workers, WorkerNext(t)
  PROVE  StaysAlert(t)
<1>0. /\ t \in Threads /\ pc \in [Threads -> Labels] /\ pc[t] \notin Closing
      /\ walk \in [Threads -> WalkType] /\ walk[t] \in WalkType
  BY WorkersFinite DEF ControlOK
<1>a. t \in released => pc[t] \in Registered
  BY DEF WaitersOK, Waiting, At
<1>b. Ec!EcSleep(t) => t \notin released
  <2>1. Ec!EcSleep(t) => t \in Items(announced)
    BY WaitingSleep DEF WaitersOK
  <2> QED
    BY <2>1 DEF WaitersOK, Waiting
<1>c. /\ \A r \in Draws(NumThreads) : Ahead(WalkFrom(r, 0)) = Workers
      /\ walk[t].left > 0 => Ahead(walk[t]) \subseteq Ahead(Onward(walk[t])) \cup {walk[t].victim}
      /\ walk[t].left = 0 => Ahead(walk[t]) = {}
  BY <1>0, NewWalk, WalkOnward, WalkEnded
<1> USE <1>0, <1>a, <1>b, <1>c DEF Go, Registered, StaysAlert, Alert, Busy, ecVars
<1>1. CASE ScheduleOwn(t)
  BY <1>1 DEF ScheduleOwn
<1>2. CASE ScheduleInline(t)
  BY <1>2 DEF ScheduleInline
<1>3. CASE ScheduleNotify(t)
  BY <1>3 DEF ScheduleNotify
<1>4. CASE TaskReturns(t)
  BY <1>4 DEF TaskReturns
<1>5. CASE LoopPopFront(t)
  BY <1>5 DEF LoopPopFront
<1>6. CASE PopBackUnlock(t)
  BY <1>6 DEF PopBackUnlock
<1>7. CASE StealTakes(t)
  BY <1>7 DEF StealTakes, PopBackTakes
<1>8. CASE StealFails(t)
  BY <1>8 DEF StealFails
<1>9. CASE StealEnds(t)
  BY <1>9 DEF StealEnds
<1>10. CASE SpinStop(t)
  BY <1>10 DEF SpinStop
<1>11. CASE Prewait(t)
  BY <1>11 DEF Prewait
<1>12. CASE CheckQueues(t)
  <2>1. CASE Found(t, "check", "cancel")
    BY <2>1 DEF Found
  <2>2. CASE Visited(t, "check")
    BY <2>2 DEF Visited
  <2>3. CASE NoneFound(t, "check", "block")
    BY <2>3 DEF NoneFound
  <2> QED
    BY <1>12, <2>1, <2>2, <2>3 DEF CheckQueues
<1>13. CASE CancelThenPop(t)
  BY <1>13 DEF CancelThenPop, Cancelled
<1>14. CASE PopFound(t)
  BY <1>14 DEF PopFound, PopBackTakes
<1>15. CASE Block(t)
  BY <1>15 DEF Block
<1>16. CASE TestDone(t)
  BY <1>16 DEF TestDone
<1>17. CASE TestBlocked(t)
  BY <1>17 DEF TestBlocked
<1>18. CASE Commit(t)
  BY <1>18 DEF Commit
<1>19. CASE WakeUp(t)
  BY <1>19 DEF WakeUp
<1>20. CASE Unblock(t)
  BY <1>20 DEF Unblock
<1>21. CASE ExitCancel(t)
  BY <1>21 DEF ExitCancel, Cancelled
<1>22. CASE ExitCheck(t)
  <2>1. CASE FoundAfterAll(t)
    BY <2>1 DEF FoundAfterAll
  <2>2. CASE Visited(t, "exit.check")
    BY <2>2 DEF Visited
  <2>3. CASE NoneFound(t, "exit.check", "exit.notify")
    BY <2>3 DEF NoneFound
  <2> QED
    BY <1>22, <2>1, <2>2, <2>3 DEF ExitCheck
<1>23. CASE Exit(t)
  BY <1>23 DEF Exit
<1>24. ~ScheduleUnlock(t) /\ \A q \in Workers : ~ScheduleRandom(t, q)
  BY DEF ScheduleUnlock, ScheduleRandom
<1> QED
  BY <1>1, <1>2, <1>3, <1>4, <1>5, <1>6, <1>7, <1>8, <1>9, <1>10, <1>11, <1>12, <1>13, <1>14, <1>15, <1>16, <1>17, <1>18, <1>19, <1>20, <1>21, <1>22, <1>23, <1>24 DEF WorkerNext, Schedule, WorkerLoop, WaitForWork

(* The notification reaches a waiting worker, or nobody waits and no       *)
(* worker has left: either way some worker is alert.                       *)
LEMMA NotifiedOrUp ==
  ASSUME ControlOK, WaitersOK, ~done, NotifyOne, UNCHANGED walk,
         \A u \in Workers : pc'[u] = pc[u], NEW q \in Workers
  PROVE  \E u \in Workers : Alert(u, q)'
<1>1. /\ released' \subseteq Workers
      /\ released \subseteq released'
      /\ released' # released \/ Items(announced) \cup Items(parked) = {}
  <2>1. /\ Waiting(announced', parked', released', At(Registered), At({"park"}))
        /\ released \subseteq released'
        /\ released' # released \/ Items(announced) \cup Items(parked) = {}
    BY WaitingNotified DEF WaitersOK
  <2> QED
    BY <2>1 DEF Waiting
<1>2. CASE released' # released
  <2>1. PICK u \in Workers : u \in released'
    BY <1>1, <1>2
  <2> QED
    BY <2>1 DEF Alert
<1>3. CASE Items(announced) \cup Items(parked) = {}
  <2>1. q \in released \/ pc[q] \notin Registered
    BY <1>3 DEF WaitersOK, Waiting, At
  <2>2. pc[q] \in Labels /\ pc[q] \notin Closing /\ pc[q] \notin Leaving
    BY WorkersFinite DEF ControlOK
  <2>3. q \in released \/ pc[q] \in Busy
    BY <2>1, <2>2 DEF Labels, Closing, Leaving, Registered, Busy
  <2> QED
    BY <2>3, <1>1 DEF Alert
<1> QED
  BY <1>1, <1>2, <1>3

(* So every queued task stays attended when a worker acts *)
LEMMA WorkerKeepsAttended ==
  ASSUME Attended, NEW t \in Workers, KeepsOthers(t), StaysAlert(t), released \ {t} \subseteq released'
  PROVE  Attended'
<1> SUFFICES ASSUME NEW q \in Workers, queue'[q] # <<>>
             PROVE  pc'[Main] \in {"unlock", "notify"} \/ \E u \in Workers : Alert(u, q)'
  BY DEF Attended
<1>1. /\ \A u \in Workers \ {t} : pc'[u] = pc[u] /\ walk'[u] = walk[u]
      /\ pc'[Main] = pc[Main]
  BY WorkersFinite DEF KeepsOthers
<1>2. CASE queue[q] = <<>> \/ Alert(t, q)
  BY <1>2 DEF StaysAlert
<1>3. CASE queue[q] # <<>> /\ pc[Main] \in {"unlock", "notify"}
  BY <1>1, <1>3
<1>4. ASSUME NEW u \in Workers, u # t, Alert(u, q) PROVE Alert(u, q)'
  BY <1>1, <1>4 DEF Alert
<1> QED
  BY <1>2, <1>3, <1>4 DEF Attended

(* and when the owner does. *)
LEMMA OwnerKeepsAttended ==
  ASSUME ControlOK, WaitersOK, Attended, KeepsOthers(Main), MainNext, released \subseteq released'
  PROVE  Attended'
<1> SUFFICES ASSUME NEW q \in Workers, queue'[q] # <<>>
             PROVE  pc'[Main] \in {"unlock", "notify"} \/ \E u \in Workers : Alert(u, q)'
  BY DEF Attended
<1>1. /\ \A u \in Workers : pc'[u] = pc[u] /\ walk'[u] = walk[u]
      /\ pc \in [Threads -> Labels] /\ Main \in Threads
  BY WorkersFinite DEF KeepsOthers, ControlOK
<1>2. \A u \in Workers : Alert(u, q) => Alert(u, q)'
  BY <1>1 DEF Alert
<1>3. CASE \E p \in Workers : ScheduleRandom(Main, p)
  <2>1. PICK p \in Workers : ScheduleRandom(Main, p)
    BY <1>3
  <2> QED
    BY <2>1, <1>1 DEF ScheduleRandom, Go
<1>4. CASE ScheduleUnlock(Main)
  BY <1>4, <1>1 DEF ScheduleUnlock, Go
<1>5. CASE ScheduleNotify(Main)
  <2>1. ~done /\ NotifyOne /\ UNCHANGED walk
    BY <1>5 DEF ScheduleNotify, ControlOK, Closing
  <2> QED
    BY <2>1, <1>1, NotifiedOrUp
<1>6. CASE \/ ScheduleInline(Main) \/ TaskReturns(Main)
           \/ SetDone \/ DestroyNotify \/ JoinAndDelete
  <2>1. UNCHANGED queue /\ pc[Main] \notin {"unlock", "notify"}
    BY <1>6 DEF ScheduleInline, TaskReturns, SetDone, DestroyNotify, JoinAndDelete
  <2> QED
    BY <2>1, <1>2 DEF Attended
<1>7. ~ScheduleOwn(Main)
  BY WorkersFinite DEF ScheduleOwn
<1> QED
  BY <1>3, <1>4, <1>5, <1>6, <1>7 DEF MainNext, Schedule

(* How a step of a worker, and of the owner, changes the book *)
WorkerMoves(t) ==
  \/ /\ UNCHANGED <<queue, frames, status>>
     /\ pc'[t] \in Executing => frames[t] # <<>>
     /\ pc'[t] \notin Executing \cup {"spin.stop"} => frames[t] = <<>>
  \/ /\ pc'[t] \in Executing
     /\ Inlines(t) \/ \E q \in Workers : Pushes(t, q) \/ Takes(t, q)
  \/ Returns(t) /\ pc'[t] = IF Len(frames[t]) = 1 THEN "loop" ELSE "run"

OwnerMoves ==
  \/ /\ UNCHANGED <<queue, frames, status>>
     /\ pc'[Main] \in Closing =>
          pc[Main] \in Closing \/ (Current(Main).task = Main /\ Current(Main).rest = <<>>)
  \/ /\ pc'[Main] \notin Closing
     /\ Inlines(Main) \/ Returns(Main) \/ \E q \in Workers : Pushes(Main, q)

(* A worker's action leaves the book or is one of the four changes of it, *)
LEMMA WorkerMovesTasks ==
  ASSUME ControlOK, Book, StacksOK, NEW t \in Workers, WorkerNext(t)
  PROVE  WorkerMoves(t)
<1>0. /\ t \in Threads /\ pc \in [Threads -> Labels] /\ walk[t].victim \in Workers
      /\ frames \in [Threads -> Seq(Frame)]
      /\ pc[t] \in Executing => frames[t] # <<>>
      /\ pc[t] \notin Executing \cup {"spin.stop"} => frames[t] = <<>>
  BY WorkersFinite DEF ControlOK, StacksOK, WalkType, Book, Apart
<1>a. \A q \in Workers : queue[q] # <<>> =>
        Head(queue[q]) \in Tasks /\ queue[q][Len(queue[q])] \in Tasks
  BY PoppedInFront, PoppedBehind DEF Book, Apart
<1> USE <1>0 DEF Go, Executing, WorkerMoves
<1>1. CASE ScheduleOwn(t)
  <2>1. Pushes(t, t)
    BY <1>1 DEF ScheduleOwn, Pushes, Scheduling, Scheduled, Advanced, NextFrame, Current
  <2> QED
    BY <1>1, <2>1 DEF ScheduleOwn
<1>2. CASE ScheduleInline(t)
  <2>1. Scheduled(t)[t] = Advanced(frames[t])
    BY DEF Scheduled, Advanced, NextFrame, Current
  <2>2. Inlines(t)
    BY <1>2, <2>1 DEF ScheduleInline, Inlines, Scheduling, NewFrame
  <2> QED
    BY <1>2, <2>2 DEF ScheduleInline
<1>3. CASE ScheduleNotify(t)
  BY <1>3 DEF ScheduleNotify
<1>4. CASE TaskReturns(t)
  <2>1. Returns(t)
    BY <1>4 DEF TaskReturns, Returns
  <2> QED
    BY <1>4, <2>1 DEF TaskReturns
<1>5. CASE LoopPopFront(t)
  <2>1. CASE queue[t] # <<>>
    <3>1. Takes(t, t)
      BY <1>5, <2>1, <1>a DEF LoopPopFront, Execute, Takes, NewFrame
    <3> QED
      BY <1>5, <2>1, <3>1 DEF LoopPopFront
  <2>2. CASE queue[t] = <<>>
    BY <1>5, <2>2 DEF LoopPopFront
  <2> QED
    BY <2>1, <2>2
<1>6. CASE PopBackUnlock(t)
  BY <1>6 DEF PopBackUnlock
<1>7. CASE StealTakes(t)
  <2>1. Takes(t, walk[t].victim)
    BY <1>7, <1>a DEF StealTakes, PopBackTakes, Execute, Takes, NewFrame
  <2> QED
    BY <1>7, <2>1 DEF StealTakes, PopBackTakes
<1>8. CASE StealFails(t)
  BY <1>8 DEF StealFails
<1>9. CASE StealEnds(t)
  BY <1>9 DEF StealEnds
<1>10. CASE SpinStop(t)
  BY <1>10 DEF SpinStop
<1>11. CASE Prewait(t)
  BY <1>11 DEF Prewait
<1>12. CASE CheckQueues(t)
  BY <1>12 DEF CheckQueues, Found, Visited, NoneFound
<1>13. CASE CancelThenPop(t)
  BY <1>13 DEF CancelThenPop, Cancelled
<1>14. CASE PopFound(t)
  <2>1. CASE PopBackTakes(t, walk[t].victim)
    <3>1. Takes(t, walk[t].victim)
      BY <2>1, <1>a DEF PopBackTakes, Execute, Takes, NewFrame
    <3> QED
      BY <2>1, <3>1 DEF PopBackTakes
  <2>2. CASE ~PopBackTakes(t, walk[t].victim)
    BY <1>14, <2>2 DEF PopFound
  <2> QED
    BY <2>1, <2>2
<1>15. CASE Block(t)
  BY <1>15 DEF Block
<1>16. CASE TestDone(t)
  BY <1>16 DEF TestDone
<1>17. CASE TestBlocked(t)
  BY <1>17 DEF TestBlocked
<1>18. CASE Commit(t)
  BY <1>18 DEF Commit
<1>19. CASE WakeUp(t)
  BY <1>19 DEF WakeUp
<1>20. CASE Unblock(t)
  BY <1>20 DEF Unblock
<1>21. CASE ExitCancel(t)
  BY <1>21 DEF ExitCancel, Cancelled
<1>22. CASE ExitCheck(t)
  BY <1>22 DEF ExitCheck, FoundAfterAll, Visited, NoneFound
<1>23. CASE Exit(t)
  BY <1>23 DEF Exit
<1>24. ~ScheduleUnlock(t) /\ \A q \in Workers : ~ScheduleRandom(t, q)
  BY DEF ScheduleUnlock, ScheduleRandom
<1> QED
  BY <1>1, <1>2, <1>3, <1>4, <1>5, <1>6, <1>7, <1>8, <1>9, <1>10, <1>11, <1>12, <1>13, <1>14, <1>15, <1>16, <1>17, <1>18, <1>19, <1>20, <1>21, <1>22, <1>23, <1>24 DEF WorkerNext, Schedule, WorkerLoop, WaitForWork

(* and so is the owner's. *)
LEMMA OwnerMovesTasks ==
  ASSUME ControlOK, Book, StacksOK, OwnerControl, MainNext
  PROVE  OwnerMoves
<1>0. /\ Main \in Threads /\ Main \notin Workers /\ pc \in [Threads -> Labels]
      /\ frames \in [Threads -> Seq(Frame)] /\ frames[Main] # <<>>
  BY WorkersFinite DEF ControlOK, StacksOK, Book, Apart, Bottom
<1> USE <1>0 DEF Go, Closing, OwnerMoves
<1>1. CASE \E q \in Workers : ScheduleRandom(Main, q)
  <2>1. PICK q \in Workers : ScheduleRandom(Main, q)
    BY <1>1
  <2>2. Pushes(Main, q)
    BY <2>1 DEF ScheduleRandom, Pushes, Scheduling, Scheduled, Advanced, NextFrame, Current
  <2> QED
    BY <2>1, <2>2 DEF ScheduleRandom
<1>2. CASE ScheduleUnlock(Main)
  BY <1>2 DEF ScheduleUnlock
<1>3. CASE ScheduleInline(Main)
  <2>1. Scheduled(Main)[Main] = Advanced(frames[Main])
    BY DEF Scheduled, Advanced, NextFrame, Current
  <2>2. Inlines(Main)
    BY <1>3, <2>1 DEF ScheduleInline, Inlines, Scheduling, NewFrame
  <2> QED
    BY <1>3, <2>2 DEF ScheduleInline
<1>4. CASE ScheduleNotify(Main)
  BY <1>4 DEF ScheduleNotify
<1>5. CASE TaskReturns(Main)
  <2>1. Returns(Main)
    BY <1>5 DEF TaskReturns, Returns
  <2> QED
    BY <1>5, <2>1 DEF TaskReturns
<1>6. CASE SetDone
  BY <1>6 DEF SetDone
<1>7. CASE DestroyNotify
  BY <1>7 DEF DestroyNotify
<1>8. CASE JoinAndDelete
  BY <1>8 DEF JoinAndDelete
<1>9. ~ScheduleOwn(Main)
  BY DEF ScheduleOwn
<1> QED
  BY <1>1, <1>2, <1>3, <1>4, <1>5, <1>6, <1>7, <1>8, <1>9 DEF MainNext, Schedule

TaskMoved ==
  \/ UNCHANGED status
  \/ \E x \in Tasks :
       \/ Moved(x, "new", "queued") \/ Moved(x, "queued", "running")
       \/ Moved(x, "new", "running") \/ Moved(x, "running", "finished")

(* The stacks of the other threads stay as they are. *)
LEMMA OtherStacks ==
  ASSUME Book, NEW t \in Threads,
         \/ UNCHANGED frames \/ Inlines(t) \/ Returns(t)
         \/ \E q \in Workers : Pushes(t, q) \/ Takes(t, q)
  PROVE  \A u \in Threads \ {t} : frames'[u] = frames[u]
<1>1. frames \in [Threads -> Seq(Frame)]
  BY DEF Book, Apart
<1> QED
  BY <1>1 DEF Inlines, Returns, Pushes, Takes

(* So the book survives the workers, and at most one task moves, *)
LEMMA WorkerKeepsBook ==
  ASSUME Book, StacksOK, NEW t \in Workers, KeepsOthers(t), WorkerMoves(t)
  PROVE  Book' /\ StacksOK' /\ TaskMoved
<1>1. /\ t \in Threads /\ t # Main /\ Main \in Threads
      /\ \A u \in Threads \ {t} : pc'[u] = pc[u] /\ frames'[u] = frames[u]
      /\ \A u \in Workers \ {t} : u \in Threads \ {t}
  BY WorkersFinite, OtherStacks DEF KeepsOthers, WorkerMoves
<1>2. /\ Book' /\ TaskMoved
      /\ pc'[t] \in Executing => frames'[t] # <<>>
      /\ pc'[t] \notin Executing \cup {"spin.stop"} => frames'[t] = <<>>
  <2>1. CASE /\ UNCHANGED <<queue, frames, status>>
             /\ pc'[t] \in Executing => frames[t] # <<>>
             /\ pc'[t] \notin Executing \cup {"spin.stop"} => frames[t] = <<>>
    BY <2>1 DEF Book, TaskMoved
  <2>2. CASE pc'[t] \in Executing /\ Inlines(t)
    BY <2>2, <1>1, BookInlines DEF TaskMoved
  <2>3. ASSUME NEW q \in Workers, pc'[t] \in Executing, Pushes(t, q)
        PROVE  Book' /\ TaskMoved /\ frames'[t] # <<>>
    BY <2>3, <1>1, BookPushes DEF TaskMoved
  <2>4. ASSUME NEW q \in Workers, pc'[t] \in Executing, Takes(t, q)
        PROVE  Book' /\ TaskMoved /\ frames'[t] # <<>>
    BY <2>4, <1>1, BookTakes DEF TaskMoved
  <2>5. CASE Returns(t) /\ pc'[t] = IF Len(frames[t]) = 1 THEN "loop" ELSE "run"
    <3>1. Book' /\ TaskMoved /\ (frames'[t] = <<>> <=> Len(frames[t]) = 1)
      BY <2>5, <1>1, BookReturns DEF TaskMoved
    <3> QED
      BY <2>5, <3>1 DEF Executing
  <2> QED
    BY <2>1, <2>2, <2>3, <2>4, <2>5 DEF WorkerMoves
<1>3. /\ \A u \in Workers : pc'[u] \in Executing => frames'[u] # <<>>
      /\ \A u \in Workers : pc'[u] \notin Executing \cup {"spin.stop"} => frames'[u] = <<>>
  BY <1>1, <1>2 DEF StacksOK
<1>4. pc'[Main] = pc[Main] /\ frames'[Main] = frames[Main]
  BY <1>1
<1>5. StacksOK'
  BY <1>3, <1>4 DEF StacksOK, Current
<1> QED
  BY <1>2, <1>5

(* The owner's own frame is its last one, and no other has its task. *)
LEMMA OwnerAtBottom ==
  ASSUME Book, StacksOK, Current(Main).task = Main
  PROVE  Len(frames[Main]) = 1
<1> DEFINE s == frames[Main]
<1>1. s \in Seq(Frame) /\ Distinct(s) /\ Items(s) \subseteq AllOf(frames, Threads) /\ s # <<>>
  BY WorkersFinite, BookAt DEF StacksOK, Bottom
<1>2. s[Len(s)].task = Main /\ s[1].task = Main
  BY <1>1 DEF StacksOK, Bottom, Current
<1> HIDE DEF s
<1>3. Len(s) \in Nat \ {0}
  BY <1>1, LenProperties, EmptySeq
<1>4. 1 \in 1..Len(s) /\ Len(s) \in 1..Len(s)
  BY <1>3
<1>5. s[1] \in AllOf(frames, Threads) /\ s[Len(s)] \in AllOf(frames, Threads)
  BY <1>1, <1>4 DEF Items
<1>6. s[1] = s[Len(s)]
  BY <1>2, <1>5 DEF Book, Planned
<1>7. Len(s) = 1
  BY <1>1, <1>4, <1>6 DEF Distinct
<1> QED
  BY <1>7 DEF s

(* and the owner. *)
LEMMA OwnerKeepsBook ==
  ASSUME Book, StacksOK, KeepsOthers(Main), OwnerMoves
  PROVE  Book' /\ StacksOK' /\ TaskMoved
<1>1. /\ Main \in Threads /\ Main \notin Workers /\ Workers \subseteq Threads
      /\ \A u \in Workers : pc'[u] = pc[u] /\ frames'[u] = frames[u]
  BY WorkersFinite, OtherStacks DEF KeepsOthers, OwnerMoves
<1>2. /\ \A u \in Workers : pc'[u] \in Executing => frames'[u] # <<>>
      /\ \A u \in Workers : pc'[u] \notin Executing \cup {"spin.stop"} => frames'[u] = <<>>
  BY <1>1 DEF StacksOK
<1>3. Bottom(frames[Main])
  BY DEF StacksOK
<1>4. CASE UNCHANGED <<queue, frames, status>> /\ pc'[Main] \in Closing
  <2>1. Len(frames[Main]) = 1 /\ Current(Main).rest = <<>>
    BY <1>4, OwnerAtBottom DEF OwnerMoves, StacksOK
  <2> QED
    BY <1>2, <1>3, <1>4, <2>1 DEF Book, StacksOK, TaskMoved, Current
<1>5. CASE UNCHANGED <<queue, frames, status>> /\ pc'[Main] \notin Closing
  BY <1>2, <1>3, <1>5 DEF Book, StacksOK, TaskMoved
<1>6. CASE pc'[Main] \notin Closing /\ Inlines(Main)
  BY <1>1, <1>2, <1>3, <1>6, BookInlines DEF StacksOK, TaskMoved
<1>7. CASE pc'[Main] \notin Closing /\ Returns(Main)
  BY <1>1, <1>2, <1>3, <1>7, BookReturns DEF StacksOK, TaskMoved
<1>8. ASSUME NEW q \in Workers, pc'[Main] \notin Closing, Pushes(Main, q)
      PROVE  Book' /\ StacksOK' /\ TaskMoved
  BY <1>1, <1>2, <1>3, <1>8, BookPushes DEF StacksOK, TaskMoved
<1> QED
  BY <1>4, <1>5, <1>6, <1>7, <1>8 DEF OwnerMoves

-----------------------------------------------------------------------------
(* The invariant holds at first: everybody looks for work, and only the    *)
(* owner's tasks are about to be scheduled.                                *)
LEMMA InitWaiters == Init => WaitersOK
<1> SUFFICES ASSUME Init PROVE WaitersOK
  OBVIOUS
<1>1. \A t \in Workers : pc[t] = "loop"
  BY WorkersFinite DEF Init
<1>2. At(Registered) = {} /\ At({"park"}) = {}
  BY <1>1 DEF At, Registered
<1>3. <<>> \in Seq(Workers) /\ Items(<<>>) = {} /\ Distinct(<<>>)
  BY EmptySequence, EmptySeq
<1> QED
  BY <1>2, <1>3 DEF Init, WaitersOK, Waiting

(* Labels, walks and locks at the start, *)
LEMMA InitControl == Init => ControlOK
<1> SUFFICES ASSUME Init PROVE ControlOK
  OBVIOUS
<1>1. /\ Main \in Threads /\ pc[Main] = "run" /\ \A u \in Workers : pc[u] = "loop"
      /\ pc \in [Threads -> Labels]
  BY WorkersFinite DEF Init, Labels
<1>2. walk \in [Threads -> WalkType]
  BY NoWalkType DEF Init
<1>3. lock \in [Workers -> Threads \cup {Free}] /\ \A q \in Workers : lock[q] = Free
  BY DEF Init
<1>4. done = FALSE
  BY DEF Init
<1> QED
  BY <1>1, <1>2, <1>3, <1>4 DEF ControlOK, Executing, Closing, Leaving

(* the book, *)
LEMMA InitBook == Init => Book /\ StacksOK
<1> SUFFICES ASSUME Init PROVE Book /\ StacksOK
  OBVIOUS
<1> DEFINE f == [task |-> Main, rest |-> Roots]
<1>1. /\ Main \in Threads /\ Main \notin Workers /\ Workers \subseteq Threads
      /\ pc[Main] = "run" /\ \A u \in Workers : pc[u] = "loop"
  BY WorkersFinite DEF Init
<1>2. f \in Frame /\ f.task = Main /\ f.rest = Roots
  BY PoolAssumption DEF Frame
<1>3. /\ frames = [t \in Threads |-> IF t = Main THEN <<f>> ELSE <<>>]
      /\ queue = [q \in Workers |-> <<>>]
      /\ status = [x \in Tasks |-> "new"]
  BY DEF Init
<1> HIDE DEF f
<1>4. /\ <<f>> \in Seq(Frame) /\ Len(<<f>>) = 1 /\ <<f>>[1] = f
      /\ Items(<<f>>) = {f} /\ Distinct(<<f>>) /\ <<f>> # <<>> /\ Head(<<f>>) = f
  BY <1>2 DEF Items, Distinct
<1>5. /\ <<>> \in Seq(Frame) /\ <<>> \in Seq(Tasks)
      /\ Items(<<>>) = {} /\ Distinct(<<>>) /\ Len(<<>>) = 0
  BY EmptySequence, EmptySeq
<1>6. Apart(queue, Workers, Tasks) /\ AllOf(queue, Workers) = {}
  BY <1>3, <1>5 DEF Apart, AllOf
<1>7. \A q \in Workers : Len(queue[q]) <= Capacity
  BY <1>3, <1>5, PoolAssumption
<1>8. Apart(frames, Threads, Frame) /\ AllOf(frames, Threads) = {f}
  <2>1. /\ frames \in [Threads -> Seq(Frame)]
        /\ frames[Main] = <<f>> /\ \A t \in Threads \ {Main} : frames[t] = <<>>
    BY <1>1, <1>3, <1>4, <1>5
  <2>2. /\ \A t \in Threads : Distinct(frames[t])
        /\ \A t \in Threads \ {Main} : Items(frames[t]) = {}
        /\ Items(frames[Main]) = {f}
    BY <2>1, <1>4, <1>5
  <2> QED
    BY <2>1, <2>2, <1>1 DEF Apart, AllOf
<1>9. Planned({f}, status)
  <2>1. status \in [Tasks -> Statuses] /\ \A x \in Tasks : status[x] = "new"
    BY <1>3 DEF Statuses
  <2>2. \A y \in Tasks \cup {Main} : \A k \in 1..Len(Schedules(y)) : Schedules(y)[k] \in Tasks
    BY SchedulesType, ElementOfSeq
  <2>3. \A y \in Tasks : AllNew(y, status)
    BY <2>1, <2>2 DEF AllNew
  <2>4. Partway(f, status)
    <3> DEFINE body == Schedules(Main)
               made == Len(body) - Len(body)
    <3>1. Len(body) \in Nat
      BY SchedulesType, LenProperties
    <3>2. f.task = Main /\ f.rest = body
      BY <1>2 DEF Schedules
    <3>3. \A k \in 1..Len(body) : status[body[k]] = "new"
      BY <2>1, <2>2
    <3> HIDE DEF body
    <3>4. made = 0 /\ \A k \in 1..Len(body) : 0 + k = k /\ k > 0
      BY <3>1
    <3>5. /\ Len(body) <= Len(body)
          /\ \A j \in 1..Len(body) : body[j] = body[made + j]
          /\ \A k \in 1..Len(body) : (status[body[k]] = "new") <=> (k > made)
      BY <3>1, <3>3, <3>4
    <3> QED
      BY <3>2, <3>5 DEF Partway, body
  <2> QED
    BY <2>1, <2>3, <2>4, <1>2, TaskAssumption DEF Planned
<1>10. \A x \in Tasks : (status[x] = "queued") <=> (x \in AllOf(queue, Workers))
  BY <1>3, <1>6
<1>11. Book
  BY <1>6, <1>7, <1>8, <1>9, <1>10 DEF Book
<1>12. /\ frames[Main] = <<f>> /\ \A u \in Workers : frames[u] = <<>>
  BY <1>1, <1>3
<1>13. Bottom(frames[Main])
  BY <1>2, <1>4, <1>12 DEF Bottom
<1>14. StacksOK
  BY <1>1, <1>12, <1>13 DEF StacksOK, Executing, Closing
<1> QED
  BY <1>11, <1>14

(* and the whole invariant *)
LEMMA InitPool == Init => PoolInv
<1>1. Init => Attended
  BY DEF Init, Attended
<1> QED
  BY <1>1, InitCounted, InitControl, InitWaiters, InitBook DEF PoolInv

(* Every step keeps the invariant, and moves at most one task. *)
LEMMA StepKeepsPool == PoolInv /\ [Next]_vars => PoolInv' /\ TaskMoved
<1> SUFFICES ASSUME PoolInv, [Next]_vars PROVE PoolInv' /\ TaskMoved
  OBVIOUS
<1>0. Counted' /\ Counted /\ ControlOK /\ WaitersOK /\ Attended /\ Book /\ StacksOK
  BY StepKeepsCounted DEF PoolInv
<1>1. ASSUME NEW t \in Workers, WorkerNext(t) PROVE PoolInv' /\ TaskMoved
  <2>1. KeepsOthers(t)
    BY <1>0, <1>1, WorkerStepCounts
  <2>2. ControlOK'
    BY <1>0, <1>1, <2>1, WorkerControls, WorkerKeepsControl
  <2>3. WaitersOK' /\ released \ {t} \subseteq released'
    BY <1>0, <1>1, <2>1, WorkerWaits, WorkerKeepsWaiters
  <2>4. Attended'
    BY <1>0, <1>1, <2>1, <2>3, WorkerStaysAlert, WorkerKeepsAttended
  <2>5. Book' /\ StacksOK' /\ TaskMoved
    BY <1>0, <1>1, <2>1, WorkerMovesTasks, WorkerKeepsBook
  <2> QED
    BY <1>0, <2>2, <2>3, <2>4, <2>5 DEF PoolInv
<1>2. ASSUME MainNext PROVE PoolInv' /\ TaskMoved
  <2>1. KeepsOthers(Main)
    BY <1>0, <1>2, OwnerStepCounts
  <2>2. OwnerControl /\ ControlOK'
    BY <1>0, <1>2, <2>1, OwnerControls, OwnerKeepsControl
  <2>3. WaitersOK' /\ released \subseteq released'
    BY <1>0, <1>2, <2>1, OwnerNotifies, OwnerKeepsWaiters
  <2>4. Attended'
    BY <1>0, <1>2, <2>1, <2>3, OwnerKeepsAttended
  <2>5. Book' /\ StacksOK' /\ TaskMoved
    BY <1>0, <1>2, <2>1, <2>2, OwnerMovesTasks, OwnerKeepsBook
  <2> QED
    BY <1>0, <2>2, <2>3, <2>4, <2>5 DEF PoolInv
<1>3. ASSUME UNCHANGED vars PROVE PoolInv' /\ TaskMoved
  <2>1. TaskMoved
    BY <1>3 DEF vars, TaskMoved
  <2>2. ControlOK'
    BY <1>0, <1>3 DEF vars, ControlOK
  <2>3. WaitersOK'
    BY <1>0, <1>3 DEF vars, ecVars, WaitersOK, At
  <2>4. Attended'
    BY <1>0, <1>3 DEF vars, ecVars, Attended, Alert
  <2>5. Book' /\ StacksOK'
    BY <1>0, <1>3 DEF vars, Book, StacksOK, Current
  <2> QED
    BY <1>0, <2>1, <2>2, <2>3, <2>4, <2>5 DEF PoolInv
<1> QED
  BY <1>1, <1>2, <1>3 DEF Next, Terminated

(* The inductive invariant of the pool *)
THEOREM PoolInvariant == Spec => []PoolInv
<1>1. Init => PoolInv
  BY InitPool
<1>2. PoolInv /\ [Next]_vars => PoolInv'
  BY StepKeepsPool
<1> QED
  BY <1>1, <1>2, PTL DEF Spec

(* blocked_ is at most the number of workers. *)
LEMMA BlockedBounded == BlockedIsExact => blocked \in 0..NumThreads
<1>1. NumThreads \in Nat \ {0}
  BY PoolAssumption
<1>2. Cardinality(Workers) = NumThreads
  <2>1. Cardinality(0..(NumThreads - 1)) =
          IF 0 > NumThreads - 1 THEN 0 ELSE (NumThreads - 1) - 0 + 1
    BY <1>1, FS_Interval
  <2> QED
    BY <1>1, <2>1 DEF Workers
<1>3. Cardinality(BlockedWorkers) <= Cardinality(Workers)
  BY WorkersFinite, FS_Subset DEF BlockedWorkers
<1> QED
  BY <1>1, <1>2, <1>3, BlockedFinite DEF BlockedIsExact

(* The invariant gives the types, *)
LEMMA PoolTypes == PoolInv => TypeOK
<1> SUFFICES ASSUME PoolInv PROVE TypeOK
  OBVIOUS
<1>1. queue \in [Workers -> Seq(Tasks)] /\ \A q \in Workers : Len(queue[q]) <= Capacity
  BY DEF PoolInv, Book, Apart
<1>2. /\ lock \in [Workers -> Threads \cup {Free}] /\ pc \in [Threads -> Labels]
      /\ done \in BOOLEAN /\ spinning \in BOOLEAN
  BY DEF PoolInv, ControlOK, Counted
<1>3. announced \in Seq(Workers) /\ parked \in Seq(Workers) /\ released \subseteq Workers
  BY DEF PoolInv, WaitersOK, Waiting, At
<1>4. blocked \in 0..NumThreads
  BY BlockedBounded DEF PoolInv, Counted
<1>5. \A t \in Threads : walk[t].victim \in Workers /\ walk[t].left \in 0..NumThreads
  BY DEF PoolInv, ControlOK, WalkType
<1>6. \A t \in Threads : \A i \in 1..Len(frames[t]) : frames[t][i].rest \in Seq(Tasks)
  <2>1. \A t \in Threads : frames[t] \in Seq(Frame)
    BY DEF PoolInv, Book, Apart
  <2>2. \A t \in Threads : \A i \in 1..Len(frames[t]) : frames[t][i] \in Frame
    BY <2>1, ElementOfSeq
  <2> QED
    BY <2>2 DEF Frame
<1>7. status \in [Tasks -> {"new", "queued", "running", "finished"}]
  BY DEF PoolInv, Book, Planned, Statuses
<1> QED
  BY <1>1, <1>2, <1>3, <1>4, <1>5, <1>6, <1>7 DEF TypeOK

(* who is alert is not asleep and has not left, *)
LEMMA AlertIsUp ==
  ASSUME WaitersOK, NEW u \in Workers, NEW q \in Workers, Alert(u, q)
  PROVE  u \in Workers \ (Asleep \cup Exited)
<1>1. /\ Asleep \subseteq At({"park"}) /\ released \subseteq At(Registered)
      /\ released \cap Asleep = {}
  BY DEF WaitersOK, Waiting, Items, Asleep
<1> QED
  BY <1>1 DEF Alert, Busy, At, Registered, Exited

(* so queued work is attended, *)
LEMMA PoolAttends == PoolInv => QueuedWorkIsAttended
<1> SUFFICES ASSUME PoolInv, NEW q \in Workers, queue[q] # <<>>
             PROVE  \/ Workers \ (Asleep \cup Exited) # {}
                    \/ \E t \in Threads : pc[t] \in {"unlock", "notify"}
  BY DEF QueuedWorkIsAttended
<1>1. pc[Main] \in {"unlock", "notify"} \/ \E u \in Workers : Alert(u, q)
  BY DEF PoolInv, Attended
<1> QED
  BY <1>1, AlertIsUp, WorkersFinite DEF PoolInv

(* Once every worker has left, nothing is queued, running or waited for.   *)
LEMMA AllHaveLeft ==
  ASSUME PoolInv, pc[Main] \in Closing, \A u \in Workers : pc[u] = "exited"
  PROVE  /\ \A q \in Workers : queue[q] = <<>> /\ lock[q] = Free
         /\ \A x \in Tasks : status[x] \in {"new", "finished"}
         /\ announced = <<>> /\ parked = <<>> /\ released = {}
         /\ ~spinning
<1>1. At(Registered) = {}
  BY DEF At, Registered
<1>2. /\ announced \in Seq(Workers) /\ parked \in Seq(Workers)
      /\ Items(announced) = {} /\ Items(parked) = {} /\ released = {}
  BY <1>1 DEF PoolInv, WaitersOK, Waiting
<1>3. announced = <<>> /\ parked = <<>>
  BY <1>2, ItemsOfSeq
<1>4. \A u, q \in Workers : ~Alert(u, q)
  BY <1>2 DEF Alert, Busy
<1>5. pc[Main] # "unlock" /\ pc[Main] # "notify"
  BY DEF Closing
<1>6. \A q \in Workers : queue[q] = <<>>
  BY <1>4, <1>5 DEF PoolInv, Attended
<1>7. \A q \in Workers : lock[q] = Free
  <2>1. \A t \in Threads : pc[t] # "unlock"
    BY <1>5 DEF Threads
  <2> QED
    BY <2>1 DEF PoolInv, ControlOK
<1>8. AllOf(queue, Workers) = {}
  BY <1>6, EmptySequence DEF AllOf
<1>9. AllOf(frames, Threads) \subseteq {Current(Main)} /\ Current(Main).task = Main
  <2>1. \A u \in Workers : frames[u] = <<>>
    BY DEF PoolInv, StacksOK, Executing
  <2>2. frames[Main] \in Seq(Frame) /\ Len(frames[Main]) = 1 /\ frames[Main] # <<>>
    BY WorkersFinite DEF PoolInv, StacksOK, Book, Apart, Bottom
  <2>3. Items(frames[Main]) = {frames[Main][1]} /\ Current(Main) = frames[Main][1]
    BY <2>2 DEF Items, Current
  <2>4. frames[Main][1].task = Main
    BY <2>2 DEF PoolInv, StacksOK, Bottom
  <2>5. \A t \in Threads : Items(frames[t]) \subseteq {Current(Main)}
    BY <2>1, <2>3, EmptySequence DEF Threads
  <2> QED
    BY <2>3, <2>4, <2>5 DEF AllOf
<1>10. \A x \in Tasks : status[x] # "running"
  BY <1>9, TaskAssumption DEF PoolInv, Book, Planned
<1>11. \A x \in Tasks : status[x] # "queued"
  BY <1>8 DEF PoolInv, Book
<1>12. \A x \in Tasks : status[x] \in {"new", "finished"}
  BY <1>10, <1>11 DEF PoolInv, Book, Planned, Statuses
<1>13. ~spinning
  BY DEF PoolInv, Counted, Spinners, SpinLabels
<1> QED
  BY <1>2, <1>3, <1>6, <1>7, <1>12, <1>13

(* and nothing is left behind at the end. *)
LEMMA PoolLeavesNothing == PoolInv => NothingLeftBehind
<1> SUFFICES ASSUME PoolInv, pc[Main] = "destroyed"
             PROVE  /\ \A i \in 1..Len(Roots) : status[Roots[i]] = "finished"
                    /\ \A x \in Tasks : status[x] = "finished" =>
                         \A i \in 1..Len(Children[x]) : status[Children[x][i]] = "finished"
                    /\ announced \o parked = <<>> /\ released = {}
                    /\ \A q \in Workers : queue[q] = <<>> /\ lock[q] = Free
                    /\ ~spinning
  BY DEF NothingLeftBehind
<1>1. pc[Main] \in Closing /\ \A u \in Workers : pc[u] = "exited"
  BY DEF PoolInv, ControlOK, Closing
<1>2. /\ \A q \in Workers : queue[q] = <<>> /\ lock[q] = Free
      /\ \A x \in Tasks : status[x] \in {"new", "finished"}
      /\ announced = <<>> /\ parked = <<>> /\ released = {}
      /\ ~spinning
  BY <1>1, AllHaveLeft
<1>3. announced \o parked = <<>>
  BY <1>2
<1>4. ASSUME NEW i \in 1..Len(Roots) PROVE status[Roots[i]] = "finished"
  <2> DEFINE f == Current(Main)
  <2>1. /\ frames[Main] \in Seq(Frame) /\ frames[Main] # <<>> /\ Len(frames[Main]) = 1
        /\ f.rest = <<>> /\ f \in AllOf(frames, Threads)
    BY <1>1, WorkersFinite, BookAt DEF PoolInv, StacksOK, Bottom
  <2>2. f.task = Main
    BY <2>1 DEF PoolInv, StacksOK, Bottom, Current
  <2>3. Partway(f, status)
    BY <2>1 DEF PoolInv, Book, Planned
  <2>4. Len(Roots) \in Nat /\ Len(<<>>) = 0
    BY PoolAssumption, LenProperties, EmptySequence
  <2>5. (status[Roots[i]] = "new") <=> (i > Len(Roots) - 0)
    BY <2>1, <2>2, <2>3, <2>4 DEF Partway, Schedules
  <2>6. Roots[i] \in Tasks /\ ~(i > Len(Roots) - 0)
    BY <2>4, PoolAssumption, ElementOfSeq
  <2> QED
    BY <2>5, <2>6, <1>2
<1>5. ASSUME NEW x \in Tasks, status[x] = "finished", NEW i \in 1..Len(Children[x])
      PROVE  status[Children[x][i]] = "finished"
  <2>1. Children[x] = Schedules(x) /\ Children[x][i] \in Tasks
    BY SchedulesType, TaskAssumption, ElementOfSeq
  <2>2. NoneNew(x, status)
    BY <1>5 DEF PoolInv, Book, Planned
  <2>3. status[Children[x][i]] # "new"
    BY <2>1, <2>2 DEF NoneNew
  <2> QED
    BY <2>1, <2>3, <1>2
<1> QED
  BY <1>2, <1>3, <1>4, <1>5

(* No task is stranded: neither in a queue nobody will look at while the   *)
(* pool runs, whatever the pushes, the steals and the decisions to sleep   *)
(* that overlap, nor anywhere once the destructor has returned             *)
(* (non_blocking_thread_pool.h: Schedule, WaitForWork, the destructor).    *)
THEOREM NoTaskIsStranded == Spec => []WorkIsNeverStranded
<1>1. PoolInv => WorkIsNeverStranded
  BY PoolTypes, PoolAttends, PoolLeavesNothing DEF WorkIsNeverStranded
<1> QED
  BY <1>1, PoolInvariant, PTL

-----------------------------------------------------------------------------
(* A step of the pool is a step of TaskPool, or none. *)
LEMMA StepIsTaskStep == PoolInv /\ [Next]_vars => [Pool!PoolNext]_(Pool!poolVars)
<1> SUFFICES ASSUME PoolInv, [Next]_vars PROVE [Pool!PoolNext]_(Pool!poolVars)
  OBVIOUS
<1> DEFINE gone == pc[Main] = "destroyed"
<1>1. CASE ~gone /\ ~gone'
  <2>1. TaskMoved
    BY StepKeepsPool
  <2>2. CASE UNCHANGED status
    BY <1>1, <2>2 DEF Pool!poolVars
  <2>3. ASSUME NEW x \in Tasks, \/ Moved(x, "new", "queued") \/ Moved(x, "queued", "running")
                                \/ Moved(x, "new", "running") \/ Moved(x, "running", "finished")
        PROVE  Pool!PoolNext
    <3>1. Pool!Submit(x) \/ Pool!Start(x) \/ Pool!Finish(x)
      BY <1>1, <2>3 DEF Moved, Pool!Submit, Pool!Start, Pool!Finish, Pool!Move
    <3> QED
      BY <3>1 DEF Pool!PoolNext
  <2> QED
    BY <2>1, <2>2, <2>3 DEF TaskMoved
<1>2. CASE gone
  <2>1. \A t \in Workers : ~WorkerNext(t)
    <3>1. \A t \in Workers : pc[t] = "exited"
      BY <1>2 DEF PoolInv, ControlOK
    <3>2. ASSUME NEW t \in Workers, WorkerNext(t) PROVE pc[t] # "exited"
      BY <3>2, WorkerControls DEF PoolInv, WorkerControl
    <3> QED
      BY <3>1, <3>2
  <2>2. ~MainNext
    BY <1>2 DEF MainNext, Schedule, ScheduleOwn, ScheduleRandom, ScheduleUnlock, ScheduleInline,
                ScheduleNotify, TaskReturns, SetDone, DestroyNotify, JoinAndDelete
  <2>3. UNCHANGED vars
    BY <2>1, <2>2 DEF Next, Terminated
  <2> QED
    BY <2>3 DEF vars, Pool!poolVars
<1>3. CASE ~gone /\ gone'
  <2>1. ASSUME NEW t \in Workers, WorkerNext(t) PROVE FALSE
    <3>1. KeepsOthers(t)
      BY <2>1, WorkerStepCounts DEF PoolInv
    <3> QED
      BY <3>1, <1>3, WorkersFinite DEF KeepsOthers
  <2>2. JoinAndDelete
    <3>1. pc \in [Threads -> Labels] /\ Main \in Threads
      BY WorkersFinite DEF PoolInv, ControlOK
    <3>2. MainNext
      BY <1>3, <2>1 DEF Next, Terminated, vars
    <3> QED
      BY <1>3, <3>1, <3>2 DEF MainNext, Schedule, ScheduleOwn, ScheduleRandom, ScheduleUnlock,
                ScheduleInline, ScheduleNotify, TaskReturns, SetDone, DestroyNotify, Go
  <2>3. \A x \in Tasks : status[x] \in {"new", "finished"}
    BY <2>2, AllHaveLeft DEF JoinAndDelete, Closing
  <2> QED
    BY <1>3, <2>2, <2>3 DEF JoinAndDelete, Pool!PoolNext, Pool!Destroy
<1> QED
  BY <1>1, <1>2, <1>3

(* The pool implements TaskPool: whatever the threads do, a scheduled task *)
(* starts exactly once, and the destructor returns after the last of them. *)
THEOREM PoolRunsEveryTaskOnce == Spec => RunsEveryTaskOnce
<1>1. Init => Pool!PoolInit
  BY WorkersFinite DEF Init, Pool!PoolInit
<1>2. PoolInv /\ [Next]_vars => [Pool!PoolNext]_(Pool!poolVars)
  BY StepIsTaskStep
<1> QED
  BY <1>1, <1>2, PoolInvariant, PTL DEF Spec, RunsEveryTaskOnce, Pool!PoolSpec
=============================================================================
