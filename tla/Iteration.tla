----------------------------- MODULE Iteration ------------------------------
(***************************************************************************)
(* What the proofs need of recursive functions. A function defined by      *)
(* f[n \in S] == ... is a choice among the solutions of its equation, so   *)
(* one has to be shown to exist before anything follows from it. Here that *)
(* is done once, for a step that is itself a function, and induction is by *)
(* the least counterexample: both say with sets and functions what other   *)
(* theorems say with operators.                                            *)
(***************************************************************************)
EXTENDS Integers, WellFoundedInduction, TLAPS

(* A set of natural numbers that is not empty has a least element. *)
LEMMA LeastNatural ==
  ASSUME NEW T \in SUBSET Nat, T # {}
  PROVE  \E m \in T : \A k \in T : m <= k
<1>1. PICK m \in T : \A y \in T : ~ (<<y, m>> \in OpToRel(<, Nat))
  BY WFMin, NatLessThanWellFounded
<1>2. \A y \in T : ~(y < m)
  BY <1>1 DEF OpToRel
<1>3. m \in Nat /\ \A y \in T : y \in Nat
  OBVIOUS
<1> QED
  BY <1>2, <1>3

(* Induction: a set with 0, and with n + 1 when with n, has every number.  *)
LEMMA Induction ==
  ASSUME NEW T, 0 \in T, \A n \in Nat : n \in T => n + 1 \in T
  PROVE  Nat \subseteq T
<1> SUFFICES ASSUME Nat \ T # {} PROVE FALSE
  OBVIOUS
<1>1. PICK m \in Nat \ T : \A k \in Nat \ T : m <= k
  BY LeastNatural
<1>2. m - 1 \in Nat /\ m - 1 \in T
  BY <1>1
<1> QED
  BY <1>1, <1>2

(* The first n + 1 values of an iteration                                  *)
Begins(g, n, S, x, step) ==
  /\ g \in [0..n -> S] /\ g[0] = x
  /\ \A k \in 0..(n - 1) : g[k + 1] = step[<<k, g[k]>>]

(* A beginning exists of every length. *)
LEMMA Beginnings ==
  ASSUME NEW S, NEW x \in S, NEW step \in [Nat \X S -> S]
  PROVE  \A n \in Nat : \E g : Begins(g, n, S, x, step)
<1> DEFINE T == {n \in Nat : \E g : Begins(g, n, S, x, step)}
<1>1. 0 \in T
  <2>1. Begins([k \in 0..0 |-> x], 0, S, x, step)
    BY DEF Begins
  <2> QED
    BY <2>1
<1>2. ASSUME NEW n \in Nat, n \in T PROVE n + 1 \in T
  <2>1. PICK g : Begins(g, n, S, x, step)
    BY <1>2
  <2> DEFINE h == [k \in 0..(n + 1) |-> IF k <= n THEN g[k] ELSE step[<<n, g[n]>>]]
  <2>2. h \in [0..(n + 1) -> S] /\ h[0] = x
    BY <2>1 DEF Begins
  <2>3. \A k \in 0..n : h[k + 1] = step[<<k, h[k]>>]
    <3> SUFFICES ASSUME NEW k \in 0..n PROVE h[k + 1] = step[<<k, h[k]>>]
      OBVIOUS
    <3>1. h[k] = g[k]
      OBVIOUS
    <3>2. CASE k = n
      BY <3>1, <3>2
    <3>3. CASE k # n
      BY <2>1, <3>1, <3>3 DEF Begins
    <3> QED
      BY <3>2, <3>3
  <2> HIDE DEF h
  <2>4. Begins(h, n + 1, S, x, step)
    BY <2>2, <2>3 DEF Begins
  <2> QED
    BY <2>4
<1>3. Nat \subseteq T
  <2> HIDE DEF T
  <2> QED
    BY <1>1, <1>2, Induction
<1> QED
  BY <1>3

(* Two beginnings agree as far as both go. *)
LEMMA BeginningsAgree ==
  ASSUME NEW S, NEW x, NEW step, NEW n \in Nat, NEW m \in Nat, NEW g, NEW h,
         Begins(g, n, S, x, step), Begins(h, m, S, x, step)
  PROVE  \A k \in Nat : k <= n /\ k <= m => g[k] = h[k]
<1> DEFINE T == {k \in Nat : k <= n /\ k <= m => g[k] = h[k]}
<1>1. 0 \in T
  BY DEF Begins
<1>2. ASSUME NEW k \in Nat, k \in T PROVE k + 1 \in T
  <2> SUFFICES ASSUME k + 1 <= n, k + 1 <= m PROVE g[k + 1] = h[k + 1]
    OBVIOUS
  <2>1. g[k] = h[k]
    BY <1>2
  <2>2. k \in 0..(n - 1) /\ k \in 0..(m - 1)
    OBVIOUS
  <2> QED
    BY <2>1, <2>2 DEF Begins
<1>3. Nat \subseteq T
  <2> HIDE DEF T
  <2> QED
    BY <1>1, <1>2, Induction
<1> QED
  BY <1>3

(* Every step can be iterated. *)
Iterated(f, S, x, step) ==
  /\ f \in [Nat -> S] /\ f[0] = x
  /\ \A k \in Nat : f[k + 1] = step[<<k, f[k]>>]

(* There is such a function. *)
LEMMA Iterates ==
  ASSUME NEW S, NEW x \in S, NEW step \in [Nat \X S -> S]
  PROVE  \E f : Iterated(f, S, x, step)
<1> DEFINE upTo == [n \in Nat |-> CHOOSE g : Begins(g, n, S, x, step)]
           f == [n \in Nat |-> upTo[n][n]]
<1>1. \A n \in Nat : Begins(upTo[n], n, S, x, step)
  BY Beginnings
<1> HIDE DEF upTo
<1>2. f \in [Nat -> S] /\ f[0] = x
  BY <1>1 DEF Begins
<1>3. ASSUME NEW k \in Nat PROVE f[k + 1] = step[<<k, f[k]>>]
  <2>1. upTo[k + 1][k] = upTo[k][k]
    <3>1. Begins(upTo[k], k, S, x, step) /\ Begins(upTo[k + 1], k + 1, S, x, step)
      BY <1>1
    <3>2. PICK g, h : g = upTo[k + 1] /\ h = upTo[k]
      OBVIOUS
    <3>3. Begins(g, k + 1, S, x, step) /\ Begins(h, k, S, x, step)
      BY <3>1, <3>2
    <3>4. k + 1 \in Nat /\ k <= k /\ k <= k + 1
      OBVIOUS
    <3>5. \A i \in Nat : i <= k + 1 /\ i <= k => g[i] = h[i]
      BY <3>3, <3>4, BeginningsAgree
    <3> QED
      BY <3>2, <3>4, <3>5
  <2>2. upTo[k + 1][k + 1] = step[<<k, upTo[k + 1][k]>>]
    BY <1>1 DEF Begins
  <2> QED
    BY <2>1, <2>2
<1> HIDE DEF f
<1> QED
  BY <1>2, <1>3 DEF Iterated

(* The same, as the equation that f[k \in 0..n] == ... chooses from         *)
Recursive(g, n, S, x, step) ==
  /\ g \in [0..n -> S]
  /\ g = [k \in 0..n |-> IF k = 0 THEN x ELSE step[<<k - 1, g[k - 1]>>]]

(* A recursive function of that form is a solution of its equation. *)
LEMMA Recursion ==
  ASSUME NEW S, NEW x \in S, NEW step \in [Nat \X S -> S], NEW n \in Nat
  PROVE  \E g : Recursive(g, n, S, x, step)
<1>1. PICK f : Iterated(f, S, x, step)
  BY Iterates
<1> DEFINE g == [k \in 0..n |-> f[k]]
<1>2. g \in [0..n -> S]
  BY <1>1 DEF Iterated
<1>3. \A k \in 0..n : g[k] = IF k = 0 THEN x ELSE step[<<k - 1, g[k - 1]>>]
  <2> SUFFICES ASSUME NEW k \in 0..n
               PROVE  g[k] = IF k = 0 THEN x ELSE step[<<k - 1, g[k - 1]>>]
    OBVIOUS
  <2>1. CASE k = 0
    BY <1>1, <2>1 DEF Iterated
  <2>2. CASE k # 0
    <3>1. k - 1 \in Nat /\ k - 1 \in 0..n /\ k = (k - 1) + 1
      BY <2>2
    <3>2. g[k - 1] = f[k - 1] /\ g[k] = f[(k - 1) + 1]
      BY <3>1
    <3> QED
      BY <1>1, <2>2, <3>1, <3>2 DEF Iterated
  <2> QED
    BY <2>1, <2>2
<1> HIDE DEF g
<1> QED
  BY <1>2, <1>3 DEF Recursive
=============================================================================
