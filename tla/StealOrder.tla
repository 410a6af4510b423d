----------------------------- MODULE StealOrder -----------------------------
(***************************************************************************)
(* The order in which a worker visits the queues of the others             *)
(* (non_blocking_thread_pool.h): from a random victim on, in steps of a    *)
(* random number coprime to the number of queues.                          *)
(***************************************************************************)
EXTENDS Integers, Sequences, FiniteSets

(* The constructor's loop: Euclid's algorithm on i and num_threads. *)
Gcd(i, n) ==
  LET euclid[b \in 0..n] == [a \in 0..n |-> IF b = 0 THEN a ELSE euclid[a % b][b]]
  IN euclid[n][i]

CoprimesAll(n) == [i \in 1..n |-> i]       \* mutant: every step is taken
CoprimeSet(n) == {i \in 1..n : Gcd(i, n) = 1}
Coprimes(n) ==                             \* in ascending order
  LET C == CoprimeSet(n)
  IN [k \in 1..Cardinality(C) |-> CHOOSE i \in C : Cardinality({j \in C : j <= i}) = k]

(* One number r decides both where the walk starts and its step. *)
FirstVictim(r, n) == r % n
Increment(r, n) == Coprimes(n)[(r % Len(Coprimes(n))) + 1]

(* The values of r that differ in either. *)
Draws(n) == 0..(n * Len(Coprimes(n)) - 1)

NextVictim(victim, inc, n) ==
  IF victim + inc >= n THEN victim + inc - n ELSE victim + inc
=============================================================================
