-------------------------- MODULE EventCountProofs --------------------------
(***************************************************************************)
(* Proofs about EventCount (src/core/base/thread/event_count.h): the       *)
(* inductive invariant, NobodyIsForgotten and the refinement of            *)
(* EventCountSpec.  The epochs are turned into tickets, which count from   *)
(* zero and never wrap; the linked lists into sequences.  A step is        *)
(* described by what it does to the tickets (Serves, Prewait) and to the   *)
(* lists (Quiet, Pushed, Taken, Signalled), and the parts of the invariant *)
(* are shown to survive these instead of every action.                     *)
(***************************************************************************)
EXTENDS EventCount, FiniteSetTheorems, FunctionTheorems, SequenceTheorems, WellFoundedInduction, TLAPS

Threads == Waiters \cup Notifiers

WaiterLabels ==
  {"idle", "announced", "commit.load", "commit.next", "commit.cas",
   "park.lock", "park.wait", "cancel.load", "cancel.cas"}
NotifierLabels ==
  {"idle", "notify.load", "notify.next", "notify.cas", "notify.clear",
   "unpark.next", "unpark.signal", "unpark.cv"}

Deciding == {"announced", "commit.load", "commit.next", "commit.cas", "cancel.load", "cancel.cas"}
Committing == {"commit.load", "commit.next", "commit.cas"}
Loaded == {"commit.next", "commit.cas", "cancel.cas"}
Sleeping == {"park.lock", "park.wait"}

(* The word before its types are known to be narrow *)
Words == [epoch : 0..(EpochMod - 1), waiters : Nat, top : Waiters \cup {Nobody}]
Todos == [all : BOOLEAN, below : Waiters \cup {Nobody},
          wake : Waiters \cup {Nobody}, then : Waiters \cup {Nobody}]

WellTyped ==
  /\ state \in Words
  /\ next \in [Waiters -> Waiters \cup {Nobody}]
  /\ signal \in [Waiters -> {"kNotSignaled", "kWaiting", "kSignaled"}]
  /\ turn \in [Waiters -> 0..(EpochMod - 1)]
  /\ pc \in [Threads -> Labels]
  /\ \A w \in Waiters : pc[w] \in WaiterLabels
  /\ \A n \in Notifiers : pc[n] \in NotifierLabels
  /\ seen \in [Threads -> Words]
  /\ todo \in [Notifiers -> Todos]
  /\ waits \in 0..MaxWaits

(* How many waiters had decided when the word was s: the epoch begins at   *)
(* its last value.  And how many had announced themselves before w.        *)
Count(s) == (s.epoch + 1) % EpochMod
Ticket(w) == (turn[w] + 1) % EpochMod

(* The announced waiters hold the tickets from the next to be served on *)
TicketsOK ==
  /\ Count(state) + state.waiters = waits
  /\ \A w \in Waiters : pc[w] \in Deciding => Ticket(w) < waits
  /\ \A w, v \in Waiters :
       pc[w] \in Deciding /\ pc[v] \in Deciding /\ Ticket(w) = Ticket(v) => w = v
  /\ \A k \in Count(state)..(waits - 1) :
       \E w \in Waiters : pc[w] \in Deciding /\ Ticket(w) = k

(* Linked lists: c is what following nx from w meets *)
IsChain(c, w, nx) ==
  /\ c \in Seq(Waiters)
  /\ \A i, j \in 1..Len(c) : c[i] = c[j] => i = j
  /\ w = IF c = <<>> THEN Nobody ELSE c[1]
  /\ \A i \in 1..Len(c) : nx[c[i]] = IF i = Len(c) THEN Nobody ELSE c[i + 1]

(* What a notifier has taken off the stack and not signalled yet *)
List(n) ==
  CASE pc[n] = "notify.clear" -> <<todo[n].wake>>
    [] pc[n] \in {"unpark.next", "unpark.signal"} -> Chain(todo[n].wake)
    [] pc[n] = "unpark.cv" -> Chain(todo[n].then)
    [] OTHER -> <<>>

Line(x) == IF x = Nobody THEN Stack ELSE List(x)
Places == Notifiers \cup {Nobody}

ChainsOK ==
  /\ IsChain(Stack, state.top, next)
  /\ \A n \in Notifiers :
       /\ pc[n] = "notify.clear" => todo[n].wake # Nobody
       /\ pc[n] \in {"unpark.next", "unpark.signal"} => IsChain(List(n), todo[n].wake, next)
       /\ pc[n] = "unpark.signal" => todo[n].wake # Nobody /\ todo[n].then = next[todo[n].wake]
       /\ pc[n] = "unpark.cv" => todo[n].wake # Nobody /\ IsChain(List(n), todo[n].then, next)

LinesOK ==
  /\ \A x, y \in Places : x # y => Members(Line(x)) \cap Members(Line(y)) = {}
  /\ \A w \in Waiters :
       pc[w] \in Sleeping /\ signal[w] # "kSignaled" <=> \E x \in Places : w \in Members(Line(x))

SignalsOK ==
  /\ \A w \in Waiters : pc[w] \in Committing => signal[w] = "kNotSignaled"
  /\ \A w \in Waiters : pc[w] = "park.wait" => signal[w] # "kNotSignaled"
  /\ SignalReachesTheSleeper

(* What was read is what it was, unless the word says otherwise *)
SeenOK ==
  /\ \A w \in Waiters : pc[w] \in Loaded => Count(seen[w]) = Ticket(w)
  /\ \A w \in Waiters : pc[w] = "commit.cas" => next[w] = seen[w].top
  /\ \A n \in Notifiers :
       /\ pc[n] \in {"notify.next", "notify.cas"} =>
            Count(seen[n]) <= Count(state) /\ ~(Empty(seen[n]) /\ seen[n].waiters = 0)
       /\ pc[n] = "notify.next" => ~todo[n].all /\ seen[n].waiters = 0
       /\ pc[n] = "notify.cas" /\ ~todo[n].all /\ seen[n].waiters = 0
            /\ Count(seen[n]) = Count(state) /\ seen[n].top \in Members(Stack) =>
          todo[n].below = next[seen[n].top]

CountersFit == \A t \in Threads : seen[t].waiters <= Cardinality(Waiters)

EventCountInv == WellTyped /\ TicketsOK /\ ChainsOK /\ LinesOK /\ SignalsOK /\ SeenOK /\ CountersFit

(* A set of natural numbers that is not empty has a least element. *)
LEMMA LeastElement ==
  ASSUME NEW T \in SUBSET Nat, T # {}
  PROVE  \E m \in T : \A k \in T : m <= k
<1>1. PICK m \in T : \A y \in T : ~ (<<y, m>> \in OpToRel(<, Nat))
  BY WFMin, NatLessThanWellFounded
<1>2. \A y \in T : ~(y < m)
  BY <1>1 DEF OpToRel
<1>3. m \in Nat /\ \A y \in T : y \in Nat
  OBVIOUS
<1> QED
  BY <1>2, <1>3

-----------------------------------------------------------------------------
(* Linked lists *)

Width == Cardinality(Waiters)

Follows(at, w, nx) ==
  at = [i \in 1..(Width + 1) |->
          IF i = 1 THEN w ELSE IF at[i - 1] = Nobody THEN Nobody ELSE nx[at[i - 1]]]

Padded(c) == [i \in 1..(Width + 1) |-> IF i <= Len(c) THEN c[i] ELSE Nobody]

(* The waiters have a number, and Nobody is no thread. *)
LEMMA WidthIsNat ==
  Width \in Nat /\ IsFiniteSet(Waiters) /\ Nobody \notin Waiters /\ Nobody \notin Notifiers
  BY ThreadAssumption, FS_CardinalityType DEF Width

(* A list without repetitions is as long as it has members *)
LEMMA ListLength ==
  ASSUME NEW c \in Seq(Waiters), \A i, j \in 1..Len(c) : c[i] = c[j] => i = j
  PROVE  Len(c) \in Nat /\ Members(c) \subseteq Waiters /\ Cardinality(Members(c)) = Len(c)
<1> DEFINE S == 1..Len(c)
           T == {c[i] : i \in S}
           f == [i \in S |-> c[i]]
<1>1. Len(c) \in Nat
  OBVIOUS
<1>2. \A i \in S : c[i] \in Waiters
  OBVIOUS
<1>3. T \subseteq Waiters
  BY <1>2
<1>4. f \in Bijection(S, T)
  <2>1. f \in [S -> T]
    OBVIOUS
  <2>2. \A x, y \in S : f[x] = f[y] => x = y
    OBVIOUS
  <2>3. \A t \in T : \E s \in S : f[s] = t
    OBVIOUS
  <2> QED
    BY <2>1, <2>2, <2>3, Zenon DEF Bijection, Injection, Surjection, IsInjective
<1>5. IsFiniteSet(S) /\ Cardinality(S) = Len(c)
  <2>1. 1 \in Int /\ Len(c) \in Int
    BY <1>1
  <2>2. IsFiniteSet(1..Len(c)) /\ Cardinality(1..Len(c)) = IF 1 > Len(c) THEN 0 ELSE Len(c) - 1 + 1
    BY <2>1, FS_Interval
  <2> QED
    BY <1>1, <2>2
<1>6. Cardinality(T) = Cardinality(S)
  <2> HIDE DEF S, T, f
  <2> QED
    BY <1>4, <1>5, FS_Bijection, Zenon DEF ExistsBijection
<1>7. Members(c) = T
  BY DEF Members
<1> QED
  BY <1>1, <1>3, <1>5, <1>6, <1>7

(* ... and so no longer than there are waiters. *)
LEMMA ChainIsShort ==
  ASSUME NEW c \in Seq(Waiters), \A i, j \in 1..Len(c) : c[i] = c[j] => i = j
  PROVE  Len(c) \in Nat /\ Len(c) <= Width
<1>1. Len(c) \in Nat /\ Members(c) \subseteq Waiters /\ Cardinality(Members(c)) = Len(c)
  BY ListLength
<1>2. Cardinality(Members(c)) <= Cardinality(Waiters)
  BY <1>1, WidthIsNat, FS_Subset
<1> QED
  BY <1>1, <1>2 DEF Width

(* The recursion of Chain has a solution, and it is the list. *)
LEMMA FollowedIs ==
  ASSUME NEW nx \in [Waiters -> Waiters \cup {Nobody}], NEW w, NEW c, IsChain(c, w, nx)
  PROVE  /\ Follows(Padded(c), w, nx)
         /\ \A at : Follows(at, w, nx) => at = Padded(c)
<1> DEFINE p == Padded(c)
           D == 1..(Width + 1)
<1>1. c \in Seq(Waiters) /\ Len(c) \in Nat /\ Len(c) <= Width /\ Width \in Nat
  BY ChainIsShort, WidthIsNat DEF IsChain
<1>2. \A i \in 1..Len(c) : c[i] \in Waiters /\ c[i] # Nobody
  BY <1>1, WidthIsNat
<1>3. \A i \in 1..Len(c) : nx[c[i]] = IF i = Len(c) THEN Nobody ELSE c[i + 1]
  BY DEF IsChain
<1>4. p[1] = w
  <2>1. CASE c = <<>>
    BY <2>1, <1>1 DEF IsChain, Padded
  <2>2. CASE c # <<>>
    <3>1. Len(c) >= 1
      BY <2>2, <1>1
    <3> QED
      BY <2>2, <3>1, <1>1 DEF IsChain, Padded
  <2> QED
    BY <2>1, <2>2
<1>5. \A i \in D \ {1} : p[i] = IF p[i - 1] = Nobody THEN Nobody ELSE nx[p[i - 1]]
  <2> SUFFICES ASSUME NEW i \in D \ {1}
               PROVE  p[i] = IF p[i - 1] = Nobody THEN Nobody ELSE nx[p[i - 1]]
    OBVIOUS
  <2>1. i \in Nat /\ i - 1 \in D /\ (i - 1) + 1 = i /\ i \in D
    BY <1>1
  <2>2. CASE i - 1 > Len(c)
    BY <2>1, <2>2, <1>1 DEF Padded
  <2>3. CASE i - 1 <= Len(c)
    <3>1. i - 1 \in 1..Len(c)
      BY <2>1, <2>3, <1>1
    <3>2. p[i - 1] = c[i - 1] /\ p[i - 1] # Nobody
      BY <3>1, <2>1, <1>2 DEF Padded
    <3>3. nx[c[i - 1]] = IF i - 1 = Len(c) THEN Nobody ELSE c[i]
      BY <3>1, <1>3, <2>1
    <3>4. p[i] = IF i - 1 = Len(c) THEN Nobody ELSE c[i]
      BY <2>1, <2>3, <1>1 DEF Padded
    <3> QED
      BY <3>2, <3>3, <3>4
  <2> QED
    BY <2>1, <2>2, <2>3, <1>1
<1>6. p = [i \in D |-> p[i]] /\ 1 \in D
  BY <1>1 DEF Padded
<1>7. Follows(p, w, nx)
  <2>1. [i \in D |-> p[i]]
          = [i \in D |-> IF i = 1 THEN w ELSE IF p[i - 1] = Nobody THEN Nobody ELSE nx[p[i - 1]]]
    <3> HIDE DEF p, D
    <3> QED
      BY <1>4, <1>5
  <2> HIDE DEF p
  <2> QED
    BY <1>6, <2>1 DEF Follows
<1>8. ASSUME NEW at, Follows(at, w, nx) PROVE at = p
  <2> DEFINE Bad == {i \in D : at[i] # p[i]}
  <2>1. \A i \in D : at[i] = IF i = 1 THEN w ELSE IF at[i - 1] = Nobody THEN Nobody ELSE nx[at[i - 1]]
    BY <1>8 DEF Follows
  <2>2. at = [i \in D |-> at[i]]
    BY <1>8 DEF Follows
  <2>3. Bad = {}
    <3> SUFFICES ASSUME Bad # {} PROVE FALSE
      OBVIOUS
    <3>1. Bad \in SUBSET Nat
      BY <1>1
    <3>2. PICK b \in Bad : \A k \in Bad : b <= k
      <4> HIDE DEF Bad
      <4> QED
        BY <3>1, LeastElement
    <3>3. b \in D /\ at[b] # p[b] /\ b # 1
      <4>1. b \in D /\ at[b] # p[b]
        OBVIOUS
      <4>2. at[1] = w
        BY <2>1, <1>6
      <4> QED
        BY <4>1, <4>2, <1>4
    <3>4. b - 1 \in D /\ b - 1 < b
      BY <3>3, <1>1
    <3>5. at[b - 1] = p[b - 1]
      BY <3>2, <3>4, <1>1
    <3> HIDE DEF p, D, Bad
    <3> QED
      BY <3>3, <3>5, <2>1, <1>5
  <2> HIDE DEF p, D
  <2>4. \A i \in D : at[i] = p[i]
    BY <2>3 DEF D, p
  <2> QED
    BY <2>2, <2>4, <1>6
<1> QED
  BY <1>7, <1>8

Follow(w, nx) ==
  LET at == CHOOSE f : Follows(f, w, nx)
  IN [i \in 1..Cardinality({j \in DOMAIN at : at[j] # Nobody}) |-> at[i]]

(* Following the pointers of a list spells the list. *)
LEMMA FollowIs ==
  ASSUME NEW nx \in [Waiters -> Waiters \cup {Nobody}], NEW w, NEW c, IsChain(c, w, nx)
  PROVE  Follow(w, nx) = c
<1> DEFINE at == CHOOSE f : Follows(f, w, nx)
           J == {j \in DOMAIN at : at[j] # Nobody}
<1>1. Follows(at, w, nx)
  BY FollowedIs
<1>2. at = Padded(c)
  BY <1>1, FollowedIs
<1> HIDE DEF at
<1>3. c \in Seq(Waiters) /\ Len(c) \in Nat /\ Len(c) <= Width /\ Width \in Nat
  BY ChainIsShort, WidthIsNat DEF IsChain
<1>4. \A i \in 1..Len(c) : c[i] \in Waiters /\ c[i] # Nobody
  BY <1>3, WidthIsNat
<1>5. J = 1..Len(c)
  BY <1>2, <1>3, <1>4 DEF Padded
<1>6. Cardinality(1..Len(c)) = Len(c)
  <2>1. 1 \in Int /\ Len(c) \in Int
    BY <1>3
  <2>2. Cardinality(1..Len(c)) = IF 1 > Len(c) THEN 0 ELSE Len(c) - 1 + 1
    BY <2>1, FS_Interval
  <2> QED
    BY <1>3, <2>2
<1>7. Follow(w, nx) = [i \in 1..Cardinality(J) |-> at[i]]
  BY DEF Follow, at
<1>8. Cardinality(J) = Len(c)
  BY <1>5, <1>6
<1>9. \A i \in 1..Len(c) : at[i] = c[i]
  BY <1>2, <1>3 DEF Padded
<1>10. c = [i \in 1..Len(c) |-> c[i]]
  BY <1>3
<1> HIDE DEF J
<1> QED
  BY <1>7, <1>8, <1>9, <1>10

(* The model's Chain follows the pointers too. *)
LEMMA ChainFollows == \A w : Chain(w) = Follow(w, next)
  BY DEF Chain, Follow, Follows, Width

-----------------------------------------------------------------------------
(* What happens to lists *)

(* The empty list *)
LEMMA NoList ==
  ASSUME NEW nx
  PROVE  IsChain(<<>>, Nobody, nx) /\ Members(<<>>) = {}
  BY DEF IsChain, Members

(* Pointers of others do not matter. *)
LEMMA ListKept ==
  ASSUME NEW nx, NEW nx2, NEW w, NEW c, IsChain(c, w, nx),
         \A x \in Members(c) : nx2[x] = nx[x]
  PROVE  IsChain(c, w, nx2)
<1>1. \A i \in 1..Len(c) : nx2[c[i]] = nx[c[i]]
  BY DEF Members
<1> QED
  BY <1>1, Zenon DEF IsChain

(* What is on a list, and when nothing is *)
LEMMA MembersAreWaiters ==
  ASSUME NEW nx, NEW w, NEW c, IsChain(c, w, nx)
  PROVE  /\ Members(c) \subseteq Waiters
         /\ w = Nobody <=> c = <<>>
         /\ w # Nobody => w \in Members(c) /\ w \in Waiters
         /\ c = <<>> <=> Members(c) = {}
<1>1. c \in Seq(Waiters) /\ Len(c) \in Nat
  BY DEF IsChain
<1>2. \A i \in 1..Len(c) : c[i] \in Waiters
  BY <1>1
<1>3. c # <<>> => Len(c) >= 1 /\ c[1] \in Members(c) /\ c[1] \in Waiters
  BY <1>1, <1>2 DEF Members
<1>4. c = <<>> => Members(c) = {}
  BY DEF Members
<1>5. w = IF c = <<>> THEN Nobody ELSE c[1]
  BY DEF IsChain
<1>6. Members(c) \subseteq Waiters
  BY <1>2 DEF Members
<1>7. Nobody \notin Waiters
  BY WidthIsNat
<1> QED
  BY <1>3, <1>4, <1>5, <1>6, <1>7

(* The first is taken off. *)
LEMMA ListTail ==
  ASSUME NEW nx, NEW w, NEW c, IsChain(c, w, nx), w # Nobody
  PROVE  /\ IsChain(Tail(c), nx[w], nx)
         /\ Members(Tail(c)) = Members(c) \ {w}
<1> DEFINE t == Tail(c)
<1>1. c \in Seq(Waiters) /\ c # <<>> /\ c[1] = w
  BY DEF IsChain
<1>2. /\ Len(c) \in Nat \ {0} /\ t \in Seq(Waiters) /\ Len(t) = Len(c) - 1
      /\ \A i \in 1..(Len(c) - 1) : t[i] = c[i + 1]
  BY <1>1
<1> HIDE DEF t
<1>21. t = <<>> <=> Len(t) = 0
  BY <1>2
<1>3. \A i, j \in 1..Len(c) : c[i] = c[j] => i = j
  BY DEF IsChain
<1>4. \A i \in 1..Len(c) : nx[c[i]] = IF i = Len(c) THEN Nobody ELSE c[i + 1]
  BY DEF IsChain
<1>5. \A i, j \in 1..Len(t) : t[i] = t[j] => i = j
  <2> SUFFICES ASSUME NEW i \in 1..Len(t), NEW j \in 1..Len(t), t[i] = t[j]
               PROVE  i = j
    OBVIOUS
  <2>1. c[i + 1] = c[j + 1] /\ i + 1 \in 1..Len(c) /\ j + 1 \in 1..Len(c) /\ i \in Int /\ j \in Int
    BY <1>2
  <2>2. i + 1 = j + 1
    BY <2>1, <1>3
  <2> QED
    BY <2>1, <2>2
<1>6. nx[w] = IF t = <<>> THEN Nobody ELSE t[1]
  <2>1. nx[w] = IF 1 = Len(c) THEN Nobody ELSE c[2]
    <3>1. 1 \in 1..Len(c)
      BY <1>2
    <3>2. nx[c[1]] = IF 1 = Len(c) THEN Nobody ELSE c[1 + 1]
      BY <3>1, <1>4
    <3> QED
      BY <3>2, <1>1
  <2>2. t = <<>> <=> Len(c) = 1
    <3> QED
      BY <1>21, <1>2
  <2>3. Len(c) # 1 => t[1] = c[2]
    BY <1>2
  <2> QED
    BY <2>1, <2>2, <2>3
<1>7. \A i \in 1..Len(t) :
        nx[t[i]] = IF i = Len(t) THEN Nobody ELSE t[i + 1]
  <2> SUFFICES ASSUME NEW i \in 1..Len(t)
               PROVE  nx[t[i]] = IF i = Len(t) THEN Nobody ELSE t[i + 1]
    OBVIOUS
  <2>1. i \in Nat /\ i + 1 \in 1..Len(c) /\ t[i] = c[i + 1]
    BY <1>2
  <2>2. nx[c[i + 1]] = IF i + 1 = Len(c) THEN Nobody ELSE c[(i + 1) + 1]
    BY <2>1, <1>4
  <2>3. i + 1 = Len(c) <=> i = Len(t)
    BY <1>2, <2>1
  <2>4. i # Len(t) => t[i + 1] = c[(i + 1) + 1]
    <3> HAVE i # Len(t)
    <3>1. i + 1 \in 1..(Len(c) - 1)
      BY <1>2
    <3> QED
      BY <3>1, <1>2
  <2> QED
    BY <2>1, <2>2, <2>3, <2>4
<1>8. Members(t) = Members(c) \ {w}
  <2>1. Members(t) = {c[i + 1] : i \in 1..(Len(c) - 1)}
    BY <1>2 DEF Members
  <2>2. \A i \in 1..(Len(c) - 1) : i + 1 \in 1..Len(c) /\ c[i + 1] # w
    <3> TAKE i \in 1..(Len(c) - 1)
    <3>1. i + 1 \in 1..Len(c) /\ 1 \in 1..Len(c) /\ i + 1 # 1
      BY <1>2
    <3> QED
      BY <3>1, <1>1, <1>3
  <2>3. \A j \in 1..Len(c) : c[j] # w => j - 1 \in 1..(Len(c) - 1) /\ (j - 1) + 1 = j
    <3> TAKE j \in 1..Len(c)
    <3> HAVE c[j] # w
    <3>1. j # 1
      BY <1>1
    <3> QED
      BY <3>1, <1>2
  <2> QED
    BY <2>1, <2>2, <2>3 DEF Members
<1> QED
  BY <1>2, <1>5, <1>6, <1>7, <1>8 DEF IsChain, t

(* A new first is put in front. *)
LEMMA ListCons ==
  ASSUME NEW nx, NEW v, NEW c, IsChain(c, v, nx), NEW w \in Waiters, w \notin Members(c), nx[w] = v
  PROVE  /\ IsChain(<<w>> \o c, w, nx)
         /\ Members(<<w>> \o c) = {w} \cup Members(c)
<1> DEFINE d == <<w>> \o c
<1>1. c \in Seq(Waiters) /\ Len(c) \in Nat
  BY DEF IsChain
<1>2. /\ d \in Seq(Waiters) /\ Len(d) = Len(c) + 1 /\ d[1] = w /\ d # <<>>
      /\ \A i \in 1..Len(c) : d[i + 1] = c[i]
  BY <1>1
<1>3. \A j \in 1..Len(d) : j # 1 => j - 1 \in 1..Len(c) /\ d[j] = c[j - 1] /\ j \in Int
  <2> TAKE j \in 1..Len(d)
  <2> HAVE j # 1
  <2>1. j - 1 \in 1..Len(c) /\ (j - 1) + 1 = j /\ j \in Int
    BY <1>1, <1>2
  <2> QED
    BY <2>1, <1>2
<1>4. \A i, j \in 1..Len(c) : c[i] = c[j] => i = j
  BY DEF IsChain
<1>5. \A i \in 1..Len(c) : nx[c[i]] = IF i = Len(c) THEN Nobody ELSE c[i + 1]
  BY DEF IsChain
<1>6. v = IF c = <<>> THEN Nobody ELSE c[1]
  BY DEF IsChain
<1>7. \A i \in 1..Len(c) : c[i] # w /\ c[i] \in Members(c)
  BY DEF Members
<1> HIDE DEF d
<1>8. \A i, j \in 1..Len(d) : d[i] = d[j] => i = j
  <2> SUFFICES ASSUME NEW i \in 1..Len(d), NEW j \in 1..Len(d), d[i] = d[j]
               PROVE  i = j
    OBVIOUS
  <2>1. CASE i = 1
    BY <2>1, <1>2, <1>3, <1>7
  <2>2. CASE j = 1
    BY <2>2, <1>2, <1>3, <1>7
  <2>3. CASE i # 1 /\ j # 1
    <3>1. i - 1 = j - 1 /\ i \in Int /\ j \in Int
      BY <2>3, <1>3, <1>4
    <3> QED
      BY <3>1
  <2> QED
    BY <2>1, <2>2, <2>3
<1>9. \A i \in 1..Len(d) : nx[d[i]] = IF i = Len(d) THEN Nobody ELSE d[i + 1]
  <2> SUFFICES ASSUME NEW i \in 1..Len(d)
               PROVE  nx[d[i]] = IF i = Len(d) THEN Nobody ELSE d[i + 1]
    OBVIOUS
  <2>1. CASE i = 1
    <3>1. nx[d[i]] = v
      BY <2>1, <1>2
    <3>2. CASE c = <<>>
      <4>1. Len(d) = 1
        BY <3>2, <1>2
      <4> QED
        BY <2>1, <3>1, <3>2, <4>1, <1>6
    <3>3. CASE c # <<>>
      <4>1. Len(c) >= 1
        BY <3>3, <1>1
      <4>2. d[1 + 1] = c[1] /\ Len(d) # 1
        BY <4>1, <1>1, <1>2
      <4> QED
        BY <2>1, <3>1, <3>3, <4>2, <1>6
    <3> QED
      BY <3>2, <3>3
  <2>2. CASE i # 1
    <3>1. i - 1 \in 1..Len(c) /\ d[i] = c[i - 1] /\ i \in Int
      BY <2>2, <1>3
    <3>2. nx[c[i - 1]] = IF i - 1 = Len(c) THEN Nobody ELSE c[(i - 1) + 1]
      BY <3>1, <1>5
    <3>3. (i - 1) + 1 = i /\ (i - 1 = Len(c) <=> i = Len(d))
      BY <3>1, <1>1, <1>2
    <3>4. i # Len(d) => d[i + 1] = c[i]
      BY <3>1, <3>3, <1>1, <1>2
    <3> QED
      BY <3>1, <3>2, <3>3, <3>4
  <2> QED
    BY <2>1, <2>2
<1>10. Members(d) = {w} \cup Members(c)
  <2>1. \A j \in 1..Len(d) : d[j] \in {w} \cup Members(c)
    <3> TAKE j \in 1..Len(d)
    <3> QED
      BY <1>2, <1>3, <1>7
  <2>2. \A i \in 1..Len(c) : i + 1 \in 1..Len(d) /\ d[i + 1] = c[i]
    BY <1>1, <1>2
  <2>3. 1 \in 1..Len(d)
    BY <1>1, <1>2
  <2>4. Members(d) = {d[j] : j \in 1..Len(d)} /\ Members(c) = {c[j] : j \in 1..Len(c)}
    BY DEF Members
  <2> QED
    BY <2>1, <2>2, <2>3, <2>4, <1>2
<1>11. IsChain(d, w, nx)
  BY <1>2, <1>8, <1>9 DEF IsChain
<1> QED
  BY <1>10, <1>11 DEF d

(* A list of one *)
LEMMA OneList ==
  ASSUME NEW nx, NEW w \in Waiters, nx[w] = Nobody
  PROVE  /\ IsChain(<<w>>, w, nx)
         /\ Members(<<w>>) = {w}
<1>1. PICK e : e = <<>>
  OBVIOUS
<1>2. IsChain(e, Nobody, nx) /\ Members(e) = {}
  BY <1>1, NoList
<1>3. w \notin Members(e)
  BY <1>2
<1>4. <<w>> \o e = <<w>>
  BY <1>1
<1>5. IsChain(<<w>> \o e, w, nx) /\ Members(<<w>> \o e) = {w} \cup Members(e)
  BY <1>2, <1>3, ListCons
<1> QED
  BY <1>2, <1>4, <1>5

-----------------------------------------------------------------------------
(* Epochs and tickets *)

(* The remainder is the one number below n that division leaves. *)
LEMMA Residue ==
  ASSUME NEW n \in Nat \ {0}, NEW q \in Int, NEW r \in 0..(n - 1)
  PROVE  (n * q + r) % n = r
  OBVIOUS

(* The numbers that EpochAssumption grants *)
LEMMA EpochsAre ==
  /\ EpochMod \in Nat \ {0} /\ MaxWaits \in Nat
  /\ MaxWaits < EpochMod \div 2 /\ EpochMod \div 2 \in Nat
  /\ 2 * MaxWaits + 1 < EpochMod
  /\ \A x \in 0..(EpochMod - 1) : x >= EpochMod - MaxWaits => x >= EpochMod \div 2
<1>1. EpochMod \in Nat /\ MaxWaits \in Nat /\ MaxWaits < EpochMod \div 2
  BY EpochAssumption, BoundAssumption
<1>2. \A e \in Nat : /\ e \div 2 \in Nat
                     /\ 2 * (e \div 2) <= e /\ e <= 2 * (e \div 2) + 1
  OBVIOUS
<1> QED
  BY <1>1, <1>2

(* Wrapping around once, either way *)
LEMMA Wraps ==
  ASSUME NEW x \in Int
  PROVE  /\ x \in 0..(EpochMod - 1) => x % EpochMod = x
         /\ x \in EpochMod..(2 * EpochMod - 1) => x % EpochMod = x - EpochMod
         /\ x \in (-EpochMod)..(-1) => x % EpochMod = x + EpochMod
<1>1. EpochMod \in Nat \ {0}
  BY EpochsAre
<1>2. ASSUME x \in 0..(EpochMod - 1) PROVE x % EpochMod = x
  <2>1. (EpochMod * 0 + x) % EpochMod = x
    BY <1>1, <1>2, Residue
  <2>2. EpochMod * 0 + x = x
    BY <1>1
  <2> QED
    BY <2>1, <2>2
<1>3. ASSUME x \in EpochMod..(2 * EpochMod - 1) PROVE x % EpochMod = x - EpochMod
  <2>1. x - EpochMod \in 0..(EpochMod - 1)
    BY <1>1, <1>3
  <2>2. (EpochMod * 1 + (x - EpochMod)) % EpochMod = x - EpochMod
    BY <1>1, <2>1, Residue
  <2>3. EpochMod * 1 + (x - EpochMod) = x
    BY <1>1
  <2> QED
    BY <2>2, <2>3
<1>4. ASSUME x \in (-EpochMod)..(-1) PROVE x % EpochMod = x + EpochMod
  <2>1. x + EpochMod \in 0..(EpochMod - 1)
    BY <1>1, <1>4
  <2>2. (EpochMod * (-1) + (x + EpochMod)) % EpochMod = x + EpochMod
    BY <1>1, <2>1, Residue
  <2>3. EpochMod * (-1) + (x + EpochMod) = x
    BY <1>1
  <2> QED
    BY <2>2, <2>3
<1> QED
  BY <1>2, <1>3, <1>4

(* How many epochs e is after the one before the first *)
Nth(e) == (e + 1) % EpochMod

(* Which ticket an epoch stands for *)
LEMMA NthIs ==
  ASSUME NEW e \in 0..(EpochMod - 1)
  PROVE  Nth(e) = (IF e = EpochMod - 1 THEN 0 ELSE e + 1) /\ Nth(e) \in 0..(EpochMod - 1)
<1>1. EpochMod \in Nat \ {0} /\ e + 1 \in Int
  BY EpochsAre
<1>2. CASE e = EpochMod - 1
  <2>1. e + 1 \in EpochMod..(2 * EpochMod - 1) /\ e + 1 - EpochMod = 0
    BY <1>1, <1>2
  <2>2. (e + 1) % EpochMod = e + 1 - EpochMod
    BY <1>1, <2>1, Wraps
  <2> QED
    BY <1>1, <1>2, <2>1, <2>2 DEF Nth
<1>3. CASE e # EpochMod - 1
  <2>1. e + 1 \in 0..(EpochMod - 1)
    BY <1>1, <1>3
  <2>2. (e + 1) % EpochMod = e + 1
    BY <1>1, <2>1, Wraps
  <2> QED
    BY <1>1, <1>3, <2>1, <2>2 DEF Nth
<1> QED
  BY <1>2, <1>3

(* The signed comparison of two epochs compares their tickets. *)
LEMMA Compare ==
  ASSUME NEW e \in 0..(EpochMod - 1), NEW f \in 0..(EpochMod - 1),
         Nth(e) <= MaxWaits, Nth(f) <= MaxWaits
  PROVE  /\ e = f <=> Nth(e) = Nth(f)
         /\ (e - f) % EpochMod >= EpochMod \div 2 <=> Nth(e) < Nth(f)
<1>1. /\ EpochMod \in Nat \ {0} /\ MaxWaits \in Nat /\ EpochMod \div 2 \in Nat
      /\ MaxWaits < EpochMod \div 2 /\ 2 * MaxWaits + 1 < EpochMod
      /\ \A x \in 0..(EpochMod - 1) : x >= EpochMod - MaxWaits => x >= EpochMod \div 2
  BY EpochsAre
<1>2. /\ Nth(e) = IF e = EpochMod - 1 THEN 0 ELSE e + 1
      /\ Nth(f) = IF f = EpochMod - 1 THEN 0 ELSE f + 1
  BY NthIs
<1> DEFINE d == e - f
<1>3. d \in Int /\ e \in Int /\ f \in Int
  OBVIOUS
<1>4. e = f <=> Nth(e) = Nth(f)
  BY <1>1, <1>2
<1>5. CASE Nth(e) < Nth(f)
  <2>1. d \in (-EpochMod)..(-1) \/ d \in 0..(EpochMod - 1)
    BY <1>1
  <2>2. d \in (-EpochMod)..(-1) => d + EpochMod \in 0..(EpochMod - 1) /\ d + EpochMod >= EpochMod - MaxWaits
    BY <1>1, <1>2, <1>5
  <2>3. d \in 0..(EpochMod - 1) => d >= EpochMod - MaxWaits
    BY <1>1, <1>2, <1>5
  <2>4. d % EpochMod \in 0..(EpochMod - 1) /\ d % EpochMod >= EpochMod - MaxWaits
    <3> HIDE DEF d
    <3> QED
      BY <1>3, <2>1, <2>2, <2>3, Wraps
  <2>5. d % EpochMod >= EpochMod \div 2
    <3> HIDE DEF d
    <3> QED
      BY <1>1, <2>4
  <2> QED
    BY <1>4, <1>5, <2>5
<1>6. CASE Nth(e) >= Nth(f)
  <2>1. d \in (-EpochMod)..(-1) \/ d \in 0..(EpochMod - 1)
    BY <1>1
  <2>2. d \in (-EpochMod)..(-1) => d + EpochMod \in 0..MaxWaits
    BY <1>1, <1>2, <1>6
  <2>3. d \in 0..(EpochMod - 1) => d <= MaxWaits
    BY <1>1, <1>2, <1>6
  <2>4. d % EpochMod \in 0..MaxWaits
    <3> HIDE DEF d
    <3> QED
      BY <1>1, <1>3, <2>1, <2>2, <2>3, Wraps
  <2>5. ~(d % EpochMod >= EpochMod \div 2)
    <3> HIDE DEF d
    <3> QED
      BY <1>1, <2>4
  <2>6. ~(Nth(e) < Nth(f))
    BY <1>1, <1>2, <1>6
  <2> QED
    BY <1>4, <2>5, <2>6
<1>7. Nth(e) \in Int /\ Nth(f) \in Int
  BY <1>1, <1>2
<1> QED
  BY <1>5, <1>6, <1>7

(* k epochs on are k tickets on. *)
LEMMA Advance ==
  ASSUME NEW e \in 0..(EpochMod - 1), NEW k \in Nat, Nth(e) + k <= MaxWaits
  PROVE  /\ (e + k) % EpochMod \in 0..(EpochMod - 1)
         /\ Nth((e + k) % EpochMod) = Nth(e) + k
<1>1. EpochMod \in Nat \ {0} /\ MaxWaits \in Nat /\ 2 * MaxWaits + 1 < EpochMod
  BY EpochsAre
<1>2. Nth(e) = (IF e = EpochMod - 1 THEN 0 ELSE e + 1)
  BY NthIs
<1> DEFINE f == (e + k) % EpochMod
<1>3. e + k \in Int /\ k <= MaxWaits
  BY <1>1, <1>2
<1>4. CASE e + k < EpochMod
  <2>1. f = e + k /\ f \in 0..(EpochMod - 1)
    BY <1>1, <1>3, <1>4, Wraps
  <2>2. Nth(f) = (IF f = EpochMod - 1 THEN 0 ELSE f + 1)
    BY <2>1, NthIs
  <2> HIDE DEF f
  <2>3. Nth(f) = Nth(e) + k
    BY <1>1, <1>2, <1>4, <2>1, <2>2
  <2> QED
    BY <2>1, <2>3 DEF f
<1>5. CASE e + k >= EpochMod
  <2>0. e + k \in EpochMod..(2 * EpochMod - 1)
    BY <1>1, <1>3, <1>5
  <2>1. f = e + k - EpochMod /\ f \in 0..(EpochMod - 1)
    BY <1>1, <1>3, <2>0, Wraps
  <2>2. Nth(f) = (IF f = EpochMod - 1 THEN 0 ELSE f + 1)
    BY <2>1, NthIs
  <2> HIDE DEF f
  <2>3. Nth(f) = Nth(e) + k
    BY <1>1, <1>2, <1>3, <1>5, <2>1, <2>2
  <2> QED
    BY <2>1, <2>3 DEF f
<1> QED
  BY <1>1, <1>3, <1>4, <1>5

(* Count reads the epoch of a word as a ticket, *)
LEMMA CountIsNth == \A s : Count(s) = Nth(s.epoch)
  BY DEF Count, Nth

(* and Ticket that of a waiter's turn. *)
LEMMA TicketIsNth == \A w : Ticket(w) = Nth(turn[w])
  BY DEF Ticket, Nth

-----------------------------------------------------------------------------
(* The steps *)

(* The actions *)
LEMMA Cases ==
  ASSUME [Next]_vars
  PROVE  \/ UNCHANGED vars
         \/ \E w \in Waiters :
              \/ Prewait(w) \/ CommitWait(w) \/ CancelWait(w) \/ CommitLoad(w) \/ CommitNext(w)
              \/ CommitCas(w) \/ Park(w) \/ CancelLoad(w) \/ CancelCas(w) \/ SpuriousWakeup(w)
         \/ \E n \in Notifiers :
              \/ \E all \in BOOLEAN : NotifyLoad(n, all)
              \/ NotifyNext(n) \/ NotifyCas(n) \/ NotifyClear(n)
              \/ UnparkNext(n) \/ UnparkSignal(n) \/ UnparkCv(n)
  BY DEF Next, Decide, WaiterStep, NotifierStep, StartNotify

(* What it means that it is a waiter's turn *)
LEMMA Turns ==
  ASSUME WellTyped, TicketsOK
  PROVE  /\ Count(state) \in 0..MaxWaits /\ waits \in 0..MaxWaits
         /\ \A w \in Waiters : pc[w] \in Deciding =>
              /\ Ticket(w) \in 0..MaxWaits
              /\ OnTurn(state, w) <=> Count(state) = Ticket(w)
              /\ Ahead(state, w) <=> Count(state) > Ticket(w)
              /\ OnTurn(state, w) => state.waiters > 0
<1>1. /\ EpochMod \in Nat \ {0} /\ MaxWaits \in Nat /\ waits \in 0..MaxWaits
      /\ state.epoch \in 0..(EpochMod - 1) /\ state.waiters \in Nat
  BY EpochsAre DEF WellTyped, Words
<1>2. Count(state) = Nth(state.epoch) /\ Nth(state.epoch) \in 0..(EpochMod - 1)
  BY <1>1, CountIsNth, NthIs
<1>3. Count(state) \in 0..MaxWaits
  BY <1>1, <1>2 DEF TicketsOK
<1>4. ASSUME NEW w \in Waiters, pc[w] \in Deciding
      PROVE  /\ Ticket(w) \in 0..MaxWaits
             /\ OnTurn(state, w) <=> Count(state) = Ticket(w)
             /\ Ahead(state, w) <=> Count(state) > Ticket(w)
             /\ OnTurn(state, w) => state.waiters > 0
  <2>1. turn[w] \in 0..(EpochMod - 1) /\ Ticket(w) < waits
    BY <1>4 DEF WellTyped, TicketsOK
  <2>2. Ticket(w) = Nth(turn[w]) /\ Nth(turn[w]) \in 0..(EpochMod - 1)
    BY <2>1, TicketIsNth, NthIs
  <2>3. Ticket(w) \in 0..MaxWaits
    BY <1>1, <2>1, <2>2
  <2>4. /\ state.epoch = turn[w] <=> Count(state) = Ticket(w)
        /\ (state.epoch - turn[w]) % EpochMod >= EpochMod \div 2 <=> Count(state) < Ticket(w)
    BY <1>1, <1>2, <1>3, <2>1, <2>2, <2>3, Compare
  <2>5. OnTurn(state, w) <=> Count(state) = Ticket(w)
    BY <2>4 DEF OnTurn
  <2>6. Behind(state, w) <=> Count(state) < Ticket(w)
    BY <2>4 DEF Behind
  <2>7. Ahead(state, w) <=> Count(state) > Ticket(w)
    BY <2>5, <2>6, <1>3, <2>3 DEF Ahead
  <2>8. Count(state) = Ticket(w) => state.waiters > 0
    BY <1>1, <1>3, <2>1, <2>3 DEF TicketsOK
  <2> QED
    BY <2>3, <2>5, <2>7, <2>8
<1> QED
  BY <1>1, <1>3, <1>4

(* How the word changes *)
LEMMA WordDecided ==
  ASSUME NEW s \in Words, Count(s) + s.waiters <= MaxWaits, s.waiters > 0
  PROVE  /\ Decided(s) \in Words /\ Decided(s).waiters = s.waiters - 1 /\ Decided(s).top = s.top
         /\ Count(Decided(s)) = Count(s) + 1
<1>1. /\ s.epoch \in 0..(EpochMod - 1) /\ s.waiters \in Nat /\ s.top \in Waiters \cup {Nobody}
      /\ EpochMod \in Nat \ {0} /\ MaxWaits \in Nat
  BY EpochsAre DEF Words
<1>2. Count(s) = Nth(s.epoch) /\ Nth(s.epoch) \in Nat
  BY <1>1, CountIsNth, NthIs
<1>3. Nth(s.epoch) + 1 <= MaxWaits
  BY <1>1, <1>2
<1>4. /\ (s.epoch + 1) % EpochMod \in 0..(EpochMod - 1)
      /\ Nth((s.epoch + 1) % EpochMod) = Nth(s.epoch) + 1
  BY <1>1, <1>3, Advance
<1>6. s.waiters - 1 \in Nat
  BY <1>1
<1>5. /\ Decided(s).epoch = (s.epoch + 1) % EpochMod
      /\ Decided(s).waiters = s.waiters - 1 /\ Decided(s).top = s.top
  BY DEF Decided, Words
<1>7. Decided(s) \in Words
  <2> DEFINE e == (s.epoch + 1) % EpochMod
  <2>1. e \in 0..(EpochMod - 1)
    BY <1>4
  <2>2. Decided(s) = [s EXCEPT !.waiters = @ - 1, !.epoch = e]
    BY DEF Decided, Words
  <2> HIDE DEF e
  <2> QED
    BY <1>6, <2>1, <2>2 DEF Words
<1>8. Count(Decided(s)) = Nth((s.epoch + 1) % EpochMod)
  BY <1>5, CountIsNth
<1> QED
  BY <1>2, <1>4, <1>5, <1>7, <1>8

NotifiedAs(t, s, all, below) ==
  /\ t \in Words
  /\ t.waiters \in Nat /\ t.waiters <= s.waiters
  /\ Count(t) \in Nat /\ Count(s) \in Nat
  /\ Count(t) + t.waiters = Count(s) + s.waiters
  /\ Count(t) >= Count(s)
  /\ t.top = IF all THEN Nobody ELSE IF s.waiters > 0 THEN s.top ELSE below
  /\ ~all /\ s.waiters > 0 => Count(t) = Count(s) + 1
  /\ s.waiters = 0 => Count(t) = Count(s)

(* What NotifyCas writes: one waiter less or none, or a shorter stack *)
LEMMA WordNotified ==
  ASSUME NEW s \in Words, Count(s) + s.waiters <= MaxWaits,
         NEW all \in BOOLEAN, NEW below \in Waiters \cup {Nobody}
  PROVE  NotifiedAs(Notified(s, all, below), s, all, below)
<1>1. /\ s.epoch \in 0..(EpochMod - 1) /\ s.waiters \in Nat /\ s.top \in Waiters \cup {Nobody}
      /\ EpochMod \in Nat \ {0} /\ MaxWaits \in Nat
  BY EpochsAre DEF Words
<1>2. Count(s) = Nth(s.epoch) /\ Nth(s.epoch) \in Nat
  BY <1>1, CountIsNth, NthIs
<1> DEFINE t == Notified(s, all, below)
<1>3. CASE all
  <2>1. t = [epoch |-> (s.epoch + s.waiters) % EpochMod, waiters |-> 0, top |-> Nobody]
    BY <1>3 DEF Notified
  <2>2. /\ (s.epoch + s.waiters) % EpochMod \in 0..(EpochMod - 1)
        /\ Nth((s.epoch + s.waiters) % EpochMod) = Nth(s.epoch) + s.waiters
    BY <1>1, <1>2, Advance
  <2>3. Count(t) = Nth((s.epoch + s.waiters) % EpochMod)
    BY <2>1, CountIsNth
  <2>4. t \in Words /\ t.waiters = 0 /\ t.top = Nobody
    BY <2>1, <2>2 DEF Words
  <2> HIDE DEF t
  <2>9. NotifiedAs(t, s, all, below)
    BY <1>1, <1>2, <1>3, <2>2, <2>3, <2>4 DEF NotifiedAs
  <2> QED
    BY <2>9 DEF t
<1>4. CASE ~all /\ s.waiters > 0
  <2>1. t = Decided(s)
    BY <1>4 DEF Notified
  <2>2. /\ t \in Words /\ t.waiters = s.waiters - 1 /\ t.top = s.top
        /\ Count(t) = Count(s) + 1
    BY <1>4, <2>1, WordDecided
  <2> HIDE DEF t
  <2>9. NotifiedAs(t, s, all, below)
    BY <1>1, <1>2, <1>4, <2>2 DEF NotifiedAs
  <2> QED
    BY <2>9 DEF t
<1>5. CASE ~all /\ s.waiters = 0
  <2>1. t = [s EXCEPT !.top = below]
    BY <1>5 DEF Notified
  <2>2. t \in Words /\ t.epoch = s.epoch /\ t.waiters = 0 /\ t.top = below
    BY <2>1, <1>5, <1>1 DEF Words
  <2>3. Count(t) = Count(s)
    BY <2>2, CountIsNth
  <2> HIDE DEF t
  <2>9. NotifiedAs(t, s, all, below)
    BY <1>1, <1>2, <1>5, <2>2, <2>3 DEF NotifiedAs
  <2> QED
    BY <2>9 DEF t
<1> QED
  BY <1>1, <1>3, <1>4, <1>5

-----------------------------------------------------------------------------
(* Types *)

(* A move of one thread to a label of its kind *)
LEMMA Moves ==
  ASSUME WellTyped, NEW t \in Threads, NEW label, Go(t, label),
         \/ t \in Waiters /\ label \in WaiterLabels
         \/ t \in Notifiers /\ label \in NotifierLabels
  PROVE  /\ pc' \in [Threads -> Labels]
         /\ \A w \in Waiters : pc'[w] \in WaiterLabels
         /\ \A n \in Notifiers : pc'[n] \in NotifierLabels
         /\ pc'[t] = label
         /\ \A u \in Threads \ {t} : pc'[u] = pc[u]
<1>1. Waiters \cap Notifiers = {} /\ Threads = Waiters \cup Notifiers
  BY ThreadAssumption DEF Threads
<1>2. pc \in [Threads -> Labels] /\ pc' = [pc EXCEPT ![t] = label]
  BY DEF WellTyped, Go
<1>3. label \in Labels
  BY DEF WaiterLabels, NotifierLabels, Labels
<1>4. /\ \A w \in Waiters : pc[w] \in WaiterLabels
      /\ \A n \in Notifiers : pc[n] \in NotifierLabels
  BY DEF WellTyped
<1>5. \A u \in Threads : pc'[u] = IF u = t THEN label ELSE pc[u]
  BY <1>2
<1>6. pc' \in [Threads -> Labels]
  BY <1>2, <1>3
<1> QED
  BY <1>1, <1>4, <1>5, <1>6

(* The types at the start, *)
LEMMA TypeInit == Init => WellTyped
<1> SUFFICES ASSUME Init PROVE WellTyped
  OBVIOUS
<1>1. EpochMod \in Nat \ {0} /\ 0 \in 0..MaxWaits /\ 0 \in 0..(EpochMod - 1) /\ EpochMod - 1 \in 0..(EpochMod - 1)
  BY EpochsAre
<1>2. InitState \in Words
  BY <1>1 DEF InitState, Words
<1>3. NothingToDo \in Todos
  BY DEF NothingToDo, Todos
<1> QED
  BY <1>1, <1>2, <1>3
  DEF Init, WellTyped, Threads, Labels, WaiterLabels, NotifierLabels

(* The parts of WellTyped that an action leaves alone or sets *)
MovesOne(t) ==
  /\ pc' \in [Threads -> Labels]
  /\ \A w \in Waiters : pc'[w] \in WaiterLabels
  /\ \A n \in Notifiers : pc'[n] \in NotifierLabels
  /\ \A u \in Threads \ {t} : pc'[u] = pc[u]

(* and after each step *)
LEMMA TypeNext ==
  ASSUME WellTyped, TicketsOK, ChainsOK, SeenOK, [Next]_vars
  PROVE  WellTyped'
<1> USE DEF MovesOne
<1>1. /\ state \in Words /\ InitState \in Words /\ NothingToDo \in Todos
      /\ Count(state) + state.waiters <= MaxWaits
      /\ Waiters \subseteq Threads /\ Notifiers \subseteq Threads
      /\ Waiters \cap Notifiers = {}
  <2>1. EpochMod \in Nat \ {0} /\ EpochMod - 1 \in 0..(EpochMod - 1) /\ MaxWaits \in Nat
    BY EpochsAre
  <2>2. Count(state) + state.waiters <= MaxWaits
    BY <2>1 DEF TicketsOK, WellTyped
  <2> QED
    BY <2>1, <2>2, ThreadAssumption DEF WellTyped, InitState, Words, NothingToDo, Todos, Threads
<1>2. CASE UNCHANGED vars
  BY <1>2 DEF vars, WellTyped
<1>3. ASSUME NEW w \in Waiters,
             \/ Prewait(w) \/ CommitWait(w) \/ CancelWait(w) \/ CommitLoad(w) \/ CommitNext(w)
             \/ CommitCas(w) \/ Park(w) \/ CancelLoad(w) \/ CancelCas(w) \/ SpuriousWakeup(w)
      PROVE  WellTyped'
  <2>1. ASSUME NEW label \in WaiterLabels, Go(w, label) PROVE MovesOne(w)
    BY <2>1, <1>1, Moves
  <2>2. WaiterLabels = {"idle", "announced", "commit.load", "commit.next", "commit.cas",
                        "park.lock", "park.wait", "cancel.load", "cancel.cas"}
    BY DEF WaiterLabels
  <2>3. MovesOne(w)
    <3>1. \E label \in WaiterLabels : Go(w, label)
      BY <1>3, <2>2
      DEF Prewait, CommitWait, CancelWait, CommitLoad, CommitNext, CommitCas, Park, CancelLoad,
          CancelCas, SpuriousWakeup
    <3> QED
      BY <2>1, <3>1
  <2>4. CASE Prewait(w)
    <3>1. TurnFrom(state) \in 0..(EpochMod - 1)
      <4>1. state.epoch + state.waiters \in Int /\ EpochMod \in Nat \ {0}
        BY <1>1, EpochsAre DEF Words
      <4>2. \A x \in Int : x % EpochMod \in 0..(EpochMod - 1)
        BY <4>1
      <4> QED
        BY <4>1, <4>2 DEF TurnFrom
    <3>2. state' \in Words
      BY <2>4, <1>1 DEF Prewait, Words
    <3>3. waits + 1 \in 0..MaxWaits
      BY <2>4, EpochsAre DEF Prewait, WellTyped
    <3> QED
      BY <2>3, <2>4, <3>1, <3>2, <3>3 DEF Prewait, WellTyped
  <2>5. CASE CommitWait(w)
    BY <2>3, <2>5 DEF CommitWait, WellTyped
  <2>6. CASE CancelWait(w)
    BY <2>3, <2>6 DEF CancelWait, WellTyped
  <2>7. CASE CommitLoad(w)
    BY <2>3, <2>7, <1>1 DEF CommitLoad, WellTyped
  <2>8. CASE CommitNext(w)
    <3>1. seen[w].top \in Waiters \cup {Nobody}
      BY <1>1 DEF WellTyped, Words
    <3> QED
      BY <2>3, <2>8, <3>1 DEF CommitNext, WellTyped
  <2>9. CASE CommitCas(w)
    <3>1. state' \in Words
      <4>1. CASE state = seen[w]
        <5>1. pc[w] = "commit.cas" /\ Count(seen[w]) = Ticket(w)
          BY <2>9 DEF CommitCas, SeenOK, Loaded
        <5>2. state.waiters > 0
          BY <4>1, <5>1, Turns DEF Deciding
        <5>3. Decided(state) \in Words
          BY <5>2, <1>1, WordDecided
        <5>4. state' = [Decided(state) EXCEPT !.top = w]
          BY <2>9, <4>1 DEF CommitCas
        <5> QED
          BY <5>3, <5>4 DEF Words
      <4>2. CASE state # seen[w]
        BY <2>9, <4>2, <1>1 DEF CommitCas
      <4> QED
        BY <4>1, <4>2
    <3> QED
      BY <2>3, <2>9, <1>1, <3>1 DEF CommitCas, WellTyped
  <2>10. CASE Park(w)
    BY <2>3, <2>10 DEF Park, WellTyped
  <2>11. CASE CancelLoad(w)
    BY <2>3, <2>11, <1>1 DEF CancelLoad, WellTyped
  <2>12. CASE CancelCas(w)
    <3>1. state' \in Words
      <4>1. CASE state = seen[w]
        <5>1. pc[w] = "cancel.cas" /\ Count(seen[w]) = Ticket(w)
          BY <2>12 DEF CancelCas, SeenOK, Loaded
        <5>2. state.waiters > 0
          BY <4>1, <5>1, Turns DEF Deciding
        <5> QED
          BY <2>12, <4>1, <5>2, <1>1, WordDecided DEF CancelCas
      <4>2. CASE state # seen[w]
        BY <2>12, <4>2, <1>1 DEF CancelCas
      <4> QED
        BY <4>1, <4>2
    <3> QED
      BY <2>3, <2>12, <1>1, <3>1 DEF CancelCas, WellTyped
  <2>13. CASE SpuriousWakeup(w)
    BY <2>3, <2>13 DEF SpuriousWakeup, WellTyped
  <2> QED
    BY <1>3, <2>4, <2>5, <2>6, <2>7, <2>8, <2>9, <2>10, <2>11, <2>12, <2>13
<1>4. ASSUME NEW n \in Notifiers,
             \/ \E all \in BOOLEAN : NotifyLoad(n, all)
             \/ NotifyNext(n) \/ NotifyCas(n) \/ NotifyClear(n) \/ UnparkNext(n) \/ UnparkSignal(n)
      PROVE  WellTyped'
  <2>1. ASSUME NEW label \in NotifierLabels, Go(n, label) PROVE MovesOne(n)
    BY <2>1, <1>1, Moves
  <2>2. NotifierLabels = {"idle", "notify.load", "notify.next", "notify.cas", "notify.clear",
                          "unpark.next", "unpark.signal", "unpark.cv"}
    BY DEF NotifierLabels
  <2>3. MovesOne(n)
    <3>1. \E label \in NotifierLabels : Go(n, label)
      BY <1>4, <2>2
      DEF NotifyLoad, NotifyNext, NotifyCas, NotifyClear, UnparkNext, UnparkSignal
    <3> QED
      BY <2>1, <3>1
  <2>t. /\ todo[n] \in Todos /\ seen[n] \in Words /\ seen[n].top \in Waiters \cup {Nobody}
        /\ todo[n].wake \in Waiters \cup {Nobody} /\ todo[n].then \in Waiters \cup {Nobody}
        /\ todo[n].below \in Waiters \cup {Nobody} /\ todo[n].all \in BOOLEAN
        /\ next \in [Waiters -> Waiters \cup {Nobody}]
    BY <1>1 DEF WellTyped, Todos, Words
  <2>4. ASSUME NEW all \in BOOLEAN, NotifyLoad(n, all) PROVE WellTyped'
    <3>1. todo' \in [Notifiers -> Todos]
      BY <2>4, <2>t, <1>1 DEF NotifyLoad, WellTyped, Todos
    <3>2. seen' \in [Threads -> Words]
      BY <2>4, <1>1 DEF NotifyLoad, WellTyped
    <3> QED
      BY <2>3, <2>4, <3>1, <3>2 DEF NotifyLoad, WellTyped
  <2>5. CASE NotifyNext(n)
    <3>1. seen[n].top \in Waiters
      BY <2>5, <2>t DEF NotifyNext, SeenOK, Empty
    <3>2. todo' \in [Notifiers -> Todos]
      BY <2>5, <2>t, <3>1 DEF NotifyNext, WellTyped, Todos
    <3> QED
      BY <2>3, <2>5, <3>2 DEF NotifyNext, WellTyped
  <2>6. CASE NotifyCas(n)
    <3>1. state' \in Words
      <4>1. CASE state = seen[n]
        <5>1. NotifiedAs(Notified(state, todo[n].all, todo[n].below), state, todo[n].all, todo[n].below)
          BY <1>1, <2>t, WordNotified
        <5> QED
          BY <2>6, <4>1, <5>1 DEF NotifyCas, SameWord, NotifiedAs
      <4>2. CASE state # seen[n]
        BY <2>6, <4>2, <1>1 DEF NotifyCas, SameWord
      <4> QED
        BY <4>1, <4>2
    <3>2. todo' \in [Notifiers -> Todos]
      BY <2>6, <2>t, <1>1 DEF NotifyCas, WellTyped, Todos
    <3>3. seen' \in [Threads -> Words]
      BY <2>6, <1>1 DEF NotifyCas, WellTyped
    <3> QED
      BY <2>3, <2>6, <3>1, <3>2, <3>3 DEF NotifyCas, WellTyped
  <2>7. CASE NotifyClear(n)
    BY <2>3, <2>7, <2>t DEF NotifyClear, WellTyped
  <2>8. CASE UnparkNext(n)
    <3>1. todo[n].wake # Nobody => next[todo[n].wake] \in Waiters \cup {Nobody}
      BY <2>t
    <3>2. todo' \in [Notifiers -> Todos]
      BY <2>8, <2>t, <1>1, <3>1 DEF UnparkNext, WellTyped, Todos
    <3> QED
      BY <2>3, <2>8, <3>2 DEF UnparkNext, WellTyped
  <2>9. CASE UnparkSignal(n)
    <3>1. todo' \in [Notifiers -> Todos]
      BY <2>9, <2>t, <1>1 DEF UnparkSignal, UnparkStep, WellTyped, Todos
    <3> QED
      BY <2>3, <2>9, <3>1 DEF UnparkSignal, WellTyped
  <2> QED
    BY <1>4, <2>4, <2>5, <2>6, <2>7, <2>8, <2>9
<1>5. ASSUME NEW n \in Notifiers, UnparkCv(n) PROVE WellTyped'
  <2>1. /\ todo[n] \in Todos /\ todo[n].then \in Waiters \cup {Nobody} /\ todo[n].wake \in Waiters
    BY <1>5 DEF WellTyped, Todos, UnparkCv, ChainsOK
  <2>2. todo' \in [Notifiers -> Todos]
    BY <1>5, <2>1, <1>1, WidthIsNat DEF UnparkCv, UnparkStep, WellTyped, Todos
  <2>3. /\ pc' \in [Threads -> Labels]
        /\ \A w \in Waiters : pc'[w] \in WaiterLabels
        /\ \A m \in Notifiers : pc'[m] \in NotifierLabels
    BY <1>1, <1>5, <2>1 DEF UnparkCv, WellTyped, Labels, WaiterLabels, NotifierLabels
  <2> QED
    BY <1>5, <2>2, <2>3 DEF UnparkCv, WellTyped
<1> QED
  BY <1>2, <1>3, <1>4, <1>5, Cases

-----------------------------------------------------------------------------
(* Tickets *)

(* The tickets at the start *)
LEMMA TicketInit == Init => TicketsOK
<1> SUFFICES ASSUME Init PROVE TicketsOK
  OBVIOUS
<1>1. EpochMod \in Nat \ {0} /\ 2 * MaxWaits + 1 < EpochMod /\ MaxWaits \in Nat
  BY EpochsAre
<1>2. Count(state) = 0
  <2>1. EpochMod - 1 \in 0..(EpochMod - 1) /\ state.epoch = EpochMod - 1
    BY <1>1 DEF Init, InitState
  <2>2. Nth(EpochMod - 1) = 0
    BY <2>1, NthIs
  <2> QED
    BY <2>1, <2>2, CountIsNth
<1>3. state.waiters = 0 /\ waits = 0
  BY DEF Init, InitState
<1>4. \A w \in Waiters : pc[w] \notin Deciding
  BY DEF Init, Deciding
<1>5. Count(state)..(waits - 1) = {}
  BY <1>2, <1>3
<1> QED
  BY <1>2, <1>3, <1>4, <1>5 DEF TicketsOK

(* A step that takes no new ticket: those that are passed over may go *)
Serves ==
  /\ waits' = waits /\ turn' = turn
  /\ Count(state') + state'.waiters = waits
  /\ Count(state') >= Count(state)
  /\ \A w \in Waiters : pc'[w] \in Deciding => pc[w] \in Deciding
  /\ \A w \in Waiters : pc[w] \in Deciding /\ Ticket(w) >= Count(state') => pc'[w] \in Deciding

(* A step that hands out no ticket keeps the rest consecutive. *)
LEMMA TicketsServed ==
  ASSUME WellTyped, WellTyped', TicketsOK, Serves
  PROVE  TicketsOK'
<1>1. \A w \in Waiters : Ticket(w)' = Ticket(w)
  BY DEF Ticket, Serves
<1>2. Count(state)' = Count(state')
  BY DEF Count
<1>3. /\ Count(state) \in Nat /\ Count(state') \in Nat
      /\ \A w \in Waiters : Ticket(w) \in Nat
  <2>1. /\ state.epoch \in 0..(EpochMod - 1) /\ state'.epoch \in 0..(EpochMod - 1)
        /\ \A w \in Waiters : turn[w] \in 0..(EpochMod - 1)
    BY DEF WellTyped, Words
  <2>2. \A e \in 0..(EpochMod - 1) : Nth(e) \in 0..(EpochMod - 1)
    BY NthIs
  <2> QED
    BY <2>1, <2>2, CountIsNth, TicketIsNth, EpochsAre
<1>4. \A k \in Count(state')..(waits - 1) : \E w \in Waiters : pc'[w] \in Deciding /\ Ticket(w) = k
  <2> TAKE k \in Count(state')..(waits - 1)
  <2>1. k \in Count(state)..(waits - 1) /\ k >= Count(state')
    BY <1>3 DEF Serves, WellTyped
  <2>2. PICK w \in Waiters : pc[w] \in Deciding /\ Ticket(w) = k
    BY <2>1 DEF TicketsOK
  <2> QED
    BY <2>1, <2>2 DEF Serves
<1>5. (Count(state) + state.waiters = waits)'
  BY <1>2 DEF Serves
<1>6. \A w \in Waiters : pc'[w] \in Deciding => Ticket(w)' < waits'
  BY <1>1 DEF Serves, TicketsOK
<1>7. \A w, v \in Waiters :
        pc'[w] \in Deciding /\ pc'[v] \in Deciding /\ Ticket(w)' = Ticket(v)' => w = v
  BY <1>1 DEF Serves, TicketsOK
<1>8. \A k \in Count(state)'..(waits' - 1) : \E w \in Waiters : pc'[w] \in Deciding /\ Ticket(w)' = k
  BY <1>1, <1>2, <1>4 DEF Serves
<1> QED
  BY <1>5, <1>6, <1>7, <1>8, Zenon DEF TicketsOK

(* Prewait hands out the next one. *)
LEMMA TicketTaken ==
  ASSUME WellTyped, WellTyped', TicketsOK, NEW w \in Waiters, Prewait(w)
  PROVE  TicketsOK' /\ Ticket(w)' = waits /\ Count(state') = Count(state)
<1>1. /\ waits \in 0..MaxWaits /\ waits' = waits + 1 /\ waits' \in 0..MaxWaits /\ MaxWaits \in Nat
      /\ state.epoch \in 0..(EpochMod - 1) /\ state.waiters \in Nat
      /\ Count(state) + state.waiters = waits
  BY EpochsAre DEF WellTyped, Words, Prewait, TicketsOK
<1>2. state'.epoch = state.epoch /\ state'.waiters = state.waiters + 1
  BY DEF Prewait, WellTyped, Words
<1>3. Count(state') = Count(state) /\ Count(state)' = Count(state)
  BY <1>2 DEF Count
<1>4. Ticket(w)' = waits
  <2>1. Nth((state.epoch + state.waiters) % EpochMod) = Nth(state.epoch) + state.waiters
    BY <1>1, CountIsNth, Advance
  <2>2. turn'[w] = (state.epoch + state.waiters) % EpochMod
    BY DEF Prewait, TurnFrom, WellTyped
  <2> QED
    BY <1>1, <2>1, <2>2, CountIsNth DEF Ticket, Nth
<1>5. \A v \in Waiters \ {w} : Ticket(v)' = Ticket(v)
  BY DEF Ticket, Prewait, WellTyped
<1>6. /\ pc[w] \notin Deciding /\ pc'[w] \in Deciding
      /\ \A v \in Waiters \ {w} : pc'[v] = pc[v]
  BY DEF Prewait, Go, Deciding, WellTyped, Threads
<1>7. Count(state) \in Nat
  BY <1>1, CountIsNth, NthIs
<1>8. (Count(state) + state.waiters = waits)'
  BY <1>1, <1>2, <1>3, <1>7
<1>9. \A v \in Waiters : pc'[v] \in Deciding => Ticket(v)' < waits'
  <2>1. \A v \in Waiters \ {w} : pc'[v] \in Deciding => Ticket(v) < waits /\ Ticket(v) \in Int
    BY <1>6, Turns DEF TicketsOK
  <2> QED
    BY <1>1, <1>4, <1>5, <2>1
<1>10. \A v, u \in Waiters : pc'[v] \in Deciding /\ pc'[u] \in Deciding /\ Ticket(v)' = Ticket(u)' => v = u
  <2>1. \A v \in Waiters \ {w} : pc'[v] \in Deciding => Ticket(v)' # waits
    BY <1>1, <1>5, <1>6, Turns DEF TicketsOK
  <2>2. \A v, u \in Waiters \ {w} :
          pc'[v] \in Deciding /\ pc'[u] \in Deciding /\ Ticket(v)' = Ticket(u)' => v = u
    BY <1>5, <1>6 DEF TicketsOK
  <2> QED
    BY <1>4, <2>1, <2>2
<1>11. \A k \in Count(state)..(waits' - 1) : \E v \in Waiters : pc'[v] \in Deciding /\ Ticket(v)' = k
  <2> TAKE k \in Count(state)..(waits' - 1)
  <2>1. CASE k = waits
    BY <2>1, <1>4, <1>6
  <2>2. CASE k # waits
    <3>1. k \in Count(state)..(waits - 1)
      BY <2>2, <1>1, <1>7
    <3>2. PICK v \in Waiters : pc[v] \in Deciding /\ Ticket(v) = k
      BY <3>1 DEF TicketsOK
    <3>3. v # w
      BY <3>2, <1>6
    <3> QED
      BY <3>2, <3>3, <1>5, <1>6
  <2> QED
    BY <2>1, <2>2
<1> QED
  BY <1>3, <1>4, <1>8, <1>9, <1>10, <1>11, Zenon DEF TicketsOK

(* A step that leaves the word and the deciding waiters serves none. *)
LEMMA Reserves ==
  ASSUME WellTyped, TicketsOK, UNCHANGED <<state, waits, turn>>,
         \A w \in Waiters : pc'[w] \in Deciding <=> pc[w] \in Deciding
  PROVE  Serves
<1>1. Count(state') = Count(state) /\ state'.waiters = state.waiters /\ Count(state) \in Int
  BY Turns DEF Count
<1> QED
  BY <1>1 DEF Serves, TicketsOK

(* Each step is of one of these two kinds. *)
LEMMA TicketNext ==
  ASSUME WellTyped, WellTyped', TicketsOK, ChainsOK, SeenOK, [Next]_vars
  PROVE  /\ TicketsOK'
         /\ \/ Serves
            \/ \E w \in Waiters : Prewait(w) /\ Ticket(w)' = waits /\ Count(state') = Count(state)
<1>1. /\ state \in Words /\ Count(state) \in Int /\ Count(state) + state.waiters = waits
      /\ waits \in Int /\ state.waiters \in Nat /\ Count(state) + state.waiters <= MaxWaits
      /\ Waiters \subseteq Threads /\ Waiters \cap Notifiers = {}
  BY Turns, ThreadAssumption, EpochsAre DEF WellTyped, TicketsOK, Words, Threads
<1>2. CASE UNCHANGED vars
  BY <1>2, Reserves, TicketsServed DEF vars
<1>3. ASSUME NEW w \in Waiters,
             \/ CommitWait(w) \/ CancelWait(w) \/ CommitLoad(w) \/ CommitNext(w)
             \/ CommitCas(w) \/ Park(w) \/ CancelLoad(w) \/ CancelCas(w) \/ SpuriousWakeup(w)
      PROVE  Serves
  <2>0. /\ waits' = waits /\ turn' = turn
        /\ \A v \in Waiters \ {w} : pc'[v] = pc[v]
    BY <1>3
    DEF CommitWait, CancelWait, CommitLoad, CommitNext, CommitCas, Park, CancelLoad, CancelCas,
        SpuriousWakeup, Go, WellTyped, Threads
  <2>p. pc \in [Threads -> Labels] /\ w \in Threads
    BY <1>1 DEF WellTyped
  <2>1. CASE CommitWait(w)
    BY <2>0, <2>1, <2>p, Reserves DEF CommitWait, Go, Deciding
  <2>2. CASE CancelWait(w)
    BY <2>0, <2>2, <2>p, Reserves DEF CancelWait, Go, Deciding
  <2>3. CASE CommitNext(w)
    BY <2>0, <2>3, <2>p, Reserves DEF CommitNext, Go, Deciding
  <2>4. CASE Park(w)
    BY <2>0, <2>4, <2>p, Reserves DEF Park, Go, Deciding
  <2>5. CASE SpuriousWakeup(w)
    BY <2>0, <2>5, <2>p, Reserves DEF SpuriousWakeup, Go, Deciding
  <2>6. CASE CommitLoad(w) \/ CancelLoad(w)
    <3>1. pc[w] \in Deciding /\ state' = state
      BY <2>6 DEF CommitLoad, CancelLoad, Deciding
    <3>2. CASE Ahead(state, w)
      <4>1. Count(state) > Ticket(w) /\ Ticket(w) \in Int
        BY <3>1, <3>2, Turns
      <4>2. ~OnTurn(state, w)
        BY <3>2 DEF Ahead
      <4>3. pc'[w] = "idle"
        BY <2>6, <2>p, <4>2 DEF CommitLoad, CancelLoad, Go
      <4> QED
        BY <1>1, <2>0, <3>1, <4>1, <4>3 DEF Serves, Deciding
    <3>3. CASE ~Ahead(state, w)
      <4>1. pc'[w] \in Deciding
        BY <2>6, <2>p, <3>3 DEF CommitLoad, CancelLoad, Go, Deciding
      <4> QED
        BY <2>0, <3>1, <4>1, Reserves
    <3> QED
      BY <3>2, <3>3
  <2>7. CASE CommitCas(w) \/ CancelCas(w)
    <3>1. pc[w] \in Deciding /\ Count(seen[w]) = Ticket(w)
      BY <2>7 DEF CommitCas, CancelCas, Deciding, Loaded, SeenOK
    <3>2. CASE state = seen[w]
      <4>1. OnTurn(state, w) /\ state.waiters > 0 /\ Count(state) = Ticket(w)
        BY <3>1, <3>2, Turns
      <4>2. /\ Decided(state) \in Words /\ Decided(state).waiters = state.waiters - 1
            /\ Count(Decided(state)) = Count(state) + 1
        BY <1>1, <4>1, WordDecided
      <4>3. state'.epoch = Decided(state).epoch /\ state'.waiters = Decided(state).waiters
        BY <2>7, <3>2, <4>2 DEF CommitCas, CancelCas, Words
      <4>4. Count(state') = Count(state) + 1 /\ state'.waiters = state.waiters - 1
        BY <4>2, <4>3 DEF Count
      <4>5. pc'[w] \notin Deciding
        BY <2>7, <2>p, <3>2 DEF CommitCas, CancelCas, Go, Deciding
      <4> QED
        BY <1>1, <2>0, <3>1, <4>1, <4>4, <4>5 DEF Serves
    <3>3. CASE state # seen[w]
      <4>1. pc'[w] \in Deciding /\ state' = state
        BY <2>7, <2>p, <3>3 DEF CommitCas, CancelCas, Go, Deciding
      <4> QED
        BY <2>0, <3>1, <4>1, Reserves
    <3> QED
      BY <3>2, <3>3
  <2> QED
    BY <1>3, <2>1, <2>2, <2>3, <2>4, <2>5, <2>6, <2>7
<1>4. ASSUME NEW n \in Notifiers,
             \/ \E all \in BOOLEAN : NotifyLoad(n, all)
             \/ NotifyNext(n) \/ NotifyCas(n) \/ NotifyClear(n)
             \/ UnparkNext(n) \/ UnparkSignal(n) \/ UnparkCv(n)
      PROVE  Serves
  <2>1. waits' = waits /\ turn' = turn
    BY <1>4 DEF NotifyLoad, NotifyNext, NotifyCas, NotifyClear, UnparkNext, UnparkSignal, UnparkCv
  <2>2. \A w \in Waiters : pc'[w] \in Deciding <=> pc[w] \in Deciding
    <3>1. CASE UnparkCv(n)
      BY <3>1, <1>1 DEF UnparkCv, WellTyped, Deciding
    <3>2. CASE ~UnparkCv(n)
      <4>1. \A w \in Waiters : pc'[w] = pc[w]
        BY <1>4, <3>2, <1>1
        DEF NotifyLoad, NotifyNext, NotifyCas, NotifyClear, UnparkNext, UnparkSignal, Go, WellTyped
      <4> QED
        BY <4>1
    <3> QED
      BY <3>1, <3>2
  <2>3. CASE NotifyCas(n)
    <3>1. CASE state = seen[n]
      <4>1. todo[n].all \in BOOLEAN /\ todo[n].below \in Waiters \cup {Nobody}
        BY DEF WellTyped, Todos
      <4>2. NotifiedAs(Notified(state, todo[n].all, todo[n].below), state, todo[n].all, todo[n].below)
        BY <1>1, <4>1, WordNotified
      <4>3. state' = Notified(state, todo[n].all, todo[n].below)
        BY <2>3, <3>1 DEF NotifyCas, SameWord
      <4>4. Count(state') + state'.waiters = waits /\ Count(state') >= Count(state)
        BY <4>2, <4>3, <1>1 DEF NotifiedAs
      <4> QED
        BY <2>1, <2>2, <4>4 DEF Serves
    <3>2. CASE state # seen[n]
      <4>1. state' = state
        BY <2>3, <3>2 DEF NotifyCas, SameWord
      <4> QED
        BY <2>1, <2>2, <4>1, Reserves
    <3> QED
      BY <3>1, <3>2
  <2>4. CASE ~NotifyCas(n)
    <3>1. state' = state
      BY <1>4, <2>4 DEF NotifyLoad, NotifyNext, NotifyClear, UnparkNext, UnparkSignal, UnparkCv
    <3> QED
      BY <2>1, <2>2, <3>1, Reserves
  <2> QED
    BY <2>3, <2>4
<1>5. ASSUME NEW w \in Waiters, Prewait(w)
      PROVE  TicketsOK' /\ Prewait(w) /\ Ticket(w)' = waits /\ Count(state') = Count(state)
  BY <1>5, TicketTaken
<1> QED
  BY <1>2, <1>3, <1>4, <1>5, Cases, TicketsServed, Reserves DEF vars

-----------------------------------------------------------------------------
(* Lists, step by step.  ListOf and Holds are List and its part of         *)
(* ChainsOK for a label, a todo and the pointers of one state.             *)

ListOf(label, j, nx) ==
  CASE label = "notify.clear" -> <<j.wake>>
    [] label \in {"unpark.next", "unpark.signal"} -> Follow(j.wake, nx)
    [] label = "unpark.cv" -> Follow(j.then, nx)
    [] OTHER -> <<>>

Holds(label, j, nx) ==
  /\ label = "notify.clear" => j.wake # Nobody
  /\ label \in {"unpark.next", "unpark.signal"} => IsChain(ListOf(label, j, nx), j.wake, nx)
  /\ label = "unpark.signal" => j.wake # Nobody /\ j.then = nx[j.wake]
  /\ label = "unpark.cv" => j.wake # Nobody /\ IsChain(ListOf(label, j, nx), j.then, nx)

Pointers == [Waiters -> Waiters \cup {Nobody}]

(* The lists as functions of the labels and pointers of one state, *)
LEMMA ListsNow ==
  /\ Stack = Follow(state.top, next)
  /\ \A n : List(n) = ListOf(pc[n], todo[n], next)
  /\ ChainsOK <=> /\ IsChain(Stack, state.top, next)
                  /\ \A n \in Notifiers : Holds(pc[n], todo[n], next)
<1>1. Stack = Follow(state.top, next)
  BY ChainFollows DEF Stack
<1>2. \A n : List(n) = ListOf(pc[n], todo[n], next)
  BY ChainFollows DEF List, ListOf
<1> QED
  BY <1>1, <1>2 DEF ChainsOK, Holds

(* and of the next state *)
LEMMA ListsThen ==
  /\ Stack' = Follow(state'.top, next')
  /\ \A n : List(n)' = ListOf(pc'[n], todo'[n], next')
  /\ ChainsOK' <=> /\ IsChain(Stack', state'.top, next')
                   /\ \A n \in Notifiers : Holds(pc'[n], todo'[n], next')
<1>0. \A w : Chain(w)' = Follow(w, next')
  BY DEF Chain, Follow, Follows, Width
<1>1. Stack' = Follow(state'.top, next')
  <2>1. Stack' = Chain(state.top)'
    BY DEF Stack
  <2>2. Chain(state.top)' = Follow(state'.top, next')
    BY DEF Chain, Follow, Follows, Width
  <2> QED
    BY <2>1, <2>2
<1>2. \A n : List(n)' = ListOf(pc'[n], todo'[n], next')
  <2> TAKE n
  <2>1. Chain(todo[n].wake)' = Follow(todo'[n].wake, next')
    BY DEF Chain, Follow, Follows, Width
  <2>2. Chain(todo[n].then)' = Follow(todo'[n].then, next')
    BY DEF Chain, Follow, Follows, Width
  <2> QED
    BY <2>1, <2>2 DEF List, ListOf
<1> QED
  BY <1>1, <1>2 DEF ChainsOK, Holds

(* A list is known by what it follows. *)
LEMMA ListIs ==
  ASSUME NEW nx \in Pointers, NEW c, NEW label, NEW j
  PROVE  /\ label \in {"unpark.next", "unpark.signal"} /\ IsChain(c, j.wake, nx) =>
              ListOf(label, j, nx) = c
         /\ label = "unpark.cv" /\ IsChain(c, j.then, nx) => ListOf(label, j, nx) = c
         /\ label = "notify.clear" => ListOf(label, j, nx) = <<j.wake>>
         /\ label \in {"idle", "notify.load", "notify.next", "notify.cas"} =>
              ListOf(label, j, nx) = <<>> /\ Holds(label, j, nx)
<1>1. \A w : IsChain(c, w, nx) => Follow(w, nx) = c
  BY FollowIs DEF Pointers
<1> QED
  BY <1>1 DEF ListOf, Holds

(* Only the pointers of its members matter for a list. *)
LEMMA ListStays ==
  ASSUME NEW nx \in Pointers, NEW nx2 \in Pointers, NEW label, NEW j, Holds(label, j, nx),
         \A x \in Members(ListOf(label, j, nx)) : nx2[x] = nx[x]
  PROVE  ListOf(label, j, nx2) = ListOf(label, j, nx) /\ Holds(label, j, nx2)
<1> DEFINE c == ListOf(label, j, nx)
<1>1. CASE label \in {"unpark.next", "unpark.signal"}
  <2>1. IsChain(c, j.wake, nx)
    BY <1>1 DEF Holds
  <2>2. IsChain(c, j.wake, nx2)
    <3> HIDE DEF c
    <3> QED
      BY <2>1, ListKept DEF c
  <2>3. ListOf(label, j, nx2) = c
    BY <1>1, <2>2, ListIs
  <2>4. j.wake # Nobody => nx2[j.wake] = nx[j.wake]
    BY <2>1, MembersAreWaiters
  <2> QED
    BY <1>1, <2>2, <2>3, <2>4 DEF Holds
<1>2. CASE label = "unpark.cv"
  <2>1. IsChain(c, j.then, nx) /\ j.wake # Nobody
    BY <1>2 DEF Holds
  <2>2. IsChain(c, j.then, nx2)
    <3> HIDE DEF c
    <3> QED
      BY <2>1, ListKept DEF c
  <2>3. ListOf(label, j, nx2) = c
    BY <1>2, <2>2, ListIs
  <2> QED
    BY <1>2, <2>1, <2>2, <2>3 DEF Holds
<1>3. CASE label \notin {"unpark.next", "unpark.signal", "unpark.cv"}
  BY <1>3 DEF Holds, ListOf
<1> QED
  BY <1>1, <1>2, <1>3

(* ... and so for the stack. *)
LEMMA StackStays ==
  ASSUME WellTyped, WellTyped', ChainsOK, state'.top = state.top,
         \A x \in Members(Stack) : next'[x] = next[x]
  PROVE  Stack' = Stack /\ IsChain(Stack', state'.top, next')
<1>1. next \in Pointers /\ next' \in Pointers
  BY DEF WellTyped, Pointers
<1>2. IsChain(Stack, state.top, next)
  BY DEF ChainsOK
<1>3. IsChain(Stack, state'.top, next')
  BY <1>2, ListKept
<1>4. Stack' = Stack
  BY <1>1, <1>3, ListsThen, FollowIs DEF Pointers
<1> QED
  BY <1>3, <1>4

(* Who does not act keeps its list if no pointer in it changes. *)
LEMMA NotifierStays ==
  ASSUME WellTyped, WellTyped', ChainsOK, NEW n \in Notifiers,
         pc'[n] = pc[n], todo'[n] = todo[n],
         \A x \in Members(List(n)) : next'[x] = next[x]
  PROVE  List(n)' = List(n) /\ Holds(pc'[n], todo'[n], next')
<1>1. next \in Pointers /\ next' \in Pointers
  BY DEF WellTyped, Pointers
<1>2. Holds(pc[n], todo[n], next) /\ List(n) = ListOf(pc[n], todo[n], next)
  BY ListsNow
<1>3. ListOf(pc[n], todo[n], next') = ListOf(pc[n], todo[n], next) /\ Holds(pc[n], todo[n], next')
  BY <1>1, <1>2, ListStays
<1> QED
  BY <1>2, <1>3, ListsThen

(* What a step does to the lists, and to who waits for a signal *)
Held(x) == Members(Line(x))
Waits(w) == pc[w] \in Sleeping /\ signal[w] # "kSignaled"

Quiet ==
  /\ Stack' = Stack /\ \A x \in Places : Held(x)' = Held(x)
  /\ \A w \in Waiters : Waits(w)' <=> Waits(w)

Pushed(w) ==
  /\ Stack' = <<w>> \o Stack /\ Held(Nobody)' = {w} \cup Held(Nobody)
  /\ \A n \in Notifiers : Held(n)' = Held(n)
  /\ ~Waits(w) /\ Waits(w)' /\ \A v \in Waiters \ {w} : Waits(v)' <=> Waits(v)

Taken(n) ==
  /\ Held(n) = {} /\ Held(n)' \subseteq Held(Nobody) /\ Held(Nobody)' = Held(Nobody) \ Held(n)'
  /\ \A m \in Notifiers \ {n} : Held(m)' = Held(m)
  /\ \A w \in Waiters : Waits(w)' <=> Waits(w)

Signalled(n, w) ==
  /\ Stack' = Stack /\ w \in Held(n) /\ Held(n)' = Held(n) \ {w}
  /\ \A x \in Places \ {n} : Held(x)' = Held(x)
  /\ ~Waits(w)' /\ \A v \in Waiters \ {w} : Waits(v)' <=> Waits(v)

(* Who is on which list, in this state and in the next *)
LEMMA HeldIs ==
  /\ Held(Nobody) = Members(Stack) /\ \A n \in Notifiers : Held(n) = Members(List(n))
  /\ Held(Nobody)' = Members(Stack') /\ \A n \in Notifiers : Held(n)' = Members(List(n)')
<1>1. Nobody \notin Notifiers
  BY WidthIsNat
<1>2. \A c : Members(c)' = Members(c)
  BY DEF Members
<1>3. Held(Nobody)' = Members(Stack')
  BY DEF Held, Line, Members
<1>4. \A n \in Notifiers : Held(n)' = Members(List(n)')
  <2> TAKE n \in Notifiers
  <2>1. n # Nobody
    BY <1>1
  <2> QED
    BY <2>1 DEF Held, Line, Members
<1> QED
  BY <1>1, <1>3, <1>4 DEF Held, Line

(* A list is nobody's but its holder's, and its members sleep. *)
LEMMA HeldOnce ==
  ASSUME LinesOK
  PROVE  /\ \A x, y \in Places : x # y => Held(x) \cap Held(y) = {}
         /\ \A w \in Waiters : Waits(w) <=> \E x \in Places : w \in Held(x)
         /\ \A x \in Places, w \in Waiters : w \in Held(x) => Waits(w)
  BY DEF LinesOK, Held, Waits

(* The four ways to change the lists keep each waiter on at most one. *)
LEMMA LinesKept ==
  ASSUME LinesOK,
         \/ Quiet
         \/ \E w \in Waiters : Pushed(w)
         \/ \E n \in Notifiers : Taken(n) \/ \E w \in Waiters : Signalled(n, w)
  PROVE  LinesOK'
<1>1. Nobody \in Places /\ Notifiers \subseteq Places /\ Nobody \notin Notifiers
      /\ \A x \in Places : x # Nobody => x \in Notifiers
  BY WidthIsNat DEF Places
<1>2. /\ \A x, y \in Places : x # y => Held(x) \cap Held(y) = {}
      /\ \A w \in Waiters : Waits(w) <=> \E x \in Places : w \in Held(x)
  BY HeldOnce
<1>3. SUFFICES /\ \A x, y \in Places : x # y => Held(x)' \cap Held(y)' = {}
               /\ \A w \in Waiters : Waits(w)' <=> \E x \in Places : w \in Held(x)'
  BY DEF LinesOK, Held, Waits, Places
<1>4. CASE Quiet
  BY <1>2, <1>4 DEF Quiet
<1>5. ASSUME NEW w \in Waiters, Pushed(w)
      PROVE  /\ \A x, y \in Places : x # y => Held(x)' \cap Held(y)' = {}
             /\ \A v \in Waiters : Waits(v)' <=> \E x \in Places : v \in Held(x)'
  <2>1. \A x \in Places : w \notin Held(x)
    BY <1>2, <1>5 DEF Pushed
  <2>2. \A x \in Places : Held(x)' = IF x = Nobody THEN {w} \cup Held(x) ELSE Held(x)
    BY <1>1, <1>5 DEF Pushed
  <2>3. \A x, y \in Places : x # y => Held(x)' \cap Held(y)' = {}
    BY <1>2, <2>1, <2>2
  <2>4. \A v \in Waiters : Waits(v)' <=> \E x \in Places : v \in Held(x)'
    <3> TAKE v \in Waiters
    <3>1. CASE v = w
      BY <3>1, <1>1, <1>5, <2>2 DEF Pushed
    <3>2. CASE v # w
      <4>1. Waits(v)' <=> Waits(v)
        BY <3>2, <1>5 DEF Pushed
      <4>2. \A x \in Places : v \in Held(x)' <=> v \in Held(x)
        BY <3>2, <2>2
      <4> QED
        BY <4>1, <4>2, <1>2
    <3> QED
      BY <3>1, <3>2
  <2> QED
    BY <2>3, <2>4
<1>6. ASSUME NEW n \in Notifiers, Taken(n)
      PROVE  /\ \A x, y \in Places : x # y => Held(x)' \cap Held(y)' = {}
             /\ \A v \in Waiters : Waits(v)' <=> \E x \in Places : v \in Held(x)'
  <2>1. \A x \in Places : Held(x)' = IF x = Nobody THEN Held(Nobody) \ Held(n)'
                                    ELSE IF x = n THEN Held(n)' ELSE Held(x)
    BY <1>1, <1>6 DEF Taken
  <2>2. Held(n)' \subseteq Held(Nobody) /\ Held(n) = {} /\ n # Nobody /\ n \in Places
    BY <1>1, <1>6 DEF Taken
  <2>3. ASSUME NEW x \in Places, NEW y \in Places, x # y PROVE Held(x)' \cap Held(y)' = {}
    <3>1. Held(Nobody) \cap Held(x) = {} \/ x = Nobody
      BY <1>1, <1>2
    <3>2. Held(Nobody) \cap Held(y) = {} \/ y = Nobody
      BY <1>1, <1>2
    <3>3. Held(x) \cap Held(y) = {}
      BY <1>2, <2>3
    <3>4. Held(x)' = IF x = Nobody THEN Held(Nobody) \ Held(n)' ELSE IF x = n THEN Held(n)' ELSE Held(x)
      BY <2>1
    <3>5. Held(y)' = IF y = Nobody THEN Held(Nobody) \ Held(n)' ELSE IF y = n THEN Held(n)' ELSE Held(y)
      BY <2>1
    <3> QED
      BY <2>2, <2>3, <3>1, <3>2, <3>3, <3>4, <3>5
  <2>4. \A v \in Waiters : Waits(v)' <=> \E x \in Places : v \in Held(x)'
    <3> TAKE v \in Waiters
    <3>1. Waits(v)' <=> \E x \in Places : v \in Held(x)
      BY <1>2, <1>6 DEF Taken
    <3>2. ASSUME NEW x \in Places, v \in Held(x) PROVE \E y \in Places : v \in Held(y)'
      <4>1. CASE x = Nobody
        BY <4>1, <1>1, <2>1, <2>2, <3>2
      <4>2. CASE x # Nobody
        BY <4>2, <2>1, <2>2, <3>2
      <4> QED
        BY <4>1, <4>2
    <3>3. ASSUME NEW x \in Places, v \in Held(x)' PROVE \E y \in Places : v \in Held(y)
      BY <1>1, <2>1, <2>2, <3>3
    <3> QED
      BY <3>1, <3>2, <3>3
  <2> QED
    BY <2>3, <2>4
<1>7. ASSUME NEW n \in Notifiers, NEW w \in Waiters, Signalled(n, w)
      PROVE  /\ \A x, y \in Places : x # y => Held(x)' \cap Held(y)' = {}
             /\ \A v \in Waiters : Waits(v)' <=> \E x \in Places : v \in Held(x)'
  <2>1. \A x \in Places : Held(x)' = IF x = n THEN Held(n) \ {w} ELSE Held(x)
    BY <1>1, <1>7 DEF Signalled
  <2>2. w \in Held(n) /\ n \in Places
    BY <1>1, <1>7 DEF Signalled
  <2>3. \A x \in Places : w \notin Held(x)'
    BY <1>2, <2>1, <2>2
  <2>4. \A x, y \in Places : x # y => Held(x)' \cap Held(y)' = {}
    BY <1>2, <2>1, <2>2
  <2>5. \A v \in Waiters : Waits(v)' <=> \E x \in Places : v \in Held(x)'
    <3> TAKE v \in Waiters
    <3>1. CASE v = w
      BY <3>1, <2>3, <1>7 DEF Signalled
    <3>2. CASE v # w
      <4>1. Waits(v)' <=> Waits(v)
        BY <3>2, <1>7 DEF Signalled
      <4>2. \A x \in Places : v \in Held(x)' <=> v \in Held(x)
        BY <3>2, <2>1
      <4> QED
        BY <4>1, <4>2, <1>2
    <3> QED
      BY <3>1, <3>2
  <2> QED
    BY <2>4, <2>5
<1> QED
  BY <1>4, <1>5, <1>6, <1>7

(* Steps that change no pointer that matters and no notifier *)
LEMMA ListsStill ==
  ASSUME WellTyped, WellTyped', ChainsOK, state'.top = state.top,
         \A n \in Notifiers : pc'[n] = pc[n] /\ todo'[n] = todo[n],
         \A x \in Places : \A y \in Held(x) : next'[y] = next[y]
  PROVE  /\ ChainsOK' /\ Stack' = Stack
         /\ \A x \in Places : Held(x)' = Held(x)
<1>1. Nobody \in Places /\ Notifiers \subseteq Places /\ \A x \in Places : x # Nobody => x \in Notifiers
  BY DEF Places
<1>2. Stack' = Stack /\ IsChain(Stack', state'.top, next')
  BY <1>1, HeldIs, StackStays
<1>3. \A n \in Notifiers : List(n)' = List(n) /\ Holds(pc'[n], todo'[n], next')
  BY <1>1, HeldIs, NotifierStays
<1>4. ChainsOK'
  BY <1>2, <1>3, ListsThen
<1>5. \A x \in Places : Held(x)' = Held(x)
  BY <1>1, <1>2, <1>3, HeldIs
<1> QED
  BY <1>2, <1>4, <1>5

(* A waiter that goes on neither sleeps nor waits for a signal more than before. *)
LEMMA WaiterLists ==
  ASSUME WellTyped, WellTyped', TicketsOK, ChainsOK, LinesOK, SignalsOK, SeenOK, NEW w \in Waiters,
         \/ Prewait(w) \/ CommitWait(w) \/ CancelWait(w) \/ CommitLoad(w) \/ CommitNext(w)
         \/ CommitCas(w) /\ state # seen[w]
         \/ Park(w) \/ CancelLoad(w) \/ CancelCas(w) \/ SpuriousWakeup(w)
  PROVE  ChainsOK' /\ Quiet
<1>1. /\ Waiters \cap Notifiers = {} /\ Waiters \subseteq Threads /\ Notifiers \subseteq Threads
      /\ pc \in [Threads -> Labels] /\ w \in Threads /\ state \in Words
  BY ThreadAssumption DEF Threads, WellTyped
<1>2. \A u \in Threads \ {w} : pc'[u] = pc[u]
  BY <1>1
  DEF Prewait, CommitWait, CancelWait, CommitLoad, CommitNext, CommitCas, Park, CancelLoad, CancelCas,
      SpuriousWakeup, Go
<1>3. \A n \in Notifiers : pc'[n] = pc[n] /\ todo'[n] = todo[n]
  BY <1>1, <1>2
  DEF Prewait, CommitWait, CancelWait, CommitLoad, CommitNext, CommitCas, Park, CancelLoad, CancelCas,
      SpuriousWakeup
<1>4. state'.top = state.top
  <2>1. CASE Prewait(w)
    BY <2>1, <1>1 DEF Prewait, Words
  <2>2. CASE CancelCas(w)
    <3>1. Decided(state).top = state.top
      BY <1>1 DEF Decided, Words
    <3> QED
      BY <2>2, <3>1 DEF CancelCas
  <2>3. CASE ~Prewait(w) /\ ~CancelCas(w)
    BY <2>3
    DEF CommitWait, CancelWait, CommitLoad, CommitNext, CommitCas, Park, CancelLoad, SpuriousWakeup
  <2> QED
    BY <2>1, <2>2, <2>3
<1>5. \A x \in Places : \A y \in Held(x) : next'[y] = next[y]
  <2>1. CASE CommitNext(w)
    <3>1. ~Waits(w)
      BY <2>1 DEF CommitNext, Waits, Sleeping
    <3>2. \A x \in Places : w \notin Held(x)
      BY <3>1, HeldOnce
    <3>3. next \in [Waiters -> Waiters \cup {Nobody}] /\ next' = [next EXCEPT ![w] = seen[w].top]
      BY <2>1 DEF CommitNext, WellTyped
    <3>4. \A y : y # w => next'[y] = next[y]
      BY <3>3
    <3> QED
      BY <3>2, <3>4
  <2>2. CASE ~CommitNext(w)
    <3>1. next' = next
      BY <2>2
      DEF Prewait, CommitWait, CancelWait, CommitLoad, CommitCas, Park, CancelLoad, CancelCas,
          SpuriousWakeup
    <3> QED
      BY <3>1
  <2> QED
    BY <2>1, <2>2
<1>6. ChainsOK' /\ Stack' = Stack /\ \A x \in Places : Held(x)' = Held(x)
  BY <1>3, <1>4, <1>5, ListsStill
<1>7. \A v \in Waiters \ {w} : Waits(v)' <=> Waits(v)
  <2>1. \A v \in Waiters \ {w} : signal'[v] = signal[v]
    BY DEF Prewait, CommitWait, CancelWait, CommitLoad, CommitNext, CommitCas, Park, CancelLoad,
           CancelCas, SpuriousWakeup, WellTyped
  <2> QED
    BY <1>1, <1>2, <2>1 DEF Waits
<1>8. Waits(w)' <=> Waits(w)
  <2>1. CASE Park(w)
    BY <2>1, <1>1 DEF Park, Go, Waits, Sleeping, WellTyped
  <2>2. CASE SpuriousWakeup(w)
    BY <2>2, <1>1 DEF SpuriousWakeup, Go, Waits, Sleeping
  <2>3. CASE ~Park(w) /\ ~SpuriousWakeup(w)
    <3>1. pc[w] \notin Sleeping
      BY <2>3
      DEF Prewait, CommitWait, CancelWait, CommitLoad, CommitNext, CommitCas, CancelLoad, CancelCas,
          Sleeping
    <3>2. pc'[w] \notin Sleeping
      BY <2>3, <1>1
      DEF Prewait, CommitWait, CancelWait, CommitLoad, CommitNext, CommitCas, CancelLoad, CancelCas,
          Go, Sleeping
    <3> QED
      BY <3>1, <3>2 DEF Waits
  <2> QED
    BY <2>1, <2>2, <2>3
<1> QED
  BY <1>6, <1>7, <1>8 DEF Quiet

(* A waiter goes to sleep on top of the stack. *)
LEMMA CommitPushes ==
  ASSUME WellTyped, WellTyped', ChainsOK, LinesOK, SignalsOK, SeenOK,
         NEW w \in Waiters, CommitCas(w), state = seen[w]
  PROVE  ChainsOK' /\ Pushed(w)
<1>1. /\ Waiters \cap Notifiers = {} /\ Waiters \subseteq Threads /\ Notifiers \subseteq Threads
      /\ pc \in [Threads -> Labels] /\ w \in Threads /\ state \in Words
      /\ next \in Pointers /\ next' = next /\ todo' = todo /\ signal' = signal
  BY ThreadAssumption DEF Threads, WellTyped, CommitCas, Pointers
<1>2. pc[w] = "commit.cas" /\ pc'[w] = "park.lock" /\ \A u \in Threads \ {w} : pc'[u] = pc[u]
  BY <1>1 DEF CommitCas, Go
<1>3. \A n \in Notifiers : pc'[n] = pc[n] /\ todo'[n] = todo[n]
  BY <1>1, <1>2
<1>4. state'.top = w
  BY <1>1 DEF CommitCas, Decided, Words
<1>5. next[w] = state.top /\ signal[w] = "kNotSignaled"
  BY <1>2 DEF SeenOK, SignalsOK, Committing
<1>6. ~Waits(w) /\ Waits(w)'
  BY <1>1, <1>2, <1>5 DEF Waits, Sleeping
<1>7. Nobody \in Places /\ Notifiers \subseteq Places
  BY DEF Places
<1>8. w \notin Members(Stack)
  BY <1>6, <1>7, HeldOnce, HeldIs
<1>9. IsChain(Stack, state.top, next)
  BY DEF ChainsOK
<1>10. IsChain(<<w>> \o Stack, w, next) /\ Members(<<w>> \o Stack) = {w} \cup Members(Stack)
  BY <1>5, <1>8, <1>9, ListCons
<1>11. Stack' = <<w>> \o Stack /\ IsChain(Stack', state'.top, next')
  BY <1>1, <1>4, <1>10, ListsThen, FollowIs DEF Pointers
<1>12. \A n \in Notifiers : List(n)' = List(n) /\ Holds(pc'[n], todo'[n], next')
  BY <1>1, <1>3, NotifierStays
<1>13. ChainsOK'
  BY <1>11, <1>12, ListsThen
<1>14. Held(Nobody)' = {w} \cup Held(Nobody) /\ \A n \in Notifiers : Held(n)' = Held(n)
  BY <1>10, <1>11, <1>12, HeldIs
<1>15. \A v \in Waiters \ {w} : Waits(v)' <=> Waits(v)
  BY <1>1, <1>2 DEF Waits
<1> QED
  BY <1>6, <1>11, <1>13, <1>14, <1>15 DEF Pushed

(* What an action of notifier n leaves alone *)
LEMMA NotifierMoves ==
  ASSUME WellTyped, NEW n \in Notifiers,
         \/ \E all \in BOOLEAN : NotifyLoad(n, all)
         \/ NotifyNext(n) \/ NotifyCas(n) \/ NotifyClear(n) \/ UnparkNext(n) \/ UnparkSignal(n)
         \/ UnparkCv(n) /\ todo[n].wake \in Waiters
  PROVE  /\ \A m \in Notifiers \ {n} : pc'[m] = pc[m] /\ todo'[m] = todo[m]
         /\ \A w \in Waiters : pc'[w] = pc[w] \/ (pc[w] = "park.wait" /\ pc'[w] = "park.lock" /\ UnparkCv(n))
         /\ n \in Threads /\ pc \in [Threads -> Labels] /\ todo \in [Notifiers -> Todos]
         /\ todo[n].wake \in Waiters \cup {Nobody} /\ todo[n].then \in Waiters \cup {Nobody}
         /\ todo[n].below \in Waiters \cup {Nobody}
<1>1. /\ Waiters \cap Notifiers = {} /\ Waiters \subseteq Threads /\ Notifiers \subseteq Threads
      /\ pc \in [Threads -> Labels] /\ n \in Threads /\ todo \in [Notifiers -> Todos]
  BY ThreadAssumption DEF Threads, WellTyped
<1>2. todo[n] \in Todos
  BY <1>1
<1>3. \A m \in Notifiers \ {n} : todo'[m] = todo[m]
  BY <1>1
  DEF NotifyLoad, NotifyNext, NotifyCas, NotifyClear, UnparkNext, UnparkSignal, UnparkCv, UnparkStep
<1>4. CASE UnparkCv(n)
  <2>1. todo[n].wake \in Waiters
    BY <1>4 DEF UnparkCv, NotifyLoad, NotifyNext, NotifyCas, NotifyClear, UnparkNext, UnparkSignal
  <2> QED
    BY <1>1, <1>2, <1>3, <1>4, <2>1 DEF UnparkCv, Todos
<1>5. CASE ~UnparkCv(n)
  <2>1. \A u \in Threads \ {n} : pc'[u] = pc[u]
    BY <1>1, <1>5 DEF NotifyLoad, NotifyNext, NotifyCas, NotifyClear, UnparkNext, UnparkSignal, Go
  <2> QED
    BY <1>1, <1>2, <1>3, <1>5, <2>1 DEF Todos
<1> QED
  BY <1>4, <1>5

(* A notifier at its own list leaves the other lists. *)
LEMMA OtherLists ==
  ASSUME WellTyped, WellTyped', ChainsOK, NEW n \in Notifiers,
         \A m \in Notifiers \ {n} : pc'[m] = pc[m] /\ todo'[m] = todo[m],
         \A x \in Places \ {n} : \A y \in Held(x) : next'[y] = next[y]
  PROVE  /\ \A m \in Notifiers \ {n} : Holds(pc'[m], todo'[m], next') /\ Held(m)' = Held(m)
         /\ state'.top = state.top =>
              /\ Stack' = Stack /\ IsChain(Stack', state'.top, next') /\ Held(Nobody)' = Held(Nobody)
              /\ Holds(pc'[n], todo'[n], next') => ChainsOK'
<1>1. Nobody \in Places \ {n} /\ \A m \in Notifiers \ {n} : m \in Places \ {n}
  BY WidthIsNat DEF Places
<1>2. \A m \in Notifiers \ {n} : List(m)' = List(m) /\ Holds(pc'[m], todo'[m], next')
  BY <1>1, HeldIs, NotifierStays
<1>3. state'.top = state.top => Stack' = Stack /\ IsChain(Stack', state'.top, next')
  BY <1>1, HeldIs, StackStays
<1> QED
  BY <1>2, <1>3, HeldIs, ListsThen

(* The exchange that takes sleepers off the stack *)
Takes(n) == NotifyCas(n) /\ state = seen[n] /\ ~Empty(state) /\ (todo[n].all \/ state.waiters = 0)

(* Its exchange takes the top or the whole stack, as it is now. *)
LEMMA NotifyTakes ==
  ASSUME WellTyped, WellTyped', TicketsOK, ChainsOK, LinesOK, SeenOK, NEW n \in Notifiers, Takes(n)
  PROVE  /\ ChainsOK' /\ Taken(n)
         /\ Stack' = IF todo[n].all THEN <<>> ELSE Tail(Stack)
         /\ Held(n)' = IF todo[n].all THEN Members(Stack) ELSE {state.top}
<1>0. NotifyCas(n) /\ state = seen[n] /\ state.top # Nobody /\ (todo[n].all \/ state.waiters = 0)
  BY DEF Takes, Empty
<1>1. /\ \A m \in Notifiers \ {n} : pc'[m] = pc[m] /\ todo'[m] = todo[m]
      /\ n \in Threads /\ pc \in [Threads -> Labels] /\ todo \in [Notifiers -> Todos]
      /\ \A w \in Waiters : pc'[w] = pc[w]
  <2>1. ~UnparkCv(n)
    BY <1>0 DEF NotifyCas, UnparkCv
  <2> QED
    BY <1>0, <2>1, NotifierMoves
<1>2. /\ next' = next /\ signal' = signal /\ next \in Pointers
      /\ state' = Notified(state, todo[n].all, todo[n].below)
      /\ pc[n] = "notify.cas"
      /\ pc'[n] = IF todo[n].all THEN "unpark.next" ELSE "notify.clear"
      /\ todo'[n].wake = state.top
      /\ state.waiters \in Nat /\ state.top \in Waiters
  BY <1>0, <1>1 DEF NotifyCas, SameWord, Empty, Go, WellTyped, Pointers, Todos, Words
<1>3. IsChain(Stack, state.top, next)
  BY DEF ChainsOK
<1>4. Held(n) = {}
  <2>1. List(n) = <<>>
    BY <1>2, ListIs, ListsNow
  <2> QED
    BY <2>1, HeldIs DEF Members
<1>5. \A m \in Notifiers \ {n} : Holds(pc'[m], todo'[m], next') /\ Held(m)' = Held(m)
  BY <1>1, <1>2, OtherLists
<1>6. \A w \in Waiters : Waits(w)' <=> Waits(w)
  BY <1>1, <1>2 DEF Waits
<1>7. CASE todo[n].all
  <2>1. state'.top = Nobody
    BY <1>2, <1>7 DEF Notified
  <2>2. IsChain(<<>>, state'.top, next')
    BY <2>1, NoList
  <2>3. Stack' = <<>> /\ IsChain(Stack', state'.top, next')
    BY <1>2, <2>2, ListsThen, FollowIs DEF Pointers
  <2>4. List(n)' = Stack /\ Holds(pc'[n], todo'[n], next')
    <3>1. pc'[n] = "unpark.next" /\ IsChain(Stack, todo'[n].wake, next')
      BY <1>2, <1>3, <1>7
    <3>2. ListOf(pc'[n], todo'[n], next') = Stack
      BY <1>2, <3>1, ListIs
    <3> QED
      BY <3>1, <3>2, ListsThen DEF Holds
  <2>5. ChainsOK'
    BY <1>5, <2>3, <2>4, ListsThen
  <2>6. Held(Nobody)' = {} /\ Held(n)' = Members(Stack) /\ Held(Nobody) = Members(Stack)
    BY <2>3, <2>4, HeldIs, NoList
  <2> QED
    BY <1>4, <1>5, <1>6, <1>7, <2>3, <2>5, <2>6 DEF Taken
<1>8. CASE ~todo[n].all
  <2>0. state.waiters = 0
    BY <1>0, <1>8
  <2>1. state.top \in Members(Stack) /\ Members(Stack) \subseteq Waiters
    BY <1>0, <1>3, MembersAreWaiters
  <2>2. todo[n].below = next[state.top]
    BY <1>0, <1>2, <1>8, <2>0, <2>1 DEF SeenOK
  <2>3. state'.top = next[state.top]
    BY <1>2, <1>8, <2>0, <2>2 DEF Notified, WellTyped, Words
  <2>4. IsChain(Tail(Stack), state'.top, next') /\ Members(Tail(Stack)) = Members(Stack) \ {state.top}
    BY <1>0, <1>2, <1>3, <2>3, ListTail
  <2>5. Stack' = Tail(Stack) /\ IsChain(Stack', state'.top, next')
    BY <1>2, <2>4, ListsThen, FollowIs DEF Pointers
  <2>6. List(n)' = <<state.top>> /\ Holds(pc'[n], todo'[n], next')
    BY <1>0, <1>2, <1>8, ListsThen DEF Holds, ListOf
  <2>7. ChainsOK'
    BY <1>5, <2>5, <2>6, ListsThen
  <2>8. Members(<<state.top>>) = {state.top}
    BY DEF Members
  <2>9. /\ Held(Nobody)' = Members(Stack) \ {state.top} /\ Held(n)' = {state.top}
        /\ Held(Nobody) = Members(Stack)
    BY <2>4, <2>5, <2>6, <2>8, HeldIs
  <2> QED
    BY <1>4, <1>5, <1>6, <1>8, <2>1, <2>5, <2>7, <2>9 DEF Taken
<1> QED
  BY <1>7, <1>8

(* Steps of a notifier that move nobody from list to list *)
LEMMA NotifierLists ==
  ASSUME WellTyped, WellTyped', TicketsOK, ChainsOK, LinesOK, SeenOK, NEW n \in Notifiers,
         \/ \E all \in BOOLEAN : NotifyLoad(n, all)
         \/ NotifyNext(n) \/ (NotifyCas(n) /\ ~Takes(n)) \/ NotifyClear(n)
         \/ UnparkNext(n) \/ UnparkCv(n)
  PROVE  ChainsOK' /\ Quiet
<1>0. /\ next \in Pointers /\ next' \in Pointers /\ state \in Words
      /\ Holds(pc[n], todo[n], next) /\ List(n) = ListOf(pc[n], todo[n], next)
      /\ List(n)' = ListOf(pc'[n], todo'[n], next')
  BY ListsNow, ListsThen DEF WellTyped, Pointers
<1>1. /\ \A m \in Notifiers \ {n} : pc'[m] = pc[m] /\ todo'[m] = todo[m]
      /\ n \in Threads /\ pc \in [Threads -> Labels] /\ todo \in [Notifiers -> Todos]
      /\ todo[n].wake \in Waiters \cup {Nobody}
      /\ \A w \in Waiters : pc'[w] = pc[w] \/ (pc[w] = "park.wait" /\ pc'[w] = "park.lock")
  <2>1. UnparkCv(n) => todo[n].wake \in Waiters
    BY DEF UnparkCv, ChainsOK, WellTyped, Todos
  <2> QED
    BY <2>1, NotifierMoves
<1>2. \A w \in Waiters : Waits(w)' <=> Waits(w)
  <2>1. signal' = signal
    BY DEF NotifyLoad, NotifyNext, NotifyCas, NotifyClear, UnparkNext, UnparkCv
  <2>2. \A w \in Waiters : pc'[w] \in Sleeping <=> pc[w] \in Sleeping
    BY <1>1 DEF Sleeping
  <2> QED
    BY <2>1, <2>2 DEF Waits
<1>3. state'.top = state.top
  <2>1. CASE NotifyCas(n) /\ state = seen[n]
    <3>1. state' = Notified(state, todo[n].all, todo[n].below)
      BY <2>1 DEF NotifyCas, SameWord
    <3>2. Empty(state) \/ (~todo[n].all /\ state.waiters # 0)
      BY <2>1 DEF Takes, NotifyLoad, NotifyNext, NotifyClear, UnparkNext, UnparkCv, NotifyCas
    <3>3. ~(Empty(state) /\ state.waiters = 0) /\ state.waiters \in Nat
      BY <2>1, <1>0 DEF SeenOK, NotifyCas, Words
    <3>4. CASE todo[n].all
      BY <3>1, <3>2, <3>4 DEF Notified, Empty
    <3>5. CASE ~todo[n].all
      <4>1. state.waiters > 0
        BY <3>2, <3>3, <3>5
      <4>2. Decided(state).top = state.top
        BY <1>0 DEF Decided, Words
      <4> QED
        BY <3>1, <3>5, <4>1, <4>2 DEF Notified
    <3> QED
      BY <3>4, <3>5
  <2>2. CASE ~(NotifyCas(n) /\ state = seen[n])
    BY <2>2 DEF NotifyLoad, NotifyNext, NotifyCas, NotifyClear, UnparkNext, UnparkCv, SameWord
  <2> QED
    BY <2>1, <2>2
<1>4. \A x \in Places \ {n} : \A y \in Held(x) : next'[y] = next[y]
  <2>1. CASE NotifyClear(n)
    <3>1. pc[n] = "notify.clear" /\ next' = [next EXCEPT ![todo[n].wake] = Nobody]
      BY <2>1 DEF NotifyClear
    <3>2. List(n) = <<todo[n].wake>>
      BY <1>0, <3>1 DEF ListOf
    <3>3. todo[n].wake \in Held(n) /\ n \in Places
      BY <3>2, HeldIs DEF Members, Places
    <3>4. \A x \in Places \ {n} : todo[n].wake \notin Held(x)
      BY <3>3, HeldOnce
    <3>5. \A y : y # todo[n].wake => next'[y] = next[y]
      BY <3>1, <1>0 DEF Pointers
    <3> QED
      BY <3>4, <3>5
  <2>2. CASE ~NotifyClear(n)
    <3>1. next' = next
      BY <2>2 DEF NotifyLoad, NotifyNext, NotifyCas, UnparkNext, UnparkCv
    <3> QED
      BY <3>1
  <2> QED
    BY <2>1, <2>2
<1>5. Holds(pc'[n], todo'[n], next') /\ Members(List(n)') = Members(List(n))
  <2>1. CASE (\E all \in BOOLEAN : NotifyLoad(n, all)) \/ NotifyNext(n) \/ (NotifyCas(n) /\ ~Takes(n))
    <3>1. pc[n] \in {"idle", "notify.load", "notify.next", "notify.cas"}
      BY <2>1 DEF NotifyLoad, NotifyNext, NotifyCas
    <3>2. pc'[n] \in {"idle", "notify.load", "notify.next", "notify.cas"}
      <4>1. CASE NotifyCas(n) /\ ~Takes(n) /\ state = seen[n]
        <5>1. Empty(state) \/ (~todo[n].all /\ state.waiters > 0)
          BY <4>1, <1>0 DEF Takes, Words
        <5> QED
          BY <4>1, <5>1, <1>1 DEF NotifyCas, SameWord, Go
      <4>2. CASE NotifyCas(n) /\ state # seen[n]
        BY <4>2, <1>1 DEF NotifyCas, SameWord, Go
      <4>3. CASE (\E all \in BOOLEAN : NotifyLoad(n, all)) \/ NotifyNext(n)
        BY <4>3, <1>1 DEF NotifyLoad, NotifyNext, Go
      <4> QED
        BY <2>1, <4>1, <4>2, <4>3
    <3>3. List(n) = <<>> /\ List(n)' = <<>> /\ Holds(pc'[n], todo'[n], next')
      BY <1>0, <3>1, <3>2, ListIs
    <3> QED
      BY <3>3
  <2>2. CASE NotifyClear(n)
    <3>1. /\ pc[n] = "notify.clear" /\ pc'[n] = "unpark.next"
          /\ next' = [next EXCEPT ![todo[n].wake] = Nobody] /\ todo' = todo
      BY <2>2, <1>1 DEF NotifyClear, Go
    <3>2. todo[n].wake \in Waiters
      BY <3>1, <1>0, <1>1 DEF Holds
    <3>3. next'[todo[n].wake] = Nobody
      BY <3>1, <3>2, <1>0 DEF Pointers
    <3>c. PICK c : c = <<todo[n].wake>>
      OBVIOUS
    <3>4. IsChain(c, todo'[n].wake, next')
      BY <3>1, <3>2, <3>3, <3>c, OneList
    <3>5. List(n)' = c
      BY <1>0, <3>1, <3>4, ListIs
    <3>6. List(n) = c
      BY <1>0, <3>1, <3>c DEF ListOf
    <3> QED
      BY <1>0, <3>1, <3>4, <3>5, <3>6 DEF Holds
  <2>3. CASE UnparkNext(n)
    <3>1. pc[n] = "unpark.next" /\ next' = next /\ IsChain(List(n), todo[n].wake, next)
      BY <2>3, <1>0 DEF UnparkNext, Holds
    <3>2. CASE todo[n].wake = Nobody
      <4>1. pc'[n] = "idle"
        BY <2>3, <3>2, <1>1 DEF UnparkNext, Go
      <4>2. List(n) = <<>>
        BY <3>1, <3>2, MembersAreWaiters
      <4>3. List(n)' = <<>> /\ Holds(pc'[n], todo'[n], next')
        BY <1>0, <4>1, ListIs
      <4> QED
        BY <4>2, <4>3
    <3>3. CASE todo[n].wake # Nobody
      <4>1. /\ pc'[n] = "unpark.signal" /\ todo'[n].wake = todo[n].wake
            /\ todo'[n].then = next[todo[n].wake]
        BY <2>3, <3>3, <1>1 DEF UnparkNext, Go, Todos
      <4>2. List(n)' = List(n)
        BY <1>0, <3>1, <4>1, ListIs
      <4> QED
        BY <1>0, <3>1, <3>3, <4>1, <4>2 DEF Holds
    <3> QED
      BY <3>2, <3>3
  <2>4. CASE UnparkCv(n)
    <3>1. pc[n] = "unpark.cv" /\ next' = next /\ IsChain(List(n), todo[n].then, next)
          /\ todo[n].wake \in Waiters
      BY <2>4, <1>0, <1>1 DEF UnparkCv, Holds
    <3>2. pc'[n] = "unpark.next" /\ todo'[n].wake = todo[n].then
      <4>1. todo[n].wake # n
        BY <3>1, ThreadAssumption
      <4> QED
        BY <2>4, <4>1, <1>1 DEF UnparkCv, UnparkStep, Todos
    <3>3. List(n)' = List(n)
      BY <1>0, <3>1, <3>2, ListIs
    <3> QED
      BY <1>0, <3>1, <3>2, <3>3 DEF Holds
  <2>5. \/ \E all \in BOOLEAN : NotifyLoad(n, all)
        \/ NotifyNext(n)
        \/ (NotifyCas(n) /\ ~Takes(n))
        \/ NotifyClear(n) \/ UnparkNext(n) \/ UnparkCv(n)
    OBVIOUS
  <2> QED
    BY <2>1, <2>2, <2>3, <2>4, <2>5, Zenon
<1>6. /\ \A m \in Notifiers \ {n} : Held(m)' = Held(m)
      /\ Stack' = Stack /\ Held(Nobody)' = Held(Nobody) /\ ChainsOK'
  BY <1>1, <1>3, <1>4, <1>5, OtherLists
<1>7. Held(n)' = Held(n)
  BY <1>5, HeldIs
<1> QED
  BY <1>2, <1>6, <1>7 DEF Quiet, Places

(* A sleeper gets its signal and leaves the list of the notifier. *)
LEMMA SignalLists ==
  ASSUME WellTyped, WellTyped', TicketsOK, ChainsOK, LinesOK, SeenOK, NEW n \in Notifiers, UnparkSignal(n)
  PROVE  ChainsOK' /\ \E w \in Waiters : w = todo[n].wake /\ Signalled(n, w)
<1>w. PICK w : w = todo[n].wake
  OBVIOUS
<1>0. /\ next \in Pointers /\ next' = next /\ state' = state
      /\ Holds(pc[n], todo[n], next) /\ List(n) = ListOf(pc[n], todo[n], next)
      /\ List(n)' = ListOf(pc'[n], todo'[n], next')
  BY ListsNow, ListsThen DEF WellTyped, Pointers, UnparkSignal
<1>1. /\ \A m \in Notifiers \ {n} : pc'[m] = pc[m] /\ todo'[m] = todo[m]
      /\ n \in Threads /\ pc \in [Threads -> Labels] /\ todo \in [Notifiers -> Todos]
      /\ todo[n].wake \in Waiters \cup {Nobody}
      /\ \A v \in Waiters : pc'[v] = pc[v]
  <2>1. ~UnparkCv(n)
    BY DEF UnparkSignal, UnparkCv
  <2> QED
    BY <2>1, NotifierMoves
<1>2. /\ pc[n] = "unpark.signal" /\ w \in Waiters /\ todo[n].then = next[w]
      /\ IsChain(List(n), w, next)
  BY <1>0, <1>1, <1>w DEF UnparkSignal, Holds
<1>3. /\ IsChain(Tail(List(n)), todo[n].then, next) /\ Members(Tail(List(n))) = Members(List(n)) \ {w}
      /\ w \in Members(List(n))
  BY <1>2, ListTail, MembersAreWaiters, WidthIsNat
<1>4. \/ pc'[n] = "unpark.cv" /\ todo'[n] = todo[n]
      \/ pc'[n] = "unpark.next" /\ todo'[n].wake = todo[n].then
  BY <1>1 DEF UnparkSignal, UnparkStep, Go, Todos
<1>5. List(n)' = Tail(List(n)) /\ Holds(pc'[n], todo'[n], next')
  <2>1. CASE pc'[n] = "unpark.cv" /\ todo'[n] = todo[n]
    <3>1. IsChain(Tail(List(n)), todo'[n].then, next')
      BY <1>0, <1>3, <2>1
    <3>2. List(n)' = Tail(List(n))
      BY <1>0, <2>1, <3>1, ListIs
    <3> QED
      BY <1>w, <1>0, <1>2, <2>1, <3>1, <3>2, WidthIsNat DEF Holds
  <2>2. CASE pc'[n] = "unpark.next" /\ todo'[n].wake = todo[n].then
    <3>1. IsChain(Tail(List(n)), todo'[n].wake, next')
      BY <1>0, <1>3, <2>2
    <3>2. List(n)' = Tail(List(n))
      BY <1>0, <2>2, <3>1, ListIs
    <3> QED
      BY <1>0, <2>2, <3>1, <3>2 DEF Holds
  <2> QED
    BY <1>4, <2>1, <2>2
<1>6. /\ \A m \in Notifiers \ {n} : Held(m)' = Held(m)
      /\ Stack' = Stack /\ Held(Nobody)' = Held(Nobody) /\ ChainsOK'
  BY <1>0, <1>1, <1>5, OtherLists
<1>7. w \in Held(n) /\ Held(n)' = Held(n) \ {w}
  BY <1>3, <1>5, HeldIs
<1>8. signal' = [signal EXCEPT ![w] = "kSignaled"]
  BY <1>w DEF UnparkSignal
<1>9. ~Waits(w)' /\ \A v \in Waiters \ {w} : Waits(v)' <=> Waits(v)
  BY <1>1, <1>2, <1>8 DEF Waits, WellTyped
<1> QED
  BY <1>w, <1>2, <1>6, <1>7, <1>9 DEF Signalled, Places

(* The invariant at the start *)
LEMMA ListsInit == Init => WellTyped /\ TicketsOK /\ ChainsOK /\ LinesOK /\ SignalsOK /\ SeenOK /\ CountersFit
<1> SUFFICES ASSUME Init
             PROVE  ChainsOK /\ LinesOK /\ SignalsOK /\ SeenOK /\ CountersFit
  BY TypeInit, TicketInit
<1>1. WellTyped /\ \A t \in Threads : pc[t] = "idle" /\ seen[t] = InitState
  BY TypeInit DEF Init, Threads
<1>2. Waiters \subseteq Threads /\ Notifiers \subseteq Threads
  BY DEF Threads
<1>3. next \in Pointers /\ state.top = Nobody
  BY <1>1 DEF WellTyped, Pointers, Init, InitState
<1>4. PICK c : c = <<>>
  OBVIOUS
<1>5. IsChain(c, Nobody, next) /\ Members(c) = {}
  BY <1>4, NoList
<1>6. Stack = c
  BY <1>3, <1>5, ListsNow, FollowIs DEF Pointers
<1>7. \A n \in Notifiers : List(n) = <<>> /\ Holds(pc[n], todo[n], next)
  BY <1>1, <1>2, <1>3, ListsNow, ListIs
<1>8. ChainsOK
  BY <1>3, <1>5, <1>6, <1>7, ListsNow
<1>9. \A x \in Places : Members(Line(x)) = {}
  <2>1. Members(Stack) = {} /\ \A n \in Notifiers : Members(List(n)) = {}
    BY <1>4, <1>5, <1>6, <1>7
  <2> QED
    BY <2>1 DEF Line, Places
<1>10. LinesOK
  BY <1>1, <1>2, <1>9 DEF LinesOK, Sleeping
<1>11. SignalsOK
  BY <1>1, <1>2 DEF SignalsOK, Committing, SignalReachesTheSleeper
<1>12. SeenOK
  BY <1>1, <1>2 DEF SeenOK, Loaded
<1>13. CountersFit
  <2>1. Width \in Nat
    BY WidthIsNat
  <2> QED
    BY <1>1, <2>1 DEF CountersFit, InitState, Width
<1> QED
  BY <1>8, <1>10, <1>11, <1>12, <1>13

(* Every step leaves lists, and one of four things happens to them. *)
LEMMA ListsNext ==
  ASSUME WellTyped, WellTyped', TicketsOK, ChainsOK, LinesOK, SignalsOK, SeenOK, [Next]_vars
  PROVE  /\ ChainsOK' /\ LinesOK'
         /\ \/ Quiet
            \/ \E w \in Waiters : CommitCas(w) /\ state = seen[w] /\ Pushed(w)
            \/ \E n \in Notifiers : Takes(n) /\ Taken(n)
            \/ \E n \in Notifiers, w \in Waiters : UnparkSignal(n) /\ w = todo[n].wake /\ Signalled(n, w)
<1>1. ASSUME UNCHANGED vars
      PROVE  ChainsOK' /\ Quiet
  <2>1. /\ state'.top = state.top /\ next' = next /\ pc' = pc /\ signal' = signal
        /\ \A n \in Notifiers : pc'[n] = pc[n] /\ todo'[n] = todo[n]
    BY <1>1 DEF vars
  <2>2. ChainsOK' /\ Stack' = Stack /\ \A x \in Places : Held(x)' = Held(x)
    BY <2>1, ListsStill
  <2> QED
    BY <2>1, <2>2 DEF Quiet, Waits
<1>2. ASSUME NEW w \in Waiters,
             \/ Prewait(w) \/ CommitWait(w) \/ CancelWait(w) \/ CommitLoad(w) \/ CommitNext(w)
             \/ CommitCas(w) \/ Park(w) \/ CancelLoad(w) \/ CancelCas(w) \/ SpuriousWakeup(w)
      PROVE  ChainsOK' /\ (Quiet \/ (CommitCas(w) /\ state = seen[w] /\ Pushed(w)))
  <2>1. CASE CommitCas(w) /\ state = seen[w]
    BY <2>1, CommitPushes
  <2>2. CASE ~(CommitCas(w) /\ state = seen[w])
    BY <1>2, <2>2, WaiterLists
  <2> QED
    BY <2>1, <2>2
<1>3. ASSUME NEW n \in Notifiers,
             \/ \E all \in BOOLEAN : NotifyLoad(n, all)
             \/ NotifyNext(n) \/ NotifyCas(n) \/ NotifyClear(n)
             \/ UnparkNext(n) \/ UnparkSignal(n) \/ UnparkCv(n)
      PROVE  /\ ChainsOK'
             /\ \/ Quiet
                \/ Takes(n) /\ Taken(n)
                \/ \E w \in Waiters : UnparkSignal(n) /\ w = todo[n].wake /\ Signalled(n, w)
  <2>1. CASE Takes(n)
    BY <2>1, NotifyTakes
  <2>2. CASE UnparkSignal(n)
    BY <2>2, SignalLists
  <2>3. CASE ~Takes(n) /\ ~UnparkSignal(n)
    BY <1>3, <2>3, NotifierLists
  <2> QED
    BY <2>1, <2>2, <2>3
<1>4. /\ ChainsOK'
      /\ \/ Quiet
         \/ \E w \in Waiters : CommitCas(w) /\ state = seen[w] /\ Pushed(w)
         \/ \E n \in Notifiers : Takes(n) /\ Taken(n)
         \/ \E n \in Notifiers, w \in Waiters : UnparkSignal(n) /\ w = todo[n].wake /\ Signalled(n, w)
  BY <1>1, <1>2, <1>3, Cases
<1>5. LinesOK'
  BY <1>4, LinesKept
<1> QED
  BY <1>4, <1>5

-----------------------------------------------------------------------------
(* Signals *)

WaiterActs(w) ==
  \/ Prewait(w) \/ CommitWait(w) \/ CancelWait(w) \/ CommitLoad(w) \/ CommitNext(w)
  \/ CommitCas(w) \/ Park(w) \/ CancelLoad(w) \/ CancelCas(w) \/ SpuriousWakeup(w)

NotifierActs(n) ==
  \/ \E all \in BOOLEAN : NotifyLoad(n, all)
  \/ NotifyNext(n) \/ NotifyCas(n) \/ NotifyClear(n)
  \/ UnparkNext(n) \/ UnparkSignal(n) \/ UnparkCv(n)

(* A step is that of one waiter or of one notifier. *)
LEMMA Actors ==
  ASSUME [Next]_vars
  PROVE  UNCHANGED vars \/ (\E w \in Waiters : WaiterActs(w)) \/ (\E n \in Notifiers : NotifierActs(n))
  BY Cases DEF WaiterActs, NotifierActs

(* What an action of waiter w leaves alone *)
LEMMA OthersOfWaiter ==
  ASSUME WellTyped, NEW w \in Waiters, WaiterActs(w)
  PROVE  /\ \A u \in Threads \ {w} : pc'[u] = pc[u] /\ seen'[u] = seen[u]
         /\ \A v \in Waiters \ {w} : next'[v] = next[v] /\ signal'[v] = signal[v]
         /\ todo' = todo
         /\ pc[w] # "commit.next" => next' = next
<1>1. /\ pc \in [Threads -> Labels] /\ seen \in [Threads -> Words] /\ w \in Threads
      /\ next \in [Waiters -> Waiters \cup {Nobody}]
      /\ signal \in [Waiters -> {"kNotSignaled", "kWaiting", "kSignaled"}]
  BY DEF WellTyped, Threads
<1>2. \A u \in Threads \ {w} : pc'[u] = pc[u]
  BY <1>1
  DEF WaiterActs, Prewait, CommitWait, CancelWait, CommitLoad, CommitNext, CommitCas, Park,
      CancelLoad, CancelCas, SpuriousWakeup, Go
<1>3. \A u \in Threads \ {w} : seen'[u] = seen[u]
  BY <1>1
  DEF WaiterActs, Prewait, CommitWait, CancelWait, CommitLoad, CommitNext, CommitCas, Park,
      CancelLoad, CancelCas, SpuriousWakeup
<1>4. /\ \A v \in Waiters \ {w} : next'[v] = next[v] /\ signal'[v] = signal[v]
      /\ todo' = todo
      /\ pc[w] # "commit.next" => next' = next
  BY <1>1
  DEF WaiterActs, Prewait, CommitWait, CancelWait, CommitLoad, CommitNext, CommitCas, Park,
      CancelLoad, CancelCas, SpuriousWakeup
<1> QED
  BY <1>2, <1>3, <1>4

(* ... and an action of notifier n *)
LEMMA OthersOfNotifier ==
  ASSUME WellTyped, ChainsOK, NEW n \in Notifiers, NotifierActs(n)
  PROVE  /\ \A w \in Waiters : pc'[w] = pc[w] \/ (pc[w] = "park.wait" /\ pc'[w] = "park.lock" /\ UnparkCv(n))
         /\ \A u \in Threads \ {n} : seen'[u] = seen[u]
         /\ \A m \in Notifiers \ {n} : pc'[m] = pc[m] /\ todo'[m] = todo[m]
         /\ \A v \in Waiters : next'[v] = next[v] \/ (NotifyClear(n) /\ v = todo[n].wake)
         /\ \A v \in Waiters : signal'[v] = signal[v] \/ (UnparkSignal(n) /\ v = todo[n].wake)
         /\ turn' = turn
<1>1. /\ pc \in [Threads -> Labels] /\ seen \in [Threads -> Words] /\ n \in Threads
      /\ next \in [Waiters -> Waiters \cup {Nobody}] /\ todo \in [Notifiers -> Todos]
      /\ signal \in [Waiters -> {"kNotSignaled", "kWaiting", "kSignaled"}]
  BY DEF WellTyped, Threads
<1>2. UnparkCv(n) => todo[n].wake \in Waiters
  <2>1. UnparkCv(n) => todo[n].wake # Nobody
    BY DEF UnparkCv, ChainsOK
  <2> QED
    BY <1>1, <2>1 DEF Todos
<1>3. /\ \A w \in Waiters : pc'[w] = pc[w] \/ (pc[w] = "park.wait" /\ pc'[w] = "park.lock" /\ UnparkCv(n))
      /\ \A m \in Notifiers \ {n} : pc'[m] = pc[m] /\ todo'[m] = todo[m]
  BY <1>2, NotifierMoves DEF NotifierActs
<1>4. \A u \in Threads \ {n} : seen'[u] = seen[u]
  BY <1>1
  DEF NotifierActs, NotifyLoad, NotifyNext, NotifyCas, NotifyClear, UnparkNext, UnparkSignal, UnparkCv
<1>5. /\ \A v \in Waiters : next'[v] = next[v] \/ (NotifyClear(n) /\ v = todo[n].wake)
      /\ \A v \in Waiters : signal'[v] = signal[v] \/ (UnparkSignal(n) /\ v = todo[n].wake)
      /\ turn' = turn
  BY <1>1
  DEF NotifierActs, NotifyLoad, NotifyNext, NotifyCas, NotifyClear, UnparkNext, UnparkSignal, UnparkCv
<1> QED
  BY <1>3, <1>4, <1>5

(* Signals only go to who sleeps or is about to. *)
LEMMA SignalsNext ==
  ASSUME WellTyped, WellTyped', TicketsOK, ChainsOK, LinesOK, SignalsOK, SeenOK, [Next]_vars
  PROVE  SignalsOK'
<1>1. CASE UNCHANGED vars
  BY <1>1 DEF vars, SignalsOK, SignalReachesTheSleeper
<1>2. ASSUME NEW w \in Waiters, WaiterActs(w)
      PROVE  SignalsOK'
  <2>1. /\ \A u \in Threads \ {w} : pc'[u] = pc[u]
        /\ \A v \in Waiters \ {w} : signal'[v] = signal[v]
        /\ todo' = todo
        /\ pc \in [Threads -> Labels] /\ w \in Threads
        /\ signal \in [Waiters -> {"kNotSignaled", "kWaiting", "kSignaled"}]
        /\ Waiters \cap Notifiers = {} /\ Waiters \subseteq Threads /\ Notifiers \subseteq Threads
    <3>1. /\ \A u \in Threads \ {w} : pc'[u] = pc[u]
          /\ \A v \in Waiters \ {w} : signal'[v] = signal[v]
          /\ todo' = todo
      BY <1>2, OthersOfWaiter
    <3>2. Waiters \cap Notifiers = {} /\ Waiters \subseteq Threads /\ Notifiers \subseteq Threads
      BY ThreadAssumption DEF Threads
    <3> QED
      BY <3>1, <3>2 DEF WellTyped
  <2>2. /\ pc'[w] \in Committing => signal'[w] = "kNotSignaled"
        /\ pc'[w] = "park.wait" => signal'[w] = "kWaiting"
    <3>1. pc[w] \in Committing => signal[w] = "kNotSignaled"
      BY DEF SignalsOK
    <3> QED
      BY <1>2, <2>1, <3>1
      DEF WaiterActs, Prewait, CommitWait, CancelWait, CommitLoad, CommitNext, CommitCas, Park,
          CancelLoad, CancelCas, SpuriousWakeup, Go, Committing
  <2>3. \A n \in Notifiers : pc'[n] = pc[n]
    BY <2>1
  <2>4. \A v \in Waiters \ {w} : pc'[v] = pc[v]
    BY <2>1
  <2>5. SignalReachesTheSleeper'
    BY <2>1, <2>2, <2>3, <2>4 DEF SignalsOK, SignalReachesTheSleeper
  <2> QED
    BY <2>1, <2>2, <2>4, <2>5 DEF SignalsOK
<1>3. ASSUME NEW n \in Notifiers, NotifierActs(n)
      PROVE  SignalsOK'
  <2>1. /\ \A w \in Waiters : pc'[w] = pc[w] \/ (pc[w] = "park.wait" /\ pc'[w] = "park.lock" /\ UnparkCv(n))
        /\ \A m \in Notifiers \ {n} : pc'[m] = pc[m] /\ todo'[m] = todo[m]
        /\ \A v \in Waiters : signal'[v] = signal[v] \/ (UnparkSignal(n) /\ v = todo[n].wake)
        /\ pc \in [Threads -> Labels] /\ n \in Threads
        /\ signal \in [Waiters -> {"kNotSignaled", "kWaiting", "kSignaled"}]
        /\ Waiters \cap Notifiers = {} /\ Waiters \subseteq Threads /\ Notifiers \subseteq Threads
    BY <1>3, OthersOfNotifier, ThreadAssumption DEF WellTyped, Threads
  <2>2. UnparkSignal(n) => todo[n].wake \in Waiters /\ Waits(todo[n].wake)
    <3>1. SUFFICES ASSUME UnparkSignal(n)
                   PROVE  todo[n].wake \in Waiters /\ Waits(todo[n].wake)
      OBVIOUS
    <3>2. PICK w \in Waiters : w = todo[n].wake /\ Signalled(n, w)
      BY <3>1, SignalLists
    <3>3. n \in Places /\ w \in Held(n)
      BY <3>2 DEF Signalled, Places
    <3> QED
      BY <3>2, <3>3, HeldOnce
  <2>3. UnparkSignal(n) /\ signal[todo[n].wake] = "kWaiting" => pc'[n] = "unpark.cv" /\ todo' = todo
    BY <2>1, <2>2 DEF UnparkSignal, Go
  <2>4. \A w \in Waiters : pc'[w] \in Committing => signal'[w] = "kNotSignaled"
    BY <2>1, <2>2 DEF SignalsOK, Waits, Sleeping, Committing
  <2>5. \A w \in Waiters : pc'[w] = "park.wait" => signal'[w] # "kNotSignaled"
    <3> TAKE w \in Waiters
    <3>1. pc'[w] = "park.wait" => pc[w] = "park.wait"
      BY <2>1
    <3>2. pc[w] = "park.wait" => signal[w] # "kNotSignaled"
      BY DEF SignalsOK
    <3>3. UnparkSignal(n) => signal'[todo[n].wake] = "kSignaled"
      BY <2>1, <2>2 DEF UnparkSignal
    <3> QED
      BY <2>1, <3>1, <3>2, <3>3
  <2>6. \A w \in Waiters : pc'[w] = "park.wait" /\ signal'[w] = "kSignaled" =>
          \E m \in Notifiers : pc'[m] = "unpark.cv" /\ todo'[m].wake = w
    <3>1. SUFFICES ASSUME NEW w \in Waiters, pc'[w] = "park.wait", signal'[w] = "kSignaled"
                   PROVE  \E m \in Notifiers : pc'[m] = "unpark.cv" /\ todo'[m].wake = w
      OBVIOUS
    <3>2. pc[w] = "park.wait" /\ signal[w] # "kNotSignaled"
      BY <2>1, <3>1 DEF SignalsOK
    <3>3. CASE signal[w] = "kSignaled"
      <4>1. PICK m \in Notifiers : pc[m] = "unpark.cv" /\ todo[m].wake = w
        BY <3>2, <3>3 DEF SignalsOK, SignalReachesTheSleeper
      <4>2. m # n
        <5>1. SUFFICES ASSUME m = n PROVE FALSE
          OBVIOUS
        <5>2. UnparkCv(n)
          BY <1>3, <4>1, <5>1
          DEF NotifierActs, NotifyLoad, NotifyNext, NotifyCas, NotifyClear, UnparkNext, UnparkSignal
        <5>3. pc'[w] = "park.lock"
          BY <2>1, <3>2, <4>1, <5>1, <5>2 DEF UnparkCv
        <5> QED
          BY <3>1, <5>3
      <4> QED
        BY <2>1, <4>1, <4>2
    <3>4. CASE signal[w] = "kWaiting"
      <4>1. UnparkSignal(n) /\ w = todo[n].wake
        BY <2>1, <3>1, <3>4
      <4> QED
        BY <2>3, <3>4, <4>1
    <3>5. signal[w] \in {"kNotSignaled", "kWaiting", "kSignaled"}
      BY <2>1
    <3> QED
      BY <3>2, <3>3, <3>4, <3>5
  <2> QED
    BY <2>4, <2>5, <2>6 DEF SignalsOK, SignalReachesTheSleeper
<1> QED
  BY <1>1, <1>2, <1>3, Actors

-----------------------------------------------------------------------------
(* What the loops have read *)

(* The tickets in the order of the word: no step takes one back *)
LEMMA CountGrows ==
  ASSUME WellTyped, WellTyped', TicketsOK, ChainsOK, SeenOK, [Next]_vars
  PROVE  /\ Count(state) \in Int /\ Count(state') \in Int /\ Count(state') >= Count(state)
         /\ \A w \in Waiters : Prewait(w) \/ Ticket(w)' = Ticket(w)
<1>1. /\ EpochMod \in Nat \ {0} /\ state.epoch \in Int /\ state'.epoch \in Int
  BY EpochsAre DEF WellTyped, Words
<1>2. Count(state) \in Int /\ Count(state') \in Int
  BY <1>1 DEF Count
<1>3. CASE Serves
  BY <1>2, <1>3 DEF Serves, Ticket
<1>4. ASSUME NEW w \in Waiters, Prewait(w), Count(state') = Count(state)
      PROVE  /\ Count(state') >= Count(state)
             /\ \A v \in Waiters : v # w => Ticket(v)' = Ticket(v)
  <2>1. \A v \in Waiters : v # w => turn'[v] = turn[v]
    BY <1>4 DEF Prewait, WellTyped
  <2> QED
    BY <1>2, <1>4, <2>1 DEF Ticket
<1> QED
  BY <1>2, <1>3, <1>4, TicketNext

(* A pointer of somebody on the stack changes only when it gets there. *)
LEMMA StackPointers ==
  ASSUME WellTyped, WellTyped', TicketsOK, ChainsOK, LinesOK, SignalsOK, SeenOK, [Next]_vars
  PROVE  /\ \A v \in Held(Nobody) : v \in Waiters /\ next'[v] = next[v]
         /\ Count(state') = Count(state) => Held(Nobody)' \subseteq Held(Nobody)
<1>1. IsChain(Stack, state.top, next)
  BY DEF ChainsOK
<1>2. Held(Nobody) \subseteq Waiters
  BY <1>1, HeldIs, MembersAreWaiters
<1>3. Nobody \in Places /\ Notifiers \subseteq Places /\ Nobody \notin Notifiers
  BY WidthIsNat DEF Places
<1>4. ASSUME NEW w \in Waiters, WaiterActs(w), NEW v \in Held(Nobody)
      PROVE  next'[v] = next[v]
  <2>1. pc[v] \in Sleeping
    BY <1>2, <1>3, HeldOnce DEF Waits
  <2>2. pc[v] # "commit.next"
    BY <2>1 DEF Sleeping
  <2> QED
    BY <1>2, <1>4, <2>2, OthersOfWaiter
<1>5. ASSUME NEW n \in Notifiers, NotifierActs(n), NEW v \in Held(Nobody)
      PROVE  next'[v] = next[v]
  <2>1. CASE NotifyClear(n) /\ v = todo[n].wake
    <3>1. List(n) = <<v>>
      BY <2>1 DEF NotifyClear, List
    <3>2. v \in Members(List(n))
      BY <3>1 DEF Members
    <3>3. v \in Held(n)
      BY <3>2, HeldIs
    <3> QED
      BY <1>3, <3>3, HeldOnce
  <2> QED
    BY <1>2, <1>5, <2>1, OthersOfNotifier
<1>6. UNCHANGED vars => next' = next
  BY DEF vars
<1>7. \A v \in Held(Nobody) : v \in Waiters /\ next'[v] = next[v]
  BY <1>2, <1>4, <1>5, <1>6, Actors
<1>8. Count(state') = Count(state) => Held(Nobody)' \subseteq Held(Nobody)
  <2>1. CASE Quiet
    BY <1>3, <2>1 DEF Quiet
  <2>2. ASSUME NEW n \in Notifiers, Taken(n)
        PROVE  Held(Nobody)' \subseteq Held(Nobody)
    BY <2>2 DEF Taken
  <2>3. ASSUME NEW n \in Notifiers, NEW w \in Waiters, Signalled(n, w)
        PROVE  Held(Nobody)' \subseteq Held(Nobody)
    BY <1>3, <2>3 DEF Signalled
  <2>4. ASSUME NEW w \in Waiters, CommitCas(w), state = seen[w]
        PROVE  Count(state') # Count(state)
    <3>1. /\ state \in Words /\ Count(state) + state.waiters = waits /\ waits \in 0..MaxWaits
          /\ MaxWaits \in Int
      BY EpochsAre DEF WellTyped, TicketsOK
    <3>2. state.waiters > 0 /\ Count(state) \in Int
      <4>1. pc[w] = "commit.cas"
        BY <2>4 DEF CommitCas
      <4>2. Count(state) = Ticket(w) /\ pc[w] \in Deciding
        BY <2>4, <4>1 DEF SeenOK, Loaded, Deciding
      <4> QED
        BY <4>2, Turns
    <3>3. Count(Decided(state)) = Count(state) + 1
      BY <3>1, <3>2, WordDecided
    <3>4. state'.epoch = Decided(state).epoch
      BY <2>4, <3>1 DEF CommitCas, Decided, Words
    <3> QED
      BY <3>2, <3>3, <3>4 DEF Count
  <2> QED
    BY <2>1, <2>2, <2>3, <2>4, ListsNext
<1> QED
  BY <1>7, <1>8

SeenByWaiter(w) ==
  /\ pc[w] \in Loaded => Count(seen[w]) = Ticket(w)
  /\ pc[w] = "commit.cas" => next[w] = seen[w].top

SeenByNotifier(n) ==
  /\ pc[n] \in {"notify.next", "notify.cas"} =>
       Count(seen[n]) <= Count(state) /\ ~(Empty(seen[n]) /\ seen[n].waiters = 0)
  /\ pc[n] = "notify.next" => ~todo[n].all /\ seen[n].waiters = 0
  /\ pc[n] = "notify.cas" /\ ~todo[n].all /\ seen[n].waiters = 0
       /\ Count(seen[n]) = Count(state) /\ seen[n].top \in Held(Nobody) =>
     todo[n].below = next[seen[n].top]

(* What was read, thread by thread, in this state *)
LEMMA SeenNow ==
  SeenOK <=> /\ \A w \in Waiters : SeenByWaiter(w)
             /\ \A n \in Notifiers : SeenByNotifier(n)
  BY HeldIs DEF SeenOK, SeenByWaiter, SeenByNotifier

(* and in the next *)
LEMMA SeenThen ==
  SeenOK' <=> /\ \A w \in Waiters : SeenByWaiter(w)'
              /\ \A n \in Notifiers : SeenByNotifier(n)'
<1>1. Held(Nobody)' = Members(Stack)'
  BY HeldIs DEF Members
<1> QED
  BY <1>1 DEF SeenOK, SeenByWaiter, SeenByNotifier

(* Who stands still keeps what it read. *)
LEMMA WaiterSeesOn ==
  ASSUME NEW w \in Waiters, SeenByWaiter(w), pc'[w] = pc[w], seen'[w] = seen[w],
         pc[w] \in Loaded => Ticket(w)' = Ticket(w), pc[w] = "commit.cas" => next'[w] = next[w]
  PROVE  SeenByWaiter(w)'
  BY DEF SeenByWaiter, Count, Ticket

(* What a notifier read stays good as long as the word has not moved on. *)
LEMMA NotifierSeesOn ==
  ASSUME NEW n \in Notifiers, SeenByNotifier(n), pc'[n] = pc[n], seen'[n] = seen[n], todo'[n] = todo[n],
         Count(seen[n]) \in Int,
         Count(state) \in Int, Count(state') \in Int, Count(state') >= Count(state),
         \A v \in Held(Nobody) : next'[v] = next[v],
         Count(state') = Count(state) => Held(Nobody)' \subseteq Held(Nobody)
  PROVE  SeenByNotifier(n)'
<1>1. Count(seen[n])' = Count(seen[n]) /\ Count(state)' = Count(state') /\ Empty(seen[n])' = Empty(seen[n])
  BY DEF Count, Empty
<1> DEFINE ready == pc[n] \in {"notify.next", "notify.cas"}
<1>2. ready => Count(seen[n]) <= Count(state) /\ ~(Empty(seen[n]) /\ seen[n].waiters = 0)
  BY DEF SeenByNotifier
<1>3. ready => Count(seen[n]) <= Count(state') /\ ~(Empty(seen[n]) /\ seen[n].waiters = 0)
  BY <1>2
<1>4. pc[n] = "notify.next" => ~todo[n].all /\ seen[n].waiters = 0
  BY DEF SeenByNotifier
<1>5. ASSUME pc[n] = "notify.cas", ~todo[n].all, seen[n].waiters = 0,
             Count(seen[n]) = Count(state'), seen[n].top \in Held(Nobody)'
      PROVE  todo[n].below = next'[seen[n].top]
  <2>1. Count(seen[n]) = Count(state) /\ Count(state') = Count(state)
    BY <1>2, <1>5
  <2>2. seen[n].top \in Held(Nobody)
    BY <1>5, <2>1
  <2>3. todo[n].below = next[seen[n].top]
    BY <1>5, <2>1, <2>2 DEF SeenByNotifier
  <2> QED
    BY <2>2, <2>3
<1> QED
  BY <1>1, <1>3, <1>4, <1>5 DEF SeenByNotifier

(* What was read, after each step *)
LEMMA SeenNext ==
  ASSUME WellTyped, WellTyped', TicketsOK, ChainsOK, LinesOK, SignalsOK, SeenOK, [Next]_vars
  PROVE  SeenOK'
<1>1. /\ Waiters \cap Notifiers = {} /\ Waiters \subseteq Threads /\ Notifiers \subseteq Threads
  BY ThreadAssumption DEF Threads
<1>2. /\ pc \in [Threads -> Labels] /\ seen \in [Threads -> Words] /\ todo \in [Notifiers -> Todos]
      /\ next \in [Waiters -> Waiters \cup {Nobody}] /\ state \in Words
  BY DEF WellTyped
<1>3. \A t \in Threads : Count(seen[t]) \in Int
  <2>1. EpochMod \in Nat \ {0} /\ \A t \in Threads : seen[t].epoch \in Int
    BY <1>2, EpochsAre DEF Words
  <2> QED
    BY <2>1 DEF Count
<1>4. (\A w \in Waiters : SeenByWaiter(w)) /\ (\A n \in Notifiers : SeenByNotifier(n))
  BY SeenNow
<1>5. /\ Count(state) \in Int /\ Count(state') \in Int /\ Count(state') >= Count(state)
      /\ \A w \in Waiters : Prewait(w) \/ Ticket(w)' = Ticket(w)
      /\ \A v \in Held(Nobody) : next'[v] = next[v]
      /\ Count(state') = Count(state) => Held(Nobody)' \subseteq Held(Nobody)
  BY CountGrows, StackPointers
<1>6. \A n \in Notifiers : pc'[n] = pc[n] /\ seen'[n] = seen[n] /\ todo'[n] = todo[n] => SeenByNotifier(n)'
  <2> TAKE n \in Notifiers
  <2>1. Count(seen[n]) \in Int
    BY <1>1, <1>3
  <2> QED
    BY <1>4, <1>5, <2>1, NotifierSeesOn
<1>7. CASE UNCHANGED vars
  <2>1. pc' = pc /\ seen' = seen /\ todo' = todo /\ next' = next /\ turn' = turn
    BY <1>7 DEF vars
  <2>2. \A w \in Waiters : SeenByWaiter(w)'
    BY <1>4, <2>1, WaiterSeesOn DEF Ticket
  <2>3. \A n \in Notifiers : SeenByNotifier(n)'
    BY <1>6, <2>1
  <2> QED
    BY <2>2, <2>3, SeenThen
<1>8. ASSUME NEW w \in Waiters, WaiterActs(w)
      PROVE  SeenOK'
  <2>1. /\ \A u \in Threads \ {w} : pc'[u] = pc[u] /\ seen'[u] = seen[u]
        /\ \A v \in Waiters \ {w} : next'[v] = next[v]
        /\ todo' = todo
    BY <1>8, OthersOfWaiter
  <2>2. \A n \in Notifiers : SeenByNotifier(n)'
    BY <1>1, <1>6, <2>1
  <2>3. \A v \in Waiters \ {w} : SeenByWaiter(v)'
    <3> TAKE v \in Waiters \ {w}
    <3>1. v \in Threads \ {w}
      BY <1>1
    <3>2. pc[v] \in Loaded => ~Prewait(v)
      BY DEF Prewait, Loaded
    <3>3. v \in Waiters /\ SeenByWaiter(v) /\ (pc[v] \in Loaded => Ticket(v)' = Ticket(v))
      BY <1>4, <1>5, <3>2
    <3> QED
      BY <2>1, <3>1, <3>3, WaiterSeesOn
  <2>4. w \in Threads /\ Ticket(w)' = (turn'[w] + 1) % EpochMod
    BY <1>1 DEF Ticket
  <2>5. SeenByWaiter(w)'
    <3>1. CASE CommitLoad(w) \/ CancelLoad(w)
      <4>1. CASE pc'[w] \in Loaded
        <5>1. pc[w] \in Deciding /\ seen'[w] = state /\ OnTurn(state, w) /\ pc'[w] # "commit.cas"
          BY <1>2, <2>4, <3>1, <4>1 DEF CommitLoad, CancelLoad, Loaded, Go, Deciding
        <5>2. Count(state) = Ticket(w)
          BY <5>1, Turns
        <5>3. Count(seen[w])' = Count(state) /\ Ticket(w)' = Ticket(w)
          BY <3>1, <5>1 DEF Count, Ticket, CommitLoad, CancelLoad
        <5> QED
          BY <5>1, <5>2, <5>3 DEF SeenByWaiter
      <4>2. CASE pc'[w] \notin Loaded
        BY <4>2 DEF SeenByWaiter, Loaded
      <4> QED
        BY <4>1, <4>2
    <3>2. CASE CommitNext(w)
      <4>1. pc[w] \in Loaded /\ pc'[w] = "commit.cas" /\ seen' = seen /\ turn' = turn /\ next'[w] = seen[w].top
        BY <1>2, <2>4, <3>2 DEF CommitNext, Loaded, Go
      <4>2. Count(seen[w]) = Ticket(w)
        BY <1>4, <4>1 DEF SeenByWaiter
      <4>3. Count(seen[w])' = Count(seen[w]) /\ Ticket(w)' = Ticket(w)
        BY <4>1 DEF Count, Ticket
      <4> QED
        BY <4>1, <4>2, <4>3 DEF SeenByWaiter
    <3>3. CASE Prewait(w) \/ CommitWait(w) \/ CancelWait(w) \/ CommitCas(w) \/ Park(w) \/ CancelCas(w)
                 \/ SpuriousWakeup(w)
      <4>1. pc'[w] \notin Loaded
        BY <1>2, <2>4, <3>3
        DEF Prewait, CommitWait, CancelWait, CommitCas, Park, CancelCas, SpuriousWakeup, Go, Loaded
      <4> QED
        BY <4>1 DEF SeenByWaiter, Loaded
    <3> QED
      BY <1>8, <3>1, <3>2, <3>3 DEF WaiterActs
  <2> QED
    BY <2>2, <2>3, <2>5, SeenThen
<1>9. ASSUME NEW n \in Notifiers, NotifierActs(n)
      PROVE  SeenOK'
  <2>1. /\ \A w \in Waiters : pc'[w] = pc[w] \/ (pc[w] = "park.wait" /\ pc'[w] = "park.lock")
        /\ \A u \in Threads \ {n} : seen'[u] = seen[u]
        /\ \A m \in Notifiers \ {n} : pc'[m] = pc[m] /\ todo'[m] = todo[m]
        /\ \A v \in Waiters : next'[v] = next[v] \/ (NotifyClear(n) /\ v = todo[n].wake)
        /\ turn' = turn
    BY <1>9, OthersOfNotifier
  <2>2. \A w \in Waiters : SeenByWaiter(w)'
    <3> TAKE w \in Waiters
    <3>1. w \in Threads \ {n} /\ Ticket(w)' = Ticket(w) /\ seen'[w] = seen[w]
      BY <1>1, <2>1 DEF Ticket
    <3>2. CASE pc'[w] # pc[w]
      <4>1. pc'[w] = "park.lock"
        BY <2>1, <3>2
      <4> QED
        BY <4>1 DEF SeenByWaiter, Loaded
    <3>3. CASE pc'[w] = pc[w]
      <4>1. pc[w] = "commit.cas" => next'[w] = next[w]
        <5>1. SUFFICES ASSUME pc[w] = "commit.cas", NotifyClear(n), w = todo[n].wake
                       PROVE  FALSE
          BY <2>1
        <5>2. List(n) = <<w>>
          BY <5>1 DEF NotifyClear, List
        <5>3. w \in Members(List(n))
          BY <5>2 DEF Members
        <5>4. w \in Held(n) /\ n \in Places
          BY <5>3, HeldIs DEF Places
        <5>5. pc[w] \in Sleeping
          BY <5>4, HeldOnce DEF Waits
        <5> QED
          BY <5>1, <5>5 DEF Sleeping
      <4> QED
        BY <1>4, <3>1, <3>3, <4>1, WaiterSeesOn
    <3> QED
      BY <3>2, <3>3
  <2>3. \A m \in Notifiers \ {n} : SeenByNotifier(m)'
    BY <1>1, <1>6, <2>1
  <2>4. n \in Threads /\ todo[n] \in Todos
    BY <1>1, <1>2
  <2>5. SeenByNotifier(n)'
    <3>1. ASSUME NEW all \in BOOLEAN, NotifyLoad(n, all)
          PROVE  SeenByNotifier(n)'
      <4>1. CASE Empty(state) /\ state.waiters = 0
        <5>1. pc'[n] = "idle"
          BY <1>2, <2>4, <3>1, <4>1 DEF NotifyLoad, Go
        <5> QED
          BY <5>1 DEF SeenByNotifier
      <4>2. CASE ~(Empty(state) /\ state.waiters = 0)
        <5>1. /\ seen'[n] = state /\ state' = state /\ todo'[n].all = all
              /\ pc'[n] = IF ~all /\ state.waiters = 0 THEN "notify.next" ELSE "notify.cas"
          BY <1>2, <2>4, <3>1, <4>2 DEF NotifyLoad, Go, Todos
        <5>2. /\ Count(seen[n])' = Count(state) /\ Count(state)' = Count(state)
              /\ Empty(seen[n])' <=> Empty(state)
          BY <5>1 DEF Count, Empty
        <5> QED
          BY <1>5, <4>2, <5>1, <5>2 DEF SeenByNotifier
      <4> QED
        BY <4>1, <4>2
    <3>2. CASE NotifyNext(n)
      <4>1. /\ pc[n] = "notify.next" /\ pc'[n] = "notify.cas" /\ seen' = seen /\ state' = state /\ next' = next
            /\ todo'[n].below = next[seen[n].top] /\ todo'[n].all = todo[n].all
        BY <1>2, <2>4, <3>2 DEF NotifyNext, Go, Todos
      <4>2. Count(seen[n]) <= Count(state) /\ ~(Empty(seen[n]) /\ seen[n].waiters = 0)
        BY <1>4, <4>1 DEF SeenByNotifier
      <4>3. /\ Count(seen[n])' = Count(seen[n]) /\ Count(state)' = Count(state)
            /\ Empty(seen[n])' <=> Empty(seen[n])
        BY <4>1 DEF Count, Empty
      <4> QED
        BY <4>1, <4>2, <4>3 DEF SeenByNotifier
    <3>3. CASE NotifyCas(n) \/ NotifyClear(n) \/ UnparkNext(n) \/ UnparkSignal(n) \/ UnparkCv(n)
      <4>1. pc'[n] \notin {"notify.next", "notify.cas"}
        <5>1. UnparkCv(n) => todo[n].wake # n
          <6>1. UnparkCv(n) => todo[n].wake # Nobody
            BY DEF UnparkCv, ChainsOK
          <6> QED
            BY <1>1, <2>4, <6>1 DEF Todos
        <5> QED
          BY <1>2, <2>4, <3>3, <5>1 DEF NotifyCas, NotifyClear, UnparkNext, UnparkSignal, UnparkCv, Go
      <4> QED
        BY <4>1 DEF SeenByNotifier
    <3> QED
      BY <1>9, <3>1, <3>2, <3>3 DEF NotifierActs
  <2> QED
    BY <2>2, <2>3, <2>5, SeenThen
<1> QED
  BY <1>7, <1>8, <1>9, Actors

-----------------------------------------------------------------------------
(* The announced waiters are as many as the word says. *)

Place(w) == (turn[w] - state.epoch) % EpochMod

(* How far apart two epochs are *)
LEMMA PlaceIs ==
  ASSUME NEW e \in 0..(EpochMod - 1), NEW f \in 0..(EpochMod - 1), Nth(e) <= Nth(f), Nth(f) <= MaxWaits
  PROVE  (f - e) % EpochMod = Nth(f) - Nth(e)
<1>1. /\ EpochMod \in Nat \ {0} /\ MaxWaits \in Nat /\ 2 * MaxWaits + 1 < EpochMod
      /\ Nth(e) \in 0..(EpochMod - 1) /\ Nth(f) \in 0..(EpochMod - 1)
      /\ e \in Int /\ f \in Int
  BY EpochsAre, NthIs
<1>2. PICK k : k = Nth(f) - Nth(e)
  OBVIOUS
<1>3. k \in Nat /\ k <= MaxWaits /\ Nth(e) + k = Nth(f) /\ Nth(e) + k <= MaxWaits
  BY <1>1, <1>2
<1>4. (e + k) % EpochMod \in 0..(EpochMod - 1) /\ Nth((e + k) % EpochMod) = Nth(f)
  BY <1>3, Advance
<1>5. (e + k) % EpochMod = f
  BY <1>3, <1>4, Compare
<1>6. e + k \in Int /\ e + k \in 0..(2 * EpochMod - 1)
  BY <1>1, <1>3
<1>7. f = e + k \/ f = e + k - EpochMod
  <2>1. PICK x : x = e + k
    OBVIOUS
  <2>2. x \in Int /\ (x \in 0..(EpochMod - 1) \/ x \in EpochMod..(2 * EpochMod - 1))
    BY <1>1, <1>6, <2>1
  <2>3. x % EpochMod = x \/ x % EpochMod = x - EpochMod
    BY <2>2, Wraps
  <2>4. x % EpochMod = f
    BY <1>5, <2>1
  <2>5. f = x \/ f = x - EpochMod
    BY <2>3, <2>4, Zenon
  <2> QED
    BY <1>1, <1>3, <1>6, <2>1, <2>5
<1>8. f - e \in Int /\ k \in 0..(EpochMod - 1)
  BY <1>1, <1>3
<1>9. CASE f = e + k
  BY <1>1, <1>2, <1>8, <1>9, Wraps
<1>10. CASE f = e + k - EpochMod
  <2>1. f - e \in (-EpochMod)..(-1) /\ f - e + EpochMod = k
    BY <1>1, <1>8, <1>10
  <2> QED
    BY <1>2, <1>8, <2>1, Wraps
<1> QED
  BY <1>7, <1>9, <1>10

(* The undecided waiters have the places from 0 on, one each. *)
LEMMA Announced ==
  ASSUME WellTyped, TicketsOK
  PROVE  /\ Undecided = {w \in Waiters : pc[w] \in Deciding /\ Ticket(w) >= Count(state)}
         /\ \A w \in Undecided : Place(w) = Ticket(w) - Count(state)
         /\ \A w, v \in Undecided : Place(w) = Place(v) => w = v
         /\ \A k \in 0..(state.waiters - 1) : \E w \in Undecided : Place(w) = k
         /\ \A w \in Undecided : Place(w) \in 0..(state.waiters - 1)
<1>1. /\ Count(state) \in 0..MaxWaits /\ waits \in 0..MaxWaits /\ MaxWaits \in Nat /\ state.waiters \in Nat
      /\ Count(state) + state.waiters = waits
  BY Turns, EpochsAre DEF WellTyped, TicketsOK, Words
<1>2. \A w \in Waiters : pc[w] \in Deciding =>
        /\ Ticket(w) \in 0..MaxWaits /\ Ticket(w) < waits
        /\ Ahead(state, w) <=> Count(state) > Ticket(w)
  BY Turns DEF TicketsOK
<1>3. Undecided = {w \in Waiters : pc[w] \in Deciding /\ Ticket(w) >= Count(state)}
  <2>1. \A w \in Waiters : w \in Undecided <=> pc[w] \in Deciding /\ Ticket(w) >= Count(state)
    <3>1. \A w \in Waiters : w \in Undecided <=> pc[w] \in Deciding /\ ~Ahead(state, w)
      BY DEF Undecided, Deciding
    <3> QED
      BY <1>1, <1>2, <3>1
  <2>2. Undecided \subseteq Waiters
    BY DEF Undecided
  <2> QED
    BY <2>1, <2>2
<1>4. ASSUME NEW w \in Undecided
      PROVE  Place(w) = Ticket(w) - Count(state) /\ Place(w) \in 0..(state.waiters - 1)
  <2>1. w \in Waiters /\ pc[w] \in Deciding /\ Ticket(w) >= Count(state)
    BY <1>3
  <2>2. state.epoch \in 0..(EpochMod - 1) /\ turn[w] \in 0..(EpochMod - 1)
    BY <2>1 DEF WellTyped, Words
  <2>3. Place(w) = Ticket(w) - Count(state)
    <3>1. Nth(state.epoch) = Count(state) /\ Nth(turn[w]) = Ticket(w)
      BY CountIsNth, TicketIsNth
    <3>2. Nth(state.epoch) <= Nth(turn[w]) /\ Nth(turn[w]) <= MaxWaits
      BY <1>1, <1>2, <2>1, <3>1
    <3> QED
      BY <2>2, <3>1, <3>2, PlaceIs DEF Place
  <2> QED
    BY <1>1, <1>2, <2>1, <2>3
<1>5. \A w, v \in Undecided : Place(w) = Place(v) => w = v
  <2> TAKE w, v \in Undecided
  <2> HAVE Place(w) = Place(v)
  <2>1. /\ w \in Waiters /\ pc[w] \in Deciding /\ v \in Waiters /\ pc[v] \in Deciding
    BY <1>3
  <2>2. Ticket(w) = Ticket(v)
    <3>1. Ticket(w) \in Int /\ Ticket(v) \in Int
      BY <1>2, <2>1
    <3>2. Ticket(w) - Count(state) = Ticket(v) - Count(state)
      BY <1>4
    <3> QED
      BY <1>1, <3>1, <3>2
  <2> QED
    BY <2>1, <2>2 DEF TicketsOK
<1>6. \A k \in 0..(state.waiters - 1) : \E w \in Undecided : Place(w) = k
  <2> TAKE k \in 0..(state.waiters - 1)
  <2>1. PICK w \in Waiters : pc[w] \in Deciding /\ Ticket(w) = Count(state) + k
    BY <1>1 DEF TicketsOK
  <2>2. w \in Undecided
    BY <1>1, <1>3, <2>1
  <2>3. Place(w) = k
    BY <1>1, <1>4, <2>1, <2>2
  <2> QED
    BY <2>2, <2>3
<1> QED
  BY <1>3, <1>4, <1>5, <1>6

(* So the word's count is their number. *)
LEMMA WaitersAreCounted ==
  ASSUME WellTyped, TicketsOK
  PROVE  /\ state.waiters = Cardinality(Undecided) /\ state.waiters <= Width
         /\ {Place(w) : w \in Undecided} = 0..(state.waiters - 1)
<1> DEFINE S == 0..(state.waiters - 1)
           f == [w \in Undecided |-> Place(w)]
<1>1. state.waiters \in Nat
  BY DEF WellTyped, Words
<1>2. f \in Bijection(Undecided, S)
  <2>1. f \in [Undecided -> S]
    BY Announced
  <2>2. \A x, y \in Undecided : f[x] = f[y] => x = y
    BY Announced
  <2>3. \A k \in S : \E w \in Undecided : f[w] = k
    BY Announced
  <2> QED
    BY <2>1, <2>2, <2>3, Zenon DEF Bijection, Injection, Surjection, IsInjective
<1>3. Undecided \subseteq Waiters /\ IsFiniteSet(Waiters)
  BY WidthIsNat DEF Undecided
<1>4. IsFiniteSet(Undecided) /\ Cardinality(Undecided) <= Width
  BY <1>3, FS_Subset DEF Width
<1>5. IsFiniteSet(S) /\ Cardinality(S) = state.waiters
  <2>1. 0 \in Int /\ state.waiters - 1 \in Int
    BY <1>1
  <2>2. Cardinality(0..(state.waiters - 1)) = IF 0 > state.waiters - 1 THEN 0 ELSE state.waiters - 1 - 0 + 1
    BY <2>1, FS_Interval
  <2>3. IsFiniteSet(0..(state.waiters - 1))
    BY <2>1, FS_Interval
  <2> QED
    BY <1>1, <2>2, <2>3
<1>6. Cardinality(Undecided) = Cardinality(S)
  <2> HIDE DEF S, f
  <2> QED
    BY <1>2, <1>4, FS_Bijection, Zenon DEF ExistsBijection
<1>7. {Place(w) : w \in Undecided} = 0..(state.waiters - 1)
  <2>1. \A k \in {Place(w) : w \in Undecided} : k \in 0..(state.waiters - 1)
    BY Announced
  <2>2. \A k \in 0..(state.waiters - 1) : k \in {Place(w) : w \in Undecided}
    BY Announced
  <2> QED
    BY <2>1, <2>2
<1> QED
  BY <1>4, <1>5, <1>6, <1>7

(* A word read earlier counts no more than there are. *)
LEMMA CountersNext ==
  ASSUME WellTyped, WellTyped', TicketsOK, ChainsOK, CountersFit, [Next]_vars
  PROVE  CountersFit'
<1>1. state.waiters <= Width /\ Width \in Nat /\ InitState.waiters = 0
  BY WaitersAreCounted, WidthIsNat DEF InitState
<1>2. seen \in [Threads -> Words] /\ \A t \in Threads : seen[t].waiters <= Width
  BY DEF WellTyped, CountersFit, Width
<1>3. \A t \in Threads : seen'[t] = seen[t] \/ seen'[t] = state \/ seen'[t] = InitState
  <2>1. CASE UNCHANGED vars
    BY <2>1 DEF vars
  <2>2. ASSUME NEW w \in Waiters, WaiterActs(w)
        PROVE  \A t \in Threads : seen'[t] = seen[t] \/ seen'[t] = state \/ seen'[t] = InitState
    BY <1>2, <2>2
    DEF WaiterActs, Prewait, CommitWait, CancelWait, CommitLoad, CommitNext, CommitCas, Park,
        CancelLoad, CancelCas, SpuriousWakeup
  <2>3. ASSUME NEW n \in Notifiers, NotifierActs(n)
        PROVE  \A t \in Threads : seen'[t] = seen[t] \/ seen'[t] = state \/ seen'[t] = InitState
    BY <1>2, <2>3
    DEF NotifierActs, NotifyLoad, NotifyNext, NotifyCas, NotifyClear, UnparkNext, UnparkSignal, UnparkCv
  <2> QED
    BY <2>1, <2>2, <2>3, Actors
<1>4. \A t \in Threads : seen'[t].waiters <= Width
  BY <1>1, <1>2, <1>3
<1> QED
  BY <1>4 DEF CountersFit, Width

(* The inductive invariant holds in every behaviour of the event count. *)
THEOREM EventCountInvariant == Spec => []EventCountInv
<1>1. Init => EventCountInv
  BY ListsInit DEF EventCountInv
<1>2. EventCountInv /\ [Next]_vars => EventCountInv'
  <2> SUFFICES ASSUME EventCountInv, [Next]_vars
               PROVE  EventCountInv'
    OBVIOUS
  <2> USE DEF EventCountInv
  <2>1. WellTyped'
    BY TypeNext
  <2>2. TicketsOK'
    BY <2>1, TicketNext
  <2>3. ChainsOK' /\ LinesOK'
    BY <2>1, ListsNext
  <2>4. SignalsOK' /\ SeenOK' /\ CountersFit'
    BY <2>1, SignalsNext, SeenNext, CountersNext
  <2> QED
    BY <2>1, <2>2, <2>3, <2>4
<1> QED
  BY <1>1, <1>2, PTL DEF Spec

-----------------------------------------------------------------------------
(* What the invariant means *)

(* Who is about to be woken is on a notifier's list. *)
LEMMA WokenAreHeld ==
  ASSUME NEW w
  PROVE  w \in BeingWoken <=> \E n \in Notifiers : w \in Held(n)
<1>1. ASSUME NEW n \in Notifiers
      PROVE  Members(List(n)) = IF pc[n] = "notify.clear" THEN {todo[n].wake}
                                ELSE IF pc[n] \in {"unpark.next", "unpark.signal"} THEN Members(Chain(todo[n].wake))
                                ELSE IF pc[n] = "unpark.cv" THEN Members(Chain(todo[n].then))
                                ELSE {}
  <2>1. CASE pc[n] = "notify.clear"
    <3>1. List(n) = <<todo[n].wake>>
      BY <2>1 DEF List
    <3>2. Members(List(n)) = {todo[n].wake}
      BY <3>1 DEF Members
    <3> QED
      BY <2>1, <3>2
  <2>2. CASE pc[n] \in {"unpark.next", "unpark.signal", "unpark.cv"}
    BY <2>2 DEF List
  <2>3. CASE pc[n] \notin {"notify.clear", "unpark.next", "unpark.signal", "unpark.cv"}
    <3>1. List(n) = <<>>
      BY <2>3 DEF List
    <3>2. Members(List(n)) = {}
      BY <3>1 DEF Members
    <3> QED
      BY <2>3, <3>2
  <2> QED
    BY <2>1, <2>2, <2>3
<1>2. BeingWoken = UNION {Members(List(n)) : n \in Notifiers}
  BY <1>1 DEF BeingWoken
<1>3. w \in BeingWoken <=> \E n \in Notifiers : w \in Members(List(n))
  BY <1>2
<1> QED
  BY <1>3, HeldIs

(* The property from the invariant *)
LEMMA InvariantImplies == EventCountInv => NobodyIsForgotten
<1> SUFFICES ASSUME EventCountInv
             PROVE  NobodyIsForgotten
  OBVIOUS
<1> USE DEF EventCountInv
<1>1. TypeOK
  <2>1. Width \in Nat /\ state.waiters <= Width /\ state \in Words
    BY WidthIsNat, WaitersAreCounted DEF WellTyped
  <2>2. state \in States
    BY <2>1 DEF Words, States, Width
  <2>3. \A t \in Threads : seen[t] \in Words /\ seen[t].waiters <= Width
    BY DEF WellTyped, CountersFit, Width
  <2>4. \A t \in Threads : seen[t] \in States
    <3> TAKE t \in Threads
    <3>1. seen[t] \in Words /\ seen[t].waiters <= Width
      BY <2>3
    <3> QED
      BY <2>1, <3>1 DEF Words, States, Width
  <2>5. seen \in [Threads -> States]
    BY <2>4 DEF WellTyped
  <2> QED
    BY <2>2, <2>5 DEF WellTyped, TypeOK, Threads, Todos
<1>2. DeciderIsCounted
  BY Turns DEF DeciderIsCounted, Deciding
<1>3. TurnsAreConsecutive
  BY WaitersAreCounted DEF TurnsAreConsecutive, Place
<1>4. Nobody \in Places /\ Notifiers \subseteq Places /\ Nobody \notin Notifiers
  BY WidthIsNat DEF Places
<1>5. StackIsSound
  <2>1. IsChain(Stack, state.top, next)
    BY DEF ChainsOK
  <2>2. Len(Stack) = Cardinality(Members(Stack))
    BY <2>1, ListLength DEF IsChain
  <2>3. \A w \in Members(Stack) : w \in Waiters /\ w \in Held(Nobody)
    BY <2>1, MembersAreWaiters, HeldIs
  <2>4. \A w \in Members(Stack) : Waits(w)
    BY <1>4, <2>3, HeldOnce
  <2> QED
    BY <2>2, <2>4 DEF StackIsSound, Waits, Sleeping
<1>6. SleeperIsReachable
  <2> SUFFICES ASSUME NEW w \in Waiters, pc[w] \in Sleeping
               PROVE  Cardinality({c \in {"stack", "list", "signal"} :
                                     \/ c = "stack" /\ w \in Members(Stack)
                                     \/ c = "list" /\ w \in BeingWoken
                                     \/ c = "signal" /\ signal[w] = "kSignaled"}) = 1
    BY DEF SleeperIsReachable, Sleeping
  <2> DEFINE where == {c \in {"stack", "list", "signal"} :
                         \/ c = "stack" /\ w \in Members(Stack)
                         \/ c = "list" /\ w \in BeingWoken
                         \/ c = "signal" /\ signal[w] = "kSignaled"}
  <2>1. /\ w \in Members(Stack) <=> w \in Held(Nobody)
        /\ w \in BeingWoken <=> \E n \in Notifiers : w \in Held(n)
    BY HeldIs, WokenAreHeld
  <2>2. signal[w] # "kSignaled" <=> \E x \in Places : w \in Held(x)
    BY HeldOnce DEF Waits
  <2>3. (\E x \in Places : w \in Held(x)) <=> w \in Members(Stack) \/ w \in BeingWoken
    BY <1>4, <2>1 DEF Places
  <2>4. ~(w \in Members(Stack) /\ w \in BeingWoken)
    BY <1>4, <2>1, HeldOnce
  <2>5. CASE w \in Members(Stack)
    <3>1. where = {"stack"}
      BY <2>2, <2>3, <2>4, <2>5
    <3> QED
      BY <3>1, FS_Singleton
  <2>6. CASE w \in BeingWoken
    <3>1. where = {"list"}
      BY <2>2, <2>3, <2>4, <2>6
    <3> QED
      BY <3>1, FS_Singleton
  <2>7. CASE signal[w] = "kSignaled"
    <3>1. where = {"signal"}
      BY <2>2, <2>3, <2>7
    <3> QED
      BY <3>1, FS_Singleton
  <2> QED
    BY <2>2, <2>3, <2>5, <2>6, <2>7
<1> QED
  BY <1>1, <1>2, <1>3, <1>5, <1>6 DEF NobodyIsForgotten, SignalsOK

(* The word, the stack and the signals agree about every waiter: who is to *)
(* decide is counted, the turns are consecutive, the stack is a list of    *)
(* sleepers, and every sleeper is in exactly one place where it is found.  *)
THEOREM EventCountForgetsNobody == Spec => []NobodyIsForgotten
  BY EventCountInvariant, InvariantImplies, PTL

-----------------------------------------------------------------------------
(* The queue of announced waiters is their order of tickets *)

OrderOK ==
  /\ InOrder \in Seq(Waiters) /\ Len(InOrder) = state.waiters
  /\ state.waiters \in Nat /\ Count(state) \in Int /\ Undecided \subseteq Waiters
  /\ \A w \in Waiters : w \in Undecided <=> pc[w] \in Deciding /\ Ticket(w) >= Count(state)
  /\ \A w \in Waiters : Ticket(w) \in Int
  /\ \A w, v \in Undecided : Ticket(w) = Ticket(v) => w = v
  /\ \A i \in 1..state.waiters : \E w \in Undecided : InOrder[i] = w /\ Ticket(w) = Count(state) + i - 1
  /\ \A w \in Undecided : \E i \in 1..state.waiters : InOrder[i] = w

(* The undecided waiters in the order of their tickets *)
LEMMA OrderNow == WellTyped /\ TicketsOK => OrderOK
<1> SUFFICES ASSUME WellTyped, TicketsOK
             PROVE  OrderOK
  OBVIOUS
<1>1. /\ state.waiters \in Nat /\ Count(state) \in Int /\ Undecided \subseteq Waiters
  BY Turns, EpochsAre DEF WellTyped, Words, Undecided
<1>2. state.waiters = Cardinality(Undecided)
  BY WaitersAreCounted
<1>3. \A w \in Waiters : w \in Undecided <=> pc[w] \in Deciding /\ Ticket(w) >= Count(state)
  BY Announced
<1>4. \A w \in Waiters : Ticket(w) \in Int
  <2>1. EpochMod \in Nat \ {0} /\ \A w \in Waiters : turn[w] \in Int
    BY EpochsAre DEF WellTyped
  <2> QED
    BY <2>1 DEF Ticket
<1>5. \A w \in Undecided : Place(w) = Ticket(w) - Count(state)
  BY Announced
<1>6. \A w, v \in Undecided : Ticket(w) = Ticket(v) => w = v
  BY <1>1, <1>3 DEF TicketsOK
<1>7. InOrder = [i \in 1..state.waiters |->
                   IF {w \in Undecided : Place(w) = i - 1} = {} THEN Nobody
                   ELSE CHOOSE w \in {v \in Undecided : Place(v) = i - 1} : TRUE]
  BY <1>2 DEF InOrder, Place
<1>8. ASSUME NEW i \in 1..state.waiters
      PROVE  InOrder[i] \in Undecided /\ Place(InOrder[i]) = i - 1
  <2>1. i - 1 \in 0..(state.waiters - 1)
    BY <1>1
  <2>2. PICK u \in Undecided : Place(u) = i - 1
    BY <2>1, Announced
  <2> DEFINE S == {w \in Undecided : Place(w) = i - 1}
  <2>3. u \in S
    BY <2>2
  <2>4. InOrder[i] = CHOOSE w \in S : TRUE
    BY <1>7, <2>3
  <2>5. InOrder[i] \in S
    <3> HIDE DEF S
    <3> QED
      BY <2>3, <2>4
  <2> QED
    BY <2>5
<1>9. \A i \in 1..state.waiters : \E w \in Undecided : InOrder[i] = w /\ Ticket(w) = Count(state) + i - 1
  <2> TAKE i \in 1..state.waiters
  <2>1. PICK w : w = InOrder[i]
    OBVIOUS
  <2>2. w \in Undecided /\ Place(w) = i - 1
    BY <1>8, <2>1
  <2>3. Ticket(w) - Count(state) = i - 1 /\ Ticket(w) \in Int
    BY <1>1, <1>4, <1>5, <2>2
  <2>4. Ticket(w) = Count(state) + i - 1
    BY <1>1, <2>3
  <2> QED
    BY <2>1, <2>2, <2>4
<1>10. InOrder \in Seq(Waiters) /\ Len(InOrder) = state.waiters
  <2>1. InOrder \in [1..state.waiters -> Waiters]
    BY <1>1, <1>7, <1>8
  <2> QED
    BY <1>1, <2>1
<1>11. \A w \in Undecided : \E i \in 1..state.waiters : InOrder[i] = w
  <2> TAKE w \in Undecided
  <2>1. Place(w) \in 0..(state.waiters - 1)
    BY Announced
  <2>2. PICK i : i = Place(w) + 1
    OBVIOUS
  <2>3. i \in 1..state.waiters /\ i - 1 = Place(w)
    BY <1>1, <2>1, <2>2
  <2>4. InOrder[i] \in Undecided /\ Place(InOrder[i]) = Place(w)
    BY <1>8, <2>3
  <2>5. InOrder[i] = w
    BY <2>4, Announced
  <2> QED
    BY <2>3, <2>5
<1> QED
  BY <1>1, <1>3, <1>4, <1>6, <1>9, <1>10, <1>11 DEF OrderOK

(* The same after a step *)
LEMMA OrderThen == WellTyped' /\ TicketsOK' => OrderOK'
  BY OrderNow, PTL

(* A list of waiters with the tickets from the next to be served on is it. *)
LEMMA OrderBecomes ==
  ASSUME WellTyped', TicketsOK', NEW c \in Seq(Waiters), Len(c) = state'.waiters,
         \A i \in 1..Len(c) : pc'[c[i]] \in Deciding /\ (turn'[c[i]] + 1) % EpochMod = Count(state') + i - 1
  PROVE  InOrder' = c
<1>1. OrderOK'
  BY OrderThen
<1>2. PICK d : d = InOrder'
  OBVIOUS
<1>3. d \in Seq(Waiters) /\ Len(d) = state'.waiters
  BY <1>1, <1>2 DEF OrderOK
<1>4. /\ state'.waiters \in Nat /\ Count(state') \in Int
      /\ \A w \in Waiters : w \in Undecided' <=> pc'[w] \in Deciding /\ Ticket(w)' >= Count(state')
      /\ \A w \in Waiters : Ticket(w)' \in Int
      /\ \A w, v \in Undecided' : Ticket(w)' = Ticket(v)' => w = v
      /\ \A i \in 1..state'.waiters : \E w \in Undecided' : d[i] = w /\ Ticket(w)' = Count(state') + i - 1
  <2>1. Count(state)' = Count(state')
    BY DEF Count
  <2> QED
    BY <1>1, <1>2, <2>1 DEF OrderOK
<1>5. \A i \in 1..Len(c) : c[i] = d[i]
  <2> TAKE i \in 1..Len(c)
  <2>1. PICK v : v = c[i]
    OBVIOUS
  <2>2. v \in Waiters /\ pc'[v] \in Deciding /\ Ticket(v)' = Count(state') + i - 1
    <3>1. Ticket(v)' = (turn'[v] + 1) % EpochMod
      BY DEF Ticket
    <3> QED
      BY <2>1, <3>1
  <2>3. v \in Undecided'
    BY <1>4, <2>2
  <2>4. PICK w \in Undecided' : d[i] = w /\ Ticket(w)' = Count(state') + i - 1
    BY <1>4
  <2>5. w = v
    BY <1>4, <2>2, <2>3, <2>4
  <2> QED
    BY <2>1, <2>4, <2>5
<1>6. c = d
  BY <1>3, <1>5, SeqEqual
<1> QED
  BY <1>2, <1>6

(* Who is undecided, by tickets, in this state and in the next *)
LEMMA UndecidedThen ==
  ASSUME WellTyped, WellTyped', TicketsOK, TicketsOK'
  PROVE  /\ \A w \in Undecided' : w \in Waiters
         /\ \A w \in Waiters : w \in Undecided' <=> pc'[w] \in Deciding /\ Ticket(w)' >= Count(state')
         /\ \A w \in Undecided : w \in Waiters
         /\ \A w \in Waiters : w \in Undecided <=> pc[w] \in Deciding /\ Ticket(w) >= Count(state)
<1>1. OrderOK /\ OrderOK' /\ Count(state)' = Count(state')
  BY OrderNow, OrderThen DEF Count
<1> QED
  BY <1>1 DEF OrderOK

(* The four things a step does to the queue *)
LEMMA OrderKept ==
  ASSUME WellTyped, WellTyped', TicketsOK, TicketsOK', Serves, Count(state') = Count(state)
  PROVE  InOrder' = InOrder /\ Undecided' = Undecided
<1>1. OrderOK
  BY OrderNow
<1>2. /\ turn' = turn /\ state.waiters \in Nat /\ state'.waiters \in Nat /\ Count(state) \in Int
      /\ Count(state') + state'.waiters = waits /\ Count(state) + state.waiters = waits
      /\ \A w \in Waiters : Ticket(w)' = Ticket(w)
      /\ \A w \in Waiters : pc'[w] \in Deciding => pc[w] \in Deciding
      /\ \A w \in Waiters : pc[w] \in Deciding /\ Ticket(w) >= Count(state') => pc'[w] \in Deciding
  BY <1>1 DEF Serves, OrderOK, Ticket, TicketsOK, WellTyped, Words
<1>3. state'.waiters = state.waiters /\ waits \in Int
  BY <1>2
<1>4. Undecided' = Undecided
  <2>1. \A w \in Waiters : w \in Undecided' <=> w \in Undecided
    BY <1>2, UndecidedThen
  <2> QED
    BY <2>1, UndecidedThen
<1>5. PICK c : c = InOrder
  OBVIOUS
<1>6. c \in Seq(Waiters) /\ Len(c) = state'.waiters
  BY <1>1, <1>3, <1>5 DEF OrderOK
<1>7. \A i \in 1..Len(c) : pc'[c[i]] \in Deciding /\ (turn'[c[i]] + 1) % EpochMod = Count(state') + i - 1
  <2> TAKE i \in 1..Len(c)
  <2>1. PICK w \in Undecided : c[i] = w /\ Ticket(w) = Count(state) + i - 1
    BY <1>1, <1>3, <1>5, <1>6 DEF OrderOK
  <2>2. pc'[w] \in Deciding
    BY <1>4, <2>1, UndecidedThen
  <2> QED
    BY <1>2, <2>1, <2>2 DEF Ticket
<1>8. InOrder' = c
  BY <1>6, <1>7, OrderBecomes
<1> QED
  BY <1>4, <1>5, <1>8

(* A decision, or a notification of one, takes the first of the order; *)
LEMMA OrderServed ==
  ASSUME WellTyped, WellTyped', TicketsOK, TicketsOK', Serves, Count(state') = Count(state) + 1
  PROVE  /\ InOrder # <<>> /\ InOrder' = Tail(InOrder) /\ Head(InOrder) \in Undecided
         /\ Undecided' = Undecided \ {Head(InOrder)} /\ Ticket(Head(InOrder)) = Count(state)
<1>1. OrderOK
  BY OrderNow
<1>2. /\ turn' = turn /\ state.waiters \in Nat /\ state'.waiters \in Nat /\ Count(state) \in Int
      /\ Count(state') + state'.waiters = waits /\ Count(state) + state.waiters = waits
      /\ \A w \in Waiters : Ticket(w)' = Ticket(w) /\ Ticket(w) \in Int
      /\ \A w \in Waiters : pc'[w] \in Deciding => pc[w] \in Deciding
      /\ \A w \in Waiters : pc[w] \in Deciding /\ Ticket(w) >= Count(state') => pc'[w] \in Deciding
  BY <1>1 DEF Serves, OrderOK, Ticket, TicketsOK, WellTyped, Words
<1>3. state.waiters = state'.waiters + 1 /\ waits \in Int
  BY <1>2
<1>5. PICK c : c = InOrder
  OBVIOUS
<1>6. c \in Seq(Waiters) /\ Len(c) = state'.waiters + 1 /\ c # <<>>
  BY <1>1, <1>2, <1>3, <1>5 DEF OrderOK
<1>7. PICK h : h = c[1]
  OBVIOUS
<1>8. h \in Undecided /\ Ticket(h) = Count(state) /\ Head(c) = h
  <2>1. 1 \in 1..state.waiters
    BY <1>2, <1>3
  <2>2. PICK w \in Undecided : c[1] = w /\ Ticket(w) = Count(state) + 1 - 1
    BY <1>1, <1>5, <2>1 DEF OrderOK
  <2> QED
    BY <1>2, <1>6, <1>7, <2>2
<1>9. Undecided' = Undecided \ {h}
  <2>1. \A w, v \in Undecided : Ticket(w) = Ticket(v) => w = v
    BY <1>1 DEF OrderOK
  <2>2. \A w \in Undecided : Ticket(w) = Count(state) => w = h
    BY <1>8, <2>1
  <2>3. \A w \in Waiters : w \in Undecided' <=> w \in Undecided /\ w # h
    BY <1>2, <1>8, <2>2, UndecidedThen
  <2> QED
    BY <2>3, UndecidedThen
<1>10. PICK d : d = Tail(c)
  OBVIOUS
<1>11. /\ d \in Seq(Waiters) /\ Len(d) = state'.waiters
       /\ \A i \in 1..Len(d) : d[i] = c[i + 1]
  BY <1>2, <1>6, <1>10
<1>12. \A i \in 1..Len(d) : pc'[d[i]] \in Deciding /\ (turn'[d[i]] + 1) % EpochMod = Count(state') + i - 1
  <2> TAKE i \in 1..Len(d)
  <2>1. i + 1 \in 1..state.waiters /\ i \in Int /\ i > 0
    BY <1>2, <1>3, <1>11
  <2>2. PICK w \in Undecided : c[i + 1] = w /\ Ticket(w) = Count(state) + (i + 1) - 1
    BY <1>1, <1>5, <2>1 DEF OrderOK
  <2>3. w # h /\ Ticket(w) = Count(state') + i - 1
    BY <1>2, <1>8, <2>1, <2>2
  <2>4. pc'[w] \in Deciding
    BY <1>9, <2>2, <2>3, UndecidedThen
  <2>5. d[i] = w
    BY <1>11, <2>2
  <2>6. Ticket(w)' = Ticket(w)
    BY <1>2, <2>2, UndecidedThen
  <2> QED
    BY <2>3, <2>4, <2>5, <2>6 DEF Ticket
<1>13. InOrder' = d
  BY <1>11, <1>12, OrderBecomes
<1> QED
  BY <1>5, <1>6, <1>8, <1>9, <1>10, <1>13

(* a notification of all empties it; *)
LEMMA OrderCleared ==
  ASSUME WellTyped, WellTyped', TicketsOK, TicketsOK', Serves, state'.waiters = 0
  PROVE  InOrder' = <<>> /\ Undecided' = {}
<1>1. OrderOK'
  BY OrderThen
<1>2. /\ InOrder' \in Seq(Waiters) /\ Len(InOrder') = 0
      /\ \A w \in Undecided' : \E i \in 1..state'.waiters : InOrder'[i] = w
  BY <1>1 DEF OrderOK
<1>3. Undecided' = {}
  BY <1>2
<1> QED
  BY <1>2, <1>3

(* and Prewait appends to it. *)
LEMMA OrderTaken ==
  ASSUME WellTyped, WellTyped', TicketsOK, NEW w \in Waiters, Prewait(w)
  PROVE  InOrder' = Append(InOrder, w) /\ Undecided' = Undecided \cup {w} /\ w \notin Undecided
<1>1. OrderOK /\ TicketsOK' /\ Ticket(w)' = waits /\ Count(state') = Count(state)
  BY OrderNow, TicketTaken
<1>2. /\ pc[w] = "idle" /\ pc'[w] = "announced"
      /\ \A v \in Waiters \ {w} : turn'[v] = turn[v] /\ pc'[v] = pc[v]
      /\ state'.waiters = state.waiters + 1 /\ state.waiters \in Nat
      /\ Count(state) + state.waiters = waits /\ Count(state) \in Int
  BY <1>1 DEF WellTyped, TicketsOK, OrderOK, Prewait, Go, Threads, Words
<1>3. \A v \in Waiters \ {w} : Ticket(v)' = Ticket(v)
  BY <1>2 DEF Ticket
<1>4. w \notin Undecided
  BY <1>2, UndecidedThen, <1>1 DEF Deciding
<1>5. Undecided' = Undecided \cup {w}
  <2>1. w \in Undecided'
    BY <1>1, <1>2, UndecidedThen DEF Deciding
  <2>2. \A v \in Waiters \ {w} : v \in Undecided' <=> v \in Undecided
    BY <1>1, <1>2, <1>3, UndecidedThen
  <2> QED
    BY <1>1, <2>1, <2>2, UndecidedThen
<1>6. PICK c : c = InOrder
  OBVIOUS
<1>7. PICK d : d = Append(c, w)
  OBVIOUS
<1>8. c \in Seq(Waiters) /\ Len(c) = state.waiters
  BY <1>1, <1>6 DEF OrderOK
<1>9. /\ d \in Seq(Waiters) /\ Len(d) = state'.waiters
      /\ \A i \in 1..Len(c) : d[i] = c[i]
      /\ d[Len(c) + 1] = w
  BY <1>2, <1>7, <1>8
<1>10. \A i \in 1..Len(d) : pc'[d[i]] \in Deciding /\ (turn'[d[i]] + 1) % EpochMod = Count(state') + i - 1
  <2> TAKE i \in 1..Len(d)
  <2>1. CASE i = Len(c) + 1
    <3>1. d[i] = w /\ Count(state') + i - 1 = waits
      BY <1>1, <1>2, <1>8, <1>9, <2>1
    <3> QED
      BY <1>1, <1>2, <3>1 DEF Ticket, Deciding
  <2>2. CASE i # Len(c) + 1
    <3>1. i \in 1..Len(c) /\ i \in 1..state.waiters
      BY <1>2, <1>8, <1>9, <2>2
    <3>2. PICK v \in Undecided : c[i] = v /\ Ticket(v) = Count(state) + i - 1
      BY <1>1, <1>6, <3>1 DEF OrderOK
    <3>3. v \in Waiters \ {w} /\ pc[v] \in Deciding /\ d[i] = v
      BY <1>1, <1>4, <1>9, <3>1, <3>2, UndecidedThen
    <3>4. Ticket(v)' = Ticket(v) /\ pc'[v] \in Deciding
      BY <1>2, <1>3, <3>3
    <3> QED
      BY <1>1, <3>2, <3>3, <3>4 DEF Ticket
  <2> QED
    BY <2>1, <2>2
<1>11. InOrder' = d
  BY <1>1, <1>9, <1>10, OrderBecomes
<1> QED
  BY <1>4, <1>5, <1>6, <1>7, <1>11

-----------------------------------------------------------------------------
(* The steps of the contract *)

(* Who is free to go, in this state and in the next *)
LEMMA ReleasedIs ==
  /\ \A w : w \in Released <=> w \in Waiters /\ pc[w] # "idle" /\ w \notin Undecided /\ w \notin Held(Nobody)
  /\ \A w : w \in Released' <=> w \in Waiters /\ pc'[w] # "idle" /\ w \notin Undecided' /\ w \notin Held(Nobody)'
<1>1. Held(Nobody)' = Members(Stack)'
  BY HeldIs DEF Members
<1> QED
  BY <1>1, HeldIs DEF Released

(* A step in which no waiter gets in or out *)
LEMMA NothingHappens ==
  ASSUME InOrder' = InOrder, Undecided' = Undecided, Quiet \/ (Stack' = Stack /\ Held(Nobody)' = Held(Nobody)),
         \A w \in Waiters : pc'[w] = "idle" <=> pc[w] = "idle"
  PROVE  UNCHANGED <<InOrder, Stack, Released>>
<1>1. Stack' = Stack /\ Held(Nobody)' = Held(Nobody)
  BY DEF Quiet, Places
<1>2. \A w : w \in Released' <=> w \in Released
  BY <1>1, ReleasedIs
<1>3. Released' \subseteq Waiters /\ Released \subseteq Waiters
  BY ReleasedIs
<1>4. Released' = Released
  BY <1>2, <1>3
<1> QED
  BY <1>1, <1>4

(* Return to "idle" is the contract's EcLeave. *)
LEMMA WaiterLeaves ==
  ASSUME InOrder' = InOrder, Undecided' = Undecided, Quiet, NEW w \in Waiters, pc[w] # "idle",
         pc'[w] = "idle", w \notin Undecided, w \notin Held(Nobody),
         \A v \in Waiters \ {w} : pc'[v] = pc[v]
  PROVE  Contract!EcLeave(w)
<1>1. Stack' = Stack /\ Held(Nobody)' = Held(Nobody)
  BY DEF Quiet, Places
<1>2. w \in Released
  BY ReleasedIs
<1>3. \A v : v \in Released' <=> v \in Released /\ v # w
  BY <1>1, ReleasedIs
<1>4. Released' = Released \ {w}
  BY <1>3
<1> QED
  BY <1>1, <1>2, <1>4 DEF Contract!EcLeave

ContractNext == Contract!EcNext \/ UNCHANGED <<InOrder, Stack, Released>>

(* Prewait is the contract's, *)
LEMMA QueueOfPrewait ==
  ASSUME EventCountInv, EventCountInv', [Next]_vars, NEW w \in Waiters, Prewait(w)
  PROVE  Contract!EcPrewait(w)
<1> USE DEF EventCountInv
<1>1. InOrder' = Append(InOrder, w) /\ Undecided' = Undecided \cup {w} /\ w \notin Undecided
  BY OrderTaken
<1>2. Quiet /\ OrderOK
  BY WaiterLists, OrderNow
<1>3. Stack' = Stack /\ Held(Nobody)' = Held(Nobody)
  BY <1>2 DEF Quiet, Places
<1>4. pc[w] = "idle" /\ pc'[w] = "announced" /\ \A v \in Waiters \ {w} : pc'[v] = pc[v]
  BY DEF Prewait, Go, WellTyped, Threads
<1>5. w \notin Released /\ \A v : v \in Released' <=> v \in Released
  BY <1>1, <1>3, <1>4, ReleasedIs
<1>6. Released' = Released
  BY <1>5
<1>7. w \notin Contract!ToSet(InOrder)
  <2>1. ASSUME NEW i \in DOMAIN InOrder, InOrder[i] = w
        PROVE  FALSE
    <3>1. i \in 1..state.waiters
      BY <1>2 DEF OrderOK
    <3>2. InOrder[i] \in Undecided
      BY <1>2, <3>1 DEF OrderOK
    <3> QED
      BY <1>1, <2>1, <3>2
  <2> QED
    BY <2>1 DEF Contract!ToSet
<1>8. w \notin Contract!ToSet(Stack)
  <2>1. Nobody \in Places
    BY DEF Places
  <2>2. w \notin Held(Nobody)
    BY <1>4, <2>1, HeldOnce DEF Waits, Sleeping
  <2>3. Stack \in Seq(Waiters)
    BY DEF ChainsOK, IsChain
  <2>4. DOMAIN Stack = 1..Len(Stack)
    BY <2>3
  <2> QED
    BY <2>2, <2>4, HeldIs DEF Members, Contract!ToSet
<1> QED
  BY <1>1, <1>3, <1>5, <1>6, <1>7, <1>8 DEF Contract!EcPrewait, Contract!Outside

(* A step that neither announces nor decides *)
LEMMA QueueRests ==
  ASSUME EventCountInv, EventCountInv', [Next]_vars, waits' = waits
  PROVE  /\ Serves
         /\ Count(state') = Count(state) => InOrder' = InOrder /\ Undecided' = Undecided
<1>1. Serves
  <2>1. waits \in Int
    BY DEF EventCountInv, WellTyped
  <2>2. \A w \in Waiters : ~Prewait(w)
    BY <2>1 DEF Prewait
  <2> QED
    BY <2>2, TicketNext DEF EventCountInv
<1> QED
  BY <1>1, OrderKept DEF EventCountInv

(* the exchange of CommitWait and CancelWait the decision, *)
LEMMA QueueOfDecision ==
  ASSUME EventCountInv, EventCountInv', [Next]_vars, NEW w \in Waiters, CommitCas(w) \/ CancelCas(w),
         state = seen[w]
  PROVE  Contract!EcSleep(w) \/ Contract!EcCancel(w)
<1> USE DEF EventCountInv
<1>1. /\ pc \in [Threads -> Labels] /\ w \in Threads /\ state \in Words
      /\ pc[w] \in Loaded /\ pc[w] \in Deciding /\ waits' = waits
  BY DEF WellTyped, Threads, CommitCas, CancelCas, Loaded, Deciding
<1>2. Serves /\ Count(state) + state.waiters <= MaxWaits
  BY <1>1, QueueRests DEF TicketsOK, WellTyped
<1>3. Ticket(w) = Count(state) /\ state.waiters > 0 /\ Count(state) \in Int
  BY <1>1, Turns DEF SeenOK
<1>4. Count(state') = Count(state) + 1
  <2>1. Count(Decided(state)) = Count(state) + 1
    BY <1>1, <1>2, <1>3, WordDecided
  <2>2. state'.epoch = Decided(state).epoch
    BY <1>1 DEF CommitCas, CancelCas, Decided, Words
  <2> QED
    BY <2>1, <2>2 DEF Count
<1>5. /\ InOrder # <<>> /\ InOrder' = Tail(InOrder) /\ Head(InOrder) \in Undecided
      /\ Undecided' = Undecided \ {Head(InOrder)} /\ Ticket(Head(InOrder)) = Count(state)
  BY <1>2, <1>4, OrderServed
<1>6. w \in Undecided
  BY <1>1, <1>3, UndecidedThen
<1>7. Head(InOrder) = w
  <2>1. \A u, v \in Undecided : Ticket(u) = Ticket(v) => u = v
    BY OrderNow DEF OrderOK
  <2>2. PICK h : h = Head(InOrder)
    OBVIOUS
  <2>3. h \in Undecided /\ Ticket(h) = Count(state)
    BY <1>5, <2>2
  <2> QED
    BY <1>3, <1>6, <2>1, <2>2, <2>3
<1>8. \A v \in Waiters \ {w} : pc'[v] = pc[v]
  BY <1>1 DEF CommitCas, CancelCas, Go, Threads
<1>9. CASE CommitCas(w)
  <2>1. Stack' = <<w>> \o Stack /\ Held(Nobody)' = {w} \cup Held(Nobody)
    BY <1>9, CommitPushes DEF Pushed
  <2>2. \A v : v \in Released' <=> v \in Released
    BY <1>5, <1>6, <1>7, <1>8, <2>1, ReleasedIs
  <2>3. Released' = Released
    BY <2>2
  <2> QED
    BY <1>5, <1>7, <2>1, <2>3 DEF Contract!EcSleep, Contract!EcMyTurn
<1>10. CASE CancelCas(w)
  <2>1. Quiet
    BY <1>10, WaiterLists
  <2>2. Stack' = Stack /\ Held(Nobody)' = Held(Nobody)
    BY <2>1 DEF Quiet, Places
  <2>3. pc'[w] = "idle"
    BY <1>1, <1>10 DEF CancelCas, Go
  <2>4. \A v : v \in Released' <=> v \in Released
    BY <1>5, <1>6, <1>7, <1>8, <2>2, <2>3, ReleasedIs
  <2>5. Released' = Released
    BY <2>4
  <2> QED
    BY <1>5, <1>7, <2>2, <2>5 DEF Contract!EcCancel, Contract!EcMyTurn
<1> QED
  BY <1>9, <1>10

(* and every step of a waiter one of the contract's or none. *)
LEMMA QueueOfWaiter ==
  ASSUME EventCountInv, EventCountInv', [Next]_vars, NEW w \in Waiters, WaiterActs(w)
  PROVE  ContractNext
<1> USE DEF EventCountInv
<1>1. /\ pc \in [Threads -> Labels] /\ w \in Threads
      /\ \A v \in Waiters \ {w} : pc'[v] = pc[v]
  <2>1. \A u \in Threads \ {w} : pc'[u] = pc[u]
    BY OthersOfWaiter
  <2> QED
    BY <2>1 DEF WellTyped, Threads
<1>2. CASE Prewait(w)
  BY <1>2, QueueOfPrewait DEF ContractNext, Contract!EcNext
<1>3. CASE (CommitCas(w) \/ CancelCas(w)) /\ state = seen[w]
  BY <1>3, QueueOfDecision DEF ContractNext, Contract!EcNext
<1>4. CASE ~Prewait(w) /\ ~((CommitCas(w) \/ CancelCas(w)) /\ state = seen[w])
  <2>1. waits' = waits /\ state' = state
    BY <1>4
    DEF WaiterActs, CommitWait, CancelWait, CommitLoad, CommitNext, CommitCas, Park,
        CancelLoad, CancelCas, SpuriousWakeup
  <2>2. InOrder' = InOrder /\ Undecided' = Undecided
    <3>1. Count(state') = Count(state)
      BY <2>1
    <3> QED
      BY <2>1, <3>1, QueueRests
  <2>3. Quiet
    BY <1>4, WaiterLists DEF WaiterActs
  <2>4. Nobody \in Places
    BY DEF Places
  <2>5. CASE pc'[w] # "idle"
    <3>1. pc[w] # "idle"
      BY <1>4 DEF WaiterActs, CommitWait, CancelWait, CommitLoad, CommitNext, CommitCas, Park,
          CancelLoad, CancelCas, SpuriousWakeup
    <3>2. UNCHANGED <<InOrder, Stack, Released>>
      BY <1>1, <2>2, <2>3, <2>5, <3>1, NothingHappens
    <3> QED
      BY <3>2 DEF ContractNext
  <2>6. CASE pc'[w] = "idle"
    <3>1. \/ (CommitLoad(w) \/ CancelLoad(w)) /\ Ahead(state, w)
          \/ Park(w) /\ signal[w] = "kSignaled"
      BY <1>1, <1>4, <2>6
      DEF WaiterActs, CommitWait, CancelWait, CommitLoad, CommitNext, CommitCas, Park,
          CancelLoad, CancelCas, SpuriousWakeup, Go
    <3>2. pc[w] # "idle" /\ w \notin Undecided /\ ~Waits(w)
      BY <3>1 DEF CommitLoad, CancelLoad, Park, Undecided, Waits, Sleeping
    <3>3. w \notin Held(Nobody)
      BY <2>4, <3>2, HeldOnce
    <3>4. Contract!EcLeave(w)
      BY <1>1, <2>2, <2>3, <2>6, <3>2, <3>3, WaiterLeaves
    <3> QED
      BY <3>4 DEF ContractNext, Contract!EcNext
  <2> QED
    BY <2>5, <2>6
<1> QED
  BY <1>2, <1>3, <1>4

(* The exchange of a notification: to the oldest announced waiter *)
LEMMA QueueOfOne ==
  ASSUME EventCountInv, EventCountInv', [Next]_vars, NEW n \in Notifiers,
         NotifyCas(n), state = seen[n], ~todo[n].all, state.waiters > 0,
         \A w \in Waiters : pc'[w] = pc[w]
  PROVE  Contract!EcNotifyOne
<1> USE DEF EventCountInv
<1>1. waits' = waits /\ state \in Words /\ Count(state) + state.waiters <= MaxWaits /\ Serves
  <2>1. waits' = waits
    BY DEF NotifyCas
  <2> QED
    BY <2>1, QueueRests DEF TicketsOK, WellTyped
<1>2. state' = Decided(state)
  BY DEF NotifyCas, SameWord, Notified
<1>3. Count(state') = Count(state) + 1
  BY <1>1, <1>2, WordDecided
<1>4. /\ InOrder # <<>> /\ InOrder' = Tail(InOrder) /\ Head(InOrder) \in Undecided
      /\ Undecided' = Undecided \ {Head(InOrder)}
  BY <1>1, <1>3, OrderServed
<1>5. ~Takes(n)
  BY DEF Takes
<1>6. Quiet
  BY <1>5, NotifierLists
<1>7. Stack' = Stack /\ Held(Nobody)' = Held(Nobody)
  BY <1>6 DEF Quiet, Places
<1>8. PICK h : h = Head(InOrder)
  OBVIOUS
<1>9. h \in Waiters /\ pc[h] # "idle" /\ h \notin Held(Nobody)
  <2>1. h \in Waiters /\ pc[h] \in Deciding
    BY <1>4, <1>8, UndecidedThen
  <2>2. Nobody \in Places
    BY DEF Places
  <2>3. ~Waits(h)
    BY <2>1 DEF Waits, Sleeping, Deciding
  <2> QED
    BY <2>1, <2>2, <2>3, HeldOnce DEF Deciding
<1>10. Undecided' = Undecided \ {h}
  BY <1>4, <1>8
<1>11. \A v : v \in Released' <=> v \in Released \/ v = h
  BY <1>7, <1>9, <1>10, ReleasedIs
<1>12. Released' = Released \cup {h}
  BY <1>11
<1> QED
  BY <1>4, <1>7, <1>8, <1>12 DEF Contract!EcNotifyOne

(* ... or else to the one on top of the stack *)
LEMMA QueueOfTop ==
  ASSUME EventCountInv, EventCountInv', [Next]_vars, NEW n \in Notifiers,
         Takes(n), ~todo[n].all, \A w \in Waiters : pc'[w] = pc[w]
  PROVE  Contract!EcNotifyOne
<1> USE DEF EventCountInv
<1>1. state.waiters = 0 /\ state.top # Nobody /\ waits' = waits /\ state \in Words /\ n \in Notifiers
  BY DEF Takes, NotifyCas, Empty, WellTyped
<1>2. Count(state') = Count(state)
  <2>1. state'.epoch = state.epoch
    BY <1>1 DEF Takes, NotifyCas, SameWord, Notified, Words
  <2> QED
    BY <2>1 DEF Count
<1>3. InOrder' = InOrder /\ Undecided' = Undecided
  BY <1>1, <1>2, QueueRests
<1>4. InOrder = <<>>
  BY <1>1, OrderNow DEF OrderOK
<1>5. /\ Stack' = Tail(Stack) /\ Held(n)' = {state.top} /\ Taken(n)
  BY NotifyTakes
<1>6. Held(Nobody)' = Held(Nobody) \ {state.top}
  BY <1>5 DEF Taken
<1>7. IsChain(Stack, state.top, next)
  BY DEF ChainsOK
<1>8. Stack # <<>> /\ state.top \in Held(Nobody) /\ state.top \in Waiters
  BY <1>1, <1>7, MembersAreWaiters, HeldIs
<1>9. Head(Stack) = state.top
  BY <1>7, <1>8 DEF IsChain
<1>10. pc[state.top] # "idle" /\ state.top \notin Undecided
  <2>1. Nobody \in Places
    BY DEF Places
  <2>2. pc[state.top] \in Sleeping
    BY <1>8, <2>1, HeldOnce DEF Waits
  <2> QED
    BY <2>2 DEF Sleeping, Undecided
<1>11. PICK h : h = state.top
  OBVIOUS
<1>12. \A v : v \in Released' <=> v \in Released \/ v = h
  BY <1>3, <1>6, <1>8, <1>10, <1>11, ReleasedIs
<1>13. Released' = Released \cup {h}
  BY <1>12
<1> QED
  BY <1>3, <1>4, <1>5, <1>8, <1>9, <1>11, <1>13 DEF Contract!EcNotifyOne

(* ... or to everybody *)
LEMMA QueueOfAll ==
  ASSUME EventCountInv, EventCountInv', [Next]_vars, NEW n \in Notifiers,
         NotifyCas(n), state = seen[n], todo[n].all, \A w \in Waiters : pc'[w] = pc[w]
  PROVE  Contract!EcNotifyAll
<1> USE DEF EventCountInv
<1>1. /\ waits' = waits /\ state \in Words /\ n \in Notifiers /\ state'.waiters = 0 /\ state'.top = Nobody
      /\ pc[n] = "notify.cas"
  BY DEF NotifyCas, SameWord, Notified, WellTyped
<1>2. Serves
  BY <1>1, QueueRests
<1>3. InOrder' = <<>> /\ Undecided' = {}
  BY <1>1, <1>2, OrderCleared
<1>4. OrderOK /\ IsChain(Stack, state.top, next) /\ IsChain(Stack', state'.top, next')
  BY OrderNow DEF ChainsOK
<1>5. Stack' = <<>> /\ Held(Nobody)' = {}
  <2>1. Stack' = <<>>
    BY <1>1, <1>4, MembersAreWaiters
  <2>2. Members(Stack') = {}
    BY <2>1 DEF Members
  <2> QED
    BY <2>1, <2>2, HeldIs
<1>6. PICK c : c = InOrder
  OBVIOUS
<1>7. PICK d : d = Stack
  OBVIOUS
<1>8. c \in Seq(Waiters) /\ Len(c) = state.waiters /\ d \in Seq(Waiters) /\ state.waiters \in Nat
  BY <1>4, <1>6, <1>7 DEF OrderOK, IsChain
<1>9. c \o d # <<>>
  <2>1. ~(state.top = Nobody /\ state.waiters = 0)
    BY <1>1 DEF SeenOK, Empty
  <2>2. c # <<>> \/ d # <<>>
    BY <1>4, <1>6, <1>7, <1>8, <2>1 DEF IsChain
  <2> QED
    BY <1>8, <2>2
<1>10. \A v : v \in Contract!ToSet(c \o d) <=> v \in Undecided \/ v \in Held(Nobody)
  <2>1. \A v : v \in Undecided <=> \E i \in 1..Len(c) : c[i] = v
    BY <1>4, <1>6, <1>8 DEF OrderOK
  <2>2. \A v : v \in Held(Nobody) <=> \E i \in 1..Len(d) : d[i] = v
    BY <1>7, HeldIs DEF Members
  <2>3. /\ DOMAIN (c \o d) = 1..(Len(c) + Len(d)) /\ Len(c) \in Nat /\ Len(d) \in Nat
        /\ \A i \in 1..(Len(c) + Len(d)) : (c \o d)[i] = IF i <= Len(c) THEN c[i] ELSE d[i - Len(c)]
    BY <1>8
  <2>4. ASSUME NEW v, NEW i \in 1..(Len(c) + Len(d)), (c \o d)[i] = v
        PROVE  v \in Undecided \/ v \in Held(Nobody)
    <3>1. CASE i <= Len(c)
      BY <2>1, <2>3, <2>4, <3>1
    <3>2. CASE i > Len(c)
      <4>1. i - Len(c) \in 1..Len(d) /\ d[i - Len(c)] = v
        BY <2>3, <2>4, <3>2
      <4> QED
        BY <2>2, <4>1
    <3> QED
      BY <2>3, <3>1, <3>2
  <2>5. ASSUME NEW v \in Undecided
        PROVE  \E i \in 1..(Len(c) + Len(d)) : (c \o d)[i] = v
    <3>1. PICK i \in 1..Len(c) : c[i] = v
      BY <2>1
    <3>2. i \in 1..(Len(c) + Len(d)) /\ (c \o d)[i] = v
      BY <2>3, <3>1
    <3> QED
      BY <3>2
  <2>6. ASSUME NEW v \in Held(Nobody)
        PROVE  \E i \in 1..(Len(c) + Len(d)) : (c \o d)[i] = v
    <3>1. PICK i \in 1..Len(d) : d[i] = v
      BY <2>2
    <3>2. PICK j : j = i + Len(c)
      OBVIOUS
    <3>3. j \in 1..(Len(c) + Len(d)) /\ ~(j <= Len(c)) /\ j - Len(c) = i
      BY <2>3, <3>2
    <3>4. (c \o d)[j] = v
      BY <2>3, <3>1, <3>3
    <3> QED
      BY <3>3, <3>4
  <2>7. \A v : v \in Contract!ToSet(c \o d) <=> \E i \in 1..(Len(c) + Len(d)) : (c \o d)[i] = v
    BY <2>3 DEF Contract!ToSet
  <2> QED
    BY <2>4, <2>5, <2>6, <2>7
<1>11. ASSUME NEW v, v \in Undecided \/ v \in Held(Nobody)
       PROVE  v \in Waiters /\ pc[v] # "idle"
  <2>1. CASE v \in Undecided
    BY <2>1, UndecidedThen DEF Deciding
  <2>2. CASE v \in Held(Nobody)
    <3>1. v \in Waiters /\ Nobody \in Places
      BY <1>4, <2>2, HeldIs, MembersAreWaiters DEF Places
    <3>2. pc[v] \in Sleeping
      BY <2>2, <3>1, HeldOnce DEF Waits
    <3> QED
      BY <3>1, <3>2 DEF Sleeping
  <2> QED
    BY <1>11, <2>1, <2>2
<1>12. \A v : v \in Released' <=> v \in Released \/ v \in Contract!ToSet(c \o d)
  BY <1>3, <1>5, <1>10, <1>11, ReleasedIs
<1>13. Released' = Released \cup Contract!ToSet(c \o d)
  BY <1>12
<1> QED
  BY <1>3, <1>5, <1>6, <1>7, <1>9, <1>13 DEF Contract!EcNotifyAll

(* So is every step of a notifier. *)
LEMMA QueueOfNotifier ==
  ASSUME EventCountInv, EventCountInv', [Next]_vars, NEW n \in Notifiers, NotifierActs(n)
  PROVE  ContractNext
<1> USE DEF EventCountInv
<1>1. \A w \in Waiters : pc'[w] = pc[w] \/ (pc[w] = "park.wait" /\ pc'[w] = "park.lock" /\ UnparkCv(n))
  BY OthersOfNotifier
<1>2. waits' = waits
  BY DEF NotifierActs, NotifyLoad, NotifyNext, NotifyCas, NotifyClear, UnparkNext, UnparkSignal, UnparkCv
<1>3. CASE NotifyCas(n) /\ state = seen[n]
  <2>1. \A w \in Waiters : pc'[w] = pc[w]
    BY <1>1, <1>3 DEF NotifyCas, UnparkCv
  <2>2. state.waiters \in Nat
    BY DEF WellTyped, Words
  <2>3. ~(Empty(state) /\ state.waiters = 0)
    BY <1>3 DEF SeenOK, NotifyCas
  <2>4. CASE todo[n].all
    BY <1>3, <2>1, <2>4, QueueOfAll DEF ContractNext, Contract!EcNext
  <2>5. CASE ~todo[n].all /\ state.waiters > 0
    BY <1>3, <2>1, <2>5, QueueOfOne DEF ContractNext, Contract!EcNext
  <2>6. CASE ~todo[n].all /\ state.waiters = 0
    <3>1. Takes(n)
      BY <1>3, <2>3, <2>6 DEF Takes
    <3> QED
      BY <2>1, <2>6, <3>1, QueueOfTop DEF ContractNext, Contract!EcNext
  <2> QED
    BY <2>2, <2>4, <2>5, <2>6
<1>4. CASE ~(NotifyCas(n) /\ state = seen[n])
  <2>1. state' = state
    BY <1>4
    DEF NotifierActs, NotifyLoad, NotifyNext, NotifyCas, NotifyClear, UnparkNext, UnparkSignal, UnparkCv, SameWord
  <2>2. InOrder' = InOrder /\ Undecided' = Undecided
    <3>1. Count(state') = Count(state)
      BY <2>1
    <3> QED
      BY <1>2, <3>1, QueueRests
  <2>3. Quiet \/ (Stack' = Stack /\ Held(Nobody)' = Held(Nobody))
    <3>1. CASE UnparkSignal(n)
      <4>1. PICK w \in Waiters : Signalled(n, w)
        BY <3>1, SignalLists
      <4>2. Nobody \in Places \ {n}
        BY WidthIsNat DEF Places
      <4> QED
        BY <4>1, <4>2 DEF Signalled
    <3>2. CASE ~UnparkSignal(n)
      <4>1. ~Takes(n)
        BY <1>4 DEF Takes
      <4> QED
        BY <3>2, <4>1, NotifierLists DEF NotifierActs
    <3> QED
      BY <3>1, <3>2
  <2>4. \A w \in Waiters : pc'[w] = "idle" <=> pc[w] = "idle"
    BY <1>1
  <2>5. UNCHANGED <<InOrder, Stack, Released>>
    BY <2>2, <2>3, <2>4, NothingHappens
  <2> QED
    BY <2>5 DEF ContractNext
<1> QED
  BY <1>3, <1>4

(* The contract at the start *)
LEMMA QueueInit == Init => Contract!EcInit
<1> SUFFICES ASSUME Init
             PROVE  Contract!EcInit
  OBVIOUS
<1>1. WellTyped /\ TicketsOK /\ ChainsOK
  BY ListsInit
<1>2. state.waiters = 0 /\ state.top = Nobody /\ \A w \in Waiters : pc[w] = "idle"
  BY DEF Init, InitState
<1>3. InOrder = <<>>
  BY <1>1, <1>2, OrderNow DEF OrderOK
<1>4. Stack = <<>>
  BY <1>1, <1>2, MembersAreWaiters DEF ChainsOK
<1>5. Released = {}
  BY <1>2 DEF Released
<1> QED
  BY <1>3, <1>4, <1>5 DEF Contract!EcInit

(* The packed word, the turns and the next pointers implement the queue of *)
(* announced waiters and the stack of sleepers: threads decide in the      *)
(* order of their announcements, and a notification goes to the oldest     *)
(* undecided thread, else to the last sleeper, and is lost only if there   *)
(* is neither.                                                             *)
THEOREM EventCountKeepsItsContract == Spec => KeepsItsContract
<1>1. EventCountInv /\ EventCountInv' /\ [Next]_vars => [Contract!EcNext]_(Contract!ecVars)
  <2> SUFFICES ASSUME EventCountInv, EventCountInv', [Next]_vars
               PROVE  Contract!EcNext \/ UNCHANGED <<InOrder, Stack, Released>>
    BY DEF Contract!ecVars
  <2>1. CASE UNCHANGED vars
    <3>1. InOrder' = InOrder /\ Stack' = Stack /\ Released' = Released
      <4>1. state' = state /\ turn' = turn /\ pc' = pc /\ next' = next /\ waits' = waits
        BY <2>1 DEF vars
      <4>2. Undecided' = Undecided
        BY <4>1 DEF Undecided, Ahead, Behind, OnTurn
      <4>3. InOrder' = InOrder
        <5>1. Count(state') = Count(state)
          BY <4>1
        <5> QED
          BY <4>1, <5>1, QueueRests
      <4>4. Stack' = Stack
        BY <4>1, ListsNow, ListsThen
      <4>5. Released' = Released
        BY <4>1, <4>2, <4>4 DEF Released, Members
      <4> QED
        BY <4>3, <4>4, <4>5
    <3> QED
      BY <3>1
  <2>2. ASSUME NEW w \in Waiters, WaiterActs(w)
        PROVE  ContractNext
    BY <2>2, QueueOfWaiter
  <2>3. ASSUME NEW n \in Notifiers, NotifierActs(n)
        PROVE  ContractNext
    BY <2>3, QueueOfNotifier
  <2> QED
    BY <2>1, <2>2, <2>3, Actors DEF ContractNext
<1> QED
  BY <1>1, QueueInit, EventCountInvariant, PTL DEF Spec, KeepsItsContract, Contract!EcSpec
=============================================================================
