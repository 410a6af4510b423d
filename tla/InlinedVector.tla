--------------------------- MODULE InlinedVector ----------------------------
(* InlinedVector (inlined_vector.h): elements inside the object while they *)
(* fit, else in a heap block. The elements have constructors and           *)
(* destructors: memory cells are raw until an element is constructed in    *)
(* them, and raw again once it is destroyed.                               *)
(*                                                                         *)
(* A vector is a record, a method an operator from records to records.     *)
EXTENDS Integers, Sequences

CONSTANTS
  Vectors,   \* two objects
  Values,    \* of elements
  kFit,      \* elements that fit inside
  MaxSize    \* bound: elements of a vector

ASSUME FitAssumption == kFit \in Nat \ {0} /\ MaxSize \in Nat

VARIABLES
  vec,   \* each vector
  made   \* the last call, for the comparison with Sequence

vectorVars == <<vec, made>>

-----------------------------------------------------------------------------
(* Memory *)

Raw == "raw"
Moved == "moved"   \* constructed, with its value moved away
Bad == "bad"       \* constructed twice, or used without being constructed

ASSUME CellAssumption == {Raw, Moved, Bad} \cap Values = {}

RawCells(n) == [i \in 1..n |-> Raw]
Range1(at, n) == (at + 1)..(at + n)   \* n cells from offset at

Constructed(cells, at, vals) ==
  [i \in DOMAIN cells |->
     IF i \notin Range1(at, Len(vals)) THEN cells[i]
     ELSE IF cells[i] # Raw \/ vals[i - at] \in {Raw, Bad} THEN Bad ELSE vals[i - at]]

Assigned(cells, at, vals) ==
  [i \in DOMAIN cells |->
     IF i \notin Range1(at, Len(vals)) THEN cells[i]
     ELSE IF cells[i] \in {Raw, Bad} \/ vals[i - at] \in {Raw, Bad} THEN Bad ELSE vals[i - at]]

Destroyed(cells, at, n) ==
  [i \in DOMAIN cells |->
     IF i \notin Range1(at, n) THEN cells[i] ELSE IF cells[i] = Raw THEN Bad ELSE Raw]

MovedFrom(cells, n) == [i \in DOMAIN cells |-> IF i <= n THEN Moved ELSE cells[i]]

-----------------------------------------------------------------------------
(* The representation: tag and size, lg of the capacity of a heap block;   *)
(* freed tells that every block and object it gave up was empty.           *)

InitRep == [inline |-> TRUE, lg |-> 0, size |-> 0, cells |-> RawCells(kFit), freed |-> TRUE]

PowerOfTwo[lg \in Nat] == IF lg = 0 THEN 1 ELSE 2 * PowerOfTwo[lg - 1]

Capacity(r) == IF r.inline THEN kFit ELSE PowerOfTwo[r.lg]
Elements(r) == SubSeq(r.cells, 1, r.size)
AllRaw(cells) == \A i \in DOMAIN cells : cells[i] = Raw
Sized(r, n) == [r EXCEPT !.size = n]

(* DiscardStorage and what follows it: the memory given up must be raw.    *)
Discarded(r, moved) == r.freed /\ AllRaw(Destroyed(moved, 0, r.size))

TargetLg(n) == CHOOSE lg \in 0..n + kFit :
                 /\ PowerOfTwo[lg] >= kFit /\ PowerOfTwo[lg] >= n
                 /\ \A k \in 0..(lg - 1) : PowerOfTwo[k] < kFit \/ PowerOfTwo[k] < n

(* A new element, given as a value or as an element of the vector          *)
Argument(cells, arg) == IF arg.alias > 0 THEN cells[arg.alias] ELSE arg.value

(* mutant: the elements are moved before the new one is constructed *)
GrowMoveFirst(r, n, args) ==
  LET lg == TargetLg(n)
      moved == MovedFrom(r.cells, r.size)
      new == [i \in DOMAIN args |-> Argument(moved, args[i])] IN
  [inline |-> FALSE, lg |-> lg, size |-> r.size,
   cells |-> Constructed(Constructed(RawCells(PowerOfTwo[lg]), r.size, new), 0, Elements(r)),
   freed |-> Discarded(r, moved)]

(* Grow: the new element is constructed first since its argument may lie   *)
(* in the old memory; then the others are moved.                           *)
Grow(r, n, args) ==
  LET lg == TargetLg(n)
      new == [i \in DOMAIN args |-> Argument(r.cells, args[i])] IN
  [inline |-> FALSE, lg |-> lg, size |-> r.size,
   cells |-> Constructed(Constructed(RawCells(PowerOfTwo[lg]), r.size, new), 0, Elements(r)),
   freed |-> Discarded(r, MovedFrom(r.cells, r.size))]

Reserve(r, n) == IF n > Capacity(r) THEN Grow(r, n, <<>>) ELSE r

Clear(r) == [InitRep EXCEPT !.freed = Discarded(r, r.cells)]

EmplaceBack(r, arg) ==
  IF r.size < Capacity(r)
  THEN Sized([r EXCEPT !.cells = Constructed(@, r.size, <<Argument(@, arg)>>)], r.size + 1)
  ELSE Sized(Grow(r, r.size + 1, <<arg>>), r.size + 1)

PopBack(r) == Sized([r EXCEPT !.cells = Destroyed(@, r.size - 1, 1)], r.size - 1)

Repeated(n, v) == [i \in 1..n |-> v]

Resize(r, n, v) ==
  IF n <= r.size THEN Sized([r EXCEPT !.cells = Destroyed(@, n, r.size - n)], n)
  ELSE LET room == Reserve(r, n) IN
       Sized([room EXCEPT !.cells = Constructed(@, r.size, Repeated(n - r.size, v))], n)

(* insert: the last element is copied into the raw cell behind it, those   *)
(* before it are moved up by assignment.                                   *)
InsertShifting(r, pos, v, last) ==
  LET room == IF r.size = Capacity(r) THEN Grow(r, r.size + 1, <<>>) ELSE r
      opened == Constructed(room.cells, r.size, <<room.cells[r.size]>>)
      shifted == Assigned(opened, pos + 1, SubSeq(opened, pos + 1, last)) IN
  Sized([room EXCEPT !.cells = Assigned(shifted, pos, <<v>>)], r.size + 1)

Insert(r, pos, v) ==
  IF pos = r.size THEN EmplaceBack(r, [alias |-> 0, value |-> v])
  ELSE InsertShifting(r, pos, v, r.size - 1)

Erase(r, first, last) ==
  LET copied == Assigned(r.cells, first, SubSeq(r.cells, last + 1, r.size)) IN
  Sized([r EXCEPT !.cells = Destroyed(copied, r.size - (last - first), last - first)],
        r.size - (last - first))

(* push_back of every one of vals *)
PushAll(r, vals) ==
  LET push[k \in 0..Len(vals)] ==
        IF k = 0 THEN r ELSE EmplaceBack(push[k - 1], [alias |-> 0, value |-> vals[k]])
  IN push[Len(vals)]

(* AppendRange of a forward iterator; of an input iterator it is PushAll   *)
AppendRange(r, vals) ==
  LET room == Reserve(r, r.size + Len(vals)) IN
  Sized([room EXCEPT !.cells = Constructed(@, r.size, vals)], r.size + Len(vals))

Assign(r, v) ==
  IF r.size < v.size
  THEN LET room == Reserve(r, v.size) IN
       PushAll([room EXCEPT !.cells = Assigned(@, 0, SubSeq(v.cells, 1, r.size))],
               SubSeq(v.cells, r.size + 1, v.size))
  ELSE LET shrunk == Erase(r, v.size, r.size) IN
       [shrunk EXCEPT !.cells = Assigned(@, 0, Elements(v))]

(* InlinedVector(n, elem): nothing to move when it grows                   *)
FillConstructor(n, v) ==
  LET room == IF n > kFit THEN Grow(InitRep, n, <<>>) ELSE InitRep IN
  Sized([room EXCEPT !.cells = Constructed(@, 0, Repeated(n, v))], n)

(* mutant: the elements that move over stay constructed where they were *)
MovedAcrossKept(a, b) ==
  LET room == IF Capacity(b) < a.size THEN Grow(b, a.size, <<>>) ELSE b
      rest == SubSeq(a.cells, b.size + 1, a.size)
      acells == Assigned(a.cells, 0, Elements(b))
      bcells == Constructed(Assigned(room.cells, 0, SubSeq(a.cells, 1, b.size)), b.size, rest) IN
  <<Sized([a EXCEPT !.cells = acells], b.size), Sized([room EXCEPT !.cells = bcells], a.size)>>

(* a, the larger, with b, when one of them is inline                       *)
MovedAcross(a, b) ==
  LET room == IF Capacity(b) < a.size THEN Grow(b, a.size, <<>>) ELSE b
      rest == SubSeq(a.cells, b.size + 1, a.size)
      acells == Assigned(a.cells, 0, Elements(b))
      bcells == Constructed(Assigned(room.cells, 0, SubSeq(a.cells, 1, b.size)), b.size, rest) IN
  <<Sized([a EXCEPT !.cells = Destroyed(acells, b.size, a.size - b.size)], b.size),
    Sized([room EXCEPT !.cells = bcells], a.size)>>

Swapped(a, b) ==
  IF ~a.inline /\ ~b.inline
  THEN <<[b EXCEPT !.freed = a.freed], [a EXCEPT !.freed = b.freed]>>
  ELSE IF a.size < b.size
  THEN LET s == MovedAcross(b, a) IN <<s[2], s[1]>>
  ELSE MovedAcross(a, b)

-----------------------------------------------------------------------------
VectorInit ==
  /\ vec = [x \in Vectors |-> InitRep]
  /\ made = [on |-> CHOOSE x \in Vectors : TRUE, op |-> "none"]

Does(r, call) ==
  /\ r.size <= MaxSize
  /\ vec' = [vec EXCEPT ![call.on] = r]
  /\ made' = call

PushBack(x) ==
  \E arg \in [alias : {0}, value : Values]
              \cup {[alias |-> i, value |-> vec[x].cells[i]] : i \in 1..vec[x].size} :
    Does(EmplaceBack(vec[x], arg),
         [on |-> x, op |-> "push_back", alias |-> arg.alias, value |-> arg.value])

pop_back(x) == vec[x].size > 0 /\ Does(PopBack(vec[x]), [on |-> x, op |-> "pop_back"])

insert(x) ==
  \E pos \in 0..vec[x].size, v \in Values :
    Does(Insert(vec[x], pos, v), [on |-> x, op |-> "insert", pos |-> pos, value |-> v])

erase(x) ==
  \E first \in 0..vec[x].size, last \in 0..vec[x].size :
    /\ first <= last
    /\ Does(Erase(vec[x], first, last), [on |-> x, op |-> "erase", pos |-> first, last |-> last])

resize(x) ==
  \E n \in 0..MaxSize, v \in Values :
    Does(Resize(vec[x], n, v), [on |-> x, op |-> "resize", n |-> n, value |-> v])

reserve(x) ==
  \E n \in 0..(MaxSize + 2) : Does(Reserve(vec[x], n), [on |-> x, op |-> "reserve"])

clear(x) == Does(Clear(vec[x]), [on |-> x, op |-> "clear"])

(* The destructor, then a constructor *)
construct(x, y) ==
  LET gone == Clear(vec[x])
      Again(r) == [r EXCEPT !.freed = @ /\ gone.freed] IN
  \/ \E n \in 0..MaxSize, v \in Values :
       Does(Again(FillConstructor(n, v)), [on |-> x, op |-> "fill", n |-> n, value |-> v])
  \/ Does(Again(AppendRange(InitRep, Elements(vec[y]))), [on |-> x, op |-> "range"])
  \/ Does(Again(PushAll(InitRep, Elements(vec[y]))), [on |-> x, op |-> "range"])
  \/ Does(Again(Assign(InitRep, vec[y])), [on |-> x, op |-> "assign"])

operatorAssign(x, y) == Does(Assign(vec[x], vec[y]), [on |-> x, op |-> "assign"])

swap(x, y) ==
  LET both == Swapped(vec[x], vec[y]) IN
  /\ vec' = [vec EXCEPT ![x] = both[1], ![y] = both[2]]
  /\ made' = [on |-> x, op |-> "swap"]

VectorNext ==
  \E x, y \in Vectors :
    /\ x # y
    /\ \/ PushBack(x) \/ pop_back(x) \/ insert(x) \/ erase(x) \/ resize(x) \/ reserve(x)
       \/ clear(x) \/ construct(x, y) \/ operatorAssign(x, y) \/ swap(x, y)

VectorSpec == VectorInit /\ [][VectorNext]_vectorVars

-----------------------------------------------------------------------------
(* Exactly the cells below size are constructed, once each; what a vector  *)
(* gives up was destroyed before; the capacity suffices.                   *)
StorageIsSound ==
  \A x \in Vectors :
    LET r == vec[x] IN
    /\ r.freed /\ Len(r.cells) = Capacity(r) /\ r.size <= Capacity(r)
    /\ \A i \in DOMAIN r.cells :
         IF i <= r.size THEN r.cells[i] \in Values ELSE r.cells[i] = Raw

(* Each operation does to the elements what it does to a sequence, in      *)
(* either representation and on the way from one to the other.             *)
AsSequences == [x \in Vectors |-> Elements(vec[x])]
Abstract == INSTANCE Sequence WITH seq <- AsSequences, call <- made
IsASequence == Abstract!SeqSpec
=============================================================================
