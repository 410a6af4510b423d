------------------------------ MODULE Sequence ------------------------------
(* What InlinedVector promises: objects that are sequences, with the       *)
(* operations of std::vector.                                              *)
EXTENDS Integers, Sequences, SequencesExt

VARIABLES
  seq,  \* the sequence each object is
  call  \* the last call: on (the object), op, and its arguments

seqVars == <<seq, call>>

Copies(n, v) == [i \in 1..n |-> v]

(* The argument of push_back may be an element of the object itself.       *)
Value(s, c) == IF c.alias > 0 THEN s[c.alias] ELSE c.value

(* The object after a call; positions count from 0 as in the code.         *)
After(s, other, c) ==
  CASE c.op = "push_back" -> Append(s, Value(s, c))
    [] c.op = "pop_back"  -> Front(s)
    [] c.op = "insert"    -> InsertAt(s, c.pos + 1, c.value)
    [] c.op = "erase"     -> SubSeq(s, 1, c.pos) \o SubSeq(s, c.last + 1, Len(s))
    [] c.op = "resize"    -> IF c.n <= Len(s) THEN SubSeq(s, 1, c.n)
                             ELSE s \o Copies(c.n - Len(s), c.value)
    [] c.op = "fill"      -> Copies(c.n, c.value)
    [] c.op = "range"     -> other
    [] c.op = "append"    -> s \o other
    [] c.op = "assign"    -> other
    [] c.op = "swap"      -> other
    [] c.op = "clear"     -> <<>>
    [] OTHER              -> s   \* reserve

SeqNext ==
  \E x, y \in DOMAIN seq :
    /\ x # y /\ call'.on = x
    /\ seq' = [seq EXCEPT ![x] = After(@, seq[y], call'),
                          ![y] = IF call'.op = "swap" THEN seq[x] ELSE @]

SeqInit == seq = [x \in DOMAIN seq |-> <<>>]

SeqSpec == SeqInit /\ [][SeqNext]_seqVars
=============================================================================
