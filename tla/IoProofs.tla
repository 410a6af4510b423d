------------------------------ MODULE IoProofs -------------------------------
(***************************************************************************)
(* The output streams (OutputStreams), for every array, every string with  *)
(* any contents and capacity, every copying stream with any buffer, and    *)
(* every sequence of Next, BackUp, Flush and Close:                        *)
(*   - the destination holds a prefix of what the client wrote             *)
(*     (OnlyWhatWasWritten), also after writes that fail half-way;         *)
(*   - nothing is held back once the stream says so, a legal BackUp passes *)
(*     the CHECKs, and ByteCount is what was written, strings that had     *)
(*     contents excepted (NothingIsHeldBack).                              *)
(*                                                                         *)
(* A stream is a record and a method yields its outcomes, so a lemma says  *)
(* of each method what it makes of a sound stream (ArrayNextIs,            *)
(* StringNextIs, WriteBufferIs, CopyingNextIs) and of a client's store     *)
(* what becomes of the memory (StoredIs, StoredOn).  The invariant has one *)
(* part for each kind of stream, and a step of the kind's own keeps it.    *)
(*                                                                         *)
(* The second part is about the input streams (InputStreams):              *)
(*   - a legal BackUp, the one of the destructor of LimitingInputStream    *)
(*     too, passes the CHECKs of the stream it reaches (BackUpIsAccepted); *)
(*   - a limit is kept (LimitIsKept);                                      *)
(*   - a client reads the bytes in order (ReadsInOrder).                   *)
(*                                                                         *)
(* The third part is about the operations on files (Env), for every tree,  *)
(* every number of threads and any system calls that fail:                 *)
(*   - what is read is the file, and what a lone writer leaves are its     *)
(*     bytes (ContentIsWhole);                                             *)
(*   - what is told of whole trees is so (TreesAreAsTold).                 *)
(* The lemma of an action (LookupIs ... WriteCloseIs) says what it makes   *)
(* of the job of its thread and of the files; Kept says that a step leaves *)
(* a tree, files and jobs of the right form. On that stand an invariant    *)
(* for each promise: ContentInv, DeleteInv and CreateInv.                  *)
(***************************************************************************)
EXTENDS OutputStreams, InputStreams, Env, SequenceTheorems, Iteration, TLAPS

-----------------------------------------------------------------------------
(* The invariant                                                           *)

ArraySinks == [kind : {"array"}, memory : Seq(Int), block : Nat, position : Nat, last : Nat]
StringSinks ==
  [kind : {"string"}, memory : Seq(Int), initial : Nat, capacity : Int, set : BOOLEAN]
CopyingSinks ==
  [kind : {"copying"}, memory : Seq(Int), used : Nat, position : Nat, failed : BOOLEAN,
   faulty : BOOLEAN, arrived : Seq(Int), closed : BOOLEAN]

(* n bytes of m from place at on are those the client wrote after the      *)
(* first ones.                                                             *)
Carries(m, at, mark, n) == \A i \in 1..n : m[at + i] = mark + i

ClientOK == wrote \in Nat /\ handed \in [at : Nat, n : Nat] /\ flushed \in BOOLEAN

(* An array is filled up to the position, but for the buffer that was      *)
(* handed out last.                                                        *)
ArrayOK ==
  /\ sink \in ArraySinks
  /\ sink.position <= Len(sink.memory)
  /\ Idle => sink.position = wrote
  /\ ~Idle => /\ handed.at = wrote /\ sink.position = wrote + handed.n
              /\ sink.last = handed.n
  /\ Carries(sink.memory, 0, 0, wrote)

(* A string is resized when a buffer is handed out: the client's bytes     *)
(* follow the ones it had, up to its length or to that buffer.             *)
StringOK ==
  /\ sink \in StringSinks
  /\ Idle => Len(sink.memory) = sink.initial + wrote
  /\ ~Idle => /\ sink.set /\ handed.at = sink.initial + wrote
              /\ Len(sink.memory) = handed.at + handed.n
  /\ ~sink.set => wrote = 0
  /\ Carries(sink.memory, sink.initial, 0, wrote)

(* Bytes of the client in a copying stream's buffer                        *)
Stocked == IF Idle THEN sink.used ELSE handed.at

(* What arrived are the first bytes written.  Until a write fails, the     *)
(* buffer holds all that follow; a failed stream has given up its buffer   *)
(* and lets nothing arrive any more.  A Flush or Close that succeeded left *)
(* nothing behind, which stays so until the next Next.                     *)
CopyingOK ==
  /\ sink \in CopyingSinks
  /\ Len(sink.memory) > 0 /\ sink.used <= Len(sink.memory)
  /\ ~Idle => /\ sink.used = Len(sink.memory) /\ Len(sink.memory) = handed.at + handed.n
              /\ ~flushed
  /\ Carries(sink.arrived, 0, 0, Len(sink.arrived)) /\ Len(sink.arrived) <= wrote
  /\ ~sink.failed => /\ Len(sink.arrived) = sink.position
                     /\ sink.position + Stocked = wrote
                     /\ Carries(sink.memory, 0, sink.position, Stocked)
  /\ flushed => Len(sink.arrived) = wrote

OutInv == ClientOK /\ (ArrayOK \/ StringOK \/ CopyingOK)

(* A fresh buffer *)
LEMMA GarbageIs ==
  ASSUME NEW n \in Nat
  PROVE  Garbage(n) \in Seq(Int) /\ Len(Garbage(n)) = n /\ \A i \in 1..n : Garbage(n)[i] = 0
BY DEF Garbage

(* A stream that was just made holds nothing of the client's.              *)
LEMMA Beginning == OutInit => OutInv
<1> SUFFICES ASSUME OutInit PROVE OutInv
  OBVIOUS
<1> DEFINE bytes == Len(sink.memory)
<1>1. /\ sink \in Sinks /\ wrote = 0 /\ handed = [at |-> 0, n |-> 0] /\ flushed = FALSE
  BY DEF OutInit
<1>2. ClientOK /\ Idle
  BY <1>1 DEF ClientOK, Idle
<1>3. bytes \in Nat
  BY <1>1, SinkAssumption
<1>4. Garbage(bytes) \in Seq(Int) /\ Len(Garbage(bytes)) = bytes
  BY <1>3, GarbageIs
<1> HIDE DEF bytes
<1>5. CASE sink.kind = "array"
  <2>1. sink.block \in Nat /\ sink = ArrayOut(bytes, sink.block)
    BY <1>1, <1>5, SinkAssumption DEF bytes
  <2>2. /\ sink.kind = "array" /\ sink.memory = Garbage(bytes) /\ sink.position = 0 /\ sink.last = 0
    BY <2>1 DEF ArrayOut
  <2>3. PICK m, b : sink = [kind |-> "array", memory |-> m, block |-> b, position |-> 0, last |-> 0]
    BY <2>1 DEF ArrayOut
  <2>4. sink \in ArraySinks
    BY <2>1, <2>2, <2>3, <1>4 DEF ArraySinks
  <2>5. ArrayOK
    BY <1>1, <1>2, <1>3, <1>4, <2>2, <2>4 DEF ArrayOK, Carries
  <2> QED
    BY <1>2, <2>5 DEF OutInv
<1>6. CASE sink.kind = "string"
  <2>1. /\ sink.capacity - bytes \in Nat /\ sink.set \in BOOLEAN
        /\ sink = StringOut(bytes, sink.capacity - bytes, ~sink.set)
    BY <1>1, <1>6, SinkAssumption DEF bytes
  <2>2. PICK c \in Int, e \in BOOLEAN : sink = [kind |-> "string", memory |-> Garbage(bytes), initial |-> bytes,
                                     capacity |-> c, set |-> e]
    BY <2>1, <1>3 DEF StringOut
  <2>3. sink \in StringSinks /\ sink.initial = bytes /\ sink.memory = Garbage(bytes)
    BY <1>3, <1>4, <2>2 DEF StringSinks
  <2>4. StringOK
    BY <1>1, <1>2, <1>3, <1>4, <2>3 DEF StringOK, Carries
  <2> QED
    BY <1>2, <2>4 DEF OutInv
<1>7. CASE sink.kind = "copying"
  <2>1. /\ bytes > 0 /\ sink.faulty \in BOOLEAN /\ sink = CopyingOut(bytes, sink.faulty)
    BY <1>1, <1>7, SinkAssumption DEF bytes
  <2>2. PICK f \in BOOLEAN : sink = [kind |-> "copying", memory |-> Garbage(bytes), used |-> 0, position |-> 0,
                     failed |-> FALSE, faulty |-> f, arrived |-> <<>>, closed |-> FALSE]
    BY <2>1 DEF CopyingOut
  <2>3. sink \in CopyingSinks /\ sink.arrived = <<>> /\ sink.used = 0 /\ sink.position = 0 /\ sink.memory = Garbage(bytes)
    BY <1>4, <2>2 DEF CopyingSinks
  <2>4. CopyingOK
    BY <1>1, <1>2, <1>3, <1>4, <2>1, <2>3 DEF CopyingOK, Carries, Stocked
  <2> QED
    BY <1>2, <2>4 DEF OutInv
<1> QED
  BY <1>1, <1>5, <1>6, <1>7, SinkAssumption

-----------------------------------------------------------------------------
(* The methods                                                             *)

(* Next hands out the bytes after the position, *)
LEMMA ArrayNextIs ==
  ASSUME NEW s \in ArraySinks, s.position <= Len(s.memory), NEW r \in ArrayOutNext(s)
  PROVE  /\ r.at \in Nat /\ r.n \in Nat /\ r.s \in ArraySinks /\ r.s.memory = s.memory
         /\ r.n = 0 => r.s.position = s.position
         /\ r.n # 0 => /\ r.at = s.position /\ r.s.last = r.n
                       /\ r.s.position = s.position + r.n /\ r.s.position <= Len(s.memory)
<1>1. PICK m \in Seq(Int), b \in Nat, p \in Nat, l \in Nat :
        s = [kind |-> "array", memory |-> m, block |-> b, position |-> p, last |-> l]
  BY Zenon DEF ArraySinks
<1>n. PICK n : n = Smaller(b, Len(m) - p)
  OBVIOUS
<1>2. Len(m) \in Nat /\ p <= Len(m)
  BY <1>1, LenProperties
<1>3. n \in Nat /\ n <= Len(m) - p
  BY <1>n, <1>2 DEF Smaller
<1>4. r = IF n > 0 THEN Given(TRUE, p, n, [s EXCEPT !.position = p + n, !.last = n])
                   ELSE Given(FALSE, 0, 0, [s EXCEPT !.last = 0])
  BY <1>1, <1>n DEF ArrayOutNext
<1>5. CASE n > 0
  <2>1. r = [ok |-> TRUE, at |-> p, n |-> n,
             s |-> [kind |-> "array", memory |-> m, block |-> b, position |-> p + n, last |-> n]]
    BY <1>1, <1>4, <1>5 DEF Given
  <2>2. p + n \in Nat
    BY <1>3
  <2> QED
    BY <1>1, <1>2, <1>3, <1>5, <2>1, <2>2 DEF ArraySinks
<1>6. CASE n = 0
  <2>1. r = [ok |-> FALSE, at |-> 0, n |-> 0,
             s |-> [kind |-> "array", memory |-> m, block |-> b, position |-> p, last |-> 0]]
    <3>1. r = Given(FALSE, 0, 0, [s EXCEPT !.last = 0])
      BY <1>4, <1>6
    <3> QED
      BY <1>1, <3>1 DEF Given
  <2> QED
    BY <1>1, <2>1 DEF ArraySinks
<1> QED
  BY <1>3, <1>5, <1>6

(* One sequence after another *)
LEMMA Longer ==
  ASSUME NEW m \in Seq(Int), NEW g \in Seq(Int)
  PROVE  /\ m \o g \in Seq(Int) /\ Len(m \o g) = Len(m) + Len(g)
         /\ Len(m) \in Nat /\ Len(g) \in Nat
         /\ \A i \in 1..Len(m) : (m \o g)[i] = m[i]
         /\ \A i \in 1..Len(g) : (m \o g)[Len(m) + i] = g[i]
<1>1. Len(m) \in Nat /\ Len(g) \in Nat
  BY LenProperties
<1>2. /\ m \o g \in Seq(Int) /\ Len(m \o g) = Len(m) + Len(g)
      /\ \A i \in 1..(Len(m) + Len(g)) : (m \o g)[i] = IF i <= Len(m) THEN m[i] ELSE g[i - Len(m)]
  BY ConcatProperties
<1> DEFINE h == m \o g
<1> HIDE DEF h
<1>3. \A i \in 1..(Len(m) + Len(g)) : h[i] = IF i <= Len(m) THEN m[i] ELSE g[i - Len(m)]
  BY <1>2 DEF h
<1>4. \A i \in 1..Len(m) : h[i] = m[i]
  BY <1>1, <1>3, SMTT(30)
<1>5. ASSUME NEW i \in 1..Len(g) PROVE h[Len(m) + i] = g[i]
  <2>1. Len(m) + i \in 1..(Len(m) + Len(g)) /\ ~(Len(m) + i <= Len(m)) /\ (Len(m) + i) - Len(m) = i
    BY <1>1
  <2> QED
    BY <2>1, <1>3
<1> QED
  BY <1>1, <1>2, <1>4, <1>5 DEF h

(* The first n of a sequence *)
LEMMA Shorter ==
  ASSUME NEW m \in Seq(Int), NEW n \in Nat, n <= Len(m)
  PROVE  /\ SubSeq(m, 1, n) \in Seq(Int) /\ Len(SubSeq(m, 1, n)) = n
         /\ \A i \in 1..n : SubSeq(m, 1, n)[i] = m[i]
<1>1. Len(m) \in Nat
  BY LenProperties
<1>2. \A i \in 1..n : m[i] \in Int
  BY <1>1, ElementOfSeq
<1>3. n - 1 + 1 = n /\ (n < 1 => n = 0) /\ \A i \in 1..n : i \in Int /\ 1 + i - 1 = i
  OBVIOUS
<1>4. /\ SubSeq(m, 1, n) \in Seq(Int)
      /\ Len(SubSeq(m, 1, n)) = IF 1 <= n THEN n - 1 + 1 ELSE 0
      /\ \A i \in 1..(n - 1 + 1) : SubSeq(m, 1, n)[i] = m[1 + i - 1]
  BY <1>2, SubSeqProperties
<1> QED
  BY <1>3, <1>4

(* and what follows the first n, its last k *)
LEMMA AfterPrefix ==
  ASSUME NEW m \in Seq(Int), NEW n \in Nat, NEW k \in Nat, Len(m) = n + k,
         NEW d, d = SubSeq(m, n + 1, Len(m))
  PROVE  Len(d) = k /\ \A i \in 1..k : d[i] = m[n + i]
<1>1. \A i \in (n + 1)..(n + k) : m[i] \in Int
  BY ElementOfSeq
<1>2. /\ Len(d) = IF n + 1 <= n + k THEN (n + k) - (n + 1) + 1 ELSE 0
      /\ \A i \in 1..((n + k) - (n + 1) + 1) : d[i] = m[(n + 1) + i - 1]
  BY <1>1, SubSeqProperties
<1>3. Len(d) = k /\ (n + k) - (n + 1) + 1 = k
  BY <1>2
<1>4. ASSUME NEW i \in 1..k PROVE d[i] = m[n + i]
  <2>1. (n + 1) + i - 1 = n + i
    OBVIOUS
  <2>2. i \in 1..((n + k) - (n + 1) + 1)
    BY <1>3
  <2>3. d[i] = m[(n + 1) + i - 1]
    BY <1>2, <2>2
  <2> QED
    BY <2>1, <2>3
<1> QED
  BY <1>3, <1>4

(* a string grows, and keeps what it has, *)
LEMMA StringNextIs ==
  ASSUME NEW s \in StringSinks, NEW r \in StringOutNext(s)
  PROVE  /\ r.at \in Nat /\ r.n \in Nat /\ r.s \in StringSinks /\ r.s.set
         /\ r.s.initial = s.initial
         /\ Len(r.s.memory) = Len(s.memory) + r.n
         /\ r.n # 0 => r.at = Len(s.memory)
         /\ \A i \in 1..Len(s.memory) : r.s.memory[i] = s.memory[i]
<1>1. PICK m \in Seq(Int), j \in Nat, c \in Int, e \in BOOLEAN :
        s = [kind |-> "string", memory |-> m, initial |-> j, capacity |-> c, set |-> e]
  BY Zenon DEF StringSinks
<1>2. Len(m) \in Nat
  BY LenProperties
<1>3. ASSUME NEW size \in Nat, NEW d \in Int, size >= Len(m),
             r = Given(TRUE, Len(m), size - Len(m),
                  [s EXCEPT !.memory = m \o Garbage(size - Len(m)), !.capacity = d, !.set = TRUE])
      PROVE  /\ r.at = Len(m) /\ r.n \in Nat /\ r.s \in StringSinks /\ r.s.set
             /\ r.s.initial = s.initial
             /\ Len(r.s.memory) = Len(m) + r.n
             /\ \A i \in 1..Len(m) : r.s.memory[i] = m[i]
  <2>n. PICK n \in Nat : n = size - Len(m)
    BY <1>2, <1>3
  <2>1. Garbage(n) \in Seq(Int) /\ Len(Garbage(n)) = n
    BY GarbageIs
  <2>2. PICK h \in Seq(Int) : /\ h = m \o Garbage(n) /\ Len(h) = Len(m) + n
                              /\ \A i \in 1..Len(m) : h[i] = m[i]
    <3>g. PICK g : g = Garbage(n)
      OBVIOUS
    <3>h. PICK h : h = m \o g
      OBVIOUS
    <3>1. g \in Seq(Int) /\ Len(g) = n
      BY <2>1, <3>g
    <3>2. h \in Seq(Int) /\ Len(h) = Len(m) + n /\ \A i \in 1..Len(m) : h[i] = m[i]
      BY <3>1, <3>h, Longer
    <3> QED
      BY <3>g, <3>h, <3>2
  <2>3. r = [ok |-> TRUE, at |-> Len(m), n |-> n,
             s |-> [kind |-> "string", memory |-> h, initial |-> j, capacity |-> d, set |-> TRUE]]
    BY <1>1, <1>3, <2>n, <2>2 DEF Given
  <2> QED
    BY <1>1, <2>2, <2>3 DEF StringSinks
<1>d. PICK doubled : doubled = IF 2 * Len(m) > kMinimumSize THEN 2 * Len(m) ELSE kMinimumSize
  OBVIOUS
<1>4. doubled \in Nat /\ doubled >= Len(m)
  BY <1>d, <1>2, SinkAssumption
<1>5. CASE Len(m) < c
  <2>1. r = Given(TRUE, Len(m), c - Len(m),
                  [s EXCEPT !.memory = m \o Garbage(c - Len(m)), !.capacity = c, !.set = TRUE])
    BY <1>1, <1>5 DEF StringOutNext
  <2>2. c \in Nat /\ c >= Len(m)
    BY <1>2, <1>5
  <2> QED
    BY <1>1, <1>2, <1>3, <2>1, <2>2
<1>6. CASE ~(Len(m) < c) /\ Len(m) > MaxInt \div 2
  <2>1. r = [ok |-> FALSE, at |-> 0, n |-> 0,
             s |-> [kind |-> "string", memory |-> m, initial |-> j, capacity |-> c, set |-> TRUE]]
    BY <1>1, <1>6 DEF StringOutNext, Given
  <2> QED
    BY <1>1, <1>2, <2>1 DEF StringSinks
<1>7. CASE ~(Len(m) < c) /\ ~(Len(m) > MaxInt \div 2)
  <2>1. PICK d \in {doubled, doubled + 1} :
          r = Given(TRUE, Len(m), doubled - Len(m),
                  [s EXCEPT !.memory = m \o Garbage(doubled - Len(m)), !.capacity = d, !.set = TRUE])
    BY <1>1, <1>7, <1>d DEF StringOutNext
  <2>2. d \in Int
    BY <1>4
  <2> QED
    BY <1>1, <1>2, <1>3, <1>4, <2>1, <2>2
<1> QED
  BY <1>5, <1>6, <1>7

(* What a copying stream has: used bytes of its buffer are filled, and     *)
(* they follow the ones that arrived, of which there are position.         *)
Filled(s, n) == s.position = Len(s.arrived) /\ Carries(s.memory, 0, s.position, n)
Sound(s) ==
  /\ s \in CopyingSinks /\ Len(s.memory) > 0 /\ s.used <= Len(s.memory)
  /\ Carries(s.arrived, 0, 0, Len(s.arrived))

(* WriteBuffer lets the bytes of the buffer arrive, or a part of them.     *)
LEMMA WriteBufferIs ==
  ASSUME NEW s, Sound(s), ~s.failed => Filled(s, s.used), NEW r \in WriteBuffer(s)
  PROVE  /\ Sound(r.s) /\ r.ok \in BOOLEAN /\ r.n = 0 /\ r.at = 0 /\ Len(r.s.memory) = Len(s.memory)
         /\ r.ok => /\ ~s.failed /\ ~r.s.failed /\ r.s.used = 0 /\ Filled(r.s, 0)
                    /\ Len(r.s.arrived) = s.position + s.used
         /\ ~r.ok => /\ r.s.failed
                     /\ \/ s.failed /\ r.s = s
                        \/ ~s.failed /\ Len(r.s.arrived) <= s.position + s.used
<1>1. PICK m \in Seq(Int), u \in Nat, p \in Nat, d \in BOOLEAN, y \in BOOLEAN, a \in Seq(Int),
           z \in BOOLEAN :
        s = [kind |-> "copying", memory |-> m, used |-> u, position |-> p, failed |-> d,
             faulty |-> y, arrived |-> a, closed |-> z]
  BY Zenon DEF Sound, CopyingSinks
<1>2. /\ Len(m) \in Nat /\ Len(a) \in Nat /\ u <= Len(m) /\ Len(m) > 0
      /\ \A i \in 1..Len(a) : a[i] = i
  BY <1>1, LenProperties DEF Sound, Carries
<1>3. ~d => p = Len(a) /\ \A i \in 1..u : m[i] = p + i
  BY <1>1, <1>2 DEF Filled, Carries
<1>4. ASSUME ~d, NEW part \in Nat, part <= u, NEW h, h = a \o SubSeq(m, 1, part)
      PROVE  h \in Seq(Int) /\ Len(h) = p + part /\ \A i \in 1..Len(h) : h[i] = i
  <2>g. PICK g : g = SubSeq(m, 1, part)
    OBVIOUS
  <2>0. part <= Len(m)
    BY <1>2, <1>4
  <2>1. g \in Seq(Int) /\ Len(g) = part /\ \A i \in 1..part : g[i] = m[i]
    BY <2>0, <2>g, Shorter
  <2>2. /\ h \in Seq(Int) /\ Len(h) = Len(a) + part
        /\ \A i \in 1..Len(a) : h[i] = a[i]
        /\ \A i \in 1..part : h[Len(a) + i] = g[i]
    BY <1>4, <2>g, <2>1, Longer
  <2>3. ASSUME NEW i \in 1..(p + part) PROVE h[i] = i
    <3>1. CASE i <= p
      BY <3>1, <1>2, <1>3, <1>4, <2>2
    <3>2. CASE i > p
      <4>1. PICK j \in 1..part : i = p + j
        <5>1. i - p \in 1..part /\ i = p + (i - p)
          BY <3>2
        <5> QED
          BY <5>1
      <4>2. m[j] = p + j
        BY <1>3, <1>4
      <4> QED
        BY <4>1, <4>2, <1>3, <1>4, <2>1, <2>2
    <3> QED
      BY <3>1, <3>2
  <2> QED
    BY <2>2, <2>3, <1>3, <1>4
<1>5. CASE d
  <2>1. r = [ok |-> FALSE, at |-> 0, n |-> 0, s |-> s]
    BY <1>1, <1>5 DEF WriteBuffer, Given
  <2> QED
    BY <1>1, <1>5, <2>1
<1>6. CASE ~d /\ r.ok
  <2>h. PICK h : h = a \o SubSeq(m, 1, u)
    OBVIOUS
  <2>1. r = Given(TRUE, 0, 0, [s EXCEPT !.arrived = h, !.position = p + u, !.used = 0])
    <3>1. \/ r = Given(TRUE, 0, 0, [s EXCEPT !.arrived = h, !.position = p + u, !.used = 0])
          \/ \E part, x : r = Given(FALSE, 0, 0, x)
      BY <1>1, <1>6, <2>h, Zenon DEF WriteBuffer
    <3> QED
      BY <1>6, <3>1 DEF Given
  <2>2. r = [ok |-> TRUE, at |-> 0, n |-> 0,
             s |-> [kind |-> "copying", memory |-> m, used |-> 0, position |-> p + u,
                    failed |-> d, faulty |-> y, arrived |-> h, closed |-> z]]
    BY <1>1, <2>1 DEF Given
  <2>3. h \in Seq(Int) /\ Len(h) = p + u /\ \A i \in 1..Len(h) : h[i] = i
    <3>1. u \in Nat /\ u <= u
      OBVIOUS
    <3> QED
      BY <1>4, <1>6, <2>h, <3>1
  <2> QED
    BY <1>1, <1>2, <1>6, <2>2, <2>3 DEF Sound, Filled, Carries, CopyingSinks
<1>7. CASE ~d /\ ~r.ok
  <2>1. PICK part \in 0..(u - 1) :
          r = Given(FALSE, 0, 0, [s EXCEPT !.arrived = a \o SubSeq(m, 1, part), !.failed = TRUE,
                                           !.used = 0, !.memory = Garbage(Len(m))])
    <3>1. /\ s.failed = d /\ s.faulty = y /\ s.used = u /\ s.arrived = a /\ s.memory = m
          /\ s.position = p
      BY <1>1
    <3>2. \/ r = Given(TRUE, 0, 0, [s EXCEPT !.arrived = a \o SubSeq(m, 1, u),
                                             !.position = p + u, !.used = 0])
          \/ r \in {Given(FALSE, 0, 0, [s EXCEPT !.arrived = a \o SubSeq(m, 1, part), !.failed = TRUE,
                                           !.used = 0, !.memory = Garbage(Len(m))]) :
                    part \in 0..(u - 1)}
      <4>1. r \in {Given(TRUE, 0, 0, [s EXCEPT !.arrived = a \o SubSeq(m, 1, u),
                                             !.position = p + u, !.used = 0])}
                  \cup (IF y /\ u > 0 THEN
                      {Given(FALSE, 0, 0, [s EXCEPT !.arrived = a \o SubSeq(m, 1, part), !.failed = TRUE,
                                           !.used = 0, !.memory = Garbage(Len(m))]) :
                    part \in 0..(u - 1)} ELSE {})
        BY <3>1, <1>7 DEF WriteBuffer
      <4> QED
        BY <4>1, Zenon
    <3>3. \A x : r # Given(TRUE, 0, 0, x)
      BY <1>7 DEF Given
    <3> QED
      BY <3>2, <3>3, Zenon
  <2>h. PICK h : h = a \o SubSeq(m, 1, part)
    OBVIOUS
  <2>g. PICK g : g = Garbage(Len(m))
    OBVIOUS
  <2>2. r = [ok |-> FALSE, at |-> 0, n |-> 0,
             s |-> [kind |-> "copying", memory |-> g, used |-> 0, position |-> p,
                    failed |-> TRUE, faulty |-> y, arrived |-> h, closed |-> z]]
    BY <1>1, <2>1, <2>g, <2>h DEF Given
  <2>3. part \in Nat /\ part <= u
    OBVIOUS
  <2>4. h \in Seq(Int) /\ Len(h) = p + part /\ \A i \in 1..Len(h) : h[i] = i
    BY <1>4, <1>7, <2>h, <2>3
  <2>5. g \in Seq(Int) /\ Len(g) = Len(m)
    BY <1>2, <2>g, GarbageIs
  <2> QED
    BY <1>1, <1>2, <1>7, <2>2, <2>3, <2>4, <2>5 DEF Sound, Carries, CopyingSinks
<1> QED
  BY <1>5, <1>6, <1>7

(* Next empties a full buffer and hands out what is free, if it can.       *)
LEMMA CopyingNextIs ==
  ASSUME NEW s, Sound(s), ~s.failed => Filled(s, s.used), NEW r \in CopyingOutNext(s)
  PROVE  /\ Sound(r.s) /\ r.at \in Nat /\ r.n \in Nat
         /\ r.n = 0 => /\ r.s.failed
                       /\ \/ s.failed /\ r.s = s
                          \/ ~s.failed /\ Len(r.s.arrived) <= s.position + s.used
         /\ r.n # 0 => /\ r.s.used = Len(r.s.memory) /\ Len(r.s.memory) = r.at + r.n
                       /\ r.s.failed = s.failed
                       /\ s.failed => r.s.arrived = s.arrived
                       /\ ~s.failed => /\ Filled(r.s, r.at)
                                       /\ r.s.position + r.at = s.position + s.used
<1>1. ASSUME NEW x, Sound(x), x.used < Len(x.memory), NEW q \in HandOut(Given(TRUE, 0, 0, x))
      PROVE  /\ Sound(q.s) /\ q.at = x.used /\ q.n \in Nat \ {0}
             /\ q.s.used = Len(q.s.memory) /\ Len(q.s.memory) = q.at + q.n
             /\ q.s.failed = x.failed /\ q.s.arrived = x.arrived /\ q.s.memory = x.memory
             /\ q.s.position = x.position /\ q.at \in Nat
  <2>1. PICK m \in Seq(Int), u \in Nat, p \in Nat, d \in BOOLEAN, y \in BOOLEAN, a \in Seq(Int),
             z \in BOOLEAN :
          x = [kind |-> "copying", memory |-> m, used |-> u, position |-> p, failed |-> d,
               faulty |-> y, arrived |-> a, closed |-> z]
    BY <1>1, Zenon DEF Sound, CopyingSinks
  <2>2. q = [ok |-> TRUE, at |-> u, n |-> Len(m) - u,
             s |-> [kind |-> "copying", memory |-> m, used |-> Len(m), position |-> p,
                    failed |-> d, faulty |-> y, arrived |-> a, closed |-> z]]
    BY <1>1, <2>1 DEF HandOut, Given
  <2>3. Len(m) \in Nat /\ u < Len(m) /\ Carries(a, 0, 0, Len(a))
    BY <1>1, <2>1, LenProperties DEF Sound
  <2> QED
    BY <2>1, <2>2, <2>3, SMTT(30) DEF Sound, CopyingSinks
<1>2. CASE s.used = Len(s.memory)
  <2>1. PICK w \in WriteBuffer(s) : r \in HandOut(w)
    BY <1>2, Zenon DEF CopyingOutNext
  <2>2. /\ Sound(w.s) /\ w.n = 0 /\ w.at = 0 /\ Len(w.s.memory) = Len(s.memory)
        /\ w.ok => /\ ~s.failed /\ ~w.s.failed /\ w.s.used = 0 /\ Filled(w.s, 0)
                   /\ Len(w.s.arrived) = s.position + s.used
        /\ ~w.ok => /\ w.s.failed
                    /\ \/ s.failed /\ w.s = s
                       \/ ~s.failed /\ Len(w.s.arrived) <= s.position + s.used
    BY WriteBufferIs
  <2>3. CASE ~w.ok
    <3>1. r = w
      BY <2>1, <2>3 DEF HandOut
    <3> QED
      BY <2>2, <2>3, <3>1
  <2>4. CASE w.ok
    <3>1. r \in HandOut(Given(TRUE, 0, 0, w.s))
      BY <2>1, <2>4 DEF HandOut, Given
    <3>2. w.s.used < Len(w.s.memory)
      BY <2>2, <2>4 DEF Sound
    <3>3. /\ Sound(r.s) /\ r.at = 0 /\ r.n \in Nat \ {0}
          /\ r.s.used = Len(r.s.memory) /\ Len(r.s.memory) = r.at + r.n
          /\ r.s.failed = w.s.failed /\ r.s.arrived = w.s.arrived /\ r.s.memory = w.s.memory
          /\ r.s.position = w.s.position
      <4>x. PICK x : x = w.s
        OBVIOUS
      <4>1. Sound(x) /\ x.used < Len(x.memory) /\ r \in HandOut(Given(TRUE, 0, 0, x)) /\ x.used = 0
        BY <4>x, <2>2, <2>4, <3>1, <3>2
      <4>2. /\ Sound(r.s) /\ r.at = x.used /\ r.n \in Nat \ {0}
            /\ r.s.used = Len(r.s.memory) /\ Len(r.s.memory) = r.at + r.n
            /\ r.s.failed = x.failed /\ r.s.arrived = x.arrived /\ r.s.memory = x.memory
            /\ r.s.position = x.position
        BY <1>1, <4>1
      <4> QED
        BY <4>x, <4>1, <4>2
    <3>4. Filled(r.s, r.at) /\ r.s.position + r.at = s.position + s.used
      <4>1. w.s.position = Len(w.s.arrived) /\ w.s.position \in Nat
        BY <2>2, <2>4 DEF Filled, Sound, CopyingSinks
      <4> QED
        BY <4>1, <2>2, <2>4, <3>3 DEF Filled, Carries
    <3>5. r.s.failed = s.failed
      <4>1. r.s.failed \in BOOLEAN /\ s.failed \in BOOLEAN /\ ~r.s.failed /\ ~s.failed
        BY <2>2, <2>4, <3>3 DEF Sound, CopyingSinks
      <4> QED
        BY <4>1
    <3>6. r.at \in Nat /\ r.n # 0 /\ ~s.failed
      BY <2>2, <2>4, <3>3
    <3> QED
      BY <3>3, <3>4, <3>5, <3>6
  <2> QED
    BY <2>3, <2>4
<1>3. CASE s.used # Len(s.memory)
  <2>1. r \in HandOut(Given(TRUE, 0, 0, s))
    BY <1>3 DEF CopyingOutNext
  <2>2. Len(s.memory) \in Nat /\ s.used \in Nat /\ s.position \in Nat
    BY LenProperties DEF Sound, CopyingSinks
  <2>3. s.used < Len(s.memory)
    BY <1>3, <2>2 DEF Sound
  <2>4. /\ Sound(r.s) /\ r.at = s.used /\ r.n \in Nat \ {0}
        /\ r.s.used = Len(r.s.memory) /\ Len(r.s.memory) = r.at + r.n
        /\ r.s.failed = s.failed /\ r.s.arrived = s.arrived /\ r.s.memory = s.memory
        /\ r.s.position = s.position /\ r.at \in Nat
    BY <1>1, <2>1, <2>3
  <2> QED
    BY <2>2, <2>4 DEF Filled
<1> QED
  BY <1>2, <1>3

-----------------------------------------------------------------------------
(* The client                                                              *)

(* It stores its bytes in its buffer and nowhere else. *)
WithBytes(m, at, count, w) ==
  [i \in DOMAIN m |-> IF i \in (at + 1)..(at + count) THEN w + i - at ELSE m[i]]

(* The client stores count bytes from place at on, after w earlier ones. *)
LEMMA StoredIs ==
  ASSUME NEW m \in Seq(Int), NEW at \in Nat, NEW count \in Nat, at + count <= Len(m),
         NEW w \in Nat, NEW h, h = WithBytes(m, at, count, w)
  PROVE  /\ h \in Seq(Int) /\ Len(h) = Len(m)
         /\ \A i \in 1..at : h[i] = m[i]
         /\ \A i \in 1..count : h[at + i] = w + i
<1>n. PICK n \in Nat : n = Len(m)
  BY LenProperties
<1>1. DOMAIN m = 1..n /\ \A i \in 1..n : m[i] \in Int
  BY <1>n, LenProperties, ElementOfSeq
<1>2. h = [i \in 1..n |-> IF i \in (at + 1)..(at + count) THEN w + i - at ELSE m[i]]
  BY <1>1 DEF WithBytes
<1>3. h \in [1..n -> Int]
  <2>1. \A i \in 1..n : (IF i \in (at + 1)..(at + count) THEN w + i - at ELSE m[i]) \in Int
    BY <1>1
  <2> QED
    BY <1>2, <2>1
<1>4. h \in Seq(Int) /\ Len(h) = n
  BY <1>3
<1>5. \A i \in 1..at : h[i] = m[i]
  BY <1>2, <1>n
<1>6. ASSUME NEW i \in 1..count PROVE h[at + i] = w + i
  <2>j. PICK j \in Int : j = at + i
    OBVIOUS
  <2>1. j \in 1..n /\ j \in (at + 1)..(at + count) /\ w + j - at = w + i
    BY <2>j, <1>n
  <2> QED
    BY <1>2, <2>j, <2>1
<1> QED
  BY <1>n, <1>4, <1>5, <1>6

(* The bytes follow the ones before. *)
LEMMA StoredOn ==
  ASSUME NEW m, NEW h, NEW base \in Nat, NEW mark \in Nat, NEW k \in Nat, NEW count \in Nat,
         Carries(m, base, mark, k),
         \A i \in 1..(base + k) : h[i] = m[i],
         \A i \in 1..count : h[(base + k) + i] = (mark + k) + i
  PROVE  Carries(h, base, mark, k + count)
<1>1. ASSUME NEW i \in 1..(k + count) PROVE h[base + i] = mark + i
  <2>1. CASE i <= k
    <3>1. base + i \in 1..(base + k) /\ i \in 1..k
      BY <2>1
    <3> QED
      BY <3>1 DEF Carries
  <2>2. CASE i > k
    <3>1. PICK j \in 1..count : i = k + j
      <4>1. i - k \in 1..count /\ i = k + (i - k)
        BY <2>2
      <4> QED
        BY <4>1
    <3>2. base + i = (base + k) + j /\ mark + i = (mark + k) + j
      BY <3>1
    <3> QED
      BY <3>2
  <2> QED
    BY <2>1, <2>2
<1> QED
  BY <1>1 DEF Carries

(* What stored bytes and a rest given back leave of an array               *)
LEMMA ArrayFilled ==
  ASSUME ClientOK, ArrayOK, NEW count \in 0..handed.n, OutFill(count)
  PROVE  ClientOK' /\ ArrayOK'
<1>1. PICK m \in Seq(Int), b \in Nat, p \in Nat, l \in Nat :
        sink = [kind |-> "array", memory |-> m, block |-> b, position |-> p, last |-> l]
  BY Zenon DEF ArraySinks, ArrayOK
<1>2. PICK at \in Nat, n \in Nat : handed = [at |-> at, n |-> n]
  BY DEF ClientOK
<1>w. PICK w \in Nat : w = wrote
  BY DEF ClientOK
<1>3. /\ Len(m) \in Nat /\ n # 0 /\ at = w /\ p = w + n /\ p <= Len(m)
      /\ Carries(m, 0, 0, w) /\ count \in Nat /\ count <= n /\ flushed \in BOOLEAN
      /\ handed' = [at |-> 0, n |-> 0] /\ wrote' = w + count /\ flushed' = flushed
  BY <1>1, <1>2, <1>w, LenProperties DEF ArrayOK, ClientOK, Idle, OutFill
<1>h. PICK h : h = WithBytes(m, at, count, w)
  OBVIOUS
<1>4. /\ h \in Seq(Int) /\ Len(h) = Len(m) /\ \A i \in 1..at : h[i] = m[i]
      /\ \A i \in 1..count : h[at + i] = w + i
  <2>1. /\ m \in Seq(Int) /\ at \in Nat /\ count \in Nat /\ at + count <= Len(m) /\ w \in Nat
        /\ h = WithBytes(m, at, count, w)
    BY <1>1, <1>2, <1>3, <1>w, <1>h
  <2>2. h \in Seq(Int)
    BY <2>1, StoredIs
  <2>3. Len(h) = Len(m)
    BY <2>1, StoredIs
  <2>4. \A i \in 1..at : h[i] = m[i]
    BY <2>1, StoredIs
  <2>5. \A i \in 1..count : h[at + i] = w + i
    BY <2>1, StoredIs
  <2> QED
    BY <2>2, <2>3, <2>4, <2>5
<1>5. Stored(sink, at, count)
        = [kind |-> "array", memory |-> h, block |-> b, position |-> p, last |-> l]
  <2>1. sink.memory = m
    BY <1>1
  <2>2. Stored(sink, at, count) = [sink EXCEPT !.memory = h]
    BY <2>1, <1>h, <1>w, Zenon DEF Stored, WithBytes
  <2> QED
    BY <1>1, <2>2
<1>6. Carries(h, 0, 0, w + count)
  <2>1. 0 + w = w /\ w + count \in Nat /\ \A i \in 1..w : h[i] = m[i]
    BY <1>3, <1>4
  <2> QED
    BY <2>1, <1>3, <1>4, StoredOn
<1>7. \E q \in Nat, k \in Nat :
        /\ sink' = [kind |-> "array", memory |-> h, block |-> b, position |-> q, last |-> k]
        /\ q = w + count
  <2>1. CASE count < n
    <3>1. sink' = SinkBackUp(Stored(sink, at, count), n - count)
      BY <2>1, <1>2 DEF OutFill
    <3>2. sink' = [kind |-> "array", memory |-> h, block |-> b, position |-> p - (n - count),
                   last |-> 0]
      <4>x. PICK x : x = Stored(sink, at, count)
        OBVIOUS
      <4>1. x.kind = "array" /\ sink' = SinkBackUp(x, n - count)
        BY <4>x, <3>1, <1>5
      <4>2. sink' = [x EXCEPT !.position = @ - (n - count), !.last = 0]
        BY <4>1 DEF SinkBackUp
      <4>3. x = [kind |-> "array", memory |-> h, block |-> b, position |-> p, last |-> l]
        BY <4>x, <1>5
      <4> QED
        BY <4>2, <4>3
    <3>3. p - (n - count) \in Nat /\ p - (n - count) = w + count
      BY <1>3, <2>1
    <3> QED
      BY <3>2, <3>3
  <2>2. CASE count = n
    <3>1. sink' = Stored(sink, at, count)
      BY <2>2, <1>2 DEF OutFill
    <3> QED
      BY <3>1, <1>3, <1>5, <2>2
  <2> QED
    BY <2>1, <2>2, <1>3
<1>8. PICK q \in Nat, k \in Nat :
        /\ sink' = [kind |-> "array", memory |-> h, block |-> b, position |-> q, last |-> k]
        /\ q = w + count
  BY <1>7
<1>9. sink' \in ArraySinks /\ sink'.position = w + count /\ sink'.memory = h
  BY <1>4, <1>8 DEF ArraySinks
<1>10. handed' \in [at : Nat, n : Nat] /\ handed'.n = 0 /\ w + count \in Nat
  BY <1>3
<1>11. sink'.position <= Len(h)
  BY <1>3, <1>4, <1>9
<1> QED
  BY <1>3, <1>6, <1>9, <1>10, <1>11 DEF ClientOK, ArrayOK, Idle

(* The same of a string, whose rest BackUp cuts off                        *)
LEMMA StringFilled ==
  ASSUME ClientOK, StringOK, NEW count \in 0..handed.n, OutFill(count)
  PROVE  ClientOK' /\ StringOK'
<1>1. PICK m \in Seq(Int), j \in Nat, c \in Int, e \in BOOLEAN :
        sink = [kind |-> "string", memory |-> m, initial |-> j, capacity |-> c, set |-> e]
  BY Zenon DEF StringSinks, StringOK
<1>2. PICK at \in Nat, n \in Nat : handed = [at |-> at, n |-> n]
  BY DEF ClientOK
<1>w. PICK w \in Nat : w = wrote
  BY DEF ClientOK
<1>3. /\ n # 0 /\ e /\ at = j + w /\ Len(m) = at + n
      /\ Carries(m, j, 0, w) /\ count \in Nat /\ count <= n /\ flushed \in BOOLEAN
      /\ handed' = [at |-> 0, n |-> 0] /\ wrote' = w + count /\ flushed' = flushed
  BY <1>1, <1>2, <1>w DEF StringOK, ClientOK, Idle, OutFill
<1>h. PICK h : h = WithBytes(m, at, count, w)
  OBVIOUS
<1>4. /\ h \in Seq(Int) /\ Len(h) = Len(m) /\ \A i \in 1..at : h[i] = m[i]
      /\ \A i \in 1..count : h[at + i] = w + i
  <2>1. /\ m \in Seq(Int) /\ at \in Nat /\ count \in Nat /\ at + count <= Len(m) /\ w \in Nat
        /\ h = WithBytes(m, at, count, w)
    BY <1>1, <1>2, <1>3, <1>w, <1>h
  <2>2. h \in Seq(Int)
    BY <2>1, StoredIs
  <2>3. Len(h) = Len(m)
    BY <2>1, StoredIs
  <2>4. \A i \in 1..at : h[i] = m[i]
    BY <2>1, StoredIs
  <2>5. \A i \in 1..count : h[at + i] = w + i
    BY <2>1, StoredIs
  <2> QED
    BY <2>2, <2>3, <2>4, <2>5
<1>5. Stored(sink, at, count)
        = [kind |-> "string", memory |-> h, initial |-> j, capacity |-> c, set |-> e]
  <2>1. sink.memory = m
    BY <1>1
  <2>2. Stored(sink, at, count) = [sink EXCEPT !.memory = h]
    BY <2>1, <1>h, <1>w, Zenon DEF Stored, WithBytes
  <2> QED
    BY <1>1, <2>2
<1>6. Carries(h, j, 0, w + count)
  <2>1. at = j + w /\ w = 0 + w
    BY <1>3
  <2> QED
    BY <2>1, <1>3, <1>4, StoredOn
<1>7. PICK q \in Seq(Int) :
        /\ sink' = [kind |-> "string", memory |-> q, initial |-> j, capacity |-> c, set |-> e]
        /\ Len(q) = at + count /\ \A i \in 1..(at + count) : q[i] = h[i]
  <2>1. CASE count < n
    <3>q. PICK q : q = SubSeq(h, 1, at + count)
      OBVIOUS
    <3>1. PICK x : x = Stored(sink, at, count) /\ sink' = SinkBackUp(x, n - count)
      BY <2>1, <1>2 DEF OutFill
    <3>2. x.kind = "string" /\ x.memory = h
      BY <3>1, <1>5
    <3>3. sink' = [x EXCEPT !.memory = SubSeq(h, 1, Len(h) - (n - count))]
      BY <3>1, <3>2 DEF SinkBackUp
    <3>4. Len(h) - (n - count) = at + count /\ at + count \in Nat /\ at + count <= Len(h)
      BY <1>3, <1>4
    <3>5. q \in Seq(Int) /\ Len(q) = at + count /\ \A i \in 1..(at + count) : q[i] = h[i]
      BY <3>q, <3>4, <1>4, Shorter
    <3>6. sink' = [x EXCEPT !.memory = q]
      BY <3>q, <3>3, <3>4
    <3>7. sink' = [kind |-> "string", memory |-> q, initial |-> j, capacity |-> c, set |-> e]
      BY <3>1, <3>6, <1>5, SMTT(30)
    <3> QED
      BY <3>5, <3>7
  <2>2. CASE count = n
    <3>1. sink' = Stored(sink, at, count)
      BY <2>2, <1>2 DEF OutFill
    <3> QED
      BY <3>1, <1>3, <1>4, <1>5, <2>2
  <2> QED
    BY <2>1, <2>2, <1>3
<1>8. Carries(q, j, 0, w + count)
  <2>1. \A i \in 1..(w + count) : j + i \in 1..(at + count)
    BY <1>3
  <2> QED
    BY <2>1, <1>6, <1>7 DEF Carries
<1>9. sink' \in StringSinks /\ sink'.memory = q /\ sink'.initial = j /\ sink'.set
  BY <1>3, <1>7 DEF StringSinks
<1>10. handed' \in [at : Nat, n : Nat] /\ handed'.n = 0 /\ w + count \in Nat
  BY <1>3
<1>11. Len(q) = j + (w + count)
  BY <1>3, <1>7
<1> QED
  BY <1>3, <1>8, <1>9, <1>10, <1>11 DEF ClientOK, StringOK, Idle

(* and of a copying stream, whose failed buffer is no longer of interest   *)
LEMMA CopyingFilled ==
  ASSUME ClientOK, CopyingOK, NEW count \in 0..handed.n, OutFill(count)
  PROVE  ClientOK' /\ CopyingOK'
<1>1. PICK m \in Seq(Int), u \in Nat, p \in Nat, d \in BOOLEAN, y \in BOOLEAN, a \in Seq(Int),
           z \in BOOLEAN :
        sink = [kind |-> "copying", memory |-> m, used |-> u, position |-> p, failed |-> d,
                faulty |-> y, arrived |-> a, closed |-> z]
  BY Zenon DEF CopyingOK, CopyingSinks
<1>2. PICK at \in Nat, n \in Nat : handed = [at |-> at, n |-> n]
  BY DEF ClientOK
<1>w. PICK w \in Nat : w = wrote
  BY DEF ClientOK
<1>3. /\ n # 0 /\ u = Len(m) /\ Len(m) = at + n /\ ~flushed
      /\ Carries(a, 0, 0, Len(a)) /\ Len(a) <= w
      /\ ~d => Len(a) = p /\ p + at = w /\ Carries(m, 0, p, at)
      /\ count \in Nat /\ count <= n /\ flushed \in BOOLEAN
      /\ handed' = [at |-> 0, n |-> 0] /\ wrote' = w + count /\ flushed' = flushed
  BY <1>1, <1>2, <1>w DEF CopyingOK, ClientOK, Idle, Stocked, OutFill
<1>h. PICK h : h = WithBytes(m, at, count, w)
  OBVIOUS
<1>4. /\ h \in Seq(Int) /\ Len(h) = Len(m) /\ \A i \in 1..at : h[i] = m[i]
      /\ \A i \in 1..count : h[at + i] = w + i
  <2>1. /\ m \in Seq(Int) /\ at \in Nat /\ count \in Nat /\ at + count <= Len(m) /\ w \in Nat
        /\ h = WithBytes(m, at, count, w)
    BY <1>1, <1>2, <1>3, <1>w, <1>h
  <2>2. h \in Seq(Int)
    BY <2>1, StoredIs
  <2>3. Len(h) = Len(m)
    BY <2>1, StoredIs
  <2>4. \A i \in 1..at : h[i] = m[i]
    BY <2>1, StoredIs
  <2>5. \A i \in 1..count : h[at + i] = w + i
    BY <2>1, StoredIs, SMTT(30)
  <2> QED
    BY <2>2, <2>3, <2>4, <2>5
<1>5. Stored(sink, at, count)
        = [kind |-> "copying", memory |-> h, used |-> u, position |-> p, failed |-> d,
           faulty |-> y, arrived |-> a, closed |-> z]
  <2>1. sink.memory = m
    BY <1>1
  <2>2. Stored(sink, at, count) = [sink EXCEPT !.memory = h]
    BY <2>1, <1>h, <1>w, Zenon DEF Stored, WithBytes
  <2> QED
    BY <1>1, <2>2
<1>6. ~d => Carries(h, 0, p, at + count)
  <2>1. ASSUME ~d PROVE Carries(h, 0, p, at + count)
    <3>1. at = 0 + at /\ w = p + at /\ Carries(m, 0, p, at)
      BY <1>3, <2>1
    <3> QED
      BY <3>1, <1>3, <1>4, StoredOn
  <2> QED
    BY <2>1
<1>7. sink' = [kind |-> "copying", memory |-> h, used |-> at + count, position |-> p, failed |-> d,
               faulty |-> y, arrived |-> a, closed |-> z]
  <2>1. CASE count < n
    <3>1. PICK x : x = Stored(sink, at, count) /\ sink' = SinkBackUp(x, n - count)
      BY <2>1, <1>2 DEF OutFill
    <3>2. x.kind = "copying" /\ x.used = u
      BY <3>1, <1>5
    <3>3. sink' = [x EXCEPT !.used = u - (n - count)]
      BY <3>1, <3>2 DEF SinkBackUp
    <3>4. u - (n - count) = at + count
      BY <1>3
    <3> QED
      BY <3>1, <3>3, <3>4, <1>5, SMTT(30)
  <2>2. CASE count = n
    <3>1. sink' = Stored(sink, at, count)
      BY <2>2, <1>2 DEF OutFill
    <3>2. u = at + count
      BY <1>3, <2>2
    <3> QED
      BY <3>1, <3>2, <1>5
  <2> QED
    BY <2>1, <2>2, <1>3
<1>8. at + count \in Nat /\ at + count <= Len(h) /\ Len(h) > 0 /\ w + count \in Nat
      /\ Len(a) \in Nat /\ Len(a) <= w + count
  BY <1>3, <1>4, LenProperties
<1>9. /\ sink' \in CopyingSinks /\ sink'.memory = h /\ sink'.used = at + count
      /\ sink'.position = p /\ sink'.failed = d /\ sink'.arrived = a
  BY <1>4, <1>7, <1>8 DEF CopyingSinks
<1>10. handed' \in [at : Nat, n : Nat] /\ handed'.n = 0
  BY <1>3
<1>11. ~d => p + (at + count) = w + count
  BY <1>3
<1> QED
  BY <1>3, <1>6, <1>8, <1>9, <1>10, <1>11 DEF ClientOK, CopyingOK, Idle, Stocked

-----------------------------------------------------------------------------
(* The steps                                                               *)

(* Next keeps the invariant of an array, *)
LEMMA ArrayHandsOut ==
  ASSUME ClientOK, ArrayOK, OutNextBuffer
  PROVE  ClientOK' /\ ArrayOK'
<1>1. /\ sink \in ArraySinks /\ sink.kind = "array" /\ wrote \in Nat
      /\ sink.position = wrote /\ sink.position <= Len(sink.memory)
      /\ Carries(sink.memory, 0, 0, wrote) /\ wrote' = wrote /\ flushed' = FALSE
  BY DEF ClientOK, ArrayOK, OutNextBuffer, ArraySinks
<1>2. PICK r \in ArrayOutNext(sink) : sink' = r.s /\ handed' = [at |-> r.at, n |-> r.n]
  BY <1>1 DEF OutNextBuffer, SinkNext
<1>3. /\ r.at \in Nat /\ r.n \in Nat /\ r.s \in ArraySinks /\ r.s.memory = sink.memory
      /\ r.n = 0 => r.s.position = sink.position
      /\ r.n # 0 => /\ r.at = sink.position /\ r.s.last = r.n
                    /\ r.s.position = sink.position + r.n /\ r.s.position <= Len(sink.memory)
  BY <1>1, <1>2, ArrayNextIs
<1>4. handed' \in [at : Nat, n : Nat] /\ handed'.at = r.at /\ handed'.n = r.n
  BY <1>2, <1>3
<1> QED
  BY <1>1, <1>2, <1>3, <1>4 DEF ClientOK, ArrayOK, Idle

(* of a string, which it may grow, *)
LEMMA StringHandsOut ==
  ASSUME ClientOK, StringOK, OutNextBuffer
  PROVE  ClientOK' /\ StringOK'
<1>1. /\ sink \in StringSinks /\ sink.kind = "string" /\ wrote \in Nat /\ sink.initial \in Nat
      /\ Len(sink.memory) = sink.initial + wrote
      /\ Carries(sink.memory, sink.initial, 0, wrote) /\ wrote' = wrote /\ flushed' = FALSE
  BY DEF ClientOK, StringOK, OutNextBuffer, StringSinks
<1>2. PICK r \in StringOutNext(sink) : sink' = r.s /\ handed' = [at |-> r.at, n |-> r.n]
  BY <1>1 DEF OutNextBuffer, SinkNext
<1>3. /\ r.at \in Nat /\ r.n \in Nat /\ r.s \in StringSinks /\ r.s.set
      /\ r.s.initial = sink.initial
      /\ Len(r.s.memory) = Len(sink.memory) + r.n
      /\ r.n # 0 => r.at = Len(sink.memory)
      /\ \A i \in 1..Len(sink.memory) : r.s.memory[i] = sink.memory[i]
  BY <1>1, <1>2, StringNextIs
<1>4. handed' \in [at : Nat, n : Nat] /\ handed'.at = r.at /\ handed'.n = r.n
  BY <1>2, <1>3
<1>5. Carries(r.s.memory, sink.initial, 0, wrote)
  <2>1. \A i \in 1..wrote : sink.initial + i \in 1..Len(sink.memory)
    BY <1>1
  <2> QED
    BY <2>1, <1>1, <1>3 DEF Carries
<1>6. ClientOK' /\ (Idle' <=> r.n = 0)
  BY <1>1, <1>4 DEF ClientOK, Idle
<1>7. /\ Idle' => Len(r.s.memory) = sink.initial + wrote
      /\ ~Idle' => r.at = sink.initial + wrote /\ Len(r.s.memory) = r.at + r.n
  BY <1>1, <1>3, <1>6
<1>8. StringOK'
  BY <1>1, <1>2, <1>3, <1>4, <1>5, <1>7 DEF StringOK
<1> QED
  BY <1>6, <1>8

(* and of a copying stream, which may have to write, and fail, first.      *)
LEMMA CopyingHandsOut ==
  ASSUME ClientOK, CopyingOK, OutNextBuffer
  PROVE  ClientOK' /\ CopyingOK'
<1>1. /\ sink \in CopyingSinks /\ sink.kind = "copying" /\ wrote \in Nat
      /\ Sound(sink) /\ Len(sink.arrived) <= wrote
      /\ ~sink.failed => Filled(sink, sink.used) /\ sink.position + sink.used = wrote
      /\ wrote' = wrote /\ flushed' = FALSE
  BY DEF ClientOK, CopyingOK, OutNextBuffer, CopyingSinks, Idle, Stocked, Sound, Filled
<1>2. PICK r \in CopyingOutNext(sink) : sink' = r.s /\ handed' = [at |-> r.at, n |-> r.n]
  BY <1>1 DEF OutNextBuffer, SinkNext
<1>3. /\ Sound(r.s) /\ r.at \in Nat /\ r.n \in Nat
      /\ r.n = 0 => /\ r.s.failed
                    /\ \/ sink.failed /\ r.s = sink
                       \/ ~sink.failed /\ Len(r.s.arrived) <= sink.position + sink.used
      /\ r.n # 0 => /\ r.s.used = Len(r.s.memory) /\ Len(r.s.memory) = r.at + r.n
                    /\ r.s.failed = sink.failed
                    /\ sink.failed => r.s.arrived = sink.arrived
                    /\ ~sink.failed => /\ Filled(r.s, r.at)
                                       /\ r.s.position + r.at = sink.position + sink.used
  BY <1>1, <1>2, CopyingNextIs
<1>4. handed' \in [at : Nat, n : Nat] /\ handed'.at = r.at /\ handed'.n = r.n
  BY <1>2, <1>3
<1>5. Len(r.s.arrived) <= wrote
  <2>1. CASE r.n # 0 /\ ~sink.failed
    <3>1. Len(r.s.arrived) = r.s.position /\ r.s.position + r.at = wrote /\ r.s.position \in Nat
      BY <2>1, <1>1, <1>3 DEF Filled, Sound, CopyingSinks
    <3> QED
      BY <3>1, <1>1, <1>3
  <2> QED
    BY <2>1, <1>1, <1>3
<1>6. /\ ~r.s.failed => r.n # 0 /\ ~sink.failed
      /\ r.s \in CopyingSinks
  BY <1>3 DEF Sound
<1> QED
  BY <1>1, <1>2, <1>3, <1>4, <1>5, <1>6
     DEF ClientOK, CopyingOK, Idle, Stocked, Sound, Filled

(* Flush, and Close apart from the flag *)
LEMMA FlushKeeps ==
  ASSUME ClientOK, CopyingOK, Idle, NEW r \in WriteBuffer(sink), NEW z \in BOOLEAN, NEW f \in BOOLEAN,
         sink' = r.s \/ sink' = [r.s EXCEPT !.closed = z],
         flushed' = f, f => r.ok, UNCHANGED <<wrote, handed>>
  PROVE  ClientOK' /\ CopyingOK'
<1>1. /\ wrote \in Nat /\ Sound(sink) /\ Len(sink.arrived) <= wrote
      /\ ~sink.failed => Filled(sink, sink.used) /\ sink.position + sink.used = wrote
      /\ Idle'
  BY DEF ClientOK, CopyingOK, Idle, Stocked, Sound, Filled
<1>2. /\ Sound(r.s)
      /\ r.ok => /\ ~sink.failed /\ ~r.s.failed /\ r.s.used = 0 /\ Filled(r.s, 0)
                 /\ Len(r.s.arrived) = sink.position + sink.used
      /\ ~r.ok => /\ r.s.failed
                  /\ \/ sink.failed /\ r.s = sink
                     \/ ~sink.failed /\ Len(r.s.arrived) <= sink.position + sink.used
  BY <1>1, WriteBufferIs
<1>3. PICK x : x = r.s
  OBVIOUS
<1>4. /\ sink' \in CopyingSinks /\ sink'.memory = x.memory /\ sink'.used = x.used
      /\ sink'.position = x.position /\ sink'.failed = x.failed /\ sink'.arrived = x.arrived
  <2>1. x \in CopyingSinks /\ (sink' = x \/ sink' = [x EXCEPT !.closed = z])
    BY <1>2, <1>3 DEF Sound
  <2> QED
    BY <2>1 DEF CopyingSinks
<1>5. Len(x.arrived) <= wrote /\ (f => Len(x.arrived) = wrote)
  BY <1>1, <1>2, <1>3
<1>6. ~x.failed => x.used = 0 /\ Filled(x, 0) /\ x.position + 0 = wrote
  BY <1>1, <1>2, <1>3 DEF Filled
<1>7. Sound(x)
  BY <1>2, <1>3
<1>8. ClientOK'
  BY DEF ClientOK
<1> QED
  BY <1>1, <1>4, <1>5, <1>6, <1>7, <1>8 DEF CopyingOK, Stocked, Sound, Filled

(* A stream keeps its kind, so that only one part can hold.                *)
LEMMA KindsApart ==
  /\ ArrayOK => sink.kind = "array"
  /\ StringOK => sink.kind = "string"
  /\ CopyingOK => sink.kind = "copying"
BY DEF ArrayOK, StringOK, CopyingOK, ArraySinks, StringSinks, CopyingSinks

(* Every step keeps the invariant.                                         *)
LEMMA Continuing == OutInv /\ [OutNext]_outVars => OutInv'
<1> SUFFICES ASSUME OutInv, [OutNext]_outVars PROVE OutInv'
  OBVIOUS
<1>1. ClientOK
  BY DEF OutInv
<1>2. CASE OutNextBuffer
  BY <1>1, <1>2, ArrayHandsOut, StringHandsOut, CopyingHandsOut DEF OutInv
<1>3. ASSUME NEW count \in 0..handed.n, OutFill(count) PROVE OutInv'
  BY <1>1, <1>3, ArrayFilled, StringFilled, CopyingFilled DEF OutInv
<1>4. CASE Flush
  <2>1. CopyingOK /\ Idle
    BY <1>4, KindsApart DEF OutInv, Flush
  <2>2. PICK r \in WriteBuffer(sink) : sink' = r.s /\ flushed' = r.ok
    BY <1>4 DEF Flush
  <2>3. r.ok \in BOOLEAN
    <3>1. Sound(sink) /\ (~sink.failed => Filled(sink, sink.used))
      BY <2>1 DEF CopyingOK, Stocked, Sound, Filled
    <3> QED
      BY <2>2, <3>1, WriteBufferIs
  <2>4. UNCHANGED <<wrote, handed>>
    BY <1>4 DEF Flush
  <2> QED
    BY <1>1, <2>1, <2>2, <2>3, <2>4, FlushKeeps DEF OutInv
<1>5. CASE Close
  <2>1. CopyingOK /\ Idle
    BY <1>5, KindsApart DEF OutInv, Close
  <2>2. PICK r \in WriteBuffer(sink), closes \in {TRUE, ~sink.faulty} :
          sink' = [r.s EXCEPT !.closed = TRUE] /\ flushed' = (r.ok /\ closes)
    BY <1>5 DEF Close
  <2>3. (r.ok /\ closes) \in BOOLEAN
    OBVIOUS
  <2>4. UNCHANGED <<wrote, handed>>
    BY <1>5 DEF Close
  <2> QED
    BY <1>1, <2>1, <2>2, <2>3, <2>4, FlushKeeps DEF OutInv
<1>6. CASE UNCHANGED outVars
  BY <1>6 DEF outVars, OutInv, ClientOK, ArrayOK, StringOK, CopyingOK, Idle, Stocked
<1> QED
  BY <1>2, <1>3, <1>4, <1>5, <1>6 DEF OutNext

(* The invariant holds of every stream and any sequence of calls: each     *)
(* byte of array, string or buffer between the first and the last one      *)
(* stored is the client's, in order.                                       *)
THEOREM OutInvHolds == OutSpec => []OutInv
<1> QED
  BY Beginning, Continuing, PTL DEF OutSpec

(* No destination ever holds a byte the client did not write, misses one   *)
(* between two others or repeats one: not the rest of a buffer that was    *)
(* backed up, and not after WriteBuffer (zero_copy_stream_impl_lite.cc)    *)
(* failed half-way and the client wrote on.                                *)
THEOREM OutputIsClean == OutSpec => []OnlyWhatWasWritten
<1>1. ASSUME OutInv PROVE OnlyWhatWasWritten
  <2> SUFFICES ASSUME Idle
               PROVE  LET d == Destination(sink) IN
                      Len(d) <= wrote /\ \A i \in 1..Len(d) : d[i] = i
    BY DEF OnlyWhatWasWritten
  <2>1. CASE ArrayOK
    <3>1. /\ sink.memory \in Seq(Int) /\ wrote \in Nat /\ wrote <= Len(sink.memory)
          /\ Destination(sink) = SubSeq(sink.memory, 1, wrote)
      BY <1>1, <2>1, KindsApart DEF OutInv, ClientOK, ArrayOK, ArraySinks, Destination
    <3> QED
      BY <3>1, <2>1, Shorter DEF ArrayOK, Carries
  <2>2. CASE StringOK
    <3>1. /\ sink.memory \in Seq(Int) /\ wrote \in Nat /\ sink.initial \in Nat
          /\ Len(sink.memory) = sink.initial + wrote
          /\ \A i \in 1..wrote : sink.memory[sink.initial + i] = i
      BY <1>1, <2>2 DEF OutInv, ClientOK, StringOK, StringSinks, Carries
    <3>2. CASE sink.set
      <4>d. PICK d : d = SubSeq(sink.memory, sink.initial + 1, Len(sink.memory))
        OBVIOUS
      <4>1. Destination(sink) = d
        BY <3>2, <2>2, <4>d, KindsApart DEF Destination
      <4>2. Len(d) = wrote /\ \A i \in 1..wrote : d[i] = sink.memory[sink.initial + i]
        <5>0. /\ sink.memory \in Seq(Int) /\ wrote \in Nat /\ sink.initial \in Nat
              /\ Len(sink.memory) = sink.initial + wrote
          BY <3>1
        <5>p. PICK m, j, w : m = sink.memory /\ j = sink.initial /\ w = wrote
          OBVIOUS
        <5>q. /\ m \in Seq(Int) /\ j \in Nat /\ w \in Nat /\ Len(m) = j + w
              /\ d = SubSeq(m, j + 1, Len(m))
          BY <5>0, <5>p, <4>d
        <5>r. Len(d) = w /\ \A i \in 1..w : d[i] = m[j + i]
          BY <5>q, AfterPrefix
        <5>1. Len(d) = wrote
          BY <5>p, <5>r
        <5>2. \A i \in 1..wrote : d[i] = sink.memory[sink.initial + i]
          BY <5>p, <5>r
        <5> QED
          BY <5>1, <5>2
      <4> QED
        BY <4>1, <4>2, <3>1, SMTT(30)
    <3>3. CASE ~sink.set
      BY <3>3, <2>2, <3>1, KindsApart DEF Destination
    <3> QED
      BY <3>2, <3>3
  <2>3. CASE CopyingOK
    BY <2>3, KindsApart DEF CopyingOK, Carries, Destination
  <2> QED
    BY <1>1, <2>1, <2>2, <2>3 DEF OutInv
<1> QED
  BY <1>1, OutInvHolds, PTL

(* When Flush or Close answers true everything the client stored has       *)
(* arrived, in an array or a string it is there at once; BackUp of all or  *)
(* a part of the last buffer passes its CHECKs, and ByteCount is what was  *)
(* written since the stream was made, as documented, unless a write failed *)
(* or the stream appends to a string that was not empty.                   *)
THEOREM OutputIsComplete == OutSpec => []NothingIsHeldBack
<1>1. ASSUME OutInv PROVE NothingIsHeldBack
  <2>0. wrote \in Nat /\ handed.at \in Nat /\ handed.n \in Nat
    BY <1>1 DEF OutInv, ClientOK
  <2>1. CASE ArrayOK
    <3>1. /\ sink.memory \in Seq(Int) /\ sink.kind = "array" /\ sink.position \in Nat
          /\ sink.position <= Len(sink.memory)
          /\ Idle => sink.position = wrote
          /\ ~Idle => sink.last = handed.n /\ handed.n # 0
      BY <2>1, <2>0 DEF ArrayOK, ArraySinks, Idle
    <3>2. ~Idle => \A count \in 0..handed.n : SinkTakesBack(sink, count)
      BY <3>1, <2>0 DEF SinkTakesBack
    <3>3. Idle => SinkByteCount(sink) = wrote
      BY <3>1 DEF SinkByteCount
    <3>4. Idle => Len(Destination(sink)) = wrote
      BY <3>1, Shorter DEF Destination
    <3> QED
      BY <3>1, <3>2, <3>3, <3>4 DEF NothingIsHeldBack, OutputIsCounted, CountsBytesWritten
  <2>2. CASE StringOK
    <3>1. /\ sink.memory \in Seq(Int) /\ sink.kind = "string" /\ sink.initial \in Nat
          /\ sink.set \in BOOLEAN /\ (~sink.set => wrote = 0)
          /\ Idle => Len(sink.memory) = sink.initial + wrote
          /\ ~Idle => sink.set /\ Len(sink.memory) = handed.at + handed.n
      BY <2>2, <2>0 DEF StringOK, StringSinks
    <3>2. ~Idle => \A count \in 0..handed.n : SinkTakesBack(sink, count)
      BY <3>1, <2>0 DEF SinkTakesBack
    <3>3. ASSUME Idle, ~AppendsToText PROVE SinkByteCount(sink) = wrote
      <4>1. sink.initial = 0
        BY <3>1, <3>3 DEF AppendsToText
      <4>2. Len(sink.memory) = wrote
        BY <3>1, <3>3, <4>1, <2>0
      <4> QED
        BY <3>1, <4>2 DEF SinkByteCount
    <3>4. ASSUME Idle PROVE Len(Destination(sink)) = wrote
      <4>d. PICK d : d = SubSeq(sink.memory, sink.initial + 1, Len(sink.memory))
        OBVIOUS
      <4>1. Len(d) = wrote
        BY <3>1, <3>4, <4>d, <2>0, AfterPrefix, SMTT(30)
      <4>2. Destination(sink) = IF sink.set THEN d ELSE <<>>
        BY <3>1, <4>d DEF Destination
      <4> QED
        BY <4>1, <4>2, <3>1
    <3> QED
      BY <3>1, <3>2, <3>3, <3>4 DEF NothingIsHeldBack, OutputIsCounted, CountsBytesWritten
  <2>3. CASE CopyingOK
    <3>1. /\ sink.kind = "copying" /\ sink.used \in Nat
          /\ ~Idle => sink.used = Len(sink.memory) /\ sink.used = handed.at + handed.n
          /\ Idle /\ ~sink.failed => sink.position + sink.used = wrote
          /\ flushed => Len(sink.arrived) = wrote
      BY <2>3 DEF CopyingOK, CopyingSinks, Stocked
    <3>2. ~Idle => \A count \in 0..handed.n : SinkTakesBack(sink, count)
      BY <3>1, <2>0 DEF SinkTakesBack
    <3>3. Idle /\ ~sink.failed => SinkByteCount(sink) = wrote
      BY <3>1 DEF SinkByteCount
    <3>4. flushed => Len(Destination(sink)) = wrote
      BY <3>1 DEF Destination
    <3> QED
      BY <3>1, <3>2, <3>3, <3>4 DEF NothingIsHeldBack, OutputIsCounted, CountsBytesWritten
  <2> QED
    BY <1>1, <2>1, <2>2, <2>3 DEF OutInv
<1> QED
  BY <1>1, OutInvHolds, PTL

-----------------------------------------------------------------------------
(* The input streams (InputStreams), for every list of streams of any      *)
(* size, block and kind, every limit and every sequence of calls. First    *)
(* what a call does to one stream (LeafBackUpIs, LeafNextIs, LeafSkipIs).  *)

ArrayLeaves == [kind : {"array"}, size : Nat, block : Nat, position : Nat, last : Nat]
FileLeaves == [kind : {"FileStream"}, size : Nat, block : Nat, position : Nat]
CopyingLeaves ==
  [kind : {"descriptor", "pipe", "istream"}, size : Nat, block : Nat, faulty : BOOLEAN,
   position : Nat, used : Nat, backup : Nat, buffer : BOOLEAN, failed : BOOLEAN,
   offset : Nat, start : Nat, seekFailed : BOOLEAN]
Leaves == ArrayLeaves \cup FileLeaves \cup CopyingLeaves

(* The bytes in the buffer of a copying stream are those before its        *)
(* position, and backed up are some of the last of them.                   *)
LeafOK(s) ==
  /\ s \in Leaves
  /\ s.kind = "array" => s.position <= s.size /\ s.last <= s.position
  /\ IsCopying(s) => /\ s.position = s.offset /\ s.block > 0
                     /\ s.backup <= s.used /\ s.used <= s.position
                     /\ s.backup > 0 => /\ s.buffer /\ s.start + s.used = s.position
                                        /\ s.position <= s.size

(* The last Next handed out n bytes or more. *)
Holds(s, n) ==
  CASE s.kind = "array"      -> n <= s.last
    [] s.kind = "FileStream" -> n <= s.position
    [] OTHER                 -> /\ s.backup = 0 /\ s.buffer /\ n <= s.used
                                /\ s.start + s.used = s.position /\ s.position <= s.size

(* A stream is of one of three kinds. *)
LEMMA Kinds ==
  ASSUME NEW s \in Leaves
  PROVE  /\ s.kind = "array" => s \in ArrayLeaves /\ ~IsCopying(s)
         /\ s.kind = "FileStream" => s \in FileLeaves /\ ~IsCopying(s)
         /\ s.kind \notin {"array", "FileStream"} => s \in CopyingLeaves /\ IsCopying(s)
<1>1. CASE s \in ArrayLeaves
  BY <1>1 DEF ArrayLeaves, IsCopying
<1>2. CASE s \in FileLeaves
  BY <1>2 DEF FileLeaves, IsCopying
<1>3. CASE s \in CopyingLeaves
  <2>1. s.kind \in {"descriptor", "pipe", "istream"}
    BY <1>3 DEF CopyingLeaves
  <2> QED
    BY <1>3, <2>1 DEF IsCopying
<1> QED
  BY <1>1, <1>2, <1>3 DEF Leaves

(* ByteCount is never negative. *)
LEMMA CountIsNat ==
  ASSUME NEW s, LeafOK(s)
  PROVE  LeafByteCount(s) \in Nat /\ s.size \in Nat
<1>1. CASE s.kind = "array"
  <2>1. s \in ArrayLeaves /\ ~IsCopying(s)
    BY <1>1, Kinds DEF LeafOK
  <2> QED
    BY <2>1 DEF ArrayLeaves, LeafByteCount
<1>2. CASE s.kind = "FileStream"
  <2>1. s \in FileLeaves /\ ~IsCopying(s)
    BY <1>2, Kinds DEF LeafOK
  <2> QED
    BY <2>1 DEF FileLeaves, LeafByteCount
<1>3. CASE s.kind \notin {"array", "FileStream"}
  <2>1. s \in CopyingLeaves /\ IsCopying(s)
    BY <1>3, Kinds DEF LeafOK
  <2>2. s.size \in Nat /\ s.position \in Nat /\ s.backup \in Nat /\ s.used \in Nat
    BY <2>1 DEF CopyingLeaves
  <2>3. s.backup <= s.used /\ s.used <= s.position
    BY <2>1 DEF LeafOK
  <2> QED
    BY <2>1, <2>2, <2>3 DEF LeafByteCount
<1> QED
  BY <1>1, <1>2, <1>3

(* A sound stream of size bytes, of which n are read                       *)
SoundLeaf(s, size, n) == LeafOK(s) /\ s.size = size /\ LeafByteCount(s) = n

(* The record of each kind, by its fields                                   *)
ArrayLeaf(z, b, p, l) == [kind |-> "array", size |-> z, block |-> b, position |-> p, last |-> l]
FileLeaf(z, b, p) == [kind |-> "FileStream", size |-> z, block |-> b, position |-> p]
CopyingLeaf(k, z, b, y, p, u, w, f, d, t, e) ==
  [kind |-> k, size |-> z, block |-> b, faulty |-> y, position |-> p, used |-> u, backup |-> w,
   buffer |-> f, failed |-> d, offset |-> p, start |-> t, seekFailed |-> e]

(* An array stream, by its fields *)
LEMMA ArrayLeafIs ==
  ASSUME NEW z \in Nat, NEW b \in Nat, NEW p \in Nat, NEW l \in Nat, p <= z, l <= p
  PROVE  SoundLeaf(ArrayLeaf(z, b, p, l), z, p)
<1> DEFINE s == ArrayLeaf(z, b, p, l)
<1>1. s \in ArrayLeaves /\ s.kind = "array" /\ s.position = p /\ s.last = l /\ s.size = z
  BY DEF ArrayLeaf, ArrayLeaves
<1>2. ~IsCopying(s)
  BY <1>1 DEF IsCopying
<1> HIDE DEF s
<1>3. LeafOK(s) /\ LeafByteCount(s) = p
  BY <1>1, <1>2 DEF LeafOK, LeafByteCount, Leaves
<1> QED
  BY <1>1, <1>3 DEF SoundLeaf, s

(* A FileStream, by its fields *)
LEMMA FileLeafIs ==
  ASSUME NEW z \in Nat, NEW b \in Nat, NEW p \in Nat
  PROVE  SoundLeaf(FileLeaf(z, b, p), z, p)
<1> DEFINE s == FileLeaf(z, b, p)
<1>1. s \in FileLeaves /\ s.kind = "FileStream" /\ s.position = p /\ s.size = z
  BY DEF FileLeaf, FileLeaves
<1>2. ~IsCopying(s)
  BY <1>1 DEF IsCopying
<1> HIDE DEF s
<1>3. LeafOK(s) /\ LeafByteCount(s) = p
  BY <1>1, <1>2 DEF LeafOK, LeafByteCount, Leaves
<1> QED
  BY <1>1, <1>3 DEF SoundLeaf, s

CopyingFields(k, z, b, y, p, u, w, f, d, t, e) ==
  /\ k \in {"descriptor", "pipe", "istream"} /\ z \in Nat /\ b \in Nat /\ y \in BOOLEAN
  /\ p \in Nat /\ u \in Nat /\ w \in Nat /\ f \in BOOLEAN /\ d \in BOOLEAN /\ t \in Nat
  /\ e \in BOOLEAN /\ b > 0 /\ w <= u /\ u <= p
  /\ w > 0 => f /\ t + u = p /\ p <= z

(* A copying stream, by its fields *)
LEMMA CopyingLeafIs ==
  ASSUME NEW k, NEW z, NEW b, NEW y, NEW p, NEW u, NEW w, NEW f, NEW d, NEW t, NEW e, NEW n,
         CopyingFields(k, z, b, y, p, u, w, f, d, t, e), n = p - w
  PROVE  SoundLeaf(CopyingLeaf(k, z, b, y, p, u, w, f, d, t, e), z, n)
<1> USE DEF CopyingFields
<1> DEFINE s == CopyingLeaf(k, z, b, y, p, u, w, f, d, t, e)
<1>1. s \in CopyingLeaves
  BY DEF CopyingLeaf, CopyingLeaves
<1>2. /\ s.kind = k /\ s.position = p /\ s.size = z /\ s.offset = p /\ s.block = b
      /\ s.used = u /\ s.backup = w /\ s.buffer = f /\ s.start = t
  BY DEF CopyingLeaf
<1>3. IsCopying(s) /\ s.kind # "array"
  BY <1>2 DEF IsCopying
<1> HIDE DEF s
<1>4. LeafOK(s) /\ LeafByteCount(s) = n
  BY <1>1, <1>2, <1>3 DEF LeafOK, LeafByteCount, Leaves
<1> QED
  BY <1>2, <1>4 DEF SoundLeaf, s

(* Every sound stream is one of them. *)
LEMMA ArrayLeafHas ==
  ASSUME NEW s, LeafOK(s), s.kind = "array"
  PROVE  \E z \in Nat, b \in Nat, p \in Nat, l \in Nat :
           s = ArrayLeaf(z, b, p, l) /\ p <= z /\ l <= p
<1>1. PICK z \in Nat, b \in Nat, p \in Nat, l \in Nat :
        s = [kind |-> "array", size |-> z, block |-> b, position |-> p, last |-> l]
  BY Kinds DEF LeafOK, ArrayLeaves
<1>2. s = ArrayLeaf(z, b, p, l) /\ p <= z /\ l <= p
  BY <1>1 DEF LeafOK, ArrayLeaf
<1> QED
  BY <1>2

(* A FileStream is made of its fields. *)
LEMMA FileLeafHas ==
  ASSUME NEW s, LeafOK(s), s.kind = "FileStream"
  PROVE  \E z \in Nat, b \in Nat, p \in Nat : s = FileLeaf(z, b, p)
<1>1. s \in FileLeaves
  BY Kinds DEF LeafOK
<1> QED
  BY <1>1 DEF FileLeaves, FileLeaf

(* A copying stream is made of its fields. *)
LEMMA CopyingLeafHas ==
  ASSUME NEW s, LeafOK(s), s.kind \notin {"array", "FileStream"}
  PROVE  /\ s = CopyingLeaf(s.kind, s.size, s.block, s.faulty, s.position, s.used, s.backup,
                           s.buffer, s.failed, s.start, s.seekFailed)
         /\ CopyingFields(s.kind, s.size, s.block, s.faulty, s.position, s.used, s.backup,
                          s.buffer, s.failed, s.start, s.seekFailed)
         /\ s.offset = s.position
<1>1. s \in CopyingLeaves /\ IsCopying(s)
  BY Kinds DEF LeafOK
<1>2. /\ s.kind \in {"descriptor", "pipe", "istream"} /\ s.size \in Nat /\ s.block \in Nat
      /\ s.faulty \in BOOLEAN /\ s.position \in Nat /\ s.used \in Nat /\ s.backup \in Nat
      /\ s.buffer \in BOOLEAN /\ s.failed \in BOOLEAN /\ s.start \in Nat
      /\ s.seekFailed \in BOOLEAN
  BY <1>1 DEF CopyingLeaves
<1>3. /\ s.position = s.offset /\ s.block > 0 /\ s.backup <= s.used /\ s.used <= s.position
      /\ s.backup > 0 => s.buffer /\ s.start + s.used = s.position /\ s.position <= s.size
  BY <1>1 DEF LeafOK
<1>4. s = CopyingLeaf(s.kind, s.size, s.block, s.faulty, s.position, s.used, s.backup,
                      s.buffer, s.failed, s.start, s.seekFailed)
  <2>1. s = [kind |-> s.kind, size |-> s.size, block |-> s.block, faulty |-> s.faulty,
             position |-> s.position, used |-> s.used, backup |-> s.backup,
             buffer |-> s.buffer, failed |-> s.failed, offset |-> s.offset,
             start |-> s.start, seekFailed |-> s.seekFailed]
    BY <1>1 DEF CopyingLeaves
  <2> QED
    BY <1>3, <2>1 DEF CopyingLeaf
<1> QED
  BY <1>2, <1>3, <1>4 DEF CopyingFields

(* Of the bytes that Next handed out, BackUp accepts any number, and gives *)
(* them back.                                                              *)
LEMMA LeafBackUpIs ==
  ASSUME NEW s, LeafOK(s), NEW n \in Nat \ {0}, Holds(s, n), NEW count \in 0..n
  PROVE  /\ LeafTakesBack(s, count)
         /\ SoundLeaf(LeafBackUp(s, count), s.size, LeafByteCount(s) - count)
<1>1. CASE s.kind = "array"
  <2>1. PICK z \in Nat, b \in Nat, p \in Nat, l \in Nat :
          s = ArrayLeaf(z, b, p, l) /\ p <= z /\ l <= p
    BY <1>1, ArrayLeafHas
  <2>2. n <= l /\ p - count \in Nat
    BY <1>1, <2>1 DEF Holds, ArrayLeaf
  <2>3. LeafBackUp(s, count) = ArrayLeaf(z, b, p - count, 0)
    BY <1>1, <2>1 DEF LeafBackUp, ArrayLeaf
  <2>4. LeafTakesBack(s, count)
    BY <1>1, <2>1, <2>2 DEF LeafTakesBack, ArrayTakesBack, ArrayLeaf
  <2>5. SoundLeaf(s, z, p)
    BY <2>1, ArrayLeafIs
  <2>6. SoundLeaf(ArrayLeaf(z, b, p - count, 0), z, p - count)
    BY <2>1, <2>2, ArrayLeafIs
  <2> QED
    BY <2>3, <2>4, <2>5, <2>6 DEF SoundLeaf
<1>2. CASE s.kind = "FileStream"
  <2>1. PICK z \in Nat, b \in Nat, p \in Nat : s = FileLeaf(z, b, p)
    BY <1>2, FileLeafHas
  <2>2. n <= p /\ p - count \in Nat
    BY <1>2, <2>1 DEF Holds, FileLeaf
  <2>3. LeafBackUp(s, count) = FileLeaf(z, b, p - count)
    BY <1>2, <2>1 DEF LeafBackUp, FileLeaf
  <2>4. LeafTakesBack(s, count)
    BY <1>2, <2>1, <2>2 DEF LeafTakesBack, FileLeaf
  <2>5. SoundLeaf(s, z, p)
    BY <2>1, FileLeafIs
  <2>6. SoundLeaf(FileLeaf(z, b, p - count), z, p - count)
    BY <2>2, FileLeafIs
  <2> QED
    BY <2>3, <2>4, <2>5, <2>6 DEF SoundLeaf
<1>3. CASE s.kind \notin {"array", "FileStream"}
  <2> DEFINE k == s.kind
             z == s.size
             b == s.block
             y == s.faulty
             p == s.position
             u == s.used
             w == s.backup
             f == s.buffer
             d == s.failed
             t == s.start
             e == s.seekFailed
  <2>1. /\ s = CopyingLeaf(k, z, b, y, p, u, w, f, d, t, e)
        /\ k \in {"descriptor", "pipe", "istream"} /\ z \in Nat /\ b \in Nat /\ y \in BOOLEAN
        /\ p \in Nat /\ u \in Nat /\ w \in Nat /\ f \in BOOLEAN /\ d \in BOOLEAN /\ t \in Nat
        /\ e \in BOOLEAN /\ b > 0 /\ w <= u /\ u <= p
        /\ w > 0 => f /\ t + u = p /\ p <= z
    BY <1>3, CopyingLeafHas DEF CopyingFields
  <2> HIDE DEF k, z, b, y, p, u, w, f, d, t, e
  <2>2. n <= u /\ w = 0 /\ f /\ t + u = p /\ p <= z
    BY <1>3, <2>1 DEF Holds, CopyingLeaf
  <2>3. LeafBackUp(s, count) = CopyingLeaf(k, z, b, y, p, u, count, f, d, t, e)
    BY <1>3, <2>1 DEF LeafBackUp, CopyingLeaf
  <2>4. LeafTakesBack(s, count)
    BY <1>3, <2>1, <2>2 DEF LeafTakesBack, CopyingTakesBack, CopyingLeaf
  <2>5. SoundLeaf(s, z, p)
    <3>1. SoundLeaf(CopyingLeaf(k, z, b, y, p, u, w, f, d, t, e), z, p - w)
      BY <2>1, CopyingLeafIs DEF CopyingFields
    <3>2. p - w = p
      BY <2>1, <2>2
    <3> QED
      BY <2>1, <3>1, <3>2
  <2>6. count \in Nat /\ count <= u
    BY <2>1, <2>2
  <2>7. SoundLeaf(CopyingLeaf(k, z, b, y, p, u, count, f, d, t, e), z, p - count)
    BY <2>1, <2>2, <2>6, CopyingLeafIs DEF CopyingFields
  <2> QED
    BY <2>3, <2>4, <2>5, <2>7 DEF SoundLeaf
<1> QED
  BY <1>1, <1>2, <1>3

(* What Next makes of a stream: r *)
NextGives(s, r) ==
  /\ r.ok \in BOOLEAN /\ r.n \in Nat
  /\ SoundLeaf(r.s, s.size, LeafByteCount(s) + r.n)
  /\ r.ok => r.n > 0 /\ r.at = LeafByteCount(s) /\ r.at + r.n <= s.size /\ Holds(r.s, r.n)
  /\ ~r.ok => r.n = 0

(* What makes an outcome of Next a buffer *)
LEMMA GivesBytes ==
  ASSUME NEW s, NEW r, NEW z \in Nat, NEW c \in Int, NEW n \in Nat \ {0}, SoundLeaf(s, z, c),
         r.ok = TRUE, r.n = n, r.at = c, SoundLeaf(r.s, z, c + n), Holds(r.s, n), c + n <= z
  PROVE  NextGives(s, r)
<1>1. s.size = z /\ LeafByteCount(s) = c
  BY DEF SoundLeaf
<1>2. SoundLeaf(r.s, s.size, LeafByteCount(s) + r.n)
  BY <1>1
<1>3. r.n > 0 /\ r.at = LeafByteCount(s) /\ r.at + r.n <= s.size
  BY <1>1
<1>4. Holds(r.s, r.n)
  OBVIOUS
<1> QED
  BY <1>2, <1>3, <1>4 DEF NextGives

(* What makes an outcome of Next an end or an error *)
LEMMA GivesNothing ==
  ASSUME NEW s, NEW r, NEW z \in Nat, NEW c \in Int, SoundLeaf(s, z, c),
         r.ok \in BOOLEAN, ~r.ok, r.n = 0, SoundLeaf(r.s, z, c)
  PROVE  NextGives(s, r)
<1>1. s.size = z /\ LeafByteCount(s) = c /\ c + 0 = c
  BY DEF SoundLeaf
<1>2. SoundLeaf(r.s, s.size, LeafByteCount(s) + r.n)
  BY <1>1
<1>3. r.n \in Nat
  OBVIOUS
<1> QED
  BY <1>2, <1>3 DEF NextGives

(* Next hands out the bytes that follow, or none. *)
LEMMA LeafNextIs ==
  ASSUME NEW s, LeafOK(s), NEW r \in LeafNext(s)
  PROVE  NextGives(s, r)
<1>1. CASE s.kind = "array"
  <2>1. PICK z \in Nat, b \in Nat, p \in Nat, l \in Nat :
          s = ArrayLeaf(z, b, p, l) /\ p <= z /\ l <= p
    BY <1>1, ArrayLeafHas
  <2>2. s.size = z /\ s.block = b /\ s.position = p /\ s.last = l
    BY <2>1 DEF ArrayLeaf
  <2>3. PICK n : n = Lesser(b, z - p)
    OBVIOUS
  <2>4. n \in Nat /\ n <= z - p
    BY <2>1, <2>3 DEF Lesser
  <2>5. r \in ArrayNext(s) /\ SoundLeaf(s, z, p)
    BY <1>1, <2>1, ArrayLeafIs DEF LeafNext
  <2>6. CASE n > 0
    <3>1. r = Outcome(TRUE, p, n, [s EXCEPT !.position = @ + n, !.last = n])
      BY <2>2, <2>3, <2>5, <2>6 DEF ArrayNext
    <3>2. [s EXCEPT !.position = @ + n, !.last = n] = ArrayLeaf(z, b, p + n, n)
      <4>1. PICK m : m = p + n
        OBVIOUS
      <4>2. [s EXCEPT !.position = m, !.last = n] = ArrayLeaf(z, b, m, n)
        <5>1. [s EXCEPT !.position = m] = ArrayLeaf(z, b, m, l)
          BY <2>1 DEF ArrayLeaf
        <5>2. [ArrayLeaf(z, b, m, l) EXCEPT !.last = n] = ArrayLeaf(z, b, m, n)
          BY DEF ArrayLeaf
        <5> QED
          BY <5>1, <5>2
      <4> QED
        BY <2>2, <4>1, <4>2
    <3>3. SoundLeaf(ArrayLeaf(z, b, p + n, n), z, p + n)
      <4>1. p + n \in Nat /\ p + n <= z /\ n <= p + n
        BY <2>1, <2>4
      <4> QED
        BY <2>4, <4>1, ArrayLeafIs
    <3>4. r.ok = TRUE /\ r.n = n /\ r.at = p /\ r.s = ArrayLeaf(z, b, p + n, n)
      BY <3>1, <3>2 DEF Outcome
    <3>5. Holds(ArrayLeaf(z, b, p + n, n), n)
      BY <2>4 DEF Holds, ArrayLeaf
    <3>6. n \in Nat \ {0} /\ p \in Int /\ p + n <= z
      BY <2>1, <2>4, <2>6
    <3> QED
      BY <2>5, <3>3, <3>4, <3>5, <3>6, GivesBytes
  <2>7. CASE ~(n > 0)
    <3>1. r = Outcome(FALSE, 0, 0, [s EXCEPT !.last = 0])
      BY <2>2, <2>3, <2>5, <2>7 DEF ArrayNext
    <3>2. [s EXCEPT !.last = 0] = ArrayLeaf(z, b, p, 0)
      BY <2>1 DEF ArrayLeaf
    <3>3. SoundLeaf(ArrayLeaf(z, b, p, 0), z, p)
      BY <2>1, ArrayLeafIs
    <3>4. r.ok \in BOOLEAN /\ ~r.ok /\ r.n = 0 /\ r.s = ArrayLeaf(z, b, p, 0)
      BY <3>1, <3>2 DEF Outcome
    <3> QED
      BY <2>1, <2>5, <3>3, <3>4, GivesNothing
  <2> QED
    BY <2>6, <2>7
<1>2. CASE s.kind = "FileStream"
  <2>1. PICK z \in Nat, b \in Nat, p \in Nat : s = FileLeaf(z, b, p)
    BY <1>2, FileLeafHas
  <2>2. s.size = z /\ s.block = b /\ s.position = p
    BY <2>1 DEF FileLeaf
  <2>3. PICK n : n = Lesser(b, z - p)
    OBVIOUS
  <2>4. n \in Int /\ n <= z - p
    BY <2>1, <2>3 DEF Lesser
  <2>5. r \in FileStreamNext(s) /\ SoundLeaf(s, z, p)
    BY <1>2, <2>1, FileLeafIs DEF LeafNext
  <2>6. CASE n > 0
    <3>1. r = Outcome(TRUE, p, n, [s EXCEPT !.position = @ + n])
      BY <2>2, <2>3, <2>5, <2>6 DEF FileStreamNext
    <3>2. [s EXCEPT !.position = @ + n] = FileLeaf(z, b, p + n)
      BY <2>1 DEF FileLeaf
    <3>3. SoundLeaf(FileLeaf(z, b, p + n), z, p + n)
      BY <2>4, <2>6, FileLeafIs
    <3>4. r.ok = TRUE /\ r.n = n /\ r.at = p /\ r.s = FileLeaf(z, b, p + n)
      BY <3>1, <3>2 DEF Outcome
    <3>5. Holds(FileLeaf(z, b, p + n), n)
      BY <2>4 DEF Holds, FileLeaf
    <3>6. n \in Nat \ {0} /\ p \in Int /\ p + n <= z
      BY <2>1, <2>4, <2>6
    <3> QED
      BY <2>5, <3>3, <3>4, <3>5, <3>6, GivesBytes
  <2>7. CASE ~(n > 0)
    <3>1. r = Outcome(FALSE, 0, 0, s)
      BY <2>2, <2>3, <2>5, <2>7 DEF FileStreamNext
    <3>2. r.ok \in BOOLEAN /\ ~r.ok /\ r.n = 0 /\ r.s = s
      BY <3>1 DEF Outcome
    <3> QED
      BY <2>1, <2>5, <3>2, GivesNothing
  <2> QED
    BY <2>6, <2>7
<1>3. CASE s.kind \notin {"array", "FileStream"}
  <2> DEFINE k == s.kind
             z == s.size
             b == s.block
             y == s.faulty
             p == s.position
             u == s.used
             w == s.backup
             f == s.buffer
             d == s.failed
             t == s.start
             e == s.seekFailed
  <2>1. /\ s = CopyingLeaf(k, z, b, y, p, u, w, f, d, t, e)
        /\ k \in {"descriptor", "pipe", "istream"} /\ z \in Nat /\ b \in Nat /\ y \in BOOLEAN
        /\ p \in Nat /\ u \in Nat /\ w \in Nat /\ f \in BOOLEAN /\ d \in BOOLEAN /\ t \in Nat
        /\ e \in BOOLEAN /\ b > 0 /\ w <= u /\ u <= p
        /\ w > 0 => f /\ t + u = p /\ p <= z
    BY <1>3, CopyingLeafHas DEF CopyingFields
  <2>2. /\ s.kind = k /\ s.size = z /\ s.block = b /\ s.faulty = y /\ s.position = p
        /\ s.used = u /\ s.backup = w /\ s.buffer = f /\ s.failed = d /\ s.offset = p
        /\ s.start = t /\ s.seekFailed = e
    <3>1. s.offset = s.position
      BY <1>3, CopyingLeafHas
    <3> QED
      BY <3>1
  <2> HIDE DEF k, z, b, y, p, u, w, f, d, t, e
  <2>3. r \in CopyingNext(s)
    BY <1>3 DEF LeafNext
  <2>4. SoundLeaf(s, z, p - w)
    <3>1. CopyingFields(k, z, b, y, p, u, w, f, d, t, e)
      BY <2>1 DEF CopyingFields
    <3>2. SoundLeaf(CopyingLeaf(k, z, b, y, p, u, w, f, d, t, e), z, p - w)
      BY <3>1, CopyingLeafIs
    <3> QED
      BY <2>1, <3>2
  <2>5. CASE d
    <3>1. r = Outcome(FALSE, 0, 0, s)
      BY <2>2, <2>3, <2>5 DEF CopyingNext
    <3>2. r.ok \in BOOLEAN /\ ~r.ok /\ r.n = 0 /\ r.s = s
      BY <3>1 DEF Outcome
    <3>3. p - w \in Int
      BY <2>1
    <3> QED
      BY <2>1, <2>4, <3>2, <3>3, GivesNothing
  <2>6. CASE ~d /\ w > 0
    <3>1. r = Outcome(TRUE, t + u - w, w, [s EXCEPT !.backup = 0])
      BY <2>2, <2>3, <2>6 DEF CopyingNext
    <3>2. [s EXCEPT !.backup = 0] = CopyingLeaf(k, z, b, y, p, u, 0, f, d, t, e)
      BY <2>1 DEF CopyingLeaf
    <3>3. SoundLeaf(CopyingLeaf(k, z, b, y, p, u, 0, f, d, t, e), z, p)
      BY <2>1, CopyingLeafIs DEF CopyingFields
    <3>4. r.ok = TRUE /\ r.n = w /\ r.at = t + u - w /\ r.s = CopyingLeaf(k, z, b, y, p, u, 0, f, d, t, e)
      BY <3>1, <3>2 DEF Outcome
    <3>5. Holds(CopyingLeaf(k, z, b, y, p, u, 0, f, d, t, e), w)
      <4>1. k # "array" /\ k # "FileStream"
        BY <2>1
      <4> QED
        BY <2>1, <2>6, <4>1 DEF Holds, CopyingLeaf
    <3>6. t + u - w = p - w /\ p - w + w = p /\ p <= z /\ w \in Nat \ {0} /\ p - w \in Int
      BY <2>1, <2>6
    <3>7. r.at = p - w /\ SoundLeaf(r.s, z, p - w + w) /\ Holds(r.s, w) /\ p - w + w <= z
      BY <3>3, <3>4, <3>5, <3>6
    <3> QED
      BY <2>1, <2>4, <3>4, <3>6, <3>7, GivesBytes
  <2>7. CASE ~d /\ ~(w > 0)
    <3>1. PICK n \in ReadResults(s) :
            r = IF n > 0
                THEN Outcome(TRUE, p, n,
                       [s EXCEPT !.used = n, !.start = p, !.offset = @ + n,
                                 !.position = @ + n, !.buffer = TRUE])
                ELSE Outcome(FALSE, 0, 0,
                       [s EXCEPT !.used = 0, !.buffer = FALSE, !.failed = (n < 0)])
      BY <2>2, <2>3, <2>7 DEF CopyingNext
    <3>2. n \in Int /\ (n > 0 => n <= z - p)
      BY <2>1, <2>2, <3>1 DEF ReadResults, Lesser
    <3>3. CASE n > 0
      <4>1. [s EXCEPT !.used = n, !.start = p, !.offset = @ + n, !.position = @ + n,
                      !.buffer = TRUE]
            = CopyingLeaf(k, z, b, y, p + n, n, w, TRUE, d, p, e)
        <5>1. PICK m : m = p + n
          OBVIOUS
        <5>2. [s EXCEPT !.used = n, !.start = p, !.offset = m, !.position = m, !.buffer = TRUE]
              = CopyingLeaf(k, z, b, y, m, n, w, TRUE, d, p, e)
          <6>1. [s EXCEPT !.used = n] = CopyingLeaf(k, z, b, y, p, n, w, f, d, t, e)
            BY <2>1 DEF CopyingLeaf
          <6>2. [CopyingLeaf(k, z, b, y, p, n, w, f, d, t, e) EXCEPT !.start = p]
                = CopyingLeaf(k, z, b, y, p, n, w, f, d, p, e)
            BY DEF CopyingLeaf
          <6>3. [CopyingLeaf(k, z, b, y, p, n, w, f, d, p, e) EXCEPT !.offset = m, !.position = m]
                = CopyingLeaf(k, z, b, y, m, n, w, f, d, p, e)
            <7> DEFINE q == [kind |-> k, size |-> z, block |-> b, faulty |-> y, position |-> p,
                             used |-> n, backup |-> w, buffer |-> f, failed |-> d,
                             offset |-> m, start |-> p, seekFailed |-> e]
            <7>1. [CopyingLeaf(k, z, b, y, p, n, w, f, d, p, e) EXCEPT !.offset = m] = q
              BY <2>1 DEF CopyingLeaf
            <7>2. [q EXCEPT !.position = m] = CopyingLeaf(k, z, b, y, m, n, w, f, d, p, e)
              BY <2>1 DEF CopyingLeaf
            <7> QED
              BY <7>1, <7>2
          <6>4. [CopyingLeaf(k, z, b, y, m, n, w, f, d, p, e) EXCEPT !.buffer = TRUE]
                = CopyingLeaf(k, z, b, y, m, n, w, TRUE, d, p, e)
            <7>1. PICK g : g = TRUE
              OBVIOUS
            <7>2. [CopyingLeaf(k, z, b, y, m, n, w, f, d, p, e) EXCEPT !.buffer = g]
                  = CopyingLeaf(k, z, b, y, m, n, w, g, d, p, e)
              BY DEF CopyingLeaf
            <7> QED
              BY <7>1, <7>2
          <6> QED
            BY <6>1, <6>2, <6>3, <6>4
        <5> QED
          BY <2>2, <5>1, <5>2
      <4>2. r.ok = TRUE /\ r.n = n /\ r.at = p
            /\ r.s = CopyingLeaf(k, z, b, y, p + n, n, w, TRUE, d, p, e)
        BY <3>1, <3>3, <4>1 DEF Outcome
      <4>3. n \in Nat /\ p + n \in Nat /\ p + n <= z /\ w = 0 /\ n <= p + n
        BY <2>1, <2>7, <3>2, <3>3
      <4>4. SoundLeaf(CopyingLeaf(k, z, b, y, p + n, n, w, TRUE, d, p, e), z, p + n)
        <5>1. PICK m : m = p + n
          OBVIOUS
        <5>2. CopyingFields(k, z, b, y, m, n, w, TRUE, d, p, e) /\ m = m - w
          BY <2>1, <4>3, <5>1 DEF CopyingFields
        <5>3. SoundLeaf(CopyingLeaf(k, z, b, y, m, n, w, TRUE, d, p, e), z, m)
          BY <5>2, CopyingLeafIs
        <5> QED
          BY <5>1, <5>3
      <4>5. Holds(CopyingLeaf(k, z, b, y, p + n, n, w, TRUE, d, p, e), n)
        <5>1. k # "array" /\ k # "FileStream"
          BY <2>1
        <5> QED
          BY <4>3, <5>1 DEF Holds, CopyingLeaf
      <4>6. p - w = p /\ p + n <= z /\ n \in Nat \ {0} /\ p \in Int
        BY <2>1, <3>3, <4>3
      <4>7. SoundLeaf(s, z, p) /\ SoundLeaf(r.s, z, p + n) /\ Holds(r.s, n)
        BY <2>4, <4>2, <4>4, <4>5, <4>6
      <4> QED
        BY <2>1, <4>2, <4>6, <4>7, GivesBytes
    <3>4. CASE ~(n > 0)
      <4>3. w = 0 /\ (n < 0) \in BOOLEAN
        BY <2>1, <2>7, <3>2
      <4>1. [s EXCEPT !.used = 0, !.buffer = FALSE, !.failed = (n < 0)]
            = CopyingLeaf(k, z, b, y, p, 0, w, FALSE, (n < 0), t, e)
        <5>1. PICK m : m = (n < 0)
          OBVIOUS
        <5>2. [s EXCEPT !.used = 0, !.buffer = FALSE, !.failed = m]
              = CopyingLeaf(k, z, b, y, p, 0, w, FALSE, m, t, e)
          <6>1. [s EXCEPT !.used = 0] = CopyingLeaf(k, z, b, y, p, 0, w, f, d, t, e)
            BY <2>1 DEF CopyingLeaf
          <6>2. [CopyingLeaf(k, z, b, y, p, 0, w, f, d, t, e) EXCEPT !.buffer = FALSE]
                = CopyingLeaf(k, z, b, y, p, 0, w, FALSE, d, t, e)
            <7>1. PICK g : g = FALSE
              OBVIOUS
            <7>2. [CopyingLeaf(k, z, b, y, p, 0, w, f, d, t, e) EXCEPT !.buffer = g]
                  = CopyingLeaf(k, z, b, y, p, 0, w, g, d, t, e)
              BY DEF CopyingLeaf
            <7> QED
              BY <7>1, <7>2
          <6>3. [CopyingLeaf(k, z, b, y, p, 0, w, FALSE, d, t, e) EXCEPT !.failed = m]
                = CopyingLeaf(k, z, b, y, p, 0, w, FALSE, m, t, e)
            <7>1. PICK g : g = m
              OBVIOUS
            <7>2. PICK h : h = FALSE
              OBVIOUS
            <7>3. [CopyingLeaf(k, z, b, y, p, 0, w, h, d, t, e) EXCEPT !.failed = g]
                  = CopyingLeaf(k, z, b, y, p, 0, w, h, g, t, e)
              BY DEF CopyingLeaf
            <7> QED
              BY <7>1, <7>2, <7>3
          <6> QED
            BY <6>1, <6>2, <6>3
        <5> QED
          BY <5>1, <5>2
      <4>2. r.ok \in BOOLEAN /\ ~r.ok /\ r.n = 0
            /\ r.s = CopyingLeaf(k, z, b, y, p, 0, w, FALSE, (n < 0), t, e)
        BY <3>1, <3>4, <4>1 DEF Outcome
      <4>4. SoundLeaf(CopyingLeaf(k, z, b, y, p, 0, w, FALSE, (n < 0), t, e), z, p - w)
        <5>1. CopyingFields(k, z, b, y, p, 0, w, FALSE, (n < 0), t, e)
          BY <2>1, <4>3 DEF CopyingFields
        <5> QED
          BY <5>1, CopyingLeafIs
      <4>5. p - w \in Int
        BY <2>1
      <4> QED
        BY <2>1, <2>4, <4>2, <4>4, <4>5, GivesNothing
    <3> QED
      BY <3>3, <3>4
  <2> QED
    BY <2>1, <2>5, <2>6, <2>7
<1> QED
  BY <1>1, <1>2, <1>3

(* What Skip makes of a stream: r *)
SkipGives(s, count, r) ==
  /\ r.ok \in BOOLEAN /\ r.n = 0
  /\ LeafOK(r.s) /\ r.s.size = s.size
  /\ LeafByteCount(r.s) - LeafByteCount(s) \in 0..count
  /\ r.ok => LeafByteCount(r.s) = LeafByteCount(s) + count

(* What makes an outcome of Skip one that skipped m bytes *)
LEMMA Skips ==
  ASSUME NEW s, NEW r, NEW z, NEW c \in Int, NEW count \in Nat, NEW m \in 0..count, SoundLeaf(s, z, c),
         r.ok \in BOOLEAN, r.n = 0, SoundLeaf(r.s, z, c + m), r.ok => m = count
  PROVE  SkipGives(s, count, r)
<1>1. s.size = z /\ LeafByteCount(s) = c
  BY DEF SoundLeaf
<1>2. LeafOK(r.s) /\ r.s.size = z /\ LeafByteCount(r.s) = c + m
  BY DEF SoundLeaf
<1>3. c + m - c = m
  OBVIOUS
<1> QED
  BY <1>1, <1>2, <1>3 DEF SkipGives

(* Skip moves on by what it is asked for, or by less and says so. *)
LEMMA LeafSkipIs ==
  ASSUME NEW s, LeafOK(s), NEW count \in Nat, NEW r \in LeafSkip(s, count)
  PROVE  SkipGives(s, count, r)
<1>1. CASE s.kind = "array"
  <2>1. PICK z \in Nat, b \in Nat, p \in Nat, l \in Nat :
          s = ArrayLeaf(z, b, p, l) /\ p <= z /\ l <= p
    BY <1>1, ArrayLeafHas
  <2>2. s.size = z /\ s.block = b /\ s.position = p /\ s.last = l
    BY <2>1 DEF ArrayLeaf
  <2>3. PICK n : n = IF count > z - p THEN z ELSE p + count
    OBVIOUS
  <2>4. n \in Nat /\ n <= z /\ n - p \in 0..count /\ (~(count > z - p) => n = p + count)
    BY <2>1, <2>3
  <2>5. r \in ArraySkip(s, count) /\ SoundLeaf(s, z, p)
    BY <1>1, <2>1, ArrayLeafIs DEF LeafSkip
  <2>6. r = Outcome(~(count > z - p), 0, 0,
              [s EXCEPT !.last = 0, !.position = IF count > z - p THEN z ELSE @ + count])
    BY <2>2, <2>5 DEF ArraySkip
  <2>7. [s EXCEPT !.last = 0, !.position = IF count > z - p THEN z ELSE @ + count]
        = ArrayLeaf(z, b, n, 0)
    <3>1. [s EXCEPT !.last = 0, !.position = n] = ArrayLeaf(z, b, n, 0)
      <4>1. [s EXCEPT !.last = 0] = ArrayLeaf(z, b, p, 0)
        BY <2>1 DEF ArrayLeaf
      <4>2. [ArrayLeaf(z, b, p, 0) EXCEPT !.position = n] = ArrayLeaf(z, b, n, 0)
        BY DEF ArrayLeaf
      <4> QED
        BY <4>1, <4>2
    <3> QED
      BY <2>2, <2>3, <3>1
  <2>8. /\ r.ok \in BOOLEAN /\ (r.ok => ~(count > z - p))
        /\ r.n = 0 /\ r.s = ArrayLeaf(z, b, n, 0)
    BY <2>6, <2>7 DEF Outcome
  <2>9. SoundLeaf(ArrayLeaf(z, b, n, 0), z, n)
    BY <2>1, <2>4, ArrayLeafIs
  <2>10. PICK m \in 0..count : n = p + m /\ (r.ok => m = count)
    <3>1. n - p \in 0..count /\ n = p + (n - p) /\ (r.ok => n - p = count)
      BY <2>1, <2>4, <2>8
    <3> QED
      BY <3>1
  <2>11. SoundLeaf(r.s, z, p + m) /\ p \in Int /\ r.ok \in BOOLEAN
    BY <2>1, <2>8, <2>9, <2>10
  <2> QED
    BY <2>5, <2>8, <2>10, <2>11, Skips
<1>2. CASE s.kind = "FileStream"
  <2>1. PICK z \in Nat, b \in Nat, p \in Nat : s = FileLeaf(z, b, p)
    BY <1>2, FileLeafHas
  <2>2. s.size = z /\ s.block = b /\ s.position = p
    BY <2>1 DEF FileLeaf
  <2>3. r = Outcome(TRUE, 0, 0, [s EXCEPT !.position = @ + count])
    BY <1>2 DEF LeafSkip
  <2>4. [s EXCEPT !.position = @ + count] = FileLeaf(z, b, p + count)
    BY <2>1 DEF FileLeaf
  <2>5. r.ok = TRUE /\ r.n = 0 /\ r.s = FileLeaf(z, b, p + count)
    BY <2>3, <2>4 DEF Outcome
  <2>6. SoundLeaf(FileLeaf(z, b, p + count), z, p + count) /\ SoundLeaf(s, z, p)
    BY <2>1, FileLeafIs
  <2>7. count \in 0..count /\ p \in Int
    BY <2>1
  <2>8. r.ok \in BOOLEAN /\ r.n = 0
    BY <2>5
  <2>9. SoundLeaf(r.s, z, p + count) /\ SoundLeaf(s, z, p)
    BY <2>5, <2>6
  <2> QED
    BY <2>7, <2>8, <2>9, Skips
<1>3. CASE s.kind \notin {"array", "FileStream"}
  <2> DEFINE k == s.kind
             z == s.size
             b == s.block
             y == s.faulty
             p == s.position
             u == s.used
             w == s.backup
             f == s.buffer
             d == s.failed
             t == s.start
             e == s.seekFailed
  <2>1. /\ s = CopyingLeaf(k, z, b, y, p, u, w, f, d, t, e)
        /\ k \in {"descriptor", "pipe", "istream"} /\ z \in Nat /\ b \in Nat /\ y \in BOOLEAN
        /\ p \in Nat /\ u \in Nat /\ w \in Nat /\ f \in BOOLEAN /\ d \in BOOLEAN /\ t \in Nat
        /\ e \in BOOLEAN /\ b > 0 /\ w <= u /\ u <= p
        /\ w > 0 => f /\ t + u = p /\ p <= z
    BY <1>3, CopyingLeafHas DEF CopyingFields
  <2>2. /\ s.kind = k /\ s.size = z /\ s.block = b /\ s.faulty = y /\ s.position = p
        /\ s.used = u /\ s.backup = w /\ s.buffer = f /\ s.failed = d /\ s.offset = p
        /\ s.start = t /\ s.seekFailed = e
    <3>1. s.offset = s.position
      BY <1>3, CopyingLeafHas
    <3> QED
      BY <3>1
  <2> HIDE DEF k, z, b, y, p, u, w, f, d, t, e
  <2>3. r \in CopyingSkip(s, count)
    BY <1>3 DEF LeafSkip
  <2>4. SoundLeaf(s, z, p - w)
    <3>1. CopyingFields(k, z, b, y, p, u, w, f, d, t, e)
      BY <2>1 DEF CopyingFields
    <3>2. SoundLeaf(CopyingLeaf(k, z, b, y, p, u, w, f, d, t, e), z, p - w)
      BY <3>1, CopyingLeafIs
    <3> QED
      BY <2>1, <3>2
  <2>5. CASE d
    <3>1. r = Outcome(FALSE, 0, 0, s)
      BY <2>2, <2>3, <2>5 DEF CopyingSkip
    <3>2. r.ok \in BOOLEAN /\ ~r.ok /\ r.n = 0 /\ r.s = s
      BY <3>1 DEF Outcome
    <3>3. p - w \in Int /\ p - w + 0 = p - w /\ 0 \in 0..count
      BY <2>1
    <3>4. SoundLeaf(r.s, z, p - w + 0) /\ r.ok \in BOOLEAN
      BY <2>4, <3>2, <3>3
    <3> QED
      BY <2>4, <3>2, <3>3, <3>4, Skips
  <2>6. CASE ~d /\ w >= count
    <3>1. r = Outcome(TRUE, 0, 0, [s EXCEPT !.backup = @ - count])
      BY <2>2, <2>3, <2>6 DEF CopyingSkip
    <3>2. [s EXCEPT !.backup = @ - count] = CopyingLeaf(k, z, b, y, p, u, w - count, f, d, t, e)
      BY <2>1 DEF CopyingLeaf
    <3>3. w - count \in Nat /\ w - count <= u /\ (w - count > 0 => w > 0)
          /\ p - (w - count) = p - w + count
      BY <2>1, <2>6
    <3>4. SoundLeaf(CopyingLeaf(k, z, b, y, p, u, w - count, f, d, t, e), z, p - w + count)
      <4>1. CopyingFields(k, z, b, y, p, u, w - count, f, d, t, e)
        BY <2>1, <3>3 DEF CopyingFields
      <4>2. p - w + count = p - (w - count)
        BY <3>3
      <4> QED
        BY <4>1, <4>2, CopyingLeafIs
    <3>5. r.ok = TRUE /\ r.n = 0 /\ r.s = CopyingLeaf(k, z, b, y, p, u, w - count, f, d, t, e)
      BY <3>1, <3>2 DEF Outcome
    <3>6. p - w \in Int /\ count \in 0..count
      BY <2>1
    <3> QED
      BY <2>4, <3>4, <3>5, <3>6, Skips
  <2>7. CASE ~d /\ ~(w >= count)
    <3> DEFINE q == [s EXCEPT !.backup = 0]
               m == count - w
    <3>1. q = CopyingLeaf(k, z, b, y, p, u, 0, f, d, t, e)
      BY <2>1 DEF CopyingLeaf
    <3>2. m \in Nat
      BY <2>1, <2>7
    <3>3. PICK x \in SourceSkip(q, m) : r = Outcome(x.n = m, 0, 0, x.s)
      BY <2>2, <2>3, <2>7 DEF CopyingSkip
    <3>4. PICK n \in (IF q.kind = "descriptor" /\ ~q.seekFailed THEN {m} ELSE ReadOver(q, m)) :
            x = [n |-> n, s |-> [q EXCEPT !.offset = @ + n, !.position = @ + n,
                                          !.seekFailed = @ \/ q.kind = "pipe"]]
      BY <3>3 DEF SourceSkip
    <3> HIDE DEF m
    <3>5. n \in 0..m
      <4>1. q.offset = p /\ q.size = z
        BY <3>1 DEF CopyingLeaf
      <4> HIDE DEF q
      <4>2. ReadOver(q, m) \subseteq 0..m
        BY <2>1, <3>2, <4>1 DEF ReadOver, Lesser
      <4> QED
        BY <3>2, <3>4, <4>2
    <3>6. x.s = CopyingLeaf(k, z, b, y, p + n, u, 0, f, d, t, e \/ k = "pipe")
      BY <3>1, <3>4, ZenonT(40) DEF CopyingLeaf
    <3>7. r.ok = (n = m) /\ r.n = 0
          /\ r.s = CopyingLeaf(k, z, b, y, p + n, u, 0, f, d, t, e \/ k = "pipe")
      BY <3>3, <3>4, <3>6 DEF Outcome
    <3>8. n \in Nat /\ p + n \in Nat /\ u <= p + n /\ (e \/ k = "pipe") \in BOOLEAN
      BY <2>1, <3>2, <3>5
    <3>9. SoundLeaf(CopyingLeaf(k, z, b, y, p + n, u, 0, f, d, t, e \/ k = "pipe"), z, p + n)
      <4>1. PICK g : g = (e \/ k = "pipe")
        OBVIOUS
      <4>2. CopyingFields(k, z, b, y, p + n, u, 0, f, d, t, g)
        BY <2>1, <3>8, <4>1 DEF CopyingFields
      <4>3. PICK h : h = p + n /\ h = h - 0
        BY <3>8
      <4>4. SoundLeaf(CopyingLeaf(k, z, b, y, h, u, 0, f, d, t, g), z, h)
        BY <4>2, <4>3, CopyingLeafIs
      <4> QED
        BY <4>1, <4>3, <4>4
    <3>10. /\ p - w \in Int /\ n + w \in 0..count /\ (n = m => n + w = count)
           /\ p + n = p - w + (n + w)
      BY <2>1, <2>7, <3>5, <3>8 DEF m
    <3>11. SoundLeaf(r.s, z, p - w + (n + w)) /\ r.ok \in BOOLEAN /\ (r.ok => n + w = count)
      BY <3>7, <3>9, <3>10
    <3> QED
      BY <2>4, <3>7, <3>10, <3>11, Skips
  <2> QED
    BY <2>1, <2>5, <2>6, <2>7
<1> QED
  BY <1>1, <1>2, <1>3

-----------------------------------------------------------------------------
(* The concatenation: as streams end, what is read, retired, lost and      *)
(* still to be skipped stays in balance (Follows), after any number of     *)
(* them (ReachedFollows).                                                  *)

Records == [leaf : Seq(Leaves), first : Int, retired : Int, lost : Int, count : Int]

(* What Before adds up *)
LEMMA BeforeIs ==
  ASSUME NEW c \in Records
  PROVE  /\ Before(c, 1) = 0
         /\ \A i \in 1..Len(c.leaf) : Before(c, i) \in Int
         /\ \A i \in 1..Len(c.leaf) : Before(c, i + 1) = Before(c, i) + c.leaf[i].size
<1>0. PICK n \in Nat : n = Len(c.leaf)
  BY DEF Records
<1>1. \A i \in 1..n : c.leaf[i].size \in Int
  <2> SUFFICES ASSUME NEW i \in 1..n PROVE c.leaf[i].size \in Int
    OBVIOUS
  <2>1. c.leaf[i] \in Leaves
    BY <1>0 DEF Records
  <2> QED
    BY <2>1 DEF Leaves, ArrayLeaves, FileLeaves, CopyingLeaves
<1> DEFINE size == [i \in 1..n |-> c.leaf[i].size]
<1>2. size \in [1..n -> Int]
  BY <1>1
<1> DEFINE step == [q \in Nat \X Int |-> IF q[1] < n THEN q[2] + size[q[1] + 1] ELSE 0]
<1>3. step \in [Nat \X Int -> Int]
  <2> HIDE DEF size
  <2> SUFFICES ASSUME NEW k \in Nat, NEW m \in Int
               PROVE  (IF k < n THEN m + size[k + 1] ELSE 0) \in Int
    OBVIOUS
  <2>1. k < n => k + 1 \in 1..n
    OBVIOUS
  <2> QED
    BY <1>2, <2>1
<1>4. PICK g : Recursive(g, n, Int, 0, step)
  <2>1. 0 \in Int
    OBVIOUS
  <2> HIDE DEF step
  <2> QED
    BY <1>3, <2>1, Recursion
<1>5. g \in [0..n -> Int] /\ g = [k \in 0..n |-> IF k = 0 THEN 0 ELSE step[<<k - 1, g[k - 1]>>]]
  BY <1>4 DEF Recursive
<1>6. g = [k \in 0..n |-> IF k = 0 THEN 0 ELSE g[k - 1] + c.leaf[k].size]
  <2>1. \A k \in 0..n : k # 0 => step[<<k - 1, g[k - 1]>>] = g[k - 1] + c.leaf[k].size
    <3> SUFFICES ASSUME NEW k \in 0..n, k # 0
                 PROVE  step[<<k - 1, g[k - 1]>>] = g[k - 1] + c.leaf[k].size
      OBVIOUS
    <3>1. g \in [0..n -> Int]
      BY <1>5
    <3>2. k - 1 \in 0..n /\ k - 1 \in Nat /\ k - 1 < n /\ (k - 1) + 1 = k /\ k \in 1..n
      OBVIOUS
    <3>3. g[k - 1] \in Int
      BY <3>1, <3>2
    <3>4. step[<<k - 1, g[k - 1]>>] = g[k - 1] + size[(k - 1) + 1]
      BY <3>2, <3>3
    <3> QED
      BY <3>2, <3>4
  <2> HIDE DEF step
  <2>2. \A k \in 0..n : (IF k = 0 THEN 0 ELSE step[<<k - 1, g[k - 1]>>])
                        = (IF k = 0 THEN 0 ELSE g[k - 1] + c.leaf[k].size)
    BY <2>1
  <2> QED
    BY <1>5, <2>2
<1> DEFINE sum[j \in 0..Len(c.leaf)] == IF j = 0 THEN 0 ELSE sum[j - 1] + c.leaf[j].size
<1>7. sum = [j \in 0..Len(c.leaf) |-> IF j = 0 THEN 0 ELSE sum[j - 1] + c.leaf[j].size]
  <2>1. g = [j \in 0..Len(c.leaf) |-> IF j = 0 THEN 0 ELSE g[j - 1] + c.leaf[j].size]
    BY <1>0, <1>6
  <2> QED
    BY <2>1, Zenon
<1>8. \A i : Before(c, i) = sum[i - 1]
  BY DEF Before
<1> HIDE DEF sum
<1>9. sum[0] = 0
  BY <1>0, <1>7
<1>10. \A i \in 1..n : sum[i] = sum[i - 1] + c.leaf[i].size
  BY <1>0, <1>7
<1>11. \A i \in Nat : i <= n => sum[i] \in Int
  <2> DEFINE T == {i \in Nat : i <= n => sum[i] \in Int}
  <2>1. 0 \in T
    BY <1>9
  <2>2. ASSUME NEW i \in Nat, i \in T PROVE i + 1 \in T
    <3> SUFFICES ASSUME i + 1 <= n PROVE sum[i + 1] \in Int
      OBVIOUS
    <3>1. sum[i] \in Int /\ i + 1 \in 1..n /\ (i + 1) - 1 = i
      BY <2>2
    <3> QED
      BY <1>1, <1>10, <3>1
  <2> HIDE DEF T
  <2>3. Nat \subseteq T
    BY <2>1, <2>2, Induction
  <2> QED
    BY <2>3 DEF T
<1>12. 1 - 1 = 0 /\ \A i \in 1..n : (i + 1) - 1 = i /\ i - 1 \in Nat /\ i - 1 <= n
  OBVIOUS
<1> QED
  BY <1>0, <1>8, <1>9, <1>10, <1>11, <1>12

SameSizes(c, d) ==
  /\ Len(c.leaf) = Len(d.leaf)
  /\ \A i \in 1..Len(c.leaf) : c.leaf[i].size = d.leaf[i].size

(* It depends on the sizes only. *)
LEMMA BeforeSame ==
  ASSUME NEW c \in Records, NEW d \in Records, SameSizes(c, d)
  PROVE  \A i \in 1..(Len(c.leaf) + 1) : Before(c, i) = Before(d, i)
<1>0. PICK n \in Nat : n = Len(c.leaf)
  BY DEF Records
<1>1. n = Len(d.leaf) /\ \A i \in 1..n : c.leaf[i].size = d.leaf[i].size
  BY <1>0 DEF SameSizes
<1>2. Before(c, 1) = 0 /\ Before(d, 1) = 0
  BY BeforeIs
<1>3. \A i \in 1..n : Before(c, i + 1) = Before(c, i) + c.leaf[i].size
  BY <1>0, BeforeIs
<1>4. \A i \in 1..n : Before(d, i + 1) = Before(d, i) + d.leaf[i].size
  BY <1>1, BeforeIs
<1> DEFINE T == {i \in Nat : i <= n => Before(c, i + 1) = Before(d, i + 1)}
<1>5. 0 \in T
  BY <1>2
<1>6. ASSUME NEW i \in Nat, i \in T PROVE i + 1 \in T
  <2> SUFFICES ASSUME i + 1 <= n PROVE Before(c, (i + 1) + 1) = Before(d, (i + 1) + 1)
    OBVIOUS
  <2>1. Before(c, i + 1) = Before(d, i + 1) /\ i + 1 \in 1..n
    BY <1>6
  <2> QED
    BY <1>1, <1>3, <1>4, <2>1
<1> HIDE DEF T
<1>7. Nat \subseteq T
  BY <1>5, <1>6, Induction
<1> SUFFICES ASSUME NEW i \in 1..(n + 1) PROVE Before(c, i) = Before(d, i)
  BY <1>0
<1>8. i - 1 \in Nat /\ i - 1 <= n /\ (i - 1) + 1 = i
  OBVIOUS
<1>9. Before(c, (i - 1) + 1) = Before(d, (i - 1) + 1)
  BY <1>7, <1>8 DEF T
<1> QED
  BY <1>8, <1>9

-----------------------------------------------------------------------------
(* The streams together: those after the current one are not begun, and    *)
(* unless one of those before it was overrun, the bytes counted and the    *)
(* bytes lost make up all of them.                                         *)
Within(s) == LeafByteCount(s) <= s.size

Placed(c) ==
  (\A i \in 1..(c.first - 1) : Within(c.leaf[i])) => c.retired + c.lost = Before(c, c.first)

ConcatOK(c) ==
  /\ c \in Records
  /\ c.first \in 1..(Len(c.leaf) + 1)
  /\ \A i \in 1..Len(c.leaf) : LeafOK(c.leaf[i])
  /\ \A i \in 1..Len(c.leaf) : i > c.first => LeafByteCount(c.leaf[i]) = 0
  /\ Placed(c)

(* The current stream becomes s. *)
LEMMA WithIs ==
  ASSUME NEW c \in Records, c.first \in 1..Len(c.leaf), NEW s \in Leaves
  PROVE  /\ With(c, s) \in Records
         /\ With(c, s).first = c.first /\ With(c, s).retired = c.retired
         /\ With(c, s).lost = c.lost /\ With(c, s).count = c.count
         /\ Len(With(c, s).leaf) = Len(c.leaf)
         /\ \A i \in 1..Len(c.leaf) : With(c, s).leaf[i] = IF i = c.first THEN s ELSE c.leaf[i]
<1>1. c.leaf \in Seq(Leaves)
  BY DEF Records
<1> DEFINE l == [c.leaf EXCEPT ![c.first] = s]
<1>2. l \in Seq(Leaves) /\ Len(l) = Len(c.leaf)
  BY <1>1, ExceptSeq
<1>3. \A i \in 1..Len(c.leaf) : l[i] = IF i = c.first THEN s ELSE c.leaf[i]
  BY <1>1
<1>4. With(c, s) = [c EXCEPT !.leaf = l]
  BY DEF With
<1> HIDE DEF l
<1>5. With(c, s).leaf = l /\ With(c, s) \in Records
  BY <1>2, <1>4 DEF Records
<1>6. /\ With(c, s).first = c.first /\ With(c, s).retired = c.retired
      /\ With(c, s).lost = c.lost /\ With(c, s).count = c.count
  BY <1>4 DEF Records
<1> QED
  BY <1>2, <1>3, <1>5, <1>6

(* The stream that is read is one of the concatenated ones. *)
LEMMA CurrentIs ==
  ASSUME NEW c, ConcatOK(c), ~Finished(c)
  PROVE  /\ c \in Records /\ c.first \in 1..Len(c.leaf) /\ Current(c) = c.leaf[c.first]
         /\ LeafOK(Current(c)) /\ Current(c) \in Leaves
         /\ Current(c).size \in Nat /\ LeafByteCount(Current(c)) \in Nat
         /\ c.first \in Nat /\ Len(c.leaf) \in Nat
<1>1. c \in Records /\ c.first \in 1..(Len(c.leaf) + 1)
  BY DEF ConcatOK
<1>2. Len(c.leaf) \in Nat
  BY <1>1 DEF Records
<1>3. c.first \in 1..Len(c.leaf)
  BY <1>1, <1>2 DEF Finished
<1>4. LeafOK(Current(c))
  BY <1>3 DEF ConcatOK, Current
<1> QED
  BY <1>1, <1>2, <1>3, <1>4, CountIsNat DEF Current, LeafOK

(* A method that leaves the current stream sound leaves all sound. *)
LEMMA WithOK ==
  ASSUME NEW c, ConcatOK(c), ~Finished(c), NEW s, LeafOK(s), s.size = Current(c).size
  PROVE  /\ ConcatOK(With(c, s)) /\ SameSizes(c, With(c, s)) /\ ~Finished(With(c, s))
         /\ Current(With(c, s)) = s
<1> DEFINE d == With(c, s)
<1>1. /\ c \in Records /\ c.first \in 1..Len(c.leaf) /\ Current(c) = c.leaf[c.first]
      /\ s \in Leaves /\ Len(c.leaf) \in Nat /\ c.first \in Nat
  BY CurrentIs DEF LeafOK
<1>2. /\ d \in Records /\ d.first = c.first /\ d.retired = c.retired /\ d.lost = c.lost
      /\ Len(d.leaf) = Len(c.leaf)
      /\ \A i \in 1..Len(c.leaf) : d.leaf[i] = IF i = c.first THEN s ELSE c.leaf[i]
  BY <1>1, WithIs
<1> HIDE DEF d
<1>3. SameSizes(c, d)
  BY <1>1, <1>2 DEF SameSizes
<1>4. \A i \in 1..Len(d.leaf) : LeafOK(d.leaf[i])
  BY <1>2 DEF ConcatOK
<1>5. \A i \in 1..Len(d.leaf) : i > d.first => LeafByteCount(d.leaf[i]) = 0
  BY <1>1, <1>2 DEF ConcatOK
<1>6. Placed(d)
  <2>1. Before(d, d.first) = Before(c, c.first)
    BY <1>1, <1>2, <1>3, BeforeSame
  <2>2. \A i \in 1..(c.first - 1) : d.leaf[i] = c.leaf[i]
    BY <1>1, <1>2
  <2> QED
    BY <1>2, <2>1, <2>2 DEF ConcatOK, Placed
<1>7. ConcatOK(d)
  BY <1>1, <1>2, <1>4, <1>5, <1>6 DEF ConcatOK
<1> QED
  BY <1>1, <1>2, <1>3, <1>7 DEF d, Finished, Current

-----------------------------------------------------------------------------
(* What trying the current stream makes of it: q                           *)
Tried(d, op, q) ==
  LET read == LeafByteCount(Current(d)) IN
  /\ q.ok \in BOOLEAN /\ q.n \in Nat
  /\ LeafOK(q.s) /\ q.s.size = Current(d).size
  /\ LeafByteCount(q.s) - read \in 0..(q.n + d.count)
  /\ ~q.ok => q.n = 0
  /\ q.ok => LeafByteCount(q.s) = read + q.n + d.count
  /\ op = "Next" =>
       /\ d.count = 0 /\ (Within(Current(d)) => Within(q.s))
       /\ q.ok => q.n > 0 /\ q.at = read /\ Holds(q.s, q.n)
  /\ op # "Next" => q.n = 0

(* A call on the current stream does what the call on a stream does. *)
LEMMA TriesIs ==
  ASSUME NEW d, ConcatOK(d), ~Finished(d), d.count \in Nat, NEW op, op = "Next" => d.count = 0,
         NEW q \in Tries(d, op)
  PROVE  Tried(d, op, q)
<1> DEFINE s == Current(d)
<1>1. LeafOK(s) /\ LeafByteCount(s) \in Nat /\ s.size \in Nat
  BY CurrentIs
<1> HIDE DEF s
<1>2. CASE op = "Next"
  <2>1. NextGives(s, q)
    BY <1>1, <1>2, LeafNextIs DEF Tries, s
  <2>2. /\ q.ok \in BOOLEAN /\ q.n \in Nat /\ LeafOK(q.s) /\ q.s.size = s.size
        /\ LeafByteCount(q.s) = LeafByteCount(s) + q.n
    BY <2>1 DEF NextGives, SoundLeaf
  <2>3. q.ok => q.n > 0 /\ q.at = LeafByteCount(s) /\ q.at + q.n <= s.size /\ Holds(q.s, q.n)
    BY <2>1 DEF NextGives
  <2>4. ~q.ok => q.n = 0
    BY <2>1 DEF NextGives
  <2>5. Within(s) => Within(q.s)
    BY <1>1, <2>2, <2>3, <2>4 DEF Within
  <2>6. LeafByteCount(q.s) - LeafByteCount(s) \in 0..(q.n + d.count)
    BY <1>1, <2>2
  <2>7. LeafByteCount(q.s) = LeafByteCount(s) + q.n + d.count
    BY <1>1, <1>2, <2>2
  <2> QED
    BY <1>2, <2>2, <2>3, <2>4, <2>5, <2>6, <2>7 DEF Tried, s
<1>3. CASE op # "Next"
  <2>1. SkipGives(s, d.count, q)
    BY <1>1, <1>3, LeafSkipIs DEF Tries, s
  <2>2. /\ q.ok \in BOOLEAN /\ q.n = 0 /\ LeafOK(q.s) /\ q.s.size = s.size
        /\ LeafByteCount(q.s) - LeafByteCount(s) \in 0..d.count
        /\ q.ok => LeafByteCount(q.s) = LeafByteCount(s) + d.count
    BY <2>1 DEF SkipGives
  <2>3. q.n \in Nat /\ q.n + d.count = d.count
    BY <2>2
  <2>4. q.ok => LeafByteCount(q.s) = LeafByteCount(s) + q.n + d.count
    BY <1>1, <2>2
  <2> QED
    BY <1>3, <2>2, <2>3, <2>4 DEF Tried, s
<1> QED
  BY <1>2, <1>3

(* d may become of c while streams end: the bytes counted and those still  *)
(* to be skipped are conserved.                                            *)
Follows(c, op, d) ==
  /\ ConcatOK(d) /\ SameSizes(c, d)
  /\ d.first >= c.first /\ d.lost >= c.lost
  /\ d.count \in 0..c.count
  /\ ConcatByteCount(d) + d.count = ConcatByteCount(c) + c.count
  /\ Finished(c) => d = c
  /\ op = "Next" /\ ~Overrun(c) => ~Overrun(d)

(* ByteCount of the concatenation is a number. *)
LEMMA CountIsInt ==
  ASSUME NEW c, ConcatOK(c)
  PROVE  ConcatByteCount(c) \in Int /\ c.retired \in Int /\ c.lost \in Int /\ c.first \in Int
<1>1. c.retired \in Int /\ c.lost \in Int /\ c.first \in Int
  BY DEF ConcatOK, Records
<1>2. ~Finished(c) => LeafByteCount(Current(c)) \in Nat
  BY CurrentIs
<1> QED
  BY <1>1, <1>2 DEF ConcatByteCount

(* Ending a stream keeps what a call conserves. *)
LEMMA RetireFollows ==
  ASSUME NEW c, NEW op, NEW d, ConcatOK(c), Follows(c, op, d), ~Finished(d), c.count \in Nat,
         op = "Next" => c.count = 0, NEW q \in Tries(d, op), ~q.ok
  PROVE  Follows(c, op, Retire(d, q.s))
<1>1. ConcatOK(d) /\ SameSizes(c, d) /\ d.count \in Nat /\ (op = "Next" => d.count = 0)
  BY DEF Follows
<1>2. Tried(d, op, q)
  BY <1>1, TriesIs
<1>3. PICK n \in Nat : n = LeafByteCount(q.s)
  BY <1>2, CountIsNat DEF Tried
<1>4. PICK m \in Nat : m = LeafByteCount(Current(d))
  BY <1>1, CurrentIs
<1>5. PICK z \in Nat : z = Current(d).size /\ z = q.s.size
  BY <1>1, <1>2, CurrentIs DEF Tried
<1>6. LeafOK(q.s) /\ q.s \in Leaves /\ n - m \in 0..d.count
  BY <1>1, <1>2, <1>3, <1>4 DEF Tried, LeafOK
<1> DEFINE w == With(d, q.s)
           e == Retire(d, q.s)
<1>7. /\ ConcatOK(w) /\ SameSizes(d, w) /\ ~Finished(w) /\ Current(w) = q.s
  BY <1>1, <1>5, <1>6, WithOK
<1>8. /\ d.first \in 1..Len(d.leaf) /\ Current(d) = d.leaf[d.first] /\ d \in Records
      /\ d.first \in Nat /\ Len(d.leaf) \in Nat
  BY <1>1, CurrentIs
<1>9. /\ w \in Records /\ w.first = d.first /\ w.retired = d.retired /\ w.lost = d.lost
      /\ w.count = d.count /\ Len(w.leaf) = Len(d.leaf)
      /\ \A i \in 1..Len(d.leaf) : w.leaf[i] = IF i = d.first THEN q.s ELSE d.leaf[i]
  BY <1>6, <1>8, WithIs
<1>10. e = [w EXCEPT !.first = @ + 1, !.retired = @ + n,
                     !.lost = @ + (IF n < z THEN z - n ELSE 0), !.count = @ + m - n]
  BY <1>3, <1>4, <1>5 DEF Retire
<1> HIDE DEF w, e
<1>11. w.first \in Int /\ w.retired \in Int /\ w.lost \in Int /\ w.count \in Int
  BY <1>9 DEF Records
<1>12. /\ e.leaf = w.leaf /\ e.first = d.first + 1 /\ e.retired = d.retired + n
       /\ e.lost = d.lost + (IF n < z THEN z - n ELSE 0) /\ e.count = d.count + m - n
  BY <1>9, <1>10 DEF Records
<1>13. e \in Records
  <2>1. e = [leaf |-> e.leaf, first |-> e.first, retired |-> e.retired, lost |-> e.lost,
             count |-> e.count]
    BY <1>9, <1>10 DEF Records
  <2>2. e.leaf \in Seq(Leaves)
    BY <1>9, <1>12 DEF Records
  <2>3. e.first \in Int /\ e.retired \in Int /\ e.lost \in Int /\ e.count \in Int
    BY <1>9, <1>11, <1>12, SMTT(30)
  <2> QED
    BY <2>1, <2>2, <2>3 DEF Records
<1>14. SameSizes(w, e) /\ SameSizes(d, e) /\ SameSizes(c, e)
  BY <1>1, <1>7, <1>12 DEF SameSizes
<1>15. \A i \in 1..Len(e.leaf) : LeafOK(e.leaf[i])
  BY <1>7, <1>12 DEF ConcatOK
<1>16. \A i \in 1..Len(e.leaf) : i > d.first => LeafByteCount(e.leaf[i]) = 0
  BY <1>7, <1>9, <1>12 DEF ConcatOK
<1>17. Placed(e)
  <2>1. SUFFICES ASSUME \A i \in 1..d.first : Within(e.leaf[i])
                 PROVE  e.retired + e.lost = Before(e, d.first + 1)
    BY <1>8, <1>12 DEF Placed
  <2>2. \A i \in 1..(w.first - 1) : Within(w.leaf[i])
    BY <1>8, <1>9, <1>12, <2>1
  <2>3. w.retired + w.lost = Before(w, w.first)
    BY <1>7, <2>2 DEF ConcatOK, Placed
  <2>4. n <= z
    <3>1. e.leaf[d.first] = q.s
      BY <1>8, <1>9, <1>12
    <3>2. Within(q.s)
      BY <1>8, <2>1, <3>1
    <3> QED
      BY <1>3, <1>5, <3>2 DEF Within
  <2>5. Before(e, d.first) = Before(w, w.first)
    BY <1>8, <1>9, <1>13, <1>14, BeforeSame
  <2>6. Before(e, d.first + 1) = Before(e, d.first) + z
    <3>1. e.leaf[d.first].size = z
      BY <1>5, <1>8, <1>9, <1>12
    <3> QED
      BY <1>8, <1>9, <1>12, <1>13, <3>1, BeforeIs, SMTT(30)
  <2>7. e.lost = w.lost + (z - n) /\ e.retired = w.retired + n
    BY <1>9, <1>11, <1>12, <2>4
  <2>8. e.retired + e.lost = (w.retired + w.lost) + z
    BY <1>11, <2>7
  <2> QED
    BY <2>3, <2>5, <2>6, <2>8
<1>18. ConcatOK(e)
  BY <1>8, <1>9, <1>12, <1>13, <1>15, <1>16, <1>17 DEF ConcatOK
<1>19. e.count \in 0..d.count
  BY <1>1, <1>6, <1>12
<1>20. ConcatByteCount(e) = d.retired + n
  <2>1. ~Finished(e) => LeafByteCount(Current(e)) = 0
    BY <1>8, <1>9, <1>12, <1>16, <1>18, CurrentIs
  <2> QED
    BY <1>9, <1>11, <1>12, <2>1 DEF ConcatByteCount
<1>21. ConcatByteCount(d) = d.retired + m
  BY <1>4 DEF ConcatByteCount
<1>22. ConcatByteCount(e) + e.count = ConcatByteCount(d) + d.count
  BY <1>1, <1>9, <1>11, <1>12, <1>20, <1>21
<1>23. ~Finished(c)
  BY DEF Follows
<1>24. ASSUME op = "Next", ~Overrun(c) PROVE ~Overrun(e)
  <2>1. \A i \in 1..Len(d.leaf) : Within(d.leaf[i])
    <3>1. ~Overrun(d)
      BY <1>24 DEF Follows
    <3>2. \A i \in 1..Len(d.leaf) : LeafByteCount(d.leaf[i]) \in Nat /\ d.leaf[i].size \in Nat
      BY <1>1, CountIsNat DEF ConcatOK
    <3> QED
      BY <3>1, <3>2 DEF Overrun, Within
  <2>2. Within(q.s)
    BY <1>2, <1>8, <1>24, <2>1 DEF Tried
  <2>3. \A i \in 1..Len(e.leaf) : Within(e.leaf[i])
    BY <1>9, <1>12, <2>1, <2>2
  <2>4. \A i \in 1..Len(e.leaf) : LeafByteCount(e.leaf[i]) \in Nat /\ e.leaf[i].size \in Nat
    BY <1>15, CountIsNat
  <2> QED
    BY <2>3, <2>4 DEF Overrun, Within
<1>25. e.first >= c.first /\ e.lost >= c.lost /\ e.count \in 0..c.count
  <2>1. c.first \in Int /\ c.lost \in Int /\ d.lost \in Int
    BY <1>1, CountIsInt
  <2>2. d.first >= c.first /\ d.lost >= c.lost /\ d.count \in 0..c.count
    BY DEF Follows
  <2>3. e.first >= c.first
    BY <1>8, <1>12, <2>1, <2>2
  <2>4. e.lost >= c.lost
    BY <1>12, <2>1, <2>2
  <2>5. e.count \in 0..c.count
    BY <1>19, <2>2
  <2> QED
    BY <2>3, <2>4, <2>5
<1>26. ConcatByteCount(e) + e.count = ConcatByteCount(c) + c.count
  BY <1>22 DEF Follows
<1> QED
  BY <1>14, <1>18, <1>23, <1>24, <1>25, <1>26 DEF Follows, e

(* Before a stream ends, nothing has changed. *)
LEMMA FollowsItself ==
  ASSUME NEW c, NEW op, ConcatOK(c), c.count \in Nat
  PROVE  Follows(c, op, c)
<1>1. c.first \in Int /\ c.lost \in Int
  BY CountIsInt
<1> QED
  BY <1>1 DEF Follows, SameSizes

(* However many streams end, what the loop has reached follows. *)
LEMMA ReachedFollows ==
  ASSUME NEW c, NEW op, ConcatOK(c), c.count \in Nat, op = "Next" => c.count = 0,
         NEW x \in Reached(c, op)
  PROVE  Follows(c, op, x)
<1> DEFINE Good == {d \in Records : Follows(c, op, d)}
           Ended(X) == UNION {{Retire(d, r.s) : r \in {q \in Tries(d, op) : ~q.ok}} :
                                d \in {e \in X : ~Finished(e)}}
           n == Len(c.leaf)
           step == [q \in Nat \X SUBSET Good |-> Ended(q[2])]
<1>1. n \in Nat
  BY DEF ConcatOK, Records
<1>2. ASSUME NEW X \in SUBSET Good PROVE Ended(X) \in SUBSET Good
  <2> SUFFICES ASSUME NEW d \in X, ~Finished(d), NEW r \in Tries(d, op), ~r.ok
               PROVE  Retire(d, r.s) \in Good
    OBVIOUS
  <2>1. Follows(c, op, d)
    OBVIOUS
  <2>2. Follows(c, op, Retire(d, r.s))
    BY <2>1, RetireFollows
  <2> QED
    BY <2>2 DEF Follows, ConcatOK
<1>3. {c} \in SUBSET Good
  BY FollowsItself DEF ConcatOK
<1> HIDE DEF Good
<1>4. step \in [Nat \X SUBSET Good -> SUBSET Good]
  <2> HIDE DEF Ended
  <2> QED
    BY <1>2
<1> HIDE DEF n
<1>5. PICK g : Recursive(g, n, SUBSET Good, {c}, step)
  <2> HIDE DEF step
  <2> QED
    BY <1>1, <1>3, <1>4, Recursion
<1>6. /\ g \in [0..n -> SUBSET Good]
      /\ g = [k \in 0..n |-> IF k = 0 THEN {c} ELSE step[<<k - 1, g[k - 1]>>]]
  BY <1>5 DEF Recursive
<1>7. g = [k \in 0..n |-> IF k = 0 THEN {c} ELSE Ended(g[k - 1])]
  <2> HIDE DEF Ended
  <2>1. \A k \in 0..n : k # 0 => step[<<k - 1, g[k - 1]>>] = Ended(g[k - 1])
    <3> SUFFICES ASSUME NEW k \in 0..n, k # 0
                 PROVE  step[<<k - 1, g[k - 1]>>] = Ended(g[k - 1])
      OBVIOUS
    <3>1. k - 1 \in 0..n /\ k - 1 \in Nat
      BY <1>1
    <3>2. g[k - 1] \in SUBSET Good
      BY <1>6, <3>1
    <3> QED
      BY <3>1, <3>2
  <2> HIDE DEF step
  <2>2. \A k \in 0..n : (IF k = 0 THEN {c} ELSE step[<<k - 1, g[k - 1]>>])
                        = (IF k = 0 THEN {c} ELSE Ended(g[k - 1]))
    BY <2>1
  <2> QED
    BY <1>6, <2>2
<1> DEFINE after[k \in 0..Len(c.leaf)] ==
             IF k = 0 THEN {c}
             ELSE UNION {{Retire(d, r.s) : r \in {q \in Tries(d, op) : ~q.ok}} :
                           d \in {e \in after[k - 1] : ~Finished(e)}}
<1>8. after = [k \in 0..n |-> IF k = 0 THEN {c} ELSE Ended(after[k - 1])]
  BY <1>7, Zenon DEF n
<1>9. x \in UNION {after[k] : k \in 0..n}
  BY DEF Reached, n
<1> HIDE DEF after, Ended
<1> DEFINE T == {k \in Nat : k <= n => after[k] \subseteq Good}
<1>10. 0 \in T
  BY <1>1, <1>3, <1>8
<1>11. ASSUME NEW k \in Nat, k \in T PROVE k + 1 \in T
  <2> SUFFICES ASSUME k + 1 <= n PROVE after[k + 1] \subseteq Good
    OBVIOUS
  <2>1. k + 1 \in 0..n /\ (k + 1) - 1 = k /\ k + 1 # 0
    BY <1>1
  <2>2. after[k + 1] = Ended(after[k])
    BY <1>8, <2>1
  <2>3. after[k] \in SUBSET Good
    BY <1>1, <1>11
  <2> QED
    BY <1>2, <2>2, <2>3
<1> HIDE DEF T
<1>12. Nat \subseteq T
  BY <1>10, <1>11, Induction
<1>13. x \in Good
  BY <1>1, <1>9, <1>12 DEF T
<1> QED
  BY <1>13 DEF Good

(* What Next and Skip make of the concatenation: r                         *)
ConcatGives(c, op, r) ==
  /\ r.ok \in BOOLEAN /\ r.n \in Nat
  /\ ConcatOK(r.s) /\ SameSizes(c, r.s) /\ r.s.lost >= c.lost
  /\ r.ok => /\ ~Finished(c) /\ ~Finished(r.s)
             /\ ConcatByteCount(r.s) = ConcatByteCount(c) + r.n + c.count
  /\ ~r.ok => /\ Finished(r.s) /\ r.n = 0
              /\ ConcatByteCount(r.s) - ConcatByteCount(c) \in 0..c.count
  /\ Finished(c) => ConcatByteCount(r.s) = ConcatByteCount(c)
  /\ op = "Next" /\ ~Overrun(c) => ~Overrun(r.s)
  /\ op = "Next" /\ r.ok => r.n > 0 /\ Holds(Current(r.s), r.n)
  /\ op = "Next" /\ r.ok /\ ~Overrun(c) => r.at = ConcatByteCount(c) + r.s.lost
  /\ op # "Next" => r.n = 0

(* No stream was skipped past its end. *)
LEMMA OverrunIs ==
  ASSUME NEW c, ConcatOK(c)
  PROVE  ~Overrun(c) <=> \A i \in 1..Len(c.leaf) : Within(c.leaf[i])
<1>1. \A i \in 1..Len(c.leaf) : LeafByteCount(c.leaf[i]) \in Nat /\ c.leaf[i].size \in Nat
  BY CountIsNat DEF ConcatOK
<1> QED
  BY <1>1 DEF Overrun, Within

(* Every outcome of Next and Skip conserves what the call is to conserve. *)
LEMMA ConcatenatedIs ==
  ASSUME NEW c, NEW op, ConcatOK(c), c.count \in Nat, op = "Next" => c.count = 0,
         NEW r \in Concatenated(c, op)
  PROVE  ConcatGives(c, op, r)
<1>1. PICK d \in Reached(c, op) :
        r \in IF Finished(d) THEN {Outcome(FALSE, 0, 0, d)}
              ELSE {Outcome(TRUE, Before(d, d.first) + q.at, q.n, With(d, q.s)) :
                      q \in {p \in Tries(d, op) : p.ok}}
  BY DEF Concatenated
<1>2. Follows(c, op, d)
  BY ReachedFollows
<1>3. /\ ConcatOK(d) /\ SameSizes(c, d) /\ d.lost >= c.lost /\ d.count \in 0..c.count
      /\ ConcatByteCount(d) + d.count = ConcatByteCount(c) + c.count
      /\ Finished(c) => d = c
      /\ op = "Next" /\ ~Overrun(c) => ~Overrun(d)
  BY <1>2 DEF Follows
<1>4. /\ ConcatByteCount(c) \in Int /\ ConcatByteCount(d) \in Int /\ d.count \in Nat
      /\ d.lost \in Int /\ d.retired \in Int
  BY <1>3, CountIsInt
<1>5. CASE Finished(d)
  <2>0. r = Outcome(FALSE, 0, 0, d)
    BY <1>1, <1>5
  <2>1. r.ok \in BOOLEAN /\ ~r.ok /\ r.n = 0 /\ r.s = d
    BY <2>0 DEF Outcome
  <2>2. ConcatByteCount(d) - ConcatByteCount(c) \in 0..c.count
    BY <1>3, <1>4
  <2> QED
    BY <1>3, <1>5, <2>1, <2>2 DEF ConcatGives
<1>6. CASE ~Finished(d)
  <2>1. PICK q \in Tries(d, op) :
          q.ok /\ r = Outcome(TRUE, Before(d, d.first) + q.at, q.n, With(d, q.s))
    BY <1>1, <1>6
  <2>2. /\ r.ok \in BOOLEAN /\ r.ok /\ r.n = q.n /\ r.s = With(d, q.s)
        /\ r.at = Before(d, d.first) + q.at
    BY <2>1 DEF Outcome
  <2>3. Tried(d, op, q)
    BY <1>3, <1>4, <1>6, TriesIs
  <2>4. PICK m \in Nat : m = LeafByteCount(Current(d))
    BY <1>3, <1>6, CurrentIs
  <2>5. /\ q.n \in Nat /\ LeafOK(q.s) /\ q.s.size = Current(d).size
        /\ LeafByteCount(q.s) = m + q.n + d.count
        /\ op # "Next" => q.n = 0
        /\ op = "Next" => /\ Within(Current(d)) => Within(q.s)
                          /\ q.n > 0 /\ q.at = m /\ Holds(q.s, q.n)
    BY <2>1, <2>3, <2>4 DEF Tried
  <2>6. /\ ConcatOK(r.s) /\ SameSizes(d, r.s) /\ ~Finished(r.s) /\ Current(r.s) = q.s
    BY <1>3, <1>6, <2>2, <2>5, WithOK
  <2>7. /\ d \in Records /\ d.first \in 1..Len(d.leaf) /\ Current(d) = d.leaf[d.first]
        /\ q.s \in Leaves /\ d.first \in Nat /\ Len(d.leaf) \in Nat
    BY <1>3, <1>6, <2>5, CurrentIs DEF LeafOK
  <2>8. /\ r.s.retired = d.retired /\ r.s.lost = d.lost /\ Len(r.s.leaf) = Len(d.leaf)
        /\ \A i \in 1..Len(d.leaf) : r.s.leaf[i] = IF i = d.first THEN q.s ELSE d.leaf[i]
    BY <2>2, <2>7, WithIs
  <2>9. ConcatByteCount(d) = d.retired + m
    BY <1>6, <2>4 DEF ConcatByteCount
  <2>10. ConcatByteCount(r.s) = d.retired + (m + q.n + d.count)
    BY <2>5, <2>6, <2>8 DEF ConcatByteCount
  <2>11. ConcatByteCount(r.s) = ConcatByteCount(c) + q.n + c.count
    BY <1>3, <1>4, <2>4, <2>5, <2>9, <2>10
  <2>12. SameSizes(c, r.s)
    BY <1>3, <2>6 DEF SameSizes
  <2>13. ~Finished(c)
    BY <1>3, <1>6
  <2>14. ASSUME op = "Next", ~Overrun(c)
         PROVE  ~Overrun(r.s) /\ r.at = ConcatByteCount(c) + r.s.lost
    <3>1. \A i \in 1..Len(d.leaf) : Within(d.leaf[i])
      BY <1>3, <2>14, OverrunIs
    <3>2. Within(q.s)
      BY <2>5, <2>7, <2>14, <3>1
    <3>3. \A i \in 1..Len(r.s.leaf) : Within(r.s.leaf[i])
      BY <2>8, <3>1, <3>2
    <3>4. d.retired + d.lost = Before(d, d.first)
      BY <1>3, <2>7, <3>1, SMTT(30) DEF ConcatOK, Placed
    <3>5. c.count = 0 /\ d.count = 0
      BY <1>3, <2>14
    <3>6. ConcatByteCount(c) = d.retired + m
      BY <1>3, <1>4, <2>9, <3>5
    <3>7. r.at = (d.retired + d.lost) + m
      BY <2>2, <2>5, <2>14, <3>4
    <3>8. ~Overrun(r.s)
      BY <2>6, <3>3, OverrunIs
    <3>9. r.s.lost = d.lost /\ d.retired \in Int /\ d.lost \in Int
      BY <2>8, CountIsInt, <1>3
    <3> QED
      BY <2>5, <3>6, <3>7, <3>8, <3>9
  <2>15. r.s.lost >= c.lost /\ r.n \in Nat
    BY <1>3, <2>2, <2>5, <2>8
  <2> QED
    BY <2>2, <2>5, <2>6, <2>11, <2>12, <2>13, <2>14, <2>15 DEF ConcatGives
<1> QED
  BY <1>5, <1>6

-----------------------------------------------------------------------------
(* The client, who reads through the limiting stream while there is one    *)

(* A LimitingInputStream, the bytes it hides, and its ByteCount            *)
Limiters == [on : BOOLEAN, left : Int, prior : Int, limit : Nat]
Hidden(l) == IF l.on /\ l.left < 0 THEN -l.left ELSE 0
Counted(c, l) == ConcatByteCount(c) - l.prior + (IF l.left < 0 THEN l.left ELSE 0)

(* The client holds n bytes, and may return them with the hidden ones. The *)
(* limiting stream has let through what it was made with less what is      *)
(* left, at least what the client holds.                                   *)
HeldOK(c, l, n) == n + Hidden(l) > 0 => ~Finished(c) /\ Holds(Current(c), n + Hidden(l))
LimitOK(c, l, n) ==
  l.on => /\ Counted(c, l) \in n..l.limit
          /\ ~Finished(c) => ConcatByteCount(c) - l.prior = l.limit - l.left
ReaderOK(c, l, n) ==
  /\ ConcatOK(c) /\ l \in Limiters /\ n \in Nat
  /\ HeldOK(c, l, n) /\ LimitOK(c, l, n)
  /\ ~OverrunFiles => ~Overrun(c)

InOK == ReaderOK(Concat, lim, got.n)

(* The same concatenation, but for the count of a call *)
Alike(c, d) == c.leaf = d.leaf /\ c.first = d.first /\ c.retired = d.retired /\ c.lost = d.lost

(* Nothing depends on the count of a call. *)
LEMMA AlikeIs ==
  ASSUME NEW c, ConcatOK(c), NEW d \in Records, Alike(c, d)
  PROVE  /\ ConcatOK(d) /\ ConcatByteCount(d) = ConcatByteCount(c) /\ Current(d) = Current(c)
         /\ Finished(d) <=> Finished(c)
         /\ Overrun(d) <=> Overrun(c)
<1>1. c.leaf = d.leaf /\ c.first = d.first /\ c.retired = d.retired /\ c.lost = d.lost
  BY DEF Alike
<1>2. c \in Records /\ c.first \in 1..(Len(c.leaf) + 1) /\ SameSizes(c, d)
  BY <1>1 DEF ConcatOK, SameSizes
<1>3. Before(c, c.first) = Before(d, c.first)
  BY <1>2, BeforeSame
<1>4. Placed(d)
  BY <1>1, <1>3 DEF ConcatOK, Placed
<1>5. ConcatOK(d)
  BY <1>1, <1>4 DEF ConcatOK
<1> QED
  BY <1>1, <1>5 DEF ConcatByteCount, Current, Finished, Overrun

(* The invariant does not depend on the count of a call. *)
LEMMA ClientAlike ==
  ASSUME NEW c, NEW l, NEW n, ReaderOK(c, l, n), NEW d \in Records, Alike(c, d)
  PROVE  ReaderOK(d, l, n)
<1>1. /\ ConcatOK(d) /\ ConcatByteCount(d) = ConcatByteCount(c) /\ Current(d) = Current(c)
      /\ Finished(d) <=> Finished(c)
      /\ Overrun(d) <=> Overrun(c)
  BY AlikeIs DEF ReaderOK
<1> QED
  BY <1>1 DEF ReaderOK, HeldOK, LimitOK, Counted

(* Concat after SetConcat(d) *)
LEMMA SetIs ==
  ASSUME NEW d \in Records, SetConcat(d)
  PROVE  Concat' \in Records /\ Alike(d, Concat')
<1>1. leaf' = d.leaf /\ first' = d.first /\ retired' = d.retired /\ lost' = d.lost
  BY DEF SetConcat
<1>2. Concat' = [leaf |-> leaf', first |-> first', retired |-> retired', lost |-> lost', count |-> 0]
  BY DEF Concat
<1> QED
  BY <1>1, <1>2 DEF Records, Alike

(* The invariant holds afterwards when it holds of what SetConcat sets. *)
LEMMA ClientSet ==
  ASSUME NEW d, NEW l, NEW n, ReaderOK(d, l, n), SetConcat(d), lim' = l, got'.n = n
  PROVE  InOK'
<1>1. Concat' \in Records /\ Alike(d, Concat')
  BY SetIs DEF ReaderOK, ConcatOK
<1>2. PICK x : x = Concat'
  OBVIOUS
<1>3. ReaderOK(x, l, n)
  BY <1>1, <1>2, ClientAlike
<1> QED
  BY <1>2, <1>3 DEF InOK

-----------------------------------------------------------------------------
(* The methods *)
LEMMA NextOK ==
  ASSUME NEW c, NEW l, NEW n, ReaderOK(c, l, n), c.count = 0, l.on => l.left > 0,
         NEW r \in ConcatNext(c), NEW k, NEW m,
         k = IF l.on THEN [l EXCEPT !.left = l.left - r.n] ELSE l,
         m = IF l.on /\ l.left - r.n < 0 THEN r.n + (l.left - r.n) ELSE r.n
  PROVE  /\ ReaderOK(r.s, k, m) /\ ConcatGives(c, "Next", r)
         /\ m + Hidden(k) = r.n /\ Hidden(l) = 0 /\ (r.ok => m > 0) /\ (~r.ok => m = 0)
<1>1. ConcatOK(c) /\ l \in Limiters
  BY DEF ReaderOK
<1>2. ConcatGives(c, "Next", r)
  BY <1>1, ConcatenatedIs DEF ConcatNext
<1>3. /\ r.ok \in BOOLEAN /\ r.n \in Nat /\ ConcatOK(r.s)
      /\ r.ok => /\ ~Finished(c) /\ ~Finished(r.s)
                 /\ ConcatByteCount(r.s) = ConcatByteCount(c) + r.n
                 /\ r.n > 0 /\ Holds(Current(r.s), r.n)
      /\ ~r.ok => /\ Finished(r.s) /\ r.n = 0 /\ ConcatByteCount(r.s) = ConcatByteCount(c)
      /\ ~Overrun(c) => ~Overrun(r.s)
  <2>1. ConcatByteCount(c) \in Int /\ ConcatByteCount(c) + r.n + 0 = ConcatByteCount(c) + r.n
    BY <1>1, <1>2, CountIsInt DEF ConcatGives
  <2>2. ConcatByteCount(r.s) \in Int
    BY <1>2, CountIsInt DEF ConcatGives
  <2> QED
    BY <1>2, <2>1, <2>2 DEF ConcatGives
<1>4. l.left \in Int /\ l.prior \in Int /\ l.limit \in Nat /\ l.on \in BOOLEAN
  BY <1>1 DEF Limiters
<1>5. /\ k \in Limiters /\ k.on = l.on /\ k.prior = l.prior /\ k.limit = l.limit
      /\ k.left = IF l.on THEN l.left - r.n ELSE l.left
  BY <1>1, <1>3, <1>4 DEF Limiters
<1>6. m \in Nat /\ m + Hidden(k) = r.n /\ (m = IF l.on /\ k.left < 0 THEN l.left ELSE r.n)
  BY <1>3, <1>4, <1>5 DEF Hidden
<1>7. Hidden(l) = 0 /\ (r.ok => m > 0) /\ (~r.ok => m = 0)
  BY <1>3, <1>4, <1>5, <1>6 DEF Hidden
<1>8. HeldOK(r.s, k, m)
  BY <1>3, <1>6 DEF HeldOK
<1>9. LimitOK(r.s, k, m)
  <2> SUFFICES ASSUME l.on
               PROVE  /\ Counted(r.s, k) \in m..l.limit
                      /\ ~Finished(r.s) => ConcatByteCount(r.s) - l.prior = l.limit - k.left
    BY <1>5 DEF LimitOK
  <2>1. PICK x \in Int : x = ConcatByteCount(c) - l.prior
    BY <1>1, <1>4, CountIsInt
  <2>2. PICK y \in Int : y = ConcatByteCount(r.s) - l.prior
    BY <1>3, <1>4, CountIsInt
  <2>3. ConcatByteCount(c) \in Int
    BY <1>1, CountIsInt
  <2>4. Counted(c, l) = x /\ Counted(r.s, k) = y + (IF k.left < 0 THEN k.left ELSE 0)
    BY <1>4, <1>5, <2>1, <2>2 DEF Counted
  <2>5. x \in 0..l.limit /\ (~Finished(c) => x = l.limit - l.left)
    <3>1. Counted(c, l) \in n..l.limit /\ n \in Nat
      BY DEF ReaderOK, LimitOK
    <3> QED
      BY <2>1, <2>4, <3>1 DEF ReaderOK, LimitOK
  <2>6. CASE r.ok
    <3>1. y = x + r.n /\ x = l.limit - l.left
      BY <1>3, <1>4, <2>1, <2>2, <2>3, <2>5, <2>6
    <3> QED
      BY <1>3, <1>4, <1>5, <1>6, <2>2, <2>4, <2>5, <3>1
  <2>7. CASE ~r.ok
    <3>1. y = x /\ k.left = l.left /\ m = 0 /\ Finished(r.s)
      BY <1>3, <1>4, <1>5, <1>6, <2>1, <2>2, <2>7
    <3> QED
      BY <1>4, <2>4, <2>5, <3>1
  <2> QED
    BY <1>3, <2>6, <2>7
<1> QED
  BY <1>2, <1>3, <1>5, <1>6, <1>7, <1>8, <1>9 DEF ReaderOK

(* b bytes of the held ones go back to the concatenation. *)
LEMMA ConcatBackUpIs ==
  ASSUME NEW c, ConcatOK(c), ~Finished(c), NEW h \in Nat \ {0}, Holds(Current(c), h),
         NEW b \in 0..h
  PROVE  /\ ConcatTakesBack(c, b)
         /\ ConcatOK(ConcatBackUp(c, b)) /\ ~Finished(ConcatBackUp(c, b))
         /\ ConcatByteCount(ConcatBackUp(c, b)) = ConcatByteCount(c) - b
         /\ ConcatBackUp(c, b).lost = c.lost
         /\ ~Overrun(c) => ~Overrun(ConcatBackUp(c, b))
<1> DEFINE s == Current(c)
           t == LeafBackUp(s, b)
           d == ConcatBackUp(c, b)
<1>1. /\ c \in Records /\ c.first \in 1..Len(c.leaf) /\ s = c.leaf[c.first] /\ LeafOK(s)
      /\ s.size \in Nat /\ LeafByteCount(s) \in Nat /\ c.first \in Nat /\ Len(c.leaf) \in Nat
  BY CurrentIs
<1> HIDE DEF s
<1>2. LeafTakesBack(s, b) /\ SoundLeaf(t, s.size, LeafByteCount(s) - b)
  BY <1>1, LeafBackUpIs DEF s
<1> HIDE DEF t
<1>3. LeafOK(t) /\ t.size = s.size /\ LeafByteCount(t) = LeafByteCount(s) - b /\ t \in Leaves
  BY <1>2 DEF SoundLeaf, LeafOK
<1>4. d = With(c, t)
  BY DEF ConcatBackUp, s, t
<1> HIDE DEF d
<1>5. ConcatOK(d) /\ ~Finished(d) /\ Current(d) = t
  BY <1>3, <1>4, WithOK DEF s
<1>6. /\ d.retired = c.retired /\ d.lost = c.lost /\ Len(d.leaf) = Len(c.leaf)
      /\ \A i \in 1..Len(c.leaf) : d.leaf[i] = IF i = c.first THEN t ELSE c.leaf[i]
  BY <1>1, <1>3, <1>4, WithIs
<1>7. c.retired \in Int
  BY CountIsInt
<1>8. ConcatByteCount(d) = ConcatByteCount(c) - b
  <2>1. ConcatByteCount(d) = c.retired + (LeafByteCount(s) - b)
    BY <1>3, <1>5, <1>6 DEF ConcatByteCount
  <2>2. ConcatByteCount(c) = c.retired + LeafByteCount(s)
    BY DEF ConcatByteCount, s
  <2> QED
    BY <1>1, <1>7, <2>1, <2>2
<1>9. ASSUME ~Overrun(c) PROVE ~Overrun(d)
  <2>1. \A i \in 1..Len(c.leaf) : Within(c.leaf[i])
    BY <1>9, OverrunIs
  <2>2. Within(t)
    BY <1>1, <1>3, <2>1 DEF Within
  <2> QED
    BY <1>5, <1>6, <2>1, <2>2, OverrunIs
<1> QED
  BY <1>2, <1>5, <1>6, <1>8, <1>9 DEF ConcatTakesBack, s, d

(* All the client may return, BackUp accepts. *)
LEMMA HeldIsTaken ==
  ASSUME NEW c, NEW l, NEW n, ReaderOK(c, l, n), NEW b \in 0..(n + Hidden(l)),
         n + Hidden(l) > 0
  PROVE  /\ ConcatTakesBack(c, b)
         /\ ConcatOK(ConcatBackUp(c, b)) /\ ~Finished(c) /\ ~Finished(ConcatBackUp(c, b))
         /\ ConcatByteCount(ConcatBackUp(c, b)) = ConcatByteCount(c) - b
         /\ ConcatBackUp(c, b).lost = c.lost
         /\ ~Overrun(c) => ~Overrun(ConcatBackUp(c, b))
<1>1. PICK h \in Nat \ {0} : h = n + Hidden(l)
  BY DEF ReaderOK, Limiters, Hidden
<1>2. ~Finished(c) /\ Holds(Current(c), h) /\ ConcatOK(c)
  BY <1>1 DEF ReaderOK, HeldOK
<1> QED
  BY <1>1, <1>2, ConcatBackUpIs

(* BackUp gives back what it says and what was hidden, and keeps the       *)
(* invariant.                                                              *)
LEMMA BackUpOK ==
  ASSUME NEW c, NEW l, NEW n, ReaderOK(c, l, n), n > 0, NEW count \in 0..n, NEW k,
         k = IF l.on THEN [l EXCEPT !.left = IF @ < 0 THEN count ELSE @ + count] ELSE l
  PROVE  /\ ReaderOK(ConcatBackUp(c, count + Hidden(l)), k, 0)
         /\ ConcatByteCount(ConcatBackUp(c, count + Hidden(l)))
            = ConcatByteCount(c) - (count + Hidden(l))
         /\ ConcatBackUp(c, count + Hidden(l)).lost = c.lost
         /\ Hidden(k) = 0
<1> DEFINE d == ConcatBackUp(c, count + Hidden(l))
<1>1. n \in Nat /\ l \in Limiters /\ ConcatOK(c)
  BY DEF ReaderOK
<1>2. l.left \in Int /\ l.prior \in Int /\ l.limit \in Nat /\ l.on \in BOOLEAN
  BY <1>1 DEF Limiters
<1>3. Hidden(l) \in Nat /\ (l.on => Hidden(l) = IF l.left < 0 THEN -l.left ELSE 0)
  BY <1>2 DEF Hidden
<1>4. count + Hidden(l) \in 0..(n + Hidden(l)) /\ n + Hidden(l) > 0
  BY <1>1, <1>3
<1>5. /\ ConcatOK(d) /\ ~Finished(c) /\ ~Finished(d) /\ d.lost = c.lost
      /\ ConcatByteCount(d) = ConcatByteCount(c) - (count + Hidden(l))
      /\ ~Overrun(c) => ~Overrun(d)
  BY <1>4, HeldIsTaken
<1> HIDE DEF d
<1>6. /\ k \in Limiters /\ k.on = l.on /\ k.prior = l.prior /\ k.limit = l.limit
      /\ k.on => k.left = (IF l.left < 0 THEN count ELSE l.left + count) /\ k.left >= 0
  BY <1>1, <1>2 DEF Limiters
<1>7. Hidden(k) = 0
  BY <1>6 DEF Hidden, Limiters
<1>8. HeldOK(d, k, 0)
  BY <1>7 DEF HeldOK
<1>9. LimitOK(d, k, 0)
  <2> SUFFICES ASSUME l.on
               PROVE  /\ Counted(d, k) \in 0..l.limit
                      /\ ConcatByteCount(d) - l.prior = l.limit - k.left
    BY <1>6 DEF LimitOK
  <2>1. PICK x \in Int : x = ConcatByteCount(c)
    BY <1>1, CountIsInt
  <2>2. PICK y \in Int : y = ConcatByteCount(d)
    BY <1>5, CountIsInt
  <2>3. Counted(c, l) \in n..l.limit /\ x - l.prior = l.limit - l.left
    BY <1>5, <2>1 DEF ReaderOK, LimitOK
  <2>4. Counted(c, l) = x - l.prior + (IF l.left < 0 THEN l.left ELSE 0)
    BY <2>1 DEF Counted
  <2>5. k.left \in Int /\ k.left >= 0 /\ Counted(d, k) = y - l.prior
    BY <1>2, <1>6, <2>2 DEF Counted, Limiters
  <2>6. y = x - (count + Hidden(l))
    BY <1>5, <2>1, <2>2
  <2>7. y - l.prior = l.limit - k.left
    BY <1>2, <1>3, <1>6, <2>3, <2>6
  <2>8. x - l.prior + (IF l.left < 0 THEN l.left ELSE 0) >= count
    BY <1>1, <1>2, <2>3, <2>4
  <2>9. y - l.prior \in 0..l.limit
    BY <1>2, <1>3, <2>5, <2>6, <2>7, <2>8
  <2> QED
    BY <2>2, <2>5, <2>7, <2>9
<1>10. ReaderOK(d, k, 0)
  BY <1>5, <1>6, <1>8, <1>9 DEF ReaderOK
<1> QED
  BY <1>5, <1>7, <1>10 DEF d

(* Skip moves by what it was asked for or less, and keeps the invariant. *)
LEMMA SkipOK ==
  ASSUME NEW c, NEW l, NEW n, ReaderOK(c, l, n), NEW count \in Nat, l.on => l.left >= 0,
         NEW w, w = IF l.on /\ count > l.left THEN l.left ELSE count,
         NEW r \in ConcatSkip(c, w), OverrunFiles \/ ~Overrun(r.s), NEW k,
         k = IF l.on
             THEN [l EXCEPT !.left = CASE count > @ -> 0
                                       [] count <= @ /\ r.ok -> @ - count
                                       [] OTHER -> @]
             ELSE l
  PROVE  /\ ReaderOK(r.s, k, 0) /\ Hidden(l) = 0 /\ Hidden(k) = 0
         /\ w \in 0..count /\ r.s.lost >= c.lost
         /\ ConcatByteCount(r.s) - ConcatByteCount(c) \in 0..w
         /\ r.ok \in BOOLEAN /\ (r.ok => ConcatByteCount(r.s) - ConcatByteCount(c) = w)
<1>1. ConcatOK(c) /\ l \in Limiters /\ n \in Nat
  BY DEF ReaderOK
<1>2. l.left \in Int /\ l.prior \in Int /\ l.limit \in Nat /\ l.on \in BOOLEAN
  BY <1>1 DEF Limiters
<1>3. w \in Nat /\ w <= count
  BY <1>2
<1> DEFINE e == [c EXCEPT !.count = w]
<1>4. e \in Records /\ Alike(c, e) /\ e.count = w /\ e.lost = c.lost
  BY <1>1, <1>3 DEF ConcatOK, Records, Alike
<1>5. r \in Concatenated(e, "Skip")
  BY DEF ConcatSkip
<1> HIDE DEF e
<1>6. /\ ConcatOK(e) /\ ConcatByteCount(e) = ConcatByteCount(c)
      /\ Finished(e) <=> Finished(c)
  BY <1>1, <1>4, AlikeIs
<1>7. ConcatGives(e, "Skip", r)
  BY <1>3, <1>4, <1>5, <1>6, ConcatenatedIs
<1>8. /\ r.ok \in BOOLEAN /\ ConcatOK(r.s) /\ r.s.lost >= c.lost
      /\ r.ok => /\ ~Finished(c) /\ ~Finished(r.s)
                 /\ ConcatByteCount(r.s) = ConcatByteCount(c) + 0 + w
      /\ ~r.ok => /\ Finished(r.s)
                  /\ ConcatByteCount(r.s) - ConcatByteCount(c) \in 0..w
      /\ Finished(c) => ConcatByteCount(r.s) = ConcatByteCount(c)
  BY <1>4, <1>6, <1>7 DEF ConcatGives
<1>9. PICK x \in Int : x = ConcatByteCount(c)
  BY <1>1, CountIsInt
<1>10. PICK y \in Int : y = ConcatByteCount(r.s)
  BY <1>8, CountIsInt
<1>11. y - x \in 0..w /\ (r.ok => y - x = w) /\ (Finished(c) => y = x)
  BY <1>3, <1>8, <1>9, <1>10
<1>12. Hidden(l) = 0
  BY <1>2 DEF Hidden
<1>13. /\ k \in Limiters /\ k.on = l.on /\ k.prior = l.prior /\ k.limit = l.limit
       /\ l.on => k.left = (IF count > l.left THEN 0 ELSE IF r.ok THEN l.left - count ELSE l.left)
  <2>1. PICK m : m = CASE count > l.left -> 0
                       [] count <= l.left /\ r.ok -> l.left - count
                       [] OTHER -> l.left
    OBVIOUS
  <2>2. m = IF count > l.left THEN 0 ELSE IF r.ok THEN l.left - count ELSE l.left
    BY <1>2, <1>8, <2>1
  <2>3. m \in Int
    BY <1>2, <2>2
  <2>4. k = IF l.on THEN [l EXCEPT !.left = m] ELSE l
    BY <2>1
  <2> QED
    BY <1>1, <1>2, <2>2, <2>3, <2>4 DEF Limiters
<1>14. l.on => k.left \in Nat
  BY <1>2, <1>13
<1>15. Hidden(k) = 0
  BY <1>13, <1>14 DEF Hidden, Limiters
<1>16. HeldOK(r.s, k, 0)
  BY <1>15 DEF HeldOK
<1>17. LimitOK(r.s, k, 0)
  <2> SUFFICES ASSUME l.on
               PROVE  /\ Counted(r.s, k) \in 0..l.limit
                      /\ ~Finished(r.s) => y - l.prior = l.limit - k.left
    BY <1>10, <1>13 DEF LimitOK
  <2>1. Counted(c, l) = x - l.prior
    BY <1>2, <1>9 DEF Counted
  <2>2. x - l.prior \in 0..l.limit /\ (~Finished(c) => x - l.prior = l.limit - l.left)
    <3>1. Counted(c, l) \in n..l.limit /\ (~Finished(c) => x - l.prior = l.limit - l.left)
      BY <1>9 DEF ReaderOK, LimitOK
    <3> QED
      BY <1>1, <1>2, <2>1, <3>1
  <2>3. Counted(r.s, k) = y - l.prior
    BY <1>2, <1>10, <1>13, <1>14 DEF Counted
  <2>4. w <= l.left /\ l.left >= 0
    BY <1>2
  <2>5. y - l.prior \in 0..l.limit
    BY <1>2, <1>3, <1>11, <2>2, <2>4
  <2>6. ~Finished(r.s) => y - l.prior = l.limit - k.left
    <3> SUFFICES ASSUME ~Finished(r.s) PROVE y - l.prior = l.limit - k.left
      OBVIOUS
    <3>1. r.ok /\ ~Finished(c)
      BY <1>8
    <3>2. y = x + w /\ w = l.left - k.left
      BY <1>2, <1>3, <1>11, <1>13, <3>1
    <3> QED
      BY <1>2, <1>14, <2>2, <3>1, <3>2
  <2> QED
    BY <2>3, <2>5, <2>6
<1>18. ReaderOK(r.s, k, 0)
  BY <1>8, <1>13, <1>16, <1>17 DEF ReaderOK
<1> QED
  BY <1>3, <1>8, <1>9, <1>10, <1>11, <1>12, <1>15, <1>18

-----------------------------------------------------------------------------
(* The initial state *)
LEMMA OpenedIs ==
  ASSUME NEW s, Opened(s)
  PROVE  LeafOK(s) /\ LeafByteCount(s) = 0
<1>1. s.size \in Nat /\ s.block \in Nat
  BY DEF Opened
<1>2. CASE s.kind = "array" /\ s = Array(s.size, s.block)
  <2>1. PICK b \in Nat : b = IF s.block > 0 THEN s.block ELSE s.size
    BY <1>1
  <2>2. s = ArrayLeaf(s.size, b, 0, 0)
    BY <1>2, <2>1 DEF Array, ArrayLeaf
  <2>3. SoundLeaf(ArrayLeaf(s.size, b, 0, 0), s.size, 0)
    BY <1>1, ArrayLeafIs
  <2> QED
    BY <2>2, <2>3 DEF SoundLeaf
<1>3. CASE s.kind = "FileStream" /\ s = FileStream(s.size, s.block)
  <2>1. s = FileLeaf(s.size, s.block, 0)
    BY <1>3 DEF FileStream, FileLeaf
  <2>2. SoundLeaf(FileLeaf(s.size, s.block, 0), s.size, 0)
    BY <1>1, FileLeafIs
  <2> QED
    BY <2>1, <2>2 DEF SoundLeaf
<1>4. CASE /\ s.kind \in {"descriptor", "pipe", "istream"} /\ s.block > 0 /\ s.faulty \in BOOLEAN
           /\ s = Copying(s.kind, s.size, s.block, s.faulty)
  <2>1. PICK o : o = 0 /\ o = o - o
    OBVIOUS
  <2>2. PICK f : f = FALSE
    OBVIOUS
  <2>3. s = CopyingLeaf(s.kind, s.size, s.block, s.faulty, o, o, o, f, f, o, f)
    BY <1>4, <2>1, <2>2 DEF Copying, CopyingLeaf
  <2>4. f \in BOOLEAN
    BY <2>2
  <2>5. CopyingFields(s.kind, s.size, s.block, s.faulty, o, o, o, f, f, o, f)
    BY <1>1, <1>4, <2>1, <2>4 DEF CopyingFields
  <2>6. SoundLeaf(CopyingLeaf(s.kind, s.size, s.block, s.faulty, o, o, o, f, f, o, f), s.size, o)
    BY <2>1, <2>5, CopyingLeafIs
  <2> QED
    BY <2>1, <2>3, <2>6 DEF SoundLeaf
<1> QED
  BY <1>2, <1>3, <1>4 DEF Opened

(* Nothing has been read at the start. *)
LEMMA InitOK ==
  ASSUME InInit
  PROVE  InOK /\ ConcatByteCount(Concat) = 0
<1>1. PICK c : c = Concat
  OBVIOUS
<1>2. /\ c = [leaf |-> leaf, first |-> 1, retired |-> 0, lost |-> 0, count |-> 0]
      /\ leaf \in Setups /\ lim = [on |-> FALSE, left |-> 0, prior |-> 0, limit |-> 0]
      /\ got.n = 0
  BY <1>1 DEF InInit, Concat, NoBuffer
<1> DEFINE streams == {leaf[i] : i \in 1..Len(leaf)}
<1>3. leaf \in Seq(streams) /\ \A s \in streams : Opened(s)
  BY <1>2, SetupAssumption
<1>4. \A i \in 1..Len(leaf) : LeafOK(leaf[i]) /\ LeafByteCount(leaf[i]) = 0
  BY <1>3, OpenedIs
<1>5. leaf \in Seq(Leaves) /\ Len(leaf) \in Nat
  <2>1. streams \subseteq Leaves
    BY <1>4 DEF LeafOK
  <2> HIDE DEF streams
  <2> QED
    BY <1>3, <2>1
<1>6. /\ c \in Records /\ c.leaf = leaf /\ c.first = 1 /\ c.retired = 0 /\ c.lost = 0
  BY <1>2, <1>5 DEF Records
<1>7. Placed(c)
  BY <1>6, BeforeIs DEF Placed
<1>8. ConcatOK(c)
  BY <1>4, <1>5, <1>6, <1>7 DEF ConcatOK
<1>9. ConcatByteCount(c) = 0
  <2>1. ~Finished(c) => LeafByteCount(Current(c)) = 0
    BY <1>4, <1>5, <1>6 DEF Finished, Current
  <2> QED
    BY <1>6, <2>1 DEF ConcatByteCount
<1>10. ~Overrun(c)
  <2>1. \A i \in 1..Len(leaf) : leaf[i].size \in Nat
    BY <1>4, CountIsNat
  <2> QED
    BY <1>4, <1>6, <2>1 DEF Overrun
<1>11. lim \in Limiters /\ lim.on = FALSE
  BY <1>2 DEF Limiters
<1>12. HeldOK(c, lim, 0) /\ LimitOK(c, lim, 0)
  BY <1>11 DEF HeldOK, LimitOK, Hidden
<1> QED
  BY <1>1, <1>2, <1>8, <1>9, <1>10, <1>11, <1>12 DEF InOK, ReaderOK

(* Where the client is, as ByteStream sees it *)
Pos(c, l) == ConcatByteCount(c) + c.lost + (IF l.on /\ l.left < 0 THEN l.left ELSE 0)

(* The position, by what was read, lost and hidden *)
LEMMA PosIs ==
  ASSUME NEW c, ConcatOK(c), NEW l \in Limiters
  PROVE  /\ Pos(c, l) = ConcatByteCount(c) + c.lost - Hidden(l)
         /\ Pos(c, l) \in Int /\ Hidden(l) \in Nat /\ ConcatByteCount(c) \in Int /\ c.lost \in Int
<1>1. ConcatByteCount(c) \in Int /\ c.lost \in Int
  BY CountIsInt
<1> QED
  BY <1>1 DEF Pos, Hidden, Limiters

(* The position does not depend on the count of a call. *)
LEMMA PosAlike ==
  ASSUME NEW c, ConcatOK(c), NEW d \in Records, Alike(c, d), NEW l
  PROVE  Pos(d, l) = Pos(c, l)
BY AlikeIs DEF Pos, Alike

Place == ConcatByteCount(Concat) + lost + (IF lim.on /\ lim.left < 0 THEN lim.left ELSE 0)

(* ByteStream's position, as the lemmas have it *)
LEMMA PlaceIs == Place = Pos(Concat, lim) /\ Concat.lost = lost
BY DEF Place, Pos, Concat

(* After SetConcat(d) and with the limiting stream k, the client is at     *)
(* Pos(d, k).                                                              *)
LEMMA SetPos ==
  ASSUME NEW d, ConcatOK(d), SetConcat(d), NEW k, lim' = k
  PROVE  Place' = Pos(d, k) /\ lost' = d.lost
<1>1. Concat' \in Records /\ Alike(d, Concat')
  BY SetIs DEF ConcatOK
<1>2. PICK x : x = Concat'
  OBVIOUS
<1>3. Pos(x, k) = Pos(d, k)
  BY <1>1, <1>2, PosAlike
<1>4. x.lost = lost'
  BY <1>2 DEF Concat
<1>5. Place' = Pos(x, k)
  BY <1>2, <1>4 DEF Place, Pos
<1> QED
  BY <1>3, <1>5 DEF SetConcat

-----------------------------------------------------------------------------
(* The steps.  Each keeps the invariant and is one of ByteStream.          *)
InStep == InOK' /\ (~OverrunFiles => Content!ByteNext)

(* Next of a buffer *)
LEMMA NextBufferKeeps ==
  ASSUME InOK, InNextBuffer
  PROVE  InStep
<1>1. PICK c, l, n : c = Concat /\ l = lim /\ n = got.n
  OBVIOUS
<1>2. PICK r \in ConcatNext(c) :
        /\ l.on => l.left > 0
        /\ SetConcat(r.s)
        /\ lim' = IF l.on THEN [l EXCEPT !.left = l.left - r.n] ELSE l
        /\ got' = [from |-> r.at,
                   n |-> IF l.on /\ l.left - r.n < 0 THEN r.n + (l.left - r.n) ELSE r.n]
        /\ call' = Called("Next", 0, r.ok)
  BY <1>1 DEF InNextBuffer
<1>3. ReaderOK(c, l, n) /\ c.count = 0 /\ c.lost = lost
  BY <1>1 DEF InOK, Concat
<1>4. PICK k, m : /\ k = IF l.on THEN [l EXCEPT !.left = l.left - r.n] ELSE l
                  /\ m = IF l.on /\ l.left - r.n < 0 THEN r.n + (l.left - r.n) ELSE r.n
  OBVIOUS
<1>5. /\ ReaderOK(r.s, k, m) /\ ConcatGives(c, "Next", r)
      /\ m + Hidden(k) = r.n /\ Hidden(l) = 0 /\ (r.ok => m > 0) /\ (~r.ok => m = 0)
  BY <1>2, <1>3, <1>4, NextOK
<1>6. lim' = k /\ got'.n = m /\ got'.from = r.at
  BY <1>2, <1>4
<1>7. InOK'
  BY <1>2, <1>5, <1>6, ClientSet
<1>8. ASSUME ~OverrunFiles PROVE Content!ByteNext
  <2>1. ConcatOK(r.s) /\ k \in Limiters /\ m \in Nat /\ ConcatOK(c) /\ l \in Limiters /\ ~Overrun(c)
    BY <1>3, <1>5, <1>8 DEF ReaderOK
  <2>2. PICK p \in Int : p = Place /\ p = Pos(c, l) /\ p = ConcatByteCount(c) + lost
    BY <1>1, <1>3, <1>5, <2>1, PosIs, PlaceIs
  <2>3. PICK q \in Int : q = Pos(r.s, k) /\ q = ConcatByteCount(r.s) + r.s.lost - Hidden(k)
    BY <2>1, PosIs
  <2>4. PICK v \in Int : v = r.s.lost
    BY <2>1, PosIs
  <2>5. lost' = v /\ Place' = q
    BY <1>2, <1>6, <2>1, <2>3, <2>4, SetPos
  <2>6. lost \in Int /\ v - lost >= 0
    BY <1>3, <1>5, <2>1, <2>4, PosIs DEF ConcatGives
  <2>7. Hidden(k) \in Nat /\ ConcatByteCount(c) \in Int /\ ConcatByteCount(r.s) \in Int
    BY <2>1, PosIs
  <2>8. r.ok \in BOOLEAN /\ r.n \in Nat
    BY <1>5 DEF ConcatGives
  <2>9. call'.op = "Next" /\ call'.ok = r.ok
    BY <1>2 DEF Called
  <2>10. CASE r.ok
    <3>1. /\ ConcatByteCount(r.s) = ConcatByteCount(c) + r.n
          /\ r.at = ConcatByteCount(c) + v
      BY <1>3, <1>5, <2>1, <2>4, <2>7, <2>8, <2>10 DEF ConcatGives
    <3>2. m > 0 /\ r.at = p + (v - lost) /\ q = r.at + m
      BY <1>5, <2>1, <2>2, <2>3, <2>4, <2>6, <2>7, <2>8, <2>10, <3>1
    <3> QED
      BY <1>1, <1>6, <2>2, <2>5, <2>6, <2>9, <2>10, <3>2
         DEF Content!ByteNext, Content!NextBytes, Content!Passed, Place
  <2>11. CASE ~r.ok
    <3>1. ConcatByteCount(r.s) = ConcatByteCount(c) /\ r.n = 0
      BY <1>3, <1>5, <2>7, <2>11 DEF ConcatGives
    <3>2. m = 0 /\ q = p + (v - lost)
      BY <1>5, <2>1, <2>2, <2>3, <2>4, <2>6, <2>7, <2>11, <3>1
    <3> QED
      BY <1>1, <1>6, <2>2, <2>5, <2>6, <2>9, <2>11, <3>2
         DEF Content!ByteNext, Content!NoMoreBytes, Content!Passed, Place
  <2> QED
    BY <2>8, <2>10, <2>11
<1> QED
  BY <1>7, <1>8 DEF InStep

(* The client loses its buffer: it holds fewer bytes. *)
LEMMA ClientCleared ==
  ASSUME NEW c, NEW l, NEW n, ReaderOK(c, l, n)
  PROVE  ReaderOK(c, l, 0)
<1>1. n \in Nat /\ Hidden(l) \in Nat
  BY DEF ReaderOK, Limiters, Hidden
<1>2. HeldOK(c, l, 0)
  <2> SUFFICES ASSUME Hidden(l) > 0 PROVE ~Finished(c) /\ Holds(Current(c), Hidden(l))
    BY <1>1 DEF HeldOK
  <2>1. ~Finished(c) /\ Holds(Current(c), n + Hidden(l)) /\ ConcatOK(c)
    BY <1>1 DEF ReaderOK, HeldOK
  <2>2. PICK s : s = Current(c)
    OBVIOUS
  <2>3. LeafOK(s)
    BY <2>1, <2>2, CurrentIs
  <2>4. Holds(s, Hidden(l))
    <3>1. CASE s.kind = "array"
      <4>1. s.last \in Nat /\ n + Hidden(l) <= s.last
        BY <2>1, <2>2, <2>3, <3>1, Kinds DEF Holds, LeafOK, ArrayLeaves
      <4> QED
        BY <1>1, <3>1, <4>1 DEF Holds
    <3>2. CASE s.kind = "FileStream"
      <4>1. s.position \in Nat /\ n + Hidden(l) <= s.position
        BY <2>1, <2>2, <2>3, <3>2, Kinds DEF Holds, LeafOK, FileLeaves
      <4> QED
        BY <1>1, <3>2, <4>1 DEF Holds
    <3>3. CASE s.kind \notin {"array", "FileStream"}
      <4>1. s.used \in Nat
        BY <2>3, <3>3, Kinds DEF LeafOK, CopyingLeaves
      <4>2. /\ s.backup = 0 /\ s.buffer /\ n + Hidden(l) <= s.used
            /\ s.start + s.used = s.position /\ s.position <= s.size
        BY <2>1, <2>2, <3>3 DEF Holds
      <4> QED
        BY <1>1, <3>3, <4>1, <4>2 DEF Holds
    <3> QED
      BY <3>1, <3>2, <3>3
  <2> QED
    BY <2>1, <2>2, <2>4
<1>3. LimitOK(c, l, 0)
  <2> SUFFICES ASSUME l.on
               PROVE  /\ Counted(c, l) \in 0..l.limit
                      /\ ~Finished(c) => ConcatByteCount(c) - l.prior = l.limit - l.left
    BY DEF LimitOK
  <2>1. /\ Counted(c, l) \in n..l.limit
        /\ ~Finished(c) => ConcatByteCount(c) - l.prior = l.limit - l.left
    BY DEF ReaderOK, LimitOK
  <2> QED
    BY <1>1, <2>1
<1> QED
  BY <1>2, <1>3 DEF ReaderOK

(* Nothing is read; whether a stream limits has changed or not. *)
LEMMA StaysKeeps ==
  ASSUME InOK, NEW k, ReaderOK(Concat, k, 0), lim' = k, got' = NoBuffer,
         UNCHANGED <<leaf, first, retired, lost>>
  PROVE  InOK' /\ lost' = lost /\ Place' = Pos(Concat, k) /\ got'.n = 0
<1>1. SetConcat(Concat)
  BY DEF SetConcat, Concat
<1>2. PICK c : c = Concat
  OBVIOUS
<1>3. ReaderOK(c, k, 0) /\ SetConcat(c) /\ got'.n = 0 /\ ConcatOK(c)
  BY <1>1, <1>2 DEF NoBuffer, ReaderOK
<1>4. InOK'
  BY <1>3, ClientSet
<1>5. Place' = Pos(c, k)
  BY <1>3, SetPos
<1> QED
  BY <1>2, <1>3, <1>4, <1>5

(* Next at the limit *)
LEMMA NextAtTheLimitKeeps ==
  ASSUME InOK, NextAtTheLimit
  PROVE  InStep
<1>1. /\ lim' = lim /\ got' = NoBuffer /\ UNCHANGED <<leaf, first, retired, lost>>
      /\ call' = Called("Next", 0, FALSE)
  BY DEF NextAtTheLimit
<1>2. ReaderOK(Concat, lim, 0)
  BY ClientCleared DEF InOK
<1>3. PICK k : k = lim /\ lim' = k /\ ReaderOK(Concat, k, 0)
  BY <1>1, <1>2
<1>4. InOK' /\ lost' = lost /\ Place' = Place /\ got'.n = 0
  BY <1>1, <1>3, StaysKeeps, PlaceIs
<1>5. PICK v, p \in Int : v = lost /\ v - v = 0 /\ p = Place /\ p + (v - v) = p
  BY <1>2, PlaceIs, PosIs DEF ReaderOK
<1>6. Content!NoMoreBytes
  BY <1>1, <1>4, <1>5 DEF Content!NoMoreBytes, Content!Passed, Place, Called
<1> QED
  BY <1>4, <1>6 DEF InStep, Content!ByteNext

(* Skip past the limit *)
LEMMA SkipAtTheLimitKeeps ==
  ASSUME InOK, NEW count \in Counts, SkipAtTheLimit(count)
  PROVE  InStep
<1>1. /\ lim' = lim /\ got' = NoBuffer /\ UNCHANGED <<leaf, first, retired, lost>>
      /\ call' = Called("Skip", count, FALSE)
  BY DEF SkipAtTheLimit
<1>2. ReaderOK(Concat, lim, 0)
  BY ClientCleared DEF InOK
<1>3. PICK k : k = lim /\ lim' = k /\ ReaderOK(Concat, k, 0)
  BY <1>1, <1>2
<1>4. InOK' /\ lost' = lost /\ Place' = Place /\ got'.n = 0
  BY <1>1, <1>3, StaysKeeps, PlaceIs
<1>5. PICK v, p \in Int : v = lost /\ v - v = 0 /\ p = Place /\ p - p - (v - v) = 0
  BY <1>2, PlaceIs, PosIs DEF ReaderOK
<1>6. 0 \in 0..count
  BY CountAssumption
<1>7. Content!SkipBytes
  BY <1>1, <1>4, <1>5, <1>6 DEF Content!SkipBytes, Content!Passed, Place, Called
<1> QED
  BY <1>4, <1>7 DEF InStep, Content!ByteNext

(* A LimitingInputStream is made. *)
LEMMA LimitKeeps ==
  ASSUME InOK, NEW limit \in Limits, Limit(limit)
  PROVE  InStep
<1>1. /\ ~lim.on /\ got' = NoBuffer /\ UNCHANGED <<leaf, first, retired, lost>>
      /\ lim' = [on |-> TRUE, left |-> limit, prior |-> ConcatByteCount(Concat), limit |-> limit]
      /\ call' = Called("none", 0, TRUE)
  BY DEF Limit
<1>2. PICK c, l, k : /\ c = Concat /\ l = lim
                     /\ k = [on |-> TRUE, left |-> limit, prior |-> ConcatByteCount(c), limit |-> limit]
  OBVIOUS
<1>3. /\ ReaderOK(c, l, 0) /\ ~l.on /\ limit \in Nat /\ ConcatOK(c) /\ ConcatByteCount(c) \in Int
      /\ l \in Limiters
  BY <1>1, <1>2, ClientCleared, CountAssumption, CountIsInt DEF InOK, ReaderOK
<1>4. /\ k \in Limiters /\ k.on /\ k.left = limit /\ k.prior = ConcatByteCount(c)
      /\ k.limit = limit
  BY <1>2, <1>3 DEF Limiters
<1>5. Hidden(k) = 0 /\ Hidden(l) = 0
  BY <1>3, <1>4 DEF Hidden
<1>6. Counted(c, k) = 0
  BY <1>3, <1>4 DEF Counted
<1>7. LimitOK(c, k, 0)
  <2>1. 0 \in 0..k.limit /\ ConcatByteCount(c) - k.prior = k.limit - k.left
    BY <1>3, <1>4
  <2> QED
    BY <1>6, <2>1 DEF LimitOK
<1>8. HeldOK(c, k, 0)
  BY <1>5 DEF HeldOK
<1>9. ReaderOK(c, k, 0)
  BY <1>3, <1>4, <1>7, <1>8 DEF ReaderOK
<1>10. InOK' /\ lost' = lost /\ Place' = Pos(c, k) /\ got'.n = 0
  BY <1>1, <1>2, <1>9, StaysKeeps
<1>11. Place' = Place
  BY <1>2, <1>3, <1>4, <1>5, <1>10, PlaceIs, PosIs
<1>12. Content!NoBytes
  BY <1>1, <1>10, <1>11 DEF Content!NoBytes, Place, Called
<1> QED
  BY <1>10, <1>12 DEF InStep, Content!ByteNext

(* A LimitingInputStream is destroyed, and gives back what it hid. *)
LEMMA UnlimitKeeps ==
  ASSUME InOK, Unlimit
  PROVE  InStep
<1>1. PICK c, l, n : c = Concat /\ l = lim /\ n = got.n
  OBVIOUS
<1>2. PICK d : d = IF l.left < 0 THEN ConcatBackUp(c, -l.left) ELSE c
  OBVIOUS
<1>3. PICK k : k = [l EXCEPT !.on = FALSE]
  OBVIOUS
<1>4. /\ l.on /\ SetConcat(d) /\ lim' = k /\ got' = NoBuffer
      /\ call' = Called("none", 0, TRUE)
  BY <1>1, <1>2, <1>3 DEF Unlimit
<1>5. ReaderOK(c, l, 0)
  BY <1>1, ClientCleared DEF InOK
<1>6. ConcatOK(c) /\ l \in Limiters /\ l.left \in Int
  BY <1>5 DEF ReaderOK, Limiters
<1>7. k \in Limiters /\ ~k.on
  BY <1>3, <1>6 DEF Limiters
<1>8. Hidden(k) = 0
  BY <1>7 DEF Hidden
<1>9. /\ ConcatOK(d) /\ d.lost = c.lost
      /\ ConcatByteCount(d) = ConcatByteCount(c) - Hidden(l)
      /\ ~Overrun(c) => ~Overrun(d)
  <2>1. CASE l.left < 0
    <3>1. Hidden(l) = -l.left /\ Hidden(l) \in 0..(0 + Hidden(l)) /\ 0 + Hidden(l) > 0
      BY <1>4, <1>6, <2>1 DEF Hidden
    <3>2. d = ConcatBackUp(c, Hidden(l))
      BY <1>2, <2>1, <3>1
    <3> QED
      BY <1>5, <3>1, <3>2, HeldIsTaken
  <2>2. CASE ~(l.left < 0)
    <3>1. Hidden(l) = 0 /\ ConcatByteCount(c) \in Int /\ d = c
      BY <1>2, <1>6, <2>2, CountIsInt DEF Hidden
    <3> QED
      BY <1>6, <3>1
  <2> QED
    BY <2>1, <2>2
<1>10. ReaderOK(d, k, 0)
  <2>1. HeldOK(d, k, 0) /\ LimitOK(d, k, 0)
    BY <1>7, <1>8 DEF HeldOK, LimitOK
  <2> QED
    BY <1>5, <1>7, <1>9, <2>1 DEF ReaderOK
<1>11. InOK' /\ got'.n = 0
  <2>1. got'.n = 0
    BY <1>4 DEF NoBuffer
  <2> QED
    BY <1>4, <1>10, <2>1, ClientSet
<1>12. Place' = Pos(d, k) /\ lost' = d.lost
  BY <1>4, <1>9, SetPos
<1>13. Place = Pos(c, l) /\ c.lost = lost
  BY <1>1, PlaceIs
<1>14. Pos(d, k) = Pos(c, l)
  <2>1. /\ Pos(c, l) = ConcatByteCount(c) + c.lost - Hidden(l)
        /\ Hidden(l) \in Nat /\ ConcatByteCount(c) \in Int /\ c.lost \in Int
    BY <1>6, PosIs
  <2>2. Pos(d, k) = ConcatByteCount(d) + d.lost - Hidden(k)
    BY <1>7, <1>9, PosIs
  <2> QED
    BY <1>8, <1>9, <2>1, <2>2
<1>15. Content!NoBytes
  BY <1>4, <1>9, <1>11, <1>12, <1>13, <1>14 DEF Content!NoBytes, Place, Called
<1> QED
  BY <1>11, <1>15 DEF InStep, Content!ByteNext

(* BackUp, with what was hidden *)
LEMMA BackUpKeeps ==
  ASSUME InOK, NEW count \in 0..got.n, InBackUp(count)
  PROVE  InStep
<1>1. PICK c, l, n : c = Concat /\ l = lim /\ n = got.n
  OBVIOUS
<1>2. ReaderOK(c, l, n) /\ ConcatOK(c) /\ l \in Limiters /\ n \in Nat /\ count \in Nat
  BY <1>1 DEF InOK, ReaderOK
<1>3. n > 0 /\ count \in 0..n
  BY <1>1, <1>2 DEF InBackUp
<1>4. Returned(count) = count + Hidden(l)
  BY <1>1, <1>2 DEF Returned, Hidden, Limiters
<1>5. PICK d : d = ConcatBackUp(c, count + Hidden(l))
  OBVIOUS
<1>6. PICK k : k = IF l.on THEN [l EXCEPT !.left = IF @ < 0 THEN count ELSE @ + count] ELSE l
  OBVIOUS
<1>7. /\ SetConcat(d) /\ lim' = k /\ got' = NoBuffer /\ call' = Called("BackUp", count, TRUE)
  BY <1>1, <1>4, <1>5, <1>6 DEF InBackUp
<1>8. /\ ReaderOK(d, k, 0) /\ d.lost = c.lost /\ Hidden(k) = 0
      /\ ConcatByteCount(d) = ConcatByteCount(c) - (count + Hidden(l))
  BY <1>2, <1>3, <1>5, <1>6, BackUpOK
<1>9. got'.n = 0
  BY <1>7 DEF NoBuffer
<1>10. InOK'
  BY <1>7, <1>8, <1>9, ClientSet
<1>11. Place' = Pos(d, k) /\ lost' = d.lost
  BY <1>7, <1>8, SetPos DEF ReaderOK
<1>12. Place = Pos(c, l) /\ c.lost = lost
  BY <1>1, PlaceIs
<1>13. Pos(d, k) = Pos(c, l) - count
  <2>1. /\ Pos(c, l) = ConcatByteCount(c) + c.lost - Hidden(l)
        /\ Hidden(l) \in Nat /\ ConcatByteCount(c) \in Int /\ c.lost \in Int
    BY <1>2, PosIs
  <2>2. Pos(d, k) = ConcatByteCount(d) + d.lost - Hidden(k)
    BY <1>8, PosIs DEF ReaderOK
  <2> QED
    BY <1>2, <1>8, <2>1, <2>2
<1>14. Content!BackUpBytes
  BY <1>1, <1>3, <1>7, <1>8, <1>9, <1>11, <1>12, <1>13 DEF Content!BackUpBytes, Place, Called
<1> QED
  BY <1>10, <1>14 DEF InStep, Content!ByteNext

(* Skip *)
LEMMA SkipKeeps ==
  ASSUME InOK, NEW count \in Counts, InSkip(count)
  PROVE  InStep
<1>1. PICK c, l, n : c = Concat /\ l = lim /\ n = got.n
  OBVIOUS
<1>2. ReaderOK(c, l, n) /\ ConcatOK(c) /\ l \in Limiters /\ count \in Nat
  BY <1>1, CountAssumption DEF InOK, ReaderOK
<1>3. PICK w : w = IF l.on /\ count > l.left THEN l.left ELSE count
  OBVIOUS
<1>4. (l.on => l.left >= 0) /\ got' = NoBuffer
  BY <1>1 DEF InSkip
<1>5. PICK r \in ConcatSkip(c, w) :
        /\ OverrunFiles \/ ~Overrun(r.s)
        /\ SetConcat(r.s)
        /\ call' = Called("Skip", count, r.ok /\ w = count)
        /\ lim' = IF l.on
                  THEN [l EXCEPT !.left = CASE count > @ -> 0
                                            [] count <= @ /\ r.ok -> @ - count
                                            [] OTHER -> @]
                  ELSE l
  BY <1>1, <1>3 DEF InSkip
<1>6. PICK k : k = lim'
  OBVIOUS
<1>7. /\ ReaderOK(r.s, k, 0) /\ Hidden(l) = 0 /\ Hidden(k) = 0
      /\ w \in 0..count /\ r.s.lost >= c.lost
      /\ ConcatByteCount(r.s) - ConcatByteCount(c) \in 0..w
      /\ r.ok \in BOOLEAN /\ (r.ok => ConcatByteCount(r.s) - ConcatByteCount(c) = w)
  BY <1>2, <1>3, <1>4, <1>5, <1>6, SkipOK
<1>8. lim' = k /\ got'.n = 0
  BY <1>4, <1>5, <1>6 DEF NoBuffer
<1>9. InOK'
  BY <1>5, <1>7, <1>8, ClientSet
<1>10. Place' = Pos(r.s, k) /\ lost' = r.s.lost
  BY <1>5, <1>7, <1>8, SetPos DEF ReaderOK
<1>11. Place = Pos(c, l) /\ c.lost = lost
  BY <1>1, PlaceIs
<1>12. /\ Place' - Place - (lost' - lost) \in 0..w /\ lost' - lost >= 0
       /\ r.ok => Place' - Place - (lost' - lost) = w
  <2>1. /\ Pos(c, l) = ConcatByteCount(c) + c.lost - Hidden(l)
        /\ ConcatByteCount(c) \in Int /\ c.lost \in Int
    BY <1>2, PosIs
  <2>2. /\ Pos(r.s, k) = ConcatByteCount(r.s) + r.s.lost - Hidden(k)
        /\ ConcatByteCount(r.s) \in Int /\ r.s.lost \in Int
    BY <1>7, PosIs DEF ReaderOK
  <2> QED
    BY <1>7, <1>10, <1>11, <2>1, <2>2
<1>13. Place' - Place - (lost' - lost) \in IF r.ok /\ w = count THEN {count} ELSE 0..count
  BY <1>2, <1>7, <1>12
<1>14. /\ call'.op = "Skip" /\ call'.count = count
       /\ call'.ok = (r.ok /\ w = count)
  BY <1>5 DEF Called
<1>15. Place' - Place - (lost' - lost) \in IF call'.ok THEN {call'.count} ELSE 0..call'.count
  BY <1>13, <1>14
<1>16. Content!SkipBytes
  BY <1>8, <1>12, <1>14, <1>15 DEF Content!SkipBytes, Content!Passed, Place
<1> QED
  BY <1>9, <1>16 DEF InStep, Content!ByteNext

-----------------------------------------------------------------------------
(* Every step keeps the invariant and is a step of ByteStream. *)
LEMMA StepsKeep ==
  ASSUME InOK, [InNext]_inVars
  PROVE  InOK' /\ (~OverrunFiles => [Content!ByteNext]_(<<Place, call, got, lost>>))
<1>1. CASE InNextBuffer
  BY <1>1, NextBufferKeeps DEF InStep
<1>2. CASE NextAtTheLimit
  BY <1>2, NextAtTheLimitKeeps DEF InStep
<1>3. CASE Unlimit
  BY <1>3, UnlimitKeeps DEF InStep
<1>4. CASE \E count \in 0..got.n : InBackUp(count)
  BY <1>4, BackUpKeeps DEF InStep
<1>5. CASE \E count \in Counts : InSkip(count)
  BY <1>5, SkipKeeps DEF InStep
<1>6. CASE \E count \in Counts : SkipAtTheLimit(count)
  BY <1>6, SkipAtTheLimitKeeps DEF InStep
<1>7. CASE \E limit \in Limits : Limit(limit)
  BY <1>7, LimitKeeps DEF InStep
<1>8. CASE UNCHANGED inVars
  <2>1. UNCHANGED <<leaf, first, retired, lim, call, got, lost>>
    BY <1>8 DEF inVars
  <2>2. Concat' = Concat
    BY <2>1 DEF Concat
  <2>3. InOK' /\ Place' = Place
    BY <2>1, <2>2 DEF InOK, Place
  <2> QED
    BY <2>1, <2>3
<1> QED
  BY <1>1, <1>2, <1>3, <1>4, <1>5, <1>6, <1>7, <1>8 DEF InNext

(* The inductive invariant of the input streams: each stream knows its     *)
(* place, and the buffer the client holds lies, with what the              *)
(* LimitingInputStream hid, before the place of the current one.           *)
THEOREM InputInvariant == InSpec => []InOK
<1>1. InInit => InOK
  BY InitOK
<1>2. InOK /\ [InNext]_inVars => InOK'
  BY StepsKeep
<1> QED
  BY <1>1, <1>2, PTL DEF InSpec

(* Every BackUp the contract allows, and the one of the                    *)
(* LimitingInputStream's destructor, passes the CHECKs of the stream it    *)
(* reaches, through the concatenation.                                     *)
THEOREM BackUpsAreAccepted == InSpec => []BackUpIsAccepted
<1>1. InOK => BackUpIsAccepted
  <2> SUFFICES ASSUME InOK PROVE BackUpIsAccepted
    OBVIOUS
  <2>1. PICK c, l, n : c = Concat /\ l = lim /\ n = got.n
    OBVIOUS
  <2>2. ReaderOK(c, l, n) /\ n \in Nat /\ l \in Limiters
    BY <2>1 DEF InOK, ReaderOK
  <2>3. Hidden(l) \in Nat
    BY <2>2 DEF Limiters, Hidden
  <2>4. ASSUME n > 0, NEW count \in 0..n PROVE ConcatTakesBack(c, Returned(count))
    <3>1. Returned(count) = count + Hidden(l)
      BY <2>1, <2>2 DEF Returned, Hidden, Limiters
    <3>2. count + Hidden(l) \in 0..(n + Hidden(l)) /\ n + Hidden(l) > 0
      BY <2>2, <2>3, <2>4
    <3> QED
      BY <2>2, <3>1, <3>2, HeldIsTaken
  <2>5. ASSUME l.on, l.left < 0 PROVE ConcatTakesBack(c, -l.left)
    <3>1. Hidden(l) = -l.left /\ Hidden(l) > 0
      BY <2>2, <2>5 DEF Hidden, Limiters
    <3>2. Hidden(l) \in 0..(n + Hidden(l)) /\ n + Hidden(l) > 0
      BY <2>2, <2>3, <3>1
    <3> QED
      BY <2>2, <3>1, <3>2, HeldIsTaken
  <2> QED
    BY <2>1, <2>4, <2>5 DEF BackUpIsAccepted
<1> QED
  BY <1>1, InputInvariant, PTL

(* A LimitingInputStream never lets more than its limit through, whatever  *)
(* is backed up, skipped or hidden, over any concatenation.                *)
THEOREM LimitsAreKept == InSpec => []LimitIsKept
<1>1. InOK => LimitIsKept
  <2> SUFFICES ASSUME InOK, lim.on
               PROVE  /\ LimitByteCount \in 0..lim.limit
                      /\ ~Finished(Concat) =>
                           LimitByteCount = lim.limit - (IF lim.left > 0 THEN lim.left ELSE 0)
    BY DEF LimitIsKept
  <2>1. PICK c, l, n : c = Concat /\ l = lim /\ n = got.n
    OBVIOUS
  <2>2. ReaderOK(c, l, n) /\ n \in Nat /\ l \in Limiters /\ l.on /\ ConcatOK(c)
    BY <2>1 DEF InOK, ReaderOK
  <2>3. LimitByteCount = Counted(c, l)
    BY <2>1 DEF LimitByteCount, Counted
  <2>4. /\ Counted(c, l) \in n..l.limit
        /\ ~Finished(c) => ConcatByteCount(c) - l.prior = l.limit - l.left
    BY <2>2 DEF ReaderOK, LimitOK
  <2>5. l.left \in Int /\ l.limit \in Nat /\ l.prior \in Int /\ ConcatByteCount(c) \in Int
    BY <2>2, CountIsInt DEF Limiters
  <2>6. ~Finished(c) => Counted(c, l) = l.limit - (IF l.left > 0 THEN l.left ELSE 0)
    BY <2>4, <2>5 DEF Counted
  <2>7. Counted(c, l) \in 0..l.limit
    BY <2>2, <2>4, <2>5
  <2> QED
    BY <2>1, <2>3, <2>6, <2>7
<1> QED
  BY <1>1, InputInvariant, PTL

(* Unless clients skip past the end of a source that does not notice it, a *)
(* client reads the bytes in order, each once unless it backs up: the      *)
(* streams, concatenated and limited, implement ByteStream.                *)
THEOREM ReadingIsInOrder ==
  ASSUME OverrunFiles = FALSE
  PROVE  InSpec => ReadsInOrder
<1>1. InInit => Content!ByteInit
  BY InitOK DEF InInit, Content!ByteInit, NoBuffer, Called
<1>2. InOK /\ [InNext]_inVars => [Content!ByteNext]_(Content!byteVars)
  <2>1. InOK /\ [InNext]_inVars => [Content!ByteNext]_(<<Place, call, got, lost>>)
    BY StepsKeep
  <2> QED
    BY <2>1 DEF Content!byteVars, Place
<1> QED
  BY <1>1, <1>2, InputInvariant, PTL DEF InSpec, ReadsInOrder, Content!ByteSpec

-----------------------------------------------------------------------------
(* Types                                                                   *)

Byte == (Procs \cup {"old", "hole"}) \X Int

Labels == {"done", "lookup", "call", "probe", "make", "exists", "scan", "child", "stat", "unlink",
           "rmdir", "size", "open", "pread", "create", "append", "close"}

Errnos == {"OK", "ENOENT", "ENOTDIR", "EEXIST", "ENOTEMPTY", "EISDIR", "EXDEV", "EINVAL"}
Codes ==
  {OK, "NOT_FOUND", "UNIMPLEMENTED", "OUT_OF_RANGE"} \cup {ErrnoToCode(e) : e \in Errnos \cup {"EIO"}}

Handles == Files \cup {None, Dir}

Jobs ==
  [op : Operations, path : Paths, to : Paths, bytes : Nat, scheme : Schemes, toScheme : Schemes,
   pc : Labels, status : Codes, left : Seq(STRING), sub : Seq(STRING),
   queue : Seq(Paths), list : Seq(Paths), children : SUBSET Paths, child : Paths,
   files : Nat, dirs : Nat, ret : Codes,
   size : Nat, file : Handles, got : Seq(Byte), seen : Int, pending : Nat]

EnvTypeOK ==
  /\ IsTree(tree)
  /\ data \in [Files -> Seq(Byte)]
  /\ writes \in [Files -> Nat]
  /\ registry \in [Schemes -> {"local", "other", None}]
  /\ job \in [Procs -> Jobs]
  /\ faults \in Nat

(* What a job is never changes, and it is at a label of its operation.     *)
SameOrder(j, k) ==
  /\ j.op = k.op /\ j.path = k.path /\ j.to = k.to /\ j.bytes = k.bytes
  /\ j.scheme = k.scheme /\ j.toScheme = k.toScheme

(* Every label belongs to one kind of operation.                           *)
AtItsLabel(j) ==
  /\ j.op = "none" => j.pc = "done"
  /\ j.pc = "call" => j.op \in {"CreateDir", "DeleteDir", "DeleteFile", "RenameFile"}
  /\ j.pc \in {"probe", "make"} => j.op = "RecursivelyCreateDir"
  /\ j.pc \in {"exists", "scan", "child", "stat", "unlink", "rmdir"} => j.op = "DeleteRecursively"
  /\ j.pc \in {"size", "open", "pread"} => j.op = "ReadFileToString"
  /\ j.pc \in {"create", "append", "close"} => j.op = "WriteStringToFile"

-----------------------------------------------------------------------------
(* A name is its directory's name and one more; what begins a name is one. *)
LEMMA NamesGrow ==
  ASSUME NEW p \in Paths, p # <<>>
  PROVE  /\ p \in Seq(STRING) /\ Front(p) \in Paths /\ Last(p) \in STRING
         /\ p = Append(Front(p), Last(p)) /\ Len(Front(p)) = Len(p) - 1
<1>1. p \in Seq(STRING) /\ Front(p) \in Paths /\ Front(p) \in Seq(STRING)
  BY PathAssumption
<1>2. Len(p) \in Nat /\ Len(p) >= 1
  BY <1>1
<1>3. Last(p) \in STRING
  BY <1>1, <1>2, ElementOfSeq DEF Last
<1>4. p = Append(Front(p), Last(p))
  BY PathAssumption DEF Front, Last
<1>5. Len(Append(Front(p), Last(p))) = Len(Front(p)) + 1
  BY <1>1, <1>3, AppendProperties
<1> QED
  BY <1>1, <1>2, <1>3, <1>4, <1>5

LEMMA ErrnosAreErrors ==
  /\ ErrnoToCode("OK") = OK
  /\ \A a : ErrnoToCode(a) = OK => a = "OK"
<1>1. ErrnoToCode("OK") = OK
  BY DEF ErrnoToCode, OK, InvalidArgument, DeadlineExceeded, NotFound, AlreadyExists,
       PermissionDenied, FailedPrecondition, ResourceExhausted, OutOfRange, Unimplemented,
       Unavailable, Aborted
<1>2. \A a : ErrnoToCode(a) = OK => a = "OK"
  BY DEF ErrnoToCode, OK
<1> QED
  BY <1>1, <1>2

LEMMA CodesAreCodes ==
  /\ \A e \in Errnos \cup {"EIO"} : ErrnoToCode(e) \in Codes
  /\ \A s, t \in Codes : Updated(s, t) \in Codes
  BY DEF Codes, Updated

LEMMA OneSteps ==
  ASSUME EnvTypeOK, NEW p \in Procs, NEW l \in Jobs, Step(p, l)
  PROVE  job' \in [Procs -> Jobs] /\ job'[p] = l /\ \A q \in Procs \ {p} : job'[q] = job[q]
  BY DEF EnvTypeOK, Step

LEMMA FrontIs ==
  ASSUME NEW S, NEW s \in Seq(S), s # <<>>
  PROVE  /\ Front(s) \in Seq(S) /\ Last(s) \in S /\ s = Append(Front(s), Last(s))
         /\ Len(Front(s)) = Len(s) - 1
<1>1. PICK t \in Seq(S), x \in S : s = Append(t, x)
  BY SequenceEmptyOrAppend
<1>2. Len(t) \in Nat /\ Len(s) = Len(t) + 1
  BY <1>1
<1>3. Last(s) = x
  BY <1>1, <1>2 DEF Last
<1>4. Front(s) = t
  BY <1>1, <1>2 DEF Front
<1> QED
  BY <1>1, <1>2, <1>3, <1>4

(* What the calls answer *)
LEMMA CallsAnswer ==
  \A p, q, t :
         /\ Walk(t, p) \in Errnos /\ Find(t, p) \in Errnos /\ access(t, p) \in Errnos
         /\ stat(t, p) \in Errnos /\ opendir(t, p) \in Errnos /\ mkdir(t, p) \in Errnos
         /\ rmdir(t, p) \in Errnos /\ unlink(t, p) \in Errnos /\ rename(t, p, q) \in Errnos
         /\ openToRead(t, p) \in Errnos /\ openToWrite(t, p) \in Errnos
<1> TAKE p, q, t
<1>1. Walk(t, p) \in Errnos /\ Walk(t, q) \in Errnos
  BY DEF Walk, Errnos
<1>2. Find(t, p) \in Errnos
  BY <1>1 DEF Find, Errnos
<1>3. {"OK", "EEXIST", "ENOTDIR", "EISDIR", "ENOTEMPTY", "EXDEV", "EINVAL"} \subseteq Errnos
  BY DEF Errnos
<1> QED
  BY <1>1, <1>2, <1>3
     DEF access, stat, opendir, mkdir, rmdir, unlink, rename, openToRead, openToWrite

(* A step of p, seen from all jobs                                         *)
Moves(p) ==
  /\ job' \in [Procs -> Jobs]
  /\ \A q \in Procs \ {p} : job'[q] = job[q]
  /\ SameOrder(job'[p], job[p]) /\ AtItsLabel(job'[p])
  /\ faults' \in Nat /\ faults <= faults'

LEMMA Answered ==
  ASSUME EnvTypeOK, NEW e \in Errnos, NEW a \in Answers(e)
  PROVE  /\ e # "EIO" /\ a \in {e, "EIO"} /\ ErrnoToCode(a) \in Codes
         /\ Counting(a) => faults' \in Nat /\ faults <= faults' /\ (faults' = 0 => a = e)
<1>1. e # "EIO" /\ a \in {e, "EIO"} /\ a \in Errnos \cup {"EIO"}
  BY DEF Answers, Errnos
<1> QED
  BY <1>1, CodesAreCodes DEF EnvTypeOK, Counting

LEMMA MovesBy ==
  ASSUME EnvTypeOK, NEW p \in Procs, NEW l \in Jobs, Step(p, l), SameOrder(l, job[p]), AtItsLabel(l),
         faults' \in Nat, faults <= faults'
  PROVE  Moves(p) /\ job'[p] = l
  BY OneSteps DEF Moves

LEMMA CompletedIs ==
  ASSUME NEW j \in Jobs, AtItsLabel(j), NEW s \in Codes
  PROVE  /\ Completed(j, s) \in Jobs /\ SameOrder(Completed(j, s), j) /\ AtItsLabel(Completed(j, s))
         /\ Completed(j, s).pc = "done" /\ Completed(j, s).status = s
<1>1. "done" \in Labels
  BY DEF Labels
<1> QED
  BY <1>1 DEF Completed, Jobs, SameOrder, AtItsLabel

Missing(j) ==
  \/ registry[j.scheme] = None \/ registry[j.toScheme] = None
  \/ registry[j.scheme] # registry[j.toScheme]

LEMMA LookupIs ==
  ASSUME EnvTypeOK, NEW p \in Procs, Lookup(p), AtItsLabel(job[p])
  PROVE  /\ Moves(p) /\ UNCHANGED <<tree, data, writes, registry, faults>>
         /\ job'[p] = IF Missing(job[p]) THEN Completed(job[p], "UNIMPLEMENTED")
                      ELSE [job[p] EXCEPT !.pc = FirstStep(job[p].op)]
<1> DEFINE me == job[p]
           l == IF Missing(me) THEN Completed(me, "UNIMPLEMENTED")
                ELSE [me EXCEPT !.pc = FirstStep(me.op)]
<1>1. me \in Jobs
  BY DEF EnvTypeOK
<1>2. Step(p, l)
  BY DEF Lookup, Missing, Go
<1>3. me.op \in Operations /\ me.op # "none"
  BY <1>1 DEF Lookup, At, AtItsLabel, Jobs
<1>4. FirstStep(me.op) \in Labels
  BY <1>3 DEF FirstStep, Labels, Operations
<1>5. "UNIMPLEMENTED" \in Codes
  BY DEF Codes
<1>6. l \in Jobs /\ SameOrder(l, me) /\ AtItsLabel(l)
  <2>1. CASE Missing(me)
    BY <1>1, <1>5, <2>1, CompletedIs
  <2>2. CASE ~Missing(me)
    <3>1. l \in Jobs /\ SameOrder(l, me) /\ l.pc = FirstStep(me.op) /\ l.op = me.op
      BY <1>1, <1>4, <2>2 DEF Jobs, SameOrder
    <3> QED
      BY <1>3, <3>1 DEF AtItsLabel, FirstStep, Operations
  <2> QED
    BY <2>1, <2>2
<1> HIDE DEF l
<1>7. UNCHANGED <<tree, data, writes, registry, faults>>
  BY DEF Lookup, SameFiles
<1>8. faults' \in Nat /\ faults <= faults'
  BY <1>7 DEF EnvTypeOK
<1>9. Moves(p) /\ job'[p] = l
  BY <1>2, <1>6, <1>8, MovesBy
<1> QED
  BY <1>7, <1>9 DEF l

LEMMA CallOnceIs ==
  ASSUME EnvTypeOK, NEW p \in Procs, CallOnce(p), AtItsLabel(job[p])
  PROVE  /\ Moves(p) /\ UNCHANGED <<data, writes, registry>>
         /\ job'[p].pc = "done"
         /\ job[p].op \in {"CreateDir", "DeleteDir", "DeleteFile", "RenameFile"}
         /\ \/ tree' = tree
            \/ mkdir(tree, job[p].path) = "OK" /\ tree' = Made(tree, job[p].path, Dir)
            \/ rmdir(tree, job[p].path) = "OK" /\ tree' = Removed(tree, job[p].path)
            \/ unlink(tree, job[p].path) = "OK" /\ tree' = Removed(tree, job[p].path)
            \/ /\ job[p].op = "RenameFile" /\ rename(tree, job[p].path, job[p].to) = "OK"
               /\ tree' = Renamed(tree, job[p].path, job[p].to)
<1> DEFINE me == job[p]
           errno == CASE me.op = "CreateDir"  -> mkdir(tree, me.path)
                      [] me.op = "DeleteDir"  -> rmdir(tree, me.path)
                      [] me.op = "DeleteFile" -> unlink(tree, me.path)
                      [] OTHER                -> rename(tree, me.path, me.to)
           after == CASE me.op = "CreateDir"  -> Made(tree, me.path, Dir)
                      [] me.op = "RenameFile" -> Renamed(tree, me.path, me.to)
                      [] OTHER                -> Removed(tree, me.path)
<1>1. me \in Jobs /\ me.op \in {"CreateDir", "DeleteDir", "DeleteFile", "RenameFile"}
  BY DEF EnvTypeOK, CallOnce, At, AtItsLabel
<1>2. PICK a \in Answers(errno) :
        tree' = (IF a = "OK" THEN after ELSE tree) /\ Step(p, Completed(me, ErrnoToCode(a))) /\ Counting(a)
  BY DEF CallOnce
<1>3. \/ me.op = "CreateDir" /\ errno = mkdir(tree, me.path) /\ after = Made(tree, me.path, Dir)
      \/ me.op = "DeleteDir" /\ errno = rmdir(tree, me.path) /\ after = Removed(tree, me.path)
      \/ me.op = "DeleteFile" /\ errno = unlink(tree, me.path) /\ after = Removed(tree, me.path)
      \/ /\ me.op = "RenameFile" /\ errno = rename(tree, me.path, me.to)
         /\ after = Renamed(tree, me.path, me.to)
  BY <1>1
<1>4. errno \in Errnos
  BY <1>3, CallsAnswer
<1> HIDE DEF errno, after
<1>5. /\ a \in {errno, "EIO"} /\ ErrnoToCode(a) \in Codes
      /\ faults' \in Nat /\ faults <= faults'
  BY <1>2, <1>4, Answered
<1>6. Moves(p) /\ job'[p] = Completed(me, ErrnoToCode(a)) /\ job'[p].pc = "done"
  BY <1>1, <1>2, <1>5, CompletedIs, MovesBy
<1>7. UNCHANGED <<data, writes, registry>>
  BY DEF CallOnce
<1>8. a = "OK" => errno = "OK"
  BY <1>5
<1> QED
  BY <1>1, <1>2, <1>3, <1>6, <1>7, <1>8


LEMMA CreateProbeIs ==
  ASSUME EnvTypeOK, NEW p \in Procs, CreateProbe(p), AtItsLabel(job[p])
  PROVE  /\ Moves(p) /\ UNCHANGED <<tree, data, writes, registry>>
         /\ job[p].op = "RecursivelyCreateDir" /\ job[p].pc = "probe"
         /\ \/ /\ job[p].left # <<>> /\ (faults' = 0 => access(tree, job[p].left) # "OK")
               /\ job'[p] = [job[p] EXCEPT !.left = Front(@), !.sub = Reversed(@, Last(job[p].left))]
            \/ /\ job[p].left = <<>> \/ access(tree, job[p].left) = "OK"
               /\ job[p].sub = <<>> /\ job'[p] = Completed(job[p], OK)
            \/ /\ job[p].left = <<>> \/ access(tree, job[p].left) = "OK"
               /\ job[p].sub # <<>> /\ job'[p] = [job[p] EXCEPT !.pc = "make"]
<1> DEFINE me == job[p]
           e == IF me.left = <<>> THEN "OK" ELSE access(tree, me.left)
           climb == [me EXCEPT !.left = Front(@), !.sub = Reversed(@, Last(me.left))]
           l(a) == IF a # "OK" THEN climb
                   ELSE IF me.sub = <<>> THEN Completed(me, OK) ELSE [me EXCEPT !.pc = "make"]
<1>1. me \in Jobs /\ me.op = "RecursivelyCreateDir" /\ me.pc = "probe"
  BY DEF EnvTypeOK, CreateProbe, At, AtItsLabel
<1>2. PICK a \in IF me.left = <<>> THEN {"OK"} ELSE Answers(access(tree, me.left)) :
        Step(p, l(a)) /\ Counting(a)
  BY DEF CreateProbe, Go
<1>3. /\ faults' \in Nat /\ faults <= faults' /\ (me.left = <<>> => a = "OK")
      /\ a \in {e, "EIO"} /\ (faults' = 0 => a = e)
  <2>1. CASE me.left = <<>>
    BY <1>2, <2>1 DEF Counting, EnvTypeOK
  <2>2. CASE me.left # <<>>
    <3>1. access(tree, me.left) \in Errnos
      BY CallsAnswer
    <3> QED
      BY <1>2, <2>2, <3>1, Answered
  <2> QED
    BY <2>1, <2>2
<1>4. l(a) \in Jobs /\ SameOrder(l(a), me) /\ AtItsLabel(l(a))
  <2>1. CASE a # "OK"
    <3>1. me.left \in Seq(STRING) /\ me.left # <<>> /\ me.sub \in Seq(STRING)
      BY <1>1, <1>3, <2>1 DEF Jobs
    <3>2. Front(me.left) \in Seq(STRING) /\ Last(me.left) \in STRING
      BY <3>1, FrontIs
    <3>3. Reversed(me.sub, Last(me.left)) \in Seq(STRING)
      <4>1. <<Last(me.left)>> \in Seq(STRING)
        BY <3>2
      <4> QED
        BY <3>1, <4>1, ConcatProperties DEF Reversed
    <3>4. climb \in Jobs /\ SameOrder(climb, me) /\ climb.pc = me.pc
      BY <1>1, <3>2, <3>3 DEF Jobs, SameOrder
    <3>5. AtItsLabel(climb)
      BY <1>1, <3>4 DEF AtItsLabel, SameOrder
    <3> QED
      BY <2>1, <3>4, <3>5
  <2>2. CASE a = "OK" /\ me.sub = <<>>
    <3>1. OK \in Codes
      BY DEF Codes
    <3> QED
      BY <1>1, <2>2, <3>1, CompletedIs
  <2>3. CASE a = "OK" /\ me.sub # <<>>
    <3>1. "make" \in Labels
      BY DEF Labels
    <3> QED
      BY <1>1, <2>3, <3>1 DEF Jobs, SameOrder, AtItsLabel
  <2> QED
    BY <2>1, <2>2, <2>3
<1>5. Moves(p) /\ job'[p] = l(a)
  <2> HIDE DEF l
  <2> QED
    BY <1>2, <1>3, <1>4, MovesBy
<1>6. UNCHANGED <<tree, data, writes, registry>>
  BY DEF CreateProbe, SameFiles
<1>7. CASE a # "OK"
  BY <1>1, <1>3, <1>5, <1>6, <1>7
<1>8. CASE a = "OK"
  BY <1>1, <1>3, <1>5, <1>6, <1>8
<1> QED
  BY <1>7, <1>8

LEMMA CreateNextIs ==
  ASSUME EnvTypeOK, NEW p \in Procs, CreateNext(p), AtItsLabel(job[p]), job[p].sub # <<>>,
         NEW built, built = Append(job[p].left, Head(job[p].sub))
  PROVE  /\ Moves(p) /\ UNCHANGED <<data, writes, registry>>
         /\ job[p].op = "RecursivelyCreateDir" /\ job[p].pc = "make"
         /\ job'[p].left = built /\ job'[p].sub = Tail(job[p].sub)
         /\ \/ /\ built \in Paths /\ mkdir(tree, built) = "OK" /\ tree' = Made(tree, built, Dir)
               /\ job'[p].pc = IF Tail(job[p].sub) = <<>> THEN "done" ELSE "make"
            \/ /\ tree' = tree /\ job'[p].pc = "done" /\ ~IsOk(job'[p].status)
               /\ faults' = 0 => ~(built \in Paths /\ mkdir(tree, built) = "OK")
<1> DEFINE me == job[p]
           e == IF built \in Paths THEN mkdir(tree, built) ELSE "ENOENT"
           rest == [me EXCEPT !.left = built, !.sub = Tail(@)]
           l(a) == IF a # "OK" \/ rest.sub = <<>> THEN Completed(rest, ErrnoToCode(a)) ELSE rest
<1>1. me \in Jobs /\ me.op = "RecursivelyCreateDir" /\ me.pc = "make"
  BY DEF EnvTypeOK, CreateNext, At, AtItsLabel
<1>2. PICK a \in Answers(e) :
        tree' = (IF a = "OK" THEN Made(tree, built, Dir) ELSE tree) /\ Step(p, l(a)) /\ Counting(a)
  BY DEF CreateNext
<1>3. e \in Errnos
  <2>1. mkdir(tree, built) \in Errnos
    BY CallsAnswer
  <2> QED
    BY <2>1 DEF Errnos
<1>4. /\ a \in {e, "EIO"} /\ ErrnoToCode(a) \in Codes
      /\ faults' \in Nat /\ faults <= faults' /\ (faults' = 0 => a = e)
  <2> HIDE DEF e
  <2> QED
    BY <1>2, <1>3, Answered
<1>5. rest \in Jobs /\ SameOrder(rest, me) /\ AtItsLabel(rest) /\ rest.pc = "make"
      /\ rest.left = built /\ rest.sub = Tail(me.sub)
  <2>1. me.left \in Seq(STRING) /\ me.sub \in Seq(STRING)
    BY <1>1 DEF Jobs
  <2>2. Head(me.sub) \in STRING /\ Tail(me.sub) \in Seq(STRING)
    BY <2>1, HeadTailProperties
  <2>3. built \in Seq(STRING)
    BY <2>1, <2>2, AppendProperties
  <2>4. rest \in Jobs /\ SameOrder(rest, me) /\ rest.pc = "make" /\ rest.left = built /\ rest.sub = Tail(me.sub)
    BY <1>1, <2>2, <2>3 DEF Jobs, SameOrder
  <2> QED
    BY <1>1, <2>4 DEF AtItsLabel, SameOrder
<1> HIDE DEF rest
<1>6. /\ l(a) \in Jobs /\ SameOrder(l(a), me) /\ AtItsLabel(l(a))
      /\ l(a).left = built /\ l(a).sub = Tail(me.sub)
      /\ l(a).pc = IF a # "OK" \/ Tail(me.sub) = <<>> THEN "done" ELSE "make"
      /\ a # "OK" => ~IsOk(l(a).status)
  <2>1. CASE a # "OK" \/ rest.sub = <<>>
    <3>1. /\ Completed(rest, ErrnoToCode(a)) \in Jobs /\ SameOrder(Completed(rest, ErrnoToCode(a)), rest)
          /\ AtItsLabel(Completed(rest, ErrnoToCode(a))) /\ Completed(rest, ErrnoToCode(a)).pc = "done"
          /\ Completed(rest, ErrnoToCode(a)).status = ErrnoToCode(a)
      BY <1>4, <1>5, CompletedIs
    <3>2. Completed(rest, ErrnoToCode(a)).left = rest.left /\ Completed(rest, ErrnoToCode(a)).sub = rest.sub
      BY <1>5 DEF Completed, Jobs
    <3>3. a # "OK" => ~IsOk(ErrnoToCode(a))
      BY ErrnosAreErrors DEF IsOk
    <3> QED
      BY <1>5, <2>1, <3>1, <3>2, <3>3 DEF SameOrder
  <2>2. CASE ~(a # "OK" \/ rest.sub = <<>>)
    BY <1>5, <2>2
  <2> QED
    BY <2>1, <2>2
<1>7. Moves(p) /\ job'[p] = l(a)
  <2> HIDE DEF l
  <2> QED
    BY <1>2, <1>4, <1>6, MovesBy
<1> HIDE DEF l
<1>8. UNCHANGED <<data, writes, registry>>
  BY DEF CreateNext
<1>9. a = "OK" => built \in Paths /\ mkdir(tree, built) = "OK"
  BY <1>4
<1>10. a # "OK" /\ faults' = 0 => ~(built \in Paths /\ mkdir(tree, built) = "OK")
  BY <1>4
<1> QED
  BY <1>1, <1>2, <1>6, <1>7, <1>8, <1>9, <1>10


(* A label further on in the same operation *)
LEMMA StaysItsLabel ==
  ASSUME NEW j \in Jobs, NEW k \in Jobs, AtItsLabel(j), SameOrder(k, j),
         \/ k.pc = j.pc
         \/ k.pc = "done"
         \/ j.pc \in {"exists", "scan", "child", "stat", "unlink", "rmdir"}
            /\ k.pc \in {"scan", "child", "stat", "unlink", "rmdir"}
         \/ j.pc \in {"size", "open", "pread"} /\ k.pc \in {"open", "pread"}
         \/ j.pc \in {"create", "append", "close"} /\ k.pc \in {"append", "close"}
  PROVE  AtItsLabel(k)
  BY DEF AtItsLabel, SameOrder

LEMMA DeleteProbeIs ==
  ASSUME EnvTypeOK, NEW p \in Procs, DeleteProbe(p), AtItsLabel(job[p])
  PROVE  /\ Moves(p) /\ UNCHANGED <<tree, data, writes, registry>>
         /\ job[p].op = "DeleteRecursively" /\ job[p].pc = "exists"
         /\ \/ /\ access(tree, job[p].path) = "OK"
               /\ job'[p] = [job[p] EXCEPT !.pc = "scan", !.queue = <<job[p].path>>]
            \/ /\ faults' = 0 => access(tree, job[p].path) # "OK"
               /\ job'[p].pc = "done" /\ job'[p].dirs = 1
<1> DEFINE me == job[p]
           e == access(tree, me.path)
           found == [me EXCEPT !.pc = "scan", !.queue = <<me.path>>]
           absent == [me EXCEPT !.dirs = 1]
           l(a) == IF a = "OK" THEN found ELSE Completed(absent, "NOT_FOUND")
<1>1. me \in Jobs /\ me.op = "DeleteRecursively" /\ me.pc = "exists"
  BY DEF EnvTypeOK, DeleteProbe, At, AtItsLabel
<1>2. PICK a \in Answers(e) : Step(p, l(a)) /\ Counting(a)
  BY DEF DeleteProbe
<1>3. e \in Errnos
  BY CallsAnswer
<1>4. /\ a \in {e, "EIO"} /\ faults' \in Nat /\ faults <= faults' /\ (faults' = 0 => a = e)
      /\ e # "EIO"
  <2> HIDE DEF e
  <2> QED
    BY <1>2, <1>3, Answered
<1>5. found \in Jobs /\ SameOrder(found, me) /\ AtItsLabel(found)
  <2>1. "scan" \in Labels /\ me.path \in Paths /\ <<me.path>> \in Seq(Paths)
    BY <1>1 DEF Labels, Jobs
  <2>2. found \in Jobs /\ SameOrder(found, me) /\ found.pc = "scan"
    BY <1>1, <2>1 DEF Jobs, SameOrder
  <2> QED
    BY <1>1, <2>2, StaysItsLabel
<1>6. absent \in Jobs /\ SameOrder(absent, me) /\ AtItsLabel(absent) /\ absent.dirs = 1
  <2>1. absent \in Jobs /\ SameOrder(absent, me) /\ absent.pc = me.pc /\ absent.dirs = 1
    BY <1>1 DEF Jobs, SameOrder
  <2> QED
    BY <1>1, <2>1, StaysItsLabel
<1> HIDE DEF absent
<1> DEFINE gone == Completed(absent, "NOT_FOUND")
<1>7. gone \in Jobs /\ SameOrder(gone, me) /\ AtItsLabel(gone) /\ gone.pc = "done" /\ gone.dirs = 1
  <2>1. "NOT_FOUND" \in Codes
    BY DEF Codes
  <2>2. gone \in Jobs /\ SameOrder(gone, absent) /\ AtItsLabel(gone) /\ gone.pc = "done"
    BY <1>6, <2>1, CompletedIs
  <2>3. gone.dirs = absent.dirs
    BY <1>6 DEF Completed, Jobs
  <2> QED
    BY <1>6, <2>2, <2>3 DEF SameOrder
<1>8. UNCHANGED <<tree, data, writes, registry>>
  BY DEF DeleteProbe, SameFiles
<1>9. CASE a = "OK"
  <2>1. Moves(p) /\ job'[p] = found
    BY <1>2, <1>4, <1>5, <1>9, MovesBy
  <2> QED
    BY <1>1, <1>4, <1>8, <1>9, <2>1
<1>10. CASE a # "OK"
  <2>1. Moves(p) /\ job'[p] = gone
    BY <1>2, <1>4, <1>7, <1>10, MovesBy
  <2> QED
    BY <1>1, <1>4, <1>7, <1>8, <1>10, <2>1
<1> QED
  BY <1>9, <1>10

LEMMA DeleteScanIs ==
  ASSUME EnvTypeOK, NEW p \in Procs, DeleteScan(p), AtItsLabel(job[p])
  PROVE  /\ Moves(p) /\ UNCHANGED <<tree, data, writes, registry>>
         /\ job[p].op = "DeleteRecursively" /\ job[p].pc = "scan"
         /\ \/ job[p].queue = <<>> /\ job'[p] = [job[p] EXCEPT !.pc = "rmdir"]
            \/ /\ job[p].queue # <<>>
               /\ job'[p].queue = Tail(job[p].queue) /\ job'[p].list = Append(job[p].list, Head(job[p].queue))
               /\ job'[p].files = job[p].files
               /\ \/ /\ opendir(tree, Head(job[p].queue)) = "OK" /\ job'[p].dirs = job[p].dirs
                     /\ job'[p].pc = "child" /\ job'[p].children = ChildrenOf(tree, Head(job[p].queue))
                  \/ /\ faults' = 0 => opendir(tree, Head(job[p].queue)) # "OK"
                     /\ job'[p].pc = "scan"
<1> DEFINE me == job[p]
           dir == Head(me.queue)
           e == opendir(tree, dir)
           popped == [me EXCEPT !.queue = Tail(@), !.list = Append(@, Head(me.queue))]
           listed == [popped EXCEPT !.children = ChildrenOf(tree, dir), !.pc = "child"]
           failed(a) == [popped EXCEPT !.ret = Updated(@, ErrnoToCode(a)), !.dirs = @ + 1]
           l(a) == IF a = "OK" THEN listed ELSE failed(a)
<1>1. me \in Jobs /\ me.op = "DeleteRecursively" /\ me.pc = "scan"
  BY DEF EnvTypeOK, DeleteScan, At, AtItsLabel
<1>2. UNCHANGED <<tree, data, writes, registry>>
  BY DEF DeleteScan, SameFiles
<1>3. CASE me.queue = <<>>
  <2>1. "rmdir" \in Labels
    BY DEF Labels
  <2> DEFINE g == [me EXCEPT !.pc = "rmdir"]
  <2>2. g \in Jobs /\ SameOrder(g, me) /\ g.pc = "rmdir"
    BY <1>1, <2>1 DEF Jobs, SameOrder
  <2>3. AtItsLabel(g)
    BY <1>1, <2>2, StaysItsLabel
  <2>4. Step(p, g) /\ faults' \in Nat /\ faults <= faults'
    BY <1>3 DEF DeleteScan, Go, EnvTypeOK
  <2>5. Moves(p) /\ job'[p] = g
    BY <2>2, <2>3, <2>4, MovesBy
  <2> QED
    BY <1>1, <1>2, <1>3, <2>5
<1>4. CASE me.queue # <<>>
  <2>1. PICK a \in Answers(e) : Step(p, l(a)) /\ Counting(a)
    BY <1>4 DEF DeleteScan
  <2>2. e \in Errnos
    BY CallsAnswer
  <2>3. /\ a \in {e, "EIO"} /\ faults' \in Nat /\ faults <= faults' /\ (faults' = 0 => a = e)
        /\ e # "EIO" /\ ErrnoToCode(a) \in Codes
    <3> HIDE DEF e
    <3> QED
      BY <2>1, <2>2, Answered
  <2>4. popped \in Jobs /\ SameOrder(popped, me) /\ popped.pc = "scan"
        /\ popped.queue = Tail(me.queue) /\ popped.list = Append(me.list, dir)
        /\ popped.files = me.files /\ popped.dirs = me.dirs
    <3>1. me.queue \in Seq(Paths) /\ me.list \in Seq(Paths)
      BY <1>1 DEF Jobs
    <3>2. dir \in Paths /\ Tail(me.queue) \in Seq(Paths)
      BY <1>4, <3>1, HeadTailProperties
    <3>3. Append(me.list, dir) \in Seq(Paths)
      BY <3>1, <3>2
    <3> QED
      BY <1>1, <3>2, <3>3 DEF Jobs, SameOrder
  <2> HIDE DEF popped
  <2>5. /\ listed \in Jobs /\ SameOrder(listed, me) /\ listed.pc = "child"
        /\ listed.queue = Tail(me.queue) /\ listed.list = Append(me.list, dir)
        /\ listed.files = me.files /\ listed.dirs = me.dirs /\ listed.children = ChildrenOf(tree, dir)
    <3>1. "child" \in Labels /\ ChildrenOf(tree, dir) \in SUBSET Paths
      BY DEF Labels, ChildrenOf
    <3> QED
      BY <2>4, <3>1 DEF Jobs, SameOrder
  <2>6. /\ failed(a) \in Jobs /\ SameOrder(failed(a), me) /\ failed(a).pc = "scan"
        /\ failed(a).queue = Tail(me.queue) /\ failed(a).list = Append(me.list, dir)
        /\ failed(a).files = me.files
    <3>1. popped.ret \in Codes /\ popped.dirs \in Nat
      BY <2>4 DEF Jobs
    <3>2. Updated(popped.ret, ErrnoToCode(a)) \in Codes /\ popped.dirs + 1 \in Nat
      BY <2>3, <3>1, CodesAreCodes
    <3> QED
      BY <2>4, <3>2 DEF Jobs, SameOrder
  <2>7. AtItsLabel(listed) /\ AtItsLabel(failed(a))
    BY <1>1, <2>5, <2>6, StaysItsLabel
  <2> HIDE DEF listed, failed
  <2>8. CASE a = "OK"
    <3>1. Moves(p) /\ job'[p] = listed
      BY <2>1, <2>3, <2>5, <2>7, <2>8, MovesBy
    <3> QED
      BY <1>1, <1>2, <1>4, <2>3, <2>5, <2>8, <3>1
  <2>9. CASE a # "OK"
    <3>1. Moves(p) /\ job'[p] = failed(a)
      BY <2>1, <2>3, <2>6, <2>7, <2>9, MovesBy
    <3> QED
      BY <1>1, <1>2, <1>4, <2>3, <2>6, <2>9, <3>1
  <2> QED
    BY <2>8, <2>9
<1> QED
  BY <1>3, <1>4


LEMMA DeleteChildIs ==
  ASSUME EnvTypeOK, NEW p \in Procs, DeleteChild(p), AtItsLabel(job[p])
  PROVE  /\ Moves(p) /\ UNCHANGED <<tree, data, writes, registry>>
         /\ job[p].op = "DeleteRecursively" /\ job[p].pc = "child"
         /\ job'[p].queue = job[p].queue /\ job'[p].list = job[p].list
         /\ job'[p].files = job[p].files /\ job'[p].dirs = job[p].dirs
         /\ \/ job[p].children = {} /\ job'[p].pc = "scan"
            \/ \E c \in job[p].children :
                 /\ job'[p].children = job[p].children \ {c} /\ job'[p].child = c
                 /\ \/ access(tree, c) = "OK" /\ job'[p].pc = "stat"
                    \/ (faults' = 0 => access(tree, c) # "OK") /\ job'[p].pc = "unlink"
<1> DEFINE me == job[p]
<1>1. me \in Jobs /\ me.op = "DeleteRecursively" /\ me.pc = "child"
  BY DEF EnvTypeOK, DeleteChild, At, AtItsLabel
<1>2. UNCHANGED <<tree, data, writes, registry>>
  BY DEF DeleteChild, SameFiles
<1>3. CASE me.children = {}
  <2>1. "scan" \in Labels
    BY DEF Labels
  <2> DEFINE g == [me EXCEPT !.pc = "scan"]
  <2>2. g \in Jobs /\ SameOrder(g, me) /\ g.pc = "scan"
        /\ g.queue = me.queue /\ g.list = me.list /\ g.files = me.files /\ g.dirs = me.dirs
    BY <1>1, <2>1 DEF Jobs, SameOrder
  <2>3. AtItsLabel(g)
    BY <1>1, <2>2, StaysItsLabel
  <2>4. Step(p, g) /\ faults' \in Nat /\ faults <= faults'
    BY <1>3 DEF DeleteChild, Go, EnvTypeOK
  <2>5. Moves(p) /\ job'[p] = g
    BY <2>2, <2>3, <2>4, MovesBy
  <2> QED
    BY <1>1, <1>2, <1>3, <2>2, <2>5
<1>4. CASE me.children # {}
  <2> DEFINE l(c, a) == [me EXCEPT !.children = @ \ {c}, !.child = c,
                                   !.pc = IF a = "OK" THEN "stat" ELSE "unlink"]
  <2>1. PICK c \in me.children : \E a \in Answers(access(tree, c)) : Step(p, l(c, a)) /\ Counting(a)
    BY <1>4 DEF DeleteChild
  <2>2. PICK a \in Answers(access(tree, c)) : Step(p, l(c, a)) /\ Counting(a)
    BY <2>1
  <2>3. access(tree, c) \in Errnos
    BY CallsAnswer
  <2>4. /\ a \in {access(tree, c), "EIO"} /\ faults' \in Nat /\ faults <= faults'
        /\ (faults' = 0 => a = access(tree, c))
    BY <2>2, <2>3, Answered
  <2>5. /\ l(c, a) \in Jobs /\ SameOrder(l(c, a), me) /\ l(c, a).pc = (IF a = "OK" THEN "stat" ELSE "unlink")
        /\ l(c, a).queue = me.queue /\ l(c, a).list = me.list /\ l(c, a).files = me.files
        /\ l(c, a).dirs = me.dirs /\ l(c, a).children = me.children \ {c} /\ l(c, a).child = c
    <3>1. "stat" \in Labels /\ "unlink" \in Labels
      BY DEF Labels
    <3>2. me.children \in SUBSET Paths
      BY <1>1 DEF Jobs
    <3>3. c \in Paths /\ me.children \ {c} \in SUBSET Paths
      BY <2>1, <3>2
    <3> QED
      BY <1>1, <3>1, <3>3 DEF Jobs, SameOrder
  <2>6. AtItsLabel(l(c, a))
    BY <1>1, <2>5, StaysItsLabel
  <2> HIDE DEF l
  <2>7. Moves(p) /\ job'[p] = l(c, a)
    BY <2>2, <2>4, <2>5, <2>6, MovesBy
  <2> QED
    BY <1>1, <1>2, <2>4, <2>5, <2>7
<1> QED
  BY <1>3, <1>4

LEMMA DeleteChildStatIs ==
  ASSUME EnvTypeOK, NEW p \in Procs, DeleteChildStat(p), AtItsLabel(job[p])
  PROVE  /\ Moves(p) /\ UNCHANGED <<tree, data, writes, registry>>
         /\ job[p].op = "DeleteRecursively" /\ job[p].pc = "stat"
         /\ job'[p].list = job[p].list /\ job'[p].children = job[p].children
         /\ job'[p].child = job[p].child
         /\ job'[p].files = job[p].files /\ job'[p].dirs = job[p].dirs
         /\ \/ /\ stat(tree, job[p].child) = "OK" /\ tree[job[p].child] = Dir
               /\ job'[p].queue = Append(job[p].queue, job[p].child) /\ job'[p].pc = "child"
            \/ /\ faults' = 0 => ~(stat(tree, job[p].child) = "OK" /\ tree[job[p].child] = Dir)
               /\ job'[p].queue = job[p].queue /\ job'[p].pc = "unlink"
<1> DEFINE me == job[p]
           e == stat(tree, me.child)
           isDir == [me EXCEPT !.queue = Append(@, me.child), !.pc = "child"]
           isNot == [me EXCEPT !.pc = "unlink"]
<1>1. me \in Jobs /\ me.op = "DeleteRecursively" /\ me.pc = "stat"
  BY DEF EnvTypeOK, DeleteChildStat, At, AtItsLabel
<1>2. UNCHANGED <<tree, data, writes, registry>>
  BY DEF DeleteChildStat, SameFiles
<1>3. PICK a \in Answers(e) :
        Step(p, IF a = "OK" /\ tree[me.child] = Dir THEN isDir ELSE isNot) /\ Counting(a)
  BY DEF DeleteChildStat, Go
<1>4. e \in Errnos
  BY CallsAnswer
<1>5. /\ a \in {e, "EIO"} /\ faults' \in Nat /\ faults <= faults' /\ (faults' = 0 => a = e)
  <2> HIDE DEF e
  <2> QED
    BY <1>3, <1>4, Answered
<1>6. /\ isDir \in Jobs /\ SameOrder(isDir, me) /\ isDir.pc = "child"
      /\ isDir.queue = Append(me.queue, me.child) /\ isDir.list = me.list
      /\ isDir.children = me.children /\ isDir.child = me.child
      /\ isDir.files = me.files /\ isDir.dirs = me.dirs
  <2>1. "child" \in Labels /\ me.child \in Paths /\ me.queue \in Seq(Paths)
    BY <1>1 DEF Labels, Jobs
  <2>2. Append(me.queue, me.child) \in Seq(Paths)
    BY <2>1
  <2> QED
    BY <1>1, <2>1, <2>2 DEF Jobs, SameOrder
<1>7. /\ isNot \in Jobs /\ SameOrder(isNot, me) /\ isNot.pc = "unlink"
      /\ isNot.queue = me.queue /\ isNot.list = me.list
      /\ isNot.children = me.children /\ isNot.child = me.child
      /\ isNot.files = me.files /\ isNot.dirs = me.dirs
  <2>1. "unlink" \in Labels
    BY DEF Labels
  <2> QED
    BY <1>1, <2>1 DEF Jobs, SameOrder
<1>8. AtItsLabel(isDir) /\ AtItsLabel(isNot)
  BY <1>1, <1>6, <1>7, StaysItsLabel
<1> HIDE DEF isDir, isNot
<1>9. CASE a = "OK" /\ tree[me.child] = Dir
  <2>1. Moves(p) /\ job'[p] = isDir
    BY <1>3, <1>5, <1>6, <1>8, <1>9, MovesBy
  <2>2. stat(tree, me.child) = "OK"
    BY <1>5, <1>9
  <2> QED
    BY <1>1, <1>2, <1>6, <1>9, <2>1, <2>2
<1>10. CASE ~(a = "OK" /\ tree[me.child] = Dir)
  <2>1. Moves(p) /\ job'[p] = isNot
    BY <1>3, <1>5, <1>7, <1>8, <1>10, MovesBy
  <2>2. faults' = 0 => ~(stat(tree, me.child) = "OK" /\ tree[me.child] = Dir)
    BY <1>5, <1>10
  <2> QED
    BY <1>1, <1>2, <1>7, <2>1, <2>2
<1> QED
  BY <1>9, <1>10

LEMMA DeleteChildUnlinkIs ==
  ASSUME EnvTypeOK, NEW p \in Procs, DeleteChildUnlink(p), AtItsLabel(job[p])
  PROVE  /\ Moves(p) /\ UNCHANGED <<data, writes, registry>>
         /\ job[p].op = "DeleteRecursively" /\ job[p].pc = "unlink" /\ job'[p].pc = "child"
         /\ job'[p].queue = job[p].queue /\ job'[p].list = job[p].list
         /\ job'[p].children = job[p].children /\ job'[p].dirs = job[p].dirs
         /\ \/ /\ unlink(tree, job[p].child) = "OK" /\ tree' = Removed(tree, job[p].child)
               /\ job'[p].files = job[p].files
            \/ /\ faults' = 0 => unlink(tree, job[p].child) # "OK"
               /\ tree' = tree
<1> DEFINE me == job[p]
           e == unlink(tree, me.child)
           done == [me EXCEPT !.pc = "child"]
           failed(a) == [me EXCEPT !.pc = "child", !.ret = Updated(@, ErrnoToCode(a)), !.files = @ + 1]
<1>1. me \in Jobs /\ me.op = "DeleteRecursively" /\ me.pc = "unlink"
  BY DEF EnvTypeOK, DeleteChildUnlink, At, AtItsLabel
<1>2. UNCHANGED <<data, writes, registry>>
  BY DEF DeleteChildUnlink
<1>3. PICK a \in Answers(e) :
        /\ tree' = IF a = "OK" THEN Removed(tree, me.child) ELSE tree
        /\ Step(p, IF a = "OK" THEN done ELSE failed(a)) /\ Counting(a)
  BY DEF DeleteChildUnlink, Go
<1>4. e \in Errnos
  BY CallsAnswer
<1>5. /\ a \in {e, "EIO"} /\ faults' \in Nat /\ faults <= faults' /\ (faults' = 0 => a = e)
      /\ e # "EIO" /\ ErrnoToCode(a) \in Codes
  <2> HIDE DEF e
  <2> QED
    BY <1>3, <1>4, Answered
<1>6. /\ done \in Jobs /\ SameOrder(done, me) /\ done.pc = "child"
      /\ done.queue = me.queue /\ done.list = me.list
      /\ done.children = me.children /\ done.files = me.files /\ done.dirs = me.dirs
  <2>1. "child" \in Labels
    BY DEF Labels
  <2> QED
    BY <1>1, <2>1 DEF Jobs, SameOrder
<1>7. /\ failed(a) \in Jobs /\ SameOrder(failed(a), me) /\ failed(a).pc = "child"
      /\ failed(a).queue = me.queue /\ failed(a).list = me.list
      /\ failed(a).children = me.children /\ failed(a).dirs = me.dirs
  <2>1. "child" \in Labels /\ me.ret \in Codes /\ me.files \in Nat
    BY <1>1 DEF Labels, Jobs
  <2>2. Updated(me.ret, ErrnoToCode(a)) \in Codes /\ me.files + 1 \in Nat
    BY <1>5, <2>1, CodesAreCodes
  <2> QED
    BY <1>1, <2>1, <2>2 DEF Jobs, SameOrder
<1>8. AtItsLabel(done) /\ AtItsLabel(failed(a))
  BY <1>1, <1>6, <1>7, StaysItsLabel
<1> HIDE DEF done, failed
<1>9. CASE a = "OK"
  <2>1. Moves(p) /\ job'[p] = done
    BY <1>3, <1>5, <1>6, <1>8, <1>9, MovesBy
  <2> QED
    BY <1>1, <1>2, <1>3, <1>5, <1>6, <1>9, <2>1
<1>10. CASE a # "OK"
  <2>1. Moves(p) /\ job'[p] = failed(a)
    BY <1>3, <1>5, <1>7, <1>8, <1>10, MovesBy
  <2> QED
    BY <1>1, <1>2, <1>3, <1>5, <1>7, <1>10, <2>1
<1> QED
  BY <1>9, <1>10

LEMMA DeleteDirsIs ==
  ASSUME EnvTypeOK, NEW p \in Procs, DeleteDirs(p), AtItsLabel(job[p]), job[p].list # <<>>
  PROVE  /\ Moves(p) /\ UNCHANGED <<data, writes, registry>>
         /\ job[p].op = "DeleteRecursively" /\ job[p].pc = "rmdir"
         /\ job'[p].list = Front(job[p].list) /\ job'[p].files = job[p].files
         /\ job'[p].pc = IF Front(job[p].list) = <<>> THEN "done" ELSE "rmdir"
         /\ \/ /\ rmdir(tree, Last(job[p].list)) = "OK" /\ tree' = Removed(tree, Last(job[p].list))
               /\ job'[p].dirs = job[p].dirs
            \/ /\ faults' = 0 => rmdir(tree, Last(job[p].list)) # "OK"
               /\ tree' = tree /\ job'[p].dirs = job[p].dirs + 1
<1> DEFINE me == job[p]
           e == rmdir(tree, Last(me.list))
           popped == [me EXCEPT !.list = Front(@)]
           rest(a) == IF a = "OK" THEN popped
                      ELSE [popped EXCEPT !.ret = Updated(@, ErrnoToCode(a)), !.dirs = @ + 1]
           l(a) == IF rest(a).list = <<>> THEN Completed(rest(a), OK) ELSE rest(a)
<1>1. me \in Jobs /\ me.op = "DeleteRecursively" /\ me.pc = "rmdir"
  BY DEF EnvTypeOK, DeleteDirs, At, AtItsLabel
<1>2. UNCHANGED <<data, writes, registry>>
  BY DEF DeleteDirs
<1>3. PICK a \in Answers(e) :
        /\ tree' = IF a = "OK" THEN Removed(tree, Last(me.list)) ELSE tree
        /\ Step(p, l(a)) /\ Counting(a)
  BY DEF DeleteDirs
<1>4. e \in Errnos
  BY CallsAnswer
<1>5. /\ a \in {e, "EIO"} /\ faults' \in Nat /\ faults <= faults' /\ (faults' = 0 => a = e)
      /\ e # "EIO" /\ ErrnoToCode(a) \in Codes
  <2> HIDE DEF e
  <2> QED
    BY <1>3, <1>4, Answered
<1>6. popped \in Jobs /\ SameOrder(popped, me) /\ popped.pc = me.pc
      /\ popped.list = Front(me.list) /\ popped.files = me.files /\ popped.dirs = me.dirs
  <2>1. me.list \in Seq(Paths)
    BY <1>1 DEF Jobs
  <2>2. Front(me.list) \in Seq(Paths)
    BY <2>1, FrontIs
  <2> QED
    BY <1>1, <2>2 DEF Jobs, SameOrder
<1> HIDE DEF popped
<1>7. rest(a) \in Jobs /\ SameOrder(rest(a), me) /\ rest(a).pc = me.pc
      /\ rest(a).list = Front(me.list) /\ rest(a).files = me.files
      /\ rest(a).dirs = IF a = "OK" THEN me.dirs ELSE me.dirs + 1
  <2>1. CASE a = "OK"
    BY <1>6, <2>1
  <2>2. CASE a # "OK"
    <3>1. popped.ret \in Codes /\ popped.dirs \in Nat
      BY <1>6 DEF Jobs
    <3>2. Updated(popped.ret, ErrnoToCode(a)) \in Codes /\ popped.dirs + 1 \in Nat
      BY <1>5, <3>1, CodesAreCodes
    <3> QED
      BY <1>6, <2>2, <3>2 DEF Jobs, SameOrder
  <2> QED
    BY <2>1, <2>2
<1>8. AtItsLabel(rest(a))
  BY <1>1, <1>7, StaysItsLabel
<1> HIDE DEF rest
<1>9. /\ l(a) \in Jobs /\ SameOrder(l(a), me) /\ AtItsLabel(l(a))
      /\ l(a).pc = (IF Front(me.list) = <<>> THEN "done" ELSE "rmdir")
      /\ l(a).list = Front(me.list) /\ l(a).files = me.files
      /\ l(a).dirs = IF a = "OK" THEN me.dirs ELSE me.dirs + 1
  <2>1. CASE rest(a).list = <<>>
    <3> DEFINE d == Completed(rest(a), OK)
    <3>1. OK \in Codes
      BY DEF Codes
    <3>2. d \in Jobs /\ SameOrder(d, rest(a)) /\ AtItsLabel(d) /\ d.pc = "done"
      BY <1>7, <1>8, <3>1, CompletedIs
    <3>3. d.list = rest(a).list /\ d.files = rest(a).files /\ d.dirs = rest(a).dirs
      BY <1>7 DEF Completed, Jobs
    <3> HIDE DEF d
    <3>4. l(a) = d
      BY <2>1 DEF d
    <3> HIDE DEF l
    <3> QED
      BY <1>7, <2>1, <3>2, <3>3, <3>4 DEF SameOrder
  <2>2. CASE rest(a).list # <<>>
    BY <1>1, <1>7, <1>8, <2>2
  <2> QED
    BY <2>1, <2>2
<1> HIDE DEF l
<1>10. Moves(p) /\ job'[p] = l(a)
  BY <1>3, <1>5, <1>9, MovesBy
<1>11. CASE a = "OK"
  BY <1>1, <1>2, <1>3, <1>5, <1>9, <1>10, <1>11
<1>12. CASE a # "OK"
  BY <1>1, <1>2, <1>3, <1>5, <1>9, <1>10, <1>12
<1> QED
  BY <1>11, <1>12


LEMMA FailedIs ==
  ASSUME NEW j \in Jobs, AtItsLabel(j), NEW e \in Errnos \cup {"EIO"}, e # "OK",
         NEW l, l = Completed(j, ErrnoToCode(e))
  PROVE  /\ l \in Jobs /\ SameOrder(l, j) /\ AtItsLabel(l) /\ l.pc = "done" /\ ~IsOk(l.status)
<1>1. ErrnoToCode(e) \in Codes /\ ~IsOk(ErrnoToCode(e))
  BY CodesAreCodes, ErrnosAreErrors DEF IsOk
<1> QED
  BY <1>1, CompletedIs

LEMMA ReadSizeIs ==
  ASSUME EnvTypeOK, NEW p \in Procs, ReadSize(p), AtItsLabel(job[p])
  PROVE  /\ Moves(p) /\ UNCHANGED <<tree, data, writes, registry>>
         /\ job[p].op = "ReadFileToString" /\ job[p].pc = "size"
         /\ \/ job'[p].pc = "done" /\ ~IsOk(job'[p].status)
            \/ /\ job'[p].pc = "open" /\ job'[p].got = job[p].got
               /\ \/ job'[p].size = 1 /\ job'[p].file = job[p].file
                  \/ /\ job'[p].file \in Files
                     /\ job'[p].size = Len(data[job'[p].file])
                     /\ job'[p].seen = writes[job'[p].file]
<1> DEFINE me == job[p]
           f == tree[me.path]
           e == stat(tree, me.path)
           isDir == [me EXCEPT !.pc = "open", !.size = 1]
           isFile == [me EXCEPT !.pc = "open", !.size = Len(data[f]), !.file = f, !.seen = writes[f]]
           failed(a) == Completed(me, ErrnoToCode(a))
<1>1. me \in Jobs /\ me.op = "ReadFileToString" /\ me.pc = "size"
  BY DEF EnvTypeOK, ReadSize, At, AtItsLabel
<1>2. UNCHANGED <<tree, data, writes, registry>>
  BY DEF ReadSize, SameFiles
<1>3. PICK a \in Answers(e) :
        /\ Step(p, IF a # "OK" THEN failed(a) ELSE IF f = Dir THEN isDir ELSE isFile)
        /\ Counting(a)
  BY DEF ReadSize
<1>4. e \in Errnos
  BY CallsAnswer
<1>5. a \in {e, "EIO"} /\ a \in Errnos \cup {"EIO"} /\ faults' \in Nat /\ faults <= faults'
  <2> HIDE DEF e
  <2> QED
    BY <1>3, <1>4, Answered
<1>6. "open" \in Labels
  BY DEF Labels
<1>7. CASE a # "OK"
  <2>1. /\ failed(a) \in Jobs /\ SameOrder(failed(a), me) /\ AtItsLabel(failed(a))
        /\ failed(a).pc = "done" /\ ~IsOk(failed(a).status)
    BY <1>1, <1>5, <1>7, FailedIs
  <2> HIDE DEF failed
  <2>2. Moves(p) /\ job'[p] = failed(a)
    BY <1>3, <1>5, <1>7, <2>1, MovesBy
  <2> QED
    BY <1>1, <1>2, <2>1, <2>2
<1>8. CASE a = "OK" /\ f = Dir
  <2>1. /\ isDir \in Jobs /\ SameOrder(isDir, me) /\ isDir.pc = "open"
        /\ isDir.size = 1 /\ isDir.file = me.file /\ isDir.got = me.got
    BY <1>1, <1>6 DEF Jobs, SameOrder
  <2>2. AtItsLabel(isDir)
    BY <1>1, <2>1, StaysItsLabel
  <2> HIDE DEF isDir
  <2>3. Moves(p) /\ job'[p] = isDir
    BY <1>3, <1>5, <1>8, <2>1, <2>2, MovesBy
  <2> QED
    BY <1>1, <1>2, <2>1, <2>3
<1>9. CASE a = "OK" /\ f # Dir
  <2>1. f \in Files
    <3>1. e = "OK" /\ me.path \in Paths
      BY <1>1, <1>4, <1>5, <1>9 DEF Errnos, Jobs
    <3> QED
      BY <1>9, <3>1 DEF stat, Find, Absent, EnvTypeOK, IsTree
  <2>2. f \in Handles /\ Len(data[f]) \in Nat /\ writes[f] \in Int
    BY <2>1 DEF EnvTypeOK, Handles
  <2> HIDE DEF f
  <2>3. /\ isFile \in Jobs /\ SameOrder(isFile, me) /\ isFile.pc = "open"
        /\ isFile.size = Len(data[f]) /\ isFile.file = f /\ isFile.got = me.got
        /\ isFile.seen = writes[f]
    BY <1>1, <1>6, <2>2 DEF Jobs, SameOrder
  <2>4. AtItsLabel(isFile)
    BY <1>1, <2>3, StaysItsLabel
  <2> HIDE DEF isFile
  <2>5. Moves(p) /\ job'[p] = isFile
    BY <1>3, <1>5, <1>9, <2>3, <2>4, MovesBy
  <2> QED
    BY <1>1, <1>2, <2>1, <2>3, <2>5
<1> QED
  BY <1>7, <1>8, <1>9

LEMMA ReadOpenIs ==
  ASSUME EnvTypeOK, NEW p \in Procs, ReadOpen(p), AtItsLabel(job[p])
  PROVE  /\ Moves(p) /\ UNCHANGED <<tree, data, writes, registry>>
         /\ job[p].op = "ReadFileToString" /\ job[p].pc = "open"
         /\ \/ job'[p].pc = "done" /\ ~IsOk(job'[p].status)
            \/ /\ job'[p].pc = IF job[p].size = 0 THEN "done" ELSE "pread"
               /\ job'[p].got = job[p].got /\ job'[p].size = job[p].size
               /\ job'[p].file \in Files \cup {Dir}
               /\ job'[p].seen = IF job'[p].file = job[p].file THEN job[p].seen ELSE -1
<1> DEFINE me == job[p]
           f == tree[me.path]
           e == openToRead(tree, me.path)
           opened == [me EXCEPT !.file = f, !.seen = IF f = me.file THEN @ ELSE -1]
           failed(a) == Completed(me, ErrnoToCode(a))
           empty == Completed(opened, OK)
           full == [opened EXCEPT !.pc = "pread"]
<1>1. me \in Jobs /\ me.op = "ReadFileToString" /\ me.pc = "open"
  BY DEF EnvTypeOK, ReadOpen, At, AtItsLabel
<1>2. UNCHANGED <<tree, data, writes, registry>>
  BY DEF ReadOpen, SameFiles
<1>3. PICK a \in Answers(e) :
        /\ Step(p, IF a # "OK" THEN failed(a) ELSE IF me.size = 0 THEN empty ELSE full)
        /\ Counting(a)
  BY DEF ReadOpen
<1>4. e \in Errnos
  BY CallsAnswer
<1>5. a \in {e, "EIO"} /\ a \in Errnos \cup {"EIO"} /\ faults' \in Nat /\ faults <= faults'
  <2> HIDE DEF e
  <2> QED
    BY <1>3, <1>4, Answered
<1>6. CASE a # "OK"
  <2>1. /\ failed(a) \in Jobs /\ SameOrder(failed(a), me) /\ AtItsLabel(failed(a))
        /\ failed(a).pc = "done" /\ ~IsOk(failed(a).status)
    BY <1>1, <1>5, <1>6, FailedIs
  <2> HIDE DEF failed
  <2>2. Moves(p) /\ job'[p] = failed(a)
    BY <1>3, <1>5, <1>6, <2>1, MovesBy
  <2> QED
    BY <1>1, <1>2, <2>1, <2>2
<1>7. CASE a = "OK"
  <2>1. f \in Files \cup {Dir}
    <3>1. e = "OK" /\ me.path \in Paths
      BY <1>1, <1>4, <1>5, <1>7 DEF Errnos, Jobs
    <3> QED
      BY <3>1 DEF openToRead, Find, Absent, EnvTypeOK, IsTree
  <2>2. f \in Handles
    BY <2>1 DEF Handles
  <2> HIDE DEF f
  <2>3. /\ opened \in Jobs /\ SameOrder(opened, me) /\ opened.pc = me.pc
        /\ opened.size = me.size /\ opened.file = f /\ opened.got = me.got
        /\ opened.seen = IF f = me.file THEN me.seen ELSE -1
    <3>1. me.seen \in Int
      BY <1>1 DEF Jobs
    <3>2. (IF f = me.file THEN me.seen ELSE -1) \in Int
      BY <3>1
    <3> QED
      BY <1>1, <2>2, <3>2 DEF Jobs, SameOrder
  <2> HIDE DEF opened
  <2>4. AtItsLabel(opened)
    BY <1>1, <2>3, StaysItsLabel
  <2>5. CASE me.size = 0
    <3>1. OK \in Codes
      BY DEF Codes
    <3>2. empty \in Jobs /\ SameOrder(empty, opened) /\ AtItsLabel(empty) /\ empty.pc = "done"
      BY <2>3, <2>4, <3>1, CompletedIs
    <3>3. /\ empty.size = opened.size /\ empty.file = opened.file /\ empty.got = opened.got
          /\ empty.seen = opened.seen
      BY <2>3 DEF Completed, Jobs
    <3>4. SameOrder(empty, me)
      BY <2>3, <3>2 DEF SameOrder
    <3> HIDE DEF empty
    <3>5. Moves(p) /\ job'[p] = empty
      BY <1>3, <1>5, <1>7, <2>5, <3>2, <3>4, MovesBy
    <3> QED
      BY <1>1, <1>2, <2>1, <2>3, <2>5, <3>2, <3>3, <3>5
  <2>6. CASE me.size # 0
    <3>1. "pread" \in Labels
      BY DEF Labels
    <3>2. /\ full \in Jobs /\ SameOrder(full, me) /\ full.pc = "pread"
          /\ full.size = opened.size /\ full.file = opened.file /\ full.got = opened.got
          /\ full.seen = opened.seen
      BY <2>3, <3>1 DEF Jobs, SameOrder
    <3>3. AtItsLabel(full)
      BY <1>1, <3>2, StaysItsLabel
    <3> HIDE DEF full
    <3>4. Moves(p) /\ job'[p] = full
      BY <1>3, <1>5, <1>7, <2>6, <3>2, <3>3, MovesBy
    <3> QED
      BY <1>1, <1>2, <2>1, <2>3, <2>6, <3>2, <3>4
  <2> QED
    BY <2>5, <2>6
<1> QED
  BY <1>6, <1>7

LEMMA ReadPreadIs ==
  ASSUME EnvTypeOK, NEW p \in Procs, ReadPread(p), AtItsLabel(job[p]), job[p].file # None,
         NEW sofar, sofar = Len(job[p].got)
  PROVE  /\ Moves(p) /\ UNCHANGED <<tree, data, writes, registry>>
         /\ job[p].op = "ReadFileToString" /\ job[p].pc = "pread"
         /\ \/ job'[p].pc = "done" /\ ~IsOk(job'[p].status)
            \/ /\ job[p].file \in Files
               /\ \E n \in Nat :
                    /\ 0 < n /\ sofar + n <= job[p].size /\ sofar + n <= Len(data[job[p].file])
                    /\ job'[p].got = job[p].got \o SubSeq(data[job[p].file], sofar + 1, sofar + n)
                    /\ job'[p].pc = IF sofar + n = job[p].size THEN "done" ELSE "pread"
               /\ job'[p].size = job[p].size /\ job'[p].file = job[p].file
               /\ job'[p].seen = job[p].seen
<1> DEFINE me == job[p]
           content == IF me.file = Dir THEN <<>> ELSE data[me.file]
           there == Len(content) - sofar
           wanted == me.size - sofar
           e == IF me.file = Dir THEN "EISDIR" ELSE "OK"
           none == [me EXCEPT !.got = <<>>]
           failed(a) == Completed(none, ErrnoToCode(a))
           short == Completed(none, "OUT_OF_RANGE")
           read(n) == [me EXCEPT !.got = @ \o Pread(content, Len(@), n)]
<1>1. me \in Jobs /\ me.op = "ReadFileToString" /\ me.pc = "pread"
  BY DEF EnvTypeOK, ReadPread, At, AtItsLabel
<1>2. UNCHANGED <<tree, data, writes, registry>>
  BY DEF ReadPread, SameFiles
<1>3. PICK a \in Answers(e), n \in 0..wanted :
        /\ a # "OK" => n = 0
        /\ a = "OK" => IF there <= 0 THEN n = 0 ELSE n \in 1..there
        /\ Step(p, IF a # "OK" THEN failed(a) ELSE IF n = 0 THEN short
                   ELSE IF n = wanted THEN Completed(read(n), OK) ELSE read(n))
        /\ Counting(a)
  BY DEF ReadPread
<1>4. e \in Errnos
  BY DEF Errnos
<1>5. a \in {e, "EIO"} /\ a \in Errnos \cup {"EIO"} /\ faults' \in Nat /\ faults <= faults'
  <2> HIDE DEF e
  <2> QED
    BY <1>3, <1>4, Answered
<1>6. none \in Jobs /\ SameOrder(none, me) /\ none.pc = me.pc
  <2>1. <<>> \in Seq(Byte)
    OBVIOUS
  <2> QED
    BY <1>1, <2>1 DEF Jobs, SameOrder
<1>7. AtItsLabel(none)
  BY <1>1, <1>6, StaysItsLabel
<1> HIDE DEF none
<1>8. CASE a # "OK"
  <2>1. /\ failed(a) \in Jobs /\ SameOrder(failed(a), none) /\ AtItsLabel(failed(a))
        /\ failed(a).pc = "done" /\ ~IsOk(failed(a).status)
    BY <1>5, <1>6, <1>7, <1>8, FailedIs
  <2>2. SameOrder(failed(a), me)
    BY <1>6, <2>1 DEF SameOrder
  <2> HIDE DEF failed
  <2>3. Moves(p) /\ job'[p] = failed(a)
    BY <1>3, <1>5, <1>8, <2>1, <2>2, MovesBy
  <2> QED
    BY <1>1, <1>2, <2>1, <2>3
<1>9. CASE a = "OK" /\ n = 0
  <2>1. "OUT_OF_RANGE" \in Codes /\ ~IsOk("OUT_OF_RANGE")
    BY DEF Codes, IsOk, OK
  <2>2. /\ short \in Jobs /\ SameOrder(short, none) /\ AtItsLabel(short)
        /\ short.pc = "done" /\ ~IsOk(short.status)
    BY <1>6, <1>7, <2>1, CompletedIs
  <2>3. SameOrder(short, me)
    BY <1>6, <2>2 DEF SameOrder
  <2> HIDE DEF short
  <2>4. Moves(p) /\ job'[p] = short
    BY <1>3, <1>5, <1>9, <2>2, <2>3, MovesBy
  <2> QED
    BY <1>1, <1>2, <2>2, <2>4
<1>10. CASE a = "OK" /\ n # 0
  <2>1. me.file \in Files /\ content = data[me.file]
    <3>1. me.file # Dir
      BY <1>5, <1>10
    <3>2. me.file \in Handles
      BY <1>1 DEF Jobs
    <3> QED
      BY <3>1, <3>2 DEF Handles
  <2>2. content \in Seq(Byte) /\ me.got \in Seq(Byte) /\ me.size \in Nat /\ sofar \in Nat
    BY <1>1, <2>1 DEF EnvTypeOK, Jobs
  <2> HIDE DEF content
  <2>3. n \in Nat /\ 0 < n /\ sofar + n <= me.size /\ sofar + n <= Len(content)
    BY <1>3, <1>10, <2>2, SMTT(30)
  <2> DEFINE more == SubSeq(content, sofar + 1, sofar + n)
  <2>4. more \in Seq(Byte)
    BY <2>2, <2>3
  <2>5. /\ read(n) \in Jobs /\ SameOrder(read(n), me) /\ read(n).pc = "pread"
        /\ read(n).size = me.size /\ read(n).file = me.file /\ read(n).seen = me.seen
        /\ read(n).got = me.got \o more
    <3>1. me.got \o more \in Seq(Byte) /\ Pread(content, sofar, n) = more
      BY <2>2, <2>4, ConcatProperties DEF Pread
    <3> HIDE DEF more
    <3>2. read(n) = [me EXCEPT !.got = me.got \o more]
      BY <1>1, <3>1 DEF Jobs
    <3> HIDE DEF read
    <3> QED
      BY <1>1, <3>1, <3>2 DEF Jobs, SameOrder
  <2>6. AtItsLabel(read(n))
    BY <1>1, <2>5, StaysItsLabel
  <2> HIDE DEF read
  <2>7. CASE n = wanted
    <3> DEFINE d == Completed(read(n), OK)
    <3>1. OK \in Codes
      BY DEF Codes
    <3>2. d \in Jobs /\ SameOrder(d, read(n)) /\ AtItsLabel(d) /\ d.pc = "done"
      BY <2>5, <2>6, <3>1, CompletedIs
    <3>3. /\ d.size = read(n).size /\ d.file = read(n).file /\ d.got = read(n).got
          /\ d.seen = read(n).seen
      BY <2>5 DEF Completed, Jobs
    <3>4. SameOrder(d, me)
      BY <2>5, <3>2 DEF SameOrder
    <3>5. Step(p, d)
      BY <1>3, <1>10, <2>7
    <3> HIDE DEF d
    <3>6. Moves(p) /\ job'[p] = d
      BY <1>5, <3>2, <3>4, <3>5, MovesBy
    <3>7. sofar + n = me.size
      BY <2>2, <2>7
    <3> QED
      BY <1>1, <1>2, <2>1, <2>3, <2>5, <3>2, <3>3, <3>6, <3>7
  <2>8. CASE n # wanted
    <3>1. Step(p, read(n))
      BY <1>3, <1>10, <2>8
    <3>2. Moves(p) /\ job'[p] = read(n)
      BY <1>5, <2>5, <2>6, <3>1, MovesBy
    <3>3. sofar + n # me.size
      BY <2>2, <2>3, <2>8
    <3> QED
      BY <1>1, <1>2, <2>1, <2>3, <2>5, <3>2, <3>3
  <2> QED
    BY <2>7, <2>8
<1> QED
  BY <1>8, <1>9, <1>10


LEMMA WriteOpenIs ==
  ASSUME EnvTypeOK, NEW p \in Procs, WriteOpen(p), AtItsLabel(job[p])
  PROVE  /\ Moves(p) /\ registry' = registry
         /\ job[p].op = "WriteStringToFile" /\ job[p].pc = "create"
         /\ \/ UNCHANGED <<tree, data, writes>> /\ job'[p].pc = "done" /\ ~IsOk(job'[p].status)
            \/ \E f \in Files :
                 /\ openToWrite(tree, job[p].path) = "OK" /\ tree' = Made(tree, job[p].path, f)
                 /\ data' = [data EXCEPT ![f] = <<>>] /\ writes' = [writes EXCEPT ![f] = @ + 1]
                 /\ job'[p].pc = "append" /\ job'[p].file = f
<1> DEFINE me == job[p]
           e == openToWrite(tree, me.path)
           opened(f) == [me EXCEPT !.pc = "append", !.file = f]
           failed(a) == Completed(me, ErrnoToCode(a))
<1>1. me \in Jobs /\ me.op = "WriteStringToFile" /\ me.pc = "create"
  BY DEF EnvTypeOK, WriteOpen, At, AtItsLabel
<1>2. registry' = registry
  BY DEF WriteOpen
<1>3. PICK a \in Answers(e), f \in Files :
        /\ IF a = "OK"
           THEN /\ tree' = Made(tree, me.path, f)
                /\ data' = [data EXCEPT ![f] = <<>>]
                /\ writes' = [writes EXCEPT ![f] = @ + 1]
                /\ Step(p, opened(f))
           ELSE Step(p, failed(a)) /\ UNCHANGED <<tree, data, writes>>
        /\ Counting(a)
  <2>1. (IF tree[me.path] \in Files THEN {tree[me.path]} ELSE Unused) \subseteq Files
    BY DEF Unused
  <2> QED
    BY <2>1 DEF WriteOpen
<1>4. e \in Errnos
  BY CallsAnswer
<1>5. a \in {e, "EIO"} /\ a \in Errnos \cup {"EIO"} /\ faults' \in Nat /\ faults <= faults'
  <2> HIDE DEF e
  <2> QED
    BY <1>3, <1>4, Answered
<1>6. CASE a # "OK"
  <2>1. /\ failed(a) \in Jobs /\ SameOrder(failed(a), me) /\ AtItsLabel(failed(a))
        /\ failed(a).pc = "done" /\ ~IsOk(failed(a).status)
    BY <1>1, <1>5, <1>6, FailedIs
  <2> HIDE DEF failed
  <2>2. Moves(p) /\ job'[p] = failed(a)
    BY <1>3, <1>5, <1>6, <2>1, MovesBy
  <2> QED
    BY <1>1, <1>2, <1>3, <1>6, <2>1, <2>2
<1>7. CASE a = "OK"
  <2>1. "append" \in Labels /\ f \in Handles
    BY DEF Labels, Handles
  <2>2. opened(f) \in Jobs /\ SameOrder(opened(f), me) /\ opened(f).pc = "append" /\ opened(f).file = f
    BY <1>1, <2>1 DEF Jobs, SameOrder
  <2>3. AtItsLabel(opened(f))
    BY <1>1, <2>2, StaysItsLabel
  <2> HIDE DEF opened
  <2>4. Moves(p) /\ job'[p] = opened(f)
    BY <1>3, <1>5, <1>7, <2>2, <2>3, MovesBy
  <2>5. e = "OK"
    BY <1>5, <1>7
  <2> QED
    BY <1>1, <1>2, <1>3, <1>7, <2>2, <2>4, <2>5
<1> QED
  BY <1>6, <1>7

LEMMA WriteAppendIs ==
  ASSUME EnvTypeOK, NEW p \in Procs, WriteAppend(p), AtItsLabel(job[p])
  PROVE  /\ Moves(p) /\ UNCHANGED <<tree, registry>>
         /\ job[p].op = "WriteStringToFile" /\ job[p].pc = "append"
         /\ job'[p].pc = "close" /\ job'[p].file = job[p].file
         /\ \E n \in 0..job[p].bytes :
              Flushed(job[p].file, p, 0, n) /\ job'[p].pending = n
<1> DEFINE me == job[p]
           l(n, a) == [me EXCEPT !.pc = "close", !.pending = n, !.status = ErrnoToCode(a)]
<1>1. me \in Jobs /\ me.op = "WriteStringToFile" /\ me.pc = "append"
  BY DEF EnvTypeOK, WriteAppend, At, AtItsLabel
<1>2. UNCHANGED <<tree, registry>>
  BY DEF WriteAppend
<1>3. PICK a \in Answers("OK"), n \in 0..me.bytes :
        Flushed(me.file, p, 0, n) /\ Step(p, l(n, a)) /\ Counting(a)
  BY DEF WriteAppend
<1>4. "OK" \in Errnos
  BY DEF Errnos
<1>5. faults' \in Nat /\ faults <= faults' /\ ErrnoToCode(a) \in Codes
  BY <1>3, <1>4, Answered
<1>6. /\ l(n, a) \in Jobs /\ SameOrder(l(n, a), me) /\ l(n, a).pc = "close"
      /\ l(n, a).file = me.file /\ l(n, a).pending = n
  <2>1. "close" \in Labels /\ n \in Nat
    BY <1>1 DEF Labels, Jobs
  <2> QED
    BY <1>1, <1>5, <2>1 DEF Jobs, SameOrder
<1>7. AtItsLabel(l(n, a))
  BY <1>1, <1>6, StaysItsLabel
<1> HIDE DEF l
<1>8. Moves(p) /\ job'[p] = l(n, a)
  BY <1>3, <1>5, <1>6, <1>7, MovesBy
<1> QED
  BY <1>1, <1>2, <1>3, <1>6, <1>8

LEMMA WriteCloseIs ==
  ASSUME EnvTypeOK, NEW p \in Procs, WriteClose(p), AtItsLabel(job[p])
  PROVE  /\ Moves(p) /\ UNCHANGED <<tree, registry>>
         /\ job[p].op = "WriteStringToFile" /\ job[p].pc = "close"
         /\ job'[p].pc = "done"
         /\ \E n \in job[p].pending..job[p].bytes :
              /\ Flushed(job[p].file, p, job[p].pending, n)
              /\ IsOk(job'[p].status) => n = job[p].bytes
<1> DEFINE me == job[p]
           l(a) == Completed(me, Updated(me.status, ErrnoToCode(a)))
<1>1. me \in Jobs /\ me.op = "WriteStringToFile" /\ me.pc = "close" /\ me.status \in Codes
  BY DEF EnvTypeOK, WriteClose, At, AtItsLabel, Jobs
<1>2. UNCHANGED <<tree, registry>>
  BY DEF WriteClose
<1>3. PICK a \in Answers("OK"), n \in me.pending..me.bytes :
        /\ a = "OK" /\ IsOk(me.status) => n = me.bytes
        /\ Flushed(me.file, p, me.pending, n) /\ Step(p, l(a)) /\ Counting(a)
  BY DEF WriteClose
<1>4. "OK" \in Errnos
  BY DEF Errnos
<1>5. faults' \in Nat /\ faults <= faults' /\ ErrnoToCode(a) \in Codes
  BY <1>3, <1>4, Answered
<1>6. Updated(me.status, ErrnoToCode(a)) \in Codes
  BY <1>1, <1>5, CodesAreCodes
<1>7. /\ l(a) \in Jobs /\ SameOrder(l(a), me) /\ AtItsLabel(l(a))
      /\ l(a).pc = "done" /\ l(a).status = Updated(me.status, ErrnoToCode(a))
  BY <1>1, <1>6, CompletedIs
<1> HIDE DEF l
<1>8. Moves(p) /\ job'[p] = l(a)
  BY <1>3, <1>5, <1>7, MovesBy
<1>9. IsOk(l(a).status) => n = me.bytes
  BY <1>3, <1>7, ErrnosAreErrors DEF Updated, IsOk
<1> QED
  BY <1>1, <1>2, <1>3, <1>7, <1>8, <1>9

-----------------------------------------------------------------------------
(* The trees                                                               *)

(* Nothing is under what is not a directory. *)
LEMMA NothingUnder ==
  ASSUME NEW t, IsTree(t), NEW p \in Paths
  PROVE  /\ Walk(t, p) = "OK" <=> p = <<>> \/ t[Front(p)] = Dir
         /\ Find(t, p) = "OK" <=> ~Absent(t, p)
         /\ t[p] \in Files \cup {None, Dir}
<1>1. t[p] \in Files \cup {None, Dir} /\ t[<<>>] = Dir /\ None # Dir
  BY DEF IsTree, None, Dir
<1>2. Walk(t, p) = "OK" <=> p = <<>> \/ t[Front(p)] = Dir
  BY <1>1 DEF Walk
<1>3. Find(t, p) = "OK" <=> ~Absent(t, p)
  <2>1. ~Absent(t, p) => Walk(t, p) = "OK"
    BY <1>2 DEF IsTree
  <2> QED
    BY <2>1 DEF Find
<1> QED
  BY <1>1, <1>2, <1>3

LEMMA MadeIsTree ==
  ASSUME NEW t, IsTree(t), NEW p \in Paths, p # <<>>, t[Front(p)] = Dir,
         NEW w \in Files \cup {Dir}, t[p] = Dir => w = Dir
  PROVE  IsTree(Made(t, p, w))
<1> DEFINE u == Made(t, p, w)
<1>1. u \in [Paths -> Files \cup {None, Dir}] /\ \A q \in Paths : u[q] = IF q = p THEN w ELSE t[q]
  BY DEF Made, IsTree
<1>2. u[<<>>] = Dir
  BY <1>1, PathAssumption DEF IsTree
<1>3. ASSUME NEW q \in Paths, q # <<>>, ~Absent(u, q) PROVE u[Front(q)] = Dir
  <2>1. Front(q) \in Paths
    BY <1>3, PathAssumption
  <2>2. t[Front(q)] = Dir
    BY <1>1, <1>3 DEF Absent, IsTree
  <2> QED
    BY <1>1, <2>1, <2>2
<1> HIDE DEF u
<1> QED
  BY <1>1, <1>2, <1>3 DEF IsTree, u

LEMMA RemovedIsTree ==
  ASSUME NEW t, IsTree(t), NEW p \in Paths, p # <<>>, ChildrenOf(t, p) = {} \/ t[p] # Dir
  PROVE  IsTree(Removed(t, p))
<1> DEFINE u == Removed(t, p)
<1>1. u \in [Paths -> Files \cup {None, Dir}] /\ \A q \in Paths : u[q] = IF q = p THEN None ELSE t[q]
  BY DEF Removed, IsTree
<1>2. u[<<>>] = Dir
  BY <1>1, PathAssumption DEF IsTree
<1>3. ASSUME NEW q \in Paths, q # <<>>, ~Absent(u, q) PROVE u[Front(q)] = Dir
  <2>1. Front(q) \in Paths /\ ~Absent(t, q)
    BY <1>1, <1>3, PathAssumption DEF Absent
  <2>2. t[Front(q)] = Dir
    BY <1>3, <2>1 DEF IsTree
  <2>3. Front(q) # p
    BY <1>3, <2>1, <2>2 DEF ChildrenOf
  <2> QED
    BY <1>1, <2>1, <2>2, <2>3
<1> HIDE DEF u
<1> QED
  BY <1>1, <1>2, <1>3 DEF IsTree, u

LEMMA FrontIsShorter ==
  ASSUME NEW p \in Paths, p # <<>>
  PROVE  Front(p) # p /\ IsPrefix(Front(p), p)
<1>1. p \in Seq(STRING) /\ Front(p) \in Seq(STRING) /\ Len(Front(p)) = Len(p) - 1
  BY PathAssumption, NamesGrow
<1>2. Len(p) \in Nat
  BY <1>1
<1>3. SubSeq(Front(p), 1, Len(Front(p))) = Front(p)
  BY <1>1, SubSeqFull
<1>4. SubSeq(p, 1, Len(Front(p))) = Front(p)
  BY <1>1, <1>2 DEF Front
<1> QED
  BY <1>1, <1>2, <1>3, <1>4 DEF IsPrefix

LEMMA RenamedIsTree ==
  ASSUME NEW t, IsTree(t), NEW p \in Paths, p # <<>>, NEW q \in Paths, q # <<>>,
         rename(t, p, q) = "OK"
  PROVE  IsTree(Renamed(t, p, q))
<1> DEFINE u == Renamed(t, p, q)
<1>1. CASE p = q
  BY <1>1 DEF Renamed
<1>2. CASE p # q
  <2>1. /\ ~Absent(t, p) /\ t[Front(q)] = Dir /\ t[p] \in Files \cup {Dir}
        /\ t[p] = Dir => ChildrenOf(t, p) = {} /\ ~IsPrefix(p, q) /\ t[q] \notin Files
                         /\ (t[q] = Dir => ChildrenOf(t, q) = {})
        /\ t[p] # Dir => t[q] # Dir
    BY <1>2, NothingUnder DEF rename, Absent
  <2>2. /\ u \in [Paths -> Files \cup {None, Dir}]
        /\ \A c \in Paths : u[c] = IF c = q THEN t[p] ELSE IF c = p THEN None ELSE t[c]
    BY <1>2, <2>1 DEF Renamed, IsTree
  <2>3. u[<<>>] = Dir
    BY <2>2, PathAssumption DEF IsTree
  <2>4. ASSUME NEW c \in Paths, c # <<>>, ~Absent(u, c) PROVE u[Front(c)] = Dir
    <3>1. Front(c) \in Paths /\ c # p
      BY <1>2, <2>2, <2>4, PathAssumption DEF Absent
    <3>2. t[Front(c)] = Dir
      BY <2>1, <2>2, <2>4, <3>1 DEF IsTree, Absent
    <3>3. CASE c = q
      <4>1. Front(q) # p
        BY <2>1, <3>2, <3>3, FrontIsShorter
      <4>2. Front(q) # q
        BY FrontIsShorter
      <4> QED
        BY <2>2, <3>1, <3>2, <3>3, <4>1, <4>2
    <3>4. CASE c # q
      <4>1. ~Absent(t, c)
        BY <2>2, <2>4, <3>1, <3>4 DEF Absent
      <4>2. Front(c) # p
        BY <2>1, <2>4, <3>2, <4>1 DEF ChildrenOf
      <4>3. Front(c) = q => t[p] = Dir
        BY <2>1, <3>2
      <4> QED
        BY <2>2, <3>1, <3>2, <4>2, <4>3
    <3> QED
      BY <3>3, <3>4
  <2> HIDE DEF u
  <2> QED
    BY <2>2, <2>3, <2>4 DEF IsTree, u
<1> QED
  BY <1>1, <1>2


LEMMA CallKeepsTree ==
  ASSUME NEW t, IsTree(t), NEW p \in Paths, p # <<>>
  PROVE  /\ mkdir(t, p) = "OK" => IsTree(Made(t, p, Dir))
         /\ rmdir(t, p) = "OK" => IsTree(Removed(t, p))
         /\ unlink(t, p) = "OK" => IsTree(Removed(t, p))
         /\ \A f \in Files : openToWrite(t, p) = "OK" => IsTree(Made(t, p, f))
<1>1. mkdir(t, p) = "OK" => t[Front(p)] = Dir
  BY NothingUnder DEF mkdir
<1>2. rmdir(t, p) = "OK" => ChildrenOf(t, p) = {}
  BY DEF rmdir
<1>3. unlink(t, p) = "OK" => t[p] # Dir
  BY DEF unlink
<1>4. openToWrite(t, p) = "OK" => t[p] # Dir /\ t[Front(p)] = Dir
  BY NothingUnder DEF openToWrite
<1> QED
  BY <1>1, <1>2, <1>3, <1>4, MadeIsTree, RemovedIsTree

-----------------------------------------------------------------------------
(* What every job keeps for itself                                         *)

NonBase == Paths \ {<<>>}

(* DeleteRecursively: the queue and the list begin with the directory.     *)
ListsOK(j) ==
  /\ j.pc \in {"lookup", "exists"} => j.list = <<>> /\ j.files = 0 /\ j.dirs = 0
  /\ j.pc \in {"scan", "child", "stat", "unlink"} => j.queue \in Seq(NonBase)
  /\ j.pc \in {"scan", "child", "stat", "unlink", "rmdir"} =>
       j.list \in Seq(NonBase) /\ (j.list # <<>> => j.list[1] = j.path)
  /\ j.pc = "scan" /\ j.list = <<>> => j.queue = <<j.path>>
  /\ j.pc \in {"child", "stat", "unlink", "rmdir"} => j.list # <<>>
  /\ j.pc \in {"child", "stat", "unlink"} => j.children \subseteq NonBase
  /\ j.pc \in {"stat", "unlink"} => j.child \in NonBase

(* RecursivelyCreateDir: what is left and what was taken off are the name. *)
NameOK(j) ==
  /\ j.pc \in {"lookup", "probe", "make"} => j.left \o j.sub = j.path
  /\ j.pc = "make" => j.sub # <<>>

Basics(j) ==
  /\ AtItsLabel(j)
  /\ j.op # "none" => j.path # <<>>
  /\ j.op = "RenameFile" => j.to # <<>>
  /\ j.scheme = "file" /\ (j.op # "RenameFile" => j.toScheme = "file")
  /\ j.op = "DeleteRecursively" => ListsOK(j)
  /\ j.op = "RecursivelyCreateDir" => NameOK(j)
  /\ j.pc \in {"append", "close"} => j.file \in Files
  /\ j.pc = "close" => j.pending \in 0..j.bytes
  /\ j.pc = "pread" => j.file # None

EnvBasics ==
  /\ EnvTypeOK
  /\ registry["file"] # None
  /\ \A p \in Procs : Basics(job[p])

LEMMA BasicsOfOrder ==
  ASSUME NEW j, NEW k, Basics(j), SameOrder(k, j), AtItsLabel(k),
         k.op = "DeleteRecursively" => ListsOK(k),
         k.op = "RecursivelyCreateDir" => NameOK(k),
         k.op = "WriteStringToFile" =>
           /\ k.pc \in {"append", "close"} => k.file \in Files
           /\ k.pc = "close" => k.pending \in 0..k.bytes,
         k.pc = "pread" => k.file # None
  PROVE  Basics(k)
  BY DEF Basics, SameOrder, AtItsLabel

(* A step of p that keeps the basics; p's own are k.                       *)
Kept(p) ==
  /\ Moves(p) /\ IsTree(tree') /\ registry' = registry
  /\ data' \in [Files -> Seq(Byte)] /\ writes' \in [Files -> Nat]
  /\ Basics(job'[p])

LEMMA KeptIs ==
  ASSUME EnvBasics, NEW p \in Procs, Kept(p)
  PROVE  EnvBasics'
<1>1. EnvTypeOK'
  BY DEF Kept, Moves, EnvTypeOK, EnvBasics
<1>2. (registry["file"] # None)'
  BY DEF Kept, EnvBasics
<1>3. \A q \in Procs : Basics(job'[q])
  BY DEF Kept, Moves, EnvBasics
<1> QED
  BY <1>1, <1>2, <1>3 DEF EnvBasics

LEMMA LookupKeeps ==
  ASSUME EnvBasics, NEW p \in Procs, Lookup(p)
  PROVE  Kept(p)
<1> DEFINE j == job[p]
           k == job'[p]
<1>1. j \in Jobs /\ Basics(j) /\ j.pc = "lookup" /\ EnvTypeOK
  BY DEF EnvBasics, EnvTypeOK, Lookup, At
<1>2. /\ Moves(p) /\ UNCHANGED <<tree, data, writes, registry, faults>>
      /\ k = IF Missing(j) THEN Completed(j, "UNIMPLEMENTED") ELSE [j EXCEPT !.pc = FirstStep(j.op)]
  BY <1>1, LookupIs DEF Basics
<1>3. /\ k.list = j.list /\ k.files = j.files /\ k.dirs = j.dirs
      /\ k.left = j.left /\ k.sub = j.sub
      /\ k.pc \in {"done", FirstStep(j.op)}
  BY <1>1, <1>2 DEF Jobs, Completed
<1>4. FirstStep(j.op) \in {"probe", "exists", "size", "create", "call"}
  BY <1>1 DEF FirstStep, Jobs, Operations
<1> HIDE DEF k
<1>5. SameOrder(k, j) /\ AtItsLabel(k)
  BY <1>2 DEF Moves, k
<1>6. k.op = "DeleteRecursively" => ListsOK(k)
  BY <1>1, <1>3, <1>4, <1>5 DEF Basics, ListsOK, SameOrder
<1>7. k.op = "RecursivelyCreateDir" => NameOK(k)
  BY <1>1, <1>3, <1>4, <1>5 DEF Basics, NameOK, SameOrder
<1>8. Basics(k)
  BY <1>1, <1>3, <1>4, <1>5, <1>6, <1>7, BasicsOfOrder
<1> QED
  BY <1>1, <1>2, <1>8 DEF Kept, EnvTypeOK, k

LEMMA CallOnceKeeps ==
  ASSUME EnvBasics, NEW p \in Procs, CallOnce(p)
  PROVE  Kept(p)
<1> DEFINE j == job[p]
           k == job'[p]
<1>1. j \in Jobs /\ Basics(j) /\ EnvTypeOK /\ IsTree(tree)
  BY DEF EnvBasics, EnvTypeOK
<1>2. j.path \in Paths /\ j.to \in Paths
  BY <1>1 DEF Jobs
<1> HIDE DEF j
<1>3. /\ Moves(p) /\ UNCHANGED <<data, writes, registry>>
      /\ k.pc = "done" /\ j.op \in {"CreateDir", "DeleteDir", "DeleteFile", "RenameFile"}
      /\ \/ tree' = tree
         \/ mkdir(tree, j.path) = "OK" /\ tree' = Made(tree, j.path, Dir)
         \/ rmdir(tree, j.path) = "OK" /\ tree' = Removed(tree, j.path)
         \/ unlink(tree, j.path) = "OK" /\ tree' = Removed(tree, j.path)
         \/ /\ j.op = "RenameFile" /\ rename(tree, j.path, j.to) = "OK"
            /\ tree' = Renamed(tree, j.path, j.to)
  BY <1>1, CallOnceIs DEF Basics, j
<1>4. IsTree(tree')
  <2>1. j.path # <<>> /\ (j.op = "RenameFile" => j.to # <<>>)
    BY <1>1, <1>3 DEF Basics
  <2>2. rename(tree, j.path, j.to) = "OK" /\ j.to # <<>> => IsTree(Renamed(tree, j.path, j.to))
    BY <1>1, <1>2, <2>1, RenamedIsTree
  <2> QED
    BY <1>1, <1>2, <1>3, <2>1, <2>2, CallKeepsTree
<1>5. SameOrder(k, j) /\ AtItsLabel(k)
  BY <1>3 DEF Moves, j
<1> HIDE DEF k
<1>6. Basics(k)
  BY <1>1, <1>3, <1>5, BasicsOfOrder DEF SameOrder
<1> QED
  BY <1>1, <1>3, <1>4, <1>6 DEF Kept, EnvTypeOK, k


LEMMA NameIsCut ==
  ASSUME NEW S, NEW s \in Seq(S), NEW t \in Seq(S)
  PROVE  /\ s # <<>> => Front(s) \o (<<Last(s)>> \o t) = s \o t
         /\ t # <<>> => Append(s, Head(t)) \o Tail(t) = s \o t
<1>1. ASSUME s # <<>> PROVE Front(s) \o (<<Last(s)>> \o t) = s \o t
  <2>1. Front(s) \in Seq(S) /\ Last(s) \in S /\ s = Append(Front(s), Last(s))
    BY <1>1, FrontIs
  <2>2. s = Front(s) \o <<Last(s)>> /\ <<Last(s)>> \in Seq(S)
    BY <2>1, AppendIsConcat
  <2>3. (Front(s) \o <<Last(s)>>) \o t = Front(s) \o (<<Last(s)>> \o t)
    BY <2>1, <2>2, ConcatAssociative
  <2> QED
    BY <2>2, <2>3
<1>2. ASSUME t # <<>> PROVE Append(s, Head(t)) \o Tail(t) = s \o t
  <2>1. Head(t) \in S /\ Tail(t) \in Seq(S) /\ <<Head(t)>> \in Seq(S)
    BY <1>2, HeadTailProperties
  <2>2. t = <<Head(t)>> \o Tail(t)
    <3>1. Len(t) \in Nat \ {0}
      BY <1>2, EmptySeq
    <3>2. SubSeq(t, 1, Len(t)) = t /\ Tail(t) = SubSeq(t, 2, Len(t))
      BY <1>2, SubSeqFull, TailIsSubSeq
    <3>3. SubSeq(t, 1, Len(t)) = <<t[1]>> \o SubSeq(t, 1 + 1, Len(t))
      <4>1. 1 \in 1..Len(t) /\ Len(t) \in 1..Len(t)
        BY <3>1
      <4> QED
        BY <4>1, SubSeqRecursiveFirst
    <3>4. Head(t) = t[1]
      BY <1>2
    <3> QED
      BY <3>2, <3>3, <3>4
  <2>3. Append(s, Head(t)) = s \o <<Head(t)>>
    BY <2>1, AppendIsConcat
  <2>4. (s \o <<Head(t)>>) \o Tail(t) = s \o (<<Head(t)>> \o Tail(t))
    BY <2>1, ConcatAssociative
  <2> QED
    BY <2>2, <2>3, <2>4
<1> QED
  BY <1>1, <1>2

LEMMA CreateProbeKeeps ==
  ASSUME EnvBasics, NEW p \in Procs, CreateProbe(p)
  PROVE  Kept(p)
<1> DEFINE j == job[p]
           k == job'[p]
<1>1. j \in Jobs /\ Basics(j) /\ EnvTypeOK
  BY DEF EnvBasics, EnvTypeOK
<1>2. /\ Moves(p) /\ UNCHANGED <<tree, data, writes, registry>>
      /\ j.op = "RecursivelyCreateDir" /\ j.pc = "probe"
      /\ \/ /\ j.left # <<>>
            /\ k = [j EXCEPT !.left = Front(@), !.sub = Reversed(@, Last(j.left))]
         \/ k = Completed(j, OK)
         \/ j.sub # <<>> /\ k = [j EXCEPT !.pc = "make"]
  BY <1>1, CreateProbeIs DEF Basics
<1>3. NameOK(k)
  <2>1. j.left \in Seq(STRING) /\ j.sub \in Seq(STRING) /\ j.left \o j.sub = j.path
    BY <1>1, <1>2 DEF Jobs, Basics, NameOK
  <2>2. CASE j.left # <<>> /\ k = [j EXCEPT !.left = Front(@), !.sub = Reversed(@, Last(j.left))]
    <3>1. /\ k.left = Front(j.left) /\ k.sub = <<Last(j.left)>> \o j.sub /\ k.path = j.path
          /\ k.pc = "probe"
      BY <1>1, <1>2, <2>2 DEF Jobs, Reversed
    <3>2. Front(j.left) \o (<<Last(j.left)>> \o j.sub) = j.left \o j.sub
      <4> HIDE DEF k, j
      <4> QED
        BY <2>1, <2>2, NameIsCut
    <3> QED
      BY <2>1, <3>1, <3>2 DEF NameOK
  <2>3. CASE k = Completed(j, OK)
    <3>1. k.pc = "done"
      BY <1>1, <2>3 DEF Completed, Jobs
    <3> QED
      BY <3>1 DEF NameOK
  <2>4. CASE j.sub # <<>> /\ k = [j EXCEPT !.pc = "make"]
    <3>1. k.left = j.left /\ k.sub = j.sub /\ k.path = j.path
      BY <1>1, <2>4 DEF Jobs
    <3> QED
      BY <2>1, <2>4, <3>1 DEF NameOK
  <2> QED
    BY <1>2, <2>2, <2>3, <2>4
<1> HIDE DEF k
<1>4. SameOrder(k, j) /\ AtItsLabel(k)
  BY <1>2 DEF Moves, k
<1>5. Basics(k)
  BY <1>1, <1>2, <1>3, <1>4, BasicsOfOrder DEF SameOrder, AtItsLabel
<1> QED
  BY <1>1, <1>2, <1>5 DEF Kept, EnvTypeOK, k

LEMMA CreateNextKeeps ==
  ASSUME EnvBasics, NEW p \in Procs, CreateNext(p)
  PROVE  Kept(p)
<1> DEFINE j == job[p]
           k == job'[p]
           built == Append(j.left, Head(j.sub))
<1>1. j \in Jobs /\ Basics(j) /\ EnvTypeOK /\ j.pc = "make"
  BY DEF EnvBasics, EnvTypeOK, CreateNext, At
<1>2. /\ j.left \in Seq(STRING) /\ j.sub \in Seq(STRING) /\ j.left \o j.sub = j.path
      /\ j.sub # <<>>
  BY <1>1 DEF Jobs, Basics, NameOK, AtItsLabel
<1> HIDE DEF built
<1>3. /\ Moves(p) /\ UNCHANGED <<data, writes, registry>>
      /\ j.op = "RecursivelyCreateDir" /\ k.left = built /\ k.sub = Tail(j.sub)
      /\ \/ /\ built \in Paths /\ mkdir(tree, built) = "OK" /\ tree' = Made(tree, built, Dir)
            /\ k.pc = IF Tail(j.sub) = <<>> THEN "done" ELSE "make"
         \/ tree' = tree /\ k.pc = "done"
  BY <1>1, <1>2, CreateNextIs DEF Basics, built
<1>4. IsTree(tree')
  <2>1. built # <<>>
    <3>1. Head(j.sub) \in STRING
      BY <1>2, HeadTailProperties
    <3> QED
      BY <1>2, <3>1, AppendProperties DEF built
  <2> QED
    BY <1>1, <1>3, <2>1, CallKeepsTree DEF EnvTypeOK
<1>5. SameOrder(k, j) /\ AtItsLabel(k)
  BY <1>3 DEF Moves
<1>6. NameOK(k)
  <2>1. built \o Tail(j.sub) = j.left \o j.sub
    <3> HIDE DEF j
    <3> QED
      BY <1>2, NameIsCut DEF built
  <2>2. k.path = j.path
    BY <1>5 DEF SameOrder
  <2> QED
    BY <1>2, <1>3, <2>1, <2>2 DEF NameOK
<1> HIDE DEF k
<1>7. Basics(k)
  BY <1>1, <1>3, <1>5, <1>6, BasicsOfOrder DEF SameOrder, AtItsLabel
<1> QED
  BY <1>1, <1>3, <1>4, <1>7 DEF Kept, EnvTypeOK, k

LEMMA DeleteProbeKeeps ==
  ASSUME EnvBasics, NEW p \in Procs, DeleteProbe(p)
  PROVE  Kept(p)
<1> DEFINE j == job[p]
           k == job'[p]
<1>1. j \in Jobs /\ Basics(j) /\ EnvTypeOK /\ j.pc = "exists"
  BY DEF EnvBasics, EnvTypeOK, DeleteProbe, At
<1>2. /\ Moves(p) /\ UNCHANGED <<tree, data, writes, registry>>
      /\ j.op = "DeleteRecursively"
      /\ \/ k = [j EXCEPT !.pc = "scan", !.queue = <<j.path>>]
         \/ k.pc = "done"
  BY <1>1, DeleteProbeIs DEF Basics
<1>3. SameOrder(k, j) /\ AtItsLabel(k)
  BY <1>2 DEF Moves
<1>4. ListsOK(k)
  <2>1. CASE k = [j EXCEPT !.pc = "scan", !.queue = <<j.path>>]
    <3>1. k.pc = "scan" /\ k.queue = <<j.path>> /\ k.list = j.list /\ k.path = j.path
      BY <1>1, <2>1 DEF Jobs
    <3>2. j.path \in NonBase /\ j.list = <<>>
      BY <1>1, <1>2 DEF Jobs, Basics, ListsOK, NonBase
    <3> HIDE DEF k
    <3> QED
      BY <3>1, <3>2 DEF ListsOK
  <2>2. CASE k.pc = "done"
    BY <2>2 DEF ListsOK
  <2> QED
    BY <1>2, <2>1, <2>2
<1> HIDE DEF k
<1>5. Basics(k)
  BY <1>1, <1>2, <1>3, <1>4, BasicsOfOrder DEF SameOrder, AtItsLabel
<1> QED
  BY <1>1, <1>2, <1>5 DEF Kept, EnvTypeOK, k

LEMMA DeleteScanKeeps ==
  ASSUME EnvBasics, NEW p \in Procs, DeleteScan(p)
  PROVE  Kept(p)
<1> DEFINE j == job[p]
           k == job'[p]
<1>1. j \in Jobs /\ Basics(j) /\ EnvTypeOK /\ j.pc = "scan"
  BY DEF EnvBasics, EnvTypeOK, DeleteScan, At
<1>2. /\ Moves(p) /\ UNCHANGED <<tree, data, writes, registry>>
      /\ j.op = "DeleteRecursively"
      /\ \/ j.queue = <<>> /\ k = [j EXCEPT !.pc = "rmdir"]
         \/ /\ j.queue # <<>> /\ k.queue = Tail(j.queue) /\ k.list = Append(j.list, Head(j.queue))
            /\ \/ k.pc = "child" /\ k.children = ChildrenOf(tree, Head(j.queue))
               \/ k.pc = "scan"
  BY <1>1, DeleteScanIs DEF Basics
<1>3. SameOrder(k, j) /\ AtItsLabel(k)
  BY <1>2 DEF Moves
<1>4. /\ j.queue \in Seq(NonBase) /\ j.list \in Seq(NonBase) /\ (j.list # <<>> => j.list[1] = j.path)
      /\ (j.list = <<>> => j.queue = <<j.path>>)
  BY <1>1, <1>2 DEF Basics, ListsOK
<1>5. k.path = j.path
  BY <1>3 DEF SameOrder
<1>6. ListsOK(k)
  <2>1. CASE j.queue = <<>> /\ k = [j EXCEPT !.pc = "rmdir"]
    <3>1. k.pc = "rmdir" /\ k.list = j.list
      BY <1>1, <2>1 DEF Jobs
    <3>2. j.list # <<>>
      <4>1. <<j.path>> # <<>>
        OBVIOUS
      <4> QED
        BY <1>4, <2>1, <4>1
    <3> HIDE DEF k
    <3> QED
      BY <1>4, <1>5, <3>1, <3>2 DEF ListsOK
  <2>2. CASE j.queue # <<>> /\ k.queue = Tail(j.queue) /\ k.list = Append(j.list, Head(j.queue))
    <3>1. Head(j.queue) \in NonBase /\ Tail(j.queue) \in Seq(NonBase)
      BY <1>4, <2>2, HeadTailProperties
    <3>2. k.list \in Seq(NonBase) /\ k.list # <<>>
      BY <1>4, <2>2, <3>1, AppendProperties
    <3>3. k.list[1] = j.path
      <4>1. CASE j.list = <<>>
        <5>1. Head(j.queue) = j.path
          BY <1>4, <4>1
        <5> QED
          BY <2>2, <4>1, <5>1
      <4>2. CASE j.list # <<>>
        <5>1. 1 \in 1..Len(j.list)
          BY <1>4, <4>2
        <5> QED
          BY <1>4, <2>2, <3>1, <4>2, <5>1, AppendProperties
      <4> QED
        BY <4>1, <4>2
    <3>4. ChildrenOf(tree, Head(j.queue)) \subseteq NonBase
      BY DEF ChildrenOf, NonBase
    <3>5. k.pc = "scan" \/ (k.pc = "child" /\ k.children = ChildrenOf(tree, Head(j.queue)))
      BY <1>2, <2>2
    <3> HIDE DEF k
    <3> QED
      BY <1>5, <2>2, <3>1, <3>2, <3>3, <3>4, <3>5 DEF ListsOK
  <2> QED
    BY <1>2, <2>1, <2>2
<1> HIDE DEF k
<1>7. Basics(k)
  BY <1>1, <1>2, <1>3, <1>6, BasicsOfOrder DEF SameOrder, AtItsLabel
<1> QED
  BY <1>1, <1>2, <1>7 DEF Kept, EnvTypeOK, k


LEMMA DeleteChildKeeps ==
  ASSUME EnvBasics, NEW p \in Procs, DeleteChild(p)
  PROVE  Kept(p)
<1> DEFINE j == job[p]
           k == job'[p]
<1>1. j \in Jobs /\ Basics(j) /\ EnvTypeOK /\ j.pc = "child"
  BY DEF EnvBasics, EnvTypeOK, DeleteChild, At
<1>2. /\ Moves(p) /\ UNCHANGED <<tree, data, writes, registry>>
      /\ j.op = "DeleteRecursively" /\ k.queue = j.queue /\ k.list = j.list
      /\ \/ k.pc = "scan"
         \/ \E c \in j.children :
              /\ k.children = j.children \ {c} /\ k.child = c /\ k.pc \in {"stat", "unlink"}
  <2>1. AtItsLabel(j)
    BY <1>1 DEF Basics
  <2> QED
    BY <1>1, <2>1, DeleteChildIs
<1>3. SameOrder(k, j) /\ AtItsLabel(k)
  BY <1>2 DEF Moves
<1> HIDE DEF k
<1>4. ListsOK(k)
  BY <1>1, <1>2, <1>3 DEF Basics, ListsOK, SameOrder
<1>5. Basics(k)
  BY <1>1, <1>2, <1>3, <1>4, BasicsOfOrder DEF SameOrder, AtItsLabel
<1> QED
  BY <1>1, <1>2, <1>5 DEF Kept, EnvTypeOK, k

LEMMA DeleteChildStatKeeps ==
  ASSUME EnvBasics, NEW p \in Procs, DeleteChildStat(p)
  PROVE  Kept(p)
<1> DEFINE j == job[p]
           k == job'[p]
<1>1. j \in Jobs /\ Basics(j) /\ EnvTypeOK /\ j.pc = "stat"
  BY DEF EnvBasics, EnvTypeOK, DeleteChildStat, At
<1>2. /\ Moves(p) /\ UNCHANGED <<tree, data, writes, registry>>
      /\ j.op = "DeleteRecursively" /\ k.list = j.list /\ k.children = j.children
      /\ k.child = j.child
      /\ \/ k.queue = Append(j.queue, j.child) /\ k.pc = "child"
         \/ k.queue = j.queue /\ k.pc = "unlink"
  BY <1>1, DeleteChildStatIs DEF Basics
<1>3. SameOrder(k, j) /\ AtItsLabel(k)
  BY <1>2 DEF Moves
<1> HIDE DEF k
<1>4. ListsOK(k)
  <2>1. j.queue \in Seq(NonBase) /\ j.child \in NonBase
    BY <1>1, <1>2 DEF Basics, ListsOK
  <2>2. Append(j.queue, j.child) \in Seq(NonBase)
    BY <2>1, AppendProperties
  <2>3. k.queue \in Seq(NonBase)
    BY <1>2, <2>1, <2>2
  <2> QED
    BY <1>1, <1>2, <1>3, <2>3 DEF Basics, ListsOK, SameOrder
<1>5. Basics(k)
  BY <1>1, <1>2, <1>3, <1>4, BasicsOfOrder DEF SameOrder, AtItsLabel
<1> QED
  BY <1>1, <1>2, <1>5 DEF Kept, EnvTypeOK, k

LEMMA DeleteChildUnlinkKeeps ==
  ASSUME EnvBasics, NEW p \in Procs, DeleteChildUnlink(p)
  PROVE  Kept(p)
<1> DEFINE j == job[p]
           k == job'[p]
<1>1. j \in Jobs /\ Basics(j) /\ EnvTypeOK /\ j.pc = "unlink"
  BY DEF EnvBasics, EnvTypeOK, DeleteChildUnlink, At
<1>2. /\ Moves(p) /\ UNCHANGED <<data, writes, registry>>
      /\ j.op = "DeleteRecursively" /\ k.pc = "child" /\ k.list = j.list /\ k.queue = j.queue
      /\ k.children = j.children
      /\ \/ unlink(tree, j.child) = "OK" /\ tree' = Removed(tree, j.child)
         \/ tree' = tree
  BY <1>1, DeleteChildUnlinkIs DEF Basics
<1>3. SameOrder(k, j) /\ AtItsLabel(k)
  BY <1>2 DEF Moves
<1>4. IsTree(tree')
  <2>1. j.child \in Paths /\ j.child # <<>>
    BY <1>1, <1>2 DEF Basics, ListsOK, NonBase
  <2>2. IsTree(tree)
    BY <1>1 DEF EnvTypeOK
  <2> HIDE DEF j
  <2> QED
    BY <1>2, <2>1, <2>2, CallKeepsTree
<1> HIDE DEF k
<1>5. ListsOK(k)
  BY <1>1, <1>2, <1>3 DEF Basics, ListsOK, SameOrder
<1>6. Basics(k)
  BY <1>1, <1>2, <1>3, <1>5, BasicsOfOrder DEF SameOrder, AtItsLabel
<1> QED
  BY <1>1, <1>2, <1>4, <1>6 DEF Kept, EnvTypeOK, k

LEMMA DeleteDirsKeeps ==
  ASSUME EnvBasics, NEW p \in Procs, DeleteDirs(p)
  PROVE  Kept(p)
<1> DEFINE j == job[p]
           k == job'[p]
           dir == Last(j.list)
<1>1. j \in Jobs /\ Basics(j) /\ EnvTypeOK /\ j.pc = "rmdir"
  BY DEF EnvBasics, EnvTypeOK, DeleteDirs, At
<1>2. j.list \in Seq(NonBase) /\ j.list # <<>> /\ j.list[1] = j.path
  BY <1>1 DEF Basics, ListsOK, AtItsLabel
<1>3. /\ Moves(p) /\ UNCHANGED <<data, writes, registry>>
      /\ j.op = "DeleteRecursively" /\ k.list = Front(j.list)
      /\ k.pc = (IF Front(j.list) = <<>> THEN "done" ELSE "rmdir")
      /\ \/ rmdir(tree, dir) = "OK" /\ tree' = Removed(tree, dir)
         \/ tree' = tree
  BY <1>1, <1>2, DeleteDirsIs DEF Basics
<1>4. SameOrder(k, j) /\ AtItsLabel(k)
  BY <1>3 DEF Moves
<1>5. Front(j.list) \in Seq(NonBase) /\ dir \in NonBase
  BY <1>2, FrontIs
<1>6. IsTree(tree')
  <2>1. dir \in Paths /\ dir # <<>> /\ IsTree(tree)
    BY <1>1, <1>5 DEF NonBase, EnvTypeOK
  <2> HIDE DEF dir
  <2> QED
    BY <1>3, <2>1, CallKeepsTree
<1> HIDE DEF k
<1>7. ListsOK(k)
  <2>1. CASE k.pc = "done"
    BY <2>1 DEF ListsOK
  <2>2. CASE k.pc = "rmdir" /\ Front(j.list) # <<>>
    <3>1. Front(j.list)[1] = j.list[1]
      <4>1. /\ Len(j.list) \in Nat /\ Len(Front(j.list)) \in Nat /\ Len(Front(j.list)) # 0
            /\ Len(Front(j.list)) = Len(j.list) - 1
        BY <1>2, <1>5, <2>2, FrontIs, EmptySeq
      <4> QED
        BY <1>2, <4>1 DEF Front
    <3> QED
      BY <1>2, <1>3, <1>4, <1>5, <2>2, <3>1 DEF ListsOK, SameOrder
  <2> QED
    BY <1>3, <2>1, <2>2
<1>8. Basics(k)
  BY <1>1, <1>3, <1>4, <1>7, BasicsOfOrder DEF SameOrder, AtItsLabel
<1> QED
  BY <1>1, <1>3, <1>6, <1>8 DEF Kept, EnvTypeOK, k

LEMMA ReadKeeps ==
  ASSUME EnvBasics, NEW p \in Procs, ReadSize(p) \/ ReadOpen(p) \/ ReadPread(p)
  PROVE  Kept(p)
<1> DEFINE j == job[p]
           k == job'[p]
<1>1. Basics(j) /\ AtItsLabel(j) /\ EnvTypeOK
  BY DEF EnvBasics, Basics
<1>2. /\ Moves(p) /\ UNCHANGED <<tree, data, writes, registry>>
      /\ j.op = "ReadFileToString" /\ (k.pc = "pread" => k.file # None)
  <2>1. CASE ReadSize(p)
    <3>1. k.pc # "pread"
      BY <1>1, <2>1, ReadSizeIs
    <3> QED
      BY <1>1, <2>1, <3>1, ReadSizeIs
  <2>2. CASE ReadOpen(p)
    <3>1. k.pc = "pread" => k.file \in Files \cup {Dir}
      BY <1>1, <2>2, ReadOpenIs
    <3>2. None \notin Files \cup {Dir}
      BY FileAssumption DEF None, Dir
    <3> QED
      BY <1>1, <2>2, <3>1, <3>2, ReadOpenIs
  <2>3. CASE ReadPread(p)
    <3>1. j.file # None
      BY <1>1, <2>3 DEF Basics, ReadPread, At
    <3> DEFINE sofar == Len(j.got)
    <3>2. /\ Moves(p) /\ UNCHANGED <<tree, data, writes, registry>>
          /\ j.op = "ReadFileToString" /\ (k.pc = "pread" => k.file = j.file)
      BY <1>1, <2>3, <3>1, ReadPreadIs
    <3> QED
      BY <3>1, <3>2
  <2> QED
    BY <2>1, <2>2, <2>3
<1>3. SameOrder(k, j) /\ AtItsLabel(k)
  BY <1>2 DEF Moves
<1> HIDE DEF k
<1>4. Basics(k)
  BY <1>1, <1>2, <1>3, BasicsOfOrder DEF SameOrder, AtItsLabel
<1> QED
  BY <1>1, <1>2, <1>4 DEF Kept, EnvTypeOK, k

-----------------------------------------------------------------------------
(* The bytes of files                                                      *)

(* A write between from and to; one at the end of what is there adds.      *)
LEMMA BytesAre ==
  ASSUME NEW p \in Procs, NEW low \in Nat, NEW high \in Nat, low <= high
  PROVE  /\ BytesOf(p, low + 1, high) \in Seq(Byte) /\ Len(BytesOf(p, low + 1, high)) = high - low
         /\ \A i \in 1..(high - low) : BytesOf(p, low + 1, high)[i] = <<p, low + i>>
<1> DEFINE n == high - low
           b == [i \in 1..n |-> <<p, low + i>>]
<1>1. n \in Nat /\ (high - (low + 1) + 1) = n /\ \A i \in 1..n : low + 1 + i - 1 = low + i
  OBVIOUS
<1>2. BytesOf(p, low + 1, high) = b
  BY <1>1 DEF BytesOf
<1>3. \A i \in 1..n : <<p, low + i>> \in Byte
  BY <1>1 DEF Byte
<1>4. b \in Seq(Byte) /\ Len(b) = n
  BY <1>1, <1>3
<1> QED
  BY <1>1, <1>2, <1>4

LEMMA WrittenIs ==
  ASSUME NEW c \in Seq(Byte), NEW offset \in Nat, NEW b \in Seq(Byte)
  PROVE  /\ Written(c, offset, b) \in Seq(Byte)
         /\ Len(c) <= offset + Len(b) => Len(Written(c, offset, b)) = offset + Len(b)
         /\ \A i \in 1..Len(Written(c, offset, b)) :
              Written(c, offset, b)[i] = IF i \in (offset + 1)..(offset + Len(b)) THEN b[i - offset]
                                         ELSE IF i <= Len(c) THEN c[i] ELSE <<"hole", 0>>
<1> DEFINE end == offset + Len(b)
           n == IF end > Len(c) THEN end ELSE Len(c)
           v(i) == IF i \in (offset + 1)..end THEN b[i - offset]
                   ELSE IF i <= Len(c) THEN c[i] ELSE <<"hole", 0>>
           w == [i \in 1..n |-> v(i)]
<1>1. Len(c) \in Nat /\ Len(b) \in Nat /\ end \in Nat /\ n \in Nat
  OBVIOUS
<1>2. ASSUME NEW i \in 1..n PROVE v(i) \in Byte
  <2>1. <<"hole", 0>> \in Byte
    BY DEF Byte
  <2>2. i \in (offset + 1)..end => b[i - offset] \in Byte
    BY <1>1, ElementOfSeq
  <2>3. i <= Len(c) => c[i] \in Byte
    BY <1>1, ElementOfSeq
  <2> QED
    BY <2>1, <2>2, <2>3
<1>3. Written(c, offset, b) = w
  BY DEF Written
<1> HIDE DEF v
<1>4. w \in Seq(Byte) /\ Len(w) = n /\ \A i \in 1..n : w[i] = v(i)
  BY <1>1, <1>2
<1> HIDE DEF w
<1> QED
  BY <1>1, <1>3, <1>4, SMTT(30) DEF v

(* A file that was not written is as it was.                               *)
Grows ==
  \A f \in Files : writes[f] <= writes'[f] /\ (writes'[f] = writes[f] => data'[f] = data[f])

LEMMA FirstBytesAre ==
  ASSUME NEW p \in Procs, NEW n \in Nat
  PROVE  /\ BytesOf(p, 1, n) \in Seq(Byte) /\ Len(BytesOf(p, 1, n)) = n
         /\ \A i \in 1..n : BytesOf(p, 1, n)[i] = <<p, i>>
<1> DEFINE b == [i \in 1..n |-> <<p, i>>]
<1>1. n - 1 + 1 = n /\ \A i \in 1..n : 1 + i - 1 = i
  OBVIOUS
<1>2. BytesOf(p, 1, n) = b
  BY <1>1 DEF BytesOf
<1>3. \A i \in 1..n : <<p, i>> \in Byte
  BY DEF Byte
<1>4. b \in Seq(Byte) /\ Len(b) = n
  BY <1>3
<1> QED
  BY <1>2, <1>4

LEMMA FlushedIs ==
  ASSUME EnvTypeOK, NEW f \in Files, NEW p \in Procs, NEW from \in Nat, NEW to \in Nat, from <= to,
         Flushed(f, p, from, to)
  PROVE  /\ data' \in [Files -> Seq(Byte)] /\ writes' \in [Files -> Nat]
         /\ Grows
         /\ data[f] = BytesOf(p, 1, from) => data'[f] = BytesOf(p, 1, to)
         /\ \A g \in Files \ {f} : data'[g] = data[g]
<1>1. CASE from = to
  BY <1>1 DEF Flushed, EnvTypeOK, Grows
<1>2. CASE from # to
  <2> DEFINE b == BytesOf(p, from + 1, to)
             w == Written(data[f], from, b)
  <2>1. data' = [data EXCEPT ![f] = w] /\ writes' = [writes EXCEPT ![f] = @ + 1]
    BY <1>2 DEF Flushed
  <2>2. data[f] \in Seq(Byte) /\ b \in Seq(Byte) /\ Len(b) = to - from
        /\ \A i \in 1..(to - from) : b[i] = <<p, from + i>>
    BY BytesAre DEF EnvTypeOK
  <2> HIDE DEF b
  <2>3. /\ w \in Seq(Byte)
        /\ Len(data[f]) <= from + Len(b) => Len(w) = from + Len(b)
        /\ \A i \in 1..Len(w) :
             w[i] = IF i \in (from + 1)..(from + Len(b)) THEN b[i - from]
                    ELSE IF i <= Len(data[f]) THEN data[f][i] ELSE <<"hole", 0>>
    BY <2>2, WrittenIs
  <2> HIDE DEF w
  <2>4. data' \in [Files -> Seq(Byte)] /\ writes' \in [Files -> Nat] /\ Grows
        /\ data'[f] = w /\ \A g \in Files \ {f} : data'[g] = data[g]
    BY <2>1, <2>3 DEF EnvTypeOK, Grows
  <2>5. ASSUME data[f] = BytesOf(p, 1, from) PROVE w = BytesOf(p, 1, to)
    <3>1. /\ BytesOf(p, 1, from) \in Seq(Byte) /\ Len(BytesOf(p, 1, from)) = from
          /\ \A i \in 1..from : BytesOf(p, 1, from)[i] = <<p, i>>
      BY FirstBytesAre
    <3>2. /\ BytesOf(p, 1, to) \in Seq(Byte) /\ Len(BytesOf(p, 1, to)) = to
          /\ \A i \in 1..to : BytesOf(p, 1, to)[i] = <<p, i>>
      BY FirstBytesAre
    <3>3. Len(w) = to
      BY <2>2, <2>3, <2>5, <3>1
    <3>4. ASSUME NEW i \in 1..to PROVE w[i] = BytesOf(p, 1, to)[i]
      <4>1. CASE i <= from
        <5>1. w[i] = data[f][i]
          BY <2>3, <2>5, <3>1, <3>3, <4>1
        <5>2. i \in 1..from
          BY <4>1
        <5> QED
          BY <2>5, <3>1, <3>2, <5>1, <5>2
      <4>2. CASE from < i
        <5>1. i - from \in 1..(to - from) /\ from + (i - from) = i
          BY <4>2
        <5>2. w[i] = b[i - from]
          BY <2>2, <2>3, <3>3, <4>2
        <5> QED
          BY <2>2, <3>2, <5>1, <5>2
      <4> QED
        BY <4>1, <4>2
    <3> QED
      BY <2>3, <3>2, <3>3, <3>4, SeqEqual
  <2> QED
    BY <2>4, <2>5
<1> QED
  BY <1>1, <1>2

(* A writer's step, besides: it writes only its own file. *)
LEMMA WriteOpenKeeps ==
  ASSUME EnvBasics, NEW p \in Procs, WriteOpen(p)
  PROVE  /\ Kept(p) /\ Grows
         /\ job'[p].pc = "append" => data'[job'[p].file] = <<>>
<1> DEFINE j == job[p]
           k == job'[p]
<1>1. j \in Jobs /\ Basics(j) /\ AtItsLabel(j) /\ EnvTypeOK
  BY DEF EnvBasics, EnvTypeOK, Basics
<1>2. /\ Moves(p) /\ registry' = registry
      /\ j.op = "WriteStringToFile"
      /\ \/ UNCHANGED <<tree, data, writes>> /\ k.pc = "done"
         \/ \E f \in Files :
              /\ openToWrite(tree, j.path) = "OK" /\ tree' = Made(tree, j.path, f)
              /\ data' = [data EXCEPT ![f] = <<>>] /\ writes' = [writes EXCEPT ![f] = @ + 1]
              /\ k.pc = "append" /\ k.file = f
  BY <1>1, WriteOpenIs
<1>3. SameOrder(k, j) /\ AtItsLabel(k)
  BY <1>2 DEF Moves
<1>4. j.path \in Paths /\ j.path # <<>> /\ IsTree(tree)
  BY <1>1, <1>2 DEF Jobs, Basics, EnvTypeOK
<1> HIDE DEF j, k
<1>5. /\ IsTree(tree') /\ data' \in [Files -> Seq(Byte)] /\ writes' \in [Files -> Nat] /\ Grows
      /\ k.pc \in {"done", "append"}
      /\ k.pc = "append" => k.file \in Files /\ data'[k.file] = <<>>
  <2>1. CASE UNCHANGED <<tree, data, writes>> /\ k.pc = "done"
    BY <1>1, <1>4, <2>1 DEF EnvTypeOK, Grows
  <2>2. ASSUME NEW f \in Files,
               openToWrite(tree, j.path) = "OK", tree' = Made(tree, j.path, f),
               data' = [data EXCEPT ![f] = <<>>], writes' = [writes EXCEPT ![f] = @ + 1],
               k.pc = "append", k.file = f
        PROVE  <1>5
    <3>1. IsTree(tree')
      BY <1>4, <2>2, CallKeepsTree
    <3>2. <<>> \in Seq(Byte)
      OBVIOUS
    <3>3. data' \in [Files -> Seq(Byte)] /\ writes' \in [Files -> Nat] /\ Grows /\ data'[f] = <<>>
      BY <1>1, <2>2, <3>2 DEF EnvTypeOK, Grows
    <3> QED
      BY <2>2, <3>1, <3>3
  <2> QED
    BY <1>2, <2>1, <2>2
<1>6. Basics(k)
  BY <1>1, <1>2, <1>3, <1>5, BasicsOfOrder DEF SameOrder, AtItsLabel
<1> QED
  BY <1>2, <1>5, <1>6 DEF Kept, k

LEMMA WriteAppendKeeps ==
  ASSUME EnvBasics, NEW p \in Procs, WriteAppend(p)
  PROVE  /\ Kept(p) /\ Grows /\ job[p].pc = "append" /\ job'[p].pc = "close" /\ job'[p].file = job[p].file
         /\ job[p].file \in Files
         /\ data[job[p].file] = <<>> => data'[job[p].file] = BytesOf(p, 1, job'[p].pending)
<1> DEFINE j == job[p]
           k == job'[p]
<1>1. j \in Jobs /\ Basics(j) /\ AtItsLabel(j) /\ EnvTypeOK
  BY DEF EnvBasics, EnvTypeOK, Basics
<1>2. /\ Moves(p) /\ UNCHANGED <<tree, registry>>
      /\ j.op = "WriteStringToFile" /\ j.pc = "append"
      /\ k.pc = "close" /\ k.file = j.file
      /\ \E n \in 0..j.bytes : Flushed(j.file, p, 0, n) /\ k.pending = n
  BY <1>1, WriteAppendIs
<1>3. SameOrder(k, j) /\ AtItsLabel(k)
  BY <1>2 DEF Moves
<1>4. j.file \in Files /\ j.bytes \in Nat
  BY <1>1, <1>2 DEF Jobs, Basics
<1> HIDE DEF j, k
<1>5. PICK n \in 0..j.bytes : Flushed(j.file, p, 0, n) /\ k.pending = n
  BY <1>2
<1>6. /\ data' \in [Files -> Seq(Byte)] /\ writes' \in [Files -> Nat] /\ Grows
      /\ data[j.file] = BytesOf(p, 1, 0) => data'[j.file] = BytesOf(p, 1, n)
  <2>1. PICK f : f = j.file
    OBVIOUS
  <2>2. f \in Files /\ Flushed(f, p, 0, n) /\ 0 \in Nat /\ n \in Nat /\ 0 <= n /\ EnvTypeOK
    BY <1>1, <1>4, <1>5, <2>1
  <2> HIDE DEF j
  <2>3. /\ data' \in [Files -> Seq(Byte)] /\ writes' \in [Files -> Nat] /\ Grows
        /\ data[f] = BytesOf(p, 1, 0) => data'[f] = BytesOf(p, 1, n)
    BY <2>2, FlushedIs
  <2> QED
    BY <2>1, <2>3
<1>7. BytesOf(p, 1, 0) = <<>>
  <2>1. BytesOf(p, 1, 0) \in Seq(Byte) /\ Len(BytesOf(p, 1, 0)) = 0
    BY FirstBytesAre
  <2> QED
    BY <2>1, EmptySeq
<1>8. Basics(k)
  BY <1>1, <1>2, <1>3, <1>4, <1>5, BasicsOfOrder DEF SameOrder, AtItsLabel
<1> QED
  BY <1>1, <1>2, <1>4, <1>5, <1>6, <1>7, <1>8 DEF Kept, EnvTypeOK, j, k

LEMMA WriteCloseKeeps ==
  ASSUME EnvBasics, NEW p \in Procs, WriteClose(p)
  PROVE  /\ Kept(p) /\ Grows /\ job[p].pc = "close" /\ job'[p].pc = "done" /\ job[p].file \in Files
         /\ IsOk(job'[p].status) /\ data[job[p].file] = BytesOf(p, 1, job[p].pending) =>
              data'[job[p].file] = BytesOf(p, 1, job[p].bytes)
<1> DEFINE j == job[p]
           k == job'[p]
<1>1. j \in Jobs /\ Basics(j) /\ AtItsLabel(j) /\ EnvTypeOK
  BY DEF EnvBasics, EnvTypeOK, Basics
<1>2. /\ Moves(p) /\ UNCHANGED <<tree, registry>>
      /\ j.op = "WriteStringToFile" /\ j.pc = "close" /\ k.pc = "done"
      /\ \E n \in j.pending..j.bytes :
           Flushed(j.file, p, j.pending, n) /\ (IsOk(k.status) => n = j.bytes)
  BY <1>1, WriteCloseIs
<1>3. SameOrder(k, j) /\ AtItsLabel(k)
  BY <1>2 DEF Moves
<1>4. j.file \in Files /\ j.bytes \in Nat /\ j.pending \in Nat
  BY <1>1, <1>2 DEF Jobs, Basics
<1> HIDE DEF j, k
<1>5. PICK n \in j.pending..j.bytes :
        Flushed(j.file, p, j.pending, n) /\ (IsOk(k.status) => n = j.bytes)
  BY <1>2
<1>6. n \in Nat /\ j.pending <= n
  BY <1>4, <1>5
<1>7. /\ data' \in [Files -> Seq(Byte)] /\ writes' \in [Files -> Nat] /\ Grows
      /\ data[j.file] = BytesOf(p, 1, j.pending) => data'[j.file] = BytesOf(p, 1, n)
  BY <1>1, <1>4, <1>5, <1>6, FlushedIs
<1>8. Basics(k)
  BY <1>1, <1>2, <1>3, <1>4, BasicsOfOrder DEF SameOrder, AtItsLabel
<1> QED
  BY <1>1, <1>2, <1>4, <1>5, <1>7, <1>8 DEF Kept, EnvTypeOK, j, k

-----------------------------------------------------------------------------
LEMMA SameGrows ==
  ASSUME EnvTypeOK, UNCHANGED <<data, writes>>
  PROVE  Grows
  BY DEF EnvTypeOK, Grows

LEMMA StepKeeps ==
  ASSUME EnvBasics, NEW p \in Procs, EnvStep(p)
  PROVE  Kept(p)
  BY LookupKeeps, CallOnceKeeps, CreateProbeKeeps, CreateNextKeeps, DeleteProbeKeeps, DeleteScanKeeps,
     DeleteChildKeeps, DeleteChildStatKeeps, DeleteChildUnlinkKeeps, DeleteDirsKeeps, ReadKeeps,
     WriteOpenKeeps, WriteAppendKeeps, WriteCloseKeeps DEF EnvStep

LEMMA StepGrows ==
  ASSUME EnvBasics, NEW p \in Procs, EnvStep(p)
  PROVE  Grows
<1>1. EnvTypeOK
  BY DEF EnvBasics
<1>2. ASSUME ~(WriteOpen(p) \/ WriteAppend(p) \/ WriteClose(p)) PROVE UNCHANGED <<data, writes>>
  BY <1>2 DEF EnvStep, Lookup, CallOnce, CreateProbe, CreateNext, DeleteProbe, DeleteScan, DeleteChild,
       DeleteChildStat, DeleteChildUnlink, DeleteDirs, ReadSize, ReadOpen, ReadPread, SameFiles
<1> QED
  BY <1>1, <1>2, SameGrows, WriteOpenKeeps, WriteAppendKeeps, WriteCloseKeeps

LEMMA RegisterKeeps ==
  ASSUME EnvBasics, NEW s \in Schemes, Register(s, "other")
  PROVE  /\ EnvBasics' /\ UNCHANGED <<tree, data, writes, job, faults>>
<1>1. UNCHANGED <<tree, data, writes, job, faults>>
  BY DEF Register
<1>2. registry' \in [Schemes -> {"local", "other", None}] /\ registry'["file"] # None
  <2>1. "other" # None
    BY DEF None
  <2>2. registry \in [Schemes -> {"local", "other", None}] /\ registry["file"] # None /\ "file" \in Schemes
    BY EnvAssumption DEF EnvBasics, EnvTypeOK
  <2>3. CASE registry' = [registry EXCEPT ![s] = "other"]
    BY <2>1, <2>2, <2>3
  <2>4. CASE registry' = registry
    BY <2>2, <2>4
  <2> QED
    BY <2>3, <2>4 DEF Register
<1> QED
  BY <1>1, <1>2 DEF EnvBasics, EnvTypeOK, Basics

LEMMA JobIsBasic ==
  ASSUME NEW j, IsJob(j)
  PROVE  j \in Jobs /\ Basics(j)
<1>1. /\ j.op \in Operations /\ j.path \in Paths /\ j.to \in Paths /\ j.bytes \in Nat
      /\ j.op # "none" => j.path # <<>>
      /\ j.op = "RenameFile" => j.to # <<>>
  BY DEF IsJob
<1>2. PICK s \in IF j.op = "RenameFile" THEN Schemes ELSE {"file"} :
        j = [Job(j.op, j.path, j.to, j.bytes) EXCEPT !.toScheme = s]
  BY DEF IsJob
<1>3. PICK o, pa, t, b : o = j.op /\ pa = j.path /\ t = j.to /\ b = j.bytes
  OBVIOUS
<1>4. j = [Job(o, pa, t, b) EXCEPT !.toScheme = s]
  BY <1>2, <1>3
<1>5. /\ pa \in Seq(STRING) /\ <<>> \in Seq(STRING) /\ <<>> \in Seq(Paths) /\ <<>> \in Seq(Byte)
      /\ OK \in Codes /\ None \in Handles /\ "done" \in Labels /\ "lookup" \in Labels
      /\ s \in Schemes /\ "file" \in Schemes
  BY <1>1, <1>3, <1>2, PathAssumption, EnvAssumption DEF Codes, Handles, Labels
<1>6. /\ j.scheme = "file" /\ j.toScheme = s /\ j.pc = (IF o = "none" THEN "done" ELSE "lookup")
      /\ j.left = pa /\ j.sub = <<>> /\ j.list = <<>> /\ j.files = 0 /\ j.dirs = 0
  BY <1>4 DEF Job
<1>7. j \in Jobs
  <2>1. o \in Operations /\ pa \in Paths /\ t \in Paths /\ b \in Nat /\ {} \in SUBSET Paths
    BY <1>1, <1>3
  <2>2. (IF o = "none" THEN "done" ELSE "lookup") \in Labels
    BY <1>5
  <2> DEFINE l == IF o = "none" THEN "done" ELSE "lookup"
  <2>3. j = [op |-> o, path |-> pa, to |-> t, bytes |-> b, scheme |-> "file", toScheme |-> s,
             pc |-> l, status |-> OK, left |-> pa, sub |-> <<>>,
             queue |-> <<>>, list |-> <<>>, children |-> {}, child |-> pa,
             files |-> 0, dirs |-> 0, ret |-> OK,
             size |-> 0, file |-> None, got |-> <<>>, seen |-> 0, pending |-> 0]
    BY <1>4 DEF Job
  <2> HIDE DEF l
  <2> QED
    BY <1>5, <2>1, <2>2, <2>3 DEF Jobs, l
<1>8. pa \o <<>> = pa
  BY <1>5, ConcatEmptySeq
<1>9. Basics(j)
  BY <1>1, <1>2, <1>3, <1>6, <1>8 DEF Basics, AtItsLabel, ListsOK, NameOK
<1> QED
  BY <1>7, <1>9

LEMMA InitBasics ==
  ASSUME EnvInit
  PROVE  EnvBasics
<1>1. IsTree(tree)
  BY EnvAssumption DEF EnvInit
<1>2. data \in [Files -> Seq(Byte)]
  <2>1. <<"old", 1>> \in Byte /\ <<"old", 2>> \in Byte
    BY DEF Byte
  <2>2. <<<<"old", 1>>, <<"old", 2>>>> \in Seq(Byte) /\ <<>> \in Seq(Byte)
    BY <2>1
  <2> QED
    BY <2>2 DEF EnvInit
<1>3. writes \in [Files -> Nat] /\ faults \in Nat
  BY DEF EnvInit
<1>4. registry \in [Schemes -> {"local", "other", None}] /\ registry["file"] # None
  <2>1. "local" # None
    BY DEF None
  <2>2. registry = [s \in Schemes |-> IF s = "file" THEN "local" ELSE None] /\ "file" \in Schemes
    BY EnvAssumption DEF EnvInit
  <2> QED
    BY <2>1, <2>2
<1>5. \A p \in Procs : job[p] \in Jobs /\ Basics(job[p])
  BY EnvAssumption, JobIsBasic DEF EnvInit
<1>6. job \in [Procs -> Jobs]
  <2>1. job = [p \in Procs |-> job[p]]
    BY EnvAssumption DEF EnvInit
  <2> QED
    BY <1>5, <2>1
<1> QED
  BY <1>1, <1>2, <1>3, <1>4, <1>5, <1>6 DEF EnvBasics, EnvTypeOK

LEMMA BasicsKept ==
  ASSUME EnvBasics, [EnvNext]_envVars
  PROVE  EnvBasics'
<1>1. CASE EnvNext
  BY <1>1, StepKeeps, KeptIs, RegisterKeeps DEF EnvNext
<1>2. CASE UNCHANGED envVars
  BY <1>2 DEF envVars, EnvBasics, EnvTypeOK, Basics
<1> QED
  BY <1>1, <1>2

-----------------------------------------------------------------------------
(* Names and what is under them                                            *)

LEMMA PrefixIs ==
  ASSUME NEW p \in Paths, NEW q \in Paths
  PROVE  /\ Len(p) \in Nat /\ Len(q) \in Nat
         /\ IsPrefix(p, q) <=> Len(p) <= Len(q) /\ \A i \in 1..Len(p) : p[i] = q[i]
<1>1. p \in Seq(STRING) /\ q \in Seq(STRING)
  BY PathAssumption
<1>2. Len(p) \in Nat /\ Len(q) \in Nat
  BY <1>1
<1>3. SubSeq(p, 1, Len(p)) = p
  BY <1>1, SubSeqFull
<1>4. ASSUME Len(p) <= Len(q)
      PROVE  SubSeq(p, 1, Len(p)) = SubSeq(q, 1, Len(p)) <=> \A i \in 1..Len(p) : p[i] = q[i]
  <2> DEFINE s == SubSeq(q, 1, Len(p))
  <2>1. s \in Seq(STRING) /\ Len(s) = Len(p) /\ \A i \in 1..Len(p) : s[i] = q[i]
    BY <1>1, <1>2, <1>4
  <2> HIDE DEF s
  <2>2. ASSUME p = s PROVE \A i \in 1..Len(p) : p[i] = q[i]
    BY <2>1, <2>2
  <2>3. ASSUME \A i \in 1..Len(p) : p[i] = q[i] PROVE p = s
    BY <1>1, <2>1, <2>3, SeqEqual
  <2> QED
    BY <1>3, <2>2, <2>3 DEF s
<1> QED
  BY <1>2, <1>4 DEF IsPrefix

LEMMA FrontOfBelow ==
  ASSUME NEW p \in Paths, NEW q \in Paths, IsPrefix(p, q), p # q
  PROVE  q # <<>> /\ Front(q) \in Paths /\ IsPrefix(p, Front(q))
<1>1. p \in Seq(STRING) /\ q \in Seq(STRING)
  BY PathAssumption
<1>2. Len(p) \in Nat /\ Len(q) \in Nat /\ Len(p) <= Len(q) /\ \A i \in 1..Len(p) : p[i] = q[i]
  BY PrefixIs
<1>3. Len(p) # Len(q)
  BY <1>1, <1>2, SeqEqual
<1>4. q # <<>>
  BY <1>1, <1>2, <1>3
<1>5. Front(q) \in Paths /\ Len(Front(q)) = Len(q) - 1 /\ q = Append(Front(q), Last(q))
      /\ Front(q) \in Seq(STRING)
  BY <1>1, <1>4, NamesGrow, FrontIs
<1>6. \A i \in 1..Len(Front(q)) : Front(q)[i] = q[i]
  BY <1>1, <1>2, <1>4 DEF Front
<1>7. Len(p) <= Len(Front(q)) /\ \A i \in 1..Len(p) : p[i] = Front(q)[i]
  BY <1>2, <1>3, <1>5, <1>6
<1> QED
  BY <1>4, <1>5, <1>7, PrefixIs

(* Nothing is below what is absent. *)
LEMMA NothingBelow ==
  ASSUME NEW t, IsTree(t), NEW p \in Paths, Absent(t, p)
  PROVE  \A q \in Below(p) : Absent(t, q)
<1> DEFINE B == {q \in Below(p) : ~Absent(t, q)}
           T == {Len(q) : q \in B}
<1> SUFFICES ASSUME B # {} PROVE FALSE
  OBVIOUS
<1>1. \A q \in B : q \in Paths /\ q \in Seq(STRING) /\ Len(q) \in Nat /\ IsPrefix(p, q) /\ ~Absent(t, q)
  BY PathAssumption DEF Below
<1>2. \E m \in T : \A k \in T : m <= k
  <2>1. T \in SUBSET Nat /\ T # {}
    BY <1>1
  <2> HIDE DEF T
  <2> QED
    BY <2>1, LeastNatural
<1>3. PICK q \in B : \A r \in B : Len(q) <= Len(r)
  BY <1>2
<1>4. p # q
  BY <1>1, <1>3
<1>5. q # <<>> /\ Front(q) \in Paths /\ IsPrefix(p, Front(q)) /\ Len(Front(q)) = Len(q) - 1
  BY <1>1, <1>3, <1>4, FrontOfBelow, NamesGrow
<1>6. t[Front(q)] = Dir
  BY <1>1, <1>3, <1>5 DEF IsTree
<1>7. Front(q) \in B
  BY <1>5, <1>6 DEF Below, Absent, None, Dir
<1> QED
  BY <1>1, <1>3, <1>5, <1>7

LEMMA OneIsSeq ==
  ASSUME NEW S, NEW x \in S
  PROVE  <<x>> \in Seq(S)
OBVIOUS

(* What a name begins with is a name. *)
LEMMA BeginningsAreNames ==
  ASSUME NEW s \in Seq(STRING), NEW t \in Seq(STRING), s \o t \in Paths
  PROVE  s \in Paths
<1> DEFINE T == {n \in Nat : \A a, b \in Seq(STRING) : Len(b) = n /\ a \o b \in Paths => a \in Paths}
<1>1. 0 \in T
  <2> SUFFICES ASSUME NEW a \in Seq(STRING), NEW b \in Seq(STRING), Len(b) = 0, a \o b \in Paths
               PROVE  a \in Paths
    OBVIOUS
  <2>1. b = <<>>
    BY EmptySeq
  <2> QED
    BY <2>1, ConcatEmptySeq
<1>2. ASSUME NEW n \in Nat, n \in T PROVE n + 1 \in T
  <2> SUFFICES ASSUME NEW a \in Seq(STRING), NEW b \in Seq(STRING), Len(b) = n + 1, a \o b \in Paths
               PROVE  a \in Paths
    OBVIOUS
  <2> DEFINE c == Front(b)
             z == Last(b)
  <2>1. b # <<>>
    OBVIOUS
  <2>2. c \in Seq(STRING) /\ z \in STRING /\ b = Append(c, z) /\ Len(c) = n
    <3>1. c \in Seq(STRING) /\ z \in STRING /\ b = Append(c, z) /\ Len(c) = Len(b) - 1
      BY <2>1, FrontIs
    <3> QED
      BY <3>1
  <2> HIDE DEF c, z
  <2>3. b = c \o <<z>> /\ <<z>> \in Seq(STRING)
    <3>1. Append(c, z) = c \o <<z>>
      BY <2>2, AppendIsConcat
    <3>2. <<z>> \in Seq(STRING)
      BY <2>2, OneIsSeq
    <3>3. b = Append(c, z)
      BY <2>2
    <3> QED
      BY <3>1, <3>2, <3>3, Zenon
  <2>4. a \o c \in Seq(STRING) /\ (a \o c) \o <<z>> = a \o b
    BY <2>2, <2>3, ConcatAssociative, ConcatProperties
  <2>5. Append(a \o c, z) = a \o b
    BY <2>2, <2>4, AppendIsConcat
  <2>6. Front(Append(a \o c, z)) = a \o c /\ Append(a \o c, z) # <<>>
    <3> DEFINE d == a \o c
    <3>1. d \in Seq(STRING)
      BY <2>4
    <3> HIDE DEF d
    <3>2. Append(d, z) \in Seq(STRING) /\ Append(d, z) # <<>>
      BY <2>2, <3>1, AppendProperties
    <3>3. Append(d, z) = Append(Front(Append(d, z)), Last(Append(d, z)))
          /\ Front(Append(d, z)) \in Seq(STRING) /\ Last(Append(d, z)) \in STRING
      BY <3>2, FrontIs
    <3>4. Front(Append(d, z)) = d
      BY <2>2, <3>1 DEF Front
    <3> QED
      BY <3>2, <3>4 DEF d
  <2>7. a \o c \in Paths
    BY <2>5, <2>6, PathAssumption
  <2> QED
    BY <1>2, <2>2, <2>7
<1>3. Nat \subseteq T
  <2> HIDE DEF T
  <2> QED
    BY <1>1, <1>2, Induction
<1>4. Len(t) \in Nat
  OBVIOUS
<1>5. Len(t) \in T
  BY <1>3, <1>4
<1> QED
  BY <1>5

-----------------------------------------------------------------------------
(* A breadth-first search of directories that nobody else touches: the     *)
(* first n of A were scanned, C is what the last of them still has to show. *)

Later(A, i, c) == \E k \in 1..Len(A) : i < k /\ A[k] = c

Distinct(A) == \A i, k \in 1..Len(A) : A[i] = A[k] => i = k

Search(A, n, C, t, path) ==
  /\ A \in Seq(NonBase) /\ n \in 0..Len(A) /\ Distinct(A)
  /\ \A i \in 1..Len(A) : t[A[i]] = Dir /\ Len(path) <= Len(A[i])
  /\ \A i \in 1..Len(A) : A[i] = path \/ \E k \in 1..n : Front(A[i]) = A[k]
  /\ \A i \in 1..n : \A c \in ChildrenOf(t, A[i]) : Later(A, i, c) \/ (i = n /\ c \in C)
  /\ n = 0 => C = {}
  /\ n > 0 => C \subseteq ChildrenOf(t, A[n]) /\ \A i \in 1..Len(A) : A[i] \notin C

(* Every directory comes before what is in it.                             *)
Ranked(A, t) ==
  /\ A \in Seq(NonBase) /\ Distinct(A)
  /\ \A i \in 1..Len(A) : t[A[i]] = Dir
  /\ \A i \in 1..Len(A) : \A c \in ChildrenOf(t, A[i]) : Later(A, i, c)

LEMMA SearchBegins ==
  ASSUME NEW path \in NonBase, NEW t, t[path] = Dir
  PROVE  Search(<<path>>, 0, {}, t, path)
<1> DEFINE A == <<path>>
<1>1. A \in Seq(NonBase) /\ Len(A) = 1 /\ A[1] = path
  OBVIOUS
<1>2. Len(path) \in Nat
  BY PathAssumption DEF NonBase
<1> HIDE DEF A
<1>3. \A i \in 1..Len(A) : i = 1
  BY <1>1
<1>4. Search(A, 0, {}, t, path)
  BY <1>1, <1>2, <1>3 DEF Search, Distinct
<1> QED
  BY <1>4 DEF A

LEMMA ChildIs ==
  ASSUME NEW t, NEW d, NEW c \in ChildrenOf(t, d)
  PROVE  c \in NonBase /\ Front(c) = d /\ ~Absent(t, c) /\ Len(c) \in Nat /\ Len(d) = Len(c) - 1
<1>1. c \in Paths /\ c # <<>> /\ Front(c) = d /\ ~Absent(t, c)
  BY DEF ChildrenOf
<1>2. c \in Seq(STRING) /\ Len(Front(c)) = Len(c) - 1
  BY <1>1, NamesGrow
<1> QED
  BY <1>1, <1>2 DEF NonBase

LEMMA SearchScans ==
  ASSUME NEW A, NEW n, NEW t, NEW path \in Paths, Search(A, n, {}, t, path), n < Len(A)
  PROVE  Search(A, n + 1, ChildrenOf(t, A[n + 1]), t, path)
<1> DEFINE d == A[n + 1]
           C == ChildrenOf(t, d)
<1>1. A \in Seq(NonBase) /\ n \in Nat /\ Len(A) \in Nat /\ n + 1 \in 1..Len(A) /\ Len(path) \in Nat
      /\ d \in NonBase
  <2>1. A \in Seq(NonBase) /\ n \in Nat /\ Len(A) \in Nat /\ n + 1 \in 1..Len(A)
    BY DEF Search
  <2>2. path \in Seq(STRING)
    BY PathAssumption
  <2> QED
    BY <2>1, <2>2, ElementOfSeq
<1>2. ASSUME NEW i \in 1..Len(A) PROVE A[i] \notin C
  <2> SUFFICES ASSUME A[i] \in C PROVE FALSE
    OBVIOUS
  <2>1. Front(A[i]) = d /\ Len(A[i]) \in Nat /\ Len(d) = Len(A[i]) - 1
    BY ChildIs
  <2>2. Len(path) <= Len(d)
    BY <1>1 DEF Search
  <2>3. A[i] # path
    BY <1>1, <2>1, <2>2
  <2>4. PICK k \in 1..n : Front(A[i]) = A[k]
    BY <2>3 DEF Search
  <2>5. k \in 1..Len(A) /\ A[k] = A[n + 1] /\ k # n + 1
    BY <1>1, <2>1, <2>4
  <2> QED
    BY <1>1, <2>5 DEF Search, Distinct
<1>3. \A i \in 1..Len(A) : A[i] = path \/ \E k \in 1..(n + 1) : Front(A[i]) = A[k]
  BY <1>1 DEF Search
<1>4. ASSUME NEW i \in 1..(n + 1), NEW c \in ChildrenOf(t, A[i])
      PROVE  Later(A, i, c) \/ (i = n + 1 /\ c \in C)
  <2>1. CASE i = n + 1
    BY <2>1
  <2>2. CASE i # n + 1
    <3>1. i \in 1..n
      BY <1>1, <2>2
    <3> QED
      BY <3>1 DEF Search
  <2> QED
    BY <2>1, <2>2
<1> HIDE DEF d, C
<1>5. n + 1 \in 0..Len(A) /\ n + 1 # 0
  BY <1>1
<1>6. C = ChildrenOf(t, A[n + 1])
  BY DEF C, d
<1> QED
  BY <1>1, <1>2, <1>3, <1>4, <1>5, <1>6 DEF Search

LEMMA SearchFinds ==
  ASSUME NEW A, NEW n, NEW C, NEW t, NEW path \in Paths, Search(A, n, C, t, path),
         NEW c \in C, t[c] = Dir
  PROVE  Search(Append(A, c), n, C \ {c}, t, path)
<1> DEFINE B == Append(A, c)
<1>1. A \in Seq(NonBase) /\ n \in Nat /\ n > 0 /\ Len(A) \in Nat /\ n <= Len(A) /\ Len(path) \in Nat
      /\ c \in ChildrenOf(t, A[n])
  <2>1. A \in Seq(NonBase) /\ n \in Nat /\ Len(A) \in Nat /\ n <= Len(A) /\ n # 0
    BY DEF Search
  <2>2. path \in Seq(STRING)
    BY PathAssumption
  <2> QED
    BY <2>1, <2>2 DEF Search
<1>2. c \in NonBase /\ Front(c) = A[n] /\ Len(c) \in Nat /\ Len(A[n]) = Len(c) - 1
  BY <1>1, ChildIs
<1>3. /\ B \in Seq(NonBase) /\ Len(B) = Len(A) + 1 /\ B[Len(A) + 1] = c
      /\ \A i \in 1..Len(A) : B[i] = A[i]
  BY <1>1, <1>2, AppendProperties
<1> HIDE DEF B
<1>4. \A i \in 1..Len(A) : A[i] # c
  BY <1>1 DEF Search
<1>5. Distinct(B)
  <2> SUFFICES ASSUME NEW i \in 1..Len(B), NEW k \in 1..Len(B), B[i] = B[k] PROVE i = k
    BY DEF Distinct
  <2>1. i \in 1..Len(A) \/ i = Len(A) + 1
    BY <1>1, <1>3
  <2>2. k \in 1..Len(A) \/ k = Len(A) + 1
    BY <1>1, <1>3
  <2>3. \A a, b \in 1..Len(A) : A[a] = A[b] => a = b
    BY DEF Search, Distinct
  <2> QED
    BY <1>3, <1>4, <2>1, <2>2, <2>3
<1>6. ASSUME NEW i \in 1..Len(B)
      PROVE  /\ t[B[i]] = Dir /\ Len(path) <= Len(B[i])
             /\ B[i] = path \/ \E k \in 1..n : Front(B[i]) = B[k]
             /\ B[i] \notin C \ {c}
  <2>1. CASE i \in 1..Len(A)
    <3>1. /\ B[i] = A[i] /\ t[A[i]] = Dir /\ Len(path) <= Len(A[i]) /\ A[i] \notin C
          /\ A[i] = path \/ \E k \in 1..n : Front(A[i]) = A[k]
      BY <1>1, <1>3, <2>1 DEF Search
    <3>2. \A k \in 1..n : B[k] = A[k]
      BY <1>1, <1>3
    <3> QED
      BY <3>1, <3>2
  <2>2. CASE i = Len(A) + 1
    <3>1. B[i] = c /\ n \in 1..n /\ B[n] = A[n] /\ n \in 1..Len(A)
      BY <1>1, <1>3, <2>2
    <3>2. Len(path) <= Len(A[n])
      BY <3>1 DEF Search
    <3>3. Len(path) <= Len(c)
      BY <1>1, <1>2, <3>2
    <3> QED
      BY <1>2, <3>1, <3>3
  <2> QED
    BY <1>1, <1>3, <2>1, <2>2
<1>7. ASSUME NEW i \in 1..n, NEW b \in ChildrenOf(t, B[i])
      PROVE  Later(B, i, b) \/ (i = n /\ b \in C \ {c})
  <2>1. B[i] = A[i] /\ i \in Nat /\ i <= n
    BY <1>1, <1>3
  <2>2. CASE Later(A, i, b)
    <3>1. PICK k \in 1..Len(A) : i < k /\ A[k] = b
      BY <2>2 DEF Later
    <3>2. k \in 1..Len(B) /\ B[k] = b
      BY <1>1, <1>3, <3>1
    <3> QED
      BY <3>1, <3>2 DEF Later
  <2>3. CASE b = c
    <3>1. Len(A) + 1 \in 1..Len(B) /\ i < Len(A) + 1
      BY <1>1, <1>3, <2>1
    <3> QED
      BY <1>3, <2>3, <3>1 DEF Later
  <2>4. CASE i = n /\ b \in C /\ b # c
    BY <2>4
  <2> QED
    BY <2>1, <2>2, <2>3, <2>4 DEF Search
<1>8. C \ {c} \subseteq ChildrenOf(t, B[n])
  <2>1. B[n] = A[n]
    BY <1>1, <1>3
  <2> QED
    BY <1>1, <2>1 DEF Search
<1>9. n \in 0..Len(B)
  BY <1>1, <1>3
<1> QED
  BY <1>1, <1>3, <1>5, <1>6, <1>7, <1>8, <1>9 DEF Search, B

LEMMA SearchUnlinks ==
  ASSUME NEW A, NEW n, NEW C, NEW t, IsTree(t), NEW path, Search(A, n, C, t, path),
         NEW c \in C, t[c] # Dir
  PROVE  Search(A, n, C \ {c}, Removed(t, c), path)
<1> DEFINE u == Removed(t, c)
<1>1. A \in Seq(NonBase) /\ n \in Nat /\ n > 0 /\ Len(A) \in Nat /\ n <= Len(A) /\ C \subseteq ChildrenOf(t, A[n])
  BY DEF Search
<1>2. \A d \in Paths : u[d] = IF d = c THEN None ELSE t[d]
  BY DEF Removed, IsTree
<1>3. \A i \in 1..Len(A) : A[i] \in Paths /\ A[i] # c
  <2>1. \A i \in 1..Len(A) : A[i] \in NonBase
    BY <1>1, ElementOfSeq
  <2> QED
    BY <2>1 DEF Search, NonBase
<1>4. \A d : ChildrenOf(u, d) = ChildrenOf(t, d) \ {c}
  BY <1>2 DEF ChildrenOf, Absent
<1> HIDE DEF u
<1>5. \A i \in 1..Len(A) : u[A[i]] = Dir
  BY <1>2, <1>3 DEF Search
<1>6. \A i \in 1..n : \A b \in ChildrenOf(u, A[i]) : Later(A, i, b) \/ (i = n /\ b \in C \ {c})
  BY <1>4 DEF Search
<1>7. C \ {c} \subseteq ChildrenOf(u, A[n])
  BY <1>1, <1>4
<1>8. Search(A, n, C \ {c}, u, path)
  BY <1>1, <1>5, <1>6, <1>7 DEF Search
<1> QED
  BY <1>8 DEF u

LEMMA SearchEnds ==
  ASSUME NEW A, NEW t, NEW path, Search(A, Len(A), {}, t, path)
  PROVE  Ranked(A, t)
  BY DEF Search, Ranked

LEMMA RankedShrinks ==
  ASSUME NEW A, A # <<>>, NEW t, IsTree(t), Ranked(A, t)
  PROVE  /\ rmdir(t, Last(A)) = "OK" /\ Last(A) \in NonBase
         /\ Ranked(Front(A), Removed(t, Last(A)))
<1> DEFINE d == Last(A)
           B == Front(A)
           u == Removed(t, d)
           m == Len(A)
<1>1. A \in Seq(NonBase) /\ m \in Nat /\ m \in 1..m
  BY EmptySeq DEF Ranked
<1>2. B \in Seq(NonBase) /\ d \in NonBase /\ Len(B) = m - 1
  BY <1>1, FrontIs
<1>3. \A i \in 1..(m - 1) : B[i] = A[i] /\ i \in 1..m
  BY <1>1, <1>2 DEF Front
<1>4. d = A[m]
  BY DEF Last
<1>5. t[d] = Dir /\ ChildrenOf(t, d) = {}
  <2>1. \A c : ~Later(A, m, c)
    BY <1>1 DEF Later
  <2> QED
    BY <1>1, <1>4, <2>1 DEF Ranked
<1>6. rmdir(t, d) = "OK"
  <2>1. d \in Paths /\ ~Absent(t, d)
    BY <1>2, <1>5 DEF NonBase, Absent, None, Dir
  <2> QED
    BY <1>5, <2>1, NothingUnder DEF rmdir
<1>7. \A c \in Paths : u[c] = IF c = d THEN None ELSE t[c]
  BY DEF Removed, IsTree
<1>8. \A c : ChildrenOf(u, c) = ChildrenOf(t, c) \ {d}
  BY <1>7 DEF ChildrenOf, Absent
<1> HIDE DEF B, u, d
<1>9. ASSUME NEW i \in 1..Len(B) PROVE u[B[i]] = Dir /\ \A c \in ChildrenOf(u, B[i]) : Later(B, i, c)
  <2>1. B[i] = A[i] /\ i \in 1..m /\ i # m
    BY <1>1, <1>2, <1>3
  <2>2. A[i] # d /\ A[i] \in Paths
    <3>1. A[i] \in NonBase
      BY <1>1, <2>1, ElementOfSeq
    <3> QED
      BY <1>1, <1>4, <2>1, <3>1 DEF Ranked, Distinct, NonBase
  <2>3. ASSUME NEW c \in ChildrenOf(u, B[i]) PROVE Later(B, i, c)
    <3>1. c \in ChildrenOf(t, A[i]) /\ c # d
      BY <1>8, <2>1, <2>3
    <3>2. PICK k \in 1..m : i < k /\ A[k] = c
      BY <2>1, <3>1 DEF Ranked, Later
    <3>3. k \in 1..(m - 1)
      BY <1>1, <1>4, <3>1, <3>2
    <3> QED
      BY <1>2, <1>3, <3>2, <3>3 DEF Later
  <2> QED
    BY <1>7, <2>1, <2>2, <2>3 DEF Ranked
<1>10. Distinct(B)
  <2> SUFFICES ASSUME NEW i \in 1..Len(B), NEW k \in 1..Len(B), B[i] = B[k] PROVE i = k
    BY DEF Distinct
  <2>1. B[i] = A[i] /\ B[k] = A[k] /\ i \in 1..m /\ k \in 1..m
    BY <1>2, <1>3
  <2> QED
    BY <2>1 DEF Ranked, Distinct
<1> QED
  BY <1>2, <1>6, <1>9, <1>10 DEF Ranked, B, u, d

LEMMA QueueGrows ==
  ASSUME NEW S, NEW l \in Seq(S), NEW q \in Seq(S), NEW c \in S
  PROVE  l \o Append(q, c) = Append(l \o q, c)
<1>1. Append(q, c) = q \o <<c>> /\ <<c>> \in Seq(S)
  BY AppendIsConcat, OneIsSeq
<1>2. (l \o q) \o <<c>> = l \o (q \o <<c>>)
  BY <1>1, ConcatAssociative
<1>3. Append(l \o q, c) = (l \o q) \o <<c>>
  <2>1. l \o q \in Seq(S)
    BY ConcatProperties
  <2> QED
    BY <2>1, AppendIsConcat
<1> QED
  BY <1>1, <1>2, <1>3

LEMMA QueueMoves ==
  ASSUME NEW S, NEW l \in Seq(S), NEW q \in Seq(S)
  PROVE  /\ q # <<>> => /\ Append(l, Head(q)) \o Tail(q) = l \o q
                        /\ (l \o q)[Len(l) + 1] = Head(q) /\ Len(l) < Len(l \o q)
                        /\ Len(Append(l, Head(q))) = Len(l) + 1
         /\ q = <<>> => l \o q = l
<1> DEFINE a == l \o q
<1>1. Len(l) \in Nat /\ Len(q) \in Nat
  OBVIOUS
<1>2. /\ a \in Seq(S) /\ Len(a) = Len(l) + Len(q)
      /\ \A i \in 1..(Len(l) + Len(q)) : a[i] = IF i <= Len(l) THEN l[i] ELSE q[i - Len(l)]
  BY ConcatProperties
<1> HIDE DEF a
<1>3. ASSUME q # <<>>
      PROVE  /\ Append(l, Head(q)) \o Tail(q) = l \o q
             /\ a[Len(l) + 1] = Head(q) /\ Len(l) < Len(a)
             /\ Len(Append(l, Head(q))) = Len(l) + 1
  <2>1. Len(q) \in Nat /\ Len(q) > 0
    BY <1>1, <1>3, EmptySeq
  <2>2. a[Len(l) + 1] = q[1]
    <3>1. Len(l) + 1 \in 1..(Len(l) + Len(q)) /\ ~(Len(l) + 1 <= Len(l)) /\ Len(l) + 1 - Len(l) = 1
      BY <1>1, <2>1
    <3> QED
      BY <1>2, <3>1
  <2>3. Head(q) = q[1] /\ Head(q) \in S
    BY <1>3, HeadTailProperties
  <2>4. Len(Append(l, Head(q))) = Len(l) + 1
    BY <2>3, AppendProperties
  <2>5. Append(l, Head(q)) \o Tail(q) = l \o q
    BY <1>3, NameIsCut
  <2>6. Len(l) < Len(a)
    BY <1>1, <1>2, <2>1
  <2> QED
    BY <2>2, <2>3, <2>4, <2>5, <2>6
<1>4. q = <<>> => l \o q = l
  BY ConcatEmptySeq
<1> QED
  BY <1>3, <1>4 DEF a

-----------------------------------------------------------------------------
(* DeleteRecursively alone                                                 *)

SearchOK(j, t) ==
  /\ j.pc \in {"scan", "child", "stat", "unlink", "rmdir"} => j.files = 0 /\ j.dirs = 0
  /\ j.pc = "scan" => Search(j.list \o j.queue, Len(j.list), {}, t, j.path)
  /\ j.pc = "child" => Search(j.list \o j.queue, Len(j.list), j.children, t, j.path)
  /\ j.pc \in {"stat", "unlink"} =>
       /\ j.child \notin j.children
       /\ Search(j.list \o j.queue, Len(j.list), j.children \cup {j.child}, t, j.path)
  /\ j.pc = "unlink" => t[j.child] # Dir
  /\ j.pc = "rmdir" => Ranked(j.list, t)

(* What is found in a search is there. *)
LEMMA FoundIsThere ==
  ASSUME NEW A, NEW n, NEW C, NEW t, NEW path, Search(A, n, C, t, path), NEW c \in C, IsTree(t)
  PROVE  c \in NonBase /\ Find(t, c) = "OK"
<1>1. c \in ChildrenOf(t, A[n])
  BY DEF Search
<1>2. c \in NonBase /\ ~Absent(t, c)
  BY <1>1, ChildIs
<1> QED
  BY <1>2, NothingUnder DEF NonBase

LEMMA ProbeSearches ==
  ASSUME EnvBasics, NEW p \in Procs, DeleteProbe(p), faults' = 0, tree[job[p].path] = Dir
  PROVE  SearchOK(job'[p], tree') /\ job'[p].pc # "done"
<1> DEFINE j == job[p]
           k == job'[p]
<1>1. j \in Jobs /\ Basics(j) /\ AtItsLabel(j) /\ EnvTypeOK /\ j.pc = "exists" /\ IsTree(tree)
  BY DEF EnvBasics, EnvTypeOK, Basics, DeleteProbe, At
<1>2. /\ tree' = tree /\ j.op = "DeleteRecursively"
      /\ \/ k = [j EXCEPT !.pc = "scan", !.queue = <<j.path>>]
         \/ access(tree, j.path) # "OK"
  BY <1>1, DeleteProbeIs
<1>3. j.path \in NonBase /\ j.list = <<>> /\ j.files = 0 /\ j.dirs = 0
  BY <1>1, <1>2 DEF Basics, ListsOK, Jobs, NonBase
<1>4. access(tree, j.path) = "OK"
  BY <1>1, <1>3, NothingUnder DEF access, NonBase, Absent, None, Dir
<1>5. k.pc = "scan" /\ k.queue = <<j.path>> /\ k.list = <<>> /\ k.files = 0 /\ k.dirs = 0 /\ k.path = j.path
  BY <1>1, <1>2, <1>3, <1>4 DEF Jobs
<1> HIDE DEF j, k
<1>6. Search(<<j.path>>, 0, {}, tree, j.path)
  BY <1>3, SearchBegins DEF j
<1>7. k.list \o k.queue = <<j.path>> /\ Len(k.list) = 0
  <2>1. <<j.path>> \in Seq(NonBase)
    BY <1>3
  <2> QED
    BY <1>5, <2>1, ConcatEmptySeq
<1> QED
  BY <1>2, <1>5, <1>6, <1>7 DEF SearchOK, k

LEMMA ScanSearches ==
  ASSUME EnvBasics, NEW p \in Procs, DeleteScan(p), faults' = 0, SearchOK(job[p], tree)
  PROVE  SearchOK(job'[p], tree') /\ job'[p].pc # "done"
<1> DEFINE j == job[p]
           k == job'[p]
           A == j.list \o j.queue
           n == Len(j.list)
<1>1. j \in Jobs /\ Basics(j) /\ AtItsLabel(j) /\ EnvTypeOK /\ j.pc = "scan" /\ IsTree(tree)
  BY DEF EnvBasics, EnvTypeOK, Basics, DeleteScan, At
<1>2. /\ Moves(p) /\ tree' = tree /\ j.op = "DeleteRecursively"
      /\ \/ j.queue = <<>> /\ k = [j EXCEPT !.pc = "rmdir"]
         \/ /\ j.queue # <<>> /\ k.queue = Tail(j.queue) /\ k.list = Append(j.list, Head(j.queue))
            /\ k.files = j.files
            /\ \/ k.dirs = j.dirs /\ k.pc = "child" /\ k.children = ChildrenOf(tree, Head(j.queue))
               \/ opendir(tree, Head(j.queue)) # "OK"
  BY <1>1, DeleteScanIs
<1>3. /\ j.queue \in Seq(NonBase) /\ j.list \in Seq(NonBase) /\ j.files = 0 /\ j.dirs = 0
      /\ Search(A, n, {}, tree, j.path) /\ k.path = j.path /\ j.path \in Paths
  BY <1>1, <1>2 DEF Basics, ListsOK, SearchOK, Moves, SameOrder, Jobs
<1>4. CASE j.queue = <<>> /\ k = [j EXCEPT !.pc = "rmdir"]
  <2>1. k.pc = "rmdir" /\ k.list = j.list /\ k.files = 0 /\ k.dirs = 0
    BY <1>1, <1>3, <1>4 DEF Jobs
  <2>2. A = j.list
    BY <1>3, <1>4, QueueMoves
  <2>3. Ranked(j.list, tree)
    BY <1>3, <2>2, SearchEnds
  <2> HIDE DEF j, k
  <2> QED
    BY <1>2, <2>1, <2>3 DEF SearchOK, k
<1>5. CASE /\ j.queue # <<>> /\ k.queue = Tail(j.queue) /\ k.list = Append(j.list, Head(j.queue))
           /\ k.files = j.files
           /\ \/ k.dirs = j.dirs /\ k.pc = "child" /\ k.children = ChildrenOf(tree, Head(j.queue))
              \/ opendir(tree, Head(j.queue)) # "OK"
  <2> DEFINE d == Head(j.queue)
  <2>1. k.list \o k.queue = A /\ A[n + 1] = d /\ n < Len(A) /\ Len(k.list) = n + 1
    <3>1. j.list \in Seq(NonBase) /\ j.queue \in Seq(NonBase) /\ j.queue # <<>>
      BY <1>3, <1>5
    <3>2. /\ Append(j.list, d) \o Tail(j.queue) = A /\ A[n + 1] = d /\ n < Len(A)
          /\ Len(Append(j.list, d)) = n + 1
      BY <3>1, QueueMoves
    <3> HIDE DEF A, n
    <3> QED
      BY <1>5, <3>2
  <2> HIDE DEF A
  <2>2. Search(A, n + 1, ChildrenOf(tree, A[n + 1]), tree, j.path)
    BY <1>3, <2>1, SearchScans
  <2>3. tree[d] = Dir /\ d \in Paths
    <3>1. n + 1 \in 1..Len(A) /\ A \in Seq(NonBase)
      BY <1>3, <2>1 DEF Search
    <3>2. tree[A[n + 1]] = Dir /\ A[n + 1] \in NonBase
      BY <1>3, <3>1, ElementOfSeq DEF Search
    <3> QED
      BY <2>1, <3>2 DEF NonBase
  <2>4. opendir(tree, d) = "OK"
    BY <1>1, <2>3, NothingUnder DEF opendir, Absent, None, Dir
  <2> HIDE DEF j, k, d
  <2>5. k.pc = "child" /\ k.children = ChildrenOf(tree, A[n + 1]) /\ k.files = 0 /\ k.dirs = 0
    BY <1>3, <1>5, <2>1, <2>4 DEF d
  <2>6. Search(k.list \o k.queue, Len(k.list), k.children, tree, k.path)
    BY <1>3, <2>1, <2>2, <2>5
  <2> QED
    BY <1>2, <2>5, <2>6 DEF SearchOK, k
<1> QED
  BY <1>2, <1>4, <1>5

LEMMA ChildSearches ==
  ASSUME EnvBasics, NEW p \in Procs, DeleteChild(p), faults' = 0, SearchOK(job[p], tree)
  PROVE  SearchOK(job'[p], tree') /\ job'[p].pc # "done"
<1> DEFINE j == job[p]
           k == job'[p]
<1>1. j \in Jobs /\ Basics(j) /\ AtItsLabel(j) /\ EnvTypeOK /\ j.pc = "child" /\ IsTree(tree)
  BY DEF EnvBasics, EnvTypeOK, Basics, DeleteChild, At
<1>2. /\ Moves(p) /\ tree' = tree
      /\ k.queue = j.queue /\ k.list = j.list /\ k.files = j.files /\ k.dirs = j.dirs
      /\ \/ j.children = {} /\ k.pc = "scan"
         \/ \E c \in j.children :
              /\ k.children = j.children \ {c} /\ k.child = c
              /\ k.pc = "stat" \/ access(tree, c) # "OK"
  BY <1>1, DeleteChildIs
<1>3. /\ j.files = 0 /\ j.dirs = 0 /\ k.path = j.path
      /\ Search(j.list \o j.queue, Len(j.list), j.children, tree, j.path)
  BY <1>1, <1>2 DEF SearchOK, Moves, SameOrder
<1> HIDE DEF j, k
<1>4. CASE j.children = {} /\ k.pc = "scan"
  BY <1>2, <1>3, <1>4 DEF SearchOK, k
<1>5. ASSUME NEW c \in j.children,
             k.children = j.children \ {c}, k.child = c, k.pc = "stat" \/ access(tree, c) # "OK"
      PROVE  SearchOK(k, tree) /\ k.pc # "done"
  <2>1. access(tree, c) = "OK"
    BY <1>1, <1>3, FoundIsThere DEF access
  <2>2. k.children \cup {k.child} = j.children /\ k.child \notin k.children
    BY <1>5
  <2> QED
    BY <1>2, <1>3, <1>5, <2>1, <2>2 DEF SearchOK
<1> QED
  BY <1>2, <1>4, <1>5 DEF k

LEMMA StatSearches ==
  ASSUME EnvBasics, NEW p \in Procs, DeleteChildStat(p), faults' = 0, SearchOK(job[p], tree)
  PROVE  SearchOK(job'[p], tree') /\ job'[p].pc # "done"
<1> DEFINE j == job[p]
           k == job'[p]
           A == j.list \o j.queue
           n == Len(j.list)
           C == j.children \cup {j.child}
<1>1. j \in Jobs /\ Basics(j) /\ AtItsLabel(j) /\ EnvTypeOK /\ j.pc = "stat" /\ IsTree(tree)
  BY DEF EnvBasics, EnvTypeOK, Basics, DeleteChildStat, At
<1>2. /\ Moves(p) /\ tree' = tree /\ j.op = "DeleteRecursively"
      /\ k.list = j.list /\ k.children = j.children /\ k.child = j.child
      /\ k.files = j.files /\ k.dirs = j.dirs
      /\ \/ tree[j.child] = Dir /\ k.queue = Append(j.queue, j.child) /\ k.pc = "child"
         \/ /\ ~(stat(tree, j.child) = "OK" /\ tree[j.child] = Dir)
            /\ k.queue = j.queue /\ k.pc = "unlink"
  BY <1>1, DeleteChildStatIs
<1>3. /\ j.files = 0 /\ j.dirs = 0 /\ k.path = j.path /\ j.child \notin j.children
      /\ Search(A, n, C, tree, j.path) /\ j.path \in Paths
      /\ j.list \in Seq(NonBase) /\ j.queue \in Seq(NonBase) /\ j.child \in C
  BY <1>1, <1>2 DEF SearchOK, Moves, SameOrder, Jobs, Basics, ListsOK
<1>4. j.child \in NonBase /\ stat(tree, j.child) = "OK"
  BY <1>1, <1>3, FoundIsThere DEF stat
<1>5. j.list \o Append(j.queue, j.child) = Append(A, j.child)
  <2>1. j.list \in Seq(NonBase) /\ j.queue \in Seq(NonBase) /\ j.child \in NonBase
    BY <1>3, <1>4
  <2> HIDE DEF j
  <2>2. \A l, q \in Seq(NonBase), c \in NonBase : l \o Append(q, c) = Append(l \o q, c)
    BY QueueGrows
  <2> QED
    BY <2>1, <2>2
<1>6. C \ {j.child} = j.children
  BY <1>3
<1> HIDE DEF A, C
<1>7. tree[j.child] = Dir => Search(Append(A, j.child), n, j.children, tree, j.path)
  BY <1>3, <1>6, SearchFinds
<1> HIDE DEF j, k
<1>8. CASE tree[j.child] = Dir /\ k.queue = Append(j.queue, j.child) /\ k.pc = "child"
  BY <1>2, <1>3, <1>5, <1>7, <1>8 DEF SearchOK, k
<1>9. CASE /\ ~(stat(tree, j.child) = "OK" /\ tree[j.child] = Dir)
           /\ k.queue = j.queue /\ k.pc = "unlink"
  BY <1>2, <1>3, <1>4, <1>9 DEF SearchOK, A, C, k
<1> QED
  BY <1>2, <1>8, <1>9

LEMMA UnlinkSearches ==
  ASSUME EnvBasics, NEW p \in Procs, DeleteChildUnlink(p), faults' = 0, SearchOK(job[p], tree)
  PROVE  SearchOK(job'[p], tree') /\ job'[p].pc # "done" /\ tree' = Removed(tree, job[p].child)
<1> DEFINE j == job[p]
           k == job'[p]
           A == j.list \o j.queue
           n == Len(j.list)
           C == j.children \cup {j.child}
<1>1. j \in Jobs /\ Basics(j) /\ AtItsLabel(j) /\ EnvTypeOK /\ j.pc = "unlink" /\ IsTree(tree)
  BY DEF EnvBasics, EnvTypeOK, Basics, DeleteChildUnlink, At
<1>2. /\ Moves(p) /\ k.pc = "child"
      /\ k.queue = j.queue /\ k.list = j.list /\ k.children = j.children /\ k.dirs = j.dirs
      /\ \/ tree' = Removed(tree, j.child) /\ k.files = j.files
         \/ unlink(tree, j.child) # "OK"
  BY <1>1, DeleteChildUnlinkIs
<1>3. /\ j.files = 0 /\ j.dirs = 0 /\ k.path = j.path /\ j.child \notin j.children
      /\ Search(A, n, C, tree, j.path) /\ tree[j.child] # Dir /\ j.child \in C
  BY <1>1, <1>2 DEF SearchOK, Moves, SameOrder
<1>4. unlink(tree, j.child) = "OK"
  BY <1>1, <1>3, FoundIsThere DEF unlink
<1>5. C \ {j.child} = j.children
  BY <1>3
<1> HIDE DEF A, C
<1>6. Search(A, n, j.children, Removed(tree, j.child), j.path)
  BY <1>1, <1>3, <1>5, SearchUnlinks
<1>7. tree' = Removed(tree, j.child) /\ k.files = j.files
  BY <1>2, <1>4
<1> HIDE DEF j, k
<1>8. Search(k.list \o k.queue, Len(k.list), k.children, tree', k.path)
  BY <1>2, <1>3, <1>6, <1>7 DEF A
<1> QED
  BY <1>2, <1>3, <1>7, <1>8 DEF SearchOK, j, k

LEMMA DirsSearches ==
  ASSUME EnvBasics, NEW p \in Procs, DeleteDirs(p), faults' = 0, SearchOK(job[p], tree)
  PROVE  /\ SearchOK(job'[p], tree') /\ job'[p].files = 0 /\ job'[p].dirs = 0
         /\ tree' = Removed(tree, Last(job[p].list))
<1> DEFINE j == job[p]
           k == job'[p]
           d == Last(j.list)
<1>1. j \in Jobs /\ Basics(j) /\ AtItsLabel(j) /\ EnvTypeOK /\ j.pc = "rmdir" /\ IsTree(tree)
  BY DEF EnvBasics, EnvTypeOK, Basics, DeleteDirs, At
<1>2. j.list \in Seq(NonBase) /\ j.list # <<>> /\ Ranked(j.list, tree) /\ j.files = 0 /\ j.dirs = 0
  BY <1>1 DEF Basics, ListsOK, AtItsLabel, SearchOK
<1>3. /\ k.list = Front(j.list) /\ k.files = j.files
      /\ k.pc = (IF Front(j.list) = <<>> THEN "done" ELSE "rmdir")
      /\ \/ tree' = Removed(tree, d) /\ k.dirs = j.dirs
         \/ rmdir(tree, d) # "OK"
  BY <1>1, <1>2, DeleteDirsIs
<1>4. rmdir(tree, d) = "OK" /\ Ranked(Front(j.list), Removed(tree, d))
  BY <1>1, <1>2, RankedShrinks
<1> HIDE DEF j, k, d
<1> QED
  BY <1>2, <1>3, <1>4 DEF SearchOK, j, k, d

-----------------------------------------------------------------------------
(* What readers and writers know of their file                             *)

(* If the file was not written since seen, what was read is its beginning. *)
Fresh(j, d, w) ==
  /\ j.seen <= w[j.file]
  /\ j.seen = w[j.file] => j.size = Len(d[j.file]) /\ j.got = SubSeq(d[j.file], 1, Len(j.got))

ReadingOK(j, d, w) ==
  j.op = "ReadFileToString" =>
    /\ j.pc \in {"lookup", "size"} => j.got = <<>> /\ j.file = None
    /\ j.pc = "open" =>
         /\ j.got = <<>>
         /\ \/ j.file = None
            \/ j.file \in Files /\ Fresh(j, d, w)
    /\ j.pc = "pread" =>
         /\ Len(j.got) < j.size
         /\ \/ j.file = Dir
            \/ j.file \in Files /\ Fresh(j, d, w)

WholeRead(j, k) ==
  j.op = "ReadFileToString" /\ k.pc = "done" /\ IsOk(k.status) =>
    /\ Len(k.got) = k.size
    /\ k.file \in Files /\ k.seen = writes[k.file] => k.got = data[k.file]

(* The only writer                                                         *)
WriterOK(p, j, d) ==
  j.op = "WriteStringToFile" =>
    /\ j.pc = "append" => d[j.file] = <<>>
    /\ j.pc = "close" => d[j.file] = BytesOf(p, 1, j.pending)

Lone(p) == \A q \in Procs \ {p} : job[q].op # "WriteStringToFile"

LEMMA FreshGrows ==
  ASSUME EnvTypeOK, Grows, NEW j \in Jobs, ReadingOK(j, data, writes), writes' \in [Files -> Nat]
  PROVE  ReadingOK(j, data', writes')
<1>1. ASSUME j.file \in Files, Fresh(j, data, writes) PROVE Fresh(j, data', writes')
  <2>1. PICK f \in Files : f = j.file
    BY <1>1
  <2>2. writes[f] <= writes'[f] /\ (writes'[f] = writes[f] => data'[f] = data[f])
        /\ writes[f] \in Nat /\ writes'[f] \in Nat
    BY DEF Grows, EnvTypeOK
  <2>3. j.seen \in Int
    BY DEF Jobs
  <2>4. j.seen <= writes[f]
        /\ (j.seen = writes[f] => j.size = Len(data[f]) /\ j.got = SubSeq(data[f], 1, Len(j.got)))
    BY <1>1, <2>1 DEF Fresh
  <2>5. j.seen <= writes'[f]
        /\ (j.seen = writes'[f] => j.size = Len(data'[f]) /\ j.got = SubSeq(data'[f], 1, Len(j.got)))
    BY <2>2, <2>3, <2>4
  <2> QED
    BY <2>1, <2>5 DEF Fresh
<1> QED
  BY <1>1 DEF ReadingOK

LEMMA BeginningGrows ==
  ASSUME NEW d \in Seq(Byte), NEW n \in Nat, NEW m \in Nat, n + m <= Len(d)
  PROVE  /\ SubSeq(d, 1, n) \o SubSeq(d, n + 1, n + m) = SubSeq(d, 1, n + m)
         /\ SubSeq(d, n + 1, n + m) \in Seq(Byte) /\ Len(SubSeq(d, n + 1, n + m)) = m
<1> DEFINE a == SubSeq(d, 1, n)
           b == SubSeq(d, n + 1, n + m)
           c == SubSeq(d, 1, n + m)
<1>1. /\ a \in Seq(Byte) /\ Len(a) = n /\ \A i \in 1..n : a[i] = d[i]
      /\ c \in Seq(Byte) /\ Len(c) = n + m /\ \A i \in 1..(n + m) : c[i] = d[i]
  OBVIOUS
<1>2. b \in Seq(Byte) /\ Len(b) = m /\ \A i \in 1..m : b[i] = d[n + i]
  OBVIOUS
<1> HIDE DEF a, b, c
<1> DEFINE s == a \o b
<1> HIDE DEF s
<1>3. s \in Seq(Byte) /\ Len(s) = n + m /\ \A i \in 1..(n + m) : s[i] = IF i <= n THEN a[i] ELSE b[i - n]
  <2>1. /\ s \in Seq(Byte) /\ Len(s) = Len(a) + Len(b)
        /\ \A i \in 1..Len(a) + Len(b) : s[i] = IF i <= Len(a) THEN a[i] ELSE b[i - Len(a)]
    <3>1. a \in Seq(Byte) /\ b \in Seq(Byte)
      BY <1>1, <1>2
    <3> QED
      BY <3>1, ConcatProperties DEF s
  <2>2. Len(a) = n /\ Len(b) = m
    BY <1>1, <1>2
  <2> QED
    BY <2>1, <2>2
<1>4. ASSUME NEW i \in 1..(n + m) PROVE s[i] = c[i]
  <2>1. ASSUME ~(i <= n) PROVE i - n \in 1..m /\ n + (i - n) = i
    BY <2>1
  <2> QED
    BY <1>1, <1>2, <1>3, <2>1
<1>5. s = c
  BY <1>1, <1>3, <1>4, SeqEqual
<1> QED
  BY <1>1, <1>2, <1>5 DEF a, b, c, s

LEMMA OnlyReaders ==
  ASSUME EnvBasics, NEW p \in Procs, EnvStep(p), job[p].op = "ReadFileToString"
  PROVE  Lookup(p) \/ ReadSize(p) \/ ReadOpen(p) \/ ReadPread(p)
<1>1. AtItsLabel(job[p])
  BY DEF EnvBasics, Basics
<1> QED
  BY <1>1 DEF EnvStep, AtItsLabel, At, CallOnce, CreateProbe, CreateNext, DeleteProbe, DeleteScan,
       DeleteChild, DeleteChildStat, DeleteChildUnlink, DeleteDirs, WriteOpen, WriteAppend, WriteClose

LEMMA OnlyWriters ==
  ASSUME EnvBasics, NEW p \in Procs, EnvStep(p), job[p].op = "WriteStringToFile"
  PROVE  Lookup(p) \/ WriteOpen(p) \/ WriteAppend(p) \/ WriteClose(p)
<1>1. AtItsLabel(job[p])
  BY DEF EnvBasics, Basics
<1> QED
  BY <1>1 DEF EnvStep, AtItsLabel, At, CallOnce, CreateProbe, CreateNext, DeleteProbe, DeleteScan,
       DeleteChild, DeleteChildStat, DeleteChildUnlink, DeleteDirs, ReadSize, ReadOpen, ReadPread

(* Lookup leaves the locals alone. *)
LEMMA LookupLeaves ==
  ASSUME EnvBasics, NEW p \in Procs, Lookup(p)
  PROVE  /\ job[p].pc = "lookup" /\ UNCHANGED <<tree, data, writes, registry, faults>>
         /\ SameOrder(job'[p], job[p])
         /\ job'[p].got = job[p].got /\ job'[p].file = job[p].file
         /\ job'[p].left = job[p].left /\ job'[p].sub = job[p].sub
         /\ job'[p].list = job[p].list /\ job'[p].files = job[p].files /\ job'[p].dirs = job[p].dirs
         /\ \/ Missing(job[p]) /\ job'[p].pc = "done" /\ ~IsOk(job'[p].status)
            \/ ~Missing(job[p]) /\ job'[p].pc = FirstStep(job[p].op)
<1> DEFINE j == job[p]
<1>1. j \in Jobs /\ AtItsLabel(j) /\ j.pc = "lookup" /\ EnvTypeOK
  BY DEF EnvBasics, EnvTypeOK, Basics, Lookup, At
<1>2. PICK k : k = job'[p]
  OBVIOUS
<1>3. /\ UNCHANGED <<tree, data, writes, registry, faults>> /\ SameOrder(k, j)
      /\ k = IF Missing(j) THEN Completed(j, "UNIMPLEMENTED") ELSE [j EXCEPT !.pc = FirstStep(j.op)]
  BY <1>1, <1>2, LookupIs DEF Moves
<1>4. CASE Missing(j)
  <2>1. ~IsOk("UNIMPLEMENTED")
    BY DEF IsOk, OK
  <2> QED
    BY <1>1, <1>2, <1>3, <1>4, <2>1 DEF Completed, Jobs
<1>5. CASE ~Missing(j)
  BY <1>1, <1>2, <1>3, <1>5 DEF Jobs
<1> QED
  BY <1>4, <1>5

LEMMA StepReads ==
  ASSUME EnvBasics, NEW p \in Procs, EnvStep(p), job[p].op = "ReadFileToString",
         ReadingOK(job[p], data, writes)
  PROVE  ReadingOK(job'[p], data, writes) /\ WholeRead(job[p], job'[p])
<1> DEFINE j == job[p]
           k == job'[p]
<1>1. j \in Jobs /\ Basics(j) /\ AtItsLabel(j) /\ EnvTypeOK
  BY DEF EnvBasics, EnvTypeOK, Basics
<1>2. ReadingOK(j, data, writes) /\ j.op = "ReadFileToString"
  OBVIOUS
<1>3. CASE Lookup(p)
  <2>1. /\ j.pc = "lookup" /\ k.got = j.got /\ k.file = j.file
        /\ (k.pc = "done" /\ ~IsOk(k.status)) \/ k.pc = FirstStep(j.op)
    BY <1>3, LookupLeaves
  <2>2. FirstStep(j.op) = "size"
    BY <1>2 DEF FirstStep
  <2> HIDE DEF j, k
  <2> QED
    BY <1>2, <2>1, <2>2 DEF ReadingOK, WholeRead, j, k
<1>4. CASE ReadSize(p)
  <2>1. /\ j.pc = "size"
        /\ \/ k.pc = "done" /\ ~IsOk(k.status)
           \/ /\ k.pc = "open" /\ k.got = j.got
              /\ \/ k.size = 1 /\ k.file = j.file
                 \/ k.file \in Files /\ k.size = Len(data[k.file]) /\ k.seen = writes[k.file]
    BY <1>1, <1>4, ReadSizeIs
  <2>2. j.got = <<>> /\ j.file = None
    BY <1>2, <2>1 DEF ReadingOK
  <2> HIDE DEF j, k
  <2>3. CASE k.pc = "done" /\ ~IsOk(k.status)
    BY <2>3 DEF ReadingOK, WholeRead, j, k
  <2>4. CASE k.pc = "open" /\ k.got = <<>> /\ k.file = None
    BY <2>4 DEF ReadingOK, WholeRead, j, k
  <2>5. CASE /\ k.pc = "open" /\ k.got = <<>>
             /\ k.file \in Files /\ k.size = Len(data[k.file]) /\ k.seen = writes[k.file]
    <3>1. PICK f \in Files : f = k.file
      BY <2>5
    <3>2. SubSeq(data[f], 1, 0) = <<>> /\ Len(<<>>) = 0 /\ writes[f] \in Nat
      BY <1>1, SubSeqEmpty DEF EnvTypeOK
    <3>3. Fresh(k, data, writes)
      BY <2>5, <3>1, <3>2 DEF Fresh
    <3> QED
      BY <2>5, <3>3 DEF ReadingOK, WholeRead, j, k
  <2> QED
    BY <2>1, <2>2, <2>3, <2>4, <2>5
<1>5. CASE ReadOpen(p)
  <2>1. /\ j.pc = "open"
        /\ \/ k.pc = "done" /\ ~IsOk(k.status)
           \/ /\ k.pc = IF j.size = 0 THEN "done" ELSE "pread"
              /\ k.got = j.got /\ k.size = j.size
              /\ k.file \in Files \cup {Dir}
              /\ k.seen = IF k.file = j.file THEN j.seen ELSE -1
    BY <1>1, <1>5, ReadOpenIs
  <2>2. j.got = <<>> /\ (j.file = None \/ (j.file \in Files /\ Fresh(j, data, writes)))
    BY <1>2, <2>1 DEF ReadingOK
  <2>3. j.size \in Nat /\ None # Dir /\ None \notin Files /\ Dir \notin Files
    BY <1>1, FileAssumption DEF Jobs, None, Dir
  <2> HIDE DEF j, k
  <2>4. CASE k.pc = "done" /\ ~IsOk(k.status)
    BY <2>4 DEF ReadingOK, WholeRead, j, k
  <2>5. CASE /\ k.pc = IF j.size = 0 THEN "done" ELSE "pread"
             /\ k.got = <<>> /\ k.size = j.size
             /\ k.file \in Files \cup {Dir}
             /\ k.seen = IF k.file = j.file THEN j.seen ELSE -1
    <3>1. ASSUME NEW f \in Files, f = k.file
          PROVE  /\ Fresh(k, data, writes)
                 /\ k.seen = writes[f] => k.size = Len(data[f])
      <4>1. writes[f] \in Nat /\ SubSeq(data[f], 1, 0) = <<>> /\ Len(<<>>) = 0
        BY <1>1, SubSeqEmpty DEF EnvTypeOK
      <4>2. CASE k.file = j.file
        <5>1. j.file \in Files
          BY <3>1, <4>2
        <5>2. Fresh(j, data, writes)
          BY <2>2, <2>3, <5>1
        <5> QED
          BY <2>2, <2>5, <3>1, <4>1, <4>2, <5>2 DEF Fresh
      <4>3. CASE k.file # j.file
        <5>1. k.seen = -1
          BY <2>5, <4>3
        <5> QED
          BY <3>1, <4>1, <5>1 DEF Fresh
      <4> QED
        BY <4>2, <4>3
    <3>2. ReadingOK(k, data, writes)
      <4>1. Len(k.got) = 0
        BY <2>5
      <4>2. k.file \in Files => Fresh(k, data, writes)
        BY <3>1
      <4> QED
        BY <2>3, <2>5, <4>1, <4>2 DEF ReadingOK
    <3>3. WholeRead(j, k)
      <4>1. ASSUME k.pc = "done" PROVE k.size = 0 /\ Len(k.got) = 0
        BY <2>5, <4>1
      <4>2. ASSUME k.pc = "done", k.file \in Files, k.seen = writes[k.file] PROVE data[k.file] = <<>>
        <5>1. PICK f \in Files : f = k.file
          BY <4>2
        <5>2. Len(data[f]) = 0 /\ data[f] \in Seq(Byte)
          BY <1>1, <3>1, <4>1, <4>2, <5>1 DEF EnvTypeOK
        <5> QED
          BY <5>1, <5>2, EmptySeq
      <4> QED
        BY <2>5, <4>1, <4>2 DEF WholeRead
    <3> QED
      BY <3>2, <3>3 DEF j, k
  <2> QED
    BY <2>1, <2>2, <2>4, <2>5
<1>6. CASE ReadPread(p)
  <2> DEFINE sofar == Len(j.got)
  <2>1. j.file # None /\ j.pc = "pread"
    BY <1>1, <1>6 DEF Basics, ReadPread, At
  <2>2. \/ k.pc = "done" /\ ~IsOk(k.status)
        \/ /\ j.file \in Files
           /\ \E n \in Nat :
                /\ 0 < n /\ sofar + n <= j.size /\ sofar + n <= Len(data[j.file])
                /\ k.got = j.got \o SubSeq(data[j.file], sofar + 1, sofar + n)
                /\ k.pc = IF sofar + n = j.size THEN "done" ELSE "pread"
           /\ k.size = j.size /\ k.file = j.file /\ k.seen = j.seen
    BY <1>1, <1>6, <2>1, ReadPreadIs
  <2>3. Len(j.got) < j.size /\ (j.file = Dir \/ (j.file \in Files /\ Fresh(j, data, writes)))
    BY <1>2, <2>1 DEF ReadingOK
  <2>4. j.size \in Nat /\ sofar \in Nat /\ Dir \notin Files
    BY <1>1, FileAssumption DEF Jobs
  <2> HIDE DEF k
  <2>5. CASE k.pc = "done" /\ ~IsOk(k.status)
    BY <2>5 DEF ReadingOK, WholeRead, k
  <2>6. ASSUME NEW f \in Files, f = j.file, NEW n \in Nat,
               0 < n, sofar + n <= j.size, sofar + n <= Len(data[f]),
               k.got = j.got \o SubSeq(data[f], sofar + 1, sofar + n),
               k.pc = IF sofar + n = j.size THEN "done" ELSE "pread",
               k.size = j.size, k.file = j.file, k.seen = j.seen
        PROVE  ReadingOK(k, data, writes) /\ WholeRead(j, k)
    <3>1. data[f] \in Seq(Byte) /\ writes[f] \in Nat /\ j.got \in Seq(Byte)
      BY <1>1 DEF EnvTypeOK, Jobs
    <3>2. Len(k.got) = sofar + n
      <4>1. SubSeq(data[f], sofar + 1, sofar + n) \in Seq(Byte)
            /\ Len(SubSeq(data[f], sofar + 1, sofar + n)) = n
        BY <2>4, <2>6, <3>1, BeginningGrows
      <4> DEFINE more == SubSeq(data[f], sofar + 1, sofar + n)
      <4> HIDE DEF more
      <4>2. Len(j.got \o more) = Len(j.got) + Len(more)
        BY <3>1, <4>1, ConcatProperties DEF more
      <4> QED
        BY <2>6, <4>1, <4>2 DEF more
    <3>3. Fresh(j, data, writes)
      BY <2>3, <2>4, <2>6
    <3>4. ASSUME j.seen = writes[f]
          PROVE  k.size = Len(data[f]) /\ k.got = SubSeq(data[f], 1, sofar + n)
      <4>1. j.size = Len(data[f]) /\ j.got = SubSeq(data[f], 1, sofar)
        BY <2>6, <3>3, <3>4 DEF Fresh
      <4>2. SubSeq(data[f], 1, sofar) \o SubSeq(data[f], sofar + 1, sofar + n) = SubSeq(data[f], 1, sofar + n)
        BY <2>4, <2>6, <3>1, BeginningGrows
      <4> HIDE DEF sofar
      <4> QED
        BY <2>6, <4>1, <4>2
    <3> HIDE DEF j, sofar
    <3>5. Fresh(k, data, writes)
      <4>1. k.seen <= writes[f]
        BY <2>6, <3>3 DEF Fresh
      <4>2. ASSUME k.seen = writes[f] PROVE k.size = Len(data[f]) /\ k.got = SubSeq(data[f], 1, Len(k.got))
        BY <2>6, <3>2, <3>4, <4>2
      <4>3. k.file = f
        BY <2>6
      <4> QED
        BY <4>1, <4>2, <4>3 DEF Fresh
    <3>6. ReadingOK(k, data, writes)
      <4> DEFINE l == Len(k.got)
      <4> HIDE DEF l
      <4>0. /\ l = sofar + n /\ l <= j.size /\ k.pc = (IF l = j.size THEN "done" ELSE "pread")
            /\ k.file \in Files /\ k.size = j.size
        BY <2>6, <3>2 DEF l
      <4>1. k.file \in Files /\ (k.pc = "done" \/ (k.pc = "pread" /\ Len(k.got) # j.size))
        BY <4>0 DEF l
      <4>2. Len(k.got) <= j.size /\ Len(k.got) \in Nat
        BY <2>4, <4>0 DEF l
      <4>3. Len(k.got) # j.size => Len(k.got) < k.size
        BY <2>4, <4>0, <4>2 DEF l
      <4> QED
        BY <3>5, <4>1, <4>3 DEF ReadingOK
    <3>7. WholeRead(j, k)
      <4>1. ASSUME k.pc = "done", k.seen = writes[f] PROVE k.got = data[f]
        <5>1. sofar + n = Len(data[f])
          BY <2>6, <3>4, <4>1
        <5> QED
          BY <2>6, <3>1, <3>4, <4>1, <5>1, SubSeqFull
      <4> QED
        BY <2>6, <3>2, <4>1 DEF WholeRead
    <3> QED
      BY <3>6, <3>7
  <2> HIDE DEF j, sofar
  <2> QED
    BY <2>2, <2>5, <2>6 DEF j, k
<1> QED
  BY <1>3, <1>4, <1>5, <1>6, OnlyReaders


LEMMA StepWrites ==
  ASSUME EnvBasics, NEW p \in Procs, EnvStep(p), job[p].op = "WriteStringToFile",
         WriterOK(p, job[p], data)
  PROVE  /\ WriterOK(p, job'[p], data')
         /\ job'[p].pc = "done" /\ IsOk(job'[p].status) =>
              data'[job[p].file] = BytesOf(p, 1, job[p].bytes)
<1> DEFINE j == job[p]
           k == job'[p]
<1>1. j \in Jobs /\ AtItsLabel(j) /\ EnvTypeOK
  BY DEF EnvBasics, EnvTypeOK, Basics
<1>2. WriterOK(p, j, data) /\ j.op = "WriteStringToFile"
  OBVIOUS
<1>3. CASE Lookup(p)
  <2>1. (k.pc = "done" /\ ~IsOk(k.status)) \/ k.pc = FirstStep(j.op)
    BY <1>3, LookupLeaves
  <2>2. FirstStep(j.op) = "create"
    BY <1>2 DEF FirstStep
  <2> HIDE DEF j, k
  <2> QED
    BY <2>1, <2>2 DEF WriterOK, j, k
<1>4. CASE WriteOpen(p)
  <2>1. k.pc = "append" => data'[k.file] = <<>>
    BY <1>4, WriteOpenKeeps
  <2>2. (k.pc = "done" /\ ~IsOk(k.status)) \/ k.pc = "append"
    BY <1>1, <1>4, WriteOpenIs
  <2> HIDE DEF j, k
  <2> QED
    BY <2>1, <2>2 DEF WriterOK, j, k
<1>5. CASE WriteAppend(p)
  <2>1. /\ j.pc = "append" /\ k.pc = "close" /\ k.file = j.file
        /\ data[j.file] = <<>> => data'[j.file] = BytesOf(p, 1, k.pending)
    BY <1>5, WriteAppendKeeps
  <2> HIDE DEF j, k
  <2> QED
    BY <1>2, <2>1 DEF WriterOK, j, k
<1>6. CASE WriteClose(p)
  <2>1. /\ j.pc = "close" /\ k.pc = "done"
        /\ IsOk(k.status) /\ data[j.file] = BytesOf(p, 1, j.pending) =>
             data'[j.file] = BytesOf(p, 1, j.bytes)
    BY <1>6, WriteCloseKeeps
  <2> HIDE DEF j, k
  <2> QED
    BY <1>2, <2>1 DEF WriterOK, j, k
<1> QED
  BY <1>3, <1>4, <1>5, <1>6, OnlyWriters

LEMMA OthersLeave ==
  ASSUME EnvBasics, NEW q \in Procs, EnvStep(q), job[q].op # "WriteStringToFile"
  PROVE  data' = data
<1>1. AtItsLabel(job[q])
  BY DEF EnvBasics, Basics
<1>2. ~(WriteOpen(q) \/ WriteAppend(q) \/ WriteClose(q))
  BY <1>1 DEF AtItsLabel, At, WriteOpen, WriteAppend, WriteClose
<1> QED
  BY <1>2 DEF EnvStep, Lookup, CallOnce, CreateProbe, CreateNext, DeleteProbe, DeleteScan, DeleteChild,
       DeleteChildStat, DeleteChildUnlink, DeleteDirs, ReadSize, ReadOpen, ReadPread, SameFiles

ContentInv ==
  /\ EnvBasics
  /\ \A p \in Procs : ReadingOK(job[p], data, writes)
  /\ \A p \in Procs : Lone(p) => WriterOK(p, job[p], data)

(* The part of ContentIsWhole that is about p *)
ContentTold(p) ==
  /\ Finishes(p, "ReadFileToString") /\ IsOk(job'[p].status) =>
       LET done == job'[p] IN
       /\ Len(done.got) = done.size
       /\ done.file \in Files /\ done.seen = writes[done.file] => done.got = data[done.file]
  /\ Finishes(p, "WriteStringToFile") /\ IsOk(job'[p].status) =>
       LET f == job[p].file IN
       (\E q \in Procs \ {p} : job[q].op = "WriteStringToFile")
         \/ data'[f] = BytesOf(p, 1, job[p].bytes)

LEMMA ContentStep ==
  ASSUME ContentInv, NEW p \in Procs, EnvStep(p)
  PROVE  ContentInv' /\ \A q \in Procs : ContentTold(q)
<1>1. EnvBasics /\ EnvTypeOK /\ Kept(p) /\ Grows /\ EnvBasics'
  BY StepKeeps, StepGrows, KeptIs DEF ContentInv, EnvBasics
<1>2. /\ \A q \in Procs \ {p} : job'[q] = job[q]
      /\ \A q \in Procs : job'[q].op = job[q].op
      /\ writes' \in [Files -> Nat] /\ \A q \in Procs : job[q] \in Jobs
  BY <1>1 DEF Kept, Moves, SameOrder, EnvTypeOK
<1>3. ASSUME NEW q \in Procs PROVE ReadingOK(job'[q], data', writes')
  <2>1. CASE q = p /\ job[p].op = "ReadFileToString"
    <3>1. ReadingOK(job'[p], data, writes)
      BY <2>1, StepReads DEF ContentInv
    <3>2. UNCHANGED <<data, writes>>
      BY <1>1, <2>1, OnlyReaders DEF Lookup, ReadSize, ReadOpen, ReadPread, SameFiles
    <3> QED
      BY <2>1, <3>1, <3>2
  <2>2. CASE q = p /\ job[p].op # "ReadFileToString"
    BY <1>2, <2>2 DEF ReadingOK
  <2>3. CASE q # p
    <3>1. ReadingOK(job[q], data, writes) /\ job'[q] = job[q] /\ job[q] \in Jobs
      BY <1>2, <2>3 DEF ContentInv
    <3> QED
      BY <1>1, <1>2, <3>1, FreshGrows
  <2> QED
    BY <2>1, <2>2, <2>3
<1>4. ASSUME NEW q \in Procs, Lone(q) PROVE WriterOK(q, job'[q], data')
  <2>1. WriterOK(q, job[q], data)
    BY <1>4 DEF ContentInv
  <2>2. CASE q = p /\ job[p].op = "WriteStringToFile"
    BY <1>1, <2>1, <2>2, StepWrites
  <2>3. CASE job[q].op # "WriteStringToFile"
    BY <1>2, <2>3 DEF WriterOK
  <2>4. CASE q # p
    <3>1. job'[q] = job[q] /\ job[p].op # "WriteStringToFile"
      BY <1>2, <1>4, <2>4 DEF Lone
    <3> QED
      BY <1>1, <2>1, <3>1, OthersLeave
  <2> QED
    BY <2>2, <2>3, <2>4
<1>5. ContentInv'
  <2>1. \A q \in Procs : Lone(q)' => Lone(q)
    BY <1>2 DEF Lone
  <2>2. \A q \in Procs : ReadingOK(job[q], data, writes)'
    BY <1>3 DEF ReadingOK, Fresh
  <2>3. \A q \in Procs : Lone(q) => WriterOK(q, job[q], data)'
    BY <1>4 DEF WriterOK, BytesOf
  <2> QED
    BY <1>1, <2>1, <2>2, <2>3 DEF ContentInv
<1>6. ASSUME NEW q \in Procs PROVE ContentTold(q)
  <2>1. CASE q # p
    <3>1. ~Finishes(q, "ReadFileToString") /\ ~Finishes(q, "WriteStringToFile")
      BY <1>2, <2>1 DEF Finishes, At
    <3> QED
      BY <3>1 DEF ContentTold
  <2>2. CASE q = p
    <3>1. ASSUME job[p].op = "ReadFileToString" PROVE WholeRead(job[p], job'[p])
      BY <1>1, <3>1, StepReads DEF ContentInv
    <3>2. ASSUME job[p].op = "WriteStringToFile", Lone(p), job'[p].pc = "done", IsOk(job'[p].status)
          PROVE  data'[job[p].file] = BytesOf(p, 1, job[p].bytes)
      BY <1>1, <3>2, StepWrites DEF ContentInv
    <3>3. ~Lone(p) => \E o \in Procs \ {p} : job[o].op = "WriteStringToFile"
      BY DEF Lone
    <3> QED
      BY <2>2, <3>1, <3>2, <3>3 DEF ContentTold, Finishes, WholeRead
  <2> QED
    BY <2>1, <2>2
<1> QED
  BY <1>5, <1>6

LEMMA ContentNext ==
  ASSUME ContentInv, [EnvNext]_envVars
  PROVE  ContentInv' /\ [\A p \in Procs : ContentTold(p)]_envVars
<1>1. CASE \E p \in Procs : EnvStep(p)
  BY <1>1, ContentStep
<1>2. ASSUME NEW s \in Schemes, Register(s, "other")
      PROVE  ContentInv' /\ [\A p \in Procs : ContentTold(p)]_envVars
  <2>1. EnvBasics' /\ UNCHANGED <<tree, data, writes, job, faults>>
    BY <1>2, RegisterKeeps DEF ContentInv
  <2>2. ContentInv'
    BY <2>1 DEF ContentInv, ReadingOK, Fresh, Lone, WriterOK, BytesOf
  <2>3. \A p \in Procs : ContentTold(p)
    <3>1. \A p \in Procs : ~Finishes(p, "ReadFileToString") /\ ~Finishes(p, "WriteStringToFile")
      BY <2>1 DEF Finishes, At
    <3> QED
      BY <3>1 DEF ContentTold
  <2> QED
    BY <2>2, <2>3
<1>3. CASE UNCHANGED envVars
  <2>1. EnvBasics'
    BY <1>3, BasicsKept DEF ContentInv
  <2> QED
    BY <1>3, <2>1 DEF ContentInv, ReadingOK, Fresh, Lone, WriterOK, BytesOf, envVars
<1> QED
  BY <1>1, <1>2, <1>3 DEF EnvNext

LEMMA ContentInit ==
  ASSUME EnvInit
  PROVE  ContentInv
<1>1. EnvBasics
  BY InitBasics
<1>2. ASSUME NEW p \in Procs
      PROVE  job[p].pc \in {"done", "lookup"} /\ job[p].got = <<>> /\ job[p].file = None
  <2>1. IsJob(job[p])
    BY EnvAssumption DEF EnvInit
  <2> QED
    BY <2>1 DEF IsJob, Job
<1>3. \A p \in Procs : ReadingOK(job[p], data, writes) /\ WriterOK(p, job[p], data)
  BY <1>2 DEF ReadingOK, WriterOK
<1> QED
  BY <1>1, <1>3 DEF ContentInv

(* What ReadFileToString returns is as long as the file was and, if nobody wrote the file       *)
(* meanwhile, the file; a lone WriteStringToFile leaves just its bytes (env.cc): ContentIsWhole. *)
THEOREM ContentsAreWhole == EnvSpec => ContentIsWhole
<1>1. EnvInit => ContentInv
  BY ContentInit
<1>2. ContentInv /\ [EnvNext]_envVars => ContentInv'
  BY ContentNext
<1>3. ContentInv /\ [EnvNext]_envVars => [\A p \in Procs : ContentTold(p)]_envVars
  BY ContentNext
<1>4. (\A p \in Procs : ContentTold(p)) => 
        \A p \in Procs :
          /\ Finishes(p, "ReadFileToString") /\ IsOk(job'[p].status) =>
               LET done == job'[p] IN
               /\ Len(done.got) = done.size
               /\ done.file \in Files /\ done.seen = writes[done.file] => done.got = data[done.file]
          /\ Finishes(p, "WriteStringToFile") /\ IsOk(job'[p].status) =>
               LET f == job[p].file IN
               (\E q \in Procs \ {p} : job[q].op = "WriteStringToFile")
                 \/ data'[f] = BytesOf(p, 1, job[p].bytes)
  BY DEF ContentTold
<1> QED
  BY <1>1, <1>2, <1>3, <1>4, PTL DEF EnvSpec, ContentIsWhole

LEMMA NoneStops ==
  ASSUME EnvBasics, NEW p \in Procs, EnvStep(p)
  PROVE  job[p].op # "none" /\ job[p].pc # "done"
<1>1. AtItsLabel(job[p])
  BY DEF EnvBasics, Basics
<1>2. job[p].pc # "done"
  BY DEF EnvStep, At, Lookup, CallOnce, CreateProbe, CreateNext, DeleteProbe, DeleteScan,
       DeleteChild, DeleteChildStat, DeleteChildUnlink, DeleteDirs, ReadSize, ReadOpen, ReadPread,
       WriteOpen, WriteAppend, WriteClose
<1> QED
  BY <1>1, <1>2 DEF AtItsLabel

LEMMA OnlyDeletes ==
  ASSUME EnvBasics, NEW p \in Procs, EnvStep(p), job[p].op = "DeleteRecursively"
  PROVE  \/ Lookup(p) \/ DeleteProbe(p) \/ DeleteScan(p) \/ DeleteChild(p) \/ DeleteChildStat(p)
         \/ DeleteChildUnlink(p) \/ DeleteDirs(p)
<1>1. AtItsLabel(job[p])
  BY DEF EnvBasics, Basics
<1> QED
  BY <1>1 DEF EnvStep, AtItsLabel, At, CallOnce, CreateProbe, CreateNext, ReadSize, ReadOpen, ReadPread,
       WriteOpen, WriteAppend, WriteClose

LEMMA OnlyCreates ==
  ASSUME EnvBasics, NEW p \in Procs, EnvStep(p), job[p].op = "RecursivelyCreateDir"
  PROVE  Lookup(p) \/ CreateProbe(p) \/ CreateNext(p)
<1>1. AtItsLabel(job[p])
  BY DEF EnvBasics, Basics
<1> QED
  BY <1>1 DEF EnvStep, AtItsLabel, At, CallOnce, DeleteProbe, DeleteScan, DeleteChild, DeleteChildStat,
       DeleteChildUnlink, DeleteDirs, ReadSize, ReadOpen, ReadPread, WriteOpen, WriteAppend, WriteClose

(* The local file system is never missing. *)
LEMMA NeverMissing ==
  ASSUME EnvBasics, NEW p \in Procs, job[p].op # "RenameFile"
  PROVE  ~Missing(job[p])
  BY DEF EnvBasics, Basics, Missing

(* A deletion only removes. *)
LEMMA DeletionRemoves ==
  ASSUME EnvBasics, NEW p \in Procs, EnvStep(p), job[p].op = "DeleteRecursively"
  PROVE  tree' = tree \/ \E c : tree' = Removed(tree, c)
<1>1. EnvTypeOK /\ Basics(job[p]) /\ AtItsLabel(job[p])
  BY DEF EnvBasics, Basics
<1>2. CASE DeleteDirs(p)
  <2>1. job[p].list # <<>>
    BY <1>1, <1>2 DEF Basics, ListsOK, DeleteDirs, At, AtItsLabel
  <2> QED
    BY <1>1, <1>2, <2>1, DeleteDirsIs
<1>3. CASE DeleteChildUnlink(p)
  BY <1>1, <1>3, DeleteChildUnlinkIs
<1>4. CASE Lookup(p) \/ DeleteProbe(p) \/ DeleteScan(p) \/ DeleteChild(p) \/ DeleteChildStat(p)
  BY <1>4 DEF Lookup, DeleteProbe, DeleteScan, DeleteChild, DeleteChildStat, SameFiles
<1> QED
  BY <1>2, <1>3, <1>4, OnlyDeletes

LEMMA DeletionCounts ==
  ASSUME EnvBasics, NEW p \in Procs, EnvStep(p), job[p].op = "DeleteRecursively",
         job'[p].pc = "done", IsOk(job'[p].status), job'[p].files = 0, job'[p].dirs = 0
  PROVE  \A q \in Below(job[p].path) : Absent(tree', q)
<1> DEFINE j == job[p]
           k == job'[p]
<1>1. EnvTypeOK /\ Basics(j) /\ AtItsLabel(j) /\ j \in Jobs /\ IsTree(tree) /\ Kept(p)
  BY StepKeeps DEF EnvBasics, Basics, EnvTypeOK
<1>2. ~Lookup(p)
  <2>1. FirstStep("DeleteRecursively") # "done"
    BY DEF FirstStep
  <2> QED
    BY <2>1, LookupLeaves
<1>3. ~DeleteProbe(p)
  <2>1. ASSUME DeleteProbe(p) PROVE k.dirs = 1 \/ k.pc = "scan"
    <3>1. k = [j EXCEPT !.pc = "scan", !.queue = <<j.path>>] \/ k.dirs = 1
      BY <1>1, <2>1, DeleteProbeIs
    <3> QED
      BY <1>1, <3>1 DEF Jobs
  <2> QED
    BY <2>1
<1>4. ~DeleteScan(p)
  <2>1. ASSUME DeleteScan(p) PROVE k.pc \in {"rmdir", "child", "scan"}
    <3>1. k = [j EXCEPT !.pc = "rmdir"] \/ k.pc = "child" \/ k.pc = "scan"
      BY <1>1, <2>1, DeleteScanIs
    <3> QED
      BY <1>1, <3>1 DEF Jobs
  <2> QED
    BY <2>1
<1>5. ~DeleteChild(p) /\ ~DeleteChildStat(p) /\ ~DeleteChildUnlink(p)
  <2>1. DeleteChild(p) => k.pc # "done"
    BY <1>1, DeleteChildIs
  <2>2. DeleteChildStat(p) => k.pc # "done"
    BY <1>1, DeleteChildStatIs
  <2>3. DeleteChildUnlink(p) => k.pc # "done"
    BY <1>1, DeleteChildUnlinkIs
  <2> QED
    BY <2>1, <2>2, <2>3
<1>6. DeleteDirs(p)
  BY <1>2, <1>3, <1>4, <1>5, OnlyDeletes
<1>7. j.list \in Seq(NonBase) /\ j.list # <<>> /\ j.list[1] = j.path /\ j.dirs \in Nat
  BY <1>1, <1>6 DEF Basics, ListsOK, AtItsLabel, DeleteDirs, At, Jobs
<1>8. /\ k.pc = (IF Front(j.list) = <<>> THEN "done" ELSE "rmdir")
      /\ \/ tree' = Removed(tree, Last(j.list))
         \/ k.dirs = j.dirs + 1
  BY <1>1, <1>6, <1>7, DeleteDirsIs
<1>9. Front(j.list) = <<>> /\ tree' = Removed(tree, Last(j.list))
  BY <1>7, <1>8
<1>10. Last(j.list) = j.path
  <2> DEFINE l == j.list
  <2>1. l \in Seq(NonBase) /\ l # <<>> /\ Front(l) = <<>>
    BY <1>7, <1>9
  <2> HIDE DEF l
  <2>2. Len(Front(l)) = Len(l) - 1
    BY <2>1, FrontIs
  <2>3. Len(Front(l)) = 0 /\ Len(l) \in Nat
    BY <2>1
  <2>4. Len(l) = 1
    BY <2>2, <2>3
  <2>5. Len(j.list) = 1
    BY <2>4 DEF l
  <2> QED
    BY <1>7, <2>5 DEF Last
<1>11. j.path \in Paths
  BY <1>1 DEF Jobs
<1>12. Absent(tree', j.path) /\ IsTree(tree')
  BY <1>1, <1>9, <1>10, <1>11 DEF Removed, IsTree, Absent, Kept
<1> HIDE DEF j
<1>13. \A q \in Below(j.path) : Absent(tree', q)
  BY <1>11, <1>12, NothingBelow
<1> QED
  BY <1>13 DEF j

LEMMA DeletesAlone ==
  ASSUME EnvBasics, NEW p \in Procs, EnvStep(p), job[p].op = "DeleteRecursively",
         faults' = 0, tree[job[p].path] = Dir, SearchOK(job[p], tree)
  PROVE  /\ SearchOK(job'[p], tree')
         /\ job'[p].pc = "done" => job'[p].files = 0 /\ job'[p].dirs = 0
<1>1. CASE Lookup(p)
  <2>1. job'[p].pc = "exists"
    BY <1>1, LookupLeaves, NeverMissing DEF FirstStep
  <2> QED
    BY <2>1 DEF SearchOK
<1> QED
  BY <1>1, OnlyDeletes, ProbeSearches, ScanSearches, ChildSearches, StatSearches, UnlinkSearches, DirsSearches

Cleanly(p) ==
  job[p].op = "DeleteRecursively" /\ Alone(p) /\ faults = 0 /\ tree[job[p].path] = Dir

DeleteInv == EnvBasics /\ \A p \in Procs : Cleanly(p) => SearchOK(job[p], tree)

LEMMA DeleteStep ==
  ASSUME DeleteInv, NEW p \in Procs, EnvStep(p)
  PROVE  DeleteInv' /\ \A q \in Procs : DeletionTold(q)
<1>1. EnvBasics /\ EnvTypeOK /\ Kept(p) /\ EnvBasics'
  BY StepKeeps, KeptIs DEF DeleteInv, EnvBasics
<1>2. /\ \A q \in Procs \ {p} : job'[q] = job[q]
      /\ \A q \in Procs : job'[q].op = job[q].op /\ job'[q].path = job[q].path
      /\ faults \in Nat /\ faults' \in Nat /\ faults <= faults'
      /\ \A q \in Procs : job[q] \in Jobs /\ job[q].path \in Paths
  BY <1>1 DEF Kept, Moves, SameOrder, EnvTypeOK, Jobs
<1>3. \A q \in Procs : Alone(q)' => Alone(q)
  BY <1>2 DEF Alone
<1>4. \A q \in Procs \ {p} : ~Alone(q)
  BY <1>1, NoneStops DEF Alone
<1>5. faults' = 0 => faults = 0
  BY <1>2
<1>6. ASSUME Cleanly(p)' PROVE SearchOK(job'[p], tree')
  <2>1. job[p].op = "DeleteRecursively" /\ Alone(p) /\ faults' = 0 /\ faults = 0 /\ tree'[job[p].path] = Dir
    BY <1>2, <1>3, <1>5, <1>6 DEF Cleanly
  <2>2. tree[job[p].path] = Dir
    <3>1. IsTree(tree) /\ None # Dir
      BY <1>1 DEF EnvTypeOK, None, Dir
    <3>2. \A c : Removed(tree, c)[job[p].path] \in {None, tree[job[p].path]}
      BY <1>2, <3>1 DEF Removed, IsTree
    <3> QED
      BY <1>1, <2>1, <3>1, <3>2, DeletionRemoves
  <2>3. SearchOK(job[p], tree)
    BY <2>1, <2>2 DEF DeleteInv, Cleanly
  <2> QED
    BY <1>1, <2>1, <2>2, <2>3, DeletesAlone
<1>7. DeleteInv'
  <2> SUFFICES ASSUME NEW q \in Procs, Cleanly(q)' PROVE SearchOK(job[q], tree)'
    BY <1>1 DEF DeleteInv
  <2>1. q = p
    BY <1>3, <1>4 DEF Cleanly
  <2>2. SearchOK(job'[q], tree')
    BY <1>6, <2>1
  <2> QED
    BY <2>2 DEF SearchOK, Search, Ranked, Distinct, Later, ChildrenOf, Absent
<1>8. DeletionTold(p)
  <2> SUFFICES ASSUME job[p].op = "DeleteRecursively", job'[p].pc = "done"
               PROVE  DeletionTold(p)
    BY DEF DeletionTold, Finishes
  <2>1. /\ IsOk(job'[p].status) /\ job'[p].files = 0 /\ job'[p].dirs = 0 =>
             \A q \in Below(job[p].path) : Absent(tree', q)
    BY <1>1, DeletionCounts
  <2>2. /\ Alone(p) /\ faults' = 0 /\ tree[job[p].path] = Dir =>
             job'[p].files = 0 /\ job'[p].dirs = 0
    <3> SUFFICES ASSUME Alone(p), faults' = 0, tree[job[p].path] = Dir
                 PROVE  job'[p].files = 0 /\ job'[p].dirs = 0
      OBVIOUS
    <3>1. SearchOK(job[p], tree)
      BY <1>5 DEF DeleteInv, Cleanly
    <3> QED
      BY <1>1, <3>1, DeletesAlone
  <2> QED
    BY <2>1, <2>2 DEF DeletionTold
<1>9. \A q \in Procs \ {p} : DeletionTold(q)
  BY <1>2 DEF DeletionTold, Finishes, At
<1> QED
  BY <1>7, <1>8, <1>9

-----------------------------------------------------------------------------
(* RecursivelyCreateDir                                                    *)

NextOf(j) == Append(j.left, Head(j.sub))

LEMMA OnTheWay ==
  ASSUME NEW j \in Jobs, NameOK(j), j.pc \in {"lookup", "probe", "make"}
  PROVE  /\ j.left \in Paths /\ IsPrefix(j.left, j.path)
         /\ j.sub = <<>> => j.left = j.path
         /\ j.sub # <<>> => /\ NextOf(j) \in Paths /\ NextOf(j) # <<>> /\ Front(NextOf(j)) = j.left
                            /\ (Tail(j.sub) = <<>> => NextOf(j) = j.path)
<1> DEFINE l == j.left
           s == j.sub
<1>1. l \in Seq(STRING) /\ s \in Seq(STRING) /\ l \o s = j.path /\ j.path \in Paths
  BY DEF NameOK, Jobs
<1> HIDE DEF l, s
<1>2. l \in Paths
  BY <1>1, BeginningsAreNames
<1>3. IsPrefix(l, j.path)
  <2>1. Len(l) \in Nat /\ Len(s) \in Nat
    BY <1>1
  <2>2. Len(l \o s) = Len(l) + Len(s) /\ \A i \in 1..(Len(l) + Len(s)) :
          (l \o s)[i] = IF i <= Len(l) THEN l[i] ELSE s[i - Len(l)]
    BY <1>1, ConcatProperties
  <2>3. Len(l) <= Len(l \o s) /\ \A i \in 1..Len(l) : l[i] = (l \o s)[i]
    BY <2>1, <2>2
  <2> QED
    BY <1>1, <1>2, <2>3, PrefixIs
<1>4. s = <<>> => l = j.path
  BY <1>1, ConcatEmptySeq
<1>5. ASSUME s # <<>>
      PROVE  LET n == Append(l, Head(s)) IN
             n \in Paths /\ n # <<>> /\ Front(n) = l /\ (Tail(s) = <<>> => n = j.path)
  <2> DEFINE n == Append(l, Head(s))
  <2>1. Head(s) \in STRING /\ Tail(s) \in Seq(STRING)
    BY <1>1, <1>5, HeadTailProperties
  <2>2. n \in Seq(STRING) /\ n # <<>>
    BY <1>1, <2>1, AppendProperties
  <2>3. n \o Tail(s) = l \o s
    BY <1>1, <1>5, NameIsCut
  <2>4. Front(n) = l
    BY <1>1, <2>1, <2>2 DEF Front
  <2> HIDE DEF n
  <2>5. n \in Paths
    <3>1. n \o Tail(s) \in Paths
      BY <1>1, <2>3
    <3> QED
      BY <2>1, <2>2, <3>1, BeginningsAreNames
  <2>6. Tail(s) = <<>> => n = j.path
    BY <1>1, <2>2, <2>3, ConcatEmptySeq
  <2> QED
    BY <2>2, <2>4, <2>5, <2>6 DEF n
<1> QED
  BY <1>2, <1>3, <1>4, <1>5 DEF NextOf, l, s

LEMMA CreationSays ==
  ASSUME EnvBasics, NEW p \in Procs, EnvStep(p), job[p].op = "RecursivelyCreateDir",
         job'[p].pc = "done", IsOk(job'[p].status)
  PROVE  ~Absent(tree', job[p].path)
<1> DEFINE j == job[p]
           k == job'[p]
<1>1. EnvTypeOK /\ Basics(j) /\ AtItsLabel(j) /\ NameOK(j) /\ j \in Jobs /\ IsTree(tree) /\ j.path # <<>>
      /\ j.path \in Paths
  BY DEF EnvBasics, Basics, EnvTypeOK, Jobs
<1>2. ~Lookup(p)
  <2>1. FirstStep("RecursivelyCreateDir") # "done"
    BY DEF FirstStep
  <2> QED
    BY <2>1, LookupLeaves
<1>3. CASE CreateProbe(p)
  <2>1. j.pc = "probe" /\ tree' = tree
        /\ \/ k = [j EXCEPT !.left = Front(@), !.sub = Reversed(@, Last(j.left))]
           \/ (j.left = <<>> \/ access(tree, j.left) = "OK") /\ j.sub = <<>>
           \/ k = [j EXCEPT !.pc = "make"]
    BY <1>1, <1>3, CreateProbeIs
  <2>2. ASSUME k = [j EXCEPT !.left = Front(@), !.sub = Reversed(@, Last(j.left))] \/ k = [j EXCEPT !.pc = "make"]
        PROVE  k.pc # "done"
    BY <1>1, <2>1, <2>2 DEF Jobs
  <2>3. j.left = j.path /\ access(tree, j.left) = "OK"
    BY <1>1, <2>1, <2>2, OnTheWay
  <2> QED
    BY <1>1, <2>1, <2>3, NothingUnder DEF access
<1>4. CASE CreateNext(p)
  <2> DEFINE b == NextOf(j)
  <2>1. j.pc = "make" /\ j.sub # <<>>
    BY <1>1, <1>4 DEF NameOK, CreateNext, At
  <2>2. /\ b \in Paths /\ (Tail(j.sub) = <<>> => b = j.path)
    BY <1>1, <2>1, OnTheWay
  <2>3. b = Append(j.left, Head(j.sub))
    BY DEF NextOf
  <2> HIDE DEF b
  <2>4. tree' = Made(tree, b, Dir) /\ k.pc = (IF Tail(j.sub) = <<>> THEN "done" ELSE "make")
    BY <1>1, <1>4, <2>1, <2>3, CreateNextIs
  <2>5. tree' = Made(tree, j.path, Dir)
    BY <2>2, <2>4
  <2> QED
    BY <1>1, <2>5 DEF Made, IsTree, Absent, None, Dir
<1> QED
  BY <1>2, <1>3, <1>4, OnlyCreates

(* One of several that make the same directory is about to make the next   *)
(* part of it, or all are still looking for what there is.                 *)
CreateOK(p, jobs, t) ==
  Absent(t, jobs[p].path) =>
    \/ \E q \in Procs : /\ jobs[q].op = "RecursivelyCreateDir" /\ jobs[q].pc = "make"
                        /\ t[jobs[q].left] = Dir /\ Absent(t, NextOf(jobs[q]))
    \/ \A q \in Procs : jobs[q].op = "RecursivelyCreateDir" =>
         /\ jobs[q].pc \in {"lookup", "probe"}
         /\ jobs[q].sub # <<>> => Absent(t, NextOf(jobs[q]))

Together(p) ==
  /\ job[p].op = "RecursivelyCreateDir" /\ AllDo("RecursivelyCreateDir", job[p].path)
  /\ faults = 0 /\ NoFileOn(tree, job[p].path)

CreateInv == EnvBasics /\ \A p \in Procs : Together(p) => CreateOK(p, job, tree)

(* The one that makes a part is about to make the next one. *)
LEMMA MakerGoesOn ==
  ASSUME EnvBasics, NEW q \in Procs, CreateNext(q), NEW b, b = NextOf(job[q]),
         mkdir(tree, b) = "OK", tree' = Made(tree, b, Dir), Absent(tree', job[q].path)
  PROVE  /\ job'[q].pc = "make" /\ tree'[job'[q].left] = Dir /\ Absent(tree', NextOf(job'[q]))
         /\ Absent(tree, b) /\ b \in Paths
<1> DEFINE j == job[q]
           k == job'[q]
<1>1. EnvTypeOK /\ Basics(j) /\ AtItsLabel(j) /\ j \in Jobs /\ IsTree(tree) /\ j.pc = "make"
      /\ EnvStep(q)
  BY DEF EnvBasics, Basics, EnvTypeOK, CreateNext, At, EnvStep
<1>2. NameOK(j) /\ j.sub # <<>> /\ j.path \in Paths
  BY <1>1 DEF Basics, NameOK, AtItsLabel, Jobs
<1>3. b \in Paths /\ (Tail(j.sub) = <<>> => b = j.path)
  BY <1>1, <1>2, OnTheWay
<1>4. tree'[b] = Dir /\ (\A c \in Paths : c # b => tree'[c] = tree[c]) /\ Absent(tree, b)
  <2>1. Absent(tree, b)
    BY <1>1, <1>3, NothingUnder DEF mkdir
  <2> QED
    BY <1>1, <1>3, <2>1 DEF Made, IsTree
<1>5. b = Append(j.left, Head(j.sub))
  BY DEF NextOf
<1>6. /\ Moves(q) /\ k.left = b /\ k.sub = Tail(j.sub)
      /\ \/ k.pc = (IF Tail(j.sub) = <<>> THEN "done" ELSE "make")
         \/ tree' = tree
  BY <1>1, <1>2, <1>5, CreateNextIs
<1>7. tree' # tree
  BY <1>4 DEF Absent, None, Dir
<1>8. Tail(j.sub) # <<>>
  BY <1>3, <1>4 DEF Absent, None, Dir
<1>9. k.pc = "make" /\ k.sub # <<>>
  BY <1>6, <1>7, <1>8
<1>10. k \in Jobs /\ NameOK(k) /\ SameOrder(k, j)
  <2>1. Kept(q)
    BY <1>1, StepKeeps
  <2> QED
    BY <1>6, <1>9, <2>1 DEF Kept, Basics, AtItsLabel, Moves
<1> DEFINE n == NextOf(k)
<1>11. n \in Paths /\ n # <<>> /\ Front(n) = b
  BY <1>6, <1>9, <1>10, OnTheWay
<1>12. Absent(tree', n)
  <2>1. tree[Front(n)] # Dir
    BY <1>4, <1>11 DEF Absent, None, Dir
  <2>2. Absent(tree, n)
    BY <1>1, <1>11, <2>1 DEF IsTree
  <2>3. n # b
    BY <1>11, FrontIsShorter
  <2> HIDE DEF n
  <2> QED
    BY <1>4, <1>11, <2>2, <2>3 DEF Absent
<1> QED
  BY <1>3, <1>4, <1>6, <1>9, <1>12

LEMMA CreateNextOK ==
  ASSUME EnvBasics, NEW q \in Procs, CreateNext(q)
  PROVE  LET b == NextOf(job[q]) IN
         /\ b \in Paths
         /\ \/ mkdir(tree, b) = "OK" /\ tree' = Made(tree, b, Dir)
            \/ tree' = tree /\ (faults' = 0 => mkdir(tree, b) # "OK")
<1> DEFINE j == job[q]
<1>1. EnvTypeOK /\ Basics(j) /\ AtItsLabel(j) /\ j \in Jobs /\ j.pc = "make"
  BY DEF EnvBasics, Basics, EnvTypeOK, CreateNext, At
<1>2. NameOK(j) /\ j.sub # <<>>
  BY <1>1 DEF Basics, NameOK, AtItsLabel
<1>3. NextOf(j) \in Paths
  BY <1>1, <1>2, OnTheWay
<1>4. PICK b : b = NextOf(j) /\ b = Append(j.left, Head(j.sub))
  BY DEF NextOf
<1>5. \/ mkdir(tree, b) = "OK" /\ tree' = Made(tree, b, Dir)
      \/ tree' = tree /\ (faults' = 0 => ~(b \in Paths /\ mkdir(tree, b) = "OK"))
  BY <1>1, <1>2, <1>4, CreateNextIs
<1> QED
  BY <1>3, <1>4, <1>5

LEMMA CreateGoesOn ==
  ASSUME EnvBasics, NEW q \in Procs, EnvStep(q), NEW p \in Procs,
         job[p].op = "RecursivelyCreateDir",
         job[q].op = "RecursivelyCreateDir", job[q].path = job[p].path,
         faults' = 0, NoFileOn(tree, job[p].path), CreateOK(p, job, tree)
  PROVE  CreateOK(p, job', tree')
<1> DEFINE P == job[p].path
           j == job[q]
           k == job'[q]
           Makes(jobs, t, r) == /\ jobs[r].op = "RecursivelyCreateDir" /\ jobs[r].pc = "make"
                                /\ t[jobs[r].left] = Dir /\ Absent(t, NextOf(jobs[r]))
           Looks(jobs, t) == \A r \in Procs : jobs[r].op = "RecursivelyCreateDir" =>
                               /\ jobs[r].pc \in {"lookup", "probe"}
                               /\ jobs[r].sub # <<>> => Absent(t, NextOf(jobs[r]))
<1>1. /\ EnvTypeOK /\ Kept(q) /\ IsTree(tree) /\ j \in Jobs /\ NameOK(j) /\ P \in Paths /\ P # <<>>
      /\ k.op = j.op /\ k.path = j.path /\ job'[p].path = P
      /\ \A r \in Procs \ {q} : job'[r] = job[r]
  <2>1. EnvTypeOK /\ Kept(q) /\ Basics(job[p]) /\ Basics(j) /\ job[p] \in Jobs /\ j \in Jobs
    BY StepKeeps DEF EnvBasics, EnvTypeOK
  <2>2. P \in Paths
    BY <2>1 DEF Jobs
  <2>3. k.op = j.op /\ k.path = j.path /\ \A r \in Procs \ {q} : job'[r] = job[r]
    BY <2>1 DEF Kept, Moves, SameOrder
  <2> QED
    BY <2>1, <2>2, <2>3 DEF EnvTypeOK, Basics
<1>2. SUFFICES ASSUME Absent(tree', P)
               PROVE  (\E r \in Procs : Makes(job', tree', r)) \/ Looks(job', tree')
  BY <1>1 DEF CreateOK
<1>3. CASE CreateNext(q) /\ tree' # tree
  <2>1. PICK b : b = NextOf(j)
    OBVIOUS
  <2>2. mkdir(tree, b) = "OK" /\ tree' = Made(tree, b, Dir)
    BY <1>3, <2>1, CreateNextOK
  <2>3. Absent(tree', j.path)
    BY <1>2
  <2>4. k.pc = "make" /\ tree'[k.left] = Dir /\ Absent(tree', NextOf(k))
    BY <1>3, <2>1, <2>2, <2>3, MakerGoesOn
  <2>5. Makes(job', tree', q)
    BY <1>1, <2>4
  <2> QED
    BY <2>5
<1>4. CASE tree' = tree
  <2>1. (\E r \in Procs : Makes(job, tree, r)) \/ Looks(job, tree)
    BY <1>2, <1>4 DEF CreateOK
  <2>2. ASSUME NEW r \in Procs, Makes(job, tree, r) PROVE Makes(job', tree', r)
    <3>1. CASE r = q
      <4>1. CreateNext(q)
        BY <2>2, <3>1, OnlyCreates DEF Lookup, CreateProbe, At
      <4>2. NextOf(j) \in Paths /\ mkdir(tree, NextOf(j)) # "OK"
        <5>1. /\ NextOf(j) \in Paths
              /\ \/ mkdir(tree, NextOf(j)) = "OK" /\ tree' = Made(tree, NextOf(j), Dir)
                 \/ mkdir(tree, NextOf(j)) # "OK"
          BY <4>1, CreateNextOK
        <5>2. Absent(tree, NextOf(j))
          BY <2>2, <3>1
        <5>3. tree' # Made(tree, NextOf(j), Dir)
          BY <1>1, <1>4, <5>1, <5>2 DEF Made, IsTree, Absent, None, Dir
        <5> QED
          BY <5>1, <5>3
      <4>3. Absent(tree, NextOf(j)) /\ tree[j.left] = Dir /\ j.pc = "make"
        BY <2>2, <3>1
      <4>4. Front(NextOf(j)) = j.left
        BY <1>1, <4>3, OnTheWay DEF NameOK
      <4>5. mkdir(tree, NextOf(j)) = "OK"
        BY <1>1, <4>2, <4>3, <4>4, NothingUnder DEF mkdir
      <4> QED
        BY <4>2, <4>5
    <3>2. CASE r # q
      <4>1. job'[r] = job[r]
        BY <1>1, <3>2
      <4> QED
        BY <1>4, <2>2, <4>1
    <3> QED
      BY <3>1, <3>2
  <2>3. ASSUME Looks(job, tree) PROVE Makes(job', tree', q) \/ Looks(job', tree')
    <3>1. j.pc \in {"lookup", "probe"} /\ (j.sub # <<>> => Absent(tree, NextOf(j)))
      BY <2>3
    <3>2. ASSUME k.pc \in {"lookup", "probe"}, k.sub # <<>> => Absent(tree, NextOf(k))
          PROVE  Looks(job', tree')
      <4> SUFFICES ASSUME NEW r \in Procs, job'[r].op = "RecursivelyCreateDir"
                   PROVE  /\ job'[r].pc \in {"lookup", "probe"}
                          /\ job'[r].sub # <<>> => Absent(tree', NextOf(job'[r]))
        OBVIOUS
      <4>1. CASE r = q
        BY <1>4, <3>2, <4>1
      <4>2. CASE r # q
        <5>1. job'[r] = job[r]
          BY <1>1, <4>2
        <5> QED
          BY <1>4, <2>3, <5>1
      <4> QED
        BY <4>1, <4>2
    <3>3. CASE Lookup(q)
      <4>1. k.left = j.left /\ k.sub = j.sub /\ k.pc = FirstStep("RecursivelyCreateDir")
        BY <3>3, LookupLeaves, NeverMissing
      <4>2. k.pc = "probe"
        BY <4>1 DEF FirstStep
      <4>3. k.sub # <<>> => Absent(tree, NextOf(k))
        BY <3>1, <4>1 DEF NextOf
      <4> QED
        BY <3>2, <4>2, <4>3
    <3>4. CASE CreateProbe(q)
      <4>1. /\ j.pc = "probe"
            /\ \/ /\ j.left # <<>> /\ access(tree, j.left) # "OK"
                  /\ k = [j EXCEPT !.left = Front(@), !.sub = Reversed(@, Last(j.left))]
               \/ (j.left = <<>> \/ access(tree, j.left) = "OK") /\ j.sub = <<>>
               \/ /\ j.left = <<>> \/ access(tree, j.left) = "OK"
                  /\ j.sub # <<>> /\ k = [j EXCEPT !.pc = "make"]
        <5>1. AtItsLabel(j)
          BY DEF EnvBasics, Basics
        <5> QED
          BY <1>1, <3>4, <5>1, CreateProbeIs
      <4>2. j.left \in Paths /\ IsPrefix(j.left, P) /\ (j.sub = <<>> => j.left = P)
        BY <1>1, <4>1, OnTheWay
      <4>3. CASE /\ j.left # <<>> /\ access(tree, j.left) # "OK"
                 /\ k = [j EXCEPT !.left = Front(@), !.sub = Reversed(@, Last(j.left))]
        <5>1. k.left = Front(j.left) /\ k.sub = <<Last(j.left)>> \o j.sub /\ k.pc = "probe"
          BY <1>1, <4>1, <4>3 DEF Jobs, Reversed
        <5>2. Append(Front(j.left), Last(j.left)) = j.left
          BY <4>2, <4>3, NamesGrow
        <5>3. Head(<<Last(j.left)>> \o j.sub) = Last(j.left)
          <6>1. Last(j.left) \in STRING /\ j.sub \in Seq(STRING)
            BY <1>1, <4>2, <4>3, NamesGrow DEF Jobs
          <6>2. <<Last(j.left)>> \in Seq(STRING)
            BY <6>1, OneIsSeq
          <6> QED
            BY <6>1, <6>2
        <5>4. Absent(tree, j.left)
          BY <1>1, <4>2, <4>3, NothingUnder DEF access
        <5>5. NextOf(k) = j.left
          BY <5>1, <5>2, <5>3 DEF NextOf
        <5> QED
          BY <3>2, <5>1, <5>4, <5>5
      <4>4. CASE (j.left = <<>> \/ access(tree, j.left) = "OK") /\ j.sub = <<>>
        <5>1. ~Absent(tree, P)
          BY <1>1, <4>2, <4>4, NothingUnder DEF access
        <5> QED
          BY <1>2, <1>4, <5>1
      <4>5. CASE /\ j.left = <<>> \/ access(tree, j.left) = "OK"
                 /\ j.sub # <<>> /\ k = [j EXCEPT !.pc = "make"]
        <5>1. k.pc = "make" /\ k.left = j.left /\ k.sub = j.sub
          BY <1>1, <4>5 DEF Jobs
        <5>2. tree[j.left] = Dir
          <6>1. ~Absent(tree, j.left) /\ tree[j.left] \in Files \cup {None, Dir}
            BY <1>1, <4>2, <4>5, NothingUnder DEF access, IsTree, Absent, None, Dir
          <6>2. tree[j.left] \notin Files
            BY <4>2 DEF NoFileOn
          <6> QED
            BY <6>1, <6>2 DEF Absent
        <5>3. Absent(tree, NextOf(k))
          BY <3>1, <4>5, <5>1 DEF NextOf
        <5> QED
          BY <1>1, <1>4, <5>1, <5>2, <5>3
      <4> QED
        BY <4>1, <4>3, <4>4, <4>5
    <3> QED
      BY <3>1, <3>3, <3>4, OnlyCreates DEF CreateNext, At
  <2> QED
    BY <2>1, <2>2, <2>3
<1>5. tree' = tree \/ CreateNext(q)
  BY OnlyCreates DEF Lookup, CreateProbe, SameFiles
<1> QED
  BY <1>3, <1>4, <1>5

(* No step of a creation takes a file out of the way. *)
LEMMA NoFileBefore ==
  ASSUME EnvBasics, NEW q \in Procs, EnvStep(q), job[q].op = "RecursivelyCreateDir",
         NEW path, NoFileOn(tree', path)
  PROVE  NoFileOn(tree, path)
<1>1. IsTree(tree)
  BY DEF EnvBasics, EnvTypeOK
<1>2. CASE tree' = tree
  BY <1>2 DEF NoFileOn
<1>3. CASE CreateNext(q) /\ tree' # tree
  <2>1. PICK b : b = NextOf(job[q])
    OBVIOUS
  <2>2. b \in Paths /\ mkdir(tree, b) = "OK" /\ tree' = Made(tree, b, Dir)
    BY <1>3, <2>1, CreateNextOK
  <2>3. Absent(tree, b)
    BY <1>1, <2>2, NothingUnder DEF mkdir
  <2>4. None \notin Files
    BY FileAssumption
  <2>5. \A c \in Paths : c # b => tree'[c] = tree[c]
    BY <1>1, <2>2 DEF Made, IsTree
  <2> QED
    BY <2>3, <2>4, <2>5 DEF NoFileOn, Absent
<1>4. tree' = tree \/ CreateNext(q)
  BY OnlyCreates DEF Lookup, CreateProbe, SameFiles
<1> QED
  BY <1>2, <1>3, <1>4

LEMMA CreateStep ==
  ASSUME CreateInv, NEW q \in Procs, EnvStep(q)
  PROVE  CreateInv' /\ \A p \in Procs : CreationTold(p)
<1>1. EnvBasics /\ EnvTypeOK /\ Kept(q) /\ EnvBasics'
  BY StepKeeps, KeptIs DEF CreateInv, EnvBasics
<1>2. /\ \A p \in Procs \ {q} : job'[p] = job[p]
      /\ \A p \in Procs : job'[p].op = job[p].op /\ job'[p].path = job[p].path
      /\ faults' = 0 => faults = 0
  <2>1. faults \in Nat /\ faults' \in Nat /\ faults <= faults'
    BY <1>1 DEF Kept, Moves, EnvTypeOK
  <2>2. /\ \A p \in Procs \ {q} : job'[p] = job[p]
        /\ \A p \in Procs : job'[p].op = job[p].op /\ job'[p].path = job[p].path
    BY <1>1 DEF Kept, Moves, SameOrder
  <2> QED
    BY <2>1, <2>2
<1>3. ASSUME NEW p \in Procs, job[p].op = "RecursivelyCreateDir",
             AllDo("RecursivelyCreateDir", job[p].path), faults' = 0, NoFileOn(tree', job[p].path)
      PROVE  CreateOK(p, job', tree')
  <2>1. job[q].op = "RecursivelyCreateDir" /\ job[q].path = job[p].path
    BY <1>1, <1>3, NoneStops DEF AllDo
  <2>2. NoFileOn(tree, job[p].path)
    BY <1>1, <1>3, <2>1, NoFileBefore
  <2>3. CreateOK(p, job, tree)
    BY <1>2, <1>3, <2>2 DEF CreateInv, Together
  <2> QED
    BY <1>1, <1>3, <2>1, <2>2, <2>3, CreateGoesOn
<1>4. CreateInv'
  <2> SUFFICES ASSUME NEW p \in Procs, Together(p)' PROVE CreateOK(p, job, tree)'
    BY <1>1 DEF CreateInv
  <2>1. /\ job[p].op = "RecursivelyCreateDir" /\ AllDo("RecursivelyCreateDir", job[p].path)
        /\ faults' = 0 /\ NoFileOn(tree', job[p].path)
    BY <1>2 DEF Together, AllDo, NoFileOn
  <2>2. CreateOK(p, job', tree')
    BY <1>3, <2>1
  <2> QED
    BY <2>2 DEF CreateOK, NextOf, Absent
<1>5. ASSUME NEW p \in Procs PROVE CreationTold(p)
  <2> SUFFICES ASSUME Finishes(p, "RecursivelyCreateDir") PROVE CreationTold(p)
    BY DEF CreationTold
  <2>1. job[p].op = "RecursivelyCreateDir" /\ job'[p].pc = "done" /\ job[p].pc # "done"
    BY DEF Finishes, At
  <2>2. p = q
    BY <1>2, <2>1
  <2>3. IsOk(job'[p].status) => ~Absent(tree', job[p].path)
    BY <1>1, <2>1, <2>2, CreationSays
  <2>4. ASSUME AllDo("RecursivelyCreateDir", job[p].path), faults' = 0, NoFileOn(tree', job[p].path),
               \A r \in Procs : job'[r].pc = "done"
        PROVE  ~Absent(tree', job[p].path)
    <3>1. CreateOK(p, job', tree')
      BY <1>3, <2>1, <2>4
    <3>2. job'[p].path = job[p].path /\ job'[p].op = "RecursivelyCreateDir" /\ job'[p].pc = "done"
      BY <1>2, <2>1
    <3> QED
      BY <2>4, <3>1, <3>2 DEF CreateOK
  <2> QED
    BY <2>3, <2>4 DEF CreationTold
<1> QED
  BY <1>4, <1>5

-----------------------------------------------------------------------------
(* Both operations on trees                                                *)

TreesInv == DeleteInv /\ CreateInv

LEMMA TreesInit ==
  ASSUME EnvInit
  PROVE  TreesInv
<1>1. EnvBasics
  BY InitBasics
<1>2. ASSUME NEW p \in Procs
      PROVE  job[p].pc \in {"done", "lookup"} /\ job[p].sub = <<>>
             /\ (job[p].op = "RecursivelyCreateDir" => job[p].pc = "lookup")
  <2>1. IsJob(job[p])
    BY EnvAssumption DEF EnvInit
  <2> QED
    BY <2>1 DEF IsJob, Job
<1>3. \A p \in Procs : SearchOK(job[p], tree) /\ CreateOK(p, job, tree)
  BY <1>2 DEF SearchOK, CreateOK
<1> QED
  BY <1>1, <1>3 DEF TreesInv, DeleteInv, CreateInv

LEMMA TreesNext ==
  ASSUME TreesInv, [EnvNext]_envVars
  PROVE  TreesInv' /\ [\A p \in Procs : DeletionTold(p) /\ CreationTold(p)]_envVars
<1>1. CASE \E p \in Procs : EnvStep(p)
  BY <1>1, DeleteStep, CreateStep DEF TreesInv
<1>2. ASSUME UNCHANGED <<tree, job, faults>>, EnvBasics'
      PROVE  TreesInv' /\ \A p \in Procs : DeletionTold(p) /\ CreationTold(p)
  <2>1. \A p \in Procs : (Cleanly(p)' <=> Cleanly(p)) /\ (Together(p)' <=> Together(p))
    <3>1. /\ job' = job /\ tree' = tree /\ faults' = faults
      BY <1>2
    <3>2. ASSUME NEW p \in Procs PROVE Cleanly(p)' <=> Cleanly(p)
      BY <3>1 DEF Cleanly, Alone
    <3>3. ASSUME NEW p \in Procs PROVE Together(p)' <=> Together(p)
      BY <3>1 DEF Together, AllDo, NoFileOn
    <3> QED
      BY <3>2, <3>3
  <2>2. \A p \in Procs : /\ SearchOK(job[p], tree) => SearchOK(job[p], tree)'
                         /\ CreateOK(p, job, tree) => CreateOK(p, job, tree)'
    <3>1. job' = job /\ tree' = tree
      BY <1>2
    <3>2. ASSUME NEW p \in Procs, SearchOK(job[p], tree) PROVE SearchOK(job[p], tree)'
      <4>1. SearchOK(job'[p], tree')
        BY <3>1, <3>2
      <4> QED
        BY <4>1 DEF SearchOK, Search, Ranked, Distinct, Later, ChildrenOf, Absent
    <3>3. ASSUME NEW p \in Procs, CreateOK(p, job, tree) PROVE CreateOK(p, job, tree)'
      BY <3>1, <3>3 DEF CreateOK, NextOf, Absent
    <3> QED
      BY <3>2, <3>3
  <2>3. \A p \in Procs : ~Finishes(p, "DeleteRecursively") /\ ~Finishes(p, "RecursivelyCreateDir")
    BY <1>2 DEF Finishes, At
  <2> QED
    BY <1>2, <2>1, <2>2, <2>3 DEF TreesInv, DeleteInv, CreateInv, DeletionTold, CreationTold
<1>3. ASSUME NEW s \in Schemes, Register(s, "other")
      PROVE  TreesInv' /\ [\A p \in Procs : DeletionTold(p) /\ CreationTold(p)]_envVars
  BY <1>2, <1>3, RegisterKeeps DEF TreesInv, DeleteInv
<1>4. CASE UNCHANGED envVars
  <2>1. EnvBasics'
    BY <1>4, BasicsKept DEF TreesInv, DeleteInv
  <2> QED
    BY <1>2, <1>4, <2>1 DEF envVars
<1> QED
  BY <1>1, <1>3, <1>4 DEF EnvNext

(* The operations on whole trees do what they tell: when DeleteRecursively counts nothing that   *)
(* it left nothing is left, alone it removes a directory, RecursivelyCreateDir tells the truth,  *)
(* and of several that make the same directory one succeeds (env.cc): TreesAreAsTold.            *)
THEOREM TreesAreTold == EnvSpec => TreesAreAsTold
<1>1. EnvInit => TreesInv
  BY TreesInit
<1>2. TreesInv /\ [EnvNext]_envVars => TreesInv'
  BY TreesNext
<1>3. TreesInv /\ [EnvNext]_envVars => [\A p \in Procs : DeletionTold(p) /\ CreationTold(p)]_envVars
  BY TreesNext
<1> QED
  BY <1>1, <1>2, <1>3, PTL DEF EnvSpec, TreesAreAsTold
=============================================================================
