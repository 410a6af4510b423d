---------------------------- MODULE OutputStreams ---------------------------
(* The output streams of core/io: an array, a string (given at once or by  *)
(* a callback at the first Next), and the copying adaptor over a           *)
(* descriptor or an ostream, whose writes may be partial and fail.         *)
(*                                                                         *)
(* The client's bytes are the numbers 1, 2, ... in the order it writes     *)
(* them; 0 is a byte that nobody wrote. As in InputStreams a stream is a   *)
(* record and a method yields its outcomes.                                *)
EXTENDS Integers, Sequences

CONSTANTS
  Sinks,         \* the streams to write to
  kMinimumSize,  \* of a string that grows (16 in the code)
  MaxInt,        \* numeric_limits<int>::max()
  MaxWritten     \* bound: bytes the client writes

VARIABLES
  sink,    \* the stream
  wrote,   \* bytes the client has stored in its buffers
  handed,  \* the buffer of the last Next: at (0-based, in its memory), n
  flushed  \* what the last call answered, if it was Flush or Close

outVars == <<sink, wrote, handed, flushed>>

-----------------------------------------------------------------------------
(* The streams *)

Garbage(n) == [i \in 1..n |-> 0]
Given(ok, at, n, s) == [ok |-> ok, at |-> at, n |-> n, s |-> s]
Smaller(a, b) == IF a < b THEN a ELSE b

ArrayOut(bytes, block) ==
  [kind |-> "array", memory |-> Garbage(bytes), block |-> IF block > 0 THEN block ELSE bytes,
   position |-> 0, last |-> 0]

(* The target may hold something already, and have room for more.          *)
StringOut(initial, room, lazy) ==
  [kind |-> "string", memory |-> Garbage(initial), initial |-> initial,
   capacity |-> initial + room, set |-> ~lazy]

CopyingOut(block, faulty) ==
  [kind |-> "copying", memory |-> Garbage(block), used |-> 0, position |-> 0,
   failed |-> FALSE, faulty |-> faulty, arrived |-> <<>>, closed |-> FALSE]

(* The arguments a stream is made with                                     *)
ASSUME SinkAssumption ==
  /\ kMinimumSize \in Nat
  /\ \A s \in Sinks :
       LET bytes == Len(s.memory) IN
       /\ bytes \in Nat
       /\ \/ /\ s.kind = "array" /\ s.block \in Nat
             /\ s = ArrayOut(bytes, s.block)
          \/ /\ s.kind = "string" /\ s.capacity - bytes \in Nat /\ s.set \in BOOLEAN
             /\ s = StringOut(bytes, s.capacity - bytes, ~s.set)
          \/ /\ s.kind = "copying" /\ bytes > 0 /\ s.faulty \in BOOLEAN
             /\ s = CopyingOut(bytes, s.faulty)

(* What the destination holds now                                          *)
Destination(s) ==
  CASE s.kind = "array"  -> SubSeq(s.memory, 1, s.position)
    [] s.kind = "string" -> IF s.set THEN SubSeq(s.memory, s.initial + 1, Len(s.memory)) ELSE <<>>
    [] OTHER             -> s.arrived

ArrayOutNext(s) ==
  LET n == Smaller(s.block, Len(s.memory) - s.position) IN
  {IF n > 0
   THEN Given(TRUE, s.position, n, [s EXCEPT !.position = @ + n, !.last = n])
   ELSE Given(FALSE, 0, 0, [s EXCEPT !.last = 0])}

(* resize fills a string up to its capacity, or grows it; the allocator    *)
(* may give more than was asked for.                                       *)
StringOutNext(s) ==
  LET old == Len(s.memory)
      doubled == IF 2 * old > kMinimumSize THEN 2 * old ELSE kMinimumSize
      Resized(size, capacity) ==
        Given(TRUE, old, size - old,
          [s EXCEPT !.memory = @ \o Garbage(size - old), !.capacity = capacity, !.set = TRUE]) IN
  IF old < s.capacity THEN {Resized(s.capacity, s.capacity)}
  ELSE IF old > MaxInt \div 2 THEN {Given(FALSE, 0, 0, [s EXCEPT !.set = TRUE])}
  ELSE {Resized(doubled, capacity) : capacity \in {doubled, doubled + 1}}

(* mutant: a failed stream writes what comes later *)
WriteAfterFailure(s) ==
  {Given(TRUE, 0, 0, [s EXCEPT !.arrived = @ \o SubSeq(s.memory, 1, s.used),
                               !.position = @ + s.used, !.used = 0])}
  \cup (IF s.faulty /\ s.used > 0
        THEN {Given(FALSE, 0, 0, [s EXCEPT !.failed = TRUE, !.used = 0])} ELSE {})

(* WriteBuffer; Write goes on after a partial write(2) and EINTR, so that  *)
(* only what it fails at may leave a part behind.                          *)
WriteBuffer(s) ==
  IF s.failed THEN {Given(FALSE, 0, 0, s)}
  ELSE {Given(TRUE, 0, 0, [s EXCEPT !.arrived = @ \o SubSeq(s.memory, 1, s.used),
                                    !.position = @ + s.used, !.used = 0])}
       \cup (IF s.faulty /\ s.used > 0
             THEN {Given(FALSE, 0, 0, [s EXCEPT !.arrived = @ \o SubSeq(s.memory, 1, part),
                                                !.failed = TRUE, !.used = 0,
                                                !.memory = Garbage(Len(s.memory))]) :
                     part \in 0..(s.used - 1)}
             ELSE {})

HandOut(r) ==
  IF ~r.ok THEN {r}
  ELSE {Given(TRUE, r.s.used, Len(r.s.memory) - r.s.used, [r.s EXCEPT !.used = Len(r.s.memory)])}

CopyingOutNext(s) ==
  IF s.used = Len(s.memory) THEN UNION {HandOut(r) : r \in WriteBuffer(s)}
  ELSE HandOut(Given(TRUE, 0, 0, s))

SinkNext(s) ==
  CASE s.kind = "array"  -> ArrayOutNext(s)
    [] s.kind = "string" -> StringOutNext(s)
    [] OTHER             -> CopyingOutNext(s)

(* The CHECKs of BackUp *)
SinkTakesBack(s, count) ==
  CASE s.kind = "array"  -> s.last > 0 /\ count <= s.last
    [] s.kind = "string" -> s.set /\ count <= Len(s.memory)
    [] OTHER             -> s.used = Len(s.memory) /\ count <= s.used

SinkBackUp(s, count) ==
  CASE s.kind = "array"  -> [s EXCEPT !.position = @ - count, !.last = 0]
    [] s.kind = "string" -> [s EXCEPT !.memory = SubSeq(@, 1, Len(@) - count)]
    [] OTHER             -> [s EXCEPT !.used = @ - count]

SinkByteCount(s) ==
  CASE s.kind = "array"  -> s.position
    [] s.kind = "string" -> IF s.set THEN Len(s.memory) ELSE 0
    [] OTHER             -> s.position + s.used

(* The client stores its next count bytes at the front of its buffer.      *)
Stored(s, at, count) ==
  [s EXCEPT !.memory = [i \in DOMAIN @ |->
     IF i \in (at + 1)..(at + count) THEN wrote + i - at ELSE @[i]]]

-----------------------------------------------------------------------------
Idle == handed.n = 0
Open == sink.kind = "copying" => ~sink.closed

OutInit ==
  /\ sink \in Sinks
  /\ wrote = 0 /\ handed = [at |-> 0, n |-> 0] /\ flushed = FALSE

OutNextBuffer ==
  /\ Idle /\ Open /\ wrote < MaxWritten
  /\ \E r \in SinkNext(sink) :
       sink' = r.s /\ handed' = [at |-> r.at, n |-> r.n]
  /\ flushed' = FALSE
  /\ UNCHANGED wrote

(* Of a buffer that it does not fill the client backs up the rest, at once *)
(* as the contract demands.                                                *)
OutFill(count) ==
  /\ ~Idle /\ wrote + count <= MaxWritten
  /\ sink' = LET filled == Stored(sink, handed.at, count) IN
             IF count < handed.n THEN SinkBackUp(filled, handed.n - count) ELSE filled
  /\ wrote' = wrote + count
  /\ handed' = [at |-> 0, n |-> 0]
  /\ UNCHANGED flushed

Flush ==
  /\ Idle /\ Open /\ sink.kind = "copying"
  /\ \E r \in WriteBuffer(sink) : sink' = r.s /\ flushed' = r.ok
  /\ UNCHANGED <<wrote, handed>>

(* mutant: the file is closed with bytes in the buffer *)
CloseOnly ==
  /\ Idle /\ Open /\ sink.kind = "copying"
  /\ sink' = [sink EXCEPT !.closed = TRUE] /\ flushed' = TRUE
  /\ UNCHANGED <<wrote, handed>>

(* Close, or the destructor: both flush. close(2) itself may fail.         *)
Close ==
  /\ Idle /\ Open /\ sink.kind = "copying"
  /\ \E r \in WriteBuffer(sink), closes \in {TRUE, ~sink.faulty} :
       sink' = [r.s EXCEPT !.closed = TRUE] /\ flushed' = (r.ok /\ closes)
  /\ UNCHANGED <<wrote, handed>>

OutNext ==
  \/ OutNextBuffer \/ Flush \/ Close
  \/ \E count \in 0..handed.n : OutFill(count)

OutSpec == OutInit /\ [][OutNext]_outVars

-----------------------------------------------------------------------------
(* What reaches the destination is what the client wrote, from its first   *)
(* byte on, in order, without a gap and without the rest of a buffer; also *)
(* when writes fail in the middle and the client writes on.                *)
OnlyWhatWasWritten ==
  Idle => LET d == Destination(sink) IN
          Len(d) <= wrote /\ \A i \in 1..Len(d) : d[i] = i

(* ByteCount as the interface documents it (core/io/zero_copy_stream.h:190,*)
(* "the total number of bytes written since this object was created"); an  *)
(* adaptor whose write failed has given bytes up and is left out. False of *)
(* a StringOutputStream made for a string that holds something.            *)
CountsBytesWritten ==
  Idle /\ (sink.kind = "copying" => ~sink.failed) => SinkByteCount(sink) = wrote

AppendsToText == sink.kind = "string" /\ sink.initial > 0

(* A legal BackUp passes the CHECKs; ByteCount is as documented, but for   *)
(* the strings that are appended to.                                       *)
OutputIsCounted ==
  /\ ~Idle => \A count \in 0..handed.n : SinkTakesBack(sink, count)
  /\ AppendsToText \/ CountsBytesWritten

(* Everything the client stored is there: at once in an array or a string, *)
(* for the others as soon as Flush or Close says so; and OutputIsCounted.  *)
NothingIsHeldBack ==
  /\ OutputIsCounted
  /\ Idle /\ (flushed \/ sink.kind # "copying") => Len(Destination(sink)) = wrote
=============================================================================
