---------------------------- MODULE InputStreams ----------------------------
(* The input streams of core/io and env.cc: a LimitingInputStream that the *)
(* client makes and destroys over a ConcatenatingInputStream of an array,  *)
(* a copying adaptor over a descriptor or an istream, and a FileStream.    *)
(*                                                                         *)
(* A stream is a record; a method is an operator that yields the set of    *)
(* its outcomes: ok (what it returns), at and n (the buffer it hands out:  *)
(* n bytes from position at of the stream's source) and s (the record      *)
(* afterwards). There are several when system calls may fail or be short.  *)
EXTENDS Integers, Sequences

CONSTANTS
  Setups,       \* the lists of streams that are concatenated
  Limits,       \* limits of the LimitingInputStreams
  Counts,       \* arguments of Skip
  OverrunFiles  \* whether clients skip past the end of a seekable source, which
                \* does not notice, so that ByteCount passes the end (README)

ASSUME CountAssumption == Counts \subseteq Nat /\ Limits \subseteq Nat
ASSUME OverrunAssumption == OverrunFiles \in BOOLEAN

VARIABLES
  leaf,     \* the concatenated streams
  first,    \* streams_: the first one that is not finished
  retired,  \* bytes_retired_
  lim,      \* the LimitingInputStream: on, left (limit_), prior (prior_bytes_read_),
            \* limit (the argument it was made with)
  call,     \* the client's last call: op, count (its argument), ok (its answer)
  got,      \* the buffer of the last call, as bytes of the whole content: from, n
  lost      \* bytes of streams that were given up after a read error

inVars == <<leaf, first, retired, lim, call, got, lost>>

-----------------------------------------------------------------------------
(* The streams that are read *)

Lesser(a, b) == IF a < b THEN a ELSE b
Outcome(ok, at, n, s) == [ok |-> ok, at |-> at, n |-> n, s |-> s]

Array(bytes, block) ==
  [kind |-> "array", size |-> bytes, block |-> IF block > 0 THEN block ELSE bytes,
   position |-> 0, last |-> 0]

(* A CopyingInputStreamAdaptor; offset is the source's own position and    *)
(* start the one of the first byte in the buffer.                          *)
Copying(kind, bytes, block, faulty) ==
  [kind |-> kind, size |-> bytes, block |-> block, faulty |-> faulty,
   position |-> 0, used |-> 0, backup |-> 0, buffer |-> FALSE, failed |-> FALSE,
   offset |-> 0, start |-> 0, seekFailed |-> FALSE]

FileStream(bytes, block) ==
  [kind |-> "FileStream", size |-> bytes, block |-> block, position |-> 0]

(* The arguments a stream is made with                                     *)
Opened(s) ==
  /\ s.size \in Nat /\ s.block \in Nat
  /\ \/ s.kind = "array" /\ s = Array(s.size, s.block)
     \/ s.kind = "FileStream" /\ s = FileStream(s.size, s.block)
     \/ /\ s.kind \in {"descriptor", "pipe", "istream"} /\ s.block > 0 /\ s.faulty \in BOOLEAN
        /\ s = Copying(s.kind, s.size, s.block, s.faulty)

ASSUME SetupAssumption ==
  \A setup \in Setups :
    LET streams == {setup[i] : i \in 1..Len(setup)} IN
    setup \in Seq(streams) /\ \A s \in streams : Opened(s)

IsCopying(s) == s.kind \in {"descriptor", "pipe", "istream"}

ArrayNext(s) ==
  LET n == Lesser(s.block, s.size - s.position) IN
  IF n > 0
  THEN {Outcome(TRUE, s.position, n, [s EXCEPT !.position = @ + n, !.last = n])}
  ELSE {Outcome(FALSE, 0, 0, [s EXCEPT !.last = 0])}

(* Read of a descriptor or an istream: some bytes, 0 at the end, -1 for an *)
(* error. EINTR is retried.                                                *)
ReadResults(s) ==
  (IF s.offset < s.size THEN 1..Lesser(s.block, s.size - s.offset) ELSE {0})
    \cup (IF s.faulty THEN {-1} ELSE {})

CopyingNext(s) ==
  IF s.failed THEN {Outcome(FALSE, 0, 0, s)}
  ELSE IF s.backup > 0
  THEN {Outcome(TRUE, s.start + s.used - s.backup, s.backup, [s EXCEPT !.backup = 0])}
  ELSE {IF r > 0
        THEN Outcome(TRUE, s.offset, r,
               [s EXCEPT !.used = r, !.start = s.offset, !.offset = @ + r,
                         !.position = @ + r, !.buffer = TRUE])
        ELSE Outcome(FALSE, 0, 0,
               [s EXCEPT !.used = 0, !.buffer = FALSE, !.failed = (r < 0)]) :
          r \in ReadResults(s)}

(* Reads until n bytes are there; OUT_OF_RANGE at the end is no error here *)
FileStreamNext(s) ==
  LET n == Lesser(s.block, s.size - s.position) IN
  {IF n > 0 THEN Outcome(TRUE, s.position, n, [s EXCEPT !.position = @ + n])
            ELSE Outcome(FALSE, 0, 0, s)}

LeafNext(s) ==
  CASE s.kind = "array"      -> ArrayNext(s)
    [] s.kind = "FileStream" -> FileStreamNext(s)
    [] OTHER                 -> CopyingNext(s)

(* The CHECKs of BackUp *)
ArrayTakesBack(s, count) == s.last > 0 /\ count <= s.last
CopyingTakesBack(s, count) == s.backup = 0 /\ s.buffer /\ count <= s.used

LeafTakesBack(s, count) ==
  CASE s.kind = "array"      -> ArrayTakesBack(s, count)
    [] s.kind = "FileStream" -> count <= s.position
    [] OTHER                 -> CopyingTakesBack(s, count)

LeafBackUp(s, count) ==
  CASE s.kind = "array"      -> [s EXCEPT !.position = @ - count, !.last = 0]
    [] s.kind = "FileStream" -> [s EXCEPT !.position = @ - count]
    [] OTHER                 -> [s EXCEPT !.backup = count]

ArraySkip(s, count) ==
  LET short == count > s.size - s.position IN
  {Outcome(~short, 0, 0,
     [s EXCEPT !.last = 0, !.position = IF short THEN s.size ELSE @ + count])}

(* The default Skip of a copying stream: reads, in pieces, what there is.  *)
ReadOver(s, count) ==
  LET most == Lesser(count, IF s.offset < s.size THEN s.size - s.offset ELSE 0) IN
  (IF s.faulty THEN 0..most ELSE {most})

(* lseek moves past the end of a file without complaint; on a pipe it      *)
(* fails, and is not tried again.                                          *)
SourceSkip(s, count) ==
  LET seeks == s.kind = "descriptor" /\ ~s.seekFailed IN
  {[n |-> n, s |-> [s EXCEPT !.offset = @ + n, !.position = @ + n,
                             !.seekFailed = @ \/ s.kind = "pipe"]] :
     n \in IF seeks THEN {count} ELSE ReadOver(s, count)}

CopyingSkip(s, count) ==
  IF s.failed THEN {Outcome(FALSE, 0, 0, s)}
  ELSE IF s.backup >= count THEN {Outcome(TRUE, 0, 0, [s EXCEPT !.backup = @ - count])}
  ELSE {Outcome(r.n = count - s.backup, 0, 0, r.s) :
          r \in SourceSkip([s EXCEPT !.backup = 0], count - s.backup)}

LeafSkip(s, count) ==
  CASE s.kind = "array"      -> ArraySkip(s, count)
    [] s.kind = "FileStream" -> {Outcome(TRUE, 0, 0, [s EXCEPT !.position = @ + count])}
    [] OTHER                 -> CopyingSkip(s, count)

LeafByteCount(s) == IF IsCopying(s) THEN s.position - s.backup ELSE s.position

-----------------------------------------------------------------------------
(* ConcatenatingInputStream, as a record: the state and the count that     *)
(* Skip has still to skip.                                                 *)

Concat == [leaf |-> leaf, first |-> first, retired |-> retired, lost |-> lost, count |-> 0]

Before(c, i) == LET sum[j \in 0..Len(c.leaf)] == IF j = 0 THEN 0 ELSE sum[j - 1] + c.leaf[j].size
                IN sum[i - 1]
Finished(c) == c.first > Len(c.leaf)
Current(c) == c.leaf[c.first]
With(c, s) == [c EXCEPT !.leaf[c.first] = s]

(* The stream is done, after its end or an error, and has become s: on to  *)
(* the next one. What was not read of it is lost, what it failed to skip   *)
(* the next ones are to skip.                                              *)
Retire(c, s) ==
  LET read == LeafByteCount(s) IN
  [With(c, s) EXCEPT !.first = @ + 1, !.retired = @ + read,
                     !.lost = @ + (IF read < s.size THEN s.size - read ELSE 0),
                     !.count = @ + LeafByteCount(Current(c)) - read]

Tries(c, op) == IF op = "Next" THEN LeafNext(Current(c)) ELSE LeafSkip(Current(c), c.count)

(* The loop of Next and Skip: c, and what becomes of it as streams end     *)
Reached(c, op) ==
  LET after[k \in 0..Len(c.leaf)] ==
        IF k = 0 THEN {c}
        ELSE UNION {{Retire(d, r.s) : r \in {q \in Tries(d, op) : ~q.ok}} :
                      d \in {e \in after[k - 1] : ~Finished(e)}}
  IN UNION {after[k] : k \in 0..Len(c.leaf)}

Concatenated(c, op) ==
  UNION {IF Finished(d) THEN {Outcome(FALSE, 0, 0, d)}
         ELSE {Outcome(TRUE, Before(d, d.first) + r.at, r.n, With(d, r.s)) :
                 r \in {q \in Tries(d, op) : q.ok}} :
           d \in Reached(c, op)}

ConcatNext(c) == Concatenated(c, "Next")
ConcatSkip(c, count) == Concatenated([c EXCEPT !.count = count], "Skip")

ConcatTakesBack(c, count) == ~Finished(c) /\ LeafTakesBack(Current(c), count)
ConcatBackUp(c, count) == With(c, LeafBackUp(Current(c), count))

ConcatByteCount(c) ==
  c.retired + (IF Finished(c) THEN 0 ELSE LeafByteCount(Current(c)))

-----------------------------------------------------------------------------
(* What the client calls: the LimitingInputStream while there is one, else *)
(* the concatenation.                                                      *)

(* There is nothing to back up. *)
NoBuffer == [from |-> 0, n |-> 0]

Called(op, count, ok) == [op |-> op, count |-> count, ok |-> ok]

InInit ==
  /\ leaf \in Setups
  /\ first = 1 /\ retired = 0 /\ lost = 0
  /\ lim = [on |-> FALSE, left |-> 0, prior |-> 0, limit |-> 0]
  /\ call = Called("none", 0, TRUE)
  /\ got = NoBuffer

SetConcat(c) ==
  /\ leaf' = c.leaf /\ first' = c.first /\ retired' = c.retired /\ lost' = c.lost

(* limit_ goes below zero when the buffer reaches past the limit; the rest *)
(* of it is hidden from the client.                                        *)
InNextBuffer ==
  \E r \in ConcatNext(Concat) :
    LET left == lim.left - r.n
        n == IF lim.on /\ left < 0 THEN r.n + left ELSE r.n IN
    /\ lim.on => lim.left > 0
    /\ SetConcat(r.s)
    /\ lim' = IF lim.on THEN [lim EXCEPT !.left = left] ELSE lim
    /\ got' = [from |-> r.at, n |-> n]
    /\ call' = Called("Next", 0, r.ok)

NextAtTheLimit ==
  /\ lim.on /\ lim.left <= 0
  /\ call' = Called("Next", 0, FALSE)
  /\ got' = NoBuffer
  /\ UNCHANGED <<leaf, first, retired, lim, lost>>

(* mutant: the hidden bytes stay consumed *)
ReturnedOnly(count) == count

(* The bytes that are given back to the concatenation *)
Returned(count) == IF lim.on /\ lim.left < 0 THEN count - lim.left ELSE count

(* mutant: what was hidden and is given back counts as hidden still *)
InBackUpStillHidden(count) ==
  /\ got.n > 0 /\ count <= got.n
  /\ SetConcat(ConcatBackUp(Concat, Returned(count)))
  /\ lim' = IF lim.on THEN [lim EXCEPT !.left = @ + count] ELSE lim
  /\ call' = Called("BackUp", count, TRUE)
  /\ got' = NoBuffer

InBackUp(count) ==
  /\ got.n > 0 /\ count <= got.n
  /\ SetConcat(ConcatBackUp(Concat, Returned(count)))
  /\ lim' = IF lim.on THEN [lim EXCEPT !.left = IF @ < 0 THEN count ELSE @ + count] ELSE lim
  /\ call' = Called("BackUp", count, TRUE)
  /\ got' = NoBuffer

(* Skipping has passed the end of a source that does not notice it.        *)
Overrun(c) == \E i \in 1..Len(c.leaf) : LeafByteCount(c.leaf[i]) > c.leaf[i].size

(* A LimitingInputStream past its limit skips nothing.                     *)
SkipAtTheLimit(count) ==
  /\ lim.on /\ lim.left < 0
  /\ call' = Called("Skip", count, FALSE)
  /\ got' = NoBuffer
  /\ UNCHANGED <<leaf, first, retired, lim, lost>>

InSkip(count) ==
  LET wanted == IF lim.on /\ count > lim.left THEN lim.left ELSE count IN
  /\ lim.on => lim.left >= 0
  /\ \E r \in ConcatSkip(Concat, wanted) :
       /\ OverrunFiles \/ ~Overrun(r.s)
       /\ SetConcat(r.s)
       /\ call' = Called("Skip", count, r.ok /\ wanted = count)
       /\ lim' = IF lim.on
                 THEN [lim EXCEPT !.left = CASE count > @ -> 0
                                             [] count <= @ /\ r.ok -> @ - count
                                             [] OTHER -> @]
                 ELSE lim
  /\ got' = NoBuffer

Limit(limit) ==
  /\ ~lim.on
  /\ lim' = [on |-> TRUE, left |-> limit, prior |-> ConcatByteCount(Concat), limit |-> limit]
  /\ call' = Called("none", 0, TRUE)
  /\ got' = NoBuffer
  /\ UNCHANGED <<leaf, first, retired, lost>>

(* mutant: the destructor leaves the concatenation alone *)
UnlimitSilently ==
  /\ lim.on
  /\ lim' = [lim EXCEPT !.on = FALSE]
  /\ call' = Called("none", 0, TRUE)
  /\ got' = NoBuffer
  /\ UNCHANGED <<leaf, first, retired, lost>>

(* The destructor backs up what it hid from the client.                    *)
Unlimit ==
  /\ lim.on
  /\ SetConcat(IF lim.left < 0 THEN ConcatBackUp(Concat, -lim.left) ELSE Concat)
  /\ lim' = [lim EXCEPT !.on = FALSE]
  /\ call' = Called("none", 0, TRUE)
  /\ got' = NoBuffer

(* ByteCount, of the limiting stream since its creation                    *)
LimitByteCount ==
  ConcatByteCount(Concat) - lim.prior + (IF lim.left < 0 THEN lim.left ELSE 0)

InNext ==
  \/ InNextBuffer \/ NextAtTheLimit \/ Unlimit
  \/ \E count \in 0..got.n : InBackUp(count)
  \/ \E count \in Counts : InSkip(count) \/ SkipAtTheLimit(count)
  \/ \E limit \in Limits : Limit(limit)

InSpec == InInit /\ [][InNext]_inVars

-----------------------------------------------------------------------------
(* Every call of BackUp the contract allows passes the CHECKs of the       *)
(* stream it reaches, the one of LimitingInputStream's destructor too: no  *)
(* stream in between turns a legal call into an illegal one.               *)
BackUpIsAccepted ==
  /\ got.n > 0 => \A count \in 0..got.n : ConcatTakesBack(Concat, Returned(count))
  /\ lim.on /\ lim.left < 0 => ConcatTakesBack(Concat, -lim.left)

(* A LimitingInputStream never lets more than its limit through, whatever  *)
(* is backed up, skipped or hidden; until the end it knows what is left.   *)
LimitIsKept ==
  lim.on => /\ LimitByteCount \in 0..lim.limit
            /\ ~Finished(Concat) =>
                 LimitByteCount = lim.limit - (IF lim.left > 0 THEN lim.left ELSE 0)

(* A client reads the bytes in order, each once unless it backs up, and   *)
(* moves by what it asked for: ByteStream, over whatever is concatenated   *)
(* and limited, with the hidden bytes counted as not read.                 *)
Content == INSTANCE ByteStream WITH
  pos <- ConcatByteCount(Concat) + lost + (IF lim.on /\ lim.left < 0 THEN lim.left ELSE 0)
ReadsInOrder == Content!ByteSpec
=============================================================================
