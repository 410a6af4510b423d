----------------------------- MODULE ByteStream -----------------------------
(* What zero_copy_stream.h promises of every input stream: it is a line of *)
(* bytes that are handed out in order; BackUp returns the last bytes of    *)
(* the last buffer, Skip moves on. Bytes are lost only after read errors.  *)
EXTENDS Integers

VARIABLES
  pos,   \* where the next buffer starts
  call,  \* the last call: op, count, ok
  got,   \* the buffer of the last call: from, n
  lost   \* bytes given up after errors

byteVars == <<pos, call, got, lost>>

ByteInit == pos = 0 /\ lost = 0 /\ got.n = 0 /\ call.op = "none"

(* What errors take is passed over for good.                               *)
Passed == lost' - lost

NextBytes ==
  /\ call'.op = "Next" /\ call'.ok
  /\ Passed >= 0 /\ got'.n > 0
  /\ got'.from = pos + Passed /\ pos' = got'.from + got'.n

NoMoreBytes ==
  /\ call'.op = "Next" /\ ~call'.ok
  /\ Passed >= 0 /\ got'.n = 0 /\ pos' = pos + Passed

BackUpBytes ==
  /\ call'.op = "BackUp" /\ call'.count <= got.n
  /\ lost' = lost /\ got'.n = 0 /\ pos' = pos - call'.count

SkipBytes ==
  /\ call'.op = "Skip"
  /\ Passed >= 0 /\ got'.n = 0
  /\ pos' - pos - Passed \in IF call'.ok THEN {call'.count} ELSE 0..call'.count

(* Making or destroying a LimitingInputStream reads nothing.               *)
NoBytes == call'.op = "none" /\ got'.n = 0 /\ UNCHANGED <<pos, lost>>

ByteNext == NextBytes \/ NoMoreBytes \/ BackUpBytes \/ SkipBytes \/ NoBytes

ByteSpec == ByteInit /\ [][ByteNext]_byteVars
=============================================================================
