------------------------------- MODULE Base64 -------------------------------
(* Base64Encode and Base64Decode (base64.cc). A byte is a number below     *)
(* 256, a code character the number of its six bits, or Pad, or Other for  *)
(* every character that is not in the alphabet.                            *)
EXTENDS Integers, Sequences, SequencesExt

Pad == 64
Other == 65

Rejected == [ok |-> FALSE, bytes |-> <<>>]

-----------------------------------------------------------------------------
(* The tail of one or two bytes                                            *)
EncodeTail(s, with_padding) ==
  LET Padding(n) == IF with_padding THEN [i \in 1..n |-> Pad] ELSE <<>> IN
  CASE Len(s) = 0 -> <<>>
    [] Len(s) = 1 -> <<s[1] \div 4, (s[1] % 4) * 16>> \o Padding(2)
    [] Len(s) = 2 -> <<s[1] \div 4, (s[1] % 4) * 16 + s[2] \div 16, (s[2] % 16) * 4>>
                     \o Padding(1)

RECURSIVE Base64Encode(_, _)
Base64Encode(s, with_padding) ==
  IF Len(s) < 3 THEN EncodeTail(s, with_padding)
  ELSE <<s[1] \div 4, (s[1] % 4) * 16 + s[2] \div 16,
         (s[2] % 16) * 4 + s[3] \div 64, s[3] % 64>>
       \o Base64Encode(SubSeq(s, 4, Len(s)), with_padding)

-----------------------------------------------------------------------------
DecodeThreeChars(codes) ==
  IF \E i \in DOMAIN codes : codes[i] \in {Pad, Other} THEN Rejected
  ELSE [ok |-> TRUE,
        bytes |-> <<codes[1] * 4 + codes[2] \div 16,
                    (codes[2] % 16) * 16 + codes[3] \div 4,
                    (codes[3] % 4) * 64 + codes[4]>>]

(* The last four characters, without the padding                           *)
Remaining(t) ==
  IF Len(t) < 4 \/ t[4] # Pad THEN t
  ELSE IF t[3] = Pad THEN SubSeq(t, 1, 2) ELSE SubSeq(t, 1, 3)

DecodeTail(t) ==
  LET rest == Remaining(t)
      tail == [i \in 1..4 |-> IF i <= Len(rest) THEN rest[i] ELSE 0]
      three == DecodeThreeChars(tail) IN
  IF Len(rest) = 1 \/ ~three.ok THEN Rejected
  ELSE [ok |-> TRUE, bytes |-> SubSeq(three.bytes, 1, Len(rest) - 1)]

RECURSIVE DecodeAll(_)
DecodeAll(t) ==
  IF Len(t) <= 4 THEN DecodeTail(t)
  ELSE LET three == DecodeThreeChars(SubSeq(t, 1, 4))
           rest == DecodeAll(SubSeq(t, 5, Len(t))) IN
       IF ~three.ok \/ ~rest.ok THEN Rejected
       ELSE [ok |-> TRUE, bytes |-> three.bytes \o rest.bytes]

Base64Decode(t) == IF t = <<>> THEN [ok |-> TRUE, bytes |-> <<>>] ELSE DecodeAll(t)

-----------------------------------------------------------------------------
(* With or without padding, what was encoded is decoded.                   *)
BytesAreDecoded(s) ==
  \A padded \in BOOLEAN :
    Base64Decode(Base64Encode(s, padded)) = [ok |-> TRUE, bytes |-> s]

(* What is accepted is an encoding, up to the padding and to the low bits  *)
(* of the last character that a tail of one or two bytes does not use.     *)
OnlyCodesAreAccepted(t) ==
  LET read == Base64Decode(t)
      again == Base64Encode(read.bytes, FALSE)
      unused == CASE Len(again) % 4 = 2 -> 16 [] Len(again) % 4 = 3 -> 4 [] OTHER -> 1 IN
  read.ok /\ t # <<>> =>
    /\ Len(again) <= Len(t) /\ \A i \in (Len(again) + 1)..Len(t) : t[i] = Pad
    /\ Front(again) = SubSeq(t, 1, Len(again) - 1)
    /\ again[Len(again)] \div unused = t[Len(again)] \div unused
=============================================================================
