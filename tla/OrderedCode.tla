---------------------------- MODULE OrderedCode -----------------------------
(* OrderedCode (ordered_code.cc): encodings of strings and numbers whose   *)
(* order as byte strings is the order of what they encode. A byte has      *)
(* ByteBits bits and a number WordBytes bytes, 8 and 8 in the code; a      *)
(* StringPiece is a sequence of bytes.                                     *)
EXTENDS Integers, Sequences, SequencesExt, Bitwise

CONSTANTS ByteBits, WordBytes

Base == 2^ByteBits
MaxByte == Base - 1
WordSize == Base^WordBytes

Failed == [ok |-> FALSE, value |-> <<>>, rest |-> <<>>]
Read(value, rest) == [ok |-> TRUE, value |-> value, rest |-> rest]
From(src, n) == SubSeq(src, n + 1, Len(src))

-----------------------------------------------------------------------------
(* Strings *)

kEscape1 == 0
kNullCharacter == MaxByte
kSeparator == 1
kEscape2 == MaxByte
kFFCharacter == 0

(* mutant: the byte 255 is copied like the others *)
EscapedOnlyNull(c) == IF c = kEscape1 THEN <<kEscape1, kNullCharacter>> ELSE <<c>>

Escaped(c) ==
  CASE c = kEscape1 -> <<kEscape1, kNullCharacter>>
    [] c = kEscape2 -> <<kEscape2, kFFCharacter>>
    [] OTHER        -> <<c>>

WriteString(s) ==
  FlattenSeq([i \in DOMAIN s |-> Escaped(s[i])]) \o <<kEscape1, kSeparator>>

RECURSIVE ReadFrom(_, _)
ReadFrom(src, result) ==
  IF Len(src) < 2 THEN Failed
  ELSE LET c == src[1]
           next == src[2] IN
  CASE c = kEscape1 /\ next = kSeparator     -> Read(result, From(src, 2))
    [] c = kEscape1 /\ next = kNullCharacter -> ReadFrom(From(src, 2), Append(result, 0))
    [] c = kEscape2 /\ next = kFFCharacter   -> ReadFrom(From(src, 2), Append(result, MaxByte))
    [] c \notin {kEscape1, kEscape2}         -> ReadFrom(Tail(src), Append(result, c))
    [] OTHER                                 -> Failed

ReadString(src) == ReadFrom(src, <<>>)

-----------------------------------------------------------------------------
(* Numbers, in network byte order *)

ByteAt(v, i) == (v \div Base^i) % Base   \* the i-th byte from the low end
BigEndian(v, n) == [i \in 1..n |-> ByteAt(v, n - i)]
Load(bytes) == FoldLeft(LAMBDA v, byte : (v * Base + byte) % WordSize, 0, bytes)

(* Unsigned: the number of bytes, then the bytes without leading zeros     *)
WriteNumIncreasing(val) ==
  LET len == CHOOSE n \in 0..WordBytes :
               val < Base^n /\ (n = 0 \/ val >= Base^(n - 1)) IN
  <<len>> \o BigEndian(val, len)

ReadNumIncreasing(src) ==
  IF src = <<>> \/ src[1] + 1 > Len(src) \/ src[1] > WordBytes THEN Failed
  ELSE Read(Load(SubSeq(src, 2, src[1] + 1)), From(src, src[1] + 1))

(* Signed: sign and length in the leading bits of the first two bytes      *)
kMaxSigned64Length == WordBytes + 2

TopOnes(n) == IF n <= 0 THEN 0 ELSE IF n >= ByteBits THEN MaxByte ELSE Base - 2^(ByteBits - n)
kLengthToHeaderBits(len) == <<TopOnes(len), TopOnes(len - ByteBits)>>

(* The header bits that lie within the word read back                      *)
kLengthToMask(len) ==
  (TopOnes(len) * Base^(len - 1)
   + (IF len < 2 THEN 0 ELSE TopOnes(len - ByteBits) * Base^(len - 2))) % WordSize

Bits(n) == CHOOSE k \in 0..(ByteBits * WordBytes) : n < 2^k /\ (k = 0 \/ n >= 2^(k - 1))
kBitsToLength(bits) ==
  CHOOSE len \in 1..kMaxSigned64Length :
    /\ bits < len * (ByteBits - 1)
    /\ len = 1 \/ bits >= (len - 1) * (ByteBits - 1)

Complement(v) == IF v < 0 THEN -v - 1 ELSE v   \* ~v of a negative number
SignedEncodingLength(v) == kBitsToLength(Bits(Complement(v)))

(* val, sign extended to the longest encoding                              *)
Extended(val) ==
  LET sign == IF val < 0 THEN MaxByte ELSE 0 IN
  <<sign, sign>> \o BigEndian(val % WordSize, WordBytes)

WriteSignedNumIncreasing(val) ==
  IF Complement(val) < 2^(ByteBits - 2)
  THEN <<kLengthToHeaderBits(1)[1] ^^ (val % Base)>>
  ELSE LET len == SignedEncodingLength(val)
           bytes == From(Extended(val), kMaxSigned64Length - len)
           header == kLengthToHeaderBits(len) IN
       <<bytes[1] ^^ header[1], bytes[2] ^^ header[2]>> \o From(bytes, 2)

(* The length the header tells, 0 if it is not one                         *)
HeaderLength(src, xor) ==
  LET byte == [i \in DOMAIN src |-> src[i] ^^ xor]
      half == 2^(ByteBits - 1) IN
  IF byte[1] # MaxByte THEN ByteBits - Bits(byte[1] ^^ MaxByte)
  ELSE IF Len(src) < ByteBits THEN 0
  ELSE IF byte[2] < half THEN ByteBits
  ELSE IF byte[2] < TopOnes(2) THEN ByteBits + 1
  ELSE IF byte[2] = TopOnes(2) /\ byte[3] < half THEN ByteBits + 2 ELSE 0

AsSigned(x) == IF x >= WordSize \div 2 THEN x - WordSize ELSE x

ReadSignedNumIncreasing(src) ==
  IF src = <<>> THEN Failed
  ELSE LET xor == IF src[1] < 2^(ByteBits - 1) THEN MaxByte ELSE 0
           len == HeaderLength(src, xor) IN
  IF len = 0 \/ Len(src) < len THEN Failed
  ELSE LET extension == IF xor = 0 THEN 0 ELSE WordSize - 1
           x == FoldLeft(LAMBDA v, byte : (v * Base + byte) % WordSize,
                         extension, SubSeq(src, 1, len)) IN
       Read(AsSigned(x ^^ kLengthToMask(len)), From(src, len))

-----------------------------------------------------------------------------
Less(x, y) ==
  \E n \in 0..Len(x) :
    /\ IsPrefix(SubSeq(x, 1, n), y)
    /\ n < Len(y) /\ (n = Len(x) \/ x[n + 1] < y[n + 1])

(* The order of two items decides the order of any two strings that begin  *)
(* with their encodings.                                                   *)
Before(x, y) == \A m, n \in {<<>>, <<0>>, <<MaxByte, MaxByte>>} : Less(x \o m, y \o n)

StringsAreOrdered(x, y) == Less(x, y) => Before(WriteString(x), WriteString(y))

NumbersAreOrdered(v) ==
  /\ v + 1 < WordSize => Before(WriteNumIncreasing(v), WriteNumIncreasing(v + 1))
  /\ AsSigned(v) + 1 < WordSize \div 2 =>
       Before(WriteSignedNumIncreasing(AsSigned(v)), WriteSignedNumIncreasing(AsSigned(v) + 1))

(* Reading takes back what was written and leaves what follows it.         *)
StringIsReadBack(s, rest) == ReadString(WriteString(s) \o rest) = Read(s, rest)

NumberIsReadBack(v, rest) ==
  /\ ReadNumIncreasing(WriteNumIncreasing(v) \o rest) = Read(v, rest)
  /\ ReadSignedNumIncreasing(WriteSignedNumIncreasing(AsSigned(v)) \o rest)
       = Read(AsSigned(v), rest)

(* Bytes that are accepted as a string are the encoding of that string.    *)
OnlyEncodingsAreRead(src) ==
  LET read == ReadString(src) IN
  read.ok => WriteString(read.value) \o read.rest = src
=============================================================================
