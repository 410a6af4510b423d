------------------------------ MODULE Numbers -------------------------------
(* Numbers as text (numbers.cc, and the digits of str_util.cc). A text is  *)
(* a sequence of one-character strings. Integers have Width bits, be they  *)
(* of 32 or of 64 bits in the code; those that the code computes in a      *)
(* wider type are not cut.                                                 *)
EXTENDS Integers, Sequences, SequencesExt

CONSTANT Width

MaxSigned == 2^(Width - 1) - 1
MaxUnsigned == 2^Width - 1
Wrapped(v) == ((v + MaxSigned + 1) % (MaxUnsigned + 1)) - MaxSigned - 1
Quotient(a, b) == IF a >= 0 THEN a \div b ELSE -((-a) \div b)   \* as C++ divides

DigitChars == <<"0", "1", "2", "3", "4", "5", "6", "7", "8", "9">>
HexChars == DigitChars \o <<"a", "b", "c", "d", "e", "f">>
UpperHexChars == DigitChars \o <<"A", "B", "C", "D", "E", "F">>

DigitOf(c, chars) == CHOOSE d \in 0..(Len(chars) - 1) : chars[d + 1] = c
After(s, n) == SubSeq(s, n + 1, Len(s))

Unread == [ok |-> FALSE, value |-> 0]
Value(v) == [ok |-> TRUE, value |-> v]

-----------------------------------------------------------------------------
(* Writing *)

RECURSIVE Decimal(_)
Decimal(u) == (IF u < 10 THEN <<>> ELSE Decimal(u \div 10)) \o <<DigitChars[(u % 10) + 1]>>

FastUIntToBufferLeft(u) == Decimal(u)

FastIntToBufferLeft(i) ==
  IF i < 0 THEN <<"-">> \o Decimal((0 - i) % (MaxUnsigned + 1)) ELSE Decimal(i)

UintToHexString(v) ==
  [i \in 1..(Width \div 4) |-> HexChars[((v \div 16^(Width \div 4 - i)) % 16) + 1]]

-----------------------------------------------------------------------------
(* Reading *)

Space == {" "}
Prefix(s, chars) == CHOOSE n \in 0..Len(s) :
                      /\ \A i \in 1..n : s[i] \in chars
                      /\ n = Len(s) \/ s[n + 1] \notin chars
SkipSpaces(s) == After(s, Prefix(s, Space))

(* Spaces, a sign if there may be one, digits, spaces, and nothing else;   *)
(* Sum is how the digits are added up.                                     *)
Parsed(text, signed, Sum(_, _)) ==
  LET s == SkipSpaces(text)
      negative == signed /\ s # <<>> /\ s[1] = "-"
      t == IF negative THEN Tail(s) ELSE s
      n == Prefix(t, ToSet(DigitChars))
      digits == [i \in 1..n |-> DigitOf(t[i], DigitChars)]
      sum == Sum(negative, digits) IN
  IF n = 0 \/ ~sum.ok \/ SkipSpaces(After(t, n)) # <<>> THEN Unread ELSE sum

(* One more digit, unless it cannot be taken                               *)
Added(sum, Fits(_), Next(_)) ==
  IF sum.ok /\ Fits(sum.value) THEN Value(Next(sum.value)) ELSE Unread

(* In a wider type, compared with the limit after each digit               *)
SumNarrow(limit, digits) ==
  FoldLeft(LAMBDA sum, d : Added(sum, LAMBDA v : v * 10 + d <= limit, LAMBDA v : v * 10 + d),
           Value(0), digits)

(* mutant: negative numbers end where positive ones do *)
Sum32SameLimit(negative, digits) ==
  LET sum == SumNarrow(MaxSigned, digits) IN
  IF negative THEN [sum EXCEPT !.value = -@] ELSE sum

Sum32(negative, digits) ==
  LET sum == SumNarrow(IF negative THEN MaxSigned + 1 ELSE MaxSigned, digits) IN
  IF negative THEN [sum EXCEPT !.value = -@] ELSE sum

SumU32(negative, digits) == SumNarrow(MaxUnsigned, digits)

(* In the type itself, tested before each digit                            *)
SumU64(negative, digits) ==
  FoldLeft(LAMBDA sum, d : Added(sum, LAMBDA v : (MaxUnsigned - d) \div 10 >= v,
                                      LAMBDA v : v * 10 + d),
           Value(0), digits)

(* vlimit is the largest number for both signs: vlimit + digit overflows   *)
(* unless the digit is 0, and wraps around.                                *)
Sum64(negative, digits) ==
  IF negative
  THEN FoldLeft(LAMBDA sum, d : Added(sum, LAMBDA v : Quotient(Wrapped(MaxSigned + d), 10) <= v,
                                           LAMBDA v : Wrapped(v * 10 - d)),
                Value(0), digits)
  ELSE FoldLeft(LAMBDA sum, d : Added(sum, LAMBDA v : (MaxSigned - d) \div 10 >= v,
                                           LAMBDA v : v * 10 + d),
                Value(0), digits)

safe_strto32(text) == Parsed(text, TRUE, Sum32)
safe_strtou32(text) == Parsed(text, FALSE, SumU32)
safe_strto64(text) == Parsed(text, TRUE, Sum64)
safe_strtou64(text) == Parsed(text, FALSE, SumU64)

HexStringToUint(s) ==
  IF s = <<>> \/ \E i \in DOMAIN s : s[i] \notin ToSet(HexChars \o UpperHexChars) THEN Unread
  ELSE Value(FoldLeft(LAMBDA v, c :
                (v * 16 + DigitOf(c, IF c \in ToSet(HexChars) THEN HexChars ELSE UpperHexChars))
                  % (MaxUnsigned + 1), 0, s))

(* Overflow is seen by what the wrapped sum has become.                    *)
ConsumeLeadingDigits(s) ==
  LET n == Prefix(s, ToSet(DigitChars))
      sum == FoldLeft(LAMBDA r, c :
               LET new == (r.value * 10 + DigitOf(c, DigitChars)) % (MaxUnsigned + 1) IN
               IF r.ok /\ new \div 8 >= r.value THEN Value(new) ELSE Unread,
               Value(0), SubSeq(s, 1, n)) IN
  IF n = 0 \/ ~sum.ok THEN [ok |-> FALSE, value |-> 0, rest |-> s]
  ELSE [ok |-> TRUE, value |-> sum.value, rest |-> After(s, n)]

RECURSIVE Split(_, _)
Split(text, delim) ==
  IF text = <<>> THEN <<>>
  ELSE LET at == SelectInSeq(text, LAMBDA c : c = delim) IN
       IF at = 0 THEN <<text>>
       ELSE <<SubSeq(text, 1, at - 1)>>
            \o (IF at = Len(text) THEN <<<<>>>> ELSE Split(After(text, at), delim))

Join(texts, sep) ==
  FlattenSeq([i \in DOMAIN texts |-> IF i = 1 THEN texts[i] ELSE <<sep>> \o texts[i]])

SplitAndParseAsInts(text, delim) ==
  LET parts == Split(text, delim)
      numbers == [i \in DOMAIN parts |-> safe_strto32(parts[i])] IN
  IF \A i \in DOMAIN numbers : numbers[i].ok
  THEN [ok |-> TRUE, values |-> [i \in DOMAIN numbers |-> numbers[i].value]]
  ELSE [ok |-> FALSE, values |-> <<>>]

-----------------------------------------------------------------------------
(* A text that spells the number n, between before and after               *)
Spelt(negative, zeros, n, before, after) ==
  before \o (IF negative THEN <<"-">> ELSE <<>>) \o [i \in 1..zeros |-> "0"]
  \o Decimal(n) \o after

Expected(ok, v) == IF ok THEN Value(v) ELSE Unread

(* Every function reads exactly the numbers of its type, and safe_strto64  *)
(* those that have no sign.                                                *)
IsRead(negative, zeros, n, before, after) ==
  LET text == Spelt(negative, zeros, n, before, after)
      blank == \A i \in DOMAIN after : after[i] \in Space
      v == IF negative THEN -n ELSE n IN
  /\ safe_strto32(text) = Expected(blank /\ -MaxSigned - 1 <= v /\ v <= MaxSigned, v)
  /\ safe_strtou32(text) = Expected(blank /\ ~negative /\ n <= MaxUnsigned, v)
  /\ safe_strtou64(text) = Expected(blank /\ ~negative /\ n <= MaxUnsigned, v)
  /\ ~negative => safe_strto64(text) = Expected(blank /\ n <= MaxSigned, v)
  /\ before = <<>> /\ ~negative =>
       ConsumeLeadingDigits(text) =
         IF n <= MaxUnsigned THEN [ok |-> TRUE, value |-> n, rest |-> after]
         ELSE [ok |-> FALSE, value |-> 0, rest |-> text]

(* What was written is read, alone and in a list.                          *)
IsReadBack(i) ==
  /\ safe_strto32(FastIntToBufferLeft(i)) = Value(i)
  /\ safe_strtou64(FastUIntToBufferLeft(i % (MaxUnsigned + 1))) = Value(i % (MaxUnsigned + 1))
  /\ HexStringToUint(UintToHexString(i % (MaxUnsigned + 1))) = Value(i % (MaxUnsigned + 1))
  /\ \A j \in {-MaxSigned - 1, -1, 0, MaxSigned} :
       SplitAndParseAsInts(Join(<<FastIntToBufferLeft(i), FastIntToBufferLeft(j)>>, ","), ",")
         = [ok |-> TRUE, values |-> <<i, j>>]
=============================================================================
