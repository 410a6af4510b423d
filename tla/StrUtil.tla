------------------------------ MODULE StrUtil -------------------------------
(* Escapes and white space (str_util.cc). A byte is a one-character        *)
(* string, or the name CodeOf gives a code where TLA+ has no such string.  *)
EXTENDS Integers, Sequences, SequencesExt

LOCAL Scan == INSTANCE Scanner

CodeOf ==
  [c \in {"BEL", "\n", "\r", "\t", " ", "\"", "'", "0", "1", "7", "8", "A", "a", "n", "x",
          "\\", "DEL", "x80", "xFF"} |->
     CASE c = "BEL" -> 7 [] c = "\n" -> 10 [] c = "\r" -> 13 [] c = "\t" -> 9 [] c = " " -> 32
       [] c = "\"" -> 34 [] c = "'" -> 39 [] c = "0" -> 48 [] c = "1" -> 49 [] c = "7" -> 55
       [] c = "8" -> 56 [] c = "A" -> 65 [] c = "a" -> 97 [] c = "n" -> 110 [] c = "x" -> 120
       [] c = "\\" -> 92 [] c = "DEL" -> 127 [] c = "x80" -> 128 [] c = "xFF" -> 255]

Bytes == DOMAIN CodeOf
isprint(c) == CodeOf[c] \in 32..126
isspace(c) == CodeOf[c] \in {9, 10, 11, 12, 13, 32}
DigitChars == <<"0", "1", "2", "3", "4", "5", "6", "7">>

(* The byte with a code; those without a name here are not told apart      *)
ByteOf(code) == IF \E c \in Bytes : CodeOf[c] = code
                THEN CHOOSE c \in Bytes : CodeOf[c] = code ELSE "other"

-----------------------------------------------------------------------------
Octal(code) == <<"\\", DigitChars[code \div 64 + 1], DigitChars[((code % 64) \div 8) + 1],
                 DigitChars[(code % 8) + 1]>>

(* mutant: no leading zeros *)
OctalShort(code) ==
  IF code < 8 THEN <<"\\", DigitChars[code + 1]>>
  ELSE IF code < 64 THEN <<"\\", DigitChars[code \div 8 + 1], DigitChars[(code % 8) + 1]>>
  ELSE Octal(code)

EscapedByteShort(c) ==
  CASE c = "\n" -> <<"\\", "n">>
    [] c = "\r" -> <<"\\", "r">>
    [] c = "\t" -> <<"\\", "t">>
    [] c \in {"\"", "'", "\\"} -> <<"\\", c>>
    [] c \notin {"\n", "\r", "\t", "\"", "'", "\\"} /\ isprint(c) -> <<c>>
    [] OTHER -> OctalShort(CodeOf[c])

EscapedByte(c) ==
  CASE c = "\n" -> <<"\\", "n">>
    [] c = "\r" -> <<"\\", "r">>
    [] c = "\t" -> <<"\\", "t">>
    [] c \in {"\"", "'", "\\"} -> <<"\\", c>>
    [] c \notin {"\n", "\r", "\t", "\"", "'", "\\"} /\ isprint(c) -> <<c>>
    [] OTHER -> Octal(CodeOf[c])

CEscape(src) == FlattenSeq([i \in DOMAIN src |-> EscapedByte(src[i])])

-----------------------------------------------------------------------------
Letters == {"a", "b", "f", "n", "r", "t", "v", "\\", "?", "'", "\""}
LetterCode(c) ==
  CASE c = "a" -> 7 [] c = "b" -> 8 [] c = "f" -> 12 [] c = "n" -> 10 [] c = "r" -> 13
    [] c = "t" -> 9 [] c = "v" -> 11 [] c = "\\" -> 92 [] c = "?" -> 63 [] c = "'" -> 39
    [] c = "\"" -> 34

OctalDigits == ToSet(DigitChars)
HexDigits == OctalDigits \cup {"8", "9", "a", "b", "c", "d", "e", "f",
                               "A", "B", "C", "D", "E", "F"}
hex_digit_to_int(c) ==
  CASE c \in OctalDigits -> (CHOOSE d \in 0..7 : DigitChars[d + 1] = c)
    [] c \in {"8", "9"}  -> IF c = "8" THEN 8 ELSE 9
    [] OTHER -> CHOOSE d \in 10..15 : \E hex \in {<<"a", "b", "c", "d", "e", "f">>,
                                                  <<"A", "B", "C", "D", "E", "F">>} :
                                        hex[d - 9] = c

Run(p, digits, most) ==   \* how many digits p begins with, at most so many
  CHOOSE n \in 0..Len(p) :
    /\ n <= most /\ \A i \in 1..n : p[i] \in digits
    /\ n = Len(p) \/ n = most \/ p[n + 1] \notin digits

CodeFrom(p, base) == FoldLeft(LAMBDA code, c : code * base + hex_digit_to_int(c), 0, p)

Rejected == [ok |-> FALSE, bytes |-> <<>>]

(* One escape behind its backslash: its code and its length, 0 if it is    *)
(* none.                                                                   *)
Escape(p) ==
  LET octal == Run(p, OctalDigits, 3)
      hex == Run(Tail(p), HexDigits, Len(p)) IN
  CASE octal > 0                            -> [code |-> CodeFrom(SubSeq(p, 1, octal), 8), n |-> octal]
    [] p[1] \in {"x", "X"} /\ hex > 0       -> [code |-> CodeFrom(SubSeq(p, 2, hex + 1), 16), n |-> hex + 1]
    [] p[1] \in Letters                     -> [code |-> LetterCode(p[1]), n |-> 1]
    [] OTHER                                -> [code |-> 0, n |-> 0]

RECURSIVE Unescaped(_, _)
Unescaped(p, dest) ==
  IF p = <<>> THEN [ok |-> TRUE, bytes |-> dest]
  ELSE IF p[1] # "\\" THEN Unescaped(Tail(p), Append(dest, p[1]))
  ELSE IF Len(p) = 1 THEN Rejected
  ELSE LET escape == Escape(Tail(p)) IN
       IF escape.n = 0 \/ escape.code > 255 THEN Rejected
       ELSE Unescaped(SubSeq(p, escape.n + 2, Len(p)), Append(dest, ByteOf(escape.code)))

CUnescape(source) == Unescaped(source, <<>>)

-----------------------------------------------------------------------------
RemoveLeadingWhitespace(text) ==
  LET n == CHOOSE n \in 0..Len(text) :
             /\ \A i \in 1..n : isspace(text[i])
             /\ n = Len(text) \/ ~isspace(text[n + 1]) IN
  [count |-> n, rest |-> SubSeq(text, n + 1, Len(text))]

RemoveTrailingWhitespace(text) ==
  LET n == CHOOSE n \in 0..Len(text) :
             /\ \A i \in 1..n : isspace(text[Len(text) - i + 1])
             /\ n = Len(text) \/ ~isspace(text[Len(text) - n]) IN
  [count |-> n, rest |-> SubSeq(text, 1, Len(text) - n)]

RemoveWhitespaceContext(text) ==
  LET leading == RemoveLeadingWhitespace(text)
      trailing == RemoveTrailingWhitespace(leading.rest) IN
  [count |-> leading.count + trailing.count, rest |-> trailing.rest]

ConsumeNonWhitespace(text) ==
  LET at == SelectInSeq(text, isspace)
      n == IF at = 0 THEN Len(text) ELSE at - 1 IN
  [ok |-> n > 0, value |-> SubSeq(text, 1, n), rest |-> SubSeq(text, n + 1, Len(text))]

-----------------------------------------------------------------------------
(* A text that was escaped is read back, and a scanner that looks for the  *)
(* closing quote of the escaped text finds it and no quote of the text.    *)
EscapedIsReadBack(s) ==
  /\ CUnescape(CEscape(s)) = [ok |-> TRUE, bytes |-> s]
  /\ \A c \in ToSet(CEscape(s)) \cap Bytes : isprint(c)
  /\ LET quoted == Scan!Scanner(<<"\"">> \o CEscape(s) \o <<"\"", "a", "\"">>)
         inside == Scan!RestartCapture(Scan!OneLiteral(quoted, <<"\"">>))
         closed == Scan!StopCapture(Scan!ScanEscapedUntil(inside, "\""))
         all == Scan!GetResult(Scan!OneLiteral(closed, <<"\"">>)) IN
     all = [ok |-> TRUE, capture |-> CEscape(s), remaining |-> <<"a", "\"">>]

(* What remains of a text without its outer white space is a piece of it   *)
(* with neither at its ends, and words are consumed from the left.         *)
WhitespaceIsRemoved(text) ==
  LET inner == RemoveWhitespaceContext(text)
      word == ConsumeNonWhitespace(inner.rest) IN
  /\ inner.count + Len(inner.rest) = Len(text)
  /\ inner.rest # <<>> => ~isspace(Head(inner.rest)) /\ ~isspace(Last(inner.rest))
  /\ word.ok = (inner.rest # <<>>)
  /\ word.value \o word.rest = inner.rest
=============================================================================
