------------------------------ MODULE Scanner -------------------------------
(* Scanner (scanner.h, scanner.cc): a cursor over a text and a capture. A  *)
(* text is a sequence of one-character strings; a scanner is a record, its *)
(* methods are operators that give the scanner after the call.             *)
EXTENDS Integers, Sequences

Letters == {"a", "b", "n", "x"}
UpperLetters == {"A", "X"}
Digits == {"0", "1", "7", "8"}

LETTER == Letters \cup UpperLetters
DIGIT == Digits
LETTER_DIGIT == LETTER \cup DIGIT
LETTER_DIGIT_DOT == LETTER_DIGIT \cup {"."}
SPACE == {" ", "\t", "\n", "\r"}

NoEnd == -1

(* cur: how much was consumed; start, stop: the capture                    *)
Scanner(source) == [source |-> source, cur |-> 0, start |-> 0, stop |-> NoEnd, error |-> FALSE]

empty(s) == s.cur = Len(s.source)
Peek(s) == s.source[s.cur + 1]
Error(s) == [s EXCEPT !.error = TRUE]
Advanced(s, n) == [s EXCEPT !.cur = @ + n]

One(s, clz) == IF empty(s) \/ Peek(s) \notin clz THEN Error(s) ELSE Advanced(s, 1)

RECURSIVE Any(_, _)
Any(s, clz) == IF ~empty(s) /\ Peek(s) \in clz THEN Any(Advanced(s, 1), clz) ELSE s

Many(s, clz) == Any(One(s, clz), clz)
AnySpace(s) == Any(s, SPACE)

StartsWith(s, text) == SubSeq(s.source, s.cur + 1, s.cur + Len(text)) = text
ZeroOrOneLiteral(s, text) ==
  IF s.cur + Len(text) <= Len(s.source) /\ StartsWith(s, text) THEN Advanced(s, Len(text)) ELSE s
OneLiteral(s, text) ==
  IF s.cur + Len(text) <= Len(s.source) /\ StartsWith(s, text) THEN Advanced(s, Len(text))
  ELSE Error(s)

RestartCapture(s) == [s EXCEPT !.start = s.cur, !.stop = NoEnd]
StopCapture(s) == [s EXCEPT !.stop = s.cur]
Eos(s) == IF empty(s) THEN s ELSE Error(s)

RECURSIVE ScanEscapedUntil(_, _)
ScanEscapedUntil(s, end_ch) ==
  CASE empty(s)                                -> Error(s)
    [] ~empty(s) /\ Peek(s) = end_ch           -> s
    [] ~empty(s) /\ Peek(s) \notin {end_ch, "\\"} -> ScanEscapedUntil(Advanced(s, 1), end_ch)
    [] OTHER -> LET escape == Advanced(s, 1) IN
                IF empty(escape) THEN Error(escape)
                ELSE ScanEscapedUntil(Advanced(escape, 1), end_ch)

GetResult(s) ==
  IF s.error THEN [ok |-> FALSE, remaining |-> <<>>, capture |-> <<>>]
  ELSE [ok |-> TRUE,
        remaining |-> SubSeq(s.source, s.cur + 1, Len(s.source)),
        capture |-> SubSeq(s.source, s.start + 1, IF s.stop = NoEnd THEN s.cur ELSE s.stop)]

-----------------------------------------------------------------------------
(* A line of one word, white space around it and a backslash that may end  *)
(* it, scanned by the chain of calls that says so, is accepted just then,  *)
(* and the word is what is captured.                                       *)
LineIsScanned(text) ==
  LET word == StopCapture(Many(RestartCapture(AnySpace(Scanner(text))), LETTER_DIGIT))
      line == GetResult(Eos(ZeroOrOneLiteral(AnySpace(word), <<"\\">>)))
      IsLine(i, j, k) ==
        /\ \A n \in 1..i \cup (j + 1)..k : text[n] \in SPACE
        /\ \A n \in (i + 1)..j : text[n] \in LETTER_DIGIT
        /\ k = Len(text) \/ (k = Len(text) - 1 /\ text[k + 1] = "\\") IN
  /\ line.ok <=> \E i, j, k \in 0..Len(text) : i < j /\ j <= k /\ IsLine(i, j, k)
  /\ line.ok => \E i, j, k \in 0..Len(text) :
       i < j /\ j <= k /\ IsLine(i, j, k) /\ line.capture = SubSeq(text, i + 1, j)
=============================================================================
