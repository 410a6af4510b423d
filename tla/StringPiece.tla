---------------------------- MODULE StringPiece -----------------------------
(* StringPiece (string_piece.h, string_piece.cc): searches, comparisons    *)
(* and pieces. A piece is a sequence of characters, which are numbers;     *)
(* positions count from 0, as the code has them.                           *)
EXTENDS Integers, Sequences, SequencesExt, FiniteSetsExt

npos == 1000   \* size_type(-1), more than any size

At(s, i) == s[i + 1]
From(s, pos) == SubSeq(s, pos + 1, Len(s))
Less(a, b) == IF a < b THEN a ELSE b

(* std::search and std::find_end: where s begins in the characters from    *)
(* first to last, or last                                                  *)
Matches(text, s, first, last) ==
  {i \in first..(last - Len(s)) : SubSeq(text, i + 1, i + Len(s)) = s}
search(text, s, first, last) ==
  IF Matches(text, s, first, last) = {} THEN last ELSE Min(Matches(text, s, first, last))
find_end(text, s, first, last) ==
  IF s = <<>> \/ Matches(text, s, first, last) = {} THEN last
  ELSE Max(Matches(text, s, first, last))

(* A loop upwards from pos and one downwards, to the first character that  *)
(* is wanted                                                               *)
Upwards(text, pos, Wanted(_)) ==
  LET hits == {i \in pos..(Len(text) - 1) : Wanted(At(text, i))} IN
  IF hits = {} THEN npos ELSE Min(hits)
Downwards(text, pos, Wanted(_)) ==
  LET hits == {i \in 0..Less(pos, Len(text) - 1) : Wanted(At(text, i))} IN
  IF hits = {} THEN npos ELSE Max(hits)

find(text, s, pos) ==
  LET xpos == search(text, s, pos, Len(text)) IN
  IF pos > Len(text) \/ xpos + Len(s) > Len(text) THEN npos ELSE xpos

find_char(text, c, pos) == Upwards(text, pos, LAMBDA x : x = c)

rfind(text, s, pos) ==
  LET last == Less(Len(text) - Len(s), pos) + Len(s)
      result == find_end(text, s, 0, last) IN
  CASE Len(text) < Len(s)                  -> npos
    [] s = <<>>                            -> Less(Len(text), pos)
    [] Len(text) >= Len(s) /\ s # <<>>     -> IF result # last THEN result ELSE npos

rfind_char(text, c, pos) == Downwards(text, pos, LAMBDA x : x = c)

find_first_of(text, s, pos) ==
  CASE text = <<>> \/ s = <<>> -> npos
    [] Len(s) = 1              -> find_char(text, s[1], pos)
    [] OTHER                   -> Upwards(text, pos, LAMBDA x : x \in ToSet(s))

find_first_not_of_char(text, c, pos) == Upwards(text, pos, LAMBDA x : x # c)

(* Without characters to avoid, pos is not looked at.                      *)
find_first_not_of(text, s, pos) ==
  CASE text = <<>> -> npos
    [] text # <<>> /\ s = <<>> -> 0
    [] text # <<>> /\ Len(s) = 1 -> find_first_not_of_char(text, s[1], pos)
    [] OTHER -> Upwards(text, pos, LAMBDA x : x \notin ToSet(s))

find_last_of(text, s, pos) ==
  CASE text = <<>> \/ s = <<>> -> npos
    [] Len(s) = 1              -> rfind_char(text, s[1], pos)
    [] OTHER                   -> Downwards(text, pos, LAMBDA x : x \in ToSet(s))

find_last_not_of_char(text, c, pos) == Downwards(text, pos, LAMBDA x : x # c)

find_last_not_of(text, s, pos) ==
  CASE text = <<>> -> npos
    [] text # <<>> /\ s = <<>> -> Less(pos, Len(text) - 1)
    [] text # <<>> /\ Len(s) = 1 -> find_last_not_of_char(text, s[1], pos)
    [] OTHER -> Downwards(text, pos, LAMBDA x : x \notin ToSet(s))

substr(text, pos, n) ==
  LET from == Less(pos, Len(text)) IN SubSeq(text, from + 1, from + Less(n, Len(text) - from))

-----------------------------------------------------------------------------
(* memcmp of as many characters as both have, then the sizes               *)
memcmp(a, b, n) ==
  LET differ == {i \in 1..n : a[i] # b[i]} IN
  IF differ = {} THEN 0 ELSE IF a[Min(differ)] < b[Min(differ)] THEN -1 ELSE 1

compare(x, y) ==
  LET r == memcmp(x, y, Less(Len(x), Len(y))) IN
  IF r # 0 THEN r
  ELSE IF Len(x) < Len(y) THEN -1 ELSE IF Len(x) > Len(y) THEN 1 ELSE 0

Equal(x, y) == Len(x) = Len(y) /\ memcmp(x, y, Len(x)) = 0
LessThan(x, y) ==
  LET r == memcmp(x, y, Less(Len(x), Len(y))) IN r < 0 \/ (r = 0 /\ Len(x) < Len(y))

starts_with(text, x) == Len(text) >= Len(x) /\ memcmp(text, x, Len(x)) = 0
ends_with(text, x) ==
  Len(text) > Len(x) /\ memcmp(From(text, Len(text) - Len(x)), x, Len(x)) = 0

Consume(text, x) ==
  IF starts_with(text, x) THEN [ok |-> TRUE, rest |-> From(text, Len(x))]
  ELSE [ok |-> FALSE, rest |-> text]

-----------------------------------------------------------------------------
Mirror(text, n, pos) == IF pos = npos THEN npos ELSE Len(text) - n - pos
Others(alphabet, s) == SetToSeq(alphabet \ ToSet(s))

(* Searching backwards is searching the reversed text forwards, avoiding   *)
(* characters is searching for the others, and a hit is where a piece      *)
(* begins with what was searched for. Nothing is said of what              *)
(* find_first_not_of does without characters: it does not look at pos.     *)
SearchesAgree(alphabet, text, s, pos) ==
  LET back == Len(text) - Len(s) - Less(pos, Len(text) - Len(s))
      last == Len(text) - 1 - Less(pos, Len(text) - 1) IN
  /\ Len(s) <= Len(text) =>
       rfind(text, s, pos) = Mirror(text, Len(s), find(Reverse(text), Reverse(s), back))
  /\ text # <<>> =>
       /\ find_last_of(text, s, pos) = Mirror(text, 1, find_first_of(Reverse(text), s, last))
       /\ s # <<>> => find_last_not_of(text, s, pos) =
                        Mirror(text, 1, find_first_not_of(Reverse(text), s, last))
  /\ s # <<>> => find_first_not_of(text, s, pos) = find_first_of(text, Others(alphabet, s), pos)
  /\ LET hit == find(text, s, pos) IN
     IF hit = npos
     THEN \A i \in pos..Len(text) : ~starts_with(substr(text, i, npos), s)
     ELSE /\ starts_with(substr(text, hit, npos), s)
          /\ \A i \in pos..(hit - 1) : ~starts_with(substr(text, i, npos), s)

(* One order is behind compare and the operators; a piece and the rest are *)
(* the text; a text ends with every shorter text that it ends with.        *)
PiecesCompare(x, y) ==
  /\ compare(x, y) = -compare(y, x)
  /\ LessThan(x, y) <=> compare(x, y) < 0
  /\ Equal(x, y) <=> compare(x, y) = 0
  /\ ends_with(x, y) <=> x # y /\ starts_with(Reverse(x), Reverse(y))
  /\ LET consumed == Consume(x, y) IN consumed.rest = IF consumed.ok THEN substr(x, Len(y), npos) ELSE x
  /\ \A i \in 0..Len(x) : substr(x, 0, i) \o substr(x, i, npos) = x
=============================================================================
