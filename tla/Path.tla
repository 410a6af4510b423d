-------------------------------- MODULE Path --------------------------------
(* Paths (io/path.cc) and the schemes of names (file_system.cc). A path is *)
(* a sequence of one-character strings.                                    *)
EXTENDS Integers, Sequences, SequencesExt

LOCAL Scan == INSTANCE Scanner

IsAbsolutePath(path) == path # <<>> /\ path[1] = "/"
Past(s, n) == SubSeq(s, n + 1, Len(s))

(* One more path at the end of result                                      *)
Joined(result, path) ==
  CASE path = <<>>   -> result
    [] result = <<>> -> path
    [] Last(result) = "/" /\ IsAbsolutePath(path)  -> result \o Tail(path)
    [] Last(result) = "/" \/ IsAbsolutePath(path)  -> result \o path
    [] OTHER                                       -> result \o <<"/">> \o path

JoinPath(paths) == FoldLeft(Joined, <<>>, paths)

-----------------------------------------------------------------------------
(* The final separator, if there is one, belongs to neither part unless it *)
(* is the first character.                                                 *)
SplitPath(path) ==
  LET pos == SelectLastInSeq(path, LAMBDA c : c = "/") IN
  CASE pos = 0 -> <<<<>>, path>>
    [] pos = 1 -> <<<<"/">>, Tail(path)>>
    [] OTHER   -> <<SubSeq(path, 1, pos - 1), Past(path, pos)>>

Dirname(path) == SplitPath(path)[1]
Basename(path) == SplitPath(path)[2]

SplitBasename(path) ==
  LET base == Basename(path)
      pos == SelectLastInSeq(base, LAMBDA c : c = ".") IN
  IF pos = 0 THEN <<base, <<>>>> ELSE <<SubSeq(base, 1, pos - 1), Past(base, pos)>>

Extension(path) == SplitBasename(path)[2]

-----------------------------------------------------------------------------
(* CleanPath: src is what is left to read, dst what was written, limit how *)
(* much of it stays whatever ".." follows.                                 *)

RECURSIVE SkipSeparators(_)
SkipSeparators(s) == IF s # <<>> /\ s[1] = "/" THEN SkipSeparators(Tail(s)) ELSE s

(* Up to the separator, or the end *)
Part(src) ==
  LET pos == SelectInSeq(src, LAMBDA c : c = "/") IN
  IF pos = 0 THEN src ELSE SubSeq(src, 1, pos - 1)

Backtracked(dst, limit) ==
  LET k == CHOOSE k \in limit..(Len(dst) - 1) :
             /\ k = limit \/ dst[k] = "/"
             /\ \A j \in (k + 1)..(Len(dst) - 1) : dst[j] # "/" IN
  SubSeq(dst, 1, k)

(* mutant: a copied ".." does not move the limit *)
ProcessedBelow(part, separator, dst, limit, absolute) ==
  CASE part = <<".">>                           -> <<dst, limit>>
    [] part = <<".", ".">> /\ Len(dst) # limit  -> <<Backtracked(dst, limit), limit>>
    [] part = <<".", ".">> /\ absolute          -> <<dst, limit>>
    [] OTHER                                    -> <<dst \o part \o separator, limit>>

(* What a part leaves to dst, and the limit then                           *)
Processed(part, separator, dst, limit, absolute) ==
  LET copied == dst \o part \o separator IN
  CASE part = <<".">>                           -> <<dst, limit>>
    [] part = <<".", ".">> /\ Len(dst) # limit  -> <<Backtracked(dst, limit), limit>>
    [] part = <<".", ".">> /\ Len(dst) = limit  -> IF absolute THEN <<dst, limit>>
                                                   ELSE <<copied, Len(copied)>>
    [] OTHER                                    -> <<copied, limit>>

RECURSIVE Clean(_, _, _, _)
Clean(src, dst, limit, absolute) ==
  IF src = <<>> THEN dst
  ELSE LET part == Part(src)
           separator == IF part = src THEN <<>> ELSE <<"/">>
           next == Processed(part, separator, dst, limit, absolute) IN
       Clean(SkipSeparators(Past(src, Len(part \o separator))), next[1], next[2], absolute)

CleanPath(path) ==
  LET root == IF IsAbsolutePath(path) THEN <<"/">> ELSE <<>>
      dst == Clean(SkipSeparators(path), root, Len(root), root # <<>>) IN
  CASE dst = <<>>                          -> <<".">>
    [] Len(dst) > 1 /\ Last(dst) = "/"     -> Front(dst)
    [] OTHER                               -> dst

-----------------------------------------------------------------------------
(* What stands before the colon is a scheme if it begins like one.         *)
GetSchemeFromURI(name) ==
  LET colon == SelectInSeq(name, LAMBDA c : c = ":")
      front == Scan!Scanner(SubSeq(name, 1, colon - 1)) IN
  IF colon > 0 /\ Scan!GetResult(Scan!Many(Scan!One(front, Scan!LETTER),
                                           Scan!LETTER_DIGIT_DOT)).ok
  THEN SubSeq(name, 1, colon - 1) ELSE <<>>

(* Both characters behind the colon are read, be they in the piece or the  *)
(* end of the string, which is no separator.                               *)
GetNameFromURI(name) ==
  LET scheme == GetSchemeFromURI(name)
      filename == Past(name, Len(scheme) + 1) IN
  IF scheme # <<>> /\ Len(filename) >= 2 /\ filename[1] = "/" /\ filename[2] = "/"
  THEN Past(filename, 2) ELSE name

-----------------------------------------------------------------------------
(* What a path stands for: where it starts, how many levels it climbs, and *)
(* the names it then goes down.                                            *)
Start(path) == [root |-> IsAbsolutePath(path), up |-> 0, names |-> <<>>]

Step(at, name) ==
  CASE name \in {<<>>, <<".">>} -> at
    [] name = <<".", ".">>      -> IF at.names # <<>> THEN [at EXCEPT !.names = Front(@)]
                                   ELSE IF at.root THEN at ELSE [at EXCEPT !.up = @ + 1]
    [] OTHER                    -> [at EXCEPT !.names = Append(@, name)]

RECURSIVE Walk(_, _)
Walk(at, path) ==
  IF path = <<>> THEN at
  ELSE Walk(Step(at, Part(path)), Past(path, Len(Part(path)) + 1))

Place(path) == Walk(Start(path), path)

(* The shortest path to a place                                            *)
Shortest(place) ==
  LET parts == [i \in 1..place.up |-> <<".", ".">>] \o place.names
      text == FlattenSeq([i \in DOMAIN parts |->
                            IF i = 1 /\ ~place.root THEN parts[i] ELSE <<"/">> \o parts[i]]) IN
  IF text # <<>> THEN text ELSE IF place.root THEN <<"/">> ELSE <<".">>

(* CleanPath gives the shortest path to the same place; a path can be      *)
(* taken apart and joined again; and the extension of a file is in the     *)
(* last of its names.                                                      *)
PathIsClean(path) ==
  /\ CleanPath(path) = Shortest(Place(path))
  /\ Place(JoinPath(<<Dirname(path), Basename(path)>>)) = Place(path)
  /\ Basename(path) \in {SplitBasename(path)[1], SplitBasename(path)[1] \o <<".">> \o Extension(path)}
  /\ ~Contains(Basename(path), "/") /\ ~Contains(Extension(path), "/")

(* A joined path goes first to the one place, then down to the other.      *)
JoinGoesOn(a, b) ==
  a # <<>> => Place(JoinPath(<<a, b>>)) = Walk(Place(a), b)

(* A name is its scheme, the separator and the name there, or is a name    *)
(* without a scheme; and whatever stands behind the separator is kept.     *)
UriIsTakenApart(name) ==
  LET Uri(scheme, rest) == scheme \o <<":", "/", "/">> \o rest IN
  /\ GetNameFromURI(name) # name => Uri(GetSchemeFromURI(name), GetNameFromURI(name)) = name
  /\ ~Contains(name, ":") => GetSchemeFromURI(name) = <<>> /\ GetNameFromURI(name) = name
  /\ \A scheme \in {<<"a", "a">>, <<"a", ".", "1">>} :
       /\ GetSchemeFromURI(Uri(scheme, name)) = scheme
       /\ GetNameFromURI(Uri(scheme, name)) = name
=============================================================================
