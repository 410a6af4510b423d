----------------------------- MODULE MCLibrary ------------------------------
(* The library for TLC: InlinedVector, the walk of StealWalk, CallOptions, *)
(* RefCount, Callbacks, and the functions on texts, bytes and messages. A  *)
(* behaviour is one of any of them; one of the functions is just an input. *)
EXTENDS InlinedVector, StealWalk, CallOptions, RefCount, Callbacks

CONSTANTS ByteBits, WordBytes, Width

VARIABLES
  part,   \* what this behaviour is about
  input   \* the input, if it is about functions

Ordered == INSTANCE OrderedCode
Codes == INSTANCE Base64
Num == INSTANCE Numbers
Text == INSTANCE StrUtil
Piece == INSTANCE StringPiece
Scan == INSTANCE Scanner
Paths == INSTANCE Path
Msg == INSTANCE DeviceMessages

libraryVars == <<vectorVars, walkVars, callVars, refVars, callbackVars, part, input>>

Words(chars, n) == UNION {[1..k -> chars] : k \in 0..n}
Input(kind, x, y) == [kind |-> kind, x |-> x, y |-> y]

(* Bytes that have escapes, their neighbours, and one that has none        *)
MCStrings == Words({0, 1, 7, 14, 15}, 3)
MCRests == {<<>>, <<0>>, <<1, 15>>}

MCSpelling ==
  [negative : BOOLEAN, zeros : {0, 2}, n : 0..70 \cup 100..300 \cup 1270..1290 \cup 2550..2570,
   before : {<<>>, <<" ">>}, after : {<<>>, <<" ">>, <<"x">>, <<" ", "x">>}]

(* Messages as their setters build them                                    *)
MCLong == [i \in 1..130 |-> "a"]
MCJobDefs ==
  {Msg!JobDefSet(Msg!JobDefSet(Msg!NewJobDef, "name", name), "tasks", tasks) :
     name \in {<<>>, <<"a">>, <<Msg!NotUtf8>>, MCLong}, tasks \in UNION {[K -> {<<"a">>, <<Msg!NotUtf8>>}] : K \in SUBSET {-1, 300}}}
MCFewJobDefs == {j \in MCJobDefs : j.name \in {<<>>, <<"a">>} /\ DOMAIN j.tasks \subseteq {300}}
MCClusterDefs ==
  {Msg!NewClusterDef} \cup {Msg!ClusterDefAddJob(Msg!NewClusterDef, j) : j \in MCFewJobDefs}
  \cup {Msg!ClusterDefAddJob(Msg!ClusterDefAddJob(Msg!NewClusterDef, i), j) : i, j \in MCFewJobDefs}
MCServerDefs ==
  LET job == Msg!JobDefSet(Msg!NewJobDef, "name", <<"a">>)
      bad == Msg!JobDefSet(Msg!NewJobDef, "tasks", [k \in {1} |-> <<Msg!NotUtf8>>]) IN
  {Msg!ServerDefSet(Msg!ServerDefSet(Msg!ServerDefSet(
     Msg!SetAllocatedCluster(Msg!NewServerDef, c), "job_name", n), "task_index", i), "protocol", p) :
     c \in {Msg!Null, <<Msg!NewClusterDef>>} \cup {<<Msg!ClusterDefAddJob(Msg!NewClusterDef, j)>> : j \in {job, bad}},
     n \in {<<>>, <<"a">>}, i \in {0, -1, 300}, p \in {<<>>, <<Msg!NotUtf8>>}}
MCConfigProtos ==
  {Msg!ConfigProtoSet(Msg!ConfigProtoSet(Msg!ConfigProtoSet(
     Msg!NewConfigProto, "device_count", d), "operation_timeout_in_ms", t), "use_per_session_threads", u) :
     d \in UNION {[K -> {-1, 300}] : K \in SUBSET {<<"a">>, <<Msg!NotUtf8>>}}, t \in {0, 128}, u \in BOOLEAN}
MCDeviceAttributes ==
  {Msg!DeviceAttributesSet(Msg!DeviceAttributesSet(Msg!DeviceAttributesSet(Msg!DeviceAttributesSet(
     Msg!NewDeviceAttributes, "name", n), "memory_limit", l), "bus_adjacency", b), "incarnation", i) :
     n \in {<<>>, <<"a">>, <<Msg!NotUtf8>>}, l \in {-1, 0, 128}, b \in {0, 2}, i \in {0, 7}}

InputInit ==
  \/ \E x \in MCStrings, y \in Words({0, 1, 14, 15}, 2) : input = Input("strings", x, y)
  \/ \E x \in Words({0, 1, 15}, 5) : input = Input("bytes", x, <<>>)
  \/ \E v \in 0..(Ordered!WordSize - 1) : input = Input("word", v, <<>>)
  \/ \E s \in Words({0, 1, 63, 128, 255}, 4) : input = Input("code", s, <<>>)
  \/ \E t \in Words({0, 1, 16, 63, Codes!Pad, Codes!Other}, 4) : input = Input("coded", t, <<>>)
  \/ \E s \in MCSpelling : input = Input("number", s, <<>>)
  \/ \E i \in (-Num!MaxSigned - 1)..Num!MaxSigned : input = Input("integer", i, <<>>)
  \/ \E s \in Words(Text!Bytes, 2) \cup Words({"BEL", "7", "\\", "x", " "}, 4) :
       input = Input("text", s, <<>>)
  \/ \E x \in Words({1, 2, 3}, 4), y \in Words({1, 2, 3}, 2) : input = Input("piece", x, y)
  \/ \E p \in Words({"/", ".", "a"}, 7) : input = Input("path", p, <<>>)
  \/ \E n \in Words({":", "/", ".", "a"}, 6) : input = Input("uri", n, <<>>)
  \/ \E p, q \in Words({"/", ".", "a"}, 3) : input = Input("join", p, q)
  \/ \E a, b \in MCJobDefs : input = Input("JobDef", a, b)
  \/ \E a, b \in MCClusterDefs : input = Input("ClusterDef", a, b)
  \/ \E a, b \in MCServerDefs : input = Input("ServerDef", a, b)
  \/ \E a, b \in MCConfigProtos : input = Input("ConfigProto", a, b)
  \/ \E a, b \in MCDeviceAttributes : input = Input("DeviceAttributes", a, b)

NoInput == Input("none", 0, 0)

Init ==
  /\ part \in {"vector", "walk", "call", "ref", "callback", "input"}
  /\ VectorInit /\ CallInit /\ RefInit /\ CallbackInit
  /\ part # "call" => timeout = 0
  /\ part # "ref" => holder = CHOOSE h \in [References -> Threads \cup {Nobody}] :
                                Cardinality({r \in References : h[r] # Nobody}) = 1
  /\ IF part = "walk" THEN WalkInit ELSE size = 1 /\ inc = 1 /\ victim = 0 /\ visited = <<>>
  /\ IF part = "input" THEN InputInit ELSE input = NoInput

VectorStep == part = "vector" /\ VectorNext
              /\ UNCHANGED <<walkVars, callVars, refVars, callbackVars, part, input>>
WalkStep == part = "walk" /\ WalkNext
            /\ UNCHANGED <<vectorVars, callVars, refVars, callbackVars, part, input>>
CallStep == part = "call" /\ CallNext
            /\ UNCHANGED <<vectorVars, walkVars, refVars, callbackVars, part, input>>
RefStep == part = "ref" /\ RefNext
           /\ UNCHANGED <<vectorVars, walkVars, callVars, callbackVars, part, input>>
CallbackStep == part = "callback" /\ CallbackNext
                /\ UNCHANGED <<vectorVars, walkVars, callVars, refVars, part, input>>

Next == VectorStep \/ WalkStep \/ CallStep \/ RefStep \/ CallbackStep

Spec == Init /\ [][Next]_libraryVars

-----------------------------------------------------------------------------
Of(kind) == input.kind = kind

(* Encodings of strings and numbers compare as what they encode, whatever  *)
(* follows them, are read back in the presence of what follows, and bytes  *)
(* that are read are encodings (ordered_code.cc, base64.cc).               *)
EncodingsKeepOrder ==
  /\ Of("strings") => /\ Ordered!StringsAreOrdered(input.x, input.y)
                      /\ Ordered!StringsAreOrdered(input.y, input.x)
                      /\ Ordered!StringIsReadBack(input.x, input.y)
  /\ Of("bytes") => Ordered!OnlyEncodingsAreRead(input.x)
  /\ Of("word") => /\ Ordered!NumbersAreOrdered(input.x)
                   /\ \A rest \in MCRests : Ordered!NumberIsReadBack(input.x, rest)
  /\ Of("code") => Codes!BytesAreDecoded(input.x)
  /\ Of("coded") => Codes!OnlyCodesAreAccepted(input.x)

(* A number is read from a text if and only if the text spells a number of *)
(* the type, at every limit, and what is written is read (numbers.cc).     *)
NumbersAreRead ==
  /\ Of("number") => Num!IsRead(input.x.negative, input.x.zeros, input.x.n,
                                input.x.before, input.x.after)
  /\ Of("integer") => Num!IsReadBack(input.x)

(* Escaped text survives quoting (str_util.cc), a scanner takes a line to  *)
(* pieces (scanner.cc), and searches forwards and backwards see the same   *)
(* text (string_piece.cc).                                                 *)
TextIsKept ==
  /\ Of("text") => /\ Text!EscapedIsReadBack(input.x) /\ Text!WhitespaceIsRemoved(input.x)
                   /\ Scan!LineIsScanned(input.x)
  /\ Of("piece") => /\ Piece!PiecesCompare(input.x, input.y)
                    /\ \A pos \in 0..(Len(input.x) + 1) \cup {Piece!npos} :
                         Piece!SearchesAgree({1, 2, 3}, input.x, input.y, pos)

(* Cleaning, splitting and joining paths keep the place (path.cc), and so  *)
(* does taking the scheme from a name (file_system.cc).                    *)
PathsKeepThePlace ==
  /\ Of("path") => Paths!PathIsClean(input.x)
  /\ Of("uri") => Paths!UriIsTakenApart(input.x)
  /\ Of("join") => Paths!JoinGoesOn(input.x, input.y)

(* What two messages wrote, one after the other, is read as the merge of   *)
(* the two, in any order of their fields and whatever foreign fields stand *)
(* between them, if and only if their strings are UTF-8; ByteSize is the   *)
(* size of what is written (protobuf/*.pb.cc).                             *)
MessagesMerge ==
  /\ Of("JobDef") => Msg!JobDefKeeps(input.x, input.y)
  /\ Of("ClusterDef") => Msg!ClusterDefKeeps(input.x, input.y)
  /\ Of("ServerDef") => Msg!ServerDefKeeps(input.x, input.y)
  /\ Of("ConfigProto") => Msg!ConfigProtoKeeps(input.x, input.y)
  /\ Of("DeviceAttributes") => Msg!DeviceAttributesKeeps(input.x, input.y)

(* safe_strto64 reads negative numbers as well, as numbers_test.cc expects *)
NegativesAreRead ==
  Of("integer") => Num!safe_strto64(Num!FastIntToBufferLeft(input.x)) = Num!Value(input.x)
=============================================================================
