------------------------------ MODULE Messages ------------------------------
(* The generated messages (protobuf/*.pb.cc, *.pb.h): building, clearing,  *)
(* merging and swapping them, and their wire format. A message is a record *)
(* of its fields and a wire a sequence of entries, the units its reader    *)
(* works on; the bytes in an entry (tags, numbers, lengths) belong to the  *)
(* protobuf library. Strings are sequences of one-character strings.       *)
EXTENDS Integers, Sequences, SequencesExt, TLC

NotUtf8 == "\\377"          \* a byte that no UTF-8 text has
Utf8(s) == NotUtf8 \notin Range(s)
Null == <<>>                \* ServerDef's cluster_ is Null or <<a ClusterDef>>
NoEntries == [k \in {} |-> 0]

Entry(field, type, value) == [field |-> field, type |-> type, value |-> value]

(* What fields add to a wire: those with their default value, nothing      *)
StringField(n, s) == IF s = <<>> THEN <<>> ELSE <<Entry(n, "string", s)>>
NumberField(n, type, v) == IF v = 0 THEN <<>> ELSE <<Entry(n, type, v)>>
BoolField(n, b) == IF b THEN <<Entry(n, "varint", 1)>> ELSE <<>>
MessageField(n, wire) == <<Entry(n, "message", wire)>>
MapField(n, map, keyType, valueType) ==
  LET keys == SetToSeq(DOMAIN map) IN
  [i \in DOMAIN keys |-> Entry(n, "message", <<Entry(1, keyType, keys[i]), Entry(2, valueType, map[keys[i]])>>)]

(* The bytes of a varint, a string, an entry's payload and a whole wire    *)
VarintSize(v) == IF v < 0 THEN 10 ELSE 1 + Cardinality({k \in 1..4 : v >= 128 ^ k})
LengthDelimited(n) == VarintSize(n) + n

RECURSIVE WireSize(_)
PayloadSize(e) ==
  CASE e.type = "varint"  -> VarintSize(e.value)
    [] e.type = "fixed64" -> 8
    [] e.type = "string"  -> LengthDelimited(Len(e.value))
    [] e.type = "message" -> LengthDelimited(WireSize(e.value))
WireSize(wire) == FoldLeft(LAMBDA n, e : n + 1 + PayloadSize(e), 0, wire)

(* What ByteSize counts for a field                                        *)
StringSize(s) == IF s = <<>> THEN 0 ELSE 1 + LengthDelimited(Len(s))
NumberSize(v) == IF v = 0 THEN 0 ELSE 1 + VarintSize(v)
MapSize(map, EntrySize(_, _)) ==
  Cardinality(DOMAIN map) + MapThenSumSet(LAMBDA k : LengthDelimited(EntrySize(k, map[k])), DOMAIN map)

-----------------------------------------------------------------------------
(* Merging fields: a value that is not the default replaces                *)
Assigned(to, from, default) == IF from = default THEN to ELSE from

(* A reader goes through the entries until one fails. An entry of type     *)
(* "end" is a tag 0 or an end of group: the reader stops there, and whoever*)
(* asked for a whole message refuses it. One of type "cut" ends within     *)
(* what is to be read.                                                     *)
Got(m, ok) == [message |-> m, status |-> IF ok THEN "reading" ELSE "failed"]
Reading(Field(_, _), to, wire) ==
  FoldLeft(LAMBDA r, e : CASE r.status # "reading" -> r
                           [] e.type = "end" -> [r EXCEPT !.status = "ended"]
                           [] e.type = "cut" -> [r EXCEPT !.status = "failed"]
                           [] OTHER          -> Field(r.message, e),
           Got(to, TRUE), wire)
IsWhole(r) == r.status = "reading"

(* An entry of a map, read into a key and a value                          *)
MapEntryField(m, e) ==
  CASE e.field = 1 -> Got([m EXCEPT !.key = e.value], TRUE)
    [] e.field = 2 -> Got([m EXCEPT !.value = e.value], TRUE)
    [] OTHER       -> Got(m, TRUE)

-----------------------------------------------------------------------------
(* JobDef                                                                  *)
NewJobDef == [name |-> <<>>, tasks |-> NoEntries]
JobDefSet(m, field, value) == [m EXCEPT ![field] = value]
JobDefClear(m) == [m EXCEPT !.name = <<>>, !.tasks = NoEntries]

JobDefField(m, e) ==
  CASE e.field = 1 /\ e.type = "string" -> Got([m EXCEPT !.name = e.value], Utf8(e.value))
    [] e.field = 2 /\ e.type = "message" ->
         LET r == Reading(MapEntryField, [key |-> 0, value |-> <<>>], e.value) IN
         IF ~IsWhole(r) THEN Got(m, FALSE)
         ELSE Got([m EXCEPT !.tasks = (r.message.key :> r.message.value) @@ @], Utf8(r.message.value))
    [] OTHER -> Got(m, TRUE)
JobDefMergePartial(m, wire) == Reading(JobDefField, m, wire)

JobDefSerialize(m) == StringField(1, m.name) \o MapField(2, m.tasks, "varint", "string")
JobDefByteSize(m) ==
  StringSize(m.name) + MapSize(m.tasks, LAMBDA k, v : 1 + VarintSize(k) + 1 + LengthDelimited(Len(v)))

JobDefMergeFrom(m, from) ==
  [tasks |-> from.tasks @@ m.tasks, name |-> Assigned(m.name, from.name, <<>>)]
JobDefCopyFrom(m, from) == JobDefMergeFrom(JobDefClear(m), from)
JobDefSwap(m, other) ==
  <<[m EXCEPT !.name = other.name, !.tasks = other.tasks], [other EXCEPT !.name = m.name, !.tasks = m.tasks]>>

-----------------------------------------------------------------------------
(* ClusterDef                                                              *)
NewClusterDef == [job |-> <<>>]
ClusterDefAddJob(m, j) == [m EXCEPT !.job = Append(@, j)]
ClusterDefClear(m) == [m EXCEPT !.job = <<>>]

ClusterDefField(m, e) ==
  IF e.field = 1 /\ e.type = "message"
  THEN LET r == JobDefMergePartial(NewJobDef, e.value) IN Got(ClusterDefAddJob(m, r.message), IsWhole(r))
  ELSE Got(m, TRUE)
ClusterDefMergePartial(m, wire) == Reading(ClusterDefField, m, wire)

ClusterDefSerialize(m) == FlattenSeq([i \in DOMAIN m.job |-> MessageField(1, JobDefSerialize(m.job[i]))])
ClusterDefByteSize(m) == FoldLeft(LAMBDA n, j : n + LengthDelimited(JobDefByteSize(j)), Len(m.job), m.job)

ClusterDefMergeFrom(m, from) == [m EXCEPT !.job = @ \o from.job]
ClusterDefCopyFrom(m, from) == ClusterDefMergeFrom(ClusterDefClear(m), from)
ClusterDefSwap(m, other) == <<[m EXCEPT !.job = other.job], [other EXCEPT !.job = m.job]>>

-----------------------------------------------------------------------------
(* ServerDef                                                               *)
NewServerDef ==
  [cluster |-> Null, job_name |-> <<>>, task_index |-> 0, default_session_config |-> <<>>, protocol |-> <<>>]
ServerDefSet(m, field, value) == [m EXCEPT ![field] = value]
MutableCluster(m) == IF m.cluster = Null THEN NewClusterDef ELSE m.cluster[1]
SetAllocatedCluster(m, cluster) == [m EXCEPT !.cluster = cluster]
ServerDefClear(m) ==
  [m EXCEPT !.cluster = Null, !.job_name = <<>>, !.task_index = 0, !.default_session_config = <<>>, !.protocol = <<>>]

ServerDefField(m, e) ==
  CASE e.field = 1 /\ e.type = "message" ->
         LET r == ClusterDefMergePartial(MutableCluster(m), e.value) IN
         Got([m EXCEPT !.cluster = <<r.message>>], IsWhole(r))
    [] e.field = 2 /\ e.type = "string" -> Got([m EXCEPT !.job_name = e.value], Utf8(e.value))
    [] e.field = 3 /\ e.type = "varint" -> Got([m EXCEPT !.task_index = e.value], TRUE)
    [] e.field = 4 /\ e.type = "string" -> Got([m EXCEPT !.default_session_config = e.value], Utf8(e.value))
    [] e.field = 5 /\ e.type = "string" -> Got([m EXCEPT !.protocol = e.value], Utf8(e.value))
    [] OTHER -> Got(m, TRUE)
ServerDefMergePartial(m, wire) == Reading(ServerDefField, m, wire)

ServerDefSerialize(m) ==
  (IF m.cluster = Null THEN <<>> ELSE MessageField(1, ClusterDefSerialize(m.cluster[1])))
    \o StringField(2, m.job_name) \o NumberField(3, "varint", m.task_index)
    \o StringField(4, m.default_session_config) \o StringField(5, m.protocol)
ServerDefByteSize(m) ==
  (IF m.cluster = Null THEN 0 ELSE 1 + LengthDelimited(ClusterDefByteSize(m.cluster[1])))
    + StringSize(m.job_name) + NumberSize(m.task_index)
    + StringSize(m.default_session_config) + StringSize(m.protocol)

ReplacedCluster(m, from) == Assigned(m.cluster, from.cluster, Null)    \* a mutant: not merged
MergedCluster(m, from) ==
  IF from.cluster = Null THEN m.cluster
  ELSE <<ClusterDefMergeFrom(MutableCluster(m), from.cluster[1])>>
ServerDefMergeFrom(m, from) ==
  [cluster |-> MergedCluster(m, from),
   job_name |-> Assigned(m.job_name, from.job_name, <<>>),
   task_index |-> Assigned(m.task_index, from.task_index, 0),
   default_session_config |-> Assigned(m.default_session_config, from.default_session_config, <<>>),
   protocol |-> Assigned(m.protocol, from.protocol, <<>>)]
ServerDefCopyFrom(m, from) == ServerDefMergeFrom(ServerDefClear(m), from)
ServerDefSwap(m, other) ==
  LET With(x, y) == [x EXCEPT !.cluster = y.cluster, !.job_name = y.job_name, !.task_index = y.task_index,
                              !.default_session_config = y.default_session_config, !.protocol = y.protocol] IN
  <<With(m, other), With(other, m)>>
=============================================================================
