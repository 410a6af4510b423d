--------------------------- MODULE DeviceMessages ---------------------------
(* The generated messages ConfigProto and DeviceAttributes, and what all   *)
(* messages promise.                                                       *)
EXTENDS Messages

NewConfigProto == [device_count |-> NoEntries, operation_timeout_in_ms |-> 0, use_per_session_threads |-> FALSE]
ConfigProtoSet(m, field, value) == [m EXCEPT ![field] = value]
ConfigProtoClear(m) ==
  [m EXCEPT !.device_count = NoEntries, !.operation_timeout_in_ms = 0, !.use_per_session_threads = FALSE]

ConfigProtoField(m, e) ==
  CASE e.field = 1 /\ e.type = "message" ->
         LET r == Reading(MapEntryField, [key |-> <<>>, value |-> 0], e.value) IN
         IF ~IsWhole(r) THEN Got(m, FALSE)
         ELSE Got([m EXCEPT !.device_count = (r.message.key :> r.message.value) @@ @], Utf8(r.message.key))
    [] e.field = 2 /\ e.type = "varint" -> Got([m EXCEPT !.operation_timeout_in_ms = e.value], TRUE)
    [] e.field = 3 /\ e.type = "varint" -> Got([m EXCEPT !.use_per_session_threads = (e.value # 0)], TRUE)
    [] OTHER -> Got(m, TRUE)
ConfigProtoMergePartial(m, wire) == Reading(ConfigProtoField, m, wire)

ConfigProtoSerialize(m) ==
  MapField(1, m.device_count, "string", "varint")
    \o NumberField(2, "varint", m.operation_timeout_in_ms) \o BoolField(3, m.use_per_session_threads)
ConfigProtoByteSize(m) ==
  NumberSize(m.operation_timeout_in_ms) + (IF m.use_per_session_threads THEN 2 ELSE 0)
    + MapSize(m.device_count, LAMBDA k, v : 1 + LengthDelimited(Len(k)) + 1 + VarintSize(v))

ConfigProtoMergeFrom(m, from) ==
  [device_count |-> from.device_count @@ m.device_count,
   operation_timeout_in_ms |-> Assigned(m.operation_timeout_in_ms, from.operation_timeout_in_ms, 0),
   use_per_session_threads |-> Assigned(m.use_per_session_threads, from.use_per_session_threads, FALSE)]
ConfigProtoCopyFrom(m, from) == ConfigProtoMergeFrom(ConfigProtoClear(m), from)
ConfigProtoSwap(m, other) ==
  LET With(x, y) == [x EXCEPT !.device_count = y.device_count,
                              !.operation_timeout_in_ms = y.operation_timeout_in_ms,
                              !.use_per_session_threads = y.use_per_session_threads] IN
  <<With(m, other), With(other, m)>>

-----------------------------------------------------------------------------
NewDeviceAttributes ==
  [name |-> <<>>, device_type |-> <<>>, memory_limit |-> 0, bus_adjacency |-> 0, incarnation |-> 0,
   physical_device_desc |-> <<>>]
DeviceAttributesSet(m, field, value) == [m EXCEPT ![field] = value]
DeviceAttributesClear(m) ==
  [m EXCEPT !.memory_limit = 0, !.incarnation = 0, !.name = <<>>, !.device_type = <<>>, !.bus_adjacency = 0,
            !.physical_device_desc = <<>>]

DeviceAttributesField(m, e) ==
  CASE e.field = 1 /\ e.type = "string"  -> Got([m EXCEPT !.name = e.value], Utf8(e.value))
    [] e.field = 2 /\ e.type = "string"  -> Got([m EXCEPT !.device_type = e.value], Utf8(e.value))
    [] e.field = 4 /\ e.type = "varint"  -> Got([m EXCEPT !.memory_limit = e.value], TRUE)
    [] e.field = 5 /\ e.type = "varint"  -> Got([m EXCEPT !.bus_adjacency = e.value], TRUE)
    [] e.field = 6 /\ e.type = "fixed64" -> Got([m EXCEPT !.incarnation = e.value], TRUE)
    [] e.field = 7 /\ e.type = "string"  -> Got([m EXCEPT !.physical_device_desc = e.value], Utf8(e.value))
    [] OTHER -> Got(m, TRUE)
DeviceAttributesMergePartial(m, wire) == Reading(DeviceAttributesField, m, wire)

DeviceAttributesSerialize(m) ==
  StringField(1, m.name) \o StringField(2, m.device_type) \o NumberField(4, "varint", m.memory_limit)
    \o NumberField(5, "varint", m.bus_adjacency) \o NumberField(6, "fixed64", m.incarnation)
    \o StringField(7, m.physical_device_desc)
DeviceAttributesByteSize(m) ==
  StringSize(m.name) + StringSize(m.device_type) + NumberSize(m.memory_limit) + NumberSize(m.bus_adjacency)
    + (IF m.incarnation # 0 THEN 1 + 8 ELSE 0) + StringSize(m.physical_device_desc)

DeviceAttributesMergeFrom(m, from) ==
  [f \in DOMAIN m |-> Assigned(m[f], from[f], NewDeviceAttributes[f])]
DeviceAttributesCopyFrom(m, from) == DeviceAttributesMergeFrom(DeviceAttributesClear(m), from)
DeviceAttributesSwap(m, other) ==
  LET With(x, y) == [x EXCEPT !.name = y.name, !.device_type = y.device_type, !.memory_limit = y.memory_limit,
                              !.bus_adjacency = y.bus_adjacency, !.incarnation = y.incarnation,
                              !.physical_device_desc = y.physical_device_desc] IN
  <<With(m, other), With(other, m)>>

-----------------------------------------------------------------------------
(* What every message promises, given its operations. ByteSize is the size *)
(* of what is written. A copy is the message, a swap exchanges two, and    *)
(* reading what two wrote, one after the other, merges them.               *)
Keeps(a, b, Serialize(_), ByteSize(_), Read(_, _), Merge(_, _), Copy(_, _), Swap(_, _), Valid(_)) ==
  LET wire == Serialize(a) \o Serialize(b)
      read == Read(a, wire) IN
  /\ ByteSize(a) = WireSize(Serialize(a))
  /\ Copy(a, b) = b
  /\ Swap(a, b) = <<b, a>>
  /\ IsWhole(read) <=> Valid(a) /\ Valid(b)
  /\ IsWhole(read) => read.message = Merge(Merge(a, a), b)

(* Entries of other fields and of other types than expected are skipped,   *)
(* entries of different fields may come in any order, and a wire that is   *)
(* cut off is refused after what comes before has been merged.             *)
Tolerates(wire, m, Read(_, _)) ==
  LET read == Read(m, wire)
      foreign == <<Entry(15, "string", <<NotUtf8>>), Entry(1, "varint", 1), Entry(200, "message", <<>>)>> IN
  /\ \A f \in DOMAIN foreign, i \in 0..Len(wire) :
       Read(m, SubSeq(wire, 1, i) \o <<foreign[f]>> \o SubSeq(wire, i + 1, Len(wire))) = read
  /\ IsWhole(read) => \A i \in 1..(Len(wire) - 1) :
       wire[i].field # wire[i + 1].field =>
         Read(m, [wire EXCEPT ![i] = wire[i + 1], ![i + 1] = wire[i]]) = read
  /\ IsWhole(read) => \A i \in 0..Len(wire), end \in {"cut", "end"} :
       LET left == Read(m, SubSeq(wire, 1, i) \o <<Entry(0, end, 0)>>) IN
       /\ ~IsWhole(left)
       /\ Read(left.message, SubSeq(wire, i + 1, Len(wire))) = read

(* The strings that are verified as UTF-8                                  *)
JobDefValid(m) == Utf8(m.name) /\ \A k \in DOMAIN m.tasks : Utf8(m.tasks[k])
ClusterDefValid(m) == \A i \in DOMAIN m.job : JobDefValid(m.job[i])
ServerDefValid(m) ==
  /\ m.cluster # Null => ClusterDefValid(m.cluster[1])
  /\ Utf8(m.job_name) /\ Utf8(m.default_session_config) /\ Utf8(m.protocol)
ConfigProtoValid(m) == \A k \in DOMAIN m.device_count : Utf8(k)
DeviceAttributesValid(m) == Utf8(m.name) /\ Utf8(m.device_type) /\ Utf8(m.physical_device_desc)

JobDefKeeps(a, b) ==
  /\ Keeps(a, b, JobDefSerialize, JobDefByteSize, JobDefMergePartial, JobDefMergeFrom, JobDefCopyFrom, JobDefSwap,
           JobDefValid)
  /\ Tolerates(JobDefSerialize(a), b, JobDefMergePartial)
ClusterDefKeeps(a, b) ==
  /\ Keeps(a, b, ClusterDefSerialize, ClusterDefByteSize, ClusterDefMergePartial, ClusterDefMergeFrom,
           ClusterDefCopyFrom, ClusterDefSwap, ClusterDefValid)
  /\ Tolerates(ClusterDefSerialize(a), b, ClusterDefMergePartial)
ServerDefKeeps(a, b) ==
  /\ Keeps(a, b, ServerDefSerialize, ServerDefByteSize, ServerDefMergePartial, ServerDefMergeFrom,
           ServerDefCopyFrom, ServerDefSwap, ServerDefValid)
  /\ Tolerates(ServerDefSerialize(a), b, ServerDefMergePartial)
ConfigProtoKeeps(a, b) ==
  /\ Keeps(a, b, ConfigProtoSerialize, ConfigProtoByteSize, ConfigProtoMergePartial, ConfigProtoMergeFrom,
           ConfigProtoCopyFrom, ConfigProtoSwap, ConfigProtoValid)
  /\ Tolerates(ConfigProtoSerialize(a), b, ConfigProtoMergePartial)
DeviceAttributesKeeps(a, b) ==
  /\ Keeps(a, b, DeviceAttributesSerialize, DeviceAttributesByteSize, DeviceAttributesMergePartial,
           DeviceAttributesMergeFrom, DeviceAttributesCopyFrom, DeviceAttributesSwap, DeviceAttributesValid)
  /\ Tolerates(DeviceAttributesSerialize(a), b, DeviceAttributesMergePartial)
=============================================================================
