---------------------------- MODULE HostMessages ----------------------------
(***************************************************************************)
(* What the ADB server's answers hold: the protobuf messages                *)
(* (src/adb/_internal/proto.py), the transport features, and the lookup of  *)
(* one row; and for each what the message says, stated without its loop.    *)
(* A message is a sequence of fields; one that is "cut" runs over the end   *)
(* of its message.  A transport id is read byte by byte, scaled down:       *)
(* GroupBits for the 7 bits of a byte, MaxGroups for 10 bytes, with one bit *)
(* in the last of them as in 64 bits; other scalars are named by what       *)
(* their conversion makes of them.                                          *)
(***************************************************************************)
EXTENDS Integers, Sequences, FiniteSets, SequencesExt, FiniteSetsExt, TLC

GroupBits == 2
MaxGroups == 3
Group == 2 ^ GroupBits                       \* 0x80
Width == GroupBits * (MaxGroups - 1) + 1     \* 64
Bytes == 0 .. 2 * Group - 1

Parsed(value) == [raised |-> "none", found |-> TRUE, value |-> value]
Absent == [raised |-> "none", found |-> FALSE, value |-> <<>>]
Refused(error) == [raised |-> error, found |-> FALSE, value |-> <<>>]
-----------------------------------------------------------------------------
(* Varints.                                                                  *)

\* Mutant: the last group is read like the others.
read_wide_group(acc, byte) ==
  IF acc.done THEN acc
  ELSE [acc EXCEPT !.result = @ + (byte % Group) * 2 ^ (GroupBits * acc.index), !.index = @ + 1, !.done = byte < Group]

\* One round of read_varint: the last group has room for one bit.
read_group(acc, byte) ==
  IF acc.done \/ acc.failed THEN acc
  ELSE IF acc.index = MaxGroups - 1 /\ byte > 1 THEN [acc EXCEPT !.failed = TRUE]
  ELSE [acc EXCEPT !.result = @ + (byte % Group) * 2 ^ (GroupBits * acc.index), !.index = @ + 1, !.done = byte < Group]

_decode_int64(raw) == IF raw >= 2 ^ (Width - 1) THEN raw - 2 ^ Width ELSE raw

\* selection.py: a transport id is positive.
AdbTransportId(id) == IF id <= 0 THEN Refused("value") ELSE Parsed(id)

\* transport_id of a row: zero, or an AdbTransportId, whose ValueError escapes.
read_transport_id(bytes) ==
  LET end == FoldLeft(read_group, [result |-> 0, index |-> 0, done |-> FALSE, failed |-> FALSE], bytes)
      id == _decode_int64(end.result) IN
  IF ~end.done THEN Refused("protocol") ELSE IF id = 0 THEN Parsed(0) ELSE AdbTransportId(id)

\* The two's complement number that these bytes encode in Width bits, lowest group
\* first, all but the last of them marked as followed by another.
Bit(bytes, k) ==
  LET group == (k - 1) \div GroupBits + 1 IN
  IF group \in DOMAIN bytes THEN (bytes[group] \div 2 ^ ((k - 1) % GroupBits)) % 2 ELSE 0
IdIn(bytes) ==
  LET whole == \A i \in DOMAIN bytes : bytes[i] < Group <=> i = Len(bytes)
      fits == Len(bytes) <= MaxGroups /\ \A k \in Width + 1 .. GroupBits * Len(bytes) : Bit(bytes, k) = 0
      number == MapThenSumSet(LAMBDA k : (IF k = Width THEN -1 ELSE 1) * Bit(bytes, k) * 2 ^ (k - 1), 1 .. Width) IN
  IF ~whole \/ bytes = <<>> \/ ~fits THEN Refused("protocol")
  ELSE IF Bit(bytes, Width) = 1 THEN Refused("value") ELSE Parsed(number)
-----------------------------------------------------------------------------
(* Messages: a field of a known number has the wire type of its kind, any    *)
(* other field is skipped, and the last value of a field counts.             *)

WireType == [string |-> 2, enum |-> 0, bool |-> 0, id |-> 0, device |-> 2]
DeviceFields == (1 :> "string") @@ (2 :> "enum") @@ (10 :> "id")   \* one of each kind
StatusFields == (1 :> "enum") @@ (2 :> "bool") @@ (5 :> "string")
SkippedTypes == {0, 1, 2, 5}

\* Reading a key and the value after it fails.
Malformed(field, fields) ==
  \/ field.number = 0 \/ field.cut
  \/ IF field.number \in DOMAIN fields THEN field.type # WireType[fields[field.number]]
     ELSE field.type \notin SkippedTypes

read_field(acc, field, fields, Value(_, _)) ==
  IF acc.raised # "none" THEN acc
  ELSE IF Malformed(field, fields) THEN [acc EXCEPT !.raised = "protocol"]
  ELSE IF field.number \notin DOMAIN fields THEN acc
  ELSE LET value == Value(fields[field.number], field.value) IN
    IF value.raised # "none" THEN [acc EXCEPT !.raised = value.raised]
    ELSE [acc EXCEPT !.values = (field.number :> value.value) @@ @, !.rows = Append(@, value.value)]

read_message(message, fields, Value(_, _)) ==
  FoldLeft(LAMBDA acc, field : read_field(acc, field, fields, Value),
           [raised |-> "none", values |-> <<>>, rows |-> <<>>], message)

\* Text must be UTF-8; an enum is open; a bool is any number but zero.
scalar(kind, value) ==
  CASE kind = "id" -> read_transport_id(value.bytes)
    [] kind = "string" -> IF value.text = "garbled" THEN Refused("protocol") ELSE Parsed(value.text)
    [] kind = "bool" -> Parsed(IF value.text = "zero" THEN "false" ELSE "true")
    [] OTHER -> Parsed(value.text)

\* The record of a message: the fields that came, the others at their default.
Record(values, fields) == [n \in DOMAIN fields |-> IF n \in DOMAIN values THEN <<values[n]>> ELSE <<>>]
AdbTrackedDevice(values) == Record(values, DeviceFields)
AdbServerStatus(values) == Record(values, StatusFields)

decode_fields(message, fields, Type(_)) ==
  LET end == read_message(message, fields, scalar) IN
  IF end.raised # "none" THEN Refused(end.raised) ELSE Parsed(Type(end.values))

_decode_device(message) == decode_fields(message, DeviceFields, AdbTrackedDevice)
parse_server_status(message) == decode_fields(message, StatusFields, AdbServerStatus)

parse_devices_snapshot(message) ==
  LET end == read_message(message, 1 :> "device", LAMBDA kind, value : _decode_device(value.message)) IN
  IF end.raised # "none" THEN Refused(end.raised) ELSE Parsed(end.rows)

\* find_tracked_device by a serial or by an id, over a snapshot.
find_tracked_device(snapshot, number, wanted) ==
  LET matches == SelectSeq(snapshot, LAMBDA row : row[number] = <<wanted>>) IN
  IF Len(matches) > 1 THEN Refused("value") ELSE IF matches = <<>> THEN Absent ELSE Parsed(matches[1])

\* AdbServiceClient.features and AdbTransportFeatures: the text is split at commas;
\* an empty part is dropped, one of blanks raises ValueError.
features(parts) ==
  IF "garbled" \in ToSet(parts) THEN Refused("protocol")
  ELSE IF "blank" \in ToSet(parts) THEN Refused("value")
  ELSE Parsed([f \in {"f", "g"} |-> f \in ToSet(parts) \ {"empty"}])
-----------------------------------------------------------------------------
(* What the answers say.                                                     *)

\* The first field that cannot be read decides the error; Said reads one value.
Answer(message, fields, Said(_, _), whole) ==
  LET error(i) == IF Malformed(message[i], fields) THEN "protocol"
                  ELSE IF message[i].number \notin DOMAIN fields THEN "none"
                  ELSE Said(fields[message[i].number], message[i].value).raised
      bad == {i \in DOMAIN message : error(i) # "none"} IN
  IF bad = {} THEN Parsed(whole) ELSE Refused(error(Min(bad)))

SaidScalar(kind, value) == IF kind = "id" THEN IdIn(value.bytes) ELSE scalar(kind, value)

\* A row has the last value of each of its fields and nothing else.
FieldsSaid(message, fields) ==
  LET at(n) == {i \in DOMAIN message : message[i].number = n /\ ~Malformed(message[i], fields)}
      last(n) == message[Max(at(n))].value IN
  Answer(message, fields, SaidScalar,
         [n \in DOMAIN fields |-> IF at(n) = {} THEN <<>> ELSE <<SaidScalar(fields[n], last(n)).value>>])

\* A snapshot has a row for each device of the message, in its order.
SnapshotSaid(message) ==
  LET rows == SelectSeq(message, LAMBDA f : f.number = 1)
      said(kind, value) == FieldsSaid(value.message, DeviceFields) IN
  Answer(message, 1 :> "device", said, [k \in DOMAIN rows |-> said("device", rows[k].value).value])

\* A lookup answers with the only row there is, and never picks one of several.
RowSaid(snapshot, number, wanted) ==
  LET rows == {k \in DOMAIN snapshot : snapshot[k][number] = <<wanted>>} IN
  CASE Cardinality(rows) = 0 -> Absent
    [] Cardinality(rows) = 1 -> Parsed(snapshot[Min(rows)])
    [] OTHER -> Refused("value")

\* The features that are listed, in any order.
FeaturesSaid(parts) ==
  LET all == {parts[i] : i \in DOMAIN parts} IN
  CASE "garbled" \in all -> Refused("protocol")
    [] "blank" \in all /\ "garbled" \notin all -> Refused("value")
    [] OTHER -> Parsed([f \in {"f", "g"} |-> f \in all])
-----------------------------------------------------------------------------
(* The fields, rows and bytes the server may send.                           *)

Field(number, type, value) == [number |-> number, type |-> type, value |-> value, cut |-> FALSE]
Text(number, type, text) == Field(number, type, [text |-> text])
Id(bytes) == Field(10, 0, [bytes |-> bytes])
Device(message) == Field(1, 2, [message |-> message])
Cut(field) == [field EXCEPT !.cut = TRUE]

\* A field number 0, fields to skip, one of a type that cannot be, and one cut off.
Oddities == {Text(0, 0, "zero"), Text(7, 1, "skipped"), Text(7, 3, "group"), Cut(Text(7, 2, "skipped"))}

DeviceItems ==
  {Text(1, 2, s) : s \in {"a", "b", "garbled"}} \cup {Id(b) : b \in {<<0>>, <<1>>, <<Group, Group, 1>>}}
    \cup {Text(2, 0, "unknown"), Text(2, 2, "text")} \cup Oddities

StatusItems ==
  {Text(1, 0, e) : e \in {"known", "unknown"}} \cup {Text(2, 0, b) : b \in {"zero", "one"}}
    \cup {Text(5, 2, s) : s \in {"a", "garbled"}} \cup {Text(5, 0, "a")} \cup Oddities

SnapshotItems ==
  LET row(serial, bytes) == Device(<<Text(1, 2, serial), Id(bytes)>>) IN
  {row("a", <<1>>), row("a", <<0>>), row("b", <<1>>), row("b", <<Group>>), Device(<<>>), Cut(Device(<<>>)), Text(1, 0, "a")}
    \cup {Text(7, 1, "skipped"), Text(7, 3, "group")}

FeatureItems == {"f", "g", "empty", "blank", "garbled"}

\* A varint goes on after a byte that says so.
ByteItems(bytes) == IF bytes = <<>> \/ Last(bytes) >= Group THEN Bytes ELSE {}
=============================================================================
