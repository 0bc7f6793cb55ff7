---------------------------- MODULE ServiceClient ----------------------------
(***************************************************************************)
(* One call of the kernel's adapters: a smart-socket request of             *)
(* AdbServiceClient (src/adb/_internal/client.py) or a run of the adb       *)
(* program (subprocess.py), and what the caller is told: a decoded value,   *)
(* an exception, or a NativeAttemptResult.  Calls share no state, so one is *)
(* modelled: Init takes any.  _recv_exact is one step that gets it all,     *)
(* times out, or fails.  A payload or a stdout packet carries one item of   *)
(* what its format is made of, see Items.                                   *)
(***************************************************************************)
EXTENDS HostMessages, AndroidDumps

CONSTANTS
  MaxItems,      \* items of an answer, for each format
  MaxPackets     \* shell-v2 packets of an attempt

VARIABLES
  call,       \* what was called: its use, format, and what it looks for
  pc,         \* where the call is
  services,   \* services still to request on the socket
  sock,       \* "none", "open", "closed"
  received,   \* history: what the server sent since the last OKAY, or how that broke off
  stdout,     \* bytes gathered so far, as items
  exit_code,  \* <<>> or the code of the exit packet
  outcome,    \* how the exchange ended: "none" yet, "ok" or the exception
  result      \* what the caller gets

clientVars == <<call, pc, services, sock, received, stdout, exit_code, outcome, result>>
-----------------------------------------------------------------------------
(* Calls.                                                                    *)

HostFormats == {"snapshot", "row", "id", "find", "find_id", "status", "features"}
TextFormats == {"boot", "build", "current_user", "users", "user_state", "package", "launcher", "resumed",
                "power", "keyguard", "displays", "display", "physical", "windows", "window", "occlusions"}

ASSUME ClientBounds == MaxPackets \in Nat /\ MaxItems \in [HostFormats \cup TextFormats \cup {"raw"} -> Nat]

\* Commands sent to a device, and what may be wrong with one: keys that are to be
\* repeated, a key name or a text with other characters, a service of over 0xFFFF bytes.
Commands == {"touch", "back", "press", "chord", "type_text", "launch", "force_stop"}
Flaws(command) ==
  {"none"} \cup
  (CASE command = "press" -> {"repeated", "bad_key"}
     [] command = "chord" -> {"bad_key", "too_long"}
     [] command = "type_text" -> {"unportable", "too_long"}
     [] command \in {"launch", "force_stop"} -> {"too_long"}
     [] OTHER -> {})

\* Runs of the adb program; a server command may name another endpoint.
ServerCommands == {"start-server", "kill-server"}
TransportCommands == {"connect", "disconnect", "reconnect", "reconnect device", "reconnect offline"}

Calls ==
  [use : {"host"}, format : HostFormats] \cup [use : {"query"}, format : TextFormats]
    \cup [use : {"exec"}, format : {"raw"}]
    \cup [use : {"cli"}, format : ServerCommands, flaw : {"none", "elsewhere"}]
    \cup [use : {"cli"}, format : TransportCommands \cup {"pair"}, flaw : {"none"}]
    \cup UNION {[use : {"attempt"}, format : {c}, flaw : Flaws(c)] : c \in Commands}

Items(format, items) ==
  CASE format \in {"snapshot", "find", "find_id"} -> SnapshotItems
    [] format = "row" -> DeviceItems [] format = "id" -> ByteItems(items)
    [] format = "status" -> StatusItems [] format = "features" -> FeatureItems
    [] format = "users" -> UserLines [] format = "user_state" -> UserStateLines
    [] format = "package" -> PackageLines [] format = "launcher" -> LauncherLines
    [] format = "resumed" -> ActivityLines [] format = "power" -> PowerLines
    [] format \in {"displays", "display"} -> DisplayLines
    [] format \in {"windows", "window"} -> WindowLines [] format = "occlusions" -> OcclusionLines
    [] format \in {"boot", "build", "current_user", "keyguard", "physical"} -> FactLines
    [] OTHER -> {"chunk"}

\* A row is looked up by serial or by id.
Selector(format) == IF format = "find" THEN [field |-> 1, is |-> "a"] ELSE [field |-> 10, is |-> 1]

\* The readers of the server: devices/adapters.py, status/reader.py, transport/adapters.py.
DecodeHost(format, items) ==
  CASE format = "snapshot" -> parse_devices_snapshot(items)
    [] format = "row" -> parse_devices_snapshot(<<Device(items)>>)
    [] format = "id" -> parse_devices_snapshot(<<Device(<<Id(items)>>)>>)
    [] format \in {"find", "find_id"} -> LET all == parse_devices_snapshot(items)
                                             for == Selector(format) IN
         IF all.raised # "none" THEN all ELSE find_tracked_device(all.value, for.field, for.is)
    [] format = "status" -> parse_server_status(items)
    [] format = "features" -> features(items)

\* The first display or window with an id, over all that were decoded.
FirstWith(id, all) ==
  LET rows == SelectSeq(all.value, LAMBDA row : row[1] = id) IN
  IF all.raised # "none" THEN all ELSE IF rows = <<>> THEN NotThere ELSE Decoded(rows[1])

\* The inspectors; 1 is the user, package, display or window asked for.
DecodeText(format, text) ==
  CASE format = "users" -> parse_users(text) [] format = "user_state" -> parse_android_user_state(text, 1)
    [] format = "package" -> parse_package_state(text, 1) [] format = "launcher" -> parse_launcher_component(text, 1)
    [] format = "resumed" -> parse_resumed_activities(text) [] format = "power" -> parse_power_state(text)
    [] format = "displays" -> parse_dumpsys_display(text) [] format = "display" -> FirstWith(1, parse_dumpsys_display(text))
    [] format = "windows" -> parse_windows(text) [] format = "window" -> FirstWith(1, parse_windows(text))
    [] format = "occlusions" -> parse_display_occlusions(text, 1) [] format = "boot" -> parse_boot_completed(text)
    [] format = "build" -> parse_build_info(text) [] format = "current_user" -> parse_current_user(text)
    [] format = "keyguard" -> parse_keyguard_state(text) [] format = "physical" -> parse_surfaceflinger_display_ids(text)

\* What a whole answer says, from the statements beside the decoders.
Says(format, items) ==
  LET only(all) ==
        LET rows == {k \in DOMAIN all.value : all.value[k][1] = 1} IN
        IF all.raised # "none" THEN all ELSE IF rows = {} THEN NotThere ELSE Decoded(all.value[Min(rows)])
      found == SnapshotSaid(items) IN
  CASE format = "snapshot" -> found
    [] format = "row" -> SnapshotSaid(<<Device(items)>>)
    [] format = "id" -> SnapshotSaid(<<Device(<<Id(items)>>)>>)
    [] format \in {"find", "find_id"} -> IF found.raised # "none" THEN found
                                          ELSE RowSaid(found.value, Selector(format).field, Selector(format).is)
    [] format = "status" -> FieldsSaid(items, StatusFields) [] format = "features" -> FeaturesSaid(items)
    [] format = "users" -> UsersIn(items) [] format = "user_state" -> UserStateIn(items, 1)
    [] format = "package" -> PackageIn(items, 1) [] format = "launcher" -> LauncherIn(items, 1)
    [] format = "resumed" -> ActivitiesIn(items) [] format = "power" -> PowerIn(items)
    [] format = "displays" -> DisplaysIn(items) [] format = "display" -> only(DisplaysIn(items))
    [] format = "windows" -> WindowsIn(items) [] format = "window" -> only(WindowsIn(items))
    [] format = "occlusions" -> OcclusionsIn(items, 1) [] format = "boot" -> BootIn(items)
    [] format = "build" -> BuildIn(items) [] format = "current_user" -> CurrentUserIn(items)
    [] format = "keyguard" -> KeyguardIn(items) [] format = "physical" -> PhysicalIn(items)
    [] OTHER -> Decoded(items)

\* What the caller gets: a value, None, an exception, or an attempt.
Value(decoded) == [kind |-> IF decoded.raised # "none" THEN "raised" ELSE "value", decoded |-> decoded]
Raised(error) == [kind |-> "raised", decoded |-> Refused(error)]
Attempt(status, scope) == [kind |-> "attempt", status |-> status, scope |-> scope]
NoResult == [kind |-> "none"]

Services(use) == IF use = "host" THEN <<"host">> ELSE <<"transport", use>>

ClientInit ==
  /\ call \in Calls
  /\ pc = "call" /\ services = <<>> /\ sock = "none" /\ received = <<>> /\ stdout = <<>>
  /\ exit_code = <<>> /\ outcome = "none" /\ result = NoResult
-----------------------------------------------------------------------------
(* The exchange.                                                             *)

To(from, to) == pc = from /\ pc' = to

\* An exception inside the try: the finally clause closes the socket.
Fails(from, error) == To(from, "close") /\ outcome' = error

\* What the adapters refuse before anything is sent: a failed attempt without a scope,
\* or a ValueError.
Refuse ==
  /\ call.use \in {"attempt", "cli"} /\ To("call", "ended")
  /\ \/ call.flaw \in {"repeated", "unportable"} /\ result' = Attempt("FAILED", "none")
     \/ call.flaw \in {"bad_key", "elsewhere"} /\ result' = Raised("value")
  /\ UNCHANGED <<call, services, sock, received, stdout, exit_code, outcome>>

\* _connect: create_connection gives a socket, times out or fails.
OpenSocket ==
  /\ call.use # "cli" /\ (call.use = "attempt" => call.flaw \in {"none", "too_long"})
  /\ services' = Services(call.use)
  /\ \/ To("call", "send") /\ sock' = "open" /\ UNCHANGED outcome
     \/ To("call", "answer") /\ outcome' \in {"timeout", "connection"} /\ UNCHANGED sock
  /\ UNCHANGED <<call, received, stdout, exit_code, result>>

\* encode_service: at most 0xFFFF bytes, or a ValueError.
Encodable == ~(call.use = "attempt" /\ call.flaw = "too_long" /\ Len(services) = 1)

\* _request: sendall takes the service, times out or fails.
SendService ==
  /\ \/ Encodable /\ To("send", "status") /\ UNCHANGED outcome
     \/ Encodable /\ \E e \in {"timeout", "connection"} : Fails("send", e)
     \/ ~Encodable /\ Fails("send", "value")
  /\ UNCHANGED <<call, services, sock, received, stdout, exit_code, result>>

\* What is read after the last service was accepted.
Body(use) == CASE use = "host" -> "payload" [] use = "exec" -> "until_eof" [] OTHER -> "packet"

\* The status: OKAY, FAIL or another; after the last OKAY the answer is read.
ReadStatus ==
  /\ \/ /\ To("status", IF Len(services) = 1 THEN Body(call.use) ELSE "send")
        /\ services' = Tail(services) /\ UNCHANGED outcome
     \/ To("status", "detail") /\ UNCHANGED <<services, outcome>>
     \/ Fails("status", "protocol") /\ UNCHANGED services
  /\ UNCHANGED <<call, sock, received, stdout, exit_code, result>>

\* _raise_transport_error: what the detail says, the first that applies.
TransportError(said) ==
  CASE "more than one" \in said -> "ambiguous" [] "not found" \in said -> "not_found" [] OTHER -> "unavailable"

\* A rejection: a bad length or text is a protocol error, a detail the service's own,
\* or the transport's when the transport was being selected.
Rejection ==
  /\ \/ Fails("detail", "protocol")
     \/ Fails("detail", "service") /\ Head(services) # "transport"
     \/ \E said \in SUBSET {"more than one", "not found", "offline"} :
          Fails("detail", TransportError(said)) /\ Head(services) = "transport"
  /\ UNCHANGED <<call, services, sock, received, stdout, exit_code, result>>

\* A read that times out, fails, or meets the end of the stream where bytes are due.
ReadFails ==
  /\ pc \in {"status", "detail", "payload", "until_eof", "packet", "inside"}
  /\ pc' = "close" /\ outcome' \in {"timeout", "connection"}
  /\ received' = <<[id |-> outcome']>> /\ stdout' = <<>> /\ exit_code' = <<>>   \* locals, gone
  /\ UNCHANGED <<call, services, sock, result>>

\* One more item of a length-prefixed payload or of a raw stream.
ReceiveItem ==
  /\ pc \in {"payload", "until_eof"} /\ Len(received) < MaxItems[call.format]
  /\ \E item \in Items(call.format, stdout) :
       stdout' = Append(stdout, item) /\ received' = Append(received, [id |-> "data", item |-> item])
  /\ UNCHANGED <<call, pc, services, sock, exit_code, outcome, result>>

\* The payload is complete, or the raw stream ends; or the length prefix was no number.
Complete ==
  /\ \/ pc \in {"payload", "until_eof"} /\ pc' = "close" /\ outcome' = "ok"
        /\ received' = Append(received, [id |-> "eof"])
     \/ received = <<>> /\ Fails("payload", "protocol") /\ UNCHANGED received
  /\ UNCHANGED <<call, services, sock, stdout, exit_code, result>>

\* The packets that may come next.  An attempt's server, and that of the one query which
\* stands for all, sends anything; that of the other queries stdout and then one exit
\* packet, and one with a failure little output.
ExitPacket(code) == [id |-> "exit", size |-> 1, code |-> code]
Exits(codes) == {ExitPacket(c) : c \in codes}
Packets ==
  LET data == IF call.use # "query" THEN {"chunk"}
              ELSE IF Len(stdout) < MaxItems[call.format] THEN Items(call.format, stdout) ELSE {}
      output == {[id |-> "data", item |-> i] : i \in data} IN
  IF call.use # "query" \/ call.format = "boot"
  THEN IF Len(received) = MaxPackets THEN {}
       ELSE output \cup Exits(0 .. 1) \cup {[id |-> "stderr"], [id |-> "other"], [id |-> "exit", size |-> 2, code |-> 0]}
  ELSE IF exit_code # <<>> THEN {} ELSE output \cup Exits(IF Len(stdout) < 2 THEN 0 .. 1 ELSE {0})

\* The first byte of another packet.
Packet ==
  /\ Packets # {} /\ To("packet", "inside")
  /\ UNCHANGED <<call, services, sock, received, stdout, exit_code, outcome, result>>

\* Mutant: a second exit packet replaces the first.
TakeLastExit(p) ==
  /\ received' = Append(received, p)
  /\ IF p.id = "exit" /\ p.size # 1 THEN Fails("inside", "protocol") /\ UNCHANGED <<stdout, exit_code>>
     ELSE /\ To("inside", "packet") /\ UNCHANGED outcome
          /\ stdout' = IF p.id = "data" THEN Append(stdout, p.item) ELSE stdout
          /\ exit_code' = IF p.id = "exit" THEN <<p.code>> ELSE exit_code

\* The rest of a packet is read and handled: only one exit packet, of one byte, is accepted.
TakePacket(p) ==
  /\ received' = Append(received, p)
  /\ IF p.id = "exit" /\ (p.size # 1 \/ exit_code # <<>>)
     THEN Fails("inside", "protocol") /\ UNCHANGED <<stdout, exit_code>>
     ELSE /\ To("inside", "packet") /\ UNCHANGED outcome
          /\ stdout' = IF p.id = "data" THEN Append(stdout, p.item) ELSE stdout
          /\ exit_code' = IF p.id = "exit" THEN <<p.code>> ELSE exit_code

ShellPacket ==
  /\ \E p \in Packets : TakePacket(p)
  /\ UNCHANGED <<call, services, sock, result>>

\* The end of the stream between two packets: the result, if an exit code came.
ShellEof ==
  /\ Fails("packet", IF exit_code = <<>> THEN "protocol" ELSE "ok")
  /\ received' = Append(received, [id |-> "eof"])
  /\ UNCHANGED <<call, services, sock, stdout, exit_code, result>>

Close ==
  /\ To("close", "answer") /\ sock' = "closed"
  /\ UNCHANGED <<call, services, received, stdout, exit_code, outcome, result>>
-----------------------------------------------------------------------------
(* What the caller is told.                                                  *)

\* host_query, features and the readers on top, raw_exec.
AnswerHost ==
  /\ call.use \in {"host", "exec"} /\ To("answer", "ended")
  /\ result' = IF outcome # "ok" THEN Raised(outcome)
               ELSE Value(IF call.use = "exec" THEN Decoded(stdout) ELSE DecodeHost(call.format, stdout))
  /\ UNCHANGED <<call, services, sock, received, stdout, exit_code, outcome>>

\* _run_text_query and the inspectors: an exit code other than 0 is an
\* AdbRemoteCommandError, and so is not looked at; output that is not UTF-8 is a
\* protocol error, named apart here.
AnswerQuery ==
  /\ call.use = "query" /\ To("answer", "ended")
  /\ \/ outcome # "ok" /\ result' = Raised(outcome)
     \/ outcome = "ok" /\ exit_code # <<0>> /\ result' = Raised("remote")
     \/ outcome = "ok" /\ exit_code = <<0>> /\ result' = Value(DecodeText(call.format, stdout))
     \/ outcome = "ok" /\ exit_code = <<0>> /\ stdout # <<>> /\ result' = Raised("not UTF-8")
  /\ UNCHANGED <<call, services, sock, received, stdout, exit_code, outcome>>

\* NativeAttemptResult raises ValueError when the wall clock was set back meanwhile.
Timed(attempt) == result' \in {attempt, Raised("value")}

\* shell_v2_attempt and native_result.
AnswerAttempt ==
  /\ call.use = "attempt" /\ To("answer", "ended")
  /\ CASE outcome = "timeout" -> Timed(Attempt("TIMED_OUT", "none"))
       [] outcome = "value" -> result' = Raised("value")
       [] outcome = "ok" -> Timed(Attempt(IF exit_code = <<0>> THEN "SUCCEEDED" ELSE "FAILED", "PROCESS_EXIT"))
       [] OTHER -> Timed(Attempt("FAILED", "none"))
  /\ UNCHANGED <<call, services, sock, received, stdout, exit_code, outcome>>

\* run_adb: the program exits, is killed at the timeout, or cannot be started; output
\* that is not text raises a ValueError as well.
RunAdb ==
  /\ call.use = "cli" /\ To("call", "ended") /\ call.flaw = "none"
  /\ \/ \E code \in 0 .. 1 :
          /\ received' = <<ExitPacket(code), [id |-> "eof"]>> /\ exit_code' = <<code>>
          /\ Timed(Attempt(IF code = 0 THEN "SUCCEEDED" ELSE "FAILED", "PROCESS_EXIT"))
     \/ received' = <<[id |-> "timeout"]>> /\ Timed(Attempt("TIMED_OUT", "none")) /\ UNCHANGED exit_code
     \/ received' = <<[id |-> "connection"]>> /\ Timed(Attempt("FAILED", "none")) /\ UNCHANGED exit_code
  /\ UNCHANGED <<call, services, sock, stdout, outcome>>

ClientNext ==
  \/ Refuse \/ OpenSocket \/ SendService \/ ReadStatus \/ Rejection \/ ReadFails \/ ReceiveItem \/ Complete
  \/ Packet \/ ShellPacket \/ ShellEof \/ Close \/ AnswerHost \/ AnswerQuery \/ AnswerAttempt \/ RunAdb
-----------------------------------------------------------------------------
(* Properties.                                                               *)

ClientTypeOK ==
  /\ call \in Calls /\ sock \in {"none", "open", "closed"}
  /\ Len(services) <= 2 /\ Len(stdout) <= Len(received) /\ Len(exit_code) <= 1
  /\ pc \in {"call", "send", "status", "detail", "payload", "until_eof", "packet", "inside", "close", "answer", "ended"}

\* The exit status the server reported: one exit packet, of one byte, in a stream that
\* ended between two packets.
OnlyExit(code) ==
  \E k \in DOMAIN received :
    received[k] = ExitPacket(code) /\ \A j \in DOMAIN received : received[j].id = "exit" => j = k
Ended == received # <<>> /\ Last(received).id = "eof"
Reported(code) == OnlyExit(code) /\ Ended

\* An attempt claims success only for a command whose exit status 0 arrived whole, a
\* scope only if a status did, and a timeout only if something timed out; what was
\* refused beforehand was never sent, and no socket stays open.
AttemptIsTruthful ==
  (pc = "ended") =>
    /\ sock # "open"
    /\ result.kind = "attempt" =>
         /\ result.status = "SUCCEEDED" <=> Reported(0)
         /\ result.scope = "PROCESS_EXIT" <=> \E code \in 0 .. 1 : Reported(code)
         /\ result.status = "TIMED_OUT" => outcome = "timeout" \/ (call.use = "cli" /\ received = <<[id |-> "timeout"]>>)
         /\ call.flaw \in {"repeated", "unportable"} => sock = "none" /\ received = <<>>

\* The items of a whole answer: of a payload or raw stream that was complete, of the
\* stdout of a command that succeeded.
Whole == Ended /\ (call.use = "query" => Reported(0))
Arrived == {i \in DOMAIN received : received[i].id = "data"}
NthArrived(k) == CHOOSE i \in Arrived : Cardinality({j \in Arrived : j <= i}) = k
Sent == [k \in 1 .. Cardinality(Arrived) |-> received[NthArrived(k)].item]

\* A value is what a whole answer says, no more and no less: nothing that was cut off,
\* refused or sent by a failing command is decoded, and no row is lost, kept from an
\* older section, or attributed to another one.
SnapshotIsWhole ==
  (pc = "ended" /\ call.use \in {"host", "query", "exec"}) =>
    \/ Whole /\ result = Value(Says(call.format, Sent))
    \/ result.kind = "raised" /\ (~Whole \/ result = Raised("not UTF-8"))
=============================================================================
