------------------------- MODULE TrackDevicesSource -------------------------
(***************************************************************************)
(* AdbTrackDevicesSource (src/adb/transport/observation/source.py): openers *)
(* run open(), read snapshots and close their session, while another thread *)
(* may close() the source at any moment, which takes the registered socket  *)
(* down.  One step is one block under the source's lock or one system call; *)
(* is_closed() is merged with the failing call before it, as `closed` never *)
(* becomes FALSE again.                                                     *)
(*                                                                          *)
(* Sockets: connect() on a socket that was shut down before fails or yields *)
(* a connection that reads end-of-file; a read that waits on a socket wakes *)
(* up when it is shut down.  The server may be silent, slow, or gone.       *)
(***************************************************************************)
EXTENDS Naturals

CONSTANTS
  Openers,       \* threads that call open()
  NoOpener,
  Addresses,     \* at most so many address candidates of the endpoint
  HeaderBytes,   \* bytes of a status or a length prefix: 4 in the protocol
  MaxLength,     \* longest payload
  MaxFrames      \* snapshots the server sends at most

ASSUME SourceThreads == NoOpener \notin Openers
ASSUME SourceBounds ==
  /\ Addresses \in Nat \ {0} /\ HeaderBytes \in Nat \ {0}
  /\ MaxLength \in Nat /\ MaxFrames \in Nat

VARIABLES
  closed,          \* _closed
  session_active,  \* _session_active
  active_socket,   \* _active_socket: <<opener, address>> of the registered one, or NoSocket
  at,              \* at[r]: the next step of opener r
  address,         \* address[r]: candidate it is at
  socks,           \* socks[r][i]: state of its socket for candidate i
  need,            \* need[r]: bytes that _recv_exact still has to read
  late,            \* late[r]: the startup deadline has passed
  ending,          \* ending[r]: how open() or the iteration ends, "none" so far
  cut,             \* cut[r]: a call on its socket failed because close() took it down
  frames,          \* frames[r]: snapshots it has yielded
  closing,         \* progress of close(): "no", "shutdown", "close", "done"
  victim           \* the socket that close() takes down

shared == <<closed, session_active, active_socket>>
closer == <<closing, victim>>
sourceVars == <<shared, at, address, socks, need, late, ending, cut, frames, closer>>

Candidates == 1 .. Addresses
NoSocket == <<NoOpener, 0>>
Own(r) == <<r, address[r]>>
State(r) == IF address[r] = 0 THEN "none" ELSE socks[r][address[r]]
Down == {"shut", "closed"}

\* The steps of _connect, of the handshake after it, and the reads.
Connecting == {"resolve", "address", "register", "connect", "drop"}
Handshaking == {"send", "status", "fail_length", "fail_detail", "stream_mode"}
Opening == Connecting \cup Handshaking
Reading == {"status", "fail_length", "fail_detail", "length", "payload"}
Releasing == {"give_up", "release", "unlock"}

SourceTypeOK ==
  /\ closed \in BOOLEAN /\ session_active \in BOOLEAN
  /\ active_socket \in (Openers \X Candidates) \cup {NoSocket}
  /\ at \in [Openers -> Opening \cup Reading \cup Releasing \cup {"idle", "ended"}]
  /\ address \in [Openers -> 0 .. Addresses]
  /\ socks \in [Openers -> [Candidates -> {"none", "open", "connected", "shut", "closed"}]]
  /\ need \in [Openers -> Nat] /\ frames \in [Openers -> Nat]
  /\ late \in [Openers -> BOOLEAN] /\ cut \in [Openers -> BOOLEAN]
  /\ ending \in [Openers -> {"none", "refused", "stopped", "failed", "left", "deadline", "retry"}]
  /\ closing \in {"no", "shutdown", "close", "done"}
  /\ victim \in (Openers \X Candidates) \cup {NoSocket}

SourceInit ==
  /\ closed = FALSE /\ session_active = FALSE /\ active_socket = NoSocket
  /\ at = [r \in Openers |-> "idle"]
  /\ address = [r \in Openers |-> 0]
  /\ socks = [r \in Openers |-> [i \in Candidates |-> "none"]]
  /\ need = [r \in Openers |-> 0] /\ frames = [r \in Openers |-> 0]
  /\ late = [r \in Openers |-> FALSE] /\ cut = [r \in Openers |-> FALSE]
  /\ ending = [r \in Openers |-> "none"]
  /\ closing = "no" /\ victim = NoSocket

-----------------------------------------------------------------------------
(* Steps of an opener.                                                       *)

Go(r, from, to) == at[r] = from /\ at' = [at EXCEPT ![r] = to]
Sock(r, state) == socks' = [socks EXCEPT ![r][address[r]] = state]
Await(r, n) == need' = [need EXCEPT ![r] = n]
End(r, how) == ending' = [ending EXCEPT ![r] = how]

\* Mutant: a call that close() interrupted is reported as a lost connection.
OrStoppedNever(how) == how

\* What a failed call leads to: _SourceClosed if the source is found closed.
OrStopped(how) == IF closed THEN "stopped" ELSE how

\* open(), _acquire_session.
Acquire(r) ==
  /\ IF closed THEN Go(r, "idle", "ended") /\ End(r, "stopped") /\ UNCHANGED session_active
     ELSE IF session_active THEN Go(r, "idle", "ended") /\ End(r, "refused") /\ UNCHANGED session_active
     ELSE Go(r, "idle", "resolve") /\ session_active' = TRUE /\ UNCHANGED ending
  /\ UNCHANGED <<closed, active_socket, address, socks, need, late, cut, frames, closer>>

\* The startup deadline, set after the addresses are known, passes.
Late(r) ==
  /\ at[r] \in Opening \ {"resolve"} /\ ~late[r]
  /\ late' = [late EXCEPT ![r] = TRUE]
  /\ UNCHANGED <<shared, at, address, socks, need, ending, cut, frames, closer>>

\* getaddrinfo, and is_closed() whether or not it fails.
Resolve(r) ==
  /\ \/ ~closed /\ Go(r, "resolve", "address") /\ UNCHANGED ending
     \/ Go(r, "resolve", "give_up") /\ End(r, OrStopped("failed"))
  /\ UNCHANGED <<shared, address, socks, need, late, cut, frames, closer>>

\* The loop over the candidates: none left, no socket for this one, or one.
NextAddress(r) ==
  /\ \/ /\ Go(r, "address", "give_up") /\ End(r, "failed")   \* no is_closed() here
        /\ UNCHANGED <<address, socks>>
     \/ /\ address[r] < Addresses
        /\ address' = [address EXCEPT ![r] = @ + 1]
        /\ \/ Go(r, "address", "register") /\ UNCHANGED ending
              /\ socks' = [socks EXCEPT ![r][address[r] + 1] = "open"]
           \/ ~closed /\ Go(r, "address", "address") /\ UNCHANGED <<ending, socks>>
           \/ closed /\ Go(r, "address", "give_up") /\ End(r, "stopped") /\ UNCHANGED socks
  /\ UNCHANGED <<shared, need, late, cut, frames, closer>>

\* Mutant: a close() between _acquire_session and here goes unnoticed.
RegisterBlindly(r) ==
  /\ Go(r, "register", "connect") /\ active_socket' = Own(r) /\ UNCHANGED <<socks, ending>>
  /\ UNCHANGED <<closed, session_active, address, need, late, cut, frames, closer>>

\* _register_socket; a closed source makes open() close the candidate itself.
Register(r) ==
  /\ \/ /\ ~closed /\ Go(r, "register", "connect") /\ active_socket' = Own(r)
        /\ UNCHANGED <<socks, ending>>
     \/ /\ closed /\ Go(r, "register", "give_up") /\ Sock(r, "closed") /\ End(r, "stopped")
        /\ UNCHANGED active_socket
  /\ UNCHANGED <<closed, session_active, address, need, late, cut, frames, closer>>

\* connect() succeeds before the deadline.
Connect(r) ==
  /\ State(r) \in {"open", "shut"} /\ Go(r, "connect", "send")
  /\ Sock(r, IF State(r) = "open" THEN "connected" ELSE "shut")
  /\ UNCHANGED <<shared, address, need, late, ending, cut, frames, closer>>

\* _set_deadline_timeout or connect() fails.  The deadline ends the loop, another
\* error goes on with the next candidate, and a closed source ends open().
ConnectFails(r) ==
  /\ Go(r, "connect", "drop")
  /\ \/ End(r, OrStopped("retry"))
     \/ late[r] /\ End(r, OrStopped("deadline"))
  /\ cut' = [cut EXCEPT ![r] = State(r) \in Down]
  /\ UNCHANGED <<shared, address, socks, need, late, frames, closer>>

\* settimeout() on a socket that close() has closed: _SourceClosed, and the
\* candidate stays registered.
ConnectArmFails(r) ==
  /\ State(r) = "closed" /\ Go(r, "connect", "give_up") /\ End(r, "stopped")
  /\ cut' = [cut EXCEPT ![r] = TRUE]
  /\ UNCHANGED <<shared, address, socks, need, late, frames, closer>>

Unregister(r) == active_socket' = IF active_socket = Own(r) THEN NoSocket ELSE active_socket

AfterDrop(r) ==
  /\ \/ ending[r] = "retry" /\ Go(r, "drop", "address") /\ End(r, "none")
     \/ ending[r] = "deadline" /\ Go(r, "drop", "give_up") /\ End(r, "failed")
     \/ ending[r] = "stopped" /\ Go(r, "drop", "give_up") /\ UNCHANGED ending
  /\ UNCHANGED <<closed, session_active, address, need, late, cut, frames, closer>>

\* Mutant: the failed candidate is forgotten without being closed.
DropOpen(r) == AfterDrop(r) /\ Unregister(r) /\ UNCHANGED socks

\* _unregister_socket and close() of the failed candidate.
Drop(r) == AfterDrop(r) /\ Unregister(r) /\ Sock(r, "closed")

\* _send_all: the service request.
Send(r) ==
  /\ State(r) = "connected" /\ ~late[r] /\ Go(r, "send", "status") /\ Await(r, HeaderBytes)
  /\ UNCHANGED <<shared, address, socks, late, ending, cut, frames, closer>>

\* Mutant: recv() asks for a header's bytes even if fewer are missing.
ReceiveChunk(r) ==
  /\ at[r] \in Reading /\ need[r] > 0 /\ State(r) \in {"connected", "shut"}
  /\ at[r] \in Opening => ~late[r]
  /\ at[r] = "length" => frames[r] < MaxFrames
  /\ \E got \in 1 .. HeaderBytes : Await(r, need[r] - got)
  /\ UNCHANGED <<shared, at, address, socks, late, ending, cut, frames, closer>>

\* One recv() of _recv_exact returns part or all of what is missing.
Receive(r) ==
  /\ at[r] \in Reading /\ need[r] > 0 /\ State(r) \in {"connected", "shut"}
  /\ at[r] \in Opening => ~late[r]
  /\ at[r] = "length" => frames[r] < MaxFrames   \* the bound
  /\ \E rest \in 0 .. need[r] - 1 : Await(r, rest)
  /\ UNCHANGED <<shared, at, address, socks, late, ending, cut, frames, closer>>

\* A call on the socket that cannot go on: during startup the deadline has passed
\* (seen before the call, where nobody asks is_closed(), or by the waiting call), or
\* close() took the socket down, which settimeout(), send and recv report.
IoCut(r) ==
  /\ at[r] \in Handshaking \cup Reading
  /\ at[r] \in Reading => need[r] > 0
  /\ \/ /\ at[r] \in Opening \ {"stream_mode"} /\ late[r]
        /\ ending' \in {[ending EXCEPT ![r] = "failed"], [ending EXCEPT ![r] = OrStopped("failed")]}
        /\ UNCHANGED cut
     \/ /\ State(r) \in Down /\ (at[r] = "stream_mode" => State(r) = "closed")
        /\ End(r, OrStopped("failed")) /\ cut' = [cut EXCEPT ![r] = TRUE]
  /\ at' = [at EXCEPT ![r] = "release"]
  /\ UNCHANGED <<shared, address, socks, need, late, frames, closer>>

\* The server closes or resets the connection.
PeerFails(r) ==
  /\ at[r] \in {"send"} \cup Reading /\ State(r) = "connected"
  /\ at[r] \in Reading => need[r] > 0
  /\ at' = [at EXCEPT ![r] = "release"] /\ End(r, OrStopped("failed"))
  /\ UNCHANGED <<shared, address, socks, need, late, cut, frames, closer>>

\* The four bytes of the status: OKAY, FAIL or neither.
Status(r) ==
  /\ need[r] = 0
  /\ \/ Go(r, "status", "stream_mode") /\ UNCHANGED <<need, ending>>
     \/ Go(r, "status", "fail_length") /\ Await(r, HeaderBytes) /\ UNCHANGED ending
     \/ Go(r, "status", "release") /\ End(r, "failed") /\ UNCHANGED need
  /\ UNCHANGED <<shared, address, socks, late, cut, frames, closer>>

\* parse_hex_length of a rejection or of a frame: four hex digits or a protocol error.
Length(r, from, to) ==
  /\ need[r] = 0
  /\ \/ \E n \in 0 .. MaxLength : Go(r, from, to) /\ Await(r, n) /\ UNCHANGED ending
     \/ Go(r, from, "release") /\ End(r, "failed") /\ UNCHANGED need
  /\ UNCHANGED <<shared, address, socks, late, cut, frames, closer>>

FailLength(r) == Length(r, "fail_length", "fail_detail")
FrameLength(r) == Length(r, "length", "payload")

\* The rejection's detail, UTF-8 or not: open() raises either way.
FailDetail(r) ==
  /\ need[r] = 0 /\ Go(r, "fail_detail", "release") /\ End(r, "failed")
  /\ UNCHANGED <<shared, address, socks, need, late, cut, frames, closer>>

\* _enter_stream_mode: settimeout(None) works, the deadline is no more, and open()
\* returns a session.
EnterStreamMode(r) ==
  /\ State(r) # "closed" /\ Go(r, "stream_mode", "length") /\ Await(r, HeaderBytes)
  /\ late' = [late EXCEPT ![r] = FALSE]
  /\ UNCHANGED <<shared, address, socks, ending, cut, frames, closer>>

\* A whole payload: a snapshot is yielded and the next frame read, or it does not
\* decode (AdbProtocolError, or the ValueError of a domain type).
Payload(r) ==
  /\ need[r] = 0
  /\ \/ /\ Go(r, "payload", "length") /\ Await(r, HeaderBytes)
        /\ frames' = [frames EXCEPT ![r] = @ + 1] /\ UNCHANGED ending
     \/ Go(r, "payload", "release") /\ End(r, "failed") /\ UNCHANGED <<need, frames>>
  /\ UNCHANGED <<shared, address, socks, late, cut, closer>>

\* The session's owner stops iterating between two snapshots and closes it.
Leave(r) ==
  /\ need[r] = HeaderBytes /\ Go(r, "length", "release") /\ End(r, "left")
  /\ UNCHANGED <<shared, address, socks, need, late, cut, frames, closer>>

\* _release_session with a socket: close it, then, under the lock, free the slot.
Release(r) ==
  /\ Go(r, "release", "unlock") /\ Sock(r, "closed")
  /\ UNCHANGED <<shared, address, need, late, ending, cut, frames, closer>>

Unlock(r) ==
  /\ Go(r, "unlock", "ended") /\ Unregister(r) /\ session_active' = FALSE
  /\ UNCHANGED <<closed, address, socks, need, late, ending, cut, frames, closer>>

\* _release_session without one: _connect raised and closed its candidates.
GiveUp(r) ==
  /\ Go(r, "give_up", "ended") /\ session_active' = FALSE
  /\ UNCHANGED <<closed, active_socket, address, socks, need, late, ending, cut, frames, closer>>

-----------------------------------------------------------------------------
(* close(), by another thread; later calls return at once.                   *)

openers == <<at, address, socks, need, late, ending, cut, frames>>

CloseSource ==
  /\ closing = "no" /\ closed' = TRUE /\ victim' = active_socket
  /\ closing' = IF active_socket = NoSocket THEN "done" ELSE "shutdown"
  /\ UNCHANGED <<session_active, active_socket, openers>>

\* A call of the closer on its socket; an error (it is closed already) is ignored.
TakeDown(from, to, state) ==
  /\ closing = from /\ closing' = to
  /\ socks' = [socks EXCEPT ![victim[1]][victim[2]] = IF @ = "closed" THEN @ ELSE state]
  /\ UNCHANGED <<shared, at, address, need, late, ending, cut, frames, victim>>

Shutdown == TakeDown("shutdown", "close", "shut")
CloseVictim == TakeDown("close", "done", "closed")

-----------------------------------------------------------------------------
(* The source's threads, and the fairness they have: every call but a read   *)
(* returns or fails by itself, a read that the deadline or close() cuts      *)
(* short returns, and clocks go on.  Nobody need call, send, or close.       *)

Prompt(r) ==
  \/ Resolve(r) \/ NextAddress(r) \/ Register(r) \/ Connect(r) \/ ConnectFails(r) \/ ConnectArmFails(r)
  \/ Drop(r) \/ Send(r) \/ Status(r) \/ FailLength(r) \/ FrameLength(r) \/ FailDetail(r)
  \/ EnterStreamMode(r) \/ Payload(r) \/ Release(r) \/ Unlock(r) \/ GiveUp(r)

OpenerStep(r) == Acquire(r) \/ Late(r) \/ Receive(r) \/ IoCut(r) \/ PeerFails(r) \/ Leave(r) \/ Prompt(r)
CloserStep == CloseSource \/ Shutdown \/ CloseVictim

SourceNext == CloserStep \/ \E r \in Openers : OpenerStep(r)
SourceSpec == SourceInit /\ [][SourceNext]_sourceVars

SourceFairness ==
  /\ WF_sourceVars(Shutdown \/ CloseVictim)
  /\ \A r \in Openers : WF_sourceVars(Late(r)) /\ WF_sourceVars(IoCut(r)) /\ WF_sourceVars(Prompt(r))
-----------------------------------------------------------------------------
(* Properties.                                                               *)

Holds(r) == at[r] \notin {"idle", "ended"}
Up == {"open", "connected", "shut"}

\* _session_active means one opener inside, and no more than one.
OneHolder ==
  /\ session_active <=> \E r \in Openers : Holds(r)
  /\ \A r, s \in Openers : Holds(r) /\ Holds(s) => r = s

\* A socket that is up is the current candidate of an opener that is still to
\* close it, and a connected one of an open source is registered.
SocketsBelong ==
  \A r \in Openers : \A i \in Candidates : socks[r][i] \in Up =>
    /\ i = address[r] /\ Holds(r) /\ at[r] \notin {"resolve", "address", "give_up", "unlock"}
    /\ at[r] # "register" => active_socket = <<r, i>>

\* After close() has returned no connection is left up, whatever its opener
\* was doing: the flag and the registered socket are read under one lock.
CloseTakesDown == closing = "done" => \A r \in Openers : \A i \in Candidates : socks[r][i] # "connected"

\* No socket outlives its session, no two sessions overlap, and close() reaches
\* every connection, the one that is being made included.
SessionIsOwned == OneHolder /\ SocketsBelong /\ CloseTakesDown

Stage(r) ==
  IF at[r] = "idle" THEN "new"
  ELSE IF ending[r] \notin {"none", "retry", "deadline"} THEN ending[r]
  ELSE IF at[r] \in {"length", "payload"} THEN "streaming" ELSE "opening"

Holder == IF session_active THEN CHOOSE r \in Openers : Holds(r) ELSE NoOpener
Stages == [r \in Openers |-> Stage(r)]
Interrupted == {r \in Openers : cut[r]}

Contract == INSTANCE SourceContract WITH holder <- Holder, stage <- Stages, interrupted <- Interrupted

\* Sockets, deadlines and the two locks' blocks implement the contract: None or
\* an orderly end only after close(), and never a failure for what it cut.
ImplementsContract == Contract!Spec

\* open() returns whatever the server does, and a stream ends once its source
\* has been closed: nobody waits for a silent server for ever.
SourceCallsEnd ==
  \A r \in Openers :
    /\ at[r] \in Opening ~> at[r] \notin Opening
    /\ (closed /\ at[r] # "idle") ~> at[r] = "ended"
=============================================================================
