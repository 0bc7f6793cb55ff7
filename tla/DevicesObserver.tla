---------------------------- MODULE DevicesObserver ----------------------------
(***************************************************************************)
(* AdbDevicesObserver (adb/transport/observation/observer.py): one         *)
(* track-devices session at a time, each a new generation with a source    *)
(* and a thread of its own.  Callers start, stop and close the observer    *)
(* while the session threads open their source, publish what they see and  *)
(* take themselves out again.  DevicesObservation composes these actions   *)
(* with the supervisor that calls them and hears the signals.              *)
(*                                                                         *)
(* A step is one `with self._lock` block, one call to the source or the    *)
(* publisher, or a join.  What AdbTrackDevicesSource does inside open()    *)
(* and snapshots() is the module TrackDevicesSource.                       *)
(***************************************************************************)
EXTENDS Naturals

CONSTANTS
  Clients,         \* threads calling start(), stop() and close()
  MaxGeneration,   \* bound: sessions started
  PublishMayRaise  \* EventPublisher.publish may raise in the session thread

ASSUME GenerationsAssumption == MaxGeneration \in Nat /\ PublishMayRaise \in BOOLEAN

VARIABLES
  generation,       \* _generation, the last one allocated
  active,           \* _active_session_id, _source and _thread; 0: None
  observer_closed,
  source_closed,    \* generations whose source stop() or close() has closed
  stage,            \* stage[g]: where the thread of session g is
  terminal,         \* terminal[g]: the signal it will end with
  call              \* call[t]: the stop() or close() that t is in

observer == <<generation, active, observer_closed, source_closed, stage, terminal, call>>

Sessions == 1 .. MaxGeneration

\* AdbDevicesObservationFailure; SERVICE and PROTOCOL are treated alike.
Failures == {"connection", "service"}
Stages == {"none", "opening", "started", "streaming", "closing", "publishing", "ended"}
Calls == [step : {"idle", "stop", "source", "join"}, session : Sessions \cup {0}]
NoCall == [step |-> "idle", session |-> 0]

(***************************************************************************)
(* Every variable stays in the set of values the code gives it.            *)
(***************************************************************************)
ObserverTypeOK ==
  /\ generation \in 0 .. MaxGeneration
  /\ active \in 0 .. MaxGeneration
  /\ observer_closed \in BOOLEAN
  /\ source_closed \subseteq Sessions
  /\ stage \in [Sessions -> Stages]
  /\ terminal \in [Sessions -> Failures \cup {"none", "stopped"}]
  /\ call \in [Clients -> Calls]

ObserverInit ==
  /\ generation = 0
  /\ active = 0
  /\ observer_closed = FALSE
  /\ source_closed = {}
  /\ stage = [g \in Sessions |-> "none"]
  /\ terminal = [g \in Sessions |-> "none"]
  /\ call = [t \in Clients |-> NoCall]

-----------------------------------------------------------------------------
(* The operations.                                                           *)

\* start() raises RuntimeError when this does not hold.
MayStart == ~observer_closed /\ active = 0

\* start(): allocate a generation and start its thread.
StartSession ==
  /\ MayStart
  /\ generation < MaxGeneration
  /\ generation' = generation + 1
  /\ active' = generation + 1
  /\ stage' = [stage EXCEPT ![generation + 1] = "opening"]
  /\ UNCHANGED <<observer_closed, source_closed, terminal, call>>

\* stop(): the block that reads the active source and thread.
ReadActive(t) ==
  /\ call' = [call EXCEPT ![t] = IF active = 0 THEN NoCall
                                 ELSE [step |-> "source", session |-> active]]
  /\ UNCHANGED <<generation, active, observer_closed, source_closed, stage, terminal>>

Stop(t) == call[t].step = "idle" /\ active # 0 /\ ReadActive(t)

\* close() on an open observer: no session from now on, then stop().
CloseObserver(t) ==
  /\ call[t].step = "idle" /\ ~observer_closed
  /\ observer_closed' = TRUE
  /\ call' = [call EXCEPT ![t].step = "stop"]
  /\ UNCHANGED <<generation, active, source_closed, stage, terminal>>

StopActive(t) == call[t].step = "stop" /\ ReadActive(t)

CloseSource(t) ==
  /\ call[t].step = "source"
  /\ source_closed' = source_closed \cup {call[t].session}
  /\ call' = [call EXCEPT ![t].step = "join"]
  /\ UNCHANGED <<generation, active, observer_closed, stage, terminal>>

\* Mutant: stop() does not wait for the session thread.
JoinNothing(t) ==
  /\ call[t].step = "join"
  /\ call' = [call EXCEPT ![t] = NoCall]
  /\ UNCHANGED <<generation, active, observer_closed, source_closed, stage, terminal>>

JoinSession(t) ==
  /\ call[t].step = "join" /\ stage[call[t].session] = "ended"
  /\ call' = [call EXCEPT ![t] = NoCall]
  /\ UNCHANGED <<generation, active, observer_closed, source_closed, stage, terminal>>

-----------------------------------------------------------------------------
(* The session thread: _run_session.                                         *)

Move(g, from, to) ==
  /\ stage[g] = from
  /\ stage' = [stage EXCEPT ![g] = to]
  /\ UNCHANGED <<generation, active, observer_closed, source_closed, call>>

\* The session ends with `signal`; the finally block comes first.
Unwind(g, from, signal) ==
  /\ Move(g, from, "closing")
  /\ terminal' = [terminal EXCEPT ![g] = signal]

\* source.open(): None if the source is found closed, and otherwise a session or
\* a failure, which a close() that comes too late does not change.
Open(g) ==
  \/ Move(g, "opening", "started") /\ UNCHANGED terminal
  \/ g \in source_closed /\ Unwind(g, "opening", "stopped")
  \/ \E failure \in Failures : Unwind(g, "opening", failure)

\* publish(Started); a publisher that raises ends the thread without a signal, and so
\* does a row that a domain type refuses with a ValueError (proto.py:173), which is
\* none of the errors this thread catches.
PublishStarted(g) == Move(g, "started", "streaming") /\ UNCHANGED terminal
PublishRaises(g) ==
  /\ PublishMayRaise
  /\ \/ Unwind(g, "started", "none")
     \/ Unwind(g, "streaming", "none")

\* Mutant: closing the source does not interrupt the read that is under way.
StreamDeaf(g) ==
  \E failure \in Failures : g \notin source_closed /\ Unwind(g, "streaming", failure)

\* The snapshots run out: only a closed source ends them in order, and a source
\* is closed for good, so a failure the server caused can still be reported.
Stream(g) ==
  \/ g \in source_closed /\ Unwind(g, "streaming", "stopped")
  \/ \E failure \in Failures : Unwind(g, "streaming", failure)

\* Mutant: the session's signal is published before the session is taken out.
MarkInactiveNever(g) ==
  /\ Move(g, "closing", IF terminal[g] = "none" THEN "ended" ELSE "publishing")
  /\ UNCHANGED terminal

\* session.close() or source.close(), and _mark_inactive.  An open session only drops its
\* socket, and that a source which gave no session is closed is not recorded: nobody
\* opens or reads it any more, and closing it once more changes nothing.
MarkInactive(g) ==
  /\ stage[g] = "closing"
  /\ stage' = [stage EXCEPT ![g] = IF terminal[g] = "none" THEN "ended" ELSE "publishing"]
  /\ active' = IF active = g THEN 0 ELSE active
  /\ UNCHANGED <<generation, observer_closed, source_closed, terminal, call>>

PublishTerminal(g) == Move(g, "publishing", "ended") /\ UNCHANGED terminal

-----------------------------------------------------------------------------
(* Properties.                                                               *)

\* A thread of session g may still publish a snapshot or an initial signal.
Running(g) == stage[g] \in {"opening", "started", "streaming"}

\* Only the active generation observes: an earlier one never publishes a Started
\* or a snapshot after a later one has been allocated.
OneGeneration ==
  \A g \in Sessions :
    /\ Running(g) => active = g
    /\ stage[g] # "none" => g <= generation
    /\ active = g => stage[g] \in {"opening", "started", "streaming", "closing"}

\* stop() that has returned leaves no trace of the session it stopped: by the time
\* the observer waits for nobody, a closed source belongs to a thread that has ended.
StoppedSessionsEnd ==
  \A g \in source_closed :
    stage[g] # "ended" => \E t \in Clients : call[t] = [step |-> "join", session |-> g]

=============================================================================
