# Interaction capability kernel: the ADB slice, in TLA+

The repository keeps an Android host's ADB server running, watches the server's
device list, prepares configured transports and runs shell and input commands on
them.  Its concurrent core is the three supervisors under `src/adb/supervision/` and the
observer and episodes they drive.  This directory models that core, the source of the device
list with its sockets, and the calls and decoders everything else is made of; checks them with
TLC on small instances; and proves its main safety properties with TLAPS.

## 1. The system

| Component | State it keeps | Operations | Talks to |
|---|---|---|---|
| `AdbServerSupervisor` (`supervision/server.py`) | desired running, recovery gate and epoch, live cycle, retry token, attempt threads, closed; a state lock and a mutation lock | `start`, `stop`, `set_recovery_enabled`, `reconcile`, `close`, retry handler, attempt threads | ensure episode, scheduler, bus |
| `AdbServerEnsureOrchestrator` (`server/lifecycle/ensure.py`) | none between calls | `ensure`: probe, at most one command, probes until the deadline | status reader, start/stop subprocess, bus |
| `AdbDevicesObserver` (`transport/observation/observer.py`) | generation, active session, source and thread, closed | `start`, `stop`, `close`, session thread | track-devices source, bus |
| `AdbTrackDevicesSource` (`transport/observation/source.py`) | closed, session active, active socket | `open`, `close`, session `snapshots`, `close` | socket |
| `AdbDevicesObservationEstablishmentOrchestrator` (`transport/observation/establishment.py`) | a queue per episode | `establish` | observer, bus |
| `AdbDevicesObservationSupervisor` (`supervision/devices_observation.py`) | current session, cycle, retry token, attempt slot, subscriptions, closed | `start`, `close`, failure and retry handlers, attempt threads | establishment, observer, scheduler, bus |
| `AdbConfiguredTransportSupervisor` (`supervision/configured_transport.py`) | registrations (resolution, session, attempted flag, recovery thread), subscriptions, closed | `start`, `register`, `unregister`, `resolution`, `close`, Started and snapshot handlers, recovery threads | observer, snapshot query, preparation, bus |
| `AdbTransportPreparationOrchestrator` (`transport/preparation.py`) | a queue per episode | `prepare` | snapshot query, connector, observer, bus |
| wire layer (`_internal/framing.py`, `client.py`, `proto.py`) | a socket or a buffer per call | read a frame, read a shell-v2 packet, decode `Devices` and `ServerStatus` | socket |
| Android query, input and command adapters (`android/adb/adapters/`) | none | one shell command each; its text to a parser, or its exit status into an attempt | wire layer |
| Android output parsers (same directory) | none | a text into a snapshot, `None` or a protocol error | - |
| server status, device queries, features | none | one request and its decoding | wire layer |
| subprocess runner, server commands, connection, pairing | none | one run of the `adb` program | adb binary |
| endpoint provisioning (`server/endpoint/`) | reserved endpoints | reserve one, under a lock | - |
| value objects | none | pure | - |
| event bus and scheduler (`eventing/`, `scheduling/`) | protocols only: no implementation in the repository | publish, subscribe, schedule, cancel | - |

How they meet: the observer publishes Started, snapshots and one terminal signal per
session on the bus; the observation supervisor answers a lost server connection with a new
establishment cycle; the configured-transport supervisor projects snapshots into
registrations and launches a recovery thread, which calls `prepare`, which subscribes to
the same signals.  Retries reach the two cycle-driven supervisors as events of the scheduler
through the bus, on the bus's own threads.

What is hard here: state is read under a lock and used after it was released (launches,
result handling, projections); work of a superseded cycle must be fenced; timers race the
code that stores their tokens; joins meet threads that are publishing, waiting for a lock,
or not started yet; a publication inside an episode may raise; a session can end between
being established and being adopted.  `PROJECT.json` lists each such hazard with its line.

What makes each component correct:

* server supervision: episodes do not overlap; nothing left from before `stop()` starts the
  server; one attempt or timer per cycle; a live cycle is always driven and ends; after `close()`
  nothing new begins.
* observer: one generation observes at a time; a stop that returned leaves no thread behind.
* observation supervision: one driver per cycle and the slot is free when it launches; an adopted
  session is newer than the one it replaces; a lost connection is answered; close ends observation.
* configured transports: a slot is freed by the thread that holds it; every absence is decided
  once; the resolution is the latest snapshot's.
* preparation: one connect at most; a result rests on evidence; no update is lost.
* source: one session at a time and every socket owned by it; close reaches the connection that is
  being made; what close cut short is an orderly end; `open()` returns and a closed stream ends.
* wire layer, adapters and parsers: a value is what a whole answer says, an attempt claims what the
  server reported, and everything else is an error.

## 2. The modules

| Module | Models | Uses |
|---|---|---|
| `ServerIntent` | abstract endpoint: what is wanted, whether recovery is allowed, one activity at a time | |
| `ServerSupervisor` | `AdbServerSupervisor` and the ensure episode | `ServerIntent` by refinement |
| `ServerSupervisorProofs` | theorems: types, episodes, refinement | `ServerSupervisor`, `TLAPS` |
| `ServerCyclesProofs` | theorems: who has a recovery cycle, what close leaves | `ServerSupervisorProofs` |
| `ServerRetriesProofs` | theorems: where retries and their tokens are | `ServerCyclesProofs` |
| `DevicesObserver` | `AdbDevicesObserver`; no `Next` of its own | |
| `DevicesObservation` | establishment and observation supervision, composed with the observer | `DevicesObserver` |
| `DevicesObservationProofs` | theorems about the observer inside that composition, and about what it asks of its sources | `DevicesObservation`, `SourceContract`, `TLAPS` |
| `ObservationCyclesProofs` | theorems about the supervisor: cycles, slot, adoption, failures, closing | `DevicesObservationProofs` |
| `ConfiguredTransport` | `AdbConfiguredTransportSupervisor` | |
| `ConfiguredTransportProofs` | theorems | `ConfiguredTransport`, `TLAPS` |
| `TransportPreparation` | one `prepare` episode | |
| `TransportPreparationProofs` | theorems | `TransportPreparation`, `TLAPS` |
| `SourceContract` | what the source promises: one session, orderly ends only after close | |
| `TrackDevicesSource` | `AdbTrackDevicesSource` and its session, socket by socket | `SourceContract` by refinement |
| `AdbSessionsProofs` | theorems: the source, and the calls | `AdbSessions`, `TLAPS` |
| `HostMessages` | protobuf decoding, the row lookup, features; and what a message says | |
| `AndroidDumps` | the parsers of shell output; and what a text says | |
| `ServiceClient` | one call of an adapter: request, answer, decoding, result | `HostMessages`, `AndroidDumps` |
| `AdbSessions` | the process's sessions with the server: the source, or one call | `TrackDevicesSource`, `ServiceClient` |
| `MC...` | symmetry sets and bounds for TLC | |

**Granularity.**  One step is one `with lock` block, one call to another component, or one
thread operation.  Everything inside a state-lock block is atomic, so that lock is implicit.
`_mutation_lock`, held across an episode, is a variable.  `at[t]` names the next step of thread
`t` and `job[t]` its locals, reset when it returns.  A call the code rejects (closed,
already started, not armed) changes nothing and has no step.  Two adjacent steps are merged only
where no other thread can tell: the two lock acquisitions of `start()`/`stop()`, and in
`register()` the new record and the read of the active session.

**Correspondence.**  Actions carry the names of the methods (`Start`, `Stop`,
`SetRecoveryEnabled`, `Reconcile`, `Close`, `Launch` = `_launch_..._attempt`,
`BeginAttempt` = `_run_recovery_attempt`, `EndCycle` = `_end_..._cycle`, `Adopt` =
`_complete_establishment_cycle`, `ApplySnapshot` = `_apply_snapshot`, `Finally` = the `finally` of
`_run_recovery`).  `Launch`/`Spawn` are the registration of a thread and its
`start()`, so that a close in between is visible.  `Schedule`/`StoreToken` are
`schedule_after` and the block after it.  A cycle identity is the number of the operation that
opened it; a schedule token is its (cycle, attempt) event.  A snapshot is the number of an
inventory version.  Variables with no counterpart in the code: `closing` (how far `close` got),
`exhausted` and `answered` (what has been published or opened, in `history`), `owed` (absences
less recoveries), `baseline`, `queried`, `seen` and `ended` in `TransportPreparation`.
No guard reads them.  `started` and `subscriptions` there are positions in the code: how far the
session thread got in `_run_session`, and the episode in `_subscribe`, whose four subscriptions are
four steps.  An observer whose `open()` failed closes its own source: that is not recorded in
`source_closed`, as nobody opens or reads that source any more.

**Source.**  `at[r]` is the next step of the thread that opened session `r`; one step is a
block under the source's lock or one system call on a socket, so that `CloseSource` falls anywhere
between the claim of the session, the creation of a socket, its registration, its connection and each
partial read.  `is_closed()` is merged with the failing call before it, since `_closed` never becomes
false again and the call could have failed later.  `ending[r]` is the exception or return under way;
`cut[r]` remembers that a call failed because close had taken its socket down, and is history.
Assumed of sockets: `connect` on one that was shut down fails, or gives a connection that reads
end-of-file; a waiting read wakes up when its socket is shut down; a socket that is closed refuses
every call.  `HeaderBytes` stands for the four bytes of a status or length.

**Calls.**  Calls of adapters share no state with one another or with the source, so `AdbSessions`
takes in `Init` either the source with its openers or any one call (`Calls`: host queries, raw exec,
Android queries by format, Android commands with what may be wrong with them, runs of the `adb`
program).  The server sends one item at a time (`Items`: a field, row, byte or line, with its oddities) or a
shell-v2 packet, hangs up, resets or is silent; `received` keeps what it sent as history.  The locals of
a call that failed are reset.  `_recv_exact` is one step here; that it stops at the right byte is the
source's `TypeOK`.

**Decoders** are folds over items, as their loops are.  Beside each stands what the same input says, as a
set-builder over positions without a scan: `IdIn` gives the two's-complement value of a varint bit by
bit, `DisplaysIn` picks the last override row of each display, `WindowsIn` cuts the text into blocks.
An attempt's server and that of one query (`boot`, which stands for them all) send any packets; that of the
other queries sends stdout and one exit, so that its texts can be longer.  A row is looked up by serial and
by transport id.  Three words stand for the lists by which `_raise_transport_error` tells rejections apart.
A line is its pattern and captures; fields of one kind are represented by one; a varint has
2-bit groups, three of them, with the one-bit limit on the last.  A window's frame,
visibility and surface are one fact, of which the first counts as for each of them.  What the constructors
under `src/android/` and `src/geometry` refuse (duplicate ids, empty rectangles) is left out.

**Environment.**  The bus has no implementation in the repository; it is taken to call its subscribers before
`publish` returns, so that what a session publishes in its stream is delivered before it leaves, and only its
terminal signal can come after the next session has begun.  The bus delivers a retry at any time after it fired, on a bus thread; cancelling
a retry that has fired does nothing.  The native server may crash at any time.  A
probe may miss a condition that holds.  A publication may raise when `PublishMayRaise`.
Definitions marked as mutants are deliberate errors in one operation, defined beside the correct
operator; none is used by a specification.  They show that each property can fail.

## 3. The runs

| Run | Instance | Distinct states | Question |
|---|---|---|---|
| `server_safety` | 2 callers, 1 bus thread, 2 workers, 3 operations, 2 attempts; raising publishes, early retries | 1.1 M (symmetry) | mutual exclusion, fencing, budget, closing, refinement of `ServerIntent` |
| `server_liveness` | same threads, 2 operations, orderly retries and publishes | 94 k | no cycle abandoned, cycles end, calls return |
| `server_late_token` | 1 caller, 1 operation, 3 attempts | counterexample | a late `StoreToken` orphans the cycle |
| `server_raising_publish` | 1 caller, 1 operation | counterexample | an exception orphans the cycle |
| `observation_safety` | 2 clients, 2 sessions, 2 workers, 2 attempts, everything allowed to go wrong | 0.56 M (symmetry) | one generation, one driver, adoption, closing |
| `observation_liveness` | 2 clients, 1 session, 2 attempts | 26 k | failures answered, cycles end, calls return |
| `observation_lost_failure` | 1 client, 1 session | counterexample | a failure before adoption is lost |
| `transport_safety` | 1 serial, 2 callers, 2 recovery threads, 3 versions, 2 sessions | 2.3 M (symmetry) | slots, absences, one recovery each |
| `transport_stale_resolution` | 1 caller, 2 versions | counterexample | a fresh read is applied late |
| `transport_reregistered` | 1 caller, 2 registrations | counterexample | a recovery hits the next registration |
| `transport_preparation` | 2 versions, 2 sessions | 1.0 M | connects, evidence, missed updates, end |
| `adb_sessions` | 2 openers, 2 addresses, 2-byte headers, 1 snapshot; or any call, 2 to 4 items, 4 packets | 0.28 M | ownership of sockets, the source's contract, truthful attempts, whole snapshots, end |

*Why the bounds are enough.*  Two callers and two workers are the least with which two episodes,
two launches or a close and an attempt can meet; a third operation (`MaxEpoch = 3`) allows start,
stop and start again around a stale attempt.  Two attempts have both a retry and an exhaustion;
the late-token run needs a third.  Two sessions show an old one beside its successor.  Three
versions are present, absent, present again.  One serial is enough for `ConfiguredTransport`:
registrations do not refer to each other.  Two versions are enough for an episode, which reacts to
the order of two snapshots and to one that is delivered after the query saw it.  With
`MaxAttempts = 0` (no limit) the attempt number stops at `AttemptBound`, as it only feeds the delay.
In `adb_sessions` a second opener is refused, waits for the slot or finds the source closed; a second
address is reached after a first that failed, was cut or ran into the deadline; headers of two
bytes arrive in parts.  Items come in fours where a case takes so many (two window headers, facts and a
focus; three lines and one too many; three bytes and one too many), in twos where fields or rows only
need to meet, and in threes elsewhere; four packets hold output, two exits and one more.
`transport_safety` allows one registration of a serial, since a second one violates
`OneRecoveryPerAbsence` (its own run); that a second one does no harm to the slot is the theorem
`SlotHoldersAreAlive`, not a run.  Threads are reused once they have ended; a launch waits for
a free one.  `TransportPreparation` stops its environment once a result is there.

*Fairness.*  Weak fairness only: of the continuation of every thread that has begun a call, of every
retry's firing and its delivery by some bus thread, of the observer calls a client is in, of a
session's clean-up and terminal signal, and of a session's end once its source has been closed.  None
makes a caller begin a call, a server crash, an open session fail or a publication raise.  In the source: every call but a read returns or
fails by itself (`Prompt`), the startup deadline passes (`Late`), a read that the deadline or close cuts
short returns (`IoCut`), and close finishes once begun; nobody need open, send or close.  Python
threads are scheduled by the operating system, and every wait in the code is bounded by a deadline
(ensure, establishment, preparation) or ends with one of these steps.  Weak fairness is enough
at the mutation lock because `MaxEpoch` bounds how often it is taken; the lock itself is not fair, and
with callers that never rest a thread could be overtaken for ever, which these runs do not rule out.
Likewise `PreparationEnds` says that an episode ends once no more signals come: a stream that never lets
its queue become empty would keep it from looking at its deadline, and sessions and versions are bounded.

*Assumptions of the liveness runs.*  `RetriesOutlastScheduling`: a delay outlasts the statements
after `schedule_after` in the same thread.  `PublishMayRaise = FALSE`.  `SessionsOutliveAdoption`:
a session does not end between Started and its adoption.  Each excludes exactly one of the
behaviours that a counterexample run exhibits; the safety runs do not assume them.

*Deadlock* is checked in every run but `adb_sessions`, whose sessions and calls end for good (that they end
is `SourceCallsEnd`): `Rest` is enabled only when no thread is inside a call (or the
episode is over), so a state in which calls wait for each other is an error.

## 4. What the counterexamples show

1. **Late token** (`server.py:308-315`, the same shape at `devices_observation.py:287-294`): the
   retry fires, its attempt fails and schedules the next one, and only then does the first thread
   store its own token, cancelling the newer.  The cycle stays live with nothing to drive it and
   `reconcile()` refuses to open another.
2. **Raising publication** (`server.py:242-263`): `ensure()` raises, the result is never handled, the
   cycle stays live.
3. **Lost failure** (`devices_observation.py:147-151` and `303-311`): Started, then failed,
   then adopted: the failure was compared with the previous session.
4. **Stale projection** (`configured_transport.py:189-199`): a query answered before, applied after a
   newer snapshot.
5. **Re-registration** (`configured_transport.py:264-284`): a recovery is decided for a record and
   launched for a serial.

## 5. The proofs

`ServerSupervisorProofs` proves for all sets of callers, bus threads and workers and all bounds that
satisfy the named assumptions:

* `TypeCorrect`: `Spec => []TypeOK`;
* `EpisodeInvariant`: `Spec => []EpisodeInv`;
* `EpisodesAreExclusive`, `AttemptsAreWanted`, `StopIsFinal`: mutual exclusion of episodes, attempts
  only while running is desired, and no revival after `stop()`;
* `SupervisorImplementsIntent`: `Spec => ImplementsIntent`, the refinement of `ServerIntent`.

`EpisodeInv` is not an invariant of a run: the theorem holds for every instance, and
`OneEpisode`, which the run checks, follows from it.

*Assumptions*: `ThreadsAssumption` (the three kinds of threads are disjoint and `NoThread` is none of
them), `BoundsAssumption` and `SwitchesAssumption` (types of the bounds and switches).  TLC evaluates
them in every run.

*Argument*: mutual exclusion is not inductive by itself: a state in which a thread is in an episode
without holding the lock would satisfy it and break it in one step.  `EpisodeInv` adds
that (a) the lock is held by the thread that is inside a mutation and by nobody else
(`LockIsHeld`), (b) the holder's wanted condition agrees with the intent, since every operation that
changes the intent takes the lock first (`HolderFollowsIntent`), (c) a thread between registering and
starting a worker owns it (`SpawnersOwnWorkers`) and (d) attempt threads want the server up
(`AttemptsStart`).  There is one lemma per group of actions, with a step per action and conjunct below
it.  The refinement maps the intent variables to themselves and the activity to what the lock
holder is doing.

`ServerCyclesProofs` proves, from the same assumptions and with early retries and raising publications allowed,
`CyclesHaveOneDriver`, `LiveCyclesAreArmed`, `ExhaustionIsTrue` and `ClosedStaysQuiet`: the run's properties
`OneDriver`, `LiveCycleIsArmed`, `ExhaustedTruthfully` and `ClosedIsQuiet`.

*Argument*: a cycle is a baton.  `OneDriver` alone is not inductive: a thread that is about to announce the
exhaustion of a cycle no longer drives it, and nothing in the property stops a retry of that cycle.
`OneBaton` says that at most one thread, one pending retry or the announcement has a cycle, and that an announced one
is had by nobody; `KnownCycles`, that every cycle spoken of was opened by an operation, so that the next one is new;
`BudgetKept`, that an attempt number never exceeds the budget, so that the announcement comes at exactly the last.
Most steps are instances of `ThreadMovesOn` (a thread goes on with its cycle, leaves it, or takes one that nobody had);
launching passes the baton between threads, scheduling and publishing let go of it.  `ClosingInv` adds to `ClosedIsQuiet`
that a closer remembers every attempt that is left (`Closer`): a worker begins only with the
currency check, under the state lock, and close sets `closed` before it looks.

From these follows `NobodyWaitsInACircle` (`Spec => []WaitsEnd`): `close()` may wait for attempts and attempts for
`_mutation_lock`, but its holder waits for nobody (`LockIsHeld` says at which steps it can be) and an attempt never joins
(`ClosingInv` says that a closer is a caller), so every wait ends, after one more at most, at a thread that can go
on.  A call that waits at the lock in `start()` or `stop()` has no step of its own; it waits for the same holder.  The theorem
is about the waits for threads and for `_mutation_lock`, not about liveness: that the last thread does go on is `CallsReturn`.

`ServerRetriesProofs` proves `StoredTokensArePending` (`StoredTokenIsPending`, assuming `RetriesOutlastScheduling`) and
`LiveCyclesAreDriven` (`LiveCycleIsDriven`, assuming also `~PublishMayRaise`).  Counterexamples 1 and 2
of section 4 show that `LiveCyclesAreDriven` needs both.  `RetriesInv` is what makes them inductive: between `schedule_after` and the
block that stores its token a thread's retry is pending and no token of its cycle is stored, and a token taken to be cancelled
belongs to a cycle that is over (`Over`: not live, nobody has it, nobody stores for it), so that no cancellation meets
the retry of a live cycle.

`AdbSessionsProofs` proves for all sets of openers, numbers of addresses and lengths, items and packets
(`SourceThreads`, `SourceBounds`, `ClientBounds`), first of the source:

* `SourceTypeCorrect`: `SourceSpec => []SourceTypeOK`; in particular the bytes still to be read never
  fall below zero;
* `SessionsAreOwned`: `SourceSpec => []SessionIsOwned`;
* `SourceImplementsContract`: `SourceSpec => ImplementsContract`, the refinement of `SourceContract`.

*Argument*: that close leaves no connection up is not inductive.  `SocketInv` adds that a socket
which is up is its opener's current candidate and, once past `register`, the registered one
(`SocketsBelong`), that an opener which is handling a socket has one (`SocketsExist`), and that after the flag
is set whatever is still up is what close has taken or is not registered yet (`VictimIsKnown`), which `_register_socket`
then refuses.  For the refinement `EndingsFit` ties what is recorded of a session's end to the step it is at, and a
socket that is down to a closed source: only so is a failing call known to be a stop.  One lemma says
what the contract sees of a step (`OpenerIsSeen`), one turns that into a step of the contract
(`SessionMoves`).

and then of the calls:

* `SessionsTypeCorrect`: `Spec => []TypeOK`, the whole module;
* `AttemptsAreTruthful`: `Spec => []AttemptIsTruthful`, whatever packets the server sends in whatever order;
* `ValuesComeFromWholeAnswers`: `Spec => []ValuesAreWhole`, the part of `SnapshotIsWhole` that does not
  depend on what a decoder computes: a value comes from an answer that was received to its end, and for a
  command from one whose only exit status is 0.

*Argument*: what an attempt claims is decided when the exchange ends and published two steps later, after the
socket is closed, so `AttemptIsTruthful` says nothing of the states in between.  `OutcomeIsEarned` does: an
exchange that ended well ended between two packets, with an exit status in the shell protocol, and after any
other nothing was reported whole.  `ExitIsKept` says that the status the client keeps is the only
one it received, `CallsProceed` which requests have been made at each step.  `SourceAlone` turns what is
proved of the source's specification into facts about the process, and `Appended` is the lemma on sequences, of
items and packets alike.  A first version of `OpenSocket` let the command-line calls, which run a process,
open a socket as well; `CallsProceed` was not inductive until its guard said what the code does.

and of what a call makes of its answer:

* `WholeTextsAreDecoded`: `Spec => []WholeTextIsDecoded`, with no further condition: what a call decodes are the items the
  server sent, all of them and in their order, of an answer that was whole;
* `SnapshotsAreWhole`: `Spec => []SnapshotIsWhole`, assuming `DecodersAgree`: the decoders that loop over a text or search it
  return what it says, for every text of at most `MaxItems` items.  For features, raw streams,
  `parse_boot_completed` and `parse_current_user` the same is proved (`FeaturesAgree`, `RawAgrees`, `BootAgrees`,
  `CurrentUserAgrees`) and not assumed.

*Argument*: `SnapshotIsWhole` mixes three things: that the client gathers the bytes as they were sent, that it decodes them only
when they are all there, and that the decoder is right.  `AnswerInv` is the first two: what has been gathered is what was sent
so far (`stdout = Sent`, in the shell protocol the data of the packets that arrived, in order), it is an answer
of its format, and a call whose exchange failed has nothing whole.  The third no longer depends on the behaviour, and is
the hypothesis.  It holds for the lengths of `MCAdbSessions`: there the server may send any text of
up to `MaxItems` items, so `SnapshotIsWhole` in the run `adb_sessions` is about each of them.

`DevicesObservationProofs` proves for all clients, threads and numbers of sessions
(`GenerationsAssumption` and the threads' disjointness) `OnlyOneGenerationObserves`:
`Spec => []OneGeneration`, and `StopLeavesNoThread`: `Spec => []StoppedSessionsEnd`.  First every step of
the composition is shown to be a step of the observer or to leave it alone (`OnlyTheObserverMoves`); then
`ObserverInv`, which adds that nothing is stopped or waited for that was not started, is inductive.

The same module proves `ObserverKeepsSourceContract`: for every session `g`, `Spec => SourceKeepsContract(g)`.
`Source(g)` is an INSTANCE of `SourceContract` for the source of that session, with its thread as the only opener;
its stage, its terminal signal and `source_closed` are mapped to the contract's variables.  A
session that is started meets a fresh source, and from then on every step of the composition is a step of the contract or leaves
it alone.  `SourceImplementsContract` is the other half: the observer asks of a source no more than what
`TrackDevicesSource` is proved to give, so the two may be put together without losing an outcome.

`ObservationCyclesProofs` proves, for all clients, bus threads, workers and bounds (`ThreadsAssumption`,
`BoundsAssumption`, `GenerationsAssumption`), every other safety property of `observation_safety` and
`observation_liveness`:

* `ObservationTypeCorrect` (`TypeOK`), `OneDriverOfACycle` (`OneDriver`), `SlotIsFreeForTheLiveCycle` (`SlotIsFree`),
  `CloseLeavesNothing` (`CloseEndsObservation`) and `AdoptionOnlyAdvances` (`AdoptionAdvances`, an action property),
  whatever goes wrong;
* `NoCycleIsAbandoned` (`LiveCycleIsDriven`), assuming `RetriesOutlastScheduling`;
* `FailuresAreAnswered` (`FailureIsAnswered`), assuming `SessionsOutliveAdoption`.

Counterexamples 1 and 3 of section 4 are what happens without the last two assumptions.

*Argument*: here, unlike in the server supervisor, a cycle is replaced only by being adopted or given up, so at any time only the cycle
opened last can have a driver (`LastCycleOnly`), and its baton is with one thread or in one pending retry
(`OneBaton`).  From that the slot follows: a worker is in it from its registration until its result is judged
(`SlotInv`), all that time it has the baton, and so a thread that launches finds it empty.  `EpisodesInv` says that what
an episode waits for was started by the observer later than the current session, which is why adoption only advances.  That
each session opens at most one cycle (`CyclesFollowSessions`) keeps the cycle numbers in their type.
`CloseEndsObservation` is not inductive: it speaks of the moment close returns, which takes the cancellation of a token, several
steps of the observer and a join.  `ClosingInv` names the closer, makes it remember the attempt that is
left, and follows it through the observer's `close()`: at each of its steps the active session, if there is one, is the
one it is stopping.  `CyclesInv` is the conjunction, with the observer's own invariant.
`JoinedThreadsWaitForNobody` (`Spec => []WaitsEnd`) is the observer's counterpart of the server's theorem: `stop()` and `close()`
join a session thread, `close()` an attempt thread.  Neither of these ever joins, by `OneCloser`, and a session is joined only
when its source has been closed (`JoinedIsInterrupted`), so that a server that has nothing to say cannot keep it.
`RetriesInv` and `AnswersInv` come on top: the first, that a thread between `schedule_after` and the store of its token holds
the only retry of its cycle, and no token is stored; the second, that a session has a terminal signal only once it
has left the stream, and that one which is still to be adopted has none (`Outlives`), so that the failure of the
current session meets the handler when it is already the current one.

`ConfiguredTransportProofs` proves for all serials, callers, recovery threads and bounds
(`ThreadsAssumption`, `BoundsAssumption`):

* `TransportTypeCorrect`: `Spec => []TypeOK`;
* `SlotHoldersAreAlive`: `Spec => []SlotHolderIsAlive`;
* `AbsencesAreAttempted`: `Spec => []AbsenceIsAttempted`;
* `RecoveriesAreOwed`: `Spec => []OneRecoveryPerAbsence`, assuming `MaxRegistrations <= 1`: no serial is registered
  twice.  Any number of serials may be registered once each; counterexample 5 of section 4 shows what the second
  registration of one does.

*Argument*: that a slot's holder is alive is not inductive: a thread that has handed over and runs what its `finally`
launched is alive too, and ends without touching a slot.  `TransportInv` therefore speaks of threads that
are `Recovering`, binds each to one serial (`RecoveriesAreBound`), lets one thread at a time start
a worker (`SpawnersOwnWorkers`), and empties a closed supervisor (`ClosedIsEmpty`), so that the `finally` of a
slot's holder never meets a closed one.  `ThreadMoves` is the lemma for a thread that goes on; only
launching, starting and the `finally` need arguments of their own.
`RecoveriesCovered` comes on top for `RecoveriesAreOwed`: the absences observed less the recoveries launched are at least
as many as the threads that still have one to launch and an absence that is yet to be decided together (`Covered`).
`_apply_snapshot` decides one of an absence it has just counted or of one left undecided, `finally` only the latter, and
launching takes one from each side.  A serial that has never been registered has nobody waiting for it, which is
what a second registration loses.

`TransportPreparationProofs` proves for all numbers of versions and sessions (its `BoundsAssumption`)
`PreparationTypeCorrect`, `EpisodeConnectsOnce`, `SatisfactionIsBacked`, `DeliveriesAreEvaluated` and
`EndsAreNoticed`: every invariant the run checks.  The invariant ties the queue to
what has been delivered, whichever of the subscriptions the episode has so far: the newest snapshot of the bound session is evaluated or still queued
(`DeliveryIsQueued`), the end of the session likewise, and nothing queued is newer than what exists.

The inductive invariants were checked with TLC before they were proved.

*Only model-checked*: `DecodersAgree`, by way of `SnapshotIsWhole`: the decoders with a loop are folds, what they compute for
every length takes induction over data, with an operator as the induction's predicate, and the value of a varint is a power of two;
none of that is in the prover's reach.  `CycleEnds`, `CallsReturn`, `PreparationEnds` and `SourceCallsEnd`, since
liveness under fairness is not either.

## 6. What is not modelled

Durations: deadlines and delays may pass at any time (a deadline only where the code looks at it).
The jitter formula.  `thread.start()` failing, and exceptions of the scheduler.  Handlers of the
application that call back into a supervisor from inside a publication.  Registering a serial again
with another configuration.  Reading properties (`resolution`, `active_session_id`, `desired_running`)
change no state.  Constructors and result records with their validation, except where a decoder depends on
what they refuse.  `managed.py` raises `NotImplementedError` everywhere.  Characters: what a regular expression
matches, how a command is worded, UTF-8 itself.  Endpoint provisioning: its one operation is a block under a
lock, and that no endpoint is given out twice holds by the shape of that block.  Signals and supervision policies are
frozen records; the models carry the fields that are read.  The pause between two bytes of an answer: a
server that sends one before each timeout keeps a call of `AdbServiceClient` for ever.

## 7. What is left

Every safety property that a run checks is stated by a theorem, under the assumptions given in section 5; where one concerns
the code, a run that expects a violation shows what happens without it.  What would come next:

1. The decoders as recursive functions on positions, with a proof by induction for each that replaces its part of
   `DecodersAgree`.
2. An establishment episode or an attempt that raises for a reason of its own (`thread.start()` failing), and
   a deadline for a whole call of `AdbServiceClient`, once the code or a document says what should happen.
