-------------------------- MODULE ConfiguredTransport --------------------------
(***************************************************************************)
(* AdbConfiguredTransportSupervisor (adb/supervision/                      *)
(* configured_transport.py): the registrations of configured transports,   *)
(* the inventory snapshots projected into them and the recovery threads    *)
(* launched when one is absent.                                            *)
(*                                                                         *)
(* A step is one `with self._lock` block, one call to the observer, the    *)
(* snapshot reader, the preparation or the bus, or one thread operation.   *)
(* A snapshot is the number of an inventory version, so that an old one    *)
(* can be told from a new one; what it says of a serial is whether the     *)
(* serial is ABSENT or listed (RESOLVED or AMBIGUOUS).                     *)
(***************************************************************************)
EXTENDS Integers, Sequences

CONSTANTS
  Serials,           \* the serials that get registered
  Callers,           \* application threads
  Tracker,           \* the thread on which the observer's signals are handled
  Workers,           \* bound: recovery threads, reused once they have ended
  NoThread,
  MaxVersion,        \* bound: inventory versions
  MaxGeneration,     \* bound: observation sessions
  MaxRegistrations,  \* bound: register() calls of a serial
  PublishMayRaise    \* EventBus.publish may raise

Threads == Callers \cup {Tracker} \cup Workers

ASSUME ThreadsAssumption ==
  /\ Callers \cap Workers = {}
  /\ Tracker \notin Callers \cup Workers
  /\ NoThread \notin Threads
ASSUME BoundsAssumption ==
  /\ MaxVersion \in Nat \ {0}
  /\ MaxGeneration \in Nat
  /\ MaxRegistrations \in Nat
  /\ PublishMayRaise \in BOOLEAN

VARIABLES
  inventory,      \* the server's device list, version by version
  generation,     \* observation sessions so far
  session,        \* observation.active_session_id; 0: None
  announced,      \* the session whose Started has been handled
  delivered,      \* the version last delivered by the session's snapshots
  registrations,  \* _registrations, by serial
  registered,     \* register() calls so far, by serial
  subscribed,     \* _subscriptions is not empty: start() has been called
  closed,
  at,             \* at[t]: what thread t does next
  job,            \* job[t]: the locals of the call t is in
  owed,           \* absences observed less recoveries launched, per registration
  closing         \* what the close() that closed the supervisor has done so far

world == <<inventory, generation, session, announced, delivered>>
lifecycle == <<registered, subscribed, closed>>
vars == <<world, registrations, lifecycle, at, job, owed, closing>>

Inventories == [Serials -> {"absent", "listed"}]

\* _ConfiguredTransportRegistration.  Its resolution is the version it was resolved
\* from (0: None); `prepares` says that the policy has a preparation_policy.
Registrations ==
  [prepares : BOOLEAN, version : 0 .. MaxVersion, session : 0 .. MaxGeneration,
   attempted : BOOLEAN, thread : Workers \cup {NoThread}]
Unregistered == [prepares |-> FALSE, version |-> -1, session |-> 0,
                 attempted |-> FALSE, thread |-> NoThread]

Steps == {"idle", "read", "recheck", "apply", "publish", "launch", "spawn",
          "registered", "recover", "bind", "preparing", "judge", "exhausted", "finally",
          "join"}
Jobs == [scope : SUBSET Serials, session : 0 .. MaxGeneration,
         version : 0 .. MaxVersion, launches : SUBSET Serials,
         satisfied : BOOLEAN, over : BOOLEAN, workers : SUBSET Workers]
NoJob == [scope |-> {}, session |-> 0, version |-> 0, launches |-> {},
          satisfied |-> FALSE, over |-> FALSE, workers |-> {}]

(***************************************************************************)
(* Every variable stays in the set of values the code gives it.            *)
(***************************************************************************)
TypeOK ==
  /\ inventory \in Seq(Inventories)
  /\ generation \in 0 .. MaxGeneration
  /\ session \in {0, generation} /\ announced \in 0 .. generation
  /\ delivered \in 0 .. Len(inventory)
  /\ registrations \in [Serials -> Registrations \cup {Unregistered}]
  /\ registered \in [Serials -> 0 .. MaxRegistrations]
  /\ subscribed \in BOOLEAN /\ closed \in BOOLEAN
  /\ at \in [Threads -> Steps]
  /\ job \in [Threads -> Jobs]
  /\ owed \in [Serials -> Int]
  /\ closing \in {"no", "running", "returned", "raised"}

Init ==
  /\ inventory \in {<<i>> : i \in Inventories}
  /\ generation = 0 /\ session = 0 /\ announced = 0 /\ delivered = 0
  /\ registrations = [s \in Serials |-> Unregistered]
  /\ registered = [s \in Serials |-> 0]
  /\ subscribed = FALSE /\ closed = FALSE
  /\ at = [t \in Threads |-> "idle"]
  /\ job = [t \in Threads |-> NoJob]
  /\ owed = [s \in Serials |-> 0]
  /\ closing = "no"

-----------------------------------------------------------------------------
IsRegistered(s) == registrations[s] # Unregistered

\* resolve_configured_transport says ABSENT of version v.
AbsentIn(s, v) == v > 0 /\ inventory[v][s] = "absent"

Goto(t, step) == at' = [at EXCEPT ![t] = step]

Enter(t, locals, step) ==
  /\ Goto(t, step)
  /\ job' = [job EXCEPT ![t] = IF step = "idle" THEN NoJob ELSE locals]

\* The end of a call; a recovery thread still has its finally clause to run.
Finish(t) ==
  Enter(t, [job[t] EXCEPT !.over = TRUE],
        IF t \in Workers /\ ~job[t].over THEN "finally" ELSE "idle")

-----------------------------------------------------------------------------
(* The server and the observer, as the supervisor sees them.                 *)

InventoryChanges ==
  /\ Len(inventory) < MaxVersion
  /\ \E i \in Inventories : inventory' = Append(inventory, i)
  /\ UNCHANGED <<generation, session, announced, delivered, registrations, lifecycle,
                 at, job, owed, closing>>

\* A session becomes active, publishes Started, and ends after its last snapshot.
SessionBegins ==
  /\ session = 0 /\ at[Tracker] = "idle" /\ generation < MaxGeneration
  /\ generation' = generation + 1 /\ session' = generation + 1
  /\ delivered' = 0
  /\ UNCHANGED <<inventory, announced, registrations, lifecycle, at, job,
                 owed, closing>>

SessionEnds ==
  /\ session # 0 /\ at[Tracker] = "idle"
  /\ session' = 0
  /\ UNCHANGED <<inventory, generation, announced, delivered, registrations,
                 lifecycle, at, job, owed, closing>>

\* _on_observation_started: every registration starts afresh.
OnObservationStarted ==
  /\ session # announced /\ session # 0 /\ at[Tracker] = "idle"
  /\ announced' = session
  /\ registrations' =
       [s \in Serials |->
         IF IsRegistered(s) /\ ~closed
           THEN [registrations[s] EXCEPT !.version = 0, !.session = session,
                                         !.attempted = FALSE]
           ELSE registrations[s]]
  /\ UNCHANGED <<inventory, generation, session, delivered, lifecycle, at, job,
                 owed, closing>>

\* _on_snapshot_observed: the session's next snapshot; versions in between may have
\* been merged by the server.  Without a subscription nobody handles it.
OnSnapshotObserved ==
  /\ session = announced /\ session # 0 /\ at[Tracker] = "idle" /\ ~closed
  /\ \E v \in (delivered + 1) .. Len(inventory) :
       /\ delivered' = v
       /\ IF subscribed
            THEN Enter(Tracker, [NoJob EXCEPT !.scope = Serials, !.session = session,
                                              !.version = v], "apply")
            ELSE UNCHANGED <<at, job>>
  /\ UNCHANGED <<inventory, generation, session, announced, registrations, lifecycle,
                 owed, closing>>

-----------------------------------------------------------------------------
(* The public operations.                                                    *)

Start(t) ==
  /\ at[t] = "idle" /\ ~closed /\ ~subscribed
  /\ subscribed' = TRUE
  /\ UNCHANGED <<world, registrations, registered, closed, at, job, owed, closing>>

\* The registration, and the read of the active session that follows it.
Register(t, s, prepares) ==
  /\ at[t] = "idle" /\ ~closed /\ subscribed /\ ~IsRegistered(s)
  /\ registered[s] < MaxRegistrations
  /\ registered' = [registered EXCEPT ![s] = @ + 1]
  /\ registrations' = [registrations EXCEPT ![s] =
       [Unregistered EXCEPT !.prepares = prepares, !.version = 0]]
  /\ owed' = [owed EXCEPT ![s] = 0]
  /\ IF session = 0 THEN UNCHANGED <<at, job>>
     ELSE Enter(t, [NoJob EXCEPT !.scope = {s}, !.session = session], "read")
  /\ UNCHANGED <<world, subscribed, closed, closing>>

\* _project_fresh_snapshot: the query, which may fail, and the second look at the
\* active session.
ReadSnapshot(t) ==
  /\ at[t] = "read"
  /\ \/ Enter(t, [job[t] EXCEPT !.version = Len(inventory)], "recheck")
     \/ Finish(t)
  /\ UNCHANGED <<world, registrations, lifecycle, owed, closing>>

RecheckSession(t) ==
  /\ at[t] = "recheck"
  /\ IF session = job[t].session THEN Enter(t, job[t], "apply") ELSE Finish(t)
  /\ UNCHANGED <<world, registrations, lifecycle, owed, closing>>

Unregister(t, s) ==
  /\ at[t] = "idle" /\ IsRegistered(s)
  /\ registrations' = [registrations EXCEPT ![s] = Unregistered]
  /\ UNCHANGED <<world, lifecycle, at, job, owed, closing>>

Close(t) ==
  /\ at[t] = "idle" /\ ~closed
  /\ closed' = TRUE /\ subscribed' = FALSE /\ closing' = "running"
  /\ registrations' = [s \in Serials |-> Unregistered]
  /\ Enter(t, [NoJob EXCEPT !.workers =
                 {registrations[s].thread : s \in Serials} \ {NoThread}], "join")
  /\ UNCHANGED <<world, registered, owed>>

\* thread.join() on each of them: raises on a thread that has not been started.
Join(t) ==
  /\ at[t] = "join"
  /\ \/ /\ \E w \in job[t].workers :
             at[w] = "idle" /\ Enter(t, [job[t] EXCEPT !.workers = @ \ {w}], "join")
        /\ UNCHANGED closing
     \/ /\ \E w \in job[t].workers : at[w] = "registered"
        /\ Finish(t)
        /\ closing' = "raised"
     \/ /\ job[t].workers = {}
        /\ Finish(t)
        /\ closing' = "returned"
  /\ UNCHANGED <<world, registrations, lifecycle, owed>>

-----------------------------------------------------------------------------
(* _apply_snapshot.                                                          *)

\* Mutant: the resolution is filed under the session to come.
ProjectedAhead(s, g, v) ==
  [registrations[s] EXCEPT !.version = v, !.session = g + 1,
                           !.attempted = @ /\ AbsentIn(s, v)]

\* The registration of s in the light of version v of session g.
Projected(s, g, v) ==
  [registrations[s] EXCEPT !.version = v, !.session = g,
                           !.attempted = @ /\ AbsentIn(s, v)]

\* Mutant: a recovery is due again while the serial stays absent.
ShouldRecoverAgain(s, v) ==
  /\ AbsentIn(s, v)
  /\ registrations[s].prepares
  /\ registrations[s].thread = NoThread

ShouldRecover(s, v) ==
  /\ AbsentIn(s, v)
  /\ registrations[s].prepares /\ ~registrations[s].attempted
  /\ registrations[s].thread = NoThread

\* An absence begins for a registration when a snapshot finds absent what was
\* listed, unknown or seen by another session before.
AbsenceBegins(s, g, v) ==
  /\ AbsentIn(s, v)
  /\ registrations[s].session # g \/ ~AbsentIn(s, registrations[s].version)

ApplySnapshot(t) ==
  LET g == job[t].session
      v == job[t].version
      touched == {s \in job[t].scope : IsRegistered(s)}
      recoveries == {s \in touched : ShouldRecover(s, v)} IN
  /\ at[t] = "apply"
  /\ IF closed
       THEN Finish(t) /\ UNCHANGED <<registrations, owed>>
       ELSE /\ registrations' =
                 [s \in Serials |->
                   IF s \in recoveries
                     THEN [Projected(s, g, v) EXCEPT !.attempted = TRUE]
                   ELSE IF s \in touched THEN Projected(s, g, v)
                   ELSE registrations[s]]
            /\ owed' = [s \in Serials |->
                 IF s \in touched /\ AbsenceBegins(s, g, v) THEN owed[s] + 1 ELSE owed[s]]
            /\ Enter(t, [job[t] EXCEPT !.launches = recoveries], "publish")
  /\ UNCHANGED <<world, lifecycle, closing>>

\* The ResolutionChanged signals; a subscriber that raises cuts the rest short.
PublishChanges(t) ==
  /\ at[t] = "publish"
  /\ \/ Enter(t, job[t], "launch")
     \/ PublishMayRaise /\ Finish(t)
  /\ UNCHANGED <<world, registrations, lifecycle, owed, closing>>

\* _launch_recovery up to thread.start(), for the next serial to recover.
Launch(t) ==
  /\ at[t] = "launch"
  /\ IF job[t].launches = {}
       THEN Finish(t) /\ UNCHANGED <<registrations, owed>>
       ELSE \E s \in job[t].launches :
              IF IsRegistered(s) /\ ~closed /\ registrations[s].thread = NoThread
                THEN \E w \in Workers :
                       /\ at[w] = "idle"
                       /\ registrations' = [registrations EXCEPT ![s].thread = w]
                       /\ owed' = [owed EXCEPT ![s] = @ - 1]
                       /\ at' = [at EXCEPT ![t] = "spawn", ![w] = "registered"]
                       /\ job' = [job EXCEPT ![t].launches = @ \ {s},
                                             ![t].workers = {w},
                                             ![w] = [NoJob EXCEPT !.scope = {s}]]
                ELSE /\ Enter(t, [job[t] EXCEPT !.launches = @ \ {s}], "launch")
                     /\ UNCHANGED <<registrations, owed>>
  /\ UNCHANGED <<world, lifecycle, closing>>

Spawn(t) ==
  /\ at[t] = "spawn"
  /\ at' = [u \in Threads |-> IF u = t THEN "launch"
                              ELSE IF u \in job[t].workers THEN "recover" ELSE at[u]]
  /\ job' = [job EXCEPT ![t].workers = {}]
  /\ UNCHANGED <<world, registrations, lifecycle, owed, closing>>

-----------------------------------------------------------------------------
(* _run_recovery.                                                            *)

\* The registration is read under the lock; without one, or without a preparation
\* policy, there is nothing to recover.
BeginRecovery(w) ==
  /\ at[w] = "recover"
  /\ \A s \in job[w].scope :
       IF IsRegistered(s) /\ ~closed /\ registrations[s].prepares
         THEN Enter(w, job[w], "bind")
         ELSE Finish(w)
  /\ UNCHANGED <<world, registrations, lifecycle, owed, closing>>

\* prepare() binds to the session that is active by now, or raises when there is none.
BindPreparation(w) ==
  /\ at[w] = "bind"
  /\ IF session # 0
       THEN Enter(w, [job[w] EXCEPT !.session = session, !.version = delivered], "preparing")
       ELSE Finish(w)
  /\ UNCHANGED <<world, registrations, lifecycle, owed, closing>>

\* prepare() returns: satisfied by a snapshot of its episode that lists the serial,
\* or not; or it raises.
Prepared(w) ==
  /\ at[w] = "preparing"
  /\ \/ \E v \in job[w].version .. Len(inventory) :
          /\ v > 0 /\ \A s \in job[w].scope : ~AbsentIn(s, v)
          /\ Enter(w, [job[w] EXCEPT !.version = v, !.satisfied = TRUE], "judge")
     \/ Enter(w, [job[w] EXCEPT !.version = 0], "judge")
     \/ Finish(w)
  /\ UNCHANGED <<world, registrations, lifecycle, owed, closing>>

\* result_is_current.
Judge(w) ==
  /\ at[w] = "judge"
  /\ \A s \in job[w].scope :
       IF IsRegistered(s) /\ ~closed /\ registrations[s].session = job[w].session
         THEN Enter(w, job[w], IF job[w].satisfied THEN "apply" ELSE "exhausted")
         ELSE Finish(w)
  /\ UNCHANGED <<world, registrations, lifecycle, owed, closing>>

\* publish(RecoveryExhausted); whether it raises makes no difference.
PublishExhausted(w) ==
  /\ at[w] = "exhausted"
  /\ Finish(w)
  /\ UNCHANGED <<world, registrations, lifecycle, owed, closing>>

\* The registration has become absent again, unnoticed, while its recovery ran.
Relaunch(s) ==
  /\ ~closed /\ AbsentIn(s, registrations[s].version)
  /\ registrations[s].prepares /\ ~registrations[s].attempted

\* Mutants: the thread leaves its slot without looking; it does not leave it.
FinallyBlind(w) ==
  /\ at[w] = "finally"
  /\ \A s \in job[w].scope :
       /\ registrations' = [registrations EXCEPT ![s].thread =
                              IF @ = w THEN NoThread ELSE @]
       /\ Enter(w, NoJob, "idle")
  /\ UNCHANGED <<world, lifecycle, owed, closing>>

FinallyStuck(w) ==
  /\ at[w] = "finally"
  /\ Enter(w, NoJob, "idle")
  /\ UNCHANGED <<world, registrations, lifecycle, owed, closing>>

\* The finally clause: leave the slot, and launch the recovery that had to wait.
Finally(w) ==
  /\ at[w] = "finally"
  /\ \A s \in job[w].scope :
       IF registrations[s].thread # w
         THEN Enter(w, NoJob, "idle") /\ UNCHANGED registrations
         ELSE /\ registrations' = [registrations EXCEPT
                   ![s].thread = NoThread,
                   ![s].attempted = @ \/ Relaunch(s)]
              /\ Enter(w, [NoJob EXCEPT !.launches = {s}, !.over = TRUE],
                       IF Relaunch(s) THEN "launch" ELSE "idle")
  /\ UNCHANGED <<world, lifecycle, owed, closing>>

-----------------------------------------------------------------------------
Operation(t) ==
  \/ \E s \in Serials, prepares \in BOOLEAN : Register(t, s, prepares)
  \/ \E s \in Serials : Unregister(t, s)
  \/ Start(t) \/ Close(t)

Continue(t) ==
  \/ ReadSnapshot(t) \/ RecheckSession(t) \/ Join(t)
  \/ ApplySnapshot(t) \/ PublishChanges(t) \/ Launch(t) \/ Spawn(t)

Recovery(w) ==
  \/ BeginRecovery(w) \/ BindPreparation(w) \/ Prepared(w) \/ Judge(w)
  \/ PublishExhausted(w) \/ Finally(w)

Rest == (\A t \in Threads : at[t] = "idle") /\ UNCHANGED vars

Next ==
  \/ InventoryChanges \/ SessionBegins \/ SessionEnds
  \/ OnObservationStarted \/ OnSnapshotObserved
  \/ \E t \in Callers : Operation(t)
  \/ \E t \in Threads : Continue(t)
  \/ \E w \in Workers : Recovery(w)
  \/ Rest

Spec == Init /\ [][Next]_vars

-----------------------------------------------------------------------------
(* Properties.                                                               *)

\* A registration's recovery slot is held by a thread that is alive and recovers
\* this serial, so it is freed again whatever becomes of the recovery.
SlotHolderIsAlive ==
  \A s \in Serials :
    registrations[s].thread # NoThread =>
      /\ at[registrations[s].thread] # "idle"
      /\ job[registrations[s].thread].scope = {s}

\* No absence is forgotten: a registration that allows recovery, whose serial is
\* absent and which has no recovery thread, has had its recovery decided, even when
\* the absence began while the recovery of an earlier one was still running.
AbsenceIsAttempted ==
  \A s \in Serials :
    registrations[s].prepares /\ AbsentIn(s, registrations[s].version)
      => registrations[s].attempted \/ registrations[s].thread # NoThread

\* At most one recovery is launched for each absence observed: the supervisor never
\* retries a failed preparation by itself.
OneRecoveryPerAbsence == \A s \in Serials : owed[s] >= 0

\* The resolution is that of the inventory snapshots: with nothing under way, none
\* is older than the last snapshot the session has delivered.
ResolutionIsLatest ==
  (\A t \in Threads : at[t] = "idle") /\ session # 0 /\ session = announced =>
    \A s \in Serials :
      registrations[s].version > 0 => registrations[s].version >= delivered

=============================================================================
