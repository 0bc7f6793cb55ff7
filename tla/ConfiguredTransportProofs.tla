----------------------- MODULE ConfiguredTransportProofs -----------------------
(***************************************************************************)
(* What the registrations of configured transports can rely on, for all    *)
(* sets of serials, callers and recovery threads, and all numbers of       *)
(* inventory versions, sessions and registrations.                         *)
(***************************************************************************)
EXTENDS ConfiguredTransport, FiniteSets, FiniteSetTheorems, TLAPS

(***************************************************************************)
(* The inductive invariant.                                                *)
(***************************************************************************)

\* Whatever refers to an inventory version refers to one that exists.
VersionsExist ==
  /\ Len(inventory) \in 1 .. MaxVersion
  /\ \A s \in Serials : registrations[s].version <= Len(inventory)
  /\ \A t \in Threads : job[t].version <= Len(inventory)

\* Thread w runs a recovery, and not what its finally clause has launched.
Recovering(w) == at[w] # "idle" /\ ~(job[w].over /\ at[w] \in {"launch", "spawn"})

\* A recovery is of one serial, and over only in its finally clause and after.
RecoveriesAreBound ==
  \A w \in Workers :
    /\ Recovering(w) => \E s \in Serials : job[w].scope = {s}
    /\ job[w].over => at[w] \in {"finally", "launch", "spawn"}

\* A thread that is about to start another one is the only one to do so.
SpawnersOwnWorkers ==
  \A t \in Threads : at[t] = "spawn" =>
    \A w \in job[t].workers :
      /\ at[w] = "registered"
      /\ \A u \in Threads : at[u] = "spawn" /\ w \in job[u].workers => u = t

\* The holder of a slot recovers its serial and is not done.
SlotsAreHeld ==
  \A s \in Serials : registrations[s].thread # NoThread =>
    /\ Recovering(registrations[s].thread)
    /\ job[registrations[s].thread].scope = {s}

\* Nothing is registered with a closed supervisor.
ClosedIsEmpty == closed => \A s \in Serials : ~IsRegistered(s)

\* The invariant, by what its conjuncts speak of.
WorldInv ==
  /\ inventory \in Seq(Inventories)
  /\ generation \in 0 .. MaxGeneration
  /\ session \in {0, generation} /\ announced \in 0 .. generation
  /\ delivered \in 0 .. Len(inventory)
  /\ registered \in [Serials -> 0 .. MaxRegistrations]
  /\ subscribed \in BOOLEAN /\ closed \in BOOLEAN
  /\ owed \in [Serials -> Int]
  /\ closing \in {"no", "running", "returned", "raised"}

RegistrationsInv ==
  /\ registrations \in [Serials -> Registrations \cup {Unregistered}]
  /\ AbsenceIsAttempted
  /\ ClosedIsEmpty

ThreadsInv ==
  /\ at \in [Threads -> Steps] /\ job \in [Threads -> Jobs]
  /\ RecoveriesAreBound /\ SpawnersOwnWorkers /\ SlotsAreHeld

TransportInv == WorldInv /\ VersionsExist /\ RegistrationsInv /\ ThreadsInv

\* The threads that have a recovery of s to launch, and whether one of an absence of
\* s has yet to be decided.
Waiting(s) == {t \in Threads : s \in job[t].launches}
Undecided(s) ==
  /\ AbsentIn(s, registrations[s].version)
  /\ registrations[s].prepares /\ ~registrations[s].attempted

\* Each absence observed of s covers at most one of them.
Covered(s) ==
  /\ IsFiniteSet(Waiting(s))
  /\ owed[s] >= Cardinality(Waiting(s)) + (IF Undecided(s) THEN 1 ELSE 0)

\* A serial that is registered for the first time finds nothing of an earlier life.
RecoveriesCovered ==
  \A s \in Serials :
    /\ registered[s] = 0 => ~IsRegistered(s) /\ Waiting(s) = {}
    /\ registered[s] <= 1 => Covered(s)
-----------------------------------------------------------------------------
(***************************************************************************)
(* Lemmas about the threads.                                               *)
(***************************************************************************)

LEMMA JobsOfThreads ==
  ASSUME TransportInv, NEW t \in Threads
  PROVE  /\ at[t] \in Steps /\ job[t] \in Jobs
         /\ job[t].scope \subseteq Serials /\ job[t].launches \subseteq Serials /\ job[t].workers \subseteq Workers
         /\ job[t].session \in 0 .. MaxGeneration /\ job[t].version \in 0 .. MaxVersion
         /\ job[t].satisfied \in BOOLEAN /\ job[t].over \in BOOLEAN
         /\ job[t].version <= Len(inventory)
BY DEF TransportInv, ThreadsInv, VersionsExist, Jobs

LEMMA NoJobIsAJob == NoJob \in Jobs /\ NoJob.over = FALSE /\ NoJob.version = 0 /\ NoJob.scope = {}
BY BoundsAssumption DEF Jobs, NoJob

\* A slot is empty or held by a recovery thread.
LEMMA SlotsOfSerials ==
  ASSUME TransportInv, NEW s \in Serials
  PROVE  /\ registrations[s] \in Registrations \cup {Unregistered}
         /\ registrations[s].thread \in Workers \cup {NoThread}
         /\ registrations[s].version \in Int
BY DEF TransportInv, RegistrationsInv, Registrations, Unregistered

\* A registration that another session starts afresh.
Renewed(r, g) == [r EXCEPT !.version = 0, !.session = g, !.attempted = FALSE]

LEMMA RegistrationRenewed ==
  ASSUME NEW r \in Registrations, NEW g \in 0 .. MaxGeneration
  PROVE  /\ Renewed(r, g) \in Registrations /\ Renewed(r, g).version = 0
         /\ Renewed(r, g).thread = r.thread
<1>1. 0 \in 0 .. MaxVersion
  BY BoundsAssumption
<1> QED
  BY <1>1 DEF Registrations, Renewed

\* register() makes a registration of the empty one.
LEMMA RegistrationMade ==
  ASSUME NEW prepares \in BOOLEAN
  PROVE  [Unregistered EXCEPT !.prepares = prepares, !.version = 0] \in Registrations
<1> DEFINE Blank == [prepares : BOOLEAN, version : Int, session : 0 .. MaxGeneration,
                     attempted : BOOLEAN, thread : Workers \cup {NoThread}]
<1>1. Unregistered \in Blank
  BY BoundsAssumption DEF Unregistered
<1>2. 0 \in 0 .. MaxVersion
  BY BoundsAssumption
<1>3. ASSUME NEW p \in BOOLEAN, NEW v \in 0 .. MaxVersion, NEW r \in Blank, NEW new,
             new = [r EXCEPT !.prepares = p, !.version = v]
      PROVE  new \in Registrations
  BY <1>3 DEF Registrations
<1> HIDE DEF Blank
<1> QED
  BY <1>1, <1>2, <1>3

\* A registration whose recovery has ended.
Vacated(r, a) == [r EXCEPT !.thread = NoThread, !.attempted = a]

LEMMA SlotVacated ==
  ASSUME NEW r \in Registrations, NEW a \in BOOLEAN
  PROVE  /\ Vacated(r, a) \in Registrations /\ Vacated(r, a).thread = NoThread
         /\ Vacated(r, a).version = r.version /\ Vacated(r, a).prepares = r.prepares
         /\ Vacated(r, a).attempted = a
<1>1. ASSUME NEW new, new = [r EXCEPT !.thread = NoThread, !.attempted = a]
      PROVE  /\ new \in Registrations /\ new.thread = NoThread /\ new.version = r.version
             /\ new.prepares = r.prepares /\ new.attempted = a
  BY <1>1 DEF Registrations
<1> QED
  BY <1>1 DEF Vacated

LEMMA UnregisteredIsEmpty ==
  /\ Unregistered.thread = NoThread /\ Unregistered.version = -1
  /\ ~Unregistered.prepares /\ Unregistered \notin Registrations
BY BoundsAssumption DEF Unregistered, Registrations

\* A thread takes a step that neither begins nor ends a recovery, ends one, or ends
\* what came after it; slots may be left.
LEMMA ThreadMoves ==
  ASSUME TransportInv, NEW t \in Threads, at[t] \notin {"finally", "spawn", "registered"},
         NEW step \in Steps \ {"spawn", "registered"}, NEW locals \in Jobs,
         at' = [at EXCEPT ![t] = step], job' = [job EXCEPT ![t] = locals],
         \A s \in Serials : registrations'[s].thread \in {registrations[s].thread, NoThread},
         t \in Workers =>
           \/ /\ at[t] # "idle" /\ step \notin {"idle", "finally"} /\ (job[t].over => step = "launch")
              /\ locals.scope = job[t].scope /\ locals.over = job[t].over
           \/ at[t] # "idle" /\ step = "finally" /\ ~job[t].over /\ locals.scope = job[t].scope
           \/ at[t] # "idle" /\ step = "idle" /\ job[t].over /\ ~locals.over
  PROVE  ThreadsInv'
<1> USE ThreadsAssumption
<1>1. /\ at \in [Threads -> Steps] /\ job \in [Threads -> Jobs] /\ Workers \subseteq Threads
      /\ at' \in [Threads -> Steps] /\ job' \in [Threads -> Jobs]
      /\ at'[t] = step /\ job'[t] = locals
      /\ \A u \in Threads : u # t => at'[u] = at[u] /\ job'[u] = job[u]
  BY DEF TransportInv, ThreadsInv, Threads
<1>2. /\ \A w \in Workers : w # t => (Recovering(w)' <=> Recovering(w))
      /\ t \in Workers => (Recovering(t)' <=> Recovering(t)) /\ (Recovering(t) => locals.scope = job[t].scope)
  BY <1>1 DEF Recovering, TransportInv, ThreadsInv, RecoveriesAreBound
<1>3. RecoveriesAreBound'
  BY <1>1, <1>2 DEF TransportInv, ThreadsInv, RecoveriesAreBound
<1>4. SpawnersOwnWorkers'
  BY <1>1 DEF TransportInv, ThreadsInv, SpawnersOwnWorkers, Jobs
<1>5. SlotsAreHeld'
  <2>1. ASSUME NEW s \in Serials, registrations'[s].thread # NoThread
        PROVE  Recovering(registrations[s].thread)' /\ job'[registrations'[s].thread].scope = {s}
    <3>1. registrations'[s].thread = registrations[s].thread /\ registrations[s].thread \in Workers
      BY <2>1, SlotsOfSerials
    <3>2. Recovering(registrations[s].thread) /\ job[registrations[s].thread].scope = {s}
      BY <2>1, <3>1 DEF TransportInv, ThreadsInv, SlotsAreHeld
    <3> QED
      BY <1>1, <1>2, <3>1, <3>2 DEF Recovering
  <2> QED
    BY <2>1 DEF SlotsAreHeld
<1> QED
  BY <1>1, <1>3, <1>4, <1>5 DEF ThreadsInv

\* The next step of a call or of a recovery.
LEMMA EnterKeeps ==
  ASSUME TransportInv, NEW t \in Threads, at[t] \notin {"idle", "finally", "spawn", "registered"},
         NEW step \in Steps \ {"idle", "finally", "spawn", "registered"}, NEW locals \in Jobs,
         Enter(t, locals, step), at[t] = "launch" => step = "launch",
         locals.scope = job[t].scope, locals.over = job[t].over,
         \A s \in Serials : registrations'[s].thread \in {registrations[s].thread, NoThread}
  PROVE  ThreadsInv'
<1>1. at' = [at EXCEPT ![t] = step] /\ job' = [job EXCEPT ![t] = locals]
  BY DEF Enter, Goto
<1>2. t \in Workers => (job[t].over => step = "launch")
  BY DEF TransportInv, ThreadsInv, RecoveriesAreBound
<1> QED
  BY <1>1, <1>2, ThreadMoves

\* The end of a call, of a recovery up to its finally clause, or of what followed it.
LEMMA FinishKeeps ==
  ASSUME TransportInv, NEW t \in Threads, at[t] \notin {"idle", "finally", "spawn", "registered"},
         Finish(t),
         \A s \in Serials : registrations'[s].thread \in {registrations[s].thread, NoThread}
  PROVE  ThreadsInv' /\ \A u \in Threads : job'[u].version \in {0, job[u].version}
<1> DEFINE step == IF t \in Workers /\ ~job[t].over THEN "finally" ELSE "idle"
           over == [job[t] EXCEPT !.over = TRUE]
           locals == IF step = "idle" THEN NoJob ELSE over
<1>1. at' = [at EXCEPT ![t] = step] /\ job' = [job EXCEPT ![t] = locals]
  BY DEF Finish, Enter, Goto
<1>2. /\ job[t] \in Jobs /\ over \in Jobs /\ over.scope = job[t].scope /\ over.version = job[t].version
      /\ NoJob \in Jobs /\ NoJob.over = FALSE /\ NoJob.version = 0
  <2>1. over \in Jobs /\ over.scope = job[t].scope /\ over.version = job[t].version
    BY JobsOfThreads DEF Jobs
  <2> QED
    BY <2>1, NoJobIsAJob, JobsOfThreads
<1>3. step \in Steps \ {"spawn", "registered"} /\ locals \in Jobs
  BY <1>2 DEF Steps
<1>4. t \in Workers =>
        \/ at[t] # "idle" /\ step = "finally" /\ ~job[t].over /\ locals.scope = job[t].scope
        \/ at[t] # "idle" /\ step = "idle" /\ job[t].over /\ ~locals.over
  BY <1>2
<1>5. locals.version \in {0, job[t].version}
  BY <1>2
<1> HIDE DEF step, locals
<1>6. ThreadsInv'
  BY <1>1, <1>3, <1>4, ThreadMoves
<1> QED
  BY <1>1, <1>5, <1>6 DEF TransportInv, ThreadsInv

LEMMA ThreadsStay ==
  ASSUME TransportInv, UNCHANGED <<at, job>>,
         \A s \in Serials : registrations'[s].thread \in {registrations[s].thread, NoThread}
  PROVE  ThreadsInv'
<1>1. SlotsAreHeld'
  <2>1. ASSUME NEW s \in Serials, registrations'[s].thread # NoThread
        PROVE  Recovering(registrations[s].thread)' /\ job'[registrations'[s].thread].scope = {s}
    <3>1. registrations'[s].thread = registrations[s].thread
      BY <2>1
    <3> QED
      BY <2>1, <3>1 DEF TransportInv, ThreadsInv, SlotsAreHeld, Recovering
  <2> QED
    BY <2>1 DEF SlotsAreHeld
<1> QED
  BY <1>1 DEF TransportInv, ThreadsInv, RecoveriesAreBound, Recovering, SpawnersOwnWorkers

\* Registrations nobody touches, before an inventory nobody changes.
LEMMA RegistrationsStay ==
  TransportInv /\ UNCHANGED <<inventory, registrations, closed>> => RegistrationsInv'
BY DEF TransportInv, RegistrationsInv, AbsenceIsAttempted, AbsentIn, ClosedIsEmpty, IsRegistered

\* A step that concerns only the threads.
LEMMA OnlyThreadsMove ==
  ASSUME TransportInv, UNCHANGED <<world, registrations, lifecycle, owed>>,
         closing' \in {"no", "running", "returned", "raised"},
         ThreadsInv', \A u \in Threads : job'[u].version <= Len(inventory)
  PROVE  TransportInv'
<1>1. UNCHANGED <<inventory, generation, session, announced, delivered, registered, subscribed, closed>>
  BY DEF world, lifecycle
<1>2. WorldInv' /\ VersionsExist'
  BY <1>1 DEF TransportInv, WorldInv, VersionsExist
<1>3. RegistrationsInv'
  BY <1>1, RegistrationsStay
<1> QED
  BY <1>2, <1>3 DEF TransportInv

\* The same, when the thread goes on to `step` or is done.
LEMMA OnlyOneThreadMoves ==
  ASSUME TransportInv, UNCHANGED <<world, registrations, lifecycle, owed>>,
         closing' \in {"no", "running", "returned", "raised"},
         NEW t \in Threads, at[t] \notin {"idle", "finally", "spawn", "registered"},
         \/ Finish(t)
         \/ \E step \in Steps \ {"idle", "finally", "spawn", "registered"}, locals \in Jobs :
              /\ Enter(t, locals, step) /\ (at[t] = "launch" => step = "launch")
              /\ locals.scope = job[t].scope /\ locals.over = job[t].over
              /\ locals.version <= Len(inventory)
  PROVE  TransportInv'
<1>1. \A s \in Serials : registrations'[s].thread \in {registrations[s].thread, NoThread}
  OBVIOUS
<1>2. CASE Finish(t)
  <2>1. ThreadsInv' /\ \A u \in Threads : job'[u].version \in {0, job[u].version}
    BY <1>1, <1>2, FinishKeeps
  <2>2. \A u \in Threads : job'[u].version <= Len(inventory)
    BY <2>1, JobsOfThreads DEF TransportInv, VersionsExist
  <2> QED
    BY <2>1, <2>2, OnlyThreadsMove
<1>3. ASSUME NEW step \in Steps \ {"idle", "finally", "spawn", "registered"}, NEW locals \in Jobs,
             Enter(t, locals, step), at[t] = "launch" => step = "launch",
             locals.scope = job[t].scope, locals.over = job[t].over, locals.version <= Len(inventory)
      PROVE  TransportInv'
  <2>1. ThreadsInv'
    BY <1>1, <1>3, EnterKeeps
  <2>2. \A u \in Threads : job'[u].version <= Len(inventory)
    BY <1>3 DEF Enter, Goto, TransportInv, ThreadsInv, VersionsExist
  <2> QED
    BY <2>1, <2>2, OnlyThreadsMove
<1> QED
  BY <1>2, <1>3
-----------------------------------------------------------------------------
(***************************************************************************)
(* The actions that leave the registrations alone.                         *)
(***************************************************************************)

LEMMA ReadSnapshotKeeps == ASSUME TransportInv, NEW t \in Threads, ReadSnapshot(t) PROVE TransportInv'
<1>1. /\ at[t] = "read" /\ UNCHANGED <<world, registrations, lifecycle, owed>>
      /\ closing' \in {"no", "running", "returned", "raised"}
      /\ Finish(t) \/ Enter(t, [job[t] EXCEPT !.version = Len(inventory)], "recheck")
  BY DEF ReadSnapshot, TransportInv, WorldInv
<1> DEFINE locals == [job[t] EXCEPT !.version = Len(inventory)]
<1>2. /\ locals \in Jobs /\ locals.scope = job[t].scope /\ locals.over = job[t].over
      /\ locals.version <= Len(inventory)
  BY JobsOfThreads DEF Jobs, TransportInv, VersionsExist
<1>3. "recheck" \in Steps \ {"idle", "finally", "spawn", "registered"}
  BY DEF Steps
<1> HIDE DEF locals
<1> QED
  BY <1>1, <1>2, <1>3, OnlyOneThreadMoves DEF locals

LEMMA RecheckSessionKeeps == ASSUME TransportInv, NEW t \in Threads, RecheckSession(t) PROVE TransportInv'
<1>1. /\ at[t] = "recheck" /\ UNCHANGED <<world, registrations, lifecycle, owed>>
      /\ closing' \in {"no", "running", "returned", "raised"}
      /\ Finish(t) \/ Enter(t, job[t], "apply")
  BY DEF RecheckSession, TransportInv, WorldInv
<1>2. job[t] \in Jobs /\ job[t].version <= Len(inventory) /\ "apply" \in Steps
  BY JobsOfThreads DEF Steps
<1> QED
  BY <1>1, <1>2, OnlyOneThreadMoves

LEMMA PublishChangesKeeps == ASSUME TransportInv, NEW t \in Threads, PublishChanges(t) PROVE TransportInv'
<1>1. /\ at[t] = "publish" /\ UNCHANGED <<world, registrations, lifecycle, owed>>
      /\ closing' \in {"no", "running", "returned", "raised"}
      /\ Finish(t) \/ Enter(t, job[t], "launch")
  BY DEF PublishChanges, TransportInv, WorldInv
<1>2. job[t] \in Jobs /\ job[t].version <= Len(inventory) /\ "launch" \in Steps
  BY JobsOfThreads DEF Steps
<1> QED
  BY <1>1, <1>2, OnlyOneThreadMoves

LEMMA JoinKeeps == ASSUME TransportInv, NEW t \in Threads, Join(t) PROVE TransportInv'
<1>1. /\ at[t] = "join" /\ UNCHANGED <<world, registrations, lifecycle, owed>>
      /\ closing' \in {"no", "running", "returned", "raised"}
      /\ Finish(t) \/ \E w \in job[t].workers : Enter(t, [job[t] EXCEPT !.workers = @ \ {w}], "join")
  BY DEF Join, TransportInv, WorldInv
<1>2. ASSUME NEW w \in job[t].workers, Enter(t, [job[t] EXCEPT !.workers = @ \ {w}], "join")
      PROVE  TransportInv'
  <2> DEFINE locals == [job[t] EXCEPT !.workers = @ \ {w}]
  <2>1. /\ locals \in Jobs /\ locals.scope = job[t].scope /\ locals.over = job[t].over
        /\ locals.version <= Len(inventory) /\ "join" \in Steps
    BY JobsOfThreads DEF Jobs, Steps
  <2> HIDE DEF locals
  <2> QED
    BY <1>1, <1>2, <2>1, OnlyOneThreadMoves DEF locals
<1> QED
  BY <1>1, <1>2, OnlyOneThreadMoves

\* A recovery that has not handed over yet knows the one serial it is for.
LEMMA SerialOfRecovery ==
  ASSUME TransportInv, NEW w \in Workers, at[w] \notin {"idle", "launch", "spawn"}
  PROVE  \E s \in Serials : job[w].scope = {s}
BY DEF TransportInv, ThreadsInv, RecoveriesAreBound, Recovering

LEMMA BeginRecoveryKeeps == ASSUME TransportInv, NEW w \in Workers, BeginRecovery(w) PROVE TransportInv'
<1>1. /\ at[w] = "recover" /\ w \in Threads /\ UNCHANGED <<world, registrations, lifecycle, owed>>
      /\ closing' \in {"no", "running", "returned", "raised"}
  BY DEF BeginRecovery, TransportInv, WorldInv, Threads
<1>2. Finish(w) \/ Enter(w, job[w], "bind")
  BY <1>1, SerialOfRecovery DEF BeginRecovery
<1>3. job[w] \in Jobs /\ job[w].version <= Len(inventory) /\ "bind" \in Steps
  BY <1>1, JobsOfThreads DEF Steps
<1> QED
  BY <1>1, <1>2, <1>3, OnlyOneThreadMoves

LEMMA BindPreparationKeeps == ASSUME TransportInv, NEW w \in Workers, BindPreparation(w) PROVE TransportInv'
<1>1. /\ at[w] = "bind" /\ w \in Threads /\ UNCHANGED <<world, registrations, lifecycle, owed>>
      /\ closing' \in {"no", "running", "returned", "raised"}
  BY DEF BindPreparation, TransportInv, WorldInv, Threads
<1> DEFINE locals == [job[w] EXCEPT !.session = session, !.version = delivered]
<1>2. Finish(w) \/ Enter(w, locals, "preparing")
  BY <1>1 DEF BindPreparation
<1>3. session \in 0 .. MaxGeneration /\ delivered \in 0 .. MaxVersion /\ delivered <= Len(inventory)
  BY BoundsAssumption DEF TransportInv, WorldInv, VersionsExist
<1>4. /\ locals \in Jobs /\ locals.scope = job[w].scope /\ locals.over = job[w].over
      /\ locals.version = delivered
  BY <1>1, <1>3, JobsOfThreads DEF Jobs
<1>5. "preparing" \in Steps \ {"idle", "finally", "spawn", "registered"}
  BY DEF Steps
<1> HIDE DEF locals
<1> QED
  BY <1>1, <1>2, <1>3, <1>4, <1>5, OnlyOneThreadMoves

LEMMA PreparedKeeps == ASSUME TransportInv, NEW w \in Workers, Prepared(w) PROVE TransportInv'
<1>1. /\ at[w] = "preparing" /\ w \in Threads /\ UNCHANGED <<world, registrations, lifecycle, owed>>
      /\ closing' \in {"no", "running", "returned", "raised"}
  BY DEF Prepared, TransportInv, WorldInv, Threads
<1>2. "judge" \in Steps \ {"idle", "finally", "spawn", "registered"}
  BY DEF Steps
<1>3. job[w] \in Jobs /\ Len(inventory) \in 1 .. MaxVersion /\ job[w].version \in Nat
  BY <1>1, JobsOfThreads, BoundsAssumption DEF TransportInv, VersionsExist
<1>4. ASSUME NEW v \in job[w].version .. Len(inventory),
             Enter(w, [job[w] EXCEPT !.version = v, !.satisfied = TRUE], "judge")
      PROVE  TransportInv'
  <2> DEFINE locals == [job[w] EXCEPT !.version = v, !.satisfied = TRUE]
  <2>1. v \in 0 .. MaxVersion /\ v <= Len(inventory)
    BY <1>3, BoundsAssumption
  <2>2. /\ locals \in Jobs /\ locals.scope = job[w].scope /\ locals.over = job[w].over
        /\ locals.version = v
    BY <1>3, <2>1 DEF Jobs
  <2> HIDE DEF locals
  <2> QED
    BY <1>1, <1>2, <1>4, <2>1, <2>2, OnlyOneThreadMoves DEF locals
<1>5. ASSUME Enter(w, [job[w] EXCEPT !.version = 0], "judge")
      PROVE  TransportInv'
  <2> DEFINE locals == [job[w] EXCEPT !.version = 0]
  <2>1. 0 \in 0 .. MaxVersion /\ 0 <= Len(inventory)
    BY <1>3, BoundsAssumption
  <2>2. /\ locals \in Jobs /\ locals.scope = job[w].scope /\ locals.over = job[w].over
        /\ locals.version = 0
    BY <1>3, <2>1 DEF Jobs
  <2> HIDE DEF locals
  <2> QED
    BY <1>1, <1>2, <1>5, <2>1, <2>2, OnlyOneThreadMoves DEF locals
<1>6. CASE Finish(w)
  BY <1>1, <1>6, OnlyOneThreadMoves
<1> QED
  BY <1>4, <1>5, <1>6 DEF Prepared

LEMMA JudgeKeeps == ASSUME TransportInv, NEW w \in Workers, Judge(w) PROVE TransportInv'
<1>1. /\ at[w] = "judge" /\ w \in Threads /\ UNCHANGED <<world, registrations, lifecycle, owed>>
      /\ closing' \in {"no", "running", "returned", "raised"}
  BY DEF Judge, TransportInv, WorldInv, Threads
<1>2. \/ Finish(w) \/ Enter(w, job[w], "apply") \/ Enter(w, job[w], "exhausted")
  BY <1>1, SerialOfRecovery DEF Judge
<1>3. job[w] \in Jobs /\ job[w].version <= Len(inventory) /\ "apply" \in Steps /\ "exhausted" \in Steps
  BY <1>1, JobsOfThreads DEF Steps
<1> QED
  BY <1>1, <1>2, <1>3, OnlyOneThreadMoves

LEMMA PublishExhaustedKeeps == ASSUME TransportInv, NEW w \in Workers, PublishExhausted(w) PROVE TransportInv'
<1>1. /\ at[w] = "exhausted" /\ w \in Threads /\ UNCHANGED <<world, registrations, lifecycle, owed>>
      /\ closing' \in {"no", "running", "returned", "raised"} /\ Finish(w)
  BY DEF PublishExhausted, TransportInv, WorldInv, Threads
<1> QED
  BY <1>1, OnlyOneThreadMoves
-----------------------------------------------------------------------------
(***************************************************************************)
(* The actions of the server and of the observer.                          *)
(***************************************************************************)

\* An older version keeps saying what it said.
LEMMA InventoryChangesKeeps == ASSUME TransportInv, InventoryChanges PROVE TransportInv'
<1> USE BoundsAssumption
<1>1. PICK i \in Inventories : inventory' = Append(inventory, i)
  BY DEF InventoryChanges
<1>2. /\ Len(inventory) < MaxVersion
      /\ UNCHANGED <<generation, session, announced, delivered, registrations, registered,
                     subscribed, closed, at, job, owed, closing>>
  BY DEF InventoryChanges, lifecycle
<1>3. /\ inventory \in Seq(Inventories) /\ inventory' \in Seq(Inventories)
      /\ Len(inventory) \in 1 .. MaxVersion /\ Len(inventory') = Len(inventory) + 1
      /\ \A v \in 1 .. Len(inventory) : inventory'[v] = inventory[v]
  BY <1>1 DEF TransportInv, WorldInv, VersionsExist
<1>4. WorldInv'
  BY <1>2, <1>3 DEF TransportInv, WorldInv
<1>5. VersionsExist'
  <2>1. \A s \in Serials : registrations'[s].version <= Len(inventory')
    BY <1>2, <1>3, SlotsOfSerials DEF TransportInv, VersionsExist
  <2>2. \A t \in Threads : job'[t].version <= Len(inventory')
    BY <1>2, <1>3, JobsOfThreads
  <2> QED
    BY <1>2, <1>3, <2>1, <2>2 DEF VersionsExist
<1>6. RegistrationsInv'
  <2>1. ASSUME NEW s \in Serials
        PROVE  AbsentIn(s, registrations[s].version)' <=> AbsentIn(s, registrations[s].version)
    <3>1. registrations[s].version \in Int /\ registrations[s].version <= Len(inventory)
      BY SlotsOfSerials DEF TransportInv, VersionsExist
    <3>2. registrations[s].version > 0 => inventory'[registrations[s].version] = inventory[registrations[s].version]
      BY <1>3, <3>1
    <3> QED
      BY <1>2, <3>2 DEF AbsentIn
  <2> QED
    BY <1>2, <2>1 DEF TransportInv, RegistrationsInv, AbsenceIsAttempted, ClosedIsEmpty, IsRegistered
<1>7. ThreadsInv'
  BY <1>2, ThreadsStay
<1> QED
  BY <1>4, <1>5, <1>6, <1>7 DEF TransportInv

\* A step of the observer, or start(), that concerns only its own variables.
LEMMA OnlyTheWorldMoves ==
  ASSUME TransportInv, UNCHANGED <<inventory, registrations, closed, at, job>>, WorldInv'
  PROVE  TransportInv'
<1>1. VersionsExist'
  BY DEF TransportInv, VersionsExist
<1>2. ThreadsInv'
  BY ThreadsStay
<1> QED
  BY <1>1, <1>2, RegistrationsStay DEF TransportInv

LEMMA SessionsAndStartKeep ==
  ASSUME TransportInv, SessionBegins \/ SessionEnds \/ \E t \in Callers : Start(t)
  PROVE  TransportInv'
<1> USE BoundsAssumption
<1>1. CASE SessionBegins
  <2>1. WorldInv'
    BY <1>1 DEF SessionBegins, lifecycle, TransportInv, WorldInv
  <2> QED
    BY <1>1, <2>1, OnlyTheWorldMoves DEF SessionBegins, lifecycle
<1>2. CASE SessionEnds
  <2>1. WorldInv'
    BY <1>2 DEF SessionEnds, lifecycle, TransportInv, WorldInv
  <2> QED
    BY <1>2, <2>1, OnlyTheWorldMoves DEF SessionEnds, lifecycle
<1>3. CASE \E t \in Callers : Start(t)
  <2>1. WorldInv'
    BY <1>3 DEF Start, world, TransportInv, WorldInv
  <2> QED
    BY <1>3, <2>1, OnlyTheWorldMoves DEF Start, world
<1> QED
  BY <1>1, <1>2, <1>3

\* Every registration starts afresh: it knows of no absence, and keeps its slot.
LEMMA OnObservationStartedKeeps == ASSUME TransportInv, OnObservationStarted PROVE TransportInv'
<1> USE BoundsAssumption
<1>1. /\ UNCHANGED <<inventory, generation, session, delivered, registered, subscribed, closed,
                     at, job, owed, closing>>
      /\ announced' = session
  BY DEF OnObservationStarted, lifecycle
<1>2. WorldInv'
  BY <1>1 DEF TransportInv, WorldInv
<1>3. session \in 0 .. MaxGeneration
  BY DEF TransportInv, WorldInv
<1>4. ASSUME NEW s \in Serials
      PROVE  /\ registrations'[s] \in Registrations \cup {Unregistered}
             /\ registrations'[s].thread = registrations[s].thread
             /\ \/ registrations'[s] = registrations[s]
                \/ registrations'[s].version = 0 /\ IsRegistered(s) /\ ~closed
  <2>1. CASE IsRegistered(s) /\ ~closed
    <3>1. registrations'[s] = Renewed(registrations[s], session)
      BY <2>1 DEF OnObservationStarted, Renewed
    <3>2. registrations[s] \in Registrations
      BY <2>1, SlotsOfSerials DEF IsRegistered
    <3>3. /\ registrations'[s] \in Registrations /\ registrations'[s].version = 0
          /\ registrations'[s].thread = registrations[s].thread
      BY <1>3, <3>1, <3>2, RegistrationRenewed
    <3> QED
      BY <2>1, <3>3
  <2>2. CASE ~(IsRegistered(s) /\ ~closed)
    BY <2>2, SlotsOfSerials DEF OnObservationStarted
  <2> QED
    BY <2>1, <2>2
<1>5. VersionsExist'
  BY <1>1, <1>4 DEF TransportInv, VersionsExist
<1>6. RegistrationsInv'
  <2>1. registrations' \in [Serials -> Registrations \cup {Unregistered}]
    BY <1>4 DEF OnObservationStarted
  <2>2. AbsenceIsAttempted'
    BY <1>1, <1>4 DEF TransportInv, RegistrationsInv, AbsenceIsAttempted, AbsentIn
  <2>3. ClosedIsEmpty'
    BY <1>1, <1>4 DEF TransportInv, RegistrationsInv, ClosedIsEmpty, IsRegistered
  <2> QED
    BY <2>1, <2>2, <2>3 DEF RegistrationsInv
<1>7. ThreadsInv'
  BY <1>1, <1>4, ThreadsStay
<1> QED
  BY <1>2, <1>5, <1>6, <1>7 DEF TransportInv

\* A thread that is not a recovery thread enters a call.
LEMMA CallBegins ==
  ASSUME TransportInv, NEW t \in Threads \ Workers, at[t] = "idle",
         NEW step \in Steps \ {"idle", "spawn", "registered"}, NEW locals \in Jobs,
         Enter(t, locals, step), locals.version <= Len(inventory),
         \A s \in Serials : registrations'[s].thread \in {registrations[s].thread, NoThread}
  PROVE  ThreadsInv' /\ \A u \in Threads : job'[u].version <= Len(inventory)
<1>1. at' = [at EXCEPT ![t] = step] /\ job' = [job EXCEPT ![t] = locals]
  BY DEF Enter, Goto
<1>2. ThreadsInv'
  BY <1>1, ThreadMoves
<1> QED
  BY <1>1, <1>2, JobsOfThreads DEF TransportInv, ThreadsInv

LEMMA OnSnapshotObservedKeeps == ASSUME TransportInv, OnSnapshotObserved PROVE TransportInv'
<1> USE BoundsAssumption
<1>1. /\ UNCHANGED <<inventory, generation, session, announced, registrations, registered,
                     subscribed, closed, owed, closing>>
      /\ at[Tracker] = "idle"
  BY DEF OnSnapshotObserved, lifecycle
<1>2. PICK v \in (delivered + 1) .. Len(inventory) :
        /\ delivered' = v
        /\ \/ Enter(Tracker, [NoJob EXCEPT !.scope = Serials, !.session = session,
                                            !.version = v], "apply")
           \/ UNCHANGED <<at, job>>
  BY DEF OnSnapshotObserved
<1>3. v \in 0 .. Len(inventory) /\ v \in 0 .. MaxVersion /\ v <= Len(inventory) /\ session \in 0 .. MaxGeneration
  BY DEF TransportInv, WorldInv, VersionsExist
<1>4. WorldInv'
  BY <1>1, <1>2, <1>3 DEF TransportInv, WorldInv
<1> DEFINE locals == [NoJob EXCEPT !.scope = Serials, !.session = session, !.version = v]
<1>5. locals \in Jobs /\ locals.version = v
  BY <1>3, NoJobIsAJob DEF Jobs
<1>6. Tracker \in Threads \ Workers
  BY ThreadsAssumption DEF Threads
<1>7. "apply" \in Steps \ {"idle", "spawn", "registered"}
  BY DEF Steps
<1> HIDE DEF locals
<1>8. ThreadsInv' /\ \A u \in Threads : job'[u].version <= Len(inventory)
  <2>1. CASE Enter(Tracker, locals, "apply")
    BY <1>1, <1>3, <1>5, <1>6, <1>7, <2>1, CallBegins
  <2>2. CASE UNCHANGED <<at, job>>
    BY <1>1, <2>2, ThreadsStay, JobsOfThreads
  <2> QED
    BY <1>2, <2>1, <2>2 DEF locals
<1>9. VersionsExist'
  BY <1>1, <1>8 DEF TransportInv, VersionsExist
<1> QED
  BY <1>1, <1>4, <1>8, <1>9, RegistrationsStay DEF TransportInv
-----------------------------------------------------------------------------
(***************************************************************************)
(* The public operations.                                                  *)
(***************************************************************************)

LEMMA RegisterKeeps ==
  ASSUME TransportInv, NEW t \in Callers, NEW r \in Serials, NEW prepares \in BOOLEAN,
         Register(t, r, prepares)
  PROVE  TransportInv'
<1> USE BoundsAssumption
<1> DEFINE new == [Unregistered EXCEPT !.prepares = prepares, !.version = 0]
           locals == [NoJob EXCEPT !.scope = {r}, !.session = session]
<1>1. /\ UNCHANGED <<inventory, generation, session, announced, delivered, subscribed, closed, closing>>
      /\ at[t] = "idle" /\ ~closed /\ registered[r] < MaxRegistrations
      /\ registered' = [registered EXCEPT ![r] = @ + 1]
      /\ registrations' = [registrations EXCEPT ![r] = new] /\ owed' = [owed EXCEPT ![r] = 0]
      /\ \/ UNCHANGED <<at, job>> \/ Enter(t, locals, "read")
  BY DEF Register, world
<1>2. new \in Registrations /\ new.version = 0 /\ new.thread = NoThread
  <2>1. new \in Registrations
    BY RegistrationMade
  <2>2. new.version = 0 /\ new.thread = NoThread
    BY DEF Unregistered
  <2> QED
    BY <2>1, <2>2
<1>3. WorldInv'
  BY <1>1 DEF TransportInv, WorldInv
<1>4. session \in 0 .. MaxGeneration /\ 0 <= Len(inventory)
  BY DEF TransportInv, WorldInv, VersionsExist
<1>5. locals \in Jobs /\ locals.version = 0
  BY <1>4, NoJobIsAJob DEF Jobs, NoJob
<1>6. t \in Threads \ Workers
  BY ThreadsAssumption DEF Threads
<1>7. "read" \in Steps \ {"idle", "spawn", "registered"}
  BY DEF Steps
<1> HIDE DEF new, locals
<1>8. /\ registrations' \in [Serials -> Registrations \cup {Unregistered}]
      /\ registrations'[r] = new
      /\ \A s \in Serials : s # r => registrations'[s] = registrations[s]
  BY <1>1, <1>2 DEF TransportInv, RegistrationsInv
<1>9. RegistrationsInv'
  <2>1. AbsenceIsAttempted'
    BY <1>1, <1>2, <1>8 DEF TransportInv, RegistrationsInv, AbsenceIsAttempted, AbsentIn
  <2> QED
    BY <1>1, <1>8, <2>1 DEF RegistrationsInv, ClosedIsEmpty
<1>10. \A s \in Serials : registrations'[s].thread \in {registrations[s].thread, NoThread}
  BY <1>2, <1>8
<1>11. ThreadsInv' /\ \A u \in Threads : job'[u].version <= Len(inventory)
  <2>1. CASE Enter(t, locals, "read")
    BY <1>1, <1>4, <1>5, <1>6, <1>7, <1>10, <2>1, CallBegins
  <2>2. CASE UNCHANGED <<at, job>>
    BY <1>10, <2>2, ThreadsStay, JobsOfThreads
  <2> QED
    BY <1>1, <2>1, <2>2
<1>12. VersionsExist'
  BY <1>1, <1>2, <1>4, <1>8, <1>11 DEF TransportInv, VersionsExist
<1> QED
  BY <1>3, <1>9, <1>11, <1>12 DEF TransportInv

LEMMA UnregisterKeeps ==
  ASSUME TransportInv, NEW t \in Callers, NEW r \in Serials, Unregister(t, r)
  PROVE  TransportInv'
<1>1. /\ UNCHANGED <<inventory, generation, session, announced, delivered, registered, subscribed,
                     closed, at, job, owed, closing>>
      /\ registrations' = [registrations EXCEPT ![r] = Unregistered]
  BY DEF Unregister, world, lifecycle
<1>2. WorldInv'
  BY <1>1 DEF TransportInv, WorldInv
<1>3. /\ registrations' \in [Serials -> Registrations \cup {Unregistered}]
      /\ registrations'[r] = Unregistered
      /\ \A s \in Serials : s # r => registrations'[s] = registrations[s]
  BY <1>1 DEF TransportInv, RegistrationsInv
<1>4. AbsenceIsAttempted'
  BY <1>1, <1>3, UnregisteredIsEmpty DEF TransportInv, RegistrationsInv, AbsenceIsAttempted, AbsentIn
<1>5. ClosedIsEmpty'
  BY <1>1, <1>3 DEF TransportInv, RegistrationsInv, ClosedIsEmpty, IsRegistered
<1>6. \A s \in Serials : registrations'[s].thread \in {registrations[s].thread, NoThread}
  BY <1>3, UnregisteredIsEmpty
<1>7. ThreadsInv'
  BY <1>1, <1>6, ThreadsStay
<1>8. VersionsExist'
  BY <1>1, <1>3, UnregisteredIsEmpty DEF TransportInv, VersionsExist
<1> QED
  BY <1>2, <1>3, <1>4, <1>5, <1>7, <1>8 DEF TransportInv, RegistrationsInv

LEMMA CloseKeeps == ASSUME TransportInv, NEW t \in Callers, Close(t) PROVE TransportInv'
<1> DEFINE locals == [NoJob EXCEPT !.workers =
                        {registrations[s].thread : s \in Serials} \ {NoThread}]
<1>1. /\ UNCHANGED <<inventory, generation, session, announced, delivered, registered, owed>>
      /\ at[t] = "idle" /\ closed' = TRUE /\ subscribed' = FALSE /\ closing' = "running"
      /\ registrations' = [s \in Serials |-> Unregistered]
      /\ Enter(t, locals, "join")
  BY DEF Close, world
<1>2. {registrations[s].thread : s \in Serials} \ {NoThread} \subseteq Workers
  BY SlotsOfSerials
<1>3. locals \in Jobs /\ locals.version = 0
  BY <1>2, NoJobIsAJob, BoundsAssumption DEF Jobs, NoJob
<1>4. t \in Threads \ Workers
  BY ThreadsAssumption DEF Threads
<1>5. "join" \in Steps \ {"idle", "spawn", "registered"}
  BY DEF Steps
<1>6. 0 <= Len(inventory)
  BY BoundsAssumption DEF TransportInv, VersionsExist
<1> HIDE DEF locals
<1>7. WorldInv'
  BY <1>1 DEF TransportInv, WorldInv
<1>8. \A s \in Serials : registrations'[s].thread \in {registrations[s].thread, NoThread}
  BY <1>1, UnregisteredIsEmpty
<1>9. ThreadsInv' /\ \A u \in Threads : job'[u].version <= Len(inventory)
  BY <1>1, <1>3, <1>4, <1>5, <1>6, <1>8, CallBegins
<1>10. VersionsExist'
  BY <1>1, <1>6, <1>9, UnregisteredIsEmpty DEF TransportInv, VersionsExist
<1>11. RegistrationsInv'
  BY <1>1, UnregisteredIsEmpty DEF RegistrationsInv, AbsenceIsAttempted, ClosedIsEmpty, IsRegistered
<1> QED
  BY <1>7, <1>9, <1>10, <1>11 DEF TransportInv
-----------------------------------------------------------------------------
(***************************************************************************)
(* The projection of a snapshot and the threads it launches.               *)
(***************************************************************************)

\* A snapshot leaves a registration its slot; whether an absence it finds has been
\* attempted is as before.
LEMMA ProjectionOf ==
  ASSUME NEW s \in Serials, registrations[s] \in Registrations,
         NEW g \in 0 .. MaxGeneration, NEW v \in 0 .. MaxVersion
  PROVE  /\ Projected(s, g, v) \in Registrations /\ Projected(s, g, v).version = v
         /\ Projected(s, g, v).prepares = registrations[s].prepares
         /\ Projected(s, g, v).thread = registrations[s].thread
         /\ Projected(s, g, v).attempted <=> registrations[s].attempted /\ AbsentIn(s, v)
<1> DEFINE still == registrations[s].attempted /\ AbsentIn(s, v)
<1>1. still \in BOOLEAN
  OBVIOUS
<1>2. Projected(s, g, v) = [registrations[s] EXCEPT !.version = v, !.session = g, !.attempted = still]
  BY DEF Projected
<1> HIDE DEF still
<1>3. ASSUME NEW r \in Registrations, NEW new,
             new = [r EXCEPT !.version = v, !.session = g, !.attempted = still]
      PROVE  /\ new \in Registrations /\ new.version = v /\ new.prepares = r.prepares
             /\ new.thread = r.thread /\ new.attempted = still
  BY <1>1, <1>3 DEF Registrations
<1> QED
  BY <1>2, <1>3 DEF still

LEMMA ProjectionAttempted ==
  ASSUME NEW r \in Registrations
  PROVE  /\ [r EXCEPT !.attempted = TRUE] \in Registrations
         /\ [r EXCEPT !.attempted = TRUE].attempted
         /\ [r EXCEPT !.attempted = TRUE].version = r.version
         /\ [r EXCEPT !.attempted = TRUE].thread = r.thread
BY DEF Registrations

\* What _apply_snapshot leaves of a registration: its absence is attempted, unless
\* its slot is taken, and its slot is as before.
LEMMA ApplySnapshotKeeps == ASSUME TransportInv, NEW t \in Threads, ApplySnapshot(t) PROVE TransportInv'
<1> USE BoundsAssumption
<1> DEFINE g == job[t].session
           v == job[t].version
           touched == {s \in job[t].scope : IsRegistered(s)}
           recoveries == {s \in touched : ShouldRecover(s, v)}
           locals == [job[t] EXCEPT !.launches = recoveries]
<1>1. /\ at[t] = "apply"
      /\ UNCHANGED <<inventory, generation, session, announced, delivered, registered, subscribed,
                     closed, closing>>
  BY DEF ApplySnapshot, world, lifecycle
<1>2. CASE closed
  <2>1. Finish(t) /\ UNCHANGED <<world, registrations, lifecycle, owed>>
    BY <1>2 DEF ApplySnapshot
  <2> QED
    BY <1>1, <2>1, OnlyOneThreadMoves DEF TransportInv, WorldInv
<1>3. CASE ~closed
  <2>1. /\ Enter(t, locals, "publish")
        /\ registrations' =
             [s \in Serials |->
               IF s \in recoveries THEN [Projected(s, g, v) EXCEPT !.attempted = TRUE]
               ELSE IF s \in touched THEN Projected(s, g, v)
               ELSE registrations[s]]
        /\ owed' = [s \in Serials |->
             IF s \in touched /\ AbsenceBegins(s, g, v) THEN owed[s] + 1 ELSE owed[s]]
    BY <1>3 DEF ApplySnapshot
  <2>2. /\ g \in 0 .. MaxGeneration /\ v \in 0 .. MaxVersion /\ v <= Len(inventory)
        /\ touched \subseteq Serials /\ recoveries \subseteq touched
    BY JobsOfThreads
  <2>3. /\ locals \in Jobs /\ locals.scope = job[t].scope /\ locals.over = job[t].over
        /\ locals.version = job[t].version
    <3>1. job[t] \in Jobs /\ recoveries \subseteq Serials
      BY <2>2, JobsOfThreads
    <3> HIDE DEF recoveries
    <3> QED
      BY <3>1 DEF Jobs
  <2>4. owed' \in [Serials -> Int]
    BY <2>1 DEF TransportInv, WorldInv
  <2>5. ASSUME NEW s \in Serials
        PROVE  /\ registrations'[s] \in Registrations \cup {Unregistered}
               /\ registrations'[s].thread = registrations[s].thread
               /\ registrations'[s].version \in {registrations[s].version, v}
               /\ \/ registrations'[s] = registrations[s]
                  \/ /\ registrations'[s].version = v
                     /\ AbsentIn(s, v) /\ registrations'[s].prepares
                          => registrations'[s].attempted \/ registrations'[s].thread # NoThread
    <3>1. CASE s \in recoveries
      <4>1. registrations[s] \in Registrations
        BY <2>2, <3>1, SlotsOfSerials DEF IsRegistered
      <4>2. registrations'[s] = [Projected(s, g, v) EXCEPT !.attempted = TRUE]
        BY <2>1, <3>1
      <4>3. /\ Projected(s, g, v) \in Registrations /\ Projected(s, g, v).version = v
            /\ Projected(s, g, v).thread = registrations[s].thread
        BY <2>2, <4>1, ProjectionOf
      <4> HIDE DEF g, v, recoveries, touched
      <4>4. /\ registrations'[s] \in Registrations /\ registrations'[s].attempted
            /\ registrations'[s].version = Projected(s, g, v).version
            /\ registrations'[s].thread = Projected(s, g, v).thread
        BY <4>2, <4>3, ProjectionAttempted
      <4> QED
        BY <4>3, <4>4
    <3>2. CASE s \in touched \ recoveries
      <4>1. registrations[s] \in Registrations
        BY <2>2, <3>2, SlotsOfSerials DEF IsRegistered
      <4>2. registrations'[s] = Projected(s, g, v)
        BY <2>1, <3>2
      <4>3. /\ Projected(s, g, v) \in Registrations /\ Projected(s, g, v).version = v
            /\ Projected(s, g, v).thread = registrations[s].thread
            /\ Projected(s, g, v).prepares = registrations[s].prepares
            /\ Projected(s, g, v).attempted <=> registrations[s].attempted /\ AbsentIn(s, v)
        BY <2>2, <4>1, ProjectionOf
      <4>4. AbsentIn(s, v) /\ registrations[s].prepares
              => registrations[s].attempted \/ registrations[s].thread # NoThread
        BY <3>2 DEF ShouldRecover
      <4> HIDE DEF g, v, recoveries, touched
      <4> QED
        BY <4>2, <4>3, <4>4
    <3>3. CASE s \notin touched
      BY <2>1, <2>2, <3>3, SlotsOfSerials
    <3> QED
      BY <2>2, <3>1, <3>2, <3>3
  <2>6. registrations' \in [Serials -> Registrations \cup {Unregistered}]
    BY <2>1, <2>5
  <2> HIDE DEF g, touched, recoveries, locals
  <2>7. AbsenceIsAttempted'
    BY <1>1, <2>5 DEF TransportInv, RegistrationsInv, AbsenceIsAttempted, AbsentIn
  <2>8. ClosedIsEmpty'
    BY <1>1, <1>3 DEF ClosedIsEmpty
  <2>9. ThreadsInv'
    <3>1. "publish" \in Steps \ {"idle", "finally", "spawn", "registered"}
      BY DEF Steps
    <3> QED
      BY <1>1, <2>1, <2>3, <2>5, <3>1, EnterKeeps
  <2>10. VersionsExist'
    <3>1. \A u \in Threads : job'[u].version <= Len(inventory)
      BY <2>1, <2>3, JobsOfThreads DEF Enter, Goto, TransportInv, ThreadsInv
    <3>2. \A s \in Serials : registrations'[s].version <= Len(inventory)
      BY <2>2, <2>5 DEF TransportInv, VersionsExist
    <3> QED
      BY <1>1, <3>1, <3>2 DEF TransportInv, VersionsExist
  <2>11. WorldInv'
    BY <1>1, <2>4 DEF TransportInv, WorldInv
  <2> QED
    BY <2>6, <2>7, <2>8, <2>9, <2>10, <2>11 DEF TransportInv, RegistrationsInv
<1> QED
  BY <1>2, <1>3

\* A slot that was free goes to a thread that was idle, and so held no other slot.
LEMMA LaunchKeeps == ASSUME TransportInv, NEW t \in Threads, Launch(t) PROVE TransportInv'
<1> USE BoundsAssumption
<1>1. /\ at[t] = "launch"
      /\ UNCHANGED <<inventory, generation, session, announced, delivered, registered, subscribed,
                     closed, closing>>
  BY DEF Launch, world, lifecycle
<1>2. CASE UNCHANGED <<registrations, owed>> /\ Finish(t)
  <2>1. UNCHANGED <<world, registrations, lifecycle, owed>>
    BY <1>1, <1>2 DEF world, lifecycle
  <2> QED
    BY <1>1, <1>2, <2>1, OnlyOneThreadMoves DEF TransportInv, WorldInv
<1>3. ASSUME NEW s \in job[t].launches, UNCHANGED <<registrations, owed>>,
             Enter(t, [job[t] EXCEPT !.launches = @ \ {s}], "launch")
      PROVE  TransportInv'
  <2> DEFINE locals == [job[t] EXCEPT !.launches = @ \ {s}]
  <2>1. /\ locals \in Jobs /\ locals.scope = job[t].scope /\ locals.over = job[t].over
        /\ locals.version <= Len(inventory) /\ "launch" \in Steps
    BY JobsOfThreads DEF Jobs, Steps
  <2>2. UNCHANGED <<world, registrations, lifecycle, owed>>
    BY <1>1, <1>3 DEF world, lifecycle
  <2> HIDE DEF locals
  <2> QED
    BY <1>1, <1>3, <2>1, <2>2, OnlyOneThreadMoves DEF locals, TransportInv, WorldInv
<1>4. ASSUME NEW s \in job[t].launches, IsRegistered(s), ~closed, registrations[s].thread = NoThread,
             NEW w \in Workers, at[w] = "idle",
             registrations' = [registrations EXCEPT ![s].thread = w],
             owed' = [owed EXCEPT ![s] = @ - 1],
             at' = [at EXCEPT ![t] = "spawn", ![w] = "registered"],
             job' = [job EXCEPT ![t].launches = @ \ {s}, ![t].workers = {w},
                                ![w] = [NoJob EXCEPT !.scope = {s}]]
      PROVE  TransportInv'
  <2> DEFINE locals == [job[t] EXCEPT !.launches = @ \ {s}, !.workers = {w}]
             fresh == [NoJob EXCEPT !.scope = {s}]
             held == [registrations[s] EXCEPT !.thread = w]
  <2>1. /\ s \in Serials /\ w \in Threads /\ w # t /\ registrations[s] \in Registrations
        /\ at \in [Threads -> Steps] /\ job \in [Threads -> Jobs] /\ job[t] \in Jobs
        /\ registrations \in [Serials -> Registrations \cup {Unregistered}]
        /\ "spawn" \in Steps /\ "registered" \in Steps
    BY <1>1, <1>4, JobsOfThreads, SlotsOfSerials
       DEF Threads, IsRegistered, TransportInv, ThreadsInv, RegistrationsInv, Steps
  <2>2. /\ held \in Registrations /\ held.thread = w /\ held.version = registrations[s].version
    BY <2>1 DEF Registrations
  <2>3. /\ locals \in Jobs /\ locals.scope = job[t].scope /\ locals.over = job[t].over
        /\ locals.version = job[t].version /\ locals.workers = {w}
    BY <2>1 DEF Jobs
  <2>4. /\ fresh \in Jobs /\ fresh.scope = {s} /\ fresh.over = FALSE /\ fresh.version = 0
    BY <2>1, NoJobIsAJob DEF Jobs
  <2>5. /\ at'[t] = "spawn" /\ at'[w] = "registered" /\ at' \in [Threads -> Steps]
        /\ \A u \in Threads \ {t, w} : at'[u] = at[u]
    BY <1>4, <2>1
  <2>6. /\ job'[t] = locals /\ job'[w] = fresh /\ job' \in [Threads -> Jobs]
        /\ \A u \in Threads \ {t, w} : job'[u] = job[u]
    BY <1>4, <2>1, <2>3, <2>4
  <2>7. /\ registrations'[s] = held
        /\ \A r \in Serials \ {s} : registrations'[r] = registrations[r]
        /\ registrations' \in [Serials -> Registrations \cup {Unregistered}]
    BY <1>4, <2>1, <2>2
  <2>8. owed' \in [Serials -> Int]
    BY <1>4, <2>1 DEF TransportInv, WorldInv
  <2> HIDE DEF locals, fresh, held
  <2>9. WorldInv'
    BY <1>1, <2>8 DEF TransportInv, WorldInv
  <2>10. VersionsExist'
    <3>1. \A u \in Threads : job'[u].version <= Len(inventory)
      BY <2>3, <2>4, <2>6, JobsOfThreads DEF TransportInv, VersionsExist
    <3>2. \A r \in Serials : registrations'[r].version <= Len(inventory)
      BY <2>2, <2>7 DEF TransportInv, VersionsExist
    <3> QED
      BY <1>1, <3>1, <3>2 DEF TransportInv, VersionsExist
  <2>11. RegistrationsInv'
    <3>1. AbsenceIsAttempted'
      <4>1. w # NoThread
        BY ThreadsAssumption DEF Threads
      <4> QED
        BY <1>1, <2>2, <2>7, <4>1 DEF TransportInv, RegistrationsInv, AbsenceIsAttempted, AbsentIn
    <3>2. ClosedIsEmpty'
      BY <1>1, <1>4 DEF ClosedIsEmpty
    <3> QED
      BY <2>7, <3>1, <3>2 DEF RegistrationsInv
  <2>12. RecoveriesAreBound'
    <3>1. ASSUME NEW u \in Workers
          PROVE  /\ Recovering(u)' => \E r \in Serials : job'[u].scope = {r}
                 /\ job'[u].over => at'[u] \in {"finally", "launch", "spawn"}
      <4>1. CASE u = w
        BY <2>1, <2>4, <2>5, <2>6, <4>1
      <4>2. CASE u = t
        BY <1>1, <2>3, <2>5, <2>6, <4>2 DEF Recovering, TransportInv, ThreadsInv, RecoveriesAreBound
      <4>3. CASE u \notin {t, w}
        BY <2>5, <2>6, <4>3 DEF Threads, Recovering, TransportInv, ThreadsInv, RecoveriesAreBound
      <4> QED
        BY <4>1, <4>2, <4>3
    <3> QED
      BY <3>1 DEF RecoveriesAreBound
  <2>13. SpawnersOwnWorkers'
    <3>1. \A u \in Threads \ {t} : at'[u] = "spawn" =>
             /\ u # w /\ at[u] = "spawn" /\ job'[u] = job[u] /\ w \notin job[u].workers
             /\ \A x \in job[u].workers : at[x] = "registered" /\ x # t /\ x \in Threads
      BY <1>1, <1>4, <2>5, <2>6, JobsOfThreads DEF Threads, TransportInv, ThreadsInv, SpawnersOwnWorkers
    <3>2. job'[t].workers = {w}
      BY <2>3, <2>6
    <3> QED
      BY <2>5, <3>1, <3>2 DEF TransportInv, ThreadsInv, SpawnersOwnWorkers
  <2>14. SlotsAreHeld'
    <3>1. ASSUME NEW r \in Serials, registrations'[r].thread # NoThread
          PROVE  /\ Recovering(registrations[r].thread)'
                 /\ job'[registrations'[r].thread].scope = {r}
      <4>1. CASE r = s
        BY <2>2, <2>4, <2>5, <2>6, <2>7, <4>1 DEF Recovering
      <4>2. CASE r # s
        <5>1. /\ registrations'[r].thread = registrations[r].thread
              /\ registrations[r].thread \in Workers
              /\ Recovering(registrations[r].thread) /\ job[registrations[r].thread].scope = {r}
          BY <2>7, <3>1, <4>2, SlotsOfSerials DEF TransportInv, ThreadsInv, SlotsAreHeld
        <5>2. registrations[r].thread # w
          BY <1>4, <5>1 DEF Recovering
        <5>3. CASE registrations[r].thread = t
          BY <1>1, <2>3, <2>5, <2>6, <5>1, <5>3 DEF Recovering
        <5>4. CASE registrations[r].thread # t
          BY <2>5, <2>6, <5>1, <5>2, <5>4 DEF Recovering, Threads
        <5> QED
          BY <5>3, <5>4
      <4> QED
        BY <4>1, <4>2
    <3> QED
      BY <3>1 DEF SlotsAreHeld
  <2> QED
    BY <2>5, <2>6, <2>9, <2>10, <2>11, <2>12, <2>13, <2>14 DEF TransportInv, ThreadsInv
<1> QED
  BY <1>2, <1>3, <1>4 DEF Launch

\* The thread that was registered runs; nobody else was about to start it.
LEMMA SpawnKeeps == ASSUME TransportInv, NEW t \in Threads, Spawn(t) PROVE TransportInv'
<1> DEFINE locals == [job[t] EXCEPT !.workers = {}]
<1>1. /\ at[t] = "spawn"
      /\ UNCHANGED <<world, registrations, lifecycle, owed, closing>>
      /\ at' = [u \in Threads |-> IF u = t THEN "launch"
                                  ELSE IF u \in job[t].workers THEN "recover" ELSE at[u]]
      /\ job' = [job EXCEPT ![t] = locals]
  BY DEF Spawn
<1>2. /\ at \in [Threads -> Steps] /\ job \in [Threads -> Jobs] /\ job[t] \in Jobs
      /\ job[t].workers \subseteq Workers /\ Workers \subseteq Threads
      /\ "launch" \in Steps /\ "recover" \in Steps
      /\ \A w \in job[t].workers : at[w] = "registered" /\ w # t
  BY <1>1, JobsOfThreads DEF TransportInv, ThreadsInv, SpawnersOwnWorkers, Threads, Steps
<1>3. /\ locals \in Jobs /\ locals.scope = job[t].scope /\ locals.over = job[t].over
      /\ locals.version = job[t].version
  BY <1>2 DEF Jobs
<1> HIDE DEF locals
<1>4. /\ at' \in [Threads -> Steps] /\ job' \in [Threads -> Jobs]
      /\ at'[t] = "launch" /\ job'[t] = locals
      /\ \A w \in job[t].workers : at'[w] = "recover" /\ job'[w] = job[w]
      /\ \A u \in Threads : u # t => job'[u] = job[u]
      /\ \A u \in Threads : u # t /\ u \notin job[t].workers => at'[u] = at[u]
  BY <1>1, <1>2, <1>3
<1>5. ASSUME NEW w \in Workers
      PROVE  /\ Recovering(w)' <=> Recovering(w)
             /\ job'[w].scope = job[w].scope /\ job'[w].over = job[w].over
  <2>1. CASE w = t
    BY <1>1, <1>3, <1>4, <2>1 DEF Recovering
  <2>2. CASE w # t /\ w \in job[t].workers
    BY <1>2, <1>4, <2>2 DEF Recovering
  <2>3. CASE w # t /\ w \notin job[t].workers
    BY <1>2, <1>4, <2>3 DEF Recovering
  <2> QED
    BY <2>1, <2>2, <2>3
<1>6. RecoveriesAreBound'
  <2>1. ASSUME NEW w \in Workers, job'[w].over
        PROVE  at'[w] \in {"finally", "launch", "spawn"}
    <3>1. job[w].over /\ at[w] \in {"finally", "launch", "spawn"}
      BY <1>5, <2>1 DEF TransportInv, ThreadsInv, RecoveriesAreBound
    <3> QED
      BY <1>2, <1>4, <3>1
  <2>2. ASSUME NEW w \in Workers, Recovering(w)'
        PROVE  \E s \in Serials : job'[w].scope = {s}
    BY <1>5, <2>2 DEF TransportInv, ThreadsInv, RecoveriesAreBound
  <2> QED
    BY <2>1, <2>2 DEF RecoveriesAreBound
<1>7. SpawnersOwnWorkers'
  <2>1. \A u \in Threads : at'[u] = "spawn" => u # t /\ at[u] = "spawn" /\ job'[u] = job[u]
    BY <1>2, <1>4
  <2>2. ASSUME NEW u \in Threads, at'[u] = "spawn", NEW w \in job'[u].workers
        PROVE  at'[w] = "registered"
    <3>1. w \in job[u].workers /\ at[w] = "registered" /\ w # t /\ w \notin job[t].workers /\ w \in Threads
      BY <1>1, <1>2, <2>1, <2>2, JobsOfThreads DEF Threads, TransportInv, ThreadsInv, SpawnersOwnWorkers
    <3> QED
      BY <1>4, <3>1
  <2>3. ASSUME NEW u \in Threads, at'[u] = "spawn", NEW w \in job'[u].workers,
               NEW x \in Threads, at'[x] = "spawn", w \in job'[x].workers
        PROVE  x = u
    BY <2>1, <2>3 DEF TransportInv, ThreadsInv, SpawnersOwnWorkers
  <2> QED
    BY <2>2, <2>3 DEF SpawnersOwnWorkers
<1>8. SlotsAreHeld'
  <2>1. UNCHANGED registrations
    BY <1>1
  <2>2. ASSUME NEW s \in Serials, NEW w \in Workers, registrations[s].thread = w
        PROVE  Recovering(w)' /\ job'[w].scope = {s}
    <3>1. w # NoThread
      BY ThreadsAssumption DEF Threads
    <3>2. Recovering(w) /\ job[w].scope = {s}
      BY <2>2, <3>1 DEF TransportInv, ThreadsInv, SlotsAreHeld
    <3> QED
      BY <1>5, <3>2
  <2>3. \A s \in Serials : registrations[s].thread # NoThread => registrations[s].thread \in Workers
    BY SlotsOfSerials
  <2> QED
    BY <2>1, <2>2, <2>3 DEF SlotsAreHeld, Recovering
<1>9. \A u \in Threads : job'[u].version <= Len(inventory)
  BY <1>3, <1>4, JobsOfThreads
<1> QED
  BY <1>1, <1>4, <1>6, <1>7, <1>8, <1>9, OnlyThreadsMove DEF ThreadsInv, TransportInv, WorldInv

\* A recovery ends: its thread leaves the slot it holds, and holds no other.
LEMMA FinallyKeeps == ASSUME TransportInv, NEW w \in Workers, Finally(w) PROVE TransportInv'
<1> USE BoundsAssumption
<1>1. /\ at[w] = "finally" /\ w \in Threads
      /\ UNCHANGED <<inventory, generation, session, announced, delivered, registered, subscribed,
                     closed, owed, closing>>
  BY DEF Finally, world, lifecycle, Threads
<1>2. PICK s \in Serials : job[w].scope = {s}
  BY <1>1, SerialOfRecovery
<1> DEFINE step == IF registrations[s].thread = w /\ Relaunch(s) THEN "launch" ELSE "idle"
           over == [NoJob EXCEPT !.launches = {s}, !.over = TRUE]
           locals == IF step = "idle" THEN NoJob ELSE over
           left == [registrations[s] EXCEPT !.thread = NoThread, !.attempted = @ \/ Relaunch(s)]
<1>3. /\ at' = [at EXCEPT ![w] = step] /\ job' = [job EXCEPT ![w] = locals]
      /\ \/ registrations[s].thread # w /\ UNCHANGED registrations
         \/ registrations[s].thread = w /\ registrations' = [registrations EXCEPT ![s] = left]
  <2>1. CASE registrations[s].thread # w
    <3>1. Enter(w, NoJob, "idle") /\ UNCHANGED registrations
      BY <1>2, <2>1 DEF Finally
    <3> QED
      BY <2>1, <3>1 DEF Enter, Goto
  <2>2. CASE registrations[s].thread = w
    <3>1. /\ registrations' = [registrations EXCEPT ![s].thread = NoThread,
                                                    ![s].attempted = @ \/ Relaunch(s)]
          /\ Enter(w, [NoJob EXCEPT !.launches = {s}, !.over = TRUE],
                   IF Relaunch(s) THEN "launch" ELSE "idle")
      BY <1>2, <2>2 DEF Finally
    <3>2. at' = [at EXCEPT ![w] = step] /\ job' = [job EXCEPT ![w] = locals]
      BY <2>2, <3>1 DEF Enter, Goto
    <3>3. registrations' = [registrations EXCEPT ![s] = left]
      BY <3>1 DEF TransportInv, RegistrationsInv
    <3> QED
      BY <2>2, <3>2, <3>3
  <2> QED
    BY <2>1, <2>2
<1>4. /\ over \in Jobs /\ over.over /\ over.version = 0
      /\ NoJob \in Jobs /\ NoJob.over = FALSE /\ NoJob.version = 0
  <2>1. over \in Jobs
    BY NoJobIsAJob DEF Jobs
  <2>2. over.over /\ over.version = 0
    BY DEF NoJob
  <2> QED
    BY <2>1, <2>2, NoJobIsAJob
<1>5. /\ step \in {"launch", "idle"} /\ step \in Steps /\ locals \in Jobs /\ locals.version = 0
      /\ locals.over = (step = "launch")
  <2>1. step \in {"launch", "idle"} /\ {"launch", "idle"} \subseteq Steps
    BY DEF Steps
  <2>2. CASE step = "idle"
    BY <1>4, <2>1, <2>2
  <2>3. CASE step = "launch"
    BY <1>4, <2>1, <2>3
  <2> QED
    BY <2>1, <2>2, <2>3
<1> HIDE DEF step, over, locals
<1>6. /\ at \in [Threads -> Steps] /\ job \in [Threads -> Jobs]
      /\ registrations \in [Serials -> Registrations \cup {Unregistered}]
      /\ at' \in [Threads -> Steps] /\ job' \in [Threads -> Jobs]
      /\ at'[w] = step /\ job'[w] = locals
      /\ \A u \in Threads : u # w => at'[u] = at[u] /\ job'[u] = job[u]
  BY <1>1, <1>3, <1>5 DEF TransportInv, ThreadsInv, RegistrationsInv
<1>7. /\ \A r \in Serials : r # s => registrations'[r] = registrations[r]
      /\ registrations' \in [Serials -> Registrations \cup {Unregistered}]
      /\ \A r \in Serials : registrations'[r].thread # w
      /\ \A r \in Serials : registrations'[r].version = registrations[r].version
      /\ \A r \in Serials : registrations'[r].thread \in {registrations[r].thread, NoThread}
      /\ \/ registrations'[s] = registrations[s]
         \/ /\ registrations[s] \in Registrations /\ registrations'[s].prepares = registrations[s].prepares
            /\ registrations'[s].attempted <=> registrations[s].attempted \/ Relaunch(s)
  <2>1. \A r \in Serials : r # s => registrations[r].thread # w
    <3>1. ASSUME NEW r \in Serials, registrations[r].thread = w PROVE r = s
      <4>1. w # NoThread
        BY ThreadsAssumption DEF Threads
      <4>2. job[w].scope = {r}
        BY <3>1, <4>1 DEF TransportInv, ThreadsInv, SlotsAreHeld
      <4> QED
        BY <1>2, <4>2
    <3> QED
      BY <3>1
  <2>2. CASE registrations[s].thread # w /\ UNCHANGED registrations
    BY <1>6, <2>1, <2>2
  <2>3. CASE registrations[s].thread = w /\ registrations' = [registrations EXCEPT ![s] = left]
    <3>1. w # NoThread /\ registrations[s] \in Registrations
      BY <2>3, SlotsOfSerials, ThreadsAssumption DEF Threads, Unregistered
    <3> DEFINE attempted == registrations[s].attempted \/ Relaunch(s)
    <3>3. left = Vacated(registrations[s], attempted)
      BY <3>1 DEF Registrations, Vacated
    <3>4. attempted \in BOOLEAN
      OBVIOUS
    <3> HIDE DEF left, attempted
    <3>5. /\ left \in Registrations /\ left.thread = NoThread /\ left.version = registrations[s].version
          /\ left.prepares = registrations[s].prepares /\ left.attempted = attempted
      BY <3>1, <3>3, <3>4, SlotVacated
    <3>6. /\ registrations'[s] = left /\ \A r \in Serials : r # s => registrations'[r] = registrations[r]
          /\ registrations' \in [Serials -> Registrations \cup {Unregistered}]
      BY <1>6, <2>3, <3>5
    <3> QED
      BY <2>1, <3>1, <3>5, <3>6 DEF attempted
  <2> QED
    BY <1>3, <2>2, <2>3
<1>8. RegistrationsInv'
  <2>1. AbsenceIsAttempted'
    <3>1. ASSUME NEW r \in Serials,
                 registrations'[r].prepares, AbsentIn(r, registrations[r].version)
          PROVE  registrations'[r].attempted \/ registrations'[r].thread # NoThread
      <4>1. CASE registrations'[r] = registrations[r]
        BY <3>1, <4>1 DEF TransportInv, RegistrationsInv, AbsenceIsAttempted
      <4>2. CASE registrations'[r] # registrations[r]
        <5>1. /\ r = s /\ registrations[s] \in Registrations
              /\ registrations'[s].prepares = registrations[s].prepares
              /\ registrations'[s].attempted <=> registrations[s].attempted \/ Relaunch(s)
          BY <1>7, <4>2
        <5>2. ~closed
          BY <5>1, UnregisteredIsEmpty DEF TransportInv, RegistrationsInv, ClosedIsEmpty, IsRegistered
        <5> QED
          BY <3>1, <5>1, <5>2 DEF Relaunch
      <4> QED
        BY <4>1, <4>2
    <3>2. \A r \in Serials : AbsentIn(r, registrations[r].version)' <=> AbsentIn(r, registrations[r].version)
      BY <1>1, <1>7 DEF AbsentIn
    <3> QED
      BY <3>1, <3>2 DEF AbsenceIsAttempted
  <2>2. ClosedIsEmpty'
    BY <1>1, <1>7, UnregisteredIsEmpty DEF TransportInv, RegistrationsInv, ClosedIsEmpty, IsRegistered
  <2> QED
    BY <1>7, <2>1, <2>2 DEF RegistrationsInv
<1>9. RecoveriesAreBound'
  <2>1. \A u \in Workers : u # w => (Recovering(u)' <=> Recovering(u)) /\ job'[u] = job[u] /\ at'[u] = at[u]
    BY <1>6 DEF Recovering, Threads
  <2>2. ~Recovering(w)' /\ (job'[w].over => at'[w] = "launch")
    BY <1>5, <1>6 DEF Recovering
  <2> QED
    BY <2>1, <2>2 DEF TransportInv, ThreadsInv, RecoveriesAreBound
<1>10. SpawnersOwnWorkers'
  <2>1. \A u \in Threads : at'[u] = "spawn" => at[u] = "spawn" /\ job'[u] = job[u]
    BY <1>5, <1>6
  <2>2. ASSUME NEW u \in Threads, at'[u] = "spawn", NEW x \in job'[u].workers PROVE at'[x] = "registered"
    <3>1. at[x] = "registered" /\ x \in Threads
      BY <2>1, <2>2, JobsOfThreads DEF TransportInv, ThreadsInv, SpawnersOwnWorkers, Threads
    <3> QED
      BY <1>1, <1>6, <3>1
  <2> QED
    BY <2>1, <2>2 DEF TransportInv, ThreadsInv, SpawnersOwnWorkers
<1>11. SlotsAreHeld'
  <2>1. ASSUME NEW r \in Serials, registrations'[r].thread # NoThread
        PROVE  Recovering(registrations[r].thread)' /\ job'[registrations'[r].thread].scope = {r}
    <3>1. /\ registrations'[r].thread = registrations[r].thread /\ registrations[r].thread # w
          /\ registrations[r].thread \in Threads
      BY <1>7, <2>1, SlotsOfSerials DEF Threads
    <3>2. Recovering(registrations[r].thread) /\ job[registrations[r].thread].scope = {r}
      BY <2>1, <3>1 DEF TransportInv, ThreadsInv, SlotsAreHeld
    <3> QED
      BY <1>6, <3>1, <3>2 DEF Recovering
  <2> QED
    BY <2>1 DEF SlotsAreHeld
<1>12. VersionsExist'
  <2>1. \A u \in Threads : job'[u].version <= Len(inventory)
    BY <1>5, <1>6, JobsOfThreads DEF TransportInv, VersionsExist
  <2> QED
    BY <1>1, <1>7, <2>1 DEF TransportInv, VersionsExist
<1>13. WorldInv'
  BY <1>1 DEF TransportInv, WorldInv
<1> QED
  BY <1>6, <1>8, <1>9, <1>10, <1>11, <1>12, <1>13 DEF TransportInv, ThreadsInv
-----------------------------------------------------------------------------
(***************************************************************************)
(* The invariant and what follows from it.                                 *)
(***************************************************************************)

LEMMA TransportInvHolds == Init => TransportInv
<1> SUFFICES ASSUME Init PROVE TransportInv
  OBVIOUS
<1> USE BoundsAssumption
<1>1. PICK i \in Inventories : inventory = <<i>>
  BY DEF Init
<1>2. inventory \in Seq(Inventories) /\ Len(inventory) = 1
  BY <1>1
<1>3. WorldInv
  <2>1. generation \in 0 .. MaxGeneration /\ session \in {0, generation} /\ announced \in 0 .. generation
    BY DEF Init
  <2>2. delivered \in 0 .. Len(inventory) /\ registered \in [Serials -> 0 .. MaxRegistrations]
    BY <1>2 DEF Init
  <2>3. owed \in [Serials -> Int] /\ closing \in {"no", "running", "returned", "raised"}
    BY DEF Init
  <2>4. subscribed \in BOOLEAN /\ closed \in BOOLEAN
    BY DEF Init
  <2> QED
    BY <1>2, <2>1, <2>2, <2>3, <2>4 DEF WorldInv
<1>4. /\ \A s \in Serials : registrations[s] = Unregistered
      /\ registrations \in [Serials -> Registrations \cup {Unregistered}]
      /\ \A t \in Threads : at[t] = "idle" /\ job[t] = NoJob
      /\ at \in [Threads -> Steps] /\ job \in [Threads -> Jobs]
  BY NoJobIsAJob DEF Init, Steps
<1>5. VersionsExist
  BY <1>2, <1>4, NoJobIsAJob, UnregisteredIsEmpty DEF VersionsExist
<1>6. RegistrationsInv
  BY <1>4, UnregisteredIsEmpty DEF RegistrationsInv, AbsenceIsAttempted, ClosedIsEmpty, IsRegistered
<1>7. ThreadsInv
  BY <1>4, NoJobIsAJob, UnregisteredIsEmpty
     DEF ThreadsInv, RecoveriesAreBound, SpawnersOwnWorkers, SlotsAreHeld, Recovering, Threads
<1> QED
  BY <1>3, <1>5, <1>6, <1>7 DEF TransportInv

LEMMA TransportInvStays == TransportInv /\ UNCHANGED vars => TransportInv'
<1> SUFFICES ASSUME TransportInv, UNCHANGED vars PROVE TransportInv'
  OBVIOUS
<1>1. UNCHANGED <<world, registrations, lifecycle, at, job, owed, closing>>
  BY DEF vars
<1> QED
  BY <1>1, ThreadsStay, OnlyThreadsMove, JobsOfThreads DEF TransportInv, WorldInv

LEMMA TransportInvKept == TransportInv /\ [Next]_vars => TransportInv'
<1> SUFFICES ASSUME TransportInv, [Next]_vars PROVE TransportInv'
  OBVIOUS
<1>1. CASE InventoryChanges
  BY <1>1, InventoryChangesKeeps
<1>2. CASE SessionBegins \/ SessionEnds
  BY <1>2, SessionsAndStartKeep
<1>3. CASE OnObservationStarted
  BY <1>3, OnObservationStartedKeeps
<1>4. CASE OnSnapshotObserved
  BY <1>4, OnSnapshotObservedKeeps
<1>5. CASE \E t \in Callers : Operation(t)
  BY <1>5, RegisterKeeps, UnregisterKeeps, SessionsAndStartKeep, CloseKeeps DEF Operation
<1>6. CASE \E t \in Threads : Continue(t)
  BY <1>6, ReadSnapshotKeeps, RecheckSessionKeeps, JoinKeeps, ApplySnapshotKeeps,
     PublishChangesKeeps, LaunchKeeps, SpawnKeeps DEF Continue
<1>7. CASE \E w \in Workers : Recovery(w)
  BY <1>7, BeginRecoveryKeeps, BindPreparationKeeps, PreparedKeeps, JudgeKeeps, PublishExhaustedKeeps,
     FinallyKeeps DEF Recovery
<1>8. CASE Rest \/ UNCHANGED vars
  BY <1>8, TransportInvStays DEF Rest
<1> QED
  BY <1>1, <1>2, <1>3, <1>4, <1>5, <1>6, <1>7, <1>8 DEF Next

\* Every variable stays in the set of values the code gives it.
THEOREM TransportTypeCorrect == Spec => []TypeOK
<1>1. TransportInv => TypeOK
  BY DEF TransportInv, WorldInv, RegistrationsInv, ThreadsInv, TypeOK
<1> QED
  BY <1>1, TransportInvHolds, TransportInvKept, PTL DEF Spec

\* A recovery slot is held by a thread that is alive and recovers this serial
\* (_launch_recovery and the finally clause of _run_recovery), through unregistrations,
\* re-registrations and close().
THEOREM SlotHoldersAreAlive == Spec => []SlotHolderIsAlive
<1>1. TransportInv => SlotHolderIsAlive
  BY DEF TransportInv, ThreadsInv, SlotsAreHeld, Recovering, SlotHolderIsAlive
<1> QED
  BY <1>1, TransportInvHolds, TransportInvKept, PTL DEF Spec

\* No absence of a registration that allows recovery is forgotten: what _apply_snapshot
\* cannot recover because the slot is taken, the finally clause of its holder attempts.
THEOREM AbsencesAreAttempted == Spec => []AbsenceIsAttempted
<1>1. TransportInv => AbsenceIsAttempted
  BY DEF TransportInv, RegistrationsInv
<1> QED
  BY <1>1, TransportInvHolds, TransportInvKept, PTL DEF Spec
-----------------------------------------------------------------------------
(***************************************************************************)
(* One recovery for each absence.                                          *)
(***************************************************************************)

LEMMA OneMoreElement ==
  ASSUME NEW S, NEW T, NEW e, IsFiniteSet(S), T \subseteq S \cup {e}
  PROVE  /\ IsFiniteSet(T) /\ Cardinality(T) \in Nat /\ Cardinality(S) \in Nat
         /\ Cardinality(T) <= Cardinality(S) + 1
         /\ T \subseteq S => Cardinality(T) <= Cardinality(S)
         /\ e \in S /\ T \subseteq S \ {e} => Cardinality(T) + 1 <= Cardinality(S)
<1>1. /\ IsFiniteSet(S \cup {e}) /\ Cardinality(S \cup {e}) <= Cardinality(S) + 1
      /\ Cardinality(S) \in Nat
  BY FS_AddElement, FS_CardinalityType
<1>2. IsFiniteSet(T) /\ Cardinality(T) <= Cardinality(S \cup {e})
  BY <1>1, FS_Subset
<1>3. Cardinality(T) \in Nat /\ Cardinality(S \cup {e}) \in Nat
  BY <1>1, <1>2, FS_CardinalityType
<1>4. T \subseteq S => Cardinality(T) <= Cardinality(S)
  BY FS_Subset
<1>5. ASSUME e \in S, T \subseteq S \ {e} PROVE Cardinality(T) + 1 <= Cardinality(S)
  <2>1. IsFiniteSet(S \ {e}) /\ Cardinality(S \ {e}) = Cardinality(S) - 1
    BY <1>5, FS_RemoveElement
  <2>2. Cardinality(T) <= Cardinality(S \ {e})
    BY <1>5, <2>1, FS_Subset
  <2> QED
    BY <1>1, <1>3, <2>1, <2>2
<1> QED
  BY <1>1, <1>2, <1>3, <1>4, <1>5

\* Who waits to launch a recovery of s when one thread, at most, gets one.
LEMMA WaitersMove ==
  ASSUME NEW s \in Serials, Covered(s), NEW t, Waiting(s)' \subseteq Waiting(s) \cup {t}
  PROVE  /\ IsFiniteSet(Waiting(s)')
         /\ Cardinality(Waiting(s)) \in Nat /\ Cardinality(Waiting(s)') \in Nat
         /\ Cardinality(Waiting(s)') <= Cardinality(Waiting(s)) + 1
         /\ Waiting(s)' \subseteq Waiting(s) => Cardinality(Waiting(s)') <= Cardinality(Waiting(s))
         /\ t \in Waiting(s) /\ Waiting(s)' \subseteq Waiting(s) \ {t}
              => Cardinality(Waiting(s)') + 1 <= Cardinality(Waiting(s))
<1> DEFINE before == Waiting(s)
           after == Waiting(s)'
<1>1. IsFiniteSet(before) /\ after \subseteq before \cup {t}
  BY DEF Covered
<1> HIDE DEF before, after
<1>2. /\ IsFiniteSet(after) /\ Cardinality(after) \in Nat /\ Cardinality(before) \in Nat
      /\ Cardinality(after) <= Cardinality(before) + 1
      /\ after \subseteq before => Cardinality(after) <= Cardinality(before)
      /\ t \in before /\ after \subseteq before \ {t} => Cardinality(after) + 1 <= Cardinality(before)
  BY <1>1, OneMoreElement
<1> QED
  BY <1>2 DEF before, after

\* Nothing is promised that was not promised before.
LEMMA CoverStays ==
  ASSUME NEW s \in Serials, Covered(s), owed[s] \in Int, owed'[s] = owed[s],
         Waiting(s)' \subseteq Waiting(s), Undecided(s)' => Undecided(s)
  PROVE  Covered(s)'
<1>1. /\ IsFiniteSet(Waiting(s)') /\ Cardinality(Waiting(s)) \in Nat /\ Cardinality(Waiting(s)') \in Nat
      /\ Cardinality(Waiting(s)') <= Cardinality(Waiting(s))
  BY WaitersMove
<1>2. CASE Undecided(s)'
  BY <1>1, <1>2 DEF Covered
<1>3. CASE ~Undecided(s)'
  BY <1>1, <1>3 DEF Covered
<1> QED
  BY <1>2, <1>3

LEMMA NothingIsPromised ==
  ASSUME TransportInv, RecoveriesCovered, UNCHANGED <<registered, owed>>,
         \A s \in Serials :
           /\ Waiting(s)' \subseteq Waiting(s)
           /\ Undecided(s)' => Undecided(s)
           /\ IsRegistered(s)' => IsRegistered(s)
  PROVE  RecoveriesCovered'
<1>1. ASSUME NEW s \in Serials, registered[s] <= 1 PROVE Covered(s)'
  <2>1. Covered(s) /\ owed[s] \in Int
    BY <1>1 DEF RecoveriesCovered, TransportInv, WorldInv
  <2> QED
    BY <2>1, CoverStays
<1>2. ASSUME NEW s \in Serials, registered[s] = 0 PROVE ~IsRegistered(s)' /\ Waiting(s)' = {}
  BY <1>2 DEF RecoveriesCovered
<1> QED
  BY <1>1, <1>2 DEF RecoveriesCovered

\* A thread that goes on with no more to launch, or is done.
LEMMA GoesOnWithNoMore ==
  ASSUME TransportInv, NEW t \in Threads, NEW step, NEW locals,
         Enter(t, locals, step), locals.launches \subseteq job[t].launches
  PROVE  \A s \in Serials : Waiting(s)' \subseteq Waiting(s)
<1>1. job' = [job EXCEPT ![t] = IF step = "idle" THEN NoJob ELSE locals]
  BY DEF Enter
<1>2. job'[t].launches \subseteq job[t].launches /\ \A u \in Threads \ {t} : job'[u] = job[u]
  BY <1>1 DEF TransportInv, ThreadsInv, NoJob
<1> QED
  BY <1>2 DEF Waiting

LEMMA EndsWithNoMore ==
  ASSUME TransportInv, NEW t \in Threads, Finish(t)
  PROVE  \A s \in Serials : Waiting(s)' \subseteq Waiting(s)
<1>1. [job[t] EXCEPT !.over = TRUE].launches = job[t].launches
  BY JobsOfThreads DEF Jobs
<1> QED
  BY <1>1, GoesOnWithNoMore DEF Finish

LEMMA SameDecisions ==
  ASSUME UNCHANGED <<inventory, registrations>>
  PROVE  \A s \in Serials : (Undecided(s)' => Undecided(s)) /\ (IsRegistered(s)' => IsRegistered(s))
BY DEF Undecided, IsRegistered, AbsentIn

\* The steps of a call or a recovery that leave registrations alone.
LEMMA CallsPromiseNothing ==
  ASSUME TransportInv, RecoveriesCovered, NEW t \in Threads,
         ReadSnapshot(t) \/ RecheckSession(t) \/ Join(t) \/ PublishChanges(t) \/ Spawn(t)
  PROVE  RecoveriesCovered'
<1>1. UNCHANGED <<world, registrations, lifecycle, owed>>
  BY DEF ReadSnapshot, RecheckSession, Join, PublishChanges, Spawn
<1>2. \A s \in Serials : Waiting(s)' \subseteq Waiting(s)
  <2>1. /\ \A v : [job[t] EXCEPT !.version = v].launches = job[t].launches
        /\ \A ws : [job[t] EXCEPT !.workers = ws].launches = job[t].launches
    BY JobsOfThreads DEF Jobs
  <2>2. CASE Spawn(t)
    <3>1. job' = [job EXCEPT ![t] = [job[t] EXCEPT !.workers = {}]]
      BY <2>2 DEF Spawn
    <3>2. job'[t].launches = job[t].launches /\ \A u \in Threads \ {t} : job'[u] = job[u]
      BY <2>1, <3>1 DEF TransportInv, ThreadsInv
    <3> QED
      BY <3>2 DEF Waiting
  <2>3. CASE Finish(t)
    BY <2>3, EndsWithNoMore
  <2>4. CASE ReadSnapshot(t) \/ RecheckSession(t) \/ PublishChanges(t)
    <3>1. \/ Finish(t)
          \/ Enter(t, [job[t] EXCEPT !.version = Len(inventory)], "recheck")
          \/ Enter(t, job[t], "apply") \/ Enter(t, job[t], "launch")
      BY <2>4 DEF ReadSnapshot, RecheckSession, PublishChanges
    <3> QED
      BY <2>1, <2>3, <3>1, GoesOnWithNoMore
  <2>5. CASE Join(t)
    <3>1. Finish(t) \/ \E w \in job[t].workers : Enter(t, [job[t] EXCEPT !.workers = @ \ {w}], "join")
      BY <2>5 DEF Join
    <3> QED
      BY <2>1, <2>3, <3>1, GoesOnWithNoMore
  <2> QED
    BY <2>2, <2>4, <2>5
<1> QED
  BY <1>1, <1>2, SameDecisions, NothingIsPromised DEF world, lifecycle

LEMMA RecoveriesPromiseNothing ==
  ASSUME TransportInv, RecoveriesCovered, NEW w \in Workers,
         BeginRecovery(w) \/ BindPreparation(w) \/ Prepared(w) \/ Judge(w) \/ PublishExhausted(w)
  PROVE  RecoveriesCovered'
<1>1. UNCHANGED <<world, registrations, lifecycle, owed>> /\ w \in Threads
  BY DEF BeginRecovery, BindPreparation, Prepared, Judge, PublishExhausted, Threads
<1>2. \A s \in Serials : Waiting(s)' \subseteq Waiting(s)
  <2>1. /\ \A v, g : [job[w] EXCEPT !.session = g, !.version = v].launches = job[w].launches
        /\ \A v : [job[w] EXCEPT !.version = v].launches = job[w].launches
        /\ \A v : [job[w] EXCEPT !.version = v, !.satisfied = TRUE].launches = job[w].launches
    BY <1>1, JobsOfThreads DEF Jobs
  <2>2. \/ Finish(w) \/ Enter(w, job[w], "bind")
        \/ Enter(w, [job[w] EXCEPT !.session = session, !.version = delivered], "preparing")
        \/ \E v : Enter(w, [job[w] EXCEPT !.version = v, !.satisfied = TRUE], "judge")
        \/ Enter(w, [job[w] EXCEPT !.version = 0], "judge")
        \/ Enter(w, job[w], "apply") \/ Enter(w, job[w], "exhausted")
    <3>1. CASE BeginRecovery(w)
      BY <3>1, SerialOfRecovery DEF BeginRecovery
    <3>2. CASE Prepared(w)
      BY <3>2 DEF Prepared
    <3>3. CASE Judge(w)
      BY <3>3, SerialOfRecovery DEF Judge
    <3>4. CASE PublishExhausted(w)
      BY <3>4 DEF PublishExhausted
    <3>5. CASE BindPreparation(w)
      BY <3>5 DEF BindPreparation
    <3> QED
      BY <3>1, <3>2, <3>3, <3>4, <3>5
  <2> QED
    BY <1>1, <2>1, <2>2, GoesOnWithNoMore, EndsWithNoMore
<1> QED
  BY <1>1, <1>2, SameDecisions, NothingIsPromised DEF world, lifecycle

\* The server and the observer promise nothing either: what an older version says
\* stays, and a registration that starts afresh knows of no absence.
LEMMA WorldPromisesNothing ==
  ASSUME TransportInv, RecoveriesCovered,
         \/ InventoryChanges \/ SessionBegins \/ SessionEnds \/ OnObservationStarted
         \/ OnSnapshotObserved \/ \E t \in Callers : Start(t)
  PROVE  RecoveriesCovered'
<1>1. UNCHANGED <<registered, owed>>
  BY DEF InventoryChanges, SessionBegins, SessionEnds, OnObservationStarted, OnSnapshotObserved,
         Start, lifecycle
<1>2. \A s \in Serials : Waiting(s)' \subseteq Waiting(s)
  <2>1. CASE UNCHANGED job
    BY <2>1 DEF Waiting
  <2>2. CASE OnSnapshotObserved
    <3>1. UNCHANGED job \/ \E v : Enter(Tracker, [NoJob EXCEPT !.scope = Serials, !.session = session,
                                                            !.version = v], "apply")
      BY <2>2 DEF OnSnapshotObserved
    <3>2. \A v : [NoJob EXCEPT !.scope = Serials, !.session = session, !.version = v].launches = {}
      BY DEF NoJob
    <3>3. Tracker \in Threads
      BY DEF Threads
    <3> QED
      BY <2>1, <3>1, <3>2, <3>3, GoesOnWithNoMore
  <2> QED
    BY <2>1, <2>2 DEF InventoryChanges, SessionBegins, SessionEnds, OnObservationStarted, Start
<1>3. ASSUME NEW s \in Serials
      PROVE  (Undecided(s)' => Undecided(s)) /\ (IsRegistered(s)' => IsRegistered(s))
  <2>1. CASE InventoryChanges
    <3>1. registrations[s].version \in Int /\ registrations[s].version <= Len(inventory) /\ Len(inventory) \in Nat
      BY SlotsOfSerials, BoundsAssumption DEF TransportInv, VersionsExist
    <3>2. PICK i \in Inventories : inventory' = Append(inventory, i)
      BY <2>1 DEF InventoryChanges
    <3>3. registrations[s].version > 0 => inventory'[registrations[s].version] = inventory[registrations[s].version]
      BY <3>1, <3>2 DEF TransportInv, WorldInv
    <3>4. UNCHANGED registrations
      BY <2>1 DEF InventoryChanges
    <3> QED
      BY <3>3, <3>4 DEF Undecided, AbsentIn, IsRegistered
  <2>2. CASE OnObservationStarted
    <3>1. CASE IsRegistered(s) /\ ~closed
      <4>1. registrations'[s] = Renewed(registrations[s], session)
        BY <2>2, <3>1 DEF OnObservationStarted, Renewed
      <4>2. registrations[s] \in Registrations /\ session \in 0 .. MaxGeneration
        BY <3>1, SlotsOfSerials, BoundsAssumption DEF IsRegistered, TransportInv, WorldInv
      <4>3. registrations'[s].version = 0
        BY <4>1, <4>2, RegistrationRenewed
      <4> QED
        BY <3>1, <4>3 DEF Undecided, AbsentIn
    <3>2. CASE ~(IsRegistered(s) /\ ~closed)
      <4>1. registrations'[s] = registrations[s] /\ UNCHANGED inventory
        BY <2>2, <3>2 DEF OnObservationStarted
      <4> QED
        BY <4>1 DEF Undecided, AbsentIn, IsRegistered
    <3> QED
      BY <3>1, <3>2
  <2>3. CASE UNCHANGED <<inventory, registrations>>
    BY <2>3, SameDecisions
  <2> QED
    BY <2>1, <2>2, <2>3 DEF SessionBegins, SessionEnds, OnSnapshotObserved, Start, world
<1> QED
  BY <1>1, <1>2, <1>3, NothingIsPromised

\* A registration that is gone has nothing to decide.
LEMMA DepartingPromisesNothing ==
  ASSUME TransportInv, RecoveriesCovered, NEW t \in Callers,
         (\E r \in Serials : Unregister(t, r)) \/ Close(t)
  PROVE  RecoveriesCovered'
<1>1. UNCHANGED <<registered, owed>> /\ UNCHANGED inventory /\ t \in Threads
  BY DEF Unregister, Close, lifecycle, world, Threads
<1>2. \A s \in Serials : registrations'[s] \in {registrations[s], Unregistered}
  BY DEF Unregister, Close, TransportInv, RegistrationsInv
<1>3. \A s \in Serials : Waiting(s)' \subseteq Waiting(s)
  <2>1. CASE UNCHANGED job
    BY <2>1 DEF Waiting
  <2>2. CASE Close(t)
    <3>1. \A ws : [NoJob EXCEPT !.workers = ws].launches = {}
      BY DEF NoJob
    <3> QED
      BY <1>1, <2>2, <3>1, GoesOnWithNoMore DEF Close
  <2> QED
    BY <2>1, <2>2 DEF Unregister
<1>4. \A s \in Serials : (Undecided(s)' => Undecided(s)) /\ (IsRegistered(s)' => IsRegistered(s))
  BY <1>1, <1>2, UnregisteredIsEmpty DEF Undecided, AbsentIn, IsRegistered
<1> QED
  BY <1>1, <1>3, <1>4, NothingIsPromised

\* register() starts from nothing, the first time.
LEMMA RegisterCovers ==
  ASSUME TransportInv, RecoveriesCovered, NEW t \in Callers, NEW r \in Serials,
         NEW prepares \in BOOLEAN, Register(t, r, prepares)
  PROVE  RecoveriesCovered'
<1> DEFINE new == [Unregistered EXCEPT !.prepares = prepares, !.version = 0]
           locals == [NoJob EXCEPT !.scope = {r}, !.session = session]
<1>1. /\ registered' = [registered EXCEPT ![r] = @ + 1] /\ UNCHANGED inventory /\ t \in Threads
      /\ registrations' = [registrations EXCEPT ![r] = new] /\ owed' = [owed EXCEPT ![r] = 0]
      /\ UNCHANGED job \/ Enter(t, locals, "read")
  BY DEF Register, world, Threads
<1>2. new.version = 0 /\ locals.launches = {}
  BY DEF Unregistered, NoJob
<1> HIDE DEF new, locals
<1>3. \A s \in Serials : Waiting(s)' \subseteq Waiting(s)
  <2>1. CASE UNCHANGED job
    BY <2>1 DEF Waiting
  <2>2. CASE Enter(t, locals, "read")
    BY <1>1, <1>2, <2>2, GoesOnWithNoMore
  <2> QED
    BY <1>1, <2>1, <2>2
<1>4. /\ registered'[r] = registered[r] + 1 /\ registered[r] \in Nat /\ owed'[r] = 0
      /\ registrations'[r] = new
      /\ \A s \in Serials \ {r} :
           /\ registered'[s] = registered[s] /\ owed'[s] = owed[s] /\ owed[s] \in Int
           /\ registrations'[s] = registrations[s]
  BY <1>1, BoundsAssumption DEF TransportInv, WorldInv, RegistrationsInv
<1>5. ASSUME NEW s \in Serials \ {r}
      PROVE  /\ registered'[s] = 0 => ~IsRegistered(s)' /\ Waiting(s)' = {}
             /\ registered'[s] <= 1 => Covered(s)'
  <2>1. (Undecided(s)' => Undecided(s)) /\ (IsRegistered(s)' => IsRegistered(s))
    BY <1>1, <1>4 DEF Undecided, AbsentIn, IsRegistered
  <2>2. registered[s] <= 1 => Covered(s)'
    BY <1>3, <1>4, <2>1, CoverStays DEF RecoveriesCovered
  <2> QED
    BY <1>3, <1>4, <2>1, <2>2 DEF RecoveriesCovered
<1>6. ASSUME registered'[r] <= 1 PROVE Covered(r)'
  <2>1. Waiting(r) = {}
    BY <1>4, <1>6 DEF RecoveriesCovered
  <2>2. Waiting(r)' = {}
    BY <1>3, <2>1
  <2>3. ~Undecided(r)'
    BY <1>2, <1>4 DEF Undecided, AbsentIn
  <2> QED
    BY <1>4, <2>2, <2>3, FS_EmptySet DEF Covered
<1> QED
  BY <1>4, <1>5, <1>6 DEF RecoveriesCovered

\* A recovery that _apply_snapshot decides is of an absence that begins, or of one that
\* was left to be decided.
LEMMA ApplySnapshotCovers ==
  ASSUME TransportInv, RecoveriesCovered, NEW t \in Threads, ApplySnapshot(t)
  PROVE  RecoveriesCovered'
<1> DEFINE g == job[t].session
           v == job[t].version
           touched == {s \in job[t].scope : IsRegistered(s)}
           recoveries == {s \in touched : ShouldRecover(s, v)}
           locals == [job[t] EXCEPT !.launches = recoveries]
<1>1. UNCHANGED <<registered, inventory>>
  BY DEF ApplySnapshot, world, lifecycle
<1>2. CASE closed
  <2>1. Finish(t) /\ UNCHANGED <<registrations, owed>>
    BY <1>2 DEF ApplySnapshot
  <2> QED
    BY <1>1, <2>1, EndsWithNoMore, SameDecisions, NothingIsPromised
<1>3. CASE ~closed
  <2>1. /\ Enter(t, locals, "publish")
        /\ registrations' =
             [s \in Serials |->
               IF s \in recoveries THEN [Projected(s, g, v) EXCEPT !.attempted = TRUE]
               ELSE IF s \in touched THEN Projected(s, g, v)
               ELSE registrations[s]]
        /\ owed' = [s \in Serials |->
             IF s \in touched /\ AbsenceBegins(s, g, v) THEN owed[s] + 1 ELSE owed[s]]
    BY <1>3 DEF ApplySnapshot
  <2>2. /\ g \in 0 .. MaxGeneration /\ v \in 0 .. MaxVersion
        /\ touched \subseteq Serials /\ recoveries \subseteq touched
        /\ locals.launches = recoveries
    BY JobsOfThreads DEF Jobs
  <2>3. \A s \in touched : registrations[s] \in Registrations
    BY <2>2, SlotsOfSerials DEF IsRegistered
  <2>4. ASSUME NEW s \in touched \ recoveries
        PROVE  /\ Undecided(s)' => AbsentIn(s, v) /\ registrations[s].prepares /\ ~registrations[s].attempted
               /\ registrations'[s] \in Registrations
    <3>1. registrations'[s] = Projected(s, g, v)
      BY <2>1, <2>2, <2>4
    <3>2. /\ Projected(s, g, v) \in Registrations /\ Projected(s, g, v).version = v
          /\ Projected(s, g, v).prepares = registrations[s].prepares
          /\ Projected(s, g, v).attempted <=> registrations[s].attempted /\ AbsentIn(s, v)
      BY <2>2, <2>3, <2>4, ProjectionOf
    <3> HIDE DEF g, v, touched, recoveries
    <3> QED
      BY <1>1, <3>1, <3>2 DEF Undecided, AbsentIn
  <2>5. ASSUME NEW s \in recoveries
        PROVE  ~Undecided(s)' /\ AbsentIn(s, v) /\ registrations[s].prepares /\ ~registrations[s].attempted
    <3>1. registrations'[s] = [Projected(s, g, v) EXCEPT !.attempted = TRUE]
      BY <2>1, <2>2, <2>5
    <3>2. Projected(s, g, v) \in Registrations
      BY <2>2, <2>3, <2>5, ProjectionOf
    <3>3. ShouldRecover(s, v)
      BY <2>5
    <3> HIDE DEF g, v, touched, recoveries
    <3>4. registrations'[s].attempted
      BY <3>1, <3>2, ProjectionAttempted
    <3> QED
      BY <3>3, <3>4 DEF Undecided, ShouldRecover
  <2>6. ASSUME NEW s \in touched, AbsentIn(s, v), registrations[s].prepares, ~registrations[s].attempted
        PROVE  AbsenceBegins(s, g, v) \/ Undecided(s)
    BY <2>6 DEF AbsenceBegins, Undecided
  <2>7. \A s \in Serials \ touched : registrations'[s] = registrations[s] /\ owed'[s] = owed[s]
    BY <2>1, <2>2
  <2>8. /\ \A s \in Serials : owed[s] \in Int
        /\ \A s \in touched : owed'[s] = IF AbsenceBegins(s, g, v) THEN owed[s] + 1 ELSE owed[s]
    BY <2>1, <2>2 DEF TransportInv, WorldInv
  <2> HIDE DEF touched, recoveries, locals
  <2>9. job'[t].launches = recoveries /\ \A u \in Threads \ {t} : job'[u] = job[u]
    BY <2>1, <2>2 DEF Enter, TransportInv, ThreadsInv
  <2>10. \A s \in Serials : /\ Waiting(s)' \subseteq Waiting(s) \cup {t}
                            /\ s \notin recoveries => Waiting(s)' \subseteq Waiting(s)
    BY <2>9 DEF Waiting
  <2>11. ASSUME NEW s \in Serials, registered[s] = 0 PROVE ~IsRegistered(s)' /\ Waiting(s)' = {}
    <3>1. ~IsRegistered(s) /\ Waiting(s) = {}
      BY <2>11 DEF RecoveriesCovered
    <3>2. s \notin touched /\ s \notin recoveries
      BY <2>2, <3>1 DEF touched
    <3> QED
      BY <2>7, <2>10, <3>1, <3>2 DEF IsRegistered
  <2>12. ASSUME NEW s \in Serials, Covered(s) PROVE Covered(s)'
    <3>1. /\ IsFiniteSet(Waiting(s)')
          /\ Cardinality(Waiting(s)) \in Nat /\ Cardinality(Waiting(s)') \in Nat
          /\ Cardinality(Waiting(s)') <= Cardinality(Waiting(s)) + 1
          /\ s \notin recoveries => Cardinality(Waiting(s)') <= Cardinality(Waiting(s))
      BY <2>10, <2>12, WaitersMove
    <3>2. owed[s] >= Cardinality(Waiting(s)) + (IF Undecided(s) THEN 1 ELSE 0)
      BY <2>12 DEF Covered
    <3>3. CASE s \notin touched
      BY <1>1, <2>2, <2>7, <2>8, <2>10, <2>12, <3>3, CoverStays DEF Undecided, AbsentIn
    <3>4. CASE s \in recoveries
      <4>1. owed'[s] >= Cardinality(Waiting(s)) + 1
        BY <2>2, <2>5, <2>6, <2>8, <3>1, <3>2, <3>4
      <4>2. owed'[s] \in Int /\ ~Undecided(s)'
        BY <2>2, <2>5, <2>8, <3>4
      <4> QED
        BY <3>1, <4>1, <4>2 DEF Covered
    <3>5. CASE s \in touched \ recoveries
      <4>1. owed'[s] >= Cardinality(Waiting(s)) + (IF Undecided(s)' THEN 1 ELSE 0)
        <5>1. CASE Undecided(s)'
          BY <2>4, <2>6, <2>8, <3>1, <3>2, <3>5, <5>1
        <5>2. CASE ~Undecided(s)'
          BY <2>8, <3>1, <3>2, <3>5, <5>2
        <5> QED
          BY <5>1, <5>2
      <4>2. owed'[s] \in Int
        BY <2>8, <3>5
      <4>3. CASE Undecided(s)'
        BY <3>1, <3>5, <4>1, <4>2, <4>3 DEF Covered
      <4>4. CASE ~Undecided(s)'
        BY <3>1, <3>5, <4>1, <4>2, <4>4 DEF Covered
      <4> QED
        BY <4>3, <4>4
    <3> QED
      BY <3>3, <3>4, <3>5
  <2> QED
    BY <1>1, <2>11, <2>12 DEF RecoveriesCovered
<1> QED
  BY <1>2, <1>3

\* A thread that launches a recovery waits no more; one that drops it neither.
LEMMA LaunchCovers ==
  ASSUME TransportInv, RecoveriesCovered, NEW t \in Threads, Launch(t)
  PROVE  RecoveriesCovered'
<1>1. at[t] = "launch" /\ UNCHANGED <<registered, inventory>>
  BY DEF Launch, world, lifecycle
<1>2. CASE UNCHANGED <<registrations, owed>> /\ Finish(t)
  BY <1>1, <1>2, EndsWithNoMore, SameDecisions, NothingIsPromised
<1>3. ASSUME NEW s \in job[t].launches, UNCHANGED <<registrations, owed>>,
             Enter(t, [job[t] EXCEPT !.launches = @ \ {s}], "launch")
      PROVE  RecoveriesCovered'
  <2>1. [job[t] EXCEPT !.launches = @ \ {s}].launches \subseteq job[t].launches
    BY JobsOfThreads DEF Jobs
  <2> QED
    BY <1>1, <1>3, <2>1, GoesOnWithNoMore, SameDecisions, NothingIsPromised
<1>4. ASSUME NEW s \in job[t].launches, IsRegistered(s), NEW w \in Workers, at[w] = "idle",
             registrations' = [registrations EXCEPT ![s].thread = w],
             owed' = [owed EXCEPT ![s] = @ - 1],
             job' = [job EXCEPT ![t].launches = @ \ {s}, ![t].workers = {w},
                                ![w] = [NoJob EXCEPT !.scope = {s}]]
      PROVE  RecoveriesCovered'
  <2>1. /\ s \in Serials /\ w \in Threads /\ w # t /\ job \in [Threads -> Jobs] /\ job[t] \in Jobs
        /\ registrations[s] \in Registrations
        /\ registrations \in [Serials -> Registrations \cup {Unregistered}]
    BY <1>1, <1>4, JobsOfThreads, SlotsOfSerials
       DEF Threads, IsRegistered, TransportInv, ThreadsInv, RegistrationsInv
  <2>2. /\ job'[t].launches = job[t].launches \ {s} /\ job'[w].launches = {}
        /\ \A u \in Threads \ {t, w} : job'[u] = job[u]
    <3>1. job'[t] = [job[t] EXCEPT !.launches = @ \ {s}, !.workers = {w}]
      BY <1>4, <2>1
    <3>2. job'[w] = [NoJob EXCEPT !.scope = {s}] /\ \A u \in Threads \ {t, w} : job'[u] = job[u]
      BY <1>4, <2>1
    <3>3. job'[t].launches = job[t].launches \ {s}
      BY <2>1, <3>1 DEF Jobs
    <3> QED
      BY <3>2, <3>3 DEF NoJob
  <2>3. \A r \in Serials : Waiting(r)' \subseteq Waiting(r)
    BY <2>2 DEF Waiting
  <2>4. t \in Waiting(s) /\ Waiting(s)' \subseteq Waiting(s) \ {t}
    BY <1>4, <2>2 DEF Waiting
  <2>5. \A r \in Serials : Undecided(r)' <=> Undecided(r)
    <3>1. registrations'[s] = [registrations[s] EXCEPT !.thread = w]
          /\ \A r \in Serials \ {s} : registrations'[r] = registrations[r]
      BY <1>4, <2>1
    <3>2. /\ registrations'[s].version = registrations[s].version
          /\ registrations'[s].prepares = registrations[s].prepares
          /\ registrations'[s].attempted = registrations[s].attempted
      BY <2>1, <3>1 DEF Registrations
    <3> QED
      BY <1>1, <3>1, <3>2 DEF Undecided, AbsentIn
  <2>6. /\ \A r \in Serials : owed[r] \in Int
        /\ owed'[s] = owed[s] - 1 /\ \A r \in Serials \ {s} : owed'[r] = owed[r]
    BY <1>4, <2>1 DEF TransportInv, WorldInv
  <2>7. ASSUME NEW r \in Serials, registered[r] <= 1 PROVE Covered(r)'
    <3>1. Covered(r)
      BY <2>7 DEF RecoveriesCovered
    <3>2. CASE r # s
      BY <2>3, <2>5, <2>6, <3>1, <3>2, CoverStays
    <3>3. CASE r = s
      <4>1. /\ IsFiniteSet(Waiting(s)')
            /\ Cardinality(Waiting(s)) \in Nat /\ Cardinality(Waiting(s)') \in Nat
            /\ Cardinality(Waiting(s)') + 1 <= Cardinality(Waiting(s))
        BY <2>1, <2>4, <3>1, <3>3, WaitersMove
      <4>2. CASE Undecided(s)
        <5>1. Undecided(s)'
          BY <2>1, <2>5, <4>2
        <5> QED
          BY <2>1, <2>6, <3>1, <3>3, <4>1, <4>2, <5>1 DEF Covered
      <4>3. CASE ~Undecided(s)
        <5>1. ~Undecided(s)'
          BY <2>1, <2>5, <4>3
        <5> QED
          BY <2>1, <2>6, <3>1, <3>3, <4>1, <4>3, <5>1 DEF Covered
      <4> QED
        BY <4>2, <4>3
    <3> QED
      BY <3>2, <3>3
  <2>8. ASSUME NEW r \in Serials, registered[r] = 0 PROVE ~IsRegistered(r)' /\ Waiting(r)' = {}
    <3>1. ~IsRegistered(r) /\ Waiting(r) = {}
      BY <2>8 DEF RecoveriesCovered
    <3>2. r # s
      BY <1>4, <3>1
    <3> QED
      BY <1>4, <2>1, <2>3, <3>1, <3>2 DEF IsRegistered
  <2> QED
    BY <1>1, <2>7, <2>8 DEF RecoveriesCovered
<1> QED
  BY <1>2, <1>3, <1>4 DEF Launch

\* What the finally clause launches is the recovery that was left to be decided.
LEMMA FinallyCovers ==
  ASSUME TransportInv, RecoveriesCovered, NEW w \in Workers, Finally(w)
  PROVE  RecoveriesCovered'
<1>1. at[w] = "finally" /\ w \in Threads /\ UNCHANGED <<registered, inventory, closed, owed>>
  BY DEF Finally, world, lifecycle, Threads
<1>2. PICK s \in Serials : job[w].scope = {s}
  BY <1>1, SerialOfRecovery
<1>3. CASE registrations[s].thread # w
  <2>1. Enter(w, NoJob, "idle") /\ UNCHANGED registrations
    BY <1>2, <1>3 DEF Finally
  <2> QED
    BY <1>1, <2>1, GoesOnWithNoMore, SameDecisions, NothingIsPromised DEF NoJob
<1>4. CASE registrations[s].thread = w
  <2> DEFINE over == [NoJob EXCEPT !.launches = {s}, !.over = TRUE]
             attempted == registrations[s].attempted \/ Relaunch(s)
  <2>1. /\ registrations' = [registrations EXCEPT ![s].thread = NoThread,
                                                  ![s].attempted = @ \/ Relaunch(s)]
        /\ Enter(w, over, IF Relaunch(s) THEN "launch" ELSE "idle")
    BY <1>2, <1>4 DEF Finally
  <2>2. registrations[s] \in Registrations /\ IsRegistered(s)
    BY <1>4, SlotsOfSerials, UnregisteredIsEmpty, ThreadsAssumption DEF Threads, IsRegistered
  <2>3. registrations'[s] = Vacated(registrations[s], attempted)
        /\ \A r \in Serials \ {s} : registrations'[r] = registrations[r]
    BY <2>1, <2>2 DEF Registrations, Vacated, TransportInv, RegistrationsInv
  <2>4. /\ registrations'[s].version = registrations[s].version
        /\ registrations'[s].prepares = registrations[s].prepares
        /\ registrations'[s].attempted <=> registrations[s].attempted \/ Relaunch(s)
    <3>1. attempted \in BOOLEAN
      OBVIOUS
    <3> HIDE DEF attempted
    <3>2. /\ registrations'[s].version = registrations[s].version
          /\ registrations'[s].prepares = registrations[s].prepares
          /\ registrations'[s].attempted = attempted
      BY <2>2, <2>3, <3>1, SlotVacated
    <3> QED
      BY <3>2 DEF attempted
  <2>5. \A r \in Serials : /\ Undecided(r)' => Undecided(r)
                           /\ r # s => (IsRegistered(r)' => IsRegistered(r))
    BY <1>1, <2>3, <2>4 DEF Undecided, AbsentIn, IsRegistered
  <2>6. CASE ~Relaunch(s)
    <3>1. Enter(w, NoJob, "idle")
      BY <2>1, <2>6 DEF Enter
    <3> QED
      BY <1>1, <2>2, <2>5, <3>1, GoesOnWithNoMore, NothingIsPromised DEF NoJob
  <2>7. CASE Relaunch(s)
    <3>1. over.launches = {s}
      BY DEF NoJob
    <3>2. job'[w] = over /\ \A u \in Threads \ {w} : job'[u] = job[u]
      BY <1>1, <2>1, <2>7 DEF Enter, TransportInv, ThreadsInv
    <3> HIDE DEF over, attempted
    <3>3. /\ \A r \in Serials \ {s} : Waiting(r)' \subseteq Waiting(r)
          /\ Waiting(s)' \subseteq Waiting(s) \cup {w}
      BY <3>1, <3>2 DEF Waiting
    <3>4. Undecided(s) /\ ~Undecided(s)'
      BY <2>4, <2>7 DEF Relaunch, Undecided
    <3>5. ASSUME NEW r \in Serials, registered[r] <= 1 PROVE Covered(r)'
      <4>1. Covered(r) /\ owed[r] \in Int /\ owed'[r] = owed[r]
        BY <1>1, <3>5 DEF RecoveriesCovered, TransportInv, WorldInv
      <4>2. CASE r # s
        BY <2>5, <3>3, <4>1, <4>2, CoverStays
      <4>3. CASE r = s
        <5>1. /\ IsFiniteSet(Waiting(s)')
              /\ Cardinality(Waiting(s)) \in Nat /\ Cardinality(Waiting(s)') \in Nat
              /\ Cardinality(Waiting(s)') <= Cardinality(Waiting(s)) + 1
          BY <3>3, <4>1, <4>3, WaitersMove
        <5> QED
          BY <3>4, <4>1, <4>3, <5>1 DEF Covered
      <4> QED
        BY <4>2, <4>3
    <3>6. ASSUME NEW r \in Serials, registered[r] = 0 PROVE ~IsRegistered(r)' /\ Waiting(r)' = {}
      <4>1. ~IsRegistered(r) /\ Waiting(r) = {} /\ r # s
        BY <2>2, <3>6 DEF RecoveriesCovered
      <4> QED
        BY <2>5, <3>3, <4>1
    <3> QED
      BY <1>1, <3>5, <3>6 DEF RecoveriesCovered
  <2> QED
    BY <2>6, <2>7
<1> QED
  BY <1>3, <1>4

LEMMA CoverHolds == Init => RecoveriesCovered
<1> SUFFICES ASSUME Init, NEW s \in Serials PROVE ~IsRegistered(s) /\ Waiting(s) = {} /\ Covered(s)
  BY DEF RecoveriesCovered
<1>1. ~IsRegistered(s) /\ registrations[s] = Unregistered /\ owed[s] = 0
  BY DEF Init, IsRegistered
<1>2. Waiting(s) = {}
  BY DEF Init, Waiting, NoJob
<1>3. ~Undecided(s)
  BY <1>1, UnregisteredIsEmpty DEF Undecided
<1> QED
  BY <1>1, <1>2, <1>3, FS_EmptySet DEF Covered

LEMMA CoverKept == TransportInv /\ RecoveriesCovered /\ [Next]_vars => RecoveriesCovered'
<1> SUFFICES ASSUME TransportInv, RecoveriesCovered, [Next]_vars PROVE RecoveriesCovered'
  OBVIOUS
<1>1. CASE InventoryChanges \/ SessionBegins \/ SessionEnds \/ OnObservationStarted \/ OnSnapshotObserved
  BY <1>1, WorldPromisesNothing
<1>2. CASE \E t \in Callers : Operation(t)
  BY <1>2, RegisterCovers, DepartingPromisesNothing, WorldPromisesNothing DEF Operation
<1>3. CASE \E t \in Threads : Continue(t)
  BY <1>3, CallsPromiseNothing, ApplySnapshotCovers, LaunchCovers DEF Continue
<1>4. CASE \E w \in Workers : Recovery(w)
  BY <1>4, RecoveriesPromiseNothing, FinallyCovers DEF Recovery
<1>5. CASE Rest \/ UNCHANGED vars
  <2>1. UNCHANGED <<inventory, registrations, registered, job, owed>>
    BY <1>5 DEF Rest, vars, world, lifecycle
  <2>2. \A s \in Serials : Waiting(s)' \subseteq Waiting(s)
    BY <2>1 DEF Waiting
  <2> QED
    BY <2>1, <2>2, SameDecisions, NothingIsPromised
<1> QED
  BY <1>1, <1>2, <1>3, <1>4, <1>5 DEF Next

\* At most one recovery is launched for each absence observed (_apply_snapshot, the
\* finally clause of _run_recovery and _launch_recovery), as long as no serial is
\* registered twice: a second registration can be handed a recovery that was decided for
\* the first.
THEOREM RecoveriesAreOwed ==
  ASSUME MaxRegistrations <= 1 PROVE Spec => []OneRecoveryPerAbsence
<1>1. TransportInv /\ RecoveriesCovered => OneRecoveryPerAbsence
  <2> SUFFICES ASSUME TransportInv, RecoveriesCovered, NEW s \in Serials PROVE owed[s] >= 0
    BY DEF OneRecoveryPerAbsence
  <2>1. registered[s] <= 1 /\ owed[s] \in Int
    BY BoundsAssumption DEF TransportInv, WorldInv
  <2>2. Covered(s) /\ Cardinality(Waiting(s)) \in Nat
    BY <2>1, FS_CardinalityType DEF RecoveriesCovered, Covered
  <2>3. CASE Undecided(s)
    BY <2>1, <2>2, <2>3 DEF Covered
  <2>4. CASE ~Undecided(s)
    BY <2>1, <2>2, <2>4 DEF Covered
  <2> QED
    BY <2>3, <2>4
<1> QED
  BY <1>1, TransportInvHolds, TransportInvKept, CoverHolds, CoverKept, PTL DEF Spec
=============================================================================
