--------------------------- MODULE ServerSupervisor ---------------------------
(***************************************************************************)
(* AdbServerSupervisor (adb/supervision/server.py): the threads that keep  *)
(* one ADB server running.  Callers invoke start, stop,                    *)
(* set_recovery_enabled, reconcile and close; recovery attempts run on     *)
(* worker threads; a scheduler delivers retry-due events through the bus.  *)
(*                                                                         *)
(* One step is one `with self._lock` block, one call to the scheduler or   *)
(* the bus, one step of an ensure episode, or one thread operation.  The   *)
(* state lock is therefore implicit; _mutation_lock, which is held across  *)
(* a whole episode, is the variable mutation.                              *)
(***************************************************************************)
EXTENDS Naturals

CONSTANTS
  Callers,         \* application threads calling the public methods
  BusThreads,      \* threads on which the event bus runs handlers
  Workers,         \* bound: attempt threads, reused once they have ended
  NoThread,        \* nobody holds _mutation_lock
  MaxAttempts,     \* policy.max_attempts; 0 stands for None (no limit)
  MaxEpoch,        \* bound: operations that advance recovery_epoch, but close
  AttemptBound,    \* bound: the attempt number that stands for all later ones
  RetriesOutlastScheduling,  \* a retry delay outlasts the few statements that
                             \* follow schedule_after in the scheduling thread
  PublishMayRaise  \* EventBus.publish may raise inside an ensure episode

Threads == Callers \cup BusThreads \cup Workers

ASSUME ThreadsAssumption ==
  /\ Callers \cap BusThreads = {}
  /\ Callers \cap Workers = {}
  /\ BusThreads \cap Workers = {}
  /\ NoThread \notin Threads
ASSUME BoundsAssumption ==
  /\ MaxAttempts \in Nat
  /\ MaxEpoch \in Nat
  /\ AttemptBound \in Nat \ {0}
  /\ MaxAttempts <= AttemptBound
ASSUME SwitchesAssumption ==
  /\ RetriesOutlastScheduling \in BOOLEAN
  /\ PublishMayRaise \in BOOLEAN

VARIABLES
  desired_running, recovery_enabled, recovery_epoch,
  cycle_id,        \* the live cycle, named by the epoch that opened it; 0: None
  retry_token,     \* the stored schedule token, or NoRetry
  closed,
  subscribed,      \* the bus holds the retry-due subscription
  mutation,        \* the thread holding _mutation_lock, or NoThread
  at,              \* at[t]: what thread t does next
  job,             \* job[t]: the locals of the call t is in
  scheduled, due,  \* retries waiting for their delay; retries delivered to the bus
  server,          \* the native ADB server
  exhausted,       \* cycles for which AdbServerRecoveryExhausted was published
  closing          \* what the close() that closed the supervisor has done so far

intent == <<desired_running, recovery_enabled, recovery_epoch, closed>>
recovery == <<cycle_id, retry_token>>
external == <<subscribed, scheduled, due, server, exhausted>>
vars == <<intent, recovery, external, mutation, at, job, closing>>

Cycles == 0 .. MaxEpoch
Attempts == 1 .. AttemptBound

\* AdbServerRecoveryRetryDue events; the token of a registration is its event,
\* which is unique because a cycle schedules each attempt number once (OneDriver).
Retries == [cycle : Cycles, attempt : Attempts]
NoRetry == [cycle |-> 0, attempt |-> 0]

Steps == {"idle", "cancel", "probe", "command", "verify", "satisfied",
          "unsatisfied", "retry", "store", "publish", "launch", "spawn",
          "registered", "acquire", "unsubscribe", "join", "done"}
AfterCancel == {"probe", "launch", "publish", "join", "done"}
Jobs == [want : {"up", "down"}, cycle : Cycles, attempt : Attempts,
         token : Retries \cup {NoRetry}, then : AfterCancel, workers : SUBSET Workers]
\* Mutant: the first attempt of a cycle is numbered 0.
NoJobAtZero == [want |-> "up", cycle |-> 0, attempt |-> 0, token |-> NoRetry,
                then |-> "done", workers |-> {}]

NoJob == [want |-> "up", cycle |-> 0, attempt |-> 1, token |-> NoRetry,
          then |-> "done", workers |-> {}]

(***************************************************************************)
(* Every variable stays in the set of values the code gives it.            *)
(***************************************************************************)
TypeOK ==
  /\ desired_running \in BOOLEAN
  /\ recovery_enabled \in BOOLEAN
  /\ recovery_epoch \in Nat
  /\ cycle_id \in Cycles
  /\ retry_token \in Retries \cup {NoRetry}
  /\ closed \in BOOLEAN
  /\ subscribed \in BOOLEAN
  /\ mutation \in Threads \cup {NoThread}
  /\ at \in [Threads -> Steps]
  /\ job \in [Threads -> Jobs]
  /\ scheduled \subseteq Retries
  /\ due \subseteq Retries
  /\ server \in {"up", "down"}
  /\ exhausted \subseteq Cycles
  /\ closing \in {"no", "running", "returned", "raised"}

Init ==
  /\ desired_running = FALSE
  /\ recovery_enabled = FALSE
  /\ recovery_epoch = 0
  /\ cycle_id = 0
  /\ retry_token = NoRetry
  /\ closed = FALSE
  /\ subscribed = FALSE
  /\ mutation = NoThread
  /\ at = [t \in Threads |-> "idle"]
  /\ job = [t \in Threads |-> NoJob]
  /\ scheduled = {}
  /\ due = {}
  /\ server \in {"up", "down"}
  /\ exhausted = {}
  /\ closing = "no"

-----------------------------------------------------------------------------
Armed == desired_running /\ recovery_enabled        \* _recovery_armed_locked
Current(c) == ~closed /\ Armed /\ cycle_id = c      \* _recovery_is_current_locked
AttemptThreads == {w \in Workers : at[w] # "idle"}  \* _attempt_threads
\* Mutants: the budget is one attempt short; the budget is never enforced.
BudgetedShort(n) == MaxAttempts = 0 \/ n + 1 < MaxAttempts
BudgetedAlways(n) == TRUE

Budgeted(n) == MaxAttempts = 0 \/ n < MaxAttempts

\* Mutant: invalidation clears the token but leaves the cycle live.
ReplaceTokenOnly(c) ==
  /\ cycle_id' = IF c = 0 THEN cycle_id ELSE c
  /\ retry_token' = NoRetry

\* _invalidate_recovery_locked, with the cycle that replaces the old one.
ReplaceCycle(c) ==
  /\ cycle_id' = c
  /\ retry_token' = NoRetry

Goto(t, step) == at' = [at EXCEPT ![t] = step]

\* Thread t goes on to `step` with the given locals, cancelling `token` first if
\* there is one to cancel.
Resume(t, locals, token, step) ==
  IF token = NoRetry
    THEN job' = [job EXCEPT ![t] = locals] /\ Goto(t, step)
    ELSE /\ job' = [job EXCEPT ![t] = [locals EXCEPT !.token = token, !.then = step]]
         /\ Goto(t, "cancel")

\* scheduler.cancel(token): no effect on a retry that already fired.
Cancel(t) ==
  /\ at[t] = "cancel"
  /\ scheduled' = scheduled \ {job[t].token}
  /\ Goto(t, job[t].then)
  /\ job' = [job EXCEPT ![t].token = NoRetry, ![t].then = "done"]
  /\ UNCHANGED <<intent, recovery, subscribed, due, server, exhausted, mutation,
                 closing>>

\* The end of the call; of an attempt thread, _attempt_threads.discard(active).
Return(t) ==
  /\ at[t] = "done"
  /\ Goto(t, "idle")
  /\ job' = [job EXCEPT ![t] = NoJob]
  /\ UNCHANGED <<intent, recovery, external, mutation, closing>>

-----------------------------------------------------------------------------
(* The public operations.  A call the code turns away (closed, not armed,    *)
(* nothing to change) changes nothing and has no step.                       *)

\* start(): both locks are free, so the two acquisitions are one step.
Start(t, enabled) ==
  LET cycle == IF enabled THEN recovery_epoch + 1 ELSE 0 IN
  /\ at[t] = "idle" /\ mutation = NoThread /\ ~closed
  /\ recovery_epoch < MaxEpoch
  /\ mutation' = t
  /\ desired_running' = TRUE
  /\ recovery_enabled' = enabled
  /\ recovery_epoch' = recovery_epoch + 1
  /\ ReplaceCycle(cycle)
  /\ subscribed' = (subscribed \/ enabled)
  /\ Resume(t, [NoJob EXCEPT !.cycle = cycle], retry_token, "probe")
  /\ UNCHANGED <<closed, scheduled, due, server, exhausted, closing>>

Stop(t) ==
  /\ at[t] = "idle" /\ mutation = NoThread /\ ~closed
  /\ recovery_epoch < MaxEpoch
  /\ mutation' = t
  /\ desired_running' = FALSE
  /\ recovery_enabled' = FALSE
  /\ recovery_epoch' = recovery_epoch + 1
  /\ ReplaceCycle(0)
  /\ Resume(t, [NoJob EXCEPT !.want = "down"], retry_token, "probe")
  /\ UNCHANGED <<closed, external, closing>>

SetRecoveryEnabled(t, enabled) ==
  LET cycle == IF enabled THEN recovery_epoch + 1 ELSE 0 IN
  /\ at[t] = "idle" /\ ~closed
  /\ enabled => desired_running
  /\ recovery_enabled # enabled
  /\ recovery_epoch < MaxEpoch
  /\ recovery_enabled' = enabled
  /\ recovery_epoch' = recovery_epoch + 1
  /\ ReplaceCycle(cycle)
  /\ subscribed' = (subscribed \/ enabled)
  /\ Resume(t, [NoJob EXCEPT !.cycle = cycle], retry_token,
            IF enabled THEN "launch" ELSE "done")
  /\ UNCHANGED <<desired_running, closed, scheduled, due, server, exhausted,
                 mutation, closing>>

\* Mutant: reconcile() launches an attempt even when a cycle is under way.
ReconcileAnyway(t) ==
  LET cycle == IF cycle_id = 0 THEN recovery_epoch + 1 ELSE cycle_id IN
  /\ at[t] = "idle" /\ ~closed /\ Armed
  /\ recovery_epoch < MaxEpoch
  /\ recovery_epoch' = recovery_epoch + 1
  /\ cycle_id' = cycle
  /\ subscribed' = TRUE
  /\ Resume(t, [NoJob EXCEPT !.cycle = cycle], NoRetry, "launch")
  /\ UNCHANGED <<desired_running, recovery_enabled, closed, retry_token,
                 scheduled, due, server, exhausted, mutation, closing>>

Reconcile(t) ==
  /\ at[t] = "idle" /\ ~closed /\ Armed /\ cycle_id = 0
  /\ recovery_epoch < MaxEpoch
  /\ recovery_epoch' = recovery_epoch + 1
  /\ cycle_id' = recovery_epoch + 1
  /\ subscribed' = TRUE
  /\ Resume(t, [NoJob EXCEPT !.cycle = recovery_epoch + 1], NoRetry, "launch")
  /\ UNCHANGED <<desired_running, recovery_enabled, closed, retry_token,
                 scheduled, due, server, exhausted, mutation, closing>>

Close(t) ==
  /\ at[t] = "idle" /\ ~closed
  /\ closed' = TRUE
  /\ recovery_enabled' = FALSE
  /\ recovery_epoch' = recovery_epoch + 1
  /\ ReplaceCycle(0)
  /\ Goto(t, "unsubscribe")
  /\ job' = [job EXCEPT ![t] = [NoJob EXCEPT !.workers = AttemptThreads,
                                             !.token = retry_token]]
  /\ closing' = "running"
  /\ UNCHANGED <<desired_running, external, mutation>>

Unsubscribe(t) ==
  /\ at[t] = "unsubscribe"
  /\ subscribed' = FALSE
  /\ Resume(t, [job[t] EXCEPT !.token = NoRetry], job[t].token, "join")
  /\ UNCHANGED <<intent, recovery, scheduled, due, server, exhausted, mutation,
                 closing>>

\* thread.join() on one of the attempt threads close() found alive: it waits for
\* the thread to end, and raises if the thread has not been started yet.
Join(t) ==
  /\ at[t] = "join"
  /\ \/ /\ \E w \in job[t].workers :
             /\ at[w] = "idle"
             /\ job' = [job EXCEPT ![t].workers = @ \ {w}]
        /\ UNCHANGED <<at, closing>>
     \/ /\ \E w \in job[t].workers : at[w] = "registered"
        /\ Goto(t, "done")
        /\ closing' = "raised"
        /\ UNCHANGED job
     \/ /\ job[t].workers = {}
        /\ Goto(t, "done")
        /\ closing' = "returned"
        /\ UNCHANGED job
  /\ UNCHANGED <<intent, recovery, external, mutation>>

-----------------------------------------------------------------------------
(* Attempt threads.                                                          *)

\* Mutant: the attempt is launched without asking whether its cycle is current.
LaunchUnchecked(t) ==
  /\ at[t] = "launch"
  /\ \E w \in Workers :
       /\ at[w] = "idle"
       /\ at' = [at EXCEPT ![t] = "spawn", ![w] = "registered"]
       /\ job' = [job EXCEPT
            ![t].workers = {w},
            ![w] = [NoJob EXCEPT !.cycle = job[t].cycle, !.attempt = job[t].attempt]]
  /\ UNCHANGED <<intent, recovery, external, mutation, closing>>

\* _launch_recovery_attempt up to thread.start(): the currency check and the
\* registration in _attempt_threads are one block.
Launch(t) ==
  /\ at[t] = "launch"
  /\ IF Current(job[t].cycle)
       THEN \E w \in Workers :
              /\ at[w] = "idle"
              /\ at' = [at EXCEPT ![t] = "spawn", ![w] = "registered"]
              /\ job' = [job EXCEPT
                   ![t].workers = {w},
                   ![w] = [NoJob EXCEPT !.cycle = job[t].cycle,
                                        !.attempt = job[t].attempt]]
       ELSE Goto(t, "done") /\ UNCHANGED job
  /\ UNCHANGED <<intent, recovery, external, mutation, closing>>

\* thread.start().
Spawn(t) ==
  /\ at[t] = "spawn"
  /\ at' = [u \in Threads |-> IF u = t THEN "done"
                              ELSE IF u \in job[t].workers THEN "acquire"
                              ELSE at[u]]
  /\ UNCHANGED <<intent, recovery, external, mutation, job, closing>>

\* Mutants: the attempt does not take the mutation lock; it takes the lock but
\* does not ask again whether its cycle is current.
BeginAttemptUnlocked(w) ==
  /\ at[w] = "acquire"
  /\ IF Current(job[w].cycle)
       THEN mutation' = w /\ Goto(w, "probe")
       ELSE Goto(w, "done") /\ UNCHANGED mutation
  /\ UNCHANGED <<intent, recovery, external, job, closing>>

BeginAttemptUnchecked(w) ==
  /\ at[w] = "acquire" /\ mutation = NoThread
  /\ mutation' = w /\ Goto(w, "probe")
  /\ UNCHANGED <<intent, recovery, external, job, closing>>

\* _run_recovery_attempt: the mutation lock, then the currency check inside it.
BeginAttempt(w) ==
  /\ at[w] = "acquire" /\ mutation = NoThread
  /\ IF Current(job[w].cycle)
       THEN mutation' = w /\ Goto(w, "probe")
       ELSE Goto(w, "done") /\ UNCHANGED mutation
  /\ UNCHANGED <<intent, recovery, external, job, closing>>

-----------------------------------------------------------------------------
(* The ensure episode: probe, at most one command, probes until the          *)
(* condition holds or the deadline passes.                                   *)

\* The episode is over and _mutation_lock released; a caller without a cycle
\* (stop, start with recovery disabled) returns.
EndEpisode(t, step) ==
  /\ mutation' = NoThread
  /\ Goto(t, IF job[t].cycle = 0 THEN "done" ELSE step)

\* A probe may find the wanted condition only if it holds; it may miss it (any
\* AdbError but a refused connection is INDETERMINATE).
Probe(t) ==
  /\ at[t] = "probe"
  /\ \/ server = job[t].want /\ EndEpisode(t, "satisfied")
     \/ Goto(t, "command") /\ UNCHANGED mutation
  /\ UNCHANGED <<intent, recovery, external, job, closing>>

Command(t) ==
  /\ at[t] = "command"
  /\ server' \in {server, job[t].want}
  /\ Goto(t, "verify")
  /\ UNCHANGED <<intent, recovery, subscribed, scheduled, due, exhausted,
                 mutation, job, closing>>

\* Mutant: the verification loop has no deadline.
VerifyForever(t) ==
  /\ at[t] = "verify"
  /\ server = job[t].want /\ EndEpisode(t, "satisfied")
  /\ UNCHANGED <<intent, recovery, external, job, closing>>

Verify(t) ==
  /\ at[t] = "verify"
  /\ \/ server = job[t].want /\ EndEpisode(t, "satisfied")
     \/ EndEpisode(t, "unsatisfied")
  /\ UNCHANGED <<intent, recovery, external, job, closing>>

\* A subscriber's failure surfaces from a publish inside the episode: the lock is
\* released, _handle_recovery_result is skipped, the cycle is left as it is.
EpisodeRaises(t) ==
  /\ PublishMayRaise
  /\ at[t] \in {"probe", "verify"}
  /\ EndEpisode(t, "done")
  /\ UNCHANGED <<intent, recovery, external, job, closing>>

-----------------------------------------------------------------------------
(* What an attempt's result does to its cycle.                               *)

\* _end_recovery_cycle, going on to `step`.
EndCycle(t, step) ==
  IF cycle_id = job[t].cycle
    THEN ReplaceCycle(0) /\ Resume(t, job[t], retry_token, step)
    ELSE UNCHANGED recovery /\ Resume(t, job[t], NoRetry, step)

HandleSatisfied(t) ==
  /\ at[t] = "satisfied"
  /\ EndCycle(t, "done")
  /\ UNCHANGED <<intent, external, mutation, closing>>

HandleUnsatisfied(t) ==
  /\ at[t] = "unsatisfied"
  /\ Goto(t, IF Current(job[t].cycle) THEN "retry" ELSE "done")
  /\ UNCHANGED <<intent, recovery, external, mutation, job, closing>>

\* _schedule_retry_or_exhaust, first branch.
Exhaust(t) ==
  /\ at[t] = "retry" /\ ~Budgeted(job[t].attempt)
  /\ EndCycle(t, "publish")
  /\ UNCHANGED <<intent, external, mutation, closing>>

Publish(t) ==
  /\ at[t] = "publish"
  /\ exhausted' = exhausted \cup {job[t].cycle}
  /\ Goto(t, "done")
  /\ UNCHANGED <<intent, recovery, subscribed, scheduled, due, server, mutation,
                 job, closing>>

\* Without a budget the attempt number only feeds the delay: it stays at the bound.
NextRetry(t) ==
  [cycle |-> job[t].cycle,
   attempt |-> IF job[t].attempt < AttemptBound THEN job[t].attempt + 1
                                                ELSE AttemptBound]

\* _schedule_retry_or_exhaust, second branch up to schedule_after.
Schedule(t) ==
  /\ at[t] = "retry" /\ Budgeted(job[t].attempt)
  /\ scheduled' = scheduled \cup {NextRetry(t)}
  /\ Goto(t, "store")
  /\ UNCHANGED <<intent, recovery, subscribed, due, server, exhausted, mutation,
                 job, closing>>

\* Mutant: the registration just made is cancelled even for the live cycle.
StoreTokenNever(t) ==
  /\ at[t] = "store"
  /\ scheduled' = scheduled \ {NextRetry(t)}
  /\ Goto(t, "done")
  /\ UNCHANGED <<intent, recovery, subscribed, due, server, exhausted, mutation,
                 job, closing>>

\* The block that follows it: keep the token, or cancel it if the cycle is stale.
StoreToken(t) ==
  /\ at[t] = "store"
  /\ IF Current(job[t].cycle)
       THEN /\ retry_token' = NextRetry(t)
            /\ Resume(t, job[t], retry_token, "done")
            /\ UNCHANGED scheduled
       ELSE /\ scheduled' = scheduled \ {NextRetry(t)}
            /\ Goto(t, "done")
            /\ UNCHANGED <<retry_token, job>>
  /\ UNCHANGED <<intent, cycle_id, subscribed, due, server, exhausted, mutation,
                 closing>>

-----------------------------------------------------------------------------
(* The scheduler, the bus and the native server.                             *)

RetryFires(r) ==
  /\ r \in scheduled
  /\ RetriesOutlastScheduling =>
       ~ \E t \in Threads : at[t] = "store" /\ r = NextRetry(t)
  /\ scheduled' = scheduled \ {r}
  /\ due' = due \cup {r}
  /\ UNCHANGED <<intent, recovery, subscribed, server, exhausted, mutation, at,
                 job, closing>>

\* Mutant: the token of the retry that fired stays stored.
OnRetryDueKeepingToken(b, r) ==
  /\ at[b] = "idle" /\ r \in due
  /\ due' = due \ {r}
  /\ IF subscribed /\ Current(r.cycle)
       THEN Resume(b, [NoJob EXCEPT !.cycle = r.cycle, !.attempt = r.attempt],
                   NoRetry, "launch")
       ELSE UNCHANGED <<at, job>>
  /\ UNCHANGED <<intent, recovery, subscribed, scheduled, server, exhausted,
                 mutation, closing>>

\* The bus hands a due retry to _on_retry_due, or drops it without a subscriber.
OnRetryDue(b, r) ==
  /\ at[b] = "idle" /\ r \in due
  /\ due' = due \ {r}
  /\ IF subscribed /\ Current(r.cycle)
       THEN /\ retry_token' = NoRetry
            /\ Resume(b, [NoJob EXCEPT !.cycle = r.cycle, !.attempt = r.attempt],
                      NoRetry, "launch")
       ELSE UNCHANGED <<retry_token, at, job>>
  /\ UNCHANGED <<intent, cycle_id, subscribed, scheduled, server, exhausted,
                 mutation, closing>>

\* The server dies on its own.
ServerCrashes ==
  /\ server = "up"
  /\ server' = "down"
  /\ UNCHANGED <<intent, recovery, subscribed, scheduled, due, exhausted,
                 mutation, at, job, closing>>

\* Nothing is under way: the system may rest here forever.
Rest ==
  /\ \A t \in Threads : at[t] = "idle"
  /\ UNCHANGED vars

-----------------------------------------------------------------------------
Operation(t) ==
  \/ \E enabled \in BOOLEAN : Start(t, enabled) \/ SetRecoveryEnabled(t, enabled)
  \/ Stop(t)
  \/ Reconcile(t)
  \/ Close(t)

\* The next step of the call or attempt that thread t is in.
Continue(t) ==
  \/ Cancel(t) \/ Return(t) \/ Unsubscribe(t) \/ Join(t)
  \/ Launch(t) \/ Spawn(t) \/ BeginAttempt(t)
  \/ Probe(t) \/ Command(t) \/ Verify(t) \/ EpisodeRaises(t)
  \/ HandleSatisfied(t) \/ HandleUnsatisfied(t)
  \/ Exhaust(t) \/ Publish(t) \/ Schedule(t) \/ StoreToken(t)

Next ==
  \/ \E t \in Callers : Operation(t)
  \/ \E t \in Threads : Continue(t)
  \/ \E r \in Retries : RetryFires(r)
  \/ \E b \in BusThreads, r \in Retries : OnRetryDue(b, r)
  \/ ServerCrashes
  \/ Rest

Spec == Init /\ [][Next]_vars


-----------------------------------------------------------------------------
(* Properties.                                                               *)

InEpisode(t) == at[t] \in {"probe", "command", "verify"}

\* Thread t is the one that will take cycle c further: its caller is starting it
\* or an attempt of it is launched, running or being judged.
Drives(t, c) ==
  /\ c # 0 /\ job[t].cycle = c
  /\ \/ InEpisode(t)
     \/ at[t] \in {"satisfied", "unsatisfied", "retry", "launch",
                   "registered", "acquire"}
     \/ at[t] = "cancel" /\ job[t].then \in {"probe", "launch"}

\* _mutation_lock serializes the episodes, and so the native start and stop
\* commands, of start(), stop() and the recovery attempts.
OneEpisode ==
  \A t, u \in Threads : InEpisode(t) /\ InEpisode(u) => t = u

\* A recovery attempt inside its episode is never one that a stop() overtook: the
\* server is still wanted, whatever became of the attempt's cycle meanwhile.
AttemptsOnlyWhileWanted ==
  \A w \in Workers : InEpisode(w) => desired_running

\* The supervisor brings the server up only while it is wanted: no attempt, timer
\* or launch left over from before a stop() undoes it.
StopSticks ==
  [][server = "down" /\ server' = "up" => desired_running]_vars

\* No cycle is driven twice at once: at most one thread or one pending retry
\* carries a cycle, so its attempts never overlap and are numbered one by one.
OneDriver ==
  /\ \A t, u \in Threads : \A c \in Cycles : Drives(t, c) /\ Drives(u, c) => t = u
  /\ \A r, q \in scheduled \cup due : r.cycle = q.cycle => r = q
  /\ scheduled \cap due = {}
  /\ \A r \in scheduled \cup due, t \in Threads : ~Drives(t, r.cycle)

\* A live cycle is never abandoned: somebody will run, judge or retry it.
LiveCycleIsDriven ==
  cycle_id # 0 =>
    \/ \E t \in Threads : Drives(t, cycle_id)
    \/ \E r \in scheduled \cup due : r.cycle = cycle_id

\* The stored token is the pending retry of the live cycle, the one a later
\* start, stop, disable or close has to cancel.
StoredTokenIsPending ==
  retry_token # NoRetry =>
    retry_token.cycle = cycle_id /\ retry_token \in scheduled \cup due

\* Exhaustion is announced once per cycle, when the cycle is over, nobody drives
\* it any more and its whole budget of attempts has been spent.
ExhaustedTruthfully ==
  \A t \in Threads :
    at[t] = "publish" => /\ job[t].cycle \notin exhausted
                         /\ job[t].cycle # cycle_id
                         /\ ~ \E u \in Threads : Drives(u, job[t].cycle)
                         /\ job[t].attempt = MaxAttempts

\* A live cycle has the intent, the gate and the subscription it depends on.
LiveCycleIsArmed ==
  cycle_id # 0 => Armed /\ ~closed /\ subscribed

\* When close() has returned, no attempt thread is left to act on the server.
ClosedIsQuiet ==
  closing = "returned" => \A w \in Workers : at[w] = "idle"

-----------------------------------------------------------------------------
(* Why it works: the inductive invariant behind the episode properties.      *)

\* The stretch of a call or attempt that runs under _mutation_lock.
InMutation(t) == InEpisode(t) \/ (at[t] = "cancel" /\ job[t].then = "probe")

\* The lock is held by exactly the thread inside that stretch.
LockIsHeld == \A t \in Threads : InMutation(t) <=> mutation = t

\* The intent cannot change under the holder: stop() and start() need the lock too.
HolderFollowsIntent ==
  \A t \in Threads : InMutation(t) => ((job[t].want = "up") <=> desired_running)

\* A thread about to start workers is the only one that will, and they wait for it.
SpawnersOwnWorkers ==
  \A t \in Threads : at[t] = "spawn" =>
    /\ \A w \in job[t].workers : w \in Workers /\ at[w] = "registered"
    /\ \A u \in Threads : at[u] = "spawn" /\ u # t => job[u].workers \cap job[t].workers = {}

\* Attempts only ever start the server.
AttemptsStart ==
  /\ \A w \in Workers : job[w].want = "up"
  /\ \A t \in Threads : at[t] \in {"registered", "acquire"} => t \in Workers

EpisodeInv == LockIsHeld /\ HolderFollowsIntent /\ SpawnersOwnWorkers /\ AttemptsStart

-----------------------------------------------------------------------------
(* What the endpoint sees: the supervisor implements ServerIntent, where     *)
(* managed starts and stops come one at a time and follow the intent.        *)

\* What the holder of _mutation_lock is doing to the endpoint.
Activity ==
  IF mutation = NoThread THEN "none"
  ELSE IF job[mutation].want = "up" THEN "starting" ELSE "stopping"

Endpoint == INSTANCE ServerIntent WITH
  wanted <- desired_running,
  armed <- Armed /\ ~closed,
  activity <- Activity

\* Every behaviour of the threads, locks and timers is a behaviour of ServerIntent.
ImplementsIntent == Endpoint!Spec

-----------------------------------------------------------------------------
(* Liveness.  Threads that have been started run, the scheduler fires every  *)
(* retry that is not cancelled and the bus delivers it; callers may stop     *)
(* calling and nothing is assumed of the native server.                      *)

Fairness ==
  /\ \A t \in Threads : WF_vars(Continue(t))
  /\ \A r \in Retries : WF_vars(RetryFires(r))
  /\ \A r \in Retries : WF_vars(\E b \in BusThreads : OnRetryDue(b, r))

FairSpec == Spec /\ Fairness

\* With a budget of attempts every recovery cycle ends: satisfied, exhausted or
\* superseded.
CycleEnds == \A c \in 1 .. MaxEpoch : cycle_id = c ~> cycle_id # c

\* Every call returns, close() with its joins included.
CallsReturn == \A t \in Callers : at[t] # "idle" ~> at[t] = "idle"

=============================================================================
