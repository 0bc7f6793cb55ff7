-------------------------- MODULE DevicesObservation --------------------------
(***************************************************************************)
(* AdbDevicesObservationSupervisor (adb/supervision/devices_observation.py)*)
(* with the establishment episodes it runs                                 *)
(* (adb/transport/observation/establishment.py), on top of the observer    *)
(* whose sessions it keeps alive.                                          *)
(*                                                                         *)
(* A step is one `with self._lock` block, one call to the observer, the    *)
(* scheduler or the bus, or one thread operation.  The bus runs the        *)
(* handlers of a session's signals on the thread of that session.          *)
(***************************************************************************)
EXTENDS DevicesObserver, Sequences

CONSTANTS
  BusThreads,      \* threads on which the event bus runs the retry handler
  Workers,         \* bound: attempt threads, reused once they have ended
  NoThread,        \* _attempt_thread is None
  MaxAttempts,     \* policy.max_attempts; 0 stands for None (no limit)
  AttemptBound,    \* bound: the attempt number that stands for all later ones
  RetriesOutlastScheduling,  \* a retry delay outlasts the few statements that
                             \* follow schedule_after in the scheduling thread
  SessionsOutliveAdoption    \* a session that has started does not fail before the
                             \* episode that waits for it has adopted it

Threads == Clients \cup BusThreads \cup Workers \cup Sessions

ASSUME ThreadsAssumption ==
  /\ Clients \cap (BusThreads \cup Workers \cup Sessions) = {}
  /\ BusThreads \cap (Workers \cup Sessions) = {}
  /\ Workers \cap Sessions = {}
  /\ NoThread \notin Threads
ASSUME BoundsAssumption ==
  /\ MaxAttempts \in Nat
  /\ AttemptBound \in Nat \ {0}
  /\ MaxAttempts <= AttemptBound
ASSUME SwitchesAssumption ==
  /\ RetriesOutlastScheduling \in BOOLEAN
  /\ SessionsOutliveAdoption \in BOOLEAN

VARIABLES
  current,         \* _current_session_id, the session whose failure matters; 0: None
  cycle_id,        \* the live establishment cycle; 0: None
  cycles,          \* cycles opened so far: the source of fresh cycle ids
  retry_token,     \* the stored schedule token, or NoRetry
  attempt_thread,  \* _attempt_thread
  subscribed,      \* start() has subscribed the two handlers
  closed,
  at,              \* at[t]: what thread t does next
  job,             \* job[t]: the locals of the call t is in
  inbox,           \* inbox[t]: the signals collected by the episode t is in
  scheduled, due,  \* retries waiting for their delay; retries delivered to the bus
  exhausted,       \* cycles whose exhaustion has been published
  answered,        \* sessions that a cycle has been opened, or was under way, to replace
  closing          \* what the close() that closed the supervisor has done so far

lifecycle == <<subscribed, closed, closing>>
recovery == <<cycle_id, cycles, retry_token>>
timers == <<scheduled, due>>
history == <<exhausted, answered>>
vars == <<observer, current, recovery, attempt_thread, lifecycle, at, job, inbox,
          timers, history>>

Cycles == 0 .. (MaxGeneration + 1)
Attempts == 1 .. AttemptBound
Retries == [cycle : Cycles, attempt : Attempts]
NoRetry == [cycle |-> 0, attempt |-> 0]
Signals == [session : Sessions, kind : Failures \cup {"started", "stopped"}]

Steps == {"idle", "cancel", "begin", "await", "satisfied", "unsatisfied", "end",
          "retry", "store", "publish", "launch", "spawn", "registered", "observer",
          "closed observer", "join"}
AfterCancel == {"publish", "observer", "idle"}
Jobs == [cycle : Cycles, attempt : Attempts, session : Sessions \cup {0},
         failure : Failures \cup {"none"}, token : Retries \cup {NoRetry},
         then : AfterCancel, worker : Workers \cup {NoThread}]
\* Mutant: the first attempt of a cycle is numbered 0.
NoJobAtZero == [cycle |-> 0, attempt |-> 0, session |-> 0, failure |-> "none",
                token |-> NoRetry, then |-> "idle", worker |-> NoThread]

NoJob == [cycle |-> 0, attempt |-> 1, session |-> 0, failure |-> "none",
          token |-> NoRetry, then |-> "idle", worker |-> NoThread]

(***************************************************************************)
(* Every variable stays in the set of values the code gives it.            *)
(***************************************************************************)
TypeOK ==
  /\ ObserverTypeOK
  /\ current \in Sessions \cup {0}
  /\ cycle_id \in Cycles /\ cycles \in Cycles
  /\ retry_token \in Retries \cup {NoRetry}
  /\ attempt_thread \in Workers \cup {NoThread}
  /\ subscribed \in BOOLEAN /\ closed \in BOOLEAN
  /\ at \in [Threads -> Steps]
  /\ job \in [Threads -> Jobs]
  /\ inbox \in [Threads -> Seq(Signals)]
  /\ scheduled \subseteq Retries /\ due \subseteq Retries
  /\ exhausted \subseteq Cycles /\ answered \subseteq Sessions
  /\ closing \in {"no", "running", "returned", "raised"}

\* The observer may already have a session when the supervisor is constructed.
Init ==
  /\ \/ ObserverInit
     \/ /\ MaxGeneration > 0
        /\ generation = 1 /\ active = 1 /\ observer_closed = FALSE
        /\ source_closed = {}
        /\ stage = [g \in Sessions |-> IF g = 1 THEN "opening" ELSE "none"]
        /\ terminal = [g \in Sessions |-> "none"]
        /\ call = [t \in Clients |-> NoCall]
  /\ current = active
  /\ cycle_id = 0 /\ cycles = 0
  /\ retry_token = NoRetry
  /\ attempt_thread = NoThread
  /\ subscribed = FALSE /\ closed = FALSE
  /\ at = [t \in Threads |-> "idle"]
  /\ job = [t \in Threads |-> NoJob]
  /\ inbox = [t \in Threads |-> <<>>]
  /\ scheduled = {} /\ due = {}
  /\ exhausted = {} /\ answered = {}
  /\ closing = "no"

-----------------------------------------------------------------------------
Current(c) == ~closed /\ cycle_id = c

\* Mutant: the budget is never enforced.
BudgetedAlways(n) == TRUE

Budgeted(n) == MaxAttempts = 0 \/ n < MaxAttempts

Goto(t, step) == at' = [at EXCEPT ![t] = step]

\* Thread t goes on to `step` with the given locals; at "idle" its call is over.
Enter(t, locals, step) ==
  /\ Goto(t, step)
  /\ job' = [job EXCEPT ![t] = IF step = "idle" THEN NoJob ELSE locals]

Finish(t) == Enter(t, NoJob, "idle")

\* The same, after cancelling `token` if there is one to cancel.
Resume(t, locals, token, step) ==
  IF token = NoRetry
    THEN Enter(t, locals, step)
    ELSE Enter(t, [locals EXCEPT !.token = token, !.then = step], "cancel")

Cancel(t) ==
  /\ at[t] = "cancel"
  /\ scheduled' = scheduled \ {job[t].token}
  /\ Enter(t, [job[t] EXCEPT !.token = NoRetry, !.then = "idle"], job[t].then)
  /\ UNCHANGED <<observer, current, recovery, attempt_thread, lifecycle, inbox, due,
                 history>>

\* Free to call the supervisor or the observer.
Idle(t) == at[t] = "idle" /\ call[t] = NoCall

-----------------------------------------------------------------------------
(* start() and close().                                                      *)

Start(t) ==
  /\ Idle(t) /\ ~closed /\ ~subscribed
  /\ subscribed' = TRUE
  /\ cycle_id' = cycles + 1 /\ cycles' = cycles + 1
  /\ Goto(t, "begin")
  /\ job' = [job EXCEPT ![t] = [NoJob EXCEPT !.cycle = cycles + 1]]
  /\ answered' = {current} \ {0}
  /\ UNCHANGED <<observer, current, retry_token, attempt_thread, closed, closing,
                 inbox, timers, exhausted>>

\* The handlers test _closed themselves, so unsubscribing them has no step.
Close(t) ==
  /\ Idle(t) /\ ~closed
  /\ closed' = TRUE
  /\ cycle_id' = 0 /\ retry_token' = NoRetry
  /\ closing' = "running"
  /\ Resume(t, [NoJob EXCEPT !.worker = attempt_thread], retry_token, "observer")
  /\ UNCHANGED <<observer, current, cycles, attempt_thread, subscribed, inbox,
                 timers, history>>

\* self._observation.close() begins here and ends in ObserverIsClosed.
CloseObservation(t) ==
  /\ at[t] = "observer"
  /\ IF observer_closed THEN UNCHANGED observer ELSE CloseObserver(t)
  /\ Goto(t, "closed observer")
  /\ UNCHANGED <<current, recovery, attempt_thread, lifecycle, job, inbox, timers,
                 history>>

ObserverIsClosed(t) ==
  /\ at[t] = "closed observer" /\ call[t] = NoCall
  /\ Goto(t, "join")
  /\ UNCHANGED <<observer, current, recovery, attempt_thread, lifecycle, job, inbox,
                 timers, history>>

\* attempt_thread.join(): raises if that thread has not been started yet.
Join(t) ==
  /\ at[t] = "join"
  /\ LET w == job[t].worker IN
     \/ w = NoThread /\ closing' = "returned"
     \/ w # NoThread /\ at[w] = "idle" /\ closing' = "returned"
     \/ w # NoThread /\ at[w] = "registered" /\ closing' = "raised"
  /\ Finish(t)
  /\ UNCHANGED <<observer, current, recovery, attempt_thread, subscribed, closed, inbox,
                 timers, history>>

-----------------------------------------------------------------------------
(* Attempt threads.                                                          *)

\* _launch_establishment_attempt up to thread.start().
Launch(t) ==
  /\ at[t] = "launch"
  /\ IF Current(job[t].cycle) /\ attempt_thread = NoThread
       THEN \E w \in Workers :
              /\ at[w] = "idle"
              /\ attempt_thread' = w
              /\ at' = [at EXCEPT ![t] = "spawn", ![w] = "registered"]
              /\ job' = [job EXCEPT
                   ![t].worker = w,
                   ![w] = [NoJob EXCEPT !.cycle = job[t].cycle,
                                        !.attempt = job[t].attempt]]
       ELSE Finish(t) /\ UNCHANGED attempt_thread
  /\ UNCHANGED <<observer, current, recovery, lifecycle, inbox, timers, history>>

Spawn(t) ==
  /\ at[t] = "spawn"
  /\ at' = [at EXCEPT ![t] = "idle", ![job[t].worker] = "begin"]
  /\ job' = [job EXCEPT ![t] = NoJob]
  /\ UNCHANGED <<observer, current, recovery, attempt_thread, lifecycle, inbox, timers,
                 history>>

-----------------------------------------------------------------------------
(* The establishment episode, by start() itself or by an attempt thread.     *)

Unsatisfied(t, failure) ==
  /\ Goto(t, "unsatisfied")
  /\ job' = [job EXCEPT ![t].failure = failure]
  /\ inbox' = [inbox EXCEPT ![t] = <<>>]

\* Subscribe, then observation.start(): its RuntimeError is a failed episode, as is
\* a deadline that has passed already.
Begin(t) ==
  /\ at[t] = "begin"
  /\ \/ /\ StartSession
        /\ Goto(t, "await")
        /\ job' = [job EXCEPT ![t].session = generation + 1]
        /\ UNCHANGED inbox
     \/ Unsatisfied(t, "none") /\ UNCHANGED observer
  /\ UNCHANGED <<current, recovery, attempt_thread, lifecycle, timers, history>>

\* The next collected signal; those of other sessions are passed over.
Receive(t) ==
  /\ at[t] = "await" /\ inbox[t] # <<>>
  /\ LET signal == Head(inbox[t]) IN
       CASE signal.session # job[t].session ->
              inbox' = [inbox EXCEPT ![t] = Tail(@)] /\ UNCHANGED <<at, job>>
         [] signal.session = job[t].session /\ signal.kind = "started" ->
              /\ Goto(t, "satisfied")
              /\ inbox' = [inbox EXCEPT ![t] = <<>>]
              /\ UNCHANGED job
         [] signal.session = job[t].session /\ signal.kind = "stopped" ->
              Unsatisfied(t, "none")
         [] OTHER -> Unsatisfied(t, signal.kind)
  /\ UNCHANGED <<observer, current, recovery, attempt_thread, lifecycle, timers, history>>

\* The deadline; a signal already collected would be handled first.
TimeOut(t) ==
  /\ at[t] = "await" /\ inbox[t] = <<>>
  /\ Unsatisfied(t, "none")
  /\ UNCHANGED <<observer, current, recovery, attempt_thread, lifecycle, timers, history>>

-----------------------------------------------------------------------------
(* What an episode's result does to its cycle.                               *)

\* Mutant: an attempt that is over stays in the slot.
KeepSlot(t) == UNCHANGED attempt_thread

LeaveSlot(t) == attempt_thread' = IF attempt_thread = t THEN NoThread ELSE attempt_thread

\* Mutant: a result is adopted whether or not its cycle is still the live one.
AdoptUnchecked(t) ==
  /\ at[t] = "satisfied"
  /\ LeaveSlot(t)
  /\ current' = job[t].session
  /\ cycle_id' = 0 /\ retry_token' = NoRetry
  /\ Resume(t, job[t], retry_token, "idle")
  /\ UNCHANGED <<observer, cycles, lifecycle, inbox, timers, history>>

\* _complete_establishment_cycle.
Adopt(t) ==
  /\ at[t] = "satisfied"
  /\ LeaveSlot(t)
  /\ IF Current(job[t].cycle)
       THEN /\ current' = job[t].session
            /\ cycle_id' = 0 /\ retry_token' = NoRetry
            /\ Resume(t, job[t], retry_token, "idle")
       ELSE Finish(t) /\ UNCHANGED <<current, cycle_id, retry_token>>
  /\ UNCHANGED <<observer, cycles, lifecycle, inbox, timers, history>>

\* _handle_establishment_result without a session: start() does not ask whether
\* its cycle is still current.
Judge(t) ==
  /\ at[t] = "unsatisfied"
  /\ LeaveSlot(t)
  /\ Enter(t, [job[t] EXCEPT !.session = 0, !.failure = "none"],
           IF t \in Workers /\ ~Current(job[t].cycle) THEN "idle"
           ELSE IF job[t].failure = "service" THEN "end" ELSE "retry")
  /\ UNCHANGED <<observer, current, recovery, lifecycle, inbox, timers, history>>

\* _end_establishment_cycle, going on to `step`.
EndCycle(t, step) ==
  IF cycle_id = job[t].cycle
    THEN /\ cycle_id' = 0 /\ retry_token' = NoRetry
         /\ Resume(t, job[t], retry_token, step)
    ELSE UNCHANGED <<cycle_id, retry_token>> /\ Resume(t, job[t], NoRetry, step)

End(t) ==
  /\ at[t] = "end"
  /\ EndCycle(t, "idle")
  /\ UNCHANGED <<observer, current, cycles, attempt_thread, lifecycle, inbox, timers,
                 history>>

Exhaust(t) ==
  /\ at[t] = "retry" /\ ~Budgeted(job[t].attempt)
  /\ EndCycle(t, "publish")
  /\ UNCHANGED <<observer, current, cycles, attempt_thread, lifecycle, inbox, timers,
                 history>>

Publish(t) ==
  /\ at[t] = "publish"
  /\ exhausted' = exhausted \cup {job[t].cycle}
  /\ Finish(t)
  /\ UNCHANGED <<observer, current, recovery, attempt_thread, lifecycle, inbox, timers,
                 answered>>

\* Without a budget the attempt number only feeds the delay: it stays at the bound.
NextRetry(t) ==
  [cycle |-> job[t].cycle,
   attempt |-> IF job[t].attempt < AttemptBound THEN job[t].attempt + 1
                                                ELSE AttemptBound]

Schedule(t) ==
  /\ at[t] = "retry" /\ Budgeted(job[t].attempt)
  /\ scheduled' = scheduled \cup {NextRetry(t)}
  /\ Goto(t, "store")
  /\ UNCHANGED <<observer, current, recovery, attempt_thread, lifecycle, job, inbox,
                 due, history>>

\* Mutant: the registration just made is cancelled even for the live cycle.
StoreTokenNever(t) ==
  /\ at[t] = "store"
  /\ scheduled' = scheduled \ {NextRetry(t)}
  /\ Finish(t)
  /\ UNCHANGED <<observer, current, recovery, attempt_thread, lifecycle, inbox, due,
                 history>>

StoreToken(t) ==
  /\ at[t] = "store"
  /\ IF Current(job[t].cycle)
       THEN /\ retry_token' = NextRetry(t)
            /\ Resume(t, job[t], retry_token, "idle")
            /\ UNCHANGED scheduled
       ELSE /\ scheduled' = scheduled \ {NextRetry(t)}
            /\ Finish(t)
            /\ UNCHANGED retry_token
  /\ UNCHANGED <<observer, current, cycle_id, cycles, attempt_thread, lifecycle, inbox,
                 due, history>>

-----------------------------------------------------------------------------
(* The scheduler and the bus.                                                *)

RetryFires(r) ==
  /\ r \in scheduled
  /\ RetriesOutlastScheduling =>
       ~ \E t \in Threads : at[t] = "store" /\ r = NextRetry(t)
  /\ scheduled' = scheduled \ {r}
  /\ due' = due \cup {r}
  /\ UNCHANGED <<observer, current, recovery, attempt_thread, lifecycle, at, job,
                 inbox, history>>

OnRetryDue(b, r) ==
  /\ at[b] = "idle" /\ r \in due
  /\ due' = due \ {r}
  /\ IF Current(r.cycle)
       THEN /\ retry_token' = NoRetry
            /\ Resume(b, [NoJob EXCEPT !.cycle = r.cycle, !.attempt = r.attempt],
                      NoRetry, "launch")
       ELSE UNCHANGED <<retry_token, at, job>>
  /\ UNCHANGED <<observer, current, cycle_id, cycles, attempt_thread, lifecycle, inbox,
                 scheduled, history>>

\* The signal of session g reaches the episodes that wait for signals.
Collected(g, kind) ==
  inbox' = [t \in Threads |-> IF at[t] = "await"
                                THEN Append(inbox[t], [session |-> g, kind |-> kind])
                                ELSE inbox[t]]

SessionStarts(g) ==
  /\ \/ PublishStarted(g)
     \/ stage[g] = "started" /\ PublishRaises(g)
  /\ Collected(g, "started")
  /\ UNCHANGED <<current, recovery, attempt_thread, lifecycle, at, job, timers, history>>

\* The steps of a session's thread that the supervisor does not see.
SessionRuns(g) ==
  /\ \/ Open(g) \/ MarkInactive(g)
     \/ stage[g] = "streaming" /\ PublishRaises(g)
     \/ /\ Stream(g)
        /\ SessionsOutliveAdoption =>
             ~ \E t \in Threads : at[t] \in {"await", "satisfied"} /\ job[t].session = g
  /\ UNCHANGED <<current, recovery, attempt_thread, lifecycle, at, job, inbox, timers,
                 history>>

\* Mutants: a failure opens a cycle whether or not one is under way; the failed
\* session is compared with the observer's, which has already been taken out.
MattersAnyway(g) ==
  terminal[g] = "connection" /\ subscribed /\ ~closed /\ current = g
MattersActive(g) ==
  terminal[g] = "connection" /\ subscribed /\ ~closed /\ active = g /\ cycle_id = 0

\* _on_observation_failed ignores every failure but the current session's.
Matters(g) ==
  /\ terminal[g] = "connection"
  /\ subscribed /\ ~closed
  /\ current = g /\ cycle_id = 0

\* The terminal signal of session g: _on_observation_failed, which opens a cycle and
\* goes on to launch its first attempt, and the waiting episodes.
SessionEnds(g) ==
  /\ PublishTerminal(g)
  /\ Collected(g, terminal[g])
  /\ IF Matters(g)
       THEN /\ cycle_id' = cycles + 1 /\ cycles' = cycles + 1
            /\ Resume(g, [NoJob EXCEPT !.cycle = cycles + 1], NoRetry, "launch")
       ELSE UNCHANGED <<cycle_id, cycles, at, job>>
  /\ answered' = IF Matters(g) \/ (current = g /\ cycle_id # 0)
                   THEN answered \cup {g} ELSE answered
  /\ UNCHANGED <<current, retry_token, attempt_thread, lifecycle, timers, exhausted>>

-----------------------------------------------------------------------------
\* The application may also stop the observer; it leaves close() to the supervisor.
ObserverCall(t) ==
  /\ \/ Idle(t) /\ Stop(t)
     \/ StopActive(t) \/ CloseSource(t)
     \/ JoinSession(t) /\ at[call[t].session] = "idle"
  /\ UNCHANGED <<current, recovery, attempt_thread, lifecycle, at, job, inbox, timers,
                 history>>

Continue(t) ==
  \/ Cancel(t) \/ Launch(t) \/ Spawn(t)
  \/ Begin(t) \/ Receive(t) \/ TimeOut(t)
  \/ Adopt(t) \/ Judge(t) \/ End(t) \/ Exhaust(t) \/ Publish(t)
  \/ Schedule(t) \/ StoreToken(t)
  \/ CloseObservation(t) \/ ObserverIsClosed(t) \/ Join(t)

Rest ==
  /\ \A t \in Threads : at[t] = "idle"
  /\ \A t \in Clients : call[t] = NoCall
  /\ UNCHANGED vars

Next ==
  \/ \E t \in Clients : Start(t) \/ Close(t) \/ ObserverCall(t)
  \/ \E t \in Threads : Continue(t)
  \/ \E r \in Retries : RetryFires(r)
  \/ \E b \in BusThreads, r \in Retries : OnRetryDue(b, r)
  \/ \E g \in Sessions : SessionStarts(g) \/ SessionRuns(g) \/ SessionEnds(g)
  \/ Rest

Spec == Init /\ [][Next]_vars

-----------------------------------------------------------------------------
(* Properties.                                                               *)

Establishing(t) == at[t] \in {"begin", "await"}

\* Thread t is the one that will take cycle c further.
Drives(t, c) ==
  /\ c # 0 /\ job[t].cycle = c
  /\ Establishing(t) \/
     at[t] \in {"satisfied", "unsatisfied", "end", "retry", "launch", "registered"}

\* No cycle is driven twice at once and no two episodes overlap, so none of them
\* finds the observer busy with the session of the other.
OneDriver ==
  /\ \A t, u \in Threads : Establishing(t) /\ Establishing(u) => t = u
  /\ \A t, u \in Threads : \A c \in Cycles : Drives(t, c) /\ Drives(u, c) => t = u
  /\ \A r, q \in scheduled \cup due : r.cycle = q.cycle => r = q
  /\ \A r \in scheduled \cup due, t \in Threads : ~Drives(t, r.cycle)

\* An attempt that is due for the live cycle always finds the slot free: the early
\* return of _launch_establishment_attempt never drops a live cycle's attempt.
SlotIsFree ==
  \A t \in Threads :
    at[t] = "launch" /\ Current(job[t].cycle) => attempt_thread = NoThread

\* A live cycle is never abandoned: somebody will run, judge or retry it.
LiveCycleIsDriven ==
  cycle_id # 0 =>
    \/ \E t \in Threads : Drives(t, cycle_id)
    \/ \E t \in Threads : at[t] = "spawn" /\ job[job[t].worker].cycle = cycle_id
    \/ \E r \in scheduled \cup due : r.cycle = cycle_id

\* The session the supervisor takes for the current one did enter stream mode, and
\* it is replaced only by a later one, for the cycle that was live.
AdoptionAdvances ==
  [][current' # current =>
       /\ current' > current
       /\ stage[current'] \notin {"none", "opening"}
       /\ ~closed /\ cycle_id # 0]_vars

\* Once close() has returned no session observes and no attempt is left.
CloseEndsObservation ==
  closing = "returned" =>
    /\ active = 0
    /\ \A w \in Workers : ~Establishing(w)

\* The current session's lost connection is always answered: when its failure has
\* been delivered, a cycle has been opened for it or is still under way.
FailureIsAnswered ==
  /\ current # 0 /\ subscribed /\ ~closed
  /\ stage[current] = "ended" /\ terminal[current] = "connection"
  => current \in answered

-----------------------------------------------------------------------------
(* Liveness: started threads run, timers fire and the bus delivers; callers  *)
(* may stop calling, and a session blocks its thread until it is closed.     *)

Fairness ==
  /\ \A t \in Threads : WF_vars(Continue(t))
  /\ \A t \in Clients :
       WF_vars(~Idle(t) /\ ObserverCall(t))
  /\ \A r \in Retries : WF_vars(RetryFires(r))
  /\ \A r \in Retries : WF_vars(\E b \in BusThreads : OnRetryDue(b, r))
  /\ \A g \in Sessions :
       /\ WF_vars(SessionEnds(g))
       /\ WF_vars(MarkInactive(g) /\ SessionRuns(g))
       /\ WF_vars(g \in source_closed /\ (SessionStarts(g) \/ SessionRuns(g)))

FairSpec == Spec /\ Fairness

\* With a budget every establishment cycle ends: adopted, given up or exhausted.
CycleEnds == \A c \in Cycles \ {0} : cycle_id = c ~> cycle_id # c

\* start() and close() return, with everything close() joins.
CallsReturn == \A t \in Clients : ~Idle(t) ~> Idle(t)

=============================================================================
