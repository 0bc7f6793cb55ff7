------------------------ MODULE ServerSupervisorProofs ------------------------
(***************************************************************************)
(* Proofs about ServerSupervisor, for any sets of threads and any bounds.  *)
(***************************************************************************)
EXTENDS ServerSupervisor, TLAPS

USE DEF Threads

(***************************************************************************)
(* Type correctness.                                                       *)
(***************************************************************************)
LEMMA ZeroIsCycle == 0 \in Cycles
BY BoundsAssumption DEF Cycles

LEMMA NoJobTyped == NoJob \in Jobs
BY ZeroIsCycle, BoundsAssumption DEF NoJob, Jobs, Attempts, AfterCancel

\* A thread's locals and next step stay well typed when it resumes.
LEMMA ResumeTyped ==
  ASSUME TypeOK, NEW t \in Threads, NEW locals \in Jobs,
         NEW token \in Retries \cup {NoRetry}, NEW step \in AfterCancel,
         Resume(t, locals, token, step)
  PROVE  at' \in [Threads -> Steps] /\ job' \in [Threads -> Jobs]
<1>1. "cancel" \in Steps /\ step \in Steps
  BY DEF Steps, AfterCancel
<1>2. [locals EXCEPT !.token = token, !.then = step] \in Jobs
  BY DEF Jobs
<1>3. CASE token = NoRetry
  BY <1>1, <1>3 DEF Resume, Goto, TypeOK
<1>4. CASE token # NoRetry
  BY <1>1, <1>2, <1>4 DEF Resume, Goto, TypeOK
<1>5. QED
  BY <1>3, <1>4

LEMMA NextRetryTyped ==
  ASSUME TypeOK, NEW t \in Threads
  PROVE  NextRetry(t) \in Retries
BY BoundsAssumption DEF TypeOK, Jobs, Retries, NextRetry, Attempts

\* Every public operation keeps the types.
LEMMA OperationTyped ==
  ASSUME TypeOK, NEW t \in Callers, Operation(t)
  PROVE  TypeOK'
<1>1. ASSUME NEW enabled \in BOOLEAN, Start(t, enabled) PROVE TypeOK'
  <2> DEFINE cycle == IF enabled THEN recovery_epoch + 1 ELSE 0
             locals == [NoJob EXCEPT !.cycle = cycle]
  <2>1. cycle \in Cycles /\ locals \in Jobs /\ "probe" \in AfterCancel
    BY <1>1, NoJobTyped, BoundsAssumption DEF Start, TypeOK, Cycles, Jobs, AfterCancel
  <2>2. Resume(t, locals, retry_token, "probe")
    BY <1>1 DEF Start
  <2>3. at' \in [Threads -> Steps] /\ job' \in [Threads -> Jobs]
    BY <2>1, <2>2, ResumeTyped DEF TypeOK
  <2>4. QED
    BY <1>1, <2>1, <2>3, BoundsAssumption DEF Start, TypeOK, ReplaceCycle
<1>2. ASSUME Stop(t) PROVE TypeOK'
  <2> DEFINE locals == [NoJob EXCEPT !.want = "down"]
  <2>1. locals \in Jobs /\ "probe" \in AfterCancel
    BY NoJobTyped DEF Jobs, AfterCancel
  <2>2. Resume(t, locals, retry_token, "probe")
    BY <1>2 DEF Stop
  <2>3. at' \in [Threads -> Steps] /\ job' \in [Threads -> Jobs]
    BY <2>1, <2>2, ResumeTyped DEF TypeOK
  <2>4. recovery_epoch' \in Nat
    BY <1>2 DEF Stop, TypeOK
  <2>5. QED
    BY <1>2, <2>3, <2>4, ZeroIsCycle DEF Stop, TypeOK, ReplaceCycle, external
<1>3. ASSUME NEW enabled \in BOOLEAN, SetRecoveryEnabled(t, enabled) PROVE TypeOK'
  <2> DEFINE cycle == IF enabled THEN recovery_epoch + 1 ELSE 0
             locals == [NoJob EXCEPT !.cycle = cycle]
             step == IF enabled THEN "launch" ELSE "done"
  <2>1. cycle \in Cycles /\ locals \in Jobs /\ step \in AfterCancel
    BY <1>3, NoJobTyped, BoundsAssumption
       DEF SetRecoveryEnabled, TypeOK, Cycles, Jobs, AfterCancel
  <2>2. Resume(t, locals, retry_token, step)
    BY <1>3 DEF SetRecoveryEnabled
  <2>3. at' \in [Threads -> Steps] /\ job' \in [Threads -> Jobs]
    BY <2>1, <2>2, ResumeTyped DEF TypeOK
  <2>4. QED
    BY <1>3, <2>1, <2>3, BoundsAssumption DEF SetRecoveryEnabled, TypeOK, ReplaceCycle
<1>4. ASSUME Reconcile(t) PROVE TypeOK'
  <2> DEFINE locals == [NoJob EXCEPT !.cycle = recovery_epoch + 1]
  <2>1. recovery_epoch + 1 \in Cycles /\ locals \in Jobs /\ "launch" \in AfterCancel
    BY <1>4, NoJobTyped, BoundsAssumption DEF Reconcile, TypeOK, Cycles, Jobs, AfterCancel
  <2>2. Resume(t, locals, NoRetry, "launch")
    BY <1>4 DEF Reconcile
  <2>3. at' \in [Threads -> Steps] /\ job' \in [Threads -> Jobs]
    BY <2>1, <2>2, ResumeTyped DEF TypeOK
  <2>4. QED
    BY <1>4, <2>1, <2>3, BoundsAssumption DEF Reconcile, TypeOK
<1>5. ASSUME Close(t) PROVE TypeOK'
  <2> DEFINE locals == [NoJob EXCEPT !.workers = AttemptThreads, !.token = retry_token]
  <2>1. locals \in Jobs /\ "unsubscribe" \in Steps
    BY NoJobTyped DEF Jobs, Steps, AttemptThreads, TypeOK
  <2>2. job' = [job EXCEPT ![t] = locals] /\ Goto(t, "unsubscribe")
    BY <1>5 DEF Close
  <2>3. recovery_epoch' \in Nat
    BY <1>5 DEF Close, TypeOK
  <2>4. QED
    BY <1>5, <2>1, <2>2, <2>3, ZeroIsCycle DEF Close, TypeOK, ReplaceCycle, Goto, external
<1>6. QED
  BY <1>1, <1>2, <1>3, <1>4, <1>5 DEF Operation

\* Moving one thread, or releasing the mutation lock while doing so, keeps types.
LEMMA GotoTyped ==
  ASSUME TypeOK, NEW t \in Threads, NEW step \in Steps, Goto(t, step)
  PROVE  at' \in [Threads -> Steps]
BY DEF Goto, TypeOK

LEMMA EndEpisodeTyped ==
  ASSUME TypeOK, NEW t \in Threads, NEW step \in Steps, EndEpisode(t, step)
  PROVE  at' \in [Threads -> Steps] /\ mutation' \in Threads \cup {NoThread}
<1>1. "done" \in Steps
  BY DEF Steps
<1>2. QED
  BY <1>1, GotoTyped DEF EndEpisode

LEMMA EndCycleTyped ==
  ASSUME TypeOK, NEW t \in Threads, NEW step \in AfterCancel, EndCycle(t, step)
  PROVE  /\ at' \in [Threads -> Steps] /\ job' \in [Threads -> Jobs]
         /\ cycle_id' \in Cycles /\ retry_token' \in Retries \cup {NoRetry}
<1>1. job[t] \in Jobs
  BY DEF TypeOK
<1>2. CASE cycle_id = job[t].cycle
  <2>1. ReplaceCycle(0) /\ Resume(t, job[t], retry_token, step)
    BY <1>2 DEF EndCycle
  <2>2. cycle_id' \in Cycles /\ retry_token' \in Retries \cup {NoRetry}
    BY <2>1, ZeroIsCycle DEF ReplaceCycle
  <2>3. QED
    BY <1>1, <2>1, <2>2, ResumeTyped DEF TypeOK
<1>3. CASE cycle_id # job[t].cycle
  <2>1. UNCHANGED recovery /\ Resume(t, job[t], NoRetry, step)
    BY <1>3 DEF EndCycle
  <2>2. QED
    BY <1>1, <2>1, ResumeTyped DEF TypeOK, recovery
<1>4. QED
  BY <1>2, <1>3

\* Every step of a call or an attempt keeps the types.
LEMMA ContinueTyped ==
  ASSUME TypeOK, NEW t \in Threads, Continue(t)
  PROVE  TypeOK'
<1> USE DEF intent, recovery, external
<1>s. /\ "idle" \in Steps /\ "done" \in Steps /\ "join" \in Steps
      /\ "spawn" \in Steps /\ "registered" \in Steps /\ "acquire" \in Steps
      /\ "probe" \in Steps /\ "command" \in Steps /\ "verify" \in Steps
      /\ "satisfied" \in Steps /\ "unsatisfied" \in Steps /\ "retry" \in Steps
      /\ "store" \in Steps /\ "publish" \in Steps /\ AfterCancel \subseteq Steps
      /\ "done" \in AfterCancel /\ "join" \in AfterCancel /\ "publish" \in AfterCancel
  BY DEF Steps, AfterCancel
<1>j. job[t] \in Jobs
  BY DEF TypeOK
<1>1. ASSUME Cancel(t) PROVE TypeOK'
  <2>1. job[t].then \in Steps
    BY <1>j, <1>s DEF Jobs
  <2>2. [job[t] EXCEPT !.token = NoRetry, !.then = "done"] \in Jobs
    BY <1>j, <1>s DEF Jobs
  <2>3. job' = [job EXCEPT ![t] = [job[t] EXCEPT !.token = NoRetry, !.then = "done"]]
    BY <1>1 DEF Cancel, TypeOK
  <2>4. job' \in [Threads -> Jobs]
    BY <2>2, <2>3 DEF TypeOK
  <2>5. at' \in [Threads -> Steps]
    BY <1>1, <2>1, GotoTyped DEF Cancel
  <2>6. QED
    BY <1>1, <2>4, <2>5 DEF Cancel, TypeOK
<1>2. ASSUME Return(t) PROVE TypeOK'
  <2>1. at' \in [Threads -> Steps]
    BY <1>2, <1>s, GotoTyped DEF Return
  <2>2. QED
    BY <1>2, <2>1, NoJobTyped DEF Return, TypeOK
<1>3. ASSUME Unsubscribe(t) PROVE TypeOK'
  <2>1. [job[t] EXCEPT !.token = NoRetry] \in Jobs /\ job[t].token \in Retries \cup {NoRetry}
    BY <1>j DEF Jobs
  <2>2. at' \in [Threads -> Steps] /\ job' \in [Threads -> Jobs]
    BY <1>3, <2>1, <1>s, ResumeTyped DEF Unsubscribe
  <2>3. QED
    BY <1>3, <2>2 DEF Unsubscribe, TypeOK
<1>4. ASSUME Join(t) PROVE TypeOK'
  <2>1. job' \in [Threads -> Jobs]
    <3>1. CASE UNCHANGED job
      BY <3>1 DEF TypeOK
    <3>2. ASSUME NEW w \in job[t].workers, job' = [job EXCEPT ![t].workers = @ \ {w}]
          PROVE job' \in [Threads -> Jobs]
      <4>1. [job[t] EXCEPT !.workers = @ \ {w}] \in Jobs
        BY <1>j DEF Jobs
      <4>2. job' = [job EXCEPT ![t] = [job[t] EXCEPT !.workers = @ \ {w}]]
        BY <3>2 DEF TypeOK
      <4>3. QED
        BY <4>1, <4>2 DEF TypeOK
    <3>3. QED
      BY <1>4, <3>1, <3>2 DEF Join
  <2>2. at' \in [Threads -> Steps]
    BY <1>4, <1>s, GotoTyped DEF Join, TypeOK
  <2>3. closing' \in {"no", "running", "returned", "raised"}
    BY <1>4 DEF Join, TypeOK
  <2>4. QED
    BY <1>4, <2>1, <2>2, <2>3 DEF Join, TypeOK
<1>5. ASSUME Launch(t) PROVE TypeOK'
  <2>1. CASE Current(job[t].cycle)
    <3>1. PICK w \in Workers :
            /\ at[w] = "idle"
            /\ at' = [at EXCEPT ![t] = "spawn", ![w] = "registered"]
            /\ job' = [job EXCEPT
                 ![t].workers = {w},
                 ![w] = [NoJob EXCEPT !.cycle = job[t].cycle,
                                      !.attempt = job[t].attempt]]
      BY <1>5, <2>1 DEF Launch
    <3>2. [job[t] EXCEPT !.workers = {w}] \in Jobs
      BY <1>j DEF Jobs
    <3>3. [NoJob EXCEPT !.cycle = job[t].cycle, !.attempt = job[t].attempt] \in Jobs
      BY <1>j, NoJobTyped DEF Jobs
    <3>4. job' = [[job EXCEPT ![t] = [job[t] EXCEPT !.workers = {w}]]
                    EXCEPT ![w] = [NoJob EXCEPT !.cycle = job[t].cycle,
                                                !.attempt = job[t].attempt]]
      BY <3>1 DEF TypeOK
    <3>5. job' \in [Threads -> Jobs]
      BY <3>2, <3>3, <3>4 DEF TypeOK
    <3>6. at' \in [Threads -> Steps]
      BY <3>1, <1>s DEF TypeOK
    <3>7. QED
      BY <1>5, <3>5, <3>6 DEF Launch, TypeOK
  <2>2. CASE ~Current(job[t].cycle)
    BY <1>5, <2>2, <1>s DEF Launch, Goto, TypeOK
  <2>3. QED
    BY <2>1, <2>2
<1>6. ASSUME Spawn(t) PROVE TypeOK'
  <2>1. at' \in [Threads -> Steps]
    BY <1>6, <1>s DEF Spawn, TypeOK
  <2>2. QED
    BY <1>6, <2>1 DEF Spawn, TypeOK
<1>7. ASSUME BeginAttempt(t) PROVE TypeOK'
  <2>1. at' \in [Threads -> Steps]
    BY <1>7, <1>s, GotoTyped DEF BeginAttempt
  <2>2. QED
    BY <1>7, <2>1 DEF BeginAttempt, TypeOK
<1>8. ASSUME Probe(t) PROVE TypeOK'
  <2>1. at' \in [Threads -> Steps] /\ mutation' \in Threads \cup {NoThread}
    BY <1>8, <1>s, GotoTyped, EndEpisodeTyped DEF Probe, TypeOK
  <2>2. QED
    BY <1>8, <2>1 DEF Probe, TypeOK
<1>9. ASSUME Command(t) PROVE TypeOK'
  <2>1. at' \in [Threads -> Steps]
    BY <1>9, <1>s, GotoTyped DEF Command
  <2>2. server' \in {"up", "down"}
    BY <1>9, <1>j DEF Command, TypeOK, Jobs
  <2>3. QED
    BY <1>9, <2>1, <2>2 DEF Command, TypeOK
<1>10. ASSUME Verify(t) PROVE TypeOK'
  <2>1. at' \in [Threads -> Steps] /\ mutation' \in Threads \cup {NoThread}
    BY <1>10, <1>s, EndEpisodeTyped DEF Verify
  <2>2. QED
    BY <1>10, <2>1 DEF Verify, TypeOK
<1>11. ASSUME EpisodeRaises(t) PROVE TypeOK'
  <2>1. at' \in [Threads -> Steps] /\ mutation' \in Threads \cup {NoThread}
    BY <1>11, <1>s, EndEpisodeTyped DEF EpisodeRaises
  <2>2. QED
    BY <1>11, <2>1 DEF EpisodeRaises, TypeOK
<1>12. ASSUME HandleSatisfied(t) PROVE TypeOK'
  BY <1>12, <1>s, EndCycleTyped DEF HandleSatisfied, TypeOK
<1>13. ASSUME HandleUnsatisfied(t) PROVE TypeOK'
  BY <1>13, <1>s DEF HandleUnsatisfied, Goto, TypeOK
<1>14. ASSUME Exhaust(t) PROVE TypeOK'
  BY <1>14, <1>s, EndCycleTyped DEF Exhaust, TypeOK
<1>15. ASSUME Publish(t) PROVE TypeOK'
  <2>1. job[t].cycle \in Cycles
    BY <1>j DEF Jobs
  <2>2. QED
    BY <1>15, <1>s, <2>1 DEF Publish, Goto, TypeOK
<1>16. ASSUME Schedule(t) PROVE TypeOK'
  BY <1>16, <1>s, NextRetryTyped DEF Schedule, Goto, TypeOK
<1>17. ASSUME StoreToken(t) PROVE TypeOK'
  <2>1. CASE Current(job[t].cycle)
    <3>1. at' \in [Threads -> Steps] /\ job' \in [Threads -> Jobs]
      BY <1>17, <2>1, <1>j, <1>s, ResumeTyped DEF StoreToken, TypeOK
    <3>2. QED
      BY <1>17, <2>1, <3>1, NextRetryTyped DEF StoreToken, TypeOK
  <2>2. CASE ~Current(job[t].cycle)
    BY <1>17, <2>2, <1>s DEF StoreToken, Goto, TypeOK
  <2>3. QED
    BY <2>1, <2>2
<1>18. QED
  BY <1>1, <1>2, <1>3, <1>4, <1>5, <1>6, <1>7, <1>8, <1>9, <1>10, <1>11, <1>12,
     <1>13, <1>14, <1>15, <1>16, <1>17 DEF Continue

\* So do the scheduler, the bus and the server.
LEMMA EnvironmentTyped ==
  ASSUME TypeOK,
         \/ \E r \in Retries : RetryFires(r)
         \/ \E b \in BusThreads, r \in Retries : OnRetryDue(b, r)
         \/ ServerCrashes
         \/ UNCHANGED vars
  PROVE  TypeOK'
<1> USE DEF intent, recovery, external
<1>1. ASSUME NEW r \in Retries, RetryFires(r) PROVE TypeOK'
  BY <1>1 DEF RetryFires, TypeOK
<1>2. ASSUME NEW b \in BusThreads, NEW r \in Retries, OnRetryDue(b, r) PROVE TypeOK'
  <2> DEFINE locals == [NoJob EXCEPT !.cycle = r.cycle, !.attempt = r.attempt]
  <2>1. locals \in Jobs /\ "launch" \in AfterCancel
    BY NoJobTyped DEF Jobs, Retries, AfterCancel
  <2>2. CASE subscribed /\ Current(r.cycle)
    <3>1. Resume(b, locals, NoRetry, "launch")
      BY <1>2, <2>2 DEF OnRetryDue
    <3>2. at' \in [Threads -> Steps] /\ job' \in [Threads -> Jobs]
      BY <2>1, <3>1, ResumeTyped
    <3>3. QED
      BY <1>2, <2>2, <3>2 DEF OnRetryDue, TypeOK
  <2>3. CASE ~(subscribed /\ Current(r.cycle))
    BY <1>2, <2>3 DEF OnRetryDue, TypeOK
  <2>4. QED
    BY <2>2, <2>3
<1>3. ASSUME ServerCrashes PROVE TypeOK'
  BY <1>3 DEF ServerCrashes, TypeOK
<1>4. ASSUME UNCHANGED vars PROVE TypeOK'
  BY <1>4 DEF vars, TypeOK
<1>5. QED
  BY <1>1, <1>2, <1>3, <1>4

LEMMA InitTyped == Init => TypeOK
<1> SUFFICES ASSUME Init PROVE TypeOK
  OBVIOUS
<1>1. recovery_epoch \in Nat
  BY DEF Init
<1>2. cycle_id \in Cycles
  BY ZeroIsCycle DEF Init
<1>3. at \in [Threads -> Steps] /\ job \in [Threads -> Jobs]
  BY NoJobTyped DEF Init, Steps
<1>4. QED
  BY <1>1, <1>2, <1>3 DEF Init, TypeOK

LEMMA NextTyped == TypeOK /\ [Next]_vars => TypeOK'
<1> SUFFICES ASSUME TypeOK, [Next]_vars PROVE TypeOK'
  OBVIOUS
<1>1. ASSUME NEW t \in Callers, Operation(t) PROVE TypeOK'
  BY <1>1, OperationTyped
<1>2. ASSUME NEW t \in Threads, Continue(t) PROVE TypeOK'
  BY <1>2, ContinueTyped
<1>3. CASE \/ \E r \in Retries : RetryFires(r)
           \/ \E b \in BusThreads, r \in Retries : OnRetryDue(b, r)
           \/ ServerCrashes
           \/ UNCHANGED vars
  BY <1>3, EnvironmentTyped
<1>4. QED
  BY <1>1, <1>2, <1>3 DEF Next, Rest

\* The variables of the supervisor keep their types in every reachable state.
THEOREM TypeCorrect == Spec => []TypeOK
BY InitTyped, NextTyped, PTL DEF Spec

-------------------------------------------------------------------------------
(***************************************************************************)
(* Episodes: the mutation lock and the intent.                             *)
(***************************************************************************)
LEMMA InitEpisode == Init => EpisodeInv
BY ThreadsAssumption
   DEF Init, EpisodeInv, LockIsHeld, HolderFollowsIntent, SpawnersOwnWorkers,
       AttemptsStart, InMutation, InEpisode, NoJob

\* Most steps move one thread and change its locals.  The invariant survives if
\* that thread is not one waiting to be started, and if what it now does agrees
\* with the lock and the intent.
LEMMA MoveEpisode ==
  ASSUME TypeOK, EpisodeInv, NEW t \in Threads,
         NEW step \in Steps \ {"spawn", "registered", "acquire"},
         NEW locals \in Jobs,
         at[t] # "registered",
         at' = [at EXCEPT ![t] = step],
         job' = [job EXCEPT ![t] = locals],
         t \in Workers => locals.want = "up",
         \A u \in Threads \ {t} : mutation' = u <=> mutation = u,
         desired_running' = desired_running \/ mutation \in {t, NoThread},
         mutation' = t <=> \/ step \in {"probe", "command", "verify"}
                           \/ step = "cancel" /\ locals.then = "probe",
         mutation' = t => ((locals.want = "up") <=> desired_running')
  PROVE  EpisodeInv'
<1> USE DEF TypeOK, InMutation, InEpisode
<1>t. /\ at'[t] = step /\ job'[t] = locals
      /\ \A u \in Threads \ {t} : at'[u] = at[u] /\ job'[u] = job[u]
  OBVIOUS
<1>1. LockIsHeld'
  BY <1>t DEF EpisodeInv, LockIsHeld
<1>2. HolderFollowsIntent'
  <2> SUFFICES ASSUME NEW u \in Threads, InMutation(u)'
               PROVE  ((job[u].want = "up") <=> desired_running)'
    BY DEF HolderFollowsIntent
  <2>1. CASE u = t
    BY <1>t, <2>1
  <2>2. CASE u # t
    <3>1. InMutation(u) /\ mutation = u
      BY <1>t, <2>2 DEF EpisodeInv, LockIsHeld
    <3>2. desired_running' = desired_running
      BY <2>2, <3>1, ThreadsAssumption
    <3>3. QED
      BY <1>t, <2>2, <3>1, <3>2 DEF EpisodeInv, HolderFollowsIntent
  <2>3. QED
    BY <2>1, <2>2
<1>3. SpawnersOwnWorkers'
  <2>1. ASSUME NEW u \in Threads, at'[u] = "spawn"
        PROVE  u # t /\ at[u] = "spawn" /\ job'[u] = job[u] /\ t \notin job[u].workers
    BY <1>t, <2>1 DEF EpisodeInv, SpawnersOwnWorkers
  <2>2. QED
    BY <1>t, <2>1 DEF EpisodeInv, SpawnersOwnWorkers
<1>4. AttemptsStart'
  BY <1>t DEF EpisodeInv, AttemptsStart
<1>5. QED
  BY <1>1, <1>2, <1>3, <1>4 DEF EpisodeInv

LEMMA ResumeEpisode ==
  ASSUME TypeOK, EpisodeInv, NEW t \in Threads,
         NEW step \in AfterCancel,
         NEW locals \in Jobs, NEW token \in Retries \cup {NoRetry},
         at[t] # "registered",
         Resume(t, locals, token, step),
         t \in Workers => locals.want = "up",
         \A u \in Threads \ {t} : mutation' = u <=> mutation = u,
         desired_running' = desired_running \/ mutation \in {t, NoThread},
         mutation' = t <=> step = "probe",
         mutation' = t => ((locals.want = "up") <=> desired_running')
  PROVE  EpisodeInv'
<1>s. step \in Steps \ {"spawn", "registered", "acquire"}
  BY DEF Steps, AfterCancel
<1>c. step \notin {"cancel", "command", "verify"}
  BY DEF AfterCancel
<1>1. CASE token = NoRetry
  <2>1. at' = [at EXCEPT ![t] = step] /\ job' = [job EXCEPT ![t] = locals]
    BY <1>1 DEF Resume, Goto
  <2>2. mutation' = t <=> \/ step \in {"probe", "command", "verify"}
                          \/ step = "cancel" /\ locals.then = "probe"
    BY <1>c
  <2>3. QED
    BY <1>s, <2>1, <2>2, MoveEpisode
<1>2. CASE token # NoRetry
  <2> DEFINE cancelling == [locals EXCEPT !.token = token, !.then = step]
  <2>1. at' = [at EXCEPT ![t] = "cancel"] /\ job' = [job EXCEPT ![t] = cancelling]
    BY <1>2 DEF Resume, Goto
  <2>2. /\ cancelling \in Jobs /\ cancelling.want = locals.want
        /\ cancelling.then = step
    BY DEF Jobs
  <2>3. "cancel" \in Steps \ {"spawn", "registered", "acquire"}
    BY DEF Steps
  <2> HIDE DEF cancelling
  <2>4. QED
    BY <2>1, <2>2, <2>3, MoveEpisode
<1>3. QED
  BY <1>1, <1>2

\* A public operation starts from an idle thread; those that change the intent
\* take the free lock.
LEMMA OperationEpisode ==
  ASSUME TypeOK, EpisodeInv, NEW t \in Callers, Operation(t)
  PROVE  EpisodeInv'
<1>s. /\ {"probe", "launch", "done"} \subseteq AfterCancel
      /\ "unsubscribe" \in Steps \ {"spawn", "registered", "acquire"}
  BY DEF Steps, AfterCancel
<1>r. retry_token \in Retries \cup {NoRetry}
  BY DEF TypeOK
<1>n. NoJob \in Jobs /\ NoJob.want = "up"
  BY NoJobTyped DEF NoJob
<1>t. t \in Threads /\ t \notin Workers /\ t # NoThread
  BY ThreadsAssumption
<1>i. at[t] = "idle" /\ mutation # t
  BY <1>t DEF Operation, Start, Stop, SetRecoveryEnabled, Reconcile, Close,
              EpisodeInv, LockIsHeld, InMutation, InEpisode
<1>1. ASSUME NEW enabled \in BOOLEAN, Start(t, enabled) PROVE EpisodeInv'
  <2> DEFINE cycle == IF enabled THEN recovery_epoch + 1 ELSE 0
             locals == [NoJob EXCEPT !.cycle = cycle]
  <2>1. cycle \in Cycles
    BY <1>1, ZeroIsCycle, BoundsAssumption DEF Start, TypeOK, Cycles
  <2>2. locals \in Jobs /\ locals.want = "up"
    BY <1>n, <2>1 DEF Jobs
  <2>3. /\ Resume(t, locals, retry_token, "probe")
        /\ mutation = NoThread /\ mutation' = t /\ desired_running' = TRUE
    BY <1>1 DEF Start
  <2>4. QED
    BY <1>s, <1>r, <1>t, <1>i, <2>2, <2>3, ResumeEpisode, ThreadsAssumption
<1>2. ASSUME Stop(t) PROVE EpisodeInv'
  <2> DEFINE locals == [NoJob EXCEPT !.want = "down"]
  <2>1. locals \in Jobs /\ locals.want = "down"
    BY <1>n DEF Jobs
  <2>2. /\ Resume(t, locals, retry_token, "probe")
        /\ mutation = NoThread /\ mutation' = t /\ desired_running' = FALSE
    BY <1>2 DEF Stop
  <2>3. QED
    BY <1>s, <1>r, <1>t, <1>i, <2>1, <2>2, ResumeEpisode, ThreadsAssumption
<1>3. ASSUME NEW enabled \in BOOLEAN, SetRecoveryEnabled(t, enabled) PROVE EpisodeInv'
  <2> DEFINE cycle == IF enabled THEN recovery_epoch + 1 ELSE 0
             locals == [NoJob EXCEPT !.cycle = cycle]
             step == IF enabled THEN "launch" ELSE "done"
  <2>1. cycle \in Cycles
    BY <1>3, ZeroIsCycle, BoundsAssumption DEF SetRecoveryEnabled, TypeOK, Cycles
  <2>2. locals \in Jobs /\ locals.want = "up"
    BY <1>n, <2>1 DEF Jobs
  <2>3. /\ Resume(t, locals, retry_token, step)
        /\ mutation' = mutation /\ desired_running' = desired_running
    BY <1>3 DEF SetRecoveryEnabled
  <2>4. step \in AfterCancel /\ step \notin {"probe", "command", "verify"}
    BY <1>s
  <2>5. QED
    BY <1>r, <1>t, <1>i, <2>2, <2>3, <2>4, ResumeEpisode
<1>4. ASSUME Reconcile(t) PROVE EpisodeInv'
  <2> DEFINE locals == [NoJob EXCEPT !.cycle = recovery_epoch + 1]
  <2>1. recovery_epoch + 1 \in Cycles
    BY <1>4, BoundsAssumption DEF Reconcile, TypeOK, Cycles
  <2>2. locals \in Jobs /\ locals.want = "up"
    BY <1>n, <2>1 DEF Jobs
  <2>3. /\ Resume(t, locals, NoRetry, "launch")
        /\ mutation' = mutation /\ desired_running' = desired_running
    BY <1>4 DEF Reconcile
  <2>4. QED
    BY <1>s, <1>t, <1>i, <2>2, <2>3, ResumeEpisode
<1>5. ASSUME Close(t) PROVE EpisodeInv'
  <2> DEFINE locals == [NoJob EXCEPT !.workers = AttemptThreads, !.token = retry_token]
  <2>1. locals \in Jobs /\ locals.want = "up"
    BY <1>n, <1>r DEF Jobs, AttemptThreads
  <2>2. /\ at' = [at EXCEPT ![t] = "unsubscribe"] /\ job' = [job EXCEPT ![t] = locals]
        /\ mutation' = mutation /\ desired_running' = desired_running
    BY <1>5 DEF Close, Goto
  <2>3. QED
    BY <1>s, <1>t, <1>i, <2>1, <2>2, MoveEpisode
<1>6. QED
  BY <1>1, <1>2, <1>3, <1>4, <1>5 DEF Operation

\* The steps that touch no lock, no intent and only their own thread.
LEMMA ContinueEpisode ==
  ASSUME TypeOK, EpisodeInv, NEW t \in Threads, Continue(t)
  PROVE  EpisodeInv'
<1>j. job[t] \in Jobs /\ job = [job EXCEPT ![t] = job[t]]
  BY DEF TypeOK
<1>w. t \in Workers => job[t].want = "up"
  BY DEF EpisodeInv, AttemptsStart
<1>m. t # NoThread
  BY ThreadsAssumption
<1>k. InMutation(t) <=> mutation = t
  BY DEF EpisodeInv, LockIsHeld
<1>h. InMutation(t) => ((job[t].want = "up") <=> desired_running)
  BY DEF EpisodeInv, HolderFollowsIntent
<1>s. {"idle", "cancel", "probe", "command", "verify", "satisfied", "unsatisfied",
       "retry", "store", "publish", "launch", "unsubscribe", "join", "done"}
        \subseteq Steps \ {"spawn", "registered", "acquire"}
  BY DEF Steps
<1>d. {"done", "join", "publish"} \subseteq AfterCancel
  BY DEF AfterCancel
<1>1. ASSUME Cancel(t) PROVE EpisodeInv'
  <2> DEFINE locals == [job[t] EXCEPT !.token = NoRetry, !.then = "done"]
  <2>1. locals \in Jobs /\ locals.want = job[t].want
    BY <1>j, <1>d DEF Jobs
  <2>2. job' = [job EXCEPT ![t] = locals] /\ at' = [at EXCEPT ![t] = job[t].then]
    BY <1>1 DEF Cancel, Goto, TypeOK
  <2>3. at[t] = "cancel" /\ mutation' = mutation /\ desired_running' = desired_running
    BY <1>1 DEF Cancel, intent
  <2>4. job[t].then \in {"probe", "launch", "publish", "join", "done"}
    BY <1>j DEF Jobs, AfterCancel
  <2>5. InMutation(t) <=> job[t].then = "probe"
    BY <2>3 DEF InMutation, InEpisode
  <2> HIDE DEF locals
  <2>6. job[t].then \in Steps \ {"spawn", "registered", "acquire"}
    BY <1>s, <2>4
  <2>7. mutation' = t <=> \/ job[t].then \in {"probe", "command", "verify"}
                          \/ job[t].then = "cancel" /\ locals.then = "probe"
    BY <1>k, <2>3, <2>4, <2>5
  <2>8. QED
    BY <1>w, <1>k, <1>h, <2>1, <2>2, <2>3, <2>6, <2>7, MoveEpisode
<1>2. ASSUME Return(t) PROVE EpisodeInv'
  <2>1. NoJob \in Jobs /\ NoJob.want = "up"
    BY NoJobTyped DEF NoJob
  <2>2. /\ at[t] = "done" /\ at' = [at EXCEPT ![t] = "idle"]
        /\ job' = [job EXCEPT ![t] = NoJob]
        /\ mutation' = mutation /\ desired_running' = desired_running
    BY <1>2 DEF Return, Goto, intent
  <2>3. QED
    BY <1>s, <1>k, <2>1, <2>2, MoveEpisode DEF InMutation, InEpisode
<1>3. ASSUME Unsubscribe(t) PROVE EpisodeInv'
  <2> DEFINE locals == [job[t] EXCEPT !.token = NoRetry]
  <2>1. locals \in Jobs /\ locals.want = job[t].want /\ job[t].token \in Retries \cup {NoRetry}
    BY <1>j DEF Jobs
  <2>2. /\ at[t] = "unsubscribe" /\ Resume(t, locals, job[t].token, "join")
        /\ mutation' = mutation /\ desired_running' = desired_running
    BY <1>3 DEF Unsubscribe, intent
  <2>3. QED
    BY <1>d, <1>w, <1>k, <2>1, <2>2, ResumeEpisode DEF InMutation, InEpisode
<1>4. ASSUME Join(t) PROVE EpisodeInv'
  <2>1. at[t] = "join" /\ mutation' = mutation /\ desired_running' = desired_running
    BY <1>4 DEF Join, intent
  <2>2. mutation # t
    BY <1>k, <2>1 DEF InMutation, InEpisode
  <2>3. ASSUME at' = at, NEW w \in job[t].workers,
               job' = [job EXCEPT ![t].workers = @ \ {w}]
        PROVE  EpisodeInv'
    <3> DEFINE locals == [job[t] EXCEPT !.workers = @ \ {w}]
    <3>1. locals \in Jobs /\ locals.want = job[t].want
      BY <1>j DEF Jobs
    <3>2. job' = [job EXCEPT ![t] = locals] /\ at' = [at EXCEPT ![t] = "join"]
      BY <2>1, <2>3 DEF TypeOK
    <3>3. QED
      BY <1>s, <1>w, <2>1, <2>2, <3>1, <3>2, MoveEpisode
  <2>4. ASSUME Goto(t, "done"), UNCHANGED job PROVE EpisodeInv'
    BY <1>j, <1>s, <1>w, <2>1, <2>2, <2>4, MoveEpisode DEF Goto
  <2>5. QED
    BY <1>4, <2>3, <2>4 DEF Join
<1>5. ASSUME Launch(t) PROVE EpisodeInv'
  <2>1. at[t] = "launch" /\ mutation' = mutation /\ desired_running' = desired_running
    BY <1>5 DEF Launch, intent
  <2>2. mutation # t
    BY <1>k, <2>1 DEF InMutation, InEpisode
  <2>3. CASE Current(job[t].cycle)
    <3>1. PICK w \in Workers :
            /\ at[w] = "idle"
            /\ at' = [at EXCEPT ![t] = "spawn", ![w] = "registered"]
            /\ job' = [job EXCEPT
                 ![t].workers = {w},
                 ![w] = [NoJob EXCEPT !.cycle = job[t].cycle,
                                      !.attempt = job[t].attempt]]
      BY <1>5, <2>3 DEF Launch
    <3>2. /\ w # t /\ at'[t] = "spawn" /\ at'[w] = "registered"
          /\ \A u \in Threads \ {t, w} : at'[u] = at[u] /\ job'[u] = job[u]
      BY <2>1, <3>1 DEF TypeOK
    <3>3. /\ job'[w].want = "up" /\ job'[t].want = job[t].want
          /\ job'[t].workers = {w}
      BY <3>1, <3>2, <1>j, NoJobTyped DEF TypeOK, NoJob, Jobs
    <3>4. mutation # w
      BY <3>1, <1>m DEF EpisodeInv, LockIsHeld, InMutation, InEpisode
    <3>5. LockIsHeld'
      BY <2>1, <2>2, <3>2, <3>4 DEF EpisodeInv, LockIsHeld, InMutation, InEpisode
    <3>6. HolderFollowsIntent'
      BY <2>1, <3>2 DEF EpisodeInv, HolderFollowsIntent, InMutation, InEpisode
    <3>7. \A u \in Threads : at'[u] = "spawn" /\ u # t =>
            u # w /\ at[u] = "spawn" /\ w \notin job[u].workers /\ t \notin job[u].workers
      BY <2>1, <3>1, <3>2 DEF EpisodeInv, SpawnersOwnWorkers
    <3>8. SpawnersOwnWorkers'
      BY <3>2, <3>3, <3>7 DEF EpisodeInv, SpawnersOwnWorkers
    <3>9. AttemptsStart'
      BY <3>2, <3>3 DEF EpisodeInv, AttemptsStart
    <3>10. QED
      BY <3>5, <3>6, <3>8, <3>9 DEF EpisodeInv
  <2>4. CASE ~Current(job[t].cycle)
    <3>1. at' = [at EXCEPT ![t] = "done"] /\ job' = [job EXCEPT ![t] = job[t]]
      BY <1>5, <1>j, <2>4 DEF Launch, Goto
    <3>2. QED
      BY <1>j, <1>s, <1>w, <2>1, <2>2, <3>1, MoveEpisode
  <2>5. QED
    BY <2>3, <2>4
<1>6. ASSUME Spawn(t) PROVE EpisodeInv'
  <2>1. /\ at[t] = "spawn" /\ mutation' = mutation /\ job' = job
        /\ desired_running' = desired_running
        /\ \A u \in Threads : at'[u] = IF u = t THEN "done"
                                       ELSE IF u \in job[t].workers THEN "acquire"
                                       ELSE at[u]
    BY <1>6 DEF Spawn, intent
  <2>2. \A w \in job[t].workers : w \in Workers /\ at[w] = "registered"
    BY <2>1 DEF EpisodeInv, SpawnersOwnWorkers
  <2>3. LockIsHeld'
    BY <2>1, <2>2 DEF EpisodeInv, LockIsHeld, InMutation, InEpisode
  <2>4. HolderFollowsIntent'
    BY <2>1, <2>2 DEF EpisodeInv, HolderFollowsIntent, InMutation, InEpisode
  <2>5. SpawnersOwnWorkers'
    BY <2>1, <2>2 DEF EpisodeInv, SpawnersOwnWorkers
  <2>6. AttemptsStart'
    BY <2>1, <2>2 DEF EpisodeInv, AttemptsStart
  <2>7. QED
    BY <2>3, <2>4, <2>5, <2>6 DEF EpisodeInv
<1>7. ASSUME BeginAttempt(t) PROVE EpisodeInv'
  <2>1. at[t] = "acquire" /\ mutation = NoThread /\ desired_running' = desired_running
        /\ job' = [job EXCEPT ![t] = job[t]]
    BY <1>7, <1>j DEF BeginAttempt, intent
  <2>2. job[t].want = "up"
    BY <1>w, <2>1 DEF EpisodeInv, AttemptsStart
  <2>3. CASE Current(job[t].cycle)
    <3>1. mutation' = t /\ at' = [at EXCEPT ![t] = "probe"] /\ desired_running
      BY <1>7, <2>3 DEF BeginAttempt, Goto, Current, Armed
    <3>2. QED
      BY <1>j, <1>s, <1>m, <2>1, <2>2, <3>1, MoveEpisode, ThreadsAssumption
  <2>4. CASE ~Current(job[t].cycle)
    <3>1. mutation' = mutation /\ at' = [at EXCEPT ![t] = "done"]
      BY <1>7, <2>4 DEF BeginAttempt, Goto
    <3>2. QED
      BY <1>j, <1>s, <1>m, <2>1, <2>2, <3>1, MoveEpisode
  <2>5. QED
    BY <2>3, <2>4
\* The episode: the thread keeps the lock or gives it back as it leaves.
<1>e. ASSUME InEpisode(t), NEW step \in {"satisfied", "unsatisfied", "done"},
             EndEpisode(t, step), UNCHANGED <<job, desired_running>>
      PROVE  EpisodeInv'
  <2>1. mutation = t /\ mutation' = NoThread /\ at[t] # "registered"
    BY <1>e, <1>k DEF InMutation, InEpisode, EndEpisode
  <2>2. PICK next \in {"satisfied", "unsatisfied", "done"} : at' = [at EXCEPT ![t] = next]
    BY <1>e DEF EndEpisode, Goto
  <2>3. QED
    BY <1>e, <1>j, <1>s, <1>w, <1>m, <2>1, <2>2, MoveEpisode, ThreadsAssumption
<1>f. ASSUME InEpisode(t), NEW step \in {"command", "verify"}, Goto(t, step),
             UNCHANGED <<job, mutation, desired_running>>
      PROVE  EpisodeInv'
  <2>1. mutation = t /\ at[t] # "registered"
    BY <1>f, <1>k DEF InMutation, InEpisode
  <2>2. (job[t].want = "up") <=> desired_running'
    BY <1>f, <1>h DEF InMutation
  <2>3. QED
    BY <1>f, <1>j, <1>s, <1>w, <2>1, <2>2, MoveEpisode DEF Goto
<1>8. ASSUME Probe(t) PROVE EpisodeInv'
  BY <1>8, <1>e, <1>f DEF Probe, InEpisode, intent
<1>9. ASSUME Command(t) PROVE EpisodeInv'
  BY <1>9, <1>f DEF Command, InEpisode, intent
<1>10. ASSUME Verify(t) PROVE EpisodeInv'
  BY <1>10, <1>e DEF Verify, InEpisode, intent
<1>11. ASSUME EpisodeRaises(t) PROVE EpisodeInv'
  BY <1>11, <1>e DEF EpisodeRaises, InEpisode, intent
\* After the episode: no lock, no intent, one thread.
<1>c. ASSUME at[t] \in {"satisfied", "retry"}, NEW step \in {"done", "publish"},
             EndCycle(t, step), UNCHANGED <<mutation, desired_running>>
      PROVE  EpisodeInv'
  <2>1. PICK token \in Retries \cup {NoRetry} : Resume(t, job[t], token, step)
    BY <1>c DEF EndCycle, TypeOK
  <2>2. mutation # t
    BY <1>c, <1>k DEF InMutation, InEpisode
  <2>3. step \in AfterCancel /\ step # "probe"
    BY <1>d
  <2>4. QED
    BY <1>c, <1>j, <1>w, <2>1, <2>2, <2>3, ResumeEpisode
<1>g. ASSUME at[t] \in {"unsatisfied", "publish", "retry", "store"},
             NEW step \in {"done", "retry", "store"}, Goto(t, step),
             UNCHANGED <<job, mutation, desired_running>>
      PROVE  EpisodeInv'
  <2>1. mutation # t
    BY <1>g, <1>k DEF InMutation, InEpisode
  <2>2. QED
    BY <1>g, <1>j, <1>s, <1>w, <2>1, MoveEpisode DEF Goto
<1>12. ASSUME HandleSatisfied(t) PROVE EpisodeInv'
  BY <1>12, <1>c DEF HandleSatisfied, intent
<1>13. ASSUME HandleUnsatisfied(t) PROVE EpisodeInv'
  BY <1>13, <1>g DEF HandleUnsatisfied, intent
<1>14. ASSUME Exhaust(t) PROVE EpisodeInv'
  BY <1>14, <1>c DEF Exhaust, intent
<1>15. ASSUME Publish(t) PROVE EpisodeInv'
  BY <1>15, <1>g DEF Publish, intent
<1>16. ASSUME Schedule(t) PROVE EpisodeInv'
  BY <1>16, <1>g DEF Schedule, intent
<1>17. ASSUME StoreToken(t) PROVE EpisodeInv'
  <2>1. CASE Current(job[t].cycle)
    <3>1. /\ at[t] = "store" /\ Resume(t, job[t], retry_token, "done")
          /\ mutation' = mutation /\ desired_running' = desired_running
      BY <1>17, <2>1 DEF StoreToken, intent
    <3>2. mutation # t
      BY <3>1, <1>k DEF InMutation, InEpisode
    <3>3. QED
      BY <1>d, <1>j, <1>w, <3>1, <3>2, ResumeEpisode DEF TypeOK
  <2>2. CASE ~Current(job[t].cycle)
    BY <1>17, <1>g, <2>2 DEF StoreToken, intent
  <2>3. QED
    BY <2>1, <2>2
<1>18. QED
  BY <1>1, <1>2, <1>3, <1>4, <1>5, <1>6, <1>7, <1>8, <1>9, <1>10, <1>11, <1>12,
     <1>13, <1>14, <1>15, <1>16, <1>17 DEF Continue

LEMMA EnvironmentEpisode ==
  ASSUME TypeOK, EpisodeInv,
         \/ \E r \in Retries : RetryFires(r)
         \/ \E b \in BusThreads, r \in Retries : OnRetryDue(b, r)
         \/ ServerCrashes
         \/ UNCHANGED vars
  PROVE  EpisodeInv'
<1>1. ASSUME UNCHANGED <<at, job, mutation, desired_running>> PROVE EpisodeInv'
  BY <1>1 DEF EpisodeInv, LockIsHeld, HolderFollowsIntent, SpawnersOwnWorkers,
              AttemptsStart, InMutation, InEpisode
<1>2. ASSUME NEW r \in Retries, RetryFires(r) PROVE EpisodeInv'
  BY <1>1, <1>2 DEF RetryFires, intent
<1>3. ASSUME NEW b \in BusThreads, NEW r \in Retries, OnRetryDue(b, r) PROVE EpisodeInv'
  <2>1. at[b] = "idle" /\ mutation' = mutation /\ desired_running' = desired_running
    BY <1>3 DEF OnRetryDue, intent
  <2>2. mutation # b
    BY <2>1 DEF EpisodeInv, LockIsHeld, InMutation, InEpisode
  <2>3. CASE subscribed /\ Current(r.cycle)
    <3> DEFINE locals == [NoJob EXCEPT !.cycle = r.cycle, !.attempt = r.attempt]
    <3>1. locals \in Jobs /\ locals.want = "up"
      BY NoJobTyped DEF Jobs, Retries, NoJob
    <3>2. Resume(b, locals, NoRetry, "launch")
      BY <1>3, <2>3 DEF OnRetryDue
    <3>3. "launch" \in AfterCancel
      BY DEF AfterCancel
    <3>4. QED
      BY <2>1, <2>2, <3>1, <3>2, <3>3, ResumeEpisode
  <2>4. CASE ~(subscribed /\ Current(r.cycle))
    BY <1>1, <1>3, <2>1, <2>4 DEF OnRetryDue
  <2>5. QED
    BY <2>3, <2>4
<1>4. ASSUME ServerCrashes PROVE EpisodeInv'
  BY <1>1, <1>4 DEF ServerCrashes, intent
<1>5. ASSUME UNCHANGED vars PROVE EpisodeInv'
  BY <1>1, <1>5 DEF vars, intent
<1>6. QED
  BY <1>2, <1>3, <1>4, <1>5

LEMMA NextEpisode == TypeOK /\ EpisodeInv /\ [Next]_vars => EpisodeInv'
<1> SUFFICES ASSUME TypeOK, EpisodeInv, [Next]_vars PROVE EpisodeInv'
  OBVIOUS
<1>1. ASSUME NEW t \in Callers, Operation(t) PROVE EpisodeInv'
  BY <1>1, OperationEpisode
<1>2. ASSUME NEW t \in Threads, Continue(t) PROVE EpisodeInv'
  BY <1>2, ContinueEpisode
<1>3. CASE \/ \E r \in Retries : RetryFires(r)
           \/ \E b \in BusThreads, r \in Retries : OnRetryDue(b, r)
           \/ ServerCrashes
           \/ UNCHANGED vars
  BY <1>3, EnvironmentEpisode
<1>4. QED
  BY <1>1, <1>2, <1>3 DEF Next, Rest

\* The mutation lock and the intent agree with what every thread is doing.
THEOREM EpisodeInvariant == Spec => []EpisodeInv
BY InitEpisode, NextEpisode, TypeCorrect, PTL DEF Spec

\* _mutation_lock serializes every managed start, stop and recovery attempt.
THEOREM EpisodesAreExclusive == Spec => []OneEpisode
<1>1. EpisodeInv => OneEpisode
  BY DEF EpisodeInv, LockIsHeld, InMutation, OneEpisode
<1>2. QED
  BY <1>1, EpisodeInvariant, PTL

\* A recovery attempt works only while running is wanted: stop() fences it off.
THEOREM AttemptsAreWanted == Spec => []AttemptsOnlyWhileWanted
<1>1. EpisodeInv => AttemptsOnlyWhileWanted
  BY DEF EpisodeInv, HolderFollowsIntent, AttemptsStart, InMutation,
         AttemptsOnlyWhileWanted
<1>2. QED
  BY <1>1, EpisodeInvariant, PTL

\* Only a native command of an episode that agrees with the intent moves the
\* server up.
LEMMA ServerRises ==
  ASSUME TypeOK, EpisodeInv, [Next]_vars, server = "down", server' = "up"
  PROVE  desired_running
<1> USE DEF external
<1>1. \A t \in Callers : Operation(t) => server' = server
  BY DEF Operation, Start, Stop, SetRecoveryEnabled, Reconcile, Close
<1>2. ASSUME NEW t \in Threads, Continue(t)
      PROVE  Command(t)
  BY <1>2 DEF Continue, Cancel, Return, Unsubscribe, Join, Launch, Spawn,
              BeginAttempt, Probe, Verify, EpisodeRaises, HandleSatisfied,
              HandleUnsatisfied, Exhaust, Publish, Schedule, StoreToken
<1>3. \A r \in Retries : RetryFires(r) => server' = server
  BY DEF RetryFires
<1>4. \A b \in BusThreads, r \in Retries : OnRetryDue(b, r) => server' = server
  BY DEF OnRetryDue
<1>5. PICK t \in Threads : Command(t)
  BY <1>1, <1>2, <1>3, <1>4 DEF Next, Rest, ServerCrashes, vars
<1>6. InMutation(t) /\ job[t].want = "up"
  BY <1>5 DEF Command, InMutation, InEpisode
<1>7. QED
  BY <1>6 DEF EpisodeInv, HolderFollowsIntent

\* Nothing left over from before a stop() brings the server back up.
THEOREM StopIsFinal == Spec => StopSticks
<1>1. TypeOK /\ EpisodeInv /\ [Next]_vars
        => [server = "down" /\ server' = "up" => desired_running]_vars
  BY ServerRises
<1>2. QED
  BY <1>1, TypeCorrect, EpisodeInvariant, PTL DEF Spec, StopSticks
-------------------------------------------------------------------------------
(***************************************************************************)
(* Refinement: the supervisor implements ServerIntent.                     *)
(***************************************************************************)
\* A step that moves neither the lock nor the holder's command keeps the activity.
LEMMA ActivityKept ==
  ASSUME TypeOK, mutation' = mutation,
         \A u \in Threads : mutation = u => job'[u].want = job[u].want
  PROVE  Activity' = Activity
BY ThreadsAssumption DEF Activity, TypeOK

LEMMA ResumeWant ==
  ASSUME TypeOK, NEW t \in Threads, NEW locals \in Jobs,
         NEW token \in Retries \cup {NoRetry}, NEW step \in AfterCancel,
         Resume(t, locals, token, step)
  PROVE  /\ job'[t].want = locals.want
         /\ \A u \in Threads \ {t} : job'[u] = job[u]
<1>1. [locals EXCEPT !.token = token, !.then = step].want = locals.want
  BY DEF Jobs
<1>2. QED
  BY <1>1 DEF Resume, TypeOK

LEMMA IntentStutters ==
  ASSUME Activity' = Activity,
         UNCHANGED <<desired_running, recovery_enabled, closed, server>>
  PROVE  UNCHANGED Endpoint!vars
BY DEF Endpoint!vars, Armed

LEMMA OperationRefines ==
  ASSUME TypeOK, EpisodeInv, NEW t \in Callers, Operation(t)
  PROVE  [Endpoint!Next]_(Endpoint!vars)
<1>t. t \in Threads /\ t # NoThread
  BY ThreadsAssumption
<1>i. at[t] = "idle" /\ mutation # t /\ ~closed
  BY <1>t DEF Operation, Start, Stop, SetRecoveryEnabled, Reconcile, Close,
              EpisodeInv, LockIsHeld, InMutation, InEpisode
<1>n. NoJob \in Jobs /\ NoJob.want = "up"
  BY NoJobTyped DEF NoJob
<1>r. retry_token \in Retries \cup {NoRetry} /\ recovery_epoch \in Nat
  BY DEF TypeOK
<1>s. {"probe", "launch", "done"} \subseteq AfterCancel
  BY DEF AfterCancel
\* An operation that does not take the lock leaves the activity alone.
<1>a. ASSUME mutation' = mutation, \A u \in Threads \ {t} : job'[u] = job[u]
      PROVE  Activity' = Activity
  BY <1>a, <1>i, ActivityKept
<1>c. \A cycle \in Cycles : /\ [NoJob EXCEPT !.cycle = cycle] \in Jobs
                            /\ [NoJob EXCEPT !.cycle = cycle].want = "up"
  BY <1>n DEF Jobs
<1>1. ASSUME NEW enabled \in BOOLEAN, Start(t, enabled) PROVE Endpoint!Want
  <2> DEFINE cycle == IF enabled THEN recovery_epoch + 1 ELSE 0
  <2>1. cycle \in Cycles
    BY <1>1, <1>r, ZeroIsCycle, BoundsAssumption DEF Start, Cycles
  <2>2. Resume(t, [NoJob EXCEPT !.cycle = cycle], retry_token, "probe")
    BY <1>1 DEF Start
  <2>3. job'[t].want = "up"
    BY <1>c, <1>r, <1>s, <1>t, <2>1, <2>2, ResumeWant
  <2>4. Activity = "none" /\ Activity' = "starting"
    BY <1>1, <1>t, <2>3 DEF Start, Activity
  <2>5. desired_running' = TRUE /\ closed' = closed /\ server' = server
        /\ (Armed /\ ~closed)' \in BOOLEAN
    BY <1>1 DEF Start, Armed
  <2>6. QED
    BY <1>i, <2>4, <2>5 DEF Endpoint!Want
<1>2. ASSUME Stop(t) PROVE Endpoint!Unwant
  <2>1. [NoJob EXCEPT !.want = "down"] \in Jobs
        /\ [NoJob EXCEPT !.want = "down"].want = "down"
    BY <1>n DEF Jobs
  <2>2. Resume(t, [NoJob EXCEPT !.want = "down"], retry_token, "probe")
    BY <1>2 DEF Stop
  <2>3. job'[t].want = "down"
    BY <1>r, <1>s, <1>t, <2>1, <2>2, ResumeWant
  <2>4. Activity = "none" /\ Activity' = "stopping"
    BY <1>2, <1>t, <2>3 DEF Stop, Activity
  <2>5. desired_running' = FALSE /\ closed' = closed /\ server' = server
        /\ (Armed /\ ~closed)' = FALSE
    BY <1>2 DEF Stop, Armed, external
  <2>6. QED
    BY <1>i, <2>4, <2>5 DEF Endpoint!Unwant
<1>3. ASSUME NEW enabled \in BOOLEAN, SetRecoveryEnabled(t, enabled) PROVE Endpoint!Arm
  <2> DEFINE cycle == IF enabled THEN recovery_epoch + 1 ELSE 0
             step == IF enabled THEN "launch" ELSE "done"
  <2>1. cycle \in Cycles /\ step \in AfterCancel
    BY <1>3, <1>r, <1>s, ZeroIsCycle, BoundsAssumption DEF SetRecoveryEnabled, Cycles
  <2>2. Resume(t, [NoJob EXCEPT !.cycle = cycle], retry_token, step)
        /\ mutation' = mutation
    BY <1>3 DEF SetRecoveryEnabled
  <2>3. Activity' = Activity
    BY <1>a, <1>c, <1>r, <1>t, <2>1, <2>2, ResumeWant
  <2>4. /\ desired_running' = desired_running /\ closed' = closed /\ server' = server
        /\ (Armed /\ ~closed)' \in BOOLEAN
        /\ (Armed /\ ~closed)' => desired_running
    BY <1>3 DEF SetRecoveryEnabled, Armed
  <2>5. QED
    BY <1>i, <2>3, <2>4 DEF Endpoint!Arm
<1>4. ASSUME Reconcile(t) PROVE UNCHANGED Endpoint!vars
  <2>1. recovery_epoch + 1 \in Cycles
    BY <1>4, <1>r, BoundsAssumption DEF Reconcile, Cycles
  <2>2. Resume(t, [NoJob EXCEPT !.cycle = recovery_epoch + 1], NoRetry, "launch")
        /\ mutation' = mutation
    BY <1>4 DEF Reconcile
  <2>3. Activity' = Activity
    BY <1>a, <1>c, <1>s, <1>t, <2>1, <2>2, ResumeWant
  <2>4. QED
    BY <1>4, <2>3, IntentStutters DEF Reconcile
<1>5. ASSUME Close(t) PROVE Endpoint!Close
  <2>1. mutation' = mutation /\ \A u \in Threads \ {t} : job'[u] = job[u]
    BY <1>5 DEF Close, TypeOK
  <2>2. Activity' = Activity
    BY <1>a, <2>1
  <2>3. /\ closed' = TRUE /\ desired_running' = desired_running /\ server' = server
        /\ (Armed /\ ~closed)' = FALSE
    BY <1>5 DEF Close, external
  <2>4. QED
    BY <2>2, <2>3 DEF Endpoint!Close
<1>6. QED
  BY <1>1, <1>2, <1>3, <1>4, <1>5 DEF Operation, Endpoint!Next

LEMMA ContinueRefines ==
  ASSUME TypeOK, EpisodeInv, NEW t \in Threads, Continue(t)
  PROVE  [Endpoint!Next]_(Endpoint!vars)
<1> USE DEF intent, recovery, external
<1>m. t # NoThread
  BY ThreadsAssumption
<1>k. InMutation(t) <=> mutation = t
  BY DEF EpisodeInv, LockIsHeld
<1>j. job[t] \in Jobs
  BY DEF TypeOK
\* A step outside the episode that changes locals only in their other fields.
<1>a. ASSUME mutation' = mutation, \A u \in Threads : mutation = u => job'[u].want = job[u].want,
             UNCHANGED <<desired_running, recovery_enabled, closed, server>>
      PROVE  UNCHANGED Endpoint!vars
  BY <1>a, ActivityKept, IntentStutters
<1>b. ASSUME mutation' = mutation, UNCHANGED job,
             UNCHANGED <<desired_running, recovery_enabled, closed, server>>
      PROVE  UNCHANGED Endpoint!vars
  BY <1>a, <1>b
<1>1. ASSUME Cancel(t) PROVE UNCHANGED Endpoint!vars
  <2>1. \A u \in Threads : job'[u].want = job[u].want
    BY <1>1, <1>j DEF Cancel, TypeOK, Jobs
  <2>2. QED
    BY <1>1, <1>a, <2>1 DEF Cancel
<1>2. ASSUME Return(t) PROVE UNCHANGED Endpoint!vars
  <2>1. \A u \in Threads : mutation = u => job'[u] = job[u]
    BY <1>2, <1>k DEF Return, InMutation, InEpisode, TypeOK
  <2>2. QED
    BY <1>2, <1>a, <2>1 DEF Return
<1>3. ASSUME Unsubscribe(t) PROVE UNCHANGED Endpoint!vars
  <2>1. [job[t] EXCEPT !.token = NoRetry] \in Jobs /\ job[t].token \in Retries \cup {NoRetry}
        /\ "join" \in AfterCancel
    BY <1>j DEF Jobs, AfterCancel
  <2>2. \A u \in Threads \ {t} : job'[u] = job[u]
    BY <1>3, <2>1, ResumeWant DEF Unsubscribe
  <2>3. mutation # t
    BY <1>3, <1>k DEF Unsubscribe, InMutation, InEpisode
  <2>4. QED
    BY <1>3, <1>a, <2>2, <2>3 DEF Unsubscribe
<1>4. ASSUME Join(t) PROVE UNCHANGED Endpoint!vars
  <2>1. \A u \in Threads \ {t} : job'[u] = job[u]
    BY <1>4 DEF Join, TypeOK
  <2>2. mutation # t
    BY <1>4, <1>k DEF Join, InMutation, InEpisode
  <2>3. QED
    BY <1>4, <1>a, <2>1, <2>2 DEF Join
<1>5. ASSUME Launch(t) PROVE UNCHANGED Endpoint!vars
  <2>1. mutation # t
    BY <1>5, <1>k DEF Launch, InMutation, InEpisode
  <2>2. ASSUME Current(job[t].cycle)
        PROVE  \A u \in Threads : mutation = u => job'[u] = job[u]
    <3>1. PICK w \in Workers :
            /\ at[w] = "idle"
            /\ job' = [job EXCEPT
                 ![t].workers = {w},
                 ![w] = [NoJob EXCEPT !.cycle = job[t].cycle,
                                      !.attempt = job[t].attempt]]
      BY <1>5, <2>2 DEF Launch
    <3>2. mutation # w
      BY <3>1 DEF EpisodeInv, LockIsHeld, InMutation, InEpisode
    <3>3. QED
      BY <2>1, <3>1, <3>2 DEF TypeOK
  <2>3. \A u \in Threads : mutation = u => job'[u] = job[u]
    BY <1>5, <2>2 DEF Launch
  <2>4. QED
    BY <1>5, <1>a, <2>3 DEF Launch
<1>6. ASSUME Spawn(t) PROVE UNCHANGED Endpoint!vars
  BY <1>6, <1>b DEF Spawn
<1>7. ASSUME BeginAttempt(t) PROVE Endpoint!Recover \/ UNCHANGED Endpoint!vars
  <2>1. CASE Current(job[t].cycle)
    <3>1. job[t].want = "up"
      BY <1>7 DEF BeginAttempt, EpisodeInv, AttemptsStart
    <3>2. Activity = "none" /\ Activity' = "starting"
      BY <1>7, <1>m, <2>1, <3>1 DEF BeginAttempt, Activity
    <3>3. /\ desired_running /\ Armed /\ ~closed
          /\ UNCHANGED <<desired_running, recovery_enabled, closed, server>>
      BY <1>7, <2>1 DEF BeginAttempt, Current, Armed
    <3>4. QED
      BY <3>2, <3>3 DEF Endpoint!Recover, Armed
  <2>2. CASE ~Current(job[t].cycle)
    BY <1>7, <1>b, <2>2 DEF BeginAttempt
  <2>3. QED
    BY <2>1, <2>2
<1>e. ASSUME InEpisode(t), mutation' = NoThread,
             UNCHANGED <<desired_running, recovery_enabled, closed, server>>
      PROVE  Endpoint!Finish
  <2>1. Activity # "none" /\ Activity' = "none"
    BY <1>e, <1>k, <1>m DEF Activity, InMutation
  <2>2. QED
    BY <1>e, <2>1 DEF Endpoint!Finish, Armed
<1>8. ASSUME Probe(t) PROVE Endpoint!Finish \/ UNCHANGED Endpoint!vars
  BY <1>8, <1>b, <1>e DEF Probe, InEpisode, EndEpisode
<1>9. ASSUME Command(t) PROVE Endpoint!Act \/ UNCHANGED Endpoint!vars
  <2>1. mutation = t /\ job[t].want \in {"up", "down"}
    BY <1>9, <1>k, <1>j DEF Command, InMutation, InEpisode, Jobs
  <2>2. UNCHANGED <<desired_running, recovery_enabled, closed, mutation, job>>
    BY <1>9 DEF Command
  <2>3. Activity = (IF job[t].want = "up" THEN "starting" ELSE "stopping")
        /\ Activity' = Activity
    BY <1>m, <2>1, <2>2 DEF Activity
  <2>4. CASE server' = server
    BY <1>b, <2>2, <2>4
  <2>5. CASE server' = job[t].want
    BY <2>1, <2>2, <2>3, <2>5 DEF Endpoint!Act, Armed
  <2>6. QED
    BY <1>9, <2>4, <2>5 DEF Command
<1>10. ASSUME Verify(t) PROVE Endpoint!Finish
  BY <1>10, <1>e DEF Verify, InEpisode, EndEpisode
<1>11. ASSUME EpisodeRaises(t) PROVE Endpoint!Finish
  BY <1>11, <1>e DEF EpisodeRaises, InEpisode, EndEpisode
<1>c. ASSUME NEW step \in {"done", "publish"}, EndCycle(t, step),
             at[t] \in {"satisfied", "retry"}, mutation' = mutation,
             UNCHANGED <<desired_running, recovery_enabled, closed, server>>
      PROVE  UNCHANGED Endpoint!vars
  <2>1. PICK token \in Retries \cup {NoRetry} : Resume(t, job[t], token, step)
    BY <1>c DEF EndCycle, TypeOK
  <2>2. step \in AfterCancel
    BY DEF AfterCancel
  <2>3. \A u \in Threads \ {t} : job'[u] = job[u]
    BY <1>j, <2>1, <2>2, ResumeWant
  <2>4. mutation # t
    BY <1>c, <1>k DEF InMutation, InEpisode
  <2>5. QED
    BY <1>a, <1>c, <2>3, <2>4
<1>12. ASSUME HandleSatisfied(t) PROVE UNCHANGED Endpoint!vars
  BY <1>12, <1>c DEF HandleSatisfied
<1>13. ASSUME HandleUnsatisfied(t) PROVE UNCHANGED Endpoint!vars
  BY <1>13, <1>b DEF HandleUnsatisfied
<1>14. ASSUME Exhaust(t) PROVE UNCHANGED Endpoint!vars
  BY <1>14, <1>c DEF Exhaust
<1>15. ASSUME Publish(t) PROVE UNCHANGED Endpoint!vars
  BY <1>15, <1>b DEF Publish
<1>16. ASSUME Schedule(t) PROVE UNCHANGED Endpoint!vars
  BY <1>16, <1>b DEF Schedule
<1>17. ASSUME StoreToken(t) PROVE UNCHANGED Endpoint!vars
  <2>1. CASE Current(job[t].cycle)
    <3>1. Resume(t, job[t], retry_token, "done")
      BY <1>17, <2>1 DEF StoreToken
    <3>2. retry_token \in Retries \cup {NoRetry} /\ "done" \in AfterCancel
      BY DEF TypeOK, AfterCancel
    <3>3. \A u \in Threads \ {t} : job'[u] = job[u]
      BY <1>j, <3>1, <3>2, ResumeWant
    <3>4. mutation # t
      BY <1>17, <1>k DEF StoreToken, InMutation, InEpisode
    <3>5. QED
      BY <1>a, <1>17, <3>3, <3>4 DEF StoreToken
  <2>2. CASE ~Current(job[t].cycle)
    BY <1>17, <1>b, <2>2 DEF StoreToken
  <2>3. QED
    BY <2>1, <2>2
<1>18. QED
  BY <1>1, <1>2, <1>3, <1>4, <1>5, <1>6, <1>7, <1>8, <1>9, <1>10, <1>11, <1>12,
     <1>13, <1>14, <1>15, <1>16, <1>17 DEF Continue, Endpoint!Next

LEMMA EnvironmentRefines ==
  ASSUME TypeOK, EpisodeInv,
         \/ \E r \in Retries : RetryFires(r)
         \/ \E b \in BusThreads, r \in Retries : OnRetryDue(b, r)
         \/ ServerCrashes
         \/ UNCHANGED vars
  PROVE  [Endpoint!Next]_(Endpoint!vars)
<1> USE DEF intent, recovery, external
<1>1. ASSUME NEW r \in Retries, RetryFires(r) PROVE UNCHANGED Endpoint!vars
  BY <1>1, ActivityKept, IntentStutters DEF RetryFires
<1>2. ASSUME NEW b \in BusThreads, NEW r \in Retries, OnRetryDue(b, r)
      PROVE  UNCHANGED Endpoint!vars
  <2>1. mutation # b
    BY <1>2 DEF OnRetryDue, EpisodeInv, LockIsHeld, InMutation, InEpisode
  <2>2. \A u \in Threads \ {b} : job'[u] = job[u]
    BY <1>2 DEF OnRetryDue, Resume, TypeOK
  <2>3. QED
    BY <1>2, <2>1, <2>2, ActivityKept, IntentStutters DEF OnRetryDue
<1>3. ASSUME ServerCrashes PROVE Endpoint!Crash
  BY <1>3 DEF ServerCrashes, Endpoint!Crash, Activity, Armed
<1>4. ASSUME UNCHANGED vars PROVE UNCHANGED Endpoint!vars
  BY <1>4, ActivityKept, IntentStutters DEF vars
<1>5. QED
  BY <1>1, <1>2, <1>3, <1>4 DEF Endpoint!Next

LEMMA InitRefines == Init => Endpoint!Init
BY DEF Init, Endpoint!Init, Activity, Armed

LEMMA NextRefines == TypeOK /\ EpisodeInv /\ [Next]_vars => [Endpoint!Next]_(Endpoint!vars)
<1> SUFFICES ASSUME TypeOK, EpisodeInv, [Next]_vars
             PROVE  [Endpoint!Next]_(Endpoint!vars)
  OBVIOUS
<1>1. ASSUME NEW t \in Callers, Operation(t) PROVE [Endpoint!Next]_(Endpoint!vars)
  BY <1>1, OperationRefines
<1>2. ASSUME NEW t \in Threads, Continue(t) PROVE [Endpoint!Next]_(Endpoint!vars)
  BY <1>2, ContinueRefines
<1>3. CASE \/ \E r \in Retries : RetryFires(r)
           \/ \E b \in BusThreads, r \in Retries : OnRetryDue(b, r)
           \/ ServerCrashes
           \/ UNCHANGED vars
  BY <1>3, EnvironmentRefines
<1>4. QED
  BY <1>1, <1>2, <1>3 DEF Next, Rest

\* The threads, locks, cycles and timers implement the intent of the endpoint.
THEOREM SupervisorImplementsIntent == Spec => ImplementsIntent
BY InitRefines, NextRefines, TypeCorrect, EpisodeInvariant, PTL
   DEF Spec, ImplementsIntent, Endpoint!Spec
===============================================================================
