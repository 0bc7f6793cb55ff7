------------------------ MODULE ObservationCyclesProofs ------------------------
(***************************************************************************)
(* What AdbDevicesObservationSupervisor does with its establishment        *)
(* cycles, for all sets of threads and all bounds.                         *)
(*                                                                         *)
(* Only the cycle opened last can still be driven, and it is driven like a *)
(* baton that is passed on: by one thread, or by one pending retry.        *)
(***************************************************************************)
EXTENDS DevicesObservationProofs

(***************************************************************************)
(* The invariants.                                                         *)
(***************************************************************************)
Pending == scheduled \cup due

\* Thread t has the baton; nobody has it.
Driving(t) ==
  at[t] \in {"begin", "await", "satisfied", "unsatisfied", "end", "retry", "launch", "registered"}

Nobody == (\A t \in Threads : ~Driving(t)) /\ Pending = {}

\* The baton belongs to the cycle opened last, which is live, or was when the
\* supervisor was closed.
LastCycleOnly ==
  /\ cycle_id \in {0, cycles}
  /\ closed => cycle_id = 0
  /\ ~subscribed => cycles = 0
  /\ \A t \in Threads : Driving(t) => job[t].cycle = cycles /\ cycles # 0
  /\ \A r \in Pending : r.cycle = cycles /\ cycles # 0
  /\ cycle_id = 0 /\ ~closed => Nobody

OneBaton ==
  /\ \A t, u \in Threads : Driving(t) /\ Driving(u) => t = u
  /\ \A r, q \in Pending : r = q
  /\ scheduled \cap due = {}
  /\ \A t \in Threads : Driving(t) => Pending = {}

BatonInv == LastCycleOnly /\ OneBaton

\* The attempt in the slot has not been judged yet; who starts it has registered it.
InSlot(w) == at[w] \in {"registered", "begin", "await", "satisfied", "unsatisfied"}

SlotInv ==
  /\ \A w \in Workers : InSlot(w) <=> attempt_thread = w
  /\ \A t \in Threads : at[t] = "spawn" =>
       job[t].worker \in Workers /\ at[job[t].worker] = "registered"
  /\ \A t, u \in Threads : at[t] = "spawn" /\ at[u] = "spawn" => t = u

Opened(g) == stage[g] \notin {"none", "opening"}

\* A started signal is the signal of a session that did start; what an episode waits
\* for on behalf of a live cycle is newer than the current session.
EpisodesInv ==
  /\ \A t \in Threads : \A i \in 1 .. Len(inbox[t]) :
       inbox[t][i].kind = "started" => Opened(inbox[t][i].session)
  /\ \A t \in Threads : at[t] \in {"await", "satisfied"} =>
       /\ job[t].session \in Sessions
       /\ cycle_id # 0 => job[t].session > current
  /\ \A t \in Threads : at[t] = "satisfied" => Opened(job[t].session)

\* Every session opens at most one cycle, start() the first: no more than the bound.
CyclesFollowSessions ==
  /\ current <= generation
  /\ cycles <= current + 1
  /\ current # 0 /\ stage[current] # "ended" => cycles <= current
  /\ \A g \in Sessions : stage[g] = "publishing" => terminal[g] # "none"

\* The thread in close(): on its way to the observer, and anywhere in it.
BeforeObserver(t) == at[t] = "observer" \/ (at[t] = "cancel" /\ job[t].then = "observer")

Closer(t) == BeforeObserver(t) \/ at[t] \in {"closed observer", "join"}

OneCloser ==
  /\ closing = "no" <=> ~closed
  /\ \A t \in Threads : Closer(t) =>
       /\ t \in Clients /\ closing = "running"
       /\ \A w \in Workers : InSlot(w) => job[t].worker = w
  /\ \A t, u \in Threads : Closer(t) /\ Closer(u) => t = u
  /\ closing = "returned" => \A w \in Workers : ~InSlot(w)

CloserStopsObserver ==
  /\ observer_closed => closed
  /\ \A t \in Threads : BeforeObserver(t) => ~observer_closed /\ call[t] = NoCall
  /\ \A t \in Threads : at[t] = "closed observer" =>
       /\ observer_closed
       /\ \/ active = 0
          \/ call[t].step = "stop"
          \/ call[t].step \in {"source", "join"} /\ call[t].session = active
  /\ (\E t \in Threads : at[t] = "join") \/ closing \in {"returned", "raised"} =>
       observer_closed /\ active = 0

ClosingInv == OneCloser /\ CloserStopsObserver
-----------------------------------------------------------------------------
(***************************************************************************)
(* What a step does to the threads.                                        *)
(***************************************************************************)

\* Thread t is at `step` with these locals, and the others are where they were.
Moves(t, step, locals) ==
  /\ at'[t] = step /\ job'[t] = locals
  /\ \A u \in Threads \ {t} : at'[u] = at[u] /\ job'[u] = job[u]

LEMMA NoJobTyped ==
  /\ NoJob \in Jobs /\ NoJob.cycle = 0 /\ NoJob.attempt = 1 /\ NoJob.session = 0
  /\ NoJob.token = NoRetry /\ NoJob.then = "idle" /\ NoJob.worker = NoThread
  /\ NoRetry \in Retries \cup {NoRetry} /\ NoRetry.cycle = 0 /\ 0 \in Cycles
BY BoundsAssumption, GenerationsAssumption
   DEF NoJob, Jobs, Cycles, Attempts, AfterCancel, NoRetry, Retries

LEMMA StepsTyped ==
  /\ {"idle", "cancel", "begin", "await", "satisfied", "unsatisfied", "end", "retry", "store",
      "publish", "launch", "spawn", "registered", "observer", "closed observer", "join"} = Steps
  /\ AfterCancel \subseteq Steps
BY DEF Steps, AfterCancel

LEMMA EnterMoves ==
  ASSUME TypeOK, NEW t \in Threads, NEW locals \in Jobs, NEW step \in Steps, Enter(t, locals, step)
  PROVE  /\ at' \in [Threads -> Steps] /\ job' \in [Threads -> Jobs]
         /\ step = "idle" => Moves(t, step, NoJob)
         /\ step # "idle" => Moves(t, step, locals)
BY NoJobTyped DEF Enter, Goto, TypeOK, Moves

LEMMA FinishMoves ==
  ASSUME TypeOK, NEW t \in Threads, Finish(t)
  PROVE  at' \in [Threads -> Steps] /\ job' \in [Threads -> Jobs] /\ Moves(t, "idle", NoJob)
BY NoJobTyped, StepsTyped, EnterMoves DEF Finish

LEMMA GotoMoves ==
  ASSUME TypeOK, NEW t \in Threads, NEW step \in Steps, Goto(t, step)
  PROVE  /\ at' \in [Threads -> Steps] /\ at'[t] = step
         /\ \A u \in Threads \ {t} : at'[u] = at[u]
BY DEF Goto, TypeOK

\* Going by "cancel" keeps the rest of the locals.
LEMMA ResumeMoves ==
  ASSUME TypeOK, NEW t \in Threads, NEW locals \in Jobs, NEW step \in Steps,
         NEW token \in Retries \cup {NoRetry}, token = NoRetry \/ step \in AfterCancel,
         Resume(t, locals, token, step)
  PROVE  /\ at' \in [Threads -> Steps] /\ job' \in [Threads -> Jobs]
         /\ \/ token = NoRetry /\ step = "idle" /\ Moves(t, "idle", NoJob)
            \/ token = NoRetry /\ step # "idle" /\ Moves(t, step, locals)
            \/ /\ token # NoRetry
               /\ \E cancelling \in Jobs :
                    /\ Moves(t, "cancel", cancelling)
                    /\ cancelling.cycle = locals.cycle /\ cancelling.session = locals.session
                    /\ cancelling.worker = locals.worker /\ cancelling.attempt = locals.attempt
                    /\ cancelling.token = token /\ cancelling.then = step
<1>1. CASE token = NoRetry
  BY <1>1, EnterMoves DEF Resume
<1>2. CASE token # NoRetry
  <2> DEFINE cancelling == [locals EXCEPT !.token = token, !.then = step]
  <2>1. Enter(t, cancelling, "cancel")
    BY <1>2 DEF Resume
  <2>2. /\ cancelling \in Jobs /\ cancelling.cycle = locals.cycle
        /\ cancelling.session = locals.session /\ cancelling.worker = locals.worker
        /\ cancelling.attempt = locals.attempt
        /\ cancelling.token = token /\ cancelling.then = step
    BY <1>2 DEF Jobs
  <2> HIDE DEF cancelling
  <2>3. "cancel" \in Steps
    BY StepsTyped
  <2>4. at' \in [Threads -> Steps] /\ job' \in [Threads -> Jobs] /\ Moves(t, "cancel", cancelling)
    BY <2>1, <2>2, <2>3, EnterMoves
  <2> QED
    BY <1>2, <2>2, <2>4
<1> QED
  BY <1>1, <1>2

\* What becomes of the first signal an episode has collected.
LEMMA ReceiveCases ==
  ASSUME NEW t \in Threads, Receive(t), NEW signal, signal = Head(inbox[t])
  PROVE  /\ at[t] = "await" /\ inbox[t] # <<>>
         /\ \/ inbox' = [inbox EXCEPT ![t] = Tail(@)] /\ UNCHANGED <<at, job>>
            \/ /\ signal.session = job[t].session /\ signal.kind = "started"
               /\ Goto(t, "satisfied") /\ inbox' = [inbox EXCEPT ![t] = <<>>] /\ UNCHANGED job
            \/ signal.kind # "started" /\ Unsatisfied(t, IF signal.kind = "stopped" THEN "none" ELSE signal.kind)
BY Zenon DEF Receive

-----------------------------------------------------------------------------
(***************************************************************************)
(* Types.                                                                  *)
(***************************************************************************)

\* What the threads, the recovery and the timers are; the observer has a theorem of its own.
LEMMA UnsatisfiedMoves ==
  ASSUME TypeOK, NEW t \in Threads, NEW failure \in Failures \cup {"none"}, Unsatisfied(t, failure)
  PROVE  /\ at' \in [Threads -> Steps] /\ job' \in [Threads -> Jobs]
         /\ inbox' \in [Threads -> Seq(Signals)]
         /\ at'[t] = "unsatisfied" /\ job'[t].cycle = job[t].cycle /\ job'[t].worker = job[t].worker
         /\ job'[t].session = job[t].session /\ job'[t].attempt = job[t].attempt
         /\ inbox'[t] = <<>>
         /\ \A u \in Threads \ {t} : at'[u] = at[u] /\ job'[u] = job[u] /\ inbox'[u] = inbox[u]
<1>1. "unsatisfied" \in Steps
  BY StepsTyped
<1>2. at' \in [Threads -> Steps] /\ at'[t] = "unsatisfied" /\ \A u \in Threads \ {t} : at'[u] = at[u]
  BY <1>1, GotoMoves DEF Unsatisfied
<1> DEFINE locals == [job[t] EXCEPT !.failure = failure]
<1>3. locals \in Jobs /\ locals.cycle = job[t].cycle /\ locals.worker = job[t].worker
      /\ locals.session = job[t].session /\ locals.attempt = job[t].attempt
  BY DEF TypeOK, Jobs
<1>4. job' = [job EXCEPT ![t] = locals]
  BY DEF Unsatisfied, TypeOK
<1> HIDE DEF locals
<1>5. /\ job' \in [Threads -> Jobs] /\ job'[t] = locals
      /\ \A u \in Threads \ {t} : job'[u] = job[u]
  BY <1>3, <1>4 DEF TypeOK
<1>6. <<>> \in Seq(Signals)
  OBVIOUS
<1>7. /\ inbox' \in [Threads -> Seq(Signals)] /\ inbox'[t] = <<>>
      /\ \A u \in Threads \ {t} : inbox'[u] = inbox[u]
  BY <1>6 DEF Unsatisfied, TypeOK
<1> QED
  BY <1>2, <1>3, <1>5, <1>7

\* A started thread that goes on with its call: what it leaves alone is typed already.
LEMMA ContinueTyped ==
  ASSUME TypeOK, ObserverTypeOK', NEW t \in Threads, Continue(t)
  PROVE  TypeOK'
<1> USE DEF recovery, lifecycle, timers, history
<1>s. /\ {"idle", "cancel", "begin", "await", "satisfied", "unsatisfied", "end", "retry", "store",
          "publish", "launch", "spawn", "registered", "observer", "closed observer", "join"} = Steps
      /\ AfterCancel \subseteq Steps /\ {"publish", "idle"} \subseteq AfterCancel
  BY StepsTyped DEF AfterCancel
<1>j. /\ job[t] \in Jobs /\ job[t].cycle \in Cycles /\ job[t].session \in Sessions \cup {0}
      /\ job[t].token \in Retries \cup {NoRetry} /\ job[t].then \in AfterCancel
      /\ NextRetry(t) \in Retries
  <2>1. job[t] \in Jobs /\ job[t].cycle \in Cycles /\ job[t].attempt \in Attempts
    BY DEF TypeOK, Jobs
  <2>2. NextRetry(t) \in Retries
    BY <2>1, BoundsAssumption DEF NextRetry, Retries, Attempts
  <2> QED
    BY <2>1, <2>2 DEF Jobs
<1>l. ASSUME LeaveSlot(t) PROVE attempt_thread' \in Workers \cup {NoThread}
  BY <1>l DEF LeaveSlot, TypeOK
<1>e. ASSUME NEW step \in {"idle", "publish"}, EndCycle(t, step)
      PROVE  /\ at' \in [Threads -> Steps] /\ job' \in [Threads -> Jobs]
             /\ cycle_id' \in Cycles /\ retry_token' \in Retries \cup {NoRetry}
  <2>1. /\ cycle_id' \in {0, cycle_id} /\ retry_token' \in {NoRetry, retry_token}
        /\ \E token \in {NoRetry, retry_token} : Resume(t, job[t], token, step)
    BY <1>e DEF EndCycle
  <2>2. PICK token \in Retries \cup {NoRetry} : Resume(t, job[t], token, step)
    BY <2>1 DEF TypeOK
  <2>3. step \in Steps /\ step \in AfterCancel
    BY <1>s
  <2>4. at' \in [Threads -> Steps] /\ job' \in [Threads -> Jobs]
    BY <1>j, <2>2, <2>3, ResumeMoves
  <2> QED
    BY <2>1, <2>4, NoJobTyped DEF TypeOK
<1>1. ASSUME Cancel(t) PROVE TypeOK'
  <2> DEFINE locals == [job[t] EXCEPT !.token = NoRetry, !.then = "idle"]
  <2>1. locals \in Jobs
    BY <1>j, NoJobTyped DEF Jobs, AfterCancel
  <2>2. Enter(t, locals, job[t].then) /\ job[t].then \in Steps
    BY <1>1, <1>s, <1>j DEF Cancel
  <2> HIDE DEF locals
  <2>3. at' \in [Threads -> Steps] /\ job' \in [Threads -> Jobs]
    BY <2>1, <2>2, EnterMoves
  <2> QED
    BY <1>1, <2>3 DEF Cancel, TypeOK
<1>2. ASSUME Launch(t) PROVE TypeOK'
  <2>1. CASE Current(job[t].cycle) /\ attempt_thread = NoThread
    <3>1. PICK w \in Workers :
            /\ at[w] = "idle" /\ attempt_thread' = w
            /\ at' = [at EXCEPT ![t] = "spawn", ![w] = "registered"]
            /\ job' = [job EXCEPT ![t].worker = w,
                                  ![w] = [NoJob EXCEPT !.cycle = job[t].cycle,
                                                       !.attempt = job[t].attempt]]
      BY <1>2, <2>1 DEF Launch
    <3> DEFINE locals == [job[t] EXCEPT !.worker = w]
               first == [NoJob EXCEPT !.cycle = job[t].cycle, !.attempt = job[t].attempt]
    <3>2. locals \in Jobs /\ first \in Jobs
      BY <1>j, NoJobTyped DEF Jobs
    <3>3. job' = [[job EXCEPT ![t] = locals] EXCEPT ![w] = first]
      BY <3>1 DEF TypeOK
    <3> HIDE DEF locals, first
    <3>4. job' \in [Threads -> Jobs]
      BY <3>2, <3>3 DEF TypeOK
    <3>5. at' \in [Threads -> Steps]
      BY <1>s, <3>1 DEF TypeOK
    <3> QED
      BY <1>2, <3>1, <3>4, <3>5 DEF Launch, TypeOK
  <2>2. CASE ~(Current(job[t].cycle) /\ attempt_thread = NoThread)
    <3>1. Finish(t) /\ UNCHANGED attempt_thread
      BY <1>2, <2>2 DEF Launch
    <3> QED
      BY <1>2, <3>1, FinishMoves DEF Launch, TypeOK
  <2> QED
    BY <2>1, <2>2
<1>3. ASSUME Spawn(t) PROVE TypeOK'
  <2>1. at' \in [Threads -> Steps] /\ job' \in [Threads -> Jobs]
    BY <1>3, <1>s, NoJobTyped DEF Spawn, TypeOK
  <2> QED
    BY <1>3, <2>1 DEF Spawn, TypeOK
<1>4. ASSUME Begin(t) PROVE TypeOK'
  <2>1. ASSUME StartSession, Goto(t, "await"), job' = [job EXCEPT ![t].session = generation + 1],
               UNCHANGED inbox
        PROVE  TypeOK'
    <3>1. generation + 1 \in Sessions
      BY <2>1, GenerationsAssumption DEF StartSession, TypeOK, ObserverTypeOK, Sessions
    <3> DEFINE locals == [job[t] EXCEPT !.session = generation + 1]
    <3>2. locals \in Jobs
      BY <1>j, <3>1 DEF Jobs
    <3>3. job' = [job EXCEPT ![t] = locals]
      BY <2>1 DEF TypeOK
    <3> HIDE DEF locals
    <3>4. job' \in [Threads -> Jobs]
      BY <3>2, <3>3 DEF TypeOK
    <3>5. at' \in [Threads -> Steps]
      BY <1>s, <2>1, GotoMoves
    <3> QED
      BY <1>4, <2>1, <3>4, <3>5 DEF Begin, TypeOK
  <2>2. CASE Unsatisfied(t, "none")
    BY <1>4, <2>2, UnsatisfiedMoves DEF Begin, TypeOK
  <2> QED
    BY <1>4, <2>1, <2>2 DEF Begin
<1>5. ASSUME Receive(t) PROVE TypeOK'
  <2>1. inbox[t] # <<>> /\ inbox[t] \in Seq(Signals)
    BY <1>5 DEF Receive, TypeOK
  <2>2. PICK signal \in Signals : signal = Head(inbox[t])
    BY <2>1
  <2>3. Tail(inbox[t]) \in Seq(Signals) /\ <<>> \in Seq(Signals)
    BY <2>1
  <2>4. signal.kind # "started" =>
          (IF signal.kind = "stopped" THEN "none" ELSE signal.kind) \in Failures \cup {"none"}
    BY DEF Signals
  <2>5. at' \in [Threads -> Steps] /\ job' \in [Threads -> Jobs] /\ inbox' \in [Threads -> Seq(Signals)]
    <3>1. CASE inbox' = [inbox EXCEPT ![t] = Tail(@)] /\ UNCHANGED <<at, job>>
      BY <2>3, <3>1 DEF TypeOK
    <3>2. CASE Goto(t, "satisfied") /\ inbox' = [inbox EXCEPT ![t] = <<>>] /\ UNCHANGED job
      BY <1>s, <2>3, <3>2, GotoMoves DEF TypeOK
    <3>3. CASE /\ signal.kind # "started"
               /\ Unsatisfied(t, IF signal.kind = "stopped" THEN "none" ELSE signal.kind)
      BY <2>4, <3>3, UnsatisfiedMoves
    <3> QED
      BY <1>5, <2>2, <3>1, <3>2, <3>3, ReceiveCases
  <2>6. UNCHANGED <<current, recovery, attempt_thread, lifecycle, timers, history>>
    BY <1>5 DEF Receive
  <2> QED
    BY <2>5, <2>6 DEF TypeOK
<1>6. ASSUME TimeOut(t) PROVE TypeOK'
  BY <1>6, UnsatisfiedMoves DEF TimeOut, TypeOK
<1>7. ASSUME Adopt(t) PROVE TypeOK'
  <2>1. /\ at' \in [Threads -> Steps] /\ job' \in [Threads -> Jobs]
        /\ current' \in Sessions \cup {0} /\ cycle_id' \in Cycles /\ retry_token' \in Retries \cup {NoRetry}
    <3>1. CASE Current(job[t].cycle)
      <4>1. /\ Resume(t, job[t], retry_token, "idle") /\ retry_token \in Retries \cup {NoRetry}
            /\ current' = job[t].session /\ cycle_id' = 0 /\ retry_token' = NoRetry
        BY <1>7, <3>1 DEF Adopt, TypeOK
      <4>2. at' \in [Threads -> Steps] /\ job' \in [Threads -> Jobs]
        BY <1>s, <1>j, <4>1, ResumeMoves
      <4> QED
        BY <1>j, <4>1, <4>2, NoJobTyped
    <3>2. CASE ~Current(job[t].cycle)
      BY <1>7, <3>2, FinishMoves DEF Adopt, TypeOK
    <3> QED
      BY <3>1, <3>2
  <2> QED
    BY <1>7, <1>l, <2>1 DEF Adopt, TypeOK
<1>8. ASSUME Judge(t) PROVE TypeOK'
  <2> DEFINE locals == [job[t] EXCEPT !.session = 0, !.failure = "none"]
  <2>1. locals \in Jobs
    BY <1>j DEF Jobs
  <2>2. PICK step \in Steps : Enter(t, locals, step)
    BY <1>s, <1>8 DEF Judge
  <2> HIDE DEF locals
  <2>3. at' \in [Threads -> Steps] /\ job' \in [Threads -> Jobs]
    BY <2>1, <2>2, EnterMoves
  <2> QED
    BY <1>8, <1>l, <2>3 DEF Judge, TypeOK
<1>9. ASSUME End(t) PROVE TypeOK'
  BY <1>9, <1>e DEF End, TypeOK
<1>10. ASSUME Exhaust(t) PROVE TypeOK'
  BY <1>10, <1>e DEF Exhaust, TypeOK
<1>11. ASSUME Publish(t) PROVE TypeOK'
  BY <1>11, <1>j, FinishMoves DEF Publish, TypeOK
<1>12. ASSUME Schedule(t) PROVE TypeOK'
  BY <1>12, <1>s, <1>j, GotoMoves DEF Schedule, TypeOK
<1>13. ASSUME StoreToken(t) PROVE TypeOK'
  <2>1. CASE Current(job[t].cycle)
    <3>1. Resume(t, job[t], retry_token, "idle") /\ retry_token \in Retries \cup {NoRetry}
      BY <1>13, <2>1 DEF StoreToken, TypeOK
    <3>2. at' \in [Threads -> Steps] /\ job' \in [Threads -> Jobs]
      BY <1>s, <1>j, <3>1, ResumeMoves
    <3> QED
      BY <1>13, <1>j, <2>1, <3>2 DEF StoreToken, TypeOK
  <2>2. CASE ~Current(job[t].cycle)
    BY <1>13, <2>2, FinishMoves DEF StoreToken, TypeOK
  <2> QED
    BY <2>1, <2>2
<1>14. ASSUME CloseObservation(t) PROVE TypeOK'
  BY <1>14, <1>s, GotoMoves DEF CloseObservation, TypeOK
<1>15. ASSUME ObserverIsClosed(t) PROVE TypeOK'
  BY <1>15, <1>s, GotoMoves DEF ObserverIsClosed, TypeOK
<1>16. ASSUME Join(t) PROVE TypeOK'
  <2>1. closing' \in {"no", "running", "returned", "raised"}
    BY <1>16 DEF Join
  <2> QED
    BY <1>16, <2>1, FinishMoves DEF Join, TypeOK
<1> QED
  BY <1>1, <1>2, <1>3, <1>4, <1>5, <1>6, <1>7, <1>8, <1>9, <1>10, <1>11, <1>12, <1>13, <1>14, <1>15, <1>16
     DEF Continue

\* The bus hands a signal of session g to every episode that waits.
LEMMA CollectedTyped ==
  ASSUME TypeOK, NEW g \in Sessions, NEW kind \in Failures \cup {"started", "stopped"},
         Collected(g, kind)
  PROVE  inbox' \in [Threads -> Seq(Signals)]
<1>1. [session |-> g, kind |-> kind] \in Signals
  BY DEF Signals
<1> QED
  BY <1>1 DEF Collected, TypeOK

\* What a new cycle starts with.
LEMMA FreshLocals ==
  ASSUME NEW c \in Cycles, NEW n \in Attempts
  PROVE  /\ [NoJob EXCEPT !.cycle = c, !.attempt = n] \in Jobs
         /\ [NoJob EXCEPT !.cycle = c, !.attempt = n].cycle = c
         /\ [NoJob EXCEPT !.cycle = c] \in Jobs
         /\ [NoJob EXCEPT !.cycle = c].cycle = c
         /\ [NoJob EXCEPT !.cycle = c].token = NoRetry
BY NoJobTyped DEF NoJob, Jobs

\* There is always a number left for the cycle that start() or a failure opens.
LEMMA NextCycle ==
  ASSUME TypeOK, CyclesFollowSessions,
         \/ cycles = 0
         \/ \E g \in Sessions : g = current /\ stage[g] # "ended"
  PROVE  cycles + 1 \in Cycles /\ cycles \in Nat /\ cycles + 1 # 0
BY GenerationsAssumption DEF TypeOK, CyclesFollowSessions, Cycles, Sessions

LEMMA StartMoves ==
  ASSUME TypeOK, CyclesFollowSessions, LastCycleOnly, NEW t \in Clients, Start(t)
  PROVE  /\ at' \in [Threads -> Steps] /\ job' \in [Threads -> Jobs] /\ cycles = 0
         /\ \E locals \in Jobs : /\ Moves(t, "begin", locals)
                                 /\ locals.cycle = 1 /\ locals.token = NoRetry
<1>1. cycles = 0 /\ cycles + 1 \in Cycles /\ 1 \in Attempts
  BY NextCycle, BoundsAssumption DEF Start, LastCycleOnly, Attempts
<1> DEFINE locals == [NoJob EXCEPT !.cycle = cycles + 1]
<1>2. locals \in Jobs /\ locals.cycle = 1 /\ locals.token = NoRetry
  <2>1. locals \in Jobs /\ locals.cycle = cycles + 1 /\ locals.token = NoRetry
    BY <1>1, FreshLocals
  <2> QED
    BY <1>1, <2>1
<1>3. Goto(t, "begin") /\ job' = [job EXCEPT ![t] = locals] /\ t \in Threads /\ "begin" \in Steps
  BY StepsTyped DEF Start, Threads
<1> HIDE DEF locals
<1> QED
  BY <1>1, <1>2, <1>3, GotoMoves DEF Moves, TypeOK

LEMMA CloseMoves ==
  ASSUME TypeOK, NEW t \in Clients, Close(t)
  PROVE  /\ at' \in [Threads -> Steps] /\ job' \in [Threads -> Jobs]
         /\ \E locals \in Jobs :
              /\ locals.worker = attempt_thread
              /\ \/ Moves(t, "observer", locals)
                 \/ /\ Moves(t, "cancel", locals) /\ locals.then = "observer"
                    /\ retry_token # NoRetry /\ locals.token = retry_token
<1> DEFINE locals == [NoJob EXCEPT !.worker = attempt_thread]
<1>1. locals \in Jobs /\ locals.worker = attempt_thread
  BY NoJobTyped DEF Jobs, TypeOK
<1>2. Resume(t, locals, retry_token, "observer")
  BY DEF Close
<1> HIDE DEF locals
<1>3. /\ "observer" \in Steps /\ "observer" \in AfterCancel /\ t \in Threads
      /\ retry_token \in Retries \cup {NoRetry}
  BY StepsTyped DEF Threads, AfterCancel, TypeOK
<1> QED
  BY <1>1, <1>2, <1>3, ResumeMoves

LEMMA RetryMoves ==
  ASSUME TypeOK, NEW b \in BusThreads, NEW r \in due, OnRetryDue(b, r), Current(r.cycle)
  PROVE  /\ at' \in [Threads -> Steps] /\ job' \in [Threads -> Jobs]
         /\ \E locals \in Jobs : Moves(b, "launch", locals) /\ locals.cycle = r.cycle
<1>1. r.cycle \in Cycles /\ r.attempt \in Attempts /\ b \in Threads /\ "launch" \in Steps
  BY StepsTyped DEF TypeOK, Retries, Threads
<1> DEFINE locals == [NoJob EXCEPT !.cycle = r.cycle, !.attempt = r.attempt]
<1>2. locals \in Jobs /\ locals.cycle = r.cycle
  BY <1>1, FreshLocals
<1>3. Resume(b, locals, NoRetry, "launch")
  BY DEF OnRetryDue
<1> HIDE DEF locals
<1> QED
  BY <1>1, <1>2, <1>3, NoJobTyped, ResumeMoves

LEMMA FailureMoves ==
  ASSUME TypeOK, CyclesFollowSessions, NEW g \in Sessions, SessionEnds(g), Matters(g)
  PROVE  /\ at' \in [Threads -> Steps] /\ job' \in [Threads -> Jobs] /\ cycles + 1 \in Cycles
         /\ \E locals \in Jobs : Moves(g, "launch", locals) /\ locals.cycle = cycles + 1
<1>1. stage[g] = "publishing" /\ g = current
  BY DEF SessionEnds, PublishTerminal, Move, Matters
<1>2. cycles + 1 \in Cycles /\ 1 \in Attempts /\ g \in Threads /\ "launch" \in Steps
  <2>1. cycles + 1 \in Cycles
    BY <1>1, NextCycle
  <2>2. 1 \in Attempts
    BY BoundsAssumption DEF Attempts
  <2> QED
    BY <2>1, <2>2 DEF Threads, Steps
<1> DEFINE locals == [NoJob EXCEPT !.cycle = cycles + 1]
<1>3. locals \in Jobs /\ locals.cycle = cycles + 1
  BY <1>2, FreshLocals
<1>4. Resume(g, locals, NoRetry, "launch")
  BY DEF SessionEnds
<1> HIDE DEF locals
<1> QED
  BY <1>2, <1>3, <1>4, NoJobTyped, ResumeMoves

LEMMA NextTyped ==
  ASSUME TypeOK, CyclesFollowSessions, LastCycleOnly, ObserverTypeOK', [Next]_vars
  PROVE  TypeOK'
<1> USE DEF recovery, lifecycle, timers, history
<1>1. ASSUME NEW t \in Clients, Start(t) PROVE TypeOK'
  <2>1. /\ at' \in [Threads -> Steps] /\ job' \in [Threads -> Jobs] /\ cycles + 1 \in Cycles
    BY <1>1, StartMoves, NextCycle
  <2> QED
    BY <1>1, <2>1 DEF Start, TypeOK
<1>2. ASSUME NEW t \in Clients, Close(t) PROVE TypeOK'
  <2>1. at' \in [Threads -> Steps] /\ job' \in [Threads -> Jobs]
    BY <1>2, CloseMoves
  <2> QED
    BY <1>2, <2>1, NoJobTyped DEF Close, TypeOK
<1>3. ASSUME NEW t \in Clients, ObserverCall(t) PROVE TypeOK'
  BY <1>3 DEF ObserverCall, TypeOK
<1>4. ASSUME NEW r \in Retries, RetryFires(r) PROVE TypeOK'
  BY <1>4 DEF RetryFires, TypeOK
<1>5. ASSUME NEW b \in BusThreads, NEW r \in Retries, OnRetryDue(b, r) PROVE TypeOK'
  <2>1. CASE Current(r.cycle)
    <3>1. at' \in [Threads -> Steps] /\ job' \in [Threads -> Jobs]
      BY <1>5, <2>1, RetryMoves DEF OnRetryDue
    <3> QED
      BY <1>5, <2>1, <3>1 DEF OnRetryDue, TypeOK
  <2>2. CASE ~Current(r.cycle)
    BY <1>5, <2>2 DEF OnRetryDue, TypeOK
  <2> QED
    BY <2>1, <2>2
<1>6. ASSUME NEW g \in Sessions, SessionStarts(g) PROVE TypeOK'
  <2>1. Collected(g, "started")
    BY <1>6 DEF SessionStarts
  <2>2. inbox' \in [Threads -> Seq(Signals)]
    BY <2>1, CollectedTyped
  <2> QED
    BY <1>6, <2>2 DEF SessionStarts, TypeOK
<1>7. ASSUME NEW g \in Sessions, SessionRuns(g) PROVE TypeOK'
  BY <1>7 DEF SessionRuns, TypeOK
<1>8. ASSUME NEW g \in Sessions, SessionEnds(g) PROVE TypeOK'
  <2>1. Collected(g, terminal[g]) /\ terminal[g] \in Failures \cup {"stopped"}
    BY <1>8 DEF SessionEnds, PublishTerminal, Move, CyclesFollowSessions, TypeOK, ObserverTypeOK
  <2>2. inbox' \in [Threads -> Seq(Signals)]
    BY <2>1, CollectedTyped
  <2>3. answered' \subseteq Sessions
    BY <1>8 DEF SessionEnds, TypeOK
  <2>4. CASE Matters(g)
    <3>1. at' \in [Threads -> Steps] /\ job' \in [Threads -> Jobs] /\ cycles + 1 \in Cycles
      BY <1>8, <2>4, FailureMoves
    <3> QED
      BY <1>8, <2>2, <2>3, <2>4, <3>1 DEF SessionEnds, TypeOK
  <2>5. CASE ~Matters(g)
    BY <1>8, <2>2, <2>3, <2>5 DEF SessionEnds, TypeOK
  <2> QED
    BY <2>4, <2>5
<1>9. CASE UNCHANGED vars
  BY <1>9 DEF vars, TypeOK
<1> QED
  BY <1>1, <1>2, <1>3, <1>4, <1>5, <1>6, <1>7, <1>8, <1>9, ContinueTyped DEF Next, Rest

LEMMA InitTyped == Init => TypeOK
<1> SUFFICES ASSUME Init PROVE TypeOK
  OBVIOUS
<1>1. ObserverTypeOK /\ current \in Sessions \cup {0}
  BY ObserverInvInitially, GenerationsAssumption DEF ObserverInv, ObserverTypeOK, Init, Sessions
<1>2. <<>> \in Seq(Signals)
  OBVIOUS
<1> QED
  BY <1>1, <1>2, NoJobTyped, StepsTyped DEF Init, TypeOK

-----------------------------------------------------------------------------
(***************************************************************************)
(* What the steps of a call do to their thread.                            *)
(***************************************************************************)
LEMMA Locals ==
  ASSUME TypeOK, NEW t \in Threads
  PROVE  /\ job[t] \in Jobs /\ job[t].cycle \in Cycles /\ job[t].cycle \in Nat
         /\ job[t].token \in Retries \cup {NoRetry} /\ job[t].token.cycle \in Nat
         /\ job[t].then \in AfterCancel /\ job[t].session \in Sessions \cup {0}
         /\ NextRetry(t) \in Retries /\ NextRetry(t).cycle = job[t].cycle
<1>1. /\ job[t] \in Jobs /\ job[t].cycle \in Cycles /\ job[t].attempt \in Attempts
      /\ job[t].token \in Retries \cup {NoRetry} /\ job[t].then \in AfterCancel
      /\ job[t].session \in Sessions \cup {0}
  BY DEF TypeOK, Jobs
<1>2. job[t].cycle \in Nat /\ job[t].token.cycle \in Nat
  BY <1>1, GenerationsAssumption DEF Cycles, Retries, NoRetry
<1>3. NextRetry(t) \in Retries
  BY <1>1, BoundsAssumption DEF NextRetry, Retries, Attempts
<1>4. NextRetry(t).cycle = job[t].cycle
  BY DEF NextRetry
<1> QED
  BY <1>1, <1>2, <1>3, <1>4

LEMMA CancelMoves ==
  ASSUME TypeOK, NEW t \in Threads, Cancel(t)
  PROVE  /\ at[t] = "cancel" /\ at'[t] = job[t].then /\ job[t].then \in {"publish", "observer", "idle"}
         /\ at'[t] # "idle" => job'[t].cycle = job[t].cycle /\ job'[t].worker = job[t].worker
         /\ \A u \in Threads \ {t} : at'[u] = at[u] /\ job'[u] = job[u]
<1> DEFINE locals == [job[t] EXCEPT !.token = NoRetry, !.then = "idle"]
<1>1. locals \in Jobs /\ locals.cycle = job[t].cycle /\ locals.worker = job[t].worker
  BY Locals, NoJobTyped DEF Jobs, AfterCancel
<1>2. Enter(t, locals, job[t].then) /\ job[t].then \in Steps /\ job[t].then \in AfterCancel
  BY Locals, StepsTyped DEF Cancel
<1> HIDE DEF locals
<1> QED
  BY <1>1, <1>2, EnterMoves DEF Moves, Cancel, AfterCancel

LEMMA LaunchMoves ==
  ASSUME TypeOK, NEW t \in Threads, Launch(t), Current(job[t].cycle), attempt_thread = NoThread
  PROVE  \E w \in Workers :
           /\ w # t /\ w \in Threads /\ at[t] = "launch" /\ at[w] = "idle" /\ attempt_thread' = w
           /\ at'[t] = "spawn" /\ job'[t].worker = w /\ job'[t].cycle = job[t].cycle
           /\ at'[w] = "registered" /\ job'[w].cycle = job[t].cycle
           /\ \A u \in Threads \ {t, w} : at'[u] = at[u] /\ job'[u] = job[u]
<1>1. PICK w \in Workers :
        /\ at[w] = "idle" /\ attempt_thread' = w
        /\ at' = [at EXCEPT ![t] = "spawn", ![w] = "registered"]
        /\ job' = [job EXCEPT ![t].worker = w,
                              ![w] = [NoJob EXCEPT !.cycle = job[t].cycle,
                                                   !.attempt = job[t].attempt]]
  BY DEF Launch
<1>2. w # t /\ w \in Threads /\ at[t] = "launch"
  BY <1>1 DEF Launch, Threads
<1> DEFINE locals == [job[t] EXCEPT !.worker = w]
           first == [NoJob EXCEPT !.cycle = job[t].cycle, !.attempt = job[t].attempt]
<1>3. /\ locals.worker = w /\ locals.cycle = job[t].cycle /\ first.cycle = job[t].cycle
  BY Locals, NoJobTyped DEF Jobs
<1>4. job' = [[job EXCEPT ![t] = locals] EXCEPT ![w] = first]
  BY <1>1 DEF TypeOK
<1> HIDE DEF locals, first
<1> QED
  BY <1>1, <1>2, <1>3, <1>4 DEF TypeOK

\* An attempt whose spawner has registered it.
LEMMA SpawnMoves ==
  ASSUME TypeOK, SlotInv, NEW t \in Threads, Spawn(t)
  PROVE  \E w \in Workers :
           /\ w # t /\ w \in Threads /\ at[t] = "spawn" /\ at[w] = "registered"
           /\ at'[t] = "idle" /\ at'[w] = "begin" /\ job'[w] = job[w]
           /\ \A u \in Threads \ {t, w} : at'[u] = at[u] /\ job'[u] = job[u]
<1>1. PICK w \in Workers : w = job[t].worker /\ at[w] = "registered" /\ at[t] = "spawn"
  BY DEF Spawn, SlotInv
<1>2. w # t /\ w \in Threads
  BY <1>1 DEF Threads
<1> QED
  BY <1>1, <1>2 DEF Spawn, TypeOK

LEMMA BeginMoves ==
  ASSUME TypeOK, NEW t \in Threads, Begin(t)
  PROVE  /\ at[t] = "begin" /\ job'[t].cycle = job[t].cycle /\ job'[t].worker = job[t].worker
         /\ \A u \in Threads \ {t} : at'[u] = at[u] /\ job'[u] = job[u] /\ inbox'[u] = inbox[u]
         /\ \/ /\ StartSession /\ at'[t] = "await" /\ job'[t].session = generation + 1
               /\ inbox' = inbox /\ generation + 1 \in Sessions
            \/ /\ UNCHANGED observer /\ at'[t] = "unsatisfied" /\ inbox'[t] = <<>>
<1>1. ASSUME StartSession, Goto(t, "await"), job' = [job EXCEPT ![t].session = generation + 1]
      PROVE  /\ at'[t] = "await" /\ job'[t].session = generation + 1 /\ job'[t].cycle = job[t].cycle
             /\ job'[t].worker = job[t].worker /\ generation + 1 \in Sessions
             /\ \A u \in Threads \ {t} : at'[u] = at[u] /\ job'[u] = job[u]
  <2>1. generation + 1 \in Sessions
    BY <1>1, GenerationsAssumption DEF StartSession, TypeOK, ObserverTypeOK, Sessions
  <2> DEFINE locals == [job[t] EXCEPT !.session = generation + 1]
  <2>2. locals.session = generation + 1 /\ locals.cycle = job[t].cycle /\ locals.worker = job[t].worker
    BY Locals DEF Jobs
  <2>3. job' = [job EXCEPT ![t] = locals]
    BY <1>1 DEF TypeOK
  <2> HIDE DEF locals
  <2>4. at'[t] = "await" /\ \A u \in Threads \ {t} : at'[u] = at[u]
    BY <1>1, StepsTyped, GotoMoves
  <2> QED
    BY <2>1, <2>2, <2>3, <2>4 DEF TypeOK
<1>2. CASE Unsatisfied(t, "none") /\ UNCHANGED observer
  BY <1>2, UnsatisfiedMoves DEF Begin
<1> QED
  BY <1>1, <1>2 DEF Begin

LEMMA ReceiveMoves ==
  ASSUME TypeOK, NEW t \in Threads, Receive(t)
  PROVE  /\ at[t] = "await" /\ inbox[t] # <<>> /\ inbox[t] \in Seq(Signals)
         /\ job'[t].cycle = job[t].cycle /\ job'[t].worker = job[t].worker
         /\ job'[t].session = job[t].session
         /\ \A u \in Threads \ {t} : at'[u] = at[u] /\ job'[u] = job[u] /\ inbox'[u] = inbox[u]
         /\ \/ at'[t] = "await" /\ inbox'[t] = Tail(inbox[t])
            \/ /\ at'[t] = "satisfied" /\ inbox'[t] = <<>>
               /\ inbox[t][1] = [session |-> job[t].session, kind |-> "started"]
            \/ at'[t] = "unsatisfied" /\ inbox'[t] = <<>>
<1>1. at[t] = "await" /\ inbox[t] # <<>> /\ inbox[t] \in Seq(Signals)
  BY DEF Receive, TypeOK
<1>2. PICK signal \in Signals : signal = Head(inbox[t]) /\ signal = inbox[t][1]
  BY <1>1
<1>3. CASE inbox' = [inbox EXCEPT ![t] = Tail(@)] /\ UNCHANGED <<at, job>>
  BY <1>1, <1>3 DEF TypeOK
<1>4. CASE /\ signal.session = job[t].session /\ signal.kind = "started"
           /\ Goto(t, "satisfied") /\ inbox' = [inbox EXCEPT ![t] = <<>>] /\ UNCHANGED job
  <2>1. signal = [session |-> job[t].session, kind |-> "started"]
    BY <1>4 DEF Signals
  <2> QED
    BY <1>1, <1>2, <1>4, <2>1, StepsTyped, GotoMoves DEF TypeOK
<1>5. CASE /\ signal.kind # "started"
           /\ Unsatisfied(t, IF signal.kind = "stopped" THEN "none" ELSE signal.kind)
  <2>1. (IF signal.kind = "stopped" THEN "none" ELSE signal.kind) \in Failures \cup {"none"}
    BY <1>5 DEF Signals
  <2> QED
    BY <1>1, <1>5, <2>1, UnsatisfiedMoves
<1> QED
  BY <1>2, <1>3, <1>4, <1>5, ReceiveCases

\* A cycle that is over leaves its token to be cancelled.
LEMMA AdoptMoves ==
  ASSUME TypeOK, NEW t \in Threads, Adopt(t)
  PROVE  /\ at[t] = "satisfied" /\ LeaveSlot(t) /\ at'[t] \in {"idle", "cancel"}
         /\ \A u \in Threads \ {t} : at'[u] = at[u] /\ job'[u] = job[u]
         /\ at'[t] = "cancel" => Current(job[t].cycle) /\ job'[t].then = "idle"
                                 /\ job'[t].token = retry_token /\ retry_token # NoRetry
<1>1. CASE Current(job[t].cycle)
  <2>1. /\ Resume(t, job[t], retry_token, "idle") /\ retry_token \in Retries \cup {NoRetry}
        /\ at[t] = "satisfied" /\ LeaveSlot(t)
    BY <1>1 DEF Adopt, TypeOK
  <2>2. job[t] \in Jobs /\ "idle" \in Steps /\ "idle" \in AfterCancel
    BY Locals, StepsTyped DEF AfterCancel
  <2> QED
    BY <1>1, <2>1, <2>2, ResumeMoves DEF Moves
<1>2. CASE ~Current(job[t].cycle)
  BY <1>2, FinishMoves DEF Adopt, Moves
<1> QED
  BY <1>1, <1>2

LEMMA JudgeMoves ==
  ASSUME TypeOK, NEW t \in Threads, Judge(t)
  PROVE  /\ at[t] = "unsatisfied" /\ LeaveSlot(t) /\ at'[t] \in {"idle", "end", "retry"}
         /\ at'[t] = "idle" => ~Current(job[t].cycle)
         /\ at'[t] # "idle" => job'[t].cycle = job[t].cycle
         /\ \A u \in Threads \ {t} : at'[u] = at[u] /\ job'[u] = job[u]
<1> DEFINE locals == [job[t] EXCEPT !.session = 0, !.failure = "none"]
<1>1. locals \in Jobs /\ locals.cycle = job[t].cycle
  BY Locals DEF Jobs
<1>2. PICK step \in {"idle", "end", "retry"} :
        Enter(t, locals, step) /\ (step = "idle" => ~Current(job[t].cycle))
  BY DEF Judge
<1> HIDE DEF locals
<1>3. at[t] = "unsatisfied" /\ LeaveSlot(t) /\ step \in Steps
  BY StepsTyped DEF Judge
<1> QED
  BY <1>1, <1>2, <1>3, EnterMoves DEF Moves

LEMMA EndCycleMoves ==
  ASSUME TypeOK, NEW t \in Threads, NEW step \in {"idle", "publish"}, EndCycle(t, step)
  PROVE  /\ at'[t] \in {step, "cancel"}
         /\ \A u \in Threads \ {t} : at'[u] = at[u] /\ job'[u] = job[u]
         /\ cycle_id = job[t].cycle => cycle_id' = 0 /\ retry_token' = NoRetry
         /\ cycle_id # job[t].cycle => UNCHANGED <<cycle_id, retry_token>> /\ at'[t] # "cancel"
         /\ at'[t] = "cancel" => /\ job'[t].then = step
                                 /\ job'[t].token = retry_token /\ retry_token # NoRetry
<1>1. step \in Steps /\ step \in AfterCancel /\ step # "cancel" /\ job[t] \in Jobs
      /\ retry_token \in Retries \cup {NoRetry}
  BY Locals, StepsTyped DEF AfterCancel, TypeOK
<1>2. CASE cycle_id = job[t].cycle
  <2>1. Resume(t, job[t], retry_token, step) /\ cycle_id' = 0 /\ retry_token' = NoRetry
    BY <1>2 DEF EndCycle
  <2> QED
    BY <1>1, <1>2, <2>1, ResumeMoves DEF Moves
<1>3. CASE cycle_id # job[t].cycle
  <2>1. Resume(t, job[t], NoRetry, step) /\ UNCHANGED <<cycle_id, retry_token>>
    BY <1>3 DEF EndCycle
  <2>2. Moves(t, "idle", NoJob) \/ Moves(t, step, job[t])
    BY <1>1, <2>1, ResumeMoves
  <2> QED
    BY <1>1, <1>3, <2>1, <2>2, NoJobTyped, ResumeMoves DEF Moves
<1> QED
  BY <1>2, <1>3

LEMMA StoreMoves ==
  ASSUME TypeOK, NEW t \in Threads, StoreToken(t)
  PROVE  /\ at[t] = "store" /\ at'[t] \in {"idle", "cancel"}
         /\ \A u \in Threads \ {t} : at'[u] = at[u] /\ job'[u] = job[u]
         /\ at'[t] = "cancel" => /\ Current(job[t].cycle) /\ job'[t].then = "idle"
                                 /\ job'[t].token = retry_token /\ retry_token # NoRetry
<1>1. CASE Current(job[t].cycle)
  <2>1. /\ Resume(t, job[t], retry_token, "idle") /\ retry_token \in Retries \cup {NoRetry}
        /\ at[t] = "store"
    BY <1>1 DEF StoreToken, TypeOK
  <2>2. job[t] \in Jobs /\ "idle" \in Steps /\ "idle" \in AfterCancel
    BY Locals, StepsTyped DEF AfterCancel
  <2> QED
    BY <1>1, <2>1, <2>2, ResumeMoves DEF Moves
<1>2. CASE ~Current(job[t].cycle)
  BY <1>2, FinishMoves DEF StoreToken, Moves
<1> QED
  BY <1>1, <1>2

-----------------------------------------------------------------------------
(***************************************************************************)
(* The baton.                                                              *)
(***************************************************************************)

\* Nobody gets the baton; a cycle may end when it is let go of.
LEMMA BatonStays ==
  ASSUME BatonInv,
         \A u \in Threads : Driving(u)' => Driving(u) /\ job'[u].cycle = job[u].cycle,
         scheduled' \subseteq scheduled, due' \subseteq due,
         cycles' = cycles, subscribed' = subscribed, closed => closed',
         cycle_id' = cycle_id \/ (cycle_id' = 0 /\ (closed' \/ Nobody')),
         closed' => cycle_id' = 0
  PROVE  BatonInv'
<1>1. Pending' \subseteq Pending
  BY DEF Pending
<1>2. LastCycleOnly'
  <2>1. Nobody => Nobody'
    BY <1>1 DEF Nobody
  <2> QED
    BY <1>1, <2>1 DEF BatonInv, LastCycleOnly
<1>3. OneBaton'
  <2>1. scheduled' \cap due' = {}
    BY DEF BatonInv, OneBaton
  <2> QED
    BY <1>1, <2>1 DEF BatonInv, OneBaton
<1> QED
  BY <1>2, <1>3 DEF BatonInv

\* One thread passes the baton to another.
LEMMA BatonGoesToThread ==
  ASSUME BatonInv, NEW t \in Threads, Driving(t), NEW w \in Threads,
         job'[w].cycle = job[t].cycle,
         \A u \in Threads : Driving(u)' => u = w,
         UNCHANGED <<cycle_id, cycles, closed, subscribed, scheduled, due>>
  PROVE  BatonInv'
<1>1. Pending' = Pending /\ Pending = {}
  BY DEF Pending, BatonInv, OneBaton
<1>2. ~(cycle_id = 0 /\ ~closed) /\ cycles # 0 /\ job[t].cycle = cycles
  BY DEF BatonInv, LastCycleOnly, Nobody
<1>3. LastCycleOnly'
  BY <1>1, <1>2 DEF BatonInv, LastCycleOnly
<1>4. OneBaton'
  BY <1>1 DEF BatonInv, OneBaton
<1> QED
  BY <1>3, <1>4 DEF BatonInv

\* A thread leaves it to a retry, a retry to a thread.
LEMMA BatonGoesToRetry ==
  ASSUME BatonInv, NEW t \in Threads, Driving(t), NEW r, r.cycle = job[t].cycle,
         \A u \in Threads : Driving(u)' => Driving(u) /\ u # t,
         scheduled' = scheduled \cup {r},
         UNCHANGED <<cycle_id, cycles, closed, subscribed, due>>
  PROVE  BatonInv'
<1>1. Pending' = {r} /\ Pending = {} /\ scheduled' \cap due' = {}
  BY DEF Pending, BatonInv, OneBaton
<1>2. \A u \in Threads : ~Driving(u)'
  BY DEF BatonInv, OneBaton
<1>3. ~(cycle_id = 0 /\ ~closed) /\ cycles # 0 /\ job[t].cycle = cycles
  BY DEF BatonInv, LastCycleOnly, Nobody
<1>4. LastCycleOnly'
  BY <1>1, <1>2, <1>3 DEF BatonInv, LastCycleOnly
<1>5. OneBaton'
  BY <1>1, <1>2 DEF BatonInv, OneBaton
<1> QED
  BY <1>4, <1>5 DEF BatonInv

LEMMA BatonGoesOnFromRetry ==
  ASSUME BatonInv, NEW b \in Threads, NEW r \in due, job'[b].cycle = r.cycle,
         \A u \in Threads \ {b} : Driving(u)' => Driving(u),
         due' = due \ {r}, UNCHANGED <<cycle_id, cycles, closed, subscribed, scheduled>>
  PROVE  BatonInv'
<1>1. /\ Pending = {r} /\ r \notin scheduled /\ r.cycle = cycles /\ cycles # 0
      /\ \A u \in Threads : ~Driving(u)
  BY DEF Pending, BatonInv, OneBaton, LastCycleOnly
<1>2. Pending' = {}
  BY <1>1 DEF Pending
<1>3. ~(cycle_id = 0 /\ ~closed)
  BY <1>1 DEF BatonInv, LastCycleOnly, Nobody
<1>4. LastCycleOnly'
  BY <1>1, <1>2, <1>3 DEF BatonInv, LastCycleOnly
<1>5. OneBaton'
  BY <1>1, <1>2 DEF BatonInv, OneBaton, Pending
<1> QED
  BY <1>4, <1>5 DEF BatonInv

LEMMA RetryFiresKeepsBaton ==
  ASSUME BatonInv, NEW r \in Retries, RetryFires(r)
  PROVE  BatonInv'
<1> USE DEF recovery, lifecycle
<1>1. /\ r \in scheduled /\ scheduled' = scheduled \ {r} /\ due' = due \cup {r}
      /\ UNCHANGED <<cycle_id, cycles, closed, subscribed, at, job>>
  BY DEF RetryFires
<1>2. Pending' = Pending /\ scheduled' \cap due' = {}
  BY <1>1 DEF Pending, BatonInv, OneBaton
<1>3. LastCycleOnly'
  BY <1>1, <1>2 DEF BatonInv, LastCycleOnly, Driving, Nobody
<1>4. OneBaton'
  BY <1>1, <1>2 DEF BatonInv, OneBaton, Driving
<1> QED
  BY <1>3, <1>4 DEF BatonInv

\* A new cycle, when there is no baton of an older one.
LEMMA BatonIsMade ==
  ASSUME BatonInv, NEW t \in Threads, cycle_id = 0, ~closed, cycles \in Nat,
         job'[t].cycle = cycles + 1,
         \A u \in Threads \ {t} : Driving(u)' => Driving(u),
         cycle_id' = cycles + 1, cycles' = cycles + 1, ~closed', subscribed',
         UNCHANGED <<scheduled, due>>
  PROVE  BatonInv'
<1>1. Pending = {} /\ Pending' = {} /\ \A u \in Threads : ~Driving(u)
  BY DEF BatonInv, LastCycleOnly, Nobody, Pending
<1>2. cycles + 1 # 0
  OBVIOUS
<1>3. LastCycleOnly'
  BY <1>1, <1>2 DEF LastCycleOnly
<1>4. OneBaton'
  BY <1>1 DEF BatonInv, OneBaton
<1> QED
  BY <1>3, <1>4 DEF BatonInv

LEMMA ContinueKeepsBaton ==
  ASSUME TypeOK, BatonInv, SlotInv, NEW t \in Threads, Continue(t)
  PROVE  BatonInv'
<1> USE DEF recovery, lifecycle, timers, history
<1>c. closed => cycle_id = 0
  BY DEF BatonInv, LastCycleOnly
<1>l. ASSUME \A u \in Threads \ {t} : at'[u] = at[u] /\ job'[u] = job[u],
             at'[t] \notin {"begin", "await", "satisfied", "unsatisfied", "end", "retry", "launch", "registered"},
             scheduled' \subseteq scheduled, UNCHANGED <<cycle_id, cycles, closed, subscribed, due>>
      PROVE  BatonInv'
  BY <1>c, <1>l, BatonStays DEF Driving
<1>k. ASSUME \A u \in Threads \ {t} : at'[u] = at[u] /\ job'[u] = job[u],
             Driving(t), job'[t].cycle = job[t].cycle,
             UNCHANGED <<cycle_id, cycles, closed, subscribed, scheduled, due>>
      PROVE  BatonInv'
  BY <1>c, <1>k, BatonStays DEF Driving
<1>e. ASSUME \A u \in Threads \ {t} : at'[u] = at[u] /\ job'[u] = job[u],
             Driving(t), at'[t] \in {"idle", "cancel", "publish"},
             cycle_id' = 0, UNCHANGED <<cycles, closed, subscribed, scheduled, due>>
      PROVE  BatonInv'
  <2>1. \A u \in Threads : Driving(u)' => Driving(u) /\ u # t /\ job'[u].cycle = job[u].cycle
    BY <1>e DEF Driving
  <2>2. Nobody'
    BY <1>e, <2>1 DEF Nobody, BatonInv, OneBaton, Pending
  <2> QED
    BY <1>e, <2>1, <2>2, BatonStays
<1>1. ASSUME Cancel(t) PROVE BatonInv'
  BY <1>1, <1>l, CancelMoves DEF Cancel
<1>2. ASSUME Launch(t) PROVE BatonInv'
  <2>1. UNCHANGED <<cycle_id, cycles, closed, subscribed, scheduled, due>>
    BY <1>2 DEF Launch
  <2>2. CASE Current(job[t].cycle) /\ attempt_thread = NoThread
    <3>1. PICK w \in Workers :
           /\ w # t /\ w \in Threads /\ at[t] = "launch"
           /\ at'[t] = "spawn" /\ job'[w].cycle = job[t].cycle
           /\ \A u \in Threads \ {t, w} : at'[u] = at[u] /\ job'[u] = job[u]
      BY <1>2, <2>2, LaunchMoves
    <3>2. Driving(t)
      BY <3>1 DEF Driving
    <3>3. \A u \in Threads : Driving(u)' => u = w
      BY <3>1, <3>2 DEF Driving, BatonInv, OneBaton
    <3> QED
      BY <2>1, <3>1, <3>2, <3>3, BatonGoesToThread
  <2>3. CASE ~(Current(job[t].cycle) /\ attempt_thread = NoThread)
    <3>1. Moves(t, "idle", NoJob)
      BY <1>2, <2>3, FinishMoves DEF Launch
    <3> QED
      BY <1>l, <2>1, <3>1 DEF Moves
  <2> QED
    BY <2>2, <2>3
<1>3. ASSUME Spawn(t) PROVE BatonInv'
  <2>1. PICK w \in Workers :
           /\ at[t] = "spawn" /\ at[w] = "registered"
           /\ at'[t] = "idle" /\ at'[w] = "begin" /\ job'[w] = job[w]
           /\ \A u \in Threads \ {t, w} : at'[u] = at[u] /\ job'[u] = job[u]
    BY <1>3, SpawnMoves
  <2>2. UNCHANGED <<cycle_id, cycles, closed, subscribed, scheduled, due>>
    BY <1>3 DEF Spawn
  <2>3. \A u \in Threads : Driving(u)' => Driving(u) /\ job'[u].cycle = job[u].cycle
    BY <2>1 DEF Driving
  <2> QED
    BY <1>c, <2>2, <2>3, BatonStays
<1>4. ASSUME Begin(t) PROVE BatonInv'
  BY <1>4, <1>k, BeginMoves DEF Begin, Driving
<1>5. ASSUME Receive(t) PROVE BatonInv'
  BY <1>5, <1>k, ReceiveMoves DEF Receive, Driving
<1>6. ASSUME TimeOut(t) PROVE BatonInv'
  BY <1>6, <1>k, UnsatisfiedMoves DEF TimeOut, Driving
<1>7. ASSUME Adopt(t) PROVE BatonInv'
  <2>1. UNCHANGED <<cycles, closed, subscribed, scheduled, due>>
    BY <1>7 DEF Adopt
  <2>2. CASE Current(job[t].cycle)
    <3>1. cycle_id' = 0
      BY <1>7, <2>2 DEF Adopt
    <3> QED
      BY <1>7, <1>e, <2>1, <3>1, AdoptMoves DEF Driving
  <2>3. CASE ~Current(job[t].cycle)
    <3>1. cycle_id' = cycle_id
      BY <1>7, <2>3 DEF Adopt
    <3> QED
      BY <1>7, <1>l, <2>1, <3>1, AdoptMoves
  <2> QED
    BY <2>2, <2>3
<1>8. ASSUME Judge(t) PROVE BatonInv'
  <2>1. UNCHANGED <<cycle_id, cycles, closed, subscribed, scheduled, due>>
    BY <1>8 DEF Judge
  <2>2. CASE at'[t] = "idle"
    BY <1>8, <1>l, <2>1, <2>2, JudgeMoves
  <2>3. CASE at'[t] # "idle"
    BY <1>8, <1>k, <2>1, <2>3, JudgeMoves DEF Driving
  <2> QED
    BY <2>2, <2>3
<1>9. ASSUME NEW step \in {"idle", "publish"}, EndCycle(t, step), at[t] \in {"end", "retry"},
             UNCHANGED <<cycles, closed, subscribed, scheduled, due>>
      PROVE  BatonInv'
  <2>1. CASE cycle_id = job[t].cycle
    BY <1>9, <1>e, <2>1, EndCycleMoves DEF Driving
  <2>2. CASE cycle_id # job[t].cycle
    BY <1>9, <1>l, <2>2, EndCycleMoves
  <2> QED
    BY <2>1, <2>2
<1>10. ASSUME End(t) \/ Exhaust(t) PROVE BatonInv'
  BY <1>9, <1>10 DEF End, Exhaust
<1>11. ASSUME Publish(t) PROVE BatonInv'
  BY <1>11, <1>l, FinishMoves DEF Publish, Moves
<1>12. ASSUME Schedule(t) PROVE BatonInv'
  <2>1. /\ at[t] = "retry" /\ at'[t] = "store" /\ \A u \in Threads \ {t} : at'[u] = at[u]
        /\ scheduled' = scheduled \cup {NextRetry(t)} /\ NextRetry(t).cycle = job[t].cycle
        /\ UNCHANGED <<cycle_id, cycles, closed, subscribed, due>>
    BY <1>12, GotoMoves, StepsTyped, Locals DEF Schedule
  <2>2. Driving(t) /\ \A u \in Threads : Driving(u)' => Driving(u) /\ u # t
    BY <2>1 DEF Driving
  <2> QED
    BY <2>1, <2>2, BatonGoesToRetry
<1>13. ASSUME StoreToken(t) PROVE BatonInv'
  <2>1. UNCHANGED <<cycle_id, cycles, closed, subscribed, due>> /\ scheduled' \subseteq scheduled
    BY <1>13 DEF StoreToken
  <2> QED
    BY <1>13, <1>l, <2>1, StoreMoves
<1>14. ASSUME CloseObservation(t) \/ ObserverIsClosed(t) PROVE BatonInv'
  <2>1. /\ \A u \in Threads \ {t} : at'[u] = at[u] /\ job'[u] = job[u]
        /\ at'[t] \in {"closed observer", "join"}
    BY <1>14, GotoMoves, StepsTyped DEF CloseObservation, ObserverIsClosed
  <2> QED
    BY <1>14, <1>l, <2>1 DEF CloseObservation, ObserverIsClosed
<1>15. ASSUME Join(t) PROVE BatonInv'
  BY <1>15, <1>l, FinishMoves DEF Join, Moves
<1> QED
  BY <1>1, <1>2, <1>3, <1>4, <1>5, <1>6, <1>7, <1>8, <1>10, <1>11, <1>12, <1>13, <1>14, <1>15
     DEF Continue

LEMMA NextKeepsBaton ==
  ASSUME TypeOK, CyclesFollowSessions, BatonInv, SlotInv, [Next]_vars
  PROVE  BatonInv'
<1> USE DEF recovery, lifecycle, timers, history
<1>c. (closed => cycle_id = 0) /\ LastCycleOnly /\ cycles \in Nat
  BY GenerationsAssumption DEF BatonInv, LastCycleOnly, TypeOK, Cycles
<1>u. ASSUME UNCHANGED <<at, job, cycle_id, cycles, closed, subscribed, scheduled, due>> PROVE BatonInv'
  <2>1. \A u \in Threads : Driving(u)' => Driving(u) /\ job'[u].cycle = job[u].cycle
    BY <1>u DEF Driving
  <2> QED
    BY <1>c, <1>u, <2>1, BatonStays
<1>1. ASSUME NEW t \in Clients, Start(t) PROVE BatonInv'
  <2>1. /\ t \in Threads /\ cycles = 0 /\ job'[t].cycle = 1
        /\ \A u \in Threads \ {t} : at'[u] = at[u] /\ job'[u] = job[u]
    BY <1>1, <1>c, StartMoves DEF Threads, Moves
  <2>2. cycle_id = 0
    BY <1>c, <2>1 DEF LastCycleOnly
  <2> QED
    BY <1>1, <2>1, <2>2, BatonIsMade DEF Start, Driving
<1>2. ASSUME NEW t \in Clients, Close(t) PROVE BatonInv'
  <2>1. /\ t \in Threads /\ at'[t] \in {"observer", "cancel"}
        /\ \A u \in Threads \ {t} : at'[u] = at[u] /\ job'[u] = job[u]
    BY <1>2, CloseMoves DEF Threads, Moves
  <2>2. \A u \in Threads : Driving(u)' => Driving(u) /\ job'[u].cycle = job[u].cycle
    BY <2>1 DEF Driving
  <2> QED
    BY <1>2, <2>2, BatonStays DEF Close
<1>3. ASSUME NEW t \in Clients, ObserverCall(t) PROVE BatonInv'
  BY <1>3, <1>u DEF ObserverCall
<1>4. ASSUME NEW t \in Threads, Continue(t) PROVE BatonInv'
  BY <1>4, ContinueKeepsBaton
<1>5. ASSUME NEW r \in Retries, RetryFires(r) PROVE BatonInv'
  BY <1>5, RetryFiresKeepsBaton
<1>6. ASSUME NEW b \in BusThreads, NEW r \in Retries, OnRetryDue(b, r) PROVE BatonInv'
  <2>1. /\ r \in due /\ due' = due \ {r} /\ b \in Threads
        /\ UNCHANGED <<cycle_id, cycles, closed, subscribed, scheduled>>
    BY <1>6 DEF OnRetryDue, Threads
  <2>2. CASE Current(r.cycle)
    <3>1. job'[b].cycle = r.cycle /\ \A u \in Threads \ {b} : at'[u] = at[u]
      BY <1>6, <2>1, <2>2, RetryMoves DEF Moves
    <3>2. \A u \in Threads \ {b} : Driving(u)' => Driving(u)
      BY <3>1 DEF Driving
    <3> QED
      BY <2>1, <3>1, <3>2, BatonGoesOnFromRetry
  <2>3. CASE ~Current(r.cycle)
    <3>1. UNCHANGED <<at, job>>
      BY <1>6, <2>3 DEF OnRetryDue
    <3>2. \A u \in Threads : Driving(u)' => Driving(u) /\ job'[u].cycle = job[u].cycle
      BY <3>1 DEF Driving
    <3> QED
      BY <1>c, <2>1, <3>2, BatonStays
  <2> QED
    BY <2>2, <2>3
<1>7. ASSUME NEW g \in Sessions, SessionStarts(g) \/ SessionRuns(g) PROVE BatonInv'
  BY <1>7, <1>u DEF SessionStarts, SessionRuns
<1>8. ASSUME NEW g \in Sessions, SessionEnds(g) PROVE BatonInv'
  <2>1. CASE Matters(g)
    <3>1. /\ g \in Threads /\ job'[g].cycle = cycles + 1
          /\ \A u \in Threads \ {g} : at'[u] = at[u] /\ job'[u] = job[u]
      BY <1>8, <2>1, FailureMoves DEF Moves, Threads
    <3>2. cycle_id = 0 /\ ~closed /\ subscribed
      BY <2>1 DEF Matters
    <3> QED
      BY <1>8, <1>c, <2>1, <3>1, <3>2, BatonIsMade DEF SessionEnds, Driving
  <2>2. CASE ~Matters(g)
    BY <1>8, <1>u, <2>2 DEF SessionEnds
  <2> QED
    BY <2>1, <2>2
<1>9. CASE UNCHANGED vars
  BY <1>9, <1>u DEF vars
<1> QED
  BY <1>1, <1>2, <1>3, <1>4, <1>5, <1>6, <1>7, <1>8, <1>9 DEF Next, Rest

-----------------------------------------------------------------------------
(***************************************************************************)
(* The slot.                                                               *)
(***************************************************************************)

\* A thread moves that spawns nobody and was not registered; the slot stays as it is,
\* or the thread leaves it.
LEMMA SlotStays ==
  ASSUME SlotInv, NEW t \in Threads,
         \A u \in Threads \ {t} : at'[u] = at[u] /\ job'[u] = job[u],
         at[t] # "registered", at'[t] # "spawn",
         \/ attempt_thread' = attempt_thread /\ (t \in Workers => (InSlot(t)' <=> InSlot(t)))
         \/ LeaveSlot(t) /\ InSlot(t) /\ ~InSlot(t)'
  PROVE  SlotInv'
<1>t. Workers \subseteq Threads /\ NoThread \notin Threads
  BY ThreadsAssumption DEF Threads
<1>1. \A w \in Workers : InSlot(w)' <=> attempt_thread' = w
  <2>1. \A w \in Workers \ {t} : InSlot(w)' <=> InSlot(w)
    BY <1>t DEF InSlot
  <2>2. CASE attempt_thread' = attempt_thread /\ (t \in Workers => (InSlot(t)' <=> InSlot(t)))
    BY <2>1, <2>2 DEF SlotInv
  <2>3. CASE LeaveSlot(t) /\ InSlot(t) /\ ~InSlot(t)'
    BY <1>t, <2>1, <2>3 DEF SlotInv, LeaveSlot
  <2> QED
    BY <2>2, <2>3
<1>2. ASSUME NEW u \in Threads, at'[u] = "spawn"
      PROVE  u # t /\ at[u] = "spawn" /\ job'[u].worker \in Workers /\ at'[job'[u].worker] = "registered"
  <2>1. u # t /\ at[u] = "spawn" /\ job'[u].worker = job[u].worker
    BY <1>2
  <2>2. job[u].worker \in Workers /\ at[job[u].worker] = "registered" /\ job[u].worker # t
    BY <2>1 DEF SlotInv
  <2>3. job[u].worker \in Threads \ {t}
    BY <1>t, <2>2
  <2> QED
    BY <2>1, <2>2, <2>3
<1> QED
  BY <1>1, <1>2 DEF SlotInv

LEMMA ContinueKeepsSlot ==
  ASSUME TypeOK, BatonInv, SlotInv, NEW t \in Threads, Continue(t)
  PROVE  SlotInv'
<1>t. Workers \subseteq Threads /\ NoThread \notin Threads
  BY ThreadsAssumption DEF Threads
<1>1. ASSUME Cancel(t) PROVE SlotInv'
  BY <1>1, CancelMoves, SlotStays DEF Cancel, InSlot
<1>2. ASSUME Launch(t) PROVE SlotInv'
  <2>1. CASE Current(job[t].cycle) /\ attempt_thread = NoThread
    <3>1. PICK w \in Workers :
           /\ w # t /\ w \in Threads /\ at[t] = "launch" /\ at[w] = "idle" /\ attempt_thread' = w
           /\ at'[t] = "spawn" /\ job'[t].worker = w /\ at'[w] = "registered"
           /\ \A u \in Threads \ {t, w} : at'[u] = at[u] /\ job'[u] = job[u]
      BY <1>2, <2>1, LaunchMoves
    <3>2. \A u \in Threads : at[u] # "spawn" /\ at[u] # "registered"
      <4>1. \A u \in Threads : Driving(u) => u = t
        BY <3>1 DEF BatonInv, OneBaton, Driving
      <4> QED
        BY <1>t, <3>1, <4>1 DEF SlotInv, Driving
    <3>3. \A v \in Workers : InSlot(v)' <=> attempt_thread' = v
      <4>1. \A v \in Workers : ~InSlot(v)
        BY <1>t, <2>1 DEF SlotInv
      <4> QED
        BY <1>t, <3>1, <4>1 DEF InSlot
    <3>4. \A u \in Threads : at'[u] = "spawn" => u = t
      BY <3>1, <3>2
    <3> QED
      BY <3>1, <3>3, <3>4 DEF SlotInv
  <2>2. CASE ~(Current(job[t].cycle) /\ attempt_thread = NoThread)
    <3>1. Moves(t, "idle", NoJob) /\ attempt_thread' = attempt_thread /\ at[t] = "launch"
      BY <1>2, <2>2, FinishMoves DEF Launch
    <3> QED
      BY <3>1, SlotStays DEF Moves, InSlot
  <2> QED
    BY <2>1, <2>2
<1>3. ASSUME Spawn(t) PROVE SlotInv'
  <2>1. PICK w \in Workers :
           /\ w # t /\ w \in Threads /\ at[t] = "spawn" /\ at[w] = "registered"
           /\ at'[t] = "idle" /\ at'[w] = "begin"
           /\ \A u \in Threads \ {t, w} : at'[u] = at[u] /\ job'[u] = job[u]
    BY <1>3, SpawnMoves
  <2>2. attempt_thread' = attempt_thread
    BY <1>3 DEF Spawn
  <2>3. \A u \in Threads : at'[u] # "spawn"
    BY <2>1 DEF SlotInv
  <2>4. \A v \in Workers : InSlot(v)' <=> InSlot(v)
    BY <1>t, <2>1 DEF InSlot
  <2> QED
    BY <2>2, <2>3, <2>4 DEF SlotInv
<1>4. ASSUME Begin(t) PROVE SlotInv'
  BY <1>4, BeginMoves, SlotStays DEF Begin, InSlot
<1>5. ASSUME Receive(t) PROVE SlotInv'
  <2>1. /\ at[t] = "await" /\ at'[t] \in {"await", "satisfied", "unsatisfied"}
        /\ \A u \in Threads \ {t} : at'[u] = at[u] /\ job'[u] = job[u]
    BY <1>5, ReceiveMoves
  <2>2. attempt_thread' = attempt_thread
    BY <1>5 DEF Receive
  <2> QED
    BY <2>1, <2>2, SlotStays DEF InSlot
<1>6. ASSUME TimeOut(t) PROVE SlotInv'
  BY <1>6, UnsatisfiedMoves, SlotStays DEF TimeOut, InSlot
<1>7. ASSUME Adopt(t) PROVE SlotInv'
  BY <1>7, AdoptMoves, SlotStays DEF InSlot
<1>8. ASSUME Judge(t) PROVE SlotInv'
  BY <1>8, JudgeMoves, SlotStays DEF InSlot
<1>9. ASSUME End(t) \/ Exhaust(t) PROVE SlotInv'
  <2>1. PICK step \in {"idle", "publish"} : EndCycle(t, step)
    BY <1>9 DEF End, Exhaust
  <2>2. attempt_thread' = attempt_thread /\ at[t] \in {"end", "retry"}
    BY <1>9 DEF End, Exhaust
  <2> QED
    BY <2>1, <2>2, EndCycleMoves, SlotStays DEF InSlot
<1>10. ASSUME Publish(t) PROVE SlotInv'
  BY <1>10, FinishMoves, SlotStays DEF Publish, Moves, InSlot
<1>11. ASSUME Schedule(t) PROVE SlotInv'
  BY <1>11, GotoMoves, StepsTyped, SlotStays DEF Schedule, InSlot
<1>12. ASSUME StoreToken(t) PROVE SlotInv'
  BY <1>12, StoreMoves, SlotStays DEF StoreToken, InSlot
<1>13. ASSUME CloseObservation(t) \/ ObserverIsClosed(t) PROVE SlotInv'
  <2>1. /\ \A u \in Threads \ {t} : at'[u] = at[u] /\ job'[u] = job[u]
        /\ at'[t] \in {"closed observer", "join"} /\ at[t] \in {"observer", "closed observer"}
        /\ attempt_thread' = attempt_thread
    BY <1>13, GotoMoves, StepsTyped DEF CloseObservation, ObserverIsClosed
  <2> QED
    BY <2>1, SlotStays DEF InSlot
<1>14. ASSUME Join(t) PROVE SlotInv'
  BY <1>14, FinishMoves, SlotStays DEF Join, Moves, InSlot
<1> QED
  BY <1>1, <1>2, <1>3, <1>4, <1>5, <1>6, <1>7, <1>8, <1>9, <1>10, <1>11, <1>12, <1>13, <1>14
     DEF Continue

LEMMA NextKeepsSlot ==
  ASSUME TypeOK, CyclesFollowSessions, BatonInv, SlotInv, [Next]_vars
  PROVE  SlotInv'
<1>u. ASSUME UNCHANGED <<at, job, attempt_thread>> PROVE SlotInv'
  BY <1>u DEF SlotInv, InSlot
<1>t. /\ Clients \subseteq Threads /\ BusThreads \subseteq Threads /\ Sessions \subseteq Threads
      /\ \A t \in Clients \cup BusThreads \cup Sessions : t \notin Workers
  BY ThreadsAssumption DEF Threads
<1>1. ASSUME NEW t \in Clients, Start(t) PROVE SlotInv'
  <2>1. at'[t] = "begin" /\ \A u \in Threads \ {t} : at'[u] = at[u] /\ job'[u] = job[u]
    BY <1>1, StartMoves DEF Moves, BatonInv
  <2>2. at[t] = "idle" /\ attempt_thread' = attempt_thread
    BY <1>1 DEF Start, Idle
  <2> QED
    BY <1>t, <2>1, <2>2, SlotStays
<1>2. ASSUME NEW t \in Clients, Close(t) PROVE SlotInv'
  <2>1. /\ at'[t] \in {"observer", "cancel"}
        /\ \A u \in Threads \ {t} : at'[u] = at[u] /\ job'[u] = job[u]
    BY <1>2, CloseMoves DEF Moves
  <2>2. at[t] = "idle" /\ attempt_thread' = attempt_thread
    BY <1>2 DEF Close, Idle
  <2> QED
    BY <1>t, <2>1, <2>2, SlotStays
<1>3. ASSUME NEW t \in Clients, ObserverCall(t) PROVE SlotInv'
  BY <1>3, <1>u DEF ObserverCall
<1>4. ASSUME NEW t \in Threads, Continue(t) PROVE SlotInv'
  BY <1>4, ContinueKeepsSlot
<1>5. ASSUME NEW r \in Retries, RetryFires(r) PROVE SlotInv'
  BY <1>5, <1>u DEF RetryFires
<1>6. ASSUME NEW b \in BusThreads, NEW r \in Retries, OnRetryDue(b, r) PROVE SlotInv'
  <2>1. r \in due /\ at[b] = "idle" /\ attempt_thread' = attempt_thread
    BY <1>6 DEF OnRetryDue
  <2>2. CASE Current(r.cycle)
    <3>1. at'[b] = "launch" /\ \A u \in Threads \ {b} : at'[u] = at[u] /\ job'[u] = job[u]
      BY <1>6, <2>1, <2>2, RetryMoves DEF Moves
    <3> QED
      BY <1>t, <2>1, <3>1, SlotStays
  <2>3. CASE ~Current(r.cycle)
    BY <1>6, <1>u, <2>1, <2>3 DEF OnRetryDue
  <2> QED
    BY <2>2, <2>3
<1>7. ASSUME NEW g \in Sessions, SessionStarts(g) \/ SessionRuns(g) PROVE SlotInv'
  BY <1>7, <1>u DEF SessionStarts, SessionRuns
<1>8. ASSUME NEW g \in Sessions, SessionEnds(g) PROVE SlotInv'
  <2>1. attempt_thread' = attempt_thread
    BY <1>8 DEF SessionEnds
  <2>2. CASE Matters(g)
    <3>1. at'[g] = "launch" /\ \A u \in Threads \ {g} : at'[u] = at[u] /\ job'[u] = job[u]
      BY <1>8, <2>2, FailureMoves DEF Moves
    <3>2. at[g] # "registered"
      BY <1>t, <2>2 DEF Matters, BatonInv, LastCycleOnly, Nobody, Driving
    <3> QED
      BY <1>t, <2>1, <3>1, <3>2, SlotStays
  <2>3. CASE ~Matters(g)
    BY <1>8, <1>u, <2>1, <2>3 DEF SessionEnds
  <2> QED
    BY <2>2, <2>3
<1>9. CASE UNCHANGED vars
  BY <1>9, <1>u DEF vars
<1> QED
  BY <1>1, <1>2, <1>3, <1>4, <1>5, <1>6, <1>7, <1>8, <1>9 DEF Next, Rest

-----------------------------------------------------------------------------
(***************************************************************************)
(* The sessions that episodes wait for, and the cycles sessions open.      *)
(***************************************************************************)

\* A session never goes back, and its signal is known before it is published.
LEMMA SessionsGoOn ==
  ASSUME ObserverInv, [Next]_vars
  PROVE  /\ generation' \in Nat /\ generation' >= generation
         /\ \A g \in Sessions : Opened(g) => Opened(g)'
         /\ \A g \in Sessions : stage[g] = "ended" => stage'[g] = "ended"
         /\ (\A g \in Sessions : stage[g] = "publishing" => terminal[g] # "none") =>
              \A g \in Sessions : stage'[g] = "publishing" => terminal'[g] # "none"
<1>n. generation \in Nat /\ stage \in [Sessions -> Stages] /\ generation' \in Nat
  BY ObserverInvKept, GenerationsAssumption DEF ObserverInv, ObserverTypeOK
<1>1. CASE UNCHANGED observer
  BY <1>1, <1>n DEF observer, Opened
<1>2. CASE StartSession
  <2>1. /\ generation' = generation + 1 /\ terminal' = terminal
        /\ stage' = [stage EXCEPT ![generation + 1] = "opening"]
    BY <1>2 DEF StartSession
  <2>2. \A g \in Sessions : stage[g] # "none" => stage'[g] = stage[g]
    BY <1>n, <2>1 DEF ObserverInv, OneGeneration, Sessions
  <2>3. \A g \in Sessions : stage'[g] \in {stage[g], "opening"}
    BY <1>n, <2>1
  <2> QED
    BY <1>n, <2>1, <2>2, <2>3 DEF Opened
<1>3. ASSUME NEW t \in Threads,
             \/ CloseObserver(t) \/ Stop(t) \/ StopActive(t) \/ CloseSource(t) \/ JoinSession(t)
      PROVE  UNCHANGED <<generation, stage, terminal>>
  BY <1>3 DEF CloseObserver, Stop, StopActive, ReadActive, CloseSource, JoinSession
<1>4. ASSUME UNCHANGED <<generation, stage, terminal>>
      PROVE  /\ generation' >= generation
             /\ \A g \in Sessions : Opened(g) => Opened(g)'
             /\ \A g \in Sessions : stage[g] = "ended" => stage'[g] = "ended"
             /\ (\A g \in Sessions : stage[g] = "publishing" => terminal[g] # "none") =>
                  \A g \in Sessions : stage'[g] = "publishing" => terminal'[g] # "none"
  BY <1>n, <1>4 DEF Opened
<1>5. ASSUME NEW g \in Sessions,
             \/ Open(g) \/ PublishStarted(g) \/ PublishRaises(g) \/ Stream(g)
             \/ MarkInactive(g) \/ PublishTerminal(g)
      PROVE  /\ generation' = generation
             /\ stage[g] \notin {"none", "ended"} /\ stage'[g] \notin {"none", "opening"}
             /\ stage'[g] = "publishing" => terminal'[g] # "none"
             /\ \A h \in Sessions \ {g} : stage'[h] = stage[h] /\ terminal'[h] = terminal[h]
  <2>1. CASE Open(g) \/ PublishStarted(g) \/ PublishRaises(g) \/ Stream(g) \/ PublishTerminal(g)
    BY <1>n, <2>1 DEF Open, PublishStarted, PublishRaises, Stream, PublishTerminal, Unwind, Move,
       ObserverInv, ObserverTypeOK
  <2>2. CASE MarkInactive(g)
    BY <1>n, <2>2 DEF MarkInactive
  <2> QED
    BY <1>5, <2>1, <2>2
<1>6. ASSUME NEW g \in Sessions,
             \/ Open(g) \/ PublishStarted(g) \/ PublishRaises(g) \/ Stream(g)
             \/ MarkInactive(g) \/ PublishTerminal(g)
      PROVE  /\ generation' >= generation
             /\ \A h \in Sessions : Opened(h) => Opened(h)'
             /\ \A h \in Sessions : stage[h] = "ended" => stage'[h] = "ended"
             /\ (\A h \in Sessions : stage[h] = "publishing" => terminal[h] # "none") =>
                  \A h \in Sessions : stage'[h] = "publishing" => terminal'[h] # "none"
  BY <1>n, <1>5, <1>6 DEF Opened
<1> QED
  BY <1>n, <1>1, <1>2, <1>3, <1>4, <1>6, OnlyTheObserverMoves DEF ObserverNext, Threads

\* A session that has not been started has not been opened.
LEMMA OpenedWereStarted ==
  ASSUME ObserverInv, NEW g \in Sessions, Opened(g)
  PROVE  g <= generation
BY DEF ObserverInv, OneGeneration, Opened

\* What Adopt makes the current session.
LEMMA AdoptedIsNewer ==
  ASSUME TypeOK, ObserverInv, BatonInv, EpisodesInv, NEW t \in Threads, Adopt(t)
  PROVE  \/ /\ current' = current /\ cycle_id' = cycle_id
         \/ /\ current' \in Sessions /\ current' > current /\ Opened(current') /\ current' <= generation
            /\ current' = job[t].session /\ ~closed /\ cycle_id # 0 /\ cycle_id' = 0
<1>1. CASE Current(job[t].cycle)
  <2>1. at[t] = "satisfied" /\ current' = job[t].session /\ cycle_id' = 0
    BY <1>1 DEF Adopt
  <2>2. job[t].cycle # 0
    BY <2>1 DEF BatonInv, LastCycleOnly, Driving
  <2>3. cycle_id # 0 /\ ~closed
    BY <1>1, <2>2 DEF Current
  <2>4. current' \in Sessions /\ current' > current /\ Opened(current')
    BY <2>1, <2>3 DEF EpisodesInv, Opened
  <2>5. current' <= generation
    BY <2>4, OpenedWereStarted
  <2> QED
    BY <2>1, <2>3, <2>4, <2>5
<1>2. CASE ~Current(job[t].cycle)
  BY <1>2 DEF Adopt
<1> QED
  BY <1>1, <1>2

\* Every other step leaves the current session alone.
LEMMA OnlyAdoptionReplaces ==
  ASSUME [Next]_vars
  PROVE  current' = current \/ \E t \in Threads : Adopt(t)
<1> USE DEF recovery, lifecycle, timers, history
<1>1. ASSUME NEW t \in Clients, Start(t) \/ Close(t) \/ ObserverCall(t) PROVE current' = current
  BY <1>1 DEF Start, Close, ObserverCall
<1>2. ASSUME NEW t \in Threads, Continue(t) PROVE current' = current \/ Adopt(t)
  <2>1. CASE Cancel(t) \/ Launch(t) \/ Spawn(t) \/ Begin(t) \/ TimeOut(t)
    BY <2>1 DEF Cancel, Launch, Spawn, Begin, TimeOut
  <2>2. CASE Receive(t)
    BY <2>2 DEF Receive
  <2>3. CASE Judge(t) \/ End(t) \/ Exhaust(t) \/ Publish(t) \/ Schedule(t) \/ StoreToken(t)
    BY <2>3 DEF Judge, End, Exhaust, Publish, Schedule, StoreToken
  <2>4. CASE CloseObservation(t) \/ ObserverIsClosed(t) \/ Join(t)
    BY <2>4 DEF CloseObservation, ObserverIsClosed, Join
  <2> QED
    BY <1>2, <2>1, <2>2, <2>3, <2>4 DEF Continue
<1>3. ASSUME NEW r, RetryFires(r) PROVE current' = current
  BY <1>3 DEF RetryFires
<1>4. ASSUME NEW b, NEW r, OnRetryDue(b, r) PROVE current' = current
  BY <1>4 DEF OnRetryDue
<1>5. ASSUME NEW g \in Sessions, SessionStarts(g) \/ SessionRuns(g) \/ SessionEnds(g) PROVE current' = current
  BY <1>5 DEF SessionStarts, SessionRuns, SessionEnds
<1> QED
  BY <1>1, <1>2, <1>3, <1>4, <1>5 DEF Next, Rest, vars

\* A new cycle is start()'s, or answers the current session, which has ended.
LEMMA CyclesAreOpened ==
  ASSUME TypeOK, LastCycleOnly, [Next]_vars
  PROVE  \/ cycles' = cycles
         \/ cycles = 0 /\ cycles' = 1
         \/ /\ cycles' = cycles + 1 /\ current \in Sessions
            /\ stage[current] = "publishing" /\ stage'[current] = "ended"
<1> USE DEF recovery, lifecycle, timers, history
<1>1. ASSUME NEW t \in Clients, Start(t) PROVE cycles = 0 /\ cycles' = 1
  BY <1>1 DEF Start, LastCycleOnly
<1>2. ASSUME NEW t \in Clients, Close(t) \/ ObserverCall(t) PROVE cycles' = cycles
  BY <1>2 DEF Close, ObserverCall
<1>3. ASSUME NEW t \in Threads, Continue(t) PROVE cycles' = cycles
  <2>1. CASE Cancel(t) \/ Launch(t) \/ Spawn(t) \/ Begin(t) \/ TimeOut(t)
    BY <2>1 DEF Cancel, Launch, Spawn, Begin, TimeOut
  <2>2. CASE Receive(t)
    BY <2>2 DEF Receive
  <2>3. CASE Adopt(t) \/ Judge(t) \/ End(t) \/ Exhaust(t) \/ Publish(t) \/ Schedule(t) \/ StoreToken(t)
    BY <2>3 DEF Adopt, Judge, End, Exhaust, Publish, Schedule, StoreToken
  <2>4. CASE CloseObservation(t) \/ ObserverIsClosed(t) \/ Join(t)
    BY <2>4 DEF CloseObservation, ObserverIsClosed, Join
  <2> QED
    BY <1>3, <2>1, <2>2, <2>3, <2>4 DEF Continue
<1>4. ASSUME NEW r, RetryFires(r) PROVE cycles' = cycles
  BY <1>4 DEF RetryFires
<1>5. ASSUME NEW b, NEW r, OnRetryDue(b, r) PROVE cycles' = cycles
  BY <1>5 DEF OnRetryDue
<1>6. ASSUME NEW g \in Sessions, SessionStarts(g) \/ SessionRuns(g) PROVE cycles' = cycles
  BY <1>6 DEF SessionStarts, SessionRuns
<1>7. ASSUME NEW g \in Sessions, SessionEnds(g)
      PROVE  \/ cycles' = cycles
             \/ /\ cycles' = cycles + 1 /\ g = current
                /\ stage[current] = "publishing" /\ stage'[current] = "ended"
  BY <1>7 DEF SessionEnds, Matters, PublishTerminal, Move, TypeOK, ObserverTypeOK
<1> QED
  BY <1>1, <1>2, <1>3, <1>4, <1>5, <1>6, <1>7 DEF Next, Rest, vars

LEMMA NextKeepsNumbers ==
  ASSUME TypeOK, ObserverInv, BatonInv, EpisodesInv, CyclesFollowSessions, [Next]_vars
  PROVE  CyclesFollowSessions'
<1>n. /\ current \in Nat /\ cycles \in Nat /\ generation \in Nat /\ (current # 0 => current \in Sessions)
      /\ \A g \in Sessions : g \in Nat /\ g # 0
      /\ LastCycleOnly
  BY GenerationsAssumption DEF TypeOK, ObserverTypeOK, Sessions, Cycles, BatonInv
<1>s. /\ generation' \in Nat /\ generation' >= generation
      /\ \A g \in Sessions : stage[g] = "ended" => stage'[g] = "ended"
      /\ \A g \in Sessions : stage'[g] = "publishing" => terminal'[g] # "none"
  BY SessionsGoOn DEF CyclesFollowSessions
<1>1. CASE current' = current
  <2>1. current' <= generation'
    BY <1>n, <1>s, <1>1 DEF CyclesFollowSessions
  <2>2. CASE cycles' = cycles
    BY <1>n, <1>s, <1>1, <2>1, <2>2 DEF CyclesFollowSessions
  <2>3. CASE cycles = 0 /\ cycles' = 1
    BY <1>n, <1>s, <1>1, <2>1, <2>3 DEF CyclesFollowSessions
  <2>4. CASE /\ cycles' = cycles + 1 /\ current \in Sessions
             /\ stage[current] = "publishing" /\ stage'[current] = "ended"
    <3>1. cycles <= current /\ stage[current] # "ended"
      BY <1>n, <2>4 DEF CyclesFollowSessions
    <3> QED
      BY <1>n, <1>s, <1>1, <2>1, <2>4, <3>1 DEF CyclesFollowSessions
  <2> QED
    BY <1>n, <2>2, <2>3, <2>4, CyclesAreOpened
<1>2. ASSUME NEW t \in Threads, Adopt(t), current' # current PROVE CyclesFollowSessions'
  <2>1. current' \in Sessions /\ current' > current /\ current' <= generation
    BY <1>2, AdoptedIsNewer
  <2>2. cycles' = cycles
    BY <1>2 DEF Adopt
  <2> QED
    BY <1>n, <1>s, <2>1, <2>2 DEF CyclesFollowSessions
<1> QED
  BY <1>1, <1>2, OnlyAdoptionReplaces

\* A signal that is new in an inbox tells the truth; an episode that waits for a session
\* on behalf of the live cycle did so before, or the session is new.
LEMMA EpisodesStay ==
  ASSUME TypeOK, ObserverInv, EpisodesInv, [Next]_vars,
         \A u \in Threads : \A i \in 1 .. Len(inbox'[u]) :
           \/ \E j \in 1 .. Len(inbox[u]) : inbox'[u][i] = inbox[u][j]
           \/ inbox'[u][i].kind = "started" => Opened(inbox[u][i].session)',
         \A u \in Threads : at'[u] \in {"await", "satisfied"} =>
           \/ at[u] \in {"await", "satisfied"} /\ job'[u].session = job[u].session
           \/ job'[u].session \in Sessions /\ (cycle_id' # 0 => job'[u].session > current'),
         \A u \in Threads : at'[u] = "satisfied" =>
           \/ at[u] = "satisfied" /\ job'[u].session = job[u].session
           \/ job'[u].session \in Sessions /\ Opened(job'[u].session),
         \/ cycle_id' = 0
         \/ cycle_id' = cycle_id /\ current' = current
         \/ \A u \in Threads : at'[u] \notin {"await", "satisfied"}
  PROVE  EpisodesInv'
<1>1. \A g \in Sessions : Opened(g) => Opened(g)'
  BY SessionsGoOn
<1>2. \A u \in Threads : \A i \in 1 .. Len(inbox[u]) : inbox[u][i].session \in Sessions
  <2>1. ASSUME NEW u \in Threads, NEW i \in 1 .. Len(inbox[u]) PROVE inbox[u][i] \in Signals
    <3>1. inbox[u] \in Seq(Signals)
      BY DEF TypeOK
    <3> QED
      BY <2>1, <3>1
  <2> QED
    BY <2>1 DEF Signals
<1>3. ASSUME NEW u \in Threads, NEW i \in 1 .. Len(inbox'[u]), inbox'[u][i].kind = "started"
      PROVE  Opened(inbox[u][i].session)'
  <2>1. CASE \E j \in 1 .. Len(inbox[u]) : inbox'[u][i] = inbox[u][j]
    <3>1. PICK j \in 1 .. Len(inbox[u]) : inbox'[u][i] = inbox[u][j]
      BY <2>1
    <3>2. inbox[u][j].session \in Sessions /\ Opened(inbox[u][j].session)
      BY <1>2, <1>3, <3>1 DEF EpisodesInv
    <3> QED
      BY <1>1, <3>1, <3>2 DEF Opened
  <2> QED
    BY <1>3, <2>1
<1>4. ASSUME NEW u \in Threads, at'[u] \in {"await", "satisfied"}
      PROVE  job'[u].session \in Sessions /\ (cycle_id' # 0 => job'[u].session > current')
  BY <1>4 DEF EpisodesInv
<1>5. ASSUME NEW u \in Threads, at'[u] = "satisfied" PROVE Opened(job[u].session)'
  <2>1. job'[u].session \in Sessions /\ Opened(job'[u].session)
    BY <1>5 DEF EpisodesInv
  <2> QED
    BY <1>1, <2>1 DEF Opened
<1> QED
  BY <1>3, <1>4, <1>5 DEF EpisodesInv, Opened

LEMMA ContinueKeepsEpisodes ==
  ASSUME TypeOK, ObserverInv, CyclesFollowSessions, BatonInv, SlotInv, EpisodesInv,
         NEW t \in Threads, Continue(t)
  PROVE  EpisodesInv'
<1> USE DEF recovery, lifecycle, timers, history
<1>n. [Next]_vars
  BY DEF Next
<1>q. ASSUME inbox' = inbox
      PROVE  \A u \in Threads : \A i \in 1 .. Len(inbox'[u]) :
               \E j \in 1 .. Len(inbox[u]) : inbox'[u][i] = inbox[u][j]
  BY <1>q
<1>l. ASSUME \A u \in Threads \ {t} : at'[u] = at[u] /\ job'[u] = job[u],
             at'[t] \notin {"await", "satisfied"}, inbox' = inbox,
             cycle_id' = 0 \/ (cycle_id' = cycle_id /\ current' = current)
      PROVE  EpisodesInv'
  <2>1. \A u \in Threads : at'[u] \in {"await", "satisfied"} =>
          at'[u] = at[u] /\ job'[u].session = job[u].session
    BY <1>l
  <2> QED
    BY <1>l, <1>n, <1>q, <2>1, EpisodesStay
<1>1. ASSUME Cancel(t) PROVE EpisodesInv'
  BY <1>1, <1>l, CancelMoves DEF Cancel
<1>2. ASSUME Launch(t) PROVE EpisodesInv'
  <2>1. UNCHANGED <<cycle_id, current, inbox>>
    BY <1>2 DEF Launch
  <2>2. CASE Current(job[t].cycle) /\ attempt_thread = NoThread
    <3>1. PICK w \in Workers :
           /\ at'[t] = "spawn" /\ at'[w] = "registered"
           /\ \A u \in Threads \ {t, w} : at'[u] = at[u] /\ job'[u] = job[u]
      BY <1>2, <2>2, LaunchMoves
    <3>2. \A u \in Threads : at'[u] \in {"await", "satisfied"} =>
            at'[u] = at[u] /\ job'[u].session = job[u].session
      BY <3>1
    <3> QED
      BY <1>n, <1>q, <2>1, <3>2, EpisodesStay
  <2>3. CASE ~(Current(job[t].cycle) /\ attempt_thread = NoThread)
    <3>1. Moves(t, "idle", NoJob)
      BY <1>2, <2>3, FinishMoves DEF Launch
    <3> QED
      BY <1>l, <2>1, <3>1 DEF Moves
  <2> QED
    BY <2>2, <2>3
<1>3. ASSUME Spawn(t) PROVE EpisodesInv'
  <2>1. PICK w \in Workers :
           /\ at'[t] = "idle" /\ at'[w] = "begin"
           /\ \A u \in Threads \ {t, w} : at'[u] = at[u] /\ job'[u] = job[u]
    BY <1>3, SpawnMoves
  <2>2. \A u \in Threads : at'[u] \in {"await", "satisfied"} =>
            at'[u] = at[u] /\ job'[u].session = job[u].session
    BY <2>1
  <2>3. UNCHANGED <<cycle_id, current, inbox>>
    BY <1>3 DEF Spawn
  <2> QED
    BY <1>n, <1>q, <2>2, <2>3, EpisodesStay
<1>4. ASSUME Begin(t) PROVE EpisodesInv'
  <2>1. UNCHANGED <<cycle_id, current>>
    BY <1>4 DEF Begin
  <2>2. CASE /\ at'[t] = "await" /\ job'[t].session = generation + 1
             /\ inbox' = inbox /\ generation + 1 \in Sessions
    <3>1. generation + 1 > current
      BY GenerationsAssumption DEF CyclesFollowSessions, TypeOK, ObserverTypeOK, Sessions
    <3>2. \A u \in Threads : at'[u] \in {"await", "satisfied"} =>
            \/ at[u] \in {"await", "satisfied"} /\ job'[u].session = job[u].session
            \/ job'[u].session \in Sessions /\ (cycle_id' # 0 => job'[u].session > current')
      BY <1>4, <2>1, <2>2, <3>1, BeginMoves
    <3>3. \A u \in Threads : at'[u] = "satisfied" => at[u] = "satisfied" /\ job'[u].session = job[u].session
      BY <1>4, <2>2, BeginMoves
    <3> QED
      BY <1>n, <1>q, <2>1, <2>2, <3>2, <3>3, EpisodesStay
  <2>3. CASE at'[t] = "unsatisfied" /\ inbox'[t] = <<>>
    <3>1. \A u \in Threads : \A i \in 1 .. Len(inbox'[u]) :
             \E j \in 1 .. Len(inbox[u]) : inbox'[u][i] = inbox[u][j]
      BY <1>4, <2>3, BeginMoves
    <3>2. \A u \in Threads : at'[u] \in {"await", "satisfied"} =>
            at'[u] = at[u] /\ job'[u].session = job[u].session
      BY <1>4, <2>3, BeginMoves
    <3> QED
      BY <1>n, <2>1, <3>1, <3>2, EpisodesStay
  <2> QED
    BY <1>4, <2>2, <2>3, BeginMoves
<1>5. ASSUME Receive(t) PROVE EpisodesInv'
  <2>1. UNCHANGED <<cycle_id, current>>
    BY <1>5 DEF Receive
  <2>2. \A u \in Threads : \A i \in 1 .. Len(inbox'[u]) :
             \E j \in 1 .. Len(inbox[u]) : inbox'[u][i] = inbox[u][j]
    <3>1. ASSUME NEW i \in 1 .. Len(Tail(inbox[t])) PROVE
            i + 1 \in 1 .. Len(inbox[t]) /\ Tail(inbox[t])[i] = inbox[t][i + 1]
      BY <1>5, <3>1, ReceiveMoves
    <3>2. /\ inbox'[t] = Tail(inbox[t]) \/ inbox'[t] = <<>>
          /\ \A u \in Threads \ {t} : inbox'[u] = inbox[u]
      BY <1>5, ReceiveMoves
    <3>3. \A i \in 1 .. Len(inbox'[t]) : \E j \in 1 .. Len(inbox[t]) : inbox'[t][i] = inbox[t][j]
      <4>1. CASE inbox'[t] = <<>>
        BY <4>1
      <4>2. CASE inbox'[t] = Tail(inbox[t])
        BY <3>1, <4>2
      <4> QED
        BY <3>2, <4>1, <4>2
    <3> QED
      BY <3>2, <3>3
  <2>3. \A u \in Threads : at'[u] \in {"await", "satisfied"} =>
            at[u] \in {"await", "satisfied"} /\ job'[u].session = job[u].session
    BY <1>5, ReceiveMoves
  <2>4. at'[t] = "satisfied" => job'[t].session \in Sessions /\ Opened(job'[t].session)
    <3>1. ASSUME at'[t] = "satisfied" PROVE job'[t].session \in Sessions /\ Opened(job'[t].session)
      <4>1. /\ inbox[t][1] = [session |-> job[t].session, kind |-> "started"] /\ 1 \in 1 .. Len(inbox[t])
            /\ at[t] = "await" /\ job'[t].session = job[t].session
        BY <1>5, <3>1, ReceiveMoves
      <4>2. inbox[t][1].kind = "started" /\ inbox[t][1].session = job[t].session
        BY <4>1
      <4> QED
        BY <4>1, <4>2 DEF EpisodesInv, Opened
    <3> QED
      BY <3>1
  <2>5. \A u \in Threads : at'[u] = "satisfied" =>
           \/ at[u] = "satisfied" /\ job'[u].session = job[u].session
           \/ job'[u].session \in Sessions /\ Opened(job'[u].session)
    BY <1>5, <2>4, ReceiveMoves
  <2> QED
    BY <1>n, <2>1, <2>2, <2>3, <2>5, EpisodesStay
<1>6. ASSUME TimeOut(t) PROVE EpisodesInv'
  <2>1. /\ at'[t] = "unsatisfied" /\ inbox'[t] = <<>> /\ UNCHANGED <<cycle_id, current>>
        /\ \A u \in Threads \ {t} : at'[u] = at[u] /\ job'[u] = job[u] /\ inbox'[u] = inbox[u]
    BY <1>6, UnsatisfiedMoves DEF TimeOut
  <2>2. \A u \in Threads : \A i \in 1 .. Len(inbox'[u]) :
             \E j \in 1 .. Len(inbox[u]) : inbox'[u][i] = inbox[u][j]
    BY <2>1
  <2>3. \A u \in Threads : at'[u] \in {"await", "satisfied"} =>
            at'[u] = at[u] /\ job'[u].session = job[u].session
    BY <2>1
  <2> QED
    BY <1>n, <2>1, <2>2, <2>3, EpisodesStay
<1>7. ASSUME Adopt(t) PROVE EpisodesInv'
  <2>1. inbox' = inbox /\ (cycle_id' = 0 \/ (cycle_id' = cycle_id /\ current' = current))
    BY <1>7 DEF Adopt
  <2> QED
    BY <1>7, <1>l, <2>1, AdoptMoves
<1>8. ASSUME Judge(t) PROVE EpisodesInv'
  BY <1>8, <1>l, JudgeMoves DEF Judge
<1>9. ASSUME End(t) \/ Exhaust(t) PROVE EpisodesInv'
  <2>1. PICK step \in {"idle", "publish"} : EndCycle(t, step)
    BY <1>9 DEF End, Exhaust
  <2>2. inbox' = inbox /\ current' = current
    BY <1>9 DEF End, Exhaust
  <2>3. /\ at'[t] \in {step, "cancel"} /\ (cycle_id' = 0 \/ cycle_id' = cycle_id)
        /\ \A u \in Threads \ {t} : at'[u] = at[u] /\ job'[u] = job[u]
    BY <2>1, EndCycleMoves
  <2> QED
    BY <1>l, <2>2, <2>3
<1>10. ASSUME Publish(t) PROVE EpisodesInv'
  BY <1>10, <1>l, FinishMoves DEF Publish, Moves
<1>11. ASSUME Schedule(t) PROVE EpisodesInv'
  BY <1>11, <1>l, GotoMoves, StepsTyped DEF Schedule
<1>12. ASSUME StoreToken(t) PROVE EpisodesInv'
  BY <1>12, <1>l, StoreMoves DEF StoreToken
<1>13. ASSUME CloseObservation(t) \/ ObserverIsClosed(t) PROVE EpisodesInv'
  <2>1. /\ \A u \in Threads \ {t} : at'[u] = at[u] /\ job'[u] = job[u]
        /\ at'[t] \in {"closed observer", "join"}
        /\ UNCHANGED <<cycle_id, current, inbox>>
    BY <1>13, GotoMoves, StepsTyped DEF CloseObservation, ObserverIsClosed
  <2> QED
    BY <1>l, <2>1
<1>14. ASSUME Join(t) PROVE EpisodesInv'
  BY <1>14, <1>l, FinishMoves DEF Join, Moves
<1> QED
  BY <1>1, <1>2, <1>3, <1>4, <1>5, <1>6, <1>7, <1>8, <1>9, <1>10, <1>11, <1>12, <1>13, <1>14
     DEF Continue

\* What the bus adds to an inbox.
LEMMA CollectedSignals ==
  ASSUME TypeOK, NEW g \in Sessions, NEW kind \in Failures \cup {"started", "stopped"},
         Collected(g, kind)
  PROVE  \A u \in Threads : \A i \in 1 .. Len(inbox'[u]) :
           \/ i \in 1 .. Len(inbox[u]) /\ inbox'[u][i] = inbox[u][i]
           \/ at[u] = "await" /\ inbox'[u][i].session = g /\ inbox'[u][i].kind = kind
<1> SUFFICES ASSUME NEW u \in Threads, NEW i \in 1 .. Len(inbox'[u])
             PROVE  \/ i \in 1 .. Len(inbox[u]) /\ inbox'[u][i] = inbox[u][i]
                    \/ at[u] = "await" /\ inbox'[u][i].session = g /\ inbox'[u][i].kind = kind
  OBVIOUS
<1>1. inbox[u] \in Seq(Signals) /\ [session |-> g, kind |-> kind] \in Signals
  BY DEF TypeOK, Signals
<1>2. inbox'[u] = IF at[u] = "await" THEN Append(inbox[u], [session |-> g, kind |-> kind]) ELSE inbox[u]
  BY DEF Collected
<1>3. CASE at[u] = "await"
  <2> DEFINE signal == [session |-> g, kind |-> kind]
  <2>1. /\ inbox'[u] = Append(inbox[u], signal) /\ signal \in Signals
        /\ signal.session = g /\ signal.kind = kind
    BY <1>1, <1>2, <1>3
  <2> HIDE DEF signal
  <2>2. (i \in 1 .. Len(inbox[u]) /\ inbox'[u][i] = inbox[u][i]) \/ inbox'[u][i] = signal
    BY <1>1, <2>1
  <2> QED
    BY <1>3, <2>1, <2>2
<1>4. CASE at[u] # "await"
  BY <1>2, <1>4
<1> QED
  BY <1>3, <1>4

LEMMA NextKeepsEpisodes ==
  ASSUME TypeOK, ObserverInv, CyclesFollowSessions, BatonInv, SlotInv, EpisodesInv, [Next]_vars
  PROVE  EpisodesInv'
<1> USE DEF recovery, lifecycle, timers, history
<1>q. ASSUME inbox' = inbox
      PROVE  \A u \in Threads : \A i \in 1 .. Len(inbox'[u]) :
               \E j \in 1 .. Len(inbox[u]) : inbox'[u][i] = inbox[u][j]
  BY <1>q
<1>l. ASSUME NEW t \in Threads, \A u \in Threads \ {t} : at'[u] = at[u] /\ job'[u] = job[u],
             at'[t] \notin {"await", "satisfied"}, inbox' = inbox,
             \/ cycle_id' = 0
             \/ cycle_id' = cycle_id /\ current' = current
             \/ \A u \in Threads : at'[u] \notin {"await", "satisfied"}
      PROVE  EpisodesInv'
  <2>1. \A u \in Threads : at'[u] \in {"await", "satisfied"} =>
          at'[u] = at[u] /\ job'[u].session = job[u].session
    BY <1>l
  <2> QED
    BY <1>l, <1>q, <2>1, EpisodesStay
<1>u. ASSUME UNCHANGED <<at, job, cycle_id, current, inbox>> PROVE EpisodesInv'
  BY <1>u, <1>q, EpisodesStay
<1>1. ASSUME NEW t \in Clients, Start(t) PROVE EpisodesInv'
  <2>1. /\ t \in Threads /\ at'[t] = "begin" /\ cycles = 0 /\ inbox' = inbox
        /\ \A u \in Threads \ {t} : at'[u] = at[u] /\ job'[u] = job[u]
    BY <1>1, StartMoves DEF Threads, Moves, BatonInv, Start
  <2>2. \A u \in Threads : at'[u] \notin {"await", "satisfied"}
    BY <2>1 DEF BatonInv, LastCycleOnly, Driving
  <2> QED
    BY <1>l, <2>1, <2>2
<1>2. ASSUME NEW t \in Clients, Close(t) PROVE EpisodesInv'
  <2>1. /\ t \in Threads /\ at'[t] \in {"observer", "cancel"} /\ inbox' = inbox /\ cycle_id' = 0
        /\ \A u \in Threads \ {t} : at'[u] = at[u] /\ job'[u] = job[u]
    BY <1>2, CloseMoves DEF Threads, Moves, Close
  <2> QED
    BY <1>l, <2>1
<1>3. ASSUME NEW t \in Clients, ObserverCall(t) PROVE EpisodesInv'
  BY <1>3, <1>u DEF ObserverCall
<1>4. ASSUME NEW t \in Threads, Continue(t) PROVE EpisodesInv'
  BY <1>4, ContinueKeepsEpisodes
<1>5. ASSUME NEW r \in Retries, RetryFires(r) PROVE EpisodesInv'
  BY <1>5, <1>u DEF RetryFires
<1>6. ASSUME NEW b \in BusThreads, NEW r \in Retries, OnRetryDue(b, r) PROVE EpisodesInv'
  <2>1. r \in due /\ b \in Threads /\ UNCHANGED <<cycle_id, current, inbox>>
    BY <1>6 DEF OnRetryDue, Threads
  <2>2. CASE Current(r.cycle)
    <3>1. at'[b] = "launch" /\ \A u \in Threads \ {b} : at'[u] = at[u] /\ job'[u] = job[u]
      BY <1>6, <2>1, <2>2, RetryMoves DEF Moves
    <3> QED
      BY <1>l, <2>1, <3>1
  <2>3. CASE ~Current(r.cycle)
    BY <1>6, <1>u, <2>1, <2>3 DEF OnRetryDue
  <2> QED
    BY <2>2, <2>3
<1>7. ASSUME NEW g \in Sessions, SessionStarts(g) PROVE EpisodesInv'
  <2>1. /\ Collected(g, "started") /\ stage'[g] \notin {"none", "opening"}
        /\ UNCHANGED <<at, job, cycle_id, current>>
    BY <1>7 DEF SessionStarts, PublishStarted, PublishRaises, Unwind, Move, TypeOK, ObserverTypeOK
  <2>2. \A u \in Threads : \A i \in 1 .. Len(inbox'[u]) :
          \/ \E j \in 1 .. Len(inbox[u]) : inbox'[u][i] = inbox[u][j]
          \/ inbox'[u][i].session = g
    BY <2>1, CollectedSignals
  <2>3. \A u \in Threads : \A i \in 1 .. Len(inbox'[u]) :
          \/ \E j \in 1 .. Len(inbox[u]) : inbox'[u][i] = inbox[u][j]
          \/ inbox'[u][i].kind = "started" => Opened(inbox[u][i].session)'
    BY <2>1, <2>2 DEF Opened
  <2> QED
    BY <2>1, <2>3, EpisodesStay
<1>8. ASSUME NEW g \in Sessions, SessionRuns(g) PROVE EpisodesInv'
  BY <1>8, <1>u DEF SessionRuns
<1>9. ASSUME NEW g \in Sessions, SessionEnds(g) PROVE EpisodesInv'
  <2>1. /\ Collected(g, terminal[g]) /\ terminal[g] \in Failures \cup {"stopped"} /\ current' = current
    BY <1>9 DEF SessionEnds, PublishTerminal, Move, CyclesFollowSessions, TypeOK, ObserverTypeOK
  <2>2. terminal[g] # "started"
    BY <2>1 DEF Failures
  <2>3. \A u \in Threads : \A i \in 1 .. Len(inbox'[u]) :
          \/ \E j \in 1 .. Len(inbox[u]) : inbox'[u][i] = inbox[u][j]
          \/ inbox'[u][i].kind # "started"
    BY <2>1, <2>2, CollectedSignals
  <2>4. CASE Matters(g)
    <3>1. /\ at'[g] = "launch" /\ \A u \in Threads \ {g} : at'[u] = at[u] /\ job'[u] = job[u]
      BY <1>9, <2>4, FailureMoves DEF Moves
    <3>2. \A u \in Threads : at'[u] \notin {"await", "satisfied"}
      BY <2>4, <3>1 DEF Matters, BatonInv, LastCycleOnly, Nobody, Driving
    <3> QED
      BY <2>3, <3>2, EpisodesStay
  <2>5. CASE ~Matters(g)
    <3>1. UNCHANGED <<at, job, cycle_id>>
      BY <1>9, <2>5 DEF SessionEnds
    <3> QED
      BY <2>1, <2>3, <3>1, EpisodesStay
  <2> QED
    BY <2>4, <2>5
<1>10. CASE UNCHANGED vars
  BY <1>10, <1>u DEF vars
<1> QED
  BY <1>1, <1>2, <1>3, <1>4, <1>5, <1>6, <1>7, <1>8, <1>9, <1>10 DEF Next, Rest

-----------------------------------------------------------------------------
(***************************************************************************)
(* close().                                                                *)
(***************************************************************************)

\* Nobody gets into close(), and no attempt into the slot of a closed supervisor.
ClosersStay ==
  /\ \A u \in Threads :
       /\ BeforeObserver(u)' => BeforeObserver(u) /\ job'[u].worker = job[u].worker
       /\ at'[u] \in {"closed observer", "join"} => at'[u] = at[u] /\ job'[u].worker = job[u].worker
  /\ \A w \in Workers : InSlot(w)' => InSlot(w) \/ ~closed

LEMMA OneThreadMoves ==
  ASSUME NEW t \in Threads, \A u \in Threads \ {t} : at'[u] = at[u] /\ job'[u] = job[u],
         \/ at'[t] \notin {"cancel", "observer", "closed observer", "join"}
         \/ at'[t] = "cancel" /\ job'[t].then # "observer"
         \/ at'[t] = "observer" /\ BeforeObserver(t) /\ job'[t].worker = job[t].worker,
         t \in Workers => (InSlot(t)' => InSlot(t))
  PROVE  ClosersStay
<1>1. BeforeObserver(t)' => BeforeObserver(t) /\ job'[t].worker = job[t].worker
  BY DEF BeforeObserver
<1>2. at'[t] \notin {"closed observer", "join"}
  OBVIOUS
<1>3. \A u \in Threads \ {t} :
        /\ BeforeObserver(u)' => BeforeObserver(u) /\ job'[u].worker = job[u].worker
        /\ InSlot(u)' => InSlot(u)
  BY DEF BeforeObserver, InSlot
<1>4. Workers \subseteq Threads
  BY DEF Threads
<1> QED
  BY <1>1, <1>2, <1>3, <1>4 DEF ClosersStay

\* No step of an attempt or of another call does.
LEMMA ContinueLeavesClose ==
  ASSUME TypeOK, SlotInv, NEW t \in Threads, Continue(t),
         at[t] \notin {"observer", "closed observer", "join"}
  PROVE  /\ ClosersStay
         /\ UNCHANGED <<observer_closed, closed, closing, call>>
         /\ active' = active \/ ~observer_closed
<1> USE DEF recovery, lifecycle, timers, history, observer
<1>w. Workers \subseteq Threads
  BY DEF Threads
<1>1. ASSUME Cancel(t) PROVE ClosersStay /\ UNCHANGED <<observer, closed, closing>>
  <2>1. at'[t] = "observer" => BeforeObserver(t) /\ job'[t].worker = job[t].worker
    BY <1>1, CancelMoves DEF BeforeObserver
  <2> QED
    BY <1>1, <2>1, CancelMoves, OneThreadMoves DEF Cancel, InSlot
<1>2. ASSUME Launch(t) PROVE ClosersStay /\ UNCHANGED <<observer, closed, closing>>
  <2>1. CASE Current(job[t].cycle) /\ attempt_thread = NoThread
    <3>1. PICK w \in Workers :
           /\ at'[t] = "spawn" /\ at'[w] = "registered"
           /\ \A u \in Threads \ {t, w} : at'[u] = at[u] /\ job'[u] = job[u]
      BY <1>2, <2>1, LaunchMoves
    <3>2. ~closed
      BY <2>1 DEF Current
    <3>3. ClosersStay
      BY <1>w, <3>1, <3>2 DEF ClosersStay, BeforeObserver, InSlot
    <3> QED
      BY <1>2, <3>3 DEF Launch
  <2>2. CASE ~(Current(job[t].cycle) /\ attempt_thread = NoThread)
    <3>1. Moves(t, "idle", NoJob)
      BY <1>2, <2>2, FinishMoves DEF Launch
    <3> QED
      BY <1>2, <3>1, OneThreadMoves DEF Launch, Moves, InSlot
  <2> QED
    BY <2>1, <2>2
<1>3. ASSUME Spawn(t) PROVE ClosersStay /\ UNCHANGED <<observer, closed, closing>>
  <2>1. PICK w \in Workers :
           /\ at[t] = "spawn" /\ at[w] = "registered" /\ at'[t] = "idle" /\ at'[w] = "begin"
           /\ \A u \in Threads \ {t, w} : at'[u] = at[u] /\ job'[u] = job[u]
    BY <1>3, SpawnMoves
  <2>2. ClosersStay
    BY <1>w, <2>1 DEF ClosersStay, BeforeObserver, InSlot
  <2> QED
    BY <1>3, <2>2 DEF Spawn
<1>4. ASSUME Begin(t) PROVE /\ ClosersStay /\ UNCHANGED <<observer_closed, closed, closing, call>>
                            /\ active' = active \/ ~observer_closed
  <2>1. /\ at'[t] \in {"await", "unsatisfied"} /\ InSlot(t)
        /\ \A u \in Threads \ {t} : at'[u] = at[u] /\ job'[u] = job[u]
    BY <1>4, BeginMoves DEF InSlot
  <2>2. ClosersStay
    BY <2>1, OneThreadMoves
  <2>3. /\ UNCHANGED <<observer_closed, call>>
        /\ active' = active \/ ~observer_closed
    BY <1>4, BeginMoves DEF StartSession, MayStart
  <2> QED
    BY <1>4, <2>2, <2>3 DEF Begin
<1>5. ASSUME Receive(t) PROVE ClosersStay /\ UNCHANGED <<observer, closed, closing>>
  <2>1. /\ at[t] = "await" /\ at'[t] \in {"await", "satisfied", "unsatisfied"}
        /\ \A u \in Threads \ {t} : at'[u] = at[u] /\ job'[u] = job[u]
    BY <1>5, ReceiveMoves
  <2>2. UNCHANGED <<observer, closed, closing>>
    BY <1>5 DEF Receive
  <2> QED
    BY <2>1, <2>2, OneThreadMoves DEF InSlot
<1>6. ASSUME TimeOut(t) PROVE ClosersStay /\ UNCHANGED <<observer, closed, closing>>
  BY <1>6, UnsatisfiedMoves, OneThreadMoves DEF TimeOut, InSlot
<1>7. ASSUME Adopt(t) PROVE ClosersStay /\ UNCHANGED <<observer, closed, closing>>
  BY <1>7, AdoptMoves, OneThreadMoves DEF Adopt, InSlot
<1>8. ASSUME Judge(t) PROVE ClosersStay /\ UNCHANGED <<observer, closed, closing>>
  BY <1>8, JudgeMoves, OneThreadMoves DEF Judge, InSlot
<1>9. ASSUME End(t) \/ Exhaust(t) PROVE ClosersStay /\ UNCHANGED <<observer, closed, closing>>
  <2>1. PICK step \in {"idle", "publish"} : EndCycle(t, step)
    BY <1>9 DEF End, Exhaust
  <2>2. UNCHANGED <<observer, closed, closing>>
    BY <1>9 DEF End, Exhaust
  <2>3. /\ at'[t] = step \/ (at'[t] = "cancel" /\ job'[t].then = step)
        /\ \A u \in Threads \ {t} : at'[u] = at[u] /\ job'[u] = job[u]
    BY <2>1, EndCycleMoves
  <2>4. ~InSlot(t)'
    BY <2>3 DEF InSlot
  <2>5. ClosersStay
    BY <2>3, <2>4, OneThreadMoves
  <2> QED
    BY <2>2, <2>5
<1>10. ASSUME Publish(t) PROVE ClosersStay /\ UNCHANGED <<observer, closed, closing>>
  BY <1>10, FinishMoves, OneThreadMoves DEF Publish, Moves, InSlot
<1>11. ASSUME Schedule(t) PROVE ClosersStay /\ UNCHANGED <<observer, closed, closing>>
  BY <1>11, GotoMoves, StepsTyped, OneThreadMoves DEF Schedule, InSlot
<1>12. ASSUME StoreToken(t) PROVE ClosersStay /\ UNCHANGED <<observer, closed, closing>>
  BY <1>12, StoreMoves, OneThreadMoves DEF StoreToken, InSlot
<1>13. ~(CloseObservation(t) \/ ObserverIsClosed(t) \/ Join(t))
  BY DEF CloseObservation, ObserverIsClosed, Join
<1> QED
  BY <1>1, <1>2, <1>3, <1>4, <1>5, <1>6, <1>7, <1>8, <1>9, <1>10, <1>11, <1>12, <1>13
     DEF Continue

\* A closed supervisor stays as it is, by and large.
LEMMA CloseStays ==
  ASSUME ClosingInv, ClosersStay, UNCHANGED <<observer_closed, closed, closing>>,
         observer_closed => active' \in {active, 0},
         \A u \in Threads : Closer(u) => call'[u] = call[u]
  PROVE  ClosingInv'
<1>1. \A u \in Threads : Closer(u)' => Closer(u) /\ job'[u].worker = job[u].worker
  BY DEF ClosersStay, Closer
<1>2. closing # "no" => \A w \in Workers : InSlot(w)' => InSlot(w)
  BY DEF ClosersStay, ClosingInv, OneCloser
<1>3. OneCloser'
  BY <1>1, <1>2 DEF ClosingInv, OneCloser
<1>4. CloserStopsObserver'
  <2>1. \A u \in Threads : BeforeObserver(u)' => ~observer_closed' /\ call'[u] = NoCall
    BY DEF ClosersStay, ClosingInv, CloserStopsObserver, Closer
  <2>2. ASSUME NEW u \in Threads, at'[u] = "closed observer"
        PROVE  /\ observer_closed'
               /\ \/ active' = 0
                  \/ call'[u].step = "stop"
                  \/ call'[u].step \in {"source", "join"} /\ call'[u].session = active'
    <3>1. at[u] = "closed observer" /\ Closer(u)
      BY <2>2 DEF ClosersStay, Closer
    <3> QED
      BY <3>1 DEF ClosingInv, CloserStopsObserver
  <2>3. (\E u \in Threads : at'[u] = "join") \/ closing' \in {"returned", "raised"} =>
          observer_closed' /\ active' = 0
    BY DEF ClosersStay, ClosingInv, CloserStopsObserver
  <2> QED
    BY <2>1, <2>2, <2>3 DEF ClosingInv, CloserStopsObserver
<1> QED
  BY <1>3, <1>4 DEF ClosingInv

\* The steps of close() itself.
LEMMA CloseKeepsClosing ==
  ASSUME TypeOK, SlotInv, ClosingInv, NEW t \in Clients, Close(t)
  PROVE  ClosingInv'
<1>1. /\ t \in Threads /\ at[t] = "idle" /\ call[t] = NoCall /\ ~closed
      /\ closed' = TRUE /\ closing' = "running" /\ UNCHANGED <<observer_closed, active, call>>
      /\ attempt_thread \in Workers \cup {NoThread}
  BY DEF Close, Idle, Threads, observer, TypeOK
<1>2. ~observer_closed /\ closing = "no" /\ \A u \in Threads : ~Closer(u)
  BY <1>1 DEF ClosingInv, OneCloser, CloserStopsObserver
<1>3. /\ \A u \in Threads \ {t} : at'[u] = at[u] /\ job'[u] = job[u]
      /\ job'[t].worker = attempt_thread
      /\ at'[t] = "observer" \/ (at'[t] = "cancel" /\ job'[t].then = "observer")
  BY <1>1, CloseMoves DEF Moves
<1>4. \A u \in Threads : Closer(u)' => u = t
  BY <1>2, <1>3 DEF Closer, BeforeObserver
<1>5. \A w \in Workers : InSlot(w)' => job'[t].worker = w
  <2>1. \A w \in Workers : w \in Threads /\ (InSlot(w)' => InSlot(w))
    BY <1>1, <1>3 DEF InSlot, Threads
  <2> QED
    BY <1>3, <2>1 DEF SlotInv
<1>6. OneCloser'
  BY <1>1, <1>4, <1>5 DEF OneCloser
<1>7. CloserStopsObserver'
  <2>1. \A u \in Threads : at'[u] \notin {"closed observer", "join"}
    BY <1>2, <1>3 DEF Closer
  <2>2. \A u \in Threads : BeforeObserver(u)' => u = t
    BY <1>4 DEF Closer
  <2> QED
    BY <1>1, <1>2, <2>1, <2>2 DEF CloserStopsObserver
<1> QED
  BY <1>6, <1>7 DEF ClosingInv

LEMMA CloserKeepsClosing ==
  ASSUME TypeOK, ObserverInv, ClosingInv, NEW t \in Threads,
         CloseObservation(t) \/ ObserverIsClosed(t) \/ Join(t)
  PROVE  ClosingInv'
<1> USE DEF lifecycle
<1>1. /\ Closer(t) /\ t \in Clients /\ closing = "running" /\ closed
      /\ \A u \in Threads : Closer(u) => u = t
      /\ \A w \in Workers : InSlot(w) => job[t].worker = w
  BY DEF CloseObservation, ObserverIsClosed, Join, Closer, BeforeObserver, ClosingInv, OneCloser
<1>2. /\ at'[t] \in {"closed observer", "join", "idle"}
      /\ \A u \in Threads \ {t} : at'[u] = at[u] /\ job'[u] = job[u]
  BY GotoMoves, FinishMoves, StepsTyped DEF CloseObservation, ObserverIsClosed, Join, Moves
<1>3. \A u \in Threads : Closer(u)' => u = t
  BY <1>1, <1>2 DEF Closer, BeforeObserver
<1>4. \A w \in Workers : w \in Threads /\ (InSlot(w)' => InSlot(w))
  BY <1>2 DEF InSlot, Threads
<1>5. ASSUME CloseObservation(t) PROVE ClosingInv'
  <2>1. /\ at[t] = "observer" /\ at'[t] = "closed observer" /\ job' = job
        /\ closed' = closed /\ closing' = closing
    BY <1>5, GotoMoves, StepsTyped DEF CloseObservation
  <2>2. OneCloser'
    BY <1>1, <1>3, <1>4, <2>1 DEF ClosingInv, OneCloser
  <2>3. ~observer_closed
    BY <2>1 DEF ClosingInv, CloserStopsObserver, BeforeObserver
  <2>4. observer_closed' /\ call'[t].step = "stop"
    BY <1>1, <1>5, <2>3 DEF CloseObservation, CloseObserver, TypeOK, ObserverTypeOK, Calls
  <2>5. CloserStopsObserver'
    BY <1>1, <1>3, <2>1, <2>4 DEF CloserStopsObserver, Closer, BeforeObserver
  <2> QED
    BY <2>2, <2>5 DEF ClosingInv
<1>6. ASSUME ObserverIsClosed(t) PROVE ClosingInv'
  <2>1. /\ at[t] = "closed observer" /\ at'[t] = "join" /\ job' = job /\ call[t] = NoCall
        /\ closed' = closed /\ closing' = closing
        /\ UNCHANGED <<observer_closed, active, call>>
    BY <1>6, GotoMoves, StepsTyped DEF ObserverIsClosed, observer
  <2>2. OneCloser'
    BY <1>1, <1>3, <1>4, <2>1 DEF ClosingInv, OneCloser
  <2>3. observer_closed /\ active = 0
    <3>1. NoCall.step = "idle"
      BY DEF NoCall
    <3>2. call[t].step = "idle"
      BY <2>1, <3>1
    <3> QED
      BY <2>1, <3>2 DEF ClosingInv, CloserStopsObserver
  <2>4. CloserStopsObserver'
    BY <1>1, <1>3, <2>1, <2>3 DEF CloserStopsObserver, Closer, BeforeObserver
  <2> QED
    BY <2>2, <2>4 DEF ClosingInv
<1>7. ASSUME Join(t) PROVE ClosingInv'
  <2>1. /\ at[t] = "join" /\ at'[t] = "idle" /\ closed' = closed
        /\ closing' \in {"returned", "raised"}
        /\ UNCHANGED <<observer_closed, active, call>>
    BY <1>7, FinishMoves DEF Join, Moves, observer
  <2>2. observer_closed /\ active = 0
    BY <2>1 DEF ClosingInv, CloserStopsObserver
  <2>3. \A u \in Threads : ~Closer(u)'
    BY <1>3, <2>1 DEF Closer, BeforeObserver
  <2>4. closing' = "returned" => \A w \in Workers : ~InSlot(w)'
    <3>1. closing' = "returned" => job[t].worker = NoThread \/ at[job[t].worker] = "idle"
      BY <1>7 DEF Join
    <3>2. \A w \in Workers : w # NoThread
      BY ThreadsAssumption DEF Threads
    <3> QED
      BY <1>1, <1>4, <3>1, <3>2 DEF InSlot
  <2>5. OneCloser'
    BY <1>1, <2>1, <2>3, <2>4 DEF OneCloser
  <2>6. CloserStopsObserver'
    BY <1>1, <2>1, <2>2, <2>3 DEF CloserStopsObserver, Closer
  <2> QED
    BY <2>5, <2>6 DEF ClosingInv
<1> QED
  BY <1>5, <1>6, <1>7

LEMMA ActiveIsSession == ASSUME ObserverTypeOK PROVE active \in Sessions \cup {0}
<1>1. MaxGeneration \in Nat /\ active \in 0 .. MaxGeneration
  BY GenerationsAssumption DEF ObserverTypeOK
<1> QED
  BY <1>1 DEF Sessions

\* What close() has asked of the observer it goes through with.
LEMMA ObserverCallKeepsClosing ==
  ASSUME TypeOK, ObserverInv, ClosingInv, NEW t \in Clients, ObserverCall(t)
  PROVE  ClosingInv'
<1> USE DEF lifecycle
<1>1. /\ t \in Threads /\ UNCHANGED <<at, job, closed, closing, observer_closed, active>>
      /\ call[t] \in Calls /\ call \in [Clients -> Calls]
      /\ \A u \in Threads : Closer(u) => u \in Clients
      /\ \A u \in Clients \ {t} : call'[u] = call[u]
  BY DEF ObserverCall, Stop, StopActive, ReadActive, CloseSource, JoinSession, Threads, TypeOK,
     ObserverTypeOK, ClosingInv, OneCloser
<1>2. OneCloser'
  BY <1>1 DEF ClosingInv, OneCloser, Closer, BeforeObserver, InSlot
<1>3. ~BeforeObserver(t)
  <2>1. BeforeObserver(t) => at[t] # "idle" /\ call[t] = NoCall
    BY <1>1 DEF ClosingInv, CloserStopsObserver, BeforeObserver
  <2>2. NoCall.step = "idle"
    BY DEF NoCall
  <2>3. at[t] = "idle" \/ call[t].step # "idle"
    BY DEF ObserverCall, Idle, StopActive, CloseSource, JoinSession
  <2> QED
    BY <2>1, <2>2, <2>3
<1>4. at[t] = "closed observer" =>
        \/ active = 0
        \/ call'[t].step = "stop"
        \/ call'[t].step \in {"source", "join"} /\ call'[t].session = active
  <2> SUFFICES ASSUME at[t] = "closed observer"
               PROVE  \/ active = 0
                      \/ call'[t].step \in {"source", "join"} /\ call'[t].session = active
    OBVIOUS
  <2>u. \/ active = 0
        \/ call[t].step = "stop"
        \/ call[t].step \in {"source", "join"} /\ call[t].session = active
    BY <1>1 DEF ClosingInv, CloserStopsObserver
  <2>1. CASE ReadActive(t)
    BY <1>1, <2>1 DEF ReadActive
  <2>2. CASE CloseSource(t)
    <3>1. call'[t].step = "join" /\ call'[t].session = call[t].session /\ call[t].step = "source"
      BY <1>1, <2>2 DEF CloseSource, Calls
    <3> QED
      BY <3>1, <2>u
  <2>3. CASE JoinSession(t)
    <3>1. call[t].step = "join" /\ stage[call[t].session] = "ended"
      BY <2>3 DEF JoinSession
    <3>2. active # 0 => call[t].session = active
      BY <3>1, <2>u
    <3>3. active \in Sessions \cup {0}
      BY ActiveIsSession DEF ObserverInv
    <3>4. active # 0 => stage[active] # "ended"
      BY <3>3 DEF ObserverInv, OneGeneration
    <3> QED
      BY <3>1, <3>2, <3>4
  <2> QED
    BY <2>1, <2>2, <2>3 DEF ObserverCall, Idle, Stop, StopActive
<1>5. CloserStopsObserver'
  BY <1>1, <1>3, <1>4 DEF ClosingInv, CloserStopsObserver, Closer, BeforeObserver
<1> QED
  BY <1>2, <1>5 DEF ClosingInv

LEMMA NextKeepsClosing ==
  ASSUME TypeOK, ObserverInv, CyclesFollowSessions, BatonInv, SlotInv, ClosingInv, [Next]_vars
  PROVE  ClosingInv'
<1> USE DEF recovery, lifecycle, timers, history
<1>u. ASSUME UNCHANGED <<at, job>> PROVE ClosersStay
  BY <1>u DEF ClosersStay, BeforeObserver, InSlot
<1>1. ASSUME NEW t \in Clients, Start(t) PROVE ClosingInv'
  <2>1. /\ at'[t] = "begin" /\ t \in Threads /\ t \notin Workers
        /\ \A u \in Threads \ {t} : at'[u] = at[u] /\ job'[u] = job[u]
    BY <1>1, StartMoves, ThreadsAssumption DEF Moves, Threads, BatonInv
  <2>2. ClosersStay
    BY <2>1, OneThreadMoves
  <2> QED
    BY <1>1, <2>2, CloseStays DEF Start, observer
<1>2. ASSUME NEW t \in Clients, Close(t) PROVE ClosingInv'
  BY <1>2, CloseKeepsClosing
<1>3. ASSUME NEW t \in Clients, ObserverCall(t) PROVE ClosingInv'
  BY <1>3, ObserverCallKeepsClosing
<1>4. ASSUME NEW t \in Threads, Continue(t) PROVE ClosingInv'
  <2>1. CASE at[t] \notin {"observer", "closed observer", "join"}
    BY <1>4, <2>1, ContinueLeavesClose, CloseStays
  <2>2. CASE at[t] \in {"observer", "closed observer", "join"}
    <3>1. CloseObservation(t) \/ ObserverIsClosed(t) \/ Join(t)
      <4>1. ~(Cancel(t) \/ Launch(t) \/ Spawn(t) \/ Begin(t) \/ TimeOut(t) \/ Adopt(t) \/ Judge(t))
        BY <2>2 DEF Cancel, Launch, Spawn, Begin, TimeOut, Adopt, Judge
      <4>2. ~Receive(t)
        BY <2>2, ReceiveMoves
      <4>3. ~(End(t) \/ Exhaust(t) \/ Publish(t) \/ Schedule(t) \/ StoreToken(t))
        BY <2>2 DEF End, Exhaust, Publish, Schedule, StoreToken
      <4> QED
        BY <1>4, <4>1, <4>2, <4>3 DEF Continue
    <3> QED
      BY <3>1, CloserKeepsClosing
  <2> QED
    BY <2>1, <2>2
<1>5. ASSUME NEW r \in Retries, RetryFires(r) PROVE ClosingInv'
  BY <1>5, <1>u, CloseStays DEF RetryFires, observer
<1>6. ASSUME NEW b \in BusThreads, NEW r \in Retries, OnRetryDue(b, r) PROVE ClosingInv'
  <2>1. r \in due /\ UNCHANGED <<observer, closed, closing>>
    BY <1>6 DEF OnRetryDue
  <2>2. CASE Current(r.cycle)
    <3>1. at'[b] = "launch" /\ \A u \in Threads \ {b} : at'[u] = at[u] /\ job'[u] = job[u]
      BY <1>6, <2>1, <2>2, RetryMoves DEF Moves
    <3>2. b \in Threads /\ b \notin Workers
      BY ThreadsAssumption DEF Threads
    <3>3. ClosersStay
      BY <3>1, <3>2, OneThreadMoves
    <3> QED
      BY <2>1, <3>3, CloseStays DEF observer
  <2>3. CASE ~Current(r.cycle)
    BY <1>6, <1>u, <2>1, <2>3, CloseStays DEF OnRetryDue, observer
  <2> QED
    BY <2>2, <2>3
<1>7. ASSUME NEW g \in Sessions, SessionStarts(g) \/ SessionRuns(g) \/ SessionEnds(g)
      PROVE  UNCHANGED <<observer_closed, call, closed, closing>> /\ active' \in {active, 0}
  BY <1>7 DEF SessionStarts, SessionRuns, SessionEnds, PublishStarted, PublishRaises, Open, Stream,
     MarkInactive, PublishTerminal, Unwind, Move
<1>8. ASSUME NEW g \in Sessions, SessionStarts(g) \/ SessionRuns(g) PROVE ClosingInv'
  <2>1. UNCHANGED <<at, job>>
    BY <1>8 DEF SessionStarts, SessionRuns
  <2> QED
    BY <1>7, <1>8, <1>u, <2>1, CloseStays
<1>9. ASSUME NEW g \in Sessions, SessionEnds(g) PROVE ClosingInv'
  <2>1. CASE Matters(g)
    <3>1. at'[g] = "launch" /\ \A u \in Threads \ {g} : at'[u] = at[u] /\ job'[u] = job[u]
      BY <1>9, <2>1, FailureMoves DEF Moves
    <3>2. g \in Threads /\ g \notin Workers
      BY ThreadsAssumption DEF Threads
    <3>3. ClosersStay
      BY <3>1, <3>2, OneThreadMoves
    <3> QED
      BY <1>7, <1>9, <3>3, CloseStays
  <2>2. CASE ~Matters(g)
    <3>1. UNCHANGED <<at, job>>
      BY <1>9, <2>2 DEF SessionEnds
    <3> QED
      BY <1>7, <1>9, <1>u, <3>1, CloseStays
  <2> QED
    BY <2>1, <2>2
<1>10. CASE UNCHANGED vars
  BY <1>10, <1>u, CloseStays DEF vars, observer
<1> QED
  BY <1>1, <1>2, <1>3, <1>4, <1>5, <1>6, <1>8, <1>9, <1>10 DEF Next, Rest

-----------------------------------------------------------------------------
(***************************************************************************)
(* The invariant, and what follows from it.                                *)
(***************************************************************************)
CyclesInv ==
  /\ TypeOK /\ ObserverInv
  /\ CyclesFollowSessions /\ BatonInv /\ SlotInv /\ EpisodesInv /\ ClosingInv

LEMMA CyclesInvInitially == Init => CyclesInv
<1> SUFFICES ASSUME Init PROVE CyclesInv
  OBVIOUS
<1>1. TypeOK /\ ObserverInv
  BY InitTyped, ObserverInvInitially
<1>2. /\ at = [t \in Threads |-> "idle"] /\ job = [t \in Threads |-> NoJob]
      /\ inbox = [t \in Threads |-> <<>>]
      /\ cycle_id = 0 /\ cycles = 0 /\ attempt_thread = NoThread
      /\ scheduled = {} /\ due = {} /\ closed = FALSE /\ closing = "no"
      /\ terminal = [g \in Sessions |-> "none"] /\ observer_closed = FALSE
  BY DEF Init, ObserverInit
<1>3. \A t \in Threads : at[t] = "idle" /\ Len(inbox[t]) = 0
  BY <1>2
<1>4. BatonInv
  BY <1>2, <1>3 DEF BatonInv, LastCycleOnly, OneBaton, Nobody, Driving, Pending
<1>5. SlotInv
  <2>1. \A w \in Workers : w \in Threads /\ w # NoThread
    BY ThreadsAssumption DEF Threads
  <2> QED
    BY <1>2, <1>3, <2>1 DEF SlotInv, InSlot
<1>6. EpisodesInv
  BY <1>3 DEF EpisodesInv
<1>7. ClosingInv
  BY <1>2, <1>3 DEF ClosingInv, OneCloser, CloserStopsObserver, BeforeObserver, Closer
<1>8. CyclesFollowSessions
  <2>1. current = generation /\ generation \in {0, 1}
    BY DEF Init, ObserverInit
  <2>2. \A g \in Sessions : stage[g] # "publishing"
    BY DEF Init, ObserverInit
  <2> QED
    BY <1>2, <2>1, <2>2 DEF CyclesFollowSessions
<1> QED
  BY <1>1, <1>4, <1>5, <1>6, <1>7, <1>8 DEF CyclesInv

LEMMA CyclesInvKept == CyclesInv /\ [Next]_vars => CyclesInv'
<1> SUFFICES ASSUME CyclesInv, [Next]_vars PROVE CyclesInv'
  OBVIOUS
<1>1. /\ TypeOK /\ ObserverInv
      /\ CyclesFollowSessions /\ BatonInv /\ SlotInv /\ EpisodesInv /\ ClosingInv
  BY DEF CyclesInv
<1>2. ObserverInv' /\ ObserverTypeOK'
  BY <1>1, ObserverInvKept DEF ObserverInv
<1>3. TypeOK'
  BY <1>1, <1>2, NextTyped DEF BatonInv
<1>4. CyclesFollowSessions' /\ EpisodesInv'
  BY <1>1, NextKeepsNumbers, NextKeepsEpisodes
<1>5. BatonInv' /\ SlotInv'
  BY <1>1, NextKeepsBaton, NextKeepsSlot
<1>6. ClosingInv'
  BY <1>1, NextKeepsClosing
<1> QED
  BY <1>2, <1>3, <1>4, <1>5, <1>6 DEF CyclesInv

LEMMA CyclesInvariant == Spec => []CyclesInv
BY CyclesInvInitially, CyclesInvKept, PTL DEF Spec

\* Every variable of AdbDevicesObservationSupervisor and of its observer keeps its
\* type.  That `cycles` stays within its bound is not by a guard: each session opens
\* one cycle at most.
THEOREM ObservationTypeCorrect == Spec => []TypeOK
<1>1. CyclesInv => TypeOK
  BY DEF CyclesInv
<1> QED
  BY <1>1, CyclesInvariant, PTL

\* No two threads of AdbDevicesObservationSupervisor run an establishment episode at
\* once, and a cycle is taken further by one thread or one pending retry, never by two.
THEOREM OneDriverOfACycle == Spec => []OneDriver
<1>1. ASSUME CyclesInv PROVE OneDriver
  <2>1. OneBaton
    BY <1>1 DEF CyclesInv, BatonInv
  <2>2. \A t \in Threads : Establishing(t) => Driving(t)
    BY DEF Establishing, Driving
  <2>3. \A t \in Threads : \A c \in Cycles : Drives(t, c) => Driving(t)
    BY DEF Drives, Establishing, Driving
  <2>4. \A r \in scheduled \cup due, t \in Threads : ~Drives(t, r.cycle)
    BY <2>1 DEF OneBaton, Pending, Drives, Establishing, Driving
  <2> QED
    BY <2>1, <2>2, <2>3, <2>4 DEF OneDriver, OneBaton, Pending
<1> QED
  BY <1>1, CyclesInvariant, PTL

\* When _launch_establishment_attempt runs for the live cycle, _attempt_thread is None:
\* its early return drops only what nobody needs any more.
THEOREM SlotIsFreeForTheLiveCycle == Spec => []SlotIsFree
<1>1. ASSUME CyclesInv PROVE SlotIsFree
  <2>1. SUFFICES ASSUME NEW t \in Threads, at[t] = "launch", attempt_thread # NoThread PROVE FALSE
    BY DEF SlotIsFree
  <2>2. PICK w \in Workers : InSlot(w) /\ w \in Threads
    BY <1>1, <2>1 DEF CyclesInv, TypeOK, SlotInv, Threads
  <2>3. Driving(t) /\ Driving(w)
    BY <2>1, <2>2 DEF Driving, InSlot
  <2>4. t = w
    BY <1>1, <2>2, <2>3 DEF CyclesInv, BatonInv, OneBaton
  <2> QED
    BY <2>1, <2>2, <2>4 DEF InSlot
<1> QED
  BY <1>1, CyclesInvariant, PTL

\* When AdbDevicesObservationSupervisor.close() has returned, the observer has no
\* session and no attempt thread is in an episode.
THEOREM CloseLeavesNothing == Spec => []CloseEndsObservation
<1>1. ASSUME CyclesInv PROVE CloseEndsObservation
  <2>1. closing = "returned" => active = 0
    BY <1>1 DEF CyclesInv, ClosingInv, CloserStopsObserver
  <2>2. closing = "returned" => \A w \in Workers : ~Establishing(w)
    BY <1>1 DEF CyclesInv, ClosingInv, OneCloser, InSlot, Establishing
  <2> QED
    BY <2>1, <2>2 DEF CloseEndsObservation
<1> QED
  BY <1>1, CyclesInvariant, PTL

\* _current_session_id is only ever replaced by a later session that has started, on
\* behalf of the live cycle of an open supervisor.
THEOREM AdoptionOnlyAdvances == Spec => AdoptionAdvances
<1>1. ASSUME CyclesInv, [Next]_vars, current' # current
      PROVE  /\ current' > current
             /\ stage[current'] \notin {"none", "opening"}
             /\ ~closed /\ cycle_id # 0
  <2>1. PICK t \in Threads : Adopt(t)
    BY <1>1, OnlyAdoptionReplaces
  <2> QED
    BY <1>1, <2>1, AdoptedIsNewer DEF CyclesInv, Opened
<1>2. CyclesInv /\ [Next]_vars =>
        [current' # current =>
           /\ current' > current
           /\ stage[current'] \notin {"none", "opening"}
           /\ ~closed /\ cycle_id # 0]_vars
  BY <1>1
<1> QED
  BY <1>2, CyclesInvariant, PTL DEF Spec, AdoptionAdvances

-----------------------------------------------------------------------------
(***************************************************************************)
(* The retries of a live cycle, when a retry delay outlasts the statements *)
(* between schedule_after and the store of its token.                      *)
(***************************************************************************)

\* Between schedule_after and the block that stores its token, for the live cycle.
Storing(t) == at[t] = "store" /\ job[t].cycle = cycle_id

\* The stored token is that of the pending retry of the live cycle; what is being
\* cancelled belongs to an earlier one.
RetriesInv ==
  /\ retry_token # NoRetry =>
       cycle_id # 0 /\ retry_token.cycle = cycle_id /\ retry_token \in Pending
  /\ \A t \in Threads : at[t] = "cancel" =>
       job[t].token.cycle <= cycles /\ (cycle_id # 0 => job[t].token.cycle # cycle_id)
  /\ \A t \in Threads : at[t] = "store" => job[t].cycle # 0 /\ job[t].cycle <= cycles
  /\ \A t \in Threads : Storing(t) => NextRetry(t) \in scheduled /\ retry_token = NoRetry
  /\ \A t, u \in Threads : Storing(t) /\ Storing(u) => t = u

CycleIsDriven == cycle_id # 0 => ~Nobody

\* No retry is scheduled, stored or taken away from under the live cycle.
LEMMA RetriesStay ==
  ASSUME TypeOK, BatonInv, RetriesInv,
         \A u \in Threads : at'[u] = "cancel" =>
           \/ at[u] = "cancel" /\ job'[u].token = job[u].token
           \/ cycle_id' = 0 /\ job'[u].token = retry_token /\ retry_token # NoRetry,
         \A u \in Threads : at'[u] = "store" => at[u] = "store" /\ job'[u] = job[u],
         \/ cycles' = cycles /\ cycle_id' \in {cycle_id, 0}
         \/ cycles' = cycles + 1 /\ cycle_id' = cycles + 1,
         retry_token' = NoRetry \/ (retry_token' = retry_token /\ cycle_id' = cycle_id),
         \A r \in scheduled : r.cycle = cycle_id => r \in scheduled',
         retry_token' # NoRetry /\ retry_token \in due => retry_token \in due'
  PROVE  RetriesInv'
<1>1. cycles \in Nat /\ cycle_id \in Nat /\ cycle_id <= cycles
  BY GenerationsAssumption DEF TypeOK, Cycles, BatonInv, LastCycleOnly
<1>2. retry_token' # NoRetry =>
        cycle_id' # 0 /\ retry_token'.cycle = cycle_id' /\ retry_token' \in Pending'
  BY DEF RetriesInv, Pending
<1>3. retry_token # NoRetry => retry_token.cycle <= cycles
  BY <1>1 DEF RetriesInv
<1>4. ASSUME NEW u \in Threads, at'[u] = "cancel"
      PROVE  job'[u].token.cycle <= cycles' /\ (cycle_id' # 0 => job'[u].token.cycle # cycle_id')
  <2>1. job'[u].token.cycle <= cycles /\ (cycle_id # 0 /\ cycle_id' # 0 => job'[u].token.cycle # cycle_id)
    BY <1>3, <1>4 DEF RetriesInv
  <2>2. CASE at[u] = "cancel" /\ job'[u].token = job[u].token
    <3>1. job[u].token.cycle \in Nat
      BY Locals
    <3> QED
      BY <1>1, <2>1, <2>2, <3>1
  <2>3. CASE cycle_id' = 0 /\ job'[u].token = retry_token
    BY <1>1, <2>1, <2>3
  <2> QED
    BY <1>4, <2>2, <2>3
<1>5. ASSUME NEW u \in Threads, at'[u] = "store"
      PROVE  /\ job'[u].cycle # 0 /\ job'[u].cycle <= cycles'
             /\ Storing(u)' => Storing(u) /\ NextRetry(u)' = NextRetry(u) /\ cycle_id' = cycle_id
  <2>1. /\ job'[u] = job[u] /\ at[u] = "store" /\ job[u].cycle \in Nat
        /\ job[u].cycle # 0 /\ job[u].cycle <= cycles
    BY <1>5, Locals DEF RetriesInv
  <2>2. NextRetry(u)' = NextRetry(u)
    BY <2>1 DEF NextRetry
  <2> QED
    BY <1>1, <2>1, <2>2 DEF Storing
<1>6. \A u \in Threads : Storing(u)' => Storing(u) /\ NextRetry(u)' = NextRetry(u) /\ cycle_id' = cycle_id
  BY <1>5 DEF Storing
<1>7. \A u \in Threads : Storing(u)' => NextRetry(u)' \in scheduled' /\ retry_token' = NoRetry
  <2>1. \A u \in Threads : Storing(u) => NextRetry(u) \in scheduled /\ NextRetry(u).cycle = cycle_id
    BY Locals DEF RetriesInv, Storing
  <2> QED
    BY <1>6, <2>1 DEF RetriesInv
<1> QED
  BY <1>2, <1>4, <1>5, <1>6, <1>7 DEF RetriesInv

\* Nobody who has the baton of a live cycle puts it down.
LEMMA DrivenStays ==
  ASSUME CycleIsDriven, cycle_id' \in {cycle_id, 0},
         \A u \in Threads : Driving(u) => Driving(u)',
         \A r \in Pending : r \in scheduled' \cup due'
  PROVE  CycleIsDriven'
BY DEF CycleIsDriven, Nobody, Pending

\* A step of one thread that has nothing to do with retries.
LEMMA RetriesLeft ==
  ASSUME TypeOK, BatonInv, RetriesInv, CycleIsDriven, NEW t \in Threads,
         \A u \in Threads \ {t} : at'[u] = at[u] /\ job'[u] = job[u],
         at'[t] \notin {"cancel", "store"},
         Driving(t) => Driving(t)' \/ cycle_id = 0,
         UNCHANGED <<cycle_id, cycles, retry_token, scheduled, due>>
  PROVE  RetriesInv' /\ CycleIsDriven'
<1>1. RetriesInv'
  BY RetriesStay
<1>2. \A u \in Threads \ {t} : Driving(u) => Driving(u)'
  BY DEF Driving
<1>3. CASE cycle_id = 0
  BY <1>1, <1>3 DEF CycleIsDriven
<1>4. CASE cycle_id # 0
  <2>1. \A u \in Threads : Driving(u) => Driving(u)'
    BY <1>2, <1>4
  <2> QED
    BY <1>1, <2>1, DrivenStays DEF Pending
<1> QED
  BY <1>3, <1>4

LEMMA ContinueKeepsRetries ==
  ASSUME TypeOK, BatonInv, SlotInv, RetriesInv, CycleIsDriven, NEW t \in Threads, Continue(t)
  PROVE  RetriesInv' /\ CycleIsDriven'
<1> USE DEF recovery, lifecycle, timers, history
<1>c. /\ closed => cycle_id = 0
      /\ cycle_id # 0 => cycle_id = cycles
      /\ \A u \in Threads : Driving(u) => job[u].cycle = cycles /\ cycles # 0 /\ Pending = {}
      /\ \A r \in Pending : r.cycle = cycles
      /\ \A u \in Threads : Driving(u) /\ Driving(t) => u = t
  BY DEF BatonInv, LastCycleOnly, OneBaton
<1>d. Driving(t) /\ ~Current(job[t].cycle) => cycle_id = 0
  BY <1>c DEF Current
<1>1. ASSUME Cancel(t) PROVE RetriesInv' /\ CycleIsDriven'
  <2>1. /\ at[t] = "cancel" /\ at'[t] \in {"publish", "observer", "idle"}
        /\ \A u \in Threads \ {t} : at'[u] = at[u] /\ job'[u] = job[u]
        /\ scheduled' = scheduled \ {job[t].token}
        /\ UNCHANGED <<cycle_id, cycles, retry_token, due>>
    BY <1>1, CancelMoves DEF Cancel
  <2>2. cycle_id # 0 => job[t].token.cycle # cycle_id
    BY <2>1 DEF RetriesInv
  <2>3. retry_token # NoRetry => cycle_id # 0
    BY DEF RetriesInv
  <2>4. \A r \in scheduled : r.cycle = cycle_id => r \in scheduled'
    <3>1. ASSUME NEW r \in scheduled, r.cycle = cycle_id PROVE cycle_id # 0
      BY <1>c, <3>1 DEF BatonInv, LastCycleOnly, Pending
    <3> QED
      BY <2>1, <2>2, <3>1
  <2>5. RetriesInv'
    BY <2>1, <2>4, RetriesStay
  <2>6. CASE cycle_id = 0
    BY <2>1, <2>5, <2>6 DEF CycleIsDriven
  <2>7. CASE cycle_id # 0
    <3>1. \A u \in Threads : Driving(u) => Driving(u)'
      BY <2>1 DEF Driving
    <3>2. \A r \in Pending : r \in scheduled' \cup due'
      BY <1>c, <2>1, <2>4, <2>7 DEF Pending
    <3> QED
      BY <2>1, <2>5, <3>1, <3>2, DrivenStays
  <2> QED
    BY <2>6, <2>7
<1>2. ASSUME Launch(t) PROVE RetriesInv' /\ CycleIsDriven'
  <2>1. UNCHANGED <<cycle_id, cycles, retry_token, scheduled, due>> /\ at[t] = "launch" /\ Driving(t)
    BY <1>2 DEF Launch, Driving
  <2>2. CASE Current(job[t].cycle) /\ attempt_thread = NoThread
    <3>1. PICK w \in Workers :
           /\ w \in Threads /\ at'[t] = "spawn" /\ at'[w] = "registered"
           /\ \A u \in Threads \ {t, w} : at'[u] = at[u] /\ job'[u] = job[u]
      BY <1>2, <2>2, LaunchMoves
    <3>2. RetriesInv'
      BY <2>1, <3>1, RetriesStay
    <3>3. CycleIsDriven'
      BY <3>1 DEF CycleIsDriven, Nobody, Driving
    <3> QED
      BY <3>2, <3>3
  <2>3. CASE ~(Current(job[t].cycle) /\ attempt_thread = NoThread)
    <3>1. Moves(t, "idle", NoJob)
      BY <1>2, <2>3, FinishMoves DEF Launch
    <3>2. attempt_thread = NoThread
      <4>1. SUFFICES ASSUME attempt_thread \in Workers PROVE FALSE
        BY DEF TypeOK
      <4>2. InSlot(attempt_thread) /\ attempt_thread \in Threads
        BY <4>1 DEF SlotInv, Threads
      <4>3. Driving(attempt_thread)
        BY <4>2 DEF InSlot, Driving
      <4>4. attempt_thread = t
        BY <1>c, <2>1, <4>2, <4>3
      <4> QED
        BY <2>1, <4>2, <4>4 DEF InSlot
    <3>3. cycle_id = 0
      BY <1>d, <2>1, <2>3, <3>2
    <3> QED
      BY <2>1, <3>1, <3>3, RetriesLeft DEF Moves
  <2> QED
    BY <2>2, <2>3
<1>3. ASSUME Spawn(t) PROVE RetriesInv' /\ CycleIsDriven'
  <2>1. PICK w \in Workers :
         /\ w \in Threads /\ at[t] = "spawn" /\ at'[t] = "idle" /\ at'[w] = "begin"
         /\ \A u \in Threads \ {t, w} : at'[u] = at[u] /\ job'[u] = job[u]
    BY <1>3, SpawnMoves
  <2>2. UNCHANGED <<cycle_id, cycles, retry_token, scheduled, due>>
    BY <1>3 DEF Spawn
  <2>3. RetriesInv'
    BY <2>1, <2>2, RetriesStay
  <2>4. CycleIsDriven'
    BY <2>1 DEF CycleIsDriven, Nobody, Driving
  <2> QED
    BY <2>3, <2>4
<1>4. ASSUME Begin(t) PROVE RetriesInv' /\ CycleIsDriven'
  BY <1>4, RetriesLeft, BeginMoves DEF Begin, Driving
<1>5. ASSUME Receive(t) PROVE RetriesInv' /\ CycleIsDriven'
  <2>1. UNCHANGED <<cycle_id, cycles, retry_token, scheduled, due>>
    BY <1>5 DEF Receive
  <2>2. /\ at'[t] \in {"await", "satisfied", "unsatisfied"}
        /\ \A u \in Threads \ {t} : at'[u] = at[u] /\ job'[u] = job[u]
    BY <1>5, ReceiveMoves
  <2> QED
    BY <2>1, <2>2, RetriesLeft DEF Driving
<1>6. ASSUME TimeOut(t) PROVE RetriesInv' /\ CycleIsDriven'
  BY <1>6, RetriesLeft, UnsatisfiedMoves DEF TimeOut, Driving
<1>e. ASSUME \A u \in Threads \ {t} : at'[u] = at[u] /\ job'[u] = job[u],
             at'[t] # "store", cycle_id' = 0, retry_token' = NoRetry,
             at'[t] = "cancel" => job'[t].token = retry_token /\ retry_token # NoRetry,
             UNCHANGED <<cycles, scheduled, due>>
      PROVE  RetriesInv' /\ CycleIsDriven'
  BY <1>e, RetriesStay DEF CycleIsDriven
<1>7. ASSUME Adopt(t) PROVE RetriesInv' /\ CycleIsDriven'
  <2>1. UNCHANGED <<cycles, scheduled, due>> /\ at[t] = "satisfied" /\ Driving(t)
    BY <1>7 DEF Adopt, Driving
  <2>2. CASE Current(job[t].cycle)
    <3>1. cycle_id' = 0 /\ retry_token' = NoRetry
      BY <1>7, <2>2 DEF Adopt
    <3> QED
      BY <1>7, <1>e, <2>1, <3>1, AdoptMoves
  <2>3. CASE ~Current(job[t].cycle)
    <3>1. UNCHANGED <<cycle_id, retry_token>> /\ cycle_id = 0
      BY <1>7, <1>d, <2>1, <2>3 DEF Adopt
    <3> QED
      BY <1>7, <2>1, <2>3, <3>1, AdoptMoves, RetriesLeft
  <2> QED
    BY <2>2, <2>3
<1>8. ASSUME Judge(t) PROVE RetriesInv' /\ CycleIsDriven'
  <2>1. UNCHANGED <<cycle_id, cycles, retry_token, scheduled, due>> /\ at[t] = "unsatisfied" /\ Driving(t)
    BY <1>8 DEF Judge, Driving
  <2>2. at'[t] = "idle" => cycle_id = 0
    BY <1>8, <1>d, <2>1, JudgeMoves
  <2> QED
    BY <1>8, <2>1, <2>2, JudgeMoves, RetriesLeft DEF Driving
<1>9. ASSUME End(t) \/ Exhaust(t) PROVE RetriesInv' /\ CycleIsDriven'
  <2>1. /\ at[t] \in {"end", "retry"} /\ Driving(t)
        /\ UNCHANGED <<cycles, scheduled, due>>
    BY <1>9 DEF End, Exhaust, Driving
  <2>2. PICK step \in {"idle", "publish"} : EndCycle(t, step)
    BY <1>9 DEF End, Exhaust
  <2>3. CASE cycle_id = job[t].cycle
    BY <1>e, <2>1, <2>2, <2>3, EndCycleMoves
  <2>4. CASE cycle_id # job[t].cycle
    <3>1. cycle_id = 0
      BY <1>c, <2>1, <2>4
    <3> QED
      BY <2>1, <2>2, <2>4, <3>1, EndCycleMoves, RetriesLeft
  <2> QED
    BY <2>3, <2>4
<1>10. ASSUME Publish(t) PROVE RetriesInv' /\ CycleIsDriven'
  BY <1>10, FinishMoves, RetriesLeft DEF Publish, Moves, Driving
<1>11. ASSUME Schedule(t) PROVE RetriesInv' /\ CycleIsDriven'
  <2>1. /\ at[t] = "retry" /\ at'[t] = "store" /\ \A u \in Threads \ {t} : at'[u] = at[u]
        /\ scheduled' = scheduled \cup {NextRetry(t)} /\ job' = job
        /\ UNCHANGED <<cycle_id, cycles, retry_token, due>>
    BY <1>11, GotoMoves, StepsTyped DEF Schedule
  <2>2. Driving(t)
    BY <2>1 DEF Driving
  <2>3. job[t].cycle = cycles /\ cycles # 0 /\ Pending = {} /\ retry_token = NoRetry
    BY <1>c, <2>2 DEF RetriesInv
  <2>4. \A u \in Threads : ~Storing(u)
    BY <2>3 DEF RetriesInv, Pending
  <2>5. \A u \in Threads : Storing(u)' => u = t
    BY <2>1, <2>4 DEF Storing
  <2>6. NextRetry(t)' = NextRetry(t)
    BY <2>1 DEF NextRetry
  <2>7. cycles \in Nat
    BY DEF TypeOK, Cycles
  <2>8. \A u \in Threads : at'[u] = "store" => job'[u].cycle # 0 /\ job'[u].cycle <= cycles'
    BY <2>1, <2>3, <2>7 DEF RetriesInv
  <2>9. \A u \in Threads : at'[u] = "cancel" => at[u] = "cancel"
    BY <2>1
  <2>10. RetriesInv'
    BY <2>1, <2>3, <2>5, <2>6, <2>8, <2>9 DEF RetriesInv
  <2>11. CycleIsDriven'
    BY <2>1 DEF CycleIsDriven, Nobody, Pending
  <2> QED
    BY <2>10, <2>11
<1>12. ASSUME StoreToken(t) PROVE RetriesInv' /\ CycleIsDriven'
  <2>1. /\ at[t] = "store" /\ UNCHANGED <<cycle_id, cycles, due, closed>>
        /\ at'[t] \in {"idle", "cancel"}
        /\ \A u \in Threads \ {t} : at'[u] = at[u] /\ job'[u] = job[u]
    BY <1>12, StoreMoves DEF StoreToken
  <2>2. /\ \A u \in Threads : Driving(u) => Driving(u)'
        /\ NextRetry(t).cycle = job[t].cycle /\ job[t].cycle # 0
    BY <2>1, Locals DEF Driving, RetriesInv
  <2>3. CASE Current(job[t].cycle)
    <3>1. Storing(t) /\ NextRetry(t) \in scheduled /\ retry_token = NoRetry
      BY <2>1, <2>3 DEF RetriesInv, Storing, Current
    <3>2. at'[t] = "idle" /\ retry_token' = NextRetry(t) /\ scheduled' = scheduled
      BY <1>12, <2>3, <3>1, StoreMoves DEF StoreToken
    <3>3. \A u \in Threads : ~Storing(u)'
      BY <2>1, <3>1, <3>2 DEF Storing, RetriesInv
    <3>4. RetriesInv'
      BY <2>1, <2>2, <2>3, <3>1, <3>2, <3>3 DEF RetriesInv, Pending, Current
    <3>5. CycleIsDriven'
      BY <2>1, <2>2, <3>2, DrivenStays DEF Pending
    <3> QED
      BY <3>4, <3>5
  <2>4. CASE ~Current(job[t].cycle)
    <3>1. /\ scheduled' = scheduled \ {NextRetry(t)} /\ retry_token' = retry_token
          /\ at'[t] = "idle"
      BY <1>12, <2>1, <2>4, StoreMoves DEF StoreToken
    <3>2. job[t].cycle # cycle_id
      BY <1>c, <2>2, <2>4 DEF Current
    <3>3. \A r \in scheduled : r.cycle = cycle_id => r \in scheduled'
      BY <2>2, <3>1, <3>2
    <3>4. RetriesInv'
      BY <2>1, <3>1, <3>3, RetriesStay
    <3>5. CASE cycle_id = 0
      BY <2>1, <3>4, <3>5 DEF CycleIsDriven
    <3>6. CASE cycle_id # 0
      <4>1. \A r \in Pending : r \in scheduled' \cup due'
        BY <1>c, <2>1, <3>3, <3>6 DEF Pending
      <4> QED
        BY <2>1, <2>2, <3>4, <4>1, DrivenStays
    <3> QED
      BY <3>5, <3>6
  <2> QED
    BY <2>3, <2>4
<1>13. ASSUME CloseObservation(t) \/ ObserverIsClosed(t) PROVE RetriesInv' /\ CycleIsDriven'
  <2>1. /\ \A u \in Threads \ {t} : at'[u] = at[u] /\ job'[u] = job[u]
        /\ at'[t] \in {"closed observer", "join"} /\ ~Driving(t)
        /\ UNCHANGED <<cycle_id, cycles, retry_token, scheduled, due>>
    BY <1>13, GotoMoves, StepsTyped DEF CloseObservation, ObserverIsClosed, Driving
  <2> QED
    BY <2>1, RetriesLeft
<1>14. ASSUME Join(t) PROVE RetriesInv' /\ CycleIsDriven'
  BY <1>14, FinishMoves, RetriesLeft DEF Join, Moves, Driving
<1> QED
  BY <1>1, <1>2, <1>3, <1>4, <1>5, <1>6, <1>7, <1>8, <1>9, <1>10, <1>11, <1>12, <1>13, <1>14
     DEF Continue

LEMMA NextKeepsRetries ==
  ASSUME RetriesOutlastScheduling, CyclesInv, RetriesInv, CycleIsDriven, [Next]_vars
  PROVE  RetriesInv' /\ CycleIsDriven'
<1> USE DEF recovery, lifecycle, timers, history
<1>i. TypeOK /\ BatonInv /\ SlotInv /\ CyclesFollowSessions /\ LastCycleOnly
  BY DEF CyclesInv, BatonInv
<1>u. ASSUME UNCHANGED <<at, job, cycle_id, cycles, retry_token, scheduled, due>>
      PROVE  RetriesInv' /\ CycleIsDriven'
  <2>1. RetriesInv'
    BY <1>i, <1>u, RetriesStay
  <2> QED
    BY <1>u, <2>1 DEF CycleIsDriven, Nobody, Driving, Pending
<1>1. ASSUME NEW t \in Clients, Start(t) PROVE RetriesInv' /\ CycleIsDriven'
  <2>1. /\ at'[t] = "begin" /\ t \in Threads
        /\ \A u \in Threads \ {t} : at'[u] = at[u] /\ job'[u] = job[u]
    BY <1>1, <1>i, StartMoves DEF Moves, Threads
  <2>2. /\ cycles' = cycles + 1 /\ cycle_id' = cycles + 1 /\ cycles = 0
        /\ UNCHANGED <<retry_token, scheduled, due>>
    BY <1>1, <1>i DEF Start, LastCycleOnly
  <2>3. retry_token = NoRetry
    BY <1>i, <2>2 DEF RetriesInv, LastCycleOnly
  <2>4. RetriesInv'
    BY <1>i, <2>1, <2>2, <2>3, RetriesStay
  <2>5. CycleIsDriven'
    BY <2>1 DEF CycleIsDriven, Nobody, Driving
  <2> QED
    BY <2>4, <2>5
<1>2. ASSUME NEW t \in Clients, Close(t) PROVE RetriesInv' /\ CycleIsDriven'
  <2>1. /\ at'[t] # "store"
        /\ at'[t] = "cancel" => job'[t].token = retry_token /\ retry_token # NoRetry
        /\ \A u \in Threads \ {t} : at'[u] = at[u] /\ job'[u] = job[u]
    BY <1>2, <1>i, CloseMoves DEF Moves
  <2>2. cycle_id' = 0 /\ retry_token' = NoRetry /\ UNCHANGED <<cycles, scheduled, due>>
    BY <1>2 DEF Close
  <2> QED
    BY <1>i, <2>1, <2>2, RetriesStay DEF CycleIsDriven
<1>3. ASSUME NEW t \in Clients, ObserverCall(t) PROVE RetriesInv' /\ CycleIsDriven'
  BY <1>3, <1>u DEF ObserverCall
<1>4. ASSUME NEW t \in Threads, Continue(t) PROVE RetriesInv' /\ CycleIsDriven'
  BY <1>4, <1>i, ContinueKeepsRetries
<1>5. ASSUME NEW r \in Retries, RetryFires(r) PROVE RetriesInv' /\ CycleIsDriven'
  <2>1. /\ \A t \in Threads : at[t] = "store" => r # NextRetry(t)
        /\ scheduled' = scheduled \ {r} /\ due' = due \cup {r}
        /\ UNCHANGED <<cycle_id, cycles, retry_token, at, job>>
    BY <1>5 DEF RetryFires
  <2>2. Pending \subseteq Pending'
    BY <2>1 DEF Pending
  <2>3. CycleIsDriven'
    BY <2>1, <2>2 DEF CycleIsDriven, Nobody, Driving
  <2>4. \A u \in Threads : Storing(u)' => Storing(u) /\ at[u] = "store" /\ NextRetry(u)' = NextRetry(u)
    BY <2>1 DEF Storing, NextRetry
  <2>5. \A u \in Threads : Storing(u)' => NextRetry(u)' \in scheduled' /\ retry_token' = NoRetry
    BY <2>1, <2>4 DEF RetriesInv
  <2>6. RetriesInv'
    BY <2>1, <2>2, <2>4, <2>5 DEF RetriesInv
  <2> QED
    BY <2>3, <2>6
<1>6. ASSUME NEW b \in BusThreads, NEW r \in Retries, OnRetryDue(b, r)
      PROVE  RetriesInv' /\ CycleIsDriven'
  <2>1. /\ r \in due /\ due' = due \ {r} /\ b \in Threads
        /\ UNCHANGED <<cycle_id, cycles, scheduled>>
    BY <1>6 DEF OnRetryDue, Threads
  <2>2. CASE Current(r.cycle)
    <3>1. at'[b] = "launch" /\ \A u \in Threads \ {b} : at'[u] = at[u] /\ job'[u] = job[u]
      BY <1>6, <1>i, <2>1, <2>2, RetryMoves DEF Moves
    <3>2. retry_token' = NoRetry
      BY <1>6, <2>2 DEF OnRetryDue
    <3>3. RetriesInv'
      BY <1>i, <2>1, <3>1, <3>2, RetriesStay
    <3>4. CycleIsDriven'
      BY <2>1, <3>1 DEF CycleIsDriven, Nobody, Driving
    <3> QED
      BY <3>3, <3>4
  <2>3. CASE ~Current(r.cycle)
    <3>1. UNCHANGED <<retry_token, at, job>>
      BY <1>6, <2>3 DEF OnRetryDue
    <3>2. cycle_id = 0
      BY <1>i, <2>1, <2>3 DEF LastCycleOnly, Pending, Current
    <3>3. retry_token = NoRetry
      BY <3>2 DEF RetriesInv
    <3>4. RetriesInv'
      BY <1>i, <2>1, <3>1, <3>3, RetriesStay
    <3> QED
      BY <2>1, <3>2, <3>4 DEF CycleIsDriven
  <2> QED
    BY <2>2, <2>3
<1>7. ASSUME NEW g \in Sessions, SessionStarts(g) \/ SessionRuns(g) PROVE RetriesInv' /\ CycleIsDriven'
  BY <1>7, <1>u DEF SessionStarts, SessionRuns
<1>8. ASSUME NEW g \in Sessions, SessionEnds(g) PROVE RetriesInv' /\ CycleIsDriven'
  <2>1. UNCHANGED <<retry_token, scheduled, due>>
    BY <1>8 DEF SessionEnds
  <2>2. CASE Matters(g)
    <3>1. /\ at'[g] = "launch" /\ g \in Threads
          /\ \A u \in Threads \ {g} : at'[u] = at[u] /\ job'[u] = job[u]
      BY <1>8, <1>i, <2>2, FailureMoves DEF Moves, Threads
    <3>2. cycles' = cycles + 1 /\ cycle_id' = cycles + 1 /\ cycle_id = 0
      BY <1>8, <2>2 DEF SessionEnds, Matters
    <3>3. retry_token = NoRetry
      BY <3>2 DEF RetriesInv
    <3>4. RetriesInv'
      BY <1>i, <2>1, <3>1, <3>2, <3>3, RetriesStay
    <3>5. CycleIsDriven'
      BY <3>1 DEF CycleIsDriven, Nobody, Driving
    <3> QED
      BY <3>4, <3>5
  <2>3. CASE ~Matters(g)
    BY <1>8, <1>u, <2>1, <2>3 DEF SessionEnds
  <2> QED
    BY <2>2, <2>3
<1>9. CASE UNCHANGED vars
  BY <1>9, <1>u DEF vars
<1> QED
  BY <1>1, <1>2, <1>3, <1>4, <1>5, <1>6, <1>7, <1>8, <1>9 DEF Next, Rest

LEMMA RetriesInitially == Init => RetriesInv /\ CycleIsDriven
<1> SUFFICES ASSUME Init PROVE RetriesInv /\ CycleIsDriven
  OBVIOUS
<1>1. cycle_id = 0 /\ retry_token = NoRetry /\ \A t \in Threads : at[t] = "idle"
  BY DEF Init
<1> QED
  BY <1>1 DEF RetriesInv, CycleIsDriven, Storing

\* A live cycle of AdbDevicesObservationSupervisor is never left with nobody to take
\* it further, provided no retry fires before the thread that scheduled it has stored
\* its token: a thread that stores one late cancels the retry that came after.
THEOREM NoCycleIsAbandoned == ASSUME RetriesOutlastScheduling PROVE Spec => []LiveCycleIsDriven
<1>1. ASSUME CyclesInv, CycleIsDriven PROVE LiveCycleIsDriven
  <2>1. SUFFICES ASSUME cycle_id # 0
                 PROVE  \/ \E t \in Threads : Drives(t, cycle_id)
                        \/ \E r \in scheduled \cup due : r.cycle = cycle_id
    BY DEF LiveCycleIsDriven
  <2>2. LastCycleOnly /\ cycle_id = cycles
    BY <1>1, <2>1 DEF CyclesInv, BatonInv, LastCycleOnly
  <2>3. CASE \E t \in Threads : Driving(t)
    BY <2>1, <2>2, <2>3 DEF LastCycleOnly, Driving, Drives, Establishing
  <2>4. CASE Pending # {}
    BY <2>2, <2>4 DEF LastCycleOnly, Pending
  <2> QED
    BY <1>1, <2>1, <2>3, <2>4 DEF CycleIsDriven, Nobody
<1>2. CyclesInv /\ RetriesInv /\ CycleIsDriven /\ [Next]_vars => (RetriesInv /\ CycleIsDriven)'
  BY NextKeepsRetries
<1>3. CyclesInv /\ CycleIsDriven => LiveCycleIsDriven
  BY <1>1
<1> QED
  BY <1>2, <1>3, RetriesInitially, CyclesInvariant, PTL DEF Spec

-----------------------------------------------------------------------------
(***************************************************************************)
(* The failures of the current session, when a session does not fail       *)
(* between its Started and its adoption.                                   *)
(***************************************************************************)

\* Session g has published Started and does not end with a signal.
Outlives(g) == stage[g] \in {"streaming", "closing", "ended"} /\ terminal[g] = "none"

TerminalLast ==
  \A g \in Sessions : stage[g] \in {"none", "opening", "started", "streaming"} => terminal[g] = "none"

\* An episode that has seen the Started of its session will adopt one that lives.
AnswersInv ==
  /\ TerminalLast
  /\ \A t \in Threads : at[t] = "satisfied" => Outlives(job[t].session)
  /\ \A t \in Threads : at[t] = "await" => \A i \in 1 .. Len(inbox[t]) :
       inbox[t][i].session = job[t].session /\ inbox[t][i].kind = "started" =>
         Outlives(job[t].session)

\* What a step does to one session.
LEMMA SessionSteps ==
  ASSUME TypeOK, ObserverInv, [Next]_vars, NEW g \in Sessions
  PROVE  \/ stage'[g] = stage[g] /\ terminal'[g] = terminal[g]
         \/ stage[g] = "none" /\ stage'[g] = "opening" /\ terminal'[g] = terminal[g]
         \/ SessionStarts(g) \/ SessionRuns(g) \/ SessionEnds(g)
<1>1. CASE UNCHANGED observer
  BY <1>1 DEF observer
<1>2. ASSUME NEW t \in Clients, ObserverCall(t) PROVE UNCHANGED <<stage, terminal>>
  BY <1>2 DEF ObserverCall, Stop, StopActive, ReadActive, CloseSource, JoinSession
<1>3. ASSUME NEW t \in Threads, Continue(t)
      PROVE  \/ UNCHANGED <<stage, terminal>>
             \/ stage[g] = "none" /\ stage'[g] = "opening" /\ terminal' = terminal
             \/ stage'[g] = stage[g] /\ terminal' = terminal
  <2>1. CASE UNCHANGED observer
    BY <2>1 DEF observer
  <2>2. CASE StartSession
    <3>1. /\ generation \in Nat /\ terminal' = terminal /\ stage \in [Sessions -> Stages]
          /\ stage' = [stage EXCEPT ![generation + 1] = "opening"]
      BY <2>2, GenerationsAssumption DEF StartSession, ObserverInv, ObserverTypeOK
    <3>2. g = generation + 1 => stage[g] = "none"
      BY <3>1, GenerationsAssumption DEF ObserverInv, OneGeneration, Sessions
    <3> QED
      BY <3>1, <3>2
  <2>3. CASE CloseObserver(t)
    BY <2>3 DEF CloseObserver
  <2>4. UNCHANGED observer \/ StartSession \/ CloseObserver(t)
    <3>1. CASE Cancel(t) \/ Launch(t) \/ Spawn(t) \/ Begin(t) \/ Receive(t) \/ TimeOut(t) \/ Adopt(t) \/ Judge(t)
      BY <3>1 DEF Cancel, Launch, Spawn, Begin, Receive, TimeOut, Adopt, Judge
    <3>2. CASE End(t) \/ Exhaust(t) \/ Publish(t) \/ Schedule(t) \/ StoreToken(t)
      BY <3>2 DEF End, Exhaust, Publish, Schedule, StoreToken
    <3>3. CASE CloseObservation(t) \/ ObserverIsClosed(t) \/ Join(t)
      BY <3>3 DEF CloseObservation, ObserverIsClosed, Join
    <3> QED
      BY <1>3, <3>1, <3>2, <3>3 DEF Continue
  <2> QED
    BY <2>1, <2>2, <2>3, <2>4
<1>4. ASSUME NEW h \in Sessions, h # g, SessionStarts(h) \/ SessionRuns(h) \/ SessionEnds(h)
      PROVE  stage'[g] = stage[g] /\ terminal'[g] = terminal[g]
  BY <1>4 DEF SessionStarts, SessionRuns, SessionEnds, PublishStarted, PublishRaises, Open, Stream,
     MarkInactive, PublishTerminal, Unwind, Move, TypeOK, ObserverTypeOK
<1>5. ASSUME NEW t \in Clients, Start(t) \/ Close(t) PROVE UNCHANGED observer
  BY <1>5 DEF Start, Close
<1>6. ASSUME NEW r \in Retries, RetryFires(r) PROVE UNCHANGED observer
  BY <1>6 DEF RetryFires
<1>7. ASSUME NEW b \in BusThreads, NEW r \in Retries, OnRetryDue(b, r) PROVE UNCHANGED observer
  BY <1>7 DEF OnRetryDue
<1>8. ASSUME UNCHANGED vars PROVE UNCHANGED observer
  BY <1>8 DEF vars
<1> QED
  BY <1>1, <1>2, <1>3, <1>4, <1>5, <1>6, <1>7, <1>8 DEF Next, Rest

LEMMA TerminalsComeLast ==
  ASSUME TypeOK, ObserverInv, TerminalLast, [Next]_vars
  PROVE  TerminalLast'
<1> SUFFICES ASSUME NEW g \in Sessions, stage'[g] \in {"none", "opening", "started", "streaming"}
             PROVE  terminal'[g] = "none"
  BY DEF TerminalLast
<1>1. ASSUME SessionStarts(g) \/ SessionRuns(g) \/ SessionEnds(g)
      PROVE  stage[g] \in {"opening", "started"} /\ terminal'[g] = terminal[g]
  BY <1>1 DEF SessionStarts, SessionRuns, SessionEnds, PublishStarted, PublishRaises, Open, Stream,
     MarkInactive, PublishTerminal, Unwind, Move, TypeOK, ObserverTypeOK
<1> QED
  BY <1>1, SessionSteps DEF TerminalLast

\* A session that has started ends without a signal while an episode waits for it.
LEMMA SessionOutlives ==
  ASSUME SessionsOutliveAdoption, TypeOK, ObserverInv, TerminalLast, [Next]_vars,
         NEW t \in Threads, at[t] \in {"await", "satisfied"},
         NEW g \in Sessions, g = job[t].session, Outlives(g)
  PROVE  Outlives(g)'
<1>1. ASSUME SessionStarts(g) \/ SessionEnds(g) PROVE FALSE
  BY <1>1 DEF SessionStarts, SessionEnds, PublishStarted, PublishRaises, PublishTerminal, Unwind, Move,
     Outlives
<1>2. ASSUME SessionRuns(g) PROVE Outlives(g)'
  <2>1. ~Stream(g) \/ PublishRaises(g)
    BY <1>2 DEF SessionRuns, Open, MarkInactive, Stream, Unwind, Move
  <2>2. CASE PublishRaises(g)
    BY <2>2 DEF PublishRaises, Unwind, Move, Outlives, TypeOK, ObserverTypeOK
  <2>3. CASE MarkInactive(g)
    BY <2>3 DEF MarkInactive, Outlives, TypeOK, ObserverTypeOK
  <2>4. ~Open(g)
    BY DEF Open, Unwind, Move, Outlives
  <2> QED
    BY <1>2, <2>1, <2>2, <2>3, <2>4 DEF SessionRuns
<1> QED
  BY <1>1, <1>2, SessionSteps DEF Outlives

\* The signals thread u has collected after a step: what it had, or one just published.
Collects(u) ==
  \A i \in 1 .. Len(inbox'[u]) :
    \/ \E j \in 1 .. Len(inbox[u]) : inbox'[u][i] = inbox[u][j]
    \/ inbox'[u][i].kind # "started"
    \/ \E g \in Sessions : SessionStarts(g) /\ inbox'[u][i].session = g

\* How a thread comes to wait for a session, and to have one.
WaitsOn(u) ==
  \/ at[u] = at'[u] /\ job'[u].session = job[u].session /\ Collects(u)
  \/ /\ at[u] = "await" /\ at'[u] = "satisfied" /\ job'[u].session = job[u].session
     /\ 1 \in 1 .. Len(inbox[u])
     /\ inbox[u][1].session = job[u].session /\ inbox[u][1].kind = "started"
  \/ at'[u] = "await" /\ job'[u].session = generation + 1 /\ inbox'[u] = inbox[u]

LEMMA ContinueWaits ==
  ASSUME TypeOK, SlotInv, NEW t \in Threads, Continue(t),
         NEW u \in Threads, at'[u] \in {"await", "satisfied"}
  PROVE  WaitsOn(u)
<1>q. inbox'[u] = inbox[u] => Collects(u)
  BY DEF Collects
<1>o. u # t /\ at'[u] = at[u] /\ job'[u] = job[u] /\ inbox'[u] = inbox[u] => WaitsOn(u)
  BY <1>q DEF WaitsOn
<1>l. ASSUME \A v \in Threads \ {t} : at'[v] = at[v] /\ job'[v] = job[v],
             at'[t] \notin {"await", "satisfied"}, inbox' = inbox
      PROVE  WaitsOn(u)
  BY <1>l, <1>o
<1>1. ASSUME Cancel(t) PROVE WaitsOn(u)
  BY <1>1, <1>l, CancelMoves DEF Cancel
<1>2. ASSUME Launch(t) PROVE WaitsOn(u)
  <2>1. CASE Current(job[t].cycle) /\ attempt_thread = NoThread
    <3>1. PICK w \in Workers :
           /\ at'[t] = "spawn" /\ at'[w] = "registered"
           /\ \A v \in Threads \ {t, w} : at'[v] = at[v] /\ job'[v] = job[v]
      BY <1>2, <2>1, LaunchMoves
    <3> QED
      BY <1>2, <1>o, <3>1 DEF Launch
  <2>2. CASE ~(Current(job[t].cycle) /\ attempt_thread = NoThread)
    <3>1. Moves(t, "idle", NoJob)
      BY <1>2, <2>2, FinishMoves DEF Launch
    <3> QED
      BY <1>2, <1>l, <3>1 DEF Launch, Moves
  <2> QED
    BY <2>1, <2>2
<1>3. ASSUME Spawn(t) PROVE WaitsOn(u)
  <2>1. PICK w \in Workers :
           /\ at'[t] = "idle" /\ at'[w] = "begin"
           /\ \A v \in Threads \ {t, w} : at'[v] = at[v] /\ job'[v] = job[v]
    BY <1>3, SpawnMoves
  <2> QED
    BY <1>3, <1>o, <2>1 DEF Spawn
<1>4. ASSUME Begin(t) PROVE WaitsOn(u)
  BY <1>4, <1>o, BeginMoves DEF WaitsOn
<1>5. ASSUME Receive(t) PROVE WaitsOn(u)
  <2>1. CASE u # t
    BY <1>5, <1>o, <2>1, ReceiveMoves
  <2>2. CASE u = t /\ at'[t] = "await"
    <3>1. /\ at[t] = "await" /\ job'[t].session = job[t].session
          /\ inbox'[t] = Tail(inbox[t]) /\ inbox[t] \in Seq(Signals) /\ inbox[t] # <<>>
      BY <1>5, <2>2, ReceiveMoves
    <3>2. \A i \in 1 .. Len(Tail(inbox[t])) :
            i + 1 \in 1 .. Len(inbox[t]) /\ Tail(inbox[t])[i] = inbox[t][i + 1]
      BY <3>1
    <3>3. Collects(t)
      BY <3>1, <3>2 DEF Collects
    <3> QED
      BY <2>2, <3>1, <3>3 DEF WaitsOn
  <2>3. CASE u = t /\ at'[t] = "satisfied"
    <3>1. /\ at[t] = "await" /\ job'[t].session = job[t].session
          /\ inbox[t] \in Seq(Signals) /\ inbox[t] # <<>>
          /\ inbox[t][1] = [session |-> job[t].session, kind |-> "started"]
      BY <1>5, <2>3, ReceiveMoves
    <3>2. inbox[t][1].session = job[t].session /\ inbox[t][1].kind = "started"
      BY <3>1
    <3>3. 1 \in 1 .. Len(inbox[t])
      BY <3>1
    <3> QED
      BY <2>3, <3>1, <3>2, <3>3 DEF WaitsOn
  <2> QED
    BY <2>1, <2>2, <2>3
<1>6. ASSUME TimeOut(t) PROVE WaitsOn(u)
  BY <1>6, <1>o, UnsatisfiedMoves DEF TimeOut
<1>7. ASSUME Adopt(t) PROVE WaitsOn(u)
  BY <1>7, <1>l, AdoptMoves DEF Adopt
<1>8. ASSUME Judge(t) PROVE WaitsOn(u)
  BY <1>8, <1>l, JudgeMoves DEF Judge
<1>9. ASSUME End(t) \/ Exhaust(t) PROVE WaitsOn(u)
  <2>1. PICK step \in {"idle", "publish"} : EndCycle(t, step)
    BY <1>9 DEF End, Exhaust
  <2>2. inbox' = inbox
    BY <1>9 DEF End, Exhaust
  <2>3. /\ at'[t] \in {step, "cancel"}
        /\ \A v \in Threads \ {t} : at'[v] = at[v] /\ job'[v] = job[v]
    BY <2>1, EndCycleMoves
  <2> QED
    BY <1>l, <2>2, <2>3
<1>10. ASSUME Publish(t) PROVE WaitsOn(u)
  BY <1>10, <1>l, FinishMoves DEF Publish, Moves
<1>11. ASSUME Schedule(t) PROVE WaitsOn(u)
  BY <1>11, <1>l, GotoMoves, StepsTyped DEF Schedule
<1>12. ASSUME StoreToken(t) PROVE WaitsOn(u)
  BY <1>12, <1>l, StoreMoves DEF StoreToken
<1>13. ASSUME CloseObservation(t) \/ ObserverIsClosed(t) PROVE WaitsOn(u)
  <2>1. /\ \A v \in Threads \ {t} : at'[v] = at[v] /\ job'[v] = job[v]
        /\ at'[t] \in {"closed observer", "join"} /\ inbox' = inbox
    BY <1>13, GotoMoves, StepsTyped DEF CloseObservation, ObserverIsClosed
  <2> QED
    BY <1>l, <2>1
<1>14. ASSUME Join(t) PROVE WaitsOn(u)
  BY <1>14, <1>l, FinishMoves DEF Join, Moves
<1> QED
  BY <1>1, <1>2, <1>3, <1>4, <1>5, <1>6, <1>7, <1>8, <1>9, <1>10, <1>11, <1>12, <1>13, <1>14
     DEF Continue

LEMMA NextWaits ==
  ASSUME CyclesInv, [Next]_vars, NEW u \in Threads, at'[u] \in {"await", "satisfied"}
  PROVE  WaitsOn(u)
<1> USE DEF recovery, lifecycle, timers, history
<1>i. TypeOK /\ SlotInv /\ CyclesFollowSessions /\ LastCycleOnly
  BY DEF CyclesInv, BatonInv
<1>q. inbox'[u] = inbox[u] => Collects(u)
  BY DEF Collects
<1>u. ASSUME UNCHANGED <<at, job, inbox>> PROVE WaitsOn(u)
  BY <1>q, <1>u DEF WaitsOn
<1>o. at'[u] = at[u] /\ job'[u] = job[u] /\ inbox'[u] = inbox[u] => WaitsOn(u)
  BY <1>q DEF WaitsOn
<1>1. ASSUME NEW t \in Clients, Start(t) PROVE WaitsOn(u)
  <2>1. /\ at'[t] = "begin" /\ inbox' = inbox
        /\ \A v \in Threads \ {t} : at'[v] = at[v] /\ job'[v] = job[v]
    BY <1>1, <1>i, StartMoves DEF Moves, Start
  <2> QED
    BY <1>o, <2>1
<1>2. ASSUME NEW t \in Clients, Close(t) PROVE WaitsOn(u)
  <2>1. /\ at'[t] \in {"observer", "cancel"} /\ inbox' = inbox
        /\ \A v \in Threads \ {t} : at'[v] = at[v] /\ job'[v] = job[v]
    BY <1>2, <1>i, CloseMoves DEF Moves, Close
  <2> QED
    BY <1>o, <2>1
<1>3. ASSUME NEW t \in Clients, ObserverCall(t) PROVE WaitsOn(u)
  BY <1>3, <1>u DEF ObserverCall
<1>4. ASSUME NEW t \in Threads, Continue(t) PROVE WaitsOn(u)
  BY <1>4, <1>i, ContinueWaits
<1>5. ASSUME NEW r \in Retries, RetryFires(r) PROVE WaitsOn(u)
  BY <1>5, <1>u DEF RetryFires
<1>6. ASSUME NEW b \in BusThreads, NEW r \in Retries, OnRetryDue(b, r) PROVE WaitsOn(u)
  <2>1. r \in due /\ inbox' = inbox
    BY <1>6 DEF OnRetryDue
  <2>2. CASE Current(r.cycle)
    <3>1. at'[b] = "launch" /\ \A v \in Threads \ {b} : at'[v] = at[v] /\ job'[v] = job[v]
      BY <1>6, <1>i, <2>1, <2>2, RetryMoves DEF Moves
    <3> QED
      BY <1>o, <2>1, <3>1
  <2>3. CASE ~Current(r.cycle)
    BY <1>6, <1>u, <2>1, <2>3 DEF OnRetryDue
  <2> QED
    BY <2>2, <2>3
<1>7. ASSUME NEW g \in Sessions, SessionStarts(g) PROVE WaitsOn(u)
  <2>1. Collected(g, "started") /\ UNCHANGED <<at, job>>
    BY <1>7 DEF SessionStarts
  <2>2. Collects(u)
    BY <1>7, <1>i, <2>1, CollectedSignals DEF Collects
  <2> QED
    BY <2>1, <2>2 DEF WaitsOn
<1>8. ASSUME NEW g \in Sessions, SessionRuns(g) PROVE WaitsOn(u)
  BY <1>8, <1>u DEF SessionRuns
<1>9. ASSUME NEW g \in Sessions, SessionEnds(g) PROVE WaitsOn(u)
  <2>1. Collected(g, terminal[g]) /\ terminal[g] \in Failures \cup {"stopped"}
    BY <1>9, <1>i DEF SessionEnds, PublishTerminal, Move, CyclesFollowSessions, TypeOK, ObserverTypeOK
  <2>2. terminal[g] # "started"
    BY <2>1 DEF Failures
  <2>3. Collects(u)
    BY <1>i, <2>1, <2>2, CollectedSignals DEF Collects
  <2>4. at'[u] = at[u] /\ job'[u] = job[u]
    <3>1. CASE Matters(g)
      BY <1>9, <1>i, <3>1, FailureMoves DEF Moves
    <3>2. CASE ~Matters(g)
      BY <1>9, <3>2 DEF SessionEnds
    <3> QED
      BY <3>1, <3>2
  <2> QED
    BY <2>3, <2>4 DEF WaitsOn
<1>10. CASE UNCHANGED vars
  BY <1>10, <1>u DEF vars
<1> QED
  BY <1>1, <1>2, <1>3, <1>4, <1>5, <1>6, <1>7, <1>8, <1>9, <1>10 DEF Next, Rest

LEMMA NextKeepsAnswers ==
  ASSUME SessionsOutliveAdoption, CyclesInv, AnswersInv, [Next]_vars
  PROVE  AnswersInv'
<1>i. TypeOK /\ ObserverInv /\ EpisodesInv /\ TerminalLast
  BY DEF CyclesInv, AnswersInv
<1>1. TerminalLast'
  BY <1>i, TerminalsComeLast
<1>2. ASSUME NEW u \in Threads, at'[u] = "satisfied" PROVE Outlives(job[u].session)'
  <2>1. at[u] \in {"await", "satisfied"} /\ job'[u].session = job[u].session /\ Outlives(job[u].session)
    <3>1. WaitsOn(u)
      BY <1>2, NextWaits
    <3> QED
      BY <1>2, <3>1 DEF WaitsOn, AnswersInv
  <2>2. PICK g \in Sessions : g = job[u].session
    BY <1>i, <2>1 DEF EpisodesInv
  <2>3. Outlives(g)'
    BY <1>i, <2>1, <2>2, SessionOutlives
  <2> QED
    BY <2>1, <2>2, <2>3 DEF Outlives
<1>3. ASSUME NEW u \in Threads, at'[u] = "await",
             NEW i \in 1 .. Len(inbox'[u]),
             inbox'[u][i].session = job'[u].session, inbox'[u][i].kind = "started"
      PROVE  Outlives(job[u].session)'
  <2>1. WaitsOn(u)
    BY <1>3, NextWaits
  <2>2. CASE at[u] = "await" /\ job'[u].session = job[u].session /\ Collects(u)
    <3>1. PICK g \in Sessions : g = job[u].session
      BY <1>i, <2>2 DEF EpisodesInv
    <3>2. CASE \E j \in 1 .. Len(inbox[u]) : inbox'[u][i] = inbox[u][j]
      <4>1. Outlives(g)
        BY <1>3, <2>2, <3>1, <3>2 DEF AnswersInv
      <4>2. Outlives(g)'
        BY <1>i, <2>2, <3>1, <4>1, SessionOutlives
      <4> QED
        BY <2>2, <3>1, <4>2 DEF Outlives
    <3>3. CASE \E h \in Sessions : SessionStarts(h) /\ inbox'[u][i].session = h
      <4>1. SessionStarts(g)
        BY <1>3, <2>2, <3>1, <3>3
      <4>2. stage[g] = "started" /\ terminal[g] = "none"
        BY <1>i, <4>1 DEF SessionStarts, PublishStarted, PublishRaises, Unwind, Move, TerminalLast
      <4>3. Outlives(g)'
        BY <1>i, <4>1, <4>2 DEF SessionStarts, PublishStarted, PublishRaises, Unwind, Move, Outlives,
           TypeOK, ObserverTypeOK
      <4> QED
        BY <2>2, <3>1, <4>3 DEF Outlives
    <3> QED
      BY <1>3, <2>2, <3>2, <3>3 DEF Collects
  <2>3. CASE job'[u].session = generation + 1 /\ inbox'[u] = inbox[u]
    <3>1. /\ i \in 1 .. Len(inbox[u]) /\ inbox[u][i].session = generation + 1
          /\ inbox[u][i].kind = "started" /\ inbox[u] \in Seq(Signals)
      BY <1>3, <1>i, <2>3 DEF TypeOK
    <3>2. inbox[u][i] \in Signals
      BY <3>1
    <3>3. PICK g \in Sessions : g = inbox[u][i].session /\ Opened(g)
      BY <1>i, <3>1, <3>2 DEF EpisodesInv, Signals
    <3>4. g <= generation /\ generation \in Nat
      BY <1>i, <3>3, OpenedWereStarted, GenerationsAssumption DEF ObserverInv, ObserverTypeOK
    <3> QED
      BY <3>1, <3>3, <3>4
  <2> QED
    BY <1>3, <2>1, <2>2, <2>3 DEF WaitsOn
<1> QED
  BY <1>1, <1>2, <1>3 DEF AnswersInv

\* The supervisor forgets no answer, but for start(), which has the current session,
\* and does not open again.
LEMMA AnswersGrow ==
  ASSUME [Next]_vars
  PROVE  /\ closed => closed'
         /\ \/ subscribed' = subscribed /\ answered \subseteq answered'
            \/ answered' = {current} \ {0}
<1> USE DEF recovery, lifecycle, timers, history
<1>1. ASSUME NEW t \in Clients, Start(t) PROVE closed' = closed /\ answered' = {current} \ {0}
  BY <1>1 DEF Start
<1>2. ASSUME NEW t \in Clients, Close(t) \/ ObserverCall(t)
      PROVE  (closed => closed') /\ UNCHANGED <<subscribed, answered>>
  BY <1>2 DEF Close, ObserverCall
<1>3. ASSUME NEW t \in Threads, Continue(t) PROVE UNCHANGED <<closed, subscribed, answered>>
  <2>1. CASE Cancel(t) \/ Launch(t) \/ Spawn(t) \/ Begin(t) \/ Receive(t) \/ TimeOut(t) \/ Adopt(t) \/ Judge(t)
    BY <2>1 DEF Cancel, Launch, Spawn, Begin, Receive, TimeOut, Adopt, Judge
  <2>2. CASE End(t) \/ Exhaust(t) \/ Publish(t) \/ Schedule(t) \/ StoreToken(t)
    BY <2>2 DEF End, Exhaust, Publish, Schedule, StoreToken
  <2>3. CASE CloseObservation(t) \/ ObserverIsClosed(t) \/ Join(t)
    BY <2>3 DEF CloseObservation, ObserverIsClosed, Join
  <2> QED
    BY <1>3, <2>1, <2>2, <2>3 DEF Continue
<1>4. ASSUME NEW r \in Retries, RetryFires(r) PROVE UNCHANGED <<closed, subscribed, answered>>
  BY <1>4 DEF RetryFires
<1>5. ASSUME NEW b \in BusThreads, NEW r \in Retries, OnRetryDue(b, r)
      PROVE  UNCHANGED <<closed, subscribed, answered>>
  BY <1>5 DEF OnRetryDue
<1>6. ASSUME NEW g \in Sessions, SessionStarts(g) \/ SessionRuns(g) \/ SessionEnds(g)
      PROVE  UNCHANGED <<closed, subscribed>> /\ answered \subseteq answered'
  BY <1>6 DEF SessionStarts, SessionRuns, SessionEnds
<1>7. CASE UNCHANGED vars
  BY <1>7 DEF vars
<1> QED
  BY <1>1, <1>2, <1>3, <1>4, <1>5, <1>6, <1>7 DEF Next, Rest

\* A delivered failure of the current session opens a cycle, or finds one under way.
LEMMA EndsAreAnswered ==
  ASSUME NEW g \in Sessions, SessionEnds(g), terminal[g] = "connection",
         current = g, subscribed, ~closed
  PROVE  g \in answered'
BY DEF SessionEnds, Matters

LEMMA NextKeepsFailuresAnswered ==
  ASSUME SessionsOutliveAdoption, CyclesInv, AnswersInv, FailureIsAnswered, [Next]_vars
  PROVE  FailureIsAnswered'
<1> SUFFICES ASSUME current' # 0, subscribed', ~closed',
                    stage'[current'] = "ended", terminal'[current'] = "connection"
             PROVE  current' \in answered'
  BY DEF FailureIsAnswered
<1>i. TypeOK /\ ObserverInv /\ BatonInv /\ EpisodesInv /\ TerminalLast
  BY DEF CyclesInv, AnswersInv
<1>1. ~closed
  BY AnswersGrow
<1>2. CASE current' # current
  <2>1. PICK t \in Threads : Adopt(t)
    BY <1>2, OnlyAdoptionReplaces
  <2>2. current' = job[t].session /\ at[t] = "satisfied"
    BY <1>2, <1>i, <2>1, AdoptedIsNewer, AdoptMoves
  <2>3. PICK g \in Sessions : g = job[t].session /\ Outlives(g)
    BY <1>i, <2>2 DEF AnswersInv, EpisodesInv
  <2>4. Outlives(g)'
    BY <1>i, <2>2, <2>3, SessionOutlives
  <2> QED
    BY <2>2, <2>3, <2>4 DEF Outlives
<1>3. CASE current' = current
  <2>1. PICK g \in Sessions : g = current
    BY <1>3, <1>i DEF TypeOK
  <2>2. /\ stage'[g] = "ended" /\ terminal'[g] = "connection" /\ current # 0
        /\ current = g /\ current' = g
    BY <1>3, <2>1
  <2>3. CASE answered' = {current} \ {0}
    BY <2>2, <2>3
  <2>4. CASE subscribed' = subscribed /\ answered \subseteq answered'
    <3>1. CASE stage'[g] = stage[g] /\ terminal'[g] = terminal[g]
      BY <1>1, <2>2, <2>4, <3>1 DEF FailureIsAnswered
    <3>2. ~SessionStarts(g)
      BY <1>i, <2>2 DEF SessionStarts, PublishStarted, PublishRaises, Unwind, Move, TypeOK, ObserverTypeOK
    <3>3. ~SessionRuns(g)
      <4>1. ~(Open(g) \/ Stream(g) \/ PublishRaises(g))
        BY <1>i, <2>2 DEF Open, Stream, PublishRaises, Unwind, Move, TypeOK, ObserverTypeOK
      <4>2. ~MarkInactive(g)
        BY <1>i, <2>2 DEF MarkInactive, TypeOK, ObserverTypeOK
      <4> QED
        BY <4>1, <4>2 DEF SessionRuns
    <3>4. CASE SessionEnds(g)
      <4>1. terminal[g] = "connection"
        BY <2>2, <3>4 DEF SessionEnds, PublishTerminal
      <4> QED
        BY <1>1, <2>2, <2>4, <3>4, <4>1, EndsAreAnswered
    <3> QED
      BY <1>i, <2>2, <3>1, <3>2, <3>3, <3>4, SessionSteps
  <2> QED
    BY <2>3, <2>4, AnswersGrow
<1> QED
  BY <1>2, <1>3

LEMMA AnswersInitially == Init => AnswersInv /\ FailureIsAnswered
<1> SUFFICES ASSUME Init PROVE AnswersInv /\ FailureIsAnswered
  OBVIOUS
<1>1. subscribed = FALSE /\ \A t \in Threads : at[t] = "idle"
  BY DEF Init
<1>2. TerminalLast
  BY DEF Init, ObserverInit, TerminalLast
<1> QED
  BY <1>1, <1>2 DEF AnswersInv, FailureIsAnswered

\* When the failure of the current session has been delivered, a cycle has been opened
\* for it or was under way, provided a session does not fail between its Started and its
\* adoption: such a failure is compared with the session before it, and ignored.
THEOREM FailuresAreAnswered == ASSUME SessionsOutliveAdoption PROVE Spec => []FailureIsAnswered
<1>1. CyclesInv /\ AnswersInv /\ FailureIsAnswered /\ [Next]_vars => (AnswersInv /\ FailureIsAnswered)'
  BY NextKeepsAnswers, NextKeepsFailuresAnswered
<1> QED
  BY <1>1, AnswersInitially, CyclesInvariant, PTL DEF Spec
-----------------------------------------------------------------------------
(***************************************************************************)
(* Nobody waits in a circle.                                               *)
(***************************************************************************)

\* Thread t cannot go on before u has ended what it does: stop() joins the thread of
\* session u, its signal handlers included, or close() joins the attempt thread u.
WaitsFor(t, u) ==
  \/ /\ t \in Clients /\ u \in Sessions /\ call[t] = [step |-> "join", session |-> u]
     /\ stage[u] # "ended" \/ at[u] # "idle"
  \/ at[t] = "join" /\ u \in Workers /\ job[t].worker = u /\ at[u] # "idle"

\* Who is waited for waits for nobody, and a session that is waited for has had its
\* source closed, so that a server that sends nothing cannot keep it.
WaitsEnd ==
  \A t, u \in Threads : WaitsFor(t, u) =>
    /\ \A v \in Threads : ~WaitsFor(u, v)
    /\ u \in Sessions => u \in source_closed

\* The source comes before the thread.
JoinedIsInterrupted ==
  \A t \in Clients : call[t].step = "join" => call[t].session \in source_closed

LEMMA CallsKeepInterrupting ==
  ASSUME ObserverTypeOK, JoinedIsInterrupted, NEW t \in Threads,
         CloseObserver(t) \/ (t \in Clients /\ (Stop(t) \/ StopActive(t) \/ CloseSource(t) \/ JoinSession(t)))
  PROVE  JoinedIsInterrupted'
<1>1. /\ source_closed \subseteq source_closed'
      /\ \A u \in Clients \ {t} : call'[u] = call[u]
  BY DEF CloseObserver, Stop, StopActive, ReadActive, CloseSource, JoinSession, ObserverTypeOK
<1>2. ASSUME t \in Clients, call'[t].step = "join" PROVE call'[t].session \in source_closed'
  <2>1. call[t] \in Calls /\ call \in [Clients -> Calls]
    BY <1>2 DEF ObserverTypeOK
  <2>2. CASE CloseSource(t)
    BY <1>2, <2>1, <2>2 DEF CloseSource, Calls
  <2>3. CASE CloseObserver(t)
    BY <1>2, <2>1, <2>3 DEF CloseObserver, Calls
  <2>4. CASE Stop(t) \/ StopActive(t)
    BY <1>2, <2>1, <2>4 DEF Stop, StopActive, ReadActive, NoCall
  <2>5. CASE JoinSession(t)
    BY <1>2, <2>1, <2>5 DEF JoinSession, NoCall
  <2> QED
    BY <1>2, <2>2, <2>3, <2>4, <2>5
<1> QED
  BY <1>1, <1>2 DEF JoinedIsInterrupted

LEMMA NextKeepsInterrupting ==
  ObserverInv /\ JoinedIsInterrupted /\ [Next]_vars => JoinedIsInterrupted'
<1> SUFFICES ASSUME ObserverInv, JoinedIsInterrupted, [Next]_vars PROVE JoinedIsInterrupted'
  OBVIOUS
<1>1. ASSUME UNCHANGED <<call, source_closed>> PROVE JoinedIsInterrupted'
  BY <1>1 DEF JoinedIsInterrupted
<1>2. CASE UNCHANGED observer
  BY <1>1, <1>2 DEF observer
<1>3. CASE StartSession
  BY <1>1, <1>3 DEF StartSession
<1>4. ASSUME NEW g \in Sessions,
             \/ Open(g) \/ PublishStarted(g) \/ PublishRaises(g) \/ Stream(g)
             \/ MarkInactive(g) \/ PublishTerminal(g)
      PROVE  JoinedIsInterrupted'
  BY <1>1, <1>4 DEF Open, PublishStarted, PublishRaises, Stream, MarkInactive, PublishTerminal, Unwind, Move
<1>5. ASSUME NEW t \in Threads, CloseObserver(t) PROVE JoinedIsInterrupted'
  BY <1>5, CallsKeepInterrupting DEF ObserverInv
<1>6. ASSUME NEW t \in Clients, Stop(t) \/ StopActive(t) \/ CloseSource(t) \/ JoinSession(t)
      PROVE  JoinedIsInterrupted'
  BY <1>6, CallsKeepInterrupting DEF ObserverInv, Threads
<1> QED
  BY <1>2, <1>3, <1>4, <1>5, <1>6, OnlyTheObserverMoves DEF ObserverNext

\* No circular waiting among stop() and close(), which join the session thread and the
\* attempt thread, and those threads, which run the supervisor's handlers and launch
\* attempts: every wait is for a thread that waits for nobody, and a session is joined
\* only after its source has been closed, which interrupts its read.
THEOREM JoinedThreadsWaitForNobody == Spec => []WaitsEnd
<1>1. Init => JoinedIsInterrupted
  BY DEF Init, ObserverInit, JoinedIsInterrupted, NoCall
<1>2. CyclesInv /\ JoinedIsInterrupted => WaitsEnd
  <2> SUFFICES ASSUME CyclesInv, JoinedIsInterrupted,
                      NEW t \in Threads, NEW u \in Threads, WaitsFor(t, u)
               PROVE  /\ \A v \in Threads : ~WaitsFor(u, v)
                      /\ u \in Sessions => u \in source_closed
    BY DEF WaitsEnd
  <2>1. u \in Sessions \cup Workers /\ u \notin Clients
    BY ThreadsAssumption DEF WaitsFor
  <2>2. at[u] # "join"
    BY <2>1 DEF CyclesInv, ClosingInv, OneCloser, Closer
  <2>3. u \in Sessions => u \in source_closed
    BY ThreadsAssumption DEF WaitsFor, JoinedIsInterrupted
  <2> QED
    BY <2>1, <2>2, <2>3 DEF WaitsFor
<1>3. CyclesInv => ObserverInv
  BY DEF CyclesInv
<1> QED
  BY <1>1, <1>2, <1>3, NextKeepsInterrupting, CyclesInvariant, PTL DEF Spec
=============================================================================
