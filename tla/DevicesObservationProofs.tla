------------------------ MODULE DevicesObservationProofs ------------------------
(***************************************************************************)
(* What the observer promises the supervisor that calls it, for every      *)
(* number of clients, threads and sessions: DevicesObservation takes no    *)
(* step but the observer's own on the observer's variables.                *)
(***************************************************************************)
EXTENDS DevicesObservation, TLAPS

\* The steps of the observer; a thread that closes it need not be a client here.
ObserverNext ==
  \/ StartSession
  \/ \E t \in Threads : CloseObserver(t)
  \/ \E t \in Clients : Stop(t) \/ StopActive(t) \/ CloseSource(t) \/ JoinSession(t)
  \/ \E g \in Sessions :
       \/ Open(g) \/ PublishStarted(g) \/ PublishRaises(g) \/ Stream(g)
       \/ MarkInactive(g) \/ PublishTerminal(g)

\* What is stopped or waited for has been started.
StoppedWereStarted ==
  /\ \A g \in source_closed : g <= generation
  /\ \A t \in Clients : call[t].session <= generation /\ (call[t].step = "join" => call[t].session # 0)
  /\ \A t \in Clients : call[t].step = "source" => call[t].session # 0

ObserverInv ==
  /\ ObserverTypeOK
  /\ StoppedWereStarted
  /\ OneGeneration
  /\ StoppedSessionsEnd
-----------------------------------------------------------------------------
LEMMA ObserverInvInitially == Init => ObserverInv
<1> SUFFICES ASSUME Init PROVE ObserverInv
  OBVIOUS
<1> USE GenerationsAssumption
<1>1. /\ source_closed = {} /\ observer_closed = FALSE
      /\ terminal = [g \in Sessions |-> "none"] /\ call = [t \in Clients |-> NoCall]
      /\ \/ generation = 0 /\ active = 0 /\ stage = [g \in Sessions |-> "none"]
         \/ /\ MaxGeneration > 0 /\ generation = 1 /\ active = 1
            /\ stage = [g \in Sessions |-> IF g = 1 THEN "opening" ELSE "none"]
  BY DEF Init, ObserverInit
<1>2. call \in [Clients -> Calls] /\ \A t \in Clients : call[t].step = "idle" /\ call[t].session = 0
  BY <1>1 DEF Calls, NoCall
<1>3. /\ generation \in 0 .. MaxGeneration /\ active \in 0 .. MaxGeneration /\ stage \in [Sessions -> Stages]
      /\ terminal \in [Sessions -> Failures \cup {"none", "stopped"}]
  BY <1>1 DEF Stages
<1>4. ObserverTypeOK
  BY <1>1, <1>2, <1>3 DEF ObserverTypeOK
<1>5. StoppedWereStarted
  BY <1>1, <1>2, <1>3 DEF StoppedWereStarted
<1>6. OneGeneration
  BY <1>1 DEF OneGeneration, Running, Sessions
<1>7. StoppedSessionsEnd
  BY <1>1 DEF StoppedSessionsEnd
<1> QED
  BY <1>4, <1>5, <1>6, <1>7 DEF ObserverInv

\* Every step of the composition leaves the observer alone or is one of its own.
LEMMA OnlyTheObserverMoves == [Next]_vars => ObserverNext \/ UNCHANGED observer
<1> SUFFICES ASSUME [Next]_vars PROVE ObserverNext \/ UNCHANGED observer
  OBVIOUS
<1>1. ASSUME NEW t \in Clients, Start(t) \/ Close(t) PROVE UNCHANGED observer
  BY <1>1 DEF Start, Close
<1>2. ASSUME NEW t \in Clients, ObserverCall(t) PROVE ObserverNext
  BY <1>2 DEF ObserverCall, ObserverNext
<1>3. ASSUME NEW t \in Threads, Continue(t) PROVE ObserverNext \/ UNCHANGED observer
  <2>1. CASE Cancel(t) \/ Launch(t) \/ Spawn(t)
    BY <2>1 DEF Cancel, Launch, Spawn
  <2>2. CASE Begin(t)
    BY <2>2 DEF Begin, ObserverNext
  <2>3. CASE Receive(t) \/ TimeOut(t) \/ Adopt(t) \/ Judge(t)
    BY <2>3 DEF Receive, TimeOut, Adopt, Judge
  <2>4. CASE End(t) \/ Exhaust(t) \/ Publish(t) \/ Schedule(t) \/ StoreToken(t)
    BY <2>4 DEF End, Exhaust, Publish, Schedule, StoreToken
  <2>5. CASE CloseObservation(t)
    BY <2>5 DEF CloseObservation, ObserverNext
  <2>6. CASE ObserverIsClosed(t) \/ Join(t)
    BY <2>6 DEF ObserverIsClosed, Join
  <2> QED
    BY <1>3, <2>1, <2>2, <2>3, <2>4, <2>5, <2>6 DEF Continue
<1>4. ASSUME NEW r, RetryFires(r) PROVE UNCHANGED observer
  BY <1>4 DEF RetryFires
<1>5. ASSUME NEW b, NEW r, OnRetryDue(b, r) PROVE UNCHANGED observer
  BY <1>5 DEF OnRetryDue
<1>6. ASSUME NEW g \in Sessions, SessionStarts(g) \/ SessionRuns(g) \/ SessionEnds(g) PROVE ObserverNext
  BY <1>6 DEF SessionStarts, SessionRuns, SessionEnds, ObserverNext
<1>7. CASE UNCHANGED vars
  BY <1>7 DEF vars
<1> QED
  BY <1>1, <1>2, <1>3, <1>4, <1>5, <1>6, <1>7 DEF Next, Rest

\* A new generation follows the one that has been taken out.
LEMMA StartSessionKeeps == ObserverInv /\ StartSession => ObserverInv'
<1> SUFFICES ASSUME ObserverInv, StartSession PROVE ObserverInv'
  OBVIOUS
<1> USE GenerationsAssumption
<1>1. /\ active = 0 /\ generation \in Nat /\ generation' = generation + 1 /\ active' = generation'
      /\ generation' \in Sessions /\ generation' \notin source_closed
      /\ stage' = [stage EXCEPT ![generation'] = "opening"]
      /\ UNCHANGED <<observer_closed, source_closed, terminal, call>>
  BY DEF StartSession, MayStart, ObserverInv, ObserverTypeOK, StoppedWereStarted, Sessions
<1>2. ObserverTypeOK'
  BY <1>1 DEF ObserverInv, ObserverTypeOK, Sessions, Stages
<1>3. StoppedWereStarted'
  BY <1>1 DEF ObserverInv, ObserverTypeOK, StoppedWereStarted, Sessions, Calls
<1>4. OneGeneration'
  BY <1>1 DEF ObserverInv, ObserverTypeOK, OneGeneration, Running, Sessions
<1>5. StoppedSessionsEnd'
  BY <1>1 DEF ObserverInv, ObserverTypeOK, StoppedSessionsEnd, Sessions
<1> QED
  BY <1>2, <1>3, <1>4, <1>5 DEF ObserverInv

\* A caller that is not waiting goes on to another step.
LEMMA CallsKeep ==
  ASSUME ObserverInv, NEW t \in Threads, CloseObserver(t) \/ (t \in Clients /\ (Stop(t) \/ StopActive(t)))
  PROVE  ObserverInv'
<1> USE GenerationsAssumption
<1>1. /\ UNCHANGED <<generation, active, source_closed, stage, terminal>>
      /\ observer_closed' \in BOOLEAN
  BY DEF CloseObserver, Stop, StopActive, ReadActive, ObserverInv, ObserverTypeOK
<1>2. /\ call[t].step \in {"idle", "stop"}
      /\ \/ call' = [call EXCEPT ![t].step = "stop"]
         \/ call' = [call EXCEPT ![t] = NoCall]
         \/ active # 0 /\ call' = [call EXCEPT ![t] = [step |-> "source", session |-> active]]
  BY DEF CloseObserver, Stop, StopActive, ReadActive
<1>3. active \in Sessions \cup {0} /\ active <= generation
  BY DEF ObserverInv, ObserverTypeOK, OneGeneration, Sessions
<1>4. /\ call' \in [Clients -> Calls]
      /\ \A u \in Clients : u # t => call'[u] = call[u]
      /\ t \in Clients => /\ call'[t].session <= generation
                          /\ call'[t].step # "join"
                          /\ call'[t].step = "source" => call'[t].session # 0
  BY <1>2, <1>3 DEF ObserverInv, ObserverTypeOK, StoppedWereStarted, Calls, NoCall
<1>5. ObserverTypeOK'
  BY <1>1, <1>4 DEF ObserverInv, ObserverTypeOK
<1>6. StoppedWereStarted'
  BY <1>1, <1>4 DEF ObserverInv, StoppedWereStarted
<1>7. OneGeneration'
  BY <1>1 DEF ObserverInv, OneGeneration, Running
<1>8. StoppedSessionsEnd'
  <2>1. ASSUME NEW g, NEW u \in Clients, call[u] = [step |-> "join", session |-> g]
        PROVE  call'[u] = [step |-> "join", session |-> g]
    BY <2>1, <1>2, <1>4
  <2> QED
    BY <1>1, <2>1 DEF ObserverInv, StoppedSessionsEnd
<1> QED
  BY <1>5, <1>6, <1>7, <1>8 DEF ObserverInv

\* Whoever closes a source goes on to wait for its session.
LEMMA CloseSourceKeeps == ASSUME ObserverInv, NEW t \in Clients, CloseSource(t) PROVE ObserverInv'
<1> USE GenerationsAssumption
<1> DEFINE g == call[t].session
<1>1. /\ UNCHANGED <<generation, active, observer_closed, stage, terminal>>
      /\ call[t] \in Calls /\ call[t].step = "source" /\ g \in Sessions /\ g <= generation
      /\ source_closed' = source_closed \cup {g}
      /\ call' = [call EXCEPT ![t].step = "join"]
  BY DEF CloseSource, ObserverInv, ObserverTypeOK, StoppedWereStarted, Calls
<1>2. /\ call' \in [Clients -> Calls] /\ call'[t] = [step |-> "join", session |-> g]
      /\ \A u \in Clients : u # t => call'[u] = call[u]
  BY <1>1 DEF ObserverInv, ObserverTypeOK, Calls
<1>3. ObserverTypeOK'
  BY <1>1, <1>2 DEF ObserverInv, ObserverTypeOK
<1>4. StoppedWereStarted'
  BY <1>1, <1>2 DEF ObserverInv, StoppedWereStarted, Sessions
<1>5. OneGeneration'
  BY <1>1 DEF ObserverInv, OneGeneration, Running
<1>6. StoppedSessionsEnd'
  <2>1. ASSUME NEW h, NEW u \in Clients, call[u] = [step |-> "join", session |-> h]
        PROVE  call'[u] = [step |-> "join", session |-> h]
    BY <2>1, <1>1, <1>2
  <2> HIDE DEF g
  <2>2. ASSUME NEW h \in source_closed, stage[h] # "ended"
        PROVE  \E u \in Clients : call'[u] = [step |-> "join", session |-> h]
    BY <2>1, <2>2 DEF ObserverInv, StoppedSessionsEnd
  <2>3. \E u \in Clients : call'[u] = [step |-> "join", session |-> g]
    BY <1>2
  <2> QED
    BY <1>1, <2>2, <2>3 DEF StoppedSessionsEnd
<1> QED
  BY <1>3, <1>4, <1>5, <1>6 DEF ObserverInv

\* A caller waits until the session has ended.
LEMMA JoinSessionKeeps == ASSUME ObserverInv, NEW t \in Clients, JoinSession(t) PROVE ObserverInv'
<1> USE GenerationsAssumption
<1>1. /\ UNCHANGED <<generation, active, observer_closed, source_closed, stage, terminal>>
      /\ stage[call[t].session] = "ended" /\ call' = [call EXCEPT ![t] = NoCall]
  BY DEF JoinSession
<1>2. call' \in [Clients -> Calls] /\ call'[t] = NoCall /\ \A u \in Clients : u # t => call'[u] = call[u]
  BY <1>1 DEF ObserverInv, ObserverTypeOK, Calls, NoCall
<1>3. ObserverTypeOK' /\ OneGeneration'
  BY <1>1, <1>2 DEF ObserverInv, ObserverTypeOK, OneGeneration, Running
<1>4. StoppedWereStarted'
  BY <1>1, <1>2 DEF ObserverInv, ObserverTypeOK, StoppedWereStarted, NoCall
<1>5. StoppedSessionsEnd'
  <2>1. ASSUME NEW g, NEW u \in Clients, stage[g] # "ended", call[u] = [step |-> "join", session |-> g]
        PROVE  call'[u] = [step |-> "join", session |-> g]
    <3>1. u # t
      BY <2>1, <1>1
    <3> QED
      BY <2>1, <3>1, <1>2
  <2> QED
    BY <1>1, <2>1 DEF ObserverInv, StoppedSessionsEnd
<1> QED
  BY <1>3, <1>4, <1>5 DEF ObserverInv

-----------------------------------------------------------------------------
(***************************************************************************)
(* The session threads.                                                    *)
(***************************************************************************)

\* A session thread that only goes on, its own session still active.
LEMMA SessionGoesOn ==
  ASSUME ObserverInv, NEW g \in Sessions,
         UNCHANGED <<generation, active, observer_closed, source_closed, call>>,
         terminal' \in [Sessions -> Failures \cup {"none", "stopped"}],
         Running(g), NEW to \in {"started", "streaming", "closing"},
         stage' = [stage EXCEPT ![g] = to]
  PROVE  ObserverInv'
<1>1. /\ stage' \in [Sessions -> Stages] /\ stage'[g] = to /\ stage[g] \in {"opening", "started", "streaming"}
      /\ \A h \in Sessions : h # g => stage'[h] = stage[h]
  BY DEF ObserverInv, ObserverTypeOK, Stages, Running
<1>2. ObserverTypeOK' /\ StoppedWereStarted'
  BY <1>1 DEF ObserverInv, ObserverTypeOK, StoppedWereStarted
<1>3. OneGeneration'
  BY <1>1 DEF ObserverInv, OneGeneration, Running
<1>4. StoppedSessionsEnd'
  <2>1. ASSUME NEW h \in source_closed, stage'[h] # "ended" PROVE stage[h] # "ended"
    BY <2>1, <1>1 DEF ObserverInv, ObserverTypeOK
  <2> QED
    BY <2>1 DEF ObserverInv, StoppedSessionsEnd
<1> QED
  BY <1>2, <1>3, <1>4 DEF ObserverInv

LEMMA UnwindKeeps ==
  ASSUME ObserverInv, NEW g \in Sessions, NEW from \in {"opening", "started", "streaming"},
         NEW signal \in Failures \cup {"none", "stopped"}, Unwind(g, from, signal)
  PROVE  ObserverInv'
<1>1. terminal' \in [Sessions -> Failures \cup {"none", "stopped"}]
  BY DEF Unwind, ObserverInv, ObserverTypeOK
<1> QED
  BY <1>1, SessionGoesOn DEF Unwind, Move, Running

\* A session that takes itself out, and one that has published its signal.
LEMMA SessionLeaves ==
  ASSUME ObserverInv, NEW g \in Sessions, MarkInactive(g) \/ PublishTerminal(g)
  PROVE  ObserverInv'
<1> USE GenerationsAssumption
<1>1. /\ UNCHANGED <<generation, observer_closed, source_closed, terminal, call>>
      /\ stage[g] \in {"closing", "publishing"} /\ stage'[g] \in {"publishing", "ended"}
      /\ stage' \in [Sessions -> Stages]
      /\ \A h \in Sessions : h # g => stage'[h] = stage[h]
  BY DEF MarkInactive, PublishTerminal, Move, ObserverInv, ObserverTypeOK, Stages
<1>2. active' = IF active = g THEN 0 ELSE active
  <2>1. stage[g] = "publishing" => active # g
    BY DEF ObserverInv, OneGeneration
  <2> QED
    BY <2>1 DEF MarkInactive, PublishTerminal, Move
<1>3. ObserverTypeOK' /\ StoppedWereStarted'
  BY <1>1, <1>2 DEF ObserverInv, ObserverTypeOK, StoppedWereStarted
<1>4. OneGeneration'
  BY <1>1, <1>2 DEF ObserverInv, OneGeneration, Running, Sessions
<1>5. StoppedSessionsEnd'
  <2>1. ASSUME NEW h \in source_closed, stage'[h] # "ended" PROVE stage[h] # "ended"
    BY <2>1, <1>1 DEF ObserverInv, ObserverTypeOK
  <2> QED
    BY <1>1, <2>1 DEF ObserverInv, StoppedSessionsEnd
<1> QED
  BY <1>3, <1>4, <1>5 DEF ObserverInv

LEMMA SessionsKeep ==
  ASSUME ObserverInv, NEW g \in Sessions,
         \/ Open(g) \/ PublishStarted(g) \/ PublishRaises(g) \/ Stream(g)
         \/ MarkInactive(g) \/ PublishTerminal(g)
  PROVE  ObserverInv'
<1>1. CASE Open(g)
  <2>1. CASE Move(g, "opening", "started") /\ UNCHANGED terminal
    <3>1. terminal' \in [Sessions -> Failures \cup {"none", "stopped"}]
      BY <2>1 DEF ObserverInv, ObserverTypeOK
    <3> QED
      BY <2>1, <3>1, SessionGoesOn DEF Move, Running
  <2> QED
    BY <1>1, <2>1, UnwindKeeps DEF Open
<1>2. CASE PublishStarted(g)
  <2>1. terminal' \in [Sessions -> Failures \cup {"none", "stopped"}]
    BY <1>2 DEF PublishStarted, ObserverInv, ObserverTypeOK
  <2> QED
    BY <1>2, <2>1, SessionGoesOn DEF PublishStarted, Move, Running
<1>3. CASE PublishRaises(g)
  BY <1>3, UnwindKeeps DEF PublishRaises
<1>4. CASE Stream(g)
  BY <1>4, UnwindKeeps DEF Stream
<1>5. CASE MarkInactive(g) \/ PublishTerminal(g)
  BY <1>5, SessionLeaves
<1> QED
  BY <1>1, <1>2, <1>3, <1>4, <1>5
-----------------------------------------------------------------------------
(***************************************************************************)
(* The theorems.                                                           *)
(***************************************************************************)

LEMMA ObserverInvKept == ObserverInv /\ [Next]_vars => ObserverInv'
<1> SUFFICES ASSUME ObserverInv, [Next]_vars PROVE ObserverInv'
  OBVIOUS
<1>1. CASE ObserverNext
  BY <1>1, StartSessionKeeps, CallsKeep, CloseSourceKeeps, JoinSessionKeeps, SessionsKeep
     DEF ObserverNext, Threads
<1>2. CASE UNCHANGED observer
  BY <1>2 DEF observer, ObserverInv, ObserverTypeOK, StoppedWereStarted, OneGeneration, Running,
     StoppedSessionsEnd
<1> QED
  BY <1>1, <1>2, OnlyTheObserverMoves

LEMMA ObserverInvariant == Spec => []ObserverInv
BY ObserverInvInitially, ObserverInvKept, PTL DEF Spec

\* Whatever the supervisor, its attempt threads and the application call, only the
\* active generation of AdbDevicesObserver observes: none publishes a Started or a
\* snapshot after a later one has been allocated.
THEOREM OnlyOneGenerationObserves == Spec => []OneGeneration
<1>1. ObserverInv => OneGeneration
  BY DEF ObserverInv
<1> QED
  BY <1>1, ObserverInvariant, PTL

\* A stop() of AdbDevicesObserver that has returned leaves no thread of the session
\* whose source it closed.
THEOREM StopLeavesNoThread == Spec => []StoppedSessionsEnd
<1>1. ObserverInv => StoppedSessionsEnd
  BY DEF ObserverInv
<1> QED
  BY <1>1, ObserverInvariant, PTL
-----------------------------------------------------------------------------
(***************************************************************************)
(* Sources.  The observer gives each session a source of its own, closes    *)
(* it, and hears of it only what the contract of sources allows.            *)
(***************************************************************************)

\* How far the thread of session g got with its source.
SourceStage(g) ==
  CASE stage[g] = "none" -> "new"
    [] stage[g] = "opening" -> "opening"
    [] stage[g] \in {"started", "streaming"} -> "streaming"
    [] stage[g] \notin {"none", "opening", "started", "streaming"} ->
         IF terminal[g] = "stopped" THEN "stopped" ELSE IF terminal[g] = "none" THEN "left" ELSE "failed"
SessionHeld(g) == stage[g] \in {"opening", "started", "streaming", "closing"}

\* The source of session g, which only its own thread opens. Which system call a
\* close() interrupts is below this level.
Source(g) == INSTANCE SourceContract WITH
  Openers <- {g}, NoOpener <- 0, closed <- g \in source_closed,
  holder <- IF SessionHeld(g) THEN g ELSE 0,
  stage <- [r \in {g} |-> SourceStage(r)], interrupted <- {}

\* A session the observer starts gets a fresh source; one it may have had before is
\* being opened already.
SourceKeepsContract(g) ==
  /\ stage[g] = "none" => Source(g)!Init
  /\ [][Source(g)!Next]_(Source(g)!vars)

LEMMA FreshSource ==
  ASSUME NEW g \in Sessions, Init, stage[g] = "none"
  PROVE  Source(g)!Init
<1>1. g \notin source_closed
  BY DEF Init, ObserverInit
<1>2. SourceStage(g) = "new" /\ ~SessionHeld(g)
  BY DEF SourceStage, SessionHeld
<1> QED
  BY <1>1, <1>2 DEF Source!Init

\* What the contract sees of a session whose thread and source stay as they are.
LEMMA SourceRests ==
  ASSUME NEW g \in Sessions, stage'[g] = stage[g], terminal'[g] = terminal[g],
         g \in source_closed' <=> g \in source_closed
  PROVE  UNCHANGED Source(g)!vars
<1>1. SourceStage(g)' = SourceStage(g) /\ (SessionHeld(g)' <=> SessionHeld(g))
  BY DEF SourceStage, SessionHeld
<1> QED
  BY <1>1 DEF Source!vars

\* A step of the session's thread that goes from one stage of the contract to another.
LEMMA SourceBecomes ==
  ASSUME NEW g \in Sessions, NEW from, SourceStage(g) \in from, NEW to, SourceStage(g)' = to,
         UNCHANGED source_closed
  PROVE  Source(g)!Become(g, from, to)
<1>1. [r \in {g} |-> SourceStage(r)][g] \in from
  OBVIOUS
<1>2. [r \in {g} |-> SourceStage(r)]' = [[r \in {g} |-> SourceStage(r)] EXCEPT ![g] = to]
  OBVIOUS
<1> QED
  BY <1>1, <1>2 DEF Source!Become

\* Each step of the session's thread is one of the contract's, or none.
LEMMA SourceRuns ==
  ASSUME ObserverInv, NEW g \in Sessions,
         \/ Open(g) \/ PublishStarted(g) \/ PublishRaises(g) \/ Stream(g)
         \/ MarkInactive(g) \/ PublishTerminal(g)
  PROVE  Source(g)!Next \/ UNCHANGED Source(g)!vars
<1>1. /\ stage \in [Sessions -> Stages] /\ terminal \in [Sessions -> Failures \cup {"none", "stopped"}]
      /\ UNCHANGED source_closed
  BY DEF ObserverInv, ObserverTypeOK, Open, PublishStarted, PublishRaises, Stream, MarkInactive, PublishTerminal,
         Unwind, Move
<1>2. ASSUME NEW from \in {"opening", "started", "streaming"}, NEW signal \in Failures \cup {"none", "stopped"},
             Unwind(g, from, signal)
      PROVE  /\ SourceStage(g) = IF from = "opening" THEN "opening" ELSE "streaming"
             /\ SourceStage(g)' = IF signal = "stopped" THEN "stopped" ELSE IF signal = "none" THEN "left" ELSE "failed"
             /\ SessionHeld(g) /\ SessionHeld(g)'
  BY <1>1, <1>2 DEF Unwind, Move, SourceStage, SessionHeld
<1>3. ASSUME NEW from \in {"opening", "started", "streaming"}, NEW failure \in Failures, Unwind(g, from, failure)
      PROVE  Source(g)!Fail(g)
  <2>1. SourceStage(g) \in {"opening", "streaming"} /\ SourceStage(g)' = "failed" /\ SessionHeld(g) /\ SessionHeld(g)'
    BY <1>2, <1>3 DEF Failures
  <2>2. Source(g)!Become(g, {"opening", "streaming"}, "failed")
    BY <1>1, <2>1, SourceBecomes
  <2> QED
    BY <2>1, <2>2 DEF Source!Fail, Source!Live
<1>4. ASSUME NEW from \in {"opening", "started", "streaming"}, g \in source_closed, Unwind(g, from, "stopped")
      PROVE  Source(g)!Stop(g)
  <2>1. SourceStage(g) \in {"opening", "streaming"} /\ SourceStage(g)' = "stopped" /\ SessionHeld(g) /\ SessionHeld(g)'
    BY <1>2, <1>4
  <2>2. Source(g)!Become(g, {"opening", "streaming"}, "stopped")
    BY <1>1, <2>1, SourceBecomes
  <2> QED
    BY <1>4, <2>1, <2>2 DEF Source!Stop, Source!Live
<1>5. ASSUME NEW from \in {"started", "streaming"}, Unwind(g, from, "none")
      PROVE  Source(g)!Leave(g)
  <2>1. SourceStage(g) = "streaming" /\ SourceStage(g)' = "left" /\ SessionHeld(g) /\ SessionHeld(g)'
    BY <1>2, <1>5
  <2>2. Source(g)!Become(g, {"streaming"}, "left")
    BY <1>1, <2>1, SourceBecomes
  <2> QED
    BY <2>1, <2>2 DEF Source!Leave
<1>6. CASE Move(g, "opening", "started")
  <2>1. SourceStage(g) = "opening" /\ SourceStage(g)' = "streaming" /\ SessionHeld(g) /\ SessionHeld(g)'
    BY <1>1, <1>6 DEF Move, SourceStage, SessionHeld
  <2>2. Source(g)!Become(g, {"opening"}, "streaming")
    BY <1>1, <2>1, SourceBecomes
  <2>3. Source(g)!Stream(g)
    BY <2>1, <2>2 DEF Source!Stream
  <2> QED
    BY <2>3 DEF Source!Next
<1>7. CASE PublishStarted(g)
  <2>1. SourceStage(g)' = SourceStage(g) /\ SessionHeld(g) /\ SessionHeld(g)'
    BY <1>1, <1>7 DEF PublishStarted, Move, SourceStage, SessionHeld
  <2> QED
    BY <1>1, <2>1 DEF Source!vars
<1>8. CASE MarkInactive(g)
  <2>1. /\ stage[g] = "closing" /\ stage'[g] \in {"ended", "publishing"} /\ terminal' = terminal
    BY <1>1, <1>8 DEF MarkInactive
  <2>2. /\ SourceStage(g)' = SourceStage(g) /\ SourceStage(g) \in {"stopped", "left", "failed"}
        /\ SessionHeld(g) /\ ~SessionHeld(g)'
    BY <2>1 DEF SourceStage, SessionHeld
  <2>3. /\ (IF SessionHeld(g) THEN g ELSE 0) = g /\ (IF SessionHeld(g) THEN g ELSE 0)' = 0
        /\ [r \in {g} |-> SourceStage(r)][g] \notin {"opening", "streaming"}
        /\ [r \in {g} |-> SourceStage(r)]' = [r \in {g} |-> SourceStage(r)]
    BY <2>2
  <2>4. Source(g)!Release(g)
    BY <1>1, <2>3 DEF Source!Release, Source!Live
  <2> QED
    BY <2>4 DEF Source!Next
<1>9. CASE PublishTerminal(g)
  <2>1. /\ stage[g] = "publishing" /\ stage'[g] = "ended" /\ terminal' = terminal
    BY <1>1, <1>9 DEF PublishTerminal, Move
  <2>2. SourceStage(g)' = SourceStage(g) /\ ~SessionHeld(g) /\ ~SessionHeld(g)'
    BY <2>1 DEF SourceStage, SessionHeld
  <2> QED
    BY <1>1, <2>2 DEF Source!vars
<1>10. CASE Open(g)
  BY <1>3, <1>4, <1>6, <1>10 DEF Open, Source!Next
<1>11. CASE Stream(g)
  BY <1>3, <1>4, <1>11 DEF Stream, Source!Next
<1>12. CASE PublishRaises(g)
  BY <1>5, <1>12 DEF PublishRaises, Source!Next
<1> QED
  BY <1>7, <1>8, <1>9, <1>10, <1>11, <1>12

\* The observer starts a session on a source nobody has, or closes the source of one.
LEMMA SourceIsStarted ==
  ASSUME ObserverInv, NEW g \in Sessions, StartSession
  PROVE  Source(g)!Next \/ UNCHANGED Source(g)!vars
<1>1. /\ stage \in [Sessions -> Stages] /\ generation \in Nat /\ source_closed' = source_closed /\ terminal' = terminal
      /\ stage' = [stage EXCEPT ![generation + 1] = "opening"]
  BY GenerationsAssumption DEF StartSession, ObserverInv, ObserverTypeOK
<1>2. CASE g # generation + 1
  BY <1>1, <1>2, SourceRests
<1>3. CASE g = generation + 1
  <2>1. stage[g] = "none" /\ stage'[g] = "opening" /\ g \notin source_closed
    BY <1>1, <1>3 DEF ObserverInv, OneGeneration, StoppedWereStarted, Sessions
  <2>2. SourceStage(g) = "new" /\ SourceStage(g)' = "opening" /\ ~SessionHeld(g) /\ SessionHeld(g)'
    BY <2>1 DEF SourceStage, SessionHeld
  <2>3. Source(g)!Become(g, {"new"}, "opening")
    BY <1>1, <2>2, SourceBecomes
  <2>4. Source(g)!Open(g)
    BY <2>1, <2>2, <2>3 DEF Source!Open
  <2> QED
    BY <2>4 DEF Source!Next
<1> QED
  BY <1>2, <1>3

LEMMA SourceIsClosed ==
  ASSUME ObserverInv, NEW g \in Sessions, NEW t \in Clients, CloseSource(t)
  PROVE  Source(g)!Next \/ UNCHANGED Source(g)!vars
<1>1. /\ stage' = stage /\ terminal' = terminal /\ source_closed' = source_closed \cup {call[t].session}
  BY DEF CloseSource
<1>2. CASE g # call[t].session
  BY <1>1, <1>2, SourceRests
<1>3. CASE g = call[t].session
  <2>1. g \in source_closed' /\ SourceStage(g)' = SourceStage(g) /\ (SessionHeld(g)' <=> SessionHeld(g))
    BY <1>1, <1>3 DEF SourceStage, SessionHeld
  <2>2. Source(g)!Close
    BY <2>1 DEF Source!Close
  <2> QED
    BY <2>2 DEF Source!Next
<1> QED
  BY <1>2, <1>3

\* AdbDevicesObserver relies on AdbTrackDevicesSource for no more than the contract that
\* TrackDevicesSource implements: what each session meets on its source (opened once, and
\* only while it is open; an orderly end only after close(); a failure at any time; given
\* back once its thread has left it) is a behaviour of that contract, for every number of
\* sessions, clients and attempt threads.
THEOREM ObserverKeepsSourceContract ==
  ASSUME NEW g \in Sessions
  PROVE  Spec => SourceKeepsContract(g)
<1>1. Init => (stage[g] = "none" => Source(g)!Init)
  BY FreshSource
<1>2. ObserverInv /\ [Next]_vars => [Source(g)!Next]_(Source(g)!vars)
  <2> SUFFICES ASSUME ObserverInv, [Next]_vars
               PROVE  Source(g)!Next \/ UNCHANGED Source(g)!vars
    OBVIOUS
  <2>1. CASE UNCHANGED observer
    BY <2>1, SourceRests DEF observer
  <2>2. CASE StartSession
    BY <2>2, SourceIsStarted
  <2>3. ASSUME NEW t \in Threads, CloseObserver(t)
        PROVE  UNCHANGED Source(g)!vars
    BY <2>3, SourceRests DEF CloseObserver
  <2>4. ASSUME NEW t \in Clients, Stop(t) \/ StopActive(t) \/ CloseSource(t) \/ JoinSession(t)
        PROVE  Source(g)!Next \/ UNCHANGED Source(g)!vars
    <3>1. CASE Stop(t) \/ StopActive(t) \/ JoinSession(t)
      BY <3>1, SourceRests DEF Stop, StopActive, ReadActive, JoinSession
    <3> QED
      BY <2>4, <3>1, SourceIsClosed
  <2>5. ASSUME NEW h \in Sessions,
               \/ Open(h) \/ PublishStarted(h) \/ PublishRaises(h) \/ Stream(h)
               \/ MarkInactive(h) \/ PublishTerminal(h)
        PROVE  Source(g)!Next \/ UNCHANGED Source(g)!vars
    <3>1. CASE h = g
      BY <2>5, <3>1, SourceRuns
    <3>2. CASE h # g
      <4>1. stage'[g] = stage[g] /\ terminal'[g] = terminal[g] /\ source_closed' = source_closed
        BY <2>5, <3>2 DEF Open, PublishStarted, PublishRaises, Stream, MarkInactive, PublishTerminal, Unwind, Move,
           ObserverInv, ObserverTypeOK
      <4> QED
        BY <4>1, SourceRests
    <3> QED
      BY <3>1, <3>2
  <2> QED
    BY <2>1, <2>2, <2>3, <2>4, <2>5, OnlyTheObserverMoves DEF ObserverNext
<1> QED
  BY <1>1, <1>2, ObserverInvariant, PTL DEF Spec, SourceKeepsContract
=============================================================================
