-------------------------- MODULE TransportPreparation --------------------------
(***************************************************************************)
(* AdbTransportPreparationOrchestrator.prepare (adb/transport/             *)
(* preparation.py): one bounded episode that waits until a configured      *)
(* transport is ready, connecting it at most once, on the evidence of one  *)
(* snapshot query and of the signals of one observation session.           *)
(*                                                                         *)
(* The device, the sessions and the deadline run beside the episode.  A    *)
(* step of the episode is one call it makes or one signal it takes from    *)
(* its queue.  A snapshot is the number of an inventory version.           *)
(***************************************************************************)
EXTENDS Naturals, Sequences

CONSTANTS
  MaxVersion,      \* bound: inventory versions
  MaxGeneration,   \* bound: observation sessions
  HasAddress,      \* configuration.connect_address is not None
  PublishMayRaise  \* EventBus.publish may raise

ASSUME BoundsAssumption ==
  /\ MaxVersion \in Nat \ {0}
  /\ MaxGeneration \in Nat
  /\ HasAddress \in BOOLEAN /\ PublishMayRaise \in BOOLEAN

VARIABLES
  inventory,     \* what the server lists of the serial, version by version
  generation,    \* observation sessions so far
  session,       \* observation.active_session_id; 0: None
  started,       \* the session has published its Started
  delivered,     \* the version the session delivered last
  ending,        \* the last signals that sessions which left have still to publish
  step,          \* what the episode does next
  bound,         \* session_id, the session the episode is bound to
  subscriptions, \* how many of its subscriptions the episode has
  inbox,         \* the collected signals
  attempts,      \* the statuses of the connect attempts
  present,       \* presence is not None
  evidence,      \* the version evaluated last; 0: none yet
  seen,          \* the latest version evaluated
  queried,       \* the one-shot query succeeded
  baseline,      \* the version the session had delivered when the episode began
  ended,         \* sessions whose end was signalled while the episode was subscribed
  result

world == <<inventory, generation, session, started, delivered, ending>>
locals == <<bound, attempts, present, evidence, seen, queried, baseline>>
vars == <<world, locals, step, subscriptions, inbox, ended, result>>

\* How policy and resolution see a row: AMBIGUOUS, ABSENT, or RESOLVED in a state
\* that is acceptable, blocked or neither.
Rows == {"ambiguous", "absent", "ready", "blocked", "waiting"}
Kinds == {"started", "snapshot", "failed", "stopped"}
Signals == [session : 1 .. MaxGeneration, kind : Kinds, version : 0 .. MaxVersion]

\* What the collector is subscribed to, in this order.
Subscriptions == <<"snapshot", "failed", "stopped", "started">>

Results == {"satisfied", "failed", "timed_out", "blocked", "ambiguous",
            "observation_failed", "observation_stopped", "observation_replaced"}

(***************************************************************************)
(* Every variable stays in the set of values the code gives it.            *)
(***************************************************************************)
TypeOK ==
  /\ inventory \in Seq(Rows)
  /\ generation \in 0 .. MaxGeneration /\ session \in {0, generation}
  /\ started \in BOOLEAN /\ delivered \in 0 .. Len(inventory)
  /\ ending \subseteq Signals
  /\ step \in {"begin", "subscribe", "query", "connect", "wait", "complete", "returned",
               "raised"}
  /\ bound \in 0 .. generation
  /\ subscriptions \in 0 .. 4 /\ inbox \in Seq(Signals)
  /\ attempts \in Seq({"failed", "other"})
  /\ present \in BOOLEAN /\ queried \in BOOLEAN
  /\ evidence \in 0 .. Len(inventory) /\ seen \in 0 .. Len(inventory)
  /\ baseline \in 0 .. Len(inventory)
  /\ ended \subseteq 1 .. MaxGeneration
  /\ result \in Results \cup {"none"}

Init ==
  /\ inventory \in {<<row>> : row \in Rows}
  /\ generation = 0 /\ session = 0 /\ started = FALSE /\ delivered = 0 /\ ending = {}
  /\ step = "begin" /\ subscriptions = 0
  /\ bound = 0 /\ inbox = <<>> /\ attempts = <<>> /\ present = FALSE
  /\ evidence = 0 /\ seen = 0 /\ queried = FALSE /\ baseline = 0
  /\ ended = {}
  /\ result = "none"

-----------------------------------------------------------------------------
(* The server and the observer.                                              *)

\* Mutant: the episode subscribes after its query and its attempt.
SubscribedLate(kind) == step = "wait"

\* The collector has been subscribed to these signals.
Subscribed(kind) == \E i \in 1 .. subscriptions : Subscriptions[i] = kind

\* A publication calls its subscribers before it returns.
Published(signal) ==
  inbox' = IF Subscribed(signal.kind) THEN Append(inbox, signal) ELSE inbox

InventoryChanges ==
  /\ Len(inventory) < MaxVersion
  /\ \E row \in Rows : inventory' = Append(inventory, row)
  /\ UNCHANGED <<generation, session, started, delivered, ending, locals, step,
                 subscriptions, inbox, ended, result>>

\* A new session may begin while the end of the last one is still unpublished.
SessionBegins ==
  /\ session = 0 /\ generation < MaxGeneration
  /\ generation' = generation + 1 /\ session' = generation + 1
  /\ started' = FALSE /\ delivered' = 0
  /\ UNCHANGED <<inventory, ending, locals, step, subscriptions, inbox, ended, result>>

\* Its source is open.
SessionStarted ==
  /\ session # 0 /\ ~started
  /\ started' = TRUE
  /\ Published([session |-> session, kind |-> "started", version |-> 0])
  /\ UNCHANGED <<inventory, generation, session, delivered, ending, locals, step,
                 subscriptions, ended, result>>

SnapshotObserved ==
  /\ session # 0 /\ started
  /\ \E v \in (delivered + 1) .. Len(inventory) :
       /\ delivered' = v
       /\ Published([session |-> session, kind |-> "snapshot", version |-> v])
  /\ UNCHANGED <<inventory, generation, session, started, ending, locals, step,
                 subscriptions, ended, result>>

\* A session, opened or not, leaves the observer before its end is published; one
\* whose thread meets an exception it does not catch has none to publish.
SessionLeaves ==
  /\ session # 0
  /\ session' = 0
  /\ \/ \E kind \in {"failed", "stopped"} :
          ending' = ending \cup {[session |-> session, kind |-> kind, version |-> 0]}
     \/ UNCHANGED ending
  /\ UNCHANGED <<inventory, generation, started, delivered, locals, step, subscriptions,
                 inbox, ended, result>>

SessionEndPublished ==
  /\ \E signal \in ending :
       /\ Published(signal)
       /\ ended' = IF Subscribed(signal.kind) THEN ended \cup {signal.session} ELSE ended
       /\ ending' = ending \ {signal}
  /\ UNCHANGED <<inventory, generation, session, started, delivered, locals, step,
                 subscriptions, result>>

-----------------------------------------------------------------------------
(* The episode.                                                              *)

\* The active session is read first; without one prepare() raises.
ReadSession ==
  /\ step = "begin"
  /\ bound' = session /\ baseline' = delivered
  /\ step' = IF session = 0 THEN "raised" ELSE "subscribe"
  /\ UNCHANGED <<world, attempts, present, evidence, seen, queried, subscriptions, inbox,
                 ended, result>>

\* The next of the subscriptions.
Subscribe ==
  /\ step = "subscribe"
  /\ subscriptions' = subscriptions + 1
  /\ step' = IF subscriptions' = 4 THEN "query" ELSE "subscribe"
  /\ UNCHANGED <<world, locals, inbox, ended, result>>

\* An exception leaves prepare(), after the subscriptions have gone.
Raises == step' = "raised" /\ subscriptions' = 0 /\ inbox' = <<>>

Complete(status) ==
  /\ result' = status
  /\ step' = "complete"

\* Mutant: connect whenever the transport is absent, whatever came before.
EvaluateEager(v) ==
  LET row == inventory[v] IN
  /\ evidence' = v /\ seen' = IF v > seen THEN v ELSE seen
  /\ present' = (present \/ row \in {"ready", "blocked", "waiting"})
  /\ \/ row = "ready" /\ Complete("satisfied")
     \/ row \in {"ambiguous", "blocked"} /\ Complete(row)
     \/ /\ row \in {"absent", "waiting"}
        /\ step' = IF row = "absent" /\ HasAddress THEN "connect" ELSE "wait"
        /\ UNCHANGED result

\* Mutant: a transport that is present counts as ready.
EvaluatePresence(v) ==
  LET row == inventory[v] IN
  /\ evidence' = v /\ seen' = IF v > seen THEN v ELSE seen
  /\ present' = (present \/ row \in {"ready", "blocked", "waiting"})
  /\ \/ row \in {"ready", "waiting"} /\ Complete("satisfied")
     \/ row \in {"ambiguous", "blocked"} /\ Complete(row)
     \/ /\ row = "absent"
        /\ step' = IF attempts = <<>> /\ HasAddress THEN "connect" ELSE "wait"
        /\ UNCHANGED result

\* _evaluate_snapshot of version v, and what the loop does with its outcome.
Evaluate(v) ==
  LET row == inventory[v] IN
  /\ evidence' = v /\ seen' = IF v > seen THEN v ELSE seen
  /\ present' = (present \/ row \in {"ready", "blocked", "waiting"})
  /\ \/ row = "ready" /\ Complete("satisfied")
     \/ row \in {"ambiguous", "blocked"} /\ Complete(row)
     \/ /\ row \in {"absent", "waiting"}
        /\ step' = IF ~present' /\ attempts = <<>> /\ HasAddress
                         THEN "connect" ELSE "wait"
        /\ UNCHANGED result

\* The one-shot query; an AdbError leaves the decision to the signals, and a ValueError
\* of a row that its type refuses is not caught.
Query ==
  /\ step = "query"
  /\ \/ Evaluate(Len(inventory)) /\ queried' = TRUE /\ UNCHANGED <<subscriptions, inbox>>
     \/ /\ step' = "wait"
        /\ UNCHANGED <<present, evidence, seen, queried, subscriptions, inbox, result>>
     \/ Raises /\ UNCHANGED <<present, evidence, seen, queried, result>>
  /\ UNCHANGED <<world, bound, attempts, baseline, ended>>

\* The connect attempt and the publication of its result, either of which may raise.
Connect ==
  /\ step = "connect"
  /\ \E status \in {"failed", "other"} : attempts' = Append(attempts, status)
  /\ \/ step' = "wait" /\ UNCHANGED <<subscriptions, inbox>>
     \/ Raises
  /\ UNCHANGED <<world, bound, present, evidence, seen, queried, baseline, ended, result>>

\* Mutant: the signals of the bound session count as those of an older one.
FencedOut(signal) == signal.session <= bound

\* Signals of an older session are passed over.
Fenced(signal) == signal.session < bound

\* The next signal of the queue.
Receive ==
  /\ step = "wait" /\ inbox # <<>>
  /\ inbox' = Tail(inbox)
  /\ LET signal == Head(inbox) IN
       IF Fenced(signal) \/ (signal.session = bound /\ signal.kind = "started")
         THEN UNCHANGED <<step, present, evidence, seen, result>>
       ELSE IF signal.session > bound
         THEN Complete("observation_replaced") /\ UNCHANGED <<present, evidence, seen>>
       ELSE IF signal.kind = "snapshot"
         THEN Evaluate(signal.version)
       ELSE /\ Complete(IF signal.kind = "failed" THEN "observation_failed"
                                                  ELSE "observation_stopped")
            /\ UNCHANGED <<present, evidence, seen>>
  /\ UNCHANGED <<world, bound, attempts, queried, baseline, subscriptions, ended>>

\* Mutant: once an attempt has been made the episode waits for its effect.
TimeOutUnattempted ==
  /\ step = "wait" /\ inbox = <<>> /\ attempts = <<>>
  /\ Complete("timed_out")
  /\ UNCHANGED <<world, locals, subscriptions, inbox, ended>>

\* Mutant: the status of the last attempt becomes the result.
TimeOutByAttempt ==
  /\ step = "wait" /\ inbox = <<>>
  /\ Complete(IF attempts # <<>> THEN attempts[Len(attempts)] ELSE "timed_out")
  /\ UNCHANGED <<world, locals, subscriptions, inbox, ended>>

\* The deadline, which only an empty queue lets pass.
TimeOut ==
  /\ step = "wait" /\ inbox = <<>>
  /\ Complete(IF attempts # <<>> /\ attempts[Len(attempts)] = "failed"
                THEN "failed" ELSE "timed_out")
  /\ UNCHANGED <<world, locals, subscriptions, inbox, ended>>

\* publish(PreparationCompleted), which may raise, then the subscriptions go.
Return ==
  /\ step = "complete"
  /\ \/ step' = "returned" /\ subscriptions' = 0 /\ inbox' = <<>>
     \/ PublishMayRaise /\ Raises
  /\ UNCHANGED <<world, locals, ended, result>>

Episode ==
  \/ ReadSession \/ Subscribe \/ Query \/ Connect \/ Receive \/ TimeOut \/ Return

Environment ==
  \/ InventoryChanges \/ SessionBegins \/ SessionStarted \/ SnapshotObserved
  \/ SessionLeaves \/ SessionEndPublished

Rest == step \in {"returned", "raised"} /\ UNCHANGED vars

\* Bound: what happens once the result is known no longer concerns the episode.
Going == step \notin {"complete", "returned", "raised"}

Next == Episode \/ (Going /\ Environment) \/ Rest

Spec == Init /\ [][Next]_vars

-----------------------------------------------------------------------------
(* Properties.                                                               *)

\* The transport is connected at most once, and only while the episode has never
\* seen it present.
ConnectsOnce ==
  /\ Len(attempts) <= 1
  /\ step = "connect" => attempts = <<>> /\ ~present /\ inventory[evidence] = "absent"

\* A satisfied result rests on a snapshot that says the transport is ready and that
\* is no older than what the session had delivered when the episode began.
SatisfiedByEvidence ==
  result = "satisfied" =>
    /\ inventory[evidence] = "ready"
    /\ evidence >= baseline

\* No update is lost between the query and the stream: once the query has been
\* answered, an episode that waits for more has evaluated everything its session
\* has delivered, before, during and after the query.
NothingIsMissed ==
  step = "wait" /\ inbox = <<>> /\ queried /\ session = bound => seen >= delivered

\* An episode never waits for, or times out on, a session whose end it was told of,
\* and is not ended by the end of a session it is not bound to.
SessionEndIsNoticed ==
  /\ (step = "wait" /\ inbox = <<>>) \/ result \in {"timed_out", "failed"} =>
       bound \notin ended
  /\ result \in {"observation_failed", "observation_stopped"} => bound \in ended

-----------------------------------------------------------------------------
(* Liveness: the calling thread runs and the deadline passes.                *)

FairSpec == Spec /\ WF_vars(Episode)

\* Every call of prepare() ends, with a result or with an exception.
PreparationEnds == <>(step \in {"returned", "raised"})

=============================================================================
