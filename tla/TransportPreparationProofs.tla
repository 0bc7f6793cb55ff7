----------------------- MODULE TransportPreparationProofs -----------------------
(***************************************************************************)
(* What one preparation episode promises, for every number of inventory    *)
(* versions and of observation sessions, with or without an address.       *)
(***************************************************************************)
EXTENDS TransportPreparation, TLAPS

(***************************************************************************)
(* The inductive invariant.                                                *)
(***************************************************************************)

\* There is a result only once the episode is over, a session it is bound to once it
\* has begun, nothing is collected before that, and its subscriptions are complete
\* before it makes its query.
EpisodeIsOrdered ==
  /\ Len(inventory) \in 1 .. MaxVersion
  /\ step = "begin" => subscriptions = 0 /\ inbox = <<>> /\ ended = {}
  /\ step = "subscribe" => subscriptions < 4
  /\ step \in {"query", "connect", "wait"} => subscriptions = 4
  /\ step \in {"begin", "subscribe", "query"} => ~queried
  /\ step \notin {"begin", "raised"} => bound # 0
  /\ Going => result = "none"
  /\ step = "connect" \/ result = "satisfied" => evidence # 0
  /\ \A signal \in ending : signal.kind \in {"failed", "stopped"} /\ signal.version = 0

\* What the queue holds of the bound session came from that session: a snapshot no
\* older than the baseline, an end that was signalled.
Backed(signal) ==
  signal.session = bound =>
    /\ signal.kind = "snapshot" => signal.version \in 1 .. Len(inventory) /\ signal.version >= baseline
    /\ signal.kind \in {"failed", "stopped"} => bound \in ended

QueueIsBacked ==
  /\ \A i \in 1 .. Len(inbox) : Backed(inbox[i])
  /\ session = bound /\ step # "begin" => delivered >= baseline

\* A signal of the bound session with one of these kinds waits in the queue.
Queued(kinds, versions) ==
  \E i \in 1 .. Len(inbox) :
    inbox[i].session = bound /\ inbox[i].kind \in kinds /\ inbox[i].version \in versions

\* What the bound session delivered last was evaluated, or waits in the queue.
DeliveryIsQueued ==
  queried /\ session = bound /\ step \in {"connect", "wait"} =>
    seen >= delivered \/ Queued({"snapshot"}, {delivered})

\* The end of the bound session waits in the queue until the episode takes it.
EndIsQueued ==
  bound \in ended /\ step \in {"subscribe", "query", "connect", "wait"} => Queued({"failed", "stopped"}, {0})

PreparationInv ==
  /\ TypeOK
  /\ EpisodeIsOrdered
  /\ QueueIsBacked
  /\ DeliveryIsQueued
  /\ EndIsQueued
  /\ ConnectsOnce
  /\ SatisfiedByEvidence
  /\ SessionEndIsNoticed
-----------------------------------------------------------------------------
(***************************************************************************)
(* Lemmas.                                                                 *)
(***************************************************************************)

\* A signal that is published is queued behind the others, if anywhere.
LEMMA PublishedIsQueued ==
  ASSUME NEW signal \in Signals, inbox \in Seq(Signals), Published(signal)
  PROVE  /\ inbox' \in Seq(Signals)
         /\ Len(inbox) <= Len(inbox')
         /\ \A i \in 1 .. Len(inbox) : inbox'[i] = inbox[i]
         /\ \A i \in 1 .. Len(inbox') : i > Len(inbox) => inbox'[i] = signal
         /\ Subscribed(signal.kind) => Len(inbox') = Len(inbox) + 1
         /\ ~Subscribed(signal.kind) => inbox' = inbox
BY DEF Published

\* Nothing is subscribed to before the episode has begun, and everything once the
\* query may be made.
LEMMA SubscriptionsGrow ==
  ASSUME PreparationInv, NEW kind
  PROVE  /\ Subscribed(kind) => step # "begin"
         /\ step \in {"query", "connect", "wait"} /\ kind \in Kinds => Subscribed(kind)
<1>1. step = "begin" => subscriptions = 0
  BY DEF PreparationInv, EpisodeIsOrdered
<1>2. step \in {"query", "connect", "wait"} => subscriptions = 4
  BY DEF PreparationInv, EpisodeIsOrdered
<1>3. /\ Subscriptions[1] = "snapshot" /\ Subscriptions[2] = "failed"
      /\ Subscriptions[3] = "stopped" /\ Subscriptions[4] = "started"
  BY DEF Subscriptions
<1> QED
  BY <1>1, <1>2, <1>3 DEF Subscribed, Kinds

\* The inventory only grows, up to the bound.
LEMMA InventoryChangesKeeps == PreparationInv /\ Going /\ InventoryChanges => PreparationInv'
<1> SUFFICES ASSUME PreparationInv, Going, InventoryChanges PROVE PreparationInv'
  OBVIOUS
<1> USE BoundsAssumption
<1>1. /\ inventory' \in Seq(Rows) /\ Len(inventory') = Len(inventory) + 1
      /\ \A v \in 1 .. Len(inventory) : inventory'[v] = inventory[v]
      /\ Len(inventory') <= MaxVersion
  BY DEF InventoryChanges, PreparationInv, TypeOK, EpisodeIsOrdered
<1>2. /\ UNCHANGED <<generation, session, started, delivered, ending, step, subscriptions, inbox, ended, result>>
      /\ UNCHANGED <<bound, attempts, present, evidence, seen, queried, baseline>>
  BY DEF InventoryChanges, locals
<1>3. TypeOK'
  BY <1>1, <1>2 DEF PreparationInv, TypeOK
<1>4. EpisodeIsOrdered'
  BY <1>1, <1>2 DEF PreparationInv, TypeOK, EpisodeIsOrdered, Going
<1>5. QueueIsBacked'
  BY <1>1, <1>2 DEF PreparationInv, TypeOK, QueueIsBacked, Backed
<1>6. DeliveryIsQueued' /\ EndIsQueued' /\ SessionEndIsNoticed'
  BY <1>2 DEF PreparationInv, DeliveryIsQueued, EndIsQueued, Queued, SessionEndIsNoticed
<1>7. ConnectsOnce' /\ SatisfiedByEvidence'
  BY <1>1, <1>2 DEF PreparationInv, TypeOK, EpisodeIsOrdered, ConnectsOnce, SatisfiedByEvidence, Going
<1> QED
  BY <1>3, <1>4, <1>5, <1>6, <1>7 DEF PreparationInv

\* A signal that the session publishes when it starts waits behind the others, and is
\* neither a delivery nor an end.
LEMMA SessionStartedKeeps == PreparationInv /\ Going /\ SessionStarted => PreparationInv'
<1> SUFFICES ASSUME PreparationInv, Going, SessionStarted PROVE PreparationInv'
  OBVIOUS
<1> USE BoundsAssumption
<1> DEFINE signal == [session |-> session, kind |-> "started", version |-> 0]
<1>1. /\ session \in 1 .. MaxGeneration /\ started' = TRUE
      /\ signal \in Signals /\ signal.kind = "started" /\ Published(signal)
  BY DEF SessionStarted, PreparationInv, TypeOK, Signals, Kinds
<1>2. /\ UNCHANGED <<inventory, generation, session, delivered, ending, step, subscriptions, ended, result>>
      /\ UNCHANGED <<bound, attempts, present, evidence, seen, queried, baseline>>
  BY DEF SessionStarted, locals
<1>3. /\ inbox' \in Seq(Signals) /\ Len(inbox) <= Len(inbox')
      /\ \A i \in 1 .. Len(inbox) : inbox'[i] = inbox[i]
      /\ \A i \in 1 .. Len(inbox') : i > Len(inbox) => inbox'[i] = signal
      /\ ~Subscribed(signal.kind) => inbox' = inbox
  BY <1>1, PublishedIsQueued DEF PreparationInv, TypeOK
<1>4. step = "begin" => inbox' = inbox
  BY <1>3, SubscriptionsGrow
<1> HIDE DEF signal
<1>5. TypeOK'
  BY <1>1, <1>2, <1>3 DEF PreparationInv, TypeOK
<1>6. EpisodeIsOrdered'
  BY <1>2, <1>4 DEF PreparationInv, EpisodeIsOrdered, Going
<1>7. QueueIsBacked'
  BY <1>1, <1>2, <1>3 DEF PreparationInv, TypeOK, QueueIsBacked, Backed
<1>8. \A kinds, versions : Queued(kinds, versions) => Queued(kinds, versions)'
  <2>1. Len(inbox) \in Nat /\ Len(inbox') \in Nat /\ Len(inbox) <= Len(inbox')
    BY <1>3 DEF PreparationInv, TypeOK
  <2> QED
    BY <2>1, <1>2, <1>3 DEF Queued
<1>9. DeliveryIsQueued' /\ EndIsQueued'
  <2>1. /\ Queued({"snapshot"}, {delivered}) => Queued({"snapshot"}, {delivered})'
        /\ Queued({"failed", "stopped"}, {0}) => Queued({"failed", "stopped"}, {0})'
    BY <1>2, <1>8
  <2> QED
    BY <1>2, <2>1 DEF PreparationInv, DeliveryIsQueued, EndIsQueued
<1>10. ConnectsOnce' /\ SatisfiedByEvidence'
  BY <1>2 DEF PreparationInv, ConnectsOnce, SatisfiedByEvidence
<1>11. SessionEndIsNoticed'
  BY <1>2, <1>3 DEF PreparationInv, TypeOK, SessionEndIsNoticed
<1> QED
  BY <1>5, <1>6, <1>7, <1>9, <1>10, <1>11 DEF PreparationInv

\* A new session is not the one the episode is bound to.
LEMMA SessionBeginsKeeps == PreparationInv /\ Going /\ SessionBegins => PreparationInv'
<1> SUFFICES ASSUME PreparationInv, Going, SessionBegins PROVE PreparationInv'
  OBVIOUS
<1> USE BoundsAssumption
<1>1. /\ generation' = generation + 1 /\ session' = generation' /\ started' = FALSE /\ delivered' = 0
      /\ generation' \in 1 .. MaxGeneration
      /\ generation \in Nat /\ bound \in Nat /\ bound <= generation
  BY DEF SessionBegins, PreparationInv, TypeOK
<1>2. /\ UNCHANGED <<inventory, ending, step, subscriptions, inbox, ended, result>>
      /\ UNCHANGED <<bound, attempts, present, evidence, seen, queried, baseline>>
  BY DEF SessionBegins, locals
<1>3. session' # bound'
  BY <1>1, <1>2
<1>4. TypeOK'
  <2>1. session' \in {0, generation'} /\ generation' \in 0 .. MaxGeneration /\ bound' \in 0 .. generation'
    BY <1>1, <1>2
  <2>2. delivered' \in 0 .. Len(inventory')
    BY <1>1, <1>2 DEF PreparationInv, TypeOK
  <2>3. started' \in BOOLEAN
    BY <1>1
  <2> QED
    BY <1>2, <2>1, <2>2, <2>3 DEF PreparationInv, TypeOK
<1>5. EpisodeIsOrdered'
  BY <1>2 DEF PreparationInv, EpisodeIsOrdered, Going
<1>6. QueueIsBacked' /\ DeliveryIsQueued'
  BY <1>2, <1>3 DEF PreparationInv, QueueIsBacked, Backed, DeliveryIsQueued
<1>7. EndIsQueued' /\ ConnectsOnce' /\ SatisfiedByEvidence' /\ SessionEndIsNoticed'
  BY <1>2 DEF PreparationInv, EndIsQueued, Queued, ConnectsOnce, SatisfiedByEvidence, SessionEndIsNoticed
<1> QED
  BY <1>4, <1>5, <1>6, <1>7 DEF PreparationInv

\* What the bound session delivers is queued behind what it delivered before.
LEMMA SnapshotObservedKeeps == PreparationInv /\ Going /\ SnapshotObserved => PreparationInv'
<1> SUFFICES ASSUME PreparationInv, Going, SnapshotObserved PROVE PreparationInv'
  OBVIOUS
<1> USE BoundsAssumption
<1> DEFINE signal(v) == [session |-> session, kind |-> "snapshot", version |-> v]
<1>1. PICK v \in (delivered + 1) .. Len(inventory) : delivered' = v /\ Published(signal(v))
  BY DEF SnapshotObserved
<1>2. /\ UNCHANGED <<inventory, generation, session, started, ending, step, subscriptions, ended, result>>
      /\ UNCHANGED <<bound, attempts, present, evidence, seen, queried, baseline>>
  BY DEF SnapshotObserved, locals
<1>3. /\ session # 0 /\ v \in 1 .. Len(inventory) /\ v > delivered /\ delivered \in Nat
      /\ signal(v) \in Signals
  BY DEF SnapshotObserved, PreparationInv, TypeOK, EpisodeIsOrdered, Signals, Kinds
<1>4. /\ inbox' \in Seq(Signals) /\ Len(inbox) <= Len(inbox')
      /\ \A i \in 1 .. Len(inbox) : inbox'[i] = inbox[i]
      /\ \A i \in 1 .. Len(inbox') : i > Len(inbox) => inbox'[i] = signal(v)
      /\ Subscribed("snapshot") => Len(inbox') = Len(inbox) + 1
      /\ ~Subscribed("snapshot") => inbox' = inbox
  BY <1>1, <1>3, signal(v).kind = "snapshot", PublishedIsQueued DEF PreparationInv, TypeOK
<1>5. signal(v).session = session /\ signal(v).kind = "snapshot" /\ signal(v).version = v
  OBVIOUS
<1> HIDE DEF signal
<1>6. TypeOK'
  BY <1>1, <1>2, <1>3, <1>4 DEF PreparationInv, TypeOK
<1>7. EpisodeIsOrdered'
  <2>1. step = "begin" => inbox' = inbox
    BY <1>4, SubscriptionsGrow
  <2> QED
    BY <1>2, <2>1 DEF PreparationInv, EpisodeIsOrdered, Going
<1>8. QueueIsBacked'
  <2>1. (session = bound /\ step # "begin") => v >= baseline
    BY <1>3 DEF PreparationInv, TypeOK, QueueIsBacked
  <2>2. Subscribed("snapshot") => step # "begin"
    BY SubscriptionsGrow
  <2>3. ASSUME NEW i \in 1 .. Len(inbox') PROVE Backed(inbox[i])'
    <3>1. CASE i <= Len(inbox)
      <4>1. i \in 1 .. Len(inbox) /\ inbox'[i] = inbox[i]
        BY <3>1, <1>4 DEF PreparationInv, TypeOK
      <4> QED
        BY <4>1, <1>2 DEF PreparationInv, QueueIsBacked, Backed
    <3>2. CASE i > Len(inbox)
      <4>1. inbox'[i] = signal(v) /\ Subscribed("snapshot")
        BY <3>2, <1>4 DEF PreparationInv, TypeOK
      <4> QED
        BY <4>1, <1>2, <1>3, <1>5, <2>1, <2>2 DEF Backed
    <3> QED
      BY <3>1, <3>2, <1>4 DEF PreparationInv, TypeOK
  <2> QED
    BY <1>1, <1>2, <2>1, <2>3 DEF QueueIsBacked
<1>9. DeliveryIsQueued'
  <2>1. SUFFICES ASSUME session = bound, step \in {"connect", "wait"}
                 PROVE  Queued({"snapshot"}, {delivered})'
    BY <1>2 DEF DeliveryIsQueued
  <2>2. Len(inbox') \in 1 .. Len(inbox') /\ inbox'[Len(inbox')] = signal(v)
    <3>1. Subscribed("snapshot")
      BY <2>1, SubscriptionsGrow DEF Kinds
    <3> QED
      BY <3>1, <1>4 DEF PreparationInv, TypeOK
  <2> QED
    BY <2>1, <2>2, <1>1, <1>2, <1>5 DEF Queued
<1>10. EndIsQueued'
  <2>1. Queued({"failed", "stopped"}, {0}) => Queued({"failed", "stopped"}, {0})'
    <3>1. Len(inbox) \in Nat /\ Len(inbox') \in Nat /\ Len(inbox) <= Len(inbox')
      BY <1>2, <1>4 DEF PreparationInv, TypeOK
    <3> QED
      BY <3>1, <1>2, <1>4 DEF Queued
  <2> QED
    BY <1>2, <2>1 DEF PreparationInv, EndIsQueued
<1>11. ConnectsOnce' /\ SatisfiedByEvidence'
  BY <1>2 DEF PreparationInv, ConnectsOnce, SatisfiedByEvidence
<1>12. SessionEndIsNoticed'
  BY <1>2, <1>4 DEF PreparationInv, TypeOK, SessionEndIsNoticed
<1> QED
  BY <1>6, <1>7, <1>8, <1>9, <1>10, <1>11, <1>12 DEF PreparationInv

\* A session that leaves has delivered what it has.
LEMMA SessionLeavesKeeps == PreparationInv /\ Going /\ SessionLeaves => PreparationInv'
<1> SUFFICES ASSUME PreparationInv, Going, SessionLeaves PROVE PreparationInv'
  OBVIOUS
<1> USE BoundsAssumption
<1>1. /\ session # 0 /\ session \in 1 .. MaxGeneration /\ session' = 0 /\ ending' \subseteq Signals
      /\ \A signal \in ending' : signal.kind \in {"failed", "stopped"} /\ signal.version = 0
  <2>1. session # 0 /\ session \in 1 .. MaxGeneration /\ session' = 0
    BY DEF SessionLeaves, PreparationInv, TypeOK
  <2>2. ending \subseteq Signals /\ \A signal \in ending : signal.kind \in {"failed", "stopped"} /\ signal.version = 0
    BY DEF PreparationInv, TypeOK, EpisodeIsOrdered
  <2>3. ASSUME NEW kind \in {"failed", "stopped"}
        PROVE  [session |-> session, kind |-> kind, version |-> 0] \in Signals
    BY <2>1 DEF Signals, Kinds
  <2> QED
    BY <2>1, <2>2, <2>3 DEF SessionLeaves
<1>2. /\ UNCHANGED <<inventory, generation, started, delivered, step, subscriptions, inbox, ended, result>>
      /\ UNCHANGED <<bound, attempts, present, evidence, seen, queried, baseline>>
  BY DEF SessionLeaves, locals
<1>3. TypeOK'
  BY <1>1, <1>2 DEF PreparationInv, TypeOK
<1>4. EpisodeIsOrdered'
  BY <1>1, <1>2 DEF PreparationInv, EpisodeIsOrdered, Going
<1>5. QueueIsBacked' /\ DeliveryIsQueued'
  <2>1. session' = bound' => step \in {"begin", "raised"}
    BY <1>1, <1>2 DEF PreparationInv, EpisodeIsOrdered
  <2>2. step # "raised"
    BY DEF Going
  <2> QED
    BY <1>2, <2>1, <2>2 DEF PreparationInv, QueueIsBacked, Backed, DeliveryIsQueued
<1>6. EndIsQueued' /\ ConnectsOnce' /\ SatisfiedByEvidence' /\ SessionEndIsNoticed'
  BY <1>2 DEF PreparationInv, EndIsQueued, Queued, ConnectsOnce, SatisfiedByEvidence, SessionEndIsNoticed
<1> QED
  BY <1>3, <1>4, <1>5, <1>6 DEF PreparationInv

\* An end that is signalled while the episode is subscribed is queued.
LEMMA SessionEndPublishedKeeps == PreparationInv /\ Going /\ SessionEndPublished => PreparationInv'
<1> SUFFICES ASSUME PreparationInv, Going, SessionEndPublished PROVE PreparationInv'
  OBVIOUS
<1> USE BoundsAssumption
<1>1. PICK last \in ending :
        /\ Published(last) /\ ending' = ending \ {last}
        /\ ended' = IF Subscribed(last.kind) THEN ended \cup {last.session} ELSE ended
  BY DEF SessionEndPublished
<1>2. /\ last \in Signals /\ last.kind \in {"failed", "stopped"} /\ last.version = 0
      /\ last.session \in 1 .. MaxGeneration
      /\ UNCHANGED <<inventory, generation, session, started, delivered, step, subscriptions, result>>
      /\ UNCHANGED <<bound, attempts, present, evidence, seen, queried, baseline>>
  BY DEF SessionEndPublished, PreparationInv, TypeOK, EpisodeIsOrdered, Signals, locals
<1>3. /\ inbox' \in Seq(Signals) /\ Len(inbox) <= Len(inbox')
      /\ \A i \in 1 .. Len(inbox) : inbox'[i] = inbox[i]
      /\ \A i \in 1 .. Len(inbox') : i > Len(inbox) => inbox'[i] = last
      /\ Subscribed(last.kind) => Len(inbox') = Len(inbox) + 1
      /\ ~Subscribed(last.kind) => inbox' = inbox
  BY <1>1, <1>2, PublishedIsQueued DEF PreparationInv, TypeOK
<1>4. TypeOK'
  BY <1>1, <1>2, <1>3 DEF PreparationInv, TypeOK
<1>5. EpisodeIsOrdered'
  <2>1. step = "begin" => inbox' = inbox /\ ended' = ended
    BY <1>1, <1>3, SubscriptionsGrow
  <2> QED
    BY <1>1, <1>2, <2>1 DEF PreparationInv, EpisodeIsOrdered, Going
<1>6. QueueIsBacked'
  <2>1. ASSUME NEW i \in 1 .. Len(inbox') PROVE Backed(inbox[i])'
    <3>1. CASE i <= Len(inbox)
      <4>1. i \in 1 .. Len(inbox) /\ inbox'[i] = inbox[i]
        BY <3>1, <1>3 DEF PreparationInv, TypeOK
      <4> QED
        BY <4>1, <1>1, <1>2 DEF PreparationInv, QueueIsBacked, Backed
    <3>2. CASE i > Len(inbox)
      <4>1. inbox'[i] = last /\ Subscribed(last.kind)
        BY <3>2, <1>3 DEF PreparationInv, TypeOK
      <4> QED
        BY <4>1, <1>1, <1>2 DEF Backed
    <3> QED
      BY <3>1, <3>2, <1>3 DEF PreparationInv, TypeOK
  <2> QED
    BY <1>2, <2>1 DEF PreparationInv, QueueIsBacked
<1>7. DeliveryIsQueued'
  <2>1. Queued({"snapshot"}, {delivered}) => Queued({"snapshot"}, {delivered})'
    <3>1. Len(inbox) \in Nat /\ Len(inbox') \in Nat /\ Len(inbox) <= Len(inbox')
      BY <1>3 DEF PreparationInv, TypeOK
    <3> QED
      BY <3>1, <1>2, <1>3 DEF Queued
  <2> QED
    BY <1>2, <2>1 DEF PreparationInv, DeliveryIsQueued
<1>8. EndIsQueued'
  <2>1. SUFFICES ASSUME bound \in ended', step \in {"subscribe", "query", "connect", "wait"}
                 PROVE  Queued({"failed", "stopped"}, {0})'
    BY <1>2 DEF EndIsQueued
  <2>2. CASE bound \in ended
    <3>1. PICK i \in 1 .. Len(inbox) :
             inbox[i].session = bound /\ inbox[i].kind \in {"failed", "stopped"} /\ inbox[i].version \in {0}
      BY <2>1, <2>2 DEF PreparationInv, EndIsQueued, Queued
    <3>2. i \in 1 .. Len(inbox') /\ inbox'[i] = inbox[i]
      BY <1>3 DEF PreparationInv, TypeOK
    <3> QED
      BY <3>1, <3>2, <1>2 DEF Queued
  <2>3. CASE bound = last.session /\ Subscribed(last.kind)
    <3>1. Len(inbox') \in 1 .. Len(inbox') /\ inbox'[Len(inbox')] = last
      BY <2>3, <1>3 DEF PreparationInv, TypeOK
    <3> QED
      BY <3>1, <2>3, <1>1, <1>2 DEF Queued
  <2> QED
    BY <2>1, <2>2, <2>3, <1>1
<1>9. ConnectsOnce' /\ SatisfiedByEvidence'
  BY <1>2 DEF PreparationInv, ConnectsOnce, SatisfiedByEvidence
<1>10. SessionEndIsNoticed'
  <2>1. result' = "none"
    BY <1>2 DEF PreparationInv, EpisodeIsOrdered
  <2>2. ASSUME step = "wait", inbox' = <<>> PROVE bound \notin ended'
    <3>1. Subscribed(last.kind)
      BY <2>2, <1>2, SubscriptionsGrow DEF Kinds
    <3> QED
      BY <2>2, <3>1, <1>3 DEF PreparationInv, TypeOK
  <2> QED
    BY <1>2, <2>1, <2>2 DEF SessionEndIsNoticed
<1> QED
  BY <1>4, <1>5, <1>6, <1>7, <1>8, <1>9, <1>10 DEF PreparationInv

LEMMA EnvironmentKeeps == PreparationInv /\ Going /\ Environment => PreparationInv'
BY InventoryChangesKeeps, SessionBeginsKeeps, SessionStartedKeeps, SnapshotObservedKeeps,
   SessionLeavesKeeps, SessionEndPublishedKeeps DEF Environment
-----------------------------------------------------------------------------
(***************************************************************************)
(* The episode.                                                            *)
(***************************************************************************)

\* The session is read while nothing has been collected.
LEMMA ReadSessionKeeps == PreparationInv /\ ReadSession => PreparationInv'
<1> SUFFICES ASSUME PreparationInv, ReadSession PROVE PreparationInv'
  OBVIOUS
<1> USE BoundsAssumption
<1>1. /\ step = "begin" /\ bound' = session /\ baseline' = delivered
      /\ step' = IF session = 0 THEN "raised" ELSE "subscribe"
      /\ UNCHANGED <<inventory, generation, session, started, delivered, ending>>
      /\ UNCHANGED <<attempts, present, evidence, seen, queried, subscriptions, inbox, ended, result>>
  BY DEF ReadSession, world
<1>2. inbox = <<>> /\ ended = {} /\ result = "none"
  BY <1>1 DEF PreparationInv, EpisodeIsOrdered, Going
<1>3. TypeOK'
  BY <1>1 DEF PreparationInv, TypeOK
<1>4. EpisodeIsOrdered' /\ DeliveryIsQueued' /\ EndIsQueued'
  BY <1>1, <1>2 DEF PreparationInv, EpisodeIsOrdered, Going, DeliveryIsQueued, EndIsQueued
<1>5. QueueIsBacked'
  BY <1>1, <1>2 DEF PreparationInv, TypeOK, QueueIsBacked
<1>6. ConnectsOnce' /\ SatisfiedByEvidence' /\ SessionEndIsNoticed'
  BY <1>1, <1>2 DEF PreparationInv, ConnectsOnce, SatisfiedByEvidence, SessionEndIsNoticed
<1> QED
  BY <1>3, <1>4, <1>5, <1>6 DEF PreparationInv

\* What is collected while the subscriptions are being made is what those made so far
\* were told.
LEMMA SubscribeKeeps == PreparationInv /\ Subscribe => PreparationInv'
<1> SUFFICES ASSUME PreparationInv, Subscribe PROVE PreparationInv'
  OBVIOUS
<1>1. /\ step = "subscribe" /\ subscriptions' = subscriptions + 1 /\ subscriptions' \in 0 .. 4
      /\ step' = IF subscriptions' = 4 THEN "query" ELSE "subscribe"
      /\ UNCHANGED <<inventory, generation, session, started, delivered, ending, inbox, ended, result>>
      /\ UNCHANGED <<bound, attempts, present, evidence, seen, queried, baseline>>
  BY DEF Subscribe, world, locals, PreparationInv, TypeOK, EpisodeIsOrdered
<1>2. result = "none"
  BY <1>1 DEF PreparationInv, EpisodeIsOrdered, Going
<1>3. TypeOK'
  BY <1>1 DEF PreparationInv, TypeOK
<1>4. EpisodeIsOrdered' /\ DeliveryIsQueued'
  BY <1>1, <1>2 DEF PreparationInv, TypeOK, EpisodeIsOrdered, Going, DeliveryIsQueued
<1>5. QueueIsBacked' /\ EndIsQueued'
  BY <1>1 DEF PreparationInv, QueueIsBacked, Backed, EndIsQueued, Queued
<1>6. ConnectsOnce' /\ SatisfiedByEvidence' /\ SessionEndIsNoticed'
  BY <1>1, <1>2 DEF PreparationInv, ConnectsOnce, SatisfiedByEvidence, SessionEndIsNoticed
<1> QED
  BY <1>3, <1>4, <1>5, <1>6 DEF PreparationInv

\* What an evaluated snapshot decides: the end of the episode, which it satisfies only
\* when it says so, or a connect attempt, or that the episode waits.
LEMMA EvaluateDecides ==
  ASSUME TypeOK, NEW v \in 1 .. Len(inventory), Evaluate(v)
  PROVE  /\ evidence' = v /\ evidence' \in 0 .. Len(inventory) /\ evidence' # 0
         /\ seen' \in 0 .. Len(inventory) /\ seen' >= seen /\ seen' >= v
         /\ present' \in BOOLEAN
         /\ \/ /\ step' = "complete" /\ result' \in {"satisfied", "ambiguous", "blocked"}
               /\ result' = "satisfied" => inventory[v] = "ready"
            \/ /\ step' \in {"connect", "wait"} /\ result' = result
               /\ step' = "connect" => attempts = <<>> /\ ~present' /\ inventory[v] = "absent"
<1>1. inventory[v] \in Rows /\ v \in Nat /\ seen \in 0 .. Len(inventory) /\ present \in BOOLEAN
  BY DEF TypeOK
<1>2. evidence' = v /\ seen' = IF v > seen THEN v ELSE seen
  BY DEF Evaluate
<1>3. present' = (present \/ inventory[v] \in {"ready", "blocked", "waiting"})
  BY DEF Evaluate
<1>4. present' \in BOOLEAN /\ (~present' => inventory[v] \notin {"ready", "blocked", "waiting"})
  BY <1>3
<1>5. \/ inventory[v] = "ready" /\ step' = "complete" /\ result' = "satisfied"
      \/ inventory[v] \in {"ambiguous", "blocked"} /\ step' = "complete" /\ result' = inventory[v]
      \/ /\ step' = IF ~present' /\ attempts = <<>> /\ HasAddress THEN "connect" ELSE "wait"
         /\ result' = result
  BY DEF Evaluate, Complete
<1>6. \/ step' = "complete" /\ result' \in {"satisfied", "ambiguous", "blocked"}
         /\ (result' = "satisfied" => inventory[v] = "ready")
      \/ step' \in {"connect", "wait"} /\ result' = result
         /\ (step' = "connect" => attempts = <<>> /\ ~present')
  BY <1>5
<1>7. ~present' => inventory[v] \in {"ambiguous", "absent"}
  BY <1>1, <1>4 DEF Rows
<1>8. step' = "connect" => inventory[v] # "ambiguous"
  BY DEF Evaluate, Complete
<1>9. step' = "connect" => inventory[v] = "absent"
  BY <1>6, <1>7, <1>8
<1> QED
  BY <1>1, <1>2, <1>4, <1>6, <1>9

\* The part of the invariant that an evaluation itself decides.
LEMMA EvaluateKeeps ==
  ASSUME PreparationInv, step \in {"query", "wait"},
         NEW v \in 1 .. Len(inventory), v >= baseline, Evaluate(v),
         UNCHANGED <<inventory, generation, session, started, delivered, ending>>,
         UNCHANGED <<bound, attempts, baseline, ended>>,
         queried' \in BOOLEAN, UNCHANGED subscriptions, inbox' \in Seq(Signals)
  PROVE  TypeOK' /\ EpisodeIsOrdered' /\ ConnectsOnce' /\ SatisfiedByEvidence'
<1> USE BoundsAssumption
<1>1. TypeOK /\ result = "none"
  BY DEF PreparationInv, EpisodeIsOrdered, Going
<1>2. /\ evidence' = v /\ evidence' \in 0 .. Len(inventory) /\ evidence' # 0
      /\ seen' \in 0 .. Len(inventory) /\ seen' >= seen /\ seen' >= v
      /\ present' \in BOOLEAN
      /\ \/ /\ step' = "complete" /\ result' \in {"satisfied", "ambiguous", "blocked"}
            /\ result' = "satisfied" => inventory[v] = "ready"
         \/ /\ step' \in {"connect", "wait"} /\ result' = result
            /\ step' = "connect" => attempts = <<>> /\ ~present' /\ inventory[v] = "absent"
  BY <1>1, EvaluateDecides
<1>3. TypeOK'
  BY <1>1, <1>2 DEF TypeOK, Results
<1>4. EpisodeIsOrdered'
  BY <1>1, <1>2 DEF PreparationInv, EpisodeIsOrdered, Going
<1>5. ConnectsOnce'
  BY <1>1, <1>2 DEF PreparationInv, ConnectsOnce
<1>6. SatisfiedByEvidence'
  BY <1>1, <1>2 DEF SatisfiedByEvidence
<1> QED
  BY <1>3, <1>4, <1>5, <1>6

\* The query sees at least what the session had delivered; without its answer the
\* signals decide.
LEMMA QueryKeeps == PreparationInv /\ Query => PreparationInv'
<1> SUFFICES ASSUME PreparationInv, Query PROVE PreparationInv'
  OBVIOUS
<1> USE BoundsAssumption
<1> DEFINE answer == Len(inventory)
<1>1. /\ step = "query" /\ result = "none" /\ TypeOK
      /\ UNCHANGED <<inventory, generation, session, started, delivered, ending>>
      /\ UNCHANGED <<bound, attempts, baseline, ended>>
  BY DEF Query, world, PreparationInv, EpisodeIsOrdered, Going
<1>2. ASSUME UNCHANGED inbox, step' \notin {"begin", "raised"}
      PROVE  QueueIsBacked' /\ EndIsQueued'
  BY <1>1, <1>2 DEF PreparationInv, QueueIsBacked, Backed, EndIsQueued, Queued
<1>3. CASE Raises /\ UNCHANGED <<present, evidence, seen, queried, result>>
  <2>1. step' = "raised" /\ subscriptions' = 0 /\ inbox' = <<>>
    BY <1>3 DEF Raises
  <2>2. inbox' \in Seq(Signals)
    BY <2>1
  <2>3. TypeOK'
    BY <1>1, <1>3, <2>1, <2>2 DEF TypeOK
  <2>4. EpisodeIsOrdered' /\ DeliveryIsQueued' /\ EndIsQueued' /\ ConnectsOnce' /\ SatisfiedByEvidence'
    BY <1>1, <1>3, <2>1 DEF PreparationInv, EpisodeIsOrdered, Going, DeliveryIsQueued, EndIsQueued,
       ConnectsOnce, SatisfiedByEvidence
  <2>5. QueueIsBacked' /\ SessionEndIsNoticed'
    BY <1>1, <1>3, <2>1 DEF PreparationInv, QueueIsBacked, SessionEndIsNoticed
  <2> QED
    BY <2>3, <2>4, <2>5 DEF PreparationInv
<1>4. CASE Evaluate(answer) /\ queried' = TRUE /\ UNCHANGED <<subscriptions, inbox>>
  <2>1. answer \in 1 .. Len(inventory) /\ answer >= baseline /\ answer >= delivered
    BY <1>1 DEF PreparationInv, TypeOK, EpisodeIsOrdered
  <2>2. TypeOK' /\ EpisodeIsOrdered' /\ ConnectsOnce' /\ SatisfiedByEvidence'
    BY <1>1, <1>4, <2>1, EvaluateKeeps DEF TypeOK
  <2>6. QueueIsBacked' /\ EndIsQueued'
    <3>1. step' \notin {"begin", "raised"}
      BY <1>4 DEF Evaluate, Complete
    <3> QED
      BY <1>2, <1>4, <3>1
  <2>3. seen' >= answer /\ seen' \in Nat /\ result' \notin {"timed_out", "failed", "observation_failed", "observation_stopped"}
    BY <1>1, <1>4, <2>1, EvaluateDecides DEF TypeOK
  <2>4. DeliveryIsQueued'
    BY <1>1, <2>1, <2>3 DEF DeliveryIsQueued, TypeOK
  <2>5. SessionEndIsNoticed'
    BY <1>1, <1>4, <2>3, <2>6 DEF SessionEndIsNoticed, EndIsQueued, Queued
  <2> QED
    BY <2>2, <2>4, <2>5, <2>6 DEF PreparationInv
<1>5. CASE step' = "wait" /\ UNCHANGED <<present, evidence, seen, queried, subscriptions, inbox, result>>
  <2>1. TypeOK' /\ EpisodeIsOrdered' /\ ConnectsOnce' /\ SatisfiedByEvidence'
    BY <1>1, <1>5 DEF PreparationInv, TypeOK, EpisodeIsOrdered, Going, ConnectsOnce, SatisfiedByEvidence
  <2>2. DeliveryIsQueued'
    <3>1. ~queried
      BY <1>1 DEF PreparationInv, EpisodeIsOrdered
    <3> QED
      BY <1>5, <3>1 DEF DeliveryIsQueued
  <2>3. SessionEndIsNoticed'
    BY <1>1, <1>2, <1>5 DEF SessionEndIsNoticed, EndIsQueued, Queued
  <2> QED
    BY <1>2, <1>5, <2>1, <2>2, <2>3 DEF PreparationInv
<1> QED
  BY <1>3, <1>4, <1>5 DEF Query

\* The attempt is the first, as the evidence asks for it only then.
LEMMA ConnectKeeps == PreparationInv /\ Connect => PreparationInv'
<1> SUFFICES ASSUME PreparationInv, Connect PROVE PreparationInv'
  OBVIOUS
<1> USE BoundsAssumption
<1>1. /\ step = "connect" /\ result = "none" /\ attempts = <<>>
      /\ UNCHANGED <<inventory, generation, session, started, delivered, ending>>
      /\ UNCHANGED <<bound, present, evidence, seen, queried, baseline, ended, result>>
  BY DEF Connect, world, PreparationInv, EpisodeIsOrdered, Going, ConnectsOnce
<1>2. attempts' \in Seq({"failed", "other"}) /\ Len(attempts') = 1
  BY <1>1 DEF Connect
<1>3. \/ step' = "wait" /\ inbox' = inbox /\ subscriptions' = subscriptions
      \/ step' = "raised" /\ inbox' = <<>> /\ subscriptions' = 0
  BY DEF Connect, Raises
<1>4. TypeOK'
  <2>1. inbox \in Seq(Signals) /\ <<>> \in Seq(Signals)
    BY DEF PreparationInv, TypeOK
  <2>2. inbox' \in Seq(Signals)
    BY <1>3, <2>1
  <2> QED
    BY <1>1, <1>2, <1>3, <2>2 DEF PreparationInv, TypeOK
<1>5. EpisodeIsOrdered' /\ ConnectsOnce' /\ SatisfiedByEvidence'
  BY <1>1, <1>2, <1>3 DEF PreparationInv, EpisodeIsOrdered, Going, ConnectsOnce, SatisfiedByEvidence
<1>6. QueueIsBacked'
  BY <1>1, <1>3 DEF PreparationInv, QueueIsBacked, Backed
<1>7. DeliveryIsQueued' /\ EndIsQueued'
  BY <1>1, <1>3 DEF PreparationInv, DeliveryIsQueued, EndIsQueued, Queued
<1>8. SessionEndIsNoticed'
  BY <1>1, <1>3, <1>7 DEF SessionEndIsNoticed, EndIsQueued, Queued
<1> QED
  BY <1>4, <1>5, <1>6, <1>7, <1>8 DEF PreparationInv

\* The next signal: its snapshot is evaluated, its end is taken, the others are passed
\* over, and what stays in the queue is what was behind it.
LEMMA ReceiveKeeps == PreparationInv /\ Receive => PreparationInv'
<1> SUFFICES ASSUME PreparationInv, Receive PROVE PreparationInv'
  OBVIOUS
<1> USE BoundsAssumption
<1> DEFINE signal == Head(inbox)
<1>1. /\ step = "wait" /\ inbox # <<>> /\ inbox' = Tail(inbox) /\ result = "none" /\ TypeOK
      /\ UNCHANGED <<inventory, generation, session, started, delivered, ending>>
      /\ UNCHANGED <<bound, attempts, queried, baseline, subscriptions, ended>>
  BY DEF Receive, world, PreparationInv, EpisodeIsOrdered, Going
<1>2. inbox \in Seq(Signals) /\ Len(inbox) >= 1 /\ bound \in Nat /\ seen \in Nat /\ bound # 0
  BY <1>1 DEF TypeOK, PreparationInv, EpisodeIsOrdered
<1>3. /\ signal \in Signals /\ signal = inbox[1] /\ inbox' \in Seq(Signals) /\ Len(inbox') = Len(inbox) - 1
      /\ \A i \in 1 .. Len(inbox') : inbox'[i] = inbox[i + 1]
  BY <1>1, <1>2
<1>4. \A i \in 1 .. Len(inbox) : i = 1 \/ (i - 1 \in 1 .. Len(inbox') /\ inbox[i] = inbox'[i - 1])
  BY <1>2, <1>3
<1>5. signal.session \in Nat /\ signal.kind \in Kinds
  BY <1>3 DEF Signals
<1>6. Backed(signal)
  BY <1>2, <1>3 DEF PreparationInv, QueueIsBacked
<1>7. \/ /\ signal.session < bound \/ (signal.session = bound /\ signal.kind = "started")
         /\ UNCHANGED <<step, present, evidence, seen, result>>
      \/ /\ signal.session > bound /\ step' = "complete" /\ result' = "observation_replaced"
         /\ UNCHANGED <<present, evidence, seen>>
      \/ signal.session = bound /\ signal.kind = "snapshot" /\ Evaluate(signal.version)
      \/ /\ signal.session = bound /\ signal.kind = "failed"
         /\ step' = "complete" /\ result' = "observation_failed" /\ UNCHANGED <<present, evidence, seen>>
      \/ /\ signal.session = bound /\ signal.kind = "stopped"
         /\ step' = "complete" /\ result' = "observation_stopped" /\ UNCHANGED <<present, evidence, seen>>
  BY <1>2, <1>5 DEF Receive, Fenced, Complete, Kinds
<1> HIDE DEF signal
<1>8. QueueIsBacked'
  <2>1. ASSUME NEW i \in 1 .. Len(inbox') PROVE Backed(inbox[i])'
    <3>1. i + 1 \in 1 .. Len(inbox) /\ inbox'[i] = inbox[i + 1]
      BY <1>2, <1>3
    <3> QED
      BY <3>1, <1>1 DEF PreparationInv, QueueIsBacked, Backed
  <2> QED
    BY <1>1, <2>1 DEF PreparationInv, QueueIsBacked
<1>9. inbox' = <<>> => ~Queued({"failed", "stopped"}, {0})'
  <2>1. inbox' = <<>> => Len(inbox') = 0
    OBVIOUS
  <2>2. Len(inbox') = 0 => 1 .. Len(inbox') = {}
    OBVIOUS
  <2> QED
    BY <2>1, <2>2 DEF Queued
<1>10. CASE signal.session # bound \/ signal.kind = "started"
  <2>1. /\ UNCHANGED <<present, evidence, seen>>
        /\ \/ step' = step /\ result' = result
           \/ step' = "complete" /\ result' = "observation_replaced"
    BY <1>2, <1>5, <1>7, <1>10
  <2>2. TypeOK' /\ EpisodeIsOrdered' /\ ConnectsOnce' /\ SatisfiedByEvidence'
    BY <1>1, <1>3, <2>1 DEF PreparationInv, TypeOK, Results, EpisodeIsOrdered, Going, ConnectsOnce, SatisfiedByEvidence
  <2>3. /\ Queued({"snapshot"}, {delivered}) => Queued({"snapshot"}, {delivered})'
        /\ Queued({"failed", "stopped"}, {0}) => Queued({"failed", "stopped"}, {0})'
    BY <1>1, <1>3, <1>4, <1>10 DEF Queued
  <2>4. DeliveryIsQueued' /\ EndIsQueued'
    BY <1>1, <2>1, <2>3 DEF PreparationInv, DeliveryIsQueued, EndIsQueued
  <2>5. SessionEndIsNoticed'
    BY <1>1, <1>9, <2>1, <2>4 DEF SessionEndIsNoticed, EndIsQueued
  <2> QED
    BY <1>8, <2>2, <2>4, <2>5 DEF PreparationInv
<1>11. CASE signal.session = bound /\ signal.kind = "snapshot"
  <2>1. signal.version \in 1 .. Len(inventory) /\ signal.version >= baseline /\ Evaluate(signal.version)
    BY <1>2, <1>6, <1>7, <1>11 DEF Backed
  <2>2. TypeOK' /\ EpisodeIsOrdered' /\ ConnectsOnce' /\ SatisfiedByEvidence'
    BY <1>1, <1>3, <2>1, EvaluateKeeps DEF TypeOK
  <2>3. /\ seen' \in Nat /\ seen' >= signal.version /\ seen' >= seen
        /\ result' \notin {"timed_out", "failed", "observation_failed", "observation_stopped"}
    <3>1. /\ seen' \in 0 .. Len(inventory) /\ seen' >= seen /\ seen' >= signal.version
          /\ result' \in {"satisfied", "ambiguous", "blocked"} \/ result' = result
      BY <1>1, <2>1, EvaluateDecides
    <3> QED
      BY <1>1, <3>1
  <2>4. DeliveryIsQueued'
    <3>1. SUFFICES ASSUME queried, session = bound
                   PROVE  seen' >= delivered \/ Queued({"snapshot"}, {delivered})'
      BY <1>1 DEF DeliveryIsQueued
    <3>2. seen >= delivered \/ Queued({"snapshot"}, {delivered})
      BY <1>1, <3>1 DEF PreparationInv, DeliveryIsQueued
    <3>3. seen >= delivered => seen' >= delivered
      BY <1>1, <1>2, <2>3 DEF TypeOK
    <3>4. ASSUME NEW i \in 1 .. Len(inbox), inbox[i].session = bound, inbox[i].kind = "snapshot", inbox[i].version = delivered
          PROVE  seen' >= delivered \/ Queued({"snapshot"}, {delivered})'
      <4>1. CASE i = 1
        BY <4>1, <3>4, <2>3, <1>3
      <4>2. CASE i - 1 \in 1 .. Len(inbox') /\ inbox[i] = inbox'[i - 1]
        BY <4>2, <3>4, <1>1 DEF Queued
      <4> QED
        BY <1>4, <4>1, <4>2
    <3> QED
      BY <3>2, <3>3, <3>4 DEF Queued
  <2>5. EndIsQueued'
    <3>1. Queued({"failed", "stopped"}, {0}) => Queued({"failed", "stopped"}, {0})'
      BY <1>1, <1>3, <1>4, <1>11 DEF Queued
    <3> QED
      BY <1>1, <3>1 DEF PreparationInv, EndIsQueued
  <2>6. SessionEndIsNoticed'
    <3>1. step' = "wait" /\ inbox' = <<>> => bound \notin ended
      BY <1>1, <1>9, <2>5 DEF EndIsQueued
    <3> QED
      BY <1>1, <2>3, <3>1 DEF SessionEndIsNoticed
  <2> QED
    BY <1>8, <2>2, <2>4, <2>5, <2>6 DEF PreparationInv
<1>12. CASE signal.session = bound /\ signal.kind \in {"failed", "stopped"}
  <2>1. /\ step' = "complete" /\ result' \in {"observation_failed", "observation_stopped"}
        /\ UNCHANGED <<present, evidence, seen>> /\ bound \in ended
    BY <1>2, <1>6, <1>7, <1>12 DEF Backed
  <2>2. TypeOK' /\ EpisodeIsOrdered' /\ ConnectsOnce' /\ SatisfiedByEvidence'
    BY <1>1, <1>3, <2>1 DEF PreparationInv, TypeOK, Results, EpisodeIsOrdered, Going, ConnectsOnce, SatisfiedByEvidence
  <2>3. DeliveryIsQueued' /\ EndIsQueued' /\ SessionEndIsNoticed'
    BY <1>1, <2>1 DEF DeliveryIsQueued, EndIsQueued, SessionEndIsNoticed
  <2> QED
    BY <1>8, <2>2, <2>3 DEF PreparationInv
<1> QED
  BY <1>5, <1>10, <1>11, <1>12 DEF Kinds

\* The deadline passes on an empty queue, in which no end can be waiting.
LEMMA TimeOutKeeps == PreparationInv /\ TimeOut => PreparationInv'
<1> SUFFICES ASSUME PreparationInv, TimeOut PROVE PreparationInv'
  OBVIOUS
<1> USE BoundsAssumption
<1>1. /\ step = "wait" /\ inbox = <<>> /\ step' = "complete" /\ result' \in {"timed_out", "failed"}
      /\ UNCHANGED <<inventory, generation, session, started, delivered, ending, subscriptions, inbox, ended>>
      /\ UNCHANGED <<bound, attempts, present, evidence, seen, queried, baseline>>
  BY DEF TimeOut, Complete, world, locals
<1>2. TypeOK'
  BY <1>1 DEF PreparationInv, TypeOK, Results
<1>3. EpisodeIsOrdered' /\ ConnectsOnce' /\ SatisfiedByEvidence'
  BY <1>1 DEF PreparationInv, EpisodeIsOrdered, Going, ConnectsOnce, SatisfiedByEvidence
<1>4. QueueIsBacked'
  BY <1>1 DEF PreparationInv, QueueIsBacked, Backed
<1>5. DeliveryIsQueued' /\ EndIsQueued' /\ SessionEndIsNoticed'
  BY <1>1 DEF PreparationInv, DeliveryIsQueued, EndIsQueued, SessionEndIsNoticed
<1> QED
  BY <1>2, <1>3, <1>4, <1>5 DEF PreparationInv

LEMMA ReturnKeeps == PreparationInv /\ Return => PreparationInv'
<1> SUFFICES ASSUME PreparationInv, Return PROVE PreparationInv'
  OBVIOUS
<1>1. /\ step = "complete" /\ step' \in {"returned", "raised"} /\ inbox' = <<>> /\ subscriptions' = 0
      /\ UNCHANGED <<inventory, generation, session, started, delivered, ending, ended, result>>
      /\ UNCHANGED <<bound, attempts, present, evidence, seen, queried, baseline>>
  BY DEF Return, Raises, world, locals
<1>2. TypeOK'
  <2>1. inbox' \in Seq(Signals)
    BY <1>1
  <2> QED
    BY <1>1, <2>1 DEF PreparationInv, TypeOK
<1>3. EpisodeIsOrdered' /\ ConnectsOnce' /\ SatisfiedByEvidence'
  BY <1>1 DEF PreparationInv, EpisodeIsOrdered, Going, ConnectsOnce, SatisfiedByEvidence
<1>4. QueueIsBacked' /\ DeliveryIsQueued' /\ EndIsQueued' /\ SessionEndIsNoticed'
  BY <1>1 DEF PreparationInv, QueueIsBacked, Backed, DeliveryIsQueued, EndIsQueued, SessionEndIsNoticed
<1> QED
  BY <1>2, <1>3, <1>4 DEF PreparationInv
-----------------------------------------------------------------------------
(***************************************************************************)
(* The theorems.                                                           *)
(***************************************************************************)

LEMMA PreparationInvInitially == Init => PreparationInv
<1> SUFFICES ASSUME Init PROVE PreparationInv
  OBVIOUS
<1> USE BoundsAssumption
<1>1. PICK row \in Rows : inventory = <<row>>
  BY DEF Init
<1>2. inventory \in Seq(Rows) /\ Len(inventory) = 1
  BY <1>1
<1>3. /\ generation = 0 /\ session = 0 /\ delivered = 0 /\ started = FALSE /\ ending = {} /\ step = "begin" /\ subscriptions = 0
      /\ bound = 0 /\ inbox = <<>> /\ attempts = <<>> /\ present = FALSE
      /\ evidence = 0 /\ seen = 0 /\ queried = FALSE /\ baseline = 0 /\ ended = {} /\ result = "none"
  BY DEF Init
<1>4. inbox \in Seq(Signals) /\ attempts \in Seq({"failed", "other"}) /\ Len(attempts) = 0
  BY <1>3
<1>5. TypeOK
  <2>1. inventory \in Seq(Rows) /\ inbox \in Seq(Signals) /\ attempts \in Seq({"failed", "other"})
    BY <1>2, <1>4
  <2>2. /\ generation \in 0 .. MaxGeneration /\ session \in {0, generation}
        /\ delivered \in 0 .. Len(inventory) /\ ending \subseteq Signals /\ subscriptions \in 0 .. 4
        /\ bound \in 0 .. generation /\ ended \subseteq 1 .. MaxGeneration
    BY <1>2, <1>3
  <2>3. /\ evidence \in 0 .. Len(inventory) /\ seen \in 0 .. Len(inventory) /\ baseline \in 0 .. Len(inventory)
        /\ step = "begin" /\ result = "none"
    BY <1>2, <1>3
  <2>4. present \in BOOLEAN /\ queried \in BOOLEAN /\ started \in BOOLEAN
    BY <1>3
  <2> QED
    BY <2>1, <2>2, <2>3, <2>4 DEF TypeOK
<1>6. EpisodeIsOrdered /\ ConnectsOnce /\ SatisfiedByEvidence
  BY <1>2, <1>3, <1>4 DEF EpisodeIsOrdered, ConnectsOnce, SatisfiedByEvidence
<1>7. QueueIsBacked /\ DeliveryIsQueued /\ EndIsQueued /\ SessionEndIsNoticed
  BY <1>3 DEF QueueIsBacked, DeliveryIsQueued, EndIsQueued, SessionEndIsNoticed
<1> QED
  BY <1>5, <1>6, <1>7 DEF PreparationInv

LEMMA PreparationInvKept == PreparationInv /\ [Next]_vars => PreparationInv'
<1> SUFFICES ASSUME PreparationInv, [Next]_vars PROVE PreparationInv'
  OBVIOUS
<1>1. CASE Episode
  BY <1>1, ReadSessionKeeps, SubscribeKeeps, QueryKeeps, ConnectKeeps, ReceiveKeeps, TimeOutKeeps,
     ReturnKeeps DEF Episode
<1>2. CASE Going /\ Environment
  BY <1>2, EnvironmentKeeps
<1>3. CASE UNCHANGED vars
  <2>1. /\ UNCHANGED <<inventory, generation, session, started, delivered, ending, step, subscriptions, inbox, ended, result>>
        /\ UNCHANGED <<bound, attempts, present, evidence, seen, queried, baseline>>
    BY <1>3 DEF vars, world, locals
  <2> QED
    BY <2>1 DEF PreparationInv, TypeOK, EpisodeIsOrdered, Going, QueueIsBacked, Backed, DeliveryIsQueued,
       EndIsQueued, Queued, ConnectsOnce, SatisfiedByEvidence, SessionEndIsNoticed
<1> QED
  BY <1>1, <1>2, <1>3 DEF Next, Rest

LEMMA PreparationInvariant == Spec => []PreparationInv
BY PreparationInvInitially, PreparationInvKept, PTL DEF Spec

\* Every variable of an episode keeps its type: what prepare() reads and returns is
\* what the code gives it.
THEOREM PreparationTypeCorrect == Spec => []TypeOK
<1>1. PreparationInv => TypeOK
  BY DEF PreparationInv
<1> QED
  BY <1>1, PreparationInvariant, PTL

\* prepare() connects a transport at most once, and only one it has never seen present,
\* on a snapshot in which it is absent.
THEOREM EpisodeConnectsOnce == Spec => []ConnectsOnce
<1>1. PreparationInv => ConnectsOnce
  BY DEF PreparationInv
<1> QED
  BY <1>1, PreparationInvariant, PTL

\* prepare() reports a transport as ready only on a snapshot that says so, no older
\* than what its session had delivered when it began, however the query and the
\* signals overtake each other.
THEOREM SatisfactionIsBacked == Spec => []SatisfiedByEvidence
<1>1. PreparationInv => SatisfiedByEvidence
  BY DEF PreparationInv
<1> QED
  BY <1>1, PreparationInvariant, PTL

\* No snapshot of its session is lost between the query of prepare() and its stream.
THEOREM DeliveriesAreEvaluated == Spec => []NothingIsMissed
<1>1. PreparationInv => NothingIsMissed
  <2> SUFFICES ASSUME PreparationInv, step = "wait", inbox = <<>>, queried, session = bound
               PROVE  seen >= delivered
    BY DEF NothingIsMissed
  <2>1. seen >= delivered \/ Queued({"snapshot"}, {delivered})
    BY DEF PreparationInv, DeliveryIsQueued
  <2> QED
    BY <2>1 DEF Queued
<1> QED
  BY <1>1, PreparationInvariant, PTL

\* prepare() neither waits for nor times out on a session whose end it was told of, and
\* no other session's end is taken for its own.
THEOREM EndsAreNoticed == Spec => []SessionEndIsNoticed
<1>1. PreparationInv => SessionEndIsNoticed
  BY DEF PreparationInv
<1> QED
  BY <1>1, PreparationInvariant, PTL
=============================================================================
