-------------------------- MODULE ServerCyclesProofs --------------------------
(***************************************************************************)
(* What becomes of the recovery cycles of ServerSupervisor, for all sets   *)
(* of threads and all bounds.                                              *)
(*                                                                         *)
(* A cycle is passed on like a baton: at most one thread, one pending      *)
(* retry or the announcement of its exhaustion has it, and once nobody has *)
(* it, nobody gets it again.                                               *)
(***************************************************************************)
EXTENDS ServerSupervisorProofs

(***************************************************************************)
(* The invariants.                                                         *)
(***************************************************************************)
Pending == scheduled \cup due

\* A thread at this step, with these locals, is to announce that its cycle is exhausted;
\* has a cycle, if its locals name one; must have one.
AnnouncingAt(step, locals) == step = "publish" \/ (step = "cancel" /\ locals.then = "publish")

HoldingAt(step, locals) ==
  \/ step \in {"probe", "command", "verify", "satisfied", "unsatisfied", "retry", "launch",
               "registered", "acquire", "publish"}
  \/ step = "cancel" /\ locals.then \in {"probe", "launch", "publish"}

NeedsCycle(step, locals) ==
  \/ step \in {"satisfied", "unsatisfied", "retry", "store", "launch", "registered", "acquire",
               "publish"}
  \/ step = "cancel" /\ locals.then \in {"launch", "publish"}

Announcing(t) == AnnouncingAt(at[t], job[t])
Holds(t, c) == c # 0 /\ job[t].cycle = c /\ HoldingAt(at[t], job[t])

\* No thread has the cycle, nor was it announced; no retry has it.
Untaken(c) == (\A t \in Threads : ~Holds(t, c)) /\ c \notin exhausted
Unscheduled(c) == \A r \in Pending : r.cycle # c

\* Every cycle anybody speaks of has been opened, and who must have one has one.
KnownCycles ==
  /\ cycle_id <= recovery_epoch /\ retry_token.cycle <= recovery_epoch
  /\ \A t \in Threads : job[t].cycle <= recovery_epoch /\ job[t].token.cycle <= recovery_epoch
  /\ \A r \in Pending : r.cycle \in 1 .. recovery_epoch
  /\ \A c \in exhausted : c \in 1 .. recovery_epoch
  /\ \A t \in Threads : NeedsCycle(at[t], job[t]) => job[t].cycle # 0

\* At most one thread, retry or announcement has the cycle.
OneBaton ==
  /\ \A t, u \in Threads : \A c \in Cycles : Holds(t, c) /\ Holds(u, c) => t = u
  /\ \A r, q \in Pending : r.cycle = q.cycle => r = q
  /\ scheduled \cap due = {}
  /\ \A r \in Pending : \A t \in Threads : ~Holds(t, r.cycle)
  /\ \A c \in exhausted : (\A t \in Threads : ~Holds(t, c)) /\ (\A r \in Pending : r.cycle # c)

\* Attempts stay within the budget; what is announced has spent it and is over.
WithinBudget(n) == MaxAttempts = 0 \/ n <= MaxAttempts

BudgetKept ==
  /\ \A t \in Threads : WithinBudget(job[t].attempt)
  /\ \A r \in Pending : WithinBudget(r.attempt)
  /\ \A t \in Threads : Announcing(t) => ~Budgeted(job[t].attempt) /\ job[t].cycle # cycle_id

\* A live cycle has what it depends on; who unsubscribes has closed.
CyclesAreArmed ==
  /\ LiveCycleIsArmed
  /\ \A t \in Threads : at[t] = "unsubscribe" => closed

CyclesInv == KnownCycles /\ OneBaton /\ BudgetKept /\ CyclesAreArmed

\* A thread that closes the supervisor is a caller and knows every attempt that is left.
CloserAt(step, locals) ==
  step \in {"unsubscribe", "join"} \/ (step = "cancel" /\ locals.then = "join")

Closer(t) == CloserAt(at[t], job[t])

ClosingInv ==
  /\ \A t \in Threads : Closer(t) =>
       t \in Callers /\ closed /\ \A w \in Workers : at[w] # "idle" => w \in job[t].workers
  /\ closing = "returned" => closed
  /\ ClosedIsQuiet
-------------------------------------------------------------------------------
(***************************************************************************)
(* The baton is passed on: CyclesInv.                                      *)
(***************************************************************************)

\* Where the types are needed most.
LEMMA Locals ==
  ASSUME TypeOK, NEW t \in Threads
  PROVE  /\ job[t] \in Jobs /\ job[t].cycle \in Cycles /\ job[t].attempt \in Attempts
         /\ job[t].token \in Retries \cup {NoRetry} /\ job[t].then \in AfterCancel
         /\ job[t].workers \subseteq Workers /\ at[t] \in Steps
         /\ job[t].cycle \in Nat /\ job[t].attempt \in Nat /\ job[t].token.cycle \in Nat
BY BoundsAssumption DEF TypeOK, Jobs, Cycles, Attempts, Retries, NoRetry

LEMMA Numbers ==
  ASSUME TypeOK
  PROVE  /\ cycle_id \in Nat /\ recovery_epoch \in Nat /\ retry_token.cycle \in Nat
         /\ \A r \in Pending : r \in Retries /\ r.cycle \in Cycles /\ r.cycle \in Nat /\ r.attempt \in Nat
         /\ \A c \in exhausted : c \in Cycles
BY BoundsAssumption DEF TypeOK, Cycles, Attempts, Retries, NoRetry, Pending

LEMMA FreshLocals ==
  /\ NoJob \in Jobs /\ NoJob.cycle = 0 /\ NoJob.attempt = 1 /\ NoJob.token = NoRetry
  /\ NoRetry.cycle = 0 /\ WithinBudget(1)
BY NoJobTyped, BoundsAssumption DEF NoJob, NoRetry, WithinBudget

\* One thread may get a cycle that nobody had.
LEMMA BatonMoves ==
  ASSUME OneBaton, NEW t \in Threads, TypeOK',
         \A u \in Threads, c \in Cycles :
           Holds(u, c)' => Holds(u, c) \/ (u = t /\ Untaken(c) /\ Unscheduled(c)'),
         Pending' \subseteq Pending, scheduled' \cap due' = {}, exhausted' = exhausted
  PROVE  OneBaton'
<1>1. \A r \in Pending' : r.cycle \in Cycles
  BY DEF Pending, TypeOK, Retries
<1>2. \A c \in exhausted' : c \in Cycles
  BY DEF TypeOK
<1>3. \A u, v \in Threads : \A c \in Cycles : Holds(u, c)' /\ Holds(v, c)' => u = v
  BY DEF OneBaton, Untaken
<1>4. \A r \in Pending' : \A u \in Threads : ~Holds(u, r.cycle)'
  BY <1>1 DEF OneBaton, Unscheduled
<1>5. \A c \in exhausted : (\A u \in Threads : ~Holds(u, c)') /\ (\A r \in Pending' : r.cycle # c)
  BY <1>2 DEF OneBaton, Untaken
<1> QED
  BY <1>3, <1>4, <1>5 DEF OneBaton

\* One thread goes on to `step`, and may get a cycle that nobody had.
LEMMA ThreadMovesOn ==
  ASSUME TypeOK, TypeOK', CyclesInv, NEW t \in Threads, NEW step \in Steps, NEW locals \in Jobs,
         at' = [at EXCEPT ![t] = step], job' = [job EXCEPT ![t] = locals],
         recovery_epoch' >= recovery_epoch, closed => closed',
         cycle_id' \in {0, cycle_id} \/ (cycle_id' = recovery_epoch + 1 /\ recovery_epoch' = recovery_epoch + 1),
         retry_token'.cycle <= recovery_epoch',
         locals.cycle <= recovery_epoch', locals.token.cycle <= recovery_epoch',
         NeedsCycle(step, locals) => locals.cycle # 0,
         HoldingAt(step, locals) => \/ locals.cycle = 0
                                    \/ locals.cycle = job[t].cycle /\ HoldingAt(at[t], job[t])
                                    \/ Untaken(locals.cycle) /\ Unscheduled(locals.cycle)',
         Pending' \subseteq Pending, scheduled' \cap due' = {}, exhausted' = exhausted,
         WithinBudget(locals.attempt),
         AnnouncingAt(step, locals) => ~Budgeted(locals.attempt) /\ locals.cycle # cycle_id',
         LiveCycleIsArmed', step = "unsubscribe" => closed'
  PROVE  CyclesInv'
<1>1. /\ at'[t] = step /\ job'[t] = locals
      /\ \A u \in Threads \ {t} : at'[u] = at[u] /\ job'[u] = job[u]
  BY DEF TypeOK
<1>2. /\ recovery_epoch \in Nat /\ recovery_epoch' \in Nat /\ cycle_id \in Nat
      /\ \A u \in Threads : job[u].cycle \in Nat /\ job[u].token.cycle \in Nat
      /\ \A r \in Pending : r.cycle \in Nat
      /\ \A c \in exhausted : c \in Nat
  BY Locals, Numbers, BoundsAssumption DEF TypeOK, Cycles
<1>3. \A u \in Threads, c \in Cycles : Holds(u, c)' => Holds(u, c) \/ (u = t /\ Untaken(c) /\ Unscheduled(c)')
  BY <1>1 DEF Holds
<1>4. OneBaton'
  BY <1>3, BatonMoves DEF CyclesInv
<1>5. KnownCycles'
  <2>1. cycle_id' <= recovery_epoch'
    BY <1>2 DEF CyclesInv, KnownCycles
  <2>2. \A u \in Threads : job'[u].cycle <= recovery_epoch' /\ job'[u].token.cycle <= recovery_epoch'
    BY <1>1, <1>2 DEF CyclesInv, KnownCycles
  <2>3. \A r \in Pending' : r.cycle \in 1 .. recovery_epoch'
    BY <1>2 DEF CyclesInv, KnownCycles
  <2>4. \A c \in exhausted' : c \in 1 .. recovery_epoch'
    BY <1>2 DEF CyclesInv, KnownCycles
  <2>5. \A u \in Threads : NeedsCycle(at'[u], job'[u]) => job'[u].cycle # 0
    BY <1>1 DEF CyclesInv, KnownCycles
  <2> QED
    BY <2>1, <2>2, <2>3, <2>4, <2>5 DEF KnownCycles
<1>6. BudgetKept'
  <2>1. \A u \in Threads : WithinBudget(job'[u].attempt)
    BY <1>1 DEF CyclesInv, BudgetKept
  <2>2. \A r \in Pending' : WithinBudget(r.attempt)
    BY DEF CyclesInv, BudgetKept
  <2>3. ASSUME NEW u \in Threads, AnnouncingAt(at'[u], job'[u])
        PROVE  ~Budgeted(job'[u].attempt) /\ job'[u].cycle # cycle_id'
    <3>1. CASE u = t
      BY <1>1, <2>3, <3>1
    <3>2. CASE u # t
      <4>1. at'[u] = at[u] /\ job'[u] = job[u] /\ AnnouncingAt(at[u], job[u])
        BY <1>1, <2>3, <3>2
      <4>2. ~Budgeted(job[u].attempt) /\ job[u].cycle # cycle_id
        BY <4>1 DEF CyclesInv, BudgetKept, Announcing
      <4>3. job[u].cycle # 0 /\ job[u].cycle <= recovery_epoch
        BY <4>1 DEF CyclesInv, KnownCycles, AnnouncingAt, NeedsCycle
      <4> QED
        BY <1>2, <4>1, <4>2, <4>3
    <3> QED
      BY <3>1, <3>2
  <2> QED
    BY <2>1, <2>2, <2>3 DEF BudgetKept, Announcing
<1>7. CyclesAreArmed'
  BY <1>1 DEF CyclesInv, CyclesAreArmed
<1> QED
  BY <1>4, <1>5, <1>6, <1>7 DEF CyclesInv

\* The same, by way of a cancellation if there is a token to cancel.
LEMMA ThreadResumes ==
  ASSUME TypeOK, TypeOK', CyclesInv, NEW t \in Threads, NEW step \in AfterCancel, NEW locals \in Jobs,
         NEW token \in Retries \cup {NoRetry},
         Resume(t, locals, token, step),
         recovery_epoch' >= recovery_epoch, closed => closed',
         cycle_id' \in {0, cycle_id} \/ (cycle_id' = recovery_epoch + 1 /\ recovery_epoch' = recovery_epoch + 1),
         retry_token'.cycle <= recovery_epoch', token.cycle <= recovery_epoch',
         locals.cycle <= recovery_epoch', locals.token.cycle <= recovery_epoch',
         step \in {"launch", "publish"} => locals.cycle # 0,
         step \in {"probe", "launch", "publish"} =>
           \/ locals.cycle = 0
           \/ locals.cycle = job[t].cycle /\ HoldingAt(at[t], job[t])
           \/ Untaken(locals.cycle) /\ Unscheduled(locals.cycle)',
         Pending' \subseteq Pending, scheduled' \cap due' = {}, exhausted' = exhausted,
         WithinBudget(locals.attempt),
         step = "publish" => ~Budgeted(locals.attempt) /\ locals.cycle # cycle_id',
         LiveCycleIsArmed'
  PROVE  CyclesInv'
<1>s. step \in Steps /\ step \in {"probe", "launch", "publish", "join", "done"} /\ "cancel" \in Steps
  BY DEF AfterCancel, Steps
<1>1. CASE token = NoRetry
  <2>1. at' = [at EXCEPT ![t] = step] /\ job' = [job EXCEPT ![t] = locals]
    BY <1>1 DEF Resume, Goto
  <2>2. /\ NeedsCycle(step, locals) <=> step \in {"launch", "publish"}
        /\ HoldingAt(step, locals) <=> step \in {"probe", "launch", "publish"}
        /\ AnnouncingAt(step, locals) <=> step = "publish"
        /\ step # "unsubscribe"
    BY <1>s DEF NeedsCycle, HoldingAt, AnnouncingAt
  <2> QED
    BY <1>s, <2>1, <2>2, ThreadMovesOn
<1>2. CASE token # NoRetry
  <2> DEFINE cancelling == [locals EXCEPT !.token = token, !.then = step]
  <2>1. at' = [at EXCEPT ![t] = "cancel"] /\ job' = [job EXCEPT ![t] = cancelling]
    BY <1>2 DEF Resume, Goto
  <2>2. /\ cancelling \in Jobs /\ cancelling.cycle = locals.cycle /\ cancelling.then = step
        /\ cancelling.attempt = locals.attempt /\ cancelling.token = token
    BY DEF Jobs
  <2> HIDE DEF cancelling
  <2>3. /\ NeedsCycle("cancel", cancelling) <=> step \in {"launch", "publish"}
        /\ HoldingAt("cancel", cancelling) <=> step \in {"probe", "launch", "publish"}
        /\ AnnouncingAt("cancel", cancelling) <=> step = "publish"
    BY <2>2 DEF NeedsCycle, HoldingAt, AnnouncingAt
  <2> QED
    BY <1>s, <2>1, <2>2, <2>3, ThreadMovesOn
<1> QED
  BY <1>1, <1>2

\* Nobody has the cycle that the next operation opens.
LEMMA FreshCycle ==
  ASSUME TypeOK, CyclesInv, recovery_epoch < MaxEpoch, NEW c \in {0, recovery_epoch + 1}
  PROVE  /\ c \in Cycles /\ c <= recovery_epoch + 1
         /\ c # 0 => Untaken(c) /\ Unscheduled(c)
<1>1. \A u \in Threads : job[u].cycle # recovery_epoch + 1
  BY Locals, Numbers DEF CyclesInv, KnownCycles
<1>2. \A r \in Pending : r.cycle # recovery_epoch + 1
  BY Numbers DEF CyclesInv, KnownCycles
<1>3. recovery_epoch + 1 \notin exhausted
  BY Numbers DEF CyclesInv, KnownCycles
<1>4. c \in Cycles /\ c <= recovery_epoch + 1
  BY Numbers, ZeroIsCycle, BoundsAssumption DEF Cycles
<1> QED
  BY <1>1, <1>2, <1>3, <1>4 DEF Holds, Untaken, Unscheduled

\* An operation that opens a cycle, or ends the one there is.
LEMMA ThreadOpens ==
  ASSUME TypeOK, TypeOK', CyclesInv, NEW t \in Threads, NEW step \in {"probe", "launch", "done"},
         NEW locals \in Jobs, NEW token \in {retry_token, NoRetry}, NEW c \in {0, recovery_epoch + 1},
         recovery_epoch < MaxEpoch, recovery_epoch' = recovery_epoch + 1,
         Resume(t, locals, token, step),
         locals.cycle = c, locals.token = NoRetry, locals.attempt = 1, step = "launch" => c # 0,
         cycle_id' = c, retry_token' \in {NoRetry, retry_token}, closed' = closed,
         UNCHANGED <<scheduled, due, exhausted>>, LiveCycleIsArmed'
  PROVE  CyclesInv'
<1>1. step \in AfterCancel /\ step # "publish" /\ token \in Retries \cup {NoRetry}
  BY DEF AfterCancel, TypeOK
<1>2. Pending' = Pending /\ scheduled' \cap due' = {}
  BY DEF Pending, CyclesInv, OneBaton
<1>3. recovery_epoch \in Nat /\ retry_token.cycle <= recovery_epoch /\ retry_token.cycle \in Nat
  BY Numbers DEF CyclesInv, KnownCycles
<1>4. /\ recovery_epoch' >= recovery_epoch
      /\ retry_token'.cycle <= recovery_epoch' /\ token.cycle <= recovery_epoch'
      /\ locals.cycle <= recovery_epoch' /\ locals.token.cycle <= recovery_epoch'
  BY <1>3, FreshLocals
<1>5. WithinBudget(locals.attempt)
  BY FreshLocals
<1>6. locals.cycle = 0 \/ (Untaken(locals.cycle) /\ Unscheduled(locals.cycle)')
  BY <1>2, FreshCycle DEF Unscheduled
<1>7. cycle_id' \in {0, cycle_id} \/ (cycle_id' = recovery_epoch + 1 /\ recovery_epoch' = recovery_epoch + 1)
  OBVIOUS
<1>8. (closed => closed') /\ exhausted' = exhausted /\ Pending' \subseteq Pending
  BY <1>2
<1>9. step \in {"launch", "publish"} => locals.cycle # 0
  BY <1>1
<1> QED
  BY <1>1, <1>2, <1>4, <1>5, <1>6, <1>7, <1>8, <1>9, ThreadResumes

\* Every public operation keeps the invariant.
LEMMA OperationKeepsCycles ==
  ASSUME TypeOK, TypeOK', CyclesInv, NEW t \in Callers, Operation(t)
  PROVE  CyclesInv'
<1> USE DEF intent, recovery, external
<1>t. t \in Threads /\ recovery_epoch \in Nat
  BY Numbers DEF Threads
<1>1. ASSUME NEW enabled \in BOOLEAN, Start(t, enabled) PROVE CyclesInv'
  <2> DEFINE cycle == IF enabled THEN recovery_epoch + 1 ELSE 0
             locals == [NoJob EXCEPT !.cycle = cycle]
  <2>1. /\ recovery_epoch < MaxEpoch /\ cycle \in {0, recovery_epoch + 1}
        /\ cycle # 0 => enabled
    BY <1>1 DEF Start
  <2>2. /\ locals \in Jobs /\ locals.cycle = cycle /\ locals.token = NoRetry
        /\ locals.attempt = 1
    BY <2>1, FreshCycle, FreshLocals DEF Jobs, NoJob
  <2>3. /\ Resume(t, locals, retry_token, "probe") /\ "probe" # "launch"
        /\ cycle_id' = cycle /\ retry_token' = NoRetry /\ recovery_epoch' = recovery_epoch + 1
        /\ UNCHANGED <<scheduled, due, exhausted>> /\ closed' = closed
        /\ ~closed /\ recovery_enabled' = enabled /\ desired_running' = TRUE
        /\ subscribed' = (subscribed \/ enabled)
    BY <1>1 DEF Start, ReplaceCycle
  <2>4. LiveCycleIsArmed'
    BY <2>1, <2>3 DEF LiveCycleIsArmed, Armed
  <2> HIDE DEF cycle, locals
  <2> QED
    BY <1>t, <2>1, <2>2, <2>3, <2>4, ThreadOpens
<1>2. ASSUME NEW enabled \in BOOLEAN, SetRecoveryEnabled(t, enabled) PROVE CyclesInv'
  <2> DEFINE cycle == IF enabled THEN recovery_epoch + 1 ELSE 0
             locals == [NoJob EXCEPT !.cycle = cycle]
             step == IF enabled THEN "launch" ELSE "done"
  <2>1. /\ recovery_epoch < MaxEpoch /\ cycle \in {0, recovery_epoch + 1}
        /\ cycle # 0 => enabled
        /\ step \in {"probe", "launch", "done"} /\ (step = "launch" => cycle # 0)
    BY <1>t, <1>2 DEF SetRecoveryEnabled
  <2>2. /\ locals \in Jobs /\ locals.cycle = cycle /\ locals.token = NoRetry
        /\ locals.attempt = 1
    BY <2>1, FreshCycle, FreshLocals DEF Jobs, NoJob
  <2>3. /\ Resume(t, locals, retry_token, step)
        /\ cycle_id' = cycle /\ retry_token' = NoRetry /\ recovery_epoch' = recovery_epoch + 1
        /\ UNCHANGED <<scheduled, due, exhausted>> /\ closed' = closed
        /\ ~closed /\ recovery_enabled' = enabled
        /\ desired_running' = desired_running /\ (enabled => desired_running)
        /\ subscribed' = (subscribed \/ enabled)
    BY <1>2 DEF SetRecoveryEnabled, ReplaceCycle
  <2>4. LiveCycleIsArmed'
    BY <2>1, <2>3 DEF LiveCycleIsArmed, Armed
  <2> HIDE DEF cycle, locals, step
  <2> QED
    BY <1>t, <2>1, <2>2, <2>3, <2>4, ThreadOpens
<1>3. ASSUME Stop(t) PROVE CyclesInv'
  <2> DEFINE locals == [NoJob EXCEPT !.want = "down"]
  <2>1. recovery_epoch < MaxEpoch
    BY <1>3 DEF Stop
  <2>2. /\ locals \in Jobs /\ locals.cycle = 0 /\ locals.token = NoRetry
        /\ locals.attempt = 1
    BY FreshLocals DEF Jobs, NoJob
  <2>3. /\ Resume(t, locals, retry_token, "probe") /\ "probe" # "launch"
        /\ cycle_id' = 0 /\ retry_token' = NoRetry /\ recovery_epoch' = recovery_epoch + 1
        /\ UNCHANGED <<scheduled, due, exhausted>> /\ closed' = closed
    BY <1>3 DEF Stop, ReplaceCycle
  <2>4. LiveCycleIsArmed'
    BY <2>3 DEF LiveCycleIsArmed
  <2> HIDE DEF locals
  <2> QED
    BY <1>t, <2>1, <2>2, <2>3, <2>4, ThreadOpens
<1>4. ASSUME Reconcile(t) PROVE CyclesInv'
  <2> DEFINE cycle == recovery_epoch + 1
             locals == [NoJob EXCEPT !.cycle = cycle]
  <2>1. recovery_epoch < MaxEpoch /\ cycle \in {0, recovery_epoch + 1} /\ cycle # 0
    BY <1>t, <1>4 DEF Reconcile
  <2>2. /\ locals \in Jobs /\ locals.cycle = cycle /\ locals.token = NoRetry
        /\ locals.attempt = 1
    BY <2>1, FreshCycle, FreshLocals DEF Jobs, NoJob
  <2>3. /\ Resume(t, locals, NoRetry, "launch")
        /\ cycle_id' = cycle /\ retry_token' = retry_token /\ recovery_epoch' = recovery_epoch + 1
        /\ UNCHANGED <<scheduled, due, exhausted>> /\ closed' = closed
    BY <1>4 DEF Reconcile
  <2>4. LiveCycleIsArmed'
    BY <1>4 DEF Reconcile, LiveCycleIsArmed, Armed
  <2> HIDE DEF cycle, locals
  <2> QED
    BY <1>t, <2>1, <2>2, <2>3, <2>4, ThreadOpens
<1>5. ASSUME Close(t) PROVE CyclesInv'
  <2> DEFINE locals == [NoJob EXCEPT !.workers = AttemptThreads, !.token = retry_token]
  <2>1. /\ locals \in Jobs /\ locals.cycle = 0 /\ locals.token = retry_token
        /\ locals.attempt = 1
    BY FreshLocals DEF Jobs, NoJob, AttemptThreads, TypeOK
  <2>2. /\ at' = [at EXCEPT ![t] = "unsubscribe"] /\ job' = [job EXCEPT ![t] = locals]
        /\ cycle_id' = 0 /\ retry_token' = NoRetry /\ recovery_epoch' = recovery_epoch + 1
        /\ UNCHANGED <<scheduled, due, exhausted>> /\ closed'
    BY <1>5 DEF Close, ReplaceCycle, Goto
  <2>3. LiveCycleIsArmed'
    BY <2>2 DEF LiveCycleIsArmed
  <2> HIDE DEF locals
  <2>4. /\ ~NeedsCycle("unsubscribe", locals) /\ ~HoldingAt("unsubscribe", locals)
        /\ ~AnnouncingAt("unsubscribe", locals) /\ "unsubscribe" \in Steps
    BY DEF NeedsCycle, HoldingAt, AnnouncingAt, Steps
  <2>5. Pending' \subseteq Pending /\ scheduled' \cap due' = {} /\ exhausted' = exhausted
    BY <2>2 DEF Pending, CyclesInv, OneBaton
  <2>6. /\ retry_token.cycle <= recovery_epoch /\ recovery_epoch' >= recovery_epoch
        /\ retry_token'.cycle <= recovery_epoch'
        /\ locals.cycle <= recovery_epoch' /\ locals.token.cycle <= recovery_epoch'
    BY <1>t, <2>1, <2>2, Numbers, FreshLocals DEF CyclesInv, KnownCycles
  <2>7. cycle_id' \in {0, cycle_id}
    BY <2>2
  <2>8. WithinBudget(locals.attempt)
    BY <2>1, FreshLocals
  <2> QED
    BY <1>t, <2>1, <2>2, <2>3, <2>4, <2>5, <2>6, <2>7, <2>8, ThreadMovesOn
<1> QED
  BY <1>1, <1>2, <1>3, <1>4, <1>5 DEF Operation

\* A thread goes on with the cycle it has, or leaves it; the recovery is as it was.
LEMMA ThreadSteps ==
  ASSUME TypeOK, TypeOK', CyclesInv, NEW t \in Threads, NEW step \in Steps, NEW locals \in Jobs,
         at' = [at EXCEPT ![t] = step], job' = [job EXCEPT ![t] = locals],
         UNCHANGED <<intent, recovery, subscribed, due, exhausted>>, scheduled' \subseteq scheduled,
         locals.cycle \in {0, job[t].cycle}, locals.attempt \in {1, job[t].attempt},
         locals.token \in {NoRetry, job[t].token},
         NeedsCycle(step, locals) => locals.cycle # 0,
         HoldingAt(step, locals) => \/ locals.cycle = 0
                                    \/ locals.cycle = job[t].cycle /\ HoldingAt(at[t], job[t]),
         AnnouncingAt(step, locals) =>
           Announcing(t) /\ locals.cycle = job[t].cycle /\ locals.attempt = job[t].attempt,
         step # "unsubscribe"
  PROVE  CyclesInv'
<1>1. /\ recovery_epoch' = recovery_epoch /\ closed' = closed /\ cycle_id' = cycle_id
      /\ retry_token' = retry_token /\ exhausted' = exhausted
  BY DEF intent, recovery
<1>2. recovery_epoch \in Nat /\ job[t].cycle <= recovery_epoch /\ job[t].token.cycle <= recovery_epoch
  BY Numbers DEF CyclesInv, KnownCycles
<1>3. /\ locals.cycle <= recovery_epoch' /\ locals.token.cycle <= recovery_epoch'
      /\ recovery_epoch' >= recovery_epoch /\ retry_token'.cycle <= recovery_epoch'
  BY <1>1, <1>2, FreshLocals DEF CyclesInv, KnownCycles
<1>4. Pending' \subseteq Pending /\ scheduled' \cap due' = {}
  BY DEF Pending, CyclesInv, OneBaton
<1>5. WithinBudget(locals.attempt)
  BY FreshLocals DEF CyclesInv, BudgetKept
<1>6. AnnouncingAt(step, locals) => ~Budgeted(locals.attempt) /\ locals.cycle # cycle_id'
  BY <1>1 DEF CyclesInv, BudgetKept
<1>7. LiveCycleIsArmed'
  BY DEF CyclesInv, CyclesAreArmed, LiveCycleIsArmed, Armed, intent, recovery
<1>8. (closed => closed') /\ cycle_id' \in {0, cycle_id}
  BY <1>1
<1> QED
  BY <1>1, <1>3, <1>4, <1>5, <1>6, <1>7, <1>8, ThreadMovesOn

\* The same, when its locals stay as they are.
LEMMA ThreadGoes ==
  ASSUME TypeOK, TypeOK', CyclesInv, NEW t \in Threads, NEW step \in Steps \ {"unsubscribe", "publish", "cancel"},
         Goto(t, step), job' = job,
         UNCHANGED <<intent, recovery, subscribed, due, exhausted>>, scheduled' \subseteq scheduled,
         NeedsCycle(step, job[t]) => job[t].cycle # 0,
         HoldingAt(step, job[t]) => job[t].cycle = 0 \/ HoldingAt(at[t], job[t])
  PROVE  CyclesInv'
<1> DEFINE locals == job[t]
<1>1. job[t] \in Jobs /\ job' = [job EXCEPT ![t] = job[t]] /\ at' = [at EXCEPT ![t] = step]
  BY DEF TypeOK, Goto
<1>2. ~AnnouncingAt(step, job[t])
  BY DEF AnnouncingAt
<1>3. locals = job[t]
  OBVIOUS
<1> HIDE DEF locals
<1> QED
  BY <1>1, <1>2, <1>3, ThreadSteps

\* An episode that ends.
LEMMA EpisodeEndKeepsCycles ==
  ASSUME TypeOK, TypeOK', CyclesInv, NEW t \in Threads, at[t] \in {"probe", "verify"},
         NEW step \in {"satisfied", "unsatisfied", "done"}, EndEpisode(t, step),
         UNCHANGED <<intent, recovery, external, job>>
  PROVE  CyclesInv'
<1> USE DEF external
<1>1. HoldingAt(at[t], job[t])
  BY DEF HoldingAt
<1>2. CASE job[t].cycle = 0
  <2>1. Goto(t, "done")
    BY <1>2 DEF EndEpisode
  <2>2. "done" \in Steps /\ ~NeedsCycle("done", job[t])
    BY DEF Steps, NeedsCycle
  <2> QED
    BY <1>1, <2>1, <2>2, ThreadGoes
<1>3. CASE job[t].cycle # 0
  <2>1. Goto(t, step)
    BY <1>3 DEF EndEpisode
  <2>2. step \in Steps
    BY DEF Steps
  <2> QED
    BY <1>1, <1>3, <2>1, <2>2, ThreadGoes
<1> QED
  BY <1>2, <1>3

\* A cycle that ends.
LEMMA CycleEndKeepsCycles ==
  ASSUME TypeOK, TypeOK', CyclesInv, NEW t \in Threads, NEW step \in {"done", "publish"},
         EndCycle(t, step), HoldingAt(at[t], job[t]), NeedsCycle(at[t], job[t]),
         step = "publish" => ~Budgeted(job[t].attempt),
         UNCHANGED <<intent, external>>
  PROVE  CyclesInv'
<1>1. /\ step \in AfterCancel /\ job[t].cycle # 0 /\ job[t] \in Jobs
      /\ retry_token \in Retries \cup {NoRetry} /\ NoRetry \in Retries \cup {NoRetry}
      /\ retry_token.cycle <= recovery_epoch /\ job[t].cycle <= recovery_epoch
      /\ job[t].token.cycle <= recovery_epoch /\ NoRetry.cycle <= recovery_epoch
      /\ WithinBudget(job[t].attempt)
  BY Numbers, FreshLocals DEF AfterCancel, TypeOK, CyclesInv, KnownCycles, BudgetKept
<1>2. PICK token \in Retries \cup {NoRetry} :
        /\ Resume(t, job[t], token, step) /\ token.cycle <= recovery_epoch
        /\ cycle_id' \in {0, cycle_id} /\ job[t].cycle # cycle_id'
        /\ retry_token' \in {NoRetry, retry_token}
  BY <1>1 DEF EndCycle, ReplaceCycle, recovery
<1>3. /\ recovery_epoch' = recovery_epoch /\ closed' = closed /\ exhausted' = exhausted
      /\ Pending' = Pending /\ scheduled' \cap due' = {}
  BY DEF intent, external, Pending, CyclesInv, OneBaton
<1>4. LiveCycleIsArmed'
  BY <1>2 DEF CyclesInv, CyclesAreArmed, LiveCycleIsArmed, Armed, intent, external
<1>5. /\ retry_token'.cycle <= recovery_epoch' /\ recovery_epoch' >= recovery_epoch
      /\ token.cycle <= recovery_epoch'
  BY <1>1, <1>2, <1>3, Numbers
<1>6. (closed => closed') /\ Pending' \subseteq Pending
  BY <1>3
<1> DEFINE locals == job[t]
<1>7. locals = job[t]
  OBVIOUS
<1> HIDE DEF locals
<1> QED
  BY <1>1, <1>2, <1>3, <1>4, <1>5, <1>6, <1>7, ThreadResumes

\* The thread that launches an attempt passes the cycle on to it.
LEMMA LaunchKeepsCycles ==
  ASSUME TypeOK, TypeOK', CyclesInv, NEW t \in Threads, Launch(t)
  PROVE  CyclesInv'
<1>0. at[t] = "launch" /\ HoldingAt(at[t], job[t]) /\ job[t].cycle # 0
  BY DEF Launch, HoldingAt, NeedsCycle, CyclesInv, KnownCycles
<1>e. /\ UNCHANGED <<intent, recovery, subscribed, due, exhausted, scheduled>>
      /\ cycle_id' = cycle_id /\ recovery_epoch' = recovery_epoch /\ retry_token' = retry_token
      /\ Pending' = Pending
  BY DEF Launch, intent, recovery, external, Pending
<1>1. CASE ~Current(job[t].cycle)
  <2>1. Goto(t, "done") /\ job' = job
    BY <1>1 DEF Launch
  <2>2. "done" \in Steps /\ ~NeedsCycle("done", job[t])
    BY DEF Steps, NeedsCycle
  <2>3. scheduled' \subseteq scheduled
    BY <1>e
  <2> QED
    BY <1>0, <1>e, <2>1, <2>2, <2>3, ThreadGoes
<1>2. CASE Current(job[t].cycle)
  <2>1. PICK w \in Workers :
          /\ at[w] = "idle"
          /\ at' = [at EXCEPT ![t] = "spawn", ![w] = "registered"]
          /\ job' = [job EXCEPT ![t].workers = {w},
                                ![w] = [NoJob EXCEPT !.cycle = job[t].cycle,
                                                     !.attempt = job[t].attempt]]
    BY <1>2 DEF Launch
  <2>w. w \in Threads /\ w # t
    BY <1>0, <2>1 DEF Threads
  <2>2. /\ at'[t] = "spawn" /\ at'[w] = "registered"
        /\ job'[t].cycle = job[t].cycle /\ job'[t].attempt = job[t].attempt
        /\ job'[t].token = job[t].token
        /\ job'[w].cycle = job[t].cycle /\ job'[w].attempt = job[t].attempt
        /\ job'[w].token = NoRetry
        /\ \A u \in Threads \ {t, w} : at'[u] = at[u] /\ job'[u] = job[u]
    BY <2>1, <2>w, Locals, FreshLocals DEF TypeOK, Jobs, NoJob
  <2>3. \A c : ~Holds(t, c)'
    BY <2>2 DEF Holds, HoldingAt
  <2>4. ASSUME NEW u \in Threads, NEW c \in Cycles, Holds(u, c)'
        PROVE  \/ u = w /\ Holds(t, c)
               \/ u \notin {t, w} /\ Holds(u, c)
    BY <1>0, <2>2, <2>3, <2>4 DEF Holds
  <2>5. OneBaton'
    <3>1. \A u, v \in Threads : \A c \in Cycles : Holds(u, c)' /\ Holds(v, c)' => u = v
      BY <2>4 DEF CyclesInv, OneBaton
    <3>2. \A r \in Pending' : r.cycle \in Cycles
      BY DEF Pending, TypeOK, Retries
    <3>3. \A r \in Pending' : \A u \in Threads : ~Holds(u, r.cycle)'
      BY <1>e, <2>4, <3>2 DEF CyclesInv, OneBaton
    <3>4. \A c \in exhausted' : c \in Cycles
      BY DEF TypeOK
    <3>5. \A c \in exhausted' : \A u \in Threads : ~Holds(u, c)'
      BY <1>e, <2>4, <3>4 DEF CyclesInv, OneBaton
    <3> QED
      BY <1>e, <3>1, <3>3, <3>5 DEF CyclesInv, OneBaton
  <2>6. KnownCycles'
    <3>1. \A u \in Threads : job'[u].cycle <= recovery_epoch' /\ job'[u].token.cycle <= recovery_epoch'
      BY <1>e, <2>2, FreshLocals, Numbers DEF CyclesInv, KnownCycles
    <3>2. \A u \in Threads : NeedsCycle(at'[u], job'[u]) => job'[u].cycle # 0
      BY <1>0, <2>2 DEF CyclesInv, KnownCycles
    <3> QED
      BY <1>e, <3>1, <3>2 DEF CyclesInv, KnownCycles
  <2>7. BudgetKept'
    <3>1. \A u \in Threads : WithinBudget(job'[u].attempt)
      BY <2>2 DEF CyclesInv, BudgetKept
    <3>2. \A u \in Threads : AnnouncingAt(at'[u], job'[u]) => ~Budgeted(job'[u].attempt) /\ job'[u].cycle # cycle_id'
      <4>1. ~AnnouncingAt(at'[t], job'[t]) /\ ~AnnouncingAt(at'[w], job'[w])
        BY <2>2 DEF AnnouncingAt
      <4> QED
        BY <1>e, <2>2, <4>1 DEF CyclesInv, BudgetKept, Announcing
    <3> QED
      BY <1>e, <3>1, <3>2 DEF CyclesInv, BudgetKept, Announcing
  <2>8. CyclesAreArmed'
    <3>1. LiveCycleIsArmed'
      BY <1>e DEF CyclesInv, CyclesAreArmed, LiveCycleIsArmed, Armed, intent
    <3>2. \A u \in Threads : at'[u] = "unsubscribe" => closed'
      BY <1>e, <2>2 DEF CyclesInv, CyclesAreArmed, intent
    <3> QED
      BY <3>1, <3>2 DEF CyclesAreArmed
  <2> QED
    BY <2>5, <2>6, <2>7, <2>8 DEF CyclesInv
<1> QED
  BY <1>1, <1>2

\* Starting the attempt changes nothing about who has the cycle.
LEMMA SpawnKeepsCycles ==
  ASSUME TypeOK, TypeOK', EpisodeInv, CyclesInv, NEW t \in Threads, Spawn(t)
  PROVE  CyclesInv'
<1>e. /\ UNCHANGED <<intent, recovery, external>> /\ job' = job
      /\ cycle_id' = cycle_id /\ recovery_epoch' = recovery_epoch /\ retry_token' = retry_token
      /\ Pending' = Pending /\ scheduled' = scheduled /\ due' = due /\ exhausted' = exhausted
  BY DEF Spawn, intent, recovery, external, Pending
<1>1. \A u \in Threads : \/ at'[u] = at[u] \/ at'[u] = "done"
                         \/ at'[u] = "acquire" /\ at[u] = "registered"
  BY DEF Spawn, EpisodeInv, SpawnersOwnWorkers
<1>2. \A u \in Threads, c \in Cycles : Holds(u, c)' => Holds(u, c)
  BY <1>e, <1>1 DEF Holds, HoldingAt
<1>3. OneBaton'
  BY <1>e, <1>2, BatonMoves DEF CyclesInv, OneBaton
<1>4. KnownCycles'
  <2>1. \A u \in Threads : NeedsCycle(at'[u], job'[u]) => NeedsCycle(at[u], job[u])
    BY <1>e, <1>1 DEF NeedsCycle
  <2> QED
    BY <1>e, <2>1 DEF CyclesInv, KnownCycles
<1>5. BudgetKept'
  <2>1. \A u \in Threads : AnnouncingAt(at'[u], job'[u]) => AnnouncingAt(at[u], job[u])
    BY <1>e, <1>1 DEF AnnouncingAt
  <2> QED
    BY <1>e, <2>1 DEF CyclesInv, BudgetKept, Announcing
<1>6. CyclesAreArmed'
  <2>1. LiveCycleIsArmed'
    BY <1>e DEF CyclesInv, CyclesAreArmed, LiveCycleIsArmed, Armed, intent, external
  <2>2. \A u \in Threads : at'[u] = "unsubscribe" => closed'
    BY <1>e, <1>1 DEF CyclesInv, CyclesAreArmed, intent
  <2> QED
    BY <2>1, <2>2 DEF CyclesAreArmed
<1> QED
  BY <1>3, <1>4, <1>5, <1>6 DEF CyclesInv

\* A thread lets go of its cycle: a retry or the announcement has it now.
LEMMA ThreadLetsGo ==
  ASSUME TypeOK, TypeOK', CyclesInv, NEW t \in Threads, NEW step \in {"done", "store"},
         HoldingAt(at[t], job[t]), NeedsCycle(at[t], job[t]), Goto(t, step), job' = job,
         UNCHANGED <<intent, recovery, subscribed, due>>,
         NEW r \in Retries, r.cycle = job[t].cycle, WithinBudget(r.attempt),
         \/ scheduled' = scheduled \cup {r} /\ exhausted' = exhausted
         \/ scheduled' = scheduled /\ exhausted' = exhausted \cup {job[t].cycle}
  PROVE  CyclesInv'
<1>1. /\ job[t].cycle # 0 /\ job[t].cycle \in Cycles /\ job[t].cycle <= recovery_epoch
      /\ Holds(t, job[t].cycle) /\ job[t].cycle \in Nat
  BY Locals DEF CyclesInv, KnownCycles, Holds
<1>2. /\ at'[t] = step /\ \A u \in Threads \ {t} : at'[u] = at[u]
      /\ cycle_id' = cycle_id /\ recovery_epoch' = recovery_epoch /\ retry_token' = retry_token
      /\ closed' = closed /\ recovery_epoch \in Nat
  BY Numbers DEF TypeOK, Goto, intent, recovery
<1>3. \A u \in Threads, c \in Cycles : Holds(u, c)' => Holds(u, c) /\ u # t
  BY <1>2 DEF Holds, HoldingAt
<1>4. \A u \in Threads : ~Holds(u, job[t].cycle)'
  BY <1>1, <1>3 DEF CyclesInv, OneBaton
<1>5. /\ \A q \in Pending : q.cycle # job[t].cycle /\ q.cycle \in Cycles
      /\ job[t].cycle \notin exhausted
      /\ \A c \in exhausted : c \in Cycles
  BY <1>1 DEF CyclesInv, OneBaton, Pending, TypeOK, Retries
<1>6. \A q \in Pending' : q \in Pending \/ (q = r /\ scheduled' = scheduled \cup {r} /\ exhausted' = exhausted)
  BY DEF Pending
<1>7. OneBaton'
  <2>1. \A u, v \in Threads : \A c \in Cycles : Holds(u, c)' /\ Holds(v, c)' => u = v
    BY <1>3 DEF CyclesInv, OneBaton
  <2>2. \A p, q \in Pending' : p.cycle = q.cycle => p = q
    BY <1>5, <1>6 DEF CyclesInv, OneBaton
  <2>3. scheduled' \cap due' = {}
    BY <1>5 DEF CyclesInv, OneBaton, Pending
  <2>4. \A q \in Pending' : \A u \in Threads : ~Holds(u, q.cycle)'
    BY <1>3, <1>4, <1>5, <1>6 DEF CyclesInv, OneBaton
  <2>5. \A c \in exhausted' : (\A u \in Threads : ~Holds(u, c)') /\ (\A q \in Pending' : q.cycle # c)
    <3>1. ASSUME NEW c \in exhausted
          PROVE  (\A u \in Threads : ~Holds(u, c)') /\ (\A q \in Pending : q.cycle # c) /\ c # job[t].cycle
      BY <1>3, <1>5, <3>1 DEF CyclesInv, OneBaton
    <3> QED
      BY <1>4, <1>5, <1>6, <3>1 DEF Pending
  <2> QED
    BY <2>1, <2>2, <2>3, <2>4, <2>5 DEF OneBaton
<1>8. KnownCycles'
  <2>1. \A u \in Threads : NeedsCycle(at'[u], job'[u]) => job'[u].cycle # 0
    BY <1>1, <1>2 DEF CyclesInv, KnownCycles
  <2>2. \A q \in Pending' : q.cycle \in 1 .. recovery_epoch'
    BY <1>1, <1>2, <1>6 DEF CyclesInv, KnownCycles
  <2>3. \A c \in exhausted' : c \in 1 .. recovery_epoch'
    BY <1>1, <1>2 DEF CyclesInv, KnownCycles
  <2> QED
    BY <1>2, <2>1, <2>2, <2>3 DEF CyclesInv, KnownCycles
<1>9. BudgetKept'
  <2>1. \A u \in Threads : AnnouncingAt(at'[u], job'[u]) => AnnouncingAt(at[u], job[u])
    BY <1>2 DEF AnnouncingAt
  <2>2. \A q \in Pending' : WithinBudget(q.attempt)
    BY <1>6 DEF CyclesInv, BudgetKept
  <2> QED
    BY <1>2, <2>1, <2>2 DEF CyclesInv, BudgetKept, Announcing
<1>10. CyclesAreArmed'
  <2>1. LiveCycleIsArmed'
    BY DEF CyclesInv, CyclesAreArmed, LiveCycleIsArmed, Armed, intent, recovery
  <2>2. \A u \in Threads : at'[u] = "unsubscribe" => closed'
    BY <1>2 DEF CyclesInv, CyclesAreArmed
  <2> QED
    BY <2>1, <2>2 DEF CyclesAreArmed
<1> QED
  BY <1>7, <1>8, <1>9, <1>10 DEF CyclesInv

\* The next attempt of a budgeted one is within the budget.
LEMMA NextRetryKept ==
  ASSUME TypeOK, NEW t \in Threads
  PROVE  /\ NextRetry(t) \in Retries /\ NextRetry(t).cycle = job[t].cycle
         /\ Budgeted(job[t].attempt) => WithinBudget(NextRetry(t).attempt)
<1>1. NextRetry(t).cycle = job[t].cycle
  BY DEF NextRetry
<1>2. NextRetry(t).attempt = IF job[t].attempt < AttemptBound THEN job[t].attempt + 1 ELSE AttemptBound
  BY DEF NextRetry
<1>3. ASSUME Budgeted(job[t].attempt) PROVE WithinBudget(NextRetry(t).attempt)
  <2>1. job[t].attempt \in Nat
    BY Locals
  <2>2. MaxAttempts = 0 \/ job[t].attempt < MaxAttempts
    BY <1>3 DEF Budgeted
  <2>3. MaxAttempts = 0 \/ NextRetry(t).attempt <= MaxAttempts
    BY <1>2, <2>1, <2>2, BoundsAssumption
  <2> QED
    BY <2>3 DEF WithinBudget
<1> QED
  BY <1>1, <1>3, NextRetryTyped

\* Every step of a call or an attempt keeps the invariant.
LEMMA ContinueKeepsCycles ==
  ASSUME TypeOK, TypeOK', EpisodeInv, CyclesInv, NEW t \in Threads, Continue(t)
  PROVE  CyclesInv'
<1> USE DEF intent, recovery, external
<1>s. {"idle", "done", "probe", "command", "verify", "satisfied", "unsatisfied", "retry", "store",
       "publish", "join"} \subseteq Steps
  BY DEF Steps
<1>j. /\ job[t] \in Jobs /\ job = [job EXCEPT ![t] = job[t]]
      /\ job[t].cycle <= recovery_epoch /\ job[t].token.cycle <= recovery_epoch
      /\ job[t].token \in Retries \cup {NoRetry} /\ WithinBudget(job[t].attempt)
      /\ NeedsCycle(at[t], job[t]) => job[t].cycle # 0
  BY Locals DEF TypeOK, CyclesInv, KnownCycles, BudgetKept
<1>1. ASSUME Cancel(t) PROVE CyclesInv'
  <2> DEFINE locals == [job[t] EXCEPT !.token = NoRetry, !.then = "done"]
             step == job[t].then
  <2>1. /\ locals \in Jobs /\ locals.cycle = job[t].cycle /\ locals.attempt = job[t].attempt
        /\ locals.token = NoRetry
    BY <1>j, FreshLocals DEF Jobs, AfterCancel
  <2>2. step \in AfterCancel /\ step \in Steps /\ step # "unsubscribe" /\ step # "cancel" /\ step = job[t].then
    BY <1>j, Locals DEF AfterCancel, Steps
  <2>3. /\ at' = [at EXCEPT ![t] = step] /\ job' = [job EXCEPT ![t] = locals]
        /\ UNCHANGED <<intent, recovery, subscribed, due, exhausted>> /\ scheduled' \subseteq scheduled
        /\ at[t] = "cancel"
    BY <1>1, <1>j DEF Cancel, Goto, TypeOK
  <2> HIDE DEF locals, step
  <2>4. /\ NeedsCycle(step, locals) => NeedsCycle(at[t], job[t])
        /\ HoldingAt(step, locals) => HoldingAt(at[t], job[t])
        /\ AnnouncingAt(step, locals) => Announcing(t)
    BY <2>2, <2>3 DEF NeedsCycle, HoldingAt, AnnouncingAt, Announcing, AfterCancel
  <2> QED
    BY <1>j, <2>1, <2>2, <2>3, <2>4, ThreadSteps
<1>2. ASSUME Return(t) PROVE CyclesInv'
  <2>1. ~NeedsCycle("idle", NoJob) /\ ~HoldingAt("idle", NoJob) /\ ~AnnouncingAt("idle", NoJob)
    BY DEF NeedsCycle, HoldingAt, AnnouncingAt
  <2>2. /\ at' = [at EXCEPT ![t] = "idle"] /\ job' = [job EXCEPT ![t] = NoJob]
        /\ UNCHANGED <<intent, recovery, subscribed, due, exhausted>> /\ scheduled' \subseteq scheduled
    BY <1>2 DEF Return, Goto
  <2> QED
    BY <1>s, <2>1, <2>2, FreshLocals, ThreadSteps
<1>3. ASSUME Unsubscribe(t) PROVE CyclesInv'
  <2> DEFINE locals == [job[t] EXCEPT !.token = NoRetry]
  <2>1. /\ locals \in Jobs /\ locals.cycle = job[t].cycle /\ locals.attempt = job[t].attempt
        /\ locals.token = NoRetry
    BY <1>j, FreshLocals DEF Jobs
  <2>2. /\ Resume(t, locals, job[t].token, "join") /\ "join" \in AfterCancel
        /\ recovery_epoch' = recovery_epoch /\ closed' = closed /\ cycle_id' = cycle_id
        /\ retry_token' = retry_token /\ exhausted' = exhausted /\ scheduled' = scheduled
        /\ due' = due /\ Pending' = Pending
    BY <1>3 DEF Unsubscribe, AfterCancel, Pending
  <2>3. cycle_id' = 0
    BY <1>3, <2>2 DEF Unsubscribe, CyclesInv, CyclesAreArmed, LiveCycleIsArmed
  <2>4. LiveCycleIsArmed'
    BY <2>3 DEF LiveCycleIsArmed
  <2> HIDE DEF locals
  <2>5. /\ recovery_epoch' >= recovery_epoch /\ retry_token'.cycle <= recovery_epoch'
        /\ job[t].token.cycle <= recovery_epoch'
        /\ locals.cycle <= recovery_epoch' /\ locals.token.cycle <= recovery_epoch'
    BY <1>j, <2>1, <2>2, Numbers, FreshLocals DEF CyclesInv, KnownCycles
  <2>6. Pending' \subseteq Pending /\ scheduled' \cap due' = {} /\ WithinBudget(locals.attempt)
    BY <1>j, <2>1, <2>2 DEF CyclesInv, OneBaton
  <2>7. (closed => closed') /\ cycle_id' \in {0, cycle_id}
    BY <2>2
  <2> QED
    BY <1>j, <2>1, <2>2, <2>4, <2>5, <2>6, <2>7, ThreadResumes
<1>4. ASSUME Join(t) PROVE CyclesInv'
  <2>1. ASSUME Goto(t, "done"), job' = job, UNCHANGED <<intent, recovery, external>> PROVE CyclesInv'
    <3>1. ~NeedsCycle("done", job[t]) /\ ~HoldingAt("done", job[t])
      BY DEF NeedsCycle, HoldingAt
    <3> QED
      BY <1>s, <2>1, <3>1, ThreadGoes
  <2>2. ASSUME NEW w \in job[t].workers, job' = [job EXCEPT ![t].workers = @ \ {w}], at[t] = "join",
               at' = at, UNCHANGED <<intent, recovery, external>>
        PROVE  CyclesInv'
    <3> DEFINE locals == [job[t] EXCEPT !.workers = @ \ {w}]
    <3>1. /\ locals \in Jobs /\ locals.cycle = job[t].cycle /\ locals.attempt = job[t].attempt
          /\ locals.token = job[t].token
      BY <1>j DEF Jobs
    <3>2. /\ at' = [at EXCEPT ![t] = "join"] /\ job' = [job EXCEPT ![t] = locals]
          /\ scheduled' \subseteq scheduled
      BY <2>2 DEF TypeOK
    <3> HIDE DEF locals
    <3>3. ~NeedsCycle("join", locals) /\ ~HoldingAt("join", locals) /\ ~AnnouncingAt("join", locals)
      BY DEF NeedsCycle, HoldingAt, AnnouncingAt
    <3> QED
      BY <1>s, <2>2, <3>1, <3>2, <3>3, ThreadSteps
  <2> QED
    BY <1>4, <2>1, <2>2 DEF Join
<1>5. ASSUME BeginAttempt(t) PROVE CyclesInv'
  <2>1. PICK step \in {"probe", "done"} : Goto(t, step)
    BY <1>5 DEF BeginAttempt
  <2>2. HoldingAt(at[t], job[t]) /\ ~NeedsCycle(step, job[t])
    BY <1>5 DEF BeginAttempt, HoldingAt, NeedsCycle
  <2> QED
    BY <1>5, <1>s, <2>1, <2>2, ThreadGoes DEF BeginAttempt
<1>6. ASSUME Probe(t) PROVE CyclesInv'
  <2>1. CASE EndEpisode(t, "satisfied")
    BY <1>6, <2>1, EpisodeEndKeepsCycles DEF Probe
  <2>2. CASE Goto(t, "command")
    <3>1. HoldingAt(at[t], job[t]) /\ ~NeedsCycle("command", job[t])
      BY <1>6 DEF Probe, HoldingAt, NeedsCycle
    <3> QED
      BY <1>6, <1>s, <2>2, <3>1, ThreadGoes DEF Probe
  <2> QED
    BY <1>6, <2>1, <2>2 DEF Probe
<1>7. ASSUME Command(t) PROVE CyclesInv'
  <2>1. HoldingAt(at[t], job[t]) /\ ~NeedsCycle("verify", job[t])
    BY <1>7 DEF Command, HoldingAt, NeedsCycle
  <2> QED
    BY <1>7, <1>s, <2>1, ThreadGoes DEF Command
<1>8. ASSUME Verify(t) PROVE CyclesInv'
  BY <1>8, EpisodeEndKeepsCycles DEF Verify
<1>9. ASSUME EpisodeRaises(t) PROVE CyclesInv'
  BY <1>9, EpisodeEndKeepsCycles DEF EpisodeRaises
<1>10. ASSUME HandleSatisfied(t) PROVE CyclesInv'
  <2>1. HoldingAt(at[t], job[t]) /\ NeedsCycle(at[t], job[t])
    BY <1>10 DEF HandleSatisfied, HoldingAt, NeedsCycle
  <2>2. EndCycle(t, "done") /\ UNCHANGED <<intent, external>> /\ "done" # "publish"
    BY <1>10 DEF HandleSatisfied
  <2> QED
    BY <2>1, <2>2, CycleEndKeepsCycles
<1>11. ASSUME HandleUnsatisfied(t) PROVE CyclesInv'
  <2>1. PICK step \in {"retry", "done"} : Goto(t, step)
    BY <1>11 DEF HandleUnsatisfied
  <2>2. HoldingAt(at[t], job[t]) /\ NeedsCycle(at[t], job[t])
    BY <1>11 DEF HandleUnsatisfied, HoldingAt, NeedsCycle
  <2> QED
    BY <1>11, <1>s, <1>j, <2>1, <2>2, ThreadGoes DEF HandleUnsatisfied
<1>12. ASSUME Exhaust(t) PROVE CyclesInv'
  <2>1. HoldingAt(at[t], job[t]) /\ NeedsCycle(at[t], job[t])
    BY <1>12 DEF Exhaust, HoldingAt, NeedsCycle
  <2>2. EndCycle(t, "publish") /\ UNCHANGED <<intent, external>> /\ ~Budgeted(job[t].attempt)
    BY <1>12 DEF Exhaust
  <2> QED
    BY <2>1, <2>2, CycleEndKeepsCycles
<1>13. ASSUME Publish(t) PROVE CyclesInv'
  <2>1. HoldingAt(at[t], job[t]) /\ NeedsCycle(at[t], job[t])
    BY <1>13 DEF Publish, HoldingAt, NeedsCycle
  <2> DEFINE r == [cycle |-> job[t].cycle, attempt |-> job[t].attempt]
  <2>2. r \in Retries /\ r.cycle = job[t].cycle /\ WithinBudget(r.attempt)
    BY <1>j, Locals DEF Retries
  <2> HIDE DEF r
  <2> QED
    BY <1>13, <2>1, <2>2, ThreadLetsGo DEF Publish
<1>14. ASSUME Schedule(t) PROVE CyclesInv'
  <2>1. HoldingAt(at[t], job[t]) /\ NeedsCycle(at[t], job[t])
    BY <1>14 DEF Schedule, HoldingAt, NeedsCycle
  <2> DEFINE r == NextRetry(t)
  <2>2. r \in Retries /\ r.cycle = job[t].cycle /\ WithinBudget(r.attempt)
    BY <1>14, NextRetryKept DEF Schedule
  <2>3. scheduled' = scheduled \cup {r}
    BY <1>14 DEF Schedule
  <2> HIDE DEF r
  <2> QED
    BY <1>14, <2>1, <2>2, <2>3, ThreadLetsGo DEF Schedule
<1>15. ASSUME StoreToken(t) PROVE CyclesInv'
  <2>1. CASE Current(job[t].cycle)
    <3>1. /\ Resume(t, job[t], retry_token, "done") /\ "done" \in AfterCancel
          /\ retry_token' = NextRetry(t)
          /\ recovery_epoch' = recovery_epoch /\ closed' = closed /\ cycle_id' = cycle_id
          /\ exhausted' = exhausted /\ scheduled' = scheduled /\ due' = due /\ Pending' = Pending
      BY <1>15, <2>1 DEF StoreToken, AfterCancel, Pending
    <3>2. /\ retry_token \in Retries \cup {NoRetry} /\ retry_token.cycle <= recovery_epoch
      BY DEF TypeOK, CyclesInv, KnownCycles
    <3>3. LiveCycleIsArmed'
      BY <1>15 DEF StoreToken, CyclesInv, CyclesAreArmed, LiveCycleIsArmed, Armed
    <3>4. /\ recovery_epoch' >= recovery_epoch /\ retry_token'.cycle <= recovery_epoch'
          /\ retry_token.cycle <= recovery_epoch'
          /\ job[t].cycle <= recovery_epoch' /\ job[t].token.cycle <= recovery_epoch'
      BY <1>j, <3>1, <3>2, Numbers, NextRetryKept
    <3>5. Pending' \subseteq Pending /\ scheduled' \cap due' = {}
      BY <3>1 DEF CyclesInv, OneBaton
    <3>6. (closed => closed') /\ cycle_id' \in {0, cycle_id}
      BY <3>1
    <3> DEFINE locals == job[t]
    <3>7. locals = job[t]
      OBVIOUS
    <3> HIDE DEF locals
    <3> QED
      BY <1>j, <3>1, <3>2, <3>3, <3>4, <3>5, <3>6, <3>7, ThreadResumes
  <2>2. CASE ~Current(job[t].cycle)
    <3>1. Goto(t, "done") /\ job' = job /\ scheduled' \subseteq scheduled
      BY <1>15, <2>2 DEF StoreToken
    <3>2. ~NeedsCycle("done", job[t]) /\ ~HoldingAt("done", job[t])
      BY DEF NeedsCycle, HoldingAt
    <3>3. UNCHANGED <<intent, recovery, subscribed, due, exhausted>>
      BY <1>15, <2>2 DEF StoreToken
    <3> QED
      BY <1>s, <3>1, <3>2, <3>3, ThreadGoes
  <2> QED
    BY <2>1, <2>2
<1> QED
  BY <1>1, <1>2, <1>3, <1>4, <1>5, <1>6, <1>7, <1>8, <1>9, <1>10, <1>11, <1>12, <1>13, <1>14,
     <1>15, LaunchKeepsCycles, SpawnKeepsCycles DEF Continue

\* The timers, the bus and the server keep it too.
LEMMA EnvironmentKeepsCycles ==
  ASSUME TypeOK, TypeOK', CyclesInv,
         \/ \E r \in Retries : RetryFires(r)
         \/ \E b \in BusThreads, r \in Retries : OnRetryDue(b, r)
         \/ ServerCrashes
         \/ UNCHANGED vars
  PROVE  CyclesInv'
<1> USE DEF intent, recovery, external
<1>0. ASSUME UNCHANGED <<intent, recovery, subscribed, exhausted, at, job>>,
             Pending' \subseteq Pending, scheduled' \cap due' = {}
      PROVE  CyclesInv'
  <2>1. \A u \in Threads : \A c : Holds(u, c)' <=> Holds(u, c)
    BY <1>0 DEF Holds
  <2>2. OneBaton'
    BY <1>0, <2>1 DEF CyclesInv, OneBaton
  <2>3. KnownCycles'
    BY <1>0 DEF CyclesInv, KnownCycles
  <2>4. BudgetKept'
    BY <1>0 DEF CyclesInv, BudgetKept, Announcing
  <2>5. CyclesAreArmed'
    BY <1>0 DEF CyclesInv, CyclesAreArmed, LiveCycleIsArmed, Armed
  <2> QED
    BY <2>2, <2>3, <2>4, <2>5 DEF CyclesInv
<1>1. ASSUME NEW r \in Retries, RetryFires(r) PROVE CyclesInv'
  <2>1. Pending' \subseteq Pending /\ scheduled' \cap due' = {}
    BY <1>1 DEF RetryFires, Pending, CyclesInv, OneBaton
  <2> QED
    BY <1>0, <1>1, <2>1 DEF RetryFires
<1>2. ASSUME NEW b \in BusThreads, NEW r \in Retries, OnRetryDue(b, r) PROVE CyclesInv'
  <2>1. /\ Pending' \subseteq Pending /\ scheduled' \cap due' = {} /\ r \in Pending
        /\ b \in Threads /\ scheduled' = scheduled /\ due' = due \ {r}
    BY <1>2 DEF OnRetryDue, Pending, CyclesInv, OneBaton, Threads
  <2>2. CASE ~(subscribed /\ Current(r.cycle))
    BY <1>0, <1>2, <2>1, <2>2 DEF OnRetryDue
  <2>3. CASE subscribed /\ Current(r.cycle)
    <3> DEFINE locals == [NoJob EXCEPT !.cycle = r.cycle, !.attempt = r.attempt]
    <3>1. /\ locals \in Jobs /\ locals.cycle = r.cycle /\ locals.attempt = r.attempt
          /\ locals.token = NoRetry
      BY FreshLocals DEF Jobs, NoJob, Retries
    <3>2. /\ Resume(b, locals, NoRetry, "launch") /\ "launch" \in AfterCancel
          /\ retry_token' = NoRetry
          /\ recovery_epoch' = recovery_epoch /\ closed' = closed /\ cycle_id' = cycle_id
          /\ exhausted' = exhausted
      BY <1>2, <2>3 DEF OnRetryDue, AfterCancel
    <3>3. LiveCycleIsArmed'
      BY <1>2 DEF OnRetryDue, CyclesInv, CyclesAreArmed, LiveCycleIsArmed, Armed
    <3> HIDE DEF locals
    <3>4. /\ r.cycle \in 1 .. recovery_epoch /\ WithinBudget(r.attempt) /\ recovery_epoch \in Nat
          /\ r.cycle \in Cycles
      BY <2>1, Numbers DEF CyclesInv, KnownCycles, BudgetKept
    <3>5. /\ recovery_epoch' >= recovery_epoch /\ retry_token'.cycle <= recovery_epoch'
          /\ NoRetry.cycle <= recovery_epoch'
          /\ locals.cycle <= recovery_epoch' /\ locals.token.cycle <= recovery_epoch'
          /\ locals.cycle # 0
      BY <3>1, <3>2, <3>4, FreshLocals
    <3>6. Untaken(r.cycle)
      BY <2>1, <3>4 DEF CyclesInv, OneBaton, Untaken
    <3>7. Unscheduled(r.cycle)'
      <4>1. \A q \in Pending' : q \in Pending /\ q # r
        BY <1>2, <2>1 DEF OnRetryDue, CyclesInv, OneBaton, Pending
      <4> QED
        BY <2>1, <4>1 DEF CyclesInv, OneBaton, Unscheduled
    <3>8. Untaken(locals.cycle) /\ Unscheduled(locals.cycle)' /\ WithinBudget(locals.attempt)
      BY <3>1, <3>4, <3>6, <3>7 DEF Unscheduled
    <3>9. (closed => closed') /\ cycle_id' \in {0, cycle_id}
      BY <3>2
    <3> QED
      BY <2>1, <3>1, <3>2, <3>3, <3>5, <3>8, <3>9, ThreadResumes
  <2> QED
    BY <2>2, <2>3
<1>3. ASSUME ServerCrashes PROVE CyclesInv'
  <2>1. Pending' \subseteq Pending /\ scheduled' \cap due' = {}
    BY <1>3 DEF ServerCrashes, Pending, CyclesInv, OneBaton
  <2> QED
    BY <1>0, <1>3, <2>1 DEF ServerCrashes
<1>4. ASSUME UNCHANGED vars PROVE CyclesInv'
  <2>1. Pending' \subseteq Pending /\ scheduled' \cap due' = {}
    BY <1>4 DEF vars, Pending, CyclesInv, OneBaton
  <2> QED
    BY <1>0, <1>4, <2>1 DEF vars
<1> QED
  BY <1>1, <1>2, <1>3, <1>4

LEMMA InitCycles == Init => CyclesInv
<1> SUFFICES ASSUME Init PROVE CyclesInv
  OBVIOUS
<1>1. /\ \A t \in Threads : at[t] = "idle" /\ job[t] = NoJob
      /\ Pending = {} /\ exhausted = {} /\ cycle_id = 0 /\ recovery_epoch = 0 /\ retry_token = NoRetry
      /\ scheduled \cap due = {}
  BY DEF Init, Pending
<1>2. \A t \in Threads : /\ ~NeedsCycle(at[t], job[t]) /\ ~HoldingAt(at[t], job[t])
                         /\ ~AnnouncingAt(at[t], job[t])
  BY <1>1 DEF NeedsCycle, HoldingAt, AnnouncingAt
<1>3. KnownCycles
  BY <1>1, <1>2, FreshLocals DEF KnownCycles
<1>4. OneBaton
  BY <1>1, <1>2 DEF OneBaton, Holds
<1>5. BudgetKept
  BY <1>1, <1>2, FreshLocals DEF BudgetKept, Announcing
<1>6. CyclesAreArmed
  BY <1>1 DEF CyclesAreArmed, LiveCycleIsArmed
<1> QED
  BY <1>3, <1>4, <1>5, <1>6 DEF CyclesInv

LEMMA NextCycles == TypeOK /\ TypeOK' /\ EpisodeInv /\ CyclesInv /\ [Next]_vars => CyclesInv'
<1> SUFFICES ASSUME TypeOK, TypeOK', EpisodeInv, CyclesInv, [Next]_vars PROVE CyclesInv'
  OBVIOUS
<1>1. ASSUME NEW t \in Callers, Operation(t) PROVE CyclesInv'
  BY <1>1, OperationKeepsCycles
<1>2. ASSUME NEW t \in Threads, Continue(t) PROVE CyclesInv'
  BY <1>2, ContinueKeepsCycles
<1>3. CASE \/ \E r \in Retries : RetryFires(r)
           \/ \E b \in BusThreads, r \in Retries : OnRetryDue(b, r)
           \/ ServerCrashes
           \/ UNCHANGED vars
  BY <1>3, EnvironmentKeepsCycles
<1>4. QED
  BY <1>1, <1>2, <1>3 DEF Next, Rest

\* Recovery cycles are passed on from thread to retry to thread, one holder at a time.
THEOREM CyclesInvariant == Spec => []CyclesInv
BY InitCycles, NextCycles, TypeCorrect, EpisodeInvariant, PTL DEF Spec

\* Whoever drives a cycle holds it.
LEMMA DriversHold ==
  ASSUME NEW t \in Threads, NEW c, Drives(t, c)
  PROVE  Holds(t, c)
BY DEF Drives, InEpisode, Holds, HoldingAt

\* No cycle is driven twice at once, by attempts or by pending retries.
THEOREM CyclesHaveOneDriver == Spec => []OneDriver
<1>1. TypeOK /\ CyclesInv => OneDriver
  <2> SUFFICES ASSUME TypeOK, CyclesInv PROVE OneDriver
    OBVIOUS
  <2>1. \A t, u \in Threads : \A c \in Cycles : Drives(t, c) /\ Drives(u, c) => t = u
    BY DriversHold DEF CyclesInv, OneBaton
  <2>2. \A r \in Pending, t \in Threads : ~Drives(t, r.cycle)
    BY DriversHold DEF CyclesInv, OneBaton
  <2> QED
    BY <2>1, <2>2 DEF OneDriver, CyclesInv, OneBaton, Pending
<1>2. QED
  BY <1>1, TypeCorrect, CyclesInvariant, PTL

\* A live cycle is armed: disabling, stopping or closing ends it in the same step.
THEOREM LiveCyclesAreArmed == Spec => []LiveCycleIsArmed
<1>1. CyclesInv => LiveCycleIsArmed
  BY DEF CyclesInv, CyclesAreArmed
<1>2. QED
  BY <1>1, CyclesInvariant, PTL

\* Exhaustion is announced once per cycle, over and with its whole budget spent.
THEOREM ExhaustionIsTrue == Spec => []ExhaustedTruthfully
<1>1. TypeOK /\ CyclesInv => ExhaustedTruthfully
  <2> SUFFICES ASSUME TypeOK, CyclesInv, NEW t \in Threads, at[t] = "publish"
               PROVE  /\ job[t].cycle \notin exhausted
                      /\ job[t].cycle # cycle_id
                      /\ ~ \E u \in Threads : Drives(u, job[t].cycle)
                      /\ job[t].attempt = MaxAttempts
    BY DEF ExhaustedTruthfully
  <2>1. /\ Announcing(t) /\ HoldingAt(at[t], job[t]) /\ NeedsCycle(at[t], job[t])
        /\ job[t].cycle \in Cycles /\ job[t].attempt \in Nat
    BY Locals DEF Announcing, AnnouncingAt, HoldingAt, NeedsCycle
  <2>2. Holds(t, job[t].cycle)
    BY <2>1 DEF CyclesInv, KnownCycles, Holds
  <2>3. job[t].cycle \notin exhausted
    BY <2>2 DEF CyclesInv, OneBaton
  <2>4. ASSUME NEW u \in Threads, Drives(u, job[t].cycle) PROVE FALSE
    <3>1. u = t
      BY <2>1, <2>2, <2>4, DriversHold DEF CyclesInv, OneBaton
    <3> QED
      BY <2>4, <3>1 DEF Drives, InEpisode
  <2>5. job[t].cycle # cycle_id /\ job[t].attempt = MaxAttempts
    BY <2>1, BoundsAssumption DEF CyclesInv, BudgetKept, Budgeted, WithinBudget
  <2> QED
    BY <2>3, <2>4, <2>5
<1>2. QED
  BY <1>1, TypeCorrect, CyclesInvariant, PTL
-------------------------------------------------------------------------------
(***************************************************************************)
(* close() leaves no attempt thread behind: ClosingInv.                    *)
(***************************************************************************)

\* No thread begins to close; one that closes forgets only attempts that have ended.
LEMMA ClosingStands ==
  ASSUME TypeOK, ClosingInv, closed' = closed,
         \A u \in Threads : Closer(u)' =>
           Closer(u) /\ \A w \in job[u].workers : w \in job'[u].workers \/ at[w] = "idle",
         closed => \A w \in Workers : at[w] = "idle" => at'[w] = "idle",
         \/ closing' \in {closing, "raised"}
         \/ \E u \in Threads : Closer(u) /\ job[u].workers = {}
  PROVE  ClosingInv'
<1>1. ASSUME NEW u \in Threads, Closer(u)'
      PROVE  /\ u \in Callers /\ closed'
             /\ \A w \in Workers : at'[w] # "idle" => w \in job'[u].workers
  BY <1>1 DEF ClosingInv
<1>2. closing' = "returned" => closed' /\ \A w \in Workers : at'[w] = "idle"
  BY DEF ClosingInv, ClosedIsQuiet
<1> QED
  BY <1>1, <1>2 DEF ClosingInv, ClosedIsQuiet

\* One thread goes on; an idle worker does not.
LEMMA ThreadKeepsClosing ==
  ASSUME TypeOK, ClosingInv, NEW t \in Threads, NEW step, NEW locals,
         at' = [at EXCEPT ![t] = step], job' = [job EXCEPT ![t] = locals],
         closed' = closed, closing' = closing,
         t \in Workers => at[t] # "idle",
         CloserAt(step, locals) => Closer(t) /\ locals.workers = job[t].workers
  PROVE  ClosingInv'
<1>1. /\ at'[t] = step /\ job'[t] = locals
      /\ \A u \in Threads \ {t} : at'[u] = at[u] /\ job'[u] = job[u]
  BY DEF TypeOK
<1>2. \A u \in Threads : Closer(u)' =>
        Closer(u) /\ \A w \in job[u].workers : w \in job'[u].workers \/ at[w] = "idle"
  BY <1>1 DEF Closer
<1>3. \A w \in Workers : at[w] = "idle" => at'[w] = "idle"
  BY <1>1 DEF Threads
<1> QED
  BY <1>2, <1>3, ClosingStands

LEMMA ResumeKeepsClosing ==
  ASSUME TypeOK, ClosingInv, NEW t \in Threads, NEW locals \in Jobs, NEW token \in Retries \cup {NoRetry},
         NEW step \in AfterCancel, Resume(t, locals, token, step),
         closed' = closed, closing' = closing,
         t \in Workers => at[t] # "idle",
         step = "join" => Closer(t) /\ locals.workers = job[t].workers
  PROVE  ClosingInv'
<1>1. CASE token = NoRetry
  <2>1. at' = [at EXCEPT ![t] = step] /\ job' = [job EXCEPT ![t] = locals]
    BY <1>1 DEF Resume, Goto
  <2>2. CloserAt(step, locals) => step = "join"
    BY DEF CloserAt, AfterCancel
  <2> QED
    BY <2>1, <2>2, ThreadKeepsClosing
<1>2. CASE token # NoRetry
  <2> DEFINE cancelling == [locals EXCEPT !.token = token, !.then = step]
  <2>1. at' = [at EXCEPT ![t] = "cancel"] /\ job' = [job EXCEPT ![t] = cancelling]
    BY <1>2 DEF Resume, Goto
  <2>2. cancelling.then = step /\ cancelling.workers = locals.workers
    BY DEF Jobs
  <2> HIDE DEF cancelling
  <2>3. CloserAt("cancel", cancelling) => step = "join"
    BY <2>2 DEF CloserAt
  <2> QED
    BY <2>1, <2>2, <2>3, ThreadKeepsClosing
<1> QED
  BY <1>1, <1>2

\* A thread goes on and its locals stay.
LEMMA GotoKeepsClosing ==
  ASSUME TypeOK, ClosingInv, NEW t \in Threads, NEW step, step \notin {"cancel", "unsubscribe", "join"},
         Goto(t, step), job' = job, closed' = closed, closing' = closing, at[t] # "idle"
  PROVE  ClosingInv'
<1> DEFINE locals == job[t]
<1>1. at' = [at EXCEPT ![t] = step] /\ job' = [job EXCEPT ![t] = locals]
  BY DEF Goto, TypeOK
<1> HIDE DEF locals
<1>2. ~CloserAt(step, locals)
  BY DEF CloserAt
<1> QED
  BY <1>1, <1>2, ThreadKeepsClosing

LEMMA OperationKeepsClosing ==
  ASSUME TypeOK, ClosingInv, NEW t \in Callers, Operation(t)
  PROVE  ClosingInv'
<1>t. t \in Threads /\ t \notin Workers /\ ~closed
  BY ThreadsAssumption DEF Threads, Operation, Start, SetRecoveryEnabled, Stop, Reconcile, Close
<1>r. retry_token \in Retries \cup {NoRetry} /\ {"probe", "launch", "done"} \subseteq AfterCancel
  BY DEF TypeOK, AfterCancel
<1>1. CASE Close(t)
  <2>1. /\ closed' /\ closing' = "running" /\ at' = [at EXCEPT ![t] = "unsubscribe"]
        /\ \A u \in Threads \ {t} : job'[u] = job[u]
        /\ job'[t].workers = {w \in Workers : at[w] # "idle"}
    BY <1>1, <1>t DEF Close, Goto, AttemptThreads, TypeOK, NoJob
  <2>2. \A u \in Threads : Closer(u)' => u = t
    BY <1>t, <2>1 DEF Closer, CloserAt, ClosingInv, TypeOK
  <2>3. \A w \in Workers : at'[w] = at[w]
    BY <1>t, <2>1 DEF Threads, TypeOK
  <2> QED
    BY <2>1, <2>2, <2>3 DEF ClosingInv, ClosedIsQuiet
<1>2. CASE ~Close(t)
  <2>1. PICK locals \in Jobs, token \in Retries \cup {NoRetry}, step \in {"probe", "launch", "done"} :
          Resume(t, locals, token, step) /\ closed' = closed /\ closing' = closing
    <3>1. ASSUME NEW enabled \in BOOLEAN, Start(t, enabled) \/ SetRecoveryEnabled(t, enabled) \/ Reconcile(t)
          PROVE  \E locals \in Jobs, token \in Retries \cup {NoRetry}, step \in {"probe", "launch", "done"} :
                   Resume(t, locals, token, step) /\ closed' = closed /\ closing' = closing
      <4>1. /\ [NoJob EXCEPT !.cycle = recovery_epoch + 1] \in Jobs
            /\ [NoJob EXCEPT !.cycle = 0] \in Jobs
        BY <3>1, Numbers, FreshLocals, BoundsAssumption, ZeroIsCycle
           DEF Jobs, NoJob, Start, SetRecoveryEnabled, Reconcile, Cycles
      <4>2. CASE Start(t, enabled)
        BY <1>r, <4>1, <4>2 DEF Start
      <4>3. CASE SetRecoveryEnabled(t, enabled)
        BY <1>r, <4>1, <4>3 DEF SetRecoveryEnabled
      <4>4. CASE Reconcile(t)
        BY <1>r, <4>1, <4>4 DEF Reconcile
      <4> QED
        BY <3>1, <4>2, <4>3, <4>4
    <3>2. ASSUME Stop(t)
          PROVE  \E locals \in Jobs, token \in Retries \cup {NoRetry}, step \in {"probe", "launch", "done"} :
                   Resume(t, locals, token, step) /\ closed' = closed /\ closing' = closing
      <4>1. [NoJob EXCEPT !.want = "down"] \in Jobs
        BY FreshLocals DEF Jobs, NoJob
      <4> QED
        BY <1>r, <3>2, <4>1 DEF Stop
    <3> QED
      BY <1>2, <3>1, <3>2 DEF Operation
  <2> QED
    BY <1>r, <1>t, <2>1, ResumeKeepsClosing
<1> QED
  BY <1>1, <1>2

LEMMA ContinueKeepsClosing ==
  ASSUME TypeOK, EpisodeInv, ClosingInv, NEW t \in Threads, Continue(t)
  PROVE  ClosingInv'
<1> USE DEF intent
<1>j. /\ job[t] \in Jobs /\ job[t].token \in Retries \cup {NoRetry}
      /\ retry_token \in Retries \cup {NoRetry} /\ NoRetry \in Retries \cup {NoRetry}
      /\ {"join", "done", "publish"} \subseteq AfterCancel
      /\ job = [job EXCEPT ![t] = job[t]]
  BY Locals DEF TypeOK, AfterCancel
<1>1. ASSUME Cancel(t) PROVE ClosingInv'
  <2> DEFINE locals == [job[t] EXCEPT !.token = NoRetry, !.then = "done"]
             step == job[t].then
  <2>1. /\ at' = [at EXCEPT ![t] = step] /\ job' = [job EXCEPT ![t] = locals]
        /\ closed' = closed /\ closing' = closing /\ at[t] = "cancel"
    BY <1>1, <1>j DEF Cancel, Goto
  <2>2. locals.workers = job[t].workers /\ step \in AfterCancel /\ step = job[t].then
    BY <1>j, Locals DEF Jobs
  <2> HIDE DEF locals, step
  <2>3. CloserAt(step, locals) => Closer(t)
    BY <2>1, <2>2 DEF CloserAt, Closer, AfterCancel
  <2> QED
    BY <2>1, <2>2, <2>3, ThreadKeepsClosing
<1>2. ASSUME Return(t) PROVE ClosingInv'
  <2>1. /\ at' = [at EXCEPT ![t] = "idle"] /\ job' = [job EXCEPT ![t] = NoJob]
        /\ closed' = closed /\ closing' = closing /\ at[t] # "idle"
    BY <1>2 DEF Return, Goto
  <2>2. ~CloserAt("idle", NoJob)
    BY DEF CloserAt
  <2> QED
    BY <2>1, <2>2, ThreadKeepsClosing
<1>3. ASSUME Unsubscribe(t) PROVE ClosingInv'
  <2> DEFINE locals == [job[t] EXCEPT !.token = NoRetry]
  <2>1. locals \in Jobs /\ locals.workers = job[t].workers
    BY <1>j DEF Jobs
  <2>2. /\ Resume(t, locals, job[t].token, "join") /\ closed' = closed /\ closing' = closing
        /\ at[t] = "unsubscribe"
    BY <1>3 DEF Unsubscribe
  <2>3. Closer(t)
    BY <2>2 DEF Closer, CloserAt
  <2> HIDE DEF locals
  <2> QED
    BY <1>j, <2>1, <2>2, <2>3, ResumeKeepsClosing
<1>4. ASSUME Join(t) PROVE ClosingInv'
  <2>1. at[t] = "join" /\ Closer(t) /\ closed' = closed
    BY <1>4 DEF Join, Closer, CloserAt
  <2>2. ASSUME NEW w \in job[t].workers, at[w] = "idle", job' = [job EXCEPT ![t].workers = @ \ {w}],
               at' = at, closing' = closing
        PROVE  ClosingInv'
    <3>1. /\ job'[t].workers = job[t].workers \ {w} /\ job'[t].then = job[t].then
          /\ \A u \in Threads \ {t} : job'[u] = job[u]
      BY <1>j, <2>2 DEF TypeOK, Jobs
    <3>2. \A u \in Threads : Closer(u)' =>
            Closer(u) /\ \A v \in job[u].workers : v \in job'[u].workers \/ at[v] = "idle"
      BY <2>2, <3>1 DEF Closer, CloserAt
    <3> QED
      BY <2>1, <2>2, <3>2, ClosingStands
  <2>3. ASSUME Goto(t, "done"), job' = job,
               closing' = "raised" \/ job[t].workers = {}
        PROVE  ClosingInv'
    <3>1. /\ at'[t] = "done" /\ \A u \in Threads \ {t} : at'[u] = at[u]
      BY <2>3 DEF Goto, TypeOK
    <3>2. \A u \in Threads : Closer(u)' =>
            Closer(u) /\ \A v \in job[u].workers : v \in job'[u].workers \/ at[v] = "idle"
      BY <2>3, <3>1 DEF Closer, CloserAt
    <3>3. \A v \in Workers : at[v] = "idle" => at'[v] = "idle"
      BY <2>1, <3>1 DEF Threads
    <3> QED
      BY <2>1, <2>3, <3>2, <3>3, ClosingStands
  <2> QED
    BY <1>4, <2>2, <2>3 DEF Join
<1>5. ASSUME Launch(t) PROVE ClosingInv'
  <2>0. at[t] = "launch" /\ closed' = closed /\ closing' = closing
    BY <1>5 DEF Launch
  <2>1. CASE ~Current(job[t].cycle)
    <3>1. Goto(t, "done") /\ job' = job
      BY <1>5, <2>1 DEF Launch
    <3> QED
      BY <2>0, <3>1, GotoKeepsClosing
  <2>2. CASE Current(job[t].cycle)
    <3>1. PICK w \in Workers :
            /\ at' = [at EXCEPT ![t] = "spawn", ![w] = "registered"]
            /\ \A u \in Threads \ {t, w} : job'[u] = job[u]
      BY <1>5, <2>2 DEF Launch, TypeOK
    <3>2. \A u \in Threads : Closer(u)' => Closer(u) /\ u \notin {t, w}
      BY <3>1 DEF Closer, CloserAt, TypeOK
    <3>3. ~closed
      BY <2>2 DEF Current
    <3> QED
      BY <2>0, <3>2, <3>3 DEF ClosingInv, ClosedIsQuiet
  <2> QED
    BY <2>1, <2>2
<1>6. ASSUME Spawn(t) PROVE ClosingInv'
  <2>0. at[t] = "spawn" /\ job' = job /\ closed' = closed /\ closing' = closing
    BY <1>6 DEF Spawn
  <2>w. \A w \in job[t].workers : at[w] = "registered"
    BY <2>0 DEF EpisodeInv, SpawnersOwnWorkers
  <2>1. \A u \in Threads : \/ at'[u] = at[u]
                           \/ at'[u] = "done" /\ at[u] # "idle"
                           \/ at'[u] = "acquire" /\ at[u] = "registered"
    <3> SUFFICES ASSUME NEW u \in Threads
                 PROVE  \/ at'[u] = at[u]
                        \/ at'[u] = "done" /\ at[u] # "idle"
                        \/ at'[u] = "acquire" /\ at[u] = "registered"
      OBVIOUS
    <3>1. at'[u] = IF u = t THEN "done" ELSE IF u \in job[t].workers THEN "acquire" ELSE at[u]
      BY <1>6 DEF Spawn
    <3> QED
      BY <2>0, <2>w, <3>1
  <2>2. \A u \in Threads : Closer(u)' =>
          Closer(u) /\ \A v \in job[u].workers : v \in job'[u].workers \/ at[v] = "idle"
    BY <2>0, <2>1 DEF Closer, CloserAt
  <2>3. \A v \in Workers : at[v] = "idle" => at'[v] = "idle"
    BY <2>0, <2>1 DEF Threads
  <2> QED
    BY <2>0, <2>2, <2>3, ClosingStands
<1>7. ASSUME NEW step \in {"satisfied", "unsatisfied", "done"}, EndEpisode(t, step), at[t] # "idle",
             job' = job, closed' = closed, closing' = closing
      PROVE  ClosingInv'
  <2>1. PICK next \in {"satisfied", "unsatisfied", "done"} : Goto(t, next)
    BY <1>7 DEF EndEpisode
  <2> QED
    BY <1>7, <2>1, GotoKeepsClosing
<1>8. ASSUME NEW step \in {"done", "publish"}, EndCycle(t, step), at[t] # "idle",
             closed' = closed, closing' = closing
      PROVE  ClosingInv'
  <2>1. PICK token \in Retries \cup {NoRetry} : Resume(t, job[t], token, step)
    BY <1>8, <1>j DEF EndCycle
  <2> DEFINE locals == job[t]
  <2>2. Resume(t, locals, token, step) /\ locals \in Jobs /\ step \in AfterCancel /\ step # "join"
    BY <1>j, <2>1
  <2> HIDE DEF locals
  <2> QED
    BY <1>8, <2>2, ResumeKeepsClosing
<1>9. ASSUME BeginAttempt(t) PROVE ClosingInv'
  <2>1. PICK step \in {"probe", "done"} : Goto(t, step)
    BY <1>9 DEF BeginAttempt
  <2> QED
    BY <1>9, <2>1, GotoKeepsClosing DEF BeginAttempt
<1>10. ASSUME Probe(t) PROVE ClosingInv'
  BY <1>7, <1>10, GotoKeepsClosing DEF Probe
<1>11. ASSUME Command(t) PROVE ClosingInv'
  BY <1>11, GotoKeepsClosing DEF Command
<1>12. ASSUME Verify(t) PROVE ClosingInv'
  BY <1>7, <1>12 DEF Verify
<1>13. ASSUME EpisodeRaises(t) PROVE ClosingInv'
  BY <1>7, <1>13 DEF EpisodeRaises
<1>14. ASSUME HandleSatisfied(t) PROVE ClosingInv'
  BY <1>8, <1>14 DEF HandleSatisfied
<1>15. ASSUME HandleUnsatisfied(t) PROVE ClosingInv'
  BY <1>15, GotoKeepsClosing DEF HandleUnsatisfied
<1>16. ASSUME Exhaust(t) PROVE ClosingInv'
  BY <1>8, <1>16 DEF Exhaust
<1>17. ASSUME Publish(t) PROVE ClosingInv'
  BY <1>17, GotoKeepsClosing DEF Publish
<1>18. ASSUME Schedule(t) PROVE ClosingInv'
  BY <1>18, GotoKeepsClosing DEF Schedule
<1>19. ASSUME StoreToken(t) PROVE ClosingInv'
  <2>0. at[t] = "store" /\ closed' = closed /\ closing' = closing
    BY <1>19 DEF StoreToken
  <2>1. CASE Current(job[t].cycle)
    <3> DEFINE locals == job[t]
    <3>1. Resume(t, locals, retry_token, "done") /\ locals \in Jobs
      BY <1>j, <1>19, <2>1 DEF StoreToken
    <3> HIDE DEF locals
    <3> QED
      BY <1>j, <2>0, <3>1, ResumeKeepsClosing
  <2>2. CASE ~Current(job[t].cycle)
    <3>1. Goto(t, "done") /\ job' = job
      BY <1>19, <2>2 DEF StoreToken
    <3> QED
      BY <2>0, <3>1, GotoKeepsClosing
  <2> QED
    BY <2>1, <2>2
<1> QED
  BY <1>1, <1>2, <1>3, <1>4, <1>5, <1>6, <1>9, <1>10, <1>11, <1>12, <1>13, <1>14, <1>15,
     <1>16, <1>17, <1>18, <1>19 DEF Continue

LEMMA EnvironmentKeepsClosing ==
  ASSUME TypeOK, ClosingInv,
         \/ \E r \in Retries : RetryFires(r)
         \/ \E b \in BusThreads, r \in Retries : OnRetryDue(b, r)
         \/ ServerCrashes
         \/ UNCHANGED vars
  PROVE  ClosingInv'
<1> USE DEF intent
<1>0. ASSUME UNCHANGED <<closed, closing, at, job>> PROVE ClosingInv'
  BY <1>0 DEF ClosingInv, ClosedIsQuiet, Closer
<1>1. ASSUME NEW b \in BusThreads, NEW r \in Retries, OnRetryDue(b, r) PROVE ClosingInv'
  <2>1. b \in Threads /\ b \notin Workers /\ closed' = closed /\ closing' = closing
    BY <1>1, ThreadsAssumption DEF OnRetryDue, Threads
  <2>2. CASE UNCHANGED <<at, job>>
    BY <1>0, <2>1, <2>2
  <2>3. CASE Resume(b, [NoJob EXCEPT !.cycle = r.cycle, !.attempt = r.attempt], NoRetry, "launch")
    <3> DEFINE locals == [NoJob EXCEPT !.cycle = r.cycle, !.attempt = r.attempt]
    <3>1. /\ locals \in Jobs /\ "launch" \in AfterCancel /\ NoRetry \in Retries \cup {NoRetry}
          /\ Resume(b, locals, NoRetry, "launch")
      BY <2>3, FreshLocals DEF Jobs, NoJob, Retries, AfterCancel
    <3> HIDE DEF locals
    <3> QED
      BY <2>1, <3>1, ResumeKeepsClosing
  <2> QED
    BY <1>1, <2>2, <2>3 DEF OnRetryDue
<1>2. ASSUME NEW r \in Retries, RetryFires(r) PROVE ClosingInv'
  BY <1>0, <1>2 DEF RetryFires
<1>3. ASSUME ServerCrashes PROVE ClosingInv'
  BY <1>0, <1>3 DEF ServerCrashes
<1>4. ASSUME UNCHANGED vars PROVE ClosingInv'
  BY <1>0, <1>4 DEF vars
<1> QED
  BY <1>1, <1>2, <1>3, <1>4

LEMMA InitClosing == Init => ClosingInv
BY DEF Init, ClosingInv, ClosedIsQuiet, Closer, CloserAt

LEMMA NextClosing == TypeOK /\ EpisodeInv /\ ClosingInv /\ [Next]_vars => ClosingInv'
<1> SUFFICES ASSUME TypeOK, EpisodeInv, ClosingInv, [Next]_vars PROVE ClosingInv'
  OBVIOUS
<1>1. ASSUME NEW t \in Callers, Operation(t) PROVE ClosingInv'
  BY <1>1, OperationKeepsClosing
<1>2. ASSUME NEW t \in Threads, Continue(t) PROVE ClosingInv'
  BY <1>2, ContinueKeepsClosing
<1>3. CASE \/ \E r \in Retries : RetryFires(r)
           \/ \E b \in BusThreads, r \in Retries : OnRetryDue(b, r)
           \/ ServerCrashes
           \/ UNCHANGED vars
  BY <1>3, EnvironmentKeepsClosing
<1>4. QED
  BY <1>1, <1>2, <1>3 DEF Next, Rest

LEMMA ClosingInvariant == Spec => []ClosingInv
BY InitClosing, NextClosing, TypeCorrect, EpisodeInvariant, PTL DEF Spec

\* When close() has returned, no attempt is left and none begins any more.
THEOREM ClosedStaysQuiet == Spec => []ClosedIsQuiet
<1>1. ClosingInv => ClosedIsQuiet
  BY DEF ClosingInv
<1>2. QED
  BY <1>1, ClosingInvariant, PTL
-------------------------------------------------------------------------------
(***************************************************************************)
(* Nobody waits in a circle.                                               *)
(***************************************************************************)

\* Thread t cannot go on before u has: it wants the _mutation_lock u holds, or it
\* is close() joining the attempt thread u.
WaitsFor(t, u) ==
  \/ at[t] = "acquire" /\ mutation = u
  \/ at[t] = "join" /\ u \in job[t].workers /\ at[u] # "idle"

\* A thread in a call that waits for nobody.
Moving(t) == at[t] # "idle" /\ \A u \in Threads : ~WaitsFor(t, u)

\* Whoever is waited for is moving, or is an attempt that close() joins and that
\* waits in turn for a moving thread to release _mutation_lock.
WaitsEnd ==
  \A t, u \in Threads : WaitsFor(t, u) =>
    Moving(u) \/ \E v \in Threads : WaitsFor(u, v) /\ Moving(v)

\* The holder of _mutation_lock waits for nobody.
LEMMA HolderMoves ==
  ASSUME EpisodeInv, NEW u \in Threads, mutation = u
  PROVE  Moving(u)
<1>1. at[u] \in {"probe", "command", "verify", "cancel"}
  BY DEF EpisodeInv, LockIsHeld, InMutation, InEpisode
<1> QED
  BY <1>1 DEF Moving, WaitsFor

\* No circular waiting among close(), which joins the attempts, the attempts, which
\* take _mutation_lock, and its holder, which runs a whole ensure episode under it:
\* every wait ends, after one more at most, at a thread that waits for nobody.
THEOREM NobodyWaitsInACircle == Spec => []WaitsEnd
<1>1. TypeOK /\ EpisodeInv /\ ClosingInv => WaitsEnd
  <2> SUFFICES ASSUME TypeOK, EpisodeInv, ClosingInv, NEW t \in Threads, NEW u \in Threads, WaitsFor(t, u)
               PROVE  Moving(u) \/ \E v \in Threads : WaitsFor(u, v) /\ Moving(v)
    BY DEF WaitsEnd
  <2>1. CASE mutation = u
    BY <2>1, HolderMoves
  <2>2. CASE mutation # u
    <3>1. at[u] # "idle" /\ u \in Workers
      BY <2>2, Locals DEF WaitsFor, Jobs
    <3>2. at[u] # "join"
      BY <3>1, ThreadsAssumption DEF ClosingInv, Closer, CloserAt
    <3>3. ASSUME NEW v \in Threads, WaitsFor(u, v) PROVE WaitsFor(u, v) /\ Moving(v)
      BY <3>2, <3>3, HolderMoves DEF WaitsFor
    <3> QED
      BY <3>1, <3>3 DEF Moving
  <2> QED
    BY <2>1, <2>2
<1>2. QED
  BY <1>1, TypeCorrect, EpisodeInvariant, ClosingInvariant, PTL
===============================================================================
