-------------------------- MODULE ServerRetriesProofs --------------------------
(***************************************************************************)
(* Where the retries of ServerSupervisor are, when a retry delay outlasts  *)
(* the statements that schedule the retry: the stored token names a        *)
(* pending retry, and if publications do not raise, no live cycle is left  *)
(* without somebody to take it further.                                    *)
(***************************************************************************)
EXTENDS ServerCyclesProofs

(***************************************************************************)
(* The invariant.                                                          *)
(***************************************************************************)
\* A cycle that is over: nobody has it, and nobody is about to store a token for it.
Has(t, c) == Holds(t, c) \/ (at[t] = "store" /\ job[t].cycle = c)
Left(c) == \A t \in Threads : ~Has(t, c)
Over(c) == c # cycle_id /\ Left(c)

\* When retries outlast the statements that schedule them: a thread that has scheduled
\* one and not stored its token finds it pending, and only tokens of cycles that are
\* over get cancelled.
RetriesInv ==
  /\ \A t \in Threads : at[t] = "store" =>
       NextRetry(t) \in scheduled /\ retry_token.cycle # job[t].cycle
  /\ \A t, u \in Threads :
       at[t] = "store" /\ at[u] = "store" /\ job[t].cycle = job[u].cycle => t = u
  /\ \A t \in Threads : job[t].token # NoRetry =>
       job[t].token.cycle # 0 /\ Over(job[t].token.cycle)
  /\ StoredTokenIsPending
-------------------------------------------------------------------------------
(***************************************************************************)
(* Cycles that are over stay over: RetriesInv.                             *)
(***************************************************************************)

\* A pending retry or a stored token has a cycle, and no thread has it.
LEMMA TokenIsAlone ==
  ASSUME TypeOK, CyclesInv, RetriesInv, retry_token # NoRetry
  PROVE  /\ retry_token.cycle = cycle_id /\ retry_token \in Pending
         /\ cycle_id \in 1 .. recovery_epoch
         /\ Left(cycle_id)
<1>1. retry_token.cycle = cycle_id /\ retry_token \in Pending
  BY DEF RetriesInv, StoredTokenIsPending, Pending
<1>2. cycle_id \in 1 .. recovery_epoch
  BY <1>1 DEF CyclesInv, KnownCycles
<1>3. \A t \in Threads : ~Holds(t, cycle_id)
  BY <1>1 DEF CyclesInv, OneBaton
<1>4. \A t \in Threads : ~(at[t] = "store" /\ job[t].cycle = cycle_id)
  BY <1>1 DEF RetriesInv
<1> QED
  BY <1>1, <1>2, <1>3, <1>4 DEF Left, Has

\* Steps on which nobody gets a cycle that was left, but the live one; only the token of
\* an ended cycle is taken to be cancelled; no thread comes to store a token; only retries
\* that no store or stored token speaks of are lost.
LeftBehind == \A c \in Nat : Left(c) => c = cycle_id' \/ Left(c)'
TokensTaken ==
  \A u \in Threads : \/ job'[u].token \in {NoRetry, job[u].token}
                     \/ job'[u].token = retry_token /\ cycle_id' # cycle_id
StoresStand == \A u \in Threads : at'[u] = "store" => at[u] = "store" /\ job'[u] = job[u]
RetriesKept ==
  /\ \A r \in scheduled : r \in scheduled' \/ Over(r.cycle)
  /\ retry_token' # NoRetry => \A r \in due : r \in due' \/ r.cycle # cycle_id

LEMMA RetriesStand ==
  ASSUME TypeOK, CyclesInv, RetriesInv,
         cycle_id' \in {0, cycle_id, recovery_epoch + 1},
         retry_token' = NoRetry \/ (retry_token' = retry_token /\ cycle_id \in {0, cycle_id'}),
         LeftBehind, TokensTaken, StoresStand, RetriesKept
  PROVE  RetriesInv'
<1>n. /\ cycle_id \in Nat /\ recovery_epoch \in Nat
      /\ \A u \in Threads : job[u].token.cycle \in Nat /\ job[u].token.cycle <= recovery_epoch
      /\ NoRetry.cycle = 0
  BY Numbers, Locals, FreshLocals DEF CyclesInv, KnownCycles
<1>1. ASSUME NEW c \in Nat, c # 0, c <= recovery_epoch, Over(c)
      PROVE  Over(c)'
  <2>1. c # cycle_id'
    BY <1>n, <1>1 DEF Over
  <2> QED
    BY <1>1, <2>1 DEF Over, LeftBehind
<1>2. ASSUME NEW u \in Threads, at'[u] = "store"
      PROVE  NextRetry(u)' \in scheduled' /\ retry_token'.cycle # job'[u].cycle
  <2>1. at[u] = "store" /\ job'[u] = job[u] /\ NextRetry(u)' = NextRetry(u)
    BY <1>2 DEF NextRetry, StoresStand
  <2>2. NextRetry(u) \in scheduled /\ retry_token.cycle # job[u].cycle
    BY <2>1 DEF RetriesInv
  <2>3. NextRetry(u).cycle = job[u].cycle /\ ~Over(job[u].cycle)
    BY <2>1, NextRetryKept DEF Over, Left, Has
  <2>4. job[u].cycle # 0
    BY <2>1 DEF CyclesInv, KnownCycles, NeedsCycle
  <2> QED
    BY <1>n, <2>1, <2>2, <2>3, <2>4 DEF RetriesKept
<1>3. \A t, u \in Threads :
        at'[t] = "store" /\ at'[u] = "store" /\ job'[t].cycle = job'[u].cycle => t = u
  BY DEF RetriesInv, StoresStand
<1>4. ASSUME NEW u \in Threads, job'[u].token # NoRetry
      PROVE  job'[u].token.cycle # 0 /\ Over(job[u].token.cycle)'
  <2>1. PICK c \in Nat : c = job'[u].token.cycle /\ c # 0 /\ Over(c)'
    <3>1. CASE job'[u].token = job[u].token
      <4>1. PICK c \in Nat : c = job[u].token.cycle
        BY <1>n
      <4>2. c # 0 /\ c <= recovery_epoch /\ Over(c)
        BY <1>4, <1>n, <3>1, <4>1 DEF RetriesInv
      <4>3. Over(c)'
        BY <1>1, <4>2
      <4> QED
        BY <3>1, <4>1, <4>2, <4>3
    <3>2. CASE job'[u].token = retry_token /\ cycle_id' # cycle_id
      <4>1. PICK c \in Nat : c = cycle_id
        BY <1>n
      <4>2. retry_token.cycle = c /\ c # 0 /\ Left(c)
        BY <1>4, <1>n, <3>2, <4>1, TokenIsAlone
      <4>3. Over(c)'
        BY <3>2, <4>1, <4>2 DEF Over, LeftBehind
      <4> QED
        BY <3>2, <4>2, <4>3
    <3> QED
      BY <1>4, <3>1, <3>2 DEF TokensTaken
  <2> QED
    BY <2>1
<1>5. StoredTokenIsPending'
  <2> SUFFICES ASSUME retry_token' # NoRetry
               PROVE  retry_token'.cycle = cycle_id' /\ retry_token' \in scheduled' \cup due'
    BY DEF StoredTokenIsPending
  <2>1. /\ retry_token' = retry_token /\ retry_token.cycle = cycle_id
        /\ retry_token \in Pending /\ cycle_id' = cycle_id
    BY TokenIsAlone
  <2>2. ~Over(retry_token.cycle)
    BY <2>1 DEF Over
  <2> QED
    BY <2>1, <2>2 DEF Pending, RetriesKept
<1>6. \A u \in Threads : (job[u].token # NoRetry)' => (job[u].token.cycle # 0 /\ Over(job[u].token.cycle))'
  BY <1>4
<1> QED
  BY <1>2, <1>3, <1>5, <1>6 DEF RetriesInv

\* One thread goes on, with its cycle or with the live one.
LEMMA RetriesMove ==
  ASSUME TypeOK, CyclesInv, RetriesInv, NEW t \in Threads, NEW step, step # "store", NEW locals \in Jobs,
         at' = [at EXCEPT ![t] = step], job' = [job EXCEPT ![t] = locals],
         cycle_id' \in {0, cycle_id, recovery_epoch + 1},
         HoldingAt(step, locals) => \/ locals.cycle \in {0, cycle_id'}
                                    \/ locals.cycle = job[t].cycle /\ HoldingAt(at[t], job[t]),
         \/ locals.token \in {NoRetry, job[t].token}
         \/ locals.token = retry_token /\ cycle_id' # cycle_id,
         retry_token' = NoRetry \/ (retry_token' = retry_token /\ cycle_id \in {0, cycle_id'}),
         RetriesKept
  PROVE  RetriesInv'
<1>1. /\ at'[t] = step /\ job'[t] = locals
      /\ \A u \in Threads \ {t} : at'[u] = at[u] /\ job'[u] = job[u]
  BY DEF TypeOK
<1>2. ASSUME NEW u \in Threads, NEW c \in Nat, Has(u, c)'
      PROVE  c = cycle_id' \/ Has(u, c)
  <2>1. CASE u = t
    BY <1>1, <1>2, <2>1 DEF Has, Holds
  <2>2. CASE u # t
    BY <1>1, <1>2, <2>2 DEF Has, Holds
  <2> QED
    BY <2>1, <2>2
<1>3. TokensTaken
  <2>1. ASSUME NEW u \in Threads
        PROVE  \/ job'[u].token \in {NoRetry, job[u].token}
               \/ job'[u].token = retry_token /\ cycle_id' # cycle_id
    <3>1. CASE u = t
      BY <1>1, <3>1
    <3>2. CASE u # t
      BY <1>1, <3>2
    <3> QED
      BY <3>1, <3>2
  <2> QED
    BY <2>1 DEF TokensTaken
<1>4. StoresStand
  BY <1>1 DEF StoresStand
<1>5. LeftBehind
  BY <1>2 DEF Left, LeftBehind
<1> QED
  BY <1>3, <1>4, <1>5, RetriesStand

LEMMA RetriesResume ==
  ASSUME TypeOK, CyclesInv, RetriesInv, NEW t \in Threads, NEW step \in AfterCancel, NEW locals \in Jobs,
         NEW token \in Retries \cup {NoRetry}, Resume(t, locals, token, step),
         cycle_id' \in {0, cycle_id, recovery_epoch + 1},
         step \in {"probe", "launch", "publish"} =>
           \/ locals.cycle \in {0, cycle_id'}
           \/ locals.cycle = job[t].cycle /\ HoldingAt(at[t], job[t]),
         token \in {NoRetry, job[t].token} \/ (token = retry_token /\ cycle_id' # cycle_id),
         locals.token \in {NoRetry, job[t].token},
         retry_token' = NoRetry \/ (retry_token' = retry_token /\ cycle_id \in {0, cycle_id'}),
         RetriesKept
  PROVE  RetriesInv'
<1>1. CASE token = NoRetry
  <2>1. at' = [at EXCEPT ![t] = step] /\ job' = [job EXCEPT ![t] = locals]
    BY <1>1 DEF Resume, Goto
  <2>2. HoldingAt(step, locals) => step \in {"probe", "launch", "publish"}
    BY DEF HoldingAt, AfterCancel
  <2>3. step # "store"
    BY DEF AfterCancel
  <2> QED
    BY <2>1, <2>2, <2>3, RetriesMove
<1>2. CASE token # NoRetry
  <2> DEFINE cancelling == [locals EXCEPT !.token = token, !.then = step]
  <2>1. at' = [at EXCEPT ![t] = "cancel"] /\ job' = [job EXCEPT ![t] = cancelling]
    BY <1>2 DEF Resume, Goto
  <2>2. /\ cancelling \in Jobs /\ cancelling.then = step /\ cancelling.token = token
        /\ cancelling.cycle = locals.cycle
    BY DEF Jobs
  <2> HIDE DEF cancelling
  <2>3. HoldingAt("cancel", cancelling) => step \in {"probe", "launch", "publish"}
    BY <2>2 DEF HoldingAt
  <2> QED
    BY <2>1, <2>2, <2>3, RetriesMove
<1> QED
  BY <1>1, <1>2

\* A thread goes on; only retries of cycles that are over are cancelled.
LEMMA RetriesGoto ==
  ASSUME TypeOK, CyclesInv, RetriesInv, NEW t \in Threads, NEW step, step \notin {"store", "cancel"},
         Goto(t, step), job' = job, UNCHANGED <<recovery, due>>,
         HoldingAt(step, job[t]) => job[t].cycle = 0 \/ HoldingAt(at[t], job[t]),
         \A r \in scheduled : r \in scheduled' \/ Over(r.cycle)
  PROVE  RetriesInv'
<1> DEFINE locals == job[t]
<1>1. /\ at' = [at EXCEPT ![t] = step] /\ job' = [job EXCEPT ![t] = locals]
      /\ locals \in Jobs /\ locals = job[t]
      /\ cycle_id' = cycle_id /\ retry_token' = retry_token
      /\ RetriesKept
  BY DEF Goto, TypeOK, recovery, RetriesKept
<1> HIDE DEF locals
<1> QED
  BY <1>1, RetriesMove

LEMMA OperationKeepsRetries ==
  ASSUME TypeOK, CyclesInv, RetriesInv, NEW t \in Callers, Operation(t)
  PROVE  RetriesInv'
<1> USE DEF external
<1>t. t \in Threads /\ recovery_epoch \in Nat /\ cycle_id \in Nat /\ cycle_id <= recovery_epoch
  BY Numbers DEF Threads, CyclesInv, KnownCycles
<1>r. /\ retry_token \in Retries \cup {NoRetry} /\ NoRetry \in Retries \cup {NoRetry}
      /\ {"probe", "launch", "done"} \subseteq AfterCancel
      /\ retry_token # NoRetry => cycle_id # 0
  BY TokenIsAlone DEF TypeOK, AfterCancel
<1>1. ASSUME NEW locals \in Jobs, NEW step \in {"probe", "launch", "done"},
             NEW c \in {0, recovery_epoch + 1},
             Resume(t, locals, retry_token, step), locals.cycle = c, locals.token = NoRetry,
             cycle_id' = c, retry_token' = NoRetry, UNCHANGED <<scheduled, due>>
      PROVE  RetriesInv'
  <2>1. retry_token = NoRetry \/ cycle_id' # cycle_id
    BY <1>t, <1>r, <1>1
  <2>2. RetriesKept
    BY <1>1 DEF RetriesKept
  <2> QED
    BY <1>t, <1>r, <1>1, <2>1, <2>2, RetriesResume
<1>2. ASSUME NEW enabled \in BOOLEAN, Start(t, enabled) \/ SetRecoveryEnabled(t, enabled)
      PROVE  RetriesInv'
  <2> DEFINE cycle == IF enabled THEN recovery_epoch + 1 ELSE 0
             locals == [NoJob EXCEPT !.cycle = cycle]
  <2>1. recovery_epoch < MaxEpoch /\ cycle \in {0, recovery_epoch + 1}
    BY <1>2 DEF Start, SetRecoveryEnabled
  <2>2. locals \in Jobs /\ locals.cycle = cycle /\ locals.token = NoRetry
    BY <2>1, FreshCycle, FreshLocals DEF Jobs, NoJob
  <2>3. /\ cycle_id' = cycle /\ retry_token' = NoRetry /\ UNCHANGED <<scheduled, due>>
        /\ \E step \in {"probe", "launch", "done"} : Resume(t, locals, retry_token, step)
    BY <1>2 DEF Start, SetRecoveryEnabled, ReplaceCycle
  <2> HIDE DEF cycle, locals
  <2> QED
    BY <1>1, <2>1, <2>2, <2>3
<1>3. ASSUME Stop(t) PROVE RetriesInv'
  <2> DEFINE locals == [NoJob EXCEPT !.want = "down"]
  <2>1. locals \in Jobs /\ locals.cycle = 0 /\ locals.token = NoRetry
    BY FreshLocals DEF Jobs, NoJob
  <2>2. /\ Resume(t, locals, retry_token, "probe")
        /\ cycle_id' = 0 /\ retry_token' = NoRetry /\ UNCHANGED <<scheduled, due>>
    BY <1>3 DEF Stop, ReplaceCycle
  <2> HIDE DEF locals
  <2> QED
    BY <1>1, <2>1, <2>2
<1>4. ASSUME Reconcile(t) PROVE RetriesInv'
  <2> DEFINE cycle == recovery_epoch + 1
             locals == [NoJob EXCEPT !.cycle = cycle]
  <2>1. recovery_epoch < MaxEpoch /\ cycle \in {0, recovery_epoch + 1} /\ cycle_id = 0
    BY <1>4 DEF Reconcile
  <2>2. locals \in Jobs /\ locals.cycle = cycle /\ locals.token = NoRetry
    BY <2>1, FreshCycle, FreshLocals DEF Jobs, NoJob
  <2>3. /\ Resume(t, locals, NoRetry, "launch")
        /\ cycle_id' = cycle /\ retry_token' = retry_token /\ UNCHANGED <<scheduled, due>>
    BY <1>4 DEF Reconcile
  <2>4. retry_token' = NoRetry
    BY <1>r, <2>1, <2>3
  <2>5. cycle_id' \in {0, cycle_id, recovery_epoch + 1} /\ cycle_id' = cycle /\ RetriesKept
    BY <2>3 DEF RetriesKept
  <2> HIDE DEF cycle, locals
  <2> QED
    BY <1>t, <1>r, <2>1, <2>2, <2>3, <2>4, <2>5, RetriesResume
<1>5. ASSUME Close(t) PROVE RetriesInv'
  <2> DEFINE locals == [NoJob EXCEPT !.workers = AttemptThreads, !.token = retry_token]
  <2>1. locals \in Jobs /\ locals.cycle = 0 /\ locals.token = retry_token
    BY FreshLocals DEF Jobs, NoJob, AttemptThreads, TypeOK
  <2>2. /\ at' = [at EXCEPT ![t] = "unsubscribe"] /\ job' = [job EXCEPT ![t] = locals]
        /\ cycle_id' = 0 /\ retry_token' = NoRetry /\ scheduled' = scheduled
    BY <1>5 DEF Close, ReplaceCycle, Goto
  <2>3. (retry_token = NoRetry \/ cycle_id' # cycle_id) /\ RetriesKept
    BY <1>r, <2>2 DEF RetriesKept
  <2> HIDE DEF locals
  <2> QED
    BY <1>t, <2>1, <2>2, <2>3, RetriesMove
<1> QED
  BY <1>2, <1>3, <1>4, <1>5 DEF Operation

\* Tokens about to be cancelled stay those of cycles that are over.
TokensOver == \A t \in Threads : job[t].token # NoRetry =>
                job[t].token.cycle # 0 /\ Over(job[t].token.cycle)

LEMMA TokensStayOver ==
  ASSUME RetriesInv, job' = job, cycle_id' = cycle_id,
         \A u \in Threads : \A c : Has(u, c)' => Has(u, c)
  PROVE  TokensOver'
<1>1. \A c : Over(c) => Over(c)'
  BY DEF Over, Left
<1>2. \A u \in Threads : job[u].token # NoRetry =>
        job[u].token.cycle # 0 /\ Over(job[u].token.cycle)
  BY DEF RetriesInv
<1>3. \A u \in Threads : (job[u].token # NoRetry)' =>
        (job[u].token.cycle # 0)' /\ Over(job[u].token.cycle)'
  BY <1>1, <1>2 DEF Over, Left
<1> QED
  BY <1>3 DEF TokensOver

\* A thread that schedules a retry finds no token stored, and no other thread storing one.
LEMMA ScheduleKeepsRetries ==
  ASSUME TypeOK, CyclesInv, RetriesInv, NEW t \in Threads, Schedule(t)
  PROVE  RetriesInv'
<1>1. /\ at[t] = "retry" /\ job' = job /\ cycle_id' = cycle_id /\ retry_token' = retry_token
      /\ scheduled' = scheduled \cup {NextRetry(t)} /\ due' = due
      /\ at'[t] = "store" /\ \A u \in Threads \ {t} : at'[u] = at[u]
  BY DEF Schedule, Goto, recovery, TypeOK
<1>2. job[t].cycle # 0 /\ Holds(t, job[t].cycle) /\ job[t].cycle \in Cycles
  BY <1>1, Locals DEF CyclesInv, KnownCycles, NeedsCycle, Holds, HoldingAt
<1>3. retry_token.cycle # job[t].cycle
  BY <1>2, TokenIsAlone, FreshLocals DEF Left, Has
<1>4. ASSUME NEW u \in Threads, at[u] = "store" PROVE job[u].cycle # job[t].cycle
  <2>1. NextRetry(u) \in Pending /\ NextRetry(u).cycle = job[u].cycle
    BY <1>4, NextRetryKept DEF RetriesInv, Pending
  <2> QED
    BY <1>2, <2>1 DEF CyclesInv, OneBaton
<1>5. \A u \in Threads : NextRetry(u)' = NextRetry(u)
  BY <1>1 DEF NextRetry
<1>6. \A u \in Threads : at'[u] = "store" => NextRetry(u)' \in scheduled' /\ retry_token'.cycle # job'[u].cycle
  BY <1>1, <1>3, <1>5 DEF RetriesInv
<1>7. \A u, v \in Threads : at'[u] = "store" /\ at'[v] = "store" /\ job'[u].cycle = job'[v].cycle => u = v
  BY <1>1, <1>4 DEF RetriesInv
<1>8. \A u \in Threads : \A c : Has(u, c)' => Has(u, c)
  BY <1>1, <1>2 DEF Has, Holds, HoldingAt
<1>9. TokensOver'
  BY <1>1, <1>8, TokensStayOver
<1>10. StoredTokenIsPending'
  BY <1>1 DEF RetriesInv, StoredTokenIsPending
<1> QED
  BY <1>6, <1>7, <1>9, <1>10 DEF RetriesInv, TokensOver

\* The token is stored for the live cycle, or its retry cancelled.
LEMMA StoreKeepsRetries ==
  ASSUME TypeOK, CyclesInv, RetriesInv, NEW t \in Threads, StoreToken(t)
  PROVE  RetriesInv'
<1>1. /\ at[t] = "store" /\ cycle_id' = cycle_id /\ due' = due
      /\ NextRetry(t) \in scheduled /\ NextRetry(t).cycle = job[t].cycle
      /\ retry_token.cycle # job[t].cycle /\ job[t].cycle # 0
  BY NextRetryKept DEF StoreToken, RetriesInv, CyclesInv, KnownCycles, NeedsCycle
<1>2. /\ Goto(t, "done") /\ job' = job
      /\ \/ /\ retry_token' = NextRetry(t) /\ scheduled' = scheduled /\ cycle_id = job[t].cycle
         \/ /\ retry_token' = retry_token /\ scheduled' = scheduled \ {NextRetry(t)}
  <2>1. CASE Current(job[t].cycle)
    <3>1. retry_token = NoRetry
      BY <1>1, <2>1, TokenIsAlone DEF Current
    <3>2. retry_token' = NextRetry(t) /\ Resume(t, job[t], retry_token, "done") /\ scheduled' = scheduled
      BY <2>1 DEF StoreToken
    <3>3. Goto(t, "done") /\ job' = [job EXCEPT ![t] = job[t]]
      BY <3>1, <3>2 DEF Resume
    <3> QED
      BY <2>1, <3>2, <3>3 DEF Current, TypeOK
  <2>2. CASE ~Current(job[t].cycle)
    BY <2>2 DEF StoreToken
  <2> QED
    BY <2>1, <2>2
<1>3. at'[t] = "done" /\ \A u \in Threads \ {t} : at'[u] = at[u]
  BY <1>2 DEF Goto, TypeOK
<1>4. ASSUME NEW u \in Threads, at'[u] = "store"
      PROVE  NextRetry(u)' \in scheduled' /\ retry_token'.cycle # job'[u].cycle
  <2>1. u # t /\ at[u] = "store" /\ job[u].cycle # job[t].cycle
    BY <1>1, <1>3, <1>4 DEF RetriesInv
  <2>2. /\ NextRetry(u)' = NextRetry(u) /\ NextRetry(u) \in scheduled
        /\ NextRetry(u).cycle = job[u].cycle /\ retry_token.cycle # job[u].cycle
    BY <1>2, <2>1, NextRetryKept DEF NextRetry, RetriesInv
  <2>3. NextRetry(u) # NextRetry(t)
    BY <1>1, <2>1, <2>2
  <2> QED
    BY <1>1, <1>2, <2>1, <2>2, <2>3
<1>5. \A u, v \in Threads : at'[u] = "store" /\ at'[v] = "store" /\ job'[u].cycle = job'[v].cycle => u = v
  BY <1>2, <1>3 DEF RetriesInv
<1>6. \A u \in Threads : \A c : Has(u, c)' => Has(u, c)
  BY <1>2, <1>3 DEF Has, Holds, HoldingAt
<1>7. TokensOver'
  BY <1>1, <1>2, <1>6, TokensStayOver
<1>8. StoredTokenIsPending'
  BY <1>1, <1>2 DEF RetriesInv, StoredTokenIsPending
<1> QED
  BY <1>4, <1>5, <1>7, <1>8 DEF RetriesInv, TokensOver

\* A retry that fires is pending still, and its token is stored already.
LEMMA FiringKeepsRetries ==
  ASSUME RetriesOutlastScheduling, TypeOK, CyclesInv, RetriesInv, NEW r \in Retries, RetryFires(r)
  PROVE  RetriesInv'
<1>1. /\ at' = at /\ job' = job /\ cycle_id' = cycle_id /\ retry_token' = retry_token
      /\ scheduled' = scheduled \ {r} /\ due' = due \cup {r}
      /\ \A t \in Threads : at[t] = "store" => r # NextRetry(t)
      /\ \A u \in Threads : NextRetry(u)' = NextRetry(u)
  BY DEF RetryFires, recovery, NextRetry
<1>2. \A u \in Threads : at'[u] = "store" => NextRetry(u)' \in scheduled' /\ retry_token'.cycle # job'[u].cycle
  BY <1>1 DEF RetriesInv
<1>3. \A u, v \in Threads : at'[u] = "store" /\ at'[v] = "store" /\ job'[u].cycle = job'[v].cycle => u = v
  BY <1>1 DEF RetriesInv
<1>4. \A u \in Threads : \A c : Has(u, c)' => Has(u, c)
  BY <1>1 DEF Has, Holds
<1>5. TokensOver'
  BY <1>1, <1>4, TokensStayOver
<1>6. StoredTokenIsPending'
  BY <1>1 DEF RetriesInv, StoredTokenIsPending
<1> QED
  BY <1>2, <1>3, <1>5, <1>6 DEF RetriesInv, TokensOver

LEMMA ContinueKeepsRetries ==
  ASSUME TypeOK, EpisodeInv, CyclesInv, RetriesInv, NEW t \in Threads, Continue(t)
  PROVE  RetriesInv'
<1> USE DEF external
<1>j. /\ job[t] \in Jobs /\ job = [job EXCEPT ![t] = job[t]]
      /\ job[t].token \in Retries \cup {NoRetry} /\ cycle_id \in {0, cycle_id, recovery_epoch + 1}
      /\ retry_token \in Retries \cup {NoRetry} /\ NoRetry \in Retries \cup {NoRetry}
  BY Locals DEF TypeOK
<1>1. ASSUME Cancel(t) PROVE RetriesInv'
  <2> DEFINE locals == [job[t] EXCEPT !.token = NoRetry, !.then = "done"]
             step == job[t].then
  <2>1. locals \in Jobs /\ locals.cycle = job[t].cycle /\ locals.token = NoRetry
    BY <1>j DEF Jobs, AfterCancel
  <2>2. /\ at' = [at EXCEPT ![t] = step] /\ job' = [job EXCEPT ![t] = locals]
        /\ cycle_id' = cycle_id /\ retry_token' = retry_token /\ due' = due
        /\ scheduled' = scheduled \ {job[t].token} /\ at[t] = "cancel"
        /\ step \in AfterCancel /\ step = job[t].then /\ step # "store"
    BY <1>1, <1>j, Locals DEF Cancel, Goto, recovery, AfterCancel
  <2> HIDE DEF locals, step
  <2>3. HoldingAt(step, locals) => HoldingAt(at[t], job[t])
    BY <2>2 DEF HoldingAt, AfterCancel
  <2>4. job[t].token \in Retries => Over(job[t].token.cycle)
    <3>1. \A r \in Retries : r # NoRetry
      BY DEF Retries, NoRetry, Attempts
    <3> QED
      BY <3>1 DEF RetriesInv
  <2>5. RetriesKept
    BY <2>2, <2>4 DEF RetriesKept, TypeOK
  <2> QED
    BY <1>j, <2>1, <2>2, <2>3, <2>5, RetriesMove
<1>2. ASSUME Return(t) PROVE RetriesInv'
  <2>1. /\ at' = [at EXCEPT ![t] = "idle"] /\ job' = [job EXCEPT ![t] = NoJob]
        /\ cycle_id' = cycle_id /\ retry_token' = retry_token /\ RetriesKept
        /\ ~HoldingAt("idle", NoJob)
    BY <1>2 DEF Return, Goto, recovery, RetriesKept, HoldingAt
  <2> QED
    BY <1>j, <2>1, FreshLocals, RetriesMove
<1>3. ASSUME Unsubscribe(t) PROVE RetriesInv'
  <2> DEFINE locals == [job[t] EXCEPT !.token = NoRetry]
  <2>1. locals \in Jobs /\ locals.cycle = job[t].cycle /\ locals.token = NoRetry
    BY <1>j DEF Jobs
  <2>2. /\ Resume(t, locals, job[t].token, "join") /\ "join" \in AfterCancel
        /\ cycle_id' = cycle_id /\ retry_token' = retry_token /\ RetriesKept
    BY <1>3 DEF Unsubscribe, AfterCancel, recovery, RetriesKept
  <2> HIDE DEF locals
  <2> QED
    BY <1>j, <2>1, <2>2, RetriesResume
<1>4. ASSUME Join(t) PROVE RetriesInv'
  <2>0. UNCHANGED <<recovery, due, scheduled>> /\ at[t] = "join"
    BY <1>4 DEF Join
  <2>1. ASSUME Goto(t, "done"), job' = job PROVE RetriesInv'
    <3>1. ~HoldingAt("done", job[t])
      BY DEF HoldingAt
    <3> QED
      BY <2>0, <2>1, <3>1, RetriesGoto
  <2>2. ASSUME NEW w \in job[t].workers, job' = [job EXCEPT ![t].workers = @ \ {w}], at' = at
        PROVE  RetriesInv'
    <3> DEFINE locals == [job[t] EXCEPT !.workers = @ \ {w}]
    <3>1. locals \in Jobs /\ locals.cycle = job[t].cycle /\ locals.token = job[t].token
      BY <1>j DEF Jobs
    <3>2. /\ at' = [at EXCEPT ![t] = "join"] /\ job' = [job EXCEPT ![t] = locals]
          /\ cycle_id' = cycle_id /\ retry_token' = retry_token /\ RetriesKept
      BY <2>0, <2>2 DEF TypeOK, recovery, RetriesKept
    <3> HIDE DEF locals
    <3>3. ~HoldingAt("join", locals)
      BY DEF HoldingAt
    <3> QED
      BY <1>j, <3>1, <3>2, <3>3, RetriesMove
  <2> QED
    BY <1>4, <2>1, <2>2 DEF Join
<1>5. ASSUME Launch(t) PROVE RetriesInv'
  <2>0. at[t] = "launch" /\ UNCHANGED <<recovery, due, scheduled>>
    BY <1>5 DEF Launch
  <2>1. CASE ~Current(job[t].cycle)
    <3>1. Goto(t, "done") /\ job' = job /\ ~HoldingAt("done", job[t])
      BY <1>5, <2>1 DEF Launch, HoldingAt
    <3> QED
      BY <2>0, <3>1, RetriesGoto
  <2>2. CASE Current(job[t].cycle)
    <3>1. PICK w \in Workers :
            /\ at[w] = "idle"
            /\ at' = [at EXCEPT ![t] = "spawn", ![w] = "registered"]
            /\ job' = [job EXCEPT ![t].workers = {w},
                                  ![w] = [NoJob EXCEPT !.cycle = job[t].cycle,
                                                       !.attempt = job[t].attempt]]
      BY <1>5, <2>2 DEF Launch
    <3>w. w \in Threads /\ w # t
      BY <2>0, <3>1 DEF Threads
    <3>2. /\ at'[t] = "spawn" /\ at'[w] = "registered"
          /\ job'[t].token = job[t].token /\ job'[w].token = NoRetry
          /\ job'[w].cycle = cycle_id
          /\ \A u \in Threads \ {t, w} : at'[u] = at[u] /\ job'[u] = job[u]
      BY <2>2, <3>1, <3>w, Locals, FreshLocals DEF TypeOK, Jobs, NoJob, Current
    <3>3. cycle_id' = cycle_id /\ retry_token' = retry_token /\ RetriesKept
      BY <2>0 DEF recovery, RetriesKept
    <3>4. TokensTaken
      <4>1. ASSUME NEW u \in Threads PROVE job'[u].token \in {NoRetry, job[u].token}
        <5>1. CASE u = t
          BY <3>2, <5>1
        <5>2. CASE u = w
          BY <3>2, <5>2
        <5>3. CASE u \notin {t, w}
          BY <3>2, <5>3
        <5> QED
          BY <5>1, <5>2, <5>3
      <4> QED
        BY <4>1 DEF TokensTaken
    <3>5. StoresStand
      BY <3>2 DEF StoresStand
    <3>6. ASSUME NEW u \in Threads, NEW c \in Nat, Has(u, c)' PROVE c = cycle_id' \/ Has(u, c)
      <4>1. CASE u = t
        BY <3>2, <3>6, <4>1 DEF Has, Holds, HoldingAt
      <4>2. CASE u = w
        BY <3>2, <3>3, <3>6, <4>2 DEF Has, Holds
      <4>3. CASE u \notin {t, w}
        BY <3>2, <3>6, <4>3 DEF Has, Holds
      <4> QED
        BY <4>1, <4>2, <4>3
    <3>7. LeftBehind
      BY <3>6 DEF LeftBehind, Left
    <3> QED
      BY <1>j, <3>3, <3>4, <3>5, <3>7, RetriesStand
  <2> QED
    BY <2>1, <2>2
<1>6. ASSUME Spawn(t) PROVE RetriesInv'
  <2>1. /\ at[t] = "spawn" /\ job' = job /\ cycle_id' = cycle_id /\ retry_token' = retry_token
        /\ RetriesKept
    BY <1>6 DEF Spawn, recovery, RetriesKept
  <2>2. \A w \in job[t].workers : at[w] = "registered"
    BY <2>1 DEF EpisodeInv, SpawnersOwnWorkers
  <2>3. ASSUME NEW u \in Threads
        PROVE  at'[u] \in {at[u], "done"} \/ (at'[u] = "acquire" /\ at[u] = "registered")
    <3>1. at'[u] = IF u = t THEN "done" ELSE IF u \in job[t].workers THEN "acquire" ELSE at[u]
      BY <1>6 DEF Spawn
    <3> QED
      BY <2>2, <3>1
  <2>4. TokensTaken /\ StoresStand
    BY <2>1, <2>3 DEF TokensTaken, StoresStand
  <2>5. \A u \in Threads : \A c : Has(u, c)' => Has(u, c)
    BY <2>1, <2>3 DEF Has, Holds, HoldingAt
  <2>6. LeftBehind
    BY <2>5 DEF LeftBehind, Left
  <2> QED
    BY <1>j, <2>1, <2>4, <2>6, RetriesStand
<1>7. ASSUME NEW step \in {"satisfied", "unsatisfied", "done"}, EndEpisode(t, step),
             at[t] \in {"probe", "verify"}, job' = job, UNCHANGED <<recovery, due, scheduled>>
      PROVE  RetriesInv'
  <2>1. PICK next \in {"satisfied", "unsatisfied", "done"} : Goto(t, next)
    BY <1>7 DEF EndEpisode
  <2>2. HoldingAt(at[t], job[t])
    BY <1>7 DEF HoldingAt
  <2> QED
    BY <1>7, <2>1, <2>2, RetriesGoto
<1>8. ASSUME NEW step \in {"done", "publish"}, EndCycle(t, step), HoldingAt(at[t], job[t]),
             job[t].cycle # 0, UNCHANGED <<due, scheduled>>
      PROVE  RetriesInv'
  <2> DEFINE locals == job[t]
  <2>1. \/ /\ cycle_id' = 0 /\ retry_token' = NoRetry /\ cycle_id # 0
           /\ Resume(t, locals, retry_token, step)
        \/ /\ cycle_id' = cycle_id /\ retry_token' = retry_token
           /\ Resume(t, locals, NoRetry, step)
    BY <1>8 DEF EndCycle, ReplaceCycle, recovery
  <2>2. locals \in Jobs /\ locals = job[t] /\ step \in AfterCancel /\ RetriesKept
    BY <1>8, <1>j DEF AfterCancel, RetriesKept
  <2> HIDE DEF locals
  <2> QED
    BY <1>j, <1>8, <2>1, <2>2, RetriesResume
<1>9. ASSUME BeginAttempt(t) PROVE RetriesInv'
  <2>1. PICK step \in {"probe", "done"} : Goto(t, step)
    BY <1>9 DEF BeginAttempt
  <2>2. HoldingAt(at[t], job[t])
    BY <1>9 DEF BeginAttempt, HoldingAt
  <2> QED
    BY <1>9, <2>1, <2>2, RetriesGoto DEF BeginAttempt
<1>10. ASSUME Probe(t) PROVE RetriesInv'
  <2>1. HoldingAt(at[t], job[t])
    BY <1>10 DEF Probe, HoldingAt
  <2> QED
    BY <1>7, <1>10, <2>1, RetriesGoto DEF Probe
<1>11. ASSUME Command(t) PROVE RetriesInv'
  <2>1. HoldingAt(at[t], job[t])
    BY <1>11 DEF Command, HoldingAt
  <2> QED
    BY <1>11, <2>1, RetriesGoto DEF Command
<1>12. ASSUME Verify(t) PROVE RetriesInv'
  BY <1>7, <1>12 DEF Verify
<1>13. ASSUME EpisodeRaises(t) PROVE RetriesInv'
  BY <1>7, <1>13 DEF EpisodeRaises
<1>14. ASSUME HandleSatisfied(t) PROVE RetriesInv'
  <2>1. HoldingAt(at[t], job[t]) /\ job[t].cycle # 0
    BY <1>14 DEF HandleSatisfied, HoldingAt, NeedsCycle, CyclesInv, KnownCycles
  <2> QED
    BY <1>8, <1>14, <2>1 DEF HandleSatisfied
<1>15. ASSUME HandleUnsatisfied(t) PROVE RetriesInv'
  <2>1. PICK step \in {"retry", "done"} : Goto(t, step)
    BY <1>15 DEF HandleUnsatisfied
  <2>2. HoldingAt(at[t], job[t])
    BY <1>15 DEF HandleUnsatisfied, HoldingAt
  <2> QED
    BY <1>15, <2>1, <2>2, RetriesGoto DEF HandleUnsatisfied
<1>16. ASSUME Exhaust(t) PROVE RetriesInv'
  <2>1. HoldingAt(at[t], job[t]) /\ job[t].cycle # 0
    BY <1>16 DEF Exhaust, HoldingAt, NeedsCycle, CyclesInv, KnownCycles
  <2> QED
    BY <1>8, <1>16, <2>1 DEF Exhaust
<1>17. ASSUME Publish(t) PROVE RetriesInv'
  <2>1. ~HoldingAt("done", job[t])
    BY DEF HoldingAt
  <2> QED
    BY <1>17, <2>1, RetriesGoto DEF Publish
<1> QED
  BY <1>1, <1>2, <1>3, <1>4, <1>5, <1>6, <1>9, <1>10, <1>11, <1>12, <1>13, <1>14, <1>15,
     <1>16, <1>17, ScheduleKeepsRetries, StoreKeepsRetries DEF Continue

LEMMA EnvironmentKeepsRetries ==
  ASSUME RetriesOutlastScheduling, TypeOK, CyclesInv, RetriesInv,
         \/ \E r \in Retries : RetryFires(r)
         \/ \E b \in BusThreads, r \in Retries : OnRetryDue(b, r)
         \/ ServerCrashes
         \/ UNCHANGED vars
  PROVE  RetriesInv'
<1> USE DEF external
<1>0. ASSUME UNCHANGED <<at, job, recovery>>, RetriesKept PROVE RetriesInv'
  <2>1. TokensTaken /\ StoresStand
    BY <1>0 DEF TokensTaken, StoresStand
  <2>2. LeftBehind
    BY <1>0 DEF LeftBehind, Left, Has, Holds
  <2> QED
    BY <1>0, <2>1, <2>2, RetriesStand DEF recovery
<1>1. ASSUME NEW b \in BusThreads, NEW r \in Retries, OnRetryDue(b, r) PROVE RetriesInv'
  <2>1. /\ b \in Threads /\ cycle_id' = cycle_id /\ scheduled' = scheduled /\ due' = due \ {r}
        /\ r \in Pending
    BY <1>1 DEF OnRetryDue, Threads, Pending
  <2>2. CASE subscribed /\ Current(r.cycle)
    <3> DEFINE locals == [NoJob EXCEPT !.cycle = r.cycle, !.attempt = r.attempt]
    <3>1. /\ locals \in Jobs /\ locals.cycle = cycle_id /\ locals.token = NoRetry
          /\ "launch" \in AfterCancel /\ NoRetry \in Retries \cup {NoRetry}
          /\ Resume(b, locals, NoRetry, "launch") /\ retry_token' = NoRetry
      BY <1>1, <2>2, FreshLocals DEF OnRetryDue, Jobs, NoJob, Retries, AfterCancel, Current
    <3>2. RetriesKept
      BY <2>1, <3>1 DEF RetriesKept
    <3> HIDE DEF locals
    <3> QED
      BY <2>1, <3>1, <3>2, RetriesResume
  <2>3. CASE ~(subscribed /\ Current(r.cycle))
    <3>1. UNCHANGED <<at, job, recovery>>
      BY <1>1, <2>3 DEF OnRetryDue, recovery
    <3>2. r.cycle # cycle_id
      BY <2>1, <2>3 DEF CyclesInv, KnownCycles, CyclesAreArmed, LiveCycleIsArmed, Current
    <3>3. RetriesKept
      BY <2>1, <3>2 DEF RetriesKept
    <3> QED
      BY <1>0, <3>1, <3>3
  <2> QED
    BY <2>2, <2>3
<1>2. ASSUME ServerCrashes PROVE RetriesInv'
  BY <1>0, <1>2 DEF ServerCrashes, RetriesKept
<1>3. ASSUME UNCHANGED vars PROVE RetriesInv'
  BY <1>0, <1>3 DEF vars, RetriesKept
<1> QED
  BY <1>1, <1>2, <1>3, FiringKeepsRetries

LEMMA InitRetries == Init => RetriesInv
BY DEF Init, RetriesInv, StoredTokenIsPending, NoJob

LEMMA NextRetries ==
  RetriesOutlastScheduling /\ TypeOK /\ EpisodeInv /\ CyclesInv /\ RetriesInv /\ [Next]_vars => RetriesInv'
<1> SUFFICES ASSUME RetriesOutlastScheduling, TypeOK, EpisodeInv, CyclesInv, RetriesInv, [Next]_vars
             PROVE  RetriesInv'
  OBVIOUS
<1>1. ASSUME NEW t \in Callers, Operation(t) PROVE RetriesInv'
  BY <1>1, OperationKeepsRetries
<1>2. ASSUME NEW t \in Threads, Continue(t) PROVE RetriesInv'
  BY <1>2, ContinueKeepsRetries
<1>3. CASE \/ \E r \in Retries : RetryFires(r)
           \/ \E b \in BusThreads, r \in Retries : OnRetryDue(b, r)
           \/ ServerCrashes
           \/ UNCHANGED vars
  BY <1>3, EnvironmentKeepsRetries
<1>4. QED
  BY <1>1, <1>2, <1>3 DEF Next, Rest

LEMMA RetriesInvariant ==
  ASSUME RetriesOutlastScheduling
  PROVE  Spec => []RetriesInv
<1>1. TypeOK /\ EpisodeInv /\ CyclesInv /\ RetriesInv /\ [Next]_vars => RetriesInv'
  BY NextRetries
<1> QED
  BY <1>1, InitRetries, TypeCorrect, EpisodeInvariant, CyclesInvariant, PTL DEF Spec

\* The stored token is the pending retry of the live cycle, unless a retry can fire before
\* the thread that scheduled it has stored its token.
THEOREM StoredTokensArePending ==
  ASSUME RetriesOutlastScheduling
  PROVE  Spec => []StoredTokenIsPending
<1>1. RetriesInv => StoredTokenIsPending
  BY DEF RetriesInv
<1> QED
  BY <1>1, RetriesInvariant, PTL

-------------------------------------------------------------------------------
(***************************************************************************)
(* A live cycle has somebody to take it further.                           *)
(***************************************************************************)

\* A thread at this step, with these locals, drives the cycle its locals name.
DrivingAt(step, locals) ==
  \/ step \in {"probe", "command", "verify", "satisfied", "unsatisfied", "retry", "launch",
               "registered", "acquire"}
  \/ step = "cancel" /\ locals.then \in {"probe", "launch"}

LEMMA DrivesAt ==
  ASSUME NEW t \in Threads, NEW c
  PROVE  Drives(t, c) <=> c # 0 /\ job[t].cycle = c /\ DrivingAt(at[t], job[t])
BY DEF Drives, InEpisode, DrivingAt

\* The live cycle: one thread drives it on, hands it to a retry, or ends it.
LEMMA DrivenMoves ==
  ASSUME TypeOK, LiveCycleIsDriven, NEW t \in Threads, NEW step, NEW locals,
         at' = [at EXCEPT ![t] = step], job' = [job EXCEPT ![t] = locals],
         cycle_id' \in {0, cycle_id},
         cycle_id' # 0 => \A r \in Pending : r.cycle = cycle_id => r \in Pending',
         cycle_id' # 0 /\ Drives(t, cycle_id) =>
           \/ locals.cycle = cycle_id /\ DrivingAt(step, locals)
           \/ \E r \in Pending' : r.cycle = cycle_id
  PROVE  LiveCycleIsDriven'
<1> SUFFICES ASSUME cycle_id' # 0
             PROVE  \/ \E u \in Threads : Drives(u, cycle_id)'
                    \/ \E r \in Pending' : r.cycle = cycle_id'
  BY DEF LiveCycleIsDriven, Pending
<1>1. /\ at'[t] = step /\ job'[t] = locals
      /\ \A u \in Threads \ {t} : at'[u] = at[u] /\ job'[u] = job[u]
      /\ cycle_id' = cycle_id /\ cycle_id # 0
  BY DEF TypeOK
<1>2. CASE \E r \in Pending : r.cycle = cycle_id
  BY <1>1, <1>2
<1>3. ASSUME NEW u \in Threads, Drives(u, cycle_id), u # t
      PROVE  Drives(u, cycle_id)'
  BY <1>1, <1>3 DEF Drives, InEpisode
<1>4. ASSUME locals.cycle = cycle_id, DrivingAt(step, locals)
      PROVE  Drives(t, cycle_id)'
  BY <1>1, <1>4 DEF Drives, InEpisode, DrivingAt
<1>5. (\E u \in Threads : Drives(u, cycle_id)) \/ (\E r \in Pending : r.cycle = cycle_id)
  BY <1>1 DEF LiveCycleIsDriven, Pending
<1> QED
  BY <1>1, <1>2, <1>3, <1>4, <1>5

\* A new cycle is driven by the thread that opens it.
LEMMA DrivenOpens ==
  ASSUME TypeOK, NEW t \in Threads, NEW locals \in Jobs, NEW token \in Retries \cup {NoRetry},
         NEW step \in AfterCancel, Resume(t, locals, token, step),
         cycle_id' # 0 => locals.cycle = cycle_id' /\ step \in {"probe", "launch"}
  PROVE  LiveCycleIsDriven'
<1> SUFFICES ASSUME cycle_id' # 0
             PROVE  Drives(t, cycle_id)'
  BY DEF LiveCycleIsDriven
<1>1. CASE token = NoRetry
  BY <1>1 DEF Resume, Goto, Drives, InEpisode, TypeOK
<1>2. CASE token # NoRetry
  <2> DEFINE cancelling == [locals EXCEPT !.token = token, !.then = step]
  <2>1. at'[t] = "cancel" /\ job'[t] = cancelling
    BY <1>2 DEF Resume, Goto, TypeOK
  <2>2. cancelling.then = step /\ cancelling.cycle = locals.cycle
    BY DEF Jobs
  <2> HIDE DEF cancelling
  <2> QED
    BY <2>1, <2>2 DEF Drives
<1> QED
  BY <1>1, <1>2

LEMMA OperationKeepsDriven ==
  ASSUME TypeOK, CyclesInv, LiveCycleIsDriven, NEW t \in Callers, Operation(t)
  PROVE  LiveCycleIsDriven'
<1>r. /\ t \in Threads /\ retry_token \in Retries \cup {NoRetry} /\ NoRetry \in Retries \cup {NoRetry}
      /\ {"probe", "launch", "done"} \subseteq AfterCancel
  BY DEF TypeOK, AfterCancel, Threads
<1>1. ASSUME NEW enabled \in BOOLEAN, Start(t, enabled) \/ SetRecoveryEnabled(t, enabled)
      PROVE  LiveCycleIsDriven'
  <2> DEFINE cycle == IF enabled THEN recovery_epoch + 1 ELSE 0
             locals == [NoJob EXCEPT !.cycle = cycle]
  <2>1. recovery_epoch < MaxEpoch /\ cycle \in {0, recovery_epoch + 1} /\ (cycle # 0 => enabled)
    BY <1>1 DEF Start, SetRecoveryEnabled
  <2>2. locals \in Jobs /\ locals.cycle = cycle
    BY <2>1, FreshCycle, FreshLocals DEF Jobs, NoJob
  <2>3. /\ cycle_id' = cycle
        /\ \E step \in {"probe", "launch", "done"} :
             Resume(t, locals, retry_token, step) /\ (enabled => step \in {"probe", "launch"})
    BY <1>1 DEF Start, SetRecoveryEnabled, ReplaceCycle
  <2> HIDE DEF cycle, locals
  <2> QED
    BY <1>r, <2>1, <2>2, <2>3, DrivenOpens
<1>2. ASSUME Stop(t) \/ Close(t) PROVE LiveCycleIsDriven'
  BY <1>2 DEF Stop, Close, ReplaceCycle, LiveCycleIsDriven
<1>3. ASSUME Reconcile(t) PROVE LiveCycleIsDriven'
  <2> DEFINE cycle == recovery_epoch + 1
             locals == [NoJob EXCEPT !.cycle = cycle]
  <2>1. recovery_epoch < MaxEpoch /\ cycle \in {0, recovery_epoch + 1}
    BY <1>3 DEF Reconcile
  <2>2. locals \in Jobs /\ locals.cycle = cycle
    BY <2>1, FreshCycle, FreshLocals DEF Jobs, NoJob
  <2>3. cycle_id' = cycle /\ Resume(t, locals, NoRetry, "launch")
    BY <1>3 DEF Reconcile
  <2> HIDE DEF cycle, locals
  <2> QED
    BY <1>r, <2>2, <2>3, DrivenOpens
<1> QED
  BY <1>1, <1>2, <1>3 DEF Operation

\* One thread goes on, its locals as they are; only retries of cycles that are over go.
LEMMA DrivenGoes ==
  ASSUME TypeOK, LiveCycleIsDriven, NEW t \in Threads, NEW step, step # "cancel",
         Goto(t, step), job' = job, cycle_id' = cycle_id,
         \A r \in Pending : r.cycle = cycle_id => r \in Pending',
         Drives(t, cycle_id) => DrivingAt(step, job[t]) \/ \E r \in Pending' : r.cycle = cycle_id
  PROVE  LiveCycleIsDriven'
<1> DEFINE locals == job[t]
<1>1. /\ at' = [at EXCEPT ![t] = step] /\ job' = [job EXCEPT ![t] = locals] /\ locals = job[t]
      /\ Drives(t, cycle_id) => locals.cycle = cycle_id
  BY DEF Goto, TypeOK, Drives
<1> HIDE DEF locals
<1> QED
  BY <1>1, DrivenMoves

\* Whoever drives the live cycle finds it current.
LEMMA LiveIsCurrent ==
  ASSUME CyclesInv, NEW t \in Threads, Drives(t, cycle_id)
  PROVE  /\ job[t].cycle = cycle_id /\ cycle_id # 0 /\ Current(job[t].cycle)
         /\ DrivingAt(at[t], job[t])
BY DrivesAt DEF Drives, CyclesInv, CyclesAreArmed, LiveCycleIsArmed, Current

LEMMA EpisodeEndKeepsDriven ==
  ASSUME TypeOK, CyclesInv, LiveCycleIsDriven, NEW t \in Threads,
         NEW step \in {"satisfied", "unsatisfied"}, EndEpisode(t, step),
         UNCHANGED <<recovery, external, job>>
  PROVE  LiveCycleIsDriven'
<1>1. /\ cycle_id' = cycle_id /\ job' = job /\ \A r \in Pending : r \in Pending'
  BY DEF recovery, external, Pending
<1>2. PICK next \in {"done", "satisfied", "unsatisfied"} :
        Goto(t, next) /\ (job[t].cycle # 0 => next = step)
  BY DEF EndEpisode
<1>3. Drives(t, cycle_id) => DrivingAt(next, job[t])
  BY <1>2, LiveIsCurrent DEF DrivingAt
<1> QED
  BY <1>1, <1>2, <1>3, DrivenGoes

LEMMA CycleEndKeepsDriven ==
  ASSUME TypeOK, LiveCycleIsDriven, NEW t \in Threads, NEW step \in {"done", "publish"},
         EndCycle(t, step), UNCHANGED external
  PROVE  LiveCycleIsDriven'
<1>1. CASE cycle_id = job[t].cycle
  BY <1>1 DEF EndCycle, ReplaceCycle, LiveCycleIsDriven
<1>2. CASE cycle_id # job[t].cycle
  <2> DEFINE locals == job[t]
  <2>1. /\ at' = [at EXCEPT ![t] = step] /\ job' = [job EXCEPT ![t] = locals]
        /\ cycle_id' = cycle_id /\ \A r \in Pending : r \in Pending'
        /\ ~Drives(t, cycle_id)
    BY <1>2 DEF EndCycle, Resume, Goto, recovery, external, Pending, Drives
  <2> HIDE DEF locals
  <2> QED
    BY <2>1, DrivenMoves
<1> QED
  BY <1>1, <1>2

LEMMA LaunchKeepsDriven ==
  ASSUME TypeOK, CyclesInv, LiveCycleIsDriven, NEW t \in Threads, Launch(t)
  PROVE  LiveCycleIsDriven'
<1>0. at[t] = "launch" /\ cycle_id' = cycle_id /\ Pending' = Pending
  BY DEF Launch, recovery, external, Pending
<1>1. CASE ~Current(job[t].cycle)
  <2>1. Goto(t, "done") /\ job' = job /\ ~Drives(t, cycle_id)
    BY <1>1, LiveIsCurrent DEF Launch
  <2> QED
    BY <1>0, <2>1, DrivenGoes
<1>2. CASE Current(job[t].cycle)
  <2>1. PICK w \in Workers :
          /\ at[w] = "idle"
          /\ at' = [at EXCEPT ![t] = "spawn", ![w] = "registered"]
          /\ job' = [job EXCEPT ![t].workers = {w},
                                ![w] = [NoJob EXCEPT !.cycle = job[t].cycle,
                                                     !.attempt = job[t].attempt]]
    BY <1>2 DEF Launch
  <2>w. w \in Threads /\ w # t
    BY <1>0, <2>1 DEF Threads
  <2>2. at'[w] = "registered" /\ job'[w].cycle = cycle_id
    BY <1>2, <2>1, <2>w DEF TypeOK, NoJob, Current
  <2>3. cycle_id # 0 => Drives(w, cycle_id)'
    BY <1>0, <2>2 DEF Drives
  <2> QED
    BY <1>0, <2>w, <2>3 DEF LiveCycleIsDriven
<1> QED
  BY <1>1, <1>2

LEMMA SpawnKeepsDriven ==
  ASSUME TypeOK, EpisodeInv, LiveCycleIsDriven, NEW t \in Threads, Spawn(t)
  PROVE  LiveCycleIsDriven'
<1>1. /\ at[t] = "spawn" /\ job' = job /\ cycle_id' = cycle_id /\ Pending' = Pending
  BY DEF Spawn, recovery, external, Pending
<1>2. \A w \in job[t].workers : at[w] = "registered"
  BY <1>1 DEF EpisodeInv, SpawnersOwnWorkers
<1>3. ASSUME NEW u \in Threads, Drives(u, cycle_id) PROVE Drives(u, cycle_id)'
  <2>1. u # t
    BY <1>1, <1>3 DEF Drives, InEpisode
  <2>2. at'[u] = at[u] \/ (at'[u] = "acquire" /\ at[u] = "registered")
    BY <1>2, <2>1 DEF Spawn
  <2> QED
    BY <1>1, <1>3, <2>2 DEF Drives, InEpisode
<1> QED
  BY <1>1, <1>3 DEF LiveCycleIsDriven, Pending

LEMMA ContinueKeepsDriven ==
  ASSUME ~PublishMayRaise, TypeOK, EpisodeInv, CyclesInv, RetriesInv, LiveCycleIsDriven,
         NEW t \in Threads, Continue(t)
  PROVE  LiveCycleIsDriven'
<1> USE DEF recovery, external
<1>j. job[t] \in Jobs /\ job = [job EXCEPT ![t] = job[t]]
  BY DEF TypeOK
<1>l. Drives(t, cycle_id) => /\ job[t].cycle = cycle_id /\ cycle_id # 0 /\ Current(job[t].cycle)
                             /\ DrivingAt(at[t], job[t])
  BY LiveIsCurrent
<1>1. ASSUME Cancel(t) PROVE LiveCycleIsDriven'
  <2> DEFINE locals == [job[t] EXCEPT !.token = NoRetry, !.then = "done"]
             step == job[t].then
  <2>1. locals.cycle = job[t].cycle
    BY <1>j DEF Jobs
  <2>2. /\ at' = [at EXCEPT ![t] = step] /\ job' = [job EXCEPT ![t] = locals]
        /\ cycle_id' = cycle_id /\ at[t] = "cancel" /\ step = job[t].then
        /\ scheduled' = scheduled \ {job[t].token} /\ due' = due
    BY <1>1, <1>j DEF Cancel, Goto
  <2> HIDE DEF locals, step
  <2>3. DrivingAt(at[t], job[t]) => DrivingAt(step, locals)
    BY <2>2 DEF DrivingAt
  <2>4. \A r \in Pending : r.cycle = cycle_id => r # job[t].token
    <3>1. \A r \in Pending : r # NoRetry
      BY Numbers DEF Retries, NoRetry, Attempts
    <3> QED
      BY <3>1 DEF RetriesInv, Over
  <2>5. \A r \in Pending : r.cycle = cycle_id => r \in Pending'
    BY <2>2, <2>4 DEF Pending
  <2>6. Drives(t, cycle_id) => locals.cycle = cycle_id /\ DrivingAt(step, locals)
    BY <1>l, <2>1, <2>3
  <2> QED
    BY <2>2, <2>5, <2>6, DrivenMoves
<1>2. ASSUME Return(t) PROVE LiveCycleIsDriven'
  <2>1. /\ at' = [at EXCEPT ![t] = "idle"] /\ job' = [job EXCEPT ![t] = NoJob]
        /\ cycle_id' = cycle_id /\ \A r \in Pending : r \in Pending'
    BY <1>2 DEF Return, Goto, Pending
  <2>2. ~Drives(t, cycle_id)
    BY <1>2, <1>l DEF Return, DrivingAt
  <2> QED
    BY <2>1, <2>2, DrivenMoves
<1>3. ASSUME Unsubscribe(t) \/ Join(t) PROVE LiveCycleIsDriven'
  <2>1. /\ cycle_id' = cycle_id /\ Pending' = Pending
        /\ at[t] \in {"unsubscribe", "join"}
        /\ \A u \in Threads \ {t} : at'[u] = at[u] /\ job'[u] = job[u]
    BY <1>3 DEF Unsubscribe, Join, Resume, Goto, TypeOK, Pending
  <2>2. \A u \in Threads : Drives(u, cycle_id) => u # t
    BY <2>1 DEF Drives, InEpisode
  <2>3. \A u \in Threads : Drives(u, cycle_id) => Drives(u, cycle_id)'
    BY <2>1, <2>2 DEF Drives, InEpisode
  <2> QED
    BY <2>1, <2>3 DEF LiveCycleIsDriven, Pending
<1>4. ASSUME BeginAttempt(t) PROVE LiveCycleIsDriven'
  <2>1. PICK step \in {"probe", "done"} : Goto(t, step) /\ (Current(job[t].cycle) => step = "probe")
    BY <1>4 DEF BeginAttempt
  <2>2. /\ job' = job /\ cycle_id' = cycle_id /\ \A r \in Pending : r \in Pending'
    BY <1>4 DEF BeginAttempt, Pending
  <2>3. Drives(t, cycle_id) => DrivingAt(step, job[t])
    BY <1>l, <2>1 DEF DrivingAt
  <2> QED
    BY <2>1, <2>2, <2>3, DrivenGoes
<1>5. ASSUME Probe(t) PROVE LiveCycleIsDriven'
  <2>1. CASE EndEpisode(t, "satisfied")
    BY <1>5, <2>1, EpisodeEndKeepsDriven DEF Probe
  <2>2. CASE Goto(t, "command")
    <3>1. /\ job' = job /\ cycle_id' = cycle_id /\ \A r \in Pending : r \in Pending'
          /\ DrivingAt("command", job[t])
      BY <1>5 DEF Probe, Pending, DrivingAt
    <3> QED
      BY <2>2, <3>1, DrivenGoes
  <2> QED
    BY <1>5, <2>1, <2>2 DEF Probe
<1>6. ASSUME Command(t) PROVE LiveCycleIsDriven'
  <2>1. /\ job' = job /\ cycle_id' = cycle_id /\ \A r \in Pending : r \in Pending'
        /\ DrivingAt("verify", job[t]) /\ Goto(t, "verify")
    BY <1>6 DEF Command, Pending, DrivingAt
  <2> QED
    BY <2>1, DrivenGoes
<1>7. ASSUME Verify(t) PROVE LiveCycleIsDriven'
  BY <1>7, EpisodeEndKeepsDriven DEF Verify
<1>8. ASSUME EpisodeRaises(t) PROVE LiveCycleIsDriven'
  BY <1>8 DEF EpisodeRaises
<1>9. ASSUME HandleSatisfied(t) \/ Exhaust(t) PROVE LiveCycleIsDriven'
  BY <1>9, CycleEndKeepsDriven DEF HandleSatisfied, Exhaust
<1>10. ASSUME HandleUnsatisfied(t) PROVE LiveCycleIsDriven'
  <2>1. PICK step \in {"retry", "done"} : Goto(t, step) /\ (Current(job[t].cycle) => step = "retry")
    BY <1>10 DEF HandleUnsatisfied
  <2>2. /\ job' = job /\ cycle_id' = cycle_id /\ \A r \in Pending : r \in Pending'
    BY <1>10 DEF HandleUnsatisfied, Pending
  <2>3. Drives(t, cycle_id) => DrivingAt(step, job[t])
    BY <1>l, <2>1 DEF DrivingAt
  <2> QED
    BY <2>1, <2>2, <2>3, DrivenGoes
<1>11. ASSUME Publish(t) PROVE LiveCycleIsDriven'
  <2>1. /\ job' = job /\ cycle_id' = cycle_id /\ \A r \in Pending : r \in Pending'
        /\ Goto(t, "done")
    BY <1>11 DEF Publish, Pending
  <2>2. ~Drives(t, cycle_id)
    BY <1>11, <1>l DEF Publish, DrivingAt
  <2> QED
    BY <2>1, <2>2, DrivenGoes
<1>12. ASSUME Schedule(t) PROVE LiveCycleIsDriven'
  <2>1. /\ job' = job /\ cycle_id' = cycle_id /\ \A r \in Pending : r \in Pending'
        /\ Goto(t, "store") /\ NextRetry(t) \in Pending'
    BY <1>12 DEF Schedule, Pending
  <2>2. Drives(t, cycle_id) => NextRetry(t).cycle = cycle_id
    BY <1>l, NextRetryKept
  <2> QED
    BY <2>1, <2>2, DrivenGoes
<1>13. ASSUME StoreToken(t) PROVE LiveCycleIsDriven'
  <2>1. at[t] = "store" /\ cycle_id' = cycle_id /\ due' = due /\ ~Drives(t, cycle_id)
    BY <1>13, <1>l DEF StoreToken, DrivingAt
  <2>2. CASE Current(job[t].cycle)
    <3>1. /\ \A u \in Threads \ {t} : at'[u] = at[u] /\ job'[u] = job[u]
          /\ Pending' = Pending
      BY <1>13, <2>2 DEF StoreToken, Resume, Goto, TypeOK, Pending
    <3>2. \A u \in Threads : Drives(u, cycle_id) => Drives(u, cycle_id)'
      BY <2>1, <3>1 DEF Drives, InEpisode
    <3> QED
      BY <2>1, <3>1, <3>2 DEF LiveCycleIsDriven, Pending
  <2>3. CASE ~Current(job[t].cycle)
    <3>1. Goto(t, "done") /\ job' = job /\ scheduled' = scheduled \ {NextRetry(t)}
      BY <1>13, <2>3 DEF StoreToken
    <3>2. cycle_id # 0 => NextRetry(t).cycle # cycle_id
      BY <2>3, NextRetryKept DEF CyclesInv, CyclesAreArmed, LiveCycleIsArmed, Current
    <3>3. \A r \in Pending : r.cycle = cycle_id => r \in Pending'
      <4>1. \A r \in Pending : r.cycle # 0
        BY Numbers DEF CyclesInv, KnownCycles
      <4> QED
        BY <2>1, <3>1, <3>2, <4>1 DEF Pending
    <3> QED
      BY <2>1, <3>1, <3>3, DrivenGoes
  <2> QED
    BY <2>2, <2>3
<1> QED
  BY <1>1, <1>2, <1>3, <1>4, <1>5, <1>6, <1>7, <1>8, <1>9, <1>10, <1>11, <1>12, <1>13,
     LaunchKeepsDriven, SpawnKeepsDriven DEF Continue

LEMMA EnvironmentKeepsDriven ==
  ASSUME TypeOK, CyclesInv, LiveCycleIsDriven,
         \/ \E r \in Retries : RetryFires(r)
         \/ \E b \in BusThreads, r \in Retries : OnRetryDue(b, r)
         \/ ServerCrashes
         \/ UNCHANGED vars
  PROVE  LiveCycleIsDriven'
<1> USE DEF recovery, external
<1>0. ASSUME at' = at, job' = job, cycle_id' = cycle_id, \A r \in Pending : r.cycle = cycle_id => r \in Pending'
      PROVE  LiveCycleIsDriven'
  <2>1. \A u \in Threads : Drives(u, cycle_id) => Drives(u, cycle_id)'
    BY <1>0 DEF Drives, InEpisode
  <2> QED
    BY <1>0, <2>1 DEF LiveCycleIsDriven, Pending
<1>1. ASSUME NEW r \in Retries, RetryFires(r) PROVE LiveCycleIsDriven'
  BY <1>0, <1>1 DEF RetryFires, Pending
<1>2. ASSUME NEW b \in BusThreads, NEW r \in Retries, OnRetryDue(b, r) PROVE LiveCycleIsDriven'
  <2>1. /\ b \in Threads /\ cycle_id' = cycle_id /\ scheduled' = scheduled /\ due' = due \ {r}
        /\ r \in Pending
    BY <1>2 DEF OnRetryDue, Threads, Pending
  <2>2. CASE subscribed /\ Current(r.cycle)
    <3> DEFINE locals == [NoJob EXCEPT !.cycle = r.cycle, !.attempt = r.attempt]
    <3>1. /\ locals \in Jobs /\ locals.cycle = cycle_id
          /\ "launch" \in AfterCancel /\ NoRetry \in Retries \cup {NoRetry}
          /\ Resume(b, locals, NoRetry, "launch")
      BY <1>2, <2>2, FreshLocals DEF OnRetryDue, Jobs, NoJob, Retries, AfterCancel, Current
    <3> HIDE DEF locals
    <3> QED
      BY <2>1, <3>1, DrivenOpens
  <2>3. CASE ~(subscribed /\ Current(r.cycle))
    <3>1. at' = at /\ job' = job
      BY <1>2, <2>3 DEF OnRetryDue
    <3>2. r.cycle # cycle_id
      BY <2>1, <2>3 DEF CyclesInv, KnownCycles, CyclesAreArmed, LiveCycleIsArmed, Current
    <3>3. \A q \in Pending : q.cycle = cycle_id => q \in Pending'
      BY <2>1, <3>2 DEF Pending
    <3> QED
      BY <1>0, <2>1, <3>1, <3>3
  <2> QED
    BY <2>2, <2>3
<1>3. ASSUME ServerCrashes PROVE LiveCycleIsDriven'
  BY <1>0, <1>3 DEF ServerCrashes, Pending
<1>4. ASSUME UNCHANGED vars PROVE LiveCycleIsDriven'
  BY <1>0, <1>4 DEF vars, Pending
<1> QED
  BY <1>1, <1>2, <1>3, <1>4

LEMMA NextDriven ==
  /\ ~PublishMayRaise /\ TypeOK /\ EpisodeInv /\ CyclesInv /\ RetriesInv
  /\ LiveCycleIsDriven /\ [Next]_vars
  => LiveCycleIsDriven'
<1> SUFFICES ASSUME ~PublishMayRaise, TypeOK, EpisodeInv, CyclesInv, RetriesInv, LiveCycleIsDriven,
                    [Next]_vars
             PROVE  LiveCycleIsDriven'
  OBVIOUS
<1>1. ASSUME NEW t \in Callers, Operation(t) PROVE LiveCycleIsDriven'
  BY <1>1, OperationKeepsDriven
<1>2. ASSUME NEW t \in Threads, Continue(t) PROVE LiveCycleIsDriven'
  BY <1>2, ContinueKeepsDriven
<1>3. CASE \/ \E r \in Retries : RetryFires(r)
           \/ \E b \in BusThreads, r \in Retries : OnRetryDue(b, r)
           \/ ServerCrashes
           \/ UNCHANGED vars
  BY <1>3, EnvironmentKeepsDriven
<1>4. QED
  BY <1>1, <1>2, <1>3 DEF Next, Rest

\* No live cycle is abandoned, when publications do not raise inside an episode and retries
\* outlast their scheduling: a thread drives it, or one of its retries is pending.
THEOREM LiveCyclesAreDriven ==
  ASSUME RetriesOutlastScheduling, ~PublishMayRaise
  PROVE  Spec => []LiveCycleIsDriven
<1>1. Init => LiveCycleIsDriven
  BY DEF Init, LiveCycleIsDriven
<1>2. TypeOK /\ EpisodeInv /\ CyclesInv /\ RetriesInv /\ LiveCycleIsDriven /\ [Next]_vars => LiveCycleIsDriven'
  BY NextDriven
<1> QED
  BY <1>1, <1>2, TypeCorrect, EpisodeInvariant, CyclesInvariant, RetriesInvariant, PTL DEF Spec
===============================================================================
