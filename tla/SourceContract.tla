--------------------------- MODULE SourceContract ---------------------------
(***************************************************************************)
(* What AdbTrackDevicesSource promises to the threads that observe with it  *)
(* and to the one that closes it (src/adb/transport/observation/source.py): *)
(* one session at a time, None and an orderly end only once the source has  *)
(* been closed, and no failure reported for what close() interrupted.       *)
(* TrackDevicesSource implements it; DevicesObserver relies on it.          *)
(***************************************************************************)
CONSTANTS Openers, NoOpener

VARIABLES
  closed,       \* close() has been called; for good
  holder,       \* the opener that has the only session, or NoOpener
  stage,        \* how far each opener got
  interrupted   \* the openers whose system call failed because of close()

vars == <<closed, holder, stage, interrupted>>

Live == {"opening", "streaming"}
Stages == {"new", "refused", "stopped", "failed", "left"} \cup Live

Init ==
  /\ closed = FALSE /\ holder = NoOpener /\ interrupted = {}
  /\ stage = [r \in Openers |-> "new"]

Close == closed' = TRUE /\ UNCHANGED <<holder, stage, interrupted>>

Become(r, from, to) ==
  /\ stage[r] \in from
  /\ stage' = [stage EXCEPT ![r] = to]
  /\ UNCHANGED closed

Open(r) ==
  /\ ~closed /\ holder = NoOpener
  /\ Become(r, {"new"}, "opening") /\ holder' = r /\ UNCHANGED interrupted

\* open() raises while another session is active, and returns None once closed.
Refuse(r) == holder # NoOpener /\ Become(r, {"new"}, "refused") /\ UNCHANGED <<holder, interrupted>>
Decline(r) == closed /\ Become(r, {"new"}, "stopped") /\ UNCHANGED <<holder, interrupted>>

Stream(r) == Become(r, {"opening"}, "streaming") /\ UNCHANGED <<holder, interrupted>>

Stop(r) ==
  /\ closed /\ Become(r, Live, "stopped")
  /\ interrupted' \in {interrupted, interrupted \cup {r}}
  /\ UNCHANGED holder

Fail(r) == r \notin interrupted /\ Become(r, Live, "failed") /\ UNCHANGED <<holder, interrupted>>
Leave(r) == Become(r, {"streaming"}, "left") /\ UNCHANGED <<holder, interrupted>>

Release(r) ==
  /\ holder = r /\ stage[r] \notin Live
  /\ holder' = NoOpener /\ UNCHANGED <<closed, stage, interrupted>>

Next ==
  \/ Close
  \/ \E r \in Openers :
       Open(r) \/ Refuse(r) \/ Decline(r) \/ Stream(r) \/ Stop(r) \/ Fail(r) \/ Leave(r) \/ Release(r)

Spec == Init /\ [][Next]_vars
=============================================================================
