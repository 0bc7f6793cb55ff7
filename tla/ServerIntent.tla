----------------------------- MODULE ServerIntent -----------------------------
(***************************************************************************)
(* What AdbServerSupervisor promises of one endpoint, without threads,     *)
(* locks, cycles or timers: managed starts and stops are serialized, the   *)
(* intent changes only between them, and the server is recovered only      *)
(* while running is wanted and recovery is armed.                          *)
(***************************************************************************)
VARIABLES
  wanted,     \* the last of start() and stop() was a start()
  armed,      \* automatic recovery is allowed
  activity,   \* what is being done to the endpoint
  closed,
  server

vars == <<wanted, armed, activity, closed, server>>

TypeOK ==
  /\ wanted \in BOOLEAN
  /\ armed \in BOOLEAN
  /\ activity \in {"none", "starting", "stopping"}
  /\ closed \in BOOLEAN
  /\ server \in {"up", "down"}

Init ==
  /\ wanted = FALSE
  /\ armed = FALSE
  /\ activity = "none"
  /\ closed = FALSE
  /\ server \in {"up", "down"}

\* A managed start, which arms recovery or not.
Want ==
  /\ activity = "none" /\ ~closed
  /\ wanted' = TRUE
  /\ armed' \in BOOLEAN
  /\ activity' = "starting"
  /\ UNCHANGED <<closed, server>>

\* A managed stop, which disarms it.
Unwant ==
  /\ activity = "none" /\ ~closed
  /\ wanted' = FALSE
  /\ armed' = FALSE
  /\ activity' = "stopping"
  /\ UNCHANGED <<closed, server>>

\* An automatic attempt.
Recover ==
  /\ activity = "none" /\ wanted /\ armed
  /\ activity' = "starting"
  /\ UNCHANGED <<wanted, armed, closed, server>>

\* The native commands: each moves the server only the way of the activity.
Act ==
  /\ \/ activity = "starting" /\ server' = "up"
     \/ activity = "stopping" /\ server' = "down"
  /\ UNCHANGED <<wanted, armed, activity, closed>>

Finish ==
  /\ activity # "none"
  /\ activity' = "none"
  /\ UNCHANGED <<wanted, armed, closed, server>>

\* Recovery is allowed or not at any time, but not without a wanted server.
Arm ==
  /\ ~closed
  /\ armed' \in BOOLEAN
  /\ armed' => wanted
  /\ UNCHANGED <<wanted, activity, closed, server>>

Close ==
  /\ closed' = TRUE
  /\ armed' = FALSE
  /\ UNCHANGED <<wanted, activity, server>>

Crash ==
  /\ server' = "down"
  /\ UNCHANGED <<wanted, armed, activity, closed>>

Next == Want \/ Unwant \/ Recover \/ Act \/ Finish \/ Arm \/ Close \/ Crash

Spec == Init /\ [][Next]_vars

=============================================================================
