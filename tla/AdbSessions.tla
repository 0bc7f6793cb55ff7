----------------------------- MODULE AdbSessions -----------------------------
(***************************************************************************)
(* The process's sessions with the ADB server: one tracking source, and the *)
(* calls of the adapters.  They share a protocol and no state, so that what *)
(* one does never depends on the other: a behaviour runs either, with the   *)
(* other at rest, and their interleavings would show nothing more.          *)
(***************************************************************************)
EXTENDS TrackDevicesSource, ServiceClient

vars == <<sourceVars, clientVars>>

\* Nobody calls an adapter.
NoCall ==
  /\ call = [use |-> "cli", format |-> "pair", flaw |-> "none"] /\ pc = "ended" /\ services = <<>> /\ sock = "none"
  /\ received = <<>> /\ stdout = <<>> /\ exit_code = <<>> /\ outcome = "none" /\ result = NoResult

Init == SourceInit /\ (ClientInit \/ NoCall)

Next ==
  \/ NoCall /\ SourceNext /\ UNCHANGED clientVars
  \/ ClientNext /\ UNCHANGED sourceVars

Spec == Init /\ [][Next]_vars
FairSpec == Spec /\ SourceFairness
-----------------------------------------------------------------------------
TypeOK == SourceTypeOK /\ ClientTypeOK
=============================================================================
