---------------------------- MODULE MCAdbSessions ----------------------------
(* AdbSessions for TLC: bounds in AdbSessions.cfg and here. *)
EXTENDS AdbSessions

\* Four items where a case takes so many: facts after two headers and a focus, three
\* lines and one too many, three bytes and one too many; two where fields or rows only
\* need to meet.
MCMaxItems ==
  [f \in HostFormats \cup TextFormats \cup {"raw"} |->
     CASE f \in {"windows", "build", "id"} -> 4
       [] f \in {"row", "status", "snapshot", "find_id", "features", "package", "power", "user_state"} -> 2
       [] OTHER -> 3]
=============================================================================
