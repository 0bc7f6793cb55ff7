------------------------ MODULE MCDevicesObservation ------------------------
(***************************************************************************)
(* DevicesObservation on small instances; clients and workers are          *)
(* interchangeable.                                                        *)
(***************************************************************************)
EXTENDS DevicesObservation, TLC

Interchangeable == Permutations(Clients) \cup Permutations(Workers)

=============================================================================
