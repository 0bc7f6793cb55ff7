------------------------ MODULE MCConfiguredTransport ------------------------
(***************************************************************************)
(* ConfiguredTransport on small instances; callers and workers are         *)
(* interchangeable.                                                        *)
(***************************************************************************)
EXTENDS ConfiguredTransport, TLC

Interchangeable == Permutations(Callers) \cup Permutations(Workers)

=============================================================================
