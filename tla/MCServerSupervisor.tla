------------------------- MODULE MCServerSupervisor -------------------------
(***************************************************************************)
(* ServerSupervisor on small instances.  Callers and workers are only ever *)
(* compared with each other, so the safety runs may permute them.          *)
(***************************************************************************)
EXTENDS ServerSupervisor, TLC

Interchangeable == Permutations(Callers) \cup Permutations(Workers)

=============================================================================
