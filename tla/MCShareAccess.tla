--------------------------- MODULE MCShareAccess ---------------------------
(* Model checking of ShareAccess. *)
EXTENDS ShareAccess, TLC

Interchangeable == Permutations(Workers)
=============================================================================
