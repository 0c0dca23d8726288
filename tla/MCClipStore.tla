---------------------------- MODULE MCClipStore ----------------------------
(* Model checking of ClipStore. *)
EXTENDS ClipStore, TLC

Interchangeable == Permutations(Clips) \cup Permutations(Workers)
=============================================================================
