------------------------- MODULE MCInviteRedemption -------------------------
(* Model checking of InviteRedemption, and its refinement of InviteLedger. *)
EXTENDS InviteRedemption, TLC

Interchangeable ==
  Permutations(Codes) \cup Permutations(Users) \cup Permutations(Workers)
=============================================================================
