------------------------- MODULE MCAccountActivation -------------------------
(* Small instance of AccountActivation for TLC. *)
EXTENDS AccountActivation, TLC

Symmetry == Permutations(Emails) \cup Permutations(Phones) \cup Permutations(Requests)
==============================================================================
