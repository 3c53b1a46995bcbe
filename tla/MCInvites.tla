------------------------------- MODULE MCInvites -------------------------------
(* Small instances of Invites for TLC. *)
EXTENDS Invites, TLC

Symmetry == Permutations(Users) \cup Permutations(Conns)
              \cup Permutations(InviteIds) \cup Permutations(Requests)
==============================================================================
