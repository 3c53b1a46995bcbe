---------------------------- MODULE MCTextedCodes ----------------------------
(* Small instances of TextedCodes for TLC. *)
EXTENDS TextedCodes, TLC

Symmetry == Permutations(Requests) \cup Permutations(Codes)
==============================================================================
