--------------------------- MODULE MCSharedAccounts ---------------------------
(* A small instance of SharedAccounts for TLC. *)
EXTENDS SharedAccounts, TLC

PerSide(s, r) == [side \in {"sender", "receiver"} |-> IF side = "sender" THEN s ELSE r]

MCNames == PerSide({"acme", "acne", "acmes"}, {"bolt"})

Similarity(pair) ==
    CASE pair[1] = pair[2] -> 3
      [] {pair[1], pair[2]} = {"acme", "acne"} -> 2
      [] {pair[1], pair[2]} = {"acme", "acmes"} -> 1
      [] OTHER -> 0

MCScore == [side \in {"sender", "receiver"} |->
              [pair \in MCNames[side] \X MCNames[side] |-> Similarity(pair)]]

MCMaxAccounts == PerSide(2, 1)

Symmetry == Permutations(Lists) \cup Permutations(Requests)
==============================================================================
