------------------------ MODULE MCOverlapNotifications ------------------------
(* A small instance of OverlapNotifications for TLC: names that are twice   *)
(* in a list, and a pair of names that matches only by decision.            *)
EXTENDS OverlapNotifications, MCMatching, TLC

Order == [sender |-> <<"a1", "a2">>, receiver |-> <<"b1", "b2", "c">>]

MCLists == [sender |-> {{}, {"a1", "a2"}}, receiver |-> {{}, {"b1", "b2"}, {"b1", "c"}}]

MCName == [x \in {"a1", "a2", "b1", "b2", "c"} |-> IF x = "c" THEN "acne" ELSE "acme"]

Score(x, y) == IF MCName[x] = MCName[y] THEN Exact ELSE Suggested

\* TLC evaluates this table once.
Matches == [v \in Sides, a \in MCLists["sender"], b \in MCLists["receiver"],
            d \in [{"a1", "a2"} \X {"b1", "b2", "c"} -> {"none", "accepted", "rejected"}] |->
                Greedy(Order, Score, v, a \cup b, d)] @@ <<>>

MCResolved == Matches

\* Bound: both users have a list at first.
MCInit == Init /\ \A s \in Sides : list[s] # {}

MCSpec == MCInit /\ [][Next]_vars

Symmetry == Permutations(Requests)
==============================================================================
