------------------------------ MODULE MCRecovery ------------------------------
(* A small instance of Recovery for TLC; no symmetry, which liveness forbids. *)
EXTENDS Recovery, MCMatching, TLC

\* In the other flows one request at a time: what is asked is whether trying
\* again helps.
ASSUME OneRequest == \A r, s \in Requests : r = s

\* Two lists that the users match differently: the sender's b finds d taken by
\* a, while the receiver's c takes a and leaves b to d.
Order == [sender |-> <<"a", "b">>, receiver |-> <<"c", "d">>]

MCLists == [sender |-> {{}, {"a", "b"}}, receiver |-> {{}, {"c", "d"}}]

MCName == [x \in {"a", "b", "c", "d"} |-> x]

Score(x, y) ==
    CASE <<x, y>> = <<"a", "d">> -> Exact - 1
      [] <<x, y>> \in {<<"a", "c">>, <<"b", "d">>} -> Suggested + 1
      [] OTHER -> 0

\* TLC evaluates this table once.
Matches == [v \in {"sender", "receiver"},
            a \in MCLists["sender"], b \in MCLists["receiver"],
            d \in [{"a", "b"} \X {"c", "d"} -> {"none", "accepted", "rejected"}] |->
                Greedy(Order, Score, v, a \cup b, d)] @@ <<>>

MCResolved == Matches

\* Bounds of the flow of the overlaps.  One of its requests only looks, and
\* decisions are about the pair that the two users match differently.
OnlyLooks == overlapReq'["s2"].path \in {"none", "look"}
OnePair == overlapReq'["s1"].pair \in {<<>>, <<"a", "d">>}

\* Claims, of which the stored counts know nothing, are made in one order and
\* without interruption; two requests may still claim the same overlaps.
Claimers == {s \in Lookers : Overlap!At(s, "claim")}
ClaimsInOrder ==
    Claimers # {} =>
        \E s \in Claimers :
            /\ overlapReq'[s] # overlapReq[s]
            /\ overlapReq'[s].pending # {} =>
                   overlapReq'[s].pending =
                       overlapReq[s].pending \ {CHOOSE c \in overlapReq[s].pending : TRUE}

MCSpec == Init /\ [][Next /\ OnlyLooks /\ OnePair /\ ClaimsInOrder]_vars
==============================================================================
