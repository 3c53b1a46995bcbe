------------------------------ MODULE MCMatching ------------------------------
(* A value of the parameter Matching for TLC: the resolved matches of the   *)
(* greedy assignment that module AccountMatching computes step by step.     *)
EXTENDS Integers, Sequences
LOCAL INSTANCE SequencesExt

Exact == 4      \* scores: below it automatic, then suggested, then none
Suggested == 1

\* The accounts of each user in the order of their list, and how pairs compare.
Greedy(order, Score(_, _), viewer, listed, d) ==
    LET Pair(x, y) == IF viewer = "sender" THEN <<x, y>> ELSE <<y, x>>
        Mine   == SelectSeq(order[viewer], LAMBDA x : x \in listed)
        Theirs == SelectSeq(order[IF viewer = "sender" THEN "receiver" ELSE "sender"],
                            LAMBDA y : y \in listed)
        Free(m, p) == \A q \in m : q[1] # p[1] /\ q[2] # p[2]
        Compare(p) == Score(p[1], p[2])
        Better(best, p) == best = <<>> \/ Compare(p) > Compare(best)
        Best(m, x, Level(_)) ==
            FoldLeft(LAMBDA best, y :
                        LET p == Pair(x, y)
                        IN  IF Free(m, p) /\ d[p] # "rejected" /\ Level(Compare(p)) /\ Better(best, p)
                            THEN p ELSE best,
                     <<>>, Theirs)
        Pass(m, Level(_)) ==
            FoldLeft(LAMBDA done, x : done \cup ({Best(done, x, Level)} \ {<<>>}), m, Mine)
        accepted == {p \in {Pair(x, y) : <<x, y>> \in ToSet(Mine) \X ToSet(Theirs)} :
                        d[p] = "accepted"}
        Add(m, p) == IF Free(m, p) THEN m \cup {p} ELSE m
        decided == FoldLeft(Add, {}, SetToSeq(accepted))
        IsExact(n) == n = Exact
        IsAuto(n) == n \in Suggested + 1 .. Exact - 1
    IN  Pass(Pass(decided, IsExact), IsAuto)
==============================================================================
