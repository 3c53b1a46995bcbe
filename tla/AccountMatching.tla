---------------------------- MODULE AccountMatching ----------------------------
(***************************************************************************)
(* The accounts two users share: findMatchedAccounts, computed by either   *)
(* of the two for the same two lists and the same decisions.  It is        *)
(* greedy: in four passes each account of the viewer, in the order of the  *)
(* list, takes what is left of the other's, so that the two viewers may    *)
(* get different answers.                                                  *)
(*                                                                         *)
(* Accounts are their positions in the two lists, and a pair of them has   *)
(* the sender's first.  What the comparison of two names says is given:    *)
(* level[p] is 0 for nothing, then the confidence, from suggestions over   *)
(* automatic matches to equal names; it does not depend on who asks.  With *)
(* an empty list there is nothing to compute.                              *)
(***************************************************************************)
EXTENDS Integers, Sequences, FiniteSets

CONSTANTS
    SenderSize, ReceiverSize,   \* accounts of the two lists
    SuggestLevels, AutoLevels,  \* how many confidences are told apart
    MaxDecisions                \* bound: pairs that are decided

ASSUME MatchingAssumption ==
    /\ SenderSize \in Nat \ {0} /\ ReceiverSize \in Nat \ {0}
    /\ SuggestLevels \in Nat /\ AutoLevels \in Nat
    /\ MaxDecisions \in Nat

VARIABLES
    level,      \* what the comparison of each pair of names says
    decisions,  \* rows of account_match_decisions, oldest first
    pass,       \* the pass each viewer's computation is in
    at,         \* its position in that pass
    result,     \* the matches it has found, by type
    before,     \* history: each viewer's matches before the last decision
    last        \* history: the last decision, if any

vars == <<level, decisions, pass, at, result, before, last>>

Viewers == {"sender", "receiver"}
Pairs   == (1..SenderSize) \X (1..ReceiverSize)
Own(v, p)   == IF v = "sender" THEN p[1] ELSE p[2]
Their(v, p) == IF v = "sender" THEN p[2] ELSE p[1]
Share(p, q) == p[1] = q[1] \/ p[2] = q[2]
Size(v) == IF v = "sender" THEN SenderSize ELSE ReceiverSize

ExactLevel == SuggestLevels + AutoLevels + 1
Levels     == 0..ExactLevel

Passes     == {"accepted", "exact", "auto", "suggested"}
Decisions  == [pair : Pairs, decision : {"accepted", "rejected"}]
Results    == [Passes -> SUBSET Pairs]
Nothing    == [t \in Passes |-> {}]

Kind(p, t) ==
    CASE t = "exact"     -> level[p] = ExactLevel
      [] t = "auto"      -> level[p] > SuggestLevels
      [] t = "suggested" -> level[p] \in 1..SuggestLevels

DecidedAs(d) ==
    {p \in Pairs : \E k \in DOMAIN decisions : decisions[k] = [pair |-> p, decision |-> d]}

Matched(res)  == UNION {res[t] : t \in Passes}
Resolved(res) == UNION {res[t] : t \in Passes \ {"suggested"}}

------------------------------------------------------------------------------
(* The passes.  The computation is synchronous: one viewer's runs to its   *)
(* end before the other's.                                                 *)

Running(v, t) == pass[v] = t /\ (v = "receiver" => pass["sender"] = "done")

\* mutant: only the viewer's own account is looked up.
OwnFree(v, p) == \A q \in Matched(result[v]) : Own(v, p) # Own(v, q)

Free(v, p) == \A q \in Matched(result[v]) : ~Share(p, q)

Found(v, t, p) == result' = [result EXCEPT ![v][t] = @ \cup {p}]

After(t) ==
    CASE t = "accepted"  -> "exact"
      [] t = "exact"     -> "auto"
      [] t = "auto"      -> "suggested"
      [] t = "suggested" -> "done"

Length(v) == IF pass[v] = "accepted" THEN Len(decisions) ELSE Size(v)

NextPass(v) ==
    /\ pass' = [pass EXCEPT ![v] = After(@)]
    /\ at' = [at EXCEPT ![v] = 1]

\* mutant: the pass is left one position late.
StepPastEnd(v) ==
    /\ \/ at[v] <= Length(v) /\ at' = [at EXCEPT ![v] = @ + 1] /\ UNCHANGED pass
       \/ at[v] > Length(v) /\ NextPass(v)
    /\ UNCHANGED <<level, decisions, before, last>>

Step(v) ==
    /\ \/ at[v] < Length(v) /\ at' = [at EXCEPT ![v] = @ + 1] /\ UNCHANGED pass
       \/ at[v] = Length(v) /\ NextPass(v)
    /\ UNCHANGED <<level, decisions, before, last>>

\* The accepted pairs, in the order of their rows; the first of two wins.
AcceptPair(v) ==
    /\ Running(v, "accepted")
    /\ LET d == decisions[at[v]]
       IN  IF d.decision = "accepted" /\ Free(v, d.pair)
           THEN Found(v, "accepted", d.pair) ELSE UNCHANGED result
    /\ Step(v)

\* mutant: rejected pairs are matched like any other.
CandidatesRejected(v, t) ==
    {p \in Pairs : Own(v, p) = at[v] /\ Free(v, p) /\ Kind(p, t)}

\* mutant: an account that is matched may still be suggested.
CandidatesTaken(v, t) ==
    {p \in Pairs : /\ Own(v, p) = at[v] /\ Kind(p, t)
                   /\ IF t = "suggested" THEN OwnFree(v, p) ELSE Free(v, p)
                   /\ p \notin DecidedAs("rejected")}

\* mutant: a match at the automatic threshold itself is left out.
CandidatesAbove(v, t) ==
    {p \in Pairs : /\ Own(v, p) = at[v] /\ Free(v, p) /\ p \notin DecidedAs("rejected")
                   /\ Kind(p, t) /\ (t = "auto" => level[p] > SuggestLevels + 1)}

Candidates(v, t) ==
    {p \in Pairs : Own(v, p) = at[v] /\ Free(v, p)
                   /\ p \notin DecidedAs("rejected") /\ Kind(p, t)}

\* The highest confidence, and the first of several in the other's list.
IsBest(v, p, candidates) ==
    \A q \in candidates :
        level[q] < level[p] \/ (level[q] = level[p] /\ Their(v, p) <= Their(v, q))

MatchAccount(v, t) ==
    /\ Running(v, t)
    /\ \E p \in Candidates(v, t) : IsBest(v, p, Candidates(v, t)) /\ Found(v, t, p)
    /\ Step(v)

\* mutant: the pass ends at the first account without a candidate.
PassOverAll(v, t) ==
    /\ Running(v, t)
    /\ Candidates(v, t) = {}
    /\ NextPass(v)
    /\ UNCHANGED <<level, decisions, result, before, last>>

PassOver(v, t) ==
    /\ Running(v, t)
    /\ Candidates(v, t) = {}
    /\ Step(v)
    /\ UNCHANGED result

------------------------------------------------------------------------------
(* setMatchDecision, on any pair of accounts; everybody computes again. *)

Done == \A v \in Viewers : pass[v] = "done"

\* The row of the pair is updated.  (Deciding again as before changes nothing.)
Upserted(d) ==
    {[decisions EXCEPT ![k] = d] :
        k \in {k \in DOMAIN decisions :
                  /\ decisions[k].pair = d.pair /\ decisions[k] # d
                  /\ \A l \in DOMAIN decisions : decisions[l].pair = d.pair => l <= k}}

\* A pair without a row gets one, and so does one whose row is about accounts
\* that were replaced since by others of the same names (MatchDecisions).
Inserted(d) == IF Len(decisions) < MaxDecisions THEN {Append(decisions, d)} ELSE {}

Decide(d) ==
    /\ Done
    /\ decisions' \in Upserted(d) \cup Inserted(d)
    /\ before' = result /\ last' = <<d>>
    /\ pass' = [v \in Viewers |-> "accepted"]
    /\ at' = [v \in Viewers |-> 1]
    /\ result' = [v \in Viewers |-> Nothing]
    /\ UNCHANGED level

\* Accounts of equal names compare alike with every other.
Consistent ==
    \A p, q \in Pairs :
        level[p] = ExactLevel /\ level[q] = ExactLevel =>
            /\ level[<<p[1], q[2]>>] = level[<<q[1], p[2]>>]
            /\ p[1] = q[1] => \A i \in 1..SenderSize : level[<<i, p[2]>>] = level[<<i, q[2]>>]
            /\ p[2] = q[2] => \A j \in 1..ReceiverSize : level[<<p[1], j>>] = level[<<q[1], j>>]

Init ==
    /\ level \in [Pairs -> Levels] /\ Consistent
    /\ decisions = <<>>
    /\ pass = [v \in Viewers |-> "exact"]
    /\ at = [v \in Viewers |-> 1]
    /\ result = [v \in Viewers |-> Nothing]
    /\ before = result /\ last = <<>>

Compute(v) ==
    \/ AcceptPair(v)
    \/ \E t \in Passes \ {"accepted"} : MatchAccount(v, t) \/ PassOver(v, t)

Next == \/ \E v \in Viewers : Compute(v)
        \/ \E d \in Decisions : Decide(d)

Spec == Init /\ [][Next]_vars

------------------------------------------------------------------------------
(* Properties *)

\* The types of the inputs, the computations and the histories; a position is
\* one of the pass.
TypeOK ==
    /\ level \in [Pairs -> Levels]
    /\ decisions \in Seq(Decisions)
    /\ Len(decisions) <= MaxDecisions
    /\ pass \in [Viewers -> Passes \cup {"done"}]
    /\ at \in [Viewers -> Nat \ {0}]
    /\ \A v \in Viewers : pass[v] # "done" => at[v] <= Length(v)
    /\ result \in [Viewers -> Results] /\ before \in [Viewers -> Results]
    /\ last \in Seq(Decisions)

\* No account is counted or shown twice, in whatever pass it was matched.
OneToOne ==
    \A v \in Viewers : \A p, q \in Matched(result[v]) : Share(p, q) => p = q

\* The greedy passes leave nothing over: a pair that would count as resolved
\* by itself, and is not rejected, has an account in a resolved match.
NothingLeftOver ==
    \A v \in Viewers : pass[v] = "done" =>
        \A p \in Pairs \ DecidedAs("rejected") :
            Kind(p, "auto") => \E q \in Resolved(result[v]) : Share(p, q)

\* Both users see the same accepted matches, each of them one that a user
\* accepted, and what is matched without being accepted is not rejected.  (A
\* rejection does not undo an acceptance of the same names that was made before
\* the accounts were replaced.)
DecisionsBind ==
    Done =>
        /\ result["sender"]["accepted"] = result["receiver"]["accepted"]
        /\ \A v \in Viewers :
             /\ result[v]["accepted"] \subseteq DecidedAs("accepted")
             /\ Matched(result[v]) \cap DecidedAs("rejected") \subseteq result[v]["accepted"]

\* The two users may count differently, and one at most twice what the other
\* does: this is what the stored count moves by when they look in turns.
ViewsDifferBoundedly ==
    Done => \A v, w \in Viewers :
              Cardinality(Resolved(result[v])) <= 2 * Cardinality(Resolved(result[w]))

\* Accepting what the screen suggests adds that match to those that were
\* resolved for this user, and displaces none of them.
AcceptingASuggestionAdds ==
    \A v \in Viewers, p \in Pairs :
        Done /\ last = <<[pair |-> p, decision |-> "accepted"]>> /\ p \in before[v]["suggested"] =>
            Resolved(result[v]) = Resolved(before[v]) \cup {p}

\* Rejecting a match sets two accounts free, which may set off a chain of other
\* matches: the count moves by one at most all the same.
RejectingShiftsByOne ==
    \A v \in Viewers, p \in Pairs :
        Done /\ last = <<[pair |-> p, decision |-> "rejected"]>> =>
            Cardinality(Resolved(result[v])) - Cardinality(Resolved(before[v])) \in -1..1
==============================================================================
