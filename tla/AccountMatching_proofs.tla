------------------------ MODULE AccountMatching_proofs ------------------------
(* Theorems about AccountMatching, for lists of every length, every table of *)
(* similarities and any number of decisions.                                 *)
EXTENDS AccountMatching, FiniteSetTheorems, WellFoundedInduction, TLAPS

Accepted(v) == result[v]["accepted"]
AcceptedRow(k) == k \in DOMAIN decisions /\ decisions[k].decision = "accepted"

\* The row of the decisions that viewer v looks at next.
RowAt(v) == IF pass[v] = "accepted" THEN at[v] ELSE Len(decisions) + 1

\* The receiver computes after the sender.
ReceiverWaits ==
    pass["sender"] # "done" =>
        /\ result["receiver"] = Nothing
        /\ at["receiver"] = 1
        /\ \/ pass["receiver"] = "accepted"
           \/ pass["receiver"] = "exact" /\ decisions = <<>>

\* Suggestions are made last, and what is matched by its names is not rejected.
SuggestedLast ==
    \A v \in Viewers :
        pass[v] \in {"accepted", "exact", "auto"} => result[v]["suggested"] = {}
NamesMatch ==
    \A v \in Viewers : \A t \in Passes \ {"accepted"} :
        \A p \in result[v][t] : Kind(p, t) /\ p \notin DecidedAs("rejected")

\* Viewer v has tried to resolve the matches of its account of pair p.
Tried(v, p) ==
    \/ pass[v] \in {"suggested", "done"}
    \/ pass[v] = "auto" /\ Own(v, p) < at[v]
TriedAreTaken ==
    \A v \in Viewers : \A p \in Pairs \ DecidedAs("rejected") :
        Kind(p, "auto") /\ Tried(v, p) => \E q \in Resolved(result[v]) : Share(p, q)

\* The accepted pairs are matched before all others.
AcceptedFirst ==
    \A v \in Viewers : pass[v] = "accepted" =>
        \A t \in Passes \ {"accepted"} : result[v][t] = {}

\* What was accepted is from the rows that were looked at; a row the sender left
\* out shares an account with one taken before; and the receiver follows.
FromRows ==
    \A v \in Viewers : \A p \in Accepted(v) :
        \E k \in DOMAIN decisions : AcceptedRow(k) /\ k < RowAt(v) /\ decisions[k].pair = p
SenderRows ==
    \A k \in DOMAIN decisions : AcceptedRow(k) /\ k < RowAt("sender") =>
        \E l \in 1..k : /\ AcceptedRow(l) /\ decisions[l].pair \in Accepted("sender")
                        /\ Share(decisions[k].pair, decisions[l].pair)
TakenBy(j) ==
    {p \in Accepted("sender") :
        \E k \in DOMAIN decisions : AcceptedRow(k) /\ k < j /\ decisions[k].pair = p}
ReceiverFollows == Accepted("receiver") = TakenBy(RowAt("receiver"))

Matching  == OneToOne /\ SuggestedLast /\ NamesMatch /\ TriedAreTaken
Following == ReceiverWaits /\ AcceptedFirst /\ FromRows /\ SenderRows /\ ReceiverFollows

IInv == TypeOK /\ Matching /\ Following

------------------------------------------------------------------------------
(* The two lists, and one step of a computation *)

LEMMA SizesPositive == \A v \in Viewers : Size(v) \in Nat \ {0}
  BY MatchingAssumption DEF Size, Viewers

LEMMA OwnInList == \A v \in Viewers, p \in Pairs : Own(v, p) \in 1..Size(v)
  BY DEF Own, Size, Viewers, Pairs

LEMMA SharesOwn ==
    ASSUME NEW v \in Viewers, NEW p \in Pairs, NEW q \in Pairs, Own(v, p) = Own(v, q)
    PROVE  Share(p, q)
  BY DEF Own, Share, Viewers

\* A step leaves the inputs and the other viewer alone, and stays in the pass or
\* is the last one of it.
LEMMA StepTaken ==
    ASSUME TypeOK, NEW v \in Viewers, pass[v] \in Passes, Step(v)
    PROVE  /\ UNCHANGED <<level, decisions, before, last>>
           /\ pass' \in [Viewers -> Passes \cup {"done"}]
           /\ at' \in [Viewers -> Nat \ {0}]
           /\ \A w \in Viewers \ {v} : pass'[w] = pass[w] /\ at'[w] = at[w]
           /\ \/ at[v] < Length(v) /\ pass'[v] = pass[v] /\ at'[v] = at[v] + 1
              \/ at[v] = Length(v) /\ pass'[v] = After(pass[v]) /\ at'[v] = 1
  <1>1. After(pass[v]) \in Passes \cup {"done"}
    BY DEF Passes, After
  <1>2. pass \in [Viewers -> Passes \cup {"done"}] /\ at \in [Viewers -> Nat \ {0}]
    BY DEF TypeOK
  <1>3. CASE at[v] < Length(v) /\ at' = [at EXCEPT ![v] = @ + 1] /\ UNCHANGED pass
    BY <1>2, <1>3 DEF Step
  <1>4. CASE at[v] = Length(v) /\ NextPass(v)
    BY <1>1, <1>2, <1>4 DEF Step, NextPass
  <1> QED BY <1>3, <1>4 DEF Step

LEMMA LengthNat == ASSUME TypeOK, NEW v \in Viewers PROVE Length(v) \in Nat
  BY SizesPositive DEF Length, TypeOK

\* The position stays within the pass.
LEMMA StepInPass ==
    ASSUME TypeOK, NEW v \in Viewers, pass[v] \in Passes, Step(v), NEW w \in Viewers,
           (pass[w] # "done")'
    PROVE  (at[w] <= Length(w))'
  <1>1. CASE w # v
    BY <1>1, StepTaken DEF Length, TypeOK
  <1>2. CASE w = v /\ at[v] < Length(v) /\ pass'[v] = pass[v] /\ at'[v] = at[v] + 1
    <2>1. Length(v)' = Length(v)
      BY <1>2, StepTaken DEF Length
    <2> QED BY <1>2, <2>1, LengthNat DEF TypeOK
  <1>3. CASE w = v /\ at[v] = Length(v) /\ pass'[v] = After(pass[v]) /\ at'[v] = 1
    <2>1. After(pass[v]) # "accepted"
      BY DEF Passes, After
    <2>2. Length(v)' = Size(v)
      BY <1>3, <2>1 DEF Length
    <2> QED BY <1>3, <2>2, SizesPositive
  <1> QED BY <1>1, <1>2, <1>3, StepTaken

\* A pair that is found is added to the results of its pass.
LEMMA FoundIsAdded ==
    ASSUME TypeOK, NEW v \in Viewers, NEW t \in Passes, NEW p \in Pairs, Found(v, t, p)
    PROVE  /\ result' \in [Viewers -> Results]
           /\ \A w \in Viewers \ {v} : result'[w] = result[w]
           /\ \A s \in Passes \ {t} : result'[v][s] = result[v][s]
           /\ result'[v][t] = result[v][t] \cup {p}
  BY DEF TypeOK, Results, Found

LEMMA FoundIsMatched ==
    ASSUME TypeOK, NEW v \in Viewers, NEW t \in Passes, NEW p \in Pairs, Found(v, t, p)
    PROVE  /\ Matched(result'[v]) = Matched(result[v]) \cup {p}
           /\ Resolved(result[v]) \subseteq Resolved(result'[v])
           /\ t # "suggested" => p \in Resolved(result'[v])
  BY FoundIsAdded DEF Matched, Resolved

LEMMA MatchedArePairs ==
    ASSUME TypeOK, NEW v \in Viewers
    PROVE  Matched(result[v]) \subseteq Pairs /\ Resolved(result[v]) \subseteq Matched(result[v])
  BY DEF TypeOK, Results, Matched, Resolved

LEMMA CandidatesArePairs ==
    \A v, t, p : p \in Candidates(v, t) =>
        /\ p \in Pairs /\ Own(v, p) = at[v] /\ Free(v, p)
        /\ p \notin DecidedAs("rejected") /\ Kind(p, t)
  BY DEF Candidates

\* What a step of a computation does, in whichever pass.
Adds(v, t, p) ==
    /\ Found(v, t, p) /\ Free(v, p) /\ p \in Pairs
    /\ IF t = "accepted" THEN AcceptedRow(at[v]) /\ p = decisions[at[v]].pair
       ELSE p \in Candidates(v, t)

AddsNone(v, t) ==
    /\ UNCHANGED result
    /\ IF t = "accepted"
       THEN AcceptedRow(at[v]) => decisions[at[v]].pair \in Pairs /\ ~Free(v, decisions[at[v]].pair)
       ELSE Candidates(v, t) = {}

LEMMA Computes ==
    ASSUME TypeOK, NEW v \in Viewers, Compute(v)
    PROVE  /\ pass[v] \in Passes /\ Running(v, pass[v]) /\ Step(v)
           /\ AddsNone(v, pass[v]) \/ \E p \in Pairs : Adds(v, pass[v], p)
  <1>1. CASE AcceptPair(v)
    <2>1. pass[v] = "accepted" /\ Running(v, "accepted") /\ Step(v) /\ "accepted" \in Passes
      BY <1>1 DEF AcceptPair, Running, Passes
    <2>2. at[v] \in DOMAIN decisions /\ decisions[at[v]] \in Decisions
      <3>1. decisions \in Seq(Decisions) /\ at[v] \in Nat \ {0} /\ at[v] <= Length(v)
        BY <2>1 DEF TypeOK
      <3>2. at[v] \in 1..Len(decisions)
        BY <2>1, <3>1 DEF Length
      <3> QED BY <3>1, <3>2
    <2>3. CASE decisions[at[v]].decision = "accepted" /\ Free(v, decisions[at[v]].pair)
      <3>1. Adds(v, "accepted", decisions[at[v]].pair)
        BY <1>1, <2>2, <2>3 DEF AcceptPair, Adds, AcceptedRow, Decisions
      <3> QED BY <2>1, <2>2, <3>1 DEF Decisions
    <2>4. CASE ~(decisions[at[v]].decision = "accepted" /\ Free(v, decisions[at[v]].pair))
      <3>1. AddsNone(v, "accepted")
        BY <1>1, <2>2, <2>4 DEF AcceptPair, AddsNone, AcceptedRow, Decisions
      <3> QED BY <2>1, <3>1
    <2> QED BY <2>3, <2>4
  <1>2. ASSUME NEW t \in Passes \ {"accepted"}, MatchAccount(v, t)
        PROVE  pass[v] = t /\ Running(v, t) /\ Step(v) /\ \E p \in Pairs : Adds(v, t, p)
    BY <1>2, CandidatesArePairs DEF MatchAccount, Running, Adds
  <1>3. ASSUME NEW t \in Passes \ {"accepted"}, PassOver(v, t)
        PROVE  pass[v] = t /\ Running(v, t) /\ Step(v) /\ AddsNone(v, t)
    BY <1>3 DEF PassOver, Running, AddsNone
  <1> QED BY <1>1, <1>2, <1>3 DEF Compute

\* Everybody starts over with a decision.
LEMMA Decides ==
    ASSUME TypeOK, NEW d \in Decisions, Decide(d)
    PROVE  /\ decisions' \in Seq(Decisions) /\ Len(decisions') \in 1..MaxDecisions
           /\ pass' = [v \in Viewers |-> "accepted"] /\ at' = [v \in Viewers |-> 1]
           /\ result' = [v \in Viewers |-> Nothing]
           /\ level' = level /\ before' = result /\ last' = <<d>>
  <1>1. ASSUME decisions' \in Upserted(d)
        PROVE  decisions' \in Seq(Decisions) /\ Len(decisions') \in 1..MaxDecisions
    <2>1. PICK k \in DOMAIN decisions : decisions' = [decisions EXCEPT ![k] = d]
      BY <1>1 DEF Upserted
    <2>2. decisions \in Seq(Decisions) /\ Len(decisions) <= MaxDecisions
      BY DEF TypeOK
    <2> QED BY <2>1, <2>2, MatchingAssumption
  <1>2. ASSUME decisions' \in Inserted(d)
        PROVE  decisions' \in Seq(Decisions) /\ Len(decisions') \in 1..MaxDecisions
    <2>1. decisions' = Append(decisions, d) /\ Len(decisions) < MaxDecisions
      BY <1>2 DEF Inserted
    <2>2. decisions \in Seq(Decisions) /\ Len(decisions) <= MaxDecisions
      BY DEF TypeOK
    <2> QED BY <2>1, <2>2, MatchingAssumption
  <1> QED BY <1>1, <1>2 DEF Decide

------------------------------------------------------------------------------
(* Type correctness *)

\* Decisions, computations and histories keep their types, and no position
\* leaves its pass.
LEMMA TypePreserved == TypeOK /\ [Next]_vars => TypeOK'
  <1> SUFFICES ASSUME TypeOK, [Next]_vars PROVE TypeOK'
    OBVIOUS
  <1>1. ASSUME NEW v \in Viewers, Compute(v) PROVE TypeOK'
    <2>1. pass[v] \in Passes /\ Step(v) /\ (UNCHANGED result \/ \E p \in Pairs : Found(v, pass[v], p))
      BY <1>1, Computes DEF Adds, AddsNone
    <2>2. result' \in [Viewers -> Results]
      BY <2>1, FoundIsAdded DEF TypeOK
    <2>3. \A w \in Viewers : (pass[w] # "done" => at[w] <= Length(w))'
      BY <2>1, StepInPass
    <2> QED BY <2>1, <2>2, <2>3, StepTaken DEF TypeOK
  <1>2. ASSUME NEW d \in Decisions, Decide(d) PROVE TypeOK'
    <2>1. Nothing \in Results
      BY DEF Nothing, Results
    <2>2. \A v \in Viewers : (at[v] <= Length(v))'
      BY <1>2, Decides DEF Length
    <2>3. (level \in [Pairs -> Levels])' /\ (before \in [Viewers -> Results])'
      BY <1>2, Decides DEF TypeOK
    <2>6. <<d>> \in Seq(Decisions)
      OBVIOUS
    <2>7. (last \in Seq(Decisions))'
      BY <1>2, <2>6, Decides
    <2>4. (pass \in [Viewers -> Passes \cup {"done"}])' /\ (at \in [Viewers -> Nat \ {0}])'
          /\ (result \in [Viewers -> Results])'
      BY <1>2, <2>1, Decides DEF Passes
    <2>5. (decisions \in Seq(Decisions) /\ Len(decisions) <= MaxDecisions)'
      BY <1>2, Decides, MatchingAssumption
    <2> QED BY <2>2, <2>3, <2>4, <2>5, <2>7 DEF TypeOK
  <1>3. CASE UNCHANGED vars
    BY <1>3 DEF vars, TypeOK, Length
  <1> QED BY <1>1, <1>2, <1>3 DEF Next

LEMMA InitTyped == Init => TypeOK
  <1> SUFFICES ASSUME Init PROVE TypeOK
    OBVIOUS
  <1>1. \A v \in Viewers : at[v] <= Length(v)
    BY SizesPositive DEF Init, Length
  <1>2. Nothing \in Results /\ "exact" \in Passes
    BY DEF Nothing, Results, Passes
  <1> QED BY <1>1, <1>2, MatchingAssumption DEF Init, TypeOK

\* The inputs, the computations and the histories keep their types.
THEOREM MatchingTyped == Spec => []TypeOK
  BY InitTyped, TypePreserved, PTL DEF Spec

------------------------------------------------------------------------------
(* The matching *)

LEMMA SameInputs ==
    ASSUME UNCHANGED <<level, decisions>>
    PROVE  /\ \A d : DecidedAs(d)' = DecidedAs(d)
           /\ \A p, t : Kind(p, t)' = Kind(p, t)
  BY DEF DecidedAs, Kind

LEMMA NewlyTried ==
    ASSUME TypeOK, NEW v \in Viewers, pass[v] \in Passes, Step(v),
           NEW p \in Pairs, Tried(v, p)', ~Tried(v, p)
    PROVE  pass[v] = "auto" /\ Own(v, p) = at[v]
  <1>1. Own(v, p) \in 1..Size(v) /\ Size(v) \in Nat /\ at[v] \in Nat
    BY OwnInList, SizesPositive DEF TypeOK
  <1>2. CASE at[v] < Length(v) /\ pass'[v] = pass[v] /\ at'[v] = at[v] + 1
    BY <1>1, <1>2 DEF Tried
  <1>3. CASE at[v] = Length(v) /\ pass'[v] = After(pass[v]) /\ at'[v] = 1
    <2>1. pass[v] = "auto"
      BY <1>1, <1>3 DEF Tried, Passes, After
    <2> QED BY <1>1, <1>3, <2>1 DEF Tried, Length
  <1> QED BY <1>2, <1>3, StepTaken

LEMMA StillNoSuggestion ==
    ASSUME TypeOK, NEW v \in Viewers, pass[v] \in Passes, Step(v),
           pass'[v] \in {"accepted", "exact", "auto"}
    PROVE  pass[v] \in {"accepted", "exact", "auto"}
  BY StepTaken DEF Passes, After

LEMMA TakenOrFree ==
    ASSUME TypeOK, SuggestedLast, NEW v \in Viewers, pass[v] = "auto", NEW p \in Pairs,
           ~Free(v, p)
    PROVE  \E q \in Resolved(result[v]) : Share(p, q)
  BY DEF SuggestedLast, Free, Matched, Resolved

LEMMA ShareSymmetric == \A p, q : Share(p, q) => Share(q, p)
  BY DEF Share

\* A computation that finds nothing at its position.
LEMMA NoneAdded ==
    ASSUME TypeOK, Matching, NEW v \in Viewers, pass[v] \in Passes, Step(v),
           AddsNone(v, pass[v])
    PROVE  Matching'
  <1>1. result' = result /\ UNCHANGED <<level, decisions>>
    BY StepTaken DEF AddsNone
  <1>2. \A w \in Viewers \ {v} : pass'[w] = pass[w] /\ at'[w] = at[w]
    BY StepTaken
  <1>3. OneToOne'
    BY <1>1 DEF Matching, OneToOne
  <1>4. SuggestedLast'
    BY <1>1, <1>2, StillNoSuggestion DEF Matching, SuggestedLast
  <1>5. NamesMatch'
    BY <1>1, SameInputs DEF Matching, NamesMatch
  <1>6. ASSUME NEW w \in Viewers, NEW p \in Pairs \ DecidedAs("rejected"), Kind(p, "auto"), Tried(w, p)'
        PROVE  \E q \in Resolved(result[w]) : Share(p, q)
    <2>1. CASE Tried(w, p)
      BY <1>6, <2>1 DEF Matching, TriedAreTaken
    <2>2. CASE ~Tried(w, p)
      <3>1. w = v
        BY <1>2, <1>6, <2>2 DEF Tried
      <3>2. pass[v] = "auto" /\ Own(v, p) = at[v]
        BY <1>6, <2>2, <3>1, NewlyTried
      <3>3. ~Free(v, p)
        BY <1>6, <3>1, <3>2 DEF AddsNone, Candidates
      <3> QED BY <1>6, <3>1, <3>2, <3>3, TakenOrFree DEF Matching
    <2> QED BY <2>1, <2>2
  <1>7. TriedAreTaken'
    BY <1>1, <1>6, SameInputs DEF TriedAreTaken
  <1> QED BY <1>3, <1>4, <1>5, <1>7 DEF Matching

\* One that finds a pair.
LEMMA PairAdded ==
    ASSUME TypeOK, Matching, NEW v \in Viewers, pass[v] \in Passes, Step(v),
           NEW p \in Pairs, Adds(v, pass[v], p)
    PROVE  Matching'
  <1> DEFINE t == pass[v]
  <1> HIDE DEF t
  <1>0. t \in Passes /\ Found(v, t, p) /\ Free(v, p) /\ Adds(v, t, p)
    BY DEF Adds, t
  <1>1. UNCHANGED <<level, decisions>> /\ \A w \in Viewers \ {v} : pass'[w] = pass[w] /\ at'[w] = at[w]
    BY StepTaken
  <1>2. /\ \A w \in Viewers \ {v} : result'[w] = result[w]
        /\ \A s \in Passes \ {t} : result'[v][s] = result[v][s]
        /\ result'[v][t] = result[v][t] \cup {p}
    BY <1>0, FoundIsAdded
  <1>3. /\ Matched(result'[v]) = Matched(result[v]) \cup {p}
        /\ Resolved(result[v]) \subseteq Resolved(result'[v])
        /\ t # "suggested" => p \in Resolved(result'[v])
    BY <1>0, FoundIsMatched
  <1>4. OneToOne'
    <2>1. \A q \in Matched(result[v]) : ~Share(p, q) /\ ~Share(q, p)
      BY <1>0, ShareSymmetric DEF Free
    <2>2. \A w \in Viewers \ {v} : Matched(result'[w]) = Matched(result[w])
      BY <1>2
    <2> QED BY <1>3, <2>1, <2>2 DEF Matching, OneToOne
  <1>5. SuggestedLast'
    <2>1. pass'[v] \in {"accepted", "exact", "auto"} => t # "suggested"
      BY StillNoSuggestion DEF t
    <2>2. pass'[v] \in {"accepted", "exact", "auto"} => result[v]["suggested"] = {}
      BY StillNoSuggestion DEF Matching, SuggestedLast
    <2> QED BY <1>1, <1>2, <2>1, <2>2 DEF Matching, SuggestedLast, Passes
  <1>6. NamesMatch'
    <2>1. t # "accepted" => Kind(p, t) /\ p \notin DecidedAs("rejected")
      BY <1>0, CandidatesArePairs DEF Adds
    <2> QED BY <1>1, <1>2, <2>1, SameInputs DEF Matching, NamesMatch
  <1>7. ASSUME NEW w \in Viewers, NEW q \in Pairs \ DecidedAs("rejected"), Kind(q, "auto"), Tried(w, q)'
        PROVE  \E x \in Resolved(result'[w]) : Share(q, x)
    <2>1. CASE Tried(w, q)
      BY <1>2, <1>3, <1>7, <2>1 DEF Matching, TriedAreTaken
    <2>2. CASE ~Tried(w, q)
      <3>1. w = v
        BY <1>1, <1>7, <2>2 DEF Tried
      <3>2. t = "auto" /\ Own(v, q) = at[v]
        BY <1>7, <2>2, <3>1, NewlyTried DEF t
      <3>3. Own(v, p) = at[v] /\ p \in Resolved(result'[v])
        BY <1>0, <1>3, <3>2, CandidatesArePairs DEF Adds
      <3> QED BY <1>7, <3>1, <3>2, <3>3, SharesOwn
    <2> QED BY <2>1, <2>2
  <1>8. TriedAreTaken'
    BY <1>1, <1>7, SameInputs DEF TriedAreTaken
  <1> QED BY <1>4, <1>5, <1>6, <1>8 DEF Matching

\* Nothing is matched by the computations of a new decision.
LEMMA Restarted ==
    ASSUME TypeOK, NEW d \in Decisions, Decide(d)
    PROVE  Matching'
  <1>1. \A v \in Viewers : pass'[v] = "accepted" /\ result'[v] = Nothing
    BY Decides
  <1>2. Matched(Nothing) = {}
    BY DEF Matched, Nothing
  <1>3. OneToOne'
    BY <1>1, <1>2 DEF OneToOne
  <1>4. SuggestedLast' /\ NamesMatch'
    BY <1>1 DEF SuggestedLast, NamesMatch, Nothing, Passes
  <1>5. TriedAreTaken'
    BY <1>1 DEF TriedAreTaken, Tried
  <1> QED BY <1>3, <1>4, <1>5 DEF Matching

LEMMA MatchingPreserved ==
    ASSUME TypeOK, Matching, [Next]_vars
    PROVE  Matching'
  <1>1. ASSUME NEW v \in Viewers, Compute(v) PROVE Matching'
    BY <1>1, Computes, NoneAdded, PairAdded
  <1>2. ASSUME NEW d \in Decisions, Decide(d) PROVE Matching'
    BY <1>2, Restarted
  <1>3. CASE UNCHANGED vars
    BY <1>3 DEF vars, Matching, OneToOne, SuggestedLast, NamesMatch, TriedAreTaken, Tried,
                Kind, DecidedAs
  <1> QED BY <1>1, <1>2, <1>3 DEF Next

LEMMA InitMatching == Init => Matching
  <1> SUFFICES ASSUME Init PROVE Matching
    OBVIOUS
  <1>1. \A v \in Viewers : pass[v] = "exact" /\ result[v] = Nothing
    BY DEF Init
  <1>2. Matched(Nothing) = {} /\ \A t \in Passes : Nothing[t] = {}
    BY DEF Matched, Nothing
  <1> QED BY <1>1, <1>2 DEF Matching, OneToOne, SuggestedLast, NamesMatch, TriedAreTaken, Tried, Passes

------------------------------------------------------------------------------
(* The accepted pairs *)

LEMMA RowAdvances ==
    ASSUME TypeOK, NEW v \in Viewers, pass[v] \in Passes, Step(v)
    PROVE  /\ RowAt(v) \in Nat
           /\ RowAt(v)' = IF pass[v] = "accepted" THEN RowAt(v) + 1 ELSE RowAt(v)
           /\ \A w \in Viewers \ {v} : RowAt(w)' = RowAt(w)
  <1>1. Len(decisions) \in Nat /\ at[v] \in Nat /\ After("accepted") # "accepted"
    BY DEF TypeOK, After
  <1>2. pass[v] # "accepted" => pass'[v] # "accepted"
    BY StepTaken DEF After, Passes
  <1> QED BY <1>1, <1>2, StepTaken DEF RowAt, Length

LEMMA AcceptedAdded ==
    ASSUME TypeOK, NEW v \in Viewers, pass[v] \in Passes, NEW p \in Pairs,
           Adds(v, pass[v], p)
    PROVE  /\ \A w \in Viewers \ {v} : Accepted(w)' = Accepted(w)
           /\ Accepted(v)' = IF pass[v] = "accepted" THEN Accepted(v) \cup {p} ELSE Accepted(v)
  <1>1. "accepted" \in Passes
    BY DEF Passes
  <1>2. /\ \A w \in Viewers \ {v} : result'[w] = result[w]
        /\ \A s \in Passes \ {pass[v]} : result'[v][s] = result[v][s]
        /\ result'[v][pass[v]] = result[v][pass[v]] \cup {p}
    BY FoundIsAdded DEF Adds
  <1> QED BY <1>1, <1>2 DEF Accepted

\* Rows and acceptances only add up during a computation.
LEMMA AcceptedFromRows ==
    ASSUME TypeOK, AcceptedFirst, FromRows, NEW v \in Viewers, Compute(v)
    PROVE  AcceptedFirst' /\ FromRows'
  <1> DEFINE t == pass[v]
  <1>1. t \in Passes /\ Step(v) /\ UNCHANGED decisions
        /\ \A w \in Viewers \ {v} : pass'[w] = pass[w]
    BY Computes, StepTaken
  <1>2. pass'[v] = "accepted" => t = "accepted"
    BY <1>1, StepTaken DEF After, Passes
  <1>3. \A w \in Viewers : RowAt(w) \in Nat /\ RowAt(w)' \in Nat /\ RowAt(w) <= RowAt(w)'
    BY <1>1, RowAdvances DEF RowAt, TypeOK
  <1>4. CASE AddsNone(v, t)
    <2>1. UNCHANGED <<result, decisions>> /\ DOMAIN decisions \subseteq Nat
      BY <1>1, <1>4 DEF AddsNone, TypeOK
    <2>2. AcceptedFirst'
      BY <1>1, <1>2, <2>1 DEF AcceptedFirst
    <2>3. FromRows'
      <3>1. \A w \in Viewers, k \in DOMAIN decisions : k < RowAt(w) => k < RowAt(w)'
        BY <1>3, <2>1
      <3> QED BY <2>1, <3>1 DEF FromRows, Accepted, AcceptedRow
    <2> QED BY <2>2, <2>3
  <1>5. ASSUME NEW p \in Pairs, Adds(v, t, p) PROVE AcceptedFirst' /\ FromRows'
    <2>1. AcceptedFirst'
      <3>1. /\ \A w \in Viewers \ {v} : result'[w] = result[w]
            /\ \A s \in Passes \ {t} : result'[v][s] = result[v][s]
        BY <1>1, <1>5, FoundIsAdded DEF Adds
      <3> QED BY <1>1, <1>2, <3>1 DEF AcceptedFirst
    <2>2. ASSUME NEW w \in Viewers, NEW q \in Accepted(w)
          PROVE  \E k \in DOMAIN decisions : AcceptedRow(k) /\ k < RowAt(w)' /\ decisions[k].pair = q
      <3>1. PICK k \in DOMAIN decisions : AcceptedRow(k) /\ k < RowAt(w) /\ decisions[k].pair = q
        BY <2>2 DEF FromRows
      <3>2. k \in Nat
        BY DEF TypeOK
      <3> QED BY <1>3, <3>1, <3>2
    <2>3. t = "accepted" => AcceptedRow(at[v]) /\ at[v] < RowAt(v)' /\ decisions[at[v]].pair = p
      BY <1>1, <1>5, RowAdvances DEF Adds, RowAt, TypeOK
    <2>4. FromRows'
      BY <1>1, <1>5, <2>2, <2>3, AcceptedAdded DEF FromRows, AcceptedRow
    <2> QED BY <2>1, <2>4
  <1> QED BY <1>4, <1>5, Computes

\* The sender takes an accepted pair, or one that shares an account is taken.
LEMMA SenderTakes ==
    ASSUME TypeOK, Following, Compute("sender")
    PROVE  SenderRows'
  <1> DEFINE v == "sender"
             t == pass[v]
  <1>1. v \in Viewers /\ t \in Passes /\ Step(v) /\ UNCHANGED decisions
    BY Computes, StepTaken DEF Viewers
  <1>2. RowAt(v) \in Nat /\ RowAt(v)' = IF t = "accepted" THEN RowAt(v) + 1 ELSE RowAt(v)
    BY <1>1, RowAdvances
  <1>3. Accepted(v) \subseteq Accepted(v)'
    BY <1>1, Computes, AcceptedAdded DEF AddsNone, Accepted
  <1>4. ASSUME NEW k \in DOMAIN decisions, AcceptedRow(k), k < RowAt(v)'
        PROVE  \E l \in 1..k : /\ AcceptedRow(l) /\ decisions[l].pair \in Accepted(v)'
                               /\ Share(decisions[k].pair, decisions[l].pair)
    <2>0. k \in Nat \ {0}
      BY DEF TypeOK
    <2>1. CASE k < RowAt(v)
      BY <1>3, <1>4, <2>1 DEF Following, SenderRows
    <2>2. CASE ~(k < RowAt(v))
      <3>1. t = "accepted" /\ k = at[v]
        BY <1>2, <1>4, <2>0, <2>2 DEF RowAt
      <3> DEFINE p == decisions[k].pair
      <3>2. CASE \E q \in Pairs : Adds(v, t, q)
        <4>1. p \in Accepted(v)'
          BY <1>1, <3>1, <3>2, AcceptedAdded DEF Adds
        <4> QED BY <1>4, <2>0, <4>1 DEF Share
      <3>3. CASE AddsNone(v, t)
        <4>1. PICK q \in Matched(result[v]) : Share(p, q)
          BY <1>4, <3>1, <3>3 DEF AddsNone, Free
        <4>2. q \in Accepted(v)
          BY <1>1, <3>1, <4>1 DEF Following, AcceptedFirst, Matched, Accepted
        <4>3. PICK l \in DOMAIN decisions : AcceptedRow(l) /\ l < RowAt(v) /\ decisions[l].pair = q
          BY <1>1, <4>2 DEF Following, FromRows
        <4>4. l \in 1..k
          BY <2>0, <3>1, <4>3 DEF RowAt, TypeOK
        <4> QED BY <1>3, <4>1, <4>2, <4>3, <4>4
      <3> QED BY <1>1, <3>2, <3>3, Computes
    <2> QED BY <2>1, <2>2
  <1> QED BY <1>1, <1>4 DEF SenderRows, AcceptedRow

\* The receiver looks at the rows again, and takes what the sender took.
LEMMA ReceiverTakes ==
    ASSUME TypeOK, OneToOne, Following, Compute("receiver")
    PROVE  SenderRows' /\ ReceiverFollows'
  <1> DEFINE v == "receiver"
             t == pass[v]
             j == at[v]
  <1>1. v \in Viewers /\ "sender" \in Viewers \ {v} /\ t \in Passes /\ Step(v) /\ UNCHANGED decisions
    BY Computes, StepTaken DEF Viewers
  <1>2. pass["sender"] = "done"
    BY <1>1, Computes DEF Running
  <1>3. Accepted("sender")' = Accepted("sender") /\ RowAt("sender")' = RowAt("sender")
    BY <1>1, Computes, AcceptedAdded, RowAdvances DEF AddsNone, Accepted
  <1>4. SenderRows'
    BY <1>1, <1>3 DEF Following, SenderRows, AcceptedRow
  <1>5. RowAt("sender") = Len(decisions) + 1 /\ decisions \in Seq(Decisions) /\ j \in Nat
    BY <1>1, <1>2 DEF RowAt, TypeOK
  <1>6. RowAt(v) \in Nat /\ RowAt(v)' = IF t = "accepted" THEN RowAt(v) + 1 ELSE RowAt(v)
    BY <1>1, RowAdvances
  <1>7. Accepted(v) = TakenBy(RowAt(v)) /\ \A i : TakenBy(i)' = TakenBy(i)
    BY <1>1, <1>3 DEF Following, ReceiverFollows, TakenBy, AcceptedRow
  <1>8. ASSUME t # "accepted" PROVE ReceiverFollows'
    BY <1>1, <1>6, <1>7, <1>8, Computes, AcceptedAdded DEF AddsNone, Accepted, ReceiverFollows
  <1>9. ASSUME t = "accepted" PROVE ReceiverFollows'
    <2> DEFINE p == decisions[j].pair
    <2>1. TakenBy(j + 1) = TakenBy(j) \cup
             {q \in Accepted("sender") : AcceptedRow(j) /\ q = p}
      <3>1. \A k \in DOMAIN decisions : k < j + 1 <=> k < j \/ k = j
        BY <1>5
      <3> QED BY <3>1 DEF TakenBy, AcceptedRow
    <2>2. RowAt(v) = j
      BY <1>9 DEF RowAt
    <2>3. CASE \E q \in Pairs : Adds(v, t, q)
      <3>1. AcceptedRow(j) /\ Free(v, p) /\ Accepted(v)' = Accepted(v) \cup {p}
        BY <1>1, <1>9, <2>3, AcceptedAdded DEF Adds
      <3>2. p \in Accepted("sender")
        <4>1. j < RowAt("sender") /\ j \in DOMAIN decisions
          BY <1>5, <3>1 DEF AcceptedRow
        <4>2. PICK l \in 1..j : /\ AcceptedRow(l) /\ decisions[l].pair \in Accepted("sender")
                                /\ Share(p, decisions[l].pair)
          BY <3>1, <4>1 DEF Following, SenderRows
        <4>3. CASE l = j
          BY <4>2, <4>3
        <4>4. CASE l < j
          <5>1. decisions[l].pair \in Accepted(v)
            BY <1>7, <2>2, <4>2, <4>4 DEF TakenBy, AcceptedRow
          <5>2. decisions[l].pair \in Matched(result[v])
            BY <5>1 DEF Accepted, Matched, Passes
          <5> QED BY <3>1, <4>2, <5>2 DEF Free
        <4> QED BY <1>5, <4>2, <4>3, <4>4
      <3> QED BY <1>6, <1>7, <1>9, <2>1, <2>2, <3>1, <3>2 DEF ReceiverFollows
    <2>4. CASE AddsNone(v, t)
      <3>1. Accepted(v)' = Accepted(v)
        BY <2>4 DEF AddsNone, Accepted
      <3>2. ASSUME AcceptedRow(j), p \in Accepted("sender")
            PROVE  p \in Accepted(v)
        <4>1. PICK q \in Matched(result[v]) : Share(p, q)
          BY <1>9, <2>4, <3>2 DEF AddsNone, Free
        <4>2. q \in Accepted(v)
          BY <1>1, <1>9, <4>1 DEF Following, AcceptedFirst, Matched, Accepted
        <4>3. q \in Accepted("sender")
          BY <1>7, <4>2 DEF TakenBy
        <4>4. p \in Matched(result["sender"]) /\ q \in Matched(result["sender"])
          BY <3>2, <4>3 DEF Accepted, Matched, Passes
        <4> QED BY <1>1, <4>1, <4>2, <4>4 DEF OneToOne
      <3> QED BY <1>6, <1>7, <1>9, <2>1, <2>2, <3>1, <3>2 DEF ReceiverFollows
    <2> QED BY <1>1, <2>3, <2>4, Computes
  <1> QED BY <1>4, <1>8, <1>9

LEMMA FollowingPreserved ==
    ASSUME TypeOK, OneToOne, Following, [Next]_vars
    PROVE  Following'
  <1>1. CASE Compute("sender")
    <2>1. pass["sender"] \in Passes /\ Step("sender") /\ {"sender", "receiver"} \subseteq Viewers
      BY <1>1, Computes DEF Viewers
    <2>2. pass["sender"] # "done"
      BY <2>1 DEF Passes
    <2>3. UNCHANGED <<decisions, pass["receiver"], at["receiver"]>>
      BY <2>1, StepTaken
    <2>4. result'["receiver"] = result["receiver"]
      BY <1>1, <2>1, Computes, FoundIsAdded DEF AddsNone, Adds
    <2>5. ReceiverWaits'
      BY <2>2, <2>3, <2>4 DEF Following, ReceiverWaits
    <2>6. RowAt("receiver")' = 1 /\ Accepted("receiver")' = {}
      BY <2>2, <2>3, <2>4 DEF Following, ReceiverWaits, RowAt, Accepted, Nothing, Passes
    <2>7. ReceiverFollows'
      <3>1. \A k \in DOMAIN decisions : ~(k < 1)
        BY DEF TypeOK
      <3> QED BY <2>3, <2>6, <3>1 DEF ReceiverFollows, TakenBy
    <2> QED BY <1>1, <2>1, <2>5, <2>7, AcceptedFromRows, SenderTakes DEF Following
  <1>2. CASE Compute("receiver")
    <2>1. pass["sender"] = "done" /\ "sender" \in Viewers \ {"receiver"} /\ "receiver" \in Viewers
      BY <1>2, Computes DEF Running, Viewers
    <2>2. ReceiverWaits'
      BY <1>2, <2>1, Computes, StepTaken DEF ReceiverWaits
    <2> QED BY <1>2, <2>1, <2>2, AcceptedFromRows, ReceiverTakes DEF Following
  <1>3. ASSUME NEW d \in Decisions, Decide(d) PROVE Following'
    <2>1. \A v \in Viewers : /\ RowAt(v)' = 1 /\ pass'[v] = "accepted" /\ at'[v] = 1
                             /\ result'[v] = Nothing
      BY <1>3, Decides DEF RowAt
    <2>2. "accepted" \in Passes /\ \A t \in Passes : Nothing[t] = {}
      BY DEF Nothing, Passes
    <2>3. ReceiverWaits' /\ AcceptedFirst' /\ FromRows'
      BY <2>1, <2>2 DEF ReceiverWaits, AcceptedFirst, FromRows, Accepted, Viewers
    <2>4. SenderRows'
      <3>1. \A k \in DOMAIN decisions' : ~(k < 1)
        BY <1>3, Decides
      <3> QED BY <2>1, <3>1 DEF SenderRows, Viewers
    <2>5. ReceiverFollows'
      <3>1. Accepted("receiver")' = {} /\ Accepted("sender")' = {}
        BY <2>1, <2>2 DEF Accepted, Viewers
      <3> QED BY <3>1 DEF ReceiverFollows, TakenBy
    <2> QED BY <2>3, <2>4, <2>5 DEF Following
  <1>4. CASE UNCHANGED vars
    BY <1>4 DEF vars, Following, ReceiverWaits, AcceptedFirst, FromRows, SenderRows,
                ReceiverFollows, TakenBy, RowAt, Accepted, AcceptedRow
  <1> QED BY <1>1, <1>2, <1>3, <1>4 DEF Next, Viewers

LEMMA InitFollowing == Init => Following
  <1> SUFFICES ASSUME Init PROVE Following
    OBVIOUS
  <1>1. \A v \in Viewers : pass[v] = "exact" /\ at[v] = 1 /\ result[v] = Nothing
    BY DEF Init
  <1>2. decisions = <<>> /\ DOMAIN decisions = {}
    BY DEF Init
  <1>3. "accepted" \in Passes /\ \A t \in Passes : Nothing[t] = {}
    BY DEF Nothing, Passes
  <1>4. \A v \in Viewers : Accepted(v) = {}
    BY <1>1, <1>3 DEF Accepted
  <1>5. ReceiverWaits /\ AcceptedFirst
    BY <1>1, <1>2 DEF ReceiverWaits, AcceptedFirst, Viewers
  <1>6. FromRows /\ SenderRows /\ ReceiverFollows
    BY <1>2, <1>4 DEF FromRows, SenderRows, ReceiverFollows, TakenBy, Viewers
  <1> QED BY <1>5, <1>6 DEF Following

------------------------------------------------------------------------------
(* The invariant and what follows from it *)

LEMMA Invariant == Spec => []IInv
  <1>1. Init => IInv
    BY InitTyped, InitMatching, InitFollowing DEF IInv
  <1>2. IInv /\ [Next]_vars => IInv'
    BY TypePreserved, MatchingPreserved, FollowingPreserved DEF IInv, Matching
  <1> QED BY <1>1, <1>2, PTL DEF Spec

\* No account is in two matches of a viewer.
THEOREM MatchesOneToOne == Spec => []OneToOne
  <1>1. IInv => OneToOne
    BY DEF IInv, Matching
  <1> QED BY <1>1, Invariant, PTL

LEMMA NothingLeft == IInv => NothingLeftOver
  BY DEF IInv, Matching, TriedAreTaken, Tried, NothingLeftOver

\* The greedy passes leave no pair over that would resolve by itself.
THEOREM MatchesMaximal == Spec => []NothingLeftOver
  BY NothingLeft, Invariant, PTL

LEMMA SameAccepted ==
    ASSUME IInv, Done
    PROVE  Accepted("sender") = Accepted("receiver")
  <1>1. RowAt("receiver") = Len(decisions) + 1 /\ RowAt("sender") = Len(decisions) + 1
    BY DEF Done, RowAt, Viewers
  <1>2. \A p \in Accepted("sender") : p \in TakenBy(Len(decisions) + 1)
    BY <1>1 DEF IInv, Following, FromRows, TakenBy, Viewers
  <1> QED BY <1>1, <1>2 DEF IInv, Following, ReceiverFollows, TakenBy

LEMMA AcceptedDecided ==
    ASSUME IInv, NEW v \in Viewers
    PROVE  Accepted(v) \subseteq DecidedAs("accepted")
  <1>1. SUFFICES ASSUME NEW p \in Accepted(v) PROVE p \in DecidedAs("accepted")
    OBVIOUS
  <1>2. PICK k \in DOMAIN decisions : AcceptedRow(k) /\ decisions[k].pair = p
    BY DEF IInv, Following, FromRows
  <1>3. decisions[k] \in Decisions
    BY DEF IInv, TypeOK
  <1>4. p \in Pairs /\ decisions[k] = [pair |-> p, decision |-> "accepted"]
    BY <1>2, <1>3 DEF AcceptedRow, Decisions
  <1> QED BY <1>4 DEF DecidedAs

\* Both viewers take the same accepted pairs, and respect the rejections.
THEOREM DecisionsTheorem == Spec => []DecisionsBind
  <1>1. ASSUME IInv PROVE DecisionsBind
    <2>1. \A v \in Viewers : Matched(result[v]) \cap DecidedAs("rejected") \subseteq Accepted(v)
      BY <1>1 DEF IInv, Matching, NamesMatch, Matched, Accepted
    <2> QED BY <1>1, <2>1, SameAccepted, AcceptedDecided DEF DecisionsBind, Accepted
  <1> QED BY <1>1, Invariant, PTL

\* Every resolved match of one viewer shares an account with one of the other.
LEMMA ResolvedMeet ==
    ASSUME IInv, Done, NEW v \in Viewers, NEW w \in Viewers, NEW p \in Resolved(result[v])
    PROVE  \E q \in Resolved(result[w]) : Share(p, q)
  <1>1. CASE p \in Accepted(v)
    <2>1. p \in Accepted(w)
      BY <1>1, SameAccepted DEF Viewers
    <2> QED BY <2>1 DEF Accepted, Resolved, Passes, Share
  <1>2. CASE p \notin Accepted(v)
    <2>1. PICK t \in {"exact", "auto"} : p \in result[v][t]
      BY <1>2 DEF Resolved, Passes, Accepted
    <2>2. p \in Pairs /\ Kind(p, t) /\ p \notin DecidedAs("rejected")
      BY <2>1 DEF IInv, Matching, NamesMatch, Passes, TypeOK, Results
    <2>3. Kind(p, "auto")
      <3>1. CASE t = "exact"
        <4>1. level[p] = SuggestLevels + AutoLevels + 1
          BY <2>2, <3>1 DEF Kind, ExactLevel
        <4> QED BY <4>1, MatchingAssumption DEF Kind
      <3> QED BY <2>1, <2>2, <3>1
    <2> QED BY <2>2, <2>3, NothingLeft DEF NothingLeftOver, Done
  <1> QED BY <1>1, <1>2

\* Two viewers never count more than twice what the other counts: a match of one
\* shares an account with a match of the other, which has two accounts.
THEOREM ViewsTheorem == Spec => []ViewsDifferBoundedly
  <1>1. ASSUME IInv, Done, NEW v \in Viewers, NEW w \in Viewers
        PROVE  Cardinality(Resolved(result[v])) <= 2 * Cardinality(Resolved(result[w]))
    <2> DEFINE S == Resolved(result[v])
               T == Resolved(result[w])
               meets == [p \in S |-> CHOOSE q \in T : Share(p, q)]
               side(p) == IF p[1] = meets[p][1] THEN 1 ELSE 2
               f == [p \in S |-> <<meets[p], side(p)>>]
    <2>1. \A p \in S : meets[p] \in T /\ Share(p, meets[p])
      BY <1>1, ResolvedMeet
    <2>2. f \in [S -> T \X (1..2)]
      BY <2>1
    <2>3. ASSUME NEW p \in S, NEW q \in S, f[p] = f[q] PROVE p = q
      <3> HIDE DEF meets, S, T
      <3>1. meets[p] = meets[q] /\ side(p) = side(q)
        BY <2>3
      <3>2. p[1] = q[1] \/ p[2] = q[2]
        BY <2>1, <3>1 DEF Share
      <3> USE DEF S
      <3>3. p \in Matched(result[v]) /\ q \in Matched(result[v])
        BY DEF Resolved, Matched
      <3> QED BY <1>1, <3>2, <3>3 DEF IInv, Matching, OneToOne, Share
    <2>4. IsFiniteSet(Pairs)
      <3>1. IsFiniteSet(1..SenderSize) /\ IsFiniteSet(1..ReceiverSize)
        BY FS_Interval, MatchingAssumption
      <3> QED BY <3>1, FS_Product DEF Pairs
    <2>5. T \subseteq Pairs
      BY <1>1, MatchedArePairs DEF IInv
    <2>6. IsFiniteSet(T) /\ Cardinality(T) \in Nat
      BY <2>4, <2>5, FS_Subset, FS_CardinalityType
    <2>7. IsFiniteSet(T \X (1..2)) /\ Cardinality(T \X (1..2)) = Cardinality(T) * 2
      <3>1. IsFiniteSet(1..2) /\ Cardinality(1..2) = 2 - 1 + 1
        BY FS_Interval, 1 \in Int, 2 \in Int, ~(1 > 2)
      <3> QED BY <2>6, <3>1, FS_Product
    <2>8. f \in Injection(S, T \X (1..2))
      BY <2>2, <2>3 DEF Injection, IsInjective
    <2>9. Cardinality(S) <= Cardinality(T \X (1..2))
      BY <2>7, <2>8, FS_Injection
    <2> QED BY <2>6, <2>7, <2>9
  <1>2. IInv => ViewsDifferBoundedly
    BY <1>1 DEF ViewsDifferBoundedly
  <1> QED BY <1>2, Invariant, PTL

------------------------------------------------------------------------------
(* The matches of a viewer, explained by the rows of the decisions: what     *)
(* every position of the first three passes was offered and what it took.    *)

Resolving == {"accepted", "exact", "auto"}

FreeOf(S, p) == \A q \in S : ~Share(p, q)

Decided(rows, d, k, p) == k \in DOMAIN rows /\ rows[k] = [pair |-> p, decision |-> d]
RejectedIn(rows) == {p \in Pairs : \E k \in DOMAIN rows : Decided(rows, "rejected", k, p)}

\* The pairs that position j of pass t may take, and those taken before it.
Offered(rows, v, t, j) ==
    IF t = "accepted" THEN {p \in Pairs : Decided(rows, "accepted", j, p)}
    ELSE {p \in Pairs : Own(v, p) = j /\ p \notin RejectedIn(rows) /\ Kind(p, t)}
Sofar(rows, res, v, t, j) ==
    IF t = "accepted"
    THEN {p \in res["accepted"] : \E k \in DOMAIN rows : k < j /\ Decided(rows, "accepted", k, p)}
    ELSE IF t = "exact" THEN res["accepted"] \cup {p \in res["exact"] : Own(v, p) < j}
    ELSE res["accepted"] \cup res["exact"] \cup {p \in res["auto"] : Own(v, p) < j}

\* From S to T by taking the best of the pairs offered, if one is free.
Takes(v, S, offered, T) ==
    LET free == {p \in offered : FreeOf(S, p)}
    IN  \/ free = {} /\ T = S
        \/ \E p \in free : IsBest(v, p, free) /\ T = S \cup {p}
TakesAt(rows, res, v, t, j) ==
    Takes(v, Sofar(rows, res, v, t, j), Offered(rows, v, t, j), Sofar(rows, res, v, t, j + 1))

\* Viewer v has gone past position j of pass t.
Behind(v, t, j) ==
    \/ pass[v] = t /\ j < at[v]
    \/ t = "accepted" /\ pass[v] \in {"exact", "auto", "suggested", "done"}
    \/ t = "exact" /\ pass[v] \in {"auto", "suggested", "done"}
    \/ t = "auto" /\ pass[v] \in {"suggested", "done"}

Greedy ==
    \A v \in Viewers, t \in Resolving, j \in Nat \ {0} :
        Behind(v, t, j) => TakesAt(decisions, result[v], v, t, j)
FoundBehind ==
    \A v \in Viewers, t \in {"exact", "auto"} :
        \A p \in result[v][t] : Behind(v, t, Own(v, p))
SuggestionsFree ==
    \A v \in Viewers : \A p \in result[v]["suggested"] :
        FreeOf(Resolved(result[v]), p) /\ p \notin RejectedIn(decisions)

\* A whole computation over these rows.
Complete(rows, res, v) ==
    /\ res \in Results
    /\ \A t \in Resolving, j \in Nat \ {0} : TakesAt(rows, res, v, t, j)
    /\ \A p \in res["accepted"] : \E k \in DOMAIN rows : Decided(rows, "accepted", k, p)
    /\ \A p, q \in Matched(res) : Share(p, q) => p = q
    /\ \A p \in res["suggested"] : FreeOf(Resolved(res), p) /\ p \notin RejectedIn(rows)

\* The rows before the last decision, and what both viewers found in them.
DecidedOver(rows, d) ==
    \/ decisions = Append(rows, d)
    \/ \E k \in DOMAIN rows :
          rows[k].pair = d.pair /\ rows[k] # d /\ decisions = [rows EXCEPT ![k] = d]
BeforeExplained ==
    last # <<>> =>
        \E rows \in Seq(Decisions), d \in Decisions :
            /\ last = <<d>> /\ DecidedOver(rows, d)
            /\ \A v \in Viewers : Complete(rows, before[v], v)

Explained == Greedy /\ FoundBehind /\ SuggestionsFree /\ BeforeExplained

\* Nothing is offered beyond the end of a pass.
LEMMA BeyondTheEnd ==
    ASSUME NEW rows \in Seq(Decisions), NEW res \in Results,
           NEW v \in Viewers, NEW t \in Resolving, NEW j \in Nat \ {0},
           j > IF t = "accepted" THEN Len(rows) ELSE Size(v)
    PROVE  TakesAt(rows, res, v, t, j)
  <1>1. Len(rows) \in Nat /\ DOMAIN rows = 1..Len(rows) /\ Size(v) \in Nat
    BY SizesPositive
  <1>2. Offered(rows, v, t, j) = {}
    BY <1>1, OwnInList DEF Offered, Decided
  <1>3. Sofar(rows, res, v, t, j + 1) = Sofar(rows, res, v, t, j)
    <2>1. \A k \in DOMAIN rows : t = "accepted" => k < j + 1 /\ k < j
      BY <1>1
    <2>2. \A p \in Pairs : t # "accepted" => Own(v, p) < j + 1 /\ Own(v, p) < j
      BY <1>1, OwnInList
    <2>3. res["exact"] \subseteq Pairs /\ res["auto"] \subseteq Pairs
      BY DEF Results, Passes
    <2> QED BY <2>1, <2>2, <2>3 DEF Sofar
  <1> QED BY <1>2, <1>3 DEF TakesAt, Takes

\* What the running pass has taken so far is everything that is matched.
LEMMA SofarIsMatched ==
    ASSUME IInv, FoundBehind, NEW v \in Viewers, pass[v] \in Resolving
    PROVE  /\ Sofar(decisions, result[v], v, pass[v], at[v]) = Matched(result[v])
           /\ Resolved(result[v]) = Matched(result[v])
  <1> DEFINE t == pass[v]
             R == result[v]
  <1>1. R["suggested"] = {} /\ (t = "accepted" => R["exact"] = {} /\ R["auto"] = {})
    BY DEF IInv, Matching, SuggestedLast, Following, AcceptedFirst, Resolving, Passes
  <1>2. /\ t = "exact" => R["auto"] = {}
        /\ \A p \in R["exact"] : t = "exact" => Own(v, p) < at[v]
        /\ \A p \in R["auto"] : t = "auto" => Own(v, p) < at[v]
    BY DEF FoundBehind, Behind
  <1>3. \A p \in R["accepted"] : t = "accepted" =>
            \E k \in DOMAIN decisions : k < at[v] /\ Decided(decisions, "accepted", k, p)
    <2>1. SUFFICES ASSUME NEW p \in R["accepted"], t = "accepted"
                   PROVE  \E k \in DOMAIN decisions : k < at[v] /\ Decided(decisions, "accepted", k, p)
      OBVIOUS
    <2>2. PICK k \in DOMAIN decisions : AcceptedRow(k) /\ k < RowAt(v) /\ decisions[k].pair = p
      BY <2>1 DEF IInv, Following, FromRows, Accepted
    <2>3. decisions[k] \in Decisions
      BY DEF IInv, TypeOK
    <2> QED BY <2>1, <2>2, <2>3 DEF RowAt, Decided, AcceptedRow, Decisions
  <1>4. Matched(R) = R["accepted"] \cup R["exact"] \cup R["auto"] \cup R["suggested"]
        /\ Resolved(R) = R["accepted"] \cup R["exact"] \cup R["auto"]
    BY DEF Matched, Resolved, Passes
  <1>5. Sofar(decisions, R, v, t, at[v]) = R["accepted"] \cup R["exact"] \cup R["auto"]
    <2>1. CASE t = "accepted"
      <3>1. Sofar(decisions, R, v, t, at[v]) = R["accepted"]
        BY <1>3, <2>1 DEF Sofar
      <3> QED BY <1>1, <2>1, <3>1
    <2>2. CASE t = "exact"
      <3>1. Sofar(decisions, R, v, t, at[v]) = R["accepted"] \cup R["exact"]
        BY <1>2, <2>2 DEF Sofar
      <3> QED BY <1>2, <2>2, <3>1
    <2>3. CASE t = "auto"
      <3>1. {p \in R["auto"] : Own(v, p) < at[v]} = R["auto"]
        BY <1>2, <2>3
      <3> QED BY <2>3, <3>1 DEF Sofar
    <2> QED BY <2>1, <2>2, <2>3 DEF Resolving
  <1> QED BY <1>1, <1>4, <1>5

LEMMA FreeIsFree == \A v \in Viewers : \A p : Free(v, p) <=> FreeOf(Matched(result[v]), p)
  BY DEF Free, FreeOf

\* A step of a computation takes what its position is offered.
LEMMA StepTakes ==
    ASSUME IInv, FoundBehind, NEW v \in Viewers, Compute(v), pass[v] \in Resolving
    PROVE  Takes(v, Matched(result[v]), Offered(decisions, v, pass[v], at[v]), Matched(result'[v]))
  <1> DEFINE t == pass[v]
             S == Matched(result[v])
             K == Offered(decisions, v, t, at[v])
  <1>0. TypeOK /\ t \in Passes
    BY Computes DEF IInv
  <1>1. CASE t = "accepted"
    <2>1. at[v] \in DOMAIN decisions /\ decisions[at[v]] \in Decisions
      <3>1. decisions \in Seq(Decisions) /\ at[v] \in Nat \ {0} /\ at[v] <= Length(v)
        BY <1>0, <1>1 DEF TypeOK
      <3>2. at[v] \in 1..Len(decisions)
        BY <1>1, <3>1 DEF Length
      <3> QED BY <3>1, <3>2
    <2> DEFINE p == decisions[at[v]].pair
    <2>2. p \in Pairs /\ (K = IF AcceptedRow(at[v]) THEN {p} ELSE {})
      BY <1>1, <2>1 DEF Offered, Decided, AcceptedRow, Decisions
    <2>3. CASE AddsNone(v, t)
      <3>1. Matched(result'[v]) = S /\ {q \in K : FreeOf(S, q)} = {}
        BY <1>1, <2>2, <2>3, FreeIsFree DEF AddsNone
      <3> QED BY <3>1 DEF Takes
    <2>4. CASE \E q \in Pairs : Adds(v, t, q)
      <3>1. Adds(v, t, p) /\ AcceptedRow(at[v])
        BY <1>1, <2>4 DEF Adds
      <3>2. Matched(result'[v]) = S \cup {p} /\ Free(v, p)
        BY <1>0, <2>2, <3>1, FoundIsMatched DEF Adds
      <3>3. {q \in K : FreeOf(S, q)} = {p}
        BY <2>2, <3>1, <3>2, FreeIsFree
      <3>4. IsBest(v, p, {p})
        BY <2>2, MatchingAssumption DEF IsBest, Their, Pairs
      <3> QED BY <3>2, <3>3, <3>4 DEF Takes
    <2> QED BY <1>0, <2>3, <2>4, Computes
  <1>2. CASE t \in {"exact", "auto"}
    <2>1. {p \in K : FreeOf(S, p)} = Candidates(v, t)
      BY <1>2, FreeIsFree DEF Offered, Candidates, RejectedIn, DecidedAs, Decided
    <2>2. \/ MatchAccount(v, t)
          \/ PassOver(v, t)
      BY <1>2 DEF Compute, AcceptPair, MatchAccount, PassOver, Running
    <2>3. CASE MatchAccount(v, t)
      <3>1. PICK p \in Candidates(v, t) : IsBest(v, p, Candidates(v, t)) /\ Found(v, t, p)
        BY <2>3 DEF MatchAccount
      <3>2. Matched(result'[v]) = S \cup {p}
        BY <1>0, <3>1, CandidatesArePairs, FoundIsMatched
      <3> QED BY <2>1, <3>1, <3>2 DEF Takes
    <2>4. CASE PassOver(v, t)
      BY <2>1, <2>4 DEF PassOver, Takes
    <2> QED BY <2>2, <2>3, <2>4
  <1> QED BY <1>1, <1>2 DEF Resolving

\* What a viewer has gone past stays behind, and a step leaves one position.
LEMMA BehindStays ==
    ASSUME TypeOK, NEW v \in Viewers, pass[v] \in Passes, Step(v),
           NEW t \in Resolving, NEW j \in Nat \ {0}
    PROVE  /\ Behind(v, t, j) => Behind(v, t, j)'
           /\ t = pass[v] /\ j = at[v] => Behind(v, t, j)'
           /\ Behind(v, t, j)' /\ ~Behind(v, t, j) =>
                  t = pass[v] /\ (j = at[v] \/ j > Length(v))
           /\ t = pass[v] => at[v] \in Nat \ {0} /\ at[v] <= Length(v)
  <1>1. at[v] \in Nat \ {0} /\ Length(v) \in Nat /\ at[v] <= Length(v)
    BY LengthNat DEF TypeOK, Passes
  <1>2. CASE at[v] < Length(v) /\ pass'[v] = pass[v] /\ at'[v] = at[v] + 1
    <2>1. \A i \in Nat : i < at'[v] <=> i < at[v] \/ i = at[v]
      BY <1>1, <1>2
    <2>2. ASSUME NEW i \in Nat
          PROVE  Behind(v, t, i)' <=> Behind(v, t, i) \/ (pass[v] = t /\ i = at[v])
      <3>1. i < at'[v] <=> i < at[v] \/ i = at[v]
        BY <2>1
      <3> HIDE <2>1
      <3> QED BY <1>2, <3>1, Zenon DEF Behind
    <2> QED BY <1>1, <2>2
  <1>3. CASE at[v] = Length(v) /\ pass'[v] = After(pass[v]) /\ at'[v] = 1
    BY <1>1, <1>3 DEF Behind, After, Passes, Resolving
  <1> QED BY <1>1, <1>2, <1>3, StepTaken

LEMMA SofarInResult ==
    ASSUME NEW rows, NEW res, NEW v, NEW t, NEW j
    PROVE  Sofar(rows, res, v, t, j) \subseteq Matched(res)
  BY DEF Sofar, Matched, Passes

\* A pair found now was not left behind.
LEMMA FoundIsNew ==
    ASSUME IInv, Greedy, NEW v \in Viewers, NEW p \in Pairs, Free(v, p), NEW k \in DOMAIN decisions,
           Behind(v, "accepted", k)
    PROVE  ~Decided(decisions, "accepted", k, p)
  <1> SUFFICES ASSUME Decided(decisions, "accepted", k, p) PROVE FALSE
    OBVIOUS
  <1>1. k \in Nat \ {0} /\ decisions[k] = [pair |-> p, decision |-> "accepted"]
    BY DEF IInv, TypeOK, Decided
  <1>2. TakesAt(decisions, result[v], v, "accepted", k)
    BY <1>1 DEF Greedy, Resolving
  <1>3. Offered(decisions, v, "accepted", k) = {p}
    BY <1>1 DEF Offered, Decided
  <1>4. FreeOf(Matched(result[v]), p) /\ Share(p, p)
    BY FreeIsFree DEF Share
  <1>5. FreeOf(Sofar(decisions, result[v], v, "accepted", k), p)
        /\ p \notin Sofar(decisions, result[v], v, "accepted", k + 1)
    BY <1>4, SofarInResult DEF FreeOf
  <1> QED BY <1>2, <1>3, <1>5 DEF TakesAt, Takes

\* What was taken before this position does not change.
LEMMA SofarStays ==
    ASSUME IInv, Greedy, NEW v \in Viewers, Compute(v),
           NEW t \in Resolving, NEW j \in Nat,
           IF t = pass[v] THEN j <= at[v] ELSE Behind(v, t, j)
    PROVE  Sofar(decisions, result'[v], v, t, j) = Sofar(decisions, result[v], v, t, j)
  <1>1. TypeOK /\ pass[v] \in Passes /\ at[v] \in Nat
    BY Computes DEF IInv, TypeOK
  <1>2. CASE AddsNone(v, pass[v])
    BY <1>2 DEF AddsNone
  <1>3. ASSUME NEW p \in Pairs, Adds(v, pass[v], p)
        PROVE  Sofar(decisions, result'[v], v, t, j) = Sofar(decisions, result[v], v, t, j)
    <2> DEFINE R == result[v]
               Q == result'[v]
    <2>2. /\ \A s \in Passes \ {pass[v]} : Q[s] = R[s]
          /\ Q[pass[v]] = R[pass[v]] \cup {p}
          /\ Free(v, p)
      BY <1>1, <1>3, FoundIsAdded DEF Adds
    <2> HIDE DEF R, Q
    <2>3. CASE pass[v] = t /\ t = "accepted"
      <3>1. ASSUME NEW k \in DOMAIN decisions, k < j PROVE ~Decided(decisions, "accepted", k, p)
        <4>1. k \in Nat \ {0}
          BY <1>1 DEF TypeOK
        <4>2. k < at[v]
          BY <1>1, <2>3, <3>1, <4>1
        <4> QED BY <1>3, <2>2, <2>3, <4>2, FoundIsNew DEF Behind
      <3> QED BY <2>2, <2>3, <3>1 DEF Sofar, Q, R
    <2>4. CASE pass[v] = t /\ t # "accepted"
      <3>1. Own(v, p) = at[v]
        BY <1>3, <2>4, CandidatesArePairs DEF Adds
      <3>2. ~(Own(v, p) < j)
        BY <1>1, <2>4, <3>1
      <3> QED BY <2>2, <2>4, <3>2 DEF Sofar, Resolving, Passes, Q, R
    <2>5. CASE pass[v] # t
      <3>1. \/ t = "accepted" /\ pass[v] # "accepted"
            \/ t = "exact" /\ pass[v] \notin {"accepted", "exact"}
            \/ t = "auto" /\ pass[v] \notin Resolving
        BY <2>5 DEF Behind, Resolving
      <3> QED BY <2>2, <3>1 DEF Sofar, Resolving, Passes, Q, R
    <2> QED BY <2>3, <2>4, <2>5
  <1> QED BY <1>1, <1>2, <1>3, Computes

\* A position that is left has taken the best of what it was offered.
LEMMA LeftBehind ==
    ASSUME IInv, FoundBehind, Greedy, NEW v \in Viewers, Compute(v), pass[v] \in Resolving
    PROVE  TakesAt(decisions, result'[v], v, pass[v], at[v])
  <1> DEFINE t == pass[v]
             R == result[v]
             Q == result'[v]
             j == at[v]
  <1>0. TypeOK /\ t \in Passes /\ j \in Nat
    BY Computes DEF IInv, TypeOK
  <1>1. Sofar(decisions, Q, v, t, j) = Matched(R) /\ Sofar(decisions, R, v, t, j) = Matched(R)
    BY <1>0, SofarIsMatched, SofarStays
  <1>2. Takes(v, Matched(R), Offered(decisions, v, t, j), Matched(Q))
    BY StepTakes
  <1>3. Sofar(decisions, Q, v, t, j + 1) = Matched(Q)
    <2>1. Sofar(decisions, Q, v, t, j) \subseteq Sofar(decisions, Q, v, t, j + 1)
      <3>1. \A k \in DOMAIN decisions : k < j => k < j + 1
        BY <1>0 DEF TypeOK
      <3>2. \A p \in Pairs : Own(v, p) < j => Own(v, p) < j + 1
        BY <1>0, OwnInList, SizesPositive
      <3>3. Q["exact"] \subseteq Pairs /\ Q["auto"] \subseteq Pairs
        BY <1>0, Computes, FoundIsAdded DEF AddsNone, Adds, TypeOK, Results, Passes
      <3> QED BY <3>1, <3>2, <3>3 DEF Sofar
    <2>2. Sofar(decisions, Q, v, t, j + 1) \subseteq Matched(Q)
      BY SofarInResult
    <2>3. CASE AddsNone(v, t)
      <3>1. Q = R
        BY <2>3 DEF AddsNone
      <3> QED BY <1>1, <2>1, <2>2, <3>1
    <2>4. ASSUME NEW p \in Pairs, Adds(v, t, p)
          PROVE  Sofar(decisions, Q, v, t, j + 1) = Matched(Q)
      <3>0. Found(v, t, p)
        BY <2>4 DEF Adds
      <3>1. Q[t] = R[t] \cup {p} /\ Matched(Q) = Matched(R) \cup {p}
        BY <1>0, <3>0, FoundIsAdded, FoundIsMatched
      <3>2. p \in Sofar(decisions, Q, v, t, j + 1)
        <4>1. CASE t = "accepted"
          <5>1. AcceptedRow(j) /\ p = decisions[j].pair
            BY <2>4, <4>1 DEF Adds
          <5>2. decisions[j] \in Decisions
            BY <1>0, <5>1 DEF AcceptedRow, TypeOK
          <5>3. Decided(decisions, "accepted", j, p)
            BY <5>1, <5>2 DEF Decided, AcceptedRow, Decisions
          <5> QED BY <1>0, <3>1, <4>1, <5>3 DEF Sofar, Decided
        <4>2. CASE t # "accepted"
          <5>1. Own(v, p) = j
            BY <2>4, <4>2, CandidatesArePairs DEF Adds
          <5> QED BY <1>0, <3>1, <4>2, <5>1 DEF Sofar, Resolving
        <4> QED BY <4>1, <4>2
      <3> QED BY <1>1, <2>1, <2>2, <3>1, <3>2
    <2> QED BY <1>0, <2>3, <2>4, Computes
  <1> QED BY <1>1, <1>2, <1>3 DEF TakesAt

\* A position behind a viewer has taken what it was offered, and still has.
LEMMA GreedyStep ==
    ASSUME IInv, TypeOK', Greedy, FoundBehind, NEW v \in Viewers, Compute(v)
    PROVE  Greedy'
  <1>0. TypeOK /\ pass[v] \in Passes /\ Step(v)
    BY Computes DEF IInv
  <1>1. UNCHANGED <<level, decisions>> /\ \A w \in Viewers \ {v} : pass'[w] = pass[w] /\ at'[w] = at[w]
    BY <1>0, StepTaken
  <1>2. \A w \in Viewers \ {v} : result'[w] = result[w]
    BY <1>0, Computes, FoundIsAdded DEF AddsNone, Adds
  <1>3. ASSUME NEW w \in Viewers, NEW t \in Resolving, NEW j \in Nat \ {0}, Behind(w, t, j)'
        PROVE  TakesAt(decisions, result'[w], w, t, j)
    <2>1. CASE w # v
      <3>1. Behind(w, t, j)
        BY <1>1, <1>3, <2>1 DEF Behind
      <3> QED BY <1>2, <2>1, <3>1 DEF Greedy
    <2>2. CASE w = v /\ Behind(v, t, j)
      <3>1. Sofar(decisions, result'[v], v, t, j) = Sofar(decisions, result[v], v, t, j)
        BY <1>0, <2>2, SofarStays DEF Behind, TypeOK
      <3>2. Sofar(decisions, result'[v], v, t, j + 1) = Sofar(decisions, result[v], v, t, j + 1)
        <4>1. IF t = pass[v] THEN j + 1 <= at[v] ELSE Behind(v, t, j + 1)
          <5>1. at[v] \in Nat
            BY <1>0 DEF TypeOK
          <5>2. t = pass[v] => j < at[v]
            BY <2>2 DEF Behind, Resolving
          <5> QED BY <2>2, <5>1, <5>2 DEF Behind
        <4> QED BY <4>1, SofarStays
      <3>3. TakesAt(decisions, result[v], v, t, j)
        BY <2>2 DEF Greedy
      <3> QED BY <2>2, <3>1, <3>2, <3>3 DEF TakesAt
    <2>3. CASE w = v /\ ~Behind(v, t, j)
      <3>1. t = pass[v] /\ (j = at[v] \/ j > Length(v))
        BY <1>0, <1>3, <2>3, BehindStays
      <3>2. CASE j = at[v]
        BY <2>3, <3>1, <3>2, LeftBehind
      <3>3. CASE j > Length(v)
        <4>1. decisions \in Seq(Decisions) /\ result'[v] \in Results
          BY <1>0 DEF TypeOK
        <4> QED BY <2>3, <3>1, <3>3, <4>1, BeyondTheEnd DEF Length
      <3> QED BY <3>1, <3>2, <3>3
    <2> QED BY <2>1, <2>2, <2>3
  <1>4. ASSUME NEW w \in Viewers, NEW t \in Resolving, NEW j \in Nat \ {0}, Behind(w, t, j)'
        PROVE  TakesAt(decisions, result[w], w, t, j)'
    <2>1. Offered(decisions, w, t, j)' = Offered(decisions, w, t, j)
      BY <1>1, SameInputs DEF Offered
    <2>2. TakesAt(decisions, result'[w], w, t, j)
      BY <1>3, <1>4
    <2> QED BY <1>1, <2>1, <2>2, Zenon DEF TakesAt, Takes, IsBest
  <1> QED BY <1>4 DEF Greedy

\* A pair that is found has its place behind the viewer, and a suggestion made
\* now shares no account with what is resolved.
LEMMA FoundStep ==
    ASSUME IInv, FoundBehind, SuggestionsFree, NEW v \in Viewers, Compute(v)
    PROVE  FoundBehind' /\ SuggestionsFree'
  <1>0. TypeOK /\ pass[v] \in Passes /\ Step(v)
    BY Computes DEF IInv
  <1>1. UNCHANGED <<level, decisions>> /\ \A w \in Viewers \ {v} : pass'[w] = pass[w] /\ at'[w] = at[w]
    BY <1>0, StepTaken
  <1>2. \A w \in Viewers \ {v} : result'[w] = result[w]
    BY <1>0, Computes, FoundIsAdded DEF AddsNone, Adds
  <1>3. \A w \in Viewers, t \in Passes : result[w][t] \subseteq Pairs
    BY <1>0 DEF TypeOK, Results
  <1>4. ASSUME NEW w \in Viewers, NEW t \in {"exact", "auto"}, NEW p \in result'[w][t]
        PROVE  Behind(w, t, Own(w, p))'
    <2>0. t \in Resolving /\ t \in Passes
      BY DEF Resolving, Passes
    <2>1. CASE p \in result[w][t]
      <3>1. Behind(w, t, Own(w, p)) /\ Own(w, p) \in Nat \ {0}
        BY <1>3, <2>0, <2>1, OwnInList, SizesPositive DEF FoundBehind
      <3>2. CASE w = v
        BY <1>0, <2>0, <3>1, <3>2, BehindStays
      <3>3. CASE w # v
        BY <1>1, <3>1, <3>3 DEF Behind
      <3> QED BY <3>2, <3>3
    <2>2. CASE p \notin result[w][t]
      <3>1. PICK q \in Pairs : Adds(v, pass[v], q)
        BY <1>0, <1>4, <2>2, Computes DEF AddsNone
      <3>2. w = v /\ t = pass[v] /\ p = q
        <4>1. /\ \A s \in Passes \ {pass[v]} : result'[v][s] = result[v][s]
              /\ result'[v][pass[v]] = result[v][pass[v]] \cup {q}
          BY <1>0, <3>1, FoundIsAdded DEF Adds
        <4>2. w = v
          BY <1>2, <1>4, <2>2
        <4> QED BY <1>4, <2>0, <2>2, <4>1, <4>2
      <3>3. Own(v, p) = at[v] /\ at[v] \in Nat \ {0}
        BY <1>0, <3>1, <3>2, CandidatesArePairs DEF Adds, TypeOK
      <3> QED BY <1>0, <2>0, <3>2, <3>3, BehindStays
    <2> QED BY <2>1, <2>2
  <1>5. ASSUME NEW w \in Viewers, NEW p \in result'[w]["suggested"]
        PROVE  FreeOf(Resolved(result'[w]), p) /\ p \notin RejectedIn(decisions)
    <2>1. CASE w # v
      BY <1>2, <1>5, <2>1 DEF SuggestionsFree
    <2>2. CASE w = v /\ result' = result
      BY <1>5, <2>2 DEF SuggestionsFree
    <2>3. ASSUME w = v, NEW q \in Pairs, Adds(v, pass[v], q)
          PROVE  FreeOf(Resolved(result'[w]), p) /\ p \notin RejectedIn(decisions)
      <3>1. /\ \A s \in Passes \ {pass[v]} : result'[v][s] = result[v][s]
            /\ result'[v][pass[v]] = result[v][pass[v]] \cup {q}
        BY <1>0, <2>3, FoundIsAdded DEF Adds
      <3>2. pass[v] = "suggested"
        <4>1. SUFFICES ASSUME pass[v] # "suggested" PROVE FALSE
          OBVIOUS
        <4>2. result[v]["suggested"] = {}
          BY <1>0, <4>1 DEF IInv, Matching, SuggestedLast, Passes
        <4> QED BY <1>5, <2>3, <3>1, <4>1, <4>2 DEF Passes
      <3>3. Resolved(result'[v]) = Resolved(result[v])
        BY <3>1, <3>2 DEF Resolved
      <3>4. CASE p = q
        <4>1. FreeOf(Matched(result[v]), q) /\ q \notin DecidedAs("rejected")
          BY <2>3, <3>2, FreeIsFree, CandidatesArePairs DEF Adds
        <4>2. FreeOf(Resolved(result[v]), q)
          BY <1>0, <4>1, MatchedArePairs DEF FreeOf
        <4> QED BY <2>3, <3>3, <3>4, <4>1, <4>2 DEF DecidedAs, RejectedIn, Decided
      <3>5. CASE p # q
        BY <1>5, <2>3, <3>1, <3>2, <3>3, <3>5 DEF SuggestionsFree
      <3> QED BY <3>4, <3>5
    <2> QED BY <1>0, <2>1, <2>2, <2>3, Computes DEF AddsNone
  <1> QED BY <1>1, <1>4, <1>5 DEF FoundBehind, SuggestionsFree

\* The history of the last decision is not touched by a computation.
LEMMA HistoryKept ==
    ASSUME BeforeExplained, UNCHANGED <<level, decisions, before, last>>
    PROVE  BeforeExplained'
  <1> SUFFICES ASSUME last # <<>>
               PROVE  (\E rows \in Seq(Decisions), d \in Decisions :
                         /\ last = <<d>> /\ DecidedOver(rows, d)
                         /\ \A v \in Viewers : Complete(rows, before[v], v))'
    BY DEF BeforeExplained
  <1>1. PICK rows \in Seq(Decisions), d \in Decisions :
            /\ last = <<d>> /\ DecidedOver(rows, d)
            /\ \A v \in Viewers : Complete(rows, before[v], v)
    BY DEF BeforeExplained
  <1>2. (\A v \in Viewers : Complete(rows, before[v], v))'
    <2>1. ASSUME NEW v \in Viewers, NEW t \in Resolving, NEW j \in Nat \ {0}
          PROVE  TakesAt(rows, before[v], v, t, j)'
      <3>1. Offered(rows, v, t, j)' = Offered(rows, v, t, j)
        BY SameInputs DEF Offered
      <3>2. TakesAt(rows, before[v], v, t, j)
        BY <1>1 DEF Complete
      <3> QED BY <3>1, <3>2, Zenon DEF TakesAt, Takes, IsBest
    <2> QED BY <1>1, <2>1 DEF Complete
  <1>3. last' = <<d>> /\ DecidedOver(rows, d)'
    BY <1>1 DEF DecidedOver
  <1> QED BY <1>2, <1>3

\* What a viewer has found in the end is a whole computation.
LEMMA DoneIsComplete ==
    ASSUME IInv, Explained, Done, NEW v \in Viewers
    PROVE  Complete(decisions, result[v], v)
  <1>0. TypeOK
    BY DEF IInv
  <1>1. \A t \in Resolving, j \in Nat \ {0} : Behind(v, t, j)
    BY DEF Done, Behind, Resolving
  <1>2. \A t \in Resolving, j \in Nat \ {0} : TakesAt(decisions, result[v], v, t, j)
    BY <1>1 DEF Explained, Greedy
  <1>3. ASSUME NEW p \in result[v]["accepted"]
        PROVE  \E k \in DOMAIN decisions : Decided(decisions, "accepted", k, p)
    <2>1. PICK k \in DOMAIN decisions : AcceptedRow(k) /\ decisions[k].pair = p
      BY <1>3 DEF IInv, Following, FromRows, Accepted
    <2>2. decisions[k] \in Decisions
      BY <1>0 DEF TypeOK
    <2> QED BY <2>1, <2>2 DEF Decided, AcceptedRow, Decisions
  <1> QED BY <1>0, <1>2, <1>3 DEF Complete, TypeOK, IInv, Matching, OneToOne, Explained, SuggestionsFree

\* A decision makes history of two whole computations.
LEMMA DecisionExplained ==
    ASSUME IInv, Explained, NEW d \in Decisions, Decide(d)
    PROVE  Explained'
  <1>0. TypeOK /\ Done
    BY DEF IInv, Decide
  <1>1. \A v \in Viewers : pass'[v] = "accepted" /\ at'[v] = 1 /\ result'[v] = Nothing
    BY <1>0, Decides
  <1>2. Greedy'
    <2>1. \A v \in Viewers, t \in Resolving, j \in Nat \ {0} : ~Behind(v, t, j)'
      BY <1>1 DEF Behind
    <2> QED BY <2>1 DEF Greedy
  <1>3. FoundBehind' /\ SuggestionsFree'
    BY <1>1 DEF FoundBehind, SuggestionsFree, Nothing, Passes
  <1>4. PICK rows \in Seq(Decisions) : rows = decisions
    BY <1>0 DEF TypeOK
  <1>5. DecidedOver(rows, d)'
    <2>1. CASE decisions' \in Upserted(d)
      BY <1>4, <2>1 DEF Upserted, DecidedOver
    <2>2. CASE decisions' \in Inserted(d)
      BY <1>4, <2>2 DEF Inserted, DecidedOver
    <2> QED BY <2>1, <2>2 DEF Decide
  <1>6. ASSUME NEW v \in Viewers PROVE Complete(rows, result[v], v)
    BY <1>0, <1>4, DoneIsComplete
  <1>7. ASSUME NEW v \in Viewers PROVE Complete(rows, before[v], v)'
    <2>0. before' = result /\ level' = level
      BY <1>0, Decides
    <2>1. ASSUME NEW t \in Resolving, NEW j \in Nat \ {0}
          PROVE  TakesAt(rows, before[v], v, t, j)'
      <3>1. Offered(rows, v, t, j)' = Offered(rows, v, t, j)
        BY <2>0 DEF Offered, Kind
      <3>2. TakesAt(rows, result[v], v, t, j)
        BY <1>6 DEF Complete
      <3> QED BY <2>0, <3>1, <3>2, Zenon DEF TakesAt, Takes, IsBest
    <2> QED BY <1>6, <2>0, <2>1 DEF Complete
  <1>8. BeforeExplained'
    <2>1. last' = <<d>>
      BY <1>0, Decides
    <2> QED BY <1>5, <1>7, <2>1 DEF BeforeExplained
  <1> QED BY <1>2, <1>3, <1>8 DEF Explained

LEMMA ExplainedPreserved ==
    ASSUME IInv, TypeOK', Explained, [Next]_vars
    PROVE  Explained'
  <1>1. ASSUME NEW v \in Viewers, Compute(v) PROVE Explained'
    <2>1. UNCHANGED <<level, decisions, before, last>>
      BY <1>1, Computes, StepTaken DEF IInv
    <2> QED BY <1>1, <2>1, GreedyStep, FoundStep, HistoryKept DEF Explained
  <1>2. ASSUME NEW d \in Decisions, Decide(d) PROVE Explained'
    BY <1>2, DecisionExplained
  <1>3. CASE UNCHANGED vars
    <2>1. BeforeExplained'
      BY <1>3, HistoryKept DEF vars, Explained
    <2>2. FoundBehind' /\ SuggestionsFree'
      BY <1>3 DEF vars, Explained, FoundBehind, SuggestionsFree, Behind
    <2>3. ASSUME NEW v \in Viewers, NEW t \in Resolving, NEW j \in Nat \ {0}, Behind(v, t, j)'
          PROVE  TakesAt(decisions, result[v], v, t, j)'
      <3>1. Offered(decisions, v, t, j)' = Offered(decisions, v, t, j)
        BY <1>3, SameInputs DEF vars, Offered
      <3>2. TakesAt(decisions, result[v], v, t, j)
        BY <1>3, <2>3 DEF vars, Explained, Greedy, Behind
      <3> QED BY <1>3, <3>1, <3>2, Zenon DEF vars, TakesAt, Takes, IsBest
    <2> QED BY <2>1, <2>2, <2>3 DEF Explained, Greedy
  <1> QED BY <1>1, <1>2, <1>3 DEF Next

LEMMA InitExplained == Init => Explained
  <1> SUFFICES ASSUME Init PROVE Explained
    OBVIOUS
  <1>1. \A v \in Viewers : pass[v] = "exact" /\ at[v] = 1 /\ result[v] = Nothing
    BY DEF Init
  <1>2. TypeOK
    BY InitTyped
  <1>3. ASSUME NEW v \in Viewers, NEW t \in Resolving, NEW j \in Nat \ {0}, Behind(v, t, j)
        PROVE  TakesAt(decisions, result[v], v, t, j)
    <2>1. t = "accepted"
      BY <1>1, <1>3 DEF Behind
    <2>2. j > Len(decisions)
      BY DEF Init
    <2> QED BY <1>2, <2>1, <2>2, BeyondTheEnd DEF TypeOK
  <1>4. FoundBehind /\ SuggestionsFree
    BY <1>1 DEF FoundBehind, SuggestionsFree, Nothing, Passes
  <1>5. BeforeExplained
    BY DEF Init, BeforeExplained
  <1> QED BY <1>3, <1>4, <1>5 DEF Explained, Greedy

LEMMA ExplainedInvariant == Spec => [](IInv /\ Explained)
  <1>1. Init => IInv /\ Explained
    BY InitTyped, InitMatching, InitFollowing, InitExplained DEF IInv
  <1>2. IInv /\ Explained /\ [Next]_vars => (IInv /\ Explained)'
    BY TypePreserved, MatchingPreserved, FollowingPreserved, ExplainedPreserved DEF IInv, Matching
  <1> QED BY <1>1, <1>2, PTL DEF Spec

------------------------------------------------------------------------------
(* Two computations side by side *)

\* Induction, on positions.
LEMMA Upwards ==
    ASSUME NEW S \in SUBSET Nat, 1 \in S, \A j \in S : j + 1 \in S, NEW n \in Nat \ {0}
    PROVE  n \in S
  <1> SUFFICES ASSUME n \notin S PROVE FALSE
    OBVIOUS
  <1> DEFINE Less == {p \in Nat \X Nat : p[1] < p[2]}
             Out == (Nat \ {0}) \ S
  <1>1. IsWellFoundedOn(Less, Nat)
    BY NatLessThanWellFounded DEF OpToRel
  <1>2. \A x, y \in Nat : x < y => <<x, y>> \in Less
    OBVIOUS
  <1>3. n \in Out /\ Out \subseteq Nat /\ \A j \in Nat \ {0} : j \notin Out => j \in S
    OBVIOUS
  <1>4. 0 \notin Out /\ 1 \notin Out /\ \A j \in Nat \ {0} : j \notin Out => j + 1 \notin Out
    OBVIOUS
  <1> HIDE DEF Less, Out
  <1>5. PICK x \in Out : \A y \in Out : <<y, x>> \notin Less
    BY <1>1, <1>3, WFMin
  <1>6. x \in Nat /\ x - 1 \in Nat \ {0} /\ x - 1 < x
    BY <1>3, <1>4
  <1>7. x - 1 \notin Out
    BY <1>2, <1>5, <1>6
  <1> QED BY <1>4, <1>5, <1>6, <1>7

\* R relates what was taken of O and of N: two steps at one position preserve it.
StepsKeep(R, v, rows, later, O, N) ==
    \A t \in Resolving, j \in Nat \ {0} :
        \A S, S2 \in SUBSET Resolved(O), T, T2 \in SUBSET Resolved(N) :
            /\ <<S, T>> \in R
            /\ Takes(v, S, Offered(rows, v, t, j), S2)
            /\ Takes(v, T, Offered(later, v, t, j), T2)
            => <<S2, T2>> \in R

\* One pass: what relates the two before it still does at any of its positions.
LEMMA SideBySide ==
    ASSUME NEW v \in Viewers, NEW t \in Resolving,
           NEW rows \in Seq(Decisions), NEW later \in Seq(Decisions),
           NEW O, NEW N, Complete(rows, O, v), Complete(later, N, v), NEW R,
           <<Sofar(rows, O, v, t, 1), Sofar(later, N, v, t, 1)>> \in R,
           StepsKeep(R, v, rows, later, O, N), NEW n \in Nat \ {0}
    PROVE  <<Sofar(rows, O, v, t, n), Sofar(later, N, v, t, n)>> \in R
  <1> DEFINE K == {j \in Nat \ {0} : <<Sofar(rows, O, v, t, j), Sofar(later, N, v, t, j)>> \in R}
  <1>1. \A j, res : \A ds : Sofar(ds, res, v, t, j) \subseteq Resolved(res)
    BY DEF Sofar, Resolved, Passes
  <1>2. ASSUME NEW j \in K PROVE j + 1 \in K
    <2>1. j + 1 \in Nat \ {0} /\ j \in Nat \ {0}
      OBVIOUS
    <2>2. TakesAt(rows, O, v, t, j) /\ TakesAt(later, N, v, t, j)
      BY <2>1 DEF Complete
    <2>3. <<Sofar(rows, O, v, t, j + 1), Sofar(later, N, v, t, j + 1)>> \in R
      BY <1>1, <1>2, <2>1, <2>2 DEF TakesAt, StepsKeep
    <2> QED BY <2>1, <2>3
  <1>3. K \in SUBSET Nat /\ 1 \in K
    OBVIOUS
  <1> HIDE DEF K
  <1>4. n \in K
    BY <1>2, <1>3, Upwards
  <1> QED BY <1>4 DEF K

\* Where the passes begin and end.
LEMMA PassEnds ==
    ASSUME NEW v \in Viewers, NEW rows \in Seq(Decisions), NEW O, Complete(rows, O, v),
           NEW n \in Nat, n > Len(rows)
    PROVE  /\ Sofar(rows, O, v, "accepted", 1) = {}
           /\ Sofar(rows, O, v, "accepted", n) = Sofar(rows, O, v, "exact", 1)
           /\ Sofar(rows, O, v, "exact", Size(v) + 1) = Sofar(rows, O, v, "auto", 1)
           /\ Sofar(rows, O, v, "auto", Size(v) + 1) = Resolved(O)
  <1>1. DOMAIN rows = 1..Len(rows) /\ Len(rows) \in Nat /\ Size(v) \in Nat
    BY SizesPositive
  <1>2. O["accepted"] \subseteq Pairs /\ O["exact"] \subseteq Pairs /\ O["auto"] \subseteq Pairs
    BY DEF Complete, Results, Passes
  <1>3. \A p \in Pairs : ~(Own(v, p) < 1) /\ Own(v, p) < Size(v) + 1
    BY <1>1, OwnInList
  <1>4. \A k \in DOMAIN rows : ~(k < 1) /\ k < n
    BY <1>1
  <1>5. \A p \in O["accepted"] : \E k \in DOMAIN rows : Decided(rows, "accepted", k, p)
    BY DEF Complete
  <1>6. Sofar(rows, O, v, "accepted", 1) = {} /\ Sofar(rows, O, v, "accepted", n) = O["accepted"]
    BY <1>4, <1>5 DEF Sofar
  <1>7. Sofar(rows, O, v, "exact", 1) = O["accepted"]
        /\ Sofar(rows, O, v, "exact", Size(v) + 1) = O["accepted"] \cup O["exact"]
    BY <1>2, <1>3 DEF Sofar
  <1>8. Sofar(rows, O, v, "auto", 1) = O["accepted"] \cup O["exact"]
        /\ Sofar(rows, O, v, "auto", Size(v) + 1) = O["accepted"] \cup O["exact"] \cup O["auto"]
    BY <1>2, <1>3 DEF Sofar
  <1> QED BY <1>6, <1>7, <1>8 DEF Resolved, Passes

\* All passes: a relation that two steps at one position preserve relates the
\* results.
LEMMA Lockstep ==
    ASSUME NEW v \in Viewers, NEW rows \in Seq(Decisions), NEW later \in Seq(Decisions),
           NEW O, NEW N, Complete(rows, O, v), Complete(later, N, v), NEW R,
           <<{}, {}>> \in R,
           StepsKeep(R, v, rows, later, O, N)
    PROVE  <<Resolved(O), Resolved(N)>> \in R
  <1> DEFINE n == Len(rows) + Len(later) + 1
  <1>1. n \in Nat \ {0} /\ n > Len(rows) /\ n > Len(later) /\ Size(v) + 1 \in Nat \ {0}
    BY SizesPositive
  <1> HIDE DEF n
  <1>2. "accepted" \in Resolving /\ "exact" \in Resolving /\ "auto" \in Resolving
    BY DEF Resolving
  <1>3. /\ Sofar(rows, O, v, "accepted", 1) = {}
        /\ Sofar(rows, O, v, "accepted", n) = Sofar(rows, O, v, "exact", 1)
        /\ Sofar(rows, O, v, "exact", Size(v) + 1) = Sofar(rows, O, v, "auto", 1)
        /\ Sofar(rows, O, v, "auto", Size(v) + 1) = Resolved(O)
    BY <1>1, PassEnds
  <1>4. /\ Sofar(later, N, v, "accepted", 1) = {}
        /\ Sofar(later, N, v, "accepted", n) = Sofar(later, N, v, "exact", 1)
        /\ Sofar(later, N, v, "exact", Size(v) + 1) = Sofar(later, N, v, "auto", 1)
        /\ Sofar(later, N, v, "auto", Size(v) + 1) = Resolved(N)
    BY <1>1, PassEnds
  <1>5. <<Sofar(rows, O, v, "accepted", n), Sofar(later, N, v, "accepted", n)>> \in R
    BY <1>1, <1>2, <1>3, <1>4, SideBySide
  <1>6. <<Sofar(rows, O, v, "exact", Size(v) + 1), Sofar(later, N, v, "exact", Size(v) + 1)>> \in R
    BY <1>1, <1>2, <1>3, <1>4, <1>5, SideBySide
  <1>7. <<Sofar(rows, O, v, "auto", Size(v) + 1), Sofar(later, N, v, "auto", Size(v) + 1)>> \in R
    BY <1>1, <1>2, <1>3, <1>4, <1>6, SideBySide
  <1> QED BY <1>3, <1>4, <1>7

------------------------------------------------------------------------------
(* Accepting a suggestion *)

\* The rows offer what they offered, except at the row that was decided.
LEMMA OfferedAfterAccepting ==
    ASSUME NEW rows \in Seq(Decisions), NEW p \in Pairs,
           NEW v \in Viewers, NEW t \in Resolving, NEW j \in Nat \ {0}
    PROVE  LET later == Append(rows, [pair |-> p, decision |-> "accepted"])
           IN  IF t = "accepted" /\ j = Len(rows) + 1
               THEN Offered(rows, v, t, j) = {} /\ Offered(later, v, t, j) = {p}
               ELSE Offered(later, v, t, j) = Offered(rows, v, t, j)
  <1> DEFINE later == Append(rows, [pair |-> p, decision |-> "accepted"])
  <1>1. /\ Len(rows) \in Nat /\ DOMAIN rows = 1..Len(rows) /\ DOMAIN later = 1..(Len(rows) + 1)
        /\ later[Len(rows) + 1] = [pair |-> p, decision |-> "accepted"]
        /\ \A k \in 1..Len(rows) : later[k] = rows[k]
    BY DEF Decisions
  <1> HIDE DEF later
  <1>2. \A q, d : Decided(later, d, Len(rows) + 1, q) => q = p /\ d = "accepted"
    BY <1>1 DEF Decided
  <1>3. \A q, d, k : k # Len(rows) + 1 => (Decided(later, d, k, q) <=> Decided(rows, d, k, q))
    BY <1>1 DEF Decided
  <1>4. RejectedIn(later) = RejectedIn(rows)
    <2>1. ASSUME NEW q \in Pairs
          PROVE  (\E k \in DOMAIN later : Decided(later, "rejected", k, q))
                 <=> (\E k \in DOMAIN rows : Decided(rows, "rejected", k, q))
      BY <1>1, <1>2, <1>3 DEF Decided
    <2> QED BY <2>1 DEF RejectedIn
  <1>5. CASE t = "accepted" /\ j = Len(rows) + 1
    <2>1. Decided(later, "accepted", j, p) /\ j \notin DOMAIN rows
      BY <1>1, <1>5 DEF Decided
    <2>2. Offered(rows, v, t, j) = {}
      BY <1>5, <2>1 DEF Offered, Decided
    <2>3. Offered(later, v, t, j) = {p}
      BY <1>2, <1>5, <2>1 DEF Offered
    <2> QED BY <1>5, <2>2, <2>3 DEF later
  <1>6. CASE t = "accepted" /\ j # Len(rows) + 1
    <2>1. Offered(later, v, t, j) = Offered(rows, v, t, j)
      BY <1>3, <1>6 DEF Offered
    <2> QED BY <1>6, <2>1 DEF later
  <1>7. CASE t # "accepted"
    <2>1. Offered(later, v, t, j) = Offered(rows, v, t, j)
      BY <1>4, <1>7 DEF Offered
    <2> QED BY <1>7, <2>1 DEF later
  <1> QED BY <1>5, <1>6, <1>7

\* All pairs that are offered at a position have the viewer's account in common.
LEMMA OfferedShare ==
    ASSUME NEW rows \in Seq(Decisions), NEW v \in Viewers, NEW t \in Resolving, NEW j \in Nat \ {0}
    PROVE  /\ Offered(rows, v, t, j) \subseteq Pairs
           /\ \A p, q \in Offered(rows, v, t, j) : Own(v, p) = Own(v, q)
  <1>1. \A p, q : Decided(rows, "accepted", j, p) /\ Decided(rows, "accepted", j, q) => p = q
    BY DEF Decided
  <1> QED BY <1>1 DEF Offered

LEMMA SidesOfPair ==
    ASSUME NEW v \in Viewers, NEW p \in Pairs, NEW q \in Pairs
    PROVE  /\ Own(v, p) = Own(v, q) /\ Their(v, p) = Their(v, q) => p = q
           /\ Share(p, q) <=> Own(v, p) = Own(v, q) \/ Their(v, p) = Their(v, q)
           /\ Their(v, p) \in Nat
  BY MatchingAssumption DEF Own, Their, Share, Viewers, Pairs

\* So the best of them is one.
LEMMA OneBest ==
    ASSUME TypeOK, NEW v \in Viewers, NEW K \in SUBSET Pairs, \A p, q \in K : Own(v, p) = Own(v, q),
           NEW p \in K, NEW q \in K, IsBest(v, p, K), IsBest(v, q, K)
    PROVE  p = q
  <1>1. level[p] \in Int /\ level[q] \in Int
    BY MatchingAssumption DEF TypeOK, Levels, ExactLevel
  <1>2. Their(v, p) = Their(v, q)
    BY <1>1, SidesOfPair DEF IsBest
  <1> QED BY <1>2, SidesOfPair

\* The match that is accepted keeps aside: every position takes what it took.
LEMMA AcceptingStep ==
    ASSUME TypeOK, NEW v \in Viewers, NEW p \in Pairs, NEW S, NEW T, NEW S2, NEW T2,
           S2 \in SUBSET Pairs, FreeOf(S2, p), T = S \/ T = S \cup {p},
           NEW K \in SUBSET Pairs, NEW L \in SUBSET Pairs, K = L \/ (K = {} /\ L = {p}),
           \A q, x \in K : Own(v, q) = Own(v, x),
           Takes(v, S, K, S2), Takes(v, T, L, T2)
    PROVE  T2 = S2 \/ T2 = S2 \cup {p}
  <1> DEFINE free == {q \in K : FreeOf(S, q)}
             left == {q \in L : FreeOf(T, q)}
  <1>0. S \subseteq S2 /\ Share(p, p) /\ \A q : Share(p, q) <=> Share(q, p)
    BY DEF Takes, Share
  <1>1. CASE K = L
    <2>1. left \subseteq free
      BY <1>1 DEF FreeOf
    <2>2. CASE free = {} /\ S2 = S
      <3>1. left = {}
        BY <2>1, <2>2
      <3>2. T2 = T
        BY <3>1 DEF Takes
      <3> QED BY <2>2, <3>2
    <2>3. ASSUME NEW q \in free, IsBest(v, q, free), S2 = S \cup {q}
          PROVE  T2 = S2 \/ T2 = S2 \cup {p}
      <3>1. q \in left
        <4>1. ~Share(q, p)
          BY <1>0, <2>3 DEF FreeOf
        <4> QED BY <1>1, <2>3, <4>1 DEF FreeOf
      <3>2. PICK x \in left : IsBest(v, x, left) /\ T2 = T \cup {x}
        BY <3>1 DEF Takes
      <3>3. IsBest(v, q, left)
        BY <2>1, <2>3 DEF IsBest
      <3>4. x = q
        <4>1. left \in SUBSET Pairs /\ \A y, z \in left : Own(v, y) = Own(v, z)
          BY <1>1
        <4> HIDE DEF left, free
        <4> QED BY <3>1, <3>2, <3>3, <4>1, OneBest
      <3> QED BY <2>3, <3>2, <3>4
    <2> QED BY <2>2, <2>3 DEF Takes
  <1>2. CASE K = {} /\ L = {p}
    <2>1. S2 = S
      BY <1>2 DEF Takes
    <2>2. T2 = T \/ T2 = T \cup {p}
      BY <1>2 DEF Takes
    <2> QED BY <2>1, <2>2
  <1> QED BY <1>1, <1>2

\* One more row, and one more match.
PlusRow(rows, p) == Append(rows, [pair |-> p, decision |-> "accepted"])
Plus(S, p) == S \cup {p}

LEMMA AcceptingAdds ==
    ASSUME TypeOK, NEW v \in Viewers, NEW p \in Pairs,
           NEW rows \in Seq(Decisions), NEW O, NEW N,
           Complete(rows, O, v), Complete(PlusRow(rows, p), N, v), p \in O["suggested"]
    PROVE  Resolved(N) = Plus(Resolved(O), p)
  <1> DEFINE later == PlusRow(rows, p)
  <1> DEFINE R == {x \in (SUBSET Pairs) \X (SUBSET Pairs) : x[2] = x[1] \/ x[2] = x[1] \cup {p}}
  <1> HIDE DEF later
  <1>1. later = Append(rows, [pair |-> p, decision |-> "accepted"]) /\ Complete(later, N, v)
    BY DEF later, PlusRow
  <1>2. /\ later \in Seq(Decisions)
        /\ Resolved(O) \subseteq Pairs /\ Resolved(N) \subseteq Pairs /\ FreeOf(Resolved(O), p)
    <2>1. later \in Seq(Decisions)
      BY <1>1 DEF Decisions
    <2> QED BY <1>1, <2>1 DEF Complete, Resolved, Results
  <1>3. ASSUME NEW t \in Resolving, NEW j \in Nat \ {0},
               NEW S \in SUBSET Resolved(O), NEW T \in SUBSET Resolved(N),
               NEW S2 \in SUBSET Resolved(O), NEW T2 \in SUBSET Resolved(N), <<S, T>> \in R,
               Takes(v, S, Offered(rows, v, t, j), S2), Takes(v, T, Offered(later, v, t, j), T2)
        PROVE  <<S2, T2>> \in R
    <2> DEFINE K == Offered(rows, v, t, j)
               L == Offered(later, v, t, j)
    <2>1. K \in SUBSET Pairs /\ L \in SUBSET Pairs /\ \A q, x \in K : Own(v, q) = Own(v, x)
      BY <1>2, OfferedShare
    <2>2. K = L \/ (K = {} /\ L = {p})
      BY <1>1, OfferedAfterAccepting
    <2>3. FreeOf(S2, p) /\ S2 \in SUBSET Pairs /\ T2 \in SUBSET Pairs
      BY <1>2 DEF FreeOf
    <2>4. T = S \/ T = S \cup {p}
      BY <1>3
    <2> HIDE DEF K, L
    <2>5. T2 = S2 \/ T2 = S2 \cup {p}
      BY <1>3, <2>1, <2>2, <2>3, <2>4, AcceptingStep DEF K, L
    <2> QED BY <2>3, <2>5
  <1>4. StepsKeep(R, v, rows, later, O, N) /\ <<{}, {}>> \in R
    <2>1. <<{}, {}>> \in R
      OBVIOUS
    <2> HIDE DEF R
    <2> QED BY <1>3, <2>1 DEF StepsKeep
  <1> HIDE DEF R
  <1>5. <<Resolved(O), Resolved(N)>> \in R
    BY <1>2, <1>4, <1>1, Lockstep
  <1>6. Resolved(N) = Resolved(O) \/ Resolved(N) = Resolved(O) \cup {p}
    BY <1>5 DEF R
  <1>7. p \in Resolved(N)
    <2> DEFINE j == Len(rows) + 1
               S == Sofar(later, N, v, "accepted", j)
               T == Sofar(later, N, v, "accepted", j + 1)
    <2>1. j \in Nat \ {0} /\ "accepted" \in Resolving
      BY DEF Resolving
    <2>2. Offered(later, v, "accepted", j) = {p}
      BY <1>1, <2>1, OfferedAfterAccepting
    <2>3. S \subseteq Resolved(N) /\ T \subseteq Resolved(N)
      BY DEF Sofar, Resolved, Passes
    <2>4. Takes(v, S, {p}, T)
      BY <1>1, <2>1, <2>2 DEF Complete, TakesAt
    <2>5. CASE p \in T
      BY <2>3, <2>5
    <2>6. CASE ~FreeOf(S, p)
      <3>1. PICK q \in S : Share(p, q)
        BY <2>6 DEF FreeOf
      <3> QED BY <1>2, <1>6, <2>3, <3>1 DEF FreeOf
    <2> QED BY <2>4, <2>5, <2>6 DEF Takes
  <1> QED BY <1>6, <1>7 DEF Plus

\* Accepting a suggestion adds it to what is resolved, and changes nothing else.
THEOREM AcceptingTheorem == Spec => []AcceptingASuggestionAdds
  <1>1. IInv /\ Explained => AcceptingASuggestionAdds
    <2>1. SUFFICES ASSUME IInv, Explained, Done, NEW v \in Viewers, NEW p \in Pairs,
                          last = <<[pair |-> p, decision |-> "accepted"]>>, p \in before[v]["suggested"]
                   PROVE  Resolved(result[v]) = Resolved(before[v]) \cup {p}
      BY DEF AcceptingASuggestionAdds
    <2>2. PICK rows \in Seq(Decisions), d \in Decisions :
              last = <<d>> /\ DecidedOver(rows, d) /\ Complete(rows, before[v], v)
      BY <2>1 DEF Explained, BeforeExplained
    <2>3. d = [pair |-> p, decision |-> "accepted"]
      BY <2>1, <2>2
    <2>4. ASSUME NEW k \in DOMAIN rows, rows[k].pair = p, rows[k] # d PROVE FALSE
      <3>1. rows[k] \in Decisions
        OBVIOUS
      <3>2. rows[k] = [pair |-> p, decision |-> "rejected"]
        BY <2>3, <2>4, <3>1 DEF Decisions
      <3>3. p \in RejectedIn(rows)
        BY <3>2 DEF RejectedIn, Decided
      <3> QED BY <2>1, <2>2, <3>3 DEF Complete
    <2>5. decisions = PlusRow(rows, p)
      BY <2>2, <2>3, <2>4 DEF DecidedOver, PlusRow
    <2>6. TypeOK /\ Complete(PlusRow(rows, p), result[v], v)
      BY <2>1, <2>5, DoneIsComplete DEF IInv
    <2>7. Resolved(result[v]) = Plus(Resolved(before[v]), p)
      BY <2>1, <2>2, <2>6, AcceptingAdds
    <2> QED BY <2>7 DEF Plus
  <1> QED BY <1>1, ExplainedInvariant, PTL

------------------------------------------------------------------------------
(* Rejecting a match.  What the two computations have taken differs by a     *)
(* path of pairs, and the accounts that only one of them has matched are     *)
(* the two ends of it.                                                       *)

Owns(v, S)   == {Own(v, p) : p \in S}
Theirs(v, S) == {Their(v, p) : p \in S}

\* A and B are the accounts of either list that the one has matched, C and D
\* those that the other has.  Each end of the path is on one side or the other.
Lacks(A, B, C, D) ==
    \E a, b : a \notin C /\ b \notin D /\ A = C \cup {a} /\ B = D \cup {b}
Moved(A, C) == \E a, c : a # c /\ a \notin C /\ c \notin A /\ A \cup {c} = C \cup {a}
Apart(A, B, C, D) ==
    \/ Lacks(A, B, C, D)
    \/ Lacks(C, D, A, B)
    \/ B = D /\ Moved(A, C)
    \/ A = C /\ Moved(B, D)
Close(A, B, C, D) == (A = C /\ B = D) \/ Apart(A, B, C, D)

LEMMA CloseSymmetric ==
    ASSUME NEW A, NEW B, NEW C, NEW D
    PROVE  /\ Apart(A, B, C, D) => Apart(C, D, A, B)
           /\ Close(A, B, C, D) => Close(C, D, A, B)
  BY DEF Close, Apart, Moved

\* Both take the same pair.
LEMMA SameTaken ==
    ASSUME NEW A, NEW B, NEW C, NEW D, Apart(A, B, C, D),
           NEW i, NEW x, i \notin A, i \notin C, x \notin B, x \notin D
    PROVE  Apart(A \cup {i}, B \cup {x}, C \cup {i}, D \cup {x})
  <1>1. \A E, F, G, H : Lacks(E, F, G, H) /\ i \notin E /\ x \notin F =>
            Lacks(E \cup {i}, F \cup {x}, G \cup {i}, H \cup {x})
    BY DEF Lacks
  <1>2. \A E, F, y : Moved(E, F) /\ y \notin E /\ y \notin F => Moved(E \cup {y}, F \cup {y})
    <2>1. SUFFICES ASSUME NEW E, NEW F, NEW y, Moved(E, F), y \notin E, y \notin F
                   PROVE  Moved(E \cup {y}, F \cup {y})
      OBVIOUS
    <2>2. PICK a, c : a # c /\ a \notin F /\ c \notin E /\ E \cup {c} = F \cup {a}
      BY <2>1 DEF Moved
    <2>3. a # y /\ c # y /\ (E \cup {y}) \cup {c} = (F \cup {y}) \cup {a}
      BY <2>1, <2>2
    <2> QED BY <2>2, <2>3 DEF Moved
  <1> QED BY <1>1, <1>2 DEF Apart

\* One takes a pair that is not free for the other.
LEMMA OneTaken ==
    ASSUME NEW A, NEW B, NEW C, NEW D, Apart(A, B, C, D),
           NEW i, NEW x, i \notin A, x \notin B, i \in C \/ x \in D
    PROVE  Close(A \cup {i}, B \cup {x}, C, D)
  <1>1. CASE Lacks(A, B, C, D)
    BY <1>1 DEF Lacks
  <1>2. CASE Lacks(C, D, A, B)
    <2>1. PICK c, e : c \notin A /\ e \notin B /\ C = A \cup {c} /\ D = B \cup {e}
      BY <1>2 DEF Lacks
    <2>2. CASE i = c /\ x = e
      BY <2>1, <2>2 DEF Close
    <2>3. CASE i = c /\ x # e
      <3>1. x \notin D /\ e \notin B \cup {x} /\ (B \cup {x}) \cup {e} = D \cup {x} /\ A \cup {i} = C
        BY <2>1, <2>3
      <3> QED BY <3>1 DEF Close, Apart, Moved
    <2>4. CASE i # c /\ x = e
      <3>1. i \notin C /\ c \notin A \cup {i} /\ (A \cup {i}) \cup {c} = C \cup {i} /\ B \cup {x} = D
        BY <2>1, <2>4
      <3> QED BY <3>1 DEF Close, Apart, Moved
    <2> QED BY <2>1, <2>2, <2>3, <2>4
  <1>3. CASE B = D /\ Moved(A, C)
    <2>1. PICK a, c : a # c /\ a \notin C /\ c \notin A /\ A \cup {c} = C \cup {a}
      BY <1>3 DEF Moved
    <2>2. i = c /\ x \notin D
      BY <1>3, <2>1
    <2>3. A \cup {i} = C \cup {a} /\ B \cup {x} = D \cup {x}
      BY <1>3, <2>1, <2>2
    <2> QED BY <2>1, <2>2, <2>3 DEF Close, Apart, Lacks
  <1>4. CASE A = C /\ Moved(B, D)
    <2>1. PICK b, e : b # e /\ b \notin D /\ e \notin B /\ B \cup {e} = D \cup {b}
      BY <1>4 DEF Moved
    <2>2. x = e /\ i \notin C
      BY <1>4, <2>1
    <2>3. B \cup {x} = D \cup {b} /\ A \cup {i} = C \cup {i}
      BY <1>4, <2>1, <2>2
    <2> QED BY <2>1, <2>2, <2>3 DEF Close, Apart, Lacks
  <1> QED BY <1>1, <1>2, <1>3, <1>4 DEF Apart

\* The viewer's account takes one partner here and another one there.
LEMMA OtherTaken ==
    ASSUME NEW A, NEW B, NEW C, NEW D, Apart(A, B, C, D),
           NEW i, NEW x, NEW y, i \notin A, i \notin C, x \notin B, y \notin D, x # y,
           x \in D \/ y \in B
    PROVE  Close(A \cup {i}, B \cup {x}, C \cup {i}, D \cup {y})
  <1>1. CASE Lacks(A, B, C, D)
    <2>1. PICK a, b : a \notin C /\ b \notin D /\ A = C \cup {a} /\ B = D \cup {b}
      BY <1>1 DEF Lacks
    <2>2. y = b /\ x \notin D
      BY <2>1
    <2>3. /\ a \notin C \cup {i} /\ x \notin D \cup {y}
          /\ A \cup {i} = (C \cup {i}) \cup {a} /\ B \cup {x} = (D \cup {y}) \cup {x}
      BY <2>1, <2>2
    <2> QED BY <2>3 DEF Close, Apart, Lacks
  <1>2. CASE Lacks(C, D, A, B)
    <2>1. PICK c, e : c \notin A /\ e \notin B /\ C = A \cup {c} /\ D = B \cup {e}
      BY <1>2 DEF Lacks
    <2>2. x = e /\ y \notin B
      BY <2>1
    <2>3. /\ c \notin A \cup {i} /\ y \notin B \cup {x}
          /\ C \cup {i} = (A \cup {i}) \cup {c} /\ D \cup {y} = (B \cup {x}) \cup {y}
      BY <2>1, <2>2
    <2> QED BY <2>3 DEF Close, Apart, Lacks
  <1>3. CASE B = D /\ Moved(A, C)
    BY <1>3
  <1>4. CASE A = C /\ Moved(B, D)
    <2>1. PICK b, e : b # e /\ b \notin D /\ e \notin B /\ B \cup {e} = D \cup {b}
      BY <1>4 DEF Moved
    <2>2. CASE x = e /\ y = b
      BY <1>4, <2>1, <2>2 DEF Close
    <2>3. CASE x = e /\ y # b
      <3>1. b \notin D \cup {y} /\ y \notin B \cup {x} /\ (B \cup {x}) \cup {y} = (D \cup {y}) \cup {b}
        BY <2>1, <2>3
      <3> QED BY <1>4, <3>1 DEF Close, Apart, Moved
    <2>4. CASE x # e /\ y = b
      <3>1. x \notin D \cup {y} /\ e \notin B \cup {x} /\ (B \cup {x}) \cup {e} = (D \cup {y}) \cup {x}
        BY <2>1, <2>4
      <3> QED BY <1>4, <3>1 DEF Close, Apart, Moved
    <2> QED BY <2>1, <2>2, <2>3, <2>4
  <1> QED BY <1>1, <1>2, <1>3, <1>4 DEF Apart

LEMMA FreeSides ==
    ASSUME NEW v \in Viewers, NEW S \in SUBSET Pairs, NEW p \in Pairs
    PROVE  /\ FreeOf(S, p) <=> Own(v, p) \notin Owns(v, S) /\ Their(v, p) \notin Theirs(v, S)
           /\ Owns(v, S \cup {p}) = Owns(v, S) \cup {Own(v, p)}
           /\ Theirs(v, S \cup {p}) = Theirs(v, S) \cup {Their(v, p)}
  <1>1. \A q \in S : Share(p, q) <=> Own(v, p) = Own(v, q) \/ Their(v, p) = Their(v, q)
    BY SidesOfPair
  <1> QED BY <1>1 DEF FreeOf, Owns, Theirs

\* What was taken of S and of T, when p was taken of S and is rejected in T.
Near(v, p, S, T) ==
    \/ Owns(v, S) = Owns(v, T) /\ Theirs(v, S) = Theirs(v, T)
    \/ p \in S /\ Apart(Owns(v, S), Theirs(v, S), Owns(v, T), Theirs(v, T))

LEMMA CloseIsNear ==
    ASSUME NEW v, NEW p, NEW S, NEW T, p \in S,
           Close(Owns(v, S), Theirs(v, S), Owns(v, T), Theirs(v, T))
    PROVE  Near(v, p, S, T)
  BY DEF Near, Close

\* Two candidates of which each is the best here and there: one of them is not
\* free everywhere.
LEMMA BestDiffer ==
    ASSUME TypeOK, NEW v \in Viewers, NEW K \in SUBSET Pairs, NEW L \in SUBSET Pairs,
           NEW q \in K \cap L, NEW r \in K \cap L, q # r, Own(v, q) = Own(v, r),
           IsBest(v, q, K), IsBest(v, r, L)
    PROVE  FALSE
  <1>1. level[q] \in Int /\ level[r] \in Int
    BY MatchingAssumption DEF TypeOK, Levels, ExactLevel
  <1>2. Their(v, q) = Their(v, r)
    BY <1>1, SidesOfPair DEF IsBest
  <1> QED BY <1>2, SidesOfPair

LEMMA RejectingStep ==
    ASSUME TypeOK, NEW v \in Viewers, NEW p \in Pairs,
           NEW S \in SUBSET Pairs, NEW T \in SUBSET Pairs, NEW S2, NEW T2, Near(v, p, S, T),
           NEW K \in SUBSET Pairs, NEW L, L = K \/ L = K \ {p},
           \A q, x \in K : Own(v, q) = Own(v, x),
           Takes(v, S, K, S2), Takes(v, T, L, T2)
    PROVE  Near(v, p, S2, T2)
  <1> DEFINE free == {q \in K : FreeOf(S, q)}
             left == {q \in L : FreeOf(T, q)}
             A == Owns(v, S)
             B == Theirs(v, S)
             C == Owns(v, T)
             D == Theirs(v, T)
  <1>0. /\ (free = {} /\ S2 = S) \/ \E q \in free : IsBest(v, q, free) /\ S2 = S \cup {q}
        /\ (left = {} /\ T2 = T) \/ \E r \in left : IsBest(v, r, left) /\ T2 = T \cup {r}
        /\ free \subseteq K /\ left \subseteq K /\ left \subseteq L
    BY DEF Takes
  <1>1. \A q \in K : FreeOf(S, q) <=> Own(v, q) \notin A /\ Their(v, q) \notin B
    BY FreeSides
  <1>2. \A q \in K : FreeOf(T, q) <=> Own(v, q) \notin C /\ Their(v, q) \notin D
    BY FreeSides
  <1>3. \A q \in K : /\ Owns(v, S \cup {q}) = A \cup {Own(v, q)}
                     /\ Theirs(v, S \cup {q}) = B \cup {Their(v, q)}
    BY FreeSides
  <1>4. \A q \in K : /\ Owns(v, T \cup {q}) = C \cup {Own(v, q)}
                     /\ Theirs(v, T \cup {q}) = D \cup {Their(v, q)}
    BY FreeSides
  <1>5. \A q \in K : q \in free <=> FreeOf(S, q)
    OBVIOUS
  <1>6. \A q \in K : q \in left <=> FreeOf(T, q) /\ q \in L
    OBVIOUS
  <1> HIDE DEF free, left, A, B, C, D
  <1>7. CASE A = C /\ B = D
    <2>1. \A q \in K : q \in left <=> q \in free /\ q \in L
      BY <1>1, <1>2, <1>5, <1>6, <1>7
    <2>2. CASE free = {} /\ S2 = S
      <3>1. T2 = T
        BY <1>0, <2>1, <2>2
      <3> QED BY <1>7, <2>2, <3>1 DEF Near, A, B, C, D
    <2>3. ASSUME NEW q \in free, IsBest(v, q, free), S2 = S \cup {q}, q \in L
          PROVE  Near(v, p, S2, T2)
      <3>1. PICK r \in left : IsBest(v, r, left) /\ T2 = T \cup {r}
        BY <1>0, <2>1, <2>3
      <3>2. q = r
        <4>1. q \in free \cap left /\ r \in free \cap left /\ Own(v, q) = Own(v, r)
          BY <1>0, <2>1, <2>3, <3>1
        <4>2. free \in SUBSET Pairs /\ left \in SUBSET Pairs
          BY <1>0
        <4> QED BY <2>3, <3>1, <4>1, <4>2, BestDiffer
      <3> QED BY <1>0, <1>3, <1>4, <1>7, <2>3, <3>1, <3>2 DEF Near
    <2>4. ASSUME NEW q \in free, S2 = S \cup {q}, q \notin L
          PROVE  Near(v, p, S2, T2)
      <3>1. q = p /\ q \in K
        BY <1>0, <2>4
      <3>2. Own(v, q) \notin C /\ Their(v, q) \notin D
        BY <1>1, <1>5, <1>7, <2>4, <3>1
      <3>3. CASE T2 = T
        <4>1. Lacks(A \cup {Own(v, q)}, B \cup {Their(v, q)}, C, D)
          BY <1>7, <3>2 DEF Lacks
        <4> QED BY <1>3, <2>4, <3>1, <3>3, <4>1 DEF Near, Apart, C, D
      <3>4. ASSUME NEW r \in left, T2 = T \cup {r}
            PROVE  Near(v, p, S2, T2)
        <4>1. r \in K /\ r # q /\ Own(v, r) = Own(v, q) /\ Their(v, r) # Their(v, q)
          BY <1>0, <2>4, <3>1, SidesOfPair
        <4>2. Their(v, r) \notin B
          BY <1>2, <1>6, <1>7, <3>4, <4>1
        <4>3. Moved(B \cup {Their(v, q)}, D \cup {Their(v, r)})
          BY <1>7, <3>2, <4>1, <4>2 DEF Moved
        <4>4. Apart(A \cup {Own(v, q)}, B \cup {Their(v, q)}, C \cup {Own(v, r)}, D \cup {Their(v, r)})
          BY <1>7, <4>1, <4>3 DEF Apart
        <4> QED BY <1>3, <1>4, <2>4, <3>1, <3>4, <4>1, <4>4 DEF Near
      <3> QED BY <1>0, <3>3, <3>4
    <2> QED BY <1>0, <2>2, <2>3, <2>4
  <1>8. CASE p \in S /\ Apart(A, B, C, D)
    <2>1. p \notin free /\ \A q \in free : q \in L
      <3>1. ~FreeOf(S, p)
        BY <1>8 DEF FreeOf, Share
      <3> QED BY <1>0, <1>5, <3>1
    <2>2. p \in S2
      BY <1>0, <1>8
    <2>3. CASE S2 = S /\ T2 = T
      BY <1>8, <2>3 DEF Near, A, B, C, D
    <2>4. ASSUME NEW q \in free, S2 = S \cup {q}, T2 = T, left = {} PROVE Near(v, p, S2, T2)
      <3>1. q \in K /\ Own(v, q) \notin A /\ Their(v, q) \notin B
        BY <1>0, <1>1, <1>5
      <3>2. Own(v, q) \in C \/ Their(v, q) \in D
        BY <1>2, <1>6, <2>1, <2>4, <3>1
      <3>3. Close(A \cup {Own(v, q)}, B \cup {Their(v, q)}, C, D)
        BY <1>8, <3>1, <3>2, OneTaken
      <3>4. Close(Owns(v, S2), Theirs(v, S2), Owns(v, T2), Theirs(v, T2))
        BY <1>3, <2>4, <3>1, <3>3 DEF C, D
      <3> QED BY <2>2, <3>4, CloseIsNear
    <2>5. ASSUME NEW r \in left, T2 = T \cup {r}, S2 = S, free = {} PROVE Near(v, p, S2, T2)
      <3>1. r \in K /\ Own(v, r) \notin C /\ Their(v, r) \notin D
        BY <1>0, <1>2, <1>6
      <3>2. Own(v, r) \in A \/ Their(v, r) \in B
        BY <1>1, <1>5, <2>5, <3>1
      <3>3. Close(C \cup {Own(v, r)}, D \cup {Their(v, r)}, A, B)
        BY <1>8, <3>1, <3>2, OneTaken, CloseSymmetric
      <3>4. Close(Owns(v, S2), Theirs(v, S2), Owns(v, T2), Theirs(v, T2))
        BY <1>4, <2>5, <3>1, <3>3, CloseSymmetric DEF A, B
      <3> QED BY <2>2, <3>4, CloseIsNear
    <2>6. ASSUME NEW q \in free, IsBest(v, q, free), S2 = S \cup {q},
                 NEW r \in left, IsBest(v, r, left), T2 = T \cup {r}
          PROVE  Near(v, p, S2, T2)
      <3>1. q \in K /\ Own(v, q) \notin A /\ Their(v, q) \notin B
        BY <1>0, <1>1, <1>5
      <3>2. r \in K /\ Own(v, r) \notin C /\ Their(v, r) \notin D
        BY <1>0, <1>2, <1>6
      <3>3. Own(v, q) = Own(v, r)
        BY <3>1, <3>2
      <3>4. Close(A \cup {Own(v, q)}, B \cup {Their(v, q)}, C \cup {Own(v, r)}, D \cup {Their(v, r)})
        <4>1. CASE q = r
          BY <1>8, <3>1, <3>2, <4>1, SameTaken DEF Close
        <4>2. CASE q # r
          <5>1. Their(v, q) # Their(v, r)
            BY <3>1, <3>2, <3>3, <4>2, SidesOfPair
          <5>2. Their(v, q) \in D \/ Their(v, r) \in B
            <6>1. SUFFICES ASSUME Their(v, q) \notin D, Their(v, r) \notin B PROVE FALSE
              OBVIOUS
            <6>2. q \in left /\ r \in free
              BY <1>1, <1>2, <1>5, <1>6, <2>1, <3>1, <3>2, <3>3, <6>1
            <6>3. free \in SUBSET Pairs /\ left \in SUBSET Pairs
              BY <1>0
            <6> QED BY <2>6, <3>3, <4>2, <6>2, <6>3, BestDiffer
          <5> QED BY <1>8, <3>1, <3>2, <3>3, <5>1, <5>2, OtherTaken
        <4> QED BY <4>1, <4>2
      <3>5. Close(Owns(v, S2), Theirs(v, S2), Owns(v, T2), Theirs(v, T2))
        BY <1>3, <1>4, <2>6, <3>1, <3>2, <3>4
      <3> QED BY <2>2, <3>5, CloseIsNear
    <2> QED BY <1>0, <2>3, <2>4, <2>5, <2>6
  <1> QED BY <1>7, <1>8 DEF Near, A, B, C, D

\* Rejecting takes one pair away from what is offered.
LEMMA OfferedAfterRejecting ==
    ASSUME NEW rows \in Seq(Decisions), NEW p \in Pairs, NEW later,
           \/ later = Append(rows, [pair |-> p, decision |-> "rejected"])
           \/ \E k \in DOMAIN rows :
                 /\ rows[k].pair = p /\ rows[k] # [pair |-> p, decision |-> "rejected"]
                 /\ later = [rows EXCEPT ![k] = [pair |-> p, decision |-> "rejected"]],
           NEW v \in Viewers, NEW t \in Resolving, NEW j \in Nat \ {0}
    PROVE  /\ later \in Seq(Decisions)
           /\ \/ Offered(later, v, t, j) = Offered(rows, v, t, j)
              \/ Offered(later, v, t, j) = Offered(rows, v, t, j) \ {p}
  <1>0. PICK d \in Decisions : d = [pair |-> p, decision |-> "rejected"]
    BY DEF Decisions
  <1>1. Len(rows) \in Nat /\ DOMAIN rows = 1..Len(rows)
    OBVIOUS
  <1>2. PICK k \in Nat \ {0} :
           /\ k \in DOMAIN later /\ later[k] = d
           /\ DOMAIN later = DOMAIN rows \cup {k}
           /\ \A i \in DOMAIN rows : i # k => later[i] = rows[i]
           /\ k \in DOMAIN rows => rows[k] = [pair |-> p, decision |-> "accepted"]
           /\ later \in Seq(Decisions)
    <2>1. CASE later = Append(rows, d)
      <3>1. /\ later \in Seq(Decisions) /\ DOMAIN later = 1..(Len(rows) + 1)
            /\ later[Len(rows) + 1] = d /\ \A i \in 1..Len(rows) : later[i] = rows[i]
        BY <2>1
      <3>2. Len(rows) + 1 \in Nat \ {0} /\ Len(rows) + 1 \notin DOMAIN rows
            /\ 1..(Len(rows) + 1) = DOMAIN rows \cup {Len(rows) + 1}
        BY <1>1
      <3> WITNESS Len(rows) + 1 \in Nat \ {0}
      <3> QED BY <1>1, <3>1, <3>2
    <2>2. ASSUME NEW i \in DOMAIN rows, rows[i].pair = p, rows[i] # d, later = [rows EXCEPT ![i] = d]
          PROVE  /\ i \in Nat \ {0} /\ i \in DOMAIN later /\ later[i] = d
                 /\ DOMAIN later = DOMAIN rows \cup {i}
                 /\ \A l \in DOMAIN rows : l # i => later[l] = rows[l]
                 /\ i \in DOMAIN rows => rows[i] = [pair |-> p, decision |-> "accepted"]
                 /\ later \in Seq(Decisions)
      <3>1. rows[i] \in Decisions
        OBVIOUS
      <3>2. rows[i] = [pair |-> p, decision |-> "accepted"]
        BY <1>0, <2>2, <3>1 DEF Decisions
      <3>3. DOMAIN later = DOMAIN rows /\ later[i] = d /\ \A l \in DOMAIN rows : l # i => later[l] = rows[l]
        BY <2>2
      <3>4. later \in Seq(Decisions)
        BY <2>2
      <3>5. i \in Nat \ {0} /\ DOMAIN rows \cup {i} = DOMAIN rows
        BY <1>1
      <3> QED BY <3>2, <3>3, <3>4, <3>5
    <2> QED BY <1>0, <2>1, <2>2
  <1>3. \A q, i, e : i # k => (Decided(later, e, i, q) <=> Decided(rows, e, i, q))
    BY <1>2 DEF Decided
  <1>4. \A q : ~Decided(later, "accepted", k, q) /\ (Decided(later, "rejected", k, q) <=> q = p)
    BY <1>0, <1>2 DEF Decided
  <1>5. \A q : ~Decided(rows, "rejected", k, q) /\ (Decided(rows, "accepted", k, q) => q = p)
    BY <1>2 DEF Decided
  <1>6. RejectedIn(later) = RejectedIn(rows) \cup {p}
    <2>1. ASSUME NEW q \in Pairs
          PROVE  (\E i \in DOMAIN later : Decided(later, "rejected", i, q))
                 <=> q = p \/ (\E i \in DOMAIN rows : Decided(rows, "rejected", i, q))
      <3>1. ASSUME NEW i \in DOMAIN later, Decided(later, "rejected", i, q), q # p
            PROVE  i \in DOMAIN rows /\ Decided(rows, "rejected", i, q)
        BY <1>2, <1>3, <1>4, <3>1
      <3>2. ASSUME NEW i \in DOMAIN rows, Decided(rows, "rejected", i, q)
            PROVE  i \in DOMAIN later /\ Decided(later, "rejected", i, q)
        BY <1>2, <1>3, <1>5, <3>2
      <3> QED BY <1>2, <1>4, <3>1, <3>2
    <2> QED BY <2>1 DEF RejectedIn
  <1>7. CASE t = "accepted" /\ j # k
    BY <1>2, <1>3, <1>7 DEF Offered
  <1>8. CASE t = "accepted" /\ j = k
    BY <1>2, <1>4, <1>5, <1>8 DEF Offered
  <1>9. CASE t # "accepted"
    BY <1>2, <1>6, <1>9 DEF Offered
  <1> QED BY <1>7, <1>8, <1>9

\* As many matches as accounts of the viewer, since each is matched once.
LEMMA CountOwn ==
    ASSUME NEW v \in Viewers, NEW S \in SUBSET Pairs, \A p, q \in S : Share(p, q) => p = q
    PROVE  /\ IsFiniteSet(Owns(v, S)) /\ Cardinality(Owns(v, S)) = Cardinality(S)
           /\ Cardinality(S) \in Nat
  <1>1. IsFiniteSet(Pairs)
    <2>1. IsFiniteSet(1..SenderSize) /\ IsFiniteSet(1..ReceiverSize)
      BY FS_Interval, MatchingAssumption
    <2> QED BY <2>1, FS_Product DEF Pairs
  <1>2. IsFiniteSet(S) /\ Cardinality(S) \in Nat
    BY <1>1, FS_Subset, FS_CardinalityType
  <1> DEFINE f == [p \in S |-> Own(v, p)]
  <1>3. f \in Surjection(S, Owns(v, S))
    BY DEF Surjection, Owns
  <1>4. f \in Injection(S, Owns(v, S))
    <2>1. \A p, q \in S : Own(v, p) = Own(v, q) => p = q
      BY SharesOwn
    <2> QED BY <2>1 DEF Injection, IsInjective, Owns
  <1> QED BY <1>2, <1>3, <1>4, FS_Surjection

LEMMA CloseCounts ==
    ASSUME NEW A, NEW B, NEW C, NEW D, IsFiniteSet(A), IsFiniteSet(C), Close(A, B, C, D)
    PROVE  Cardinality(C) - Cardinality(A) \in -1..1
  <1>1. Cardinality(A) \in Nat /\ Cardinality(C) \in Nat
    BY FS_CardinalityType
  <1>2. CASE A = C
    BY <1>1, <1>2
  <1>3. CASE Lacks(A, B, C, D)
    <2>1. PICK a : a \notin C /\ A = C \cup {a}
      BY <1>3 DEF Lacks
    <2>2. Cardinality(A) = Cardinality(C) + 1
      BY <2>1, FS_AddElement
    <2> QED BY <1>1, <2>2
  <1>4. CASE Lacks(C, D, A, B)
    <2>1. PICK c : c \notin A /\ C = A \cup {c}
      BY <1>4 DEF Lacks
    <2>2. Cardinality(C) = Cardinality(A) + 1
      BY <2>1, FS_AddElement
    <2> QED BY <1>1, <2>2
  <1>5. CASE Moved(A, C)
    <2>1. PICK a, c : a \notin C /\ c \notin A /\ A \cup {c} = C \cup {a}
      BY <1>5 DEF Moved
    <2>2. Cardinality(A \cup {c}) = Cardinality(A) + 1 /\ Cardinality(C \cup {a}) = Cardinality(C) + 1
      BY <2>1, FS_AddElement
    <2> QED BY <1>1, <2>1, <2>2
  <1> QED BY <1>2, <1>3, <1>4, <1>5 DEF Close, Apart

LEMMA RejectingCounts ==
    ASSUME TypeOK, NEW v \in Viewers, NEW p \in Pairs,
           NEW rows \in Seq(Decisions), NEW later, NEW O, NEW N,
           \/ later = Append(rows, [pair |-> p, decision |-> "rejected"])
           \/ \E k \in DOMAIN rows :
                 /\ rows[k].pair = p /\ rows[k] # [pair |-> p, decision |-> "rejected"]
                 /\ later = [rows EXCEPT ![k] = [pair |-> p, decision |-> "rejected"]],
           Complete(rows, O, v), Complete(later, N, v)
    PROVE  Cardinality(Resolved(N)) - Cardinality(Resolved(O)) \in -1..1
  <1> DEFINE R == {x \in (SUBSET Pairs) \X (SUBSET Pairs) : Near(v, p, x[1], x[2])}
  <1>0. /\ later \in Seq(Decisions)
        /\ Resolved(O) \in SUBSET Pairs /\ Resolved(N) \in SUBSET Pairs
    <2>1. later \in Seq(Decisions)
      BY OfferedAfterRejecting, 1 \in Nat \ {0}, "auto" \in Resolving DEF Resolving
    <2> QED BY <2>1 DEF Complete, Resolved, Results
  <1>1. ASSUME NEW t \in Resolving, NEW j \in Nat \ {0},
               NEW S \in SUBSET Resolved(O), NEW T \in SUBSET Resolved(N),
               NEW S2 \in SUBSET Resolved(O), NEW T2 \in SUBSET Resolved(N), <<S, T>> \in R,
               Takes(v, S, Offered(rows, v, t, j), S2), Takes(v, T, Offered(later, v, t, j), T2)
        PROVE  <<S2, T2>> \in R
    <2> DEFINE K == Offered(rows, v, t, j)
               L == Offered(later, v, t, j)
    <2>1. K \in SUBSET Pairs /\ \A q, x \in K : Own(v, q) = Own(v, x)
      BY OfferedShare
    <2>2. L = K \/ L = K \ {p}
      BY OfferedAfterRejecting
    <2>3. S \in SUBSET Pairs /\ T \in SUBSET Pairs /\ S2 \in SUBSET Pairs /\ T2 \in SUBSET Pairs
      BY <1>0
    <2>4. Near(v, p, S, T)
      BY <1>1
    <2> HIDE DEF K, L
    <2>5. Near(v, p, S2, T2)
      BY <1>1, <2>1, <2>2, <2>3, <2>4, RejectingStep DEF K, L
    <2> QED BY <2>3, <2>5
  <1>2. StepsKeep(R, v, rows, later, O, N) /\ <<{}, {}>> \in R
    <2>1. <<{}, {}>> \in R
      BY DEF Near
    <2> HIDE DEF R
    <2> QED BY <1>1, <2>1 DEF StepsKeep
  <1> HIDE DEF R
  <1>3. <<Resolved(O), Resolved(N)>> \in R
    BY <1>0, <1>2, Lockstep
  <1>4. Near(v, p, Resolved(O), Resolved(N))
    BY <1>3 DEF R
  <1>5. \A res : Complete(rows, res, v) \/ Complete(later, res, v) =>
            \A q, x \in Resolved(res) : Share(q, x) => q = x
    BY DEF Complete, Resolved, Matched
  <1>6. /\ IsFiniteSet(Owns(v, Resolved(O))) /\ Cardinality(Owns(v, Resolved(O))) = Cardinality(Resolved(O))
        /\ IsFiniteSet(Owns(v, Resolved(N))) /\ Cardinality(Owns(v, Resolved(N))) = Cardinality(Resolved(N))
    BY <1>0, <1>5, CountOwn
  <1>7. Close(Owns(v, Resolved(O)), Theirs(v, Resolved(O)), Owns(v, Resolved(N)), Theirs(v, Resolved(N)))
    BY <1>4 DEF Near, Close
  <1> QED BY <1>6, <1>7, CloseCounts

\* Rejecting a pair changes the count of each viewer by one at most.
THEOREM RejectingTheorem == Spec => []RejectingShiftsByOne
  <1>1. IInv /\ Explained => RejectingShiftsByOne
    <2>1. SUFFICES ASSUME IInv, Explained, Done, NEW v \in Viewers, NEW p \in Pairs,
                          last = <<[pair |-> p, decision |-> "rejected"]>>
                   PROVE  Cardinality(Resolved(result[v])) - Cardinality(Resolved(before[v])) \in -1..1
      BY DEF RejectingShiftsByOne
    <2>2. PICK rows \in Seq(Decisions), d \in Decisions :
              last = <<d>> /\ DecidedOver(rows, d) /\ Complete(rows, before[v], v)
      BY <2>1 DEF Explained, BeforeExplained
    <2>3. d = [pair |-> p, decision |-> "rejected"] /\ d.pair = p
      BY <2>1, <2>2
    <2>4. \/ decisions = Append(rows, [pair |-> p, decision |-> "rejected"])
          \/ \E k \in DOMAIN rows :
                /\ rows[k].pair = p /\ rows[k] # [pair |-> p, decision |-> "rejected"]
                /\ decisions = [rows EXCEPT ![k] = [pair |-> p, decision |-> "rejected"]]
      BY <2>2, <2>3 DEF DecidedOver
    <2>5. TypeOK /\ Complete(decisions, result[v], v) /\ Complete(rows, before[v], v)
      BY <2>1, <2>2, DoneIsComplete DEF IInv
    <2> QED BY <2>4, <2>5, RejectingCounts, Zenon
  <1> QED BY <1>1, ExplainedInvariant, PTL
==============================================================================
