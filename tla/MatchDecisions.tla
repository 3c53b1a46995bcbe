---------------------------- MODULE MatchDecisions ----------------------------
(***************************************************************************)
(* Which accounts a decision is about.  setMatchDecision stores, for one   *)
(* connection, the ids of two accounts and their names; an update or a new *)
(* list replaces all ids, so that toDecisionOptions has to look for the    *)
(* accounts again by their names, each user for the own side and the       *)
(* other's.  The matching with the pairs found is module AccountMatching.  *)
(*                                                                         *)
(* Names stand for normalized names, Score for their similarity: 0 when it *)
(* is below the threshold.  A row is kept as the sender sees it: "your" is *)
(* the sender's account.                                                   *)
(***************************************************************************)
EXTENDS Integers, FiniteSets, SequencesExt

CONSTANTS
    Names,          \* that accounts may have, on each side
    Score,          \* jaroWinkler of two different names, from the threshold up
    MaxAccounts,    \* bound: accounts in the list of each side
    MaxDecisions,   \* bound: rows
    MaxReplaced     \* bound: lists replaced

\* What the constants have to be; assumed by the module that instantiates this one.
DecisionsAssumption ==
    /\ DOMAIN Names = {"sender", "receiver"}
    /\ \A s \in DOMAIN Names : DOMAIN Score[s] = Names[s] \X Names[s]
    /\ MaxAccounts \in [{"sender", "receiver"} -> Nat]
    /\ MaxDecisions \in Nat /\ MaxReplaced \in Nat

VARIABLES
    accounts,   \* names of the accounts of each side's active list, in order
    version,    \* lists each side had before: with the position, an account's id
    rows,       \* account_match_decisions of the connection, oldest first
    deciding    \* the row that a setMatchDecision is about to write, if any

vars == <<accounts, version, rows, deciding>>

Sides == {"sender", "receiver"}
Other(s) == IF s = "sender" THEN "receiver" ELSE "sender"
ListsOf(s) == BoundedSeq(Names[s], MaxAccounts[s])
Ids(s) == (0..MaxReplaced) \X (1..MaxAccounts[s])
Row == [your : Ids("sender"), their : Ids("receiver"), yourName : Names["sender"],
        theirName : Names["receiver"],
        decision : {"accepted", "rejected"}]

------------------------------------------------------------------------------
(* setMatchDecision: the lists are read, then the row is written, whatever *)
(* the lists are by then.  Bound: one request at a time; those of two      *)
(* users meet in one upsert of the database only.                          *)

\* toCanonicalPair and its names; i and j are positions in the user's own list
\* and in the other's.
CanonicalRow(v, i, j, d) ==
    LET s == IF v = "sender" THEN i ELSE j
        t == IF v = "sender" THEN j ELSE i
    IN  [your |-> <<version["sender"], s>>, their |-> <<version["receiver"], t>>,
         yourName |-> accounts["sender"][s], theirName |-> accounts["receiver"][t],
         decision |-> d]

SameAccounts(a, b) == a.your = b.your /\ a.their = b.their

\* mutant: a pair that was decided before gets a row of its own again.
Appended(row) == Append(rows, row)

Upserted(row) ==
    IF \E k \in DOMAIN rows : SameAccounts(rows[k], row)
    THEN [k \in DOMAIN rows |-> IF SameAccounts(rows[k], row) THEN row ELSE rows[k]]
    ELSE Append(rows, row)

SetMatchDecision(v, i, j, d) ==
    /\ deciding = <<>>
    /\ i \in DOMAIN accounts[v] /\ j \in DOMAIN accounts[Other(v)]
    /\ Len(Upserted(CanonicalRow(v, i, j, d))) <= MaxDecisions
    /\ deciding' = <<CanonicalRow(v, i, j, d)>>
    /\ UNCHANGED <<accounts, version, rows>>

UpsertDecision ==
    /\ deciding # <<>>
    /\ rows' = Upserted(Head(deciding))
    /\ deciding' = <<>>
    /\ UNCHANGED <<accounts, version>>

\* Another list is published, or the accounts of this one are updated.
ReplaceAccounts(s, names) ==
    /\ version["sender"] + version["receiver"] < MaxReplaced
    /\ accounts' = [accounts EXCEPT ![s] = names]
    /\ version' = [version EXCEPT ![s] = @ + 1]
    /\ UNCHANGED <<rows, deciding>>

\* The decisions go with the connection, and nobody knows the old ids any more.
DeleteConnection ==
    /\ rows' = <<>> /\ deciding' = <<>>
    /\ version' = [s \in Sides |-> 0]
    /\ UNCHANGED accounts

------------------------------------------------------------------------------
(* toDecisionOptions, computed by user v *)

Oriented(v, pair) == IF v = "sender" THEN pair ELSE <<pair[2], pair[1]>>

\* mutant: the names are taken as stored, whoever asks.
SnapshotAsStored(v, row) == <<row.yourName, row.theirName>>

\* toCurrentUserSnapshotPair.
Snapshot(v, row) == Oriented(v, <<row.yourName, row.theirName>>)

Present(s, id) == id[1] = version[s] /\ id[2] \in DOMAIN accounts[s]

First(positions) == CHOOSE i \in positions : \A j \in positions : i <= j

Similar(s, name) == {i \in DOMAIN accounts[s] : Score[s][name, accounts[s][i]] > 0}

\* mutant: the first account of a similar name will do.
BestFirstFound(s, name) ==
    IF Similar(s, name) = {} THEN {} ELSE {First(Similar(s, name))}

\* findBestAccountForSnapshot: the first of that name, or of the most similar.
Best(s, name) ==
    LET exact == {i \in DOMAIN accounts[s] : accounts[s][i] = name}
        best  == {i \in Similar(s, name) : \A j \in Similar(s, name) :
                     Score[s][name, accounts[s][j]] <= Score[s][name, accounts[s][i]]}
    IN  CASE exact # {} -> {First(exact)}
          [] exact = {} /\ best # {} -> {First(best)}
          [] OTHER -> {}

\* mutant: a decision on replaced accounts is dropped.
ResolvePresent(v, row) ==
    LET ids == Oriented(v, <<row.your, row.their>>)
    IN  IF Present(v, ids[1]) /\ Present(Other(v), ids[2])
        THEN {<<ids[1][2], ids[2][2]>>} ELSE {}

\* resolveDecisionPairForCurrentAccounts: both accounts by their ids or both by
\* their names, as positions in the user's own list and in the other's.
Resolve(v, row) ==
    LET ids   == Oriented(v, <<row.your, row.their>>)
        names == Snapshot(v, row)
    IN  IF Present(v, ids[1]) /\ Present(Other(v), ids[2])
        THEN {<<ids[1][2], ids[2][2]>>}
        ELSE Best(v, names[1]) \X Best(Other(v), names[2])

DecidedPairs(v, d) ==
    UNION {Resolve(v, rows[k]) : k \in {k \in DOMAIN rows : rows[k].decision = d}}

\* Under which names an accepted match is announced: those of the last row.
AcceptedKey(v, pair) ==
    LET accepting == {k \in DOMAIN rows : rows[k].decision = "accepted"
                                          /\ pair \in Resolve(v, rows[k])}
        latest == CHOOSE k \in accepting : \A l \in accepting : l <= k
    IN  Oriented(v, Snapshot(v, rows[latest]))

DecisionOptions(v) ==
    [accepted |-> {<<Oriented(v, p), AcceptedKey(v, p)>> : p \in DecidedPairs(v, "accepted")},
     rejected |-> {Oriented(v, p) : p \in DecidedPairs(v, "rejected")}]

------------------------------------------------------------------------------

Init ==
    /\ \E l \in ListsOf("sender"), m \in ListsOf("receiver") :
         accounts = [s \in Sides |-> IF s = "sender" THEN l ELSE m]
    /\ version = [s \in Sides |-> 0]
    /\ rows = <<>>
    /\ deciding = <<>>

Next ==
    \/ \E v \in Sides, d \in {"accepted", "rejected"} :
         \E i \in 1..MaxAccounts[v], j \in 1..MaxAccounts[Other(v)] :
             SetMatchDecision(v, i, j, d)
    \/ UpsertDecision
    \/ \E s \in Sides : \E names \in ListsOf(s) : ReplaceAccounts(s, names)
    \/ DeleteConnection

Spec == Init /\ [][Next]_vars

------------------------------------------------------------------------------
(* Properties *)

\* The types of the lists and the rows; no pair of accounts has two rows.
TypeOK ==
    /\ DOMAIN accounts = Sides
    /\ \A s \in Sides : accounts[s] \in Seq(Names[s]) /\ Len(accounts[s]) <= MaxAccounts[s]
    /\ version \in [Sides -> 0..MaxReplaced]
    /\ rows \in Seq(Row) /\ Len(rows) <= MaxDecisions
    /\ \A k, l \in DOMAIN rows : SameAccounts(rows[k], rows[l]) => k = l

\* Both users take every decision for the same two accounts, whoever made it
\* and whichever lists were replaced since, and would announce an accepted
\* match under the same names: a match is claimed once and not once per viewer.
MirroredViews == DecisionOptions("sender") = DecisionOptions("receiver")

NamesOf(v, pair) == <<accounts[v][pair[1]], accounts[Other(v)][pair[2]]>>

\* A decision is about the two names it was made for as long as both lists hold
\* them, however often the lists are replaced, before or after it is written
\* and under whatever order, duplicates and similar names the new lists have.
DecisionFollowsItsNames ==
    \A v \in Sides, k \in DOMAIN rows :
        LET names == Oriented(v, <<rows[k].yourName, rows[k].theirName>>)
        IN  names[1] \in ToSet(accounts[v]) /\ names[2] \in ToSet(accounts[Other(v)]) =>
                {NamesOf(v, p) : p \in Resolve(v, rows[k])} = {names}

\* Replacing a list by one with the same names in the same order changes no
\* decision and no announcement, the decisions taken over to similar names
\* included, when no list holds a name twice.
ReplacedBySame ==
    /\ \E s \in Sides : ReplaceAccounts(s, accounts[s])
    /\ \A s \in Sides : IsInjective(accounts[s])

NamedOptions(v) ==
    [accepted |-> {<<NamesOf(v, p), AcceptedKey(v, p)>> : p \in DecidedPairs(v, "accepted")},
     rejected |-> {NamesOf(v, p) : p \in DecidedPairs(v, "rejected")}]

SameFileChangesNothing ==
    [][ReplacedBySame => \A v \in Sides : NamedOptions(v)' = NamedOptions(v)]_vars
==============================================================================
