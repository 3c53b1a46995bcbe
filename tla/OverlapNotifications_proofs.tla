--------------------- MODULE OverlapNotifications_proofs ---------------------
(* Theorems about OverlapNotifications, for any lists, names and matching, any *)
(* number of concurrent requests and of changes: above all that it implements  *)
(* TellOnce.                                                                   *)
EXTENDS OverlapNotifications, FiniteSetTheorems, TLAPS

\* What a request has won is claimed, was told to nobody and is won by no other
\* request; what was told is claimed.
WonIsClaimed == \A r \in Requests : req[r].won \subseteq claimed
WonIsUntold  == \A r \in Requests : \A c \in req[r].won : told[c] = 0
WonOnce      == \A r, q \in Requests : r # q => req[r].won \cap req[q].won = {}
ToldIsClaimed == \A c \in Claims : told[c] = 0 \/ c \in claimed

\* What a request announces is one matching.
Matched == \A r \in Requests : OneToOne(req[r].resolved)

Winning == WonIsClaimed /\ WonIsUntold /\ WonOnce /\ ToldIsClaimed /\ Matched

IInv == TypeOK /\ Winning

------------------------------------------------------------------------------
(* Types of what the handlers compute *)

LEMMA PairsFinite ==
    /\ IsFiniteSet(Accounts("sender")) /\ IsFiniteSet(Accounts("receiver"))
    /\ IsFiniteSet(Pairs)
  <1>1. IsFiniteSet(Accounts("sender")) /\ IsFiniteSet(Accounts("receiver"))
    BY OverlapAssumption DEF Sides
  <1> QED BY <1>1, FS_Product DEF Pairs

LEMMA CountsNat == Cardinality(Pairs) \in Nat /\ Counts \subseteq Nat /\ 0 \in Counts
  <1>1. Cardinality(Pairs) \in Nat
    BY PairsFinite, FS_CardinalityType
  <1> QED BY <1>1 DEF Counts

LEMMA CountTyped ==
    ASSUME NEW pairs, pairs \subseteq Pairs
    PROVE  /\ IsFiniteSet(pairs) /\ Cardinality(pairs) \in Nat
           /\ Cardinality(pairs) \in Counts
  <1>1. Cardinality(pairs) <= Cardinality(Pairs) /\ IsFiniteSet(pairs)
    BY PairsFinite, FS_Subset
  <1>2. Cardinality(pairs) \in Nat
    BY <1>1, FS_CardinalityType
  <1> QED BY <1>1, <1>2, CountsNat DEF Counts

LEMMA LargerTyped ==
    ASSUME NEW a \in Counts \cup {Null}, NEW b \in Counts
    PROVE  Larger(a, b) \in Counts /\ Larger(b, a) \in Counts
  BY CountsNat DEF Larger, Null

LEMMA OtherSide == \A s \in Sides : Other(s) \in Sides
  BY DEF Other, Sides

LEMMA ListTyped == ASSUME NEW s \in Sides, NEW x \in Lists[s]
                   PROVE  x \in SUBSET (Accounts("sender") \cup Accounts("receiver"))
  <1>1. x \subseteq Accounts(s)
    BY DEF Accounts
  <1> QED BY <1>1 DEF Sides

LEMMA ListedChanged ==
    ASSUME NEW l \in Listed, NEW s \in Sides, NEW x \in Lists[s]
    PROVE  [l EXCEPT ![s] = x] \in Listed
  BY ListTyped DEF Listed

LEMMA ListedHolds ==
    ASSUME NEW l \in Listed, NEW s \in Sides
    PROVE  l[s] \in Lists[s] /\ [l EXCEPT ![s] = {}] \in Listed
  <1>1. {} \in Lists[s]
    BY OverlapAssumption
  <1> QED BY <1>1, ListedChanged DEF Listed

LEMMA KeysTyped ==
    ASSUME NEW pairs, pairs \subseteq Pairs
    PROVE  Sides \X Keys(pairs) \subseteq Claims
  BY DEF Keys, Claims

LEMMA ResolvedTyped ==
    ASSUME NEW r, Side(r) \in Sides, req[r].lists \in Listed, NEW d \in Decisions
    PROVE  Resolved(r, d) \subseteq Pairs /\ OneToOne(Resolved(r, d))
  <1> DEFINE a == req[r].lists["sender"]
             b == req[r].lists["receiver"]
  <1>1. a \in Lists["sender"] /\ b \in Lists["receiver"]
    BY ListedHolds DEF Sides
  <1>2. a \subseteq Accounts("sender") /\ b \subseteq Accounts("receiver")
    BY <1>1 DEF Accounts
  <1>3. /\ Matching[<<Side(r), a, b, d>>] \subseteq a \X b
        /\ OneToOne(Matching[<<Side(r), a, b, d>>])
    BY <1>1, OverlapAssumption
  <1> QED BY <1>2, <1>3 DEF Resolved, Pairs

LEMMA NoDecisionsTyped == NoDecisions \in Decisions
  BY DEF NoDecisions, Decisions

LEMMA ScriptTyped == \A path \in Paths \ {"none"} : Script(path) \in Seq(Statements)
  <1>1. Announce \in Seq(Statements)
    BY DEF Announce, Statements
  <1>2. /\ <<"yours", "connection", "theirs", "decisions">> \in Seq(Statements)
        /\ <<"connection", "yours", "theirs", "decisions">> \in Seq(Statements)
    BY DEF Statements
  <1>3. <<"connection", "yours", "theirs", "before", "decide", "after", "baseline">> \in Seq(Statements)
    BY DEF Statements
  <1>4. /\ <<"connection", "yours", "theirs", "decide">> \in Seq(Statements)
        /\ <<"connection", "yours", "theirs", "setMuted", "setObserved">> \in Seq(Statements)
    BY DEF Statements
  <1>5. /\ <<"connection", "clearMuted">> \in Seq(Statements)
        /\ <<"connection", "yours", "theirs", "clearIfMore">> \in Seq(Statements)
        /\ <<"resetObserved">> \in Seq(Statements)
    BY DEF Statements
  <1>6. Script("look") \in Seq(Statements) /\ Script("remap") \in Seq(Statements)
    BY <1>1, <1>2 DEF Script
  <1>7. Script("accept") \in Seq(Statements)
    BY <1>1, <1>3 DEF Script
  <1>8. Script("reject") \in Seq(Statements) /\ Script("mute") \in Seq(Statements)
    BY <1>4 DEF Script
  <1>9. /\ Script("unmute") \in Seq(Statements) /\ Script("connections") \in Seq(Statements)
        /\ Script("deleteList") \in Seq(Statements)
    BY <1>5 DEF Script
  <1> QED BY <1>6, <1>7, <1>8, <1>9 DEF Paths

LEMMA NothingMatched == OneToOne({})
  BY DEF OneToOne

LEMMA IdleTyped ==
    /\ Unread \in Row /\ Idle \in Request /\ Idle.won = {} /\ Idle.todo = <<>>
    /\ Idle.resolved = {} /\ NoLists \in Listed
  <1>1. Unread \in Row
    BY DEF Unread, Row
  <1>2. NoLists \in Listed
    <2>1. \A s \in Sides : {} \in Lists[s]
      BY OverlapAssumption
    <2> QED BY <2>1 DEF NoLists, Listed
  <1>3. {} \in SUBSET Claims /\ {} \in SUBSET Pairs /\ {} \in SUBSET Sides
    OBVIOUS
  <1>4. <<>> \in Seq(Statements) /\ "none" \in Paths /\ "sender" \in Sides
    BY DEF Paths, Sides
  <1> QED BY <1>1, <1>2, <1>3, <1>4, CountsNat DEF Idle, Request

------------------------------------------------------------------------------
(* The three ways a step moves a request: what it has won stays or is dropped, *)
(* what it announces stays a matching, and it goes on where its script does.   *)

Follows(r) ==
    \/ req'[r].todo = <<>> \/ req'[r].todo = req[r].todo
    \/ req[r].todo # <<>> /\ req'[r].todo = Tail(req[r].todo)
    \/ \E path \in Paths \ {"none"} : req'[r].todo = Script(path)

Moves(r, won) ==
    /\ req' \in [Requests -> Request]
    /\ \A q \in Requests \ {r} : req'[q] = req[q]
    /\ req'[r].won \subseteq won
    /\ OneToOne(req[r].resolved) => OneToOne(req'[r].resolved)
    /\ Follows(r)

LEMMA Ends ==
    ASSUME TypeOK, NEW r \in Requests, End(r)
    PROVE  Moves(r, {}) /\ req'[r] = Idle
  <1>1. req'[r] = Idle
    BY DEF TypeOK, End
  <1>2. req' \in [Requests -> Request] /\ \A q \in Requests \ {r} : req'[q] = req[q]
    BY IdleTyped DEF TypeOK, End
  <1> QED BY <1>1, <1>2, IdleTyped, NothingMatched DEF Moves, Follows

LEMMA Begins ==
    ASSUME TypeOK, NEW r \in Requests, NEW path \in Paths \ {"none"}, NEW s \in Sides,
           NEW p \in Pairs \cup {NoPair}, Begin(r, path, s, p)
    PROVE  Moves(r, {})
  <1> DEFINE new == [Idle EXCEPT !.todo = Script(path), !.path = path, !.side = s, !.pair = p]
  <1>1. new \in Request /\ new.won = {} /\ new.todo = Script(path) /\ new.resolved = {}
    BY IdleTyped, ScriptTyped DEF Request
  <1>2. req' = [req EXCEPT ![r] = new]
    BY DEF Begin
  <1> HIDE DEF new
  <1> QED BY <1>1, <1>2, NothingMatched DEF TypeOK, Moves, Follows

LEMMA Continues ==
    ASSUME TypeOK, NEW r \in Requests, NEW new \in Request, new.todo # <<>>,
           new.todo = req[r].todo, OneToOne(req[r].resolved) => OneToOne(new.resolved),
           Continue(r, new)
    PROVE  Moves(r, new.won)
  <1>1. CASE End(r)
    BY <1>1, Ends DEF Moves
  <1>2. CASE req' = [req EXCEPT ![r] = [new EXCEPT !.todo = Tail(@)]]
    <2>1. new.todo \in Seq(Statements)
      BY DEF Request
    <2>2. Tail(new.todo) \in Seq(Statements)
      BY <2>1
    <2>3. [new EXCEPT !.todo = Tail(@)] \in Request
      BY <2>2 DEF Request
    <2>4. /\ [new EXCEPT !.todo = Tail(@)].won = new.won
          /\ [new EXCEPT !.todo = Tail(@)].todo = Tail(new.todo)
          /\ [new EXCEPT !.todo = Tail(@)].resolved = new.resolved
      BY DEF Request
    <2> QED BY <1>2, <2>3, <2>4 DEF TypeOK, Moves, Follows
  <1> QED BY <1>1, <1>2 DEF Continue

\* The request that a statement is about.
LEMMA Serving ==
    ASSUME TypeOK, NEW r \in Requests, NEW s, At(r, s)
    PROVE  req[r] \in Request /\ req[r].todo # <<>>
  BY DEF TypeOK, At

------------------------------------------------------------------------------
(* Handlers that neither claim nor tell *)

\* What such a step of request r leaves alone, with the types.
Quiet(r) == TypeOK' /\ Moves(r, req[r].won) /\ UNCHANGED <<claimed, told>>

LEMMA MovesLess ==
    ASSUME NEW r \in Requests, Moves(r, {})
    PROVE  Moves(r, req[r].won)
  BY DEF Moves

LEMMA QuietOnlyMoves ==
    ASSUME TypeOK, NEW r \in Requests, Moves(r, req[r].won),
           UNCHANGED <<list, decision, row, claimed, told, hushed, owed, changes>>
    PROVE  Quiet(r)
  BY DEF TypeOK, Quiet, Moves

LEMMA QuietArrive ==
    ASSUME TypeOK, NEW r \in Requests, Arrive(r)
    PROVE  Quiet(r)
  <1> PICK s \in Sides : \/ Look(r, s) \/ GetConnections(r, s)
                         \/ \E accounts \in Lists[s] : PublishList(r, s, accounts)
                         \/ \E p \in Pairs : SetMatchDecision(r, s, p)
                         \/ MuteConnection(r, s) \/ UnmuteConnection(r, s)
                         \/ DeleteActiveList(r, s)
    BY DEF Arrive
  <1> USE DEF Paths
  <1>1. CASE Look(r, s) \/ GetConnections(r, s)
    <2>1. Moves(r, {})
      BY <1>1, Begins DEF Look, GetConnections
    <2> QED BY <1>1, <2>1, MovesLess, QuietOnlyMoves
            DEF Look, GetConnections, data, log
  <1>2. ASSUME Change PROVE changes' \in 0..MaxChanges
    BY <1>2, OverlapAssumption DEF Change, TypeOK
  <1>3. ASSUME NEW path \in Paths \ {"none"}, NEW p \in Pairs \cup {NoPair},
               UserActs(r, path, s, p)
        PROVE  Quiet(r)
    <2>1. Moves(r, {}) /\ changes' \in 0..MaxChanges
      BY <1>2, <1>3, Begins DEF UserActs
    <2>2. UNCHANGED <<list, decision, row, claimed, told, hushed, owed>>
      BY <1>3 DEF UserActs, data
    <2> QED BY <2>1, <2>2, MovesLess DEF TypeOK, Quiet, Moves
  <1>4. CASE \E p \in Pairs : SetMatchDecision(r, s, p)
    BY <1>3, <1>4 DEF SetMatchDecision
  <1>5. CASE MuteConnection(r, s) \/ UnmuteConnection(r, s)
    BY <1>3, <1>5 DEF MuteConnection, UnmuteConnection
  <1>6. ASSUME NEW accounts \in Lists[s], Change,
               list' = [list EXCEPT ![s] = accounts], Moves(r, {}),
               UNCHANGED <<decision, row, claimed, told, hushed, owed>>
        PROVE  Quiet(r)
    <2>1. list' \in Listed
      BY <1>6, ListedChanged DEF TypeOK
    <2> QED BY <1>2, <1>6, <2>1, MovesLess DEF TypeOK, Quiet, Moves
  <1>7. CASE \E accounts \in Lists[s] : PublishList(r, s, accounts)
    BY <1>6, <1>7, Begins DEF PublishList
  <1>8. CASE DeleteActiveList(r, s)
    <2>1. Moves(r, {}) /\ {} \in Lists[s]
      BY <1>8, Begins, OverlapAssumption DEF DeleteActiveList
    <2>2. /\ Change /\ list' = [list EXCEPT ![s] = {}]
          /\ UNCHANGED <<decision, row, claimed, told, hushed, owed>>
      BY <1>8 DEF DeleteActiveList
    <2> QED BY <1>6, <2>1, <2>2
  <1> QED BY <1>1, <1>4, <1>5, <1>7, <1>8

LEMMA QuietRead ==
    ASSUME TypeOK, NEW r \in Requests,
           \/ ReadConnection(r) \/ ReadYours(r) \/ ReadTheirs(r)
           \/ ReadDecisions(r) \/ CountBefore(r)
    PROVE  Quiet(r)
  <1>1. req[r] \in Request /\ req[r].todo # <<>>
    BY Serving DEF ReadConnection, ReadYours, ReadTheirs, ReadDecisions, CountBefore
  <1>2. UNCHANGED <<list, decision, row, claimed, told, hushed, owed, changes>>
    BY DEF ReadConnection, ReadYours, ReadTheirs, ReadDecisions, CountBefore, data, log
  <1>3. SUFFICES Moves(r, req[r].won)
    BY <1>2, QuietOnlyMoves
  <1>4. ASSUME End(r) PROVE Moves(r, req[r].won)
    BY <1>4, Ends, MovesLess
  <1>5. ASSUME NEW new \in Request, Continue(r, new), new.todo = req[r].todo, new.won = req[r].won,
               OneToOne(req[r].resolved) => OneToOne(new.resolved)
        PROVE  Moves(r, req[r].won)
    BY <1>1, <1>5, Continues
  <1>6. Side(r) \in Sides /\ req[r].lists \in Listed /\ list \in Listed /\ decision \in Decisions
    BY <1>1 DEF TypeOK, Request, Side
  <1>7. CASE ReadConnection(r)
    <2> DEFINE new == [req[r] EXCEPT !.seen = row]
    <2>1. new \in Request /\ new.todo = req[r].todo /\ new.won = req[r].won
          /\ new.resolved = req[r].resolved
      BY <1>1 DEF TypeOK, Request
    <2> QED BY <1>4, <1>5, <1>7, <2>1 DEF ReadConnection
  <1>8. ASSUME NEW lists \in Listed, Continue(r, [req[r] EXCEPT !.lists = lists])
        PROVE  Moves(r, req[r].won)
    <2> DEFINE new == [req[r] EXCEPT !.lists = lists]
    <2>1. new \in Request /\ new.todo = req[r].todo /\ new.won = req[r].won
          /\ new.resolved = req[r].resolved
      BY <1>1 DEF Request
    <2> QED BY <1>5, <1>8, <2>1
  <1>9. CASE ReadYours(r)
    <2> DEFINE s == Side(r)
               lists == [req[r].lists EXCEPT ![s] = list[s]]
    <2>1. lists \in Listed
      BY <1>6, ListedChanged, ListedHolds
    <2>2. [req[r] EXCEPT !.lists[s] = list[s]] = [req[r] EXCEPT !.lists = lists]
      BY <1>1 DEF Request
    <2>3. End(r) \/ Continue(r, [req[r] EXCEPT !.lists = lists])
      BY <1>9, <2>2 DEF ReadYours
    <2> HIDE DEF lists
    <2> QED BY <1>4, <1>8, <2>1, <2>3
  <1>10. CASE ReadTheirs(r)
    <2> DEFINE s == Other(Side(r))
               lists == [req[r].lists EXCEPT ![s] = list[s]]
    <2>1. s \in Sides
      BY <1>6, OtherSide
    <2>2. lists \in Listed
      BY <1>6, <2>1, ListedChanged, ListedHolds
    <2>3. End(r) \/ Continue(r, [req[r] EXCEPT !.lists = lists])
      BY <1>10 DEF ReadTheirs
    <2> HIDE DEF lists
    <2> QED BY <1>4, <1>8, <2>2, <2>3
  <1>11. CASE ReadDecisions(r)
    <2> DEFINE resolved == Resolved(r, decision)
               muted == Muted(Seen(r))
               new == [req[r] EXCEPT !.resolved = resolved, !.lists = NoLists,
                                     !.mutedAtDiscovery = muted]
    <2>1. resolved \subseteq Pairs /\ OneToOne(resolved)
      BY <1>6, ResolvedTyped
    <2>2. Continue(r, new) /\ muted \subseteq Sides
      BY <1>11 DEF ReadDecisions, Muted
    <2> HIDE DEF resolved, muted
    <2>3. new \in Request
      BY <1>1, <2>1, <2>2, IdleTyped DEF Request
    <2>4. new.todo = req[r].todo /\ new.won = req[r].won /\ new.resolved = resolved
      BY <1>1 DEF Request
    <2> HIDE DEF new
    <2> QED BY <1>5, <2>1, <2>2, <2>3, <2>4
  <1>12. CASE CountBefore(r)
    <2> DEFINE previous == Cardinality(Resolved(r, decision))
               new == [req[r] EXCEPT !.previous = previous]
    <2>1. Resolved(r, decision) \subseteq Pairs
      BY <1>6, ResolvedTyped
    <2>2. previous \in Counts /\ Continue(r, new)
      BY <1>12, <2>1, CountTyped DEF CountBefore
    <2> HIDE DEF previous
    <2>3. new \in Request /\ new.todo = req[r].todo /\ new.won = req[r].won
          /\ new.resolved = req[r].resolved
      BY <1>1, <2>2 DEF Request
    <2> HIDE DEF new
    <2> QED BY <1>5, <2>2, <2>3
  <1> QED BY <1>7, <1>9, <1>10, <1>11, <1>12

\* A new row of the connection and the histories are all that may change.
LEMMA QuietWrites ==
    ASSUME TypeOK, NEW r \in Requests, Moves(r, req[r].won),
           UNCHANGED <<list, claimed, told, changes>>,
           decision' \in Decisions, row' \in Row,
           hushed' \subseteq Claims, owed' \subseteq Claims
    PROVE  Quiet(r)
  BY DEF TypeOK, Quiet, Moves

LEMMA RowTyped ==
    ASSUME NEW c \in Row, NEW s \in Sides, NEW n \in Counts \cup {Null}
    PROVE  [c EXCEPT !.muted[s] = n] \in Row /\ [c EXCEPT !.observed = n] \in Row
  BY DEF Row

LEMMA HushTyped ==
    ASSUME TypeOK, NEW s \in Sides, NEW pairs, pairs \subseteq Pairs, Hush(s, pairs)
    PROVE  hushed' \subseteq Claims
  BY KeysTyped DEF TypeOK, Hush

LEMMA ServedTyped ==
    ASSUME TypeOK, NEW r \in Requests, NEW s, At(r, s)
    PROVE  /\ req[r] \in Request /\ Side(r) \in Sides /\ Seen(r) \in Row
           /\ Seen(r).observed \in Counts \cup {Null}
           /\ req[r].resolved \subseteq Pairs
           /\ Resolved(r, NoDecisions) \subseteq Pairs
           /\ SharedMatchCount(r) \in Counts
           /\ Cardinality(req[r].resolved) \in Counts
           /\ End(r) => Moves(r, req[r].won)
           /\ Continue(r, req[r]) => Moves(r, req[r].won)
  <1>1. req[r] \in Request /\ req[r].todo # <<>>
    BY Serving
  <1>2. /\ Side(r) \in Sides /\ Seen(r) \in Row /\ req[r].resolved \subseteq Pairs
        /\ req[r].lists \in Listed
    BY <1>1 DEF Request, Side, Seen
  <1>3. Seen(r).observed \in Counts \cup {Null}
    BY <1>2 DEF Row
  <1>4. Resolved(r, NoDecisions) \subseteq Pairs
    BY <1>2, ResolvedTyped, NoDecisionsTyped
  <1>5. SharedMatchCount(r) \in Counts /\ Cardinality(req[r].resolved) \in Counts
    BY <1>2, <1>4, CountTyped DEF SharedMatchCount
  <1>6. End(r) => Moves(r, req[r].won)
    BY Ends, MovesLess
  <1>7. Continue(r, req[r]) => Moves(r, req[r].won)
    BY <1>1, Continues
  <1> QED BY <1>1, <1>2, <1>3, <1>4, <1>5, <1>6, <1>7

LEMMA QuietDecide ==
    ASSUME TypeOK, NEW r \in Requests, UpsertDecision(r)
    PROVE  Quiet(r)
  <1>1. Moves(r, req[r].won)
    BY ServedTyped DEF UpsertDecision
  <1>2. decision' \in Decisions
    BY DEF UpsertDecision, TypeOK, Decisions
  <1>3. row' \in Row /\ hushed' \subseteq Claims /\ owed' \subseteq Claims
    BY DEF UpsertDecision, TypeOK, log
  <1> QED BY <1>1, <1>2, <1>3, QuietWrites DEF UpsertDecision, log

LEMMA QuietBaseline ==
    ASSUME TypeOK, NEW r \in Requests, StoreBaseline(r)
    PROVE  Quiet(r)
  <1>1. At(r, "baseline") /\ UNCHANGED <<list, decision, claimed, told, hushed, owed, changes>>
    BY DEF StoreBaseline, log
  <1>2. CASE Seen(r).observed = Null
    <2> DEFINE new == [req[r] EXCEPT !.seen.observed = req[r].previous]
    <2>1. req[r].previous \in Counts /\ req[r] \in Request /\ Seen(r) \in Row /\ req[r].todo # <<>>
      BY <1>1, Serving, ServedTyped DEF Request
    <2>2. row' = [row EXCEPT !.observed = req[r].previous]
      BY <1>2 DEF StoreBaseline
    <2>3. row' \in Row
      BY <2>1, <2>2 DEF Row, TypeOK
    <2>4. [req[r].seen EXCEPT !.observed = req[r].previous] \in Row
      BY <2>1 DEF Row, Seen
    <2>5. new \in Request
      BY <2>1, <2>4 DEF Request
    <2>6. new.todo = req[r].todo /\ new.won = req[r].won /\ new.resolved = req[r].resolved
      BY <2>1 DEF Request
    <2>7. Continue(r, new)
      BY <1>2 DEF StoreBaseline
    <2> HIDE DEF new
    <2>8. Moves(r, req[r].won)
      BY <2>1, <2>5, <2>6, <2>7, Continues
    <2> QED BY <1>1, <2>3, <2>8, QuietWrites DEF TypeOK
  <1>3. CASE Seen(r).observed # Null
    <2>1. Moves(r, req[r].won)
      BY <1>1, <1>3, ServedTyped DEF StoreBaseline
    <2> QED BY <1>1, <1>3, <2>1, QuietOnlyMoves DEF StoreBaseline
  <1> QED BY <1>2, <1>3

LEMMA QuietMute ==
    ASSUME TypeOK, NEW r \in Requests,
           SetMuted(r) \/ SetObserved(r) \/ ClearMuted(r) \/ ResetObserved(r)
    PROVE  Quiet(r)
  <1>1. CASE SetMuted(r)
    <2>1. At(r, "setMuted")
      BY <1>1 DEF SetMuted
    <2>2. Moves(r, req[r].won)
      BY <1>1, <2>1, ServedTyped DEF SetMuted
    <2>3. row' \in Row
      BY <1>1, <2>1, ServedTyped, RowTyped DEF SetMuted, TypeOK
    <2> QED BY <1>1, <2>2, <2>3, QuietWrites DEF SetMuted, TypeOK, log
  <1>2. CASE SetObserved(r)
    <2> DEFINE next == Larger(Seen(r).observed, SharedMatchCount(r))
    <2>1. At(r, "setObserved")
      BY <1>2 DEF SetObserved
    <2>2. Moves(r, req[r].won) /\ next \in Counts
      BY <1>2, <2>1, ServedTyped, LargerTyped DEF SetObserved
    <2>3. row' = [row EXCEPT !.observed = next]
      BY <1>2 DEF SetObserved
    <2>4. row' \in Row
      <3> HIDE DEF next
      <3> QED BY <2>2, <2>3, RowTyped DEF TypeOK, Sides
    <2> QED BY <1>2, <2>2, <2>4, QuietWrites DEF SetObserved, TypeOK, log
  <1>3. CASE ClearMuted(r)
    <2>1. At(r, "clearMuted")
      BY <1>3 DEF ClearMuted
    <2>2. Moves(r, req[r].won)
      BY <1>3, <2>1, ServedTyped DEF ClearMuted
    <2>3. row' \in Row
      BY <1>3, <2>1, ServedTyped, RowTyped DEF ClearMuted, TypeOK
    <2> QED BY <1>3, <2>2, <2>3, QuietWrites DEF ClearMuted, TypeOK, log
  <1>4. CASE ResetObserved(r)
    <2>1. At(r, "resetObserved")
      BY <1>4 DEF ResetObserved
    <2>2. Moves(r, req[r].won)
      BY <1>4, <2>1, ServedTyped DEF ResetObserved
    <2>3. row' \in Row
      BY <1>4, CountsNat, RowTyped DEF ResetObserved, TypeOK, Sides
    <2> QED BY <1>4, <2>2, <2>3, QuietWrites DEF ResetObserved, TypeOK, log
  <1> QED BY <1>1, <1>2, <1>3, <1>4

LEMMA QuietClear ==
    ASSUME TypeOK, NEW r \in Requests, ClearWhenIncreased(r)
    PROVE  Quiet(r)
  <1>1. At(r, "clearIfMore") /\ End(r)
    BY DEF ClearWhenIncreased
  <1>2. Moves(r, req[r].won) /\ Side(r) \in Sides
    BY <1>1, ServedTyped
  <1>3. row' \in Row /\ hushed' \subseteq Claims
    <2>1. Resolved(r, NoDecisions) \subseteq Pairs
      BY <1>1, ServedTyped
    <2>2. CASE UNCHANGED <<row, hushed>>
      BY <2>2 DEF TypeOK
    <2>3. CASE /\ row' = [row EXCEPT !.muted[Side(r)] = Null]
               /\ Hush(Side(r), Resolved(r, NoDecisions))
      BY <1>2, <2>1, <2>3, HushTyped, RowTyped DEF TypeOK
    <2> QED BY <2>2, <2>3 DEF ClearWhenIncreased
  <1> QED BY <1>2, <1>3, QuietWrites DEF ClearWhenIncreased, TypeOK

LEMMA QuietUnmute ==
    ASSUME TypeOK, NEW r \in Requests, NEW s \in Sides, NEW statement,
           AutoUnmute(r, s, statement)
    PROVE  Quiet(r)
  <1>1. At(r, statement)
    BY DEF AutoUnmute
  <1>2. req[r] \in Request /\ req[r].todo # <<>> /\ req[r].resolved \subseteq Pairs
    BY <1>1, Serving, ServedTyped
  <1>3. UNCHANGED <<list, decision, claimed, told, owed, changes>>
    BY DEF AutoUnmute
  <1>4. CASE Continue(r, req[r]) /\ UNCHANGED <<row, hushed>>
    <2>1. Moves(r, req[r].won)
      BY <1>1, <1>4, ServedTyped
    <2> QED BY <1>3, <1>4, <2>1, QuietOnlyMoves
  <1>5. CASE /\ row' = [row EXCEPT !.muted[s] = Null]
             /\ Hush(s, req[r].resolved)
             /\ Continue(r, [req[r] EXCEPT !.seen = row'])
    <2> DEFINE new == [req[r] EXCEPT !.seen = row']
    <2>1. row' \in Row /\ hushed' \subseteq Claims
      BY <1>2, <1>5, HushTyped, RowTyped DEF TypeOK
    <2>2. new \in Request
      BY <1>2, <2>1 DEF Request
    <2>3. new.todo = req[r].todo /\ new.won = req[r].won /\ new.resolved = req[r].resolved
      BY <1>2 DEF Request
    <2>4. Continue(r, new)
      BY <1>5
    <2> HIDE DEF new
    <2>5. Moves(r, req[r].won)
      BY <1>2, <2>2, <2>3, <2>4, Continues
    <2> QED BY <1>3, <2>1, <2>5, QuietWrites DEF TypeOK
  <1> QED BY <1>4, <1>5 DEF AutoUnmute

LEMMA QuietObserve ==
    ASSUME TypeOK, NEW r \in Requests, ObserveCount(r)
    PROVE  Quiet(r)
  <1>1. At(r, "observe") /\ UNCHANGED <<list, decision, claimed, told, hushed, changes>>
    BY DEF ObserveCount
  <1>2. /\ req[r] \in Request /\ req[r].todo # <<>> /\ req[r].resolved \subseteq Pairs
        /\ Cardinality(req[r].resolved) \in Counts
    BY <1>1, Serving, ServedTyped
  <1>3. row' \in Row
    <2>1. row' = row \/ row' = [row EXCEPT !.observed = Cardinality(req[r].resolved)]
      BY DEF ObserveCount
    <2>2. ASSUME NEW n \in Counts \cup {Null} PROVE [row EXCEPT !.observed = n] \in Row
      BY RowTyped DEF TypeOK, Sides
    <2>3. [row EXCEPT !.observed = Cardinality(req[r].resolved)] \in Row
      BY <1>2, <2>2
    <2> QED BY <2>1, <2>3 DEF TypeOK
  <1>4. owed' \subseteq Claims
    <2>1. Sides \X Keys(req[r].resolved) \subseteq Claims
      BY <1>2, KeysTyped
    <2>2. owed' = owed \/ owed' = owed \cup ((Sides \X Keys(req[r].resolved)) \ claimed)
      BY DEF ObserveCount
    <2> QED BY <2>1, <2>2 DEF TypeOK
  <1>5. Moves(r, req[r].won)
    <2>1. End(r) \/ Continue(r, Announcing(r))
      BY DEF ObserveCount
    <2>2. CASE End(r)
      BY <1>1, <2>2, ServedTyped
    <2>3. CASE Continue(r, Announcing(r))
      <3> DEFINE hearers == Sides \ (Muted(Seen(r)) \cup req[r].mutedAtDiscovery)
      <3>1. Announcing(r) = [Idle EXCEPT !.todo = req[r].todo, !.resolved = req[r].resolved,
                                         !.hearers = hearers]
        BY DEF Announcing
      <3>2. req[r].todo \in Seq(Statements) /\ hearers \subseteq Sides
        BY <1>2 DEF Request
      <3> HIDE DEF hearers
      <3>3. Announcing(r) \in Request
        BY <1>2, <3>1, <3>2, IdleTyped DEF Request
      <3>4. /\ Announcing(r).todo = req[r].todo /\ Announcing(r).won = {}
            /\ Announcing(r).resolved = req[r].resolved
        BY <3>1, IdleTyped DEF Request
      <3> QED BY <1>2, <2>3, <3>3, <3>4, Continues, MovesLess
    <2> QED BY <2>1, <2>2, <2>3
  <1> QED BY <1>1, <1>3, <1>4, <1>5, QuietWrites DEF TypeOK

LEMMA QuietFind ==
    ASSUME TypeOK, NEW r \in Requests, FindClaimed(r)
    PROVE  Quiet(r)
  <1> DEFINE pending == Candidates(r) \ claimed
             new == [req[r] EXCEPT !.pending = pending]
  <1>1. At(r, "find") /\ UNCHANGED <<data, log>> /\ (End(r) \/ Continue(r, new))
    BY DEF FindClaimed
  <1>2. req[r] \in Request /\ req[r].todo # <<>> /\ req[r].resolved \subseteq Pairs
    BY <1>1, Serving, ServedTyped
  <1>3. pending \subseteq Claims
    BY <1>2, KeysTyped DEF Candidates
  <1> HIDE DEF pending
  <1>4. new \in Request
    BY <1>2, <1>3 DEF Request
  <1>5. new.todo = req[r].todo /\ new.won = req[r].won /\ new.resolved = req[r].resolved
    BY <1>2 DEF Request
  <1> HIDE DEF new
  <1>6. Moves(r, req[r].won)
    BY <1>1, <1>2, <1>4, <1>5, Continues, ServedTyped
  <1> QED BY <1>1, <1>6, QuietOnlyMoves DEF data, log

------------------------------------------------------------------------------
(* What the claims do to the abstract specification and to Winning *)

LEMMA QuietKeepsWinning ==
    ASSUME IInv, NEW r \in Requests, Quiet(r)
    PROVE  IInv'
  <1>1. \A q \in Requests : req'[q].won \subseteq req[q].won
    BY DEF Quiet, Moves
  <1>2. Matched'
    BY DEF Quiet, Moves, IInv, Winning, Matched
  <1>3. WonIsClaimed' /\ WonIsUntold' /\ WonOnce' /\ ToldIsClaimed'
    <2>1. claimed' = claimed /\ told' = told
      BY DEF Quiet
    <2> QED BY <1>1, <2>1 DEF IInv, Winning, WonIsClaimed, WonIsUntold, WonOnce, ToldIsClaimed
  <1> QED BY <1>2, <1>3 DEF IInv, Winning, Quiet

\* A claim that is refused changes nothing; one that is won is new.
LEMMA ClaimSteps ==
    ASSUME IInv, NEW r \in Requests, ClaimNext(r)
    PROVE  IInv' /\ [Once!Next]_(Once!vars)
  <1>1. /\ At(r, "claim") /\ UNCHANGED <<list, decision, row, told, hushed, changes>>
        /\ TypeOK
    BY DEF ClaimNext, IInv
  <1>2. req[r] \in Request /\ req[r].todo # <<>>
    BY <1>1, Serving
  <1> DEFINE left(c) == req[r].pending \ {c}
             won(c)  == IF Wins(c) THEN req[r].won \cup {c} ELSE req[r].won
             new(c)  == [req[r] EXCEPT !.pending = left(c), !.won = won(c)]
  <1>3. PICK c \in req[r].pending :
          /\ claimed' = claimed \cup {c} /\ owed' = owed \ {c}
          /\ \/ left(c) # {} /\ req' = [req EXCEPT ![r] = new(c)]
             \/ left(c) = {} /\ won(c) # {} /\ Continue(r, new(c))
             \/ left(c) = {} /\ won(c) = {} /\ End(r)
    BY DEF ClaimNext
  <1>4. c \in Claims /\ left(c) \subseteq Claims /\ req[r].won \subseteq Claims
    BY <1>2 DEF Request
  <1>5. won(c) \subseteq Claims
    BY <1>4
  <1>6. new(c) \in Request /\ new(c).todo = req[r].todo /\ new(c).won = won(c)
        /\ new(c).resolved = req[r].resolved
    <2> HIDE DEF left, won
    <2> QED BY <1>2, <1>4, <1>5 DEF Request
  <1>7. Moves(r, won(c))
    <2> HIDE DEF new, left, won
    <2>1. CASE req' = [req EXCEPT ![r] = new(c)]
      <3>1. req'[r] = new(c)
        BY <1>1, <2>1 DEF TypeOK
      <3>2. Follows(r)
        BY <1>6, <3>1 DEF Follows
      <3> QED BY <1>1, <1>6, <2>1, <3>1, <3>2 DEF Moves, TypeOK
    <2>2. CASE Continue(r, new(c))
      BY <1>1, <1>2, <1>6, <2>2, Continues
    <2>3. CASE End(r)
      BY <1>1, <2>3, Ends DEF Moves
    <2> QED BY <1>3, <2>1, <2>2, <2>3
  <1> HIDE DEF new, left
  <1>8. TypeOK'
    BY <1>1, <1>3, <1>4, <1>7 DEF TypeOK, Moves
  <1>9. told' = told /\ \A q \in Requests \ {r} : req'[q].won = req[q].won
    BY <1>1, <1>7 DEF Moves
  <1>10. req'[r].won \subseteq won(c)
    BY <1>7 DEF Moves
  <1>11. Matched'
    BY <1>7 DEF Moves, IInv, Winning, Matched
  <1>12. CASE c \notin claimed
    <2>1. told[c] = 0 /\ \A q \in Requests : c \notin req[q].won
      BY <1>4, <1>12 DEF IInv, Winning, ToldIsClaimed, WonIsClaimed
    <2>2. won(c) = req[r].won \cup {c}
      BY <1>12 DEF Wins
    <2>3. WonIsClaimed' /\ ToldIsClaimed'
      BY <1>3, <1>9, <1>10, <2>2 DEF IInv, Winning, WonIsClaimed, ToldIsClaimed
    <2>4. WonIsUntold'
      BY <1>9, <1>10, <2>1, <2>2 DEF IInv, Winning, WonIsUntold
    <2>5. WonOnce'
      BY <1>9, <1>10, <2>1, <2>2 DEF IInv, Winning, WonOnce
    <2>6. Once!Claim(c)
      BY <1>3, <1>9, <1>12 DEF Once!Claim
    <2> QED BY <1>4, <1>8, <1>11, <2>3, <2>4, <2>5, <2>6 DEF IInv, Winning, Once!Next
  <1>13. CASE c \in claimed
    <2>1. won(c) = req[r].won /\ claimed' = claimed
      BY <1>3, <1>13 DEF Wins
    <2>2. Quiet(r)
      BY <1>7, <1>8, <1>9, <2>1 DEF Quiet
    <2> QED BY <1>9, <2>1, <2>2, QuietKeepsWinning DEF Once!vars
  <1> QED BY <1>12, <1>13

\* The pairs of one matching with these two names: each takes an account of
\* the name on both sides.
LEMMA CopiesBound ==
    ASSUME NEW D, D \subseteq Pairs, OneToOne(D), NEW c \in Claims, \A p \in D : Key(p) = c[2]
    PROVE  Cardinality(D) <= Copies[c]
  <1> DEFINE S == Named("sender", c[2][1])
             R == Named("receiver", c[2][2])
             f == [p \in D |-> p[1]]
             g == [p \in D |-> p[2]]
  <1>1. IsFiniteSet(S) /\ IsFiniteSet(R)
    BY PairsFinite, FS_Subset DEF Named
  <1>2. \A p \in D : p[1] \in S /\ p[2] \in R
    BY DEF Key, Named, Pairs
  <1> HIDE DEF S, R
  <1>3. f \in [D -> S] /\ g \in [D -> R]
    BY <1>2
  <1>4. \A p, q \in D : (f[p] = f[q] => p = q) /\ (g[p] = g[q] => p = q)
    BY DEF OneToOne
  <1> HIDE DEF f, g
  <1>5. f \in Injection(D, S) /\ g \in Injection(D, R)
    BY <1>3, <1>4 DEF Injection, IsInjective
  <1>6. Cardinality(D) <= Cardinality(S) /\ Cardinality(D) <= Cardinality(R)
    BY <1>1, <1>5, FS_Injection
  <1>7. Copies[c] = Smaller(Cardinality(S), Cardinality(R))
    BY DEF Copies, S, R
  <1> QED BY <1>6, <1>7 DEF Smaller

LEMMA Delivered ==
    ASSUME IInv, NEW r \in Requests, At(r, "tell"), NEW c \in Claims
    PROVE  /\ Cardinality(Deliverable(r, c)) \in Nat
           /\ Cardinality(Deliverable(r, c)) <= Copies[c]
           /\ c \notin req[r].won => Cardinality(Deliverable(r, c)) = 0
  <1>1. req[r].resolved \subseteq Pairs /\ OneToOne(req[r].resolved)
    BY ServedTyped DEF IInv, Winning, Matched
  <1> DEFINE D == Deliverable(r, c)
  <1>2. D \subseteq Pairs /\ OneToOne(D) /\ \A p \in D : Key(p) = c[2]
    BY <1>1 DEF Deliverable, OneToOne
  <1>3. c \notin req[r].won => D = {}
    BY DEF Deliverable
  <1> HIDE DEF D
  <1>4. Cardinality(D) \in Nat /\ Cardinality(D) <= Copies[c]
    BY <1>2, CountTyped, CopiesBound
  <1>5. Cardinality({}) = 0
    BY FS_EmptySet
  <1> QED BY <1>3, <1>4, <1>5 DEF D

\* Only what this request has won is told, and nobody was told of it.
LEMMA Telling ==
    ASSUME IInv, NEW r \in Requests, Tell(r)
    PROVE  IInv' /\ [Once!Next]_(Once!vars)
  <1>1. At(r, "tell") /\ End(r) /\ TypeOK /\ UNCHANGED <<list, decision, row, claimed, log>>
    BY DEF Tell, IInv
  <1>2. Moves(r, {}) /\ req'[r] = Idle
    BY <1>1, Ends
  <1> DEFINE more(c) == Cardinality(Deliverable(r, c))
  <1>3. \A c \in Claims : /\ more(c) \in Nat /\ more(c) <= Copies[c]
                          /\ c \notin req[r].won => more(c) = 0
    BY <1>1, Delivered
  <1>4. told' = [c \in Claims |-> told[c] + more(c)]
    BY DEF Tell
  <1> HIDE DEF more
  <1>5. \A c \in req[r].won : c \in claimed /\ told[c] = 0
    BY DEF IInv, Winning, WonIsClaimed, WonIsUntold
  <1>6. told \in [Claims -> Nat]
    BY <1>1 DEF TypeOK
  <1>7. told' \in [Claims -> Nat]
    BY <1>3, <1>4, <1>6
  <1>8. \A c \in Claims : c \notin req[r].won => told'[c] = told[c]
    BY <1>3, <1>4, <1>6
  <1>9. \A c \in Claims : c \in req[r].won => told'[c] <= Copies[c]
    BY <1>3, <1>4, <1>5
  <1>10. TypeOK'
    BY <1>1, <1>2, <1>7 DEF TypeOK, Moves, log
  <1>11. \A q \in Requests \ {r} : req'[q].won = req[q].won
    BY <1>2 DEF Moves
  <1>12. req'[r].won = {}
    BY <1>2, IdleTyped
  <1>13. WonIsClaimed' /\ WonOnce' /\ Matched'
    BY <1>1, <1>2, <1>11, <1>12 DEF IInv, Winning, WonIsClaimed, WonOnce, Matched, Moves
  <1>14. WonIsUntold'
    <2> SUFFICES ASSUME NEW q \in Requests, NEW c \in req'[q].won PROVE told'[c] = 0
      BY DEF WonIsUntold
    <2>1. q # r /\ c \in req[q].won
      BY <1>11, <1>12
    <2>2. c \notin req[r].won
      BY <2>1 DEF IInv, Winning, WonOnce
    <2>3. told[c] = 0 /\ c \in Claims
      BY <2>1, <1>1 DEF IInv, Winning, WonIsUntold, WonIsClaimed, TypeOK
    <2> QED BY <1>8, <2>2, <2>3
  <1>15. ToldIsClaimed'
    BY <1>1, <1>5, <1>8 DEF IInv, Winning, ToldIsClaimed
  <1>16. Once!Tell
    BY <1>1, <1>5, <1>7, <1>8, <1>9 DEF Once!Tell
  <1> QED BY <1>10, <1>13, <1>14, <1>15, <1>16 DEF IInv, Winning, Once!Next

\* A failure, of one request or of the server, claims and tells nothing more.
LEMMA Failing ==
    ASSUME IInv, NEW r \in Requests, AnnouncementFails(r)
    PROVE  IInv' /\ UNCHANGED <<claimed, told>>
  <1>1. UNCHANGED <<list, decision, row, claimed, told, hushed>> /\ TypeOK
    BY DEF AnnouncementFails, data, IInv
  <1>2. Moves(r, {})
    BY <1>1, Ends DEF AnnouncementFails
  <1>3. changes' \in 0..MaxChanges /\ owed' \subseteq Claims
    BY <1>1, OverlapAssumption DEF AnnouncementFails, Change, CutShort, TypeOK
  <1>4. TypeOK'
    BY <1>1, <1>2, <1>3 DEF TypeOK, Moves
  <1>5. Quiet(r)
    BY <1>1, <1>2, <1>4, MovesLess DEF Quiet
  <1> QED BY <1>1, <1>5, QuietKeepsWinning

LEMMA Restarting ==
    ASSUME IInv, Restart
    PROVE  IInv' /\ UNCHANGED <<claimed, told>>
  <1>1. UNCHANGED <<list, decision, row, claimed, told, hushed>>
    BY DEF Restart, data
  <1>2. /\ req' \in [Requests -> Request]
        /\ \A q \in Requests : req'[q].won = {} /\ req'[q].resolved = {}
    BY IdleTyped DEF Restart
  <1>3. changes' \in 0..MaxChanges /\ owed' \subseteq Claims
    BY OverlapAssumption DEF Restart, Change, CutShort, IInv, TypeOK
  <1>4. TypeOK'
    BY <1>1, <1>2, <1>3 DEF IInv, TypeOK
  <1>5. Winning'
    BY <1>1, <1>2, NothingMatched
       DEF IInv, Winning, WonIsClaimed, WonIsUntold, WonOnce, ToldIsClaimed, Matched
  <1> QED BY <1>1, <1>4, <1>5 DEF IInv

LEMMA Emptying ==
    ASSUME IInv, NEW s \in Sides, ListEmptied(s)
    PROVE  IInv' /\ UNCHANGED <<claimed, told>>
  <1>1. list' \in Listed
    BY ListedHolds DEF ListEmptied, IInv, TypeOK
  <1>2. changes' \in 0..MaxChanges
    BY OverlapAssumption DEF ListEmptied, Change, IInv, TypeOK
  <1>3. UNCHANGED <<decision, row, claimed, told, req, hushed, owed>>
    BY DEF ListEmptied
  <1>4. TypeOK'
    BY <1>1, <1>2, <1>3 DEF IInv, TypeOK
  <1>5. Winning'
    BY <1>3 DEF IInv, Winning, WonIsClaimed, WonIsUntold, WonOnce, ToldIsClaimed, Matched
  <1> QED BY <1>3, <1>4, <1>5 DEF IInv

LEMMA StepImplements ==
    ASSUME IInv, [Next]_vars
    PROVE  IInv' /\ [Once!Next]_(Once!vars)
  <1>1. ASSUME NEW r \in Requests, Quiet(r)
        PROVE  IInv' /\ [Once!Next]_(Once!vars)
    <2>1. UNCHANGED Once!vars
      BY <1>1 DEF Quiet, Once!vars
    <2> QED BY <1>1, <2>1, QuietKeepsWinning
  <1>2. ASSUME NEW r \in Requests, Arrive(r) PROVE IInv' /\ [Once!Next]_(Once!vars)
    BY <1>1, <1>2, QuietArrive DEF IInv
  <1>3. ASSUME NEW r \in Requests, Serve(r) PROVE IInv' /\ [Once!Next]_(Once!vars)
    <2>1. CASE ClaimNext(r)
      BY <2>1, ClaimSteps
    <2>2. CASE Tell(r)
      BY <2>2, Telling
    <2>3. CASE \/ ReadConnection(r) \/ ReadYours(r) \/ ReadTheirs(r)
               \/ ReadDecisions(r) \/ CountBefore(r)
      BY <1>1, <2>3, QuietRead DEF IInv
    <2>4. CASE SetMuted(r) \/ SetObserved(r) \/ ClearMuted(r) \/ ResetObserved(r)
      BY <1>1, <2>4, QuietMute DEF IInv
    <2>5. CASE UpsertDecision(r) \/ StoreBaseline(r) \/ ClearWhenIncreased(r)
      BY <1>1, <2>5, QuietDecide, QuietBaseline, QuietClear DEF IInv
    <2>6. CASE ObserveCount(r) \/ FindClaimed(r)
      BY <1>1, <2>6, QuietObserve, QuietFind DEF IInv
    <2>7. CASE \/ AutoUnmute(r, "sender", "unmuteSender")
               \/ AutoUnmute(r, "receiver", "unmuteReceiver")
      <3>1. "sender" \in Sides /\ "receiver" \in Sides
        BY DEF Sides
      <3> QED BY <1>1, <2>7, <3>1, QuietUnmute DEF IInv
    <2> QED BY <1>3, <2>1, <2>2, <2>3, <2>4, <2>5, <2>6, <2>7 DEF Serve
  <1>4. CASE Restart
    BY <1>4, Restarting DEF Once!vars
  <1>5. CASE \E s \in Sides : ListEmptied(s)
    BY <1>5, Emptying DEF Once!vars
  <1>6. ASSUME NEW r \in Requests, AnnouncementFails(r) PROVE IInv' /\ [Once!Next]_(Once!vars)
    BY <1>6, Failing DEF Once!vars
  <1>7. CASE UNCHANGED vars
    <2>1. TypeOK'
      BY <1>7 DEF vars, IInv, TypeOK
    <2>2. Winning'
      BY <1>7 DEF vars, IInv, Winning, WonIsClaimed, WonIsUntold, WonOnce, ToldIsClaimed, Matched
    <2> QED BY <1>7, <2>1, <2>2 DEF vars, IInv, Once!vars
  <1> QED BY <1>2, <1>3, <1>4, <1>5, <1>6, <1>7 DEF Next

LEMMA InitImplements == Init => IInv /\ Once!Init
  <1> SUFFICES ASSUME Init PROVE IInv /\ Once!Init
    OBVIOUS
  <1>1. TypeOK
    BY IdleTyped, NoDecisionsTyped, OverlapAssumption DEF Init, TypeOK
  <1>2. \A r \in Requests : req[r].won = {} /\ req[r].resolved = {}
    BY IdleTyped DEF Init
  <1>3. Winning
    BY <1>2, NothingMatched
       DEF Init, Winning, WonIsClaimed, WonIsUntold, WonOnce, ToldIsClaimed, Matched
  <1> QED BY <1>1, <1>3 DEF IInv, Init, Once!Init

------------------------------------------------------------------------------
(* What is discovered is claimed, or a request in flight claims it *)

\* After the count is stored the claimed are looked up, and then the rest claimed.
Followed(todo) ==
    \A i \in DOMAIN todo :
        /\ todo[i] = "observe" => i + 1 \in DOMAIN todo /\ todo[i + 1] = "find"
        /\ todo[i] = "find" => i + 1 \in DOMAIN todo /\ todo[i + 1] = "claim"
AnnouncedInOrder == \A r \in Requests : Followed(req[r].todo)

\* What is owed is not claimed yet, and some request has it before it.
OwedIsDue ==
    /\ owed \cap claimed = {}
    /\ \A c \in owed : \E r \in Requests : c \in Due(r)

DiscoveredInv == IInv /\ AnnouncedInOrder /\ OwedIsDue

LEMMA FollowedConcat ==
    ASSUME NEW a \in Seq(Statements), NEW b \in Seq(Statements), Followed(b),
           \A i \in DOMAIN a : a[i] \notin {"observe", "find"}
    PROVE  Followed(a \o b)
  <1>1. /\ Len(a) \in Nat /\ Len(b) \in Nat /\ Len(a \o b) = Len(a) + Len(b)
        /\ DOMAIN a = 1..Len(a) /\ DOMAIN b = 1..Len(b)
        /\ DOMAIN (a \o b) = 1..(Len(a) + Len(b))
    OBVIOUS
  <1>2. \A i \in 1..(Len(a) + Len(b)) :
            (a \o b)[i] = IF i <= Len(a) THEN a[i] ELSE b[i - Len(a)]
    OBVIOUS
  <1> DEFINE ab == a \o b
  <1> HIDE DEF ab
  <1>3. ASSUME NEW i \in DOMAIN ab, ab[i] \in {"observe", "find"}
        PROVE  /\ i - Len(a) \in DOMAIN b /\ ab[i] = b[i - Len(a)]
               /\ i - Len(a) + 1 \in DOMAIN b =>
                      i + 1 \in DOMAIN ab /\ ab[i + 1] = b[i - Len(a) + 1]
    BY <1>1, <1>2, <1>3 DEF ab
  <1>4. Followed(ab)
    BY <1>3 DEF Followed
  <1> QED BY <1>4 DEF ab

LEMMA FollowedScript ==
    ASSUME NEW path \in Paths \ {"none"}
    PROVE  Followed(Script(path))
  <1>1. Announce \in Seq(Statements)
    BY DEF Announce, Statements
  <1>2. Followed(Announce)
    BY DEF Followed, Announce
  <1>3. ASSUME NEW a \in Seq(Statements), \A i \in DOMAIN a : a[i] \notin {"observe", "find"},
               Script(path) = a \o Announce
        PROVE  Followed(Script(path))
    BY <1>1, <1>2, <1>3, FollowedConcat
  <1>4. CASE path = "look"
    <2> DEFINE a == <<"yours", "connection", "theirs", "decisions">>
    <2>1. a \in Seq(Statements)
      BY DEF Statements
    <2>2. \A i \in DOMAIN a : a[i] \notin {"observe", "find"}
      OBVIOUS
    <2>3. Script(path) = a \o Announce
      BY <1>4 DEF Script
    <2> QED BY <1>3, <2>1, <2>2, <2>3
  <1>5. CASE path = "remap"
    <2> DEFINE a == <<"connection", "yours", "theirs", "decisions">>
    <2>1. a \in Seq(Statements)
      BY DEF Statements
    <2>2. \A i \in DOMAIN a : a[i] \notin {"observe", "find"}
      OBVIOUS
    <2>3. Script(path) = a \o Announce
      BY <1>5 DEF Script
    <2> QED BY <1>3, <2>1, <2>2, <2>3
  <1>6. CASE path = "accept"
    <2> DEFINE a == <<"connection", "yours", "theirs", "before", "decide", "after", "baseline">>
    <2>1. a \in Seq(Statements)
      BY DEF Statements
    <2>2. \A i \in DOMAIN a : a[i] \notin {"observe", "find"}
      OBVIOUS
    <2>3. Script(path) = a \o Announce
      BY <1>6 DEF Script
    <2> QED BY <1>3, <2>1, <2>2, <2>3
  <1>7. CASE path \notin {"look", "remap", "accept"}
    BY <1>7 DEF Paths, Script, Followed
  <1> QED BY <1>4, <1>5, <1>6, <1>7

LEMMA FollowedTail ==
    ASSUME NEW todo \in Seq(Statements), todo # <<>>, Followed(todo)
    PROVE  Followed(Tail(todo))
  <1>1. /\ Len(todo) \in Nat /\ DOMAIN todo = 1..Len(todo)
        /\ DOMAIN Tail(todo) = 1..(Len(todo) - 1)
        /\ \A i \in DOMAIN Tail(todo) : Tail(todo)[i] = todo[i + 1]
    OBVIOUS
  <1> DEFINE tail == Tail(todo)
  <1> HIDE DEF tail
  <1>2. ASSUME NEW i \in DOMAIN tail
        PROVE  /\ i + 1 \in DOMAIN todo /\ tail[i] = todo[i + 1]
               /\ (i + 1) + 1 \in DOMAIN todo =>
                      i + 1 \in DOMAIN tail /\ tail[i + 1] = todo[(i + 1) + 1]
    BY <1>1 DEF tail
  <1>3. Followed(tail)
    BY <1>2 DEF Followed
  <1> QED BY <1>3 DEF tail

LEMMA NextStatement ==
    ASSUME TypeOK, AnnouncedInOrder, NEW r \in Requests
    PROVE  /\ At(r, "observe") => /\ Len(req[r].todo) # 1 /\ Tail(req[r].todo) # <<>>
                                  /\ Head(Tail(req[r].todo)) = "find"
           /\ At(r, "find") => /\ Len(req[r].todo) # 1 /\ Tail(req[r].todo) # <<>>
                               /\ Head(Tail(req[r].todo)) = "claim"
  <1>1. req[r].todo \in Seq(Statements) /\ Followed(req[r].todo)
    BY DEF TypeOK, AnnouncedInOrder, Request
  <1>2. ASSUME NEW todo \in Seq(Statements), todo # <<>>, 1 + 1 \in DOMAIN todo
        PROVE  Len(todo) # 1 /\ Tail(todo) # <<>> /\ Head(Tail(todo)) = todo[1 + 1]
    BY <1>2
  <1>3. ASSUME NEW todo \in Seq(Statements), todo # <<>>
        PROVE  1 \in DOMAIN todo /\ Head(todo) = todo[1]
    BY <1>3
  <1> QED BY <1>1, <1>2, <1>3 DEF At, Followed

LEMMA StepFollows ==
    ASSUME IInv, [Next]_vars, NEW q \in Requests
    PROVE  Follows(q)
  <1>1. ASSUME NEW r \in Requests, Moves(r, Claims) PROVE Follows(q)
    BY <1>1 DEF Moves, Follows
  <1>2. ASSUME NEW r \in Requests, Quiet(r) PROVE Follows(q)
    BY <1>2 DEF Quiet, Moves, Follows
  <1>3. ASSUME NEW r \in Requests, Arrive(r) PROVE Follows(q)
    BY <1>2, <1>3, QuietArrive DEF IInv
  <1>4. ASSUME NEW r \in Requests, Serve(r) PROVE Follows(q)
    <2>1. CASE ClaimNext(r)
      <3>1. req[r] \in Request /\ req[r].todo # <<>> /\ req \in [Requests -> Request]
        BY <2>1, Serving DEF ClaimNext, IInv, TypeOK
      <3>2. PICK left, won : LET new == [req[r] EXCEPT !.pending = left, !.won = won]
                             IN  End(r) \/ Continue(r, new) \/ req' = [req EXCEPT ![r] = new]
        BY <2>1 DEF ClaimNext
      <3> DEFINE new == [req[r] EXCEPT !.pending = left, !.won = won]
      <3>3. new.todo = req[r].todo /\ [new EXCEPT !.todo = Tail(@)].todo = Tail(req[r].todo)
        BY <3>1 DEF Request
      <3>4. Idle.todo = <<>>
        BY IdleTyped
      <3>5. End(r) \/ Continue(r, new) \/ req' = [req EXCEPT ![r] = new]
        BY <3>2
      <3> HIDE DEF new
      <3>6. \/ req' = [req EXCEPT ![r] = Idle] \/ req' = [req EXCEPT ![r] = new]
            \/ req' = [req EXCEPT ![r] = [new EXCEPT !.todo = Tail(@)]]
        BY <3>5 DEF End, Continue
      <3>7. CASE q = r
        BY <3>1, <3>3, <3>4, <3>6, <3>7 DEF Follows
      <3>8. CASE q # r
        BY <3>1, <3>6, <3>8 DEF Follows
      <3> QED BY <3>7, <3>8
    <2>2. CASE Tell(r)
      <3>1. Moves(r, {})
        BY <2>2, Ends DEF Tell, IInv
      <3> QED BY <3>1, <1>1 DEF Moves
    <2>3. CASE \/ ReadConnection(r) \/ ReadYours(r) \/ ReadTheirs(r)
               \/ ReadDecisions(r) \/ CountBefore(r)
      BY <1>2, <2>3, QuietRead DEF IInv
    <2>4. CASE SetMuted(r) \/ SetObserved(r) \/ ClearMuted(r) \/ ResetObserved(r)
      BY <1>2, <2>4, QuietMute DEF IInv
    <2>5. CASE UpsertDecision(r) \/ StoreBaseline(r) \/ ClearWhenIncreased(r)
      BY <1>2, <2>5, QuietDecide, QuietBaseline, QuietClear DEF IInv
    <2>6. CASE ObserveCount(r) \/ FindClaimed(r)
      BY <1>2, <2>6, QuietObserve, QuietFind DEF IInv
    <2>7. CASE \/ AutoUnmute(r, "sender", "unmuteSender")
               \/ AutoUnmute(r, "receiver", "unmuteReceiver")
      <3>1. "sender" \in Sides /\ "receiver" \in Sides
        BY DEF Sides
      <3> QED BY <1>2, <2>7, <3>1, QuietUnmute DEF IInv
    <2> QED BY <1>4, <2>1, <2>2, <2>3, <2>4, <2>5, <2>6, <2>7 DEF Serve
  <1>5. ASSUME NEW r \in Requests, AnnouncementFails(r) PROVE Follows(q)
    <2>1. Moves(r, {})
      BY <1>5, Ends DEF AnnouncementFails, IInv
    <2> QED BY <1>1, <2>1 DEF Moves
  <1>6. CASE Restart
    BY <1>6, IdleTyped DEF Restart, Follows
  <1>7. CASE (\E s \in Sides : ListEmptied(s)) \/ UNCHANGED vars
    BY <1>7 DEF ListEmptied, vars, Follows
  <1> QED BY <1>3, <1>4, <1>5, <1>6, <1>7 DEF Next

LEMMA StepAnnounced ==
    ASSUME IInv, AnnouncedInOrder, [Next]_vars
    PROVE  AnnouncedInOrder'
  <1> SUFFICES ASSUME NEW q \in Requests PROVE Followed(req'[q].todo)
    BY DEF AnnouncedInOrder
  <1>1. req[q].todo \in Seq(Statements) /\ Followed(req[q].todo)
    BY DEF IInv, TypeOK, AnnouncedInOrder, Request
  <1>2. Followed(<<>>)
    BY DEF Followed
  <1>3. CASE req[q].todo # <<>> /\ req'[q].todo = Tail(req[q].todo)
    BY <1>1, <1>3, FollowedTail
  <1> QED BY <1>1, <1>2, <1>3, StepFollows, FollowedScript DEF Follows

LEMMA DueOf ==
    ASSUME NEW r \in Requests
    PROVE  /\ At(r, "find") => Due(r) = Candidates(r)
           /\ At(r, "claim") => Due(r) = req[r].pending
           /\ ~At(r, "find") /\ ~At(r, "claim") => Due(r) = {}
  <1>1. At(r, "find") => ~At(r, "claim")
    BY DEF At
  <1> QED BY <1>1 DEF Due

\* What a step may do to what is owed.
LEMMA OwedKept ==
    ASSUME OwedIsDue, owed' \cap claimed' = {}, owed' \subseteq owed,
           \A q \in Requests : \A c \in owed' : c \in Due(q) => c \in Due(q)'
    PROVE  OwedIsDue'
  BY DEF OwedIsDue

LEMMA DueKept ==
    ASSUME NEW q \in Requests, req'[q] = req[q]
    PROVE  Due(q)' = Due(q)
  <1>1. At(q, "find")' = At(q, "find") /\ At(q, "claim")' = At(q, "claim")
    BY DEF At
  <1> QED BY <1>1 DEF Due, Candidates

\* A step of a request that has nothing to claim yet.
LEMMA OwedByOthers ==
    ASSUME OwedIsDue, NEW r \in Requests, Due(r) = {},
           \A q \in Requests \ {r} : req'[q] = req[q],
           claimed' = claimed, owed' = owed
    PROVE  OwedIsDue'
  <1>1. owed' \cap claimed' = {} /\ owed' \subseteq owed
    BY DEF OwedIsDue
  <1>2. \A q \in Requests : \A c \in owed' : c \in Due(q) => c \in Due(q)'
    <2> SUFFICES ASSUME NEW q \in Requests, NEW c \in owed', c \in Due(q)
                 PROVE  c \in Due(q)'
      OBVIOUS
    <2>1. q # r
      OBVIOUS
    <2> QED BY <2>1, DueKept
  <1> QED BY <1>1, <1>2, OwedKept

LEMMA NothingDue ==
    ASSUME NEW r \in Requests, NEW s, s \notin {"find", "claim"}, At(r, s)
    PROVE  Due(r) = {}
  <1>1. ~At(r, "find") /\ ~At(r, "claim")
    BY DEF At
  <1> QED BY <1>1, DueOf

\* The count is stored, and the request goes on to claim its overlaps.
LEMMA OwedByObserve ==
    ASSUME DiscoveredInv, NEW r \in Requests, ObserveCount(r)
    PROVE  OwedIsDue'
  <1>1. /\ At(r, "observe") /\ TypeOK /\ AnnouncedInOrder /\ OwedIsDue /\ claimed' = claimed
    BY DEF ObserveCount, DiscoveredInv, IInv
  <1>2. \A q \in Requests \ {r} : req'[q] = req[q]
    BY <1>1, QuietObserve DEF Quiet, Moves
  <1>3. Due(r) = {} /\ req[r] \in Request
    BY <1>1, NothingDue, ServedTyped
  <1>4. CASE owed' = owed
    BY <1>1, <1>2, <1>3, <1>4, OwedByOthers
  <1>5. CASE /\ Continue(r, Announcing(r))
             /\ owed' = owed \cup ((Sides \X Keys(req[r].resolved)) \ claimed)
    <2>1. /\ Announcing(r).todo = req[r].todo /\ Announcing(r).resolved = req[r].resolved
          /\ DOMAIN Announcing(r) = DOMAIN Idle
      BY <1>3, IdleTyped DEF Announcing, Request
    <2>2. /\ Len(req[r].todo) # 1 /\ Tail(req[r].todo) # <<>>
          /\ Head(Tail(req[r].todo)) = "find"
      BY <1>1, NextStatement
    <2>3. req' = [req EXCEPT ![r] = [Announcing(r) EXCEPT !.todo = Tail(@)]]
      BY <1>5, <2>2 DEF Continue
    <2>4. req'[r].todo = Tail(req[r].todo) /\ req'[r].resolved = req[r].resolved
      BY <1>1, <2>1, <2>3 DEF TypeOK, Idle
    <2>5. At(r, "find")'
      BY <2>2, <2>4 DEF At
    <2>6. Due(r)' = Sides \X Keys(req[r].resolved)
      BY <2>4, <2>5 DEF Due, Candidates, At
    <2>7. owed' \cap claimed' = {}
      BY <1>1, <1>5 DEF OwedIsDue
    <2>8. ASSUME NEW c \in owed' PROVE \E q \in Requests : c \in Due(q)'
      <3>1. CASE c \in owed
        <4>1. PICK q \in Requests : c \in Due(q)
          BY <1>1, <3>1 DEF OwedIsDue
        <4>2. q # r
          BY <1>3, <4>1
        <4> QED BY <1>2, <4>1, <4>2, DueKept
      <3>2. CASE c \notin owed
        BY <1>5, <2>6, <3>2
      <3> QED BY <3>1, <3>2
    <2> QED BY <2>7, <2>8 DEF OwedIsDue
  <1> QED BY <1>4, <1>5 DEF ObserveCount

LEMMA OwedByFind ==
    ASSUME DiscoveredInv, NEW r \in Requests, FindClaimed(r)
    PROVE  OwedIsDue'
  <1> DEFINE pending == Candidates(r) \ claimed
             new == [req[r] EXCEPT !.pending = pending]
  <1>1. /\ At(r, "find") /\ TypeOK /\ AnnouncedInOrder /\ OwedIsDue
        /\ claimed' = claimed /\ owed' = owed
    BY DEF FindClaimed, DiscoveredInv, IInv, data, log
  <1>2. \A q \in Requests \ {r} : req'[q] = req[q]
    BY <1>1, QuietFind DEF Quiet, Moves
  <1>3. req[r] \in Request /\ Due(r) = Candidates(r)
    BY <1>1, ServedTyped, DueOf
  <1>4. ASSUME NEW c \in owed, c \in Due(r) PROVE c \in Due(r)'
    <2>1. c \in pending
      BY <1>1, <1>3, <1>4 DEF OwedIsDue
    <2>2. Continue(r, new)
      BY <2>1 DEF FindClaimed
    <2>3. /\ Len(req[r].todo) # 1 /\ Tail(req[r].todo) # <<>>
          /\ Head(Tail(req[r].todo)) = "claim"
      BY <1>1, NextStatement
    <2>4. req' = [req EXCEPT ![r] = [new EXCEPT !.todo = Tail(@)]]
      BY <2>2, <2>3 DEF Continue
    <2>5. req'[r] = [new EXCEPT !.todo = Tail(@)]
      BY <1>1, <2>4 DEF TypeOK
    <2> HIDE DEF pending
    <2>6. req'[r].todo = Tail(req[r].todo) /\ req'[r].pending = pending
      BY <1>3, <2>5 DEF Request
    <2>7. At(r, "claim")'
      BY <2>3, <2>6 DEF At
    <2> QED BY <2>1, <2>6, <2>7 DEF Due
  <1>5. owed' \cap claimed' = {} /\ owed' \subseteq owed
    BY <1>1 DEF OwedIsDue
  <1>6. \A q \in Requests : \A c \in owed' : c \in Due(q) => c \in Due(q)'
    <2> SUFFICES ASSUME NEW q \in Requests, NEW c \in owed, c \in Due(q) PROVE c \in Due(q)'
      BY <1>1
    <2>1. CASE q = r
      BY <1>4, <2>1
    <2>2. CASE q # r
      BY <1>2, <2>2, DueKept
    <2> QED BY <2>1, <2>2
  <1> QED BY <1>1, <1>5, <1>6, OwedKept

LEMMA OwedByClaim ==
    ASSUME DiscoveredInv, NEW r \in Requests, ClaimNext(r)
    PROVE  OwedIsDue'
  <1>1. At(r, "claim") /\ TypeOK /\ OwedIsDue
    BY DEF ClaimNext, DiscoveredInv, IInv
  <1>2. req[r] \in Request /\ Due(r) = req[r].pending
    BY <1>1, ServedTyped, DueOf
  <1>3. PICK c \in req[r].pending :
            LET left == req[r].pending \ {c}
                won  == IF Wins(c) THEN req[r].won \cup {c} ELSE req[r].won
                new  == [req[r] EXCEPT !.pending = left, !.won = won]
            IN  /\ claimed' = claimed \cup {c} /\ owed' = owed \ {c}
                /\ \/ left # {} /\ req' = [req EXCEPT ![r] = new]
                   \/ left = {} /\ Continue(r, new)
                   \/ left = {} /\ End(r)
    BY DEF ClaimNext
  <1> DEFINE left == req[r].pending \ {c}
             won  == IF Wins(c) THEN req[r].won \cup {c} ELSE req[r].won
             new  == [req[r] EXCEPT !.pending = left, !.won = won]
  <1>4. claimed' = claimed \cup {c} /\ owed' = owed \ {c}
    BY <1>3
  <1>5. \A q \in Requests \ {r} : req'[q] = req[q]
    <2> HIDE DEF new
    <2>1. req' = [req EXCEPT ![r] = new] \/ Continue(r, new) \/ End(r)
      BY <1>3 DEF new
    <2> QED BY <1>1, <2>1 DEF Continue, End, TypeOK
  <1>6. ASSUME NEW d \in owed', d \in Due(r) PROVE d \in Due(r)'
    <2>1. d \in left
      BY <1>2, <1>4, <1>6
    <2>2. req'[r] = new
      BY <1>1, <1>3, <2>1 DEF TypeOK
    <2> HIDE DEF left
    <2>3. req'[r].todo = req[r].todo /\ req'[r].pending = left
      BY <1>2, <2>2 DEF Request
    <2>4. At(r, "claim")'
      BY <1>1, <2>3 DEF At
    <2> QED BY <2>1, <2>3, <2>4 DEF Due
  <1>7. owed' \cap claimed' = {} /\ owed' \subseteq owed
    BY <1>1, <1>4 DEF OwedIsDue
  <1>8. \A q \in Requests : \A d \in owed' : d \in Due(q) => d \in Due(q)'
    <2> SUFFICES ASSUME NEW q \in Requests, NEW d \in owed', d \in Due(q) PROVE d \in Due(q)'
      OBVIOUS
    <2>1. CASE q = r
      BY <1>6, <2>1
    <2>2. CASE q # r
      BY <1>5, <2>2, DueKept
    <2> QED BY <2>1, <2>2
  <1> QED BY <1>1, <1>7, <1>8, OwedKept

\* A statement that claims nothing and neither stores a count to be claimed.
LEMMA OwedByOther ==
    ASSUME DiscoveredInv, NEW r \in Requests,
           \/ Arrive(r) \/ ReadConnection(r) \/ ReadYours(r) \/ ReadTheirs(r)
           \/ ReadDecisions(r) \/ CountBefore(r) \/ UpsertDecision(r) \/ Tell(r)
           \/ SetMuted(r) \/ SetObserved(r) \/ ClearMuted(r) \/ ResetObserved(r)
           \/ StoreBaseline(r) \/ ClearWhenIncreased(r)
           \/ AutoUnmute(r, "sender", "unmuteSender")
           \/ AutoUnmute(r, "receiver", "unmuteReceiver")
    PROVE  OwedIsDue'
  <1>1. TypeOK /\ OwedIsDue
    BY DEF DiscoveredInv, IInv
  <1>2. owed' = owed /\ claimed' = claimed
    BY DEF Arrive, ReadConnection, ReadYours, ReadTheirs, ReadDecisions, CountBefore,
           UpsertDecision, Tell, SetMuted, SetObserved, ClearMuted, ResetObserved,
           StoreBaseline, ClearWhenIncreased, AutoUnmute,
           Look, GetConnections, PublishList, SetMatchDecision, MuteConnection,
           UnmuteConnection, DeleteActiveList, UserActs, data, log
  <1>3. \A q \in Requests \ {r} : req'[q] = req[q]
    <2>1. CASE Tell(r)
      BY <1>1, <2>1, Ends DEF Tell, Moves
    <2>2. CASE ~Tell(r)
      BY <1>1, <2>2, QuietArrive, QuietRead, QuietDecide, QuietMute, QuietBaseline,
         QuietClear, QuietUnmute DEF Quiet, Moves, Sides
    <2> QED BY <2>1, <2>2
  <1>4. Due(r) = {}
    <2>1. CASE Arrive(r)
      <3>1. req[r].todo = <<>>
        BY <2>1 DEF Arrive, Look, GetConnections, PublishList, SetMatchDecision,
                    MuteConnection, UnmuteConnection, DeleteActiveList, UserActs, Begin
      <3> QED BY <3>1 DEF Due, At
    <2>2. CASE ~Arrive(r)
      BY <2>2, NothingDue
         DEF ReadConnection, ReadYours, ReadTheirs, ReadDecisions, CountBefore,
             UpsertDecision, Tell, SetMuted, SetObserved, ClearMuted, ResetObserved,
             StoreBaseline, ClearWhenIncreased, AutoUnmute
    <2> QED BY <2>1, <2>2
  <1> QED BY <1>1, <1>2, <1>3, <1>4, OwedByOthers

\* A failure leaves owed what other requests are about to claim.
LEMMA OwedByFailure ==
    ASSUME DiscoveredInv, NEW failed \in SUBSET Requests, CutShort(failed),
           \A q \in Requests \ failed : req'[q] = req[q], claimed' = claimed
    PROVE  OwedIsDue'
  <1>1. OwedIsDue /\ owed' \subseteq owed
    BY DEF DiscoveredInv, CutShort
  <1>2. owed' \cap claimed' = {}
    BY <1>1 DEF OwedIsDue
  <1>3. ASSUME NEW c \in owed' PROVE \E q \in Requests : c \in Due(q)'
    <2>1. PICK q \in Requests \ failed : c \in Due(q)
      BY <1>3 DEF CutShort
    <2> QED BY <2>1, DueKept
  <1> QED BY <1>2, <1>3 DEF OwedIsDue

LEMMA StepOwed ==
    ASSUME DiscoveredInv, [Next]_vars
    PROVE  OwedIsDue'
  <1>1. ASSUME NEW r \in Requests, Serve(r) PROVE OwedIsDue'
    BY <1>1, OwedByObserve, OwedByFind, OwedByClaim, OwedByOther DEF Serve
  <1>2. ASSUME NEW r \in Requests, Arrive(r) PROVE OwedIsDue'
    BY <1>2, OwedByOther
  <1>3. ASSUME NEW r \in Requests, AnnouncementFails(r) PROVE OwedIsDue'
    <2>1. CutShort({r}) /\ claimed' = claimed /\ End(r)
      BY <1>3 DEF AnnouncementFails, data
    <2>2. \A q \in Requests \ {r} : req'[q] = req[q]
      BY <2>1, Ends DEF Moves, DiscoveredInv, IInv
    <2> QED BY <2>1, <2>2, OwedByFailure
  <1>4. CASE Restart
    BY <1>4, OwedByFailure DEF Restart, data
  <1>5. CASE (\E s \in Sides : ListEmptied(s)) \/ UNCHANGED vars
    <2>1. UNCHANGED <<owed, claimed, req>> /\ OwedIsDue
      BY <1>5 DEF ListEmptied, vars, DiscoveredInv
    <2> QED BY <2>1, DueKept DEF OwedIsDue
  <1> QED BY <1>1, <1>2, <1>3, <1>4, <1>5 DEF Next

LEMMA DiscoveredInit == Init => DiscoveredInv
  <1> SUFFICES ASSUME Init PROVE DiscoveredInv
    OBVIOUS
  <1>1. \A r \in Requests : req[r].todo = <<>>
    BY IdleTyped DEF Init
  <1>2. AnnouncedInOrder
    BY <1>1 DEF AnnouncedInOrder, Followed
  <1>3. OwedIsDue
    BY DEF Init, OwedIsDue
  <1> QED BY <1>2, <1>3, InitImplements DEF DiscoveredInv

LEMMA DiscoveredStep == DiscoveredInv /\ [Next]_vars => DiscoveredInv'
  BY StepImplements, StepAnnounced, StepOwed DEF DiscoveredInv

LEMMA ClaimedAtRest == DiscoveredInv => DiscoveredIsClaimed
  <1> SUFFICES ASSUME DiscoveredInv, req = [r \in Requests |-> Idle] PROVE owed = {}
    BY DEF DiscoveredIsClaimed
  <1>1. \A r \in Requests : Due(r) = {}
    BY IdleTyped DEF Due, At
  <1> QED BY <1>1 DEF DiscoveredInv, OwedIsDue

------------------------------------------------------------------------------

\* The tables, the requests in flight and the histories keep their types,
\* whatever the handlers write over each other.
THEOREM OverlapsTyped == Spec => []TypeOK
  <1>1. IInv /\ [Next]_vars => IInv'
    BY StepImplements
  <1>2. IInv => TypeOK
    BY DEF IInv
  <1> QED BY <1>1, <1>2, InitImplements, PTL DEF Spec

\* Each step of a handler claims something new, tells in one batch what the
\* handler itself has claimed and nobody was told of, or does neither: whoever
\* discovers an overlap, and however many do at once, no second discovery tells
\* a user of the same two names, and the one that does creates no more
\* notifications than there are accounts with these names on either side.
THEOREM ToldOnce == Spec => ToldAtMostOnce
  <1>1. IInv /\ [Next]_vars => IInv' /\ [Once!Next]_(Once!vars)
    BY StepImplements
  <1> QED BY <1>1, InitImplements, PTL DEF Spec, ToldAtMostOnce, Once!Spec

\* The count is stored before its overlaps are claimed: each of them is claimed
\* or a request in flight is about to claim it, unless a failure came in
\* between, so that when all requests are done no discovery is left unclaimed.
THEOREM DiscoveredTheorem == Spec => []DiscoveredIsClaimed
  BY DiscoveredInit, DiscoveredStep, ClaimedAtRest, PTL DEF Spec
==============================================================================
