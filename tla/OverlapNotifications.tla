------------------------- MODULE OverlapNotifications -------------------------
(***************************************************************************)
(* The shared accounts of one accepted connection: how many there were     *)
(* when somebody last looked, who muted the connection at which count, and *)
(* who was told of which overlap.  Every handler works on the connection   *)
(* row it read first, while others write it.                               *)
(*                                                                         *)
(* An overlap is a pair of accounts, one of each user's active list, that  *)
(* findMatchedAccounts resolves.  What it returns is the parameter         *)
(* Matching: module AccountMatching computes it, for each of the two users *)
(* in the order of their own list, so that their counts may differ.        *)
(* Several accounts of a list may share a normalized name, and the claims  *)
(* of notifications know names only.                                       *)
(*                                                                         *)
(* The lists change under the handlers in any way; an account stands for   *)
(* one entry of a list, uploaded again or not.  Deleting the connection    *)
(* deletes all this with it.                                               *)
(***************************************************************************)
EXTENDS Integers, Sequences, FiniteSets

CONSTANTS
    Lists,          \* bound: the lists each user may have, as sets of accounts
    Name,           \* the normalized name of each account
    Matching,       \* what a viewer resolves of two lists with the decisions
    Requests,       \* requests the server handles at once
    MaxChanges      \* bound: changes of lists, decisions and mutes, and failures

Sides == {"sender", "receiver"}
Other(s) == CHOOSE t \in Sides : t # s

Accounts(s) == UNION Lists[s]
Pairs == Accounts("sender") \X Accounts("receiver")
Decisions == [Pairs -> {"none", "accepted", "rejected"}]
NoDecisions == [p \in Pairs |-> "none"]

\* One account is in one pair at most: module AccountMatching, OneToOne.
OneToOne(pairs) ==
    \A p, q \in pairs : p[1] = q[1] \/ p[2] = q[2] => p = q

ASSUME OverlapAssumption ==
    /\ \A s \in Sides : {} \in Lists[s] /\ IsFiniteSet(Accounts(s))
    /\ \A v \in Sides : \A a \in Lists["sender"] : \A b \in Lists["receiver"] :
           \A d \in Decisions :
               /\ Matching[<<v, a, b, d>>] \subseteq a \X b
               /\ OneToOne(Matching[<<v, a, b, d>>])
    /\ MaxChanges \in Nat

VARIABLES
    list,       \* the accounts of each user's active list
    decision,   \* the decision on each pair of accounts, if any
    row,        \* the connection: last observed count, muted counts
    claimed,    \* observed_overlap_notifications: <<user, names>>
    told,       \* notifications created for each <<user, names>>
    req,        \* what each request in flight has read and has still to do
    hushed,     \* history: <<user, names>> whose discovery ended a mute
    owed,       \* history: what was discovered and is to be claimed
    changes

vars == <<list, decision, row, claimed, told, req, hushed, owed, changes>>

\* toObservedOverlapClaimKey: the two normalized names.
Key(p) == <<Name[p[1]], Name[p[2]]>>
Keys(pairs) == {Key(p) : p \in pairs}
Claims == Sides \X Keys(Pairs)

Null == -1                              \* never observed; not muted
Counts == 0..Cardinality(Pairs)
Row == [observed : Counts \cup {Null}, muted : [Sides -> Counts \cup {Null}]]

Statements == {"connection", "yours", "theirs", "decisions", "before", "decide",
               "after", "baseline", "unmuteSender", "unmuteReceiver", "observe",
               "find", "claim", "tell", "setMuted", "setObserved", "clearMuted",
               "clearIfMore", "resetObserved"}
Paths == {"none", "look", "remap", "accept", "reject", "mute", "unmute",
          "connections", "deleteList"}

Unread == [observed |-> Null, muted |-> [s \in Sides |-> Null]]
Listed == {l \in [Sides -> SUBSET (Accounts("sender") \cup Accounts("receiver"))] :
             \A s \in Sides : l[s] \in Lists[s]}
NoLists == [s \in Sides |-> {}]

NoPair == <<>>

Request == [todo : Seq(Statements), path : Paths, side : Sides,
            pair : Pairs \cup {NoPair}, seen : Row, lists : Listed,
            resolved : SUBSET Pairs, previous : Counts,
            mutedAtDiscovery : SUBSET Sides, hearers : SUBSET Sides,
            pending : SUBSET Claims, won : SUBSET Claims]
Idle == [todo |-> <<>>, path |-> "none", side |-> "sender", pair |-> NoPair,
         seen |-> Unread, lists |-> NoLists, resolved |-> {}, previous |-> 0,
         mutedAtDiscovery |-> {}, hearers |-> {}, pending |-> {}, won |-> {}]

Announce == <<"unmuteSender", "unmuteReceiver", "observe", "find", "claim", "tell">>

Script(path) ==
    CASE path = "look" -> <<"yours", "connection", "theirs", "decisions">> \o Announce
      [] path = "remap" -> <<"connection", "yours", "theirs", "decisions">> \o Announce
      [] path = "accept" -> <<"connection", "yours", "theirs", "before", "decide",
                              "after", "baseline">> \o Announce
      [] path = "reject" -> <<"connection", "yours", "theirs", "decide">>
      [] path = "mute" -> <<"connection", "yours", "theirs", "setMuted", "setObserved">>
      [] path = "unmute" -> <<"connection", "clearMuted">>
      [] path = "connections" -> <<"connection", "yours", "theirs", "clearIfMore">>
      [] path = "deleteList" -> <<"resetObserved">>

At(r, s) == req[r].todo # <<>> /\ Head(req[r].todo) = s
Side(r) == req[r].side
Seen(r) == req[r].seen
End(r) == req' = [req EXCEPT ![r] = Idle]
Continue(r, new) ==
    IF Len(req[r].todo) = 1 THEN End(r)
    ELSE req' = [req EXCEPT ![r] = [new EXCEPT !.todo = Tail(@)]]
Begin(r, path, s, p) ==
    /\ req[r].todo = <<>>
    /\ req' = [req EXCEPT ![r] = [Idle EXCEPT !.todo = Script(path), !.path = path,
                                              !.side = s, !.pair = p]]
Change == changes < MaxChanges /\ changes' = changes + 1

data == <<list, decision, row, claimed, told>>
log  == <<hushed, owed, changes>>

------------------------------------------------------------------------------
(* Requests arrive, lists change *)

Look(r, s) == Begin(r, "look", s, NoPair) /\ UNCHANGED <<data, log>>
GetConnections(r, s) == Begin(r, "connections", s, NoPair) /\ UNCHANGED <<data, log>>

UserActs(r, path, s, p) ==
    /\ Change /\ Begin(r, path, s, p)
    /\ UNCHANGED <<data, hushed, owed>>

SetMatchDecision(r, s, p) == UserActs(r, "accept", s, p) \/ UserActs(r, "reject", s, p)
MuteConnection(r, s) == UserActs(r, "mute", s, NoPair)
UnmuteConnection(r, s) == UserActs(r, "unmute", s, NoPair)

\* The last write of a publication or an update, with the background remap.
PublishList(r, s, accounts) ==
    /\ Change
    /\ list' = [list EXCEPT ![s] = accounts]
    /\ Begin(r, "remap", s, NoPair)
    /\ UNCHANGED <<decision, row, claimed, told, hushed, owed>>

\* The writes before it: other lists archived, accounts deleted.
ListEmptied(s) ==
    /\ Change
    /\ list' = [list EXCEPT ![s] = {}]
    /\ UNCHANGED <<decision, row, claimed, told, req, hushed, owed>>

DeleteActiveList(r, s) ==
    /\ Change
    /\ list' = [list EXCEPT ![s] = {}]
    /\ Begin(r, "deleteList", s, NoPair)
    /\ UNCHANGED <<decision, row, claimed, told, hushed, owed>>

\* mutant: the count is taken down by one, not stored as zero.
ResetObservedDecrementing(r) ==
    /\ At(r, "resetObserved")
    /\ row' = [row EXCEPT !.observed = @ - 1]
    /\ End(r)
    /\ UNCHANGED <<list, decision, claimed, told, log>>

ResetObserved(r) ==
    /\ At(r, "resetObserved")
    /\ row' = [row EXCEPT !.observed = 0]
    /\ End(r)
    /\ UNCHANGED <<list, decision, claimed, told, log>>

------------------------------------------------------------------------------
(* Reading the connection, the lists and the decisions *)

ReadConnection(r) ==
    /\ At(r, "connection")
    /\ IF \/ req[r].path \in {"unmute", "connections"} /\ row.muted[Side(r)] = Null
          \/ req[r].path = "mute" /\ row.muted[Side(r)] # Null
       THEN End(r)
       ELSE Continue(r, [req[r] EXCEPT !.seen = row])
    /\ UNCHANGED <<data, log>>

\* Who looks at all matches without an active list sees none.
ReadYours(r) ==
    LET s == Side(r)
    IN  /\ At(r, "yours")
        /\ IF req[r].path = "look" /\ list[s] = {} THEN End(r)
           ELSE Continue(r, [req[r] EXCEPT !.lists[s] = list[s]])
        /\ UNCHANGED <<data, log>>

InLists(p, lists) == p[1] \in lists["sender"] /\ p[2] \in lists["receiver"]

ReadTheirs(r) ==
    LET s     == Other(Side(r))
        lists == [req[r].lists EXCEPT ![s] = list[s]]
    IN  /\ At(r, "theirs")
        /\ IF \/ req[r].path = "look" /\ list[s] = {}
              \/ req[r].path \in {"accept", "reject"} /\ ~InLists(req[r].pair, lists)
           THEN End(r)
           ELSE Continue(r, [req[r] EXCEPT !.lists = lists])
        /\ UNCHANGED <<data, log>>

\* findMatches on what the request has read.
Resolved(r, d) ==
    Matching[<<Side(r), req[r].lists["sender"], req[r].lists["receiver"], d>>]

\* getSharedMatchCount of the connections knows no decisions.
SharedMatchCount(r) == Cardinality(Resolved(r, NoDecisions))

Muted(c) == {s \in Sides : c.muted[s] # Null}

ReadDecisions(r) ==
    /\ At(r, "decisions") \/ At(r, "after")
    /\ Continue(r, [req[r] EXCEPT !.resolved = Resolved(r, decision),
                                  !.lists = NoLists,
                                  !.mutedAtDiscovery = Muted(Seen(r))])
    /\ UNCHANGED <<data, log>>

CountBefore(r) ==
    /\ At(r, "before")
    /\ Continue(r, [req[r] EXCEPT !.previous = Cardinality(Resolved(r, decision))])
    /\ UNCHANGED <<data, log>>

------------------------------------------------------------------------------
(* Deciding, muting *)

UpsertDecision(r) ==
    /\ At(r, "decide")
    /\ decision' = [decision EXCEPT ![req[r].pair] =
                      IF req[r].path = "accept" THEN "accepted" ELSE "rejected"]
    /\ Continue(r, req[r])
    /\ UNCHANGED <<list, row, claimed, told, log>>

Larger(a, b) == IF a > b THEN a ELSE b

\* The first decision on a connection nobody looked at: what was shared before
\* it is taken as known.
StoreBaseline(r) ==
    /\ At(r, "baseline")
    /\ IF Seen(r).observed = Null
       THEN /\ row' = [row EXCEPT !.observed = req[r].previous]
            /\ Continue(r, [req[r] EXCEPT !.seen.observed = req[r].previous])
       ELSE Continue(r, req[r]) /\ UNCHANGED row
    /\ UNCHANGED <<list, decision, claimed, told, log>>

SetMuted(r) ==
    /\ At(r, "setMuted")
    /\ row' = [row EXCEPT !.muted[Side(r)] = SharedMatchCount(r)]
    /\ Continue(r, req[r])
    /\ UNCHANGED <<list, decision, claimed, told, log>>

SetObserved(r) ==
    /\ At(r, "setObserved")
    /\ row' = [row EXCEPT !.observed = Larger(Seen(r).observed, SharedMatchCount(r))]
    /\ End(r)
    /\ UNCHANGED <<list, decision, claimed, told, log>>

ClearMuted(r) ==
    /\ At(r, "clearMuted")
    /\ row' = [row EXCEPT !.muted[Side(r)] = Null]
    /\ End(r)
    /\ UNCHANGED <<list, decision, claimed, told, log>>

\* What a user whose mute ends by a discovery is not to be told of.
Hush(s, pairs) == hushed' = hushed \cup (({s} \X Keys(pairs)) \ claimed)

ClearWhenIncreased(r) ==
    /\ At(r, "clearIfMore")
    /\ IF SharedMatchCount(r) > Seen(r).muted[Side(r)]
       THEN /\ row' = [row EXCEPT !.muted[Side(r)] = Null]
            /\ Hush(Side(r), Resolved(r, NoDecisions))
       ELSE UNCHANGED <<row, hushed>>
    /\ End(r)
    /\ UNCHANGED <<list, decision, claimed, told, owed, changes>>

\* The row that the update returns replaces the one the request had read.
AutoUnmute(r, s, statement) ==
    /\ At(r, statement)
    /\ IF s \in Muted(Seen(r)) /\ Cardinality(req[r].resolved) > Seen(r).muted[s]
       THEN /\ row' = [row EXCEPT !.muted[s] = Null]
            /\ Hush(s, req[r].resolved)
            /\ Continue(r, [req[r] EXCEPT !.seen = row'])
       ELSE Continue(r, req[r]) /\ UNCHANGED <<row, hushed>>
    /\ UNCHANGED <<list, decision, claimed, told, owed, changes>>

------------------------------------------------------------------------------
(* The count, the claims, the notifications *)

\* mutant: a decrease is not worth a write.
CountIncreased(previous, current) == current > previous

CountChanged(previous, current) == current # previous

\* What the rest of the request still uses: who was not muted, at the discovery
\* and after the unmuting, and the overlaps.
Announcing(r) ==
    [Idle EXCEPT !.todo = req[r].todo, !.resolved = req[r].resolved,
                 !.hearers = Sides \ (Muted(Seen(r)) \cup req[r].mutedAtDiscovery)]

\* mutant: nothing is claimed for a user who will not be told.
CandidatesUnmuted(r) == req[r].hearers \X Keys(req[r].resolved)

\* buildOverlapNotificationCandidates and dedupeClaims: the names of every
\* pair, for both users, muted or not.
Candidates(r) == Sides \X Keys(req[r].resolved)

\* handleSharedMatchCountChange: a first count is stored whatever the row holds
\* by now; any other only over the count this request had read.
ObserveCount(r) ==
    LET previous == Seen(r).observed
        current  == Cardinality(req[r].resolved)
        stores   == previous = Null \/ (CountChanged(previous, current) /\ row.observed = previous)
    IN  /\ At(r, "observe")
        /\ IF req[r].path = "look" /\ Side(r) \in Muted(Seen(r))
           THEN End(r) /\ UNCHANGED <<row, owed>>
           ELSE /\ row' = IF stores THEN [row EXCEPT !.observed = current] ELSE row
                /\ IF stores /\ current > Larger(previous, 0)
                   THEN /\ Continue(r, Announcing(r))
                        /\ owed' = owed \cup ((Sides \X Keys(req[r].resolved)) \ claimed)
                   ELSE End(r) /\ UNCHANGED owed
        /\ UNCHANGED <<list, decision, claimed, told, hushed, changes>>

FindClaimed(r) ==
    LET pending == Candidates(r) \ claimed
    IN  /\ At(r, "find")
        /\ IF pending = {} THEN End(r)
           ELSE Continue(r, [req[r] EXCEPT !.pending = pending])
        /\ UNCHANGED <<data, log>>

\* mutant: what the lookup did not find is taken as won.
WinsAlways(c) == TRUE

\* The unique index refuses the second of two concurrent inserts.
Wins(c) == c \notin claimed

ClaimNext(r) ==
    /\ At(r, "claim")
    /\ \E c \in req[r].pending :
         LET left == req[r].pending \ {c}
             won  == IF Wins(c) THEN req[r].won \cup {c} ELSE req[r].won
             new  == [req[r] EXCEPT !.pending = left, !.won = won]
         IN  /\ claimed' = claimed \cup {c} /\ owed' = owed \ {c}
             /\ \/ left # {} /\ req' = [req EXCEPT ![r] = new]
                \/ left = {} /\ won # {} /\ Continue(r, new)
                \/ left = {} /\ won = {} /\ End(r)
    /\ UNCHANGED <<list, decision, row, told, hushed, changes>>

\* The candidates are filtered by their names: one for every pair of accounts.
Deliverable(r, c) ==
    {p \in req[r].resolved : c \in req[r].won /\ c[1] \in req[r].hearers /\ Key(p) = c[2]}

Tell(r) ==
    /\ At(r, "tell")
    /\ told' = [c \in Claims |-> told[c] + Cardinality(Deliverable(r, c))]
    /\ End(r)
    /\ UNCHANGED <<list, decision, row, claimed, log>>

------------------------------------------------------------------------------

\* The claims that a request has still to make.
Due(r) ==
    {c \in Candidates(r) : At(r, "find")} \cup {c \in req[r].pending : At(r, "claim")}

\* What fails before its claims are made leaves the count stored: what was
\* discovered is then owed by the others only, as far as they have found it.
CutShort(failed) == owed' = owed \cap UNION {Due(r) : r \in Requests \ failed}

\* A statement of the announcement fails: the error is logged and nothing else.
AnnouncementFails(r) ==
    /\ At(r, "find") \/ At(r, "claim") \/ At(r, "tell")
    /\ Change /\ End(r)
    /\ CutShort({r})
    /\ UNCHANGED <<data, hushed>>

Restart ==
    /\ Change
    /\ req' = [r \in Requests |-> Idle]
    /\ CutShort(Requests)
    /\ UNCHANGED <<data, hushed>>

Init ==
    /\ list \in Listed
    /\ decision = NoDecisions
    /\ row = Unread
    /\ claimed = {}
    /\ told = [c \in Claims |-> 0]
    /\ req = [r \in Requests |-> Idle]
    /\ hushed = {} /\ owed = {}
    /\ changes = 0

Arrive(r) ==
    \E s \in Sides :
        \/ Look(r, s) \/ GetConnections(r, s)
        \/ \E accounts \in Lists[s] : PublishList(r, s, accounts)
        \/ \E p \in Pairs : SetMatchDecision(r, s, p)
        \/ MuteConnection(r, s) \/ UnmuteConnection(r, s) \/ DeleteActiveList(r, s)

Serve(r) ==
    \/ ReadConnection(r) \/ ReadYours(r) \/ ReadTheirs(r) \/ ReadDecisions(r)
    \/ CountBefore(r) \/ UpsertDecision(r) \/ StoreBaseline(r)
    \/ SetMuted(r) \/ SetObserved(r) \/ ClearMuted(r) \/ ClearWhenIncreased(r)
    \/ AutoUnmute(r, "sender", "unmuteSender") \/ AutoUnmute(r, "receiver", "unmuteReceiver")
    \/ ObserveCount(r) \/ FindClaimed(r) \/ ClaimNext(r) \/ Tell(r) \/ ResetObserved(r)

Next ==
    \/ \E r \in Requests : Arrive(r) \/ Serve(r) \/ AnnouncementFails(r)
    \/ \E s \in Sides : ListEmptied(s)
    \/ Restart

Spec == Init /\ [][Next]_vars

\* The server finishes what it started, and both users keep looking.
Fairness ==
    \A r \in Requests : WF_vars(Serve(r)) /\ \A s \in Sides : SF_vars(Look(r, s))

------------------------------------------------------------------------------
(* Properties *)

\* The types of the tables, the requests and the histories.
TypeOK ==
    /\ list \in Listed
    /\ decision \in Decisions
    /\ row \in Row
    /\ claimed \subseteq Claims
    /\ told \in [Claims -> Nat]
    /\ req \in [Requests -> Request]
    /\ hushed \subseteq Claims /\ owed \subseteq Claims
    /\ changes \in 0..MaxChanges

\* As many pairs of accounts with these names as one matching may hold.
Smaller(a, b) == IF a < b THEN a ELSE b
Named(s, name) == {x \in Accounts(s) : Name[x] = name}
Copies == [c \in Claims |-> Smaller(Cardinality(Named("sender", c[2][1])),
                                    Cardinality(Named("receiver", c[2][2])))]

\* Nobody is told of an overlap of two names that was not claimed, nor by a
\* second discovery, however often it goes and comes back, the count is reset,
\* and two requests discover it at the same time (matching.controller.spec.ts:
\* 402-405).  The one discovery that is told creates a notification for each
\* pair of accounts with these names: one where no list holds a name twice.
Once == INSTANCE TellOnce
ToldAtMostOnce == Once!Spec

\* What was discovered is claimed for both users, the muted one included, so
\* that it is not new to anybody later: when the requests are done, every
\* overlap of every increase that was stored is claimed, by the request that
\* stored it or by one that it raced with, unless a failure cut it short.
DiscoveredIsClaimed ==
    req = [r \in Requests |-> Idle] => owed = {}

Blind == Muted(row) = Sides \/ \E s \in Sides : list[s] = {}

\* What a user would count now.
CountFor(v) == Cardinality(Matching[<<v, list["sender"], list["receiver"], decision>>])

\* However the counts stored by looks, mutes, decisions and deletions raced,
\* looking again corrects them, to the count of one of the two users; where
\* those differ it may go on changing between them.  Nobody sees when both
\* users muted the connection or one has no list.
ObservedCatchesUp == <>[](Blind \/ row.observed \in {CountFor(v) : v \in Sides})

\* A user whose mute was ended by an overlap is not told of that overlap
\* (matching.controller.spec.ts:272-274).
MutedAreNotTold == \A c \in hushed : told[c] = 0
==============================================================================
