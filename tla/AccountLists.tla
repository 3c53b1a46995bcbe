----------------------------- MODULE AccountLists -----------------------------
(***************************************************************************)
(* The account lists of one user: uploading, updating, publishing and      *)
(* deleting them.  Each is a read of the list followed by several          *)
(* statements, none of them in a transaction, so requests of the same user *)
(* (two tabs, a double click) interleave between them.  Readers everywhere *)
(* else take the active list that was activated last.                      *)
(*                                                                         *)
(* Accounts matter here by the batch of one createMany.                    *)
(***************************************************************************)
EXTENDS Naturals, Sequences, FiniteSets

CONSTANTS
    Lists,          \* names of lists; one is free again once nobody knows it
    NoList,
    Requests        \* requests the server handles at once

\* What the constants have to be; assumed by the module that instantiates this one.
ListsAssumption == IsFiniteSet(Requests) /\ NoList \notin Lists

VARIABLES
    status,     \* of each list; "absent" before its upload and after deletion
    newer,      \* the active lists by updatedAt: <<L, M>> when L's is the later one
    rows,       \* batches of accounts in each list
    req,        \* what each request in flight has read and has still to do
    published,  \* history: the list activated last
    unserved,   \* history: it was deleted, or a publication broke off
    unwritten,  \* history: lists whose last createMany was given no accounts,
                \* failed, or did not run any more
    stale,      \* the served accounts changed since the matches were counted
    missed      \* history: ... and nobody was to count them again

vars == <<status, newer, rows, req, published, unserved, unwritten, stale, missed>>

InFlight   == Cardinality(Requests)
Statuses   == {"absent", "draft", "active", "archived"}
Statements == {"createRows", "deleteRows", "archive", "activate", "remap",
               "deleteList", "resetObserved"}

Request == [todo : Seq(Statements), list : Lists \cup {NoList}, counts : BOOLEAN]
Idle == [todo |-> <<>>, list |-> NoList, counts |-> FALSE]

At(r, s) == req[r].todo # <<>> /\ Head(req[r].todo) = s
List(r)  == req[r].list
End(r)   == req' = [req EXCEPT ![r] = Idle]
Continue(r) == IF Len(req[r].todo) = 1 THEN End(r)
               ELSE req' = [req EXCEPT ![r].todo = Tail(@)]
Begin(r, L, todo, counts) ==
    /\ req[r].todo = <<>>
    /\ req' = [req EXCEPT ![r] = [todo |-> todo, list |-> L, counts |-> counts]]

Active == {L \in Lists : status[L] = "active"}

\* findFirstActive: of the active lists, the one updated last.
Latest(lists, later) == CHOOSE L \in lists : \A M \in lists \ {L} : <<L, M>> \in later
Served == IF Active = {} THEN NoList ELSE Latest(Active, newer)

Among(lists) == newer \cap (lists \X lists)

\* A statement of request r that changed what is served: its own remap follows,
\* or nobody's.
Changed(r) == stale' = TRUE /\ missed' = (missed \/ ~req[r].counts)
Counted    == stale' = FALSE /\ missed' = FALSE
BrokenOff  == missed' = (missed \/ stale) /\ UNCHANGED stale
Unchanged  == UNCHANGED <<stale, missed>>

------------------------------------------------------------------------------
(* Arrivals: each reads the list, and its status, once. *)

\* uploadFile: the list is there before its accounts.
UploadFile(r, L) ==
    /\ status[L] = "absent"
    /\ \A q \in Requests : List(q) # L
    /\ Begin(r, L, <<"createRows">>, FALSE)
    /\ status' = [status EXCEPT ![L] = "draft"]
    /\ UNCHANGED <<newer, rows, published, unserved, unwritten, stale, missed>>

\* mutant: the matches are counted again before the new accounts are there.
UpdateScriptEarly(seen) ==
    <<"deleteRows">> \o (IF seen = "active" THEN <<"remap">> ELSE <<>>) \o <<"createRows">>

\* mutant: the old accounts are deleted after the new ones are written.
UpdateScriptReversed(seen) ==
    <<"createRows", "deleteRows">> \o (IF seen = "active" THEN <<"remap">> ELSE <<>>)

UpdateScript(seen) ==
    IF seen = "active" THEN <<"deleteRows", "createRows", "remap">>
                       ELSE <<"deleteRows", "createRows">>

UpdateAccounts(r, L) ==
    /\ status[L] # "absent"
    /\ Begin(r, L, UpdateScript(status[L]), status[L] = "active")
    /\ UNCHANGED <<status, newer, rows, published, unserved, unwritten, stale, missed>>

\* mutant: the list is activated before the others are archived.
PublishScriptSwapped == <<"activate", "archive", "remap">>

PublishScript == <<"archive", "activate", "remap">>

PublishAccountList(r, L) ==
    /\ status[L] # "absent"
    /\ Begin(r, L, PublishScript, TRUE)
    /\ UNCHANGED <<status, newer, rows, published, unserved, unwritten, stale, missed>>

DeleteScript(seen) ==
    IF seen = "active" THEN <<"deleteList", "resetObserved">> ELSE <<"deleteList">>

DeleteAccountList(r, L) ==
    /\ status[L] # "absent"
    /\ Begin(r, L, DeleteScript(status[L]), status[L] = "active")
    /\ UNCHANGED <<status, newer, rows, published, unserved, unwritten, stale, missed>>

------------------------------------------------------------------------------
(* Their statements *)

\* mutant: the new accounts are added to the old ones.
RowsKept(L) == rows[L]

RowsDeleted(L) == 0

DeleteRows(r) ==
    /\ At(r, "deleteRows")
    /\ rows' = [rows EXCEPT ![List(r)] = RowsDeleted(List(r))]
    /\ IF List(r) = Served THEN Changed(r) ELSE Unchanged
    /\ Continue(r)
    /\ UNCHANGED <<status, newer, published, unserved, unwritten>>

Unwritten(L) == IF status[L] = "absent" THEN unwritten \ {L} ELSE unwritten \cup {L}

\* createMany may be given no accounts (accounts: [], an empty file), and it
\* may fail: always for a list that was deleted, which its accounts refer to.
CreateRows(r) ==
    /\ At(r, "createRows")
    /\ \/ /\ status[List(r)] # "absent"
          /\ rows' = [rows EXCEPT ![List(r)] = IF @ > InFlight THEN @ ELSE @ + 1]
          /\ IF List(r) = Served THEN Changed(r) ELSE Unchanged
          /\ Continue(r)
          /\ unwritten' = unwritten \ {List(r)}
       \/ /\ Continue(r) /\ Unchanged
          /\ unwritten' = Unwritten(List(r)) /\ UNCHANGED rows
       \/ /\ End(r) /\ BrokenOff
          /\ unwritten' = Unwritten(List(r)) /\ UNCHANGED rows
    /\ UNCHANGED <<status, newer, published, unserved>>

\* archiveAllUserLists: drafts are archived too.
ArchiveOthers(r) ==
    /\ At(r, "archive")
    /\ status' = [L \in Lists |-> IF L = List(r) \/ status[L] = "absent"
                                  THEN status[L] ELSE "archived"]
    /\ newer' = Among({List(r)})
    /\ IF Served' # Served THEN Changed(r) ELSE Unchanged
    /\ Continue(r)
    /\ UNCHANGED <<rows, published, unserved, unwritten>>

Activated(L) == Among(Active \ {L}) \cup ({L} \X (Active \ {L}))

\* The update of a list that was deleted throws, with the others archived.
Activate(r) ==
    /\ At(r, "activate")
    /\ IF status[List(r)] = "absent"
       THEN /\ End(r) /\ BrokenOff
            /\ unserved' = TRUE
            /\ UNCHANGED <<status, newer, published>>
       ELSE /\ status' = [status EXCEPT ![List(r)] = "active"]
            /\ newer' = Activated(List(r))
            /\ IF Served' # Served THEN Changed(r) ELSE Unchanged
            /\ published' = List(r) /\ unserved' = FALSE
            /\ Continue(r)
    /\ UNCHANGED <<rows, unwritten>>

\* remapConnectionsAndNotifyInBackground: module OverlapNotifications.
Remap(r) ==
    /\ At(r, "remap")
    /\ Counted
    /\ Continue(r)
    /\ UNCHANGED <<status, newer, rows, published, unserved, unwritten>>

\* Its accounts go with it.
DeleteList(r) ==
    /\ At(r, "deleteList")
    /\ IF status[List(r)] = "absent"
       THEN End(r) /\ UNCHANGED <<status, newer, rows, published, unserved, stale, missed>>
       ELSE /\ status' = [status EXCEPT ![List(r)] = "absent"]
            /\ newer' = Among(Active \ {List(r)})
            /\ rows' = [rows EXCEPT ![List(r)] = 0]
            /\ unserved' = (unserved \/ List(r) = published)
            /\ published' = IF List(r) = published THEN NoList ELSE published
            /\ IF List(r) = Served THEN Changed(r) ELSE Unchanged
            /\ Continue(r)
    /\ unwritten' = unwritten \ {List(r)}

\* With the counts at zero, whoever looks next counts again.
ResetObserved(r) ==
    /\ At(r, "resetObserved")
    /\ Counted
    /\ Continue(r)
    /\ UNCHANGED <<status, newer, rows, published, unserved, unwritten>>

Restart ==
    /\ req # [r \in Requests |-> Idle]
    /\ req' = [r \in Requests |-> Idle]
    /\ unserved' = (unserved \/ \E r \in Requests : At(r, "activate"))
    /\ unwritten' = unwritten \cup {List(r) : r \in {q \in Requests : At(q, "createRows")}}
    /\ BrokenOff
    /\ UNCHANGED <<status, newer, rows, published>>

Init ==
    /\ status = [L \in Lists |-> "absent"]
    /\ newer = {}
    /\ rows = [L \in Lists |-> 0]
    /\ req = [r \in Requests |-> Idle]
    /\ published = NoList /\ unserved = FALSE
    /\ unwritten = {} /\ stale = FALSE /\ missed = FALSE

Arrive(r, L) ==
    \/ UploadFile(r, L) \/ UpdateAccounts(r, L)
    \/ PublishAccountList(r, L) \/ DeleteAccountList(r, L)

Serve(r) ==
    \/ DeleteRows(r) \/ CreateRows(r) \/ ArchiveOthers(r) \/ Activate(r)
    \/ Remap(r) \/ DeleteList(r) \/ ResetObserved(r)

Next ==
    \/ \E r \in Requests : Serve(r) \/ \E L \in Lists : Arrive(r, L)
    \/ Restart

Spec == Init /\ [][Next]_vars

------------------------------------------------------------------------------
(* Properties *)

AtRest == req = [r \in Requests |-> Idle]

\* The types of the lists, the requests and the histories; any two active lists,
\* and no others, have an order, which is the same for any three.
TypeOK ==
    /\ status \in [Lists -> Statuses]
    /\ newer \subseteq Active \X Active
    /\ \A L, M \in Active : L # M => (<<L, M>> \in newer <=> <<M, L>> \notin newer)
    /\ \A L, M, N \in Active : {<<L, M>>, <<M, N>>} \subseteq newer => <<L, N>> \in newer
    /\ \A L \in Active : <<L, L>> \notin newer
    /\ rows \in [Lists -> 0..(InFlight + 1)]
    /\ req \in [Requests -> Request]
    /\ published \in Lists \cup {NoList}
    /\ unwritten \subseteq Lists
    /\ {unserved, stale, missed} \subseteq BOOLEAN

\* However publications interleave, the list activated last is the one served
\* when they are done, unless it was deleted or one broke off in between.
LastPublishedIsServed == AtRest => unserved \/ Served = published

\* Publications that race may leave several lists active, and updates that race
\* may add up in one list, but never more than ran at the same time, and none is
\* left over by a later one.
RacesStayBounded == Cardinality(Active) <= InFlight /\ \A L \in Lists : rows[L] <= InFlight

\* A list is left without accounts only if its last createMany was given none,
\* failed or did not run: whichever updates raced, the one that deleted last
\* also wrote after that (account-lists.service.ts:77-86).
UpdatesNeverEmptyAList ==
    AtRest => \A L \in Lists \ unwritten : status[L] # "absent" => rows[L] > 0

\* After the last change of what is served the matches are counted again, or
\* their count is reset, unless the request had seen the list in another
\* status or broke off.
ChangesAreCounted == AtRest /\ stale => missed
==============================================================================
