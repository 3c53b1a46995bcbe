---------------------------- MODULE SharedAccounts ----------------------------
(***************************************************************************)
(* What two connected users share is computed in three steps: from the     *)
(* list each of them has published (AccountLists), over the accounts that  *)
(* the stored decisions are about (MatchDecisions), to the matches         *)
(* (AccountMatching).  Each step takes any state the one before it may     *)
(* leave -- any served accounts, any resolved decisions -- so the three    *)
(* run one at a time, the others left as they started.                     *)
(***************************************************************************)
EXTENDS AccountMatching

CONSTANTS
    Lists, NoList, Requests,                    \* lists of one user
    Names, Score, MaxAccounts, MaxReplaced      \* decisions

VARIABLES
    flow,
    status, newer, batches, req, published, unserved, unwritten, stale, missed,
    accounts, version, rows, deciding

User == INSTANCE AccountLists WITH rows <- batches

Link == INSTANCE MatchDecisions

ASSUME PartsAssumption == User!ListsAssumption /\ Link!DecisionsAssumption

listVars     == <<status, newer, batches, req, published, unserved, unwritten, stale, missed>>
decisionVars == <<accounts, version, rows, deciding>>
allVars      == <<flow, vars, listVars, decisionVars>>

\* Which automatic levels occur does not matter, only their order: of the
\* tables that have as many of them, those with the lowest.
NoLevelSkipped ==
    \A k \in (SuggestLevels + 1)..(SuggestLevels + AutoLevels - 1) :
        (\E p \in Pairs : level[p] = k + 1) => \E p \in Pairs : level[p] = k

SharedInit ==
    /\ flow \in {"lists", "decisions", "matching"}
    /\ Init /\ User!Init /\ Link!Init
    /\ NoLevelSkipped
    /\ flow # "matching" => level = [p \in Pairs |-> 0]
    /\ flow # "decisions" => accounts = [s \in Link!Sides |-> <<>>]

KeepLists   == flow = "lists" /\ User!Next /\ UNCHANGED <<flow, vars, decisionVars>>
DecidePairs == flow = "decisions" /\ Link!Next /\ UNCHANGED <<flow, vars, listVars>>
FindMatches == flow = "matching" /\ Next /\ UNCHANGED <<flow, listVars, decisionVars>>

SharedSpec == SharedInit /\ [][KeepLists \/ DecidePairs \/ FindMatches]_allVars

------------------------------------------------------------------------------
(* Properties, each of the part that runs *)

\* The types of the lists, their requests, the decisions and the histories.
PartsTypeOK ==
    /\ flow = "lists" => User!TypeOK
    /\ flow = "decisions" => Link!TypeOK

\* However publications interleave, the list activated last is the one served.
LastPublishedIsServed == flow = "lists" => User!LastPublishedIsServed

\* Races leave no more lists active, and no more batches of accounts in a list,
\* than there were requests at the same time.
RacesStayBounded == flow = "lists" => User!RacesStayBounded

\* A list is left without accounts only by a last createMany that was given none,
\* failed or did not run.
UpdatesNeverEmptyAList == flow = "lists" => User!UpdatesNeverEmptyAList

\* The last change of what is served is followed by a count of the matches.
ChangesAreCounted == flow = "lists" => User!ChangesAreCounted

\* Both users take every decision for the same two accounts.
MirroredViews == flow = "decisions" => Link!MirroredViews

\* A decision is about the names it was made for while both lists hold them.
DecisionFollowsItsNames == flow = "decisions" => Link!DecisionFollowsItsNames

\* Publishing the same accounts again changes no decision.
SameFileChangesNothing == Link!SameFileChangesNothing
==============================================================================
