-------------------------------- MODULE Invites --------------------------------
(***************************************************************************)
(* How two users become connected: a connection request the receiver       *)
(* accepts, or an invitation by email that the invited person accepts      *)
(* after signing up.  The database forbids two rows with the same sender   *)
(* and receiver; that no row exists the other way round, that an           *)
(* invitation is still pending and that the daily limit is not reached are *)
(* read first and acted on by later statements.                            *)
(***************************************************************************)
EXTENDS Naturals, FiniteSets

CONSTANTS
    Users, NoUser,
    Conns, NoConn,      \* enough names for the rows alive or referred to
    InviteIds, NoInvite,
    Requests,           \* requests the server handles at once
    DailyLimit,         \* 10 invitations in 24 hours
    MaxRestarts         \* bound: restarts of the process

ASSUME InvitesAssumption ==
    /\ NoUser \notin Users /\ NoConn \notin Conns /\ NoInvite \notin InviteIds
    /\ IsFiniteSet(InviteIds) /\ IsFiniteSet(Requests)
    /\ DailyLimit \in Nat \ {0} /\ MaxRestarts \in Nat

VARIABLES
    joined,     \* the users who signed up
    conn,       \* the connections table
    invite,     \* the invites table
    req,        \* what each request in flight has read and does next
    offered,    \* history: <<a, b>>, a asked to be connected with b
    taken,      \* history: <<a, b>>, b agreed to be connected with a
    met,        \* history: {a, b}, a row once connected a and b
    restarts

vars == <<joined, conn, invite, req, offered, taken, met, restarts>>

Connection == [status : {"none", "pending", "accepted"},
               sender : Users \cup {NoUser}, receiver : Users \cup {NoUser}]
NoRow == [status |-> "none", sender |-> NoUser, receiver |-> NoUser]

\* due: past expiresAt; recent: created in the last 24 hours.
Invite == [status : {"unborn", "pending", "accepted", "expired", "revoked"},
           from : Users \cup {NoUser}, to : Users \cup {NoUser},
           due : BOOLEAN, recent : BOOLEAN]
Unborn == [status |-> "unborn", from |-> NoUser, to |-> NoUser,
           due |-> FALSE, recent |-> FALSE]

Steps == {"idle", "connect", "approve", "lookup", "findExisting", "findInvite", "replace",
          "createInvite", "expire", "revoke", "findConnection", "connectAccepted", "mark"}
Request == [pc : Steps, from : Users \cup {NoUser}, to : Users \cup {NoUser},
            conn : Conns \cup {NoConn}, invite : InviteIds \cup {NoInvite}]
Idle == [pc |-> "idle", from |-> NoUser, to |-> NoUser,
         conn |-> NoConn, invite |-> NoInvite]

At(r, s) == req[r].pc = s
End(r) == req' = [req EXCEPT ![r] = Idle]
Goto(r, s) == req' = [req EXCEPT ![r].pc = s]
Begin(r, s, a, b, c, i) ==
    /\ At(r, "idle")
    /\ req' = [req EXCEPT ![r] = [pc |-> s, from |-> a, to |-> b, conn |-> c, invite |-> i]]

Live(c) == conn[c].status # "none"
history == <<offered, taken, met, restarts>>

------------------------------------------------------------------------------
(* Connections *)

\* mutant: nobody looks.
NotLookedUp(a, b) == {}

\* findExistingConnection: either way round.
Existing(a, b) ==
    {c \in Conns : Live(c) /\ {conn[c].sender, conn[c].receiver} = {a, b}}

\* The unique index on (senderId, receiverId).
Duplicate(a, b) == \E c \in Conns : Live(c) /\ conn[c].sender = a /\ conn[c].receiver = b

Insert(a, b, status) ==
    \E c \in Conns \ {req[r].conn : r \in Requests} :
        /\ ~Live(c)
        /\ conn' = [conn EXCEPT ![c] = [status |-> status, sender |-> a, receiver |-> b]]
        /\ met' = met \cup {{a, b}}

CreateConnection(r, a, b) ==
    /\ a \in joined /\ b \in joined /\ a # b
    /\ Existing(a, b) = {}
    /\ Begin(r, "connect", a, b, NoConn, NoInvite)
    /\ offered' = offered \cup {<<a, b>>}
    /\ UNCHANGED <<joined, conn, invite, taken, met, restarts>>

InsertPending(r) ==
    /\ At(r, "connect")
    /\ IF Duplicate(req[r].from, req[r].to)
       THEN UNCHANGED <<conn, met>>
       ELSE Insert(req[r].from, req[r].to, "pending")
    /\ End(r)
    /\ UNCHANGED <<joined, invite, offered, taken, restarts>>

\* mutant: either party may accept.
MayAcceptAsParty(c, u) == u \in {conn[c].sender, conn[c].receiver}

MayAccept(c, u) == conn[c].receiver = u

AcceptConnection(r, c, u) ==
    /\ conn[c].status = "pending"
    /\ MayAccept(c, u)
    /\ Begin(r, "approve", NoUser, NoUser, c, NoInvite)
    /\ taken' = taken \cup {<<a, u>> : a \in {conn[c].sender, conn[c].receiver} \ {u}}
    /\ UNCHANGED <<joined, conn, invite, offered, met, restarts>>

Approve(r) ==
    /\ At(r, "approve")
    /\ conn' = IF Live(req[r].conn)
               THEN [conn EXCEPT ![req[r].conn].status = "accepted"] ELSE conn
    /\ End(r)
    /\ UNCHANGED <<joined, invite, history>>

DeleteConnection(c) ==
    /\ Live(c)
    /\ conn' = [conn EXCEPT ![c] = NoRow]
    /\ UNCHANGED <<joined, invite, req, history>>

------------------------------------------------------------------------------
(* Sending an invitation *)

\* bound: an invitation is only started when a row is left for it.
Sending ==
    {r \in Requests : req[r].pc \in {"lookup", "findInvite", "replace", "createInvite"}}
RoomForInvite ==
    Cardinality({i \in InviteIds : invite[i].status = "unborn"}) > Cardinality(Sending)

RecentInvites(a) == {i \in InviteIds : invite[i].from = a /\ invite[i].recent}

\* mutant: an off-by-one in the limit.
WithinLimitOrAt(a) == Cardinality(RecentInvites(a)) <= DailyLimit

WithinDailyLimit(a) == Cardinality(RecentInvites(a)) < DailyLimit

SendInvite(r, a, b) ==
    /\ a \in joined /\ a # b
    /\ RoomForInvite
    /\ WithinDailyLimit(a)
    /\ Begin(r, "lookup", a, b, NoConn, NoInvite)
    /\ offered' = offered \cup {<<a, b>>}
    /\ UNCHANGED <<joined, conn, invite, taken, met, restarts>>

\* An invited person who has an account is sent a connection request instead.
LookupInvitee(r) ==
    /\ At(r, "lookup")
    /\ Goto(r, IF req[r].to \in joined THEN "findExisting" ELSE "findInvite")
    /\ UNCHANGED <<joined, conn, invite, history>>

FindExistingConnection(r) ==
    /\ At(r, "findExisting")
    /\ IF Existing(req[r].from, req[r].to) = {} THEN Goto(r, "connect") ELSE End(r)
    /\ UNCHANGED <<joined, conn, invite, history>>

PendingInvites(a, b) ==
    {i \in InviteIds : /\ invite[i].status = "pending" /\ ~invite[i].due
                       /\ invite[i].from = a /\ invite[i].to = b}

FindPendingInvite(r) ==
    LET found == PendingInvites(req[r].from, req[r].to)
    IN  /\ At(r, "findInvite")
        /\ \/ found = {} /\ Goto(r, "createInvite")
           \/ \E i \in found :
                req' = [req EXCEPT ![r].pc = "replace", ![r].invite = i]
        /\ UNCHANGED <<joined, conn, invite, history>>

\* mutant: the columns of updateStatus swapped.
SetStatusSwapped(r, s) == invite' = [invite EXCEPT ![req[r].invite].to = s]

\* updateStatus is by id alone, whatever the status is by now.
SetStatus(r, s) == invite' = [invite EXCEPT ![req[r].invite].status = s]

ReplaceInvite(r) ==
    /\ At(r, "replace")
    /\ SetStatus(r, "revoked")
    /\ Goto(r, "createInvite")
    /\ UNCHANGED <<joined, conn, history>>

CreateInvite(r) ==
    /\ At(r, "createInvite")
    /\ \E i \in InviteIds :
         /\ invite[i].status = "unborn"
         /\ invite' = [invite EXCEPT ![i] =
                         [status |-> "pending", from |-> req[r].from, to |-> req[r].to,
                          due |-> FALSE, recent |-> TRUE]]
    /\ End(r)
    /\ UNCHANGED <<joined, conn, history>>

------------------------------------------------------------------------------
(* Answering, revoking and expiring an invitation *)

\* validateToken, or an attempt to accept: the link turns out to be too old.
FindExpired(r, i) ==
    /\ invite[i].status = "pending" /\ invite[i].due
    /\ Begin(r, "expire", NoUser, NoUser, NoConn, i)
    /\ UNCHANGED <<joined, conn, invite, history>>

ExpireInvite(r) ==
    /\ At(r, "expire")
    /\ SetStatus(r, "expired")
    /\ End(r)
    /\ UNCHANGED <<joined, conn, history>>

RevokeInvite(r, i) ==
    /\ invite[i].status = "pending"
    /\ Begin(r, "revoke", NoUser, NoUser, NoConn, i)
    /\ UNCHANGED <<joined, conn, invite, history>>

StoreRevoked(r) ==
    /\ At(r, "revoke")
    /\ SetStatus(r, "revoked")
    /\ End(r)
    /\ UNCHANGED <<joined, conn, history>>

\* mutant: the invitation is marked first, the connection created after.
AcceptInviteMarking(r, i) ==
    /\ invite[i].to \in joined
    /\ invite[i].status = "pending" /\ ~invite[i].due
    /\ Begin(r, "findConnection", invite[i].from, invite[i].to, NoConn, i)
    /\ taken' = taken \cup {<<invite[i].from, invite[i].to>>}
    /\ invite' = [invite EXCEPT ![i].status = "accepted"]
    /\ UNCHANGED <<joined, conn, offered, met, restarts>>

AcceptInvite(r, i) ==
    /\ invite[i].to \in joined
    /\ invite[i].status = "pending" /\ ~invite[i].due
    /\ Begin(r, "findConnection", invite[i].from, invite[i].to, NoConn, i)
    /\ taken' = taken \cup {<<invite[i].from, invite[i].to>>}
    /\ UNCHANGED <<joined, conn, invite, offered, met, restarts>>

FindConnection(r) ==
    /\ At(r, "findConnection")
    /\ Goto(r, IF Existing(req[r].from, req[r].to) = {} THEN "connectAccepted" ELSE "mark")
    /\ UNCHANGED <<joined, conn, invite, history>>

InsertAccepted(r) ==
    /\ At(r, "connectAccepted")
    /\ \/ /\ Duplicate(req[r].from, req[r].to)
          /\ End(r)
          /\ UNCHANGED <<conn, met>>
       \/ /\ ~Duplicate(req[r].from, req[r].to)
          /\ Insert(req[r].from, req[r].to, "accepted")
          /\ Goto(r, "mark")
    /\ UNCHANGED <<joined, invite, offered, taken, restarts>>

MarkAccepted(r) ==
    /\ At(r, "mark")
    /\ SetStatus(r, "accepted")
    /\ End(r)
    /\ UNCHANGED <<joined, conn, history>>

------------------------------------------------------------------------------

SignUp(u) ==
    /\ u \notin joined
    /\ joined' = joined \cup {u}
    /\ UNCHANGED <<conn, invite, req, history>>

DayPasses ==
    /\ invite' = [i \in InviteIds |-> [invite[i] EXCEPT !.recent = FALSE]]
    /\ UNCHANGED <<joined, conn, req, history>>

WeekPasses(i) ==
    /\ invite[i].status = "pending" /\ ~invite[i].recent
    /\ invite' = [invite EXCEPT ![i].due = TRUE]
    /\ UNCHANGED <<joined, conn, req, history>>

Restart ==
    /\ restarts < MaxRestarts
    /\ restarts' = restarts + 1
    /\ req' = [r \in Requests |-> Idle]
    /\ UNCHANGED <<joined, conn, invite, offered, taken, met>>

Init ==
    /\ joined = {}
    /\ conn = [c \in Conns |-> NoRow]
    /\ invite = [i \in InviteIds |-> Unborn]
    /\ req = [r \in Requests |-> Idle]
    /\ offered = {} /\ taken = {} /\ met = {}
    /\ restarts = 0

Serve(r) ==
    \/ InsertPending(r) \/ Approve(r)
    \/ LookupInvitee(r) \/ FindExistingConnection(r)
    \/ FindPendingInvite(r) \/ ReplaceInvite(r) \/ CreateInvite(r)
    \/ ExpireInvite(r) \/ StoreRevoked(r)
    \/ FindConnection(r) \/ InsertAccepted(r) \/ MarkAccepted(r)

Arrive(r) ==
    \/ \E a, b \in Users : CreateConnection(r, a, b) \/ SendInvite(r, a, b)
    \/ \E c \in Conns, u \in Users : AcceptConnection(r, c, u)
    \/ \E i \in InviteIds :
         FindExpired(r, i) \/ RevokeInvite(r, i) \/ AcceptInvite(r, i)

Next ==
    \/ \E r \in Requests : Arrive(r) \/ Serve(r)
    \/ \E c \in Conns : DeleteConnection(c)
    \/ \E u \in Users : SignUp(u)
    \/ \E i \in InviteIds : WeekPasses(i)
    \/ DayPasses \/ Restart

Spec == Init /\ [][Next]_vars

\* The server finishes what it started; an invited person who signed up keeps
\* following the link, and so learns when it is too old.
Fairness ==
    \A r \in Requests :
         /\ WF_vars(Serve(r))
         /\ \A i \in InviteIds : SF_vars(AcceptInvite(r, i)) /\ SF_vars(FindExpired(r, i))

------------------------------------------------------------------------------
(* Properties *)

\* The types of the tables, the requests and the histories.
TypeOK ==
    /\ joined \subseteq Users
    /\ conn \in [Conns -> Connection]
    /\ invite \in [InviteIds -> Invite]
    /\ req \in [Requests -> Request]
    /\ offered \subseteq Users \X Users /\ taken \subseteq Users \X Users
    /\ met \subseteq SUBSET Users
    /\ restarts \in 0..MaxRestarts

\* A connection in force was asked for by its sender and agreed to by its
\* receiver, whether by accepting the request or an invitation, and however
\* deletions and new requests came between reading the row and writing it.
BothSidesAgreed ==
    \A c \in Conns : conn[c].status = "accepted" =>
        <<conn[c].sender, conn[c].receiver>> \in offered \cap taken

\* An invitation is accepted only once a row connects the two users: a crash
\* between the two writes leaves the link usable, not spent for nothing.
AcceptedInviteHasConnected ==
    \A i \in InviteIds :
        invite[i].status = "accepted" => {invite[i].from, invite[i].to} \in met

\* The daily limit is exceeded by no more than the requests that had counted
\* before each other's row was created.
DailyLimitBounded ==
    \A a \in Users :
        Cardinality(RecentInvites(a)) <= DailyLimit + Cardinality(Requests) - 1

\* The link of someone who signed up is not pending for ever: following it
\* again after a crash meets the row already created and completes.
InviteResolves ==
    \A i \in InviteIds :
        invite[i].status = "pending" /\ invite[i].to \in joined
            ~> invite[i].status # "pending"

\* Who accepts an invitation is connected (invites.service.ts:222).
AcceptingConnects ==
    [][\A r \in Requests : MarkAccepted(r) =>
         \E c \in Existing(req[r].from, req[r].to) : conn[c].status = "accepted"]_vars
==============================================================================
