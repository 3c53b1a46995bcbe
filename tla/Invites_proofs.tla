---------------------------- MODULE Invites_proofs ----------------------------
(* Theorems about Invites, for every number of users, rows, invitations and *)
(* concurrent requests.                                                     *)
EXTENDS Invites, FiniteSetTheorems, TLAPS

\* Steps of a request that was sent by its user to another, ...
OfferSteps == {"connect", "lookup", "findExisting", "findInvite", "replace", "createInvite"}
\* ... that accepts an invitation, and that holds the id of one.
AcceptSteps == {"findConnection", "connectAccepted", "mark"}
InviteSteps == {"replace", "expire", "revoke"} \cup AcceptSteps

\* What a request names exists; rows of invitations are never removed.
NamesRows ==
    \A r \in Requests :
        /\ req[r].pc = "approve" => req[r].conn \in Conns
        /\ req[r].pc \in InviteSteps =>
             /\ req[r].invite \in InviteIds
             /\ invite[req[r].invite].status # "unborn"

\* Nobody asks to be connected with themselves.
OfferedToOthers == \A a, b \in Users : <<a, b>> \in offered => a # b

\* Requests, invitations and rows between two users come from an offer.
RequestsOffered ==
    \A r \in Requests : req[r].pc \in OfferSteps => <<req[r].from, req[r].to>> \in offered
InvitesOffered ==
    \A i \in InviteIds :
        invite[i].status # "unborn" => <<invite[i].from, invite[i].to>> \in offered
RowsOffered ==
    \A c \in Conns : Live(c) => <<conn[c].sender, conn[c].receiver>> \in offered

\* A request that accepts an invitation acts for the two users of it, whatever
\* became of its status.
AcceptsAgreed ==
    \A r \in Requests : req[r].pc \in AcceptSteps =>
        /\ req[r].from = invite[req[r].invite].from
        /\ req[r].to = invite[req[r].invite].to
        /\ <<req[r].from, req[r].to>> \in taken

\* The row a request is about to approve is the one its receiver agreed to: ids
\* are not used again while a request holds them.
ApprovesAgreed ==
    \A r \in Requests : req[r].pc = "approve" /\ Live(req[r].conn) =>
        <<conn[req[r].conn].sender, conn[req[r].conn].receiver>> \in taken

\* A row, and a request about to mark an invitation, connects two who have met.
RowsMet == \A c \in Conns : Live(c) => {conn[c].sender, conn[c].receiver} \in met
MarksMet == \A r \in Requests : req[r].pc = "mark" => {req[r].from, req[r].to} \in met

Offering == OfferedToOthers /\ RequestsOffered /\ InvitesOffered /\ RowsOffered
Agreeing == AcceptsAgreed /\ ApprovesAgreed /\ BothSidesAgreed
Meeting  == RowsMet /\ MarksMet /\ AcceptedInviteHasConnected

IInv == TypeOK /\ NamesRows /\ Offering /\ Agreeing /\ Meeting

------------------------------------------------------------------------------

LEMMA NullsTyped == Idle \in Request /\ NoRow \in Connection /\ Unborn \in Invite
  BY DEF Idle, Request, Steps, NoRow, Connection, Unborn, Invite

\* The three ways a step moves a request.
LEMMA BeginTyped ==
    ASSUME TypeOK, NEW r \in Requests, NEW s \in Steps,
           NEW a \in Users \cup {NoUser}, NEW b \in Users \cup {NoUser},
           NEW c \in Conns \cup {NoConn}, NEW i \in InviteIds \cup {NoInvite},
           Begin(r, s, a, b, c, i)
    PROVE  req' \in [Requests -> Request]
  BY DEF TypeOK, Begin, Request

LEMMA GotoTyped ==
    ASSUME TypeOK, NEW r \in Requests, NEW s \in Steps, Goto(r, s)
    PROVE  req' \in [Requests -> Request]
  BY DEF TypeOK, Goto, Request

LEMMA EndTyped ==
    ASSUME TypeOK, NEW r \in Requests, End(r)
    PROVE  req' \in [Requests -> Request]
  BY NullsTyped DEF TypeOK, End

\* What they leave of the requests.
LEMMA GotoMoves ==
    ASSUME TypeOK, NEW r \in Requests, NEW s \in Steps, Goto(r, s)
    PROVE  /\ req'[r].pc = s
           /\ req'[r].from = req[r].from /\ req'[r].to = req[r].to
           /\ req'[r].conn = req[r].conn /\ req'[r].invite = req[r].invite
           /\ \A q \in Requests \ {r} : req'[q] = req[q]
  BY DEF TypeOK, Goto, Request

LEMMA EndMoves ==
    ASSUME TypeOK, NEW r \in Requests, End(r)
    PROVE  req'[r].pc = "idle" /\ \A q \in Requests \ {r} : req'[q] = req[q]
  BY DEF TypeOK, End, Idle

LEMMA InsertTyped ==
    ASSUME TypeOK, NEW a \in Users, NEW b \in Users,
           NEW s \in {"pending", "accepted"}, Insert(a, b, s)
    PROVE  conn' \in [Conns -> Connection] /\ met' \subseteq SUBSET Users
  BY DEF TypeOK, Insert, Connection

LEMMA InsertRows ==
    ASSUME conn \in [Conns -> Connection], NEW a, NEW b, NEW s, Insert(a, b, s)
    PROVE  \A c \in Conns : \/ conn'[c] = conn[c]
                            \/ conn'[c].sender = a /\ conn'[c].receiver = b
<1>1. PICK d \in Conns :
         conn' = [conn EXCEPT ![d] = [status |-> s, sender |-> a, receiver |-> b]]
  BY DEF Insert
<1>2. ASSUME NEW c \in Conns, c # d PROVE conn'[c] = conn[c]
  BY <1>1, <1>2
<1>3. conn'[d] = [status |-> s, sender |-> a, receiver |-> b]
  BY <1>1
<1>4. conn'[d].sender = a /\ conn'[d].receiver = b
  BY <1>3
<1>5. QED
  BY <1>2, <1>4

\* The columns of an invitation that are ever updated.
LEMMA UpdatedTyped ==
    ASSUME NEW v \in Invite, NEW s \in {"accepted", "expired", "revoked"}
    PROVE  /\ [v EXCEPT !.status = s] \in Invite
           /\ [v EXCEPT !.due = TRUE] \in Invite
           /\ [v EXCEPT !.recent = FALSE] \in Invite
<1>1. [v EXCEPT !.status = s] \in Invite
  BY SMT DEF Invite
<1>2. [v EXCEPT !.due = TRUE] \in Invite
  BY Zenon DEF Invite
<1>3. [v EXCEPT !.recent = FALSE] \in Invite
  BY Zenon DEF Invite
<1>4. QED
  BY <1>1, <1>2, <1>3

\* updateStatus of an invitation that exists.
LEMMA SetStatusTyped ==
    ASSUME TypeOK, NEW r \in Requests, NEW s \in {"accepted", "expired", "revoked"},
           SetStatus(r, s)
    PROVE  invite' \in [InviteIds -> Invite]
  BY UpdatedTyped DEF TypeOK, SetStatus

\* Requests that offer, and requests that accept, are between two users.
LEMMA BetweenUsers ==
    ASSUME IInv, NEW r \in Requests, req[r].pc \in OfferSteps \cup AcceptSteps
    PROVE  req[r].from \in Users /\ req[r].to \in Users
<1>1. CASE req[r].pc \in OfferSteps
  BY <1>1 DEF IInv, Offering, TypeOK, RequestsOffered
<1>2. CASE req[r].pc \in AcceptSteps
  BY <1>2 DEF IInv, Agreeing, TypeOK, AcceptsAgreed
<1>3. QED
  BY <1>1, <1>2

LEMMA InitInv == Init => IInv
<1> SUFFICES ASSUME Init PROVE IInv
  OBVIOUS
<1>1. TypeOK
  BY NullsTyped, InvitesAssumption DEF Init, TypeOK
<1>2. \A r \in Requests : req[r].pc = "idle"
  BY DEF Init, Idle
<1>3. NamesRows /\ RequestsOffered /\ AcceptsAgreed /\ ApprovesAgreed /\ MarksMet
  BY <1>2 DEF NamesRows, RequestsOffered, AcceptsAgreed, ApprovesAgreed, MarksMet,
              OfferSteps, AcceptSteps, InviteSteps
<1>4. RowsOffered /\ BothSidesAgreed /\ RowsMet
  BY DEF Init, NoRow, RowsOffered, BothSidesAgreed, RowsMet, Live
<1>5. OfferedToOthers /\ InvitesOffered /\ AcceptedInviteHasConnected
  BY DEF Init, Unborn, OfferedToOthers, InvitesOffered, AcceptedInviteHasConnected
<1>6. QED
  BY <1>1, <1>3, <1>4, <1>5 DEF IInv, Offering, Agreeing, Meeting

------------------------------------------------------------------------------
(* Types *)

LEMMA StepTyped == IInv /\ [Next]_vars => TypeOK'
<1> SUFFICES ASSUME IInv, [Next]_vars PROVE TypeOK'
  OBVIOUS
<1>t. TypeOK /\ NamesRows
  BY DEF IInv
<1> USE DEF Steps
<1>1. ASSUME NEW r \in Requests, Arrive(r) PROVE TypeOK'
  <2>1. ASSUME NEW a \in Users, NEW b \in Users, CreateConnection(r, a, b) PROVE TypeOK'
    <3>1. req' \in [Requests -> Request]
      BY <1>t, <2>1, BeginTyped DEF CreateConnection
    <3>2. QED
      BY <1>t, <2>1, <3>1 DEF CreateConnection, TypeOK
  <2>2. ASSUME NEW a \in Users, NEW b \in Users, SendInvite(r, a, b) PROVE TypeOK'
    <3>1. req' \in [Requests -> Request]
      BY <1>t, <2>2, BeginTyped DEF SendInvite
    <3>2. QED
      BY <1>t, <2>2, <3>1 DEF SendInvite, TypeOK
  <2>3. ASSUME NEW c \in Conns, NEW u \in Users, AcceptConnection(r, c, u) PROVE TypeOK'
    <3>1. req' \in [Requests -> Request]
      BY <1>t, <2>3, BeginTyped DEF AcceptConnection
    <3>2. conn[c].sender \in Users /\ conn[c].receiver \in Users
      BY <2>3 DEF AcceptConnection, IInv, Offering, TypeOK, RowsOffered, Live
    <3>3. taken' \subseteq Users \X Users
      BY <1>t, <2>3, <3>2 DEF AcceptConnection, TypeOK
    <3>4. QED
      BY <1>t, <2>3, <3>1, <3>3 DEF AcceptConnection, TypeOK
  <2>4. ASSUME NEW i \in InviteIds, FindExpired(r, i) PROVE TypeOK'
    <3>1. req' \in [Requests -> Request]
      BY <1>t, <2>4, BeginTyped DEF FindExpired
    <3>2. QED
      BY <1>t, <2>4, <3>1 DEF FindExpired, TypeOK, history
  <2>5. ASSUME NEW i \in InviteIds, RevokeInvite(r, i) PROVE TypeOK'
    <3>1. req' \in [Requests -> Request]
      BY <1>t, <2>5, BeginTyped DEF RevokeInvite
    <3>2. QED
      BY <1>t, <2>5, <3>1 DEF RevokeInvite, TypeOK, history
  <2>6. ASSUME NEW i \in InviteIds, AcceptInvite(r, i) PROVE TypeOK'
    <3>1. invite[i].from \in Users /\ invite[i].to \in Users
      BY <2>6 DEF AcceptInvite, IInv, Offering, TypeOK, InvitesOffered
    <3>2. req' \in [Requests -> Request]
      BY <1>t, <2>6, <3>1, BeginTyped DEF AcceptInvite
    <3>3. QED
      BY <1>t, <2>6, <3>1, <3>2 DEF AcceptInvite, TypeOK
  <2>7. QED
    BY <1>1, <2>1, <2>2, <2>3, <2>4, <2>5, <2>6 DEF Arrive
<1>2. ASSUME NEW r \in Requests, Serve(r) PROVE TypeOK'
  <2>1. CASE InsertPending(r)
    <3>1. req' \in [Requests -> Request]
      BY <1>t, <2>1, EndTyped DEF InsertPending
    <3>2. req[r].from \in Users /\ req[r].to \in Users
      BY <2>1, BetweenUsers DEF InsertPending, At, OfferSteps
    <3>3. conn' \in [Conns -> Connection] /\ met' \subseteq SUBSET Users
      BY <1>t, <2>1, <3>2, InsertTyped DEF InsertPending, TypeOK
    <3>4. QED
      BY <1>t, <2>1, <3>1, <3>3 DEF InsertPending, TypeOK
  <2>2. CASE Approve(r)
    <3>1. req' \in [Requests -> Request]
      BY <1>t, <2>2, EndTyped DEF Approve
    <3>2. conn' \in [Conns -> Connection]
      BY <1>t, <2>2 DEF Approve, TypeOK, NamesRows, At, Connection
    <3>3. QED
      BY <1>t, <2>2, <3>1, <3>2 DEF Approve, TypeOK, history
  <2>3. CASE LookupInvitee(r)
    <3>1. req' \in [Requests -> Request]
      BY <1>t, <2>3, GotoTyped DEF LookupInvitee
    <3>2. QED
      BY <1>t, <2>3, <3>1 DEF LookupInvitee, TypeOK, history
  <2>3a. CASE FindExistingConnection(r)
    <3>1. req' \in [Requests -> Request]
      BY <1>t, <2>3a, EndTyped, GotoTyped DEF FindExistingConnection
    <3>2. QED
      BY <1>t, <2>3a, <3>1 DEF FindExistingConnection, TypeOK, history
  <2>4. CASE FindPendingInvite(r)
    <3>1. req' \in [Requests -> Request]
      BY <1>t, <2>4, GotoTyped DEF FindPendingInvite, PendingInvites, TypeOK, Request
    <3>2. QED
      BY <1>t, <2>4, <3>1 DEF FindPendingInvite, TypeOK, history
  <2>5. CASE ReplaceInvite(r)
    <3>1. req' \in [Requests -> Request] /\ invite' \in [InviteIds -> Invite]
      BY <1>t, <2>5, GotoTyped, SetStatusTyped DEF ReplaceInvite
    <3>2. QED
      BY <1>t, <2>5, <3>1 DEF ReplaceInvite, TypeOK, history
  <2>6. CASE CreateInvite(r)
    <3>1. req' \in [Requests -> Request]
      BY <1>t, <2>6, EndTyped DEF CreateInvite
    <3>2. invite' \in [InviteIds -> Invite]
      BY <1>t, <2>6 DEF CreateInvite, TypeOK, Invite, Request
    <3>3. QED
      BY <1>t, <2>6, <3>1, <3>2 DEF CreateInvite, TypeOK, history
  <2>7. CASE ExpireInvite(r)
    <3>1. req' \in [Requests -> Request] /\ invite' \in [InviteIds -> Invite]
      BY <1>t, <2>7, EndTyped, SetStatusTyped DEF ExpireInvite
    <3>2. QED
      BY <1>t, <2>7, <3>1 DEF ExpireInvite, TypeOK, history
  <2>8. CASE StoreRevoked(r)
    <3>1. req' \in [Requests -> Request] /\ invite' \in [InviteIds -> Invite]
      BY <1>t, <2>8, EndTyped, SetStatusTyped DEF StoreRevoked
    <3>2. QED
      BY <1>t, <2>8, <3>1 DEF StoreRevoked, TypeOK, history
  <2>9. CASE FindConnection(r)
    <3>1. req' \in [Requests -> Request]
      BY <1>t, <2>9, GotoTyped DEF FindConnection
    <3>2. QED
      BY <1>t, <2>9, <3>1 DEF FindConnection, TypeOK, history
  <2>10. CASE InsertAccepted(r)
    <3>1. req' \in [Requests -> Request]
      BY <1>t, <2>10, EndTyped, GotoTyped DEF InsertAccepted
    <3>2. req[r].from \in Users /\ req[r].to \in Users
      BY <2>10, BetweenUsers DEF InsertAccepted, At, AcceptSteps
    <3>3. conn' \in [Conns -> Connection] /\ met' \subseteq SUBSET Users
      BY <1>t, <2>10, <3>2, InsertTyped DEF InsertAccepted, TypeOK
    <3>4. QED
      BY <1>t, <2>10, <3>1, <3>3 DEF InsertAccepted, TypeOK
  <2>11. CASE MarkAccepted(r)
    <3>1. req' \in [Requests -> Request] /\ invite' \in [InviteIds -> Invite]
      BY <1>t, <2>11, EndTyped, SetStatusTyped DEF MarkAccepted
    <3>2. QED
      BY <1>t, <2>11, <3>1 DEF MarkAccepted, TypeOK, history
  <2>12. QED
    BY <1>2, <2>1, <2>2, <2>3, <2>3a, <2>4, <2>5, <2>6, <2>7, <2>8, <2>9, <2>10, <2>11 DEF Serve
<1>3. ASSUME NEW c \in Conns, DeleteConnection(c) PROVE TypeOK'
  BY <1>t, <1>3, NullsTyped DEF DeleteConnection, TypeOK, history
<1>4. ASSUME NEW u \in Users, SignUp(u) PROVE TypeOK'
  BY <1>t, <1>4 DEF SignUp, TypeOK, history
<1>5. ASSUME NEW i \in InviteIds, WeekPasses(i) PROVE TypeOK'
  <2>1. invite' \in [InviteIds -> Invite]
    BY <1>t, <1>5, UpdatedTyped DEF WeekPasses, TypeOK
  <2>2. QED
    BY <1>t, <1>5, <2>1 DEF WeekPasses, TypeOK, history
<1>6. CASE DayPasses
  <2>1. invite' \in [InviteIds -> Invite]
    BY <1>t, <1>6, UpdatedTyped DEF DayPasses, TypeOK
  <2>2. QED
    BY <1>t, <1>6, <2>1 DEF DayPasses, TypeOK, history
<1>7. CASE Restart
  <2>1. restarts' \in 0..MaxRestarts
    BY <1>t, <1>7, InvitesAssumption DEF Restart, TypeOK
  <2>2. QED
    BY <1>t, <1>7, <2>1, NullsTyped DEF Restart, TypeOK
<1>8. CASE UNCHANGED vars
  BY <1>t, <1>8 DEF TypeOK, vars
<1>9. QED
  BY <1>1, <1>2, <1>3, <1>4, <1>5, <1>6, <1>7, <1>8 DEF Next

------------------------------------------------------------------------------
(* The ids that requests hold *)

\* Every id was read from a row, and rows of invitations stay.
LEMMA StepNames == IInv /\ [Next]_vars => NamesRows'
<1> SUFFICES ASSUME IInv, [Next]_vars PROVE NamesRows'
  OBVIOUS
<1>t. TypeOK /\ NamesRows
  BY DEF IInv, Offering, Agreeing, Meeting
<1> USE DEF TypeOK, NamesRows, InviteSteps, AcceptSteps, Request, Idle, PendingInvites,
            history
<1>1. ASSUME NEW r \in Requests, Arrive(r) PROVE NamesRows'
  <2>1. ASSUME NEW a \in Users, NEW b \in Users, CreateConnection(r, a, b) PROVE NamesRows'
    BY <1>t, <2>1 DEF CreateConnection, At, Begin
  <2>2. ASSUME NEW a \in Users, NEW b \in Users, SendInvite(r, a, b) PROVE NamesRows'
    BY <1>t, <2>2 DEF SendInvite, At, Begin
  <2>3. ASSUME NEW c \in Conns, NEW u \in Users, AcceptConnection(r, c, u) PROVE NamesRows'
    BY <1>t, <2>3 DEF AcceptConnection, At, Begin
  <2>4. ASSUME NEW i \in InviteIds, FindExpired(r, i) PROVE NamesRows'
    BY <1>t, <2>4 DEF FindExpired, At, Begin
  <2>5. ASSUME NEW i \in InviteIds, RevokeInvite(r, i) PROVE NamesRows'
    BY <1>t, <2>5 DEF RevokeInvite, At, Begin
  <2>6. ASSUME NEW i \in InviteIds, AcceptInvite(r, i) PROVE NamesRows'
    BY <1>t, <2>6 DEF AcceptInvite, At, Begin
  <2>7. QED
    BY <1>1, <2>1, <2>2, <2>3, <2>4, <2>5, <2>6 DEF Arrive
<1>2. ASSUME NEW r \in Requests, Serve(r) PROVE NamesRows'
  <2>1. CASE InsertPending(r)
    BY <1>t, <2>1 DEF InsertPending, At, End, Insert
  <2>2. CASE Approve(r)
    BY <1>t, <2>2 DEF Approve, At, End
  <2>3. CASE LookupInvitee(r)
    BY <1>t, <2>3 DEF LookupInvitee, At, Goto
  <2>3a. CASE FindExistingConnection(r)
    BY <1>t, <2>3a DEF FindExistingConnection, At, Goto, End
  <2>4. CASE FindPendingInvite(r)
    BY <1>t, <2>4 DEF FindPendingInvite, At, Goto
  <2>5. CASE ReplaceInvite(r)
    BY <1>t, <2>5 DEF ReplaceInvite, At, Goto, SetStatus
  <2>6. CASE CreateInvite(r)
    BY <1>t, <2>6 DEF CreateInvite, At, End
  <2>7. CASE ExpireInvite(r)
    BY <1>t, <2>7 DEF ExpireInvite, At, End, SetStatus
  <2>8. CASE StoreRevoked(r)
    BY <1>t, <2>8 DEF StoreRevoked, At, End, SetStatus
  <2>9. CASE FindConnection(r)
    BY <1>t, <2>9 DEF FindConnection, At, Goto
  <2>10. CASE InsertAccepted(r)
    BY <1>t, <2>10 DEF InsertAccepted, At, End, Goto, Insert
  <2>11. CASE MarkAccepted(r)
    BY <1>t, <2>11 DEF MarkAccepted, At, End, SetStatus
  <2>12. QED
    BY <1>2, <2>1, <2>2, <2>3, <2>3a, <2>4, <2>5, <2>6, <2>7, <2>8, <2>9, <2>10, <2>11 DEF Serve
<1>3. ASSUME NEW c \in Conns, DeleteConnection(c) PROVE NamesRows'
  BY <1>t, <1>3 DEF DeleteConnection
<1>4. ASSUME NEW u \in Users, SignUp(u) PROVE NamesRows'
  BY <1>t, <1>4 DEF SignUp
<1>5. ASSUME NEW i \in InviteIds, WeekPasses(i) PROVE NamesRows'
  BY <1>t, <1>5 DEF WeekPasses
<1>6. CASE DayPasses
  BY <1>t, <1>6 DEF DayPasses
<1>7. CASE Restart
  BY <1>t, <1>7 DEF Restart
<1>8. CASE UNCHANGED vars
  BY <1>t, <1>8 DEF vars
<1>9. QED
  BY <1>1, <1>2, <1>3, <1>4, <1>5, <1>6, <1>7, <1>8 DEF Next

------------------------------------------------------------------------------
(* Offers *)

\* What a step offers is between two users; what it creates was offered.
LEMMA StepOffered == IInv /\ [Next]_vars => Offering'
<1> SUFFICES ASSUME IInv, [Next]_vars PROVE Offering'
  OBVIOUS
<1>t. TypeOK /\ NamesRows /\ Offering /\ AcceptsAgreed
  BY DEF IInv, Offering, Agreeing, Meeting
<1> USE DEF TypeOK, NamesRows, Offering, OfferedToOthers, RequestsOffered,
            InvitesOffered, RowsOffered, AcceptsAgreed, InviteSteps, AcceptSteps,
            OfferSteps, Request, Idle, Invite, Connection, Live, NoRow, history
<1>1. ASSUME NEW r \in Requests, Arrive(r) PROVE Offering'
  <2>1. ASSUME NEW a \in Users, NEW b \in Users, CreateConnection(r, a, b) PROVE Offering'
    BY <1>t, <2>1 DEF CreateConnection, At, Begin
  <2>2. ASSUME NEW a \in Users, NEW b \in Users, SendInvite(r, a, b) PROVE Offering'
    BY <1>t, <2>2 DEF SendInvite, At, Begin
  <2>3. ASSUME NEW c \in Conns, NEW u \in Users, AcceptConnection(r, c, u) PROVE Offering'
    BY <1>t, <2>3 DEF AcceptConnection, At, Begin
  <2>4. ASSUME NEW i \in InviteIds, FindExpired(r, i) PROVE Offering'
    BY <1>t, <2>4 DEF FindExpired, At, Begin
  <2>5. ASSUME NEW i \in InviteIds, RevokeInvite(r, i) PROVE Offering'
    BY <1>t, <2>5 DEF RevokeInvite, At, Begin
  <2>6. ASSUME NEW i \in InviteIds, AcceptInvite(r, i) PROVE Offering'
    BY <1>t, <2>6 DEF AcceptInvite, At, Begin
  <2>7. QED
    BY <1>1, <2>1, <2>2, <2>3, <2>4, <2>5, <2>6 DEF Arrive
<1>2. ASSUME NEW r \in Requests, Serve(r) PROVE Offering'
  <2>1. CASE InsertPending(r)
    BY <1>t, <2>1 DEF InsertPending, At, End, Insert
  <2>2. CASE Approve(r)
    BY <1>t, <2>2 DEF Approve, At, End
  <2>3. CASE LookupInvitee(r)
    BY <1>t, <2>3 DEF LookupInvitee, At, Goto
  <2>3a. CASE FindExistingConnection(r)
    BY <1>t, <2>3a DEF FindExistingConnection, At, Goto, End
  <2>4. CASE FindPendingInvite(r)
    <3>1. \/ req' = [req EXCEPT ![r].pc = "createInvite"]
          \/ \E i \in InviteIds : req' = [req EXCEPT ![r].pc = "replace", ![r].invite = i]
      BY <2>4 DEF FindPendingInvite, PendingInvites, Goto
    <3>2. /\ req[r].pc = "findInvite"
          /\ UNCHANGED <<joined, conn, invite, offered, taken, met>>
      BY <2>4 DEF FindPendingInvite, At
    <3>3. OfferedToOthers' /\ InvitesOffered' /\ RowsOffered'
      BY <1>t, <3>2
    <3>4. RequestsOffered'
      <4>1. /\ req'[r].from = req[r].from /\ req'[r].to = req[r].to
            /\ \A q \in Requests \ {r} : req'[q] = req[q]
        BY <1>t, <3>1
      <4>2. <<req[r].from, req[r].to>> \in offered
        BY <1>t, <3>2
      <4>3. QED
        BY <1>t, <3>2, <4>1, <4>2
    <3>5. QED
      BY <3>3, <3>4
  <2>5. CASE ReplaceInvite(r)
    BY <1>t, <2>5 DEF ReplaceInvite, At, Goto, SetStatus
  <2>6. CASE CreateInvite(r)
    BY <1>t, <2>6 DEF CreateInvite, At, End
  <2>7. CASE ExpireInvite(r)
    BY <1>t, <2>7 DEF ExpireInvite, At, End, SetStatus
  <2>8. CASE StoreRevoked(r)
    BY <1>t, <2>8 DEF StoreRevoked, At, End, SetStatus
  <2>9. CASE FindConnection(r)
    BY <1>t, <2>9 DEF FindConnection, At, Goto
  <2>10. CASE InsertAccepted(r)
    <3>1. <<req[r].from, req[r].to>> \in offered
      BY <1>t, <2>10 DEF InsertAccepted, At
    <3>2. \/ End(r) /\ UNCHANGED conn
          \/ Goto(r, "mark") /\ Insert(req[r].from, req[r].to, "accepted")
      BY <2>10 DEF InsertAccepted
    <3>3. UNCHANGED <<invite, offered, taken>>
      BY <2>10 DEF InsertAccepted
    <3>4. \A c \in Conns : \/ conn'[c] = conn[c]
                           \/ conn'[c].sender = req[r].from /\ conn'[c].receiver = req[r].to
      BY <1>t, <3>2, InsertRows
    <3>5. RowsOffered'
      BY <1>t, <3>1, <3>3, <3>4
    <3>6. req'[r].pc \in {"idle", "mark"} /\ \A q \in Requests \ {r} : req'[q] = req[q]
      BY <1>t, <3>2, GotoMoves, EndMoves DEF Steps
    <3>7. RequestsOffered'
      BY <1>t, <3>3, <3>6
    <3>8. OfferedToOthers' /\ InvitesOffered'
      BY <1>t, <3>3
    <3>9. QED
      BY <3>5, <3>7, <3>8
  <2>11. CASE MarkAccepted(r)
    BY <1>t, <2>11 DEF MarkAccepted, At, End, SetStatus
  <2>12. QED
    BY <1>2, <2>1, <2>2, <2>3, <2>3a, <2>4, <2>5, <2>6, <2>7, <2>8, <2>9, <2>10, <2>11 DEF Serve
<1>3. ASSUME NEW c \in Conns, DeleteConnection(c) PROVE Offering'
  BY <1>t, <1>3 DEF DeleteConnection
<1>4. ASSUME NEW u \in Users, SignUp(u) PROVE Offering'
  BY <1>t, <1>4 DEF SignUp
<1>5. ASSUME NEW i \in InviteIds, WeekPasses(i) PROVE Offering'
  BY <1>t, <1>5 DEF WeekPasses
<1>6. CASE DayPasses
  <2>1. \A i \in InviteIds : /\ invite'[i].status = invite[i].status
                              /\ invite'[i].from = invite[i].from
                              /\ invite'[i].to = invite[i].to
    BY <1>t, <1>6 DEF DayPasses
  <2>2. InvitesOffered'
    BY <1>t, <1>6, <2>1 DEF DayPasses
  <2>3. OfferedToOthers' /\ RequestsOffered' /\ RowsOffered'
    BY <1>t, <1>6 DEF DayPasses
  <2>4. QED
    BY <2>2, <2>3
<1>7. CASE Restart
  BY <1>t, <1>7 DEF Restart
<1>8. CASE UNCHANGED vars
  BY <1>t, <1>8 DEF vars
<1>9. QED
  BY <1>1, <1>2, <1>3, <1>4, <1>5, <1>6, <1>7, <1>8 DEF Next

------------------------------------------------------------------------------
(* Agreement *)

\* Who is about to be connected has agreed; agreement is not withdrawn.
LEMMA StepAgreed == IInv /\ [Next]_vars => Agreeing'
<1> SUFFICES ASSUME IInv, [Next]_vars PROVE Agreeing'
  OBVIOUS
<1>t. TypeOK /\ NamesRows /\ OfferedToOthers /\ InvitesOffered /\ RowsOffered /\ Agreeing
  BY DEF IInv, Offering, Agreeing, Meeting
<1> USE DEF TypeOK, NamesRows, Agreeing, OfferedToOthers, InvitesOffered, RowsOffered,
            AcceptsAgreed, ApprovesAgreed, BothSidesAgreed, InviteSteps, AcceptSteps,
            Request, Idle, Invite, Connection, Live, NoRow, MayAccept, PendingInvites,
            history
<1>1. ASSUME NEW r \in Requests, Arrive(r) PROVE Agreeing'
  <2>1. ASSUME NEW a \in Users, NEW b \in Users, CreateConnection(r, a, b) PROVE Agreeing'
    BY <1>t, <2>1 DEF CreateConnection, At, Begin
  <2>2. ASSUME NEW a \in Users, NEW b \in Users, SendInvite(r, a, b) PROVE Agreeing'
    BY <1>t, <2>2 DEF SendInvite, At, Begin
  <2>3. ASSUME NEW c \in Conns, NEW u \in Users, AcceptConnection(r, c, u) PROVE Agreeing'
    <3>1. /\ conn[c].receiver = u /\ c \in Conns
          /\ <<conn[c].sender, conn[c].receiver>> \in taken'
      BY <1>t, <2>3 DEF AcceptConnection
    <3>2. taken \subseteq taken' /\ UNCHANGED <<conn, invite, offered>>
      BY <2>3 DEF AcceptConnection
    <3>3. /\ req'[r].pc = "approve" /\ req'[r].conn = c
          /\ \A q \in Requests \ {r} : req'[q] = req[q]
      BY <1>t, <2>3 DEF AcceptConnection, Begin
    <3>4. AcceptsAgreed'
      BY <1>t, <3>2, <3>3
    <3>5. ApprovesAgreed'
      BY <1>t, <3>1, <3>2, <3>3
    <3>6. BothSidesAgreed'
      BY <1>t, <3>2
    <3>7. QED
      BY <3>4, <3>5, <3>6
  <2>4. ASSUME NEW i \in InviteIds, FindExpired(r, i) PROVE Agreeing'
    BY <1>t, <2>4 DEF FindExpired, At, Begin
  <2>5. ASSUME NEW i \in InviteIds, RevokeInvite(r, i) PROVE Agreeing'
    BY <1>t, <2>5 DEF RevokeInvite, At, Begin
  <2>6. ASSUME NEW i \in InviteIds, AcceptInvite(r, i) PROVE Agreeing'
    BY <1>t, <2>6 DEF AcceptInvite, At, Begin
  <2>7. QED
    BY <1>1, <2>1, <2>2, <2>3, <2>4, <2>5, <2>6 DEF Arrive
<1>2. ASSUME NEW r \in Requests, Serve(r) PROVE Agreeing'
  <2>1. CASE InsertPending(r)
    BY <1>t, <2>1 DEF InsertPending, At, End, Insert
  <2>2. CASE Approve(r)
    BY <1>t, <2>2 DEF Approve, At, End
  <2>3. CASE LookupInvitee(r) \/ FindExistingConnection(r)
    <3>1. End(r) \/ \E s \in {"findExisting", "findInvite", "connect"} : Goto(r, s)
      BY <2>3 DEF LookupInvitee, FindExistingConnection
    <3>2. UNCHANGED <<conn, invite, taken, offered>>
      BY <2>3 DEF LookupInvitee, FindExistingConnection
    <3>3. req'[r].pc \in {"idle", "findExisting", "findInvite", "connect"}
      BY <1>t, <3>1, GotoMoves, EndMoves DEF Steps
    <3>4. \A q \in Requests \ {r} : req'[q] = req[q]
      BY <1>t, <3>1, GotoMoves, EndMoves DEF Steps
    <3>5. AcceptsAgreed'
      BY <1>t, <3>2, <3>3, <3>4
    <3>6. ApprovesAgreed'
      BY <1>t, <3>2, <3>3, <3>4
    <3>7. BothSidesAgreed'
      BY <1>t, <3>2
    <3>8. QED
      BY <3>5, <3>6, <3>7
  <2>4. CASE FindPendingInvite(r)
    <3>1. AcceptsAgreed'
      BY <1>t, <2>4 DEF FindPendingInvite, At, Goto
    <3>2. req'[r].pc # "approve" /\ \A q \in Requests \ {r} : req'[q] = req[q]
      BY <1>t, <2>4, GotoMoves DEF FindPendingInvite, Steps
    <3>3. ApprovesAgreed'
      BY <1>t, <2>4, <3>2 DEF FindPendingInvite
    <3>4. BothSidesAgreed'
      BY <1>t, <2>4 DEF FindPendingInvite
    <3>5. QED
      BY <3>1, <3>3, <3>4
  <2>5. CASE ReplaceInvite(r)
    BY <1>t, <2>5 DEF ReplaceInvite, At, Goto, SetStatus
  <2>6. CASE CreateInvite(r)
    BY <1>t, <2>6 DEF CreateInvite, At, End
  <2>7. CASE ExpireInvite(r)
    BY <1>t, <2>7 DEF ExpireInvite, At, End, SetStatus
  <2>8. CASE StoreRevoked(r)
    BY <1>t, <2>8 DEF StoreRevoked, At, End, SetStatus
  <2>9. CASE FindConnection(r)
    BY <1>t, <2>9 DEF FindConnection, At, Goto
  <2>10. CASE InsertAccepted(r)
    <3>1. <<req[r].from, req[r].to>> \in offered \cap taken
      BY <1>t, <2>10 DEF InsertAccepted, At
    <3>2. \/ End(r) /\ UNCHANGED conn
          \/ Goto(r, "mark") /\ Insert(req[r].from, req[r].to, "accepted")
      BY <2>10 DEF InsertAccepted
    <3>3. At(r, "connectAccepted") /\ UNCHANGED <<invite, offered, taken>>
      BY <2>10 DEF InsertAccepted
    <3>4. /\ req'[r].pc \in {"idle", "mark"}
          /\ req'[r].pc = "mark" =>
               req'[r].from = req[r].from /\ req'[r].to = req[r].to /\ req'[r].invite = req[r].invite
      BY <1>t, <3>2, GotoMoves, EndMoves DEF Steps
    <3>5. \A q \in Requests \ {r} : req'[q] = req[q]
      BY <1>t, <3>2, GotoMoves, EndMoves DEF Steps
    <3>6. AcceptsAgreed'
      BY <1>t, <3>1, <3>3, <3>4, <3>5 DEF At
    <3>7. req'[r].pc # "approve" /\ \A q \in Requests : req'[q].pc = "approve" => req'[q] = req[q]
      BY <3>4, <3>5
    <3>8. ApprovesAgreed'
      BY <1>t, <3>2, <3>3, <3>7 DEF Insert
    <3>9. \A c \in Conns : \/ conn'[c] = conn[c]
                           \/ conn'[c].sender = req[r].from /\ conn'[c].receiver = req[r].to
      BY <1>t, <3>2, InsertRows
    <3>10. BothSidesAgreed'
      BY <1>t, <3>1, <3>3, <3>9
    <3>11. QED
      BY <3>6, <3>8, <3>10
  <2>11. CASE MarkAccepted(r)
    BY <1>t, <2>11 DEF MarkAccepted, At, End, SetStatus
  <2>12. QED
    BY <1>2, <2>1, <2>2, <2>3, <2>4, <2>5, <2>6, <2>7, <2>8, <2>9, <2>10, <2>11 DEF Serve
<1>3. ASSUME NEW c \in Conns, DeleteConnection(c) PROVE Agreeing'
  BY <1>t, <1>3 DEF DeleteConnection
<1>4. ASSUME NEW u \in Users, SignUp(u) PROVE Agreeing'
  BY <1>t, <1>4 DEF SignUp
<1>5. ASSUME NEW i \in InviteIds, WeekPasses(i) PROVE Agreeing'
  BY <1>t, <1>5 DEF WeekPasses
<1>6. CASE DayPasses
  BY <1>t, <1>6 DEF DayPasses
<1>7. CASE Restart
  BY <1>t, <1>7 DEF Restart
<1>8. CASE UNCHANGED vars
  BY <1>t, <1>8 DEF vars
<1>9. QED
  BY <1>1, <1>2, <1>3, <1>4, <1>5, <1>6, <1>7, <1>8 DEF Next

------------------------------------------------------------------------------
(* Having met *)

\* The mark on an invitation follows the row it stands for.
LEMMA StepMet == IInv /\ [Next]_vars => Meeting'
<1> SUFFICES ASSUME IInv, [Next]_vars PROVE Meeting'
  OBVIOUS
<1>t. TypeOK /\ NamesRows /\ AcceptsAgreed /\ Meeting
  BY DEF IInv, Offering, Agreeing, Meeting
<1> USE DEF TypeOK, NamesRows, Meeting, AcceptsAgreed, RowsMet, MarksMet,
            AcceptedInviteHasConnected, InviteSteps, AcceptSteps, Request, Idle,
            Invite, Connection, Live, NoRow, Existing, history
<1>1. ASSUME NEW r \in Requests, Arrive(r) PROVE Meeting'
  <2>1. ASSUME NEW a \in Users, NEW b \in Users, CreateConnection(r, a, b) PROVE Meeting'
    BY <1>t, <2>1 DEF CreateConnection, At, Begin
  <2>2. ASSUME NEW a \in Users, NEW b \in Users, SendInvite(r, a, b) PROVE Meeting'
    BY <1>t, <2>2 DEF SendInvite, At, Begin
  <2>3. ASSUME NEW c \in Conns, NEW u \in Users, AcceptConnection(r, c, u) PROVE Meeting'
    BY <1>t, <2>3 DEF AcceptConnection, At, Begin
  <2>4. ASSUME NEW i \in InviteIds, FindExpired(r, i) PROVE Meeting'
    BY <1>t, <2>4 DEF FindExpired, At, Begin
  <2>5. ASSUME NEW i \in InviteIds, RevokeInvite(r, i) PROVE Meeting'
    BY <1>t, <2>5 DEF RevokeInvite, At, Begin
  <2>6. ASSUME NEW i \in InviteIds, AcceptInvite(r, i) PROVE Meeting'
    BY <1>t, <2>6 DEF AcceptInvite, At, Begin
  <2>7. QED
    BY <1>1, <2>1, <2>2, <2>3, <2>4, <2>5, <2>6 DEF Arrive
<1>2. ASSUME NEW r \in Requests, Serve(r) PROVE Meeting'
  <2>1. CASE InsertPending(r)
    <3>1. RowsMet'
      BY <1>t, <2>1 DEF InsertPending, Insert
    <3>2. met \subseteq met'
      BY <2>1 DEF InsertPending, Insert
    <3>3. MarksMet' /\ AcceptedInviteHasConnected'
      BY <1>t, <2>1, <3>2 DEF InsertPending, At, End
    <3>4. QED
      BY <3>1, <3>3
  <2>2. CASE Approve(r)
    <3>1. RowsMet'
      BY <1>t, <2>2 DEF Approve, At
    <3>2. MarksMet' /\ AcceptedInviteHasConnected'
      BY <1>t, <2>2 DEF Approve, At, End
    <3>3. QED
      BY <3>1, <3>2
  <2>3. CASE LookupInvitee(r)
    BY <1>t, <2>3 DEF LookupInvitee, At, Goto
  <2>3a. CASE FindExistingConnection(r)
    <3>1. UNCHANGED <<conn, invite, met>> /\ (Goto(r, "connect") \/ End(r))
      BY <2>3a DEF FindExistingConnection
    <3>2. CASE Goto(r, "connect")
      BY <1>t, <3>1, <3>2 DEF Goto
    <3>3. CASE End(r)
      BY <1>t, <3>1, <3>3 DEF End
    <3>4. QED
      BY <3>1, <3>2, <3>3
  <2>4. CASE FindPendingInvite(r)
    BY <1>t, <2>4 DEF FindPendingInvite, At, Goto
  <2>5. CASE ReplaceInvite(r)
    <3>1. RowsMet'
      BY <1>t, <2>5 DEF ReplaceInvite
    <3>2. MarksMet'
      BY <1>t, <2>5 DEF ReplaceInvite, Goto
    <3>3. AcceptedInviteHasConnected'
      BY <1>t, <2>5 DEF ReplaceInvite, SetStatus
    <3>4. QED
      BY <3>1, <3>2, <3>3
  <2>6. CASE CreateInvite(r)
    <3>1. RowsMet'
      BY <1>t, <2>6 DEF CreateInvite
    <3>2. MarksMet'
      BY <1>t, <2>6 DEF CreateInvite, End
    <3>3. AcceptedInviteHasConnected'
      BY <1>t, <2>6 DEF CreateInvite
    <3>4. QED
      BY <3>1, <3>2, <3>3
  <2>7. CASE ExpireInvite(r)
    <3>1. RowsMet'
      BY <1>t, <2>7 DEF ExpireInvite
    <3>2. MarksMet'
      BY <1>t, <2>7, EndMoves DEF ExpireInvite
    <3>3. AcceptedInviteHasConnected'
      BY <1>t, <2>7 DEF ExpireInvite, SetStatus
    <3>4. QED
      BY <3>1, <3>2, <3>3
  <2>8. CASE StoreRevoked(r)
    <3>1. RowsMet'
      BY <1>t, <2>8 DEF StoreRevoked
    <3>2. MarksMet'
      BY <1>t, <2>8, EndMoves DEF StoreRevoked
    <3>3. AcceptedInviteHasConnected'
      BY <1>t, <2>8 DEF StoreRevoked, SetStatus
    <3>4. QED
      BY <3>1, <3>2, <3>3
  <2>9. CASE FindConnection(r)
    <3>1. Existing(req[r].from, req[r].to) # {} => {req[r].from, req[r].to} \in met
      BY <1>t DEF Existing
    <3>2. /\ req'[r].pc = "mark" => {req[r].from, req[r].to} \in met
          /\ req'[r].from = req[r].from /\ req'[r].to = req[r].to
          /\ \A q \in Requests \ {r} : req'[q] = req[q]
      BY <1>t, <2>9, <3>1, GotoMoves DEF FindConnection, Steps
    <3>3. MarksMet'
      BY <1>t, <2>9, <3>2 DEF FindConnection
    <3>4. RowsMet' /\ AcceptedInviteHasConnected'
      BY <1>t, <2>9 DEF FindConnection
    <3>5. QED
      BY <3>3, <3>4
  <2>10. CASE InsertAccepted(r)
    <3>1. met \subseteq met'
      BY <2>10 DEF InsertAccepted, Insert
    <3>2. req'[r].pc = "mark" => {req'[r].from, req'[r].to} \in met'
      BY <1>t, <2>10, GotoMoves, EndMoves DEF InsertAccepted, Insert, Steps
    <3>3. RowsMet'
      BY <1>t, <2>10 DEF InsertAccepted, Insert
    <3>4. \A q \in Requests \ {r} : req'[q] = req[q]
      BY <1>t, <2>10, GotoMoves, EndMoves DEF InsertAccepted, Steps
    <3>5. MarksMet'
      BY <1>t, <3>1, <3>2, <3>4
    <3>6. AcceptedInviteHasConnected'
      BY <1>t, <2>10, <3>1 DEF InsertAccepted
    <3>7. QED
      BY <3>3, <3>5, <3>6
  <2>11. CASE MarkAccepted(r)
    <3>1. RowsMet'
      BY <1>t, <2>11 DEF MarkAccepted
    <3>2. MarksMet'
      BY <1>t, <2>11, EndMoves DEF MarkAccepted
    <3>3. {invite[req[r].invite].from, invite[req[r].invite].to} \in met
      BY <1>t, <2>11 DEF MarkAccepted, At
    <3>4. /\ UNCHANGED met
          /\ \A i \in InviteIds : invite'[i].from = invite[i].from /\ invite'[i].to = invite[i].to
      BY <1>t, <2>11 DEF MarkAccepted, SetStatus
    <3>5. \A i \in InviteIds \ {req[r].invite} : invite'[i] = invite[i]
      BY <1>t, <2>11 DEF MarkAccepted, SetStatus
    <3>6. ASSUME NEW i \in InviteIds, invite'[i].status = "accepted"
          PROVE  {invite'[i].from, invite'[i].to} \in met'
      BY <1>t, <3>3, <3>4, <3>5, <3>6
    <3>7. AcceptedInviteHasConnected'
      BY <3>6
    <3>8. QED
      BY <3>1, <3>2, <3>7
  <2>12. QED
    BY <1>2, <2>1, <2>2, <2>3, <2>3a, <2>4, <2>5, <2>6, <2>7, <2>8, <2>9, <2>10, <2>11 DEF Serve
<1>3. ASSUME NEW c \in Conns, DeleteConnection(c) PROVE Meeting'
  BY <1>t, <1>3 DEF DeleteConnection
<1>4. ASSUME NEW u \in Users, SignUp(u) PROVE Meeting'
  BY <1>t, <1>4 DEF SignUp
<1>5. ASSUME NEW i \in InviteIds, WeekPasses(i) PROVE Meeting'
  BY <1>t, <1>5 DEF WeekPasses
<1>6. CASE DayPasses
  BY <1>t, <1>6 DEF DayPasses
<1>7. CASE Restart
  BY <1>t, <1>7 DEF Restart
<1>8. CASE UNCHANGED vars
  BY <1>t, <1>8 DEF vars
<1>9. QED
  BY <1>1, <1>2, <1>3, <1>4, <1>5, <1>6, <1>7, <1>8 DEF Next

------------------------------------------------------------------------------
(* Theorems *)

THEOREM Invariance == Spec => []IInv
<1>1. IInv /\ [Next]_vars => IInv'
  BY StepTyped, StepNames, StepOffered, StepAgreed, StepMet DEF IInv
<1>2. QED
  BY <1>1, InitInv, PTL DEF Spec

\* The tables and the requests keep their types.
THEOREM InvitesTyped == Spec => []TypeOK
<1>1. IInv => TypeOK
  BY DEF IInv
<1>2. QED
  BY <1>1, Invariance, PTL

\* A connection in force was offered by its sender and agreed to by its
\* receiver.
THEOREM AgreementTheorem == Spec => []BothSidesAgreed
<1>1. IInv => BothSidesAgreed
  BY DEF IInv, Agreeing
<1>2. QED
  BY <1>1, Invariance, PTL

\* An accepted invitation has connected the two users of it.
THEOREM AcceptanceTheorem == Spec => []AcceptedInviteHasConnected
<1>1. IInv => AcceptedInviteHasConnected
  BY DEF IInv, Meeting
<1>2. QED
  BY <1>1, Invariance, PTL

-----------------------------------------------------------------------------
(* The daily limit of invitations: a user exceeds it by at most the requests *)
(* that had counted before another one created its row.                      *)

N == Cardinality(Requests)

\* The requests of a user that have counted the invitations and not created one.
SendSteps == {"lookup", "findInvite", "replace", "createInvite"}
Senders(a) == {r \in Requests : req[r].pc \in SendSteps /\ req[r].from = a}

\* What is created and what is about to be share the limit, but for the
\* requests that had counted before.
Limited ==
    \A a \in Users :
        Cardinality(RecentInvites(a)) + Cardinality(Senders(a)) <= DailyLimit + N - 1

\* Neither set grows.
Shrinks(a) == RecentInvites(a)' \subseteq RecentInvites(a) /\ Senders(a)' \subseteq Senders(a)

LEMMA SetsCounted ==
    ASSUME NEW a
    PROVE  /\ IsFiniteSet(RecentInvites(a)) /\ Cardinality(RecentInvites(a)) \in Nat
           /\ IsFiniteSet(Senders(a)) /\ Cardinality(Senders(a)) \in Nat
           /\ Cardinality(Senders(a)) <= N /\ N \in Nat
  <1>1. RecentInvites(a) \subseteq InviteIds /\ Senders(a) \subseteq Requests
    BY DEF RecentInvites, Senders
  <1>2. /\ IsFiniteSet(RecentInvites(a)) /\ IsFiniteSet(Senders(a))
        /\ Cardinality(Senders(a)) <= N
    BY <1>1, InvitesAssumption, FS_Subset DEF N
  <1> QED BY <1>2, InvitesAssumption, FS_CardinalityType DEF N

LEMMA ShrinkingLimited ==
    ASSUME Limited, NEW a \in Users, Shrinks(a)
    PROVE  Cardinality(RecentInvites(a)') + Cardinality(Senders(a)') <= DailyLimit + N - 1
  <1>1. /\ Cardinality(RecentInvites(a)') <= Cardinality(RecentInvites(a))
        /\ Cardinality(Senders(a)') <= Cardinality(Senders(a))
    BY SetsCounted, FS_Subset DEF Shrinks
  <1>2. Cardinality(RecentInvites(a)') \in Nat /\ Cardinality(Senders(a)') \in Nat
    <2>1. IsFiniteSet(RecentInvites(a)') /\ IsFiniteSet(Senders(a)')
      BY SetsCounted, FS_Subset DEF Shrinks
    <2> QED BY <2>1, FS_CardinalityType
  <1>3. Cardinality(RecentInvites(a)) + Cardinality(Senders(a)) <= DailyLimit + N - 1
    BY DEF Limited
  <1> QED BY <1>1, <1>2, <1>3, SetsCounted, InvitesAssumption

\* Who counts finds less than the limit, and waits with at most all the others.
LEMMA SendingLimited ==
    ASSUME TypeOK, NEW r \in Requests, NEW a \in Users, NEW b \in Users, SendInvite(r, a, b)
    PROVE  /\ Cardinality(RecentInvites(a)') + Cardinality(Senders(a)') <= DailyLimit + N - 1
           /\ \A u \in Users \ {a} : Shrinks(u)
  <1>1. RecentInvites(a)' = RecentInvites(a) /\ \A u \in Users : RecentInvites(u)' = RecentInvites(u)
    BY DEF SendInvite, RecentInvites
  <1>2. Cardinality(RecentInvites(a)) < DailyLimit
    BY DEF SendInvite, WithinDailyLimit
  <1>3. Cardinality(Senders(a)') <= N /\ Cardinality(Senders(a)') \in Nat
    <2>1. Senders(a)' \subseteq Requests
      BY DEF Senders
    <2>2. IsFiniteSet(Senders(a)') /\ Cardinality(Senders(a)') <= N
      BY <2>1, InvitesAssumption, FS_Subset DEF N
    <2> QED BY <2>2, FS_CardinalityType
  <1>4. \A u \in Users \ {a} : Senders(u)' \subseteq Senders(u)
    BY DEF TypeOK, SendInvite, Begin, Senders
  <1> QED BY <1>1, <1>2, <1>3, <1>4, SetsCounted, InvitesAssumption DEF Shrinks

\* A row created is one request less on its way to create one.
LEMMA CreatingLimited ==
    ASSUME TypeOK, Limited, NEW r \in Requests, CreateInvite(r)
    PROVE  \A a \in Users :
              \/ Shrinks(a)
              \/ Cardinality(RecentInvites(a)') + Cardinality(Senders(a)') <= DailyLimit + N - 1
  <1>1. PICK i \in InviteIds :
          invite' = [invite EXCEPT ![i] = [status |-> "pending", from |-> req[r].from,
                                           to |-> req[r].to, due |-> FALSE, recent |-> TRUE]]
    BY DEF CreateInvite
  <1>2. At(r, "createInvite") /\ req' = [req EXCEPT ![r] = Idle]
    BY DEF CreateInvite, End
  <1>3. \A u \in Users : Senders(u)' = Senders(u) \ {r}
    BY <1>2 DEF TypeOK, Senders, SendSteps, Idle
  <1>4. \A u \in Users : u # req[r].from => RecentInvites(u)' \subseteq RecentInvites(u)
    BY <1>1 DEF TypeOK, RecentInvites
  <1>5. \A u \in Users : RecentInvites(u)' \subseteq RecentInvites(u) \cup {i}
    BY <1>1 DEF TypeOK, RecentInvites
  <1> SUFFICES ASSUME NEW a \in Users, ~Shrinks(a)
               PROVE  Cardinality(RecentInvites(a)') + Cardinality(Senders(a)') <= DailyLimit + N - 1
    OBVIOUS
  <1>6. req[r].from = a
    BY <1>3, <1>4 DEF Shrinks
  <1>7. r \in Senders(a)
    BY <1>2, <1>6 DEF Senders, SendSteps, At
  <1>8. Cardinality(Senders(a)') = Cardinality(Senders(a)) - 1
    BY <1>3, <1>7, SetsCounted, FS_RemoveElement
  <1>9. /\ Cardinality(RecentInvites(a)') <= Cardinality(RecentInvites(a)) + 1
        /\ Cardinality(RecentInvites(a)') \in Nat
    <2>1. /\ IsFiniteSet(RecentInvites(a) \cup {i})
          /\ Cardinality(RecentInvites(a) \cup {i}) <= Cardinality(RecentInvites(a)) + 1
      <3>1. IsFiniteSet(RecentInvites(a)) /\ Cardinality(RecentInvites(a)) \in Nat
        BY SetsCounted
      <3>2. CASE i \in RecentInvites(a)
        <4>1. RecentInvites(a) \cup {i} = RecentInvites(a)
          BY <3>2
        <4>2. /\ IsFiniteSet(RecentInvites(a) \cup {i})
              /\ Cardinality(RecentInvites(a) \cup {i}) = Cardinality(RecentInvites(a))
          BY <3>1, <4>1, Zenon
        <4> QED BY <3>1, <4>2
      <3>3. CASE i \notin RecentInvites(a)
        <4>1. /\ IsFiniteSet(RecentInvites(a) \cup {i})
              /\ Cardinality(RecentInvites(a) \cup {i}) = Cardinality(RecentInvites(a)) + 1
          BY <3>1, <3>3, FS_AddElement
        <4> QED BY <3>1, <4>1
      <3> QED BY <3>2, <3>3
    <2>2. /\ IsFiniteSet(RecentInvites(a)')
          /\ Cardinality(RecentInvites(a)') <= Cardinality(RecentInvites(a) \cup {i})
      BY <1>5, <2>1, FS_Subset
    <2>3. Cardinality(RecentInvites(a) \cup {i}) \in Nat /\ Cardinality(RecentInvites(a)') \in Nat
      BY <2>1, <2>2, FS_CardinalityType
    <2> QED BY <2>1, <2>2, <2>3, SetsCounted
  <1>10. Cardinality(RecentInvites(a)) + Cardinality(Senders(a)) <= DailyLimit + N - 1
    BY DEF Limited
  <1> QED BY <1>8, <1>9, <1>10, SetsCounted, InvitesAssumption

\* Every other statement of a request: it was sending already, or is not.
LEMMA ServingShrinks ==
    ASSUME TypeOK, NEW r \in Requests, Serve(r), ~CreateInvite(r), NEW a \in Users
    PROVE  Shrinks(a)
  <1> USE DEF SendSteps, At
  <1>1. \A q \in Requests : req[q] \in Request
    BY DEF TypeOK
  <1>2. ASSUME invite' = invite PROVE RecentInvites(a)' \subseteq RecentInvites(a)
    BY <1>2 DEF RecentInvites
  <1>3. ASSUME NEW s, SetStatus(r, s) PROVE RecentInvites(a)' \subseteq RecentInvites(a)
    BY <1>3 DEF SetStatus, RecentInvites, TypeOK, Invite
  <1>4. ASSUME End(r) PROVE Senders(a)' \subseteq Senders(a)
    BY <1>4 DEF End, Senders, Idle, TypeOK
  <1>5. ASSUME NEW s, Goto(r, s), s \in SendSteps => req[r].pc \in SendSteps
        PROVE  Senders(a)' \subseteq Senders(a)
    BY <1>1, <1>5 DEF Goto, Senders, TypeOK, Request
  <1>6. CASE InsertPending(r) \/ Approve(r) \/ ExpireInvite(r) \/ StoreRevoked(r) \/ MarkAccepted(r)
    BY <1>2, <1>3, <1>4, <1>6 DEF InsertPending, Approve, ExpireInvite, StoreRevoked, MarkAccepted, Shrinks
  <1>7. CASE LookupInvitee(r)
    BY <1>2, <1>5, <1>7 DEF LookupInvitee, Shrinks
  <1>7a. CASE FindExistingConnection(r)
    BY <1>2, <1>4, <1>5, <1>7a DEF FindExistingConnection, Shrinks
  <1>8. CASE FindPendingInvite(r)
    <2>1. req[r].pc \in SendSteps /\ invite' = invite
      BY <1>8 DEF FindPendingInvite
    <2>2. \/ Goto(r, "createInvite")
          \/ \E i \in InviteIds : req' = [req EXCEPT ![r] = [req[r] EXCEPT !.pc = "replace", !.invite = i]]
      BY <1>8 DEF FindPendingInvite, PendingInvites, TypeOK
    <2>3. CASE Goto(r, "createInvite")
      BY <1>2, <1>5, <2>1, <2>3 DEF Shrinks
    <2>4. ASSUME NEW i \in InviteIds,
                 req' = [req EXCEPT ![r] = [req[r] EXCEPT !.pc = "replace", !.invite = i]]
          PROVE  Senders(a)' \subseteq Senders(a)
      BY <1>1, <2>1, <2>4 DEF Senders, TypeOK, Request
    <2> QED BY <1>2, <2>1, <2>2, <2>3, <2>4 DEF Shrinks
  <1>9. CASE ReplaceInvite(r)
    BY <1>3, <1>5, <1>9 DEF ReplaceInvite, Shrinks
  <1>10. CASE FindConnection(r)
    BY <1>2, <1>5, <1>10 DEF FindConnection, Shrinks
  <1>11. CASE InsertAccepted(r)
    BY <1>2, <1>4, <1>5, <1>11 DEF InsertAccepted, Shrinks
  <1> QED BY <1>6, <1>7, <1>7a, <1>8, <1>9, <1>10, <1>11 DEF Serve

LEMMA ArrivingShrinks ==
    ASSUME TypeOK, NEW r \in Requests, Arrive(r),
           ~\E a, b \in Users : SendInvite(r, a, b), NEW u \in Users
    PROVE  Shrinks(u)
  <1>1. PICK s \in {"connect", "approve", "expire", "revoke", "findConnection"},
             a \in Users \cup {NoUser}, b \in Users \cup {NoUser},
             c \in Conns \cup {NoConn}, i \in InviteIds \cup {NoInvite} :
          Begin(r, s, a, b, c, i)
    BY DEF Arrive, CreateConnection, AcceptConnection, FindExpired, RevokeInvite, AcceptInvite,
           TypeOK, Invite
  <1>2. invite' = invite
    BY DEF Arrive, CreateConnection, AcceptConnection, FindExpired, RevokeInvite, AcceptInvite
  <1>3. Senders(u)' \subseteq Senders(u)
    BY <1>1 DEF Begin, Senders, SendSteps, TypeOK
  <1> QED BY <1>2, <1>3 DEF Shrinks, RecentInvites

LEMMA StepLimited ==
    ASSUME TypeOK, Limited, [Next]_vars
    PROVE  Limited'
  <1> SUFFICES ASSUME NEW a \in Users
               PROVE  \/ Shrinks(a)
                      \/ Cardinality(RecentInvites(a)') + Cardinality(Senders(a)') <= DailyLimit + N - 1
    BY ShrinkingLimited DEF Limited
  <1>1. ASSUME NEW r \in Requests, NEW u \in Users, NEW b \in Users, SendInvite(r, u, b)
        PROVE  \/ Shrinks(a)
               \/ Cardinality(RecentInvites(a)') + Cardinality(Senders(a)') <= DailyLimit + N - 1
    BY <1>1, SendingLimited
  <1>2. ASSUME NEW r \in Requests, Arrive(r) \/ Serve(r)
        PROVE  \/ Shrinks(a)
               \/ Cardinality(RecentInvites(a)') + Cardinality(Senders(a)') <= DailyLimit + N - 1
    BY <1>1, <1>2, ArrivingShrinks, ServingShrinks, CreatingLimited
  <1>3. CASE (\E c \in Conns : DeleteConnection(c)) \/ (\E u \in Users : SignUp(u)) \/ UNCHANGED vars
    BY <1>3 DEF DeleteConnection, SignUp, vars, Shrinks, RecentInvites, Senders
  <1>4. CASE DayPasses
    BY <1>4 DEF DayPasses, Shrinks, RecentInvites, Senders, TypeOK, Invite
  <1>5. ASSUME NEW i \in InviteIds, WeekPasses(i) PROVE Shrinks(a)
    BY <1>5 DEF WeekPasses, Shrinks, RecentInvites, Senders, TypeOK, Invite
  <1>6. CASE Restart
    BY <1>6 DEF Restart, Shrinks, RecentInvites, Senders, SendSteps, Idle
  <1> QED BY <1>2, <1>3, <1>4, <1>5, <1>6 DEF Next

LEMMA InitLimited == Init => Limited
  <1> SUFFICES ASSUME Init, NEW a \in Users
               PROVE  Cardinality(RecentInvites(a)) + Cardinality(Senders(a)) <= DailyLimit + N - 1
    BY DEF Limited
  <1>1. RecentInvites(a) = {} /\ Senders(a) = {}
    BY DEF Init, RecentInvites, Senders, Unborn, Idle, SendSteps
  <1> QED BY <1>1, FS_EmptySet, SetsCounted, InvitesAssumption

\* Requests that count before each other's row is created exceed the daily
\* limit by no more than the number of the other requests.
THEOREM DailyLimitTheorem == Spec => []DailyLimitBounded
<1>1. TypeOK /\ Limited /\ [Next]_vars => Limited'
  BY StepLimited
<1>2. Limited => DailyLimitBounded
  BY SetsCounted, InvitesAssumption DEF Limited, DailyLimitBounded, N
<1>3. QED
  BY <1>1, <1>2, InitLimited, InvitesTyped, PTL DEF Spec
=============================================================================
