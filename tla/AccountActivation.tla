-------------------------- MODULE AccountActivation --------------------------
(***************************************************************************)
(* The life of an account: signup, reclaim of an abandoned signup,         *)
(* activation by a code sent to a mobile number, sign-in, change of number *)
(* or email, deletion.  One step per database statement: two requests may  *)
(* interleave between the row a handler reads and the row it writes.       *)
(*                                                                         *)
(* A code is known here by the number it was sent to.  The throttles of a  *)
(* send (cooldown, hourly limit), the attempts and expiry of a code, and   *)
(* the consent gate only ever refuse: they are the refusing alternative of *)
(* the step they guard, and modules PhoneCode and SmsConsent model them.   *)
(***************************************************************************)
EXTENDS Naturals, FiniteSets

CONSTANTS
    MaxUsers,       \* bound: how many account rows are ever created
    LegacyUsers,    \* rows 1..LegacyUsers predate the SMS-first signup
    Emails, Phones,
    Requests,       \* requests the server handles at once
    NoPhone, NoEmail

ASSUME ConstantsAssumption ==
    /\ MaxUsers \in Nat
    /\ LegacyUsers \in 0..MaxUsers
    /\ NoPhone \notin Phones
    /\ NoEmail \notin Emails

VARIABLES
    row,        \* the User table; ids grow with createdAt
    session,    \* users for whom a session token was ever signed
    req,        \* what each request in flight has read and does next
    woke        \* history: <<signup, account>> activated before the reclaim

vars == <<row, session, req, woke>>

Users  == 1..MaxUsers
Legacy == 1..LegacyUsers

Row == [status : {"unborn", "live", "deleted"},
        email : Emails \cup {NoEmail}, phone : Phones \cup {NoPhone},
        verified : BOOLEAN, pending : {"none", "fresh", "stale"},
        code : Phones \cup {NoPhone}]

Blank(s) == [status |-> s, email |-> NoEmail, phone |-> NoPhone,
             verified |-> FALSE, pending |-> "none", code |-> NoPhone]

Steps == {"idle", "reclaimEmail", "findPhone", "reclaimPhone", "create",
          "send", "store", "checkOwner", "setPhone", "checkCode",
          "markVerified", "setProfilePhone", "setEmail"}
Paths == {"none", "signup", "activation", "profile"}

Request == [pc : Steps, path : Paths, user : Users \cup {0},
            email : Emails \cup {NoEmail}, phone : Phones \cup {NoPhone}]

Idle == [pc |-> "idle", path |-> "none", user |-> 0,
         email |-> NoEmail, phone |-> NoPhone]

At(r, s) == req[r].pc = s
End(r)   == req' = [req EXCEPT ![r] = Idle]
Goto(r, s) == req' = [req EXCEPT ![r].pc = s]
Begin(r, s, p, u, e, n) ==
    /\ At(r, "idle")
    /\ req' = [req EXCEPT ![r] = [pc |-> s, path |-> p, user |-> u,
                                  email |-> e, phone |-> n]]

Live(u) == row[u].status = "live"
Write(u, new) == row' = [row EXCEPT ![u] = new]

\* An update or delete by id of a row that is gone is an error (P2025).
WriteIfLive(u, new) == IF Live(u) THEN Write(u, new) ELSE UNCHANGED row

------------------------------------------------------------------------------
(* Signup and reclaim *)

\* mutant: the test the comment of isReclaimable forbids.
ReclaimableIfUnverified(u) == row[u].pending = "stale" \/ ~row[u].verified

IsReclaimable(u) == row[u].pending = "stale"

EmailHolders(e) == {u \in Users : Live(u) /\ row[u].email = e}

\* findUserByPhoneNumber: the verified holder first, then the oldest.
PhoneHolders(n) == {u \in Users : Live(u) /\ row[u].phone = n}
Precedes(u, v) ==
    \/ row[u].verified /\ ~row[v].verified
    \/ row[u].verified = row[v].verified /\ u < v
FirstPhoneHolder(n) ==
    {u \in PhoneHolders(n) : \A v \in PhoneHolders(n) \ {u} : Precedes(u, v)}

SignupFindEmail(r, e, n) ==
    /\ \/ /\ EmailHolders(e) = {}
          /\ Begin(r, "findPhone", "signup", 0, e, n)
       \/ \E u \in EmailHolders(e) :
            /\ IsReclaimable(u)
            /\ Begin(r, "reclaimEmail", "signup", u, e, n)
    /\ UNCHANGED <<row, session, woke>>

\* The role and the number are validated after the delete: a rejected
\* signup has already removed the account it would have replaced.
SignupReclaimEmail(r) ==
    /\ At(r, "reclaimEmail")
    /\ WriteIfLive(req[r].user, Blank("deleted"))
    /\ \/ Live(req[r].user) /\ Goto(r, "findPhone")
       \/ End(r)
    /\ UNCHANGED <<session, woke>>

SignupFindPhone(r) ==
    /\ At(r, "findPhone")
    /\ \/ FirstPhoneHolder(req[r].phone) = {} /\ Goto(r, "create")
       \/ \E u \in FirstPhoneHolder(req[r].phone) :
            IF IsReclaimable(u)
            THEN req' = [req EXCEPT ![r].pc = "reclaimPhone", ![r].user = u]
            ELSE End(r)
    /\ UNCHANGED <<row, session, woke>>

SignupReclaimPhone(r) ==
    /\ At(r, "reclaimPhone")
    /\ WriteIfLive(req[r].user, Blank("deleted"))
    /\ IF Live(req[r].user) THEN Goto(r, "create") ELSE End(r)
    /\ UNCHANGED <<session, woke>>

\* The email is unique in the database, the number is not.
SignupCreate(r) ==
    /\ At(r, "create")
    /\ IF EmailHolders(req[r].email) # {}
       THEN End(r) /\ UNCHANGED row
       ELSE \E u \in Users :
              /\ row[u].status = "unborn"
              /\ \A v \in 1..(u - 1) : row[v].status # "unborn"
              /\ Write(u, [Blank("live") EXCEPT !.email = req[r].email,
                                                !.phone = req[r].phone,
                                                !.pending = "fresh"])
              /\ req' = [req EXCEPT ![r].pc = "send", ![r].user = u]
    /\ UNCHANGED <<session, woke>>

------------------------------------------------------------------------------
(* Sending a code: read the row, text the code, store it with its number *)

SendCode(r) ==
    /\ At(r, "send")
    /\ \/ /\ Live(req[r].user)
          /\ ~(row[req[r].user].verified /\ row[req[r].user].phone = req[r].phone)
          /\ Goto(r, "store")
       \/ End(r)
    /\ UNCHANGED <<row, session, woke>>

StoreCode(r) ==
    /\ At(r, "store")
    /\ WriteIfLive(req[r].user,
                   [row[req[r].user] EXCEPT !.phone = req[r].phone,
                                            !.verified = FALSE,
                                            !.code = req[r].phone])
    /\ End(r)
    /\ UNCHANGED <<session, woke>>

\* users.sendPhoneVerificationCode: a session, on a path exempt from the gate,
\* and no test of who else holds the number.
ProfileSendCode(r, u, n) ==
    /\ u \in session /\ Live(u)
    /\ ~(row[u].verified /\ row[u].phone = n)
    /\ Begin(r, "store", "profile", u, NoEmail, n)
    /\ UNCHANGED <<row, session, woke>>

------------------------------------------------------------------------------
(* Activation.  A token for it is signed at signup, by a sign-in with the   *)
(* password and from a session, as often as wanted while the account is     *)
(* unverified; what the handlers check is that it still is.                 *)

ActivationTokenAccepted(u) == Live(u) /\ ~row[u].verified

SetActivationPhone(r, u, n) ==
    /\ ActivationTokenAccepted(u)
    /\ Begin(r, "checkOwner", "activation", u, NoEmail, n)
    /\ UNCHANGED <<row, session, woke>>

CheckPhoneOwner(r) ==
    /\ At(r, "checkOwner")
    /\ \/ FirstPhoneHolder(req[r].phone) \subseteq {req[r].user} /\ Goto(r, "setPhone")
       \/ End(r)
    /\ UNCHANGED <<row, session, woke>>

\* mutant: the outstanding code survives the change of number.
NumberChangedKeepingCode(u, n) ==
    [row[u] EXCEPT !.phone = n, !.verified = FALSE]

\* mutant: the arguments of the update swapped.
NumberChangedSwapped(u, n) ==
    [row[u] EXCEPT !.phone = u, !.verified = FALSE, !.code = NoPhone]

NumberChanged(u, n) ==
    [row[u] EXCEPT !.phone = n, !.verified = FALSE, !.code = NoPhone]

StoreActivationPhone(r) ==
    /\ At(r, "setPhone")
    /\ WriteIfLive(req[r].user, NumberChanged(req[r].user, req[r].phone))
    /\ IF Live(req[r].user) THEN Goto(r, "send") ELSE End(r)
    /\ UNCHANGED <<session, woke>>

RequestActivationCode(r, u) ==
    /\ ActivationTokenAccepted(u)
    /\ row[u].phone # NoPhone
    /\ Begin(r, "send", "activation", u, NoEmail, row[u].phone)
    /\ UNCHANGED <<row, session, woke>>

VerifyActivation(r, u) ==
    /\ ActivationTokenAccepted(u)
    /\ Begin(r, "checkCode", "activation", u, NoEmail, NoPhone)
    /\ UNCHANGED <<row, session, woke>>

ProfileVerify(r, u) ==
    /\ u \in session /\ Live(u)
    /\ Begin(r, "checkCode", "profile", u, NoEmail, NoPhone)
    /\ UNCHANGED <<row, session, woke>>

\* The right code was typed; the request remembers the number it was sent to.
CodeAccepted(u) ==
    /\ Live(u) /\ ~row[u].verified
    /\ row[u].phone # NoPhone /\ row[u].code # NoPhone

CheckCode(r) ==
    /\ At(r, "checkCode")
    /\ \/ /\ CodeAccepted(req[r].user)
          /\ req' = [req EXCEPT ![r].pc = "markVerified",
                                ![r].phone = row[req[r].user].code]
       \/ End(r)
    /\ UNCHANGED <<row, session, woke>>

\* mutant: activation leaves the pending marker, as the profile path does.
VerifiedKeepingMarker(u) == [row[u] EXCEPT !.verified = TRUE, !.code = NoPhone]

\* The signups that have found this account reclaimable and are to delete it.
Reclaiming(u) ==
    {q \in Requests : req[q].pc \in {"reclaimEmail", "reclaimPhone"} /\ req[q].user = u}

\* setPhoneVerified, by id alone: whatever number the row holds by now.
PhoneVerified(u) ==
    [row[u] EXCEPT !.verified = TRUE, !.pending = "none", !.code = NoPhone]

MarkActivated(r) ==
    /\ At(r, "markVerified") /\ req[r].path = "activation"
    /\ WriteIfLive(req[r].user, PhoneVerified(req[r].user))
    /\ session' = IF Live(req[r].user) THEN session \cup {req[r].user} ELSE session
    /\ woke' = woke \cup {<<q, req[r].user>> : q \in Reclaiming(req[r].user)}
    /\ End(r)

\* users.verifyPhoneVerificationCode leaves pendingSignupSince alone.
MarkVerifiedInProfile(r) ==
    /\ At(r, "markVerified") /\ req[r].path = "profile"
    /\ WriteIfLive(req[r].user, [row[req[r].user] EXCEPT !.verified = TRUE,
                                                         !.code = NoPhone])
    /\ End(r)
    /\ UNCHANGED <<session, woke>>

------------------------------------------------------------------------------
(* The account in use *)

Login(u) ==
    /\ Live(u) /\ row[u].verified
    /\ session' = session \cup {u}
    /\ UNCHANGED <<row, req, woke>>

GatePassed(u) == u \in session /\ Live(u) /\ row[u].verified

ChangePhone(r, u, n) ==
    /\ GatePassed(u) /\ n # row[u].phone
    /\ Begin(r, "setProfilePhone", "profile", u, NoEmail, n)
    /\ UNCHANGED <<row, session, woke>>

StoreProfilePhone(r) ==
    /\ At(r, "setProfilePhone")
    /\ WriteIfLive(req[r].user, NumberChanged(req[r].user, req[r].phone))
    /\ End(r)
    /\ UNCHANGED <<session, woke>>

ChangeEmail(r, u, e) ==
    /\ GatePassed(u) /\ EmailHolders(e) = {}
    /\ Begin(r, "setEmail", "profile", u, e, NoPhone)
    /\ UNCHANGED <<row, session, woke>>

StoreEmail(r) ==
    /\ At(r, "setEmail")
    /\ IF EmailHolders(req[r].email) \subseteq {req[r].user}
       THEN WriteIfLive(req[r].user,
                        [row[req[r].user] EXCEPT !.email = req[r].email])
       ELSE UNCHANGED row
    /\ End(r)
    /\ UNCHANGED <<session, woke>>

\* By its owner, through the gate, or by an administrator.
DeleteUser(u) ==
    /\ Live(u)
    /\ Write(u, Blank("deleted"))
    /\ UNCHANGED <<session, req, woke>>

\* PENDING_SIGNUP_TTL_HOURS go by.
PendingTtlPasses(u) ==
    /\ Live(u) /\ row[u].pending = "fresh"
    /\ Write(u, [row[u] EXCEPT !.pending = "stale"])
    /\ UNCHANGED <<session, req, woke>>

\* The process restarts: what the requests had read is lost.
Restart ==
    /\ \E r \in Requests : ~At(r, "idle")
    /\ req' = [r \in Requests |-> Idle]
    /\ UNCHANGED <<row, session, woke>>

------------------------------------------------------------------------------

\* Accounts that predate the flow have no pending marker; they may have no
\* number, and a session signed before activation became mandatory.
LegacyRow == {l \in Row : /\ l.status = "live" /\ l.email \in Emails
                          /\ l.pending = "none" /\ l.code = NoPhone
                          /\ l.verified => l.phone # NoPhone}

Init ==
    /\ \E old \in [Legacy -> LegacyRow] :
         /\ \A u, v \in Legacy : old[u].email = old[v].email => u = v
         /\ row = [u \in Users |-> IF u \in Legacy THEN old[u] ELSE Blank("unborn")]
    /\ session \in SUBSET Legacy
    /\ req = [r \in Requests |-> Idle]
    /\ woke = {}

Step(r) ==
    \/ \E e \in Emails, n \in Phones : SignupFindEmail(r, e, n)
    \/ SignupReclaimEmail(r) \/ SignupFindPhone(r)
    \/ SignupReclaimPhone(r) \/ SignupCreate(r)
    \/ SendCode(r) \/ StoreCode(r)
    \/ \E u \in Users, n \in Phones :
         ProfileSendCode(r, u, n) \/ SetActivationPhone(r, u, n)
    \/ CheckPhoneOwner(r) \/ StoreActivationPhone(r)
    \/ \E u \in Users :
         RequestActivationCode(r, u) \/ VerifyActivation(r, u) \/ ProfileVerify(r, u)
    \/ CheckCode(r) \/ MarkActivated(r) \/ MarkVerifiedInProfile(r)
    \/ \E u \in Users, n \in Phones \cup {NoPhone} : ChangePhone(r, u, n)
    \/ \E u \in Users, e \in Emails : ChangeEmail(r, u, e)
    \/ StoreProfilePhone(r) \/ StoreEmail(r)

Next ==
    \/ \E r \in Requests : Step(r)
    \/ \E u \in Users : Login(u) \/ DeleteUser(u) \/ PendingTtlPasses(u)
    \/ Restart

Spec == Init /\ [][Next]_vars

------------------------------------------------------------------------------
(* Properties *)

\* The types of the table, of the tokens signed and of the requests.
TypeOK ==
    /\ row \in [Users -> Row]
    /\ session \subseteq Users
    /\ req \in [Requests -> Request]
    /\ woke \subseteq Requests \X Users

\* The reclaim marker and activation exclude one another, whichever of the
\* two verify paths ran and however often the number changed since: an account
\* with a session or a verified number is not a pending signup, and the marker
\* is gone only from accounts that activated or predate it (isReclaimable may
\* therefore ignore isPhoneVerified, auth.service.ts:164-175).
MarkerTracksActivation ==
    \A u \in Users : Live(u) =>
        /\ row[u].verified => row[u].pending = "none"
        /\ row[u].pending = "none" <=> u \in session \cup Legacy

\* A stored code was sent to the number the row holds, and that number is still
\* unproved: no path that changes the number leaves a code for another one.
CodeMatchesNumber ==
    \A u \in Users : row[u].code # NoPhone =>
        row[u].code = row[u].phone /\ ~row[u].verified

\* The account a signup is about to delete is an abandoned signup that never
\* activated, whatever it verified and whichever number it holds by now; the
\* one exception are the accounts that activated between the look-up of this
\* very signup and its delete.
ReclaimTargetsAbandoned ==
    \A u \in Users : \A r \in Reclaiming(u) :
        Live(u) => \/ row[u].pending = "stale" /\ u \notin session \cup Legacy
                   \/ <<r, u>> \in woke

\* A signup deletes no account that has activated (auth.service.ts:163-166).
ReclaimSparesActivated ==
    [][\A r \in Requests :
         /\ req[r].pc \in {"reclaimEmail", "reclaimPhone"}
         /\ Live(req[r].user) /\ row'[req[r].user].status = "deleted" /\ req[r]' # req[r]
         => req[r].user \notin session]_vars

\* A number becomes verified only by entering a code that was sent to it
\* (auth.service.ts:548-550).
VerifiedNumberWasProved ==
    [][\A r \in Requests :
         At(r, "markVerified") /\ ~At(r, "markVerified")' =>
             \/ row' = row
             \/ row'[req[r].user].phone = req[r].phone]_vars

\* One account per number (auth.service.ts:95-96).
OneAccountPerNumber ==
    \A u, v \in Users :
        /\ Live(u) /\ Live(v) /\ row[u].verified /\ row[v].verified
        /\ row[u].phone = row[v].phone
        => u = v
==============================================================================
