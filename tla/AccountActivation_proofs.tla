----------------------- MODULE AccountActivation_proofs -----------------------
(* Theorems about AccountActivation, for every number of accounts, emails,  *)
(* numbers and concurrent requests.                                         *)
EXTENDS AccountActivation, TLAPS

\* Steps at which a request works on a row it has found or created.
UserSteps == Steps \ {"idle", "findPhone", "create"}

\* Types, and: a request past its lookup names an account.
TypeInv ==
    /\ TypeOK
    /\ \A r \in Requests : req[r].pc \in UserSteps => req[r].user \in Users

\* No token is signed for an id that no row has had yet.
UnbornHasNoSession ==
    \A u \in Users : row[u].status = "unborn" => u \notin session \cup Legacy

\* A row that is not there holds nothing.
OnlyLiveVerified == \A u \in Users : row[u].verified => Live(u)

\* The profile paths are entered with a session and sessions are not withdrawn.
ProfileHoldsSession ==
    \A r \in Requests : req[r].path = "profile" => req[r].user \in session

\* The first steps of a signup belong to no other path.
SignupSteps == {"reclaimEmail", "findPhone", "reclaimPhone", "create"}
PathOfStep ==
    \A r \in Requests : req[r].pc \in SignupSteps => req[r].path = "signup"

\* The account a reclaim names has been created.
ReclaimTargetsBorn ==
    \A r \in Requests : req[r].pc \in {"reclaimEmail", "reclaimPhone"} =>
        row[req[r].user].status # "unborn"

IInv ==
    /\ TypeInv
    /\ UnbornHasNoSession
    /\ OnlyLiveVerified
    /\ ProfileHoldsSession
    /\ PathOfStep
    /\ ReclaimTargetsBorn
    /\ MarkerTracksActivation
    /\ CodeMatchesNumber
    /\ ReclaimTargetsAbandoned

------------------------------------------------------------------------------

LEMMA BlankIsRow == Blank("unborn") \in Row /\ Blank("deleted") \in Row /\ Blank("live") \in Row
  BY DEF Blank, Row

\* Writing a well-typed row, or none, keeps the table well typed.
LEMMA WriteTyped ==
    ASSUME row \in [Users -> Row], NEW u, NEW new,
           u \in Users => new \in Row, Write(u, new)
    PROVE  row' \in [Users -> Row]
  BY DEF Write

LEMMA WriteIfLiveTyped ==
    ASSUME row \in [Users -> Row], NEW u, NEW new,
           u \in Users => new \in Row, WriteIfLive(u, new)
    PROVE  row' \in [Users -> Row]
  BY WriteTyped DEF WriteIfLive

\* The three ways a step moves a request keep the requests well typed.
LEMMA BeginTyped ==
    ASSUME TypeInv, NEW r \in Requests, NEW s \in Steps, NEW p \in Paths,
           NEW u \in Users \cup {0}, NEW e \in Emails \cup {NoEmail},
           NEW n \in Phones \cup {NoPhone}, s \in UserSteps => u \in Users,
           Begin(r, s, p, u, e, n)
    PROVE  /\ req' \in [Requests -> Request]
           /\ \A q \in Requests : req'[q].pc \in UserSteps => req'[q].user \in Users
  BY DEF TypeInv, TypeOK, Begin, Request

LEMMA GotoTyped ==
    ASSUME TypeInv, NEW r \in Requests, NEW s \in Steps,
           s \in UserSteps => req[r].user \in Users, Goto(r, s)
    PROVE  /\ req' \in [Requests -> Request]
           /\ \A q \in Requests : req'[q].pc \in UserSteps => req'[q].user \in Users
  BY DEF TypeInv, TypeOK, Goto, Request

LEMMA IdleTyped == Idle \in Request /\ Idle.pc \notin UserSteps
  BY DEF Idle, Request, Steps, Paths, UserSteps

LEMMA EndTyped ==
    ASSUME TypeInv, NEW r \in Requests, End(r)
    PROVE  /\ req' \in [Requests -> Request]
           /\ \A q \in Requests : req'[q].pc \in UserSteps => req'[q].user \in Users
  BY IdleTyped DEF TypeInv, TypeOK, End

LEMMA InitTyped == Init => TypeInv
<1> SUFFICES ASSUME Init PROVE TypeInv
  OBVIOUS
<1>1. row \in [Users -> Row]
  BY BlankIsRow DEF Init, LegacyRow
<1>2. session \subseteq Users
  BY ConstantsAssumption DEF Init, Legacy, Users
<1>3. QED
  BY <1>1, <1>2, IdleTyped DEF Init, TypeInv, TypeOK

LEMMA StepTyped == TypeInv /\ [Next]_vars => TypeInv'
<1> SUFFICES ASSUME TypeInv, [Next]_vars PROVE TypeInv'
  OBVIOUS
<1> USE DEF TypeInv, TypeOK
<1>1. ASSUME NEW r \in Requests, Step(r) PROVE TypeInv'
  <2> DEFINE u == req[r].user
  <2>t. /\ req[r] \in Request
        /\ \A v \in Users : row[v] \in Row
    OBVIOUS
  <2>p. req[r].phone \in Phones \cup {NoPhone}
    BY <2>t DEF Request
  <2> USE DEF Steps, Paths, UserSteps
  <2>1. ASSUME NEW e \in Emails, NEW n \in Phones, SignupFindEmail(r, e, n)
        PROVE  TypeInv'
    BY <2>1, BeginTyped DEF SignupFindEmail, EmailHolders
  <2>2. CASE SignupReclaimEmail(r)
    BY <2>2, GotoTyped, EndTyped, WriteIfLiveTyped, BlankIsRow DEF SignupReclaimEmail, At
  <2>3. CASE SignupFindPhone(r)
    <3>1. CASE Goto(r, "create")
      BY <2>3, <3>1, GotoTyped DEF SignupFindPhone
    <3>2. CASE End(r)
      BY <2>3, <3>2, EndTyped DEF SignupFindPhone
    <3>3. ASSUME NEW v \in FirstPhoneHolder(req[r].phone),
                 req' = [req EXCEPT ![r].pc = "reclaimPhone", ![r].user = v]
          PROVE  TypeInv'
      BY <2>3, <3>3, <2>t DEF SignupFindPhone, FirstPhoneHolder, PhoneHolders, Request
    <3>4. QED
      BY <2>3, <3>1, <3>2, <3>3 DEF SignupFindPhone
  <2>4. CASE SignupReclaimPhone(r)
    BY <2>4, GotoTyped, EndTyped, WriteIfLiveTyped, BlankIsRow DEF SignupReclaimPhone, At
  <2>5. CASE SignupCreate(r)
    <3>1. CASE End(r) /\ UNCHANGED row
      BY <2>5, <3>1, EndTyped DEF SignupCreate
    <3>2. ASSUME NEW v \in Users,
                 Write(v, [Blank("live") EXCEPT !.email = req[r].email,
                                                !.phone = req[r].phone,
                                                !.pending = "fresh"]),
                 req' = [req EXCEPT ![r].pc = "send", ![r].user = v]
          PROVE  TypeInv'
      <4>1. [Blank("live") EXCEPT !.email = req[r].email, !.phone = req[r].phone,
                                  !.pending = "fresh"] \in Row
        BY <2>t, BlankIsRow DEF Row, Request
      <4>2. row' \in [Users -> Row]
        BY <4>1, <3>2, WriteTyped
      <4>3. QED
        BY <2>5, <3>2, <4>2, <2>t DEF SignupCreate, Request
    <3>3. QED
      BY <2>5, <3>1, <3>2 DEF SignupCreate
  <2>6. CASE SendCode(r)
    BY <2>6, GotoTyped, EndTyped DEF SendCode, At
  <2>7. CASE StoreCode(r)
    <3>1. u \in Users => [row[u] EXCEPT !.phone = req[r].phone, !.verified = FALSE,
                                        !.code = req[r].phone] \in Row
      BY <2>t, <2>p DEF Row
    <3>2. QED
      BY <2>7, <3>1, EndTyped, WriteIfLiveTyped DEF StoreCode
  <2>8. ASSUME NEW v \in Users, NEW n \in Phones,
               ProfileSendCode(r, v, n) \/ SetActivationPhone(r, v, n)
        PROVE  TypeInv'
    BY <2>8, BeginTyped DEF ProfileSendCode, SetActivationPhone
  <2>9. CASE CheckPhoneOwner(r)
    BY <2>9, GotoTyped, EndTyped DEF CheckPhoneOwner, At
  <2>n. u \in Users => NumberChanged(u, req[r].phone) \in Row
    BY <2>t, <2>p DEF Row, NumberChanged
  <2>10. CASE StoreActivationPhone(r)
    BY <2>10, <2>n, GotoTyped, EndTyped, WriteIfLiveTyped DEF StoreActivationPhone, At
  <2>11. ASSUME NEW v \in Users,
                RequestActivationCode(r, v) \/ VerifyActivation(r, v) \/ ProfileVerify(r, v)
         PROVE  TypeInv'
    <3>1. row[v].phone \in Phones \cup {NoPhone}
      BY <2>t DEF Row
    <3>2. QED
      BY <2>11, <3>1, BeginTyped DEF RequestActivationCode, VerifyActivation, ProfileVerify
  <2>12. CASE CheckCode(r)
    <3>1. CASE End(r)
      BY <2>12, <3>1, EndTyped DEF CheckCode
    <3>2. CASE req' = [req EXCEPT ![r].pc = "markVerified", ![r].phone = row[u].code]
      <4>1. u \in Users
        BY <2>12, <2>t DEF CheckCode, At
      <4>2. row[u].code \in Phones \cup {NoPhone}
        BY <4>1, <2>t DEF Row
      <4>3. QED
        BY <2>12, <3>2, <4>1, <4>2, <2>t DEF CheckCode, Request
    <3>3. QED
      BY <2>12, <3>1, <3>2 DEF CheckCode
  <2>13. CASE MarkActivated(r)
    <3>1. u \in Users
      BY <2>13, <2>t DEF MarkActivated, At
    <3>2. PhoneVerified(u) \in Row
      <4> HIDE DEF TypeInv, TypeOK
      <4> QED
        BY <3>1, <2>t DEF PhoneVerified, Row
    <3>3. woke' \subseteq Requests \X Users
      BY <2>13, <3>1 DEF MarkActivated, Reclaiming
    <3>4. row' \in [Users -> Row] /\ session' \subseteq Users
      BY <2>13, <3>1, <3>2, WriteIfLiveTyped DEF MarkActivated
    <3>5. QED
      BY <2>13, <3>3, <3>4, EndTyped DEF MarkActivated
  <2>14. CASE MarkVerifiedInProfile(r)
    <3>1. u \in Users => [row[u] EXCEPT !.verified = TRUE, !.code = NoPhone] \in Row
      BY <2>t DEF Row
    <3>2. QED
      BY <2>14, <3>1, EndTyped, WriteIfLiveTyped DEF MarkVerifiedInProfile
  <2>15. ASSUME NEW v \in Users, NEW n \in Phones \cup {NoPhone}, ChangePhone(r, v, n)
         PROVE  TypeInv'
    BY <2>15, BeginTyped DEF ChangePhone
  <2>16. ASSUME NEW v \in Users, NEW e \in Emails, ChangeEmail(r, v, e)
         PROVE  TypeInv'
    BY <2>16, BeginTyped DEF ChangeEmail
  <2>17. CASE StoreProfilePhone(r)
    BY <2>17, <2>n, EndTyped, WriteIfLiveTyped DEF StoreProfilePhone
  <2>18. CASE StoreEmail(r)
    <3>1. u \in Users => [row[u] EXCEPT !.email = req[r].email] \in Row
      BY <2>t DEF Row, Request
    <3>2. QED
      BY <2>18, <3>1, EndTyped, WriteIfLiveTyped DEF StoreEmail
  <2>19. QED
    BY <1>1, <2>1, <2>2, <2>3, <2>4, <2>5, <2>6, <2>7, <2>8, <2>9, <2>10, <2>11,
       <2>12, <2>13, <2>14, <2>15, <2>16, <2>17, <2>18 DEF Step
<1>2. ASSUME NEW u \in Users, Login(u) \/ DeleteUser(u) \/ PendingTtlPasses(u)
      PROVE  TypeInv'
  <2>1. [row[u] EXCEPT !.pending = "stale"] \in Row
    BY DEF Row
  <2>2. QED
    BY <1>2, <2>1, WriteTyped, BlankIsRow DEF Login, DeleteUser, PendingTtlPasses
<1>3. CASE Restart
  BY <1>3, IdleTyped DEF Restart
<1>4. CASE UNCHANGED vars
  BY <1>4 DEF vars
<1>5. QED
  BY <1>1, <1>2, <1>3, <1>4 DEF Next

\* The tables, the tokens and the requests keep their types.
THEOREM TypeCorrect == Spec => []TypeOK
<1>1. TypeInv => TypeOK
  BY DEF TypeInv
<1>2. QED
  BY <1>1, InitTyped, StepTyped, PTL DEF Spec

------------------------------------------------------------------------------
(* What a step may do to one row of the table and to one request.           *)

Untouched(v) == row'[v] = row[v] /\ (v \in session' => v \in session \/ row[v].verified)
Deleted(v)   == row'[v] = Blank("deleted")
Created(v)   == /\ row[v].status = "unborn" /\ session' = session
                /\ row'[v].status = "live" /\ row'[v].pending = "fresh"
                /\ ~row'[v].verified /\ row'[v].code = NoPhone
NumberStored(v) == /\ Live(v) /\ row'[v].status = "live" /\ session' = session
                   /\ row'[v].pending = row[v].pending /\ ~row'[v].verified
                   /\ row'[v].code \in {NoPhone, row'[v].phone}
Activated(v) == /\ Live(v) /\ row'[v].status = "live" /\ v \in session'
                /\ row'[v].pending = "none" /\ row'[v].code = NoPhone
                /\ \A q \in Reclaiming(v) : <<q, v>> \in woke'
Reverified(v) == /\ Live(v) /\ row'[v].status = "live" /\ v \in session /\ session' = session
                 /\ row'[v].pending = row[v].pending /\ row'[v].code = NoPhone
EmailStored(v) == /\ Live(v) /\ row'[v].status = "live" /\ session' = session
                  /\ row'[v].pending = row[v].pending /\ row'[v].code = row[v].code
                  /\ row'[v].verified = row[v].verified /\ row'[v].phone = row[v].phone
Aged(v) == /\ Live(v) /\ row'[v].status = "live" /\ session' = session
           /\ row[v].pending = "fresh" /\ row'[v].pending = "stale"
           /\ row'[v].code = row[v].code /\ row'[v].phone = row[v].phone
           /\ row'[v].verified = row[v].verified

RowEffect(v) == \/ Untouched(v) \/ Deleted(v) \/ Created(v) \/ NumberStored(v)
                \/ Activated(v) \/ Reverified(v) \/ EmailStored(v) \/ Aged(v)
RowEffects == /\ session \subseteq session' /\ woke \subseteq woke'
              /\ \A v \in Users : RowEffect(v)

ReclaimSteps == {"reclaimEmail", "reclaimPhone"}

RequestEffect(q) ==
    /\ req'[q].path = "profile" =>
           \/ req[q].path = "profile" /\ req'[q].user = req[q].user
           \/ req'[q].user \in session
    /\ req'[q].pc \in ReclaimSteps =>
           \/ req[q].pc \in ReclaimSteps /\ req'[q].user = req[q].user
           \/ Live(req'[q].user) /\ row[req'[q].user].pending = "stale" /\ row' = row
    /\ req'[q].pc \in SignupSteps => req'[q].path = "signup"
RequestEffects == \A q \in Requests : RequestEffect(q)

LEMMA RowsUntouched ==
    ASSUME UNCHANGED <<row, session, woke>> PROVE RowEffects
  BY DEF RowEffects, RowEffect, Untouched

\* A step that writes the one row u, or none when u is gone.
LEMMA OneRowWritten ==
    ASSUME row \in [Users -> Row], NEW u, NEW new,
           WriteIfLive(u, new), UNCHANGED <<session, woke>>,
           u \in Users /\ Live(u) /\ row'[u] = new => RowEffect(u)
    PROVE  RowEffects
  BY DEF WriteIfLive, Write, RowEffects, RowEffect, Untouched

LEMMA RequestEnds ==
    ASSUME TypeInv, PathOfStep, NEW r \in Requests, End(r) PROVE RequestEffects
  BY DEF TypeInv, TypeOK, PathOfStep, SignupSteps, End, Idle, RequestEffects,
         RequestEffect, ReclaimSteps

LEMMA RequestGoesOn ==
    ASSUME TypeInv, PathOfStep, NEW r \in Requests, NEW s, s \notin ReclaimSteps,
           s \in SignupSteps => req[r].path = "signup", Goto(r, s)
    PROVE  RequestEffects
  BY DEF TypeInv, TypeOK, PathOfStep, Goto, Request, RequestEffects, RequestEffect

LEMMA RequestBegins ==
    ASSUME TypeInv, PathOfStep, NEW r \in Requests, NEW s, NEW p, NEW u, NEW e, NEW n,
           Begin(r, s, p, u, e, n), s \in SignupSteps => p = "signup",
           p = "profile" => u \in session,
           s \in ReclaimSteps => Live(u) /\ row[u].pending = "stale" /\ row' = row
    PROVE  RequestEffects
  BY DEF TypeInv, TypeOK, PathOfStep, Begin, RequestEffects, RequestEffect

LEMMA StepEffects == IInv /\ [Next]_vars => RowEffects /\ RequestEffects
<1> SUFFICES ASSUME IInv, [Next]_vars PROVE RowEffects /\ RequestEffects
  OBVIOUS
<1>t. TypeInv /\ PathOfStep /\ row \in [Users -> Row] /\ session \subseteq Users
  BY DEF IInv, TypeInv, TypeOK
<1>1. ASSUME NEW r \in Requests, Step(r) PROVE RowEffects /\ RequestEffects
  <2> DEFINE u == req[r].user
  <2>t. /\ req[r] \in Request
        /\ \A v \in Users : row[v] \in Row
        /\ req[r].pc \in UserSteps => u \in Users
    BY <1>t DEF TypeInv, TypeOK
  <2>d. WriteIfLive(u, Blank("deleted")) /\ UNCHANGED <<session, woke>> => RowEffects
    BY <1>t, OneRowWritten DEF RowEffect, Deleted
  <2>n. WriteIfLive(u, NumberChanged(u, req[r].phone)) /\ UNCHANGED <<session, woke>> => RowEffects
    <3>1. u \in Users /\ Live(u) /\ row'[u] = NumberChanged(u, req[r].phone)
            /\ UNCHANGED session => NumberStored(u)
      BY <2>t DEF NumberChanged, NumberStored, Live, Row
    <3>2. QED
      BY <1>t, <3>1, OneRowWritten DEF RowEffect
  <2>1. ASSUME NEW e \in Emails, NEW n \in Phones, SignupFindEmail(r, e, n)
        PROVE  RowEffects /\ RequestEffects
    <3>1. RequestEffects
      BY <1>t, <2>1, RequestBegins
         DEF SignupFindEmail, EmailHolders, IsReclaimable, ReclaimSteps, SignupSteps
    <3>2. QED
      BY <2>1, <3>1, RowsUntouched DEF SignupFindEmail
  <2>2. CASE SignupReclaimEmail(r)
    BY <1>t, <2>2, <2>d, RequestEnds, RequestGoesOn
       DEF SignupReclaimEmail, At, PathOfStep, ReclaimSteps, SignupSteps
  <2>3. CASE SignupFindPhone(r)
    <3>1. ASSUME NEW v \in FirstPhoneHolder(req[r].phone), IsReclaimable(v),
                 req' = [req EXCEPT ![r].pc = "reclaimPhone", ![r].user = v]
          PROVE  RequestEffects
      <4>1. Live(v) /\ row[v].pending = "stale" /\ row' = row
        BY <2>3, <3>1 DEF SignupFindPhone, FirstPhoneHolder, PhoneHolders, IsReclaimable
      <4>2. req[r].path = "signup"
        BY <2>3, <1>t DEF SignupFindPhone, At, PathOfStep, SignupSteps
      <4>3. QED
        BY <1>t, <2>t, <3>1, <4>1, <4>2
           DEF TypeInv, TypeOK, PathOfStep, RequestEffects, RequestEffect, ReclaimSteps, SignupSteps, Request
    <3>2. RequestEffects
      BY <1>t, <2>3, <3>1, RequestEnds, RequestGoesOn
         DEF SignupFindPhone, At, PathOfStep, ReclaimSteps, SignupSteps
    <3>3. QED
      BY <2>3, <3>2, RowsUntouched DEF SignupFindPhone
  <2>4. CASE SignupReclaimPhone(r)
    BY <1>t, <2>4, <2>d, RequestEnds, RequestGoesOn
       DEF SignupReclaimPhone, At, PathOfStep, ReclaimSteps, SignupSteps
  <2>5. CASE SignupCreate(r)
    <3>1. CASE End(r) /\ UNCHANGED row
      BY <1>t, <2>5, <3>1, RequestEnds, RowsUntouched DEF SignupCreate
    <3>2. ASSUME NEW v \in Users, row[v].status = "unborn",
                 Write(v, [Blank("live") EXCEPT !.email = req[r].email,
                                                !.phone = req[r].phone,
                                                !.pending = "fresh"]),
                 req' = [req EXCEPT ![r].pc = "send", ![r].user = v]
          PROVE  RowEffects /\ RequestEffects
      <4>1. Created(v)
        BY <1>t, <2>5, <3>2 DEF SignupCreate, Created, Write, Blank
      <4>2. RowEffects
        BY <1>t, <2>5, <3>2, <4>1
           DEF SignupCreate, Write, RowEffects, RowEffect, Untouched
      <4>3. req[r].path = "signup"
        BY <2>5, <1>t DEF SignupCreate, At, PathOfStep, SignupSteps
      <4>4. RequestEffects
        BY <1>t, <2>t, <3>2, <4>3
           DEF TypeInv, TypeOK, PathOfStep, RequestEffects, RequestEffect, ReclaimSteps, SignupSteps, Request
      <4>5. QED
        BY <4>2, <4>4
    <3>3. QED
      BY <2>5, <3>1, <3>2 DEF SignupCreate
  <2>6. CASE SendCode(r)
    BY <1>t, <2>6, RequestEnds, RequestGoesOn, RowsUntouched DEF SendCode, ReclaimSteps, SignupSteps
  <2>7. CASE StoreCode(r)
    <3> DEFINE new == [row[u] EXCEPT !.phone = req[r].phone, !.verified = FALSE,
                                     !.code = req[r].phone]
    <3>1. u \in Users /\ Live(u) /\ row'[u] = new => NumberStored(u)
      BY <2>t, <2>7 DEF StoreCode, NumberStored, Live, Row
    <3>2. RowEffects
      BY <1>t, <2>7, <3>1, OneRowWritten DEF StoreCode, RowEffect
    <3>3. QED
      BY <1>t, <2>7, <3>2, RequestEnds DEF StoreCode
  <2>8. ASSUME NEW v \in Users, NEW n \in Phones,
               ProfileSendCode(r, v, n) \/ SetActivationPhone(r, v, n)
        PROVE  RowEffects /\ RequestEffects
    <3>1. RequestEffects
      BY <1>t, <2>8, RequestBegins DEF ProfileSendCode, SetActivationPhone, ReclaimSteps, SignupSteps
    <3>2. QED
      BY <2>8, <3>1, RowsUntouched DEF ProfileSendCode, SetActivationPhone
  <2>9. CASE CheckPhoneOwner(r)
    BY <1>t, <2>9, RequestEnds, RequestGoesOn, RowsUntouched DEF CheckPhoneOwner, ReclaimSteps, SignupSteps
  <2>10. CASE StoreActivationPhone(r)
    BY <1>t, <2>10, <2>n, RequestEnds, RequestGoesOn
       DEF StoreActivationPhone, ReclaimSteps, SignupSteps
  <2>11. ASSUME NEW v \in Users,
                RequestActivationCode(r, v) \/ VerifyActivation(r, v) \/ ProfileVerify(r, v)
         PROVE  RowEffects /\ RequestEffects
    <3>1. RequestEffects
      BY <1>t, <2>11, RequestBegins
         DEF RequestActivationCode, VerifyActivation, ProfileVerify, ReclaimSteps, SignupSteps
    <3>2. QED
      BY <2>11, <3>1, RowsUntouched DEF RequestActivationCode, VerifyActivation, ProfileVerify
  <2>12. CASE CheckCode(r)
    <3>1. ASSUME req' = [req EXCEPT ![r].pc = "markVerified", ![r].phone = row[u].code]
          PROVE  RequestEffects
      BY <1>t, <2>t, <3>1
         DEF TypeInv, TypeOK, PathOfStep, RequestEffects, RequestEffect, ReclaimSteps, SignupSteps, Request
    <3>2. QED
      BY <1>t, <2>12, <3>1, RequestEnds, RowsUntouched DEF CheckCode
  <2>13. CASE MarkActivated(r)
    <3>1. u \in Users
      BY <2>t, <2>13 DEF MarkActivated, At, UserSteps, Steps
    <3>2. RowEffect(u)
      <4>1. CASE Live(u)
        <5>1. row' = [row EXCEPT ![u] = PhoneVerified(u)] /\ session' = session \cup {u}
          BY <2>13, <4>1 DEF MarkActivated, WriteIfLive, Write
        <5>2. row'[u] = PhoneVerified(u)
          BY <1>t, <3>1, <5>1
        <5>3. /\ row'[u].status = "live" /\ row'[u].pending = "none"
              /\ row'[u].code = NoPhone
          BY <2>t, <3>1, <4>1, <5>2 DEF PhoneVerified, Live, Row
        <5>4. \A q \in Reclaiming(u) : <<q, u>> \in woke'
          BY <2>13 DEF MarkActivated
        <5>a. Activated(u)
          BY <4>1, <5>1, <5>3, <5>4 DEF Activated
        <5>5. QED
          BY <5>a DEF RowEffect
      <4>2. CASE ~Live(u)
        BY <2>13, <4>2 DEF MarkActivated, WriteIfLive, RowEffect, Untouched
      <4>3. QED
        BY <4>1, <4>2
    <3>3. \A v \in Users \ {u} : Untouched(v)
      BY <1>t, <2>13 DEF MarkActivated, WriteIfLive, Write, Untouched
    <3>4. session \subseteq session' /\ woke \subseteq woke'
      BY <2>13 DEF MarkActivated
    <3>5. QED
      BY <1>t, <2>13, <3>2, <3>3, <3>4, RequestEnds DEF MarkActivated, RowEffects, RowEffect
  <2>14. CASE MarkVerifiedInProfile(r)
    <3> DEFINE new == [row[u] EXCEPT !.verified = TRUE, !.code = NoPhone]
    <3>1. u \in session
      BY <1>t, <2>14 DEF MarkVerifiedInProfile, IInv, ProfileHoldsSession
    <3>2. u \in Users /\ Live(u) /\ row'[u] = new => Reverified(u)
      BY <2>t, <2>14, <3>1 DEF MarkVerifiedInProfile, Reverified, Live, Row
    <3>3. RowEffects
      BY <1>t, <2>14, <3>2, OneRowWritten DEF MarkVerifiedInProfile, RowEffect
    <3>4. QED
      BY <1>t, <2>14, <3>3, RequestEnds DEF MarkVerifiedInProfile
  <2>15. ASSUME NEW v \in Users, NEW n \in Phones \cup {NoPhone}, ChangePhone(r, v, n)
         PROVE  RowEffects /\ RequestEffects
    <3>1. RequestEffects
      BY <1>t, <2>15, RequestBegins DEF ChangePhone, GatePassed, ReclaimSteps, SignupSteps
    <3>2. QED
      BY <2>15, <3>1, RowsUntouched DEF ChangePhone
  <2>16. ASSUME NEW v \in Users, NEW e \in Emails, ChangeEmail(r, v, e)
         PROVE  RowEffects /\ RequestEffects
    <3>1. RequestEffects
      BY <1>t, <2>16, RequestBegins DEF ChangeEmail, GatePassed, ReclaimSteps, SignupSteps
    <3>2. QED
      BY <2>16, <3>1, RowsUntouched DEF ChangeEmail
  <2>17. CASE StoreProfilePhone(r)
    BY <1>t, <2>17, <2>n, RequestEnds DEF StoreProfilePhone
  <2>18. CASE StoreEmail(r)
    <3>1. RequestEffects
      BY <1>t, <2>18, RequestEnds DEF StoreEmail
    <3>2. CASE UNCHANGED row
      BY <2>18, <3>1, <3>2, RowsUntouched DEF StoreEmail
    <3>3. CASE WriteIfLive(u, [row[u] EXCEPT !.email = req[r].email])
      <4>1. u \in Users /\ Live(u) /\ row'[u] = [row[u] EXCEPT !.email = req[r].email]
              => EmailStored(u)
        BY <2>t, <2>18 DEF StoreEmail, EmailStored, Live, Row
      <4>2. RowEffects
        BY <1>t, <2>18, <3>3, <4>1, OneRowWritten DEF StoreEmail, RowEffect
      <4>3. QED
        BY <3>1, <4>2
    <3>4. QED
      BY <2>18, <3>2, <3>3 DEF StoreEmail
  <2>19. QED
    BY <1>1, <2>1, <2>2, <2>3, <2>4, <2>5, <2>6, <2>7, <2>8, <2>9, <2>10, <2>11,
       <2>12, <2>13, <2>14, <2>15, <2>16, <2>17, <2>18 DEF Step
<1>2. ASSUME NEW u \in Users, Login(u) \/ DeleteUser(u) \/ PendingTtlPasses(u)
      PROVE  RowEffects /\ RequestEffects
  <2>1. RequestEffects
    BY <1>t, <1>2 DEF Login, DeleteUser, PendingTtlPasses, PathOfStep, RequestEffects, RequestEffect, ReclaimSteps, SignupSteps
  <2>2. CASE Login(u)
    BY <2>1, <2>2 DEF Login, RowEffects, RowEffect, Untouched
  <2>3. CASE DeleteUser(u)
    BY <1>t, <2>1, <2>3 DEF DeleteUser, Write, RowEffects, RowEffect, Untouched, Deleted
  <2>4. CASE PendingTtlPasses(u)
    <3>1. Aged(u)
      BY <1>t, <2>4 DEF PendingTtlPasses, Write, Aged, Live, Row
    <3>2. QED
      BY <1>t, <2>1, <2>4, <3>1 DEF PendingTtlPasses, Write, RowEffects, RowEffect, Untouched
  <2>5. QED
    BY <1>2, <2>2, <2>3, <2>4
<1>3. CASE Restart
  BY <1>3, RowsUntouched DEF Restart, Idle, RequestEffects, RequestEffect, ReclaimSteps, SignupSteps
<1>4. CASE UNCHANGED vars
  BY <1>t, <1>4, RowsUntouched DEF vars, PathOfStep, RequestEffects, RequestEffect, ReclaimSteps, SignupSteps
<1>5. QED
  BY <1>1, <1>2, <1>3, <1>4 DEF Next

LEMMA InitSafe == Init => IInv
<1> SUFFICES ASSUME Init PROVE IInv
  OBVIOUS
<1>1. TypeInv
  BY InitTyped
<1>2. \A u \in Users : IF u \in Legacy THEN row[u] \in LegacyRow
                                       ELSE row[u] = Blank("unborn")
  BY DEF Init
<1>3. session \subseteq Legacy /\ \A r \in Requests : req[r] = Idle
  BY DEF Init
<1>4. UnbornHasNoSession /\ OnlyLiveVerified /\ MarkerTracksActivation
        /\ CodeMatchesNumber
  BY <1>2, <1>3 DEF UnbornHasNoSession, OnlyLiveVerified, MarkerTracksActivation, CodeMatchesNumber,
     Live, LegacyRow, Row, Blank
<1>5. ProfileHoldsSession /\ PathOfStep /\ ReclaimTargetsBorn /\ ReclaimTargetsAbandoned
  BY <1>3 DEF ProfileHoldsSession, PathOfStep, SignupSteps, ReclaimTargetsBorn,
     ReclaimTargetsAbandoned, Reclaiming, Idle
<1>6. QED
  BY <1>1, <1>4, <1>5 DEF IInv

\* What the rows promise follows from what a step may do to a row.
LEMMA RowsSafe ==
    ASSUME IInv, RowEffects
    PROVE  (UnbornHasNoSession /\ OnlyLiveVerified /\ MarkerTracksActivation
              /\ CodeMatchesNumber)'
<1> SUFFICES ASSUME NEW v \in Users
             PROVE  /\ row'[v].status = "unborn" => v \notin session' \cup Legacy
                    /\ row'[v].verified => row'[v].status = "live"
                    /\ row'[v].status = "live" =>
                         /\ row'[v].verified => row'[v].pending = "none"
                         /\ row'[v].pending = "none" <=> v \in session' \cup Legacy
                    /\ row'[v].code # NoPhone =>
                         row'[v].code = row'[v].phone /\ ~row'[v].verified
  BY DEF UnbornHasNoSession, OnlyLiveVerified, MarkerTracksActivation, CodeMatchesNumber, Live
<1>1. /\ row[v] \in Row /\ session \subseteq session'
      /\ row[v].status = "unborn" => v \notin session \cup Legacy
      /\ row[v].status = "live" =>
           /\ row[v].verified => row[v].pending = "none"
           /\ row[v].pending = "none" <=> v \in session \cup Legacy
      /\ row[v].code # NoPhone => row[v].code = row[v].phone /\ ~row[v].verified
  BY DEF IInv, TypeInv, TypeOK, RowEffects, UnbornHasNoSession, MarkerTracksActivation,
     CodeMatchesNumber, Live
<1>2. /\ row[v].status # "live" => ~row[v].verified
  BY DEF IInv, OnlyLiveVerified, Live
<1>3. CASE Untouched(v)
  BY <1>1, <1>2, <1>3 DEF Untouched, Row
<1>4. CASE Deleted(v)
  BY <1>4 DEF Deleted, Blank
<1>5. CASE Created(v)
  BY <1>1, <1>5 DEF Created
<1>6. CASE NumberStored(v)
  BY <1>1, <1>6 DEF NumberStored, Live
<1>7. CASE Activated(v)
  BY <1>7 DEF Activated
<1>8. CASE Reverified(v)
  BY <1>1, <1>8 DEF Reverified, Live
<1>9. CASE EmailStored(v)
  BY <1>1, <1>9 DEF EmailStored, Live
<1>10. CASE Aged(v)
  BY <1>1, <1>10 DEF Aged, Live
<1>11. QED
  BY <1>3, <1>4, <1>5, <1>6, <1>7, <1>8, <1>9, <1>10 DEF RowEffects, RowEffect

\* What a reclaim may delete: an abandoned signup, or one that woke up.
ReclaimAllowed(q, u) ==
    Live(u) => \/ row[u].pending = "stale" /\ u \notin session \cup Legacy
               \/ <<q, u>> \in woke

LEMMA AllowedIsAbandoned ==
    ReclaimTargetsAbandoned <=>
        \A q \in Requests :
            req[q].pc \in ReclaimSteps /\ req[q].user \in Users => ReclaimAllowed(q, req[q].user)
  BY DEF ReclaimTargetsAbandoned, Reclaiming, ReclaimSteps, ReclaimAllowed

\* An account that a reclaim names stays what it was, activates or goes.
LEMMA TargetStaysAllowed ==
    ASSUME IInv, RowEffects, NEW q \in Requests, NEW u \in Users,
           req[q].pc \in ReclaimSteps, req[q].user = u
    PROVE  row'[u].status # "unborn" /\ ReclaimAllowed(q, u)'
<1>1. /\ row[u] \in Row /\ woke \subseteq woke' /\ row[u].status # "unborn"
      /\ Live(u) => \/ row[u].pending = "stale" /\ u \notin session \cup Legacy
                    \/ <<q, u>> \in woke
      /\ Live(u) => (row[u].verified => row[u].pending = "none")
      /\ q \in Reclaiming(u)
  BY AllowedIsAbandoned
     DEF IInv, TypeInv, TypeOK, ReclaimTargetsBorn, ReclaimAllowed, MarkerTracksActivation,
         RowEffects, ReclaimSteps, Reclaiming
<1>2. SUFFICES /\ row'[u].status # "unborn"
               /\ row'[u].status = "live" =>
                    \/ row'[u].pending = "stale" /\ u \notin session' \cup Legacy
                    \/ <<q, u>> \in woke'
  BY DEF ReclaimAllowed, Live
<1>3. CASE row'[u] = Blank("deleted")
  BY <1>3 DEF Blank
<1>4. CASE Activated(u)
  BY <1>1, <1>4 DEF Activated
<1>5. CASE Untouched(u)
  BY <1>1, <1>5 DEF Untouched, Live
<1>6. CASE NumberStored(u) \/ Reverified(u) \/ EmailStored(u) \/ Aged(u)
  BY <1>1, <1>6 DEF NumberStored, Reverified, EmailStored, Aged, Live
<1>7. CASE Created(u)
  BY <1>1, <1>7 DEF Created
<1>8. QED
  BY <1>3, <1>4, <1>5, <1>6, <1>7 DEF RowEffects, RowEffect, Deleted

LEMMA RequestsSafe ==
    ASSUME IInv, TypeInv', RowEffects, RequestEffects
    PROVE  (ProfileHoldsSession /\ PathOfStep /\ ReclaimTargetsBorn
              /\ ReclaimTargetsAbandoned)'
<1>1. \A q \in Requests : req'[q].path = "profile" => req'[q].user \in session'
  BY DEF IInv, ProfileHoldsSession, RowEffects, RequestEffects, RequestEffect
<1>2. \A q \in Requests : req'[q].pc \in SignupSteps => req'[q].path = "signup"
  BY DEF RequestEffects, RequestEffect
<1>3. ASSUME NEW q \in Requests, req'[q].pc \in ReclaimSteps
      PROVE  \E u \in Users : /\ u = req'[q].user
                              /\ row'[u].status # "unborn" /\ ReclaimAllowed(q, u)'
  <2>1. PICK u \in Users : u = req'[q].user
    BY <1>3 DEF TypeInv, ReclaimSteps, UserSteps, Steps
  <2>2. CASE Live(u) /\ row[u].pending = "stale" /\ row' = row
    <3>1. u \notin session \cup Legacy
      BY <2>2 DEF IInv, MarkerTracksActivation
    <3>2. ~row[u].verified
      BY <2>2 DEF IInv, MarkerTracksActivation
    <3>3. u \notin session' \cup Legacy
      BY <3>1, <3>2, <2>2
         DEF RowEffects, RowEffect, Untouched, Deleted, Created, NumberStored, Activated,
             Reverified, EmailStored, Aged, Blank, Live
    <3>4. QED
      BY <2>1, <2>2, <3>3 DEF ReclaimAllowed, Live
  <2>3. CASE req[q].pc \in ReclaimSteps /\ req[q].user = u
    BY <2>1, <2>3, TargetStaysAllowed
  <2>4. QED
    BY <1>3, <2>1, <2>2, <2>3 DEF RequestEffects, RequestEffect
<1>4. ProfileHoldsSession' /\ PathOfStep'
  BY <1>1, <1>2 DEF ProfileHoldsSession, PathOfStep
<1>5. ReclaimTargetsBorn'
  BY <1>3 DEF ReclaimTargetsBorn, ReclaimSteps
<1>6. ReclaimTargetsAbandoned'
  <2>1. ASSUME NEW u \in Users, NEW q \in Requests, q \in Reclaiming(u)'
        PROVE  ReclaimAllowed(q, u)'
    BY <2>1, <1>3 DEF Reclaiming, ReclaimSteps
  <2>2. QED
    BY <2>1 DEF ReclaimTargetsAbandoned, Reclaiming, ReclaimAllowed, Live
<1>7. QED
  BY <1>4, <1>5, <1>6

LEMMA StepSafe == IInv /\ [Next]_vars => IInv'
<1> SUFFICES ASSUME IInv, [Next]_vars PROVE IInv'
  OBVIOUS
<1>1. TypeInv'
  BY StepTyped DEF IInv
<1>2. RowEffects /\ RequestEffects
  BY StepEffects
<1>3. QED
  BY <1>1, <1>2, RowsSafe, RequestsSafe DEF IInv

LEMMA InductiveInvariant == Spec => []IInv
BY InitSafe, StepSafe, PTL DEF Spec

\* Whatever the interleaving of signups, verifications and number changes, an
\* account that activated is never left marked as a pending signup.
THEOREM MarkerTheorem == Spec => []MarkerTracksActivation
<1>1. IInv => MarkerTracksActivation
  BY DEF IInv
<1>2. QED
  BY <1>1, InductiveInvariant, PTL

\* A stored code always belongs to the number its row holds.
THEOREM CodeTheorem == Spec => []CodeMatchesNumber
<1>1. IInv => CodeMatchesNumber
  BY DEF IInv
<1>2. QED
  BY <1>1, InductiveInvariant, PTL

\* What a signup is about to delete never activated and is marked as abandoned,
\* unless it activated between the look-up and the delete of this signup: that
\* window is the whole of the exposure.
THEOREM ReclaimTheorem == Spec => []ReclaimTargetsAbandoned
<1>1. IInv => ReclaimTargetsAbandoned
  BY DEF IInv
<1>2. QED
  BY <1>1, InductiveInvariant, PTL

==============================================================================
