------------------------------ MODULE SmsConsent ------------------------------
(***************************************************************************)
(* Consent to text messages: the flags of an account, the log of consent   *)
(* events, the STOP and START a handset replies, and the gate in front of  *)
(* every text.  The log is kept as what its readers ask of it: the latest  *)
(* event of a number and the number of an account's latest grant.          *)
(*                                                                         *)
(* A request is the sequence of statements it has still to run; other      *)
(* requests and replies interleave between them.                           *)
(***************************************************************************)
EXTENDS Naturals, Sequences, FiniteSets

CONSTANTS
    Users,
    Newcomers,      \* the users who have not signed up yet
    Phones, NoPhone,
    Requests,       \* requests the server handles at once
    MaxRestarts     \* bound: restarts of the process

\* A module that instantiates this one assumes it.
ConsentAssumption ==
    /\ Newcomers \subseteq Users
    /\ NoPhone \notin Phones
    /\ MaxRestarts \in Nat

VARIABLES
    acct,           \* the columns of each user's row that concern consent
    numberLast,     \* latest event in the log for each number
    grantLast,      \* number of each user's latest 'granted' event
    granted,        \* every <<user, number>> with a 'granted' event in the log
    req,            \* what each request in flight has still to do
    restarts,
    halted,         \* history: <<user, number>> stopped while held, not granted since
    overtaken       \* history: requests that a STOP found past the flags

vars == <<acct, numberLast, grantLast, granted, req, restarts, halted, overtaken>>

Account == [joined : BOOLEAN, phone : Phones \cup {NoPhone}, verified : BOOLEAN,
            smsConsent : BOOLEAN, smsOptedOut : BOOLEAN]

Events == {"none", "granted", "revoked", "resubscribed"}
Statements == {"isNumberStopped", "setPhone", "recordConsent",
               "consentHeld", "grantOnFile", "grantIsLatest", "captureConsent",
               "unproved", "flags", "latestGrant", "text", "store",
               "optOut", "holders", "resubscribe"}
Paths == {"signup", "setActivationPhone", "requestActivationCode", "sessionSend",
          "grantSmsConsent", "withdraw", "start", "reset"}

Request == [todo : Seq(Statements), user : Users \cup {NoPhone},
            phone : Phones \cup {NoPhone}, held : BOOLEAN]

Idle == [todo |-> <<>>, user |-> NoPhone, phone |-> NoPhone, held |-> TRUE]

Gate == <<"flags", "latestGrant", "text">>

\* auth.sendPhoneVerificationCode, in which four paths end.
Send == <<"unproved">> \o Gate \o <<"store">>

\* The statements of each handler after the row it reads first.
Script(path) ==
    CASE path = "signup" -> <<"recordConsent">> \o Send
      [] path = "setActivationPhone" ->
            <<"isNumberStopped", "setPhone", "recordConsent">> \o Send
      [] path = "requestActivationCode" ->
            <<"consentHeld", "grantOnFile", "grantIsLatest">> \o Send
      [] path = "sessionSend" -> Send
      [] path = "grantSmsConsent" -> <<"isNumberStopped", "recordConsent">>
      [] path = "withdraw" -> <<"optOut">>
      [] path = "start" -> <<"holders", "resubscribe">>
      [] path = "reset" -> Gate

\* The consent box is ticked on the profile screen, or was earlier.
ProfileScript(ticked) ==
    <<"isNumberStopped">> \o (IF ticked THEN <<"recordConsent">> ELSE <<>>)
      \o Gate \o <<"store">>

At(r, s) == req[r].todo # <<>> /\ Head(req[r].todo) = s
End(r) == req' = [req EXCEPT ![r] = Idle]
Continue(r, new) ==
    IF Len(req[r].todo) = 1 THEN End(r)
    ELSE req' = [req EXCEPT ![r] = [new EXCEPT !.todo = Tail(@)]]
Begin(r, script, u, n) ==
    /\ req[r] = Idle
    /\ req' = [req EXCEPT ![r] = [todo |-> script, user |-> u, phone |-> n, held |-> TRUE]]

Holders(n) == {u \in Users : acct[u].joined /\ acct[u].phone = n}
ledger == <<numberLast, grantLast, granted>>
log    == <<ledger, halted, overtaken>>

------------------------------------------------------------------------------
(* Requests arrive *)

Signup(r, u, n) ==
    /\ ~acct[u].joined /\ Holders(n) = {}
    /\ acct' = [acct EXCEPT ![u].joined = TRUE, ![u].phone = n]
    /\ Begin(r, Script("signup"), u, n)
    /\ UNCHANGED log

SetActivationPhone(r, u, n) ==
    /\ acct[u].joined /\ ~acct[u].verified
    /\ Holders(n) \subseteq {u}
    /\ Begin(r, Script("setActivationPhone"), u, n)
    /\ UNCHANGED <<acct, log>>

RequestActivationCode(r, u) ==
    /\ acct[u].joined /\ ~acct[u].verified
    /\ acct[u].phone # NoPhone
    /\ ~acct[u].smsOptedOut
    /\ Begin(r, Script("requestActivationCode"), u, acct[u].phone)
    /\ UNCHANGED <<acct, log>>

\* POST phone-verification/send of a session that passes the activation gate.
SessionSend(r, u, n) ==
    /\ acct[u].joined /\ acct[u].verified
    /\ Begin(r, Script("sessionSend"), u, n)
    /\ UNCHANGED <<acct, log>>

ProfileSend(r, u, n) ==
    /\ acct[u].joined
    /\ ~(acct[u].verified /\ acct[u].phone = n)
    /\ \E ticked \in BOOLEAN : Begin(r, ProfileScript(ticked), u, n)
    /\ UNCHANGED <<acct, log>>

GrantSmsConsent(r, u) ==
    /\ acct[u].joined /\ acct[u].verified /\ acct[u].phone # NoPhone
    /\ Begin(r, Script("grantSmsConsent"), u, acct[u].phone)
    /\ UNCHANGED <<acct, log>>

WithdrawSmsConsent(r, u) ==
    /\ acct[u].joined /\ acct[u].verified /\ acct[u].phone # NoPhone
    /\ Begin(r, Script("withdraw"), u, acct[u].phone)
    /\ UNCHANGED <<acct, log>>

RequestPasswordReset(r, u) ==
    /\ acct[u].joined /\ acct[u].verified /\ acct[u].phone # NoPhone
    /\ Begin(r, Script("reset"), u, acct[u].phone)
    /\ UNCHANGED <<acct, log>>

------------------------------------------------------------------------------
(* The log and the flags are written in one transaction *)

\* mutant: the two arguments of recordConsent swapped where it logs them.
GrantSwapped(u, n) ==
    /\ numberLast' = [numberLast EXCEPT ![n] = "granted"]
    /\ grantLast' = [grantLast EXCEPT ![u] = u]
    /\ granted' = granted \cup {<<u, n>>}
    /\ halted' = halted \ {<<u, n>>}
    /\ UNCHANGED overtaken

Grant(u, n) ==
    /\ numberLast' = [numberLast EXCEPT ![n] = "granted"]
    /\ grantLast' = [grantLast EXCEPT ![u] = n]
    /\ granted' = granted \cup {<<u, n>>}
    /\ halted' = halted \ {<<u, n>>}
    /\ UNCHANGED overtaken

RecordConsent(r) ==
    LET u == req[r].user
    IN  /\ At(r, "recordConsent")
        /\ Grant(u, req[r].phone)
        /\ acct' = [acct EXCEPT ![u].smsConsent = TRUE, ![u].smsOptedOut = FALSE]
        /\ Continue(r, req[r])

\* recordConsentIfMissing: its three reads, then its transaction.

\* mutant: an old grant is enough, whatever was revoked since.
ConsentHeldByHistory(u) == TRUE

ConsentHeld(u) == acct[u].smsConsent

Find(r, held) ==
    /\ Continue(r, [req[r] EXCEPT !.held = @ /\ held])
    /\ UNCHANGED <<acct, log>>

FindConsentHeld(r) == At(r, "consentHeld") /\ Find(r, ConsentHeld(req[r].user))

FindGrantOnFile(r) ==
    At(r, "grantOnFile") /\ Find(r, <<req[r].user, req[r].phone>> \in granted)

FindGrantIsLatest(r) ==
    /\ At(r, "grantIsLatest")
    /\ IF req[r].held /\ grantLast[req[r].user] = req[r].phone
       THEN Continue(r, req[r])
       ELSE req' = [req EXCEPT ![r].todo = <<"captureConsent">> \o Tail(@), ![r].held = TRUE]
    /\ UNCHANGED <<acct, log>>

CaptureConsent(r) ==
    LET u == req[r].user
    IN  /\ At(r, "captureConsent")
        /\ Grant(u, req[r].phone)
        /\ acct' = [acct EXCEPT ![u].smsConsent = TRUE]
        /\ Continue(r, req[r])

PastFlags(r) == At(r, "latestGrant") \/ At(r, "text")

OptOut(n) ==
    /\ numberLast' = [numberLast EXCEPT ![n] = "revoked"]
    /\ acct' = [u \in Users |->
                  IF u \in Holders(n)
                  THEN [acct[u] EXCEPT !.smsConsent = FALSE, !.smsOptedOut = TRUE]
                  ELSE acct[u]]
    /\ halted' = halted \cup (Holders(n) \X {n})
    /\ overtaken' = overtaken \cup
          {r \in Requests : PastFlags(r) /\ req[r].phone = n /\ req[r].user \in Holders(n)}
    /\ UNCHANGED <<grantLast, granted>>

\* A texted STOP: whoever holds the number, known or not.
HandleStop(n) == OptOut(n) /\ UNCHANGED req

Withdraw(r) == At(r, "optOut") /\ OptOut(req[r].phone) /\ Continue(r, req[r])

\* A texted START: dropped when no account holds the number.
HandleStart(r, n) ==
    /\ Begin(r, Script("start"), NoPhone, n)
    /\ UNCHANGED <<acct, log>>

FindHolders(r) ==
    /\ At(r, "holders")
    /\ IF Holders(req[r].phone) = {} THEN End(r) ELSE Continue(r, req[r])
    /\ UNCHANGED <<acct, log>>

\* mutant: START restores the consent as well.
ResumedWithConsent(a) == [a EXCEPT !.smsOptedOut = FALSE, !.smsConsent = TRUE]

Resumed(a) == [a EXCEPT !.smsOptedOut = FALSE]

Resubscribe(r) ==
    /\ At(r, "resubscribe")
    /\ numberLast' = [numberLast EXCEPT ![req[r].phone] = "resubscribed"]
    /\ acct' = [u \in Users |-> IF u \in Holders(req[r].phone) THEN Resumed(acct[u])
                                                               ELSE acct[u]]
    /\ Continue(r, req[r])
    /\ UNCHANGED <<grantLast, granted, halted, overtaken>>

------------------------------------------------------------------------------
(* The checks *)

Stopped(n) == numberLast[n] = "revoked"

IsNumberStopped(r) ==
    /\ At(r, "isNumberStopped")
    /\ IF Stopped(req[r].phone) THEN End(r) ELSE Continue(r, req[r])
    /\ UNCHANGED <<acct, log>>

\* sendPhoneVerificationCode reads the user again.
StillUnproved(r) ==
    LET a == acct[req[r].user]
    IN  /\ At(r, "unproved")
        /\ IF a.verified /\ a.phone = req[r].phone THEN End(r) ELSE Continue(r, req[r])
        /\ UNCHANGED <<acct, log>>

AssertFlags(r) ==
    LET a == acct[req[r].user]
    IN  /\ At(r, "flags")
        /\ IF a.smsConsent /\ ~a.smsOptedOut THEN Continue(r, req[r]) ELSE End(r)
        /\ UNCHANGED <<acct, log>>

GrantMatches(u, n) == grantLast[u] = n

AssertLatestGrant(r) ==
    /\ At(r, "latestGrant")
    /\ \/ /\ GrantMatches(req[r].user, req[r].phone)
          /\ Continue(r, req[r]) /\ UNCHANGED overtaken
       \/ /\ ~GrantMatches(req[r].user, req[r].phone)
          /\ End(r) /\ overtaken' = overtaken \ {r}
    /\ UNCHANGED <<acct, ledger, halted>>

------------------------------------------------------------------------------
(* Texting, and the rows written around it *)

Text(r) ==
    /\ At(r, "text")
    /\ Continue(r, req[r]) \/ End(r)
    /\ overtaken' = overtaken \ {r}
    /\ UNCHANGED <<acct, ledger, halted>>

StorePhone(r) ==
    /\ At(r, "setPhone") \/ At(r, "store")
    /\ acct' = [acct EXCEPT ![req[r].user].phone = req[r].phone,
                            ![req[r].user].verified = FALSE]
    /\ Continue(r, req[r])
    /\ UNCHANGED log

VerifyPhone(u) ==
    /\ acct[u].joined /\ ~acct[u].verified /\ acct[u].phone # NoPhone
    /\ acct' = [acct EXCEPT ![u].verified = TRUE]
    /\ UNCHANGED <<log, req>>

\* updateProfile neither looks at the log nor records consent.
ChangePhone(u, n) ==
    /\ acct[u].joined /\ acct[u].verified /\ n # acct[u].phone
    /\ acct' = [acct EXCEPT ![u].phone = n, ![u].verified = FALSE]
    /\ UNCHANGED <<log, req>>

Restart ==
    /\ restarts < MaxRestarts
    /\ restarts' = restarts + 1
    /\ req' = [r \in Requests |-> Idle]
    /\ overtaken' = {}
    /\ UNCHANGED <<acct, ledger, halted>>

------------------------------------------------------------------------------

Init ==
    /\ acct = [u \in Users |-> [joined |-> u \notin Newcomers, phone |-> NoPhone,
                                verified |-> FALSE, smsConsent |-> FALSE,
                                smsOptedOut |-> FALSE]]
    /\ numberLast = [n \in Phones |-> "none"]
    /\ grantLast = [u \in Users |-> NoPhone]
    /\ granted = {}
    /\ req = [r \in Requests |-> Idle]
    /\ restarts = 0
    /\ halted = {} /\ overtaken = {}

Arrive(r) ==
    \/ \E u \in Users, n \in Phones :
         \/ Signup(r, u, n) \/ SetActivationPhone(r, u, n)
         \/ SessionSend(r, u, n) \/ ProfileSend(r, u, n)
    \/ \E u \in Users :
         \/ RequestActivationCode(r, u) \/ GrantSmsConsent(r, u)
         \/ WithdrawSmsConsent(r, u) \/ RequestPasswordReset(r, u)
    \/ \E n \in Phones : HandleStart(r, n)

Serve(r) ==
    \/ RecordConsent(r) \/ CaptureConsent(r)
    \/ FindConsentHeld(r) \/ FindGrantOnFile(r) \/ FindGrantIsLatest(r)
    \/ Withdraw(r) \/ FindHolders(r) \/ Resubscribe(r)
    \/ IsNumberStopped(r) \/ StillUnproved(r) \/ AssertFlags(r) \/ AssertLatestGrant(r)
    \/ Text(r) \/ StorePhone(r)

Operate ==
    \/ \E r \in Requests : Arrive(r) \/ Serve(r)
    \/ \E n \in Phones : HandleStop(n)
    \/ \E u \in Users : VerifyPhone(u)
    \/ \E u \in Users, n \in Phones \cup {NoPhone} : ChangePhone(u, n)

Next == (Operate /\ UNCHANGED restarts) \/ Restart

Spec == Init /\ [][Next]_vars

\* The server finishes what it started, and the owner of a number never tires
\* of the way back the messages name: START, then consent in the app (or the
\* button of the activation screen while the number is unverified).
Fairness ==
    \A r \in Requests :
         /\ WF_vars(Serve(r) /\ UNCHANGED restarts)
         /\ \A n \in Phones : SF_vars(HandleStart(r, n) /\ UNCHANGED restarts)
         /\ \A u \in Users :
              /\ SF_vars(GrantSmsConsent(r, u) /\ UNCHANGED restarts)
              /\ SF_vars(RequestActivationCode(r, u) /\ UNCHANGED restarts)

------------------------------------------------------------------------------
(* Properties *)

\* The types of the rows, the log and the requests.
ConsentTypeOK ==
    /\ acct \in [Users -> Account]
    /\ numberLast \in [Phones -> Events]
    /\ grantLast \in [Users -> Phones \cup {NoPhone}]
    /\ granted \subseteq Users \X Phones
    /\ req \in [Requests -> Request]
    /\ restarts \in 0..MaxRestarts
    /\ halted \subseteq Users \X Phones /\ overtaken \subseteq Requests

\* Every text is backed by a consent event of that account for that number,
\* which no STOP and no withdrawal has ended since for that account, START or
\* not and whatever other numbers it agreed to: on every path that texts a code
\* (assertMaySend, sms-consent.service.ts:240-282).  Only a STOP that arrives
\* after the request has read the flags comes too late.
TextsAreBackedByGrant ==
    \A r \in Requests : At(r, "text") =>
        LET c == <<req[r].user, req[r].phone>>
        IN  c \in granted /\ (c \in halted => r \in overtaken)

MaySend(u, n) == acct[u].smsConsent /\ ~acct[u].smsOptedOut /\ grantLast[u] = n

Interference ==
    \/ \E n \in Phones : HandleStop(n)
    \/ \E r \in Requests : Withdraw(r)
    \/ \E u \in Users, n \in Phones \cup {NoPhone} : ChangePhone(u, n)

\* STOP is never a dead end: an owner who keeps replying START and agreeing
\* again is again and again allowed a text, unless stops or changes of number
\* never cease.  recordConsentIfMissing looks at the flag, and not only at the
\* history, for its sake (sms-consent.service.ts:193-199).
ConsentRecoverable ==
    \A u \in Users :
        \/ []<><<Interference>>_vars
        \/ []<>(acct[u].phone = NoPhone \/ MaySend(u, acct[u].phone))

\* Nothing but START ends the stop of a number
\* (users.service.stop-guard.spec.ts:14-15).
StopIsNotUndone ==
    [][\A n \in Phones :
         numberLast[n] = "revoked" => numberLast'[n] \in {"revoked", "resubscribed"}]_vars
==============================================================================
