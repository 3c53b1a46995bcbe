---------------------------- MODULE PasswordReset ----------------------------
(***************************************************************************)
(* Password reset by a texted code, for one account with a verified        *)
(* number.  Unlike the code of PhoneCode this one is stored before it is   *)
(* texted, and a right guess is followed by two writes: the password with  *)
(* the columns of the code cleared, then the columns of the code again.    *)
(*                                                                         *)
(* Instants are ages in ticks that stop growing once they no longer        *)
(* matter: Cooldown is RESEND_COOLDOWN_SECONDS, CodeTtl is                 *)
(* PHONE_CODE_EXPIRY_MINUTES.                                              *)
(***************************************************************************)
EXTENDS Integers, FiniteSets

CONSTANTS
    Requests,       \* requests the server handles at once
    Codes,          \* enough names for every code stored, texted or in flight
    NoCode,
    MaxAttempts,    \* MAX_PASSWORD_RESET_ATTEMPTS
    Cooldown, CodeTtl,
    MaxLatency,     \* bound: age of a code when Twilio takes its text
    MaxRestarts     \* bound: crashes of the process

\* What the constants have to be; assumed by the module that instantiates this one.
ResetAssumption ==
    /\ NoCode \notin Codes
    /\ IsFiniteSet(Requests)
    /\ MaxAttempts \in Nat \ {0}
    /\ Cooldown \in Nat \ {0} /\ CodeTtl \in Nat \ {0}
    /\ MaxLatency \in Nat /\ MaxRestarts \in Nat

VARIABLES
    acct,       \* the columns of the row that concern the reset
    req,        \* what each request in flight has read and does next
    texted,     \* the codes the handset received
    guesses,    \* history: wrong guesses compared with each code
    resets,     \* history: password changes each code bought
    forgotten,  \* the owner does not know the password
    restarts

vars == <<acct, req, texted, guesses, resets, forgotten, restarts>>
history == <<texted, guesses, resets, forgotten, restarts>>

InFlight    == Cardinality(Requests)
AttemptsCap == MaxAttempts + InFlight
GuessCap    == MaxAttempts + InFlight * (MaxRestarts + 1)

Account == [code : Codes \cup {NoCode}, codeAge : 0..(CodeTtl + 1),
            attempts : 0..AttemptsCap, sinceRequest : 0..Cooldown]

Request == [pc : {"idle", "consent", "store", "text", "miss", "setPassword", "burn"},
            code : Codes \cup {NoCode}]

Idle == [pc |-> "idle", code |-> NoCode]

At(r, s) == req[r].pc = s
End(r) == req' = [req EXCEPT ![r] = Idle]
Goto(r, s, c) == req' = [req EXCEPT ![r] = [pc |-> s, code |-> c]]

Capped(n, max) == IF n < max THEN n + 1 ELSE max

------------------------------------------------------------------------------
(* requestPasswordReset *)

RequestPasswordReset(r) ==
    /\ At(r, "idle")
    /\ acct.sinceRequest >= Cooldown
    /\ Goto(r, "consent", NoCode)
    /\ UNCHANGED <<acct, history>>

\* assertMaySend: module SmsConsent.
AssertMaySend(r) ==
    /\ At(r, "consent")
    /\ Goto(r, "store", NoCode) \/ End(r)
    /\ UNCHANGED <<acct, history>>

InUse == {acct.code} \cup {req[r].code : r \in Requests}

\* mutant: the attempts of the previous code count against the new one.
IssuedKeepingAttempts(c) ==
    [acct EXCEPT !.code = c, !.codeAge = 0, !.sinceRequest = 0]

Issued(c) ==
    [code |-> c, codeAge |-> 0, attempts |-> 0, sinceRequest |-> 0]

StoreCode(r) ==
    /\ At(r, "store")
    /\ \E c \in Codes \ InUse :
         /\ acct' = Issued(c)
         /\ Goto(r, "text", c)
         /\ texted' = texted \ {c}
         /\ guesses' = [guesses EXCEPT ![c] = 0]
         /\ resets' = [resets EXCEPT ![c] = 0]
    /\ UNCHANGED <<forgotten, restarts>>

TextDelivered(r) ==
    /\ At(r, "text")
    /\ texted' = texted \cup {req[r].code}
    /\ End(r)
    /\ UNCHANGED <<acct, guesses, resets, forgotten, restarts>>

\* A failure at Twilio is swallowed: code and cooldown stay as stored.
TextFailed(r) == At(r, "text") /\ End(r) /\ UNCHANGED <<acct, history>>

------------------------------------------------------------------------------
(* resetPassword *)

\* mutant: one attempt too many.
AcceptsOneGuessMore ==
    acct.code # NoCode /\ acct.attempts <= MaxAttempts /\ acct.codeAge <= CodeTtl

AcceptsGuess ==
    acct.code # NoCode /\ acct.attempts < MaxAttempts /\ acct.codeAge <= CodeTtl

GuessRight(r) ==
    /\ At(r, "idle") /\ AcceptsGuess
    /\ acct.code \in texted
    /\ Goto(r, "setPassword", acct.code)
    /\ UNCHANGED <<acct, history>>

GuessWrong(r) ==
    /\ At(r, "idle") /\ AcceptsGuess
    /\ Goto(r, "miss", NoCode)
    /\ guesses' = [guesses EXCEPT ![acct.code] = Capped(@, GuessCap)]
    /\ UNCHANGED <<acct, texted, resets, forgotten, restarts>>

CountMiss(r) ==
    /\ At(r, "miss")
    /\ acct' = [acct EXCEPT !.attempts = Capped(@, AttemptsCap)]
    /\ End(r)
    /\ UNCHANGED history

\* mutant: updatePassword leaves the code to the write that follows it.
CodeLeftToBurn == acct

\* mutant: an attempt is given back instead of the count being cleared.
CodeClearedGivingBack ==
    [acct EXCEPT !.code = NoCode, !.codeAge = 0, !.attempts = @ - 1]

CodeCleared == [acct EXCEPT !.code = NoCode, !.codeAge = 0, !.attempts = 0]

\* updatePassword clears the columns of the code with the same statement.
UpdatePassword(r) ==
    /\ At(r, "setPassword")
    /\ acct' = CodeCleared
    /\ Goto(r, "burn", req[r].code)
    /\ resets' = [resets EXCEPT ![req[r].code] = Capped(@, InFlight + 1)]
    /\ forgotten' = FALSE
    /\ UNCHANGED <<texted, guesses, restarts>>

\* By the id of the account, whatever code the row holds by now.
BurnCode(r) ==
    /\ At(r, "burn")
    /\ acct' = [acct EXCEPT !.code = NoCode, !.codeAge = 0, !.attempts = 0]
    /\ End(r)
    /\ UNCHANGED history

------------------------------------------------------------------------------

Forget == forgotten' = TRUE /\ UNCHANGED <<acct, req, texted, guesses, resets, restarts>>

Tick ==
    /\ \A r \in Requests :
         At(r, "text") /\ req[r].code = acct.code => acct.codeAge < MaxLatency
    /\ acct' = [acct EXCEPT !.codeAge = IF acct.code = NoCode THEN 0
                                        ELSE Capped(@, CodeTtl + 1),
                            !.sinceRequest = Capped(@, Cooldown)]
    /\ UNCHANGED <<req, history>>

Restart ==
    /\ restarts < MaxRestarts
    /\ restarts' = restarts + 1
    /\ req' = [r \in Requests |-> Idle]
    /\ UNCHANGED <<acct, texted, guesses, resets, forgotten>>

Init ==
    /\ acct = [code |-> NoCode, codeAge |-> 0, attempts |-> 0, sinceRequest |-> Cooldown]
    /\ req = [r \in Requests |-> Idle]
    /\ texted = {}
    /\ guesses = [c \in Codes |-> 0]
    /\ resets = [c \in Codes |-> 0]
    /\ forgotten = TRUE
    /\ restarts = 0

Serve(r) ==
    \/ AssertMaySend(r) \/ StoreCode(r) \/ TextDelivered(r) \/ TextFailed(r)
    \/ CountMiss(r) \/ UpdatePassword(r) \/ BurnCode(r)

Next ==
    \/ \E r \in Requests :
         RequestPasswordReset(r) \/ GuessRight(r) \/ GuessWrong(r) \/ Serve(r)
    \/ Forget \/ Tick \/ Restart

Spec == Init /\ [][Next]_vars

\* The server finishes what it started and time goes by; an owner who forgot
\* the password keeps asking for a code and typing the one received, consent
\* is held, and Twilio does not fail for ever.
Fairness ==
    /\ WF_vars(Tick)
    /\ \A r \in Requests :
         /\ WF_vars(Serve(r))
         /\ SF_vars(RequestPasswordReset(r))
         /\ SF_vars(AssertMaySend(r) /\ Goto(r, "store", NoCode))
         /\ SF_vars(TextDelivered(r))
         /\ SF_vars(GuessRight(r))

------------------------------------------------------------------------------
(* Properties *)

\* The types of the row, the requests and the histories.
TypeOK ==
    /\ acct \in Account
    /\ req \in [Requests -> Request]
    /\ texted \subseteq Codes
    /\ guesses \in [Codes -> 0..GuessCap]
    /\ resets \in [Codes -> 0..(InFlight + 1)]
    /\ forgotten \in BOOLEAN
    /\ restarts \in 0..MaxRestarts

\* A code is spent by the write that changes the password, and not only by the
\* burn after it: a crash between the two does not let it be used again.  Only
\* requests that had read the code before that write can still succeed.
ReplaysOnlyInFlight == \A c \in Codes : resets[c] <= InFlight

\* The code keeps the promise of a one-time code, though it is stored before it
\* is texted and cleared by two writes.
Once == INSTANCE OneTimeCode WITH
    code <- acct.code, crashes <- restarts,
    misses <- IF acct.code = NoCode THEN 0 ELSE guesses[acct.code]
ResetCodeIsOneTime == Once!Spec

\* An owner who forgot the password always gets to change it: wrong guesses,
\* lost texts and expired codes are left behind by asking again.
ResetAlwaysPossible == forgotten ~> ~forgotten
==============================================================================
