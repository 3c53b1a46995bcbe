------------------------------ MODULE PhoneCode ------------------------------
(***************************************************************************)
(* The verification code of one account: texting a code, storing its hash, *)
(* guessing it, with the cooldown, the hourly limit, the expiry and the    *)
(* attempts that throttle them.  Every limit is read with the row and      *)
(* written by a later statement, so concurrent requests share one reading. *)
(*                                                                         *)
(* Instants are kept as ages, in ticks, that stop growing once they no     *)
(* longer matter: Cooldown, CodeTtl and Window stand for the constants     *)
(* PHONE_RESEND_COOLDOWN_SECONDS, PHONE_CODE_EXPIRY_MINUTES and            *)
(* PHONE_SEND_WINDOW_MS, in that order of length.                          *)
(***************************************************************************)
EXTENDS Integers, FiniteSets

CONSTANTS
    Requests,       \* requests the server handles at once
    Codes,          \* enough names for every code stored or in flight
    NoCode,
    MaxAttempts,    \* MAX_PHONE_VERIFICATION_ATTEMPTS
    MaxSends,       \* MAX_PHONE_SENDS_PER_HOUR
    Cooldown, CodeTtl, Window,
    MaxLatency,     \* bound: ticks between a text and the store of its code
    MaxRestarts     \* bound: crashes of the process

ASSUME ThrottleAssumption ==
    /\ NoCode \notin Codes
    /\ IsFiniteSet(Requests)
    /\ MaxAttempts \in Nat \ {0} /\ MaxSends \in Nat \ {0}
    /\ Cooldown \in Nat \ {0} /\ CodeTtl \in Nat \ {0} /\ Window \in Nat \ {0}
    /\ MaxLatency \in Nat /\ MaxRestarts \in Nat

VARIABLES
    acct,       \* the columns of the row that concern the code
    req,        \* what each request in flight has read and does next
    guesses,    \* history: wrong guesses compared with each code
    restarts

vars == <<acct, req, guesses, restarts>>

AttemptsCap == MaxAttempts + Cardinality(Requests)
GuessCap    == MaxAttempts + Cardinality(Requests) * (MaxRestarts + 1)

Account == [verified : BOOLEAN, code : Codes \cup {NoCode}, codeAge : 0..(CodeTtl + 1),
            attempts : 0..AttemptsCap, sinceSent : 0..Cooldown,
            sends : 0..MaxSends, sinceWindow : 0..(Window + 1)]

Idle == [pc |-> "idle", path |-> "activation", code |-> NoCode, codeAge |-> 0,
         newWindow |-> FALSE, sends |-> 0]

Request == [pc : {"idle", "renumber", "send", "store", "miss", "hit"},
            path : {"activation", "profile"},
            code : Codes \cup {NoCode}, codeAge : 0..(CodeTtl + 1),
            newWindow : BOOLEAN, sends : 0..MaxSends]

At(r, s) == req[r].pc = s
End(r) == req' = [req EXCEPT ![r] = Idle]
Goto(r, s, p) == req' = [req EXCEPT ![r].pc = s, ![r].path = p]

Capped(n, max) == IF n < max THEN n + 1 ELSE max

------------------------------------------------------------------------------
(* Texting and storing a code *)

WindowExpired == acct.sinceWindow > Window

\* mutant: the profile path's limits applied to activation too.
WithinCooldown(path) == acct.sinceSent >= Cooldown

\* mutant: the hourly limit forgets to start a new window.
WithinLimitsForever(path) ==
    /\ acct.sinceSent >= Cooldown
    /\ path = "activation" => acct.sends < MaxSends

\* The profile path knows the cooldown only.
WithinLimits(path) ==
    /\ acct.sinceSent >= Cooldown
    /\ path = "activation" => WindowExpired \/ acct.sends < MaxSends

Fresh == Codes \ ({acct.code} \cup {req[r].code : r \in Requests})

\* The checks and the text.  A verified account may send too, to another number
\* than its own: its session by either path.  A refusal or a failure at Twilio
\* leaves nothing behind.
TextCode(r, path) ==
    /\ WithinLimits(path)
    /\ \E c \in Fresh :
         /\ req' = [req EXCEPT ![r] =
               [pc |-> "store", path |-> path, code |-> c, codeAge |-> 0,
                newWindow |-> WindowExpired,
                sends |-> CASE path = "profile" -> 0
                            [] path = "activation" /\ WindowExpired -> 1
                            [] OTHER -> acct.sends + 1]]
         /\ guesses' = [guesses EXCEPT ![c] = 0]
    /\ UNCHANGED <<acct, restarts>>

StartSend(r, path) == At(r, "idle") /\ TextCode(r, path)

SendAfterRenumber(r) ==
    /\ At(r, "send")
    /\ \/ TextCode(r, "activation")
       \/ End(r) /\ UNCHANGED <<acct, guesses, restarts>>

Stored(r) ==
    [acct EXCEPT !.verified = FALSE, !.code = req[r].code,
                 !.codeAge = req[r].codeAge, !.attempts = 0, !.sinceSent = 0,
                 !.sends = IF req[r].path = "profile" THEN @ ELSE req[r].sends,
                 !.sinceWindow = IF req[r].path = "activation" /\ req[r].newWindow
                                 THEN 0 ELSE @]

StoreCode(r) ==
    /\ At(r, "store")
    /\ acct' = Stored(r)
    /\ End(r)
    /\ UNCHANGED <<guesses, restarts>>

\* setActivationPhone: the old code goes with the old number, then a send.
StartRenumber(r) ==
    /\ At(r, "idle") /\ ~acct.verified
    /\ Goto(r, "renumber", "activation")
    /\ UNCHANGED <<acct, guesses, restarts>>

\* mutant: the attempts are cleared, the code is not.
NumberForgottenKeepingCode == [acct EXCEPT !.verified = FALSE, !.attempts = 0]

NumberForgotten ==
    [acct EXCEPT !.verified = FALSE, !.code = NoCode, !.codeAge = 0, !.attempts = 0]

Renumber(r) ==
    /\ At(r, "renumber")
    /\ IF req[r].path = "activation"
       THEN acct' = NumberForgotten /\ Goto(r, "send", "activation")
       ELSE acct' = [NumberForgotten EXCEPT !.sinceSent = Cooldown] /\ End(r)
    /\ UNCHANGED <<guesses, restarts>>

\* updateProfile with another number, behind the gate, also ends the cooldown.
StartProfileChange(r) ==
    /\ At(r, "idle") /\ acct.verified
    /\ Goto(r, "renumber", "profile")
    /\ UNCHANGED <<acct, guesses, restarts>>

------------------------------------------------------------------------------
(* Guessing a code *)

AcceptsGuess ==
    /\ ~acct.verified
    /\ acct.code # NoCode
    /\ acct.attempts < MaxAttempts
    /\ acct.codeAge <= CodeTtl

\* What outstandingPhoneCode tells the activation screen.
Outstanding ==
    /\ acct.code # NoCode
    /\ acct.codeAge < CodeTtl
    /\ acct.attempts < MaxAttempts

GuessRight(r) ==
    /\ At(r, "idle") /\ AcceptsGuess
    /\ Goto(r, "hit", "activation")
    /\ UNCHANGED <<acct, guesses, restarts>>

GuessWrong(r) ==
    /\ At(r, "idle") /\ AcceptsGuess
    /\ Goto(r, "miss", "activation")
    /\ guesses' = [guesses EXCEPT ![acct.code] = Capped(@, GuessCap)]
    /\ UNCHANGED <<acct, restarts>>

CountMiss(r) ==
    /\ At(r, "miss")
    /\ acct' = [acct EXCEPT !.attempts = Capped(@, AttemptsCap)]
    /\ End(r)
    /\ UNCHANGED <<guesses, restarts>>

\* mutant: the account is verified and its code left in place.
VerifiedKeepingCode == [acct EXCEPT !.verified = TRUE, !.attempts = 0]

Verified == [acct EXCEPT !.verified = TRUE, !.code = NoCode, !.codeAge = 0, !.attempts = 0]

Verify(r) ==
    /\ At(r, "hit")
    /\ acct' = Verified
    /\ End(r)
    /\ UNCHANGED <<guesses, restarts>>

------------------------------------------------------------------------------

Tick ==
    /\ \A r \in Requests : At(r, "store") => req[r].codeAge < MaxLatency
    /\ acct' = [acct EXCEPT !.codeAge = IF acct.code = NoCode THEN 0
                                        ELSE Capped(@, CodeTtl + 1),
                            !.sinceSent = Capped(@, Cooldown),
                            !.sinceWindow = Capped(@, Window + 1)]
    /\ req' = [r \in Requests |->
                 [req[r] EXCEPT !.codeAge = IF At(r, "store")
                                            THEN Capped(@, CodeTtl + 1) ELSE 0]]
    /\ UNCHANGED <<guesses, restarts>>

Restart ==
    /\ restarts < MaxRestarts
    /\ restarts' = restarts + 1
    /\ req' = [r \in Requests |-> Idle]
    /\ UNCHANGED <<acct, guesses>>

Init ==
    /\ acct = [verified |-> FALSE, code |-> NoCode, codeAge |-> 0, attempts |-> 0,
               sinceSent |-> Cooldown, sends |-> 0, sinceWindow |-> Window + 1]
    /\ req = [r \in Requests |-> Idle]
    /\ guesses = [c \in Codes |-> 0]
    /\ restarts = 0

Serve(r) ==
    SendAfterRenumber(r) \/ StoreCode(r) \/ Renumber(r) \/ CountMiss(r) \/ Verify(r)

Arrive(r) ==
    \/ StartSend(r, "activation") \/ StartSend(r, "profile")
    \/ StartRenumber(r) \/ StartProfileChange(r)
    \/ GuessRight(r) \/ GuessWrong(r)

Next == \/ \E r \in Requests : Arrive(r) \/ Serve(r)
        \/ Tick \/ Restart

Spec == Init /\ [][Next]_vars

\* The server finishes what it started and time goes by; a user who is not let
\* in keeps asking for a code and typing it, and Twilio does not fail for ever.
Fairness ==
    /\ WF_vars(Tick)
    /\ \A r \in Requests :
         /\ WF_vars(Serve(r))
         /\ SF_vars(~acct.verified /\ StartSend(r, "activation"))
         /\ SF_vars(GuessRight(r))

------------------------------------------------------------------------------
(* Properties *)

\* The types of the row, the requests and the histories.
TypeOK ==
    /\ acct \in Account
    /\ req \in [Requests -> Request]
    /\ guesses \in [Codes -> 0..GuessCap]
    /\ restarts \in 0..MaxRestarts

\* However the guesses interleave with resends and changes of number, a code
\* is compared with at most MaxAttempts wrong guesses, plus one for each other
\* request that had read the row before the last of them was counted, plus
\* those a crash left uncounted.
GuessesPerCodeBounded ==
    acct.code # NoCode =>
        guesses[acct.code] <=
            MaxAttempts - 1 + Cardinality(Requests) * (restarts + 1)

\* A code reported as outstanding is one that would be accepted
\* (auth.service.ts:298-299), though the report does not look at the verified
\* flag: no stored code survives a verification.
OutstandingIsAccepted == Outstanding => AcceptsGuess

\* The code keeps the promise of a one-time code: wrong guesses that race with
\* resends and changes of number never exceed what one code allows, and only a
\* new code allows more.
Once == INSTANCE OneTimeCode WITH
    InFlight <- Cardinality(Requests), code <- acct.code, crashes <- restarts,
    misses <- IF acct.code = NoCode THEN 0 ELSE guesses[acct.code]
PhoneCodeIsOneTime == Once!Spec

\* The throttles delay a user and never lock one out: misses, exhausted
\* attempts, a full window and expiry are all left behind by asking again.
NoPermanentLockout == ~acct.verified ~> acct.verified
==============================================================================
