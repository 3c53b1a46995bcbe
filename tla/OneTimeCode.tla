------------------------------ MODULE OneTimeCode ------------------------------
(***************************************************************************)
(* What a code sent by text message promises, whichever flow sends it: at  *)
(* most one code counts, a new one replaces it, and the wrong guesses it   *)
(* allows are limited for as long as it counts.  The requests in flight    *)
(* share the limit, and those a crash interrupts are not counted.          *)
(* PhoneCode and PasswordReset implement this.                             *)
(***************************************************************************)
EXTENDS Integers

CONSTANTS Codes, NoCode, MaxAttempts, InFlight

VARIABLES
    code,       \* the code that counts
    misses,     \* wrong guesses it was compared with
    crashes     \* interruptions of the server

vars == <<code, misses, crashes>>

Allowed == MaxAttempts - 1 + InFlight * (crashes + 1)

Issue(c) ==
    /\ c # code
    /\ code' = c /\ misses' = 0
    /\ UNCHANGED crashes

Miss ==
    /\ code # NoCode /\ misses < Allowed
    /\ misses' = misses + 1
    /\ UNCHANGED <<code, crashes>>

\* Redeemed, or withdrawn with the number it was sent to.
Clear ==
    /\ code # NoCode
    /\ code' = NoCode /\ misses' = 0
    /\ UNCHANGED crashes

Crash == crashes' = crashes + 1 /\ UNCHANGED <<code, misses>>

Init == code = NoCode /\ misses = 0 /\ crashes = 0

Next == (\E c \in Codes : Issue(c)) \/ Miss \/ Clear \/ Crash

Spec == Init /\ [][Next]_vars
==============================================================================
