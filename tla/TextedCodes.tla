------------------------------ MODULE TextedCodes ------------------------------
(***************************************************************************)
(* What is texted to a user: the verification code of PhoneCode and the    *)
(* code of PasswordReset, side by side, and the consent of SmsConsent on   *)
(* which both are sent.  The codes live in different columns and no        *)
(* handler writes both; of consent the two know only whether a text is     *)
(* refused.  So each behaviour runs one of the three and leaves the others *)
(* as they started.                                                        *)
(***************************************************************************)
EXTENDS PhoneCode

CONSTANTS
    Users, Newcomers, Phones, NoPhone,
    ConsentRequests     \* requests about consent that the server handles at once

VARIABLES
    flow,
    resetAcct, resetReq, texted, resetGuesses, resets, forgotten, resetRestarts,
    consentAcct, numberLast, grantLast, granted, consentReq, consentRestarts, halted, overtaken

Reset == INSTANCE PasswordReset WITH
    acct <- resetAcct, req <- resetReq, guesses <- resetGuesses, restarts <- resetRestarts

Consent == INSTANCE SmsConsent WITH
    acct <- consentAcct, req <- consentReq, restarts <- consentRestarts,
    Requests <- ConsentRequests

ASSUME ResetAssumed == Reset!ResetAssumption
ASSUME ConsentAssumed == Consent!ConsentAssumption

resetVars == <<resetAcct, resetReq, texted, resetGuesses, resets, forgotten, resetRestarts>>
consentVars ==
    <<consentAcct, numberLast, grantLast, granted, consentReq, consentRestarts, halted, overtaken>>
allVars   == <<flow, vars, resetVars, consentVars>>

TextedInit ==
    /\ flow \in {"phone", "reset", "consent"}
    /\ Init /\ Reset!Init /\ Consent!Init

VerifyNumber  == flow = "phone" /\ Next /\ UNCHANGED <<flow, resetVars, consentVars>>
ResetPassword == flow = "reset" /\ Reset!Next /\ UNCHANGED <<flow, vars, consentVars>>
GiveConsent   == flow = "consent" /\ Consent!Next /\ UNCHANGED <<flow, vars, resetVars>>

TextedSpec == TextedInit /\ [][VerifyNumber \/ ResetPassword \/ GiveConsent]_allVars

------------------------------------------------------------------------------
(* Properties *)

\* The types of the row, the requests and the histories of a password reset.
ResetTypeOK == Reset!TypeOK

\* A code is spent by the write that changes the password: only requests that
\* had read it before can still succeed with it.
ReplaysOnlyInFlight == Reset!ReplaysOnlyInFlight

\* The code of a password reset keeps the promise of a one-time code as well:
\* what races with a guess never adds to the guesses one code allows.
ResetIsOneTime == Reset!ResetCodeIsOneTime

\* The types of the accounts, the log and the requests of consent.
ConsentTypeOK == Consent!ConsentTypeOK

\* On every path that texts a code, the account has agreed to that number and
\* nothing has ended it since, unless a STOP overtook the request.
TextsAreBackedByGrant == Consent!TextsAreBackedByGrant
==============================================================================
