------------------------------- MODULE Recovery -------------------------------
(***************************************************************************)
(* The ways out: what trying again must repair -- verifying a number,      *)
(* resetting a password, consenting after a STOP, following an invitation, *)
(* looking at the overlaps.  The flows write different columns and tables  *)
(* and refuse one another only by the consent gate, a free choice in each  *)
(* of them, so that each behaviour here runs one of them and leaves the    *)
(* others as they started.                                                 *)
(***************************************************************************)
EXTENDS Integers

CONSTANTS
    Requests, MaxRestarts,                      \* shared by the flows but the last
    Codes, NoCode, MaxAttempts, MaxSends,       \* the two kinds of code
    Cooldown, CodeTtl, Window, MaxLatency,
    Owners, Newcomers, Phones, NoPhone,         \* consent
    People, NoUser, Conns, NoConn,              \* invitations
    InviteIds, NoInvite, DailyLimit,
    Lookers, Lists, Name, Matching, MaxChanges  \* overlaps of a connection

VARIABLES
    flow,
    phoneAcct, phoneReq, phoneGuesses, phoneRestarts,
    resetAcct, resetReq, texted, resetGuesses, resets, forgotten, resetRestarts,
    consentAcct, numberLast, grantLast, granted, consentReq, consentRestarts,
    halted, overtaken,
    joined, conn, invite, inviteReq, offered, taken, met, inviteRestarts,
    list, decision, row, claimed, told, overlapReq, hushed, owed, changes

Phone == INSTANCE PhoneCode WITH
    acct <- phoneAcct, req <- phoneReq, guesses <- phoneGuesses, restarts <- phoneRestarts

Reset == INSTANCE PasswordReset WITH
    acct <- resetAcct, req <- resetReq, guesses <- resetGuesses, restarts <- resetRestarts

Consent == INSTANCE SmsConsent WITH
    Users <- Owners, acct <- consentAcct, req <- consentReq, restarts <- consentRestarts

Invitation == INSTANCE Invites WITH
    Users <- People, req <- inviteReq, restarts <- inviteRestarts

Overlap == INSTANCE OverlapNotifications WITH Requests <- Lookers, req <- overlapReq

phoneVars   == <<phoneAcct, phoneReq, phoneGuesses, phoneRestarts>>
resetVars   == <<resetAcct, resetReq, texted, resetGuesses, resets, forgotten, resetRestarts>>
consentVars == <<consentAcct, numberLast, grantLast, granted, consentReq, consentRestarts,
                 halted, overtaken>>
inviteVars  == <<joined, conn, invite, inviteReq, offered, taken, met, inviteRestarts>>
overlapVars == <<list, decision, row, claimed, told, overlapReq, hushed, owed, changes>>
vars == <<flow, phoneVars, resetVars, consentVars, inviteVars, overlapVars>>

Init ==
    /\ flow \in {"phone", "reset", "consent", "invitation", "overlaps"}
    /\ Phone!Init /\ Reset!Init /\ Consent!Init /\ Invitation!Init
    /\ Overlap!Init
    /\ flow # "overlaps" => list = [s \in Overlap!Sides |-> {}]

VerifyNumber ==
    /\ flow = "phone" /\ Phone!Next
    /\ UNCHANGED <<flow, resetVars, consentVars, inviteVars, overlapVars>>

ResetPassword ==
    /\ flow = "reset" /\ Reset!Next
    /\ UNCHANGED <<flow, phoneVars, consentVars, inviteVars, overlapVars>>

ConsentAgain ==
    /\ flow = "consent" /\ Consent!Next
    /\ UNCHANGED <<flow, phoneVars, resetVars, inviteVars, overlapVars>>

FollowInvitation ==
    /\ flow = "invitation" /\ Invitation!Next
    /\ UNCHANGED <<flow, phoneVars, resetVars, consentVars, overlapVars>>

LookAtOverlaps ==
    /\ flow = "overlaps" /\ Overlap!Next
    /\ UNCHANGED <<flow, phoneVars, resetVars, consentVars, inviteVars>>

Next == VerifyNumber \/ ResetPassword \/ ConsentAgain \/ FollowInvitation \/ LookAtOverlaps

Spec == Init /\ [][Next]_vars

------------------------------------------------------------------------------
(* Properties *)

\* Cooldown, hourly limit, attempts and expiry delay the verification of a
\* number and never prevent it.
NumberCanBeVerified ==
    flow = "phone" /\ Phone!Fairness => Phone!NoPermanentLockout

\* Wrong guesses, lost texts and expired codes never keep the owner of an
\* account from changing a forgotten password.
PasswordCanBeReset ==
    flow = "reset" /\ Reset!Fairness => Reset!ResetAlwaysPossible

\* STOP is never a dead end for an owner who replies START and agrees again.
ConsentCanBeGivenAgain ==
    flow = "consent" /\ Consent!Fairness => Consent!ConsentRecoverable

\* The link of an invited person who signed up stops being pending, whatever
\* crash came between the connection and the mark on the invitation.
InvitationCompletes ==
    flow = "invitation" /\ Invitation!Fairness => Invitation!InviteResolves

\* Whatever count two looks, a mute, a decision, a list published between their
\* readings or a crash left on the connection, users who keep looking correct
\* it, as far as their own counts agree.
ObservedCountCatchesUp ==
    flow = "overlaps" /\ Overlap!Fairness => Overlap!ObservedCatchesUp
==============================================================================
