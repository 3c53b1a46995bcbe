------------------------------- MODULE TellOnce -------------------------------
(***************************************************************************)
(* What the notifications of new overlaps promise: a user is told of an    *)
(* overlap of two names only after it was claimed for that user, by one    *)
(* batch of notifications at most, which holds no more of them than there  *)
(* may be pairs of accounts with these names; and claims are never given   *)
(* back.  OverlapNotifications implements this.                            *)
(***************************************************************************)
EXTENDS Naturals

CONSTANTS
    Claims,
    Copies      \* the most notifications that a batch holds for each claim

VARIABLES claimed, told

vars == <<claimed, told>>

Claim(c) ==
    /\ c \notin claimed
    /\ claimed' = claimed \cup {c}
    /\ UNCHANGED told

Tell ==
    /\ told' \in [Claims -> Nat]
    /\ \A c \in Claims : told'[c] # told[c] =>
          told[c] = 0 /\ c \in claimed /\ told'[c] <= Copies[c]
    /\ UNCHANGED claimed

Init == claimed = {} /\ told = [c \in Claims |-> 0]

Next == (\E c \in Claims : Claim(c)) \/ Tell

Spec == Init /\ [][Next]_vars
==============================================================================
