----------------------------- MODULE LoginContract -----------------------------
(***************************************************************************)
(* What a QR login promises to those who wait for it: every scene that is  *)
(* shown to the user comes to one outcome, which never changes, and the    *)
(* outcome is handed out once, to one of those who ask.  How the outcome   *)
(* is found, stored and waited for is the business of QrLogin, which is    *)
(* shown to implement this module.                                         *)
(***************************************************************************)
EXTENDS Naturals

CONSTANT Scenes          \* login attempts, one QR code each

VARIABLES outcome,       \* outcome[s]: "open" until the attempt is decided
          deliveries     \* deliveries[s]: how often it was handed out

vars == <<outcome, deliveries>>

Outcomes == {"Confirmed", "Expired", "Rejected"}

Init ==
    /\ outcome = [s \in Scenes |-> "open"]
    /\ deliveries = [s \in Scenes |-> 0]

Decide(s) ==
    /\ outcome[s] = "open"
    /\ \E result \in Outcomes : outcome' = [outcome EXCEPT ![s] = result]
    /\ UNCHANGED deliveries

Deliver(s) ==
    /\ outcome[s] \in Outcomes
    /\ deliveries[s] = 0
    /\ deliveries' = [deliveries EXCEPT ![s] = 1]
    /\ UNCHANGED outcome

Next == \E s \in Scenes : Decide(s) \/ Deliver(s)

Spec == Init /\ [][Next]_vars
=============================================================================
