------------------------------ MODULE Settlement ------------------------------
(***************************************************************************)
(* What the payments component promises: a payment is opened for one       *)
(* application, is then either paid or expired, once, and paying it is     *)
(* what marks the application as paid.                                     *)
(***************************************************************************)
CONSTANTS Apps, Payments, None

VARIABLES
    outcome,   \* none, open, paid or expired, for each payment
    billed,    \* the application a payment is for
    settled    \* the applications marked as paid

settlement == <<outcome, billed, settled>>

Init ==
    /\ outcome = [p \in Payments |-> "none"]
    /\ billed = [p \in Payments |-> None]
    /\ settled = {}

Open(p, x) ==
    /\ outcome[p] = "none"
    /\ outcome' = [outcome EXCEPT ![p] = "open"]
    /\ billed' = [billed EXCEPT ![p] = x]
    /\ UNCHANGED settled

\* Confirming a payment again changes nothing.
Pay(p) ==
    /\ outcome[p] \in {"open", "paid"}
    /\ outcome' = [outcome EXCEPT ![p] = "paid"]
    /\ settled' = settled \cup {billed[p]}
    /\ UNCHANGED billed

Expire(p) ==
    /\ outcome[p] \in {"open", "expired"}
    /\ outcome' = [outcome EXCEPT ![p] = "expired"]
    /\ UNCHANGED <<billed, settled>>

Next ==
    \E p \in Payments : (\E x \in Apps : Open(p, x)) \/ Pay(p) \/ Expire(p)

Spec == Init /\ [][Next]_settlement
=============================================================================
