------------------------------ MODULE MCReports ------------------------------
(* Instances of Payments and Deadlines for TLC.  They share no rows: a         *)
(* behaviour of the run belongs to one of them, and the other stands still.    *)
EXTENDS MCPayments, Deadlines

VARIABLE part

reportVars == <<vars, deadlineVars, part>>

MCInit ==
    /\ part \in {"payments", "deadlines"}
    /\ Init /\ DeadlinesInit

MCNext ==
    \/ part = "payments" /\ Next /\ UNCHANGED <<deadlineVars, part>>
    \/ part = "deadlines" /\ DeadlinesNext /\ UNCHANGED <<vars, part>>

MCReportsSpec == MCInit /\ [][MCNext]_reportVars
=============================================================================
