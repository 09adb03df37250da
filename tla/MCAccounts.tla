------------------------------ MODULE MCAccounts ------------------------------
(* Operations that do not overlap with others of their kind, in two parts of the *)
(* system that share neither rows nor keys: payments, and accounts with their    *)
(* sessions.  A behaviour of the run belongs to one part, and the other stands   *)
(* still.                                                                       *)
EXTENDS Payments, Sessions, TLC

VARIABLE part

MCInit == part \in {"payments", "sessions"} /\ Init /\ SessionsInit

MCNext ==
    \/ part = "payments" /\ Next /\ UNCHANGED <<sessionVars, part>>
    \/ part = "sessions" /\ SessionsNext /\ UNCHANGED <<vars, part>>

MCSpec == MCInit /\ [][MCNext]_<<vars, sessionVars, part>>

MCSymmetry == Permutations(Tokens)
=============================================================================
