------------------------------- MODULE MCSerial -------------------------------
(* Operations that do not overlap with others of their kind, in two parts of the *)
(* system that share neither rows nor keys: cases, and one-time codes.  A        *)
(* behaviour of the run belongs to one part, and the other stands still.         *)
EXTENDS MCCases, Challenges

VARIABLE part

MCInit == part \in {"cases", "challenges"} /\ Init /\ ChallengesInit

MCNext ==
    \/ part = "cases" /\ Next /\ UNCHANGED <<otpVars, part>>
    \/ part = "challenges" /\ ChallengesNext /\ UNCHANGED <<vars, part>>

MCSpec == MCInit /\ [][MCNext]_<<vars, otpVars, part>>
=============================================================================
