-------------------------------- MODULE MCStaff --------------------------------
(* Sessions that overlap freely, in three parts of the system that share no rows *)
(* here: the cases, the scores by which agents are picked, and what processes    *)
(* put into an empty database.  A behaviour of the run belongs to one part, and  *)
(* the others stand still.                                                       *)
EXTENDS MCCases, Scoring, Startup

VARIABLE part

MCSeeds == <<"passport-application", "company-registration">>

MCInit ==
    /\ part \in {"cases", "scoring", "startup"}
    /\ Init
    /\ ScoringInit /\ (part # "scoring" => \A a \in Staff : cap[a] = Unset /\ skill[a] = Unset
                                                             /\ rate[a] = Unset)
    /\ StartupInit

MCNext ==
    \/ part = "cases" /\ Next /\ UNCHANGED <<scoringVars, startupVars, part>>
    \/ part = "scoring" /\ ScoringNext /\ UNCHANGED <<vars, startupVars, part>>
    \/ part = "startup" /\ StartupNext /\ UNCHANGED <<vars, scoringVars, part>>

MCSpec == MCInit /\ [][MCNext]_<<vars, scoringVars, startupVars, part>>

MCStaffSymmetry == Permutations(Agents \cup Staff) \cup Permutations(Requests)
=============================================================================
