-------------------------------- MODULE MCServe --------------------------------
(* What must eventually happen in three parts of the system that share no rows:  *)
(* a case leaves the queue, a start ends, and the server is started again.  A    *)
(* behaviour of the run belongs to one part, and the others stand still.         *)
EXTENDS MCCases, Startup, Watchdog

VARIABLE part

serveVars == <<vars, startupVars, watchdogVars, part>>

MCSeeds == <<"passport-application", "company-registration">>

MCInit ==
    /\ part \in {"cases", "startup", "watchdog"}
    /\ Init /\ StartupInit /\ WatchdogInit

MCNext ==
    \/ part = "cases" /\ Next /\ UNCHANGED <<startupVars, watchdogVars, part>>
    \/ part = "startup" /\ StartupNext /\ UNCHANGED <<vars, watchdogVars, part>>
    \/ part = "watchdog" /\ WatchdogNext /\ UNCHANGED <<vars, startupVars, part>>

\* No fair action of a part is enabled in its initial state, where the part stands
\* still: its fairness asks nothing of the other parts' behaviours.
MCFairSpec ==
    /\ MCInit /\ [][MCNext]_serveVars
    /\ Fairness /\ StartupFairness /\ WatchdogFairness
=============================================================================
