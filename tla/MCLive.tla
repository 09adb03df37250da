-------------------------------- MODULE MCLive --------------------------------
(* What must eventually happen, in four parts of the system that share neither *)
(* rows nor keys: a behaviour of the run belongs to one of them, and the other  *)
(* three stand still.                                                          *)
EXTENDS Payments, Throttle, Maintenance, Broadcasts, TLC

VARIABLE part

liveVars == <<vars, throttleVars, flagVars, broadcastVars, part>>

MCInit ==
    /\ part \in {"payments", "throttle", "maintenance", "broadcasts"}
    /\ Init /\ ThrottleInit /\ MaintenanceInit /\ BroadcastsInit

MCNext ==
    \/ part = "payments" /\ Next /\ UNCHANGED <<throttleVars, flagVars, broadcastVars, part>>
    \/ part = "throttle" /\ ThrottleNext /\ UNCHANGED <<vars, flagVars, broadcastVars, part>>
    \/ part = "maintenance" /\ MaintenanceNext /\ UNCHANGED <<vars, throttleVars, broadcastVars, part>>
    \/ part = "broadcasts" /\ BroadcastsNext /\ UNCHANGED <<vars, throttleVars, flagVars, part>>

\* The fair actions of a part that stands still in its initial state are disabled.
MCLiveSpec ==
    /\ MCInit /\ [][MCNext]_liveVars
    /\ Fairness /\ ThrottleFairness /\ MaintenanceFairness /\ BroadcastsFairness
=============================================================================
