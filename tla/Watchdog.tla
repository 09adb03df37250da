------------------------------- MODULE Watchdog -------------------------------
(***************************************************************************)
(* src/scripts/run_server.py: it starts uvicorn, waits for it to end,      *)
(* pauses and starts it again, until it is told to stop.  A signal runs    *)
(* its handler between any two steps of the loop; sys.exit in a handler    *)
(* ends the loop where it stands, so the loop never sees should_stop set.  *)
(***************************************************************************)
EXTENDS Integers

CONSTANTS
    DoublePress,   \* _DOUBLE_CTRL_C_WINDOW, in ticks
    RestartDelay   \* _RESTART_DELAY, in ticks

ASSUME WatchdogAssumption == DoublePress \in Nat \ {0} /\ RestartDelay \in Nat

VARIABLES
    loop,      \* where main() stands
    sincePress,\* ticks since last_ctrl_c, DoublePress for any longer time
    delay,     \* ticks until the deadline of the pause
    uvicorn,   \* the process started last
    proc,      \* whether the variable of that name holds it already
    endedBy    \* history: what ended the watchdog

watchdogVars == <<loop, sincePress, delay, uvicorn, proc, endedBy>>

-----------------------------------------------------------------------------
\* last_ctrl_c starts at 0.0, long before now.
WatchdogInit ==
    /\ loop = "off" /\ sincePress = DoublePress /\ delay = 0
    /\ uvicorn = "none" /\ proc = FALSE /\ endedBy = "none"

\* Somebody runs the script, and main() has installed its handlers.
Launch ==
    /\ loop = "off"
    /\ loop' = "start"
    /\ UNCHANGED <<sincePress, delay, uvicorn, proc, endedBy>>

Running == loop \notin {"off", "gone"}

Popen ==
    /\ loop = "start"
    /\ loop' = "assign" /\ uvicorn' = "running" /\ proc' = FALSE
    /\ UNCHANGED <<sincePress, delay, endedBy>>

Assign ==
    /\ loop = "assign"
    /\ loop' = "wait" /\ proc' = TRUE
    /\ UNCHANGED <<sincePress, delay, uvicorn, endedBy>>

\* Mutation: the deadline is set anew all the time.
EndlessDelay(d) == d

Passed(d) == IF d > 0 THEN d - 1 ELSE 0

Wait ==
    /\ loop = "wait" /\ uvicorn = "none"
    /\ loop' = "pause" /\ delay' = RestartDelay
    /\ UNCHANGED <<sincePress, uvicorn, proc, endedBy>>

PauseEnds ==
    /\ loop = "pause" /\ delay = 0
    /\ loop' = "start"
    /\ UNCHANGED <<sincePress, delay, uvicorn, proc, endedBy>>

Tick ==
    /\ sincePress' = IF sincePress < DoublePress THEN sincePress + 1 ELSE sincePress
    /\ delay' = Passed(delay)
    /\ UNCHANGED <<loop, uvicorn, proc, endedBy>>

Told(u) == IF u = "running" THEN "ending" ELSE u

\* Mutation: on_exit leaves the process alone.
Untouched(u) == u

\* proc.terminate(), if proc holds a process that runs
Terminated(u) == IF proc THEN Told(u) ELSE u

\* The terminal sends Ctrl+C to the whole group, uvicorn included.
Interrupted(u) == Told(u)

\* on_sigint
CtrlC ==
    /\ Running
    /\ IF sincePress < DoublePress
       THEN /\ loop' = "gone" /\ endedBy' = "press"
            /\ uvicorn' = Terminated(Interrupted(uvicorn))
            /\ UNCHANGED sincePress
       ELSE /\ sincePress' = 0
            /\ uvicorn' = Interrupted(uvicorn)
            /\ UNCHANGED <<loop, endedBy>>
    /\ UNCHANGED <<delay, proc>>

\* on_exit, for SIGTERM and SIGHUP, which reach the watchdog alone
Signalled ==
    /\ Running
    /\ loop' = "gone" /\ endedBy' = "signal"
    /\ uvicorn' = Terminated(uvicorn)
    /\ UNCHANGED <<sincePress, delay, proc>>

\* uvicorn ends when it is told to, and may end by itself.
UvicornEnds ==
    /\ uvicorn # "none"
    /\ uvicorn' = "none"
    /\ UNCHANGED <<loop, sincePress, delay, proc, endedBy>>

WatchdogNext ==
    \/ Launch
    \/ Popen
    \/ Assign
    \/ Wait
    \/ PauseEnds
    \/ Tick
    \/ CtrlC
    \/ Signalled
    \/ UvicornEnds

\* The loop and the clock go on.
WatchdogFairness == WF_watchdogVars(Popen \/ Assign \/ Wait \/ PauseEnds) /\ WF_watchdogVars(Tick)

WatchdogSpec == WatchdogInit /\ [][WatchdogNext]_watchdogVars /\ WatchdogFairness

-----------------------------------------------------------------------------
(* Properties *)

WatchdogTypeOK ==
    /\ loop \in {"off", "start", "assign", "wait", "pause", "gone"}
    /\ sincePress \in 0..DoublePress
    /\ delay \in 0..RestartDelay
    /\ uvicorn \in {"none", "running", "ending"}
    /\ proc \in BOOLEAN
    /\ endedBy \in {"none", "press", "signal"}

\* A watchdog that is gone leaves no server that nobody has told to end, but for a
\* signal that comes when Popen has returned and proc is not assigned yet.
OnlyUnassignedLeft == loop = "gone" /\ uvicorn = "running" => ~proc

\* "Second Ctrl+C within 2 s: stops everything cleanly": whenever the two come.
StopsCleanly == endedBy = "press" => uvicorn # "running"

\* The watchdog ends the server with itself, however it is told to.
EndsServer == WatchdogTypeOK /\ OnlyUnassignedLeft /\ StopsCleanly

\* "Restarts the server automatically on any unexpected exit", however often Ctrl+C
\* is pressed once, unless the watchdog itself is gone.
ServerReturns == Running /\ uvicorn = "none" ~> uvicorn = "running" \/ ~Running
=============================================================================
