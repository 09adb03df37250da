\* One API session, one worker session, no crash: the job always serves the case.
\* Two servers and two runs of the script start; the watchdog is sent every signal.
CONSTANTS
    a1 = a1
    a2 = a2
    None = None
    Admin = admin
    Apps = {x1}
    Agents = {a1, a2}
    Clients = {c1}
    Requests = {r1}
    Workers = {w1}
    Configured = {w1}
    Urgent = {}
    ForceTargets = {}
    CapChoices = {}
    InitialSettings <- MCOpen
    MaxLog = 4
    MaxEdits = 0
    MaxCrashes = 0
    MaxDay = 0
    Servers = {p1, p2}
    Seeders = {d1, d2}
    Authors = {}
    Slugs = {"passport-application", "company-registration"}
    Seeds <- MCSeeds
    Nil = nobody
    MaxFaults = 0
    DoublePress = 2
    RestartDelay = 2
SPECIFICATION MCFairSpec
INVARIANTS
    EndsServer
PROPERTIES
    LeavesQueue
    ServerReturns
    BootEnds
CHECK_DEADLOCK FALSE
