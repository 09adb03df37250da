\* The worker process as src/app/worker.py starts it: without a session factory.
CONSTANTS
    a1 = a1
    a2 = a2
    None = None
    Admin = admin
    Apps = {x1}
    Agents = {a1, a2}
    Clients = {c1}
    Requests = {r1}
    Workers = {w1}
    Configured = {}
    Urgent = {}
    ForceTargets = {}
    CapChoices = {}
    InitialSettings <- MCOpen
    MaxLog = 4
    MaxEdits = 0
    MaxCrashes = 0
    MaxDay = 0
SPECIFICATION FairSpec
PROPERTIES
    LeavesQueue
CHECK_DEADLOCK FALSE
