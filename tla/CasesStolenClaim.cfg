\* The job overlaps an agent's claim.
CONSTANTS
    a1 = a1
    a2 = a2
    None = None
    Admin = admin
    Apps = {x1}
    Agents = {a1, a2}
    Clients = {c1}
    Requests = {r1}
    Workers = {w1}
    Configured = {w1}
    Urgent = {}
    ForceTargets = {}
    CapChoices = {}
    InitialSettings <- MCOpen
    MaxLog = 4
    MaxEdits = 0
    MaxCrashes = 0
    MaxDay = 0
SPECIFICATION Spec
PROPERTIES
    JobTakesUnassigned
CHECK_DEADLOCK FALSE
