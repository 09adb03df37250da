\* No overlap at all: one session slot serves requests and jobs.
CONSTANTS
    a1 = a1
    a2 = a2
    None = None
    Admin = admin
    Apps = {x1}
    Agents = {a1, a2}
    Clients = {c1}
    Requests = {s1}
    Workers = {s1}
    Configured = {s1}
    Urgent = {}
    ForceTargets = {}
    CapChoices = {}
    InitialSettings <- MCOpen
    MaxLog = 4
    MaxEdits = 0
    MaxCrashes = 0
    MaxDay = 0
SPECIFICATION Spec
PROPERTIES
    OpenCasesAutoAssigned
CHECK_DEADLOCK FALSE
