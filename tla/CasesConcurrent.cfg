\* Two API sessions and one worker session overlap freely on one case; the
\* administrator may force a case open or shut.  Two sessions score at the same
\* time; two servers and two runs of the script start on an empty database.
CONSTANTS
    a1 = a1
    a2 = a2
    None = None
    Admin = admin
    Apps = {x1}
    Agents = {a1, a2}
    Clients = {c1}
    Requests = {r1, r2}
    Workers = {w1, w2}
    Configured = {w1}
    Urgent = {}
    ForceTargets = {"in_progress"}
    CapChoices = {}
    InitialSettings <- MCOpen
    MaxLog = 4
    MaxEdits = 0
    MaxCrashes = 1
    MaxDay = 0
    Staff = {a1, a2}
    Scorers = {s1, s2}
    Caps = {1}
    Levels = {1, 2}
    Rates = {0}
    Unset = unset
    MaxScored = 3
    MaxMoves = 1
    Servers = {p1, p2}
    Seeders = {d1, d2}
    Authors = {u1}
    Slugs = {"passport-application", "company-registration"}
    Seeds <- MCSeeds
    Nil = nobody
    MaxFaults = 1
SPECIFICATION MCSpec
SYMMETRY MCStaffSymmetry
INVARIANTS
    CasesAgree
    AssignedLeavesQueue
    CapHolds
    PicksFairly
    StartsWhole
PROPERTIES
    ClaimTakesUnassigned
CHECK_DEADLOCK FALSE
