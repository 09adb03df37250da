\* Payments: one request and one worker session, no crash.  The brakes: three
\* requests, one of which may die.  The flag: two processes, two lookups, one
\* administrator.  Broadcasts: two processes, one of which may die.
CONSTANTS
    None = None
    Apps = {x1}
    Payments = {p1}
    Receipts = {n1,n2}
    Requests = {r1}
    Workers = {w1}
    Configured = {w1}
    MomoAnswers = {"open", "paid", "failed"}
    MaxCrashes = 0
    Callers = {q1, q2, q3}
    Limit = 2
    Window = 1
    MaxFails = 2
    LockWindow = 1
    MaxDrops = 1
    Processes = {m1, m2}
    Lookups = {l1, l2}
    Admins = {d1}
    Nothing = Nothing
    RedisLife = 1
    MemoryLife = 1
    Slowest = 1
    MaxChanges = 2
    Notices = {b1}
    Recipients = {u1, u2}
    Senders = {s1, s2}
    Equipped = {s1, s2}
    Unset = Unset
    MaxReruns = 1
SPECIFICATION MCLiveSpec
INVARIANTS
    BrakesHold
    TriesBounded
    StaleEnds
    
PROPERTIES
    ProcessingEnds
    WindowEnds
    FlagSettles
    BroadcastEnds
CHECK_DEADLOCK FALSE
