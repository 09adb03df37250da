\* One session at a time, two payments of one application.
CONSTANTS
    None = None
    Apps = {x1}
    Payments = {p1,p2}
    Receipts = {n1,n2}
    Requests = {s1}
    Workers = {s1}
    Configured = {s1}
    MomoAnswers = {"paid", "failed"}
    MaxCrashes = 0
SPECIFICATION Spec
INVARIANTS
    PaidOnce
CHECK_DEADLOCK FALSE
