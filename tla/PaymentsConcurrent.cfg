\* Two requests and the worker overlap on one application, with the stub gateway.
\* The deadlines: one case, one report of two weeks of two days.
CONSTANTS
    None = None
    Apps = {x1}
    Payments = {p1,p2}
    Receipts = {n1,n2,n3}
    Requests = {r1,r2}
    Workers = {w1, w2}
    Configured = {w1}
    MomoAnswers = {"paid", "failed"}
    MaxCrashes = 1
    Folders = {f1}
    Readers = {d1}
    Etas = {1}
    Week = 2
    Weeks = 2
    MaxTime = 5
SPECIFICATION MCReportsSpec
SYMMETRY MCSymmetry
INVARIANTS
    PaymentsAgree
    TimedOutNotCharged
    ReportsAgree
PROPERTIES
    ImplementsSettlement
CHECK_DEADLOCK FALSE
