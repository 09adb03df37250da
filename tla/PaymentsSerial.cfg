\* Payments: one session at a time, with a gateway that answers late.  Sessions: one
\* request renews and the other resets or deactivates, so neither overlaps with
\* itself.
CONSTANTS
    None = None
    Apps = {x1}
    Payments = {p1,p2}
    Receipts = {n1,n2,n3}
    Requests = {s1}
    Workers = {s1}
    Configured = {s1}
    MomoAnswers = {"open", "paid", "failed"}
    MaxCrashes = 1
    Null = Null
    Users = {u1}
    Tokens = {t1, t2, t3}
    Resets = {q1}
    Handlers = {r1, r2}
    Renewers = {r1}
    Resetters = {r2}
    Updaters = {r2}
    TokenLife = 1
    MarkLife = 1
    MaxDeaths = 1
SPECIFICATION MCSpec
SYMMETRY MCSymmetry
INVARIANTS
    ConfirmedOnce
    MailTellsTruth
    TokensHold
    LettersHold
    RedeemedOnce
CHECK_DEADLOCK FALSE
