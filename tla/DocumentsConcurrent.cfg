\* Documents: uploads one after the other, beside a second request and the quality
\* check.  Messages and escalations: two sessions.  Catalogue: two administrators,
\* of whom one changes the status and the other the price, and one client.
CONSTANTS
    None = None
    Docs = {d1, d2}
    Keys = {k1}
    Requests = {r1, r2}
    Uploaders = {r1}
    Workers = {w1, w2}
    Configured = {w1}
    Sent = {"clear image", "pdf", "oversize"}
    Allowed = {"clear image", "pdf"}
    Rulings = {"fail"}
    MaxCrashes = 1
    Msgs = {m1, m2}
    Writers = {a1, a2}
    Nobody = Nobody
    Desks = {s1, s2}
    ClientHasEmail = TRUE
    MaxHangups = 1
    Escalations = {e1, e2, e3}
    Supervisors = {v1, v2}
    Void = Void
    Editors = {i1, i2}
    StatusEditors = {i1}
    PriceEditors = {i2}
    Buyers = {b1}
    Kinds = {"fields"}
    RowKeys = {f1, f2}
    Tiers = {t1}
    Fees = {0, 1}
    Absent = Absent
    MaxEdits = 2
SPECIFICATION MCSpec
SYMMETRY MCSymmetry
INVARIANTS
    
    VersionChain
    OneActive
    MessagesHold
    
    ReplacementsHold
    
PROPERTIES
    
    ArchivedIsFinal
CHECK_DEADLOCK FALSE
