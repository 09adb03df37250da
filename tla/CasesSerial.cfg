\* Cases: one session at a time.  One-time codes: one of two requests submits codes,
\* beside new ones that are sent.
CONSTANTS
    a1 = a1
    a2 = a2
    None = None
    Admin = admin
    Apps = {x1}
    Agents = {a1, a2}
    Clients = {c1, c2}
    Requests = {s1}
    Workers = {s1}
    Configured = {s1}
    Urgent = {x1}
    ForceTargets = {"received", "awaiting_client"}
    CapChoices = {None}
    InitialSettings <- MCCapped
    MaxLog = 5
    MaxEdits = 1
    MaxCrashes = 1
    MaxDay = 1
    Blank = Blank
    Codes = {g1, g2}
    Logins = {l1, l2}
    Clerks = {k1, k2}
    Verifiers = {k1}
    SmsNumber = TRUE
    Life = 2
    MaxAttempts = 2
    Cooldown = 1
    MaxLosses = 1
SPECIFICATION MCSpec
INVARIANTS
    HistoryMatchesRow
    CodesHold
    OneSessionPerLogin
PROPERTIES
    RulesObeyed
CHECK_DEADLOCK FALSE
