------------------------------- MODULE Sessions -------------------------------
(***************************************************************************)
(* Accounts and their refresh tokens: src/app/modules/auth/service.py,     *)
(* tokens.py and repository.py, and the staff accounts of                  *)
(* src/app/modules/admin/service.py.                                       *)
(*                                                                         *)
(* A refresh token lives twice: as a row in the database, which password   *)
(* resets revoke, and as a key with an expiry in Redis, which alone        *)
(* decides whether the token is accepted.  A revoked family is marked by   *)
(* a second key with an expiry of its own.  Each request writes Redis at   *)
(* once and the database at its commit.                                    *)
(*                                                                         *)
(* Passwords are left out: a log-in that fails changes nothing here.       *)
(***************************************************************************)
EXTENDS Integers, FiniteSets

CONSTANTS
    Users,      \* identifiers; the unique index gives each one account at most
    Tokens,     \* refresh tokens; each is a family of its own
    Resets,     \* password reset tokens
    Null,       \* SQL NULL
    Handlers,   \* sessions of the API processes
    Renewers,   \* those that may renew: with one, renewals do not overlap
    Resetters,  \* those that may reset passwords
    Updaters,   \* those that may update accounts of staff
    TokenLife,  \* jwt_refresh_ttl_seconds, in ticks
    MarkLife,   \* how long a family stays marked as revoked, in ticks
    MaxDeaths   \* bound on requests lost to a crash

ASSUME SessionsAssumption ==
    /\ IsFiniteSet(Users) /\ IsFiniteSet(Resets) /\ Users \cap Resets = {}
    /\ Null \notin Users \cup Tokens \cup Resets
    /\ Renewers \subseteq Handlers
    /\ Resetters \subseteq Handlers
    /\ Updaters \subseteq Handlers
    /\ TokenLife \in Nat \ {0}
    /\ MarkLife \in Nat \ {0}
    /\ MaxDeaths \in Nat

\* 86400 seconds is the default of the one and is written into the code of the
\* other: a deployment may shorten the life of its tokens, and not lengthen it.
ASSUME MarksOutlastTokens == TokenLife <= MarkLife

VARIABLES
    account,    \* rows of users, with the role
    token,      \* rows of refresh_tokens
    payload,    \* what Redis was given under each token, also after it expired
    key,        \* remaining life of auth:refresh:token:<t>, 0 when absent
    mark,       \* remaining life of auth:refresh:family:<t>:revoked
    held,       \* tokens that reached a client
    reset,      \* rows of password_reset_tokens, and how often each was used
    letters,    \* reset tokens and invitations handed to the mail queue
    req,        \* what each request has loaded and decided
    deaths

sessionVars == <<account, token, payload, key, mark, held, reset, letters, req, deaths>>

-----------------------------------------------------------------------------
NoAccount == [role |-> "none", active |-> FALSE]
Account == [role : {"client", "agent"}, active : BOOLEAN]

NoToken == [user |-> Null, revoked |-> "no"]
Token == [user : Users, revoked : {"no", "closed", "reset"}]

NoPayload == [user |-> Null, renews |-> Null]
Payload == [user : Users, renews : Tokens \cup {Null}]

NoReset == [user |-> Null, state |-> "none", uses |-> 0]
Reset == [user : Users, state : {"open", "used", "expired"}, uses : Nat]

Request == [op    : {"none", "signup", "invite", "login", "renew", "sign out",
                     "forgot", "reset", "update"},
            pc    : {"idle", "checked", "mail", "load", "issue", "revoke", "mark",
                     "select", "sweep", "commit", "respond"},
            user  : Users \cup {Null},
            old   : Tokens \cup {Null},   \* the token that was presented
            new   : Tokens \cup {Null},   \* the token that was issued
            swept : SUBSET Tokens,        \* the rows a reset found
            reset : Resets \cup {Null},
            seen  : BOOLEAN,              \* is_active as loaded
            want  : BOOLEAN]              \* is_active as asked for

NoRequest == [op |-> "none", pc |-> "idle", user |-> Null, old |-> Null, new |-> Null,
         swept |-> {}, reset |-> Null, seen |-> FALSE, want |-> FALSE]

Step(s, r) == req' = [req EXCEPT ![s] = r]
At(s, op, pc) == req[s].op = op /\ req[s].pc = pc
Ready(s) == req[s] = NoRequest

Exists(u) == account[u] # NoAccount

SessionsInit ==
    /\ account = [u \in Users |-> NoAccount]
    /\ token = [t \in Tokens |-> NoToken]
    /\ payload = [t \in Tokens |-> NoPayload]
    /\ key = [t \in Tokens |-> 0]
    /\ mark = [t \in Tokens |-> 0]
    /\ held = {}
    /\ reset = [r \in Resets |-> NoReset]
    /\ letters = {}
    /\ req = [s \in Handlers |-> NoRequest]
    /\ deaths = 0

-----------------------------------------------------------------------------
(* signup and create_agent: the identifier is looked up, and the unique index *)
(* settles at the flush between two that found it free.                       *)

BeginAccount(s, op, u) ==
    /\ Ready(s) /\ op \in {"signup", "invite"}
    /\ ~Exists(u)
    /\ Step(s, [NoRequest EXCEPT !.op = op, !.pc = "checked", !.user = u])
    /\ UNCHANGED <<account, token, payload, key, mark, held, reset, letters, deaths>>

\* Somebody else has flushed a user with this identifier and not committed yet.
IndexHeld(s, u) ==
    \E o \in Handlers \ {s} : /\ req[o].user = u
                              /\ req[o].op \in {"signup", "invite"}
                              /\ req[o].pc \in {"mail", "issue", "commit"}

\* Mutation: the invitation goes out before the index has spoken.
MailFirst(s, u) == letters \cup IF req[s].op = "invite" THEN {u} ELSE {}

LettersAtFlush(s, u) == letters

FlushAccount(s) ==
    LET r == req[s]
    IN  /\ r.pc = "checked"
        /\ ~IndexHeld(s, r.user)
        /\ Step(s, IF Exists(r.user) THEN NoRequest  \* IntegrityError
                     ELSE [r EXCEPT !.pc = IF r.op = "signup" THEN "issue" ELSE "mail"])
        /\ letters' = LettersAtFlush(s, r.user)
        /\ UNCHANGED <<account, token, payload, key, mark, held, reset, deaths>>

\* The invitation carries the temporary password.  A queue that fails is ignored.
SendInvitation(s) ==
    /\ At(s, "invite", "mail")
    /\ \/ letters' = letters \cup {req[s].user}
       \/ letters' = letters
    /\ Step(s, [req[s] EXCEPT !.pc = "commit"])
    /\ UNCHANGED <<account, token, payload, key, mark, held, reset, deaths>>

-----------------------------------------------------------------------------
(* login, staff_two_factor, get_session with a refresh token, sign_out *)

\* The end of login and of staff_two_factor, neither of which looks at is_active.
Login(s, u) ==
    /\ Ready(s) /\ Exists(u)
    /\ Step(s, [NoRequest EXCEPT !.op = "login", !.pc = "issue", !.user = u])
    /\ UNCHANGED <<account, token, payload, key, mark, held, reset, letters, deaths>>

\* Redis alone decides: the row is not looked at.
Redeemable(t) == key[t] > 0 /\ mark[t] = 0

Renew(s, t) ==
    /\ Ready(s) /\ s \in Renewers /\ t \in held
    /\ Redeemable(t)
    /\ Step(s, [NoRequest EXCEPT !.op = "renew", !.pc = "load", !.user = payload[t].user, !.old = t])
    /\ UNCHANGED <<account, token, payload, key, mark, held, reset, letters, deaths>>

LoadUser(s) ==
    LET r == req[s]
    IN  /\ At(s, "renew", "load")
        /\ Step(s, IF account[r.user].active THEN [r EXCEPT !.pc = "issue"] ELSE NoRequest)
        /\ UNCHANGED <<account, token, payload, key, mark, held, reset, letters, deaths>>

SignOut(s, t) ==
    /\ Ready(s) /\ t \in held
    /\ Redeemable(t)
    /\ Step(s, [NoRequest EXCEPT !.op = "sign out", !.pc = "revoke", !.user = payload[t].user, !.old = t])
    /\ UNCHANGED <<account, token, payload, key, mark, held, reset, letters, deaths>>

\* issue_session_bundle and the INSERT of the row, which waits for the commit.
IssueToken(s, t) ==
    LET r == req[s]
    IN  /\ r.pc = "issue"
        /\ payload[t] = NoPayload
        /\ payload' = [payload EXCEPT ![t] = [user |-> r.user, renews |-> r.old]]
        /\ key' = [key EXCEPT ![t] = TokenLife]
        /\ Step(s, [r EXCEPT !.new = t, !.pc = IF r.op = "renew" THEN "revoke" ELSE "commit"])
        /\ UNCHANGED <<account, token, mark, held, reset, letters, deaths>>

\* Another transaction has updated the row of this token and not committed yet.
RowHeld(s, t) ==
    \E o \in Handlers \ {s} :
        \/ req[o].old = t /\ req[o].pc \in {"mark", "commit"}
        \/ t \in req[o].swept /\ req[o].pc = "commit"

\* UPDATE refresh_tokens ... WHERE revoked_at IS NULL
RevokeFamily(s) ==
    /\ req[s].pc = "revoke"
    /\ ~RowHeld(s, req[s].old)
    /\ Step(s, [req[s] EXCEPT !.pc = "mark"])
    /\ UNCHANGED <<account, token, payload, key, mark, held, reset, letters, deaths>>

\* Mutation: no mark when a session is renewed.
MarkAtSignOut(s) == IF req[s].op = "renew" THEN 0 ELSE MarkLife

MarkFor(s) == MarkLife

MarkFamily(s) ==
    /\ req[s].pc = "mark"
    /\ mark' = [mark EXCEPT ![req[s].old] = MarkFor(s)]
    /\ Step(s, [req[s] EXCEPT !.pc = "commit"])
    /\ UNCHANGED <<account, token, payload, key, held, reset, letters, deaths>>

Revoked(row, why) == IF row.revoked = "no" THEN [row EXCEPT !.revoked = why] ELSE row

\* Mutation: a renewal issues its token the way rotate_refresh_token would, in Redis alone.
RowlessRenewal(s) == IF req[s].op = "renew" THEN Null ELSE req[s].new

Recorded(s) == req[s].new

RoleOf(op) == IF op = "signup" THEN "client" ELSE "agent"

\* The account, the row of the new token and the revocation of the old one.
CommitSession(s) ==
    LET r == req[s]
    IN  /\ r.op \in {"signup", "invite", "login", "renew", "sign out"} /\ r.pc = "commit"
        /\ account' = IF r.op \in {"signup", "invite"}
                      THEN [account EXCEPT ![r.user] = [role |-> RoleOf(r.op), active |-> TRUE]]
                      ELSE account
        /\ token' = [t \in Tokens |-> IF t = Recorded(s) THEN [user |-> r.user, revoked |-> "no"]
                                      ELSE IF t = r.old THEN Revoked(token[t], "closed")
                                      ELSE token[t]]
        /\ Step(s, IF r.new = Null THEN NoRequest ELSE [r EXCEPT !.pc = "respond"])
        /\ UNCHANGED <<payload, key, mark, held, reset, letters, deaths>>

\* The response sets the cookies.
Respond(s) ==
    /\ req[s].pc = "respond"
    /\ held' = held \cup {req[s].new}
    /\ Step(s, NoRequest)
    /\ UNCHANGED <<account, token, payload, key, mark, reset, letters, deaths>>

-----------------------------------------------------------------------------
(* forgot_password and reset_password *)

ForgotPassword(s, u, r) ==
    /\ Ready(s) /\ Exists(u)
    /\ reset[r] = NoReset /\ r \notin letters
    /\ \A o \in Handlers : req[o].reset # r
    /\ Step(s, [NoRequest EXCEPT !.op = "forgot", !.pc = "mail", !.user = u, !.reset = r])
    /\ UNCHANGED <<account, token, payload, key, mark, held, reset, letters, deaths>>

MailReset(s) ==
    /\ At(s, "forgot", "mail")
    /\ letters' = letters \cup {req[s].reset}
    /\ Step(s, [req[s] EXCEPT !.pc = "commit"])
    /\ UNCHANGED <<account, token, payload, key, mark, held, reset, deaths>>

CommitForgot(s) ==
    /\ At(s, "forgot", "commit")
    /\ reset' = [reset EXCEPT ![req[s].reset] = [user |-> req[s].user, state |-> "open", uses |-> 0]]
    /\ Step(s, NoRequest)
    /\ UNCHANGED <<account, token, payload, key, mark, held, letters, deaths>>

Usable(r) == reset[r].state = "open"

ResetPassword(s, r) ==
    /\ Ready(s) /\ s \in Resetters /\ r \in letters
    /\ Usable(r)
    /\ Step(s, [NoRequest EXCEPT !.op = "reset", !.pc = "select", !.user = reset[r].user, !.reset = r])
    /\ UNCHANGED <<account, token, payload, key, mark, held, reset, letters, deaths>>

\* delete_refresh_tokens_for_user reads the rows that are committed by now,
SelectTokens(s) ==
    /\ req[s].pc = "select"
    /\ Step(s, [req[s] EXCEPT !.pc = "sweep", !.swept = {t \in Tokens : token[t].user = req[s].user}])
    /\ UNCHANGED <<account, token, payload, key, mark, held, reset, letters, deaths>>

\* and updates each of them.
SweepTokens(s) ==
    /\ req[s].pc = "sweep"
    /\ \A t \in req[s].swept : ~RowHeld(s, t)
    /\ Step(s, [req[s] EXCEPT !.pc = "commit"])
    /\ UNCHANGED <<account, token, payload, key, mark, held, reset, letters, deaths>>

\* used_at
Spent(row) == [row EXCEPT !.state = "used", !.uses = @ + 1]

CommitReset(s) ==
    LET r == req[s]
    IN  /\ At(s, "reset", "commit")
        /\ reset' = [reset EXCEPT ![r.reset] = Spent(reset[r.reset])]
        /\ token' = [t \in Tokens |-> IF t \in r.swept THEN Revoked(token[t], "reset") ELSE token[t]]
        /\ Step(s, NoRequest)
        /\ UNCHANGED <<account, payload, key, mark, held, letters, deaths>>

-----------------------------------------------------------------------------
(* update_agent *)

UpdateAgent(s, u, want) ==
    /\ Ready(s) /\ s \in Updaters /\ account[u].role = "agent"
    /\ Step(s, [NoRequest EXCEPT !.op = "update", !.pc = "commit", !.user = u,
                              !.seen = account[u].active, !.want = want])
    /\ UNCHANGED <<account, token, payload, key, mark, held, reset, letters, deaths>>

\* The UPDATE omits a column equal to its loaded value.
CommitUpdate(s) ==
    LET r == req[s]
    IN  /\ At(s, "update", "commit")
        /\ account' = IF r.want = r.seen THEN account ELSE [account EXCEPT ![r.user].active = r.want]
        /\ Step(s, NoRequest)
        /\ UNCHANGED <<token, payload, key, mark, held, reset, letters, deaths>>

-----------------------------------------------------------------------------
OneLess(life) == [t \in Tokens |-> IF life[t] > 0 THEN life[t] - 1 ELSE 0]

\* Redis counts down the life of its keys.
Tick ==
    /\ \E t \in Tokens : key[t] > 0 \/ mark[t] > 0
    /\ key' = OneLess(key)
    /\ mark' = OneLess(mark)
    /\ UNCHANGED <<account, token, payload, held, reset, letters, req, deaths>>

ExpireReset(r) ==
    /\ reset[r].state = "open"
    /\ reset' = [reset EXCEPT ![r].state = "expired"]
    /\ UNCHANGED <<account, token, payload, key, mark, held, letters, req, deaths>>

\* The process dies: the transaction rolls back, what Redis was told stays.
Die(s) ==
    /\ ~Ready(s) /\ deaths < MaxDeaths
    /\ deaths' = deaths + 1
    /\ Step(s, NoRequest)
    /\ UNCHANGED <<account, token, payload, key, mark, held, reset, letters>>

BeginSession(s) ==
    \/ \E op \in {"signup", "invite"}, u \in Users : BeginAccount(s, op, u)
    \/ \E u \in Users : Login(s, u)
    \/ \E t \in Tokens : Renew(s, t) \/ SignOut(s, t)
    \/ \E u \in Users, r \in Resets : ForgotPassword(s, u, r)
    \/ \E r \in Resets : ResetPassword(s, r)
    \/ \E u \in Users, want \in BOOLEAN : UpdateAgent(s, u, want)

ContinueSession(s) ==
    \/ FlushAccount(s)
    \/ SendInvitation(s)
    \/ LoadUser(s)
    \/ \E t \in Tokens : IssueToken(s, t)
    \/ RevokeFamily(s)
    \/ MarkFamily(s)
    \/ CommitSession(s)
    \/ Respond(s)
    \/ MailReset(s)
    \/ CommitForgot(s)
    \/ SelectTokens(s)
    \/ SweepTokens(s)
    \/ CommitReset(s)
    \/ CommitUpdate(s)

SessionsNext ==
    \/ \E s \in Handlers : BeginSession(s) \/ ContinueSession(s) \/ Die(s)
    \/ Tick
    \/ \E r \in Resets : ExpireReset(r)

SessionsSpec == SessionsInit /\ [][SessionsNext]_sessionVars

-----------------------------------------------------------------------------
(* Properties *)

SessionsTypeOK ==
    /\ account \in [Users -> Account \cup {NoAccount}]
    /\ token \in [Tokens -> Token \cup {NoToken}]
    /\ payload \in [Tokens -> Payload \cup {NoPayload}]
    /\ key \in [Tokens -> Nat]
    /\ mark \in [Tokens -> Nat]
    /\ held \subseteq Tokens
    /\ reset \in [Resets -> Reset \cup {NoReset}]
    /\ letters \subseteq Users \cup Resets
    /\ req \in [Handlers -> Request]
    /\ deaths \in Nat

\* A token whose row was revoked by a sign-out or a renewal is never accepted
\* again: the mark in Redis is set before the commit and outlasts the token.
ClosedStaysClosed ==
    \A t \in Tokens : token[t].revoked = "closed" => key[t] <= mark[t]

\* A token that a client holds has its row, under the user that Redis names, and
\* that user has an account: a later reset finds every session there is to revoke.
HeldIsRecorded ==
    \A t \in held : /\ token[t].user = payload[t].user
                    /\ Exists(token[t].user)

\* Renewals that do not overlap hand out one successor per token at most, also
\* when requests die on the way.
RenewedOnce ==
    \A t, v \in held :
        payload[t].renews = payload[v].renews /\ payload[t].renews # Null => t = v

\* A reset token changes one password once, if resets do not overlap.
ResetOnce == \A r \in Resets : reset[r].uses <= 1

\* Redis, the rows and the clients' cookies agree on who holds a session, and what
\* was closed stays closed.
TokensHold == SessionsTypeOK /\ ClosedStaysClosed /\ HeldIsRecorded

\* What may be redeemed is redeemed once, while nothing of its kind overlaps.
RedeemedOnce == RenewedOnce /\ ResetOnce

\* An invitation whose address has no staff account, or a reset token in the mail
\* that was never stored, comes from a request still at work or from a crash.
Misled ==
    {u \in letters \cap Users : /\ account[u].role # "agent"
                                /\ \A s \in Handlers : ~(req[s].user = u /\ At(s, "invite", "commit"))}
    \cup
    {r \in letters \cap Resets : /\ reset[r] = NoReset
                                 /\ \A s \in Handlers : req[s].reset # r}

LettersHold == Cardinality(Misled) <= deaths
=============================================================================
