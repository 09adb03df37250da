---------------------------- MODULE SessionsProofs ----------------------------
(***************************************************************************)
(* Proofs about Sessions, for every set of users, tokens and requests, any *)
(* lives of tokens and marks that fit, and any number of crashes.          *)
(***************************************************************************)
EXTENDS Sessions, FiniteSetTheorems, TLAPS

(***************************************************************************)
(* What a request r knows of the rows and keys it is about: its token was  *)
(* issued to its user, who has an account, and before it commits that a    *)
(* token is closed, the mark of that token outlasts the token.             *)
(***************************************************************************)
Knows(r, acc, tok, pay, k, m, res) ==
    /\ r.op # "none" => r.pc # "idle"
    /\ r.pc # "idle" => r.user \in Users
    /\ r.pc = "checked" => r.op \in {"signup", "invite"}
    /\ r.pc = "issue" => r.op \in {"signup", "login", "renew"}
    /\ r.pc \in {"select", "sweep"} => r.op = "reset"
    /\ r.pc \in {"revoke", "mark"} => r.op \in {"renew", "sign out"}
    /\ r.op \in {"renew", "sign out"} <=> r.old # Null
    /\ r.old # Null => pay[r.old] # NoPayload /\ tok[r.old].user \in Users
    /\ \A t \in r.swept : tok[t].user \in Users
    /\ r.new # Null => pay[r.new] # NoPayload /\ pay[r.new].user = r.user
    /\ r.op \in {"login", "renew", "sign out", "update"} => acc[r.user] # NoAccount
    /\ r.op \in {"forgot", "reset"} => r.reset \in Resets
    /\ r.op = "reset" => res[r.reset] \in Reset
    /\ r.pc = "commit" /\ r.old # Null => k[r.old] <= m[r.old]
    /\ r.pc = "respond" => /\ r.new # Null /\ tok[r.new].user = r.user
                           /\ acc[r.user] # NoAccount

KnowledgeInv ==
    \A s \in Handlers : Knows(req[s], account, token, payload, key, mark, reset)

(***************************************************************************)
(* The two homes of a token agree, as far as both know it.                 *)
(***************************************************************************)
HomesInv ==
    /\ \A t \in Tokens : key[t] <= TokenLife
    /\ \A t \in Tokens : token[t] # NoToken => token[t].user = payload[t].user
    /\ \A t \in Tokens : payload[t] = NoPayload => token[t] = NoToken /\ t \notin held
    /\ \A t \in held : token[t] # NoToken

World == SessionsTypeOK /\ HomesInv /\ ClosedStaysClosed /\ HeldIsRecorded

IInv == World /\ KnowledgeInv

-----------------------------------------------------------------------------
LEMMA RestIsTyped ==
    /\ NoRequest \in Request /\ NoRequest.op = "none" /\ NoRequest.pc = "idle"
    /\ NoRequest.old = Null /\ NoRequest.new = Null /\ NoRequest.swept = {}
BY DEF NoRequest, Request

LEMMA NothingIsNothing ==
    /\ NoAccount \notin Account /\ NoToken \notin Token /\ NoPayload \notin Payload
    /\ NoReset \notin Reset /\ NoToken.revoked = "no" /\ NoToken.user = Null
<1>1. NoAccount.role = "none" /\ \A a \in Account : a.role # "none"
  BY DEF NoAccount, Account
<1>2. NoToken.user = Null /\ NoToken.revoked = "no" /\ \A t \in Token : t.user # Null
  BY SessionsAssumption DEF NoToken, Token
<1>3. NoPayload.user = Null /\ \A p \in Payload : p.user # Null
  BY SessionsAssumption DEF NoPayload, Payload
<1>4. NoReset.user = Null /\ \A r \in Reset : r.user # Null
  BY SessionsAssumption DEF NoReset, Reset
<1> QED BY <1>1, <1>2, <1>3, <1>4

LEMMA IdleKnows ==
    ASSUME NEW acc, NEW tok, NEW pay, NEW k, NEW m, NEW res
    PROVE  Knows(NoRequest, acc, tok, pay, k, m, res)
BY RestIsTyped DEF Knows

LEMMA SessionsInitially == SessionsInit => IInv
<1> SUFFICES ASSUME SessionsInit PROVE IInv
  OBVIOUS
<1>1. SessionsTypeOK
  BY RestIsTyped, SessionsAssumption DEF SessionsInit, SessionsTypeOK
<1>2. HomesInv /\ ClosedStaysClosed /\ HeldIsRecorded
  BY NothingIsNothing, SessionsAssumption
  DEF SessionsInit, HomesInv, ClosedStaysClosed, HeldIsRecorded
<1>3. KnowledgeInv
  BY IdleKnows DEF SessionsInit, KnowledgeInv
<1> QED BY <1>1, <1>2, <1>3 DEF IInv, World

-----------------------------------------------------------------------------
\* What a step may do to rows and keys that requests know of.
Keeps ==
    /\ \A u \in Users : account[u] # NoAccount => account'[u] # NoAccount
    /\ \A t \in Tokens : payload[t] # NoPayload =>
         /\ payload'[t] = payload[t]
         /\ key[t] <= mark[t] => key'[t] <= mark'[t]
    /\ \A t \in Tokens : token[t].user \in Users => token'[t].user = token[t].user
    /\ \A r \in Resets : reset[r] \in Reset => reset'[r] \in Reset

LEMMA KnowsOn ==
    ASSUME Keeps, NEW r \in Request, Knows(r, account, token, payload, key, mark, reset)
    PROVE  Knows(r, account', token', payload', key', mark', reset')
<1>1. r.old \in Tokens \cup {Null} /\ r.new \in Tokens \cup {Null}
  BY DEF Request
<1>2. /\ r.op # "none" => r.pc # "idle"
      /\ r.pc # "idle" => r.user \in Users
      /\ r.pc = "checked" => r.op \in {"signup", "invite"}
      /\ r.pc = "issue" => r.op \in {"signup", "login", "renew"}
      /\ r.pc \in {"select", "sweep"} => r.op = "reset"
      /\ r.pc \in {"revoke", "mark"} => r.op \in {"renew", "sign out"}
      /\ r.op \in {"renew", "sign out"} <=> r.old # Null
      /\ r.op \in {"forgot", "reset"} => r.reset \in Resets
  BY DEF Knows
<1>3. r.op \in {"login", "renew", "sign out", "update"} => account'[r.user] # NoAccount
  <2>1. r.op \in {"login", "renew", "sign out", "update"} => account[r.user] # NoAccount /\ r.user \in Users
    BY <1>2 DEF Knows
  <2> QED BY <2>1 DEF Keeps
<1>4. r.old # Null => payload'[r.old] # NoPayload /\ token'[r.old].user \in Users
  <2>1. r.old # Null => payload[r.old] # NoPayload /\ token[r.old].user \in Users
    BY DEF Knows
  <2> QED BY <1>1, <2>1 DEF Keeps
<1>5. r.new # Null => payload'[r.new] # NoPayload /\ payload'[r.new].user = r.user
  <2>1. r.new # Null => payload[r.new] # NoPayload /\ payload[r.new].user = r.user
    BY DEF Knows
  <2> QED BY <1>1, <2>1 DEF Keeps
<1>6. r.op = "reset" => reset'[r.reset] \in Reset
  <2>1. r.op = "reset" => reset[r.reset] \in Reset
    BY DEF Knows
  <2> QED BY <1>2, <2>1 DEF Keeps
<1>7. r.pc = "commit" /\ r.old # Null => key'[r.old] <= mark'[r.old]
  <2>1. r.pc = "commit" /\ r.old # Null => key[r.old] <= mark[r.old] /\ payload[r.old] # NoPayload
    BY DEF Knows
  <2> QED BY <1>1, <2>1 DEF Keeps
<1>8. r.pc = "respond" => r.new # Null /\ token'[r.new].user = r.user /\ account'[r.user] # NoAccount
  <2>1. r.pc = "respond" => /\ r.new # Null /\ token[r.new].user = r.user /\ account[r.user] # NoAccount
                            /\ r.user \in Users /\ payload[r.new] # NoPayload
    BY <1>2 DEF Knows
  <2> QED BY <1>1, <2>1 DEF Keeps
<1>9. \A t \in r.swept : token'[t].user \in Users
  <2>1. \A t \in r.swept : t \in Tokens /\ token[t].user \in Users
    BY DEF Knows, Request
  <2> QED BY <2>1 DEF Keeps
<1> QED BY <1>2, <1>3, <1>4, <1>5, <1>6, <1>7, <1>8, <1>9 DEF Knows

\* A step of one request.
LEMMA OneRequest ==
    ASSUME IInv, NEW s \in Handlers, NEW r \in Request, Step(s, r), Keeps, World',
           Knows(r, account', token', payload', key', mark', reset')
    PROVE  IInv'
<1>1. req' = [req EXCEPT ![s] = r] /\ req \in [Handlers -> Request]
  BY DEF Step, IInv, World, SessionsTypeOK
<1>2. req'[s] = r /\ \A o \in Handlers \ {s} : req'[o] = req[o] /\ req[o] \in Request
  BY <1>1
<1>3. \A o \in Handlers \ {s} : Knows(req[o], account', token', payload', key', mark', reset')
  BY <1>2, KnowsOn DEF IInv, KnowledgeInv
<1>4. KnowledgeInv'
  BY <1>2, <1>3 DEF KnowledgeInv
<1> QED BY <1>4 DEF IInv

\* One that writes nothing but what is in the mail.
LEMMA OnlyRequest ==
    ASSUME IInv, NEW s \in Handlers, NEW r \in Request, Step(s, r),
           UNCHANGED <<account, token, payload, key, mark, held, reset>>,
           letters' \subseteq Users \cup Resets, deaths' \in Nat,
           Knows(r, account, token, payload, key, mark, reset)
    PROVE  IInv'
<1>1. req' \in [Handlers -> Request]
  BY DEF Step, IInv, World, SessionsTypeOK
<1>2. World'
  BY <1>1 DEF IInv, World, SessionsTypeOK, HomesInv, ClosedStaysClosed, HeldIsRecorded, Exists
<1>3. Keeps
  BY DEF Keeps
<1> QED BY <1>2, <1>3, OneRequest

LEMMA BackToRest ==
    ASSUME IInv, NEW s \in Handlers, Step(s, NoRequest),
           UNCHANGED <<account, token, payload, key, mark, held, reset, letters>>, deaths' \in Nat
    PROVE  IInv'
<1>1. letters' \subseteq Users \cup Resets
  BY DEF IInv, World, SessionsTypeOK
<1> QED BY <1>1, RestIsTyped, IdleKnows, OnlyRequest

-----------------------------------------------------------------------------
\* The types, as facts.
LEMMA Typed ==
    ASSUME IInv
    PROVE  /\ account \in [Users -> Account \cup {NoAccount}]
           /\ token \in [Tokens -> Token \cup {NoToken}]
           /\ payload \in [Tokens -> Payload \cup {NoPayload}]
           /\ key \in [Tokens -> Nat] /\ mark \in [Tokens -> Nat] /\ held \subseteq Tokens
           /\ reset \in [Resets -> Reset \cup {NoReset}]
           /\ letters \subseteq Users \cup Resets
           /\ req \in [Handlers -> Request] /\ deaths \in Nat
           /\ \A s \in Handlers : Knows(req[s], account, token, payload, key, mark, reset)
BY DEF IInv, World, SessionsTypeOK, KnowledgeInv

\* A token that a client holds belongs to somebody.
LEMMA HeldIsSomebodys ==
    ASSUME IInv, NEW t \in held
    PROVE  /\ t \in Tokens /\ payload[t] # NoPayload /\ payload[t] \in Payload
           /\ payload[t].user \in Users /\ account[payload[t].user] # NoAccount
           /\ token[t].user = payload[t].user
<1>1. t \in Tokens /\ payload[t] \in Payload \cup {NoPayload}
  BY Typed
<1>2. payload[t] # NoPayload
  BY <1>1 DEF IInv, World, HomesInv
<1>3. account[payload[t].user] # NoAccount /\ token[t].user = payload[t].user
  BY DEF IInv, World, HeldIsRecorded, Exists
<1> QED BY <1>1, <1>2, <1>3 DEF Payload

LEMMA BeginKeeps ==
    ASSUME IInv, NEW s \in Handlers, BeginSession(s) PROVE IInv'
<1>0. letters \subseteq Users \cup Resets /\ deaths \in Nat
  BY Typed
<1>1. ASSUME NEW op \in {"signup", "invite"}, NEW u \in Users, BeginAccount(s, op, u) PROVE IInv'
  <2> DEFINE r == [NoRequest EXCEPT !.op = op, !.pc = "checked", !.user = u]
  <2>1. r \in Request /\ r.op = op /\ r.pc = "checked" /\ r.user = u /\ r.old = Null /\ r.new = Null /\ r.swept = {}
    BY RestIsTyped DEF Request
  <2>2. Step(s, r) /\ UNCHANGED <<account, token, payload, key, mark, held, reset, letters, deaths>>
    BY <1>1 DEF BeginAccount
  <2> HIDE DEF r
  <2>3. Knows(r, account, token, payload, key, mark, reset)
    BY <2>1 DEF Knows
  <2> QED BY <1>0, <2>1, <2>2, <2>3, OnlyRequest
<1>2. ASSUME NEW u \in Users, Login(s, u) PROVE IInv'
  <2> DEFINE r == [NoRequest EXCEPT !.op = "login", !.pc = "issue", !.user = u]
  <2>1. r \in Request /\ r.op = "login" /\ r.pc = "issue" /\ r.user = u /\ r.old = Null /\ r.new = Null /\ r.swept = {}
    BY RestIsTyped DEF Request
  <2>2. Step(s, r) /\ UNCHANGED <<account, token, payload, key, mark, held, reset, letters, deaths>>
        /\ account[u] # NoAccount
    BY <1>2 DEF Login, Exists
  <2> HIDE DEF r
  <2>3. Knows(r, account, token, payload, key, mark, reset)
    BY <2>1, <2>2 DEF Knows
  <2> QED BY <1>0, <2>1, <2>2, <2>3, OnlyRequest
<1>3. ASSUME NEW t \in held, NEW op \in {"renew", "sign out"}, NEW pc \in {"load", "revoke"},
             Step(s, [NoRequest EXCEPT !.op = op, !.pc = pc, !.user = payload[t].user, !.old = t]),
             UNCHANGED <<account, token, payload, key, mark, held, reset, letters, deaths>>
      PROVE  IInv'
  <2> DEFINE u == payload[t].user
             r == [NoRequest EXCEPT !.op = op, !.pc = pc, !.user = u, !.old = t]
  <2>1. u \in Users /\ t \in Tokens /\ t # Null /\ payload[t] # NoPayload /\ account[u] # NoAccount
        /\ token[t].user = u
    BY HeldIsSomebodys, SessionsAssumption
  <2> HIDE DEF u
  <2>2. r \in Request /\ r.op = op /\ r.pc = pc /\ r.user = u /\ r.old = t /\ r.new = Null /\ r.swept = {}
    BY <2>1, RestIsTyped DEF Request
  <2>3. Step(s, r)
    BY <1>3 DEF u
  <2> HIDE DEF r
  <2>4. Knows(r, account, token, payload, key, mark, reset)
    BY <2>1, <2>2 DEF Knows
  <2> QED BY <1>0, <1>3, <2>2, <2>3, <2>4, OnlyRequest
<1>4. ASSUME NEW t \in Tokens, Renew(s, t) \/ SignOut(s, t) PROVE IInv'
  BY <1>3, <1>4 DEF Renew, SignOut
<1>5. ASSUME NEW u \in Users, NEW l \in Resets, ForgotPassword(s, u, l) PROVE IInv'
  <2> DEFINE r == [NoRequest EXCEPT !.op = "forgot", !.pc = "mail", !.user = u, !.reset = l]
  <2>1. r \in Request /\ r.op = "forgot" /\ r.pc = "mail" /\ r.user = u /\ r.reset = l
        /\ r.old = Null /\ r.new = Null /\ r.swept = {}
    BY RestIsTyped DEF Request
  <2>2. Step(s, r) /\ UNCHANGED <<account, token, payload, key, mark, held, reset, letters, deaths>>
    BY <1>5 DEF ForgotPassword
  <2> HIDE DEF r
  <2>3. Knows(r, account, token, payload, key, mark, reset)
    BY <2>1 DEF Knows
  <2> QED BY <1>0, <2>1, <2>2, <2>3, OnlyRequest
<1>6. ASSUME NEW l \in Resets, ResetPassword(s, l) PROVE IInv'
  <2> DEFINE u == reset[l].user
             r == [NoRequest EXCEPT !.op = "reset", !.pc = "select", !.user = u, !.reset = l]
  <2>1. reset[l] \in Reset /\ u \in Users
    <3>1. reset[l] \in Reset \cup {NoReset} /\ reset[l].state = "open"
      BY <1>6, Typed DEF ResetPassword, Usable
    <3>2. NoReset.state = "none"
      BY DEF NoReset
    <3> QED BY <3>1, <3>2 DEF Reset
  <2> HIDE DEF u
  <2>2. r \in Request /\ r.op = "reset" /\ r.pc = "select" /\ r.user = u /\ r.reset = l
        /\ r.old = Null /\ r.new = Null /\ r.swept = {}
    BY <2>1, RestIsTyped DEF Request
  <2>3. Step(s, r) /\ UNCHANGED <<account, token, payload, key, mark, held, reset, letters, deaths>>
    BY <1>6 DEF ResetPassword, u
  <2> HIDE DEF r
  <2>4. Knows(r, account, token, payload, key, mark, reset)
    BY <2>1, <2>2 DEF Knows
  <2> QED BY <1>0, <2>2, <2>3, <2>4, OnlyRequest
<1>7. ASSUME NEW u \in Users, NEW want \in BOOLEAN, UpdateAgent(s, u, want) PROVE IInv'
  <2> DEFINE a == account[u].active
             r == [NoRequest EXCEPT !.op = "update", !.pc = "commit", !.user = u, !.seen = a, !.want = want]
  <2>1. account[u] # NoAccount /\ a \in BOOLEAN
    <3>1. account[u] \in Account \cup {NoAccount} /\ account[u].role = "agent"
      BY <1>7, Typed DEF UpdateAgent
    <3>2. NoAccount.role = "none"
      BY DEF NoAccount
    <3> QED BY <3>1, <3>2 DEF Account
  <2> HIDE DEF a
  <2>2. r \in Request /\ r.op = "update" /\ r.pc = "commit" /\ r.user = u /\ r.old = Null /\ r.new = Null /\ r.swept = {}
    BY <2>1, RestIsTyped DEF Request
  <2>3. Step(s, r) /\ UNCHANGED <<account, token, payload, key, mark, held, reset, letters, deaths>>
    BY <1>7 DEF UpdateAgent, a
  <2> HIDE DEF r
  <2>4. Knows(r, account, token, payload, key, mark, reset)
    BY <2>1, <2>2 DEF Knows
  <2> QED BY <1>0, <2>2, <2>3, <2>4, OnlyRequest
<1> QED BY <1>1, <1>2, <1>4, <1>5, <1>6, <1>7 DEF BeginSession

-----------------------------------------------------------------------------
\* A request goes on with what it has, to the next of its places.
LEMMA GoesTo ==
    ASSUME IInv, NEW s \in Handlers, req[s].pc # "idle",
           NEW r \in Request, Step(s, r), r.op = req[s].op, r.user = req[s].user,
           r.old = req[s].old, r.new = req[s].new, r.reset = req[s].reset,
           \A t \in r.swept : token[t].user \in Users,
           r.pc \notin {"idle", "checked", "respond"},
           r.pc = "issue" => r.op \in {"signup", "login", "renew"},
           r.pc \in {"select", "sweep"} => r.op = "reset",
           r.pc \in {"revoke", "mark"} => r.op \in {"renew", "sign out"},
           r.pc = "commit" => r.op \notin {"renew", "sign out"},
           UNCHANGED <<account, token, payload, key, mark, held, reset, deaths>>,
           letters' \subseteq Users \cup Resets
    PROVE  IInv'
<1>1. Knows(req[s], account, token, payload, key, mark, reset) /\ deaths' \in Nat
  BY Typed
<1>2. Knows(r, account, token, payload, key, mark, reset)
  BY <1>1 DEF Knows
<1> QED BY <1>1, <1>2, OnlyRequest

LEMMA MovesKeep ==
    ASSUME IInv, NEW s \in Handlers,
           FlushAccount(s) \/ SendInvitation(s) \/ LoadUser(s) \/ RevokeFamily(s)
             \/ MailReset(s) \/ SelectTokens(s) \/ SweepTokens(s)
    PROVE  IInv'
<1> DEFINE q == req[s]
<1>0. /\ q \in Request /\ Knows(q, account, token, payload, key, mark, reset)
      /\ letters \subseteq Users \cup Resets /\ deaths \in Nat
  BY Typed
<1>a. \A t \in q.swept : token[t].user \in Users
  BY <1>0 DEF Knows
<1>1. ASSUME NEW pc \in {"mail", "issue", "mark", "sweep", "commit"}
      PROVE  LET r == [q EXCEPT !.pc = pc] IN
             /\ r \in Request /\ r.op = q.op /\ r.user = q.user /\ r.old = q.old
             /\ r.new = q.new /\ r.reset = q.reset /\ r.pc = pc /\ r.swept = q.swept
  BY <1>0 DEF Request
<1>2. ASSUME FlushAccount(s) PROVE IInv'
  <2>1. q.pc = "checked" /\ q.op \in {"signup", "invite"} /\ letters' = letters
        /\ UNCHANGED <<account, token, payload, key, mark, held, reset, deaths>>
    BY <1>0, <1>2 DEF FlushAccount, Knows, LettersAtFlush
  <2>2. CASE Exists(q.user)
    <3>1. Step(s, NoRequest)
      BY <1>2, <2>2 DEF FlushAccount
    <3> QED BY <1>0, <2>1, <3>1, BackToRest
  <2>3. CASE ~Exists(q.user)
    <3> DEFINE pc == IF q.op = "signup" THEN "issue" ELSE "mail"
               r == [q EXCEPT !.pc = pc]
    <3>1. Step(s, r)
      BY <1>2, <2>3 DEF FlushAccount
    <3>2. pc \in {"issue", "mail"} /\ (pc = "issue" => q.op = "signup")
      OBVIOUS
    <3> HIDE DEF pc
    <3>3. /\ r \in Request /\ r.op = q.op /\ r.user = q.user /\ r.old = q.old
          /\ r.new = q.new /\ r.reset = q.reset /\ r.pc = pc /\ r.swept = q.swept
      BY <1>1, <3>2
    <3> HIDE DEF r
    <3> QED BY <1>0, <2>1, <3>1, <3>2, <3>3, <1>a, GoesTo
  <2> QED BY <2>2, <2>3
<1>3. ASSUME LoadUser(s) PROVE IInv'
  <2>1. q.pc = "load" /\ q.op = "renew"
        /\ UNCHANGED <<account, token, payload, key, mark, held, reset, letters, deaths>>
    BY <1>3 DEF LoadUser, At
  <2>2. CASE account[q.user].active
    <3> DEFINE r == [q EXCEPT !.pc = "issue"]
    <3>1. Step(s, r)
      BY <1>3, <2>2 DEF LoadUser
    <3>2. /\ r \in Request /\ r.op = q.op /\ r.user = q.user /\ r.old = q.old
          /\ r.new = q.new /\ r.reset = q.reset /\ r.pc = "issue" /\ r.swept = q.swept
      BY <1>1
    <3> HIDE DEF r
    <3> QED BY <1>0, <2>1, <3>1, <3>2, <1>a, GoesTo
  <2>3. CASE ~account[q.user].active
    <3>1. Step(s, NoRequest)
      BY <1>3, <2>3 DEF LoadUser
    <3> QED BY <1>0, <2>1, <3>1, BackToRest
  <2> QED BY <2>2, <2>3
<1>4. ASSUME SendInvitation(s) \/ MailReset(s) \/ SweepTokens(s) PROVE IInv'
  <2> DEFINE r == [q EXCEPT !.pc = "commit"]
  <2>1. /\ r \in Request /\ r.op = q.op /\ r.user = q.user /\ r.old = q.old
        /\ r.new = q.new /\ r.reset = q.reset /\ r.pc = "commit" /\ r.swept = q.swept
    BY <1>1
  <2>2. Step(s, r) /\ UNCHANGED <<account, token, payload, key, mark, held, reset, deaths>>
    BY <1>4 DEF SendInvitation, MailReset, SweepTokens
  <2>3. q.op \in {"invite", "forgot", "reset"} /\ q.pc # "idle"
    BY <1>0, <1>4 DEF SendInvitation, MailReset, SweepTokens, At, Knows
  <2>4. letters' \subseteq Users \cup Resets
    <3>1. q.user \in Users /\ (q.op = "forgot" => q.reset \in Resets)
      BY <1>0, <2>3 DEF Knows
    <3> QED BY <1>0, <1>4, <3>1 DEF SendInvitation, MailReset, SweepTokens, At
  <2> HIDE DEF r
  <2> QED BY <1>0, <2>1, <2>2, <2>3, <2>4, <1>a, GoesTo
<1>5. ASSUME RevokeFamily(s) PROVE IInv'
  <2> DEFINE r == [q EXCEPT !.pc = "mark"]
  <2>1. /\ r \in Request /\ r.op = q.op /\ r.user = q.user /\ r.old = q.old
        /\ r.new = q.new /\ r.reset = q.reset /\ r.pc = "mark" /\ r.swept = q.swept
    BY <1>1
  <2>2. Step(s, r) /\ UNCHANGED <<account, token, payload, key, mark, held, reset, letters, deaths>>
        /\ q.pc = "revoke" /\ q.op \in {"renew", "sign out"}
    BY <1>0, <1>5 DEF RevokeFamily, Knows
  <2> HIDE DEF r
  <2> QED BY <1>0, <2>1, <2>2, <1>a, GoesTo
<1>6. ASSUME SelectTokens(s) PROVE IInv'
  <2> DEFINE found == {t \in Tokens : token[t].user = q.user}
             r == [q EXCEPT !.pc = "sweep", !.swept = found]
  <2>1. Step(s, r) /\ UNCHANGED <<account, token, payload, key, mark, held, reset, letters, deaths>>
        /\ q.pc = "select" /\ q.op = "reset"
    BY <1>0, <1>6 DEF SelectTokens, Knows
  <2>2. found \subseteq Tokens
    OBVIOUS
  <2>3. \A t \in found : token[t].user \in Users
    BY <1>0, <2>1 DEF Knows
  <2> HIDE DEF found
  <2>4. /\ r \in Request /\ r.op = q.op /\ r.user = q.user /\ r.old = q.old
        /\ r.new = q.new /\ r.reset = q.reset /\ r.pc = "sweep" /\ r.swept = found
    BY <1>0, <2>2 DEF Request
  <2> HIDE DEF r
  <2> QED BY <1>0, <2>1, <2>3, <2>4, GoesTo
<1> QED BY <1>2, <1>3, <1>4, <1>5, <1>6

-----------------------------------------------------------------------------
(* Steps that write rows or keys *)

LEMMA IssueKeeps ==
    ASSUME IInv, NEW s \in Handlers, NEW t \in Tokens, IssueToken(s, t) PROVE IInv'
<1> DEFINE q == req[s]
           pc == IF q.op = "renew" THEN "revoke" ELSE "commit"
           r == [q EXCEPT !.new = t, !.pc = pc]
           load == [user |-> q.user, renews |-> q.old]
<1>1. /\ q.pc = "issue" /\ payload[t] = NoPayload /\ payload' = [payload EXCEPT ![t] = load]
      /\ key' = [key EXCEPT ![t] = TokenLife] /\ Step(s, r)
      /\ UNCHANGED <<account, token, mark, held, reset, letters, deaths>>
  BY DEF IssueToken
<1>2. q \in Request /\ Knows(q, account, token, payload, key, mark, reset)
  BY Typed
<1>3. load \in Payload /\ load # NoPayload /\ load.user = q.user
  <2>1. q.user \in Users /\ q.old \in Tokens \cup {Null}
    BY <1>1, <1>2 DEF Knows, Request
  <2>2. load \in Payload
    BY <2>1 DEF Payload
  <2> QED BY <2>2, NothingIsNothing
<1>4. /\ r \in Request /\ r.op = q.op /\ r.user = q.user /\ r.old = q.old
      /\ r.new = t /\ r.reset = q.reset /\ r.pc = pc /\ r.swept = q.swept
  BY <1>2 DEF Request
<1> HIDE DEF load, r
<1>5. /\ payload'[t] = load /\ key'[t] = TokenLife
      /\ \A v \in Tokens \ {t} : payload'[v] = payload[v] /\ key'[v] = key[v]
  BY <1>1, Typed
<1>6. Keeps
  BY <1>1, <1>5 DEF Keeps
<1>7. token[t] = NoToken /\ t \notin held
  BY <1>1 DEF IInv, World, HomesInv
<1>8. World'
  <2>1. req' \in [Handlers -> Request]
    BY <1>1, <1>4, Typed DEF Step
  <2>2. payload' \in [Tokens -> Payload \cup {NoPayload}] /\ key' \in [Tokens -> Nat]
    BY <1>1, <1>3, Typed, SessionsAssumption
  <2>3. SessionsTypeOK'
    BY <1>1, <2>1, <2>2, Typed DEF SessionsTypeOK
  <2>4. HomesInv'
    <3>1. \A v \in Tokens : key'[v] <= TokenLife
      BY <1>5, SessionsAssumption DEF IInv, World, HomesInv
    <3> QED BY <1>1, <1>3, <1>5, <1>7, <3>1 DEF IInv, World, HomesInv
  <2>5. ClosedStaysClosed'
    BY <1>1, <1>5, <1>7, NothingIsNothing DEF IInv, World, ClosedStaysClosed
  <2>6. HeldIsRecorded'
    <3>1. \A v \in held : v \in Tokens \ {t}
      BY <1>7, Typed
    <3> QED BY <1>1, <1>5, <3>1 DEF IInv, World, HeldIsRecorded, Exists
  <2> QED BY <2>3, <2>4, <2>5, <2>6 DEF World
<1>9. Knows(r, account', token', payload', key', mark', reset')
  <2>1. Knows(q, account', token', payload', key', mark', reset')
    BY <1>2, <1>6, KnowsOn
  <2>2. q.op \in {"signup", "login", "renew"} /\ pc = IF q.op = "renew" THEN "revoke" ELSE "commit"
    BY <1>1, <1>2 DEF Knows
  <2> HIDE DEF pc
  <2> QED BY <1>1, <1>3, <1>4, <1>5, <2>1, <2>2 DEF Knows
<1> QED BY <1>1, <1>4, <1>6, <1>8, <1>9, OneRequest

LEMMA MarkKeeps ==
    ASSUME IInv, NEW s \in Handlers, MarkFamily(s) PROVE IInv'
<1> DEFINE q == req[s]
           r == [q EXCEPT !.pc = "commit"]
<1>1. /\ q.pc = "mark" /\ mark' = [mark EXCEPT ![q.old] = MarkLife] /\ Step(s, r)
      /\ UNCHANGED <<account, token, payload, key, held, reset, letters, deaths>>
  BY DEF MarkFamily, MarkFor
<1>2. q \in Request /\ Knows(q, account, token, payload, key, mark, reset)
  BY Typed
<1>3. /\ r \in Request /\ r.op = q.op /\ r.user = q.user /\ r.old = q.old
      /\ r.new = q.new /\ r.reset = q.reset /\ r.pc = "commit" /\ r.swept = q.swept
  BY <1>2 DEF Request
<1> HIDE DEF r
<1>4. q.op \in {"renew", "sign out"} /\ q.old \in Tokens
  BY <1>1, <1>2 DEF Knows, Request
<1>5. mark'[q.old] = MarkLife /\ \A v \in Tokens \ {q.old} : mark'[v] = mark[v]
  BY <1>1, <1>4, Typed
<1>6. \A v \in Tokens : key[v] \in Nat /\ key[v] <= TokenLife
  BY Typed DEF IInv, World, HomesInv
<1>7. key[q.old] <= MarkLife
  <2>1. key[q.old] \in Nat /\ key[q.old] <= TokenLife
    BY <1>4, <1>6
  <2>2. TokenLife \in Nat /\ MarkLife \in Nat /\ TokenLife <= MarkLife
    BY MarksOutlastTokens, SessionsAssumption
  <2> QED BY <2>1, <2>2
<1>8. Keeps
  BY <1>1, <1>5, <1>7 DEF Keeps
<1>9. World'
  <2>1. req' \in [Handlers -> Request] /\ mark' \in [Tokens -> Nat]
    BY <1>1, <1>3, <1>4, Typed, SessionsAssumption DEF Step
  <2>2. SessionsTypeOK'
    BY <1>1, <2>1, Typed DEF SessionsTypeOK
  <2>3. HomesInv' /\ HeldIsRecorded'
    BY <1>1 DEF IInv, World, HomesInv, HeldIsRecorded, Exists
  <2>4. ClosedStaysClosed'
    BY <1>1, <1>5, <1>7 DEF IInv, World, ClosedStaysClosed
  <2> QED BY <2>2, <2>3, <2>4 DEF World
<1>10. Knows(r, account', token', payload', key', mark', reset')
  <2>1. Knows(q, account', token', payload', key', mark', reset')
    BY <1>2, <1>8, KnowsOn
  <2> QED BY <1>1, <1>3, <1>4, <1>5, <1>7, <2>1 DEF Knows
<1> QED BY <1>1, <1>3, <1>8, <1>9, <1>10, OneRequest

LEMMA RespondKeeps ==
    ASSUME IInv, NEW s \in Handlers, Respond(s) PROVE IInv'
<1> DEFINE t == req[s].new
<1>1. /\ req[s].pc = "respond" /\ held' = held \cup {t} /\ Step(s, NoRequest)
      /\ UNCHANGED <<account, token, payload, key, mark, reset, letters, deaths>>
  BY DEF Respond
<1>2. /\ t \in Tokens /\ token[t].user = req[s].user /\ payload[t].user = req[s].user
      /\ payload[t] # NoPayload /\ req[s].user \in Users /\ account[req[s].user] # NoAccount
  BY <1>1, Typed DEF Knows, Request
<1>3. token[t] # NoToken
  BY <1>2, NothingIsNothing, SessionsAssumption
<1> HIDE DEF t
<1>4. Keeps
  BY <1>1 DEF Keeps
<1>5. World'
  <2>1. req' \in [Handlers -> Request]
    BY <1>1, RestIsTyped, Typed DEF Step
  <2>2. SessionsTypeOK'
    BY <1>1, <1>2, <2>1, Typed DEF SessionsTypeOK
  <2>3. HomesInv'
    BY <1>1, <1>2, <1>3 DEF IInv, World, HomesInv
  <2>4. ClosedStaysClosed' /\ HeldIsRecorded'
    BY <1>1, <1>2 DEF IInv, World, ClosedStaysClosed, HeldIsRecorded, Exists
  <2> QED BY <2>2, <2>3, <2>4 DEF World
<1> QED BY <1>1, <1>4, <1>5, RestIsTyped, IdleKnows, OneRequest

LEMMA CommitKeeps ==
    ASSUME IInv, NEW s \in Handlers, CommitSession(s) PROVE IInv'
<1> DEFINE q == req[s]
           r == IF q.new = Null THEN NoRequest ELSE [q EXCEPT !.pc = "respond"]
           row == [user |-> q.user, revoked |-> "no"]
           person == [role |-> RoleOf(q.op), active |-> TRUE]
<1>1. /\ q.op \in {"signup", "invite", "login", "renew", "sign out"} /\ q.pc = "commit"
      /\ account' = IF q.op \in {"signup", "invite"} THEN [account EXCEPT ![q.user] = person] ELSE account
      /\ token' = [t \in Tokens |-> IF t = q.new THEN row
                                    ELSE IF t = q.old THEN Revoked(token[t], "closed") ELSE token[t]]
      /\ Step(s, r) /\ UNCHANGED <<payload, key, mark, held, reset, letters, deaths>>
  BY DEF CommitSession, Recorded
<1>2. q \in Request /\ Knows(q, account, token, payload, key, mark, reset)
  BY Typed
<1>3. /\ q.user \in Users
      /\ q.old # Null => q.old \in Tokens /\ payload[q.old] # NoPayload /\ key[q.old] <= mark[q.old]
      /\ q.new # Null => q.new \in Tokens /\ payload[q.new] # NoPayload /\ payload[q.new].user = q.user
      /\ q.op \in {"login", "renew", "sign out"} => account[q.user] # NoAccount
  BY <1>1, <1>2 DEF Knows, Request
<1>4. person \in Account /\ row \in Token /\ row.user = q.user /\ row.revoked = "no"
  BY <1>3 DEF Account, Token, RoleOf
<1>5. row # NoToken /\ person # NoAccount
  BY <1>4, NothingIsNothing
<1> HIDE DEF row, person
<1>6. \A u \in Users : account[u] # NoAccount => account'[u] # NoAccount
  BY <1>1, <1>5, Typed
<1>7. account'[q.user] # NoAccount /\ account' \in [Users -> Account \cup {NoAccount}]
  BY <1>1, <1>3, <1>4, <1>5, Typed
<1>8. q.old # Null => token[q.old] \in Token
  <2>1. q.old # Null => token[q.old].user \in Users
    BY <1>2 DEF Knows
  <2> QED BY <1>3, <2>1, Typed, NothingIsNothing, SessionsAssumption
<1>9. \A v \in Token : Revoked(v, "closed") \in Token /\ Revoked(v, "closed").user = v.user
  BY DEF Revoked, Token
<1>10. ASSUME NEW t \in Tokens
       PROVE  /\ token'[t] \in Token \cup {NoToken}
              /\ token[t] # NoToken => token'[t] \in Token /\ token'[t].user = token[t].user
              /\ token'[t] # token[t] => token'[t] \in Token /\ t \in {q.new, q.old}
              /\ token'[t].revoked = "closed" => token[t].revoked = "closed" \/ (t = q.old /\ t # Null)
              /\ t = q.new => token'[t].user = q.user
  <2>1. t # Null /\ token[t] \in Token \cup {NoToken}
    BY Typed, SessionsAssumption
  <2>2. CASE t = q.new
    <3>1. token'[t] = row
      BY <1>1, <2>2
    <3>2. token[t] # NoToken => token[t].user = q.user
      BY <1>3, <2>1, <2>2 DEF IInv, World, HomesInv
    <3> QED BY <1>4, <2>1, <2>2, <3>1, <3>2
  <2>3. CASE t # q.new /\ t = q.old
    <3>1. token'[t] = Revoked(token[t], "closed")
      BY <1>1, <2>3
    <3> QED BY <1>8, <1>9, <2>1, <2>3, <3>1
  <2>4. CASE t # q.new /\ t # q.old
    <3>1. token'[t] = token[t]
      BY <1>1, <2>4
    <3> QED BY <2>1, <2>4, <3>1
  <2> QED BY <2>2, <2>3, <2>4
<1>11. Keeps
  <2>1. \A t \in Tokens : token[t].user \in Users => token[t] # NoToken
    BY NothingIsNothing, SessionsAssumption
  <2> QED BY <1>1, <1>6, <1>10, <2>1 DEF Keeps
<1>12. r \in Request /\ (q.new # Null => r.op = q.op /\ r.pc = "respond" /\ r.user = q.user
                         /\ r.old = q.old /\ r.new = q.new /\ r.swept = q.swept /\ r.reset = q.reset)
  BY <1>2, RestIsTyped DEF Request
<1>13. q.new = Null => r = NoRequest
  OBVIOUS
<1> HIDE DEF r
<1>14. World'
  <2>1. req' \in [Handlers -> Request]
    BY <1>1, <1>12, Typed DEF Step
  <2>2. token' \in [Tokens -> Token \cup {NoToken}]
    <3>1. token' = [t \in Tokens |-> token'[t]]
      BY <1>1
    <3> QED BY <1>10, <3>1
  <2>3. SessionsTypeOK'
    BY <1>1, <1>7, <2>1, <2>2, Typed DEF SessionsTypeOK
  <2>4. HomesInv'
    <3>1. \A t \in Tokens : token'[t] # NoToken => token'[t].user = payload[t].user
      <4> TAKE t \in Tokens
      <4>1. CASE token[t] # NoToken
        BY <1>10, <4>1 DEF IInv, World, HomesInv
      <4>2. CASE token[t] = NoToken
        <5>1. q.old # Null => t # q.old
          BY <1>8, <4>2, NothingIsNothing
        <5> QED BY <1>3, <1>10, <4>2, <5>1, SessionsAssumption
      <4> QED BY <4>1, <4>2
    <3>2. \A t \in Tokens : payload[t] = NoPayload => token'[t] = NoToken /\ t \notin held
      <4> SUFFICES ASSUME NEW t \in Tokens, payload[t] = NoPayload PROVE token'[t] = NoToken /\ t \notin held
        OBVIOUS
      <4>1. token[t] = NoToken /\ t \notin held
        BY DEF IInv, World, HomesInv
      <4>2. t \notin {q.new, q.old}
        BY <1>3, SessionsAssumption
      <4>3. token'[t] = token[t]
        BY <1>10, <4>2
      <4> QED BY <4>1, <4>3
    <3>3. \A t \in held : t \in Tokens /\ token'[t] # NoToken
      BY <1>10, Typed, NothingIsNothing DEF IInv, World, HomesInv
    <3> QED BY <1>1, <3>1, <3>2, <3>3 DEF IInv, World, HomesInv
  <2>5. ClosedStaysClosed'
    BY <1>1, <1>3, <1>10 DEF IInv, World, ClosedStaysClosed
  <2>6. HeldIsRecorded'
    <3>1. ASSUME NEW t \in held PROVE token'[t].user = payload[t].user /\ account'[token'[t].user] # NoAccount
      <4>1. t \in Tokens /\ token[t] # NoToken
        BY Typed DEF IInv, World, HomesInv
      <4>2. token'[t].user = token[t].user
        BY <1>10, <4>1
      <4>3. token[t].user = payload[t].user /\ payload[t].user \in Users /\ account[payload[t].user] # NoAccount
        BY HeldIsSomebodys
      <4> QED BY <1>6, <4>2, <4>3
    <3> QED BY <1>1, <3>1 DEF HeldIsRecorded, Exists
  <2> QED BY <2>3, <2>4, <2>5, <2>6 DEF World
<1>15. Knows(r, account', token', payload', key', mark', reset')
  <2>1. CASE q.new = Null
    BY <1>13, <2>1, IdleKnows
  <2>2. CASE q.new # Null
    <3>1. Knows(q, account', token', payload', key', mark', reset')
      BY <1>2, <1>11, KnowsOn
    <3>2. token'[q.new].user = q.user
      BY <1>3, <1>10, <2>2
    <3> QED BY <1>3, <1>7, <1>12, <2>2, <3>1, <3>2 DEF Knows
  <2> QED BY <2>1, <2>2
<1> QED BY <1>1, <1>11, <1>12, <1>14, <1>15, OneRequest

\* Steps about passwords and accounts leave the tokens' keys alone.
LEMMA ResetKeeps ==
    ASSUME IInv, NEW s \in Handlers, CommitForgot(s) \/ CommitReset(s) \/ CommitUpdate(s) PROVE IInv'
<1> DEFINE q == req[s]
<1>0. q \in Request /\ Knows(q, account, token, payload, key, mark, reset)
  BY Typed
<1>1. Step(s, NoRequest) /\ UNCHANGED <<payload, key, mark, held, letters, deaths>>
      /\ q.pc = "commit" /\ q.op \in {"forgot", "reset", "update"}
  BY DEF CommitForgot, CommitReset, CommitUpdate, At
<1>2. q.user \in Users /\ (q.op \in {"forgot", "reset"} => q.reset \in Resets)
      /\ (q.op = "reset" => reset[q.reset] \in Reset)
      /\ (q.op = "update" => account[q.user] # NoAccount)
      /\ \A t \in q.swept : t \in Tokens /\ token[t].user \in Users
  BY <1>0, <1>1 DEF Knows, Request
<1>3. account' \in [Users -> Account \cup {NoAccount}]
      /\ \A u \in Users : account[u] # NoAccount => account'[u] # NoAccount
  <2>1. CASE account' = account
    BY <2>1, Typed
  <2>2. CASE CommitUpdate(s) /\ account' # account
    <3> DEFINE a == [account[q.user] EXCEPT !.active = q.want]
    <3>1. account' = [account EXCEPT ![q.user] = a] /\ q.op = "update"
      BY <2>2 DEF CommitUpdate, At
    <3>2. account[q.user] \in Account /\ q.want \in BOOLEAN
      BY <1>0, <1>2, <3>1, Typed DEF Request
    <3>3. a \in Account
      BY <3>2 DEF Account
    <3> HIDE DEF a
    <3> QED BY <1>2, <3>1, <3>3, Typed, NothingIsNothing
  <2> QED BY <2>1, <2>2 DEF CommitForgot, CommitReset
<1>4. reset' \in [Resets -> Reset \cup {NoReset}]
      /\ \A l \in Resets : reset[l] \in Reset => reset'[l] \in Reset
  <2>1. CASE CommitForgot(s)
    <3> DEFINE l == [user |-> q.user, state |-> "open", uses |-> 0]
    <3>1. reset' = [reset EXCEPT ![q.reset] = l] /\ q.reset \in Resets
      BY <1>2, <2>1 DEF CommitForgot, At
    <3>2. l \in Reset
      BY <1>2 DEF Reset
    <3> HIDE DEF l
    <3> QED BY <3>1, <3>2, Typed
  <2>2. CASE CommitReset(s)
    <3> DEFINE w == reset[q.reset]
               n == w.uses + 1
    <3>1. reset' = [reset EXCEPT ![q.reset] = Spent(w)] /\ q.reset \in Resets /\ w \in Reset
      BY <1>2, <2>2 DEF CommitReset, At
    <3>2. Spent(w) = [w EXCEPT !.state = "used", !.uses = n]
      BY DEF Spent
    <3> HIDE DEF w
    <3>3. n \in Nat
      BY <3>1 DEF Reset
    <3> HIDE DEF n
    <3>4. Spent(w) \in Reset
      BY <3>1, <3>2, <3>3 DEF Reset
    <3> QED BY <3>1, <3>4, Typed
  <2>3. CASE CommitUpdate(s)
    BY <2>3, Typed DEF CommitUpdate
  <2> QED BY <2>1, <2>2, <2>3
<1>5. ASSUME NEW t \in Tokens
      PROVE  /\ token'[t] \in Token \cup {NoToken} /\ token'[t].user = token[t].user
             /\ (token'[t] = NoToken <=> token[t] = NoToken)
             /\ (token'[t].revoked = "closed" => token[t].revoked = "closed")
  <2>1. token[t] \in Token \cup {NoToken}
    BY Typed
  <2>2. CASE token'[t] = token[t]
    BY <2>1, <2>2
  <2>3. CASE CommitReset(s) /\ t \in q.swept
    <3>1. token'[t] = Revoked(token[t], "reset")
      BY <2>3 DEF CommitReset
    <3>2. token[t] \in Token
      BY <1>2, <2>1, <2>3, NothingIsNothing, SessionsAssumption
    <3>3. token'[t] \in Token /\ token'[t].user = token[t].user
          /\ (token'[t].revoked = "closed" => token[t].revoked = "closed")
      BY <3>1, <3>2 DEF Revoked, Token
    <3> QED BY <3>2, <3>3, NothingIsNothing
  <2>4. (CommitReset(s) /\ t \in q.swept) \/ token'[t] = token[t]
    BY DEF CommitForgot, CommitReset, CommitUpdate
  <2> QED BY <2>2, <2>3, <2>4
<1>6. Keeps
  BY <1>1, <1>3, <1>4, <1>5 DEF Keeps
<1>7. World'
  <2>1. token' \in [Tokens -> Token \cup {NoToken}]
    <3>1. token' = [t \in Tokens |-> token'[t]]
      <4>1. token \in [Tokens -> Token \cup {NoToken}]
        BY Typed
      <4> QED BY <4>1 DEF CommitForgot, CommitReset, CommitUpdate
    <3> QED BY <1>5, <3>1
  <2>2. SessionsTypeOK'
    BY <1>1, <1>3, <1>4, <2>1, RestIsTyped, Typed DEF Step, SessionsTypeOK
  <2>3. HomesInv' /\ ClosedStaysClosed'
    <3>1. held \subseteq Tokens
      BY Typed
    <3> QED BY <1>1, <1>5, <3>1 DEF IInv, World, HomesInv, ClosedStaysClosed
  <2>4. HeldIsRecorded'
    <3>1. ASSUME NEW t \in held PROVE token'[t].user = payload[t].user /\ account'[token'[t].user] # NoAccount
      BY <1>3, <1>5, HeldIsSomebodys
    <3> QED BY <1>1, <3>1 DEF HeldIsRecorded, Exists
  <2> QED BY <2>2, <2>3, <2>4 DEF World
<1> QED BY <1>1, <1>6, <1>7, RestIsTyped, IdleKnows, OneRequest

\* Time passes and requests stand still: a key loses no less than its mark.
LEMMA TimeKeeps ==
    ASSUME IInv, Tick \/ \E l \in Resets : ExpireReset(l) PROVE IInv'
<1>1. UNCHANGED <<account, token, payload, held, letters, req, deaths>>
  BY DEF Tick, ExpireReset
<1>2. /\ key' \in [Tokens -> Nat] /\ mark' \in [Tokens -> Nat]
      /\ \A t \in Tokens : key'[t] <= key[t] /\ (key[t] <= mark[t] => key'[t] <= mark'[t])
  <2>1. CASE Tick
    BY <2>1, Typed DEF Tick, OneLess
  <2>2. CASE \E l \in Resets : ExpireReset(l)
    BY <2>2, Typed DEF ExpireReset
  <2> QED BY <2>1, <2>2
<1>3. reset' \in [Resets -> Reset \cup {NoReset}]
      /\ \A l \in Resets : reset[l] \in Reset => reset'[l] \in Reset
  <2>1. CASE Tick
    BY <2>1, Typed DEF Tick
  <2>2. ASSUME NEW l \in Resets, ExpireReset(l)
        PROVE  reset' \in [Resets -> Reset \cup {NoReset}]
               /\ \A v \in Resets : reset[v] \in Reset => reset'[v] \in Reset
    <3> DEFINE w == [reset[l] EXCEPT !.state = "expired"]
    <3>1. reset' = [reset EXCEPT ![l] = w] /\ reset[l].state = "open"
      BY <2>2 DEF ExpireReset
    <3>2. NoReset.state = "none"
      BY DEF NoReset
    <3>3. reset[l] \in Reset
      BY <3>1, <3>2, Typed
    <3>4. w \in Reset
      BY <3>3 DEF Reset
    <3> HIDE DEF w
    <3> QED BY <3>1, <3>4, Typed
  <2> QED BY <2>1, <2>2
<1>4. Keeps
  BY <1>1, <1>2, <1>3 DEF Keeps
<1>5. World'
  <2>1. SessionsTypeOK'
    BY <1>1, <1>2, <1>3, Typed DEF SessionsTypeOK
  <2>2. \A t \in Tokens : key'[t] <= TokenLife
    <3> TAKE t \in Tokens
    <3>1. key'[t] \in Nat /\ key[t] \in Nat /\ key'[t] <= key[t] /\ key[t] <= TokenLife
      BY <1>2, Typed DEF IInv, World, HomesInv
    <3>2. TokenLife \in Nat
      BY SessionsAssumption
    <3> QED BY <3>1, <3>2
  <2>3. HomesInv' /\ HeldIsRecorded'
    BY <1>1, <2>2 DEF IInv, World, HomesInv, HeldIsRecorded, Exists
  <2>4. ClosedStaysClosed'
    BY <1>1, <1>2 DEF IInv, World, ClosedStaysClosed
  <2> QED BY <2>1, <2>3, <2>4 DEF World
<1>6. KnowledgeInv'
  BY <1>1, <1>4, Typed, KnowsOn DEF KnowledgeInv
<1> QED BY <1>5, <1>6 DEF IInv

LEMMA DieKeeps ==
    ASSUME IInv, NEW s \in Handlers, Die(s) PROVE IInv'
<1>1. deaths \in Nat
  BY Typed
<1> QED BY <1>1, BackToRest DEF Die

LEMMA SessionsStep == IInv /\ [SessionsNext]_sessionVars => IInv'
<1> SUFFICES ASSUME IInv, [SessionsNext]_sessionVars PROVE IInv'
  OBVIOUS
<1>1. CASE UNCHANGED sessionVars
  BY <1>1 DEF sessionVars, IInv, World, SessionsTypeOK, HomesInv, ClosedStaysClosed,
              HeldIsRecorded, Exists, KnowledgeInv
<1>2. ASSUME NEW s \in Handlers, ContinueSession(s) PROVE IInv'
  BY <1>2, MovesKeep, IssueKeeps, MarkKeeps, CommitKeeps, RespondKeeps, ResetKeeps DEF ContinueSession
<1> QED BY <1>1, <1>2, BeginKeeps, DieKeeps, TimeKeeps DEF SessionsNext

LEMMA SessionsAlways == SessionsSpec => []IInv
BY SessionsInitially, SessionsStep, PTL DEF SessionsSpec

\* Every reachable state is well typed.
THEOREM SessionsTypeCorrect == SessionsSpec => []SessionsTypeOK
<1>1. IInv => SessionsTypeOK
  BY DEF IInv, World
<1> QED BY <1>1, SessionsAlways, PTL

\* A token whose row a sign-out or a renewal has revoked is never accepted again,
\* if marks outlast tokens.
THEOREM ClosedTokensStayClosed == SessionsSpec => []ClosedStaysClosed
<1>1. IInv => ClosedStaysClosed
  BY DEF IInv, World
<1> QED BY <1>1, SessionsAlways, PTL

\* A token that a client holds has its row, under the user that Redis names.
THEOREM HeldTokensAreRecorded == SessionsSpec => []HeldIsRecorded
<1>1. IInv => HeldIsRecorded
  BY DEF IInv, World
<1> QED BY <1>1, SessionsAlways, PTL

\* A token that clients hold is recorded, and one that is closed stays closed, for any
\* number of users, tokens and requests.
THEOREM TokensAlwaysHold == SessionsSpec => []TokensHold
BY SessionsTypeCorrect, ClosedTokensStayClosed, HeldTokensAreRecorded, PTL DEF TokensHold
-----------------------------------------------------------------------------
(* What is redeemed once *)

SerialRenewers == \A s, o \in Renewers : s = o
SerialResetters == \A s, o \in Resetters : s = o

\* Two requests, or two states of one, that are about the same things.
Same(r, q) == /\ r.op = q.op /\ r.user = q.user /\ r.old = q.old /\ r.new = q.new
              /\ r.reset = q.reset

\* What the code that a request is in says about it.
OpsOf(s) ==
    LET r == req[s] IN
    /\ r.op = "none" => r = NoRequest
    /\ r.op = "renew" => s \in Renewers
    /\ r.op = "reset" => s \in Resetters
    /\ r.op \in {"forgot", "reset"} <=> r.reset # Null
    /\ r.reset # Null => r.pc \in {"mail", "select", "sweep", "commit"} /\ r.reset \in Resets
    /\ r.new # Null => r.op \in {"signup", "login", "renew"} /\ payload[r.new].renews = r.old
    /\ r.pc = "mail" => r.op \in {"invite", "forgot"}

OpsInv == \A s \in Handlers : OpsOf(s)

\* A request has written an account that the others do not see yet.
Flushed(s) == req[s].op \in {"signup", "invite"} /\ req[s].pc \in {"mail", "issue", "commit"}

FlushInv ==
    \A s \in Handlers : Flushed(s) =>
        /\ account[req[s].user] = NoAccount
        /\ \A o \in Handlers : Flushed(o) /\ req[o].user = req[s].user => o = s

\* A token that has a successor in a client's hands is closed, and nobody is at
\* work on another one.
RenewInv ==
    /\ \A t \in held : LET old == payload[t].renews IN
          old # Null => payload[old] # NoPayload /\ key[old] <= mark[old]
    /\ \A s \in Handlers : LET r == req[s] IN
          /\ r.pc = "respond" /\ r.old # Null => key[r.old] <= mark[r.old]
          /\ r.op = "renew" => \A t \in held : payload[t].renews # r.old
    /\ RenewedOnce

\* A reset at work has not been used, and an unused one was not counted.
ResetInv ==
    /\ \A r \in Resets : reset[r].uses <= 1 /\ (reset[r].state # "used" => reset[r].uses = 0)
    /\ \A s \in Handlers : req[s].op = "reset" => reset[req[s].reset].state # "used"

Others(s) == \A o \in Handlers : o # s => req'[o] = req[o]
Ends(s) == req'[s] = NoRequest
GoesOn(s, pcs) == Same(req'[s], req[s]) /\ req'[s].pc \in pcs

LEMMA Moved ==
    ASSUME IInv, NEW s \in Handlers, NEW r, Step(s, r)
    PROVE  req'[s] = r /\ Others(s)
BY Typed DEF Step, Others

LEMMA WithPc ==
    ASSUME NEW q \in Request, NEW pc
    PROVE  LET r == [q EXCEPT !.pc = pc] IN Same(r, q) /\ r.pc = pc
BY DEF Request, Same

\* What a new request starts from.
LEMMA Beginnings ==
    ASSUME IInv, NEW s \in Handlers, BeginSession(s)
    PROVE  /\ req[s] = NoRequest /\ Others(s)
           /\ UNCHANGED <<account, token, payload, key, mark, held, reset, letters, deaths>>
           /\ LET r == req'[s] IN
              /\ r.new = Null
              /\ \/ r.op \in {"signup", "invite"} /\ r.pc = "checked" /\ r.old = Null /\ r.reset = Null
                 \/ r.op = "login" /\ r.pc = "issue" /\ r.old = Null /\ r.reset = Null
                 \/ /\ r.old \in held /\ Redeemable(r.old) /\ r.reset = Null
                    /\ \/ r.op = "renew" /\ r.pc = "load" /\ s \in Renewers
                       \/ r.op = "sign out" /\ r.pc = "revoke"
                 \/ r.op = "forgot" /\ r.pc = "mail" /\ r.old = Null /\ r.reset \in Resets
                 \/ /\ r.op = "reset" /\ r.pc = "select" /\ r.old = Null /\ r.reset \in Resets
                    /\ s \in Resetters /\ Usable(r.reset)
                 \/ r.op = "update" /\ r.pc = "commit" /\ r.old = Null /\ r.reset = Null
<1> DEFINE Still == UNCHANGED <<account, token, payload, key, mark, held, reset, letters, deaths>>
<1>1. ASSUME NEW op \in {"signup", "invite"}, NEW u \in Users, BeginAccount(s, op, u)
      PROVE  /\ req[s] = NoRequest /\ Others(s) /\ Still
             /\ LET r == req'[s] IN r.new = Null /\ r.op \in {"signup", "invite"} /\ r.pc = "checked" /\ r.old = Null /\ r.reset = Null
  <2> DEFINE r == [NoRequest EXCEPT !.op = op, !.pc = "checked", !.user = u]
  <2>1. Step(s, r) /\ Ready(s) /\ Still
    BY <1>1 DEF BeginAccount
  <2>2. r.new = Null /\ r.op \in {"signup", "invite"} /\ r.pc = "checked" /\ r.old = Null /\ r.reset = Null
    BY <1>1 DEF NoRequest
  <2> HIDE DEF r
  <2> QED BY <2>1, <2>2, Moved DEF Ready
<1>2. ASSUME NEW u \in Users, Login(s, u)
      PROVE  /\ req[s] = NoRequest /\ Others(s) /\ Still
             /\ LET r == req'[s] IN r.new = Null /\ r.op = "login" /\ r.pc = "issue" /\ r.old = Null /\ r.reset = Null
  <2> DEFINE r == [NoRequest EXCEPT !.op = "login", !.pc = "issue", !.user = u]
  <2>1. Step(s, r) /\ Ready(s) /\ Still
    BY <1>2 DEF Login
  <2>2. r.new = Null /\ r.op = "login" /\ r.pc = "issue" /\ r.old = Null /\ r.reset = Null
    BY <1>2 DEF NoRequest
  <2> HIDE DEF r
  <2> QED BY <2>1, <2>2, Moved DEF Ready
<1>3. ASSUME NEW t \in Tokens, Renew(s, t)
      PROVE  /\ req[s] = NoRequest /\ Others(s) /\ Still
             /\ LET r == req'[s] IN
                /\ r.new = Null /\ r.op = "renew" /\ r.pc = "load" /\ s \in Renewers
                /\ r.old \in held /\ Redeemable(r.old) /\ r.reset = Null
  <2> DEFINE r == [NoRequest EXCEPT !.op = "renew", !.pc = "load", !.user = payload[t].user, !.old = t]
  <2>1. Step(s, r) /\ Ready(s) /\ Still /\ t \in held /\ s \in Renewers /\ Redeemable(t)
    BY <1>3 DEF Renew
  <2>2. /\ r.new = Null /\ r.op = "renew" /\ r.pc = "load" /\ s \in Renewers
        /\ r.old \in held /\ Redeemable(r.old) /\ r.reset = Null
    BY <1>3, <2>1 DEF NoRequest
  <2> HIDE DEF r
  <2> QED BY <2>1, <2>2, Moved DEF Ready
<1>4. ASSUME NEW t \in Tokens, SignOut(s, t)
      PROVE  /\ req[s] = NoRequest /\ Others(s) /\ Still
             /\ LET r == req'[s] IN
                /\ r.new = Null /\ r.op = "sign out" /\ r.pc = "revoke"
                /\ r.old \in held /\ Redeemable(r.old) /\ r.reset = Null
  <2> DEFINE r == [NoRequest EXCEPT !.op = "sign out", !.pc = "revoke", !.user = payload[t].user, !.old = t]
  <2>1. Step(s, r) /\ Ready(s) /\ Still /\ t \in held /\ Redeemable(t)
    BY <1>4 DEF SignOut
  <2>2. /\ r.new = Null /\ r.op = "sign out" /\ r.pc = "revoke"
        /\ r.old \in held /\ Redeemable(r.old) /\ r.reset = Null
    BY <1>4, <2>1 DEF NoRequest
  <2> HIDE DEF r
  <2> QED BY <2>1, <2>2, Moved DEF Ready
<1>5. ASSUME NEW u \in Users, NEW l \in Resets, ForgotPassword(s, u, l)
      PROVE  /\ req[s] = NoRequest /\ Others(s) /\ Still
             /\ LET r == req'[s] IN r.new = Null /\ r.op = "forgot" /\ r.pc = "mail" /\ r.old = Null /\ r.reset \in Resets
  <2> DEFINE r == [NoRequest EXCEPT !.op = "forgot", !.pc = "mail", !.user = u, !.reset = l]
  <2>1. Step(s, r) /\ Ready(s) /\ Still
    BY <1>5 DEF ForgotPassword
  <2>2. r.new = Null /\ r.op = "forgot" /\ r.pc = "mail" /\ r.old = Null /\ r.reset \in Resets
    BY <1>5 DEF NoRequest
  <2> HIDE DEF r
  <2> QED BY <2>1, <2>2, Moved DEF Ready
<1>6. ASSUME NEW l \in Resets, ResetPassword(s, l)
      PROVE  /\ req[s] = NoRequest /\ Others(s) /\ Still
             /\ LET r == req'[s] IN
                /\ r.new = Null /\ r.op = "reset" /\ r.pc = "select" /\ r.old = Null
                /\ r.reset \in Resets /\ s \in Resetters /\ Usable(r.reset)
  <2> DEFINE r == [NoRequest EXCEPT !.op = "reset", !.pc = "select", !.user = reset[l].user, !.reset = l]
  <2>1. Step(s, r) /\ Ready(s) /\ Still /\ s \in Resetters /\ Usable(l)
    BY <1>6 DEF ResetPassword
  <2>2. /\ r.new = Null /\ r.op = "reset" /\ r.pc = "select" /\ r.old = Null
        /\ r.reset \in Resets /\ s \in Resetters /\ Usable(r.reset)
    BY <1>6, <2>1 DEF NoRequest
  <2> HIDE DEF r
  <2> QED BY <2>1, <2>2, Moved DEF Ready
<1>7. ASSUME NEW u \in Users, NEW want \in BOOLEAN, UpdateAgent(s, u, want)
      PROVE  /\ req[s] = NoRequest /\ Others(s) /\ Still
             /\ LET r == req'[s] IN r.new = Null /\ r.op = "update" /\ r.pc = "commit" /\ r.old = Null /\ r.reset = Null
  <2> DEFINE r == [NoRequest EXCEPT !.op = "update", !.pc = "commit", !.user = u, !.seen = account[u].active, !.want = want]
  <2>1. Step(s, r) /\ Ready(s) /\ Still
    BY <1>7 DEF UpdateAgent
  <2>2. r.new = Null /\ r.op = "update" /\ r.pc = "commit" /\ r.old = Null /\ r.reset = Null
    BY <1>7 DEF NoRequest
  <2> HIDE DEF r
  <2> QED BY <2>1, <2>2, Moved DEF Ready
<1> QED BY <1>1, <1>2, <1>3, <1>4, <1>5, <1>6, <1>7 DEF BeginSession

\* Where a request at work goes.
LEMMA Continuations ==
    ASSUME IInv, NEW s \in Handlers
    PROVE  /\ FlushAccount(s) => /\ Others(s) /\ req[s].pc = "checked" /\ letters' = letters
                                 /\ \/ Ends(s)
                                    \/ /\ GoesOn(s, {"issue", "mail"})
                                       /\ req'[s].pc = IF req[s].op = "signup" THEN "issue" ELSE "mail"
                                       /\ ~Exists(req[s].user) /\ ~IndexHeld(s, req[s].user)
           /\ SendInvitation(s) => Others(s) /\ At(s, "invite", "mail") /\ GoesOn(s, {"commit"})
           /\ LoadUser(s) => Others(s) /\ At(s, "renew", "load") /\ (Ends(s) \/ GoesOn(s, {"issue"}))
           /\ RevokeFamily(s) => Others(s) /\ req[s].pc = "revoke" /\ GoesOn(s, {"mark"})
           /\ MarkFamily(s) => Others(s) /\ req[s].pc = "mark" /\ GoesOn(s, {"commit"})
           /\ CommitSession(s) => /\ Others(s) /\ req[s].pc = "commit"
                                  /\ req[s].op \in {"signup", "invite", "login", "renew", "sign out"}
                                  /\ \/ Ends(s)
                                     \/ req[s].new # Null /\ GoesOn(s, {"respond"})
           /\ Respond(s) => Others(s) /\ req[s].pc = "respond" /\ Ends(s)
           /\ MailReset(s) => Others(s) /\ At(s, "forgot", "mail") /\ GoesOn(s, {"commit"})
           /\ CommitForgot(s) => Others(s) /\ At(s, "forgot", "commit") /\ Ends(s)
           /\ SweepTokens(s) => Others(s) /\ req[s].pc = "sweep" /\ GoesOn(s, {"commit"})
           /\ CommitReset(s) => Others(s) /\ At(s, "reset", "commit") /\ Ends(s)
           /\ CommitUpdate(s) => Others(s) /\ At(s, "update", "commit") /\ Ends(s)
           /\ Die(s) => Others(s) /\ Ends(s)
<1>0. req[s] \in Request
  BY Typed
<1>a. ASSUME NEW pc, Step(s, [req[s] EXCEPT !.pc = pc])
      PROVE  Others(s) /\ GoesOn(s, {pc})
  <2> DEFINE r == [req[s] EXCEPT !.pc = pc]
  <2>1. Same(r, req[s]) /\ r.pc = pc
    BY <1>0, WithPc
  <2>2. Step(s, r)
    BY <1>a
  <2> HIDE DEF r
  <2> QED BY <2>1, <2>2, Moved DEF GoesOn
<1>b. ASSUME Step(s, NoRequest)
      PROVE  Others(s) /\ Ends(s)
  BY <1>b, Moved DEF Ends
<1>1. FlushAccount(s) => /\ Others(s) /\ req[s].pc = "checked" /\ letters' = letters
                         /\ \/ Ends(s)
                            \/ /\ GoesOn(s, {"issue", "mail"})
                               /\ req'[s].pc = IF req[s].op = "signup" THEN "issue" ELSE "mail"
                               /\ ~Exists(req[s].user) /\ ~IndexHeld(s, req[s].user)
  <2> HAVE FlushAccount(s)
  <2>1. CASE Exists(req[s].user)
    BY <2>1, Moved DEF FlushAccount, LettersAtFlush, Ends
  <2>2. CASE ~Exists(req[s].user)
    <3> DEFINE pc == IF req[s].op = "signup" THEN "issue" ELSE "mail"
               r == [req[s] EXCEPT !.pc = pc]
    <3>1. /\ Step(s, r) /\ req[s].pc = "checked" /\ letters' = letters /\ ~IndexHeld(s, req[s].user)
      BY <2>2 DEF FlushAccount, LettersAtFlush
    <3>2. Same(r, req[s]) /\ r.pc = pc
      BY <1>0, WithPc
    <3>3. pc \in {"issue", "mail"}
      OBVIOUS
    <3> HIDE DEF r
    <3> QED BY <2>2, <3>1, <3>2, <3>3, Moved DEF GoesOn
  <2> QED BY <2>1, <2>2
<1>2. SendInvitation(s) => Others(s) /\ At(s, "invite", "mail") /\ GoesOn(s, {"commit"})
  <2> HAVE SendInvitation(s)
  <2>1. Step(s, [req[s] EXCEPT !.pc = "commit"]) /\ At(s, "invite", "mail")
    BY DEF SendInvitation
  <2> QED BY <2>1, <1>a
<1>3. LoadUser(s) => Others(s) /\ At(s, "renew", "load") /\ (Ends(s) \/ GoesOn(s, {"issue"}))
  <2> HAVE LoadUser(s)
  <2>1. At(s, "renew", "load") /\ (Step(s, NoRequest) \/ Step(s, [req[s] EXCEPT !.pc = "issue"]))
    BY DEF LoadUser
  <2> QED BY <2>1, <1>a, <1>b
<1>4. RevokeFamily(s) => Others(s) /\ req[s].pc = "revoke" /\ GoesOn(s, {"mark"})
  <2> HAVE RevokeFamily(s)
  <2>1. Step(s, [req[s] EXCEPT !.pc = "mark"]) /\ req[s].pc = "revoke"
    BY DEF RevokeFamily
  <2> QED BY <2>1, <1>a
<1>5. MarkFamily(s) => Others(s) /\ req[s].pc = "mark" /\ GoesOn(s, {"commit"})
  <2> HAVE MarkFamily(s)
  <2>1. Step(s, [req[s] EXCEPT !.pc = "commit"]) /\ req[s].pc = "mark"
    BY DEF MarkFamily
  <2> QED BY <2>1, <1>a
<1>6. CommitSession(s) => /\ Others(s) /\ req[s].pc = "commit"
                          /\ req[s].op \in {"signup", "invite", "login", "renew", "sign out"}
                          /\ \/ Ends(s)
                             \/ req[s].new # Null /\ GoesOn(s, {"respond"})
  <2> HAVE CommitSession(s)
  <2>1. /\ req[s].pc = "commit"
        /\ req[s].op \in {"signup", "invite", "login", "renew", "sign out"}
        /\ \/ Step(s, NoRequest)
           \/ req[s].new # Null /\ Step(s, [req[s] EXCEPT !.pc = "respond"])
    BY DEF CommitSession
  <2> QED BY <2>1, <1>a, <1>b
<1>7. SweepTokens(s) => Others(s) /\ req[s].pc = "sweep" /\ GoesOn(s, {"commit"})
  <2> HAVE SweepTokens(s)
  <2>1. Step(s, [req[s] EXCEPT !.pc = "commit"]) /\ req[s].pc = "sweep"
    BY DEF SweepTokens
  <2> QED BY <2>1, <1>a
<1>8. MailReset(s) => Others(s) /\ At(s, "forgot", "mail") /\ GoesOn(s, {"commit"})
  <2> HAVE MailReset(s)
  <2>1. Step(s, [req[s] EXCEPT !.pc = "commit"]) /\ At(s, "forgot", "mail")
    BY DEF MailReset
  <2> QED BY <2>1, <1>a
<1>9. /\ Respond(s) => Others(s) /\ req[s].pc = "respond" /\ Ends(s)
      /\ CommitForgot(s) => Others(s) /\ At(s, "forgot", "commit") /\ Ends(s)
      /\ CommitReset(s) => Others(s) /\ At(s, "reset", "commit") /\ Ends(s)
      /\ CommitUpdate(s) => Others(s) /\ At(s, "update", "commit") /\ Ends(s)
      /\ Die(s) => Others(s) /\ Ends(s)
  BY <1>b DEF Respond, CommitForgot, CommitReset, CommitUpdate, Die
<1> QED BY <1>1, <1>2, <1>3, <1>4, <1>5, <1>6, <1>7, <1>8, <1>9

LEMMA Selecting ==
    ASSUME IInv, NEW s \in Handlers, SelectTokens(s)
    PROVE  Others(s) /\ req[s].pc = "select" /\ GoesOn(s, {"sweep"})
<1> DEFINE found == {t \in Tokens : token[t].user = req[s].user}
           r == [req[s] EXCEPT !.pc = "sweep", !.swept = found]
<1>1. Step(s, r) /\ req[s].pc = "select" /\ req[s] \in Request
  BY Typed DEF SelectTokens
<1> HIDE DEF found
<1>2. Same(r, req[s]) /\ r.pc = "sweep"
  BY <1>1 DEF Request, Same
<1> HIDE DEF r
<1> QED BY <1>1, <1>2, Moved DEF GoesOn

LEMMA Issuing ==
    ASSUME IInv, NEW s \in Handlers, NEW t \in Tokens, IssueToken(s, t)
    PROVE  /\ Others(s) /\ req[s].pc = "issue"
           /\ payload[t] = NoPayload /\ payload'[t].renews = req[s].old
           /\ \A v \in Tokens : v # t => payload'[v] = payload[v] /\ key'[v] = key[v]
           /\ UNCHANGED <<account, token, mark, held, reset, letters, deaths>>
           /\ LET r == req'[s] IN /\ r.op = req[s].op /\ r.user = req[s].user /\ r.old = req[s].old
                                  /\ r.reset = req[s].reset /\ r.new = t
                                  /\ r.pc = IF r.op = "renew" THEN "revoke" ELSE "commit"
<1> DEFINE pc == IF req[s].op = "renew" THEN "revoke" ELSE "commit"
           r == [req[s] EXCEPT !.new = t, !.pc = pc]
           load == [user |-> req[s].user, renews |-> req[s].old]
<1>1. /\ req[s].pc = "issue" /\ payload[t] = NoPayload
      /\ payload' = [payload EXCEPT ![t] = load] /\ key' = [key EXCEPT ![t] = TokenLife]
      /\ Step(s, r) /\ UNCHANGED <<account, token, mark, held, reset, letters, deaths>>
      /\ req[s] \in Request
  BY Typed DEF IssueToken
<1>2. load.renews = req[s].old
  OBVIOUS
<1> HIDE DEF load
<1>3. payload'[t].renews = req[s].old /\ \A v \in Tokens : v # t => payload'[v] = payload[v] /\ key'[v] = key[v]
  BY <1>1, <1>2, Typed
<1>4. /\ r.op = req[s].op /\ r.user = req[s].user /\ r.old = req[s].old
      /\ r.reset = req[s].reset /\ r.new = t /\ r.pc = pc
  BY <1>1 DEF Request
<1> HIDE DEF r
<1> QED BY <1>1, <1>3, <1>4, Moved

\* What Redis was given under a token stays, and so does a mark that outlasts it.
LEMMA KeysStay ==
    ASSUME IInv, [SessionsNext]_sessionVars, NEW t \in Tokens, payload[t] # NoPayload
    PROVE  payload'[t] = payload[t] /\ (key[t] <= mark[t] => key'[t] <= mark'[t])
<1>1. ASSUME NEW s \in Handlers, NEW v \in Tokens, IssueToken(s, v)
      PROVE  payload'[t] = payload[t] /\ (key[t] <= mark[t] => key'[t] <= mark'[t])
  BY <1>1, Issuing
<1>2. ASSUME NEW s \in Handlers, MarkFamily(s)
      PROVE  payload'[t] = payload[t] /\ (key[t] <= mark[t] => key'[t] <= mark'[t])
  <2>1. mark' = [mark EXCEPT ![req[s].old] = MarkLife] /\ UNCHANGED <<payload, key>>
    BY <1>2 DEF MarkFamily, MarkFor
  <2>2. key[t] \in Nat /\ key[t] <= TokenLife /\ mark \in [Tokens -> Nat]
    BY Typed DEF IInv, World, HomesInv
  <2>3. key[t] <= MarkLife
    BY <2>2, MarksOutlastTokens, SessionsAssumption
  <2> QED BY <2>1, <2>2, <2>3
<1>3. CASE Tick
  BY <1>3, Typed DEF Tick, OneLess
<1>4. ASSUME NEW s \in Handlers, BeginSession(s) \/ Die(s) PROVE UNCHANGED <<payload, key, mark>>
  BY <1>4, Beginnings DEF Die
<1>5. ASSUME NEW s \in Handlers,
             \/ FlushAccount(s) \/ SendInvitation(s) \/ LoadUser(s) \/ RevokeFamily(s) \/ CommitSession(s)
             \/ Respond(s) \/ MailReset(s) \/ CommitForgot(s) \/ SelectTokens(s) \/ SweepTokens(s)
             \/ CommitReset(s) \/ CommitUpdate(s)
      PROVE  UNCHANGED <<payload, key, mark>>
  BY <1>5 DEF FlushAccount, SendInvitation, LoadUser, RevokeFamily, CommitSession, Respond,
              MailReset, CommitForgot, SelectTokens, SweepTokens, CommitReset, CommitUpdate
<1>6. CASE (\E l \in Resets : ExpireReset(l)) \/ UNCHANGED sessionVars
  BY <1>6 DEF ExpireReset, sessionVars
<1> QED BY <1>1, <1>2, <1>3, <1>4, <1>5, <1>6 DEF SessionsNext, ContinueSession

LEMMA OpsInit == SessionsInit => OpsInv
BY DEF SessionsInit, OpsInv, OpsOf, NoRequest

LEMMA OpsKept ==
    ASSUME IInv, OpsInv, [SessionsNext]_sessionVars, NEW o \in Handlers, req'[o] = req[o]
    PROVE  OpsOf(o)'
<1>1. Knows(req[o], account, token, payload, key, mark, reset) /\ OpsOf(o) /\ req[o] \in Request
  BY Typed DEF OpsInv
<1>2. req[o].new # Null => req[o].new \in Tokens /\ payload[req[o].new] # NoPayload
  BY <1>1 DEF Knows, Request
<1>3. req[o].new # Null => payload'[req[o].new] = payload[req[o].new]
  BY <1>2, KeysStay
<1> QED BY <1>1, <1>3 DEF OpsOf

LEMMA OpsGoOn ==
    ASSUME IInv, OpsInv, [SessionsNext]_sessionVars, NEW s \in Handlers, Same(req'[s], req[s]),
           req[s].pc # "idle",
           req[s].reset # Null => req'[s].pc \in {"mail", "select", "sweep", "commit"},
           req'[s].pc = "mail" => req[s].op \in {"invite", "forgot"}
    PROVE  OpsOf(s)'
<1>1. Knows(req[s], account, token, payload, key, mark, reset) /\ OpsOf(s) /\ req[s] \in Request
  BY Typed DEF OpsInv
<1>2. req[s].new # Null => req[s].new \in Tokens /\ payload[req[s].new] # NoPayload
  BY <1>1 DEF Knows, Request
<1>3. req[s].new # Null => payload'[req[s].new] = payload[req[s].new]
  BY <1>2, KeysStay
<1>4. req[s].op # "none"
  BY <1>1, RestIsTyped DEF OpsOf
<1> QED BY <1>1, <1>3, <1>4 DEF OpsOf, Same

LEMMA OpsAtRest ==
    ASSUME NEW s \in Handlers, Ends(s) PROVE OpsOf(s)'
BY DEF Ends, OpsOf, NoRequest

LEMMA OpsStep == IInv /\ OpsInv /\ [SessionsNext]_sessionVars => OpsInv'
<1> SUFFICES ASSUME IInv, OpsInv, [SessionsNext]_sessionVars PROVE OpsInv'
  OBVIOUS
<1>1. ASSUME NEW s \in Handlers, Others(s), OpsOf(s)' PROVE OpsInv'
  BY <1>1, OpsKept DEF Others, OpsInv
<1>2. ASSUME UNCHANGED req PROVE OpsInv'
  BY <1>2, OpsKept DEF OpsInv
<1>3. ASSUME NEW s \in Handlers, BeginSession(s) PROVE OpsOf(s)'
  <2>1. Null \notin Resets
    BY SessionsAssumption
  <2> QED BY <1>3, <2>1, Beginnings, HeldIsSomebodys DEF OpsOf
<1>4. ASSUME NEW s \in Handlers
      PROVE  /\ OpsOf(s) /\ req[s] \in Request
             /\ Knows(req[s], account, token, payload, key, mark, reset)
  BY Typed DEF OpsInv
<1>5. ASSUME NEW s \in Handlers, FlushAccount(s) PROVE OpsOf(s)' /\ Others(s)
  <2>1. Others(s) /\ (Ends(s) \/ (/\ GoesOn(s, {"issue", "mail"})
                                  /\ req'[s].pc = IF req[s].op = "signup" THEN "issue" ELSE "mail"))
        /\ req[s].pc = "checked"
    BY <1>5, Continuations
  <2>2. req[s].op \in {"signup", "invite"} /\ req[s].reset = Null
    BY <1>4, <2>1 DEF Knows, OpsOf
  <2>3. CASE Ends(s)
    BY <2>1, <2>3, OpsAtRest
  <2>4. CASE ~Ends(s)
    BY <2>1, <2>2, <2>4, OpsGoOn DEF GoesOn
  <2> QED BY <2>1, <2>3, <2>4
<1>6. ASSUME NEW s \in Handlers, NEW t \in Tokens, IssueToken(s, t) PROVE OpsOf(s)' /\ Others(s)
  <2>1. /\ Others(s) /\ req[s].pc = "issue" /\ payload'[t].renews = req[s].old
        /\ LET r == req'[s] IN /\ r.op = req[s].op /\ r.user = req[s].user /\ r.old = req[s].old
                               /\ r.reset = req[s].reset /\ r.new = t
                               /\ r.pc = IF r.op = "renew" THEN "revoke" ELSE "commit"
    BY <1>6, Issuing
  <2>2. req[s].op \in {"signup", "login", "renew"}
    BY <1>4, <2>1 DEF Knows
  <2> QED BY <1>4, <2>1, <2>2 DEF OpsOf
<1>7. ASSUME NEW s \in Handlers, SendInvitation(s) \/ MailReset(s) \/ SweepTokens(s) \/ MarkFamily(s)
      PROVE  OpsOf(s)' /\ Others(s)
  <2>1. Others(s) /\ GoesOn(s, {"commit"}) /\ req[s].pc # "idle"
    BY <1>7, Continuations DEF At
  <2> QED BY <2>1, OpsGoOn DEF GoesOn
<1>8. ASSUME NEW s \in Handlers, LoadUser(s) PROVE OpsOf(s)' /\ Others(s)
  <2>1. Others(s) /\ At(s, "renew", "load") /\ (Ends(s) \/ GoesOn(s, {"issue"}))
    BY <1>8, Continuations
  <2>2. req[s].reset = Null /\ req[s].pc # "idle"
    BY <1>4, <2>1 DEF OpsOf, At
  <2>3. CASE Ends(s)
    BY <2>1, <2>3, OpsAtRest
  <2>4. CASE ~Ends(s)
    BY <2>1, <2>2, <2>4, OpsGoOn DEF GoesOn
  <2> QED BY <2>3, <2>4
<1>9. ASSUME NEW s \in Handlers, RevokeFamily(s) PROVE OpsOf(s)' /\ Others(s)
  <2>1. Others(s) /\ req[s].pc = "revoke" /\ GoesOn(s, {"mark"})
    BY <1>9, Continuations
  <2>2. req[s].reset = Null
    BY <1>4, <2>1 DEF OpsOf
  <2> QED BY <2>1, <2>2, OpsGoOn DEF GoesOn
<1>10. ASSUME NEW s \in Handlers, CommitSession(s) PROVE OpsOf(s)' /\ Others(s)
  <2>1. /\ Others(s) /\ req[s].pc = "commit" /\ (Ends(s) \/ GoesOn(s, {"respond"}))
        /\ req[s].op \in {"signup", "invite", "login", "renew", "sign out"}
    BY <1>10, Continuations
  <2>2. req[s].reset = Null
    BY <1>4, <2>1 DEF OpsOf
  <2>3. CASE Ends(s)
    BY <2>1, <2>3, OpsAtRest
  <2>4. CASE ~Ends(s)
    BY <2>1, <2>2, <2>4, OpsGoOn DEF GoesOn
  <2> QED BY <2>1, <2>3, <2>4
<1>11. ASSUME NEW s \in Handlers,
              Respond(s) \/ CommitForgot(s) \/ CommitReset(s) \/ CommitUpdate(s) \/ Die(s)
       PROVE  OpsOf(s)' /\ Others(s)
  BY <1>11, Continuations, OpsAtRest
<1>12. ASSUME NEW s \in Handlers, SelectTokens(s) PROVE OpsOf(s)' /\ Others(s)
  <2>1. Others(s) /\ req[s].pc = "select" /\ GoesOn(s, {"sweep"})
    BY <1>12, Selecting
  <2> QED BY <2>1, OpsGoOn DEF GoesOn
<1>13. CASE Tick \/ (\E l \in Resets : ExpireReset(l)) \/ UNCHANGED sessionVars
  BY <1>2, <1>13 DEF Tick, ExpireReset, sessionVars
<1>14. ASSUME NEW s \in Handlers, BeginSession(s) PROVE OpsOf(s)' /\ Others(s)
  BY <1>3, <1>14, Beginnings
<1> QED BY <1>1, <1>5, <1>6, <1>7, <1>8, <1>9, <1>10, <1>11, <1>12, <1>13, <1>14
        DEF SessionsNext, ContinueSession

-----------------------------------------------------------------------------
(* Renewals and resets *)

LEMMA RenewInit == SessionsInit => RenewInv /\ ResetInv
<1>1. NoReset.uses = 0 /\ NoReset.state = "none" /\ NoRequest.op = "none" /\ NoRequest.pc = "idle"
  BY DEF NoReset, NoRequest
<1> QED BY <1>1 DEF SessionsInit, RenewInv, RenewedOnce, ResetInv

\* A step that hands out no token leaves the renewals as they are.
LEMMA RenewAside ==
    ASSUME IInv, OpsInv, RenewInv, [SessionsNext]_sessionVars, held' = held,
           \A s \in Handlers : LET r == req'[s] IN
              /\ r.pc = "respond" /\ r.old # Null =>
                   key[r.old] <= mark[r.old] /\ payload[r.old] # NoPayload /\ r.old \in Tokens
              /\ r.op = "renew" => \A t \in held : payload[t].renews # r.old
    PROVE  RenewInv'
<1>1. ASSUME NEW t \in held
      PROVE  /\ payload'[t] = payload[t]
             /\ payload[t].renews # Null =>
                  LET old == payload[t].renews IN payload'[old] # NoPayload /\ key'[old] <= mark'[old]
  <2>1. t \in Tokens /\ payload[t] # NoPayload /\ payload[t].renews \in Tokens \cup {Null}
    BY HeldIsSomebodys DEF Payload
  <2>2. payload[t].renews # Null =>
          LET old == payload[t].renews IN payload[old] # NoPayload /\ key[old] <= mark[old]
    BY DEF RenewInv
  <2> QED BY <2>1, <2>2, KeysStay
<1>2. ASSUME NEW s \in Handlers
      PROVE  LET r == req'[s] IN
             /\ r.pc = "respond" /\ r.old # Null => key'[r.old] <= mark'[r.old]
             /\ r.op = "renew" => \A t \in held : payload'[t].renews # r.old
  BY <1>1, KeysStay
<1> QED BY <1>1, <1>2 DEF RenewInv, RenewedOnce

LEMMA RenewStep ==
    SerialRenewers /\ IInv /\ OpsInv /\ RenewInv /\ [SessionsNext]_sessionVars => RenewInv'
<1> SUFFICES ASSUME SerialRenewers, IInv, OpsInv, RenewInv, [SessionsNext]_sessionVars
             PROVE  RenewInv'
  OBVIOUS
<1>1. ASSUME NEW s \in Handlers
      PROVE  /\ OpsOf(s) /\ req[s] \in Request
             /\ Knows(req[s], account, token, payload, key, mark, reset)
             /\ req[s].pc = "respond" /\ req[s].old # Null =>
                  /\ key[req[s].old] <= mark[req[s].old] /\ payload[req[s].old] # NoPayload
                  /\ req[s].old \in Tokens
             /\ req[s].op = "renew" => \A t \in held : payload[t].renews # req[s].old
  BY Typed DEF OpsInv, Knows, RenewInv, Request
\* a step of one request that answers nothing
<1>2. ASSUME NEW s \in Handlers, Others(s), held' = held,
             LET r == req'[s] IN
             /\ r.pc = "respond" /\ r.old # Null =>
                  key[r.old] <= mark[r.old] /\ payload[r.old] # NoPayload /\ r.old \in Tokens
             /\ r.op = "renew" => \A t \in held : payload[t].renews # r.old
      PROVE  RenewInv'
  BY <1>1, <1>2, RenewAside DEF Others
<1>3. ASSUME NEW s \in Handlers, Others(s), held' = held,
             Ends(s) \/ (Same(req'[s], req[s]) /\ req'[s].pc # "respond")
      PROVE  RenewInv'
  <2>1. CASE Ends(s)
    BY <1>2, <1>3, <2>1, RestIsTyped DEF Ends
  <2>2. CASE ~Ends(s)
    BY <1>1, <1>2, <1>3, <2>2 DEF Same
  <2> QED BY <2>1, <2>2
<1>4. ASSUME NEW s \in Handlers, BeginSession(s) PROVE RenewInv'
  <2>1. Others(s) /\ held' = held /\ req'[s].pc # "respond"
    BY <1>4, Beginnings
  <2>2. req'[s].op = "renew" => req'[s].old \in held /\ Redeemable(req'[s].old)
    BY <1>4, Beginnings
  <2>3. ASSUME req'[s].op = "renew", NEW t \in held, payload[t].renews = req'[s].old PROVE FALSE
    <3>1. req'[s].old \in Tokens /\ key[req'[s].old] \in Nat /\ mark[req'[s].old] \in Nat
      BY <2>2, <2>3, Typed
    <3>2. key[req'[s].old] <= mark[req'[s].old]
      BY <2>3, <3>1, SessionsAssumption DEF RenewInv
    <3> QED BY <2>2, <2>3, <3>1, <3>2 DEF Redeemable
  <2> QED BY <1>2, <2>1, <2>3
<1>5. ASSUME NEW s \in Handlers, FlushAccount(s) \/ LoadUser(s) PROVE RenewInv'
  <2>1. Others(s) /\ (Ends(s) \/ GoesOn(s, {"issue", "mail"}))
    BY <1>5, Continuations DEF GoesOn
  <2>2. held' = held
    BY <1>5 DEF FlushAccount, LoadUser
  <2> QED BY <1>3, <2>1, <2>2 DEF GoesOn
<1>6. ASSUME NEW s \in Handlers,
             \/ SendInvitation(s) \/ RevokeFamily(s) \/ MarkFamily(s) \/ MailReset(s) \/ SweepTokens(s)
             \/ SelectTokens(s)
      PROVE  RenewInv'
  <2>1. Others(s) /\ GoesOn(s, {"commit", "mark", "sweep"})
    BY <1>6, Continuations, Selecting DEF GoesOn
  <2>2. held' = held
    BY <1>6 DEF SendInvitation, RevokeFamily, MarkFamily, MailReset, SweepTokens, SelectTokens
  <2> QED BY <1>3, <2>1, <2>2 DEF GoesOn
<1>7. ASSUME NEW s \in Handlers, NEW t \in Tokens, IssueToken(s, t) PROVE RenewInv'
  <2>1. Others(s) /\ held' = held /\ req'[s].op = req[s].op /\ req'[s].old = req[s].old
        /\ req'[s].pc # "respond"
    BY <1>7, Issuing
  <2> QED BY <1>1, <1>2, <2>1
<1>8. ASSUME NEW s \in Handlers, CommitSession(s) PROVE RenewInv'
  <2>1. Others(s) /\ req[s].pc = "commit" /\ (Ends(s) \/ GoesOn(s, {"respond"}))
    BY <1>8, Continuations
  <2>2. held' = held
    BY <1>8 DEF CommitSession
  <2>3. CASE Ends(s)
    BY <1>3, <2>1, <2>2, <2>3
  <2>4. CASE GoesOn(s, {"respond"})
    <3>1. req[s].old # Null => /\ key[req[s].old] <= mark[req[s].old] /\ payload[req[s].old] # NoPayload
                               /\ req[s].old \in Tokens
      BY <1>1, <2>1 DEF Knows, Request
    <3> QED BY <1>1, <1>2, <2>1, <2>2, <2>4, <3>1 DEF GoesOn, Same
  <2> QED BY <2>1, <2>3, <2>4
<1>9. ASSUME NEW s \in Handlers, CommitForgot(s) \/ CommitReset(s) \/ CommitUpdate(s) \/ Die(s)
      PROVE  RenewInv'
  <2>1. Others(s) /\ Ends(s)
    BY <1>9, Continuations
  <2>2. held' = held
    BY <1>9 DEF CommitForgot, CommitReset, CommitUpdate, Die
  <2> QED BY <1>3, <2>1, <2>2
<1>10. ASSUME NEW s \in Handlers, Respond(s) PROVE RenewInv'
  <2> DEFINE n == req[s].new
             old == req[s].old
  <2>1. /\ Others(s) /\ req[s].pc = "respond" /\ Ends(s) /\ held' = held \cup {n}
        /\ UNCHANGED <<payload, key, mark>>
    BY <1>10, Continuations DEF Respond
  <2>2. n \in Tokens /\ n # Null /\ payload[n].renews = old
    BY <1>1, <2>1 DEF Knows, OpsOf, Request
  <2>3. old # Null => payload[old] # NoPayload /\ key[old] <= mark[old] /\ req[s].op = "renew"
    BY <1>1, <2>1, <2>2 DEF OpsOf, Knows
  <2>4. \A t \in held : payload[t].renews = old => old = Null
    BY <1>1, <2>3
  <2> HIDE DEF n, old
  <2>5. ASSUME NEW t \in held', payload'[t].renews # Null
        PROVE  LET was == payload'[t].renews IN payload'[was] # NoPayload /\ key'[was] <= mark'[was]
    BY <2>1, <2>2, <2>3, <2>5 DEF RenewInv
  <2>6. \A o \in Handlers : o # s /\ old # Null => req'[o] = req[o] /\ req[o].op # "renew"
    <3>1. ASSUME NEW o \in Handlers, o # s, old # Null, req[o].op = "renew" PROVE FALSE
      BY <1>1, <2>3, <3>1 DEF OpsOf, SerialRenewers
    <3> QED BY <2>1, <3>1 DEF Others
  <2>7. ASSUME NEW o \in Handlers
        PROVE  LET r == req'[o] IN
               /\ r.pc = "respond" /\ r.old # Null => key'[r.old] <= mark'[r.old]
               /\ r.op = "renew" => \A t \in held' : payload'[t].renews # r.old
    <3>1. CASE o = s
      BY <2>1, <3>1, RestIsTyped DEF Ends
    <3>2. CASE o # s
      <4>1. req'[o] = req[o]
        BY <2>1, <3>2 DEF Others
      <4>2. req[o].op = "renew" => old = Null /\ req[o].old # Null
        BY <1>1, <2>6, <3>2 DEF Knows
      <4> QED BY <1>1, <2>1, <2>2, <4>1, <4>2
    <3> QED BY <3>1, <3>2
  <2>8. RenewedOnce'
    BY <2>1, <2>2, <2>4 DEF RenewInv, RenewedOnce
  <2> QED BY <2>5, <2>7, <2>8 DEF RenewInv
<1>11. CASE Tick \/ (\E l \in Resets : ExpireReset(l)) \/ UNCHANGED sessionVars
  <2>1. UNCHANGED <<req, held>>
    BY <1>11 DEF Tick, ExpireReset, sessionVars
  <2> QED BY <1>1, <2>1, RenewAside
<1> QED BY <1>4, <1>5, <1>6, <1>7, <1>8, <1>9, <1>10, <1>11 DEF SessionsNext, ContinueSession

\* A step that writes no reset and takes none up leaves them as they are.
LEMMA ResetAside ==
    ASSUME IInv, ResetInv, reset' = reset,
           \A s \in Handlers : req'[s].op = "reset" => reset[req'[s].reset].state # "used"
    PROVE  ResetInv'
BY DEF ResetInv

LEMMA ResetStep ==
    SerialResetters /\ IInv /\ OpsInv /\ ResetInv /\ [SessionsNext]_sessionVars => ResetInv'
<1> SUFFICES ASSUME SerialResetters, IInv, OpsInv, ResetInv, [SessionsNext]_sessionVars
             PROVE  ResetInv'
  OBVIOUS
<1>1. ASSUME NEW s \in Handlers
      PROVE  /\ OpsOf(s) /\ req[s] \in Request
             /\ req[s].op = "reset" => req[s].reset \in Resets /\ reset[req[s].reset].state # "used"
                                       /\ reset[req[s].reset] \in Reset
  BY Typed DEF OpsInv, ResetInv, Knows
<1>2. ASSUME NEW s \in Handlers, Others(s), reset' = reset,
             Ends(s) \/ req'[s].op # "reset" \/ (req'[s].op = req[s].op /\ req'[s].reset = req[s].reset)
      PROVE  ResetInv'
  <2>1. NoRequest.op = "none"
    BY DEF NoRequest
  <2> QED BY <1>1, <1>2, <2>1, ResetAside DEF Others, Ends
<1>3. ASSUME NEW s \in Handlers, BeginSession(s) PROVE ResetInv'
  <2>1. Others(s) /\ reset' = reset /\ (req'[s].op = "reset" => Usable(req'[s].reset))
    BY <1>3, Beginnings
  <2> QED BY <1>1, <2>1, ResetAside DEF Others, Usable
<1>4. ASSUME NEW s \in Handlers,
             \/ FlushAccount(s) \/ SendInvitation(s) \/ LoadUser(s) \/ RevokeFamily(s) \/ MarkFamily(s)
             \/ CommitSession(s) \/ Respond(s) \/ MailReset(s) \/ SelectTokens(s) \/ SweepTokens(s)
             \/ CommitUpdate(s) \/ Die(s)
      PROVE  ResetInv'
  <2>1. Others(s) /\ (Ends(s) \/ Same(req'[s], req[s]))
    BY <1>4, Continuations, Selecting DEF GoesOn
  <2>2. reset' = reset
    BY <1>4 DEF FlushAccount, SendInvitation, LoadUser, RevokeFamily, MarkFamily, CommitSession,
                Respond, MailReset, SelectTokens, SweepTokens, CommitUpdate, Die
  <2> QED BY <1>2, <2>1, <2>2 DEF Same
<1>5. ASSUME NEW s \in Handlers, NEW t \in Tokens, IssueToken(s, t) PROVE ResetInv'
  BY <1>2, <1>5, Issuing
<1>6. ASSUME NEW s \in Handlers, CommitForgot(s) PROVE ResetInv'
  <2> DEFINE row == [user |-> req[s].user, state |-> "open", uses |-> 0]
             l == req[s].reset
  <2>1. Others(s) /\ Ends(s) /\ At(s, "forgot", "commit") /\ reset' = [reset EXCEPT ![l] = row]
    BY <1>6, Continuations DEF CommitForgot
  <2>2. row.state = "open" /\ row.uses = 0
    OBVIOUS
  <2> HIDE DEF row
  <2>3. l \in Resets
    BY <1>1, <2>1, Typed DEF At, Knows
  <2>4. reset'[l] = row /\ \A v \in Resets : v # l => reset'[v] = reset[v]
    BY <2>1, <2>3, Typed
  <2>5. \A o \in Handlers : req'[o].op = "reset" => req'[o] = req[o]
    BY <2>1, RestIsTyped DEF Others, Ends
  <2> QED BY <1>1, <2>2, <2>4, <2>5 DEF ResetInv
<1>7. ASSUME NEW s \in Handlers, CommitReset(s) PROVE ResetInv'
  <2> DEFINE l == req[s].reset
             row == Spent(reset[l])
  <2>1. Others(s) /\ Ends(s) /\ At(s, "reset", "commit") /\ reset' = [reset EXCEPT ![l] = row]
    BY <1>7, Continuations DEF CommitReset
  <2>2. l \in Resets /\ reset[l].state # "used" /\ reset[l] \in Reset
    BY <1>1, <2>1 DEF At
  <2>3. reset[l].uses = 0
    BY <2>2 DEF ResetInv
  <2>4. row.state = "used" /\ row.uses = 1
    BY <2>2, <2>3 DEF Spent, Reset
  <2> HIDE DEF row, l
  <2>5. reset'[l] = row /\ \A v \in Resets : v # l => reset'[v] = reset[v]
    BY <2>1, <2>2, Typed
  <2>6. \A o \in Handlers : req'[o].op # "reset"
    <3>1. ASSUME NEW o \in Handlers, o # s, req[o].op = "reset" PROVE FALSE
      BY <1>1, <2>1, <3>1 DEF OpsOf, SerialResetters, At
    <3> QED BY <2>1, <3>1, RestIsTyped DEF Others, Ends
  <2> QED BY <2>4, <2>5, <2>6 DEF ResetInv
<1>8. ASSUME NEW l \in Resets, ExpireReset(l) PROVE ResetInv'
  <2> DEFINE row == [reset[l] EXCEPT !.state = "expired"]
  <2>1. reset' = [reset EXCEPT ![l] = row] /\ reset[l].state = "open" /\ UNCHANGED req
    BY <1>8 DEF ExpireReset
  <2>2. reset[l] \in Reset
    <3>1. NoReset.state = "none"
      BY DEF NoReset
    <3> QED BY <2>1, <3>1, Typed
  <2>3. row.state = "expired" /\ row.uses = reset[l].uses /\ reset[l].uses = 0
    BY <2>1, <2>2 DEF Reset, ResetInv
  <2> HIDE DEF row
  <2>4. reset'[l] = row /\ \A v \in Resets : v # l => reset'[v] = reset[v]
    BY <2>1, Typed
  <2> QED BY <1>1, <2>1, <2>3, <2>4 DEF ResetInv
<1>9. CASE Tick \/ UNCHANGED sessionVars
  BY <1>1, <1>9, ResetAside DEF Tick, sessionVars
<1> QED BY <1>3, <1>4, <1>5, <1>6, <1>7, <1>8, <1>9 DEF SessionsNext, ContinueSession

\* What may be redeemed, a refresh token by a renewal or a reset token by a reset, is
\* redeemed once if renewals do not overlap with renewals, nor resets with resets,
\* however they overlap with anything else and whenever a request dies.
THEOREM RedeemedOnceOnly == SerialRenewers /\ SerialResetters => (SessionsSpec => []RedeemedOnce)
<1> SUFFICES ASSUME SerialRenewers, SerialResetters PROVE SessionsSpec => []RedeemedOnce
  OBVIOUS
<1>1. SessionsInit => OpsInv /\ RenewInv /\ ResetInv
  BY OpsInit, RenewInit
<1>2. IInv /\ (OpsInv /\ RenewInv /\ ResetInv) /\ [SessionsNext]_sessionVars
        => (OpsInv /\ RenewInv /\ ResetInv)'
  BY OpsStep, RenewStep, ResetStep
<1>3. RenewInv /\ ResetInv => RedeemedOnce
  BY DEF RenewInv, ResetInv, RedeemedOnce, ResetOnce
<1> QED BY <1>1, <1>2, <1>3, SessionsAlways, PTL DEF SessionsSpec

-----------------------------------------------------------------------------
(* Accounts that are written once, and the letters about them *)

LEMMA FlushInit == SessionsInit => FlushInv
BY DEF SessionsInit, FlushInv, Flushed, NoRequest

\* A step after which no more accounts are flushed than before.
LEMMA FlushAside ==
    ASSUME FlushInv, NEW s \in Handlers, Others(s),
           Flushed(s)' => Flushed(s) /\ req'[s].user = req[s].user,
           \A o \in Handlers : Flushed(o)' /\ account[req'[o].user] = NoAccount
                                 => account'[req'[o].user] = NoAccount
    PROVE  FlushInv'
<1>1. \A o \in Handlers : Flushed(o)' => Flushed(o) /\ req'[o].user = req[o].user
  BY DEF Others, Flushed
<1> QED BY <1>1 DEF FlushInv

LEMMA FlushStep == IInv /\ OpsInv /\ FlushInv /\ [SessionsNext]_sessionVars => FlushInv'
<1> SUFFICES ASSUME IInv, OpsInv, FlushInv, [SessionsNext]_sessionVars PROVE FlushInv'
  OBVIOUS
<1>1. ASSUME NEW s \in Handlers
      PROVE  /\ OpsOf(s) /\ req[s] \in Request
             /\ Knows(req[s], account, token, payload, key, mark, reset)
  BY Typed DEF OpsInv
<1>2. ASSUME NEW s \in Handlers, Ends(s) PROVE ~Flushed(s)'
  BY <1>2, RestIsTyped DEF Ends, Flushed
<1>3. ASSUME NEW s \in Handlers, BeginSession(s) PROVE FlushInv'
  <2>1. Others(s) /\ account' = account /\ ~Flushed(s)'
    BY <1>3, Beginnings DEF Flushed
  <2> QED BY <2>1, FlushAside
<1>4. ASSUME NEW s \in Handlers, FlushAccount(s) PROVE FlushInv'
  <2>1. /\ Others(s) /\ req[s].pc = "checked" /\ account' = account
        /\ \/ Ends(s)
           \/ /\ Same(req'[s], req[s]) /\ ~Exists(req[s].user) /\ ~IndexHeld(s, req[s].user)
    BY <1>4, Continuations DEF GoesOn, FlushAccount
  <2>2. CASE Ends(s)
    BY <1>2, <2>1, <2>2, FlushAside
  <2>3. CASE ~Ends(s)
    <3>1. \A o \in Handlers : o # s /\ Flushed(o)' => /\ Flushed(o) /\ req'[o].user = req[o].user
                                                     /\ req[o].user # req[s].user
      BY <2>1, <2>3 DEF Others, Flushed, IndexHeld
    <3>2. account[req'[s].user] = NoAccount /\ req'[s].user = req[s].user
      BY <2>1, <2>3 DEF Same, Exists
    <3> QED BY <2>1, <3>1, <3>2 DEF FlushInv
  <2> QED BY <2>2, <2>3
<1>5. ASSUME NEW s \in Handlers,
             \/ SendInvitation(s) \/ LoadUser(s) \/ RevokeFamily(s) \/ MarkFamily(s)
             \/ Respond(s) \/ MailReset(s) \/ SelectTokens(s) \/ SweepTokens(s)
             \/ CommitForgot(s) \/ CommitReset(s) \/ Die(s)
      PROVE  FlushInv'
  <2>1. Others(s) /\ account' = account
    BY <1>5, Continuations, Selecting
       DEF SendInvitation, LoadUser, RevokeFamily, MarkFamily, Respond, MailReset, SelectTokens,
           SweepTokens, CommitForgot, CommitReset, Die
  <2>2. Flushed(s)' => Flushed(s) /\ req'[s].user = req[s].user
    <3>1. CASE SendInvitation(s)
      BY <3>1, Continuations DEF GoesOn, Same, Flushed, At
    <3>2. CASE ~SendInvitation(s)
      <4>1. Ends(s) \/ (Same(req'[s], req[s]) /\ req[s].op \notin {"signup", "invite"})
        BY <1>1, <1>5, <3>2, Continuations, Selecting DEF GoesOn, At, Knows
      <4> QED BY <1>2, <4>1 DEF Same, Flushed
    <3> QED BY <3>1, <3>2
  <2> QED BY <2>1, <2>2, FlushAside
<1>6. ASSUME NEW s \in Handlers, NEW t \in Tokens, IssueToken(s, t) PROVE FlushInv'
  <2>1. /\ Others(s) /\ account' = account /\ req[s].pc = "issue"
        /\ req'[s].op = req[s].op /\ req'[s].user = req[s].user
    BY <1>6, Issuing
  <2> QED BY <2>1, FlushAside DEF Flushed
<1>7. ASSUME NEW s \in Handlers, CommitSession(s) PROVE FlushInv'
  <2>1. /\ Others(s) /\ req[s].pc = "commit" /\ (Ends(s) \/ GoesOn(s, {"respond"}))
        /\ account' = IF req[s].op \in {"signup", "invite"}
                      THEN [account EXCEPT ![req[s].user] = [role |-> RoleOf(req[s].op), active |-> TRUE]]
                      ELSE account
    BY <1>7, Continuations DEF CommitSession
  <2>2. ~Flushed(s)'
    BY <1>2, <2>1 DEF GoesOn, Flushed
  <2>3. ASSUME NEW o \in Handlers, Flushed(o)' PROVE account'[req'[o].user] = account[req'[o].user]
    <3>1. o # s /\ Flushed(o) /\ req'[o].user = req[o].user /\ req[o].user \in Users
      BY <1>1, <2>1, <2>2, <2>3 DEF Others, Flushed, Knows
    <3>2. req[s].op \in {"signup", "invite"} => req[o].user # req[s].user
      BY <2>1, <3>1 DEF FlushInv, Flushed
    <3> QED BY <2>1, <3>1, <3>2, Typed
  <2> QED BY <2>1, <2>2, <2>3, FlushAside
<1>8. ASSUME NEW s \in Handlers, CommitUpdate(s) PROVE FlushInv'
  <2>1. /\ Others(s) /\ Ends(s) /\ At(s, "update", "commit")
        /\ account' \in {account, [account EXCEPT ![req[s].user].active = req[s].want]}
    BY <1>8, Continuations DEF CommitUpdate
  <2>2. ~Flushed(s)' /\ req[s].user \in Users /\ account[req[s].user] # NoAccount
    BY <1>1, <1>2, <2>1 DEF Knows, At
  <2>3. \A u \in Users : account[u] = NoAccount => account'[u] = NoAccount
    BY <2>1, <2>2, Typed
  <2>4. \A o \in Handlers : Flushed(o)' => req'[o].user \in Users
    BY <1>1, <2>1, <2>2 DEF Flushed, Others, Knows
  <2> QED BY <2>1, <2>2, <2>3, <2>4, FlushAside
<1>9. CASE Tick \/ (\E l \in Resets : ExpireReset(l)) \/ UNCHANGED sessionVars
  BY <1>9 DEF Tick, ExpireReset, sessionVars, FlushInv, Flushed
<1> QED BY <1>3, <1>4, <1>5, <1>6, <1>7, <1>8, <1>9 DEF SessionsNext, ContinueSession

Inviting(s) == At(s, "invite", "commit")

\* A step of one request misleads nobody, but perhaps about x.
LEMMA MisledOnlyAbout ==
    ASSUME NEW s \in Handlers, NEW x, Others(s),
           \A u \in Users : account[u].role = "agent" => account'[u].role = "agent",
           \A l \in Resets : reset[l] # NoReset => reset'[l] # NoReset,
           \A u \in Users : u \in letters' => u \in letters \/ (Inviting(s)' /\ req'[s].user = u),
           \A l \in Resets : l \in letters' => l \in letters \/ req'[s].reset = l,
           Inviting(s) => \/ Inviting(s)' /\ req'[s].user = req[s].user
                          \/ account'[req[s].user].role = "agent"
                          \/ x = req[s].user,
           req[s].reset \in Resets => \/ req'[s].reset = req[s].reset
                                      \/ reset'[req[s].reset] # NoReset
                                      \/ x = req[s].reset
    PROVE  Misled' \subseteq Misled \cup {x}
<1>1. ASSUME NEW u \in letters' \cap Users, account'[u].role # "agent",
             \A o \in Handlers : ~(req'[o].user = u /\ Inviting(o)'), u # x
      PROVE  u \in letters /\ account[u].role # "agent" /\ \A o \in Handlers : ~(req[o].user = u /\ Inviting(o))
  <2>1. \A o \in Handlers : o # s => ~(req[o].user = u /\ Inviting(o))
    BY <1>1 DEF Others, Inviting, At
  <2> QED BY <1>1, <2>1
<1>2. ASSUME NEW l \in letters' \cap Resets, reset'[l] = NoReset,
             \A o \in Handlers : req'[o].reset # l, l # x
      PROVE  l \in letters /\ reset[l] = NoReset /\ \A o \in Handlers : req[o].reset # l
  <2>1. \A o \in Handlers : o # s => req[o].reset # l
    BY <1>2 DEF Others
  <2> QED BY <1>2, <2>1
<1>3. \A o \in Handlers : Inviting(o) <=> At(o, "invite", "commit")
  BY DEF Inviting
<1>4. \A o \in Handlers : Inviting(o)' <=> At(o, "invite", "commit")'
  BY DEF Inviting
<1> QED BY <1>1, <1>2, <1>3, <1>4 DEF Misled

\* A step of one request that keeps the accounts, the resets and the letters.
LEMMA MisledAside ==
    ASSUME NEW s \in Handlers, Others(s), UNCHANGED <<account, reset, letters>>,
           ~Inviting(s), req[s].reset = Null \/ req'[s].reset = req[s].reset
    PROVE  Misled' \subseteq Misled
<1>1. Null \notin Users \cup Resets
  BY SessionsAssumption
<1>2. Misled' \subseteq Misled \cup {Null}
  BY <1>1, MisledOnlyAbout
<1> QED BY <1>1, <1>2 DEF Misled

LEMMA MisledStep ==
    ASSUME IInv, OpsInv, FlushInv, [SessionsNext]_sessionVars
    PROVE  \/ Misled' \subseteq Misled /\ deaths' = deaths
           \/ \E x : Misled' \subseteq Misled \cup {x} /\ deaths' = deaths + 1
<1>0. Null \notin Users \cup Resets /\ (Misled' \subseteq Misled \cup {Null} => Misled' \subseteq Misled)
      /\ Users \cap Resets = {}
  BY SessionsAssumption DEF Misled
<1>1. ASSUME NEW s \in Handlers
      PROVE  /\ OpsOf(s) /\ req[s] \in Request
             /\ Knows(req[s], account, token, payload, key, mark, reset)
  BY Typed DEF OpsInv
<1>2. ASSUME NEW s \in Handlers, BeginSession(s) PROVE Misled' \subseteq Misled /\ deaths' = deaths
  <2>1. /\ Others(s) /\ req[s] = NoRequest /\ UNCHANGED <<account, reset, letters, deaths>>
    BY <1>2, Beginnings
  <2>2. ~Inviting(s) /\ req[s].reset = Null
    BY <2>1 DEF NoRequest, Inviting, At
  <2> QED BY <2>1, <2>2, MisledAside
<1>3. ASSUME NEW s \in Handlers, FlushAccount(s) PROVE Misled' \subseteq Misled /\ deaths' = deaths
  <2>1. /\ Others(s) /\ req[s].pc = "checked" /\ UNCHANGED <<account, reset, letters, deaths>>
    BY <1>3, Continuations DEF FlushAccount
  <2>2. ~Inviting(s) /\ req[s].reset = Null
    BY <1>1, <2>1 DEF OpsOf, Knows, Inviting, At
  <2> QED BY <2>1, <2>2, MisledAside
<1>4. ASSUME NEW s \in Handlers, NEW t \in Tokens, IssueToken(s, t)
      PROVE  Misled' \subseteq Misled /\ deaths' = deaths
  <2>1. /\ Others(s) /\ req[s].pc = "issue" /\ req'[s].reset = req[s].reset
        /\ UNCHANGED <<account, reset, letters, deaths>>
    BY <1>4, Issuing
  <2> QED BY <2>1, MisledAside DEF Inviting, At
<1>5. ASSUME NEW s \in Handlers,
             LoadUser(s) \/ RevokeFamily(s) \/ MarkFamily(s) \/ Respond(s) \/ SelectTokens(s) \/ SweepTokens(s)
      PROVE  Misled' \subseteq Misled /\ deaths' = deaths
  <2>1. UNCHANGED <<account, reset, letters, deaths>>
    BY <1>5 DEF LoadUser, RevokeFamily, MarkFamily, Respond, SelectTokens, SweepTokens
  <2>2. /\ Others(s) /\ req[s].pc # "commit"
        /\ Same(req'[s], req[s]) \/ req[s].op = "renew" \/ req[s].pc = "respond"
    BY <1>5, Continuations, Selecting DEF GoesOn, At
  <2>3. req[s].reset = Null \/ req'[s].reset = req[s].reset
    BY <1>1, <2>2 DEF OpsOf, Same
  <2> QED BY <2>1, <2>2, <2>3, MisledAside DEF Inviting, At
<1>6. ASSUME NEW s \in Handlers, SendInvitation(s) PROVE Misled' \subseteq Misled /\ deaths' = deaths
  <2>1. /\ Others(s) /\ At(s, "invite", "mail") /\ GoesOn(s, {"commit"})
        /\ letters' \subseteq letters \cup {req[s].user} /\ UNCHANGED <<account, reset, deaths>>
    BY <1>6, Continuations DEF SendInvitation
  <2>2. Inviting(s)' /\ req'[s].user = req[s].user /\ req'[s].reset = req[s].reset /\ req[s].user \in Users
    BY <1>1, <2>1 DEF GoesOn, Same, Inviting, At, Knows
  <2>3. ~Inviting(s)
    BY <2>1 DEF Inviting, At
  <2>4. Misled' \subseteq Misled \cup {Null}
    BY <1>0, <2>1, <2>2, <2>3, MisledOnlyAbout
  <2> QED BY <1>0, <2>1, <2>4
<1>7. ASSUME NEW s \in Handlers, MailReset(s) PROVE Misled' \subseteq Misled /\ deaths' = deaths
  <2>1. /\ Others(s) /\ At(s, "forgot", "mail") /\ GoesOn(s, {"commit"})
        /\ letters' = letters \cup {req[s].reset} /\ UNCHANGED <<account, reset, deaths>>
    BY <1>7, Continuations DEF MailReset
  <2>2. req'[s].reset = req[s].reset /\ req[s].reset \in Resets /\ ~Inviting(s)
    BY <1>1, <2>1 DEF GoesOn, Same, Inviting, At, Knows
  <2>3. Misled' \subseteq Misled \cup {Null}
    BY <1>0, <2>1, <2>2, MisledOnlyAbout
  <2> QED BY <1>0, <2>1, <2>3
<1>8. ASSUME NEW s \in Handlers, CommitSession(s) PROVE Misled' \subseteq Misled /\ deaths' = deaths
  <2> DEFINE row == [role |-> RoleOf(req[s].op), active |-> TRUE]
             u == req[s].user
  <2>1. /\ Others(s) /\ req[s].pc = "commit" /\ UNCHANGED <<reset, letters, deaths>>
        /\ req[s].op \in {"signup", "invite", "login", "renew", "sign out"}
        /\ account' = IF req[s].op \in {"signup", "invite"} THEN [account EXCEPT ![u] = row] ELSE account
    BY <1>8, Continuations DEF CommitSession
  <2>2. req[s].op = "invite" => row.role = "agent"
    BY DEF RoleOf
  <2> HIDE DEF row
  <2>3. req[s].reset = Null /\ u \in Users
    BY <1>1, <2>1 DEF OpsOf, Knows
  <2>4. req[s].op \in {"signup", "invite"} => account[u].role # "agent"
    <3>1. NoAccount.role # "agent"
      BY DEF NoAccount
    <3>2. req[s].op \in {"signup", "invite"} => account[u] = NoAccount
      BY <2>1 DEF FlushInv, Flushed
    <3> QED BY <3>1, <3>2
  <2>5. \A v \in Users : account[v].role = "agent" => account'[v].role = "agent"
    BY <2>1, <2>3, <2>4, Typed
  <2>6. Inviting(s) => account'[u].role = "agent"
    BY <2>1, <2>2, <2>3, Typed DEF Inviting, At
  <2>7. Misled' \subseteq Misled \cup {Null}
    BY <1>0, <2>1, <2>3, <2>5, <2>6, MisledOnlyAbout
  <2> QED BY <1>0, <2>1, <2>7
<1>9. ASSUME NEW s \in Handlers, CommitForgot(s) PROVE Misled' \subseteq Misled /\ deaths' = deaths
  <2> DEFINE row == [user |-> req[s].user, state |-> "open", uses |-> 0]
             l == req[s].reset
  <2>1. /\ Others(s) /\ At(s, "forgot", "commit") /\ reset' = [reset EXCEPT ![l] = row]
        /\ UNCHANGED <<account, letters, deaths>>
    BY <1>9, Continuations DEF CommitForgot
  <2>2. row # NoReset
    <3>1. row.state = "open" /\ NoReset.state = "none"
      BY DEF NoReset
    <3> QED BY <3>1
  <2> HIDE DEF row
  <2>3. l \in Resets /\ ~Inviting(s)
    BY <1>1, <2>1 DEF Inviting, At, Knows
  <2>4. reset'[l] # NoReset /\ \A v \in Resets : reset[v] # NoReset => reset'[v] # NoReset
    BY <2>1, <2>2, <2>3, Typed
  <2>5. Misled' \subseteq Misled \cup {Null}
    BY <1>0, <2>1, <2>3, <2>4, MisledOnlyAbout
  <2> QED BY <1>0, <2>1, <2>5
<1>10. ASSUME NEW s \in Handlers, CommitReset(s) PROVE Misled' \subseteq Misled /\ deaths' = deaths
  <2> DEFINE l == req[s].reset
             row == Spent(reset[l])
  <2>1. /\ Others(s) /\ At(s, "reset", "commit") /\ reset' = [reset EXCEPT ![l] = row]
        /\ UNCHANGED <<account, letters, deaths>>
    BY <1>10, Continuations DEF CommitReset
  <2>2. l \in Resets /\ ~Inviting(s) /\ reset[l] \in Reset
    BY <1>1, <2>1 DEF Inviting, At, Knows
  <2>3. row # NoReset
    <3>1. row.state = "used" /\ NoReset.state = "none"
      BY <2>2 DEF NoReset, Spent, Reset
    <3> QED BY <3>1
  <2> HIDE DEF row
  <2>4. reset'[l] # NoReset /\ \A v \in Resets : reset[v] # NoReset => reset'[v] # NoReset
    BY <2>1, <2>2, <2>3, Typed
  <2>5. Misled' \subseteq Misled \cup {Null}
    BY <1>0, <2>1, <2>2, <2>4, MisledOnlyAbout
  <2> QED BY <1>0, <2>1, <2>5
<1>11. ASSUME NEW s \in Handlers, CommitUpdate(s) PROVE Misled' \subseteq Misled /\ deaths' = deaths
  <2> DEFINE u == req[s].user
             row == [account[u] EXCEPT !.active = req[s].want]
  <2>1. /\ Others(s) /\ At(s, "update", "commit") /\ account' \in {account, [account EXCEPT ![u] = row]}
        /\ UNCHANGED <<reset, letters, deaths>>
    BY <1>11, Continuations DEF CommitUpdate
  <2>2. req[s].reset = Null /\ u \in Users /\ account[u] \in Account /\ ~Inviting(s)
    <3>1. req[s].op = "update" /\ req[s].pc = "commit"
      BY <2>1 DEF At
    <3>2. req[s].reset = Null /\ u \in Users /\ account[u] # NoAccount
      BY <1>1, <3>1 DEF OpsOf, Knows
    <3> QED BY <3>1, <3>2, Typed DEF Inviting, At
  <2>3. row.role = account[u].role
    BY <2>2 DEF Account
  <2> HIDE DEF row
  <2>4. \A v \in Users : account[v].role = "agent" => account'[v].role = "agent"
    BY <2>1, <2>2, <2>3, Typed
  <2>5. Misled' \subseteq Misled \cup {Null}
    BY <1>0, <2>1, <2>2, <2>4, MisledOnlyAbout
  <2> QED BY <1>0, <2>1, <2>5
<1>12. ASSUME NEW s \in Handlers, Die(s)
       PROVE  \E x : Misled' \subseteq Misled \cup {x} /\ deaths' = deaths + 1
  <2> DEFINE x == IF req[s].op = "invite" THEN req[s].user ELSE req[s].reset
  <2>1. Others(s) /\ UNCHANGED <<account, reset, letters>> /\ deaths' = deaths + 1
    BY <1>12, Continuations DEF Die
  <2>2. /\ Inviting(s) => x = req[s].user
        /\ req[s].reset \in Resets => x = req[s].reset
    BY <1>0, <1>1 DEF Inviting, At, OpsOf
  <2> HIDE DEF x
  <2>3. Misled' \subseteq Misled \cup {x}
    BY <2>1, <2>2, MisledOnlyAbout
  <2> QED BY <2>1, <2>3
<1>13. ASSUME NEW l \in Resets, ExpireReset(l) PROVE Misled' \subseteq Misled /\ deaths' = deaths
  <2> DEFINE row == [reset[l] EXCEPT !.state = "expired"]
  <2>1. reset' = [reset EXCEPT ![l] = row] /\ reset[l].state = "open"
        /\ UNCHANGED <<account, req, letters, deaths>>
    BY <1>13 DEF ExpireReset
  <2>2. NoReset.state = "none"
    BY DEF NoReset
  <2>3. \A v \in Resets : reset'[v] = NoReset => reset[v] = NoReset
    <3>1. reset[l] \in Reset
      BY <2>1, <2>2, Typed
    <3>2. row.state = "expired"
      BY <3>1 DEF Reset
    <3> HIDE DEF row
    <3> QED BY <2>1, <2>2, <3>2, Typed
  <2> QED BY <2>1, <2>3 DEF Misled, At
<1>14. CASE Tick \/ UNCHANGED sessionVars
  BY <1>14 DEF Tick, sessionVars, Misled, At
<1> QED BY <1>2, <1>3, <1>4, <1>5, <1>6, <1>7, <1>8, <1>9, <1>10, <1>11, <1>12, <1>13, <1>14
        DEF SessionsNext, ContinueSession

LEMMA LettersStep ==
    ASSUME IInv, OpsInv, FlushInv, LettersHold, [SessionsNext]_sessionVars
    PROVE  LettersHold'
<1>1. IsFiniteSet(Users \cup Resets)
  BY SessionsAssumption, FS_Union
<1>2. IsFiniteSet(Misled) /\ Cardinality(Misled) \in Nat /\ Cardinality(Misled) <= deaths /\ deaths \in Nat
  BY <1>1, FS_Subset, FS_CardinalityType, Typed DEF Misled, LettersHold
<1>3. CASE Misled' \subseteq Misled /\ deaths' = deaths
  <2>1. Cardinality(Misled') \in Nat /\ Cardinality(Misled') <= Cardinality(Misled)
    BY <1>2, <1>3, FS_Subset, FS_CardinalityType
  <2> QED BY <1>2, <1>3, <2>1 DEF LettersHold
<1>4. CASE \E x : Misled' \subseteq Misled \cup {x} /\ deaths' = deaths + 1
  <2>1. PICK x : Misled' \subseteq Misled \cup {x} /\ deaths' = deaths + 1
    BY <1>4
  <2>2. IsFiniteSet(Misled \cup {x}) /\ Cardinality(Misled \cup {x}) \in Nat
        /\ Cardinality(Misled \cup {x}) <= Cardinality(Misled) + 1
    BY <1>2, FS_AddElement, FS_CardinalityType
  <2>3. Cardinality(Misled') \in Nat /\ Cardinality(Misled') <= Cardinality(Misled \cup {x})
    BY <2>1, <2>2, FS_Subset, FS_CardinalityType
  <2>4. Cardinality(Misled') <= deaths'
    BY <1>2, <2>1, <2>2, <2>3
  <2> QED BY <2>4 DEF LettersHold
<1> QED BY <1>3, <1>4, MisledStep

\* Every letter about an account or a reset that is not there comes from a request
\* still at work or from one that died, however sign-ups, invitations and resets
\* overlap.
THEOREM LettersAlwaysHold == SessionsSpec => []LettersHold
<1>1. SessionsInit => OpsInv /\ FlushInv /\ LettersHold
  <2>1. SessionsInit => Misled = {} /\ deaths = 0
    BY DEF SessionsInit, Misled
  <2> QED BY <2>1, OpsInit, FlushInit, FS_EmptySet DEF LettersHold
<1>2. IInv /\ (OpsInv /\ FlushInv /\ LettersHold) /\ [SessionsNext]_sessionVars
        => (OpsInv /\ FlushInv /\ LettersHold)'
  BY OpsStep, FlushStep, LettersStep
<1> QED BY <1>1, <1>2, SessionsAlways, PTL DEF SessionsSpec
=============================================================================
