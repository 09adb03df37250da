----------------------------- MODULE CasesProofs -----------------------------
(***************************************************************************)
(* Proofs about Cases, for every set of cases, agents and sessions, and    *)
(* about Scoring, for every cap, level and rate.                           *)
(***************************************************************************)
EXTENDS Cases, Scoring, FiniteSetTheorems, TLAPS

(***************************************************************************)
(* What a session in the middle of its work holds: enough to type what it  *)
(* will commit.                                                            *)
(***************************************************************************)
SessionOK(t) ==
    /\ t.pc # "idle" => t.app \in Apps
    /\ t.src \in TransitionSources => t.who \in Users /\ t.to \in AnyStatus
    /\ t.src \in {"admin", "claim"} => t.who \in Agents
    /\ t.src \in AssignSources /\ t.pc = "ready" => t.who \in Agents
    /\ t.src = "submit" => t.app \in Apps /\ Exists(t.app)

TypeInv ==
    /\ TypeOK
    /\ \A s \in Sessions : SessionOK(tx[s])
    /\ \A x \in jobs : Exists(x)

LEMMA InitTypeInv == Init => TypeInv
BY CasesAssumption
   DEF Init, TypeInv, TypeOK, SessionOK, Idle, Session, Sources, AnyStatus,
       ApplicationStatuses, TransitionSources, AssignSources, Sessions

LEMMA AllowedFromType ==
    ASSUME NEW st PROVE AllowedFrom(st) \subseteq AnyStatus \ {"received", "absent"}
BY DEF AllowedFrom, AnyStatus, ApplicationStatuses

LEMMA LoadType ==
    ASSUME TypeOK, NEW x \in Apps, Exists(x), NEW src \in Sources,
           NEW pc \in {"loaded", "ready"}, NEW u \in Users \cup {None},
           NEW to \in AnyStatus \cup {None}
    PROVE  /\ Load(src, pc, x, u, to) \in Session
           /\ Load(src, pc, x, u, to).seenStatus \in AnyStatus
BY DEF Load, Session, TypeOK, Exists

\* A session step that leaves rows and queue alone needs only a well-formed
\* new session record.
LEMMA SessionStep ==
    ASSUME TypeInv, NEW s \in Sessions, NEW t \in Session, SessionOK(t),
           Become(s, t), UNCHANGED <<rows, jobs, Environment>>
    PROVE  TypeInv'
<1>1. TypeOK'
  BY DEF TypeInv, TypeOK, Become, rows, Environment
<1>2. \A q \in Sessions : tx'[q] = IF q = s THEN t ELSE tx[q]
  BY DEF TypeInv, TypeOK, Become
<1>3. \A q \in Sessions : SessionOK(tx[q])'
  BY <1>2 DEF TypeInv, SessionOK, Exists, rows
<1>4. QED
  BY <1>1, <1>3 DEF TypeInv, Exists, rows

(***************************************************************************)
(* One lemma per group of actions: the steps that only read, the steps     *)
(* that touch the queue, the commits, and the steps of the environment.    *)
(***************************************************************************)
LEMMA IdleOK == Idle \in Session /\ SessionOK(Idle)
BY CasesAssumption DEF Idle, Session, SessionOK, Sources, AnyStatus, ApplicationStatuses,
   TransitionSources, AssignSources

LEMMA ReadingSteps ==
    ASSUME TypeInv, NEW s \in Sessions, NEW x \in Apps,
           \/ \E c \in Clients : CancelApplication(s, x, c)
           \/ \E a \in Agents : AdminAssign(s, x, a) \/ ClaimUnassigned(s, x, a)
           \/ \E a \in Agents, to \in AnyStatus : AgentTransition(s, x, a, to)
           \/ \E to \in AnyStatus : ForceTransition(s, x, to)
           \/ AdminRerun(s, x)
    PROVE  TypeInv'
<1> USE DEF Sources, Users, TransitionSources, AssignSources
<1>1. ASSUME NEW c \in Clients, CancelApplication(s, x, c) PROVE TypeInv'
  <2> DEFINE t == Load("client", "ready", x, c, "cancelled")
  <2>1. t \in Session /\ SessionOK(t)
    BY <1>1, LoadType DEF CancelApplication, TypeInv, SessionOK, Load, AnyStatus, ApplicationStatuses
  <2>2. QED
    BY <1>1, <2>1, SessionStep DEF CancelApplication
<1>2. ASSUME NEW a \in Agents, AdminAssign(s, x, a) PROVE TypeInv'
  <2> DEFINE t == Load("admin", "loaded", x, a, None)
  <2>1. t \in Session /\ SessionOK(t)
    BY <1>2, LoadType DEF AdminAssign, TypeInv, SessionOK, Load
  <2>2. QED
    BY <1>2, <2>1, SessionStep DEF AdminAssign
<1>3. ASSUME NEW a \in Agents, ClaimUnassigned(s, x, a) PROVE TypeInv'
  <2> DEFINE t == [Idle EXCEPT !.src = "claim", !.pc = "loaded", !.app = x, !.who = a]
  <2>1. t \in Session /\ SessionOK(t)
    BY IdleOK DEF SessionOK, Idle, Session
  <2>2. QED
    BY <1>3, <2>1, SessionStep DEF ClaimUnassigned
<1>4. ASSUME NEW a \in Agents, NEW to \in AnyStatus, AgentTransition(s, x, a, to) PROVE TypeInv'
  <2> DEFINE t == Load("agent", "ready", x, a, to)
  <2>1. t \in Session /\ SessionOK(t)
    BY <1>4, LoadType DEF AgentTransition, TypeInv, SessionOK, Load
  <2>2. QED
    BY <1>4, <2>1, SessionStep DEF AgentTransition
<1>5. ASSUME NEW to \in AnyStatus, ForceTransition(s, x, to) PROVE TypeInv'
  <2> DEFINE t == Load("force", "ready", x, Admin, to)
  <2>1. t \in Session /\ SessionOK(t)
    BY <1>5, LoadType DEF ForceTransition, TypeInv, SessionOK, Load
  <2>2. QED
    BY <1>5, <2>1, SessionStep DEF ForceTransition
<1>6. ASSUME AdminRerun(s, x) PROVE TypeInv'
  <2> DEFINE t == Load("rerun", "loaded", x, None, None)
  <2>1. t \in Session /\ SessionOK(t)
    BY <1>6, LoadType DEF AdminRerun, TypeInv, SessionOK, Load
  <2>2. QED
    BY <1>6, <2>1, SessionStep DEF AdminRerun
<1>7. QED
  BY <1>1, <1>2, <1>3, <1>4, <1>5, <1>6

LEMMA DecidingSteps ==
    ASSUME TypeInv, NEW s \in Sessions,
           \/ AdminCheckAgent(s)
           \/ \E a \in Agents : ScoreWinner(s, a)
           \/ ClaimLockRow(s)
           \/ ClaimGiveUp(s)
    PROVE  TypeInv'
<1>0. tx[s] \in Session /\ SessionOK(tx[s])
  BY DEF TypeInv, TypeOK
<1>1. CASE AdminCheckAgent(s)
  <2> DEFINE t == [tx[s] EXCEPT !.pc = "ready"]
  <2>1. t \in Session /\ SessionOK(t)
    BY <1>0, <1>1 DEF AdminCheckAgent, At, Session, SessionOK, TransitionSources, AssignSources
  <2>2. Become(s, t) \/ Become(s, Idle)
    BY <1>1 DEF AdminCheckAgent
  <2>3. UNCHANGED <<rows, jobs, Environment>>
    BY <1>1 DEF AdminCheckAgent
  <2>4. QED
    BY <2>1, <2>2, <2>3, IdleOK, SessionStep
<1>2. ASSUME NEW a \in Agents, ScoreWinner(s, a) PROVE TypeInv'
  <2> DEFINE t == [tx[s] EXCEPT !.pc = "ready", !.who = a]
  <2>1. t \in Session /\ SessionOK(t)
    BY <1>0, <1>2 DEF ScoreWinner, Session, SessionOK, TransitionSources, AssignSources, Users
  <2>2. QED
    BY <1>2, <2>1, SessionStep DEF ScoreWinner
<1>3. CASE ClaimLockRow(s)
  <2> DEFINE t == Load("claim", "ready", tx[s].app, tx[s].who, None)
  <2>1. tx[s].app \in Apps /\ tx[s].who \in Agents /\ Exists(tx[s].app)
    BY <1>0, <1>3 DEF ClaimLockRow, At, SessionOK, Claimable, Exists
  <2>2. t \in Session /\ SessionOK(t)
    BY <2>1, LoadType DEF TypeInv, SessionOK, Load, Sources, Users, TransitionSources, AssignSources
  <2>3. QED
    BY <1>3, <2>2, SessionStep DEF ClaimLockRow
<1>4. CASE ClaimGiveUp(s)
  BY <1>4, IdleOK, SessionStep DEF ClaimGiveUp
<1>5. QED
  BY <1>1, <1>2, <1>3, <1>4

LEMMA QueueSteps ==
    ASSUME TypeInv, NEW s \in Sessions,
           \/ EnqueueAutoAssign(s)
           \/ \E x \in Apps : JobPickUp(s, x) \/ JobRaises(s, x)
           \/ ScoreNobody(s)
           \/ JobAck(s)
    PROVE  TypeInv'
<1>0. tx[s] \in Session /\ SessionOK(tx[s])
  BY DEF TypeInv, TypeOK
<1>1. \E t \in Session : SessionOK(t) /\ tx' = [tx EXCEPT ![s] = t]
  <2>1. ASSUME NEW x \in Apps, JobPickUp(s, x), agent[x] = None PROVE <1>1!:
    <3> DEFINE t == Load("job", "loaded", x, None, None)
    <3>1. Exists(x)
      BY <2>1 DEF JobPickUp, Queued, TypeInv
    <3>2. t \in Session /\ SessionOK(t)
      BY <3>1, LoadType DEF TypeInv, SessionOK, Load, Sources, TransitionSources, AssignSources
    <3>3. QED
      BY <2>1, <3>2 DEF JobPickUp, Become
  <2>2. ASSUME NEW x \in Apps, JobRaises(s, x) \/ (JobPickUp(s, x) /\ agent[x] # None) PROVE <1>1!:
    <3>1. tx' = [tx EXCEPT ![s] = tx[s]]
      BY <2>2 DEF JobPickUp, JobRaises, TypeInv, TypeOK
    <3>2. QED
      BY <1>0, <3>1
  <2>3. CASE EnqueueAutoAssign(s) \/ ScoreNobody(s) \/ JobAck(s)
    BY <2>3, IdleOK DEF EnqueueAutoAssign, ScoreNobody, JobAck, Become
  <2>4. QED
    BY <2>1, <2>2, <2>3
<1>2. jobs' \subseteq Apps /\ \A x \in jobs' : Exists(x)
  BY <1>0 DEF EnqueueAutoAssign, JobPickUp, JobRaises, ScoreNobody, JobAck, TypeInv, TypeOK, SessionOK, At
<1>3. UNCHANGED <<rows, Environment>>
  BY DEF EnqueueAutoAssign, JobPickUp, JobRaises, ScoreNobody, JobAck
<1>4. PICK t \in Session : SessionOK(t) /\ tx' = [tx EXCEPT ![s] = t]
  BY <1>1
<1>5. TypeOK'
  BY <1>2, <1>3, <1>4 DEF TypeInv, TypeOK, rows, Environment
<1>6. \A q \in Sessions : SessionOK(tx[q])'
  BY <1>3, <1>4 DEF TypeInv, TypeOK, SessionOK, Exists, rows
<1>7. QED
  BY <1>2, <1>3, <1>5, <1>6 DEF TypeInv, Exists, rows

LEMMA RoleOfType == ASSUME NEW src PROVE RoleOf(src) \in Roles
BY DEF RoleOf, Roles

\* Appending a row to one case's history keeps every history a sequence of rows.
LEMMA AppendRow ==
    ASSUME NEW Row, NEW log \in [Apps -> Seq(Row)], NEW x \in Apps, NEW row \in Row
    PROVE  [log EXCEPT ![x] = Append(log[x], row)] \in [Apps -> Seq(Row)]
<1>1. Append(log[x], row) \in Seq(Row)
  OBVIOUS
<1>2. QED
  BY <1>1

LEMMA SubmitStep ==
    ASSUME TypeInv, NEW s \in Requests, NEW x \in Apps, NEW c \in Clients,
           SubmitApplication(s, x, c)
    PROVE  TypeInv'
<1> DEFINE t == [Idle EXCEPT !.src = "submit", !.pc = "enqueue", !.app = x]
<1> USE DEF SubmitApplication
<1>1. t \in Session
  BY CasesAssumption DEF Idle, Session, Sources
<1>2. \A q \in Sessions : tx'[q] = IF q = s THEN t ELSE tx[q]
  BY DEF TypeInv, TypeOK, Become
<1>3. \A y \in Apps : Exists(y)' <=> Exists(y) \/ y = x
  BY DEF Exists, TypeInv, TypeOK
<1>4. TypeOK'
  <2>1. statusLog' \in [Apps -> Seq(StatusRows)]
    <3>1. StatusRow("received", c, "client") \in StatusRows
      BY DEF StatusRow, StatusRows, AnyStatus, ApplicationStatuses, Users, Roles
    <3>2. QED
      BY <3>1, AppendRow DEF TypeInv, TypeOK
  <2>2. tx' \in [Sessions -> Session]
    BY <1>1 DEF TypeInv, TypeOK, Become
  <2>3. QED
    BY <2>1, <2>2 DEF TypeInv, TypeOK, Environment, AnyStatus, ApplicationStatuses
<1>5. \A q \in Sessions : SessionOK(tx[q])'
  <2> SUFFICES ASSUME NEW q \in Sessions PROVE SessionOK(tx[q])'
    OBVIOUS
  <2>1. CASE q = s
    BY <1>2, <1>3, <2>1 DEF SessionOK, Idle, TransitionSources, AssignSources
  <2>2. CASE q # s
    <3>1. tx[q] \in Session /\ SessionOK(tx[q]) /\ tx'[q] = tx[q]
      BY <1>2, <2>2 DEF TypeInv, TypeOK
    <3>2. QED
      BY <3>1 DEF SessionOK, Exists, TypeInv, TypeOK
  <2>3. QED
    BY <2>1, <2>2
<1>6. QED
  BY <1>3, <1>4, <1>5 DEF TypeInv, TypeOK

LEMMA CommitSteps ==
    ASSUME TypeInv, NEW s \in Sessions, CommitTransition(s) \/ CommitAssignment(s)
    PROVE  TypeInv'
<1> DEFINE t == tx[s]
           x == tx[s].app
<1>0. t \in Session /\ SessionOK(t) /\ x \in Apps
  BY DEF TypeInv, TypeOK, SessionOK, CommitTransition, CommitAssignment
<1>1. status' \in [Apps -> AnyStatus \cup {"absent"}] /\ \A y \in Apps : Exists(y) => Exists(y)'
  <2>1. CASE CommitTransition(s)
    BY <1>0, <2>1 DEF CommitTransition, WrittenStatus, SessionOK, TypeInv, TypeOK, Exists,
       AnyStatus, ApplicationStatuses
  <2>2. CASE CommitAssignment(s)
    BY <1>0, <2>2 DEF CommitAssignment, TypeInv, TypeOK, Exists, AnyStatus, ApplicationStatuses
  <2>3. QED
    BY <2>1, <2>2
<1>2. agent' \in [Apps -> Agents \cup {None}]
  BY <1>0 DEF CommitTransition, CommitAssignment, WrittenAgent, SessionOK, TypeInv, TypeOK
<1>3. stamps' \in [Apps -> SUBSET TerminalStatuses]
  <2>1. WrittenStamps(x, t.to) \in SUBSET TerminalStatuses
    BY <1>0 DEF WrittenStamps, TypeInv, TypeOK
  <2>2. QED
    BY <1>0, <2>1 DEF CommitTransition, CommitAssignment, TypeInv, TypeOK
<1>4. statusLog' \in [Apps -> Seq(StatusRows)]
  <2>1. CASE CommitTransition(s)
    <3>1. StatusRow(t.to, t.who, RoleOf(t.src)) \in StatusRows
      BY <1>0, <2>1, RoleOfType DEF CommitTransition, StatusRow, StatusRows, SessionOK
    <3>2. QED
      BY <1>0, <2>1, <3>1, AppendRow DEF CommitTransition, TypeInv, TypeOK
  <2>2. CASE CommitAssignment(s)
    <3> DEFINE by == IF t.src = "admin" THEN Admin ELSE t.who
    <3>1. by \in Users
      BY <1>0, <2>2 DEF CommitAssignment, SessionOK, Users
    <3>2. StatusRow("under_review", by, RoleOf(t.src)) \in StatusRows
      BY <3>1, RoleOfType DEF StatusRow, StatusRows, AnyStatus, ApplicationStatuses
    <3>3. QED
      BY <1>0, <2>2, <3>2, AppendRow DEF CommitAssignment, TypeInv, TypeOK
  <2>3. QED
    BY <2>1, <2>2
<1>5. assignLog' \in [Apps -> Seq(AssignRows)]
  <2>1. CASE CommitTransition(s)
    BY <2>1 DEF CommitTransition, TypeInv, TypeOK
  <2>2. CASE CommitAssignment(s)
    <3>1. AssignRow(t.seenAgent, t.who, RoleOf(t.src))
            \in AssignRows
      BY <1>0, <2>2, RoleOfType DEF CommitAssignment, AssignRow, AssignRows, SessionOK, Session, TypeInv, TypeOK
    <3>2. QED
      BY <1>0, <2>2, <3>1, AppendRow DEF CommitAssignment, TypeInv, TypeOK
  <2>3. QED
    BY <2>1, <2>2
<1>6. \E u \in Session : tx' = [tx EXCEPT ![s] = u] /\ SessionOK(u)
  <2>1. CASE tx' = [tx EXCEPT ![s] = Idle]
    BY <2>1, IdleOK
  <2>2. CASE t.src = "job" /\ tx' = [tx EXCEPT ![s] = [t EXCEPT !.pc = "done"]]
    <3> DEFINE u == [t EXCEPT !.pc = "done"]
    <3>1. u \in Session
      BY <1>0 DEF Session
    <3>2. u.src = "job" /\ u.app \in Apps
      BY <1>0, <2>2 DEF Session
    <3>3. SessionOK(u)
      BY <3>2, <2>2, <3>1 DEF Session, SessionOK, TransitionSources, AssignSources
    <3>4. QED
      BY <2>2, <3>1, <3>3
  <2>3. QED
    BY <2>1, <2>2 DEF CommitTransition, CommitAssignment, Become
<1>7. tx' \in [Sessions -> Session] /\ \A q \in Sessions : SessionOK(tx'[q])
  BY <1>6 DEF TypeInv, TypeOK
<1>7a. \A q \in Sessions : SessionOK(tx[q])'
  BY <1>1, <1>7 DEF Session, SessionOK, Exists
<1>8. UNCHANGED <<client, jobs, Environment>>
  BY DEF CommitTransition, CommitAssignment
<1>9. QED
  BY <1>1, <1>2, <1>3, <1>4, <1>5, <1>7, <1>7a, <1>8 DEF TypeInv, TypeOK, Environment

LEMMA OtherSteps ==
    ASSUME TypeInv,
           \/ \E s \in Requests, x \in Apps, c \in Clients : ClaimOwnership(s, x, c)
           \/ AgentRowChange
           \/ Midnight
           \/ \E s \in Sessions : Crash(s)
           \/ UNCHANGED vars
    PROVE  TypeInv'
<1>1. UNCHANGED <<status, agent, stamps, statusLog, assignLog, jobs>>
  BY DEF ClaimOwnership, AgentRowChange, UpdateAgentSettings, UpdateAgent, RecentSession,
         Midnight, Crash, rows, vars
<1>2. client' \in [Apps -> Clients \cup {None}]
  BY DEF ClaimOwnership, AgentRowChange, UpdateAgentSettings, UpdateAgent, RecentSession,
         Midnight, Crash, rows, vars, TypeInv, TypeOK
<1>3. settings' \in [Agents -> AgentRow]
  <2>1. ASSUME NEW a \in Agents, NEW s, NEW accepting \in BOOLEAN, NEW most \in CapChoices,
               UpdateAgentSettings(s, a, accepting, most)
        PROVE  settings' \in [Agents -> AgentRow]
    <3>1. settings[a] \in AgentRow /\ most \in (Nat \ {0}) \cup {None}
      BY CasesAssumption DEF TypeInv, TypeOK
    <3>2. [settings[a] EXCEPT !.accepting = accepting, !.cap = most] \in AgentRow
      BY <3>1 DEF AgentRow
    <3>3. settings' = [settings EXCEPT ![a] = [settings[a] EXCEPT !.accepting = accepting, !.cap = most]]
      BY <2>1, <3>1 DEF UpdateAgentSettings, TypeInv, TypeOK, AgentRow
    <3>4. QED
      BY <3>2, <3>3 DEF TypeInv, TypeOK
  <2>2. ASSUME NEW a \in Agents, NEW s, UpdateAgent(s, a) \/ RecentSession(a)
        PROVE  settings' \in [Agents -> AgentRow]
    <3>1. settings[a] \in AgentRow
      BY DEF TypeInv, TypeOK
    <3>2. /\ [settings[a] EXCEPT !.active = ~settings[a].active] \in AgentRow
          /\ [settings[a] EXCEPT !.recent = ~settings[a].recent] \in AgentRow
      BY <3>1 DEF AgentRow
    <3>3. \/ settings' = [settings EXCEPT ![a] = [settings[a] EXCEPT !.active = ~settings[a].active]]
          \/ settings' = [settings EXCEPT ![a] = [settings[a] EXCEPT !.recent = ~settings[a].recent]]
      BY <2>2 DEF UpdateAgent, RecentSession
    <3>4. QED
      BY <3>2, <3>3 DEF TypeInv, TypeOK
  <2>3. QED
    BY <2>1, <2>2 DEF ClaimOwnership, AgentRowChange, Midnight, Crash, rows, vars, Environment, TypeInv, TypeOK
<1>4. day' \in Nat /\ edits' \in Nat /\ crashes' \in Nat
  <2>1. day \in Nat /\ edits \in Nat /\ crashes \in Nat
    BY DEF TypeInv, TypeOK
  <2>2. CASE \E s \in Requests, x \in Apps, c \in Clients : ClaimOwnership(s, x, c)
    BY <2>1, <2>2 DEF ClaimOwnership, Environment
  <2>3. CASE AgentRowChange
    <3>1. edits' = edits + 1 /\ day' = day /\ crashes' = crashes
      BY <2>3, Zenon DEF AgentRowChange, UpdateAgentSettings, UpdateAgent, RecentSession
    <3>2. QED
      BY <2>1, <3>1
  <2>4. CASE Midnight \/ (\E s \in Sessions : Crash(s)) \/ UNCHANGED vars
    BY <2>1, <2>4 DEF Midnight, Crash, vars
  <2>5. QED
    BY <2>2, <2>3, <2>4
<1>5. tx' \in [Sessions -> Session] /\ \A q \in Sessions : tx'[q] \in {tx[q], Idle}
  BY IdleOK DEF ClaimOwnership, AgentRowChange, UpdateAgentSettings, UpdateAgent, RecentSession,
         Midnight, Crash, Become, rows, vars, Environment, TypeInv, TypeOK
<1>6. \A q \in Sessions : SessionOK(tx[q])'
  <2> SUFFICES ASSUME NEW q \in Sessions PROVE SessionOK(tx[q])'
    OBVIOUS
  <2>1. SessionOK(tx'[q])
    BY <1>5, IdleOK DEF TypeInv
  <2>2. QED
    BY <1>1, <2>1 DEF SessionOK, Exists
<1>7. QED
  BY <1>1, <1>2, <1>3, <1>4, <1>5, <1>6 DEF TypeInv, TypeOK, Exists

LEMMA NextTypeInv == TypeInv /\ [Next]_vars => TypeInv'
<1> SUFFICES ASSUME TypeInv, [Next]_vars PROVE TypeInv'
  OBVIOUS
<1>1. ASSUME NEW s \in Requests, NEW x \in Apps, BeginOnCase(s, x) PROVE TypeInv'
  <2>1. s \in Sessions
    BY DEF Sessions
  <2>2. QED
    BY <1>1, <2>1, SubmitStep, ReadingSteps, OtherSteps DEF BeginOnCase
<1>2. ASSUME NEW s \in Workers, PickUp(s) PROVE TypeInv'
  BY <1>2, QueueSteps DEF PickUp, Sessions
<1>3. ASSUME NEW s \in Sessions, Advance(s) PROVE TypeInv'
  BY <1>3, QueueSteps, DecidingSteps, CommitSteps DEF Advance
<1>4. CASE AgentRowChange \/ Midnight \/ (\E s \in Sessions : Crash(s)) \/ UNCHANGED vars
  BY <1>4, OtherSteps
<1>5. QED
  BY <1>1, <1>2, <1>3, <1>4 DEF Next

\* Every reachable state of every instance is well typed.
THEOREM TypeCorrect == Spec => []TypeOK
<1>1. Spec => []TypeInv
  BY InitTypeInv, NextTypeInv, PTL DEF Spec
<1>2. TypeInv => TypeOK
  BY DEF TypeInv
<1>3. QED
  BY <1>1, <1>2, PTL

-----------------------------------------------------------------------------
(***************************************************************************)
(* Every step except a submission, a commit and a claim's lock is quiet:   *)
(* the case rows stay as they are, and a session either keeps what it had  *)
(* seen, has seen nothing, or sees the rows as they are now.               *)
(***************************************************************************)
caseRows == <<status, agent, stamps, statusLog, assignLog>>

Blank(u) == u.seenStatus = None /\ u.seenAgent = None /\ u.src \in {"none", "claim"} /\ u.pc # "ready"

Fresh(u) == /\ u.app \in Apps /\ Exists(u.app) /\ u.src # "claim"
            /\ u.seenStatus = status[u.app] /\ u.seenAgent = agent[u.app]
            /\ u.to = "received" => u.src \notin TransitionSources \/ "received" \in ForceTargets

Kept(t, u) == /\ u.src = t.src /\ u.src \in {"admin", "rerun", "job"} /\ u.app = t.app
              /\ u.seenStatus = t.seenStatus /\ u.seenAgent = t.seenAgent

Carried(t, u) == u = t \/ Blank(u) \/ Fresh(u) \/ Kept(t, u)

Quiet == UNCHANGED caseRows /\ \A q \in Sessions : Carried(tx[q], tx'[q])

LEMMA OneSession ==
    ASSUME TypeInv, NEW s \in Sessions, NEW u, Become(s, u), Carried(tx[s], u)
    PROVE  \A q \in Sessions : Carried(tx[q], tx'[q])
BY DEF Become, TypeInv, TypeOK, Carried

LEMMA BlankIdle == Blank(Idle)
BY DEF Blank, Idle

LEMMA QuietBegin ==
    ASSUME TypeInv, NEW s \in Sessions, NEW x \in Apps, BeginOnCase(s, x)
    PROVE  Quiet \/ \E c \in Clients : SubmitApplication(s, x, c)
<1>1. ASSUME NEW c \in Clients, CancelApplication(s, x, c) PROVE Quiet
  <2>1. Fresh(Load("client", "ready", x, c, "cancelled"))
    BY <1>1 DEF CancelApplication, Fresh, Load
  <2>2. QED
    BY <1>1, <2>1, OneSession DEF CancelApplication, Carried, Quiet, caseRows, rows
<1>2. ASSUME NEW a \in Agents, AdminAssign(s, x, a) PROVE Quiet
  <2>1. Fresh(Load("admin", "loaded", x, a, None))
    BY <1>2 DEF AdminAssign, Fresh, Load, TransitionSources
  <2>2. QED
    BY <1>2, <2>1, OneSession DEF AdminAssign, Carried, Quiet, caseRows, rows
<1>3. ASSUME NEW a \in Agents, ClaimUnassigned(s, x, a) PROVE Quiet
  <2>1. Blank([Idle EXCEPT !.src = "claim", !.pc = "loaded", !.app = x, !.who = a])
    BY DEF Blank, Idle
  <2>2. QED
    BY <1>3, <2>1, OneSession DEF ClaimUnassigned, Carried, Quiet, caseRows, rows
<1>4. ASSUME NEW a \in Agents, NEW to \in AnyStatus, AgentTransition(s, x, a, to) PROVE Quiet
  <2>1. Fresh(Load("agent", "ready", x, a, to))
    BY <1>4, AllowedFromType DEF AgentTransition, Fresh, Load
  <2>2. QED
    BY <1>4, <2>1, OneSession DEF AgentTransition, Carried, Quiet, caseRows, rows
<1>5. ASSUME NEW to \in AnyStatus, ForceTransition(s, x, to) PROVE Quiet
  <2>1. Fresh(Load("force", "ready", x, Admin, to))
    BY <1>5 DEF ForceTransition, Fresh, Load
  <2>2. QED
    BY <1>5, <2>1, OneSession DEF ForceTransition, Carried, Quiet, caseRows, rows
<1>6. ASSUME AdminRerun(s, x) PROVE Quiet
  <2>1. Fresh(Load("rerun", "loaded", x, None, None))
    BY <1>6 DEF AdminRerun, Fresh, Load, TransitionSources
  <2>2. QED
    BY <1>6, <2>1, OneSession DEF AdminRerun, Carried, Quiet, caseRows, rows
<1>7. ASSUME NEW c \in Clients, ClaimOwnership(s, x, c) PROVE Quiet
  BY <1>7 DEF ClaimOwnership, Carried, Quiet, caseRows
<1>8. QED
  BY <1>1, <1>2, <1>3, <1>4, <1>5, <1>6, <1>7 DEF BeginOnCase

LEMMA QuietAdvance ==
    ASSUME TypeInv, NEW s \in Sessions, Advance(s) \/ (s \in Workers /\ PickUp(s))
    PROVE  Quiet \/ ClaimLockRow(s) \/ CommitTransition(s) \/ CommitAssignment(s)
<1>0. tx[s] \in Session
  BY DEF TypeInv, TypeOK
<1>1. CASE EnqueueAutoAssign(s) \/ ScoreNobody(s) \/ ClaimGiveUp(s) \/ JobAck(s)
  <2>1. Become(s, Idle) /\ UNCHANGED rows
    BY <1>1 DEF EnqueueAutoAssign, ScoreNobody, ClaimGiveUp, JobAck
  <2>2. QED
    BY <2>1, BlankIdle, OneSession DEF Carried, Quiet, caseRows, rows
<1>2. CASE AdminCheckAgent(s)
  <2>1. Kept(tx[s], [tx[s] EXCEPT !.pc = "ready"])
    BY <1>0, <1>2 DEF AdminCheckAgent, At, Kept, Session
  <2>2. \E u : Become(s, u) /\ Carried(tx[s], u)
    BY <1>2, <2>1, BlankIdle DEF AdminCheckAgent, Carried
  <2>3. QED
    BY <1>2, <2>2, OneSession DEF AdminCheckAgent, Quiet, caseRows, rows
<1>3. ASSUME NEW a \in Agents, ScoreWinner(s, a) PROVE Quiet
  <2>1. Kept(tx[s], [tx[s] EXCEPT !.pc = "ready", !.who = a])
    BY <1>0, <1>3 DEF ScoreWinner, Kept, Session
  <2>2. QED
    BY <1>3, <2>1, OneSession DEF ScoreWinner, Carried, Quiet, caseRows, rows
<1>4. ASSUME NEW x \in Apps, JobPickUp(s, x) PROVE Quiet
  <2>1. Fresh(Load("job", "loaded", x, None, None))
    BY <1>4 DEF JobPickUp, Queued, Fresh, Load, TypeInv, TransitionSources
  <2>2. \/ UNCHANGED tx
        \/ Become(s, Load("job", "loaded", x, None, None))
    BY <1>4 DEF JobPickUp
  <2>3. \A q \in Sessions : Carried(tx[q], tx'[q])
    BY <2>1, <2>2, OneSession DEF Carried
  <2>4. QED
    BY <1>4, <2>3 DEF JobPickUp, Quiet, caseRows, rows
<1>5. ASSUME NEW x \in Apps, JobRaises(s, x) PROVE Quiet
  BY <1>5 DEF JobRaises, Carried, Quiet, caseRows, rows
<1>6. QED
  BY <1>1, <1>2, <1>3, <1>4, <1>5 DEF Advance, PickUp

LEMMA QuietOther ==
    ASSUME TypeInv, AgentRowChange \/ Midnight \/ (\E s \in Sessions : Crash(s)) \/ UNCHANGED vars
    PROVE  Quiet
<1>1. UNCHANGED caseRows
  BY DEF AgentRowChange, UpdateAgentSettings, UpdateAgent, RecentSession, Midnight, Crash,
         vars, rows, caseRows
<1>2. CASE UNCHANGED tx
  BY <1>1, <1>2 DEF Quiet, Carried
<1>3. ASSUME NEW s \in Sessions, Crash(s) PROVE Quiet
  BY <1>1, <1>3, BlankIdle, OneSession DEF Crash, Carried, Quiet
<1>4. QED
  BY <1>2, <1>3 DEF AgentRowChange, UpdateAgentSettings, UpdateAgent, RecentSession, Midnight, vars

\* The five ways a step can go.
LEMMA StepKinds ==
    ASSUME TypeInv, [Next]_vars
    PROVE  \/ Quiet
           \/ \E s \in Requests, x \in Apps, c \in Clients : SubmitApplication(s, x, c)
           \/ \E s \in Sessions : ClaimLockRow(s)
           \/ \E s \in Sessions : CommitTransition(s)
           \/ \E s \in Sessions : CommitAssignment(s)
<1>1. ASSUME NEW s \in Requests, NEW x \in Apps, BeginOnCase(s, x)
      PROVE  Quiet \/ \E c \in Clients : SubmitApplication(s, x, c)
  BY <1>1, QuietBegin DEF Sessions
<1>2. ASSUME NEW s \in Workers, PickUp(s)
      PROVE  Quiet \/ ClaimLockRow(s) \/ CommitTransition(s) \/ CommitAssignment(s)
  BY <1>2, QuietAdvance DEF Sessions
<1>3. QED
  BY <1>1, <1>2, QuietAdvance, QuietOther DEF Next, Sessions

-----------------------------------------------------------------------------
(***************************************************************************)
(* What a commit of do_assign does to the histories.                       *)
(***************************************************************************)
LEMMA AppendFacts ==
    ASSUME NEW Row, NEW log \in Seq(Row), NEW row \in Row
    PROVE  /\ Append(log, row) # << >>
           /\ Len(Append(log, row)) > Len(log)
           /\ LastRow(Append(log, row)) = row
           /\ \A i \in DOMAIN log : i \in DOMAIN Append(log, row) /\ Append(log, row)[i] = log[i]
           /\ \E i \in DOMAIN Append(log, row) : Append(log, row)[i] = row
<1>1. /\ Len(Append(log, row)) = Len(log) + 1
      /\ Append(log, row)[Len(log) + 1] = row
      /\ Len(log) + 1 \in DOMAIN Append(log, row)
      /\ \A i \in DOMAIN log : i \in DOMAIN Append(log, row) /\ Append(log, row)[i] = log[i]
  OBVIOUS
<1>2. Append(log, row) # << >> /\ Len(Append(log, row)) > Len(log)
  OBVIOUS
<1>3. QED
  BY <1>1, <1>2 DEF LastRow

\* A commit of do_assign appends one row, to the history of its case alone.
LEMMA AssignmentCommitted ==
    ASSUME TypeInv, NEW s \in Sessions, CommitAssignment(s)
    PROVE  LET t == tx[s]
               row == AssignRow(t.seenAgent, t.who, RoleOf(t.src))
           IN  /\ t.app \in Apps /\ t.who \in Agents /\ t.src \in AssignSources
               /\ row \in AssignRows /\ row.new = t.who /\ row.role = RoleOf(t.src)
               /\ \A y \in Apps \ {t.app} : assignLog'[y] = assignLog[y] /\ agent'[y] = agent[y]
                                            /\ status'[y] = status[y]
               /\ assignLog[t.app] \in Seq(AssignRows)
               /\ assignLog'[t.app] = Append(assignLog[t.app], row)
               /\ agent'[t.app] = WrittenAgent(t.app, t.seenAgent, t.who)
<1> DEFINE t == tx[s]
           row == AssignRow(t.seenAgent, t.who, RoleOf(t.src))
<1>1. t \in Session /\ t.app \in Apps /\ t.who \in Agents /\ t.src \in AssignSources
  BY DEF TypeInv, TypeOK, SessionOK, CommitAssignment
<1>2. row \in AssignRows /\ row.new = t.who /\ row.role = RoleOf(t.src)
  BY <1>1, RoleOfType DEF AssignRow, AssignRows, Session, TypeInv, TypeOK
<1>3. assignLog' = [assignLog EXCEPT ![t.app] = Append(@, row)]
  BY DEF CommitAssignment
<1>4. agent' = [agent EXCEPT ![t.app] = WrittenAgent(t.app, t.seenAgent, t.who)]
  BY DEF CommitAssignment
<1>5. \A y \in Apps \ {t.app} : status'[y] = status[y]
  BY <1>1 DEF CommitAssignment, TypeInv, TypeOK
<1>6. assignLog[t.app] \in Seq(AssignRows) /\ assignLog'[t.app] = Append(assignLog[t.app], row)
  BY <1>1, <1>3, Zenon DEF TypeInv, TypeOK
<1>7. agent'[t.app] = WrittenAgent(t.app, t.seenAgent, t.who)
  BY <1>1, <1>4 DEF TypeInv, TypeOK
<1>8. \A y \in Apps \ {t.app} : assignLog'[y] = assignLog[y] /\ agent'[y] = agent[y]
  BY <1>1, <1>3, <1>4 DEF TypeInv, TypeOK
<1>9. QED
  BY <1>1, <1>2, <1>5, <1>6, <1>7, <1>8, Zenon

(***************************************************************************)
(* AssignmentLogged.  Strengthening: whoever has seen an agent on a case   *)
(* finds one there when it commits, since nothing ever clears the column.  *)
(***************************************************************************)
SeenAgentStays ==
    \A s \in Sessions : tx[s].seenAgent # None => tx[s].app \in Apps /\ agent[tx[s].app] # None

LoggedInv == AssignmentLogged /\ SeenAgentStays

LEMMA InitLoggedInv == Init => LoggedInv
BY DEF Init, LoggedInv, AssignmentLogged, SeenAgentStays, Idle

LEMMA NextLoggedInv ==
    ASSUME TypeInv, LoggedInv, [Next]_vars
    PROVE  LoggedInv'
<1>1. CASE Quiet
  BY <1>1 DEF Quiet, caseRows, Carried, Blank, Fresh, Kept, LoggedInv, AssignmentLogged, SeenAgentStays
<1>2. ASSUME NEW s \in Sessions, NEW u, Become(s, u), u.seenAgent = None, UNCHANGED <<agent, assignLog>>
      PROVE  LoggedInv'
  BY <1>2 DEF Become, TypeInv, TypeOK, LoggedInv, AssignmentLogged, SeenAgentStays
<1>3. ASSUME NEW s \in Requests, NEW x \in Apps, NEW c \in Clients, SubmitApplication(s, x, c)
      PROVE  LoggedInv'
  BY <1>2, <1>3 DEF SubmitApplication, Idle, Sessions
<1>4. ASSUME NEW s \in Sessions, ClaimLockRow(s) PROVE LoggedInv'
  BY <1>2, <1>4 DEF ClaimLockRow, Claimable, Load, rows
<1>5. ASSUME NEW s \in Sessions, CommitTransition(s) PROVE LoggedInv'
  BY <1>2, <1>5 DEF CommitTransition, Idle
<1>6. ASSUME NEW s \in Sessions, CommitAssignment(s) PROVE LoggedInv'
  <2> DEFINE t == tx[s]
             row == AssignRow(t.seenAgent, t.who, RoleOf(t.src))
  <2>1. /\ t.app \in Apps /\ t.who \in Agents
        /\ row \in AssignRows /\ row.new = t.who
        /\ \A y \in Apps \ {t.app} : assignLog'[y] = assignLog[y] /\ agent'[y] = agent[y]
        /\ assignLog[t.app] \in Seq(AssignRows)
        /\ assignLog'[t.app] = Append(assignLog[t.app], row)
        /\ agent'[t.app] = WrittenAgent(t.app, t.seenAgent, t.who)
    BY <1>6, AssignmentCommitted
  <2> HIDE DEF row
  <2>2. agent'[t.app] # None
    BY <2>1, CasesAssumption DEF WrittenAgent, LoggedInv, SeenAgentStays, Users
  <2>3. /\ assignLog'[t.app] # << >>
        /\ \A i \in DOMAIN assignLog[t.app] : i \in DOMAIN assignLog'[t.app]
                                              /\ assignLog'[t.app][i] = assignLog[t.app][i]
        /\ \E i \in DOMAIN assignLog'[t.app] : assignLog'[t.app][i] = row
    BY <2>1, AppendFacts
  <2>4. \E i \in DOMAIN assignLog'[t.app] : assignLog'[t.app][i].new = agent'[t.app]
    <3>1. CASE t.who = t.seenAgent
      <4>1. agent'[t.app] = agent[t.app]
        BY <2>1, <3>1 DEF WrittenAgent
      <4>2. QED
        BY <2>1, <2>2, <2>3, <4>1 DEF LoggedInv, AssignmentLogged
    <3>2. CASE t.who # t.seenAgent
      BY <2>1, <2>3, <3>2 DEF WrittenAgent
    <3>3. QED
      BY <3>1, <3>2
  <2>5. AssignmentLogged'
    BY <2>1, <2>2, <2>3, <2>4 DEF LoggedInv, AssignmentLogged
  <2>6. \A q \in Sessions : tx'[q].seenAgent # None => tx'[q] .app = tx[q].app /\ tx[q].seenAgent # None
    <3>1. \/ tx' = [tx EXCEPT ![s] = Idle]
          \/ tx' = [tx EXCEPT ![s] = [t EXCEPT !.pc = "done"]]
      BY <1>6 DEF CommitAssignment, Become
    <3>2. t \in Session /\ tx \in [Sessions -> Session] /\ Idle.seenAgent = None
      BY DEF TypeInv, TypeOK, Idle
    <3>3. [t EXCEPT !.pc = "done"].seenAgent = t.seenAgent /\ [t EXCEPT !.pc = "done"].app = t.app
      BY <3>2 DEF Session
    <3>4. QED
      BY <3>1, <3>2, <3>3
  <2>7. SeenAgentStays'
    BY <2>1, <2>2, <2>6 DEF LoggedInv, SeenAgentStays
  <2>8. QED
    BY <2>5, <2>7 DEF LoggedInv
<1>7. QED
  BY <1>1, <1>3, <1>4, <1>5, <1>6, StepKinds

\* A case has an agent exactly when its assignment history names one, however
\* the sessions that assign it interleave.
THEOREM AssignmentsAreLogged == Spec => []AssignmentLogged
<1>1. Spec => [](TypeInv /\ LoggedInv)
  <2>1. Init => TypeInv /\ LoggedInv
    BY InitTypeInv, InitLoggedInv
  <2>2. TypeInv /\ LoggedInv /\ [Next]_vars => (TypeInv /\ LoggedInv)'
    BY NextTypeInv, NextLoggedInv
  <2>3. QED
    BY <2>1, <2>2, PTL DEF Spec
<1>2. TypeInv /\ LoggedInv => AssignmentLogged
  BY DEF LoggedInv
<1>3. QED
  BY <1>1, <1>2, PTL

-----------------------------------------------------------------------------
(***************************************************************************)
(* ClaimTakesUnassigned.  While a claim holds its row lock the case stays  *)
(* as the claim found it, and no second claim holds the same row.          *)
(***************************************************************************)
LockInv ==
    \A s \in Sessions, x \in Apps :
        HoldsRowLock(s, x) =>
            /\ agent[x] = None /\ status[x] = "received"
            /\ ~RowLockedByOther(s, x)

LEMMA InitLockInv == Init => LockInv
BY DEF Init, LockInv, HoldsRowLock, At, Idle

LEMMA NextLockInv ==
    ASSUME TypeInv, LockInv, [Next]_vars
    PROVE  LockInv'
<1> USE DEF HoldsRowLock, RowLockedByOther, At
<1>1. ASSUME \A q \in Sessions, y \in Apps : HoldsRowLock(q, y)' =>
                 HoldsRowLock(q, y) /\ agent'[y] = agent[y] /\ status'[y] = status[y]
      PROVE  LockInv'
  BY <1>1 DEF LockInv
<1>2. CASE Quiet
  <2>1. \A q \in Sessions, y \in Apps : HoldsRowLock(q, y)' => HoldsRowLock(q, y)
    BY <1>2 DEF Quiet, Carried, Blank, Fresh, Kept
  <2>2. QED
    BY <1>1, <1>2, <2>1 DEF Quiet, caseRows
<1>3. ASSUME NEW s \in Requests, NEW x \in Apps, NEW c \in Clients, SubmitApplication(s, x, c)
      PROVE  LockInv'
  <2>1. \A q \in Sessions, y \in Apps : HoldsRowLock(q, y)' => HoldsRowLock(q, y)
    BY <1>3 DEF SubmitApplication, Become, Idle, Sessions, TypeInv, TypeOK
  <2>2. \A q \in Sessions, y \in Apps : HoldsRowLock(q, y) => y # x
    BY <1>3 DEF SubmitApplication, Exists, LockInv
  <2>3. \A y \in Apps \ {x} : agent'[y] = agent[y] /\ status'[y] = status[y]
    BY <1>3 DEF SubmitApplication, TypeInv, TypeOK
  <2>4. QED
    BY <1>1, <2>1, <2>2, <2>3
<1>4. ASSUME NEW s \in Sessions, ClaimLockRow(s) PROVE LockInv'
  <2> DEFINE x == tx[s].app
  <2>1. \A q \in Sessions, y \in Apps : HoldsRowLock(q, y)' <=>
            IF q = s THEN y = x ELSE HoldsRowLock(q, y)
    BY <1>4 DEF ClaimLockRow, Become, Load, TypeInv, TypeOK
  <2>2. agent[x] = None /\ status[x] = "received" /\ ~RowLockedByOther(s, x)
    BY <1>4 DEF ClaimLockRow, Claimable
  <2>3. status' = status /\ agent' = agent
    BY <1>4 DEF ClaimLockRow, rows
  <2> HIDE DEF HoldsRowLock, At
  <2>4. QED
    BY <2>1, <2>2, <2>3 DEF LockInv
<1>5. ASSUME NEW s \in Sessions, CommitTransition(s) \/ CommitAssignment(s) PROVE LockInv'
  <2> DEFINE x == tx[s].app
  <2>1. x \in Apps /\ ~RowLockedByOther(s, x)
    BY <1>5 DEF CommitTransition, CommitAssignment, TypeInv, SessionOK
  <2>2. \A y \in Apps \ {x} : agent'[y] = agent[y] /\ status'[y] = status[y]
    BY <1>5, <2>1 DEF CommitTransition, CommitAssignment, TypeInv, TypeOK
  <2>3. \A q \in Sessions, y \in Apps : HoldsRowLock(q, y)' => q # s /\ HoldsRowLock(q, y)
    <3>1. Become(s, Idle) \/ (tx[s].src = "job" /\ Become(s, [tx[s] EXCEPT !.pc = "done"]))
      BY <1>5 DEF CommitTransition, CommitAssignment
    <3>2. tx[s] \in Session
      BY DEF TypeInv, TypeOK
    <3>3. QED
      BY <3>1, <3>2 DEF Become, Idle, Session, TypeInv, TypeOK
  <2>4. QED
    BY <1>1, <2>1, <2>2, <2>3
<1>6. QED
  BY <1>2, <1>3, <1>4, <1>5, StepKinds

\* A claim that commits finds the case as it found it when it took its lock.
THEOREM ClaimsAreExclusive == Spec => ClaimTakesUnassigned
<1> DEFINE Claims == \A x \in Apps :
             NewAssignRow(x) /\ LastRow(assignLog'[x]).role = "staff:agent"
                 => agent[x] = None /\ status[x] = "received"
<1>1. ASSUME TypeInv, LockInv, [Next]_vars PROVE Claims
  <2> SUFFICES ASSUME NEW x \in Apps, NewAssignRow(x), LastRow(assignLog'[x]).role = "staff:agent"
               PROVE  agent[x] = None /\ status[x] = "received"
    OBVIOUS
  <2>1. assignLog'[x] # assignLog[x]
    BY DEF NewAssignRow, TypeInv, TypeOK
  <2>2. PICK s \in Sessions : CommitAssignment(s)
    BY <1>1, <2>1, StepKinds DEF Quiet, caseRows, SubmitApplication, ClaimLockRow, CommitTransition, rows
  <2> DEFINE t == tx[s]
             row == AssignRow(t.seenAgent, t.who, RoleOf(t.src))
  <2>3. /\ x = t.app
        /\ t.src \in AssignSources
        /\ row \in AssignRows /\ row.role = RoleOf(t.src)
        /\ assignLog[x] \in Seq(AssignRows) /\ assignLog'[x] = Append(assignLog[x], row)
    BY <1>1, <2>1, <2>2, AssignmentCommitted
  <2>4. LastRow(assignLog'[x]) = row
    BY <2>3, AppendFacts
  <2>5. RoleOf(t.src) = "staff:agent"
    BY <2>3, <2>4
  <2>6. t.src = "claim"
    BY <2>3, <2>5 DEF RoleOf, AssignSources
  <2>7. HoldsRowLock(s, x)
    BY <2>2, <2>3, <2>6 DEF CommitAssignment, HoldsRowLock, At
  <2>8. QED
    BY <1>1, <2>7 DEF LockInv
<1>2. Init => TypeInv /\ LockInv
  BY InitTypeInv, InitLockInv
<1>3. TypeInv /\ LockInv /\ [Next]_vars => (TypeInv /\ LockInv)'
  BY NextTypeInv, NextLockInv
<1>4. TypeInv /\ LockInv /\ [Next]_vars => [Claims]_vars
  BY <1>1
<1>5. QED
  BY <1>2, <1>3, <1>4, PTL DEF Spec, ClaimTakesUnassigned

-----------------------------------------------------------------------------
(***************************************************************************)
(* TerminalStamped is inductive as it stands: a stamp is never cleared.    *)
(***************************************************************************)
LEMMA NextTerminalStamped ==
    ASSUME TypeInv, TerminalStamped, [Next]_vars
    PROVE  TerminalStamped'
<1> USE DEF TerminalStamped, TypeInv, TypeOK
<1>1. CASE Quiet
  BY <1>1 DEF Quiet, caseRows
<1>2. ASSUME NEW s \in Requests, NEW x \in Apps, NEW c \in Clients, SubmitApplication(s, x, c)
      PROVE  TerminalStamped'
  BY <1>2 DEF SubmitApplication, TerminalStatuses
<1>3. ASSUME NEW s \in Sessions, ClaimLockRow(s) PROVE TerminalStamped'
  BY <1>3 DEF ClaimLockRow, rows
<1>4. ASSUME NEW s \in Sessions, CommitTransition(s) PROVE TerminalStamped'
  BY <1>4 DEF CommitTransition, WrittenStatus, WrittenStamps
<1>5. ASSUME NEW s \in Sessions, CommitAssignment(s) PROVE TerminalStamped'
  BY <1>5 DEF CommitAssignment, TerminalStatuses
<1>6. QED
  BY <1>1, <1>2, <1>3, <1>4, <1>5, StepKinds

\* The timestamp of a closed case's status is set, whichever sessions closed it.
THEOREM ClosedCasesAreStamped == Spec => []TerminalStamped
<1>1. Init => TypeInv /\ TerminalStamped
  BY InitTypeInv DEF Init, TerminalStamped, TerminalStatuses
<1>2. TypeInv /\ TerminalStamped /\ [Next]_vars => (TypeInv /\ TerminalStamped)'
  BY NextTypeInv, NextTerminalStamped
<1>3. QED
  BY <1>1, <1>2, PTL DEF Spec

-----------------------------------------------------------------------------
(***************************************************************************)
(* AssignedLeavesQueue, when no administrator forces "received" back in.   *)
(* Strengthening: no session is about to write "received", and a session   *)
(* that saw a case past the queue is still right about that.               *)
(***************************************************************************)
PastQueue(st) == st \notin {"received", "absent"}

QueueInv ==
    /\ \A s \in Sessions :
          /\ tx[s].src \in TransitionSources => tx[s].to # "received"
          /\ tx[s].src \in {"admin", "rerun", "job"} => tx[s].seenStatus # None
          /\ tx[s].src = "claim" /\ tx[s].pc = "ready" => tx[s].seenStatus # None
          /\ tx[s].seenStatus \notin {None, "received"} => tx[s].app \in Apps /\ PastQueue(status[tx[s].app])
    /\ \A x \in Apps : agent[x] # None => PastQueue(status[x])

LEMMA IdleSees ==
    Idle.src = "none" /\ Idle.src \notin TransitionSources /\ Idle.seenStatus = None
BY DEF Idle, TransitionSources

LEMMA NextQueueInv ==
    ASSUME "received" \notin ForceTargets, TypeInv, QueueInv, [Next]_vars
    PROVE  QueueInv'
<1>1. ASSUME NEW s \in Sessions, NEW u, Become(s, u), u.src \notin TransitionSources,
             \/ u.seenStatus \in {None, "received"}
             \/ u.seenStatus = tx[s].seenStatus /\ u.app = tx[s].app,
             u.src \in {"admin", "rerun", "job"} => u.seenStatus # None,
             u.src = "claim" /\ u.pc = "ready" => u.seenStatus # None,
             \A x \in Apps : PastQueue(status[x]) => PastQueue(status'[x]),
             \A x \in Apps : agent'[x] # None => agent[x] # None \/ PastQueue(status'[x])
      PROVE  QueueInv'
  <2>1. \A q \in Sessions : tx'[q] = IF q = s THEN u ELSE tx[q]
    BY <1>1 DEF Become, TypeInv, TypeOK
  <2> HIDE DEF PastQueue
  <2>2. QED
    BY <1>1, <2>1 DEF QueueInv
<1>2. CASE Quiet
  <2>1. \A x \in Apps : PastQueue(status'[x]) <=> PastQueue(status[x])
    BY <1>2 DEF Quiet, caseRows, PastQueue
  <2>2. \A q \in Sessions : Fresh(tx'[q]) =>
            /\ tx'[q].seenStatus # None /\ tx'[q].src # "claim" /\ tx'[q].app \in Apps
            /\ tx'[q].seenStatus # "received" => PastQueue(status[tx'[q].app])
            /\ tx'[q].src \in TransitionSources => tx'[q].to # "received"
    BY CasesAssumption DEF Fresh, Exists, PastQueue, TypeInv, TypeOK
  <2>3. ASSUME NEW q \in Sessions PROVE
          /\ tx'[q].src \in TransitionSources => tx'[q].to # "received"
          /\ tx'[q].src \in {"admin", "rerun", "job"} => tx'[q].seenStatus # None
          /\ tx'[q].src = "claim" /\ tx'[q].pc = "ready" => tx'[q].seenStatus # None
          /\ tx'[q].seenStatus \notin {None, "received"} => tx'[q].app \in Apps /\ PastQueue(status[tx'[q].app])
    <3>1. Carried(tx[q], tx'[q])
      BY <1>2 DEF Quiet
    <3>2. QED
      BY <2>2, <3>1 DEF Carried, Blank, Kept, QueueInv, TransitionSources
  <2>4. agent' = agent
    BY <1>2 DEF Quiet, caseRows
  <2>5. QED
    BY <2>1, <2>3, <2>4 DEF QueueInv
<1>3. ASSUME NEW s \in Requests, NEW x \in Apps, NEW c \in Clients, SubmitApplication(s, x, c)
      PROVE  QueueInv'
  <2>1. \A y \in Apps : PastQueue(status[y]) => PastQueue(status'[y])
    BY <1>3 DEF SubmitApplication, PastQueue, Exists, TypeInv, TypeOK
  <2> DEFINE u == [Idle EXCEPT !.src = "submit", !.pc = "enqueue", !.app = x]
  <2>2. u.src = "submit" /\ u.seenStatus = None /\ u.src \notin TransitionSources
    BY DEF Idle, TransitionSources
  <2>3. Become(s, u) /\ agent' = agent /\ s \in Sessions
    BY <1>3 DEF SubmitApplication, Sessions
  <2> HIDE DEF u
  <2>4. QED
    BY <1>1, <2>1, <2>2, <2>3
<1>4. ASSUME NEW s \in Sessions, ClaimLockRow(s) PROVE QueueInv'
  <2> DEFINE u == Load("claim", "ready", tx[s].app, tx[s].who, None)
  <2>1. u.src = "claim" /\ u.seenStatus = "received"
    BY <1>4 DEF ClaimLockRow, Claimable, Load
  <2>2. u.seenStatus # None
    BY <2>1, CasesAssumption DEF AnyStatus, ApplicationStatuses
  <2>3. Become(s, u) /\ UNCHANGED rows
    BY <1>4 DEF ClaimLockRow
  <2> HIDE DEF u
  <2>4. u.src \notin TransitionSources /\ status' = status /\ agent' = agent
    BY <2>1, <2>3 DEF rows, TransitionSources
  <2>5. QED
    BY <1>1, <2>1, <2>2, <2>3, <2>4
<1>5. ASSUME NEW s \in Sessions, CommitTransition(s) PROVE QueueInv'
  <2> DEFINE t == tx[s]
  <2>1. t.app \in Apps /\ t.to \in AnyStatus /\ t.to # "received" /\ t.to # "absent"
    BY <1>5 DEF CommitTransition, TypeInv, SessionOK, QueueInv, AnyStatus, ApplicationStatuses
  <2>2. status' = [status EXCEPT ![t.app] = WrittenStatus(t.app, t.seenStatus, t.to)]
    BY <1>5 DEF CommitTransition
  <2>3. \A y \in Apps : PastQueue(status[y]) => PastQueue(status'[y])
    BY <2>1, <2>2 DEF WrittenStatus, PastQueue, TypeInv, TypeOK
  <2>4. Become(s, Idle) /\ agent' = agent
    BY <1>5 DEF CommitTransition
  <2>5. QED
    BY <1>1, <2>3, <2>4, IdleSees
<1>6. ASSUME NEW s \in Sessions, CommitAssignment(s) PROVE QueueInv'
  <2> DEFINE t == tx[s]
  <2>1. /\ t.app \in Apps /\ t.src \in AssignSources /\ t.pc = "ready"
        /\ \A y \in Apps \ {t.app} : agent'[y] = agent[y] /\ status'[y] = status[y]
    BY <1>6, AssignmentCommitted DEF CommitAssignment
  <2>2. t.seenStatus # None
    BY <2>1 DEF QueueInv, AssignSources
  <2>3. PastQueue(status'[t.app])
    <3>1. CASE FirstAssignment(t)
      BY <1>6, <2>1, <3>1 DEF CommitAssignment, PastQueue, TypeInv, TypeOK
    <3>2. CASE ~FirstAssignment(t)
      <4>1. PastQueue(status[t.app])
        BY <2>2, <3>2 DEF FirstAssignment, QueueInv
      <4>2. status' = status
        BY <1>6, <3>2 DEF CommitAssignment
      <4>3. QED
        BY <4>1, <4>2 DEF PastQueue
    <3>3. QED
      BY <3>1, <3>2
  <2>4. \A y \in Apps : PastQueue(status[y]) => PastQueue(status'[y])
    BY <2>1, <2>3 DEF PastQueue
  <2>5. \A y \in Apps : agent'[y] # None => agent[y] # None \/ PastQueue(status'[y])
    BY <2>1, <2>3
  <2>6. Become(s, Idle) \/ (t.src = "job" /\ Become(s, [t EXCEPT !.pc = "done"]))
    BY <1>6 DEF CommitAssignment
  <2>7. CASE Become(s, Idle)
    BY <1>1, <2>4, <2>5, <2>7, IdleSees
  <2>8. CASE t.src = "job" /\ Become(s, [t EXCEPT !.pc = "done"])
    <3> DEFINE u == [t EXCEPT !.pc = "done"]
    <3>1. u.src = "job" /\ u.seenStatus = t.seenStatus /\ u.app = t.app
      BY <2>8 DEF TypeInv, TypeOK, Session
    <3> HIDE DEF u
    <3>2. QED
      BY <1>1, <2>2, <2>4, <2>5, <2>8, <3>1 DEF u, TransitionSources
  <2>9. QED
    BY <2>6, <2>7, <2>8
<1>7. QED
  BY <1>2, <1>3, <1>4, <1>5, <1>6, StepKinds

\* An assigned case never returns to the queue of claimable cases unless an
\* administrator puts it there.
THEOREM AssignedCasesLeaveQueue ==
    ASSUME "received" \notin ForceTargets
    PROVE  Spec => []AssignedLeavesQueue
<1>1. Init => TypeInv /\ QueueInv
  BY InitTypeInv DEF Init, QueueInv, Idle, TransitionSources
<1>2. TypeInv /\ QueueInv /\ [Next]_vars => (TypeInv /\ QueueInv)'
  BY NextTypeInv, NextQueueInv
<1>3. TypeInv /\ QueueInv => AssignedLeavesQueue
  BY DEF QueueInv, PastQueue, AssignedLeavesQueue
<1>4. QED
  BY <1>1, <1>2, <1>3, PTL DEF Spec

\* Row, histories and timestamps agree, for any number of sessions and crashes.
THEOREM CasesAlwaysAgree == Spec => []CasesAgree
BY TypeCorrect, AssignmentsAreLogged, ClosedCasesAreStamped, PTL DEF CasesAgree

-----------------------------------------------------------------------------
(***************************************************************************)
(* What the tables of the histories hold: an agent's automatic assignments *)
(* are among those of today, and his cap is at most the highest he had.    *)
(***************************************************************************)
HistoryInv ==
    /\ scorer \in [Scorers -> Scorer]
    /\ automatic \in [Staff -> Nat]
    /\ highest \in [Staff -> Caps \cup {Unset}]
    /\ \A a \in Staff :
         /\ automatic[a] <= today[a]
         /\ highest[a] # Unset => cap[a] # Unset /\ cap[a] <= highest[a]

(***************************************************************************)
(* The sessions that may still assign a case to an agent: they have found  *)
(* him below his cap.                                                      *)
(***************************************************************************)
MayAssign(r, a) ==
    \/ r.pc \in {"skills", "rates", "decide"} /\ \E c \in r.pool : c.id = a
    \/ r.pc = "assign" /\ r.winner = a
Pending(a) == {s \in Scorers : MayAssign(scorer[s], a)}

PendingInv ==
    \A a \in Staff :
        highest[a] # Unset
            => automatic[a] + Cardinality(Pending(a)) <= highest[a] + Cardinality(Scorers) - 1

(***************************************************************************)
(* An agent is in a pool once, whoever is picked is the best of it, and    *)
(* nobody is turned down but for an urgent case.                           *)
(***************************************************************************)
PickHolds(r) ==
    /\ \A c \in r.pool : c.cap > 0
    /\ \A c, d \in r.pool : c.id = d.id => c = d
    /\ r.pc = "assign" => \E w \in Best(r.pool, r.urgent) : w.id = r.winner
    /\ r.pc = "tell" /\ r.pool # {} => r.urgent

PickInv == \A s \in Scorers : PickHolds(scorer[s])

ScorerTypes == \A s \in Scorers : scorer[s] \in Scorer /\ \A c \in scorer[s].pool : c.cap > 0

ScoringInv == ScoringTypeOK /\ HistoryInv /\ PendingInv /\ PickInv

-----------------------------------------------------------------------------
(* Scoring: the points *)

LEMMA ScoringConstants ==
    /\ \A cc \in Caps : cc \in Nat /\ cc > 0
    /\ \A l \in Levels : l \in Nat /\ l >= 1
    /\ \A r \in Rates : r \in 0..100
    /\ Unset \notin Nat /\ Unset \notin Staff /\ Unset \notin Levels /\ Unset \notin Caps
    /\ Cardinality(Scorers) \in Nat
<1>1. Cardinality(Scorers) \in Nat
  BY ScoringAssumption, FS_CardinalityType
<1>2. \A l \in Levels : l \in 1..5
  BY ScoringAssumption
<1>3. \A l \in Levels : l \in Nat /\ l >= 1
  BY <1>2
<1>4. \A cc \in Caps : cc \in Nat /\ cc > 0
  BY ScoringAssumption
<1>5. QED BY <1>1, <1>3, <1>4, ScoringAssumption

\* A product of positive numbers outweighs nothing but zero.
LEMMA NoOffset ==
    ASSUME NEW n \in Nat, n > 0, NEW k \in Nat, NEW m \in Nat, n * k + 300 * m <= 0
    PROVE  k = 0 /\ m = 0
<1>1. n * k \in Nat
  OBVIOUS
<1>2. m = 0 /\ n * k = 0
  BY <1>1
<1>3. k > 0 => n * k > 0
  OBVIOUS
<1>4. QED BY <1>2, <1>3

LEMMA CandidateFacts ==
    ASSUME NEW c \in Candidate, c.cap > 0, NEW urgent \in BOOLEAN
    PROVE  /\ c.cap \in Nat /\ c.rate \in Nat /\ c.load \in Nat /\ c.last \in Nat
           /\ c.rate <= 100
           /\ c.skill = Unset \/ (c.skill \in Nat /\ c.skill >= 1 /\ c.skill # Unset)
           /\ Expertise(c) \in Nat /\ Expertise(c) >= 80
           /\ Urgency(c, urgent) \in Nat
           /\ Filled(c) \in Nat /\ Filled(c) <= c.cap
<1>1. /\ c.cap \in Nat /\ c.rate \in Nat /\ c.load \in Nat /\ c.last \in Nat /\ c.rate <= 100
      /\ c.skill \in Levels \cup {Unset}
  BY DEF Candidate
<1>2. c.skill = Unset \/ (c.skill \in Nat /\ c.skill >= 1 /\ c.skill # Unset)
  BY <1>1, ScoringConstants
<1>3. QED BY <1>1, <1>2 DEF Expertise, Urgency, Filled

\* The score of a case that is not urgent is never below the threshold.
LEMMA EnoughForAll ==
    ASSUME NEW c \in Candidate, c.cap > 0
    PROVE  Enough(c, FALSE)
<1>1. /\ c.cap \in Nat /\ c.rate \in Nat /\ Expertise(c) \in Nat /\ Expertise(c) >= 80
      /\ Filled(c) \in Nat /\ Filled(c) <= c.cap
  BY CandidateFacts
<1> DEFINE pts == Expertise(c) + 2 * c.rate + 100
           room == c.cap - Filled(c)
<1>2. Points(c, FALSE) = c.cap * pts + 300 * room
  BY DEF Points, Urgency
<1>3. pts \in Nat /\ pts >= 180 /\ room \in Nat
  BY <1>1
<1> HIDE DEF pts, room
<1>4. c.cap * pts >= c.cap * 180 /\ c.cap * pts \in Nat
  BY <1>1, <1>3
<1>5. c.cap * 180 >= 150 * c.cap /\ c.cap * 180 \in Nat /\ 150 * c.cap \in Nat
  BY <1>1
<1>6. Points(c, FALSE) >= 150 * c.cap
  <2> DEFINE x == c.cap * pts
             y == 300 * room
             z == 150 * c.cap
             u == c.cap * 180
  <2>1. y \in Nat /\ x \in Nat /\ z \in Nat /\ u \in Nat /\ x >= u /\ u >= z
    BY <1>3, <1>4, <1>5
  <2>2. Points(c, FALSE) = x + y
    BY <1>2
  <2> HIDE DEF x, y, z, u
  <2>3. x + y >= z
    BY <2>1
  <2>4. QED BY <2>2, <2>3 DEF z
<1>7. 10 * MIN_ASSIGNMENT_SCORE * c.cap = 150 * c.cap
  BY <1>1 DEF MIN_ASSIGNMENT_SCORE
<1>8. QED BY <1>6, <1>7 DEF Enough

LEMMA SkilledFacts ==
    ASSUME NEW c \in Candidate, NEW d \in Candidate, c.cap > 0, d.cap > 0,
           AsSkilled(c.skill, d.skill)
    PROVE  /\ Expertise(c) >= Expertise(d)
           /\ Expertise(c) = Expertise(d) => c.skill = d.skill
<1>1. /\ c.skill = Unset \/ (c.skill \in Nat /\ c.skill >= 1 /\ c.skill # Unset)
      /\ d.skill = Unset \/ (d.skill \in Nat /\ d.skill >= 1 /\ d.skill # Unset)
  BY CandidateFacts
<1>2. CASE c.skill = d.skill
  BY <1>1, <1>2 DEF Expertise
<1>3. CASE c.skill # d.skill /\ d.skill = Unset
  BY <1>1, <1>3 DEF Expertise, AsSkilled
<1>4. CASE c.skill # d.skill /\ d.skill # Unset
  BY <1>1, <1>4 DEF Expertise, AsSkilled
<1>5. QED BY <1>2, <1>3, <1>4

\* Who is ahead in nothing that counts and behind in nothing has the same points, and
\* then the same skill, rate and share of the cap.
LEMMA BestIsNotOutdone ==
    ASSUME NEW c \in Candidate, NEW w \in Candidate, c.cap > 0, w.cap > 0, NEW urgent \in BOOLEAN,
           ~Above(c, w, urgent), AtLeast(c, w)
    PROVE  AtLeast(w, c)
<1> DEFINE ec == Expertise(c)
           ew == Expertise(w)
           uc == Urgency(c, urgent)
           uw == Urgency(w, urgent)
           fc == Filled(c)
           fw == Filled(w)
<1>1. /\ c.cap \in Nat /\ c.rate \in Nat /\ ec \in Nat /\ uc \in Nat /\ fc \in Nat
      /\ w.cap \in Nat /\ w.rate \in Nat /\ ew \in Nat /\ uw \in Nat /\ fw \in Nat
  BY CandidateFacts
<1>2. ec >= ew /\ c.rate >= w.rate /\ fc * w.cap <= fw * c.cap
  BY SkilledFacts DEF AtLeast, AsRoomy
<1>3. uc >= uw
  BY <1>2 DEF Urgency
<1>4. /\ Points(c, urgent) = c.cap * (ec + 2 * c.rate + uc) + 300 * (c.cap - fc)
      /\ Points(w, urgent) = w.cap * (ew + 2 * w.rate + uw) + 300 * (w.cap - fw)
  BY DEF Points
<1>5. Points(c, urgent) * w.cap <= Points(w, urgent) * c.cap
  <2>1. Points(c, urgent) \in Int /\ Points(w, urgent) \in Int
    <3> HIDE DEF ec, ew, uc, uw, fc, fw
    <3>1. QED BY <1>1, <1>4
  <2>2. Points(c, urgent) * w.cap \in Int /\ Points(w, urgent) * c.cap \in Int
    BY <1>1, <2>1
  <2>3. QED BY <2>2 DEF Above
<1> DEFINE n == c.cap * w.cap
           k == (ec - ew) + 2 * (c.rate - w.rate) + (uc - uw)
           m == fw * c.cap - fc * w.cap
<1> HIDE DEF ec, ew, uc, uw, fc, fw
<1>6. n \in Nat /\ n > 0 /\ k \in Nat /\ m \in Nat
  BY <1>1, <1>2, <1>3
<1>7. (c.cap * (ec + 2 * c.rate + uc) + 300 * (c.cap - fc)) * w.cap
        - (w.cap * (ew + 2 * w.rate + uw) + 300 * (w.cap - fw)) * c.cap
      = n * k + 300 * m
  BY <1>1
<1>8. n * k + 300 * m <= 0
  <2>1. /\ (c.cap * (ec + 2 * c.rate + uc) + 300 * (c.cap - fc)) * w.cap \in Int
        /\ (w.cap * (ew + 2 * w.rate + uw) + 300 * (w.cap - fw)) * c.cap \in Int
    BY <1>1
  <2>2. (c.cap * (ec + 2 * c.rate + uc) + 300 * (c.cap - fc)) * w.cap
          <= (w.cap * (ew + 2 * w.rate + uw) + 300 * (w.cap - fw)) * c.cap
    BY <1>4, <1>5
  <2> HIDE DEF n, k, m
  <2>3. QED BY <1>7, <2>1, <2>2
<1>9. k = 0 /\ m = 0
  <2> HIDE DEF n, k, m
  <2>1. QED BY <1>6, <1>8, NoOffset
<1>10. ec = ew /\ c.rate = w.rate /\ fw * c.cap = fc * w.cap
  <2>1. ec = ew /\ c.rate = w.rate
    BY <1>1, <1>2, <1>3, <1>9
  <2>2. fw * c.cap \in Int /\ fc * w.cap \in Int
    BY <1>1
  <2>3. QED BY <1>9, <2>1, <2>2
<1>11. c.skill = w.skill
  BY <1>10, SkilledFacts DEF AtLeast, ec, ew
<1>12. fw * c.cap <= fc * w.cap
  BY <1>1, <1>10
<1>13. QED BY <1>1, <1>10, <1>11, <1>12 DEF AtLeast, AsSkilled, AsRoomy, fc, fw

-----------------------------------------------------------------------------
(* Scoring: what a session has at hand *)

LEMMA NoScorerFacts ==
    /\ NoScorer \in Scorer /\ NoScorer.pc = "idle" /\ NoScorer.pool = {} /\ PickHolds(NoScorer)
    /\ \A a \in Staff : ~MayAssign(NoScorer, a)
BY DEF NoScorer, Scorer, PickHolds, MayAssign

LEMMA TurnStep ==
    ASSUME HistoryInv, PickInv, NEW s \in Scorers, NEW r \in Scorer, PickHolds(r), Turn(s, r)
    PROVE  /\ scorer' \in [Scorers -> Scorer] /\ PickInv'
           /\ scorer'[s] = r /\ \A o \in Scorers \ {s} : scorer'[o] = scorer[o]
BY DEF HistoryInv, PickInv, Turn

LEMMA PendingFacts ==
    ASSUME NEW a
    PROVE  /\ IsFiniteSet(Pending(a)) /\ IsFiniteSet(Pending(a)')
           /\ Cardinality(Pending(a)) \in Nat /\ Cardinality(Pending(a)') \in Nat
           /\ Cardinality(Pending(a)') <= Cardinality(Scorers)
           /\ Pending(a)' \subseteq Pending(a) => Cardinality(Pending(a)') <= Cardinality(Pending(a))
<1>1. Pending(a) \subseteq Scorers /\ Pending(a)' \subseteq Scorers
  BY DEF Pending
<1>2. IsFiniteSet(Pending(a)) /\ IsFiniteSet(Pending(a)') /\ Cardinality(Pending(a)') <= Cardinality(Scorers)
  BY <1>1, ScoringAssumption, FS_Subset
<1>3. QED BY <1>2, FS_Subset, FS_CardinalityType

\* The bound for one agent.
Bounded(a) ==
    highest[a] # Unset
        => automatic[a] + Cardinality(Pending(a)) <= highest[a] + Cardinality(Scorers) - 1

LEMMA BoundedAside ==
    ASSUME HistoryInv, NEW a \in Staff, Bounded(a), Pending(a)' \subseteq Pending(a),
           automatic'[a] = automatic[a],
           highest'[a] # Unset => highest[a] # Unset /\ highest'[a] \in Nat /\ highest[a] <= highest'[a]
    PROVE  Bounded(a)'
<1>1. Cardinality(Pending(a)') <= Cardinality(Pending(a))
  BY PendingFacts
<1>2. Cardinality(Pending(a)') \in Nat /\ Cardinality(Pending(a)) \in Nat /\ Cardinality(Scorers) \in Nat
  BY PendingFacts, ScoringConstants
<1>3. automatic[a] \in Nat /\ (highest[a] # Unset => highest[a] \in Nat)
  BY ScoringConstants DEF HistoryInv
<1>4. QED BY <1>1, <1>2, <1>3 DEF Bounded

\* An agent whose automatic assignments are below his cap has room for all sessions.
LEMMA BoundedAfresh ==
    ASSUME NEW a \in Staff, automatic'[a] \in Nat, highest'[a] # Unset => highest'[a] \in Nat
                                                       /\ automatic'[a] < highest'[a]
    PROVE  Bounded(a)'
<1>1. Cardinality(Pending(a)') <= Cardinality(Scorers) /\ Cardinality(Pending(a)') \in Nat
      /\ Cardinality(Scorers) \in Nat
  BY PendingFacts, ScoringConstants
<1>2. QED BY <1>1 DEF Bounded

LEMMA PendingInvIs == PendingInv <=> \A a \in Staff : Bounded(a)
BY DEF PendingInv, Bounded

\* A session that goes on may assign to nobody that it might not have assigned to before.
LEMMA TurnAside ==
    ASSUME HistoryInv, PickInv, PendingInv, NEW s \in Scorers, NEW r \in Scorer, PickHolds(r), Turn(s, r),
           \A a \in Staff : MayAssign(r, a) => MayAssign(scorer[s], a),
           UNCHANGED <<cap, today, automatic, highest>>
    PROVE  HistoryInv' /\ PickInv' /\ PendingInv' /\ ScorerTypes'
<1>1. /\ scorer' \in [Scorers -> Scorer] /\ PickInv'
      /\ scorer'[s] = r /\ \A o \in Scorers \ {s} : scorer'[o] = scorer[o]
  BY TurnStep
<1>2. HistoryInv'
  BY <1>1 DEF HistoryInv
<1>3. \A a \in Staff : Pending(a)' \subseteq Pending(a)
  BY <1>1 DEF Pending
<1>4. \A a \in Staff : highest[a] # Unset => highest[a] \in Nat
  BY ScoringConstants DEF HistoryInv
<1>5. \A a \in Staff : Bounded(a)'
  BY <1>3, <1>4, BoundedAside, PendingInvIs
<1>6. PendingInv'
  BY <1>5 DEF PendingInv, Bounded
<1>7. QED BY <1>1, <1>2, <1>6 DEF ScorerTypes, PickInv, PickHolds

LEMMA ReadEligibleStep ==
    ASSUME ScoringInv, NEW s \in Scorers, NEW urgent \in BOOLEAN, ReadEligible(s, urgent)
    PROVE  HistoryInv' /\ PickInv' /\ PendingInv' /\ ScorerTypes'
<1> DEFINE row(a) == [id |-> a, load |-> load[a], cap |-> CapOrDefault(a), last |-> lastAt[a],
                      skill |-> Unset, rate |-> 50]
           pool == {row(a) : a \in {b \in Staff : open[b] /\ BelowCap(b)}}
           r == [pc |-> IF pool = {} THEN "tell" ELSE "skills",
                 urgent |-> urgent, pool |-> pool, winner |-> Unset]
<1> USE DEF ScoringInv
<1>0. \A a \in Staff : CapOrDefault(a) \in Nat /\ CapOrDefault(a) > 0
  BY ScoringConstants DEF CapOrDefault, SOFT_CAP, ScoringTypeOK
<1>1. \A a \in Staff : /\ row(a) \in Candidate /\ row(a).id = a /\ row(a).cap > 0
  BY <1>0 DEF ScoringTypeOK, Candidate
<1>2. Turn(s, r) /\ UNCHANGED <<cap, today, automatic, highest>>
  BY DEF ReadEligible, staffRows, counts
<1> HIDE DEF row
<1>3. /\ pool \in SUBSET Candidate
      /\ \A c \in pool : c.cap > 0 /\ c.id \in Staff /\ BelowCap(c.id) /\ c = row(c.id)
  BY <1>1
<1> HIDE DEF pool
<1>4. r \in Scorer /\ r.pool = pool /\ r.pc \in {"tell", "skills"} /\ (r.pc = "tell" => pool = {})
  BY <1>3 DEF Scorer
<1> HIDE DEF r
<1>5. PickHolds(r)
  BY <1>3, <1>4 DEF PickHolds
<1>6. /\ scorer' \in [Scorers -> Scorer] /\ PickInv'
      /\ scorer'[s] = r /\ \A o \in Scorers \ {s} : scorer'[o] = scorer[o]
  BY <1>2, <1>4, <1>5, TurnStep
<1>7. HistoryInv'
  BY <1>2, <1>6 DEF HistoryInv
<1>8. ASSUME NEW a \in Staff PROVE Bounded(a)'
  <2>0. highest[a] # Unset => highest[a] \in Nat
    BY ScoringConstants DEF HistoryInv
  <2>1. CASE MayAssign(r, a)
    <3>1. BelowCap(a)
      BY <1>3, <1>4, <2>1 DEF MayAssign
    <3>2. today[a] \in Nat /\ automatic[a] \in Nat /\ automatic[a] <= today[a]
      BY DEF HistoryInv, ScoringTypeOK
    <3>3. highest[a] # Unset => cap[a] # Unset /\ cap[a] <= highest[a] /\ today[a] < cap[a]
      BY <3>1 DEF HistoryInv, BelowCap
    <3>4. cap[a] # Unset => cap[a] \in Nat
      BY ScoringConstants DEF ScoringTypeOK
    <3>5. highest[a] # Unset => automatic[a] < highest[a]
      BY <2>0, <3>2, <3>3, <3>4
    <3>6. QED BY <1>2, <2>0, <3>2, <3>5, BoundedAfresh
  <2>2. CASE ~MayAssign(r, a)
    <3>1. Pending(a)' \subseteq Pending(a)
      BY <1>6, <2>2 DEF Pending
    <3>2. QED BY <1>2, <2>0, <3>1, BoundedAside, PendingInvIs
  <2>3. QED BY <2>1, <2>2
<1>9. PendingInv'
  BY <1>8 DEF PendingInv, Bounded
<1>10. QED BY <1>6, <1>7, <1>9 DEF ScorerTypes, PickInv, PickHolds

\* A query fills in one column of every row of the pool.
LEMMA FilledInStep ==
    ASSUME ScoringInv, NEW s \in Scorers, NEW r \in Scorer, r.pc \in {"rates", "decide"},
           scorer[s].pc \in {"skills", "rates"}, Turn(s, r),
           \A c \in r.pool : \E d \in scorer[s].pool : c.id = d.id /\ c.cap = d.cap,
           \A c, d \in r.pool : c.id = d.id => c = d,
           UNCHANGED <<cap, today, automatic, highest>>
    PROVE  HistoryInv' /\ PickInv' /\ PendingInv' /\ ScorerTypes'
<1>1. PickHolds(scorer[s])
  BY DEF ScoringInv, PickInv
<1>2. PickHolds(r)
  BY <1>1 DEF PickHolds
<1>3. \A a \in Staff : MayAssign(r, a) => MayAssign(scorer[s], a)
  BY DEF MayAssign
<1>4. QED BY <1>2, <1>3, TurnAside DEF ScoringInv

LEMMA ReadSkillsStep ==
    ASSUME ScoringInv, NEW s \in Scorers, ReadSkills(s)
    PROVE  HistoryInv' /\ PickInv' /\ PendingInv' /\ ScorerTypes'
<1> DEFINE filled(c) == [c EXCEPT !.skill = skill[c.id]]
           pool == {filled(c) : c \in scorer[s].pool}
           r == [scorer[s] EXCEPT !.pc = "rates", !.pool = pool]
<1>1. scorer[s] \in Scorer /\ PickHolds(scorer[s]) /\ scorer[s].pc = "skills"
  BY DEF ScoringInv, HistoryInv, PickInv, ReadSkills
<1>2. \A c \in scorer[s].pool : filled(c) \in Candidate /\ filled(c).id = c.id /\ filled(c).cap = c.cap
  BY <1>1 DEF Scorer, Candidate, ScoringInv, ScoringTypeOK
<1>3. Turn(s, r) /\ UNCHANGED <<cap, today, automatic, highest>>
  BY DEF ReadSkills, staffRows, counts
<1> HIDE DEF filled
<1>4. /\ pool \in SUBSET Candidate
      /\ \A c \in pool : \E d \in scorer[s].pool : c = filled(d) /\ c.id = d.id /\ c.cap = d.cap
  BY <1>2
<1> HIDE DEF pool
<1>5. r \in Scorer /\ r.pool = pool /\ r.pc = "rates"
  BY <1>1, <1>4 DEF Scorer
<1> HIDE DEF r
<1>6. \A c, d \in pool : c.id = d.id => c = d
  BY <1>1, <1>4 DEF PickHolds
<1>7. QED BY <1>1, <1>3, <1>4, <1>5, <1>6, FilledInStep

LEMMA ReadRatesStep ==
    ASSUME ScoringInv, NEW s \in Scorers, ReadRates(s)
    PROVE  HistoryInv' /\ PickInv' /\ PendingInv' /\ ScorerTypes'
<1> DEFINE filled(c) == [c EXCEPT !.rate = IF rate[c.id] = Unset THEN c.rate ELSE rate[c.id]]
           pool == {filled(c) : c \in scorer[s].pool}
           r == [scorer[s] EXCEPT !.pc = "decide", !.pool = pool]
<1>1. scorer[s] \in Scorer /\ PickHolds(scorer[s]) /\ scorer[s].pc = "rates"
  BY DEF ScoringInv, HistoryInv, PickInv, ReadRates
<1>2. ASSUME NEW c \in scorer[s].pool
      PROVE  filled(c) \in Candidate /\ filled(c).id = c.id /\ filled(c).cap = c.cap
  <2> DEFINE percent == IF rate[c.id] = Unset THEN c.rate ELSE rate[c.id]
  <2>1. c \in Candidate /\ rate[c.id] \in Rates \cup {Unset}
    BY <1>1 DEF Scorer, Candidate, ScoringInv, ScoringTypeOK
  <2>2. percent \in 0..100
    BY <2>1, ScoringConstants DEF Candidate
  <2> HIDE DEF percent
  <2>3. [c EXCEPT !.rate = percent] \in Candidate
    BY <2>1, <2>2 DEF Candidate
  <2>4. QED BY <2>1, <2>3 DEF percent, Candidate
<1>3. Turn(s, r) /\ UNCHANGED <<cap, today, automatic, highest>>
  BY DEF ReadRates, staffRows, counts
<1> HIDE DEF filled
<1>4. /\ pool \in SUBSET Candidate
      /\ \A c \in pool : \E d \in scorer[s].pool : c = filled(d) /\ c.id = d.id /\ c.cap = d.cap
  BY <1>2
<1> HIDE DEF pool
<1>5. r \in Scorer /\ r.pool = pool /\ r.pc = "decide"
  BY <1>1, <1>4 DEF Scorer
<1> HIDE DEF r
<1>6. \A c, d \in pool : c.id = d.id => c = d
  BY <1>1, <1>4 DEF PickHolds
<1>7. QED BY <1>1, <1>3, <1>4, <1>5, <1>6, FilledInStep

LEMMA DecideStep ==
    ASSUME ScoringInv, NEW s \in Scorers, Decide(s)
    PROVE  HistoryInv' /\ PickInv' /\ PendingInv' /\ ScorerTypes'
<1> DEFINE r == scorer[s]
<1>1. r \in Scorer /\ PickHolds(r) /\ r.pc = "decide" /\ r.urgent \in BOOLEAN
  BY DEF ScoringInv, HistoryInv, PickInv, Decide, Scorer
<1>2. PICK c \in Best(r.pool, r.urgent) :
        Turn(s, IF Enough(c, r.urgent) THEN [r EXCEPT !.pc = "assign", !.winner = c.id]
                ELSE [r EXCEPT !.pc = "tell"])
  BY DEF Decide
<1>3. c \in r.pool /\ c \in Candidate /\ c.cap > 0 /\ c.id \in Staff
  BY <1>1 DEF Best, PickHolds, Scorer, Candidate
<1>4. UNCHANGED <<cap, today, automatic, highest>>
  BY DEF Decide, staffRows, counts
<1>5. CASE Enough(c, r.urgent)
  <2> DEFINE n == [r EXCEPT !.pc = "assign", !.winner = c.id]
  <2>1. n \in Scorer /\ n.pc = "assign" /\ n.winner = c.id /\ n.pool = r.pool /\ n.urgent = r.urgent
    BY <1>1, <1>3 DEF Scorer
  <2>2. Turn(s, n)
    BY <1>2, <1>5
  <2> HIDE DEF n, r
  <2>3. PickHolds(n)
    BY <1>1, <2>1 DEF PickHolds
  <2>4. \A a \in Staff : MayAssign(n, a) => MayAssign(r, a)
    BY <1>1, <1>3, <2>1 DEF MayAssign
  <2>5. QED BY <1>4, <2>1, <2>2, <2>3, <2>4, TurnAside DEF ScoringInv, r
<1>6. CASE ~Enough(c, r.urgent)
  <2> DEFINE n == [r EXCEPT !.pc = "tell"]
  <2>1. n \in Scorer /\ n.pc = "tell" /\ n.pool = r.pool /\ n.urgent = r.urgent
    BY <1>1 DEF Scorer
  <2>2. Turn(s, n)
    BY <1>2, <1>6
  <2>3. r.urgent
    <3>1. CASE r.urgent = FALSE
      BY <1>3, <1>6, <3>1, EnoughForAll
    <3>2. QED BY <1>1, <3>1
  <2> HIDE DEF n, r
  <2>4. PickHolds(n)
    BY <1>1, <2>1, <2>3 DEF PickHolds
  <2>5. \A a \in Staff : MayAssign(n, a) => MayAssign(r, a)
    BY <2>1 DEF MayAssign
  <2>6. QED BY <1>4, <2>1, <2>2, <2>4, <2>5, TurnAside DEF ScoringInv, r
<1>7. QED BY <1>5, <1>6

\* Whoever is assigned a case has been waited for by the session.
LEMMA AssignStep ==
    ASSUME ScoringInv, NEW s \in Scorers, Assign(s)
    PROVE  HistoryInv' /\ PickInv' /\ PendingInv' /\ ScorerTypes'
<1> DEFINE w == scorer[s].winner
<1> USE DEF ScoringInv
<1>1. scorer[s].pc = "assign" /\ scorer[s] \in Scorer /\ PickHolds(scorer[s])
  BY DEF Assign, HistoryInv, PickInv
<1>2. w \in Staff
  BY <1>1 DEF PickHolds, Best, Scorer, Candidate
<1>3. /\ automatic' = [automatic EXCEPT ![w] = automatic[w] + 1]
      /\ today' = [today EXCEPT ![w] = today[w] + 1]
      /\ Turn(s, NoScorer)
      /\ UNCHANGED <<cap, highest>>
  BY DEF Assign, Count, staffRows
<1>4. /\ scorer' \in [Scorers -> Scorer] /\ PickInv'
      /\ scorer'[s] = NoScorer /\ \A o \in Scorers \ {s} : scorer'[o] = scorer[o]
  BY <1>3, NoScorerFacts, TurnStep
<1>5. HistoryInv'
  BY <1>2, <1>3, <1>4 DEF HistoryInv, ScoringTypeOK
<1>6. \A a \in Staff : Pending(a)' \subseteq Pending(a) /\ s \notin Pending(a)'
  BY <1>4, NoScorerFacts DEF Pending
<1>7. ASSUME NEW a \in Staff PROVE Bounded(a)'
  <2>0. highest[a] # Unset => highest[a] \in Nat
    BY ScoringConstants DEF HistoryInv
  <2>1. CASE a # w
    <3>1. automatic'[a] = automatic[a]
      BY <1>3, <2>1 DEF HistoryInv
    <3>2. QED BY <1>3, <1>6, <2>0, <3>1, BoundedAside, PendingInvIs
  <2>2. CASE a = w
    <3>1. automatic'[a] = automatic[a] + 1 /\ automatic[a] \in Nat
      BY <1>2, <1>3, <2>2 DEF HistoryInv
    <3>2. s \in Pending(a)
      BY <1>1, <2>2 DEF Pending, MayAssign
    <3>3. Cardinality(Pending(a)') + 1 <= Cardinality(Pending(a))
      <4> DEFINE rest == Pending(a) \ {s}
      <4>1. IsFiniteSet(rest) /\ Cardinality(rest) = Cardinality(Pending(a)) - 1
        BY <3>2, PendingFacts, FS_RemoveElement
      <4>2. Pending(a)' \subseteq rest
        BY <1>6
      <4>3. Cardinality(Pending(a)') <= Cardinality(rest)
        BY <4>1, <4>2, FS_Subset
      <4>4. Cardinality(Pending(a)') \in Nat /\ Cardinality(Pending(a)) \in Nat
        BY PendingFacts
      <4> HIDE DEF rest
      <4>5. QED BY <4>1, <4>3, <4>4
    <3>4. /\ Cardinality(Pending(a)') \in Nat /\ Cardinality(Pending(a)) \in Nat
          /\ Cardinality(Scorers) \in Nat
      BY PendingFacts, ScoringConstants
    <3>5. Bounded(a)
      BY PendingInvIs
    <3>6. QED BY <1>3, <2>0, <3>1, <3>3, <3>4, <3>5 DEF Bounded
  <2>3. QED BY <2>1, <2>2
<1>8. PendingInv'
  BY <1>7 DEF PendingInv, Bounded
<1>9. QED BY <1>4, <1>5, <1>8 DEF ScorerTypes, PickInv, PickHolds

LEMMA LeaveStep ==
    ASSUME ScoringInv, NEW s \in Scorers, TellAdmins(s) \/ Fail(s)
    PROVE  HistoryInv' /\ PickInv' /\ PendingInv' /\ ScorerTypes'
<1>1. Turn(s, NoScorer) /\ UNCHANGED <<cap, today, automatic, highest>>
  BY DEF TellAdmins, Fail, staffRows, counts
<1>2. QED BY <1>1, NoScorerFacts, TurnAside DEF ScoringInv

-----------------------------------------------------------------------------
(* Scoring: what others do, and types *)

\* Nobody scores; caps are raised or taken away in the history, and no automatic
\* assignment is counted.
LEMMA OthersAside ==
    ASSUME ScoringInv, scorer' = scorer, automatic' = automatic,
           HistoryInv',
           \A a \in Staff : highest'[a] # Unset => highest[a] # Unset /\ highest[a] <= highest'[a]
    PROVE  HistoryInv' /\ PickInv' /\ PendingInv' /\ ScorerTypes'
<1>1. \A a \in Staff : Pending(a)' = Pending(a)
  BY DEF Pending
<1>2. \A a \in Staff : highest'[a] # Unset => highest'[a] \in Nat
  BY ScoringConstants DEF HistoryInv
<1>3. \A a \in Staff : Bounded(a)'
  BY <1>1, <1>2, BoundedAside, PendingInvIs DEF ScoringInv
<1>4. PendingInv'
  BY <1>3 DEF PendingInv, Bounded
<1>5. QED BY <1>4 DEF ScoringInv, PickInv, ScorerTypes, ScoringTypeOK

LEMMA OthersStep ==
    ASSUME ScoringInv,
           \/ \E a \in Staff : \/ AssignByHand(a) \/ CloseCase(a) \/ SetOpen(a)
                               \/ \E level \in Levels \cup {Unset} : SetSkills(a, level)
    PROVE  HistoryInv' /\ PickInv' /\ PendingInv' /\ ScorerTypes'
<1> USE DEF ScoringInv
<1>1. scorer' = scorer /\ automatic' = automatic /\ cap' = cap /\ highest' = highest
  BY DEF AssignByHand, CloseCase, SetOpen, SetSkills, Count, staffRows, counts
<1>2. \A a \in Staff : today'[a] \in Nat /\ today[a] <= today'[a]
  BY DEF AssignByHand, CloseCase, SetOpen, SetSkills, Count, staffRows, counts, ScoringTypeOK
<1>3. HistoryInv'
  <2>1. \A a \in Staff : automatic[a] \in Nat /\ today[a] \in Nat /\ automatic[a] <= today[a]
    BY DEF HistoryInv, ScoringTypeOK
  <2>2. \A a \in Staff : automatic[a] <= today'[a]
    BY <1>2, <2>1
  <2>3. QED BY <1>1, <2>2 DEF HistoryInv
<1>4. \A a \in Staff : highest[a] # Unset => highest[a] <= highest[a]
  BY ScoringConstants DEF HistoryInv
<1>5. QED BY <1>1, <1>3, <1>4, OthersAside

LEMMA SetCapStep ==
    ASSUME ScoringInv, NEW a \in Staff, NEW new \in Caps \cup {Unset}, SetCap(a, new)
    PROVE  HistoryInv' /\ PickInv' /\ PendingInv' /\ ScorerTypes'
<1> USE DEF ScoringInv
<1>1. /\ scorer' = scorer /\ automatic' = automatic /\ today' = today
      /\ cap' = [cap EXCEPT ![a] = new]
      /\ highest' = [highest EXCEPT ![a] = Higher(highest[a], new)]
  BY DEF SetCap, counts
<1>2. \A o \in Staff : highest[o] # Unset => highest[o] \in Nat /\ highest[o] \in Caps
  BY ScoringConstants DEF HistoryInv
<1>3. new # Unset => new \in Nat /\ new \in Caps
  BY ScoringConstants
<1>4. /\ Higher(highest[a], new) \in Caps \cup {Unset}
      /\ Higher(highest[a], new) # Unset
           => /\ new # Unset /\ new <= Higher(highest[a], new)
              /\ highest[a] # Unset /\ highest[a] <= Higher(highest[a], new)
  BY <1>2, <1>3 DEF Higher
<1>5. \A o \in Staff \ {a} : highest'[o] = highest[o] /\ cap'[o] = cap[o]
  BY <1>1 DEF HistoryInv, ScoringTypeOK
<1>6. highest'[a] = Higher(highest[a], new) /\ cap'[a] = new
  BY <1>1 DEF HistoryInv, ScoringTypeOK
<1>7. HistoryInv'
  <2>1. highest' \in [Staff -> Caps \cup {Unset}]
    BY <1>1, <1>4 DEF HistoryInv
  <2>2. \A o \in Staff : /\ automatic'[o] <= today'[o]
                         /\ highest'[o] # Unset => cap'[o] # Unset /\ cap'[o] <= highest'[o]
    BY <1>1, <1>4, <1>5, <1>6 DEF HistoryInv
  <2>3. QED BY <1>1, <2>1, <2>2 DEF HistoryInv
<1>8. \A o \in Staff : highest'[o] # Unset => highest[o] # Unset /\ highest[o] <= highest'[o]
  BY <1>2, <1>4, <1>5, <1>6
<1>9. QED BY <1>1, <1>7, <1>8, OthersAside

LEMMA NewDayStep ==
    ASSUME ScoringInv, NewDay
    PROVE  HistoryInv' /\ PickInv' /\ PendingInv' /\ ScorerTypes'
<1> USE DEF ScoringInv
<1>1. /\ scorer' = scorer /\ automatic' = [a \in Staff |-> 0] /\ today' = [a \in Staff |-> 0]
      /\ cap' = cap /\ highest' = highest
  BY DEF NewDay, staffRows
<1>2. HistoryInv'
  BY <1>1 DEF HistoryInv
<1>3. \A a \in Staff : highest[a] # Unset => highest[a] \in Nat /\ 0 < highest[a]
  BY ScoringConstants DEF HistoryInv
<1>4. \A a \in Staff : Bounded(a)'
  BY <1>1, <1>3, BoundedAfresh
<1>5. PendingInv'
  BY <1>4 DEF PendingInv, Bounded
<1>6. PickInv' /\ ScorerTypes'
  BY <1>1 DEF PickInv, ScorerTypes, ScoringTypeOK
<1>7. QED BY <1>2, <1>5, <1>6

RowTypes ==
    /\ open \in [Staff -> BOOLEAN]
    /\ cap \in [Staff -> Caps \cup {Unset}]
    /\ skill \in [Staff -> Levels \cup {Unset}]
    /\ rate \in [Staff -> Rates \cup {Unset}]
    /\ load \in [Staff -> Nat] /\ today \in [Staff -> Nat] /\ lastAt \in [Staff -> Nat]
    /\ clock \in Nat \ {0}
    /\ moves \in 0..MaxMoves

LEMMA RowTypesKeep ==
    ASSUME ScoringInv, [ScoringNext]_scoringVars
    PROVE  RowTypes'
<1>0. RowTypes /\ moves \in Nat /\ MaxMoves \in Nat
  BY ScoringAssumption DEF ScoringInv, ScoringTypeOK, RowTypes
<1> USE DEF RowTypes
<1>1. ASSUME UNCHANGED <<staffRows, counts, moves>> PROVE RowTypes'
  BY <1>0, <1>1 DEF staffRows, counts
<1>2. ASSUME NEW a \in Staff, NEW auto \in BOOLEAN, Count(a, auto), UNCHANGED staffRows,
             moves' \in 0..MaxMoves
      PROVE  RowTypes'
  BY <1>0, <1>2 DEF Count, staffRows
<1>3. ASSUME NEW s \in Scorers, Assign(s) PROVE RowTypes'
  <2>1. scorer[s].winner \in Staff
    BY <1>3 DEF Assign, ScoringInv, PickInv, PickHolds, Best, HistoryInv, Scorer, Candidate
  <2>2. QED BY <1>0, <1>2, <1>3, <2>1 DEF Assign
<1>4. Move => moves' \in 0..MaxMoves
  BY <1>0 DEF Move
<1>5. ASSUME NEW a \in Staff, AssignByHand(a) PROVE RowTypes'
  BY <1>2, <1>4, <1>5 DEF AssignByHand
<1>6. ASSUME NEW a \in Staff, CloseCase(a) PROVE RowTypes'
  <2>1. load[a] - 1 \in Nat
    BY <1>0, <1>6 DEF CloseCase
  <2>2. load' \in [Staff -> Nat]
    BY <1>0, <1>6, <2>1 DEF CloseCase
  <2>3. QED BY <1>0, <1>4, <1>6, <2>2 DEF CloseCase
<1>7. ASSUME NEW a \in Staff, SetOpen(a) PROVE RowTypes'
  BY <1>0, <1>4, <1>7 DEF SetOpen, counts
<1>8. ASSUME NEW a \in Staff, NEW new \in Caps \cup {Unset}, SetCap(a, new) PROVE RowTypes'
  BY <1>0, <1>4, <1>8 DEF SetCap, counts
<1>9. ASSUME NEW a \in Staff, NEW level \in Levels \cup {Unset}, SetSkills(a, level) PROVE RowTypes'
  BY <1>0, <1>4, <1>9 DEF SetSkills, counts
<1>10. CASE NewDay
  BY <1>0, <1>4, <1>10 DEF NewDay, staffRows
<1>11. CASE ScoringNext
  BY <1>1, <1>3, <1>5, <1>6, <1>7, <1>8, <1>9, <1>10, <1>11
     DEF ScoringNext, ReadEligible, ReadSkills, ReadRates, Decide, TellAdmins, Fail
<1>12. CASE UNCHANGED scoringVars
  BY <1>0, <1>12 DEF scoringVars
<1>13. QED BY <1>11, <1>12

LEMMA ScoringKeeps == ScoringInv /\ [ScoringNext]_scoringVars => ScoringInv'
<1> SUFFICES ASSUME ScoringInv, [ScoringNext]_scoringVars PROVE ScoringInv'
  OBVIOUS
<1>1. RowTypes'
  BY RowTypesKeep
<1>2. CASE ScoringNext
  <2>1. HistoryInv' /\ PickInv' /\ PendingInv' /\ ScorerTypes'
    BY <1>2, ReadEligibleStep, ReadSkillsStep, ReadRatesStep, DecideStep, AssignStep, LeaveStep,
       OthersStep, SetCapStep, NewDayStep DEF ScoringNext
  <2>2. QED BY <1>1, <2>1 DEF ScoringInv, ScoringTypeOK, RowTypes, ScorerTypes
<1>3. CASE UNCHANGED scoringVars
  BY <1>3 DEF scoringVars, ScoringInv, ScoringTypeOK, HistoryInv, PickInv, PendingInv, Pending
<1>4. QED BY <1>2, <1>3

LEMMA ScoringStart == ScoringInit => ScoringInv
<1> SUFFICES ASSUME ScoringInit PROVE ScoringInv
  OBVIOUS
<1> USE DEF ScoringInit
<1>1. ScoringTypeOK
  BY NoScorerFacts, ScoringAssumption DEF ScoringTypeOK
<1>2. HistoryInv
  <2>1. \A a \in Staff : highest[a] # Unset => highest[a] \in Nat
    BY ScoringConstants
  <2>2. QED BY <2>1, NoScorerFacts DEF HistoryInv
<1>3. PickInv
  BY NoScorerFacts DEF PickInv
<1>4. PendingInv
  <2>1. \A a \in Staff : Pending(a) = {}
    BY NoScorerFacts DEF Pending
  <2>2. \A a \in Staff : highest[a] # Unset => highest[a] \in Nat /\ highest[a] > 0
    BY ScoringConstants
  <2>3. \A a \in Staff : automatic[a] = 0
    OBVIOUS
  <2>4. Cardinality(Scorers) \in Nat
    BY ScoringConstants
  <2>5. SUFFICES ASSUME NEW a \in Staff, highest[a] # Unset
                 PROVE  automatic[a] + Cardinality(Pending(a))
                          <= highest[a] + Cardinality(Scorers) - 1
    BY DEF PendingInv
  <2>6. Cardinality(Pending(a)) = 0
    BY <2>1, FS_EmptySet
  <2>7. automatic[a] = 0 /\ highest[a] \in Nat /\ highest[a] > 0
    BY <2>2, <2>3, <2>5
  <2>8. QED BY <2>4, <2>6, <2>7, SMT
<1>5. QED BY <1>1, <1>2, <1>3, <1>4 DEF ScoringInv

-----------------------------------------------------------------------------
(* Scoring: theorems *)

\* In a day the automatic assignment exceeds the highest cap an agent has had by less
\* than there are sessions that score.
THEOREM CapsAlwaysHold == ScoringSpec => []CapHolds
<1>1. ScoringInv => CapHolds
  <2> SUFFICES ASSUME ScoringInv, NEW a \in Staff, highest[a] # Unset
               PROVE  automatic[a] <= highest[a] + Cardinality(Scorers) - 1
    BY DEF CapHolds
  <2>1. automatic[a] + Cardinality(Pending(a)) <= highest[a] + Cardinality(Scorers) - 1
    BY DEF ScoringInv, PendingInv
  <2>2. /\ Cardinality(Pending(a)) \in Nat /\ Cardinality(Scorers) \in Nat
        /\ automatic[a] \in Nat /\ highest[a] \in Nat
    BY PendingFacts, ScoringConstants DEF ScoringInv, HistoryInv
  <2>3. QED BY <2>1, <2>2
<1>2. QED BY <1>1, ScoringStart, ScoringKeeps, PTL DEF ScoringSpec

\* The scores pick nobody who is outdone, and leave a case that is not urgent to the
\* administrators only when nobody is eligible, for all caps, levels and rates.
THEOREM PicksAreFair == ScoringSpec => []PicksFairly
<1>1. ScoringInv => OnlyUrgentUnserved
  BY DEF ScoringInv, PickInv, PickHolds, OnlyUrgentUnserved
<1>2. ScoringInv => NotOutdone
  <2> SUFFICES ASSUME ScoringInv, NEW s \in Scorers, scorer[s].pc = "assign",
                      NEW c \in scorer[s].pool, NEW w \in scorer[s].pool,
                      w.id = scorer[s].winner, AtLeast(c, w)
               PROVE  AtLeast(w, c) /\ (Alike(c, w) => w.last <= c.last)
    BY DEF NotOutdone
  <2>1. PickHolds(scorer[s]) /\ scorer[s] \in Scorer
    BY DEF ScoringInv, PickInv, HistoryInv
  <2>2. w \in Best(scorer[s].pool, scorer[s].urgent)
    BY <2>1 DEF PickHolds, Best
  <2>3. ~Above(c, w, scorer[s].urgent) /\ (Alike(w, c) => w.last <= c.last)
    BY <2>2 DEF Best
  <2>4. Alike(c, w) => Alike(w, c)
    BY DEF Alike
  <2>5. c \in Candidate /\ w \in Candidate /\ c.cap > 0 /\ w.cap > 0 /\ scorer[s].urgent \in BOOLEAN
    BY <2>1 DEF PickHolds, Scorer
  <2>6. AtLeast(w, c)
    BY <2>3, <2>5, BestIsNotOutdone
  <2>7. QED BY <2>3, <2>4, <2>6
<1>3. ScoringInv => PicksFairly
  BY <1>1, <1>2 DEF ScoringInv, PicksFairly
<1>4. QED BY <1>3, ScoringStart, ScoringKeeps, PTL DEF ScoringSpec

-----------------------------------------------------------------------------
(***************************************************************************)
(* Sessions that follow one another.  What a session has loaded is what    *)
(* the rows still hold when it commits, the status it writes is one the    *)
(* table allows from there, the client it works for still owns the case    *)
(* and the agent it will assign is still under the cap; and no row of the  *)
(* histories is from tomorrow, so that a midnight frees everybody.         *)
(***************************************************************************)
SerialSessions == \A s, t \in Sessions : s = t

Current(t) ==
    /\ t.pc \in {"loaded", "ready"} /\ (t.src = "claim" => t.pc = "ready")
         => t.seenStatus = status[t.app] /\ t.seenAgent = agent[t.app]
    /\ t.src \in {"agent", "client"} /\ t.pc = "ready" => t.to \in AllowedFrom(t.seenStatus)
    /\ t.src = "client" /\ t.pc = "ready" => t.who = client[t.app]
    /\ t.src \in AssignSources /\ (t.pc = "ready" \/ t.src = "claim") => UnderCap(t.who)

DaysInv == \A x \in Apps : \A i \in DOMAIN assignLog[x] : assignLog[x][i].day <= day

SerialInv ==
    /\ \A s \in Sessions : Current(tx[s])
    /\ DaysInv
    /\ HistoryMatchesRow

\* The assignments of a day, read off any histories.
TodayIn(log, d, a) ==
    UNION {{x} \X {i \in DOMAIN log[x] : log[x][i].new = a /\ log[x][i].day = d} : x \in Apps}

LEMMA CountedToday ==
    ASSUME NEW a
    PROVE  /\ AssignmentsToday(a) = Cardinality(TodayIn(assignLog, day, a))
           /\ AssignmentsToday(a)' = Cardinality(TodayIn(assignLog', day', a))
BY DEF AssignmentsToday, TodayIn

LEMMA CapStands ==
    ASSUME NEW a, UNCHANGED <<assignLog, day>>, settings'[a].cap = settings[a].cap, UnderCap(a)
    PROVE  UnderCap(a)'
<1>1. AssignmentsToday(a)' = AssignmentsToday(a)
  BY CountedToday
<1>2. QED
  BY <1>1 DEF UnderCap

LEMMA EverybodyFreeAtMidnight ==
    ASSUME TypeInv, DaysInv, NEW a \in Agents, Midnight
    PROVE  UnderCap(a)'
<1>1. day' = day + 1 /\ UNCHANGED <<assignLog, settings>> /\ day \in Nat
  BY DEF Midnight, rows, TypeInv, TypeOK
<1>2. TodayIn(assignLog', day', a) = {}
  <2> SUFFICES ASSUME NEW e \in TodayIn(assignLog, day + 1, a) PROVE FALSE
    BY <1>1
  <2>1. PICK x \in Apps : \E i \in DOMAIN assignLog[x] : assignLog[x][i].day = day + 1
    BY DEF TodayIn
  <2>2. PICK i \in DOMAIN assignLog[x] : assignLog[x][i].day = day + 1
    BY <2>1
  <2>3. assignLog[x][i].day <= day
    BY <2>2 DEF DaysInv
  <2>4. QED
    BY <1>1, <2>2, <2>3
<1>3. AssignmentsToday(a)' = 0
  BY <1>2, CountedToday, FS_EmptySet
<1>4. settings'[a].cap # None => settings'[a].cap \in Nat /\ settings'[a].cap > 0
  BY <1>1 DEF TypeInv, TypeOK, AgentRow
<1>5. QED
  BY <1>3, <1>4 DEF UnderCap

LEMMA IdleCurrent == Current(Idle) /\ Idle \in Session /\ Idle.pc = "idle" /\ Idle.src = "none"
BY IdleOK DEF Current, Idle, AssignSources

\* The only session moves on, and leaves the rows, the agents and the day alone.
LEMMA SerialStep ==
    ASSUME SerialSessions, TypeInv, SerialInv, NEW s \in Sessions, NEW u, Become(s, u), Current(u),
           UNCHANGED <<rows, settings, day>>
    PROVE  SerialInv'
<1>1. \A q \in Sessions : q = s /\ tx'[q] = u
  BY DEF SerialSessions, TypeInv, TypeOK, Become
<1>2. UNCHANGED <<status, agent, client, statusLog, assignLog>>
  BY DEF rows
<1>3. u.src \in AssignSources /\ (u.pc = "ready" \/ u.src = "claim") => UnderCap(u.who)'
  BY <1>2, CapStands DEF Current
<1>4. \A q \in Sessions : Current(tx[q])'
  BY <1>1, <1>2, <1>3 DEF Current
<1>5. QED
  BY <1>2, <1>4 DEF SerialInv, DaysInv, HistoryMatchesRow, Exists

LEMMA SerialBegins ==
    ASSUME SerialSessions, TypeInv, SerialInv, NEW s \in Sessions, NEW x \in Apps,
           \/ \E c \in Clients : CancelApplication(s, x, c)
           \/ \E a \in Agents : AdminAssign(s, x, a)
           \/ \E a \in Agents, to \in AnyStatus : AgentTransition(s, x, a, to)
           \/ \E to \in AnyStatus : ForceTransition(s, x, to)
           \/ AdminRerun(s, x)
    PROVE  SerialInv'
<1> USE DEF Environment
<1>1. ASSUME NEW c \in Clients, CancelApplication(s, x, c) PROVE SerialInv'
  <2>1. Current(Load("client", "ready", x, c, "cancelled"))
    BY <1>1 DEF CancelApplication, Current, Load, Owns, AssignSources
  <2>2. QED
    BY <1>1, <2>1, SerialStep DEF CancelApplication
<1>2. ASSUME NEW a \in Agents, AdminAssign(s, x, a) PROVE SerialInv'
  <2>1. Current(Load("admin", "loaded", x, a, None))
    BY DEF Current, Load
  <2>2. QED
    BY <1>2, <2>1, SerialStep DEF AdminAssign
<1>3. ASSUME NEW a \in Agents, NEW to \in AnyStatus, AgentTransition(s, x, a, to) PROVE SerialInv'
  <2>1. Current(Load("agent", "ready", x, a, to))
    BY <1>3 DEF AgentTransition, Current, Load, AssignSources
  <2>2. QED
    BY <1>3, <2>1, SerialStep DEF AgentTransition
<1>4. ASSUME NEW to \in AnyStatus, ForceTransition(s, x, to) PROVE SerialInv'
  <2>1. Current(Load("force", "ready", x, Admin, to))
    BY DEF Current, Load, AssignSources
  <2>2. QED
    BY <1>4, <2>1, SerialStep DEF ForceTransition
<1>5. ASSUME AdminRerun(s, x) PROVE SerialInv'
  <2>1. Current(Load("rerun", "loaded", x, None, None))
    BY DEF Current, Load
  <2>2. QED
    BY <1>5, <2>1, SerialStep DEF AdminRerun
<1>6. QED
  BY <1>1, <1>2, <1>3, <1>4, <1>5

LEMMA SerialClaims ==
    ASSUME SerialSessions, TypeInv, SerialInv, NEW s \in Sessions, NEW x \in Apps, NEW a \in Agents,
           ClaimUnassigned(s, x, a)
    PROVE  SerialInv'
<1> DEFINE u == [Idle EXCEPT !.src = "claim", !.pc = "loaded", !.app = x, !.who = a]
<1>1. u.src = "claim" /\ u.pc = "loaded" /\ u.who = a
  BY DEF Idle
<1>2. Become(s, u) /\ UNCHANGED <<rows, settings, day>> /\ UnderCap(a)
  BY DEF ClaimUnassigned, Available, Environment
<1> HIDE DEF u
<1>3. Current(u)
  BY <1>1, <1>2 DEF Current
<1>4. QED
  BY <1>2, <1>3, SerialStep

LEMMA SerialScores ==
    ASSUME SerialSessions, TypeInv, SerialInv, NEW s \in Sessions, NEW a \in Agents, ScoreWinner(s, a)
    PROVE  SerialInv'
<1> DEFINE u == [tx[s] EXCEPT !.pc = "ready", !.who = a]
<1>1. tx[s] \in Session /\ Current(tx[s])
  BY DEF TypeInv, TypeOK, SerialInv
<1>2. tx[s].src \in {"rerun", "job"} /\ tx[s].pc = "loaded" /\ a \in Eligible
      /\ Become(s, u) /\ UNCHANGED <<rows, settings, day>>
  BY DEF ScoreWinner, Environment
<1>3. /\ u.pc = "ready" /\ u.src \in {"rerun", "job"} /\ u.who = a /\ u.app = tx[s].app
      /\ u.seenStatus = tx[s].seenStatus /\ u.seenAgent = tx[s].seenAgent
  BY <1>1, <1>2 DEF Session
<1>4. tx[s].seenStatus = status[tx[s].app] /\ tx[s].seenAgent = agent[tx[s].app]
  BY <1>1, <1>2 DEF Current
<1>5. UnderCap(a)
  BY <1>2 DEF Eligible, Available
<1> HIDE DEF u
<1>6. Current(u)
  BY <1>3, <1>4, <1>5 DEF Current
<1>7. QED
  BY <1>2, <1>6, SerialStep

LEMMA SerialGoesOn ==
    ASSUME SerialSessions, TypeInv, SerialInv, NEW s \in Sessions,
           \/ EnqueueAutoAssign(s) \/ ScoreNobody(s) \/ ClaimGiveUp(s) \/ JobAck(s) \/ Crash(s)
           \/ AdminCheckAgent(s)
           \/ ClaimLockRow(s)
           \/ \E x \in Apps : JobPickUp(s, x) \/ JobRaises(s, x)
    PROVE  SerialInv'
<1> USE DEF Environment
<1>0. tx[s] \in Session /\ Current(tx[s])
  BY DEF TypeInv, TypeOK, SerialInv
<1>1. CASE EnqueueAutoAssign(s) \/ ScoreNobody(s) \/ ClaimGiveUp(s) \/ JobAck(s) \/ Crash(s)
  <2>1. Become(s, Idle) /\ UNCHANGED <<rows, settings, day>>
    BY <1>1 DEF EnqueueAutoAssign, ScoreNobody, ClaimGiveUp, JobAck, Crash
  <2>2. QED
    BY <2>1, IdleCurrent, SerialStep
<1>2. CASE AdminCheckAgent(s)
  <2> DEFINE u == [tx[s] EXCEPT !.pc = "ready"]
  <2>1. Become(s, Idle) \/ (Available(tx[s].who) /\ Become(s, u))
    BY <1>2 DEF AdminCheckAgent
  <2>2. /\ u.pc = "ready" /\ u.src = "admin" /\ u.who = tx[s].who /\ u.app = tx[s].app
        /\ u.seenStatus = tx[s].seenStatus /\ u.seenAgent = tx[s].seenAgent
    BY <1>0, <1>2 DEF AdminCheckAgent, At, Session
  <2>3. tx[s].seenStatus = status[tx[s].app] /\ tx[s].seenAgent = agent[tx[s].app]
    BY <1>0, <1>2 DEF AdminCheckAgent, At, Current
  <2> HIDE DEF u
  <2>4. Available(tx[s].who) => Current(u)
    BY <2>2, <2>3 DEF Current, Available
  <2>5. QED
    BY <1>2, <2>1, <2>4, IdleCurrent, SerialStep DEF AdminCheckAgent
<1>3. CASE ClaimLockRow(s)
  <2>1. UnderCap(tx[s].who)
    BY <1>0, <1>3 DEF ClaimLockRow, At, Current, AssignSources
  <2>2. Current(Load("claim", "ready", tx[s].app, tx[s].who, None))
    BY <2>1 DEF Current, Load
  <2>3. QED
    BY <1>3, <2>2, SerialStep DEF ClaimLockRow
<1>4. ASSUME NEW x \in Apps, JobPickUp(s, x) \/ JobRaises(s, x) PROVE SerialInv'
  <2>1. Current(Load("job", "loaded", x, None, None))
    BY DEF Current, Load
  <2>2. Become(s, tx[s]) \/ Become(s, Load("job", "loaded", x, None, None))
    BY <1>4 DEF JobPickUp, JobRaises, Become, TypeInv, TypeOK
  <2>3. QED
    BY <1>0, <1>4, <2>1, <2>2, SerialStep DEF JobPickUp, JobRaises
<1>5. QED
  BY <1>1, <1>2, <1>3, <1>4

\* Steps that take a free request, or no session at all.
LEMMA SerialOther ==
    ASSUME SerialSessions, TypeInv, SerialInv,
           \/ \E s \in Requests, x \in Apps, c \in Clients : ClaimOwnership(s, x, c)
           \/ AgentRowChange
           \/ Midnight
           \/ UNCHANGED vars
    PROVE  SerialInv'
<1>1. UNCHANGED <<status, agent, statusLog, assignLog, tx>>
  BY DEF ClaimOwnership, AgentRowChange, UpdateAgentSettings, UpdateAgent, RecentSession, Midnight, rows, vars
<1>2. HistoryMatchesRow'
  BY <1>1 DEF SerialInv, HistoryMatchesRow, Exists
<1>3. day' \in Nat /\ day' >= day
  <2>1. day' = day \/ day' = day + 1
    BY Zenon DEF ClaimOwnership, AgentRowChange, UpdateAgentSettings, UpdateAgent, RecentSession, Midnight,
                 Environment, vars
  <2>2. day \in Nat
    BY DEF TypeInv, TypeOK
  <2>3. QED
    BY <2>1, <2>2
<1>4. DaysInv'
  <2> SUFFICES ASSUME NEW x \in Apps, NEW i \in DOMAIN assignLog[x] PROVE assignLog[x][i].day <= day'
    BY <1>1 DEF DaysInv
  <2>1. assignLog[x][i].day \in Nat /\ day \in Nat
    <3>1. assignLog[x] \in Seq(AssignRows) /\ day \in Nat
      BY DEF TypeInv, TypeOK
    <3>2. assignLog[x][i] \in AssignRows
      BY <3>1
    <3>3. QED BY <3>1, <3>2 DEF AssignRows
  <2>2. assignLog[x][i].day <= day
    BY DEF SerialInv, DaysInv
  <2>3. QED
    BY <1>3, <2>1, <2>2
<1>5. ASSUME NEW s \in Sessions, Free(s, Requests) PROVE SerialInv'
  <2>1. \A q \in Sessions : tx'[q] = Idle
    BY <1>1, <1>5 DEF SerialSessions, Free
  <2>2. Current(Idle)'
    BY DEF Current, Idle, AssignSources
  <2>3. QED
    BY <1>2, <1>4, <2>1, <2>2 DEF SerialInv
<1>6. ASSUME UNCHANGED client, \A a \in Agents : UnderCap(a) => UnderCap(a)' PROVE SerialInv'
  <2> SUFFICES ASSUME NEW q \in Sessions PROVE Current(tx[q])'
    BY <1>2, <1>4 DEF SerialInv
  <2>1. SessionOK(tx[q]) /\ Current(tx[q])
    BY DEF TypeInv, SerialInv
  <2>2. tx[q].src \in AssignSources /\ (tx[q].pc = "ready" \/ tx[q].src = "claim") => tx[q].who \in Agents
    BY <2>1 DEF SessionOK
  <2>3. QED
    BY <1>1, <1>6, <2>1, <2>2 DEF Current
<1>7. CASE Midnight
  BY <1>6, <1>7, EverybodyFreeAtMidnight DEF Midnight, rows, SerialInv
<1>8. ASSUME NEW a \in Agents, RecentSession(a) PROVE SerialInv'
  <2>1. \A b \in Agents : settings'[b].cap = settings[b].cap
    BY <1>8 DEF RecentSession, TypeInv, TypeOK, AgentRow
  <2>2. UNCHANGED <<assignLog, day, client>>
    BY <1>8 DEF RecentSession, rows
  <2>3. QED
    BY <1>6, <2>1, <2>2, CapStands
<1>9. CASE UNCHANGED vars
  BY <1>6, <1>9, CapStands DEF vars, rows
<1>10. QED
  BY <1>5, <1>7, <1>8, <1>9 DEF ClaimOwnership, AgentRowChange, UpdateAgentSettings, UpdateAgent, Sessions

LEMMA SerialSubmits ==
    ASSUME SerialSessions, TypeInv, SerialInv, NEW s \in Requests, NEW x \in Apps, NEW c \in Clients,
           SubmitApplication(s, x, c)
    PROVE  SerialInv'
<1> DEFINE u == [Idle EXCEPT !.src = "submit", !.pc = "enqueue", !.app = x]
           row == StatusRow("received", c, "client")
<1>1. u.src = "submit" /\ u.pc = "enqueue"
  BY DEF Idle
<1>2. \A q \in Sessions : tx'[q] = u
  BY DEF SubmitApplication, Become, SerialSessions, TypeInv, TypeOK, Sessions
<1> HIDE DEF u
<1>3. \A q \in Sessions : Current(tx[q])'
  BY <1>1, <1>2 DEF Current, AssignSources
<1>4. UNCHANGED <<agent, assignLog, day>>
  BY DEF SubmitApplication, Environment
<1>5. row \in StatusRows /\ row.status = "received"
  BY DEF StatusRow, StatusRows, AnyStatus, ApplicationStatuses, Users, Roles
<1>6. /\ \A y \in Apps : y # x => status'[y] = status[y] /\ statusLog'[y] = statusLog[y]
      /\ status'[x] = "received" /\ statusLog'[x] = Append(statusLog[x], row)
      /\ statusLog[x] \in Seq(StatusRows)
  BY DEF SubmitApplication, TypeInv, TypeOK
<1> HIDE DEF row
<1>7. LastRow(statusLog'[x]) = row
  BY <1>5, <1>6, AppendFacts
<1>8. HistoryMatchesRow'
  BY <1>4, <1>5, <1>6, <1>7 DEF SerialInv, HistoryMatchesRow, Exists
<1>9. QED
  BY <1>3, <1>4, <1>8 DEF SerialInv, DaysInv

\* After a commit the session holds nothing that the rows could contradict.
LEMMA CommittedSession ==
    ASSUME SerialSessions, TypeInv, NEW s \in Sessions, CommitTransition(s) \/ CommitAssignment(s)
    PROVE  \A q \in Sessions : Current(tx[q])'
<1>1. PICK u : Become(s, u) /\ (u = Idle \/ (u.src = "job" /\ u.pc = "done"))
  <2>1. tx[s].src = "job" => [tx[s] EXCEPT !.pc = "done"].src = "job" /\ [tx[s] EXCEPT !.pc = "done"].pc = "done"
    BY DEF TypeInv, TypeOK, Session
  <2>2. QED
    BY <2>1 DEF CommitTransition, CommitAssignment
<1>2. \A q \in Sessions : tx'[q] = u
  BY <1>1 DEF Become, SerialSessions, TypeInv, TypeOK
<1>3. QED
  BY <1>1, <1>2, IdleCurrent DEF Current

LEMMA TransitionCommitted ==
    ASSUME TypeInv, SerialInv, NEW s \in Sessions, CommitTransition(s)
    PROVE  LET t == tx[s]
               row == StatusRow(t.to, t.who, RoleOf(t.src))
           IN  /\ t.app \in Apps /\ t.src \in TransitionSources /\ t.pc = "ready" /\ Current(t)
               /\ row \in StatusRows
               /\ \A y \in Apps : y # t.app => status'[y] = status[y] /\ statusLog'[y] = statusLog[y]
               /\ status'[t.app] = t.to /\ t.seenStatus = status[t.app]
               /\ statusLog[t.app] \in Seq(StatusRows)
               /\ statusLog'[t.app] = Append(statusLog[t.app], row)
               /\ LastRow(statusLog'[t.app]) = row
<1> DEFINE t == tx[s]
           row == StatusRow(t.to, t.who, RoleOf(t.src))
<1>1. /\ t.app \in Apps /\ t.src \in TransitionSources /\ t.pc = "ready" /\ Current(t)
      /\ t.to \in AnyStatus /\ t.who \in Users
  BY DEF CommitTransition, SerialInv, TypeInv, SessionOK
<1>2. t.seenStatus = status[t.app]
  BY <1>1 DEF Current, TransitionSources
<1>3. row \in StatusRows
  BY <1>1, RoleOfType DEF StatusRow, StatusRows
<1>4. /\ status' = [status EXCEPT ![t.app] = WrittenStatus(t.app, t.seenStatus, t.to)]
      /\ statusLog' = [statusLog EXCEPT ![t.app] = Append(@, row)]
  BY DEF CommitTransition
<1>5. status'[t.app] = t.to
  BY <1>1, <1>2, <1>4 DEF WrittenStatus, TypeInv, TypeOK
<1> HIDE DEF row
<1>6. /\ statusLog[t.app] \in Seq(StatusRows)
      /\ statusLog'[t.app] = Append(statusLog[t.app], row)
      /\ \A y \in Apps : y # t.app => status'[y] = status[y] /\ statusLog'[y] = statusLog[y]
  BY <1>1, <1>4 DEF TypeInv, TypeOK
<1>7. LastRow(statusLog'[t.app]) = row
  BY <1>3, <1>6, AppendFacts
<1>8. QED
  BY <1>1, <1>2, <1>3, <1>5, <1>6, <1>7 DEF row

LEMMA SerialTransitions ==
    ASSUME SerialSessions, TypeInv, SerialInv, NEW s \in Sessions, CommitTransition(s)
    PROVE  SerialInv'
<1> DEFINE t == tx[s]
           row == StatusRow(t.to, t.who, RoleOf(t.src))
<1>1. /\ t.app \in Apps /\ row.status = t.to
      /\ \A y \in Apps : y # t.app => status'[y] = status[y] /\ statusLog'[y] = statusLog[y]
      /\ status'[t.app] = t.to /\ LastRow(statusLog'[t.app]) = row
  BY TransitionCommitted DEF StatusRow
<1>2. UNCHANGED <<agent, assignLog, day>>
  BY DEF CommitTransition, Environment
<1> HIDE DEF row
<1>3. HistoryMatchesRow'
  BY <1>1, <1>2 DEF SerialInv, HistoryMatchesRow, Exists
<1>4. QED
  BY <1>2, <1>3, CommittedSession DEF SerialInv, DaysInv

LEMMA AppendNumbers ==
    ASSUME NEW Row, NEW log \in Seq(Row), NEW row \in Row
    PROVE  /\ DOMAIN Append(log, row) = 1..(Len(log) + 1) /\ DOMAIN log = 1..Len(log) /\ Len(log) \in Nat
           /\ Append(log, row)[Len(log) + 1] = row
           /\ \A i \in 1..Len(log) : Append(log, row)[i] = log[i]
           /\ log = << >> <=> Len(log) = 0
OBVIOUS

LEMMA SerialAssigns ==
    ASSUME SerialSessions, TypeInv, LoggedInv, SerialInv, NEW s \in Sessions, CommitAssignment(s)
    PROVE  SerialInv'
<1> DEFINE t == tx[s]
           x == t.app
           row == AssignRow(t.seenAgent, t.who, RoleOf(t.src))
           n == Len(assignLog[x])
<1>1. /\ x \in Apps /\ t.who \in Agents /\ t.src \in AssignSources /\ t.pc = "ready"
      /\ row \in AssignRows /\ row.new = t.who /\ row.prev = t.seenAgent /\ row.day = day
      /\ \A y \in Apps : y # x => assignLog'[y] = assignLog[y] /\ agent'[y] = agent[y] /\ status'[y] = status[y]
      /\ assignLog[x] \in Seq(AssignRows)
      /\ assignLog'[x] = Append(assignLog[x], row)
      /\ agent'[x] = WrittenAgent(x, t.seenAgent, t.who)
      /\ UNCHANGED day
  BY AssignmentCommitted DEF CommitAssignment, AssignRow, Environment
<1>2. Current(t) /\ t.seenStatus = status[x] /\ t.seenAgent = agent[x]
  BY <1>1 DEF SerialInv, Current
<1>3. agent'[x] = t.who
  BY <1>1, <1>2 DEF WrittenAgent
<1> HIDE DEF row
<1>4. /\ DOMAIN assignLog'[x] = 1..(n + 1) /\ DOMAIN assignLog[x] = 1..n /\ n \in Nat
      /\ assignLog'[x][n + 1] = row
      /\ \A i \in 1..n : assignLog'[x][i] = assignLog[x][i]
      /\ assignLog[x] = << >> <=> n = 0
  BY <1>1, AppendNumbers
<1>5. LastRow(assignLog'[x]).new = agent'[x]
  BY <1>1, <1>3, AppendFacts
<1>6. row.prev = IF n = 0 THEN None ELSE assignLog[x][n].new
  <2>1. CASE n = 0
    BY <1>1, <1>2, <1>4, <2>1 DEF LoggedInv, AssignmentLogged
  <2>2. CASE n # 0
    <3>1. agent[x] # None
      BY <1>1, <1>4, <2>2 DEF LoggedInv, AssignmentLogged
    <3>2. LastRow(assignLog[x]).new = agent[x]
      BY <1>1, <3>1 DEF SerialInv, HistoryMatchesRow
    <3>3. QED BY <1>1, <1>2, <2>2, <3>2 DEF LastRow
  <2>3. QED BY <2>1, <2>2
<1> HIDE DEF n
<1>7. \A i \in DOMAIN assignLog'[x] :
         assignLog'[x][i].prev = IF i = 1 THEN None ELSE assignLog'[x][i - 1].new
  <2> SUFFICES ASSUME NEW i \in 1..(n + 1)
               PROVE  assignLog'[x][i].prev = IF i = 1 THEN None ELSE assignLog'[x][i - 1].new
    BY <1>4
  <2>1. CASE i = n + 1
    <3>1. i = 1 <=> n = 0
      BY <1>4, <2>1
    <3>2. n # 0 => i - 1 = n /\ assignLog'[x][n] = assignLog[x][n]
      BY <1>4, <2>1
    <3>3. QED BY <1>4, <1>6, <2>1, <3>1, <3>2
  <2>2. CASE i \in 1..n
    <3>1. assignLog[x][i].prev = IF i = 1 THEN None ELSE assignLog[x][i - 1].new
      BY <1>1, <1>4, <2>2 DEF SerialInv, HistoryMatchesRow
    <3>2. i # 1 => i - 1 \in 1..n
      BY <1>4, <2>2
    <3>3. QED BY <1>4, <2>2, <3>1, <3>2
  <2>3. QED BY <1>4, <2>1, <2>2
<1>8. /\ \A y \in Apps : y # x => statusLog'[y] = statusLog[y]
      /\ status'[x] # "absent" => LastRow(statusLog'[x]).status = status'[x]
  <2>1. CASE FirstAssignment(t)
    <3> DEFINE by == IF t.src = "admin" THEN Admin ELSE t.who
               st == StatusRow("under_review", by, RoleOf(t.src))
    <3>1. st \in StatusRows /\ st.status = "under_review"
      BY <1>1, RoleOfType DEF StatusRow, StatusRows, AnyStatus, ApplicationStatuses, Users
    <3>2. statusLog' = [statusLog EXCEPT ![x] = Append(@, st)] /\ status' = [status EXCEPT ![x] = "under_review"]
      BY <2>1 DEF CommitAssignment
    <3> HIDE DEF st
    <3>3. statusLog'[x] = Append(statusLog[x], st) /\ statusLog[x] \in Seq(StatusRows)
          /\ status'[x] = "under_review" /\ \A y \in Apps : y # x => statusLog'[y] = statusLog[y]
      BY <1>1, <3>2 DEF TypeInv, TypeOK
    <3>4. LastRow(statusLog'[x]) = st
      BY <3>1, <3>3, AppendFacts
    <3>5. QED BY <3>1, <3>3, <3>4
  <2>2. CASE ~FirstAssignment(t)
    <3>1. UNCHANGED <<status, statusLog>>
      BY <2>2 DEF CommitAssignment
    <3>2. Exists(x) => LastRow(statusLog[x]).status = status[x]
      BY <1>1 DEF SerialInv, HistoryMatchesRow
    <3>3. QED BY <3>1, <3>2 DEF Exists, LastRow
  <2>3. QED BY <2>1, <2>2
<1>9. HistoryMatchesRow'
  <2> SUFFICES ASSUME NEW y \in Apps
               PROVE  /\ status'[y] # "absent" => LastRow(statusLog'[y]).status = status'[y]
                      /\ agent'[y] # None => LastRow(assignLog'[y]).new = agent'[y]
                      /\ \A i \in DOMAIN assignLog'[y] :
                            assignLog'[y][i].prev = IF i = 1 THEN None ELSE assignLog'[y][i - 1].new
    BY DEF HistoryMatchesRow, Exists, LastRow
  <2>1. CASE y = x
    BY <1>5, <1>7, <1>8, <2>1
  <2>2. CASE y # x
    <3>1. /\ Exists(y) => LastRow(statusLog[y]).status = status[y]
          /\ agent[y] # None => LastRow(assignLog[y]).new = agent[y]
          /\ \A i \in DOMAIN assignLog[y] :
                assignLog[y][i].prev = IF i = 1 THEN None ELSE assignLog[y][i - 1].new
      BY DEF SerialInv, HistoryMatchesRow
    <3>2. statusLog'[y] = statusLog[y] /\ assignLog'[y] = assignLog[y] /\ agent'[y] = agent[y]
          /\ status'[y] = status[y]
      BY <1>1, <1>8, <2>2
    <3>3. QED BY <3>1, <3>2 DEF Exists, LastRow
  <2>3. QED BY <2>1, <2>2
<1>10. DaysInv'
  <2> SUFFICES ASSUME NEW y \in Apps, NEW i \in DOMAIN assignLog'[y] PROVE assignLog'[y][i].day <= day
    BY <1>1 DEF DaysInv
  <2>1. CASE y # x
    BY <1>1, <2>1 DEF SerialInv, DaysInv
  <2>2. CASE y = x /\ i \in 1..n
    BY <1>1, <1>4, <2>2 DEF SerialInv, DaysInv
  <2>3. CASE y = x /\ i = n + 1
    <3>1. day \in Nat
      BY DEF TypeInv, TypeOK
    <3>2. QED BY <1>1, <1>4, <2>3, <3>1
  <2>4. QED BY <1>4, <2>1, <2>2, <2>3
<1>11. QED
  BY <1>9, <1>10, CommittedSession DEF SerialInv

LEMMA InitSerialInv == Init => SerialInv
<1> SUFFICES ASSUME Init PROVE SerialInv
  OBVIOUS
<1>1. \A s \in Sessions : Current(tx[s])
  BY IdleCurrent DEF Init
<1>2. \A x \in Apps : assignLog[x] = << >> /\ agent[x] = None /\ ~Exists(x)
  BY DEF Init, Exists
<1>3. QED
  BY <1>1, <1>2 DEF SerialInv, DaysInv, HistoryMatchesRow

LEMMA NextSerialInv ==
    ASSUME SerialSessions, TypeInv, LoggedInv, SerialInv, [Next]_vars
    PROVE  SerialInv'
<1>1. ASSUME NEW s \in Requests, NEW x \in Apps, BeginOnCase(s, x) PROVE SerialInv'
  BY <1>1, SerialBegins, SerialClaims, SerialSubmits, SerialOther DEF BeginOnCase, Sessions
<1>2. ASSUME NEW s \in Workers, PickUp(s) PROVE SerialInv'
  BY <1>2, SerialGoesOn DEF PickUp, Sessions
<1>3. ASSUME NEW s \in Sessions, Advance(s) \/ Crash(s) PROVE SerialInv'
  BY <1>3, SerialGoesOn, SerialScores, SerialTransitions, SerialAssigns DEF Advance
<1>4. CASE AgentRowChange \/ Midnight \/ UNCHANGED vars
  BY <1>4, SerialOther
<1>5. QED
  BY <1>1, <1>2, <1>3, <1>4 DEF Next

LEMMA SerialInvariant ==
    ASSUME SerialSessions
    PROVE  Spec => [](TypeInv /\ LoggedInv /\ SerialInv)
<1>1. TypeInv /\ LoggedInv /\ SerialInv /\ [Next]_vars => SerialInv'
  BY NextSerialInv
<1>2. TypeInv /\ LoggedInv /\ [Next]_vars => LoggedInv'
  BY NextLoggedInv
<1>3. QED
  BY <1>1, <1>2, InitTypeInv, NextTypeInv, InitLoggedInv, InitSerialInv, PTL DEF Spec

\* When sessions follow one another, the histories tell the row's story: the last rows
\* name its status and its agent, and every assignment starts where the last one ended.
THEOREM HistoriesMatchRows == SerialSessions => (Spec => []HistoryMatchesRow)
<1> SUFFICES ASSUME SerialSessions PROVE Spec => []HistoryMatchesRow
  OBVIOUS
<1>1. SerialInv => HistoryMatchesRow
  BY DEF SerialInv
<1>2. QED
  BY <1>1, SerialInvariant, PTL

\* When sessions follow one another, every change of status is one of the table or an
\* administrator's, no agent is given a case beyond the cap, and a client's
\* cancellation is the owner's.
THEOREM RulesAreObeyed == SerialSessions => (Spec => RulesObeyed)
<1> SUFFICES ASSUME SerialSessions PROVE Spec => RulesObeyed
  OBVIOUS
<1> DEFINE Follows == \A x \in Apps :
             Exists(x) /\ status'[x] # status[x]
                 => \/ status'[x] \in AllowedFrom(status[x])
                    \/ LastRow(statusLog'[x]).role = "staff:admin"
           Capped == \A x \in Apps : NewAssignRow(x) => UnderCap(LastRow(assignLog'[x]).new)
           Owned == \A x \in Apps :
             NewStatusRow(x) /\ LastRow(statusLog'[x]).role = "client"
                 => LastRow(statusLog'[x]).by = client'[x]
<1>1. ASSUME TypeInv, SerialInv, [Next]_vars PROVE Follows
  <2> SUFFICES ASSUME NEW x \in Apps, Exists(x), status'[x] # status[x]
               PROVE  \/ status'[x] \in AllowedFrom(status[x])
                      \/ LastRow(statusLog'[x]).role = "staff:admin"
    OBVIOUS
  <2>1. ~Quiet /\ ~\E s \in Sessions : ClaimLockRow(s)
    BY DEF Quiet, caseRows, ClaimLockRow, rows
  <2>2. ~\E s \in Requests, y \in Apps, c \in Clients : SubmitApplication(s, y, c)
    <3> SUFFICES ASSUME NEW s \in Requests, NEW y \in Apps, NEW c \in Clients, SubmitApplication(s, y, c)
                 PROVE  FALSE
      OBVIOUS
    <3>1. y # x /\ status' = [status EXCEPT ![y] = "received"]
      BY DEF SubmitApplication
    <3>2. QED BY <1>1, <3>1 DEF TypeInv, TypeOK
  <2>3. ASSUME NEW s \in Sessions, CommitTransition(s)
        PROVE  \/ status'[x] \in AllowedFrom(status[x])
               \/ LastRow(statusLog'[x]).role = "staff:admin"
    <3> DEFINE t == tx[s]
               row == StatusRow(t.to, t.who, RoleOf(t.src))
    <3>1. /\ x = t.app /\ t.src \in TransitionSources /\ t.pc = "ready" /\ Current(t)
          /\ status'[x] = t.to /\ t.seenStatus = status[x] /\ LastRow(statusLog'[x]) = row
      BY <1>1, <2>3, TransitionCommitted
    <3>2. CASE t.src = "force"
      BY <3>1, <3>2 DEF StatusRow, RoleOf
    <3>3. CASE t.src \in {"agent", "client"}
      BY <3>1, <3>3 DEF Current
    <3>4. QED BY <3>1, <3>2, <3>3 DEF TransitionSources
  <2>4. ASSUME NEW s \in Sessions, CommitAssignment(s) PROVE status'[x] \in AllowedFrom(status[x])
    <3> DEFINE t == tx[s]
    <3>1. x = t.app /\ t.src \in AssignSources /\ t.pc = "ready" /\ Current(t)
      BY <1>1, <2>4, AssignmentCommitted DEF CommitAssignment, SerialInv
    <3>2. t.seenStatus = status[x]
      BY <3>1 DEF Current
    <3>3. status[x] = "received" /\ status'[x] = "under_review"
      BY <1>1, <2>4, <3>1, <3>2 DEF CommitAssignment, FirstAssignment, TypeInv, TypeOK
    <3>4. QED BY <3>3 DEF AllowedFrom
  <2>5. QED BY <1>1, <2>1, <2>2, <2>3, <2>4, StepKinds
<1>2. ASSUME TypeInv, SerialInv, [Next]_vars PROVE Capped
  <2> SUFFICES ASSUME NEW x \in Apps, NewAssignRow(x) PROVE UnderCap(LastRow(assignLog'[x]).new)
    OBVIOUS
  <2>1. assignLog'[x] # assignLog[x]
    BY DEF NewAssignRow, TypeInv, TypeOK
  <2>2. PICK s \in Sessions : CommitAssignment(s)
    <3>1. /\ ~Quiet
          /\ ~\E s \in Requests, y \in Apps, c \in Clients : SubmitApplication(s, y, c)
          /\ ~\E s \in Sessions : ClaimLockRow(s) \/ CommitTransition(s)
      BY <2>1, Zenon DEF Quiet, caseRows, SubmitApplication, ClaimLockRow, CommitTransition, rows
    <3>2. QED BY <1>2, <3>1, StepKinds
  <2> DEFINE t == tx[s]
             row == AssignRow(t.seenAgent, t.who, RoleOf(t.src))
  <2>3. /\ x = t.app /\ t.src \in AssignSources /\ t.pc = "ready"
        /\ row \in AssignRows /\ row.new = t.who
        /\ assignLog[x] \in Seq(AssignRows) /\ assignLog'[x] = Append(assignLog[x], row)
    BY <1>2, <2>1, <2>2, AssignmentCommitted DEF CommitAssignment
  <2> HIDE DEF row
  <2>4. LastRow(assignLog'[x]).new = t.who
    BY <2>3, AppendFacts
  <2>5. UnderCap(t.who)
    BY <1>2, <2>3 DEF SerialInv, Current
  <2>6. QED BY <2>4, <2>5
<1>3. ASSUME TypeInv, SerialInv, [Next]_vars PROVE Owned
  <2> SUFFICES ASSUME NEW x \in Apps, NewStatusRow(x), LastRow(statusLog'[x]).role = "client"
               PROVE  LastRow(statusLog'[x]).by = client'[x]
    OBVIOUS
  <2>1. statusLog'[x] # statusLog[x]
    BY DEF NewStatusRow, TypeInv, TypeOK
  <2>2. ~Quiet /\ ~\E s \in Sessions : ClaimLockRow(s)
    BY <2>1 DEF Quiet, caseRows, ClaimLockRow, rows
  <2>3. ASSUME NEW s \in Requests, NEW y \in Apps, NEW c \in Clients, SubmitApplication(s, y, c)
        PROVE  LastRow(statusLog'[x]).by = client'[x]
    <3> DEFINE row == StatusRow("received", c, "client")
    <3>1. row \in StatusRows /\ row.by = c
      BY DEF StatusRow, StatusRows, AnyStatus, ApplicationStatuses, Users, Roles
    <3>2. x = y /\ client'[x] = c /\ statusLog[x] \in Seq(StatusRows) /\ statusLog'[x] = Append(statusLog[x], row)
      BY <1>3, <2>1, <2>3 DEF SubmitApplication, TypeInv, TypeOK
    <3> HIDE DEF row
    <3>3. QED BY <3>1, <3>2, AppendFacts
  <2>4. ASSUME NEW s \in Sessions, CommitTransition(s) PROVE LastRow(statusLog'[x]).by = client'[x]
    <3> DEFINE t == tx[s]
               row == StatusRow(t.to, t.who, RoleOf(t.src))
    <3>1. /\ x = t.app /\ t.src \in TransitionSources /\ t.pc = "ready" /\ Current(t)
          /\ LastRow(statusLog'[x]) = row
      BY <1>3, <2>1, <2>4, TransitionCommitted
    <3>2. RoleOf(t.src) = "client" /\ row.by = t.who
      BY <3>1 DEF StatusRow
    <3>3. t.src = "client"
      BY <3>1, <3>2 DEF RoleOf, TransitionSources
    <3>4. t.who = client[x] /\ client' = client
      BY <2>4, <3>1, <3>3 DEF Current, CommitTransition
    <3>5. QED BY <3>1, <3>2, <3>4
  <2>5. ASSUME NEW s \in Sessions, CommitAssignment(s) PROVE FALSE
    <3> DEFINE t == tx[s]
               by == IF t.src = "admin" THEN Admin ELSE t.who
               row == StatusRow("under_review", by, RoleOf(t.src))
    <3>1. t.app \in Apps /\ t.who \in Agents /\ t.src \in AssignSources
      BY <1>3, <2>5, AssignmentCommitted
    <3>2. row \in StatusRows /\ row.role = RoleOf(t.src)
      BY <3>1, RoleOfType DEF StatusRow, StatusRows, AnyStatus, ApplicationStatuses, Users
    <3>3. statusLog' \in {statusLog, [statusLog EXCEPT ![t.app] = Append(@, row)]}
      BY <2>5 DEF CommitAssignment
    <3> HIDE DEF row
    <3>4. statusLog[x] \in Seq(StatusRows) /\ statusLog'[x] = Append(statusLog[x], row)
      BY <1>3, <2>1, <3>1, <3>3 DEF TypeInv, TypeOK
    <3>5. LastRow(statusLog'[x]) = row
      BY <3>2, <3>4, AppendFacts
    <3>6. QED BY <3>1, <3>2, <3>5 DEF RoleOf, AssignSources
  <2>6. QED BY <1>3, <2>2, <2>3, <2>4, <2>5, StepKinds
<1>4. Spec => [](TypeInv /\ LoggedInv /\ SerialInv)
  BY SerialInvariant
<1>5. TypeInv /\ SerialInv /\ [Next]_vars => [Follows]_vars /\ [Capped]_vars /\ [Owned]_vars
  BY <1>1, <1>2, <1>3
<1> HIDE DEF Follows, Capped, Owned
<1>6. Spec => [][Follows]_vars /\ [][Capped]_vars /\ [][Owned]_vars
  BY <1>4, <1>5, PTL DEF Spec
<1>7. QED
  BY <1>6 DEF Follows, Capped, Owned, RulesObeyed, TransitionsFollowTable, WithinDailyCap, OwnerCancels
=============================================================================
