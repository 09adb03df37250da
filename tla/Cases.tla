-------------------------------- MODULE Cases --------------------------------
(***************************************************************************)
(* The case lifecycle: submission, status transitions, cancellation,       *)
(* assignment and claiming, as carried out by                              *)
(* src/app/modules/applications/service.py, assignments/service.py and the *)
(* auto-assignment job of the ARQ worker.                                  *)
(*                                                                         *)
(* Every request and every job runs in a database session of its own at    *)
(* READ COMMITTED.  The ORM keeps the row a session loaded until the       *)
(* session ends, decides on that copy, and its UPDATE writes only the      *)
(* columns whose value differs from the copy.  A session is therefore a    *)
(* sequence of steps: it loads (tx[s] keeps what it saw), it decides, it   *)
(* commits its write set onto whatever the row holds by then.  The only    *)
(* session that locks what it reads is the agent's claim                   *)
(* (SELECT ... FOR UPDATE SKIP LOCKED).                                    *)
(***************************************************************************)
EXTENDS Integers, Sequences, FiniteSets, CaseStatus

CONSTANTS
    Apps,             \* applications (cases)
    Agents,           \* users with role staff:agent
    Clients,          \* users with role client
    Admin,            \* the staff:admin user
    None,             \* SQL NULL
    Requests,         \* sessions of the API process
    Workers,          \* sessions of the ARQ workers
    Configured,       \* those in processes that called db_manager.configure (worker.py does not)
    Urgent,           \* the applications submitted with the urgent tier
    ForceTargets,     \* statuses an administrator may PATCH in
    CapChoices,       \* daily_case_cap values an agent may choose
    InitialSettings,  \* the agents' rows at the start
    MaxLog,           \* bound: no request starts on a case with more history rows
    MaxEdits,         \* bound on changes to the agents' rows
    MaxCrashes,       \* bound on sessions lost to a crash
    MaxDay            \* bound on midnights

Sessions == Requests \cup Workers
Users == Agents \cup Clients \cup {Admin}

AgentRow == [active    : BOOLEAN,   \* users.is_active
             recent    : BOOLEAN,   \* holds a refresh token of the last 7 days
             accepting : BOOLEAN,   \* agent_settings.accepting_cases
             cap       : (Nat \ {0}) \cup {None}]

ASSUME CasesAssumption ==
    /\ None \notin Apps \cup Users \cup AnyStatus \cup {"absent"} \cup Nat
    /\ Configured \subseteq Workers
    /\ Urgent \subseteq Apps
    /\ ForceTargets \subseteq AnyStatus
    /\ CapChoices \subseteq (Nat \ {0}) \cup {None}
    /\ InitialSettings \in [Agents -> AgentRow]
    /\ MaxLog \in Nat /\ MaxEdits \in Nat /\ MaxCrashes \in Nat /\ MaxDay \in Nat

VARIABLES
    status,     \* applications.status, "absent" before the row exists
    agent,      \* applications.assigned_agent_id
    client,     \* applications.client_id
    stamps,     \* which of completed_at, rejected_at, cancelled_at are set
    statusLog,  \* application_status_history, by created_at
    assignLog,  \* application_assignment_history, by created_at
    jobs,       \* auto_assign_application_job entries in the ARQ queue
    settings,   \* users and agent_settings rows of the agents
    tx,         \* what each session has loaded and decided
    day,        \* midnights passed
    edits, crashes

rows == <<status, agent, client, stamps, statusLog, assignLog>>
vars == <<rows, jobs, settings, tx, day, edits, crashes>>

-----------------------------------------------------------------------------
(* Sessions *)

Sources == {"none", "submit", "agent", "client", "force",
            "admin", "rerun", "job", "claim"}
AssignSources == {"admin", "rerun", "job", "claim"}
TransitionSources == {"agent", "client", "force"}

Roles == {"staff:admin", "staff:agent", "client", "system"}

Session == [src        : Sources,
            pc         : {"idle", "enqueue", "loaded", "ready", "done"},
            app        : Apps \cup {None},
            who        : Users \cup {None},     \* the agent to assign, or the user changing the status
            to         : AnyStatus \cup {None}, \* the status asked for
            seenStatus : AnyStatus \cup {None},
            seenAgent  : Agents \cup {None}]

Idle == [src |-> "none", pc |-> "idle", app |-> None, who |-> None,
         to |-> None, seenStatus |-> None, seenAgent |-> None]

\* The row a session loads, and keeps.
Load(src, pc, x, u, to) ==
    [src |-> src, pc |-> pc, app |-> x, who |-> u, to |-> to,
     seenStatus |-> status[x], seenAgent |-> agent[x]]

At(s, src, pc) == tx[s].src = src /\ tx[s].pc = pc

Free(s, slots) == s \in slots /\ tx[s] = Idle

\* A claim holds its row lock from its SELECT ... FOR UPDATE until it commits.
HoldsRowLock(s, x) == At(s, "claim", "ready") /\ tx[s].app = x

\* Mutation: the claim reads its row with a plain SELECT.
RowNeverLocked(s, x) == FALSE

RowLockedByOther(s, x) == \E t \in Sessions \ {s} : HoldsRowLock(t, x)

Exists(x) == status[x] # "absent"

Room(x) == Len(statusLog[x]) + Len(assignLog[x]) < MaxLog

-----------------------------------------------------------------------------
(* Agent availability *)

\* count_agent_assignments_today: the history rows written since midnight
AssignmentsToday(a) ==
    LET today(x) == {i \in DOMAIN assignLog[x] : assignLog[x][i].new = a /\ assignLog[x][i].day = day}
    IN  Cardinality(UNION {{x} \X today(x) : x \in Apps})

UnderCap(a) == settings[a].cap # None => AssignmentsToday(a) < settings[a].cap

\* _validate_agent_available
Available(a) == settings[a].accepting /\ UnderCap(a)

Eligible == {a \in Agents : settings[a].active /\ settings[a].recent /\ Available(a)}

\* score_agents may pick any eligible agent.  It finds none when nobody is
\* eligible or when every score is below the threshold, which the weights
\* allow for urgent cases only.
NoWinnerEver(x) == TRUE \* Mutation: no score reaches the threshold

NoWinner(x) == Eligible = {} \/ x \in Urgent

-----------------------------------------------------------------------------
(* Column writes *)

\* The UPDATE omits a column that the session did not change.
WrittenStatus(x, seen, to) == IF to = seen THEN status[x] ELSE to

WrittenAgent(x, seen, a) == IF a = seen THEN agent[x] ELSE a

\* _apply_status_change sets the timestamp of a terminal status, and none is
\* ever cleared.
WrittenStampsNoCancel(x, to) == stamps[x] \cup ({to} \cap {"completed", "rejected"}) \* Mutation

WrittenStamps(x, to) == stamps[x] \cup ({to} \cap TerminalStatuses)

StatusRows == [status : AnyStatus, by : Users, role : Roles]
AssignRows == [prev : Agents \cup {None}, new : Agents, role : Roles, day : Nat]

StatusRow(st, by, role) == [status |-> st, by |-> by, role |-> role]

\* Mutation: previous_agent_id is read after the row was overwritten.
AssignRowLate(prev, new, role) == [prev |-> new, new |-> new, role |-> role, day |-> day]

AssignRow(prev, new, role) == [prev |-> prev, new |-> new, role |-> role, day |-> day]

RoleOf(src) ==
    CASE src \in {"force", "admin"}   -> "staff:admin"
      [] src \in {"agent", "claim"}   -> "staff:agent"
      [] src \in {"client", "submit"} -> "client"
      [] OTHER                        -> "system"

FirstAssignmentNotClaimed(t) == t.seenStatus = "received" /\ t.src # "claim" \* Mutation

\* do_assign moves a case on only if it loaded it in the queue
FirstAssignment(t) == t.seenStatus = "received"

OwnsAnything(x, c) == TRUE \* Mutation: _get_owned without its owner check

Owns(x, c) == client[x] = c

-----------------------------------------------------------------------------
Init ==
    /\ status = [x \in Apps |-> "absent"]
    /\ agent = [x \in Apps |-> None]
    /\ client = [x \in Apps |-> None]
    /\ stamps = [x \in Apps |-> {}]
    /\ statusLog = [x \in Apps |-> << >>]
    /\ assignLog = [x \in Apps |-> << >>]
    /\ jobs = {}
    /\ settings = InitialSettings
    /\ tx = [s \in Sessions |-> Idle]
    /\ day = 0 /\ edits = 0 /\ crashes = 0

Become(s, t) == tx' = [tx EXCEPT ![s] = t]

Environment == <<settings, day, edits, crashes>>

-----------------------------------------------------------------------------
(* Applications *)

\* submit_application, up to its commit
SubmitApplication(s, x, c) ==
    /\ Free(s, Requests) /\ ~Exists(x)
    /\ status' = [status EXCEPT ![x] = "received"]
    /\ client' = [client EXCEPT ![x] = c]
    /\ statusLog' = [statusLog EXCEPT ![x] = Append(@, StatusRow("received", c, "client"))]
    /\ Become(s, [Idle EXCEPT !.src = "submit", !.pc = "enqueue", !.app = x])
    /\ UNCHANGED <<agent, stamps, assignLog, jobs, Environment>>

\* the enqueue that follows the commit
EnqueueAutoAssign(s) ==
    /\ At(s, "submit", "enqueue")
    /\ jobs' = jobs \cup {tx[s].app}
    /\ Become(s, Idle)
    /\ UNCHANGED <<rows, Environment>>

\* transition_status, force = False, by the assigned agent
AgentTransition(s, x, a, to) ==
    /\ Free(s, Requests) /\ Exists(x) /\ Room(x)
    /\ agent[x] = a
    /\ to \in AllowedFrom(status[x])
    /\ Become(s, Load("agent", "ready", x, a, to))
    /\ UNCHANGED <<rows, jobs, Environment>>

\* cancel_application and the transition_status it calls
CancelApplication(s, x, c) ==
    /\ Free(s, Requests) /\ Exists(x) /\ Room(x)
    /\ Owns(x, c)
    /\ status[x] \in ClientCancellable
    /\ "cancelled" \in AllowedFrom(status[x])
    /\ Become(s, Load("client", "ready", x, c, "cancelled"))
    /\ UNCHANGED <<rows, jobs, Environment>>

\* transition_status, force = True: every check is skipped
ForceTransition(s, x, to) ==
    /\ Free(s, Requests) /\ Exists(x) /\ Room(x)
    /\ to \in ForceTargets
    /\ Become(s, Load("force", "ready", x, Admin, to))
    /\ UNCHANGED <<rows, jobs, Environment>>

CommitTransition(s) ==
    LET t == tx[s]
        x == t.app
    IN  /\ t.src \in TransitionSources /\ t.pc = "ready"
        /\ ~RowLockedByOther(s, x)
        /\ status' = [status EXCEPT ![x] = WrittenStatus(x, t.seenStatus, t.to)]
        /\ stamps' = [stamps EXCEPT ![x] = WrittenStamps(x, t.to)]
        /\ statusLog' = [statusLog EXCEPT ![x] = Append(@, StatusRow(t.to, t.who, RoleOf(t.src)))]
        /\ Become(s, Idle)
        /\ UNCHANGED <<agent, client, assignLog, jobs, Environment>>

\* claim: a client who knows the code and the phone becomes the owner
ClaimOwnership(s, x, c) ==
    /\ Free(s, Requests) /\ Exists(x)
    /\ client[x] # c
    /\ ~RowLockedByOther(s, x)
    /\ client' = [client EXCEPT ![x] = c]
    /\ UNCHANGED <<status, agent, stamps, statusLog, assignLog, jobs, tx, Environment>>

-----------------------------------------------------------------------------
(* Assignments *)

\* assign_by_admin loads the case, then checks the agent
AdminAssign(s, x, a) ==
    /\ Free(s, Requests) /\ Exists(x) /\ Room(x)
    /\ Become(s, Load("admin", "loaded", x, a, None))
    /\ UNCHANGED <<rows, jobs, Environment>>

AdminCheckAgent(s) ==
    LET a == tx[s].who
    IN  /\ At(s, "admin", "loaded")
        /\ Become(s, IF settings[a].active /\ Available(a)
                     THEN [tx[s] EXCEPT !.pc = "ready"] ELSE Idle)
        /\ UNCHANGED <<rows, jobs, Environment>>

\* auto_assign_by_admin
AdminRerun(s, x) ==
    /\ Free(s, Requests) /\ Exists(x) /\ Room(x)
    /\ Become(s, Load("rerun", "loaded", x, None, None))
    /\ UNCHANGED <<rows, jobs, Environment>>

\* auto_assign_application_job returns at once when the case has an agent.  The
\* queue runs a job under one id at a time.
Queued(x) ==
    /\ x \in jobs
    /\ \A t \in Workers : ~(tx[t].src = "job" /\ tx[t].app = x)

JobPickUp(s, x) ==
    /\ Free(s, Configured) /\ Queued(x)
    /\ \/ /\ agent[x] # None
          /\ jobs' = jobs \ {x}
          /\ UNCHANGED tx
       \/ /\ agent[x] = None
          /\ Become(s, Load("job", "loaded", x, None, None))
          /\ UNCHANGED jobs
    /\ UNCHANGED <<rows, Environment>>

\* In a process without a session factory the job raises, and is not retried.
JobRaises(s, x) ==
    /\ Free(s, Workers \ Configured) /\ Queued(x)
    /\ jobs' = jobs \ {x}
    /\ UNCHANGED <<rows, tx, Environment>>

\* score_agents names a winner
ScoreWinner(s, a) ==
    /\ tx[s].src \in {"rerun", "job"} /\ tx[s].pc = "loaded"
    /\ a \in Eligible
    /\ Become(s, [tx[s] EXCEPT !.pc = "ready", !.who = a])
    /\ UNCHANGED <<rows, jobs, Environment>>

\* score_agents names nobody: administrators are told, the job ends
ScoreNobody(s) ==
    /\ tx[s].src \in {"rerun", "job"} /\ tx[s].pc = "loaded"
    /\ NoWinner(tx[s].app)
    /\ jobs' = IF tx[s].src = "job" THEN jobs \ {tx[s].app} ELSE jobs
    /\ Become(s, Idle)
    /\ UNCHANGED <<rows, Environment>>

\* claim_unassigned validates the agent first ...
ClaimUnassigned(s, x, a) ==
    /\ Free(s, Requests) /\ Exists(x) /\ Room(x)
    /\ Available(a)
    /\ Become(s, [Idle EXCEPT !.src = "claim", !.pc = "loaded", !.app = x, !.who = a])
    /\ UNCHANGED <<rows, jobs, Environment>>

Claimable(s, x) ==
    /\ ~RowLockedByOther(s, x)
    /\ agent[x] = None
    /\ status[x] = "received"

\* ... then locks the row it finds unassigned and received,
ClaimLockRow(s) ==
    LET t == tx[s]
    IN  /\ At(s, "claim", "loaded")
        /\ Claimable(s, t.app)
        /\ Become(s, Load("claim", "ready", t.app, t.who, None))
        /\ UNCHANGED <<rows, jobs, Environment>>

\* or raises: the row is taken, or SKIP LOCKED passed over it because another
\* session had flushed its UPDATE and not committed yet.
ClaimGiveUp(s) ==
    LET x == tx[s].app
    IN  /\ At(s, "claim", "loaded")
        /\ \/ ~Claimable(s, x)
           \/ \E t \in Sessions : tx[t].pc = "ready" /\ tx[t].app = x
        /\ Become(s, Idle)
        /\ UNCHANGED <<rows, jobs, Environment>>

\* do_assign and the commit of its caller
CommitAssignment(s) ==
    LET t == tx[s]
        x == t.app
        role == RoleOf(t.src)
        by == IF t.src = "admin" THEN Admin ELSE t.who
    IN  /\ t.src \in AssignSources /\ t.pc = "ready"
        /\ ~RowLockedByOther(s, x)
        /\ agent' = [agent EXCEPT ![x] = WrittenAgent(x, t.seenAgent, t.who)]
        /\ assignLog' = [assignLog EXCEPT ![x] = Append(@, AssignRow(t.seenAgent, t.who, role))]
        /\ status' = IF FirstAssignment(t) THEN [status EXCEPT ![x] = "under_review"] ELSE status
        /\ statusLog' = IF FirstAssignment(t)
                        THEN [statusLog EXCEPT ![x] = Append(@, StatusRow("under_review", by, role))]
                        ELSE statusLog
        /\ Become(s, IF t.src = "job" THEN [t EXCEPT !.pc = "done"] ELSE Idle)
        /\ UNCHANGED <<client, stamps, jobs, Environment>>

\* ARQ drops the job only after the function returned
JobAck(s) ==
    /\ At(s, "job", "done")
    /\ jobs' = jobs \ {tx[s].app}
    /\ Become(s, Idle)
    /\ UNCHANGED <<rows, Environment>>

-----------------------------------------------------------------------------
(* Agents' rows, time and crashes *)

\* update_agent_settings
UpdateAgentSettings(s, a, accepting, cap) ==
    /\ Free(s, Requests) /\ edits < MaxEdits
    /\ settings' = [settings EXCEPT ![a].accepting = accepting, ![a].cap = cap]
    /\ edits' = edits + 1
    /\ UNCHANGED <<rows, jobs, tx, day, crashes>>

\* the administrator's update_agent
UpdateAgent(s, a) ==
    /\ Free(s, Requests) /\ edits < MaxEdits
    /\ settings' = [settings EXCEPT ![a].active = ~@]
    /\ edits' = edits + 1
    /\ UNCHANGED <<rows, jobs, tx, day, crashes>>

\* the agent signs in, or the last refresh token grows older than 7 days
RecentSession(a) ==
    /\ edits < MaxEdits
    /\ settings' = [settings EXCEPT ![a].recent = ~@]
    /\ edits' = edits + 1
    /\ UNCHANGED <<rows, jobs, tx, day, crashes>>

Midnight ==
    /\ day < MaxDay
    /\ day' = day + 1
    /\ UNCHANGED <<rows, jobs, settings, tx, edits, crashes>>

\* The process of a session dies: its transaction rolls back, a job stays queued.
Crash(s) ==
    /\ tx[s] # Idle /\ crashes < MaxCrashes
    /\ crashes' = crashes + 1
    /\ Become(s, Idle)
    /\ UNCHANGED <<rows, jobs, settings, day, edits>>

-----------------------------------------------------------------------------
\* Steps that start a request, steps that carry a session on.
BeginOnCase(s, x) ==
    \/ \E c \in Clients : SubmitApplication(s, x, c) \/ CancelApplication(s, x, c) \/ ClaimOwnership(s, x, c)
    \/ \E a \in Agents : AdminAssign(s, x, a) \/ ClaimUnassigned(s, x, a)
    \/ \E a \in Agents, to \in AnyStatus : AgentTransition(s, x, a, to)
    \/ \E to \in AnyStatus : ForceTransition(s, x, to)
    \/ AdminRerun(s, x)

Advance(s) ==
    \/ EnqueueAutoAssign(s)
    \/ CommitTransition(s)
    \/ AdminCheckAgent(s)
    \/ \E a \in Agents : ScoreWinner(s, a)
    \/ ScoreNobody(s)
    \/ ClaimLockRow(s)
    \/ ClaimGiveUp(s)
    \/ CommitAssignment(s)
    \/ JobAck(s)

PickUp(s) == \E x \in Apps : JobPickUp(s, x) \/ JobRaises(s, x)

AgentRowChange ==
    \E a \in Agents :
        \/ \E s \in Requests, accepting \in BOOLEAN, cap \in CapChoices :
              UpdateAgentSettings(s, a, accepting, cap)
        \/ \E s \in Requests : UpdateAgent(s, a)
        \/ RecentSession(a)

Next ==
    \/ \E s \in Requests, x \in Apps : BeginOnCase(s, x)
    \/ \E s \in Workers : PickUp(s)
    \/ \E s \in Sessions : Advance(s) \/ Crash(s)
    \/ AgentRowChange
    \/ Midnight

Spec == Init /\ [][Next]_vars

\* The event loop resumes every session it has started, and the ARQ worker polls
\* its queue; nobody is obliged to send a request.
Fairness == /\ \A s \in Sessions : WF_vars(Advance(s))
            /\ \A s \in Workers : WF_vars(PickUp(s))

FairSpec == Spec /\ Fairness

-----------------------------------------------------------------------------
(* Properties *)

TypeOK ==
    /\ status \in [Apps -> AnyStatus \cup {"absent"}]
    /\ agent \in [Apps -> Agents \cup {None}]
    /\ client \in [Apps -> Clients \cup {None}]
    /\ stamps \in [Apps -> SUBSET TerminalStatuses]
    /\ statusLog \in [Apps -> Seq(StatusRows)]
    /\ assignLog \in [Apps -> Seq(AssignRows)]
    /\ jobs \subseteq Apps
    /\ settings \in [Agents -> AgentRow]
    /\ tx \in [Sessions -> Session]
    /\ day \in Nat /\ edits \in Nat /\ crashes \in Nat

LastRow(log) == log[Len(log)]

NewAssignRow(x) == Len(assignLog'[x]) > Len(assignLog[x])
NewStatusRow(x) == Len(statusLog'[x]) > Len(statusLog[x])

\* A claim that commits takes a case that has no agent and is still in the
\* queue at that very moment, whatever the other sessions have loaded: the row
\* lock of claim_unassigned makes its two steps one compare-and-set.
ClaimTakesUnassigned ==
    [][\A x \in Apps :
         NewAssignRow(x) /\ LastRow(assignLog'[x]).role = "staff:agent"
             => agent[x] = None /\ status[x] = "received"]_vars

\* A case has an agent exactly when its assignment history is not empty, and
\* the agent is one the history names: no interleaving of do_assign loses the
\* row's agent or assigns without a trace.
AssignmentLogged ==
    \A x \in Apps :
        /\ agent[x] = None <=> assignLog[x] = << >>
        /\ agent[x] # None => \E i \in DOMAIN assignLog[x] : assignLog[x][i].new = agent[x]

\* A case in a terminal status carries the timestamp of that status, also when
\* stale sessions move it out of one terminal status and into another.
TerminalStamped ==
    \A x \in Apps : status[x] \in TerminalStatuses => status[x] \in stamps[x]

\* A case with an agent is not "received": it never shows up again among the
\* cases an agent may claim.  (An administrator can PATCH "received" back in;
\* the property is about everything else.)
AssignedLeavesQueue ==
    \A x \in Apps : agent[x] # None => status[x] # "received"

\* The histories tell the row's story: the last status row is the status, the
\* last assignment row is the agent, and every assignment row starts from the
\* agent the previous one ended with.
HistoryMatchesRow ==
    \A x \in Apps :
        /\ Exists(x) => LastRow(statusLog[x]).status = status[x]
        /\ agent[x] # None => LastRow(assignLog[x]).new = agent[x]
        /\ \A i \in DOMAIN assignLog[x] :
              assignLog[x][i].prev = IF i = 1 THEN None ELSE assignLog[x][i - 1].new

\* Every change of status is an edge of VALID_STATUS_TRANSITIONS unless an
\* administrator made it.
TransitionsFollowTable ==
    [][\A x \in Apps :
         Exists(x) /\ status'[x] # status[x]
             => \/ status'[x] \in AllowedFrom(status[x])
                \/ LastRow(statusLog'[x]).role = "staff:admin"]_vars

\* An agent is never given a case beyond the daily cap of the agent's settings.
WithinDailyCap ==
    [][\A x \in Apps :
         NewAssignRow(x) => UnderCap(LastRow(assignLog'[x]).new)]_vars

\* A client's cancellation takes effect on a case the client owns at that moment.
OwnerCancels ==
    [][\A x \in Apps :
         NewStatusRow(x) /\ LastRow(statusLog'[x]).role = "client"
             => LastRow(statusLog'[x]).by = client'[x]]_vars

\* Once completed, rejected or cancelled a case keeps its status: the table of
\* transitions gives those statuses no successor.
TerminalIsFinal ==
    [][\A x \in Apps : status[x] \in TerminalStatuses => status'[x] = status[x]]_vars

\* The auto-assignment job gives a case an agent only if it has none: it returns
\* at once on a case that is assigned already.
JobTakesUnassigned ==
    [][\A s \in Workers :
         At(s, "job", "ready") /\ tx'[s].pc = "done" => agent[tx[s].app] = None]_vars

\* Automatic assignment hands an agent a case to work on: not one that is closed.
OpenCasesAutoAssigned ==
    [][\A x \in Apps :
         NewAssignRow(x) /\ LastRow(assignLog'[x]).role = "system"
             => status'[x] \notin TerminalStatuses]_vars

\* The row of a case, its assignment history and its timestamps tell one story,
\* however the sessions that write them interleave.
CasesAgree == TypeOK /\ AssignmentLogged /\ TerminalStamped

\* Sessions that follow one another obey the table, the caps and the ownership: no
\* handler decides on anything but the rows that its commit finds.
RulesObeyed == TransitionsFollowTable /\ WithinDailyCap /\ OwnerCancels

\* Under the fairness of the event loop and the worker, a submitted case does
\* not stay in the queue for ever.
LeavesQueue == \A x \in Apps : status[x] = "received" ~> status[x] # "received"
=============================================================================
