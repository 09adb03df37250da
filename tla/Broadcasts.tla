------------------------------ MODULE Broadcasts ------------------------------
(***************************************************************************)
(* Broadcasts to the clients: src/app/modules/broadcasts.  A request       *)
(* stores the broadcast and enqueues its job; the job reads the audience,  *)
(* hands one message for each recipient to the mail queue and records how  *)
(* many it handed over.                                                    *)
(*                                                                         *)
(* The queue runs a job again when its worker dies, from the beginning.    *)
(***************************************************************************)
EXTENDS Integers, FiniteSets

CONSTANTS
    Notices,      \* broadcast ids
    Recipients,   \* clients with an e-mail address
    Senders,      \* sessions: API processes and workers
    Equipped,     \* those whose process configured a database and a queue
    Unset,        \* SQL NULL
    MaxReruns     \* bound on workers that die

ASSUME BroadcastsAssumption ==
    /\ IsFiniteSet(Recipients)
    /\ Equipped \subseteq Senders
    /\ Unset \notin Notices
    /\ MaxReruns \in Nat

VARIABLES
    notice,    \* broadcast_status of the rows of broadcasts,
    reach,     \* and their actual_reach
    clients,   \* recipients that have an account
    queued,    \* broadcasts whose job waits in the queue
    sender,    \* what each session is doing
    copies,    \* messages in the mail queue, per broadcast and recipient
    reruns

broadcastVars == <<notice, reach, clients, queued, sender, copies, reruns>>

-----------------------------------------------------------------------------
Statuses == {"none", "draft", "scheduled", "sending", "sent", "failed"}

Sender == [pc : {"idle", "store", "enqueue", "begin", "audience", "send", "finish", "ack"},
           notice : Notices \cup {Unset}, timed : BOOLEAN,
           left : SUBSET Recipients, sent : Nat]
Off == [pc |-> "idle", notice |-> Unset, timed |-> FALSE, left |-> {}, sent |-> 0]

InJob(s) == sender[s].pc \in {"begin", "audience", "send", "finish", "ack"}

BroadcastsInit ==
    /\ notice = [b \in Notices |-> "none"]
    /\ reach = [b \in Notices |-> Unset]
    /\ clients = {}
    /\ queued = {}
    /\ sender = [s \in Senders |-> Off]
    /\ copies = [b \in Notices |-> [u \in Recipients |-> 0]]
    /\ reruns = 0

Turn(s, d) == sender' = [sender EXCEPT ![s] = d]

-----------------------------------------------------------------------------
(* create_broadcast *)

CreateBroadcast(s, b, timed) ==
    /\ sender[s] = Off /\ s \in Equipped
    /\ notice[b] = "none" /\ \A o \in Senders : sender[o].notice # b
    /\ Turn(s, [Off EXCEPT !.pc = "store", !.notice = b, !.timed = timed])
    /\ UNCHANGED <<notice, reach, clients, queued, copies, reruns>>

StoreBroadcast(s) ==
    LET d == sender[s]
    IN  /\ d.pc = "store"
        /\ notice' = [notice EXCEPT ![d.notice] = IF d.timed THEN "scheduled" ELSE "draft"]
        /\ Turn(s, [d EXCEPT !.pc = "enqueue"])
        /\ UNCHANGED <<reach, clients, queued, copies, reruns>>

\* A deferred job waits in the same queue: when it is due is nobody's choice here.
EnqueueBroadcast(s) ==
    /\ sender[s].pc = "enqueue"
    /\ queued' = queued \cup {sender[s].notice}
    /\ Turn(s, Off)
    /\ UNCHANGED <<notice, reach, clients, copies, reruns>>

-----------------------------------------------------------------------------
(* broadcast_send_job *)

Taken(b) == queued \ {b}

TakeJob(s, b) ==
    /\ sender[s] = Off
    /\ b \in queued
    /\ queued' = Taken(b)
    /\ Turn(s, [Off EXCEPT !.pc = "begin", !.notice = b])
    /\ UNCHANGED <<notice, reach, clients, copies, reruns>>

\* Without a database the job raises, and the queue forgets it.
BeginSending(s) ==
    LET d == sender[s]
    IN  /\ d.pc = "begin"
        /\ IF s \notin Equipped THEN Turn(s, Off) /\ UNCHANGED notice
           ELSE /\ notice' = [notice EXCEPT ![d.notice] = "sending"]
                /\ Turn(s, [d EXCEPT !.pc = "audience"])
        /\ UNCHANGED <<reach, clients, queued, copies, reruns>>

\* _resolve_audience_user_ids, after the commit
ReadAudience(s) ==
    /\ sender[s].pc = "audience"
    /\ Turn(s, [sender[s] EXCEPT !.pc = "send", !.left = clients])
    /\ UNCHANGED <<notice, reach, clients, queued, copies, reruns>>

\* Mutation: a message is counted before it is handed over.
CountedFirst(d, handed) == d.sent + 1

Counted(d, handed) == IF handed THEN d.sent + 1 ELSE d.sent

\* A queue that fails is logged, and the loop goes on with the next recipient.
SendOne(s, u, handed) ==
    LET d == sender[s]
    IN  /\ d.pc = "send" /\ u \in d.left
        /\ copies' = IF handed THEN [copies EXCEPT ![d.notice][u] = @ + 1] ELSE copies
        /\ Turn(s, [d EXCEPT !.left = @ \ {u}, !.sent = Counted(d, handed)])
        /\ UNCHANGED <<notice, reach, clients, queued, reruns>>

EndLoop(s) ==
    LET d == sender[s]
    IN  /\ d.pc = "send" /\ d.left = {}
        /\ Turn(s, [d EXCEPT !.pc = "finish"])
        /\ UNCHANGED <<notice, reach, clients, queued, copies, reruns>>

\* Mutation: it stays as it is when there was nobody to send it to.
LeftSending(d) == IF d.sent > 0 THEN "sent" ELSE "sending"

Verdict(d) == IF d.sent > 0 THEN "sent" ELSE "failed"

FinishSending(s) ==
    LET d == sender[s]
    IN  /\ d.pc = "finish"
        /\ reach' = [reach EXCEPT ![d.notice] = d.sent]
        /\ notice' = [notice EXCEPT ![d.notice] = Verdict(d)]
        /\ Turn(s, [d EXCEPT !.pc = "ack"])
        /\ UNCHANGED <<clients, queued, copies, reruns>>

Acknowledge(s) ==
    /\ sender[s].pc = "ack"
    /\ Turn(s, Off)
    /\ UNCHANGED <<notice, reach, clients, queued, copies, reruns>>

-----------------------------------------------------------------------------
SignUpClient(u) ==
    /\ u \notin clients
    /\ clients' = clients \cup {u}
    /\ UNCHANGED <<notice, reach, queued, sender, copies, reruns>>

Requeued(s) == IF InJob(s) THEN queued \cup {sender[s].notice} ELSE queued

LoseSender(s) ==
    /\ sender[s] # Off /\ reruns < MaxReruns
    /\ reruns' = reruns + 1
    /\ queued' = Requeued(s)
    /\ Turn(s, Off)
    /\ UNCHANGED <<notice, reach, clients, copies>>

Work(s) ==
    \/ StoreBroadcast(s)
    \/ EnqueueBroadcast(s)
    \/ BeginSending(s)
    \/ ReadAudience(s)
    \/ \E u \in Recipients, handed \in BOOLEAN : SendOne(s, u, handed)
    \/ EndLoop(s)
    \/ FinishSending(s)
    \/ Acknowledge(s)

BroadcastsNext ==
    \/ \E s \in Senders : \/ \E b \in Notices : \/ TakeJob(s, b)
                                                \/ \E timed \in BOOLEAN : CreateBroadcast(s, b, timed)
                          \/ Work(s)
                          \/ LoseSender(s)
    \/ \E u \in Recipients : SignUpClient(u)

BroadcastsSpec == BroadcastsInit /\ [][BroadcastsNext]_broadcastVars

\* What has begun is run to its end or dies, and a worker takes jobs from the queue.
BroadcastsFairness ==
    /\ \A s \in Senders : WF_broadcastVars(Work(s))
    /\ \A b \in Notices : SF_broadcastVars(\E s \in Equipped : TakeJob(s, b))

BroadcastsLive == BroadcastsSpec /\ BroadcastsFairness

-----------------------------------------------------------------------------
(* Properties *)

BroadcastsTypeOK ==
    /\ notice \in [Notices -> Statuses]
    /\ reach \in [Notices -> Nat \cup {Unset}]
    /\ clients \subseteq Recipients
    /\ queued \subseteq Notices
    /\ sender \in [Senders -> Sender]
    /\ copies \in [Notices -> [Recipients -> Nat]]
    /\ reruns \in Nat

Served(b) == {u \in Recipients : copies[b][u] > 0}

\* A client gets one copy of a broadcast, and one more at most for each worker
\* that died on the way.
OneCopyPerRun ==
    \A b \in Notices, u \in Recipients : copies[b][u] <= 1 + reruns

\* What the list shows as sent reached somebody, and never more clients are shown
\* than the mail queue was given messages for, whatever run wrote the number.
ReachIsTrue ==
    \A b \in Notices : /\ notice[b] = "sent" => reach[b] > 0
                       /\ reach[b] # Unset => reach[b] <= Cardinality(Served(b))

\* A broadcast that is being sent is in some worker's hands or in the queue.
NoneAbandoned ==
    \A b \in Notices : notice[b] = "sending" =>
        b \in queued \/ \E s \in Senders : sender[s].notice = b /\ InJob(s)

\* What the list shows of a broadcast is what its recipients got, whatever runs of
\* its job died; none is left behind where every process has a database.
BroadcastsHold ==
    /\ BroadcastsTypeOK /\ OneCopyPerRun /\ ReachIsTrue
    /\ Equipped = Senders => NoneAbandoned

\* A broadcast whose job was enqueued is sent or has failed in the end, if every
\* process that takes jobs has a database.
BroadcastEnds ==
    Equipped = Senders =>
        \A b \in Notices : b \in queued ~> notice[b] \in {"sent", "failed"}
=============================================================================
