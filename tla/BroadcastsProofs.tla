--------------------------- MODULE BroadcastsProofs ---------------------------
(***************************************************************************)
(* Proofs about Broadcasts, for every set of broadcasts, recipients and    *)
(* sessions, and any number of workers that die.                           *)
(***************************************************************************)
EXTENDS Broadcasts, FiniteSetTheorems, TLAPS

(***************************************************************************)
(* A broadcast is in one place at a time: unstored, in the queue, or with  *)
(* one session.                                                            *)
(***************************************************************************)
Preparing == {"store", "enqueue", "begin", "audience"}

OnePlaceInv ==
    /\ \A s \in Senders : IF sender[s].pc = "idle" THEN sender[s].notice = Unset
                          ELSE sender[s].notice \in Notices
    /\ \A s, t \in Senders : sender[s].notice = sender[t].notice /\ s # t => sender[s].notice = Unset
    /\ \A b \in queued, s \in Senders : sender[s].notice # b
    /\ \A b \in Notices : notice[b] = "none" =>
         /\ b \notin queued
         /\ \A s \in Senders : sender[s].notice = b => sender[s].pc = "store"
         /\ \A u \in Recipients : copies[b][u] = 0

(***************************************************************************)
(* Before a run has come to a recipient, his copies are no more than the   *)
(* workers that died.                                                      *)
(***************************************************************************)
RunsInv ==
    /\ OneCopyPerRun
    /\ \A b \in queued, u \in Recipients : copies[b][u] <= reruns
    /\ \A s \in Senders, u \in Recipients :
         sender[s].pc \in Preparing \/ (sender[s].pc = "send" /\ u \in sender[s].left)
             => copies[sender[s].notice][u] <= reruns

(***************************************************************************)
(* Whoever a run has counted is served, and is not among those left.       *)
(***************************************************************************)
Reached(c, b) == {u \in Recipients : c[b][u] > 0}

Counts(d, c) ==
    /\ d.pc \in {"send", "finish"} => d.sent <= Cardinality(Reached(c, d.notice) \ d.left)
    /\ d.pc \in Preparing => d.sent = 0

CountInv == ReachIsTrue /\ \A s \in Senders : Counts(sender[s], copies)

(***************************************************************************)
(* A session that is about to be done with a broadcast has a verdict.      *)
(***************************************************************************)
HandsInv ==
    /\ Equipped = Senders
    /\ NoneAbandoned
    /\ \A s \in Senders : sender[s].pc = "ack" => notice[sender[s].notice] # "sending"

TypeInv == BroadcastsTypeOK /\ OnePlaceInv

-----------------------------------------------------------------------------
(* Types and places *)

LEMMA OffIsTyped == Off \in Sender /\ Off.pc = "idle" /\ Off.notice = Unset /\ Off.sent = 0
BY DEF Off, Sender

LEMMA TypeInit == BroadcastsInit => TypeInv
<1> SUFFICES ASSUME BroadcastsInit PROVE TypeInv
  OBVIOUS
<1>1. BroadcastsTypeOK
  BY OffIsTyped, BroadcastsAssumption DEF BroadcastsInit, BroadcastsTypeOK, Statuses
<1>2. OnePlaceInv
  <2>1. \A s \in Senders : sender[s].pc = "idle" /\ sender[s].notice = Unset
    BY OffIsTyped DEF BroadcastsInit
  <2>2. \A b \in Notices : b # Unset /\ \A u \in Recipients : copies[b][u] = 0
    BY BroadcastsAssumption DEF BroadcastsInit
  <2>3. queued = {}
    BY DEF BroadcastsInit
  <2> QED BY <2>1, <2>2, <2>3 DEF OnePlaceInv
<1> QED BY <1>1, <1>2 DEF TypeInv

\* A session goes on with its broadcast, which stays where it is.
LEMMA GoesOn ==
    ASSUME TypeInv, NEW s \in Senders, NEW d \in Sender, Turn(s, d),
           sender[s].pc # "idle", d.pc # "idle", d.notice = sender[s].notice,
           queued' = queued, notice' \in [Notices -> Statuses],
           \A b \in Notices : notice'[b] = "none" => notice[b] = "none" /\ copies'[b] = copies[b],
           notice'[d.notice] # "none"
    PROVE  OnePlaceInv'
<1>1. sender' = [sender EXCEPT ![s] = d] /\ sender \in [Senders -> Sender]
  BY DEF Turn, TypeInv, BroadcastsTypeOK
<1>2. d.notice \in Notices
  BY DEF TypeInv, OnePlaceInv
<1>3. \A t \in Senders : sender'[t].notice = sender[t].notice
                         /\ (t # s => sender'[t] = sender[t])
  BY <1>1
<1> QED BY <1>1, <1>2, <1>3 DEF TypeInv, OnePlaceInv

\* A session ends its work, and its broadcast goes to the queue or is at rest.
LEMMA GoesOff ==
    ASSUME TypeInv, NEW s \in Senders, Turn(s, Off), sender[s].pc # "idle",
           queued' \in {queued, queued \cup {sender[s].notice}},
           sender[s].pc = "store" => queued' = queued,
           UNCHANGED <<notice, copies>>
    PROVE  OnePlaceInv'
<1>1. sender' = [sender EXCEPT ![s] = Off] /\ sender \in [Senders -> Sender]
  BY DEF Turn, TypeInv, BroadcastsTypeOK
<1>2. sender'[s].notice = Unset /\ sender'[s].pc = "idle"
      /\ \A t \in Senders \ {s} : sender'[t] = sender[t]
  BY <1>1, OffIsTyped
<1>3. sender[s].notice \in Notices /\ sender[s].notice # Unset
  BY BroadcastsAssumption DEF TypeInv, OnePlaceInv
<1>4. \A b \in queued', t \in Senders : sender'[t].notice # b
  <2>1. \A b \in queued : b \in Notices /\ b # Unset
    BY BroadcastsAssumption DEF TypeInv, BroadcastsTypeOK
  <2> QED BY <1>2, <1>3, <2>1 DEF TypeInv, OnePlaceInv
<1>5. \A t, v \in Senders : sender'[t].notice = sender'[v].notice /\ t # v => sender'[t].notice = Unset
  BY <1>2 DEF TypeInv, OnePlaceInv
<1>6. \A t \in Senders : IF sender'[t].pc = "idle" THEN sender'[t].notice = Unset
                         ELSE sender'[t].notice \in Notices
  BY <1>2 DEF TypeInv, OnePlaceInv
<1>7. ASSUME NEW b \in Notices, notice'[b] = "none"
      PROVE  /\ b \notin queued'
             /\ \A t \in Senders : sender'[t].notice = b => sender'[t].pc = "store"
             /\ \A u \in Recipients : copies'[b][u] = 0
  <2>1. b \notin queued'
    BY <1>7 DEF TypeInv, OnePlaceInv
  <2>2. \A t \in Senders : sender'[t].notice = b => sender'[t].pc = "store"
    BY <1>2, <1>7, BroadcastsAssumption DEF TypeInv, OnePlaceInv
  <2> QED BY <1>7, <2>1, <2>2 DEF TypeInv, OnePlaceInv
<1> QED BY <1>4, <1>5, <1>6, <1>7 DEF OnePlaceInv

\* An idle session takes a broadcast that nobody has.
LEMMA TakesUp ==
    ASSUME TypeInv, NEW s \in Senders, NEW d \in Sender, Turn(s, d), sender[s].pc = "idle",
           d.pc # "idle", d.notice \in Notices,
           \A o \in Senders : sender[o].notice # d.notice,
           d.notice \notin queued', queued' \subseteq queued,
           notice[d.notice] = "none" => d.pc = "store", UNCHANGED <<notice, copies>>
    PROVE  OnePlaceInv'
<1>1. sender' = [sender EXCEPT ![s] = d] /\ sender \in [Senders -> Sender]
  BY DEF Turn, TypeInv, BroadcastsTypeOK
<1>2. sender'[s] = d /\ \A t \in Senders \ {s} : sender'[t] = sender[t]
  BY <1>1
<1> QED BY <1>2 DEF TypeInv, OnePlaceInv

LEMMA TypeStep == TypeInv /\ [BroadcastsNext]_broadcastVars => TypeInv'
<1> SUFFICES ASSUME TypeInv, [BroadcastsNext]_broadcastVars PROVE TypeInv'
  OBVIOUS
<1>0. /\ notice \in [Notices -> Statuses] /\ reach \in [Notices -> Nat \cup {Unset}]
      /\ clients \subseteq Recipients /\ queued \subseteq Notices
      /\ sender \in [Senders -> Sender] /\ copies \in [Notices -> [Recipients -> Nat]]
      /\ reruns \in Nat
  BY DEF TypeInv, BroadcastsTypeOK
<1>a. \A s \in Senders : sender[s].pc # "idle" => sender[s].notice \in Notices
  BY DEF TypeInv, OnePlaceInv
<1>1. ASSUME NEW s \in Senders, NEW b \in Notices, NEW timed \in BOOLEAN, CreateBroadcast(s, b, timed)
      PROVE  TypeInv'
  <2> DEFINE d == [Off EXCEPT !.pc = "store", !.notice = b, !.timed = timed]
  <2>1. d \in Sender /\ d.pc = "store" /\ d.notice = b
    BY OffIsTyped DEF Sender
  <2>2. /\ Turn(s, d) /\ UNCHANGED <<notice, reach, clients, queued, copies, reruns>>
        /\ sender[s] = Off /\ notice[b] = "none" /\ \A o \in Senders : sender[o].notice # b
    BY <1>1 DEF CreateBroadcast
  <2> HIDE DEF d
  <2>3. BroadcastsTypeOK'
    BY <1>0, <2>1, <2>2 DEF BroadcastsTypeOK, Turn
  <2>4. b \notin queued
    BY <2>2 DEF TypeInv, OnePlaceInv
  <2>5. OnePlaceInv'
    BY <2>1, <2>2, <2>4, TakesUp, OffIsTyped
  <2> QED BY <2>3, <2>5 DEF TypeInv
<1>2. ASSUME NEW s \in Senders, StoreBroadcast(s) PROVE TypeInv'
  <2> DEFINE d == [sender[s] EXCEPT !.pc = "enqueue"]
             n == IF sender[s].timed THEN "scheduled" ELSE "draft"
  <2>1. d \in Sender /\ d.pc = "enqueue" /\ d.notice = sender[s].notice
    BY <1>0 DEF Sender
  <2>2. sender[s].pc = "store" /\ Turn(s, d) /\ UNCHANGED <<reach, clients, queued, copies, reruns>>
        /\ notice' = [notice EXCEPT ![sender[s].notice] = n]
    BY <1>2 DEF StoreBroadcast
  <2>3. n \in Statuses \ {"none"}
    BY DEF Statuses
  <2> HIDE DEF d, n
  <2>4. BroadcastsTypeOK'
    BY <1>0, <2>1, <2>2, <2>3 DEF BroadcastsTypeOK, Turn
  <2>5. \A c \in Notices : notice'[c] = "none" => notice[c] = "none"
    BY <1>0, <2>2, <2>3
  <2>6. notice'[d.notice] # "none"
    BY <1>0, <1>a, <2>1, <2>2, <2>3
  <2>7. OnePlaceInv'
    BY <1>0, <2>1, <2>2, <2>4, <2>5, <2>6, GoesOn DEF BroadcastsTypeOK
  <2> QED BY <2>4, <2>7 DEF TypeInv
<1>3. ASSUME NEW s \in Senders, EnqueueBroadcast(s) PROVE TypeInv'
  <2>1. BroadcastsTypeOK'
    BY <1>0, <1>3, <1>a, OffIsTyped DEF EnqueueBroadcast, BroadcastsTypeOK, Turn
  <2>2. OnePlaceInv'
    BY <1>3, GoesOff DEF EnqueueBroadcast
  <2> QED BY <2>1, <2>2 DEF TypeInv
<1>4. ASSUME NEW s \in Senders, NEW b \in Notices, TakeJob(s, b) PROVE TypeInv'
  <2> DEFINE d == [Off EXCEPT !.pc = "begin", !.notice = b]
  <2>1. d \in Sender /\ d.pc = "begin" /\ d.notice = b
    BY OffIsTyped DEF Sender
  <2>2. /\ Turn(s, d) /\ UNCHANGED <<notice, reach, clients, copies, reruns>>
        /\ sender[s] = Off /\ b \in queued /\ queued' = queued \ {b}
    BY <1>4 DEF TakeJob, Taken
  <2> HIDE DEF d
  <2>3. BroadcastsTypeOK'
    BY <1>0, <2>1, <2>2 DEF BroadcastsTypeOK, Turn
  <2>4. notice[b] # "none" /\ \A o \in Senders : sender[o].notice # b
    BY <2>2 DEF TypeInv, OnePlaceInv
  <2>5. OnePlaceInv'
    BY <2>1, <2>2, <2>4, TakesUp, OffIsTyped
  <2> QED BY <2>3, <2>5 DEF TypeInv
<1>5. ASSUME NEW s \in Senders, BeginSending(s) PROVE TypeInv'
  <2>1. sender[s].pc = "begin" /\ UNCHANGED <<reach, clients, queued, copies, reruns>>
    BY <1>5 DEF BeginSending
  <2>2. CASE s \notin Equipped
    <3>1. Turn(s, Off) /\ notice' = notice
      BY <1>5, <2>2 DEF BeginSending
    <3>2. BroadcastsTypeOK'
      BY <1>0, <2>1, <3>1, OffIsTyped DEF BroadcastsTypeOK, Turn
    <3>3. OnePlaceInv'
      BY <2>1, <3>1, GoesOff
    <3> QED BY <3>2, <3>3 DEF TypeInv
  <2>3. CASE s \in Equipped
    <3> DEFINE d == [sender[s] EXCEPT !.pc = "audience"]
    <3>1. d \in Sender /\ d.pc = "audience" /\ d.notice = sender[s].notice
      BY <1>0 DEF Sender
    <3>2. Turn(s, d) /\ notice' = [notice EXCEPT ![sender[s].notice] = "sending"]
      BY <1>5, <2>3 DEF BeginSending
    <3> HIDE DEF d
    <3>3. BroadcastsTypeOK'
      BY <1>0, <2>1, <3>1, <3>2 DEF BroadcastsTypeOK, Turn, Statuses
    <3>4. \A c \in Notices : notice'[c] = "none" => notice[c] = "none"
      BY <1>0, <3>2
    <3>5. notice'[d.notice] # "none"
      BY <1>0, <1>a, <2>1, <3>1, <3>2
    <3>6. OnePlaceInv'
      BY <2>1, <3>1, <3>2, <3>3, <3>4, <3>5, GoesOn DEF BroadcastsTypeOK
    <3> QED BY <3>3, <3>6 DEF TypeInv
  <2> QED BY <2>2, <2>3
<1>6. ASSUME NEW s \in Senders, NEW d \in Sender, Turn(s, d), d.notice = sender[s].notice, d.pc # "idle",
             sender[s].pc \in {"audience", "send"}, UNCHANGED <<notice, reach, clients, queued, reruns>>,
             copies' = copies \/ \E u \in Recipients : copies' = [copies EXCEPT ![sender[s].notice][u] = @ + 1]
      PROVE  TypeInv'
  <2>1. copies' \in [Notices -> [Recipients -> Nat]]
    <3>1. CASE copies' = copies
      BY <1>0, <3>1
    <3>2. ASSUME NEW u \in Recipients, copies' = [copies EXCEPT ![sender[s].notice][u] = @ + 1]
          PROVE  copies' \in [Notices -> [Recipients -> Nat]]
      <4> DEFINE n == sender[s].notice
                 row == [copies[n] EXCEPT ![u] = copies[n][u] + 1]
      <4>1. n \in Notices
        BY <1>a, <1>6
      <4>2. row \in [Recipients -> Nat]
        BY <1>0, <4>1
      <4>3. copies' = [copies EXCEPT ![n] = row]
        BY <3>2
      <4> HIDE DEF n, row
      <4> QED BY <1>0, <4>1, <4>2, <4>3
    <3> QED BY <1>6, <3>1, <3>2
  <2>2. BroadcastsTypeOK'
    BY <1>0, <1>6, <2>1 DEF BroadcastsTypeOK, Turn
  <2>3. sender[s].notice \in Notices /\ notice[sender[s].notice] # "none"
    BY <1>a, <1>6 DEF TypeInv, OnePlaceInv
  <2>4. \A c \in Notices \ {sender[s].notice} : copies'[c] = copies[c]
    BY <1>0, <1>6
  <2>5. OnePlaceInv'
    BY <1>0, <1>6, <2>3, <2>4, GoesOn
  <2> QED BY <2>2, <2>5 DEF TypeInv
<1>7. ASSUME NEW s \in Senders, ReadAudience(s) PROVE TypeInv'
  <2> DEFINE d == [sender[s] EXCEPT !.pc = "send", !.left = clients]
  <2>1. d \in Sender /\ d.pc = "send" /\ d.notice = sender[s].notice
    BY <1>0 DEF Sender
  <2>2. Turn(s, d) /\ sender[s].pc = "audience" /\ UNCHANGED <<notice, reach, clients, queued, copies, reruns>>
    BY <1>7 DEF ReadAudience
  <2> HIDE DEF d
  <2> QED BY <1>6, <2>1, <2>2
<1>8. ASSUME NEW s \in Senders, NEW u \in Recipients, NEW handed \in BOOLEAN, SendOne(s, u, handed)
      PROVE  TypeInv'
  <2> DEFINE c == Counted(sender[s], handed)
             d == [sender[s] EXCEPT !.left = sender[s].left \ {u}, !.sent = c]
  <2>1. c \in Nat
    BY <1>0 DEF Counted, Sender
  <2>2. Turn(s, d) /\ sender[s].pc = "send" /\ UNCHANGED <<notice, reach, clients, queued, reruns>>
    BY <1>8 DEF SendOne
  <2>3. copies' = copies \/ copies' = [copies EXCEPT ![sender[s].notice][u] = @ + 1]
    BY <1>8 DEF SendOne
  <2> HIDE DEF c
  <2>4. d \in Sender /\ d.pc = sender[s].pc /\ d.notice = sender[s].notice
    BY <1>0, <2>1 DEF Sender
  <2> HIDE DEF d
  <2> QED BY <1>6, <2>2, <2>3, <2>4
<1>9. ASSUME NEW s \in Senders, EndLoop(s) PROVE TypeInv'
  <2> DEFINE d == [sender[s] EXCEPT !.pc = "finish"]
  <2>1. d \in Sender /\ d.pc = "finish" /\ d.notice = sender[s].notice
    BY <1>0 DEF Sender
  <2>2. Turn(s, d) /\ sender[s].pc = "send" /\ UNCHANGED <<notice, reach, clients, queued, copies, reruns>>
    BY <1>9 DEF EndLoop
  <2> HIDE DEF d
  <2> QED BY <1>6, <2>1, <2>2
<1>10. ASSUME NEW s \in Senders, FinishSending(s) PROVE TypeInv'
  <2> DEFINE d == [sender[s] EXCEPT !.pc = "ack"]
             n == Verdict(sender[s])
  <2>1. d \in Sender /\ d.pc = "ack" /\ d.notice = sender[s].notice /\ sender[s].sent \in Nat
    BY <1>0 DEF Sender
  <2>2. /\ Turn(s, d) /\ sender[s].pc = "finish" /\ UNCHANGED <<clients, queued, copies, reruns>>
        /\ notice' = [notice EXCEPT ![sender[s].notice] = n]
        /\ reach' = [reach EXCEPT ![sender[s].notice] = sender[s].sent]
    BY <1>10 DEF FinishSending
  <2>3. n \in Statuses \ {"none"}
    BY DEF Verdict, Statuses
  <2> HIDE DEF d, n
  <2>4. BroadcastsTypeOK'
    BY <1>0, <2>1, <2>2, <2>3 DEF BroadcastsTypeOK, Turn
  <2>5. \A c \in Notices : notice'[c] = "none" => notice[c] = "none"
    BY <1>0, <2>2, <2>3
  <2>6. notice'[d.notice] # "none"
    BY <1>0, <1>a, <2>1, <2>2, <2>3
  <2>7. OnePlaceInv'
    BY <2>1, <2>2, <2>4, <2>5, <2>6, GoesOn DEF BroadcastsTypeOK
  <2> QED BY <2>4, <2>7 DEF TypeInv
<1>11. ASSUME NEW s \in Senders, Acknowledge(s) PROVE TypeInv'
  <2>1. BroadcastsTypeOK'
    BY <1>0, <1>11, OffIsTyped DEF Acknowledge, BroadcastsTypeOK, Turn
  <2>2. OnePlaceInv'
    BY <1>11, GoesOff DEF Acknowledge
  <2> QED BY <2>1, <2>2 DEF TypeInv
<1>12. ASSUME NEW s \in Senders, LoseSender(s) PROVE TypeInv'
  <2>1. sender[s] # Off /\ Turn(s, Off) /\ UNCHANGED <<notice, reach, clients, copies>>
        /\ reruns' = reruns + 1 /\ queued' = IF InJob(s) THEN queued \cup {sender[s].notice} ELSE queued
    BY <1>12 DEF LoseSender, Requeued
  <2>2. CASE sender[s].pc = "idle"
    \* Only a field that an idle session has no use for can differ from Off.
    <3>1. queued' = queued /\ sender[s].notice = Unset
      BY <2>1, <2>2 DEF InJob, TypeInv, OnePlaceInv
    <3>2. BroadcastsTypeOK'
      BY <1>0, <2>1, <3>1, OffIsTyped DEF BroadcastsTypeOK, Turn
    <3>3. \A t \in Senders : sender'[t].notice = sender[t].notice /\ sender'[t].pc = sender[t].pc
      BY <1>0, <2>1, <2>2, <3>1, OffIsTyped DEF Turn
    <3>4. OnePlaceInv'
      BY <2>1, <3>1, <3>3 DEF TypeInv, OnePlaceInv
    <3> QED BY <3>2, <3>4 DEF TypeInv
  <2>3. CASE sender[s].pc # "idle"
    <3>1. BroadcastsTypeOK'
      BY <1>0, <1>a, <2>1, <2>3, OffIsTyped DEF BroadcastsTypeOK, Turn
    <3>2. OnePlaceInv'
      BY <2>1, <2>3, GoesOff DEF InJob
    <3> QED BY <3>1, <3>2 DEF TypeInv
  <2> QED BY <2>2, <2>3
<1>13. ASSUME NEW u \in Recipients, SignUpClient(u) PROVE TypeInv'
  BY <1>0, <1>13 DEF SignUpClient, TypeInv, BroadcastsTypeOK, OnePlaceInv
<1>14. CASE UNCHANGED broadcastVars
  BY <1>14 DEF broadcastVars, TypeInv, BroadcastsTypeOK, OnePlaceInv
<1> QED
  BY <1>1, <1>2, <1>3, <1>4, <1>5, <1>7, <1>8, <1>9, <1>10, <1>11, <1>12, <1>13, <1>14
  DEF BroadcastsNext, Work

\* Every reachable state is well typed, for any sets of broadcasts, recipients and sessions.
THEOREM BroadcastsTypeCorrect == BroadcastsSpec => []BroadcastsTypeOK
<1>1. TypeInv => BroadcastsTypeOK
  BY DEF TypeInv
<1> QED BY <1>1, TypeInit, TypeStep, PTL DEF BroadcastsSpec

-----------------------------------------------------------------------------
(* How many copies a recipient gets *)

LEMMA RunsInit == BroadcastsInit => RunsInv
<1> SUFFICES ASSUME BroadcastsInit PROVE RunsInv
  OBVIOUS
<1>1. \A s \in Senders : sender[s].pc = "idle"
  BY OffIsTyped DEF BroadcastsInit
<1>2. \A b \in Notices, u \in Recipients : copies[b][u] = 0
  BY DEF BroadcastsInit
<1>3. queued = {} /\ reruns = 0
  BY DEF BroadcastsInit
<1> QED BY <1>1, <1>2, <1>3 DEF RunsInv, OneCopyPerRun, Preparing

\* No message is handed over and no worker dies: what is new in the queue or with a
\* session has to be within its bound.
LEMMA RunsKept ==
    ASSUME TypeInv, RunsInv, NEW s \in Senders, NEW d \in Sender, Turn(s, d),
           UNCHANGED <<copies, reruns>>,
           \A b \in queued', u \in Recipients : copies[b][u] <= reruns,
           \A u \in Recipients : d.pc \in Preparing \/ (d.pc = "send" /\ u \in d.left)
                                    => copies[d.notice][u] <= reruns
    PROVE  RunsInv'
<1>1. sender'[s] = d /\ \A t \in Senders \ {s} : sender'[t] = sender[t]
  BY DEF Turn, TypeInv, BroadcastsTypeOK
<1>2. OneCopyPerRun'
  BY DEF RunsInv, OneCopyPerRun
<1> QED BY <1>1, <1>2 DEF RunsInv

LEMMA RunsStep == TypeInv /\ RunsInv /\ [BroadcastsNext]_broadcastVars => RunsInv'
<1> SUFFICES ASSUME TypeInv, RunsInv, [BroadcastsNext]_broadcastVars PROVE RunsInv'
  OBVIOUS
<1>0. /\ queued \subseteq Notices /\ sender \in [Senders -> Sender]
      /\ copies \in [Notices -> [Recipients -> Nat]] /\ reruns \in Nat
  BY DEF TypeInv, BroadcastsTypeOK
<1>a. \A b \in queued, u \in Recipients : copies[b][u] <= reruns
  BY DEF RunsInv
<1>b. Off \in Sender /\ Off.pc \notin Preparing /\ Off.pc # "send"
  BY OffIsTyped DEF Preparing
\* Sessions that prepare or end.
<1>1. ASSUME NEW s \in Senders, NEW b \in Notices, NEW timed \in BOOLEAN, CreateBroadcast(s, b, timed)
      PROVE  RunsInv'
  <2> DEFINE d == [Off EXCEPT !.pc = "store", !.notice = b, !.timed = timed]
  <2>1. d \in Sender /\ d.pc = "store" /\ d.notice = b
    BY OffIsTyped DEF Sender
  <2>2. Turn(s, d) /\ UNCHANGED <<queued, copies, reruns>> /\ notice[b] = "none"
    BY <1>1 DEF CreateBroadcast
  <2>3. \A u \in Recipients : copies[b][u] <= reruns
    BY <1>0, <2>2 DEF TypeInv, OnePlaceInv
  <2> HIDE DEF d
  <2> QED BY <1>a, <2>1, <2>2, <2>3, RunsKept
<1>2. ASSUME NEW s \in Senders, NEW d \in Sender, Turn(s, d), UNCHANGED <<queued, copies, reruns>>,
             d.notice = sender[s].notice, sender[s].pc \in Preparing
      PROVE  RunsInv'
  BY <1>a, <1>2, RunsKept DEF RunsInv
<1>3. ASSUME NEW s \in Senders, StoreBroadcast(s) PROVE RunsInv'
  <2> DEFINE d == [sender[s] EXCEPT !.pc = "enqueue"]
  <2>1. d \in Sender /\ d.notice = sender[s].notice
    BY <1>0 DEF Sender
  <2>2. Turn(s, d) /\ UNCHANGED <<queued, copies, reruns>> /\ sender[s].pc \in Preparing
    BY <1>3 DEF StoreBroadcast, Preparing
  <2> HIDE DEF d
  <2> QED BY <1>2, <2>1, <2>2
<1>4. ASSUME NEW s \in Senders, EnqueueBroadcast(s) PROVE RunsInv'
  <2>1. Turn(s, Off) /\ UNCHANGED <<copies, reruns>> /\ sender[s].pc \in Preparing
        /\ queued' = queued \cup {sender[s].notice}
    BY <1>4 DEF EnqueueBroadcast, Preparing
  <2>2. \A b \in queued', u \in Recipients : copies[b][u] <= reruns
    BY <1>a, <2>1 DEF RunsInv
  <2> QED BY <1>b, <2>1, <2>2, RunsKept
<1>5. ASSUME NEW s \in Senders, NEW b \in Notices, TakeJob(s, b) PROVE RunsInv'
  <2> DEFINE d == [Off EXCEPT !.pc = "begin", !.notice = b]
  <2>1. d \in Sender /\ d.notice = b
    BY OffIsTyped DEF Sender
  <2>2. Turn(s, d) /\ UNCHANGED <<copies, reruns>> /\ b \in queued /\ queued' \subseteq queued
    BY <1>5 DEF TakeJob, Taken
  <2> HIDE DEF d
  <2> QED BY <1>a, <2>1, <2>2, RunsKept
<1>6. ASSUME NEW s \in Senders, BeginSending(s) PROVE RunsInv'
  <2>1. sender[s].pc \in Preparing /\ UNCHANGED <<queued, copies, reruns>>
    BY <1>6 DEF BeginSending, Preparing
  <2>2. CASE s \notin Equipped
    <3>1. Turn(s, Off)
      BY <1>6, <2>2 DEF BeginSending
    <3> QED BY <1>a, <1>b, <2>1, <3>1, RunsKept
  <2>3. CASE s \in Equipped
    <3> DEFINE d == [sender[s] EXCEPT !.pc = "audience"]
    <3>1. d \in Sender /\ d.notice = sender[s].notice
      BY <1>0 DEF Sender
    <3>2. Turn(s, d)
      BY <1>6, <2>3 DEF BeginSending
    <3> HIDE DEF d
    <3> QED BY <1>2, <2>1, <3>1, <3>2
  <2> QED BY <2>2, <2>3
<1>7. ASSUME NEW s \in Senders, ReadAudience(s) PROVE RunsInv'
  <2> DEFINE d == [sender[s] EXCEPT !.pc = "send", !.left = clients]
  <2>1. d \in Sender /\ d.notice = sender[s].notice
    BY <1>0 DEF Sender, TypeInv, BroadcastsTypeOK
  <2>2. Turn(s, d) /\ UNCHANGED <<queued, copies, reruns>> /\ sender[s].pc \in Preparing
    BY <1>7 DEF ReadAudience, Preparing
  <2> HIDE DEF d
  <2> QED BY <1>2, <2>1, <2>2
<1>8. ASSUME NEW s \in Senders, NEW d \in Sender, Turn(s, d), UNCHANGED <<queued, copies, reruns>>,
             d.pc \in {"idle", "finish", "ack"}
      PROVE  RunsInv'
  BY <1>a, <1>8, RunsKept DEF Preparing
<1>9. ASSUME NEW s \in Senders, EndLoop(s) \/ FinishSending(s) \/ Acknowledge(s) PROVE RunsInv'
  <2>1. UNCHANGED <<queued, copies, reruns>>
    BY <1>9 DEF EndLoop, FinishSending, Acknowledge
  <2>2. \E d \in Sender : d.pc \in {"idle", "finish", "ack"} /\ Turn(s, d)
    <3>1. CASE EndLoop(s)
      <4>1. [sender[s] EXCEPT !.pc = "finish"] \in Sender
        BY <1>0 DEF Sender
      <4>2. [sender[s] EXCEPT !.pc = "finish"].pc = "finish"
        BY <1>0 DEF Sender
      <4> QED BY <3>1, <4>1, <4>2 DEF EndLoop
    <3>2. CASE FinishSending(s)
      <4>1. [sender[s] EXCEPT !.pc = "ack"] \in Sender
        BY <1>0 DEF Sender
      <4>2. [sender[s] EXCEPT !.pc = "ack"].pc = "ack"
        BY <1>0 DEF Sender
      <4> QED BY <3>2, <4>1, <4>2 DEF FinishSending
    <3>3. CASE Acknowledge(s)
      BY <3>3, OffIsTyped DEF Acknowledge
    <3> QED BY <1>9, <3>1, <3>2, <3>3
  <2> QED BY <1>8, <2>1, <2>2
\* The message itself.
<1>10. ASSUME NEW s \in Senders, NEW u \in Recipients, NEW handed \in BOOLEAN, SendOne(s, u, handed)
       PROVE  RunsInv'
  <2> DEFINE n == sender[s].notice
             c == Counted(sender[s], handed)
             d == [sender[s] EXCEPT !.left = sender[s].left \ {u}, !.sent = c]
  <2>1. c \in Nat
    BY <1>0 DEF Counted, Sender
  <2>2. d.notice = n /\ d.pc = "send" /\ d.left = sender[s].left \ {u} /\ d \in Sender
    BY <1>0, <1>10, <2>1 DEF SendOne, Sender
  <2>3. Turn(s, d) /\ sender[s].pc = "send" /\ u \in sender[s].left /\ UNCHANGED <<queued, reruns>>
        /\ (copies' = copies \/ copies' = [copies EXCEPT ![n][u] = @ + 1])
    BY <1>10 DEF SendOne
  <2>4. n \in Notices
    BY <2>3 DEF TypeInv, OnePlaceInv
  <2> HIDE DEF n, c, d
  <2>5. sender'[s] = d /\ \A t \in Senders \ {s} : sender'[t] = sender[t]
    BY <1>0, <2>3 DEF Turn
  <2>6. CASE copies' = copies
    <3>1. \A v \in Recipients : v \in d.left => copies[n][v] <= reruns
      BY <2>2, <2>3 DEF RunsInv, n
    <3> QED BY <1>a, <2>2, <2>3, <2>6, <3>1, RunsKept DEF Preparing
  <2>7. CASE copies' = [copies EXCEPT ![n][u] = @ + 1]
    <3>1. copies[n][u] <= reruns /\ copies[n][u] \in Nat
      BY <1>0, <2>3, <2>4 DEF RunsInv, n
    <3>2. copies'[n][u] = copies[n][u] + 1
      BY <1>0, <2>4, <2>7
    <3>3. \A b \in Notices, v \in Recipients : b # n \/ v # u => copies'[b][v] = copies[b][v]
      BY <1>0, <2>4, <2>7
    <3>4. OneCopyPerRun'
      BY <1>0, <2>3, <3>1, <3>2, <3>3 DEF RunsInv, OneCopyPerRun
    <3>5. \A b \in queued', v \in Recipients : copies'[b][v] <= reruns'
      <4>1. \A b \in queued : b # n
        BY DEF TypeInv, OnePlaceInv, n
      <4> QED BY <1>0, <1>a, <2>3, <3>3, <4>1
    <3>6. ASSUME NEW t \in Senders, NEW v \in Recipients,
                 sender'[t].pc \in Preparing \/ (sender'[t].pc = "send" /\ v \in sender'[t].left)
          PROVE  copies'[sender'[t].notice][v] <= reruns'
      <4>1. CASE t = s
        <5>1. v # u /\ v \in sender[s].left
          BY <2>2, <2>5, <3>6, <4>1 DEF Preparing
        <5>2. copies[n][v] <= reruns
          BY <2>3, <5>1 DEF RunsInv, n
        <5> QED BY <2>2, <2>3, <2>4, <2>5, <3>3, <4>1, <5>1, <5>2
      <4>2. CASE t # s
        <5>1. sender[t].pc # "idle"
          BY <2>5, <3>6, <4>2 DEF Preparing
        <5>2. sender[t].notice \in Notices /\ sender[t].notice # n
          BY <2>4, <4>2, <5>1, BroadcastsAssumption DEF TypeInv, OnePlaceInv, n
        <5>3. copies[sender[t].notice][v] <= reruns
          BY <2>5, <3>6, <4>2 DEF RunsInv
        <5> QED BY <2>3, <2>5, <3>3, <4>2, <5>2, <5>3
      <4> QED BY <4>1, <4>2
    <3> QED BY <3>4, <3>5, <3>6 DEF RunsInv
  <2> QED BY <2>3, <2>6, <2>7
\* A worker that dies on the way is what one more copy is allowed for.
<1>11. ASSUME NEW s \in Senders, LoseSender(s) PROVE RunsInv'
  <2>1. Turn(s, Off) /\ copies' = copies /\ reruns' = reruns + 1
        /\ queued' \subseteq queued \cup {sender[s].notice}
        /\ (~InJob(s) => queued' = queued)
    BY <1>11 DEF LoseSender, Requeued
  <2>2. InJob(s) => sender[s].notice \in Notices
    BY DEF InJob, TypeInv, OnePlaceInv
  <2>3. \A b \in Notices, u \in Recipients : copies'[b][u] <= reruns'
    BY <1>0, <2>1 DEF RunsInv, OneCopyPerRun
  <2>4. \A b \in queued' : b \in Notices
    BY <1>0, <2>1, <2>2
  <2>5. sender'[s] = Off /\ \A t \in Senders \ {s} : sender'[t] = sender[t]
    BY <1>0, <2>1 DEF Turn
  <2>6. OneCopyPerRun'
    BY <1>0, <2>1, <2>3 DEF OneCopyPerRun
  <2>7. ASSUME NEW t \in Senders, NEW v \in Recipients,
               sender'[t].pc \in Preparing \/ (sender'[t].pc = "send" /\ v \in sender'[t].left)
        PROVE  copies'[sender'[t].notice][v] <= reruns'
    <3>1. sender'[t].pc # "idle" /\ t # s
      BY <1>b, <2>5, <2>7 DEF Preparing
    <3>2. sender'[t].notice \in Notices
      BY <2>5, <3>1 DEF TypeInv, OnePlaceInv
    <3> QED BY <2>3, <3>2
  <2> QED BY <2>3, <2>4, <2>6, <2>7 DEF RunsInv
<1>12. ASSUME NEW u \in Recipients, SignUpClient(u) PROVE RunsInv'
  BY <1>12 DEF SignUpClient, RunsInv, OneCopyPerRun
<1>13. CASE UNCHANGED broadcastVars
  BY <1>13 DEF broadcastVars, RunsInv, OneCopyPerRun
<1> QED
  BY <1>1, <1>3, <1>4, <1>5, <1>6, <1>7, <1>9, <1>10, <1>11, <1>12, <1>13
  DEF BroadcastsNext, Work

\* A client gets at most one copy of a broadcast more than there were workers that died.
THEOREM CopiesAreCounted == BroadcastsSpec => []OneCopyPerRun
<1>1. RunsInv => OneCopyPerRun
  BY DEF RunsInv
<1> QED BY <1>1, TypeInit, TypeStep, RunsInit, RunsStep, PTL DEF BroadcastsSpec

-----------------------------------------------------------------------------
(* What is counted as reached *)

LEMMA ReachedIsFinite ==
    ASSUME NEW c, NEW b, NEW L
    PROVE  /\ IsFiniteSet(Reached(c, b)) /\ IsFiniteSet(Reached(c, b) \ L)
           /\ Cardinality(Reached(c, b)) \in Nat /\ Cardinality(Reached(c, b) \ L) \in Nat
           /\ Cardinality(Reached(c, b) \ L) <= Cardinality(Reached(c, b))
<1>1. IsFiniteSet(Reached(c, b))
  <2>1. Reached(c, b) \subseteq Recipients
    BY DEF Reached
  <2> QED BY <2>1, BroadcastsAssumption, FS_Subset
<1> QED BY <1>1, FS_Subset, FS_CardinalityType

LEMMA CountInit == BroadcastsInit => CountInv
<1> SUFFICES ASSUME BroadcastsInit PROVE CountInv
  OBVIOUS
<1>1. \A s \in Senders : sender[s].pc = "idle"
  BY OffIsTyped DEF BroadcastsInit
<1>2. \A b \in Notices : notice[b] = "none" /\ reach[b] = Unset
  BY DEF BroadcastsInit
<1> QED BY <1>1, <1>2 DEF CountInv, Counts, ReachIsTrue, Preparing

\* Nothing but the end of a run writes a reach or the status that shows it.
LEMMA ReachKept ==
    ASSUME TypeInv, TypeInv', CountInv, reach' = reach,
           \A b \in Notices : notice'[b] = "sent" => notice[b] = "sent",
           \A b \in Notices : Reached(copies, b) \subseteq Reached(copies', b)
    PROVE  ReachIsTrue'
<1> SUFFICES ASSUME NEW b \in Notices
             PROVE  /\ notice'[b] = "sent" => reach'[b] > 0
                    /\ reach'[b] # Unset => reach'[b] <= Cardinality(Reached(copies', b))
  BY DEF ReachIsTrue, Served, Reached
<1>1. notice[b] = "sent" => reach[b] > 0
  BY DEF CountInv, ReachIsTrue
<1>2. reach[b] # Unset => reach[b] <= Cardinality(Reached(copies, b))
  BY DEF CountInv, ReachIsTrue, Served, Reached
<1>3. Cardinality(Reached(copies, b)) <= Cardinality(Reached(copies', b))
  BY ReachedIsFinite, FS_Subset
<1>4. reach[b] # Unset => reach[b] \in Nat
  BY DEF TypeInv, BroadcastsTypeOK
<1>5. Cardinality(Reached(copies, b)) \in Nat /\ Cardinality(Reached(copies', b)) \in Nat
  BY ReachedIsFinite
<1> QED BY <1>1, <1>2, <1>3, <1>4, <1>5

LEMMA CountKept ==
    ASSUME TypeInv, CountInv, NEW s \in Senders, NEW d, Turn(s, d), copies' = copies,
           ReachIsTrue', Counts(d, copies)
    PROVE  CountInv'
<1>1. sender'[s] = d /\ \A t \in Senders \ {s} : sender'[t] = sender[t]
  BY DEF Turn, TypeInv, BroadcastsTypeOK
<1> QED BY <1>1 DEF CountInv

LEMMA CountStep == TypeInv /\ TypeInv' /\ CountInv /\ [BroadcastsNext]_broadcastVars => CountInv'
<1> SUFFICES ASSUME TypeInv, TypeInv', CountInv, [BroadcastsNext]_broadcastVars PROVE CountInv'
  OBVIOUS
<1>0. /\ notice \in [Notices -> Statuses] /\ reach \in [Notices -> Nat \cup {Unset}]
      /\ sender \in [Senders -> Sender] /\ copies \in [Notices -> [Recipients -> Nat]]
  BY DEF TypeInv, BroadcastsTypeOK
<1>a. copies' = copies => \A b : Reached(copies, b) \subseteq Reached(copies', b)
  OBVIOUS
<1>b. ASSUME copies' = copies, reach' = reach,
             \A b \in Notices : notice'[b] = "sent" => notice[b] = "sent"
      PROVE  ReachIsTrue'
  BY <1>b, ReachKept
<1>c. Counts(Off, copies)
  BY OffIsTyped DEF Counts, Preparing
<1>1. ASSUME NEW s \in Senders, Turn(s, Off), UNCHANGED <<notice, reach, copies>> PROVE CountInv'
  BY <1>1, <1>b, <1>c, CountKept
<1>2. ASSUME NEW s \in Senders, NEW b \in Notices, NEW timed \in BOOLEAN, CreateBroadcast(s, b, timed)
      PROVE  CountInv'
  <2> DEFINE d == [Off EXCEPT !.pc = "store", !.notice = b, !.timed = timed]
  <2>1. d.pc = "store" /\ d.sent = 0
    BY DEF Off
  <2>2. Turn(s, d) /\ UNCHANGED <<notice, reach, copies>>
    BY <1>2 DEF CreateBroadcast
  <2> HIDE DEF d
  <2>3. Counts(d, copies)
    BY <2>1 DEF Counts
  <2> QED BY <1>b, <2>2, <2>3, CountKept
<1>3. ASSUME NEW s \in Senders, StoreBroadcast(s) PROVE CountInv'
  <2> DEFINE d == [sender[s] EXCEPT !.pc = "enqueue"]
  <2>1. d.pc = "enqueue" /\ d.sent = sender[s].sent
    BY <1>0 DEF Sender
  <2>2. Turn(s, d) /\ UNCHANGED <<reach, copies>> /\ sender[s].pc = "store"
        /\ \A b \in Notices : notice'[b] = "sent" => notice[b] = "sent"
    BY <1>0, <1>3 DEF StoreBroadcast
  <2> HIDE DEF d
  <2>3. Counts(d, copies)
    BY <2>1, <2>2 DEF CountInv, Counts, Preparing
  <2> QED BY <1>b, <2>2, <2>3, CountKept
<1>4. ASSUME NEW s \in Senders, NEW b \in Notices, TakeJob(s, b) PROVE CountInv'
  <2> DEFINE d == [Off EXCEPT !.pc = "begin", !.notice = b]
  <2>1. d.pc = "begin" /\ d.sent = 0
    BY DEF Off
  <2>2. Turn(s, d) /\ UNCHANGED <<notice, reach, copies>>
    BY <1>4 DEF TakeJob
  <2> HIDE DEF d
  <2>3. Counts(d, copies)
    BY <2>1 DEF Counts
  <2> QED BY <1>b, <2>2, <2>3, CountKept
<1>5. ASSUME NEW s \in Senders, BeginSending(s) PROVE CountInv'
  <2>1. UNCHANGED <<reach, copies>> /\ sender[s].pc = "begin"
    BY <1>5 DEF BeginSending
  <2>2. CASE s \notin Equipped
    BY <1>1, <1>5, <2>1, <2>2 DEF BeginSending
  <2>3. CASE s \in Equipped
    <3> DEFINE d == [sender[s] EXCEPT !.pc = "audience"]
    <3>1. d.pc = "audience" /\ d.sent = sender[s].sent
      BY <1>0 DEF Sender
    <3>2. Turn(s, d) /\ \A b \in Notices : notice'[b] = "sent" => notice[b] = "sent"
      BY <1>0, <1>5, <2>3 DEF BeginSending
    <3> HIDE DEF d
    <3>3. Counts(d, copies)
      BY <2>1, <3>1 DEF CountInv, Counts, Preparing
    <3> QED BY <1>b, <2>1, <3>2, <3>3, CountKept
  <2> QED BY <2>2, <2>3
<1>6. ASSUME NEW s \in Senders, ReadAudience(s) PROVE CountInv'
  <2> DEFINE d == [sender[s] EXCEPT !.pc = "send", !.left = clients]
  <2>1. d.pc = "send" /\ d.sent = sender[s].sent /\ d.notice = sender[s].notice
    BY <1>0 DEF Sender
  <2>2. Turn(s, d) /\ UNCHANGED <<notice, reach, copies>> /\ sender[s].pc = "audience"
    BY <1>6 DEF ReadAudience
  <2>3. d.sent = 0
    BY <2>1, <2>2 DEF CountInv, Counts, Preparing
  <2> HIDE DEF d
  <2>4. Cardinality(Reached(copies, d.notice) \ d.left) \in Nat
    BY ReachedIsFinite
  <2>5. Counts(d, copies)
    BY <2>1, <2>3, <2>4 DEF Counts, Preparing
  <2> QED BY <1>b, <2>2, <2>5, CountKept
<1>7. ASSUME NEW s \in Senders, EndLoop(s) PROVE CountInv'
  <2> DEFINE d == [sender[s] EXCEPT !.pc = "finish"]
  <2>1. d.pc = "finish" /\ d.sent = sender[s].sent /\ d.notice = sender[s].notice
        /\ d.left = sender[s].left
    BY <1>0 DEF Sender
  <2>2. Turn(s, d) /\ UNCHANGED <<notice, reach, copies>> /\ sender[s].pc = "send"
    BY <1>7 DEF EndLoop
  <2> HIDE DEF d
  <2>3. Counts(d, copies)
    BY <2>1, <2>2 DEF CountInv, Counts, Preparing
  <2> QED BY <1>b, <2>2, <2>3, CountKept
\* A message that is handed over serves one of those that were left.
<1>8. ASSUME NEW s \in Senders, NEW u \in Recipients, NEW handed \in BOOLEAN, SendOne(s, u, handed)
      PROVE  CountInv'
  <2> DEFINE n == sender[s].notice
             left == sender[s].left
             c == Counted(sender[s], handed)
             d == [sender[s] EXCEPT !.left = left \ {u}, !.sent = c]
  <2>1. d.notice = n /\ d.pc = "send" /\ d.left = left \ {u} /\ d.sent = c
    BY <1>0, <1>8 DEF SendOne, Sender
  <2>2. Turn(s, d) /\ UNCHANGED <<notice, reach>> /\ sender[s].pc = "send" /\ u \in left
    BY <1>8 DEF SendOne
  <2>3. copies' = IF handed THEN [copies EXCEPT ![n][u] = @ + 1] ELSE copies
    BY <1>8 DEF SendOne
  <2>4. n \in Notices /\ sender[s].sent \in Nat /\ left \subseteq Recipients
    BY <1>0, <2>2 DEF TypeInv, OnePlaceInv, Sender
  <2>5. c = IF handed THEN sender[s].sent + 1 ELSE sender[s].sent
    BY DEF Counted
  <2>6. sender[s].sent <= Cardinality(Reached(copies, n) \ left)
    BY <2>2 DEF CountInv, Counts
  <2> HIDE DEF n, c, d, left
  <2>7. sender'[s] = d /\ \A t \in Senders \ {s} : sender'[t] = sender[t]
    BY <1>0, <2>2 DEF Turn
  <2>8. CASE ~handed
    <3>1. copies' = copies /\ c = sender[s].sent
      BY <2>3, <2>5, <2>8
    <3>2. Cardinality(Reached(copies, n) \ left) <= Cardinality(Reached(copies, n) \ d.left)
      BY <2>1, ReachedIsFinite, FS_Subset
    <3>3. d.sent <= Cardinality(Reached(copies, n) \ d.left)
      BY <2>1, <2>4, <2>6, <3>1, <3>2, ReachedIsFinite
    <3>4. Counts(d, copies)
      BY <2>1, <3>3 DEF Counts, Preparing
    <3> QED BY <1>b, <2>2, <3>1, <3>4, CountKept
  <2>9. CASE handed
    <3>1. copies' = [copies EXCEPT ![n][u] = @ + 1] /\ c = sender[s].sent + 1
      BY <2>3, <2>5, <2>9
    <3>2. copies'[n][u] = copies[n][u] + 1 /\ copies[n][u] \in Nat
      BY <1>0, <2>4, <3>1
    <3>3. \A b \in Notices, v \in Recipients : b # n \/ v # u => copies'[b][v] = copies[b][v]
      BY <1>0, <2>4, <3>1
    <3>4. \A b \in Notices : Reached(copies, b) \subseteq Reached(copies', b)
      <4>1. ASSUME NEW b \in Notices, NEW v \in Recipients, copies[b][v] > 0 PROVE copies'[b][v] > 0
        <5>1. CASE b = n /\ v = u
          BY <3>2, <5>1
        <5>2. CASE b # n \/ v # u
          BY <3>3, <4>1, <5>2
        <5> QED BY <5>1, <5>2
      <4> QED BY <4>1 DEF Reached
    <3>5. ReachIsTrue'
      BY <2>2, <3>4, ReachKept
    <3> DEFINE old == Reached(copies, n) \ left
    <3>6. Reached(copies', n) \ d.left = old \cup {u} /\ u \notin old
      <4>1. u \in Reached(copies', n)
        BY <3>2 DEF Reached
      <4>2. \A v \in Recipients \ {u} : v \in Reached(copies', n) <=> v \in Reached(copies, n)
        BY <2>4, <3>3 DEF Reached
      <4>3. Reached(copies', n) \subseteq Recipients /\ Reached(copies, n) \subseteq Recipients
        BY DEF Reached
      <4> QED BY <2>1, <2>2, <4>1, <4>2, <4>3
    <3>7. Cardinality(old \cup {u}) = Cardinality(old) + 1
      BY <3>6, ReachedIsFinite, FS_AddElement
    <3>8. d.sent <= Cardinality(Reached(copies', n) \ d.left)
      <4>1. Cardinality(old) \in Nat
        BY ReachedIsFinite
      <4>2. d.sent = sender[s].sent + 1
        BY <2>1, <3>1
      <4>3. sender[s].sent <= Cardinality(old)
        BY <2>6 DEF old
      <4> HIDE DEF old
      <4> QED BY <2>4, <3>6, <3>7, <4>1, <4>2, <4>3
    <3>9. Counts(d, copies')
      BY <2>1, <3>8 DEF Counts, Preparing
    <3>10. ASSUME NEW t \in Senders \ {s} PROVE Counts(sender[t], copies')
      <4>1. CASE sender[t].pc \in {"send", "finish"}
        <5>1. sender[t].notice \in Notices /\ sender[t].notice # n
          BY <2>4, <4>1, BroadcastsAssumption DEF TypeInv, OnePlaceInv, n
        <5>2. Reached(copies', sender[t].notice) = Reached(copies, sender[t].notice)
          BY <3>3, <5>1 DEF Reached
        <5> QED BY <4>1, <5>2 DEF CountInv, Counts, Preparing
      <4>2. CASE sender[t].pc \notin {"send", "finish"}
        BY <4>2 DEF CountInv, Counts
      <4> QED BY <4>1, <4>2
    <3> QED BY <2>7, <3>5, <3>9, <3>10 DEF CountInv
  <2> QED BY <2>8, <2>9
\* What is recorded was served, and stays so.
<1>9. ASSUME NEW s \in Senders, FinishSending(s) PROVE CountInv'
  <2> DEFINE d == [sender[s] EXCEPT !.pc = "ack"]
             n == sender[s].notice
             k == sender[s].sent
             v == Verdict(sender[s])
  <2>1. d.pc = "ack" /\ k \in Nat
    BY <1>0 DEF Sender
  <2>2. /\ Turn(s, d) /\ copies' = copies /\ sender[s].pc = "finish"
        /\ reach' = [reach EXCEPT ![n] = k] /\ notice' = [notice EXCEPT ![n] = v]
    BY <1>9 DEF FinishSending
  <2>3. k <= Cardinality(Reached(copies, n))
    <3>1. k <= Cardinality(Reached(copies, n) \ sender[s].left)
      BY <2>2 DEF CountInv, Counts
    <3>2. /\ Cardinality(Reached(copies, n) \ sender[s].left) <= Cardinality(Reached(copies, n))
          /\ Cardinality(Reached(copies, n) \ sender[s].left) \in Nat
          /\ Cardinality(Reached(copies, n)) \in Nat
      BY ReachedIsFinite
    <3> HIDE DEF k, n
    <3> QED BY <2>1, <3>1, <3>2
  <2>4. v = "sent" => k > 0
    BY DEF Verdict
  <2> HIDE DEF d, n, k, v
  <2>5. ReachIsTrue'
    <3> SUFFICES ASSUME NEW b \in Notices
                 PROVE  /\ notice'[b] = "sent" => reach'[b] > 0
                        /\ reach'[b] # Unset => reach'[b] <= Cardinality(Reached(copies, b))
      BY <2>2 DEF ReachIsTrue, Served, Reached
    <3>1. CASE b = n
      BY <1>0, <2>2, <2>3, <2>4, <3>1
    <3>2. CASE b # n
      <4>1. notice'[b] = notice[b] /\ reach'[b] = reach[b]
        BY <1>0, <2>2, <3>2
      <4> QED BY <4>1 DEF CountInv, ReachIsTrue, Served, Reached
    <3> QED BY <3>1, <3>2
  <2>6. Counts(d, copies)
    BY <2>1 DEF Counts, Preparing
  <2> QED BY <2>2, <2>5, <2>6, CountKept
<1>10. ASSUME NEW s \in Senders, EnqueueBroadcast(s) \/ Acknowledge(s) \/ LoseSender(s) PROVE CountInv'
  BY <1>1, <1>10 DEF EnqueueBroadcast, Acknowledge, LoseSender
<1>11. ASSUME NEW u \in Recipients, SignUpClient(u) PROVE CountInv'
  <2>1. UNCHANGED <<notice, reach, sender, copies>>
    BY <1>11 DEF SignUpClient
  <2> QED BY <1>b, <2>1 DEF CountInv
<1>12. CASE UNCHANGED broadcastVars
  <2>1. UNCHANGED <<notice, reach, sender, copies>>
    BY <1>12 DEF broadcastVars
  <2> QED BY <1>b, <2>1 DEF CountInv
<1> QED
  BY <1>2, <1>3, <1>4, <1>5, <1>6, <1>7, <1>8, <1>9, <1>10, <1>11, <1>12
  DEF BroadcastsNext, Work

\* A broadcast that is shown as sent has reached somebody, and the reach that is shown
\* is never more than the clients whose messages the mail queue was given.
THEOREM ReachIsHonest == BroadcastsSpec => []ReachIsTrue
<1>1. CountInv => ReachIsTrue
  BY DEF CountInv
<1> QED BY <1>1, TypeInit, TypeStep, CountInit, CountStep, PTL DEF BroadcastsSpec

-----------------------------------------------------------------------------
(* Where a broadcast is that is being sent *)

LEMMA HandsInit == BroadcastsInit /\ Equipped = Senders => HandsInv
BY OffIsTyped DEF BroadcastsInit, HandsInv, NoneAbandoned

LEMMA HandsStep == TypeInv /\ HandsInv /\ [BroadcastsNext]_broadcastVars => HandsInv'
<1> SUFFICES ASSUME TypeInv, HandsInv, [BroadcastsNext]_broadcastVars PROVE HandsInv'
  OBVIOUS
<1>0. /\ notice \in [Notices -> Statuses] /\ queued \subseteq Notices /\ sender \in [Senders -> Sender]
  BY DEF TypeInv, BroadcastsTypeOK
<1>a. Equipped' = Senders' /\ Equipped = Senders
  BY DEF HandsInv
\* A step of one session about its broadcast n: what others have is theirs still.
<1>1. ASSUME NEW s \in Senders, NEW d \in Sender, Turn(s, d), NEW n, n \in Notices \cup {Unset},
             sender[s].notice \in {n, Unset}, queued \subseteq queued' \cup {n},
             \A c \in Notices \ {n} : notice'[c] = notice[c],
             d.pc = "ack" => notice'[d.notice] # "sending",
             n \in Notices /\ notice'[n] = "sending" =>
               n \in queued' \/ (d.notice = n /\ d.pc \in {"begin", "audience", "send", "finish", "ack"}),
             \A o \in Senders \ {s} : sender[o].notice = n => n = Unset
      PROVE  HandsInv'
  <2>1. sender'[s] = d /\ \A t \in Senders \ {s} : sender'[t] = sender[t]
    BY <1>0, <1>1 DEF Turn
  <2>2. ASSUME NEW b \in Notices, notice'[b] = "sending"
        PROVE  b \in queued' \/ \E t \in Senders : sender'[t].notice = b
                 /\ sender'[t].pc \in {"begin", "audience", "send", "finish", "ack"}
    <3>1. CASE b = n
      BY <1>1, <2>1, <2>2, <3>1
    <3>2. CASE b # n
      <4>1. notice[b] = "sending"
        BY <1>1, <2>2, <3>2
      <4>2. b \in queued \/ \E t \in Senders : sender[t].notice = b
              /\ sender[t].pc \in {"begin", "audience", "send", "finish", "ack"}
        BY <4>1 DEF HandsInv, NoneAbandoned, InJob
      <4>3. b # Unset
        BY BroadcastsAssumption
      <4> QED BY <1>1, <2>1, <3>2, <4>2, <4>3
    <3> QED BY <3>1, <3>2
  <2>3. ASSUME NEW t \in Senders, sender'[t].pc = "ack" PROVE notice'[sender'[t].notice] # "sending"
    <3>1. CASE t = s
      BY <1>1, <2>1, <2>3, <3>1
    <3>2. CASE t # s
      <4>1. sender[t].pc = "ack" /\ sender'[t] = sender[t]
        BY <2>1, <2>3, <3>2
      <4>2. sender[t].notice \in Notices \ {n}
        BY <1>1, <3>2, <4>1, BroadcastsAssumption DEF TypeInv, OnePlaceInv
      <4> QED BY <1>1, <4>1, <4>2 DEF HandsInv
    <3> QED BY <3>1, <3>2
  <2> QED BY <1>a, <2>2, <2>3 DEF HandsInv, NoneAbandoned, InJob
<1>b. \A s \in Senders, b \in Notices : sender[s].notice = b =>
        \A o \in Senders \ {s} : sender[o].notice # b
  BY BroadcastsAssumption DEF TypeInv, OnePlaceInv
<1>c. \A s \in Senders : sender[s].pc # "idle" => sender[s].notice \in Notices
  BY DEF TypeInv, OnePlaceInv
<1>2. ASSUME NEW s \in Senders, NEW b \in Notices, NEW timed \in BOOLEAN, CreateBroadcast(s, b, timed)
      PROVE  HandsInv'
  <2> DEFINE d == [Off EXCEPT !.pc = "store", !.notice = b, !.timed = timed]
  <2>1. d \in Sender /\ d.pc = "store" /\ d.notice = b
    BY OffIsTyped DEF Sender
  <2>2. Turn(s, d) /\ UNCHANGED <<notice, queued>> /\ notice[b] = "none" /\ sender[s] = Off
        /\ \A o \in Senders : sender[o].notice # b
    BY <1>2 DEF CreateBroadcast
  <2> HIDE DEF d
  <2>3. sender[s].notice = Unset /\ d.pc # "ack" /\ notice'[b] # "sending"
    BY <2>1, <2>2, OffIsTyped
  <2>4. queued \subseteq queued' \cup {b} /\ \A c \in Notices \ {b} : notice'[c] = notice[c]
    BY <2>2
  <2> QED BY <1>1, <2>1, <2>2, <2>3, <2>4
<1>3. ASSUME NEW s \in Senders, StoreBroadcast(s) PROVE HandsInv'
  <2> DEFINE n == sender[s].notice
             d == [sender[s] EXCEPT !.pc = "enqueue"]
             v == IF sender[s].timed THEN "scheduled" ELSE "draft"
  <2>1. d \in Sender /\ d.pc = "enqueue" /\ n \in Notices
    BY <1>0, <1>3, <1>c DEF Sender, StoreBroadcast
  <2>2. Turn(s, d) /\ queued' = queued /\ notice' = [notice EXCEPT ![n] = v] /\ v # "sending"
    BY <1>3 DEF StoreBroadcast
  <2> HIDE DEF d, v
  <2>3. notice'[n] # "sending" /\ \A c \in Notices \ {n} : notice'[c] = notice[c]
    BY <1>0, <2>1, <2>2
  <2>4. \A o \in Senders \ {s} : sender[o].notice # n
    BY <1>b, <2>1
  <2> QED BY <1>1, <2>1, <2>2, <2>3, <2>4
<1>4. ASSUME NEW s \in Senders, EnqueueBroadcast(s) PROVE HandsInv'
  <2> DEFINE n == sender[s].notice
  <2>1. Turn(s, Off) /\ notice' = notice /\ queued' = queued \cup {n} /\ n \in Notices
    BY <1>4, <1>c DEF EnqueueBroadcast
  <2>2. \A o \in Senders \ {s} : sender[o].notice # n
    BY <1>b, <2>1
  <2> QED BY <1>1, <2>1, <2>2, OffIsTyped
<1>5. ASSUME NEW s \in Senders, NEW b \in Notices, TakeJob(s, b) PROVE HandsInv'
  <2> DEFINE d == [Off EXCEPT !.pc = "begin", !.notice = b]
  <2>1. d \in Sender /\ d.pc = "begin" /\ d.notice = b
    BY OffIsTyped DEF Sender
  <2>2. Turn(s, d) /\ notice' = notice /\ sender[s].notice = Unset /\ b \in queued
        /\ queued' = queued \ {b}
    BY <1>5, OffIsTyped DEF TakeJob, Taken
  <2>3. \A o \in Senders \ {s} : sender[o].notice # b
    BY <2>2 DEF TypeInv, OnePlaceInv
  <2> HIDE DEF d
  <2> QED BY <1>1, <2>1, <2>2, <2>3
<1>6. ASSUME NEW s \in Senders, NEW d \in Sender, Turn(s, d), queued' = queued,
             d.notice = sender[s].notice, sender[s].pc # "idle",
             d.pc \in {"audience", "send", "finish", "ack"},
             \A c \in Notices \ {d.notice} : notice'[c] = notice[c],
             d.pc = "ack" => notice'[d.notice] # "sending"
      PROVE  HandsInv'
  <2>1. d.notice \in Notices
    BY <1>6, <1>c
  <2>2. \A o \in Senders \ {s} : sender[o].notice # d.notice
    BY <1>6, <1>b, <2>1
  <2> QED BY <1>1, <1>6, <2>1, <2>2
<1>7. ASSUME NEW s \in Senders, BeginSending(s) PROVE HandsInv'
  <2> DEFINE d == [sender[s] EXCEPT !.pc = "audience"]
  <2>1. d \in Sender /\ d.pc = "audience" /\ d.notice = sender[s].notice
    BY <1>0 DEF Sender
  <2>2. Turn(s, d) /\ queued' = queued /\ sender[s].pc = "begin"
        /\ notice' = [notice EXCEPT ![sender[s].notice] = "sending"]
    BY <1>7, <1>a DEF BeginSending
  <2> HIDE DEF d
  <2>3. \A c \in Notices \ {d.notice} : notice'[c] = notice[c]
    BY <1>0, <2>1, <2>2
  <2> QED BY <1>6, <2>1, <2>2, <2>3
<1>8. ASSUME NEW s \in Senders, ReadAudience(s) PROVE HandsInv'
  <2> DEFINE d == [sender[s] EXCEPT !.pc = "send", !.left = clients]
  <2>1. d \in Sender /\ d.pc = "send" /\ d.notice = sender[s].notice
    BY <1>0 DEF Sender, TypeInv, BroadcastsTypeOK
  <2>2. Turn(s, d) /\ UNCHANGED <<notice, queued>> /\ sender[s].pc = "audience"
    BY <1>8 DEF ReadAudience
  <2> HIDE DEF d
  <2> QED BY <1>6, <2>1, <2>2
<1>9. ASSUME NEW s \in Senders, NEW u \in Recipients, NEW handed \in BOOLEAN, SendOne(s, u, handed)
      PROVE  HandsInv'
  <2> DEFINE c == Counted(sender[s], handed)
             d == [sender[s] EXCEPT !.left = sender[s].left \ {u}, !.sent = c]
  <2>1. c \in Nat
    BY <1>0 DEF Counted, Sender
  <2>2. Turn(s, d) /\ UNCHANGED <<notice, queued>> /\ sender[s].pc = "send"
    BY <1>9 DEF SendOne
  <2> HIDE DEF c
  <2>3. d \in Sender /\ d.pc = sender[s].pc /\ d.notice = sender[s].notice
    BY <1>0, <2>1 DEF Sender
  <2> HIDE DEF d
  <2> QED BY <1>6, <2>2, <2>3
<1>10. ASSUME NEW s \in Senders, EndLoop(s) PROVE HandsInv'
  <2> DEFINE d == [sender[s] EXCEPT !.pc = "finish"]
  <2>1. d \in Sender /\ d.pc = "finish" /\ d.notice = sender[s].notice
    BY <1>0 DEF Sender
  <2>2. Turn(s, d) /\ UNCHANGED <<notice, queued>> /\ sender[s].pc = "send"
    BY <1>10 DEF EndLoop
  <2> HIDE DEF d
  <2> QED BY <1>6, <2>1, <2>2
<1>11. ASSUME NEW s \in Senders, FinishSending(s) PROVE HandsInv'
  <2> DEFINE d == [sender[s] EXCEPT !.pc = "ack"]
             v == Verdict(sender[s])
  <2>1. d \in Sender /\ d.pc = "ack" /\ d.notice = sender[s].notice
    BY <1>0 DEF Sender
  <2>2. Turn(s, d) /\ queued' = queued /\ sender[s].pc = "finish"
        /\ notice' = [notice EXCEPT ![sender[s].notice] = v]
    BY <1>11 DEF FinishSending
  <2>3. v # "sending"
    BY DEF Verdict
  <2> HIDE DEF d, v
  <2>4. notice'[d.notice] # "sending" /\ \A c \in Notices \ {d.notice} : notice'[c] = notice[c]
    BY <1>0, <1>c, <2>1, <2>2, <2>3
  <2> QED BY <1>6, <2>1, <2>2, <2>4
<1>12. ASSUME NEW s \in Senders, Acknowledge(s) PROVE HandsInv'
  <2> DEFINE n == sender[s].notice
  <2>1. Turn(s, Off) /\ UNCHANGED <<notice, queued>> /\ n \in Notices /\ notice[n] # "sending"
    BY <1>12, <1>c DEF Acknowledge, HandsInv
  <2>2. \A o \in Senders \ {s} : sender[o].notice # n
    BY <1>b, <2>1
  <2> QED BY <1>1, <2>1, <2>2, OffIsTyped
<1>13. ASSUME NEW s \in Senders, LoseSender(s) PROVE HandsInv'
  <2> DEFINE n == sender[s].notice
  <2>1. Turn(s, Off) /\ notice' = notice /\ queued' = IF InJob(s) THEN queued \cup {n} ELSE queued
    BY <1>13 DEF LoseSender, Requeued
  <2>2. n \in Notices \cup {Unset} /\ (n = Unset <=> sender[s].pc = "idle")
    BY BroadcastsAssumption DEF TypeInv, OnePlaceInv
  <2>3. \A o \in Senders \ {s} : sender[o].notice = n => n = Unset
    BY <2>2 DEF TypeInv, OnePlaceInv
  <2>4. n \in Notices /\ notice'[n] = "sending" => n \in queued'
    <3>1. n \in Notices /\ notice[n] = "sending" => n \in queued \/ InJob(s)
      BY <2>3, BroadcastsAssumption DEF HandsInv, NoneAbandoned, InJob
    <3> QED BY <2>1, <3>1
  <2>5. queued \subseteq queued'
    BY <2>1
  <2> HIDE DEF n
  <2> QED BY <1>1, <2>1, <2>2, <2>3, <2>4, <2>5, OffIsTyped DEF n
<1>14. ASSUME NEW u \in Recipients, SignUpClient(u) PROVE HandsInv'
  BY <1>14 DEF SignUpClient, HandsInv, NoneAbandoned, InJob
<1>15. CASE UNCHANGED broadcastVars
  BY <1>15 DEF broadcastVars, HandsInv, NoneAbandoned, InJob
<1> QED
  BY <1>2, <1>3, <1>4, <1>5, <1>7, <1>8, <1>9, <1>10, <1>11, <1>12, <1>13, <1>14, <1>15
  DEF BroadcastsNext, Work

\* If every process that takes jobs has a database, a broadcast that is being sent is in
\* the queue or in the hands of a worker, whoever dies.
THEOREM NothingIsAbandoned == BroadcastsSpec /\ Equipped = Senders => []NoneAbandoned
<1>1. HandsInv => NoneAbandoned
  BY DEF HandsInv
<1> QED BY <1>1, TypeInit, TypeStep, HandsInit, HandsStep, PTL DEF BroadcastsSpec

\* Copies, reach and status agree, for any number of broadcasts, recipients and workers.
THEOREM BroadcastsAlwaysHold == BroadcastsSpec => []BroadcastsHold
<1>1. CASE Equipped = Senders
  <2>1. BroadcastsTypeOK /\ OneCopyPerRun /\ ReachIsTrue /\ NoneAbandoned => BroadcastsHold
    BY DEF BroadcastsHold
  <2>2. BroadcastsSpec => []NoneAbandoned
    BY <1>1, NothingIsAbandoned, PTL
  <2> QED BY <2>1, <2>2, BroadcastsTypeCorrect, CopiesAreCounted, ReachIsHonest, PTL
<1>2. CASE Equipped # Senders
  <2>1. BroadcastsTypeOK /\ OneCopyPerRun /\ ReachIsTrue => BroadcastsHold
    BY <1>2 DEF BroadcastsHold
  <2> QED BY <2>1, BroadcastsTypeCorrect, CopiesAreCounted, ReachIsHonest, PTL
<1> QED BY <1>1, <1>2
=============================================================================
