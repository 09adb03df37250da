----------------------------- MODULE CaseworkProofs -----------------------------
(***************************************************************************)
(* Proofs about what goes on around a case: its messages, its escalations, *)
(* the service it belongs to, and its deadline with the reports about it.  *)
(* The four parts share nothing, and are proved one after the other.       *)
(***************************************************************************)
EXTENDS Messages, Oversight, Catalogue, Deadlines, FiniteSetTheorems, TLAPS

(***************************************************************************)
(* What a session is about to write or to announce is as it was posted,    *)
(* and no two sessions post the same message.                              *)
(***************************************************************************)
Drafts == {SystemMessage, ClientMessage} \cup {AgentMessage(i) : i \in BOOLEAN}

ForEyes(m) == m \in Posted /\ ~message[m].internal
FromAgent(m) == ForEyes(m) /\ message[m].role = "staff:agent" /\ ~message[m].system

DeskInv ==
    /\ \A s \in Desks :
         LET d == desk[s]
         IN  /\ d.pc \in {"write", "mail"} => d.msg \in Msgs /\ d.row \in Drafts
             /\ d.pc \notin {"write", "mail"} => d.msg = Nobody
             /\ d.pc = "write" => message[d.msg] = NoMessage
             /\ d.pc = "mail" => /\ message[d.msg] # NoMessage
                                 /\ message[d.msg].role = d.row.role
                                 /\ message[d.msg].internal = d.row.internal
             /\ \A m \in d.marks : FromAgent(m)
    /\ \A s, t \in Desks : s # t /\ desk[s].msg # Nobody => desk[s].msg # desk[t].msg

(***************************************************************************)
(* Rows are posted with their flags in order, and the client is shown and  *)
(* mailed only what is meant for him.                                      *)
(***************************************************************************)
RowInv ==
    /\ \A m \in Posted : /\ message[m].system => message[m].role = "system"
                         /\ message[m].internal => ~message[m].read
    /\ \A m \in listed \cup announced : ForEyes(m)

(***************************************************************************)
(* Messages that no e-mail has announced yet, and none is about to.        *)
(***************************************************************************)
Waiting == {m \in Msgs : \E s \in Desks : desk[s].msg = m /\ desk[s].pc = "mail"}
Untold == {m \in Msgs : FromAgent(m)} \ (announced \cup Waiting)

UntoldInv == ClientHasEmail => Cardinality(Untold) <= hangups

-----------------------------------------------------------------------------
(* Messages: types *)

LEMMA DraftFacts ==
    ASSUME NEW r \in Drafts
    PROVE  /\ r \in Message /\ r # NoMessage
           /\ r.role # "system" => ~r.system
           /\ r.internal => ~r.read
<1>1. CASE r \in {SystemMessage, ClientMessage}
  <2>1. /\ SystemMessage \in Message /\ ClientMessage \in Message
        /\ SystemMessage.role # "none" /\ ClientMessage.role # "none" /\ NoMessage.role = "none"
    BY DEF SystemMessage, ClientMessage, Message, NoMessage, Roles
  <2>2. r.internal = FALSE /\ (r.role # "system" => r.system = FALSE)
    BY <1>1 DEF SystemMessage, ClientMessage
  <2>3. QED BY <1>1, <2>1, <2>2
<1>2. ASSUME NEW i \in BOOLEAN, r = AgentMessage(i)
      PROVE  r \in Message /\ r # NoMessage /\ r.system = FALSE /\ r.read = FALSE
  BY <1>2 DEF AgentMessage, Message, NoMessage, Roles
<1>3. CASE r \in {AgentMessage(i) : i \in BOOLEAN}
  BY <1>2, <1>3
<1>4. QED BY <1>1, <1>3 DEF Drafts

LEMMA VacantFacts ==
    /\ Vacant \in Desk /\ Vacant.pc = "idle" /\ Vacant.msg = Nobody
    /\ Vacant.marks = {}
BY DEF Vacant, Desk

\* No row is what an unwritten message has.
LEMMA BlankFacts == NoMessage \notin Message /\ ~NoMessage.system /\ ~NoMessage.internal
                    /\ NoMessage.role = "none"
BY DEF NoMessage, Message, Roles

Beside(s) == desk' \in [Desks -> Desk] /\ \A o \in Desks \ {s} : desk'[o] = desk[o]

LEMMA PostStep ==
    ASSUME MessagesTypeOK, NEW s \in Desks, NEW m \in Msgs, NEW row \in Drafts, Post(s, m, row)
    PROVE  /\ Beside(s) /\ desk[s].pc = "idle"
           /\ desk'[s].pc = "write" /\ desk'[s].msg = m /\ desk'[s].row = row /\ desk'[s].marks = {}
           /\ message[m] = NoMessage /\ \A o \in Desks : desk[o].msg # m
           /\ UNCHANGED <<message, agent, announced, notified, listed, hangups>>
<1> DEFINE d == [Vacant EXCEPT !.pc = "write", !.msg = m, !.row = row, !.agent = agent]
<1>1. d \in Desk
  BY DraftFacts, VacantFacts DEF MessagesTypeOK, Desk
<1>2. d.pc = "write" /\ d.msg = m /\ d.row = row /\ d.marks = {}
  BY DEF Vacant
<1>3. desk' = [desk EXCEPT ![s] = d]
  BY DEF Post
<1> HIDE DEF d
<1>4. desk'[s] = d /\ Beside(s)
  BY <1>1, <1>3 DEF MessagesTypeOK, Beside
<1>5. QED BY <1>2, <1>4, VacantFacts DEF Post

LEMMA WriteStep ==
    ASSUME MessagesTypeOK, DeskInv, NEW s \in Desks, WriteMessage(s)
    PROVE  /\ Beside(s) /\ desk[s].pc = "write" /\ desk[s].msg \in Msgs /\ desk[s].row \in Drafts
           /\ message[desk[s].msg] = NoMessage
           /\ message' = [message EXCEPT ![desk[s].msg] = desk[s].row]
           /\ desk'[s].marks \subseteq desk[s].marks
           /\ \/ /\ desk[s].row.role = "system"
                 /\ desk'[s].pc = "idle" /\ desk'[s].msg = Nobody
              \/ /\ desk[s].row.role # "system"
                 /\ desk'[s].pc = "mail" /\ desk'[s].msg = desk[s].msg /\ desk'[s].row = desk[s].row
           /\ UNCHANGED <<agent, announced, notified, listed, hangups>>
<1> DEFINE d == [desk[s] EXCEPT !.pc = "mail"]
           n == IF desk[s].row.role = "system" THEN Vacant ELSE d
<1>1. desk[s] \in Desk
  BY DEF MessagesTypeOK
<1>2. d \in Desk /\ d.pc = "mail" /\ d.msg = desk[s].msg /\ d.row = desk[s].row
      /\ d.marks = desk[s].marks
  BY <1>1 DEF Desk
<1>3. desk' = [desk EXCEPT ![s] = n]
  BY DEF WriteMessage
<1> HIDE DEF d
<1>4. n \in Desk
  BY <1>2, VacantFacts
<1>5. desk'[s] = n /\ Beside(s)
  BY <1>3, <1>4 DEF MessagesTypeOK, Beside
<1>6. QED BY <1>2, <1>5, VacantFacts DEF WriteMessage, DeskInv

\* The session is done, and forgets what it had.
Done(s) == Beside(s) /\ desk'[s] = Vacant

LEMMA DoneStep ==
    ASSUME MessagesTypeOK, NEW s \in Desks, desk' = [desk EXCEPT ![s] = Vacant]
    PROVE  Done(s)
BY VacantFacts DEF MessagesTypeOK, Done, Beside

LEMMA MarkStep ==
    ASSUME MessagesTypeOK, NEW s \in Desks, MarkRead(s)
    PROVE  /\ Beside(s) /\ desk[s].pc = "idle"
           /\ desk'[s].pc = "commit" /\ desk'[s].msg = Nobody
           /\ desk'[s].marks = {m \in Posted : Markable(m)}
           /\ UNCHANGED <<message, agent, announced, notified, listed, hangups>>
<1> DEFINE marks == {m \in Posted : Markable(m)}
           d == [Vacant EXCEPT !.pc = "commit", !.marks = marks]
<1>0. marks \in SUBSET Msgs
  BY DEF Posted
<1>1. desk' = [desk EXCEPT ![s] = d]
  BY DEF MarkRead
<1> HIDE DEF marks
<1>2. d \in Desk /\ d.pc = "commit" /\ d.msg = Nobody /\ d.marks = marks
  BY <1>0 DEF Vacant, Desk
<1> HIDE DEF d
<1>3. desk'[s] = d /\ Beside(s)
  BY <1>1, <1>2 DEF MessagesTypeOK, Beside
<1>4. QED BY <1>2, <1>3, VacantFacts DEF MarkRead, marks

\* What the marks do to the rows: they are read, and else the same.
LEMMA CommitMarksStep ==
    ASSUME MessagesTypeOK, DeskInv, NEW s \in Desks, CommitMarks(s)
    PROVE  /\ Done(s) /\ desk[s].msg = Nobody
           /\ message' \in [Msgs -> Message \cup {NoMessage}]
           /\ \A m \in Msgs :
                /\ message'[m] # NoMessage <=> message[m] # NoMessage
                /\ message'[m].role = message[m].role
                /\ message'[m].internal = message[m].internal
                /\ message'[m].system = message[m].system
                /\ message'[m].read # message[m].read => FromAgent(m)
           /\ UNCHANGED <<agent, announced, notified, listed, hangups>>
<1>1. \A m \in desk[s].marks : FromAgent(m)
  BY DEF DeskInv
<1>2. Done(s)
  BY DoneStep DEF CommitMarks
<1>3. ASSUME NEW m \in Msgs
      PROVE  /\ message'[m] \in Message \cup {NoMessage}
             /\ message'[m] # NoMessage <=> message[m] # NoMessage
             /\ message'[m].role = message[m].role
             /\ message'[m].internal = message[m].internal
             /\ message'[m].system = message[m].system
             /\ message'[m].read # message[m].read => FromAgent(m)
  <2>1. CASE m \in desk[s].marks
    <3> DEFINE r == [message[m] EXCEPT !.read = TRUE]
    <3>1. message[m] \in Message /\ FromAgent(m)
      BY <1>1, <2>1 DEF MessagesTypeOK, FromAgent, ForEyes, Posted
    <3>2. r \in Message /\ r.role = message[m].role /\ r.internal = message[m].internal
          /\ r.system = message[m].system
      BY <3>1 DEF Message
    <3>3. message'[m] = r
      BY <2>1 DEF CommitMarks
    <3> HIDE DEF r
    <3>4. QED BY <3>1, <3>2, <3>3, BlankFacts
  <2>2. CASE m \notin desk[s].marks
    BY <2>2 DEF CommitMarks, MessagesTypeOK
  <2>3. QED BY <2>1, <2>2
<1>4. message' \in [Msgs -> Message \cup {NoMessage}]
  BY <1>3 DEF CommitMarks
<1>5. desk[s].msg = Nobody
  BY DEF DeskInv, CommitMarks
<1>6. QED BY <1>2, <1>3, <1>4, <1>5 DEF CommitMarks

\* What a session or the client may do, each way once.
LEMMA MessagesCases ==
    ASSUME MessagesNext, NEW P,
           \A s \in Desks, m \in Msgs, row \in Drafts : Post(s, m, row) => P,
           \A s \in Desks : WriteMessage(s) \/ Announce(s) \/ MarkRead(s) \/ CommitMarks(s)
                                \/ HangUp(s) => P,
           ListClientMessages => P,
           \A a \in Writers : Reassign(a) => P
    PROVE  P
<1>1. SystemMessage \in Drafts /\ ClientMessage \in Drafts /\ \A i \in BOOLEAN : AgentMessage(i) \in Drafts
  BY DEF Drafts
<1>2. QED BY <1>1 DEF MessagesNext

LEMMA MessagesTypes ==
    ASSUME MessagesTypeOK, DeskInv, [MessagesNext]_messageVars
    PROVE  MessagesTypeOK'
<1> USE DEF MessagesTypeOK
<1>1. ASSUME NEW s \in Desks, NEW m \in Msgs, NEW row \in Drafts, Post(s, m, row)
      PROVE  MessagesTypeOK'
  BY <1>1, PostStep DEF Beside
<1>2. ASSUME NEW s \in Desks, WriteMessage(s) PROVE MessagesTypeOK'
  BY <1>2, WriteStep, DraftFacts DEF Beside
<1>3. ASSUME NEW s \in Desks, Announce(s) PROVE MessagesTypeOK'
  <2>1. desk[s].msg \in Msgs /\ desk[s] \in Desk
    BY <1>3 DEF DeskInv, Announce
  <2>2. desk[s].agent # Nobody => desk[s].agent \in Writers
    BY <2>1 DEF Desk
  <2>3. Done(s)
    BY <1>3, DoneStep DEF Announce
  <2>4. announced' \subseteq Msgs /\ notified' \subseteq Msgs \X Writers
    BY <1>3, <2>1, <2>2 DEF Announce
  <2>5. QED BY <1>3, <2>3, <2>4 DEF Announce, Done, Beside
<1>4. ASSUME NEW s \in Desks, MarkRead(s) PROVE MessagesTypeOK'
  BY <1>4, MarkStep DEF Beside
<1>5. ASSUME NEW s \in Desks, CommitMarks(s) PROVE MessagesTypeOK'
  BY <1>5, CommitMarksStep DEF Done, Beside
<1>6. ASSUME NEW s \in Desks, HangUp(s) PROVE MessagesTypeOK'
  <2>1. Done(s)
    BY <1>6, DoneStep DEF HangUp
  <2>2. QED BY <1>6, <2>1 DEF HangUp, Done, Beside
<1>7. ASSUME ListClientMessages PROVE MessagesTypeOK'
  BY <1>7 DEF ListClientMessages, ForClient, Posted
<1>8. ASSUME NEW a \in Writers, Reassign(a) PROVE MessagesTypeOK'
  BY <1>8 DEF Reassign
<1>9. CASE UNCHANGED messageVars
  BY <1>9 DEF messageVars
<1>10. CASE MessagesNext
  BY <1>1, <1>2, <1>3, <1>4, <1>5, <1>6, <1>7, <1>8, <1>10, MessagesCases
<1>11. QED BY <1>9, <1>10
-----------------------------------------------------------------------------
(* Messages: the rows, and the desks over them *)

\* A row that is there stays, as it was posted but for the mark of having been read.
Kept(m) ==
    /\ message'[m] # NoMessage
    /\ message'[m].role = message[m].role
    /\ message'[m].internal = message[m].internal
    /\ message'[m].system = message[m].system
    /\ message'[m].read # message[m].read => FromAgent(m)

LEMMA RowIsKept ==
    ASSUME MessagesTypeOK, DeskInv, [MessagesNext]_messageVars, NEW m \in Posted
    PROVE  Kept(m)
<1> USE DEF Kept
<1>2. m \in Msgs /\ message[m] # NoMessage
  BY DEF Posted
<1>3. ASSUME message' = message PROVE Kept(m)
  BY <1>2, <1>3
<1>4. ASSUME NEW s \in Desks, NEW n \in Msgs, NEW row \in Drafts, Post(s, n, row) PROVE Kept(m)
  BY <1>3, <1>4 DEF Post
<1>5. ASSUME NEW s \in Desks, WriteMessage(s) PROVE Kept(m)
  <2>1. message'[m] = message[m]
    BY <1>2, <1>5, WriteStep DEF MessagesTypeOK
  <2>2. QED BY <1>2, <2>1
<1>6. ASSUME NEW s \in Desks, Announce(s) \/ MarkRead(s) \/ HangUp(s) PROVE Kept(m)
  BY <1>3, <1>6 DEF Announce, MarkRead, HangUp
<1>7. ASSUME NEW s \in Desks, CommitMarks(s) PROVE Kept(m)
  BY <1>2, <1>7, CommitMarksStep
<1>8. ASSUME ListClientMessages \/ (\E a \in Writers : Reassign(a)) PROVE Kept(m)
  BY <1>3, <1>8 DEF ListClientMessages, Reassign
<1>9. CASE UNCHANGED messageVars
  BY <1>3, <1>9 DEF messageVars
<1>10. CASE MessagesNext
  BY <1>4, <1>5, <1>6, <1>7, <1>8, <1>10, MessagesCases
<1>11. QED BY <1>9, <1>10

LEMMA RowsAreKept ==
    ASSUME MessagesTypeOK, DeskInv, [MessagesNext]_messageVars
    PROVE  \A m \in Posted : Kept(m) /\ m \in Posted' /\ (FromAgent(m) => FromAgent(m)')
BY RowIsKept DEF Kept, FromAgent, ForEyes, Posted

\* A desk that did not step is as it should be if its row did not change under it.
DeskHolds(s) ==
    LET d == desk[s]
    IN  /\ d.pc \in {"write", "mail"} => d.msg \in Msgs /\ d.row \in Drafts
        /\ d.pc \notin {"write", "mail"} => d.msg = Nobody
        /\ d.pc = "write" => message[d.msg] = NoMessage
        /\ d.pc = "mail" => /\ message[d.msg] # NoMessage
                            /\ message[d.msg].role = d.row.role
                            /\ message[d.msg].internal = d.row.internal
        /\ \A m \in d.marks : FromAgent(m)
        /\ \A t \in Desks : s # t /\ d.msg # Nobody => d.msg # desk[t].msg

LEMMA DeskInvIs == DeskInv <=> \A s \in Desks : DeskHolds(s)
BY DEF DeskInv, DeskHolds

LEMMA DeskAside ==
    ASSUME MessagesTypeOK, DeskInv, [MessagesNext]_messageVars, NEW o \in Desks, desk'[o] = desk[o],
           desk[o].pc = "write" => message'[desk[o].msg] = NoMessage,
           desk[o].msg # Nobody => \A t \in Desks : t # o => desk'[t].msg # desk[o].msg
    PROVE  DeskHolds(o)'
<1>1. DeskHolds(o)
  BY DeskInvIs
<1>2. \A m \in desk[o].marks : FromAgent(m)'
  BY <1>1, RowsAreKept DEF DeskHolds, FromAgent, ForEyes
<1>3. desk[o].pc = "mail" => desk[o].msg \in Posted /\ Kept(desk[o].msg)
  BY <1>1, RowsAreKept DEF DeskHolds, Posted
<1>4. QED BY <1>1, <1>2, <1>3 DEF DeskHolds, Kept

\* A desk that has nothing left needs nothing.
LEMMA DeskDone ==
    ASSUME MessagesTypeOK, DeskInv, [MessagesNext]_messageVars, NEW s \in Desks, Done(s),
           \A o \in Desks \ {s} : desk[o].pc = "write" => message'[desk[o].msg] = NoMessage
    PROVE  DeskInv'
<1>1. DeskHolds(s)'
  BY VacantFacts DEF Done, DeskHolds
<1>2. ASSUME NEW o \in Desks \ {s} PROVE DeskHolds(o)'
  <2>1. desk'[o] = desk[o] /\ DeskHolds(o)
    BY DeskInvIs DEF Done, Beside
  <2>2. \A t \in Desks : desk'[t].msg \in {desk[t].msg, Nobody}
    BY VacantFacts DEF Done, Beside
  <2>3. QED BY <2>1, <2>2, DeskAside DEF DeskHolds
<1>3. \A o \in Desks : DeskHolds(o)'
  BY <1>1, <1>2
<1>4. QED BY <1>3 DEF DeskInv, DeskHolds

LEMMA DesksKeep ==
    ASSUME MessagesTypeOK, DeskInv, [MessagesNext]_messageVars
    PROVE  DeskInv'
<1>0. ASSUME \A o \in Desks : DeskHolds(o)' PROVE DeskInv'
  BY <1>0 DEF DeskInv, DeskHolds
<1>1. ASSUME NEW s \in Desks, NEW m \in Msgs, NEW row \in Drafts, Post(s, m, row)
      PROVE  DeskInv'
  <2>1. Nobody \notin Msgs
    BY MessagesAssumption
  <2>2. DeskHolds(s)'
    BY <1>1, <2>1, PostStep DEF DeskHolds, Beside
  <2>3. ASSUME NEW o \in Desks \ {s} PROVE DeskHolds(o)'
    <3>1. desk'[o] = desk[o] /\ DeskHolds(o) /\ message' = message /\ desk[o].msg # m
      BY <1>1, PostStep, DeskInvIs DEF Beside
    <3>2. \A t \in Desks : t # o => desk'[t].msg \in {desk[t].msg, m}
      BY <1>1, PostStep DEF Beside
    <3>3. QED BY <3>1, <3>2, DeskAside DEF DeskHolds
  <2>4. QED BY <1>0, <2>2, <2>3
<1>2. ASSUME NEW s \in Desks, WriteMessage(s) PROVE DeskInv'
  <2>0. DeskHolds(s) /\ desk[s].msg # Nobody
    BY <1>2, DeskInvIs, WriteStep, MessagesAssumption
  <2>1. \A t \in Desks : desk'[t].msg \in {desk[t].msg, Nobody}
    BY <1>2, WriteStep DEF Beside
  <2>2. ASSUME NEW o \in Desks \ {s} PROVE DeskHolds(o)'
    <3>1. desk'[o] = desk[o] /\ DeskHolds(o)
      BY <1>2, WriteStep, DeskInvIs DEF Beside
    <3>2. desk[o].msg # desk[s].msg
      BY <2>0, DeskInvIs DEF DeskHolds
    <3>3. desk[o].pc = "write" => message'[desk[o].msg] = NoMessage
      BY <1>2, <3>1, <3>2, WriteStep DEF DeskHolds, MessagesTypeOK
    <3>4. QED BY <2>1, <3>1, <3>3, DeskAside DEF DeskHolds
  <2>3. desk[s].row \in Message /\ desk[s].row # NoMessage
    BY <1>2, WriteStep, DraftFacts
  <2>4. message'[desk[s].msg] = desk[s].row
    BY <1>2, WriteStep DEF MessagesTypeOK
  <2>5. \A m \in desk'[s].marks : FromAgent(m)'
    BY <1>2, <2>0, WriteStep, RowsAreKept DEF DeskHolds, FromAgent, ForEyes
  <2>6. desk'[s].msg # Nobody => \A t \in Desks : t # s => desk'[t].msg # desk'[s].msg
    BY <1>2, <2>0, <2>1, WriteStep DEF DeskHolds
  <2>7. /\ desk'[s].pc \in {"write", "mail"} => desk'[s].msg \in Msgs /\ desk'[s].row \in Drafts
        /\ desk'[s].pc \notin {"write", "mail"} => desk'[s].msg = Nobody
        /\ desk'[s].pc # "write"
        /\ desk'[s].pc = "mail" => desk'[s].msg = desk[s].msg /\ desk'[s].row = desk[s].row
    BY <1>2, WriteStep
  <2>8. DeskHolds(s)'
    BY <2>3, <2>4, <2>5, <2>6, <2>7 DEF DeskHolds
  <2>9. QED BY <1>0, <2>2, <2>8
<1>3. ASSUME NEW s \in Desks, Announce(s) \/ HangUp(s) PROVE DeskInv'
  <2>1. Done(s) /\ message' = message
    BY <1>3, DoneStep DEF Announce, HangUp
  <2>2. QED BY <2>1, DeskDone DEF DeskInv
<1>4. ASSUME NEW s \in Desks, CommitMarks(s) PROVE DeskInv'
  <2>1. ASSUME NEW o \in Desks \ {s}, desk[o].pc = "write" PROVE message'[desk[o].msg] = NoMessage
    BY <1>4, <2>1, CommitMarksStep DEF DeskInv
  <2>2. QED BY <1>4, <2>1, CommitMarksStep, DeskDone
<1>5. ASSUME NEW s \in Desks, MarkRead(s) PROVE DeskInv'
  <2>1. \A t \in Desks : desk'[t].msg \in {desk[t].msg, Nobody}
    BY <1>5, MarkStep DEF Beside
  <2>2. ASSUME NEW o \in Desks \ {s} PROVE DeskHolds(o)'
    <3>1. desk'[o] = desk[o] /\ DeskHolds(o) /\ message' = message
      BY <1>5, MarkStep, DeskInvIs DEF Beside
    <3>2. QED BY <2>1, <3>1, DeskAside DEF DeskHolds
  <2>3. \A m \in Posted : Markable(m) => FromAgent(m)
    BY DEF Markable, FromAgent, ForEyes
  <2>4. \A m \in desk'[s].marks : FromAgent(m)'
    BY <1>5, <2>3, MarkStep, RowsAreKept
  <2>5. DeskHolds(s)'
    BY <1>5, <2>4, MarkStep DEF DeskHolds
  <2>6. QED BY <1>0, <2>2, <2>5
<1>6. ASSUME UNCHANGED <<message, desk>> PROVE DeskInv'
  BY <1>6 DEF DeskInv, FromAgent, ForEyes, Posted
<1>7. CASE UNCHANGED messageVars
  BY <1>6, <1>7 DEF messageVars
<1>8. CASE MessagesNext
  BY <1>1, <1>2, <1>3, <1>4, <1>5, <1>6, <1>8, MessagesCases DEF ListClientMessages, Reassign
<1>9. QED BY <1>7, <1>8

LEMMA RowsKeep ==
    ASSUME MessagesTypeOK, DeskInv, RowInv, [MessagesNext]_messageVars
    PROVE  RowInv'
<1>1. ASSUME NEW m \in Msgs, message'[m] # NoMessage
      PROVE  /\ message'[m].system => message'[m].role = "system"
             /\ message'[m].internal => ~message'[m].read
  <2>1. CASE m \in Posted
    BY <2>1, RowsAreKept DEF RowInv, Kept, FromAgent, ForEyes
  <2>2. CASE m \notin Posted
    <3>1. PICK s \in Desks : WriteMessage(s) /\ m = desk[s].msg
      <4>1. message[m] = NoMessage
        BY <2>2 DEF Posted
      <4>2. message' # message
        BY <1>1, <4>1
      <4>3. ASSUME NEW s \in Desks, WriteMessage(s) PROVE m = desk[s].msg
        BY <1>1, <4>1, <4>3, WriteStep DEF MessagesTypeOK
      <4>4. ASSUME NEW s \in Desks, CommitMarks(s) PROVE FALSE
        BY <1>1, <4>1, <4>4, CommitMarksStep
      <4>5. MessagesNext
        BY <4>2 DEF messageVars
      <4>6. \E s \in Desks : WriteMessage(s)
        BY <4>2, <4>4, <4>5
           DEF MessagesNext, Post, Announce, MarkRead, HangUp, ListClientMessages, Reassign
      <4>7. QED BY <4>3, <4>6
    <3>2. message'[m] = desk[s].row
      BY <3>1, WriteStep DEF MessagesTypeOK
    <3>3. desk[s].row \in Drafts
      BY <3>1, WriteStep
    <3>4. QED BY <3>2, <3>3, DraftFacts
  <2>3. QED BY <2>1, <2>2
<1>2. ASSUME NEW m \in listed' \cup announced' PROVE ForEyes(m)
  <2>1. CASE m \in listed \cup announced
    BY <2>1 DEF RowInv
  <2>2. CASE m \notin listed \cup announced
    <3>1. ASSUME NEW s \in Desks, Announce(s) PROVE ForEyes(m)
      <4>1. m = desk[s].msg /\ desk[s].row.internal = FALSE
        BY <1>2, <2>2, <3>1, DraftFacts DEF Announce, AnnouncedToClient, DeskInv, Message
      <4>2. QED BY <3>1, <4>1 DEF Announce, DeskInv, ForEyes, Posted
    <3>2. ASSUME ListClientMessages PROVE ForEyes(m)
      BY <1>2, <2>2, <3>2 DEF ListClientMessages, ForClient, ForEyes
    <3>3. CASE MessagesNext
      BY <1>2, <2>2, <3>1, <3>2, <3>3
         DEF MessagesNext, Post, WriteMessage, MarkRead, CommitMarks, HangUp, Reassign
    <3>4. CASE UNCHANGED messageVars
      BY <1>2, <2>2, <3>4 DEF messageVars
    <3>5. QED BY <3>3, <3>4
  <2>3. QED BY <2>1, <2>2
<1>3. \A m : ForEyes(m) => ForEyes(m)'
  BY RowsAreKept DEF ForEyes, Kept, Posted
<1>4. QED BY <1>1, <1>2, <1>3 DEF RowInv, Posted
-----------------------------------------------------------------------------
(* Messages: those nobody will announce *)

LEMMA GrowsByOne ==
    ASSUME NEW S, IsFiniteSet(S), NEW T, NEW x, T \subseteq S \cup {x},
           NEW n \in Nat, Cardinality(S) <= n
    PROVE  IsFiniteSet(T) /\ Cardinality(T) <= n + 1
<1>1. IsFiniteSet(S \cup {x}) /\ Cardinality(S \cup {x}) <= Cardinality(S) + 1
  <2>1. Cardinality(S) \in Nat
    BY FS_CardinalityType
  <2>2. IsFiniteSet(S \cup {x}) /\ Cardinality(S \cup {x}) \in {Cardinality(S), Cardinality(S) + 1}
    BY FS_AddElement
  <2>3. QED BY <2>1, <2>2
<1>2. IsFiniteSet(T) /\ Cardinality(T) <= Cardinality(S \cup {x})
  BY <1>1, FS_Subset
<1>3. Cardinality(S) \in Nat /\ Cardinality(T) \in Nat /\ Cardinality(S \cup {x}) \in Nat
  BY <1>1, <1>2, FS_CardinalityType
<1>4. QED BY <1>1, <1>2, <1>3

LEMMA UntoldIsFinite == IsFiniteSet(Untold) /\ IsFiniteSet(Untold')
<1>1. Untold \subseteq Msgs /\ Untold' \subseteq Msgs
  BY DEF Untold
<1>2. QED BY <1>1, MessagesAssumption, FS_Subset

\* Nothing but a request that dies lets a message go untold.
LEMMA UntoldGrows ==
    ASSUME MessagesTypeOK, DeskInv, RowInv, [MessagesNext]_messageVars, ClientHasEmail
    PROVE  \/ Untold' \subseteq Untold /\ hangups' = hangups
           \/ hangups' = hangups + 1 /\ \E x : Untold' \subseteq Untold \cup {x}
<1>0. \A s \in Desks : DeskHolds(s)
  BY DeskInvIs
\* A message that is new among the untold either just came, or has stopped waiting.
<1>1. ASSUME NEW m \in Untold', m \notin Untold, announced \subseteq announced'
      PROVE  \/ m \notin Posted
             \/ \E s \in Desks : desk[s].msg = m /\ desk[s].pc = "mail"
                                   /\ ~(desk'[s].msg = m /\ desk'[s].pc = "mail")
  <2>1. m \in Msgs /\ FromAgent(m)' /\ m \notin announced' /\ m \notin Waiting'
    BY <1>1 DEF Untold
  <2>2. m \in Posted => FromAgent(m)
    BY <2>1, RowsAreKept DEF FromAgent, ForEyes, Kept
  <2>3. m \in Posted => m \in Waiting
    BY <1>1, <2>1, <2>2 DEF Untold
  <2>4. QED BY <2>1, <2>3 DEF Waiting
<1>2. ASSUME announced \subseteq announced', hangups' = hangups,
             \A m \in Msgs : m \notin Posted => m \notin Posted',
             \A s \in Desks : desk[s].pc = "mail" => desk'[s] = desk[s]
      PROVE  Untold' \subseteq Untold
  BY <1>1, <1>2 DEF Untold, FromAgent, ForEyes
<1>3. ASSUME NEW s \in Desks, NEW m \in Msgs, NEW row \in Drafts, Post(s, m, row)
      PROVE  Untold' \subseteq Untold /\ hangups' = hangups
  <2>1. \A t \in Desks : desk[t].pc = "mail" => desk'[t] = desk[t]
    BY <1>3, PostStep DEF Beside
  <2>2. QED BY <1>2, <1>3, <2>1, PostStep DEF Posted
<1>4. ASSUME NEW s \in Desks, WriteMessage(s)
      PROVE  Untold' \subseteq Untold /\ hangups' = hangups
  <2>1. \A t \in Desks : desk[t].pc = "mail" => desk'[t] = desk[t]
    BY <1>4, WriteStep DEF Beside
  <2>2. announced' = announced /\ hangups' = hangups
    BY <1>4, WriteStep
  <2>3. ASSUME NEW m \in Untold', m \notin Untold PROVE FALSE
    <3>1. m \notin Posted /\ m \in Msgs /\ FromAgent(m)' /\ m \notin Waiting'
      BY <1>1, <2>1, <2>2, <2>3 DEF Untold
    <3>2. m = desk[s].msg /\ message'[m] = desk[s].row
      BY <1>4, <3>1, WriteStep DEF MessagesTypeOK, FromAgent, ForEyes, Posted
    <3>3. desk[s].row.role = "staff:agent"
      BY <3>1, <3>2 DEF FromAgent
    <3>4. desk'[s].pc = "mail" /\ desk'[s].msg = m
      BY <1>4, <3>2, <3>3, WriteStep
    <3>5. QED BY <3>1, <3>4 DEF Waiting
  <2>4. QED BY <2>2, <2>3
<1>5. ASSUME NEW s \in Desks, Announce(s)
      PROVE  Untold' \subseteq Untold /\ hangups' = hangups
  <2>1. Done(s) /\ message' = message /\ hangups' = hangups /\ announced \subseteq announced'
    BY <1>5, DoneStep DEF Announce
  <2>2. ASSUME NEW m \in Untold', m \notin Untold PROVE FALSE
    <3>1. m \in Posted /\ FromAgent(m)' /\ FromAgent(m) /\ m \notin announced'
      BY <2>1, <2>2 DEF Untold, FromAgent, ForEyes, Posted
    <3>2. \A t \in Desks \ {s} : desk'[t] = desk[t]
      BY <2>1 DEF Done, Beside
    <3>3. desk[s].msg = m /\ desk[s].pc = "mail"
      BY <1>1, <2>1, <2>2, <3>1, <3>2
    <3>4. desk[s].row.role = "staff:agent" /\ desk[s].row.internal = message[m].internal
      BY <1>0, <3>1, <3>3 DEF DeskHolds, FromAgent
    <3>5. AnnouncedToClient(desk[s].row)
      BY <3>1, <3>4 DEF AnnouncedToClient, FromAgent, ForEyes
    <3>6. QED BY <1>5, <3>1, <3>3, <3>5 DEF Announce
  <2>3. QED BY <2>1, <2>2
<1>6. ASSUME NEW s \in Desks, MarkRead(s) PROVE Untold' \subseteq Untold /\ hangups' = hangups
  <2>1. \A t \in Desks : desk[t].pc = "mail" => desk'[t] = desk[t]
    BY <1>6, MarkStep DEF Beside
  <2>2. QED BY <1>2, <1>6, <2>1, MarkStep DEF Posted
<1>7. ASSUME NEW s \in Desks, CommitMarks(s) PROVE Untold' \subseteq Untold /\ hangups' = hangups
  <2>1. desk[s].pc = "commit"
    BY <1>7 DEF CommitMarks
  <2>2. \A t \in Desks : desk[t].pc = "mail" => desk'[t] = desk[t]
    BY <1>7, <2>1, CommitMarksStep DEF Done, Beside
  <2>3. QED BY <1>2, <1>7, <2>2, CommitMarksStep DEF Posted
<1>8. ASSUME NEW s \in Desks, HangUp(s)
      PROVE  hangups' = hangups + 1 /\ Untold' \subseteq Untold \cup {desk[s].msg}
  <2>1. Done(s) /\ message' = message /\ hangups' = hangups + 1 /\ announced' = announced
    BY <1>8, DoneStep DEF HangUp
  <2>2. ASSUME NEW m \in Untold', m \notin Untold PROVE m = desk[s].msg
    <3>1. m \in Posted
      BY <2>1, <2>2 DEF Untold, FromAgent, ForEyes, Posted
    <3>2. \A t \in Desks \ {s} : desk'[t] = desk[t]
      BY <2>1 DEF Done, Beside
    <3>3. QED BY <1>1, <2>1, <2>2, <3>1, <3>2
  <2>3. QED BY <2>1, <2>2
<1>9. ASSUME UNCHANGED <<message, desk, announced, hangups>>
      PROVE  Untold' \subseteq Untold /\ hangups' = hangups
  BY <1>9 DEF Untold, FromAgent, ForEyes, Posted, Waiting
<1>10. CASE UNCHANGED messageVars
  BY <1>9, <1>10 DEF messageVars
<1>11. CASE MessagesNext
  BY <1>3, <1>4, <1>5, <1>6, <1>7, <1>8, <1>9, <1>11, MessagesCases DEF ListClientMessages, Reassign
<1>12. QED BY <1>10, <1>11

LEMMA UntoldKeeps ==
    ASSUME MessagesTypeOK, DeskInv, RowInv, UntoldInv, [MessagesNext]_messageVars
    PROVE  UntoldInv'
<1> SUFFICES ASSUME ClientHasEmail PROVE Cardinality(Untold') <= hangups'
  BY DEF UntoldInv
<1>1. Cardinality(Untold) <= hangups /\ hangups \in Nat
  BY DEF UntoldInv, MessagesTypeOK
<1>2. Cardinality(Untold) \in Nat /\ Cardinality(Untold') \in Nat
  BY UntoldIsFinite, FS_CardinalityType
<1>3. CASE Untold' \subseteq Untold /\ hangups' = hangups
  <2>1. Cardinality(Untold') <= Cardinality(Untold)
    BY <1>3, UntoldIsFinite, FS_Subset
  <2>2. QED BY <1>1, <1>2, <1>3, <2>1
<1>4. ASSUME NEW x, hangups' = hangups + 1, Untold' \subseteq Untold \cup {x}
      PROVE  Cardinality(Untold') <= hangups'
  <2>1. Cardinality(Untold') <= hangups + 1
    BY <1>1, <1>4, UntoldIsFinite, GrowsByOne
  <2>2. QED BY <1>4, <2>1
<1>5. QED BY <1>3, <1>4, UntoldGrows

MessagesInv == MessagesTypeOK /\ DeskInv /\ RowInv /\ UntoldInv

LEMMA MessagesStart == MessagesInit => MessagesInv
<1> SUFFICES ASSUME MessagesInit PROVE MessagesInv
  OBVIOUS
<1> USE DEF MessagesInit
<1>1. MessagesTypeOK
  BY VacantFacts DEF MessagesTypeOK
<1>2. DeskInv
  BY VacantFacts DEF DeskInv
<1>3. RowInv
  BY DEF RowInv, Posted
<1>4. Untold = {}
  BY DEF Untold, FromAgent, ForEyes, Posted
<1>5. UntoldInv
  BY <1>4, FS_EmptySet DEF UntoldInv
<1>6. QED BY <1>1, <1>2, <1>3, <1>5 DEF MessagesInv

\* What the client has read unseen was told, but for the requests that died.
LEMMA MessagesInvSuffices == MessagesInv => MessagesHold
<1> SUFFICES ASSUME MessagesInv PROVE MessagesHold
  OBVIOUS
<1> USE DEF MessagesInv
<1>1. BadgeClears
  BY DEF RowInv, BadgeClears, Unread, Markable, Posted
<1>2. NotesStayInside
  BY DEF RowInv, NotesStayInside, ForEyes
<1>3. UnseenWereMailed
  <2> DEFINE unseen == {m \in Posted : message[m].role = "staff:agent" /\ message[m].read} \ listed
  <2>1. unseen \ (announced \cup Waiting) \subseteq Untold
    BY DEF RowInv, Untold, FromAgent, ForEyes, Posted
  <2>2. Cardinality(unseen \ (announced \cup Waiting)) <= Cardinality(Untold)
    BY <2>1, UntoldIsFinite, FS_Subset
  <2>3. /\ Cardinality(unseen \ (announced \cup Waiting)) \in Nat
        /\ Cardinality(Untold) \in Nat /\ hangups \in Nat
    BY <2>1, UntoldIsFinite, FS_Subset, FS_CardinalityType DEF MessagesTypeOK
  <2> HIDE DEF unseen
  <2>4. ClientHasEmail => Cardinality(unseen \ (announced \cup Waiting)) <= hangups
    BY <2>2, <2>3 DEF UntoldInv
  <2>5. QED BY <2>4 DEF UnseenWereMailed, unseen, Waiting
<1>4. QED BY <1>1, <1>2, <1>3 DEF MessagesHold

\* What the client has marked as read without having seen it was announced to him by
\* e-mail, but for one message for each request that died; the badge counts nothing
\* that marking cannot clear; and notes of the staff are neither shown nor mailed.
THEOREM MessagesAlwaysHold == MessagesSpec => []MessagesHold
<1>1. MessagesInv /\ [MessagesNext]_messageVars => MessagesInv'
  BY MessagesTypes, DesksKeep, RowsKeep, UntoldKeeps DEF MessagesInv
<1>2. QED BY <1>1, MessagesStart, MessagesInvSuffices, PTL DEF MessagesSpec

-----------------------------------------------------------------------------
(***************************************************************************)
(* Whoever is about to rule has an escalation at hand.                     *)
(***************************************************************************)
RulingsInv == \A s \in Supervisors : ruling[s] # NoRuling => ruling[s].op # "none"
                                                            /\ ruling[s].on \in Escalations

Settled == {e \in Escalations : escalation[e] = "resolved"}

OversightInv == OversightTypeOK /\ RulingsInv /\ Cardinality(Settled) <= resolved

-----------------------------------------------------------------------------
(* Oversight *)

LEMMA SettledIsFinite == IsFiniteSet(Settled) /\ IsFiniteSet(Settled')
<1>1. Settled \subseteq Escalations /\ Settled' \subseteq Escalations
  BY DEF Settled
<1>2. QED BY <1>1, OversightAssumption, FS_Subset

LEMMA NoRulingFacts == NoRuling \in Ruling /\ NoRuling.op = "none"
BY DEF NoRuling, Ruling

LEMMA OversightStart == OversightInit => OversightInv
<1> SUFFICES ASSUME OversightInit PROVE OversightInv
  OBVIOUS
<1>1. OversightTypeOK /\ RulingsInv
  BY NoRulingFacts DEF OversightInit, OversightTypeOK, RulingsInv
<1>2. Settled = {} /\ resolved = 0
  BY DEF OversightInit, Settled
<1>3. QED BY <1>1, <1>2, FS_EmptySet DEF OversightInv

\* A session loads or forgets a ruling, and the rows stand.
LEMMA RulingAside ==
    ASSUME OversightInv, NEW s \in Supervisors, NEW r \in Ruling, ruling' = [ruling EXCEPT ![s] = r],
           r = NoRuling \/ (r.op # "none" /\ r.on \in Escalations),
           raisedAt' \in [Escalations -> Nat], clock' \in Nat, UNCHANGED <<escalation, resolved>>
    PROVE  OversightInv'
<1>1. OversightTypeOK' /\ RulingsInv'
  BY DEF OversightInv, OversightTypeOK, RulingsInv
<1>2. Settled' = Settled
  BY DEF Settled
<1>3. QED BY <1>1, <1>2 DEF OversightInv

LEMMA CommitSettlesOne ==
    ASSUME OversightInv, NEW s \in Supervisors, CommitEscalation(s)
    PROVE  OversightInv'
<1> DEFINE r == ruling[s]
<1>1. r.op \in {"escalate", "resolve"} /\ r.on \in Escalations
  BY DEF OversightInv, OversightTypeOK, RulingsInv, Ruling, CommitEscalation
<1>2. ruling' = [ruling EXCEPT ![s] = NoRuling] /\ UNCHANGED <<raisedAt, clock>>
  BY DEF CommitEscalation
<1>3. /\ r.op = "resolve" => escalation' = [escalation EXCEPT ![r.on] = "resolved"] /\ resolved' = resolved + 1
      /\ r.op = "escalate" => escalation' = [escalation EXCEPT ![r.on] = "escalated"] /\ resolved' = resolved
  BY DEF CommitEscalation, Closed
<1> HIDE DEF r
<1>4. OversightTypeOK'
  BY <1>1, <1>2, <1>3, NoRulingFacts DEF OversightInv, OversightTypeOK
<1>5. RulingsInv'
  BY <1>2 DEF OversightInv, OversightTypeOK, RulingsInv
<1>6. Cardinality(Settled) <= resolved /\ resolved \in Nat
  BY DEF OversightInv, OversightTypeOK
<1>7. Cardinality(Settled') <= resolved'
  <2>1. CASE r.op = "resolve"
    <3>1. Settled' \subseteq Settled \cup {r.on} /\ resolved' = resolved + 1
      BY <1>1, <1>3, <2>1 DEF Settled, OversightInv, OversightTypeOK
    <3>2. QED BY <1>6, <3>1, SettledIsFinite, GrowsByOne
  <2>2. CASE r.op = "escalate"
    <3>1. Settled' \subseteq Settled /\ resolved' = resolved
      BY <1>1, <1>3, <2>2 DEF Settled, OversightInv, OversightTypeOK
    <3>2. Cardinality(Settled') <= Cardinality(Settled)
      BY <3>1, SettledIsFinite, FS_Subset
    <3>3. Cardinality(Settled') \in Nat /\ Cardinality(Settled) \in Nat
      BY SettledIsFinite, FS_CardinalityType
    <3>4. QED BY <1>6, <3>1, <3>2, <3>3
  <2>3. QED BY <1>1, <2>1, <2>2
<1>8. QED BY <1>4, <1>5, <1>7 DEF OversightInv

LEMMA OversightKeeps == OversightInv /\ [OversightNext]_oversightVars => OversightInv'
<1> SUFFICES ASSUME OversightInv, [OversightNext]_oversightVars PROVE OversightInv'
  OBVIOUS
<1>1. ASSUME NEW s \in Supervisors, NEW e \in Escalations, Escalate(s, e) PROVE OversightInv'
  <2> DEFINE r == [op |-> "escalate", on |-> e]
  <2>1. r \in Ruling /\ r.op # "none" /\ r.on \in Escalations
    BY DEF Ruling
  <2>2. ruling' = [ruling EXCEPT ![s] = r] /\ UNCHANGED <<escalation, resolved>>
    BY <1>1 DEF Escalate
  <2>3. raisedAt' \in [Escalations -> Nat] /\ clock' \in Nat
    BY <1>1 DEF Escalate, OversightInv, OversightTypeOK
  <2> HIDE DEF r
  <2>4. QED BY <2>1, <2>2, <2>3, RulingAside
<1>2. ASSUME NEW s \in Supervisors, Resolve(s) PROVE OversightInv'
  <2>1. PICK e \in Escalations : ruling' = [ruling EXCEPT ![s] = [op |-> "resolve", on |-> e]]
    BY <1>2 DEF Resolve
  <2> DEFINE r == [op |-> "resolve", on |-> e]
  <2>2. r \in Ruling /\ r.op # "none" /\ r.on \in Escalations
    BY DEF Ruling
  <2>3. ruling' = [ruling EXCEPT ![s] = r]
    BY <2>1
  <2>4. /\ UNCHANGED <<escalation, resolved>>
        /\ raisedAt' \in [Escalations -> Nat] /\ clock' \in Nat
    BY <1>2 DEF Resolve, OversightInv, OversightTypeOK
  <2> HIDE DEF r
  <2>5. QED BY <2>2, <2>3, <2>4, RulingAside
<1>3. ASSUME NEW s \in Supervisors, Abandon(s) PROVE OversightInv'
  <2>1. /\ ruling' = [ruling EXCEPT ![s] = NoRuling] /\ UNCHANGED <<escalation, resolved>>
        /\ raisedAt' \in [Escalations -> Nat] /\ clock' \in Nat
    BY <1>3 DEF Abandon, OversightInv, OversightTypeOK
  <2>2. QED BY <2>1, NoRulingFacts, RulingAside
<1>4. CASE UNCHANGED oversightVars
  BY <1>4 DEF oversightVars, OversightInv, OversightTypeOK, RulingsInv, Settled
<1>5. CASE OversightNext
  BY <1>1, <1>2, <1>3, <1>5, CommitSettlesOne DEF OversightNext
<1>6. QED BY <1>4, <1>5

\* There are never more escalations that were resolved than resolutions that were
\* committed: none of them closes two, however the sessions overlap.
THEOREM EscalationsAreResolved == OversightSpec => []EachResolved
<1>1. OversightInv => EachResolved
  <2> SUFFICES ASSUME OversightInv PROVE EachResolved
    OBVIOUS
  <2>1. Raised \ Open = Settled
    BY DEF Raised, Open, Settled, OversightInv, OversightTypeOK
  <2>2. QED BY <2>1 DEF OversightInv, EachResolved
<1>2. QED BY <1>1, OversightStart, OversightKeeps, PTL DEF OversightSpec

-----------------------------------------------------------------------------
(***************************************************************************)
(* The tables have their columns, and what a session does fits them: it    *)
(* edits a service that is there, or creates one that is not.              *)
(***************************************************************************)
ShelfInv ==
    /\ price \in [Tiers -> Tier \cup {Absent}]
    /\ rows \in [Kinds -> SUBSET PartRow]
    /\ edit \in [Editors -> Edit]
    /\ last \in [Kinds -> [by : Nat, keys : SUBSET RowKeys]]
    /\ replaced \in Nat
    /\ overlapped \in BOOLEAN

Creates(e) == e.op = "create" /\ e.pc = "commit"

EditInv ==
    /\ \A s \in Editors :
         LET e == edit[s]
         IN  /\ e.op \in {"status", "price", "replace"} => status # Absent
             /\ Creates(e) => status = Absent
             /\ e.op = "status" /\ e.want # Absent => s \in StatusEditors
             /\ e.op = "price" => e.tier \in Tiers /\ e.loaded \in Tier /\ e.offer \in Tier
             /\ e.op = "replace" => e.kind \in Kinds
    /\ \A s, t \in Editors : Creates(edit[s]) /\ Creates(edit[t]) => s = t

(***************************************************************************)
(* Every replacement has a number of its own.                              *)
(***************************************************************************)
NumberInv ==
    /\ \A k \in Kinds : last[k].by <= edits /\ \A r \in rows[k] : r.by <= edits
    /\ \A s \in Replacing :
         LET e == edit[s]
         IN  /\ e.by <= edits
             /\ \A k \in Kinds : last[k].by # e.by /\ \A r \in rows[k] : r.by # e.by
             /\ \A t \in Replacing : edit[t].by = e.by => t = s

(***************************************************************************)
(* Sessions that have inserted their keys share none of them, and none     *)
(* with the rows they will leave.                                          *)
(***************************************************************************)
Inserted == {s \in Replacing : edit[s].pc \in {"bump", "commit"}}

KeyInv ==
    /\ OneRowPerKey
    /\ \A k \in Kinds : {r.key : r \in {q \in rows[k] : q.by = last[k].by}} = last[k].keys
    /\ \A s \in Inserted : ~Clash(edit[s])
    /\ \A s, t \in Inserted :
         s # t /\ edit[s].kind = edit[t].kind => edit[s].keys \cap edit[t].keys = {}

(***************************************************************************)
(* As long as replacements come one after the other, each finds what the   *)
(* last one left, and counts on from its version.                          *)
(***************************************************************************)
Undisturbed(e) ==
    /\ e.version = version
    /\ e.pc # "delete" => e.gone = rows[e.kind]

QuietInv ==
    /\ status = Absent => replaced = 0
    /\ ~overlapped => /\ \A s, t \in Replacing : s = t
                      /\ \A s \in Replacing : Undisturbed(edit[s])
                      /\ \A k \in Kinds : KeysOf(rows[k]) = last[k].keys
                      /\ status # Absent => version = 1 + replaced

(***************************************************************************)
(* Every price that can be taken was offered, and so was every price that  *)
(* has been taken.                                                         *)
(***************************************************************************)
OfferInv ==
    /\ status # Absent => Offers(price) \subseteq offered
    /\ \A b \in Buyers : cart[b].pc # "idle" => status # Absent /\ cart[b].tier \in Tiers
    /\ PricedAsOffered

(***************************************************************************)
(* With one editor of the status, it is what he has loaded.                *)
(***************************************************************************)
OneStatusEditor == \A s, t \in StatusEditors : s = t

FinalInv ==
    \A s \in Editors :
        LET e == edit[s]
        IN  e.op = "status" /\ e.want # Absent
              => e.status = status /\ (e.want = status \/ e.want \in VALID_SERVICE_STATUS_TRANSITIONS[status])

-----------------------------------------------------------------------------
(* Catalogue: what each step does to the session that takes it *)

LEMMA NoEditFacts ==
    /\ NoEdit \in Edit /\ NoEdit.op = "none" /\ NoEdit.pc = "idle"
BY DEF NoEdit, Edit

Solely(s) == edit' \in [Editors -> Edit] /\ \A o \in Editors \ {s} : edit'[o] = edit[o]

LEMMA SetStep ==
    ASSUME ShelfInv, NEW s \in Editors, NEW n \in Edit, Set(s, n)
    PROVE  Solely(s) /\ edit'[s] = n
BY DEF ShelfInv, Set, Solely

\* A session begins: it was idle, and loads.
Begins(s) ==
    /\ Solely(s) /\ edit[s].op = "none"
    /\ UNCHANGED <<shelf, cart, offered, replaced, last>>
    /\ \/ edit'[s].op = "create" /\ edit'[s].pc = "insert" /\ UNCHANGED <<edits, overlapped>>
       \/ /\ edit'[s].op = "status" /\ edit'[s].status = status /\ status # Absent
          /\ edit'[s].want # Absent => s \in StatusEditors /\ Permitted(edit'[s].want)
          /\ UNCHANGED <<edits, overlapped>>
       \/ /\ edit'[s].op = "price" /\ status # Absent
          /\ edit'[s].tier \in Tiers /\ edit'[s].loaded \in Tier /\ edit'[s].offer \in Tier
          /\ UNCHANGED <<edits, overlapped>>
       \/ /\ edit'[s].op = "replace" /\ edit'[s].pc = "delete" /\ status # Absent
          /\ edit'[s].kind \in Kinds /\ edit'[s].version = version /\ edit'[s].by = edits + 1
          /\ edits' = edits + 1 /\ edits < MaxEdits
          /\ overlapped' = (overlapped \/ Replacing # {})

SameEdit(n, e) ==
    /\ n.op = e.op /\ n.status = e.status /\ n.version = e.version
    /\ n.tier = e.tier /\ n.loaded = e.loaded /\ n.want = e.want /\ n.offer = e.offer
    /\ n.kind = e.kind /\ n.keys = e.keys /\ n.by = e.by

\* A session goes on or gives up, and no table changes.
Moves(s) ==
    /\ Solely(s)
    /\ UNCHANGED <<shelf, cart, edits, records>>
    /\ \/ edit'[s] = NoEdit
       \/ /\ SameEdit(edit'[s], edit[s])
          /\ \/ /\ edit[s].op = "create" /\ status = Absent
                /\ \A o \in Editors \ {s} : ~Creates(edit[o])
             \/ edit[s].op \in {"status", "price"}
             \/ /\ edit[s].op = "replace"
                /\ \/ edit'[s].pc = "lock" /\ edit'[s].gone = rows[edit[s].kind]
                   \/ /\ edit[s].pc = "lock" /\ edit'[s].pc = "write"
                      /\ edit'[s].gone = edit[s].gone \cap rows[edit[s].kind]
                   \/ /\ edit[s].pc = "write" /\ edit'[s].pc = "bump"
                      /\ edit'[s].gone = edit[s].gone /\ ~Clash(edit[s])
                      /\ \A o \in Inserted \ {s} : edit[o].kind = edit[s].kind
                                                     => edit[o].keys \cap edit[s].keys = {}
                   \/ /\ edit[s].pc = "bump" /\ edit'[s].pc = "commit"
                      /\ edit'[s].gone = edit[s].gone

CatalogueTypes == CatalogueTypeOK /\ ShelfInv /\ EditInv

LEMMA BeginStep ==
    ASSUME CatalogueTypes, NEW s \in Editors, BeginEdit(s)
    PROVE  Begins(s)
<1> USE DEF CatalogueTypes
<1>0. edit[s] = NoEdit => edit[s].op = "none"
  BY NoEditFacts
<1>1. CASE CreateService(s)
  <2> DEFINE n == [NoEdit EXCEPT !.op = "create", !.pc = "insert"]
  <2>1. n \in Edit /\ n.op = "create" /\ n.pc = "insert"
    BY NoEditFacts DEF Edit
  <2>2. Set(s, n)
    BY <1>1 DEF CreateService
  <2> HIDE DEF n
  <2>3. Solely(s) /\ edit'[s] = n
    BY <2>1, <2>2, SetStep
  <2>4. UNCHANGED <<shelf, cart, edits, records>>
    BY <1>1 DEF CreateService
  <2>5. QED BY <1>0, <1>1, <2>1, <2>3, <2>4 DEF CreateService, Begins, records
<1>2. ASSUME NEW new \in SERVICE_STATUSES \cup {Absent}, LoadStatus(s, new) PROVE Begins(s)
  <2> DEFINE n == [NoEdit EXCEPT !.op = "status", !.pc = "flush", !.status = status, !.want = new]
  <2>1. n \in Edit /\ n.op = "status" /\ n.status = status /\ n.want = new
    BY NoEditFacts DEF Edit, CatalogueTypeOK
  <2>2. Set(s, n)
    BY <1>2 DEF LoadStatus
  <2> HIDE DEF n
  <2>3. Solely(s) /\ edit'[s] = n
    BY <2>1, <2>2, SetStep
  <2>4. UNCHANGED <<shelf, cart, edits, records>>
    BY <1>2 DEF LoadStatus
  <2>5. /\ status # Absent /\ edit[s] = NoEdit
        /\ new # Absent => s \in StatusEditors /\ Permitted(new)
    BY <1>2 DEF LoadStatus
  <2>6. QED BY <1>0, <2>1, <2>3, <2>4, <2>5 DEF Begins, records
<1>3. ASSUME NEW t \in Tiers, NEW new \in Tier, LoadTier(s, t, new) PROVE Begins(s)
  <2> DEFINE n == [NoEdit EXCEPT !.op = "price", !.pc = "flush", !.tier = t,
                                 !.loaded = price[t], !.offer = new]
  <2>0. price[t] \in Tier
    BY <1>3 DEF LoadTier, CatalogueTypeOK
  <2>1. n \in Edit /\ n.op = "price" /\ n.tier = t /\ n.loaded = price[t] /\ n.offer = new
    BY <2>0, NoEditFacts DEF Edit
  <2>2. Set(s, n)
    BY <1>3 DEF LoadTier
  <2> HIDE DEF n
  <2>3. Solely(s) /\ edit'[s] = n
    BY <2>1, <2>2, SetStep
  <2>4. UNCHANGED <<shelf, cart, edits, records>> /\ status # Absent /\ edit[s] = NoEdit
    BY <1>3 DEF LoadTier
  <2>5. QED BY <1>0, <2>0, <2>1, <2>3, <2>4 DEF Begins, records
<1>4. ASSUME NEW k \in Kinds, NEW keys \in SUBSET RowKeys, LoadToReplace(s, k, keys) PROVE Begins(s)
  <2> DEFINE next == edits + 1
             n == [NoEdit EXCEPT !.op = "replace", !.pc = "delete", !.version = version,
                                 !.kind = k, !.keys = keys, !.by = next]
  <2>0. next \in Nat /\ version \in Nat
    BY CatalogueAssumption DEF CatalogueTypeOK
  <2> HIDE DEF next
  <2>1. n \in Edit /\ n.op = "replace" /\ n.pc = "delete" /\ n.version = version /\ n.kind = k
        /\ n.by = next
    BY <2>0, NoEditFacts DEF Edit
  <2>2. Set(s, n)
    BY <1>4 DEF LoadToReplace, next
  <2> HIDE DEF n
  <2>3. Solely(s) /\ edit'[s] = n
    BY <2>1, <2>2, SetStep
  <2>4. /\ UNCHANGED <<shelf, cart, offered, replaced, last>> /\ status # Absent /\ edit[s] = NoEdit
        /\ edits' = edits + 1 /\ edits < MaxEdits
        /\ overlapped' = (overlapped \/ Replacing # {})
    BY <1>4 DEF LoadToReplace
  <2>5. QED BY <1>0, <2>1, <2>3, <2>4 DEF Begins, next
<1>5. QED BY <1>1, <1>2, <1>3, <1>4 DEF BeginEdit

Onward == {"commit", "lock", "write", "bump"}

LEMMA MoveStep ==
    ASSUME CatalogueTypes, NEW s \in Editors,
           \/ InsertService(s) \/ FlushStatus(s) \/ FlushTier(s) \/ BeginDelete(s)
           \/ LockRows(s) \/ InsertRows(s) \/ BumpVersion(s) \/ FailEdit(s)
    PROVE  Moves(s)
<1> DEFINE e == edit[s]
           To(pc) == [e EXCEPT !.pc = pc]
           With(pc, gone) == [e EXCEPT !.pc = pc, !.gone = gone]
<1> USE DEF CatalogueTypes
<1>0. e \in Edit /\ e.gone \in SUBSET PartRow
  BY DEF ShelfInv, Edit
<1>1. \A pc \in Onward :
        /\ To(pc) \in Edit /\ SameEdit(To(pc), e) /\ To(pc).pc = pc /\ To(pc).gone = e.gone
        /\ \A gone \in SUBSET PartRow :
             /\ With(pc, gone) \in Edit /\ SameEdit(With(pc, gone), e)
             /\ With(pc, gone).pc = pc /\ With(pc, gone).gone = gone
  <2>1. ASSUME NEW pc \in Onward
        PROVE  To(pc) \in Edit /\ SameEdit(To(pc), e) /\ To(pc).pc = pc /\ To(pc).gone = e.gone
    <3>1. To(pc) \in Edit /\ To(pc).pc = pc /\ To(pc).gone = e.gone
      BY <1>0, <2>1 DEF Edit, Onward
    <3>2. SameEdit(To(pc), e)
      BY <1>0 DEF Edit, SameEdit
    <3>3. QED BY <3>1, <3>2
  <2>2. ASSUME NEW pc \in Onward, NEW gone \in SUBSET PartRow
        PROVE  /\ With(pc, gone) \in Edit /\ SameEdit(With(pc, gone), e)
               /\ With(pc, gone).pc = pc /\ With(pc, gone).gone = gone
    <3>1. With(pc, gone) \in Edit /\ With(pc, gone).pc = pc /\ With(pc, gone).gone = gone
      BY <1>0, <2>2 DEF Edit, Onward
    <3>2. SameEdit(With(pc, gone), e)
      BY <1>0 DEF Edit, SameEdit
    <3>3. QED BY <3>1, <3>2
  <2> HIDE DEF To, With
  <2>3. QED BY <2>1, <2>2
<1>2. e.op = "replace" => e.kind \in Kinds /\ rows[e.kind] \in SUBSET PartRow
  BY DEF EditInv, ShelfInv
<1> HIDE DEF To, With
<1>3. ASSUME NEW pc \in Onward, Set(s, To(pc)) \/ Set(s, NoEdit)
      PROVE  /\ Solely(s)
             /\ \/ edit'[s] = NoEdit
                \/ SameEdit(edit'[s], e) /\ edit'[s].pc = pc /\ edit'[s].gone = e.gone
  BY <1>1, <1>3, SetStep, NoEditFacts
<1>4. ASSUME NEW pc \in Onward, NEW gone \in SUBSET PartRow, Set(s, With(pc, gone))
      PROVE  /\ Solely(s)
             /\ SameEdit(edit'[s], e) /\ edit'[s].pc = pc /\ edit'[s].gone = gone
  BY <1>1, <1>4, SetStep
<1>5. CASE InsertService(s)
  <2>1. Set(s, To("commit")) \/ Set(s, NoEdit)
    BY <1>5 DEF InsertService, To
  <2>2. status # Absent => Set(s, NoEdit)
    BY <1>5 DEF InsertService
  <2>3. \A o \in Editors \ {s} : ~Creates(edit[o])
    BY <1>5 DEF InsertService, Others, Creates
  <2>4. status # Absent => edit'[s] = NoEdit
    BY <2>2, NoEditFacts, SetStep
  <2>5. e.op = "create" /\ UNCHANGED <<shelf, cart, edits, records>>
    BY <1>5 DEF InsertService, Doing
  <2>6. QED BY <1>3, <2>1, <2>3, <2>4, <2>5 DEF Moves, Onward
<1>6. CASE FlushStatus(s) \/ FlushTier(s)
  <2>1. Set(s, To("commit")) /\ e.op \in {"status", "price"} /\ UNCHANGED <<shelf, cart, edits, records>>
    BY <1>6 DEF FlushStatus, FlushTier, Doing, To
  <2>2. QED BY <1>3, <2>1 DEF Moves, Onward
<1>7. CASE BeginDelete(s)
  <2>1. /\ Set(s, With("lock", rows[e.kind])) /\ e.op = "replace"
        /\ UNCHANGED <<shelf, cart, edits, records>>
    BY <1>7 DEF BeginDelete, Doing, With
  <2>2. SameEdit(edit'[s], e) /\ edit'[s].pc = "lock" /\ edit'[s].gone = rows[e.kind] /\ Solely(s)
    BY <1>2, <1>4, <2>1 DEF Onward
  <2>3. QED BY <2>1, <2>2 DEF Moves
<1>8. CASE LockRows(s)
  <2> DEFINE left == e.gone \cap rows[e.kind]
  <2>1. /\ Set(s, With("write", left)) /\ e.op = "replace" /\ e.pc = "lock"
        /\ UNCHANGED <<shelf, cart, edits, records>>
    BY <1>8 DEF LockRows, Doing, With
  <2>2. left \in SUBSET PartRow
    BY <1>0
  <2>3. SameEdit(edit'[s], e) /\ edit'[s].pc = "write" /\ edit'[s].gone = left /\ Solely(s)
    BY <1>4, <2>1, <2>2 DEF Onward
  <2>4. QED BY <2>1, <2>3 DEF Moves
<1>9. CASE InsertRows(s)
  <2>1. /\ e.op = "replace" /\ e.pc = "write"
        /\ UNCHANGED <<shelf, cart, edits, records>>
    BY <1>9 DEF InsertRows, Doing
  <2>2. IF Clash(e) THEN Set(s, NoEdit) ELSE Set(s, To("bump"))
    BY <1>9 DEF InsertRows, To
  <2>3. ASSUME NEW o \in Inserted \ {s}, edit[o].kind = e.kind
        PROVE  edit[o].keys \cap e.keys = {}
    <3>1. edit[o] \in Rivals(s) /\ edit[o].pc # "write"
      BY <2>3 DEF Inserted, Replacing, Rivals, Others
    <3>2. QED BY <1>9, <3>1 DEF InsertRows
  <2>4. CASE Clash(e)
    <3>1. Solely(s) /\ edit'[s] = NoEdit
      BY <2>2, <2>4, NoEditFacts, SetStep
    <3>2. QED BY <2>1, <3>1 DEF Moves
  <2>5. CASE ~Clash(e)
    <3>1. Solely(s) /\ SameEdit(edit'[s], e) /\ edit'[s].pc = "bump" /\ edit'[s].gone = e.gone
      BY <1>1, <2>2, <2>5, SetStep DEF Onward
    <3>2. QED BY <2>1, <2>3, <2>5, <3>1 DEF Moves
  <2>6. QED BY <2>4, <2>5
<1>10. CASE BumpVersion(s)
  <2>1. /\ Set(s, To("commit")) /\ e.op = "replace" /\ e.pc = "bump"
        /\ UNCHANGED <<shelf, cart, edits, records>>
    BY <1>10 DEF BumpVersion, Doing, To
  <2>2. Solely(s) /\ SameEdit(edit'[s], e) /\ edit'[s].pc = "commit" /\ edit'[s].gone = e.gone
    BY <1>1, <2>1, SetStep DEF Onward
  <2>3. QED BY <2>1, <2>2 DEF Moves
<1>11. CASE FailEdit(s)
  <2>1. Set(s, NoEdit) /\ UNCHANGED <<shelf, cart, edits, records>>
    BY <1>11 DEF FailEdit
  <2>2. QED BY <2>1, NoEditFacts, SetStep DEF Moves
<1>12. QED BY <1>5, <1>6, <1>7, <1>8, <1>9, <1>10, <1>11
\* A submission reads, and changes nothing but what it has read.
Buys == UNCHANGED <<shelf, edit, edits, records>>

LEMMA BuyStep ==
    ASSUME NEW b \in Buyers,
           \/ \E t \in Tiers : BeginSubmit(b, t)
           \/ ReadFields(b) \/ ReadTier(b) \/ CommitSubmit(b)
    PROVE  Buys
BY DEF BeginSubmit, ReadFields, ReadTier, CommitSubmit, Buys

Commits(s) == CommitService(s) \/ CommitStatus(s) \/ CommitTier(s) \/ CommitReplacement(s)

LEMMA CommitStep ==
    ASSUME CatalogueTypes, NEW s \in Editors, Commits(s)
    PROVE  Solely(s) /\ edit'[s] = NoEdit /\ edits' = edits /\ cart' = cart /\ overlapped' = overlapped
<1>1. Set(s, NoEdit)
  BY DEF Commits, CommitService, CommitStatus, CommitTier, CommitReplacement
<1>2. Solely(s) /\ edit'[s] = NoEdit
  BY <1>1, NoEditFacts, SetStep DEF CatalogueTypes
<1>3. QED BY <1>2 DEF Commits, CommitService, CommitStatus, CommitTier, CommitReplacement, records

\* What each commit writes.
LEMMA ServiceStep ==
    ASSUME CatalogueTypes, NEW s \in Editors, CommitService(s)
    PROVE  /\ Creates(edit[s]) /\ status = Absent /\ status' = "draft" /\ version' = 1
           /\ price' \in [Tiers -> Tier] /\ offered' = offered \cup Offers(price')
           /\ UNCHANGED <<rows, replaced, last>>
<1>1. Creates(edit[s]) /\ status = Absent
  BY DEF CommitService, Doing, Creates, CatalogueTypes, EditInv
<1>2. price' \in [Tiers -> Tier]
  BY CatalogueAssumption DEF CommitService, Tier
<1>3. QED BY <1>1, <1>2 DEF CommitService, FirstVersion

LEMMA StatusStep ==
    ASSUME CatalogueTypes, NEW s \in Editors, CommitStatus(s)
    PROVE  /\ edit[s].op = "status" /\ status # Absent /\ status' = NewStatus(edit[s])
           /\ status' \in SERVICE_STATUSES
           /\ UNCHANGED <<version, price, rows, records>>
<1>1. edit[s].op = "status" /\ status # Absent /\ status' = NewStatus(edit[s])
  BY DEF CommitStatus, Doing, CatalogueTypes, EditInv
<1>2. status \in SERVICE_STATUSES /\ edit[s].want \in SERVICE_STATUSES \cup {Absent}
  BY <1>1 DEF CatalogueTypes, CatalogueTypeOK, ShelfInv, Edit
<1>3. QED BY <1>1, <1>2 DEF CommitStatus, NewStatus

LEMMA TierStep ==
    ASSUME CatalogueTypes, NEW s \in Editors, CommitTier(s)
    PROVE  /\ edit[s].op = "price" /\ status # Absent
           /\ price' \in [Tiers -> Tier] /\ offered' = offered \cup Offers(price')
           /\ UNCHANGED <<status, version, rows, replaced, last>>
<1> DEFINE e == edit[s]
           row == [fee  |-> IF e.offer.fee = e.loaded.fee THEN price[e.tier].fee ELSE e.offer.fee,
                   open |-> IF e.offer.open = e.loaded.open THEN price[e.tier].open ELSE e.offer.open]
<1>1. e.op = "price" /\ status # Absent /\ e.tier \in Tiers /\ e.loaded \in Tier /\ e.offer \in Tier
  BY DEF CommitTier, Doing, CatalogueTypes, EditInv
<1>2. price \in [Tiers -> Tier]
  BY <1>1 DEF CatalogueTypes, CatalogueTypeOK, ShelfInv
<1>3. row \in Tier
  BY <1>1, <1>2 DEF Tier
<1>4. price' = [price EXCEPT ![e.tier] = row]
  BY DEF CommitTier
<1> HIDE DEF row
<1>5. price' \in [Tiers -> Tier]
  BY <1>1, <1>2, <1>3, <1>4
<1>6. QED BY <1>1, <1>5 DEF CommitTier

LEMMA ReplaceStep ==
    ASSUME CatalogueTypes, NEW s \in Editors, CommitReplacement(s)
    PROVE  LET e == edit[s]
           IN  /\ e.op = "replace" /\ e.pc = "commit" /\ e.kind \in Kinds /\ status # Absent
               /\ e \in Edit
               /\ Replaced(e) \in SUBSET PartRow
               /\ rows' = [rows EXCEPT ![e.kind] = Replaced(e)]
               /\ rows'[e.kind] = Replaced(e)
               /\ \A k \in Kinds \ {e.kind} : rows'[k] = rows[k] /\ last'[k] = last[k]
               /\ last' \in [Kinds -> [by : Nat, keys : SUBSET RowKeys]]
               /\ last'[e.kind].by = e.by /\ last'[e.kind].keys = e.keys
               /\ version' = e.version + 1
               /\ replaced' = replaced + 1
               /\ UNCHANGED <<status, price, offered>>
<1> DEFINE e == edit[s]
           l == [by |-> e.by, keys |-> e.keys]
<1>1. e.op = "replace" /\ e.pc = "commit" /\ e.kind \in Kinds /\ status # Absent /\ e \in Edit
  BY DEF CommitReplacement, Doing, CatalogueTypes, EditInv, ShelfInv
<1>2. e.by \in Nat /\ e.keys \in SUBSET RowKeys
  BY <1>1 DEF Edit
<1>3. New(e) \in SUBSET PartRow
  BY <1>2 DEF New, PartRow
<1>4. Replaced(e) \in SUBSET PartRow
  BY <1>1, <1>3 DEF Replaced, CatalogueTypes, ShelfInv
<1>5. l \in [by : Nat, keys : SUBSET RowKeys] /\ l.by = e.by /\ l.keys = e.keys
  BY <1>2
<1>6. rows' = [rows EXCEPT ![e.kind] = Replaced(e)] /\ last' = [last EXCEPT ![e.kind] = l]
  BY DEF CommitReplacement
<1> HIDE DEF l
<1>7. rows'[e.kind] = Replaced(e) /\ last'[e.kind] = l
  BY <1>1, <1>6 DEF CatalogueTypes, ShelfInv
<1>8. /\ \A k \in Kinds \ {e.kind} : rows'[k] = rows[k] /\ last'[k] = last[k]
      /\ last' \in [Kinds -> [by : Nat, keys : SUBSET RowKeys]]
  BY <1>1, <1>5, <1>6 DEF CatalogueTypes, ShelfInv
<1>9. QED BY <1>1, <1>4, <1>5, <1>6, <1>7, <1>8 DEF CommitReplacement, VersionAfter

LEMMA CatalogueCases ==
    ASSUME CatalogueTypes, [CatalogueNext]_catalogueVars, NEW P,
           \A s \in Editors : Begins(s) => P,
           \A s \in Editors : Moves(s) => P,
           \A s \in Editors : Commits(s) => P,
           Buys => P
    PROVE  P
<1>1. ASSUME NEW s \in Editors, BeginEdit(s) \/ ContinueEdit(s) \/ FailEdit(s) PROVE P
  BY <1>1, BeginStep, MoveStep DEF ContinueEdit, Commits
<1>2. CASE UNCHANGED catalogueVars
  BY <1>2 DEF catalogueVars, Buys, shelf, records
<1>3. CASE CatalogueNext
  BY <1>1, <1>3, BuyStep DEF CatalogueNext
<1>4. QED BY <1>2, <1>3

-----------------------------------------------------------------------------
(* Catalogue: types *)

EditHolds(s) ==
    LET e == edit[s]
    IN  /\ e.op \in {"status", "price", "replace"} => status # Absent
        /\ Creates(e) => status = Absent
        /\ e.op = "status" /\ e.want # Absent => s \in StatusEditors
        /\ e.op = "price" => e.tier \in Tiers /\ e.loaded \in Tier /\ e.offer \in Tier
        /\ e.op = "replace" => e.kind \in Kinds

LEMMA EditInvIs ==
    EditInv <=> /\ \A s \in Editors : EditHolds(s)
                /\ \A s, t \in Editors : Creates(edit[s]) /\ Creates(edit[t]) => s = t
BY DEF EditInv, EditHolds

\* One session steps; whether the service is there stays as it was.
LEMMA EditsKeep ==
    ASSUME EditInv, NEW s \in Editors, Solely(s), EditHolds(s)', status' = Absent <=> status = Absent,
           Creates(edit'[s]) => \A o \in Editors \ {s} : ~Creates(edit[o])
    PROVE  EditInv'
<1>1. ASSUME NEW o \in Editors PROVE EditHolds(o)'
  BY EditInvIs DEF EditHolds, Solely
<1>2. \A o, t \in Editors : Creates(edit'[o]) /\ Creates(edit'[t]) => o = t
  BY EditInvIs DEF Solely
<1>3. QED BY <1>1, <1>2 DEF EditInv, EditHolds

LEMMA EditInvKeeps ==
    ASSUME CatalogueTypes, [CatalogueNext]_catalogueVars
    PROVE  EditInv'
<1>0. EditInv /\ (\A s \in Editors : EditHolds(s)) /\ ~Creates(NoEdit)
  BY EditInvIs, NoEditFacts DEF CatalogueTypes, Creates
<1>1. ASSUME NEW s \in Editors, Begins(s) PROVE EditInv'
  <2>1. ~Creates(edit'[s]) /\ EditHolds(s)' /\ status' = status /\ Solely(s)
    BY <1>1 DEF Begins, Creates, EditHolds, shelf
  <2>2. QED BY <1>0, <2>1, EditsKeep
<1>2. ASSUME NEW s \in Editors, Moves(s) PROVE EditInv'
  <2>1. status' = status /\ Solely(s)
    BY <1>2 DEF Moves, shelf
  <2>2. CASE edit'[s] = NoEdit
    <3>1. EditHolds(s)' /\ ~Creates(edit'[s])
      BY <1>0, <2>2, NoEditFacts DEF EditHolds
    <3>2. QED BY <1>0, <2>1, <3>1, EditsKeep
  <2>3. CASE edit'[s] # NoEdit
    <3>1. SameEdit(edit'[s], edit[s])
      BY <1>2, <2>3 DEF Moves
    <3>2. Creates(edit'[s]) => status = Absent /\ \A o \in Editors \ {s} : ~Creates(edit[o])
      BY <1>2, <2>3, <3>1 DEF Moves, Creates, SameEdit
    <3>3. EditHolds(s)'
      BY <1>0, <2>1, <3>1, <3>2 DEF EditHolds, SameEdit
    <3>4. QED BY <1>0, <2>1, <3>2, <3>3, EditsKeep
  <2>4. QED BY <2>2, <2>3
<1>3. ASSUME NEW s \in Editors, Commits(s) PROVE EditInv'
  <2>1. Solely(s) /\ edit'[s] = NoEdit
    BY <1>3, CommitStep
  <2>2. EditHolds(s)' /\ ~Creates(edit'[s])
    BY <1>0, <2>1, NoEditFacts DEF EditHolds
  <2>3. CASE CommitService(s)
    <3>1. Creates(edit[s]) /\ status = Absent /\ status' # Absent
      BY <2>3, ServiceStep, CatalogueAssumption DEF SERVICE_STATUSES
    <3>2. \A o \in Editors \ {s} : ~Creates(edit[o])
      BY <1>0, <3>1, EditInvIs
    <3>3. ASSUME NEW o \in Editors PROVE EditHolds(o)'
      BY <1>0, <2>1, <2>2, <3>1, <3>2 DEF EditHolds, Solely
    <3>4. \A o \in Editors : ~Creates(edit'[o])
      BY <2>1, <2>2, <3>2 DEF Solely
    <3>5. QED BY <3>3, <3>4 DEF EditInv, EditHolds
  <2>4. CASE ~CommitService(s)
    <3>1. status # Absent /\ status' # Absent
      BY <1>3, <2>4, StatusStep, TierStep, ReplaceStep, CatalogueAssumption DEF Commits
    <3>2. QED BY <1>0, <2>1, <2>2, <3>1, EditsKeep
  <2>5. QED BY <2>3, <2>4
<1>4. ASSUME Buys PROVE EditInv'
  <2>1. status' = status /\ edit' = edit
    BY <1>4 DEF Buys, shelf
  <2>2. QED BY <1>0, <2>1 DEF EditInv
<1>5. QED BY <1>1, <1>2, <1>3, <1>4, CatalogueCases

LEMMA ShelfKeeps ==
    ASSUME CatalogueTypes, [CatalogueNext]_catalogueVars
    PROVE  ShelfInv'
<1> USE DEF CatalogueTypes
<1>1. ASSUME NEW s \in Editors, Begins(s) \/ Moves(s) PROVE ShelfInv'
  <2>1. Solely(s) /\ UNCHANGED <<price, rows, last, replaced>> /\ overlapped' \in BOOLEAN
    BY <1>1 DEF Begins, Moves, shelf, records, ShelfInv
  <2>2. QED BY <2>1 DEF ShelfInv, Solely
<1>2. ASSUME NEW s \in Editors, Commits(s) PROVE ShelfInv'
  <2>1. Solely(s) /\ overlapped' = overlapped
    BY <1>2, CommitStep
  <2>2. /\ price' \in [Tiers -> Tier \cup {Absent}]
        /\ rows' \in [Kinds -> SUBSET PartRow]
        /\ last' \in [Kinds -> [by : Nat, keys : SUBSET RowKeys]]
        /\ replaced' \in Nat
    BY <1>2, ServiceStep, StatusStep, TierStep, ReplaceStep DEF Commits, ShelfInv, records
  <2>3. QED BY <2>1, <2>2 DEF ShelfInv, Solely
<1>3. ASSUME Buys PROVE ShelfInv'
  BY <1>3 DEF Buys, shelf, records, ShelfInv
<1>4. QED BY <1>1, <1>2, <1>3, CatalogueCases

LEMMA CartsKeep ==
    ASSUME CatalogueTypes, OfferInv, [CatalogueNext]_catalogueVars
    PROVE  cart' \in [Buyers -> Cart]
<1> USE DEF CatalogueTypes
<1>0. cart \in [Buyers -> Cart]
  BY DEF CatalogueTypeOK
<1>1. ASSUME NEW b \in Buyers, NEW t \in Tiers, BeginSubmit(b, t) PROVE cart' \in [Buyers -> Cart]
  BY <1>0, <1>1 DEF BeginSubmit, Cart
<1>2. ASSUME NEW b \in Buyers, ReadFields(b) PROVE cart' \in [Buyers -> Cart]
  BY <1>0, <1>2 DEF ReadFields, Cart, NoCart
<1>3. ASSUME NEW b \in Buyers, ReadTier(b) PROVE cart' \in [Buyers -> Cart]
  <2>1. price[cart[b].tier] \in Tier /\ cart[b] \in Cart
    BY <1>0, <1>3 DEF ReadTier, OfferInv, CatalogueTypeOK
  <2>2. price[cart[b].tier].fee \in Fees
    BY <2>1 DEF Tier
  <2>3. [cart[b] EXCEPT !.pc = "commit", !.fee = price[cart[b].tier].fee] \in Cart
    BY <2>1, <2>2 DEF Cart
  <2>4. NoCart \in Cart
    BY DEF NoCart, Cart
  <2>5. QED BY <1>0, <1>3, <2>3, <2>4 DEF ReadTier
<1>4. ASSUME NEW b \in Buyers, CommitSubmit(b) PROVE cart' \in [Buyers -> Cart]
  BY <1>0, <1>4 DEF CommitSubmit, Cart, NoCart
<1>5. ASSUME cart' = cart PROVE cart' \in [Buyers -> Cart]
  BY <1>0, <1>5
<1>6. ASSUME NEW s \in Editors, BeginEdit(s) \/ ContinueEdit(s) \/ FailEdit(s) PROVE cart' = cart
  BY <1>6, BeginStep, MoveStep, CommitStep DEF ContinueEdit, Begins, Moves, Commits
<1>7. CASE CatalogueNext
  BY <1>1, <1>2, <1>3, <1>4, <1>5, <1>6, <1>7 DEF CatalogueNext
<1>8. CASE UNCHANGED catalogueVars
  BY <1>5, <1>8 DEF catalogueVars
<1>9. QED BY <1>7, <1>8

LEMMA CatalogueTypesKeep ==
    ASSUME CatalogueTypes, OfferInv, [CatalogueNext]_catalogueVars
    PROVE  CatalogueTypes'
<1>0. CatalogueTypeOK /\ edits \in Nat /\ version \in Nat
  BY CatalogueAssumption DEF CatalogueTypes, CatalogueTypeOK
<1>1. ShelfInv' /\ EditInv' /\ cart' \in [Buyers -> Cart]
  BY ShelfKeeps, EditInvKeeps, CartsKeep
<1>2. /\ \A k \in Kinds : rows'[k] \subseteq PartRow
      /\ \A s \in Editors : edit'[s] \in Edit
  BY <1>1 DEF ShelfInv
<1> DEFINE Priced == /\ status' \in SERVICE_STATUSES \cup {Absent}
                     /\ version' \in Nat /\ (status' # Absent => version' > 0)
                     /\ \A t \in Tiers : IF status' = Absent THEN price'[t] = Absent ELSE price'[t] \in Tier
                     /\ edits' \in 0..MaxEdits
<1>3. ASSUME UNCHANGED <<status, version, price>>, edits' \in 0..MaxEdits PROVE Priced
  BY <1>0, <1>3 DEF CatalogueTypeOK
<1>4. ASSUME NEW s \in Editors, Begins(s) PROVE Priced
  <2>1. edits' \in 0..MaxEdits
    BY <1>0, <1>4, CatalogueAssumption DEF Begins, CatalogueTypeOK
  <2>2. QED BY <1>3, <1>4, <2>1 DEF Begins, shelf
<1>5. ASSUME NEW s \in Editors, Moves(s) PROVE Priced
  BY <1>0, <1>3, <1>5 DEF Moves, shelf, CatalogueTypeOK
<1>6. ASSUME NEW s \in Editors, Commits(s) PROVE Priced
  <2>0. edits' \in 0..MaxEdits
    BY <1>0, <1>6, CommitStep DEF CatalogueTypeOK
  <2>1. CASE CommitService(s)
    BY <2>0, <2>1, ServiceStep, CatalogueAssumption DEF SERVICE_STATUSES
  <2>2. CASE CommitStatus(s)
    BY <1>0, <2>0, <2>2, StatusStep, CatalogueAssumption DEF CatalogueTypeOK
  <2>3. CASE CommitTier(s)
    BY <1>0, <2>0, <2>3, TierStep DEF CatalogueTypeOK
  <2>4. CASE CommitReplacement(s)
    <3>1. edit[s].version \in Nat
      BY <2>4, ReplaceStep DEF Edit
    <3>2. QED BY <1>0, <2>0, <2>4, <3>1, ReplaceStep DEF CatalogueTypeOK
  <2>5. QED BY <1>6, <2>1, <2>2, <2>3, <2>4 DEF Commits
<1>7. ASSUME Buys PROVE Priced
  BY <1>0, <1>3, <1>7 DEF Buys, shelf, CatalogueTypeOK
<1>8. Priced
  <2> HIDE DEF Priced
  <2>1. CatalogueTypes /\ [CatalogueNext]_catalogueVars
    OBVIOUS
  <2>2. QED BY <1>4, <1>5, <1>6, <1>7, <2>1, CatalogueCases
<1>9. QED BY <1>1, <1>2, <1>8 DEF CatalogueTypes, CatalogueTypeOK
-----------------------------------------------------------------------------
(* Catalogue: replacements and their keys *)

LEMMA StatusesAre == \A new \in SERVICE_STATUSES : new # Absent
BY CatalogueAssumption

\* Who replaces, before and after a step of one session.
LEMMA ReplacingStep ==
    ASSUME NEW s \in Editors, Solely(s)
    PROVE  /\ \A o \in Editors \ {s} : o \in Replacing' <=> o \in Replacing
           /\ \A o \in Editors \ {s} : o \in Inserted' <=> o \in Inserted
           /\ s \in Replacing' <=> edit'[s].op = "replace"
           /\ s \in Inserted' <=> edit'[s].op = "replace" /\ edit'[s].pc \in {"bump", "commit"}
           /\ Replacing' \subseteq Editors /\ Inserted' \subseteq Replacing'
BY DEF Replacing, Inserted, Solely

LEMMA NumbersKeep ==
    ASSUME CatalogueTypes, NumberInv, [CatalogueNext]_catalogueVars
    PROVE  NumberInv'
<1>0. edits \in Nat /\ \A s \in Replacing : s \in Editors /\ edit[s].by \in Nat
  BY CatalogueAssumption DEF CatalogueTypes, CatalogueTypeOK, Replacing, Edit
<1>1. \A k \in Kinds : last[k].by \in Nat /\ \A r \in rows[k] : r.by \in Nat
  BY DEF CatalogueTypes, CatalogueTypeOK, ShelfInv, PartRow
<1>2. ASSUME NEW s \in Editors, Solely(s), UNCHANGED <<rows, last, edits>>,
             edit'[s].op = "replace" => s \in Replacing /\ edit'[s].by = edit[s].by
      PROVE  NumberInv'
  <2>1. \A o \in Replacing' : o \in Replacing /\ edit'[o].by = edit[o].by
    BY <1>2, ReplacingStep DEF Solely
  <2>2. QED BY <1>2, <2>1 DEF NumberInv
<1>3. ASSUME NEW s \in Editors, Begins(s) PROVE NumberInv'
  <2>1. CASE edit'[s].op # "replace"
    BY <1>2, <1>3, <2>1 DEF Begins, shelf
  <2>2. CASE edit'[s].op = "replace"
    <3>1. /\ edits' = edits + 1 /\ edit'[s].by = edits + 1 /\ rows' = rows /\ last' = last
          /\ Solely(s)
      BY <1>3, <2>2 DEF Begins, shelf
    <3>2. \A o \in Replacing' : o # s => o \in Replacing /\ edit'[o] = edit[o]
      BY <3>1, ReplacingStep DEF Solely
    <3>3. \A k \in Kinds : last'[k].by <= edits' /\ \A r \in rows'[k] : r.by <= edits'
      BY <1>0, <1>1, <3>1 DEF NumberInv
    <3>4. \A o \in Replacing' : edit'[o].by <= edits'
      BY <1>0, <3>1, <3>2 DEF NumberInv
    <3>5. \A o \in Replacing', k \in Kinds : last'[k].by # edit'[o].by /\ \A r \in rows'[k] : r.by # edit'[o].by
      BY <1>0, <1>1, <3>1, <3>2 DEF NumberInv
    <3>6. \A o, t \in Replacing' : edit'[t].by = edit'[o].by => t = o
      BY <1>0, <3>1, <3>2 DEF NumberInv
    <3>7. QED BY <3>3, <3>4, <3>5, <3>6 DEF NumberInv
  <2>3. QED BY <2>1, <2>2
<1>4. ASSUME NEW s \in Editors, Moves(s) PROVE NumberInv'
  BY <1>2, <1>4, NoEditFacts DEF Moves, SameEdit, Replacing, shelf, records
<1>5. ASSUME NEW s \in Editors, Commits(s) PROVE NumberInv'
  <2>1. Solely(s) /\ edit'[s].op # "replace" /\ edits' = edits
    BY <1>5, CommitStep, NoEditFacts
  <2>2. CASE ~CommitReplacement(s)
    BY <1>2, <1>5, <2>1, <2>2, ServiceStep, StatusStep, TierStep DEF Commits, records
  <2>3. CASE CommitReplacement(s)
    <3> DEFINE e == edit[s]
    <3>1. s \in Replacing /\ e.kind \in Kinds
      BY <2>3, ReplaceStep DEF Replacing
    <3>2. \A o \in Replacing' : o \in Replacing /\ o # s /\ edit'[o] = edit[o] /\ edit[o].by # e.by
      BY <2>1, <3>1, ReplacingStep DEF Solely, NumberInv
    <3>3. \A r \in rows'[e.kind] : r \in rows[e.kind] \/ r.by = e.by
      BY <2>3, ReplaceStep DEF Replaced, New
    <3>4. /\ \A k \in Kinds \ {e.kind} : rows'[k] = rows[k] /\ last'[k] = last[k]
          /\ last'[e.kind].by = e.by
      BY <2>3, ReplaceStep
    <3>5. e.by <= edits
      BY <3>1 DEF NumberInv
    <3> HIDE DEF e
    <3>6. \A k \in Kinds : last'[k].by <= edits' /\ \A r \in rows'[k] : r.by <= edits'
      BY <2>1, <3>3, <3>4, <3>5 DEF NumberInv
    <3>7. \A o \in Replacing' :
            /\ edit'[o].by <= edits'
            /\ \A k \in Kinds : last'[k].by # edit'[o].by /\ \A r \in rows'[k] : r.by # edit'[o].by
            /\ \A t \in Replacing' : edit'[t].by = edit'[o].by => t = o
      BY <2>1, <3>2, <3>3, <3>4 DEF NumberInv
    <3>8. QED BY <3>6, <3>7 DEF NumberInv
  <2>4. QED BY <2>2, <2>3
<1>6. ASSUME Buys PROVE NumberInv'
  BY <1>6 DEF Buys, NumberInv, Replacing, shelf, records
<1>7. QED BY <1>3, <1>4, <1>5, <1>6, CatalogueCases

\* What matters for the keys of a session.
Keeps(e, n) == n.kind = e.kind /\ n.keys = e.keys /\ n.gone = e.gone

LEMMA KeysAside ==
    ASSUME KeyInv, NEW s \in Editors, Solely(s), UNCHANGED <<rows, last>>,
           s \in Inserted' => s \in Inserted /\ Keeps(edit[s], edit'[s])
    PROVE  KeyInv'
<1>1. \A o \in Inserted' : o \in Inserted /\ Keeps(edit[o], edit'[o])
  BY ReplacingStep DEF Solely, Inserted, Replacing, Keeps
<1>2. \A o \in Inserted' : ~Clash(edit[o])
  BY <1>1 DEF KeyInv
<1>3. \A o \in Inserted' : Clash(edit[o])' = Clash(edit[o])
  BY <1>1 DEF Keeps, Clash, KeysOf
<1>4. \A o, t \in Inserted' :
        o # t /\ edit'[o].kind = edit'[t].kind => edit'[o].keys \cap edit'[t].keys = {}
  BY <1>1 DEF KeyInv, Keeps
<1>5. OneRowPerKey'
  BY DEF KeyInv, OneRowPerKey
<1>6. \A k \in Kinds : {r.key : r \in {q \in rows'[k] : q.by = last'[k].by}} = last'[k].keys
  BY DEF KeyInv
<1>7. QED BY <1>2, <1>3, <1>4, <1>5, <1>6 DEF KeyInv

LEMMA KeysKeep ==
    ASSUME CatalogueTypes, NumberInv, KeyInv, [CatalogueNext]_catalogueVars
    PROVE  KeyInv'
<1>1. ASSUME NEW s \in Editors, Begins(s) PROVE KeyInv'
  <2>1. Solely(s) /\ UNCHANGED <<rows, last>> /\ s \notin Inserted'
    BY <1>1, ReplacingStep DEF Begins, shelf
  <2>2. QED BY <2>1, KeysAside
<1>2. ASSUME NEW s \in Editors, Moves(s) PROVE KeyInv'
  <2>1. Solely(s) /\ UNCHANGED <<rows, last>>
    BY <1>2 DEF Moves, shelf, records
  <2>2. CASE s \notin Inserted'
    BY <2>1, <2>2, KeysAside
  <2>3. CASE s \in Inserted'
    <3>1. edit'[s].op = "replace" /\ edit'[s].pc \in {"bump", "commit"} /\ edit'[s] # NoEdit
      BY <2>1, <2>3, ReplacingStep, NoEditFacts
    <3>2. edit[s].op = "replace" /\ Keeps(edit[s], edit'[s])
      BY <1>2, <3>1 DEF Moves, SameEdit, Keeps
    <3>3. CASE edit[s].pc = "bump"
      BY <2>1, <3>2, <3>3, KeysAside DEF Inserted, Replacing
    <3>4. CASE edit[s].pc # "bump"
      <4>1. /\ ~Clash(edit[s])
            /\ \A o \in Inserted \ {s} : edit[o].kind = edit[s].kind
                                           => edit[o].keys \cap edit[s].keys = {}
        BY <1>2, <3>1, <3>2, <3>4 DEF Moves
      <4>2. \A o \in Inserted' \ {s} : o \in Inserted /\ Keeps(edit[o], edit'[o]) /\ o \in Editors
        BY <2>1, ReplacingStep DEF Solely, Inserted, Replacing, Keeps
      <4>3. \A o \in Inserted' : Keeps(edit[o], edit'[o]) /\ ~Clash(edit[o])
        BY <3>2, <4>1, <4>2 DEF KeyInv
      <4>4. \A o \in Inserted' : Clash(edit[o])' = Clash(edit[o])
        BY <2>1, <4>3 DEF Keeps, Clash, KeysOf
      <4>5. \A o, t \in Inserted' :
              o # t /\ edit[o].kind = edit[t].kind => edit[o].keys \cap edit[t].keys = {}
        <5>1. ASSUME NEW o \in Inserted', NEW t \in Inserted', o # t, edit[o].kind = edit[t].kind
              PROVE  edit[o].keys \cap edit[t].keys = {}
          <6>1. CASE o = s
            BY <4>1, <4>2, <5>1, <6>1
          <6>2. CASE t = s
            BY <4>1, <4>2, <5>1, <6>2
          <6>3. CASE o # s /\ t # s
            BY <4>2, <5>1, <6>3 DEF KeyInv
          <6>4. QED BY <6>1, <6>2, <6>3
        <5>2. QED BY <5>1
      <4>6. \A o, t \in Inserted' :
              o # t /\ edit'[o].kind = edit'[t].kind => edit'[o].keys \cap edit'[t].keys = {}
        BY <4>3, <4>5 DEF Keeps
      <4>7. /\ OneRowPerKey'
            /\ \A k \in Kinds : {r.key : r \in {q \in rows'[k] : q.by = last'[k].by}} = last'[k].keys
        BY <2>1 DEF KeyInv, OneRowPerKey
      <4>8. QED BY <4>3, <4>4, <4>6, <4>7 DEF KeyInv
    <3>5. QED BY <3>3, <3>4
  <2>4. QED BY <2>2, <2>3
<1>3. ASSUME NEW s \in Editors, Commits(s) PROVE KeyInv'
  <2>1. Solely(s) /\ edit'[s].op # "replace"
    BY <1>3, CommitStep, NoEditFacts
  <2>2. s \notin Inserted'
    BY <2>1, ReplacingStep
  <2>3. CASE ~CommitReplacement(s)
    BY <1>3, <2>1, <2>2, <2>3, ServiceStep, StatusStep, TierStep, KeysAside DEF Commits, records
  <2>4. CASE CommitReplacement(s)
    <3> DEFINE e == edit[s]
               kept == rows[e.kind] \ e.gone
    <3>1. /\ s \in Inserted /\ s \in Replacing /\ e.kind \in Kinds
          /\ rows'[e.kind] = kept \cup New(e)
          /\ \A k \in Kinds \ {e.kind} : rows'[k] = rows[k] /\ last'[k] = last[k]
          /\ last'[e.kind].by = e.by /\ last'[e.kind].keys = e.keys
      BY <2>4, ReplaceStep DEF Inserted, Replacing, Replaced
    <3>2. \A r \in New(e) : r.key \in e.keys /\ r.by = e.by
      BY DEF New
    <3>3. \A k \in e.keys : \E r \in New(e) : r.key = k /\ r.by = e.by
      <4>1. ASSUME NEW k \in e.keys PROVE \E r \in New(e) : r.key = k /\ r.by = e.by
        <5>1. [key |-> k, by |-> e.by] \in New(e)
          BY DEF New
        <5>2. [key |-> k, by |-> e.by].key = k /\ [key |-> k, by |-> e.by].by = e.by
          OBVIOUS
        <5>3. QED BY <5>1, <5>2
      <4>2. QED BY <4>1
    <3>4. \A r, q \in New(e) : r.key = q.key => r = q
      BY DEF New
    <3>5. \A r \in kept : r.key \notin e.keys
      BY <3>1 DEF KeyInv, Clash, KeysOf
    <3>6. \A r \in kept : r.by # e.by
      BY <3>1 DEF NumberInv
    <3>7. \A r, q \in kept : r.key = q.key => r = q
      BY <3>1 DEF KeyInv, OneRowPerKey
    <3>8. \A o \in Inserted' : /\ o \in Inserted \ {s} /\ edit'[o] = edit[o]
                               /\ edit[o].kind = e.kind => edit[o].keys \cap e.keys = {}
      <4>1. \A o \in Inserted' : o \in Inserted \ {s} /\ edit'[o] = edit[o]
        BY <2>1, <2>2, ReplacingStep DEF Solely, Inserted, Replacing
      <4>2. QED BY <3>1, <4>1 DEF KeyInv
    <3> HIDE DEF e
    <3>9. OneRowPerKey'
      <4>1. ASSUME NEW k \in Kinds, NEW r \in rows'[k], NEW q \in rows'[k], r.key = q.key
            PROVE  r = q
        <5>1. CASE k = e.kind
          BY <3>1, <3>2, <3>4, <3>5, <3>7, <4>1, <5>1
        <5>2. CASE k # e.kind
          BY <3>1, <4>1, <5>2 DEF KeyInv, OneRowPerKey
        <5>3. QED BY <5>1, <5>2
      <4>2. QED BY <4>1 DEF OneRowPerKey
    <3>10. \A k \in Kinds : {r.key : r \in {q \in rows'[k] : q.by = last'[k].by}} = last'[k].keys
      <4>1. {q \in rows'[e.kind] : q.by = e.by} = New(e)
        BY <3>1, <3>2, <3>6
      <4>2. {r.key : r \in New(e)} = e.keys
        BY <3>2, <3>3
      <4>3. QED BY <3>1, <4>1, <4>2 DEF KeyInv
    <3>11. \A o \in Inserted' : ~Clash(edit[o])'
      <4>1. ASSUME NEW o \in Inserted', NEW r \in rows'[edit'[o].kind] \ edit'[o].gone,
                   r.key \in edit'[o].keys
            PROVE  FALSE
        <5>0. edit'[o] = edit[o] /\ o \in Inserted \ {s} /\ edit[o].kind \in Kinds
          BY <3>8, <4>1 DEF Inserted, Replacing, CatalogueTypes, EditInv
        <5>1. r \notin rows[edit[o].kind]
          BY <4>1, <5>0 DEF KeyInv, Clash, KeysOf
        <5>2. edit[o].kind = e.kind /\ r \in New(e)
          BY <3>1, <4>1, <5>0, <5>1
        <5>3. QED BY <3>2, <3>8, <4>1, <5>0, <5>2
      <4>2. QED BY <4>1 DEF Clash, KeysOf
    <3>12. \A o, t \in Inserted' :
             o # t /\ edit'[o].kind = edit'[t].kind => edit'[o].keys \cap edit'[t].keys = {}
      BY <3>8 DEF KeyInv
    <3>13. QED BY <3>9, <3>10, <3>11, <3>12 DEF KeyInv
  <2>5. QED BY <2>3, <2>4
<1>4. ASSUME Buys PROVE KeyInv'
  BY <1>4 DEF Buys, shelf, records, KeyInv, OneRowPerKey, Inserted, Replacing, Clash, KeysOf
<1>5. QED BY <1>1, <1>2, <1>3, <1>4, CatalogueCases
-----------------------------------------------------------------------------
(* Catalogue: replacements that do not overlap, prices, and the status *)

\* Nobody has begun to replace, and the tables stand.
LEMMA QuietAside ==
    ASSUME QuietInv, NEW s \in Editors, Solely(s), overlapped' = overlapped,
           UNCHANGED <<version, rows, replaced, last>>, status' = Absent <=> status = Absent,
           ~overlapped /\ edit'[s].op = "replace" => s \in Replacing /\ Undisturbed(edit[s])'
    PROVE  QuietInv'
<1>1. \A o \in Replacing' \ {s} : o \in Replacing /\ edit'[o] = edit[o]
  BY ReplacingStep DEF Solely
<1>2. s \in Replacing' /\ ~overlapped => s \in Replacing
  BY ReplacingStep
<1>3. ASSUME ~overlapped PROVE \A o, t \in Replacing' : o = t
  BY <1>1, <1>2, <1>3 DEF QuietInv
<1>4. ASSUME ~overlapped, NEW o \in Replacing' PROVE Undisturbed(edit[o])'
  <2>1. CASE o = s
    BY <1>4, <2>1, ReplacingStep
  <2>2. CASE o # s
    <3>1. Undisturbed(edit[o]) /\ edit'[o] = edit[o]
      BY <1>1, <1>4, <2>2 DEF QuietInv
    <3>2. QED BY <3>1 DEF Undisturbed
  <2>3. QED BY <2>1, <2>2
<1>5. ~overlapped => \A k \in Kinds : KeysOf(rows'[k]) = last'[k].keys
  BY DEF QuietInv
<1>6. QED BY <1>3, <1>4, <1>5 DEF QuietInv

LEMMA QuietKeeps ==
    ASSUME CatalogueTypes, QuietInv, [CatalogueNext]_catalogueVars
    PROVE  QuietInv'
<1>1. ASSUME NEW s \in Editors, Begins(s) PROVE QuietInv'
  <2>0. Solely(s) /\ UNCHANGED <<version, rows, replaced, last, status>>
    BY <1>1 DEF Begins, shelf
  <2>1. CASE edit'[s].op # "replace"
    <3>1. overlapped' = overlapped
      BY <1>1, <2>1 DEF Begins
    <3>2. QED BY <2>0, <2>1, <3>1, QuietAside
  <2>2. CASE edit'[s].op = "replace"
    <3>1. /\ overlapped' = (overlapped \/ Replacing # {})
          /\ edit'[s].version = version /\ edit'[s].pc = "delete"
      BY <1>1, <2>2 DEF Begins
    <3>2. ASSUME ~overlapped' PROVE Replacing' = {s} /\ ~overlapped
      BY <2>0, <2>2, <3>1, <3>2, ReplacingStep
    <3>3. Undisturbed(edit[s])'
      BY <2>0, <3>1 DEF Undisturbed
    <3>4. ~overlapped' => \A k \in Kinds : KeysOf(rows'[k]) = last'[k].keys
      BY <2>0, <3>2 DEF QuietInv
    <3>5. /\ status' = Absent => replaced' = 0
          /\ ~overlapped' /\ status' # Absent => version' = 1 + replaced'
      BY <2>0, <3>2 DEF QuietInv
    <3>6. QED BY <3>2, <3>3, <3>4, <3>5 DEF QuietInv
  <2>3. QED BY <2>1, <2>2
<1>2. ASSUME NEW s \in Editors, Moves(s) PROVE QuietInv'
  <2>0. Solely(s) /\ UNCHANGED <<version, rows, replaced, last, status, overlapped>>
    BY <1>2 DEF Moves, shelf, records
  <2>1. ASSUME ~overlapped, edit'[s].op = "replace" PROVE s \in Replacing /\ Undisturbed(edit[s])'
    <3>1. SameEdit(edit'[s], edit[s])
      BY <1>2, <2>1, NoEditFacts DEF Moves
    <3>2. s \in Replacing /\ Undisturbed(edit[s])
      BY <2>1, <3>1 DEF SameEdit, Replacing, QuietInv
    <3>3. edit'[s].gone = rows[edit[s].kind]
      BY <1>2, <2>1, <3>1, <3>2, NoEditFacts DEF Moves, Undisturbed, SameEdit
    <3>4. QED BY <2>0, <3>1, <3>2, <3>3 DEF Undisturbed, SameEdit
  <2>2. QED BY <2>0, <2>1, QuietAside
<1>3. ASSUME NEW s \in Editors, Commits(s) PROVE QuietInv'
  <2>0. Solely(s) /\ edit'[s].op # "replace" /\ overlapped' = overlapped
    BY <1>3, CommitStep, NoEditFacts
  <2>1. CASE CommitService(s)
    <3>1. /\ status = Absent /\ status' # Absent /\ version' = 1
          /\ UNCHANGED <<rows, replaced, last>>
      BY <2>1, ServiceStep, StatusesAre DEF SERVICE_STATUSES
    <3>2. Replacing' = {}
      BY <2>0, <3>1 DEF Replacing, CatalogueTypes, EditInv, Solely
    <3>3. replaced' = 0
      BY <3>1 DEF QuietInv
    <3>4. ~overlapped' => \A k \in Kinds : KeysOf(rows'[k]) = last'[k].keys
      BY <2>0, <3>1 DEF QuietInv
    <3>5. QED BY <3>1, <3>2, <3>3, <3>4 DEF QuietInv
  <2>2. CASE CommitStatus(s) \/ CommitTier(s)
    <3>1. UNCHANGED <<version, rows, replaced, last>> /\ status # Absent /\ status' # Absent
      BY <2>2, StatusStep, TierStep, StatusesAre DEF records
    <3>2. QED BY <2>0, <3>1, QuietAside
  <2>3. CASE CommitReplacement(s)
    <3> DEFINE e == edit[s]
    <3>1. /\ s \in Replacing /\ e.kind \in Kinds /\ e.pc = "commit"
          /\ rows'[e.kind] = Replaced(e) /\ last'[e.kind].keys = e.keys
          /\ \A k \in Kinds \ {e.kind} : rows'[k] = rows[k] /\ last'[k] = last[k]
          /\ version' = e.version + 1 /\ replaced' = replaced + 1
          /\ status' = status /\ status # Absent
      BY <2>3, ReplaceStep DEF Replacing
    <3>2. ASSUME ~overlapped PROVE /\ Replacing' = {}
                                   /\ Undisturbed(e)
                                   /\ version = 1 + replaced
      <4>1. \A o \in Replacing : o = s
        BY <3>1, <3>2 DEF QuietInv
      <4>2. Replacing' = {}
        BY <2>0, <4>1, ReplacingStep
      <4>3. QED BY <3>1, <3>2, <4>2 DEF QuietInv
    <3>3. ASSUME ~overlapped PROVE version' = 1 + replaced'
      <4>1. e.version = 1 + replaced /\ replaced \in Nat
        BY <3>2, <3>3 DEF Undisturbed, CatalogueTypes, ShelfInv
      <4>2. QED BY <3>1, <4>1
    <3>4. ASSUME ~overlapped PROVE KeysOf(rows'[e.kind]) = e.keys
      <4>1. rows'[e.kind] = New(e)
        BY <3>1, <3>2, <3>4 DEF Undisturbed, Replaced
      <4>2. KeysOf(New(e)) = e.keys
        <5>1. ASSUME NEW k \in e.keys PROVE k \in KeysOf(New(e))
          <6>1. [key |-> k, by |-> e.by] \in New(e) /\ [key |-> k, by |-> e.by].key = k
            BY DEF New
          <6>2. QED BY <6>1 DEF KeysOf
        <5>2. KeysOf(New(e)) \subseteq e.keys
          BY DEF New, KeysOf
        <5>3. QED BY <5>1, <5>2
      <4>3. QED BY <4>1, <4>2
    <3> HIDE DEF e
    <3>5. ASSUME ~overlapped PROVE \A k \in Kinds : KeysOf(rows'[k]) = last'[k].keys
      BY <3>1, <3>4, <3>5 DEF QuietInv
    <3>6. QED BY <2>0, <3>1, <3>2, <3>3, <3>5 DEF QuietInv
  <2>4. QED BY <1>3, <2>1, <2>2, <2>3 DEF Commits
<1>4. ASSUME Buys PROVE QuietInv'
  BY <1>4 DEF Buys, shelf, records, QuietInv, Replacing, Undisturbed, KeysOf
<1>5. QED BY <1>1, <1>2, <1>3, <1>4, CatalogueCases

\* What can be bought was offered before: prices change together with the offers.
LEMMA OffersGrow ==
    ASSUME CatalogueTypes, OfferInv, [CatalogueNext]_catalogueVars
    PROVE  /\ offered \subseteq offered'
           /\ status # Absent => status' # Absent
           /\ status' # Absent => Offers(price') \subseteq offered'
<1> DEFINE P == /\ offered \subseteq offered'
                /\ status # Absent => status' # Absent
                /\ status' # Absent => Offers(price') \subseteq offered'
<1>1. ASSUME UNCHANGED <<status, price, offered>> PROVE P
  BY <1>1 DEF OfferInv
<1>2. ASSUME NEW s \in Editors, Begins(s) \/ Moves(s) PROVE P
  BY <1>1, <1>2 DEF Begins, Moves, shelf, records
<1>3. ASSUME NEW s \in Editors, Commits(s) PROVE P
  <2>1. CASE CommitService(s)
    BY <2>1, ServiceStep, StatusesAre DEF SERVICE_STATUSES
  <2>2. CASE CommitStatus(s)
    BY <2>2, StatusStep, StatusesAre DEF OfferInv, records
  <2>3. CASE CommitTier(s)
    BY <2>3, TierStep
  <2>4. CASE CommitReplacement(s)
    BY <2>4, ReplaceStep DEF OfferInv
  <2>5. QED BY <1>3, <2>1, <2>2, <2>3, <2>4 DEF Commits
<1>4. ASSUME Buys PROVE P
  BY <1>1, <1>4 DEF Buys, shelf, records
<1>5. P
  <2> HIDE DEF P
  <2>1. QED BY <1>2, <1>3, <1>4, CatalogueCases
<1>6. QED BY <1>5

LEMMA OffersKeep ==
    ASSUME CatalogueTypes, OfferInv, [CatalogueNext]_catalogueVars
    PROVE  OfferInv'
<1> DEFINE CartHolds(c) == /\ c.pc # "idle" => status' # Absent /\ c.tier \in Tiers
                           /\ c.pc = "commit" => [tier |-> c.tier, fee |-> c.fee] \in offered'
<1>0. /\ offered \subseteq offered'
      /\ status # Absent => status' # Absent
      /\ status' # Absent => Offers(price') \subseteq offered'
  BY OffersGrow
<1>1. \A b \in Buyers : CartHolds(cart[b])
  BY <1>0 DEF OfferInv, PricedAsOffered
<1>2. CartHolds(NoCart)
  BY DEF NoCart
<1>3. cart \in [Buyers -> Cart]
  BY DEF CatalogueTypes, CatalogueTypeOK
<1> HIDE DEF CartHolds
<1>4. ASSUME NEW b \in Buyers, NEW c, CartHolds(c), cart' = [cart EXCEPT ![b] = c]
      PROVE  \A o \in Buyers : CartHolds(cart'[o])
  BY <1>1, <1>3, <1>4
<1>5. ASSUME NEW b \in Buyers, NEW t \in Tiers, BeginSubmit(b, t) PROVE \A o \in Buyers : CartHolds(cart'[o])
  <2> DEFINE c == [pc |-> "fields", tier |-> t, fee |-> Absent]
  <2>1. status' # Absent
    BY <1>0, <1>5, StatusesAre DEF BeginSubmit, SERVICE_STATUSES
  <2>2. CartHolds(c)
    BY <2>1 DEF CartHolds
  <2>3. cart' = [cart EXCEPT ![b] = c]
    BY <1>5 DEF BeginSubmit
  <2> HIDE DEF c
  <2>4. QED BY <1>4, <2>2, <2>3
<1>6. ASSUME NEW b \in Buyers, ReadFields(b) PROVE \A o \in Buyers : CartHolds(cart'[o])
  <2> DEFINE c == [cart[b] EXCEPT !.pc = "tier"]
  <2>1. c.pc = "tier" /\ c.tier = cart[b].tier
    BY <1>3 DEF Cart
  <2>2. cart[b].pc # "idle"
    BY <1>6 DEF ReadFields
  <2>3. cart' = [cart EXCEPT ![b] = c] \/ cart' = [cart EXCEPT ![b] = NoCart]
    BY <1>6 DEF ReadFields
  <2> HIDE DEF c
  <2>4. CartHolds(c)
    BY <1>1, <2>1, <2>2 DEF CartHolds
  <2>5. QED BY <1>2, <1>4, <2>3, <2>4
<1>7. ASSUME NEW b \in Buyers, ReadTier(b) PROVE \A o \in Buyers : CartHolds(cart'[o])
  <2> DEFINE t == cart[b].tier
             c == [cart[b] EXCEPT !.pc = "commit", !.fee = price[t].fee]
  <2>1. c.pc = "commit" /\ c.tier = t /\ c.fee = price[t].fee
    BY <1>3 DEF Cart
  <2>2. cart[b].pc # "idle" /\ status # Absent /\ t \in Tiers
    BY <1>7 DEF ReadTier, OfferInv
  <2>3. price[t] \in Tier /\ price[t] # Absent
    BY <2>2, CatalogueAssumption DEF CatalogueTypes, CatalogueTypeOK, Tier
  <2>4. IF price[t].open THEN cart' = [cart EXCEPT ![b] = c] ELSE cart' = [cart EXCEPT ![b] = NoCart]
    BY <1>7 DEF ReadTier, Available
  <2> HIDE DEF c
  <2>5. price[t].open => CartHolds(c)
    <3>1. SUFFICES ASSUME price[t].open PROVE CartHolds(c)
      OBVIOUS
    <3>2. [tier |-> t, fee |-> price[t].fee] \in Offers(price)
      BY <2>2, <2>3, <3>1 DEF Offers
    <3>3. [tier |-> t, fee |-> price[t].fee] \in offered'
      BY <1>0, <2>2, <3>2 DEF OfferInv
    <3>4. QED BY <1>1, <2>1, <2>2, <3>3 DEF CartHolds
  <2>6. QED BY <1>2, <1>4, <2>4, <2>5
<1>8. ASSUME NEW b \in Buyers, CommitSubmit(b) PROVE \A o \in Buyers : CartHolds(cart'[o])
  BY <1>2, <1>4, <1>8 DEF CommitSubmit
<1>9. ASSUME cart' = cart PROVE \A o \in Buyers : CartHolds(cart'[o])
  BY <1>1, <1>9
<1>10. ASSUME NEW s \in Editors, BeginEdit(s) \/ ContinueEdit(s) \/ FailEdit(s) PROVE cart' = cart
  BY <1>10, BeginStep, MoveStep, CommitStep DEF ContinueEdit, Begins, Moves, Commits
<1>11. CASE CatalogueNext
  <2>1. \A o \in Buyers : CartHolds(cart'[o])
    BY <1>5, <1>6, <1>7, <1>8, <1>9, <1>10, <1>11 DEF CatalogueNext
  <2>2. QED BY <1>0, <2>1 DEF CartHolds, OfferInv, PricedAsOffered
<1>12. CASE UNCHANGED catalogueVars
  <2>1. \A o \in Buyers : CartHolds(cart'[o])
    BY <1>9, <1>12 DEF catalogueVars
  <2>2. QED BY <1>0, <2>1 DEF CartHolds, OfferInv, PricedAsOffered
<1>13. QED BY <1>11, <1>12

\* What the only editor of the status has loaded is what it still is.
LEMMA FinalKeeps ==
    ASSUME CatalogueTypes, FinalInv, OneStatusEditor, [CatalogueNext]_catalogueVars
    PROVE  FinalInv' /\ (status = "archived" => status' = "archived")
<1> DEFINE P == FinalInv' /\ (status = "archived" => status' = "archived")
<1>1. ASSUME NEW s \in Editors, Solely(s), status' = status,
             edit'[s].op = "status" /\ edit'[s].want # Absent
               => /\ edit'[s].status = status
                  /\ edit'[s].want = status \/ edit'[s].want \in VALID_SERVICE_STATUS_TRANSITIONS[status]
      PROVE  P
  BY <1>1 DEF FinalInv, Solely
<1>2. ASSUME NEW s \in Editors, Begins(s) PROVE P
  <2>1. Solely(s) /\ status' = status
    BY <1>2 DEF Begins, shelf
  <2>2. edit'[s].op = "status" /\ edit'[s].want # Absent
          => edit'[s].status = status /\ Permitted(edit'[s].want)
    BY <1>2 DEF Begins
  <2>3. QED BY <1>1, <2>1, <2>2 DEF Permitted
<1>3. ASSUME NEW s \in Editors, Moves(s) PROVE P
  <2>1. Solely(s) /\ status' = status
    BY <1>3 DEF Moves, shelf
  <2>2. edit'[s] = NoEdit \/ SameEdit(edit'[s], edit[s])
    BY <1>3 DEF Moves
  <2>3. QED BY <1>1, <2>1, <2>2, NoEditFacts DEF SameEdit, FinalInv
<1>4. ASSUME NEW s \in Editors, Commits(s) PROVE P
  <2>1. Solely(s) /\ edit'[s].op # "status"
    BY <1>4, CommitStep, NoEditFacts
  <2>2. CASE status' = status
    BY <1>1, <2>1, <2>2
  <2>3. CASE CommitStatus(s) /\ status' # status
    <3> DEFINE e == edit[s]
    <3>1. e.op = "status" /\ e.want # Absent /\ e.want # e.status /\ status' = e.want /\ s \in StatusEditors
      BY <2>3, StatusStep DEF NewStatus, CatalogueTypes, EditInv
    <3>2. e.want \in VALID_SERVICE_STATUS_TRANSITIONS[status] /\ e.status = status
      BY <3>1 DEF FinalInv
    <3>3. status # "archived"
      BY <3>2 DEF VALID_SERVICE_STATUS_TRANSITIONS
    <3>4. \A o \in Editors \ {s} : ~(edit[o].op = "status" /\ edit[o].want # Absent)
      BY <3>1 DEF CatalogueTypes, EditInv, OneStatusEditor
    <3>5. \A o \in Editors : ~(edit'[o].op = "status" /\ edit'[o].want # Absent)
      BY <2>1, <3>4 DEF Solely
    <3>6. QED BY <3>3, <3>5 DEF FinalInv
  <2>4. CASE CommitService(s)
    <3>1. status = Absent
      BY <2>4, ServiceStep
    <3>2. \A o \in Editors : edit[o].op # "status"
      BY <3>1 DEF CatalogueTypes, EditInv
    <3>3. \A o \in Editors : edit'[o].op # "status"
      BY <2>1, <3>2 DEF Solely
    <3>4. status # "archived"
      BY <3>1, StatusesAre DEF SERVICE_STATUSES
    <3>5. QED BY <3>3, <3>4 DEF FinalInv
  <2>5. CASE CommitTier(s) \/ CommitReplacement(s)
    BY <2>2, <2>5, TierStep, ReplaceStep
  <2>6. QED BY <1>4, <2>2, <2>3, <2>4, <2>5 DEF Commits
<1>5. ASSUME Buys PROVE P
  BY <1>5 DEF Buys, shelf, FinalInv
<1>6. P
  <2> HIDE DEF P
  <2>1. QED BY <1>2, <1>3, <1>4, <1>5, CatalogueCases
<1>7. QED BY <1>6

CatalogueInv == CatalogueTypes /\ NumberInv /\ KeyInv /\ QuietInv /\ OfferInv

LEMMA CatalogueStart == CatalogueInit => CatalogueInv /\ FinalInv
<1> SUFFICES ASSUME CatalogueInit PROVE CatalogueInv /\ FinalInv
  OBVIOUS
<1>1. /\ status = Absent /\ version = 0 /\ price = [t \in Tiers |-> Absent]
      /\ rows = [k \in Kinds |-> {}] /\ edit = [s \in Editors |-> NoEdit]
      /\ cart = [b \in Buyers |-> NoCart] /\ edits = 0 /\ replaced = 0 /\ overlapped = FALSE
      /\ last = [k \in Kinds |-> [by |-> 0, keys |-> {}]]
  BY DEF CatalogueInit
<1>2. NoCart \in Cart /\ NoCart.pc = "idle"
  BY DEF NoCart, Cart
<1>3. CatalogueTypeOK
  <2>1. 0 \in 0..MaxEdits
    BY CatalogueAssumption
  <2>2. QED BY <1>1, <1>2, <2>1, NoEditFacts DEF CatalogueTypeOK
<1>4. ShelfInv
  BY <1>1, NoEditFacts DEF ShelfInv
<1>5. EditInv
  BY <1>1, NoEditFacts DEF EditInv, Creates
<1>6. Replacing = {} /\ Inserted = {}
  BY <1>1, NoEditFacts DEF Replacing, Inserted
<1>7. NumberInv
  BY <1>1, <1>6 DEF NumberInv
<1>8. \A k \in Kinds : rows[k] = {} /\ last[k].by = 0 /\ last[k].keys = {}
  BY <1>1
<1>9. KeyInv
  BY <1>6, <1>8 DEF KeyInv, OneRowPerKey
<1>10. QuietInv
  BY <1>1, <1>6, <1>8 DEF QuietInv, KeysOf
<1>11. OfferInv
  BY <1>1, <1>2 DEF OfferInv, PricedAsOffered
<1>12. FinalInv
  BY <1>1, NoEditFacts DEF FinalInv
<1>13. QED BY <1>3, <1>4, <1>5, <1>7, <1>9, <1>10, <1>11, <1>12 DEF CatalogueInv, CatalogueTypes

LEMMA CatalogueKeeps == CatalogueInv /\ [CatalogueNext]_catalogueVars => CatalogueInv'
BY CatalogueTypesKeep, NumbersKeep, KeysKeep, QuietKeeps, OffersKeep DEF CatalogueInv

\* However replacements overlap, no kind of rows holds a key twice, and what committed
\* last is there as a whole; as long as they do not, nothing else is, and the version
\* counts them.
THEOREM ReplacementsAlwaysHold == CatalogueSpec => []ReplacementsHold
<1>1. CatalogueInv => ReplacementsHold
  BY DEF CatalogueInv, CatalogueTypes, KeyInv, QuietInv, ReplacementsHold, LastReplacementStands,
         VersionCounts
<1>2. QED BY <1>1, CatalogueStart, CatalogueKeeps, PTL DEF CatalogueSpec

\* An application is charged a price at which its tier was available.
THEOREM PricesWereOffered == CatalogueSpec => []PricedAsOffered
<1>1. CatalogueInv => PricedAsOffered
  BY DEF CatalogueInv, OfferInv
<1>2. QED BY <1>1, CatalogueStart, CatalogueKeeps, PTL DEF CatalogueSpec

\* With one editor of the status, an archived service stays archived, whatever others
\* edit from an older copy of it.
THEOREM ArchivedStaysArchived == OneStatusEditor => (CatalogueSpec => ArchivedIsFinal)
<1> SUFFICES ASSUME OneStatusEditor PROVE CatalogueSpec => ArchivedIsFinal
  OBVIOUS
<1>1. CatalogueInv /\ FinalInv /\ [CatalogueNext]_catalogueVars
        => /\ CatalogueInv' /\ FinalInv'
           /\ [status = "archived" => status' = "archived"]_catalogueVars
  BY CatalogueKeeps, FinalKeeps DEF CatalogueInv
<1>2. QED BY <1>1, CatalogueStart, PTL DEF CatalogueSpec, ArchivedIsFinal

-----------------------------------------------------------------------------
(***************************************************************************)
(* Times that were taken are past, and the deadline of a case stands once  *)
(* it has one.                                                             *)
(***************************************************************************)
CaseTypes ==
    /\ now \in 0..MaxTime
    /\ stage \in [Folders -> {"absent", "open", "completed", "closed"}]
    /\ due \in [Folders -> Nat]
    /\ \A c \in Folders : done[c] \in -1..now /\ (stage[c] = "completed" => done[c] >= 0)
    /\ act \in [Folders -> Act]
    /\ breached \subseteq Folders

CaseInv ==
    /\ done \in [Folders -> Int]
    /\ \A c \in Folders :
         /\ act[c].at <= now
         /\ act[c] # NoAct => act[c].to # "none"
         /\ act[c] # NoAct /\ stage[c] # "absent" => act[c].due = due[c]

(***************************************************************************)
(* Whatever was late is overdue by now, and has not been completed since,  *)
(* nor is about to be, with a time before its deadline.                    *)
(***************************************************************************)
LateInv ==
    \A c \in breached :
        /\ stage[c] # "absent"
        /\ due[c] < now
        /\ stage[c] = "completed" => due[c] < done[c]
        /\ act[c].to = "completed" => due[c] < act[c].at

CasesHold == CaseTypes /\ CaseInv /\ LateInv

(***************************************************************************)
(* The bars that have been read cover the weeks before the next one.  What *)
(* they have counted was completed in these weeks and is once in them.     *)
(***************************************************************************)
BarStart(p, bar) == WeekStart(p.at) - (bar - 1) * Week

Tallied(p) ==
    \A c \in Folders :
        /\ p.count[c] <= 1
        /\ p.count[c] = 1 => stage[c] = "completed" /\ done[c] < BarStart(p, p.bar)
        /\ c \in p.known => /\ stage[c] = "completed" /\ done[c] <= p.at
                            /\ BarStart(p, Weeks) <= done[c] /\ done[c] < BarStart(p, p.bar)
                                 => p.count[c] = 1

ReportHolds(p) ==
    /\ p.at <= now /\ p.bar <= Weeks
    /\ p.pc = "alerts" => p.bar = 0
    /\ p.pc # "idle" /\ ~p.again => Tallied(p)

ReportsHold == report \in [Readers -> Report] /\ \A r \in Readers : ReportHolds(report[r])

DeadlinesInv == CasesHold /\ ReportsHold

-----------------------------------------------------------------------------
(* Deadlines: days and weeks *)

LEMMA WeekStartIs ==
    ASSUME NEW t \in Nat
    PROVE  WeekStart(t) \in Int /\ WeekStart(t) <= t /\ t < WeekStart(t) + Week
<1>1. Week \in Nat /\ Week > 0
  BY DeadlinesAssumption
<1>2. t % Week \in Nat /\ t % Week < Week
  BY <1>1
<1>3. QED BY <1>1, <1>2 DEF WeekStart

\* Each bar is a week long, and the one that comes last holds the day of the report.
LEMMA BarsAre ==
    ASSUME NEW p, p.at \in Nat, NEW b \in Nat
    PROVE  /\ BarStart(p, b) \in Int
           /\ BarStart(p, b - 1) = BarStart(p, b) + Week
           /\ p.at < BarStart(p, 0)
<1>1. Week \in Nat /\ WeekStart(p.at) \in Int /\ p.at < WeekStart(p.at) + Week
  BY WeekStartIs, DeadlinesAssumption
<1>2. /\ (b - 1) * Week \in Int
      /\ (b - 1 - 1) * Week = (b - 1) * Week - Week
      /\ (0 - 1) * Week = 0 - Week
  BY <1>1
<1>3. QED BY <1>1, <1>2 DEF BarStart

LEMMA ActFacts == NoAct \in Act /\ NoAct.to = "none" /\ NoAct.at = 0
BY DEF NoAct, Act

LEMMA NoReportFacts ==
    /\ NoReport \in Report /\ NoReport.pc = "idle" /\ NoReport.at = 0 /\ NoReport.bar = 0
BY DEF NoReport, Report

-----------------------------------------------------------------------------
(* Deadlines: the cases *)

\* A handler takes the time, and keeps the deadline if there is one.
LEMMA ActStep ==
    ASSUME CasesHold, NEW c \in Folders, NEW a \in Act, act' = [act EXCEPT ![c] = a],
           a.at \in {0, now}, a # NoAct => a.at = now /\ a.to # "none",
           a # NoAct /\ stage[c] # "absent" => a.due = due[c],
           UNCHANGED <<now, stage, due, done, breached>>, a = NoAct => a.to = "none"
    PROVE  CasesHold'
<1>1. now \in Nat
  BY DeadlinesAssumption DEF CasesHold, CaseTypes
<1>2. CaseTypes'
  BY DEF CasesHold, CaseTypes
<1>3. act'[c] = a /\ \A d \in Folders \ {c} : act'[d] = act[d]
  BY DEF CasesHold, CaseTypes
<1>4. CaseInv'
  BY <1>1, <1>3 DEF CasesHold, CaseInv
<1>5. a.to = "completed" => a.at = now
  OBVIOUS
<1>6. LateInv'
  BY <1>1, <1>3, <1>5 DEF CasesHold, LateInv, CaseTypes
<1>7. QED BY <1>2, <1>4, <1>6 DEF CasesHold

LEMMA CommitActStep ==
    ASSUME CasesHold, NEW c \in Folders, CommitAct(c)
    PROVE  /\ CasesHold'
           /\ stage[c] = "absent" \/ due'[c] = due[c]
           /\ \A d \in Folders \ {c} : stage'[d] = stage[d] /\ done'[d] = done[d]
<1> DEFINE a == act[c]
<1>0. /\ now \in Nat /\ a \in Act /\ a.at \in Nat /\ a.at <= now /\ a.to # "none" /\ a.due \in Nat
      /\ a.to \in {"open", "completed", "closed"}
      /\ stage[c] # "absent" => a.due = due[c]
  BY DeadlinesAssumption DEF CommitAct, CasesHold, CaseTypes, CaseInv, Act
<1>1. /\ stage' = [stage EXCEPT ![c] = a.to]
      /\ due' = [due EXCEPT ![c] = a.due]
      /\ done' = [done EXCEPT ![c] = IF a.to = "completed" THEN a.at ELSE done[c]]
      /\ act' = [act EXCEPT ![c] = NoAct]
      /\ UNCHANGED <<now, breached>>
  BY DEF CommitAct, Stamp
<1> HIDE DEF a
<1>2. /\ \A d \in Folders \ {c} : /\ stage'[d] = stage[d] /\ done'[d] = done[d]
                                  /\ due'[d] = due[d] /\ act'[d] = act[d]
      /\ stage'[c] = a.to /\ due'[c] = a.due /\ act'[c] = NoAct
      /\ done'[c] = IF a.to = "completed" THEN a.at ELSE done[c]
  BY <1>1 DEF CasesHold, CaseTypes, CaseInv
<1>3. done'[c] \in -1..now /\ (a.to = "completed" => done'[c] >= 0)
  BY <1>0, <1>2 DEF CasesHold, CaseTypes
<1>4. CaseTypes'
  <2>1. /\ stage' \in [Folders -> {"absent", "open", "completed", "closed"}]
        /\ due' \in [Folders -> Nat] /\ act' \in [Folders -> Act]
    BY <1>0, <1>1, ActFacts DEF CasesHold, CaseTypes
  <2>2. \A d \in Folders : done'[d] \in -1..now /\ (stage'[d] = "completed" => done'[d] >= 0)
    BY <1>2, <1>3 DEF CasesHold, CaseTypes
  <2>3. QED BY <1>1, <2>1, <2>2 DEF CasesHold, CaseTypes
<1>5. CaseInv'
  <2>1. done' \in [Folders -> Int]
    BY <1>0, <1>1 DEF CasesHold, CaseInv
  <2>2. QED BY <1>0, <1>1, <1>2, <2>1, ActFacts DEF CasesHold, CaseInv
<1>6. LateInv'
  <2>1. ASSUME NEW d \in breached
        PROVE  /\ stage'[d] # "absent" /\ due'[d] < now
               /\ stage'[d] = "completed" => due'[d] < done'[d]
               /\ act'[d].to = "completed" => due'[d] < act'[d].at
    <3>0. d \in Folders
      BY DEF CasesHold, CaseTypes
    <3>1. CASE d = c
      <4>1. stage[c] # "absent" /\ due[c] < now /\ a.due = due[c]
            /\ (a.to = "completed" => due[c] < a.at)
        BY <1>0, <2>1, <3>1 DEF CasesHold, LateInv, a
      <4>2. QED BY <1>0, <1>2, <3>1, <4>1, ActFacts
    <3>2. CASE d # c
      BY <1>2, <2>1, <3>0, <3>2 DEF CasesHold, LateInv
    <3>3. QED BY <3>1, <3>2
  <2>2. QED BY <1>1, <2>1 DEF LateInv
<1>7. QED BY <1>0, <1>2, <1>4, <1>5, <1>6 DEF CasesHold

LEMMA CasesStart == DeadlinesInit => CasesHold
<1> SUFFICES ASSUME DeadlinesInit PROVE CasesHold
  OBVIOUS
<1>1. 0 \in 0..MaxTime
  BY DeadlinesAssumption
<1>2. CaseTypes
  BY <1>1, ActFacts DEF DeadlinesInit, CaseTypes
<1>3. CaseInv
  BY ActFacts DEF DeadlinesInit, CaseInv
<1>4. QED BY <1>2, <1>3 DEF CasesHold, LateInv, DeadlinesInit

\* What a handler does to the cases, a report and the day included.
LEMMA CasesKeep ==
    ASSUME CasesHold, ReportsHold, [DeadlinesNext]_deadlineVars
    PROVE  CasesHold'
<1>0. now \in Nat
  BY DeadlinesAssumption DEF CasesHold, CaseTypes
<1>1. CASE Day
  <2>1. now' = now + 1 /\ now' \in 0..MaxTime /\ UNCHANGED <<stage, due, done, act, breached>>
    BY <1>0, <1>1, DeadlinesAssumption DEF Day
  <2>2. CaseTypes'
    BY <1>0, <2>1 DEF CasesHold, CaseTypes
  <2>3. \A c \in Folders : act[c].at \in Nat /\ due[c] \in Nat
    BY DEF CasesHold, CaseTypes, Act
  <2>4. CaseInv' /\ LateInv'
    BY <1>0, <2>1, <2>3 DEF CasesHold, CaseInv, LateInv, CaseTypes
  <2>5. QED BY <2>2, <2>4 DEF CasesHold
<1>2. ASSUME NEW c \in Folders, NEW eta \in Etas, Submit(c, eta) PROVE CasesHold'
  <2> DEFINE days == DaysAllowed(eta)
             a == [to |-> "open", at |-> now, due |-> now + days]
  <2>1. days \in Nat
    BY DeadlinesAssumption DEF DaysAllowed
  <2> HIDE DEF days
  <2>2. a \in Act /\ a.at = now /\ a.to = "open"
    BY <1>0, <2>1 DEF Act
  <2>3. act' = [act EXCEPT ![c] = a] /\ stage[c] = "absent" /\ UNCHANGED <<now, stage, due, done, breached>>
    BY <1>2 DEF Submit, days
  <2> HIDE DEF a
  <2>4. a # NoAct
    BY <2>2, ActFacts
  <2>5. QED BY <2>2, <2>3, <2>4, ActStep
<1>3. ASSUME NEW c \in Folders, NEW to \in {"open", "completed", "closed"}, Write(c, to) PROVE CasesHold'
  <2> DEFINE a == [to |-> to, at |-> now, due |-> due[c]]
  <2>1. a \in Act /\ a.at = now /\ a.to = to /\ a.due = due[c]
    BY <1>0 DEF Act, CasesHold, CaseTypes
  <2>2. act' = [act EXCEPT ![c] = a] /\ UNCHANGED <<now, stage, due, done, breached>>
    BY <1>3 DEF Write
  <2> HIDE DEF a
  <2>3. a # NoAct /\ a.to # "none"
    BY <2>1, ActFacts
  <2>4. QED BY <2>1, <2>2, <2>3, ActStep
<1>4. ASSUME NEW c \in Folders, LoseAct(c) PROVE CasesHold'
  <2>1. act' = [act EXCEPT ![c] = NoAct] /\ UNCHANGED <<now, stage, due, done, breached>>
    BY <1>4 DEF LoseAct
  <2>2. QED BY <2>1, ActFacts, ActStep
<1>5. ASSUME UNCHANGED <<now, stage, due, done, act, breached>> PROVE CasesHold'
  BY <1>5 DEF CasesHold, CaseTypes, CaseInv, LateInv
<1>6. ASSUME NEW r \in Readers, ReadAlerts(r) PROVE CasesHold'
  <2>1. UNCHANGED <<now, stage, due, done, act>>
        /\ breached' = breached \cup {c \in Folders : Over(c, report[r].at) /\ act[c] = NoAct}
    BY <1>6 DEF ReadAlerts
  <2>2. report[r].at \in Nat /\ report[r].at <= now
    BY DEF ReportsHold, ReportHolds, Report
  <2>3. \A c \in Folders : Over(c, report[r].at) /\ act[c] = NoAct
          => stage[c] = "open" /\ due[c] < now /\ act[c].to = "none"
    BY <1>0, <2>2, ActFacts DEF Over, CasesHold, CaseTypes
  <2>4. LateInv'
    BY <2>1, <2>3 DEF CasesHold, LateInv
  <2>5. QED BY <2>1, <2>4 DEF CasesHold, CaseTypes, CaseInv
<1>7. CASE DeadlinesNext
  BY <1>1, <1>2, <1>3, <1>4, <1>5, <1>6, <1>7, CommitActStep
     DEF DeadlinesNext, BeginReport, ReadBar, EndBars
<1>8. CASE UNCHANGED deadlineVars
  BY <1>5, <1>8 DEF deadlineVars
<1>9. QED BY <1>7, <1>8
-----------------------------------------------------------------------------
(* Deadlines: the reports *)

\* Time goes on, cases are handled, and no report is touched.
LEMMA ReportsAside ==
    ASSUME CasesHold, ReportsHold, report' = report, UNCHANGED <<stage, done>>,
           now' \in Nat, now <= now'
    PROVE  ReportsHold'
<1>1. ASSUME NEW r \in Readers PROVE ReportHolds(report[r])'
  <2>1. ReportHolds(report[r]) /\ report[r].at \in Nat /\ now \in Nat
    BY DeadlinesAssumption DEF ReportsHold, Report, CasesHold, CaseTypes
  <2>2. QED BY <2>1 DEF ReportHolds, Tallied, BarStart, WeekStart
<1>2. QED BY <1>1 DEF ReportsHold

\* One report goes on.
LEMMA ReportStep ==
    ASSUME CasesHold, ReportsHold, NEW r \in Readers, NEW p \in Report,
           report' = [report EXCEPT ![r] = p], UNCHANGED <<now, stage, done>>, ReportHolds(p)
    PROVE  ReportsHold'
<1>1. ASSUME NEW o \in Readers PROVE ReportHolds(report[o])'
  <2>1. ReportHolds(report'[o])
    BY DEF ReportsHold
  <2>2. QED BY <2>1 DEF ReportHolds, Tallied, BarStart, WeekStart
<1>2. QED BY <1>1 DEF ReportsHold

\* A completed case that is written again spoils the reports under way; another that
\* is written is in none of them.
LEMMA CommitActReports ==
    ASSUME CasesHold, ReportsHold, NEW c \in Folders, CommitAct(c)
    PROVE  ReportsHold'
<1>0. now' = now
  BY DEF CommitAct
<1>1. CASE stage[c] # "completed"
  <2>1. report' = report
    BY <1>1 DEF CommitAct
  <2>2. ASSUME NEW r \in Readers PROVE ReportHolds(report[r])'
    <3> DEFINE p == report[r]
    <3>1. ReportHolds(p) /\ p \in Report
      BY DEF ReportsHold
    <3>2. \A d \in Folders \ {c} : stage'[d] = stage[d] /\ done'[d] = done[d]
      BY CommitActStep
    <3>3. ASSUME Tallied(p) PROVE Tallied(p)'
      <4>1. p.count[c] # 1 /\ p.count[c] <= 1 /\ c \notin p.known
        BY <1>1, <3>3 DEF Tallied
      <4>2. report'[r] = p
        BY <2>1
      <4>3. QED BY <3>2, <3>3, <4>1, <4>2 DEF Tallied, BarStart, WeekStart
    <3>4. QED BY <1>0, <2>1, <3>1, <3>3 DEF ReportHolds
  <2>3. QED BY <2>1, <2>2 DEF ReportsHold
<1>2. CASE stage[c] = "completed"
  <2>1. ASSUME NEW r \in Readers
        PROVE  /\ report'[r] \in Report
               /\ ReportHolds(report[r])'
    <3> DEFINE p == report[r]
               n == [p EXCEPT !.again = p.again \/ p.pc # "idle"]
    <3>1. ReportHolds(p) /\ p \in Report
      BY DEF ReportsHold
    <3>2. /\ n \in Report /\ n.at = p.at /\ n.bar = p.bar /\ n.pc = p.pc
          /\ n.again = (p.again \/ p.pc # "idle")
      BY <3>1 DEF Report
    <3>3. report'[r] = n
      BY <1>2 DEF CommitAct
    <3> HIDE DEF n
    <3>4. QED BY <1>0, <3>1, <3>2, <3>3 DEF ReportHolds
  <2>2. report' \in [Readers -> Report]
    <3>1. report' = [r \in Readers |-> report'[r]]
      BY <1>2 DEF CommitAct
    <3>2. QED BY <2>1, <3>1
  <2>3. QED BY <2>1, <2>2 DEF ReportsHold
<1>3. QED BY <1>1, <1>2

LEMMA BeginReportStep ==
    ASSUME CasesHold, ReportsHold, NEW r \in Readers, BeginReport(r)
    PROVE  ReportsHold'
<1> DEFINE known == {c \in Folders : stage[c] = "completed"}
           p == [NoReport EXCEPT !.pc = "bars", !.at = now, !.bar = Weeks, !.known = known]
<1>0. now \in Nat /\ Weeks \in Nat
  BY DeadlinesAssumption DEF CasesHold, CaseTypes
<1>1. report' = [report EXCEPT ![r] = p] /\ UNCHANGED <<now, stage, done>>
  BY DEF BeginReport
<1>2. p \in Report
  BY <1>0, NoReportFacts DEF Report
<1>3. /\ p.pc = "bars" /\ p.at = now /\ p.bar = Weeks /\ p.known = known
      /\ \A c \in Folders : p.count[c] = 0
  BY DEF NoReport
<1>4. \A c \in known : stage[c] = "completed" /\ done[c] <= now /\ c \in Folders
  BY DEF CasesHold, CaseTypes
<1> HIDE DEF p, known
<1>5. \A c \in Folders : done[c] \in Int
  BY DEF CasesHold, CaseInv
<1>6. Tallied(p)
  <2>1. BarStart(p, Weeks) \in Int
    BY <1>0, <1>3, BarsAre
  <2>2. QED BY <1>3, <1>4, <1>5, <2>1 DEF Tallied
<1>7. ReportHolds(p)
  BY <1>0, <1>3, <1>6 DEF ReportHolds
<1>8. QED BY <1>1, <1>2, <1>7, ReportStep

\* The next week holds nothing that an earlier one has held.
LEMMA ReadBarStep ==
    ASSUME CasesHold, ReportsHold, NEW r \in Readers, ReadBar(r)
    PROVE  ReportsHold'
<1> DEFINE p == report[r]
           start == BarStart(p, p.bar)
           count == [c \in Folders |-> IF stage[c] = "completed" /\ InWeek(done[c], start)
                                       THEN p.count[c] + 1 ELSE p.count[c]]
           n == [p EXCEPT !.bar = p.bar - 1, !.count = count]
<1>0. p \in Report /\ ReportHolds(p) /\ p.bar \in Nat /\ p.bar > 0 /\ p.at \in Nat /\ p.pc = "bars"
  BY DEF ReportsHold, ReadBar, Report
<1>1. report' = [report EXCEPT ![r] = n] /\ UNCHANGED <<now, stage, done>>
  BY DEF ReadBar, BarStart
<1>2. p.count \in [Folders -> Nat]
  BY <1>0 DEF Report
<1>3. count \in [Folders -> Nat]
  BY <1>2
<1>4. /\ n \in Report /\ n.pc = p.pc /\ n.at = p.at /\ n.bar = p.bar - 1 /\ n.count = count
      /\ n.known = p.known /\ n.again = p.again
  <2> DEFINE left == p.bar - 1
  <2>1. left \in Nat
    BY <1>0
  <2> HIDE DEF count, left
  <2>2. [p EXCEPT !.bar = left, !.count = count] \in Report
    BY <1>0, <1>3, <2>1 DEF Report
  <2>3. QED BY <1>0, <2>2 DEF Report, left
<1> HIDE DEF n
<1>5. /\ start \in Int /\ BarStart(n, n.bar) = start + Week
      /\ BarStart(n, Weeks) = BarStart(p, Weeks) /\ BarStart(p, Weeks) \in Int /\ Week \in Nat
  <2>1. BarStart(p, p.bar - 1) = start + Week /\ start \in Int
    BY <1>0, BarsAre
  <2>2. BarStart(p, Weeks) \in Int
    BY <1>0, BarsAre, DeadlinesAssumption
  <2>3. \A b : BarStart(n, b) = BarStart(p, b)
    BY <1>4 DEF BarStart
  <2>4. QED BY <1>4, <2>1, <2>2, <2>3, DeadlinesAssumption
<1>6. ASSUME Tallied(p) PROVE Tallied(n)
  <2>1. ASSUME NEW c \in Folders
        PROVE  /\ count[c] <= 1
               /\ count[c] = 1 => stage[c] = "completed" /\ done[c] < start + Week
               /\ c \in p.known => /\ stage[c] = "completed" /\ done[c] <= p.at
                                   /\ BarStart(p, Weeks) <= done[c] /\ done[c] < start + Week
                                        => count[c] = 1
    <3>1. done[c] \in Int /\ p.count[c] \in Nat
      BY <1>2 DEF CasesHold, CaseInv
    <3>2. /\ p.count[c] <= 1
          /\ p.count[c] = 1 => stage[c] = "completed" /\ done[c] < start
          /\ c \in p.known => /\ stage[c] = "completed" /\ done[c] <= p.at
                              /\ BarStart(p, Weeks) <= done[c] /\ done[c] < start
                                   => p.count[c] = 1
      BY <1>6 DEF Tallied
    <3>3. count[c] = IF stage[c] = "completed" /\ start <= done[c] /\ done[c] < start + Week
                     THEN p.count[c] + 1 ELSE p.count[c]
      BY DEF InWeek
    <3> HIDE DEF count, start
    <3>4. QED BY <1>5, <3>1, <3>2, <3>3
  <2> HIDE DEF count, start
  <2>2. QED BY <1>4, <1>5, <2>1 DEF Tallied
<1>7. ReportHolds(n)
  BY <1>0, <1>4, <1>6, DeadlinesAssumption DEF ReportHolds
<1>8. QED BY <1>1, <1>4, <1>7, ReportStep

LEMMA EndBarsStep ==
    ASSUME CasesHold, ReportsHold, NEW r \in Readers, EndBars(r)
    PROVE  ReportsHold'
<1> DEFINE p == report[r]
           n == [p EXCEPT !.pc = "alerts"]
<1>0. p \in Report /\ ReportHolds(p) /\ p.bar = 0 /\ p.pc = "bars"
  BY DEF ReportsHold, EndBars
<1>1. report' = [report EXCEPT ![r] = n] /\ UNCHANGED <<now, stage, done>>
  BY DEF EndBars
<1>2. /\ n \in Report /\ n.pc = "alerts" /\ n.at = p.at /\ n.bar = p.bar /\ n.count = p.count
      /\ n.known = p.known /\ n.again = p.again
  BY <1>0 DEF Report
<1> HIDE DEF n
<1>3. Tallied(p) => Tallied(n)
  BY <1>2 DEF Tallied, BarStart
<1>4. ReportHolds(n)
  BY <1>0, <1>2, <1>3 DEF ReportHolds
<1>5. QED BY <1>1, <1>2, <1>4, ReportStep

LEMMA ReportsKeep ==
    ASSUME CasesHold, ReportsHold, [DeadlinesNext]_deadlineVars
    PROVE  ReportsHold'
<1>0. now \in Nat
  BY DeadlinesAssumption DEF CasesHold, CaseTypes
<1>1. ASSUME UNCHANGED <<report, stage, done, now>> PROVE ReportsHold'
  BY <1>0, <1>1, ReportsAside
<1>2. CASE Day
  BY <1>0, <1>2, ReportsAside DEF Day
<1>3. ASSUME NEW r \in Readers, ReadAlerts(r) PROVE ReportsHold'
  <2>1. ReportHolds(NoReport)
    BY <1>0, NoReportFacts, DeadlinesAssumption DEF ReportHolds
  <2>2. QED BY <1>3, <2>1, NoReportFacts, ReportStep DEF ReadAlerts
<1>4. CASE DeadlinesNext
  BY <1>1, <1>2, <1>3, <1>4, CommitActReports, BeginReportStep, ReadBarStep, EndBarsStep
     DEF DeadlinesNext, Submit, Write, LoseAct
<1>5. CASE UNCHANGED deadlineVars
  BY <1>1, <1>5 DEF deadlineVars
<1>6. QED BY <1>4, <1>5

LEMMA ReportsStart == DeadlinesInit => ReportsHold
<1> SUFFICES ASSUME DeadlinesInit PROVE ReportsHold
  OBVIOUS
<1>1. now = 0 /\ report = [r \in Readers |-> NoReport]
  BY DEF DeadlinesInit
<1>2. ReportHolds(NoReport)
  BY <1>1, NoReportFacts, DeadlinesAssumption DEF ReportHolds
<1>3. QED BY <1>1, <1>2, NoReportFacts DEF ReportsHold

LEMMA DeadlinesInvSuffices == DeadlinesInv => ReportsAgree
<1> SUFFICES ASSUME DeadlinesInv PROVE ReportsAgree
  OBVIOUS
<1>1. DeadlinesTypeOK
  BY DEF DeadlinesInv, CasesHold, CaseTypes, ReportsHold, DeadlinesTypeOK
<1>2. LateIsNeverInTime
  <2>1. \A c \in breached : due[c] \in Nat /\ done[c] \in Int
    BY DEF DeadlinesInv, CasesHold, CaseTypes, CaseInv
  <2>2. QED BY <2>1 DEF DeadlinesInv, CasesHold, LateInv, LateIsNeverInTime, InTime
<1>3. CountedOnce
  <2>1. ASSUME NEW r \in Readers, report[r].pc = "alerts", ~report[r].again, NEW c \in Folders
        PROVE  /\ report[r].count[c] <= 1
               /\ c \in report[r].known
                    /\ done[c] >= WeekStart(report[r].at) - (Weeks - 1) * Week
                  => report[r].count[c] = 1
    <3> DEFINE p == report[r]
    <3>1. Tallied(p) /\ p.bar = 0 /\ p.at \in Nat
      BY <2>1 DEF DeadlinesInv, ReportsHold, ReportHolds, Report
    <3>2. p.at < BarStart(p, 0) /\ BarStart(p, 0) \in Int /\ BarStart(p, Weeks) \in Int
      BY <3>1, BarsAre, DeadlinesAssumption
    <3>3. done[c] \in Int
      BY DEF DeadlinesInv, CasesHold, CaseInv
    <3>4. c \in p.known => done[c] < BarStart(p, 0)
      BY <3>1, <3>2, <3>3 DEF Tallied
    <3>5. c \in p.known /\ BarStart(p, Weeks) <= done[c] => p.count[c] = 1
      BY <3>1, <3>4 DEF Tallied
    <3>6. done[c] >= BarStart(p, Weeks) <=> BarStart(p, Weeks) <= done[c]
      BY <3>2, <3>3
    <3>7. QED BY <3>1, <3>5, <3>6 DEF Tallied, BarStart
  <2>2. QED BY <2>1 DEF CountedOnce
<1>4. QED BY <1>1, <1>2, <1>3 DEF ReportsAgree

\* A case that was called late never counts as closed in time, and a report that is
\* read while cases go on counts no completion twice and misses none that it knows,
\* for any length of the week and any number of bars.
THEOREM ReportsAlwaysAgree == DeadlinesSpec => []ReportsAgree
<1>1. DeadlinesInit => DeadlinesInv
  BY CasesStart, ReportsStart DEF DeadlinesInv
<1>2. DeadlinesInv /\ [DeadlinesNext]_deadlineVars => DeadlinesInv'
  BY CasesKeep, ReportsKeep DEF DeadlinesInv
<1>3. QED BY <1>1, <1>2, DeadlinesInvSuffices, PTL DEF DeadlinesSpec
===============================================================================
