------------------------------- MODULE Messages -------------------------------
(***************************************************************************)
(* The messages of one case: src/app/modules/messages.  Client, agent and  *)
(* system write them; the client reads a list and, in another request,     *)
(* marks as read whatever there is by then.                                *)
(***************************************************************************)
EXTENDS Integers, FiniteSets

CONSTANTS
    Msgs,            \* message ids
    Writers,         \* agents that may be given the case
    Nobody,          \* SQL NULL
    Desks,           \* sessions of the API processes
    ClientHasEmail,  \* an account may have a phone number only
    MaxHangups       \* bound on requests lost to a crash

ASSUME MessagesAssumption ==
    /\ IsFiniteSet(Msgs)
    /\ Nobody \notin Msgs \cup Writers
    /\ ClientHasEmail \in BOOLEAN
    /\ MaxHangups \in Nat

VARIABLES
    message,   \* rows of application_messages
    agent,     \* assigned_agent_id of the case
    desk,      \* what each session has loaded and flushed
    announced,    \* messages announced to the client
    notified,  \* messages announced to an agent, with the agent
    listed,    \* messages that a list has shown to the client
    hangups

messageVars == <<message, agent, desk, announced, notified, listed, hangups>>

-----------------------------------------------------------------------------
Roles == {"client", "staff:agent", "system"}
Message == [role : Roles, internal : BOOLEAN, system : BOOLEAN, read : BOOLEAN]
NoMessage == [role |-> "none", internal |-> FALSE, system |-> FALSE, read |-> FALSE]

Posted == {m \in Msgs : message[m] # NoMessage}

Desk == [pc : {"idle", "write", "mail", "mark", "commit"}, msg : Msgs \cup {Nobody},
         row : Message \cup {NoMessage}, agent : Writers \cup {Nobody},
         marks : SUBSET Msgs]
Vacant == [pc |-> "idle", msg |-> Nobody, row |-> NoMessage, agent |-> Nobody, marks |-> {}]

MessagesInit ==
    /\ message = [m \in Msgs |-> NoMessage]
    /\ agent = Nobody
    /\ desk = [s \in Desks |-> Vacant]
    /\ announced = {}
    /\ notified = {}
    /\ listed = {}
    /\ hangups = 0

-----------------------------------------------------------------------------
(* create_system_message, post_client_message, post_agent_message *)

SystemMessage == [role |-> "system", internal |-> FALSE, system |-> TRUE, read |-> FALSE]
ClientMessage == [role |-> "client", internal |-> FALSE, system |-> FALSE, read |-> TRUE]
AgentMessage(internal) ==
    [role |-> "staff:agent", internal |-> internal, system |-> FALSE, read |-> FALSE]

\* Each loads the case; an agent must be the one it is assigned to.
Post(s, m, row) ==
    /\ desk[s] = Vacant
    /\ message[m] = NoMessage /\ \A o \in Desks : desk[o].msg # m
    /\ row.role = "staff:agent" => agent # Nobody
    /\ desk' = [desk EXCEPT ![s] = [Vacant EXCEPT !.pc = "write", !.msg = m, !.row = row,
                                                  !.agent = agent]]
    /\ UNCHANGED <<message, agent, announced, notified, listed, hangups>>

\* The row is committed before anybody is told; system messages are not announced.
WriteMessage(s) ==
    LET d == desk[s]
    IN  /\ d.pc = "write"
        /\ message' = [message EXCEPT ![d.msg] = d.row]
        /\ desk' = [desk EXCEPT ![s] = IF d.row.role = "system" THEN Vacant
                                       ELSE [d EXCEPT !.pc = "mail"]]
        /\ UNCHANGED <<agent, announced, notified, listed, hangups>>

AnnouncedToClient(row) == row.role = "staff:agent" /\ ~row.internal

Announce(s) ==
    LET d == desk[s]
    IN  /\ d.pc = "mail"
        /\ announced' = IF AnnouncedToClient(d.row) /\ ClientHasEmail
                     THEN announced \cup {d.msg} ELSE announced
        /\ notified' = IF d.row.role = "client" /\ d.agent # Nobody
                       THEN notified \cup {<<d.msg, d.agent>>} ELSE notified
        /\ desk' = [desk EXCEPT ![s] = Vacant]
        /\ UNCHANGED <<message, agent, listed, hangups>>

-----------------------------------------------------------------------------
(* list_client_messages, mark_read_by_client and the two counts *)

ForClient == {m \in Posted : ~message[m].internal}

ListClientMessages ==
    /\ listed' = listed \cup ForClient
    /\ UNCHANGED <<message, agent, desk, announced, notified, hangups>>

\* The WHERE of the UPDATE.  Mutation: notes are marked along with messages.
NotesToo(m) == message[m].role = "staff:agent" /\ ~message[m].read

Markable(m) ==
    /\ ~message[m].internal /\ ~message[m].system
    /\ message[m].role = "staff:agent"
    /\ ~message[m].read

\* count_unread_for_client, which does not look at is_system
Unread == {m \in Posted : /\ ~message[m].internal
                          /\ message[m].role = "staff:agent"
                          /\ ~message[m].read}

MarkRead(s) ==
    /\ desk[s] = Vacant
    /\ desk' = [desk EXCEPT ![s] = [Vacant EXCEPT !.pc = "commit",
                                                  !.marks = {m \in Posted : Markable(m)}]]
    /\ UNCHANGED <<message, agent, announced, notified, listed, hangups>>

CommitMarks(s) ==
    /\ desk[s].pc = "commit"
    /\ message' = [m \in Msgs |-> IF m \in desk[s].marks THEN [message[m] EXCEPT !.read = TRUE]
                                  ELSE message[m]]
    /\ desk' = [desk EXCEPT ![s] = Vacant]
    /\ UNCHANGED <<agent, announced, notified, listed, hangups>>

-----------------------------------------------------------------------------
\* do_assign gives the case to an agent, and later to another.
Reassign(a) ==
    /\ a # agent
    /\ agent' = a
    /\ UNCHANGED <<message, desk, announced, notified, listed, hangups>>

HangUp(s) ==
    /\ desk[s] # Vacant /\ hangups < MaxHangups
    /\ hangups' = hangups + 1
    /\ desk' = [desk EXCEPT ![s] = Vacant]
    /\ UNCHANGED <<message, agent, announced, notified, listed>>

MessagesNext ==
    \/ \E s \in Desks :
         \/ \E m \in Msgs : \/ Post(s, m, SystemMessage)
                            \/ Post(s, m, ClientMessage)
                            \/ \E internal \in BOOLEAN : Post(s, m, AgentMessage(internal))
         \/ WriteMessage(s)
         \/ Announce(s)
         \/ MarkRead(s)
         \/ CommitMarks(s)
         \/ HangUp(s)
    \/ ListClientMessages
    \/ \E a \in Writers : Reassign(a)

MessagesSpec == MessagesInit /\ [][MessagesNext]_messageVars

-----------------------------------------------------------------------------
(* Properties *)

MessagesTypeOK ==
    /\ message \in [Msgs -> Message \cup {NoMessage}]
    /\ agent \in Writers \cup {Nobody}
    /\ desk \in [Desks -> Desk]
    /\ announced \subseteq Msgs
    /\ notified \subseteq Msgs \X Writers
    /\ listed \subseteq Msgs
    /\ hangups \in Nat

\* An agent's message that the client marked as read without having been shown it
\* was announced by e-mail, or is about to be, unless the request that wrote it died.
UnseenWereMailed ==
    LET unseen == {m \in Posted : message[m].role = "staff:agent" /\ message[m].read} \ listed
        waiting == {m \in Msgs : \E s \in Desks : desk[s].msg = m /\ desk[s].pc = "mail"}
    IN  ClientHasEmail => Cardinality(unseen \ (announced \cup waiting)) <= hangups

\* Whatever the badge counts, marking the messages as read can clear.
BadgeClears == \A m \in Unread : Markable(m)

\* No list and no e-mail shows the client what was meant for staff, and no mark
\* claims that it did.
NotesStayInside ==
    \A m \in Posted : message[m].internal => /\ m \notin listed \cup announced
                                             /\ ~message[m].read

\* Messages reach whom they are meant for: what the client missed was mailed, the
\* badge can be cleared, and notes stay with the staff.
MessagesHold == MessagesTypeOK /\ UnseenWereMailed /\ BadgeClears /\ NotesStayInside
=============================================================================
