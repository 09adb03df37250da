------------------------------ MODULE Oversight ------------------------------
(***************************************************************************)
(* The escalations of one case: src/app/modules/oversight.  Supervisors    *)
(* raise them and resolve the latest that is open; the case is shown as    *)
(* disputed while one is.                                                  *)
(***************************************************************************)
EXTENDS Integers, FiniteSets

CONSTANTS
    Escalations,  \* escalation ids
    Supervisors,  \* sessions of the API processes
    Void          \* nothing loaded

ASSUME OversightAssumption == IsFiniteSet(Escalations) /\ Void \notin Escalations

VARIABLES
    escalation,  \* oversight_status of the rows of application_escalations,
    raisedAt,    \* and their created_at
    ruling,      \* what each session is about to commit
    clock,       \* the created_at that comes next
    resolved     \* history: the sessions' resolutions that committed

oversightVars == <<escalation, raisedAt, ruling, clock, resolved>>

-----------------------------------------------------------------------------
Ruling == [op : {"none", "escalate", "resolve"}, on : Escalations \cup {Void}]
NoRuling == [op |-> "none", on |-> Void]

Open == {e \in Escalations : escalation[e] = "escalated"}
Raised == {e \in Escalations : escalation[e] # "none"}

OversightInit ==
    /\ escalation = [e \in Escalations |-> "none"]
    /\ raisedAt = [e \in Escalations |-> 0]
    /\ ruling = [s \in Supervisors |-> NoRuling]
    /\ clock = 1
    /\ resolved = 0

\* created_at is taken before the commit: rows may become visible in another order.
Escalate(s, e) ==
    /\ ruling[s] = NoRuling
    /\ raisedAt[e] = 0
    /\ raisedAt' = [raisedAt EXCEPT ![e] = clock]
    /\ clock' = clock + 1
    /\ ruling' = [ruling EXCEPT ![s] = [op |-> "escalate", on |-> e]]
    /\ UNCHANGED <<escalation, resolved>>

\* get_active_escalation
LatestOpen(e) == e \in Open /\ \A o \in Open : raisedAt[o] <= raisedAt[e]

Resolve(s) ==
    /\ ruling[s] = NoRuling
    /\ \E e \in Escalations :
         /\ LatestOpen(e)
         /\ ruling' = [ruling EXCEPT ![s] = [op |-> "resolve", on |-> e]]
    /\ UNCHANGED <<escalation, raisedAt, clock, resolved>>

\* Mutation: every escalation of the case is closed at once.
AllClosed(e) == [o \in Escalations |-> IF o \in Open THEN "resolved" ELSE escalation[o]]

Closed(e) == [escalation EXCEPT ![e] = "resolved"]

CommitEscalation(s) ==
    LET r == ruling[s]
    IN  /\ r # NoRuling
        /\ escalation' = IF r.op = "resolve" THEN Closed(r.on)
                         ELSE [escalation EXCEPT ![r.on] = "escalated"]
        /\ resolved' = IF r.op = "resolve" THEN resolved + 1 ELSE resolved
        /\ ruling' = [ruling EXCEPT ![s] = NoRuling]
        /\ UNCHANGED <<raisedAt, clock>>

Abandon(s) ==
    /\ ruling[s] # NoRuling
    /\ ruling' = [ruling EXCEPT ![s] = NoRuling]
    /\ UNCHANGED <<escalation, raisedAt, clock, resolved>>

OversightNext ==
    \E s \in Supervisors : \/ \E e \in Escalations : Escalate(s, e)
                           \/ Resolve(s)
                           \/ CommitEscalation(s)
                           \/ Abandon(s)

OversightSpec == OversightInit /\ [][OversightNext]_oversightVars

-----------------------------------------------------------------------------
(* Properties *)

OversightTypeOK ==
    /\ escalation \in [Escalations -> {"none", "escalated", "resolved"}]
    /\ raisedAt \in [Escalations -> Nat]
    /\ ruling \in [Supervisors -> Ruling]
    /\ clock \in Nat
    /\ resolved \in Nat

\* Each escalation needs a resolution of its own: two resolutions that overlap
\* may close the same one, but none closes two, and none is answered twice.
EachResolved == OversightTypeOK /\ Cardinality(Raised \ Open) <= resolved
=============================================================================
