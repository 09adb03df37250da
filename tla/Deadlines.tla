------------------------------- MODULE Deadlines -------------------------------
(***************************************************************************)
(* The deadline of a case and the reports that are made of it: sla_state   *)
(* of src/app/modules/applications/constants.py, the figures and alerts of *)
(* src/app/modules/analytics/service.py, and an agent's weekly bars in     *)
(* src/app/modules/assignments/service.py.                                 *)
(*                                                                         *)
(* A handler takes the time, writes it and commits later; a report takes   *)
(* the time once and then reads statement by statement, while cases go on. *)
(* Handlers of one case do not overlap here (Cases has what happens when   *)
(* they do).  Time is counted in days from a Monday, and the cases of the  *)
(* bars are all the reader's own.                                          *)
(***************************************************************************)
EXTENDS Integers, FiniteSets

CONSTANTS
    Folders,     \* cases
    Readers,     \* sessions that make reports
    Etas,        \* eta_business_days of the tiers
    Week,        \* days in a week
    Weeks,       \* bars in a report
    MaxTime      \* bound on days

ASSUME DeadlinesAssumption ==
    /\ Etas \subseteq Nat \ {0}
    /\ Week \in Nat \ {0} /\ Weeks \in Nat \ {0} /\ MaxTime \in Nat

VARIABLES
    now,
    stage,     \* "open" for the statuses that are not terminal, "closed" for rejected and cancelled
    due,       \* sla_deadline
    done,      \* completed_at, -1 for NULL
    act,       \* what the handler of each case is about to commit
    report,    \* what each report has read
    breached   \* history: cases that a report has called late, no handler of them under way

deadlineVars == <<now, stage, due, done, act, report, breached>>

-----------------------------------------------------------------------------
Act == [to : {"none", "open", "completed", "closed"}, at : Nat, due : Nat]
NoAct == [to |-> "none", at |-> 0, due |-> 0]

Report == [pc    : {"idle", "bars", "alerts"},
           at    : Nat,
           bar   : Nat,                  \* how many weeks back the next bar is, plus one
           count : [Folders -> Nat],     \* in how many bars the completion of each case is
           known : SUBSET Folders,       \* completed before the report began,
           again : BOOLEAN]              \* and whether one of them was written since
NoReport == [pc |-> "idle", at |-> 0, bar |-> 0, count |-> [c \in Folders |-> 0],
             known |-> {}, again |-> FALSE]

DeadlinesInit ==
    /\ now = 0
    /\ stage = [c \in Folders |-> "absent"]
    /\ due = [c \in Folders |-> 0]
    /\ done = [c \in Folders |-> -1]
    /\ act = [c \in Folders |-> NoAct]
    /\ report = [r \in Readers |-> NoReport]
    /\ breached = {}

Day ==
    /\ now < MaxTime
    /\ now' = now + 1
    /\ UNCHANGED <<stage, due, done, act, report, breached>>

-----------------------------------------------------------------------------
(* Cases *)

\* compute_sla_deadline: eta * 1.4, rounded up
DaysAllowed(eta) == (14 * eta + 9) \div 10

Submit(c, eta) ==
    /\ stage[c] = "absent" /\ act[c] = NoAct
    /\ act' = [act EXCEPT ![c] = [to |-> "open", at |-> now, due |-> now + DaysAllowed(eta)]]
    /\ UNCHANGED <<now, stage, due, done, report, breached>>

\* _apply_status_change.  With force an administrator may write any status over any
\* other: a completed case is completed again, a closed one opened again.
Write(c, to) ==
    /\ stage[c] # "absent" /\ act[c] = NoAct
    /\ act' = [act EXCEPT ![c] = [to |-> to, at |-> now, due |-> due[c]]]
    /\ UNCHANGED <<now, stage, due, done, report, breached>>

Stamp(c) == IF act[c].to = "completed" THEN act[c].at ELSE done[c]

CommitAct(c) ==
    /\ act[c] # NoAct
    /\ stage' = [stage EXCEPT ![c] = act[c].to]
    /\ due' = [due EXCEPT ![c] = act[c].due]
    /\ done' = [done EXCEPT ![c] = Stamp(c)]
    /\ act' = [act EXCEPT ![c] = NoAct]
    /\ report' = IF stage[c] # "completed" THEN report
                 ELSE [r \in Readers |-> [report[r] EXCEPT !.again = @ \/ report[r].pc # "idle"]]
    /\ UNCHANGED <<now, breached>>

LoseAct(c) ==
    /\ act[c] # NoAct
    /\ act' = [act EXCEPT ![c] = NoAct]
    /\ UNCHANGED <<now, stage, due, done, report, breached>>

-----------------------------------------------------------------------------
(* Reports *)

BeginReport(r) ==
    /\ report[r] = NoReport
    /\ report' = [report EXCEPT ![r] =
                    [NoReport EXCEPT !.pc = "bars", !.at = now, !.bar = Weeks,
                                     !.known = {c \in Folders : stage[c] = "completed"}]]
    /\ UNCHANGED <<now, stage, due, done, act, breached>>

WeekStart(t) == t - (t % Week)

\* Mutation: the end of a week belongs to it.
WithEnd(t, start) == start <= t /\ t <= start + Week

InWeek(t, start) == start <= t /\ t < start + Week

\* _weekly_bars, the oldest week first
ReadBar(r) ==
    LET p == report[r]
        start == WeekStart(p.at) - (p.bar - 1) * Week
    IN  /\ p.pc = "bars" /\ p.bar > 0
        /\ report' = [report EXCEPT ![r] =
             [p EXCEPT !.bar = @ - 1,
                       !.count = [c \in Folders |->
                                    IF stage[c] = "completed" /\ InWeek(done[c], start)
                                    THEN p.count[c] + 1 ELSE p.count[c]]]]
        /\ UNCHANGED <<now, stage, due, done, act, breached>>

EndBars(r) ==
    /\ report[r].pc = "bars" /\ report[r].bar = 0
    /\ report' = [report EXCEPT ![r].pc = "alerts"]
    /\ UNCHANGED <<now, stage, due, done, act, breached>>

\* compute_sla_state is "over"
Over(c, t) == stage[c] = "open" /\ t > due[c]

\* _alerts, and the cases that list_cases shows for their deadline
ReadAlerts(r) ==
    /\ report[r].pc = "alerts"
    /\ breached' = breached \cup {c \in Folders : Over(c, report[r].at) /\ act[c] = NoAct}
    /\ report' = [report EXCEPT ![r] = NoReport]
    /\ UNCHANGED <<now, stage, due, done, act>>

DeadlinesNext ==
    \/ Day
    \/ \E c \in Folders : \/ \E eta \in Etas : Submit(c, eta)
                          \/ \E to \in {"open", "completed", "closed"} : Write(c, to)
                          \/ CommitAct(c)
                          \/ LoseAct(c)
    \/ \E r \in Readers : \/ BeginReport(r)
                          \/ ReadBar(r)
                          \/ EndBars(r)
                          \/ ReadAlerts(r)

DeadlinesSpec == DeadlinesInit /\ [][DeadlinesNext]_deadlineVars

-----------------------------------------------------------------------------
(* Properties *)

DeadlinesTypeOK ==
    /\ now \in 0..MaxTime
    /\ stage \in [Folders -> {"absent", "open", "completed", "closed"}]
    /\ due \in [Folders -> Nat]
    /\ \A c \in Folders : done[c] \in -1..now /\ (stage[c] = "completed" => done[c] >= 0)
    /\ act \in [Folders -> Act]
    /\ report \in [Readers -> Report]
    /\ breached \subseteq Folders

\* _build_metrics: a completed case that counts for the share closed in time
InTime(c) == stage[c] = "completed" /\ done[c] <= due[c]

\* A case that a report has called late, while no handler of it was under way, never
\* counts as closed in time afterwards, however often it is opened and completed
\* again: the deadline stands, and each completion takes its own time.
LateIsNeverInTime == \A c \in breached : ~InTime(c)

\* In a report that is read while cases are completed, a completion is in one week
\* at most, and one that was there before the report began is in exactly one if its
\* week is shown, unless a completed case was written again in the meantime.
CountedOnce ==
    \A r \in Readers : report[r].pc = "alerts" /\ ~report[r].again =>
        \A c \in Folders :
            /\ report[r].count[c] <= 1
            /\ c \in report[r].known
                 /\ done[c] >= WeekStart(report[r].at) - (Weeks - 1) * Week
               => report[r].count[c] = 1

\* Reports that are made while cases go on agree with the cases and with one another.
ReportsAgree == DeadlinesTypeOK /\ LateIsNeverInTime /\ CountedOnce
=============================================================================
