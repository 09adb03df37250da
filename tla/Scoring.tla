-------------------------------- MODULE Scoring --------------------------------
(***************************************************************************)
(* Whom the automatic assignment picks: score_agents of                    *)
(* src/app/modules/assignments/service.py over the three queries of        *)
(* assignments/repository.py, for cases of one service category.  What the *)
(* assignment does to the case is the business of Cases, where any         *)
(* eligible agent may be picked.                                           *)
(*                                                                         *)
(* The queries are statements of their own, and the rows change between    *)
(* them and before the assignment commits.  Points are counted in tenths.  *)
(***************************************************************************)
EXTENDS Integers, FiniteSets

CONSTANTS
    Staff,        \* users with role staff:agent and a row of agent_settings
    Scorers,      \* sessions that run score_agents
    Caps,         \* values of daily_case_cap
    Levels,       \* values of proficiency_level
    Rates,        \* values of the compliance rate, in percent
    Unset,        \* SQL NULL
    MaxScored,    \* bound: no session begins to score after so many assignments
    MaxMoves      \* bound on cases that come or go by other ways, and on changes to agents

MIN_ASSIGNMENT_SCORE == 15
SOFT_CAP == 20

ASSUME ScoringAssumption ==
    /\ IsFiniteSet(Scorers)
    /\ Caps \subseteq Nat \ {0}
    /\ Levels \subseteq 1..5
    /\ Rates \subseteq 0..100
    /\ Unset \notin Nat /\ Unset \notin Staff
    /\ MaxScored \in Nat /\ MaxMoves \in Nat

VARIABLES
    open,      \* is_active, accepting_cases and a recent session, all three
    cap,       \* daily_case_cap
    skill,     \* proficiency_level in the category, Unset for no row
    rate,      \* share of the completed cases that were in time, Unset for none
    load,      \* cases that are not in a terminal status
    today,     \* assignments since midnight
    lastAt,    \* created_at of the last one, 0 for none
    scorer,    \* what each session has read and decided
    clock, moves,
    automatic, \* history: those of today that score_agents has decided,
    highest    \* and the highest cap the agent has had, Unset for no limit

scoringVars == <<open, cap, skill, rate, load, today, lastAt, scorer, clock, moves,
                 automatic, highest>>
staffRows == <<open, cap, skill, rate>>
counts == <<load, today, lastAt, clock, automatic>>

-----------------------------------------------------------------------------
Candidate == [id : Staff, load : Nat, cap : Nat, last : Nat, skill : Levels \cup {Unset},
              rate : 0..100]
Scorer == [pc     : {"idle", "skills", "rates", "decide", "assign", "tell"},
           urgent : BOOLEAN,
           pool   : SUBSET Candidate,
           winner : Staff \cup {Unset}]
NoScorer == [pc |-> "idle", urgent |-> FALSE, pool |-> {}, winner |-> Unset]

ScoringInit ==
    /\ open = [a \in Staff |-> TRUE]
    /\ cap \in [Staff -> Caps \cup {Unset}]
    /\ skill \in [Staff -> Levels \cup {Unset}]
    /\ rate \in [Staff -> Rates \cup {Unset}]
    /\ load = [a \in Staff |-> 0]
    /\ today = [a \in Staff |-> 0]
    /\ lastAt = [a \in Staff |-> 0]
    /\ scorer = [s \in Scorers |-> NoScorer]
    /\ clock = 1
    /\ moves = 0
    /\ automatic = [a \in Staff |-> 0]
    /\ highest = cap

Turn(s, r) == scorer' = [scorer EXCEPT ![s] = r]

-----------------------------------------------------------------------------
(* The three queries *)

\* Mutation: the cap is tested a case too late.
OneAbove(a) == cap[a] # Unset => today[a] <= cap[a]

BelowCap(a) == cap[a] # Unset => today[a] < cap[a]

CapOrDefault(a) == IF cap[a] = Unset THEN SOFT_CAP ELSE cap[a]

\* fetch_eligible_agents_data; the skill and the rate are filled in by the next two.
ReadEligible(s, urgent) ==
    /\ scorer[s] = NoScorer /\ clock <= MaxScored
    /\ LET pool == {[id |-> a, load |-> load[a], cap |-> CapOrDefault(a), last |-> lastAt[a],
                     skill |-> Unset, rate |-> 50] :
                    a \in {b \in Staff : open[b] /\ BelowCap(b)}}
       IN  Turn(s, [pc |-> IF pool = {} THEN "tell" ELSE "skills",
                    urgent |-> urgent, pool |-> pool, winner |-> Unset])
    /\ UNCHANGED <<staffRows, counts, moves, highest>>

\* fetch_skills_for_agents
ReadSkills(s) ==
    /\ scorer[s].pc = "skills"
    /\ Turn(s, [scorer[s] EXCEPT !.pc = "rates",
                                 !.pool = {[c EXCEPT !.skill = skill[c.id]] : c \in @}])
    /\ UNCHANGED <<staffRows, counts, moves, highest>>

\* fetch_sla_compliance_rates: an agent without a completed case keeps 50.
ReadRates(s) ==
    /\ scorer[s].pc = "rates"
    /\ Turn(s, [scorer[s] EXCEPT !.pc = "decide",
                                 !.pool = {[c EXCEPT !.rate = IF rate[c.id] = Unset THEN @
                                                              ELSE rate[c.id]] : c \in @}])
    /\ UNCHANGED <<staffRows, counts, moves, highest>>

-----------------------------------------------------------------------------
(* The score.  The workload is a fraction of the cap: a score is points / cap. *)

\* Mutation: no row counts as half of the full level.
HalfLevel(c) == IF c.skill = Unset THEN 200 ELSE 80 * c.skill

\* 40 points for the fifth level, and 10 when there is no row.
Expertise(c) == IF c.skill = Unset THEN 100 ELSE 80 * c.skill

\* The two branches for other tiers, express above 80 and the rest, give the same.
Urgency(c, urgent) == IF urgent THEN c.rate ELSE 100

Filled(c) == IF c.load < c.cap THEN c.load ELSE c.cap

Points(c, urgent) ==
    c.cap * (Expertise(c) + 2 * c.rate + Urgency(c, urgent)) + 300 * (c.cap - Filled(c))

Above(c, d, urgent) == Points(c, urgent) * d.cap > Points(d, urgent) * c.cap

Alike(c, d) == c.skill = d.skill /\ c.rate = d.rate /\ c.load = d.load /\ c.cap = d.cap

\* The first after sorting: totals that are equal on paper may differ by a rounding
\* error, but for equal agents, of whom the one comes first who was not assigned a
\* case for the longest time.
Best(pool, urgent) ==
    {c \in pool : \A d \in pool : /\ ~Above(d, c, urgent)
                                  /\ Alike(c, d) => c.last <= d.last}

Enough(c, urgent) == Points(c, urgent) >= 10 * MIN_ASSIGNMENT_SCORE * c.cap

Decide(s) ==
    LET r == scorer[s]
    IN  /\ r.pc = "decide"
        /\ \E c \in Best(r.pool, r.urgent) :
             Turn(s, IF Enough(c, r.urgent) THEN [r EXCEPT !.pc = "assign", !.winner = c.id]
                     ELSE [r EXCEPT !.pc = "tell"])
        /\ UNCHANGED <<staffRows, counts, moves, highest>>

Count(a, auto) ==
    /\ load' = [load EXCEPT ![a] = @ + 1]
    /\ today' = [today EXCEPT ![a] = @ + 1]
    /\ lastAt' = [lastAt EXCEPT ![a] = clock]
    /\ clock' = clock + 1
    /\ automatic' = IF auto THEN [automatic EXCEPT ![a] = @ + 1] ELSE automatic

\* do_assign and the commit: nothing is looked at again.
Assign(s) ==
    /\ scorer[s].pc = "assign"
    /\ Count(scorer[s].winner, TRUE)
    /\ Turn(s, NoScorer)
    /\ UNCHANGED <<staffRows, moves, highest>>

\* notify_no_agent_available
TellAdmins(s) ==
    /\ scorer[s].pc = "tell"
    /\ Turn(s, NoScorer)
    /\ UNCHANGED <<staffRows, counts, moves, highest>>

\* The session fails before its commit.
Fail(s) ==
    /\ scorer[s] # NoScorer
    /\ Turn(s, NoScorer)
    /\ UNCHANGED <<staffRows, counts, moves, highest>>

-----------------------------------------------------------------------------
(* What others do to the same rows *)

Move ==
    /\ moves < MaxMoves
    /\ moves' = moves + 1

\* A claim, or an administrator's choice
AssignByHand(a) ==
    /\ Move
    /\ Count(a, FALSE)
    /\ UNCHANGED <<staffRows, scorer, highest>>

CloseCase(a) ==
    /\ Move
    /\ load[a] > 0
    /\ load' = [load EXCEPT ![a] = @ - 1]
    /\ \E r \in Rates : rate' = [rate EXCEPT ![a] = r]
    /\ UNCHANGED <<open, cap, skill, today, lastAt, clock, automatic, scorer, highest>>

\* update_agent_settings and update_agent
SetOpen(a) ==
    /\ Move
    /\ open' = [open EXCEPT ![a] = ~@]
    /\ UNCHANGED <<cap, skill, rate, counts, scorer, highest>>

Higher(old, new) == IF Unset \in {old, new} THEN Unset ELSE IF new > old THEN new ELSE old

SetCap(a, new) ==
    /\ Move
    /\ cap' = [cap EXCEPT ![a] = new]
    /\ highest' = [highest EXCEPT ![a] = Higher(@, new)]
    /\ UNCHANGED <<open, skill, rate, counts, scorer>>

\* set_agent_skills deletes the agent's rows and inserts the given ones.
SetSkills(a, level) ==
    /\ Move
    /\ skill' = [skill EXCEPT ![a] = level]
    /\ UNCHANGED <<open, cap, rate, counts, scorer, highest>>

NewDay ==
    /\ Move
    /\ today' = [a \in Staff |-> 0]
    /\ automatic' = [a \in Staff |-> 0]
    /\ UNCHANGED <<staffRows, load, lastAt, clock, scorer, highest>>

ScoringNext ==
    \/ \E s \in Scorers : \/ \E urgent \in BOOLEAN : ReadEligible(s, urgent)
                          \/ ReadSkills(s)
                          \/ ReadRates(s)
                          \/ Decide(s)
                          \/ Assign(s)
                          \/ TellAdmins(s)
                          \/ Fail(s)
    \/ \E a \in Staff : \/ AssignByHand(a)
                        \/ CloseCase(a)
                        \/ SetOpen(a)
                        \/ \E new \in Caps \cup {Unset} : SetCap(a, new)
                        \/ \E level \in Levels \cup {Unset} : SetSkills(a, level)
    \/ NewDay

ScoringSpec == ScoringInit /\ [][ScoringNext]_scoringVars

-----------------------------------------------------------------------------
(* Properties *)

ScoringTypeOK ==
    /\ open \in [Staff -> BOOLEAN]
    /\ cap \in [Staff -> Caps \cup {Unset}]
    /\ skill \in [Staff -> Levels \cup {Unset}]
    /\ rate \in [Staff -> Rates \cup {Unset}]
    /\ load \in [Staff -> Nat] /\ today \in [Staff -> Nat] /\ lastAt \in [Staff -> Nat]
    /\ \A s \in Scorers : scorer[s] \in Scorer /\ \A c \in scorer[s].pool : c.cap > 0
    /\ clock \in Nat \ {0}
    /\ moves \in 0..MaxMoves

\* Sessions that score at the same time may each find the agent below the cap: what
\* they assign in a day exceeds the highest cap by one less than there are sessions,
\* and no more.
CapHolds ==
    \A a \in Staff :
        highest[a] # Unset => automatic[a] <= highest[a] + Cardinality(Scorers) - 1

\* Only an urgent case may be left to the administrators while somebody is eligible:
\* for the other tiers the threshold is below every score there is.
OnlyUrgentUnserved ==
    \A s \in Scorers : scorer[s].pc = "tell" /\ scorer[s].pool # {} => scorer[s].urgent

\* An agent without a row stands between the first level and the second.
AsSkilled(x, y) == x = y \/ (y = Unset /\ x > 1) \/ (Unset \notin {x, y} /\ x > y)
AsRoomy(c, d) == Filled(c) * d.cap <= Filled(d) * c.cap
AtLeast(c, d) == AsSkilled(c.skill, d.skill) /\ AsRoomy(c, d) /\ c.rate >= d.rate

\* Nobody is passed over for an agent who is behind in one respect and ahead in none:
\* skill, room below the cap, cases closed in time, and time since the last case.
NotOutdone ==
    \A s \in Scorers : scorer[s].pc = "assign" =>
        \A c, w \in scorer[s].pool :
            w.id = scorer[s].winner /\ AtLeast(c, w)
                => AtLeast(w, c) /\ (Alike(c, w) => w.last <= c.last)

\* The scores pick nobody who is outdone, and leave out nobody but for urgency.
PicksFairly == ScoringTypeOK /\ OnlyUrgentUnserved /\ NotOutdone
=============================================================================
