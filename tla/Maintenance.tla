----------------------------- MODULE Maintenance -----------------------------
(***************************************************************************)
(* The maintenance flag: the row of src/app/modules/platform, the copy in  *)
(* Redis and the copy in each process that src/app/core/middleware.py      *)
(* keeps of it.                                                            *)
(*                                                                         *)
(* A request asks the copy of its own process, then Redis, then the        *)
(* database, and writes back what it found; an administrator's change      *)
(* clears Redis and the copy of its own process, and then commits.         *)
(***************************************************************************)
EXTENDS Integers, FiniteSets

CONSTANTS
    Processes,   \* API processes
    Lookups,     \* requests that ask for the flag
    Admins,      \* requests that change the settings
    Nothing,     \* no row, no cached value, no wish
    RedisLife,   \* _MAINTENANCE_REDIS_TTL_SECONDS, in ticks
    MemoryLife,  \* _MAINTENANCE_MEMORY_TTL_SECONDS, in ticks
    Slowest,     \* the longest a lookup takes, in ticks
    MaxChanges   \* bound on the changes of the flag

ASSUME MaintenanceAssumption ==
    /\ Nothing \notin BOOLEAN
    /\ RedisLife \in Nat \ {0}
    /\ MemoryLife \in Nat \ {0}
    /\ Slowest \in Nat
    /\ MaxChanges \in Nat

VARIABLES
    flag,     \* maintenance_mode of the row platform_settings
    redis,    \* platform:maintenance_mode and its remaining life
    memory,   \* _maintenance_memory_cache of each process, with its remaining life
    look,     \* what each lookup has found
    admin,    \* what each change has loaded
    changes,  \* history: how often the flag changed,
    since     \* and for how long it has not; saturates

flagVars == <<flag, redis, memory, look, admin, changes, since>>

\* How long a value may be answered after it was replaced: its way into Redis,
\* its life there, and the life of a copy made at the end of that.
Lag == Slowest + RedisLife + MemoryLife

-----------------------------------------------------------------------------
Flags == BOOLEAN \cup {Nothing}

Empty == [value |-> Nothing, life |-> 0]
Cached(top) == {Empty} \cup [value : BOOLEAN, life : 1..top]

Keep(value, life) == IF life > 0 THEN [value |-> value, life |-> life] ELSE Empty

\* age counts from the time.monotonic() with which the lookup began.
Lookup == [pc : {"idle", "redis", "row", "store", "keep"},
           in : Processes \cup {Nothing}, value : Flags, age : 0..Slowest]
NoLookup == [pc |-> "idle", in |-> Nothing, value |-> Nothing, age |-> 0]

Change == [pc : {"idle", "memory", "redis", "commit"},
           in : Processes \cup {Nothing}, seen : Flags, want : Flags]
NoChange == [pc |-> "idle", in |-> Nothing, seen |-> Nothing, want |-> Nothing]

MaintenanceInit ==
    /\ flag = Nothing
    /\ redis = Empty
    /\ memory = [p \in Processes |-> Empty]
    /\ look = [s \in Lookups |-> NoLookup]
    /\ admin = [s \in Admins |-> NoChange]
    /\ changes = 0
    /\ since = Lag

-----------------------------------------------------------------------------
(* _get_maintenance_mode *)

Ask(s, p) ==
    /\ look[s] = NoLookup
    /\ memory[p] = Empty
    /\ look' = [look EXCEPT ![s] = [NoLookup EXCEPT !.pc = "redis", !.in = p]]
    /\ UNCHANGED <<flag, redis, memory, admin, changes, since>>

\* The copy lasts from the beginning of the lookup.
MemoryLeft(s) == MemoryLife - look[s].age

AskRedis(s) ==
    /\ look[s].pc = "redis"
    /\ IF redis = Empty
       THEN look' = [look EXCEPT ![s].pc = "row"] /\ UNCHANGED memory
       ELSE /\ look' = [look EXCEPT ![s] = NoLookup]
            /\ memory' = [memory EXCEPT ![look[s].in] = Keep(redis.value, MemoryLeft(s))]
    /\ UNCHANGED <<flag, redis, admin, changes, since>>

\* get_or_create writes the row with its default when there is none.
Stored == IF flag = Nothing THEN FALSE ELSE flag

AskRow(s) ==
    /\ look[s].pc = "row"
    /\ flag' = Stored
    /\ look' = [look EXCEPT ![s].pc = "store", ![s].value = Stored]
    /\ UNCHANGED <<redis, memory, admin, changes, since>>

StoreInRedis(s) ==
    /\ look[s].pc = "store"
    /\ redis' = [value |-> look[s].value, life |-> RedisLife]
    /\ look' = [look EXCEPT ![s].pc = "keep"]
    /\ UNCHANGED <<flag, memory, admin, changes, since>>

KeepInMemory(s) ==
    /\ look[s].pc = "keep"
    /\ memory' = [memory EXCEPT ![look[s].in] = Keep(look[s].value, MemoryLeft(s))]
    /\ look' = [look EXCEPT ![s] = NoLookup]
    /\ UNCHANGED <<flag, redis, admin, changes, since>>

-----------------------------------------------------------------------------
(* update_settings with maintenanceMode among the fields *)

UpdateSettings(s, p, want) ==
    /\ admin[s] = NoChange /\ changes < MaxChanges
    /\ admin' = [admin EXCEPT ![s] = [pc |-> "memory", in |-> p, seen |-> Stored, want |-> want]]
    /\ UNCHANGED <<flag, redis, memory, look, changes, since>>

\* invalidate_maintenance_mode_cache_async
ClearMemory(s) ==
    /\ admin[s].pc = "memory"
    /\ memory' = [memory EXCEPT ![admin[s].in] = Empty]
    /\ admin' = [admin EXCEPT ![s].pc = "redis"]
    /\ UNCHANGED <<flag, redis, look, changes, since>>

ClearRedis(s) ==
    /\ admin[s].pc = "redis"
    /\ redis' = Empty
    /\ admin' = [admin EXCEPT ![s].pc = "commit"]
    /\ UNCHANGED <<flag, memory, look, changes, since>>

\* The UPDATE omits a column equal to its loaded value.
CommitSettings(s) ==
    LET new == IF admin[s].want = admin[s].seen THEN Stored ELSE admin[s].want
    IN  /\ admin[s].pc = "commit"
        /\ flag' = new
        /\ admin' = [admin EXCEPT ![s] = NoChange]
        /\ IF new = Stored THEN UNCHANGED <<changes, since>>
           ELSE changes' = changes + 1 /\ since' = 0
        /\ UNCHANGED <<redis, memory, look>>

-----------------------------------------------------------------------------
\* Mutation: nothing expires.
Ageless(c) == c

Aging(c) == IF c.life > 1 THEN [c EXCEPT !.life = @ - 1] ELSE Empty

Second ==
    /\ \A s \in Lookups : look[s].pc # "idle" => look[s].age < Slowest
    /\ redis' = Aging(redis)
    /\ memory' = [p \in Processes |-> Aging(memory[p])]
    /\ look' = [s \in Lookups |-> IF look[s].pc = "idle" THEN look[s]
                                  ELSE [look[s] EXCEPT !.age = @ + 1]]
    /\ since' = IF since < Lag THEN since + 1 ELSE since
    /\ UNCHANGED <<flag, admin, changes>>

\* A request is lost: its transaction rolls back, the caches stay as they are.
LoseLookup(s) ==
    /\ look[s] # NoLookup
    /\ look' = [look EXCEPT ![s] = NoLookup]
    /\ UNCHANGED <<flag, redis, memory, admin, changes, since>>

LoseChange(s) ==
    /\ admin[s] # NoChange
    /\ admin' = [admin EXCEPT ![s] = NoChange]
    /\ UNCHANGED <<flag, redis, memory, look, changes, since>>

Answer(s) == AskRedis(s) \/ AskRow(s) \/ StoreInRedis(s) \/ KeepInMemory(s)
Apply(s) == ClearMemory(s) \/ ClearRedis(s) \/ CommitSettings(s)

MaintenanceNext ==
    \/ \E s \in Lookups : \/ \E p \in Processes : Ask(s, p)
                          \/ Answer(s)
                          \/ LoseLookup(s)
    \/ \E s \in Admins : \/ \E p \in Processes, want \in BOOLEAN : UpdateSettings(s, p, want)
                         \/ Apply(s)
                         \/ LoseChange(s)
    \/ Second

MaintenanceSpec == MaintenanceInit /\ [][MaintenanceNext]_flagVars

\* Redis counts down, and requests that have begun are run to their end or lost.
\* Nobody has to ask, and nobody has to change the settings.
MaintenanceFairness ==
    /\ WF_flagVars(Second)
    /\ \A s \in Lookups : WF_flagVars(Answer(s))
    /\ \A s \in Admins : WF_flagVars(Apply(s))

MaintenanceLive == MaintenanceSpec /\ MaintenanceFairness

-----------------------------------------------------------------------------
(* Properties *)

MaintenanceTypeOK ==
    /\ flag \in Flags
    /\ redis \in Cached(RedisLife)
    /\ memory \in [Processes -> Cached(MemoryLife)]
    /\ look \in [Lookups -> Lookup]
    /\ admin \in [Admins -> Change]
    /\ changes \in Nat
    /\ since \in 0..Lag

\* However changes, lookups and crashes interleave, no process answers with a
\* value that was replaced longer ago than a lookup and both lives together last.
StaleBounded ==
    since = Lag => \A p \in Processes : memory[p].value \in {Nothing, flag}

\* The strengthening that makes it inductive: what is out of date has not longer
\* to live than it takes to reach the bound.
StaleRunsOut ==
    LET old(value) == value \notin {Nothing, flag}
    IN  /\ old(redis.value) => since + redis.life <= Slowest + RedisLife
        /\ \A p \in Processes :
             old(memory[p].value) => since + memory[p].life <= Lag
        /\ \A s \in Lookups : old(look[s].value) => since <= look[s].age

\* Every copy of the flag is the row's or runs out, and so does every answer.
StaleEnds == MaintenanceTypeOK /\ StaleRunsOut /\ StaleBounded

\* When administrators have made their last change, every process ends up
\* answering with the row or asking for it.
FlagSettles ==
    <>[](\A p \in Processes : memory[p].value \in {Nothing, flag})
=============================================================================
