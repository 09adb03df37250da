-------------------------------- MODULE Startup --------------------------------
(***************************************************************************)
(* What is put into an empty database: lifespan and _seed_admin of         *)
(* src/app/main.py, which every API process runs before it serves, and     *)
(* src/scripts/seed.py with src/app/seed.py, which a developer runs by     *)
(* hand.  Each looks whether its rows are there and inserts them if not;   *)
(* a unique index settles it when two have looked before either commits.   *)
(***************************************************************************)
EXTENDS Integers, Sequences

CONSTANTS
    Servers,     \* API processes that start on the same database
    Seeders,     \* runs of scripts/seed.py
    Authors,     \* sessions of administrators that create services by hand
    Slugs,       \* slugs of services
    Seeds,       \* those of _service_seeds, in their order
    Nil,         \* nobody
    MaxFaults    \* bound on processes and connections that are lost

AdminRow == "admin"       \* the user with _ADMIN_EMAIL
SettingsRow == "global"   \* of platform_settings
Rows == {AdminRow, SettingsRow} \cup Slugs
Starters == Servers \cup Seeders \cup Authors

ASSUME StartupAssumption ==
    /\ Seeds \in Seq(Slugs) /\ Seeds # <<>>
    /\ AdminRow \notin Slugs /\ SettingsRow \notin Slugs
    /\ Servers \cap Seeders = {} /\ Servers \cap Authors = {} /\ Seeders \cap Authors = {}
    /\ Nil \notin Starters
    /\ MaxFaults \in Nat

VARIABLES
    owner,      \* who has inserted each row that is committed, Nil for no row
    boot,       \* what each process is about
    held,       \* rows it has flushed and not committed
    conflicts,  \* history: how often each has met a row that it had not seen
    faults

startupVars == <<owner, boot, held, conflicts, faults>>

-----------------------------------------------------------------------------
Boot == [job  : {"off", "admin", "services", "settings", "create", "on"},
         pc   : {"look", "insert", "commit"},
         todo : Seq(Rows)]     \* rows still to be inserted
Down == [job |-> "off", pc |-> "look", todo |-> <<>>]
Begin(job) == [Down EXCEPT !.job = job]

StartupInit ==
    /\ owner = [k \in Rows |-> Nil]
    /\ boot = [p \in Starters |-> Down]
    /\ held = [p \in Starters |-> {}]
    /\ conflicts = [p \in Starters |-> 0]
    /\ faults = 0

Go(p, b) == boot' = [boot EXCEPT ![p] = b]
Serving(p) == boot[p].job = "on"
Booting(p) == boot[p].job \notin {"off", "on"}

Start(p) ==
    /\ boot[p] = Down
    /\ \/ p \in Servers /\ Go(p, Begin("admin"))
       \/ p \in Seeders /\ Go(p, Begin("services"))
    /\ UNCHANGED <<owner, held, conflicts, faults>>

\* create_service, through a process that serves
Author(p, slug) ==
    /\ p \in Authors /\ boot[p] = Down
    /\ \E s \in Servers : Serving(s)
    /\ owner[slug] = Nil
    /\ Go(p, [job |-> "create", pc |-> "insert", todo |-> <<slug>>])
    /\ UNCHANGED <<owner, held, conflicts, faults>>

\* _seed_admin or seed_dev_services, then seed_platform_settings, then yield.
After(p) ==
    CASE boot[p].job \in {"admin", "services"}     -> Begin("settings")
      [] boot[p].job = "settings" /\ p \in Servers -> Begin("on")
      [] OTHER                                     -> Down

\* Mutation: two runs of the script insert in different orders.
AnyOrder(p, job) ==
    CASE job = "admin"    -> <<AdminRow>>
      [] job = "settings" -> <<SettingsRow>>
      [] OTHER            -> IF p = CHOOSE q \in Seeders : TRUE THEN Seeds
                             ELSE [i \in DOMAIN Seeds |-> Seeds[Len(Seeds) + 1 - i]]

ToInsert(p, job) ==
    CASE job = "admin"    -> <<AdminRow>>
      [] job = "settings" -> <<SettingsRow>>
      [] OTHER            -> Seeds

\* A user with role staff:admin, any service at all, or the row "global".
Present(job) ==
    \E k \in Rows : /\ owner[k] # Nil
                    /\ CASE job = "admin"    -> k = AdminRow
                         [] job = "settings" -> k = SettingsRow
                         [] OTHER            -> k \in Slugs

Look(p) ==
    LET job == boot[p].job
    IN  /\ job \in {"admin", "services", "settings"} /\ boot[p].pc = "look"
        /\ Go(p, IF Present(job) THEN After(p)
                 ELSE [boot[p] EXCEPT !.pc = "insert", !.todo = ToInsert(p, job)])
        /\ UNCHANGED <<owner, held, conflicts, faults>>

Taken(k) == owner[k] # Nil

WithoutFirst(b) ==
    [b EXCEPT !.todo = Tail(@), !.pc = IF Len(b.todo) = 1 THEN "commit" ELSE "insert"]

\* Mutation: a row that is taken is skipped.
Skipping(p) == WithoutFirst(boot[p])

\* IntegrityError is caught nowhere: the process, or the request, ends.
OnConflict(p) == Down

\* The flush of one row waits for whoever has flushed the same key.
Insert(p) ==
    LET k == Head(boot[p].todo)
    IN  /\ boot[p].pc = "insert"
        /\ \A q \in Starters \ {p} : k \notin held[q]
        /\ IF Taken(k)
           THEN /\ Go(p, OnConflict(p))
                /\ held' = [held EXCEPT ![p] = IF boot'[p] = Down THEN {} ELSE @]
                /\ conflicts' = [conflicts EXCEPT ![p] = @ + 1]
           ELSE /\ Go(p, WithoutFirst(boot[p]))
                /\ held' = [held EXCEPT ![p] = @ \cup {k}]
                /\ UNCHANGED conflicts
        /\ UNCHANGED <<owner, faults>>

Committed(p) == [k \in Rows |-> IF k \in held[p] THEN p ELSE owner[k]]

Commit(p) ==
    /\ boot[p].pc = "commit"
    /\ owner' = Committed(p)
    /\ held' = [held EXCEPT ![p] = {}]
    /\ Go(p, After(p))
    /\ UNCHANGED <<conflicts, faults>>

\* The process, or its connection to the database, is lost.
Lose(p) ==
    /\ boot[p] # Down
    /\ faults < MaxFaults
    /\ faults' = faults + 1
    /\ Go(p, Down)
    /\ held' = [held EXCEPT ![p] = {}]
    /\ UNCHANGED <<owner, conflicts>>

ContinueBoot(p) == Look(p) \/ Insert(p) \/ Commit(p)

StartupNext ==
    \E p \in Starters : \/ Start(p)
                        \/ \E slug \in Slugs : Author(p, slug)
                        \/ ContinueBoot(p)
                        \/ Lose(p)

\* A process that runs goes on.
StartupFairness == \A p \in Starters : WF_startupVars(ContinueBoot(p))

StartupSpec == StartupInit /\ [][StartupNext]_startupVars /\ StartupFairness

-----------------------------------------------------------------------------
(* Properties *)

\* A row that a transaction has flushed is nobody else's, and there is no such row yet.
StartupTypeOK ==
    /\ owner \in [Rows -> Starters \cup {Nil}]
    /\ boot \in [Starters -> Boot]
    /\ held \in [Starters -> SUBSET Rows]
    /\ \A p \in Starters, k \in Rows :
         k \in held[p] => owner[k] = Nil /\ \A q \in Starters \ {p} : k \notin held[q]
    /\ conflicts \in [Starters -> Nat]
    /\ faults \in 0..MaxFaults

\* A process that serves finds an administrator and the platform's settings, however
\* many start together and are lost on the way: get_or_create never has to create.
ReadyWhenServing ==
    \A p \in Servers : Serving(p) => owner[AdminRow] # Nil /\ owner[SettingsRow] # Nil

\* The catalogue of the script is there as a whole or not at all, also when an
\* administrator creates a service with one of its slugs at the same time.
SeedsWhole ==
    \A i, j \in DOMAIN Seeds : owner[Seeds[i]] \in Seeders => owner[Seeds[j]] = owner[Seeds[i]]

\* A start that fails because another was faster is not for nothing: a process fails
\* at most twice for that reason, once for each look it takes.
FailsTwiceAtMost == \A p \in Servers \cup Seeders : conflicts[p] <= 2

\* Whatever starts together, what is there when somebody serves is whole, and a start
\* that loses a race loses no more than its look.
StartsWhole == StartupTypeOK /\ ReadyWhenServing /\ SeedsWhole /\ FailsTwiceAtMost

\* No start waits for ever: it comes to serve, or ends.
BootEnds == \A p \in Starters : Booting(p) ~> ~Booting(p)
=============================================================================
