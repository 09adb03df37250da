------------------------------- MODULE Throttle -------------------------------
(***************************************************************************)
(* The log-in route's two brakes: the fixed-window limiter of              *)
(* src/app/core/ratelimit.py, and the lockout of src/app/modules/auth/     *)
(* service.py.  Both count in Redis with an INCR, and give the counter its *)
(* expiry in a call of its own when the INCR answered 1.                   *)
(*                                                                         *)
(* One caller address and one identifier.  Counters saturate one above     *)
(* their limit, where the code no longer tells values apart.               *)
(***************************************************************************)
EXTENDS Integers, FiniteSets

CONSTANTS
    Callers,     \* requests to POST /api/auth/login
    Limit,       \* rate_limit(..., limit, ...)
    Window,      \* rate_limit(..., window_seconds), in ticks
    MaxFails,    \* lockout_max_attempts
    LockWindow,  \* lockout_window_seconds, in ticks
    MaxDrops     \* bound on requests lost to a crash

ASSUME ThrottleAssumption ==
    /\ IsFiniteSet(Callers)
    /\ Limit \in Nat \ {0} /\ Window \in Nat \ {0}
    /\ MaxFails \in Nat \ {0} /\ LockWindow \in Nat \ {0}
    /\ MaxDrops \in Nat

VARIABLES
    hits,      \* ratelimit:<...>: its value and remaining life, 0 for none
    fails,     \* auth:lockout:attempts:<...>
    lock,      \* remaining life of auth:lockout:until:<...>
    at,        \* where each request is
    drops,
    admitted,  \* history: requests let through since hits last began
    tries      \* history: wrong passwords since the counter or the lock was last gone

throttleVars == <<hits, fails, lock, at, drops, admitted, tries>>

Places == {"idle", "hit", "checked", "password", "failed", "lock", "clear", "unlock"}

Counter(top) == [n : 0..top, life : Nat]
Gone == [n |-> 0, life |-> 0]
Endless(c) == c.n > 0 /\ c.life = 0

Upto(n, top) == IF n < top THEN n + 1 ELSE top

Move(s, place) == at' = [at EXCEPT ![s] = place]

ThrottleInit ==
    /\ hits = Gone
    /\ fails = Gone
    /\ lock = 0
    /\ at = [s \in Callers |-> "idle"]
    /\ drops = 0
    /\ admitted = 0
    /\ tries = 0

-----------------------------------------------------------------------------
(* RedisRateLimiter.enforce *)

First(n) == n = 1

\* Mutation: the request after the last one passes.
OneTooMany(n) == n <= Limit + 1

Passes(n) == n <= Limit

Hit(s) ==
    LET n == Upto(hits.n, Limit + 1)
    IN  /\ at[s] = "idle"
        /\ hits' = [hits EXCEPT !.n = n]
        /\ IF First(n) THEN Move(s, "hit") /\ UNCHANGED admitted
           ELSE IF Passes(n) THEN Move(s, "checked") /\ admitted' = admitted + 1
           ELSE UNCHANGED <<at, admitted>>  \* RateLimitedError
        /\ UNCHANGED <<fails, lock, drops, tries>>

\* Mutation: the expiry is forgotten.
NoExpiry(c, life) == c

\* EXPIRE does nothing to a key that is gone.
Expiring(c, life) == IF c.n > 0 THEN [c EXCEPT !.life = life] ELSE c

StartWindow(s) ==
    /\ at[s] = "hit"
    /\ hits' = Expiring(hits, Window)
    /\ Move(s, "checked")
    /\ admitted' = admitted + 1
    /\ UNCHANGED <<fails, lock, drops, tries>>

-----------------------------------------------------------------------------
(* login: _assert_not_locked, _record_login_failure, _clear_lockout *)

AssertNotLocked(s) ==
    /\ at[s] = "checked"
    /\ Move(s, IF lock > 0 THEN "idle" ELSE "password")
    /\ UNCHANGED <<hits, fails, lock, drops, admitted, tries>>

\* Mutation: the attempt after the last one locks.
LocksLate(n) == n > MaxFails

Locks(n) == n >= MaxFails

WrongPassword(s) ==
    LET n == Upto(fails.n, MaxFails + 1)
    IN  /\ at[s] = "password"
        /\ fails' = [fails EXCEPT !.n = n]
        /\ tries' = tries + 1
        /\ Move(s, IF First(n) THEN "failed" ELSE IF Locks(n) THEN "lock" ELSE "idle")
        /\ UNCHANGED <<hits, lock, drops, admitted>>

StartLockWindow(s) ==
    /\ at[s] = "failed"
    /\ fails' = Expiring(fails, LockWindow)
    /\ Move(s, IF Locks(1) THEN "lock" ELSE "idle")
    /\ UNCHANGED <<hits, lock, drops, admitted, tries>>

LockFor(window) == window

LockAccount(s) ==
    /\ at[s] = "lock"
    /\ lock' = LockFor(LockWindow)
    /\ Move(s, "idle")
    /\ UNCHANGED <<hits, fails, drops, admitted, tries>>

RightPassword(s) ==
    /\ at[s] = "password"
    /\ Move(s, "clear")
    /\ UNCHANGED <<hits, fails, lock, drops, admitted, tries>>

ClearAttempts(s) ==
    /\ at[s] = "clear"
    /\ fails' = Gone
    /\ tries' = IF fails = Gone THEN tries ELSE 0
    /\ Move(s, "unlock")
    /\ UNCHANGED <<hits, lock, drops, admitted>>

ClearLock(s) ==
    /\ at[s] = "unlock"
    /\ lock' = 0
    /\ tries' = IF lock = 0 THEN tries ELSE 0
    /\ Move(s, "idle")
    /\ UNCHANGED <<hits, fails, drops, admitted>>

-----------------------------------------------------------------------------
Older(c) == IF c.life = 0 THEN c
            ELSE IF c.life = 1 THEN Gone
            ELSE [c EXCEPT !.life = @ - 1]

LockTick ==
    /\ hits.life > 0 \/ fails.life > 0 \/ lock > 0
    /\ hits' = Older(hits)
    /\ fails' = Older(fails)
    /\ lock' = IF lock > 0 THEN lock - 1 ELSE 0
    /\ admitted' = IF hits.life = 1 THEN 0 ELSE admitted
    /\ tries' = IF fails.life = 1 \/ lock = 1 THEN 0 ELSE tries
    /\ UNCHANGED <<at, drops>>

Drop(s) ==
    /\ at[s] # "idle" /\ drops < MaxDrops
    /\ drops' = drops + 1
    /\ Move(s, "idle")
    /\ UNCHANGED <<hits, fails, lock, admitted, tries>>

Proceed(s) ==
    \/ StartWindow(s)
    \/ AssertNotLocked(s)
    \/ WrongPassword(s)
    \/ StartLockWindow(s)
    \/ LockAccount(s)
    \/ RightPassword(s)
    \/ ClearAttempts(s)
    \/ ClearLock(s)

ThrottleNext ==
    \/ \E s \in Callers : Hit(s) \/ Proceed(s) \/ Drop(s)
    \/ LockTick

ThrottleSpec == ThrottleInit /\ [][ThrottleNext]_throttleVars

\* A request that was admitted is run to its end, and Redis counts down.  Nobody
\* has to send requests.
ThrottleFairness ==
    /\ \A s \in Callers : WF_throttleVars(Proceed(s))
    /\ WF_throttleVars(LockTick)

ThrottleLive == ThrottleSpec /\ ThrottleFairness

-----------------------------------------------------------------------------
(* Properties *)

ThrottleTypeOK ==
    /\ hits \in Counter(Limit + 1)
    /\ fails \in Counter(MaxFails + 1)
    /\ lock \in 0..LockWindow
    /\ at \in [Callers -> Places]
    /\ drops \in 0..MaxDrops
    /\ admitted \in Nat
    /\ tries \in Nat

\* No window lets more than Limit requests through, however they overlap.
LimitHolds == admitted <= Limit

\* A run of wrong passwords outgrows the lockout by the requests that had passed
\* the check before the lock was set, and by those that died before setting it.
TriesBounded == tries <= MaxFails - 1 + Cardinality(Callers) + drops

\* A counter without an expiry is about to be given one, unless its request died.
EndlessFromDrops ==
    \/ drops > 0
    \/ /\ Endless(hits) => \E s \in Callers : at[s] = "hit"
       /\ Endless(fails) => \E s \in Callers : at[s] = "failed"

\* However requests overlap, a window admits what it may, and what has no end is
\* owed to a request that died.
BrakesHold == ThrottleTypeOK /\ LimitHolds /\ EndlessFromDrops

\* As long as no request dies, whoever was refused finds a new window in the end,
\* also when everybody keeps trying.
WindowEnds == [](drops = 0) => (hits.n > Limit ~> hits.n = 0)
=============================================================================
