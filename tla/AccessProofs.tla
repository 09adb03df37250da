---------------------------- MODULE AccessProofs ------------------------------
(***************************************************************************)
(* Proofs about the two modules that keep guesses few: Throttle, for every *)
(* set of requests, every limit and every window, and Challenges, for      *)
(* every number of codes, attempts and log-ins.                            *)
(***************************************************************************)
EXTENDS Throttle, Challenges, FiniteSetTheorems, TLAPS

(***************************************************************************)
(* The request that began a window is the only one that has not been       *)
(* counted among the admitted ones yet, and the counter cannot run out     *)
(* before it does: it has no expiry until that request gives it one.       *)
(***************************************************************************)
WindowInv ==
    /\ admitted <= hits.n /\ admitted <= Limit
    /\ hits.n = 0 => hits.life = 0
    /\ \A s \in Callers : at[s] = "hit" => /\ hits.life = 0
                                           /\ admitted < hits.n /\ admitted < Limit
    /\ \A s, t \in Callers : at[s] = "hit" /\ at[t] = "hit" => s = t

-----------------------------------------------------------------------------
\* What Redis answers to an INCR, and what a counter becomes.
LEMMA UptoBounds ==
    ASSUME NEW top \in Nat \ {0}, NEW n \in 0..top
    PROVE  Upto(n, top) \in 1..top /\ (Upto(n, top) = 1 => n <= 1) /\ Upto(n, top) >= n
                /\ (n < top => Upto(n, top) = n + 1)
BY DEF Upto

LEMMA OlderCounter ==
    ASSUME NEW top \in Nat, NEW c \in Counter(top)
    PROVE  /\ Older(c) \in Counter(top)
           /\ c.life = 0 => Older(c) = c
           /\ c.life = 1 => Older(c) = Gone
           /\ c.life > 1 => Older(c).n = c.n /\ Older(c).life = c.life - 1
BY DEF Older, Counter, Gone

LEMMA ExpiringCounter ==
    ASSUME NEW top \in Nat, NEW c \in Counter(top), NEW life \in Nat \ {0}
    PROVE  /\ Expiring(c, life) \in Counter(top)
           /\ Expiring(c, life).n = c.n
           /\ ~Endless(Expiring(c, life))
BY DEF Expiring, Counter, Endless

-----------------------------------------------------------------------------
(* Types *)

LEMMA TypeInit == ThrottleInit => ThrottleTypeOK
BY ThrottleAssumption DEF ThrottleInit, ThrottleTypeOK, Gone, Counter, Places

LEMMA TypeStep == ThrottleTypeOK /\ [ThrottleNext]_throttleVars => ThrottleTypeOK'
<1> SUFFICES ASSUME ThrottleTypeOK, [ThrottleNext]_throttleVars PROVE ThrottleTypeOK'
  OBVIOUS
<1> USE ThrottleAssumption DEF ThrottleTypeOK
<1>0. Limit + 1 \in Nat \ {0} /\ MaxFails + 1 \in Nat \ {0}
  OBVIOUS
<1>1. ASSUME NEW s \in Callers, Hit(s) PROVE ThrottleTypeOK'
  <2> DEFINE n == Upto(hits.n, Limit + 1)
  <2>1. n \in 0..(Limit + 1)
    BY <1>0, UptoBounds DEF Counter
  <2>2. hits' = [hits EXCEPT !.n = n] /\ at' \in [Callers -> Places] /\ admitted' \in Nat
        /\ UNCHANGED <<fails, lock, drops, tries>>
    BY <1>1 DEF Hit, Move, Places
  <2> HIDE DEF n
  <2>3. hits' \in Counter(Limit + 1)
    BY <2>1, <2>2 DEF Counter
  <2> QED BY <2>2, <2>3
<1>2. ASSUME NEW s \in Callers, StartWindow(s) PROVE ThrottleTypeOK'
  <2>1. hits' \in Counter(Limit + 1)
    BY <1>0, <1>2, ExpiringCounter DEF StartWindow
  <2> QED BY <1>2, <2>1 DEF StartWindow, Move, Places
<1>3. ASSUME NEW s \in Callers, AssertNotLocked(s) PROVE ThrottleTypeOK'
  BY <1>3 DEF AssertNotLocked, Move, Places
<1>4. ASSUME NEW s \in Callers, WrongPassword(s) PROVE ThrottleTypeOK'
  <2> DEFINE n == Upto(fails.n, MaxFails + 1)
  <2>1. n \in 0..(MaxFails + 1)
    BY <1>0, UptoBounds DEF Counter
  <2>2. fails' = [fails EXCEPT !.n = n] /\ at' \in [Callers -> Places] /\ tries' \in Nat
        /\ UNCHANGED <<hits, lock, drops, admitted>>
    BY <1>4 DEF WrongPassword, Move, Places
  <2> HIDE DEF n
  <2>3. fails' \in Counter(MaxFails + 1)
    BY <2>1, <2>2 DEF Counter
  <2> QED BY <2>2, <2>3
<1>5. ASSUME NEW s \in Callers, StartLockWindow(s) PROVE ThrottleTypeOK'
  <2>1. fails' \in Counter(MaxFails + 1)
    BY <1>0, <1>5, ExpiringCounter DEF StartLockWindow
  <2> QED BY <1>5, <2>1 DEF StartLockWindow, Move, Places
<1>6. ASSUME NEW s \in Callers, LockAccount(s) PROVE ThrottleTypeOK'
  BY <1>6 DEF LockAccount, LockFor, Move, Places
<1>7. ASSUME NEW s \in Callers, RightPassword(s) PROVE ThrottleTypeOK'
  BY <1>7 DEF RightPassword, Move, Places
<1>8. ASSUME NEW s \in Callers, ClearAttempts(s) PROVE ThrottleTypeOK'
  BY <1>8 DEF ClearAttempts, Move, Places, Gone, Counter
<1>9. ASSUME NEW s \in Callers, ClearLock(s) PROVE ThrottleTypeOK'
  BY <1>9 DEF ClearLock, Move, Places
<1>10. ASSUME NEW s \in Callers, Drop(s) PROVE ThrottleTypeOK'
  BY <1>10 DEF Drop, Move, Places
<1>11. CASE LockTick
  <2>1. hits' \in Counter(Limit + 1) /\ fails' \in Counter(MaxFails + 1)
    BY <1>0, <1>11, OlderCounter DEF LockTick
  <2> QED BY <1>11, <2>1 DEF LockTick
<1>12. CASE UNCHANGED throttleVars
  BY <1>12 DEF throttleVars
<1> QED
  BY <1>1, <1>2, <1>3, <1>4, <1>5, <1>6, <1>7, <1>8, <1>9, <1>10, <1>11, <1>12
  DEF ThrottleNext, Proceed

\* Every reachable state is well typed: the counters saturate where they should, and
\* the lock never outlasts its window.
THEOREM BrakesTypeCorrect == ThrottleSpec => []ThrottleTypeOK
BY TypeInit, TypeStep, PTL DEF ThrottleSpec

-----------------------------------------------------------------------------
(* The limiter *)

LEMMA WindowInit == ThrottleInit => WindowInv
BY ThrottleAssumption DEF ThrottleInit, WindowInv, Gone

\* A request that does not touch the limiter neither begins a window nor ends one.
LEMMA WindowAside ==
    ASSUME ThrottleTypeOK, WindowInv, NEW s \in Callers, NEW place \in Places \ {"hit"},
           Move(s, place), UNCHANGED <<hits, admitted>>
    PROVE  WindowInv'
BY DEF ThrottleTypeOK, WindowInv, Move

LEMMA WindowStep ==
    ThrottleTypeOK /\ WindowInv /\ [ThrottleNext]_throttleVars => WindowInv'
<1> SUFFICES ASSUME ThrottleTypeOK, WindowInv, [ThrottleNext]_throttleVars PROVE WindowInv'
  OBVIOUS
<1> USE ThrottleAssumption
<1>1. ASSUME NEW s \in Callers, Hit(s) PROVE WindowInv'
  <2> DEFINE n == Upto(hits.n, Limit + 1)
  <2>1. /\ n \in 1..(Limit + 1) /\ n >= hits.n /\ (n = 1 => hits.n <= 1)
        /\ hits.n <= Limit => n = hits.n + 1
    BY UptoBounds DEF ThrottleTypeOK, Counter
  <2>2. hits'.n = n /\ hits'.life = hits.life
    BY <1>1 DEF Hit, ThrottleTypeOK, Counter
  <2>3. /\ at[s] = "idle"
        /\ IF n = 1 THEN Move(s, "hit") /\ UNCHANGED admitted
           ELSE IF n <= Limit THEN Move(s, "checked") /\ admitted' = admitted + 1
           ELSE UNCHANGED <<at, admitted>>
    BY <1>1 DEF Hit, First, Passes
  <2>4. hits.n \in 0..(Limit + 1) /\ admitted \in Nat /\ hits.life \in Nat
        /\ at \in [Callers -> Places]
    BY DEF ThrottleTypeOK, Counter
  <2> HIDE DEF n
  <2>5. CASE n = 1
    <3>1. hits.n = 0 /\ admitted = 0
      BY <2>1, <2>4, <2>5 DEF WindowInv
    <3>2. \A t \in Callers : at[t] # "hit"
      BY <3>1 DEF WindowInv
    <3>3. hits.life = 0
      BY <3>1 DEF WindowInv
    <3> QED BY <2>2, <2>3, <2>4, <2>5, <3>1, <3>2, <3>3 DEF WindowInv, Move
  <2>6. CASE n # 1 /\ n <= Limit
    BY <2>1, <2>2, <2>3, <2>4, <2>6 DEF WindowInv, Move
  <2>7. CASE n # 1 /\ ~(n <= Limit)
    BY <2>1, <2>2, <2>3, <2>4, <2>7 DEF WindowInv
  <2> QED BY <2>5, <2>6, <2>7
<1>2. ASSUME NEW s \in Callers, StartWindow(s) PROVE WindowInv'
  <2>1. hits'.n = hits.n
    BY <1>2, ExpiringCounter DEF StartWindow, ThrottleTypeOK
  <2>2. at[s] = "hit" /\ at' = [at EXCEPT ![s] = "checked"] /\ admitted' = admitted + 1
    BY <1>2 DEF StartWindow, Move
  <2>3. \A t \in Callers : at'[t] # "hit"
    BY <2>2 DEF WindowInv, ThrottleTypeOK
  <2> QED BY <2>1, <2>2, <2>3 DEF WindowInv, ThrottleTypeOK, Counter
<1>3. ASSUME NEW s \in Callers,
             AssertNotLocked(s) \/ WrongPassword(s) \/ StartLockWindow(s) \/ LockAccount(s)
             \/ RightPassword(s) \/ ClearAttempts(s) \/ ClearLock(s) \/ Drop(s)
      PROVE  WindowInv'
  <2>1. \E place \in Places \ {"hit"} : Move(s, place) /\ UNCHANGED <<hits, admitted>>
    BY <1>3 DEF AssertNotLocked, WrongPassword, StartLockWindow, LockAccount, RightPassword,
                ClearAttempts, ClearLock, Drop, Places
  <2> QED BY <2>1, WindowAside
<1>4. CASE LockTick
  <2>1. /\ at' = at /\ hits' = Older(hits)
        /\ admitted' = IF hits.life = 1 THEN 0 ELSE admitted
    BY <1>4 DEF LockTick
  <2>2. hits \in Counter(Limit + 1) /\ admitted \in Nat /\ hits.n \in Nat /\ hits.life \in Nat
    BY DEF ThrottleTypeOK, Counter
  <2>3. CASE hits.life = 0
    BY <2>1, <2>2, <2>3, OlderCounter DEF WindowInv
  <2>4. CASE hits.life = 1
    <3>1. hits' = Gone /\ admitted' = 0
      BY <2>1, <2>2, <2>4, OlderCounter
    <3>2. \A t \in Callers : at'[t] # "hit"
      BY <2>1, <2>4 DEF WindowInv
    <3> QED BY <3>1, <3>2 DEF WindowInv, Gone
  <2>5. CASE hits.life > 1
    <3>1. hits'.n = hits.n /\ admitted' = admitted
      BY <2>1, <2>2, <2>5, OlderCounter
    <3>2. \A t \in Callers : at'[t] # "hit"
      BY <2>1, <2>5 DEF WindowInv
    <3> QED BY <2>2, <2>4, <2>5, <3>1, <3>2 DEF WindowInv
  <2> QED BY <2>2, <2>3, <2>4, <2>5
<1>5. CASE UNCHANGED throttleVars
  BY <1>5 DEF throttleVars, WindowInv
<1> QED BY <1>1, <1>2, <1>3, <1>4, <1>5 DEF ThrottleNext, Proceed

\* No window of the limiter lets more than Limit requests through, for any number of
\* requests that overlap or die: a request that dies leaves its place taken.
THEOREM WindowsAreLimited == ThrottleSpec => []LimitHolds
<1>1. WindowInv => LimitHolds
  BY DEF WindowInv, LimitHolds
<1> QED BY <1>1, TypeInit, TypeStep, WindowInit, WindowStep, PTL DEF ThrottleSpec

-----------------------------------------------------------------------------
(* Counters without an expiry *)

LEMMA EndlessInit == ThrottleInit => EndlessFromDrops
BY DEF ThrottleInit, EndlessFromDrops, Endless, Gone

\* INCR leaves no counter at 1 without its request, and leaves the others their expiry.
LEMMA EndlessAfterIncr ==
    ASSUME NEW top \in Nat \ {0}, NEW c \in Counter(top), NEW d,
           d = [c EXCEPT !.n = Upto(c.n, top)], Endless(d), Upto(c.n, top) # 1
    PROVE  Endless(c)
<1>1. c.n \in 0..top /\ c.life \in Nat
  BY DEF Counter
<1>2. c.n # 0
  BY <1>1 DEF Upto
<1> QED BY <1>1, <1>2 DEF Endless, Counter

LEMMA EndlessStep ==
    ThrottleTypeOK /\ EndlessFromDrops /\ [ThrottleNext]_throttleVars => EndlessFromDrops'
<1> SUFFICES ASSUME ThrottleTypeOK, EndlessFromDrops, [ThrottleNext]_throttleVars
             PROVE  EndlessFromDrops'
  OBVIOUS
<1> USE ThrottleAssumption
<1>0. /\ drops \in Nat /\ at \in [Callers -> Places]
      /\ hits \in Counter(Limit + 1) /\ fails \in Counter(MaxFails + 1)
      /\ Limit + 1 \in Nat \ {0} /\ MaxFails + 1 \in Nat \ {0}
  BY DEF ThrottleTypeOK
<1>1. CASE drops > 0
  <2>1. drops' > 0
    BY <1>0, <1>1 DEF ThrottleNext, Hit, Proceed, StartWindow, AssertNotLocked, WrongPassword,
       StartLockWindow, LockAccount, RightPassword, ClearAttempts, ClearLock, Drop, LockTick,
       throttleVars
  <2> QED BY <2>1 DEF EndlessFromDrops
<1>2. CASE ~(drops > 0)
  <2>0. /\ Endless(hits) => \E s \in Callers : at[s] = "hit"
        /\ Endless(fails) => \E s \in Callers : at[s] = "failed"
    BY <1>2 DEF EndlessFromDrops
  <2>1. ASSUME NEW s \in Callers, Hit(s) PROVE EndlessFromDrops'
    <3>1. /\ at[s] = "idle" /\ fails' = fails
          /\ hits' = [hits EXCEPT !.n = Upto(hits.n, Limit + 1)]
      BY <2>1 DEF Hit
    <3>2. CASE Upto(hits.n, Limit + 1) = 1
      <4>1. at' = [at EXCEPT ![s] = "hit"]
        BY <2>1, <3>2 DEF Hit, First, Move
      <4>2. at'[s] = "hit" /\ \A t \in Callers : at[t] = "failed" => at'[t] = "failed"
        BY <1>0, <3>1, <4>1
      <4> QED BY <2>0, <3>1, <4>2 DEF EndlessFromDrops
    <3>3. CASE Upto(hits.n, Limit + 1) # 1
      <4>1. \A t \in Callers : /\ at[t] = "failed" => at'[t] = "failed"
                               /\ at[t] = "hit" => at'[t] = "hit"
        BY <1>0, <2>1, <3>1, <3>3 DEF Hit, First, Move
      <4>2. Endless(hits') => Endless(hits)
        BY <1>0, <3>1, <3>3, EndlessAfterIncr
      <4> QED BY <2>0, <3>1, <4>1, <4>2 DEF EndlessFromDrops
    <3> QED BY <3>2, <3>3
  <2>2. ASSUME NEW s \in Callers, StartWindow(s) PROVE EndlessFromDrops'
    <3>1. ~Endless(hits')
      BY <1>0, <2>2, ExpiringCounter DEF StartWindow
    <3>2. fails' = fails /\ \A t \in Callers : at[t] = "failed" => at'[t] = "failed"
      BY <1>0, <2>2 DEF StartWindow, Move
    <3> QED BY <2>0, <3>1, <3>2 DEF EndlessFromDrops
  <2>3. ASSUME NEW s \in Callers, AssertNotLocked(s) \/ LockAccount(s) \/ RightPassword(s) \/ ClearLock(s)
        PROVE  EndlessFromDrops'
    <3>1. UNCHANGED <<hits, fails>>
      BY <2>3 DEF AssertNotLocked, LockAccount, RightPassword, ClearLock
    <3>2. \A t \in Callers : /\ at[t] = "failed" => at'[t] = "failed"
                             /\ at[t] = "hit" => at'[t] = "hit"
      BY <1>0, <2>3 DEF AssertNotLocked, LockAccount, RightPassword, ClearLock, Move
    <3> QED BY <2>0, <3>1, <3>2 DEF EndlessFromDrops
  <2>4. ASSUME NEW s \in Callers, WrongPassword(s) PROVE EndlessFromDrops'
    <3>1. /\ at[s] = "password" /\ hits' = hits
          /\ fails' = [fails EXCEPT !.n = Upto(fails.n, MaxFails + 1)]
      BY <2>4 DEF WrongPassword
    <3>2. \A t \in Callers : /\ at[t] = "failed" => at'[t] = "failed"
                             /\ at[t] = "hit" => at'[t] = "hit"
      BY <1>0, <2>4, <3>1 DEF WrongPassword, Move
    <3>3. Upto(fails.n, MaxFails + 1) = 1 => at'[s] = "failed"
      BY <1>0, <2>4 DEF WrongPassword, Move, First
    <3>4. Upto(fails.n, MaxFails + 1) # 1 /\ Endless(fails') => Endless(fails)
      BY <1>0, <3>1, EndlessAfterIncr
    <3> QED BY <2>0, <3>1, <3>2, <3>3, <3>4 DEF EndlessFromDrops
  <2>5. ASSUME NEW s \in Callers, StartLockWindow(s) PROVE EndlessFromDrops'
    <3>1. ~Endless(fails')
      BY <1>0, <2>5, ExpiringCounter DEF StartLockWindow
    <3>2. hits' = hits /\ \A t \in Callers : at[t] = "hit" => at'[t] = "hit"
      BY <1>0, <2>5 DEF StartLockWindow, Move
    <3> QED BY <2>0, <3>1, <3>2 DEF EndlessFromDrops
  <2>6. ASSUME NEW s \in Callers, ClearAttempts(s) PROVE EndlessFromDrops'
    <3>1. ~Endless(fails')
      BY <2>6 DEF ClearAttempts, Endless, Gone
    <3>2. hits' = hits /\ \A t \in Callers : at[t] = "hit" => at'[t] = "hit"
      BY <1>0, <2>6 DEF ClearAttempts, Move
    <3> QED BY <2>0, <3>1, <3>2 DEF EndlessFromDrops
  <2>7. ASSUME NEW s \in Callers, Drop(s) PROVE EndlessFromDrops'
    BY <1>0, <2>7 DEF Drop, EndlessFromDrops
  <2>8. CASE LockTick
    <3>1. ASSUME NEW top \in Nat, NEW c \in Counter(top), Endless(Older(c)) PROVE Endless(c)
      BY <3>1, OlderCounter DEF Endless, Gone, Counter
    <3>2. (Endless(hits') => Endless(hits)) /\ (Endless(fails') => Endless(fails)) /\ at' = at
      BY <1>0, <2>8, <3>1 DEF LockTick
    <3> QED BY <2>0, <3>2 DEF EndlessFromDrops
  <2>9. CASE UNCHANGED throttleVars
    BY <2>9 DEF throttleVars, EndlessFromDrops
  <2> QED BY <2>1, <2>2, <2>3, <2>4, <2>5, <2>6, <2>7, <2>8, <2>9 DEF ThrottleNext, Proceed
<1> QED BY <1>1, <1>2

\* A counter stays without an expiry for good only behind a request that died: for any
\* number of requests, limits and windows.
THEOREM EndlessCountersHaveACause == ThrottleSpec => []EndlessFromDrops
BY TypeInit, TypeStep, EndlessInit, EndlessStep, PTL DEF ThrottleSpec

\* The limiter and the lock-out count as they should, for any number of requests.
THEOREM BrakesAlwaysHold == ThrottleSpec => []BrakesHold
BY BrakesTypeCorrect, WindowsAreLimited, EndlessCountersHaveACause, PTL DEF BrakesHold

-----------------------------------------------------------------------------
(* How far a run of wrong passwords goes *)

\* Requests that have counted the attempt that locks, and have not locked yet; and
\* requests that have found no lock, and have not tried their password yet.
Pending == {s \in Callers : at[s] = "lock" \/ (at[s] = "failed" /\ MaxFails = 1)}
Asking == {s \in Callers : at[s] = "password"}

(***************************************************************************)
(* Below the limit the counter has counted every try.  Past it each try    *)
(* was made by a request that is about to lock, or died; and once there is *)
(* a lock only those go on that had found none.                            *)
(***************************************************************************)
TriesInv ==
    /\ fails.n < MaxFails => tries <= fails.n
    /\ fails.n >= MaxFails /\ lock = 0 => tries <= MaxFails - 1 + Cardinality(Pending) + drops
    /\ lock > 0 => tries + Cardinality(Asking) <= MaxFails - 1 + Cardinality(Callers) + drops

\* The sizes of two sets that differ by one element at most.
LEMMA OneMoreAtMost ==
    ASSUME NEW S, IsFiniteSet(S), NEW x, NEW T \in SUBSET (S \cup {x})
    PROVE  IsFiniteSet(T) /\ Cardinality(T) <= Cardinality(S) + 1
<1>0. Cardinality(S) \in Nat
  BY FS_CardinalityType
<1>1. IsFiniteSet(S \cup {x}) /\ Cardinality(S \cup {x}) <= Cardinality(S) + 1
  <2>1. /\ IsFiniteSet(S \cup {x})
        /\ Cardinality(S \cup {x}) = IF x \in S THEN Cardinality(S) ELSE Cardinality(S) + 1
    BY FS_AddElement
  <2> QED BY <1>0, <2>1
<1>2. IsFiniteSet(T) /\ Cardinality(T) <= Cardinality(S \cup {x})
  BY <1>1, FS_Subset
<1>3. Cardinality(S) \in Nat /\ Cardinality(T) \in Nat /\ Cardinality(S \cup {x}) \in Nat
  BY <1>1, <1>2, FS_CardinalityType
<1> QED BY <1>1, <1>2, <1>3

LEMMA OneLess ==
    ASSUME NEW S, IsFiniteSet(S), NEW x \in S, NEW T \in SUBSET (S \ {x})
    PROVE  IsFiniteSet(T) /\ Cardinality(T) + 1 <= Cardinality(S)
<1>1. IsFiniteSet(S \ {x}) /\ Cardinality(S \ {x}) = Cardinality(S) - 1
  BY FS_RemoveElement
<1>2. IsFiniteSet(T) /\ Cardinality(T) <= Cardinality(S \ {x})
  BY <1>1, FS_Subset
<1>3. Cardinality(S) \in Nat /\ Cardinality(T) \in Nat
  BY <1>2, FS_CardinalityType
<1> QED BY <1>1, <1>2, <1>3

\* Nobody asks and is about to lock at once.
LEMMA PlacesCounted ==
    /\ Cardinality(Pending) \in Nat /\ Cardinality(Asking) \in Nat /\ Cardinality(Callers) \in Nat
    /\ IsFiniteSet(Pending) /\ IsFiniteSet(Asking)
    /\ Cardinality(Pending) + Cardinality(Asking) <= Cardinality(Callers)
<1>1. IsFiniteSet(Callers)
  BY ThrottleAssumption
<1>2. Pending \subseteq Callers /\ Asking \subseteq Callers /\ Pending \cap Asking = {}
  BY DEF Pending, Asking
<1>3. IsFiniteSet(Pending) /\ IsFiniteSet(Asking)
  BY <1>1, <1>2, FS_Subset
<1>4. /\ IsFiniteSet(Pending \cup Asking)
      /\ Cardinality(Pending \cup Asking)
           = Cardinality(Pending) + Cardinality(Asking) - Cardinality(Pending \cap Asking)
  BY <1>3, FS_Union
<1>5. Cardinality(Pending \cap Asking) = 0
  BY <1>2, FS_EmptySet
<1>6. Cardinality(Pending \cup Asking) <= Cardinality(Callers)
  BY <1>1, <1>2, FS_Subset
<1>7. Cardinality(Pending) \in Nat /\ Cardinality(Asking) \in Nat /\ Cardinality(Callers) \in Nat
  BY <1>1, <1>3, FS_CardinalityType
<1> QED BY <1>3, <1>4, <1>5, <1>6, <1>7

LEMMA TriesInit == ThrottleInit => TriesInv
BY ThrottleAssumption DEF ThrottleInit, TriesInv, Gone

\* A request that counts nothing and is not about to lock: the other sets do not
\* shrink and do not grow, but that somebody may begin to ask where there is no lock.
LEMMA TriesAside ==
    ASSUME ThrottleTypeOK, TriesInv, fails'.n = fails.n, UNCHANGED <<lock, drops, tries>>,
           Pending' = Pending, Asking' \subseteq Asking \/ lock = 0
    PROVE  TriesInv'
<1>1. CASE lock = 0
  BY <1>1 DEF TriesInv, ThrottleTypeOK
<1>2. CASE lock # 0
  <2>1. Asking' \subseteq Asking
    BY <1>2
  <2>2. Cardinality(Asking') <= Cardinality(Asking) /\ Cardinality(Asking') \in Nat
    BY <2>1, PlacesCounted, FS_Subset, FS_CardinalityType
  <2> HIDE DEF Asking, Pending
  <2> QED BY <1>2, <2>2, PlacesCounted, ThrottleAssumption DEF TriesInv, ThrottleTypeOK, Counter
<1> QED BY <1>1, <1>2

LEMMA TriesStep ==
    ThrottleTypeOK /\ TriesInv /\ [ThrottleNext]_throttleVars => TriesInv'
<1> SUFFICES ASSUME ThrottleTypeOK, TriesInv, [ThrottleNext]_throttleVars PROVE TriesInv'
  OBVIOUS
<1> USE ThrottleAssumption
<1>0. /\ drops \in Nat /\ tries \in Nat /\ lock \in Nat /\ at \in [Callers -> Places]
      /\ fails \in Counter(MaxFails + 1) /\ fails.n \in 0..(MaxFails + 1) /\ fails.life \in Nat
      /\ MaxFails + 1 \in Nat \ {0}
  BY DEF ThrottleTypeOK, Counter
<1>1. ASSUME NEW s \in Callers,
             Hit(s) \/ StartWindow(s) \/ AssertNotLocked(s) \/ StartLockWindow(s) \/ RightPassword(s)
      PROVE  TriesInv'
  <2>1. UNCHANGED <<lock, drops, tries>>
    BY <1>1 DEF Hit, StartWindow, AssertNotLocked, StartLockWindow, RightPassword
  <2>2. fails'.n = fails.n
    BY <1>0, <1>1, ExpiringCounter DEF Hit, StartWindow, AssertNotLocked, StartLockWindow, RightPassword
  <2>3. Pending' = Pending
    BY <1>0, <1>1 DEF Hit, StartWindow, AssertNotLocked, StartLockWindow, RightPassword, Pending,
                      Move, Locks
  <2>4. Asking' \subseteq Asking \/ lock = 0
    BY <1>0, <1>1 DEF Hit, StartWindow, AssertNotLocked, StartLockWindow, RightPassword, Asking,
                      Move, Locks
  <2> QED BY <2>1, <2>2, <2>3, <2>4, TriesAside
<1>2. ASSUME NEW s \in Callers, WrongPassword(s) PROVE TriesInv'
  <2> DEFINE n == Upto(fails.n, MaxFails + 1)
  <2>1. /\ n \in 1..(MaxFails + 1) /\ n >= fails.n
        /\ fails.n <= MaxFails => n = fails.n + 1
    BY <1>0, UptoBounds
  <2>2. /\ at[s] = "password" /\ fails'.n = n /\ tries' = tries + 1
        /\ UNCHANGED <<lock, drops>>
        /\ at' = [at EXCEPT ![s] = IF n = 1 THEN "failed" ELSE IF n >= MaxFails THEN "lock" ELSE "idle"]
    BY <1>0, <1>2 DEF WrongPassword, Move, First, Locks, Counter
  <2> HIDE DEF n
  <2>3. s \in Asking /\ s \notin Pending /\ Asking' \subseteq Asking \ {s}
    BY <1>0, <2>2 DEF Asking, Pending
  <2>4. Cardinality(Asking') + 1 <= Cardinality(Asking) /\ Cardinality(Asking') \in Nat
    BY <2>3, PlacesCounted, OneLess, FS_CardinalityType
  <2>5. CASE n < MaxFails
    <3>1. tries' <= fails'.n /\ tries' <= MaxFails - 1
      BY <1>0, <2>1, <2>2, <2>5 DEF TriesInv
    <3>2. Cardinality(Asking') <= Cardinality(Callers)
      BY <2>4, PlacesCounted
    <3> QED BY <1>0, <2>1, <2>2, <2>4, <2>5, <3>1, <3>2, PlacesCounted DEF TriesInv
  <2>6. CASE n >= MaxFails
    <3>1. Pending \subseteq Pending' \ {s} /\ s \in Pending' /\ Pending' \subseteq Callers
      BY <1>0, <2>1, <2>2, <2>6 DEF Pending
    <3>2. IsFiniteSet(Pending')
      BY <3>1, FS_Subset
    <3>3. Cardinality(Pending) + 1 <= Cardinality(Pending') /\ Cardinality(Pending') \in Nat
      BY <3>1, <3>2, OneLess, FS_CardinalityType
    <3>4. lock = 0 => tries <= MaxFails - 1 + Cardinality(Pending) + drops
      BY <1>0, <2>1, <2>6, PlacesCounted DEF TriesInv
    <3> HIDE DEF Pending, Asking
    <3>5. lock' = 0 => tries' <= MaxFails - 1 + Cardinality(Pending') + drops'
      BY <1>0, <2>2, <3>3, <3>4, PlacesCounted
    <3>6. lock' > 0 => tries' + Cardinality(Asking') <= MaxFails - 1 + Cardinality(Callers) + drops'
      BY <1>0, <2>2, <2>4, PlacesCounted DEF TriesInv
    <3> QED BY <1>0, <2>1, <2>2, <2>6, <3>5, <3>6 DEF TriesInv
  <2> QED BY <1>0, <2>1, <2>5, <2>6
<1>3. ASSUME NEW s \in Callers, LockAccount(s) PROVE TriesInv'
  <2>1. lock' = LockWindow /\ UNCHANGED <<fails, drops, tries>> /\ Asking' = Asking
    BY <1>0, <1>3 DEF LockAccount, LockFor, Move, Asking
  <2>2. tries + Cardinality(Asking) <= MaxFails - 1 + Cardinality(Callers) + drops
    <3> HIDE DEF Asking
    <3>1. CASE fails.n < MaxFails
      BY <1>0, <3>1, PlacesCounted DEF TriesInv
    <3>2. CASE fails.n >= MaxFails /\ lock = 0
      BY <1>0, <3>2, PlacesCounted DEF TriesInv
    <3>3. CASE lock > 0
      BY <3>3 DEF TriesInv
    <3> QED BY <1>0, <3>1, <3>2, <3>3
  <2> QED BY <1>0, <2>1, <2>2 DEF TriesInv
<1>4. ASSUME NEW s \in Callers, ClearAttempts(s) PROVE TriesInv'
  <2>1. /\ fails' = Gone /\ UNCHANGED <<lock, drops>> /\ Asking' = Asking
        /\ tries' = IF fails = Gone THEN tries ELSE 0
    BY <1>0, <1>4 DEF ClearAttempts, Move, Asking
  <2>2. tries' = 0
    BY <1>0, <2>1 DEF TriesInv, Gone
  <2> QED BY <1>0, <2>1, <2>2, PlacesCounted DEF TriesInv, Gone
<1>5. ASSUME NEW s \in Callers, ClearLock(s) PROVE TriesInv'
  <2>1. /\ lock' = 0 /\ UNCHANGED <<fails, drops>> /\ Pending' = Pending
        /\ tries' = IF lock = 0 THEN tries ELSE 0
    BY <1>0, <1>5 DEF ClearLock, Move, Pending
  <2> QED BY <1>0, <2>1, PlacesCounted DEF TriesInv
<1>6. ASSUME NEW s \in Callers, Drop(s) PROVE TriesInv'
  <2>1. /\ drops' = drops + 1 /\ UNCHANGED <<fails, lock, tries>>
        /\ Asking' \subseteq Asking /\ Pending' \subseteq Pending /\ Pending \subseteq Pending' \cup {s}
    BY <1>0, <1>6 DEF Drop, Move, Pending, Asking
  <2>2. Cardinality(Asking') <= Cardinality(Asking) /\ Cardinality(Asking') \in Nat
    BY <2>1, PlacesCounted, FS_Subset, FS_CardinalityType
  <2>3. IsFiniteSet(Pending') /\ Cardinality(Pending') \in Nat
    BY <2>1, PlacesCounted, FS_Subset, FS_CardinalityType
  <2>4. Cardinality(Pending) <= Cardinality(Pending') + 1
    BY <2>1, <2>3, OneMoreAtMost
  <2> HIDE DEF Pending, Asking
  <2> QED BY <1>0, <2>1, <2>2, <2>3, <2>4, PlacesCounted DEF TriesInv
<1>7. CASE LockTick
  <2>1. /\ fails' = Older(fails) /\ lock' = (IF lock > 0 THEN lock - 1 ELSE 0)
        /\ tries' = (IF fails.life = 1 \/ lock = 1 THEN 0 ELSE tries)
        /\ UNCHANGED <<at, drops>>
    BY <1>7 DEF LockTick
  <2>2. Pending' = Pending /\ Asking' = Asking
    BY <2>1 DEF Pending, Asking
  <2>3. fails'.n = fails.n \/ (fails'.n = 0 /\ tries' = 0)
    BY <1>0, <2>1, OlderCounter DEF Gone
  <2>4. tries' = 0 \/ (tries' = tries /\ (lock = 0 <=> lock' = 0))
    BY <1>0, <2>1
  <2> HIDE DEF Pending, Asking
  <2>5. CASE tries' = 0
    BY <1>0, <2>1, <2>2, <2>3, <2>5, PlacesCounted DEF TriesInv
  <2>6. CASE tries' # 0
    <3>1. fails'.n = fails.n /\ tries' = tries /\ (lock = 0 <=> lock' = 0)
      BY <2>3, <2>4, <2>6
    <3> QED BY <1>0, <2>1, <2>2, <3>1 DEF TriesInv
  <2> QED BY <2>5, <2>6
<1>8. CASE UNCHANGED throttleVars
  BY <1>8 DEF throttleVars, TriesInv, Pending, Asking
<1> QED BY <1>1, <1>2, <1>3, <1>4, <1>5, <1>6, <1>7, <1>8 DEF ThrottleNext, Proceed

\* However many requests overlap, a run of wrong passwords is longer than the lockout
\* allows only by requests that had found no lock, and requests that died.
THEOREM TriesStayBounded == ThrottleSpec => []TriesBounded
<1>1. ThrottleTypeOK /\ TriesInv => TriesBounded
  <2> SUFFICES ASSUME ThrottleTypeOK, TriesInv PROVE TriesBounded
    OBVIOUS
  <2>1. /\ drops \in Nat /\ tries \in Nat /\ lock \in Nat /\ fails.n \in Nat /\ MaxFails \in Nat
    BY ThrottleAssumption DEF ThrottleTypeOK, Counter
  <2>2. CASE lock > 0
    BY <2>1, <2>2, PlacesCounted DEF TriesInv, TriesBounded
  <2>3. CASE lock = 0 /\ fails.n >= MaxFails
    BY <2>1, <2>3, PlacesCounted DEF TriesInv, TriesBounded
  <2>4. CASE fails.n < MaxFails
    BY <2>1, <2>4, PlacesCounted DEF TriesInv, TriesBounded
  <2> QED BY <2>1, <2>2, <2>3, <2>4
<1> QED BY <1>1, TypeInit, TypeStep, TriesInit, TriesStep, PTL DEF ThrottleSpec
-----------------------------------------------------------------------------
(* One-time codes *)

\* Submissions do not overlap.
SerialVerifiers == \A s, t \in Verifiers : s = t

Held(p) == challenge[p] # NoChallenge
Judging(s) == clerk[s].pc \in {"judge", "time", "write"}
Owing(s) == clerk[s].pc \in {"time", "write"}
Submitting(s) == clerk[s].pc \in {"drop", "method", "read", "judge", "time", "write", "accept"}

\* What a request carries at each of its steps.
ClerkInv ==
    \A s \in Clerks : LET t == clerk[s] IN
        /\ Submitting(s) => s \in Verifiers
        /\ Submitting(s) <=> t.op \in {"verify", "factor"}
        /\ t.op = "factor" <=> t.login # Blank
        /\ t.pc \in {"drop", "method"} => t.op = "factor"
        /\ t.pc # "idle" => t.purpose \in Purposes
        /\ t.pc = "send" \/ Judging(s) => t.copy \in Challenge /\ t.copy.code \in drawn
        /\ t.pc = "time" => t.copy.left > 1

CodesStored == \A p \in Purposes : Held(p) => challenge[p].code \in drawn

\* A log-in whose token can still be used, or is being used, has no session yet.
LoginInv ==
    /\ \A l \in Logins : sessions[l] <= 1 /\ (pre[l] # "spent" => sessions[l] = 0)
    /\ \A s \in Clerks : clerk[s].op = "factor" =>
          /\ sessions[clerk[s].login] = 0
          /\ clerk[s].pc = "drop" \/ pre[clerk[s].login] = "spent"

\* A code that was answered is neither stored nor about to be written back, and a
\* code is a code of one purpose.
CodeInv ==
    /\ \A c \in Codes \ drawn : wrongs[c] = 0 /\ answers[c] = 0 /\ lived[c] = 0
    /\ \A c \in Codes : answers[c] <= 1
    /\ \A p \in Purposes : Held(p) => answers[challenge[p].code] = 0
    /\ \A p, q \in Purposes : Held(p) /\ challenge[q].code = challenge[p].code => p = q
    /\ \A s \in Clerks : Judging(s) =>
          /\ answers[clerk[s].copy.code] = 0
          /\ \A q \in Purposes : challenge[q].code = clerk[s].copy.code => q = clerk[s].purpose

\* Wrong submissions and the attempts that are left add up, but for one that is
\* counted and not written back yet.
GuessInv ==
    /\ \A c \in Codes : wrongs[c] <= MaxAttempts + losses
    /\ \A p \in Purposes : Held(p) =>
          LET tried == wrongs[challenge[p].code] + challenge[p].left
          IN  \/ tried <= MaxAttempts + losses
              \/ /\ tried <= MaxAttempts + losses + 1
                 /\ \E s \in Clerks : Owing(s) /\ clerk[s].copy.code = challenge[p].code
    /\ \A s \in Clerks : LET t == clerk[s] IN
          /\ t.pc \in {"judge", "write"} => wrongs[t.copy.code] + t.copy.left <= MaxAttempts + losses
          /\ t.pc = "time" => wrongs[t.copy.code] + t.copy.left <= MaxAttempts + losses + 1

\* What a code has lived and what is left of its life add up to one tick more than
\* its life for each attempt that was taken off it.
LifeInv ==
    /\ \A c \in Codes \ revived : lived[c] <= Life + MaxAttempts - 1
    /\ \A p \in Purposes : LET ch == challenge[p] IN
          Held(p) /\ ch.code \notin revived
              => lived[ch.code] + ch.life <= Life + MaxAttempts - ch.left
    /\ \A s \in Clerks : LET t == clerk[s]
                             found == challenge[t.purpose]
                         IN
          /\ t.pc \in {"judge", "time"} =>
               /\ t.copy.code \notin revived => lived[t.copy.code] <= Life + MaxAttempts - t.copy.left
               /\ found.code = t.copy.code => found.left = t.copy.left
          /\ t.pc = "write" /\ t.copy.code \notin revived /\ found.code \in {Blank, t.copy.code}
               => lived[t.copy.code] + t.copy.life <= Life + MaxAttempts - t.copy.left

\* A request that looks at no stored code.
Quiet(s) ==
    /\ ~Judging(s) /\ ~Judging(s)'
    /\ \A o \in Clerks \ {s} : clerk'[o] = clerk[o]
    /\ UNCHANGED <<challenge, drawn, losses, wrongs, answers, lived, revived>>

-----------------------------------------------------------------------------
LEMMA ChallengeFacts ==
    /\ NoChallenge \notin Challenge /\ NoChallenge.code = Blank
    /\ \A ch \in Challenge : /\ ch.code \in Codes /\ ch.code # Blank
                             /\ ch.left \in 1..MaxAttempts /\ ch.life \in 1..Life
    /\ \A ch \in Challenge : Aged(ch) = NoChallenge \/
          (/\ Aged(ch) \in Challenge /\ Aged(ch).code = ch.code
           /\ Aged(ch).left = ch.left /\ Aged(ch).life = ch.life - 1)
    /\ Aged(NoChallenge) = NoChallenge
<1> USE ChallengesAssumption DEF Challenge, NoChallenge, Aged
<1>1. NoChallenge \notin Challenge /\ NoChallenge.code = Blank /\ Aged(NoChallenge) = NoChallenge
  OBVIOUS
<1>2. ASSUME NEW ch \in Challenge
      PROVE  /\ ch.code \in Codes /\ ch.code # Blank
             /\ ch.left \in 1..MaxAttempts /\ ch.life \in 1..Life
             /\ ch.life > 1 => /\ Aged(ch) \in Challenge /\ Aged(ch).code = ch.code
                               /\ Aged(ch).left = ch.left /\ Aged(ch).life = ch.life - 1
             /\ ~(ch.life > 1) => Aged(ch) = NoChallenge
  OBVIOUS
<1> QED BY <1>1, <1>2

LEMMA AuthInit == ChallengesInit => ChallengesTypeOK /\ ClerkInv /\ CodesStored
<1> SUFFICES ASSUME ChallengesInit PROVE ChallengesTypeOK /\ ClerkInv /\ CodesStored
  OBVIOUS
<1>1. AtRest \in Clerk
  BY DEF AtRest, Clerk
<1> QED BY <1>1, ChallengesAssumption
        DEF ChallengesInit, ChallengesTypeOK, ClerkInv, AtRest, Submitting, Judging,
            CodesStored, Held

\* A request takes a step, and the others stay as they are.
LEMMA ClerkMoves ==
    ASSUME ChallengesTypeOK, ClerkInv, NEW s \in Clerks, NEW t \in Clerk, Now(s, t),
           drawn \subseteq drawn',
           t.pc \in {"drop", "method", "read", "judge", "time", "write", "accept"} => s \in Verifiers,
           t.pc \in {"drop", "method", "read", "judge", "time", "write", "accept"}
               <=> t.op \in {"verify", "factor"},
           t.op = "factor" <=> t.login # Blank,
           t.pc \in {"drop", "method"} => t.op = "factor",
           t.pc # "idle" => t.purpose \in Purposes,
           t.pc \in {"send", "judge", "time", "write"} => t.copy \in Challenge /\ t.copy.code \in drawn',
           t.pc = "time" => t.copy.left > 1
    PROVE  clerk' \in [Clerks -> Clerk] /\ ClerkInv'
<1>1. clerk' = [clerk EXCEPT ![s] = t] /\ clerk \in [Clerks -> Clerk]
  BY DEF Now, ChallengesTypeOK
<1>2. clerk' \in [Clerks -> Clerk] /\ clerk'[s] = t /\ \A o \in Clerks : o # s => clerk'[o] = clerk[o]
  BY <1>1
<1>3. ASSUME NEW o \in Clerks
      PROVE  LET u == clerk'[o] IN
             /\ Submitting(o)' => o \in Verifiers
             /\ Submitting(o)' <=> u.op \in {"verify", "factor"}
             /\ u.op = "factor" <=> u.login # Blank
             /\ u.pc \in {"drop", "method"} => u.op = "factor"
             /\ u.pc # "idle" => u.purpose \in Purposes
             /\ u.pc = "send" \/ Judging(o)' => u.copy \in Challenge /\ u.copy.code \in drawn'
             /\ u.pc = "time" => u.copy.left > 1
  <2>1. CASE o = s
    BY <1>2, <2>1 DEF Submitting, Judging
  <2>2. CASE o # s
    BY <1>2, <2>2 DEF ClerkInv, Submitting, Judging
  <2> QED BY <2>1, <2>2
<1> QED BY <1>2, <1>3 DEF ClerkInv

LEMMA AuthStep ==
    ChallengesTypeOK /\ ClerkInv /\ CodesStored /\ [ChallengesNext]_otpVars
        => ChallengesTypeOK' /\ ClerkInv'
<1> SUFFICES ASSUME ChallengesTypeOK, ClerkInv, CodesStored, [ChallengesNext]_otpVars
             PROVE  ChallengesTypeOK' /\ ClerkInv'
  OBVIOUS
<1> USE ChallengesAssumption
<1>0. AtRest \in Clerk /\ clerk \in [Clerks -> Clerk] /\ drawn \subseteq Codes /\ sent \subseteq drawn
  BY DEF AtRest, Clerk, ChallengesTypeOK
<1>1. ASSUME NEW s \in Clerks, NEW p \in Purposes, SendCode(s, p) PROVE ChallengesTypeOK' /\ ClerkInv'
  <2> DEFINE t == [AtRest EXCEPT !.op = "send", !.pc = "create", !.purpose = p]
  <2>1. Now(s, t) /\ UNCHANGED <<challenge, cool, drawn, sent, pre, losses, history>>
    BY <1>1 DEF SendCode
  <2>2. t \in Clerk /\ t.pc = "create" /\ t.op = "send" /\ t.purpose \in Purposes /\ t.login = Blank
    BY DEF AtRest, Clerk
  <2> HIDE DEF t
  <2>3. clerk' \in [Clerks -> Clerk] /\ ClerkInv'
    BY <2>1, <2>2, ClerkMoves
  <2> QED BY <2>1, <2>3 DEF ChallengesTypeOK, history
<1>2. ASSUME NEW s \in Clerks, ResendCode(s) PROVE ChallengesTypeOK' /\ ClerkInv'
  <2> DEFINE t == [AtRest EXCEPT !.op = "resend", !.pc = "cool", !.purpose = "client-verify"]
  <2>1. Now(s, t) /\ UNCHANGED <<challenge, cool, drawn, sent, pre, losses, history>>
    BY <1>2 DEF ResendCode
  <2>2. t \in Clerk /\ t.pc = "cool" /\ t.op = "resend" /\ t.purpose \in Purposes /\ t.login = Blank
    BY DEF AtRest, Clerk, Purposes
  <2> HIDE DEF t
  <2>3. clerk' \in [Clerks -> Clerk] /\ ClerkInv'
    BY <2>1, <2>2, ClerkMoves
  <2> QED BY <2>1, <2>3 DEF ChallengesTypeOK, history
<1>3. ASSUME NEW s \in Clerks, StartCooldown(s) PROVE ChallengesTypeOK' /\ ClerkInv'
  <2> DEFINE t == [clerk[s] EXCEPT !.pc = "create"]
  <2>1. /\ clerk[s].pc = "cool" /\ Now(s, t) /\ cool' = Cooldown
        /\ UNCHANGED <<challenge, drawn, sent, pre, losses, history>>
    BY <1>3 DEF StartCooldown
  <2>2. /\ t \in Clerk /\ t.pc = "create" /\ t.op = clerk[s].op /\ t.purpose = clerk[s].purpose
        /\ t.login = clerk[s].login
    BY <1>0 DEF Clerk
  <2>3. clerk[s].op \notin {"verify", "factor"} /\ clerk[s].login = Blank /\ clerk[s].purpose \in Purposes
    BY <2>1 DEF ClerkInv, Submitting
  <2> HIDE DEF t
  <2>4. clerk' \in [Clerks -> Clerk] /\ ClerkInv'
    BY <2>1, <2>2, <2>3, ClerkMoves
  <2> QED BY <2>1, <2>4 DEF ChallengesTypeOK, history
<1>4. ASSUME NEW s \in Clerks, NEW c \in Codes, CreateChallenge(s, c) PROVE ChallengesTypeOK' /\ ClerkInv'
  <2> DEFINE new == [code |-> c, left |-> MaxAttempts, life |-> Life]
             t == [clerk[s] EXCEPT !.pc = "send", !.copy = new]
  <2>1. /\ clerk[s].pc = "create" /\ Now(s, t) /\ drawn' = drawn \cup {c}
        /\ challenge' = [challenge EXCEPT ![clerk[s].purpose] = new]
        /\ UNCHANGED <<cool, sent, pre, losses, history>>
    BY <1>4 DEF CreateChallenge
  <2>2. new \in Challenge /\ new.code = c
    BY DEF Challenge
  <2> HIDE DEF new
  <2>3. /\ t \in Clerk /\ t.pc = "send" /\ t.op = clerk[s].op /\ t.purpose = clerk[s].purpose
        /\ t.login = clerk[s].login /\ t.copy = new
    BY <1>0, <2>2 DEF Clerk
  <2>4. clerk[s].op \notin {"verify", "factor"} /\ clerk[s].login = Blank /\ clerk[s].purpose \in Purposes
    BY <2>1 DEF ClerkInv, Submitting
  <2> HIDE DEF t
  <2>5. clerk' \in [Clerks -> Clerk] /\ ClerkInv'
    BY <2>1, <2>2, <2>3, <2>4, ClerkMoves
  <2> QED BY <2>1, <2>2, <2>5 DEF ChallengesTypeOK, history
<1>5. ASSUME NEW s \in Clerks, EnqueueCode(s) PROVE ChallengesTypeOK' /\ ClerkInv'
  <2>1. /\ clerk[s].pc = "send" /\ sent' \subseteq sent \cup {clerk[s].copy.code}
        /\ Now(s, [clerk[s] EXCEPT !.pc = "token"]) \/ Now(s, AtRest)
        /\ UNCHANGED <<challenge, cool, drawn, pre, losses, history>>
    BY <1>5 DEF EnqueueCode
  <2>2. /\ clerk[s].op \notin {"verify", "factor"} /\ clerk[s].login = Blank
        /\ clerk[s].purpose \in Purposes /\ clerk[s].copy.code \in drawn
    BY <2>1 DEF ClerkInv, Submitting
  <2>3. clerk' \in [Clerks -> Clerk] /\ ClerkInv'
    <3>1. CASE Now(s, AtRest)
      BY <1>0, <2>1, <3>1, ClerkMoves DEF AtRest
    <3>2. CASE Now(s, [clerk[s] EXCEPT !.pc = "token"])
      <4> DEFINE t == [clerk[s] EXCEPT !.pc = "token"]
      <4>1. /\ t \in Clerk /\ t.pc = "token" /\ t.op = clerk[s].op /\ t.purpose = clerk[s].purpose
            /\ t.login = clerk[s].login
        BY <1>0 DEF Clerk
      <4> HIDE DEF t
      <4> QED BY <2>1, <2>2, <3>2, <4>1, ClerkMoves DEF t
    <3> QED BY <2>1, <3>1, <3>2
  <2> QED BY <2>1, <2>2, <2>3 DEF ChallengesTypeOK, history
<1>6. ASSUME NEW s \in Clerks, NEW l \in Logins, IssuePre2fa(s, l) PROVE ChallengesTypeOK' /\ ClerkInv'
  <2>1. Now(s, AtRest) /\ pre' = [pre EXCEPT ![l] = "active"]
        /\ UNCHANGED <<challenge, cool, drawn, sent, losses, history>>
    BY <1>6 DEF IssuePre2fa
  <2>2. clerk' \in [Clerks -> Clerk] /\ ClerkInv'
    BY <1>0, <2>1, ClerkMoves DEF AtRest
  <2> QED BY <2>1, <2>2 DEF ChallengesTypeOK, history
<1>7. ASSUME NEW s \in Clerks, NEW g \in Codes \cup {Blank}, VerifyClientOtp(s, g)
      PROVE  ChallengesTypeOK' /\ ClerkInv'
  <2> DEFINE t == [AtRest EXCEPT !.op = "verify", !.pc = "read", !.purpose = "client-verify", !.guess = g]
  <2>1. s \in Verifiers /\ Now(s, t) /\ UNCHANGED <<challenge, cool, drawn, sent, pre, losses, history>>
    BY <1>7 DEF VerifyClientOtp
  <2>2. t \in Clerk /\ t.pc = "read" /\ t.op = "verify" /\ t.purpose \in Purposes /\ t.login = Blank
    BY DEF AtRest, Clerk, Purposes
  <2> HIDE DEF t
  <2>3. clerk' \in [Clerks -> Clerk] /\ ClerkInv'
    BY <2>1, <2>2, ClerkMoves
  <2> QED BY <2>1, <2>3 DEF ChallengesTypeOK, history
<1>8. ASSUME NEW s \in Clerks, NEW l \in Logins, NEW g \in Codes \cup {Blank}, StaffTwoFactor(s, l, g)
      PROVE  ChallengesTypeOK' /\ ClerkInv'
  <2> DEFINE t == [AtRest EXCEPT !.op = "factor", !.pc = "drop", !.purpose = "staff-sms",
                                 !.guess = g, !.login = l]
  <2>1. s \in Verifiers /\ Now(s, t) /\ UNCHANGED <<challenge, cool, drawn, sent, pre, losses, history>>
    BY <1>8 DEF StaffTwoFactor
  <2>2. t \in Clerk /\ t.pc = "drop" /\ t.op = "factor" /\ t.purpose \in Purposes /\ t.login # Blank
    BY DEF AtRest, Clerk, Purposes
  <2> HIDE DEF t
  <2>3. clerk' \in [Clerks -> Clerk] /\ ClerkInv'
    BY <2>1, <2>2, ClerkMoves
  <2> QED BY <2>1, <2>3 DEF ChallengesTypeOK, history
<1>9. ASSUME NEW s \in Clerks, DropPre2fa(s) PROVE ChallengesTypeOK' /\ ClerkInv'
  <2> DEFINE t == [clerk[s] EXCEPT !.pc = "method"]
  <2>1. /\ clerk[s].pc = "drop" /\ Now(s, t) /\ pre' = [pre EXCEPT ![clerk[s].login] = "spent"]
        /\ UNCHANGED <<challenge, cool, drawn, sent, losses, history>>
    BY <1>9 DEF DropPre2fa, SpentPre2fa
  <2>2. /\ t \in Clerk /\ t.pc = "method" /\ t.op = clerk[s].op /\ t.purpose = clerk[s].purpose
        /\ t.login = clerk[s].login
    BY <1>0 DEF Clerk
  <2>3. s \in Verifiers /\ clerk[s].op = "factor" /\ clerk[s].login # Blank /\ clerk[s].purpose \in Purposes
    BY <2>1 DEF ClerkInv, Submitting
  <2> HIDE DEF t
  <2>4. clerk' \in [Clerks -> Clerk] /\ ClerkInv'
    BY <2>1, <2>2, <2>3, ClerkMoves
  <2> QED BY <2>1, <2>4 DEF ChallengesTypeOK, history
<1>10. ASSUME NEW s \in Clerks, ChooseMethod(s) PROVE ChallengesTypeOK' /\ ClerkInv'
  <2> DEFINE t == [clerk[s] EXCEPT !.pc = "read"]
  <2>1. /\ clerk[s].pc = "method" /\ (Now(s, t) \/ Now(s, AtRest))
        /\ UNCHANGED <<challenge, cool, drawn, sent, pre, losses, history>>
    BY <1>10 DEF ChooseMethod
  <2>2. /\ t \in Clerk /\ t.pc = "read" /\ t.op = clerk[s].op /\ t.purpose = clerk[s].purpose
        /\ t.login = clerk[s].login
    BY <1>0 DEF Clerk
  <2>3. s \in Verifiers /\ clerk[s].op = "factor" /\ clerk[s].login # Blank /\ clerk[s].purpose \in Purposes
    BY <2>1 DEF ClerkInv, Submitting
  <2> HIDE DEF t
  <2>4. CASE Now(s, t)
    <3>1. clerk' \in [Clerks -> Clerk] /\ ClerkInv'
      BY <2>1, <2>2, <2>3, <2>4, ClerkMoves
    <3> QED BY <2>1, <3>1 DEF ChallengesTypeOK, history
  <2>5. CASE Now(s, AtRest)
    <3>1. clerk' \in [Clerks -> Clerk] /\ ClerkInv'
      BY <1>0, <2>1, <2>5, ClerkMoves DEF AtRest
    <3> QED BY <2>1, <3>1 DEF ChallengesTypeOK, history
  <2> QED BY <2>1, <2>4, <2>5
<1>11. ASSUME NEW s \in Clerks, ReadChallenge(s) PROVE ChallengesTypeOK' /\ ClerkInv'
  <2> DEFINE found == challenge[clerk[s].purpose]
             t == [clerk[s] EXCEPT !.pc = "judge", !.copy = found]
  <2>1. /\ clerk[s].pc = "read" /\ (IF found = NoChallenge THEN Now(s, AtRest) ELSE Now(s, t))
        /\ UNCHANGED <<challenge, cool, drawn, sent, pre, losses, history>>
    BY <1>11 DEF ReadChallenge
  <2>2. /\ s \in Verifiers /\ clerk[s].op \in {"verify", "factor"} /\ clerk[s].purpose \in Purposes
        /\ clerk[s].op = "factor" <=> clerk[s].login # Blank
    BY <2>1 DEF ClerkInv, Submitting
  <2>3. CASE found = NoChallenge
    <3>1. clerk' \in [Clerks -> Clerk] /\ ClerkInv'
      BY <1>0, <2>1, <2>3, ClerkMoves DEF AtRest
    <3> QED BY <2>1, <3>1 DEF ChallengesTypeOK, history
  <2>4. CASE found # NoChallenge
    <3>1. found \in Challenge /\ Now(s, t)
      BY <2>1, <2>2, <2>4 DEF ChallengesTypeOK
    <3>2. found.code \in drawn
      BY <2>2, <2>4, <3>1 DEF CodesStored, Held
    <3> HIDE DEF found
    <3>3. /\ t \in Clerk /\ t.pc = "judge" /\ t.op = clerk[s].op /\ t.purpose = clerk[s].purpose
          /\ t.login = clerk[s].login /\ t.copy = found
      BY <1>0, <3>1 DEF Clerk
    <3> HIDE DEF t
    <3>4. clerk' \in [Clerks -> Clerk] /\ ClerkInv'
      BY <2>1, <2>2, <3>1, <3>2, <3>3, ClerkMoves
    <3> QED BY <2>1, <3>4 DEF ChallengesTypeOK, history
  <2> QED BY <2>3, <2>4
<1>12. ASSUME NEW s \in Clerks, AcceptCode(s) PROVE ChallengesTypeOK' /\ ClerkInv'
  <2> DEFINE t == [clerk[s] EXCEPT !.pc = "accept"]
  <2>1. /\ clerk[s].pc = "judge" /\ clerk[s].guess = clerk[s].copy.code /\ Now(s, t)
        /\ challenge' = [challenge EXCEPT ![clerk[s].purpose] = NoChallenge]
        /\ answers' = [answers EXCEPT ![clerk[s].guess] = @ + 1]
        /\ UNCHANGED <<cool, drawn, sent, pre, losses, wrongs, lived, revived, sessions>>
    BY <1>12 DEF AcceptCode, Answered, Erased
  <2>2. /\ t \in Clerk /\ t.pc = "accept" /\ t.op = clerk[s].op /\ t.purpose = clerk[s].purpose
        /\ t.login = clerk[s].login
    BY <1>0 DEF Clerk
  <2>3. /\ s \in Verifiers /\ clerk[s].op \in {"verify", "factor"} /\ clerk[s].purpose \in Purposes
        /\ clerk[s].op = "factor" <=> clerk[s].login # Blank
    BY <2>1 DEF ClerkInv, Submitting
  <2> HIDE DEF t
  <2>4. clerk' \in [Clerks -> Clerk] /\ ClerkInv'
    BY <2>1, <2>2, <2>3, ClerkMoves
  <2>5. clerk[s].guess \in Codes
    BY <2>1, ChallengeFacts DEF ClerkInv, Judging
  <2> QED BY <2>1, <2>3, <2>4, <2>5 DEF ChallengesTypeOK
<1>13. ASSUME NEW s \in Clerks, Accept(s) PROVE ChallengesTypeOK' /\ ClerkInv'
  <2>1. /\ Now(s, AtRest) /\ sessions' \in [Logins -> Nat]
        /\ UNCHANGED <<challenge, cool, drawn, sent, pre, losses, wrongs, answers, lived, revived>>
    <3>1. clerk[s].op = "factor" => clerk[s].login \in Logins
      BY <1>0 DEF ClerkInv, Clerk
    <3> QED BY <1>13, <3>1 DEF Accept, ChallengesTypeOK
  <2>2. clerk' \in [Clerks -> Clerk] /\ ClerkInv'
    BY <1>0, <2>1, ClerkMoves DEF AtRest
  <2> QED BY <2>1, <2>2 DEF ChallengesTypeOK
<1>14. ASSUME NEW s \in Clerks, RejectCode(s) PROVE ChallengesTypeOK' /\ ClerkInv'
  <2> DEFINE t == [clerk[s] EXCEPT !.pc = "time"]
  <2>1. /\ clerk[s].pc = "judge"
        /\ wrongs' = [wrongs EXCEPT ![clerk[s].copy.code] = @ + 1]
        /\ IF Exhausted(clerk[s].copy)
           THEN challenge' = [challenge EXCEPT ![clerk[s].purpose] = NoChallenge] /\ Now(s, AtRest)
           ELSE UNCHANGED challenge /\ Now(s, t)
        /\ UNCHANGED <<cool, drawn, sent, pre, losses, answers, lived, revived, sessions>>
    BY <1>14 DEF RejectCode, Erased
  <2>2. /\ t \in Clerk /\ t.pc = "time" /\ t.op = clerk[s].op /\ t.purpose = clerk[s].purpose
        /\ t.login = clerk[s].login /\ t.copy = clerk[s].copy
    BY <1>0 DEF Clerk
  <2>3. /\ s \in Verifiers /\ clerk[s].op \in {"verify", "factor"} /\ clerk[s].purpose \in Purposes
        /\ clerk[s].op = "factor" <=> clerk[s].login # Blank
        /\ clerk[s].copy \in Challenge /\ clerk[s].copy.code \in drawn
    BY <2>1 DEF ClerkInv, Submitting, Judging
  <2>6. wrongs' \in [Codes -> Nat]
    BY <2>1, <2>3, ChallengeFacts DEF ChallengesTypeOK
  <2> HIDE DEF t
  <2>4. CASE Exhausted(clerk[s].copy)
    <3>1. clerk' \in [Clerks -> Clerk] /\ ClerkInv'
      BY <1>0, <2>1, <2>4, ClerkMoves DEF AtRest
    <3> QED BY <2>1, <2>3, <2>4, <2>6, <3>1 DEF ChallengesTypeOK
  <2>5. CASE ~Exhausted(clerk[s].copy)
    <3>1. clerk[s].copy.left > 1
      BY <2>3, <2>5, ChallengeFacts DEF Exhausted
    <3>2. clerk' \in [Clerks -> Clerk] /\ ClerkInv'
      BY <2>1, <2>2, <2>3, <2>5, <3>1, ClerkMoves
    <3> QED BY <2>1, <2>5, <2>6, <3>2 DEF ChallengesTypeOK
  <2> QED BY <2>4, <2>5
<1>15. ASSUME NEW s \in Clerks, ReadLife(s) PROVE ChallengesTypeOK' /\ ClerkInv'
  <2> DEFINE life == Remaining(challenge[clerk[s].purpose].life)
             new == [clerk[s].copy EXCEPT !.left = @ - 1, !.life = life]
             t == [clerk[s] EXCEPT !.pc = "write", !.copy = new]
  <2>1. clerk[s].pc = "time" /\ Now(s, t) /\ UNCHANGED <<challenge, cool, drawn, sent, pre, losses, history>>
    BY <1>15 DEF ReadLife
  <2>2. /\ s \in Verifiers /\ clerk[s].op \in {"verify", "factor"} /\ clerk[s].purpose \in Purposes
        /\ clerk[s].op = "factor" <=> clerk[s].login # Blank
        /\ clerk[s].copy \in Challenge /\ clerk[s].copy.code \in drawn /\ clerk[s].copy.left > 1
    BY <2>1 DEF ClerkInv, Submitting, Judging
  <2>3. life \in 1..Life
    <3>1. challenge[clerk[s].purpose] \in Challenge \cup {NoChallenge}
      BY <2>2 DEF ChallengesTypeOK
    <3> QED BY <3>1 DEF Remaining, Challenge, NoChallenge
  <2> HIDE DEF life
  <2>4. new \in Challenge /\ new.code = clerk[s].copy.code
    <3>1. clerk[s].copy.left - 1 \in 1..MaxAttempts
      BY <2>2, ChallengeFacts
    <3> QED BY <2>2, <2>3, <3>1 DEF Challenge
  <2> HIDE DEF new
  <2>5. /\ t \in Clerk /\ t.pc = "write" /\ t.op = clerk[s].op /\ t.purpose = clerk[s].purpose
        /\ t.login = clerk[s].login /\ t.copy = new
    BY <1>0, <2>4 DEF Clerk
  <2> HIDE DEF t
  <2>6. clerk' \in [Clerks -> Clerk] /\ ClerkInv'
    BY <2>1, <2>2, <2>4, <2>5, ClerkMoves
  <2> QED BY <2>1, <2>6 DEF ChallengesTypeOK, history
<1>16. ASSUME NEW s \in Clerks, WriteBack(s) PROVE ChallengesTypeOK' /\ ClerkInv'
  <2>1. /\ clerk[s].pc = "write" /\ Now(s, AtRest)
        /\ challenge' = [challenge EXCEPT ![clerk[s].purpose] = clerk[s].copy]
        /\ revived' \subseteq revived \cup {clerk[s].copy.code}
        /\ UNCHANGED <<cool, drawn, sent, pre, losses, wrongs, answers, lived, sessions>>
    BY <1>16 DEF WriteBack
  <2>2. clerk[s].copy \in Challenge /\ clerk[s].copy.code \in Codes
    BY <2>1, ChallengeFacts DEF ClerkInv, Judging
  <2>3. clerk' \in [Clerks -> Clerk] /\ ClerkInv'
    BY <1>0, <2>1, ClerkMoves DEF AtRest
  <2> QED BY <2>1, <2>2, <2>3 DEF ChallengesTypeOK
<1>17. ASSUME NEW s \in Clerks, Lose(s) PROVE ChallengesTypeOK' /\ ClerkInv'
  <2>1. losses' = losses + 1 /\ Now(s, AtRest) /\ UNCHANGED <<challenge, cool, drawn, sent, pre, history>>
    BY <1>17 DEF Lose
  <2>2. clerk' \in [Clerks -> Clerk] /\ ClerkInv'
    BY <1>0, <2>1, ClerkMoves DEF AtRest
  <2> QED BY <2>1, <2>2 DEF ChallengesTypeOK, history
<1>18. CASE PassTime
  <2>1. /\ challenge' = [p \in Purposes |-> Aged(challenge[p])]
        /\ cool' = (IF cool > 0 THEN cool - 1 ELSE 0)
        /\ lived' = [c \in Codes |-> IF \E p \in Purposes : challenge[p].code = c
                                     THEN lived[c] + 1 ELSE lived[c]]
        /\ UNCHANGED <<drawn, sent, pre, clerk, losses, wrongs, answers, revived, sessions>>
    BY <1>18 DEF PassTime
  <2>2. \A p \in Purposes : Aged(challenge[p]) \in Challenge \cup {NoChallenge}
    BY ChallengeFacts DEF ChallengesTypeOK
  <2>3. lived' \in [Codes -> Nat] /\ cool' \in Nat
    BY <2>1 DEF ChallengesTypeOK
  <2>4. ClerkInv'
    BY <2>1 DEF ClerkInv, Submitting, Judging
  <2> QED BY <2>1, <2>2, <2>3, <2>4 DEF ChallengesTypeOK
<1>19. ASSUME NEW l \in Logins, ExpirePre2fa(l) PROVE ChallengesTypeOK' /\ ClerkInv'
  BY <1>19 DEF ExpirePre2fa, ChallengesTypeOK, ClerkInv, Submitting, Judging, history
<1>20. CASE UNCHANGED otpVars
  BY <1>20 DEF otpVars, ChallengesTypeOK, ClerkInv, Submitting, Judging
<1> QED
  BY <1>1, <1>2, <1>3, <1>4, <1>5, <1>6, <1>7, <1>8, <1>9, <1>10, <1>11, <1>12, <1>13, <1>14,
     <1>15, <1>16, <1>17, <1>18, <1>19, <1>20
  DEF ChallengesNext, BeginAuth, ResumeAuth

-----------------------------------------------------------------------------
(* What is stored, what is being judged, and what has been counted *)

CodesHeld == CodesStored /\ CodeInv /\ GuessInv /\ LifeInv

LEMMA CodesInit == ChallengesInit => CodesHeld
BY ChallengesAssumption, ChallengeFacts
   DEF ChallengesInit, CodesHeld, CodesStored, CodeInv, GuessInv, LifeInv, Held, Judging, Owing, AtRest

\* Whoever submits is alone in it.
LEMMA OneSubmission ==
    ASSUME SerialVerifiers, ClerkInv, NEW s \in Clerks, Submitting(s), NEW o \in Clerks, o # s
    PROVE  ~Submitting(o) /\ ~Judging(o) /\ ~Owing(o)
BY DEF SerialVerifiers, ClerkInv, Submitting, Judging, Owing

LEMMA QuietMove ==
    ASSUME ChallengesTypeOK, NEW s \in Clerks, NEW t, Now(s, t),
           clerk[s].pc \notin {"judge", "time", "write"}, t.pc \notin {"judge", "time", "write"},
           UNCHANGED <<challenge, drawn, losses, wrongs, answers, lived, revived>>
    PROVE  Quiet(s)
BY DEF ChallengesTypeOK, Quiet, Judging, Now

LEMMA QuietSteps ==
    ASSUME ChallengesTypeOK, NEW s \in Clerks,
           \/ \E p \in Purposes : SendCode(s, p)
           \/ ResendCode(s)
           \/ \E g \in Codes \cup {Blank} : \/ VerifyClientOtp(s, g)
                                           \/ \E l \in Logins : StaffTwoFactor(s, l, g)
           \/ StartCooldown(s)
           \/ EnqueueCode(s)
           \/ \E l \in Logins : IssuePre2fa(s, l)
           \/ DropPre2fa(s)
           \/ ChooseMethod(s)
           \/ Accept(s)
           \/ ReadChallenge(s) /\ challenge[clerk[s].purpose] = NoChallenge
    PROVE  Quiet(s)
<1>0. clerk[s] \in Clerk
  BY DEF ChallengesTypeOK
<1> USE DEF history
<1>1. CASE \E p \in Purposes : SendCode(s, p)
  <2>1. PICK p \in Purposes : SendCode(s, p)
    BY <1>1
  <2> DEFINE t == [AtRest EXCEPT !.op = "send", !.pc = "create", !.purpose = p]
  <2>2. Now(s, t) /\ UNCHANGED <<challenge, drawn, losses, wrongs, answers, lived, revived>>
    BY <2>1 DEF SendCode
  <2>3. t.pc = "create"
    BY DEF AtRest
  <2> HIDE DEF t
  <2>4. Resting(s)
    BY <2>1 DEF SendCode
  <2>5. clerk[s].pc = "idle"
    BY <2>4 DEF Resting, AtRest
  <2> QED BY <2>2, <2>3, <2>5, QuietMove
<1>2. CASE ResendCode(s)
  <2>1. /\ clerk[s].pc = "idle"
        /\ [AtRest EXCEPT !.op = "resend", !.pc = "cool", !.purpose = "client-verify"].pc = "cool"
    BY <1>2 DEF ResendCode, Resting, AtRest
  <2> QED BY <1>2, <2>1, QuietMove DEF ResendCode
<1>3. CASE \E g \in Codes \cup {Blank} : VerifyClientOtp(s, g)
  <2>1. PICK g \in Codes \cup {Blank} : VerifyClientOtp(s, g)
    BY <1>3
  <2> DEFINE t == [AtRest EXCEPT !.op = "verify", !.pc = "read", !.purpose = "client-verify", !.guess = g]
  <2>2. Now(s, t) /\ UNCHANGED <<challenge, drawn, losses, wrongs, answers, lived, revived>>
    BY <2>1 DEF VerifyClientOtp
  <2>3. t.pc = "read"
    BY DEF AtRest
  <2> HIDE DEF t
  <2>4. Resting(s)
    BY <2>1 DEF VerifyClientOtp
  <2>5. clerk[s].pc = "idle"
    BY <2>4 DEF Resting, AtRest
  <2> QED BY <2>2, <2>3, <2>5, QuietMove
<1>4. CASE \E g \in Codes \cup {Blank}, l \in Logins : StaffTwoFactor(s, l, g)
  <2>1. PICK g \in Codes \cup {Blank}, l \in Logins : StaffTwoFactor(s, l, g)
    BY <1>4
  <2> DEFINE t == [AtRest EXCEPT !.op = "factor", !.pc = "drop", !.purpose = "staff-sms",
                                 !.guess = g, !.login = l]
  <2>2. Now(s, t) /\ UNCHANGED <<challenge, drawn, losses, wrongs, answers, lived, revived>>
    BY <2>1 DEF StaffTwoFactor
  <2>3. t.pc = "drop"
    BY DEF AtRest
  <2> HIDE DEF t
  <2>4. Resting(s)
    BY <2>1 DEF StaffTwoFactor
  <2>5. clerk[s].pc = "idle"
    BY <2>4 DEF Resting, AtRest
  <2> QED BY <2>2, <2>3, <2>5, QuietMove
<1>5. CASE StartCooldown(s)
  <2> DEFINE t == [clerk[s] EXCEPT !.pc = "create"]
  <2>1. Now(s, t) /\ UNCHANGED <<challenge, drawn, losses, wrongs, answers, lived, revived>>
    BY <1>5 DEF StartCooldown
  <2>2. clerk[s].pc = "cool" /\ t.pc = "create"
    BY <1>0, <1>5 DEF StartCooldown, Clerk
  <2> HIDE DEF t
  <2> QED BY <2>1, <2>2, QuietMove
<1>6. CASE EnqueueCode(s)
  <2>1. clerk[s].pc = "send" /\ [clerk[s] EXCEPT !.pc = "token"].pc = "token" /\ AtRest.pc = "idle"
    BY <1>0, <1>6 DEF EnqueueCode, Clerk, AtRest
  <2> QED BY <1>6, <2>1, QuietMove DEF EnqueueCode
<1>7. CASE \E l \in Logins : IssuePre2fa(s, l)
  <2>1. clerk[s].pc = "token" /\ AtRest.pc = "idle"
    BY <1>7 DEF IssuePre2fa, AtRest
  <2> QED BY <1>7, <2>1, QuietMove DEF IssuePre2fa
<1>8. CASE DropPre2fa(s)
  <2>1. clerk[s].pc = "drop" /\ [clerk[s] EXCEPT !.pc = "method"].pc = "method"
    BY <1>0, <1>8 DEF DropPre2fa, Clerk
  <2> QED BY <1>8, <2>1, QuietMove DEF DropPre2fa
<1>9. CASE ChooseMethod(s)
  <2>1. clerk[s].pc = "method" /\ [clerk[s] EXCEPT !.pc = "read"].pc = "read" /\ AtRest.pc = "idle"
    BY <1>0, <1>9 DEF ChooseMethod, Clerk, AtRest
  <2> QED BY <1>9, <2>1, QuietMove DEF ChooseMethod
<1>10. CASE Accept(s)
  <2>1. clerk[s].pc = "accept" /\ AtRest.pc = "idle"
    BY <1>10 DEF Accept, AtRest
  <2> QED BY <1>10, <2>1, QuietMove DEF Accept
<1>11. CASE ReadChallenge(s) /\ challenge[clerk[s].purpose] = NoChallenge
  <2>1. clerk[s].pc = "read" /\ AtRest.pc = "idle"
    BY <1>11 DEF ReadChallenge, AtRest
  <2> QED BY <1>11, <2>1, QuietMove DEF ReadChallenge
<1> QED BY <1>1, <1>2, <1>3, <1>4, <1>5, <1>6, <1>7, <1>8, <1>9, <1>10, <1>11

LEMMA QuietKeeps ==
    ASSUME ChallengesTypeOK, CodesHeld, NEW s \in Clerks, Quiet(s)
    PROVE  CodesHeld'
<1>1. /\ ~Judging(s) /\ ~Judging(s)' /\ clerk'[s].pc \notin {"judge", "time", "write"}
      /\ \A o \in Clerks : o # s => clerk'[o] = clerk[o]
      /\ UNCHANGED <<challenge, drawn, losses, wrongs, answers, lived, revived>>
      /\ \A o \in Clerks : Judging(o)' => o # s
      /\ \A o \in Clerks : Owing(o) => o # s
  BY DEF Quiet, Judging, Owing
<1>2. CodesStored'
  BY <1>1 DEF CodesHeld, CodesStored, Held
<1>3. CodeInv'
  BY <1>1 DEF CodesHeld, CodeInv, Held, Judging
<1>4. GuessInv'
  <2>1. ASSUME NEW p \in Purposes, Held(p)'
        PROVE  LET tried == wrongs'[challenge'[p].code] + challenge'[p].left
               IN  \/ tried <= MaxAttempts + losses'
                   \/ /\ tried <= MaxAttempts + losses' + 1
                      /\ \E o \in Clerks : Owing(o)' /\ clerk'[o].copy.code = challenge'[p].code
    BY <1>1, <2>1 DEF CodesHeld, GuessInv, Held, Owing
  <2>2. ASSUME NEW o \in Clerks
        PROVE  LET t == clerk'[o] IN
               /\ t.pc \in {"judge", "write"}
                    => wrongs'[t.copy.code] + t.copy.left <= MaxAttempts + losses'
               /\ t.pc = "time" => wrongs'[t.copy.code] + t.copy.left <= MaxAttempts + losses' + 1
    BY <1>1 DEF CodesHeld, GuessInv
  <2> QED BY <1>1, <2>1, <2>2 DEF CodesHeld, GuessInv
<1>5. LifeInv'
  BY <1>1 DEF CodesHeld, LifeInv, Held
<1> QED BY <1>2, <1>3, <1>4, <1>5 DEF CodesHeld

\* What the types give about the numbers.
LEMMA Numbers ==
    ASSUME ChallengesTypeOK, ClerkInv
    PROVE  /\ losses \in Nat /\ MaxAttempts \in Nat /\ Life \in Nat /\ Blank \notin Codes
           /\ \A c \in Codes : wrongs[c] \in Nat /\ answers[c] \in Nat /\ lived[c] \in Nat
           /\ \A p \in Purposes :
                /\ ~Held(p) => challenge[p].code = Blank
                /\ Held(p) => /\ challenge[p] \in Challenge
                              /\ challenge[p].code \in Codes /\ challenge[p].code # Blank
                              /\ challenge[p].left \in Nat /\ challenge[p].left >= 1
                              /\ challenge[p].life \in Nat /\ challenge[p].life >= 1
           /\ \A s \in Clerks : Judging(s) =>
                /\ clerk[s].purpose \in Purposes /\ clerk[s].copy.code \in drawn
                /\ clerk[s].copy \in Challenge /\ clerk[s].copy.code \in Codes
                /\ clerk[s].copy.left \in Nat /\ clerk[s].copy.left >= 1
                /\ clerk[s].copy.life \in Nat /\ clerk[s].copy.life >= 1
<1> USE ChallengesAssumption
<1>1. /\ losses \in Nat /\ MaxAttempts \in Nat /\ Life \in Nat /\ Blank \notin Codes
      /\ \A c \in Codes : wrongs[c] \in Nat /\ answers[c] \in Nat /\ lived[c] \in Nat
  BY DEF ChallengesTypeOK
<1>2. ASSUME NEW p \in Purposes
      PROVE  /\ ~Held(p) => challenge[p].code = Blank
             /\ Held(p) => /\ challenge[p] \in Challenge
                           /\ challenge[p].code \in Codes /\ challenge[p].code # Blank
                           /\ challenge[p].left \in Nat /\ challenge[p].left >= 1
                           /\ challenge[p].life \in Nat /\ challenge[p].life >= 1
  BY ChallengeFacts DEF ChallengesTypeOK, Held
<1>3. ASSUME NEW s \in Clerks, Judging(s)
      PROVE  /\ clerk[s].purpose \in Purposes /\ clerk[s].copy.code \in drawn
             /\ clerk[s].copy \in Challenge /\ clerk[s].copy.code \in Codes
             /\ clerk[s].copy.left \in Nat /\ clerk[s].copy.left >= 1
             /\ clerk[s].copy.life \in Nat /\ clerk[s].copy.life >= 1
  BY <1>3, ChallengeFacts DEF ClerkInv, Judging
<1> QED BY <1>1, <1>2, <1>3

LEMMA CreateKeeps ==
    ASSUME ChallengesTypeOK, ClerkInv, CodesHeld,
           NEW s \in Clerks, NEW c \in Codes, CreateChallenge(s, c)
    PROVE  CodesHeld'
<1> DEFINE new == [code |-> c, left |-> MaxAttempts, life |-> Life]
           p == clerk[s].purpose
           t == [clerk[s] EXCEPT !.pc = "send", !.copy = new]
<1>1. /\ clerk[s].pc = "create" /\ Now(s, t) /\ c \notin drawn /\ drawn' = drawn \cup {c}
      /\ challenge' = [challenge EXCEPT ![p] = new]
      /\ UNCHANGED <<losses, wrongs, answers, lived, revived>>
  BY DEF CreateChallenge, history
<1>2. new.code = c /\ new.left = MaxAttempts /\ new.life = Life
  OBVIOUS
<1>3. t.pc = "send"
  BY DEF ChallengesTypeOK, Clerk
<1> HIDE DEF new, t
<1>4. /\ \A o \in Clerks : o # s => clerk'[o] = clerk[o]
      /\ clerk'[s].pc = "send"
  BY <1>1, <1>3 DEF Now, ChallengesTypeOK
<1>5. p \in Purposes
  BY <1>1 DEF ClerkInv
<1> HIDE DEF p
<1>6. /\ challenge'[p] = new /\ \A q \in Purposes : q # p => challenge'[q] = challenge[q]
  BY <1>1, <1>5 DEF ChallengesTypeOK
<1>7. wrongs[c] = 0 /\ answers[c] = 0 /\ lived[c] = 0
  BY <1>1 DEF CodesHeld, CodeInv
<1>8. \A q \in Purposes : challenge[q].code # c /\ (Held(q) => challenge[q].code \in drawn)
  BY <1>1, Numbers DEF CodesHeld, CodesStored
<1>9. \A o \in Clerks : Judging(o) => o # s /\ clerk[o].copy.code # c
  BY <1>1, Numbers DEF Judging
<1>10. /\ \A o \in Clerks : Judging(o)' => o # s /\ Judging(o)
       /\ \A o \in Clerks : Owing(o) => o # s /\ Owing(o)'
  BY <1>1, <1>4 DEF Judging, Owing
<1>11. CodesStored'
  BY <1>1, <1>2, <1>6, <1>8 DEF CodesStored, Held
<1>12. CodeInv'
  <2>1. \A d \in Codes \ drawn' : wrongs'[d] = 0 /\ answers'[d] = 0 /\ lived'[d] = 0
    BY <1>1 DEF CodesHeld, CodeInv
  <2>2. \A q \in Purposes : Held(q)' => answers'[challenge'[q].code] = 0
    BY <1>1, <1>2, <1>6, <1>7 DEF CodesHeld, CodeInv, Held
  <2>3. ASSUME NEW q \in Purposes, NEW r \in Purposes, Held(q)', challenge'[r].code = challenge'[q].code
        PROVE  q = r
    BY <1>2, <1>6, <1>8, <2>3 DEF CodesHeld, CodeInv, Held
  <2>4. ASSUME NEW o \in Clerks, Judging(o)'
        PROVE  /\ answers'[clerk'[o].copy.code] = 0
               /\ \A q \in Purposes : challenge'[q].code = clerk'[o].copy.code => q = clerk'[o].purpose
    <3>1. o # s /\ Judging(o) /\ clerk'[o] = clerk[o] /\ clerk[o].copy.code # c
      BY <1>4, <1>9, <1>10, <2>4
    <3> QED BY <1>1, <1>2, <1>6, <3>1 DEF CodesHeld, CodeInv
  <2> QED BY <1>1, <2>1, <2>2, <2>3, <2>4 DEF CodesHeld, CodeInv
<1>13. GuessInv'
  <2>1. ASSUME NEW q \in Purposes, Held(q)'
        PROVE  LET tried == wrongs'[challenge'[q].code] + challenge'[q].left
               IN  \/ tried <= MaxAttempts + losses'
                   \/ /\ tried <= MaxAttempts + losses' + 1
                      /\ \E o \in Clerks : Owing(o)' /\ clerk'[o].copy.code = challenge'[q].code
    <3>1. CASE q = p
      BY <1>1, <1>2, <1>6, <1>7, <3>1, Numbers
    <3>2. CASE q # p
      <4>1. Held(q) /\ challenge'[q] = challenge[q]
        BY <1>6, <2>1, <3>2 DEF Held
      <4>2. (\E o \in Clerks : Owing(o) /\ clerk[o].copy.code = challenge[q].code)
              => \E o \in Clerks : Owing(o)' /\ clerk'[o].copy.code = challenge[q].code
        BY <1>4, <1>10
      <4> QED BY <1>1, <4>1, <4>2 DEF CodesHeld, GuessInv
    <3> QED BY <3>1, <3>2
  <2>2. ASSUME NEW o \in Clerks
        PROVE  LET u == clerk'[o] IN
               /\ u.pc \in {"judge", "write"}
                    => wrongs'[u.copy.code] + u.copy.left <= MaxAttempts + losses'
               /\ u.pc = "time" => wrongs'[u.copy.code] + u.copy.left <= MaxAttempts + losses' + 1
    BY <1>1, <1>4 DEF CodesHeld, GuessInv
  <2> QED BY <1>1, <2>1, <2>2 DEF CodesHeld, GuessInv
<1>14. LifeInv'
  <2>1. ASSUME NEW q \in Purposes, Held(q)', challenge'[q].code \notin revived'
        PROVE  lived'[challenge'[q].code] + challenge'[q].life <= Life + MaxAttempts - challenge'[q].left
    <3>1. CASE q = p
      BY <1>1, <1>2, <1>6, <1>7, <3>1, Numbers
    <3>2. CASE q # p
      BY <1>1, <1>6, <2>1, <3>2 DEF CodesHeld, LifeInv, Held
    <3> QED BY <3>1, <3>2
  <2>2. ASSUME NEW o \in Clerks
        PROVE  LET u == clerk'[o]
                   found == challenge'[u.purpose] IN
               /\ u.pc \in {"judge", "time"} =>
                    /\ u.copy.code \notin revived'
                         => lived'[u.copy.code] <= Life + MaxAttempts - u.copy.left
                    /\ found.code = u.copy.code => found.left = u.copy.left
               /\ u.pc = "write" /\ u.copy.code \notin revived' /\ found.code \in {Blank, u.copy.code}
                    => lived'[u.copy.code] + u.copy.life <= Life + MaxAttempts - u.copy.left
    <3>1. CASE o = s
      BY <1>4, <3>1
    <3>2. CASE o # s
      <4>1. CASE Judging(o)
        <5>1. /\ clerk'[o] = clerk[o] /\ clerk[o].purpose \in Purposes /\ clerk[o].copy.code # c
              /\ c # Blank
          BY <1>4, <1>9, <3>2, <4>1, Numbers
        <5>2. CASE clerk[o].purpose = p
          BY <1>1, <1>2, <1>6, <5>1, <5>2 DEF CodesHeld, LifeInv
        <5>3. CASE clerk[o].purpose # p
          BY <1>1, <1>6, <5>1, <5>3 DEF CodesHeld, LifeInv
        <5> QED BY <5>2, <5>3
      <4>2. CASE ~Judging(o)
        BY <1>4, <3>2, <4>2 DEF Judging
      <4> QED BY <4>1, <4>2
    <3> QED BY <3>1, <3>2
  <2> QED BY <1>1, <2>1, <2>2 DEF CodesHeld, LifeInv
<1> QED BY <1>11, <1>12, <1>13, <1>14 DEF CodesHeld

\* When one submission takes a step, no other is under way.
LEMMA Alone ==
    ASSUME SerialVerifiers, ChallengesTypeOK, ClerkInv, NEW s \in Clerks, Submitting(s),
           NEW t, Now(s, t)
    PROVE  /\ clerk'[s] = t
           /\ \A o \in Clerks : o # s => /\ ~Judging(o) /\ ~Owing(o) /\ ~Judging(o)' /\ ~Owing(o)'
                                         /\ clerk'[o].pc \notin {"judge", "time", "write"}
<1>1. clerk'[s] = t /\ \A o \in Clerks : o # s => clerk'[o] = clerk[o]
  BY DEF Now, ChallengesTypeOK
<1>2. \A o \in Clerks : o # s => ~Judging(o) /\ ~Owing(o)
  BY OneSubmission
<1> QED BY <1>1, <1>2 DEF Judging, Owing

LEMMA ReadKeeps ==
    ASSUME SerialVerifiers, ChallengesTypeOK, ClerkInv, CodesHeld,
           NEW s \in Clerks, ReadChallenge(s), challenge[clerk[s].purpose] # NoChallenge
    PROVE  CodesHeld'
<1> DEFINE p == clerk[s].purpose
           t == [clerk[s] EXCEPT !.pc = "judge", !.copy = challenge[p]]
<1>1. /\ clerk[s].pc = "read" /\ Now(s, t)
      /\ UNCHANGED <<challenge, drawn, losses, wrongs, answers, lived, revived>>
  BY DEF ReadChallenge, history
<1>2. t.pc = "judge" /\ t.copy = challenge[p] /\ t.purpose = p
  BY DEF ChallengesTypeOK, Clerk
<1> HIDE DEF t
<1>3. Submitting(s) /\ p \in Purposes /\ Held(p)
  BY <1>1 DEF Submitting, ClerkInv, Held
<1>4. /\ clerk'[s] = t
      /\ \A o \in Clerks : o # s => /\ ~Judging(o) /\ ~Owing(o) /\ ~Judging(o)' /\ ~Owing(o)'
                                    /\ clerk'[o].pc \notin {"judge", "time", "write"}
  BY <1>1, <1>3, Alone
<1>5. \A o \in Clerks : ~Owing(o)
  BY <1>1, <1>4 DEF Owing
<1> HIDE DEF p
<1>6. CodesStored'
  BY <1>1 DEF CodesHeld, CodesStored, Held
<1>7. CodeInv'
  <2>1. answers[t.copy.code] = 0 /\ \A q \in Purposes : challenge[q].code = t.copy.code => q = p
    BY <1>2, <1>3 DEF CodesHeld, CodeInv
  <2>2. \A o \in Clerks : Judging(o)' => clerk'[o] = t
    BY <1>4
  <2> QED BY <1>1, <1>2, <2>1, <2>2 DEF CodesHeld, CodeInv, Held
<1>8. GuessInv'
  <2>1. \A q \in Purposes : Held(q) => wrongs[challenge[q].code] + challenge[q].left <= MaxAttempts + losses
    BY <1>5 DEF CodesHeld, GuessInv
  <2>2. \A o \in Clerks : clerk'[o].pc \in {"judge", "time", "write"} => clerk'[o] = t
    BY <1>4
  <2> QED BY <1>1, <1>2, <1>3, <2>1, <2>2 DEF CodesHeld, GuessInv, Held
<1>9. LifeInv'
  <2>1. challenge[p].code \notin revived
          => lived[challenge[p].code] <= Life + MaxAttempts - challenge[p].left
    <3>1. /\ lived[challenge[p].code] \in Nat /\ challenge[p].life \in Nat /\ Life \in Nat
          /\ MaxAttempts \in Nat /\ challenge[p].left \in Nat
      BY <1>3, Numbers
    <3>2. challenge[p].code \notin revived
            => lived[challenge[p].code] + challenge[p].life <= Life + MaxAttempts - challenge[p].left
      BY <1>3 DEF CodesHeld, LifeInv
    <3> QED BY <3>1, <3>2
  <2>2. \A o \in Clerks : clerk'[o].pc \in {"judge", "time", "write"} => clerk'[o] = t
    BY <1>4
  <2> QED BY <1>1, <1>2, <1>3, <2>1, <2>2 DEF CodesHeld, LifeInv, Held
<1> QED BY <1>6, <1>7, <1>8, <1>9 DEF CodesHeld

\* A challenge is erased while one submission has read it, and that one is over: what
\* else is stored belongs to other codes.
LEMMA ErasureKeeps ==
    ASSUME SerialVerifiers, ChallengesTypeOK, ClerkInv, CodesHeld,
           NEW s \in Clerks, clerk[s].pc = "judge", NEW t, Now(s, t),
           t.pc \notin {"judge", "time", "write"},
           challenge' = [challenge EXCEPT ![clerk[s].purpose] = NoChallenge],
           UNCHANGED <<drawn, losses, lived, revived>>,
           answers' \in [Codes -> Nat], wrongs' \in [Codes -> Nat],
           \A c \in Codes : c # clerk[s].copy.code => answers'[c] = answers[c] /\ wrongs'[c] = wrongs[c],
           answers'[clerk[s].copy.code] <= 1,
           wrongs'[clerk[s].copy.code] <= MaxAttempts + losses
    PROVE  CodesHeld'
<1> DEFINE c == clerk[s].copy.code
           p == clerk[s].purpose
<1>1. Submitting(s) /\ Judging(s)
  BY DEF Submitting, Judging
<1>2. /\ p \in Purposes /\ c \in Codes /\ c \in drawn /\ c # Blank
      /\ \A q \in Purposes : challenge[q].code = c => q = p
  BY <1>1, Numbers DEF CodesHeld, CodeInv
<1>3. /\ clerk'[s] = t
      /\ \A o \in Clerks : o # s => /\ ~Judging(o) /\ ~Owing(o) /\ ~Judging(o)' /\ ~Owing(o)'
                                    /\ clerk'[o].pc \notin {"judge", "time", "write"}
  BY <1>1, Alone
<1>4. \A o \in Clerks : /\ ~Owing(o) /\ ~Judging(o)'
                        /\ clerk'[o].pc \notin {"judge", "time", "write"}
  BY <1>3 DEF Owing, Judging
<1> HIDE DEF p, c
<1>5. challenge'[p] = NoChallenge /\ \A q \in Purposes : q # p => challenge'[q] = challenge[q]
  BY <1>2 DEF ChallengesTypeOK, p
<1>6. \A q \in Purposes : Held(q)' => /\ q # p /\ Held(q) /\ challenge'[q] = challenge[q]
                                      /\ challenge[q].code \in Codes /\ challenge[q].code # c
  BY <1>2, <1>5, Numbers DEF Held
<1>7. \A q \in Purposes : challenge'[q].code \in Codes => Held(q)' /\ challenge'[q] = challenge[q]
  BY <1>5, ChallengeFacts, ChallengesAssumption, Numbers DEF Held
<1>8. \A d \in Codes : d # c => answers'[d] = answers[d] /\ wrongs'[d] = wrongs[d]
  BY DEF c
<1>9. answers'[c] <= 1 /\ wrongs'[c] <= MaxAttempts + losses
  BY DEF c
<1>10. CodesStored'
  BY <1>6 DEF CodesHeld, CodesStored
<1>11. CodeInv'
  <2>1. \A d \in Codes \ drawn' : wrongs'[d] = 0 /\ answers'[d] = 0 /\ lived'[d] = 0
    BY <1>2, <1>8 DEF CodesHeld, CodeInv
  <2>2. \A d \in Codes : answers'[d] <= 1
    BY <1>8, <1>9 DEF CodesHeld, CodeInv
  <2>3. \A q \in Purposes : Held(q)' => answers'[challenge'[q].code] = 0
    BY <1>6, <1>8 DEF CodesHeld, CodeInv
  <2>4. \A q, r \in Purposes : Held(q)' /\ challenge'[r].code = challenge'[q].code => q = r
    BY <1>6, <1>7 DEF CodesHeld, CodeInv
  <2> QED BY <1>4, <2>1, <2>2, <2>3, <2>4 DEF CodeInv
<1>12. GuessInv'
  <2>1. \A q \in Purposes : Held(q)' =>
          wrongs'[challenge'[q].code] + challenge'[q].left <= MaxAttempts + losses'
    BY <1>4, <1>6, <1>8 DEF CodesHeld, GuessInv
  <2>2. \A d \in Codes : wrongs'[d] <= MaxAttempts + losses'
    BY <1>8, <1>9 DEF CodesHeld, GuessInv
  <2> QED BY <1>4, <2>1, <2>2 DEF GuessInv
<1>13. LifeInv'
  BY <1>4, <1>6 DEF CodesHeld, LifeInv
<1> QED BY <1>10, <1>11, <1>12, <1>13 DEF CodesHeld

LEMMA AcceptKeeps ==
    ASSUME SerialVerifiers, ChallengesTypeOK, ClerkInv, CodesHeld, NEW s \in Clerks, AcceptCode(s)
    PROVE  CodesHeld'
<1> DEFINE t == [clerk[s] EXCEPT !.pc = "accept"]
           c == clerk[s].copy.code
<1>1. /\ clerk[s].pc = "judge" /\ clerk[s].guess = c /\ Now(s, t)
      /\ challenge' = [challenge EXCEPT ![clerk[s].purpose] = NoChallenge]
      /\ answers' = [answers EXCEPT ![clerk[s].guess] = @ + 1]
      /\ UNCHANGED <<drawn, losses, wrongs, lived, revived>>
  BY DEF AcceptCode, Answered, Erased
<1>2. t.pc = "accept"
  BY DEF ChallengesTypeOK, Clerk
<1>3. Judging(s) /\ c \in Codes
  BY <1>1, Numbers DEF Judging
<1> HIDE DEF t
<1>4. answers[c] = 0
  BY <1>3 DEF CodesHeld, CodeInv
<1>5. /\ answers' \in [Codes -> Nat] /\ answers'[c] = 1
      /\ \A d \in Codes : d # c => answers'[d] = answers[d]
  BY <1>1, <1>3, <1>4 DEF ChallengesTypeOK
<1>6. wrongs' \in [Codes -> Nat] /\ wrongs'[c] <= MaxAttempts + losses
  BY <1>1, <1>3 DEF ChallengesTypeOK, CodesHeld, GuessInv
<1>7. t.pc \notin {"judge", "time", "write"} /\ answers'[c] <= 1
  BY <1>2, <1>5
<1> QED BY <1>1, <1>5, <1>6, <1>7, ErasureKeeps

LEMMA RejectKeeps ==
    ASSUME SerialVerifiers, ChallengesTypeOK, ClerkInv, CodesHeld, NEW s \in Clerks, RejectCode(s)
    PROVE  CodesHeld'
<1> DEFINE t == [clerk[s] EXCEPT !.pc = "time"]
           c == clerk[s].copy.code
           p == clerk[s].purpose
<1>1. /\ clerk[s].pc = "judge" /\ wrongs' = [wrongs EXCEPT ![c] = @ + 1]
      /\ IF Exhausted(clerk[s].copy)
         THEN challenge' = [challenge EXCEPT ![clerk[s].purpose] = NoChallenge] /\ Now(s, AtRest)
         ELSE UNCHANGED challenge /\ Now(s, t)
      /\ UNCHANGED <<drawn, losses, answers, lived, revived>>
  BY DEF RejectCode, Erased
<1>2. t.pc = "time" /\ t.copy = clerk[s].copy /\ t.purpose = p
  BY DEF ChallengesTypeOK, Clerk
<1>3. /\ Submitting(s) /\ Judging(s) /\ c \in Codes /\ c \in drawn /\ p \in Purposes
      /\ clerk[s].copy.left \in Nat /\ clerk[s].copy.left >= 1
  BY <1>1, Numbers DEF Submitting, Judging
<1> HIDE DEF t
<1>4. /\ wrongs[c] + clerk[s].copy.left <= MaxAttempts + losses
      /\ \A q \in Purposes : challenge[q].code = c => q = p
  BY <1>1, <1>3 DEF CodesHeld, GuessInv, CodeInv
<1>5. /\ wrongs' \in [Codes -> Nat] /\ wrongs'[c] = wrongs[c] + 1
      /\ \A d \in Codes : d # c => wrongs'[d] = wrongs[d]
      /\ wrongs[c] \in Nat /\ losses \in Nat /\ MaxAttempts \in Nat
  BY <1>1, <1>3, Numbers DEF ChallengesTypeOK
<1>6. wrongs'[c] <= MaxAttempts + losses
  BY <1>3, <1>4, <1>5
<1>7. CASE Exhausted(clerk[s].copy)
  <2>1. AtRest.pc = "idle" /\ answers' \in [Codes -> Nat] /\ answers'[c] <= 1
    BY <1>1, <1>3 DEF AtRest, ChallengesTypeOK, CodesHeld, CodeInv
  <2> QED BY <1>1, <1>5, <1>6, <1>7, <2>1, ErasureKeeps
<1>8. CASE ~Exhausted(clerk[s].copy)
  <2>1. Now(s, t) /\ challenge' = challenge
    BY <1>1, <1>8
  <2>2. /\ clerk'[s] = t
        /\ \A o \in Clerks : o # s => /\ ~Judging(o) /\ ~Owing(o) /\ ~Judging(o)' /\ ~Owing(o)'
                                      /\ clerk'[o].pc \notin {"judge", "time", "write"}
    BY <1>3, <2>1, Alone
  <2>3. \A o \in Clerks : ~Owing(o)
    BY <1>1, <2>2 DEF Owing
  <2>4. Owing(s)' /\ clerk'[s].copy.code = c
    BY <1>2, <2>2 DEF Owing
  <2>5. CodesStored'
    BY <1>1, <2>1 DEF CodesHeld, CodesStored, Held
  <2>6. CodeInv'
    <3>1. answers[c] = 0
      BY <1>3 DEF CodesHeld, CodeInv
    <3>2. \A o \in Clerks : Judging(o)' => clerk'[o] = t
      BY <2>2
    <3>3. \A d \in Codes \ drawn : wrongs'[d] = 0
      BY <1>3, <1>5 DEF CodesHeld, CodeInv
    <3> QED BY <1>1, <1>2, <1>4, <2>1, <3>1, <3>2, <3>3 DEF CodesHeld, CodeInv, Held
  <2>7. GuessInv'
    <3>1. \A d \in Codes : wrongs'[d] <= MaxAttempts + losses'
      BY <1>1, <1>5, <1>6 DEF CodesHeld, GuessInv
    <3>2. ASSUME NEW q \in Purposes, Held(q)'
          PROVE  LET tried == wrongs'[challenge'[q].code] + challenge'[q].left
                 IN  \/ tried <= MaxAttempts + losses'
                     \/ /\ tried <= MaxAttempts + losses' + 1
                        /\ \E o \in Clerks : Owing(o)' /\ clerk'[o].copy.code = challenge'[q].code
      <4>1. Held(q) /\ challenge'[q] = challenge[q]
        BY <2>1, <3>2 DEF Held
      <4>2. /\ wrongs[challenge[q].code] + challenge[q].left <= MaxAttempts + losses
            /\ challenge[q].code \in Codes /\ challenge[q].left \in Nat
        BY <2>3, <4>1, Numbers DEF CodesHeld, GuessInv
      <4>3. CASE challenge[q].code = c
        BY <1>1, <1>5, <2>4, <4>1, <4>2, <4>3
      <4>4. CASE challenge[q].code # c
        BY <1>1, <1>5, <4>1, <4>2, <4>4
      <4> QED BY <4>3, <4>4
    <3>3. ASSUME NEW o \in Clerks
          PROVE  LET u == clerk'[o] IN
                 /\ u.pc \in {"judge", "write"}
                      => wrongs'[u.copy.code] + u.copy.left <= MaxAttempts + losses'
                 /\ u.pc = "time" => wrongs'[u.copy.code] + u.copy.left <= MaxAttempts + losses' + 1
      <4>1. CASE o = s
        BY <1>1, <1>2, <1>3, <1>4, <1>5, <2>2, <4>1
      <4>2. CASE o # s
        BY <2>2, <4>2
      <4> QED BY <4>1, <4>2
    <3> QED BY <3>1, <3>2, <3>3 DEF GuessInv
  <2>8. LifeInv'
    <3>1. \A o \in Clerks : clerk'[o].pc \in {"judge", "time", "write"} => clerk'[o] = t
      BY <2>2
    <3>2. LET found == challenge[p] IN
          /\ c \notin revived => lived[c] <= Life + MaxAttempts - clerk[s].copy.left
          /\ found.code = c => found.left = clerk[s].copy.left
      BY <1>1 DEF CodesHeld, LifeInv
    <3> QED BY <1>1, <1>2, <2>1, <3>1, <3>2 DEF CodesHeld, LifeInv, Held
  <2> QED BY <2>5, <2>6, <2>7, <2>8 DEF CodesHeld
<1> QED BY <1>7, <1>8

LEMMA LifeKeeps ==
    ASSUME SerialVerifiers, ChallengesTypeOK, ClerkInv, CodesHeld, NEW s \in Clerks, ReadLife(s)
    PROVE  CodesHeld'
<1> DEFINE c == clerk[s].copy.code
           p == clerk[s].purpose
           life == Remaining(challenge[p].life)
           t == [clerk[s] EXCEPT !.pc = "write", !.copy = [clerk[s].copy EXCEPT !.left = @ - 1, !.life = life]]
<1>1. /\ clerk[s].pc = "time" /\ Now(s, t)
      /\ UNCHANGED <<challenge, drawn, losses, wrongs, answers, lived, revived>>
  BY DEF ReadLife, history
<1>2. /\ Submitting(s) /\ Judging(s) /\ c \in Codes /\ c # Blank /\ c \in drawn /\ p \in Purposes
      /\ clerk[s].copy \in Challenge /\ clerk[s].copy.left \in Nat
  BY <1>1, Numbers, ChallengeFacts DEF Submitting, Judging
<1>3. /\ t.pc = "write" /\ t.purpose = p /\ t.copy.code = c
      /\ t.copy.left = clerk[s].copy.left - 1 /\ t.copy.life = life
  BY <1>2 DEF ChallengesTypeOK, Clerk, Challenge
<1> HIDE DEF t, life
<1>4. /\ clerk'[s] = t
      /\ \A o \in Clerks : o # s => /\ ~Judging(o) /\ ~Owing(o) /\ ~Judging(o)' /\ ~Owing(o)'
                                    /\ clerk'[o].pc \notin {"judge", "time", "write"}
  BY <1>1, <1>2, Alone
<1>5. \A o \in Clerks : (Owing(o) => o = s) /\ (Judging(o)' => clerk'[o] = t)
                        /\ (clerk'[o].pc \in {"judge", "time", "write"} => clerk'[o] = t)
  BY <1>4
<1>6. Owing(s)' /\ clerk'[s].copy.code = c
  BY <1>3, <1>4 DEF Owing
<1>7. /\ answers[c] = 0 /\ \A q \in Purposes : challenge[q].code = c => q = p
      /\ wrongs[c] + clerk[s].copy.left <= MaxAttempts + losses + 1
      /\ c \notin revived => lived[c] <= Life + MaxAttempts - clerk[s].copy.left
      /\ challenge[p].code = c => challenge[p].left = clerk[s].copy.left
  BY <1>1, <1>2 DEF CodesHeld, CodeInv, GuessInv, LifeInv
<1>8. /\ wrongs[c] \in Nat /\ lived[c] \in Nat /\ losses \in Nat /\ MaxAttempts \in Nat /\ Life \in Nat
  BY <1>2, Numbers
<1>9. c \notin revived /\ challenge[p].code \in {Blank, c} => lived[c] + life <= Life + MaxAttempts - t.copy.left
  <2>1. CASE challenge[p].code = c
    <3>1. Held(p)
      BY <1>2, <2>1, Numbers
    <3>2. challenge[p].life \in Nat /\ challenge[p].life >= 1
      BY <1>2, <3>1, Numbers
    <3>3. life = challenge[p].life
      BY <3>2 DEF life, Remaining
    <3>4. c \notin revived => lived[c] + challenge[p].life <= Life + MaxAttempts - challenge[p].left
      BY <1>2, <2>1, <3>1 DEF CodesHeld, LifeInv
    <3> QED BY <1>2, <1>3, <1>7, <1>8, <2>1, <3>2, <3>3, <3>4
  <2>2. CASE challenge[p].code = Blank
    <3>1. ~Held(p)
      BY <1>2, <2>2, Numbers
    <3>2. life = 1
      BY <3>1 DEF life, Remaining, Held, NoChallenge
    <3> QED BY <1>2, <1>3, <1>7, <1>8, <3>2
  <2> QED BY <2>1, <2>2
<1> HIDE DEF c, p
<1>10. CodesStored'
  BY <1>1 DEF CodesHeld, CodesStored, Held
<1>11. CodeInv'
  BY <1>1, <1>3, <1>5, <1>7 DEF CodesHeld, CodeInv, Held
<1>12. GuessInv'
  <2>1. ASSUME NEW q \in Purposes, Held(q)'
        PROVE  LET tried == wrongs'[challenge'[q].code] + challenge'[q].left
               IN  \/ tried <= MaxAttempts + losses'
                   \/ /\ tried <= MaxAttempts + losses' + 1
                      /\ \E o \in Clerks : Owing(o)' /\ clerk'[o].copy.code = challenge'[q].code
    <3>1. (\E o \in Clerks : Owing(o) /\ clerk[o].copy.code = challenge[q].code)
             => \E o \in Clerks : Owing(o)' /\ clerk'[o].copy.code = challenge[q].code
      BY <1>5, <1>6 DEF c
    <3> QED BY <1>1, <2>1, <3>1 DEF CodesHeld, GuessInv, Held
  <2>2. wrongs[t.copy.code] + t.copy.left <= MaxAttempts + losses
    BY <1>2, <1>3, <1>7, <1>8
  <2>3. \A o \in Clerks : clerk'[o].pc \in {"judge", "time", "write"} => clerk'[o].pc = "write" /\ clerk'[o] = t
    BY <1>3, <1>5
  <2> QED BY <1>1, <2>1, <2>2, <2>3 DEF CodesHeld, GuessInv
<1>13. LifeInv'
  BY <1>1, <1>3, <1>5, <1>9 DEF CodesHeld, LifeInv, Held
<1> QED BY <1>10, <1>11, <1>12, <1>13 DEF CodesHeld

LEMMA WriteKeeps ==
    ASSUME SerialVerifiers, ChallengesTypeOK, ClerkInv, CodesHeld, NEW s \in Clerks, WriteBack(s)
    PROVE  CodesHeld'
<1> DEFINE copy == clerk[s].copy
           c == clerk[s].copy.code
           p == clerk[s].purpose
           over == challenge[p].code
<1>1. /\ clerk[s].pc = "write" /\ Now(s, AtRest)
      /\ challenge' = [challenge EXCEPT ![p] = copy]
      /\ revived' = IF over \in {Blank, c} THEN revived ELSE revived \cup {c}
      /\ UNCHANGED <<drawn, losses, wrongs, answers, lived>>
  BY DEF WriteBack
<1>2. /\ Submitting(s) /\ Judging(s) /\ c \in Codes /\ c # Blank /\ c \in drawn /\ p \in Purposes
      /\ copy \in Challenge /\ copy.left \in Nat /\ copy.left >= 1
  BY <1>1, Numbers, ChallengeFacts DEF Submitting, Judging
<1>3. AtRest.pc = "idle"
  BY DEF AtRest
<1>4. /\ clerk'[s].pc = "idle"
      /\ \A o \in Clerks : o # s => /\ ~Judging(o) /\ ~Owing(o) /\ ~Judging(o)' /\ ~Owing(o)'
                                    /\ clerk'[o].pc \notin {"judge", "time", "write"}
  BY <1>1, <1>2, <1>3, Alone
<1>5. \A o \in Clerks : /\ (Owing(o) => o = s) /\ ~Judging(o)'
                        /\ clerk'[o].pc \notin {"judge", "time", "write"}
  BY <1>4 DEF Judging
<1>6. /\ answers[c] = 0 /\ \A q \in Purposes : challenge[q].code = c => q = p
      /\ wrongs[c] + copy.left <= MaxAttempts + losses
      /\ (c \notin revived /\ over \in {Blank, c}) => lived[c] + copy.life <= Life + MaxAttempts - copy.left
  BY <1>1, <1>2 DEF CodesHeld, CodeInv, GuessInv, LifeInv
<1>7. challenge'[p] = copy /\ \A q \in Purposes : q # p => challenge'[q] = challenge[q]
  BY <1>1, <1>2 DEF ChallengesTypeOK
<1>8. copy.code = c /\ copy # NoChallenge
  BY <1>2, ChallengeFacts
<1> HIDE DEF c, p, copy
<1>9. \A q \in Purposes : q # p => challenge'[q].code # c
  BY <1>6, <1>7
<1>10. CodesStored'
  BY <1>1, <1>2, <1>7, <1>8 DEF CodesHeld, CodesStored, Held
<1>11. CodeInv'
  <2>1. \A q \in Purposes : Held(q)' => answers'[challenge'[q].code] = 0
    BY <1>1, <1>6, <1>7, <1>8 DEF CodesHeld, CodeInv, Held
  <2>2. ASSUME NEW q \in Purposes, NEW r \in Purposes, Held(q)', challenge'[r].code = challenge'[q].code
        PROVE  q = r
    BY <1>7, <1>8, <1>9, <2>2 DEF CodesHeld, CodeInv, Held
  <2> QED BY <1>1, <1>5, <2>1, <2>2 DEF CodesHeld, CodeInv
<1>12. GuessInv'
  <2>1. ASSUME NEW q \in Purposes, Held(q)'
        PROVE  wrongs'[challenge'[q].code] + challenge'[q].left <= MaxAttempts + losses'
    <3>1. CASE q = p
      BY <1>1, <1>6, <1>7, <1>8, <3>1
    <3>2. CASE q # p
      <4>1. Held(q) /\ challenge'[q] = challenge[q] /\ challenge[q].code # c
        BY <1>6, <1>7, <2>1, <3>2 DEF Held
      <4>2. ~\E o \in Clerks : Owing(o) /\ clerk[o].copy.code = challenge[q].code
        BY <1>5, <4>1 DEF c
      <4> QED BY <1>1, <4>1, <4>2 DEF CodesHeld, GuessInv
    <3> QED BY <3>1, <3>2
  <2> QED BY <1>1, <1>5, <2>1 DEF CodesHeld, GuessInv
<1>13. LifeInv'
  <2>1. ASSUME NEW q \in Purposes, Held(q)', challenge'[q].code \notin revived'
        PROVE  lived'[challenge'[q].code] + challenge'[q].life <= Life + MaxAttempts - challenge'[q].left
    <3>1. CASE q = p
      <4>1. c \notin revived' /\ challenge'[q] = copy
        BY <1>7, <1>8, <2>1, <3>1
      <4>2. c \notin revived /\ over \in {Blank, c}
        BY <1>1, <4>1
      <4> QED BY <1>1, <1>6, <1>8, <4>1, <4>2
    <3>2. CASE q # p
      <4>1. Held(q) /\ challenge'[q] = challenge[q] /\ challenge[q].code \notin revived
        BY <1>1, <1>7, <2>1, <3>2 DEF Held
      <4> QED BY <1>1, <4>1 DEF CodesHeld, LifeInv
    <3> QED BY <3>1, <3>2
  <2>2. \A d \in Codes \ revived' : lived'[d] <= Life + MaxAttempts - 1
    BY <1>1 DEF CodesHeld, LifeInv
  <2> QED BY <1>5, <2>1, <2>2 DEF LifeInv
<1> QED BY <1>10, <1>11, <1>12, <1>13 DEF CodesHeld

\* A tick takes from what is left of a code's life what it adds to what it has lived.
LEMMA TimeKeeps ==
    ASSUME ChallengesTypeOK, ClerkInv, CodesHeld, PassTime
    PROVE  CodesHeld'
<1>1. /\ \A s \in Clerks : clerk[s].pc # "write"
      /\ challenge' = [p \in Purposes |-> Aged(challenge[p])]
      /\ lived' = [c \in Codes |-> IF \E p \in Purposes : challenge[p].code = c
                                   THEN lived[c] + 1 ELSE lived[c]]
      /\ UNCHANGED <<drawn, clerk, losses, wrongs, answers, revived>>
  BY DEF PassTime
<1>2. \A p \in Purposes : Held(p)' =>
        /\ Held(p) /\ challenge'[p].code = challenge[p].code /\ challenge'[p].left = challenge[p].left
        /\ challenge'[p].life = challenge[p].life - 1
  BY <1>1, ChallengeFacts, Numbers DEF Held
<1>3. \A p \in Purposes, c \in Codes : challenge'[p].code = c => Held(p)' /\ challenge[p].code = c
  BY <1>1, <1>2, ChallengeFacts, ChallengesAssumption DEF Held
<1>4. \A c \in Codes : /\ lived[c] \in Nat /\ lived'[c] \in Nat /\ lived'[c] <= lived[c] + 1
                       /\ (\A p \in Purposes : challenge[p].code # c) => lived'[c] = lived[c]
  BY <1>1, Numbers
<1>5. \A s \in Clerks : (Judging(s)' <=> Judging(s)) /\ (Owing(s)' <=> Owing(s))
  BY <1>1 DEF Judging, Owing
<1>6. /\ \A p \in Purposes : challenge[p].code \in Codes => Held(p)
      /\ \A p \in Purposes : Held(p) => /\ challenge[p].code \in Codes /\ challenge[p].left \in Nat
                                        /\ challenge[p].left >= 1
                                        /\ challenge[p].life \in Nat /\ challenge[p].life >= 1
      /\ Life \in Nat /\ MaxAttempts \in Nat
  BY Numbers
<1>7. CodesStored'
  BY <1>1, <1>2 DEF CodesHeld, CodesStored
<1>8. CodeInv'
  <2>1. ASSUME NEW c \in Codes \ drawn' PROVE wrongs'[c] = 0 /\ answers'[c] = 0 /\ lived'[c] = 0
    BY <1>1, <1>4, <1>6, <2>1 DEF CodesHeld, CodeInv, CodesStored
  <2>2. ASSUME NEW p \in Purposes, Held(p)'
        PROVE  answers'[challenge'[p].code] = 0
    BY <1>1, <1>2, <2>2 DEF CodesHeld, CodeInv
  <2>3. ASSUME NEW p \in Purposes, NEW q \in Purposes, Held(p)', challenge'[q].code = challenge'[p].code
        PROVE  p = q
    BY <1>2, <1>3, <1>6, <2>3 DEF CodesHeld, CodeInv
  <2>4. ASSUME NEW s \in Clerks, Judging(s)'
        PROVE  /\ answers'[clerk'[s].copy.code] = 0
               /\ \A q \in Purposes : challenge'[q].code = clerk'[s].copy.code => q = clerk'[s].purpose
    <3>1. Judging(s) /\ clerk'[s] = clerk[s] /\ clerk[s].copy.code \in Codes
      BY <1>1, <1>5, <2>4, Numbers
    <3> QED BY <1>1, <1>3, <3>1 DEF CodesHeld, CodeInv
  <2> QED BY <1>1, <2>1, <2>2, <2>3, <2>4 DEF CodesHeld, CodeInv
<1>9. GuessInv'
  <2>1. ASSUME NEW q \in Purposes, Held(q)'
        PROVE  LET tried == wrongs'[challenge'[q].code] + challenge'[q].left
               IN  \/ tried <= MaxAttempts + losses'
                   \/ /\ tried <= MaxAttempts + losses' + 1
                      /\ \E o \in Clerks : Owing(o)' /\ clerk'[o].copy.code = challenge'[q].code
    BY <1>1, <1>2, <1>5, <2>1 DEF CodesHeld, GuessInv
  <2> QED BY <1>1, <2>1 DEF CodesHeld, GuessInv
<1>10. LifeInv'
  <2>1. ASSUME NEW c \in Codes, c \notin revived
        PROVE  /\ lived'[c] <= Life + MaxAttempts - 1
               /\ \A p \in Purposes : challenge[p].code = c =>
                    lived[c] + challenge[p].life <= Life + MaxAttempts - challenge[p].left
    <3>1. ASSUME NEW p \in Purposes, challenge[p].code = c
          PROVE  lived[c] + challenge[p].life <= Life + MaxAttempts - challenge[p].left
      BY <1>6, <2>1, <3>1 DEF CodesHeld, LifeInv
    <3>2. CASE \E p \in Purposes : challenge[p].code = c
      BY <1>4, <1>6, <3>1, <3>2
    <3>3. CASE ~\E p \in Purposes : challenge[p].code = c
      BY <1>4, <2>1, <3>3 DEF CodesHeld, LifeInv
    <3> QED BY <3>1, <3>2, <3>3
  <2>2. ASSUME NEW p \in Purposes, Held(p)', challenge'[p].code \notin revived'
        PROVE  lived'[challenge'[p].code] + challenge'[p].life <= Life + MaxAttempts - challenge'[p].left
    BY <1>1, <1>2, <1>4, <1>6, <2>1, <2>2
  <2>3. ASSUME NEW s \in Clerks, clerk[s].pc \in {"judge", "time"}
        PROVE  LET u == clerk[s]
                   found == challenge'[u.purpose] IN
               /\ u.copy.code \notin revived => lived'[u.copy.code] <= Life + MaxAttempts - u.copy.left
               /\ found.code = u.copy.code => found.left = u.copy.left
    <3> DEFINE c == clerk[s].copy.code
               p == clerk[s].purpose
    <3>1. /\ Judging(s) /\ c \in Codes /\ p \in Purposes /\ clerk[s].copy.left \in Nat
      BY <2>3, Numbers DEF Judging
    <3>2. /\ c \notin revived => lived[c] <= Life + MaxAttempts - clerk[s].copy.left
          /\ challenge[p].code = c => challenge[p].left = clerk[s].copy.left
          /\ \A q \in Purposes : challenge[q].code = c => q = p
      BY <2>3, <3>1 DEF CodesHeld, LifeInv, CodeInv
    <3> HIDE DEF c, p
    <3>3. c \notin revived => lived'[c] <= Life + MaxAttempts - clerk[s].copy.left
      <4>1. CASE challenge[p].code = c
        BY <1>4, <1>6, <2>1, <3>1, <3>2, <4>1
      <4>2. CASE challenge[p].code # c
        BY <1>4, <3>1, <3>2, <4>2
      <4> QED BY <4>1, <4>2
    <3>4. challenge'[p].code = c => challenge'[p].left = clerk[s].copy.left
      BY <1>2, <1>3, <3>1, <3>2
    <3> QED BY <3>3, <3>4 DEF c, p
  <2> QED BY <1>1, <2>1, <2>2, <2>3 DEF LifeInv
<1> QED BY <1>7, <1>8, <1>9, <1>10 DEF CodesHeld

\* A request that dies gives its attempt away.
LEMMA LoseKeeps ==
    ASSUME ChallengesTypeOK, ClerkInv, CodesHeld, NEW s \in Clerks, Lose(s)
    PROVE  CodesHeld'
<1>1. /\ losses' = losses + 1 /\ Now(s, AtRest)
      /\ UNCHANGED <<challenge, drawn, wrongs, answers, lived, revived>>
  BY DEF Lose, history
<1>2. AtRest.pc = "idle"
  BY DEF AtRest
<1>3. clerk'[s].pc = "idle" /\ \A o \in Clerks : o # s => clerk'[o] = clerk[o]
  BY <1>1, <1>2 DEF Now, ChallengesTypeOK
<1>4. \A o \in Clerks : /\ Judging(o)' => o # s /\ Judging(o) /\ clerk'[o] = clerk[o]
                        /\ clerk'[o].pc \in {"judge", "time", "write"} => clerk'[o] = clerk[o]
  BY <1>3 DEF Judging
<1>5. \A o \in Clerks : Judging(o) => wrongs[clerk[o].copy.code] \in Nat /\ clerk[o].copy.left \in Nat
  BY Numbers
<1>6. \A p \in Purposes : Held(p) => wrongs[challenge[p].code] \in Nat /\ challenge[p].left \in Nat
  BY Numbers
<1>7. losses \in Nat /\ MaxAttempts \in Nat /\ \A c \in Codes : wrongs[c] \in Nat
  BY Numbers
<1>8. CodesStored'
  BY <1>1 DEF CodesHeld, CodesStored, Held
<1>9. CodeInv'
  BY <1>1, <1>4 DEF CodesHeld, CodeInv, Held
<1>10. GuessInv'
  <2>1. ASSUME NEW p \in Purposes, Held(p)'
        PROVE  wrongs'[challenge'[p].code] + challenge'[p].left <= MaxAttempts + losses'
    BY <1>1, <1>6, <1>7, <2>1 DEF CodesHeld, GuessInv, Held
  <2>2. ASSUME NEW o \in Clerks
        PROVE  LET t == clerk'[o] IN
               /\ t.pc \in {"judge", "write"}
                    => wrongs'[t.copy.code] + t.copy.left <= MaxAttempts + losses'
               /\ t.pc = "time" => wrongs'[t.copy.code] + t.copy.left <= MaxAttempts + losses' + 1
    BY <1>1, <1>4, <1>5, <1>7 DEF CodesHeld, GuessInv, Judging
  <2>3. \A c \in Codes : wrongs'[c] <= MaxAttempts + losses'
    BY <1>1, <1>7 DEF CodesHeld, GuessInv
  <2> QED BY <2>1, <2>2, <2>3 DEF GuessInv
<1>11. LifeInv'
  BY <1>1, <1>4 DEF CodesHeld, LifeInv, Held
<1> QED BY <1>8, <1>9, <1>10, <1>11 DEF CodesHeld

LEMMA CodesStep ==
    SerialVerifiers /\ ChallengesTypeOK /\ ClerkInv /\ CodesHeld /\ [ChallengesNext]_otpVars => CodesHeld'
<1> SUFFICES ASSUME SerialVerifiers, ChallengesTypeOK, ClerkInv, CodesHeld, [ChallengesNext]_otpVars
             PROVE  CodesHeld'
  OBVIOUS
<1>1. ASSUME NEW s \in Clerks, BeginAuth(s) PROVE CodesHeld'
  BY <1>1, QuietSteps, QuietKeeps DEF BeginAuth
<1>2. ASSUME NEW s \in Clerks,
             \/ StartCooldown(s) \/ EnqueueCode(s) \/ DropPre2fa(s) \/ ChooseMethod(s) \/ Accept(s)
             \/ \E l \in Logins : IssuePre2fa(s, l)
      PROVE  CodesHeld'
  BY <1>2, QuietSteps, QuietKeeps
<1>3. ASSUME NEW s \in Clerks, ReadChallenge(s) PROVE CodesHeld'
  <2>1. CASE challenge[clerk[s].purpose] = NoChallenge
    BY <1>3, <2>1, QuietSteps, QuietKeeps
  <2>2. CASE challenge[clerk[s].purpose] # NoChallenge
    BY <1>3, <2>2, ReadKeeps
  <2> QED BY <2>1, <2>2
<1>4. ASSUME NEW s \in Clerks,
             \/ \E c \in Codes : CreateChallenge(s, c)
             \/ AcceptCode(s) \/ RejectCode(s) \/ ReadLife(s) \/ WriteBack(s) \/ Lose(s)
      PROVE  CodesHeld'
  BY <1>4, CreateKeeps, AcceptKeeps, RejectKeeps, LifeKeeps, WriteKeeps, LoseKeeps
<1>5. CASE PassTime
  BY <1>5, TimeKeeps
<1>6. CASE (\E l \in Logins : ExpirePre2fa(l)) \/ UNCHANGED otpVars
  <2>1. UNCHANGED <<challenge, drawn, clerk, losses, wrongs, answers, lived, revived>>
    BY <1>6 DEF ExpirePre2fa, otpVars, history
  <2>2. CodesStored' /\ CodeInv' /\ LifeInv'
    BY <2>1 DEF CodesHeld, CodesStored, CodeInv, LifeInv, Held, Judging
  <2>3. GuessInv'
    BY <2>1 DEF CodesHeld, GuessInv, Held, Owing
  <2> QED BY <2>2, <2>3 DEF CodesHeld
<1> QED BY <1>1, <1>2, <1>3, <1>4, <1>5, <1>6 DEF ChallengesNext, ResumeAuth

-----------------------------------------------------------------------------
(* The session a log-in ends in *)

LEMMA LoginInit == ChallengesInit => LoginInv
BY DEF ChallengesInit, LoginInv, AtRest

\* A step that neither issues a token nor takes one up leaves the log-ins as they are.
LEMMA LoginAside ==
    ASSUME ChallengesTypeOK, LoginInv, NEW s \in Clerks, NEW t, Now(s, t),
           \/ t.op # "factor"
           \/ t.op = clerk[s].op /\ t.login = clerk[s].login /\ (clerk[s].pc = "drop" => t.pc = "drop"),
           UNCHANGED <<pre, sessions>>
    PROVE  LoginInv'
<1>1. clerk'[s] = t /\ \A o \in Clerks : o # s => clerk'[o] = clerk[o]
  BY DEF Now, ChallengesTypeOK
<1>2. ASSUME NEW o \in Clerks, clerk'[o].op = "factor"
      PROVE  /\ sessions[clerk'[o].login] = 0
             /\ clerk'[o].pc = "drop" \/ pre[clerk'[o].login] = "spent"
  BY <1>1, <1>2 DEF LoginInv
<1> QED BY <1>2 DEF LoginInv

LEMMA LoginStep ==
    SerialVerifiers /\ ChallengesTypeOK /\ ClerkInv /\ LoginInv /\ [ChallengesNext]_otpVars => LoginInv'
<1> SUFFICES ASSUME SerialVerifiers, ChallengesTypeOK, ClerkInv, LoginInv, [ChallengesNext]_otpVars
             PROVE  LoginInv'
  OBVIOUS
<1> USE DEF history
<1>0. ASSUME NEW s \in Clerks
      PROVE  /\ clerk[s] \in Clerk
             /\ clerk[s].op = "factor" => clerk[s].login \in Logins
             /\ AtRest.op = "none" /\ AtRest.login = Blank
             /\ \A o \in Clerks : clerk[s].op = "factor" /\ clerk[o].op = "factor" => o = s
  BY OneSubmission DEF ChallengesTypeOK, Clerk, ClerkInv, Submitting, AtRest
<1>1. ASSUME NEW s \in Clerks, NEW p \in Purposes, SendCode(s, p) PROVE LoginInv'
  <2>1. [AtRest EXCEPT !.op = "send", !.pc = "create", !.purpose = p].op # "factor"
    BY DEF AtRest
  <2> QED BY <1>1, <2>1, LoginAside DEF SendCode
<1>2. ASSUME NEW s \in Clerks, ResendCode(s) PROVE LoginInv'
  <2>1. [AtRest EXCEPT !.op = "resend", !.pc = "cool", !.purpose = "client-verify"].op # "factor"
    BY DEF AtRest
  <2> QED BY <1>2, <2>1, LoginAside DEF ResendCode
<1>3. ASSUME NEW s \in Clerks, NEW g \in Codes \cup {Blank}, VerifyClientOtp(s, g) PROVE LoginInv'
  <2>1. [AtRest EXCEPT !.op = "verify", !.pc = "read", !.purpose = "client-verify", !.guess = g].op # "factor"
    BY DEF AtRest
  <2> QED BY <1>3, <2>1, LoginAside DEF VerifyClientOtp
<1>4. ASSUME NEW s \in Clerks, NEW l \in Logins, NEW g \in Codes \cup {Blank}, StaffTwoFactor(s, l, g)
      PROVE  LoginInv'
  <2> DEFINE t == [AtRest EXCEPT !.op = "factor", !.pc = "drop", !.purpose = "staff-sms",
                                 !.guess = g, !.login = l]
  <2>1. Now(s, t) /\ pre[l] = "active" /\ UNCHANGED <<pre, sessions>>
    BY <1>4 DEF StaffTwoFactor
  <2>2. t.op = "factor" /\ t.pc = "drop" /\ t.login = l
    BY DEF AtRest
  <2> HIDE DEF t
  <2>3. clerk'[s] = t /\ \A o \in Clerks : o # s => clerk'[o] = clerk[o]
    BY <2>1 DEF Now, ChallengesTypeOK
  <2>4. ASSUME NEW o \in Clerks, clerk'[o].op = "factor"
        PROVE  /\ sessions[clerk'[o].login] = 0
               /\ clerk'[o].pc = "drop" \/ pre[clerk'[o].login] = "spent"
    BY <2>1, <2>2, <2>3, <2>4 DEF LoginInv
  <2> QED BY <2>1, <2>4 DEF LoginInv
<1>5. ASSUME NEW s \in Clerks, StartCooldown(s) PROVE LoginInv'
  <2>1. LET t == [clerk[s] EXCEPT !.pc = "create"]
        IN  t.op = clerk[s].op /\ t.login = clerk[s].login
    BY <1>0 DEF Clerk
  <2>2. clerk[s].pc # "drop"
    BY <1>5 DEF StartCooldown
  <2> QED BY <1>5, <2>1, <2>2, LoginAside DEF StartCooldown
<1>6. ASSUME NEW s \in Clerks, NEW c \in Codes, CreateChallenge(s, c) PROVE LoginInv'
  <2> DEFINE new == [code |-> c, left |-> MaxAttempts, life |-> Life]
             t == [clerk[s] EXCEPT !.pc = "send", !.copy = new]
  <2>1. Now(s, t) /\ clerk[s].pc = "create" /\ UNCHANGED <<pre, sessions>>
    BY <1>6 DEF CreateChallenge
  <2>2. t.op = clerk[s].op /\ t.login = clerk[s].login
    BY <1>0 DEF Clerk
  <2> HIDE DEF t
  <2> QED BY <2>1, <2>2, LoginAside
<1>7. ASSUME NEW s \in Clerks, EnqueueCode(s) PROVE LoginInv'
  <2>1. /\ clerk[s].pc = "send" /\ UNCHANGED <<pre, sessions>>
        /\ Now(s, [clerk[s] EXCEPT !.pc = "token"]) \/ Now(s, AtRest)
    BY <1>7 DEF EnqueueCode
  <2>2. LET t == [clerk[s] EXCEPT !.pc = "token"]
        IN  t.op = clerk[s].op /\ t.login = clerk[s].login
    BY <1>0 DEF Clerk
  <2>3. AtRest.op # "factor"
    BY <1>0
  <2> QED BY <2>1, <2>2, <2>3, LoginAside
<1>8. ASSUME NEW s \in Clerks, NEW l \in Logins, IssuePre2fa(s, l) PROVE LoginInv'
  <2>1. /\ pre[l] = "none" /\ pre' = [pre EXCEPT ![l] = "active"] /\ Now(s, AtRest)
        /\ UNCHANGED sessions
    BY <1>8 DEF IssuePre2fa
  <2>2. clerk'[s] = AtRest /\ \A o \in Clerks : o # s => clerk'[o] = clerk[o]
    BY <2>1 DEF Now, ChallengesTypeOK
  <2>3. /\ pre'[l] = "active" /\ sessions[l] = 0
        /\ \A m \in Logins : m # l => pre'[m] = pre[m]
    BY <2>1 DEF ChallengesTypeOK, LoginInv
  <2>4. ASSUME NEW o \in Clerks, clerk'[o].op = "factor"
        PROVE  /\ sessions[clerk'[o].login] = 0
               /\ clerk'[o].pc = "drop" \/ pre'[clerk'[o].login] = "spent"
    <3>1. clerk'[o] = clerk[o] /\ clerk[o].op = "factor" /\ clerk[o].login \in Logins
      BY <1>0, <2>2, <2>4
    <3>2. pre[clerk[o].login] = "spent" => clerk[o].login # l
      BY <2>1
    <3> QED BY <2>3, <3>1, <3>2 DEF LoginInv
  <2> QED BY <2>1, <2>3, <2>4 DEF LoginInv
<1>9. ASSUME NEW s \in Clerks, DropPre2fa(s) PROVE LoginInv'
  <2> DEFINE t == [clerk[s] EXCEPT !.pc = "method"]
             l == clerk[s].login
  <2>1. /\ clerk[s].pc = "drop" /\ Now(s, t) /\ pre' = [pre EXCEPT ![l] = "spent"]
        /\ UNCHANGED sessions
    BY <1>9 DEF DropPre2fa, SpentPre2fa
  <2>2. t.op = clerk[s].op /\ t.login = l
    BY <1>0 DEF Clerk
  <2>3. clerk[s].op = "factor" /\ l \in Logins
    BY <1>0, <2>1 DEF ClerkInv
  <2> HIDE DEF t
  <2>4. clerk'[s] = t /\ \A o \in Clerks : o # s => clerk'[o] = clerk[o]
    BY <2>1 DEF Now, ChallengesTypeOK
  <2>5. pre'[l] = "spent" /\ \A m \in Logins : m # l => pre'[m] = pre[m]
    BY <2>1, <2>3 DEF ChallengesTypeOK
  <2>6. ASSUME NEW o \in Clerks, clerk'[o].op = "factor"
        PROVE  /\ sessions[clerk'[o].login] = 0
               /\ clerk'[o].pc = "drop" \/ pre'[clerk'[o].login] = "spent"
    <3>1. o = s
      BY <1>0, <2>3, <2>4, <2>6
    <3> QED BY <2>2, <2>3, <2>4, <2>5, <3>1 DEF LoginInv
  <2>7. \A m \in Logins : pre'[m] # "spent" => pre[m] # "spent"
    BY <2>5
  <2> QED BY <2>1, <2>6, <2>7 DEF LoginInv
<1>10. ASSUME NEW s \in Clerks, ChooseMethod(s) PROVE LoginInv'
  <2>1. /\ clerk[s].pc = "method" /\ UNCHANGED <<pre, sessions>>
        /\ Now(s, [clerk[s] EXCEPT !.pc = "read"]) \/ Now(s, AtRest)
    BY <1>10 DEF ChooseMethod
  <2>2. LET t == [clerk[s] EXCEPT !.pc = "read"]
        IN  t.op = clerk[s].op /\ t.login = clerk[s].login
    BY <1>0 DEF Clerk
  <2>3. AtRest.op # "factor"
    BY <1>0
  <2> QED BY <2>1, <2>2, <2>3, LoginAside
<1>11. ASSUME NEW s \in Clerks, ReadChallenge(s) PROVE LoginInv'
  <2> DEFINE t == [clerk[s] EXCEPT !.pc = "judge", !.copy = challenge[clerk[s].purpose]]
  <2>1. clerk[s].pc = "read" /\ (Now(s, t) \/ Now(s, AtRest)) /\ UNCHANGED <<pre, sessions>>
    BY <1>11 DEF ReadChallenge
  <2>2. t.op = clerk[s].op /\ t.login = clerk[s].login
    BY <1>0 DEF Clerk
  <2>3. AtRest.op # "factor"
    BY <1>0
  <2> HIDE DEF t
  <2> QED BY <2>1, <2>2, <2>3, LoginAside
<1>12. ASSUME NEW s \in Clerks, AcceptCode(s) PROVE LoginInv'
  <2>1. LET t == [clerk[s] EXCEPT !.pc = "accept"]
        IN  t.op = clerk[s].op /\ t.login = clerk[s].login
    BY <1>0 DEF Clerk
  <2>2. clerk[s].pc # "drop"
    BY <1>12 DEF AcceptCode
  <2> QED BY <1>12, <2>1, <2>2, LoginAside DEF AcceptCode
<1>13. ASSUME NEW s \in Clerks, Accept(s) PROVE LoginInv'
  <2>1. /\ clerk[s].pc = "accept" /\ Now(s, AtRest) /\ UNCHANGED pre
        /\ sessions' = IF clerk[s].op = "factor"
                       THEN [sessions EXCEPT ![clerk[s].login] = @ + 1] ELSE sessions
    BY <1>13 DEF Accept
  <2>2. CASE clerk[s].op = "factor"
    <3> DEFINE l == clerk[s].login
    <3>1. /\ l \in Logins /\ sessions[l] = 0 /\ pre[l] = "spent"
      BY <1>0, <2>1, <2>2 DEF LoginInv
    <3>2. sessions'[l] = 1 /\ \A m \in Logins : m # l => sessions'[m] = sessions[m]
      BY <2>1, <2>2, <3>1 DEF ChallengesTypeOK
    <3>3. clerk'[s] = AtRest /\ \A o \in Clerks : o # s => clerk'[o] = clerk[o]
      BY <2>1 DEF Now, ChallengesTypeOK
    <3>4. \A o \in Clerks : clerk'[o].op # "factor"
      BY <1>0, <2>2, <3>3
    <3> HIDE DEF l
    <3> QED BY <2>1, <3>1, <3>2, <3>4 DEF LoginInv
  <2>3. CASE clerk[s].op # "factor"
    BY <1>0, <2>1, <2>3, LoginAside
  <2> QED BY <2>2, <2>3
<1>14. ASSUME NEW s \in Clerks, RejectCode(s) PROVE LoginInv'
  <2>1. /\ clerk[s].pc = "judge" /\ UNCHANGED <<pre, sessions>>
        /\ Now(s, [clerk[s] EXCEPT !.pc = "time"]) \/ Now(s, AtRest)
    BY <1>14 DEF RejectCode
  <2>2. LET t == [clerk[s] EXCEPT !.pc = "time"]
        IN  t.op = clerk[s].op /\ t.login = clerk[s].login
    BY <1>0 DEF Clerk
  <2>3. AtRest.op # "factor"
    BY <1>0
  <2> QED BY <2>1, <2>2, <2>3, LoginAside
<1>15. ASSUME NEW s \in Clerks, ReadLife(s) PROVE LoginInv'
  <2> DEFINE life == Remaining(challenge[clerk[s].purpose].life)
             t == [clerk[s] EXCEPT !.pc = "write", !.copy = [clerk[s].copy EXCEPT !.left = @ - 1, !.life = life]]
  <2>1. clerk[s].pc = "time" /\ Now(s, t) /\ UNCHANGED <<pre, sessions>>
    BY <1>15 DEF ReadLife
  <2>2. t.op = clerk[s].op /\ t.login = clerk[s].login
    BY <1>0 DEF Clerk
  <2> HIDE DEF t
  <2> QED BY <2>1, <2>2, LoginAside
<1>16. ASSUME NEW s \in Clerks, WriteBack(s) \/ Lose(s) PROVE LoginInv'
  <2>1. Now(s, AtRest) /\ AtRest.op # "factor" /\ UNCHANGED <<pre, sessions>>
    BY <1>0, <1>16 DEF WriteBack, Lose
  <2> QED BY <2>1, LoginAside
<1>17. ASSUME NEW l \in Logins, ExpirePre2fa(l) PROVE LoginInv'
  BY <1>0, <1>17 DEF ExpirePre2fa, LoginInv, ChallengesTypeOK
<1>18. CASE PassTime \/ UNCHANGED otpVars
  BY <1>18 DEF PassTime, otpVars, LoginInv
<1> QED BY <1>1, <1>2, <1>3, <1>4, <1>5, <1>6, <1>7, <1>8, <1>9, <1>10, <1>11, <1>12, <1>13, <1>14,
           <1>15, <1>16, <1>17, <1>18
        DEF ChallengesNext, BeginAuth, ResumeAuth

-----------------------------------------------------------------------------
\* A stored code was generated, whatever overlaps.
LEMMA StoredStep ==
    ChallengesTypeOK /\ ClerkInv /\ CodesStored /\ [ChallengesNext]_otpVars => CodesStored'
<1> SUFFICES ASSUME ChallengesTypeOK, ClerkInv, CodesStored, [ChallengesNext]_otpVars
             PROVE  CodesStored'
  OBVIOUS
<1>1. ASSUME drawn' = drawn,
             \A p \in Purposes : Held(p)' => Held(p) /\ challenge'[p].code = challenge[p].code
      PROVE  CodesStored'
  BY <1>1 DEF CodesStored
<1>2. ASSUME NEW s \in Clerks, NEW c \in Codes, CreateChallenge(s, c) PROVE CodesStored'
  <2> DEFINE new == [code |-> c, left |-> MaxAttempts, life |-> Life]
  <2>1. challenge' = [challenge EXCEPT ![clerk[s].purpose] = new] /\ drawn' = drawn \cup {c} /\ new.code = c
    BY <1>2 DEF CreateChallenge
  <2> HIDE DEF new
  <2> QED BY <2>1 DEF CodesStored, Held, ChallengesTypeOK
<1>3. ASSUME NEW s \in Clerks, WriteBack(s) PROVE CodesStored'
  <2>1. /\ challenge' = [challenge EXCEPT ![clerk[s].purpose] = clerk[s].copy] /\ drawn' = drawn
        /\ clerk[s].pc = "write"
    BY <1>3 DEF WriteBack
  <2>2. clerk[s].copy.code \in drawn
    BY <1>3, <2>1 DEF ClerkInv, Judging
  <2> QED BY <2>1, <2>2 DEF CodesStored, Held, ChallengesTypeOK
<1>4. ASSUME NEW s \in Clerks, AcceptCode(s) \/ RejectCode(s) PROVE CodesStored'
  <2>1. /\ drawn' = drawn
        /\ challenge' \in {challenge, [challenge EXCEPT ![clerk[s].purpose] = NoChallenge]}
    BY <1>4 DEF AcceptCode, RejectCode, Answered, Erased
  <2> QED BY <2>1 DEF CodesStored, Held, ChallengesTypeOK
<1>5. CASE PassTime
  <2>1. /\ challenge' = [p \in Purposes |-> Aged(challenge[p])] /\ drawn' = drawn
    BY <1>5 DEF PassTime
  <2> QED BY <1>1, <2>1, ChallengeFacts, Numbers DEF Held
<1>6. CASE UNCHANGED <<challenge, drawn>>
  BY <1>1, <1>6 DEF Held
<1>7. ASSUME NEW s \in Clerks,
             \/ BeginAuth(s) \/ StartCooldown(s) \/ EnqueueCode(s) \/ DropPre2fa(s) \/ ChooseMethod(s)
             \/ Accept(s) \/ ReadChallenge(s) \/ ReadLife(s) \/ Lose(s)
             \/ \E l \in Logins : IssuePre2fa(s, l)
      PROVE  UNCHANGED <<challenge, drawn>>
  <2>1. CASE BeginAuth(s)
    BY <2>1 DEF BeginAuth, SendCode, ResendCode, VerifyClientOtp, StaffTwoFactor
  <2>2. CASE StartCooldown(s) \/ EnqueueCode(s) \/ DropPre2fa(s) \/ ChooseMethod(s)
    BY <2>2 DEF StartCooldown, EnqueueCode, DropPre2fa, ChooseMethod
  <2>3. CASE Accept(s) \/ ReadChallenge(s) \/ ReadLife(s) \/ Lose(s)
    BY <2>3 DEF Accept, ReadChallenge, ReadLife, Lose
  <2>4. CASE \E l \in Logins : IssuePre2fa(s, l)
    BY <2>4 DEF IssuePre2fa
  <2> QED BY <1>7, <2>1, <2>2, <2>3, <2>4
<1>8. CASE (\E l \in Logins : ExpirePre2fa(l)) \/ UNCHANGED otpVars
  BY <1>6, <1>8 DEF ExpirePre2fa, otpVars
<1> QED BY <1>2, <1>3, <1>4, <1>5, <1>6, <1>7, <1>8 DEF ChallengesNext, ResumeAuth

\* Whatever overlaps, a request carries what its step needs, and what is stored was
\* generated.
THEOREM RequestsAreSound == ChallengesSpec => [](ChallengesTypeOK /\ ClerkInv /\ CodesStored)
<1>1. ChallengesTypeOK /\ ClerkInv /\ CodesStored /\ [ChallengesNext]_otpVars
        => (ChallengesTypeOK /\ ClerkInv /\ CodesStored)'
  BY AuthStep, StoredStep
<1> QED BY <1>1, AuthInit, PTL DEF ChallengesSpec

\* If submissions do not overlap, a code is tried no more often than its attempts
\* allow, is accepted once, and lives no longer than its life and a tick for each
\* attempt taken off it.
THEOREM CodesKeepTheirPromise == SerialVerifiers => (ChallengesSpec => []CodesHold)
<1> SUFFICES ASSUME SerialVerifiers PROVE ChallengesSpec => []CodesHold
  OBVIOUS
<1>1. ChallengesInit => ChallengesTypeOK /\ ClerkInv /\ CodesHeld
  BY AuthInit, CodesInit
<1>2. ChallengesTypeOK /\ ClerkInv /\ CodesHeld /\ [ChallengesNext]_otpVars
        => (ChallengesTypeOK /\ ClerkInv /\ CodesHeld)'
  BY AuthStep, CodesStep DEF CodesHeld
<1>3. ChallengesTypeOK /\ CodesHeld => CodesHold
  BY DEF CodesHeld, CodesHold, GuessesBounded, GuessInv, AnsweredOnce, CodeInv, LifeBounded, LifeInv
<1> QED BY <1>1, <1>2, <1>3, PTL DEF ChallengesSpec

\* If submissions do not overlap, a log-in ends in one session at most.
THEOREM OneSessionEach == SerialVerifiers => (ChallengesSpec => []OneSessionPerLogin)
<1> SUFFICES ASSUME SerialVerifiers PROVE ChallengesSpec => []OneSessionPerLogin
  OBVIOUS
<1>1. ChallengesInit => ChallengesTypeOK /\ ClerkInv /\ CodesStored /\ LoginInv
  BY AuthInit, LoginInit
<1>2. ChallengesTypeOK /\ ClerkInv /\ CodesStored /\ LoginInv /\ [ChallengesNext]_otpVars
        => (ChallengesTypeOK /\ ClerkInv /\ CodesStored /\ LoginInv)'
  BY AuthStep, StoredStep, LoginStep
<1>3. LoginInv => OneSessionPerLogin
  BY DEF LoginInv, OneSessionPerLogin
<1> QED BY <1>1, <1>2, <1>3, PTL DEF ChallengesSpec
=============================================================================
