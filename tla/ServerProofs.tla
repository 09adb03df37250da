----------------------------- MODULE ServerProofs -----------------------------
(***************************************************************************)
(* Proofs about the servers as processes: Startup, for every number of     *)
(* processes, scripts and administrators that work on the same empty       *)
(* database, Maintenance, for every set of processes, requests and         *)
(* administrators and for all lives of the two copies, and Watchdog, for   *)
(* every window and pause.                                                 *)
(***************************************************************************)
EXTENDS Startup, Maintenance, Watchdog, TLAPS

-----------------------------------------------------------------------------
(* Startup *)

(***************************************************************************)
(* What a process has done when it is at a given place: Startup's          *)
(* properties speak of rows and of processes that serve, and hold because  *)
(* nobody comes to a place without the rows of those before.               *)
(***************************************************************************)
Elements(s) == {s[i] : i \in DOMAIN s}

Phase(p, b, h, own) ==
    /\ b.pc = "look" => h = {}
    /\ b.pc = "insert" => b.todo # <<>>
    /\ b.job \in {"off", "on"} => b.pc = "look"
    /\ b.job = "off" => b = Down
    /\ b.job \in {"admin", "on"} => p \in Servers
    /\ b.job = "services" => p \in Seeders
    /\ b.job = "settings" => p \in Servers \cup Seeders
    /\ b.job = "create" => p \in Authors /\ b.pc # "look"
    /\ b.job = "admin" => /\ h \subseteq {AdminRow}
                          /\ b.pc = "insert" => b.todo = <<AdminRow>>
                          /\ b.pc = "commit" => AdminRow \in h
    /\ b.job = "settings" => /\ h \subseteq {SettingsRow}
                             /\ b.pc = "insert" => b.todo = <<SettingsRow>>
                             /\ b.pc = "commit" => SettingsRow \in h
    /\ b.job = "services" =>
         /\ b.pc = "insert" => \A j \in DOMAIN Seeds : Seeds[j] \in h \cup Elements(b.todo)
         /\ b.pc = "commit" => \A j \in DOMAIN Seeds : Seeds[j] \in h
    /\ b.job = "settings" /\ p \in Servers => own[AdminRow] # Nil
    /\ b.job = "on" => own[AdminRow] # Nil /\ own[SettingsRow] # Nil

PhaseInv == \A p \in Starters : Phase(p, boot[p], held[p], owner)

IInv == StartupTypeOK /\ PhaseInv /\ SeedsWhole

-----------------------------------------------------------------------------
LEMMA BeginIsTyped ==
    ASSUME NEW job \in {"off", "admin", "services", "settings", "create", "on"}
    PROVE  /\ Begin(job) \in Boot /\ Begin(job).job = job
           /\ Begin(job).pc = "look" /\ Begin(job).todo = <<>>
<1>1. <<>> \in Seq(Rows)
  OBVIOUS
<1> QED BY <1>1 DEF Begin, Down, Boot

LEMMA DownIsTyped == Down \in Boot /\ Down.job = "off" /\ Down.pc = "look" /\ Down.todo = <<>>
<1>1. <<>> \in Seq(Rows)
  OBVIOUS
<1> QED BY <1>1 DEF Down, Boot

\* Whoever is in a sequence is its first or in the rest.
LEMMA FirstOrRest ==
    ASSUME NEW S, NEW s \in Seq(S), s # <<>>
    PROVE  /\ Head(s) \in S /\ Tail(s) \in Seq(S)
           /\ Elements(s) = {Head(s)} \cup Elements(Tail(s))
           /\ Len(s) = 1 => Elements(Tail(s)) = {}
           /\ Len(s) # 1 => Tail(s) # <<>>
<1>1. Len(s) \in Nat /\ Len(s) >= 1 /\ DOMAIN s = 1..Len(s) /\ Head(s) = s[1] /\ s[1] \in S
  OBVIOUS
<1>2. /\ Tail(s) \in Seq(S) /\ Len(Tail(s)) = Len(s) - 1 /\ DOMAIN Tail(s) = 1..(Len(s) - 1)
      /\ \A i \in 1..(Len(s) - 1) : Tail(s)[i] = s[i + 1]
  OBVIOUS
<1>3. Elements(s) = {Head(s)} \cup Elements(Tail(s))
  <2>1. ASSUME NEW i \in 1..Len(s) PROVE s[i] = s[1] \/ \E j \in 1..(Len(s) - 1) : s[i] = Tail(s)[j]
    <3>1. CASE i = 1
      BY <3>1
    <3>2. CASE i # 1
      <4>1. i - 1 \in 1..(Len(s) - 1) /\ (i - 1) + 1 = i
        BY <1>1, <3>2
      <4>2. Tail(s)[i - 1] = s[i]
        BY <1>2, <4>1
      <4> QED BY <4>1, <4>2
    <3> QED BY <3>1, <3>2
  <2>2. \A j \in 1..(Len(s) - 1) : j + 1 \in 1..Len(s) /\ 1 \in 1..Len(s)
    BY <1>1
  <2>3. 1 \in 1..Len(s)
    BY <1>1
  <2>4. ASSUME NEW x \in Elements(s) PROVE x \in {Head(s)} \cup Elements(Tail(s))
    <3>1. PICK i \in 1..Len(s) : x = s[i]
      BY <1>1 DEF Elements
    <3>2. CASE s[i] = s[1]
      BY <1>1, <3>1, <3>2
    <3>3. CASE \E j \in 1..(Len(s) - 1) : s[i] = Tail(s)[j]
      BY <1>2, <3>1, <3>3 DEF Elements
    <3> QED BY <2>1, <3>2, <3>3
  <2>5. ASSUME NEW x \in Elements(Tail(s)) PROVE x \in Elements(s)
    <3>1. PICK j \in 1..(Len(s) - 1) : x = Tail(s)[j]
      BY <1>2 DEF Elements
    <3>2. x = s[j + 1] /\ j + 1 \in DOMAIN s
      BY <1>1, <1>2, <2>2, <3>1
    <3> QED BY <3>2 DEF Elements
  <2>6. Head(s) \in Elements(s)
    BY <1>1, <2>3 DEF Elements
  <2> QED BY <2>4, <2>5, <2>6
<1>4. ASSUME Len(s) = 1 PROVE Elements(Tail(s)) = {}
  <2>1. DOMAIN Tail(s) = {}
    BY <1>1, <1>2, <1>4
  <2> QED BY <2>1 DEF Elements
<1>5. ASSUME Len(s) # 1 PROVE Tail(s) # <<>>
  <2>1. Len(Tail(s)) # 0
    BY <1>1, <1>2, <1>5
  <2>2. Len(<<>>) = 0
    OBVIOUS
  <2> QED BY <2>1, <2>2
<1> QED BY <1>1, <1>2, <1>3, <1>4, <1>5

LEMMA StartupInitially == StartupInit => IInv
<1> SUFFICES ASSUME StartupInit PROVE IInv
  OBVIOUS
<1>1. StartupTypeOK
  BY DownIsTyped, StartupAssumption DEF StartupInit, StartupTypeOK
<1>2. PhaseInv
  <2> SUFFICES ASSUME NEW p \in Starters PROVE Phase(p, boot[p], held[p], owner)
    BY DEF PhaseInv
  <2>1. boot[p] = Down /\ held[p] = {}
    BY DEF StartupInit
  <2> QED BY <2>1, DownIsTyped DEF Phase
<1>3. SeedsWhole
  <2>1. \A j \in DOMAIN Seeds : Seeds[j] \in Rows
    BY StartupAssumption DEF Rows
  <2> QED BY <2>1 DEF StartupInit, SeedsWhole
<1> QED BY <1>1, <1>2, <1>3 DEF IInv

-----------------------------------------------------------------------------
\* A step of one process, after which every row that was there is there.
LEMMA OneMoves ==
    ASSUME IInv, NEW p \in Starters, NEW b \in Boot, NEW h \in SUBSET Rows,
           boot' = [boot EXCEPT ![p] = b], held' = [held EXCEPT ![p] = h],
           owner' \in [Rows -> Starters \cup {Nil}],
           \A k \in Rows : owner[k] # Nil => owner'[k] = owner[k],
           conflicts' \in [Starters -> Nat], faults' \in 0..MaxFaults,
           \A k \in h : owner'[k] = Nil /\ \A q \in Starters \ {p} : k \notin held[q],
           \A q \in Starters \ {p} : \A k \in held[q] : owner'[k] = Nil,
           Phase(p, b, h, owner'), SeedsWhole'
    PROVE  IInv'
<1>0. boot \in [Starters -> Boot] /\ held \in [Starters -> SUBSET Rows]
  BY DEF IInv, StartupTypeOK
<1>1. /\ boot'[p] = b /\ held'[p] = h
      /\ \A q \in Starters \ {p} : boot'[q] = boot[q] /\ held'[q] = held[q]
  BY <1>0
<1>2. boot' \in [Starters -> Boot] /\ held' \in [Starters -> SUBSET Rows]
  BY <1>0
<1>3. ASSUME NEW q \in Starters, NEW k \in held'[q]
      PROVE  owner'[k] = Nil /\ \A r \in Starters \ {q} : k \notin held'[r]
  <2>1. CASE q = p
    BY <1>1, <1>3, <2>1
  <2>2. CASE q # p
    <3>1. k \in held[q] /\ k \notin h
      BY <1>1, <1>3, <2>2
    <3>2. \A r \in Starters \ {q} : k \notin held[r]
      BY <1>0, <3>1 DEF IInv, StartupTypeOK
    <3> QED BY <1>1, <2>2, <3>1, <3>2
  <2> QED BY <2>1, <2>2
<1>4. StartupTypeOK'
  BY <1>2, <1>3 DEF StartupTypeOK
<1>5. ASSUME NEW q \in Starters PROVE Phase(q, boot'[q], held'[q], owner')
  <2>1. CASE q = p
    BY <1>1, <2>1
  <2>2. CASE q # p
    <3>1. Phase(q, boot[q], held[q], owner)
      BY DEF IInv, PhaseInv
    <3>2. AdminRow \in Rows /\ SettingsRow \in Rows
      BY DEF Rows
    <3>3. /\ owner[AdminRow] # Nil => owner'[AdminRow] # Nil
          /\ owner[SettingsRow] # Nil => owner'[SettingsRow] # Nil
      BY <3>2
    <3>4. boot'[q] = boot[q] /\ held'[q] = held[q]
      BY <1>1, <2>2
    <3> QED BY <3>1, <3>3, <3>4 DEF Phase
  <2> QED BY <2>1, <2>2
<1>6. PhaseInv'
  BY <1>5 DEF PhaseInv
<1> QED BY <1>4, <1>6 DEF IInv

\* A step that changes no row and flushes none.
LEMMA OneLooks ==
    ASSUME IInv, NEW p \in Starters, NEW b \in Boot, Phase(p, b, {}, owner),
           boot' = [boot EXCEPT ![p] = b],
           held' = [held EXCEPT ![p] = {}] \/ (held' = held /\ held[p] = {}), owner' = owner,
           conflicts' \in [Starters -> Nat], faults' \in 0..MaxFaults
    PROVE  IInv'
<1>1. held \in [Starters -> SUBSET Rows] /\ owner \in [Rows -> Starters \cup {Nil}]
  BY DEF IInv, StartupTypeOK
<1>2. held' = [held EXCEPT ![p] = {}]
  BY <1>1
<1>3. \A q \in Starters \ {p} : \A k \in held[q] : owner'[k] = Nil
  BY <1>1 DEF IInv, StartupTypeOK
<1>4. SeedsWhole'
  BY DEF IInv, SeedsWhole
<1>5. {} \in SUBSET Rows
  OBVIOUS
<1> HIDE DEF IInv
<1> QED BY <1>1, <1>2, <1>3, <1>4, <1>5, OneMoves

LEMMA StartKeeps ==
    ASSUME IInv, NEW p \in Starters, Start(p) PROVE IInv'
<1>1. boot[p] = Down /\ UNCHANGED <<owner, held, conflicts, faults>>
  BY DEF Start
<1>2. Phase(p, boot[p], held[p], owner) /\ held[p] = {}
  BY <1>1, DownIsTyped DEF IInv, PhaseInv, Phase
<1>3. conflicts' \in [Starters -> Nat] /\ faults' \in 0..MaxFaults
  BY <1>1 DEF IInv, StartupTypeOK
<1>4. CASE p \in Servers /\ Go(p, Begin("admin"))
  <2>1. Phase(p, Begin("admin"), {}, owner)
    BY <1>4, BeginIsTyped DEF Phase
  <2> QED BY <1>1, <1>2, <1>3, <1>4, <2>1, BeginIsTyped, OneLooks DEF Go
<1>5. CASE p \in Seeders /\ Go(p, Begin("services"))
  <2>1. Phase(p, Begin("services"), {}, owner)
    BY <1>5, BeginIsTyped DEF Phase
  <2> QED BY <1>1, <1>2, <1>3, <1>5, <2>1, BeginIsTyped, OneLooks DEF Go
<1> QED BY <1>4, <1>5 DEF Start

LEMMA AuthorKeeps ==
    ASSUME IInv, NEW p \in Starters, NEW slug \in Slugs, Author(p, slug) PROVE IInv'
<1> DEFINE b == [job |-> "create", pc |-> "insert", todo |-> <<slug>>]
<1>1. boot[p] = Down /\ p \in Authors /\ Go(p, b) /\ UNCHANGED <<owner, held, conflicts, faults>>
  BY DEF Author
<1>2. held[p] = {}
  BY <1>1, DownIsTyped DEF IInv, PhaseInv, Phase
<1>3. conflicts' \in [Starters -> Nat] /\ faults' \in 0..MaxFaults
  BY <1>1 DEF IInv, StartupTypeOK
<1>4. <<slug>> \in Seq(Rows) /\ <<slug>> # <<>>
  BY DEF Rows
<1>5. b \in Boot /\ b.job = "create" /\ b.pc = "insert" /\ b.todo # <<>>
  BY <1>4 DEF Boot
<1> HIDE DEF b
<1>6. Phase(p, b, {}, owner)
  BY <1>1, <1>5 DEF Phase
<1> QED BY <1>1, <1>2, <1>3, <1>5, <1>6, OneLooks DEF Go

LEMMA LoseKeeps ==
    ASSUME IInv, NEW p \in Starters, Lose(p) PROVE IInv'
<1>1. UNCHANGED <<owner, conflicts>> /\ Go(p, Down) /\ held' = [held EXCEPT ![p] = {}]
      /\ faults < MaxFaults /\ faults' = faults + 1
  BY DEF Lose
<1>2. conflicts' \in [Starters -> Nat] /\ faults' \in 0..MaxFaults
  BY <1>1, StartupAssumption DEF IInv, StartupTypeOK
<1>3. Phase(p, Down, {}, owner)
  BY DownIsTyped DEF Phase
<1> QED BY <1>1, <1>2, <1>3, DownIsTyped, OneLooks DEF Go

\* What a process goes on to once its rows are there.
LEMMA AfterIsReady ==
    ASSUME IInv, NEW p \in Starters, NEW own,
           boot[p].job \in {"admin", "services", "settings", "create"},
           boot[p].job = "admin" => own[AdminRow] # Nil,
           boot[p].job = "settings" => own[SettingsRow] # Nil,
           boot[p].job = "settings" /\ p \in Servers => own[AdminRow] # Nil
    PROVE  After(p) \in Boot /\ Phase(p, After(p), {}, own)
<1>0. Phase(p, boot[p], held[p], owner)
  BY DEF IInv, PhaseInv
<1>1. CASE boot[p].job \in {"admin", "services"}
  <2>1. After(p) = Begin("settings")
    BY <1>1 DEF After
  <2>2. (boot[p].job = "admin" => p \in Servers) /\ (boot[p].job = "services" => p \in Seeders)
    BY <1>0 DEF Phase
  <2>3. p \in Servers => own[AdminRow] # Nil
    BY <1>1, <2>2, StartupAssumption
  <2> QED BY <1>1, <2>1, <2>2, <2>3, BeginIsTyped DEF Phase
<1>2. CASE boot[p].job \in {"settings", "create"} /\ p \in Servers
  <2>1. boot[p].job = "settings"
    BY <1>0, <1>2, StartupAssumption DEF Phase
  <2>2. After(p) = Begin("on")
    BY <1>2, <2>1 DEF After
  <2> QED BY <1>2, <2>1, <2>2, BeginIsTyped DEF Phase
<1>3. CASE boot[p].job \in {"settings", "create"} /\ p \notin Servers
  <2>1. After(p) = Down
    BY <1>3 DEF After
  <2> QED BY <2>1, DownIsTyped DEF Phase
<1> QED BY <1>1, <1>2, <1>3

LEMMA LookKeeps ==
    ASSUME IInv, NEW p \in Starters, Look(p) PROVE IInv'
<1> DEFINE job == boot[p].job
<1>1. job \in {"admin", "services", "settings"} /\ boot[p].pc = "look"
      /\ UNCHANGED <<owner, held, conflicts, faults>>
  BY DEF Look
<1>2. Phase(p, boot[p], held[p], owner)
  BY DEF IInv, PhaseInv
<1>3. held[p] = {} /\ boot[p] \in Boot
  BY <1>1, <1>2 DEF Phase, IInv, StartupTypeOK
<1>4. conflicts' \in [Starters -> Nat] /\ faults' \in 0..MaxFaults
  BY <1>1 DEF IInv, StartupTypeOK
<1>5. CASE Present(job)
  <2>1. (job = "admin" => owner[AdminRow] # Nil) /\ (job = "settings" => owner[SettingsRow] # Nil)
    <3>1. ASSUME job = "admin" PROVE owner[AdminRow] # Nil
      BY <1>5, <3>1 DEF Present
    <3>2. ASSUME job = "settings" PROVE owner[SettingsRow] # Nil
      BY <1>5, <3>2 DEF Present
    <3> QED BY <3>1, <3>2
  <2>2. job = "settings" /\ p \in Servers => owner[AdminRow] # Nil
    BY <1>2 DEF Phase
  <2>3. After(p) \in Boot /\ Phase(p, After(p), {}, owner)
    BY <1>1, <2>1, <2>2, AfterIsReady
  <2>4. Go(p, After(p))
    BY <1>5 DEF Look
  <2> QED BY <1>1, <1>3, <1>4, <2>3, <2>4, OneLooks DEF Go
<1>6. CASE ~Present(job)
  <2> DEFINE b == [boot[p] EXCEPT !.pc = "insert", !.todo = ToInsert(p, job)]
  <2>1. ToInsert(p, job) \in Seq(Rows) /\ ToInsert(p, job) # <<>>
    <3>1. CASE job = "admin"
      BY <3>1 DEF ToInsert, Rows
    <3>2. CASE job = "settings"
      BY <3>2 DEF ToInsert, Rows
    <3>3. CASE job = "services"
      BY <3>3, StartupAssumption DEF ToInsert, Rows
    <3> QED BY <1>1, <3>1, <3>2, <3>3
  <2>2. b \in Boot /\ b.job = job /\ b.pc = "insert" /\ b.todo = ToInsert(p, job)
    BY <1>3, <2>1 DEF Boot
  <2>3. Go(p, b)
    BY <1>6 DEF Look
  <2> HIDE DEF b
  <2>4. Phase(p, b, {}, owner)
    <3>1. job = "admin" => ToInsert(p, job) = <<AdminRow>>
      BY DEF ToInsert
    <3>2. job = "settings" => ToInsert(p, job) = <<SettingsRow>>
      BY DEF ToInsert
    <3>3. job = "services" => \A j \in DOMAIN Seeds : Seeds[j] \in {} \cup Elements(b.todo)
      BY <2>2 DEF ToInsert, Elements
    <3> HIDE DEF job
    <3>4. job \in {"admin", "services", "settings"}
      BY <1>1 DEF job
    <3> QED BY <1>2, <2>1, <2>2, <3>1, <3>2, <3>3, <3>4 DEF Phase, job
  <2> QED BY <1>1, <1>3, <1>4, <2>2, <2>3, <2>4, OneLooks DEF Go
<1> QED BY <1>5, <1>6

LEMMA InsertKeeps ==
    ASSUME IInv, NEW p \in Starters, Insert(p) PROVE IInv'
<1> DEFINE b == boot[p]
           k == Head(b.todo)
<1>1. b.pc = "insert" /\ UNCHANGED <<owner, faults>> /\ \A q \in Starters \ {p} : k \notin held[q]
  BY DEF Insert
<1>2. Phase(p, b, held[p], owner)
  BY DEF IInv, PhaseInv
<1>3. /\ b \in Boot /\ held[p] \in SUBSET Rows /\ boot \in [Starters -> Boot]
      /\ owner \in [Rows -> Starters \cup {Nil}] /\ faults' \in 0..MaxFaults
      /\ conflicts \in [Starters -> Nat] /\ held \in [Starters -> SUBSET Rows]
  BY <1>1 DEF IInv, StartupTypeOK
<1>4. b.todo \in Seq(Rows) /\ b.todo # <<>>
  BY <1>1, <1>2, <1>3 DEF Phase, Boot
<1>5. k \in Rows
  BY <1>4, FirstOrRest
<1>6. CASE Taken(k)
  <2>1. Go(p, Down) /\ conflicts' = [conflicts EXCEPT ![p] = @ + 1]
        /\ held' = [held EXCEPT ![p] = IF boot'[p] = Down THEN {} ELSE held[p]]
    BY <1>6 DEF Insert, OnConflict
  <2>2. boot'[p] = Down
    BY <1>3, <2>1 DEF Go
  <2>3. conflicts' \in [Starters -> Nat]
    BY <1>3, <2>1
  <2>4. Phase(p, Down, {}, owner)
    BY DownIsTyped DEF Phase
  <2>5. held' = [held EXCEPT ![p] = {}]
    BY <2>1, <2>2
  <2> QED BY <1>1, <1>3, <2>1, <2>3, <2>4, <2>5, DownIsTyped, OneLooks DEF Go
<1>7. CASE ~Taken(k)
  <2> DEFINE h == held[p] \cup {k}
             c == WithoutFirst(b)
  <2>1. Go(p, c) /\ held' = [held EXCEPT ![p] = h] /\ conflicts' = conflicts
    BY <1>7 DEF Insert
  <2>2. c \in Boot /\ c.job = b.job /\ c.todo = Tail(b.todo)
        /\ c.pc = IF Len(b.todo) = 1 THEN "commit" ELSE "insert"
    <3>1. Tail(b.todo) \in Seq(Rows)
      BY <1>4
    <3> QED BY <1>3, <3>1 DEF WithoutFirst, Boot
  <2>3. h \in SUBSET Rows
    BY <1>3, <1>5
  <2>4. owner[k] = Nil
    BY <1>7 DEF Taken
  <2>5. \A r \in h : owner'[r] = Nil /\ \A q \in Starters \ {p} : r \notin held[q]
    <3>1. \A r \in held[p] : owner[r] = Nil /\ \A q \in Starters \ {p} : r \notin held[q]
      BY <1>3 DEF IInv, StartupTypeOK
    <3> QED BY <1>1, <2>4, <3>1
  <2>6. \A q \in Starters \ {p} : \A r \in held[q] : owner'[r] = Nil
    BY <1>1, <1>3 DEF IInv, StartupTypeOK
  <2>7. SeedsWhole'
    BY <1>1 DEF IInv, SeedsWhole
  <2>8. Phase(p, c, h, owner')
    <3> HIDE DEF b, c, h, k
    <3>1. b.job \in {"admin", "settings", "services", "create"}
      BY <1>1, <1>2, <1>3 DEF Phase, Boot
    <3>2. c.pc \in {"insert", "commit"} /\ (c.pc = "insert" => c.todo # <<>>)
      BY <1>4, <2>2, FirstOrRest
    <3>3. CASE b.job \in {"admin", "settings"}
      <4> DEFINE row == IF b.job = "admin" THEN AdminRow ELSE SettingsRow
      <4>1. b.todo = <<row>> /\ held[p] \subseteq {row}
        BY <1>1, <1>2, <3>3 DEF Phase
      <4>2. k = row /\ Len(b.todo) = 1
        BY <4>1 DEF k
      <4>3. c.pc = "commit" /\ h \subseteq {row} /\ row \in h
        BY <2>2, <4>1, <4>2 DEF h
      <4> QED BY <1>1, <1>2, <2>2, <3>3, <4>3 DEF Phase
    <3>4. CASE b.job = "services"
      <4>1. \A j \in DOMAIN Seeds : Seeds[j] \in held[p] \cup Elements(b.todo)
        BY <1>1, <1>2, <3>4 DEF Phase
      <4>2. Elements(b.todo) = {k} \cup Elements(c.todo)
            /\ (Len(b.todo) = 1 => Elements(c.todo) = {})
        BY <1>4, <2>2, FirstOrRest DEF k
      <4>3. \A j \in DOMAIN Seeds : Seeds[j] \in h \cup Elements(c.todo)
        BY <4>1, <4>2 DEF h
      <4>4. c.pc = "commit" => \A j \in DOMAIN Seeds : Seeds[j] \in h
        BY <2>2, <4>2, <4>3
      <4> QED BY <1>2, <2>2, <3>2, <3>4, <4>3, <4>4 DEF Phase
    <3>5. CASE b.job = "create"
      BY <1>2, <2>2, <3>2, <3>5 DEF Phase
    <3> QED BY <3>1, <3>3, <3>4, <3>5
  <2>9. boot' = [boot EXCEPT ![p] = c]
    BY <2>1 DEF Go
  <2> HIDE DEF c, h, k, b, IInv
  <2> QED BY <1>1, <1>3, <2>1, <2>2, <2>3, <2>5, <2>6, <2>7, <2>8, <2>9, OneMoves
<1> QED BY <1>6, <1>7

LEMMA CommitKeeps ==
    ASSUME IInv, NEW p \in Starters, Commit(p) PROVE IInv'
<1> DEFINE b == boot[p]
<1>1. /\ b.pc = "commit" /\ UNCHANGED <<conflicts, faults>> /\ Go(p, After(p))
      /\ held' = [held EXCEPT ![p] = {}]
      /\ owner' = [k \in Rows |-> IF k \in held[p] THEN p ELSE owner[k]]
  BY DEF Commit, Committed
<1>2. Phase(p, b, held[p], owner)
  BY DEF IInv, PhaseInv
<1>3. /\ b \in Boot /\ held[p] \in SUBSET Rows /\ owner \in [Rows -> Starters \cup {Nil}]
      /\ faults' \in 0..MaxFaults /\ conflicts' \in [Starters -> Nat]
      /\ held \in [Starters -> SUBSET Rows]
  BY <1>1 DEF IInv, StartupTypeOK
<1>4. \A k \in held[p] : owner[k] = Nil /\ \A q \in Starters \ {p} : k \notin held[q]
  BY <1>3 DEF IInv, StartupTypeOK
<1>5. owner' \in [Rows -> Starters \cup {Nil}] /\ p # Nil
  BY <1>1, <1>3, StartupAssumption
<1>6. \A k \in Rows : (owner[k] # Nil => owner'[k] = owner[k])
                     /\ (k \in held[p] => owner'[k] = p)
                     /\ (k \notin held[p] => owner'[k] = owner[k])
  BY <1>1, <1>3, <1>4
<1>7. ASSUME NEW q \in Starters \ {p}, NEW k \in held[q] PROVE owner'[k] = Nil
  <2>1. k \in Rows /\ k \notin held[p] /\ owner[k] = Nil
    BY <1>3, <1>4 DEF IInv, StartupTypeOK
  <2> QED BY <1>6, <2>1
<1>8. b.job \in {"admin", "settings", "services", "create"}
  BY <1>1, <1>2, <1>3 DEF Phase, Boot
<1>9. After(p) \in Boot /\ Phase(p, After(p), {}, owner')
  <2>1. AdminRow \in Rows /\ SettingsRow \in Rows
    BY DEF Rows
  <2>2. b.job = "admin" => owner'[AdminRow] # Nil
    BY <1>1, <1>2, <1>5, <1>6, <2>1 DEF Phase
  <2>3. b.job = "settings" => owner'[SettingsRow] # Nil
    BY <1>1, <1>2, <1>5, <1>6, <2>1 DEF Phase
  <2>4. b.job = "settings" /\ p \in Servers => owner'[AdminRow] # Nil
    BY <1>2, <1>6, <2>1 DEF Phase
  <2> QED BY <1>8, <2>2, <2>3, <2>4, AfterIsReady
<1>10. SeedsWhole'
  <2> SUFFICES ASSUME NEW i \in DOMAIN Seeds, NEW j \in DOMAIN Seeds, owner'[Seeds[i]] \in Seeders
               PROVE  owner'[Seeds[j]] = owner'[Seeds[i]]
    BY DEF SeedsWhole
  <2>1. Seeds[i] \in Slugs /\ Seeds[j] \in Slugs /\ Seeds[i] \in Rows /\ Seeds[j] \in Rows
    BY StartupAssumption DEF Rows
  <2>2. CASE b.job = "services"
    <3>1. Seeds[i] \in held[p] /\ Seeds[j] \in held[p]
      BY <1>1, <1>2, <2>2 DEF Phase
    <3> QED BY <1>6, <2>1, <3>1
  <2>3. CASE b.job # "services"
    <3>1. Seeds[i] \notin held[p]
      <4>1. CASE b.job = "create"
        <5>1. p \notin Seeders
          BY <1>2, <4>1, StartupAssumption DEF Phase
        <5> QED BY <1>6, <2>1, <5>1
      <4>2. CASE b.job \in {"admin", "settings"}
        <5>1. held[p] \subseteq {AdminRow, SettingsRow}
          BY <1>2, <4>2 DEF Phase
        <5> QED BY <2>1, <5>1, StartupAssumption
      <4> QED BY <1>8, <2>3, <4>1, <4>2
    <3>2. owner[Seeds[i]] \in Seeders
      BY <1>6, <2>1, <3>1
    <3>3. owner[Seeds[j]] = owner[Seeds[i]]
      BY <3>2 DEF IInv, SeedsWhole
    <3>4. owner[Seeds[j]] # Nil
      BY <3>2, <3>3, StartupAssumption DEF Starters
    <3> QED BY <1>6, <2>1, <3>1, <3>3, <3>4
  <2> QED BY <2>2, <2>3
<1> DEFINE a == After(p)
           h == {}
<1>11. a \in Boot /\ h \in SUBSET Rows /\ Phase(p, a, h, owner')
  BY <1>9
<1>12. boot' = [boot EXCEPT ![p] = a] /\ held' = [held EXCEPT ![p] = h]
  BY <1>1 DEF Go
<1>13. \A q \in Starters \ {p} : \A k \in held[q] : owner'[k] = Nil
  BY <1>7
<1>14. \A k \in h : owner'[k] = Nil /\ \A q \in Starters \ {p} : k \notin held[q]
  OBVIOUS
<1>15. /\ owner' \in [Rows -> Starters \cup {Nil}]
       /\ \A k \in Rows : owner[k] # Nil => owner'[k] = owner[k]
  BY <1>5, <1>6
<1>16. conflicts' \in [Starters -> Nat] /\ faults' \in 0..MaxFaults
  BY <1>3
<1> HIDE DEF a, h, b
<1> QED BY <1>10, <1>11, <1>12, <1>13, <1>14, <1>15, <1>16, OneMoves

LEMMA StartupStep == IInv /\ [StartupNext]_startupVars => IInv'
<1> SUFFICES ASSUME IInv, [StartupNext]_startupVars PROVE IInv'
  OBVIOUS
<1>1. CASE UNCHANGED startupVars
  BY <1>1 DEF startupVars, IInv, StartupTypeOK, PhaseInv, SeedsWhole
<1> QED
  BY <1>1, StartKeeps, AuthorKeeps, LookKeeps, InsertKeeps, CommitKeeps, LoseKeeps
  DEF StartupNext, ContinueBoot

LEMMA StartupAlways == StartupSpec => []IInv
BY StartupInitially, StartupStep, PTL DEF StartupSpec

\* Every reachable state is well typed, and a row is flushed by one transaction at a time.
THEOREM StartupTypeCorrect == StartupSpec => []StartupTypeOK
<1>1. IInv => StartupTypeOK
  BY DEF IInv
<1> QED BY <1>1, StartupAlways, PTL

\* A process that serves finds an administrator and the platform's settings.
THEOREM ServersAreReady == StartupSpec => []ReadyWhenServing
<1>1. IInv => ReadyWhenServing
  <2> SUFFICES ASSUME IInv, NEW p \in Servers, Serving(p)
               PROVE  owner[AdminRow] # Nil /\ owner[SettingsRow] # Nil
    BY DEF ReadyWhenServing
  <2>1. Phase(p, boot[p], held[p], owner)
    BY DEF IInv, PhaseInv, Starters
  <2> QED BY <2>1 DEF Phase, Serving
<1> QED BY <1>1, StartupAlways, PTL

\* The catalogue of the script is there as a whole or not at all.
THEOREM CatalogueIsWhole == StartupSpec => []SeedsWhole
<1>1. IInv => SeedsWhole
  BY DEF IInv
<1> QED BY <1>1, StartupAlways, PTL
-----------------------------------------------------------------------------
(***************************************************************************)
(* How often a process has lost a race: not before the rows it first looks *)
(* for are there, and once more only when those it looks for next are.     *)
(***************************************************************************)
There(own, job) ==
    \E k \in Rows : /\ own[k] # Nil
                    /\ job = "admin" => k = AdminRow
                    /\ job = "services" => k \in Slugs
                    /\ job = "settings" => k = SettingsRow

First(p) == IF p \in Servers THEN "admin" ELSE "services"

Fails(p, b, n, own) ==
    /\ n <= 2
    /\ ~There(own, First(p)) => n = 0
    /\ ~There(own, "settings") => n <= 1
    /\ b.pc # "look" /\ b.job \in {"admin", "services"} => n = 0
    /\ b.pc # "look" /\ b.job = "settings" => n <= 1
    /\ b.pc = "insert" /\ b.job = "services" => b.todo \in Seq(Slugs)
    /\ b.job = "settings" => There(own, First(p))

FailInv == \A p \in Servers \cup Seeders : Fails(p, boot[p], conflicts[p], owner)

LEMMA FailInit == StartupInit => FailInv
<1> SUFFICES ASSUME StartupInit, NEW p \in Servers \cup Seeders
             PROVE  Fails(p, boot[p], conflicts[p], owner)
  BY DEF FailInv
<1>1. boot[p] = Down /\ conflicts[p] = 0
  BY DEF StartupInit, Starters
<1> QED BY <1>1, DownIsTyped DEF Fails

\* Rows that are there stay there.
LEMMA RowsStay ==
    ASSUME IInv, [StartupNext]_startupVars, NEW k \in Rows, owner[k] # Nil
    PROVE  owner'[k] # Nil
<1>1. CASE \E p \in Starters : Commit(p)
  <2> PICK p \in Starters : Commit(p)
    BY <1>1
  <2>1. owner' = [r \in Rows |-> IF r \in held[p] THEN p ELSE owner[r]]
    BY DEF Commit, Committed
  <2> QED BY <2>1, StartupAssumption
<1>2. CASE owner' = owner
  BY <1>2
<1> QED
  BY <1>1, <1>2
  DEF StartupNext, ContinueBoot, startupVars, Start, Author, Look, Insert, Lose

LEMMA ThereStays ==
    ASSUME IInv, [StartupNext]_startupVars, NEW job, There(owner, job)
    PROVE  There(owner', job)
<1> PICK k \in Rows : /\ owner[k] # Nil
                      /\ job = "admin" => k = AdminRow
                      /\ job = "services" => k \in Slugs
                      /\ job = "settings" => k = SettingsRow
  BY DEF There
<1>1. owner'[k] # Nil
  BY RowsStay
<1> QED BY <1>1 DEF There

\* A process that does not move, or goes back to look, keeps its count.
LEMMA FailsKept ==
    ASSUME IInv, [StartupNext]_startupVars, NEW p \in Servers \cup Seeders,
           NEW b, NEW n, Fails(p, b, n, owner), NEW c,
           c = b \/ (c.pc = "look" /\ (c.job = "settings" => There(owner', First(p))))
    PROVE  Fails(p, c, n, owner')
<1>1. /\ ~There(owner', First(p)) => ~There(owner, First(p))
      /\ ~There(owner', "settings") => ~There(owner, "settings")
      /\ There(owner, First(p)) => There(owner', First(p))
  BY ThereStays
<1> QED BY <1>1 DEF Fails

LEMMA FailStep == IInv /\ FailInv /\ [StartupNext]_startupVars => FailInv'
<1> SUFFICES ASSUME IInv, FailInv, [StartupNext]_startupVars, NEW p \in Servers \cup Seeders
             PROVE  Fails(p, boot'[p], conflicts'[p], owner')
  BY DEF FailInv
<1>1. /\ Fails(p, boot[p], conflicts[p], owner) /\ p \in Starters
      /\ Phase(p, boot[p], held[p], owner)
  BY DEF FailInv, IInv, PhaseInv, Starters
<1>2. boot \in [Starters -> Boot] /\ conflicts \in [Starters -> Nat] /\ conflicts[p] \in Nat
  BY <1>1 DEF IInv, StartupTypeOK
<1>3. boot[p] \in Boot
  BY <1>1, <1>2
<1> HIDE DEF IInv, FailInv
<1>4. CASE UNCHANGED startupVars
  <2>1. boot'[p] = boot[p] /\ conflicts'[p] = conflicts[p]
    BY <1>4 DEF startupVars
  <2> QED BY <1>1, <2>1, FailsKept
<1>5. ASSUME NEW q \in Starters, q # p,
             \/ Start(q) \/ Look(q) \/ Insert(q) \/ Commit(q) \/ Lose(q)
             \/ \E slug \in Slugs : Author(q, slug)
      PROVE  Fails(p, boot'[p], conflicts'[p], owner')
  <2>1. boot'[p] = boot[p] /\ conflicts'[p] = conflicts[p]
    BY <1>1, <1>2, <1>5 DEF Start, Look, Insert, Commit, Lose, Author, Go
  <2> QED BY <1>1, <2>1, FailsKept
<1>6. CASE Start(p) \/ Lose(p)
  <2>1. boot'[p].pc = "look" /\ boot'[p].job # "settings" /\ conflicts'[p] = conflicts[p]
    BY <1>1, <1>2, <1>6, BeginIsTyped, DownIsTyped DEF Start, Lose, Go
  <2> QED BY <1>1, <2>1, FailsKept
<1>7. ~(\E slug \in Slugs : Author(p, slug))
  BY StartupAssumption DEF Author
<1>8. CASE Look(p)
  <2> DEFINE job == boot[p].job
  <2>1. /\ job \in {"admin", "services", "settings"} /\ boot[p].pc = "look"
        /\ conflicts' = conflicts /\ owner' = owner
    BY <1>8 DEF Look
  <2>2. CASE Present(job)
    <3>1. boot'[p] = After(p)
      BY <1>1, <1>2, <1>8, <2>2 DEF Look, Go
    <3>2. After(p).pc = "look" /\ (After(p).job = "settings" => job \in {"admin", "services"})
      BY BeginIsTyped, DownIsTyped DEF After
    <3>3. There(owner, job)
      BY <2>1, <2>2 DEF Present, There
    <3>4. job \in {"admin", "services"} => job = First(p)
      BY <1>1, StartupAssumption DEF Phase, First
    <3> HIDE DEF job
    <3> QED BY <1>1, <2>1, <3>1, <3>2, <3>3, <3>4, FailsKept
  <2>3. CASE ~Present(job)
    <3> DEFINE c == [boot[p] EXCEPT !.pc = "insert", !.todo = ToInsert(p, job)]
    <3>1. boot'[p] = c
      BY <1>1, <1>2, <1>8, <2>3 DEF Look, Go
    <3>2. c.pc = "insert" /\ c.job = job /\ c.todo = ToInsert(p, job)
      BY <1>3 DEF Boot
    <3>3. ~There(owner, job)
      BY <2>1, <2>3 DEF Present, There
    <3>4. job \in {"admin", "services"} => job = First(p)
      BY <1>1, StartupAssumption DEF Phase, First
    <3>5. job = "services" => c.todo \in Seq(Slugs)
      BY <3>2, StartupAssumption DEF ToInsert
    <3> HIDE DEF c
    <3> QED BY <1>1, <2>1, <3>1, <3>2, <3>3, <3>4, <3>5 DEF Fails
  <2> QED BY <2>2, <2>3
<1>9. CASE Insert(p)
  <2> DEFINE k == Head(boot[p].todo)
             job == boot[p].job
  <2>1. boot[p].pc = "insert" /\ owner' = owner
    BY <1>9 DEF Insert
  <2>2. boot[p].todo # <<>> /\ boot[p].todo \in Seq(Rows)
    BY <1>1, <1>3, <2>1 DEF Phase, Boot
  <2>3. job \in {"admin", "services", "settings"}
    BY <1>1, <1>3, <2>1, StartupAssumption DEF Phase, Boot
  <2>4. CASE Taken(k)
    <3>1. boot'[p] = Down /\ conflicts'[p] = conflicts[p] + 1
      BY <1>1, <1>2, <1>9, <2>4 DEF Insert, OnConflict, Go
    <3>2. owner[k] # Nil /\ k \in Rows
      BY <2>2, <2>4, FirstOrRest DEF Taken
    <3>3. /\ job = "admin" => k = AdminRow
          /\ job = "settings" => k = SettingsRow
          /\ job = "services" => k \in Slugs
      <4>1. job = "services" => boot[p].todo \in Seq(Slugs)
        BY <1>1, <2>1 DEF Fails
      <4>2. job = "services" => k \in Slugs
        BY <2>2, <4>1
      <4>3. /\ job = "admin" => boot[p].todo = <<AdminRow>>
            /\ job = "settings" => boot[p].todo = <<SettingsRow>>
        BY <1>1, <2>1 DEF Phase
      <4> QED BY <4>2, <4>3
    <3>4. There(owner, job)
      BY <3>2, <3>3 DEF There
    <3>5. job \in {"admin", "services"} => job = First(p)
      BY <1>1, StartupAssumption DEF Phase, First
    <3> HIDE DEF k, job
    <3>7. job \in {"admin", "services"} => conflicts[p] = 0
      BY <1>1, <2>1 DEF Fails, job
    <3>8. job = "settings" => conflicts[p] <= 1
      BY <1>1, <2>1 DEF Fails, job
    <3>9. job = "settings" => There(owner, First(p))
      BY <1>1 DEF Fails, job
    <3> QED BY <1>2, <2>1, <2>3, <3>1, <3>4, <3>5, <3>7, <3>8, <3>9, DownIsTyped DEF Fails
  <2>5. CASE ~Taken(k)
    <3> DEFINE c == WithoutFirst(boot[p])
    <3>1. boot'[p] = c /\ conflicts'[p] = conflicts[p]
      BY <1>1, <1>2, <1>9, <2>5 DEF Insert, Go
    <3>2. c.job = job /\ c.todo = Tail(boot[p].todo) /\ c.pc \in {"insert", "commit"}
      BY <1>3 DEF WithoutFirst, Boot
    <3>3. job = "services" => c.todo \in Seq(Slugs)
      <4>1. job = "services" => boot[p].todo \in Seq(Slugs)
        BY <1>1, <2>1 DEF Fails
      <4> QED BY <2>2, <3>2, <4>1
    <3> HIDE DEF c
    <3> QED BY <1>1, <2>1, <3>1, <3>2, <3>3 DEF Fails
  <2> QED BY <2>4, <2>5
<1>10. CASE Commit(p)
  <2>1. boot'[p] = After(p) /\ conflicts'[p] = conflicts[p]
    BY <1>1, <1>2, <1>10 DEF Commit, Go
  <2> DEFINE job == boot[p].job
  <2>2. After(p).pc = "look" /\ (After(p).job = "settings" => job \in {"admin", "services"})
    BY BeginIsTyped, DownIsTyped DEF After
  <2>3. boot[p].pc = "commit" /\ owner' = [k \in Rows |-> IF k \in held[p] THEN p ELSE owner[k]]
    BY <1>10 DEF Commit, Committed
  <2>4. p # Nil
    BY <1>1, StartupAssumption
  <2>5. ASSUME job = "admin" PROVE There(owner', "admin")
    <3>1. AdminRow \in held[p] /\ AdminRow \in Rows
      BY <1>1, <2>3, <2>5 DEF Phase, Rows
    <3>2. owner'[AdminRow] # Nil
      BY <2>3, <2>4, <3>1
    <3> QED BY <3>1, <3>2 DEF There
  <2>6. ASSUME job = "services" PROVE There(owner', "services")
    <3>1. 1 \in DOMAIN Seeds /\ Seeds[1] \in Slugs
      BY StartupAssumption
    <3>2. Seeds[1] \in held[p] /\ Seeds[1] \in Rows
      BY <1>1, <2>3, <2>6, <3>1 DEF Phase, Rows
    <3>3. owner'[Seeds[1]] # Nil
      BY <2>3, <2>4, <3>2
    <3> QED BY <3>1, <3>2, <3>3 DEF There
  <2>7. job \in {"admin", "services"} => job = First(p)
    BY <1>1, StartupAssumption DEF Phase, First
  <2> HIDE DEF job
  <2> QED BY <1>1, <2>1, <2>2, <2>5, <2>6, <2>7, FailsKept
<1> QED BY <1>4, <1>5, <1>6, <1>7, <1>8, <1>9, <1>10 DEF StartupNext, ContinueBoot

\* A start loses a race twice at most, once for each look it takes.
THEOREM StartsFailTwice == StartupSpec => []FailsTwiceAtMost
<1>1. FailInv => FailsTwiceAtMost
  BY DEF FailInv, Fails, FailsTwiceAtMost
<1> QED BY <1>1, FailInit, FailStep, StartupAlways, PTL DEF StartupSpec

\* Whatever starts together, what is there when somebody serves is whole.
THEOREM StartsAreWhole == StartupSpec => []StartsWhole
BY StartupTypeCorrect, ServersAreReady, CatalogueIsWhole, StartsFailTwice, PTL DEF StartsWhole

-----------------------------------------------------------------------------
(* Maintenance *)

(***************************************************************************)
(* A request that stores or keeps a value has read one, and a request that *)
(* is not looking holds none.                                              *)
(***************************************************************************)
LookFits(l) ==
    /\ l.pc \in {"store", "keep"} => l.value \in BOOLEAN
    /\ l.pc = "idle" => l.value = Nothing

FlagInv == MaintenanceTypeOK /\ \A s \in Lookups : LookFits(look[s])

(***************************************************************************)
(* What is out of date, at the place where it is kept.                     *)
(***************************************************************************)
Old(value) == value \notin {Nothing, flag}

StaleInv ==
    /\ Old(redis.value) => since + redis.life <= Slowest + RedisLife
    /\ \A p \in Processes : Old(memory[p].value) => since + memory[p].life <= Lag
    /\ \A s \in Lookups : Old(look[s].value) => since <= look[s].age

-----------------------------------------------------------------------------
(* Helpers *)

LEMMA LagIsNat == Lag \in Nat /\ Lag >= MemoryLife /\ Lag > Slowest + RedisLife
BY MaintenanceAssumption DEF Lag

LEMMA KeepCached ==
    ASSUME NEW value \in BOOLEAN, NEW top \in Nat, NEW life \in Int, life <= top
    PROVE  /\ Keep(value, life) \in Cached(top)
           /\ Keep(value, life) = Empty \/ (Keep(value, life).value = value /\ Keep(value, life).life = life)
BY DEF Keep, Cached

LEMMA CachedFields ==
    ASSUME NEW top \in Nat, NEW c \in Cached(top)
    PROVE  /\ c.life \in 0..top
           /\ c = Empty \/ (c.value \in BOOLEAN /\ c.life >= 1)
BY DEF Cached, Empty

LEMMA AgingCached ==
    ASSUME NEW top \in Nat, NEW c \in Cached(top)
    PROVE  /\ Aging(c) \in Cached(top)
           /\ Aging(c) = Empty \/ (Aging(c).value = c.value /\ Aging(c).life = c.life - 1)
<1>1. CASE c = Empty
  BY <1>1 DEF Aging, Cached, Empty
<1>2. CASE c \in [value : BOOLEAN, life : 1..top]
  BY <1>2 DEF Aging, Cached
<1> QED BY <1>1, <1>2 DEF Cached

LEMMA EmptyIsNotOld == ~Old(Empty.value) /\ ~Old(NoLookup.value)
BY DEF Old, Empty, NoLookup

-----------------------------------------------------------------------------
(* Types *)

LEMMA TypeInit == MaintenanceInit => FlagInv
BY MaintenanceAssumption, LagIsNat
DEF MaintenanceInit, FlagInv, MaintenanceTypeOK, LookFits, NoLookup, NoChange, Lookup, Change,
    Cached, Empty, Flags

LEMMA TypeStep == FlagInv /\ [MaintenanceNext]_flagVars => FlagInv'
<1> SUFFICES ASSUME FlagInv, [MaintenanceNext]_flagVars PROVE FlagInv'
  OBVIOUS
<1> USE MaintenanceAssumption DEF FlagInv, MaintenanceTypeOK
<1>0. Stored \in BOOLEAN /\ Empty \in Cached(RedisLife) /\ Empty \in Cached(MemoryLife)
      /\ NoLookup \in Lookup /\ NoChange \in Change /\ LookFits(NoLookup)
  <2>1. Stored \in BOOLEAN /\ Empty \in Cached(RedisLife) /\ Empty \in Cached(MemoryLife)
    BY DEF Stored, Flags, Cached
  <2>2. NoLookup \in Lookup /\ LookFits(NoLookup)
    BY DEF NoLookup, Lookup, LookFits, Flags
  <2>3. NoChange \in Change
    BY DEF NoChange, Change, Flags
  <2> QED BY <2>1, <2>2, <2>3
<1>1. ASSUME NEW s \in Lookups, NEW p \in Processes, Ask(s, p) PROVE FlagInv'
  <2> DEFINE l == [NoLookup EXCEPT !.pc = "redis", !.in = p]
  <2>1. l \in Lookup /\ LookFits(l)
    BY <1>0 DEF Lookup, LookFits
  <2> HIDE DEF l
  <2> QED BY <1>1, <2>1 DEF Ask, l
<1>2. ASSUME NEW s \in Lookups, AskRedis(s) PROVE FlagInv'
  <2>1. CASE redis = Empty
    <3> DEFINE l == [look[s] EXCEPT !.pc = "row"]
    <3>1. l \in Lookup /\ LookFits(l)
      BY <1>2 DEF AskRedis, Lookup, LookFits
    <3>2. look' = [look EXCEPT ![s] = l] /\ UNCHANGED <<memory, flag, redis, admin, changes, since>>
      BY <1>2, <2>1 DEF AskRedis
    <3> HIDE DEF l
    <3> QED BY <3>1, <3>2
  <2>2. CASE redis # Empty
    <3>1. redis.value \in BOOLEAN
      BY <2>2, CachedFields
    <3>2. MemoryLeft(s) \in Int /\ MemoryLeft(s) <= MemoryLife
      BY DEF MemoryLeft, Lookup
    <3>3. Keep(redis.value, MemoryLeft(s)) \in Cached(MemoryLife)
      BY <3>1, <3>2, KeepCached
    <3> QED BY <1>0, <1>2, <2>2, <3>3 DEF AskRedis
  <2> QED BY <2>1, <2>2
<1>3. ASSUME NEW s \in Lookups, AskRow(s) PROVE FlagInv'
  <2> DEFINE l == [look[s] EXCEPT !.pc = "store", !.value = Stored]
  <2>1. l \in Lookup /\ LookFits(l)
    BY <1>0 DEF Lookup, LookFits, Flags
  <2>2. look' = [look EXCEPT ![s] = l] /\ flag' = Stored /\ UNCHANGED <<redis, memory, admin, changes, since>>
    BY <1>3 DEF AskRow
  <2> HIDE DEF l
  <2> QED BY <1>0, <2>1, <2>2 DEF Flags
<1>4. ASSUME NEW s \in Lookups, StoreInRedis(s) PROVE FlagInv'
  <2> DEFINE l == [look[s] EXCEPT !.pc = "keep"]
  <2>1. l \in Lookup /\ LookFits(l) /\ look[s].value \in BOOLEAN
    BY <1>4 DEF StoreInRedis, Lookup, LookFits
  <2>2. /\ look' = [look EXCEPT ![s] = l] /\ redis' = [value |-> look[s].value, life |-> RedisLife]
        /\ UNCHANGED <<flag, memory, admin, changes, since>>
    BY <1>4 DEF StoreInRedis
  <2>3. redis' \in Cached(RedisLife)
    BY <2>1, <2>2 DEF Cached
  <2> HIDE DEF l
  <2> QED BY <2>1, <2>2, <2>3
<1>5. ASSUME NEW s \in Lookups, KeepInMemory(s) PROVE FlagInv'
  <2>1. look[s].value \in BOOLEAN
    BY <1>5 DEF KeepInMemory, LookFits
  <2>2. MemoryLeft(s) \in Int /\ MemoryLeft(s) <= MemoryLife
    BY DEF MemoryLeft, Lookup
  <2>3. Keep(look[s].value, MemoryLeft(s)) \in Cached(MemoryLife)
    BY <2>1, <2>2, KeepCached
  <2> QED BY <1>0, <1>5, <2>3 DEF KeepInMemory
<1>6. ASSUME NEW s \in Lookups, LoseLookup(s) PROVE FlagInv'
  BY <1>0, <1>6 DEF LoseLookup
<1>7. ASSUME NEW s \in Admins, NEW p \in Processes, NEW want \in BOOLEAN, UpdateSettings(s, p, want)
      PROVE  FlagInv'
  <2>1. [pc |-> "memory", in |-> p, seen |-> Stored, want |-> want] \in Change
    BY <1>0 DEF Change, Flags
  <2> QED BY <1>7, <2>1 DEF UpdateSettings
<1>8. ASSUME NEW s \in Admins, ClearMemory(s) PROVE FlagInv'
  <2>1. [admin[s] EXCEPT !.pc = "redis"] \in Change
    BY DEF Change
  <2> QED BY <1>0, <1>8, <2>1 DEF ClearMemory
<1>9. ASSUME NEW s \in Admins, ClearRedis(s) PROVE FlagInv'
  <2>1. [admin[s] EXCEPT !.pc = "commit"] \in Change
    BY DEF Change
  <2> QED BY <1>0, <1>9, <2>1 DEF ClearRedis
<1>10. ASSUME NEW s \in Admins, CommitSettings(s) PROVE FlagInv'
  <2>1. admin[s].want \in Flags
    BY DEF Change
  <2>2. flag' \in Flags
    BY <1>0, <1>10, <2>1 DEF CommitSettings, Flags
  <2>3. admin' \in [Admins -> Change] /\ UNCHANGED <<redis, memory, look>>
    BY <1>0, <1>10 DEF CommitSettings
  <2>4. changes' \in Nat /\ since' \in 0..Lag
    BY <1>10, LagIsNat DEF CommitSettings
  <2> QED BY <2>2, <2>3, <2>4
<1>11. ASSUME NEW s \in Admins, LoseChange(s) PROVE FlagInv'
  BY <1>0, <1>11 DEF LoseChange
<1>12. CASE Second
  <2>1. redis' \in Cached(RedisLife) /\ memory' \in [Processes -> Cached(MemoryLife)]
    BY <1>12, AgingCached DEF Second
  <2>2. ASSUME NEW s \in Lookups PROVE look'[s] \in Lookup /\ LookFits(look'[s])
    <3>1. CASE look[s].pc = "idle"
      BY <1>12, <3>1 DEF Second
    <3>2. CASE look[s].pc # "idle"
      <4> DEFINE l == [look[s] EXCEPT !.age = look[s].age + 1]
      <4>1. look[s].age < Slowest
        BY <1>12, <3>2 DEF Second
      <4>2. l \in Lookup /\ LookFits(l)
        BY <4>1 DEF Lookup, LookFits
      <4>3. look'[s] = l
        BY <1>12, <3>2 DEF Second
      <4> QED BY <4>2, <4>3
    <3> QED BY <3>1, <3>2
  <2>3. since' \in 0..Lag
    BY <1>12, LagIsNat DEF Second
  <2>4. look' \in [Lookups -> Lookup]
    BY <1>12, <2>2 DEF Second
  <2> QED BY <1>12, <2>1, <2>2, <2>3, <2>4 DEF Second
<1>13. CASE UNCHANGED flagVars
  BY <1>13 DEF flagVars
<1> QED
  BY <1>1, <1>2, <1>3, <1>4, <1>5, <1>6, <1>7, <1>8, <1>9, <1>10, <1>11, <1>12, <1>13
  DEF MaintenanceNext, Answer, Apply

\* Every reachable state is well typed, and no copy is given a longer life than its own.
THEOREM FlagTypeCorrect == MaintenanceSpec => []MaintenanceTypeOK
<1>1. FlagInv => MaintenanceTypeOK
  BY DEF FlagInv
<1> QED BY <1>1, TypeInit, TypeStep, PTL DEF MaintenanceSpec

-----------------------------------------------------------------------------
(* What is out of date *)

LEMMA StaleInit == MaintenanceInit => StaleInv
BY EmptyIsNotOld DEF MaintenanceInit, StaleInv

\* A step that changes neither the row nor the clock ages nothing.
LEMMA SameFlagSameOld ==
    ASSUME flag' = flag, NEW value PROVE Old(value)' <=> Old(value)
BY DEF Old

LEMMA StaleStep == FlagInv /\ StaleInv /\ [MaintenanceNext]_flagVars => StaleInv'
<1> SUFFICES ASSUME FlagInv, StaleInv, [MaintenanceNext]_flagVars PROVE StaleInv'
  OBVIOUS
<1> USE MaintenanceAssumption
<1>0. /\ redis \in Cached(RedisLife) /\ memory \in [Processes -> Cached(MemoryLife)]
      /\ look \in [Lookups -> Lookup] /\ since \in 0..Lag /\ Lag \in Nat
      /\ Lag = Slowest + RedisLife + MemoryLife
  BY LagIsNat DEF FlagInv, MaintenanceTypeOK, Lag
<1>a. /\ redis.life \in 0..RedisLife /\ (redis = Empty \/ redis.value \in BOOLEAN)
      /\ \A p \in Processes : memory[p].life \in 0..MemoryLife
      /\ \A s \in Lookups : look[s].age \in 0..Slowest /\ look[s].value \in Flags
  BY <1>0, CachedFields DEF Lookup
<1>1. ASSUME NEW s \in Lookups, NEW p \in Processes, Ask(s, p) PROVE StaleInv'
  <2>1. look'[s].value = Nothing /\ \A t \in Lookups \ {s} : look'[t] = look[t]
    BY <1>0, <1>1 DEF Ask, NoLookup
  <2>2. UNCHANGED <<flag, redis, memory, since>>
    BY <1>1 DEF Ask
  <2> QED BY <2>1, <2>2 DEF StaleInv, Old
<1>2. ASSUME NEW s \in Lookups, AskRedis(s) PROVE StaleInv'
  <2>1. UNCHANGED <<flag, redis, since>>
    BY <1>2 DEF AskRedis
  <2>2. CASE redis = Empty
    <3>1. memory' = memory /\ \A t \in Lookups : look'[t].value = look[t].value /\ look'[t].age = look[t].age
      BY <1>0, <1>2, <2>2 DEF AskRedis, Lookup
    <3> QED BY <2>1, <3>1 DEF StaleInv, Old
  <2>3. CASE redis # Empty
    <3>1. \A t \in Lookups : look'[t] = look[t] \/ look'[t].value = Nothing
      BY <1>0, <1>2, <2>3 DEF AskRedis, NoLookup
    <3> DEFINE k == Keep(redis.value, MemoryLeft(s))
    <3>2. MemoryLeft(s) \in Int /\ MemoryLeft(s) <= MemoryLife /\ redis.value \in BOOLEAN
      BY <1>a, <2>3 DEF MemoryLeft
    <3>3. k = Empty \/ (k.value = redis.value /\ k.life = MemoryLeft(s))
      BY <3>2, KeepCached
    <3>4. memory' = [memory EXCEPT ![look[s].in] = k]
      BY <1>2, <2>3 DEF AskRedis
    <3>5. Old(k.value) => since + k.life <= Lag
      <4>1. CASE k = Empty
        BY <4>1, EmptyIsNotOld
      <4>2. CASE k.value = redis.value /\ k.life = MemoryLeft(s)
        BY <1>0, <1>a, <3>2, <4>2 DEF StaleInv, Old
      <4> QED BY <3>3, <4>1, <4>2
    <3> HIDE DEF k
    <3>6. \A p \in Processes : memory'[p] = memory[p] \/ memory'[p] = k
      BY <1>0, <3>4
    <3> QED BY <2>1, <3>1, <3>5, <3>6 DEF StaleInv, Old
  <2> QED BY <2>2, <2>3
<1>3. ASSUME NEW s \in Lookups, AskRow(s) PROVE StaleInv'
  <2>1. flag' = Stored /\ UNCHANGED <<redis, memory, since>>
    BY <1>3 DEF AskRow
  <2>2. flag' = flag \/ flag = Nothing
    BY <2>1 DEF Stored
  <2>3. \A value : Old(value)' => Old(value)
    BY <2>2 DEF Old
  <2>4. /\ look'[s].value = flag' /\ \A t \in Lookups \ {s} : look'[t] = look[t]
    BY <1>0, <1>3 DEF AskRow, Lookup
  <2> QED BY <2>1, <2>2, <2>4 DEF StaleInv, Old
<1>4. ASSUME NEW s \in Lookups, StoreInRedis(s) PROVE StaleInv'
  <2>1. UNCHANGED <<flag, memory, since>> /\ redis'.value = look[s].value /\ redis'.life = RedisLife
    BY <1>4 DEF StoreInRedis
  <2>2. \A t \in Lookups : look'[t].value = look[t].value /\ look'[t].age = look[t].age
    BY <1>0, <1>4 DEF StoreInRedis, Lookup
  <2>3. Old(look[s].value) => since + RedisLife <= Slowest + RedisLife
    BY <1>0, <1>a DEF StaleInv
  <2> QED BY <2>1, <2>2, <2>3 DEF StaleInv, Old
<1>5. ASSUME NEW s \in Lookups, KeepInMemory(s) PROVE StaleInv'
  <2>1. UNCHANGED <<flag, redis, since>>
    BY <1>5 DEF KeepInMemory
  <2>2. \A t \in Lookups : look'[t] = look[t] \/ look'[t].value = Nothing
    BY <1>0, <1>5 DEF KeepInMemory, NoLookup
  <2> DEFINE k == Keep(look[s].value, MemoryLeft(s))
  <2>3. MemoryLeft(s) = MemoryLife - look[s].age /\ look[s].value \in BOOLEAN
    BY <1>5 DEF MemoryLeft, KeepInMemory, FlagInv, LookFits
  <2>a. MemoryLeft(s) \in Int /\ MemoryLeft(s) <= MemoryLife
    BY <1>a, <2>3
  <2>4. k = Empty \/ (k.value = look[s].value /\ k.life = MemoryLeft(s))
    BY <2>3, <2>a, KeepCached
  <2>5. Old(k.value) => since + k.life <= Lag
    <3>1. CASE k = Empty
      BY <3>1, EmptyIsNotOld
    <3>2. CASE k.value = look[s].value /\ k.life = MemoryLeft(s)
      BY <1>0, <1>a, <2>3, <3>2 DEF StaleInv
    <3> QED BY <2>4, <3>1, <3>2
  <2>6. memory' = [memory EXCEPT ![look[s].in] = k]
    BY <1>5 DEF KeepInMemory
  <2> HIDE DEF k
  <2>7. \A p \in Processes : memory'[p] = memory[p] \/ memory'[p] = k
    BY <1>0, <2>6
  <2> QED BY <2>1, <2>2, <2>5, <2>7 DEF StaleInv, Old
<1>6. ASSUME NEW s \in Lookups, LoseLookup(s) PROVE StaleInv'
  <2>1. UNCHANGED <<flag, redis, memory, since>>
        /\ \A t \in Lookups : look'[t] = look[t] \/ look'[t].value = Nothing
    BY <1>0, <1>6 DEF LoseLookup, NoLookup
  <2> QED BY <2>1 DEF StaleInv, Old
<1>7. ASSUME NEW s \in Admins, (\E p \in Processes, want \in BOOLEAN : UpdateSettings(s, p, want)) \/ LoseChange(s)
      PROVE  StaleInv'
  <2>1. UNCHANGED <<flag, redis, memory, look, since>>
    BY <1>7 DEF UpdateSettings, LoseChange
  <2> QED BY <2>1 DEF StaleInv, Old
<1>8. ASSUME NEW s \in Admins, ClearMemory(s) PROVE StaleInv'
  <2>1. UNCHANGED <<flag, redis, look, since>> /\ \A p \in Processes : memory'[p] = memory[p] \/ memory'[p] = Empty
    BY <1>0, <1>8 DEF ClearMemory
  <2> QED BY <2>1, EmptyIsNotOld DEF StaleInv, Old
<1>9. ASSUME NEW s \in Admins, ClearRedis(s) PROVE StaleInv'
  <2>1. UNCHANGED <<flag, memory, look, since>> /\ redis' = Empty
    BY <1>9 DEF ClearRedis
  <2> QED BY <2>1, EmptyIsNotOld DEF StaleInv, Old
<1>10. ASSUME NEW s \in Admins, CommitSettings(s) PROVE StaleInv'
  <2>1. UNCHANGED <<redis, memory, look>>
    BY <1>10 DEF CommitSettings
  <2>2. since' = 0 \/ (flag' = Stored /\ since' = since)
    BY <1>10 DEF CommitSettings
  <2>3. CASE since' = 0
    BY <1>0, <1>a, <2>1, <2>3 DEF StaleInv
  <2>4. CASE flag' = Stored /\ since' = since
    <3>1. flag' = flag \/ flag = Nothing
      BY <2>4 DEF Stored
    <3> QED BY <2>1, <2>4, <3>1 DEF StaleInv, Old
  <2> QED BY <2>2, <2>3, <2>4
<1>11. CASE Second
  <2>1. flag' = flag /\ redis' = Aging(redis) /\ memory' = [p \in Processes |-> Aging(memory[p])]
        /\ since' \in {since, since + 1}
    BY <1>11 DEF Second
  <2>2. Old(redis'.value) => since' + redis'.life <= Slowest + RedisLife
    <3>1. redis' = Empty \/ (redis'.value = redis.value /\ redis'.life = redis.life - 1)
      BY <1>0, <2>1, AgingCached
    <3>2. CASE redis' = Empty
      BY <3>2, EmptyIsNotOld
    <3>3. CASE redis'.value = redis.value /\ redis'.life = redis.life - 1
      BY <1>0, <1>a, <2>1, <3>3 DEF StaleInv, Old
    <3> QED BY <3>1, <3>2, <3>3
  <2>3. ASSUME NEW p \in Processes PROVE Old(memory'[p].value) => since' + memory'[p].life <= Lag
    <3>1. memory'[p] = Empty \/ (memory'[p].value = memory[p].value /\ memory'[p].life = memory[p].life - 1)
      BY <1>0, <2>1, AgingCached
    <3>2. CASE memory'[p] = Empty
      BY <3>2, EmptyIsNotOld
    <3>3. CASE memory'[p].value = memory[p].value /\ memory'[p].life = memory[p].life - 1
      BY <1>0, <1>a, <2>1, <3>3 DEF StaleInv, Old
    <3> QED BY <3>1, <3>2, <3>3
  <2>4. ASSUME NEW s \in Lookups PROVE Old(look'[s].value) => since' <= look'[s].age
    <3>1. CASE look[s].pc = "idle"
      <4>1. look'[s].value = Nothing
        BY <1>11, <3>1 DEF Second, FlagInv, LookFits
      <4> QED BY <4>1 DEF Old
    <3>2. CASE look[s].pc # "idle"
      <4>1. look'[s].value = look[s].value /\ look'[s].age = look[s].age + 1
        BY <1>0, <1>11, <3>2 DEF Second, Lookup
      <4> QED BY <1>0, <1>a, <2>1, <4>1 DEF StaleInv
    <3> QED BY <3>1, <3>2
  <2> QED BY <2>1, <2>2, <2>3, <2>4 DEF StaleInv, Old
<1>12. CASE UNCHANGED flagVars
  BY <1>12 DEF flagVars, StaleInv, Old
<1> QED
  BY <1>1, <1>2, <1>3, <1>4, <1>5, <1>6, <1>7, <1>8, <1>9, <1>10, <1>11, <1>12
  DEF MaintenanceNext, Answer, Apply

\* However many lookups, changes and processes there are, whatever is out of date runs
\* out before the bound.
THEOREM StaleCopiesRunOut == MaintenanceSpec => []StaleRunsOut
<1>1. StaleInv => StaleRunsOut
  BY DEF StaleInv, StaleRunsOut, Old
<1> QED BY <1>1, TypeInit, TypeStep, StaleInit, StaleStep, PTL DEF MaintenanceSpec

\* No process answers with a value that was replaced longer ago than the slowest lookup
\* and the two lives together last.
THEOREM StaleAnswersEnd == MaintenanceSpec => []StaleBounded
<1>1. FlagInv /\ StaleInv => StaleBounded
  <2> SUFFICES ASSUME FlagInv, StaleInv, since = Lag, NEW p \in Processes
               PROVE  memory[p].value \in {Nothing, flag}
    BY DEF StaleBounded
  <2>1. memory[p] = Empty \/ (memory[p].life \in Nat /\ memory[p].life >= 1)
    BY MaintenanceAssumption, CachedFields DEF FlagInv, MaintenanceTypeOK
  <2>2. CASE memory[p] = Empty
    BY <2>2 DEF Empty
  <2>3. CASE memory[p].life \in Nat /\ memory[p].life >= 1
    BY <2>3, LagIsNat DEF StaleInv, Old
  <2> QED BY <2>1, <2>2, <2>3
<1> QED BY <1>1, TypeInit, TypeStep, StaleInit, StaleStep, PTL DEF MaintenanceSpec

\* What is out of date is served no longer than its copies live, for any number of
\* processes, lookups and changes.
THEOREM StaleAlwaysEnds == MaintenanceSpec => []StaleEnds
BY FlagTypeCorrect, StaleCopiesRunOut, StaleAnswersEnd, PTL DEF StaleEnds

-----------------------------------------------------------------------------
(* Watchdog *)

\* What ended the watchdog is known as soon as it is gone, and only an unassigned
\* server outlives it.
GoneInv ==
    /\ endedBy # "none" <=> loop = "gone"
    /\ loop = "gone" /\ proc => uvicorn # "running"
    /\ endedBy = "press" => uvicorn # "running"

LEMMA WatchdogInitially == WatchdogInit => WatchdogTypeOK /\ GoneInv
<1> SUFFICES ASSUME WatchdogInit PROVE WatchdogTypeOK /\ GoneInv
  OBVIOUS
<1>1. DoublePress \in 0..DoublePress /\ 0 \in 0..RestartDelay
  BY WatchdogAssumption
<1>2. WatchdogTypeOK
  BY <1>1 DEF WatchdogInit, WatchdogTypeOK
<1>3. GoneInv
  BY DEF WatchdogInit, GoneInv
<1> QED BY <1>2, <1>3

LEMMA WatchdogStep ==
    WatchdogTypeOK /\ GoneInv /\ [WatchdogNext]_watchdogVars => WatchdogTypeOK' /\ GoneInv'
<1> SUFFICES ASSUME WatchdogTypeOK, GoneInv, [WatchdogNext]_watchdogVars
             PROVE  WatchdogTypeOK' /\ GoneInv'
  OBVIOUS
<1> USE WatchdogAssumption DEF WatchdogTypeOK, GoneInv
<1>1. CASE Launch \/ Popen \/ Assign
  BY <1>1 DEF Launch, Popen, Assign
<1>2. CASE Wait \/ PauseEnds
  BY <1>2 DEF Wait, PauseEnds
<1>3. CASE Tick
  BY <1>3 DEF Tick, Passed
<1>4. CASE CtrlC
  <2>1. Told(uvicorn) \in {"none", "ending"} /\ Interrupted(uvicorn) \in {"none", "ending"}
    BY DEF Told, Interrupted
  <2>2. Terminated(Interrupted(uvicorn)) \in {"none", "ending"}
    BY <2>1 DEF Told, Terminated
  <2> QED BY <1>4, <2>1, <2>2 DEF CtrlC, Running
<1>5. CASE Signalled
  <2>1. /\ Terminated(uvicorn) \in {"none", "running", "ending"}
        /\ proc => Terminated(uvicorn) # "running"
    BY DEF Told, Terminated
  <2> QED BY <1>5, <2>1 DEF Signalled
<1>6. CASE UvicornEnds
  BY <1>6 DEF UvicornEnds
<1>7. CASE UNCHANGED watchdogVars
  BY <1>7 DEF watchdogVars
<1> QED BY <1>1, <1>2, <1>3, <1>4, <1>5, <1>6, <1>7 DEF WatchdogNext

\* A watchdog that is gone leaves no server behind that nobody told to end, but one
\* that it had not got hold of yet, wherever in its loop the signals arrive.
THEOREM ServerEndsWithIt == WatchdogSpec => []EndsServer
<1>1. WatchdogTypeOK /\ GoneInv => EndsServer
  BY DEF GoneInv, EndsServer, OnlyUnassignedLeft, StopsCleanly
<1> QED BY <1>1, WatchdogInitially, WatchdogStep, PTL DEF WatchdogSpec
=============================================================================
