---------------------------- MODULE PaymentsProofs ----------------------------
(***************************************************************************)
(* Proofs about Payments, for every set of applications, payments, receipt *)
(* numbers and sessions.                                                   *)
(***************************************************************************)
EXTENDS Payments, TLAPS

(***************************************************************************)
(* What a session holds at each point of its work.                         *)
(***************************************************************************)
Confirming == {"confirming", "flushing", "flushed"}

SessionFits(t, pay) ==
    /\ t.pc \in {"loaded", "charged", "enqueue"} => t.app \in Apps /\ t.method \in Methods
    /\ t.pc \notin {"idle", "loaded"} => t.pay \in Payments
    /\ t.pc \in {"flushing", "flushed"} => t.receipt \in Receipts
    /\ t.pc \in {"enqueue", "asking", "expiring"} \cup Confirming => pay[t.pay].status # "absent"
    /\ t.pc \in {"asking", "expiring", "done"} \cup Confirming => t.src \in {"poll", "webhook", "timeout", "confirm"}

SessionOK(t) == SessionFits(t, payment)

TypeInv ==
    /\ TypeOK
    /\ \A s \in Sessions : SessionOK(tx[s])
    /\ \A p \in Payments : payment[p].status # "absent" => payment[p].app \in Apps
    /\ \A j \in jobs : payment[j.pay].status # "absent"

(***************************************************************************)
(* Money: whoever is about to confirm a payment, or has queued its         *)
(* confirmation, knows that the provider has taken the money.              *)
(***************************************************************************)
MoneyTaken(t, gw) ==
    t.pc \in Confirming \/ (t.pc = "enqueue" /\ t.method = "card") => gw[t.pay] = "paid"

ChargedInv ==
    /\ \A s \in Sessions : MoneyTaken(tx[s], gateway)
    /\ \A j \in jobs : j.fn = "confirm" => gateway[j.pay] = "paid"
    /\ PaidWasCharged

(***************************************************************************)
(* Receipts: a flushed number belongs to nobody else, committed or not.    *)
(***************************************************************************)
ReceiptInv ==
    /\ \A s \in Sessions :
          tx[s].pc = "flushed" =>
             /\ \A p \in Payments \ {tx[s].pay} : payment[p].receipt # tx[s].receipt
             /\ \A q \in Sessions \ {s} : tx[q].pc = "flushed" => tx[q].receipt # tx[s].receipt
    /\ ReceiptAnnounced

(***************************************************************************)
(* Outcomes, for a gateway that answers at once: a new id has no row, a    *)
(* session that is about to store or to expire a payment finds it as it    *)
(* expects, and a timed-out payment was refused.                           *)
(***************************************************************************)
InstantGateway == "open" \notin MomoAnswers

OutcomeInv ==
    /\ \A p \in Payments : gateway[p] # "open"
    /\ \A p \in Payments : gateway[p] = "none" => payment[p].status = "absent"
    /\ \A p \in Payments : payment[p].status = "absent" => payment[p].app = None
    /\ \A s \in Sessions :
          tx[s].pc = "charged" =>
             /\ gateway[tx[s].pay] # "none" /\ payment[tx[s].pay].status = "absent"
             /\ \A q \in Sessions \ {s} : tx[q].pc = "charged" => tx[q].pay # tx[s].pay
    /\ \A s \in Sessions : tx[s].pc = "expiring" => gateway[tx[s].pay] = "failed"
    /\ TimedOutNotCharged

-----------------------------------------------------------------------------
(* Types *)

LEMMA IdleOK ==
    /\ Idle \in Session /\ Idle.pc = "idle" /\ Idle.src = "none"
    /\ SessionOK(Idle) /\ SessionFits(Idle, payment')
BY DEF Idle, Session, SessionOK, SessionFits, Confirming

LEMMA OneSession ==
    ASSUME TypeOK, NEW s \in Sessions, NEW u \in Session, Become(s, u)
    PROVE  /\ tx' \in [Sessions -> Session]
           /\ \A q \in Sessions : tx'[q] = IF q = s THEN u ELSE tx[q]
BY DEF TypeOK, Become

\* A step of one session that writes to no table.
LEMMA ReadingStep ==
    ASSUME TypeInv, NEW s \in Sessions, NEW u \in Session, SessionOK(u), Become(s, u),
           UNCHANGED tables,
           mailed' \subseteq Payments \X Receipts,
           gateway' \in [Payments -> {"none", "open", "paid", "failed"}],
           jobs' \subseteq jobs, crashes' \in Nat
    PROVE  TypeInv'
<1>1. tx' \in [Sessions -> Session] /\ \A q \in Sessions : tx'[q] = IF q = s THEN u ELSE tx[q]
  BY OneSession DEF TypeInv
<1>2. TypeOK'
  BY <1>1 DEF TypeInv, TypeOK, tables
<1>3. \A q \in Sessions : SessionFits(tx'[q], payment')
  BY <1>1 DEF TypeInv, SessionOK, SessionFits, tables
<1>4. QED
  BY <1>2, <1>3 DEF TypeInv, SessionOK, tables

LEMMA InitiateType ==
    ASSUME TypeInv, NEW s \in Sessions,
           \/ \E x \in Apps, method \in Methods : Initiate(s, x, method)
           \/ \E p \in Payments, answer \in {"open", "paid", "failed"} : Charge(s, p, answer)
           \/ InitiateRaises(s)
    PROVE  TypeInv'
<1>0. tx[s] \in Session /\ SessionOK(tx[s]) /\ mailed \subseteq Payments \X Receipts /\ crashes \in Nat
      /\ gateway \in [Payments -> {"none", "open", "paid", "failed"}]
  BY DEF TypeInv, TypeOK
<1>1. ASSUME NEW x \in Apps, NEW method \in Methods, Initiate(s, x, method) PROVE TypeInv'
  <2> DEFINE u == [Idle EXCEPT !.src = "initiate", !.pc = "loaded", !.app = x, !.method = method]
  <2>1. u \in Session /\ SessionOK(u)
    BY DEF Idle, Session, SessionOK, SessionFits, Confirming
  <2>2. QED
    BY <1>0, <1>1, <2>1, ReadingStep DEF Initiate
<1>2. ASSUME NEW p \in Payments, NEW answer \in {"open", "paid", "failed"}, Charge(s, p, answer)
      PROVE  TypeInv'
  <2> DEFINE u == [tx[s] EXCEPT !.pc = "charged", !.pay = p]
  <2>1. u \in Session /\ SessionOK(u)
    BY <1>0, <1>2 DEF Charge, Session, SessionOK, SessionFits, Confirming
  <2>2. gateway' \in [Payments -> {"none", "open", "paid", "failed"}]
    BY <1>0, <1>2 DEF Charge
  <2>3. QED
    BY <1>0, <1>2, <2>1, <2>2, ReadingStep DEF Charge
<1>3. CASE InitiateRaises(s)
  BY <1>0, <1>3, IdleOK, ReadingStep DEF InitiateRaises
<1>4. QED
  BY <1>1, <1>2, <1>3

LEMMA EntryType ==
    ASSUME TypeInv, NEW s \in Sessions,
           \/ \E p \in Payments : Poll(s, p) \/ Webhook(s, p)
           \/ PickUp(s)
    PROVE  TypeInv'
<1>0. mailed \subseteq Payments \X Receipts /\ crashes \in Nat
      /\ gateway \in [Payments -> {"none", "open", "paid", "failed"}]
  BY DEF TypeInv, TypeOK
<1>1. ASSUME NEW p \in Payments, payment[p].status # "absent",
             NEW src \in {"poll", "webhook", "timeout", "confirm"}, NEW pc \in {"asking", "confirming"}
      PROVE  Begin(src, pc, p) \in Session /\ SessionOK(Begin(src, pc, p))
  BY <1>1 DEF Begin, Idle, Session, SessionOK, SessionFits, Confirming
<1>2. ASSUME NEW p \in Payments, Poll(s, p) \/ Webhook(s, p) PROVE TypeInv'
  <2>1. payment[p].status # "absent"
    BY <1>2 DEF Poll, Webhook
  <2>2. PICK src \in {"poll", "webhook"}, pc \in {"asking", "confirming"} : Become(s, Begin(src, pc, p))
    BY <1>2 DEF Poll, Webhook
  <2>3. UNCHANGED <<tables, mailed, gateway, jobs, crashes>>
    BY <1>2 DEF Poll, Webhook
  <2>4. QED
    BY <1>0, <1>1, <2>1, <2>2, <2>3, ReadingStep
<1>3. ASSUME NEW j \in Job, PickUpJob(s, j) PROVE TypeInv'
  <2>1. j.pay \in Payments /\ payment[j.pay].status # "absent" /\ j.fn \in {"timeout", "confirm"}
    BY <1>3 DEF PickUpJob, Queued, TypeInv, Job
  <2>2. UNCHANGED <<tables, mailed, gateway, crashes>> /\ jobs' \subseteq jobs
    BY <1>3 DEF PickUpJob
  <2>3. CASE UNCHANGED tx
    <3>1. Become(s, tx[s]) /\ tx[s] \in Session /\ SessionOK(tx[s])
      BY <2>3 DEF Become, TypeInv, TypeOK
    <3>2. QED
      BY <1>0, <2>2, <3>1, ReadingStep
  <2>4. CASE \E pc \in {"asking", "confirming"} : Become(s, Begin(j.fn, pc, j.pay))
    BY <1>0, <1>1, <2>1, <2>2, <2>4, ReadingStep
  <2>5. QED
    BY <1>3, <2>3, <2>4 DEF PickUpJob
<1>4. ASSUME NEW j \in Job, JobRaises(s, j) PROVE TypeInv'
  <2>1. UNCHANGED <<tables, mailed, gateway, crashes>> /\ jobs' \subseteq jobs
        /\ Become(s, tx[s]) /\ tx[s] \in Session /\ SessionOK(tx[s])
    BY <1>4 DEF JobRaises, Become, TypeInv, TypeOK
  <2>2. QED
    BY <1>0, <2>1, ReadingStep
<1>5. QED
  BY <1>2, <1>3, <1>4 DEF PickUp

LEMMA ConfirmingType ==
    ASSUME TypeInv, NEW s \in Sessions,
           \/ AskGateway(s)
           \/ \E r \in Receipts : DrawReceipt(s, r)
           \/ FlushConfirmation(s)
           \/ ConfirmationFails(s)
           \/ JobAck(s)
           \/ Crash(s)
    PROVE  TypeInv'
<1>0. tx[s] \in Session /\ SessionOK(tx[s]) /\ mailed \subseteq Payments \X Receipts /\ crashes \in Nat
      /\ gateway \in [Payments -> {"none", "open", "paid", "failed"}]
  BY DEF TypeInv, TypeOK
<1>1. CASE AskGateway(s)
  <2>1. PICK pc \in {"confirming", "expiring"} : Become(s, [tx[s] EXCEPT !.pc = pc]) \/ Become(s, Idle)
    BY <1>1 DEF AskGateway
  <2> DEFINE u == [tx[s] EXCEPT !.pc = pc]
  <2>2. u \in Session /\ SessionOK(u)
    BY <1>0, <1>1 DEF AskGateway, Session, SessionOK, SessionFits, Confirming
  <2>3. UNCHANGED <<tables, mailed, gateway, jobs, crashes>>
    BY <1>1 DEF AskGateway
  <2>4. QED
    BY <1>0, <2>1, <2>2, <2>3, IdleOK, ReadingStep
<1>2. ASSUME NEW r \in Receipts, DrawReceipt(s, r) PROVE TypeInv'
  <2> DEFINE u == [tx[s] EXCEPT !.pc = "flushing", !.receipt = r]
  <2>1. u \in Session /\ SessionOK(u)
    BY <1>0, <1>2 DEF DrawReceipt, Session, SessionOK, SessionFits, Confirming
  <2>2. QED
    BY <1>0, <1>2, <2>1, ReadingStep DEF DrawReceipt
<1>3. CASE FlushConfirmation(s)
  <2> DEFINE u == [tx[s] EXCEPT !.pc = "flushed"]
  <2>1. u \in Session /\ SessionOK(u)
    BY <1>0, <1>3 DEF FlushConfirmation, Session, SessionOK, SessionFits, Confirming
  <2>2. mailed' \subseteq Payments \X Receipts
    BY <1>0, <1>3 DEF FlushConfirmation, SessionOK, SessionFits
  <2>3. QED
    BY <1>0, <1>3, <2>1, <2>2, ReadingStep DEF FlushConfirmation
<1>4. CASE ConfirmationFails(s) \/ JobAck(s)
  <2>1. Become(s, Idle) /\ jobs' \subseteq jobs /\ UNCHANGED <<tables, mailed, gateway, crashes>>
    BY <1>4 DEF ConfirmationFails, JobAck, Finish
  <2>2. QED
    BY <1>0, <2>1, IdleOK, ReadingStep
<1>5. CASE Crash(s)
  BY <1>0, <1>5, IdleOK, ReadingStep DEF Crash
<1>6. QED
  BY <1>1, <1>2, <1>3, <1>4, <1>5

\* A row of one payment is rewritten, its application kept or set.
LEMMA WritingStep ==
    ASSUME TypeInv, NEW s \in Sessions, NEW u \in Session, Become(s, u),
           NEW p \in Payments, NEW row \in Row,
           payment' = [payment EXCEPT ![p] = row], row.status # "absent", row.app \in Apps,
           SessionFits(u, payment'),
           appPaid' \subseteq Apps, notices' \in [Payments -> Seq(Receipts)],
           UNCHANGED <<mailed, gateway, jobs, crashes>>
    PROVE  TypeInv'
<1>1. tx' \in [Sessions -> Session] /\ \A q \in Sessions : tx'[q] = IF q = s THEN u ELSE tx[q]
  BY OneSession DEF TypeInv
<1>2. \A q \in Payments : payment'[q] = IF q = p THEN row ELSE payment[q]
  BY DEF TypeInv, TypeOK
<1>3. TypeOK'
  BY <1>1 DEF TypeInv, TypeOK
<1>4. \A q \in Sessions : SessionFits(tx'[q], payment')
  <2> SUFFICES ASSUME NEW q \in Sessions PROVE SessionFits(tx'[q], payment')
    OBVIOUS
  <2>1. CASE q = s
    BY <1>1, <2>1 DEF SessionOK, SessionFits
  <2>2. CASE q # s
    <3>1. tx'[q] = tx[q] /\ SessionOK(tx[q])
      BY <1>1, <2>2 DEF TypeInv
    <3>2. QED
      BY <1>2, <3>1 DEF SessionOK, SessionFits, Confirming
  <2>3. QED
    BY <2>1, <2>2
<1>5. \A j \in jobs' : payment'[j.pay].status # "absent"
  BY <1>2 DEF TypeInv, TypeOK, Job
<1>6. QED
  BY <1>2, <1>3, <1>4, <1>5 DEF TypeInv, SessionOK

LEMMA StoreType ==
    ASSUME TypeInv, NEW s \in Sessions,
           StorePayment(s) \/ CommitConfirmation(s) \/ CommitTimeout(s) \/ EnqueueFollowUp(s)
    PROVE  TypeInv'
<1> DEFINE t == tx[s]
<1>0. t \in Session /\ SessionOK(t) /\ payment \in [Payments -> Row]
  BY DEF TypeInv, TypeOK
<1>1. CASE StorePayment(s)
  <2> DEFINE row == [app |-> t.app, method |-> t.method, receipt |-> None,
                     status |-> IF t.method = "momo" THEN "processing" ELSE "pending"]
             u == [t EXCEPT !.pc = "enqueue"]
  <2>1. row \in Row /\ row.status # "absent" /\ row.app \in Apps /\ t.pay \in Payments
    BY <1>0, <1>1 DEF StorePayment, SessionOK, SessionFits, Row, Session, Methods
  <2>2. payment' = [payment EXCEPT ![t.pay] = row]
    BY <1>1 DEF StorePayment
  <2>3. payment'[t.pay] = row
    BY <1>0, <2>1, <2>2
  <2>4. u \in Session /\ u.pc = "enqueue" /\ u.pay = t.pay /\ u.app = t.app /\ u.method = t.method
    BY <1>0 DEF Session
  <2>5. SessionFits(u, payment') /\ SessionFits(Idle, payment')
    BY <1>0, <1>1, <2>1, <2>3, <2>4, IdleOK DEF StorePayment, SessionOK, SessionFits, Confirming, Session
  <2>6. Become(s, u) \/ Become(s, Idle)
    BY <1>1 DEF StorePayment
  <2>7. UNCHANGED <<appPaid, notices, mailed, gateway, jobs, crashes>>
    BY <1>1 DEF StorePayment
  <2>8. appPaid' \subseteq Apps /\ notices' \in [Payments -> Seq(Receipts)]
    BY <2>7 DEF TypeInv, TypeOK
  <2> HIDE DEF row, u
  <2>9. QED
    BY <2>1, <2>2, <2>4, <2>5, <2>6, <2>7, <2>8, IdleOK, WritingStep
<1>2. CASE CommitConfirmation(s)
  <2> DEFINE row == [payment[t.pay] EXCEPT !.status = "paid", !.receipt = t.receipt]
             u == [t EXCEPT !.pc = "done"]
  <2>1. t.pay \in Payments /\ payment[t.pay] \in Row /\ payment[t.pay].app \in Apps /\ t.receipt \in Receipts
        /\ t.src \in {"poll", "webhook", "timeout", "confirm"}
    BY <1>0, <1>2 DEF CommitConfirmation, SessionOK, SessionFits, Confirming, TypeInv
  <2>2. row \in Row /\ row.status = "paid" /\ row.app \in Apps
    BY <2>1 DEF Row
  <2>3. payment' = [payment EXCEPT ![t.pay] = row]
    BY <1>0, <1>2, <2>1 DEF CommitConfirmation, Row
  <2>4. u \in Session /\ u.pc = "done" /\ u.pay = t.pay /\ u.src = t.src
    BY <1>0 DEF Session
  <2>5. SessionFits(u, payment') /\ SessionFits(Idle, payment')
    BY <1>0, <2>1, <2>4, IdleOK DEF SessionOK, SessionFits, Confirming, Session
  <2>6. Become(s, u) \/ Become(s, Idle)
    BY <1>2 DEF CommitConfirmation
  <2>7. UNCHANGED <<mailed, gateway, jobs, crashes>>
    BY <1>2 DEF CommitConfirmation
  <2>8. appPaid' \subseteq Apps
    BY <1>2, <2>1 DEF CommitConfirmation, MarkApp, TypeInv, TypeOK
  <2>9. notices' \in [Payments -> Seq(Receipts)]
    <3>1. Append(notices[t.pay], t.receipt) \in Seq(Receipts)
      BY <2>1 DEF TypeInv, TypeOK
    <3>2. QED
      BY <1>2, <2>1, <3>1 DEF CommitConfirmation, Notice, TypeInv, TypeOK
  <2> HIDE DEF row, u
  <2>10. QED
    BY <2>1, <2>2, <2>3, <2>4, <2>5, <2>6, <2>7, <2>8, <2>9, IdleOK, WritingStep
<1>3. CASE CommitTimeout(s)
  <2> DEFINE row == [payment[t.pay] EXCEPT !.status = "timed_out"]
             u == [t EXCEPT !.pc = "done"]
  <2>1. t.pay \in Payments /\ payment[t.pay] \in Row /\ payment[t.pay].app \in Apps
        /\ t.src \in {"poll", "webhook", "timeout", "confirm"}
    BY <1>0, <1>3 DEF CommitTimeout, SessionOK, SessionFits, Confirming, TypeInv
  <2>2. row \in Row /\ row.status = "timed_out" /\ row.app \in Apps
    BY <2>1 DEF Row
  <2>3. payment' = [payment EXCEPT ![t.pay] = row]
    BY <1>0, <1>3, <2>1 DEF CommitTimeout, Row
  <2>4. u \in Session /\ u.pc = "done" /\ u.pay = t.pay /\ u.src = t.src
    BY <1>0 DEF Session
  <2>5. SessionFits(u, payment')
    BY <1>0, <2>1, <2>4 DEF SessionOK, SessionFits, Confirming, Session
  <2>6. Become(s, u) /\ UNCHANGED <<appPaid, notices, mailed, gateway, jobs, crashes>>
    BY <1>3 DEF CommitTimeout
  <2>7. appPaid' \subseteq Apps /\ notices' \in [Payments -> Seq(Receipts)]
    BY <2>6 DEF TypeInv, TypeOK
  <2> HIDE DEF row, u
  <2>8. QED
    BY <2>1, <2>2, <2>3, <2>4, <2>5, <2>6, <2>7, WritingStep
<1>4. CASE EnqueueFollowUp(s)
  <2> DEFINE j == [fn |-> IF t.method = "momo" THEN "timeout" ELSE "confirm", pay |-> t.pay]
  <2>1. j \in Job /\ payment[j.pay].status # "absent"
    BY <1>0, <1>4 DEF EnqueueFollowUp, SessionOK, SessionFits, Job
  <2>2. tx' \in [Sessions -> Session] /\ \A q \in Sessions : tx'[q] = IF q = s THEN Idle ELSE tx[q]
    BY <1>4, IdleOK, OneSession DEF EnqueueFollowUp, TypeInv
  <2>3. UNCHANGED <<tables, mailed, gateway, crashes>> /\ jobs' = jobs \cup {j}
    BY <1>4 DEF EnqueueFollowUp
  <2> HIDE DEF j
  <2>4. TypeOK'
    BY <2>1, <2>2, <2>3 DEF TypeInv, TypeOK, tables
  <2>5. \A q \in Sessions : SessionFits(tx'[q], payment')
    BY <2>2, <2>3, IdleOK DEF TypeInv, SessionOK, SessionFits, tables
  <2>6. QED
    BY <2>1, <2>3, <2>4, <2>5 DEF TypeInv, SessionOK, tables
<1>5. QED
  BY <1>1, <1>2, <1>3, <1>4

LEMMA InitTypeInv == Init => TypeInv
BY PaymentsAssumption, IdleOK
   DEF Init, TypeInv, TypeOK, SessionOK, SessionFits, Confirming, NoRow, Row

LEMMA NextTypeInv == TypeInv /\ [Next]_vars => TypeInv'
<1> SUFFICES ASSUME TypeInv, [Next]_vars PROVE TypeInv'
  OBVIOUS
<1>1. ASSUME NEW s \in Requests, BeginRequest(s) PROVE TypeInv'
  BY <1>1, InitiateType, EntryType DEF BeginRequest, Sessions
<1>2. ASSUME NEW s \in Workers, PickUp(s) PROVE TypeInv'
  BY <1>2, EntryType DEF Sessions
<1>3. ASSUME NEW s \in Sessions, Advance(s) \/ Crash(s) PROVE TypeInv'
  BY <1>3, InitiateType, ConfirmingType, StoreType DEF Advance
<1>4. ASSUME NEW p \in Payments, NEW answer \in {"paid", "failed"}, GatewaySettles(p, answer)
      PROVE  TypeInv'
  BY <1>4 DEF GatewaySettles, TypeInv, TypeOK, SessionOK, SessionFits, tables
<1>5. CASE UNCHANGED vars
  BY <1>5 DEF vars, tables, TypeInv, TypeOK, SessionOK, SessionFits
<1>6. QED
  BY <1>1, <1>2, <1>3, <1>4, <1>5 DEF Next

\* Every reachable state of every instance is well typed.
THEOREM PaymentsTypeCorrect == Spec => []TypeOK
<1>1. Spec => []TypeInv
  BY InitTypeInv, NextTypeInv, PTL DEF Spec
<1>2. TypeInv => TypeOK
  BY DEF TypeInv
<1>3. QED
  BY <1>1, <1>2, PTL

-----------------------------------------------------------------------------
(* Money *)

\* The provider never takes a charge back.
LEMMA ChargesStand ==
    ASSUME TypeInv, [Next]_vars, NEW p \in Payments, gateway[p] = "paid"
    PROVE  gateway'[p] = "paid"
<1>1. CASE \E s \in Sessions, q \in Payments, answer \in {"open", "paid", "failed"} : Charge(s, q, answer)
  BY <1>1 DEF Charge, TypeInv, TypeOK
<1>2. CASE \E q \in Payments, answer \in {"paid", "failed"} : GatewaySettles(q, answer)
  BY <1>2 DEF GatewaySettles, TypeInv, TypeOK
<1>3. CASE UNCHANGED gateway
  BY <1>3
<1>4. QED
  BY <1>1, <1>2, <1>3, Zenon
     DEF Next, BeginRequest, Initiate, Poll, Webhook, PickUp, PickUpJob, JobRaises, Advance, InitiateRaises,
         StorePayment, EnqueueFollowUp, AskGateway, DrawReceipt, FlushConfirmation, ConfirmationFails,
         CommitConfirmation, CommitTimeout, JobAck, Crash, vars

\* One session moves on, and knows the money to be taken where it has to.
LEMMA ChargedStep ==
    ASSUME TypeInv, ChargedInv, [Next]_vars, NEW s \in Sessions, NEW u \in Session, Become(s, u),
           MoneyTaken(u, gateway'),
           \A j \in jobs' \ jobs : j.fn = "confirm" => gateway'[j.pay] = "paid",
           \A p \in Payments : Paid(p)' => Paid(p) \/ gateway'[p] = "paid"
    PROVE  ChargedInv'
<1>1. \A q \in Sessions : tx'[q] = IF q = s THEN u ELSE tx[q]
  BY OneSession DEF TypeInv
<1>2. \A q \in Sessions : MoneyTaken(tx'[q], gateway')
  <2> SUFFICES ASSUME NEW q \in Sessions, q # s PROVE MoneyTaken(tx[q], gateway')
    BY <1>1
  <2>1. MoneyTaken(tx[q], gateway) /\ SessionOK(tx[q])
    BY DEF ChargedInv, TypeInv
  <2>2. QED
    BY <2>1, ChargesStand DEF MoneyTaken, SessionOK, SessionFits, Confirming
<1>3. \A j \in jobs' : j.fn = "confirm" => gateway'[j.pay] = "paid"
  BY ChargesStand DEF ChargedInv, TypeInv, TypeOK, Job
<1>4. PaidWasCharged'
  BY ChargesStand DEF ChargedInv, PaidWasCharged
<1>5. QED
  BY <1>2, <1>3, <1>4 DEF ChargedInv

LEMMA IdleCharged == MoneyTaken(Idle, gateway')
BY DEF MoneyTaken, Idle, Confirming

LEMMA RequestCharged ==
    ASSUME TypeInv, ChargedInv, [Next]_vars, NEW s \in Sessions,
           \/ \E x \in Apps, method \in Methods : Initiate(s, x, method)
           \/ \E p \in Payments, answer \in {"open", "paid", "failed"} : Charge(s, p, answer)
           \/ InitiateRaises(s)
           \/ StorePayment(s)
           \/ EnqueueFollowUp(s)
    PROVE  ChargedInv'
<1>0. tx[s] \in Session /\ SessionOK(tx[s]) /\ MoneyTaken(tx[s], gateway) /\ payment \in [Payments -> Row]
  BY DEF TypeInv, TypeOK, ChargedInv
<1>1. ASSUME NEW x \in Apps, NEW method \in Methods, Initiate(s, x, method) PROVE ChargedInv'
  <2> DEFINE u == [Idle EXCEPT !.src = "initiate", !.pc = "loaded", !.app = x, !.method = method]
  <2>1. u \in Session /\ MoneyTaken(u, gateway')
    BY DEF Idle, Session, MoneyTaken, Confirming
  <2>2. QED
    BY <1>1, <2>1, ChargedStep DEF Initiate, tables, Paid
<1>2. ASSUME NEW p \in Payments, NEW answer \in {"open", "paid", "failed"}, Charge(s, p, answer)
      PROVE  ChargedInv'
  <2> DEFINE u == [tx[s] EXCEPT !.pc = "charged", !.pay = p]
  <2>1. u \in Session /\ MoneyTaken(u, gateway')
    BY <1>0 DEF Session, MoneyTaken, Confirming
  <2>2. QED
    BY <1>2, <2>1, ChargedStep DEF Charge, tables, Paid
<1>3. CASE InitiateRaises(s)
  BY <1>3, IdleOK, IdleCharged, ChargedStep DEF InitiateRaises, tables, Paid
<1>4. CASE StorePayment(s)
  <2> DEFINE u == [tx[s] EXCEPT !.pc = "enqueue"]
  <2>1. tx[s].pay \in Payments
    BY <1>0, <1>4 DEF StorePayment, SessionOK, SessionFits
  <2>2. u \in Session /\ u.pc = "enqueue" /\ u.pay = tx[s].pay /\ u.method = tx[s].method
    BY <1>0 DEF Session
  <2>3. \/ Become(s, u) /\ MoneyTaken(u, gateway')
        \/ Become(s, Idle)
    BY <1>0, <1>4, <2>2 DEF StorePayment, FollowUp, MoneyTaken, Confirming
  <2>4. \A p \in Payments : Paid(p)' => Paid(p)
    BY <1>0, <1>4, <2>1 DEF StorePayment, Paid
  <2>5. UNCHANGED jobs
    BY <1>4 DEF StorePayment
  <2> HIDE DEF u
  <2>6. QED
    BY <2>2, <2>3, <2>4, <2>5, IdleOK, IdleCharged, ChargedStep
<1>5. CASE EnqueueFollowUp(s)
  <2>1. Become(s, Idle) /\ UNCHANGED <<payment, gateway>>
    BY <1>5 DEF EnqueueFollowUp, tables
  <2>2. \A j \in jobs' \ jobs : j.fn = "confirm" => gateway'[j.pay] = "paid"
    BY <1>0, <1>5 DEF EnqueueFollowUp, MoneyTaken, SessionOK, SessionFits, Methods
  <2>3. QED
    BY <2>1, <2>2, IdleOK, IdleCharged, ChargedStep DEF Paid
<1>6. QED
  BY <1>1, <1>2, <1>3, <1>4, <1>5

LEMMA EntryCharged ==
    ASSUME TypeInv, ChargedInv, [Next]_vars, NEW s \in Sessions,
           \/ \E p \in Payments : Poll(s, p) \/ Webhook(s, p)
           \/ PickUp(s)
    PROVE  ChargedInv'
<1>1. ASSUME NEW p \in Payments, NEW src \in {"poll", "webhook", "timeout", "confirm"},
             NEW pc \in {"asking", "confirming"}, pc = "asking" \/ gateway'[p] = "paid"
      PROVE  Begin(src, pc, p) \in Session /\ MoneyTaken(Begin(src, pc, p), gateway')
  BY <1>1 DEF Begin, Idle, Session, MoneyTaken, Confirming
<1>2. ASSUME NEW p \in Payments, Poll(s, p) PROVE ChargedInv'
  BY <1>1, <1>2, ChargedStep DEF Poll, tables, Paid
<1>3. ASSUME NEW p \in Payments, Webhook(s, p) PROVE ChargedInv'
  BY <1>1, <1>3, ChargedStep DEF Webhook, tables, Paid
<1>4. ASSUME NEW j \in Job, PickUpJob(s, j) PROVE ChargedInv'
  <2>1. j \in jobs /\ j.pay \in Payments /\ j.fn \in {"timeout", "confirm"}
    BY <1>4 DEF PickUpJob, Queued, Job
  <2>2. UNCHANGED <<payment, gateway>> /\ jobs' \subseteq jobs
    BY <1>4 DEF PickUpJob, tables
  <2>3. CASE UNCHANGED tx
    BY <2>2, <2>3 DEF ChargedInv, PaidWasCharged, Paid
  <2>4. CASE Become(s, Begin(j.fn, IF j.fn = "timeout" THEN "asking" ELSE "confirming", j.pay))
    <3>1. j.fn = "timeout" \/ gateway'[j.pay] = "paid"
      BY <2>1, <2>2 DEF ChargedInv
    <3>2. QED
      BY <1>1, <2>1, <2>2, <2>4, <3>1, ChargedStep DEF Paid
  <2>5. QED
    BY <1>4, <2>3, <2>4 DEF PickUpJob
<1>5. ASSUME NEW j \in Job, JobRaises(s, j) PROVE ChargedInv'
  BY <1>5 DEF JobRaises, tables, ChargedInv, PaidWasCharged, Paid
<1>6. QED
  BY <1>2, <1>3, <1>4, <1>5 DEF PickUp

LEMMA ConfirmingCharged ==
    ASSUME TypeInv, ChargedInv, [Next]_vars, NEW s \in Sessions,
           \/ AskGateway(s)
           \/ \E r \in Receipts : DrawReceipt(s, r)
           \/ FlushConfirmation(s)
           \/ ConfirmationFails(s)
           \/ CommitConfirmation(s)
           \/ CommitTimeout(s)
           \/ JobAck(s)
           \/ Crash(s)
    PROVE  ChargedInv'
<1>0. tx[s] \in Session /\ SessionOK(tx[s]) /\ MoneyTaken(tx[s], gateway) /\ payment \in [Payments -> Row]
  BY DEF TypeInv, TypeOK, ChargedInv
<1>1. CASE AskGateway(s)
  <2>1. PICK pc \in {"confirming", "expiring"} :
           \/ Become(s, [tx[s] EXCEPT !.pc = pc]) /\ (pc = "confirming" => SaysPaid(tx[s].pay))
           \/ Become(s, Idle)
    BY <1>1 DEF AskGateway
  <2> DEFINE u == [tx[s] EXCEPT !.pc = pc]
  <2>2. u \in Session /\ u.pc = pc /\ u.pay = tx[s].pay
    BY <1>0 DEF Session
  <2>3. UNCHANGED <<payment, gateway, jobs>>
    BY <1>1 DEF AskGateway, tables
  <2>4. \/ Become(s, u) /\ MoneyTaken(u, gateway')
        \/ Become(s, Idle)
    BY <2>1, <2>2, <2>3 DEF SaysPaid, MoneyTaken, Confirming
  <2> HIDE DEF u
  <2>5. QED
    BY <2>2, <2>3, <2>4, IdleOK, IdleCharged, ChargedStep DEF Paid
<1>2. ASSUME NEW r \in Receipts, DrawReceipt(s, r) PROVE ChargedInv'
  <2> DEFINE u == [tx[s] EXCEPT !.pc = "flushing", !.receipt = r]
  <2>1. u \in Session /\ MoneyTaken(u, gateway')
    BY <1>0, <1>2 DEF DrawReceipt, Session, MoneyTaken, Confirming
  <2>2. QED
    BY <1>2, <2>1, ChargedStep DEF DrawReceipt, tables, Paid
<1>3. CASE FlushConfirmation(s)
  <2> DEFINE u == [tx[s] EXCEPT !.pc = "flushed"]
  <2>1. u \in Session /\ MoneyTaken(u, gateway')
    BY <1>0, <1>3 DEF FlushConfirmation, Session, MoneyTaken, Confirming
  <2>2. QED
    BY <1>3, <2>1, ChargedStep DEF FlushConfirmation, tables, Paid
<1>4. CASE ConfirmationFails(s) \/ JobAck(s) \/ Crash(s)
  <2>1. Become(s, Idle) /\ jobs' \subseteq jobs /\ UNCHANGED <<payment, gateway>>
    BY <1>4 DEF ConfirmationFails, JobAck, Finish, Crash, tables
  <2>2. QED
    BY <2>1, IdleOK, IdleCharged, ChargedStep DEF Paid
<1>5. CASE CommitConfirmation(s) \/ CommitTimeout(s)
  <2> DEFINE u == [tx[s] EXCEPT !.pc = "done"]
  <2>1. u \in Session /\ MoneyTaken(u, gateway')
    BY <1>0 DEF Session, MoneyTaken, Confirming
  <2>2. Become(s, u) \/ Become(s, Idle)
    BY <1>5 DEF CommitConfirmation, CommitTimeout
  <2>3. UNCHANGED <<gateway, jobs>> /\ tx[s].pay \in Payments
    BY <1>0, <1>5 DEF CommitConfirmation, CommitTimeout, SessionOK, SessionFits
  <2>4. \A p \in Payments : Paid(p)' => Paid(p) \/ gateway'[p] = "paid"
    <3>1. CASE CommitConfirmation(s)
      <4>1. gateway'[tx[s].pay] = "paid"
        BY <1>0, <2>3, <3>1 DEF CommitConfirmation, MoneyTaken, Confirming
      <4>2. \A p \in Payments : p # tx[s].pay => payment'[p] = payment[p]
        BY <1>0, <3>1 DEF CommitConfirmation
      <4>3. QED
        BY <4>1, <4>2 DEF Paid
    <3>2. CASE CommitTimeout(s)
      <4>1. \A p \in Payments : payment'[p].status = IF p = tx[s].pay THEN "timed_out" ELSE payment[p].status
        BY <1>0, <2>3, <3>2 DEF CommitTimeout, Row
      <4>2. QED
        BY <4>1 DEF Paid
    <3>3. QED
      BY <1>5, <3>1, <3>2
  <2> HIDE DEF u
  <2>5. QED
    BY <2>1, <2>2, <2>3, <2>4, IdleOK, IdleCharged, ChargedStep
<1>6. QED
  BY <1>1, <1>2, <1>3, <1>4, <1>5

LEMMA InitChargedInv == Init => ChargedInv
BY DEF Init, ChargedInv, MoneyTaken, PaidWasCharged, Paid, NoRow, Idle, Confirming

LEMMA NextChargedInv == TypeInv /\ ChargedInv /\ [Next]_vars => ChargedInv'
<1> SUFFICES ASSUME TypeInv, ChargedInv, [Next]_vars PROVE ChargedInv'
  OBVIOUS
<1>1. ASSUME NEW s \in Requests, BeginRequest(s) PROVE ChargedInv'
  BY <1>1, RequestCharged, EntryCharged DEF BeginRequest, Sessions
<1>2. ASSUME NEW s \in Workers, PickUp(s) PROVE ChargedInv'
  BY <1>2, EntryCharged DEF Sessions
<1>3. ASSUME NEW s \in Sessions, Advance(s) \/ Crash(s) PROVE ChargedInv'
  BY <1>3, RequestCharged, ConfirmingCharged DEF Advance
<1>4. ASSUME NEW p \in Payments, NEW answer \in {"paid", "failed"}, GatewaySettles(p, answer)
      PROVE  ChargedInv'
  <2>1. UNCHANGED <<payment, jobs, tx>>
    BY <1>4 DEF GatewaySettles, tables
  <2>2. \A s \in Sessions : MoneyTaken(tx[s], gateway')
    <3> SUFFICES ASSUME NEW s \in Sessions PROVE MoneyTaken(tx[s], gateway')
      OBVIOUS
    <3>1. MoneyTaken(tx[s], gateway) /\ SessionOK(tx[s])
      BY DEF ChargedInv, TypeInv
    <3>2. QED
      BY <3>1, ChargesStand DEF MoneyTaken, SessionOK, SessionFits, Confirming
  <2>3. QED
    BY <2>1, <2>2, ChargesStand DEF ChargedInv, PaidWasCharged, Paid, TypeInv, TypeOK, Job
<1>5. CASE UNCHANGED vars
  BY <1>5 DEF vars, tables, ChargedInv, MoneyTaken, PaidWasCharged, Paid
<1>6. QED
  BY <1>1, <1>2, <1>3, <1>4, <1>5 DEF Next

\* No payment is ever marked as paid that the provider has not charged: not by
\* the poll, the webhook, the card job or the timeout job, however they overlap,
\* whatever the gateway answers and whenever, and with any number of crashes.
THEOREM PaidMoneyWasTaken == Spec => []PaidWasCharged
<1>1. Spec => [](TypeInv /\ ChargedInv)
  BY InitTypeInv, NextTypeInv, InitChargedInv, NextChargedInv, PTL DEF Spec
<1>2. ChargedInv => PaidWasCharged
  BY DEF ChargedInv
<1>3. QED
  BY <1>1, <1>2, PTL

-----------------------------------------------------------------------------
(* What a step does to one session and to one row *)

LEMMA SessionMoves ==
    ASSUME TypeInv, [Next]_vars, NEW q \in Sessions
    PROVE  \/ tx'[q] = tx[q]
           \/ \E p \in Payments, answer \in {"open", "paid", "failed"} : Charge(q, p, answer)
           \/ AskGateway(q)
           \/ FlushConfirmation(q)
           \/ tx'[q].pc \notin {"charged", "expiring", "flushed"}
<1>0. tx \in [Sessions -> Session] /\ Idle.pc = "idle"
  BY IdleOK DEF TypeInv, TypeOK
<1>1. ASSUME NEW s \in Requests, BeginRequest(s)
      PROVE  tx'[q] = tx[q] \/ tx'[q].pc \in {"loaded", "asking", "confirming"}
  <2>1. PICK u : Become(s, u) /\ u.pc \in {"loaded", "asking", "confirming"}
    <3>1. ASSUME NEW x \in Apps, NEW method \in Methods, Initiate(s, x, method)
          PROVE  \E u : Become(s, u) /\ u.pc \in {"loaded", "asking", "confirming"}
      <4>1. [Idle EXCEPT !.src = "initiate", !.pc = "loaded", !.app = x, !.method = method].pc = "loaded"
        BY DEF Idle
      <4>2. QED
        BY <3>1, <4>1 DEF Initiate
    <3>2. ASSUME NEW p \in Payments, Poll(s, p) \/ Webhook(s, p)
          PROVE  \E u : Become(s, u) /\ u.pc \in {"loaded", "asking", "confirming"}
      <4>1. Begin("poll", "asking", p).pc = "asking" /\ Begin("webhook", "confirming", p).pc = "confirming"
        BY DEF Begin, Idle
      <4>2. QED
        BY <3>2, <4>1 DEF Poll, Webhook
    <3>3. QED
      BY <1>1, <3>1, <3>2 DEF BeginRequest
  <2>2. QED
    BY <1>0, <2>1 DEF Become, Sessions
<1>2. ASSUME NEW s \in Workers, NEW j \in Job, PickUpJob(s, j) \/ JobRaises(s, j)
      PROVE  tx'[q] = tx[q] \/ tx'[q].pc \in {"asking", "confirming"}
  <2>1. Begin(j.fn, "asking", j.pay).pc = "asking" /\ Begin(j.fn, "confirming", j.pay).pc = "confirming"
    BY DEF Begin, Idle
  <2>2. QED
    BY <1>0, <1>2, <2>1 DEF PickUpJob, JobRaises, Become, Sessions
<1>3. ASSUME NEW s \in Sessions, ~AskGateway(s), ~FlushConfirmation(s), Advance(s) \/ Crash(s),
             ~\E p \in Payments, answer \in {"open", "paid", "failed"} : Charge(s, p, answer)
      PROVE  tx'[q] = tx[q] \/ tx'[q].pc \notin {"charged", "expiring", "flushed"}
  <2>1. \A pc \in {"enqueue", "done"} : [tx[s] EXCEPT !.pc = pc].pc = pc
    BY <1>0 DEF Session
  <2>2. \A r \in Receipts : [tx[s] EXCEPT !.pc = "flushing", !.receipt = r].pc = "flushing"
    BY <1>0 DEF Session
  <2>3. CASE InitiateRaises(s) \/ EnqueueFollowUp(s) \/ ConfirmationFails(s) \/ JobAck(s) \/ Crash(s)
    BY <1>0, <2>3 DEF InitiateRaises, EnqueueFollowUp, ConfirmationFails, JobAck, Finish, Crash, Become
  <2>4. CASE StorePayment(s) \/ CommitConfirmation(s) \/ CommitTimeout(s)
    BY <1>0, <2>1, <2>4 DEF StorePayment, CommitConfirmation, CommitTimeout, Become
  <2>5. ASSUME NEW r \in Receipts, DrawReceipt(s, r)
        PROVE  tx'[q] = tx[q] \/ tx'[q].pc = "flushing"
    BY <1>0, <2>2, <2>5 DEF DrawReceipt, Become
  <2>6. QED
    BY <1>3, <2>3, <2>4, <2>5 DEF Advance
<1>4. ASSUME NEW s \in Sessions, s # q,
             \/ AskGateway(s)
             \/ FlushConfirmation(s)
             \/ \E p \in Payments, answer \in {"open", "paid", "failed"} : Charge(s, p, answer)
      PROVE  tx'[q] = tx[q]
  BY <1>0, <1>4 DEF AskGateway, FlushConfirmation, Charge, Become
<1>5. CASE UNCHANGED tx
  BY <1>5
<1>6. QED
  BY <1>1, <1>2, <1>3, <1>4, <1>5, Zenon DEF Next, PickUp, JobRaises, GatewaySettles, vars

LEMMA RowMoves ==
    ASSUME TypeInv, [Next]_vars, NEW p \in Payments
    PROVE  \/ payment'[p] = payment[p]
           \/ \E s \in Sessions :
                 /\ tx[s].pay = p
                 /\ StorePayment(s) \/ CommitConfirmation(s) \/ CommitTimeout(s)
<1>1. ASSUME NEW s \in Sessions, StorePayment(s) \/ CommitConfirmation(s) \/ CommitTimeout(s)
      PROVE  tx[s].pay = p \/ payment'[p] = payment[p]
  BY <1>1 DEF StorePayment, CommitConfirmation, CommitTimeout, TypeInv, TypeOK
<1>2. CASE UNCHANGED payment
  BY <1>2
<1>3. QED
  BY <1>1, <1>2, Zenon
     DEF Next, BeginRequest, Initiate, Poll, Webhook, PickUp, PickUpJob, JobRaises, Advance, Charge, InitiateRaises,
         EnqueueFollowUp, AskGateway, DrawReceipt, FlushConfirmation, ConfirmationFails, JobAck, Crash,
         GatewaySettles, vars, tables

LEMMA GatewayMoves ==
    ASSUME TypeInv, [Next]_vars, NEW p \in Payments
    PROVE  \/ gateway'[p] = gateway[p]
           \/ gateway[p] = "open" /\ gateway'[p] \in {"paid", "failed"}
           \/ /\ gateway[p] = "none"
              /\ \E s \in Sessions : gateway'[p] \in Answers(tx[s].method)
<1>1. ASSUME NEW s \in Sessions, NEW q \in Payments, NEW answer \in {"open", "paid", "failed"},
             Charge(s, q, answer)
      PROVE  \/ gateway'[p] = gateway[p]
             \/ gateway[p] = "none" /\ gateway'[p] \in Answers(tx[s].method)
  <2>1. gateway[q] = "none" /\ answer \in Answers(tx[s].method)
        /\ gateway' = [gateway EXCEPT ![q] = answer]
    BY <1>1 DEF Charge
  <2>2. gateway'[p] = IF p = q THEN answer ELSE gateway[p]
    BY <2>1 DEF TypeInv, TypeOK
  <2>3. QED
    BY <2>1, <2>2
<1>2. ASSUME NEW q \in Payments, NEW answer \in {"paid", "failed"}, GatewaySettles(q, answer)
      PROVE  \/ gateway'[p] = gateway[p]
             \/ gateway[p] = "open" /\ gateway'[p] \in {"paid", "failed"}
  <2>1. gateway[q] = "open" /\ gateway' = [gateway EXCEPT ![q] = answer]
    BY <1>2 DEF GatewaySettles
  <2>2. gateway'[p] = IF p = q THEN answer ELSE gateway[p]
    BY <2>1 DEF TypeInv, TypeOK
  <2>3. QED
    BY <2>1, <2>2
<1>3. CASE UNCHANGED gateway
  BY <1>3
<1>4. QED
  BY <1>1, <1>2, <1>3, Zenon
     DEF Next, BeginRequest, Initiate, Poll, Webhook, PickUp, PickUpJob, JobRaises, Advance, InitiateRaises,
         StorePayment, EnqueueFollowUp, AskGateway, DrawReceipt, FlushConfirmation, ConfirmationFails,
         CommitConfirmation, CommitTimeout, JobAck, Crash, vars

-----------------------------------------------------------------------------
(* Outcomes *)

LEMMA IntoCharged ==
    ASSUME TypeInv, [Next]_vars, NEW q \in Sessions, tx'[q].pc = "charged"
    PROVE  \/ tx'[q] = tx[q]
           \/ \E p \in Payments, answer \in {"open", "paid", "failed"} :
                 Charge(q, p, answer) /\ tx'[q].pay = p
<1>1. tx[q] \in Session /\ tx \in [Sessions -> Session] /\ Idle.pc = "idle"
  BY IdleOK DEF TypeInv, TypeOK
<1>2. ASSUME NEW p \in Payments, NEW answer \in {"open", "paid", "failed"}, Charge(q, p, answer)
      PROVE  tx'[q].pay = p
  <2>1. [tx[q] EXCEPT !.pc = "charged", !.pay = p].pay = p
    BY <1>1 DEF Session
  <2>2. QED
    BY <1>1, <1>2, <2>1 DEF Charge, Become
<1>3. CASE AskGateway(q) \/ FlushConfirmation(q)
  <2>1. \A pc \in {"confirming", "expiring", "flushed"} : [tx[q] EXCEPT !.pc = pc].pc = pc
    BY <1>1 DEF Session
  <2>2. tx'[q].pc \in {"confirming", "expiring", "flushed", "idle"}
    BY <1>1, <1>3, <2>1 DEF AskGateway, FlushConfirmation, Become
  <2>3. QED
    BY <2>2
<1>4. QED
  BY <1>2, <1>3, SessionMoves

LEMMA NextOutcomeInv ==
    ASSUME InstantGateway, TypeInv, OutcomeInv, [Next]_vars
    PROVE  OutcomeInv'
<1>0. gateway \in [Payments -> {"none", "open", "paid", "failed"}]
  BY DEF TypeInv, TypeOK
<1>1. \A p \in Payments : \/ gateway'[p] = gateway[p]
                          \/ gateway[p] = "none" /\ gateway'[p] \in {"paid", "failed"}
  <2> SUFFICES ASSUME NEW p \in Payments, gateway'[p] # gateway[p]
               PROVE  gateway[p] = "none" /\ gateway'[p] \in {"paid", "failed"}
    OBVIOUS
  <2>1. gateway[p] # "open"
    BY DEF OutcomeInv
  <2>2. \E s \in Sessions : gateway[p] = "none" /\ gateway'[p] \in Answers(tx[s].method)
    BY <2>1, GatewayMoves
  <2>3. QED
    BY <2>2, PaymentsAssumption DEF Answers, InstantGateway
<1>2. \A p \in Payments : gateway'[p] # "open"
  BY <1>1 DEF OutcomeInv
<1>3. ASSUME NEW p \in Payments, payment'[p] # payment[p]
      PROVE  \E s \in Sessions :
                /\ tx[s].pay = p /\ gateway[p] # "none"
                /\ \/ StorePayment(s) /\ payment'[p].status \in {"processing", "pending"}
                   \/ CommitConfirmation(s) /\ payment[p].status # "absent" /\ payment'[p].status = "paid"
                   \/ CommitTimeout(s) /\ payment[p].status # "absent" /\ gateway[p] = "failed"
                      /\ payment'[p].status = "timed_out"
  <2>1. PICK s \in Sessions : /\ tx[s].pay = p
                              /\ StorePayment(s) \/ CommitConfirmation(s) \/ CommitTimeout(s)
    BY <1>3, RowMoves
  <2>2. SessionOK(tx[s]) /\ payment \in [Payments -> Row]
    BY DEF TypeInv, TypeOK
  <2>3. CASE StorePayment(s)
    <3>1. payment'[p].status \in {"processing", "pending"}
      BY <2>1, <2>2, <2>3 DEF StorePayment
    <3>2. QED
      BY <2>1, <2>3, <3>1 DEF StorePayment, OutcomeInv
  <2>4. CASE CommitConfirmation(s)
    <3>1. payment[p].status # "absent"
      BY <2>1, <2>2, <2>4 DEF CommitConfirmation, SessionOK, SessionFits, Confirming
    <3>2. payment'[p].status = "paid"
      BY <2>1, <2>2, <2>4 DEF CommitConfirmation, Row
    <3>3. QED
      BY <2>1, <2>4, <3>1, <3>2 DEF OutcomeInv
  <2>5. CASE CommitTimeout(s)
    <3>1. payment[p].status # "absent" /\ gateway[p] = "failed"
      BY <2>1, <2>2, <2>5 DEF CommitTimeout, SessionOK, SessionFits, OutcomeInv
    <3>2. payment'[p].status = "timed_out"
      BY <2>1, <2>2, <2>5 DEF CommitTimeout, Row
    <3>3. QED
      BY <2>1, <2>5, <3>1, <3>2
  <2>6. QED
    BY <2>1, <2>3, <2>4, <2>5
<1>4. \A p \in Payments : gateway'[p] = "none" => payment'[p].status = "absent"
  BY <1>0, <1>1, <1>3 DEF OutcomeInv
<1>5. \A p \in Payments : payment'[p].status = "absent" => payment'[p].app = None
  BY <1>3 DEF OutcomeInv
<1>6. TimedOutNotCharged'
  BY <1>0, <1>1, <1>3 DEF OutcomeInv, TimedOutNotCharged
<1>7. ASSUME NEW s \in Sessions, tx'[s].pc = "expiring" PROVE gateway'[tx'[s].pay] = "failed"
  <2>1. SessionOK(tx[s]) /\ tx[s] \in Session /\ tx \in [Sessions -> Session]
    BY DEF TypeInv, TypeOK
  <2>2. CASE tx'[s] = tx[s]
    BY <1>0, <1>1, <1>7, <2>1, <2>2 DEF SessionOK, SessionFits, OutcomeInv
  <2>3. CASE AskGateway(s)
    <3>1. tx[s].pc = "asking" /\ UNCHANGED gateway
      BY <2>3 DEF AskGateway
    <3>2. tx[s].pay \in Payments /\ payment[tx[s].pay].status # "absent"
      BY <2>1, <3>1 DEF SessionOK, SessionFits
    <3>3. tx' = [tx EXCEPT ![s] = [tx[s] EXCEPT !.pc = "expiring"]] /\ ~SaysPaid(tx[s].pay)
      <4>1. \A t \in Session : tx' = [tx EXCEPT ![s] = t] => t.pc = "expiring"
        BY <1>7, <2>1
      <4>2. [tx[s] EXCEPT !.pc = "confirming"] \in Session /\ [tx[s] EXCEPT !.pc = "confirming"].pc # "expiring"
        BY <2>1 DEF Session
      <4>3. QED
        BY <2>3, <4>1, <4>2, IdleOK DEF AskGateway, Become
    <3>4. tx'[s].pay = tx[s].pay
      BY <2>1, <3>3 DEF Session
    <3>5. QED
      BY <1>0, <3>1, <3>2, <3>3, <3>4 DEF OutcomeInv, SaysPaid
  <2>4. CASE FlushConfirmation(s)
    <3>1. [tx[s] EXCEPT !.pc = "flushed"].pc = "flushed"
      BY <2>1 DEF Session
    <3>2. QED
      BY <1>7, <2>1, <2>4, <3>1 DEF FlushConfirmation, Become
  <2>5. ASSUME NEW p \in Payments, NEW answer \in {"open", "paid", "failed"}, Charge(s, p, answer)
        PROVE  FALSE
    <3>1. [tx[s] EXCEPT !.pc = "charged", !.pay = p].pc = "charged"
      BY <2>1 DEF Session
    <3>2. QED
      BY <1>7, <2>1, <2>5, <3>1 DEF Charge, Become
  <2>6. QED
    BY <1>7, <2>2, <2>3, <2>4, <2>5, SessionMoves
<1>8. ASSUME NEW s \in Sessions, tx'[s].pc = "charged"
      PROVE  gateway'[tx'[s].pay] # "none" /\ payment'[tx'[s].pay].status = "absent"
  <2>1. \A q \in Sessions : SessionOK(tx[q]) /\ tx[q] \in Session
    BY DEF TypeInv, TypeOK
  <2>2. CASE tx'[s] = tx[s]
    <3> DEFINE p == tx[s].pay
    <3>1. p \in Payments /\ gateway[p] # "none" /\ payment[p].status = "absent"
      BY <1>8, <2>1, <2>2 DEF SessionOK, SessionFits, OutcomeInv
    <3>2. ASSUME payment'[p] # payment[p] PROVE FALSE
      <4>1. PICK r \in Sessions : StorePayment(r) /\ tx[r].pay = p
        BY <1>3, <3>1, <3>2
      <4>2. tx[r].pc = "charged"
        BY <4>1 DEF StorePayment
      <4>3. r = s
        BY <1>8, <2>2, <4>1, <4>2 DEF OutcomeInv
      <4>4. [tx[s] EXCEPT !.pc = "enqueue"].pc = "enqueue"
        BY <2>1 DEF Session
      <4>5. tx'[s].pc \in {"enqueue", "idle"}
        BY <4>1, <4>3, <4>4, IdleOK DEF StorePayment, Become, TypeInv, TypeOK
      <4>6. QED
        BY <1>8, <4>5
    <3>3. QED
      BY <1>0, <1>1, <2>2, <3>1, <3>2
  <2>3. ASSUME NEW p \in Payments, NEW answer \in {"open", "paid", "failed"},
               Charge(s, p, answer), tx'[s].pay = p
        PROVE  gateway'[tx'[s].pay] # "none" /\ payment'[tx'[s].pay].status = "absent"
    BY <1>0, <2>3 DEF Charge, tables, OutcomeInv
  <2>4. QED
    BY <1>8, <2>2, <2>3, IntoCharged
<1>9. ASSUME NEW s \in Sessions, NEW q \in Sessions, q # s,
             tx'[s].pc = "charged", tx'[q].pc = "charged", tx[q] = tx'[q]
      PROVE  tx'[q].pay # tx'[s].pay
  <2>1. CASE tx'[s] = tx[s]
    BY <1>9, <2>1 DEF OutcomeInv
  <2>2. ASSUME NEW p \in Payments, NEW answer \in {"open", "paid", "failed"},
               Charge(s, p, answer), tx'[s].pay = p
        PROVE  tx'[q].pay # tx'[s].pay
    BY <1>9, <2>2 DEF Charge, OutcomeInv
  <2>3. QED
    BY <1>9, <2>1, <2>2, IntoCharged
<1>10. ASSUME NEW s \in Sessions, NEW q \in Sessions, q # s,
              tx'[s].pc = "charged", tx'[q].pc = "charged"
       PROVE  tx'[q].pay # tx'[s].pay
  <2>1. tx[q] = tx'[q] \/ tx[s] = tx'[s]
    <3>1. CASE \E p \in Payments, answer \in {"open", "paid", "failed"} : Charge(q, p, answer)
      BY <1>10, <3>1 DEF Charge, Become, TypeInv, TypeOK
    <3>2. QED
      BY <1>10, <3>1, IntoCharged
  <2>2. QED
    BY <1>9, <1>10, <2>1
<1>11. QED
  BY <1>2, <1>4, <1>5, <1>6, <1>7, <1>8, <1>10 DEF OutcomeInv

LEMMA InitOutcomeInv == Init => OutcomeInv
BY DEF Init, OutcomeInv, TimedOutNotCharged, NoRow, Idle

\* With a gateway that answers at once, a payment that timed out was refused.
THEOREM TimedOutMoneyWasNotTaken ==
    ASSUME InstantGateway
    PROVE  Spec => []TimedOutNotCharged
<1>1. TypeInv /\ OutcomeInv /\ [Next]_vars => OutcomeInv'
  BY NextOutcomeInv
<1>2. Spec => [](TypeInv /\ OutcomeInv)
  BY <1>1, InitTypeInv, NextTypeInv, InitOutcomeInv, PTL DEF Spec
<1>3. OutcomeInv => TimedOutNotCharged
  BY DEF OutcomeInv
<1>4. QED
  BY <1>2, <1>3, PTL

\* The row that a confirmation or a timeout commits.
LEMMA Committed ==
    ASSUME TypeInv, ChargedInv, OutcomeInv, NEW s \in Sessions
    PROVE  /\ CommitConfirmation(s) =>
                 /\ tx[s].pay \in Payments
                 /\ payment[tx[s].pay].status \notin {"absent", "timed_out"}
                 /\ payment'[tx[s].pay].status = "paid"
                 /\ payment'[tx[s].pay].app = payment[tx[s].pay].app
                 /\ \A p \in Payments : p # tx[s].pay => payment'[p] = payment[p]
           /\ CommitTimeout(s) =>
                 /\ tx[s].pay \in Payments
                 /\ payment[tx[s].pay].status \notin {"absent", "paid"}
                 /\ payment'[tx[s].pay].status = "timed_out"
                 /\ payment'[tx[s].pay].app = payment[tx[s].pay].app
                 /\ \A p \in Payments : p # tx[s].pay => payment'[p] = payment[p]
<1>1. SessionOK(tx[s]) /\ MoneyTaken(tx[s], gateway) /\ payment \in [Payments -> Row]
  BY DEF TypeInv, TypeOK, ChargedInv
<1>2. ASSUME CommitConfirmation(s)
      PROVE  /\ tx[s].pay \in Payments
             /\ payment[tx[s].pay].status \notin {"absent", "timed_out"}
             /\ payment'[tx[s].pay].status = "paid"
             /\ payment'[tx[s].pay].app = payment[tx[s].pay].app
             /\ \A p \in Payments : p # tx[s].pay => payment'[p] = payment[p]
  <2>1. /\ tx[s].pay \in Payments
        /\ payment[tx[s].pay].status # "absent"
        /\ gateway[tx[s].pay] = "paid"
    BY <1>1, <1>2 DEF CommitConfirmation, SessionOK, SessionFits, MoneyTaken, Confirming
  <2>2. payment[tx[s].pay].status # "timed_out"
    BY <2>1 DEF OutcomeInv, TimedOutNotCharged
  <2>3. QED
    BY <1>1, <1>2, <2>1, <2>2 DEF CommitConfirmation, Row
<1>3. ASSUME CommitTimeout(s)
      PROVE  /\ tx[s].pay \in Payments
             /\ payment[tx[s].pay].status \notin {"absent", "paid"}
             /\ payment'[tx[s].pay].status = "timed_out"
             /\ payment'[tx[s].pay].app = payment[tx[s].pay].app
             /\ \A p \in Payments : p # tx[s].pay => payment'[p] = payment[p]
  <2>1. /\ tx[s].pay \in Payments
        /\ payment[tx[s].pay].status # "absent"
        /\ gateway[tx[s].pay] = "failed"
    BY <1>1, <1>3 DEF CommitTimeout, SessionOK, SessionFits, OutcomeInv
  <2>2. payment[tx[s].pay].status # "paid"
    BY <2>1 DEF ChargedInv, PaidWasCharged, Paid
  <2>3. QED
    BY <1>1, <1>3, <2>1, <2>2 DEF CommitTimeout, Row
<1>4. QED
  BY <1>2, <1>3

\* The row that initiate_payment commits is a new one.
LEMMA Stored ==
    ASSUME TypeInv, OutcomeInv, NEW s \in Sessions, StorePayment(s)
    PROVE  /\ tx[s].pay \in Payments /\ tx[s].app \in Apps
           /\ payment[tx[s].pay].status = "absent"
           /\ payment'[tx[s].pay].status \in {"processing", "pending"}
           /\ payment'[tx[s].pay].app = tx[s].app
           /\ \A p \in Payments : p # tx[s].pay => payment'[p] = payment[p]
<1>1. SessionOK(tx[s]) /\ payment \in [Payments -> Row]
  BY DEF TypeInv, TypeOK
<1>2. tx[s].pay \in Payments /\ tx[s].app \in Apps /\ payment[tx[s].pay].status = "absent"
  BY <1>1 DEF StorePayment, SessionOK, SessionFits, OutcomeInv
<1>3. payment' = [payment EXCEPT ![tx[s].pay] =
                     [app |-> tx[s].app, method |-> tx[s].method, receipt |-> None,
                      status |-> IF tx[s].method = "momo" THEN "processing" ELSE "pending"]]
  BY DEF StorePayment
<1>4. QED
  BY <1>1, <1>2, <1>3

\* With a gateway that answers at once, a paid payment stays paid: no session
\* that decided on an older copy of the row takes it back.
THEOREM PaidStaysPaid ==
    ASSUME InstantGateway
    PROVE  Spec => PaidIsFinal
<1>1. TypeInv /\ ChargedInv /\ OutcomeInv /\ [Next]_vars => \A p \in Payments : Paid(p) => Paid(p)'
  <2> SUFFICES ASSUME TypeInv, ChargedInv, OutcomeInv, [Next]_vars, NEW p \in Payments, Paid(p)
               PROVE  Paid(p)'
    OBVIOUS
  <2>1. CASE payment'[p] = payment[p]
    BY <2>1 DEF Paid
  <2>2. ASSUME NEW s \in Sessions, tx[s].pay = p,
               StorePayment(s) \/ CommitConfirmation(s) \/ CommitTimeout(s)
        PROVE  Paid(p)'
    BY <2>2, Stored, Committed DEF Paid
  <2>3. QED
    BY <2>1, <2>2, RowMoves
<1>2. TypeInv /\ OutcomeInv /\ [Next]_vars => OutcomeInv'
  BY NextOutcomeInv
<1>3. QED
  BY <1>1, <1>2, InitTypeInv, NextTypeInv, InitChargedInv, NextChargedInv, InitOutcomeInv, PTL
     DEF Spec, PaidIsFinal

-----------------------------------------------------------------------------
(* Payments and their applications *)

LEMMA AppMoves ==
    ASSUME [Next]_vars
    PROVE  \/ UNCHANGED <<payment, appPaid>>
           \/ UNCHANGED appPaid /\ \E s \in Sessions : StorePayment(s) \/ CommitTimeout(s)
           \/ \E s \in Sessions : CommitConfirmation(s)
<1>1. ASSUME NEW s \in Sessions, StorePayment(s) \/ CommitTimeout(s) PROVE UNCHANGED appPaid
  BY <1>1 DEF StorePayment, CommitTimeout
<1>2. CASE UNCHANGED tables
  BY <1>2 DEF tables
<1>3. QED
  BY <1>1, <1>2, Zenon
     DEF Next, BeginRequest, Initiate, Poll, Webhook, PickUp, PickUpJob, JobRaises, Advance, Charge, InitiateRaises,
         EnqueueFollowUp, AskGateway, DrawReceipt, FlushConfirmation, ConfirmationFails, JobAck, Crash,
         GatewaySettles, vars

\* The application of a paid payment is marked as paid: one commit writes both
\* rows, and no later one takes the mark away.
THEOREM PaymentMarksApplication == Spec => []PaidTogether
<1>1. TypeInv /\ PaidTogether /\ [Next]_vars => PaidTogether'
  <2> SUFFICES ASSUME TypeInv, PaidTogether, [Next]_vars, NEW p \in Payments, Paid(p)'
               PROVE  payment'[p].app \in appPaid'
    BY DEF PaidTogether
  <2>1. payment \in [Payments -> Row] /\ \A s \in Sessions : SessionOK(tx[s])
    BY DEF TypeInv, TypeOK
  <2>2. appPaid \subseteq appPaid'
    BY AppMoves, Zenon DEF CommitConfirmation, MarkApp
  <2>3. CASE payment'[p] = payment[p]
    BY <2>2, <2>3 DEF PaidTogether, Paid
  <2>4. ASSUME NEW s \in Sessions, tx[s].pay = p, StorePayment(s) PROVE FALSE
    BY <2>1, <2>4 DEF StorePayment, Paid
  <2>5. ASSUME NEW s \in Sessions, tx[s].pay = p, CommitTimeout(s) PROVE FALSE
    BY <2>1, <2>5 DEF CommitTimeout, Paid, Row
  <2>6. ASSUME NEW s \in Sessions, tx[s].pay = p, CommitConfirmation(s)
        PROVE  payment'[p].app \in appPaid'
    <3>1. payment'[p].app = payment[p].app
      BY <2>1, <2>6 DEF CommitConfirmation, Row
    <3>2. QED
      BY <2>6, <3>1 DEF CommitConfirmation, MarkApp
  <2>7. QED
    BY <2>3, <2>4, <2>5, <2>6, RowMoves
<1>2. Init => PaidTogether
  BY DEF Init, PaidTogether, Paid, NoRow
<1>3. QED
  BY <1>1, <1>2, InitTypeInv, NextTypeInv, PTL DEF Spec

-----------------------------------------------------------------------------
(* Refinement *)

LEMMA OutcomeOf ==
    ASSUME TypeInv, NEW p \in Payments
    PROVE  /\ payment[p].status = "absent" => Outcome(p) = "none"
           /\ payment[p].status = "paid" => Outcome(p) = "paid"
           /\ payment[p].status = "timed_out" => Outcome(p) = "expired"
           /\ payment[p].status \in {"processing", "pending"} => Outcome(p) = "open"
BY Zenon DEF Outcome

LEMMA OutcomeOfNext ==
    ASSUME NEW p \in Payments
    PROVE  /\ payment'[p].status = "absent" => Outcome(p)' = "none"
           /\ payment'[p].status = "paid" => Outcome(p)' = "paid"
           /\ payment'[p].status = "timed_out" => Outcome(p)' = "expired"
           /\ payment'[p].status \in {"processing", "pending"} => Outcome(p)' = "open"
           /\ payment'[p] = payment[p] => Outcome(p)' = Outcome(p)
BY Zenon DEF Outcome

\* One row of the abstract state changes.
LEMMA OneOutcome ==
    ASSUME NEW p \in Payments, \A q \in Payments : q # p => payment'[q] = payment[q]
    PROVE  /\ [q \in Payments |-> Outcome(q)]'
                 = [[q \in Payments |-> Outcome(q)] EXCEPT ![p] = Outcome(p)']
           /\ [q \in Payments |-> payment[q].app]'
                 = [[q \in Payments |-> payment[q].app] EXCEPT ![p] = payment'[p].app]
<1>1. \A q \in Payments : q # p => Outcome(q)' = Outcome(q)
  BY OutcomeOfNext
<1> DEFINE o(q) == Outcome(q)
<1>2. \A q \in Payments : q # p => o(q)' = o(q)
  BY <1>1
<1> HIDE DEF o
<1>3. [q \in Payments |-> o(q)]' = [[q \in Payments |-> o(q)] EXCEPT ![p] = o(p)']
  BY <1>2
<1>4. QED
  BY <1>3 DEF o

LEMMA PromiseStep ==
    TypeInv /\ ChargedInv /\ OutcomeInv /\ [Next]_vars => [Promise!Next]_(Promise!settlement)
<1> SUFFICES ASSUME TypeInv, ChargedInv, OutcomeInv, [Next]_vars
             PROVE  [Promise!Next]_(Promise!settlement)
  OBVIOUS
<1> DEFINE out == [q \in Payments |-> Outcome(q)]
           bill == [q \in Payments |-> payment[q].app]
<1>1. CASE UNCHANGED <<payment, appPaid>>
  <2>1. out' = out /\ bill' = bill
    BY <1>1 DEF Outcome
  <2>2. QED
    BY <1>1, <2>1 DEF Promise!settlement
<1>2. ASSUME NEW s \in Sessions, StorePayment(s), UNCHANGED appPaid PROVE Promise!Next
  <2>0. PICK p \in Payments, x \in Apps : p = tx[s].pay /\ x = tx[s].app
    BY <1>2, Stored
  <2>1. Outcome(p) = "none" /\ Outcome(p)' = "open" /\ payment'[p].app = x
        /\ \A q \in Payments : q # p => payment'[q] = payment[q]
    BY <1>2, <2>0, Stored, OutcomeOf, OutcomeOfNext
  <2>2. out' = [out EXCEPT ![p] = "open"] /\ bill' = [bill EXCEPT ![p] = x] /\ out[p] = "none"
    BY <2>1, OneOutcome
  <2>3. Promise!Open(p, x)
    BY <1>2, <2>2 DEF Promise!Open
  <2>4. QED
    BY <2>1, <2>3 DEF Promise!Next
<1>3. ASSUME NEW s \in Sessions, CommitTimeout(s), UNCHANGED appPaid PROVE Promise!Next
  <2>0. PICK p \in Payments : p = tx[s].pay
    BY <1>3, Committed
  <2>1. payment[p].status \in {"processing", "pending", "timed_out"}
        /\ Outcome(p)' = "expired" /\ payment'[p].app = payment[p].app
        /\ \A q \in Payments : q # p => payment'[q] = payment[q]
    BY <1>3, <2>0, Committed, OutcomeOfNext DEF TypeInv, TypeOK, Row
  <2>2. Outcome(p) \in {"open", "expired"}
    BY <2>1, OutcomeOf
  <2>3. out' = [out EXCEPT ![p] = "expired"] /\ bill' = [bill EXCEPT ![p] = payment[p].app] /\ out[p] = Outcome(p)
    BY <2>1, OneOutcome
  <2>4. bill' = bill
    BY <2>1, <2>3
  <2>5. Promise!Expire(p)
    BY <1>3, <2>2, <2>3, <2>4 DEF Promise!Expire
  <2>6. QED
    BY <2>1, <2>5 DEF Promise!Next
<1>4. ASSUME NEW s \in Sessions, CommitConfirmation(s) PROVE Promise!Next
  <2>0. PICK p \in Payments : p = tx[s].pay
    BY <1>4, Committed
  <2>1. payment[p].status \in {"processing", "pending", "paid"}
        /\ Outcome(p)' = "paid" /\ payment'[p].app = payment[p].app
        /\ \A q \in Payments : q # p => payment'[q] = payment[q]
    BY <1>4, <2>0, Committed, OutcomeOfNext DEF TypeInv, TypeOK, Row
  <2>2. Outcome(p) \in {"open", "paid"}
    BY <2>1, OutcomeOf
  <2>3. out' = [out EXCEPT ![p] = "paid"] /\ bill' = [bill EXCEPT ![p] = payment[p].app]
        /\ out[p] = Outcome(p) /\ bill[p] = payment[p].app
    BY <2>1, OneOutcome
  <2>4. bill' = bill
    BY <2>1, <2>3
  <2>5. appPaid' = appPaid \cup {bill[p]}
    BY <1>4, <2>0, <2>3 DEF CommitConfirmation, MarkApp
  <2>6. Promise!Pay(p)
    BY <2>2, <2>3, <2>4, <2>5 DEF Promise!Pay
  <2>7. QED
    BY <2>1, <2>6 DEF Promise!Next
<1>5. QED
  BY <1>1, <1>2, <1>3, <1>4, AppMoves

\* With a gateway that answers at once, the payments keep the promise of
\* Settlement: opened for one application, then paid or expired once, and the
\* application marked exactly when a payment of its own is paid.
THEOREM PaymentsImplementSettlement ==
    ASSUME InstantGateway
    PROVE  Spec => ImplementsSettlement
<1>1. Init => Promise!Init
  BY DEF Init, Promise!Init, NoRow, Outcome
<1>2. TypeInv /\ OutcomeInv /\ [Next]_vars => OutcomeInv'
  BY NextOutcomeInv
<1>3. QED
  BY <1>1, <1>2, PromiseStep, InitTypeInv, NextTypeInv, InitChargedInv, NextChargedInv, InitOutcomeInv, PTL
     DEF Spec, ImplementsSettlement, Promise!Spec

-----------------------------------------------------------------------------
(* Receipts *)

LEMMA IntoFlushed ==
    ASSUME TypeInv, [Next]_vars, NEW q \in Sessions, tx'[q].pc = "flushed"
    PROVE  /\ tx'[q].pay = tx[q].pay /\ tx'[q].receipt = tx[q].receipt
           /\ tx'[q] = tx[q] \/ FlushConfirmation(q)
<1>1. tx[q] \in Session /\ tx \in [Sessions -> Session] /\ Idle.pc = "idle"
  BY IdleOK DEF TypeInv, TypeOK
<1>2. ASSUME NEW p \in Payments, NEW answer \in {"open", "paid", "failed"}, Charge(q, p, answer)
      PROVE  FALSE
  <2>1. [tx[q] EXCEPT !.pc = "charged", !.pay = p].pc = "charged"
    BY <1>1 DEF Session
  <2>2. QED
    BY <1>1, <1>2, <2>1 DEF Charge, Become
<1>3. CASE AskGateway(q)
  <2>1. \A pc \in {"confirming", "expiring"} : [tx[q] EXCEPT !.pc = pc].pc = pc
    BY <1>1 DEF Session
  <2>2. tx'[q].pc \in {"confirming", "expiring", "idle"}
    BY <1>1, <1>3, <2>1 DEF AskGateway, Become
  <2>3. QED
    BY <2>2
<1>4. CASE FlushConfirmation(q)
  BY <1>1, <1>4 DEF FlushConfirmation, Become, Session
<1>5. QED
  BY <1>2, <1>3, <1>4, SessionMoves

LEMMA LastOfAppend ==
    ASSUME NEW S, NEW seq \in Seq(S), NEW e \in S
    PROVE  Append(seq, e) # << >> /\ Append(seq, e)[Len(Append(seq, e))] = e
OBVIOUS

LEMMA NoticeMoves ==
    ASSUME TypeInv, [Next]_vars
    PROVE  \/ UNCHANGED notices
           \/ \E s \in Sessions : CommitConfirmation(s)
<1>1. CASE UNCHANGED notices
  BY <1>1
<1>2. QED
  BY <1>1, Zenon
     DEF Next, BeginRequest, Initiate, Poll, Webhook, PickUp, PickUpJob, JobRaises, Advance, Charge, InitiateRaises,
         StorePayment, CommitTimeout, EnqueueFollowUp, AskGateway, DrawReceipt, FlushConfirmation,
         ConfirmationFails, JobAck, Crash, GatewaySettles, vars, tables

LEMMA FlushedReceipts ==
    ASSUME TypeInv, ReceiptInv, [Next]_vars, NEW s \in Sessions, tx'[s].pc = "flushed"
    PROVE  /\ \A p \in Payments \ {tx'[s].pay} : payment'[p].receipt # tx'[s].receipt
           /\ \A q \in Sessions \ {s} : tx'[q].pc = "flushed" => tx'[q].receipt # tx'[s].receipt
<1>0. payment \in [Payments -> Row] /\ tx \in [Sessions -> Session]
      /\ \A q \in Sessions : SessionOK(tx[q]) /\ tx[q] \in Session
  BY DEF TypeInv, TypeOK
<1>1. CASE FlushConfirmation(s)
  <2>1. UNCHANGED payment /\ tx[s].pc = "flushing"
        /\ \A q \in Sessions \ {s} : tx'[q] = tx[q]
    BY <1>0, <1>1 DEF FlushConfirmation, Become, tables
  <2>2. QED
    BY <1>1, <2>1, IntoFlushed DEF FlushConfirmation
<1>2. CASE tx'[s] = tx[s]
  <2>1. tx[s].receipt \in Receipts /\ tx[s].pc = "flushed"
    BY <1>0, <1>2 DEF SessionOK, SessionFits
  <2>2. ASSUME NEW p \in Payments, p # tx[s].pay PROVE payment'[p].receipt # tx[s].receipt
    <3>1. CASE payment'[p] = payment[p]
      BY <2>1, <2>2, <3>1 DEF ReceiptInv
    <3>2. ASSUME NEW r \in Sessions, tx[r].pay = p, StorePayment(r)
          PROVE  payment'[p].receipt # tx[s].receipt
      <4>1. payment'[p].receipt = None
        BY <1>0, <3>2 DEF StorePayment
      <4>2. QED
        BY <2>1, <4>1, PaymentsAssumption
    <3>3. ASSUME NEW r \in Sessions, tx[r].pay = p, CommitTimeout(r)
          PROVE  payment'[p].receipt # tx[s].receipt
      <4>1. payment'[p].receipt = payment[p].receipt
        BY <1>0, <3>3 DEF CommitTimeout, Row
      <4>2. QED
        BY <2>1, <2>2, <4>1 DEF ReceiptInv
    <3>4. ASSUME NEW r \in Sessions, tx[r].pay = p, CommitConfirmation(r)
          PROVE  payment'[p].receipt # tx[s].receipt
      <4>1. payment'[p].receipt = tx[r].receipt /\ tx[r].pc = "flushed"
        BY <1>0, <3>4 DEF CommitConfirmation, Row
      <4>2. QED
        BY <2>1, <2>2, <3>4, <4>1 DEF ReceiptInv
    <3>5. QED
      BY <3>1, <3>2, <3>3, <3>4, RowMoves
  <2>3. ASSUME NEW q \in Sessions, q # s, tx'[q].pc = "flushed" PROVE tx'[q].receipt # tx[s].receipt
    <3>1. CASE tx'[q] = tx[q]
      BY <2>1, <2>3, <3>1 DEF ReceiptInv
    <3>2. CASE FlushConfirmation(q)
      BY <2>1, <2>3, <3>2, IntoFlushed DEF FlushConfirmation
    <3>3. QED
      BY <2>3, <3>1, <3>2, IntoFlushed
  <2>4. QED
    BY <1>2, <2>2, <2>3
<1>3. QED
  BY <1>1, <1>2, IntoFlushed

LEMMA NextReceiptInv ==
    ASSUME TypeInv, ReceiptInv, [Next]_vars
    PROVE  ReceiptInv'
<1>0. payment \in [Payments -> Row] /\ notices \in [Payments -> Seq(Receipts)]
      /\ \A q \in Sessions : SessionOK(tx[q])
  BY DEF TypeInv, TypeOK
<1>1. ASSUME NEW s \in Sessions, CommitConfirmation(s) PROVE ReceiptAnnounced'
  <2>1. PICK p \in Payments, r \in Receipts : p = tx[s].pay /\ r = tx[s].receipt /\ tx[s].pc = "flushed"
    BY <1>0, <1>1 DEF CommitConfirmation, SessionOK, SessionFits, Confirming
  <2>2. /\ payment'[p].receipt = r
        /\ \A q \in Payments : q # p => payment'[q] = payment[q]
        /\ notices'[p] = Append(notices[p], r)
        /\ \A q \in Payments : q # p => notices'[q] = notices[q]
    BY <1>0, <1>1, <2>1 DEF CommitConfirmation, Notice, Row
  <2>3. notices'[p] # << >> /\ notices'[p][Len(notices'[p])] = r
    BY <1>0, <2>2, LastOfAppend
  <2>4. \A q \in Payments \ {p} : payment[q].receipt # r
    BY <2>1 DEF ReceiptInv
  <2>5. ASSUME NEW q \in Payments, q # p, Paid(q)'
        PROVE  /\ notices'[q] # << >> /\ notices'[q][Len(notices'[q])] = payment'[q].receipt
               /\ \A o \in Payments \ {q} : payment'[o].receipt # payment'[q].receipt
    BY <2>1, <2>2, <2>4, <2>5 DEF ReceiptInv, ReceiptAnnounced, Paid
  <2>6. QED
    BY <2>2, <2>3, <2>4, <2>5 DEF ReceiptAnnounced
<1>2. ASSUME UNCHANGED notices, ~\E s \in Sessions : CommitConfirmation(s) PROVE ReceiptAnnounced'
  <2> SUFFICES ASSUME NEW p \in Payments, Paid(p)'
               PROVE  /\ notices[p] # << >> /\ notices[p][Len(notices[p])] = payment'[p].receipt
                      /\ \A q \in Payments \ {p} : payment'[q].receipt # payment'[p].receipt
    BY <1>2 DEF ReceiptAnnounced
  <2>1. ASSUME NEW q \in Payments
        PROVE  \/ payment'[q] = payment[q]
               \/ payment'[q].receipt = None /\ ~Paid(q)'
               \/ payment'[q].receipt = payment[q].receipt /\ ~Paid(q)'
    <3>1. ASSUME NEW s \in Sessions, tx[s].pay = q, StorePayment(s)
          PROVE  payment'[q].receipt = None /\ ~Paid(q)'
      BY <1>0, <3>1 DEF StorePayment, Paid
    <3>2. ASSUME NEW s \in Sessions, tx[s].pay = q, CommitTimeout(s)
          PROVE  payment'[q].receipt = payment[q].receipt /\ ~Paid(q)'
      BY <1>0, <3>2 DEF CommitTimeout, Paid, Row
    <3>3. QED
      BY <1>2, <3>1, <3>2, RowMoves
  <2>2. payment'[p] = payment[p] /\ Paid(p)
    BY <2>1 DEF Paid
  <2>3. notices[p] # << >> /\ notices[p][Len(notices[p])] = payment[p].receipt
        /\ \A q \in Payments \ {p} : payment[q].receipt # payment[p].receipt
    BY <2>2 DEF ReceiptInv, ReceiptAnnounced
  <2>4. payment[p].receipt # None
    BY <1>0, <2>3, PaymentsAssumption
  <2>5. QED
    BY <2>1, <2>2, <2>3, <2>4
<1>3. ReceiptAnnounced'
  <2>1. CASE \E s \in Sessions : CommitConfirmation(s)
    BY <1>1, <2>1
  <2>2. QED
    BY <1>2, <2>1, NoticeMoves
<1>4. QED
  BY <1>3, FlushedReceipts DEF ReceiptInv

\* A paid payment carries the receipt number of its latest system message, and
\* shares it with no other payment, however its confirmations overlapped.
THEOREM ReceiptsAreAnnounced == Spec => []ReceiptAnnounced
<1>1. TypeInv /\ ReceiptInv /\ [Next]_vars => ReceiptInv'
  BY NextReceiptInv
<1>2. Init => ReceiptInv
  BY DEF Init, ReceiptInv, ReceiptAnnounced, Paid, NoRow, Idle
<1>3. ReceiptInv => ReceiptAnnounced
  BY DEF ReceiptInv
<1>4. QED
  BY <1>1, <1>2, <1>3, InitTypeInv, NextTypeInv, PTL DEF Spec

\* Payments, money, marks and receipts agree, for any number of sessions and crashes.
THEOREM PaymentsAlwaysAgree == Spec => []PaymentsAgree
BY PaymentsTypeCorrect, PaidMoneyWasTaken, PaymentMarksApplication, ReceiptsAreAnnounced, PTL
DEF PaymentsAgree

(***************************************************************************)
(* Sessions that follow one another.  Whoever is about to confirm, to      *)
(* expire or to store a payment finds it as it was when it was loaded; a   *)
(* payment has a notice once it is paid; and a confirmation e-mail is true *)
(* or its session is about to make it true.                                *)
(***************************************************************************)
SerialSessions == \A s, t \in Sessions : s = t

ActsOnUnpaid(t, gw) ==
    /\ t.pc \in {"asking", "expiring"} \cup Confirming => ~Paid(t.pay)
    /\ t.pc = "charged" => payment[t.pay].status = "absent" /\ gw[t.pay] # "none"

AboutToPay(p, r) ==
    \E s \in Sessions : tx[s].pc = "flushed" /\ tx[s].pay = p /\ tx[s].receipt = r

NoticesOnce == \A p \in Payments : Len(notices[p]) <= 1 /\ (~Paid(p) => notices[p] = << >>)

MailInv ==
    \A p \in Payments, r \in Receipts :
        crashes = 0 /\ <<p, r>> \in mailed
            => AboutToPay(p, r) \/ (Paid(p) /\ payment[p].receipt = r)

OnceInv ==
    /\ \A s \in Sessions : ActsOnUnpaid(tx[s], gateway)
    /\ \A p \in Payments : gateway[p] = "none" => payment[p].status = "absent"
    /\ NoticesOnce
    /\ MailInv

-----------------------------------------------------------------------------
(* Sessions that follow one another *)

LEMMA InitOnceInv == Init => OnceInv
<1> SUFFICES ASSUME Init PROVE OnceInv
  OBVIOUS
<1>1. \A s \in Sessions : ActsOnUnpaid(tx[s], gateway)
  BY DEF Init, ActsOnUnpaid, Confirming, Idle
<1>2. \A p \in Payments : payment[p].status = "absent" /\ notices[p] = << >>
  BY DEF Init, NoRow
<1>3. NoticesOnce
  BY <1>2 DEF NoticesOnce
<1>4. MailInv
  BY DEF Init, MailInv
<1>5. QED BY <1>1, <1>2, <1>3, <1>4 DEF OnceInv

\* The only session moves on, and writes nothing that others read.
LEMMA OnceReadingStep ==
    ASSUME SerialSessions, TypeInv, OnceInv, NEW s \in Sessions, NEW u \in Session, Become(s, u),
           UNCHANGED <<payment, notices, mailed>>,
           \A p \in Payments : gateway'[p] = "none" => gateway[p] = "none",
           ActsOnUnpaid(u, gateway'), crashes' = 0 => crashes = 0 /\ tx[s].pc # "flushed"
    PROVE  OnceInv'
<1>1. \A q \in Sessions : q = s /\ tx'[q] = u
  BY OneSession DEF SerialSessions, TypeInv
<1>2. \A q \in Sessions : ActsOnUnpaid(tx[q], gateway)'
  BY <1>1 DEF ActsOnUnpaid, Paid
<1>3. MailInv'
  <2> SUFFICES ASSUME NEW p \in Payments, NEW r \in Receipts, crashes' = 0, <<p, r>> \in mailed'
               PROVE  (Paid(p) /\ payment[p].receipt = r)'
    BY DEF MailInv
  <2>1. ~AboutToPay(p, r)
    BY <1>1 DEF AboutToPay
  <2>2. QED
    BY <2>1 DEF OnceInv, MailInv, Paid
<1>4. QED
  BY <1>2, <1>3 DEF OnceInv, NoticesOnce, Paid

LEMMA IdleActs == ActsOnUnpaid(Idle, gateway) /\ Idle.pc = "idle"
BY DEF ActsOnUnpaid, Idle, Confirming

LEMMA OnceBegins ==
    ASSUME SerialSessions, TypeInv, OnceInv, NEW s \in Sessions,
           \/ BeginRequest(s)
           \/ InitiateRaises(s)
           \/ EnqueueFollowUp(s)
           \/ Crash(s)
    PROVE  OnceInv'
<1>0. tx[s] \in Session /\ SessionOK(tx[s]) /\ crashes \in Nat
      /\ gateway \in [Payments -> {"none", "open", "paid", "failed"}]
  BY DEF TypeInv, TypeOK
<1>1. ASSUME NEW x \in Apps, NEW method \in Methods, Initiate(s, x, method) PROVE OnceInv'
  <2> DEFINE u == [Idle EXCEPT !.src = "initiate", !.pc = "loaded", !.app = x, !.method = method]
  <2>1. u \in Session /\ u.pc = "loaded"
    BY DEF Idle, Session
  <2>2. ActsOnUnpaid(u, gateway)
    BY <2>1 DEF ActsOnUnpaid, Confirming
  <2>3. Become(s, u) /\ UNCHANGED <<payment, notices, mailed, gateway, crashes>> /\ tx[s].pc # "flushed"
    BY <1>1, IdleActs DEF Initiate, tables, Free
  <2> HIDE DEF u
  <2>4. QED
    BY <2>1, <2>2, <2>3, OnceReadingStep
<1>2. ASSUME NEW p \in Payments, Poll(s, p) \/ Webhook(s, p) PROVE OnceInv'
  <2>1. PICK src \in {"poll", "webhook"}, pc \in {"asking", "confirming"} : Become(s, Begin(src, pc, p))
    BY <1>2 DEF Poll, Webhook
  <2> DEFINE u == Begin(src, pc, p)
  <2>2. u \in Session /\ u.pc = pc /\ u.pay = p
    BY DEF Begin, Idle, Session
  <2>3. ~Paid(p)
    BY <1>2 DEF Poll, Webhook, Confirmable, Paid
  <2>4. ActsOnUnpaid(u, gateway)
    BY <2>2, <2>3 DEF ActsOnUnpaid
  <2>5. UNCHANGED <<payment, notices, mailed, gateway, crashes>> /\ tx[s].pc # "flushed"
    BY <1>2, IdleActs DEF Poll, Webhook, tables, Free
  <2>6. Become(s, u)
    BY <2>1
  <2> HIDE DEF u
  <2>7. QED
    BY <2>2, <2>4, <2>5, <2>6, OnceReadingStep
<1>3. CASE InitiateRaises(s) \/ EnqueueFollowUp(s) \/ Crash(s)
  <2>1. Become(s, Idle) /\ UNCHANGED <<payment, notices, mailed, gateway>>
    BY <1>3 DEF InitiateRaises, EnqueueFollowUp, Crash, tables
  <2>2. crashes' = 0 => crashes = 0 /\ tx[s].pc # "flushed"
    BY <1>0, <1>3 DEF InitiateRaises, EnqueueFollowUp, Crash
  <2>3. QED
    BY <2>1, <2>2, IdleOK, IdleActs, OnceReadingStep
<1>4. QED
  BY <1>1, <1>2, <1>3 DEF BeginRequest

LEMMA OnceCharges ==
    ASSUME SerialSessions, TypeInv, OnceInv, NEW s \in Sessions,
           NEW p \in Payments, NEW answer \in {"open", "paid", "failed"}, Charge(s, p, answer)
    PROVE  OnceInv'
<1> DEFINE u == [tx[s] EXCEPT !.pc = "charged", !.pay = p]
<1>1. tx[s] \in Session /\ gateway \in [Payments -> {"none", "open", "paid", "failed"}]
  BY DEF TypeInv, TypeOK
<1>2. u \in Session /\ u.pc = "charged" /\ u.pay = p
  BY <1>1 DEF Session
<1>3. /\ Become(s, u) /\ UNCHANGED <<payment, notices, mailed, crashes>> /\ tx[s].pc # "flushed"
      /\ gateway' = [gateway EXCEPT ![p] = answer] /\ gateway[p] = "none"
  BY DEF Charge, tables
<1> HIDE DEF u
<1>4. payment'[p].status = "absent" /\ gateway'[p] # "none"
  BY <1>1, <1>3 DEF OnceInv
<1>5. ActsOnUnpaid(u, gateway')
  BY <1>2, <1>3, <1>4 DEF ActsOnUnpaid, Confirming
<1>6. \A o \in Payments : gateway'[o] = "none" => gateway[o] = "none"
  BY <1>1, <1>3
<1>7. QED
  BY <1>2, <1>3, <1>5, <1>6, OnceReadingStep

LEMMA OncePicksUp ==
    ASSUME SerialSessions, TypeInv, OnceInv, NEW s \in Sessions, PickUp(s)
    PROVE  OnceInv'
<1>1. PICK j \in Job : PickUpJob(s, j) \/ JobRaises(s, j)
  BY DEF PickUp
<1>2. UNCHANGED <<payment, notices, mailed, gateway, crashes>> /\ tx[s].pc # "flushed" /\ tx[s].pc = "idle"
  BY <1>1, IdleActs DEF PickUpJob, JobRaises, tables, Free
<1>3. CASE UNCHANGED tx
  <2>1. Become(s, tx[s]) /\ tx[s] \in Session /\ ActsOnUnpaid(tx[s], gateway)
    BY <1>3 DEF Become, TypeInv, TypeOK, OnceInv
  <2>2. QED
    BY <1>2, <2>1, OnceReadingStep
<1>4. CASE ~UNCHANGED tx
  <2>1. PickUpJob(s, j)
    BY <1>1, <1>4 DEF JobRaises
  <2> DEFINE pc == IF j.fn = "timeout" THEN "asking" ELSE "confirming"
             u == Begin(j.fn, pc, j.pay)
  <2>2. Become(s, u) /\ ~Paid(j.pay)
    BY <1>4, <2>1 DEF PickUpJob, Confirmable, Paid
  <2>3. u \in Session /\ u.pc \in {"asking", "confirming"} /\ u.pay = j.pay
    BY DEF Begin, Idle, Session, Job
  <2>4. ActsOnUnpaid(u, gateway)
    BY <2>2, <2>3 DEF ActsOnUnpaid
  <2> HIDE DEF u
  <2>5. QED
    BY <1>2, <2>2, <2>3, <2>4, OnceReadingStep
<1>5. QED
  BY <1>3, <1>4

LEMMA OnceDraws ==
    ASSUME SerialSessions, TypeInv, OnceInv, NEW s \in Sessions, NEW r \in Receipts, DrawReceipt(s, r)
    PROVE  OnceInv'
<1> DEFINE u == [tx[s] EXCEPT !.pc = "flushing", !.receipt = r]
<1>1. tx[s] \in Session /\ ActsOnUnpaid(tx[s], gateway)
  BY DEF TypeInv, TypeOK, OnceInv
<1>2. u \in Session /\ u.pc = "flushing" /\ u.pay = tx[s].pay
  BY <1>1 DEF Session
<1>3. Become(s, u) /\ tx[s].pc = "confirming" /\ UNCHANGED <<payment, notices, mailed, gateway, crashes>>
  BY DEF DrawReceipt, tables
<1> HIDE DEF u
<1>4. ActsOnUnpaid(u, gateway)
  BY <1>1, <1>2, <1>3 DEF ActsOnUnpaid, Confirming
<1>5. ActsOnUnpaid(u, gateway')
  BY <1>3, <1>4 DEF ActsOnUnpaid, Paid
<1>6. QED
  BY <1>2, <1>3, <1>5, OnceReadingStep

\* Up to the flush, which queues the e-mail of a number that is not committed yet.
LEMMA OnceConfirms ==
    ASSUME SerialSessions, TypeInv, OnceInv, NEW s \in Sessions,
           \/ AskGateway(s)
           \/ FlushConfirmation(s)
           \/ ConfirmationFails(s)
           \/ JobAck(s)
    PROVE  OnceInv'
<1>0. tx[s] \in Session /\ SessionOK(tx[s]) /\ ActsOnUnpaid(tx[s], gateway)
  BY DEF TypeInv, TypeOK, OnceInv
<1>1. CASE AskGateway(s)
  <2>1. PICK pc \in {"confirming", "expiring"} : Become(s, [tx[s] EXCEPT !.pc = pc]) \/ Become(s, Idle)
    BY <1>1 DEF AskGateway
  <2> DEFINE u == [tx[s] EXCEPT !.pc = pc]
  <2>2. u \in Session /\ u.pc = pc /\ u.pay = tx[s].pay
    BY <1>0 DEF Session
  <2>3. tx[s].pc = "asking" /\ UNCHANGED <<payment, notices, mailed, gateway, crashes>>
    BY <1>1 DEF AskGateway, tables
  <2>4. ActsOnUnpaid(u, gateway)
    BY <1>0, <2>2, <2>3 DEF ActsOnUnpaid
  <2>5. Become(s, u) \/ Become(s, Idle)
    BY <2>1
  <2> HIDE DEF u
  <2>6. QED
    BY <2>2, <2>3, <2>4, <2>5, IdleOK, IdleActs, OnceReadingStep
<1>2. CASE FlushConfirmation(s)
  <2> DEFINE u == [tx[s] EXCEPT !.pc = "flushed"]
             n == tx[s].receipt
             o == tx[s].pay
  <2>1. u \in Session /\ u.pc = "flushed" /\ u.pay = o /\ u.receipt = n
    BY <1>0 DEF Session
  <2>2. /\ Become(s, u) /\ tx[s].pc = "flushing" /\ UNCHANGED <<payment, notices, gateway, crashes>>
        /\ mailed' \subseteq mailed \cup {<<o, n>>}
    BY <1>2 DEF FlushConfirmation, tables
  <2> HIDE DEF u
  <2>3. \A q \in Sessions : q = s /\ tx'[q] = u
    BY <2>1, <2>2, OneSession DEF SerialSessions, TypeInv
  <2>4. ActsOnUnpaid(u, gateway)
    BY <1>0, <2>1, <2>2 DEF ActsOnUnpaid, Confirming
  <2>5. \A q \in Sessions : ActsOnUnpaid(tx[q], gateway)'
    BY <2>2, <2>3, <2>4 DEF ActsOnUnpaid, Paid
  <2>6. MailInv'
    <3> SUFFICES ASSUME NEW p \in Payments, NEW r \in Receipts, crashes' = 0, <<p, r>> \in mailed'
                 PROVE  (AboutToPay(p, r) \/ (Paid(p) /\ payment[p].receipt = r))'
      BY DEF MailInv
    <3>1. CASE <<p, r>> = <<o, n>>
      BY <2>1, <2>3, <3>1 DEF AboutToPay
    <3>2. CASE <<p, r>> \in mailed
      <4>1. ~AboutToPay(p, r)
        BY <2>2, <2>3 DEF AboutToPay
      <4>2. Paid(p) /\ payment[p].receipt = r
        BY <2>2, <3>2, <4>1 DEF OnceInv, MailInv
      <4>3. QED BY <2>2, <4>2 DEF Paid
    <3>3. QED BY <2>2, <3>1, <3>2
  <2>7. QED
    BY <2>2, <2>5, <2>6 DEF OnceInv, NoticesOnce, Paid
<1>3. CASE ConfirmationFails(s) \/ JobAck(s)
  <2>1. Become(s, Idle) /\ UNCHANGED <<payment, notices, mailed, gateway, crashes>> /\ tx[s].pc # "flushed"
    BY <1>3 DEF ConfirmationFails, JobAck, Finish, tables
  <2>2. QED
    BY <2>1, IdleOK, IdleActs, OnceReadingStep
<1>4. QED
  BY <1>1, <1>2, <1>3

\* The commits rewrite the row of a payment that is not paid.
LEMMA OnceCommits ==
    ASSUME SerialSessions, TypeInv, OnceInv, NEW s \in Sessions,
           StorePayment(s) \/ CommitConfirmation(s) \/ CommitTimeout(s)
    PROVE  OnceInv'
<1> DEFINE o == tx[s].pay
           n == tx[s].receipt
<1>0. /\ tx[s] \in Session /\ SessionOK(tx[s]) /\ ActsOnUnpaid(tx[s], gateway) /\ payment \in [Payments -> Row]
      /\ notices \in [Payments -> Seq(Receipts)]
  BY DEF TypeInv, TypeOK, OnceInv
<1>1. o \in Payments
  BY <1>0 DEF StorePayment, CommitConfirmation, CommitTimeout, SessionOK, SessionFits
<1>2. ~Paid(o)
  BY <1>0 DEF StorePayment, CommitConfirmation, CommitTimeout, ActsOnUnpaid, Confirming, Paid
<1>3. notices[o] = << >>
  BY <1>1, <1>2 DEF OnceInv, NoticesOnce
<1>4. PICK u \in Session : Become(s, u) /\ u.pc \in {"idle", "enqueue", "done"}
  <2>1. \A pc \in {"enqueue", "done"} : [tx[s] EXCEPT !.pc = pc] \in Session /\ [tx[s] EXCEPT !.pc = pc].pc = pc
    BY <1>0 DEF Session
  <2>2. \/ Become(s, Idle)
        \/ \E pc \in {"enqueue", "done"} : Become(s, [tx[s] EXCEPT !.pc = pc])
    BY DEF StorePayment, CommitConfirmation, CommitTimeout
  <2>3. QED
    BY <2>1, <2>2, IdleOK
<1>5. \A q \in Sessions : q = s /\ tx'[q] = u
  BY <1>4, OneSession DEF SerialSessions, TypeInv
<1>6. \A q \in Sessions : ActsOnUnpaid(tx[q], gateway)'
  BY <1>4, <1>5 DEF ActsOnUnpaid, Confirming
<1>7. UNCHANGED <<mailed, gateway, crashes>>
  BY DEF StorePayment, CommitConfirmation, CommitTimeout
<1>8. \A p \in Payments : p # o => payment'[p] = payment[p] /\ notices'[p] = notices[p]
  BY <1>0, <1>1 DEF StorePayment, CommitConfirmation, CommitTimeout
<1>9. CASE CommitConfirmation(s)
  <2>1. payment'[o].status = "paid" /\ payment'[o].receipt = n
    BY <1>0, <1>1, <1>9 DEF CommitConfirmation, Row
  <2>2. n \in Receipts
    BY <1>0, <1>9 DEF CommitConfirmation, SessionOK, SessionFits
  <2>3. notices'[o] = Append(<< >>, n)
    BY <1>0, <1>1, <1>3, <1>9 DEF CommitConfirmation, Notice
  <2>4. Len(notices'[o]) <= 1
    BY <2>2, <2>3
  <2>5. NoticesOnce'
    <3> SUFFICES ASSUME NEW p \in Payments
                 PROVE  (Len(notices[p]) <= 1 /\ (~Paid(p) => notices[p] = << >>))'
      BY DEF NoticesOnce
    <3>1. CASE p = o
      <4>1. Len(notices'[p]) <= 1
        BY <2>4, <3>1
      <4>2. Paid(p)'
        BY <2>1, <3>1 DEF Paid
      <4>3. QED BY <4>1, <4>2
    <3>2. CASE p # o
      BY <1>8, <3>2 DEF OnceInv, NoticesOnce, Paid
    <3>3. QED BY <3>1, <3>2
  <2>6. MailInv'
    <3> SUFFICES ASSUME NEW p \in Payments, NEW r \in Receipts, crashes' = 0, <<p, r>> \in mailed'
                 PROVE  (Paid(p) /\ payment[p].receipt = r)'
      BY DEF MailInv
    <3>1. AboutToPay(p, r) \/ (Paid(p) /\ payment[p].receipt = r)
      BY <1>7 DEF OnceInv, MailInv
    <3>2. CASE AboutToPay(p, r)
      <4>1. p = o /\ r = n
        BY <1>5, <3>2 DEF AboutToPay
      <4>2. QED BY <2>1, <4>1 DEF Paid
    <3>3. CASE Paid(p) /\ payment[p].receipt = r
      BY <1>2, <1>8, <3>3 DEF Paid
    <3>4. QED BY <3>1, <3>2, <3>3
  <2>7. \A p \in Payments : gateway'[p] = "none" => payment'[p].status = "absent"
    <3>1. payment[o].status # "absent"
      BY <1>0, <1>9 DEF CommitConfirmation, SessionOK, SessionFits, Confirming
    <3>2. gateway[o] # "none"
      BY <1>1, <3>1 DEF OnceInv
    <3>3. QED BY <1>7, <1>8, <3>2 DEF OnceInv
  <2>8. QED BY <1>6, <2>5, <2>6, <2>7 DEF OnceInv
<1>10. CASE StorePayment(s) \/ CommitTimeout(s)
  <2>1. payment'[o].status \in {"processing", "pending", "timed_out"}
    BY <1>0, <1>1, <1>10 DEF StorePayment, CommitTimeout, Row
  <2>2. UNCHANGED notices /\ tx[s].pc \in {"charged", "expiring"}
    BY <1>10 DEF StorePayment, CommitTimeout
  <2>3. NoticesOnce'
    <3> SUFFICES ASSUME NEW p \in Payments
                 PROVE  Len(notices[p]) <= 1 /\ (~Paid(p)' => notices[p] = << >>)
      BY <2>2 DEF NoticesOnce
    <3>1. CASE p = o
      BY <1>3, <3>1
    <3>2. CASE p # o
      BY <1>8, <3>2 DEF OnceInv, NoticesOnce, Paid
    <3>3. QED BY <3>1, <3>2
  <2>4. MailInv'
    <3> SUFFICES ASSUME NEW p \in Payments, NEW r \in Receipts, crashes' = 0, <<p, r>> \in mailed'
                 PROVE  (Paid(p) /\ payment[p].receipt = r)'
      BY DEF MailInv
    <3>1. ~AboutToPay(p, r)
      BY <1>5, <2>2 DEF AboutToPay
    <3>2. Paid(p) /\ payment[p].receipt = r
      BY <1>7, <3>1 DEF OnceInv, MailInv
    <3>3. QED BY <1>2, <1>8, <3>2 DEF Paid
  <2>5. \A p \in Payments : gateway'[p] = "none" => payment'[p].status = "absent"
    <3>1. tx[s].pc = "expiring" => payment[o].status # "absent"
      BY <1>0 DEF SessionOK, SessionFits
    <3>2. gateway[o] # "none"
      BY <1>0, <1>1, <2>2, <3>1 DEF OnceInv, ActsOnUnpaid
    <3>3. QED BY <1>7, <1>8, <3>2 DEF OnceInv
  <2>6. QED BY <1>6, <2>3, <2>4, <2>5 DEF OnceInv
<1>11. QED BY <1>9, <1>10

LEMMA NextOnceInv ==
    ASSUME SerialSessions, TypeInv, OnceInv, [Next]_vars
    PROVE  OnceInv'
<1>1. ASSUME NEW s \in Requests, BeginRequest(s) PROVE OnceInv'
  BY <1>1, OnceBegins DEF Sessions
<1>2. ASSUME NEW s \in Workers, PickUp(s) PROVE OnceInv'
  BY <1>2, OncePicksUp DEF Sessions
<1>3. ASSUME NEW s \in Sessions, Advance(s) \/ Crash(s) PROVE OnceInv'
  BY <1>3, OnceBegins, OnceCharges, OnceDraws, OnceConfirms, OnceCommits DEF Advance
<1>4. ASSUME NEW p \in Payments, NEW answer \in {"paid", "failed"}, GatewaySettles(p, answer)
      PROVE  OnceInv'
  <2>1. UNCHANGED <<payment, notices, mailed, tx, crashes>>
    BY <1>4 DEF GatewaySettles, tables
  <2>2. \A q \in Payments : gateway'[q] = "none" => gateway[q] = "none"
    BY <1>4 DEF GatewaySettles, TypeInv, TypeOK
  <2>3. \A s \in Sessions : ActsOnUnpaid(tx[s], gateway)'
    <3> SUFFICES ASSUME NEW s \in Sessions PROVE ActsOnUnpaid(tx[s], gateway')
      BY <2>1 DEF ActsOnUnpaid, Paid
    <3>1. SessionOK(tx[s]) /\ ActsOnUnpaid(tx[s], gateway)
      BY DEF TypeInv, OnceInv
    <3>2. QED BY <2>2, <3>1 DEF SessionOK, SessionFits, ActsOnUnpaid
  <2>4. NoticesOnce' /\ MailInv'
    BY <2>1 DEF OnceInv, NoticesOnce, MailInv, AboutToPay, Paid
  <2>5. \A q \in Payments : gateway'[q] = "none" => payment'[q].status = "absent"
    BY <2>1, <2>2 DEF OnceInv
  <2>6. QED
    BY <2>3, <2>4, <2>5 DEF OnceInv
<1>5. CASE UNCHANGED vars
  BY <1>5 DEF vars, tables, OnceInv, ActsOnUnpaid, NoticesOnce, MailInv, AboutToPay, Paid
<1>6. QED
  BY <1>1, <1>2, <1>3, <1>4, <1>5 DEF Next

\* Sessions that follow one another confirm a payment to the client once, though
\* the poll, the webhook and the jobs may all be sent for it, and die on the way.
THEOREM ClientsAreToldOnce == SerialSessions => (Spec => []ConfirmedOnce)
<1> SUFFICES ASSUME SerialSessions PROVE Spec => []ConfirmedOnce
  OBVIOUS
<1>1. TypeInv /\ OnceInv /\ [Next]_vars => OnceInv'
  BY NextOnceInv
<1>2. OnceInv => ConfirmedOnce
  BY DEF OnceInv, NoticesOnce, ConfirmedOnce
<1>3. QED
  BY <1>1, <1>2, InitTypeInv, NextTypeInv, InitOnceInv, PTL DEF Spec

\* Unless a process dies, a confirmation e-mail of sessions that follow one another
\* is true once its session is over, and stays true.
THEOREM MailStaysTrue == SerialSessions => (Spec => []MailTellsTruth)
<1> SUFFICES ASSUME SerialSessions PROVE Spec => []MailTellsTruth
  OBVIOUS
<1>1. TypeInv /\ OnceInv /\ [Next]_vars => OnceInv'
  BY NextOnceInv
<1>2. OnceInv => MailTellsTruth
  BY DEF OnceInv, MailInv, AboutToPay, MailTellsTruth
<1>3. QED
  BY <1>1, <1>2, InitTypeInv, NextTypeInv, InitOnceInv, PTL DEF Spec
=============================================================================
