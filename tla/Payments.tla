------------------------------- MODULE Payments -------------------------------
(***************************************************************************)
(* Payments for applications: src/app/modules/payments/service.py, its two *)
(* deferred jobs, and the gateway of src/app/core/payments.py.             *)
(*                                                                         *)
(* A payment may be confirmed by the client's poll, by the provider's      *)
(* webhook, by the card job and by the timeout job, each in a database     *)
(* session of its own that decides on the row it loaded.  confirm_payment  *)
(* flushes its writes, and so holds the rows it changed, before it queues  *)
(* the e-mail and its caller commits.                                      *)
(***************************************************************************)
EXTENDS Integers, Sequences

CONSTANTS
    Apps,         \* applications
    Payments,     \* payment ids
    Receipts,     \* receipt numbers
    None,         \* SQL NULL
    Requests,     \* sessions of the API process
    Workers,      \* sessions of the ARQ workers
    Configured,   \* those in processes that called db_manager.configure (worker.py does not)
    MomoAnswers,  \* what the gateway may say right after a mobile money push
    MaxCrashes    \* bound on sessions lost to a crash

Sessions == Requests \cup Workers

ASSUME PaymentsAssumption ==
    /\ None \notin Apps \cup Payments \cup Receipts
    /\ Configured \subseteq Workers
    /\ MomoAnswers \subseteq {"open", "paid", "failed"}
    /\ MaxCrashes \in Nat

VARIABLES
    appPaid,   \* the applications with payment_status "paid"
    payment,   \* rows of the payments table
    notices,   \* receipt numbers of the system messages written for each payment
    mailed,    \* confirmation e-mails in the queue: <<payment, receipt number>>
    gateway,   \* the provider's side of each payment
    jobs,      \* deferred jobs in the ARQ queue
    tx,        \* what each session has loaded and decided
    crashes

tables == <<appPaid, payment, notices>>
vars == <<tables, mailed, gateway, jobs, tx, crashes>>

-----------------------------------------------------------------------------
Methods == {"momo", "card"}

Row == [app     : Apps \cup {None},
        method  : Methods \cup {"none"},
        status  : {"absent", "processing", "pending", "timed_out", "paid"},
        receipt : Receipts \cup {None}]

NoRow == [app |-> None, method |-> "none", status |-> "absent", receipt |-> None]

Job == [fn : {"timeout", "confirm"}, pay : Payments]

Session == [src     : {"none", "initiate", "poll", "webhook", "timeout", "confirm"},
            pc      : {"idle", "loaded", "charged", "enqueue", "asking", "confirming",
                       "flushing", "flushed", "expiring", "done"},
            pay     : Payments \cup {None},
            app     : Apps \cup {None},
            method  : Methods \cup {"none"},
            receipt : Receipts \cup {None}]

Idle == [src |-> "none", pc |-> "idle", pay |-> None, app |-> None,
         method |-> "none", receipt |-> None]

Begin(src, pc, p) == [Idle EXCEPT !.src = src, !.pc = pc, !.pay = p]

Free(s, slots) == s \in slots /\ tx[s] = Idle

JobOf(s) == [fn |-> tx[s].src, pay |-> tx[s].pay]

InWorker(s) == tx[s].src \in {"timeout", "confirm"}

Become(s, t) == tx' = [tx EXCEPT ![s] = t]

\* The session ends; a job that returned or raised leaves the queue.
Finish(s) ==
    /\ jobs' = IF InWorker(s) THEN jobs \ {JobOf(s)} ELSE jobs
    /\ Become(s, Idle)

\* A flush holds the row of the payment.  (It may hold the application's too,
\* but what a confirmation writes there does not depend on what is there.)
RowLocked(s, p) == \E t \in Sessions \ {s} : tx[t].pc = "flushed" /\ tx[t].pay = p

-----------------------------------------------------------------------------
Init ==
    /\ appPaid = {}
    /\ payment = [p \in Payments |-> NoRow]
    /\ notices = [p \in Payments |-> << >>]
    /\ mailed = {}
    /\ gateway = [p \in Payments |-> "none"]
    /\ jobs = {}
    /\ tx = [s \in Sessions |-> Idle]
    /\ crashes = 0

-----------------------------------------------------------------------------
(* initiate_payment *)

\* A card charge is approved or declined at once.
Answers(method) == IF method = "momo" THEN MomoAnswers ELSE {"paid", "failed"}

\* It loads an application that is not paid yet, ...
Initiate(s, x, method) ==
    /\ Free(s, Requests)
    /\ x \notin appPaid
    /\ Become(s, [Idle EXCEPT !.src = "initiate", !.pc = "loaded", !.app = x, !.method = method])
    /\ UNCHANGED <<tables, mailed, gateway, jobs, crashes>>

\* ... calls the gateway under a new id before anything is stored,
Charge(s, p, answer) ==
    /\ tx[s].pc = "loaded"
    /\ gateway[p] = "none"
    /\ answer \in Answers(tx[s].method)
    /\ gateway' = [gateway EXCEPT ![p] = answer]
    /\ Become(s, [tx[s] EXCEPT !.pc = "charged", !.pay = p])
    /\ UNCHANGED <<tables, mailed, jobs, crashes>>

\* or raises: the tier is gone, the number is missing, the method is unknown.
InitiateRaises(s) ==
    /\ tx[s].pc = "loaded"
    /\ Become(s, Idle)
    /\ UNCHANGED <<tables, mailed, gateway, jobs, crashes>>

\* Mutation: the push has no timeout.
FollowUpCardsOnly(method, answer) == method = "card" /\ answer = "paid"

\* A push is always followed by its timeout, a charge by a confirmation if it
\* was approved.
FollowUp(method, answer) == method = "momo" \/ answer = "paid"

StorePayment(s) ==
    LET t == tx[s]
    IN  /\ t.pc = "charged"
        /\ payment' = [payment EXCEPT ![t.pay] =
                          [app |-> t.app, method |-> t.method, receipt |-> None,
                           status |-> IF t.method = "momo" THEN "processing" ELSE "pending"]]
        /\ Become(s, IF FollowUp(t.method, gateway[t.pay])
                     THEN [t EXCEPT !.pc = "enqueue"] ELSE Idle)
        /\ UNCHANGED <<appPaid, notices, mailed, gateway, jobs, crashes>>

\* the enqueue that follows the commit, deferred by 120 or 3 seconds
EnqueueFollowUp(s) ==
    LET t == tx[s]
    IN  /\ t.pc = "enqueue"
        /\ jobs' = jobs \cup {[fn  |-> IF t.method = "momo" THEN "timeout" ELSE "confirm",
                               pay |-> t.pay]}
        /\ Become(s, Idle)
        /\ UNCHANGED <<tables, mailed, gateway, crashes>>

-----------------------------------------------------------------------------
(* Ways into confirm_payment *)

\* get_payment_status asks the gateway about a payment it loaded as processing.
Poll(s, p) ==
    /\ Free(s, Requests)
    /\ payment[p].status = "processing"
    /\ Become(s, Begin("poll", "asking", p))
    /\ UNCHANGED <<tables, mailed, gateway, jobs, crashes>>

\* Mutation: confirm_payment forgets to look at the status.
ConfirmableAlways(p) == TRUE

\* confirm_payment returns on a paid row and raises on a timed-out one.
Confirmable(p) == payment[p].status \notin {"paid", "timed_out"}

\* handle_card_webhook: the provider reports a transaction it has charged.
Webhook(s, p) ==
    /\ Free(s, Requests)
    /\ payment[p].status # "absent"
    /\ gateway[p] = "paid"
    /\ Confirmable(p)
    /\ Become(s, Begin("webhook", "confirming", p))
    /\ UNCHANGED <<tables, mailed, gateway, jobs, crashes>>

\* payment_timeout_job acts on a payment that is still processing,
\* payment_card_confirm_job on one that can be confirmed.  A job id runs in one
\* worker at a time.
Queued(j) ==
    /\ j \in jobs
    /\ \A t \in Workers : ~(InWorker(t) /\ JobOf(t) = j)

PickUpJob(s, j) ==
    /\ Free(s, Configured) /\ Queued(j)
    /\ LET goesOn == IF j.fn = "timeout" THEN payment[j.pay].status = "processing"
                                         ELSE Confirmable(j.pay)
       IN  \/ /\ goesOn
              /\ Become(s, Begin(j.fn, IF j.fn = "timeout" THEN "asking" ELSE "confirming", j.pay))
              /\ UNCHANGED jobs
           \/ /\ ~goesOn
              /\ jobs' = jobs \ {j}
              /\ UNCHANGED tx
    /\ UNCHANGED <<tables, mailed, gateway, crashes>>

\* In a process without a session factory the job raises, and is not retried.
JobRaises(s, j) ==
    /\ Free(s, Workers \ Configured) /\ Queued(j)
    /\ jobs' = jobs \ {j}
    /\ UNCHANGED <<tables, mailed, gateway, tx, crashes>>

\* Mutation: the answer of the gateway is misread.
SaysPaidNever(p) == FALSE

SaysPaid(p) == gateway[p] = "paid"

\* check_transaction_status.  The session confirms on its loaded copy: the
\* second get_by_id finds the same object.
AskGateway(s) ==
    LET t == tx[s]
    IN  /\ t.pc = "asking"
        /\ \/ /\ SaysPaid(t.pay)
              /\ Become(s, [t EXCEPT !.pc = "confirming"])
           \/ /\ ~SaysPaid(t.pay) /\ t.src = "timeout"
              /\ Become(s, [t EXCEPT !.pc = "expiring"])
           \/ /\ ~SaysPaid(t.pay) /\ t.src = "poll"
              /\ Become(s, Idle)
        /\ UNCHANGED <<tables, mailed, gateway, jobs, crashes>>

-----------------------------------------------------------------------------
(* confirm_payment and the commit of its caller *)

Issued == {payment[p].receipt : p \in Payments}

\* _generate_receipt_number: a number that no committed payment has
DrawReceipt(s, r) ==
    /\ tx[s].pc = "confirming"
    /\ r \in Receipts \ Issued
    /\ Become(s, [tx[s] EXCEPT !.pc = "flushing", !.receipt = r])
    /\ UNCHANGED <<tables, mailed, gateway, jobs, crashes>>

\* create_system_message flushes: the row is locked and the receipt number is
\* unique.  Requests queue the e-mail next; the jobs have no queue to use.
FlushConfirmation(s) ==
    LET t == tx[s]
    IN  /\ t.pc = "flushing"
        /\ ~RowLocked(s, t.pay)
        /\ \A q \in Sessions : tx[q].pc = "flushed" => tx[q].receipt # t.receipt
        /\ \A p \in Payments \ {t.pay} : payment[p].receipt # t.receipt
        /\ mailed' = IF InWorker(s) THEN mailed ELSE mailed \cup {<<t.pay, t.receipt>>}
        /\ Become(s, [t EXCEPT !.pc = "flushed"])
        /\ UNCHANGED <<tables, gateway, jobs, crashes>>

\* Nothing confirms: every number is taken, or another payment got this one.
ConfirmationFails(s) ==
    LET t == tx[s]
    IN  /\ \/ t.pc = "confirming" /\ Receipts \subseteq Issued
           \/ /\ t.pc = "flushing"
              /\ \E p \in Payments \ {t.pay} : payment[p].receipt = t.receipt
        /\ Finish(s)
        /\ UNCHANGED <<tables, mailed, gateway, crashes>>

\* Mutations of the writes of a confirmation.
MarkNoApp(p) == appPaid
NoticeOnce(p, r) == IF notices[p] = << >> THEN <<r>> ELSE notices[p]

MarkApp(p) == appPaid \cup {payment[p].app}

Notice(p, r) == Append(notices[p], r)

CommitConfirmation(s) ==
    LET t == tx[s]
        p == t.pay
    IN  /\ t.pc = "flushed"
        /\ payment' = [payment EXCEPT ![p].status = "paid", ![p].receipt = t.receipt]
        /\ appPaid' = MarkApp(p)
        /\ notices' = [notices EXCEPT ![p] = Notice(p, t.receipt)]
        /\ Become(s, IF InWorker(s) THEN [t EXCEPT !.pc = "done"] ELSE Idle)
        /\ UNCHANGED <<mailed, gateway, jobs, crashes>>

\* the other outcome of the timeout job
CommitTimeout(s) ==
    LET t == tx[s]
    IN  /\ t.pc = "expiring"
        /\ ~RowLocked(s, t.pay)
        /\ payment' = [payment EXCEPT ![t.pay].status = "timed_out"]
        /\ Become(s, [t EXCEPT !.pc = "done"])
        /\ UNCHANGED <<appPaid, notices, mailed, gateway, jobs, crashes>>

JobAck(s) ==
    /\ tx[s].pc = "done"
    /\ Finish(s)
    /\ UNCHANGED <<tables, mailed, gateway, crashes>>

-----------------------------------------------------------------------------
\* The subscriber answers the push, or the provider gives up on it.
GatewaySettles(p, answer) ==
    /\ gateway[p] = "open"
    /\ gateway' = [gateway EXCEPT ![p] = answer]
    /\ UNCHANGED <<tables, mailed, jobs, tx, crashes>>

\* The process of a session dies: its transaction rolls back, a job stays queued.
Crash(s) ==
    /\ tx[s] # Idle /\ crashes < MaxCrashes
    /\ crashes' = crashes + 1
    /\ Become(s, Idle)
    /\ UNCHANGED <<tables, mailed, gateway, jobs>>

BeginRequest(s) ==
    \/ \E x \in Apps, method \in Methods : Initiate(s, x, method)
    \/ \E p \in Payments : Poll(s, p) \/ Webhook(s, p)

Advance(s) ==
    \/ \E p \in Payments, answer \in {"open", "paid", "failed"} : Charge(s, p, answer)
    \/ InitiateRaises(s)
    \/ StorePayment(s)
    \/ EnqueueFollowUp(s)
    \/ AskGateway(s)
    \/ \E r \in Receipts : DrawReceipt(s, r)
    \/ FlushConfirmation(s)
    \/ ConfirmationFails(s)
    \/ CommitConfirmation(s)
    \/ CommitTimeout(s)
    \/ JobAck(s)

PickUp(s) == \E j \in Job : PickUpJob(s, j) \/ JobRaises(s, j)

Next ==
    \/ \E s \in Requests : BeginRequest(s)
    \/ \E s \in Workers : PickUp(s)
    \/ \E s \in Sessions : Advance(s) \/ Crash(s)
    \/ \E p \in Payments, answer \in {"paid", "failed"} : GatewaySettles(p, answer)

Spec == Init /\ [][Next]_vars

\* The event loop resumes every session it has started and the worker polls its
\* queue; no client is obliged to poll, no provider to call back.
Fairness == /\ \A s \in Sessions : WF_vars(Advance(s))
            /\ \A s \in Workers : WF_vars(PickUp(s))

FairSpec == Spec /\ Fairness

-----------------------------------------------------------------------------
(* Properties *)

TypeOK ==
    /\ appPaid \subseteq Apps
    /\ payment \in [Payments -> Row]
    /\ notices \in [Payments -> Seq(Receipts)]
    /\ mailed \subseteq Payments \X Receipts
    /\ gateway \in [Payments -> {"none", "open", "paid", "failed"}]
    /\ jobs \subseteq Job
    /\ tx \in [Sessions -> Session]
    /\ crashes \in Nat

Paid(p) == payment[p].status = "paid"

\* A payment is marked as paid only if the provider has taken the money, by
\* whichever of the four ways its confirmation came.
PaidWasCharged == \A p \in Payments : Paid(p) => gateway[p] = "paid"

\* The application of a paid payment is marked as paid.
PaidTogether == \A p \in Payments : Paid(p) => payment[p].app \in appPaid

\* The receipt number of a paid payment is the one its latest system message
\* names, and no other payment has it, also when several confirmations of the
\* payment overlap.
ReceiptAnnounced ==
    \A p \in Payments :
        Paid(p) =>
            /\ notices[p] # << >>
            /\ notices[p][Len(notices[p])] = payment[p].receipt
            /\ \A q \in Payments \ {p} : payment[q].receipt # payment[p].receipt

\* Payments, the provider, the application and the messages to the client agree on
\* what was paid, by whichever way and however often it was confirmed.
PaymentsAgree == TypeOK /\ PaidWasCharged /\ PaidTogether /\ ReceiptAnnounced

\* A payment that timed out is one the provider has not charged.
TimedOutNotCharged ==
    \A p \in Payments : payment[p].status = "timed_out" => gateway[p] # "paid"

\* A paid payment stays paid.
PaidIsFinal == [][\A p \in Payments : Paid(p) => Paid(p)']_vars

\* A payment is confirmed to the client once, however often it is confirmed.
ConfirmedOnce == \A p \in Payments : Len(notices[p]) <= 1

\* Unless a process died, what the confirmation e-mail says is so once no session
\* is at work on its payment: later polls, webhooks and jobs leave it true.
MailTellsTruth ==
    \A p \in Payments, r \in Receipts :
        crashes = 0 /\ <<p, r>> \in mailed /\ (\A s \in Sessions : tx[s].pay # p)
            => Paid(p) /\ payment[p].receipt = r

\* An application is paid once.
PaidOnce ==
    \A p, q \in Payments : Paid(p) /\ Paid(q) /\ p # q => payment[p].app # payment[q].app

\* A mobile money payment does not stay in progress.
ProcessingEnds ==
    \A p \in Payments : payment[p].status = "processing" ~> payment[p].status # "processing"

\* The component keeps the promise of Settlement.
Outcome(p) ==
    CASE payment[p].status = "absent"    -> "none"
      [] payment[p].status = "paid"      -> "paid"
      [] payment[p].status = "timed_out" -> "expired"
      [] OTHER                           -> "open"

Promise == INSTANCE Settlement WITH
    outcome <- [p \in Payments |-> Outcome(p)],
    billed  <- [p \in Payments |-> payment[p].app],
    settled <- appPaid

ImplementsSettlement == Promise!Spec
=============================================================================
