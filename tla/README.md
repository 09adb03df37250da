# A verification of ProxiServe's server

ProxiServe's server (`src/`) is a FastAPI application on PostgreSQL and Redis with
an ARQ worker. Clients submit applications ("cases") for administrative services,
agents work on them, administrators supervise. This directory holds TLA+ models
of the parts whose correctness depends on what happens between two steps, the TLC
runs that check them on small instances, and TLAPS proofs for every instance.

## The system

| Component | State | Operations | What is hard |
|---|---|---|---|
| applications | `applications`, `application_status_history` | submit, transition, cancel, claim ownership, forced transition | decisions on stale copies, enqueue after commit |
| assignments | `assigned_agent_id`, `application_assignment_history`, `agent_settings`, skills | assign, auto-assign (job and re-run), claim from the queue, settings | claim against job, cap counted before the write, re-run jobs |
| payments | `payments`, `applications.payment_status` | initiate, poll, webhook, confirm job, timeout job, receipt | several confirmations of one payment, several payments of one case, timeout against a late answer |
| documents | `documents`, files in storage | upload, quality check (job and agent), deactivate | files without rows, version numbers, the job's verdict over the agent's |
| authentication | users, refresh tokens (database and Redis), OTP challenges, pre-2FA tokens, counters of the limiter and of the lockout | sign-up, log-in, second factor, renewal, reset, sign-out | read-modify-write in Redis, revocation in two stores, a counter and its expiry in two calls |
| admin accounts | users, staff profiles | create agent, update agent | e-mail before commit |
| messages | `application_messages` | post, list, mark as read | a mark takes messages that no list has shown |
| oversight | `application_escalations` | escalate, resolve, list for the deadline | which escalation is resolved |
| broadcasts | `broadcasts` | create, send (job) | a re-run of the job sends again |
| services catalogue | services, tiers, steps, requirements, fields, version | create, edit, price, replace, change status; read by a submission | replacements that overlap, lost updates of the version |
| platform | `platform_settings`, two caches of the maintenance flag | read, update, the middleware's lookup | invalidation before the commit |
| startup | the administrator, the settings row, the seeded catalogue; the watchdog's process | lifespan, seed script, watchdog | several starts on one empty database, signals between two steps |
| analytics | none | reports | a report reads statement by statement |
| audit, notifications | audit rows; none | append, list; send | nothing that reads back what it writes |

Components interact through shared rows (each request and each job has a database
session of its own at READ COMMITTED), through the ARQ queue (a job may run again
after a crash of the worker; a job that raises is not retried), and through Redis.
`core/database.py` builds sessions with `autoflush=False, expire_on_commit=False`:
the ORM keeps the row it loaded and its UPDATE names only the changed columns.
This is why every model here splits an operation into load, decide and commit.

The routers read `token["user_id"]`, while an access token carries `sub`, `role`,
`isEmailVerified` and `language` only (`auth/service.py:499-508`,
`core/security.py:91-113`). The models start at the services, below that lookup.

## Modules

| Module | What it is | Its runs |
|---|---|---|
| `CaseStatus` | the life-cycle tables of `applications/constants.py` | |
| `Cases` | applications and assignments | `cases_*` |
| `Settlement` | the abstract specification of the payments component | |
| `Payments` | payments, their two deferred jobs and the gateway; refines `Settlement` | `payments_*` |
| `Documents` | uploads with their files, rulings, removals, the quality check | `documents_concurrent` |
| `Sessions` | accounts, refresh tokens in two stores, password resets, staff accounts | `payments_serial` |
| `Challenges` | one-time codes, the pre-2FA token and the second factor | `cases_serial` |
| `Throttle` | the rate limiter and the lockout of the log-in route | `payments_live` |
| `Maintenance` | the maintenance flag and its two caches | `payments_live` |
| `Broadcasts` | broadcasts and the job that sends them | `payments_live` |
| `Messages` | the messages of a case, the badge, the read marks | `documents_concurrent` |
| `Oversight` | the escalations of a case | `documents_concurrent` |
| `Catalogue` | one service with its tiers, rows and version, and submissions that read it | `documents_concurrent` |
| `Scoring` | whom the automatic assignment picks | `cases_concurrent` |
| `Startup` | what API processes and the seed script put into an empty database | `cases_concurrent`, `cases_live` |
| `Watchdog` | the script that restarts the development server | `cases_live` |
| `Deadlines` | deadlines of cases, and reports made while cases go on | `payments_concurrent` |

Eight modules hold the TLAPS proofs: `CasesProofs` (about `Cases` and `Scoring`),
`PaymentsProofs` (`Payments`, `Settlement`), `DocumentsProofs`, `SessionsProofs`,
`AccessProofs` (`Throttle`, `Challenges`), `BroadcastsProofs`, `ServerProofs` (`Startup`,
`Maintenance`, `Watchdog`) and `CaseworkProofs` (`Messages`, `Oversight`, `Catalogue`,
`Deadlines`).

`MCCases` and `MCPayments` instantiate one module for TLC. The other MC modules put
several that ask the same kind of question into one run: `MCStaff` (cases, scoring,
startup) and `MCFiles` (documents, messages, oversight, catalogue) for what holds
whatever overlaps, `MCReports` (payments, deadlines) likewise, `MCSerial` (cases,
one-time codes) and `MCAccounts` (payments, sessions) for what holds while operations
of a kind follow one another, `MCServe` (cases, startup, watchdog) and `MCLive`
(payments, limiter, maintenance flag, broadcasts) for liveness. In each, a variable
`part` is chosen at the start and a behaviour moves that part alone: the parts of a run
share no rows, no keys and no jobs, so interleaving them would multiply the states and
show nothing. The others stand still in their initial state, where none of their
fair actions is enabled; so the fairness of one part asks nothing of another.

In every component module an operation of the code is one or more actions, cut
where the coroutine gives up control between two reads or writes of shared state:
*load* (the row a session keeps, in `tx[s]`), *decide*, *commit*. A session is a
member of `Requests` (an HTTP request) or `Workers` (an ARQ job). Where a run wants
operations that never overlap, both sets are the same single session.

`Configured` is the set of worker sessions whose process called
`db_manager.configure` (and connected `job_queue_manager`), as `main.py:81-84` does
for the API. `worker.py`, the process that `docker-compose.yml` and the Makefile
start, calls neither, so there `Configured` is empty and every job that needs the
database raises and is dropped (`JobRaises`). The other runs assume at least one
worker that did what the jobs rely on; otherwise no job would ever act, and
nothing about them could be seen. The concurrent runs have a worker of each kind.

### Cases

| Code | Model |
|---|---|
| `applications` row | `status`, `agent`, `client`, `stamps` (which terminal timestamps are set) |
| the two history tables | `statusLog`, `assignLog`, in the order of `created_at` |
| ARQ queue | `jobs` |
| `users.is_active`, `agent_settings`, the 7-day session test | `settings` |
| ORM identity map of a session | `tx[s].seenStatus`, `tx[s].seenAgent` |
| `submit_application`, then the enqueue after its commit | `SubmitApplication`, `EnqueueAutoAssign` |
| `transition_status` by agent, client, administrator | `AgentTransition`, `CancelApplication`, `ForceTransition`, then `CommitTransition` |
| `claim` of ownership | `ClaimOwnership` |
| `assign_by_admin` | `AdminAssign`, `AdminCheckAgent`, `CommitAssignment` |
| `auto_assign_by_admin`, `auto_assign_application_job` | `AdminRerun` or `JobPickUp`, `ScoreWinner` or `ScoreNobody`, `CommitAssignment`, `JobAck` |
| `claim_unassigned` with `FOR UPDATE SKIP LOCKED` | `ClaimUnassigned`, `ClaimLockRow` or `ClaimGiveUp`, `CommitAssignment` |
| settings, activation, sessions growing old, midnight, a process dying | `UpdateAgentSettings`, `UpdateAgent`, `RecentSession`, `Midnight`, `Crash` |

Abstractions. `score_agents` may pick any eligible agent (`Scoring` says which). A status outside the tables, which an administrator may PATCH in, is the one
value `"unlisted"`. Every agent has a settings row. Audit rows, system messages and
e-mails of these handlers are outputs that nothing here reads.

### Payments and Settlement

| Code | Model |
|---|---|
| `payments` row | `payment[p]`: application, method, status, receipt number |
| `applications.payment_status = "paid"` | `appPaid` |
| the system messages with the receipt number | `notices[p]` |
| confirmation e-mails handed to the queue | `mailed` |
| the provider | `gateway[p]`: none, open, paid, failed |
| `initiate_payment` | `Initiate`, `Charge` or `InitiateRaises`, `StorePayment`, `EnqueueFollowUp` |
| `get_payment_status` | `Poll`, `AskGateway`, then a confirmation |
| `handle_card_webhook` | `Webhook`, then a confirmation |
| `payment_timeout_job`, `payment_card_confirm_job` | `PickUpJob`, `AskGateway`, then a confirmation or `CommitTimeout`, `JobAck` |
| `confirm_payment` and its caller's commit | `DrawReceipt`, `FlushConfirmation`, `CommitConfirmation`, or `ConfirmationFails` |

`create_system_message` flushes, so a confirmation holds the payment's row from
`FlushConfirmation` to its commit: a second one waits there, and then commits on
top, because its guard was read before. The e-mail of a request leaves at the flush,
before the commit; the jobs are built with `job_queue=None` and send none. A job may
run any time after it was queued (the deferral of 120 or 3 seconds is not used as a
guarantee). A webhook reports only transactions the provider has charged: the
secret of `router.py:88-93` is what the code relies on for that. Prices, the check
that the client owns the application, and the read-only `get_receipt` are left out.

`Settlement` is what a reader of the API expects: a payment is opened for one
application, then paid or expired, once, and an application is settled exactly by
paying a payment of its own. Under the mapping of `Payments` a payment is open while
its row is `pending` or `processing`; the steps of the sessions up to their commits
are stutters.

### Documents

| Code | Model |
|---|---|
| `application_documents` row | `document[d]`: requirement, version, active, replaced by, verdict |
| files under `upload_dir` | `files`, by `Path(d)`; what was sent is `content[d]` |
| `upload_document` | `BeginUpload`, `RejectFile` or `ReadActive`, `FlushUpload`, `CommitUpload`, `EnqueueCheck` |
| `update_qc` | `UpdateQc`, `CommitRuling` |
| `deactivate_document` | `Deactivate`, `CommitRemoval` |
| `document_qc_job` | `PickUpCheck`, `CommitCheck`, `Report`, `JobAck`, or `JobRaises` |
| the status test of `deactivate_document` | `removable`, moved by `CaseMoves` |

The documents are those of one application. A file is one of six kinds, which is
what the type test, the size limit and the quality check tell apart; `Verdict` gives
the result of the check for each, with its comparison of a file type object and a
MIME string (`jobs.py:75`) as Python evaluates it. The client of the case has an
e-mail address. The flush of `create_document` locks the row it retires until the
commit (`RowHeld`). Requests that fail their access checks, the notes of the check,
listings and downloads are left out; a download needs `RowsHaveFiles`.
`Uploaders` are the sessions that may upload: with one, uploads follow each other
and everything else still overlaps with them.

### Sessions

| Code | Model |
|---|---|
| `users` (with the staff profile) | `account` |
| `refresh_tokens` rows; `auth:refresh:token:*`, `auth:refresh:family:*:revoked` in Redis | `token`; `payload` with the life in `key`, `mark` |
| the session cookies | `held` |
| `password_reset_tokens`; what the mail queue was given | `reset`; `letters` |
| a request | `req[s]` |
| `signup`, `create_agent` | `BeginAccount`, `FlushAccount`, `SendInvitation`, `CommitSession` |
| `login`, the routes that end in a session | `Login`, `IssueToken`, `CommitSession`, `Respond` |
| `get_session` (renewal), `sign_out` | `Renew`, `LoadUser`, `IssueToken`, `RevokeFamily`, `MarkFamily`; `SignOut` |
| `forgot_password`, `reset_password` | `ForgotPassword`, `MailReset`, `CommitForgot`; `ResetPassword`, `SelectTokens`, `SweepTokens`, `CommitReset` |
| `update_agent` (activation) | `UpdateAgent`, `CommitUpdate` |
| expiry in Redis and of a reset link; a process dying | `Tick`, `ExpireReset`; `Die` |

A token is a family of its own, as in the code, where every log-in and every renewal
opens a new one. Acceptance depends on Redis alone. Passwords are left out: a log-in
that fails changes nothing here. `Renewers`, `Resetters` and `Updaters` say who may do
what, so that an instance can keep two operations of a kind apart.

### Challenges

| Code | Model |
|---|---|
| `auth:otp:<person>:<purpose>`, `auth:otp:resend:<person>` | `challenge`, `cool` |
| `auth:pre2fa:<jti>` | `pre` |
| `signup`, `login`, `staff_login`, `resend_client_otp` | `SendCode`, `ResendCode`, `StartCooldown`, `CreateChallenge`, `EnqueueCode`, `IssuePre2fa` |
| `verify_client_otp`, `staff_two_factor` | `VerifyClientOtp`, or `StaffTwoFactor`, `DropPre2fa`, `ChooseMethod` |
| `verify_challenge` | `ReadChallenge`, then `AcceptCode` and `Accept`, or `RejectCode`, `ReadLife`, `WriteBack` |

There is one client and one member of staff; a later log-in of the same person uses
the key of the earlier one. Codes are distinct. An authenticator code and a backup
code are refused, since no operation enters a secret or creates one.

### Throttle

`hits` and `fails` are the counters of `ratelimit.py` and of the lockout, with their
remaining life, `lock` the life of the lockout key, `at[s]` the place of a request.
`Hit` is the INCR, `StartWindow` the EXPIRE in a call of its own; `AssertNotLocked`,
`WrongPassword`, `StartLockWindow`, `LockAccount` and `RightPassword`,
`ClearAttempts`, `ClearLock` are the lockout around the password test, whose outcome
is a choice. Counters saturate one above their limit. `LockTick` is the clock of Redis,
`Drop` the death of a process. There is one caller address and one identifier: the
counters of others are other keys.

### Maintenance

`flag` is the column of `platform_settings`, `redis` and `memory[p]` its two kinds of
copies with their lives. A lookup (`Ask`, `AskRedis`, `AskRow`, `StoreInRedis`,
`KeepInMemory`) runs beside `update_settings` (`UpdateSettings`, `ClearMemory`,
`ClearRedis`, `CommitSettings`, in the code's order: the copies go before the commit).
`Slowest` bounds how long a lookup lasts; the code sets no such bound, and the
properties are relative to it. Time (`Second`) waits for a lookup that has reached it. The memory copy counts from the
moment the lookup began, as `time.monotonic()` is read there. The run shows how Redis
may be given the old value after it was cleared, and the bound says for how long.

### Broadcasts

`notice` and `reach` are the row's status and `actual_reach`, `queued` the ARQ queue,
`copies` what the mail queue was given. `CreateBroadcast`, `StoreBroadcast` and
`EnqueueBroadcast` are the request; `TakeJob`, `BeginSending`, `ReadAudience`,
`SendOne`, `EndLoop`, `FinishSending`, `Acknowledge` the job. `LoseSender` puts the
job of a worker back into the queue. `SignUpClient` lets the audience grow. `Equipped`
are the sessions whose process configured a database.

### Messages, Oversight, Catalogue

`message` holds the rows of one case; `ClientMessage`, `AgentMessage` and
`SystemMessage` post (`Post`, `WriteMessage`, then `Announce`, after the commit),
`ListClientMessages` and `MarkRead`, `CommitMarks` are two requests, and `Reassign`
gives the case to another agent in between. `SystemMessage` stands for what the other
handlers append.

`escalation` and `raisedAt` are the rows of one case, `Escalate` and `Resolve` load,
`CommitEscalation` commits. `created_at` is taken before the commit, so rows may appear
in another order.

`Catalogue` is one service: its header (`CreateService`, `LoadStatus`, `FlushStatus`,
`CommitStatus`), its tiers (`LoadTier`, `FlushTier`, `CommitTier`) and the rows of one
kind, replaced as a whole (`LoadToReplace`, `BeginDelete`, `LockRows`, `InsertRows`,
`BumpVersion`, `CommitReplacement`). The DELETE names the rows committed when it
began and waits for whoever is deleting one of them; the INSERT meets the unique
constraint. `BeginSubmit`, `ReadFields`, `ReadTier`, `CommitSubmit` are the part of
`submit_application` that reads a service; what it writes to the case is in `Cases`.

### Scoring

`ReadEligible`, `ReadSkills` and `ReadRates` are the three queries, `Decide` the loop
of `score_agents`, `Assign` the write of `auto_assign_by_admin` or of the job,
`TellAdmins` the notice when nobody is found. Between them `AssignByHand`,
`CloseCase`, `SetOpen`, `SetCap`, `SetSkills` and `NewDay` change what was read.
`Points` is the sum of the four weighted terms, in whole numbers: all terms are brought to one
denominator. Agents whose sums are equal by different terms may differ in the last digit
of the code's floating-point sums, so either may win; agents alike in every term are told
apart by their last assignment. As in the code, the first level of a skill scores below no
skill row at all (20 against 25), and an express case gets what every case gets that is
not urgent (`Urgency`).

### Startup and Watchdog

`owner` says who inserted each row that is committed, `held` what a transaction has
flushed. `Start`, `Look`, `Insert`, `Commit` are `lifespan` with `_seed_admin` and
`seed_platform_settings`, and `scripts/seed.py` with `seed_dev_services`; `Author` is
an administrator who creates a service by hand meanwhile. An IntegrityError is caught
nowhere: the process ends (`OnConflict`).

`Watchdog` is `run_server.py`: `Launch`, `Popen`, `Assign`, `Wait`, `PauseEnds` are the
loop, `CtrlC` and `Signalled` its handlers, which run between any two of its steps,
and `UvicornEnds` the server. With `--reload` uvicorn has a parent of its own that may
outlive what it was told for a moment; here it is one process.

### Deadlines

`Submit` takes the deadline of a case from its tier, `Write` and `CommitAct` are the
handlers that open, complete or close it, also by force. A report (`BeginReport`)
takes the time once and reads one weekly bar per statement (`ReadBar`), then the
alerts (`ReadAlerts`). A working day is 1.4 calendar days, rounded up (`DaysAllowed`).
Handlers of one case do not overlap here.

## Runs

A run's list names conjunctions where several facts belong together: `CasesAgree`,
`RulesObeyed`, `PaymentsAgree`, `FilesAgree`, `TokensHold`, `RedeemedOnce`, `CodesHold`,
`BrakesHold`, `StaleEnds`, `BroadcastsHold`, `MessagesHold`, `ReplacementsHold`,
`PicksFairly`, `StartsWhole`, `EndsServer`, `ReportsAgree`. Each part is a definition of
its own in the module, with a comment that says what it means.

| Run | Question | Instance | Result |
|---|---|---|---|
| `cases_concurrent` | what holds whatever overlaps? | 1 case, 2 agents, 2 request sessions, 2 worker sessions (one configured), 1 crash, a forced status. Scoring: 2 agents with a cap of 1, 2 sessions that score 3 times, 1 change of settings. Startup: 2 servers, 2 scripts, 1 administrator, 2 services, 1 loss | holds |
| `cases_serial` | does each operation keep the rules when nothing of its kind overlaps? | 1 urgent case, 2 clients, 2 agents (one capped at 1 a day), forced statuses, a settings change, a crash, midnight. Codes: 2 codes of 2 attempts, 2 log-ins, 2 requests of which one submits, 1 loss | holds |
| `cases_live` | does a case leave the queue, a start end, a server come back? | 1 request and 1 worker session, no crash, an agent stays eligible. Startup: 2 servers and 2 scripts, no loss. Watchdog: every signal at every step | holds |
| `cases_terminal_race` | is a terminal status final? | 2 overlapping requests | violated |
| `cases_stolen_claim` | does the job assign unassigned cases only? | 1 request, 1 worker session | violated |
| `cases_closed_assigned` | does the job assign open cases only? | one session, no overlap | violated |
| `cases_bare_worker` | does a case leave the queue with the worker of `worker.py`? | as `cases_live`, no configured worker | violated |
| `payments_concurrent` | what holds whatever overlaps, with a gateway that answers at once? | 2 payments of 1 application, 2 requests, 2 worker sessions (one configured), 1 crash. Deadlines: 1 case, 1 report of 2 weeks of 2 days, 5 days | holds |
| `payments_serial` | is a payment confirmed, a token renewed, a link used once, when nothing of its kind overlaps? | 2 payments, a gateway that may answer late, 1 crash. Sessions: 1 user, 3 tokens, 1 reset link, 2 requests of which one renews and the other resets or deactivates, 1 death | holds |
| `payments_live` | does what was begun end? | 1 request and 1 worker session, no crash, a gateway that may never answer. Throttle: 3 requests, limits of 2, 1 may die. Flag: 2 processes, 2 lookups, 1 administrator, 2 changes. Broadcasts: 1 broadcast, 2 recipients, 2 workers, 1 may die | holds |
| `payments_twice` | is an application paid once? | one session, no overlap | violated |
| `documents_concurrent` | do files, messages, escalations and services stay whole? | 2 documents, 2 requests (one uploads), 2 worker sessions (one configured), 1 crash. Messages: 2 messages, 2 agents, 2 sessions, 1 loss. Oversight: 3 escalations, 2 supervisors. Catalogue: 2 administrators (one changes the status, the other the price, both replace rows), 2 replacements, 1 buyer, 2 keys, 1 tier | holds |

Bounds. One case (one application) is enough for every property of `Cases` but the daily cap,
because no operation relates two cases; the cap is a count over the history rows of
one agent, and a case reassigned away and back counts twice, so one case reaches a
cap of 1. Two request sessions and one configured worker session give every pair of operations
that can overlap, and every overlap of two requests with a job. `MaxLog` stops new
requests on a case with that many history rows: with 4 a case can be submitted,
assigned, reassigned and moved on or closed; `cases_terminal_race` has 6, for the
longer way to a cancellation. Two payments are the least for the uniqueness of
receipts and for paying twice; three receipt numbers let an overlap draw a fresh, an
equal and a repeated one. Two documents are the least for a replacement, and a crash
that frees the uploading session in the middle of an upload lets the next one meet
what it left. One crash is placed by TLC at every step. Deadlock is not checked:
with every request answered and the queue empty the system rests.

- *Scoring.* Two sessions are the least that pass a cap together, and two agents the
  least that can outdo one another; `MaxScored` and `MaxMoves` bound the assignments
  and the changes of settings.
- *Sessions.* Three tokens are a log-in and two renewals, which is what a token that
  is presented twice needs. A life of 1 tick for tokens and for marks is the tightest
  case of the assumption that marks last as long.
- *Challenges.* Two codes: one and its successor. Two attempts: one that is written back and
  one that erases. With a life of 2 ticks a code ages while it is judged.
- *Throttle.* Three requests pass a limit of 2, and one that dies leaves two that go on.
- *Maintenance.* With every life and `Slowest` at 1 the bound `Lag` is 3 ticks, and
  two changes let an old value come back to Redis after the second clearing.
- *Broadcasts.* Two recipients let a worker die between two copies.
- *Catalogue.* Two replacements with two keys are a mixture or a clash.
- *Startup.* Two servers and two scripts are the least for every race to a unique
  index, and the loss of one lets a third party come first.
- *Deadlines.* Cases do not affect one another, and a report changes nothing, so
  one of each is enough; a week of 2 days has an inner day and an edge, and two weeks
  have an edge between them.

Fairness, in `cases_live`, `cases_bare_worker` and `payments_live` only: weak fairness of
`Advance(s)` (asyncio resumes a coroutine whose awaited call returned; a flush
waiting for a row lock is enabled again as soon as the holder commits) and of
`PickUp(s)` for worker sessions (ARQ polls its queue, and runs or drops what it
takes). Likewise `Proceed` (Throttle), `Answer` and `Apply` (Maintenance), `Work`
(Broadcasts) and `ContinueBoot` (Startup) say that a coroutine goes on, and the clocks
of Redis and of the host tick. A broadcast needs strong fairness of `TakeJob`: a
session is busy and idle in turns, and each time it is idle it polls. `WindowEnds` is
stated for behaviours in which no request dies, `BroadcastEnds` for workers that have a
database. `BootEnds` says that a start ends, not that it succeeds: nothing starts a
server of the Compose file again. `ServerReturns` is about the watchdog, which does.
Nothing is assumed of clients, agents, administrators or the provider: no
request is ever due.

## Findings

Each is shown by the run named and quoted in `PROJECT.json`.

- `cases_terminal_race`: `transition_status` decides on a row read without a lock; a
  stale transition takes a case out of `cancelled`.
- `cases_stolen_claim`: the job tests `assigned_agent_id` before scoring and
  writes after it, over an agent's claim.
- `cases_closed_assigned`: the job does not look at the status, and assigns a case
  its client cancelled while it waited.
- `cases_bare_worker`: nothing in `worker.py` configures the database, so each
  auto-assignment job raises and is not run again, and the case stays received. The
  timeout, card confirmation, document check and broadcast jobs are dropped in the same way.
- `payments_twice`: two payments of one application are both charged and both paid.

## What holds only without overlap

Some properties are checked where operations of a kind follow one another, because
overlapping ones break them; giving the configuration a second session shows it in a
few steps. They are `HistoryMatchesRow` and the parts of `RulesObeyed` (cases),
`ConfirmedOnce` and `MailTellsTruth` (payments), the parts of `RedeemedOnce` (two
renewals of one token, two uses of one link), `AnsweredOnce`, `GuessesBounded` and
`OneSessionPerLogin` (two submissions of one code), `OneActive` (two uploads),
`ArchivedIsFinal` (two changes of the status), and `VersionCounts` with the second half
of `LastReplacementStands` (two replacements), which say so in their own premise.

`TimedOutNotCharged`, `PaidIsFinal` and the refinement hold
for a gateway that settles a push before it answers, like the stub, the only one
the code has; with `"open"` in `MomoAnswers` the timeout job can overwrite a
payment that a webhook confirmed while it was asking. `LeavesQueue` and
`ProcessingEnds` fail with a crash between a commit and its enqueue, and
`MailTellsTruth` without its premise when a process dies between the two of them.

The models also show, without a property that forbids it: Redis may be given the old
maintenance flag after a change, because the invalidation precedes the commit
(`StaleEnds` bounds it); a refresh token that a renewal adds after a reset has selected
the rows survives the reset; `update_agent` deactivates an account and closes none of
its sessions; two overlapping sessions may pass a cap by one (`CapHolds`).

## Proofs

The proof modules prove, for every value of the constants:

| Theorem | Property | Needs |
|---|---|---|
| `TypeCorrect`, `AssignmentsAreLogged`, `ClosedCasesAreStamped`, together `CasesAlwaysAgree` | `CasesAgree` | |
| `ClaimsAreExclusive` | `ClaimTakesUnassigned` | |
| `AssignedCasesLeaveQueue` | `AssignedLeavesQueue` | `"received" \notin ForceTargets` |
| `HistoriesMatchRows` | `HistoryMatchesRow` | `SerialSessions` |
| `RulesAreObeyed` | `RulesObeyed` | `SerialSessions` |
| `CapsAlwaysHold` | `CapHolds` | |
| `PicksAreFair` | `PicksFairly` | |
| `PaymentsTypeCorrect`, `PaidMoneyWasTaken`, `PaymentMarksApplication`, `ReceiptsAreAnnounced`, together `PaymentsAlwaysAgree` | `PaymentsAgree` | |
| `TimedOutMoneyWasNotTaken` | `TimedOutNotCharged` | `InstantGateway` |
| `PaidStaysPaid` | `PaidIsFinal` | `InstantGateway` |
| `PaymentsImplementSettlement` | `ImplementsSettlement` | `InstantGateway` |
| `ClientsAreToldOnce` | `ConfirmedOnce` | `SerialSessions` |
| `MailStaysTrue` | `MailTellsTruth` | `SerialSessions` |
| `DocumentsTypeCorrect`, `FilesOutliveRows`, `StraysComeFromCrashes`, together `FilesAlwaysAgree` | `FilesAgree` | |
| `VersionsAreChained` | `VersionChain` | |
| `OneDocumentIsActive` | `OneActive` | `SerialUploads` |
| `ProblemsReachClients` | `ProblemsReported` | |
| `SessionsTypeCorrect`, `ClosedTokensStayClosed`, `HeldTokensAreRecorded`, together `TokensAlwaysHold` | `TokensHold` | `MarksOutlastTokens` |
| `RedeemedOnceOnly` | `RedeemedOnce` | `SerialRenewers`, `SerialResetters` |
| `LettersAlwaysHold` | `LettersHold` | |
| `RequestsAreSound`, then `CodesKeepTheirPromise` | `CodesHold` | the last: `SerialVerifiers` |
| `OneSessionEach` | `OneSessionPerLogin` | `SerialVerifiers` |
| `BrakesTypeCorrect`, `WindowsAreLimited`, `EndlessCountersHaveACause`, together `BrakesAlwaysHold` | `BrakesHold` | |
| `TriesStayBounded` | `TriesBounded` | |
| `FlagTypeCorrect`, `StaleCopiesRunOut`, `StaleAnswersEnd`, together `StaleAlwaysEnds` | `StaleEnds` | |
| `BroadcastsTypeCorrect`, `CopiesAreCounted`, `ReachIsHonest`, `NothingIsAbandoned`, together `BroadcastsAlwaysHold` | `BroadcastsHold` | the last: `Equipped = Senders` |
| `StartupTypeCorrect`, `ServersAreReady`, `CatalogueIsWhole`, `StartsFailTwice`, together `StartsAreWhole` | `StartsWhole` | |
| `ServerEndsWithIt` | `EndsServer` | |
| `MessagesAlwaysHold` | `MessagesHold` | |
| `EscalationsAreResolved` | `EachResolved` | |
| `ReplacementsAlwaysHold` | `ReplacementsHold` | |
| `PricesWereOffered` | `PricedAsOffered` | |
| `ArchivedStaysArchived` | `ArchivedIsFinal` | `OneStatusEditor` |
| `ReportsAlwaysAgree` | `ReportsAgree` | |

Each module's named assumption about its constants (NULL is no value of
a column, the bounds are numbers, the choices are of their types) is used
throughout; the runs evaluate them. `MarksOutlastTokens` is one of them: the code
writes the mark's day into its source and takes the token's life from its settings,
whose default is the same day; a longer one would let a closed token back in. `Sessions`
also assumes that accounts and reset links are different things (an invitation and a
reset are both letters), and `Catalogue` that the price of a service that is not there is no price.

The hypotheses that begin with `Serial`, and `OneStatusEditor`, say that a set of
sessions has one member at most: the operations of that kind follow one another.
They are what the serial runs instantiate, and they leave free how many cases,
payments, users, codes or rows there are, what else overlaps (in `Sessions`, `Challenges`
and `Catalogue` only the kind that is named is serial), and where a
process dies. Without them the properties are false; see "What holds only without
overlap".

Each argument is an inductive invariant:

- *Types.* `TypeInv` adds to `TypeOK` what a session holds at each point of its
  work (`SessionOK`), and that a queued job names a stored row.
- *Claims.* `LockInv`: while a claim holds the row lock, its case is unassigned and
  received, and nobody else holds the lock. Every commit on a case requires the lock
  to be free, so nothing changes under the holder, and the claim is a
  compare-and-set.
- *Assignments.* `SeenAgentStays`: a session that loaded an agent loaded one the
  history names, and a case that has an agent keeps having one. Without it an UPDATE
  that omits an unchanged column could leave the row without its agent.
- *The queue.* `QueueInv`: a session that saw a case past the queue names a case that
  still is past it, and no transition writes `received`. Only an administrator can
  break this, hence the assumption.
- *Cases one at a time.* `SerialInv`: what a session has loaded is what the rows still
  hold when it commits (`Current`), so the status it writes is one the table allows from
  there and the agent it assigns is still under the cap; and the histories match the row,
  which is what makes the next row of a history start where the last one ended.
  `DaysInv`, no row of a history is from tomorrow, keeps a midnight from taking
  an agent over his cap.
- *Caps.* `PendingInv` counts, for each agent, the scoring sessions that found him below
  his cap and have not assigned yet: they and the assignments of the day exceed the
  highest cap by less than there are sessions. A later reading of the cap starts from
  the count there is then, and a midnight lowers the counts alone.
- *Picks.* `PickHolds`: the winner is among the best of the pool the session scored, and
  a pool has one entry per agent. The rest is arithmetic on the score, of which the
  proof shows that each of its parts grows with what an agent has over another.
- *Money.* `ChargedInv`: whoever is about to confirm, and every queued card
  confirmation, knows that the provider has charged; `ChargesStand` says the
  provider takes nothing back.
- *Receipts.* `ReceiptInv`: a flushed receipt number belongs to no other payment and
  no other flushed session, which is what the unique index enforces.
- *Outcomes.* `OutcomeInv`, for `InstantGateway`: a payment about to be stored has a
  new id, one about to expire was refused. With `ChargedInv` this orders the commits
  that can meet on one row, and `PromiseStep` maps each commit to `Open`, `Pay` or
  `Expire` and every other step to a stutter.
- *Payments one at a time.* `OnceInv`: whoever is about to confirm, to expire or to store
  a payment finds it unpaid, as it was when it was loaded; a payment has a notice only
  once it is paid; and `MailInv`, an e-mail names the receipt the payment has, or
  the one its session is about to commit, unless somebody died in between.
- *Documents.* `TypeInv` of `Documents` says that an upload owns its id: no row and
  no other upload has it, and its file is there. So a refusal removes no file a row
  names, and a new row replaces none. Rows keep their requirement and version, which
  carries `VersionChain` through overlapping uploads.
- *Active documents.* `ActiveInv`, for `SerialUploads`: between its read and its
  commit, what an upload found active is all that is active, since only an upload
  makes a document active.
- *Reports.* `CheckInv`: a document being checked keeps its job and has one checking
  session, and a check that is done has told of its problem. Only the checking
  session can then take the job off the queue.
- *Stray files.* `StrayStep`: a session lets go of its document after it stored the
  row or removed the file, unless it crashes, and then it adds one stray at most.
- *Sessions.* `Knows` says what a request has learnt at each of its steps, `HomesInv`
  that a token which is being issued is in one request's hands and nowhere else. A
  token is closed only after its family was marked, so when the row says so the mark
  is there, and both count down together from lives that `MarksOutlastTokens` orders.
- *Redeemed once.* `RenewInv`, for `SerialRenewers`: a token that has a successor is closed
  and nobody is at work on another one, and `ResetInv`, for `SerialResetters`, that a reset
  at work has not been used.
- *Letters.* `FlushInv`: an account that was flushed and not committed belongs to one
  request. So a request that dies misleads one letter at most, which is a count over
  `Misled` in each step.
- *Codes.* `ClerkInv` says what a request carries. For `SerialVerifiers`, `GuessInv` adds the
  wrong submissions to the attempts that are left, but for the one that is
  counted and not written back; `CodeInv` says that an answered code is neither stored nor
  about to be; `LifeInv` adds what a code has lived to what is left of it, where
  writing it back may add a tick; `LoginInv` that a log-in whose token can
  still be used has no session.
- *Tries.* `TriesInv`: below the limit the counter has counted every try; past it each
  try is one of a request that is about to lock, or that died, and once there is a lock
  only those go on that had found none. The bound is a cardinality of these requests.
- *The brakes.* `WindowInv` counts the requests that have been admitted since the
  counter last began against its value, which is why those under way cannot pass
  together; a counter without a life has a request that is about to give it one, or
  one that died.
- *The flag.* `StaleInv` gives every copy that is out of date a deadline: what is left of
  its life and the time since the change add up to no more than the longest way it can
  have come. It needs the lookups under way as well as the two caches, since one of
  them may be carrying the old value to Redis.
- *Broadcasts.* `OnePlaceInv`: a broadcast is in one place at a time, the queue or one
  worker's hands; `RunsInv` and `CountInv` bound copies and counts by the runs begun;
  `HandsInv` adds that a broadcast that is being sent is in one of these places.
- *Startup.* `Phase` says which rows a process has seen or flushed at each place, and
  `PhaseInv` that it holds of all of them; no row goes, so nothing a process has seen is taken
  back. `FailInv` ties each lost race to the rows the winner has left: the first to the
  rows a process first looks for, the second to the settings.

- *Watchdog.* `GoneInv`: what ended the watchdog is known as soon as it is gone, and only
  a server that was not assigned yet outlives it.
- *Messages.* `DeskInv`: no two sessions post the same message, and a session marks and
  announces only what is posted; `UntoldInv` counts the messages no e-mail
  announced and none is about to, of which each is one loss.
- *Escalations.* Each resolution closes the one it loaded, so those that are closed are no
  more than the resolutions (`OversightInv`).
- *Catalogue.* `NumberInv`: each replacement has a number of its own, so rows that carry one
  number come from one replacement. `KeyInv`: those that have inserted share no key with one
  another, which is what the unique index enforces. `QuietInv`: as long as they come one
  after the other, each finds the version the last one left. `OfferInv`: every price that
  can be taken or was taken has been offered. `FinalInv`, for `OneStatusEditor`: what he
  loaded is the status there is.
- *Deadlines.* `LateInv`: what was late is overdue by now, and what is about to complete it
  takes a later time than its deadline. `Tallied`: the bars a report has read cover the
  weeks before the next one, and what they counted is in them once.

Only model-checked is liveness: `LeavesQueue`, `ServerReturns`, `BootEnds`,
`ProcessingEnds`, `WindowEnds`, `FlagSettles`, `BroadcastEnds`. They rest on fairness, hence
on ENABLED, which is out of the prover's reach. Every invariant and every other
action property of the passing runs is stated by a theorem of the table.

## Plan

Done, in this order: `Cases`; `Payments` with `Settlement`; `Documents`; `Sessions`,
`Challenges`, `Throttle`; `Maintenance`; `Broadcasts`, `Messages`, `Oversight`,
`Catalogue`; `Startup`, `Watchdog`; `Scoring`, `Deadlines`; their runs and the theorems
above.

Left:

1. Two weaker hypotheses: `RulesAreObeyed` and `ClientsAreToldOnce` for sessions that
   overlap on different rows only.
2. `ClaimRegister`, the queue as agents see it (a case is free, then has one owner at
   a time), implemented by `Cases` under the conditions its findings leave.
3. A module that composes `Cases` and `Payments` over the shared application row.
4. The validation of form fields (`_validate_service_data`) as functions, compared
   with a reference definition over bounded inputs.
5. The pages of the audit log, read while rows are appended.

## Not modelled

- Audit rows, SMTP and SMS: outputs that no operation reads back.
- HTTP parsing, response schemas, error formats, logging and metrics: no state.
- Authentication: the rows about log-in attempts and accepted terms, which no operation
  reads, and the trusted devices, which are stored and never looked up; the encoding of
  tokens.
- Accounts of staff: listings, the new temporary password and the reset of the second
  factor, each of which writes one field.
- Analytics and assignments: the figures that a single statement computes (revenue,
  mixes, turnaround, the leaderboard), which have no step between read and answer.
- Access checks that depend on the caller alone and not on state that changes: a
  refused request changes nothing. Checks on state that does change (owner, assigned
  agent, status) are in the models, except where a section above says otherwise.
- Pagination, search and ordering of listings; currencies.
