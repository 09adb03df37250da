------------------------------ MODULE Documents ------------------------------
(***************************************************************************)
(* Documents of one application: src/app/modules/documents/service.py, its *)
(* quality check job, and the file storage of src/app/core/storage.py.     *)
(*                                                                         *)
(* An upload writes its file before it knows whether it may keep it, and   *)
(* its row after; the job and the assigned agent both write the verdict.   *)
(* A request that fails its access checks changes nothing and is left out. *)
(***************************************************************************)
EXTENDS Integers, FiniteSets

CONSTANTS
    Docs,        \* document ids
    Keys,        \* keys of the service's document requirements
    None,        \* SQL NULL
    Requests,    \* sessions of the API process
    Uploaders,   \* those that may serve uploads: with one, uploads do not overlap
    Workers,     \* sessions of the ARQ workers
    Configured,  \* those in processes that called db_manager.configure (worker.py does not)
    Sent,        \* what the uploaded files may be
    Allowed,     \* those of a type the requirement allows
    Rulings,     \* verdicts an agent may PATCH in
    MaxCrashes   \* bound on sessions lost to a crash

Sessions == Requests \cup Workers

Contents == {"clear image", "blurred image", "small image", "pdf", "unrecognised", "oversize"}
Verdicts == {"pending", "pass", "warn", "fail"}

ASSUME DocumentsAssumption ==
    /\ IsFiniteSet(Docs)
    /\ None \notin Docs \cup Keys
    /\ Uploaders \subseteq Requests
    /\ Configured \subseteq Workers
    /\ Sent \subseteq Contents
    /\ Allowed \subseteq Contents \ {"oversize"}
    /\ Rulings \subseteq Verdicts
    /\ MaxCrashes \in Nat

VARIABLES
    files,      \* the paths in storage that hold a file, whole or in part
    content,    \* what was sent under each document id
    document,   \* rows of application_documents
    jobs,       \* document_qc_job entries in the ARQ queue
    mailed,     \* the documents whose client was told that they need attention
    removable,  \* the case is in a status that lets its client remove documents
    tx,         \* what each session has loaded and decided
    crashes

vars == <<files, content, document, jobs, mailed, removable, tx, crashes>>

-----------------------------------------------------------------------------
NoRow == [key |-> None, version |-> 0, active |-> FALSE, replacedBy |-> None, qc |-> "pending"]

Row == [key        : Keys,
        version    : Nat \ {0},
        active     : BOOLEAN,
        replacedBy : Docs \cup {None},
        qc         : Verdicts]

Session == [op      : {"none", "upload", "ruling", "removal", "check"},
            pc      : {"idle", "saved", "read", "flushed", "enqueue", "loaded", "report", "done"},
            doc     : Docs \cup {None},
            key     : Keys \cup {None},
            prev    : Docs \cup {None},  \* the active document an upload found
            seen    : Verdicts,          \* the verdict in the loaded row
            verdict : Verdicts]

Idle == [op |-> "none", pc |-> "idle", doc |-> None, key |-> None, prev |-> None,
         seen |-> "pending", verdict |-> "pending"]

Become(s, t) == tx' = [tx EXCEPT ![s] = t]

Free(s, slots) == s \in slots /\ tx[s] = Idle

Stored(d) == document[d] # NoRow

\* A flush holds the row it retires until its commit.
RowHeld(s, d) == d # None /\ \E t \in Sessions \ {s} : tx[t].pc = "flushed" /\ tx[t].prev = d

\* applications/<application>/documents/<document_id>/<filename>
Path(d) == d

Init ==
    /\ files = {}
    /\ content = [d \in Docs |-> "none"]
    /\ document = [d \in Docs |-> NoRow]
    /\ jobs = {}
    /\ mailed = {}
    /\ removable = TRUE
    /\ tx = [s \in Sessions |-> Idle]
    /\ crashes = 0

-----------------------------------------------------------------------------
(* upload_document *)

\* The file is streamed into storage under a new id,
BeginUpload(s, d, k, c) ==
    /\ Free(s, Uploaders)
    /\ content[d] = "none"
    /\ content' = [content EXCEPT ![d] = c]
    /\ files' = files \cup {Path(d)}
    /\ Become(s, [Idle EXCEPT !.op = "upload", !.pc = "saved", !.doc = d, !.key = k])
    /\ UNCHANGED <<document, jobs, mailed, removable, crashes>>

\* Mutation: a refused file is not deleted.
KeptFiles(d) == files

WithoutFile(d) == files \ {Path(d)}

\* deleted again if it grew too large or has a type that is not allowed,
RejectFile(s) ==
    LET d == tx[s].doc
    IN  /\ tx[s].pc = "saved"
        /\ content[d] \notin Allowed
        /\ files' = WithoutFile(d)
        /\ Become(s, Idle)
        /\ UNCHANGED <<content, document, jobs, mailed, removable, crashes>>

ActiveDocs(k) == {d \in Docs : Stored(d) /\ document[d].key = k /\ document[d].active}

\* and otherwise becomes a document that retires the active one, if there is one.
ReadActive(s) ==
    LET t == tx[s]
        found == ActiveDocs(t.key)
    IN  /\ t.pc = "saved"
        /\ content[t.doc] \in Allowed
        /\ \E p \in IF found = {} THEN {None} ELSE found :
              Become(s, [t EXCEPT !.pc = "read", !.prev = p])
        /\ UNCHANGED <<files, content, document, jobs, mailed, removable, crashes>>

FlushUpload(s) ==
    /\ tx[s].pc = "read"
    /\ ~RowHeld(s, tx[s].prev)
    /\ Become(s, [tx[s] EXCEPT !.pc = "flushed"])
    /\ UNCHANGED <<files, content, document, jobs, mailed, removable, crashes>>

\* Mutation: the version is not counted up.
VersionKept(p) == IF p = None THEN 1 ELSE document[p].version

NextVersion(p) == IF p = None THEN 1 ELSE document[p].version + 1

\* Mutation: the retired document stays active.
LinkedOnly(row, d) == [row EXCEPT !.replacedBy = d]

Retired(row, d) == [row EXCEPT !.active = FALSE, !.replacedBy = d]

NewRow(t) == [key |-> t.key, version |-> NextVersion(t.prev), active |-> TRUE,
              replacedBy |-> None, qc |-> "pending"]

CommitUpload(s) ==
    LET t == tx[s]
    IN  /\ t.pc = "flushed"
        /\ document' = [d \in Docs |-> IF d = t.doc THEN NewRow(t)
                                    ELSE IF d = t.prev THEN Retired(document[d], t.doc)
                                    ELSE document[d]]
        /\ Become(s, [t EXCEPT !.pc = "enqueue"])
        /\ UNCHANGED <<files, content, jobs, mailed, removable, crashes>>

\* the enqueue that follows the commit
EnqueueCheck(s) ==
    /\ tx[s].pc = "enqueue"
    /\ jobs' = jobs \cup {tx[s].doc}
    /\ Become(s, Idle)
    /\ UNCHANGED <<files, content, document, mailed, removable, crashes>>

-----------------------------------------------------------------------------
(* update_qc and deactivate_document *)

UpdateQc(s, d, v) ==
    /\ Free(s, Requests) /\ Stored(d)
    /\ Become(s, [Idle EXCEPT !.op = "ruling", !.pc = "loaded", !.doc = d,
                              !.seen = document[d].qc, !.verdict = v])
    /\ UNCHANGED <<files, content, document, jobs, mailed, removable, crashes>>

\* The UPDATE omits a verdict equal to the loaded one.
WrittenQc(d, seen, v) == IF v = seen THEN document[d].qc ELSE v

CommitRuling(s) ==
    LET t == tx[s]
    IN  /\ t.op = "ruling"
        /\ ~RowHeld(s, t.doc)
        /\ document' = [document EXCEPT ![t.doc].qc = WrittenQc(t.doc, t.seen, t.verdict)]
        /\ Become(s, Idle)
        /\ UNCHANGED <<files, content, jobs, mailed, removable, crashes>>

\* The status of the case is looked at when the request loads it.
Deactivate(s, d) ==
    /\ Free(s, Requests) /\ Stored(d)
    /\ removable
    /\ Become(s, [Idle EXCEPT !.op = "removal", !.pc = "loaded", !.doc = d])
    /\ UNCHANGED <<files, content, document, jobs, mailed, removable, crashes>>

CommitRemoval(s) ==
    LET d == tx[s].doc
    IN  /\ tx[s].op = "removal"
        /\ ~RowHeld(s, d)
        /\ document' = [document EXCEPT ![d].active = FALSE]
        /\ Become(s, Idle)
        /\ UNCHANGED <<files, content, jobs, mailed, removable, crashes>>

-----------------------------------------------------------------------------
(* document_qc_job *)

\* A job id runs in one worker at a time.
Queued(d) ==
    /\ d \in jobs
    /\ \A t \in Workers : ~(tx[t].op = "check" /\ tx[t].doc = d)

\* The job finds its row, which is never deleted, and opens its file.
PickUpCheck(s, d) ==
    /\ Free(s, Configured) /\ Queued(d)
    /\ Become(s, [Idle EXCEPT !.op = "check", !.pc = "loaded", !.doc = d, !.seen = document[d].qc])
    /\ UNCHANGED <<files, content, document, jobs, mailed, removable, crashes>>

\* In a process without a session factory the job raises, and is not retried.
JobRaises(s, d) ==
    /\ Free(s, Workers \ Configured) /\ Queued(d)
    /\ jobs' = jobs \ {d}
    /\ UNCHANGED <<files, content, document, mailed, removable, tx, crashes>>

\* The check of anything but an image compares a file type object with the
\* stored MIME string, which differ whenever the type is recognised.
Verdict(c) ==
    CASE c \in {"clear image", "unrecognised"} -> "pass"
      [] c \in {"blurred image", "pdf"}        -> "warn"
      [] OTHER                                 -> "fail"

OnlyFailures(v) == v = "fail" \* Mutation: a warning is not worth a message

NeedsAttention(v) == v \in {"warn", "fail"}

CommitCheck(s) ==
    LET t == tx[s]
        v == Verdict(content[t.doc])
    IN  /\ t.op = "check" /\ t.pc = "loaded"
        /\ ~RowHeld(s, t.doc)
        /\ document' = [document EXCEPT ![t.doc].qc = WrittenQc(t.doc, t.seen, v)]
        /\ Become(s, [t EXCEPT !.verdict = v, !.pc = IF NeedsAttention(v) THEN "report" ELSE "done"])
        /\ UNCHANGED <<files, content, jobs, mailed, removable, crashes>>

\* the e-mail that follows the commit, to a client who has an address
Report(s) ==
    /\ tx[s].pc = "report"
    /\ mailed' = mailed \cup {tx[s].doc}
    /\ Become(s, [tx[s] EXCEPT !.pc = "done"])
    /\ UNCHANGED <<files, content, document, jobs, removable, crashes>>

JobAck(s) ==
    /\ tx[s].pc = "done"
    /\ jobs' = jobs \ {tx[s].doc}
    /\ Become(s, Idle)
    /\ UNCHANGED <<files, content, document, mailed, removable, crashes>>

-----------------------------------------------------------------------------
\* The case enters or leaves CLIENT_CANCELLABLE and awaiting_client.
CaseMoves ==
    /\ removable' = ~removable
    /\ UNCHANGED <<files, content, document, jobs, mailed, tx, crashes>>

\* The process of a session dies: its transaction rolls back, its file and its
\* job stay.
Crash(s) ==
    /\ tx[s] # Idle /\ crashes < MaxCrashes
    /\ crashes' = crashes + 1
    /\ Become(s, Idle)
    /\ UNCHANGED <<files, content, document, jobs, mailed, removable>>

BeginRequest(s, d) ==
    \/ \E k \in Keys, c \in Sent : BeginUpload(s, d, k, c)
    \/ \E v \in Rulings : UpdateQc(s, d, v)
    \/ Deactivate(s, d)

Advance(s) ==
    \/ RejectFile(s)
    \/ ReadActive(s)
    \/ FlushUpload(s)
    \/ CommitUpload(s)
    \/ EnqueueCheck(s)
    \/ CommitRuling(s)
    \/ CommitRemoval(s)
    \/ CommitCheck(s)
    \/ Report(s)
    \/ JobAck(s)

Next ==
    \/ \E s \in Requests, d \in Docs : BeginRequest(s, d)
    \/ \E s \in Workers, d \in Docs : PickUpCheck(s, d) \/ JobRaises(s, d)
    \/ \E s \in Sessions : Advance(s) \/ Crash(s)
    \/ CaseMoves

Spec == Init /\ [][Next]_vars

-----------------------------------------------------------------------------
(* Properties *)

TypeOK ==
    /\ files \subseteq Docs
    /\ content \in [Docs -> Contents \cup {"none"}]
    /\ document \in [Docs -> Row \cup {NoRow}]
    /\ jobs \subseteq Docs
    /\ mailed \subseteq Docs
    /\ removable \in BOOLEAN
    /\ tx \in [Sessions -> Session]
    /\ crashes \in Nat

\* Every row has its file, whatever other uploads are refused or die: a download
\* and the quality check always find what they open.
RowsHaveFiles == \A d \in Docs : Stored(d) => Path(d) \in files

\* A file without a row belongs to an upload at work, or was left by a crash:
\* every refusal cleans up after itself.
Strays == {d \in Docs : /\ Path(d) \in files
                        /\ ~Stored(d)
                        /\ \A s \in Sessions : tx[s].doc # d}

StraysOnlyFromCrashes == Cardinality(Strays) <= crashes

\* Rows and files agree, but for what crashes have left behind.
FilesAgree == TypeOK /\ RowsHaveFiles /\ StraysOnlyFromCrashes

\* A replaced document is out of use, and its replacement answers the same
\* requirement under the next version number, also when uploads overlap.
VersionChain ==
    \A d \in Docs :
        LET e == document[d].replacedBy
        IN  e # None => /\ ~document[d].active
                        /\ Stored(e)
                        /\ document[e].key = document[d].key
                        /\ document[e].version = document[d].version + 1

\* Uploads that do not overlap leave one active document per requirement,
\* whatever removals and checks run beside them.
OneActive == \A k \in Keys : Cardinality(ActiveDocs(k)) <= 1

\* A quality check that found a problem is not forgotten before the client has
\* been told: a worker that dies after its commit leaves the job to run again.
ProblemsReported ==
    [][\A s \in Configured :
         LET d == tx[s].doc
         IN  tx[s].op = "check" /\ d \notin jobs' /\ Verdict(content[d]) # "pass"
                 => d \in mailed']_vars
=============================================================================
