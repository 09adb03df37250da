---------------------------- MODULE DocumentsProofs ----------------------------
(***************************************************************************)
(* Proofs about Documents, for every set of documents, requirements and    *)
(* sessions, overlapping uploads included.                                 *)
(***************************************************************************)
EXTENDS Documents, FiniteSetTheorems, TLAPS

(***************************************************************************)
(* What a session holds at each point of its work.  An upload owns its id: *)
(* nobody else has it, no row has it, and its file is in storage.          *)
(***************************************************************************)
Uploading(t) == t.pc \in {"saved", "read", "flushed"}

SessionFits(t) ==
    /\ t.pc = "idle" => t = Idle
    /\ t.pc # "idle" => t.doc \in Docs
    /\ t.pc = "idle" <=> t.op = "none"
    /\ Uploading(t) \/ t.pc = "enqueue" <=> t.op = "upload"
    /\ t.op = "upload" => t.key \in Keys
    /\ t.prev # None => t.op = "upload"
    /\ t.pc \in {"report", "done"} => t.op = "check"

SessionOK(t, rows, sent, stored) ==
    /\ SessionFits(t)
    /\ Uploading(t) => rows[t.doc] = NoRow /\ sent[t.doc] # "none" /\ t.doc \in stored
    /\ t.pc # "idle" /\ ~Uploading(t) => rows[t.doc] # NoRow
    /\ t.prev # None => rows[t.prev] # NoRow /\ rows[t.prev].key = t.key

TypeInv ==
    /\ TypeOK
    /\ \A s \in Sessions : SessionOK(tx[s], document, content, files)
    /\ \A s \in Sessions : \A q \in Sessions \ {s} :
          Uploading(tx[s]) /\ Uploading(tx[q]) => tx[q].doc # tx[s].doc
    /\ \A d \in jobs : Stored(d)
    /\ \A d \in Docs : Stored(d) => content[d] # "none" /\ d \in files

-----------------------------------------------------------------------------
LEMMA IdleOK ==
    ASSUME NEW rows, NEW sent, NEW stored
    PROVE  Idle \in Session /\ SessionOK(Idle, rows, sent, stored) /\ ~Uploading(Idle)
BY DEF Idle, Session, SessionOK, SessionFits, Uploading, Verdicts

LEMMA NoRowIsNoRow == NoRow \notin Row
BY DEF NoRow, Row

LEMMA OneSession ==
    ASSUME tx \in [Sessions -> Session], NEW s \in Sessions, NEW u, Become(s, u)
    PROVE  /\ tx'[s] = u
           /\ \A q \in Sessions \ {s} : tx'[q] = tx[q]
BY DEF Become

\* What every step may rely on and has to keep.
LEMMA SessionStep ==
    ASSUME TypeInv, NEW s \in Sessions, NEW u \in Session, Become(s, u),
           files' \subseteq Docs, jobs' \subseteq Docs, mailed' \subseteq Docs,
           content' \in [Docs -> Contents \cup {"none"}],
           document' \in [Docs -> Row \cup {NoRow}],
           removable' \in BOOLEAN, crashes' \in Nat,
           \A d \in jobs' : document'[d] # NoRow,
           \A d \in Docs : Stored(d) => document'[d] # NoRow /\ document'[d].key = document[d].key,
           \A d \in Docs : document'[d] # NoRow => Stored(d) \/ (Uploading(tx[s]) /\ d = tx[s].doc),
           \A d \in Docs : content[d] # "none" => content'[d] = content[d],
           \A d \in files \ files' : Uploading(tx[s]) /\ d = tx[s].doc /\ document'[d] = NoRow,
           SessionOK(u, document', content', files'),
           Uploading(u) => \A q \in Sessions \ {s} : Uploading(tx[q]) => tx[q].doc # u.doc
    PROVE  TypeInv'
<1>0. tx \in [Sessions -> Session] /\ \A q \in Sessions : SessionOK(tx[q], document, content, files)
  BY DEF TypeInv, TypeOK
<1>1. tx'[s] = u /\ \A q \in Sessions \ {s} : tx'[q] = tx[q]
  BY <1>0, OneSession
<1>2. TypeOK'
  BY <1>0, <1>1 DEF TypeOK, Become
<1>3. ASSUME NEW q \in Sessions PROVE SessionOK(tx'[q], document', content', files')
  <2>1. CASE q = s
    BY <1>1, <2>1
  <2>2. CASE q # s
    <3>1. SessionFits(tx[q]) /\ tx'[q] = tx[q] /\ tx[q] \in Session
      BY <1>0, <1>1, <2>2 DEF SessionOK
    <3>2. Uploading(tx[q]) => /\ document'[tx[q].doc] = NoRow /\ content'[tx[q].doc] # "none"
                              /\ tx[q].doc \in files'
      BY <1>0, <2>2, <3>1 DEF SessionOK, SessionFits, Uploading, Stored, TypeInv
    <3>3. tx[q].pc # "idle" /\ ~Uploading(tx[q]) => document'[tx[q].doc] # NoRow
      BY <1>0, <3>1 DEF SessionOK, SessionFits, Stored
    <3>4. tx[q].prev # None => document'[tx[q].prev] # NoRow /\ document'[tx[q].prev].key = tx[q].key
      BY <1>0, <3>1 DEF SessionOK, Stored, Session
    <3>5. QED
      BY <3>1, <3>2, <3>3, <3>4 DEF SessionOK
  <2>3. QED
    BY <2>1, <2>2
<1>4. \A p \in Sessions : \A q \in Sessions \ {p} :
          Uploading(tx'[p]) /\ Uploading(tx'[q]) => tx'[q].doc # tx'[p].doc
  BY <1>1 DEF TypeInv
<1>5. \A d \in Docs : document'[d] # NoRow => content'[d] # "none" /\ d \in files'
  <2> SUFFICES ASSUME NEW d \in Docs, document'[d] # NoRow PROVE content'[d] # "none" /\ d \in files'
    OBVIOUS
  <2>1. content[d] # "none" /\ d \in files
    BY <1>0 DEF SessionOK, TypeInv
  <2>2. QED
    BY <2>1
<1>6. QED
  BY <1>2, <1>3, <1>4, <1>5 DEF TypeInv, Stored

-----------------------------------------------------------------------------
LEMMA UploadSteps ==
    ASSUME TypeInv, NEW s \in Sessions,
           \/ \E d \in Docs, k \in Keys, c \in Sent : BeginUpload(s, d, k, c)
           \/ RejectFile(s)
           \/ ReadActive(s)
           \/ FlushUpload(s)
    PROVE  TypeInv'
<1>0. tx[s] \in Session /\ SessionOK(tx[s], document, content, files) /\ TypeOK
  BY DEF TypeInv, TypeOK
<1>1. ASSUME NEW d \in Docs, NEW k \in Keys, NEW c \in Sent, BeginUpload(s, d, k, c) PROVE TypeInv'
  <2> DEFINE u == [Idle EXCEPT !.op = "upload", !.pc = "saved", !.doc = d, !.key = k]
  <2>1. u \in Session /\ Uploading(u) /\ SessionFits(u) /\ u.doc = d /\ u.prev = None
    BY DEF Idle, Session, SessionFits, Uploading, Verdicts
  <2>2. content[d] = "none" /\ ~Stored(d) /\ c # "none" /\ c \in Contents
    BY <1>1, DocumentsAssumption DEF BeginUpload, TypeInv, Contents
  <2>3. SessionOK(u, document', content', files')
    <3>1. content'[d] = c /\ d \in files' /\ document'[d] = NoRow
      BY <1>0, <1>1, <2>2 DEF BeginUpload, TypeOK, Stored, Path
    <3> HIDE DEF u
    <3>2. QED
      BY <2>1, <2>2, <3>1 DEF SessionOK
  <2>4. \A q \in Sessions \ {s} : Uploading(tx[q]) => tx[q].doc # u.doc
    BY <2>1, <2>2 DEF TypeInv, SessionOK
  <2>5. \A e \in Docs : content[e] # "none" => content'[e] = content[e]
    BY <1>0, <1>1, <2>2 DEF BeginUpload, TypeOK
  <2>6. content' \in [Docs -> Contents \cup {"none"}] /\ files' \subseteq Docs /\ files \subseteq files'
    BY <1>0, <1>1, <2>2 DEF BeginUpload, TypeOK, Path
  <2>7. UNCHANGED <<document, jobs, mailed, removable, crashes>> /\ Become(s, u)
    BY <1>1 DEF BeginUpload
  <2>8. QED
    BY <1>0, <2>1, <2>3, <2>4, <2>5, <2>6, <2>7, SessionStep DEF TypeInv, TypeOK, Stored
<1>2. CASE RejectFile(s)
  <2>1. Uploading(tx[s]) /\ document[tx[s].doc] = NoRow /\ files' = files \ {tx[s].doc}
    BY <1>0, <1>2 DEF RejectFile, SessionOK, Uploading, WithoutFile, Path
  <2>2. UNCHANGED <<content, document, jobs, mailed, removable, crashes>> /\ Become(s, Idle)
    BY <1>2 DEF RejectFile
  <2>3. QED
    BY <1>0, <2>1, <2>2, IdleOK, SessionStep DEF TypeInv, TypeOK, Stored
<1>3. ASSUME NEW u \in Session, Become(s, u), ReadActive(s) \/ FlushUpload(s),
             SessionOK(u, document, content, files), Uploading(u), u.doc = tx[s].doc
      PROVE  TypeInv'
  <2>1. UNCHANGED <<files, content, document, jobs, mailed, removable, crashes>> /\ Uploading(tx[s])
    BY <1>3 DEF ReadActive, FlushUpload, Uploading
  <2>2. \A q \in Sessions \ {s} : Uploading(tx[q]) => tx[q].doc # u.doc
    BY <1>3, <2>1 DEF TypeInv
  <2>3. QED
    BY <1>0, <1>3, <2>1, <2>2, SessionStep DEF TypeInv, TypeOK, Stored
<1>4. CASE ReadActive(s)
  <2>1. PICK p \in IF ActiveDocs(tx[s].key) = {} THEN {None} ELSE ActiveDocs(tx[s].key) :
           Become(s, [tx[s] EXCEPT !.pc = "read", !.prev = p])
    BY <1>4 DEF ReadActive
  <2>2. p = None \/ (p \in Docs /\ document[p] # NoRow /\ document[p].key = tx[s].key)
    BY <2>1 DEF ActiveDocs, Stored
  <2> DEFINE u == [tx[s] EXCEPT !.pc = "read", !.prev = p]
  <2>3. u \in Session /\ u.pc = "read" /\ u.prev = p /\ u.doc = tx[s].doc /\ u.key = tx[s].key /\ u.op = tx[s].op
    BY <1>0, <2>2 DEF Session
  <2>4. SessionOK(u, document, content, files) /\ Uploading(u)
    BY <1>0, <1>4, <2>2, <2>3 DEF ReadActive, SessionOK, SessionFits, Uploading
  <2>5. QED
    BY <1>3, <1>4, <2>1, <2>3, <2>4
<1>5. CASE FlushUpload(s)
  <2> DEFINE u == [tx[s] EXCEPT !.pc = "flushed"]
  <2>1. u \in Session /\ u.pc = "flushed" /\ u.prev = tx[s].prev /\ u.doc = tx[s].doc
        /\ u.key = tx[s].key /\ u.op = tx[s].op
    BY <1>0 DEF Session
  <2>2. SessionOK(u, document, content, files) /\ Uploading(u)
    BY <1>0, <1>5, <2>1 DEF FlushUpload, SessionOK, SessionFits, Uploading
  <2>3. Become(s, u)
    BY <1>5 DEF FlushUpload
  <2>4. QED
    BY <1>3, <1>5, <2>1, <2>2, <2>3
<1>6. QED
  BY <1>1, <1>2, <1>4, <1>5

\* A row keeps its key and its version once it is stored.
LEMMA CommittedRow ==
    ASSUME TypeInv, NEW s \in Sessions, CommitUpload(s)
    PROVE  LET t == tx[s]
           IN  /\ t.doc \in Docs /\ ~Stored(t.doc) /\ NewRow(t) \in Row
               /\ document'[t.doc] = NewRow(t)
               /\ t.prev # None => /\ t.prev \in Docs /\ Stored(t.prev) /\ t.prev # t.doc
                                   /\ Retired(document[t.prev], t.doc) \in Row
                                   /\ document'[t.prev] = Retired(document[t.prev], t.doc)
               /\ \A d \in Docs \ {t.doc, t.prev} : document'[d] = document[d]
<1>0. tx[s] \in Session /\ SessionOK(tx[s], document, content, files) /\ tx[s].pc = "flushed"
      /\ document \in [Docs -> Row \cup {NoRow}]
  BY DEF TypeInv, TypeOK, CommitUpload
<1>1. tx[s].doc \in Docs /\ ~Stored(tx[s].doc) /\ tx[s].key \in Keys
  BY <1>0 DEF SessionOK, SessionFits, Uploading, Stored
<1>2. tx[s].prev # None => tx[s].prev \in Docs /\ Stored(tx[s].prev) /\ tx[s].prev # tx[s].doc
                           /\ document[tx[s].prev] \in Row
  BY <1>0, <1>1 DEF Session, SessionOK, Stored
<1>3. NextVersion(tx[s].prev) \in Nat \ {0}
  BY <1>2 DEF NextVersion, Row
<1>4. NewRow(tx[s]) \in Row
  BY <1>1, <1>3 DEF NewRow, Row, Verdicts
<1>5. tx[s].prev # None => Retired(document[tx[s].prev], tx[s].doc) \in Row
  BY <1>1, <1>2 DEF Retired, Row
<1>6. document' = [d \in Docs |-> IF d = tx[s].doc THEN NewRow(tx[s])
                                ELSE IF d = tx[s].prev THEN Retired(document[d], tx[s].doc)
                                ELSE document[d]]
  BY DEF CommitUpload
<1>7. document'[tx[s].doc] = NewRow(tx[s])
      /\ \A d \in Docs \ {tx[s].doc} : document'[d] = IF d = tx[s].prev THEN Retired(document[d], tx[s].doc)
                                                                     ELSE document[d]
  BY <1>1, <1>2, <1>6
<1>8. QED
  BY <1>1, <1>2, <1>4, <1>5, <1>7

LEMMA CommitUploadType ==
    ASSUME TypeInv, NEW s \in Sessions, CommitUpload(s)
    PROVE  TypeInv'
<1> DEFINE u == [tx[s] EXCEPT !.pc = "enqueue"]
<1>0. tx[s] \in Session /\ SessionOK(tx[s], document, content, files) /\ TypeOK
  BY DEF TypeInv, TypeOK
<1>1. u \in Session /\ u.pc = "enqueue" /\ u.prev = tx[s].prev /\ u.doc = tx[s].doc
      /\ u.key = tx[s].key /\ u.op = tx[s].op
  BY <1>0 DEF Session
<1>2. Become(s, u) /\ UNCHANGED <<files, content, jobs, mailed, removable, crashes>> /\ Uploading(tx[s])
  BY DEF CommitUpload, Uploading
<1>3. /\ tx[s].doc \in Docs /\ ~Stored(tx[s].doc) /\ NewRow(tx[s]) \in Row
      /\ document'[tx[s].doc] = NewRow(tx[s])
      /\ tx[s].prev # None => /\ tx[s].prev \in Docs /\ Stored(tx[s].prev) /\ tx[s].prev # tx[s].doc
                              /\ Retired(document[tx[s].prev], tx[s].doc) \in Row
                              /\ document'[tx[s].prev] = Retired(document[tx[s].prev], tx[s].doc)
      /\ \A d \in Docs \ {tx[s].doc, tx[s].prev} : document'[d] = document[d]
  BY CommittedRow
<1>4. \A d \in Docs : document'[d] \in Row \cup {NoRow}
  <2> SUFFICES ASSUME NEW d \in Docs PROVE document'[d] \in Row \cup {NoRow}
    OBVIOUS
  <2>1. document[d] \in Row \cup {NoRow}
    BY <1>0 DEF TypeOK
  <2>2. CASE d = tx[s].prev
    <3>1. tx[s].prev # None
      BY <2>2, DocumentsAssumption
    <3>2. QED
      BY <1>3, <2>2, <3>1
  <2>3. QED
    BY <1>3, <2>1, <2>2
<1>5. document' \in [Docs -> Row \cup {NoRow}]
  <2>1. document' = [d \in Docs |-> document'[d]]
    BY DEF CommitUpload
  <2>2. QED
    BY <1>4, <2>1
<1>6. ASSUME NEW d \in Docs, Stored(d) PROVE document'[d] # NoRow /\ document'[d].key = document[d].key
  <2>1. CASE d = tx[s].prev
    <3>1. Retired(document[d], tx[s].doc).key = document[d].key /\ tx[s].prev # None
      BY <1>0, <1>6, <2>1, DocumentsAssumption DEF Retired, Stored, TypeOK, Row
    <3>2. QED
      BY <1>3, <2>1, <3>1, NoRowIsNoRow
  <2>2. QED
    BY <1>3, <1>6, <2>1 DEF Stored
<1>7. \A d \in Docs : document'[d] # NoRow => Stored(d) \/ (Uploading(tx[s]) /\ d = tx[s].doc)
  BY <1>2, <1>3, DocumentsAssumption DEF Stored
<1>8. SessionOK(u, document', content', files')
  <2>1. document'[u.doc] # NoRow
    BY <1>1, <1>3, NoRowIsNoRow
  <2>2. u.prev # None => document'[u.prev] # NoRow /\ document'[u.prev].key = u.key
    BY <1>0, <1>1, <1>3, <1>6 DEF SessionOK
  <2>3. SessionFits(u) /\ ~Uploading(u)
    BY <1>0, <1>1, <1>2 DEF SessionOK, SessionFits, Uploading
  <2> HIDE DEF u
  <2>4. QED
    BY <2>1, <2>2, <2>3 DEF SessionOK
<1>9. \A d \in jobs' : document'[d] # NoRow
  BY <1>0, <1>2, <1>6 DEF TypeInv, TypeOK
<1>10. ~Uploading(u)
  BY <1>1 DEF Uploading
<1> HIDE DEF u
<1>11. QED
  BY <1>0, <1>1, <1>2, <1>5, <1>6, <1>7, <1>8, <1>9, <1>10, SessionStep DEF TypeOK

\* A session that only reads, or ends.
LEMMA ReadingStep ==
    ASSUME TypeInv, NEW s \in Sessions, NEW u \in Session, Become(s, u),
           UNCHANGED <<files, content, document>>,
           removable' \in BOOLEAN, crashes' \in Nat, mailed' \subseteq Docs,
           jobs' \subseteq Docs, \A d \in jobs' : Stored(d),
           SessionFits(u), ~Uploading(u), u.pc # "idle" => Stored(u.doc), u.prev = None
    PROVE  TypeInv'
<1>1. TypeOK /\ \A d \in Docs : document[d] # NoRow <=> Stored(d)
  BY DEF TypeInv, Stored
<1>2. SessionOK(u, document', content', files')
  BY <1>1 DEF SessionOK, Stored
<1>3. QED
  BY <1>1, <1>2, SessionStep DEF TypeOK, Stored

\* A session that writes the verdict or the active flag of a stored row.
LEMMA EditStep ==
    ASSUME TypeInv, NEW s \in Sessions, NEW u \in Session, Become(s, u),
           UNCHANGED <<files, content, jobs, mailed, removable, crashes>>,
           NEW d \in Docs, Stored(d), NEW row \in Row, row.key = document[d].key,
           document' = [document EXCEPT ![d] = row],
           SessionFits(u), ~Uploading(u), u.pc # "idle" => u.doc = d, u.prev = None
    PROVE  TypeInv'
<1>1. TypeOK
  BY DEF TypeInv
<1>2. \A e \in Docs : document'[e] = IF e = d THEN row ELSE document[e]
  BY <1>1 DEF TypeOK
<1>3. document' \in [Docs -> Row \cup {NoRow}]
  BY <1>1 DEF TypeOK
<1>4. SessionOK(u, document', content', files')
  BY <1>2, NoRowIsNoRow DEF SessionOK
<1>5. \A e \in Docs : /\ Stored(e) <=> document'[e] # NoRow
                      /\ Stored(e) => document'[e].key = document[e].key
  BY <1>2, NoRowIsNoRow DEF Stored
<1>6. QED
  BY <1>1, <1>3, <1>4, <1>5, SessionStep DEF TypeInv, TypeOK

LEMMA Edits ==
    ASSUME TypeInv, NEW s \in Sessions, CommitRuling(s) \/ CommitRemoval(s) \/ CommitCheck(s)
    PROVE  /\ tx[s].doc \in Docs /\ Stored(tx[s].doc)
           /\ \E v \in Verdicts, a \in {document[tx[s].doc].active, FALSE} :
                 /\ [document[tx[s].doc] EXCEPT !.qc = v, !.active = a] \in Row
                 /\ document' = [document EXCEPT ![tx[s].doc] =
                                    [document[tx[s].doc] EXCEPT !.qc = v, !.active = a]]
<1> DEFINE d == tx[s].doc
<1>0. tx[s] \in Session /\ SessionOK(tx[s], document, content, files)
      /\ document \in [Docs -> Row \cup {NoRow}]
  BY DEF TypeInv, TypeOK
<1>1. d \in Docs /\ document[d] \in Row
  BY <1>0 DEF SessionOK, SessionFits, Uploading, CommitRuling, CommitRemoval, CommitCheck
<1>2. \A c : Verdict(c) \in Verdicts
  BY DEF Verdict, Verdicts
<1>3. \A seen, v \in Verdicts : WrittenQc(d, seen, v) \in Verdicts
  BY <1>1 DEF WrittenQc, Row
<1>4. \A v \in Verdicts, a \in BOOLEAN : [document[d] EXCEPT !.qc = v, !.active = a] \in Row
  BY <1>1 DEF Row
<1>5. CASE CommitRuling(s) \/ CommitCheck(s)
  <2>1. PICK v \in Verdicts : document' = [document EXCEPT ![d].qc = v]
    BY <1>0, <1>2, <1>3, <1>5 DEF CommitRuling, CommitCheck, Session
  <2>2. [document[d] EXCEPT !.qc = v] = [document[d] EXCEPT !.qc = v, !.active = document[d].active]
    BY <1>1 DEF Row
  <2>3. document[d].active \in BOOLEAN
    BY <1>1 DEF Row
  <2>4. QED
    BY <1>1, <1>4, <2>1, <2>2, <2>3, NoRowIsNoRow DEF Stored
<1>6. CASE CommitRemoval(s)
  <2>1. document' = [document EXCEPT ![d].active = FALSE]
    BY <1>6 DEF CommitRemoval
  <2>2. document[d].qc \in Verdicts
        /\ [document[d] EXCEPT !.active = FALSE] = [document[d] EXCEPT !.qc = document[d].qc, !.active = FALSE]
    BY <1>1 DEF Row
  <2>3. QED
    BY <1>1, <1>4, <2>1, <2>2, NoRowIsNoRow DEF Stored
<1>7. QED
  BY <1>5, <1>6

LEMMA EditsType ==
    ASSUME TypeInv, NEW s \in Sessions, CommitRuling(s) \/ CommitRemoval(s) \/ CommitCheck(s)
    PROVE  TypeInv'
<1>0. tx[s] \in Session /\ SessionOK(tx[s], document, content, files) /\ document \in [Docs -> Row \cup {NoRow}]
  BY DEF TypeInv, TypeOK
<1>1. PICK row \in Row : /\ tx[s].doc \in Docs /\ Stored(tx[s].doc)
                         /\ row.key = document[tx[s].doc].key
                         /\ document' = [document EXCEPT ![tx[s].doc] = row]
  <2>1. PICK v \in Verdicts, a \in {document[tx[s].doc].active, FALSE} :
           /\ tx[s].doc \in Docs /\ Stored(tx[s].doc)
           /\ [document[tx[s].doc] EXCEPT !.qc = v, !.active = a] \in Row
           /\ document' = [document EXCEPT ![tx[s].doc] =
                              [document[tx[s].doc] EXCEPT !.qc = v, !.active = a]]
    BY Edits
  <2>2. document[tx[s].doc] \in Row
    BY <1>0, <2>1 DEF Stored
  <2>3. [document[tx[s].doc] EXCEPT !.qc = v, !.active = a].key = document[tx[s].doc].key
    BY <2>2 DEF Row
  <2>4. QED
    BY <2>1, <2>3
<1>2. UNCHANGED <<files, content, jobs, mailed, removable, crashes>>
  BY DEF CommitRuling, CommitRemoval, CommitCheck
<1>3. CASE Become(s, Idle)
  BY <1>1, <1>2, <1>3, IdleOK, EditStep DEF SessionOK, Idle
<1>4. ASSUME NEW v \in Verdicts, NEW pc \in {"report", "done"}, CommitCheck(s),
             Become(s, [tx[s] EXCEPT !.verdict = v, !.pc = pc])
      PROVE  TypeInv'
  <2> DEFINE u == [tx[s] EXCEPT !.verdict = v, !.pc = pc]
  <2>1. u \in Session /\ u.pc = pc /\ u.op = "check" /\ u.doc = tx[s].doc /\ u.prev = tx[s].prev
    BY <1>0, <1>4 DEF Session, CommitCheck
  <2>2. tx[s].prev = None
    BY <1>0, <1>4 DEF CommitCheck, SessionOK, SessionFits
  <2>3. SessionFits(u) /\ ~Uploading(u)
    BY <1>1, <2>1, <2>2 DEF SessionFits, Uploading
  <2> HIDE DEF u
  <2>4. Become(s, u)
    BY <1>4 DEF u
  <2>5. QED
    BY <1>1, <1>2, <2>1, <2>2, <2>3, <2>4, EditStep
<1>5. CASE CommitCheck(s)
  <2>1. Verdict(content[tx[s].doc]) \in Verdicts
    BY DEF Verdict, Verdicts
  <2>2. QED
    BY <1>4, <1>5, <2>1 DEF CommitCheck
<1>6. QED
  BY <1>3, <1>5 DEF CommitRuling, CommitRemoval

LEMMA QuietSteps ==
    ASSUME TypeInv, NEW s \in Sessions,
           \/ EnqueueCheck(s) \/ Report(s) \/ JobAck(s) \/ Crash(s)
           \/ \E d \in Docs : \/ \E v \in Rulings : UpdateQc(s, d, v)
                              \/ Deactivate(s, d) \/ PickUpCheck(s, d) \/ JobRaises(s, d)
    PROVE  TypeInv'
<1>0. tx[s] \in Session /\ SessionOK(tx[s], document, content, files) /\ TypeOK
      /\ document \in [Docs -> Row \cup {NoRow}] /\ \A d \in jobs : Stored(d)
  BY DEF TypeInv, TypeOK
<1>1. CASE EnqueueCheck(s) \/ JobAck(s) \/ Crash(s)
  <2>1. tx[s].pc # "idle" /\ (EnqueueCheck(s) => tx[s].doc \in Docs /\ Stored(tx[s].doc))
    BY <1>0, <1>1 DEF EnqueueCheck, JobAck, Crash, SessionOK, SessionFits, Uploading, Stored
  <2>2. Become(s, Idle) /\ jobs' \subseteq Docs /\ \A d \in jobs' : Stored(d)
    BY <1>0, <1>1, <2>1 DEF EnqueueCheck, JobAck, Crash, TypeOK
  <2>3. UNCHANGED <<files, content, document, removable, mailed>> /\ crashes' \in Nat
    BY <1>0, <1>1 DEF EnqueueCheck, JobAck, Crash, TypeOK
  <2>4. QED
    BY <1>0, <2>2, <2>3, IdleOK, ReadingStep DEF TypeOK, SessionOK, Idle
<1>2. CASE Report(s)
  <2> DEFINE u == [tx[s] EXCEPT !.pc = "done"]
  <2>1. u \in Session /\ u.pc = "done" /\ u.op = "check" /\ u.doc = tx[s].doc /\ u.prev = None
        /\ u.doc \in Docs /\ Stored(u.doc)
    BY <1>0, <1>2 DEF Session, Report, SessionOK, SessionFits, Uploading, Stored
  <2>2. SessionFits(u) /\ ~Uploading(u)
    BY <2>1 DEF SessionFits, Uploading
  <2>3. Become(s, u) /\ UNCHANGED <<files, content, document, jobs, removable, crashes>> /\ mailed' \subseteq Docs
    BY <1>0, <1>2, <2>1 DEF Report, TypeOK
  <2> HIDE DEF u
  <2>4. QED
    BY <1>0, <2>1, <2>2, <2>3, ReadingStep DEF TypeOK
<1>3. ASSUME NEW d \in Docs, Stored(d), NEW u \in Session, Become(s, u),
             u.op \in {"ruling", "removal", "check"}, u.pc = "loaded", u.doc = d, u.prev = None,
             UNCHANGED <<files, content, document, jobs, mailed, removable, crashes>>
      PROVE  TypeInv'
  <2>1. SessionFits(u) /\ ~Uploading(u)
    BY <1>3 DEF SessionFits, Uploading
  <2>2. QED
    BY <1>0, <1>3, <2>1, ReadingStep DEF TypeOK
<1>4. ASSUME NEW d \in Docs, NEW v \in Rulings, UpdateQc(s, d, v) PROVE TypeInv'
  <2> DEFINE u == [Idle EXCEPT !.op = "ruling", !.pc = "loaded", !.doc = d,
                               !.seen = document[d].qc, !.verdict = v]
  <2>1. Stored(d) /\ document[d].qc \in Verdicts /\ v \in Verdicts
    BY <1>0, <1>4, DocumentsAssumption DEF UpdateQc, Stored, Row
  <2>2. u \in Session /\ u.op = "ruling" /\ u.pc = "loaded" /\ u.doc = d /\ u.prev = None
    BY <2>1 DEF Idle, Session
  <2>3. QED
    BY <1>3, <1>4, <2>1, <2>2 DEF UpdateQc
<1>5. ASSUME NEW d \in Docs, Deactivate(s, d) PROVE TypeInv'
  <2> DEFINE u == [Idle EXCEPT !.op = "removal", !.pc = "loaded", !.doc = d]
  <2>1. u \in Session /\ u.op = "removal" /\ u.pc = "loaded" /\ u.doc = d /\ u.prev = None
    BY DEF Idle, Session, Verdicts
  <2>2. QED
    BY <1>3, <1>5, <2>1 DEF Deactivate
<1>6. ASSUME NEW d \in Docs, PickUpCheck(s, d) PROVE TypeInv'
  <2> DEFINE u == [Idle EXCEPT !.op = "check", !.pc = "loaded", !.doc = d, !.seen = document[d].qc]
  <2>1. Stored(d) /\ document[d].qc \in Verdicts
    BY <1>0, <1>6 DEF PickUpCheck, Queued, Stored, Row
  <2>2. u \in Session /\ u.op = "check" /\ u.pc = "loaded" /\ u.doc = d /\ u.prev = None
    BY <2>1 DEF Idle, Session, Verdicts
  <2>3. QED
    BY <1>3, <1>6, <2>1, <2>2 DEF PickUpCheck
<1>7. ASSUME NEW d \in Docs, JobRaises(s, d) PROVE TypeInv'
  BY <1>0, <1>7 DEF JobRaises, TypeInv, TypeOK, Stored
<1>8. QED
  BY <1>1, <1>2, <1>4, <1>5, <1>6, <1>7

LEMMA TypeStep == TypeInv /\ [Next]_vars => TypeInv'
<1> SUFFICES ASSUME TypeInv, [Next]_vars PROVE TypeInv'
  OBVIOUS
<1>1. ASSUME NEW s \in Requests, NEW d \in Docs, BeginRequest(s, d) PROVE TypeInv'
  BY <1>1, UploadSteps, QuietSteps DEF BeginRequest, Sessions
<1>2. ASSUME NEW s \in Workers, NEW d \in Docs, PickUpCheck(s, d) \/ JobRaises(s, d) PROVE TypeInv'
  BY <1>2, QuietSteps DEF Sessions
<1>3. ASSUME NEW s \in Sessions, Advance(s) \/ Crash(s) PROVE TypeInv'
  BY <1>3, UploadSteps, CommitUploadType, EditsType, QuietSteps DEF Advance
<1>4. CASE CaseMoves \/ UNCHANGED vars
  BY <1>4 DEF CaseMoves, vars, TypeInv, TypeOK, Stored
<1>5. QED
  BY <1>1, <1>2, <1>3, <1>4 DEF Next

LEMMA TypeInit == Init => TypeInv
<1>1. Init => TypeOK
  BY IdleOK DEF Init, TypeOK
<1>2. QED
  BY <1>1, IdleOK DEF Init, TypeInv, Stored

LEMMA TypeInvariant == Spec => []TypeInv
BY TypeInit, TypeStep, PTL DEF Spec

\* Every reachable state is well typed.
THEOREM DocumentsTypeCorrect == Spec => []TypeOK
<1>1. TypeInv => TypeOK
  BY DEF TypeInv
<1>2. QED
  BY <1>1, TypeInvariant, PTL

\* Every row has its file: an id belongs to one upload, which removes its file
\* only before it stores a row.
THEOREM FilesOutliveRows == Spec => []RowsHaveFiles
<1>1. TypeInv => RowsHaveFiles
  BY DEF TypeInv, RowsHaveFiles, Path
<1>2. QED
  BY <1>1, TypeInvariant, PTL

-----------------------------------------------------------------------------
(* Versions *)

\* What a step may do to the rows.
LEMMA RowMoves ==
    ASSUME TypeInv, [Next]_vars
    PROVE  \/ UNCHANGED document
           \/ \E s \in Sessions : CommitUpload(s)
           \/ \E s \in Sessions : CommitRuling(s) \/ CommitRemoval(s) \/ CommitCheck(s)
<1>1. CASE UNCHANGED document
  BY <1>1
<1>2. QED
  BY <1>1, Zenon
     DEF Next, BeginRequest, BeginUpload, UpdateQc, Deactivate, PickUpCheck, JobRaises, Advance, RejectFile,
         ReadActive, FlushUpload, EnqueueCheck, Report, JobAck, Crash, CaseMoves, vars

\* An edit leaves everything of a row as it is but its verdict and, perhaps, its use.
LEMMA EditedRow ==
    ASSUME TypeInv, NEW s \in Sessions, CommitRuling(s) \/ CommitRemoval(s) \/ CommitCheck(s),
           NEW d \in Docs
    PROVE  /\ Stored(d)' <=> Stored(d)
           /\ document'[d].key = document[d].key
           /\ document'[d].version = document[d].version
           /\ document'[d].replacedBy = document[d].replacedBy
           /\ document'[d].active => document[d].active
<1>0. document \in [Docs -> Row \cup {NoRow}]
  BY DEF TypeInv, TypeOK
<1>1. PICK v \in Verdicts, a \in {document[tx[s].doc].active, FALSE} :
         /\ tx[s].doc \in Docs /\ Stored(tx[s].doc)
         /\ [document[tx[s].doc] EXCEPT !.qc = v, !.active = a] \in Row
         /\ document' = [document EXCEPT ![tx[s].doc] =
                            [document[tx[s].doc] EXCEPT !.qc = v, !.active = a]]
  BY Edits
<1>2. CASE d = tx[s].doc
  <2>1. document[d] \in Row /\ document'[d] = [document[d] EXCEPT !.qc = v, !.active = a] /\ document'[d] \in Row
    BY <1>0, <1>1, <1>2 DEF Stored
  <2>2. document'[d].active = a
    BY <2>1 DEF Row
  <2>3. QED
    BY <1>1, <1>2, <2>1, <2>2, NoRowIsNoRow DEF Stored, Row
<1>3. CASE d # tx[s].doc
  BY <1>0, <1>1, <1>3 DEF Stored
<1>4. QED
  BY <1>2, <1>3

LEMMA ChainUpload ==
    ASSUME TypeInv, VersionChain, NEW s \in Sessions, CommitUpload(s)
    PROVE  VersionChain'
<1> DEFINE t == tx[s]
<1>0. document \in [Docs -> Row \cup {NoRow}] /\ \A d \in Docs : Stored(d) <=> document[d] \in Row
  BY NoRowIsNoRow DEF TypeInv, TypeOK, Stored
<1>1. /\ t.doc \in Docs /\ ~Stored(t.doc) /\ document'[t.doc] = NewRow(t)
      /\ t.prev # None => /\ t.prev \in Docs /\ Stored(t.prev) /\ t.prev # t.doc
                          /\ document'[t.prev] = Retired(document[t.prev], t.doc)
      /\ \A d \in Docs \ {t.doc, t.prev} : document'[d] = document[d]
  BY CommittedRow
<1>2. /\ NewRow(t) # NoRow /\ NewRow(t).replacedBy = None /\ NewRow(t).key = t.key
      /\ NewRow(t).version = NextVersion(t.prev)
  BY CommittedRow, NoRowIsNoRow DEF NewRow
<1>3. ASSUME t.prev # None
      PROVE  LET row == Retired(document[t.prev], t.doc)
             IN  /\ row # NoRow /\ row.key = document[t.prev].key /\ row.version = document[t.prev].version
                 /\ row.replacedBy = t.doc /\ ~row.active
  <2>1. Retired(document[t.prev], t.doc) # NoRow
    BY <1>3, CommittedRow, NoRowIsNoRow
  <2>2. document[t.prev] \in Row
    BY <1>0, <1>1, <1>3
  <2>3. QED
    BY <2>1, <2>2 DEF Retired, Row
<1>4. t.prev # None => t.key = document[t.prev].key
  BY DEF TypeInv, SessionOK
<1>5. \A d \in Docs : Stored(d) => /\ document'[d] # NoRow /\ document'[d].key = document[d].key
                                   /\ document'[d].version = document[d].version
  BY <1>1, <1>3, DocumentsAssumption DEF Stored
<1>6. ASSUME NEW d \in Docs, document'[d].replacedBy # None
      PROVE  LET e == document'[d].replacedBy
             IN  /\ ~document'[d].active
                 /\ document'[e] # NoRow
                 /\ document'[e].key = document'[d].key
                 /\ document'[e].version = document'[d].version + 1
  <2>1. d # t.doc
    BY <1>1, <1>2, <1>6
  <2>2. CASE d = t.prev
    <3>1. t.prev # None
      BY <2>2, DocumentsAssumption
    <3>2. QED
      BY <1>1, <1>2, <1>3, <1>4, <2>2, <3>1 DEF NextVersion
  <2>3. CASE d # t.prev
    <3>1. document'[d] = document[d] /\ document[d].replacedBy \in Docs
      BY <1>0, <1>1, <1>6, <2>1, <2>3 DEF Row, NoRow
    <3>2. QED
      BY <1>5, <1>6, <3>1 DEF VersionChain
  <2>4. QED
    BY <2>2, <2>3
<1>7. QED
  BY <1>6 DEF VersionChain, Stored

\* A replaced document stays out of use, and its replacement is the next
\* version of the same requirement, however many uploads and edits overlap.
THEOREM VersionsAreChained == Spec => []VersionChain
<1>1. Init => VersionChain
  BY DEF Init, VersionChain, NoRow
<1>2. TypeInv /\ VersionChain /\ [Next]_vars => VersionChain'
  <2> SUFFICES ASSUME TypeInv, VersionChain, [Next]_vars PROVE VersionChain'
    OBVIOUS
  <2>1. CASE UNCHANGED document
    BY <2>1 DEF VersionChain, Stored
  <2>2. ASSUME NEW s \in Sessions, CommitRuling(s) \/ CommitRemoval(s) \/ CommitCheck(s) PROVE VersionChain'
    <3>1. \A d \in Docs : /\ Stored(d)' <=> Stored(d)
                          /\ document'[d].key = document[d].key
                          /\ document'[d].version = document[d].version
                          /\ document'[d].replacedBy = document[d].replacedBy
                          /\ document'[d].active => document[d].active
      BY <2>2, EditedRow
    <3>2. \A d \in Docs : document[d].replacedBy \in Docs \cup {None}
      BY DEF TypeInv, TypeOK, Row, NoRow
    <3>3. QED
      BY <3>1, <3>2 DEF VersionChain
  <2>3. QED
    BY <2>1, <2>2, RowMoves, ChainUpload
<1>3. QED
  BY <1>1, <1>2, TypeInvariant, PTL DEF Spec

-----------------------------------------------------------------------------
(***************************************************************************)
(* Active documents, when one session at a time serves uploads: what an    *)
(* upload found active is all there is until it commits.                   *)
(***************************************************************************)
SerialUploads == \A s, q \in Uploaders : s = q

ActiveInv ==
    /\ \A s \in Sessions : tx[s].op = "upload" => s \in Uploaders
    /\ \A s \in Sessions, k \in Keys :
          tx[s].pc \in {"read", "flushed"} /\ tx[s].key = k => ActiveDocs(k) \subseteq {tx[s].prev}
    /\ \A k \in Keys : \A d, e \in ActiveDocs(k) : d = e

\* A step of one session leaves the others alone.
LEMMA OthersStay ==
    ASSUME TypeInv, NEW s \in Sessions, NEW q \in Sessions, q # s,
           \/ \E d \in Docs : BeginRequest(q, d) \/ PickUpCheck(q, d)
           \/ Advance(q)
           \/ Crash(q)
    PROVE  tx'[s] = tx[s]
<1>1. \E u : Become(q, u)
  BY Zenon DEF BeginRequest, BeginUpload, UpdateQc, Deactivate, PickUpCheck, Advance, RejectFile,
       ReadActive, FlushUpload, CommitUpload, EnqueueCheck, CommitRuling, CommitRemoval, CommitCheck,
       Report, JobAck, Crash
<1>2. QED
  BY <1>1 DEF Become, TypeInv, TypeOK

\* How a session comes to be uploading.
LEMMA UploadMoves ==
    ASSUME TypeInv, [Next]_vars, NEW s \in Sessions
    PROVE  /\ tx'[s].op = "upload" => tx[s].op = "upload" \/ s \in Uploaders
           /\ tx'[s].pc \in {"read", "flushed"} => \/ tx'[s] = tx[s] /\ ~CommitUpload(s)
                                                   \/ ReadActive(s)
                                                   \/ FlushUpload(s)
<1>0. tx[s] \in Session /\ tx \in [Sessions -> Session]
  BY DEF TypeInv, TypeOK
<1> DEFINE Goal == /\ tx'[s].op = "upload" => tx[s].op = "upload" \/ s \in Uploaders
                   /\ tx'[s].pc \in {"read", "flushed"} => \/ tx'[s] = tx[s] /\ ~CommitUpload(s)
                                                           \/ ReadActive(s)
                                                           \/ FlushUpload(s)
<1>1. CASE tx'[s] = tx[s]
  <2>1. CommitUpload(s) => tx'[s].pc = "enqueue"
    BY <1>0 DEF CommitUpload, Become, Session
  <2>2. QED
    BY <1>1, <2>1
<1>2. CASE ReadActive(s) \/ FlushUpload(s)
  <2>1. tx[s].op = "upload"
    BY <1>2 DEF TypeInv, SessionOK, SessionFits, Uploading, ReadActive, FlushUpload
  <2>2. QED
    BY <1>2, <2>1
<1>3. ASSUME NEW d \in Docs, BeginRequest(s, d) \/ PickUpCheck(s, d) PROVE Goal
  <2>1. ASSUME NEW k \in Keys, NEW c \in Sent, BeginUpload(s, d, k, c) PROVE Goal
    <3>1. tx'[s].pc = "saved" /\ s \in Uploaders
      BY <1>0, <2>1 DEF BeginUpload, Free, Become, Idle
    <3>2. QED
      BY <3>1
  <2>2. ASSUME NEW v \in Rulings, UpdateQc(s, d, v) PROVE Goal
    <3>1. tx'[s].pc = "loaded" /\ tx'[s].op = "ruling"
      BY <1>0, <2>2 DEF UpdateQc, Become, Idle
    <3>2. QED
      BY <3>1
  <2>3. CASE Deactivate(s, d) \/ PickUpCheck(s, d)
    <3>1. tx'[s].pc = "loaded" /\ tx'[s].op \in {"removal", "check"}
      BY <1>0, <2>3 DEF Deactivate, PickUpCheck, Become, Idle
    <3>2. QED
      BY <3>1
  <2>4. QED
    BY <1>3, <2>1, <2>2, <2>3 DEF BeginRequest
<1>4. CASE RejectFile(s) \/ EnqueueCheck(s) \/ CommitRuling(s) \/ CommitRemoval(s) \/ JobAck(s) \/ Crash(s)
  <2>1. tx'[s] = Idle
    BY <1>0, <1>4 DEF RejectFile, EnqueueCheck, CommitRuling, CommitRemoval, JobAck, Crash, Become
  <2>2. QED
    BY <2>1 DEF Idle
<1>5. CASE CommitUpload(s) \/ CommitCheck(s) \/ Report(s)
  <2>1. tx'[s].pc \in {"enqueue", "report", "done"} /\ tx'[s].op = tx[s].op
    <3>1. PICK v \in Verdicts, pc \in {"enqueue", "report", "done"} :
             \/ tx'[s] = [tx[s] EXCEPT !.verdict = v, !.pc = pc]
             \/ tx'[s] = [tx[s] EXCEPT !.pc = pc]
      <4>1. \A c : Verdict(c) \in Verdicts
        BY DEF Verdict, Verdicts
      <4>2. QED
        BY <1>0, <1>5, <4>1 DEF CommitUpload, CommitCheck, Report, Become
    <3>2. QED
      BY <1>0, <3>1 DEF Session
  <2>2. QED
    BY <2>1
<1>6. CASE UNCHANGED tx
  BY <1>1, <1>6
<1>7. ASSUME NEW q \in Sessions, Advance(q) \/ Crash(q) PROVE Goal
  BY <1>1, <1>2, <1>4, <1>5, <1>7, OthersStay DEF Advance
<1>8. ASSUME NEW q \in Sessions, NEW d \in Docs, BeginRequest(q, d) \/ PickUpCheck(q, d) PROVE Goal
  BY <1>1, <1>3, <1>8, OthersStay
<1>9. QED
  BY <1>6, <1>7, <1>8 DEF Next, JobRaises, CaseMoves, vars, Sessions

\* Only the commit of an upload makes a document active.
LEMMA ActiveMoves ==
    ASSUME TypeInv, [Next]_vars, NEW k \in Keys
    PROVE  \/ ActiveDocs(k)' \subseteq ActiveDocs(k)
           \/ \E s \in Sessions :
                 /\ CommitUpload(s)
                 /\ k = tx[s].key
                 /\ ActiveDocs(k)' \subseteq (ActiveDocs(k) \ {tx[s].prev}) \cup {tx[s].doc}
<1>1. CASE UNCHANGED document
  BY <1>1 DEF ActiveDocs, Stored
<1>2. ASSUME NEW s \in Sessions, CommitRuling(s) \/ CommitRemoval(s) \/ CommitCheck(s)
      PROVE  ActiveDocs(k)' \subseteq ActiveDocs(k)
  BY <1>2, EditedRow DEF ActiveDocs
<1>3. ASSUME NEW s \in Sessions, CommitUpload(s), NEW d \in Docs, d \in ActiveDocs(k)'
      PROVE  \/ d \in ActiveDocs(k) \ {tx[s].prev}
             \/ d = tx[s].doc /\ k = tx[s].key
  <2>1. CASE d = tx[s].doc
    <3>1. NewRow(tx[s]).key = tx[s].key
      BY DEF NewRow
    <3>2. QED
      BY <1>3, <2>1, <3>1, CommittedRow DEF ActiveDocs
  <2>2. CASE d = tx[s].prev
    <3>1. document[d] \in Row /\ document'[d] = Retired(document[d], tx[s].doc)
      BY <1>3, <2>2, CommittedRow, DocumentsAssumption DEF TypeInv, TypeOK, Stored
    <3>2. ~document'[d].active
      BY <3>1 DEF Retired, Row
    <3>3. QED
      BY <1>3, <3>2 DEF ActiveDocs
  <2>3. CASE d \notin {tx[s].doc, tx[s].prev}
    BY <1>3, <2>3, CommittedRow DEF ActiveDocs, Stored
  <2>4. QED
    BY <2>1, <2>2, <2>3
<1>4. ASSUME NEW s \in Sessions, CommitUpload(s)
      PROVE  \/ ActiveDocs(k)' \subseteq ActiveDocs(k)
             \/ /\ k = tx[s].key
                /\ ActiveDocs(k)' \subseteq (ActiveDocs(k) \ {tx[s].prev}) \cup {tx[s].doc}
  <2>1. ActiveDocs(k)' \subseteq Docs
    BY DEF ActiveDocs
  <2>2. QED
    BY <1>3, <1>4, <2>1
<1>5. QED
  BY <1>1, <1>2, <1>4, RowMoves

LEMMA ActiveStep ==
    ASSUME SerialUploads, TypeInv, ActiveInv, [Next]_vars
    PROVE  ActiveInv'
<1>0. /\ \A s \in Sessions : tx[s] \in Session /\ SessionOK(tx[s], document, content, files)
      /\ \A s \in Sessions : tx[s].pc \in {"saved", "read", "flushed"} => tx[s].op = "upload"
      /\ \A s \in Sessions : tx[s].op = "upload" => tx[s].key \in Keys
  BY DEF TypeInv, TypeOK, SessionOK, SessionFits, Uploading
<1>1. \A s \in Sessions : tx'[s].op = "upload" => s \in Uploaders
  BY UploadMoves DEF ActiveInv
<1>2. ASSUME NEW k \in Keys PROVE \A d, e \in ActiveDocs(k)' : d = e
  <2>1. CASE ActiveDocs(k)' \subseteq ActiveDocs(k)
    BY <2>1 DEF ActiveInv
  <2>2. ASSUME NEW s \in Sessions, CommitUpload(s), k = tx[s].key,
               ActiveDocs(k)' \subseteq (ActiveDocs(k) \ {tx[s].prev}) \cup {tx[s].doc}
        PROVE  \A d, e \in ActiveDocs(k)' : d = e
    <3>1. ActiveDocs(k) \subseteq {tx[s].prev}
      BY <2>2 DEF ActiveInv, CommitUpload
    <3>2. QED
      BY <2>2, <3>1
  <2>3. QED
    BY <2>1, <2>2, ActiveMoves
<1>3. ASSUME NEW s \in Sessions, NEW k \in Keys, tx'[s].pc \in {"read", "flushed"}, tx'[s].key = k
      PROVE  ActiveDocs(k)' \subseteq {tx'[s].prev}
  <2>1. CASE tx'[s] = tx[s] /\ ~CommitUpload(s)
    <3>1. tx[s].op = "upload" /\ ActiveDocs(k) \subseteq {tx[s].prev}
      BY <1>0, <1>3, <2>1 DEF ActiveInv
    <3>2. ASSUME NEW q \in Sessions, CommitUpload(q) PROVE q = s
      <4>1. tx[q].op = "upload"
        BY <1>0, <3>2 DEF CommitUpload
      <4>2. QED
        BY <3>1, <4>1 DEF ActiveInv, SerialUploads
    <3>3. ActiveDocs(k)' \subseteq ActiveDocs(k)
      BY <2>1, <3>2, ActiveMoves
    <3>4. QED
      BY <2>1, <3>1, <3>3
  <2>2. CASE ReadActive(s)
    <3>1. PICK p \in IF ActiveDocs(tx[s].key) = {} THEN {None} ELSE ActiveDocs(tx[s].key) :
             tx' = [tx EXCEPT ![s] = [tx[s] EXCEPT !.pc = "read", !.prev = p]]
      BY <2>2 DEF ReadActive, Become
    <3>2. tx'[s].key = tx[s].key /\ tx'[s].prev = p
      BY <1>0, <3>1 DEF TypeInv, TypeOK, Session
    <3>3. tx[s].key = k /\ UNCHANGED document
      BY <1>3, <2>2, <3>2 DEF ReadActive
    <3>4. ActiveDocs(k) \subseteq {p}
      BY <3>1, <3>3 DEF ActiveInv
    <3>5. ActiveDocs(k)' = ActiveDocs(k)
      BY <3>3 DEF ActiveDocs, Stored
    <3>6. QED
      BY <3>2, <3>4, <3>5
  <2>3. CASE FlushUpload(s)
    <3>1. tx'[s].key = tx[s].key /\ tx'[s].prev = tx[s].prev /\ UNCHANGED document /\ tx[s].pc = "read"
      BY <1>0, <2>3 DEF FlushUpload, Become, TypeInv, TypeOK, Session
    <3>2. ActiveDocs(k)' = ActiveDocs(k)
      BY <3>1 DEF ActiveDocs, Stored
    <3>3. QED
      BY <1>3, <3>1, <3>2 DEF ActiveInv
  <2>4. QED
    BY <1>3, <2>1, <2>2, <2>3, UploadMoves
<1>4. QED
  BY <1>1, <1>2, <1>3 DEF ActiveInv

\* When uploads do not overlap, a requirement has one active document at most,
\* however removals, rulings, checks and crashes interleave with them.
THEOREM OneDocumentIsActive == SerialUploads => (Spec => []OneActive)
<1> SUFFICES ASSUME SerialUploads PROVE Spec => []OneActive
  OBVIOUS
<1>1. Init => ActiveInv
  BY DEF Init, ActiveInv, ActiveDocs, Stored, Idle
<1>2. TypeInv /\ ActiveInv /\ [Next]_vars => ActiveInv'
  BY ActiveStep
<1>3. ActiveInv => OneActive
  <2> SUFFICES ASSUME ActiveInv, NEW k \in Keys PROVE Cardinality(ActiveDocs(k)) <= 1
    BY DEF OneActive
  <2>1. CASE ActiveDocs(k) = {}
    BY <2>1, FS_EmptySet
  <2>2. ASSUME NEW d \in ActiveDocs(k) PROVE Cardinality(ActiveDocs(k)) <= 1
    <3>1. ActiveDocs(k) = {d}
      BY <2>2 DEF ActiveInv
    <3>2. Cardinality({d}) = 1
      BY FS_Singleton
    <3>3. QED
      BY <3>1, <3>2
  <2>3. QED
    BY <2>1, <2>2
<1>4. QED
  BY <1>1, <1>2, <1>3, TypeInvariant, PTL DEF Spec

-----------------------------------------------------------------------------
(***************************************************************************)
(* Reports: a checked document keeps its job until the check is through,   *)
(* and only one session checks it.                                         *)
(***************************************************************************)
CheckInv ==
    /\ \A s \in Sessions : tx[s].op = "check" => s \in Configured /\ tx[s].doc \in jobs
    /\ \A s \in Sessions : \A q \in Sessions \ {s} :
          tx[s].op = "check" /\ tx[q].op = "check" => tx[q].doc # tx[s].doc
    /\ \A s \in Sessions :
          tx[s].pc = "done" /\ Verdict(content[tx[s].doc]) # "pass" => tx[s].doc \in mailed

LEMMA NeedsAttentionUnlessPass ==
    ASSUME NEW c
    PROVE  Verdict(c) \in Verdicts /\ (NeedsAttention(Verdict(c)) <=> Verdict(c) # "pass")
BY DEF Verdict, Verdicts, NeedsAttention

\* How a session comes to be checking a document, and to be through with it.
LEMMA CheckMoves ==
    ASSUME TypeInv, [Next]_vars, NEW s \in Sessions, tx'[s].op = "check"
    PROVE  \/ \E d \in Docs : PickUpCheck(s, d) /\ tx'[s].doc = d /\ tx'[s].pc = "loaded"
           \/ /\ tx[s].op = "check" /\ tx'[s].doc = tx[s].doc /\ ~JobAck(s)
              /\ tx'[s].pc = "done" => \/ tx[s].pc = "done"
                                       \/ Verdict(content[tx[s].doc]) = "pass"
                                       \/ tx[s].doc \in mailed'
<1>0. tx[s] \in Session /\ tx \in [Sessions -> Session] /\ SessionFits(tx[s])
  BY DEF TypeInv, TypeOK, SessionOK
<1> DEFINE Goal == \/ \E d \in Docs : PickUpCheck(s, d) /\ tx'[s].doc = d /\ tx'[s].pc = "loaded"
                   \/ /\ tx[s].op = "check" /\ tx'[s].doc = tx[s].doc /\ ~JobAck(s)
                      /\ tx'[s].pc = "done" => \/ tx[s].pc = "done"
                                               \/ Verdict(content[tx[s].doc]) = "pass"
                                               \/ tx[s].doc \in mailed'
<1>1. CASE tx'[s] = tx[s]
  <2>1. JobAck(s) => tx'[s] = Idle
    BY <1>0 DEF JobAck, Become
  <2>2. tx[s] # Idle
    BY <1>1 DEF Idle
  <2>3. QED
    BY <1>1, <2>1, <2>2
<1>2. ASSUME NEW d \in Docs, BeginRequest(s, d) PROVE tx'[s].op # "check"
  <2>1. ASSUME NEW k \in Keys, NEW c \in Sent, BeginUpload(s, d, k, c) PROVE tx'[s].op = "upload"
    BY <1>0, <2>1 DEF BeginUpload, Become, Idle
  <2>2. ASSUME NEW v \in Rulings, UpdateQc(s, d, v) PROVE tx'[s].op = "ruling"
    BY <1>0, <2>2 DEF UpdateQc, Become, Idle
  <2>3. Deactivate(s, d) => tx'[s].op = "removal"
    BY <1>0 DEF Deactivate, Become, Idle
  <2>4. QED
    BY <1>2, <2>1, <2>2, <2>3 DEF BeginRequest
<1>3. ASSUME NEW d \in Docs, PickUpCheck(s, d) PROVE tx'[s].doc = d /\ tx'[s].pc = "loaded"
  BY <1>0, <1>3 DEF PickUpCheck, Become, Idle
<1>4. CASE RejectFile(s) \/ EnqueueCheck(s) \/ CommitRuling(s) \/ CommitRemoval(s) \/ JobAck(s) \/ Crash(s)
  <2>1. tx'[s] = Idle
    BY <1>0, <1>4 DEF RejectFile, EnqueueCheck, CommitRuling, CommitRemoval, JobAck, Crash, Become
  <2>2. QED
    BY <2>1 DEF Idle
<1>5. CASE ReadActive(s) \/ FlushUpload(s) \/ CommitUpload(s)
  <2>1. tx[s].op = "upload"
    BY <1>0, <1>5 DEF ReadActive, FlushUpload, CommitUpload, SessionFits, Uploading
  <2>2. \A p, pc : [tx[s] EXCEPT !.pc = pc, !.prev = p].op = tx[s].op /\ [tx[s] EXCEPT !.pc = pc].op = tx[s].op
    BY <1>0 DEF Session
  <2>3. tx'[s].op = tx[s].op
    <3>1. CASE ReadActive(s)
      <4>1. PICK p : tx'[s] = [tx[s] EXCEPT !.pc = "read", !.prev = p]
        BY <1>0, <3>1 DEF ReadActive, Become
      <4>2. QED
        BY <2>2, <4>1
    <3>2. CASE FlushUpload(s) \/ CommitUpload(s)
      <4>1. PICK pc : tx'[s] = [tx[s] EXCEPT !.pc = pc]
        BY <1>0, <3>2 DEF FlushUpload, CommitUpload, Become
      <4>2. QED
        BY <2>2, <4>1
    <3>3. QED
      BY <1>5, <3>1, <3>2
  <2>4. QED
    BY <2>1, <2>3
<1>6. CASE CommitCheck(s)
  <2> DEFINE v == Verdict(content[tx[s].doc])
             pc == IF NeedsAttention(v) THEN "report" ELSE "done"
  <2>1. tx'[s] = [tx[s] EXCEPT !.verdict = v, !.pc = pc] /\ tx[s].op = "check" /\ tx[s].pc = "loaded"
    BY <1>0, <1>6 DEF CommitCheck, Become
  <2>2. pc = "done" => v = "pass"
    BY NeedsAttentionUnlessPass
  <2> HIDE DEF v, pc
  <2>3. tx'[s].doc = tx[s].doc /\ tx'[s].pc = pc
    BY <1>0, <2>1 DEF Session
  <2>4. ~JobAck(s)
    BY <2>1 DEF JobAck
  <2>5. QED
    BY <2>1, <2>2, <2>3, <2>4 DEF v
<1>7. CASE Report(s)
  <2>1. tx'[s] = [tx[s] EXCEPT !.pc = "done"] /\ tx[s].pc = "report" /\ tx[s].doc \in mailed'
    BY <1>0, <1>7 DEF Report, Become
  <2>2. tx[s].op = "check" /\ tx'[s].doc = tx[s].doc
    BY <1>0, <2>1 DEF Session, SessionFits
  <2>3. QED
    BY <2>1, <2>2 DEF JobAck
<1>8. ASSUME NEW q \in Sessions, Advance(q) \/ Crash(q) PROVE Goal
  BY <1>1, <1>4, <1>5, <1>6, <1>7, <1>8, OthersStay DEF Advance
<1>9. ASSUME NEW q \in Sessions, NEW d \in Docs, BeginRequest(q, d) \/ PickUpCheck(q, d) PROVE Goal
  BY <1>1, <1>2, <1>3, <1>9, OthersStay
<1>10. QED
  BY <1>1, <1>8, <1>9 DEF Next, JobRaises, CaseMoves, vars, Sessions

\* A job leaves the queue at the end of its check, or unchecked where no
\* session checks it; nothing is unsaid, and no row's file changes.
LEMMA QueueMoves ==
    ASSUME TypeInv, [Next]_vars
    PROVE  /\ \A d \in jobs \ jobs' : \/ \E q \in Sessions : JobAck(q) /\ tx[q].doc = d
                                      \/ \A q \in Workers : ~(tx[q].op = "check" /\ tx[q].doc = d)
           /\ mailed \subseteq mailed'
           /\ \A d \in Docs : Stored(d) => content'[d] = content[d]
<1> DEFINE Goal == /\ \A d \in jobs \ jobs' : \/ \E q \in Sessions : JobAck(q) /\ tx[q].doc = d
                                              \/ \A q \in Workers : ~(tx[q].op = "check" /\ tx[q].doc = d)
                   /\ mailed \subseteq mailed'
                   /\ \A d \in Docs : Stored(d) => content'[d] = content[d]
<1>1. CASE UNCHANGED <<jobs, mailed, content>>
  BY <1>1
<1>2. ASSUME NEW s \in Sessions, NEW d \in Docs, NEW k \in Keys, NEW c \in Sent, BeginUpload(s, d, k, c)
      PROVE  Goal
  BY <1>2 DEF BeginUpload, TypeInv, TypeOK
<1>3. ASSUME NEW s \in Sessions, EnqueueCheck(s) \/ JobAck(s) \/ Report(s) PROVE Goal
  BY <1>3 DEF EnqueueCheck, JobAck, Report
<1>4. ASSUME NEW s \in Workers, NEW d \in Docs, JobRaises(s, d) PROVE Goal
  BY <1>4 DEF JobRaises, Queued
<1>5. ASSUME NEW s \in Sessions, NEW d \in Docs, BeginRequest(s, d) \/ PickUpCheck(s, d) PROVE Goal
  BY <1>1, <1>2, <1>5 DEF BeginRequest, UpdateQc, Deactivate, PickUpCheck
<1>6. ASSUME NEW s \in Sessions, Advance(s) \/ Crash(s) PROVE Goal
  BY <1>1, <1>3, <1>6 DEF Advance, RejectFile, ReadActive, FlushUpload, CommitUpload,
       CommitRuling, CommitRemoval, CommitCheck, Crash
<1>7. QED
  BY <1>1, <1>4, <1>5, <1>6 DEF Next, CaseMoves, vars, Sessions

\* Where a job is taken off the queue, its problem has been reported.
LEMMA ReportStep ==
    ASSUME TypeInv, CheckInv, [Next]_vars, NEW s \in Sessions,
           tx[s].op = "check", tx[s].doc \notin jobs'
    PROVE  JobAck(s)
<1>1. s \in Workers /\ tx[s].doc \in jobs
  BY DocumentsAssumption DEF CheckInv
<1>2. PICK q \in Sessions : JobAck(q) /\ tx[q].doc = tx[s].doc
  BY <1>1, QueueMoves
<1>3. tx[q].op = "check"
  BY <1>2 DEF JobAck, TypeInv, SessionOK, SessionFits
<1>4. QED
  BY <1>2, <1>3 DEF CheckInv

LEMMA CheckStep ==
    ASSUME TypeInv, CheckInv, [Next]_vars
    PROVE  CheckInv'
<1>1. ASSUME NEW s \in Sessions, tx'[s].op = "check"
      PROVE  s \in Configured /\ tx'[s].doc \in jobs'
  <2>1. CASE \E d \in Docs : PickUpCheck(s, d) /\ tx'[s].doc = d
    BY <2>1 DEF PickUpCheck, Free, Queued
  <2>2. CASE tx[s].op = "check" /\ tx'[s].doc = tx[s].doc /\ ~JobAck(s)
    BY <2>2, ReportStep DEF CheckInv
  <2>3. QED
    BY <1>1, <2>1, <2>2, CheckMoves
<1>2. ASSUME NEW s \in Sessions, NEW q \in Sessions \ {s}, tx'[s].op = "check", tx'[q].op = "check"
      PROVE  tx'[q].doc # tx'[s].doc
  <2>1. ASSUME NEW a \in Sessions, NEW b \in Sessions, a # b, NEW d \in Docs, PickUpCheck(a, d),
               tx'[a].doc = d, tx'[b].op = "check"
        PROVE  tx'[b].doc # tx'[a].doc
    <3>1. tx'[b] = tx[b]
      BY <2>1, OthersStay
    <3>2. b \in Workers
      BY <2>1, <3>1, DocumentsAssumption DEF CheckInv
    <3>3. QED
      BY <2>1, <3>1, <3>2 DEF PickUpCheck, Queued
  <2>2. CASE \E d \in Docs : PickUpCheck(s, d) /\ tx'[s].doc = d
    BY <1>2, <2>1, <2>2
  <2>3. CASE \E d \in Docs : PickUpCheck(q, d) /\ tx'[q].doc = d
    BY <1>2, <2>1, <2>3
  <2>4. CASE /\ tx[s].op = "check" /\ tx'[s].doc = tx[s].doc
             /\ tx[q].op = "check" /\ tx'[q].doc = tx[q].doc
    BY <2>4 DEF CheckInv
  <2>5. QED
    BY <1>2, <2>2, <2>3, <2>4, CheckMoves
<1>3. ASSUME NEW s \in Sessions, tx'[s].pc = "done", Verdict(content'[tx'[s].doc]) # "pass"
      PROVE  tx'[s].doc \in mailed'
  <2>1. tx'[s].op = "check"
    BY <1>3, TypeStep DEF TypeInv, SessionOK, SessionFits
  <2>2. tx[s].op = "check" /\ tx'[s].doc = tx[s].doc
        /\ (tx[s].pc = "done" \/ Verdict(content[tx[s].doc]) = "pass" \/ tx[s].doc \in mailed')
    BY <1>3, <2>1, CheckMoves
  <2>3. tx[s].doc \in Docs /\ Stored(tx[s].doc)
    BY <2>2 DEF TypeInv, SessionOK, SessionFits, Uploading, Stored
  <2>4. QED
    BY <1>3, <2>2, <2>3, QueueMoves DEF CheckInv
<1>4. QED
  BY <1>1, <1>2, <1>3 DEF CheckInv

\* A check that found a problem leaves the queue only after its client was told,
\* whichever workers die on the way and whichever are not configured.
THEOREM ProblemsReachClients == Spec => ProblemsReported
<1>1. Init => CheckInv
  BY DEF Init, CheckInv, Idle
<1>2. TypeInv /\ CheckInv /\ [Next]_vars => CheckInv'
  BY CheckStep
<1>3. TypeInv /\ CheckInv /\ [Next]_vars =>
        [\A s \in Configured :
           LET d == tx[s].doc
           IN  tx[s].op = "check" /\ d \notin jobs' /\ Verdict(content[d]) # "pass"
                   => d \in mailed']_vars
  <2> SUFFICES ASSUME TypeInv, CheckInv, [Next]_vars, NEW s \in Configured, tx[s].op = "check",
                      tx[s].doc \notin jobs', Verdict(content[tx[s].doc]) # "pass"
               PROVE  tx[s].doc \in mailed'
    OBVIOUS
  <2>1. JobAck(s)
    BY ReportStep, DocumentsAssumption DEF Sessions
  <2>2. QED
    BY <2>1, QueueMoves, DocumentsAssumption DEF CheckInv, JobAck, Sessions
<1>4. QED
  BY <1>1, <1>2, <1>3, TypeInvariant, PTL DEF Spec, ProblemsReported

-----------------------------------------------------------------------------
(***************************************************************************)
(* Files without a row: only a crash makes a session forget one.           *)
(***************************************************************************)
LEMMA RowsStay ==
    ASSUME TypeInv, [Next]_vars, NEW d \in Docs, Stored(d)
    PROVE  Stored(d)'
<1>1. CASE UNCHANGED document
  BY <1>1 DEF Stored
<1>2. ASSUME NEW s \in Sessions, CommitUpload(s) PROVE Stored(d)'
  <2>1. CASE d = tx[s].prev
    <3>1. tx[s].prev # None
      BY <2>1, DocumentsAssumption
    <3>2. document'[d] \in Row
      BY <1>2, <2>1, <3>1, CommittedRow
    <3>3. QED
      BY <3>2, NoRowIsNoRow DEF Stored
  <2>2. CASE d # tx[s].prev
    BY <1>2, <2>2, CommittedRow DEF Stored
  <2>3. QED
    BY <2>1, <2>2
<1>3. ASSUME NEW s \in Sessions, CommitRuling(s) \/ CommitRemoval(s) \/ CommitCheck(s) PROVE Stored(d)'
  BY <1>3, EditedRow
<1>4. QED
  BY <1>1, <1>2, <1>3, RowMoves

\* A session that lets go of its document has stored it, or removed its file.
LEMMA LettingGo ==
    ASSUME TypeInv, [Next]_vars, NEW s \in Sessions,
           Advance(s) \/ \E d \in Docs : BeginRequest(s, d) \/ PickUpCheck(s, d),
           tx[s].doc \in Docs, tx'[s].doc # tx[s].doc
    PROVE  Stored(tx[s].doc) \/ tx[s].doc \notin files'
<1>0. tx[s] \in Session /\ tx \in [Sessions -> Session] /\ SessionOK(tx[s], document, content, files)
  BY DEF TypeInv, TypeOK
<1>1. tx[s] # Idle
  BY DocumentsAssumption DEF Idle
<1>2. CASE RejectFile(s)
  BY <1>2 DEF RejectFile, WithoutFile, Path
<1>3. CASE ReadActive(s) \/ FlushUpload(s)
  <2>1. \A p : [tx[s] EXCEPT !.pc = "read", !.prev = p].doc = tx[s].doc
    BY <1>0 DEF Session
  <2>2. [tx[s] EXCEPT !.pc = "flushed"].doc = tx[s].doc
    BY <1>0 DEF Session
  <2>3. QED
    BY <1>0, <1>3, <2>1, <2>2 DEF ReadActive, FlushUpload, Become
<1>4. CASE CommitUpload(s)
  <2>1. [tx[s] EXCEPT !.pc = "enqueue"].doc = tx[s].doc
    BY <1>0 DEF Session
  <2>2. QED
    BY <1>0, <1>4, <2>1 DEF CommitUpload, Become
<1>5. CASE EnqueueCheck(s) \/ CommitRuling(s) \/ CommitRemoval(s) \/ CommitCheck(s) \/ Report(s) \/ JobAck(s)
  <2>1. tx[s].pc # "idle" /\ ~Uploading(tx[s])
    BY <1>0, <1>5 DEF EnqueueCheck, CommitRuling, CommitRemoval, CommitCheck, Report, JobAck,
         SessionOK, SessionFits, Uploading
  <2>2. QED
    BY <1>0, <2>1 DEF SessionOK, Stored
<1>6. \A d \in Docs : ~BeginRequest(s, d) /\ ~PickUpCheck(s, d)
  BY <1>1 DEF BeginRequest, BeginUpload, UpdateQc, Deactivate, PickUpCheck, Free
<1>7. QED
  BY <1>2, <1>3, <1>4, <1>5, <1>6 DEF Advance

LEMMA StrayStep ==
    ASSUME TypeInv, [Next]_vars
    PROVE  \/ Strays' \subseteq Strays /\ crashes' = crashes
           \/ \E s \in Sessions : Strays' \subseteq Strays \cup {tx[s].doc} /\ crashes' = crashes + 1
<1>0. tx \in [Sessions -> Session] /\ \A d \in Docs : Stored(d) => Stored(d)'
  BY RowsStay DEF TypeInv, TypeOK
<1>1. ASSUME NEW s \in Sessions,
             Advance(s) \/ \E d \in Docs : BeginRequest(s, d) \/ PickUpCheck(s, d)
      PROVE  Strays' \subseteq Strays /\ crashes' = crashes
  <2>1. ASSUME NEW d \in Strays' PROVE d \in Strays
    <3>1. d \in Docs /\ Path(d) \in files' /\ ~Stored(d) /\ \A q \in Sessions : tx'[q].doc # d
      BY <1>0, <2>1 DEF Strays, Path
    <3>2. tx[s].doc # d
      BY <1>1, <3>1, LettingGo DEF Path
    <3>3. \A q \in Sessions : tx[q].doc # d
      BY <1>1, <3>1, <3>2, OthersStay
    <3>4. Path(d) \in files
      <4>1. ASSUME NEW e \in Docs, NEW k \in Keys, NEW c \in Sent, BeginUpload(s, e, k, c)
            PROVE  d # e /\ files' = files \cup {e}
        <5>1. tx'[s].doc = e
          BY <1>0, <4>1 DEF BeginUpload, Become, Idle
        <5>2. QED
          BY <3>1, <4>1, <5>1 DEF BeginUpload, Path
      <4>2. CASE \E e \in Docs, k \in Keys, c \in Sent : BeginUpload(s, e, k, c)
        BY <3>1, <4>1, <4>2 DEF Path
      <4>3. CASE ~\E e \in Docs, k \in Keys, c \in Sent : BeginUpload(s, e, k, c)
        <5>1. files' \subseteq files
          BY <1>1, <4>3 DEF BeginRequest, UpdateQc, Deactivate, PickUpCheck, Advance, RejectFile, WithoutFile,
             ReadActive, FlushUpload, CommitUpload, EnqueueCheck, CommitRuling, CommitRemoval, CommitCheck,
             Report, JobAck
        <5>2. QED
          BY <3>1, <5>1
      <4>4. QED
        BY <4>2, <4>3
    <3>5. QED
      BY <3>1, <3>3, <3>4 DEF Strays
  <2>2. crashes' = crashes
    BY <1>1 DEF BeginRequest, BeginUpload, UpdateQc, Deactivate, PickUpCheck, Advance, RejectFile,
       ReadActive, FlushUpload, CommitUpload, EnqueueCheck, CommitRuling, CommitRemoval, CommitCheck,
       Report, JobAck
  <2>3. QED
    BY <2>1, <2>2
<1>2. ASSUME NEW s \in Sessions, Crash(s)
      PROVE  Strays' \subseteq Strays \cup {tx[s].doc} /\ crashes' = crashes + 1
  <2>1. ASSUME NEW d \in Strays', d # tx[s].doc PROVE d \in Strays
    <3>1. d \in Docs /\ Path(d) \in files /\ ~Stored(d) /\ \A q \in Sessions : tx'[q].doc # d
      BY <1>0, <1>2, <2>1 DEF Strays, Path, Crash
    <3>2. \A q \in Sessions : tx[q].doc # d
      BY <1>2, <2>1, <3>1, OthersStay
    <3>3. QED
      BY <3>1, <3>2 DEF Strays
  <2>2. crashes' = crashes + 1
    BY <1>2 DEF Crash
  <2>3. QED
    BY <2>1, <2>2
<1>3. CASE UNCHANGED <<files, document, tx, crashes>>
  BY <1>3 DEF Strays, Stored, Path
<1>4. QED
  BY <1>1, <1>2, <1>3 DEF Next, JobRaises, CaseMoves, vars, Sessions

\* Files that no row names and no upload holds are no more than the crashes:
\* refusals clean up after themselves.
THEOREM StraysComeFromCrashes == Spec => []StraysOnlyFromCrashes
<1>0. IsFiniteSet(Strays) /\ Cardinality(Strays) \in Nat
  <2>1. Strays \in SUBSET Docs
    BY DEF Strays
  <2>2. QED
    BY <2>1, DocumentsAssumption, FS_Subset, FS_CardinalityType
<1>1. Init => StraysOnlyFromCrashes
  <2> SUFFICES ASSUME Init PROVE StraysOnlyFromCrashes
    OBVIOUS
  <2>1. Strays = {}
    BY DEF Init, Strays
  <2>2. QED
    BY <2>1, FS_EmptySet DEF Init, StraysOnlyFromCrashes
<1>2. TypeInv /\ StraysOnlyFromCrashes /\ [Next]_vars => StraysOnlyFromCrashes'
  <2> SUFFICES ASSUME TypeInv, StraysOnlyFromCrashes, [Next]_vars PROVE Cardinality(Strays') <= crashes'
    BY DEF StraysOnlyFromCrashes
  <2>0. crashes \in Nat
    BY DEF TypeInv, TypeOK
  <2>1. CASE Strays' \subseteq Strays /\ crashes' = crashes
    <3>1. Cardinality(Strays') <= Cardinality(Strays)
      BY <1>0, <2>1, FS_Subset
    <3>2. Cardinality(Strays') \in Nat
      BY <1>0, <2>1, FS_Subset, FS_CardinalityType
    <3>3. QED
      BY <1>0, <2>0, <2>1, <3>1, <3>2 DEF StraysOnlyFromCrashes
  <2>2. ASSUME NEW x, Strays' \subseteq Strays \cup {x}, crashes' = crashes + 1
        PROVE  Cardinality(Strays') <= crashes'
    <3> DEFINE S == Strays \cup {x}
    <3>1. IsFiniteSet(S) /\ Cardinality(S) \in Nat /\ Cardinality(S) <= Cardinality(Strays) + 1
      BY <1>0, FS_AddElement, FS_CardinalityType
    <3>2. Cardinality(Strays') <= Cardinality(S) /\ Cardinality(Strays') \in Nat
      <4>1. Strays' \in SUBSET S
        BY <2>2
      <4> HIDE DEF S
      <4>2. QED
        BY <3>1, <4>1, FS_Subset, FS_CardinalityType
    <3> HIDE DEF S
    <3>3. QED
      BY <1>0, <2>0, <2>2, <3>1, <3>2 DEF StraysOnlyFromCrashes
  <2>3. QED
    BY <2>1, <2>2, StrayStep
<1>3. QED
  BY <1>1, <1>2, TypeInvariant, PTL DEF Spec

\* Rows have their files, and files without a row come from crashes, for any number of
\* uploads and workers.
THEOREM FilesAlwaysAgree == Spec => []FilesAgree
BY DocumentsTypeCorrect, FilesOutliveRows, StraysComeFromCrashes, PTL DEF FilesAgree
=============================================================================
