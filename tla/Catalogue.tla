------------------------------ MODULE Catalogue ------------------------------
(***************************************************************************)
(* One slug of the service catalogue, src/app/modules/services, and the    *)
(* applications submitted for it, submit_application of                    *)
(* src/app/modules/applications/service.py.                                *)
(*                                                                         *)
(* Administrators change a service in transactions that overlap: columns   *)
(* of its row, a price tier, or all the rows of one kind (its steps,       *)
(* document requirements or form fields), which are deleted and inserted   *)
(* anew under a version that counts up from the loaded copy.  An UPDATE    *)
(* names the columns that differ from the loaded copy, and a DELETE sees   *)
(* the rows that were committed when it began.                             *)
(***************************************************************************)
EXTENDS Integers, FiniteSets

CONSTANTS
    Editors,        \* sessions of administrators
    StatusEditors,  \* those that may change the status: with one, they do not overlap
    PriceEditors,   \* those that may change a tier
    Buyers,         \* sessions that submit applications
    Kinds,          \* of rows a service has: "steps", "requirements", "fields"
    RowKeys,           \* step_number, key and field_key of those rows
    Tiers,          \* PRICING_TIERS
    Fees,           \* platform_fee + government_fee of a tier
    Absent,         \* no row, no value
    MaxEdits        \* bound on replacements that begin

SERVICE_STATUSES == {"draft", "active", "paused", "unavailable", "archived"}

ASSUME CatalogueAssumption ==
    /\ StatusEditors \subseteq Editors /\ PriceEditors \subseteq Editors
    /\ Absent \notin Tiers /\ Absent \notin Kinds /\ Absent \notin Fees
    /\ Absent \notin SERVICE_STATUSES /\ Absent \notin [fee : Fees, open : BOOLEAN]
    /\ 0 \in Fees
    /\ MaxEdits \in Nat

VARIABLES
    status,      \* of the row of services, Absent before it is created
    version,
    price,       \* rows of service_pricing_tiers
    rows,        \* rows of each kind, with the replacement that inserted them
    edit,        \* what each administrator's session has loaded and flushed
    cart,        \* what each submission has loaded
    edits,
    offered,     \* history: tiers and fees that were committed as available
    replaced,    \* history: replacements that committed,
    last,        \* the last one of each kind, and its keys,
    overlapped   \* and whether two were ever at work together

catalogueVars == <<status, version, price, rows, edit, cart, edits,
                   offered, replaced, last, overlapped>>
shelf == <<status, version, price, rows>>
records == <<offered, replaced, last, overlapped>>

-----------------------------------------------------------------------------
VALID_SERVICE_STATUS_TRANSITIONS ==
    [draft       |-> {"active", "archived"},
     active      |-> {"paused", "unavailable", "archived"},
     paused      |-> {"active", "archived"},
     unavailable |-> {"active", "archived"},
     archived    |-> {}]

Tier == [fee : Fees, open : BOOLEAN]
PartRow == [key : RowKeys, by : Nat]

Edit == [op      : {"none", "create", "status", "price", "replace"},
         pc      : {"idle", "insert", "flush", "delete", "lock", "write", "bump", "commit"},
         status  : SERVICE_STATUSES \cup {Absent},  \* as loaded
         version : Nat,                             \* as loaded
         tier    : Tiers \cup {Absent},
         loaded  : Tier \cup {Absent},              \* the tier as loaded
         want    : SERVICE_STATUSES \cup {Absent},
         offer   : Tier \cup {Absent},
         kind    : Kinds \cup {Absent},
         keys    : SUBSET RowKeys,
         by      : Nat,                             \* number of the replacement
         gone    : SUBSET PartRow]                      \* rows it deletes
NoEdit == [op |-> "none", pc |-> "idle", status |-> Absent, version |-> 0, tier |-> Absent,
           loaded |-> Absent, want |-> Absent, offer |-> Absent, kind |-> Absent,
           keys |-> {}, by |-> 0, gone |-> {}]

Cart == [pc : {"idle", "fields", "tier", "commit"}, tier : Tiers \cup {Absent}, fee : Fees \cup {Absent}]
NoCart == [pc |-> "idle", tier |-> Absent, fee |-> Absent]

CatalogueInit ==
    /\ status = Absent
    /\ version = 0
    /\ price = [t \in Tiers |-> Absent]
    /\ rows = [k \in Kinds |-> {}]
    /\ edit = [s \in Editors |-> NoEdit]
    /\ cart = [s \in Buyers |-> NoCart]
    /\ edits = 0
    /\ offered = {}
    /\ replaced = 0
    /\ last = [k \in Kinds |-> [by |-> 0, keys |-> {}]]
    /\ overlapped = FALSE

Set(s, e) == edit' = [edit EXCEPT ![s] = e]
Doing(s, op, pc) == edit[s].op = op /\ edit[s].pc = pc
Others(s) == {edit[o] : o \in Editors \ {s}}

-----------------------------------------------------------------------------
(* create_service: the slug is looked up, and the unique index settles. *)

CreateService(s) ==
    /\ edit[s] = NoEdit
    /\ status = Absent
    /\ Set(s, [NoEdit EXCEPT !.op = "create", !.pc = "insert"])
    /\ UNCHANGED <<shelf, cart, edits, records>>

InsertService(s) ==
    /\ Doing(s, "create", "insert")
    /\ \A o \in Others(s) : ~(o.op = "create" /\ o.pc = "commit")
    /\ Set(s, IF status = Absent THEN [edit[s] EXCEPT !.pc = "commit"] ELSE NoEdit)
    /\ UNCHANGED <<shelf, cart, edits, records>>

Offers(p) == {[tier |-> t, fee |-> p[t].fee] : t \in {u \in Tiers : p[u] # Absent /\ p[u].open}}

FirstVersion(v) == 1

\* _default_pricing_tiers: every tier, free of charge and available
CommitService(s) ==
    /\ Doing(s, "create", "commit")
    /\ status' = "draft"
    /\ version' = FirstVersion(version)
    /\ price' = [t \in Tiers |-> [fee |-> 0, open |-> TRUE]]
    /\ offered' = offered \cup Offers(price')
    /\ Set(s, NoEdit)
    /\ UNCHANGED <<rows, cart, edits, replaced, last, overlapped>>

-----------------------------------------------------------------------------
(* update_service and update_status write columns of the row. *)

Permitted(new) ==
    new = status \/ new \in VALID_SERVICE_STATUS_TRANSITIONS[status]

\* want is Absent for update_service, whose columns nothing here depends on.
LoadStatus(s, new) ==
    /\ edit[s] = NoEdit /\ status # Absent
    /\ new # Absent => s \in StatusEditors /\ Permitted(new)
    /\ Set(s, [NoEdit EXCEPT !.op = "status", !.pc = "flush", !.status = status,
                             !.want = new])
    /\ UNCHANGED <<shelf, cart, edits, records>>

\* Another transaction has updated the row of the service.
ServiceHeld(s) ==
    \E o \in Others(s) : o.op \in {"status", "replace"} /\ o.pc = "commit"

FlushStatus(s) ==
    /\ Doing(s, "status", "flush")
    /\ ~ServiceHeld(s)
    /\ Set(s, [edit[s] EXCEPT !.pc = "commit"])
    /\ UNCHANGED <<shelf, cart, edits, records>>

\* Mutation: the whole row is written as it was loaded.
WholeRow(e) == IF e.want = Absent THEN e.status ELSE e.want

NewStatus(e) == IF e.want \in {Absent, e.status} THEN status ELSE e.want

CommitStatus(s) ==
    /\ Doing(s, "status", "commit")
    /\ status' = NewStatus(edit[s])
    /\ Set(s, NoEdit)
    /\ UNCHANGED <<version, price, rows, cart, edits, records>>

-----------------------------------------------------------------------------
(* update_pricing_tier *)

LoadTier(s, t, new) ==
    /\ edit[s] = NoEdit /\ s \in PriceEditors /\ status # Absent
    /\ Set(s, [NoEdit EXCEPT !.op = "price", !.pc = "flush", !.tier = t,
                             !.loaded = price[t], !.offer = new])
    /\ UNCHANGED <<shelf, cart, edits, records>>

FlushTier(s) ==
    LET e == edit[s]
    IN  /\ Doing(s, "price", "flush")
        /\ \A o \in Others(s) : ~(o.op = "price" /\ o.pc = "commit" /\ o.tier = e.tier)
        /\ Set(s, [e EXCEPT !.pc = "commit"])
        /\ UNCHANGED <<shelf, cart, edits, records>>

CommitTier(s) ==
    LET e == edit[s]
        now == price[e.tier]
    IN  /\ Doing(s, "price", "commit")
        /\ price' = [price EXCEPT ![e.tier] =
                       [fee  |-> IF e.offer.fee = e.loaded.fee THEN now.fee ELSE e.offer.fee,
                        open |-> IF e.offer.open = e.loaded.open THEN now.open ELSE e.offer.open]]
        /\ offered' = offered \cup Offers(price')
        /\ Set(s, NoEdit)
        /\ UNCHANGED <<status, version, rows, cart, edits,
                       replaced, last, overlapped>>

-----------------------------------------------------------------------------
(* set_steps, set_document_requirements, set_form_fields *)

Replacing == {s \in Editors : edit[s].op = "replace"}

LoadToReplace(s, k, keys) ==
    /\ edit[s] = NoEdit /\ status # Absent
    /\ edits < MaxEdits
    /\ edits' = edits + 1
    /\ Set(s, [NoEdit EXCEPT !.op = "replace", !.pc = "delete", !.version = version,
                             !.kind = k, !.keys = keys, !.by = edits + 1])
    /\ overlapped' = (overlapped \/ Replacing # {})
    /\ UNCHANGED <<shelf, cart, offered, replaced, last>>

\* The DELETE names the rows that are committed by now,
BeginDelete(s) ==
    /\ Doing(s, "replace", "delete")
    /\ Set(s, [edit[s] EXCEPT !.pc = "lock", !.gone = rows[edit[s].kind]])
    /\ UNCHANGED <<shelf, cart, edits, records>>

\* The transactions that have deleted or inserted rows of the same kind.
Rivals(s) ==
    {o \in Others(s) : /\ o.op = "replace" /\ o.pc \in {"write", "bump", "commit"}
                       /\ o.kind = edit[s].kind}

\* waits for those that another transaction deletes, and skips them if they went.
LockRows(s) ==
    LET e == edit[s]
    IN  /\ Doing(s, "replace", "lock")
        /\ \A o \in Rivals(s) : o.gone \cap e.gone = {}
        /\ Set(s, [e EXCEPT !.pc = "write", !.gone = @ \cap rows[e.kind]])
        /\ UNCHANGED <<shelf, cart, edits, records>>

KeysOf(set) == {r.key : r \in set}

\* Mutation: the constraint is left out of the table.
Unconstrained(e) == FALSE

\* A row that this transaction has not deleted carries one of its keys.
Clash(e) == KeysOf(rows[e.kind] \ e.gone) \cap e.keys # {}

\* An INSERT waits for whoever has inserted or deleted its key, and then succeeds
\* or raises IntegrityError.
InsertRows(s) ==
    LET e == edit[s]
    IN  /\ Doing(s, "replace", "write")
        /\ \A o \in Rivals(s) :
             /\ o.pc # "write" => o.keys \cap e.keys = {}
             /\ KeysOf(o.gone) \cap e.keys = {}
        /\ Set(s, IF Clash(e) THEN NoEdit ELSE [e EXCEPT !.pc = "bump"])
        /\ UNCHANGED <<shelf, cart, edits, records>>

BumpVersion(s) ==
    /\ Doing(s, "replace", "bump")
    /\ ~ServiceHeld(s)
    /\ Set(s, [edit[s] EXCEPT !.pc = "commit"])
    /\ UNCHANGED <<shelf, cart, edits, records>>

New(e) == {[key |-> k, by |-> e.by] : k \in e.keys}

Replaced(e) == (rows[e.kind] \ e.gone) \cup New(e)

VersionAfter(e) == e.version + 1

CommitReplacement(s) ==
    LET e == edit[s]
    IN  /\ Doing(s, "replace", "commit")
        /\ rows' = [rows EXCEPT ![e.kind] = Replaced(e)]
        /\ version' = VersionAfter(e)
        /\ replaced' = replaced + 1
        /\ last' = [last EXCEPT ![e.kind] = [by |-> e.by, keys |-> e.keys]]
        /\ Set(s, NoEdit)
        /\ UNCHANGED <<status, price, cart, edits, offered, overlapped>>

-----------------------------------------------------------------------------
(* submit_application: get_by_slug reads the row, the fields and the tiers one *)
(* after the other.                                                            *)

BeginSubmit(b, t) ==
    /\ cart[b] = NoCart
    /\ status = "active"
    /\ cart' = [cart EXCEPT ![b] = [pc |-> "fields", tier |-> t, fee |-> Absent]]
    /\ UNCHANGED <<shelf, edit, edits, records>>

\* _validate_service_data, which speaks after the tier has been looked at, of the
\* fields that were read before it: the answers may lack a required one.
ReadFields(b) ==
    /\ cart[b].pc = "fields"
    /\ \/ cart' = [cart EXCEPT ![b].pc = "tier"]
       \/ cart' = [cart EXCEPT ![b] = NoCart]
    /\ UNCHANGED <<shelf, edit, edits, records>>

\* Mutation: the tier need not be available.
AnyTier(t) == price[t] # Absent

Available(t) == price[t].open

ReadTier(b) ==
    LET c == cart[b]
    IN  /\ c.pc = "tier"
        /\ cart' = [cart EXCEPT ![b] = IF Available(c.tier)
                                       THEN [c EXCEPT !.pc = "commit", !.fee = price[c.tier].fee]
                                       ELSE NoCart]
        /\ UNCHANGED <<shelf, edit, edits, records>>

\* The row of the application itself is the business of Cases.
CommitSubmit(b) ==
    /\ cart[b].pc = "commit"
    /\ cart' = [cart EXCEPT ![b] = NoCart]
    /\ UNCHANGED <<shelf, edit, edits, records>>

-----------------------------------------------------------------------------
\* A crash, or a deadlock that the database resolves by ending one of them.
FailEdit(s) ==
    /\ edit[s] # NoEdit
    /\ Set(s, NoEdit)
    /\ UNCHANGED <<shelf, cart, edits, records>>

BeginEdit(s) ==
    \/ CreateService(s)
    \/ \E new \in SERVICE_STATUSES \cup {Absent} : LoadStatus(s, new)
    \/ \E t \in Tiers, new \in Tier : LoadTier(s, t, new)
    \/ \E k \in Kinds, keys \in SUBSET RowKeys : LoadToReplace(s, k, keys)

ContinueEdit(s) ==
    \/ InsertService(s)
    \/ CommitService(s)
    \/ FlushStatus(s)
    \/ CommitStatus(s)
    \/ FlushTier(s)
    \/ CommitTier(s)
    \/ BeginDelete(s)
    \/ LockRows(s)
    \/ InsertRows(s)
    \/ BumpVersion(s)
    \/ CommitReplacement(s)

CatalogueNext ==
    \/ \E s \in Editors : BeginEdit(s) \/ ContinueEdit(s) \/ FailEdit(s)
    \/ \E b \in Buyers : \/ \E t \in Tiers : BeginSubmit(b, t)
                         \/ ReadFields(b)
                         \/ ReadTier(b)
                         \/ CommitSubmit(b)

CatalogueSpec == CatalogueInit /\ [][CatalogueNext]_catalogueVars

-----------------------------------------------------------------------------
(* Properties *)

CatalogueTypeOK ==
    /\ status \in SERVICE_STATUSES \cup {Absent}
    /\ version \in Nat /\ (status # Absent => version > 0)
    /\ \A t \in Tiers : IF status = Absent THEN price[t] = Absent ELSE price[t] \in Tier
    /\ \A k \in Kinds : rows[k] \subseteq PartRow
    /\ \A s \in Editors : edit[s] \in Edit
    /\ cart \in [Buyers -> Cart]
    /\ edits \in 0..MaxEdits

\* A kind never holds two rows with the same key, however replacements overlap.
OneRowPerKey ==
    \A k \in Kinds : \A r, q \in rows[k] : r.key = q.key => r = q

\* What the replacement that committed last has submitted is there as a whole, and
\* unless two were at work together, nothing else is.
LastReplacementStands ==
    \A k \in Kinds :
        /\ {r.key : r \in {q \in rows[k] : q.by = last[k].by}} = last[k].keys
        /\ ~overlapped => KeysOf(rows[k]) = last[k].keys

\* Unless two replacements were at work together, the version counts them; changes of
\* the status, the prices and the header at the same time do not disturb it.
VersionCounts == status # Absent /\ ~overlapped => version = 1 + replaced

\* A replacement stands as a whole, whatever overlaps it, and is counted unless
\* another one was at work.
ReplacementsHold == CatalogueTypeOK /\ OneRowPerKey /\ LastReplacementStands /\ VersionCounts

\* Changes of the status that do not overlap never bring an archived service back,
\* whatever else is edited at the same time from an older copy.
ArchivedIsFinal == [][status = "archived" => status' = "archived"]_catalogueVars

\* An application is charged what its tier cost at some moment when the tier was
\* available, also when its price and availability change while it is submitted.
PricedAsOffered ==
    \A b \in Buyers : cart[b].pc = "commit" => [tier |-> cart[b].tier, fee |-> cart[b].fee] \in offered
=============================================================================
