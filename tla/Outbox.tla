------------------------------- MODULE Outbox -------------------------------
(***************************************************************************)
(* The transactional outbox of governance events.                          *)
(*                                                                         *)
(* Clients run commit_governance (proxy/governance_service.py): one        *)
(* database transaction that may be keyed by an Idempotency-Key, changes a *)
(* document and inserts its outbox row.  A transaction that approves a     *)
(* revision of another document also runs approve_dependencies             *)
(* (proxy/buzz_wiki.py), which supersedes that base and inserts a second   *)
(* row, without a key, in the same transaction.  Publishers run            *)
(* publish_one (proxy/governance_outbox.py): lock the oldest due row, copy *)
(* its payload to the object store with a conditional put, and record the  *)
(* outcome in the transaction that holds the row.                          *)
(*                                                                         *)
(* Transactions are numbered in the order they begin, which is the order   *)
(* of created_at (now() is the start of the transaction).  An event is     *)
(* named by its transaction: n is transaction n's own, BaseEvent(n) that   *)
(* of the base it supersedes.  Backoff is counted in polls of the outbox   *)
(* rather than in seconds.                                                 *)
(***************************************************************************)
EXTENDS Naturals, FiniteSets

CONSTANTS
  Clients,       \* callers of the approve, transition and review endpoints
  Publishers,    \* running copies of run_publisher
  Keys,          \* Idempotency-Key values
  NoKey,         \* a request sent without a key
  Requests,      \* request fingerprints (operation and payload)
  Revisions,     \* requests that approve a revision of another document
  NoRequest,     \* the fingerprint of no request
  MaxRequests,   \* bound: transactions begun
  BackoffSteps,  \* attempts after which the delay stops growing (9)
  BackoffCap,    \* longest delay between two attempts (300 s)
  MaxCrashes,    \* bound: publisher crashes
  MaxOutages,    \* bound: object store outages
  MaxForeign     \* bound: objects something else puts under keys of events

ASSUME NoKeyAssumption == NoKey \notin Keys
ASSUME RequestsAssumption == NoRequest \notin Requests /\ Revisions \subseteq Requests
ASSUME BoundsAssumption ==
  /\ MaxRequests \in Nat
  /\ BackoffSteps \in Nat \ {0}
  /\ BackoffCap \in Nat \ {0}
  /\ MaxCrashes \in Nat
  /\ MaxOutages \in Nat
  /\ MaxForeign \in Nat

Transaction == 1..MaxRequests
Event == 1..(2 * MaxRequests)
Key == Keys \cup {NoKey}
Fingerprint == Requests \cup {NoRequest}

BaseEvent(n) == n + MaxRequests

\* The transaction an event belongs to.
Begun(e) == IF e \in Transaction THEN e ELSE e - MaxRequests

(***************************************************************************)
(* A client's transaction: its own event, its key and                      *)
(* fingerprint, and how far it is.  "locking" waits for the advisory lock  *)
(* of its key, "checking" holds it and has not read the prior row,         *)
(* "writing" found no prior row.  A caller whose transaction has ended has *)
(* its answer, or has lost it; either way it may send the request again.   *)
(***************************************************************************)
Stage == {"idle", "locking", "checking", "writing"}

VARIABLES
  tx,        \* [Clients -> transaction of the client]
  began,     \* number of transactions begun
  outbox,    \* [Event -> row of gcor.governance_outbox]
  pub,       \* [Publishers -> row the publisher has locked, and its progress]
  store,     \* [Event -> object under the event's key in its bucket]
  storeUp,   \* does the object store answer
  crashes,   \* publisher crashes so far
  outages,   \* outages of the object store so far
  receipts   \* history: <<key, request, answer>> of every transaction answered

vars == <<tx, began, outbox, pub, store, storeUp, crashes, outages, receipts>>
clientVars == <<tx, began, receipts>>
publisherVars == <<pub, store, storeUp, crashes, outages>>

IdleTx == [stage |-> "idle", event |-> 0, key |-> NoKey, hash |-> NoRequest]
NoRow == [state |-> "none", key |-> NoKey, hash |-> NoRequest, attempts |-> 0, wait |-> 0]
IdlePub == [event |-> 0, step |-> "idle"]
NoObject == [content |-> "absent", versions |-> 0]

\* Answers that are no event: the 409 of a key reused for another request, and
\* the unique_violation the database raises for a second row of one key.
Conflict == "conflict"
Duplicate == "duplicate"
Answers == (Event \X {"committed"}) \cup {<<0, Conflict>>, <<0, Duplicate>>}

Tx == {IdleTx} \cup
  [stage : Stage \ {"idle"}, event : Transaction, key : Key, hash : Requests]
Row == [state : {"none", "queued", "published"}, key : Key, hash : Fingerprint,
        attempts : 0..BackoffSteps, wait : 0..BackoffCap]
Progress == {IdlePub} \cup
  [event : Event, step : {"putting", "heading", "succeeded", "failed"}]
\* "own" has the digest of the event's payload, "foreign" another digest.
Object == [content : {"absent", "own", "foreign"}, versions : Nat]

\* Every variable stays in its declared set, every counter within its bound.
TypeOK ==
  /\ tx \in [Clients -> Tx]
  /\ began \in 0..MaxRequests
  /\ outbox \in [Event -> Row]
  /\ pub \in [Publishers -> Progress]
  /\ store \in [Event -> Object]
  /\ storeUp \in BOOLEAN
  /\ crashes \in 0..MaxCrashes
  /\ outages \in 0..MaxOutages
  /\ receipts \subseteq Key \X Requests \X Answers

Init ==
  /\ tx = [c \in Clients |-> IdleTx]
  /\ began = 0
  /\ outbox = [e \in Event |-> NoRow]
  /\ pub = [p \in Publishers |-> IdlePub]
  /\ store = [e \in Event |-> NoObject]
  /\ storeUp = TRUE
  /\ crashes = 0
  /\ outages = 0
  /\ receipts = {}

Rows == {e \in Event : outbox[e].state # "none"}

\* Mutant of RowsOf: a key is looked up among the events still to publish.
PendingRowsOf(k) == {e \in Rows : outbox[e].key = k /\ outbox[e].state = "queued"}

\* The prior rows of an idempotency key.
RowsOf(k) == {e \in Rows : outbox[e].key = k}

-----------------------------------------------------------------------------
(***************************************************************************)
(* commit_governance.                                                      *)
(***************************************************************************)
Begin(c, k, r) ==
  /\ tx[c].stage = "idle"
  /\ began < MaxRequests
  /\ began' = began + 1
  /\ tx' = [tx EXCEPT ![c] =
       [stage |-> IF k = NoKey THEN "writing" ELSE "locking",
        event |-> began + 1, key |-> k, hash |-> r]]
  /\ UNCHANGED <<outbox, publisherVars, receipts>>

HoldsKey(c, k) == k # NoKey /\ tx[c].key = k /\ tx[c].stage \in {"checking", "writing"}

\* Mutant of KeyFree: the lock is not taken.
KeyAlwaysFree(c) == TRUE

\* pg_advisory_xact_lock(idempotency_key): granted when nobody else holds it.
KeyFree(c) == \A d \in Clients \ {c} : ~HoldsKey(d, tx[c].key)

LockKey(c) ==
  /\ tx[c].stage = "locking"
  /\ KeyFree(c)
  /\ tx' = [tx EXCEPT ![c].stage = "checking"]
  /\ UNCHANGED <<began, outbox, publisherVars, receipts>>

Answer(c, a) ==
  /\ tx' = [tx EXCEPT ![c] = IdleTx]
  /\ receipts' = receipts \cup {<<tx[c].key, tx[c].hash, a>>}

\* The prior row of the key decides: its stored response, a 409, or go on.
PriorAnswer(c, e) ==
  IF outbox[e].hash = tx[c].hash THEN <<e, "committed">> ELSE <<0, Conflict>>

CheckPrior(c) ==
  /\ tx[c].stage = "checking"
  /\ \/ /\ RowsOf(tx[c].key) = {}
        /\ tx' = [tx EXCEPT ![c].stage = "writing"]
        /\ UNCHANGED receipts
     \/ \E e \in RowsOf(tx[c].key) : Answer(c, PriorAnswer(c, e))
  /\ UNCHANGED <<began, outbox, publisherVars>>

\* The events the transaction inserts: its own and, when it approves a
\* revision, the one of the base that approve_dependencies supersedes.
Inserts(c) ==
  {tx[c].event} \cup (IF tx[c].hash \in Revisions THEN {BaseEvent(tx[c].event)} ELSE {})

\* The row of the base has no key, and the hash of its event for a fingerprint.
Inserted(c, e) ==
  LET own == e = tx[c].event IN
  [state |-> "queued", key |-> IF own THEN tx[c].key ELSE NoKey,
   hash |-> IF own THEN tx[c].hash ELSE NoRequest, attempts |-> 0, wait |-> 0]

\* UNIQUE(idempotency_key) refuses a second row of a key.
Unique(k) == k = NoKey \/ RowsOf(k) = {}

\* The document, graph queue and outbox writes, those of a superseded base
\* included, commit together or not at all.  The checks on the documents, and
\* those of approve_dependencies on a base that changed, fail as an Abort.
CommitTx(c) ==
  /\ tx[c].stage = "writing"
  /\ \/ /\ Unique(tx[c].key)
        /\ Answer(c, <<tx[c].event, "committed">>)
        /\ outbox' = [e \in Event |->
             IF e \in Inserts(c) THEN Inserted(c, e) ELSE outbox[e]]
     \/ /\ ~Unique(tx[c].key)
        /\ Answer(c, <<0, Duplicate>>)
        /\ UNCHANGED outbox
  /\ UNCHANGED <<began, publisherVars>>

\* Any failure inside the transaction (a 403, 404 or 409, a failed graph update, a lost
\* connection) rolls all of it back and releases its locks.
Abort(c) ==
  /\ tx[c].stage # "idle"
  /\ tx' = [tx EXCEPT ![c] = IdleTx]
  /\ UNCHANGED <<began, outbox, publisherVars, receipts>>

-----------------------------------------------------------------------------
(***************************************************************************)
(* publish_one and publish_artifact.                                       *)
(***************************************************************************)
Locked(e) == \E p \in Publishers : pub[p].event = e
Due == {e \in Event : outbox[e].state = "queued" /\ outbox[e].wait = 0}
Available == {e \in Due : ~Locked(e)}

\* SELECT ... ORDER BY created_at, event_id FOR UPDATE SKIP LOCKED LIMIT 1:
\* the rows of one transaction have one created_at and come in either order.
Claim(p) ==
  /\ pub[p].step = "idle"
  /\ \E e \in Available :
       /\ \A f \in Available : Begun(e) <= Begun(f)
       /\ pub' = [pub EXCEPT ![p] = [event |-> e, step |-> "putting"]]
  /\ UNCHANGED <<clientVars, outbox, store, storeUp, crashes, outages>>

Elapsed(row) == [row EXCEPT !.wait = IF row.wait = 0 THEN 0 ELSE row.wait - 1]

\* Nothing is due: sleep, which brings every delayed row nearer its attempt.
Sleep(p) ==
  /\ pub[p].step = "idle"
  /\ Available = {}
  /\ \E e \in Event : outbox[e].wait > 0
  /\ outbox' = [e \in Event |-> Elapsed(outbox[e])]
  /\ UNCHANGED <<clientVars, publisherVars>>

\* Mutant of Accepts: a put without IfNoneMatch.
AcceptsAlways(e) == TRUE

\* put_object with IfNoneMatch creates an object only where there is none.
Accepts(e) == store[e].content = "absent"

\* The put takes effect; its answer arrives, or is lost and counts as a failure.
PutCreates(p) ==
  LET e == pub[p].event IN
  /\ pub[p].step = "putting"
  /\ storeUp
  /\ Accepts(e)
  /\ store' = [store EXCEPT ![e] = [content |-> "own", versions |-> store[e].versions + 1]]
  /\ \E step \in {"succeeded", "failed"} : pub' = [pub EXCEPT ![p].step = step]
  /\ UNCHANGED <<clientVars, outbox, storeUp, crashes, outages>>

\* PreconditionFailed: the object under the key is to be compared with ours.
PutRefused(p) ==
  /\ pub[p].step = "putting"
  /\ storeUp
  /\ ~Accepts(pub[p].event)
  /\ pub' = [pub EXCEPT ![p].step = "heading"]
  /\ UNCHANGED <<clientVars, outbox, store, storeUp, crashes, outages>>

\* Mutant of SameDigest: a conflicting object passes for a published one.
AnyDigest(e) == TRUE

\* head_object: our own digest means an earlier attempt got through.
SameDigest(e) == store[e].content = "own"

Head(p) ==
  /\ pub[p].step = "heading"
  /\ storeUp
  /\ pub' = [pub EXCEPT ![p].step = IF SameDigest(pub[p].event) THEN "succeeded" ELSE "failed"]
  /\ UNCHANGED <<clientVars, outbox, store, storeUp, crashes, outages>>

\* Mutant of CallFails: the exception is swallowed.
CallFailsSilently(p) ==
  /\ pub[p].step \in {"putting", "heading"}
  /\ ~storeUp
  /\ pub' = [pub EXCEPT ![p].step = "succeeded"]
  /\ UNCHANGED <<clientVars, outbox, store, storeUp, crashes, outages>>

CallFails(p) ==
  /\ pub[p].step \in {"putting", "heading"}
  /\ ~storeUp
  /\ pub' = [pub EXCEPT ![p].step = "failed"]
  /\ UNCHANGED <<clientVars, outbox, store, storeUp, crashes, outages>>

Counted(a) == IF a < BackoffSteps THEN a + 1 ELSE BackoffSteps

\* Mutants of Backoff: no delay; a delay without its cap.
BackoffNone(a) == 0
BackoffUncapped(a) == 2 ^ Counted(a)

\* min(300, 2 ** min(attempts + 1, 9))
Backoff(a) == IF 2 ^ Counted(a) \in 1..BackoffCap THEN 2 ^ Counted(a) ELSE BackoffCap

Finish(p, state, wait) ==
  LET mine == pub[p].event IN
  /\ outbox' = [e \in Event |->
       IF e = mine THEN [outbox[e] EXCEPT !.state = state, !.wait = wait,
                                          !.attempts = Counted(outbox[e].attempts)]
       ELSE Elapsed(outbox[e])]
  /\ pub' = [pub EXCEPT ![p] = IdlePub]
  /\ UNCHANGED <<clientVars, store, storeUp, crashes, outages>>

Acknowledge(p) ==
  /\ pub[p].step = "succeeded"
  /\ Finish(p, "published", 0)

Reschedule(p) ==
  /\ pub[p].step = "failed"
  /\ Finish(p, "queued", Backoff(outbox[pub[p].event].attempts))

\* The process or its database connection dies: the row lock is released and
\* nothing of the transaction is kept, but a put that took effect stays.
Crash(p) ==
  /\ pub[p].step # "idle"
  /\ crashes < MaxCrashes
  /\ crashes' = crashes + 1
  /\ pub' = [pub EXCEPT ![p] = IdlePub]
  /\ UNCHANGED <<clientVars, outbox, store, storeUp, outages>>

-----------------------------------------------------------------------------
(***************************************************************************)
(* The object store.                                                       *)
(***************************************************************************)
StoreDown ==
  /\ storeUp
  /\ outages < MaxOutages
  /\ storeUp' = FALSE
  /\ outages' = outages + 1
  /\ UNCHANGED <<clientVars, outbox, pub, store, crashes>>

StoreBack ==
  /\ ~storeUp
  /\ storeUp' = TRUE
  /\ UNCHANGED <<clientVars, outbox, pub, store, crashes, outages>>

\* Something else puts an object under the key of a committed event.
ForeignPut(e) ==
  /\ e \in Rows
  /\ store[e].content = "absent"
  /\ Cardinality({f \in Event : store[f].content = "foreign"}) < MaxForeign
  /\ store' = [store EXCEPT ![e] = [content |-> "foreign", versions |-> 1]]
  /\ UNCHANGED <<clientVars, outbox, pub, storeUp, crashes, outages>>

-----------------------------------------------------------------------------
ClientStep(c) ==
  \/ \E k \in Key, r \in Requests : Begin(c, k, r)
  \/ LockKey(c)
  \/ CheckPrior(c)
  \/ CommitTx(c)
  \/ Abort(c)

PublisherStep(p) ==
  \/ Claim(p) \/ Sleep(p)
  \/ PutCreates(p) \/ PutRefused(p) \/ Head(p) \/ CallFails(p)
  \/ Acknowledge(p) \/ Reschedule(p)

Next ==
  \/ \E c \in Clients : ClientStep(c)
  \/ \E p \in Publishers : PublisherStep(p) \/ Crash(p)
  \/ StoreDown
  \/ StoreBack
  \/ \E e \in Event : ForeignPut(e)

Spec == Init /\ [][Next]_vars

(***************************************************************************)
(* run_publisher never stops (the process is restarted when it dies), and  *)
(* the bound on outages makes the last one end.                            *)
(***************************************************************************)
Fairness ==
  /\ \A p \in Publishers : WF_vars(PublisherStep(p))
  /\ WF_vars(StoreBack)

FairSpec == Spec /\ Fairness

-----------------------------------------------------------------------------
(***************************************************************************)
(* Properties.                                                             *)
(***************************************************************************)

\* One idempotency key has one effect: however many copies of a request, and
\* whichever of them fail or run at the same time, at most one event of the
\* key is ever committed (governance_service.py, the prior-row check).
OneEventPerKey ==
  \A e, f \in Rows : outbox[e].key = outbox[f].key /\ outbox[e].key # NoKey => e = f

\* Every answer to a request under a key is the same answer: the receipt of
\* the one event of that key, or the 409.  No retry meets unique_violation.
RetriesAgree ==
  \A a, b \in receipts :
    /\ a[3] # <<0, Duplicate>>
    /\ a[1] = b[1] /\ a[1] # NoKey /\ a[2] = b[2] => a[3] = b[3]

\* An acknowledged event has its artifact, with the event's own content, in
\* the bucket: no crash, lost answer or conflict loses an audit record.
PublishedHasArtifact ==
  \A e \in Event : outbox[e].state = "published" => store[e].content = "own"

\* An object of the audit bucket is never overwritten, neither by a second
\* version of the same event after a crash between put and acknowledgment nor
\* by an event whose key something else already uses.
ArtifactImmutable == [][\A e \in Event : store[e] # NoObject => store'[e] = store[e]]_vars

\* Every committed event is published at last, past crashes, outages and lost
\* answers, even while an event with a conflicting object is retried for ever.
EventuallyPublished ==
  \A e \in Event :
    outbox[e].state = "queued" ~> outbox[e].state = "published" \/ store[e].content = "foreign"

(***************************************************************************)
(* The outbox implements the audit log.                                    *)
(***************************************************************************)
Log == INSTANCE AuditLog WITH
  Transactions <- {{n} : n \in Transaction} \cup {{n, BaseEvent(n)} : n \in Transaction},
  committed <- Rows,
  visible <- {e \in Event : store[e].content = "own"},
  acknowledged <- {e \in Event : outbox[e].state = "published"}

\* The bucket and the outbox table behave as the audit log of module AuditLog:
\* a revision and the base it supersedes enter it together, and each of the two
\* events is then published on its own.
AuditLogSpec == Log!Spec
=============================================================================
