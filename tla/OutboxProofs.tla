---------------------------- MODULE OutboxProofs ----------------------------
(***************************************************************************)
(* Proofs about module Outbox, for any sets of clients, publishers, keys   *)
(* and requests and any bounds.                                            *)
(***************************************************************************)
EXTENDS Outbox, TLAPS

-----------------------------------------------------------------------------
(***************************************************************************)
(* Type correctness.                                                       *)
(***************************************************************************)
\* Every event belongs to one transaction, as its own event or as that of the
\* base it supersedes.
LEMMA EventNames ==
  /\ \A e \in Event : Begun(e) \in Transaction /\ e \in {Begun(e), BaseEvent(Begun(e))}
  /\ \A n \in Transaction : /\ n \in Event /\ BaseEvent(n) \in Event
                             /\ Begun(n) = n /\ Begun(BaseEvent(n)) = n
                             /\ BaseEvent(n) # n
BY BoundsAssumption DEF Event, Transaction, Begun, BaseEvent

\* The delay and the attempt counter stay within their bounds.
LEMMA BackoffType ==
  ASSUME NEW a \in 0..BackoffSteps
  PROVE  Counted(a) \in 0..BackoffSteps /\ Backoff(a) \in 0..BackoffCap
<1>1. Counted(a) \in 0..BackoffSteps
  BY BoundsAssumption DEF Counted
<1>2. Backoff(a) \in 0..BackoffCap
  <2> DEFINE delay == 2 ^ Counted(a)
  <2>1. CASE delay \in 1..BackoffCap
    <3>1. Backoff(a) = delay
      BY <2>1 DEF Backoff
    <3> HIDE DEF delay
    <3> QED BY <2>1, <3>1, BoundsAssumption
  <2>2. CASE ~(delay \in 1..BackoffCap)
    BY <2>2, BoundsAssumption DEF Backoff
  <2> QED BY <2>1, <2>2
<1> QED BY <1>1, <1>2

\* Time passing leaves a row of the outbox a row.
LEMMA ElapsedType ==
  ASSUME NEW row \in Row
  PROVE  /\ Elapsed(row) \in Row
         /\ Elapsed(row).state = row.state
         /\ Elapsed(row).key = row.key
         /\ Elapsed(row).hash = row.hash
BY BoundsAssumption DEF Elapsed, Row

\* Init establishes the type invariant.
LEMMA InitType == Init => TypeOK
BY BoundsAssumption
   DEF Init, TypeOK, IdleTx, NoRow, IdlePub, NoObject, Tx, Stage, Row, Progress, Object, Key,
       Fingerprint, Event

\* Every step keeps the type invariant.
LEMMA NextType == TypeOK /\ [Next]_vars => TypeOK'
<1> SUFFICES ASSUME TypeOK, [Next]_vars PROVE TypeOK'
  OBVIOUS
<1> USE BoundsAssumption DEF TypeOK, clientVars, publisherVars
<1>1. ASSUME NEW c \in Clients, NEW k \in Key, NEW r \in Requests, Begin(c, k, r) PROVE TypeOK'
  BY <1>1 DEF Begin, Tx, Stage, Transaction
<1>2. ASSUME NEW c \in Clients, LockKey(c) PROVE TypeOK'
  BY <1>2 DEF LockKey, Tx, Stage, IdleTx
<1>3. ASSUME NEW c \in Clients, CheckPrior(c) PROVE TypeOK'
  <2>1. CASE RowsOf(tx[c].key) = {} /\ tx' = [tx EXCEPT ![c].stage = "writing"] /\ UNCHANGED receipts
    BY <1>3, <2>1 DEF CheckPrior, Tx, Stage, IdleTx
  <2>2. ASSUME NEW e \in RowsOf(tx[c].key), Answer(c, PriorAnswer(c, e)) PROVE TypeOK'
    <3>1. PriorAnswer(c, e) \in Answers
      BY <2>2 DEF PriorAnswer, Answers, RowsOf, Rows
    <3>2. tx[c].key \in Key /\ tx[c].hash \in Requests
      BY <1>3 DEF CheckPrior, Tx, IdleTx
    <3> QED BY <1>3, <2>2, <3>1, <3>2 DEF CheckPrior, Answer, Tx, Stage, IdleTx
  <2> QED BY <1>3, <2>1, <2>2 DEF CheckPrior
<1>4. ASSUME NEW c \in Clients, CommitTx(c) PROVE TypeOK'
  <2>1. /\ tx[c].key \in Key /\ tx[c].hash \in Requests
        /\ tx[c].event \in Transaction /\ tx[c].event \in Event
    BY <1>4, EventNames DEF CommitTx, Tx, IdleTx
  <2>2. CASE Unique(tx[c].key)
    <3>1. outbox' \in [Event -> Row]
      <4>1. \A e \in Event : Inserted(c, e) \in Row
        BY <2>1 DEF Inserted, Row, Key, Fingerprint
      <4> QED BY <1>4, <2>2, <4>1 DEF CommitTx
    <3>2. tx' \in [Clients -> Tx]
      BY <1>4, <2>1, <2>2 DEF CommitTx, Answer, Tx, Stage, IdleTx
    <3>3. receipts' \subseteq Key \X Requests \X Answers
      BY <1>4, <2>1, <2>2 DEF CommitTx, Answer, Answers
    <3> QED BY <1>4, <2>2, <3>1, <3>2, <3>3 DEF CommitTx
  <2>3. CASE ~Unique(tx[c].key)
    BY <1>4, <2>1, <2>3 DEF CommitTx, Answer, Answers, Tx, Stage, IdleTx
  <2> QED BY <2>2, <2>3
<1>5. ASSUME NEW c \in Clients, Abort(c) PROVE TypeOK'
  BY <1>5 DEF Abort, Tx
<1>6. ASSUME NEW p \in Publishers, Claim(p) PROVE TypeOK'
  BY <1>6 DEF Claim, Available, Due, Progress
<1>7. ASSUME NEW p \in Publishers, Sleep(p) PROVE TypeOK'
  BY <1>7, ElapsedType DEF Sleep
<1>8. ASSUME NEW p \in Publishers, PutCreates(p) PROVE TypeOK'
  <2>1. pub[p].event \in Event /\ pub[p] # IdlePub
    BY <1>8 DEF PutCreates, Progress, IdlePub
  <2>2. store' \in [Event -> Object]
    BY <1>8, <2>1 DEF PutCreates, Object
  <2>3. pub' \in [Publishers -> Progress]
    BY <1>8, <2>1 DEF PutCreates, Progress, IdlePub
  <2> QED BY <1>8, <2>2, <2>3 DEF PutCreates
<1>9. ASSUME NEW p \in Publishers, PutRefused(p) \/ Head(p) \/ CallFails(p) PROVE TypeOK'
  BY <1>9 DEF PutRefused, Head, CallFails, Progress, IdlePub
<1>10. ASSUME NEW p \in Publishers, Acknowledge(p) \/ Reschedule(p) PROVE TypeOK'
  <2>1. PICK state \in {"queued", "published"}, wait \in 0..BackoffCap : Finish(p, state, wait)
    <3>1. CASE Acknowledge(p)
      BY <3>1 DEF Acknowledge
    <3>2. CASE Reschedule(p)
      <4>1. pub[p].event \in Event
        BY <3>2 DEF Reschedule, Progress, IdlePub
      <4>2. outbox[pub[p].event].attempts \in 0..BackoffSteps
        BY <4>1 DEF Row
      <4> QED BY <3>2, <4>2, BackoffType DEF Reschedule
    <3> QED BY <1>10, <3>1, <3>2
  <2>2. ASSUME NEW e \in Event PROVE outbox'[e] \in Row
    <3>1. outbox[e] \in Row /\ outbox[e].attempts \in 0..BackoffSteps
      BY DEF Row
    <3>2. Counted(outbox[e].attempts) \in 0..BackoffSteps
      BY <3>1, BackoffType
    <3> QED BY <2>1, <3>1, <3>2, ElapsedType DEF Finish, Row
  <2>3. outbox' \in [Event -> Row]
    BY <2>1, <2>2 DEF Finish
  <2> QED BY <2>1, <2>3 DEF Finish, Progress
<1>11. ASSUME NEW p \in Publishers, Crash(p) PROVE TypeOK'
  BY <1>11 DEF Crash, IdlePub, Progress
<1>12. CASE StoreDown \/ StoreBack
  <2>1. storeUp' \in BOOLEAN
    BY ONLY <1>12, Zenon DEF StoreDown, StoreBack
  <2>2. outages' \in 0..MaxOutages
    BY <1>12 DEF StoreDown, StoreBack
  <2> QED BY <1>12, <2>1, <2>2 DEF StoreDown, StoreBack
<1>13. ASSUME NEW e \in Event, ForeignPut(e) PROVE TypeOK'
  BY <1>13 DEF ForeignPut, Object
<1>14. CASE UNCHANGED vars
  BY <1>14 DEF vars
<1> QED
  BY <1>1, <1>2, <1>3, <1>4, <1>5, <1>6, <1>7, <1>8, <1>9, <1>10, <1>11, <1>12, <1>13, <1>14
     DEF Next, ClientStep, PublisherStep

\* The type invariant holds in every behaviour.
THEOREM TypeCorrect == Spec => []TypeOK
<1>1. Init => TypeOK
  BY InitType
<1>2. TypeOK /\ [Next]_vars => TypeOK'
  BY NextType
<1> QED BY <1>1, <1>2, PTL DEF Spec

-----------------------------------------------------------------------------
(***************************************************************************)
(* The inductive invariant.  On the side of the clients: events under way  *)
(* are numbered apart and have no row yet; a key is locked by one client;  *)
(* a client that found no row of its key may rely on that until it ends.   *)
(* On the side of the publishers: a claimed row is queued and claimed      *)
(* once, and only a row with its artifact in place is acknowledged.        *)
(***************************************************************************)
InFlight == {c \in Clients : tx[c].stage # "idle"}

\* Transactions under way or committed have begun, and only once: one under way
\* has inserted neither of its events.
EventsApart ==
  /\ \A e \in Rows : Begun(e) <= began
  /\ \A c \in InFlight : tx[c].event <= began /\ \A e \in Rows : Begun(e) # tx[c].event
  /\ \A c, d \in InFlight : tx[c].event = tx[d].event => c = d

\* The advisory lock of a key has one holder.
KeyMutex ==
  \A c, d \in Clients, k \in Keys : HoldsKey(c, k) /\ HoldsKey(d, k) => c = d

\* What a client found when it looked for the key still holds when it writes.
NoPriorRow ==
  \A c \in Clients : tx[c].stage = "writing" /\ tx[c].key # NoKey => RowsOf(tx[c].key) = {}

\* A claimed row is queued, and locked by the one publisher that claimed it.
ClaimsApart ==
  /\ \A p \in Publishers : pub[p] # IdlePub => outbox[pub[p].event].state = "queued"
  /\ \A p, q \in Publishers : pub[p].event = pub[q].event /\ pub[p] # IdlePub => p = q

\* A publisher that is about to acknowledge has seen its artifact.
SeenBeforeAck ==
  \A p \in Publishers : pub[p].step = "succeeded" => store[pub[p].event].content = "own"

\* Objects are those of committed events, and an absent object has no version.
ObjectsHaveRows ==
  \A e \in Event : \/ store[e] = NoObject
                   \/ store[e].content # "absent" /\ e \in Rows

\* Every answer given is the one the key's event calls for.
Receipt(a) ==
  /\ a[3] # <<0, Duplicate>>
  /\ a[1] # NoKey =>
       \E e \in RowsOf(a[1]) :
         a[3] = IF outbox[e].hash = a[2] THEN <<e, "committed">> ELSE <<0, Conflict>>

ReceiptsTrue == \A a \in receipts : Receipt(a)

ClientInv == EventsApart /\ KeyMutex /\ NoPriorRow /\ OneEventPerKey /\ ReceiptsTrue
PublisherInv == ClaimsApart /\ SeenBeforeAck /\ PublishedHasArtifact /\ ObjectsHaveRows
Inv == TypeOK /\ ClientInv /\ PublisherInv

\* Init establishes the invariant.
LEMMA InitInv == Init => Inv
<1> SUFFICES ASSUME Init PROVE Inv
  OBVIOUS
<1>1. TypeOK
  BY InitType
<1>2. Rows = {} /\ InFlight = {}
  BY DEF Init, Rows, NoRow, InFlight, IdleTx
<1>3. ClientInv
  BY <1>2 DEF Init, ClientInv, EventsApart, KeyMutex, HoldsKey, NoPriorRow, OneEventPerKey,
              ReceiptsTrue, IdleTx
<1>4. PublisherInv
  BY DEF Init, PublisherInv, ClaimsApart, SeenBeforeAck, PublishedHasArtifact, ObjectsHaveRows,
         IdlePub, NoRow
<1> QED BY <1>1, <1>3, <1>4 DEF Inv

\* What the clients rely on is untouched by a step that leaves them alone and
\* changes no more of a row than its progress towards publication.
LEMMA ClientsUndisturbed ==
  ASSUME Inv, UNCHANGED clientVars,
         \A e \in Event : /\ outbox'[e].state = "none" <=> outbox[e].state = "none"
                          /\ outbox'[e].key = outbox[e].key
                          /\ outbox'[e].hash = outbox[e].hash
  PROVE  ClientInv'
<1>1. Rows' = Rows
  BY DEF Rows
<1>2. \A k : RowsOf(k)' = RowsOf(k)
  BY <1>1 DEF RowsOf, Rows
<1>3. InFlight' = InFlight /\ tx' = tx /\ began' = began /\ receipts' = receipts
  BY DEF InFlight, clientVars
<1>4. EventsApart'
  BY <1>1, <1>3 DEF Inv, ClientInv, EventsApart
<1>5. KeyMutex' /\ NoPriorRow'
  BY <1>2, <1>3 DEF Inv, ClientInv, KeyMutex, NoPriorRow, HoldsKey
<1>6. OneEventPerKey'
  BY <1>1 DEF Inv, ClientInv, OneEventPerKey, Rows
<1>7. ReceiptsTrue'
  BY <1>2, <1>3 DEF Inv, ClientInv, ReceiptsTrue, Receipt, RowsOf, Rows
<1> QED BY <1>4, <1>5, <1>6, <1>7 DEF ClientInv

\* What the publishers rely on is untouched by a step that leaves them and the
\* object store alone and at most inserts rows.
LEMMA PublishersUndisturbed ==
  ASSUME Inv, UNCHANGED publisherVars, Rows \subseteq Rows',
         \A e \in Rows : outbox'[e] = outbox[e],
         \A e \in Event \ Rows : outbox'[e].state # "published"
  PROVE  PublisherInv'
<1>1. pub' = pub /\ store' = store
  BY DEF publisherVars
<1>2. \A p \in Publishers : pub[p] # IdlePub => pub[p].event \in Rows
  BY DEF Inv, TypeOK, PublisherInv, ClaimsApart, Progress, Rows, IdlePub
<1>3. ClaimsApart' /\ SeenBeforeAck'
  BY <1>1, <1>2 DEF Inv, PublisherInv, ClaimsApart, SeenBeforeAck
<1>4. PublishedHasArtifact'
  BY <1>1 DEF Inv, PublisherInv, PublishedHasArtifact
<1>5. ObjectsHaveRows'
  BY <1>1 DEF Inv, PublisherInv, ObjectsHaveRows
<1> QED BY <1>3, <1>4, <1>5 DEF PublisherInv

\* A transaction under way has a proper event, key and fingerprint.
LEMMA TxType ==
  ASSUME TypeOK, NEW c \in Clients, tx[c].stage # "idle"
  PROVE  /\ tx[c].event \in Transaction /\ tx[c].event \in Event
         /\ tx[c].key \in Key /\ tx[c].hash \in Requests
BY EventNames DEF TypeOK, Tx, IdleTx

\* A step of one client that inserts no row keeps the invariant if it breaks
\* no mutual exclusion, writes only after finding no row, and answers truly.
LEMMA NoInsert ==
  ASSUME Inv, UNCHANGED <<outbox, publisherVars>>, TypeOK',
         NEW c \in Clients,
         \A d \in Clients \ {c} : tx'[d] = tx[d],
         began' = began,
         tx'[c].stage # "idle" =>
           /\ c \in InFlight /\ tx'[c].event = tx[c].event /\ tx'[c].key = tx[c].key,
         \A k \in Keys : HoldsKey(c, k)' => HoldsKey(c, k) \/ \A d \in Clients : ~HoldsKey(d, k),
         tx'[c].stage = "writing" /\ tx'[c].key # NoKey => RowsOf(tx[c].key) = {},
         \A a \in receipts' \ receipts : Receipt(a)
  PROVE  Inv'
<1>1. Rows' = Rows /\ (\A k : RowsOf(k)' = RowsOf(k))
  BY DEF Rows, RowsOf
<1>2. EventsApart'
  BY <1>1 DEF Inv, ClientInv, EventsApart, InFlight
<1>3. KeyMutex'
  BY DEF Inv, ClientInv, KeyMutex, HoldsKey
<1>4. NoPriorRow'
  BY <1>1 DEF Inv, ClientInv, NoPriorRow
<1>5. OneEventPerKey'
  BY <1>1 DEF Inv, ClientInv, OneEventPerKey
<1>6. ReceiptsTrue'
  BY <1>1 DEF Inv, ClientInv, ReceiptsTrue, Receipt
<1>7. PublisherInv'
  BY <1>1, PublishersUndisturbed DEF Inv, TypeOK, Rows
<1> QED BY <1>2, <1>3, <1>4, <1>5, <1>6, <1>7 DEF Inv, ClientInv

LEMMA BeginInv ==
  ASSUME Inv, TypeOK', NEW c \in Clients, NEW k \in Key, NEW r \in Requests, Begin(c, k, r)
  PROVE  Inv'
<1>1. Rows' = Rows /\ (\A j : RowsOf(j)' = RowsOf(j)) /\ receipts' = receipts
  BY DEF Begin, Rows, RowsOf
<1>2. began \in Nat /\ began' = began + 1
  BY DEF Begin, Inv, TypeOK
<1>3. InFlight' = InFlight \cup {c}
  BY DEF Begin, InFlight, Inv, TypeOK
<1>4. \A d \in Clients : tx'[d] = IF d = c THEN tx'[c] ELSE tx[d]
  BY DEF Begin, Inv, TypeOK
<1>5. tx'[c].event = began + 1 /\ tx'[c].key = k /\ tx'[c].stage \in {"locking", "writing"}
      /\ (tx'[c].stage = "writing" => k = NoKey)
  BY DEF Begin, Inv, TypeOK
<1>6. \A e \in Rows : Begun(e) \in Nat
  BY EventNames DEF Rows, Transaction
<1>7. \A d \in InFlight : tx[d].event \in Nat
  BY TxType DEF Inv, InFlight, Transaction
<1>8. EventsApart'
  <2>1. c \notin InFlight
    BY DEF Begin, InFlight
  <2>2. \A e \in Rows' : Begun(e) <= began'
    BY <1>1, <1>2, <1>6 DEF Inv, ClientInv, EventsApart
  <2>3. \A d \in InFlight' : tx'[d].event <= began' /\ \A e \in Rows' : Begun(e) # tx'[d].event
    BY <1>1, <1>2, <1>3, <1>4, <1>5, <1>6, <1>7 DEF Inv, ClientInv, EventsApart, InFlight
  <2>4. \A d, f \in InFlight' : tx'[d].event = tx'[f].event => d = f
    BY <1>2, <1>3, <1>4, <1>5, <1>7, <2>1 DEF Inv, ClientInv, EventsApart, InFlight
  <2> QED BY <2>2, <2>3, <2>4 DEF EventsApart
<1>9. KeyMutex'
  BY <1>4, <1>5, NoKeyAssumption DEF Inv, ClientInv, KeyMutex, HoldsKey
<1>10. NoPriorRow'
  BY <1>1, <1>4, <1>5 DEF Inv, ClientInv, NoPriorRow
<1>11. OneEventPerKey' /\ ReceiptsTrue'
  BY <1>1 DEF Begin, Inv, ClientInv, OneEventPerKey, ReceiptsTrue, Receipt
<1>12. PublisherInv'
  BY <1>1, PublishersUndisturbed DEF Begin, Inv, TypeOK, Rows
<1> QED BY <1>8, <1>9, <1>10, <1>11, <1>12 DEF Inv, ClientInv

LEMMA LockKeyInv == ASSUME Inv, TypeOK', NEW c \in Clients, LockKey(c) PROVE Inv'
<1>1. tx' = [tx EXCEPT ![c].stage = "checking"] /\ tx[c].stage = "locking"
  BY DEF LockKey
<1>2. /\ \A d \in Clients \ {c} : tx'[d] = tx[d]
      /\ tx'[c].stage = "checking" /\ tx'[c].event = tx[c].event /\ tx'[c].key = tx[c].key
      /\ c \in InFlight
  BY <1>1, TxType DEF Inv, TypeOK, InFlight, Tx, IdleTx
<1>3. \A k \in Keys : HoldsKey(c, k)' => \A d \in Clients : ~HoldsKey(d, k)
  BY <1>1, <1>2 DEF LockKey, KeyFree, HoldsKey
<1> QED BY <1>2, <1>3, NoInsert DEF LockKey

LEMMA CheckPriorInv == ASSUME Inv, TypeOK', NEW c \in Clients, CheckPrior(c) PROVE Inv'
<1>1. tx[c].stage = "checking" /\ c \in InFlight
  BY DEF CheckPrior, InFlight
<1>2. CASE RowsOf(tx[c].key) = {} /\ tx' = [tx EXCEPT ![c].stage = "writing"] /\ UNCHANGED receipts
  <2>1. /\ \A d \in Clients \ {c} : tx'[d] = tx[d]
        /\ tx'[c].stage = "writing" /\ tx'[c].event = tx[c].event /\ tx'[c].key = tx[c].key
    BY <1>1, <1>2 DEF Inv, TypeOK, Tx, IdleTx
  <2>2. \A k \in Keys : HoldsKey(c, k)' => HoldsKey(c, k)
    BY <1>1, <2>1 DEF HoldsKey
  <2> QED BY <1>1, <1>2, <2>1, <2>2, NoInsert DEF CheckPrior
<1>3. ASSUME NEW e \in RowsOf(tx[c].key), Answer(c, PriorAnswer(c, e)) PROVE Inv'
  <2>1. /\ \A d \in Clients \ {c} : tx'[d] = tx[d]
        /\ tx'[c].stage = "idle"
    BY <1>1, <1>3 DEF Answer, Inv, TypeOK, Tx, IdleTx
  <2>2. Receipt(<<tx[c].key, tx[c].hash, PriorAnswer(c, e)>>)
    BY <1>3, TxType DEF Receipt, PriorAnswer, Duplicate, Conflict, RowsOf, Rows, Event
  <2>3. \A a \in receipts' \ receipts : Receipt(a)
    BY <1>3, <2>2 DEF Answer
  <2>4. \A k \in Keys : ~HoldsKey(c, k)'
    BY <2>1 DEF HoldsKey
  <2> QED BY <2>1, <2>3, <2>4, NoInsert DEF CheckPrior
<1> QED BY <1>2, <1>3 DEF CheckPrior

\* The events a committing transaction inserts: they are its own, they have no
\* row yet, and only the first of them carries its key.
LEMMA InsertsType ==
  ASSUME Inv, NEW c \in Clients, CommitTx(c)
  PROVE  /\ Unique(tx[c].key)
         /\ tx[c].event \in Inserts(c)
         /\ Inserts(c) \subseteq Event
         /\ \A e \in Inserts(c) : Begun(e) = tx[c].event /\ e \notin Rows
         /\ \A e \in Inserts(c) :
              /\ outbox'[e].state = "queued"
              /\ outbox'[e].key = IF e = tx[c].event THEN tx[c].key ELSE NoKey
              /\ outbox'[e].hash = IF e = tx[c].event THEN tx[c].hash ELSE NoRequest
         /\ \A e \in Event \ Inserts(c) : outbox'[e] = outbox[e]
         /\ Rows' = Rows \cup Inserts(c)
<1>1. tx[c].stage = "writing" /\ c \in InFlight /\ tx[c].event \in Transaction
  BY TxType DEF CommitTx, InFlight, Inv
<1>2. Unique(tx[c].key)
  BY <1>1 DEF Unique, Inv, ClientInv, NoPriorRow
<1>3. /\ Inserts(c) \subseteq Event
      /\ \A e \in Inserts(c) : Begun(e) = tx[c].event
  BY <1>1, EventNames DEF Inserts
<1>4. \A e \in Inserts(c) : e \notin Rows
  BY <1>1, <1>3 DEF Inv, ClientInv, EventsApart
<1>5. /\ \A e \in Inserts(c) : outbox'[e] = Inserted(c, e)
      /\ \A e \in Event \ Inserts(c) : outbox'[e] = outbox[e]
  BY <1>2, <1>3 DEF CommitTx
<1>6. \A e \in Inserts(c) :
        /\ outbox'[e].state = "queued"
        /\ outbox'[e].key = IF e = tx[c].event THEN tx[c].key ELSE NoKey
        /\ outbox'[e].hash = IF e = tx[c].event THEN tx[c].hash ELSE NoRequest
  <2> SUFFICES ASSUME NEW e \in Inserts(c)
               PROVE  /\ outbox'[e].state = "queued"
                      /\ outbox'[e].key = IF e = tx[c].event THEN tx[c].key ELSE NoKey
                      /\ outbox'[e].hash = IF e = tx[c].event THEN tx[c].hash ELSE NoRequest
    OBVIOUS
  <2>1. outbox'[e] = Inserted(c, e)
    BY <1>5
  <2> QED BY <2>1 DEF Inserted
<1>7. Rows' = Rows \cup Inserts(c)
  BY <1>3, <1>5, <1>6 DEF Rows
<1>8. tx[c].event \in Inserts(c)
  BY DEF Inserts
<1> QED BY <1>2, <1>3, <1>4, <1>5, <1>6, <1>7, <1>8, Zenon

LEMMA CommitTxInv == ASSUME Inv, TypeOK', NEW c \in Clients, CommitTx(c) PROVE Inv'
<1> DEFINE e == tx[c].event
           k == tx[c].key
<1>1. tx[c].stage = "writing" /\ c \in InFlight /\ e \in Event /\ k \in Key
  BY TxType DEF CommitTx, InFlight, Inv
<1>2. Unique(k) /\ e \in Inserts(c) /\ Rows' = Rows \cup Inserts(c)
  BY InsertsType
<1>3. \A f \in Inserts(c) : f \in Event /\ f \notin Rows /\ Begun(f) = e
  BY InsertsType
<1>4. /\ outbox'[e].key = k /\ outbox'[e].hash = tx[c].hash
      /\ \A f \in Inserts(c) \ {e} : outbox'[f].key = NoKey
      /\ \A f \in Rows : outbox'[f] = outbox[f]
  BY <1>2, <1>3, InsertsType DEF Rows
<1>5. /\ \A d \in Clients \ {c} : tx'[d] = tx[d]
      /\ tx'[c].stage = "idle"
      /\ receipts' = receipts \cup {<<k, tx[c].hash, <<e, "committed">>>>}
      /\ began' = began
  BY <1>1, <1>2 DEF CommitTx, Answer, Inv, TypeOK, Tx, IdleTx
<1>6. EventsApart'
  <2>1. \A f \in Rows' : Begun(f) <= began'
    BY <1>1, <1>2, <1>3, <1>5 DEF Inv, ClientInv, EventsApart
  <2>2. ASSUME NEW d \in InFlight' PROVE d \in InFlight /\ d # c /\ tx'[d] = tx[d]
    BY <1>5 DEF InFlight
  <2>3. ASSUME NEW d \in InFlight', NEW f \in Rows' PROVE Begun(f) # tx'[d].event
    BY <1>1, <1>2, <1>3, <2>2 DEF Inv, ClientInv, EventsApart
  <2> QED BY <1>5, <2>1, <2>2, <2>3 DEF Inv, ClientInv, EventsApart
<1>7. KeyMutex'
  BY <1>5 DEF Inv, ClientInv, KeyMutex, HoldsKey
<1>8. NoPriorRow'
  <2> SUFFICES ASSUME NEW d \in Clients, tx'[d].stage = "writing", tx'[d].key # NoKey,
                      NEW f \in Rows'
               PROVE  outbox'[f].key # tx'[d].key
    BY DEF NoPriorRow, RowsOf
  <2>1. d # c /\ tx'[d] = tx[d]
    BY <1>5
  <2>2. tx[d].key \in Keys
    BY <2>1, TxType DEF Inv, Key
  <2>3. tx[d].key # k
    BY <1>1, <2>1, <2>2 DEF Inv, ClientInv, KeyMutex, HoldsKey
  <2>4. RowsOf(tx[d].key) = {}
    BY <2>1 DEF Inv, ClientInv, NoPriorRow
  <2>5. CASE f \in Rows
    BY <1>4, <2>1, <2>4, <2>5 DEF RowsOf
  <2>6. CASE f \in Inserts(c)
    BY <1>4, <2>1, <2>3, <2>6
  <2> QED BY <1>2, <2>5, <2>6
<1>9. OneEventPerKey'
  <2> SUFFICES ASSUME NEW f \in Rows', NEW g \in Rows',
                      outbox'[f].key = outbox'[g].key, outbox'[f].key # NoKey
               PROVE  f = g
    BY DEF OneEventPerKey
  <2>1. k # NoKey => RowsOf(k) = {}
    BY <1>2 DEF Unique
  <2>2. f \in Rows \cup {e} /\ g \in Rows \cup {e}
    BY <1>2, <1>4
  <2> QED BY <1>4, <2>1, <2>2 DEF Inv, ClientInv, OneEventPerKey, RowsOf
<1>10. ReceiptsTrue'
  <2>1. ASSUME NEW a, a = <<k, tx[c].hash, <<e, "committed">>>> PROVE Receipt(a)'
    <3>1. e \in RowsOf(a[1])'
      BY <1>1, <1>2, <1>4, <2>1 DEF RowsOf
    <3>2. a[3] # <<0, Duplicate>>
      BY <1>1, <2>1 DEF Duplicate, Event
    <3> QED BY <1>4, <2>1, <3>1, <3>2 DEF Receipt
  <2>2. ASSUME NEW a \in receipts PROVE Receipt(a)'
    <3>1. Receipt(a)
      BY DEF Inv, ClientInv, ReceiptsTrue
    <3>2. \A f \in RowsOf(a[1]) : f \in RowsOf(a[1])' /\ outbox'[f] = outbox[f]
      BY <1>2, <1>4 DEF RowsOf
    <3> QED BY <3>1, <3>2 DEF Receipt
  <2> QED BY <1>5, <2>1, <2>2 DEF ReceiptsTrue
<1>11. PublisherInv'
  <2>1. \A f \in Event \ Rows : outbox'[f].state # "published"
    BY InsertsType DEF Rows
  <2> QED BY <1>2, <1>4, <2>1, PublishersUndisturbed DEF CommitTx
<1> QED BY <1>6, <1>7, <1>8, <1>9, <1>10, <1>11 DEF Inv, ClientInv

LEMMA EndInv == ASSUME Inv, TypeOK', NEW c \in Clients, Abort(c) PROVE Inv'
<1>1. /\ \A d \in Clients \ {c} : tx'[d] = tx[d]
      /\ tx'[c].stage = "idle"
      /\ UNCHANGED <<began, outbox, publisherVars, receipts>>
  BY DEF Abort, IdleTx, Inv, TypeOK
<1>2. \A k \in Keys : ~HoldsKey(c, k)'
  BY <1>1 DEF HoldsKey
<1> QED BY <1>1, <1>2, NoInsert

\* What a busy publisher holds.
LEMMA ClaimType ==
  ASSUME Inv, NEW p \in Publishers, pub[p].step # "idle"
  PROVE  /\ pub[p] # IdlePub /\ pub[p].event \in Rows
         /\ outbox[pub[p].event].state = "queued"
BY DEF Inv, TypeOK, PublisherInv, ClaimsApart, Progress, IdlePub, Rows

LEMMA ClaimInv == ASSUME Inv, TypeOK', NEW p \in Publishers, Claim(p) PROVE Inv'
<1>1. PICK e \in Available : pub' = [pub EXCEPT ![p] = [event |-> e, step |-> "putting"]]
  BY DEF Claim
<1>2. outbox' = outbox /\ store' = store /\ UNCHANGED clientVars
  BY DEF Claim
<1>3. ClientInv'
  BY <1>2, ClientsUndisturbed
<1>4. ClaimsApart'
  BY <1>1, <1>2 DEF Available, Due, Locked, Inv, TypeOK, PublisherInv, ClaimsApart
<1>5. SeenBeforeAck'
  BY <1>1, <1>2 DEF Inv, TypeOK, PublisherInv, SeenBeforeAck
<1>6. PublishedHasArtifact' /\ ObjectsHaveRows'
  BY <1>2 DEF Inv, PublisherInv, PublishedHasArtifact, ObjectsHaveRows, Rows
<1> QED BY <1>3, <1>4, <1>5, <1>6 DEF Inv, PublisherInv

LEMMA SleepInv == ASSUME Inv, TypeOK', NEW p \in Publishers, Sleep(p) PROVE Inv'
<1>1. \A e \in Event : /\ outbox'[e].state = outbox[e].state
                       /\ outbox'[e].key = outbox[e].key
                       /\ outbox'[e].hash = outbox[e].hash
  BY ElapsedType DEF Sleep, Inv, TypeOK
<1>2. pub' = pub /\ store' = store /\ UNCHANGED clientVars
  BY DEF Sleep, publisherVars
<1>3. ClientInv'
  BY <1>1, <1>2, ClientsUndisturbed
<1>4. ClaimsApart'
  BY <1>1, <1>2 DEF Inv, TypeOK, PublisherInv, ClaimsApart, Progress, IdlePub
<1>5. SeenBeforeAck' /\ PublishedHasArtifact' /\ ObjectsHaveRows'
  BY <1>1, <1>2 DEF Inv, PublisherInv, SeenBeforeAck, PublishedHasArtifact, ObjectsHaveRows, Rows
<1> QED BY <1>3, <1>4, <1>5 DEF Inv, PublisherInv

LEMMA PutCreatesInv == ASSUME Inv, TypeOK', NEW p \in Publishers, PutCreates(p) PROVE Inv'
<1> DEFINE e == pub[p].event
<1>1. e \in Rows /\ e \in Event /\ pub[p] # IdlePub
  BY ClaimType DEF PutCreates, Rows
<1>2. outbox' = outbox /\ UNCHANGED clientVars
  BY DEF PutCreates
<1>3. /\ store'[e].content = "own"
      /\ \A f \in Event \ {e} : store'[f] = store[f]
  BY <1>1 DEF PutCreates, Inv, TypeOK
<1>4. PICK step \in {"succeeded", "failed"} : pub' = [pub EXCEPT ![p].step = step]
  BY DEF PutCreates
<1>5. /\ pub'[p].event = e /\ pub'[p].step = step
      /\ \A q \in Publishers \ {p} : pub'[q] = pub[q]
  BY <1>1, <1>4 DEF Inv, TypeOK, Progress
<1>6. ClientInv'
  BY <1>2, ClientsUndisturbed
<1>7. ClaimsApart'
  BY <1>1, <1>2, <1>5 DEF Inv, PublisherInv, ClaimsApart
<1>8. SeenBeforeAck'
  <2> SUFFICES ASSUME NEW q \in Publishers, pub'[q].step = "succeeded"
               PROVE  store'[pub'[q].event].content = "own"
    BY DEF SeenBeforeAck
  <2>1. CASE q = p
    BY <1>3, <1>5, <2>1
  <2>2. CASE q # p
    <3>1. pub'[q] = pub[q] /\ store[pub[q].event].content = "own" /\ pub[q].event \in Event
      BY <1>5, <2>2, ClaimType DEF Inv, PublisherInv, SeenBeforeAck, Rows
    <3> QED BY <1>3, <3>1
  <2> QED BY <2>1, <2>2
<1>9. PublishedHasArtifact'
  BY <1>2, <1>3 DEF Inv, PublisherInv, PublishedHasArtifact
<1>10. ObjectsHaveRows'
  BY <1>1, <1>2, <1>3 DEF Inv, PublisherInv, ObjectsHaveRows, Rows
<1> QED BY <1>6, <1>7, <1>8, <1>9, <1>10 DEF Inv, PublisherInv

LEMMA CallInv ==
  ASSUME Inv, TypeOK', NEW p \in Publishers, PutRefused(p) \/ Head(p) \/ CallFails(p)
  PROVE  Inv'
<1>1. outbox' = outbox /\ store' = store /\ UNCHANGED clientVars /\ pub[p].step # "idle"
  BY DEF PutRefused, Head, CallFails
<1>2. pub[p] # IdlePub /\ pub[p].event \in Event
  BY <1>1, ClaimType DEF Rows
<1>3. /\ pub'[p].event = pub[p].event
      /\ \A q \in Publishers \ {p} : pub'[q] = pub[q]
  BY <1>2 DEF PutRefused, Head, CallFails, Inv, TypeOK, Progress
<1>4. pub'[p].step = "succeeded" => SameDigest(pub[p].event)
  BY <1>2 DEF PutRefused, Head, CallFails, Inv, TypeOK, Progress
<1>5. ClientInv'
  BY <1>1, ClientsUndisturbed
<1>6. ClaimsApart'
  BY <1>1, <1>2, <1>3 DEF Inv, PublisherInv, ClaimsApart
<1>7. SeenBeforeAck'
  BY <1>1, <1>3, <1>4 DEF Inv, PublisherInv, SeenBeforeAck, SameDigest
<1>8. PublishedHasArtifact' /\ ObjectsHaveRows'
  BY <1>1 DEF Inv, PublisherInv, PublishedHasArtifact, ObjectsHaveRows, Rows
<1> QED BY <1>5, <1>6, <1>7, <1>8 DEF Inv, PublisherInv

\* Finishing changes the state of the claimed row only.
LEMMA FinishStates ==
  ASSUME Inv, NEW p \in Publishers, pub[p].event \in Event, NEW state, NEW wait,
         Finish(p, state, wait)
  PROVE  /\ store' = store
         /\ outbox'[pub[p].event].state = state
         /\ \A f \in Event \ {pub[p].event} : outbox'[f].state = outbox[f].state
<1>1. outbox'[pub[p].event].state = state
  BY DEF Finish, Inv, TypeOK, Row
<1>2. ASSUME NEW f \in Event, f # pub[p].event PROVE outbox'[f].state = outbox[f].state
  BY <1>2, ElapsedType DEF Finish, Inv, TypeOK
<1> QED BY <1>1, <1>2 DEF Finish

\* Acknowledgment and rescheduling give the claim back; only a row whose
\* artifact is in place becomes published.
LEMMA FinishInv ==
  ASSUME Inv, TypeOK', NEW p \in Publishers, Acknowledge(p) \/ Reschedule(p)
  PROVE  Inv'
<1> DEFINE e == pub[p].event
<1>1. e \in Rows /\ e \in Event /\ pub[p] # IdlePub /\ outbox[e].state = "queued"
  BY ClaimType DEF Acknowledge, Reschedule, Rows
<1>2. PICK state \in {"queued", "published"}, wait \in {0, Backoff(outbox[e].attempts)} :
        Finish(p, state, wait) /\ (state = "published" => pub[p].step = "succeeded")
  BY DEF Acknowledge, Reschedule
<1>3. /\ outbox'[e].state = state /\ outbox'[e].key = outbox[e].key /\ outbox'[e].hash = outbox[e].hash
  BY <1>1, <1>2 DEF Finish, Inv, TypeOK, Row
<1>4. ASSUME NEW f \in Event, f # e
      PROVE  /\ outbox'[f].state = outbox[f].state /\ outbox'[f].key = outbox[f].key
             /\ outbox'[f].hash = outbox[f].hash
  BY <1>2, <1>4, ElapsedType DEF Finish, Inv, TypeOK
<1>5. /\ store' = store /\ UNCHANGED clientVars
      /\ pub'[p] = IdlePub
      /\ \A q \in Publishers \ {p} : pub'[q] = pub[q]
  BY <1>2 DEF Finish, Inv, TypeOK
<1>6. ClientInv'
  BY <1>1, <1>3, <1>4, <1>5, ClientsUndisturbed
<1>7. ClaimsApart'
  <2>1. ASSUME NEW q \in Publishers, pub'[q] # IdlePub PROVE outbox'[pub'[q].event].state = "queued"
    <3>1. q # p /\ pub'[q] = pub[q] /\ pub[q].event \in Event /\ outbox[pub[q].event].state = "queued"
      BY <1>5, <2>1 DEF Inv, TypeOK, Progress, PublisherInv, ClaimsApart
    <3>2. pub[q].event # e
      BY <1>1, <3>1 DEF Inv, PublisherInv, ClaimsApart
    <3> QED BY <1>4, <3>1, <3>2
  <2>2. ASSUME NEW q \in Publishers, NEW r \in Publishers,
               pub'[q].event = pub'[r].event, pub'[q] # IdlePub
        PROVE  q = r
    <3>1. q # p /\ pub'[q] = pub[q] /\ pub[q].event \in Event
      BY <1>5, <2>2 DEF Inv, TypeOK, Progress
    <3>2. r # p
      BY <1>5, <2>2, <3>1 DEF IdlePub, Event
    <3> QED BY <1>5, <2>2, <3>1, <3>2 DEF Inv, PublisherInv, ClaimsApart
  <2> QED BY <2>1, <2>2 DEF ClaimsApart
<1>8. SeenBeforeAck'
  BY <1>5 DEF Inv, PublisherInv, SeenBeforeAck, IdlePub
<1>9. PublishedHasArtifact'
  BY <1>1, <1>2, <1>3, <1>4, <1>5 DEF Inv, PublisherInv, PublishedHasArtifact, SeenBeforeAck
<1>10. ObjectsHaveRows'
  BY <1>1, <1>3, <1>4, <1>5 DEF Inv, PublisherInv, ObjectsHaveRows, Rows
<1> QED BY <1>6, <1>7, <1>8, <1>9, <1>10 DEF Inv, PublisherInv

LEMMA CrashInv == ASSUME Inv, TypeOK', NEW p \in Publishers, Crash(p) PROVE Inv'
<1>1. /\ outbox' = outbox /\ store' = store /\ UNCHANGED clientVars
      /\ pub'[p] = IdlePub
      /\ \A q \in Publishers \ {p} : pub'[q] = pub[q]
  BY DEF Crash, Inv, TypeOK
<1>2. ClientInv'
  BY <1>1, ClientsUndisturbed
<1>3. ClaimsApart'
  <2>1. \A q \in Publishers : pub[q] # IdlePub => pub[q].event # IdlePub.event
    BY DEF Inv, TypeOK, Progress, IdlePub, Event
  <2> QED BY <1>1, <2>1 DEF Inv, PublisherInv, ClaimsApart
<1>4. SeenBeforeAck'
  BY <1>1 DEF Inv, PublisherInv, SeenBeforeAck, IdlePub
<1>5. PublishedHasArtifact' /\ ObjectsHaveRows'
  BY <1>1 DEF Inv, PublisherInv, PublishedHasArtifact, ObjectsHaveRows, Rows
<1> QED BY <1>2, <1>3, <1>4, <1>5 DEF Inv, PublisherInv

LEMMA StoreInv == ASSUME Inv, TypeOK', StoreDown \/ StoreBack PROVE Inv'
<1>1. outbox' = outbox /\ pub' = pub /\ store' = store /\ UNCHANGED clientVars
  BY DEF StoreDown, StoreBack
<1>2. ClientInv'
  BY <1>1, ClientsUndisturbed
<1>3. PublisherInv'
  BY <1>1 DEF Inv, PublisherInv, ClaimsApart, SeenBeforeAck, PublishedHasArtifact,
              ObjectsHaveRows, Rows
<1> QED BY <1>2, <1>3 DEF Inv

LEMMA ForeignPutInv == ASSUME Inv, TypeOK', NEW e \in Event, ForeignPut(e) PROVE Inv'
<1>1. outbox' = outbox /\ pub' = pub /\ UNCHANGED clientVars
  BY DEF ForeignPut
<1>2. /\ e \in Rows /\ store[e].content = "absent" /\ store'[e].content = "foreign"
      /\ \A f \in Event \ {e} : store'[f] = store[f]
  BY DEF ForeignPut, Inv, TypeOK
<1>3. ClientInv'
  BY <1>1, ClientsUndisturbed
<1>4. ClaimsApart'
  BY <1>1 DEF Inv, PublisherInv, ClaimsApart
<1>5. SeenBeforeAck'
  <2> SUFFICES ASSUME NEW q \in Publishers, pub[q].step = "succeeded"
               PROVE  store'[pub[q].event].content = "own"
    BY <1>1 DEF SeenBeforeAck
  <2>1. store[pub[q].event].content = "own" /\ pub[q].event \in Event
    BY ClaimType DEF Inv, PublisherInv, SeenBeforeAck, Rows
  <2> QED BY <1>2, <2>1
<1>6. PublishedHasArtifact' /\ ObjectsHaveRows'
  BY <1>1, <1>2 DEF Inv, PublisherInv, PublishedHasArtifact, ObjectsHaveRows, Rows
<1> QED BY <1>3, <1>4, <1>5, <1>6 DEF Inv, PublisherInv

\* Every step keeps the invariant.
LEMMA NextInv == Inv /\ [Next]_vars => Inv'
<1> SUFFICES ASSUME Inv, [Next]_vars PROVE Inv'
  OBVIOUS
<1>1. TypeOK'
  BY NextType DEF Inv
<1>2. ASSUME NEW c \in Clients, ClientStep(c) PROVE Inv'
  BY <1>1, <1>2, BeginInv, LockKeyInv, CheckPriorInv, CommitTxInv, EndInv DEF ClientStep
<1>3. ASSUME NEW p \in Publishers, PublisherStep(p) PROVE Inv'
  BY <1>1, <1>3, ClaimInv, SleepInv, PutCreatesInv, CallInv, FinishInv DEF PublisherStep
<1>4. ASSUME NEW p \in Publishers, Crash(p) PROVE Inv'
  BY <1>1, <1>4, CrashInv
<1>5. CASE StoreDown \/ StoreBack
  BY <1>1, <1>5, StoreInv
<1>6. ASSUME NEW e \in Event, ForeignPut(e) PROVE Inv'
  BY <1>1, <1>6, ForeignPutInv
<1>7. CASE UNCHANGED vars
  <2>1. Rows' = Rows /\ InFlight' = InFlight /\ (\A k : RowsOf(k)' = RowsOf(k))
    BY <1>7 DEF vars, Rows, InFlight, RowsOf
  <2>2. EventsApart' /\ KeyMutex' /\ NoPriorRow'
    BY <1>7, <2>1 DEF vars, Inv, ClientInv, EventsApart, KeyMutex, HoldsKey, NoPriorRow
  <2>3. OneEventPerKey' /\ ReceiptsTrue'
    BY <1>7, <2>1 DEF vars, Inv, ClientInv, OneEventPerKey, ReceiptsTrue, Receipt
  <2>4. PublisherInv'
    BY <1>7, <2>1 DEF vars, Inv, PublisherInv, ClaimsApart, SeenBeforeAck, PublishedHasArtifact,
                      ObjectsHaveRows
  <2> QED BY <1>1, <2>2, <2>3, <2>4 DEF Inv, ClientInv
<1> QED BY <1>2, <1>3, <1>4, <1>5, <1>6, <1>7 DEF Next

\* The inductive invariant holds in every behaviour.
LEMMA InvHolds == Spec => []Inv
BY InitInv, NextInv, PTL DEF Spec

-----------------------------------------------------------------------------
(***************************************************************************)
(* What follows from it.                                                   *)
(***************************************************************************)

\* At most one event of an idempotency key is ever committed.
THEOREM KeyHasOneEvent == Spec => []OneEventPerKey
<1>1. Inv => OneEventPerKey
  BY DEF Inv, ClientInv
<1> QED BY <1>1, InvHolds, PTL

\* All answers to one request under one key are the same answer.
THEOREM RetriesGetOneAnswer == Spec => []RetriesAgree
<1>1. Inv => RetriesAgree
  <2> SUFFICES ASSUME Inv, NEW a \in receipts, NEW b \in receipts
               PROVE  /\ a[3] # <<0, Duplicate>>
                      /\ a[1] = b[1] /\ a[1] # NoKey /\ a[2] = b[2] => a[3] = b[3]
    BY DEF RetriesAgree
  <2>1. Receipt(a) /\ Receipt(b)
    BY DEF Inv, ClientInv, ReceiptsTrue
  <2> QED BY <2>1 DEF Receipt, RowsOf, Inv, ClientInv, OneEventPerKey
<1> QED BY <1>1, InvHolds, PTL

\* An acknowledged event has its own artifact in the bucket.
THEOREM AcknowledgedIsStored == Spec => []PublishedHasArtifact
<1>1. Inv => PublishedHasArtifact
  BY DEF Inv, PublisherInv
<1> QED BY <1>1, InvHolds, PTL

\* No step changes an object that is in the bucket.
THEOREM ArtifactsAreImmutable == Spec => ArtifactImmutable
<1>1. Inv /\ [Next]_vars => [\A e \in Event : store[e] # NoObject => store'[e] = store[e]]_vars
  <2> SUFFICES ASSUME Inv, Next, NEW e \in Event, store[e] # NoObject PROVE store'[e] = store[e]
    BY DEF Next
  <2>1. store[e].content # "absent"
    BY DEF Inv, PublisherInv, ObjectsHaveRows
  <2>2. ASSUME NEW c \in Clients, ClientStep(c) PROVE store' = store
    BY <2>2 DEF ClientStep, Begin, LockKey, CheckPrior, CommitTx, Abort, publisherVars
  <2>3. ASSUME NEW p \in Publishers, PutCreates(p) PROVE store'[e] = store[e]
    BY <2>1, <2>3 DEF PutCreates, Accepts, Inv, TypeOK
  <2>4. ASSUME NEW p \in Publishers, PublisherStep(p) \/ Crash(p), ~PutCreates(p) PROVE store' = store
    BY <2>4 DEF PublisherStep, Claim, Sleep, PutRefused, Head, CallFails, Acknowledge, Reschedule,
                Finish, Crash, publisherVars
  <2>5. ASSUME NEW f \in Event, ForeignPut(f) PROVE store'[e] = store[e]
    BY <2>1, <2>5 DEF ForeignPut, Inv, TypeOK
  <2>6. CASE StoreDown \/ StoreBack
    BY <2>6 DEF StoreDown, StoreBack
  <2> QED BY <2>2, <2>3, <2>4, <2>5, <2>6 DEF Next
<1> QED BY <1>1, InvHolds, PTL DEF Spec, ArtifactImmutable

(***************************************************************************)
(* The outbox implements the audit log: a committing transaction commits   *)
(* its event, with that of the base a revision supersedes, a put that creates the object reveals it, the update to      *)
(* 'published' acknowledges it, and every other step stutters.             *)
(***************************************************************************)
Visible == {e \in Event : store[e].content = "own"}
Acknowledged == {e \in Event : outbox[e].state = "published"}

\* The initial state is the initial state of the audit log.
LEMMA InitRefines == Init => Log!Init
BY DEF Init, Log!Init, Rows, NoRow, NoObject

\* Every step is a step of the audit log, or changes nothing of it.
LEMMA NextRefines == Inv /\ [Next]_vars => [Log!Next]_(Log!vars)
<1> DEFINE Together == {{n} : n \in Transaction} \cup {{n, BaseEvent(n)} : n \in Transaction}
           Commits(t) == /\ t \cap Rows = {} /\ Rows' = Rows \cup t
                         /\ Visible' = Visible /\ Acknowledged' = Acknowledged
           Reveals(e) == /\ e \in Rows \ Visible /\ Visible' = Visible \cup {e}
                         /\ Rows' = Rows /\ Acknowledged' = Acknowledged
           Acknowledges(e) == /\ e \in Visible \ Acknowledged
                              /\ Acknowledged' = Acknowledged \cup {e}
                              /\ Rows' = Rows /\ Visible' = Visible
           Stutters == Rows' = Rows /\ Visible' = Visible /\ Acknowledged' = Acknowledged
           Mapped == \/ Stutters
                     \/ \E t \in Together : Commits(t)
                     \/ \E e \in Event : Reveals(e) \/ Acknowledges(e)
<1>1. SUFFICES ASSUME Inv, [Next]_vars PROVE Mapped
  BY DEF Log!Next, Log!Commit, Log!Reveal, Log!Acknowledge, Log!vars, Visible, Acknowledged
<1>2. ASSUME NEW c \in Clients, CommitTx(c) PROVE Mapped
  <2> DEFINE t == Inserts(c)
  <2>1. t \in Together
    BY <1>1, <1>2, TxType DEF Inserts, CommitTx, Inv
  <2>2. t \cap Rows = {} /\ Rows' = Rows \cup t
    BY <1>1, <1>2, InsertsType
  <2>3. Visible' = Visible
    BY <1>2 DEF CommitTx, publisherVars, Visible
  <2>4. \A f \in Event : outbox'[f].state = "published" <=> outbox[f].state = "published"
    BY <1>1, <1>2, InsertsType DEF Rows
  <2>5. Acknowledged' = Acknowledged
    BY <2>4 DEF Acknowledged
  <2> HIDE DEF t, Together
  <2> QED BY <2>1, <2>2, <2>3, <2>5
<1>3. ASSUME NEW c \in Clients, ClientStep(c), ~CommitTx(c) PROVE Mapped
  BY <1>3 DEF ClientStep, Begin, LockKey, CheckPrior, Abort, publisherVars,
              Rows, Visible, Acknowledged
<1>4. ASSUME NEW p \in Publishers, PutCreates(p) PROVE Mapped
  <2> DEFINE e == pub[p].event
  <2>1. e \in Rows /\ e \in Event
    BY <1>1, <1>4, ClaimType DEF PutCreates, Rows
  <2>2. /\ outbox' = outbox /\ store[e].content = "absent" /\ store'[e].content = "own"
        /\ \A f \in Event \ {e} : store'[f] = store[f]
    BY <1>1, <1>4, <2>1 DEF PutCreates, Accepts, Inv, TypeOK
  <2>3. e \notin Visible /\ Visible' = Visible \cup {e}
    BY <2>1, <2>2 DEF Visible
  <2>4. Rows' = Rows /\ Acknowledged' = Acknowledged
    BY <2>2 DEF Rows, Acknowledged
  <2> QED BY <2>1, <2>3, <2>4
<1>5. ASSUME NEW p \in Publishers, Acknowledge(p) PROVE Mapped
  <2> DEFINE e == pub[p].event
  <2>1. e \in Event /\ outbox[e].state = "queued" /\ store[e].content = "own"
    BY <1>1, <1>5, ClaimType DEF Acknowledge, Rows, Inv, PublisherInv, SeenBeforeAck
  <2>2. /\ outbox'[e].state = "published" /\ store' = store
        /\ \A f \in Event \ {e} : outbox'[f].state = outbox[f].state
    BY <1>1, <1>5, <2>1, FinishStates DEF Acknowledge
  <2>3. e \in Visible \ Acknowledged /\ Acknowledged' = Acknowledged \cup {e}
    BY <2>1, <2>2 DEF Visible, Acknowledged
  <2>4. Rows' = Rows /\ Visible' = Visible
    BY <2>1, <2>2 DEF Rows, Visible
  <2> QED BY <2>1, <2>3, <2>4
<1>6. ASSUME NEW p \in Publishers, Reschedule(p) PROVE Mapped
  <2> DEFINE e == pub[p].event
  <2>1. e \in Event /\ outbox[e].state = "queued"
    BY <1>1, <1>6, ClaimType DEF Reschedule, Rows
  <2>2. store' = store /\ \A f \in Event : outbox'[f].state = outbox[f].state
    BY <1>1, <1>6, <2>1, FinishStates DEF Reschedule
  <2> QED BY <2>2 DEF Rows, Visible, Acknowledged
<1>7. ASSUME NEW p \in Publishers, Sleep(p) PROVE Mapped
  <2>1. store' = store /\ \A f \in Event : outbox'[f].state = outbox[f].state
    BY <1>1, <1>7, ElapsedType DEF Sleep, publisherVars, Inv, TypeOK
  <2> QED BY <2>1 DEF Rows, Visible, Acknowledged
<1>8. ASSUME NEW p \in Publishers,
             Claim(p) \/ PutRefused(p) \/ Head(p) \/ CallFails(p) \/ Crash(p)
      PROVE  Mapped
  BY <1>8 DEF Claim, PutRefused, Head, CallFails, Crash, Rows, Visible, Acknowledged
<1>9. CASE StoreDown \/ StoreBack
  BY <1>9 DEF StoreDown, StoreBack, Rows, Visible, Acknowledged
<1>10. ASSUME NEW e \in Event, ForeignPut(e) PROVE Mapped
  <2>1. outbox' = outbox /\ \A f \in Event : store'[f].content = "own" <=> store[f].content = "own"
    BY <1>1, <1>10 DEF ForeignPut, Inv, TypeOK
  <2> QED BY <2>1 DEF Rows, Visible, Acknowledged
<1>11. CASE UNCHANGED vars
  BY <1>11 DEF vars, Rows, Visible, Acknowledged
<1> HIDE DEF Mapped
<1> QED
  BY <1>1, <1>2, <1>3, <1>4, <1>5, <1>6, <1>7, <1>8, <1>9, <1>10, <1>11 DEF Next, PublisherStep

\* Commitment, publication and acknowledgment of governance events behave as
\* the abstract audit log says.
THEOREM OutboxImplementsAuditLog == Spec => AuditLogSpec
<1>1. Init => Log!Init
  BY InitRefines
<1>2. Inv /\ [Next]_vars => [Log!Next]_(Log!vars)
  BY NextRefines
<1> QED BY <1>1, <1>2, InvHolds, PTL DEF Spec, AuditLogSpec, Log!Spec
=============================================================================
