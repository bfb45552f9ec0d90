--------------------------- MODULE KnowledgeProofs ---------------------------
(***************************************************************************)
(* Proofs about module Knowledge, for any sets of documents, messages and  *)
(* callers and any number of transactions.                                 *)
(***************************************************************************)
EXTENDS Knowledge, TLAPS

-----------------------------------------------------------------------------
(***************************************************************************)
(* Type correctness.                                                       *)
(***************************************************************************)
LEMMA InitType == Init => TypeOK
BY ConstantsAssumption DEF Init, TypeOK, NoDocument, Document, Targets, NoTx

\* A transaction under way is a transaction.
LEMMA BusyType ==
  ASSUME TypeOK, NEW a \in Slots, Busy(a)
  PROVE  tx[a] \in Transaction
BY DEF TypeOK, Busy, NoTx

LEMMA SetType ==
  ASSUME TypeOK, NEW d \in Docs, NEW state \in Targets, NEW now \in Nat
  PROVE  /\ Set(d, state, now) \in Document
         /\ Set(d, state, now).state = state /\ Set(d, state, now).rev = now
         /\ Set(d, state, now).base = doc[d].base /\ Set(d, state, now).baseRev = doc[d].baseRev
BY DEF TypeOK, Set, Document

LEMMA BeginType ==
  ASSUME TypeOK, NEW a \in Slots, NEW kind \in Commits, NEW d \in Docs, NEW target \in Targets,
         Begin(a, kind, d, target)
  PROVE  TypeOK'
<1>1. ops' \in 0..MaxOps
  BY ConstantsAssumption DEF Begin, Charge, TypeOK
<1>2. doc[d] \in Version
  BY DEF Begin, Exists, TypeOK, Version
<1>4. tx' \in [Slots -> Transaction \cup {NoTx}]
  BY <1>2 DEF Begin, TypeOK, Transaction, Commits
<1>3. clock' \in Nat
  BY DEF Begin, TypeOK
<1> QED BY <1>1, <1>3, <1>4 DEF Begin, TypeOK

LEMMA DraftType ==
  ASSUME TypeOK, NEW a \in Slots, NEW kind \in Ingests, NEW d \in Docs, NEW content \in Version,
         Draft(a, kind, d, content)
  PROVE  TypeOK'
<1>1. ops' \in 0..MaxOps
  BY ConstantsAssumption DEF Draft, Charge, TypeOK
<1>2. tx' \in [Slots -> Transaction \cup {NoTx}]
  BY DEF Draft, TypeOK, Transaction, Ingests, Commits, Targets
<1> QED BY <1>1, <1>2 DEF Draft, TypeOK

\* What is drafted is a document.
LEMMA ProposalType ==
  ASSUME NEW base \in Docs \cup {NoDoc}, NEW baseRev \in Nat,
         NEW deps \in SUBSET Ref, NEW evidence \in SUBSET Messages
  PROVE  Proposal(base, baseRev, deps, evidence) \in Version
BY DEF Proposal, Version, Document, Targets

LEMMA CallType == ASSUME TypeOK, NEW a \in Actors, Call(a) PROVE TypeOK'
<1>1. a \in Slots
  BY DEF Slots
<1>2. ASSUME NEW d \in Docs, NEW b \in Docs, NEW m \in Messages, Revise(a, d, b, m) PROVE TypeOK'
  <2>1. doc[b].rev \in Nat /\ doc[b].deps \in SUBSET Ref /\ doc[b].evidence \in SUBSET Messages
    BY DEF TypeOK, Document
  <2>2. Proposal(b, doc[b].rev, doc[b].deps, doc[b].evidence \cup {m}) \in Version
    BY <2>1, ProposalType
  <2> QED BY <1>1, <1>2, <2>2, DraftType DEF Revise, Ingests
<1>3. ASSUME NEW d \in Docs, NEW cited \in SUBSET Docs, NEW m \in Messages, Save(a, d, cited, m)
      PROVE  TypeOK'
  <2> DEFINE deps == {[id |-> s, rev |-> doc[s].rev] : s \in cited}
  <2>1. deps \in SUBSET Ref
    BY DEF TypeOK, Document, Ref
  <2> HIDE DEF deps
  <2>2. Proposal(NoDoc, 0, deps, {m}) \in Version
    BY <2>1, ProposalType
  <2> USE DEF deps
  <2> QED BY <1>1, <1>3, <2>2, DraftType DEF Save, Ingests
<1>4. ASSUME NEW d \in Docs, Promote(a, d) PROVE TypeOK'
  <2>1. Proposal(NoDoc, 0, {}, {}) \in Version
    BY ProposalType
  <2> QED BY <1>1, <1>4, <2>1, DraftType DEF Promote, Ingests
<1>5. ASSUME NEW d \in Docs, NEW m \in Messages, Topic(a, d, m) PROVE TypeOK'
  <2>1. Proposal(NoDoc, 0, {}, {m}) \in Version
    BY ProposalType
  <2> QED BY <1>1, <1>5, <2>1, DraftType DEF Topic, Ingests
<1>6. ASSUME NEW d \in Docs, NEW target \in Asked, Review(a, d, target) \/ Transition(a, d, target)
      PROVE  TypeOK'
  <2>1. target \in Targets
    BY ConstantsAssumption DEF Targets
  <2> QED BY <1>1, <1>6, <2>1, BeginType DEF Review, Transition, Commits
<1> QED BY <1>2, <1>3, <1>4, <1>5, <1>6 DEF Call

LEMMA CompleteType == ASSUME TypeOK, NEW a \in Slots, Complete(a) PROVE TypeOK'
<1>1. CASE OpenIngest(a)
  <2>1. tx[a] \in Transaction /\ clock + 1 \in Nat
    BY <1>1, BusyType DEF OpenIngest, TypeOK
  <2> QED BY <1>1, <2>1 DEF OpenIngest, TypeOK, Transaction
<1>2. CASE CommitIngest(a)
  <2>1. tx[a] \in Transaction
    BY <1>2, BusyType DEF CommitIngest
  <2>2. Upserted(a) \in Document
    <3>1. tx[a].doc \in Docs /\ tx[a].now \in Nat /\ tx[a].seen \in Document
      BY <2>1 DEF Transaction, Version
    <3>2. CASE ~Exists(tx[a].doc)
      BY <3>1, <3>2 DEF Upserted, Document
    <3>3. CASE Exists(tx[a].doc)
      <4>1. doc[tx[a].doc].state \in Targets
        BY <3>1, <3>3 DEF Exists, TypeOK, Document
      <4> QED BY <3>1, <3>3, <4>1, SetType DEF Upserted, Targets
    <3> QED BY <3>2, <3>3
  <2> QED BY <1>2, <2>2 DEF CommitIngest, TypeOK
<1>3. CASE CommitGovernance(a)
  <2>1. tx[a] \in Transaction /\ tx[a].doc \in Docs /\ tx[a].target \in Targets /\ tx[a].now \in Nat
    BY <1>3, BusyType DEF CommitGovernance, Transaction
  <2>2. \A x \in Docs : /\ Set(x, tx[a].target, tx[a].now) \in Document
                        /\ Set(x, "superseded", tx[a].now) \in Document
    BY <2>1, SetType DEF Targets
  <2>3. doc' \in [Docs -> Document]
    BY <1>3, <2>2 DEF CommitGovernance, TypeOK
  <2>4. \A x \in Recorded(a) \cap Docs : doc'[x].state \in Targets
    BY <1>3, <2>1 DEF CommitGovernance, Recorded, Set, Targets, TypeOK, Document
  <2>5. audited' \in [Docs -> Targets \cup {"none"}]
    BY <1>3, <2>4 DEF CommitGovernance, TypeOK
  <2>6. approvals' \in Nat /\ approvedAt' \in [Docs -> Nat]
    BY <1>3 DEF CommitGovernance, TypeOK
  <2> QED BY <1>3, <2>3, <2>5, <2>6 DEF CommitGovernance, TypeOK
<1>4. CASE Refuse(a)
  BY <1>4 DEF Refuse, TypeOK
<1> QED BY <1>1, <1>2, <1>3, <1>4 DEF Complete

\* Every step keeps the type invariant.
LEMMA NextType == TypeOK /\ [Next]_vars => TypeOK'
<1> SUFFICES ASSUME TypeOK, [Next]_vars PROVE TypeOK'
  OBVIOUS
<1>1. ASSUME NEW a \in Actors, Call(a) \/ Complete(a) PROVE TypeOK'
  BY <1>1, CallType, CompleteType DEF Slots
<1>2. CASE WorkerStep
  <2>1. ASSUME NEW d \in Docs, Withdraw(d) PROVE TypeOK'
    BY <2>1, BeginType DEF Withdraw, Slots, Commits, Targets
  <2> QED BY <1>2, <2>1, CompleteType DEF WorkerStep, Slots
<1>3. ASSUME NEW m \in Messages, DeleteMessage(m) PROVE TypeOK'
  BY <1>3 DEF DeleteMessage, TypeOK
<1>4. CASE UNCHANGED vars
  BY <1>4 DEF vars, TypeOK
<1> QED BY <1>1, <1>2, <1>3, <1>4 DEF Next

\* The type invariant holds in every behaviour.
THEOREM TypeCorrect == Spec => []TypeOK
BY InitType, NextType, PTL DEF Spec

-----------------------------------------------------------------------------
(***************************************************************************)
(* The inductive invariant.  A commit moves a document to the time at      *)
(* which its transaction began.  That never brings back a revision some    *)
(* proposal was written against, because the time of a transaction under   *)
(* way is shared by no other transaction, no document and no proposal:     *)
(* whoever read a revision read it after the transaction that wrote it had *)
(* begun, and saw either that time, already spent, or an earlier one.      *)
(***************************************************************************)
Begun(a) == Busy(a) /\ tx[a].stage = "begun"

\* Revisions and transaction times lie in the past.
PastTimes ==
  /\ \A d \in Docs : doc[d].rev <= clock /\ doc[d].baseRev <= clock
  /\ \A a \in Slots : Busy(a) => tx[a].seen.rev <= clock /\ tx[a].seen.baseRev <= clock
  /\ \A a \in Slots : Begun(a) => tx[a].now \in 1..clock

\* The time of a transaction under way is its own.
TimesApart ==
  /\ \A a, b \in Slots : Begun(a) /\ Begun(b) /\ tx[a].now = tx[b].now => a = b
  /\ \A a \in Slots, d \in Docs : Begun(a) => doc[d].rev # tx[a].now /\ doc[d].baseRev # tx[a].now
  /\ \A a, b \in Slots : Begun(a) /\ Busy(b) =>
       tx[b].seen.rev # tx[a].now /\ tx[b].seen.baseRev # tx[a].now

\* A document still at the revision a caller has seen is what the caller saw.
SeenCurrent ==
  \A a \in Slots :
    /\ Busy(a)
    /\ tx[a].kind \in Commits
    /\ doc[tx[a].doc].rev = tx[a].seen.rev
    => doc[tx[a].doc] = tx[a].seen

\* Only documents that exist have been approved.
ApprovedExist == \A d \in Docs : approvedAt[d] > 0 => Exists(d)

Inv ==
  /\ TypeOK
  /\ PastTimes
  /\ TimesApart
  /\ SeenCurrent
  /\ ApprovedExist
  /\ BaseRetired
  /\ OneWinner

LEMMA InitInv == Init => Inv
<1> SUFFICES ASSUME Init PROVE Inv
  OBVIOUS
<1>1. TypeOK
  BY InitType
<1>2. \A d \in Docs : doc[d].rev = 0 /\ doc[d].baseRev = 0 /\ doc[d].base = NoDoc
  BY DEF Init, NoDocument
<1>3. \A a \in Slots : ~Busy(a)
  BY DEF Init, Busy, NoTx
<1>4. PastTimes /\ TimesApart
  BY <1>2, <1>3 DEF Init, PastTimes, TimesApart, Begun
<1>5. SeenCurrent
  BY <1>3 DEF SeenCurrent
<1>6. ApprovedExist /\ BaseRetired /\ OneWinner
  BY DEF Init, ApprovedExist, BaseRetired, OneWinner
<1> QED BY <1>1, <1>4, <1>5, <1>6 DEF Inv

\* Times and revisions are numbers.
LEMMA NumberTypes ==
  ASSUME TypeOK
  PROVE  /\ clock \in Nat
         /\ \A d \in Docs : doc[d].rev \in Nat /\ doc[d].baseRev \in Nat
         /\ \A d \in Docs : approvedAt[d] \in Nat
         /\ \A a \in Slots : Busy(a) =>
              /\ tx[a].now \in Nat /\ tx[a].doc \in Docs
              /\ tx[a].seen.rev \in Nat /\ tx[a].seen.baseRev \in Nat
BY BusyType DEF TypeOK, Document, Transaction, Version

\* A step that leaves documents and approvals alone keeps what is said of them.
LEMMA DocumentsUndisturbed ==
  ASSUME Inv, UNCHANGED <<doc, approvedAt>>
  PROVE  ApprovedExist' /\ BaseRetired' /\ OneWinner'
BY DEF Inv, ApprovedExist, Exists, BaseRetired, OneWinner

\* Beginning a transaction, or opening that of an ingestion, takes a new time.
LEMMA NewTime ==
  ASSUME Inv, TypeOK', NEW a \in Slots, UNCHANGED <<doc, approvedAt>>,
         clock' = clock + 1,
         tx'[a].now = clock + 1,
         tx'[a].seen.rev \in 0..clock, tx'[a].seen.baseRev \in 0..clock,
         tx'[a].kind \in Commits => tx'[a].seen = doc[tx'[a].doc],
         \A b \in Slots \ {a} :
           /\ tx'[b] = tx[b]
           /\ Begun(b) => tx'[a].seen.rev # tx[b].now /\ tx'[a].seen.baseRev # tx[b].now
  PROVE  Inv'
<1>1. \A b \in Slots \ {a} : (Begun(b)' <=> Begun(b)) /\ (Busy(b)' <=> Busy(b))
  BY DEF Begun, Busy
<1>2. PastTimes'
  BY <1>1, NumberTypes DEF Inv, PastTimes, Begun, Busy
<1>3. ASSUME NEW b \in Slots, NEW c \in Slots, Begun(b)', Begun(c)', tx'[b].now = tx'[c].now
      PROVE  b = c
  BY <1>1, <1>3, NumberTypes DEF Inv, PastTimes, TimesApart, Begun
<1>4. ASSUME NEW b \in Slots, NEW d \in Docs, Begun(b)'
      PROVE  doc'[d].rev # tx'[b].now /\ doc'[d].baseRev # tx'[b].now
  BY <1>1, <1>4, NumberTypes DEF Inv, PastTimes, TimesApart
<1>5. ASSUME NEW b \in Slots, NEW c \in Slots, Begun(b)', Busy(c)'
      PROVE  tx'[c].seen.rev # tx'[b].now /\ tx'[c].seen.baseRev # tx'[b].now
  <2>1. CASE b = a
    BY <1>1, <1>5, <2>1, NumberTypes DEF Inv, PastTimes
  <2>2. CASE b # a /\ c # a
    BY <1>1, <1>5, <2>2 DEF Inv, TimesApart
  <2>3. CASE b # a /\ c = a
    BY <1>1, <1>5, <2>3
  <2> QED BY <2>1, <2>2, <2>3
<1>6. TimesApart'
  BY <1>3, <1>4, <1>5 DEF TimesApart
<1>7. SeenCurrent'
  BY <1>1 DEF Inv, SeenCurrent
<1> QED BY <1>2, <1>6, <1>7, DocumentsUndisturbed DEF Inv

LEMMA BeginInv ==
  ASSUME Inv, TypeOK', NEW a \in Slots, NEW kind, NEW d \in Docs, NEW target,
         Begin(a, kind, d, target)
  PROVE  Inv'
<1>1. /\ tx'[a].now = clock + 1 /\ tx'[a].seen = doc[d] /\ tx'[a].doc = d
      /\ \A b \in Slots \ {a} : tx'[b] = tx[b]
  BY DEF Begin, Inv, TypeOK
<1>2. doc[d].rev \in 0..clock /\ doc[d].baseRev \in 0..clock
  BY NumberTypes DEF Inv, PastTimes
<1>3. \A b \in Slots : Begun(b) => doc[d].rev # tx[b].now /\ doc[d].baseRev # tx[b].now
  BY DEF Inv, TimesApart
<1> QED BY <1>1, <1>2, <1>3, NewTime DEF Begin

LEMMA DraftInv ==
  ASSUME Inv, TypeOK', NEW a \in Slots, NEW kind \in Ingests, NEW d, NEW content,
         Draft(a, kind, d, content),
         content.rev = 0, content.baseRev \in 0..clock,
         \A b \in Slots : Begun(b) => content.baseRev # tx[b].now
  PROVE  Inv'
<1>1. /\ tx'[a].seen = content /\ tx'[a].stage = "drafted" /\ tx'[a].kind \notin Commits
      /\ \A b \in Slots \ {a} : tx'[b] = tx[b]
      /\ UNCHANGED <<doc, approvedAt, clock>>
  BY DEF Draft, Inv, TypeOK, Ingests, Commits
<1>2. ~Begun(a)' /\ \A b \in Slots \ {a} : (Begun(b)' <=> Begun(b)) /\ (Busy(b)' <=> Busy(b))
  BY <1>1 DEF Begun, Busy
<1>3. PastTimes'
  BY <1>1, <1>2, NumberTypes DEF Inv, PastTimes
<1>4. TimesApart'
  BY <1>1, <1>2, NumberTypes DEF Inv, TimesApart, PastTimes
<1>5. SeenCurrent'
  BY <1>1, <1>2 DEF Inv, SeenCurrent
<1> QED BY <1>1, <1>3, <1>4, <1>5, DocumentsUndisturbed DEF Inv

LEMMA CallInv == ASSUME Inv, TypeOK', NEW a \in Actors, Call(a) PROVE Inv'
<1>1. a \in Slots
  BY DEF Slots
<1>2. ASSUME NEW d \in Docs, NEW b \in Docs, NEW m \in Messages, Revise(a, d, b, m) PROVE Inv'
  <2>1. doc[b].rev \in 0..clock /\ \A c \in Slots : Begun(c) => doc[b].rev # tx[c].now
    BY NumberTypes DEF Inv, PastTimes, TimesApart
  <2> QED BY <1>1, <1>2, <2>1, DraftInv DEF Revise, Proposal, Ingests
<1>3. 0 \in 0..clock /\ \A c \in Slots : Begun(c) => 0 # tx[c].now
  BY NumberTypes DEF Inv, PastTimes
<1>4. ASSUME NEW d \in Docs, NEW cited \in SUBSET Docs, NEW m \in Messages, Save(a, d, cited, m)
      PROVE  Inv'
  BY <1>1, <1>3, <1>4, DraftInv DEF Save, Proposal, Ingests
<1>5. ASSUME NEW d \in Docs, Promote(a, d) PROVE Inv'
  BY <1>1, <1>3, <1>5, DraftInv DEF Promote, Proposal, Ingests
<1>6. ASSUME NEW d \in Docs, NEW m \in Messages, Topic(a, d, m) PROVE Inv'
  BY <1>1, <1>3, <1>6, DraftInv DEF Topic, Proposal, Ingests
<1>7. ASSUME NEW d \in Docs, NEW target \in Asked, Review(a, d, target) \/ Transition(a, d, target)
      PROVE  Inv'
  BY <1>1, <1>7, BeginInv DEF Review, Transition
<1> QED BY <1>2, <1>4, <1>5, <1>6, <1>7 DEF Call

LEMMA OpenIngestInv == ASSUME Inv, TypeOK', NEW a \in Slots, OpenIngest(a) PROVE Inv'
<1>1. tx[a] \in Transaction /\ Busy(a)
  BY BusyType DEF OpenIngest, Inv
<1>2. /\ tx'[a].now = clock + 1 /\ tx'[a].seen = tx[a].seen /\ tx'[a].kind \notin Commits
      /\ \A b \in Slots \ {a} : tx'[b] = tx[b]
  BY <1>1 DEF OpenIngest, Inv, TypeOK, Transaction
<1>3. /\ tx[a].seen.rev \in 0..clock /\ tx[a].seen.baseRev \in 0..clock
      /\ \A b \in Slots : Begun(b) =>
           tx[a].seen.rev # tx[b].now /\ tx[a].seen.baseRev # tx[b].now
  BY <1>1, NumberTypes DEF Inv, PastTimes, TimesApart
<1>4. \A b \in Slots \ {a} :
        Begun(b) => tx'[a].seen.rev # tx[b].now /\ tx'[a].seen.baseRev # tx[b].now
  BY <1>2, <1>3
<1>5. tx'[a].seen.rev \in 0..clock /\ tx'[a].seen.baseRev \in 0..clock
  BY <1>2, <1>3
<1>6. doc' = doc /\ approvedAt' = approvedAt /\ clock' = clock + 1
  BY DEF OpenIngest
<1> QED BY <1>2, <1>4, <1>5, <1>6, NewTime

\* A transaction that ends, and moves some documents to its own time or to the
\* base revision it was drafted with, keeps times apart.
LEMMA EndTime ==
  ASSUME Inv, TypeOK', NEW a \in Slots, Begun(a), clock' = clock, tx' = [tx EXCEPT ![a] = NoTx],
         \A d \in Docs : /\ doc'[d] = doc[d] \/ doc'[d].rev = tx[a].now
                        /\ doc'[d].baseRev \in {doc[d].baseRev, tx[a].seen.baseRev}
  PROVE  PastTimes' /\ TimesApart' /\ SeenCurrent'
<1>1. /\ Busy(a) /\ ~Busy(a)' /\ ~Begun(a)'
      /\ \A b \in Slots \ {a} :
           tx'[b] = tx[b] /\ (Begun(b)' <=> Begun(b)) /\ (Busy(b)' <=> Busy(b))
  BY DEF Begun, Busy, NoTx, Inv, TypeOK
<1>2. PastTimes'
  BY <1>1, NumberTypes DEF Inv, PastTimes
<1>3. ASSUME NEW b \in Slots, NEW d \in Docs, Begun(b)'
      PROVE  doc'[d].rev # tx'[b].now /\ doc'[d].baseRev # tx'[b].now
  BY <1>1, <1>3 DEF Inv, TimesApart
<1>4. TimesApart'
  BY <1>1, <1>3 DEF Inv, TimesApart
<1>5. SeenCurrent'
  BY <1>1, NumberTypes DEF Inv, TimesApart, SeenCurrent
<1> QED BY <1>2, <1>4, <1>5

\* Moving documents to the time of a transaction under way leaves every base
\* retired that was: the revision a proposal was written against is not that time.
LEMMA StaysRetired ==
  ASSUME Inv, NEW a \in Slots, Begun(a),
         \A d \in Docs : doc'[d].rev = doc[d].rev \/ doc'[d].rev = tx[a].now,
         NEW p \in Docs, approvedAt[p] > 0, doc[p].base # NoDoc,
         doc'[p].base = doc[p].base, doc'[p].baseRev = doc[p].baseRev
  PROVE  doc'[doc'[p].base].rev # doc'[p].baseRev
<1>1. doc[p].base \in Docs
  BY DEF Inv, TypeOK, Document
<1>2. doc[doc[p].base].rev # doc[p].baseRev
  BY DEF Inv, BaseRetired
<1>3. doc[p].baseRev # tx[a].now
  BY DEF Inv, TimesApart
<1> QED BY <1>1, <1>2, <1>3

LEMMA CommitIngestInv == ASSUME Inv, TypeOK', NEW a \in Slots, CommitIngest(a) PROVE Inv'
<1> DEFINE d == tx[a].doc
<1>1. tx[a] \in Transaction /\ Begun(a) /\ Busy(a) /\ d \in Docs
  BY BusyType DEF CommitIngest, Inv, Begun, Transaction
<1>2. \A x \in Docs : doc'[x] = IF x = d THEN Upserted(a) ELSE doc[x]
  BY <1>1 DEF CommitIngest, Inv, TypeOK
<1>3. /\ Upserted(a).rev = tx[a].now /\ Upserted(a).state # "absent"
      /\ Exists(d) => Upserted(a).base = doc[d].base /\ Upserted(a).baseRev = doc[d].baseRev
      /\ ~Exists(d) => Upserted(a).baseRev = tx[a].seen.baseRev
  <2>1. CASE Exists(d)
    BY <1>1, <2>1 DEF Upserted, Set, Exists, Inv, TypeOK, Document
  <2>2. CASE ~Exists(d)
    <3>1. Upserted(a) = [tx[a].seen EXCEPT !.rev = tx[a].now] /\ tx[a].seen \in Version
      BY <1>1, <2>2 DEF Upserted, Transaction
    <3> QED BY <2>2, <3>1 DEF Version, Document
  <2> QED BY <2>1, <2>2
<1>4. \A x \in Docs : approvedAt[x] > 0 => doc'[x].base = doc[x].base /\ doc'[x].baseRev = doc[x].baseRev
  BY <1>2, <1>3 DEF Inv, ApprovedExist
<1>5. \A x \in Docs : /\ doc'[x] = doc[x] \/ doc'[x].rev = tx[a].now
                      /\ doc'[x].baseRev \in {doc[x].baseRev, tx[a].seen.baseRev}
  BY <1>2, <1>3
<1>6. PastTimes' /\ TimesApart' /\ SeenCurrent'
  BY <1>1, <1>5, EndTime DEF CommitIngest
<1>7. approvedAt' = approvedAt
  BY DEF CommitIngest
<1>8. ApprovedExist'
  BY <1>2, <1>3, <1>7 DEF Inv, ApprovedExist, Exists
<1>9. OneWinner'
  BY <1>4, <1>7 DEF Inv, OneWinner
<1>10. BaseRetired'
  <2> SUFFICES ASSUME NEW p \in Docs, approvedAt[p] > 0, doc'[p].base # NoDoc
               PROVE  doc'[doc'[p].base].rev # doc'[p].baseRev
    BY <1>7 DEF BaseRetired
  <2> QED BY <1>1, <1>4, <1>5, StaysRetired
<1> QED BY <1>6, <1>8, <1>9, <1>10 DEF Inv

LEMMA CommitGovernanceInv ==
  ASSUME Inv, TypeOK', NEW a \in Slots, CommitGovernance(a)
  PROVE  Inv'
<1> DEFINE d == tx[a].doc
<1>1. tx[a] \in Transaction /\ Begun(a) /\ d \in Docs
  BY BusyType DEF CommitGovernance, Inv, Begun, Transaction, Ingests, Commits
<1>2. \A x \in Docs : /\ doc'[x].base = doc[x].base /\ doc'[x].baseRev = doc[x].baseRev
                      /\ doc'[x].rev = IF x = d \/ x \in Retired(a) THEN tx[a].now ELSE doc[x].rev
                      /\ x = d \/ x \in Retired(a) \/ doc'[x] = doc[x]
                      /\ doc'[x].state \in Targets \/ (x # d /\ doc'[x].state = doc[x].state)
  <2>1. ASSUME NEW x \in Docs, NEW state \in Targets
        PROVE  /\ Set(x, state, tx[a].now).state = state
               /\ Set(x, state, tx[a].now).base = doc[x].base
               /\ Set(x, state, tx[a].now).baseRev = doc[x].baseRev
               /\ Set(x, state, tx[a].now).rev = tx[a].now
    BY <1>1, SetType DEF Inv, Transaction
  <2>2. tx[a].target \in Targets /\ "superseded" \in Targets
    BY <1>1 DEF Transaction, Targets
  <2>3. ASSUME NEW x \in Docs
        PROVE  doc'[x] = IF x = d THEN Set(d, tx[a].target, tx[a].now)
                         ELSE IF x \in Retired(a) THEN Set(x, "superseded", tx[a].now)
                         ELSE doc[x]
    BY DEF CommitGovernance
  <2> QED BY <1>1, <2>1, <2>2, <2>3
<1>3. PastTimes' /\ TimesApart' /\ SeenCurrent'
  BY <1>1, <1>2, EndTime DEF CommitGovernance
<1>4. ASSUME Approves(a), doc[d].base # NoDoc
      PROVE  /\ doc'[doc[d].base].rev # doc[d].baseRev
             /\ \A p \in Docs : approvedAt[p] > 0 =>
                  ~(doc[p].base = doc[d].base /\ doc[p].baseRev = doc[d].baseRev)
  <2>1. [id |-> doc[d].base, rev |-> doc[d].baseRev] \in Requires(d)
    BY <1>4 DEF Requires
  <2>2. DependenciesHold(d)
    BY <1>4, <2>1 DEF CommitGovernance, Allowed, Approves
  <2>3. doc[doc[d].base].rev = doc[d].baseRev
    BY <2>1, <2>2 DEF DependenciesHold
  <2>4. doc[d].base \in Retired(a) /\ doc[d].base \in Docs
    BY <1>1, <1>4 DEF Retired, Inv, TypeOK, Document
  <2>5. doc'[doc[d].base].rev # doc[d].baseRev
    BY <1>1, <1>2, <2>4 DEF Inv, TimesApart
  <2>6. \A p \in Docs : approvedAt[p] > 0 =>
          ~(doc[p].base = doc[d].base /\ doc[p].baseRev = doc[d].baseRev)
    BY <1>4, <2>3 DEF Inv, BaseRetired
  <2> QED BY <2>5, <2>6
<1>5. \A x \in Docs : approvedAt'[x] > 0 => approvedAt[x] > 0 \/ (x = d /\ Approves(a))
  <2>1. CASE Approves(a)
    BY <1>1, <2>1 DEF CommitGovernance, Inv, TypeOK
  <2>2. CASE ~Approves(a)
    BY <2>2 DEF CommitGovernance
  <2> QED BY <2>1, <2>2
<1>6. ApprovedExist'
  BY <1>1, <1>2, <1>5 DEF Inv, ApprovedExist, Exists, Targets
<1>7. BaseRetired'
  <2> SUFFICES ASSUME NEW p \in Docs, approvedAt'[p] > 0, doc'[p].base # NoDoc
               PROVE  doc'[doc'[p].base].rev # doc'[p].baseRev
    BY DEF BaseRetired
  <2>1. CASE approvedAt[p] > 0
    BY <1>1, <1>2, <2>1, StaysRetired
  <2>2. CASE p = d /\ Approves(a)
    BY <1>1, <1>2, <1>4, <2>2
  <2> QED BY <1>5, <2>1, <2>2
<1>8. OneWinner'
  <2> SUFFICES ASSUME NEW p \in Docs, NEW q \in Docs, approvedAt'[p] > 0, approvedAt'[q] > 0,
                      doc[p].base # NoDoc, doc[p].base = doc[q].base, doc[p].baseRev = doc[q].baseRev
               PROVE  p = q
    BY <1>2 DEF OneWinner
  <2>1. CASE approvedAt[p] > 0 /\ approvedAt[q] > 0
    BY <2>1 DEF Inv, OneWinner
  <2>2. CASE ~(approvedAt[p] > 0) \/ ~(approvedAt[q] > 0)
    BY <1>4, <1>5, <2>2
  <2> QED BY <2>1, <2>2
<1> QED BY <1>3, <1>6, <1>7, <1>8 DEF Inv

\* Every step keeps the invariant.
LEMMA NextInv == Inv /\ [Next]_vars => Inv'
<1> SUFFICES ASSUME Inv, [Next]_vars PROVE Inv'
  OBVIOUS
<1>1. TypeOK'
  BY NextType DEF Inv
<1>2. ASSUME NEW a \in Slots, Complete(a) PROVE Inv'
  <2>1. CASE Refuse(a)
    <3>1. Begun(a)
      BY <2>1, BusyType DEF Refuse, Begun, Inv, Transaction
    <3>2. PastTimes' /\ TimesApart' /\ SeenCurrent'
      BY <1>1, <2>1, <3>1, EndTime DEF Refuse
    <3> QED BY <1>1, <2>1, <3>2, DocumentsUndisturbed DEF Refuse, Inv
  <2> QED BY <1>1, <1>2, <2>1, OpenIngestInv, CommitIngestInv, CommitGovernanceInv DEF Complete
<1>3. ASSUME NEW a \in Actors, Call(a) \/ Complete(a) PROVE Inv'
  BY <1>1, <1>2, <1>3, CallInv DEF Slots
<1>4. CASE WorkerStep
  BY <1>1, <1>2, <1>4, BeginInv DEF WorkerStep, Withdraw, Slots
<1>5. CASE UNCHANGED vars \/ \E m \in Messages : DeleteMessage(m)
  <2>1. UNCHANGED <<doc, tx, clock, approvedAt>>
    BY <1>5 DEF vars, DeleteMessage
  <2>2. PastTimes' /\ TimesApart' /\ SeenCurrent'
    BY <2>1 DEF Inv, PastTimes, TimesApart, SeenCurrent, Busy, Begun
  <2> QED BY <1>1, <2>1, <2>2, DocumentsUndisturbed DEF Inv
<1> QED BY <1>3, <1>4, <1>5 DEF Next

LEMMA InvHolds == Spec => []Inv
BY InitInv, NextInv, PTL DEF Spec

\* The revision an approved document replaced never comes back.
THEOREM BasesStayRetired == Spec => []BaseRetired
<1>1. Inv => BaseRetired
  BY DEF Inv
<1> QED BY <1>1, InvHolds, PTL

\* At most one of the competing revisions of a document is ever approved.
THEOREM CompetitionHasOneWinner == Spec => []OneWinner
<1>1. Inv => OneWinner
  BY DEF Inv
<1> QED BY <1>1, InvHolds, PTL

\* A review or a withdrawal is applied to the very document its author saw.
THEOREM ReviewsApplyToWhatWasSeen == Spec => ReviewedAsSeen
<1>1. Inv => \A a \in Slots :
        Busy(a) /\ tx[a].kind \in {"review", "withdraw"} /\ CommitGovernance(a)
          => doc[tx[a].doc] = tx[a].seen
  BY DEF Inv, SeenCurrent, CommitGovernance, Allowed, Unchanged
<1> QED BY <1>1, InvHolds, PTL DEF ReviewedAsSeen

-----------------------------------------------------------------------------
(***************************************************************************)
(* The audit trail.  Every step but one keeps the last governance event of *)
(* a document true: commit_governance writes an event for each document it *)
(* changes, and an ingestion that meets an existing document leaves its    *)
(* state alone, unless it is a promotion.                                  *)
(***************************************************************************)
PromotesExisting == \E a \in Slots :
  CommitIngest(a) /\ tx[a].kind = "promote" /\ Exists(tx[a].doc)

LEMMA AuditUndisturbed ==
  ASSUME AuditMatches, UNCHANGED audited,
         \A d \in Docs : audited[d] # "none" => doc'[d].state = doc[d].state
  PROVE  AuditMatches'
BY DEF AuditMatches

LEMMA GovernanceIsAudited ==
  ASSUME TypeOK, AuditMatches, NEW a \in Slots, CommitGovernance(a)
  PROVE  AuditMatches'
<1> SUFFICES ASSUME NEW x \in Docs, audited'[x] # "none" PROVE audited'[x] = doc'[x].state
  BY DEF AuditMatches
<1>1. audited'[x] = IF x \in Recorded(a) THEN doc'[x].state ELSE audited[x]
  BY DEF CommitGovernance
<1>2. CASE x \in Recorded(a)
  BY <1>1, <1>2
<1>3. CASE x \notin Recorded(a)
  <2>1. x # tx[a].doc /\ x \notin Retired(a)
    BY <1>3 DEF Recorded
  <2>2. doc'[x] = doc[x]
    BY <2>1 DEF CommitGovernance
  <2> QED BY <1>1, <1>3, <2>2 DEF AuditMatches
<1> QED BY <1>2, <1>3

LEMMA IngestionIsNoDecision ==
  ASSUME TypeOK, AuditMatches, NEW a \in Slots, CommitIngest(a),
         Exists(tx[a].doc) => tx[a].kind # "promote"
  PROVE  AuditMatches'
<1> DEFINE d == tx[a].doc
<1>1. d \in Docs /\ tx[a].now \in Nat
  BY BusyType DEF CommitIngest, Transaction
<1>2. \A x \in Docs : doc'[x] = IF x = d THEN Upserted(a) ELSE doc[x]
  BY <1>1 DEF CommitIngest, TypeOK
<1>3. audited[d] # "none" => Upserted(a).state = doc[d].state
  <2> SUFFICES ASSUME audited[d] # "none" PROVE Upserted(a).state = doc[d].state
    OBVIOUS
  <2>1. doc[d].state \in Targets
    BY <1>1 DEF AuditMatches, TypeOK
  <2>2. Exists(d)
    BY <2>1 DEF Exists, Targets
  <2>3. Upserted(a) = Set(d, doc[d].state, tx[a].now)
    BY <2>2 DEF Upserted
  <2> QED BY <1>1, <2>1, <2>3, SetType
<1> QED BY <1>2, <1>3, AuditUndisturbed DEF CommitIngest

LEMMA AuditStep ==
  ASSUME TypeOK, AuditMatches, [Next]_vars, ~PromotesExisting
  PROVE  AuditMatches'
<1>1. ASSUME UNCHANGED <<doc, audited>> PROVE AuditMatches'
  BY <1>1, AuditUndisturbed
<1>2. ASSUME NEW a \in Actors, Call(a) PROVE AuditMatches'
  BY <1>1, <1>2 DEF Call, Revise, Save, Topic, Promote, Review, Transition, Draft, Begin
<1>3. ASSUME NEW a \in Slots, Complete(a) PROVE AuditMatches'
  <2>1. CASE OpenIngest(a) \/ Refuse(a)
    BY <1>1, <2>1 DEF OpenIngest, Refuse
  <2>2. CASE CommitIngest(a)
    BY <2>2, IngestionIsNoDecision DEF PromotesExisting
  <2>3. CASE CommitGovernance(a)
    BY <2>3, GovernanceIsAudited
  <2> QED BY <1>3, <2>1, <2>2, <2>3 DEF Complete
<1>4. ASSUME NEW d \in Docs, Withdraw(d) PROVE AuditMatches'
  BY <1>1, <1>4 DEF Withdraw, Begin
<1>5. ASSUME NEW m \in Messages, DeleteMessage(m) PROVE AuditMatches'
  BY <1>1, <1>5 DEF DeleteMessage
<1>6. CASE UNCHANGED vars
  BY <1>1, <1>6 DEF vars
<1> QED BY <1>2, <1>3, <1>4, <1>5, <1>6 DEF Next, WorkerStep, Slots

\* The endpoints ingest what they were called for.
IngestsAsked == \A a \in Slots : Busy(a) /\ tx[a].kind \in Ingests => tx[a].kind \in Kinds

LEMMA IngestsAskedStep ==
  ASSUME TypeOK, IngestsAsked, [Next]_vars
  PROVE  IngestsAsked'
<1>1. ASSUME NEW a \in Slots, \A b \in Slots \ {a} : tx'[b] = tx[b],
             tx'[a].kind \in {"none"} \cup Commits \cup Kinds \cup {tx[a].kind}
      PROVE  IngestsAsked'
  BY <1>1 DEF IngestsAsked, Busy, Ingests, Commits
<1>2. ASSUME NEW a \in Actors, Call(a) PROVE IngestsAsked'
  <2>1. a \in Slots
    BY DEF Slots
  <2>2. ASSUME NEW kind \in Ingests, NEW d \in Docs, NEW content, Draft(a, kind, d, content)
        PROVE  IngestsAsked'
    <3>1. tx'[a].kind \in Kinds /\ \A b \in Slots \ {a} : tx'[b] = tx[b]
      BY <2>1, <2>2 DEF Draft, TypeOK
    <3> QED BY <1>1, <2>1, <3>1
  <2>3. ASSUME NEW kind \in Commits, NEW d \in Docs, NEW target, Begin(a, kind, d, target)
        PROVE  IngestsAsked'
    <3>1. tx'[a].kind \in Commits /\ \A b \in Slots \ {a} : tx'[b] = tx[b]
      BY <2>1, <2>3 DEF Begin, TypeOK
    <3> QED BY <1>1, <2>1, <3>1
  <2> QED BY <1>2, <2>2, <2>3 DEF Call, Revise, Save, Topic, Promote, Review, Transition, Ingests, Commits
<1>3. ASSUME NEW a \in Slots, Complete(a) PROVE IngestsAsked'
  <2>1. CASE OpenIngest(a)
    <3>1. tx[a] \in Transaction
      BY <2>1, BusyType DEF OpenIngest
    <3>2. tx'[a].kind = tx[a].kind /\ \A b \in Slots \ {a} : tx'[b] = tx[b]
      BY <2>1, <3>1 DEF OpenIngest, TypeOK, Transaction
    <3> QED BY <1>1, <3>2
  <2>2. CASE ~OpenIngest(a)
    <3>1. tx'[a].kind = "none" /\ \A b \in Slots \ {a} : tx'[b] = tx[b]
      BY <1>3, <2>2 DEF Complete, CommitIngest, CommitGovernance, Refuse, TypeOK, NoTx
    <3> QED BY <1>1, <3>1
  <2> QED BY <2>1, <2>2
<1>4. ASSUME NEW d \in Docs, Withdraw(d) PROVE IngestsAsked'
  <2>1. tx'[Worker].kind \in Commits /\ \A b \in Slots \ {Worker} : tx'[b] = tx[b]
    BY <1>4 DEF Withdraw, Begin, TypeOK, Slots, Commits
  <2> QED BY <1>1, <2>1 DEF Slots
<1>5. ASSUME UNCHANGED tx PROVE IngestsAsked'
  BY <1>5 DEF IngestsAsked, Busy
<1> QED BY <1>2, <1>3, <1>4, <1>5 DEF Next, WorkerStep, Slots, vars, DeleteMessage

\* The only step after which the last governance event of a document may differ
\* from its state is the promotion of content that was ingested before.
THEOREM OnlyPromotionsEscapeAudit ==
  Spec => [][AuditMatches /\ ~PromotesExisting => AuditMatches']_vars
<1>1. TypeOK /\ [Next]_vars => [AuditMatches /\ ~PromotesExisting => AuditMatches']_vars
  BY AuditStep
<1> QED BY <1>1, TypeCorrect, PTL DEF Spec

\* Where the promote endpoint is not called, the last governance event of every
\* document records the state it is in, whatever is reviewed, withdrawn,
\* transitioned and ingested again.
THEOREM GovernanceIsOnRecord ==
  ASSUME "promote" \notin Kinds
  PROVE  Spec => []AuditMatches
<1>1. Init => AuditMatches /\ IngestsAsked
  BY DEF Init, AuditMatches, NoDocument, IngestsAsked, Busy, NoTx
<1>2. IngestsAsked => ~PromotesExisting
  BY DEF IngestsAsked, PromotesExisting, CommitIngest, Ingests
<1>3. TypeOK /\ AuditMatches /\ IngestsAsked /\ [Next]_vars => AuditMatches' /\ IngestsAsked'
  BY <1>2, AuditStep, IngestsAskedStep
<1> QED BY <1>1, <1>3, TypeCorrect, PTL DEF Spec

-----------------------------------------------------------------------------
(***************************************************************************)
(* What a revision is good for: reviews, approvals of dependencies and     *)
(* pinned citations compare revisions, never contents.  A time that was    *)
(* spent is given to no transaction again, so a document at a spent        *)
(* revision has not been written since, and one that left it stays away.   *)
(***************************************************************************)
Spent(time) == time <= clock /\ \A a \in Slots : Begun(a) => tx[a].now # time

\* The document is v whenever it is at the revision of v.
Settled(d, v) == v.rev \in Nat /\ Spent(v.rev) /\ (doc[d].rev = v.rev => doc[d] = v)

\* A step gives a transaction under way a time that no clock has shown yet.
LEMMA TimesAreNew ==
  ASSUME Inv, [Next]_vars, NEW a \in Slots, Begun(a)'
  PROVE  \/ Begun(a) /\ tx'[a].now = tx[a].now
         \/ tx'[a].now = clock + 1
<1>1. ASSUME NEW b \in Slots, NEW kind, NEW d, NEW target, Begin(b, kind, d, target)
      PROVE  (Begun(a) /\ tx'[a].now = tx[a].now) \/ tx'[a].now = clock + 1
  BY <1>1 DEF Begin, Begun, Busy, Inv, TypeOK
<1>2. ASSUME NEW b \in Slots, NEW kind, NEW d, NEW content, Draft(b, kind, d, content)
      PROVE  (Begun(a) /\ tx'[a].now = tx[a].now) \/ tx'[a].now = clock + 1
  BY <1>2 DEF Draft, Begun, Busy, Inv, TypeOK
<1>3. ASSUME NEW b \in Slots, OpenIngest(b)
      PROVE  (Begun(a) /\ tx'[a].now = tx[a].now) \/ tx'[a].now = clock + 1
  <2>1. tx[b] \in Transaction
    BY <1>3, BusyType DEF OpenIngest, Inv
  <2> QED BY <1>3, <2>1 DEF OpenIngest, Begun, Busy, Inv, TypeOK, Transaction
<1>4. ASSUME NEW b \in Slots, tx' = [tx EXCEPT ![b] = NoTx]
      PROVE  (Begun(a) /\ tx'[a].now = tx[a].now) \/ tx'[a].now = clock + 1
  BY <1>4 DEF Begun, Busy, NoTx, Inv, TypeOK
<1>5. ASSUME NEW b \in Slots, Complete(b)
      PROVE  (Begun(a) /\ tx'[a].now = tx[a].now) \/ tx'[a].now = clock + 1
  BY <1>3, <1>4, <1>5 DEF Complete, CommitIngest, CommitGovernance, Refuse
<1>6. ASSUME NEW b \in Actors, Call(b)
      PROVE  (Begun(a) /\ tx'[a].now = tx[a].now) \/ tx'[a].now = clock + 1
  BY <1>1, <1>2, <1>6 DEF Call, Revise, Save, Topic, Promote, Review, Transition, Slots
<1>7. ASSUME UNCHANGED tx
      PROVE  (Begun(a) /\ tx'[a].now = tx[a].now) \/ tx'[a].now = clock + 1
  BY <1>7 DEF Begun, Busy
<1> QED
  BY <1>1, <1>5, <1>6, <1>7 DEF Next, WorkerStep, Withdraw, DeleteMessage, vars, Slots

\* A step that writes a document moves it to the time of a transaction under way.
LEMMA WritesTakeTheirTime ==
  ASSUME Inv, [Next]_vars, NEW d \in Docs, doc'[d] # doc[d]
  PROVE  \E a \in Slots : Begun(a) /\ doc'[d].rev = tx[a].now
<1>1. ASSUME NEW a \in Slots, CommitGovernance(a) \/ CommitIngest(a)
      PROVE  Begun(a) /\ doc'[d].rev = tx[a].now
  <2>1. tx[a] \in Transaction /\ Begun(a)
    BY <1>1, BusyType
       DEF CommitGovernance, CommitIngest, Inv, Begun, Transaction, Ingests, Commits
  <2>2. \A state : Set(d, state, tx[a].now).rev = tx[a].now
    BY DEF Set, Inv, TypeOK, Document
  <2>3. CASE CommitGovernance(a)
    BY <2>1, <2>2, <2>3 DEF CommitGovernance
  <2>4. CASE CommitIngest(a)
    <3>1. tx[a].doc = d /\ doc'[d] = Upserted(a)
      BY <2>4 DEF CommitIngest, Inv, TypeOK
    <3>2. tx[a].seen \in Version
      BY <2>1 DEF Transaction
    <3>3. [tx[a].seen EXCEPT !.rev = tx[a].now].rev = tx[a].now
      BY <3>2 DEF Version, Document
    <3> QED BY <2>1, <2>2, <3>1, <3>3 DEF Upserted
  <2> QED BY <1>1, <2>3, <2>4
<1>2. ASSUME UNCHANGED doc PROVE FALSE
  BY <1>2
<1> QED
  BY <1>1, <1>2 DEF Next, WorkerStep, Complete, Call, Revise, Save, Topic, Promote, Draft, Review,
     Transition, Withdraw, Begin, OpenIngest, Refuse, DeleteMessage, vars, Slots

LEMMA SettledStays ==
  ASSUME Inv, [Next]_vars, NEW d \in Docs, NEW v, Settled(d, v)
  PROVE  Settled(d, v)'
<1>0. clock \in Nat /\ clock' \in Nat
  BY NextType DEF Inv, TypeOK
<1>1. clock' >= clock
  <2>1. clock' \in {clock, clock + 1}
    BY DEF Next, WorkerStep, Complete, Call, Revise, Save, Topic, Promote, Draft, Review,
       Transition, Withdraw, Begin, OpenIngest, Refuse, CommitIngest, CommitGovernance,
       DeleteMessage, vars
  <2> QED BY <2>1, NumberTypes DEF Inv
<1>2. Spent(v.rev)'
  <2>1. v.rev <= clock'
    BY <1>1, <1>0 DEF Settled, Spent
  <2>2. ASSUME NEW a \in Slots, Begun(a)' PROVE tx'[a].now # v.rev
    BY <2>2, TimesAreNew, NumberTypes DEF Settled, Spent, Inv
  <2> QED BY <2>1, <2>2 DEF Spent
<1>3. doc'[d].rev = v.rev => doc'[d] = v
  BY WritesTakeTheirTime DEF Settled, Spent
<1> QED BY <1>2, <1>3 DEF Settled

\* A revision names one document for good: whenever a document is again, or
\* still, at a revision, it is what it was at that revision, whatever reviews,
\* withdrawals and ingestions committed in between.  This is what lets a review,
\* a dependency or a citation compare the revision and nothing else.
THEOREM RevisionNamesOneDocument ==
  ASSUME NEW d \in Docs, NEW v
  PROVE  Spec => [](doc[d] = v => [](doc[d].rev = v.rev => doc[d] = v))
<1>1. Inv /\ doc[d] = v => Settled(d, v)
  BY NumberTypes DEF Inv, PastTimes, TimesApart, Settled, Spent
<1>2. Inv /\ Settled(d, v) /\ [Next]_vars => Settled(d, v)'
  BY SettledStays
<1>3. Settled(d, v) => (doc[d].rev = v.rev => doc[d] = v)
  BY DEF Settled
<1> QED BY <1>1, <1>2, <1>3, InvHolds, PTL DEF Spec
=============================================================================
