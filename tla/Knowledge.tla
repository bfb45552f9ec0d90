------------------------------ MODULE Knowledge ------------------------------
(***************************************************************************)
(* The lifecycle of one channel's knowledge documents.                     *)
(*                                                                         *)
(* Proposals are ingested (proxy/main.py ingest_payload, called from       *)
(* buzz_wiki.create and promote_knowledge), reviewed, transitioned through *)
(* the service API, and withdrawn by the evidence worker.  All but the     *)
(* ingestion end in commit_governance (proxy/governance_service.py).       *)
(*                                                                         *)
(* A transaction is two steps.  It begins, which fixes now() for all its   *)
(* writes and the revision its caller has seen; and it commits or is       *)
(* refused, in one step, because the channel's advisory lock and the row   *)
(* locks on the target and its dependencies serialise everything it reads  *)
(* and writes in between.  A revision is a document's updated_at.          *)
(***************************************************************************)
EXTENDS Naturals

CONSTANTS
  Docs,       \* documents, present or not yet ingested, named by identity
  Sources,    \* documents approved before the run begins
  NoDoc,      \* no base document
  Messages,   \* Buzz messages that proposals cite as evidence
  Actors,     \* callers: members, reviewers, service clients
  Worker,     \* the evidence worker of the buzz-chat service
  Kinds,      \* kinds of transaction the callers use
  Asked,      \* states that reviews and transitions ask for
  MaxOps,     \* bound: transactions begun by callers
  Depth       \* dependency levels knowledge_evidence_current follows (9)

ASSUME ConstantsAssumption ==
  /\ Sources \subseteq Docs
  /\ NoDoc \notin Docs
  /\ Worker \notin Actors
  /\ Asked \subseteq {"proposed", "approved", "superseded", "archived", "rejected"}
  /\ MaxOps \in Nat
  /\ Depth \in Nat

VARIABLES
  doc,        \* [Docs -> document]
  deleted,    \* messages removed from the channel
  tx,         \* [Actors \cup {Worker} -> transaction under way]
  clock,      \* the time of the last transaction begun
  ops,        \* transactions begun by callers
  audited,    \* history: state in the document's last governance event
  approvals,  \* history: number of approvals committed
  approvedAt  \* history: ordinal of the document's last approval, 0: never

vars == <<doc, deleted, tx, clock, ops, audited, approvals, approvedAt>>

Targets == {"proposed", "approved", "superseded", "archived", "rejected"}
Ref == [id : Docs, rev : Nat]
Document == [state : Targets \cup {"absent"}, rev : Nat, base : Docs \cup {NoDoc},
             baseRev : Nat, deps : SUBSET Ref, evidence : SUBSET Messages]
NoDocument == [state |-> "absent", rev |-> 0, base |-> NoDoc, baseRev |-> 0,
               deps |-> {}, evidence |-> {}]
Ingests == {"propose", "promote"}
Commits == {"review", "api", "withdraw"}

\* seen: the document as the caller read it, or the document it will ingest.
Version == {v \in Document : v.state # "absent"}
Transaction ==
  {t \in [kind : Ingests \cup Commits, stage : {"drafted", "begun"}, doc : Docs, now : Nat,
          target : Targets, seen : Version] : t.kind \in Commits => t.stage = "begun"}
NoTx == [kind |-> "none"]

Slots == Actors \cup {Worker}

\* Every variable stays in its declared set.
TypeOK ==
  /\ doc \in [Docs -> Document]
  /\ deleted \subseteq Messages
  /\ tx \in [Slots -> Transaction \cup {NoTx}]
  /\ clock \in Nat
  /\ ops \in 0..MaxOps
  /\ audited \in [Docs -> Targets \cup {"none"}]
  /\ approvals \in Nat
  /\ approvedAt \in [Docs -> Nat]

Init ==
  /\ doc = [d \in Docs |-> IF d \in Sources THEN [NoDocument EXCEPT !.state = "approved"]
                           ELSE NoDocument]
  /\ deleted = {}
  /\ tx = [a \in Slots |-> NoTx]
  /\ clock = 0
  /\ ops = 0
  /\ audited = [d \in Docs |-> IF d \in Sources THEN "approved" ELSE "none"]
  /\ approvals = 0
  /\ approvedAt = [d \in Docs |-> 0]

Busy(a) == tx[a].kind # "none"
Exists(d) == doc[d].state # "absent"

-----------------------------------------------------------------------------
(***************************************************************************)
(* gcor.knowledge_evidence_current: every cited message is still there,    *)
(* and every dependency is approved, not newer than the document, and      *)
(* itself current, to a bounded depth.                                     *)
(***************************************************************************)
EvidencePresent(d) == doc[d].evidence \cap deleted = {}

DependencyValid(d, s) == doc[s].state = "approved" /\ doc[s].rev <= doc[d].rev

CurrentTo[n \in Nat] == [d \in Docs |->
  /\ n > 0
  /\ Exists(d)
  /\ EvidencePresent(d)
  /\ \A r \in doc[d].deps : DependencyValid(d, r.id) /\ CurrentTo[n - 1][r.id]]

Current(d) == CurrentTo[Depth][d]

\* What every approved-only read path returns.
Readable(d) == doc[d].state = "approved" /\ Current(d)

\* Mutant of Stale: a worker that looks at messages and forgets dependencies.
StaleWithoutSources(d) ==
  /\ doc[d].state = "approved"
  /\ doc[d].evidence # {}
  /\ ~EvidencePresent(d)

\* What the evidence worker selects.
Stale(d) == /\ doc[d].state = "approved"
            /\ doc[d].evidence # {} \/ doc[d].deps # {}
            /\ ~Current(d)

-----------------------------------------------------------------------------
(***************************************************************************)
(* Beginning a transaction.                                                *)
(***************************************************************************)
Charge(a) == IF a = Worker THEN UNCHANGED ops ELSE ops < MaxOps /\ ops' = ops + 1

Begin(a, kind, d, target) ==
  /\ ~Busy(a)
  /\ Exists(d)
  /\ Charge(a)
  /\ clock' = clock + 1
  /\ tx' = [tx EXCEPT ![a] = [kind |-> kind, stage |-> "begun", doc |-> d, now |-> clock + 1,
                              target |-> target, seen |-> doc[d]]]
  /\ UNCHANGED <<doc, deleted, audited, approvals, approvedAt>>

\* ingest_payload first looks for a document of the same identity, then
\* archives, extracts and embeds, and only then opens its transaction.
Draft(a, kind, d, content) ==
  /\ kind \in Kinds
  /\ ~Busy(a)
  /\ ~Exists(d)
  /\ Charge(a)
  /\ tx' = [tx EXCEPT ![a] = [kind |-> kind, stage |-> "drafted", doc |-> d, now |-> 0,
                              target |-> "proposed", seen |-> content]]
  /\ UNCHANGED <<doc, deleted, clock, audited, approvals, approvedAt>>

Proposal(base, baseRev, deps, evidence) ==
  [state |-> "proposed", rev |-> 0, base |-> base, baseRev |-> baseRev,
   deps |-> deps, evidence |-> evidence]

\* !knowledge revise: a new version of a readable document, which inherits
\* its dependencies and evidence and cites the command message itself.
Revise(a, d, b, m) ==
  /\ Readable(b)
  /\ m \notin deleted
  /\ Draft(a, "propose", d,
       Proposal(b, doc[b].rev, doc[b].deps, doc[b].evidence \cup {m}))

\* !knowledge save: an answer that depends on the readable documents it cites.
Save(a, d, cited, m) ==
  /\ cited # {}
  /\ \A s \in cited : Readable(s)
  /\ m \notin deleted
  /\ Draft(a, "propose", d,
       Proposal(NoDoc, 0, {[id |-> s, rev |-> doc[s].rev] : s \in cited}, {m}))

\* !knowledge topic: a new page that cites no document.
Topic(a, d, m) == m \notin deleted /\ Draft(a, "propose", d, Proposal(NoDoc, 0, {}, {m}))

\* POST /api/knowledge/promote: curated content with no Buzz evidence.
Promote(a, d) == Draft(a, "promote", d, Proposal(NoDoc, 0, {}, {}))

OpenIngest(a) ==
  /\ Busy(a)
  /\ tx[a].stage = "drafted"
  /\ clock' = clock + 1
  /\ tx' = [tx EXCEPT ![a].stage = "begun", ![a].now = clock + 1]
  /\ UNCHANGED <<doc, deleted, ops, audited, approvals, approvedAt>>

Replaceable(d, target) == target = "superseded" => \E s \in Docs \ {d} : Exists(s)

\* A human owner or admin reviews the revision on the screen.
Review(a, d, target) ==
  "review" \in Kinds /\ Replaceable(d, target) /\ Begin(a, "review", d, target)

\* The approve and transition endpoints of the private service API.
Transition(a, d, target) ==
  "api" \in Kinds /\ Replaceable(d, target) /\ Begin(a, "api", d, target)

\* The worker found d stale and withdraws the revision it read.
Withdraw(d) == Stale(d) /\ Begin(Worker, "withdraw", d, "proposed")

DeleteMessage(m) ==
  /\ m \notin deleted
  /\ deleted' = deleted \cup {m}
  /\ UNCHANGED <<doc, tx, clock, ops, audited, approvals, approvedAt>>

-----------------------------------------------------------------------------
(***************************************************************************)
(* Committing a transaction.                                               *)
(***************************************************************************)
Requires(d) == doc[d].deps \cup
  (IF doc[d].base = NoDoc THEN {} ELSE {[id |-> doc[d].base, rev |-> doc[d].baseRev]})

\* approve_dependencies: every dependency, and the base, is exactly the
\* revision the proposal was written against, approved and current.
DependenciesHold(d) ==
  \A r \in Requires(d) :
    r.id # d /\ doc[r.id].state = "approved" /\ doc[r.id].rev = r.rev /\ Current(r.id)

\* Mutant of Unchanged: expected_updated_at is not compared.
UnchangedUnchecked(a) == TRUE

\* The caller's revision is the current one.
Unchanged(a) == doc[tx[a].doc].rev = tx[a].seen.rev

\* The patch may be applied: a service call names no revision; an approval
\* with dependencies takes a human reviewer and all of them unchanged.
Allowed(a) ==
  LET d == tx[a].doc IN
  /\ tx[a].kind # "api" => Unchanged(a)
  /\ tx[a].target = "approved" /\ Requires(d) # {} => tx[a].kind = "review" /\ DependenciesHold(d)

Approves(a) == tx[a].kind \in Commits /\ tx[a].target = "approved"

\* Mutant of Retired: the base is left as it was.
RetiresNothing(a) == {}

\* The base an approved revision replaces, in the same transaction.
Retired(a) == IF Approves(a) THEN {doc[tx[a].doc].base} \ {NoDoc} ELSE {}

\* Mutant of Set: the revision is not advanced.
SetInPlace(d, state, now) == [doc[d] EXCEPT !.state = state]

Set(d, state, now) == [doc[d] EXCEPT !.state = state, !.rev = now]

\* Mutant of Recorded: only the reviewed document gets a governance event.
RecordedAlone(a) == {tx[a].doc}

\* The documents for which the transaction inserts a governance event.
Recorded(a) == {tx[a].doc} \cup Retired(a)

CommitGovernance(a) ==
  LET d == tx[a].doc IN
  /\ Busy(a)
  /\ tx[a].kind \in Commits
  /\ Allowed(a)
  /\ doc' = [x \in Docs |-> IF x = d THEN Set(d, tx[a].target, tx[a].now)
                            ELSE IF x \in Retired(a) THEN Set(x, "superseded", tx[a].now)
                            ELSE doc[x]]
  /\ audited' = [x \in Docs |-> IF x \in Recorded(a) THEN doc'[x].state ELSE audited[x]]
  /\ IF Approves(a)
     THEN approvals' = approvals + 1 /\ approvedAt' = [approvedAt EXCEPT ![d] = approvals + 1]
     ELSE UNCHANGED <<approvals, approvedAt>>
  /\ tx' = [tx EXCEPT ![a] = NoTx]
  /\ UNCHANGED <<deleted, clock, ops>>

\* 403, 404 or 409: nothing was changed.
Refuse(a) ==
  /\ Busy(a)
  /\ tx[a].kind \in Commits
  /\ ~Allowed(a)
  /\ tx' = [tx EXCEPT ![a] = NoTx]
  /\ UNCHANGED <<doc, deleted, clock, ops, audited, approvals, approvedAt>>

\* INSERT ... ON CONFLICT (identity_sha256) DO UPDATE: when another ingestion
\* of the same content came first, the row gets a new revision, and unless the
\* caller preserves it the new metadata is merged over the old.
Upserted(a) ==
  LET d == tx[a].doc IN
  IF ~Exists(d) THEN [tx[a].seen EXCEPT !.rev = tx[a].now]
  ELSE IF tx[a].kind = "promote" THEN Set(d, "proposed", tx[a].now)
  ELSE Set(d, doc[d].state, tx[a].now)

CommitIngest(a) ==
  /\ Busy(a)
  /\ tx[a].kind \in Ingests
  /\ tx[a].stage = "begun"
  /\ doc' = [doc EXCEPT ![tx[a].doc] = Upserted(a)]
  /\ tx' = [tx EXCEPT ![a] = NoTx]
  /\ UNCHANGED <<deleted, clock, ops, audited, approvals, approvedAt>>

-----------------------------------------------------------------------------
Call(a) ==
  \/ \E d, b \in Docs, m \in Messages : Revise(a, d, b, m)
  \/ \E d \in Docs, cited \in SUBSET Docs, m \in Messages : Save(a, d, cited, m)
  \/ \E d \in Docs, m \in Messages : Topic(a, d, m)
  \/ \E d \in Docs : Promote(a, d)
  \/ \E d \in Docs, target \in Asked : Review(a, d, target) \/ Transition(a, d, target)

Complete(a) == OpenIngest(a) \/ CommitIngest(a) \/ CommitGovernance(a) \/ Refuse(a)

WorkerStep == (\E d \in Docs : Withdraw(d)) \/ Complete(Worker)

Next ==
  \/ \E a \in Actors : Call(a) \/ Complete(a)
  \/ WorkerStep
  \/ \E m \in Messages : DeleteMessage(m)

Spec == Init /\ [][Next]_vars

\* The worker's loop runs for ever; callers may stop at any point.
FairSpec == Spec /\ WF_vars(WorkerStep)

-----------------------------------------------------------------------------
(***************************************************************************)
(* Properties.                                                             *)
(***************************************************************************)

\* Of the proposals written against one revision of a document, at most one
\* is ever approved, in whatever order reviews, transitions, withdrawals and
\* re-ingestions commit (approve_dependencies and the channel lock).
OneWinner ==
  \A p, q \in Docs :
    /\ approvedAt[p] > 0 /\ approvedAt[q] > 0
    /\ doc[p].base # NoDoc /\ doc[p].base = doc[q].base /\ doc[p].baseRev = doc[q].baseRev
    => p = q

\* Once a revision has been approved, the exact revision it replaced is never
\* served or approved again: its row has moved on for good.
BaseRetired ==
  \A p \in Docs : approvedAt[p] > 0 /\ doc[p].base # NoDoc => doc[doc[p].base].rev # doc[p].baseRev

\* A review applies to the very document the reviewer had open: equality of
\* revisions at commit means equality of everything the reviewer saw.
ReviewedAsSeen ==
  [][\A a \in Slots : Busy(a) /\ tx[a].kind \in {"review", "withdraw"} /\ CommitGovernance(a)
       => doc[tx[a].doc] = tx[a].seen]_vars

\* The last governance event of a document records the state it is in.
AuditMatches == \A d \in Docs : audited[d] # "none" => audited[d] = doc[d].state

\* Knowledge that lost a message or a source does not stay approved: readers
\* stop seeing it at once, and the worker withdraws the approval on record.
StaleWithdrawn ==
  \A d \in Docs : doc[d].state = "approved" /\ ~Readable(d)
                   ~> doc[d].state # "approved" \/ Readable(d)
=============================================================================
