# A verification of the Gbuzz knowledge stack

TLA+ models of the protocols of this repository, the TLC runs that check them on
small instances, and theorems about several of them whose proofs TLAPS checks for every
value of the constants. File and line numbers refer to the repository.

## The system

A channel-based chat (Buzz) and a governed knowledge base share one PostgreSQL
database. `proxy/` is the API: it ingests documents, answers questions from approved
knowledge, and changes the state of knowledge in one transaction that also queues an
audit event. Around it run worker loops: the outbox publisher, the ingestion job
worker and the Buzz command worker (all three in the proxy's image), the event
projector, the relationship projector, the Graphiti projector and a recovery
controller. They talk through tables: one component inserts a row, another claims it,
calls a service (object store, model, relay, Graphiti, Docker) and records the outcome.
People and agents come in through three clients: the workspace page, the knowledge cards
of the desktop, whose buttons send commands to the command worker, and the command line
and tool server of an agent. Each signs its requests; the API admits them, claims the
proof and checks the caller again when it releases an answer.

| Component | State it keeps | Operations | What is hard, and what makes it correct |
|---|---|---|---|
| Governance service, outbox (`proxy/governance_service.py`, `governance_outbox.py`) | document rows, `governance_outbox`, audit objects | commit under an Idempotency-Key; claim, put, compare, acknowledge, back off | retries that race, crash between put and acknowledgement, lost answers, foreign objects. One event and one answer per key; no artifact lost, overwritten or acknowledged early; every event published at last |
| Knowledge lifecycle (`proxy/buzz_wiki.py`, `main.py`, migration 0010) | documents with state, revision, base, dependencies, evidence | propose, revise, promote, review, transition, withdraw | competing revisions, reviews of an old screen, evidence that disappears. One winner per base revision; a retired revision never returns; the audit trail records the state; stale knowledge is withdrawn |
| Ingestion jobs (`proxy/enterprise_workflows.py`) | `ingestion_jobs` | submit, claim under a lease, ingest, acknowledge, retry, cancel, sweep | races at the limit, reused request ids, lapsed leases, lost answers. Bounded admission, one job per request id, fenced acknowledgements, completion implies a document, settlement |
| Buzz commands (`proxy/buzz_chat.py`) | `buzz_knowledge_commands`, one advisory lock | select, execute, store the signed reply, check, publish, record | a crash at each of these steps, stale answers, a lost lock. One reply; nothing stale delivered late; every command handled |
| Channel synthesis (`proxy/buzz_synthesis.py`) | `buzz_synthesis_jobs` | admit, scan, infer, checkpoint, propose, fail, cancel | resumption at any batch, edits and cancellations meanwhile. Bounded budget, one proposal, none from a closed job, settlement |
| Graphiti projection (`graphiti-projector/`, `queue_graphiti_lifecycle`) | `graphiti_projection`, the graph | claim, add, delete, reconcile, expire, replay | asynchronous extraction, lost answers, lifecycle changes during a call. What counts as reconciled is in the graph; one in flight; everything is delivered or given up |
| Event projector (`projector/main.py`) | `event_projection`, invalidation marks of documents | invalidate, list, lock, ingest, finish, fail | stale lists, late ingestions, unfenced failures, documents shared by messages. An indexed attachment stays; a deleted one goes for good; every message is captured or parked |
| Relationship projector (`relationship-projector/`) | generations, leased document rows, edges | reconcile, claim a batch, extract, finish, activate | leases shared by a batch, read then update |
| Recovery controller (`recovery-controller/`) | failure counts, restart history, an audit file | poll, restart, audit, escalate | actions that raise, crash between action and audit |
| Ingestion pipeline (`proxy/main.py`, `document_parsing.py`, `parser-worker/`) | objects and rows | quarantine, scan, archive, extract, embed, upsert | objects before rows, duplicate content |
| Agent client (`agent-tools/gcor-agent`), limits, replay guard (`request_limits.py`, `nostr_auth.py`), retrieval and answers (`main.py`) | the requests inside, the used proofs | check, sign, post, time out, read; admit, claim, evict; retrieve, infer, recheck, release | requests delivered twice or late, equal calls, slots lost, evidence and roles that change during inference. A proof works once and only a used one is refused; slots are accounted; what is released held after the inference |
| Workspace page (`proxy/workspace/workspace.js`, `clients/buzz-knowledge.mjs`) | the page's variables and what it shows | click, request, answer, reload | chains that share variables, late and lost answers. Reviews apply where and to what they were asked for; one job per proposal; cancelled stays cancelled |
| Knowledge cards (`clients/buzz-desktop`, `buzz_cards.py`) | the component's flags, card tags of messages | parse, render, press, send; execute, reply | stale renderings and cards, sends that fail after delivery, repeated executions. One send at a time, one decision per revision, no button without a command |
| Access policy, scopes (`access_policy.py`, `db_scope.py`, RLS migrations) | roles and row policies | sequential checks, the check at release | a role that changes before release |
| Audit packs, restore and backup, migrations ledger | export rows, objects, ledger | store then log; replay; apply under a lock | partial failure, replay over live rows |
| MCP server of the database, observability, scripts | none, or logs | | stateless, formatting or operator procedures |

PROJECT.json lists the same components with their sources and status, and every hazard
found while reading them with its line.

## The modules

Each module comments its state; every definition that models code is mapped to its
lines in PROJECT.json. An action is what one statement, transaction or remote call
does, because every other actor can run between two of them. Several statements are one
action only where a lock or a transaction makes them so.

**AuditLog, Outbox.** `Outbox` has the transactions of `commit_governance` (begin, lock
the key, look for the prior row, write and commit, or abort) and the publisher's
`publish_one` (claim with SKIP LOCKED, conditional put, head, acknowledge or
reschedule). A transaction queues its own event and, if its request approves a revision
(`Revisions`), the event of the base that `approve_dependencies` supersedes: a second row,
without a key, in the same commit (`Inserts`). Both have the `created_at` of their
transaction, so the publisher takes them in either order. A put that took effect may lose
its answer; a crash drops the row lock and keeps the object; something else may own an
object's key. `AuditLog` promises what a reader of the bucket needs: the events of a
transaction are committed together, become visible one by one, are acknowledged after
that, and none of it is undone. `Outbox!Log` maps rows, own objects and published rows to
it. A caller that got its answer and one that lost it do the same next, so a transaction
that ended leaves its client idle. Delays are counted in polls.

**Knowledge.** Documents carry their state, a revision (the `updated_at` of the code),
the base they revise, their dependencies and evidence. A transaction begins, which fixes
its `now()` and what its caller has seen, and then commits or is refused in one step: the
channel's advisory lock and the row locks serialise what it reads and writes in between.
`ingest_payload` is three steps, for its search for an existing document runs before its
transaction. `CurrentTo` is `gcor.knowledge_evidence_current` with its depth. Start times
of transactions are distinct.

**JobLifecycle, IngestionJobs.** A submission takes the actor's lock, reads the request id and
counts, and inserts. A worker claims under a lease, checks membership, ingests and
acknowledges under its lease, and may lose the answer to either statement. A lease may lapse
while its worker lives (`Lapse`, bounded by MaxStalls). Retry and Cancel belong to the owner
and ask only for the statuses the code asks for. The limit counts the submissions admitted and
not settled since; a retry by the owner may exceed it, as in the code. `JobLifecycle` is what
those who watch a job may rely on, without leases or delays: its statuses, and the one
settlement more that may come from a worker nobody counts on any more (`late`).
`IngestionJobs!Lifecycle` and `Workspace!Lifecycle` map both models to it.

**ChatCommands, Synthesis.** One cycle of the command worker per `Take`; the ten
commands of a cycle are ten cycles here. The advisory lock belongs to a connection which
the worker does not use otherwise: `LoseLock` takes it away while the worker goes on.
`ChatCommands` has everything about a command but what it executes; `Synthesis` is the
execution of one kind of command with its own table, inside the same cycle (its reply is
delivered as `ChatCommands` says). A draft that `ingest_payload` refuses or quarantines
releases its job like any other HTTPException. The except handler is three statements, and
a worker may die between them: the charge, the release of the job (after the last attempt,
or for a requester who left the channel) and, for the latter, the end of the command.

**GraphitiProjection.** Governance queues rows, the projector claims one when none is in
flight, Graphiti extracts in the background and may lose or drop an extraction. A poll
lists the episodes once (`listed`), when some row waits for one, and then updates the rows
one by one; claims of other projectors, governance, the operator and a crash come in
between, and a row is compared again only by its own UPDATE. Time is two flags of a row: the delay has passed, the status has outlived its
timeout. Graphiti is optional in this deployment (docs/optional-graph.md).

**EventProjection.** A poll of the event projector invalidates stale documents, lists
messages and takes them one by one under a session lock; each statement and request is an
action. The proxy's part is the replay of an existing document and the upsert: a document
is a file under an extraction version and belongs to the message that wrote it last;
`doc[f]` lists the documents of a file by `updated_at`. A request that timed out, or whose
projector died, stays in `late` until the proxy commits it, if ever. A review of a document
(`Review`, of any extraction) sets or lifts a retired state and makes it the last one
updated; `CloseChannel` is the deletion or archival of the channel. Both are causes of
`Stale`, and `withdrawn` remembers the files they concern until a fresh ingestion. Only the
invalidation of attachments is in the code: a promoted message text has a document that
no deletion removes, and the model leaves it out.

**Answers.** A call of the agent's client against the API, from the check of its
arguments to the text it returns. `client[c]` is where a call is, `request[<<c, k>>]` where
the API is with the delivery k of its request: admission and the body's timer
(`request_limits.py`), the proof's window and the memory of used proofs
(`nostr_auth.py`), the principal, retrieval as one statement, the slow inference, the
evidence read again item by item, membership and citations, and the check at the start of
the response. No await stands between the check of a slot or a proof and its taking, so
these are one step. A search takes the short way: what it found is not read again. Time
is the API's clock in units of the window; the client's clock is off by `Skew`.

**Workspace.** `page` holds the script's variables (chosen channel, selected document,
id of the next submission) and what is on the screen (rows, review controls); a slot of
`calls` is one chain, the event handler that waits for its request. A handler of the API
is one step (each is one transaction, or one that changes state after reads that the
property does not use); the answer, its use by the page and the next request of the chain
are steps of their own, so chains overlap as they do in a browser. `Lose` is a request or an
answer that fails; after `Reload` what was sent is still served. Jobs are the rows of
`IngestionJobs` as their owner meets them; `late` marks one that a stalled worker, or one that
did not hear its completing UPDATE succeed, still settles.

**KnowledgeCards.** `mount[u]` is the React component on a person's screen: the refs and
states (`inFlight`, `reviewSent`, the mutation's `pending`) and, apart from them, what was
rendered last (`busy`, `canReview`), which `Render` brings up to date. A message on its way is
in `sends`, one that arrived in `commands`. The agent takes one command at a time; an
execution and its reply are two steps, with a crash between them. A document is its state, its
revision, its text and what it depends on: `Propose` finds a document by its text, whichever
command proposed it and whatever was decided of it since, and leaves it as it is. `Announce`
then reads the revision the document has by now and posts a card that says "proposed", as
`create` and the synthesize command do. The text of a revision is typed, and an answer may
be that of an earlier question again. Evidence, delivery and attempts are in `Knowledge` and
`ChatCommands`; here `Refuse` stands for every refusal.

`MC*` modules give TLC its symmetry sets and instances; `*Proofs` modules hold the
theorems. `ProjectionProofs` is about both projectors, `ClientProofs` about the page and the
cards: that is why the names of `EventProjection` and `Workspace` carry a prefix where two
modules would share one.

## The runs

| Run | Question | Instance |
|---|---|---|
| `outbox` | retries, crashes, outages, lost answers, two events in one commit | 2 clients, 2 requests of which one approves a revision, 1 key and no key, 2 transactions, 1 publisher, 1 crash, 1 outage, 1 foreign object, delays of 1 poll |
| `knowledge_revisions` | competing revisions and repeated ingestion | 1 source, 2 proposals, 2 actors, 5 transactions |
| `knowledge_evidence` | deletion and change of sources, with the worker | 1 source, 1 page, 1 message, 4 transactions |
| `jobs` | admission, leases, retries | 2 calls, 2 texts, 2 request ids, limit 1, 2 attempts, 2 troubles |
| `chat` | a failure anywhere in a command | 1 question, 2 workers, 2 attempts, 2 troubles, 1 change |
| `synthesis` | a failure anywhere in a synthesis | 2 jobs, 2 batches, budget 1, 2 attempts, 4 inferences of a command, 2 failures, 1 crash, 1 edit or deletion, 3 of these together; or 1 lost lock and none of them |
| `graphiti` | asynchronous extraction, listings out of date, lifecycle | 2 entries (one raw), 2 attempts, 5 adds, 2 troubles |
| `events` | deletion, reviews, a closed channel, upgrade, late requests and lost locks of two replicas | 1 message with 1 file, 2 replicas, 2 versions, 2 attempts, 2 changes (deletion, reviews, closings), 2 troubles, 3 of both together |
| `answers` | replays, timeouts, changes during inference | 1 command that asks or searches, 1 tool call that searches and may be delivered twice, 2 documents, 1 citation, 2 slots, window 1, 3 proofs remembered, clock to 2, 1 trouble |
| `workspace` | overlapping chains, late and lost answers | 2 channels with 1 document each, admin in one, 2 texts, 2 chains at once, 5 clicks, 1 reload, 1 claim, 1 review by others, 1 trouble |
| `cards` | stale cards, failed sends, repeated executions and texts | 2 people, 2 documents, 2 cards mounted, 2 sends, 1 trouble, the ten buttons of `SomeButtons` |

A *trouble* is a crash, a failed or lost call, a lost lock, a stall, an edit, an operator's
replay: `MaxTroubles` (`MaxEventTroubles`, `MaxPageTroubles`) bounds their sum
(`MaxDisturbances` that of troubles and changes in `events`) and the
`Max...` constants each kind, so that every kind occurs at every step without the product of
all of them. Bounds on attempts are smaller than the code's (3 for commands and jobs, 8 for
Graphiti, 12 for messages): a run that counts them has two, which show the first, a retry
and exhaustion. Two of each actor are needed for each race stated, and a third client or worker can only repeat
what one of the two does. `events` has one message: two replicas with two messages and
liveness are out of TLC's reach. `outbox` has one publisher: two exclude each other by the row
lock, and the theorems hold for any number; its back-off stops growing at once, for no
property depends on more of it than that a failed event waits and comes back. `synthesis`
has the lost lock in behaviours of their own: the properties that survive it are about
admission. `graphiti` queues each entry once. `Slots` bounds
the chains of the workspace that overlap, and the buttons left out of `Pressable` only post
links or text. The clients of `answers` read the API's clock (`Skew` is 0 there). Deadlock is
not checked: the bounds stop callers, and an idle system with nothing to do is a legal end.

One run shows a statement of the repository's documentation that the code does not keep
(PROJECT.json, findings): in `knowledge_promote` a repeated promotion takes approved
knowledge back to proposed with no audit event.

### What the passing runs assume, and behaviour worth knowing

- After the worker's lock was lost, two workers may sign two replies to a command or
  leave two proposals of a synthesis. `OneReply`, `StaleAnswerKept`, `OneProposal` and
  `ClosedPublishesNothing` are therefore stated for runs in which no lock was lost
  (`Serialized`); `BudgetBounded` holds with lost locks, for admission has a lock of its
  own.
- `Synthesis!EventuallySettled` excepts a job whose command was deleted, one whose last
  attempt was charged by a worker that died before `fail_job` (`stranded`, recorded by that
  crash and nothing else), and histories with a lost lock, in which two workers may both
  read a number of attempts below the last one and neither fails the job. Such a job stays
  outstanding and keeps its place in the channel's budget. A failed last attempt, without
  the crash, settles it.
- A completed ingestion job is reopened when the answer to the completing UPDATE is lost;
  its document exists, and the next attempt completes it again. `TakeoverFenced` says
  this is the only way.
- A failed job that its owner cancels keeps its lease: a worker that outlived its last
  lease still turns it into a completed one (enterprise_workflows.py:188, :220).
- Only the except handler charges an attempt of a command: a worker that dies during an
  execution leads to one execution more than the three attempts (buzz_chat.py:295).
- An attachment whose document was retired by a review, whose older extraction was
  reviewed, or whose channel was deleted or archived loses its chunks while its message
  stays 'indexed' under the current version. It is not listed again: not when the document
  is approved afterwards, nor when the channel comes back. Only a new extraction version, or
  a request that was under way, brings it back (projector/main.py:322, :31-50).
  `StaysIndexed` excepts these files (`withdrawn`) and an attachment that a deleted message
  had too. A message whose
  last file the proxy quarantined counts as captured: its row is 'skipped' under the
  current version and not listed again, even when only the embedding service was down.
  A crash in 'processing' is not held to the limit of attempts, and when the row already
  had the current version (its unlock had failed) it stays 'processing' for good.
- `OneInFlight` counts what the table says. After a lost answer, or a claim that timed
  out because its projector died, Graphiti itself may extract one entry twice.
- `AuditMatches` and `StaleWithdrawn` are checked without the promote endpoint, whose
  divergence has a run of its own; `OnlyPromotionsEscapeAudit` shows that nothing else
  breaks `AuditMatches`.
- Approvals that commit in the opposite order of their start are compared by start
  (migration 0010:61, governance_service.py:51): a page approved from a source may stay
  readable after the source was approved anew, where docs/buzz-living-knowledge.md:35
  expects it to be stale. No property of `Knowledge` forbids this.
- `reconciled_at` of a Graphiti row outlives the episode it stood for when the row is
  queued again (main.py:1940, graphiti-projector/main.py:214, :275, against README:488):
  `ReconciledIsReal` speaks of entries that were queued once.
- Two messages that share an attachment share its document: deleting the message it is
  filed under removes it for the other one too (projector/main.py:318, :340, main.py:1247,
  against docs/parser-worker-runbook.md:9). `events` has one message.
- `ProofUsedOnce` needs a client clock that is not ahead of the API's: a proof is
  remembered for the window after its use and accepted for the window after the time it
  names (nostr_auth.py:24, :62), so one that names a later time than its use is accepted
  for longer than it is remembered. A memory smaller than the number of proofs of one
  window forgets proofs as well. The theorem names both as assumptions.
- docs/enterprise-pilot-setup.md:11 says that a request can be replayed within 60 seconds;
  `_claim` refuses a proof that it remembers.
- The agent's client calls an answer ungrounded when nothing approved covers the question
  (main.mjs:61); an answer whose evidence changed during the inference comes back emptied and
  reads the same (main.py:2278). Its timer ends when the answer begins: reading the body has
  none (client.mjs:87). The results of a search are not read again before release.
- The workspace page has no timer and does not match answers to its present state: a late
  answer to `open()` or `library()` overwrites a newer one, a late answer to a question
  still says that it is from "this channel" after another one was chosen. A proposal that
  is edited after its answer was lost is refused (409) until the page is reloaded.
  Feedback sent again after a lost answer is stored twice (against
  docs/knowledge-trust-implementation.md:17). The note of a review is not cleared by opening
  another document. A worker that stalled may still settle a job its owner cancelled.
- Documents are known by their text within a channel (main.py:340, :1247). A second save of
  one answer, a revision with the text of an earlier one, or a command executed again after
  a crash finds the document it has, which may be approved or rejected by then, and posts a
  card that says 'proposed' with the document's present revision (buzz_wiki.py:75-78,
  buzz_chat.py:183-185). Its buttons pass the check of the revision and decide the document
  again, where docs/buzz-living-knowledge.md:11 says of a saved answer that "It is still a
  proposal." and :33 that each proposed revision is a separate document. `DecidedOnce`
  therefore says: once per revision, and on a proposal or on a revision the agent announced
  as one.
- A card for the approval of a synthesis of several sections is always refused by the agent.
  The summary's length is counted in code points by the agent and in UTF-16 units by the
  client, so a long reply with a card may be shown as text. Between two renderings a
  component may offer its review buttons again for a moment; `OneSend` and `DecidedOnce`
  hold nevertheless, for the refs and the revision decide.

### Fairness

All workers are loops that log any exception and go on, in containers that are restarted:
weak fairness of their steps. Taking a particular command or row is strongly fair,
because each loop orders its candidates (by attempts, age, or last attempt) so that none
is passed over for ever, while the possibility comes and goes with the lock, with a
delay or with the place in flight; so are the listing and the expiry of a Graphiti poll,
which come before each claim, while its updates and calls are weakly fair. Time passes: delays and leases end. An extraction that
Graphiti accepted ends one way or the other; a request to the proxy that nobody waits for
need not land. Callers, reviewers, owners, crashes and
faults have no fairness. `Answers`, `Workspace` and `KnowledgeCards` state none and no
liveness: a call, a chain or a press may always be abandoned by its user.

## What is proved

Each theorem is about the specification without fairness, for all values of the constants
that satisfy the module's named assumptions.

`OutboxProofs` (any number of clients, publishers, keys and transactions, any backoff):
types, one event per key, one answer per key, acknowledged events have their artifact,
artifacts are immutable, and `Spec => AuditLogSpec`. None of the properties is
inductive alone. The invariant adds: a client in "writing" under a key holds the key's
lock and there is no row of that key; no two clients hold one lock; the events of running
transactions are distinct and have no row, nor has the event of a base of theirs; a publisher that is past a successful put or
comparison has an object with its own content; two publishers hold different rows; a
receipt names a committed event of its key and request, or a conflict, for which a row of
another request exists. Each action has a lemma, and the refinement follows from the
invariant action by action: `CommitTx` is the one commit of the one or two events it inserts.

`KnowledgeProofs` (any documents, actors, messages and depth): types, one winner, bases
stay retired, reviews apply to what was seen. The argument rests on revisions: every
write takes its transaction's start time, start times are distinct and not after the
clock, so a document never returns to a revision it left, and two transactions never give
one document one revision. From this follow that equality of revisions is equality of
documents (ReviewedAsSeen), that an approved revision's base has left the recorded
revision for good (BaseRetired), and that a second approval against that revision finds
it gone (OneWinner). `RevisionNamesOneDocument` is the same fact about time: a start time
that is spent is given to no transaction again (`Spent`), so a document that is ever again at
a revision it had is the very document it was then. This is why reviews, approvals of
dependencies and citations may compare `updated_at` and need not compare contents. For the
record, every ingestion was asked for as one (`IngestsAsked`): where the promote endpoint is
not called, `AuditMatches` holds, and with it only a promotion of content that was there
before breaks it (`OnlyPromotionsEscapeAudit`).

`ClientProofs`, cards (any people, documents, buttons and bounds): types; a button that is
offered stands for a command (`OfferedActionsWork`, about what the view shows against what the
model of a card allows); one send at a time; a revision is decided once. The last one is not
inductive alone. A revision number only grows (`Moves`), so whatever names a revision
(replies, mounted cards, sends, commands) and matches the document's number matches its state
as well, or the agent announced that very revision as a proposal (`RepliesMatch`,
`MountsMatch`, `SendsMatch`, `CommandsMatch`); replies are never taken back, so the
announcement is still there when the decision is made. A decision names a number the document
has left (`DecisionsPast`), and the next one needs a card of the present number.

`ClientProofs`, page (any channels, roles, documents and number of chains): types; reviews
in scope; one unacknowledged job; cancelled jobs stay so; and `PageSpec => PageLifecycleKept`,
for a step changes the row of one job at most, in one of five ways (`RowBecomes`). A review
replaced the revision it asked for, and is past because revisions only grow (`ReviewsPast`),
so no two reviews replaced one. For the jobs: the button allows one chain that submits
(`OneSubmission`), no job has a later id than the page (`JobsNumbered`), and an id that
was left behind was acknowledged or left by a reload (`SkippedByReload`).

`IngestionJobsProofs` (any calls, texts, request ids, workers and limits): types, bounded
admission, one job per request id, completion implies a document, fenced takeovers, `Spec =>
LifecycleKept` and, from it, that a cancelled job is never queued again. The invariant has
three parts. `Order`: an id is given out once and has no row before its insertion
(`Numbered`), one call of an actor at a time counts and inserts (`Exclusive`), what it counted
still holds when it inserts (`Room`), a request id names one row (`OneRow`), an answer names
the row of its request and text (`Answered`). `Fencing`: a lease number is given to one claim
(`Leased`), a worker that still owns a completed job has completed it itself (`Fenced`), what
was ingested is stored (`Documented`). `LeasesFit`, for the lifecycle: what a worker with the
lease may write depends on the status it finds. While the job is being processed, worker and
row count the same attempts; if the job was given up, retried or cancelled meanwhile, the
worker has no attempt left and cannot put it back in the queue; if it is completed, this
worker did it. The theorem follows action by action, the sweep being one abstract step for
many jobs.

`ChatCommandsProofs` and `SynthesisProofs` (any commands, workers and bounds): types. While
the advisory lock was never lost, one reply per command, no stale answer delivered late,
one proposal per synthesis, none from a closed job. These rest on `Alone`: only the holder
of the lock is at work. For replies the invariant adds that what the relay has is the
stored reply (`Sent`), that a worker holds what its row holds (`Holding`), and that
an answer which was out of date when it was taken stays so and is not on its way to the
relay (`Outdated`). For proposals it adds that the parts saved fit the
status (`PartsOfStatus`), that a worker holds the parts of its job up to the one it just
inferred (`Held`), and that what was ingested is what was saved, complete and never
changed since (`Ingested`). `BudgetBounded` holds without the assumption, for finitely
many commands: the channel's lock admits one worker at a time (`OneAdmits`), and who
counted has room until it has inserted (`Room`).

`ProjectionProofs`, Graphiti (any entries, projectors and bounds): types; what counts as
reconciled is in the graph; and one submission in flight under `OneProjector`, which is how
the deployment runs it. From the claim to the end of
the call nothing is in flight but the row at work (`QuietAtWork`), whatever governance or
the operator does to that row meanwhile. `ReconciledIsReal` needs no such assumption: a
row is at rest until its entry is queued for the first time (`Untouched`), a deletion under
way is known to the row, which is not queued for addition again (`DeletesAreKnown`), so what a
reconciled row names is still there (`EpisodeThere`).

`ProjectionProofs`, events (any messages, files, versions, projectors and bounds): types, and
`StaysIndexed`. A document never goes away (an upsert replaces chunks, an invalidation
removes them), so the invariant is about the one in front: it comes from a message with that
file, is not retired and has its chunks unless that message was deleted, or the file was
withdrawn (`FrontLive`): by the review of any of its documents that retires one or brings an
old one to the front, or with the channel. The files in hand
are those of the message, down to its last one (`WorkOnTrack`), requests that land late name
a file of their message (`LateAttached`), and a row becomes 'indexed' only after the last
file was answered (`IndexedHasDocument`).

`AnswersProofs` (any calls, documents, limits and bounds): types; slots are accounted for
(finitely many calls); a call is refused as used only after its own use; a proof is used
once; what is released held. A slot is taken and given back by one handler each time, so
the counter is the number of handlers inside. What the API remembers was claimed by a
request of the call that signed it (`Remembers`, `UsedOnce`). `ProofUsedOnce` is proved
under two assumptions: the memory has room for every proof (`RoomForProofs`; its eviction
forgets proofs still in their window), and the client's clock is not ahead of the API's
(`ClockNotAhead`; a proof dated ahead is accepted for longer than it is remembered). Then
a claimed proof is remembered, or late for good (`Claimed`). For the release: until the
inference ends the citations hold; after it they held, or a document still to be read
again is outdated (`FitsIn`), and it stays outdated because revisions grow and lost
evidence returns only with a new one (`OutdatedStays`).

Only model-checked: the liveness properties (`EventuallyPublished`, `EventuallySettled`,
`EventuallyHandled`, `EventuallyProjected`, `EventuallyCaptured`, `EvidenceRemoved`,
`StaleWithdrawn`), since liveness under fairness is out of the prover's reach. Every other
property of a passing run is stated by a theorem; `AuditMatches` by one that excludes
promotions, as its run does. What the recursive `CurrentTo` computes is not proved: the
proofs use it only as an uninterpreted predicate, so they hold whatever evidence is
current.

## Plan

1. *RelationshipProjection*: generations, leased batches, activation when complete.
2. *RecoveryController*: cooldown and rolling budget against failing restarts and
   restarts of the controller itself.
3. *Ingestion*: quarantine, scan, objects before rows, upsert by identity; composed with
   `Knowledge`, whose `Draft`, `OpenIngest` and `CommitIngest` it refines, and with
   `EventProjection`, whose `Stored` it implements.
4. *Restore*, audit packs, migrations ledger.
5. Proofs: that the ingestions of `IngestionJobs` are those of `Knowledge`; the delivery of
   `ChatCommands` as an abstract mailbox that `Synthesis` and `KnowledgeCards` rely on.

## Not modelled

The relationship projector, the recovery controller, restore and audit packs are
not modelled yet; their hazards are in PROJECT.json with a note. Not planned: path rules and
row-level security (sequential checks of one request or statement), ranking, prompts,
parsing and formatting (data, not control), the MCP server of the database (stateless),
observability and deployment scripts.
