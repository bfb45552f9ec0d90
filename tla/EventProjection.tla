--------------------------- MODULE EventProjection ---------------------------
(***************************************************************************)
(* The projection of signed channel messages and their attachments into    *)
(* retrieval (projector/main.py), with the part of ingest_payload          *)
(* (proxy/main.py) it depends on.                                          *)
(*                                                                         *)
(* Every poll invalidates what deleted messages, an archived channel,      *)
(* retired documents and older extractions left behind, lists the messages *)
(* to process and works off the list, each message under an advisory lock  *)
(* of its own.  A file is ingested through the proxy, which goes on with a *)
(* request its caller has given up.                                        *)
(*                                                                         *)
(* The messages are those of one channel, named by their places in the     *)
(* order of created_at.  The same file in two of them is one document per  *)
(* extraction version.  The text of a message is ingested before its       *)
(* files, as a document nothing here looks at.  Backoff is a flag: passed  *)
(* or not.                                                                 *)
(***************************************************************************)
EXTENDS Naturals, Sequences

CONSTANTS
  MaxEvents,        \* messages of the projected kinds that have attachments
  Files,            \* attached files, by their signed digest
  FilesOf,          \* [Event -> sequence of its attachments]
  Replicas,         \* running copies of the projector
  MaxVersion,       \* bound: extraction versions deployed
  MaxEventAttempts, \* attempts of a message before it is parked (12)
  MaxChanges,       \* bound: messages deleted, documents reviewed and channel closings
  MaxEventTroubles, \* bound: failed calls, timeouts, crashes and lost connections
  MaxDisturbances   \* bound: changes and troubles together

Event == 1..MaxEvents
Version == 1..MaxVersion

\* Every message has an attachment, and the bounds are numbers.
Configured ==
  /\ FilesOf \in [Event -> Seq(Files) \ {<<>>}]
  /\ MaxEvents \in Nat /\ MaxVersion \in Nat \ {0} /\ MaxEventAttempts \in Nat \ {0}
  /\ MaxChanges \in Nat /\ MaxEventTroubles \in Nat /\ MaxDisturbances \in Nat

ASSUME ConfiguredAssumption == Configured

VARIABLES
  eventRow,  \* [Event -> row of gcor.event_projection: status, attempts, version and due]
  deleted,   \* messages that are deleted
  closed,    \* is the channel deleted or archived
  doc,       \* [Files -> its documents, the last updated first]
  version,   \* the extraction version the projectors run with
  eventWork, \* [Replicas -> progress of the poll]
  late,      \* <<event, file, version>> requests whose caller has gone
  changes,   \* deletions, reviews and channel closings so far
  troubles,  \* failures so far
  withdrawn  \* history: files of which a review or the channel withdrew the last document

eventVars ==
  <<eventRow, deleted, closed, doc, version, eventWork, late, changes, troubles, withdrawn>>
changeVars == <<closed, changes>>

Requests == Event \X Files \X Version
Resting == [step |-> "polling", todo |-> {}, event |-> 0, left |-> <<>>, result |-> "none",
            held |-> FALSE]

EventRow == [status : {"absent", "processing", "indexed", "skipped", "failed"}, attempts : Nat,
        version : 0..MaxVersion, due : BOOLEAN]
\* "flagged" is derivatives_invalidated, "retired" a knowledge_state of archived,
\* rejected or superseded.
Document == [version : Version, parent : Event, chunks : BOOLEAN, flagged : BOOLEAN,
             retired : BOOLEAN]
Between == [step : {"polling", "listing", "picking"}, todo : SUBSET Event, event : {0},
            left : {<<>>}, result : {"none"}, held : {FALSE}]
AtMessage == [step : {"locked", "posting", "waiting", "broken", "releasing", "failing"},
              todo : SUBSET Event, event : Event, left : Seq(Files),
              result : {"none", "indexed", "quarantined"}, held : BOOLEAN]

\* Every variable stays in its declared set.
EventTypeOK ==
  /\ eventRow \in [Event -> EventRow]
  /\ deleted \subseteq Event
  /\ closed \in BOOLEAN
  /\ doc \in [Files -> Seq(Document)]
  /\ version \in Version
  /\ eventWork \in [Replicas -> Between \cup AtMessage]
  /\ late \subseteq Requests
  /\ changes \in 0..MaxChanges
  /\ troubles \in 0..MaxEventTroubles
  /\ withdrawn \subseteq Files

EventInit ==
  /\ eventRow = [e \in Event |-> [status |-> "absent", attempts |-> 0, version |-> 0, due |-> TRUE]]
  /\ deleted = {}
  /\ closed = FALSE
  /\ doc = [f \in Files |-> <<>>]
  /\ version = 1
  /\ eventWork = [r \in Replicas |-> Resting]
  /\ late = {}
  /\ changes = 0
  /\ troubles = 0
  /\ withdrawn = {}

Disturbable == changes + troubles < MaxDisturbances
Trouble == troubles < MaxEventTroubles /\ Disturbable /\ troubles' = troubles + 1
Change == changes < MaxChanges /\ Disturbable /\ changes' = changes + 1
Mine(r) == eventWork[r].event
Step(r, step) == eventWork' = [eventWork EXCEPT ![r].step = step]

-----------------------------------------------------------------------------
(***************************************************************************)
(* ingest_payload.                                                         *)
(***************************************************************************)
Copy(f, v) == {i \in DOMAIN doc[f] : doc[f][i].version = v}

\* A document with chunks that was never invalidated answers at once.
Replayed(f, v) == \E i \in Copy(f, v) : doc[f][i].chunks /\ ~doc[f][i].flagged

\* The documents of the file but the i-th, in the same order.
Without(f, i) == SubSeq(doc[f], 1, i - 1) \o SubSeq(doc[f], i + 1, Len(doc[f]))

\* The documents of the file but that of version v.
Others(f, v) ==
  IF Copy(f, v) = {} THEN doc[f] ELSE Without(f, CHOOSE i \in Copy(f, v) : TRUE)

Retired(f, v) == \E i \in Copy(f, v) : doc[f][i].retired

\* The transaction: a new document, or the metadata of this message merged
\* over those of the old one, which keep its knowledge state and the mark of an
\* invalidation.
Stored(e, f, v) ==
  LET new == [version |-> v, parent |-> e, chunks |-> TRUE,
              flagged |-> \E i \in Copy(f, v) : doc[f][i].flagged, retired |-> Retired(f, v)]
  IN  [doc EXCEPT ![f] = <<new>> \o Others(f, v)]

\* A fresh extraction makes up for an earlier withdrawal, unless it is retired
\* itself or the channel is closed.
Ingest(e, f, v) ==
  /\ doc' = Stored(e, f, v)
  /\ withdrawn' = IF closed \/ Retired(f, v) THEN withdrawn \cup {f} ELSE withdrawn \ {f}

-----------------------------------------------------------------------------
(***************************************************************************)
(* One poll.                                                               *)
(***************************************************************************)
\* Mutants of Stale: the knowledge state is forgotten; any other extraction of
\* the same attachment, and not only a newer one, makes a document stale.
StaleUnlessRetired(f, i) ==
  \/ doc[f][i].parent \in deleted \/ closed
  \/ \E k \in 1..(i - 1) : doc[f][k].parent = doc[f][i].parent
StaleByAny(f, i) ==
  \/ doc[f][i].parent \in deleted \/ closed \/ doc[f][i].retired
  \/ \E k \in DOMAIN doc[f] \ {i} : doc[f][k].parent = doc[f][i].parent

\* The message or the channel is deleted or the channel archived, the document
\* is retired, or the same attachment of the same message has a document of
\* another extraction version that was updated later.
Stale(f, i) ==
  \/ doc[f][i].parent \in deleted \/ closed
  \/ doc[f][i].retired
  \/ \E k \in 1..(i - 1) : doc[f][k].parent = doc[f][i].parent

Invalidate(r) ==
  /\ eventWork[r].step = "polling"
  /\ doc' = [f \in Files |-> [i \in DOMAIN doc[f] |->
       IF Stale(f, i) THEN [doc[f][i] EXCEPT !.chunks = FALSE, !.flagged = TRUE] ELSE doc[f][i]]]
  /\ Step(r, "listing")
  /\ UNCHANGED <<eventRow, deleted, version, late, troubles, changeVars, withdrawn>>

\* Mutant of Pending: a message under way is left to whoever works on it.
PendingButProcessing ==
  {e \in Event \ deleted :
     \/ eventRow[e].status = "absent"
     \/ eventRow[e].status \in {"indexed", "skipped"} /\ eventRow[e].version # version
     \/ eventRow[e].status = "failed" /\ eventRow[e].attempts < MaxEventAttempts /\ eventRow[e].due}

\* PENDING_EVENTS_SQL
Pending ==
  {e \in Event \ deleted :
     \/ eventRow[e].status = "absent"
     \/ eventRow[e].status # "failed" /\ eventRow[e].version # version
     \/ eventRow[e].status = "failed" /\ eventRow[e].attempts < MaxEventAttempts /\ eventRow[e].due}

List(r) ==
  /\ eventWork[r].step = "listing"
  /\ eventWork' = [eventWork EXCEPT ![r].step = "picking", ![r].todo = Pending]
  /\ UNCHANGED <<eventRow, deleted, doc, version, late, troubles, changeVars, withdrawn>>

Sleep(r) ==
  /\ eventWork[r].step = "picking"
  /\ eventWork[r].todo = {}
  /\ eventWork' = [eventWork EXCEPT ![r] = Resting]
  /\ UNCHANGED <<eventRow, deleted, doc, version, late, troubles, changeVars, withdrawn>>

Locked(e) == \E r \in Replicas : Mine(r) = e /\ eventWork[r].held

\* pg_try_advisory_lock: a message somebody else works on is passed over.
Pick(r) ==
  /\ eventWork[r].step = "picking"
  /\ \E e \in eventWork[r].todo :
       /\ \A f \in eventWork[r].todo : e <= f
       /\ eventWork' = [eventWork EXCEPT ![r] =
            IF Locked(e) THEN [eventWork[r] EXCEPT !.todo = @ \ {e}]
            ELSE [eventWork[r] EXCEPT !.step = "locked", !.todo = @ \ {e}, !.event = e, !.held = TRUE,
                                 !.left = FilesOf[e], !.result = "none"]]
  /\ UNCHANGED <<eventRow, deleted, doc, version, late, troubles, changeVars, withdrawn>>

-----------------------------------------------------------------------------
(***************************************************************************)
(* process_event: its statements use the connection that holds the lock.   *)
(***************************************************************************)
Begin(r) ==
  /\ eventWork[r].step = "locked" /\ eventWork[r].held
  /\ eventRow' = [eventRow EXCEPT ![Mine(r)].status = "processing", ![Mine(r)].attempts = @ + 1]
  /\ Step(r, "posting")
  /\ UNCHANGED <<deleted, doc, version, late, troubles, changeVars, withdrawn>>

Answered(r, result) ==
  eventWork' = [eventWork EXCEPT ![r] =
                  [eventWork[r] EXCEPT !.step = "posting", !.left = Tail(@), !.result = result]]

\* The file is fetched and sent; the proxy answers it from an existing
\* document or starts to ingest it.
Post(r) ==
  /\ eventWork[r].step = "posting" /\ eventWork[r].left # <<>>
  /\ IF Replayed(Head(eventWork[r].left), version) THEN Answered(r, "indexed") ELSE Step(r, "waiting")
  /\ UNCHANGED <<eventRow, deleted, doc, version, late, troubles, changeVars, withdrawn>>

\* The document is committed; the answer arrives, or is lost.
Store(r) ==
  /\ eventWork[r].step = "waiting"
  /\ Ingest(Mine(r), Head(eventWork[r].left), version)
  /\ \/ Answered(r, "indexed") /\ UNCHANGED troubles
     \/ Step(r, "broken") /\ Trouble
  /\ UNCHANGED <<eventRow, deleted, version, late, changeVars>>

\* The text cannot be extracted or embedded: the bytes are archived, and
\* there is no document.
Quarantine(r) ==
  /\ eventWork[r].step = "waiting"
  /\ Answered(r, "quarantined")
  /\ Trouble
  /\ UNCHANGED <<eventRow, deleted, doc, version, late, changeVars, withdrawn>>

Request(r) == <<Mine(r), Head(eventWork[r].left), version>>

\* 90 seconds without an answer; the proxy does not notice.
TimeOut(r) ==
  /\ eventWork[r].step = "waiting"
  /\ Trouble
  /\ late' = late \cup {Request(r)}
  /\ Step(r, "broken")
  /\ UNCHANGED <<eventRow, deleted, doc, version, changeVars, withdrawn>>

\* A statement, the fetch of the file or the request fails without effect.
Fail(r) ==
  /\ eventWork[r].step \in {"locked", "posting", "waiting"}
  /\ Trouble
  /\ Step(r, "broken")
  /\ UNCHANGED <<eventRow, deleted, doc, version, late, changeVars, withdrawn>>

\* A statement finds that its connection is gone.
Disconnect(r) ==
  /\ ~eventWork[r].held
  /\ \/ eventWork[r].step = "locked"
     \/ eventWork[r].step = "posting" /\ eventWork[r].left = <<>>
  /\ Step(r, "broken")
  /\ UNCHANGED <<eventRow, deleted, doc, version, late, troubles, changeVars, withdrawn>>

\* The answer to the last file decides for the message.
StatusOf(result) == IF result = "indexed" THEN "indexed" ELSE "skipped"

Finish(r) ==
  /\ eventWork[r].step = "posting" /\ eventWork[r].left = <<>> /\ eventWork[r].held
  /\ eventRow' = [eventRow EXCEPT ![Mine(r)].status = StatusOf(eventWork[r].result), ![Mine(r)].version = version]
  /\ Step(r, "releasing")
  /\ UNCHANGED <<deleted, doc, version, late, troubles, changeVars, withdrawn>>

\* pg_advisory_unlock, in a finally block.
Release(r) ==
  /\ \/ /\ eventWork[r].step = "releasing" /\ eventWork[r].held
        /\ eventWork' = [eventWork EXCEPT ![r] = [Resting EXCEPT !.step = "picking", !.todo = eventWork[r].todo]]
     \/ /\ \/ eventWork[r].step = "broken"
           \/ eventWork[r].step = "releasing" /\ ~eventWork[r].held
        /\ eventWork' = [eventWork EXCEPT ![r].step = "failing", ![r].held = FALSE]
  /\ UNCHANGED <<eventRow, deleted, doc, version, late, troubles, changeVars, withdrawn>>

\* UPDATE ... SET status = 'failed' WHERE event_id, whoever has it by now.
MarkEventFailed(r) ==
  /\ eventWork[r].step = "failing"
  /\ eventRow' = IF eventRow[Mine(r)].status = "absent" THEN eventRow
                 ELSE [eventRow EXCEPT ![Mine(r)].status = "failed", ![Mine(r)].due = FALSE]
  /\ eventWork' = [eventWork EXCEPT ![r] = [Resting EXCEPT !.step = "picking", !.todo = eventWork[r].todo]]
  /\ UNCHANGED <<deleted, doc, version, late, troubles, changeVars, withdrawn>>

-----------------------------------------------------------------------------
(***************************************************************************)
(* The environment.                                                        *)
(***************************************************************************)
Waiting == {r \in Replicas : eventWork[r].step = "waiting"}

CrashReplica(r) ==
  /\ eventWork[r].step # "polling"
  /\ Trouble
  /\ eventWork' = [eventWork EXCEPT ![r] = Resting]
  /\ late' = IF r \in Waiting THEN late \cup {Request(r)} ELSE late
  /\ UNCHANGED <<eventRow, deleted, doc, version, changeVars, withdrawn>>

\* The database connection is lost and with it the lock; the projector
\* notices at its next statement.
LoseLock(r) ==
  /\ eventWork[r].held
  /\ Trouble
  /\ eventWork' = [eventWork EXCEPT ![r].held = FALSE]
  /\ UNCHANGED <<eventRow, deleted, doc, version, late, changeVars, withdrawn>>

\* The projectors are replaced by those of the next extraction version.
Upgrade ==
  /\ version < MaxVersion
  /\ version' = version + 1
  /\ eventWork' = [r \in Replicas |-> Resting]
  /\ late' = late \cup {Request(r) : r \in Waiting}
  /\ UNCHANGED <<eventRow, deleted, doc, troubles, changeVars, withdrawn>>

\* The proxy commits a request nobody waits for any more.
Land(request) ==
  /\ request \in late
  /\ late' = late \ {request}
  /\ Ingest(request[1], request[2], request[3])
  /\ UNCHANGED <<eventRow, deleted, version, eventWork, troubles, changeVars>>

Delete(e) ==
  /\ e \notin deleted
  /\ Change
  /\ deleted' = deleted \cup {e}
  /\ UNCHANGED <<eventRow, closed, doc, version, eventWork, late, troubles, withdrawn>>

\* commit_governance: a document of the file, of whatever extraction, is
\* approved or retired, which makes it the last one updated.  One that is no
\* longer retired does not get back the chunks it has lost.
Review(f, i, retire) ==
  /\ i \in DOMAIN doc[f]
  /\ Change
  /\ doc' = [doc EXCEPT ![f] = <<[doc[f][i] EXCEPT !.retired = retire]>> \o Without(f, i)]
  /\ withdrawn' = IF retire \/ i # 1 THEN withdrawn \cup {f} ELSE withdrawn
  /\ UNCHANGED <<eventRow, deleted, closed, version, eventWork, late, troubles>>

\* The channel is deleted or archived, or brought back.
CloseChannel ==
  /\ ~closed
  /\ Change
  /\ closed' = TRUE
  /\ withdrawn' = Files
  /\ UNCHANGED <<eventRow, deleted, doc, version, eventWork, late, troubles>>

OpenChannel ==
  /\ closed
  /\ closed' = FALSE
  /\ UNCHANGED <<eventRow, deleted, doc, version, eventWork, late, changes, troubles, withdrawn>>

AwaitDelay(e) ==
  /\ eventRow[e].status = "failed" /\ ~eventRow[e].due
  /\ eventRow' = [eventRow EXCEPT ![e].due = TRUE]
  /\ UNCHANGED <<deleted, doc, version, eventWork, late, troubles, changeVars, withdrawn>>

-----------------------------------------------------------------------------
Advance(r) ==
  \/ Invalidate(r) \/ List(r) \/ Sleep(r) \/ Pick(r)
  \/ Begin(r) \/ Post(r) \/ Store(r) \/ Finish(r)
  \/ Disconnect(r) \/ Release(r) \/ MarkEventFailed(r)

EventNext ==
  \/ \E r \in Replicas :
       Advance(r) \/ Quarantine(r) \/ TimeOut(r) \/ Fail(r) \/ CrashReplica(r) \/ LoseLock(r)
  \/ \E e \in Event : Delete(e) \/ AwaitDelay(e)
  \/ \E request \in Requests : Land(request)
  \/ \E f \in Files, i \in 1..MaxVersion, retire \in BOOLEAN : Review(f, i, retire)
  \/ Upgrade \/ CloseChannel \/ OpenChannel

EventSpec == EventInit /\ [][EventNext]_eventVars

\* The projectors are restarted and poll for ever, and delays pass.
FairEventSpec ==
  /\ EventSpec
  /\ \A r \in Replicas : WF_eventVars(Advance(r))
  /\ \A e \in Event : WF_eventVars(AwaitDelay(e))

-----------------------------------------------------------------------------
(***************************************************************************)
(* Properties.                                                             *)
(***************************************************************************)
Live(f) == \E i \in DOMAIN doc[f] : doc[f][i].chunks
Attached(e, f) == \E i \in DOMAIN FilesOf[e] : FilesOf[e][i] = f
LastFile(e) == FilesOf[e][Len(FilesOf[e])]
Indexed(e) == eventRow[e].status = "indexed" /\ e \notin deleted

\* An attachment of a message recorded as indexed stays retrievable, past
\* retries, crashes, new extraction versions and requests that land late (the
\* invalidation of older extractions, and the replay of what exists), unless a
\* message with the same file was deleted, or the file was withdrawn and not
\* ingested again since: by a review that retired a document of it or touched
\* an older extraction, or by the deletion or archival of the channel.
StaysIndexed ==
  \A e \in Event :
    Indexed(e) => \/ Live(LastFile(e)) \/ LastFile(e) \in withdrawn
                  \/ \E d \in deleted : Attached(d, LastFile(e))

\* What a deleted message brought in is removed from retrieval for good, even
\* if it was listed before its deletion or its request lands afterwards; so is
\* a document that stays retired, and everything of a channel that stays closed
\* (invalidate_stale_evidence in every poll).
EvidenceRemoved ==
  /\ <>[](\A f \in Files : \A i \in DOMAIN doc[f] :
            doc[f][i].parent \in deleted => ~doc[f][i].chunks)
  /\ \A f \in Files, v \in Version :
       <>[](closed \/ Retired(f, v)) => <>[](\A i \in Copy(f, v) : ~doc[f][i].chunks)

\* Every message is processed with the last extraction version at last, or is
\* deleted or parked after its last attempt (PENDING_EVENTS_SQL).
EventuallyCaptured ==
  \A e \in Event :
    <>[](\/ eventRow[e].version = version /\ eventRow[e].status # "failed"
         \/ eventRow[e].status = "failed" /\ eventRow[e].attempts >= MaxEventAttempts
         \/ e \in deleted)
=============================================================================
