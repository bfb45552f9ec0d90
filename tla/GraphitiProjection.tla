-------------------------- MODULE GraphitiProjection --------------------------
(***************************************************************************)
(* The projection of session entries into the optional Graphiti graph      *)
(* (graphiti-projector/main.py, control.py, and queue_graphiti_lifecycle   *)
(* of proxy/main.py).                                                      *)
(*                                                                         *)
(* Governance queues a row per entry; the projector claims a row when no   *)
(* add is in flight, calls Graphiti and records the outcome; Graphiti      *)
(* extracts accepted entries in the background and mints the id of the     *)
(* episode, which a later listing reconciles with the row.  Governance may *)
(* requeue a row at any point of this, and between a listing and the       *)
(* updates that follow from it.  All entries are of one group.             *)
(*                                                                         *)
(* Time is two flags of a row: the delay before its next attempt has       *)
(* passed, and its present status has lasted as long as its timeout.       *)
(***************************************************************************)
EXTENDS Naturals, FiniteSets

CONSTANTS
  Entries,      \* session entries, each of a document of its own
  Raw,          \* the entries of session records, projected without a review
  Projectors,   \* running copies of the projector
  MaxAttempts,  \* claims of a row before it is a dead letter (8)
  MaxAdds,      \* bound: adds accepted by Graphiti
  MaxQueued,    \* bound: times one entry is queued for addition
  MaxReviews,   \* bound: archivals and supersessions
  MaxRequeues,  \* bound: operator replays
  MaxCrashes,   \* bound: projector crashes
  MaxFaults,    \* bound: failed calls and extractions
  MaxTroubles   \* bound: all of these four together

ASSUME RawAssumption == Raw \subseteq Entries
ASSUME BoundsAssumption ==
  /\ MaxAttempts \in Nat \ {0} /\ MaxAdds \in Nat /\ MaxQueued \in Nat \ {0}
  /\ MaxReviews \in Nat /\ MaxRequeues \in Nat /\ MaxCrashes \in Nat /\ MaxFaults \in Nat
  /\ MaxTroubles \in Nat

Episode == 1..MaxAdds

VARIABLES
  row,       \* [Entries -> row of gcor.graphiti_projection]
  state,     \* [Entries -> knowledge state of the entry's document]
  queued,    \* [Entries -> times it was queued for addition]
  work,      \* [Projectors -> the claimed row, and its progress]
  listed,    \* [Projectors -> <<entry, episode>> listed and not looked at yet]
  accepted,  \* <<entry, episode>> extractions Graphiti has yet to finish
  graph,     \* <<entry, episode>> episodes that can be listed
  adds,      \* adds accepted so far
  spent      \* reviews, requeues, crashes and faults so far

vars == <<row, state, queued, work, listed, accepted, graph, adds, spent>>

NoWork == [step |-> "idle"]
Row == [operation : {"add", "delete"}, status : {"pending", "processing", "submitted", "failed", "skipped"},
        attempts : 0..MaxAttempts, episode : Episode \cup {0}, reconciled : BOOLEAN,
        due : BOOLEAN, aged : BOOLEAN]
Work == [step : {"calling", "called", "failed"}, entry : Entries,
         operation : {"add", "delete"}, episode : Episode \cup {0}]
States == {"none", "proposed", "approved", "superseded", "archived"}

\* Every variable stays in its declared set.
TypeOK ==
  /\ row \in [Entries -> Row]
  /\ state \in [Entries -> States]
  /\ queued \in [Entries -> 0..MaxQueued]
  /\ work \in [Projectors -> Work \cup {NoWork}]
  /\ listed \in [Projectors -> SUBSET (Entries \X Episode)]
  /\ accepted \subseteq Entries \X Episode
  /\ graph \subseteq Entries \X Episode
  /\ adds \in 0..MaxAdds
  /\ spent \in [reviews : 0..MaxReviews, requeues : 0..MaxRequeues, crashes : 0..MaxCrashes, faults : 0..MaxFaults]

\* The entries of proposals are skipped, those of session records are queued.
Init ==
  /\ row = [e \in Entries |-> [operation |-> "add", status |-> IF e \in Raw THEN "pending" ELSE "skipped",
                               attempts |-> 0, episode |-> 0,
                               reconciled |-> FALSE, due |-> TRUE, aged |-> FALSE]]
  /\ state = [e \in Entries |-> IF e \in Raw THEN "none" ELSE "proposed"]
  /\ queued = [e \in Entries |-> IF e \in Raw THEN 1 ELSE 0]
  /\ work = [p \in Projectors |-> NoWork]
  /\ listed = [p \in Projectors |-> {}]
  /\ accepted = {}
  /\ graph = {}
  /\ adds = 0
  /\ spent = [reviews |-> 0, requeues |-> 0, crashes |-> 0, faults |-> 0]

Set(e, new) == row' = [row EXCEPT ![e] = new]
MoreTrouble == spent.reviews + spent.requeues + spent.crashes + spent.faults < MaxTroubles
Fault == spent.faults < MaxFaults /\ MoreTrouble /\ spent' = [spent EXCEPT !.faults = @ + 1]

-----------------------------------------------------------------------------
(***************************************************************************)
(* Governance: queue_graphiti_lifecycle in the governance transaction.     *)
(***************************************************************************)
Queued(r, operation) ==
  [r EXCEPT !.operation = operation, !.status = "pending", !.attempts = 0, !.due = TRUE, !.aged = FALSE]

Approve(e) ==
  /\ queued[e] < MaxQueued
  /\ queued' = [queued EXCEPT ![e] = @ + 1]
  /\ state' = [state EXCEPT ![e] = "approved"]
  /\ Set(e, Queued(row[e], "add"))
  /\ UNCHANGED <<work, listed, accepted, graph, adds, spent>>

Reviewed ==
  /\ spent.reviews < MaxReviews /\ MoreTrouble
  /\ spent' = [spent EXCEPT !.reviews = @ + 1]
  /\ UNCHANGED <<queued, work, listed, accepted, graph, adds>>

\* archived or rejected: only an entry known to be in the graph is removed.
Archive(e) ==
  /\ Reviewed
  /\ state' = [state EXCEPT ![e] = "archived"]
  /\ Set(e, IF row[e].status = "submitted" /\ row[e].reconciled THEN Queued(row[e], "delete") ELSE row[e])

Supersede(e) ==
  /\ Reviewed
  /\ state' = [state EXCEPT ![e] = "superseded"]
  /\ UNCHANGED row

-----------------------------------------------------------------------------
(***************************************************************************)
(* The projector.                                                          *)
(***************************************************************************)
Reconcilable(e) == row[e].status \in {"submitted", "failed", "processing"} /\ ~row[e].reconciled

\* The listing of a poll is done and its updates are made.
Idle(p) == work[p].step = "idle" /\ listed[p] = {}

\* get_episodes, if an added row waits for its episode.  What is listed of rows that
\* have theirs is passed over in any case.
ListEpisodes(p) ==
  /\ Idle(p)
  /\ \E e \in Entries : row[e].operation = "add" /\ Reconcilable(e)
  /\ listed' = [listed EXCEPT ![p] = {episode \in graph : ~row[episode[1]].reconciled}]
  /\ UNCHANGED <<row, state, queued, work, accepted, graph, adds, spent>>

\* A listed episode gives its id to its row, if that still waits for one; if
\* the document was archived in the meantime the row is queued for deletion.
Reconciled(r, id, archived) ==
  [r EXCEPT !.episode = id, !.reconciled = TRUE, !.aged = FALSE,
            !.operation = IF archived THEN "delete" ELSE @,
            !.status = IF archived THEN "pending" ELSE "submitted"]

Reconcile(p, e, id) ==
  /\ <<e, id>> \in listed[p]
  /\ listed' = [listed EXCEPT ![p] = @ \ {<<e, id>>}]
  /\ Set(e, IF Reconcilable(e) THEN Reconciled(row[e], id, state[e] = "archived") ELSE row[e])
  /\ UNCHANGED <<state, queued, work, accepted, graph, adds, spent>>

InFlight(e) == row[e].operation = "add" /\ row[e].status = "submitted" /\ ~row[e].reconciled

\* Mutant of Expire: an unanswered submission keeps its place for ever.
ExpireNothing(p) == FALSE

\* 45 minutes without an episode: the submission has failed.
Expire(p) ==
  /\ Idle(p)
  /\ \E e \in Entries : InFlight(e) /\ row[e].aged
  /\ row' = [e \in Entries |-> IF InFlight(e) /\ row[e].aged
                               THEN [row[e] EXCEPT !.status = "failed", !.due = FALSE, !.aged = FALSE]
                               ELSE row[e]]
  /\ UNCHANGED <<state, queued, work, listed, accepted, graph, adds, spent>>

Ready(e) ==
  \/ row[e].status \in {"pending", "failed"} /\ row[e].due
  \/ row[e].status = "processing" /\ row[e].aged

\* Mutant of Claimable: submissions in flight are not looked at.
ClaimableAtOnce(e) == Ready(e) /\ row[e].attempts < MaxAttempts

Claimable(e) ==
  /\ row[e].attempts < MaxAttempts
  /\ ~\E f \in Entries : InFlight(f)
  /\ Ready(e)

Claim(p, e) ==
  /\ Idle(p)
  /\ Claimable(e)
  /\ Set(e, [row[e] EXCEPT !.status = "processing", !.attempts = @ + 1, !.aged = FALSE])
  /\ work' = [work EXCEPT ![p] = [step |-> "calling", entry |-> e, operation |-> row[e].operation,
                                  episode |-> row[e].episode]]
  /\ UNCHANGED <<state, queued, listed, accepted, graph, adds, spent>>

\* add_memory: Graphiti takes the entry; the answer may be lost.
CallAdd(p) ==
  /\ work[p].step = "calling" /\ work[p].operation = "add"
  /\ adds < MaxAdds
  /\ adds' = adds + 1
  /\ accepted' = accepted \cup {<<work[p].entry, adds + 1>>}
  /\ \/ work' = [work EXCEPT ![p].step = "called"] /\ UNCHANGED spent
     \/ work' = [work EXCEPT ![p].step = "failed"] /\ Fault
  /\ UNCHANGED <<row, state, queued, listed, graph>>

\* delete_episode
CallDelete(p) ==
  /\ work[p].step = "calling" /\ work[p].operation = "delete"
  /\ graph' = graph \ {<<work[p].entry, work[p].episode>>}
  /\ \/ work' = [work EXCEPT ![p].step = "called"] /\ UNCHANGED spent
     \/ work' = [work EXCEPT ![p].step = "failed"] /\ Fault
  /\ UNCHANGED <<row, state, queued, listed, accepted, adds>>

CallFails(p) ==
  /\ work[p].step = "calling"
  /\ work' = [work EXCEPT ![p].step = "failed"]
  /\ Fault
  /\ UNCHANGED <<row, state, queued, listed, accepted, graph, adds>>

\* Mutant of Submitted: an add counts as reconciled when it is accepted.
SubmittedReconciled(r, operation) == [r EXCEPT !.status = "submitted", !.aged = FALSE, !.reconciled = TRUE]

\* The row's own status and operation are not looked at.
Submitted(r, operation) ==
  [r EXCEPT !.status = "submitted", !.aged = FALSE, !.reconciled = @ \/ operation = "delete"]

MarkSubmitted(p) ==
  /\ work[p].step = "called"
  /\ Set(work[p].entry, Submitted(row[work[p].entry], work[p].operation))
  /\ work' = [work EXCEPT ![p] = NoWork]
  /\ UNCHANGED <<state, queued, listed, accepted, graph, adds, spent>>

MarkFailed(p) ==
  /\ work[p].step = "failed"
  /\ Set(work[p].entry, [row[work[p].entry] EXCEPT !.status = "failed", !.due = FALSE, !.aged = FALSE])
  /\ work' = [work EXCEPT ![p] = NoWork]
  /\ UNCHANGED <<state, queued, listed, accepted, graph, adds, spent>>

\* control.py replay: failed rows are queued again, exhausted ones afresh.
Requeue(e) ==
  /\ row[e].status = "failed"
  /\ spent.requeues < MaxRequeues /\ MoreTrouble
  /\ spent' = [spent EXCEPT !.requeues = @ + 1]
  /\ Set(e, [row[e] EXCEPT !.status = "pending", !.due = TRUE, !.aged = FALSE,
               !.attempts = IF @ >= MaxAttempts THEN 0 ELSE @])
  /\ UNCHANGED <<state, queued, work, listed, accepted, graph, adds>>

-----------------------------------------------------------------------------
(***************************************************************************)
(* Graphiti, time and crashes.                                             *)
(***************************************************************************)
Extract(e, id) ==
  /\ <<e, id>> \in accepted
  /\ accepted' = accepted \ {<<e, id>>}
  /\ graph' = graph \cup {<<e, id>>}
  /\ UNCHANGED <<row, state, queued, work, listed, adds, spent>>

\* The background extraction fails, and the entry never becomes queryable.
Drop(e, id) ==
  /\ <<e, id>> \in accepted
  /\ accepted' = accepted \ {<<e, id>>}
  /\ Fault
  /\ UNCHANGED <<row, state, queued, work, listed, graph, adds>>

Wait(e) ==
  /\ row[e].status \in {"pending", "failed"} /\ ~row[e].due
  /\ row' = [row EXCEPT ![e].due = TRUE]
  /\ UNCHANGED <<state, queued, work, listed, accepted, graph, adds, spent>>

\* A claim outlives its timeout when its projector is gone, a submission when
\* Graphiti has nothing left to extract for it.
Age(e) ==
  /\ ~row[e].aged
  /\ \/ row[e].status = "processing" /\ ~\E p \in Projectors : work[p].step # "idle" /\ work[p].entry = e
     \/ InFlight(e) /\ ~\E id \in Episode : <<e, id>> \in accepted
  /\ row' = [row EXCEPT ![e].aged = TRUE]
  /\ UNCHANGED <<state, queued, work, listed, accepted, graph, adds, spent>>

Crash(p) ==
  /\ ~Idle(p)
  /\ spent.crashes < MaxCrashes /\ MoreTrouble
  /\ spent' = [spent EXCEPT !.crashes = @ + 1]
  /\ work' = [work EXCEPT ![p] = NoWork]
  /\ listed' = [listed EXCEPT ![p] = {}]
  /\ UNCHANGED <<row, state, queued, accepted, graph, adds>>

-----------------------------------------------------------------------------
Update(p) == \E e \in Entries, id \in Episode : Reconcile(p, e, id)
Poll(p) == ListEpisodes(p) \/ Update(p) \/ Expire(p)
Call(p) == CallAdd(p) \/ CallDelete(p) \/ CallFails(p) \/ MarkSubmitted(p) \/ MarkFailed(p)

Next ==
  \/ \E e \in Entries : Approve(e) \/ Archive(e) \/ Supersede(e) \/ Requeue(e) \/ Wait(e) \/ Age(e)
  \/ \E p \in Projectors : Poll(p) \/ Call(p) \/ Crash(p)
  \/ \E p \in Projectors, e \in Entries : Claim(p, e)
  \/ \E e \in Entries, id \in Episode : Extract(e, id) \/ Drop(e, id)

Spec == Init /\ [][Next]_vars

\* The projector is restarted and loops for ever, taking the oldest attempt
\* first; every poll lists, reconciles and expires before it claims; an
\* accepted extraction ends one way or the other; time passes.
FairSpec ==
  /\ Spec
  /\ \A p \in Projectors :
       SF_vars(ListEpisodes(p)) /\ WF_vars(Update(p)) /\ SF_vars(Expire(p)) /\ WF_vars(Call(p))
  /\ \A p \in Projectors, e \in Entries : SF_vars(Claim(p, e))
  /\ \A e \in Entries : WF_vars(Wait(e)) /\ WF_vars(Age(e))
  /\ \A e \in Entries, id \in Episode : WF_vars(Extract(e, id) \/ Drop(e, id))

-----------------------------------------------------------------------------
(***************************************************************************)
(* Properties.                                                             *)
(***************************************************************************)

\* The row of an entry that was queued once and counts as delivered and
\* reconciled names an episode that is in the graph: "reconciles Graphiti's
\* minted episode UUID back to the authoritative entry after background
\* processing" (README.md).  A row that is queued again keeps its mark and its
\* old episode (queue_graphiti_lifecycle), and nothing of the kind holds of it.
ReconciledIsReal ==
  \A e \in Entries :
    /\ queued[e] <= 1
    /\ row[e].operation = "add" /\ row[e].status = "submitted" /\ row[e].reconciled
    => <<e, row[e].episode>> \in graph

\* One projector never has two submissions that wait for their episode, even
\* when rows are requeued while their calls run (claim_entry; README.md:
\* "in_flight should never exceed one").
OneInFlight == Cardinality({e \in Entries : InFlight(e)}) <= 1

\* Published knowledge is not stuck behind the one global place for an add in
\* flight: its row is delivered, given up as a dead letter or withdrawn.
EventuallyProjected ==
  \A e \in Entries : state[e] \in {"none", "approved"} ~>
    \/ row[e].status = "submitted" /\ row[e].reconciled
    \/ row[e].attempts = MaxAttempts
    \/ state[e] \notin {"none", "approved"}
=============================================================================
