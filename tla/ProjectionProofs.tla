--------------------------- MODULE ProjectionProofs ---------------------------
(***************************************************************************)
(* Proofs about the projections into retrieval: of governance decisions    *)
(* into Graphiti (module GraphitiProjection) and of messages and their     *)
(* attachments (module EventProjection).                                   *)
(*                                                                         *)
(* Graphiti: the claim looks for a submission in flight, and the row it    *)
(* takes is in flight only after the call.  What keeps the two apart is    *)
(* that a single projector claims nothing during its call and that nobody  *)
(* else submits: while it is at work, nothing is in flight (QuietAtWork).  *)
(*                                                                         *)
(* Messages: a document of a file never goes away again, and the one that  *)
(* was updated last is never made stale by an older one; only a review or  *)
(* the channel withdraws it (FrontLive).                                   *)
(***************************************************************************)
EXTENDS GraphitiProjection, EventProjection, SequenceTheorems, FiniteSetTheorems, TLAPS

\* What queueing, claiming, reconciling, submitting, failing and replaying a
\* row make of it is a row again.
LEMMA QueuedRow == ASSUME NEW r \in Row, NEW operation \in {"add", "delete"}
                   PROVE  Queued(r, operation) \in Row
  <1>1. 0 \in 0..MaxAttempts
    BY BoundsAssumption
  <1> QED
    BY <1>1 DEF Row, Queued

LEMMA SubmittedRow == ASSUME NEW r \in Row, NEW operation \in {"add", "delete"}
                      PROVE  Submitted(r, operation) \in Row
  BY DEF Row, Submitted

LEMMA ReplayedRow == ASSUME NEW r \in Row, NEW n \in 0..MaxAttempts
                     PROVE  [r EXCEPT !.status = "pending", !.due = TRUE, !.aged = FALSE,
                                      !.attempts = n] \in Row
  BY DEF Row

LEMMA ReconciledRow == ASSUME NEW r \in Row, NEW id \in Episode, NEW archived \in BOOLEAN
                       PROVE  /\ Reconciled(r, id, archived) \in Row
                              /\ Reconciled(r, id, archived).reconciled
                              /\ Reconciled(r, id, archived).episode = id
                              /\ r.operation = "delete" => Reconciled(r, id, archived).operation = "delete"
  <1> DEFINE operation == IF archived THEN "delete" ELSE r.operation
             status == IF archived THEN "pending" ELSE "submitted"
  <1>1. /\ operation \in {"add", "delete"} /\ status \in {"pending", "submitted"}
        /\ r.operation = "delete" => operation = "delete"
    BY DEF Row
  <1>2. Reconciled(r, id, archived)
          = [r EXCEPT !.episode = id, !.reconciled = TRUE, !.aged = FALSE,
                      !.operation = operation, !.status = status]
    BY DEF Reconciled
  <1> HIDE DEF operation, status
  <1> QED
    BY <1>1, <1>2 DEF Row

LEMMA FailedRow == ASSUME NEW r \in Row
                   PROVE  [r EXCEPT !.status = "failed", !.due = FALSE, !.aged = FALSE] \in Row
  BY DEF Row

LEMMA ClaimedRow == ASSUME NEW r \in Row, r.attempts < MaxAttempts
                    PROVE  [r EXCEPT !.status = "processing", !.attempts = @ + 1, !.aged = FALSE] \in Row
  <1>1. r.attempts + 1 \in 0..MaxAttempts
    BY BoundsAssumption DEF Row
  <1> QED
    BY <1>1 DEF Row

LEMMA InitTyped == Init => TypeOK
  <1> SUFFICES ASSUME Init PROVE TypeOK
    OBVIOUS
  <1> USE RawAssumption, BoundsAssumption DEF Init
  <1>1. row \in [Entries -> Row]
    BY DEF Row
  <1>2. state \in [Entries -> States]
    BY DEF States
  <1>3. queued \in [Entries -> 0..MaxQueued]
    OBVIOUS
  <1>4. work \in [Projectors -> Work \cup {NoWork}]
    OBVIOUS
  <1>5. adds \in 0..MaxAdds /\ accepted = {} /\ graph = {}
        /\ listed \in [Projectors -> SUBSET (Entries \X Episode)]
    OBVIOUS
  <1>6. spent \in [reviews : 0..MaxReviews, requeues : 0..MaxRequeues, crashes : 0..MaxCrashes,
                   faults : 0..MaxFaults]
    OBVIOUS
  <1> QED
    BY <1>1, <1>2, <1>3, <1>4, <1>5, <1>6 DEF TypeOK

\* Counting a fault keeps the type of the counters.
LEMMA FaultTyped ==
  ASSUME TypeOK, Fault
  PROVE  spent' \in [reviews : 0..MaxReviews, requeues : 0..MaxRequeues, crashes : 0..MaxCrashes,
                     faults : 0..MaxFaults]
  BY BoundsAssumption DEF TypeOK, Fault

\* A projector that is at work holds a claimed row.
LEMMA AtWork ==
  ASSUME TypeOK, NEW p \in Projectors, work[p].step # "idle"
  PROVE  work[p] \in Work /\ work[p].entry \in Entries
  <1>1. work[p] \in Work \cup {NoWork}
    BY DEF TypeOK
  <1> QED
    BY <1>1 DEF NoWork, Work

LEMMA StepTyped == TypeOK /\ [Next]_vars => TypeOK'
  <1> SUFFICES ASSUME TypeOK, [Next]_vars PROVE TypeOK'
    OBVIOUS
  <1> USE BoundsAssumption
  <1>1. ASSUME NEW e \in Entries, Approve(e) PROVE TypeOK'
    <2>1. Queued(row[e], "add") \in Row
      BY QueuedRow DEF TypeOK
    <2>2. queued[e] + 1 \in 0..MaxQueued
      BY <1>1 DEF TypeOK, Approve
    <2> QED
      BY <1>1, <2>1, <2>2 DEF TypeOK, Approve, Set, States
  <1>2. ASSUME NEW e \in Entries, Archive(e) PROVE TypeOK'
    <2>1. Queued(row[e], "delete") \in Row
      BY QueuedRow DEF TypeOK
    <2>2. spent' \in [reviews : 0..MaxReviews, requeues : 0..MaxRequeues, crashes : 0..MaxCrashes,
                      faults : 0..MaxFaults]
      BY <1>2 DEF TypeOK, Archive, Reviewed
    <2> QED
      BY <1>2, <2>1, <2>2 DEF TypeOK, Archive, Reviewed, Set, States
  <1>3. ASSUME NEW e \in Entries, Supersede(e) PROVE TypeOK'
    <2>1. spent' \in [reviews : 0..MaxReviews, requeues : 0..MaxRequeues, crashes : 0..MaxCrashes,
                      faults : 0..MaxFaults]
      BY <1>3 DEF TypeOK, Supersede, Reviewed
    <2> QED
      BY <1>3, <2>1 DEF TypeOK, Supersede, Reviewed, States
  <1>4. ASSUME NEW e \in Entries, Requeue(e) PROVE TypeOK'
    <2> DEFINE n == IF row[e].attempts >= MaxAttempts THEN 0 ELSE row[e].attempts
    <2>0. row[e] \in Row
      BY DEF TypeOK
    <2>3. n \in 0..MaxAttempts
      BY <2>0 DEF Row
    <2>4. [row[e] EXCEPT !.status = "pending", !.due = TRUE, !.aged = FALSE, !.attempts = n] \in Row
      BY <2>0, <2>3, ReplayedRow
    <2>1. row' \in [Entries -> Row]
      BY <1>4, <2>4 DEF TypeOK, Requeue, Set
    <2>2. spent' \in [reviews : 0..MaxReviews, requeues : 0..MaxRequeues, crashes : 0..MaxCrashes,
                      faults : 0..MaxFaults]
      BY <1>4 DEF TypeOK, Requeue
    <2> QED
      BY <1>4, <2>1, <2>2 DEF TypeOK, Requeue
  <1>5. ASSUME NEW e \in Entries, Wait(e) \/ Age(e) PROVE TypeOK'
    <2>2. row[e] \in Row
      BY DEF TypeOK
    <2>3. [row[e] EXCEPT !.due = TRUE] \in Row /\ [row[e] EXCEPT !.aged = TRUE] \in Row
      BY <2>2 DEF Row
    <2>1. row' \in [Entries -> Row]
      BY <1>5, <2>3 DEF TypeOK, Wait, Age
    <2> QED
      BY <1>5, <2>1 DEF TypeOK, Wait, Age
  <1>6. ASSUME NEW p \in Projectors, NEW e \in Entries, NEW id \in Episode, Reconcile(p, e, id)
        PROVE  TypeOK'
    <2> DEFINE new == IF Reconcilable(e) THEN Reconciled(row[e], id, state[e] = "archived") ELSE row[e]
    <2>1. row[e] \in Row
      BY DEF TypeOK
    <2>2. new \in Row
      BY <2>1, ReconciledRow
    <2>3. row' = [row EXCEPT ![e] = new]
      BY <1>6 DEF Reconcile, Set
    <2> HIDE DEF new
    <2>4. row' \in [Entries -> Row]
      BY <2>2, <2>3 DEF TypeOK
    <2>5. listed' \in [Projectors -> SUBSET (Entries \X Episode)]
      BY <1>6 DEF TypeOK, Reconcile
    <2> QED
      BY <1>6, <2>4, <2>5 DEF TypeOK, Reconcile
  <1>19. ASSUME NEW p \in Projectors, ListEpisodes(p) PROVE TypeOK'
    <2>1. listed' \in [Projectors -> SUBSET (Entries \X Episode)]
      BY <1>19 DEF TypeOK, ListEpisodes
    <2> QED
      BY <1>19, <2>1 DEF TypeOK, ListEpisodes
  <1>7. ASSUME NEW p \in Projectors, Expire(p) PROVE TypeOK'
    <2>1. \A e \in Entries : row[e] \in Row
                            /\ [row[e] EXCEPT !.status = "failed", !.due = FALSE, !.aged = FALSE] \in Row
      BY FailedRow DEF TypeOK
    <2>2. row' \in [Entries -> Row]
      BY <1>7, <2>1 DEF Expire
    <2> QED
      BY <1>7, <2>2 DEF TypeOK, Expire
  <1>8. ASSUME NEW p \in Projectors, NEW e \in Entries, Claim(p, e) PROVE TypeOK'
    <2>3. [row[e] EXCEPT !.status = "processing", !.attempts = @ + 1, !.aged = FALSE] \in Row
      BY <1>8, ClaimedRow DEF TypeOK, Claim, Claimable
    <2>1. row' \in [Entries -> Row]
      BY <1>8, <2>3 DEF TypeOK, Claim, Set
    <2>2. [step |-> "calling", entry |-> e, operation |-> row[e].operation,
           episode |-> row[e].episode] \in Work
      BY DEF TypeOK, Work, Row
    <2> QED
      BY <1>8, <2>1, <2>2 DEF TypeOK, Claim
  <1>9. ASSUME NEW p \in Projectors, NEW step \in {"called", "failed"}, work[p].step # "idle",
               work' = [work EXCEPT ![p].step = step]
        PROVE  work' \in [Projectors -> Work \cup {NoWork}]
    <2>1. [work[p] EXCEPT !.step = step] \in Work
      BY <1>9, AtWork DEF Work
    <2> QED
      BY <1>9, <2>1 DEF TypeOK
  <1>10. ASSUME NEW p \in Projectors, CallAdd(p) PROVE TypeOK'
    <2>1. work' \in [Projectors -> Work \cup {NoWork}]
      BY <1>9, <1>10 DEF CallAdd
    <2>2. spent' \in [reviews : 0..MaxReviews, requeues : 0..MaxRequeues, crashes : 0..MaxCrashes,
                      faults : 0..MaxFaults]
      BY <1>10, FaultTyped DEF CallAdd, TypeOK
    <2>3. adds' \in 0..MaxAdds /\ adds + 1 \in Episode
      BY <1>10 DEF TypeOK, CallAdd, Episode
    <2>4. work[p].entry \in Entries
      BY <1>10, AtWork DEF CallAdd
    <2>5. accepted' \subseteq Entries \X Episode
      BY <1>10, <2>3, <2>4 DEF TypeOK, CallAdd
    <2> QED
      BY <1>10, <2>1, <2>2, <2>3, <2>5 DEF TypeOK, CallAdd
  <1>11. ASSUME NEW p \in Projectors, CallDelete(p) PROVE TypeOK'
    <2>1. work' \in [Projectors -> Work \cup {NoWork}]
      BY <1>9, <1>11 DEF CallDelete
    <2>2. spent' \in [reviews : 0..MaxReviews, requeues : 0..MaxRequeues, crashes : 0..MaxCrashes,
                      faults : 0..MaxFaults]
      BY <1>11, FaultTyped DEF CallDelete, TypeOK
    <2> QED
      BY <1>11, <2>1, <2>2 DEF TypeOK, CallDelete
  <1>12. ASSUME NEW p \in Projectors, CallFails(p) PROVE TypeOK'
    <2>1. work' \in [Projectors -> Work \cup {NoWork}]
      BY <1>9, <1>12 DEF CallFails
    <2> QED
      BY <1>12, <2>1, FaultTyped DEF TypeOK, CallFails
  <1>13. ASSUME NEW p \in Projectors, MarkSubmitted(p) PROVE TypeOK'
    <2>1. work[p].entry \in Entries
      BY <1>13, AtWork DEF MarkSubmitted
    <2>3. work[p].operation \in {"add", "delete"}
      BY <1>13, AtWork DEF MarkSubmitted, Work
    <2>2. Submitted(row[work[p].entry], work[p].operation) \in Row
      BY <2>1, <2>3, SubmittedRow DEF TypeOK
    <2> QED
      BY <1>13, <2>1, <2>2 DEF TypeOK, MarkSubmitted, Set
  <1>14. ASSUME NEW p \in Projectors, MarkFailed(p) PROVE TypeOK'
    <2>1. work[p].entry \in Entries
      BY <1>14, AtWork DEF MarkFailed
    <2>2. [row[work[p].entry] EXCEPT !.status = "failed", !.due = FALSE, !.aged = FALSE] \in Row
      BY <2>1, FailedRow DEF TypeOK
    <2> QED
      BY <1>14, <2>1, <2>2 DEF TypeOK, MarkFailed, Set
  <1>15. ASSUME NEW p \in Projectors, Crash(p) PROVE TypeOK'
    <2>1. spent' \in [reviews : 0..MaxReviews, requeues : 0..MaxRequeues, crashes : 0..MaxCrashes,
                      faults : 0..MaxFaults]
      BY <1>15 DEF TypeOK, Crash
    <2>2. listed' \in [Projectors -> SUBSET (Entries \X Episode)]
      BY <1>15 DEF TypeOK, Crash
    <2> QED
      BY <1>15, <2>1, <2>2 DEF TypeOK, Crash
  <1>16. ASSUME NEW e \in Entries, NEW id \in Episode, Extract(e, id) PROVE TypeOK'
    BY <1>16 DEF TypeOK, Extract
  <1>17. ASSUME NEW e \in Entries, NEW id \in Episode, Drop(e, id) PROVE TypeOK'
    BY <1>17, FaultTyped DEF TypeOK, Drop
  <1>18. CASE UNCHANGED vars
    BY <1>18 DEF TypeOK, vars
  <1> QED
    BY <1>1, <1>2, <1>3, <1>4, <1>5, <1>6, <1>7, <1>8, <1>10, <1>11, <1>12, <1>13, <1>14, <1>15, <1>16,
       <1>17, <1>18, <1>19 DEF Next, Poll, Update, Call

\* Every variable keeps its type and every counter its bound, whatever is
\* queued, called, extracted, expired and replayed.
THEOREM TypeCorrect == Spec => []TypeOK
  BY InitTyped, StepTyped, PTL DEF Spec

-----------------------------------------------------------------------------
\* Nothing is in flight while a projector is at work.
QuietAtWork == \A p \in Projectors : work[p].step # "idle" => \A e \in Entries : ~InFlight(e)

AtMostOne == \A e, f \in Entries : InFlight(e) /\ InFlight(f) => e = f

OneProjector == \A p, q \in Projectors : p = q

\* A row that is not submitted by the step is in flight after it only if it
\* was so before.
LEMMA NothingNewInFlight ==
  ASSUME TypeOK, [Next]_vars, NEW f \in Entries, InFlight(f)',
         \A p \in Projectors : ~(MarkSubmitted(p) /\ work[p].entry = f)
  PROVE  InFlight(f)
  <1>1. ASSUME NEW e \in Entries, Approve(e) \/ Archive(e) \/ Supersede(e) \/ Requeue(e) \/ Wait(e) \/ Age(e)
        PROVE  InFlight(f)
    <2>1. row' = [row EXCEPT ![e] = row'[e]]
      BY <1>1 DEF TypeOK, Approve, Archive, Supersede, Requeue, Wait, Age, Set
    <2>2. row[e] \in Row
      BY DEF TypeOK
    <2>3. row'[e].status \in {"pending", row[e].status}
          /\ (row'[e].status = "pending" \/ (row'[e].operation = row[e].operation
                                             /\ row'[e].reconciled = row[e].reconciled))
      <3>1. CASE Approve(e)
        BY <2>2, <3>1 DEF TypeOK, Approve, Set, Queued, Row
      <3>2. CASE Archive(e)
        BY <2>2, <3>2 DEF TypeOK, Archive, Set, Queued, Row
      <3>3. CASE Supersede(e)
        BY <3>3 DEF Supersede
      <3>4. CASE Requeue(e)
        BY <2>2, <3>4 DEF TypeOK, Requeue, Set, Row
      <3>5. CASE Wait(e) \/ Age(e)
        BY <2>2, <3>5 DEF TypeOK, Wait, Age, Row
      <3> QED
        BY <1>1, <3>1, <3>2, <3>3, <3>4, <3>5
    <2> QED
      BY <2>1, <2>3 DEF TypeOK, InFlight
  <1>2. ASSUME NEW p \in Projectors, Poll(p) PROVE InFlight(f)
    <2>1. CASE Expire(p)
      BY <2>1 DEF TypeOK, Expire, InFlight, Row
    <2>2. ASSUME NEW e \in Entries, NEW id \in Episode, Reconcile(p, e, id) PROVE InFlight(f)
      <3>1. row[e] \in Row
        BY DEF TypeOK
      <3>2. row' = [row EXCEPT ![e] = row'[e]] /\ (row'[e] = row[e] \/ row'[e].reconciled)
        BY <2>2, <3>1, ReconciledRow DEF TypeOK, Reconcile, Set
      <3> QED
        BY <3>2 DEF TypeOK, InFlight
    <2>3. CASE ListEpisodes(p)
      BY <2>3 DEF ListEpisodes, InFlight
    <2> QED
      BY <1>2, <2>1, <2>2, <2>3 DEF Poll, Update
  <1>3. ASSUME NEW p \in Projectors, MarkSubmitted(p) PROVE InFlight(f)
    <2>1. work[p].entry \in Entries /\ work[p].entry # f
      BY <1>3, AtWork DEF MarkSubmitted
    <2> QED
      BY <1>3, <2>1 DEF TypeOK, MarkSubmitted, Set, InFlight
  <1>4. ASSUME NEW p \in Projectors, MarkFailed(p) PROVE InFlight(f)
    <2>1. work[p].entry \in Entries
      BY <1>4, AtWork DEF MarkFailed
    <2> QED
      BY <1>4, <2>1 DEF TypeOK, MarkFailed, Set, InFlight, Row
  <1>5. ASSUME NEW p \in Projectors, NEW e \in Entries, Claim(p, e) PROVE InFlight(f)
    BY <1>5 DEF TypeOK, Claim, Set, InFlight, Row
  <1>6. ASSUME UNCHANGED row PROVE InFlight(f)
    BY <1>6 DEF InFlight
  <1>7. ASSUME NEW p \in Projectors, CallAdd(p) \/ CallDelete(p) \/ CallFails(p) \/ Crash(p)
        PROVE  InFlight(f)
    BY <1>6, <1>7 DEF CallAdd, CallDelete, CallFails, Crash
  <1>8. ASSUME NEW e \in Entries, NEW id \in Episode, Extract(e, id) \/ Drop(e, id) PROVE InFlight(f)
    BY <1>6, <1>8 DEF Extract, Drop
  <1>9. CASE UNCHANGED vars
    BY <1>6, <1>9 DEF vars
  <1> QED
    BY <1>1, <1>2, <1>3, <1>4, <1>5, <1>7, <1>8, <1>9 DEF Next, Call

LEMMA StepQuiet ==
  ASSUME TypeOK, OneProjector, QuietAtWork, AtMostOne, [Next]_vars
  PROVE  QuietAtWork' /\ AtMostOne'
  <1>1. ASSUME NEW p \in Projectors, MarkSubmitted(p) PROVE QuietAtWork' /\ AtMostOne'
    <2>1. \A q \in Projectors : work'[q].step = "idle"
      BY <1>1 DEF TypeOK, OneProjector, MarkSubmitted, NoWork
    <2>2. ASSUME NEW f \in Entries, InFlight(f)' PROVE f = work[p].entry
      <3>1. ~InFlight(f)
        BY <1>1 DEF QuietAtWork, MarkSubmitted
      <3> QED
        BY <1>1, <2>2, <3>1, NothingNewInFlight DEF OneProjector
    <2> QED
      BY <2>1, <2>2 DEF QuietAtWork, AtMostOne
  <1>2. ASSUME \A p \in Projectors : ~MarkSubmitted(p) PROVE QuietAtWork' /\ AtMostOne'
    <2>1. \A f \in Entries : InFlight(f)' => InFlight(f)
      BY <1>2, NothingNewInFlight
    <2>2. AtMostOne'
      BY <2>1 DEF AtMostOne
    <2>3. ASSUME NEW p \in Projectors, work'[p].step # "idle", work[p].step = "idle"
          PROVE  \A e \in Entries : ~InFlight(e)
      <3>0. \A q \in Projectors : Poll(q) => work' = work
        BY DEF Poll, ListEpisodes, Update, Reconcile, Expire
      <3>1. ASSUME NEW q \in Projectors, Call(q) \/ Crash(q) PROVE work'[p].step = "idle"
        <4>1. CASE Call(q)
          BY <2>3, <4>1 DEF TypeOK, Call, CallAdd, CallDelete, CallFails, MarkSubmitted, MarkFailed
        <4>2. CASE Crash(q)
          BY <2>3, <4>2 DEF TypeOK, Crash, NoWork
        <4> QED
          BY <3>1, <4>1, <4>2
      <3>2. ASSUME NEW q \in Projectors, NEW e \in Entries, Claim(q, e), p # q PROVE FALSE
        BY <2>3, <3>2 DEF TypeOK, Claim
      <3>3. work' # work
        BY <2>3
      <3>4. \E q \in Projectors, e \in Entries : Claim(q, e)
        BY <2>3, <3>0, <3>1, <3>3 DEF Next, vars, Approve, Archive, Supersede, Reviewed, Requeue,
           Wait, Age, Extract, Drop
      <3>5. \E e \in Entries : Claim(p, e)
        BY <3>2, <3>4
      <3> QED
        BY <3>5 DEF Claim, Claimable
    <2>4. QuietAtWork'
      BY <2>1, <2>3 DEF QuietAtWork
    <2> QED
      BY <2>2, <2>4
  <1> QED
    BY <1>1, <1>2

\* A set without two elements has at most one.
LEMMA FewElements ==
  ASSUME NEW S, \A x, y \in S : x = y
  PROVE  Cardinality(S) <= 1
  <1>1. CASE S = {}
    BY <1>1, FS_EmptySet
  <1>2. CASE S # {}
    <2>1. PICK x \in S : TRUE
      BY <1>2
    <2>2. S = {x}
      BY <2>1
    <2> QED
      BY <2>2, FS_Singleton
  <1> QED
    BY <1>1, <1>2

\* With one projector, as the deployment runs it, one submission at a time
\* waits for its episode, even when its row is queued again, withdrawn or
\* replayed during the call, and even after crashes and expired submissions.
THEOREM OneInFlightHolds ==
  ASSUME OneProjector
  PROVE  Spec => []OneInFlight
  <1>1. Init => QuietAtWork /\ AtMostOne
    BY DEF Init, QuietAtWork, AtMostOne, InFlight, NoWork
  <1>2. TypeOK /\ QuietAtWork /\ AtMostOne /\ [Next]_vars => QuietAtWork' /\ AtMostOne'
    BY StepQuiet
  <1>3. AtMostOne => OneInFlight
    BY FewElements DEF AtMostOne, OneInFlight
  <1> QED
    BY <1>1, <1>2, <1>3, TypeCorrect, PTL DEF Spec

-----------------------------------------------------------------------------
(***************************************************************************)
(* The episode of a reconciled row.  The graph loses an episode only to a  *)
(* deletion, and a row to which a deletion belongs stays one until it is   *)
(* queued for addition again (DeletesAreKnown), so the episode that a      *)
(* reconciliation found is still there (EpisodeThere).  Only a row that is *)
(* reconciled is queued for deletion (DeletesAreReconciled), so an episode *)
(* listed for a row that is not is still there when its turn comes, however*)
(* old the listing is (ListedThere).  Before an entry is queued for the    *)
(* first time its row is at rest (Untouched).                              *)
(***************************************************************************)
Untouched ==
  \A e \in Entries : queued[e] = 0 =>
    /\ row[e].status = "skipped" /\ row[e].operation = "add" /\ ~row[e].reconciled
    /\ \A p \in Projectors : work[p].step # "idle" => work[p].entry # e

DeletesAreKnown ==
  \A e \in Entries, p \in Projectors :
    /\ queued[e] <= 1
    /\ work[p].step # "idle" /\ work[p].entry = e /\ work[p].operation = "delete"
    => row[e].operation = "delete"

EpisodeThere ==
  \A e \in Entries :
    queued[e] <= 1 /\ row[e].operation = "add" /\ row[e].reconciled
      => <<e, row[e].episode>> \in graph

DeletesAreReconciled == \A e \in Entries : row[e].operation = "delete" => row[e].reconciled

ListedThere ==
  \A p \in Projectors, e \in Entries, id \in Episode :
    queued[e] <= 1 /\ ~row[e].reconciled /\ <<e, id>> \in listed[p] => <<e, id>> \in graph

EpisodeInv == Untouched /\ DeletesAreKnown /\ EpisodeThere /\ DeletesAreReconciled /\ ListedThere

\* The claims under way after a step were under way before it.
SameWork ==
  \A p \in Projectors : work'[p].step # "idle" =>
    /\ work[p].step # "idle"
    /\ work'[p].entry = work[p].entry /\ work'[p].operation = work[p].operation

\* What is listed after a step was listed before it.
NothingListed == \A p \in Projectors : listed'[p] \subseteq listed[p]

LEMMA EpisodeUndisturbed ==
  ASSUME EpisodeInv, UNCHANGED <<row, queued>>, SameWork, NothingListed, graph \subseteq graph'
  PROVE  EpisodeInv'
  <1>1. Untouched' /\ DeletesAreKnown' /\ EpisodeThere' /\ DeletesAreReconciled'
    BY DEF EpisodeInv, Untouched, DeletesAreKnown, EpisodeThere, DeletesAreReconciled, SameWork
  <1>2. ListedThere'
    BY DEF EpisodeInv, ListedThere, NothingListed
  <1> QED
    BY <1>1, <1>2 DEF EpisodeInv

\* A step on the row of one entry that was queued, which keeps a deletion a
\* deletion and a reconciled row one, and claims no episode that is not there.
LEMMA EpisodeOfOneRow ==
  ASSUME TypeOK, EpisodeInv, UNCHANGED <<queued, graph>>, SameWork, NothingListed,
         NEW e \in Entries, row' = [row EXCEPT ![e] = row'[e]], queued[e] # 0,
         row[e].operation = "delete" => row'[e].operation = "delete",
         row[e].reconciled \/ row'[e].operation = "delete" => row'[e].reconciled,
         queued[e] <= 1 /\ row'[e].operation = "add" /\ row'[e].reconciled
           => <<e, row'[e].episode>> \in graph
  PROVE  EpisodeInv'
  <1>1. \A f \in Entries \ {e} : row'[f] = row[f]
    BY DEF TypeOK
  <1>2. Untouched'
    BY <1>1 DEF EpisodeInv, Untouched, SameWork
  <1>3. DeletesAreKnown'
    BY <1>1 DEF EpisodeInv, DeletesAreKnown, SameWork
  <1>4. EpisodeThere'
    BY <1>1 DEF EpisodeInv, EpisodeThere
  <1>5. DeletesAreReconciled'
    BY <1>1 DEF EpisodeInv, DeletesAreReconciled
  <1>6. ListedThere'
    BY <1>1 DEF EpisodeInv, ListedThere, NothingListed
  <1> QED
    BY <1>2, <1>3, <1>4, <1>5, <1>6 DEF EpisodeInv

\* Queueing an entry for addition.  A first approval finds the row at rest; of
\* a second one nothing is claimed.
LEMMA EpisodeApprove ==
  ASSUME TypeOK, EpisodeInv, NEW e \in Entries, Approve(e)
  PROVE  EpisodeInv'
  <1>1. row[e] \in Row /\ queued[e] \in Nat
    BY DEF TypeOK
  <1>2. /\ row'[e].operation = "add" /\ row'[e].reconciled = row[e].reconciled
        /\ \A f \in Entries \ {e} : row'[f] = row[f]
    BY <1>1 DEF TypeOK, Approve, Set, Queued, Row
  <1>3. queued'[e] = queued[e] + 1 /\ \A f \in Entries \ {e} : queued'[f] = queued[f]
    BY <1>1 DEF TypeOK, Approve
  <1>4. work' = work /\ graph' = graph /\ listed' = listed
    BY DEF Approve
  <1>5. queued'[e] <= 1 => queued[e] = 0 /\ queued[e] <= 1
    BY <1>1, <1>3
  <1>6. Untouched'
    BY <1>1, <1>2, <1>3, <1>4 DEF EpisodeInv, Untouched
  <1>7. DeletesAreKnown'
    BY <1>2, <1>3, <1>4, <1>5 DEF EpisodeInv, DeletesAreKnown, Untouched
  <1>8. EpisodeThere'
    BY <1>2, <1>3, <1>4, <1>5 DEF EpisodeInv, EpisodeThere, Untouched
  <1>9. DeletesAreReconciled'
    BY <1>2 DEF EpisodeInv, DeletesAreReconciled
  <1>10. ListedThere'
    BY <1>2, <1>3, <1>4, <1>5 DEF EpisodeInv, ListedThere
  <1> QED
    BY <1>6, <1>7, <1>8, <1>9, <1>10 DEF EpisodeInv

\* The other steps of governance, the operator and time.
LEMMA EpisodeGovernance ==
  ASSUME TypeOK, EpisodeInv, NEW e \in Entries,
         Archive(e) \/ Supersede(e) \/ Requeue(e) \/ Wait(e) \/ Age(e)
  PROVE  EpisodeInv'
  <1>1. UNCHANGED <<queued, graph, work, listed>> /\ SameWork /\ NothingListed
    BY DEF Archive, Supersede, Reviewed, Requeue, Wait, Age, SameWork, NothingListed
  <1>2. row[e] \in Row
    BY DEF TypeOK
  <1>3. CASE UNCHANGED row
    BY <1>1, <1>3, EpisodeUndisturbed
  <1>4. CASE row' # row
    <2>1. row' = [row EXCEPT ![e] = row'[e]]
      BY <1>4 DEF TypeOK, Archive, Supersede, Requeue, Wait, Age, Set
    <2>2. row[e].status # "skipped"
      <3>1. CASE Archive(e)
        <4>1. row' = [row EXCEPT ![e] = IF row[e].status = "submitted" /\ row[e].reconciled
                                        THEN Queued(row[e], "delete") ELSE row[e]]
          BY <3>1 DEF Archive, Set
        <4> QED
          BY <1>4, <4>1 DEF TypeOK
      <3>2. CASE Supersede(e)
        BY <1>4, <3>2 DEF Supersede
      <3>3. CASE Requeue(e) \/ Wait(e)
        BY <3>3 DEF Requeue, Wait
      <3>4. CASE Age(e)
        BY <3>4 DEF Age, InFlight
      <3> QED
        BY <3>1, <3>2, <3>3, <3>4
    <2>3. queued[e] # 0
      BY <2>2 DEF EpisodeInv, Untouched
    <2>4. \/ row'[e].operation = "delete" /\ row'[e].reconciled /\ row[e].reconciled
          \/ /\ row'[e].operation = row[e].operation
             /\ row'[e].reconciled = row[e].reconciled /\ row'[e].episode = row[e].episode
      <3>1. CASE Archive(e)
        BY <1>2, <3>1 DEF TypeOK, Archive, Set, Queued, Row
      <3>2. CASE Supersede(e)
        BY <1>4, <3>2 DEF Supersede
      <3>3. CASE Requeue(e)
        BY <1>2, <3>3 DEF TypeOK, Requeue, Set, Row
      <3>4. CASE Wait(e) \/ Age(e)
        BY <1>2, <3>4 DEF TypeOK, Wait, Age, Row
      <3> QED
        BY <3>1, <3>2, <3>3, <3>4
    <2>5. queued[e] <= 1 /\ row'[e].operation = "add" /\ row'[e].reconciled
            => <<e, row'[e].episode>> \in graph
      BY <2>4 DEF EpisodeInv, EpisodeThere
    <2>6. row[e].operation = "delete" => row[e].reconciled
      BY DEF EpisodeInv, DeletesAreReconciled
    <2> QED
      BY <1>1, <2>1, <2>3, <2>4, <2>5, <2>6, EpisodeOfOneRow
  <1> QED
    BY <1>3, <1>4

\* Listings, reconciliation, expiry and claims.
LEMMA EpisodePoll ==
  ASSUME TypeOK, EpisodeInv, NEW p \in Projectors,
         Poll(p) \/ \E e \in Entries : Claim(p, e)
  PROVE  EpisodeInv'
  <1>1. ASSUME NEW e \in Entries, NEW id \in Episode, Reconcile(p, e, id) PROVE EpisodeInv'
    <2>1. row[e] \in Row
      BY DEF TypeOK
    <2>2. UNCHANGED <<queued, graph, work>> /\ SameWork
      BY <1>1 DEF Reconcile, SameWork
    <2>3. NothingListed
      BY <1>1 DEF TypeOK, Reconcile, NothingListed
    <2>4. CASE ~Reconcilable(e)
      <3>1. row' = row
        BY <1>1, <2>4 DEF TypeOK, Reconcile, Set
      <3> QED
        BY <2>2, <2>3, <3>1, EpisodeUndisturbed
    <2>5. CASE Reconcilable(e)
      <3> DEFINE new == Reconciled(row[e], id, state[e] = "archived")
      <3>0. /\ new.episode = id /\ new.reconciled
            /\ row[e].operation = "delete" => new.operation = "delete"
        BY <2>1, ReconciledRow
      <3>1. row' = [row EXCEPT ![e] = new]
        BY <1>1, <2>5 DEF Reconcile, Set
      <3> HIDE DEF new
      <3>2. row'[e] = new
        BY <3>1 DEF TypeOK
      <3>3. /\ row' = [row EXCEPT ![e] = row'[e]] /\ row'[e].episode = id /\ row'[e].reconciled
            /\ row[e].operation = "delete" => row'[e].operation = "delete"
        BY <3>0, <3>1, <3>2
      <3>4. queued[e] # 0
        BY <2>5 DEF Reconcilable, EpisodeInv, Untouched
      <3>5. queued[e] <= 1 => <<e, id>> \in graph
        BY <1>1, <2>5 DEF Reconcile, Reconcilable, EpisodeInv, ListedThere
      <3> QED
        BY <2>2, <2>3, <3>3, <3>4, <3>5, EpisodeOfOneRow
    <2> QED
      BY <2>4, <2>5
  <1>2. CASE Expire(p)
    <2>1. \A e \in Entries :
            /\ row'[e].operation = row[e].operation /\ row'[e].reconciled = row[e].reconciled
            /\ row'[e].episode = row[e].episode
            /\ row[e].status = "skipped" => row'[e] = row[e]
      BY <1>2 DEF TypeOK, Expire, InFlight, Row
    <2>2. UNCHANGED <<queued, graph, work, listed>>
      BY <1>2 DEF Expire
    <2>3. Untouched'
      BY <2>1, <2>2 DEF EpisodeInv, Untouched
    <2>4. DeletesAreKnown'
      BY <2>1, <2>2 DEF EpisodeInv, DeletesAreKnown
    <2>5. EpisodeThere'
      BY <2>1, <2>2 DEF EpisodeInv, EpisodeThere
    <2>6. DeletesAreReconciled' /\ ListedThere'
      BY <2>1, <2>2 DEF EpisodeInv, DeletesAreReconciled, ListedThere
    <2> QED
      BY <2>3, <2>4, <2>5, <2>6 DEF EpisodeInv
  <1>3. ASSUME NEW e \in Entries, Claim(p, e) PROVE EpisodeInv'
    <2>1. row[e] \in Row
      BY DEF TypeOK
    <2>2. /\ row'[e].operation = row[e].operation /\ row'[e].reconciled = row[e].reconciled
          /\ row'[e].episode = row[e].episode
          /\ \A f \in Entries \ {e} : row'[f] = row[f]
      BY <1>3, <2>1 DEF TypeOK, Claim, Set, Row
    <2>3. queued[e] # 0
      BY <1>3 DEF Claim, Claimable, Ready, EpisodeInv, Untouched
    <2>4. work'[p].entry = e /\ work'[p].operation = row[e].operation
          /\ \A q \in Projectors \ {p} : work'[q] = work[q]
      BY <1>3 DEF TypeOK, Claim
    <2>5. UNCHANGED <<queued, graph, listed>>
      BY <1>3 DEF Claim
    <2>6. Untouched'
      BY <2>2, <2>3, <2>4, <2>5 DEF EpisodeInv, Untouched
    <2>7. DeletesAreKnown'
      BY <2>2, <2>4, <2>5 DEF EpisodeInv, DeletesAreKnown
    <2>8. EpisodeThere'
      BY <2>2, <2>5 DEF EpisodeInv, EpisodeThere
    <2>9. DeletesAreReconciled' /\ ListedThere'
      BY <2>2, <2>5 DEF EpisodeInv, DeletesAreReconciled, ListedThere
    <2> QED
      BY <2>6, <2>7, <2>8, <2>9 DEF EpisodeInv
  <1>4. CASE ListEpisodes(p)
    <2>1. UNCHANGED <<row, queued, work, graph>>
      BY <1>4 DEF ListEpisodes
    <2>2. \A q \in Projectors : listed'[q] \subseteq listed[q] \cup graph
      BY <1>4 DEF TypeOK, ListEpisodes
    <2>3. Untouched' /\ DeletesAreKnown' /\ EpisodeThere' /\ DeletesAreReconciled'
      BY <2>1 DEF EpisodeInv, Untouched, DeletesAreKnown, EpisodeThere, DeletesAreReconciled
    <2>4. ListedThere'
      BY <2>1, <2>2 DEF EpisodeInv, ListedThere
    <2> QED
      BY <2>3, <2>4 DEF EpisodeInv
  <1> QED
    BY <1>1, <1>2, <1>3, <1>4 DEF Poll, Update

\* A call, and what the projector records of it.
LEMMA EpisodeCall ==
  ASSUME TypeOK, EpisodeInv, NEW p \in Projectors, Call(p)
  PROVE  EpisodeInv'
  <1> DEFINE e == work[p].entry
  <1>1. work[p] \in Work /\ e \in Entries
    BY AtWork DEF Call, CallAdd, CallDelete, CallFails, MarkSubmitted, MarkFailed
  <1>0. listed' = listed /\ NothingListed
    BY DEF Call, CallAdd, CallDelete, CallFails, MarkSubmitted, MarkFailed, NothingListed
  <1>2. SameWork
    <2>1. \A q \in Projectors \ {p} : work'[q] = work[q]
      BY DEF TypeOK, Call, CallAdd, CallDelete, CallFails, MarkSubmitted, MarkFailed
    <2>2. work'[p].step # "idle" =>
            /\ work[p].step # "idle"
            /\ work'[p].entry = work[p].entry /\ work'[p].operation = work[p].operation
      BY <1>1 DEF TypeOK, Call, CallAdd, CallDelete, CallFails, MarkSubmitted, MarkFailed,
         NoWork, Work
    <2> QED
      BY <2>1, <2>2 DEF SameWork
  <1>3. CASE CallAdd(p) \/ CallFails(p)
    <2>1. UNCHANGED <<row, queued, graph>>
      BY <1>3 DEF CallAdd, CallFails
    <2> QED
      BY <1>0, <1>2, <2>1, EpisodeUndisturbed
  <1>4. CASE CallDelete(p)
    <2>1. /\ UNCHANGED <<row, queued>> /\ work[p].operation = "delete" /\ work[p].step # "idle"
          /\ graph' = graph \ {<<e, work[p].episode>>}
      BY <1>4 DEF CallDelete
    <2>2. EpisodeThere'
      <3>1. queued[e] <= 1 => row[e].operation = "delete"
        BY <1>1, <2>1 DEF EpisodeInv, DeletesAreKnown
      <3>2. row[e].operation = "delete" => row[e].operation # "add"
        OBVIOUS
      <3> QED
        BY <1>1, <2>1, <3>1, <3>2 DEF EpisodeInv, EpisodeThere
    <2>3. Untouched' /\ DeletesAreKnown' /\ DeletesAreReconciled'
      BY <1>2, <2>1 DEF EpisodeInv, Untouched, DeletesAreKnown, DeletesAreReconciled, SameWork
    <2>4. ListedThere'
      <3>1. queued[e] <= 1 => row[e].reconciled
        BY <1>1, <2>1 DEF EpisodeInv, DeletesAreKnown, DeletesAreReconciled
      <3> QED
        BY <1>0, <1>1, <2>1, <3>1 DEF EpisodeInv, ListedThere
    <2> QED
      BY <2>2, <2>3, <2>4 DEF EpisodeInv
  <1>5. CASE MarkSubmitted(p) \/ MarkFailed(p)
    <2>1. row[e] \in Row /\ work[p].operation \in {"add", "delete"}
      BY <1>1 DEF TypeOK, Work
    <2>2. work[p].step # "idle"
      BY <1>5 DEF MarkSubmitted, MarkFailed
    <2>3. UNCHANGED <<queued, graph>> /\ row' = [row EXCEPT ![e] = row'[e]]
      BY <1>1, <1>5 DEF TypeOK, MarkSubmitted, MarkFailed, Set
    <2>4. queued[e] # 0
      BY <1>1, <2>2 DEF EpisodeInv, Untouched
    <2>5. /\ row'[e].operation = row[e].operation /\ row'[e].episode = row[e].episode
          /\ row'[e].reconciled => row[e].reconciled \/ work[p].operation = "delete"
          /\ row[e].reconciled => row'[e].reconciled
      <3>1. CASE MarkSubmitted(p)
        <4>1. row'[e] = Submitted(row[e], work[p].operation)
          BY <1>1, <3>1 DEF TypeOK, MarkSubmitted, Set
        <4> QED
          BY <2>1, <4>1 DEF Submitted, Row
      <3>2. CASE MarkFailed(p)
        BY <1>1, <2>1, <3>2 DEF TypeOK, MarkFailed, Set, Row
      <3> QED
        BY <1>5, <3>1, <3>2
    <2>6. queued[e] <= 1 /\ work[p].operation = "delete" => row[e].operation = "delete"
      BY <1>1, <2>2 DEF EpisodeInv, DeletesAreKnown
    <2>7. queued[e] <= 1 /\ row'[e].operation = "add" /\ row'[e].reconciled
            => <<e, row'[e].episode>> \in graph
      BY <1>1, <2>5, <2>6 DEF EpisodeInv, EpisodeThere
    <2>8. row[e].operation = "delete" => row[e].reconciled
      BY <1>1 DEF EpisodeInv, DeletesAreReconciled
    <2> QED
      BY <1>0, <1>1, <1>2, <2>3, <2>4, <2>5, <2>7, <2>8, EpisodeOfOneRow
  <1> QED
    BY <1>3, <1>4, <1>5 DEF Call

\* A crash gives up the call and the listing.
LEMMA EpisodeCrash ==
  ASSUME TypeOK, EpisodeInv, NEW p \in Projectors, Crash(p)
  PROVE  EpisodeInv'
  <1>1. UNCHANGED <<row, queued, graph>>
    BY DEF Crash
  <1>2. SameWork
    BY DEF TypeOK, Crash, SameWork, NoWork
  <1>3. NothingListed
    BY DEF TypeOK, Crash, NothingListed
  <1> QED
    BY <1>1, <1>2, <1>3, EpisodeUndisturbed

LEMMA StepEpisode == TypeOK /\ EpisodeInv /\ [Next]_vars => EpisodeInv'
  <1> SUFFICES ASSUME TypeOK, EpisodeInv, [Next]_vars PROVE EpisodeInv'
    OBVIOUS
  <1>1. ASSUME NEW e \in Entries, NEW id \in Episode, Extract(e, id) \/ Drop(e, id) PROVE EpisodeInv'
    <2>1. UNCHANGED <<row, queued, work, listed>> /\ graph \subseteq graph'
      BY <1>1 DEF Extract, Drop
    <2> QED
      BY <2>1, EpisodeUndisturbed DEF SameWork, NothingListed
  <1>2. CASE UNCHANGED vars
    BY <1>2, EpisodeUndisturbed DEF vars, SameWork, NothingListed
  <1> QED
    BY <1>1, <1>2, EpisodeApprove, EpisodeGovernance, EpisodePoll, EpisodeCall, EpisodeCrash DEF Next

\* The row of an entry that was queued once and is delivered and reconciled
\* names an episode that is in the graph, with any number of projectors, lost
\* answers, crashes and replays, archivals during a call and old listings.
THEOREM ReconciledRowsAreReal == Spec => []ReconciledIsReal
  <1>1. Init => EpisodeInv
    BY RawAssumption, BoundsAssumption
       DEF Init, EpisodeInv, Untouched, DeletesAreKnown, EpisodeThere, DeletesAreReconciled,
           ListedThere, NoWork
  <1>2. EpisodeInv => ReconciledIsReal
    BY DEF EpisodeInv, EpisodeThere, ReconciledIsReal
  <1> QED
    BY <1>1, <1>2, StepEpisode, TypeCorrect, PTL DEF Spec

-----------------------------------------------------------------------------
(***************************************************************************)
(* The projection of messages and attachments.  It shares no state with    *)
(* the Graphiti projection: what follows speaks of module EventProjection  *)
(* alone.                                                                  *)
(***************************************************************************)
USE DEF changeVars

AtSteps == {"locked", "posting", "waiting", "broken", "releasing", "failing"}

\* A message has a last file, and it is attached.
LEMMA LastFileType ==
  ASSUME Configured, NEW e \in Event
  PROVE  FilesOf[e] \in Seq(Files) /\ FilesOf[e] # <<>> /\ LastFile(e) \in Files
         /\ Attached(e, LastFile(e))
  <1>1. FilesOf[e] \in Seq(Files) /\ FilesOf[e] # <<>>
    BY DEF Configured
  <1>2. Len(FilesOf[e]) \in DOMAIN FilesOf[e]
    BY <1>1
  <1> QED
    BY <1>1, <1>2 DEF LastFile, Attached

\* Documents without one of them are documents.
LEMMA WithoutType ==
  ASSUME EventTypeOK, NEW f \in Files, NEW i \in DOMAIN doc[f]
  PROVE  Without(f, i) \in Seq(Document)
  <1>1. doc[f] \in Seq(Document) /\ i \in 1..Len(doc[f])
    BY DEF EventTypeOK
  <1>2. SubSeq(doc[f], 1, i - 1) \in Seq(Document)
    BY <1>1, SubSeqProperties
  <1>3. SubSeq(doc[f], i + 1, Len(doc[f])) \in Seq(Document)
    BY <1>1, SubSeqProperties
  <1> QED
    BY <1>2, <1>3 DEF Without

\* The others of a version's document are documents.
LEMMA OthersType ==
  ASSUME EventTypeOK, NEW f \in Files, NEW v
  PROVE  Others(f, v) \in Seq(Document)
  <1>1. doc[f] \in Seq(Document)
    BY DEF EventTypeOK
  <1>2. CASE Copy(f, v) = {}
    BY <1>1, <1>2 DEF Others
  <1>3. CASE Copy(f, v) # {}
    <2> DEFINE i == CHOOSE i \in Copy(f, v) : TRUE
    <2>1. i \in DOMAIN doc[f]
      BY <1>3 DEF Copy
    <2>2. Others(f, v) = Without(f, i)
      BY <1>3 DEF Others
    <2> HIDE DEF i
    <2> QED
      BY <2>1, <2>2, WithoutType
  <1> QED
    BY <1>2, <1>3

\* An ingestion puts the document it stores, with its chunks, before the others.
LEMMA StoredType ==
  ASSUME EventTypeOK, NEW e \in Event, NEW f \in Files, NEW v \in Version
  PROVE  /\ Stored(e, f, v) \in [Files -> Seq(Document)]
         /\ Stored(e, f, v)[f] # <<>>
         /\ Stored(e, f, v)[f][1].parent = e /\ Stored(e, f, v)[f][1].chunks
         /\ Stored(e, f, v)[f][1].retired = Retired(f, v)
         /\ \A g \in Files \ {f} : Stored(e, f, v)[g] = doc[g]
  <1> DEFINE new == [version |-> v, parent |-> e, chunks |-> TRUE,
                     flagged |-> \E i \in Copy(f, v) : doc[f][i].flagged, retired |-> Retired(f, v)]
  <1>1. new \in Document /\ new.parent = e /\ new.chunks /\ new.retired = Retired(f, v)
    BY DEF Document, Retired
  <1>2. Stored(e, f, v) = [doc EXCEPT ![f] = <<new>> \o Others(f, v)]
    BY DEF Stored
  <1> HIDE DEF new
  <1>3. Others(f, v) \in Seq(Document)
    BY OthersType
  <1>4. /\ <<new>> \o Others(f, v) \in Seq(Document)
        /\ <<new>> \o Others(f, v) # <<>>
        /\ (<<new>> \o Others(f, v))[1] = new
    BY <1>1, <1>3
  <1> QED
    BY <1>1, <1>2, <1>4 DEF EventTypeOK

\* A projector beyond its list is at a message.
LEMMA AtMessageType ==
  ASSUME EventTypeOK, NEW r \in Replicas, eventWork[r].step \in AtSteps \/ eventWork[r].held
  PROVE  /\ eventWork[r] \in AtMessage /\ Mine(r) \in Event
         /\ eventWork[r].left \in Seq(Files)
  <1>1. eventWork[r] \in Between \cup AtMessage
    BY DEF EventTypeOK
  <1>2. eventWork[r] \in AtMessage
    BY <1>1 DEF Between, AtSteps
  <1> QED
    BY <1>2 DEF AtMessage, Mine

\* A projector between messages is at none.
LEMMA BetweenType ==
  ASSUME EventTypeOK, NEW r \in Replicas, eventWork[r].step \in {"polling", "listing", "picking"}
  PROVE  eventWork[r] \in Between
  <1>1. eventWork[r] \in Between \cup AtMessage
    BY DEF EventTypeOK
  <1> QED
    BY <1>1 DEF AtMessage

\* Whoever rests has nothing in hand.
LEMMA RestingType ==
  ASSUME NEW step \in {"polling", "listing", "picking"}, NEW todo \in SUBSET Event
  PROVE  [Resting EXCEPT !.step = step, !.todo = todo] \in Between
         /\ Resting \in Between
  BY DEF Resting, Between

\* Changing the step of a projector at a message, or losing its lock.
LEMMA StepType ==
  ASSUME EventTypeOK, NEW r \in Replicas, eventWork[r] \in AtMessage, NEW step \in AtSteps,
         NEW held \in BOOLEAN
  PROVE  /\ [eventWork EXCEPT ![r] = [eventWork[r] EXCEPT !.step = step]]
              \in [Replicas -> Between \cup AtMessage]
         /\ [eventWork EXCEPT ![r] = [eventWork[r] EXCEPT !.held = held]]
              \in [Replicas -> Between \cup AtMessage]
         /\ [eventWork EXCEPT ![r] = [eventWork[r] EXCEPT !.step = step, !.held = held]]
              \in [Replicas -> Between \cup AtMessage]
  <1>1. /\ [eventWork[r] EXCEPT !.step = step] \in AtMessage
        /\ [eventWork[r] EXCEPT !.held = held] \in AtMessage
        /\ [eventWork[r] EXCEPT !.step = step, !.held = held] \in AtMessage
    BY DEF AtMessage, AtSteps
  <1> QED
    BY <1>1 DEF EventTypeOK

\* Setting a projector to rest, or between two messages.
LEMMA PauseType ==
  ASSUME EventTypeOK, NEW r \in Replicas, NEW pause \in Between
  PROVE  [eventWork EXCEPT ![r] = pause] \in [Replicas -> Between \cup AtMessage]
  BY DEF EventTypeOK

LEMMA AnsweredType ==
  ASSUME EventTypeOK, NEW r \in Replicas, eventWork[r] \in AtMessage, eventWork[r].left # <<>>,
         NEW result \in {"indexed", "quarantined"}, Answered(r, result)
  PROVE  /\ eventWork' = [eventWork EXCEPT ![r] =
              [eventWork[r] EXCEPT !.step = "posting", !.left = Tail(eventWork[r].left), !.result = result]]
         /\ eventWork' \in [Replicas -> Between \cup AtMessage]
  <1>1. eventWork' = [eventWork EXCEPT ![r] =
          [eventWork[r] EXCEPT !.step = "posting", !.left = Tail(eventWork[r].left), !.result = result]]
    BY DEF Answered, EventTypeOK
  <1>2. Tail(eventWork[r].left) \in Seq(Files)
    BY DEF AtMessage
  <1>3. [eventWork[r] EXCEPT !.step = "posting", !.left = Tail(eventWork[r].left), !.result = result]
          \in AtMessage
    BY <1>2 DEF AtMessage
  <1> QED
    BY <1>1, <1>3 DEF EventTypeOK

\* The failure counter.
LEMMA TroubleType ==
  ASSUME Configured, EventTypeOK, Trouble
  PROVE  troubles' \in 0..MaxEventTroubles
  BY DEF Configured, EventTypeOK, Trouble

\* A projector that waits for the proxy has something to wait for.
WaitingForFile == \A r \in Replicas : eventWork[r].step = "waiting" => eventWork[r].left # <<>>

EventTypes == EventTypeOK /\ WaitingForFile

LEMMA RequestType ==
  ASSUME EventTypes, NEW r \in Replicas, eventWork[r].step = "waiting"
  PROVE  Request(r) \in Requests /\ Head(eventWork[r].left) \in Files
  <1>1. /\ eventWork[r].left \in Seq(Files) /\ eventWork[r].left # <<>>
        /\ Mine(r) \in Event
    BY AtMessageType DEF EventTypes, WaitingForFile, AtSteps
  <1> QED
    BY <1>1 DEF Request, Requests, EventTypes, EventTypeOK

LEMMA EventInitTyped == Configured /\ EventInit => EventTypes
  <1> SUFFICES ASSUME Configured, EventInit PROVE EventTypes
    OBVIOUS
  <1>1. eventRow \in [Event -> EventRow]
    BY DEF EventInit, Configured, EventRow
  <1>2. Resting \in Between /\ Resting.step = "polling"
    BY DEF Resting, Between
  <1>3. eventWork \in [Replicas -> Between \cup AtMessage] /\ WaitingForFile
    BY <1>2 DEF EventInit, WaitingForFile
  <1>4. doc \in [Files -> Seq(Document)] /\ deleted = {} /\ late = {} /\ withdrawn = {}
    BY DEF EventInit
  <1>5. version \in Version /\ changes \in 0..MaxChanges /\ troubles \in 0..MaxEventTroubles
    BY DEF EventInit, Configured, Version
  <1>6. closed \in BOOLEAN
    BY DEF EventInit
  <1> QED
    BY <1>1, <1>3, <1>4, <1>5, <1>6 DEF EventTypes, EventTypeOK

\* A poll up to the message it picks.
LEMMA PollTypes ==
  ASSUME Configured, EventTypes, NEW r \in Replicas,
         Invalidate(r) \/ List(r) \/ Sleep(r) \/ Pick(r)
  PROVE  EventTypes'
  <1> USE DEF EventTypes
  <1>0. eventWork[r] \in Between
    BY BetweenType DEF Invalidate, List, Sleep, Pick
  <1>1. ASSUME NEW pause \in Between \cup AtMessage, pause.step # "waiting",
               eventWork' = [eventWork EXCEPT ![r] = pause]
        PROVE  eventWork' \in [Replicas -> Between \cup AtMessage] /\ WaitingForFile'
    BY <1>1 DEF EventTypeOK, WaitingForFile
  <1>2. CASE Invalidate(r)
    <2>1. [eventWork[r] EXCEPT !.step = "listing"] \in Between
      BY <1>0 DEF Between
    <2>2. eventWork' = [eventWork EXCEPT ![r] = [eventWork[r] EXCEPT !.step = "listing"]]
      BY <1>2 DEF Invalidate, Step, EventTypeOK
    <2>3. [eventWork[r] EXCEPT !.step = "listing"].step # "waiting"
      BY <1>0 DEF Between
    <2>4. eventWork' \in [Replicas -> Between \cup AtMessage] /\ WaitingForFile'
      BY <1>1, <2>1, <2>2, <2>3
    <2>5. ASSUME NEW f \in Files PROVE doc'[f] \in Seq(Document)
      <3>1. doc[f] \in Seq(Document)
        BY DEF EventTypeOK
      <3>2. ASSUME NEW i \in DOMAIN doc[f]
            PROVE  (IF Stale(f, i) THEN [doc[f][i] EXCEPT !.chunks = FALSE, !.flagged = TRUE] ELSE doc[f][i])
                     \in Document
        <4>1. doc[f][i] \in Document
          BY <3>1
        <4>2. [doc[f][i] EXCEPT !.chunks = FALSE, !.flagged = TRUE] \in Document
          BY <4>1 DEF Document
        <4> QED
          BY <4>1, <4>2
      <3>3. doc'[f] = [i \in DOMAIN doc[f] |->
              IF Stale(f, i) THEN [doc[f][i] EXCEPT !.chunks = FALSE, !.flagged = TRUE] ELSE doc[f][i]]
        BY <1>2 DEF Invalidate
      <3>4. DOMAIN doc[f] = 1..Len(doc[f]) /\ Len(doc[f]) \in Nat
        BY <3>1
      <3> DEFINE g == [i \in DOMAIN doc[f] |->
              IF Stale(f, i) THEN [doc[f][i] EXCEPT !.chunks = FALSE, !.flagged = TRUE] ELSE doc[f][i]]
      <3>5. g \in [1..Len(doc[f]) -> Document]
        BY <3>2, <3>4
      <3> HIDE DEF g
      <3>6. g \in Seq(Document)
        BY <3>4, <3>5
      <3> QED
        BY <3>3, <3>6 DEF g
    <2>6. doc' \in [Files -> Seq(Document)]
      BY <1>2, <2>5 DEF Invalidate
    <2> QED
      BY <1>2, <2>4, <2>6 DEF Invalidate, EventTypeOK
  <1>3. CASE List(r)
    <2>1. Pending \in SUBSET Event
      BY DEF Pending
    <2> DEFINE w == [eventWork[r] EXCEPT !.step = "picking", !.todo = Pending]
    <2>2. w \in Between /\ w.step # "waiting"
      BY <1>0, <2>1 DEF Between
    <2>3. eventWork' = [eventWork EXCEPT ![r] = w]
      BY <1>3 DEF List, EventTypeOK
    <2> HIDE DEF w
    <2>4. eventWork' \in [Replicas -> Between \cup AtMessage] /\ WaitingForFile'
      BY <1>1, <2>2, <2>3
    <2> QED
      BY <1>3, <2>4 DEF List, EventTypeOK
  <1>4. CASE Sleep(r)
    <2>1. Resting \in Between /\ Resting.step # "waiting"
      BY DEF Resting, Between
    <2>2. eventWork' \in [Replicas -> Between \cup AtMessage] /\ WaitingForFile'
      BY <1>1, <1>4, <2>1 DEF Sleep
    <2> QED
      BY <1>4, <2>2 DEF Sleep, EventTypeOK
  <1>5. CASE Pick(r)
    <2>1. PICK e \in eventWork[r].todo : eventWork' = [eventWork EXCEPT ![r] =
            IF Locked(e) THEN [eventWork[r] EXCEPT !.todo = eventWork[r].todo \ {e}]
            ELSE [eventWork[r] EXCEPT !.step = "locked", !.todo = eventWork[r].todo \ {e}, !.event = e,
                                      !.held = TRUE, !.left = FilesOf[e], !.result = "none"]]
      BY <1>5 DEF Pick, EventTypeOK
    <2>2. e \in Event /\ eventWork[r].todo \ {e} \in SUBSET Event
      BY <1>0 DEF Between
    <2>3. FilesOf[e] \in Seq(Files)
      BY <2>2 DEF Configured
    <2> DEFINE w == IF Locked(e) THEN [eventWork[r] EXCEPT !.todo = eventWork[r].todo \ {e}]
            ELSE [eventWork[r] EXCEPT !.step = "locked", !.todo = eventWork[r].todo \ {e}, !.event = e,
                                      !.held = TRUE, !.left = FilesOf[e], !.result = "none"]
    <2>4. CASE Locked(e)
      <3>1. w \in Between /\ w.step # "waiting"
        BY <1>0, <2>2, <2>4 DEF Between
      <3> QED
        BY <1>1, <1>5, <2>1, <3>1 DEF Pick, EventTypeOK
    <2>5. CASE ~Locked(e)
      <3>1. w \in AtMessage /\ w.step # "waiting"
        BY <1>0, <2>2, <2>3, <2>5 DEF Between, AtMessage
      <3> QED
        BY <1>1, <1>5, <2>1, <3>1 DEF Pick, EventTypeOK
    <2> QED
      BY <2>4, <2>5
  <1> QED
    BY <1>2, <1>3, <1>4, <1>5

\* The steps of process_event that leave the documents alone.
LEMMA MessageTypes ==
  ASSUME Configured, EventTypes, NEW r \in Replicas,
         \/ Begin(r) \/ Post(r) \/ Finish(r) \/ Disconnect(r) \/ Release(r)
         \/ MarkEventFailed(r) \/ Quarantine(r) \/ TimeOut(r) \/ Fail(r) \/ LoseLock(r)
  PROVE  EventTypes'
  <1> USE DEF EventTypes
  <1>1. eventWork[r] \in AtMessage /\ Mine(r) \in Event
    BY AtMessageType DEF AtSteps, Begin, Post, Finish, Disconnect, Release, MarkEventFailed,
       Quarantine, TimeOut, Fail, LoseLock
  <1>2. ASSUME NEW w \in Between \cup AtMessage, w.step = "waiting" => w.left # <<>>,
               eventWork' = [eventWork EXCEPT ![r] = w],
               UNCHANGED <<deleted, closed, doc, version, changes, withdrawn>>, late' \subseteq Requests,
               troubles' \in 0..MaxEventTroubles, eventRow' \in [Event -> EventRow]
        PROVE  EventTypes'
    <2>1. eventWork' \in [Replicas -> Between \cup AtMessage]
      BY <1>2 DEF EventTypeOK
    <2>2. WaitingForFile'
      BY <1>2 DEF EventTypeOK, WaitingForFile
    <2> QED
      BY <1>2, <2>1, <2>2 DEF EventTypeOK
  <1>3. ASSUME NEW step \in AtSteps, NEW held \in BOOLEAN
        PROVE  LET w == [eventWork[r] EXCEPT !.step = step, !.held = held]
               IN  w \in AtMessage /\ w.step = step /\ w.left = eventWork[r].left
    BY <1>1 DEF AtMessage, AtSteps
  <1>4. ASSUME NEW step \in AtSteps, Step(r, step)
        PROVE  LET w == [eventWork[r] EXCEPT !.step = step]
               IN  /\ w \in AtMessage /\ w.step = step /\ w.left = eventWork[r].left
                   /\ eventWork' = [eventWork EXCEPT ![r] = w]
    BY <1>1, <1>4 DEF AtMessage, AtSteps, Step, EventTypeOK
  <1>5. eventRow[Mine(r)] \in EventRow
    BY <1>1 DEF EventTypeOK
  <1>6. CASE Begin(r)
    <2> DEFINE n == eventRow[Mine(r)].attempts + 1
    <2>0. n \in Nat
      BY <1>5 DEF EventRow
    <2>1. eventRow' = [eventRow EXCEPT ![Mine(r)] =
             [eventRow[Mine(r)] EXCEPT !.status = "processing", !.attempts = n]]
      BY <1>1, <1>6 DEF Begin, EventTypeOK
    <2> HIDE DEF n
    <2>2. [eventRow[Mine(r)] EXCEPT !.status = "processing", !.attempts = n] \in EventRow
      BY <1>5, <2>0 DEF EventRow
    <2>3. eventRow' \in [Event -> EventRow]
      BY <1>1, <2>1, <2>2 DEF EventTypeOK
    <2> QED
      BY <1>2, <1>4, <1>6, <2>3 DEF Begin, AtSteps, EventTypeOK
  <1>7. CASE Post(r)
    <2>1. CASE Answered(r, "indexed")
      <3>1. /\ eventWork' = [eventWork EXCEPT ![r] =
                 [eventWork[r] EXCEPT !.step = "posting", !.left = Tail(eventWork[r].left), !.result = "indexed"]]
            /\ eventWork' \in [Replicas -> Between \cup AtMessage]
        BY <1>1, <1>7, <2>1, AnsweredType DEF Post
      <3>2. WaitingForFile'
        BY <1>1, <3>1 DEF WaitingForFile, AtMessage, EventTypeOK
      <3> QED
        BY <1>7, <3>1, <3>2 DEF Post, EventTypeOK
    <2>2. CASE Step(r, "waiting")
      BY <1>2, <1>4, <1>7, <2>2 DEF Post, AtSteps, EventTypeOK
    <2> QED
      BY <1>7, <2>1, <2>2 DEF Post
  <1>8. CASE Finish(r)
    <2>1. StatusOf(eventWork[r].result) \in {"indexed", "skipped"} /\ version \in 0..MaxVersion
      BY DEF StatusOf, EventTypeOK, Version
    <2>2. [eventRow[Mine(r)] EXCEPT !.status = StatusOf(eventWork[r].result), !.version = version] \in EventRow
      BY <1>5, <2>1 DEF EventRow
    <2>3. eventRow' = [eventRow EXCEPT ![Mine(r)] =
             [eventRow[Mine(r)] EXCEPT !.status = StatusOf(eventWork[r].result), !.version = version]]
      BY <1>1, <1>8 DEF Finish, EventTypeOK
    <2>4. eventRow' \in [Event -> EventRow]
      BY <1>1, <2>2, <2>3 DEF EventTypeOK
    <2> QED
      BY <1>2, <1>4, <1>8, <2>4 DEF Finish, AtSteps, EventTypeOK
  <1>9. CASE Disconnect(r)
    BY <1>2, <1>4, <1>9 DEF Disconnect, AtSteps, EventTypeOK
  <1>10. ASSUME NEW todo \in SUBSET Event
         PROVE  LET w == [Resting EXCEPT !.step = "picking", !.todo = todo]
                IN  w \in Between /\ w.step # "waiting"
    BY DEF Resting, Between
  <1>11. eventWork[r].todo \in SUBSET Event
    BY <1>1 DEF AtMessage
  <1>12. CASE Release(r)
    <2>1. CASE eventWork' = [eventWork EXCEPT ![r] =
                 [Resting EXCEPT !.step = "picking", !.todo = eventWork[r].todo]]
      BY <1>2, <1>10, <1>11, <1>12, <2>1 DEF Release, EventTypeOK
    <2>2. CASE eventWork' = [eventWork EXCEPT ![r].step = "failing", ![r].held = FALSE]
      <3>1. eventWork' = [eventWork EXCEPT ![r] = [eventWork[r] EXCEPT !.step = "failing", !.held = FALSE]]
        BY <2>2 DEF EventTypeOK
      <3> QED
        BY <1>2, <1>3, <1>12, <3>1 DEF Release, AtSteps, EventTypeOK
    <2> QED
      BY <1>12, <2>1, <2>2 DEF Release
  <1>13. CASE MarkEventFailed(r)
    <2>1. [eventRow[Mine(r)] EXCEPT !.status = "failed", !.due = FALSE] \in EventRow
      BY <1>5 DEF EventRow
    <2>2. eventRow' = eventRow \/ eventRow' = [eventRow EXCEPT ![Mine(r)] =
             [eventRow[Mine(r)] EXCEPT !.status = "failed", !.due = FALSE]]
      BY <1>1, <1>13 DEF MarkEventFailed, EventTypeOK
    <2>3. eventRow' \in [Event -> EventRow]
      BY <1>1, <2>1, <2>2 DEF EventTypeOK
    <2> QED
      BY <1>2, <1>10, <1>11, <1>13, <2>3 DEF MarkEventFailed, EventTypeOK
  <1>14. CASE Quarantine(r)
    <2>1. eventWork[r].left # <<>>
      BY <1>14 DEF Quarantine, WaitingForFile
    <2>2. /\ eventWork' = [eventWork EXCEPT ![r] =
               [eventWork[r] EXCEPT !.step = "posting", !.left = Tail(eventWork[r].left), !.result = "quarantined"]]
          /\ eventWork' \in [Replicas -> Between \cup AtMessage]
      BY <1>1, <1>14, <2>1, AnsweredType DEF Quarantine
    <2>3. WaitingForFile'
      BY <1>1, <2>2 DEF WaitingForFile, AtMessage, EventTypeOK
    <2> QED
      BY <1>14, <2>2, <2>3, TroubleType DEF Quarantine, EventTypeOK
  <1>15. CASE TimeOut(r)
    <2>1. late' \subseteq Requests
      BY <1>15, RequestType DEF TimeOut, EventTypeOK
    <2> QED
      BY <1>2, <1>4, <1>15, <2>1, TroubleType DEF TimeOut, AtSteps, EventTypeOK
  <1>16. CASE Fail(r)
    BY <1>2, <1>4, <1>16, TroubleType DEF Fail, AtSteps, EventTypeOK
  <1>17. CASE LoseLock(r)
    <2>1. /\ eventWork' = [eventWork EXCEPT ![r] = [eventWork[r] EXCEPT !.held = FALSE]]
          /\ [eventWork[r] EXCEPT !.held = FALSE] \in AtMessage
          /\ [eventWork[r] EXCEPT !.held = FALSE].step = eventWork[r].step
          /\ [eventWork[r] EXCEPT !.held = FALSE].left = eventWork[r].left
      BY <1>1, <1>17 DEF LoseLock, AtMessage, EventTypeOK
    <2> QED
      BY <1>2, <1>17, <2>1, TroubleType DEF LoseLock, EventTypeOK, WaitingForFile
  <1> QED
    BY <1>6, <1>7, <1>8, <1>9, <1>12, <1>13, <1>14, <1>15, <1>16, <1>17

\* A commit of the proxy, in time or late.
LEMMA StoreTypes ==
  ASSUME Configured, EventTypes, NEW r \in Replicas, Store(r)
  PROVE  EventTypes'
  <1> USE DEF EventTypes
  <1>1. eventWork[r] \in AtMessage /\ Mine(r) \in Event /\ eventWork[r].left # <<>>
    BY AtMessageType DEF AtSteps, Store, WaitingForFile
  <1>2. Head(eventWork[r].left) \in Files
    BY RequestType DEF Store
  <1>3. doc' \in [Files -> Seq(Document)]
    BY <1>1, <1>2, StoredType DEF Store, Ingest, EventTypeOK
  <1>6. withdrawn' \subseteq Files
    BY <1>2 DEF Store, Ingest, EventTypeOK
  <1>4. CASE Answered(r, "indexed") /\ UNCHANGED troubles
    <2>1. /\ eventWork' = [eventWork EXCEPT ![r] =
               [eventWork[r] EXCEPT !.step = "posting", !.left = Tail(eventWork[r].left), !.result = "indexed"]]
          /\ eventWork' \in [Replicas -> Between \cup AtMessage]
      BY <1>1, <1>4, AnsweredType
    <2>2. WaitingForFile'
      BY <1>1, <2>1 DEF WaitingForFile, AtMessage, EventTypeOK
    <2> QED
      BY <1>3, <1>4, <1>6, <2>1, <2>2 DEF Store, EventTypeOK
  <1>5. CASE Step(r, "broken") /\ Trouble
    <2>1. /\ eventWork' = [eventWork EXCEPT ![r] = [eventWork[r] EXCEPT !.step = "broken"]]
          /\ [eventWork[r] EXCEPT !.step = "broken"] \in AtMessage
          /\ [eventWork[r] EXCEPT !.step = "broken"].step # "waiting"
      BY <1>1, <1>5 DEF Step, AtMessage, EventTypeOK
    <2>2. eventWork' \in [Replicas -> Between \cup AtMessage] /\ WaitingForFile'
      BY <2>1 DEF WaitingForFile, EventTypeOK
    <2> QED
      BY <1>3, <1>5, <1>6, <2>2, TroubleType DEF Store, EventTypeOK
  <1> QED
    BY <1>4, <1>5 DEF Store

LEMMA LandTypes ==
  ASSUME EventTypes, NEW request \in Requests, Land(request)
  PROVE  EventTypes'
  <1>1. request[1] \in Event /\ request[2] \in Files /\ request[3] \in Version
    BY DEF Requests
  <1>2. doc' \in [Files -> Seq(Document)]
    BY <1>1, StoredType DEF Land, Ingest, EventTypes
  <1>3. withdrawn' \subseteq Files
    BY <1>1 DEF Land, Ingest, EventTypes, EventTypeOK
  <1> QED
    BY <1>2, <1>3 DEF Land, EventTypes, EventTypeOK, WaitingForFile

\* A review moves a document to the front.
LEMMA ReviewedDocuments ==
  ASSUME EventTypeOK, NEW f \in Files, NEW i, NEW retire \in BOOLEAN, Review(f, i, retire)
  PROVE  /\ doc' \in [Files -> Seq(Document)]
         /\ doc[f] # <<>> /\ doc'[f] # <<>>
         /\ i \in DOMAIN doc[f]
         /\ doc'[f][1].parent = doc[f][i].parent /\ doc'[f][1].chunks = doc[f][i].chunks
         /\ doc'[f][1].retired = retire
         /\ \A g \in Files \ {f} : doc'[g] = doc[g]
  <1>1. i \in DOMAIN doc[f] /\ doc[f] \in Seq(Document) /\ doc[f][i] \in Document
    BY DEF Review, EventTypeOK
  <1> DEFINE reviewed == [doc[f][i] EXCEPT !.retired = retire]
  <1>2. /\ reviewed \in Document /\ reviewed.retired = retire
        /\ reviewed.parent = doc[f][i].parent /\ reviewed.chunks = doc[f][i].chunks
    BY <1>1 DEF Document
  <1>3. doc' = [doc EXCEPT ![f] = <<reviewed>> \o Without(f, i)]
    BY DEF Review
  <1> HIDE DEF reviewed
  <1>4. Without(f, i) \in Seq(Document)
    BY <1>1, WithoutType
  <1>5. /\ <<reviewed>> \o Without(f, i) \in Seq(Document)
        /\ <<reviewed>> \o Without(f, i) # <<>>
        /\ (<<reviewed>> \o Without(f, i))[1] = reviewed
    BY <1>2, <1>4
  <1>6. doc'[f] = <<reviewed>> \o Without(f, i)
    BY <1>3 DEF EventTypeOK
  <1> QED
    BY <1>1, <1>2, <1>3, <1>5, <1>6 DEF EventTypeOK

\* Documents reviewed, the channel closed or brought back.
LEMMA ChangeTypes ==
  ASSUME Configured, EventTypes,
         \/ \E f \in Files, i \in 1..MaxVersion, retire \in BOOLEAN : Review(f, i, retire)
         \/ CloseChannel \/ OpenChannel
  PROVE  EventTypes'
  <1>1. ASSUME Change PROVE changes' \in 0..MaxChanges
    BY <1>1 DEF Change, Configured, EventTypes, EventTypeOK
  <1>2. ASSUME NEW f \in Files, NEW i \in 1..MaxVersion, NEW retire \in BOOLEAN, Review(f, i, retire)
        PROVE  EventTypes'
    <2>1. doc' \in [Files -> Seq(Document)]
      BY <1>2, ReviewedDocuments DEF EventTypes
    <2>2. changes' \in 0..MaxChanges /\ withdrawn' \subseteq Files
      BY <1>1, <1>2 DEF Review, EventTypes, EventTypeOK
    <2> QED
      BY <1>2, <2>1, <2>2 DEF Review, EventTypes, EventTypeOK, WaitingForFile
  <1>3. CASE CloseChannel
    BY <1>1, <1>3 DEF CloseChannel, EventTypes, EventTypeOK, WaitingForFile
  <1>4. CASE OpenChannel
    BY <1>4 DEF OpenChannel, EventTypes, EventTypeOK, WaitingForFile
  <1> QED
    BY <1>2, <1>3, <1>4

LEMMA EnvironmentTypes ==
  ASSUME Configured, EventTypes,
         (\E r \in Replicas : CrashReplica(r)) \/ Upgrade \/ \E e \in Event : Delete(e) \/ AwaitDelay(e)
  PROVE  EventTypes'
  <1> USE DEF EventTypes
  <1>1. Resting \in Between /\ Resting.step = "polling"
    BY DEF Resting, Between
  <1>2. ASSUME NEW r \in Replicas, CrashReplica(r) PROVE EventTypes'
    <2>1. late' \subseteq Requests
      BY <1>2, RequestType DEF CrashReplica, Waiting, EventTypeOK
    <2>2. eventWork' \in [Replicas -> Between \cup AtMessage] /\ WaitingForFile'
      BY <1>1, <1>2 DEF CrashReplica, EventTypeOK, WaitingForFile
    <2> QED
      BY <1>2, <2>1, <2>2, TroubleType DEF CrashReplica, EventTypeOK
  <1>3. CASE Upgrade
    <2>1. late' \subseteq Requests
      BY <1>3, RequestType DEF Upgrade, Waiting, EventTypeOK
    <2>2. eventWork' \in [Replicas -> Between \cup AtMessage] /\ WaitingForFile'
      BY <1>1, <1>3 DEF Upgrade, WaitingForFile
    <2>3. version' \in Version
      BY <1>3 DEF Upgrade, EventTypeOK, Version, Configured
    <2> QED
      BY <1>3, <2>1, <2>2, <2>3 DEF Upgrade, EventTypeOK
  <1>4. ASSUME NEW e \in Event, Delete(e) PROVE EventTypes'
    BY <1>4 DEF Delete, Change, EventTypeOK, Configured, WaitingForFile
  <1>5. ASSUME NEW e \in Event, AwaitDelay(e) PROVE EventTypes'
    <2>1. [eventRow[e] EXCEPT !.due = TRUE] \in EventRow
      BY DEF EventTypeOK, EventRow
    <2>2. eventRow' = [eventRow EXCEPT ![e] = [eventRow[e] EXCEPT !.due = TRUE]]
      BY <1>5 DEF AwaitDelay, EventTypeOK
    <2> QED
      BY <1>5, <2>1, <2>2 DEF AwaitDelay, EventTypeOK, WaitingForFile
  <1> QED
    BY <1>2, <1>3, <1>4, <1>5

LEMMA EventStepTypes == Configured /\ EventTypes /\ [EventNext]_eventVars => EventTypes'
  <1> SUFFICES ASSUME Configured, EventTypes, [EventNext]_eventVars PROVE EventTypes'
    OBVIOUS
  <1>1. CASE UNCHANGED eventVars
    BY <1>1 DEF eventVars, EventTypes, EventTypeOK, WaitingForFile
  <1>2. ASSUME NEW r \in Replicas,
               \/ Advance(r) \/ Quarantine(r) \/ TimeOut(r) \/ Fail(r) \/ LoseLock(r)
        PROVE  EventTypes'
    BY <1>2, PollTypes, MessageTypes, StoreTypes DEF Advance
  <1>3. ASSUME NEW request \in Requests, Land(request) PROVE EventTypes'
    BY <1>3, LandTypes
  <1> QED
    BY <1>1, <1>2, <1>3, EnvironmentTypes, ChangeTypes DEF EventNext

\* Rows, documents and the progress of every projector keep their types, and
\* failures their bound, for any messages, files, versions and projectors.
THEOREM EventTypeCorrect == EventSpec => []EventTypeOK
  <1>1. EventInit => EventTypes
    BY EventInitTyped, ConfiguredAssumption
  <1>2. EventTypes /\ [EventNext]_eventVars => EventTypes'
    BY EventStepTypes, ConfiguredAssumption
  <1>3. EventTypes => EventTypeOK
    BY DEF EventTypes
  <1> QED
    BY <1>1, <1>2, <1>3, PTL DEF EventSpec

(***************************************************************************)
(* Why an indexed attachment stays retrievable: a document never goes away,*)
(* the last updated one of a file has its chunks unless its message was    *)
(* deleted or the file withdrawn (an older extraction comes to the front   *)
(* by a review only), and a message is recorded as indexed only after its  *)
(* last file was answered for.                                             *)
(***************************************************************************)
Full == {f \in Files : doc[f] # <<>>}

\* What is in hand are attachments of the message, down to its last one; once
\* that was answered for as indexed, there is a document of it.
OnTrack(w, full) ==
  w.step \in {"locked", "posting", "waiting"} =>
    /\ \A i \in DOMAIN w.left : Attached(w.event, w.left[i])
    /\ w.left # <<>> => w.left[Len(w.left)] = LastFile(w.event)
    /\ w.left = <<>> /\ w.result = "indexed" => LastFile(w.event) \in full

WorkOnTrack == \A r \in Replicas : OnTrack(eventWork[r], Full)

\* The document in front comes from a message with the file, and nothing but the
\* deletion of that message makes it stale, unless the file was withdrawn.
FrontIntact(f) ==
  /\ Attached(doc[f][1].parent, f)
  /\ ~closed /\ ~doc[f][1].retired
  /\ doc[f][1].chunks \/ doc[f][1].parent \in deleted

FrontLive == \A f \in Full : f \in withdrawn \/ FrontIntact(f)

LateAttached == \A request \in late : Attached(request[1], request[2])

IndexedHasDocument == \A e \in Event : eventRow[e].status = "indexed" => LastFile(e) \in Full

IndexedInv == EventTypes /\ WorkOnTrack /\ FrontLive /\ LateAttached /\ IndexedHasDocument

\* A document in front and what it brought along is what StaysIndexed speaks of.
LEMMA IndexedInvImplies == Configured /\ IndexedInv => StaysIndexed
  <1> SUFFICES ASSUME Configured, IndexedInv, NEW e \in Event, eventRow[e].status = "indexed"
               PROVE  \/ Live(LastFile(e)) \/ LastFile(e) \in withdrawn
                      \/ \E d \in deleted : Attached(d, LastFile(e))
    BY DEF StaysIndexed, Indexed
  <1> DEFINE f == LastFile(e)
  <1>1. f \in Full
    BY DEF IndexedInv, IndexedHasDocument
  <1> HIDE DEF f
  <1>2. doc[f] \in Seq(Document) /\ doc[f] # <<>>
    BY <1>1 DEF Full, IndexedInv, EventTypes, EventTypeOK
  <1>3. 1 \in DOMAIN doc[f]
    BY <1>2
  <1>4. \/ f \in withdrawn \/ doc[f][1].chunks
        \/ doc[f][1].parent \in deleted /\ Attached(doc[f][1].parent, f)
    BY <1>1 DEF IndexedInv, FrontLive, FrontIntact
  <1>5. Live(f) \/ f \in withdrawn \/ \E d \in deleted : Attached(d, f)
    BY <1>3, <1>4 DEF Live
  <1> QED
    BY <1>5 DEF f

LEMMA IndexedInit == Configured /\ EventInit => IndexedInv
  <1> SUFFICES ASSUME Configured, EventInit PROVE IndexedInv
    OBVIOUS
  <1>1. EventTypes
    BY EventInitTyped, ConfiguredAssumption
  <1>2. Full = {} /\ late = {}
    BY DEF EventInit, Full
  <1>3. WorkOnTrack
    BY DEF EventInit, Resting, WorkOnTrack, OnTrack
  <1>4. IndexedHasDocument
    BY DEF EventInit, IndexedHasDocument
  <1> QED
    BY <1>1, <1>2, <1>3, <1>4 DEF IndexedInv, FrontLive, LateAttached

\* More documents take nobody off the track.
LEMMA OnTrackStays ==
  ASSUME NEW w, NEW full, NEW more, full \subseteq more, OnTrack(w, full)
  PROVE  OnTrack(w, more)
  BY DEF OnTrack

\* Leaving the message, or going on with it unchanged.
LEMMA OnTrackStep ==
  ASSUME NEW w \in AtMessage, NEW full, OnTrack(w, full), NEW step \in AtSteps, NEW held \in BOOLEAN,
         \/ step \in {"broken", "releasing", "failing"}
         \/ w.step \in {"locked", "posting"} /\ step \in {"posting", "waiting"}
  PROVE  /\ OnTrack([w EXCEPT !.step = step], full)
         /\ OnTrack([w EXCEPT !.step = step, !.held = held], full)
  BY DEF OnTrack, AtSteps, AtMessage

\* The answer to the file in front: the rest is in hand.
LEMMA OnTrackAnswered ==
  ASSUME NEW w \in AtMessage, NEW full, OnTrack(w, full), w.step \in {"posting", "waiting"},
         w.left # <<>>, NEW result, result = "indexed" => Head(w.left) \in full
  PROVE  OnTrack([w EXCEPT !.step = "posting", !.left = Tail(w.left), !.result = result], full)
  <1> DEFINE rest == Tail(w.left)
  <1>1. w.left \in Seq(Files) /\ Len(w.left) \in Nat \ {0}
    BY DEF AtMessage
  <1>2. /\ \A i \in DOMAIN w.left : Attached(w.event, w.left[i])
        /\ w.left[Len(w.left)] = LastFile(w.event)
    BY DEF OnTrack
  <1>3. /\ rest \in Seq(Files) /\ Len(rest) = Len(w.left) - 1
        /\ \A i \in DOMAIN rest : i + 1 \in DOMAIN w.left /\ rest[i] = w.left[i + 1]
    BY <1>1
  <1>4. \A i \in DOMAIN rest : Attached(w.event, rest[i])
    BY <1>2, <1>3
  <1>5. rest # <<>> => rest[Len(rest)] = w.left[Len(w.left)]
    BY <1>1, <1>3
  <1>6. rest = <<>> => Head(w.left) = w.left[Len(w.left)]
    <2>1. Head(w.left) = w.left[1]
      BY <1>1
    <2> HIDE DEF rest
    <2>2. rest = <<>> => Len(w.left) = 1
      BY <1>1, <1>3
    <2> QED
      BY <2>1, <2>2
  <1> HIDE DEF rest
  <1>7. OnTrack([w EXCEPT !.step = "posting", !.left = rest, !.result = result], full)
    BY <1>2, <1>4, <1>5, <1>6 DEF OnTrack, AtMessage
  <1> QED
    BY <1>7 DEF rest

\* Whoever picks a message has all its files in hand.
LEMMA OnTrackPicked ==
  ASSUME Configured, NEW w, NEW full, w.event \in Event, w.left = FilesOf[w.event], w.result = "none"
  PROVE  OnTrack(w, full)
  <1>1. FilesOf[w.event] \in Seq(Files) /\ FilesOf[w.event] # <<>>
    BY LastFileType
  <1>2. w.left[Len(w.left)] = LastFile(w.event)
    BY DEF LastFile
  <1>3. \A i \in DOMAIN w.left : Attached(w.event, w.left[i])
    BY DEF Attached
  <1> QED
    BY <1>1, <1>2, <1>3 DEF OnTrack

\* What an invalidation leaves: a document in front that is intact is stale
\* only if its message was deleted.
LEMMA FrontInvalidated ==
  ASSUME IndexedInv, NEW r \in Replicas, Invalidate(r)
  PROVE  Full' = Full /\ FrontLive'
  <1>1. ASSUME NEW f \in Files
        PROVE  /\ doc'[f] \in Seq(Document) /\ doc[f] \in Seq(Document) /\ Len(doc'[f]) = Len(doc[f])
               /\ doc[f] # <<>> => /\ doc'[f][1].parent = doc[f][1].parent
                                   /\ doc'[f][1].retired = doc[f][1].retired
                                   /\ ~Stale(f, 1) => doc'[f][1] = doc[f][1]
    <2>1. doc[f] \in Seq(Document)
      BY DEF IndexedInv, EventTypes, EventTypeOK
    <2>2. doc'[f] = [i \in DOMAIN doc[f] |->
            IF Stale(f, i) THEN [doc[f][i] EXCEPT !.chunks = FALSE, !.flagged = TRUE] ELSE doc[f][i]]
      BY DEF Invalidate
    <2>3. DOMAIN doc'[f] = DOMAIN doc[f]
      BY <2>2
    <2>4. ASSUME NEW i \in DOMAIN doc[f]
          PROVE  doc'[f][i] \in Document /\ doc'[f][i].parent = doc[f][i].parent
                 /\ doc'[f][i].retired = doc[f][i].retired
                 /\ (~Stale(f, i) => doc'[f][i] = doc[f][i])
      <3>1. doc[f][i] \in Document
        BY <2>1
      <3>2. /\ [doc[f][i] EXCEPT !.chunks = FALSE, !.flagged = TRUE] \in Document
            /\ [doc[f][i] EXCEPT !.chunks = FALSE, !.flagged = TRUE].parent = doc[f][i].parent
            /\ [doc[f][i] EXCEPT !.chunks = FALSE, !.flagged = TRUE].retired = doc[f][i].retired
        BY <3>1 DEF Document
      <3> QED
        BY <2>2, <3>1, <3>2
    <2>5. DOMAIN doc[f] = 1..Len(doc[f]) /\ Len(doc[f]) \in Nat
      BY <2>1
    <2>6. doc'[f] \in [1..Len(doc[f]) -> Document]
      <3>1. doc'[f] = [i \in 1..Len(doc[f]) |-> doc'[f][i]]
        BY <2>2, <2>5
      <3> QED
        BY <2>4, <2>5, <3>1
    <2>7. doc'[f] \in Seq(Document) /\ Len(doc'[f]) = Len(doc[f])
      BY <2>5, <2>6, LenProperties
    <2>8. doc[f] # <<>> => 1 \in DOMAIN doc[f]
      BY <2>1
    <2> QED
      BY <2>1, <2>4, <2>7, <2>8
  <1>2. \A f \in Files : doc'[f] # <<>> <=> doc[f] # <<>>
    BY <1>1
  <1>3. Full' = Full
    BY <1>2 DEF Full
  <1>4. deleted' = deleted /\ closed' = closed /\ withdrawn' = withdrawn
    BY DEF Invalidate
  <1>5. ASSUME NEW f \in Full, FrontIntact(f) PROVE FrontIntact(f)'
    <2>1. Stale(f, 1) => doc[f][1].parent \in deleted
      BY <1>5 DEF FrontIntact, Stale
    <2> QED
      BY <1>1, <1>4, <1>5, <2>1 DEF Full, FrontIntact, Attached
  <1> QED
    BY <1>3, <1>4, <1>5 DEF IndexedInv, FrontLive

\* A document that is stored comes to the front, with its chunks; it is intact,
\* or the file counts as withdrawn.
LEMMA FrontStored ==
  ASSUME IndexedInv, NEW e \in Event, NEW f \in Files, NEW v \in Version, Attached(e, f),
         Ingest(e, f, v), deleted' = deleted, closed' = closed
  PROVE  Full \subseteq Full' /\ f \in Full' /\ FrontLive'
  <1>1. /\ doc'[f] # <<>> /\ doc'[f][1].parent = e /\ doc'[f][1].chunks
        /\ doc'[f][1].retired = Retired(f, v)
        /\ \A g \in Files \ {f} : doc'[g] = doc[g]
    BY StoredType DEF IndexedInv, EventTypes, Ingest
  <1>2. Full' = Full \cup {f}
    BY <1>1 DEF Full
  <1>4. f \in withdrawn' \/ FrontIntact(f)'
    BY <1>1 DEF Ingest, FrontIntact, Attached
  <1>5. ASSUME NEW g \in Full', g # f PROVE g \in withdrawn' \/ FrontIntact(g)'
    <2>1. g \in Full /\ doc'[g] = doc[g]
      BY <1>1, <1>2, <1>5 DEF Full
    <2>2. g \in withdrawn => g \in withdrawn'
      BY <1>5 DEF Ingest
    <2>3. FrontIntact(g) => FrontIntact(g)'
      BY <2>1 DEF FrontIntact, Attached
    <2> QED
      BY <2>1, <2>2, <2>3 DEF IndexedInv, FrontLive
  <1> QED
    BY <1>2, <1>4, <1>5 DEF FrontLive

\* A step that leaves the documents, the messages and the rows alone: it is
\* enough to look at one projector and its late request.
LEMMA OthersOnTrack ==
  ASSUME IndexedInv, EventTypes', NEW r \in Replicas, NEW w, eventWork' = [eventWork EXCEPT ![r] = w],
         Full \subseteq Full', OnTrack(w, Full')
  PROVE  WorkOnTrack'
  <1>1. \A s \in Replicas \ {r} : OnTrack(eventWork[s], Full')
    BY OnTrackStays DEF IndexedInv, WorkOnTrack
  <1>2. \A s \in Replicas : eventWork'[s] = IF s = r THEN w ELSE eventWork[s]
    BY DEF IndexedInv, EventTypes, EventTypeOK
  <1>3. \A s \in Replicas : OnTrack(eventWork'[s], Full')
    BY <1>1, <1>2
  <1> QED
    BY <1>3 DEF WorkOnTrack

\* A projector that stops, or goes on with the file in hand.
LEMMA StepOnTrack ==
  ASSUME IndexedInv, EventTypes', NEW r \in Replicas, NEW step \in AtSteps, Step(r, step),
         \/ step \in {"broken", "releasing", "failing"} /\ eventWork[r].step \in AtSteps
         \/ eventWork[r].step \in {"locked", "posting"} /\ step \in {"posting", "waiting"},
         Full \subseteq Full'
  PROVE  WorkOnTrack'
  <1>1. eventWork[r] \in AtMessage
    BY AtMessageType DEF IndexedInv, EventTypes, AtSteps
  <1> DEFINE w == [eventWork[r] EXCEPT !.step = step]
  <1>2. eventWork' = [eventWork EXCEPT ![r] = w]
    BY DEF Step, IndexedInv, EventTypes, EventTypeOK
  <1>3. OnTrack(eventWork[r], Full')
    BY OnTrackStays DEF IndexedInv, WorkOnTrack
  <1>4. OnTrack(w, Full')
    BY <1>1, <1>3, OnTrackStep
  <1> HIDE DEF w
  <1> QED
    BY <1>2, <1>4, OthersOnTrack

\* A projector whose file was answered for.
LEMMA AnsweredOnTrack ==
  ASSUME IndexedInv, EventTypes', NEW r \in Replicas, NEW result \in {"indexed", "quarantined"},
         Answered(r, result), eventWork[r].step \in {"posting", "waiting"}, eventWork[r].left # <<>>,
         Full \subseteq Full', result = "indexed" => Head(eventWork[r].left) \in Full'
  PROVE  WorkOnTrack'
  <1>1. eventWork[r] \in AtMessage
    BY AtMessageType DEF IndexedInv, EventTypes, AtSteps
  <1> DEFINE w == [eventWork[r] EXCEPT !.step = "posting", !.left = Tail(eventWork[r].left),
                                       !.result = result]
  <1>2. eventWork' = [eventWork EXCEPT ![r] = w]
    BY <1>1, AnsweredType DEF IndexedInv, EventTypes
  <1>3. OnTrack(eventWork[r], Full')
    BY OnTrackStays DEF IndexedInv, WorkOnTrack
  <1>4. OnTrack(w, Full')
    BY <1>1, <1>3, OnTrackAnswered
  <1> HIDE DEF w
  <1> QED
    BY <1>2, <1>4, OthersOnTrack

\* A projector between two messages has nothing in hand.
LEMMA PausedOnTrack ==
  ASSUME IndexedInv, EventTypes', NEW r \in Replicas, NEW w, eventWork' = [eventWork EXCEPT ![r] = w],
         w.step \notin {"locked", "posting", "waiting"}, Full \subseteq Full'
  PROVE  WorkOnTrack'
  <1>1. OnTrack(w, Full')
    BY DEF OnTrack
  <1> QED
    BY <1>1, OthersOnTrack

\* The file a projector waits for is one of its message.
LEMMA RequestAttached ==
  ASSUME IndexedInv, NEW r \in Replicas, eventWork[r].step = "waiting"
  PROVE  Attached(Request(r)[1], Request(r)[2]) /\ Request(r) \in Requests
         /\ Head(eventWork[r].left) \in Files
  <1>1. /\ eventWork[r].left \in Seq(Files) /\ eventWork[r].left # <<>>
    BY AtMessageType DEF IndexedInv, EventTypes, WaitingForFile, AtSteps
  <1>2. 1 \in DOMAIN eventWork[r].left /\ Head(eventWork[r].left) = eventWork[r].left[1]
    BY <1>1
  <1>3. Attached(eventWork[r].event, eventWork[r].left[1])
    BY <1>2 DEF IndexedInv, WorkOnTrack, OnTrack
  <1>4. Request(r) \in Requests /\ Head(eventWork[r].left) \in Files
    BY RequestType DEF IndexedInv
  <1> QED
    BY <1>2, <1>3, <1>4 DEF Request, Mine

\* Nothing changes but the projectors, rows that are not indexed and requests.
LEMMA SameDocuments ==
  ASSUME IndexedInv, doc' = doc, deleted \subseteq deleted', closed' = closed, withdrawn' = withdrawn
  PROVE  Full' = Full /\ FrontLive'
  <1>1. Full' = Full
    BY DEF Full
  <1>2. \A f \in Full : FrontIntact(f) => FrontIntact(f)'
    BY DEF FrontIntact, Attached
  <1> QED
    BY <1>1, <1>2 DEF IndexedInv, FrontLive

LEMMA SameRows ==
  ASSUME IndexedInv, eventRow' = eventRow, Full \subseteq Full'
  PROVE  IndexedHasDocument'
  BY DEF IndexedInv, IndexedHasDocument, LastFile

\* A poll up to the message it picks.
LEMMA PollIndexed ==
  ASSUME Configured, IndexedInv, EventTypes', NEW r \in Replicas,
         Invalidate(r) \/ List(r) \/ Sleep(r) \/ Pick(r)
  PROVE  IndexedInv'
  <1>1. late' = late /\ eventRow' = eventRow
    BY DEF Invalidate, List, Sleep, Pick
  <1>2. Full' = Full /\ FrontLive'
    <2>1. CASE Invalidate(r)
      BY <2>1, FrontInvalidated
    <2>2. CASE List(r) \/ Sleep(r) \/ Pick(r)
      BY <2>2, SameDocuments DEF List, Sleep, Pick
    <2> QED
      BY <2>1, <2>2
  <1>3. eventWork[r] \in Between
    BY BetweenType DEF Invalidate, List, Sleep, Pick, IndexedInv, EventTypes
  <1>4. CASE Invalidate(r) \/ List(r) \/ Sleep(r)
    <2>1. eventWork'[r].step \in {"listing", "picking", "polling"}
      <3>1. CASE Invalidate(r)
        <4>1. eventWork' = [eventWork EXCEPT ![r] = [eventWork[r] EXCEPT !.step = "listing"]]
          BY <3>1 DEF Invalidate, Step, IndexedInv, EventTypes, EventTypeOK
        <4>2. [eventWork[r] EXCEPT !.step = "listing"].step = "listing"
          BY <1>3 DEF Between
        <4> QED
          BY <4>1, <4>2 DEF IndexedInv, EventTypes, EventTypeOK
      <3>2. CASE List(r)
        <4>1. eventWork' = [eventWork EXCEPT ![r] = [eventWork[r] EXCEPT !.step = "picking", !.todo = Pending]]
          BY <3>2 DEF List, IndexedInv, EventTypes, EventTypeOK
        <4>2. [eventWork[r] EXCEPT !.step = "picking", !.todo = Pending].step = "picking"
          BY <1>3 DEF Between
        <4> QED
          BY <4>1, <4>2 DEF IndexedInv, EventTypes, EventTypeOK
      <3>3. CASE Sleep(r)
        BY <3>3 DEF Sleep, Resting, IndexedInv, EventTypes, EventTypeOK
      <3> QED
        BY <1>4, <3>1, <3>2, <3>3
    <2>2. eventWork' = [eventWork EXCEPT ![r] = eventWork'[r]]
      BY <1>4 DEF Invalidate, List, Sleep, Step, IndexedInv, EventTypes, EventTypeOK
    <2>3. WorkOnTrack'
      BY <1>2, <2>1, <2>2, PausedOnTrack
    <2> QED
      BY <1>1, <1>2, <2>3, SameRows DEF IndexedInv, LateAttached, Attached
  <1>5. CASE Pick(r)
    <2>1. PICK e \in eventWork[r].todo : eventWork' = [eventWork EXCEPT ![r] =
            IF Locked(e) THEN [eventWork[r] EXCEPT !.todo = eventWork[r].todo \ {e}]
            ELSE [eventWork[r] EXCEPT !.step = "locked", !.todo = eventWork[r].todo \ {e}, !.event = e,
                                      !.held = TRUE, !.left = FilesOf[e], !.result = "none"]]
      BY <1>5 DEF Pick, IndexedInv, EventTypes, EventTypeOK
    <2>2. e \in Event
      BY <1>3 DEF Between
    <2>3. CASE Locked(e)
      <3>1. [eventWork[r] EXCEPT !.todo = eventWork[r].todo \ {e}].step \notin {"locked", "posting", "waiting"}
        BY <1>3 DEF Between
      <3>2. eventWork' = [eventWork EXCEPT ![r] = [eventWork[r] EXCEPT !.todo = eventWork[r].todo \ {e}]]
        BY <2>1, <2>3
      <3>3. WorkOnTrack'
        BY <1>2, <3>1, <3>2, PausedOnTrack
      <3> QED
        BY <1>1, <1>2, <3>3, SameRows DEF IndexedInv, LateAttached, Attached
    <2>4. CASE ~Locked(e)
      <3> DEFINE w == [eventWork[r] EXCEPT !.step = "locked", !.todo = eventWork[r].todo \ {e}, !.event = e,
                                           !.held = TRUE, !.left = FilesOf[e], !.result = "none"]
      <3>1. w.event = e /\ w.left = FilesOf[e] /\ w.result = "none"
        BY <1>3 DEF Between
      <3>2. eventWork' = [eventWork EXCEPT ![r] = w]
        BY <2>1, <2>4
      <3> HIDE DEF w
      <3>3. OnTrack(w, Full')
        BY <2>2, <3>1, OnTrackPicked
      <3>4. WorkOnTrack'
        BY <1>2, <3>2, <3>3, OthersOnTrack
      <3> QED
        BY <1>1, <1>2, <3>4, SameRows DEF IndexedInv, LateAttached, Attached
    <2> QED
      BY <2>3, <2>4
  <1> QED
    BY <1>4, <1>5

\* The steps of process_event that leave the documents alone.
LEMMA MessageIndexed ==
  ASSUME IndexedInv, EventTypes', NEW r \in Replicas,
         \/ Begin(r) \/ Post(r) \/ Finish(r) \/ Disconnect(r) \/ Release(r)
         \/ MarkEventFailed(r) \/ Quarantine(r) \/ TimeOut(r) \/ Fail(r) \/ LoseLock(r)
  PROVE  IndexedInv'
  <1>1. eventWork[r] \in AtMessage /\ Mine(r) \in Event
    BY AtMessageType DEF IndexedInv, EventTypes, AtSteps, Begin, Post, Finish, Disconnect,
       Release, MarkEventFailed, Quarantine, TimeOut, Fail, LoseLock
  <1>2. doc' = doc /\ deleted' = deleted /\ closed' = closed /\ withdrawn' = withdrawn
    BY DEF Begin, Post, Finish, Disconnect, Release, MarkEventFailed, Quarantine, TimeOut,
       Fail, LoseLock
  <1>3. Full' = Full /\ FrontLive'
    BY <1>2, SameDocuments
  <1>4. LateAttached'
    <2>1. CASE TimeOut(r)
      <3>1. late' = late \cup {Request(r)} /\ eventWork[r].step = "waiting"
        BY <2>1 DEF TimeOut
      <3> QED
        BY <3>1, RequestAttached DEF IndexedInv, LateAttached, Attached
    <2>2. CASE ~TimeOut(r)
      <3>1. late' = late
        BY <2>2 DEF Begin, Post, Finish, Disconnect, Release, MarkEventFailed, Quarantine,
           Fail, LoseLock
      <3> QED
        BY <3>1 DEF IndexedInv, LateAttached, Attached
    <2> QED
      BY <2>1, <2>2
  <1>5. OnTrack(eventWork[r], Full)
    BY DEF IndexedInv, WorkOnTrack
  <1>6. IndexedHasDocument'
    <2>1. ASSUME eventRow' = eventRow \/ \E value \in EventRow : value.status # "indexed"
                   /\ eventRow' = [eventRow EXCEPT ![Mine(r)] = value]
          PROVE  IndexedHasDocument'
      BY <1>1, <1>3, <2>1 DEF IndexedInv, IndexedHasDocument, LastFile, EventTypes, EventTypeOK
    <2>2. eventRow' \in [Event -> EventRow] /\ eventRow \in [Event -> EventRow]
      BY DEF IndexedInv, EventTypes, EventTypeOK
    <2>3. CASE Begin(r)
      <3>1. eventRow'[Mine(r)].status = "processing" /\ eventRow'[Mine(r)] \in EventRow
        BY <1>1, <2>2, <2>3 DEF Begin, EventRow
      <3>2. eventRow' = [eventRow EXCEPT ![Mine(r)] = eventRow'[Mine(r)]]
        BY <1>1, <2>2, <2>3 DEF Begin
      <3> QED
        BY <2>1, <3>1, <3>2
    <2>4. CASE MarkEventFailed(r)
      <3>1. CASE eventRow[Mine(r)].status = "absent"
        BY <2>1, <2>4, <3>1 DEF MarkEventFailed
      <3>2. CASE eventRow[Mine(r)].status # "absent"
        <4>1. eventRow'[Mine(r)].status = "failed" /\ eventRow'[Mine(r)] \in EventRow
          BY <1>1, <2>2, <2>4, <3>2 DEF MarkEventFailed, EventRow
        <4>2. eventRow' = [eventRow EXCEPT ![Mine(r)] = eventRow'[Mine(r)]]
          BY <1>1, <2>2, <2>4, <3>2 DEF MarkEventFailed
        <4> QED
          BY <2>1, <4>1, <4>2
      <3> QED
        BY <3>1, <3>2
    <2>5. CASE Finish(r)
      <3>1. \A e \in Event \ {Mine(r)} : eventRow'[e] = eventRow[e]
        BY <1>1, <2>2, <2>5 DEF Finish
      <3>2. eventRow'[Mine(r)].status = StatusOf(eventWork[r].result)
        BY <1>1, <2>2, <2>5 DEF Finish, EventRow
      <3>3. eventWork[r].result = "indexed" => LastFile(Mine(r)) \in Full
        BY <1>5, <2>5 DEF Finish, OnTrack, Mine
      <3>4. eventRow'[Mine(r)].status = "indexed" => LastFile(Mine(r)) \in Full
        BY <3>2, <3>3 DEF StatusOf
      <3>5. \A e \in Event : eventRow'[e].status = "indexed" => LastFile(e) \in Full
        BY <3>1, <3>4 DEF IndexedInv, IndexedHasDocument
      <3> QED
        BY <1>3, <3>5 DEF IndexedHasDocument, LastFile
    <2>6. CASE ~(Begin(r) \/ MarkEventFailed(r) \/ Finish(r))
      <3>1. eventRow' = eventRow
        BY <2>6 DEF Post, Disconnect, Release, Quarantine, TimeOut, Fail, LoseLock
      <3> QED
        BY <2>1, <3>1
    <2> QED
      BY <2>3, <2>4, <2>5, <2>6
  <1>7. WorkOnTrack'
    <2>1. CASE Begin(r)
      BY <1>3, <2>1, StepOnTrack DEF Begin, AtSteps
    <2>2. CASE Post(r)
      <3>1. CASE Replayed(Head(eventWork[r].left), version) /\ Answered(r, "indexed")
        <4>1. Head(eventWork[r].left) \in Files
          BY <1>1, <2>2 DEF Post, AtMessage
        <4>2. doc[Head(eventWork[r].left)] # <<>>
          BY <3>1 DEF Replayed, Copy
        <4>3. Head(eventWork[r].left) \in Full
          BY <4>1, <4>2 DEF Full
        <4> QED
          BY <1>3, <2>2, <3>1, <4>3, AnsweredOnTrack DEF Post
      <3>2. CASE Step(r, "waiting")
        BY <1>3, <2>2, <3>2, StepOnTrack DEF Post, AtSteps
      <3> QED
        BY <2>2, <3>1, <3>2 DEF Post
    <2>3. CASE Finish(r)
      BY <1>3, <2>3, StepOnTrack DEF Finish, AtSteps
    <2>4. CASE Disconnect(r)
      BY <1>3, <2>4, StepOnTrack DEF Disconnect, AtSteps
    <2>5. CASE TimeOut(r) \/ Fail(r)
      BY <1>3, <2>5, StepOnTrack DEF TimeOut, Fail, AtSteps
    <2>6. CASE Quarantine(r)
      <3>1. eventWork[r].left # <<>>
        BY <2>6 DEF Quarantine, IndexedInv, EventTypes, WaitingForFile
      <3> QED
        BY <1>3, <2>6, <3>1, AnsweredOnTrack DEF Quarantine
    <2>7. CASE Release(r) \/ MarkEventFailed(r)
      <3>1. CASE eventWork' = [eventWork EXCEPT ![r] =
                   [Resting EXCEPT !.step = "picking", !.todo = eventWork[r].todo]]
        <4>1. [Resting EXCEPT !.step = "picking", !.todo = eventWork[r].todo].step = "picking"
          BY DEF Resting
        <4> QED
          BY <1>3, <3>1, <4>1, PausedOnTrack
      <3>2. CASE eventWork' = [eventWork EXCEPT ![r].step = "failing", ![r].held = FALSE]
        <4>1. eventWork' = [eventWork EXCEPT ![r] = [eventWork[r] EXCEPT !.step = "failing", !.held = FALSE]]
          BY <3>2 DEF IndexedInv, EventTypes, EventTypeOK
        <4>2. [eventWork[r] EXCEPT !.step = "failing", !.held = FALSE].step = "failing"
          BY <1>1 DEF AtMessage
        <4> QED
          BY <1>3, <4>1, <4>2, PausedOnTrack
      <3> QED
        BY <2>7, <3>1, <3>2 DEF Release, MarkEventFailed
    <2>8. CASE LoseLock(r)
      <3>1. eventWork' = [eventWork EXCEPT ![r] = [eventWork[r] EXCEPT !.held = FALSE]]
        BY <2>8 DEF LoseLock, IndexedInv, EventTypes, EventTypeOK
      <3>2. OnTrack([eventWork[r] EXCEPT !.held = FALSE], Full)
        BY <1>1, <1>5 DEF OnTrack, AtMessage
      <3> QED
        BY <1>3, <3>1, <3>2, OthersOnTrack
    <2> QED
      BY <2>1, <2>2, <2>3, <2>4, <2>5, <2>6, <2>7, <2>8
  <1> QED
    BY <1>3, <1>4, <1>6, <1>7 DEF IndexedInv

\* A commit of the proxy, answered or not.
LEMMA StoreIndexed ==
  ASSUME IndexedInv, EventTypes', NEW r \in Replicas, Store(r)
  PROVE  IndexedInv'
  <1> DEFINE f == Head(eventWork[r].left)
  <1>1. /\ eventWork[r].step = "waiting" /\ eventWork[r].left # <<>>
        /\ Mine(r) \in Event /\ version \in Version
    BY AtMessageType DEF IndexedInv, EventTypes, WaitingForFile, AtSteps, Store, EventTypeOK
  <1>2. Attached(Mine(r), f) /\ f \in Files
    BY <1>1, RequestAttached DEF Request
  <1> HIDE DEF f
  <1>3. /\ Ingest(Mine(r), f, version)
        /\ deleted' = deleted /\ closed' = closed /\ late' = late /\ eventRow' = eventRow
    BY DEF Store, f
  <1>4. Full \subseteq Full' /\ f \in Full' /\ FrontLive'
    BY <1>1, <1>2, <1>3, FrontStored
  <1>5. WorkOnTrack'
    <2>1. CASE Answered(r, "indexed")
      BY <1>1, <1>4, <2>1, AnsweredOnTrack DEF f
    <2>2. CASE Step(r, "broken")
      BY <1>1, <1>4, <2>2, StepOnTrack DEF AtSteps
    <2> QED
      BY <2>1, <2>2 DEF Store
  <1> QED
    BY <1>3, <1>4, <1>5, SameRows DEF IndexedInv, LateAttached, Attached

LEMMA LandIndexed ==
  ASSUME IndexedInv, EventTypes', NEW request \in Requests, Land(request)
  PROVE  IndexedInv'
  <1>1. request[1] \in Event /\ request[2] \in Files /\ request[3] \in Version
    BY DEF Requests
  <1>2. Attached(request[1], request[2])
    BY DEF Land, IndexedInv, LateAttached
  <1>3. Full \subseteq Full' /\ FrontLive'
    BY <1>1, <1>2, FrontStored DEF Land
  <1>4. WorkOnTrack'
    BY <1>3, OnTrackStays DEF Land, IndexedInv, WorkOnTrack
  <1>5. LateAttached'
    BY DEF Land, IndexedInv, LateAttached, Attached
  <1> QED
    BY <1>3, <1>4, <1>5, SameRows DEF Land, IndexedInv

LEMMA EnvironmentIndexed ==
  ASSUME IndexedInv, EventTypes',
         (\E r \in Replicas : CrashReplica(r)) \/ Upgrade \/ \E e \in Event : Delete(e) \/ AwaitDelay(e)
  PROVE  IndexedInv'
  <1>1. doc' = doc /\ deleted \subseteq deleted' /\ closed' = closed /\ withdrawn' = withdrawn
    BY DEF CrashReplica, Upgrade, Delete, AwaitDelay
  <1>2. Full' = Full /\ FrontLive'
    BY <1>1, SameDocuments
  <1>3. OnTrack(Resting, Full)
    BY DEF OnTrack, Resting
  <1>4. ASSUME NEW r \in Replicas, CrashReplica(r) PROVE IndexedInv'
    <2>1. WorkOnTrack'
      BY <1>2, <1>3, <1>4, OthersOnTrack DEF CrashReplica
    <2>2. LateAttached'
      BY <1>4, RequestAttached DEF CrashReplica, Waiting, IndexedInv, LateAttached, Attached
    <2> QED
      BY <1>2, <1>4, <2>1, <2>2, SameRows DEF CrashReplica, IndexedInv
  <1>5. CASE Upgrade
    <2>1. WorkOnTrack'
      BY <1>2, <1>3, <1>5 DEF Upgrade, WorkOnTrack
    <2>2. LateAttached'
      BY <1>5, RequestAttached DEF Upgrade, Waiting, IndexedInv, LateAttached, Attached
    <2> QED
      BY <1>2, <1>5, <2>1, <2>2, SameRows DEF Upgrade, IndexedInv
  <1>6. ASSUME NEW e \in Event, Delete(e) \/ AwaitDelay(e) PROVE IndexedInv'
    <2>1. WorkOnTrack' /\ LateAttached'
      BY <1>2, <1>6 DEF Delete, AwaitDelay, IndexedInv, WorkOnTrack, LateAttached, Attached
    <2>2. \A d \in Event : eventRow'[d].status = eventRow[d].status
      <3>1. CASE Delete(e)
        BY <3>1 DEF Delete
      <3>2. CASE AwaitDelay(e)
        <4>1. eventRow' = [eventRow EXCEPT ![e] = [eventRow[e] EXCEPT !.due = TRUE]] /\ eventRow[e] \in EventRow
          BY <3>2 DEF AwaitDelay, IndexedInv, EventTypes, EventTypeOK
        <4>2. [eventRow[e] EXCEPT !.due = TRUE].status = eventRow[e].status
          BY <4>1 DEF EventRow
        <4> QED
          BY <4>1, <4>2 DEF IndexedInv, EventTypes, EventTypeOK
      <3> QED
        BY <1>6, <3>1, <3>2
    <2>3. IndexedHasDocument'
      BY <1>2, <2>2 DEF IndexedInv, IndexedHasDocument, LastFile
    <2> QED
      BY <1>2, <2>1, <2>3 DEF IndexedInv
  <1> QED
    BY <1>4, <1>5, <1>6

\* A review withdraws the file, or leaves the document in front where it is; the
\* closing of the channel withdraws every file.
LEMMA ChangeIndexed ==
  ASSUME IndexedInv, EventTypes',
         \/ \E f \in Files, i \in 1..MaxVersion, retire \in BOOLEAN : Review(f, i, retire)
         \/ CloseChannel \/ OpenChannel
  PROVE  IndexedInv'
  <1>1. /\ eventRow' = eventRow /\ eventWork' = eventWork /\ late' = late
        /\ deleted' = deleted
    BY DEF Review, CloseChannel, OpenChannel
  <1>2. Full' = Full /\ FrontLive'
    <2>1. ASSUME NEW f \in Files, NEW i \in 1..MaxVersion, NEW retire \in BOOLEAN, Review(f, i, retire)
          PROVE  Full' = Full /\ FrontLive'
      <3>1. /\ doc[f] # <<>> /\ doc'[f] # <<>> /\ i \in DOMAIN doc[f]
            /\ doc'[f][1].parent = doc[f][i].parent /\ doc'[f][1].chunks = doc[f][i].chunks
            /\ doc'[f][1].retired = retire
            /\ \A g \in Files \ {f} : doc'[g] = doc[g]
        BY <2>1, ReviewedDocuments DEF IndexedInv, EventTypes
      <3>2. Full' = Full
        BY <3>1 DEF Full
      <3>3. closed' = closed /\ withdrawn \subseteq withdrawn' /\ (retire \/ i # 1 => f \in withdrawn')
        BY <2>1 DEF Review
      <3>5. f \in withdrawn' \/ FrontIntact(f)'
        <4>1. CASE retire \/ i # 1
          BY <3>3, <4>1
        <4>2. CASE ~retire /\ i = 1
          <5>1. f \in Full
            BY <3>1 DEF Full
          <5>2. f \in withdrawn \/ FrontIntact(f)
            BY <5>1 DEF IndexedInv, FrontLive
          <5> QED
            BY <1>1, <3>1, <3>3, <4>2, <5>2 DEF FrontIntact, Attached
        <4> QED
          BY <4>1, <4>2
      <3>6. ASSUME NEW g \in Full, g # f
            PROVE  g \in withdrawn' \/ FrontIntact(g)'
        <4>1. doc'[g] = doc[g]
          BY <3>1, <3>6 DEF Full
        <4>2. g \in withdrawn \/ FrontIntact(g)
          BY DEF IndexedInv, FrontLive
        <4> QED
          BY <1>1, <3>3, <4>1, <4>2 DEF FrontIntact, Attached
      <3> QED
        BY <3>2, <3>5, <3>6 DEF FrontLive
    <2>2. CASE CloseChannel
      <3>1. doc' = doc /\ withdrawn' = Files
        BY <2>2 DEF CloseChannel
      <3> QED
        BY <3>1 DEF Full, IndexedInv, FrontLive
    <2>3. CASE OpenChannel
      <3>1. doc' = doc /\ withdrawn' = withdrawn /\ closed
        BY <2>3 DEF OpenChannel
      <3>2. \A f \in Full : f \in withdrawn
        BY <3>1 DEF IndexedInv, FrontLive, FrontIntact
      <3> QED
        BY <3>1, <3>2 DEF Full, IndexedInv, FrontLive
    <2> QED
      BY <2>1, <2>2, <2>3
  <1>3. WorkOnTrack' /\ LateAttached'
    BY <1>1, <1>2 DEF IndexedInv, WorkOnTrack, LateAttached, Attached
  <1> QED
    BY <1>1, <1>2, <1>3, SameRows DEF IndexedInv

LEMMA IndexedStep == Configured /\ IndexedInv /\ [EventNext]_eventVars => IndexedInv'
  <1> SUFFICES ASSUME Configured, IndexedInv, [EventNext]_eventVars PROVE IndexedInv'
    OBVIOUS
  <1>0. EventTypes'
    BY EventStepTypes DEF IndexedInv
  <1>1. CASE UNCHANGED eventVars
    <2>1. Full' = Full /\ FrontLive'
      BY <1>1, SameDocuments DEF eventVars
    <2> QED
      BY <1>0, <1>1, <2>1, SameRows DEF eventVars, IndexedInv, WorkOnTrack, LateAttached, Attached
  <1>2. ASSUME NEW r \in Replicas,
               \/ Advance(r) \/ Quarantine(r) \/ TimeOut(r) \/ Fail(r) \/ LoseLock(r)
        PROVE  IndexedInv'
    BY <1>0, <1>2, PollIndexed, MessageIndexed, StoreIndexed DEF Advance
  <1>3. ASSUME NEW request \in Requests, Land(request) PROVE IndexedInv'
    BY <1>0, <1>3, LandIndexed
  <1> QED
    BY <1>0, <1>1, <1>2, <1>3, EnvironmentIndexed, ChangeIndexed DEF EventNext

\* An attachment of a message recorded as indexed stays retrievable, unless a
\* message with the same file was deleted or the file withdrawn since it was
\* last ingested, for any messages, projectors and versions, whatever is lost,
\* retried or lands late.
THEOREM IndexedStays == EventSpec => []StaysIndexed
  <1>1. EventInit => IndexedInv
    BY IndexedInit, ConfiguredAssumption
  <1>2. IndexedInv /\ [EventNext]_eventVars => IndexedInv'
    BY IndexedStep, ConfiguredAssumption
  <1>3. IndexedInv => StaysIndexed
    BY IndexedInvImplies, ConfiguredAssumption
  <1> QED
    BY <1>1, <1>2, <1>3, PTL DEF EventSpec
=============================================================================
