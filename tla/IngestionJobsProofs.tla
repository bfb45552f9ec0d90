------------------------- MODULE IngestionJobsProofs --------------------------
(***************************************************************************)
(* Proofs about durable ingestion jobs.                                    *)
(*                                                                         *)
(* The submissions are in order because the actor's lock is held from the  *)
(* count to the insert and ids are never shared; the workers because a     *)
(* lease number is given out once, so that what a worker may still write   *)
(* is known from the lease it holds.                                       *)
(***************************************************************************)
EXTENDS IngestionJobs, FiniteSetTheorems, TLAPS

\* A call in progress has a submission, a worker at work has a claimed row.
LEMMA InProgress ==
  ASSUME TypeOK
  PROVE  /\ \A c \in Calls : call[c].stage # "idle" => call[c] \in Submission
         /\ \A w \in Workers : Working(w) => worker[w] \in Work
         /\ \A j \in Rows : job[j] \in StoredRow
  <1>1. ASSUME NEW c \in Calls, call[c].stage # "idle" PROVE call[c] \in Submission
    <2>1. call[c] \in Submission \cup {NoCall}
      BY DEF TypeOK
    <2> QED
      BY <1>1, <2>1 DEF NoCall
  <1>2. ASSUME NEW w \in Workers, Working(w) PROVE worker[w] \in Work
    <2>1. worker[w] \in Work \cup {NoWork}
      BY DEF TypeOK
    <2> QED
      BY <1>2, <2>1 DEF Working, NoWork
  <1>3. ASSUME NEW j \in Rows PROVE job[j] \in StoredRow
    <2>1. job[j] \in StoredRow \cup {NoJob} /\ job[j].status # "absent"
      BY <1>3 DEF TypeOK, Rows
    <2> QED
      BY <2>1 DEF NoJob
  <1> QED
    BY <1>1, <1>2, <1>3

LEMMA InitTyped == Init => TypeOK
  <1> SUFFICES ASSUME Init PROVE TypeOK
    OBVIOUS
  <1> USE BoundsAssumption DEF Init
  <1>1. spent \in [owner : 0..MaxOwner, crashes : 0..MaxCrashes, stalls : 0..MaxStalls, faults : 0..MaxFaults]
    OBVIOUS
  <1>2. began \in 0..MaxJobs /\ leases \in Nat
    OBVIOUS
  <1>3. call \in [Calls -> Submission \cup {NoCall}] /\ worker \in [Workers -> Work \cup {NoWork}]
    OBVIOUS
  <1>4. job \in [Job -> StoredRow \cup {NoJob}]
    OBVIOUS
  <1> QED
    BY <1>1, <1>2, <1>3, <1>4 DEF TypeOK

\* A step of a call leaves a submission.
LEMMA CallKept ==
  ASSUME TypeOK, NEW c \in Calls, call[c].stage # "idle"
  PROVE  /\ [call EXCEPT ![c] = NoCall] \in [Calls -> Submission \cup {NoCall}]
         /\ \A stage \in {"counting", "inserting"} :
              [call EXCEPT ![c].stage = stage] \in [Calls -> Submission \cup {NoCall}]
  <1>1. ASSUME NEW stage \in {"counting", "inserting"}
        PROVE  [call EXCEPT ![c].stage = stage] \in [Calls -> Submission \cup {NoCall}]
    <2>1. call[c] \in Submission
      BY InProgress
    <2>2. [call[c] EXCEPT !.stage = stage] \in Submission
      BY <2>1 DEF Submission
    <2> QED
      BY <2>2 DEF TypeOK
  <1> QED
    BY <1>1 DEF TypeOK

LEMMA ReplyTyped ==
  ASSUME TypeOK, NEW c \in Calls, call[c].stage # "idle", NEW j \in Job \cup {0}, Reply(c, j)
  PROVE  /\ call' \in [Calls -> Submission \cup {NoCall}]
         /\ answers' \subseteq Actors \X RequestIds \X Texts \X (Job \cup {0})
  <1>1. call[c] \in Submission
    BY InProgress
  <1>2. call[c].actor \in Actors /\ call[c].request \in RequestIds /\ call[c].text \in Texts
    BY <1>1 DEF Submission
  <1> QED
    BY <1>2, CallKept DEF TypeOK, Reply

\* Submissions.
LEMMA CallTyped ==
  ASSUME TypeOK, NEW c \in Calls,
         \/ CallStep(c) \/ Abandon(c)
         \/ \E a \in Actors, r \in RequestIds, t \in Texts : Submit(c, a, r, t)
  PROVE  TypeOK'
  <1> USE BoundsAssumption
  <1>1. ASSUME NEW a \in Actors, NEW r \in RequestIds, NEW t \in Texts, Submit(c, a, r, t) PROVE TypeOK'
    <2>1. began + 1 \in Job /\ began + 1 \in 0..MaxJobs
      BY <1>1 DEF TypeOK, Submit, Job
    <2>2. [stage |-> "locking", id |-> began + 1, actor |-> a, request |-> r, text |-> t] \in Submission
      BY <2>1 DEF Submission
    <2> QED
      BY <1>1, <2>1, <2>2 DEF TypeOK, Submit
  <1>2. ASSUME Lock(c) PROVE TypeOK'
    BY <1>2, CallKept DEF TypeOK, Lock
  <1>3. ASSUME Count(c) PROVE TypeOK'
    <2>1. call[c].stage # "idle"
      BY <1>3 DEF Count
    <2>2. ASSUME NEW j \in RowsOf(call[c].actor, call[c].request), Reply(c, IF SameRequest(c, j) THEN j ELSE 0)
          PROVE  /\ call' \in [Calls -> Submission \cup {NoCall}]
                 /\ answers' \subseteq Actors \X RequestIds \X Texts \X (Job \cup {0})
      <3>1. (IF SameRequest(c, j) THEN j ELSE 0) \in Job \cup {0}
        BY DEF RowsOf, Rows
      <3> QED
        BY <2>1, <2>2, <3>1, ReplyTyped
    <2>3. /\ call' \in [Calls -> Submission \cup {NoCall}]
          /\ answers' \subseteq Actors \X RequestIds \X Texts \X (Job \cup {0})
      <3>1. CASE \E j \in RowsOf(call[c].actor, call[c].request) :
                   Reply(c, IF SameRequest(c, j) THEN j ELSE 0)
        BY <2>2, <3>1
      <3>2. CASE /\ call' = [call EXCEPT ![c] = NoCall] \/ call' = [call EXCEPT ![c].stage = "inserting"]
                 /\ UNCHANGED answers
        BY <2>1, <3>2, CallKept DEF TypeOK
      <3> QED
        BY <1>3, <3>1, <3>2 DEF Count
    <2> QED
      BY <1>3, <2>3 DEF TypeOK, Count
  <1>4. ASSUME Insert(c) PROVE TypeOK'
    <2>1. call[c].stage # "idle" /\ call[c] \in Submission
      BY <1>4, InProgress DEF Insert
    <2>2. call[c].id \in Job
      BY <2>1 DEF Submission
    <2>3. Submitted(c) \in StoredRow
      <3>1. 0 \in 0..MaxAttempts /\ "pending" \in Status \ {"absent"}
        BY DEF Status, Unfinished
      <3> QED
        BY <2>1, <3>1 DEF Submitted, StoredRow, NoJob, Submission
    <2>4. job' \in [Job -> StoredRow \cup {NoJob}]
      BY <1>4, <2>2, <2>3 DEF TypeOK, Insert
    <2>5. /\ call' \in [Calls -> Submission \cup {NoCall}]
          /\ answers' \subseteq Actors \X RequestIds \X Texts \X (Job \cup {0})
      BY <1>4, <2>1, <2>2, ReplyTyped DEF Insert
    <2> QED
      BY <1>4, <2>4, <2>5 DEF TypeOK, Insert
  <1>5. ASSUME Abandon(c) PROVE TypeOK'
    BY <1>5, CallKept DEF TypeOK, Abandon
  <1> QED
    BY <1>1, <1>2, <1>3, <1>4, <1>5 DEF CallStep

\* What the owner, the claim, the acknowledgement and the sweep make of a row.
LEMMA OwnedRow ==
  ASSUME NEW r \in StoredRow, NEW status \in {"pending", "cancelled"}, NEW b \in BOOLEAN
  PROVE  [r EXCEPT !.status = status, !.attempts = 0, !.due = TRUE, !.settled = b] \in StoredRow
  <1>1. 0 \in 0..MaxAttempts /\ status \in Status \ {"absent"}
    BY BoundsAssumption DEF Status, Unfinished
  <1> QED
    BY <1>1 DEF StoredRow

LEMMA ClaimedRow ==
  ASSUME NEW r \in StoredRow, r.attempts < MaxAttempts, NEW l \in Nat
  PROVE  [r EXCEPT !.status = "processing", !.attempts = @ + 1, !.lease = l, !.live = TRUE] \in StoredRow
  <1>1. r.attempts + 1 \in 0..MaxAttempts /\ "processing" \in Status \ {"absent"}
    BY BoundsAssumption DEF Status, Unfinished, StoredRow
  <1> QED
    BY <1>1 DEF StoredRow

LEMMA AcknowledgedRow ==
  ASSUME NEW r \in StoredRow, NEW status \in {"pending", "completed", "failed"}, NEW d \in BOOLEAN,
         NEW b \in BOOLEAN
  PROVE  [r EXCEPT !.status = status, !.live = FALSE, !.due = d, !.settled = b] \in StoredRow
  <1>1. status \in Status \ {"absent"}
    BY DEF Status, Unfinished
  <1> QED
    BY <1>1 DEF StoredRow

\* The step of a worker's record.
LEMMA StepKept ==
  ASSUME TypeOK, NEW w \in Workers, Working(w),
         NEW step \in {"claimed", "ingesting", "ingested", "unanswered", "failing", "refused"}, Step(w, step)
  PROVE  worker' \in [Workers -> Work \cup {NoWork}]
  <1>1. worker[w] \in Work
    BY InProgress
  <1>2. [worker[w] EXCEPT !.step = step] \in Work
    BY <1>1 DEF Work
  <1> QED
    BY <1>2 DEF TypeOK, Step

LEMMA FaultTyped ==
  ASSUME TypeOK, Fault
  PROVE  spent' \in [owner : 0..MaxOwner, crashes : 0..MaxCrashes, stalls : 0..MaxStalls, faults : 0..MaxFaults]
  BY BoundsAssumption DEF TypeOK, Fault

LEMMA AcknowledgeTyped ==
  ASSUME TypeOK, NEW w \in Workers, Working(w), NEW status \in {"pending", "completed", "failed"},
         NEW step \in {"idle", "unanswered"}, worker[w].job \in Rows, Acknowledge(w, status, step)
  PROVE  job' \in [Job -> StoredRow \cup {NoJob}] /\ worker' \in [Workers -> Work \cup {NoWork}]
  <1> DEFINE j == worker[w].job
             d == IF status = "completed" THEN job[j].due ELSE FALSE
             b == job[j].settled \/ status \notin Unfinished
  <1>1. j \in Job /\ job[j] \in StoredRow
    BY InProgress DEF Rows
  <1>2. d \in BOOLEAN /\ b \in BOOLEAN
    BY <1>1 DEF StoredRow
  <1>3. [job[j] EXCEPT !.status = status, !.live = FALSE, !.due = d, !.settled = b] \in StoredRow
    BY <1>1, <1>2, AcknowledgedRow
  <1>4. job' \in [Job -> StoredRow \cup {NoJob}]
    BY <1>1, <1>3 DEF TypeOK, Acknowledge
  <1>5. worker' \in [Workers -> Work \cup {NoWork}]
    BY StepKept DEF TypeOK, Acknowledge
  <1> QED
    BY <1>4, <1>5

\* A worker at work has claimed a stored row.
WorkersHaveRows == \A w \in Workers : Working(w) => worker[w].job \in Rows

\* The worker's round.
LEMMA WorkerTyped ==
  ASSUME TypeOK, WorkersHaveRows, NEW w \in Workers, WorkerStep(w)
  PROVE  TypeOK'
  <1> USE BoundsAssumption
  <1>1. ASSUME Claim(w) PROVE TypeOK'
    <2>1. PICK j \in Claimable :
            /\ job' = [job EXCEPT ![j].status = "processing", ![j].attempts = @ + 1,
                                  ![j].lease = leases + 1, ![j].live = TRUE]
            /\ worker' = [worker EXCEPT ![w] = [step |-> "claimed", job |-> j, lease |-> leases + 1,
                                                attempts |-> job[j].attempts + 1]]
      BY <1>1 DEF Claim
    <2>2. j \in Job /\ job[j] \in StoredRow /\ job[j].attempts < MaxAttempts /\ leases + 1 \in Nat
      BY <2>1, InProgress DEF Claimable, Rows, TypeOK
    <2>3. [job[j] EXCEPT !.status = "processing", !.attempts = @ + 1, !.lease = leases + 1, !.live = TRUE]
            \in StoredRow
      BY <2>2, ClaimedRow
    <2>4. job' \in [Job -> StoredRow \cup {NoJob}]
      BY <2>1, <2>2, <2>3 DEF TypeOK
    <2>5. job[j].attempts + 1 \in 1..MaxAttempts
      BY <2>2 DEF StoredRow
    <2>6. worker' \in [Workers -> Work \cup {NoWork}]
      BY <2>1, <2>2, <2>5 DEF TypeOK, Work
    <2> QED
      BY <1>1, <2>2, <2>4, <2>6 DEF TypeOK, Claim
  <1>2. ASSUME CheckMembership(w) PROVE TypeOK'
    <2>1. worker' \in [Workers -> Work \cup {NoWork}]
      BY <1>2, StepKept DEF CheckMembership, Working
    <2> QED
      BY <1>2, <2>1 DEF TypeOK, CheckMembership
  <1>3. ASSUME Ingest(w) PROVE TypeOK'
    <2>1. worker' \in [Workers -> Work \cup {NoWork}]
      BY <1>3, StepKept DEF Ingest, Working
    <2>2. job[worker[w].job] \in StoredRow
      BY <1>3, InProgress DEF Ingest, Working, WorkersHaveRows
    <2>3. job[worker[w].job].text \in Texts
      BY <2>2 DEF StoredRow
    <2> QED
      BY <1>3, <2>1, <2>3, FaultTyped DEF TypeOK, Ingest
  <1>4. ASSUME IngestFails(w) PROVE TypeOK'
    <2>1. worker' \in [Workers -> Work \cup {NoWork}]
      BY <1>4, StepKept DEF IngestFails, Working
    <2> QED
      BY <1>4, <2>1, FaultTyped DEF TypeOK, IngestFails
  <1>5. ASSUME Complete(w) PROVE TypeOK'
    <2>1. job' \in [Job -> StoredRow \cup {NoJob}] /\ worker' \in [Workers -> Work \cup {NoWork}]
      BY <1>5, AcknowledgeTyped DEF Complete, Working, WorkersHaveRows
    <2> QED
      BY <1>5, <2>1, FaultTyped DEF TypeOK, Complete
  <1>6. ASSUME Fail(w) PROVE TypeOK'
    <2>1. FailedStatus(w) \in {"pending", "completed", "failed"}
      BY DEF FailedStatus
    <2>2. job' \in [Job -> StoredRow \cup {NoJob}] /\ worker' \in [Workers -> Work \cup {NoWork}]
      BY <1>6, <2>1, AcknowledgeTyped DEF Fail, Working, WorkersHaveRows
    <2> QED
      BY <1>6, <2>2 DEF TypeOK, Fail
  <1>7. ASSUME Sweep(w) PROVE TypeOK'
    <2>1. ASSUME NEW j \in Job, Abandoned(j)
          PROVE  [job[j] EXCEPT !.status = "failed", !.settled = TRUE] \in StoredRow
      <3>1. j \in Rows
        BY <2>1 DEF Rows, Abandoned
      <3>2. job[j] \in StoredRow /\ "failed" \in Status \ {"absent"}
        BY <3>1, InProgress DEF Status, Unfinished
      <3> QED
        BY <3>2 DEF StoredRow
    <2>2. job' \in [Job -> StoredRow \cup {NoJob}]
      BY <1>7, <2>1 DEF TypeOK, Sweep
    <2> QED
      BY <1>7, <2>2 DEF TypeOK, Sweep
  <1> QED
    BY <1>1, <1>2, <1>3, <1>4, <1>5, <1>6, <1>7 DEF WorkerStep

\* The owner and the environment.
LEMMA OtherTyped ==
  ASSUME TypeOK,
         \/ \E w \in Workers : Crash(w)
         \/ \E j \in Job : Retry(j) \/ Cancel(j) \/ Wait(j) \/ Lapse(j)
         \/ \E a \in Actors : Revoke(a)
  PROVE  TypeOK'
  <1> USE BoundsAssumption
  <1>1. ASSUME NEW w \in Workers, Crash(w) PROVE TypeOK'
    <2>1. spent' \in [owner : 0..MaxOwner, crashes : 0..MaxCrashes, stalls : 0..MaxStalls,
                      faults : 0..MaxFaults]
      BY <1>1 DEF TypeOK, Crash
    <2> QED
      BY <1>1, <2>1 DEF TypeOK, Crash
  <1>2. ASSUME NEW j \in Job, NEW status \in {"pending", "cancelled"}, OwnerAction(j, status) PROVE TypeOK'
    <2> DEFINE b == job[j].settled \/ status = "cancelled"
    <2>1. job[j] \in StoredRow
      BY <1>2, InProgress DEF OwnerAction, Rows
    <2>2. b \in BOOLEAN
      BY <2>1 DEF StoredRow
    <2>3. [job[j] EXCEPT !.status = status, !.attempts = 0, !.due = TRUE, !.settled = b] \in StoredRow
      BY <2>1, <2>2, OwnedRow
    <2>4. job' \in [Job -> StoredRow \cup {NoJob}]
      BY <1>2, <2>3 DEF TypeOK, OwnerAction
    <2>5. spent' \in [owner : 0..MaxOwner, crashes : 0..MaxCrashes, stalls : 0..MaxStalls,
                      faults : 0..MaxFaults]
      BY <1>2 DEF TypeOK, OwnerAction
    <2> QED
      BY <1>2, <2>4, <2>5 DEF TypeOK, OwnerAction
  <1>3. ASSUME NEW j \in Job, Wait(j) \/ Lapse(j) PROVE TypeOK'
    <2>1. job[j] \in StoredRow
      BY <1>3, InProgress DEF Wait, Lapse, Rows
    <2>2. [job[j] EXCEPT !.due = TRUE] \in StoredRow /\ [job[j] EXCEPT !.live = FALSE] \in StoredRow
      BY <2>1 DEF StoredRow
    <2>3. job' \in [Job -> StoredRow \cup {NoJob}]
      BY <1>3, <2>2 DEF TypeOK, Wait, Lapse
    <2>4. spent' \in [owner : 0..MaxOwner, crashes : 0..MaxCrashes, stalls : 0..MaxStalls,
                      faults : 0..MaxFaults]
      BY <1>3 DEF TypeOK, Wait, Lapse
    <2> QED
      BY <1>3, <2>3, <2>4 DEF TypeOK, Wait, Lapse
  <1>4. ASSUME NEW a \in Actors, Revoke(a) PROVE TypeOK'
    BY <1>4 DEF TypeOK, Revoke
  <1> QED
    BY <1>1, <1>2, <1>3, <1>4 DEF Retry, Cancel

-----------------------------------------------------------------------------
(***************************************************************************)
(* Submissions.                                                            *)
(***************************************************************************)
NonIdle(c) == call[c].stage # "idle"
Holds(c) == call[c].stage \in {"counting", "inserting"}
Unsettled(a) == {j \in Rows : job[j].actor = a /\ ~job[j].settled}

\* Ids are given out once and their rows are not there yet.
Numbered ==
  /\ \A j \in Job : j > began => job[j].status = "absent"
  /\ \A c \in Calls : NonIdle(c) => call[c].id <= began /\ job[call[c].id].status = "absent"
  /\ \A c, d \in Calls : NonIdle(c) /\ NonIdle(d) /\ call[c].id = call[d].id => c = d

\* One call of an actor at a time counts and inserts.
Exclusive == \A c, d \in Calls : Holds(c) /\ Holds(d) /\ call[c].actor = call[d].actor => c = d

\* What was counted still holds when the row is inserted.
Room == \A c \in Calls : call[c].stage = "inserting" => Cardinality(Unsettled(call[c].actor)) < Limit

OpenIsUnfinished == \A j \in Rows : job[j].settled \/ job[j].status \in Unfinished

OneRow == \A i, j \in Rows : job[i].actor = job[j].actor /\ job[i].request = job[j].request => i = j

Answered ==
  \A x \in answers : x[4] # 0 => /\ x[4] \in Rows
                                 /\ job[x[4]].actor = x[1] /\ job[x[4]].request = x[2] /\ job[x[4]].text = x[3]

Order == Numbered /\ Exclusive /\ Room /\ AdmissionBounded /\ OpenIsUnfinished /\ OneRow /\ Answered

\* The row of a job stays the same job.
SameJob(j) ==
  /\ job'[j].status = "absent" <=> job[j].status = "absent"
  /\ job'[j].actor = job[j].actor /\ job'[j].request = job[j].request /\ job'[j].text = job[j].text
  /\ job[j].settled => job'[j].settled
  /\ job[j].settled \/ job[j].status \in Unfinished => job'[j].settled \/ job'[j].status \in Unfinished

LEMMA UnchangedSame == UNCHANGED job => \A j \in Job : SameJob(j)
  BY DEF SameJob

\* Only an insertion makes another job of a row.
LEMMA KeepsJobs ==
  ASSUME TypeOK, WorkersHaveRows,
         \/ \E w \in Workers : WorkerStep(w) \/ Crash(w)
         \/ \E j \in Job : Retry(j) \/ Cancel(j) \/ Wait(j) \/ Lapse(j)
         \/ \E a \in Actors : Revoke(a)
  PROVE  \A j \in Job : SameJob(j)
  <1>1. ASSUME NEW w \in Workers, Claim(w) PROVE \A j \in Job : SameJob(j)
    <2>1. PICK i \in Claimable :
            job' = [job EXCEPT ![i].status = "processing", ![i].attempts = @ + 1,
                               ![i].lease = leases + 1, ![i].live = TRUE]
      BY <1>1 DEF Claim
    <2>2. i \in Job /\ job[i] \in StoredRow /\ job[i].status # "absent"
      BY InProgress DEF Claimable, Rows
    <2> QED
      BY <2>1, <2>2 DEF TypeOK, SameJob, StoredRow, Unfinished
  <1>2. ASSUME NEW w \in Workers, Working(w), NEW status \in {"pending", "completed", "failed"},
               NEW step, Acknowledge(w, status, step)
        PROVE  \A j \in Job : SameJob(j)
    <2>1. worker[w].job \in Job /\ job[worker[w].job] \in StoredRow /\ job[worker[w].job].status # "absent"
      BY <1>2, InProgress DEF WorkersHaveRows, Rows
    <2>2. CASE Owns(w)
      <3> DEFINE i == worker[w].job
      <3>1. \A j \in Job \ {i} : job'[j] = job[j]
        BY <1>2, <2>2 DEF TypeOK, Acknowledge
      <3>2. /\ job'[i].status = status /\ job'[i].actor = job[i].actor /\ job'[i].request = job[i].request
            /\ job'[i].text = job[i].text /\ job'[i].settled = (job[i].settled \/ status \notin Unfinished)
        BY <1>2, <2>1, <2>2 DEF TypeOK, Acknowledge, StoredRow
      <3>3. SameJob(i)
        BY <2>1, <3>2 DEF SameJob
      <3> QED
        BY <3>1, <3>3 DEF SameJob
    <2>3. CASE ~Owns(w)
      BY <1>2, <2>3, UnchangedSame DEF Acknowledge
    <2> QED
      BY <2>2, <2>3
  <1>3. ASSUME NEW w \in Workers, Complete(w) PROVE \A j \in Job : SameJob(j)
    BY <1>2, <1>3 DEF Complete, Working
  <1>4. ASSUME NEW w \in Workers, Fail(w) PROVE \A j \in Job : SameJob(j)
    <2>1. FailedStatus(w) \in {"pending", "completed", "failed"}
      BY DEF FailedStatus
    <2> QED
      BY <1>2, <1>4, <2>1 DEF Fail, Working
  <1>5. ASSUME NEW w \in Workers, Sweep(w) PROVE \A j \in Job : SameJob(j)
    <2>1. ASSUME NEW j \in Job, Abandoned(j) PROVE SameJob(j)
      <3>1. job[j] \in StoredRow /\ job[j].status # "absent"
        BY <2>1, InProgress DEF Abandoned, Rows
      <3>2. job'[j] = [job[j] EXCEPT !.status = "failed", !.settled = TRUE]
        BY <1>5, <2>1 DEF Sweep
      <3> QED
        BY <3>1, <3>2 DEF SameJob, StoredRow
    <2>2. ASSUME NEW j \in Job, ~Abandoned(j) PROVE SameJob(j)
      BY <1>5, <2>2 DEF Sweep, SameJob
    <2> QED
      BY <2>1, <2>2
  <1>6. ASSUME NEW w \in Workers, CheckMembership(w) \/ Ingest(w) \/ IngestFails(w) \/ Crash(w)
        PROVE  \A j \in Job : SameJob(j)
    BY <1>6, UnchangedSame DEF CheckMembership, Ingest, IngestFails, Crash
  <1>7. ASSUME NEW i \in Job, NEW status \in {"pending", "cancelled"}, OwnerAction(i, status)
        PROVE  \A j \in Job : SameJob(j)
    <2>1. job[i] \in StoredRow /\ job[i].status # "absent"
      BY <1>7, InProgress DEF OwnerAction, Rows
    <2>2. \A j \in Job \ {i} : job'[j] = job[j]
      BY <1>7 DEF TypeOK, OwnerAction
    <2>3. /\ job'[i].status = status /\ job'[i].actor = job[i].actor /\ job'[i].request = job[i].request
          /\ job'[i].text = job[i].text /\ job'[i].settled = (job[i].settled \/ status = "cancelled")
      BY <1>7, <2>1 DEF TypeOK, OwnerAction, StoredRow
    <2>4. SameJob(i)
      BY <2>1, <2>3 DEF SameJob, Unfinished
    <2> QED
      BY <2>2, <2>4 DEF SameJob
  <1>8. ASSUME NEW i \in Job, Wait(i) \/ Lapse(i) PROVE \A j \in Job : SameJob(j)
    <2>1. job[i] \in StoredRow
      BY <1>8, InProgress DEF Wait, Lapse, Rows
    <2> QED
      BY <1>8, <2>1 DEF TypeOK, Wait, Lapse, SameJob, StoredRow
  <1>9. ASSUME NEW a \in Actors, Revoke(a) PROVE \A j \in Job : SameJob(j)
    BY <1>9, UnchangedSame DEF Revoke
  <1> QED
    BY <1>1, <1>3, <1>4, <1>5, <1>6, <1>7, <1>8, <1>9 DEF WorkerStep, Retry, Cancel

\* The rows of an actor are few, however many they are.
LEMMA Finite ==
  ASSUME NEW S, S \subseteq Job
  PROVE  IsFiniteSet(S) /\ Cardinality(S) \in Nat
  <1>1. IsFiniteSet(Job)
    BY BoundsAssumption, FS_Interval DEF Job
  <1> QED
    BY <1>1, FS_Subset, FS_CardinalityType

LEMMA Fewer ==
  ASSUME NEW S, NEW T, S \subseteq T, T \subseteq Job
  PROVE  Cardinality(S) <= Cardinality(T) /\ Cardinality(S) \in Nat /\ Cardinality(T) \in Nat
  BY Finite, FS_Subset

\* Steps outside a submission.
LEMMA KeptOrder ==
  ASSUME TypeOK, Order, \A j \in Job : SameJob(j), UNCHANGED <<call, began, answers>>
  PROVE  Order'
  <1>1. Rows' = Rows
    BY DEF Rows, SameJob
  <1>2. \A c \in Calls : NonIdle(c) => call[c].id \in Job
    BY InProgress DEF NonIdle, Submission
  <1>3. Numbered' /\ Exclusive'
    BY <1>2 DEF Order, Numbered, Exclusive, NonIdle, Holds, SameJob
  <1>4. ASSUME NEW a PROVE Cardinality(Unsettled(a)') <= Cardinality(Unsettled(a))
                           /\ Cardinality(Unsettled(a)') \in Nat /\ Cardinality(Unsettled(a)) \in Nat
    <2>1. Unsettled(a)' \subseteq Unsettled(a) /\ Unsettled(a) \subseteq Job
      BY <1>1 DEF Unsettled, SameJob, Rows
    <2> QED
      BY <2>1, Fewer
  <1>5. Room'
    <2> SUFFICES ASSUME NEW c \in Calls, call[c].stage = "inserting"
                 PROVE  Cardinality(Unsettled(call[c].actor)') < Limit
      BY DEF Room, Unsettled, Rows
    <2>1. Cardinality(Unsettled(call[c].actor)) < Limit
      BY DEF Order, Room
    <2> QED
      BY <1>4, <2>1, BoundsAssumption
  <1>6. AdmissionBounded'
    <2> SUFFICES ASSUME NEW a \in Actors PROVE Cardinality(Unsettled(a)') <= Limit
      BY DEF AdmissionBounded, Unsettled, Rows
    <2>1. Cardinality(Unsettled(a)) <= Limit
      BY DEF Order, AdmissionBounded, Unsettled
    <2> QED
      BY <1>4, <2>1, BoundsAssumption
  <1>7. OpenIsUnfinished' /\ OneRow'
    BY <1>1 DEF Order, OpenIsUnfinished, OneRow, SameJob, Rows
  <1>8. Answered'
    BY <1>1 DEF Order, Answered, SameJob, Rows
  <1> QED
    BY <1>3, <1>5, <1>6, <1>7, <1>8 DEF Order

\* Steps of a submission before its insert leave the rows alone.
LEMMA CallOrder ==
  ASSUME TypeOK, TypeOK', Order, NEW c \in Calls,
         \/ Lock(c) \/ Count(c) \/ Abandon(c)
         \/ \E a \in Actors, r \in RequestIds, t \in Texts : Submit(c, a, r, t)
  PROVE  Order'
  <1>0. (\E a \in Actors, r \in RequestIds, t \in Texts :
            call'[c] = [stage |-> "locking", id |-> began + 1, actor |-> a, request |-> r, text |-> t])
           => call'[c].stage = "locking"
    OBVIOUS
  <1>1. UNCHANGED job /\ began \in Nat /\ began' \in Nat /\ began <= began' /\ \A d \in Calls \ {c} : call'[d] = call[d]
    <2>1. UNCHANGED job /\ began' \in {began, began + 1}
      BY DEF Lock, Count, Abandon, Submit
    <2>2. \A d \in Calls \ {c} : call'[d] = call[d]
      BY DEF TypeOK, Lock, Count, Abandon, Submit, Reply
    <2> QED
      BY <2>1, <2>2, BoundsAssumption DEF TypeOK
  <1>2. \/ call'[c] = NoCall
        \/ /\ call[c].stage = "locking" /\ LockFree(c) /\ call'[c] = [call[c] EXCEPT !.stage = "counting"]
        \/ /\ call[c].stage = "counting" /\ call'[c] = [call[c] EXCEPT !.stage = "inserting"]
           /\ Cardinality(UnfinishedOf(call[c].actor)) < Limit
        \/ /\ began' = began + 1
           /\ \E a \in Actors, r \in RequestIds, t \in Texts :
                call'[c] = [stage |-> "locking", id |-> began + 1, actor |-> a, request |-> r, text |-> t]
    BY DEF TypeOK, Lock, Count, Abandon, Submit, Reply
  <1>3. call[c].stage # "idle" =>
          /\ call[c] \in Submission
          /\ \A stage \in {"counting", "inserting"} :
               LET new == [call[c] EXCEPT !.stage = stage] IN
               new.stage = stage /\ new.id = call[c].id /\ new.actor = call[c].actor
    BY InProgress DEF Submission
  <1>4. \A d \in Calls : NonIdle(d) => call[d].id \in Job
    BY InProgress DEF NonIdle, Submission
  <1>5. \A d \in Calls : NonIdle(d)' => call'[d].id \in Job
    BY <1>1, <1>2, <1>3, <1>4 DEF NonIdle, NoCall, TypeOK, Submission
  <1>6. \/ call'[c] = NoCall
        \/ NonIdle(c) /\ call'[c].id = call[c].id /\ call'[c].actor = call[c].actor
        \/ began' = began + 1 /\ call'[c].id = began + 1 /\ call'[c].stage = "locking"
    <2>1. CASE \E stage \in {"counting", "inserting"} :
                 call[c].stage # "idle" /\ call'[c] = [call[c] EXCEPT !.stage = stage]
      BY <1>3, <2>1 DEF NonIdle
    <2>2. CASE \E a \in Actors, r \in RequestIds, t \in Texts :
                 call'[c] = [stage |-> "locking", id |-> began + 1, actor |-> a, request |-> r, text |-> t]
      BY <1>2, <2>2 DEF NoCall
    <2> QED
      BY <1>2, <2>1, <2>2
  <1>7. Numbered'
    <2>1. \A j \in Job : j > began' => job'[j].status = "absent"
      BY <1>1 DEF Order, Numbered, Job
    <2>2. ASSUME NEW d \in Calls, NonIdle(d)' PROVE call'[d].id <= began' /\ job'[call'[d].id].status = "absent"
      <3>1. CASE NonIdle(d) /\ call'[d].id = call[d].id
        BY <1>1, <1>4, <3>1 DEF Order, Numbered, Job
      <3>2. CASE d = c /\ began' = began + 1 /\ call'[c].id = began + 1
        BY <1>1, <1>5, <2>2, <3>2 DEF Order, Numbered, Job
      <3> QED
        BY <1>1, <1>6, <2>2, <3>1, <3>2 DEF NonIdle, NoCall
    <2>3. ASSUME NEW d \in Calls, NEW e \in Calls, NonIdle(d)', NonIdle(e)', call'[d].id = call'[e].id
          PROVE  d = e
      <3>1. \A f \in Calls \ {c} : NonIdle(f)' => NonIdle(f) /\ call'[f].id = call[f].id /\ call[f].id <= began
        BY <1>1 DEF NonIdle, Order, Numbered
      <3>2. CASE NonIdle(c) /\ call'[c].id = call[c].id
        BY <2>3, <3>1, <3>2 DEF Order, Numbered
      <3>3. CASE call'[c].id = began + 1
        <4>1. \A f \in Calls \ {c} : NonIdle(f)' => NonIdle(f) /\ call'[f].id = call[f].id
                                                    /\ call[f].id # began + 1
          BY <1>1, <1>4, <3>1 DEF Job
        <4> QED
          BY <2>3, <3>3, <4>1 DEF Order, Numbered
      <3>4. CASE call'[c] = NoCall
        BY <2>3, <3>1, <3>4 DEF NonIdle, NoCall, Order, Numbered
      <3> QED
        BY <1>6, <3>2, <3>3, <3>4
    <2> QED
      BY <2>1, <2>2, <2>3 DEF Numbered
  <1>8. Exclusive'
    <2> SUFFICES ASSUME NEW d \in Calls, NEW e \in Calls, Holds(d)', Holds(e)', call'[d].actor = call'[e].actor
                 PROVE  d = e
      BY DEF Exclusive, Holds
    <2>1. \A f \in Calls \ {c} : Holds(f)' => Holds(f) /\ call'[f].actor = call[f].actor
      BY <1>1 DEF Holds
    <2>2. CASE Holds(c) /\ call'[c].actor = call[c].actor
      BY <2>1, <2>2 DEF Order, Exclusive
    <2>3. CASE ~Holds(c)'
      BY <2>1, <2>3 DEF Order, Exclusive
    <2>4. CASE LockFree(c) /\ call'[c].actor = call[c].actor
      BY <2>1, <2>4 DEF Order, Exclusive, LockFree, Holds
    <2>5. \/ Holds(c) /\ call'[c].actor = call[c].actor
          \/ ~Holds(c)'
          \/ LockFree(c) /\ call'[c].actor = call[c].actor
      <3>1. CASE call'[c] = NoCall \/ call'[c].stage = "locking"
        BY <3>1 DEF Holds, NoCall
      <3>2. CASE \E stage \in {"counting", "inserting"} :
                   /\ call[c].stage = "counting" \/ (call[c].stage = "locking" /\ LockFree(c))
                   /\ call'[c] = [call[c] EXCEPT !.stage = stage]
        BY <1>3, <3>2 DEF Holds
      <3> QED
        BY <1>2, <1>0, <3>1, <3>2
    <2> QED
      BY <2>2, <2>3, <2>4, <2>5
  <1>9. Room'
    <2> SUFFICES ASSUME NEW d \in Calls, call'[d].stage = "inserting"
                 PROVE  Cardinality(Unsettled(call'[d].actor)) < Limit
      BY <1>1 DEF Room, Unsettled, Rows
    <2>1. CASE d # c
      BY <1>1, <2>1 DEF Order, Room
    <2>2. CASE d = c
      <3>0. call[c].stage # "idle" => [call[c] EXCEPT !.stage = "counting"].stage = "counting"
        BY <1>3
      <3>4. call[c].stage = "counting" /\ call'[c] = [call[c] EXCEPT !.stage = "inserting"]
            /\ Cardinality(UnfinishedOf(call[c].actor)) < Limit
        <4>1. call'[c].stage = "inserting"
          BY <2>2
        <4>2. call'[c] # NoCall /\ call'[c].stage # "locking"
          BY <4>1 DEF NoCall
        <4>3. call[c].stage # "locking" \/ call'[c] # [call[c] EXCEPT !.stage = "counting"]
          BY <3>0, <4>1
        <4> QED
          BY <1>2, <1>0, <4>2, <4>3
      <3>1. call'[c].actor = call[c].actor /\ Cardinality(UnfinishedOf(call[c].actor)) < Limit
        BY <1>3, <3>4
      <3>2. Unsettled(call[c].actor) \subseteq UnfinishedOf(call[c].actor) /\ UnfinishedOf(call[c].actor) \subseteq Job
        BY DEF Order, OpenIsUnfinished, Unsettled, UnfinishedOf, Rows
      <3>3. /\ Cardinality(Unsettled(call[c].actor)) <= Cardinality(UnfinishedOf(call[c].actor))
            /\ Cardinality(Unsettled(call[c].actor)) \in Nat /\ Cardinality(UnfinishedOf(call[c].actor)) \in Nat
        BY <3>2, Fewer
      <3> QED
        BY <2>2, <3>1, <3>3, BoundsAssumption
    <2> QED
      BY <2>1, <2>2
  <1>10. AdmissionBounded' /\ OpenIsUnfinished' /\ OneRow'
    BY <1>1 DEF Order, AdmissionBounded, OpenIsUnfinished, OneRow, Rows
  <1>11. Answered'
    <2>1. ASSUME NEW j, Reply(c, j), j # 0 => j \in RowsOf(call[c].actor, call[c].request) /\ SameRequest(c, j)
          PROVE  Answered'
      BY <1>1, <2>1 DEF Reply, RowsOf, SameRequest, Order, Answered, Rows
    <2>2. CASE UNCHANGED answers
      BY <1>1, <2>2 DEF Order, Answered, Rows
    <2>3. CASE Count(c)
      <3>1. ASSUME NEW j \in RowsOf(call[c].actor, call[c].request), Reply(c, IF SameRequest(c, j) THEN j ELSE 0)
            PROVE  Answered'
        BY <2>1, <3>1
      <3> QED
        BY <2>2, <2>3, <3>1 DEF Count
    <2> QED
      BY <2>2, <2>3 DEF Lock, Abandon, Submit
  <1> QED
    BY <1>7, <1>8, <1>9, <1>10, <1>11 DEF Order

\* The insert adds one row, of the actor whose lock the call holds.
LEMMA InsertOrder ==
  ASSUME TypeOK, TypeOK', Order, NEW c \in Calls, Insert(c),
         NEW i, i = call[c].id, NEW a, a = call[c].actor, NEW r, r = call[c].request
  PROVE  Order'
  <1>1. /\ call[c] \in Submission /\ i \in Job /\ a \in Actors /\ NonIdle(c) /\ Holds(c)
        /\ call[c].stage = "inserting"
    BY InProgress DEF Insert, Submission, NonIdle, Holds
  <1>2. job[i].status = "absent" /\ i <= began
    BY <1>1 DEF Order, Numbered
  <1>3. call'[c] = NoCall /\ ~NonIdle(c)' /\ UNCHANGED began /\ \A d \in Calls \ {c} : call'[d] = call[d]
    BY DEF TypeOK, Insert, Reply, NoCall, NonIdle
  <1>4. \A d \in Calls : NonIdle(d)' => d # c /\ NonIdle(d) /\ call'[d] = call[d]
    BY <1>3 DEF NonIdle
  <1>5. \A d \in Calls : Holds(d)' => d # c /\ Holds(d) /\ NonIdle(d) /\ call'[d] = call[d]
    BY <1>3 DEF Holds, NonIdle, NoCall
  <1>6. Exclusive'
    BY <1>5 DEF Order, Exclusive
  <1>7. CASE RowsOf(a, r) # {}
    <2>1. UNCHANGED job /\ Reply(c, 0)
      BY <1>7 DEF Insert
    <2>2. Numbered' /\ Room'
      BY <1>3, <1>4, <2>1 DEF Order, Numbered, Room, Unsettled, Rows, NoCall
    <2>3. AdmissionBounded' /\ OpenIsUnfinished' /\ OneRow'
      BY <2>1 DEF Order, AdmissionBounded, OpenIsUnfinished, OneRow, Rows
    <2>4. Answered'
      BY <2>1 DEF Order, Answered, Reply, Rows
    <2> QED
      BY <1>6, <2>2, <2>3, <2>4 DEF Order
  <1>8. CASE RowsOf(a, r) = {}
    <2>1. job' = [job EXCEPT ![i] = Submitted(c)] /\ Reply(c, i)
      BY <1>8 DEF Insert
    <2>2. /\ job'[i].status = "pending" /\ job'[i].actor = a /\ job'[i].request = r
          /\ job'[i].text = call[c].text /\ ~job'[i].settled
      BY <1>1, <2>1 DEF TypeOK, Submitted, NoJob
    <2>3. \A j \in Job \ {i} : job'[j] = job[j]
      BY <2>1 DEF TypeOK
    <2>4. Rows' = Rows \cup {i} /\ i \notin Rows
      BY <1>1, <1>2, <2>2, <2>3 DEF Rows
    <2>5. Numbered'
      <3>1. \A d \in Calls : NonIdle(d) => call[d].id \in Job
        BY InProgress DEF NonIdle, Submission
      <3>2. \A j \in Job : j > began => j # i /\ job[j].status = "absent"
        <4>1. \A j \in Job : j > began => job[j].status = "absent"
          BY DEF Order, Numbered
        <4>2. i \in Int /\ began \in Int /\ \A j \in Job : j \in Int
          BY <1>1, BoundsAssumption DEF TypeOK, Job
        <4> QED
          BY <1>2, <4>1, <4>2
      <3>3. \A d \in Calls : d # c /\ NonIdle(d) => call[d].id # i
        BY <1>1 DEF Order, Numbered
      <3> QED
        BY <1>3, <1>4, <2>3, <3>1, <3>2, <3>3 DEF Order, Numbered
    <2>6. \A b : b # a => Unsettled(b)' \subseteq Unsettled(b)
      BY <2>2, <2>3, <2>4 DEF Unsettled, Rows
    <2>7. Unsettled(a)' \subseteq Unsettled(a) \cup {i}
      BY <2>3, <2>4 DEF Unsettled, Rows
    <2>8. Room'
      <3> SUFFICES ASSUME NEW d \in Calls, call'[d].stage = "inserting", NEW b, b = call'[d].actor
                   PROVE  Cardinality(Unsettled(b)') < Limit
        BY DEF Room, Unsettled, Rows
      <3>1. d # c /\ Holds(d) /\ call'[d] = call[d] /\ call[d].stage = "inserting"
        BY <1>5 DEF Holds
      <3>2. b # a
        BY <1>1, <3>1 DEF Order, Exclusive
      <3>3. Cardinality(Unsettled(b)) < Limit
        BY <3>1 DEF Order, Room
      <3>4. Unsettled(b)' \subseteq Unsettled(b) /\ Unsettled(b) \subseteq Job
        BY <2>6, <3>2 DEF Unsettled, Rows
      <3>5. /\ Cardinality(Unsettled(b)') <= Cardinality(Unsettled(b))
            /\ Cardinality(Unsettled(b)') \in Nat /\ Cardinality(Unsettled(b)) \in Nat
        BY <3>4, Fewer
      <3> QED
        BY <3>3, <3>5, BoundsAssumption
    <2>9. AdmissionBounded'
      <3> SUFFICES ASSUME NEW b \in Actors PROVE Cardinality(Unsettled(b)') <= Limit
        BY DEF AdmissionBounded, Unsettled, Rows
      <3>1. Unsettled(b) \subseteq Job
        BY DEF Unsettled, Rows
      <3>2. CASE b # a
        <4>1. Cardinality(Unsettled(b)) <= Limit
          BY DEF Order, AdmissionBounded, Unsettled
        <4>2. /\ Cardinality(Unsettled(b)') <= Cardinality(Unsettled(b))
              /\ Cardinality(Unsettled(b)') \in Nat /\ Cardinality(Unsettled(b)) \in Nat
          BY <2>6, <3>1, <3>2, Fewer
        <4> QED
          BY <4>1, <4>2, BoundsAssumption
      <3>3. CASE b = a
        <4>1. Cardinality(Unsettled(a)) < Limit
          BY <1>1 DEF Order, Room
        <4>2. IsFiniteSet(Unsettled(a)) /\ Cardinality(Unsettled(a)) \in Nat
          BY <3>1, <3>3, Finite
        <4>3. Cardinality(Unsettled(a) \cup {i}) <= Cardinality(Unsettled(a)) + 1
          <5>1. Cardinality(Unsettled(a) \cup {i}) = IF i \in Unsettled(a) THEN Cardinality(Unsettled(a))
                                                     ELSE Cardinality(Unsettled(a)) + 1
            BY <4>2, FS_AddElement
          <5> QED
            BY <4>2, <5>1
        <4>4. Unsettled(a) \cup {i} \subseteq Job
          BY <1>1, <3>1, <3>3
        <4>5. /\ Cardinality(Unsettled(a)') <= Cardinality(Unsettled(a) \cup {i})
              /\ Cardinality(Unsettled(a)') \in Nat /\ Cardinality(Unsettled(a) \cup {i}) \in Nat
          BY <2>7, <4>4, Fewer
        <4> QED
          BY <3>3, <4>1, <4>2, <4>3, <4>5, BoundsAssumption
      <3> QED
        BY <3>2, <3>3
    <2>10. OpenIsUnfinished'
      BY <2>2, <2>3, <2>4 DEF Order, OpenIsUnfinished, Unfinished, Rows
    <2>11. OneRow'
      <3>1. \A j \in Rows : ~(job[j].actor = a /\ job[j].request = r)
        BY <1>8 DEF RowsOf
      <3> QED
        BY <2>2, <2>3, <2>4, <3>1 DEF Order, OneRow, Rows
    <2>12. Answered'
      <3>1. \A x \in answers : x[4] # 0 => x[4] # i
        BY <2>4 DEF Order, Answered
      <3> QED
        BY <2>1, <2>2, <2>3, <2>4, <3>1 DEF Order, Answered, Reply, Rows
    <2> QED
      BY <1>6, <2>5, <2>8, <2>9, <2>10, <2>11, <2>12 DEF Order
  <1> QED
    BY <1>7, <1>8

-----------------------------------------------------------------------------
(***************************************************************************)
(* Workers.                                                                *)
(***************************************************************************)
\* A lease number is given to one claim.
Leased ==
  /\ \A j \in Job : job[j].lease <= leases
  /\ \A w \in Workers : Working(w) => worker[w].lease <= leases
  /\ \A v, w \in Workers : Working(v) /\ Working(w) /\ worker[v].lease = worker[w].lease => v = w

\* A worker that still owns a completed job has completed it itself.
Fenced ==
  \A w \in Workers : Working(w) /\ Owns(w) /\ job[worker[w].job].status = "completed" =>
    worker[w].step = "unanswered"

\* What was ingested, and what is completed, is stored.
Documented ==
  /\ CompletedHasDocument
  /\ \A w \in Workers : worker[w].step = "ingested" => job[worker[w].job].text \in stored

Fencing == WorkersHaveRows /\ Leased /\ Fenced /\ Documented

\* The lease of a row that nobody claims stays, and so does a completion that
\* is not reported now.
SameLease(j) ==
  /\ job'[j].lease = job[j].lease
  /\ job'[j].status = "completed" => job[j].status = "completed"

\* Steps that leave the workers and the documents alone.
LEMMA KeptFencing ==
  ASSUME TypeOK, Fencing, \A j \in Rows : SameJob(j) /\ SameLease(j),
         \A j \in Job \ Rows : job'[j].lease <= leases /\ job'[j].status # "completed",
         UNCHANGED <<worker, stored, leases>>
  PROVE  Fencing'
  <1>1. Rows \subseteq Rows' /\ Rows \subseteq Job
    BY DEF Rows, SameJob
  <1>2. \A w \in Workers : Working(w) => worker[w].job \in Rows
    BY DEF Fencing, WorkersHaveRows
  <1>3. WorkersHaveRows'
    BY <1>1, <1>2 DEF WorkersHaveRows, Working
  <1>4. Leased'
    BY DEF Fencing, Leased, Working, SameLease
  <1>5. Fenced'
    BY <1>2 DEF Fencing, Fenced, Working, Owns, SameLease
  <1>6. Documented'
    <2>1. \A j \in Rows' : job'[j].status = "completed" => job'[j].text \in stored
      BY DEF Fencing, Documented, CompletedHasDocument, Rows, SameLease, SameJob
    <2>2. \A w \in Workers : worker[w].step = "ingested" => job'[worker[w].job].text \in stored
      BY <1>2 DEF Fencing, Documented, SameJob, Working
    <2> QED
      BY <2>1, <2>2 DEF Documented, CompletedHasDocument
  <1> QED
    BY <1>3, <1>4, <1>5, <1>6 DEF Fencing

\* Steps of one worker that leave the rows alone.
LEMMA StepFencing ==
  ASSUME TypeOK, Fencing, UNCHANGED <<job, leases>>, stored \subseteq stored', NEW w \in Workers, Working(w),
         \A v \in Workers \ {w} : worker'[v] = worker[v],
         \/ worker'[w] = NoWork
         \/ /\ worker'[w].job = worker[w].job /\ worker'[w].lease = worker[w].lease
            /\ worker[w].step # "unanswered"
            /\ worker'[w].step = "ingested" => job[worker[w].job].text \in stored'
  PROVE  Fencing'
  <1>1. \A v \in Workers : Working(v)' => /\ Working(v) /\ worker'[v].job = worker[v].job
                                          /\ worker'[v].lease = worker[v].lease
                                          /\ worker[v].step = "unanswered" => worker'[v].step = "unanswered"
    BY DEF Working, NoWork
  <1>2. WorkersHaveRows' /\ Leased' /\ Fenced'
    BY <1>1 DEF Fencing, WorkersHaveRows, Leased, Fenced, Rows, Owns
  <1>3. CompletedHasDocument'
    BY DEF Fencing, Documented, CompletedHasDocument, Rows
  <1>4. ASSUME NEW v \in Workers, worker'[v].step = "ingested" PROVE job'[worker'[v].job].text \in stored'
    BY <1>4 DEF Fencing, Documented, NoWork
  <1> QED
    BY <1>2, <1>3, <1>4 DEF Fencing, Documented

LEMMA WorkerFencing ==
  ASSUME TypeOK, Fencing, NEW w \in Workers, WorkerStep(w)
  PROVE  Fencing'
  <1>1. ASSUME Claim(w) PROVE Fencing'
    <2>1. PICK i \in Claimable :
            /\ job' = [job EXCEPT ![i].status = "processing", ![i].attempts = @ + 1,
                                  ![i].lease = leases + 1, ![i].live = TRUE]
            /\ worker' = [worker EXCEPT ![w] = [step |-> "claimed", job |-> i, lease |-> leases + 1,
                                                attempts |-> job[i].attempts + 1]]
      BY <1>1 DEF Claim
    <2>2. i \in Rows /\ i \in Job /\ job[i] \in StoredRow
      BY InProgress DEF Claimable, Rows
    <2>3. /\ job'[i].status = "processing" /\ job'[i].lease = leases + 1 /\ job'[i].text = job[i].text
          /\ \A j \in Job \ {i} : job'[j] = job[j]
      BY <2>1, <2>2 DEF TypeOK, StoredRow
    <2>4. /\ worker'[w] = [step |-> "claimed", job |-> i, lease |-> leases + 1, attempts |-> job[i].attempts + 1]
          /\ \A v \in Workers \ {w} : worker'[v] = worker[v]
      BY <2>1 DEF TypeOK
    <2>5. leases' = leases + 1 /\ leases \in Nat /\ UNCHANGED stored
      BY <1>1 DEF Claim, TypeOK
    <2>6. Rows' = Rows
      BY <2>2, <2>3 DEF Rows
    <2>7. WorkersHaveRows'
      BY <2>2, <2>4, <2>6 DEF Fencing, WorkersHaveRows, Working
    <2>8. \A j \in Job : job[j].lease \in Nat
      BY DEF TypeOK, StoredRow, NoJob
    <2>9. \A v \in Workers : Working(v) => worker[v].lease \in Nat
      BY InProgress DEF Work
    <2>10. \A v \in Workers : Working(v)' => worker'[v].lease <= leases \/ (v = w /\ worker'[v].lease = leases + 1)
      BY <2>4 DEF Fencing, Leased, Working
    <2>11. Leased'
      <3>1. \A j \in Job : job'[j].lease <= leases'
        BY <2>3, <2>5, <2>8 DEF Fencing, Leased
      <3>2. \A v \in Workers : Working(v)' => worker'[v].lease <= leases'
        <4>1. \A v \in Workers \ {w} : Working(v)' => worker[v].lease \in Nat /\ worker[v].lease <= leases
          BY <2>4, <2>9 DEF Fencing, Leased, Working
        <4> QED
          BY <2>4, <2>5, <4>1
      <3>3. ASSUME NEW v \in Workers, NEW u \in Workers, Working(v)', Working(u)', worker'[v].lease = worker'[u].lease
            PROVE  v = u
        <4>1. \A x \in Workers \ {w} : Working(x)' => Working(x) /\ worker'[x].lease = worker[x].lease
                                                     /\ worker[x].lease # leases + 1
          BY <2>4, <2>5, <2>9 DEF Fencing, Leased, Working
        <4> QED
          BY <2>4, <3>3, <4>1 DEF Fencing, Leased
      <3> QED
        BY <3>1, <3>2, <3>3 DEF Leased
    <2>12. Fenced'
      <3>1. ASSUME NEW v \in Workers, Working(v)', Owns(v)', job'[worker'[v].job].status = "completed"
            PROVE  worker'[v].step = "unanswered"
        <4>1. v # w /\ worker'[v].job # i
          BY <2>3, <2>4, <3>1
        <4>2. Working(v) /\ worker'[v] = worker[v] /\ worker[v].job \in Job \ {i}
          BY <2>4, <3>1, <4>1 DEF Fencing, WorkersHaveRows, Working, Rows
        <4> QED
          BY <2>3, <3>1, <4>2 DEF Fencing, Fenced, Owns
      <3> QED
        BY <3>1 DEF Fenced
    <2>13. Documented'
      BY <2>2, <2>3, <2>4, <2>5, <2>6 DEF Fencing, Documented, CompletedHasDocument, WorkersHaveRows, Working, Rows
    <2> QED
      BY <2>7, <2>11, <2>12, <2>13 DEF Fencing
  <1>2. ASSUME NEW step, Working(w), Step(w, step)
        PROVE  /\ worker'[w].job = worker[w].job /\ worker'[w].lease = worker[w].lease /\ worker'[w].step = step
               /\ \A v \in Workers \ {w} : worker'[v] = worker[v]
    <2>1. worker[w] \in Work
      BY <1>2, InProgress
    <2> QED
      BY <1>2, <2>1 DEF TypeOK, Step, Work
  <1>3. ASSUME CheckMembership(w) PROVE Fencing'
    <2>1. Working(w)
      BY <1>3 DEF CheckMembership, Working
    <2> QED
      BY <1>2, <1>3, <2>1, StepFencing DEF CheckMembership
  <1>4. ASSUME Ingest(w) \/ IngestFails(w) PROVE Fencing'
    <2>1. Working(w) /\ worker[w].step # "unanswered"
      BY <1>4 DEF Ingest, IngestFails, Working
    <2>2. /\ UNCHANGED <<job, leases>> /\ stored \subseteq stored'
          /\ \E step \in {"ingested", "failing", "refused"} :
               Step(w, step) /\ (step = "ingested" => job[worker[w].job].text \in stored')
      BY <1>4 DEF Ingest, IngestFails
    <2> QED
      BY <1>2, <2>1, <2>2, StepFencing
  <1>5. ASSUME NEW status \in {"pending", "completed", "failed"}, NEW step \in {"idle", "unanswered"},
               Working(w), Acknowledge(w, status, step), UNCHANGED <<stored, leases>>,
               status = "completed" => worker[w].step = "ingested",
               step = "unanswered" => worker[w].step # "unanswered"
        PROVE  Fencing'
    <2> DEFINE i == worker[w].job
    <2>1. \/ worker'[w] = NoWork
          \/ worker'[w].job = worker[w].job /\ worker'[w].lease = worker[w].lease /\ worker'[w].step = "unanswered"
      BY <1>2, <1>5 DEF TypeOK, Acknowledge
    <2>2. \A v \in Workers \ {w} : worker'[v] = worker[v]
      BY <1>2, <1>5 DEF TypeOK, Acknowledge
    <2>3. CASE ~Owns(w)
      <3>1. UNCHANGED job
        BY <1>5, <2>3 DEF Acknowledge
      <3>2. worker[w].step # "unanswered" \/ worker'[w] = NoWork
        BY <1>5 DEF TypeOK, Acknowledge
      <3> QED
        BY <1>5, <2>1, <2>2, <3>1, <3>2, StepFencing
    <2>4. CASE Owns(w)
      <3>1. i \in Rows /\ i \in Job /\ job[i] \in StoredRow
        BY <1>5, InProgress DEF Fencing, WorkersHaveRows, Rows
      <3>2. /\ job'[i].status = status /\ job'[i].lease = job[i].lease /\ job'[i].text = job[i].text
            /\ \A j \in Job \ {i} : job'[j] = job[j]
        BY <1>5, <2>4, <3>1 DEF TypeOK, Acknowledge, StoredRow
      <3>3. Rows' = Rows
        BY <3>1, <3>2 DEF Rows
      <3>4. \A v \in Workers : Working(v)' => /\ Working(v) /\ worker'[v].job = worker[v].job
                                              /\ worker'[v].lease = worker[v].lease
        BY <1>5, <2>1, <2>2 DEF Working, NoWork
      <3>5. WorkersHaveRows' /\ Leased'
        BY <1>5, <3>1, <3>2, <3>3, <3>4 DEF Fencing, WorkersHaveRows, Leased
      <3>6. Fenced'
        <4>1. ASSUME NEW v \in Workers, Working(v)', Owns(v)', job'[worker'[v].job].status = "completed", v # w
              PROVE  worker'[v].step = "unanswered"
          <5>1. Working(v) /\ worker'[v] = worker[v] /\ worker[v].job \in Job
            BY <2>2, <3>4, <4>1 DEF Fencing, WorkersHaveRows, Rows
          <5>2. Owns(v)
            BY <3>2, <4>1, <5>1 DEF Owns
          <5>3. worker[v].job # i
            BY <1>5, <2>4, <4>1, <5>1, <5>2 DEF Owns, Fencing, Leased
          <5> QED
            BY <3>2, <4>1, <5>1, <5>2, <5>3 DEF Fencing, Fenced
        <4> QED
          BY <2>1, <4>1 DEF Fenced, Working, NoWork
      <3>7. Documented'
        <4>1. status = "completed" => job[i].text \in stored
          BY <1>5 DEF Fencing, Documented
        <4>2. CompletedHasDocument'
          BY <1>5, <3>1, <3>2, <3>3, <4>1 DEF Fencing, Documented, CompletedHasDocument, Rows
        <4>3. ASSUME NEW v \in Workers, worker'[v].step = "ingested"
              PROVE  job'[worker'[v].job].text \in stored'
          <5>1. v # w /\ worker'[v] = worker[v]
            BY <2>1, <2>2, <4>3 DEF NoWork
          <5>2. worker[v].job \in Job
            BY <4>3, <5>1 DEF Fencing, WorkersHaveRows, Working, Rows
          <5> QED
            BY <1>5, <3>2, <4>3, <5>1, <5>2 DEF Fencing, Documented
        <4> QED
          BY <4>2, <4>3 DEF Documented
      <3> QED
        BY <3>5, <3>6, <3>7 DEF Fencing
    <2> QED
      BY <2>3, <2>4
  <1>6. ASSUME Complete(w) PROVE Fencing'
    BY <1>5, <1>6 DEF Complete, Working
  <1>7. ASSUME Fail(w) PROVE Fencing'
    <2>1. FailedStatus(w) \in {"pending", "failed"}
      BY DEF FailedStatus
    <2> QED
      BY <1>5, <1>7, <2>1 DEF Fail, Working
  <1>8. ASSUME Sweep(w) PROVE Fencing'
    <2>1. \A j \in Job : SameJob(j)
      BY <1>8, KeepsJobs DEF WorkerStep, Fencing
    <2>2. ASSUME NEW j \in Job PROVE job'[j].lease = job[j].lease /\ job'[j].status \in {job[j].status, "failed"}
      <3>1. job[j] \in StoredRow \cup {NoJob}
        BY DEF TypeOK
      <3> QED
        BY <1>8, <3>1 DEF Sweep, StoredRow, NoJob
    <2>3. \A j \in Job : SameLease(j) /\ job'[j].lease <= leases
      BY <2>2 DEF SameLease, Fencing, Leased
    <2>4. \A j \in Job \ Rows : job'[j].status # "completed"
      BY <2>2 DEF Rows
    <2> QED
      BY <1>8, <2>1, <2>3, <2>4, KeptFencing DEF Sweep, Rows
  <1> QED
    BY <1>1, <1>3, <1>4, <1>6, <1>7, <1>8 DEF WorkerStep

LEMMA OtherFencing ==
  ASSUME TypeOK, Order, Fencing,
         \/ \E c \in Calls : CallStep(c) \/ Abandon(c)
         \/ \E c \in Calls, a \in Actors, r \in RequestIds, t \in Texts : Submit(c, a, r, t)
         \/ \E w \in Workers : Crash(w)
         \/ \E j \in Job : Retry(j) \/ Cancel(j) \/ Wait(j) \/ Lapse(j)
         \/ \E a \in Actors : Revoke(a)
  PROVE  Fencing'
  <1>1. ASSUME UNCHANGED <<job, worker, stored, leases>> PROVE Fencing'
    <2>1. \A j \in Job \ Rows : job[j].lease <= leases /\ job[j].status # "completed"
      BY DEF Fencing, Leased, Rows
    <2> QED
      BY <1>1, <2>1, KeptFencing, UnchangedSame DEF SameLease, Rows
  <1>2. ASSUME NEW c \in Calls, Lock(c) \/ Count(c) \/ Abandon(c) PROVE Fencing'
    BY <1>1, <1>2 DEF Lock, Count, Abandon
  <1>3. ASSUME NEW c \in Calls, NEW a \in Actors, NEW r \in RequestIds, NEW t \in Texts, Submit(c, a, r, t)
        PROVE  Fencing'
    BY <1>1, <1>3 DEF Submit
  <1>4. ASSUME NEW c \in Calls, Insert(c) PROVE Fencing'
    <2> DEFINE i == call[c].id
    <2>1. i \in Job /\ i \notin Rows
      BY <1>4, InProgress DEF Insert, Submission, Order, Numbered, NonIdle, Rows
    <2>2. CASE UNCHANGED job
      BY <1>1, <1>4, <2>2 DEF Insert
    <2>3. CASE job' = [job EXCEPT ![i] = Submitted(c)]
      <3>1. job'[i].lease = 0 /\ job'[i].status = "pending" /\ \A j \in Job \ {i} : job'[j] = job[j]
        BY <2>1, <2>3 DEF TypeOK, Submitted, NoJob
      <3>2. \A j \in Rows : SameJob(j) /\ SameLease(j)
        BY <2>1, <3>1 DEF SameJob, SameLease, Rows
      <3>3. \A j \in Job \ Rows : job'[j].lease <= leases /\ job'[j].status # "completed"
        BY <3>1 DEF TypeOK, Fencing, Leased, Rows
      <3> QED
        BY <1>4, <3>2, <3>3, KeptFencing DEF Insert
    <2> QED
      BY <1>4, <2>2, <2>3 DEF Insert
  <1>5. ASSUME NEW w \in Workers, Crash(w) PROVE Fencing'
    BY <1>5, StepFencing DEF TypeOK, Crash
  <1>6. ASSUME NEW i \in Job, Retry(i) \/ Cancel(i) \/ Wait(i) \/ Lapse(i) PROVE Fencing'
    <2>1. \A j \in Job : SameJob(j)
      BY <1>6, KeepsJobs DEF Fencing
    <2>2. job[i] \in StoredRow
      BY <1>6, InProgress DEF Retry, Cancel, OwnerAction, Wait, Lapse, Rows
    <2>5. \A j \in Job \ {i} : job'[j] = job[j]
      BY <1>6 DEF TypeOK, Retry, Cancel, OwnerAction, Wait, Lapse
    <2>6. job'[i].lease = job[i].lease /\ job'[i].status \in {job[i].status, "pending", "cancelled"}
      <3>1. CASE Retry(i) \/ Cancel(i)
        <4>1. PICK status \in {"pending", "cancelled"} : OwnerAction(i, status)
          BY <3>1 DEF Retry, Cancel
        <4>2. job'[i].lease = job[i].lease /\ job'[i].status = status
          BY <2>2, <4>1 DEF TypeOK, OwnerAction, StoredRow
        <4> QED
          BY <4>2
      <3>2. CASE Wait(i) \/ Lapse(i)
        BY <2>2, <3>2 DEF TypeOK, Wait, Lapse, StoredRow
      <3> QED
        BY <1>6, <3>1, <3>2
    <2>3. \A j \in Job : SameLease(j)
      BY <2>5, <2>6 DEF SameLease
    <2>4. \A j \in Job \ Rows : job'[j].lease <= leases /\ job'[j].status # "completed"
      BY <2>3 DEF SameLease, Fencing, Leased, Rows
    <2> QED
      BY <1>6, <2>1, <2>3, <2>4, KeptFencing DEF Retry, Cancel, OwnerAction, Wait, Lapse, Rows
  <1>7. ASSUME NEW a \in Actors, Revoke(a) PROVE Fencing'
    BY <1>1, <1>7 DEF Revoke
  <1> QED
    BY <1>2, <1>3, <1>4, <1>5, <1>6, <1>7 DEF CallStep

-----------------------------------------------------------------------------
IInv == TypeOK /\ Order /\ Fencing

LEMMA InitOrdered == Init => IInv
  <1> SUFFICES ASSUME Init PROVE IInv
    OBVIOUS
  <1>1. Rows = {} /\ answers = {} /\ \A c \in Calls : call[c].stage = "idle"
    BY DEF Init, Rows, NoJob, NoCall
  <1>2. Order
    <2>1. \A a : Unsettled(a) = {}
      BY <1>1 DEF Unsettled
    <2>2. AdmissionBounded
      <3> SUFFICES ASSUME NEW a \in Actors
                   PROVE  Cardinality({j \in Rows : job[j].actor = a /\ ~job[j].settled}) <= Limit
        BY DEF AdmissionBounded
      <3>1. {j \in Rows : job[j].actor = a /\ ~job[j].settled} = {}
        BY <1>1
      <3>2. Cardinality({j \in Rows : job[j].actor = a /\ ~job[j].settled}) = 0
        BY <3>1, FS_EmptySet
      <3> QED
        BY <3>2, BoundsAssumption
    <2>3. Numbered
      BY <1>1 DEF Init, Numbered, NonIdle, NoJob
    <2> QED
      BY <1>1, <2>2, <2>3 DEF Order, Exclusive, Room, OpenIsUnfinished, OneRow, Answered, Holds
  <1>3. Fencing
    BY <1>1 DEF Init, Fencing, WorkersHaveRows, Leased, Fenced, Documented, CompletedHasDocument, Working,
       NoWork, NoJob
  <1> QED
    BY <1>2, <1>3, InitTyped DEF IInv

LEMMA StepOrdered == IInv /\ [Next]_vars => IInv'
  <1> SUFFICES ASSUME IInv, [Next]_vars PROVE IInv'
    OBVIOUS
  <1>1. TypeOK'
    <2>1. CASE UNCHANGED vars
      BY <2>1 DEF IInv, TypeOK, vars
    <2> QED
      BY <2>1, CallTyped, WorkerTyped, OtherTyped DEF IInv, Fencing, Next
  <1>2. Order'
    <2>1. ASSUME NEW c \in Calls, CallStep(c) \/ Abandon(c) PROVE Order'
      BY <1>1, <2>1, CallOrder, InsertOrder DEF IInv, CallStep
    <2>2. ASSUME NEW c \in Calls, NEW a \in Actors, NEW r \in RequestIds, NEW t \in Texts, Submit(c, a, r, t)
          PROVE  Order'
      BY <1>1, <2>2, CallOrder DEF IInv
    <2>3. ASSUME \/ \E w \in Workers : WorkerStep(w) \/ Crash(w)
                 \/ \E j \in Job : Retry(j) \/ Cancel(j) \/ Wait(j) \/ Lapse(j)
                 \/ \E a \in Actors : Revoke(a)
          PROVE  Order'
      <3>1. \A j \in Job : SameJob(j)
        BY <2>3, KeepsJobs DEF IInv, Fencing
      <3>2. UNCHANGED <<call, began, answers>>
        BY <2>3 DEF WorkerStep, Claim, CheckMembership, Ingest, IngestFails, Complete, Fail, Sweep, Crash,
           Retry, Cancel, OwnerAction, Wait, Lapse, Revoke
      <3> QED
        BY <3>1, <3>2, KeptOrder DEF IInv
    <2>4. CASE UNCHANGED vars
      BY <2>4, KeptOrder, UnchangedSame DEF IInv, vars
    <2> QED
      BY <2>1, <2>2, <2>3, <2>4 DEF Next
  <1>3. Fencing'
    <2>1. CASE UNCHANGED vars
      <3>1. \A j \in Job \ Rows : job[j].lease <= leases /\ job[j].status # "completed"
        BY DEF IInv, Fencing, Leased, Rows
      <3> QED
        BY <2>1, <3>1, KeptFencing, UnchangedSame DEF IInv, vars, SameLease, Rows
    <2> QED
      BY <2>1, WorkerFencing, OtherFencing DEF IInv, Next
  <1> QED
    BY <1>1, <1>2, <1>3 DEF IInv

LEMMA Ordered == Spec => []IInv
  BY InitOrdered, StepOrdered, PTL DEF Spec

\* Every variable keeps its type and every counter its bound, under every
\* interleaving of submissions, workers and owners.
THEOREM TypeCorrect == Spec => []TypeOK
  BY Ordered, PTL DEF IInv

\* However many submissions of an actor race, no more than the limit are
\* admitted at once.
THEOREM AdmissionBoundedHolds == Spec => []AdmissionBounded
  BY Ordered, PTL DEF IInv, Order

\* A retried submission gets its own job again, and two texts never share a
\* request id.
THEOREM SubmissionsAgreeHolds == Spec => []SubmissionsAgree
  <1>1. IInv => SubmissionsAgree
    BY DEF IInv, Order, Answered, OneRow, SubmissionsAgree
  <1> QED
    BY <1>1, Ordered, PTL

\* A job reported as completed has its document, whatever crashed, lapsed or
\* was processed twice.
THEOREM CompletedHasDocumentHolds == Spec => []CompletedHasDocument
  <1>1. IInv => CompletedHasDocument
    BY DEF IInv, Fencing, Documented
  <1> QED
    BY <1>1, Ordered, PTL

\* A completed job is reopened only by the worker that completed it, after it
\* lost the answer to its own update.
THEOREM TakeoverFencedHolds == Spec => TakeoverFenced
  <1> DEFINE Kept == \A j \in Job : job[j].status = "completed" /\ job'[j].status # "completed" =>
                       \E w \in Workers : worker[w].step = "unanswered" /\ worker[w].job = j
                                          /\ worker[w].lease = job[j].lease
  <1>1. IInv /\ [Next]_vars => Kept
    <2> SUFFICES ASSUME IInv, [Next]_vars, NEW j \in Job, job[j].status = "completed",
                        job'[j].status # "completed"
                 PROVE  \E w \in Workers : worker[w].step = "unanswered" /\ worker[w].job = j
                                           /\ worker[w].lease = job[j].lease
      OBVIOUS
    <2>1. j \in Rows /\ job[j] \in StoredRow
      BY InProgress DEF IInv, Rows
    <2>2. ASSUME NEW w \in Workers, Working(w), NEW status, NEW step, Acknowledge(w, status, step)
          PROVE  worker[w].step = "unanswered" /\ worker[w].job = j /\ worker[w].lease = job[j].lease
      <3>1. Owns(w) /\ worker[w].job = j
        BY <2>2 DEF IInv, TypeOK, Acknowledge
      <3> QED
        BY <2>2, <3>1 DEF IInv, Fencing, Fenced, Owns
    <2>3. ASSUME NEW w \in Workers, WorkerStep(w)
          PROVE  \E v \in Workers : worker[v].step = "unanswered" /\ worker[v].job = j
                                    /\ worker[v].lease = job[j].lease
      <3>1. CASE Complete(w) \/ Fail(w)
        BY <2>2, <3>1 DEF Complete, Fail, Working
      <3>2. CASE Claim(w)
        <4>1. PICK i \in Claimable :
                job' = [job EXCEPT ![i].status = "processing", ![i].attempts = @ + 1,
                                   ![i].lease = leases + 1, ![i].live = TRUE]
          BY <3>2 DEF Claim
        <4>2. i # j
          BY DEF Claimable
        <4> QED
          BY <4>1, <4>2 DEF IInv, TypeOK
      <3>3. CASE Sweep(w)
        BY <3>3 DEF Sweep, Abandoned
      <3> QED
        BY <2>3, <3>1, <3>2, <3>3 DEF WorkerStep, CheckMembership, Ingest, IngestFails
    <2>4. ASSUME NEW i \in Job, Retry(i) \/ Cancel(i) \/ Wait(i) \/ Lapse(i) PROVE FALSE
      BY <2>4 DEF IInv, TypeOK, Retry, Cancel, OwnerAction, Wait, Lapse
    <2>5. ASSUME NEW c \in Calls, CallStep(c) \/ Abandon(c) PROVE FALSE
      <3>1. CASE Insert(c)
        <4>1. call[c].id # j
          BY <2>1, <3>1 DEF IInv, Order, Numbered, NonIdle, Insert, Rows
        <4> QED
          BY <3>1, <4>1 DEF IInv, TypeOK, Insert
      <3> QED
        BY <2>5, <3>1 DEF CallStep, Lock, Count, Abandon
    <2> QED
      BY <2>3, <2>4, <2>5 DEF Next, vars, Submit, Crash, Revoke
  <1> QED
    BY <1>1, Ordered, PTL DEF Spec, TakeoverFenced

-----------------------------------------------------------------------------
(***************************************************************************)
(* The refinement of JobLifecycle.  What a worker that still has the lease *)
(* of its job may write depends on the status it finds: on a job that is   *)
(* being processed it counts the same attempts as the row, and if the job  *)
(* was given up, retried or cancelled meanwhile, it has no attempt left.   *)
(***************************************************************************)
StatusOf == [j \in Job |-> job[j].status]
LateJobs == {worker[w].job : w \in {v \in Workers : ComesLate(v)}}

LeaseFits(w) ==
  LET row == job[worker[w].job] IN
  /\ row.status = "processing" => worker[w].attempts = row.attempts
  /\ row.status = "completed" <=> worker[w].step = "unanswered"
  /\ row.status \notin {"processing", "completed"} => worker[w].attempts >= MaxAttempts

LeasesFit == \A w \in Workers : Working(w) /\ Owns(w) => LeaseFits(w)

LInv == IInv /\ LeasesFit

\* Only one worker has the lease of a job.
LEMMA OneOwner ==
  ASSUME IInv, NEW v \in Workers, NEW w \in Workers, Working(v), Working(w), Owns(v), Owns(w),
         worker[v].job = worker[w].job
  PROVE  v = w
  BY DEF IInv, Fencing, Leased, Owns

\* What the claim, the acknowledgement, the sweep and the owner do to the rows.
LEMMA ClaimEffect ==
  ASSUME IInv, NEW w \in Workers, Claim(w)
  PROVE  \E i \in Job :
           /\ job[i].status \in {"pending", "processing"} /\ i \in Rows
           /\ job'[i].status = "processing" /\ job'[i].lease = leases + 1
           /\ job'[i].attempts = job[i].attempts + 1
           /\ \A j \in Job \ {i} : job'[j] = job[j]
           /\ worker'[w] = [step |-> "claimed", job |-> i, lease |-> leases + 1,
                            attempts |-> job[i].attempts + 1]
           /\ \A v \in Workers \ {w} : worker'[v] = worker[v]
           /\ \A v \in Workers : Working(v) => worker[v].lease # leases + 1
  <1>1. PICK i \in Claimable :
          /\ job' = [job EXCEPT ![i].status = "processing", ![i].attempts = @ + 1,
                                ![i].lease = leases + 1, ![i].live = TRUE]
          /\ worker' = [worker EXCEPT ![w] = [step |-> "claimed", job |-> i, lease |-> leases + 1,
                                              attempts |-> job[i].attempts + 1]]
    BY DEF Claim
  <1>2. i \in Job /\ i \in Rows /\ job[i] \in StoredRow /\ job[i].status \in {"pending", "processing"}
    BY InProgress DEF IInv, Claimable, Rows
  <1>3. \A v \in Workers : Working(v) => worker[v].lease # leases + 1
    BY InProgress DEF IInv, TypeOK, Fencing, Leased, Work
  <1>4. /\ job'[i].status = "processing" /\ job'[i].lease = leases + 1
        /\ job'[i].attempts = job[i].attempts + 1
        /\ \A j \in Job \ {i} : job'[j] = job[j]
    BY <1>1, <1>2 DEF IInv, TypeOK, StoredRow
  <1> QED
    BY <1>1, <1>2, <1>3, <1>4 DEF IInv, TypeOK

LEMMA AcknowledgeEffect ==
  ASSUME IInv, NEW w \in Workers, Working(w), NEW status \in {"pending", "completed", "failed"},
         NEW step \in {"idle", "unanswered"}, Acknowledge(w, status, step)
  PROVE  /\ worker[w].job \in Rows /\ worker[w].job \in Job
         /\ \A v \in Workers \ {w} : worker'[v] = worker[v]
         /\ \/ step = "idle" /\ worker'[w] = NoWork
            \/ /\ step = "unanswered" /\ worker'[w].step = step /\ worker'[w].job = worker[w].job
               /\ worker'[w].lease = worker[w].lease /\ worker'[w].attempts = worker[w].attempts
         /\ Owns(w) => /\ job'[worker[w].job].status = status
                       /\ job'[worker[w].job].lease = job[worker[w].job].lease
                       /\ \A j \in Job \ {worker[w].job} : job'[j] = job[j]
         /\ ~Owns(w) => job' = job
  <1>1. worker[w].job \in Rows /\ worker[w].job \in Job /\ worker[w] \in Work /\ job[worker[w].job] \in StoredRow
    BY InProgress DEF IInv, Fencing, WorkersHaveRows, Rows
  <1>2. /\ \A v \in Workers \ {w} : worker'[v] = worker[v]
        /\ \/ step = "idle" /\ worker'[w] = NoWork
           \/ /\ step = "unanswered" /\ worker'[w].step = step /\ worker'[w].job = worker[w].job
              /\ worker'[w].lease = worker[w].lease /\ worker'[w].attempts = worker[w].attempts
    BY <1>1 DEF Acknowledge, Step, IInv, TypeOK, Work
  <1>3. Owns(w) => /\ job'[worker[w].job].status = status
                   /\ job'[worker[w].job].lease = job[worker[w].job].lease
                   /\ \A j \in Job \ {worker[w].job} : job'[j] = job[j]
    BY <1>1 DEF Acknowledge, IInv, TypeOK, StoredRow
  <1> QED
    BY <1>1, <1>2, <1>3 DEF Acknowledge

LEMMA SweepEffect ==
  ASSUME IInv, NEW w \in Workers, Sweep(w), NEW j \in Job
  PROVE  /\ Abandoned(j) => /\ job[j].status = "processing" /\ job[j].attempts >= MaxAttempts
                            /\ job'[j].status = "failed" /\ job'[j].lease = job[j].lease
         /\ ~Abandoned(j) => job'[j] = job[j]
  <1>1. job[j] \in StoredRow \cup {NoJob}
    BY DEF IInv, TypeOK
  <1> QED
    BY <1>1 DEF Sweep, Abandoned, StoredRow, NoJob

LEMMA OwnerEffect ==
  ASSUME IInv, NEW i \in Job, NEW status \in {"pending", "cancelled"}, OwnerAction(i, status)
  PROVE  /\ job[i].status \in {"pending", "failed"}
         /\ job'[i].status = status /\ job'[i].lease = job[i].lease
         /\ \A j \in Job \ {i} : job'[j] = job[j]
         /\ worker' = worker
  <1>1. job[i] \in StoredRow
    BY InProgress DEF IInv, OwnerAction, Rows
  <1> QED
    BY <1>1 DEF OwnerAction, IInv, TypeOK, StoredRow

LEMMA TimeEffect ==
  ASSUME IInv, NEW i \in Job, Wait(i) \/ Lapse(i)
  PROVE  /\ worker' = worker
         /\ \A j \in Job : /\ job'[j].status = job[j].status /\ job'[j].lease = job[j].lease
                           /\ job'[j].attempts = job[j].attempts
  <1>1. job[i] \in StoredRow
    BY InProgress DEF IInv, Wait, Lapse, Rows
  <1> QED
    BY <1>1 DEF Wait, Lapse, IInv, TypeOK, StoredRow

LEMMA InsertEffect ==
  ASSUME IInv, NEW c \in Calls, Insert(c), job' # job
  PROVE  \E i \in Job : /\ job[i].status = "absent" /\ i \notin Rows
                        /\ job'[i].status = "pending"
                        /\ \A j \in Job \ {i} : job'[j] = job[j]
  <1> DEFINE i == call[c].id
  <1>1. i \in Job /\ job[i].status = "absent"
    BY InProgress DEF IInv, Insert, Submission, Order, Numbered, NonIdle
  <1>2. job' = [job EXCEPT ![i] = Submitted(c)]
    BY DEF Insert
  <1>3. job'[i].status = "pending" /\ \A j \in Job \ {i} : job'[j] = job[j]
    BY <1>1, <1>2 DEF IInv, TypeOK, Submitted, NoJob
  <1> QED
    BY <1>1, <1>3 DEF Rows

\* Steps of a worker's record between the claim and the acknowledgement.
LEMMA ProgressEffect ==
  ASSUME IInv, NEW w \in Workers, CheckMembership(w) \/ Ingest(w) \/ IngestFails(w)
  PROVE  /\ job' = job /\ Working(w) /\ worker[w].step # "unanswered"
         /\ worker'[w].step \notin {"idle", "unanswered"} /\ worker'[w].job = worker[w].job
         /\ worker'[w].lease = worker[w].lease /\ worker'[w].attempts = worker[w].attempts
         /\ \A v \in Workers \ {w} : worker'[v] = worker[v]
  <1>1. Working(w) /\ worker[w].step # "unanswered" /\ job' = job
    BY DEF CheckMembership, Ingest, IngestFails, Working
  <1>2. worker[w] \in Work
    BY <1>1, InProgress DEF IInv
  <1>3. PICK step \in {"ingesting", "ingested", "failing", "refused"} : Step(w, step)
    BY DEF CheckMembership, Ingest, IngestFails
  <1> QED
    BY <1>1, <1>2, <1>3 DEF Step, IInv, TypeOK, Work

LEMMA LeasesFitStep == IInv /\ LeasesFit /\ [Next]_vars => LeasesFit'
  <1> SUFFICES ASSUME IInv, LeasesFit, [Next]_vars PROVE LeasesFit'
    OBVIOUS
  <1>0. \A w \in Workers : Working(w) => worker[w].job \in Rows /\ worker[w].job \in Job
    BY DEF IInv, Fencing, WorkersHaveRows, Rows
  <1>1. ASSUME UNCHANGED <<job, worker>> PROVE LeasesFit'
    BY <1>1 DEF LeasesFit, LeaseFits, Working, Owns
  \* A worker that keeps what it had, of a row that stays as it was, fits it as before.
  <1>2. ASSUME NEW w \in Workers, Working(w)', worker'[w].job = worker[w].job, Working(w),
               worker'[w].lease = worker[w].lease, worker'[w].attempts = worker[w].attempts,
               worker'[w].step = "unanswered" <=> worker[w].step = "unanswered",
               job'[worker[w].job].status = job[worker[w].job].status,
               job'[worker[w].job].lease = job[worker[w].job].lease,
               job'[worker[w].job].attempts = job[worker[w].job].attempts,
               Owns(w)'
        PROVE  LeaseFits(w)'
    BY <1>2 DEF LeasesFit, LeaseFits, Owns
  <1>3. ASSUME NEW w \in Workers, Claim(w) PROVE LeasesFit'
    <2>1. PICK i \in Job :
            /\ job'[i].status = "processing" /\ job'[i].lease = leases + 1
            /\ job'[i].attempts = job[i].attempts + 1
            /\ \A j \in Job \ {i} : job'[j] = job[j]
            /\ worker'[w] = [step |-> "claimed", job |-> i, lease |-> leases + 1,
                             attempts |-> job[i].attempts + 1]
            /\ \A v \in Workers \ {w} : worker'[v] = worker[v]
            /\ \A v \in Workers : Working(v) => worker[v].lease # leases + 1
      BY <1>3, ClaimEffect
    <2>2. LeaseFits(w)'
      BY <2>1 DEF LeaseFits
    <2>3. ASSUME NEW v \in Workers \ {w}, Working(v)', Owns(v)' PROVE LeaseFits(v)'
      <3>1. Working(v) /\ worker'[v] = worker[v] /\ worker[v].job # i
        BY <2>1, <2>3 DEF Working, Owns
      <3> QED
        BY <1>0, <1>2, <2>1, <2>3, <3>1
    <2> QED
      BY <2>2, <2>3 DEF LeasesFit
  <1>4. ASSUME NEW w \in Workers, CheckMembership(w) \/ Ingest(w) \/ IngestFails(w) PROVE LeasesFit'
    <2>1. ASSUME NEW v \in Workers, Working(v)', Owns(v)' PROVE LeaseFits(v)'
      <3>1. CASE v = w
        BY <1>0, <1>2, <1>4, <2>1, <3>1, ProgressEffect
      <3>2. CASE v # w
        <4>1. worker'[v] = worker[v] /\ job' = job
          BY <1>4, <3>2, ProgressEffect
        <4> QED
          BY <1>0, <1>2, <2>1, <4>1 DEF Working
      <3> QED
        BY <3>1, <3>2
    <2> QED
      BY <2>1 DEF LeasesFit
  <1>5. ASSUME NEW w \in Workers, Working(w), NEW status \in {"pending", "completed", "failed"},
               NEW step \in {"idle", "unanswered"}, step = "unanswered" => status = "completed",
               Acknowledge(w, status, step), worker[w].step = "unanswered" => step = "idle"
        PROVE  LeasesFit'
    <2> DEFINE i == worker[w].job
    <2>1. /\ i \in Rows /\ i \in Job
          /\ \A v \in Workers \ {w} : worker'[v] = worker[v]
          /\ \/ step = "idle" /\ worker'[w] = NoWork
             \/ /\ step = "unanswered" /\ worker'[w].step = step /\ worker'[w].job = i
                /\ worker'[w].lease = worker[w].lease /\ worker'[w].attempts = worker[w].attempts
          /\ Owns(w) => /\ job'[i].status = status /\ job'[i].lease = job[i].lease
                        /\ \A j \in Job \ {i} : job'[j] = job[j]
          /\ ~Owns(w) => job' = job
      BY <1>5, AcknowledgeEffect
    <2>2. ASSUME Working(w)', Owns(w)' PROVE LeaseFits(w)'
      <3>1. step = "unanswered" /\ worker'[w].step = step /\ worker'[w].job = i /\ worker'[w].lease = worker[w].lease
        BY <2>1, <2>2 DEF Working, NoWork
      <3>2. Owns(w)
        BY <2>1, <2>2, <3>1 DEF Owns
      <3>3. job'[i].status = "completed"
        BY <1>5, <2>1, <3>1, <3>2
      <3> QED
        BY <3>1, <3>3 DEF LeaseFits
    <2>3. ASSUME NEW v \in Workers \ {w}, Working(v)', Owns(v)' PROVE LeaseFits(v)'
      <3>1. worker'[v] = worker[v] /\ Working(v) /\ worker[v].job \in Job
        BY <1>0, <2>1, <2>3 DEF Working
      <3>2. Owns(v)
        BY <2>1, <2>3, <3>1 DEF Owns
      <3>3. job'[worker[v].job] = job[worker[v].job]
        BY <1>5, <2>1, <2>3, <3>1, <3>2, OneOwner
      <3> QED
        BY <1>2, <2>3, <3>1, <3>3
    <2> QED
      BY <2>2, <2>3 DEF LeasesFit
  <1>6. ASSUME NEW w \in Workers, Complete(w) PROVE LeasesFit'
    BY <1>5, <1>6 DEF Complete, Working
  <1>7. ASSUME NEW w \in Workers, Fail(w) PROVE LeasesFit'
    <2>1. FailedStatus(w) \in {"pending", "failed"}
      BY DEF FailedStatus
    <2> QED
      BY <1>5, <1>7, <2>1 DEF Fail, Working
  <1>8. ASSUME NEW w \in Workers, Sweep(w) PROVE LeasesFit'
    <2>1. ASSUME NEW v \in Workers, Working(v)', Owns(v)' PROVE LeaseFits(v)'
      <3> DEFINE i == worker[v].job
      <3>1. worker' = worker /\ Working(v) /\ i \in Job
        BY <1>0, <1>8, <2>1 DEF Sweep, Working
      <3>2. CASE Abandoned(i)
        <4>1. /\ job[i].status = "processing" /\ job[i].attempts >= MaxAttempts
              /\ job'[i].status = "failed" /\ job'[i].lease = job[i].lease
          BY <1>8, <3>1, <3>2, SweepEffect
        <4>2. LeaseFits(v)
          BY <2>1, <3>1, <4>1 DEF LeasesFit, Owns
        <4> QED
          BY <3>1, <4>1, <4>2 DEF LeaseFits
      <3>3. CASE ~Abandoned(i)
        <4>1. job'[i] = job[i]
          BY <1>8, <3>1, <3>3, SweepEffect
        <4> QED
          BY <1>2, <2>1, <3>1, <4>1
      <3> QED
        BY <3>2, <3>3
    <2> QED
      BY <2>1 DEF LeasesFit
  <1>9. ASSUME NEW i \in Job, NEW status \in {"pending", "cancelled"}, OwnerAction(i, status) PROVE LeasesFit'
    <2>1. /\ job[i].status \in {"pending", "failed"}
          /\ job'[i].status = status /\ job'[i].lease = job[i].lease
          /\ \A j \in Job \ {i} : job'[j] = job[j]
          /\ worker' = worker
      BY <1>9, OwnerEffect
    <2>2. ASSUME NEW v \in Workers, Working(v)', Owns(v)' PROVE LeaseFits(v)'
      <3>1. Working(v) /\ worker[v].job \in Job
        BY <1>0, <2>1, <2>2 DEF Working
      <3>2. CASE worker[v].job = i
        <4>1. LeaseFits(v)
          BY <2>1, <2>2, <3>1, <3>2 DEF LeasesFit, Owns
        <4> QED
          BY <2>1, <3>2, <4>1 DEF LeaseFits
      <3>3. CASE worker[v].job # i
        BY <1>2, <2>1, <2>2, <3>1, <3>3
      <3> QED
        BY <3>2, <3>3
    <2> QED
      BY <2>2 DEF LeasesFit
  <1>10. ASSUME NEW i \in Job, Wait(i) \/ Lapse(i) PROVE LeasesFit'
    <2>1. ASSUME NEW v \in Workers, Working(v)', Owns(v)' PROVE LeaseFits(v)'
      <3>1. worker' = worker /\ Working(v) /\ worker[v].job \in Job
        BY <1>0, <1>10, <2>1, TimeEffect DEF Working
      <3>2. /\ job'[worker[v].job].status = job[worker[v].job].status
            /\ job'[worker[v].job].lease = job[worker[v].job].lease
            /\ job'[worker[v].job].attempts = job[worker[v].job].attempts
        BY <1>10, <3>1, TimeEffect
      <3> QED
        BY <1>2, <2>1, <3>1, <3>2
    <2> QED
      BY <2>1 DEF LeasesFit
  <1>11. ASSUME NEW c \in Calls, Insert(c) PROVE LeasesFit'
    <2>1. CASE job' = job
      BY <1>1, <1>11, <2>1 DEF Insert
    <2>2. CASE job' # job
      <3>1. PICK i \in Job : i \notin Rows /\ \A j \in Job \ {i} : job'[j] = job[j]
        BY <1>11, <2>2, InsertEffect
      <3>2. ASSUME NEW v \in Workers, Working(v)', Owns(v)' PROVE LeaseFits(v)'
        <4>1. worker' = worker /\ Working(v)
          BY <1>11, <3>2 DEF Insert, Working
        <4>2. job'[worker[v].job] = job[worker[v].job]
          BY <1>0, <3>1, <4>1
        <4> QED
          BY <1>2, <3>2, <4>1, <4>2
      <3> QED
        BY <3>2 DEF LeasesFit
    <2> QED
      BY <2>1, <2>2
  <1>12. ASSUME NEW w \in Workers, Crash(w) PROVE LeasesFit'
    <2>1. \A v \in Workers : Working(v)' => worker'[v] = worker[v]
      BY <1>12 DEF Crash, Working, NoWork, IInv, TypeOK
    <2> QED
      BY <1>12, <2>1 DEF Crash, LeasesFit, LeaseFits, Owns, Working
  <1> QED
    BY <1>1, <1>3, <1>4, <1>6, <1>7, <1>8, <1>9, <1>10, <1>11, <1>12
    DEF Next, CallStep, WorkerStep, Lock, Count, Abandon, Submit, Retry, Cancel, Revoke, vars

LEMMA LeasesAreFit == Spec => []LInv
  <1>1. Init => LeasesFit
    BY DEF Init, LeasesFit, Working, NoWork
  <1> QED
    BY <1>1, LeasesFitStep, InitOrdered, StepOrdered, PTL DEF Spec, LInv

HasOwner(j) == \E w \in Workers : Working(w) /\ Owns(w) /\ worker[w].job = j

LEMMA LateAre ==
  /\ \A j : j \in LateJobs <=> HasOwner(j) /\ job[j].status # "processing"
  /\ \A j : j \in LateJobs' <=> HasOwner(j)' /\ job'[j].status # "processing"
  BY DEF LateJobs, ComesLate, HasOwner

\* Without workers that lose or gain a lease, a step moves the row of one job.
LEMMA OneRowMoves ==
  ASSUME IInv, NEW i \in Job, \A j \in Job \ {i} : job'[j] = job[j], IInv'
  PROVE  /\ StatusOf' = [StatusOf EXCEPT ![i] = job'[i].status]
         /\ StatusOf[i] = job[i].status
  BY DEF StatusOf

LEMMA LateInJob == (IInv => LateJobs \subseteq Job) /\ (IInv' => LateJobs' \subseteq Job)
  BY DEF IInv, Fencing, WorkersHaveRows, Rows, LateJobs, ComesLate

LEMMA LifecycleStep == LInv /\ LInv' /\ [Next]_vars => [Lifecycle!Next]_(Lifecycle!vars)
  <1> SUFFICES ASSUME LInv, LInv', [Next]_vars PROVE [Lifecycle!Next]_(Lifecycle!vars)
    OBVIOUS
  <1> DEFINE Goal == Lifecycle!Next \/ (StatusOf' = StatusOf /\ LateJobs' = LateJobs)
  <1> USE DEF LInv
  <1>0. /\ \A w \in Workers : Working(w) => worker[w].job \in Rows /\ worker[w].job \in Job
        /\ LateJobs \subseteq Job /\ LateJobs' \subseteq Job
    BY LateInJob DEF IInv, Fencing, WorkersHaveRows, Rows
  <1>1. ASSUME \A j \in Job : job'[j].status = job[j].status,
               \A j \in Job : HasOwner(j)' <=> HasOwner(j)
        PROVE  Goal
    <2>1. StatusOf' = StatusOf
      BY <1>1 DEF StatusOf
    <2>2. LateJobs' = LateJobs
      <3>1. \A j \in Job : j \in LateJobs' <=> j \in LateJobs
        BY <1>1, LateAre
      <3> QED
        BY <1>0, <3>1
    <2> QED
      BY <2>1, <2>2
  \* One row moves, and the owners of the other rows stay.
  <1>2. ASSUME NEW i \in Job, \A j \in Job \ {i} : job'[j] = job[j],
               \A j \in Job \ {i} : HasOwner(j)' <=> HasOwner(j)
        PROVE  /\ StatusOf' = [StatusOf EXCEPT ![i] = job'[i].status] /\ StatusOf[i] = job[i].status
               /\ i \in LateJobs <=> HasOwner(i) /\ job[i].status # "processing"
               /\ HasOwner(i)' /\ job'[i].status # "processing" => LateJobs' = LateJobs \cup {i}
               /\ ~(HasOwner(i)' /\ job'[i].status # "processing") => LateJobs' = LateJobs \ {i}
    <2>1. StatusOf' = [StatusOf EXCEPT ![i] = job'[i].status] /\ StatusOf[i] = job[i].status
      BY <1>2, OneRowMoves
    <2>2. \A j \in Job \ {i} : j \in LateJobs' <=> j \in LateJobs
      BY <1>2, LateAre
    <2>3. i \in LateJobs' <=> HasOwner(i)' /\ job'[i].status # "processing"
      BY LateAre
    <2> QED
      BY <1>0, <2>1, <2>2, <2>3, LateAre
  <1>3. ASSUME NEW w \in Workers, Claim(w) PROVE Goal
    <2>1. PICK i \in Job :
            /\ job[i].status \in {"pending", "processing"} /\ i \in Rows
            /\ job'[i].status = "processing" /\ job'[i].lease = leases + 1
            /\ \A j \in Job \ {i} : job'[j] = job[j]
            /\ worker'[w] = [step |-> "claimed", job |-> i, lease |-> leases + 1,
                             attempts |-> job[i].attempts + 1]
            /\ \A v \in Workers \ {w} : worker'[v] = worker[v]
      BY <1>3, ClaimEffect
    <2>2. ~Working(w)
      BY <1>3 DEF Claim
    <2>3. \A j \in Job \ {i} : HasOwner(j)' <=> HasOwner(j)
      BY <2>1, <2>2 DEF HasOwner, Owns, Working
    <2>4. /\ StatusOf' = [StatusOf EXCEPT ![i] = "processing"] /\ StatusOf[i] = job[i].status
          /\ i \in LateJobs => job[i].status # "processing"
          /\ LateJobs' = LateJobs \ {i}
      BY <1>2, <2>1, <2>3
    <2>5. CASE job[i].status = "pending"
      BY <2>4, <2>5 DEF Lifecycle!Next, Lifecycle!Claim, Lifecycle!Becomes, StatusOf, LateJobs
    <2>6. CASE job[i].status = "processing"
      <3>1. StatusOf' = StatusOf
        BY <2>4, <2>6 DEF StatusOf
      <3> QED
        BY <2>4, <2>6, <3>1
    <2> QED
      BY <2>1, <2>5, <2>6
  <1>4. ASSUME NEW w \in Workers, CheckMembership(w) \/ Ingest(w) \/ IngestFails(w) PROVE Goal
    <2>1. /\ job' = job /\ Working(w) /\ Working(w)'
          /\ worker'[w].job = worker[w].job /\ worker'[w].lease = worker[w].lease
          /\ \A v \in Workers \ {w} : worker'[v] = worker[v]
      BY <1>4, ProgressEffect DEF Working
    <2>2. \A v \in Workers : (Working(v) <=> Working(v)') /\ (Owns(v) <=> Owns(v)')
                             /\ worker'[v].job = worker[v].job
      BY <2>1 DEF Working, Owns
    <2>3. \A j \in Job : HasOwner(j)' <=> HasOwner(j)
      BY <2>2 DEF HasOwner
    <2> QED
      BY <1>1, <2>1, <2>3
  \* An acknowledgement by a worker that has the lease moves the row of its job,
  \* and gives up the job unless it goes on to report a failed attempt.
  <1>5. ASSUME NEW w \in Workers, Working(w), NEW status \in {"pending", "completed", "failed"},
               NEW step \in {"idle", "unanswered"}, Acknowledge(w, status, step),
               worker[w].step = "unanswered" => status # "completed",
               status = "completed" => worker[w].step # "unanswered",
               step = "unanswered" => status = "completed",
               status = "pending" => worker[w].step = "unanswered" \/ worker[w].attempts < MaxAttempts
        PROVE  Goal
    <2>0. PICK i \in Job : i = worker[w].job
      BY <1>0, <1>5
    <2>1. /\ \A v \in Workers \ {w} : worker'[v] = worker[v]
          /\ \/ step = "idle" /\ worker'[w] = NoWork
             \/ /\ step = "unanswered" /\ worker'[w].step = step /\ worker'[w].job = i
                /\ worker'[w].lease = worker[w].lease
          /\ Owns(w) => /\ job'[i].status = status /\ job'[i].lease = job[i].lease
                        /\ \A j \in Job \ {i} : job'[j] = job[j]
          /\ ~Owns(w) => job' = job
      BY <1>5, <2>0, AcknowledgeEffect
    <2>2. CASE ~Owns(w)
      <3>1. job' = job /\ ~(Working(w)' /\ Owns(w)')
        BY <2>0, <2>1, <2>2 DEF Owns, Working, NoWork
      <3>2. \A j \in Job : HasOwner(j)' <=> HasOwner(j)
        BY <2>1, <2>2, <3>1 DEF HasOwner, Owns, Working
      <3> QED
        BY <1>1, <3>1, <3>2
    <2>3. CASE Owns(w)
      <3>1. \A j \in Job \ {i} : HasOwner(j)' <=> HasOwner(j)
        <4>1. \A v \in Workers \ {w} : (Working(v) <=> Working(v)') /\ worker'[v].job = worker[v].job
          BY <2>1 DEF Working
        <4>2. \A v \in Workers \ {w} : Working(v) => (Owns(v) <=> Owns(v)')
          BY <1>0, <2>1, <2>3 DEF Owns
        <4>3. ~Working(w)' \/ worker'[w].job = i
          BY <2>1 DEF Working, NoWork
        <4> QED
          BY <2>0, <4>1, <4>2, <4>3 DEF HasOwner
      <3>2. HasOwner(i)' <=> step = "unanswered"
        <4>1. CASE step = "unanswered"
          <5>1. Working(w)' /\ Owns(w)' /\ worker'[w].job = i
            BY <2>0, <2>1, <2>3, <4>1 DEF Working, Owns
          <5> QED
            BY <4>1, <5>1 DEF HasOwner
        <4>2. CASE step = "idle"
          <5>1. ASSUME NEW v \in Workers, Working(v)', Owns(v)', worker'[v].job = i PROVE FALSE
            <6>1. v # w
              BY <2>1, <4>2, <5>1 DEF Working, NoWork
            <6>2. Working(v) /\ Owns(v) /\ worker[v].job = i
              BY <2>0, <2>1, <2>3, <5>1, <6>1 DEF Working, Owns
            <6> QED
              BY <1>5, <2>0, <2>3, <6>1, <6>2, OneOwner
          <5> QED
            BY <4>2, <5>1 DEF HasOwner
        <4> QED
          BY <4>1, <4>2
      <3>3. HasOwner(i)
        BY <1>5, <2>0, <2>3 DEF HasOwner
      <3>4. /\ StatusOf' = [StatusOf EXCEPT ![i] = status] /\ StatusOf[i] = job[i].status
            /\ i \in LateJobs <=> job[i].status # "processing"
            /\ step = "unanswered" => LateJobs' = LateJobs \cup {i}
            /\ step = "idle" => LateJobs' = LateJobs \ {i}
        BY <1>2, <1>5, <2>1, <2>3, <3>1, <3>2, <3>3
      <3>5. LeaseFits(w)
        BY <1>5, <2>3 DEF LeasesFit
      <3>6. CASE job[i].status = "processing"
        <4>1. LateJobs' = LateJobs \/ (status = "completed" /\ LateJobs' = LateJobs \cup {i})
          BY <1>5, <3>4, <3>6
        <4>2. Lifecycle!Settle(i)
          BY <3>4, <3>6, <4>1 DEF Lifecycle!Settle, Lifecycle!Becomes, StatusOf, LateJobs
        <4> QED
          BY <2>1, <4>2 DEF Lifecycle!Next
      <3>7. CASE job[i].status # "processing"
        <4>1. i \in LateJobs
          BY <3>4, <3>7
        <4>2. CASE job[i].status = "completed"
          <5>1. worker[w].step = "unanswered" /\ status \in {"pending", "failed"} /\ step = "idle"
            BY <1>5, <2>0, <3>5, <4>2 DEF LeaseFits
          <5> QED
            BY <2>1, <3>4, <4>1, <4>2, <5>1
            DEF Lifecycle!Next, Lifecycle!SettleLate, Lifecycle!Becomes, StatusOf, LateJobs
        <4>3. CASE job[i].status # "completed"
          <5>1. status \in {"completed", "failed"}
            <6>1. worker[w].step # "unanswered" /\ worker[w].attempts >= MaxAttempts
              BY <2>0, <3>5, <3>7, <4>3 DEF LeaseFits
            <6>2. worker[w].attempts \in Nat
              BY <1>5, InProgress DEF IInv, Work
            <6> QED
              BY <1>5, <6>1, <6>2, BoundsAssumption
          <5>2. LateJobs' = LateJobs \/ LateJobs' = LateJobs \ {i}
            BY <3>4, <4>1
          <5>3. status = "failed" => LateJobs' = LateJobs \ {i}
            BY <1>5, <3>4
          <5>4. Lifecycle!SettleLate(i)
            BY <3>4, <4>1, <4>3, <5>1, <5>2, <5>3
            DEF Lifecycle!SettleLate, Lifecycle!Becomes, StatusOf, LateJobs
          <5> QED
            BY <2>1, <5>4 DEF Lifecycle!Next
        <4> QED
          BY <4>2, <4>3
      <3> QED
        BY <3>6, <3>7
    <2> QED
      BY <2>2, <2>3
  <1>6. ASSUME NEW w \in Workers, Complete(w) PROVE Goal
    <2> HIDE DEF Goal
    <2> QED
      BY <1>5, <1>6 DEF Complete, Working
  <1>7. ASSUME NEW w \in Workers, Fail(w) PROVE Goal
    <2>1. Working(w) /\ worker[w] \in Work
      BY <1>7, InProgress DEF IInv, Fail, Working
    <2>2. FailedStatus(w) \in {"pending", "failed"} /\ (FailedStatus(w) = "pending" => worker[w].attempts < MaxAttempts)
      BY <2>1, BoundsAssumption DEF FailedStatus, Work
    <2> HIDE DEF Goal
    <2> QED
      BY <1>5, <1>7, <2>1, <2>2 DEF Fail
  <1>8. ASSUME NEW w \in Workers, Sweep(w) PROVE Goal
    <2>0. PICK S \in SUBSET Job : \A j \in Job : j \in S <=> Abandoned(j)
      <3>1. \A j \in Job : j \in {i \in Job : Abandoned(i)} <=> Abandoned(j)
        OBVIOUS
      <3> QED
        BY <3>1
    <2>1. \A j \in Job : /\ j \in S => /\ job[j].status = "processing"
                                       /\ job'[j].status = "failed" /\ job'[j].lease = job[j].lease
                         /\ j \notin S => job'[j] = job[j]
      BY <1>8, <2>0, SweepEffect
    <2>2. worker' = worker
      BY <1>8 DEF Sweep
    <2>3. \A v \in Workers : Working(v) => (Owns(v)' <=> Owns(v))
      BY <1>0, <2>1, <2>2 DEF Owns
    <2>4. \A j \in Job : HasOwner(j)' <=> HasOwner(j)
      BY <2>2, <2>3 DEF HasOwner, Working
    <2>5. StatusOf' = [j \in Job |-> IF j \in S THEN "failed" ELSE StatusOf[j]]
      BY <2>1 DEF StatusOf
    <2>6. \E T \in SUBSET S : LateJobs' = LateJobs \cup T
      <3> DEFINE T == {j \in S : HasOwner(j)}
      <3>1. \A j \in Job : j \in LateJobs' <=> j \in LateJobs \cup T
        BY <2>1, <2>4, LateAre
      <3>2. LateJobs' = LateJobs \cup T
        BY <1>0, <3>1
      <3> QED
        BY <3>2
    <2>7. \A j \in S : StatusOf[j] = "processing"
      BY <2>1 DEF StatusOf
    <2>8. Lifecycle!GiveUp(S)
      <3> QED
        BY <2>5, <2>6, <2>7 DEF Lifecycle!GiveUp, StatusOf, LateJobs
    <2> QED
      BY <2>8 DEF Lifecycle!Next
  <1>9. ASSUME NEW i \in Job, NEW status \in {"pending", "cancelled"}, OwnerAction(i, status) PROVE Goal
    <2>1. /\ job[i].status \in {"pending", "failed"}
          /\ job'[i].status = status /\ job'[i].lease = job[i].lease
          /\ \A j \in Job \ {i} : job'[j] = job[j]
          /\ worker' = worker
      BY <1>9, OwnerEffect
    <2>2. \A v \in Workers : Working(v) => (Owns(v)' <=> Owns(v))
      BY <1>0, <2>1 DEF Owns
    <2>3. \A j \in Job : HasOwner(j)' <=> HasOwner(j)
      BY <2>1, <2>2 DEF HasOwner, Working
    <2>4. /\ StatusOf' = [StatusOf EXCEPT ![i] = status] /\ StatusOf[i] = job[i].status
          /\ LateJobs' = LateJobs
      BY <1>2, <2>1, <2>3
    <2> QED
      BY <2>1, <2>4 DEF Lifecycle!Next, Lifecycle!RetryOrCancel, Lifecycle!Becomes, StatusOf, LateJobs
  <1>10. ASSUME NEW i \in Job, Wait(i) \/ Lapse(i) PROVE Goal
    <2>1. worker' = worker /\ \A j \in Job : job'[j].status = job[j].status /\ job'[j].lease = job[j].lease
      BY <1>10, TimeEffect
    <2>2. \A v \in Workers : Working(v) => (Owns(v)' <=> Owns(v))
      BY <1>0, <2>1 DEF Owns
    <2>3. \A j \in Job : HasOwner(j)' <=> HasOwner(j)
      BY <2>1, <2>2 DEF HasOwner, Working
    <2> QED
      BY <1>1, <2>1, <2>3
  <1>11. ASSUME UNCHANGED <<job, worker>> PROVE Goal
    <2>1. \A j \in Job : HasOwner(j)' <=> HasOwner(j)
      BY <1>11 DEF HasOwner, Working, Owns
    <2> QED
      BY <1>1, <1>11, <2>1
  <1>12. ASSUME NEW c \in Calls, Insert(c), job' # job PROVE Goal
    <2>1. PICK i \in Job : /\ job[i].status = "absent" /\ i \notin Rows
                           /\ job'[i].status = "pending"
                           /\ \A j \in Job \ {i} : job'[j] = job[j]
      BY <1>12, InsertEffect
    <2>2. worker' = worker
      BY <1>12 DEF Insert
    <2>3. \A v \in Workers : Working(v) => (Owns(v)' <=> Owns(v)) /\ worker[v].job # i
      BY <1>0, <2>1, <2>2 DEF Owns
    <2>4. \A j \in Job : HasOwner(j)' <=> HasOwner(j)
      BY <2>2, <2>3 DEF HasOwner, Working
    <2>5. ~HasOwner(i)
      BY <2>3 DEF HasOwner
    <2>6. /\ StatusOf' = [StatusOf EXCEPT ![i] = "pending"] /\ StatusOf[i] = "absent"
          /\ LateJobs' = LateJobs
      BY <1>2, <2>1, <2>4, <2>5
    <2> QED
      BY <2>1, <2>6 DEF Lifecycle!Next, Lifecycle!Submit, Lifecycle!Becomes, StatusOf, LateJobs
  <1>13. ASSUME NEW w \in Workers, Crash(w) PROVE Goal
    <2>0. PICK i \in Job : i = worker[w].job
      BY <1>0, <1>13 DEF Crash
    <2>1. job' = job /\ Working(w) /\ ~Working(w)' /\ \A v \in Workers \ {w} : worker'[v] = worker[v]
      BY <1>13 DEF Crash, IInv, TypeOK, Working, NoWork
    <2>3. \A j \in Job \ {i} : HasOwner(j)' <=> HasOwner(j)
      BY <2>0, <2>1 DEF HasOwner, Working, Owns
    <2>4. LateJobs' = LateJobs \/ LateJobs' = LateJobs \ {i}
      <3>1. HasOwner(i)' => HasOwner(i)
        BY <2>1 DEF HasOwner, Working, Owns
      <3> QED
        BY <1>2, <2>1, <2>3, <3>1
    <2>5. StatusOf' = StatusOf
      BY <2>1 DEF StatusOf
    <2> QED
      BY <2>4, <2>5 DEF Lifecycle!Next, Lifecycle!Forget, StatusOf, LateJobs
  <1> HIDE DEF Goal
  <1>14. Goal
    BY <1>3, <1>4, <1>6, <1>7, <1>8, <1>9, <1>10, <1>11, <1>12, <1>13
    DEF Next, CallStep, WorkerStep, Lock, Count, Insert, Abandon, Submit, Retry, Cancel, Revoke, vars
  <1> QED
    BY <1>14 DEF Goal, Lifecycle!vars, StatusOf, LateJobs

\* Through lapsed leases, crashes, lost answers and the sweep, the rows go only
\* through the statuses that JobLifecycle allows, for any number of calls,
\* workers and jobs.
THEOREM ImplementsLifecycle == Spec => LifecycleKept
  <1>1. Init => Lifecycle!Init
    BY DEF Init, Lifecycle!Init, ComesLate, Working, NoWork, NoJob
  <1>2. LInv /\ LInv' /\ [Next]_vars => [Lifecycle!Next]_(Lifecycle!vars)
    BY LifecycleStep
  <1> QED
    BY <1>1, <1>2, LeasesAreFit, PTL DEF Spec, LifecycleKept, Lifecycle!Spec

\* A cancelled job is never put back in the queue or claimed again, even by a
\* worker that stalled and comes back: what JobLifecycle allows excludes it.
THEOREM CancelledNeverQueued ==
  Spec => [][\A j \in Job : job[j].status = "cancelled" => job'[j].status \notin {"pending", "processing"}]_vars
  <1> DEFINE Kept == \A j \in Job : job[j].status = "cancelled" => job'[j].status \notin {"pending", "processing"}
  <1>1. [Lifecycle!Next]_(Lifecycle!vars) => Kept
    <2> SUFFICES ASSUME [Lifecycle!Next]_(Lifecycle!vars), NEW j \in Job, StatusOf[j] = "cancelled"
                 PROVE  StatusOf'[j] \notin {"pending", "processing"}
      BY DEF StatusOf
    <2>1. ASSUME NEW i \in Job, NEW new, Lifecycle!Becomes(i, new)
          PROVE  StatusOf'[j] = IF i = j THEN new ELSE "cancelled"
      BY <2>1 DEF Lifecycle!Becomes, StatusOf
    <2>2. ASSUME NEW i \in Job, \/ Lifecycle!Submit(i) \/ Lifecycle!RetryOrCancel(i) \/ Lifecycle!Claim(i)
                                \/ Lifecycle!Settle(i) \/ Lifecycle!SettleLate(i) \/ Lifecycle!Forget(i)
          PROVE  StatusOf'[j] \notin {"pending", "processing"}
      BY <2>1, <2>2 DEF Lifecycle!Submit, Lifecycle!RetryOrCancel, Lifecycle!Claim, Lifecycle!Settle,
         Lifecycle!SettleLate, Lifecycle!Forget, StatusOf
    <2>3. ASSUME NEW S \in SUBSET Job, Lifecycle!GiveUp(S) PROVE StatusOf'[j] \notin {"pending", "processing"}
      BY <2>3 DEF Lifecycle!GiveUp, StatusOf
    <2> QED
      BY <2>2, <2>3 DEF Lifecycle!Next, Lifecycle!vars, StatusOf
  <1>2. LInv /\ LInv' /\ [Next]_vars => [Kept]_vars
    BY <1>1, LifecycleStep
  <1> QED
    BY <1>2, LeasesAreFit, PTL DEF Spec
=============================================================================
