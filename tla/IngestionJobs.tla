---------------------------- MODULE IngestionJobs ----------------------------
(***************************************************************************)
(* Durable ingestion jobs (proxy/enterprise_workflows.py).                 *)
(*                                                                         *)
(* A contributor submits a proposal under a request id; the call that      *)
(* stores it holds the actor's advisory lock while it counts the actor's   *)
(* unfinished jobs.  Workers claim the oldest available job for a six      *)
(* minute lease, check the actor's membership, ingest the text and         *)
(* acknowledge under their lease.  A sweep fails the jobs whose last lease *)
(* lapsed, and the owner may retry or cancel a job that is not running.    *)
(*                                                                         *)
(* A job is named by the order in which the transaction that submits it    *)
(* began, which is the order of created_at.  A lease is named by its       *)
(* number.  Time is two flags: the lease of a job has lapsed or has not,   *)
(* and the delay before its next attempt has passed or has not.            *)
(***************************************************************************)
EXTENDS Naturals, FiniteSets

CONSTANTS
  Calls,       \* concurrent calls of POST /api/workspace/submit
  Workers,     \* running copies of the ingestion worker
  Actors,      \* signed Buzz identities
  RequestIds,  \* request_id values
  Texts,       \* submitted texts; a text is one document of its channel
  NoText,      \* no text
  Limit,       \* unfinished jobs an actor may have (20)
  MaxAttempts, \* claims of a job before it is given up (3)
  MaxJobs,     \* bound: submissions begun
  MaxOwner,    \* bound: retries and cancellations
  MaxCrashes,  \* bound: worker crashes
  MaxStalls,   \* bound: leases that lapse while their worker is running
  MaxFaults,   \* bound: ingestions and acknowledgements that fail
  MaxTroubles  \* bound: all of these four together

ASSUME NoTextAssumption == NoText \notin Texts
ASSUME BoundsAssumption ==
  /\ Limit \in Nat \ {0} /\ MaxAttempts \in Nat \ {0} /\ MaxJobs \in Nat /\ MaxOwner \in Nat
  /\ MaxCrashes \in Nat /\ MaxStalls \in Nat /\ MaxFaults \in Nat /\ MaxTroubles \in Nat

Job == 1..MaxJobs
Unfinished == {"pending", "processing"}
Status == Unfinished \cup {"absent", "completed", "failed", "cancelled"}

VARIABLES
  job,      \* [Job -> row of gcor.ingestion_jobs]
  call,     \* [Calls -> submission in progress]
  worker,   \* [Workers -> the row the worker claimed, and its progress]
  stored,   \* texts that have a document
  members,  \* actors whose channel membership is active
  began,    \* submissions begun
  leases,   \* leases granted
  answers,  \* history: <<actor, request id, text, job>> of submissions answered
  spent     \* owner actions, crashes, stalls and faults so far

vars == <<job, call, worker, stored, members, began, leases, answers, spent>>

NoJob == [status |-> "absent", actor |-> "none", request |-> "none", text |-> NoText, attempts |-> 0,
          lease |-> 0, live |-> FALSE, due |-> FALSE, settled |-> FALSE]
NoCall == [stage |-> "idle"]
NoWork == [step |-> "idle"]

StoredRow ==
  [status : Status \ {"absent"}, actor : Actors, request : RequestIds, text : Texts,
   attempts : 0..MaxAttempts, lease : Nat, live : BOOLEAN, due : BOOLEAN,
   settled : BOOLEAN]  \* settled is history: the job has once been finished
Submission == [stage : {"locking", "counting", "inserting"}, id : Job,
               actor : Actors, request : RequestIds, text : Texts]
Work == [step : {"claimed", "ingesting", "ingested", "unanswered", "failing", "refused"},
         job : Job, lease : Nat, attempts : 1..MaxAttempts]

\* Every variable stays in its declared set.
TypeOK ==
  /\ job \in [Job -> StoredRow \cup {NoJob}]
  /\ call \in [Calls -> Submission \cup {NoCall}]
  /\ worker \in [Workers -> Work \cup {NoWork}]
  /\ stored \subseteq Texts
  /\ members \subseteq Actors
  /\ began \in 0..MaxJobs
  /\ leases \in Nat
  /\ answers \subseteq Actors \X RequestIds \X Texts \X (Job \cup {0})
  /\ spent \in [owner : 0..MaxOwner, crashes : 0..MaxCrashes, stalls : 0..MaxStalls, faults : 0..MaxFaults]

Init ==
  /\ job = [j \in Job |-> NoJob]
  /\ call = [c \in Calls |-> NoCall]
  /\ worker = [w \in Workers |-> NoWork]
  /\ stored = {}
  /\ members = Actors
  /\ began = 0
  /\ leases = 0
  /\ answers = {}
  /\ spent = [owner |-> 0, crashes |-> 0, stalls |-> 0, faults |-> 0]

Rows == {j \in Job : job[j].status # "absent"}
UnfinishedOf(a) == {j \in Rows : job[j].actor = a /\ job[j].status \in Unfinished}
RowsOf(a, r) == {j \in Rows : job[j].actor = a /\ job[j].request = r}
Working(w) == worker[w].step # "idle"
MoreTrouble == spent.owner + spent.crashes + spent.stalls + spent.faults < MaxTroubles

-----------------------------------------------------------------------------
(***************************************************************************)
(* submit.                                                                 *)
(***************************************************************************)
Submit(c, a, r, t) ==
  /\ call[c].stage = "idle"
  /\ a \in members
  /\ began < MaxJobs
  /\ began' = began + 1
  /\ call' = [call EXCEPT ![c] = [stage |-> "locking", id |-> began + 1,
                                  actor |-> a, request |-> r, text |-> t]]
  /\ UNCHANGED <<job, worker, stored, members, leases, answers, spent>>

\* Mutant of LockFree: the advisory lock is not taken.
LockAlwaysFree(c) == TRUE

\* pg_advisory_xact_lock('job-actor:' + actor)
LockFree(c) ==
  \A d \in Calls \ {c} :
    ~(call[d].stage \in {"counting", "inserting"} /\ call[d].actor = call[c].actor)

Lock(c) ==
  /\ call[c].stage = "locking"
  /\ LockFree(c)
  /\ call' = [call EXCEPT ![c].stage = "counting"]
  /\ UNCHANGED <<job, worker, stored, members, began, leases, answers, spent>>

\* The call ends with the job j, or with no job (0): 409, 429 or an error.
Reply(c, j) ==
  /\ answers' = answers \cup {<<call[c].actor, call[c].request, call[c].text, j>>}
  /\ call' = [call EXCEPT ![c] = NoCall]

\* Mutant of SameRequest: request_hash is not compared.
AnyRequest(c, j) == TRUE

SameRequest(c, j) == job[j].text = call[c].text

\* A stored job of the request id answers when it has the same request_hash.
\* Without one, the actor's unfinished jobs are counted.
Count(c) ==
  LET prior == RowsOf(call[c].actor, call[c].request) IN
  /\ call[c].stage = "counting"
  /\ \/ \E j \in prior : Reply(c, IF SameRequest(c, j) THEN j ELSE 0)
     \/ /\ prior = {}
        /\ Cardinality(UnfinishedOf(call[c].actor)) >= Limit
        /\ call' = [call EXCEPT ![c] = NoCall]
        /\ UNCHANGED answers
     \/ /\ prior = {}
        /\ Cardinality(UnfinishedOf(call[c].actor)) < Limit
        /\ call' = [call EXCEPT ![c].stage = "inserting"]
        /\ UNCHANGED answers
  /\ UNCHANGED <<job, worker, stored, members, began, leases, spent>>

Submitted(c) ==
  [NoJob EXCEPT !.status = "pending", !.actor = call[c].actor, !.request = call[c].request,
                !.text = call[c].text, !.due = TRUE]

\* INSERT and COMMIT; UNIQUE(actor, request_id) refuses a second row.
Insert(c) ==
  /\ call[c].stage = "inserting"
  /\ IF RowsOf(call[c].actor, call[c].request) = {}
     THEN job' = [job EXCEPT ![call[c].id] = Submitted(c)] /\ Reply(c, call[c].id)
     ELSE UNCHANGED job /\ Reply(c, 0)
  /\ UNCHANGED <<worker, stored, members, began, leases, spent>>

\* The transaction of the call is lost before its commit.
Abandon(c) ==
  /\ call[c].stage # "idle"
  /\ call' = [call EXCEPT ![c] = NoCall]
  /\ UNCHANGED <<job, worker, stored, members, began, leases, answers, spent>>

-----------------------------------------------------------------------------
(***************************************************************************)
(* job_action: the owner retries or cancels a job that is not running.     *)
(***************************************************************************)

\* Mutant of OwnerAction: a job may be retried or cancelled while it is running.
OwnerActionAnytime(j, status) ==
  /\ job[j].status \in {"pending", "processing", "failed"}
  /\ spent.owner < MaxOwner /\ MoreTrouble
  /\ spent' = [spent EXCEPT !.owner = @ + 1]
  /\ job' = [job EXCEPT ![j].status = status, ![j].attempts = 0, ![j].due = TRUE,
                        ![j].settled = @ \/ status = "cancelled"]
  /\ UNCHANGED <<call, worker, stored, members, began, leases, answers>>

OwnerAction(j, status) ==
  /\ job[j].status \in {"pending", "failed"}
  /\ spent.owner < MaxOwner /\ MoreTrouble
  /\ spent' = [spent EXCEPT !.owner = @ + 1]
  /\ job' = [job EXCEPT ![j].status = status, ![j].attempts = 0, ![j].due = TRUE,
                        ![j].settled = @ \/ status = "cancelled"]
  /\ UNCHANGED <<call, worker, stored, members, began, leases, answers>>

Retry(j) == OwnerAction(j, "pending")
Cancel(j) == OwnerAction(j, "cancelled")

-----------------------------------------------------------------------------
(***************************************************************************)
(* process_one.                                                            *)
(***************************************************************************)

Claimable ==
  {j \in Rows : /\ job[j].attempts < MaxAttempts
                /\ \/ job[j].status = "pending" /\ job[j].due
                   \/ job[j].status = "processing" /\ ~job[j].live}

Claim(w) ==
  /\ ~Working(w)
  /\ \E j \in Claimable :
       /\ \A i \in Claimable : j <= i
       /\ job' = [job EXCEPT ![j].status = "processing", ![j].attempts = @ + 1,
                             ![j].lease = leases + 1, ![j].live = TRUE]
       /\ worker' = [worker EXCEPT ![w] = [step |-> "claimed", job |-> j, lease |-> leases + 1,
                                           attempts |-> job[j].attempts + 1]]
  /\ leases' = leases + 1
  /\ UNCHANGED <<call, stored, members, began, answers, spent>>

Step(w, step) == worker' = [worker EXCEPT ![w].step = step]
Fault == spent.faults < MaxFaults /\ MoreTrouble /\ spent' = [spent EXCEPT !.faults = @ + 1]

\* The live membership of the actor is read before the text is ingested.
CheckMembership(w) ==
  /\ worker[w].step = "claimed"
  /\ Step(w, IF job[worker[w].job].actor \in members THEN "ingesting" ELSE "refused")
  /\ UNCHANGED <<job, call, stored, members, began, leases, answers, spent>>

\* ingest_payload commits the document; a second ingestion of a text finds
\* the first one's.  Its answer arrives, or the five minutes end first.
Ingest(w) ==
  /\ worker[w].step = "ingesting"
  /\ stored' = stored \cup {job[worker[w].job].text}
  /\ \/ Step(w, "ingested") /\ UNCHANGED spent
     \/ Step(w, "failing") /\ Fault
  /\ UNCHANGED <<job, call, members, began, leases, answers>>

\* It is refused with a 4xx, or fails, times out or is quarantined.
IngestFails(w) ==
  /\ worker[w].step = "ingesting"
  /\ \E step \in {"failing", "refused"} : Step(w, step)
  /\ Fault
  /\ UNCHANGED <<job, call, stored, members, began, leases, answers>>

\* Mutant of Owns: acknowledgements name the job and not the lease.
OwnsJob(w) == TRUE

\* WHERE id = job AND lease_id = lease
Owns(w) == job[worker[w].job].lease = worker[w].lease

Acknowledge(w, status, step) ==
  LET j == worker[w].job IN
  /\ job' = IF Owns(w)
            THEN [job EXCEPT ![j].status = status, ![j].live = FALSE,
                             ![j].due = IF status = "completed" THEN @ ELSE FALSE,
                             ![j].settled = @ \/ status \notin Unfinished]
            ELSE job
  /\ IF step = "idle" THEN worker' = [worker EXCEPT ![w] = NoWork] ELSE Step(w, step)

\* The completing update commits; its answer arrives, or is lost and raises
\* into the handler that records a failed attempt.
Complete(w) ==
  /\ worker[w].step = "ingested"
  /\ \/ Acknowledge(w, "completed", "idle") /\ UNCHANGED spent
     \/ Acknowledge(w, "completed", "unanswered") /\ Fault
  /\ UNCHANGED <<call, stored, members, began, leases, answers>>

\* Mutant of FailedStatus: a failed ingestion counts as a completed one.
FailedStatusIgnored(w) == "completed"

\* A permanent error, or the last attempt, fails the job.
FailedStatus(w) ==
  IF worker[w].step = "refused" \/ worker[w].attempts >= MaxAttempts THEN "failed" ELSE "pending"

Fail(w) ==
  /\ worker[w].step \in {"failing", "refused", "unanswered"}
  /\ Acknowledge(w, FailedStatus(w), "idle")
  /\ UNCHANGED <<call, stored, members, began, leases, answers, spent>>

\* Mutant of Abandoned: the sweep looks for one attempt more than a job gets.
AbandonedLater(j) ==
  job[j].status = "processing" /\ ~job[j].live /\ job[j].attempts > MaxAttempts

\* processing AND lease_until < now() AND attempts >= 3
Abandoned(j) ==
  job[j].status = "processing" /\ ~job[j].live /\ job[j].attempts >= MaxAttempts

\* Each round of the worker first fails the jobs given up; the lease id stays.
Sweep(w) ==
  /\ ~Working(w)
  /\ \E j \in Rows : Abandoned(j)
  /\ job' = [j \in Job |-> IF Abandoned(j) THEN [job[j] EXCEPT !.status = "failed", !.settled = TRUE]
                           ELSE job[j]]
  /\ UNCHANGED <<call, worker, stored, members, began, leases, answers, spent>>

-----------------------------------------------------------------------------
(***************************************************************************)
(* The environment.                                                        *)
(***************************************************************************)
Crash(w) ==
  /\ Working(w)
  /\ spent.crashes < MaxCrashes /\ MoreTrouble
  /\ spent' = [spent EXCEPT !.crashes = @ + 1]
  /\ worker' = [worker EXCEPT ![w] = NoWork]
  /\ UNCHANGED <<job, call, stored, members, began, leases, answers>>

\* The 30 seconds before the next attempt pass.
Wait(j) ==
  /\ job[j].status = "pending" /\ ~job[j].due
  /\ job' = [job EXCEPT ![j].due = TRUE]
  /\ UNCHANGED <<call, worker, stored, members, began, leases, answers, spent>>

\* The six minutes of a lease pass: its worker is gone, or it is too slow.
Lapse(j) ==
  /\ job[j].status = "processing" /\ job[j].live
  /\ IF \E w \in Workers : Working(w) /\ worker[w].lease = job[j].lease
     THEN spent.stalls < MaxStalls /\ MoreTrouble /\ spent' = [spent EXCEPT !.stalls = @ + 1]
     ELSE UNCHANGED spent
  /\ job' = [job EXCEPT ![j].live = FALSE]
  /\ UNCHANGED <<call, worker, stored, members, began, leases, answers>>

Revoke(a) ==
  /\ a \in members
  /\ members' = members \ {a}
  /\ UNCHANGED <<job, call, worker, stored, began, leases, answers, spent>>

-----------------------------------------------------------------------------
CallStep(c) == Lock(c) \/ Count(c) \/ Insert(c)

WorkerStep(w) ==
  \/ Claim(w) \/ CheckMembership(w) \/ Ingest(w) \/ IngestFails(w)
  \/ Complete(w) \/ Fail(w) \/ Sweep(w)

Next ==
  \/ \E c \in Calls : CallStep(c) \/ Abandon(c)
  \/ \E c \in Calls, a \in Actors, r \in RequestIds, t \in Texts : Submit(c, a, r, t)
  \/ \E w \in Workers : WorkerStep(w) \/ Crash(w)
  \/ \E j \in Job : Retry(j) \/ Cancel(j) \/ Wait(j) \/ Lapse(j)
  \/ \E a \in Actors : Revoke(a)

Spec == Init /\ [][Next]_vars

\* Workers are restarted and loop for ever, and time passes.
FairSpec ==
  /\ Spec
  /\ \A w \in Workers : WF_vars(WorkerStep(w))
  /\ \A j \in Job : WF_vars(Wait(j)) /\ WF_vars(Lapse(j))

-----------------------------------------------------------------------------
(***************************************************************************)
(* Properties.                                                             *)
(***************************************************************************)

\* However many submissions of an actor race, no more than the limit are
\* admitted at once: counting and inserting are one step (submit).
AdmissionBounded ==
  \A a \in Actors : Cardinality({j \in Rows : job[j].actor = a /\ ~job[j].settled}) <= Limit

\* A retried submission gets its own job again: every answer under one
\* request id and text is one job, and two texts never share a request id.
SubmissionsAgree ==
  \A x, y \in answers :
    x[1] = y[1] /\ x[2] = y[2] /\ x[4] # 0 /\ y[4] # 0 => x[3] = y[3] /\ x[4] = y[4]

\* A job reported as completed has its document, whatever crashed, lapsed or
\* was processed twice on the way.
CompletedHasDocument == \A j \in Rows : job[j].status = "completed" => job[j].text \in stored

\* A worker whose job was taken over by another cannot undo the other's
\* success: a completed job is reopened only by the worker that completed it,
\* after it lost the answer to its own update.
TakeoverFenced ==
  [][\A j \in Job : job[j].status = "completed" /\ job'[j].status # "completed" =>
       \E w \in Workers : worker[w].step = "unanswered" /\ worker[w].job = j
                          /\ worker[w].lease = job[j].lease]_vars

\* A worker that still has the lease of a job that is not being processed.
ComesLate(w) == Working(w) /\ Owns(w) /\ job[worker[w].job].status # "processing"

Lifecycle == INSTANCE JobLifecycle WITH
  Job <- Job,
  status <- [j \in Job |-> job[j].status],
  late <- {worker[w].job : w \in {v \in Workers : ComesLate(v)}}

\* Through lapsed leases, crashes, lost answers and the sweep, a job goes only
\* through the statuses that module JobLifecycle allows: one that is running is
\* never cancelled, and one that was cancelled or given up is at most settled
\* once more by the last worker it had, never queued again.
LifecycleKept == Lifecycle!Spec

\* Every submitted job is finished at last, past crashes, lapsed leases and
\* failed attempts (the claim, the retry delay and the sweep).
EventuallySettled ==
  \A j \in Job : job[j].status \in Unfinished ~> job[j].status \notin Unfinished
=============================================================================
