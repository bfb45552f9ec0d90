------------------------------ MODULE Synthesis ------------------------------
(***************************************************************************)
(* Checkpointed synthesis of a discussion (proxy/buzz_synthesis.py), run   *)
(* by the command worker (proxy/buzz_chat.py, cycle).                      *)
(*                                                                         *)
(* A synthesize command admits one job per command event within the budget *)
(* of its channel.  Each execution checks the evidence against the job's   *)
(* snapshot, infers one more part, saves it and yields; after the last     *)
(* part it ingests the draft and marks the job published.  A failed        *)
(* execution is charged to the command, and the last one fails the job.    *)
(*                                                                         *)
(* A part is named by the inference of its command that wrote it: two      *)
(* inferences of one batch differ.  Evidence is one version number that    *)
(* only grows.                                                             *)
(***************************************************************************)
EXTENDS Naturals, Sequences, FiniteSets

CONSTANTS
  Jobs,          \* synthesize commands of one channel, by event id
  Workers,       \* running copies of the chat worker
  NoWorker,      \* nobody holds the advisory lock
  Batches,       \* batches of a discussion
  Budget,        \* outstanding jobs of the channel (3)
  MaxAttempts,   \* attempts of a command (3)
  MaxInferences, \* bound: inferences made for a command
  MaxEdits,      \* bound: changes of the evidence and deletions of commands together
  MaxCrashes,    \* bound: worker crashes
  MaxFaults,     \* bound: failed executions
  MaxLockLosses, \* bound: losses of the connection that holds the lock
  MaxTroubles    \* bound: edits, crashes and faults together, and none with a loss

ASSUME NoWorkerAssumption == NoWorker \notin Workers
ASSUME BoundsAssumption ==
  /\ Batches \in Nat \ {0} /\ Budget \in Nat \ {0} /\ MaxAttempts \in Nat \ {0}
  /\ MaxInferences \in Nat /\ MaxEdits \in Nat /\ MaxCrashes \in Nat
  /\ MaxFaults \in Nat /\ MaxLockLosses \in Nat /\ MaxTroubles \in Nat

Outstanding == {"running", "ready"}
Closed == {"cancelled", "stale", "failed"}
Version == Nat
Parts == Seq(1..MaxInferences)

VARIABLES
  job,         \* [Jobs -> row of gcor.buzz_synthesis_jobs]
  command,     \* [Jobs -> row of gcor.buzz_knowledge_commands]
  lock,        \* the worker that holds the advisory lock
  work,        \* [Workers -> the job in hand and the parts it holds]
  evidence,    \* version of the discussion messages
  inferences,  \* [Jobs -> inferences made for the command]
  proposals,   \* <<job, parts>> of the documents ingested
  spent        \* crashes, faults and lock losses so far, and the jobs whose last
               \* charge a crash followed before their release

vars == <<job, command, lock, work, evidence, inferences, proposals, spent>>

NoJob == [status |-> "none", snapshot |-> 0, parts |-> <<>>]
JobRow == [status : Outstanding \cup Closed \cup {"none", "published"},
           snapshot : Version, parts : Parts]
CommandRow == [attempts : Nat, answered : BOOLEAN, deleted : BOOLEAN, due : BOOLEAN]
NoWork == [step |-> "idle"]
Work == [step : {"taken", "locking", "counting", "inserting", "loaded", "inferring", "inferred",
                 "complete", "ingested", "refused", "answered", "failed", "denied", "exhausted", "expelled",
                 "ending"},
         job : Jobs, attempts : Nat, snapshot : Version, parts : Parts]

\* Every variable stays in its declared set.
TypeOK ==
  /\ job \in [Jobs -> JobRow]
  /\ command \in [Jobs -> CommandRow]
  /\ lock \in Workers \cup {NoWorker}
  /\ work \in [Workers -> Work \cup {NoWork}]
  /\ evidence \in Version
  /\ inferences \in [Jobs -> 0..MaxInferences]
  /\ proposals \subseteq Jobs \X Parts
  /\ spent \in [crashes : 0..MaxCrashes, faults : 0..MaxFaults, losses : 0..MaxLockLosses,
                stranded : SUBSET Jobs]

Init ==
  /\ job = [j \in Jobs |-> NoJob]
  /\ command = [j \in Jobs |-> [attempts |-> 0, answered |-> FALSE, deleted |-> FALSE, due |-> TRUE]]
  /\ lock = NoWorker
  /\ work = [w \in Workers |-> NoWork]
  /\ evidence = 0
  /\ inferences = [j \in Jobs |-> 0]
  /\ proposals = {}
  /\ spent = [crashes |-> 0, faults |-> 0, losses |-> 0, stranded |-> {}]

Working(w) == work[w].step # "idle"
Mine(w) == work[w].job
Step(w, step) == work' = [work EXCEPT ![w].step = step]
Deleted == {j \in Jobs : command[j].deleted}
Edits == evidence + Cardinality(Deleted)
Troubles == Edits + spent.crashes + spent.faults
MoreTrouble == spent.losses = 0 /\ Troubles < MaxTroubles
Rest(w) ==
  /\ work' = [work EXCEPT ![w] = NoWork]
  /\ lock' = IF lock = w THEN NoWorker ELSE lock

-----------------------------------------------------------------------------
(***************************************************************************)
(* Taking the command and admitting its job.                               *)
(***************************************************************************)
Exhausted(j) == command[j].attempts >= MaxAttempts

Take(w, j) ==
  /\ ~Working(w)
  /\ lock = NoWorker
  /\ command[j].due /\ ~command[j].answered /\ ~command[j].deleted /\ ~Exhausted(j)
  /\ lock' = w
  /\ work' = [work EXCEPT ![w] = [step |-> "taken", job |-> j, attempts |-> command[j].attempts,
                                  snapshot |-> 0, parts |-> <<>>]]
  /\ UNCHANGED <<job, command, evidence, inferences, proposals, spent>>

\* Mutant of Refused: a cancelled job is picked up again.
RefusedStale(j) == job[j].status \in {"stale", "failed"}

Refused(j) == job[j].status \in Closed

\* A new job takes its snapshot of the evidence; a stored one is loaded,
\* unless it is cancelled, stale or failed.
Start(w) ==
  LET j == Mine(w) IN
  /\ work[w].step = "taken"
  /\ \/ /\ job[j].status = "none"
        /\ work' = [work EXCEPT ![w].step = "locking", ![w].snapshot = evidence]
     \/ Refused(j) /\ Step(w, "refused")
     \/ /\ job[j].status # "none" /\ ~Refused(j)
        /\ work' = [work EXCEPT ![w].step = "loaded", ![w].parts = job[j].parts]
  /\ UNCHANGED <<job, command, lock, evidence, inferences, proposals, spent>>

\* Mutant of ChannelFree: the channel lock is not taken.
ChannelAlwaysFree(w) == TRUE

\* pg_advisory_xact_lock(channel), held while jobs are counted and inserted.
ChannelFree(w) == \A v \in Workers \ {w} : work[v].step \notin {"counting", "inserting"}

LockChannel(w) ==
  /\ work[w].step = "locking"
  /\ ChannelFree(w)
  /\ Step(w, "counting")
  /\ UNCHANGED <<job, command, lock, evidence, inferences, proposals, spent>>

OutstandingJobs == {j \in Jobs : job[j].status \in Outstanding}

Count(w) ==
  /\ work[w].step = "counting"
  /\ Step(w, IF Cardinality(OutstandingJobs) >= Budget THEN "refused" ELSE "inserting")
  /\ UNCHANGED <<job, command, lock, evidence, inferences, proposals, spent>>

\* INSERT ... ON CONFLICT DO NOTHING, COMMIT and read the job.
Insert(w) ==
  LET j == Mine(w) IN
  /\ work[w].step = "inserting"
  /\ job' = IF job[j].status = "none"
            THEN [job EXCEPT ![j] = [status |-> "running", snapshot |-> work[w].snapshot, parts |-> <<>>]]
            ELSE job
  /\ work' = [work EXCEPT ![w].step = IF job'[j].status \in Closed THEN "refused" ELSE "loaded",
                          ![w].parts = job'[j].parts]
  /\ UNCHANGED <<command, lock, evidence, inferences, proposals, spent>>

-----------------------------------------------------------------------------
(***************************************************************************)
(* One batch.                                                              *)
(***************************************************************************)
\* The evidence is no longer what the job's snapshot holds.
Changed(j) == evidence # job[j].snapshot

MakeStale(w) ==
  /\ job' = [job EXCEPT ![Mine(w)].status = "stale"]
  /\ Step(w, "refused")

Recheck(w) ==
  /\ work[w].step = "loaded"
  /\ \/ Changed(Mine(w)) /\ MakeStale(w)
     \/ /\ ~Changed(Mine(w))
        /\ Step(w, IF Len(work[w].parts) < Batches THEN "inferring" ELSE "complete")
        /\ UNCHANGED job
  /\ UNCHANGED <<command, lock, evidence, inferences, proposals, spent>>

Infer(w) ==
  /\ work[w].step = "inferring"
  /\ inferences[Mine(w)] < MaxInferences
  /\ inferences' = [inferences EXCEPT ![Mine(w)] = @ + 1]
  /\ work' = [work EXCEPT ![w].step = "inferred", ![w].parts = Append(@, inferences[Mine(w)] + 1)]
  /\ UNCHANGED <<job, command, lock, evidence, proposals, spent>>

\* The answer exceeds the batch budget (422).
RejectOutput(w) ==
  /\ work[w].step = "inferring"
  /\ spent.faults < MaxFaults /\ MoreTrouble
  /\ spent' = [spent EXCEPT !.faults = @ + 1]
  /\ Step(w, "refused")
  /\ UNCHANGED <<job, command, lock, evidence, inferences, proposals>>

\* Mutant of Checkpoint: the last part is used and not saved.
CheckpointButLast(w) ==
  IF job[Mine(w)].status = "running" /\ Len(work[w].parts) < Batches
  THEN [job EXCEPT ![Mine(w)].parts = work[w].parts]
  ELSE job

\* UPDATE ... SET parts, status WHERE event_id AND status = 'running'
Checkpoint(w) ==
  IF job[Mine(w)].status = "running"
  THEN [job EXCEPT ![Mine(w)].parts = work[w].parts,
                   ![Mine(w)].status = IF Len(work[w].parts) = Batches THEN "ready" ELSE "running"]
  ELSE job

\* The evidence is checked again, the part is saved, and the worker yields
\* without charging an attempt, or goes on to publish.
Save(w) ==
  /\ work[w].step = "inferred"
  /\ \/ Changed(Mine(w)) /\ MakeStale(w) /\ UNCHANGED <<command, lock>>
     \/ /\ ~Changed(Mine(w))
        /\ job' = Checkpoint(w)
        /\ IF Len(work[w].parts) < Batches
           THEN Rest(w) /\ command' = [command EXCEPT ![Mine(w)].due = FALSE]
           ELSE Step(w, "complete") /\ UNCHANGED <<command, lock>>
  /\ UNCHANGED <<evidence, inferences, proposals, spent>>

\* ingest_payload: the same text is the same document; or the content is
\* refused or quarantined (an HTTPException), and there is no proposal.
Ingest(w) ==
  /\ work[w].step = "complete"
  /\ \/ Step(w, "ingested") /\ proposals' = proposals \cup {<<Mine(w), work[w].parts>>}
     \/ Step(w, "refused") /\ UNCHANGED proposals
  /\ UNCHANGED <<job, command, lock, evidence, inferences, spent>>

\* UPDATE ... SET status = 'published' WHERE event_id
Publish(w) ==
  /\ work[w].step = "ingested"
  /\ job' = [job EXCEPT ![Mine(w)].status = "published"]
  /\ Step(w, "answered")
  /\ UNCHANGED <<command, lock, evidence, inferences, proposals, spent>>

-----------------------------------------------------------------------------
(***************************************************************************)
(* Answers and failures.                                                   *)
(***************************************************************************)
\* fail_job: what is still running or ready becomes failed.
Released(j) == IF job[j].status \in Outstanding THEN [job EXCEPT ![j].status = "failed"] ELSE job

\* An HTTPException releases the job, then becomes the reply.
Refuse(w) ==
  /\ work[w].step = "refused"
  /\ job' = Released(Mine(w))
  /\ Step(w, "answered")
  /\ UNCHANGED <<command, lock, evidence, inferences, proposals, spent>>

\* The reply is stored, and from here on ChatCommands delivers it; or the
\* command of a requester who left is marked as delivered.
Respond(w) ==
  /\ work[w].step \in {"answered", "ending"}
  /\ command' = [command EXCEPT ![Mine(w)].answered = TRUE]
  /\ Rest(w)
  /\ UNCHANGED <<job, evidence, inferences, proposals, spent>>

\* The execution runs out of time, a statement or service fails, or the
\* requester is found to have left the channel.  A failure of what follows ends
\* the cycle, as a crash does.
Fault(w) ==
  /\ Working(w) /\ work[w].step \notin {"failed", "denied", "exhausted", "expelled", "ending"}
  /\ spent.faults < MaxFaults /\ MoreTrouble
  /\ spent' = [spent EXCEPT !.faults = @ + 1]
  /\ \/ Step(w, "failed")
     \/ work[w].step \in {"taken", "inferred", "complete"} /\ Step(w, "denied")
  /\ UNCHANGED <<job, command, lock, evidence, inferences, proposals>>

\* Mutant of LastAttempt: the attempt that uses the budget up is not known as
\* the last.
LastAttemptMissed(w) == work[w].attempts >= MaxAttempts

LastAttempt(w) == work[w].attempts >= MaxAttempts - 1

\* attempts + 1 and a delay; the last attempt goes on to fail the job, and one
\* for a requester who left to fail it and to end the command.
Charge(w) ==
  /\ work[w].step \in {"failed", "denied"}
  /\ command' = [command EXCEPT ![Mine(w)].due = FALSE, ![Mine(w)].attempts = @ + 1]
  /\ \/ work[w].step = "failed" /\ LastAttempt(w) /\ Step(w, "exhausted") /\ UNCHANGED lock
     \/ work[w].step = "failed" /\ ~LastAttempt(w) /\ Rest(w)
     \/ work[w].step = "denied" /\ Step(w, "expelled") /\ UNCHANGED lock
  /\ UNCHANGED <<job, evidence, inferences, proposals, spent>>

FailJob(w) ==
  /\ work[w].step \in {"exhausted", "expelled"}
  /\ job' = Released(Mine(w))
  /\ IF work[w].step = "exhausted" THEN Rest(w) ELSE Step(w, "ending") /\ UNCHANGED lock
  /\ UNCHANGED <<command, evidence, inferences, proposals, spent>>

-----------------------------------------------------------------------------
(***************************************************************************)
(* Other commands and the environment.                                     *)
(***************************************************************************)
\* !knowledge cancel, executed by a worker in a cycle of its own.
Cancel(w, j) ==
  /\ ~Working(w)
  /\ lock = NoWorker
  /\ job[j].status \in Outstanding
  /\ job' = [job EXCEPT ![j].status = "cancelled"]
  /\ UNCHANGED <<command, lock, work, evidence, inferences, proposals, spent>>

\* The command of w is charged for the last time and its job not yet released.
Unreleased(w) == work[w].step \in {"exhausted", "expelled"} /\ Exhausted(Mine(w))

Crash(w) ==
  /\ Working(w)
  /\ spent.crashes < MaxCrashes /\ MoreTrouble
  /\ spent' = [spent EXCEPT !.crashes = @ + 1,
                            !.stranded = IF Unreleased(w) THEN @ \cup {Mine(w)} ELSE @]
  /\ Rest(w)
  /\ UNCHANGED <<job, command, evidence, inferences, proposals>>

LoseLock(w) ==
  /\ lock = w
  /\ spent.losses < MaxLockLosses /\ Troubles = 0
  /\ spent' = [spent EXCEPT !.losses = @ + 1]
  /\ lock' = NoWorker
  /\ UNCHANGED <<job, command, work, evidence, inferences, proposals>>

Wait(j) ==
  /\ ~command[j].due
  /\ command' = [command EXCEPT ![j].due = TRUE]
  /\ UNCHANGED <<job, lock, work, evidence, inferences, proposals, spent>>

\* A supporting message is edited or deleted.
Edit ==
  /\ Edits < MaxEdits /\ MoreTrouble
  /\ evidence' = evidence + 1
  /\ UNCHANGED <<job, command, lock, work, inferences, proposals, spent>>

\* The synthesize message itself is deleted: it is never selected again.
Delete(j) ==
  /\ ~command[j].deleted
  /\ Edits < MaxEdits /\ MoreTrouble
  /\ command' = [command EXCEPT ![j].deleted = TRUE]
  /\ UNCHANGED <<job, lock, work, evidence, inferences, proposals, spent>>

-----------------------------------------------------------------------------
Advance(w) ==
  \/ Start(w) \/ LockChannel(w) \/ Count(w) \/ Insert(w)
  \/ Recheck(w) \/ Infer(w) \/ RejectOutput(w) \/ Save(w) \/ Ingest(w) \/ Publish(w)
  \/ Refuse(w) \/ Respond(w) \/ Charge(w) \/ FailJob(w)

Next ==
  \/ \E w \in Workers : Advance(w) \/ Fault(w) \/ Crash(w) \/ LoseLock(w)
  \/ \E w \in Workers, j \in Jobs : Take(w, j) \/ Cancel(w, j)
  \/ \E j \in Jobs : Wait(j) \/ Delete(j)
  \/ Edit

Spec == Init /\ [][Next]_vars

\* As in ChatCommands: the worker is restarted, loops for ever and passes no
\* command over, and delays end.
FairSpec ==
  /\ Spec
  /\ \A w \in Workers : WF_vars(Advance(w))
  /\ \A j \in Jobs : /\ WF_vars(Wait(j))
                     /\ SF_vars(\E w \in Workers : Take(w, j))

-----------------------------------------------------------------------------
(***************************************************************************)
(* Properties.                                                             *)
(***************************************************************************)

\* The channel never has more outstanding jobs than its budget, even when
\* two workers run after the lock was lost (the channel lock of synthesize).
BudgetBounded == Cardinality(OutstandingJobs) <= Budget

\* The lock was never lost, so the executions were serialized.
Serialized == spent.losses = 0

\* Restarts may repeat an inference, but a command of serialized workers never
\* leaves two proposals: what was ingested is what was checkpointed.
OneProposal == Serialized => \A x, y \in proposals : x[1] = y[1] => x = y

ProposalsOf(j) == {x \in proposals : x[1] = j}

\* Of serialized workers, a job that was cancelled, went stale or failed
\* ingests nothing any more.
ClosedPublishesNothing ==
  [][Serialized => \A j \in Jobs : job[j].status \in Closed => ProposalsOf(j)' = ProposalsOf(j)]_vars

\* Of serialized workers, every outstanding job is settled at last, the one
\* whose attempts are used up included, unless its command message was deleted,
\* or a crash fell between the last charge and the release.
EventuallySettled ==
  \A j \in Jobs : job[j].status \in Outstanding ~>
    job[j].status \notin Outstanding \/ command[j].deleted \/ j \in spent.stranded \/ ~Serialized
=============================================================================
