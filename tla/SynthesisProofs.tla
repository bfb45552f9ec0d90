---------------------------- MODULE SynthesisProofs ---------------------------
(***************************************************************************)
(* Proofs about checkpointed synthesis.                                    *)
(*                                                                         *)
(* The budget holds whatever happens to the advisory lock, because the     *)
(* channel lock is held from the count to the insert.  While the advisory  *)
(* lock was never lost only its holder works, so the parts it has in hand  *)
(* are those of the job's row, or one more; a job that has all its parts   *)
(* is written no more, and what was ingested is what it holds.             *)
(***************************************************************************)
EXTENDS Synthesis, FiniteSetTheorems, TLAPS

\* A worker at work has a job in hand.
LEMMA InHand ==
  ASSUME TypeOK, NEW w \in Workers, Working(w)
  PROVE  work[w] \in Work /\ Mine(w) \in Jobs
  <1>1. work[w] \in Work \cup {NoWork}
    BY DEF TypeOK
  <1> QED
    BY <1>1 DEF NoWork, Work, Working, Mine

LEMMA InitTyped == Init => TypeOK
  <1> SUFFICES ASSUME Init PROVE TypeOK
    OBVIOUS
  <1> USE BoundsAssumption DEF Init
  <1>1. spent \in [crashes : 0..MaxCrashes, faults : 0..MaxFaults, losses : 0..MaxLockLosses,
                   stranded : SUBSET Jobs]
    OBVIOUS
  <1>2. NoJob \in JobRow
    BY DEF NoJob, JobRow, Version, Parts
  <1>3. job \in [Jobs -> JobRow]
    BY <1>2
  <1>4. command \in [Jobs -> CommandRow]
    BY DEF CommandRow
  <1>5. evidence \in Version /\ inferences \in [Jobs -> 0..MaxInferences]
    BY DEF Version
  <1> QED
    BY <1>1, <1>3, <1>4, <1>5 DEF TypeOK

Steps == {"taken", "locking", "counting", "inserting", "loaded", "inferring", "inferred",
          "complete", "ingested", "refused", "answered", "failed", "denied", "exhausted", "expelled",
          "ending"}

\* Only the step, the snapshot and the parts of the record in hand change.
LEMMA StepKept ==
  ASSUME TypeOK, NEW w \in Workers, Working(w)
  PROVE  /\ \A step \in Steps : [work EXCEPT ![w].step = step] \in [Workers -> Work \cup {NoWork}]
         /\ \A step \in Steps, v \in Version :
              [work EXCEPT ![w].step = step, ![w].snapshot = v] \in [Workers -> Work \cup {NoWork}]
         /\ \A step \in Steps, p \in Parts :
              [work EXCEPT ![w].step = step, ![w].parts = p] \in [Workers -> Work \cup {NoWork}]
  <1>1. work[w] \in Work
    BY InHand
  <1>2. ASSUME NEW step \in Steps, NEW v \in Version, NEW p \in Parts
        PROVE  /\ [work[w] EXCEPT !.step = step] \in Work
               /\ [work[w] EXCEPT !.step = step, !.snapshot = v] \in Work
               /\ [work[w] EXCEPT !.step = step, !.parts = p] \in Work
    BY <1>1 DEF Work, Steps
  <1>3. work[w].parts \in Parts /\ work[w].snapshot \in Version
    BY <1>1 DEF Work
  <1>4. ASSUME NEW step \in Steps PROVE [work EXCEPT ![w].step = step] \in [Workers -> Work \cup {NoWork}]
    BY <1>2, <1>3 DEF TypeOK
  <1>5. ASSUME NEW step \in Steps, NEW v \in Version
        PROVE  [work EXCEPT ![w].step = step, ![w].snapshot = v] \in [Workers -> Work \cup {NoWork}]
    <2>1. [work[w] EXCEPT !.step = step, !.snapshot = v] \in Work
      BY <1>2, <1>3
    <2> QED
      BY <2>1 DEF TypeOK
  <1>6. ASSUME NEW step \in Steps, NEW p \in Parts
        PROVE  [work EXCEPT ![w].step = step, ![w].parts = p] \in [Workers -> Work \cup {NoWork}]
    <2>1. [work[w] EXCEPT !.step = step, !.parts = p] \in Work
      BY <1>2, <1>3
    <2> QED
      BY <2>1 DEF TypeOK
  <1> QED
    BY <1>4, <1>5, <1>6

LEMMA StepTypedWork ==
  ASSUME TypeOK, NEW w \in Workers, Working(w), NEW step \in Steps, Step(w, step)
  PROVE  work' \in [Workers -> Work \cup {NoWork}]
  BY StepKept DEF Step

LEMMA RestTyped ==
  ASSUME TypeOK, NEW w \in Workers, Rest(w)
  PROVE  work' \in [Workers -> Work \cup {NoWork}] /\ lock' \in Workers \cup {NoWorker}
  BY DEF TypeOK, Rest

\* What the actions make of a job's row is a row again.
LEMMA JobKept ==
  ASSUME TypeOK, NEW j \in Jobs
  PROVE  /\ \A status \in {"stale", "published", "failed", "cancelled"} :
              [job EXCEPT ![j].status = status] \in [Jobs -> JobRow]
         /\ \A status \in {"running", "ready"}, p \in Parts :
              [job EXCEPT ![j].parts = p, ![j].status = status] \in [Jobs -> JobRow]
         /\ Released(j) \in [Jobs -> JobRow]
  <1>1. job[j] \in JobRow
    BY DEF TypeOK
  <1>2. ASSUME NEW status \in {"stale", "published", "failed", "cancelled"}
        PROVE  [job EXCEPT ![j].status = status] \in [Jobs -> JobRow]
    <2>1. [job[j] EXCEPT !.status = status] \in JobRow
      BY <1>1 DEF JobRow, Closed
    <2> QED
      BY <2>1 DEF TypeOK
  <1>3. ASSUME NEW status \in {"running", "ready"}, NEW p \in Parts
        PROVE  [job EXCEPT ![j].parts = p, ![j].status = status] \in [Jobs -> JobRow]
    <2>1. [job[j] EXCEPT !.parts = p, !.status = status] \in JobRow
      BY <1>1 DEF JobRow, Outstanding
    <2> QED
      BY <2>1 DEF TypeOK
  <1>4. Released(j) \in [Jobs -> JobRow]
    BY <1>2 DEF TypeOK, Released
  <1> QED
    BY <1>2, <1>3, <1>4

LEMMA CommandKept ==
  ASSUME TypeOK, NEW j \in Jobs
  PROVE  /\ \A b \in BOOLEAN : [command EXCEPT ![j].due = b] \in [Jobs -> CommandRow]
         /\ [command EXCEPT ![j].answered = TRUE] \in [Jobs -> CommandRow]
         /\ [command EXCEPT ![j].deleted = TRUE] \in [Jobs -> CommandRow]
         /\ [command EXCEPT ![j].due = FALSE, ![j].attempts = @ + 1] \in [Jobs -> CommandRow]
  <1>1. command[j] \in CommandRow
    BY DEF TypeOK
  <1>2. command[j].attempts + 1 \in Nat
    BY <1>1 DEF CommandRow
  <1>3. ASSUME NEW b \in BOOLEAN PROVE [command[j] EXCEPT !.due = b] \in CommandRow
    BY <1>1 DEF CommandRow
  <1>4. /\ [command[j] EXCEPT !.answered = TRUE] \in CommandRow
        /\ [command[j] EXCEPT !.deleted = TRUE] \in CommandRow
        /\ [command[j] EXCEPT !.due = FALSE, !.attempts = @ + 1] \in CommandRow
    BY <1>1, <1>2 DEF CommandRow
  <1> QED
    BY <1>3, <1>4 DEF TypeOK

Spending == [crashes : 0..MaxCrashes, faults : 0..MaxFaults, losses : 0..MaxLockLosses, stranded : SUBSET Jobs]

LEMMA SpendingKept ==
  ASSUME TypeOK
  PROVE  /\ spent.faults < MaxFaults => [spent EXCEPT !.faults = @ + 1] \in Spending
         /\ spent.losses < MaxLockLosses => [spent EXCEPT !.losses = @ + 1] \in Spending
  <1> USE BoundsAssumption
  <1>1. spent \in Spending
    BY DEF TypeOK, Spending
  <1> QED
    BY <1>1 DEF Spending

\* The advisory lock, the admission and the batches.
LEMMA AdvanceTyped ==
  ASSUME TypeOK, NEW w \in Workers, Advance(w)
  PROVE  TypeOK'
  <1> USE BoundsAssumption DEF Steps
  <1>1. Working(w) /\ work[w] \in Work /\ Mine(w) \in Jobs /\ work[w].parts \in Parts /\ work[w].snapshot \in Version
    <2>1. Working(w)
      BY DEF Advance, Start, LockChannel, Count, Insert, Recheck, Infer, RejectOutput, Save, Ingest, Publish,
         Refuse, Respond, Charge, FailJob, Working
    <2> QED
      BY <2>1, InHand DEF Work
  <1>2. job[Mine(w)] \in JobRow /\ job[Mine(w)].parts \in Parts
    BY <1>1 DEF TypeOK, JobRow
  <1>3. ASSUME Start(w) PROVE TypeOK'
    <2>1. evidence \in Version
      BY DEF TypeOK
    <2>2. CASE work' = [work EXCEPT ![w].step = "locking", ![w].snapshot = evidence]
      BY <1>1, <1>3, <2>1, <2>2, StepKept DEF TypeOK, Start
    <2>3. CASE Step(w, "refused")
      BY <1>1, <1>3, <2>3, StepTypedWork DEF TypeOK, Start
    <2>4. CASE work' = [work EXCEPT ![w].step = "loaded", ![w].parts = job[Mine(w)].parts]
      <3>1. work' \in [Workers -> Work \cup {NoWork}]
        BY <1>1, <1>2, <2>4, StepKept
      <3> QED
        BY <1>3, <3>1 DEF TypeOK, Start
    <2> QED
      BY <1>3, <2>2, <2>3, <2>4 DEF Start
  <1>4. ASSUME LockChannel(w) \/ Count(w) PROVE TypeOK'
    <2>1. work' \in [Workers -> Work \cup {NoWork}]
      BY <1>1, <1>4, StepTypedWork DEF LockChannel, Count
    <2> QED
      BY <1>4, <2>1 DEF TypeOK, LockChannel, Count
  <1>5. ASSUME Insert(w) PROVE TypeOK'
    <2>1. [status |-> "running", snapshot |-> work[w].snapshot, parts |-> <<>>] \in JobRow
      BY <1>1 DEF JobRow, Outstanding, Parts
    <2>2. job' \in [Jobs -> JobRow]
      BY <1>5, <2>1 DEF TypeOK, Insert
    <2>3. job'[Mine(w)].parts \in Parts
      BY <1>1, <2>2 DEF JobRow
    <2>4. work' \in [Workers -> Work \cup {NoWork}]
      <3> DEFINE step == IF job'[Mine(w)].status \in Closed THEN "refused" ELSE "loaded"
      <3>1. step \in Steps
        OBVIOUS
      <3>2. work' = [work EXCEPT ![w].step = step, ![w].parts = job'[Mine(w)].parts]
        BY <1>5 DEF Insert
      <3> QED
        BY <1>1, <2>3, <3>1, <3>2, StepKept
    <2> QED
      BY <1>5, <2>2, <2>4 DEF TypeOK, Insert
  <1>6. ASSUME MakeStale(w) PROVE job' \in [Jobs -> JobRow] /\ work' \in [Workers -> Work \cup {NoWork}]
    BY <1>1, <1>6, JobKept, StepTypedWork DEF MakeStale
  <1>7. ASSUME Recheck(w) PROVE TypeOK'
    <2>1. job' \in [Jobs -> JobRow] /\ work' \in [Workers -> Work \cup {NoWork}]
      BY <1>1, <1>6, <1>7, StepTypedWork DEF TypeOK, Recheck
    <2> QED
      BY <1>7, <2>1 DEF TypeOK, Recheck
  <1>8. ASSUME Infer(w) PROVE TypeOK'
    <2>1. inferences[Mine(w)] + 1 \in 1..MaxInferences
      BY <1>1, <1>8 DEF TypeOK, Infer
    <2>2. Append(work[w].parts, inferences[Mine(w)] + 1) \in Parts
      BY <1>1, <2>1 DEF Parts
    <2>3. work' \in [Workers -> Work \cup {NoWork}]
      BY <1>1, <1>8, <2>2, StepKept DEF Infer
    <2>4. inferences' \in [Jobs -> 0..MaxInferences]
      BY <1>1, <1>8, <2>1 DEF TypeOK, Infer
    <2> QED
      BY <1>8, <2>3, <2>4 DEF TypeOK, Infer
  <1>9. ASSUME RejectOutput(w) PROVE TypeOK'
    <2>1. spent' \in Spending
      BY <1>9, SpendingKept DEF RejectOutput
    <2>2. work' \in [Workers -> Work \cup {NoWork}]
      BY <1>1, <1>9, StepTypedWork DEF RejectOutput
    <2> QED
      BY <1>9, <2>1, <2>2 DEF TypeOK, RejectOutput, Spending
  <1>10. ASSUME Save(w) PROVE TypeOK'
    <2>1. Checkpoint(w) \in [Jobs -> JobRow]
      BY <1>1, JobKept DEF TypeOK, Checkpoint
    <2>2. job' \in [Jobs -> JobRow]
      BY <1>6, <1>10, <2>1 DEF Save
    <2>3. work' \in [Workers -> Work \cup {NoWork}] /\ lock' \in Workers \cup {NoWorker}
      BY <1>1, <1>6, <1>10, RestTyped, StepTypedWork DEF TypeOK, Save
    <2>4. command' \in [Jobs -> CommandRow]
      <3>1. command' = command \/ command' = [command EXCEPT ![Mine(w)].due = FALSE]
        BY <1>10 DEF Save
      <3>2. [command EXCEPT ![Mine(w)].due = FALSE] \in [Jobs -> CommandRow]
        BY <1>1, CommandKept
      <3> QED
        BY <3>1, <3>2 DEF TypeOK
    <2> QED
      BY <1>10, <2>2, <2>3, <2>4 DEF TypeOK, Save
  <1>11. ASSUME Ingest(w) PROVE TypeOK'
    <2>1. work' \in [Workers -> Work \cup {NoWork}]
      BY <1>1, <1>11, StepTypedWork DEF Ingest
    <2>2. proposals' \subseteq Jobs \X Parts
      BY <1>1, <1>11 DEF TypeOK, Ingest
    <2> QED
      BY <1>11, <2>1, <2>2 DEF TypeOK, Ingest
  <1>12. ASSUME Publish(w) \/ Refuse(w) PROVE TypeOK'
    <2>1. work' \in [Workers -> Work \cup {NoWork}]
      BY <1>1, <1>12, StepTypedWork DEF Publish, Refuse
    <2>2. job' \in [Jobs -> JobRow]
      <3>1. job' = [job EXCEPT ![Mine(w)].status = "published"] \/ job' = Released(Mine(w))
        BY <1>12 DEF Publish, Refuse
      <3>2. [job EXCEPT ![Mine(w)].status = "published"] \in [Jobs -> JobRow]
        BY <1>1, JobKept
      <3>3. Released(Mine(w)) \in [Jobs -> JobRow]
        BY <1>1, JobKept
      <3> QED
        BY <3>1, <3>2, <3>3
    <2> QED
      BY <1>12, <2>1, <2>2 DEF TypeOK, Publish, Refuse
  <1>13. ASSUME Respond(w) PROVE TypeOK'
    BY <1>1, <1>13, CommandKept, RestTyped DEF TypeOK, Respond
  <1>14. ASSUME Charge(w) PROVE TypeOK'
    <2>1. work' \in [Workers -> Work \cup {NoWork}] /\ lock' \in Workers \cup {NoWorker}
      BY <1>1, <1>14, StepTypedWork, RestTyped DEF TypeOK, Charge
    <2>2. command' \in [Jobs -> CommandRow]
      BY <1>1, <1>14, CommandKept DEF Charge
    <2> QED
      BY <1>14, <2>1, <2>2 DEF TypeOK, Charge
  <1>15. ASSUME FailJob(w) PROVE TypeOK'
    <2>1. work' \in [Workers -> Work \cup {NoWork}] /\ lock' \in Workers \cup {NoWorker}
      BY <1>1, <1>15, StepTypedWork, RestTyped DEF TypeOK, FailJob
    <2>2. job' \in [Jobs -> JobRow]
      BY <1>1, <1>15, JobKept DEF FailJob
    <2> QED
      BY <1>15, <2>1, <2>2 DEF TypeOK, FailJob
  <1> QED
    BY <1>3, <1>4, <1>5, <1>7, <1>8, <1>9, <1>10, <1>11, <1>12, <1>13, <1>14, <1>15 DEF Advance

LEMMA StepTyped == TypeOK /\ [Next]_vars => TypeOK'
  <1> SUFFICES ASSUME TypeOK, [Next]_vars PROVE TypeOK'
    OBVIOUS
  <1> USE BoundsAssumption
  <1>1. ASSUME NEW w \in Workers, NEW j \in Jobs, Take(w, j) PROVE TypeOK'
    <2>1. command[j].attempts \in Nat /\ 0 \in Version /\ <<>> \in Parts
      BY DEF TypeOK, CommandRow, Version, Parts
    <2>2. [step |-> "taken", job |-> j, attempts |-> command[j].attempts, snapshot |-> 0, parts |-> <<>>] \in Work
      BY <2>1 DEF Work
    <2>3. work' \in [Workers -> Work \cup {NoWork}]
      BY <1>1, <2>2 DEF TypeOK, Take
    <2> QED
      BY <1>1, <2>3 DEF TypeOK, Take
  <1>2. ASSUME NEW w \in Workers, NEW j \in Jobs, Cancel(w, j) PROVE TypeOK'
    BY <1>2, JobKept DEF TypeOK, Cancel
  <1>3. ASSUME NEW w \in Workers, Fault(w) PROVE TypeOK'
    <2>1. spent' \in Spending
      BY <1>3, SpendingKept DEF Fault
    <2>2. work' \in [Workers -> Work \cup {NoWork}]
      BY <1>3, StepTypedWork DEF Fault, Steps
    <2> QED
      BY <1>3, <2>1, <2>2 DEF TypeOK, Fault, Spending
  <1>4. ASSUME NEW w \in Workers, Crash(w) PROVE TypeOK'
    <2> DEFINE left == IF Unreleased(w) THEN spent.stranded \cup {Mine(w)} ELSE spent.stranded
    <2>1. left \in SUBSET Jobs
      BY <1>4, InHand DEF TypeOK, Crash
    <2>2. spent.crashes < MaxCrashes /\ spent' = [spent EXCEPT !.crashes = @ + 1, !.stranded = left]
      BY <1>4 DEF Crash
    <2> HIDE DEF left
    <2>3. spent \in Spending
      BY DEF TypeOK, Spending
    <2> DEFINE crashed == spent.crashes + 1
    <2>4. crashed \in 0..MaxCrashes /\ spent' = [spent EXCEPT !.crashes = crashed, !.stranded = left]
      BY <2>2, <2>3 DEF Spending
    <2> HIDE DEF crashed
    <2>5. spent' \in Spending
      BY <2>1, <2>3, <2>4 DEF Spending
    <2> QED
      BY <1>4, <2>5, RestTyped DEF TypeOK, Crash, Spending
  <1>5. ASSUME NEW w \in Workers, LoseLock(w) PROVE TypeOK'
    <2>1. spent' \in Spending
      BY <1>5, SpendingKept DEF LoseLock
    <2> QED
      BY <1>5, <2>1 DEF TypeOK, LoseLock, Spending
  <1>6. ASSUME NEW j \in Jobs, Wait(j) \/ Delete(j) PROVE TypeOK'
    <2>1. command' \in [Jobs -> CommandRow]
      <3>1. CASE Wait(j)
        BY <3>1, CommandKept DEF Wait
      <3>2. CASE Delete(j)
        BY <3>2, CommandKept DEF Delete
      <3> QED
        BY <1>6, <3>1, <3>2
    <2>2. UNCHANGED <<job, lock, work, evidence, inferences, proposals, spent>>
      BY <1>6 DEF Wait, Delete
    <2> QED
      BY <2>1, <2>2 DEF TypeOK
  <1>7. ASSUME Edit PROVE TypeOK'
    BY <1>7 DEF TypeOK, Edit, Version
  <1>8. CASE UNCHANGED vars
    BY <1>8 DEF TypeOK, vars
  <1> QED
    BY <1>1, <1>2, <1>3, <1>4, <1>5, <1>6, <1>7, <1>8, AdvanceTyped DEF Next

\* Every variable keeps its type, every bounded counter its bound.
THEOREM TypeCorrect == Spec => []TypeOK
  BY InitTyped, StepTyped, PTL DEF Spec

-----------------------------------------------------------------------------
(***************************************************************************)
(* The budget of the channel.                                              *)
(***************************************************************************)
Admitting(w) == work[w].step \in {"counting", "inserting"}

OneAdmits == \A v, w \in Workers : Admitting(v) /\ Admitting(w) => v = w

\* What was counted still holds when the job is inserted.
Room == \A w \in Workers : work[w].step = "inserting" => Cardinality(OutstandingJobs) < Budget

Budgeted == OneAdmits /\ Room /\ BudgetBounded

\* Nothing but an insert adds an outstanding job.
LEMMA NothingAdded ==
  ASSUME TypeOK, [Next]_vars, \A w \in Workers : ~Insert(w)
  PROVE  OutstandingJobs' \subseteq OutstandingJobs
  <1>1. UNCHANGED job => OutstandingJobs' \subseteq OutstandingJobs
    BY DEF OutstandingJobs
  <1>2. ASSUME NEW j \in Jobs, NEW status \in Closed \cup {"published"}, job' = [job EXCEPT ![j].status = status]
        PROVE  OutstandingJobs' \subseteq OutstandingJobs
    <2>1. job[j] \in JobRow
      BY DEF TypeOK
    <2> QED
      BY <1>2, <2>1 DEF TypeOK, OutstandingJobs, Outstanding, Closed, JobRow
  <1>3. ASSUME NEW w \in Workers, Working(w), MakeStale(w) PROVE OutstandingJobs' \subseteq OutstandingJobs
    BY <1>2, <1>3, InHand DEF MakeStale, Closed
  <1>4. ASSUME NEW w \in Workers, Save(w) PROVE OutstandingJobs' \subseteq OutstandingJobs
    <2>1. Working(w) /\ Mine(w) \in Jobs
      BY <1>4, InHand DEF Save, Working
    <2>2. ASSUME job' = Checkpoint(w) PROVE OutstandingJobs' \subseteq OutstandingJobs
      <3>1. job[Mine(w)] \in JobRow
        BY <2>1 DEF TypeOK
      <3>2. CASE job[Mine(w)].status = "running"
        <4>1. \A j \in Jobs : job'[j].status \in Outstanding => job[j].status \in Outstanding
          BY <2>1, <2>2, <3>2 DEF TypeOK, Checkpoint, Outstanding
        <4> QED
          BY <4>1 DEF OutstandingJobs
      <3> QED
        BY <1>1, <2>2, <3>2 DEF Checkpoint
    <2> QED
      BY <1>3, <1>4, <2>1, <2>2 DEF Save
  <1>5. ASSUME NEW j \in Jobs, job' = Released(j) PROVE OutstandingJobs' \subseteq OutstandingJobs
    BY <1>1, <1>2, <1>5 DEF Released, Closed
  <1>6. ASSUME NEW w \in Workers, Advance(w) PROVE OutstandingJobs' \subseteq OutstandingJobs
    <2>1. CASE Recheck(w)
      BY <1>1, <1>3, <2>1 DEF Recheck, Working
    <2>2. CASE Publish(w)
      <3>1. Mine(w) \in Jobs
        BY <2>2, InHand DEF Publish, Working
      <3> QED
        BY <1>2, <2>2, <3>1 DEF Publish
    <2>3. CASE Refuse(w) \/ FailJob(w)
      <3>1. Mine(w) \in Jobs
        BY <2>3, InHand DEF Refuse, FailJob, Working
      <3> QED
        BY <1>5, <2>3, <3>1 DEF Refuse, FailJob
    <2> QED
      BY <1>1, <1>4, <1>6, <2>1, <2>2, <2>3 DEF Advance, Start, LockChannel, Count, Infer, RejectOutput,
         Ingest, Respond, Charge
  <1>7. ASSUME NEW w \in Workers, NEW j \in Jobs, Cancel(w, j) PROVE OutstandingJobs' \subseteq OutstandingJobs
    BY <1>2, <1>7 DEF Cancel, Closed
  <1> QED
    BY <1>1, <1>6, <1>7 DEF Next, vars, Fault, Crash, LoseLock, Take, Wait, Delete, Edit

\* A step of one worker, and what it may do to its admission.
LEMMA AdmissionSteps ==
  ASSUME TypeOK, [Next]_vars
  PROVE  \A w \in Workers : /\ Admitting(w)' => Admitting(w) \/ (LockChannel(w) /\ \A v \in Workers \ {w} : work'[v] = work[v])
                            /\ work'[w].step = "inserting" => work[w].step = "inserting" \/ Count(w)
  <1>1. ASSUME NEW w \in Workers, NEW v \in Workers, Advance(w) \/ Fault(w) \/ Crash(w) \/ LoseLock(w), v # w
        PROVE  work'[v] = work[v]
    BY <1>1 DEF TypeOK, Advance, Start, LockChannel, Count, Insert, Recheck, MakeStale, Infer, RejectOutput, Save,
       Ingest, Publish, Refuse, Respond, Charge, FailJob, Fault, Crash, LoseLock, Step, Rest
  <1>2. ASSUME NEW w \in Workers, NEW step, Working(w), Step(w, step) PROVE work'[w].step = step
    <2>1. work[w] \in Work
      BY <1>2, InHand
    <2> QED
      BY <1>2, <2>1 DEF TypeOK, Step, Work
  <1>3. ASSUME NEW w \in Workers, Rest(w) PROVE work'[w].step = "idle"
    BY <1>3 DEF TypeOK, Rest, NoWork
  <1>4. ASSUME NEW w \in Workers, Start(w) \/ Insert(w) \/ Infer(w)
        PROVE  work'[w].step \notin {"counting", "inserting"}
    <2>1. work[w] \in Work
      BY <1>4, InHand DEF Start, Insert, Infer, Working
    <2>2. CASE Start(w)
      BY <2>1, <2>2 DEF TypeOK, Start, Step, Work
    <2>3. CASE Insert(w)
      <3>1. PICK step \in {"refused", "loaded"}, p \in {job'[Mine(w)].parts} : work' = [work EXCEPT ![w].step = step, ![w].parts = p]
        BY <2>3 DEF Insert
      <3>2. work'[w].step = step
        BY <2>1, <3>1 DEF TypeOK, Work
      <3> QED
        BY <3>2
    <2>4. CASE Infer(w)
      BY <2>1, <2>4 DEF TypeOK, Infer, Work
    <2> QED
      BY <1>4, <2>2, <2>3, <2>4
  <1>5. ASSUME NEW w \in Workers, Advance(w), Admitting(w)' PROVE LockChannel(w) \/ Count(w)
    <2>1. Working(w)
      BY <1>5 DEF Advance, Start, LockChannel, Count, Insert, Recheck, Infer, RejectOutput, Save, Ingest, Publish,
         Refuse, Respond, Charge, FailJob, Working
    <2> QED
      BY <1>2, <1>3, <1>4, <1>5, <2>1 DEF Advance, Recheck, MakeStale, RejectOutput, Save, Ingest, Publish,
         Refuse, Respond, Charge, FailJob, Admitting
  <1>6. ASSUME NEW w \in Workers, Fault(w) \/ Crash(w), Admitting(w)' PROVE FALSE
    BY <1>2, <1>3, <1>6 DEF Fault, Crash, Admitting
  <1>7. ASSUME NEW w \in Workers, LockChannel(w) PROVE work'[w].step = "counting"
    BY <1>2, <1>7 DEF LockChannel, Working
  <1>8. ASSUME NEW w \in Workers, NEW j \in Jobs, Take(w, j)
        PROVE  work'[w].step = "taken" /\ \A v \in Workers \ {w} : work'[v] = work[v]
    BY <1>8 DEF TypeOK, Take
  <1>9. UNCHANGED work \/ (\E w \in Workers : Advance(w) \/ Fault(w) \/ Crash(w))
        \/ \E w \in Workers, j \in Jobs : Take(w, j)
    BY DEF Next, vars, LoseLock, Cancel, Wait, Delete, Edit
  <1> SUFFICES ASSUME NEW w \in Workers
               PROVE  /\ Admitting(w)' => Admitting(w) \/ (LockChannel(w) /\ \A v \in Workers \ {w} : work'[v] = work[v])
                      /\ work'[w].step = "inserting" => work[w].step = "inserting" \/ Count(w)
    OBVIOUS
  <1>10. CASE work'[w] = work[w]
    BY <1>10 DEF Admitting
  <1>11. CASE Advance(w)
    <2>1. Count(w) => Admitting(w)
      BY DEF Count, Admitting
    <2>2. \A v \in Workers \ {w} : work'[v] = work[v]
      BY <1>1, <1>11
    <2> QED
      BY <1>5, <1>7, <1>11, <2>1, <2>2 DEF Admitting
  <1>12. CASE Fault(w) \/ Crash(w)
    BY <1>6, <1>12 DEF Admitting
  <1>13. ASSUME NEW j \in Jobs, Take(w, j)
         PROVE  ~Admitting(w)'
    BY <1>8, <1>13 DEF Admitting
  <1> QED
    BY <1>1, <1>8, <1>9, <1>10, <1>11, <1>12, <1>13 DEF Admitting

LEMMA StepBudgeted ==
  ASSUME TypeOK, Budgeted, IsFiniteSet(Jobs), [Next]_vars
  PROVE  Budgeted'
  <1>1. IsFiniteSet(OutstandingJobs) /\ Cardinality(OutstandingJobs) \in Nat
    BY FS_Subset, FS_CardinalityType DEF OutstandingJobs
  <1>2. OneAdmits'
    <2> SUFFICES ASSUME NEW v \in Workers, NEW w \in Workers, Admitting(v)', Admitting(w)' PROVE v = w
      BY DEF OneAdmits, Admitting
    <2>1. CASE Admitting(v) /\ Admitting(w)
      BY <2>1 DEF Budgeted, OneAdmits
    <2>2. ASSUME NEW u \in Workers, LockChannel(u) PROVE \A x \in Workers \ {u} : ~Admitting(x)
      BY <2>2 DEF LockChannel, ChannelFree, Admitting
    <2>3. ASSUME NEW u \in Workers, NEW x \in Workers, u # x, LockChannel(u), LockChannel(x),
                 \A y \in Workers \ {u} : work'[y] = work[y]
          PROVE  FALSE
      <3>1. work[x] \in Work /\ work[x].step = "locking" /\ work'[x] = work[x]
        BY <2>3, InHand DEF LockChannel, Working
      <3>2. work'[x].step = "counting"
        BY <2>3, <3>1 DEF TypeOK, LockChannel, Step, Work
      <3> QED
        BY <3>1, <3>2
    <2> QED
      BY <2>1, <2>2, <2>3, AdmissionSteps
  <1>3. CASE \A w \in Workers : ~Insert(w)
    <2>1. /\ Cardinality(OutstandingJobs') <= Cardinality(OutstandingJobs) /\ Cardinality(OutstandingJobs') \in Nat
      BY <1>1, <1>3, NothingAdded, FS_Subset, FS_CardinalityType
    <2>2. ASSUME NEW w \in Workers, work'[w].step = "inserting" PROVE Cardinality(OutstandingJobs) < Budget
      <3>1. CASE work[w].step = "inserting"
        BY <3>1 DEF Budgeted, Room
      <3>2. CASE Count(w)
        <4>1. work[w] \in Work
          BY <3>2, InHand DEF Count, Working
        <4>2. Cardinality(OutstandingJobs) >= Budget => work'[w].step = "refused"
          BY <3>2, <4>1 DEF TypeOK, Count, Step, Work
        <4> QED
          BY <1>1, <2>2, <4>2, BoundsAssumption
      <3> QED
        BY <2>2, <3>1, <3>2, AdmissionSteps
    <2>3. Room'
      BY <1>1, <2>1, <2>2, BoundsAssumption DEF Room
    <2>4. BudgetBounded'
      BY <1>1, <2>1, BoundsAssumption DEF Budgeted, BudgetBounded
    <2> QED
      BY <1>2, <2>3, <2>4 DEF Budgeted
  <1>4. ASSUME NEW w \in Workers, Insert(w) PROVE Budgeted'
    <2>1. OutstandingJobs' \subseteq OutstandingJobs \cup {Mine(w)}
      BY <1>4 DEF TypeOK, Insert, OutstandingJobs
    <2>2. Cardinality(OutstandingJobs) < Budget
      BY <1>4 DEF Insert, Budgeted, Room
    <2>3. /\ IsFiniteSet(OutstandingJobs \cup {Mine(w)})
          /\ Cardinality(OutstandingJobs \cup {Mine(w)}) <= Cardinality(OutstandingJobs) + 1
          /\ Cardinality(OutstandingJobs \cup {Mine(w)}) \in Nat
      <3>1. /\ IsFiniteSet(OutstandingJobs \cup {Mine(w)})
            /\ Cardinality(OutstandingJobs \cup {Mine(w)}) =
                 IF Mine(w) \in OutstandingJobs THEN Cardinality(OutstandingJobs) ELSE Cardinality(OutstandingJobs) + 1
        BY <1>1, FS_AddElement
      <3> QED
        BY <1>1, <3>1
    <2>4. Cardinality(OutstandingJobs') <= Cardinality(OutstandingJobs \cup {Mine(w)})
          /\ Cardinality(OutstandingJobs') \in Nat
      BY <2>1, <2>3, FS_Subset, FS_CardinalityType
    <2>5. BudgetBounded'
      BY <1>1, <2>2, <2>3, <2>4, BoundsAssumption DEF BudgetBounded
    <2>6. ASSUME NEW v \in Workers, work'[v].step = "inserting" PROVE FALSE
      <3>1. work[v].step = "inserting" \/ Count(v)
        BY <2>6, AdmissionSteps
      <3>2. Admitting(v) /\ Admitting(w)
        BY <1>4, <3>1 DEF Insert, Count, Admitting
      <3>3. v = w
        BY <3>2 DEF Budgeted, OneAdmits
      <3>4. work[w] \in Work
        BY <1>4, InHand DEF Insert, Working
      <3>5. PICK step \in {"refused", "loaded"}, p \in {job'[Mine(w)].parts} : work' = [work EXCEPT ![w].step = step, ![w].parts = p]
        BY <1>4 DEF Insert
      <3>6. work'[w].step = step
        BY <3>4, <3>5 DEF TypeOK, Work
      <3> QED
        BY <2>6, <3>3, <3>6
    <2> QED
      BY <1>2, <2>5, <2>6 DEF Budgeted, Room
  <1> QED
    BY <1>3, <1>4

\* The channel never has more outstanding jobs than its budget, even when
\* several workers run after the advisory lock was lost.
THEOREM BudgetBoundedHolds ==
  ASSUME IsFiniteSet(Jobs)
  PROVE  Spec => []BudgetBounded
  <1>1. Init => Budgeted
    <2> SUFFICES ASSUME Init PROVE Budgeted
      OBVIOUS
    <2>1. OutstandingJobs = {}
      BY DEF Init, OutstandingJobs, NoJob, Outstanding
    <2>2. Cardinality(OutstandingJobs) = 0
      BY <2>1, FS_EmptySet
    <2> QED
      BY <2>2, BoundsAssumption DEF Init, Budgeted, OneAdmits, Room, BudgetBounded, Admitting, NoWork
  <1>2. TypeOK /\ Budgeted /\ [Next]_vars => Budgeted'
    BY StepBudgeted
  <1>3. Budgeted => BudgetBounded
    BY DEF Budgeted
  <1> QED
    BY <1>1, <1>2, <1>3, TypeCorrect, PTL DEF Spec

-----------------------------------------------------------------------------
(***************************************************************************)
(* One proposal per command, while the advisory lock was never lost.       *)
(***************************************************************************)
\* Only the holder of the advisory lock is at work.
Alone == \A w \in Workers : Working(w) => lock = w

Open == {"running", "ready", "published"}

\* A job that runs has parts to come, one that is ready or published has all.
PartsOfStatus ==
  \A j \in Jobs : /\ job[j].status = "running" => Len(job[j].parts) < Batches
                  /\ job[j].status \in {"ready", "published"} => Len(job[j].parts) = Batches

\* What the worker has in hand is what the row holds, or one part more.
Held(w) ==
  LET row == job[Mine(w)] IN
  /\ work[w].step \in {"locking", "counting", "inserting"} => row.status = "none"
  /\ work[w].step \in {"loaded", "inferring", "inferred", "complete", "ingested"} => row.status \in Open
  /\ work[w].step = "loaded" => work[w].parts = row.parts
  /\ work[w].step = "inferring" => work[w].parts = row.parts /\ row.status = "running"
  /\ work[w].step = "inferred" => Len(work[w].parts) <= Batches /\ row.status = "running"
  /\ work[w].step \in {"complete", "ingested"} => work[w].parts = row.parts /\ Len(row.parts) = Batches

\* What was ingested is what the row holds, with all its parts.
Ingested == \A x \in proposals : /\ job[x[1]].status # "none" /\ x[2] = job[x[1]].parts
                                 /\ Len(x[2]) = Batches

InOrder == Alone /\ PartsOfStatus /\ Ingested /\ \A w \in Workers : Working(w) => Held(w)

IInv == TypeOK /\ (Serialized => InOrder)

LEMMA InitOrdered == Init => IInv
  <1>1. Init => InOrder
    BY DEF Init, InOrder, Alone, PartsOfStatus, Ingested, Working, NoWork, NoJob
  <1> QED
    BY <1>1, InitTyped DEF IInv

\* While the lock was never lost, nobody but the worker that takes a step is
\* at work before or after it.
LEMMA OthersIdle ==
  ASSUME TypeOK, InOrder, NEW w \in Workers, Working(w), \A v \in Workers \ {w} : work'[v] = work[v],
         NEW v \in Workers, v # w
  PROVE  ~Working(v) /\ ~Working(v)'
  BY DEF InOrder, Alone, Working

\* A job without a proposal changes and another worker's job does not.
LEMMA OrderedAlone ==
  ASSUME TypeOK, InOrder, NEW w \in Workers, Working(w),
         \A v \in Workers \ {w} : work'[v] = work[v],
         PartsOfStatus', Ingested', Working(w)' => lock' = lock /\ Held(w)'
  PROVE  InOrder'
  <1>1. \A v \in Workers : Working(v)' => v = w
    BY OthersIdle
  <1>2. lock = w
    BY DEF InOrder, Alone
  <1> QED
    BY <1>1, <1>2 DEF InOrder, Alone

\* Only the job in hand changes, and it keeps its parts and does not reopen.
LEMMA Narrowed ==
  ASSUME TypeOK, InOrder, NEW j \in Jobs, NEW status \in Closed \cup {job[j].status},
         job' = [job EXCEPT ![j].status = status], UNCHANGED proposals
  PROVE  PartsOfStatus' /\ Ingested'
  <1>1. job[j] \in JobRow /\ \A x \in proposals : x[1] \in Jobs
    BY DEF TypeOK
  <1>2. /\ job'[j].status = status /\ job'[j].parts = job[j].parts /\ \A i \in Jobs \ {j} : job'[i] = job[i]
    BY <1>1 DEF TypeOK, JobRow
  <1>3. PartsOfStatus'
    BY <1>2 DEF InOrder, PartsOfStatus, Closed
  <1>4. Ingested'
    BY <1>1, <1>2 DEF InOrder, Ingested, Closed
  <1> QED
    BY <1>3, <1>4

LEMMA Unmoved ==
  ASSUME TypeOK, InOrder, UNCHANGED <<job, proposals>>
  PROVE  PartsOfStatus' /\ Ingested'
  BY DEF InOrder, PartsOfStatus, Ingested

LEMMA AdvanceOrdered ==
  ASSUME TypeOK, TypeOK', InOrder, NEW w \in Workers, Advance(w)
  PROVE  InOrder'
  <1> DEFINE j == Mine(w)
  <1>1. /\ Working(w) /\ work[w] \in Work /\ j \in Jobs /\ Held(w) /\ lock = w /\ job[j] \in JobRow
        /\ work[w].parts \in Parts /\ job[j].parts \in Parts
    <2>1. Working(w)
      BY DEF Advance, Start, LockChannel, Count, Insert, Recheck, Infer, RejectOutput, Save, Ingest, Publish,
         Refuse, Respond, Charge, FailJob, Working
    <2> QED
      BY <2>1, InHand DEF Work, TypeOK, JobRow, InOrder, Alone
  <1>2. \A v \in Workers \ {w} : work'[v] = work[v]
    BY DEF TypeOK, Advance, Start, LockChannel, Count, Insert, Recheck, MakeStale, Infer, RejectOutput, Save,
       Ingest, Publish, Refuse, Respond, Charge, FailJob, Step, Rest
  <1>3. ASSUME NEW step \in Steps, Step(w, step)
        PROVE  work'[w].step = step /\ Mine(w)' = j /\ work'[w].parts = work[w].parts
    BY <1>1, <1>3 DEF TypeOK, Step, Work, Mine
  <1>4. Rest(w) => ~Working(w)'
    BY DEF TypeOK, Rest, Working, NoWork
  <1>5. ASSUME NEW step \in {"refused", "answered", "exhausted", "expelled", "ending"}, Step(w, step) PROVE Held(w)'
    BY <1>3, <1>5 DEF Held, Steps
  <1>6. ASSUME Start(w) PROVE InOrder'
    <2>1. PartsOfStatus' /\ Ingested' /\ UNCHANGED <<lock, job>>
      BY <1>6, Unmoved DEF Start
    <2>2. CASE job[j].status = "none" /\ work' = [work EXCEPT ![w].step = "locking", ![w].snapshot = evidence]
      <3>1. work'[w].step = "locking" /\ Mine(w)' = j
        BY <1>1, <2>2 DEF TypeOK, Work, Mine
      <3>2. Held(w)'
        BY <2>1, <2>2, <3>1 DEF Held
      <3> QED
        BY <1>1, <1>2, <2>1, <3>2, OrderedAlone
    <2>3. CASE Step(w, "refused")
      BY <1>1, <1>2, <1>5, <2>1, <2>3, OrderedAlone
    <2>4. CASE /\ job[j].status # "none" /\ ~Refused(j)
               /\ work' = [work EXCEPT ![w].step = "loaded", ![w].parts = job[j].parts]
      <3>1. work'[w].step = "loaded" /\ Mine(w)' = j /\ work'[w].parts = job[j].parts
        BY <1>1, <2>4 DEF TypeOK, Work, Mine
      <3>2. job[j].status \in Open
        BY <1>1, <2>4 DEF JobRow, Refused, Open, Closed, Outstanding
      <3>3. Held(w)'
        BY <2>1, <3>1, <3>2 DEF Held
      <3> QED
        BY <1>1, <1>2, <2>1, <3>3, OrderedAlone
    <2> QED
      BY <1>6, <2>2, <2>3, <2>4 DEF Start
  <1>7. ASSUME LockChannel(w) \/ Count(w) PROVE InOrder'
    <2>1. PartsOfStatus' /\ Ingested' /\ UNCHANGED <<lock, job>>
      BY <1>7, Unmoved DEF LockChannel, Count
    <2>2. job[j].status = "none"
      BY <1>1, <1>7 DEF LockChannel, Count, Held
    <2>3. \E step \in {"counting", "inserting", "refused"} : Step(w, step)
      BY <1>7 DEF LockChannel, Count
    <2>4. Held(w)'
      BY <1>3, <2>1, <2>2, <2>3 DEF Held, Steps
    <2> QED
      BY <1>1, <1>2, <2>1, <2>4, OrderedAlone
  <1>8. ASSUME Insert(w) PROVE InOrder'
    <2>1. job[j].status = "none"
      BY <1>1, <1>8 DEF Insert, Held
    <2>2. job' = [job EXCEPT ![j] = [status |-> "running", snapshot |-> work[w].snapshot, parts |-> <<>>]]
      BY <1>8, <2>1 DEF Insert
    <2>3. job'[j].status = "running" /\ job'[j].parts = <<>> /\ \A i \in Jobs \ {j} : job'[i] = job[i]
      BY <1>1, <2>2 DEF TypeOK
    <2>4. \A x \in proposals : x[1] \in Jobs \ {j}
      BY <2>1 DEF TypeOK, InOrder, Ingested
    <2>5. PartsOfStatus'
      BY <2>3, BoundsAssumption DEF InOrder, PartsOfStatus
    <2>6. Ingested'
      BY <1>8, <2>3, <2>4 DEF Insert, InOrder, Ingested
    <2>7. work' = [work EXCEPT ![w].step = "loaded", ![w].parts = <<>>]
      BY <1>8, <2>3 DEF Insert, Closed
    <2>8. work'[w].step = "loaded" /\ work'[w].parts = <<>> /\ Mine(w)' = j
      BY <1>1, <2>7 DEF TypeOK, Work, Mine
    <2>9. Held(w)'
      BY <2>3, <2>8 DEF Held, Open
    <2> QED
      BY <1>1, <1>2, <1>8, <2>5, <2>6, <2>9, OrderedAlone DEF Insert
  <1>9. ASSUME MakeStale(w), UNCHANGED <<lock, proposals>> PROVE InOrder'
    <2>1. PartsOfStatus' /\ Ingested'
      BY <1>1, <1>9, Narrowed DEF MakeStale, Closed
    <2> QED
      BY <1>1, <1>2, <1>5, <1>9, <2>1, OrderedAlone DEF MakeStale
  <1>10. ASSUME Recheck(w) PROVE InOrder'
    <2>1. CASE MakeStale(w)
      BY <1>9, <1>10, <2>1 DEF Recheck
    <2>2. CASE UNCHANGED job
      <3>1. PartsOfStatus' /\ Ingested' /\ UNCHANGED lock
        BY <1>10, <2>2, Unmoved DEF Recheck
      <3>2. job[j].status \in Open /\ work[w].parts = job[j].parts /\ Len(job[j].parts) \in Nat
        BY <1>1, <1>10 DEF Recheck, Held, Parts
      <3>3. CASE Len(job[j].parts) < Batches
        <4>1. Step(w, "inferring") \/ Step(w, "refused")
          BY <1>10, <3>2, <3>3 DEF Recheck, MakeStale
        <4>2. job[j].status = "running"
          BY <1>1, <3>2, <3>3, BoundsAssumption DEF Open, InOrder, PartsOfStatus
        <4>3. Held(w)'
          BY <1>3, <2>2, <3>2, <4>1, <4>2 DEF Held, Open, Steps
        <4> QED
          BY <1>1, <1>2, <3>1, <4>3, OrderedAlone
      <3>4. CASE ~(Len(job[j].parts) < Batches)
        <4>1. Step(w, "complete") \/ Step(w, "refused")
          BY <1>10, <3>2, <3>4 DEF Recheck, MakeStale
        <4>2. Len(job[j].parts) = Batches
          BY <1>1, <3>2, <3>4, BoundsAssumption DEF Open, InOrder, PartsOfStatus
        <4>3. Held(w)'
          BY <1>3, <2>2, <3>2, <4>1, <4>2 DEF Held, Open, Steps
        <4> QED
          BY <1>1, <1>2, <3>1, <4>3, OrderedAlone
      <3> QED
        BY <3>3, <3>4
    <2> QED
      BY <1>10, <2>1, <2>2 DEF Recheck
  <1>11. ASSUME Infer(w) PROVE InOrder'
    <2>1. PartsOfStatus' /\ Ingested' /\ UNCHANGED <<lock, job>>
      BY <1>11, Unmoved DEF Infer
    <2>2. job[j].status = "running" /\ work[w].parts = job[j].parts
      BY <1>1, <1>11 DEF Infer, Held
    <2>3. work'[w].step = "inferred" /\ Mine(w)' = j /\ work'[w].parts = Append(work[w].parts, inferences[j] + 1)
      BY <1>1, <1>11 DEF TypeOK, Infer, Work, Mine
    <2>4. Len(work[w].parts) < Batches /\ Len(work[w].parts) \in Nat
      BY <1>1, <2>2 DEF InOrder, PartsOfStatus, Parts
    <2>5. Len(work'[w].parts) = Len(work[w].parts) + 1
      BY <1>1, <2>3 DEF Parts
    <2>6. Len(work'[w].parts) <= Batches
      BY <2>4, <2>5, BoundsAssumption
    <2>7. Held(w)'
      BY <2>1, <2>2, <2>3, <2>6 DEF Held, Open
    <2> QED
      BY <1>1, <1>2, <2>1, <2>7, OrderedAlone
  <1>12. ASSUME RejectOutput(w) PROVE InOrder'
    <2>1. PartsOfStatus' /\ Ingested' /\ UNCHANGED lock
      BY <1>12, Unmoved DEF RejectOutput
    <2> QED
      BY <1>1, <1>2, <1>5, <1>12, <2>1, OrderedAlone DEF RejectOutput
  <1>13. ASSUME Save(w) PROVE InOrder'
    <2>1. CASE MakeStale(w) /\ UNCHANGED lock
      BY <1>9, <1>13, <2>1 DEF Save
    <2>2. CASE job' = Checkpoint(w) /\ (Rest(w) \/ (~(Len(work[w].parts) < Batches) /\ Step(w, "complete") /\ UNCHANGED lock))
      <3>1. job[j].status = "running" /\ Len(work[w].parts) <= Batches /\ Len(work[w].parts) \in Nat
        BY <1>1, <1>13 DEF Save, Held, Parts
      <3>2. /\ job'[j].parts = work[w].parts
            /\ job'[j].status = IF Len(work[w].parts) = Batches THEN "ready" ELSE "running"
            /\ \A i \in Jobs \ {j} : job'[i] = job[i]
        BY <1>1, <2>2, <3>1 DEF TypeOK, Checkpoint, JobRow
      <3>3. PartsOfStatus'
        BY <3>1, <3>2, BoundsAssumption DEF InOrder, PartsOfStatus
      <3>4. Len(job[j].parts) < Batches
        BY <1>1, <3>1 DEF InOrder, PartsOfStatus
      <3>5. \A x \in proposals : x[1] \in Jobs \ {j}
        <4>1. \A x \in proposals : x[1] \in Jobs
          BY DEF TypeOK
        <4>2. Ingested /\ Len(job[j].parts) # Batches
          BY <3>4, BoundsAssumption DEF InOrder
        <4>3. \A x \in proposals : x[1] # j
          BY <4>2 DEF Ingested
        <4> QED
          BY <4>1, <4>3
      <3>6. Ingested'
        BY <1>13, <3>2, <3>5 DEF Save, InOrder, Ingested
      <3>7. CASE Rest(w)
        BY <1>1, <1>2, <1>4, <3>3, <3>6, <3>7, OrderedAlone
      <3>8. CASE ~(Len(work[w].parts) < Batches) /\ Step(w, "complete") /\ UNCHANGED lock
        <4>1. Len(work[w].parts) = Batches
          BY <3>1, <3>8, BoundsAssumption
        <4>2. Held(w)'
          BY <1>3, <3>2, <3>8, <4>1 DEF Held, Open, Steps
        <4> QED
          BY <1>1, <1>2, <3>3, <3>6, <3>8, <4>2, OrderedAlone
      <3> QED
        BY <2>2, <3>7, <3>8
    <2>3. CASE Changed(j)
      BY <1>13, <2>1, <2>3 DEF Save
    <2>4. CASE ~Changed(j)
      <3>1. job' = Checkpoint(w)
        BY <1>13, <2>4 DEF Save
      <3>2. CASE Len(work[w].parts) < Batches
        <4>1. Rest(w)
          BY <1>13, <2>4, <3>2 DEF Save
        <4> QED
          BY <2>2, <3>1, <4>1
      <3>3. CASE ~(Len(work[w].parts) < Batches)
        BY <1>13, <2>2, <2>4, <3>1, <3>3 DEF Save
      <3> QED
        BY <3>2, <3>3
    <2> QED
      BY <2>3, <2>4
  <1>14. ASSUME Ingest(w) PROVE InOrder'
    <2>0. UNCHANGED <<lock, job>>
      BY <1>14 DEF Ingest
    <2>1. job[j].status \in Open /\ work[w].parts = job[j].parts /\ Len(job[j].parts) = Batches
      BY <1>1, <1>14 DEF Ingest, Held
    <2>2. PartsOfStatus'
      BY <2>0 DEF InOrder, PartsOfStatus
    <2>3. Ingested'
      <3>1. proposals' = proposals \/ proposals' = proposals \cup {<<j, work[w].parts>>}
        BY <1>14 DEF Ingest
      <3> QED
        BY <2>0, <2>1, <3>1 DEF InOrder, Ingested, Open
    <2>4. Held(w)'
      <3>1. CASE Step(w, "ingested")
        BY <1>3, <2>0, <2>1, <3>1 DEF Held, Steps
      <3>2. CASE Step(w, "refused")
        BY <1>5, <3>2
      <3> QED
        BY <1>14, <3>1, <3>2 DEF Ingest
    <2> QED
      BY <1>1, <1>2, <1>14, <2>2, <2>3, <2>4, OrderedAlone DEF Ingest
  <1>15. ASSUME Publish(w) PROVE InOrder'
    <2>1. work[w].parts = job[j].parts /\ Len(job[j].parts) = Batches
      BY <1>1, <1>15 DEF Publish, Held
    <2>2. /\ job'[j].status = "published" /\ job'[j].parts = job[j].parts /\ \A i \in Jobs \ {j} : job'[i] = job[i]
      BY <1>1, <1>15 DEF TypeOK, Publish, JobRow
    <2>3. PartsOfStatus'
      BY <2>1, <2>2 DEF InOrder, PartsOfStatus
    <2>4. Ingested'
      BY <1>15, <2>2 DEF TypeOK, Publish, InOrder, Ingested
    <2> QED
      BY <1>1, <1>2, <1>5, <1>15, <2>3, <2>4, OrderedAlone DEF Publish
  <1>16. ASSUME job' = Released(j), UNCHANGED proposals PROVE PartsOfStatus' /\ Ingested'
    BY <1>1, <1>16, Narrowed, Unmoved DEF Released, Closed
  <1>17. ASSUME Refuse(w) PROVE InOrder'
    BY <1>1, <1>2, <1>5, <1>16, <1>17, OrderedAlone DEF Refuse
  <1>18. ASSUME FailJob(w) PROVE InOrder'
    <2>1. PartsOfStatus' /\ Ingested'
      BY <1>16, <1>18 DEF FailJob
    <2>2. CASE Rest(w)
      BY <1>1, <1>2, <1>4, <2>1, <2>2, OrderedAlone
    <2>3. CASE Step(w, "ending") /\ UNCHANGED lock
      BY <1>1, <1>2, <1>5, <2>1, <2>3, OrderedAlone
    <2> QED
      BY <1>18, <2>2, <2>3 DEF FailJob
  <1>19. ASSUME Respond(w) PROVE InOrder'
    BY <1>1, <1>2, <1>4, <1>19, Unmoved, OrderedAlone DEF Respond
  <1>20. ASSUME Charge(w) PROVE InOrder'
    <2>1. PartsOfStatus' /\ Ingested'
      BY <1>20, Unmoved DEF Charge
    <2>2. CASE Rest(w)
      BY <1>1, <1>2, <1>4, <2>1, <2>2, OrderedAlone
    <2>3. CASE (Step(w, "exhausted") \/ Step(w, "expelled")) /\ UNCHANGED lock
      BY <1>1, <1>2, <1>5, <2>1, <2>3, OrderedAlone
    <2> QED
      BY <1>20, <2>2, <2>3 DEF Charge
  <1> QED
    BY <1>6, <1>7, <1>8, <1>10, <1>11, <1>12, <1>13, <1>14, <1>15, <1>17, <1>18, <1>19, <1>20 DEF Advance

LEMMA StepOrdered == IInv /\ [Next]_vars => IInv'
  <1> SUFFICES ASSUME IInv, [Next]_vars PROVE IInv'
    OBVIOUS
  <1>1. TypeOK /\ TypeOK'
    BY StepTyped DEF IInv
  <1>2. Serialized' => Serialized /\ \A w \in Workers : ~LoseLock(w)
    <2>1. spent.losses \in Nat
      BY <1>1, BoundsAssumption DEF TypeOK
    <2>2. ASSUME NEW w \in Workers, LoseLock(w) PROVE spent'.losses = spent.losses + 1
      BY <1>1, <2>2 DEF TypeOK, LoseLock
    <2>3. (\A w \in Workers : ~LoseLock(w)) => spent'.losses = spent.losses
      BY <1>1 DEF TypeOK, Next, vars, Advance, Start, LockChannel, Count, Insert, Recheck, Infer, RejectOutput,
         Save, Ingest, Publish, Refuse, Respond, Charge, FailJob, Take, Cancel, Fault, Crash, Wait, Delete, Edit
    <2> QED
      BY <2>1, <2>2, <2>3 DEF Serialized
  <1>3. ASSUME Serialized' PROVE InOrder'
    <2>1. InOrder /\ \A w \in Workers : ~LoseLock(w)
      BY <1>2, <1>3 DEF IInv
    <2>2. ASSUME UNCHANGED <<job, lock, work, proposals>> PROVE InOrder'
      BY <2>1, <2>2 DEF InOrder, Alone, PartsOfStatus, Ingested, Working, Held, Mine
    <2>3. ASSUME NEW w \in Workers, NEW j \in Jobs, Take(w, j) PROVE InOrder'
      <3>1. PartsOfStatus' /\ Ingested'
        BY <1>1, <2>1, <2>3, Unmoved DEF Take
      <3>2. work'[w].step = "taken" /\ \A v \in Workers \ {w} : work'[v] = work[v]
        BY <1>1, <2>3 DEF TypeOK, Take
      <3>3. \A v \in Workers : ~Working(v)
        BY <2>1, <2>3, NoWorkerAssumption DEF Take, InOrder, Alone
      <3>4. \A v \in Workers : Working(v)' => v = w
        BY <3>2, <3>3 DEF Working
      <3>5. Held(w)'
        BY <3>2 DEF Held
      <3> QED
        BY <2>3, <3>1, <3>4, <3>5 DEF Take, InOrder, Alone
    <2>4. ASSUME NEW w \in Workers, NEW j \in Jobs, Cancel(w, j) PROVE InOrder'
      <3>1. PartsOfStatus' /\ Ingested'
        BY <1>1, <2>1, <2>4, Narrowed DEF Cancel, Closed
      <3>2. \A v \in Workers : ~Working(v)
        BY <2>1, <2>4, NoWorkerAssumption DEF Cancel, InOrder, Alone
      <3> QED
        BY <2>4, <3>1, <3>2 DEF Cancel, InOrder, Alone, Working
    <2>5. ASSUME NEW w \in Workers, Fault(w) PROVE InOrder'
      <3>1. Working(w) /\ work[w] \in Work
        BY <1>1, <2>5, InHand DEF Fault
      <3>2. PICK step \in {"failed", "denied"} : Step(w, step)
        BY <2>5 DEF Fault
      <3>3. work'[w].step = step /\ \A v \in Workers \ {w} : work'[v] = work[v]
        BY <1>1, <3>1, <3>2 DEF TypeOK, Step, Work
      <3>4. Held(w)'
        BY <3>3 DEF Held
      <3>5. PartsOfStatus' /\ Ingested'
        BY <1>1, <2>1, <2>5, Unmoved DEF Fault
      <3> QED
        BY <1>1, <2>1, <2>5, <3>1, <3>3, <3>4, <3>5, OrderedAlone DEF Fault
    <2>6. ASSUME NEW w \in Workers, Crash(w) PROVE InOrder'
      <3>1. ~Working(w)' /\ \A v \in Workers \ {w} : work'[v] = work[v]
        BY <1>1, <2>6 DEF TypeOK, Crash, Rest, Working, NoWork
      <3>2. PartsOfStatus' /\ Ingested'
        BY <1>1, <2>1, <2>6, Unmoved DEF Crash
      <3> QED
        BY <1>1, <2>1, <2>6, <3>1, <3>2, OrderedAlone DEF Crash
    <2> QED
      BY <1>1, <2>1, <2>2, <2>3, <2>4, <2>5, <2>6, AdvanceOrdered DEF Next, vars, Wait, Delete, Edit
  <1> QED
    BY <1>1, <1>3 DEF IInv

\* A command of serialized workers never leaves two proposals.
THEOREM OneProposalHolds == Spec => []OneProposal
  <1>1. IInv => OneProposal
    BY DEF IInv, TypeOK, InOrder, Ingested, OneProposal
  <1> QED
    BY <1>1, InitOrdered, StepOrdered, PTL DEF Spec

\* Of serialized workers, a closed job ingests nothing any more.
THEOREM ClosedPublishesNothingHolds == Spec => ClosedPublishesNothing
  <1> DEFINE Quiet == Serialized => \A j \in Jobs : job[j].status \in Closed => ProposalsOf(j)' = ProposalsOf(j)
  <1>1. IInv /\ [Next]_vars => Quiet
    <2> SUFFICES ASSUME IInv, [Next]_vars, Serialized, NEW j \in Jobs, job[j].status \in Closed
                 PROVE  ProposalsOf(j)' = ProposalsOf(j)
      OBVIOUS
    <2>1. ASSUME NEW w \in Workers, Ingest(w) PROVE ProposalsOf(j)' = ProposalsOf(j)
      <3>1. Mine(w) # j
        BY <2>1 DEF IInv, InOrder, Ingest, Working, Held, Open, Closed
      <3> QED
        BY <2>1, <3>1 DEF Ingest, ProposalsOf
    <2>2. UNCHANGED proposals => ProposalsOf(j)' = ProposalsOf(j)
      BY DEF ProposalsOf
    <2> QED
      BY <2>1, <2>2 DEF Next, vars, Advance, Start, LockChannel, Count, Insert, Recheck, Infer, RejectOutput,
         Save, Publish, Refuse, Respond, Charge, FailJob, Take, Cancel, Fault, Crash, LoseLock, Wait, Delete, Edit
  <1> QED
    BY <1>1, InitOrdered, StepOrdered, PTL DEF Spec, ClosedPublishesNothing
=============================================================================
