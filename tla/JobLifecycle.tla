----------------------------- MODULE JobLifecycle -----------------------------
(***************************************************************************)
(* What an ingestion job may go through, as those who watch it need to     *)
(* know, with no lease, delay, lock or crash in sight.  The worker of a    *)
(* job settles it once more after it was given up, or after it completed   *)
(* the job without hearing so: such a job is late.  Its owner retries and  *)
(* cancels jobs that nobody is at work on, late or not.                    *)
(***************************************************************************)
CONSTANT Job

VARIABLES
  status,  \* [Job -> status of its row]
  late     \* jobs that a worker nobody counts on may still settle

vars == <<status, late>>

Init ==
  /\ status = [j \in Job |-> "absent"]
  /\ late = {}

Becomes(j, new) == status' = [status EXCEPT ![j] = new]

Submit(j) ==
  /\ status[j] = "absent"
  /\ Becomes(j, "pending")
  /\ UNCHANGED late

RetryOrCancel(j) ==
  /\ status[j] \in {"pending", "failed"}
  /\ \E new \in {"pending", "cancelled"} : Becomes(j, new)
  /\ UNCHANGED late

Claim(j) ==
  /\ status[j] = "pending"
  /\ Becomes(j, "processing")
  /\ late' = late \ {j}

Settle(j) ==
  /\ status[j] = "processing"
  /\ \/ \E new \in {"completed", "failed", "pending"} : Becomes(j, new) /\ UNCHANGED late
     \/ Becomes(j, "completed") /\ late' = late \cup {j}

\* Jobs that were claimed too often fail, and the last worker of some comes back.
GiveUp(S) ==
  /\ \A j \in S : status[j] = "processing"
  /\ status' = [j \in Job |-> IF j \in S THEN "failed" ELSE status[j]]
  /\ \E T \in SUBSET S : late' = late \cup T

\* A worker that completed a job without hearing so takes that back; one that
\* was given up never puts the job back in the queue.
SettleLate(j) ==
  /\ j \in late
  /\ \/ /\ status[j] = "completed"
        /\ \E new \in {"pending", "failed"} : Becomes(j, new)
        /\ late' = late \ {j}
     \/ /\ status[j] # "completed"
        /\ \/ Becomes(j, "completed") /\ late' \in {late, late \ {j}}
           \/ Becomes(j, "failed") /\ late' = late \ {j}

\* The late worker dies.
Forget(j) == late' = late \ {j} /\ UNCHANGED status

Next ==
  \/ \E j \in Job : Submit(j) \/ RetryOrCancel(j) \/ Claim(j) \/ Settle(j) \/ SettleLate(j) \/ Forget(j)
  \/ \E S \in SUBSET Job : GiveUp(S)

Spec == Init /\ [][Next]_vars
=============================================================================
