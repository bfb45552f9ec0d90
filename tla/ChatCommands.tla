---------------------------- MODULE ChatCommands ----------------------------
(***************************************************************************)
(* The inbox of knowledge commands and the outbox of signed replies        *)
(* (proxy/buzz_chat.py, cycle).                                            *)
(*                                                                         *)
(* A worker that holds the advisory lock takes a command, checks its       *)
(* author, executes it, stores the signed reply, checks the author and the *)
(* evidence of the answer again, publishes the reply to the relay and      *)
(* marks the command delivered.  Every statement commits on its own.  The  *)
(* lock belongs to one database connection; when that connection is lost   *)
(* the worker goes on, and another worker may take the lock.               *)
(*                                                                         *)
(* A cycle handles one command here; the ten of the code are as many       *)
(* cycles.  A reply is named by the execution that signed it, since its    *)
(* timestamp is part of its identity.  Answers cite one document, which    *)
(* never returns to a revision it has left.                                *)
(***************************************************************************)
EXTENDS Naturals, FiniteSets

CONSTANTS
  Commands,      \* signed Buzz events that are knowledge commands
  Asks,          \* the commands that ask a question
  Workers,       \* running copies of the chat worker
  NoWorker,      \* nobody holds the lock
  MaxAttempts,   \* attempts of a command (3)
  MaxRuns,       \* bound: executions of commands
  MaxChanges,    \* bound: changes of the cited document
  MaxCrashes,    \* bound: worker crashes
  MaxFaults,     \* bound: failed statements, executions and relay calls
  MaxLockLosses, \* bound: losses of the connection that holds the lock
  MaxTroubles    \* bound: crashes, faults and losses together

ASSUME AsksAssumption == Asks \subseteq Commands
ASSUME NoWorkerAssumption == NoWorker \notin Workers
ASSUME BoundsAssumption ==
  /\ MaxAttempts \in Nat \ {0} /\ MaxRuns \in Nat /\ MaxChanges \in Nat
  /\ MaxCrashes \in Nat /\ MaxFaults \in Nat /\ MaxLockLosses \in Nat /\ MaxTroubles \in Nat

Reply == 0..MaxRuns                 \* 0: no reply
Revision == 0..(MaxChanges + 1)     \* 0: no dependency recorded

VARIABLES
  row,       \* [Commands -> row of gcor.buzz_knowledge_commands]
  lock,      \* the worker that holds the advisory lock
  work,      \* [Workers -> the command in hand, and its reply as it was read]
  revision,  \* revision of the cited document
  members,   \* is the author an active member
  runs,      \* executions so far
  relay,     \* <<command, reply>> events the relay has accepted
  spent      \* crashes, faults and lock losses so far

vars == <<row, lock, work, revision, members, runs, relay, spent>>

NoRow == [known |-> FALSE, deleted |-> FALSE, attempts |-> 0, response |-> 0, old |-> FALSE,
          draft |-> 0, delivered |-> FALSE, due |-> FALSE]
NoWork == [step |-> "idle"]

CommandRow == [known : BOOLEAN, deleted : BOOLEAN, attempts : Nat, response : Reply, old : BOOLEAN,
               draft : Revision, delivered : BOOLEAN, due : BOOLEAN]
Work == [step : {"taken", "executing", "composed", "stored", "checked", "accepted", "failed", "denied", "ending"},
         command : Commands, stored : Reply, reply : Reply,
         fresh : BOOLEAN]  \* fresh is history: was the stored answer current when it was taken

\* Every variable stays in its declared set.
TypeOK ==
  /\ row \in [Commands -> CommandRow]
  /\ lock \in Workers \cup {NoWorker}
  /\ work \in [Workers -> Work \cup {NoWork}]
  /\ revision \in Revision \ {0}
  /\ members \in BOOLEAN
  /\ runs \in Reply
  /\ relay \subseteq Commands \X Reply
  /\ spent \in [crashes : 0..MaxCrashes, faults : 0..MaxFaults, losses : 0..MaxLockLosses]

Init ==
  /\ row = [c \in Commands |-> NoRow]
  /\ lock = NoWorker
  /\ work = [w \in Workers |-> NoWork]
  /\ revision = 1
  /\ members = TRUE
  /\ runs = 0
  /\ relay = {}
  /\ spent = [crashes |-> 0, faults |-> 0, losses |-> 0]

Working(w) == work[w].step # "idle"
Command(w) == work[w].command
Step(w, step) == work' = [work EXCEPT ![w].step = step]
MoreTrouble == spent.crashes + spent.faults + spent.losses < MaxTroubles

\* Mutant of Rest: the advisory lock is not given back.
RestLocked(w) ==
  /\ work' = [work EXCEPT ![w] = NoWork]
  /\ UNCHANGED lock

\* The end of a cycle gives the lock back, unless it was lost before.
Rest(w) ==
  /\ work' = [work EXCEPT ![w] = NoWork]
  /\ lock' = IF lock = w THEN NoWorker ELSE lock

-----------------------------------------------------------------------------
(***************************************************************************)
(* The inbox.                                                              *)
(***************************************************************************)
\* The cycle copies new commands of enabled channels into the inbox.
Receive(c) ==
  /\ ~row[c].known
  /\ row' = [row EXCEPT ![c].known = TRUE, ![c].due = TRUE]
  /\ UNCHANGED <<lock, work, revision, members, runs, relay, spent>>

\* The commands the cycle selects.
Eligible(c) ==
  /\ row[c].known /\ ~row[c].deleted /\ ~row[c].delivered /\ row[c].due
  /\ row[c].response # 0 \/ row[c].attempts < MaxAttempts

\* Every dependency of the draft is at the revision the answer cites.
EvidenceCurrent(c) == row[c].draft \in {0, revision}

Take(w, c) ==
  /\ ~Working(w)
  /\ lock = NoWorker
  /\ Eligible(c)
  /\ lock' = w
  /\ work' = [work EXCEPT ![w] = [step |-> "taken", command |-> c, stored |-> row[c].response, reply |-> 0,
                                  fresh |-> row[c].response = 0 \/ EvidenceCurrent(c)]]
  /\ UNCHANGED <<row, revision, members, runs, relay, spent>>

-----------------------------------------------------------------------------
(***************************************************************************)
(* One command.                                                            *)
(***************************************************************************)
Delivered(c) == row' = [row EXCEPT ![c].delivered = TRUE]

\* The author is checked; a stored reply is sent if it is not too old, and a
\* command without one is executed.
Begin(w) ==
  LET c == Command(w) IN
  /\ work[w].step = "taken"
  /\ \/ /\ ~members
        /\ Step(w, "denied")
        /\ UNCHANGED <<row, lock, runs>>
     \/ /\ members /\ work[w].stored # 0 /\ row[c].old
        /\ Delivered(c)
        /\ Rest(w)
        /\ UNCHANGED runs
     \/ /\ members /\ work[w].stored # 0 /\ ~row[c].old
        /\ work' = [work EXCEPT ![w].step = "stored", ![w].reply = work[w].stored]
        /\ UNCHANGED <<row, lock, runs>>
     \/ /\ members /\ work[w].stored = 0 /\ runs < MaxRuns
        /\ work' = [work EXCEPT ![w].step = "executing", ![w].reply = runs + 1]
        /\ runs' = runs + 1
        /\ UNCHANGED <<row, lock>>
  /\ UNCHANGED <<revision, members, relay, spent>>

\* execute returns, or raises the HTTPException that becomes the reply.  An
\* answered question leaves the revisions it cites in the draft.
Execute(w) ==
  LET c == Command(w) IN
  /\ work[w].step = "executing"
  /\ Step(w, "composed")
  /\ \/ UNCHANGED row
     \/ c \in Asks /\ row' = [row EXCEPT ![c].draft = revision]
  /\ UNCHANGED <<lock, revision, members, runs, relay, spent>>

\* Mutant of Store: the signed reply is kept only in memory.
StoreNothing(w) ==
  /\ work[w].step = "composed"
  /\ Step(w, "stored")
  /\ UNCHANGED <<row, lock, revision, members, runs, relay, spent>>

Store(w) ==
  /\ work[w].step = "composed"
  /\ row' = [row EXCEPT ![Command(w)].response = work[w].reply, ![Command(w)].old = FALSE]
  /\ Step(w, "stored")
  /\ UNCHANGED <<lock, revision, members, runs, relay, spent>>

\* Mutant of Deliverable: only the author is checked before delivery.
DeliverableUnchecked(c) == TRUE

\* reply_evidence_current
Deliverable(c) == EvidenceCurrent(c)

Check(w) ==
  /\ work[w].step = "stored"
  /\ \/ /\ ~members
        /\ Step(w, "denied")
        /\ UNCHANGED <<row, lock>>
     \/ /\ members /\ ~Deliverable(Command(w))
        /\ Delivered(Command(w))
        /\ Rest(w)
     \/ /\ members /\ Deliverable(Command(w))
        /\ Step(w, "checked")
        /\ UNCHANGED <<row, lock>>
  /\ UNCHANGED <<revision, members, runs, relay, spent>>

\* The relay stores the event; a second copy of one event changes nothing.
Publish(w) ==
  /\ work[w].step = "checked"
  /\ relay' = relay \cup {<<Command(w), work[w].reply>>}
  /\ Step(w, "accepted")
  /\ UNCHANGED <<row, lock, revision, members, runs, spent>>

Finish(w) ==
  /\ work[w].step = "accepted"
  /\ Delivered(Command(w))
  /\ Rest(w)
  /\ UNCHANGED <<revision, members, runs, relay, spent>>

\* Any statement, the execution or the relay call raises, before or after it
\* took effect.
Fault(w) ==
  /\ Working(w) /\ work[w].step \notin {"failed", "denied", "ending"}
  /\ spent.faults < MaxFaults /\ MoreTrouble
  /\ spent' = [spent EXCEPT !.faults = @ + 1]
  /\ Step(w, "failed")
  /\ UNCHANGED <<row, lock, revision, members, runs, relay>>

Charged(a) == a + 1

\* attempts + 1 and 30 seconds' delay; an author who is no longer a member
\* ends the command in one statement more.
Charge(w) ==
  /\ work[w].step \in {"failed", "denied"}
  /\ row' = [row EXCEPT ![Command(w)].attempts = Charged(@), ![Command(w)].due = FALSE]
  /\ \/ work[w].step = "failed" /\ Rest(w)
     \/ work[w].step = "denied" /\ Step(w, "ending") /\ UNCHANGED lock
  /\ UNCHANGED <<revision, members, runs, relay, spent>>

End(w) ==
  /\ work[w].step = "ending"
  /\ Delivered(Command(w))
  /\ Rest(w)
  /\ UNCHANGED <<revision, members, runs, relay, spent>>

-----------------------------------------------------------------------------
(***************************************************************************)
(* The environment.                                                        *)
(***************************************************************************)
Crash(w) ==
  /\ Working(w)
  /\ spent.crashes < MaxCrashes /\ MoreTrouble
  /\ spent' = [spent EXCEPT !.crashes = @ + 1]
  /\ Rest(w)
  /\ UNCHANGED <<row, revision, members, runs, relay>>

LoseLock(w) ==
  /\ lock = w
  /\ spent.losses < MaxLockLosses /\ MoreTrouble
  /\ spent' = [spent EXCEPT !.losses = @ + 1]
  /\ lock' = NoWorker
  /\ UNCHANGED <<row, work, revision, members, runs, relay>>

\* The delay passes; a stored reply becomes two minutes old.
Wait(c) ==
  /\ row[c].known /\ ~row[c].due
  /\ row' = [row EXCEPT ![c].due = TRUE]
  /\ UNCHANGED <<lock, work, revision, members, runs, relay, spent>>

Age(c) ==
  /\ row[c].response # 0 /\ ~row[c].old
  /\ row' = [row EXCEPT ![c].old = TRUE]
  /\ UNCHANGED <<lock, work, revision, members, runs, relay, spent>>

\* The cited document is reviewed, or loses evidence: it has a new revision.
Change ==
  /\ revision <= MaxChanges
  /\ revision' = revision + 1
  /\ UNCHANGED <<row, lock, work, members, runs, relay, spent>>

Revoke ==
  /\ members
  /\ members' = FALSE
  /\ UNCHANGED <<row, lock, work, revision, runs, relay, spent>>

\* The command message is deleted; its row stays and is no longer selected.
Delete(c) ==
  /\ row[c].known /\ ~row[c].deleted
  /\ row' = [row EXCEPT ![c].deleted = TRUE]
  /\ UNCHANGED <<lock, work, revision, members, runs, relay, spent>>

-----------------------------------------------------------------------------
Advance(w) ==
  Begin(w) \/ Execute(w) \/ Store(w) \/ Check(w) \/ Publish(w) \/ Finish(w)
  \/ Charge(w) \/ End(w)

WorkerStep(w) == Advance(w) \/ \E c \in Commands : Take(w, c)

Next ==
  \/ \E w \in Workers : WorkerStep(w) \/ Fault(w) \/ Crash(w) \/ LoseLock(w)
  \/ \E c \in Commands : Receive(c) \/ Wait(c) \/ Age(c) \/ Delete(c)
  \/ Change
  \/ Revoke

Spec == Init /\ [][Next]_vars

\* The worker is restarted and loops for ever over commands in the order of
\* their attempts, so none is passed over for ever; time passes.
FairSpec ==
  /\ Spec
  /\ \A w \in Workers : WF_vars(Advance(w))
  /\ \A c \in Commands : /\ WF_vars(Wait(c))
                         /\ SF_vars(\E w \in Workers : Take(w, c))

-----------------------------------------------------------------------------
(***************************************************************************)
(* Properties.                                                             *)
(***************************************************************************)

\* The lock was never lost, so the executions were serialized.
Serialized == spent.losses = 0

SameReply == \A x, y \in relay : x[1] = y[1] => x = y

\* Of serialized workers, a command gets at most one reply: retries and
\* restarts send again the very event that was stored first (response is
\* stored before publish).
OneReply == Serialized => SameReply

\* Of serialized workers, an answer whose evidence changed while it waited
\* for its delivery is not sent by a later attempt (reply_evidence_current).
StaleAnswerKept ==
  [][Serialized => \A w \in Workers : Publish(w) => work[w].fresh]_vars

\* A command that is neither deleted nor out of attempts is delivered,
\* answered or suppressed at last.
EventuallyHandled ==
  \A c \in Commands : row[c].known ~>
    \/ row[c].delivered \/ row[c].deleted
    \/ row[c].response = 0 /\ row[c].attempts >= MaxAttempts
=============================================================================
