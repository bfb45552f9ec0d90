-------------------------- MODULE ChatCommandsProofs --------------------------
(***************************************************************************)
(* Proofs about the inbox of knowledge commands.                           *)
(*                                                                         *)
(* One reply per command rests on the stored response: while the lock was  *)
(* never lost only its holder works, so what the worker in hand signs, or  *)
(* read, is what the row holds, and the relay has nothing but what the row *)
(* holds.  A stale answer is kept back because no document returns to a    *)
(* revision it has left.                                                   *)
(***************************************************************************)
EXTENDS ChatCommands, TLAPS

\* A worker at work has a command in hand.
LEMMA InHand ==
  ASSUME TypeOK, NEW w \in Workers, Working(w)
  PROVE  work[w] \in Work /\ Command(w) \in Commands
  <1>1. work[w] \in Work \cup {NoWork}
    BY DEF TypeOK
  <1> QED
    BY <1>1 DEF NoWork, Work, Working, Command

LEMMA InitTyped == Init => TypeOK
  <1> SUFFICES ASSUME Init PROVE TypeOK
    OBVIOUS
  <1> USE BoundsAssumption DEF Init
  <1>1. NoRow \in CommandRow
    BY DEF NoRow, CommandRow, Reply, Revision
  <1>2. row \in [Commands -> CommandRow]
    BY <1>1
  <1>3. revision \in Revision \ {0} /\ runs \in Reply
    BY DEF Revision, Reply
  <1>4. spent \in [crashes : 0..MaxCrashes, faults : 0..MaxFaults, losses : 0..MaxLockLosses]
    OBVIOUS
  <1> QED
    BY <1>2, <1>3, <1>4 DEF TypeOK

\* Only the step of the record in hand changes.
LEMMA StepKept ==
  ASSUME TypeOK, NEW w \in Workers, Working(w),
         NEW step \in {"taken", "executing", "composed", "stored", "checked", "accepted", "failed",
                       "denied", "ending"},
         Step(w, step)
  PROVE  work' \in [Workers -> Work \cup {NoWork}]
  <1>1. [work[w] EXCEPT !.step = step] \in Work
    BY InHand DEF Work
  <1> QED
    BY <1>1 DEF TypeOK, Step

\* Rest leaves the types of the lock and of the work alone.
LEMMA RestTyped ==
  ASSUME TypeOK, NEW w \in Workers, Rest(w)
  PROVE  work' \in [Workers -> Work \cup {NoWork}] /\ lock' \in Workers \cup {NoWorker}
  BY DEF TypeOK, Rest

LEMMA DeliveredTyped ==
  ASSUME TypeOK, NEW c \in Commands, Delivered(c)
  PROVE  row' \in [Commands -> CommandRow]
  <1>1. row[c] \in CommandRow
    BY DEF TypeOK
  <1>2. [row[c] EXCEPT !.delivered = TRUE] \in CommandRow
    BY <1>1 DEF CommandRow
  <1> QED
    BY <1>2 DEF TypeOK, Delivered

\* The inbox and the environment.
LEMMA EnvironmentTyped ==
  ASSUME TypeOK,
         \/ \E c \in Commands : Receive(c) \/ Wait(c) \/ Age(c) \/ Delete(c)
         \/ Change \/ Revoke
         \/ \E w \in Workers : Fault(w) \/ Crash(w) \/ LoseLock(w)
  PROVE  TypeOK'
  <1> USE BoundsAssumption
  <1>1. ASSUME NEW c \in Commands, Receive(c) \/ Wait(c) \/ Age(c) \/ Delete(c) PROVE TypeOK'
    <2>1. row[c] \in CommandRow
      BY DEF TypeOK
    <2>2. /\ [row[c] EXCEPT !.known = TRUE, !.due = TRUE] \in CommandRow
          /\ [row[c] EXCEPT !.due = TRUE] \in CommandRow
          /\ [row[c] EXCEPT !.old = TRUE] \in CommandRow
          /\ [row[c] EXCEPT !.deleted = TRUE] \in CommandRow
      BY <2>1 DEF CommandRow
    <2>3. row' \in [Commands -> CommandRow]
      BY <1>1, <2>2 DEF TypeOK, Receive, Wait, Age, Delete
    <2> QED
      BY <1>1, <2>3 DEF TypeOK, Receive, Wait, Age, Delete
  <1>2. ASSUME Change PROVE TypeOK'
    <2>1. revision' \in Revision \ {0}
      BY <1>2 DEF TypeOK, Change, Revision
    <2> QED
      BY <1>2, <2>1 DEF TypeOK, Change
  <1>3. ASSUME Revoke PROVE TypeOK'
    BY <1>3 DEF TypeOK, Revoke
  <1>4. ASSUME NEW w \in Workers, Fault(w) PROVE TypeOK'
    <2>1. work' \in [Workers -> Work \cup {NoWork}]
      BY <1>4, StepKept DEF Fault
    <2>2. spent' \in [crashes : 0..MaxCrashes, faults : 0..MaxFaults, losses : 0..MaxLockLosses]
      BY <1>4 DEF TypeOK, Fault
    <2> QED
      BY <1>4, <2>1, <2>2 DEF TypeOK, Fault
  <1>5. ASSUME NEW w \in Workers, Crash(w) PROVE TypeOK'
    <2>1. spent' \in [crashes : 0..MaxCrashes, faults : 0..MaxFaults, losses : 0..MaxLockLosses]
      BY <1>5 DEF TypeOK, Crash
    <2> QED
      BY <1>5, <2>1, RestTyped DEF TypeOK, Crash
  <1>6. ASSUME NEW w \in Workers, LoseLock(w) PROVE TypeOK'
    <2>1. spent' \in [crashes : 0..MaxCrashes, faults : 0..MaxFaults, losses : 0..MaxLockLosses]
      BY <1>6 DEF TypeOK, LoseLock
    <2> QED
      BY <1>6, <2>1 DEF TypeOK, LoseLock
  <1> QED
    BY <1>1, <1>2, <1>3, <1>4, <1>5, <1>6

\* A worker handling its command.
LEMMA WorkTyped ==
  ASSUME TypeOK, NEW w \in Workers, WorkerStep(w)
  PROVE  TypeOK'
  <1> USE BoundsAssumption
  <1>1. ASSUME NEW c \in Commands, Take(w, c) PROVE TypeOK'
    <2> DEFINE taken == [step |-> "taken", command |-> c, stored |-> row[c].response, reply |-> 0,
                         fresh |-> row[c].response = 0 \/ EvidenceCurrent(c)]
    <2>1. row[c].response \in Reply /\ 0 \in Reply
      BY DEF TypeOK, CommandRow, Reply
    <2>2. (row[c].response = 0 \/ EvidenceCurrent(c)) \in BOOLEAN
      BY DEF EvidenceCurrent
    <2>3. taken \in Work
      BY <2>1, <2>2 DEF Work
    <2>4. work' \in [Workers -> Work \cup {NoWork}]
      BY <1>1, <2>3 DEF TypeOK, Take
    <2> QED
      BY <1>1, <2>4 DEF TypeOK, Take
  <1>2. ASSUME Begin(w) PROVE TypeOK'
    <2>1. Working(w) /\ work[w] \in Work /\ Command(w) \in Commands
      BY <1>2, InHand DEF Begin, Working
    <2>2. [work[w] EXCEPT !.step = "stored", !.reply = work[w].stored] \in Work
      BY <2>1 DEF Work
    <2>3. runs < MaxRuns => runs + 1 \in Reply
      BY DEF TypeOK, Reply
    <2>4. runs < MaxRuns => [work[w] EXCEPT !.step = "executing", !.reply = runs + 1] \in Work
      BY <2>1, <2>3 DEF Work
    <2>5. work' \in [Workers -> Work \cup {NoWork}] /\ lock' \in Workers \cup {NoWorker}
      BY <1>2, <2>1, <2>2, <2>4, StepKept, RestTyped DEF TypeOK, Begin
    <2>6. row' \in [Commands -> CommandRow] /\ runs' \in Reply
      BY <1>2, <2>1, <2>3, DeliveredTyped DEF TypeOK, Begin
    <2> QED
      BY <1>2, <2>5, <2>6 DEF TypeOK, Begin
  <1>3. ASSUME Execute(w) PROVE TypeOK'
    <2>1. Working(w) /\ Command(w) \in Commands
      BY <1>3, InHand DEF Execute, Working
    <2>2. row[Command(w)] \in CommandRow
      BY <2>1 DEF TypeOK
    <2>3. [row[Command(w)] EXCEPT !.draft = revision] \in CommandRow
      BY <2>2 DEF TypeOK, CommandRow
    <2>4. row' \in [Commands -> CommandRow]
      BY <1>3, <2>1, <2>3 DEF TypeOK, Execute
    <2>5. work' \in [Workers -> Work \cup {NoWork}]
      BY <1>3, <2>1, StepKept DEF Execute
    <2> QED
      BY <1>3, <2>4, <2>5 DEF TypeOK, Execute
  <1>4. ASSUME Store(w) PROVE TypeOK'
    <2>1. Working(w) /\ work[w] \in Work /\ Command(w) \in Commands
      BY <1>4, InHand DEF Store, Working
    <2>2. row[Command(w)] \in CommandRow /\ work[w].reply \in Reply
      BY <2>1 DEF TypeOK, Work
    <2>3. [row[Command(w)] EXCEPT !.response = work[w].reply, !.old = FALSE] \in CommandRow
      BY <2>2 DEF CommandRow
    <2>4. row' \in [Commands -> CommandRow]
      BY <1>4, <2>1, <2>3 DEF TypeOK, Store
    <2>5. work' \in [Workers -> Work \cup {NoWork}]
      BY <1>4, <2>1, StepKept DEF Store
    <2> QED
      BY <1>4, <2>4, <2>5 DEF TypeOK, Store
  <1>5. ASSUME Check(w) PROVE TypeOK'
    <2>1. Working(w) /\ Command(w) \in Commands
      BY <1>5, InHand DEF Check, Working
    <2>2. work' \in [Workers -> Work \cup {NoWork}] /\ lock' \in Workers \cup {NoWorker}
      BY <1>5, <2>1, StepKept, RestTyped DEF TypeOK, Check
    <2>3. row' \in [Commands -> CommandRow]
      BY <1>5, <2>1, DeliveredTyped DEF TypeOK, Check
    <2> QED
      BY <1>5, <2>2, <2>3 DEF TypeOK, Check
  <1>6. ASSUME Finish(w) \/ End(w) PROVE TypeOK'
    <2>1. Working(w) /\ Command(w) \in Commands
      BY <1>6, InHand DEF Finish, End, Working
    <2>2. row' \in [Commands -> CommandRow]
      BY <1>6, <2>1, DeliveredTyped DEF Finish, End
    <2> QED
      BY <1>6, <2>2, RestTyped DEF TypeOK, Finish, End
  <1>7. ASSUME Charge(w) PROVE TypeOK'
    <2>1. Working(w) /\ Command(w) \in Commands
      BY <1>7, InHand DEF Charge, Working
    <2>2. row[Command(w)] \in CommandRow
      BY <2>1 DEF TypeOK
    <2>6. row[Command(w)].attempts + 1 \in Nat
      BY <2>2 DEF CommandRow
    <2>3. [row[Command(w)] EXCEPT !.attempts = @ + 1, !.due = FALSE] \in CommandRow
      BY <2>2, <2>6 DEF CommandRow
    <2>4. row' \in [Commands -> CommandRow]
      BY <1>7, <2>1, <2>3 DEF TypeOK, Charge, Charged
    <2>5. work' \in [Workers -> Work \cup {NoWork}] /\ lock' \in Workers \cup {NoWorker}
      BY <1>7, <2>1, StepKept, RestTyped DEF TypeOK, Charge
    <2> QED
      BY <1>7, <2>4, <2>5 DEF TypeOK, Charge
  <1>8. ASSUME Publish(w) PROVE TypeOK'
    <2>1. Working(w) /\ work[w] \in Work /\ Command(w) \in Commands
      BY <1>8, InHand DEF Publish, Working
    <2>2. work[w].reply \in Reply
      BY <2>1 DEF Work
    <2>3. work' \in [Workers -> Work \cup {NoWork}]
      BY <1>8, <2>1, StepKept DEF Publish
    <2> QED
      BY <1>8, <2>1, <2>2, <2>3 DEF TypeOK, Publish
  <1> QED
    BY <1>1, <1>2, <1>3, <1>4, <1>5, <1>6, <1>7, <1>8 DEF WorkerStep, Advance

LEMMA StepTyped == TypeOK /\ [Next]_vars => TypeOK'
  <1>1. TypeOK /\ UNCHANGED vars => TypeOK'
    BY DEF TypeOK, vars
  <1> QED
    BY <1>1, EnvironmentTyped, WorkTyped DEF Next

\* Every variable keeps its type and every counter its bound, whoever holds
\* or loses the lock.
THEOREM TypeCorrect == Spec => []TypeOK
  BY InitTyped, StepTyped, PTL DEF Spec

-----------------------------------------------------------------------------
\* Only the holder of the lock is at work.
Alone == \A w \in Workers : Working(w) => lock = w

\* The relay has what the rows hold.
Sent == \A x \in relay : x[2] # 0 /\ x[2] = row[x[1]].response

\* What a worker read, or signed, is what the row holds.
Holding(w) ==
  /\ work[w].step = "taken" => work[w].stored = row[Command(w)].response
  /\ work[w].step \in {"executing", "composed"} => row[Command(w)].response = 0 /\ work[w].reply # 0
  /\ work[w].step \in {"stored", "checked", "accepted"} =>
       work[w].reply # 0 /\ work[w].reply = row[Command(w)].response

\* An answer that was out of date when it was taken stays so, and is not on
\* its way to the relay.
Outdated(w) ==
  ~work[w].fresh =>
    /\ work[w].stored # 0
    /\ row[Command(w)].draft \notin {0, revision}
    /\ work[w].step \notin {"executing", "composed", "checked", "accepted"}

\* No draft is ahead of the document.
DraftPast == \A c \in Commands : row[c].draft <= revision

InOrder ==
  /\ Alone
  /\ Sent
  /\ \A w \in Workers : Working(w) => Holding(w) /\ Outdated(w)

IInv == TypeOK /\ DraftPast /\ (Serialized => InOrder)

LEMMA InitOrdered == Init => IInv
  <1> SUFFICES ASSUME Init PROVE IInv
    OBVIOUS
  <1>1. DraftPast
    BY DEF Init, DraftPast, NoRow
  <1>2. InOrder
    BY DEF Init, InOrder, Alone, Sent, Working, NoWork
  <1> QED
    BY <1>1, <1>2, InitTyped DEF IInv

LEMMA StepDraft ==
  ASSUME TypeOK, DraftPast, [Next]_vars
  PROVE  DraftPast'
  <1> USE DEF DraftPast
  <1>1. \A c \in Commands : row[c].draft \in Nat /\ revision \in Nat
    BY DEF TypeOK, CommandRow, Revision
  <1>2. ASSUME Change PROVE DraftPast'
    BY <1>1, <1>2 DEF Change
  <1>3. ASSUME UNCHANGED revision, \A c \in Commands : row'[c].draft \in {row[c].draft, revision}
        PROVE  DraftPast'
    BY <1>1, <1>3
  <1>4. ASSUME NEW c \in Commands, Receive(c) \/ Wait(c) \/ Age(c) \/ Delete(c) PROVE DraftPast'
    <2>1. \A d \in Commands : row'[d].draft = row[d].draft
      BY <1>4 DEF TypeOK, CommandRow, Receive, Wait, Age, Delete
    <2> QED
      BY <1>3, <1>4, <2>1 DEF Receive, Wait, Age, Delete
  <1>5. ASSUME NEW w \in Workers, WorkerStep(w) PROVE DraftPast'
    <2>1. ASSUME NEW c \in Commands, Delivered(c) PROVE \A d \in Commands : row'[d].draft = row[d].draft
      BY <2>1 DEF TypeOK, CommandRow, Delivered
    <2>2. ASSUME NEW c \in Commands, Take(w, c) PROVE DraftPast'
      BY <1>3, <2>2 DEF Take
    <2>3. Advance(w) => Working(w)
      BY DEF Advance, Begin, Execute, Store, Check, Publish, Finish, Charge, End, Working
    <2>4. ASSUME Begin(w) \/ Check(w) \/ Finish(w) \/ End(w) \/ Publish(w) PROVE DraftPast'
      <3>1. Command(w) \in Commands
        BY <2>3, <2>4, InHand DEF Advance
      <3>2. \A d \in Commands : row'[d].draft = row[d].draft
        BY <2>1, <2>4, <3>1 DEF Begin, Check, Finish, End, Publish
      <3> QED
        BY <1>3, <2>4, <3>2 DEF Begin, Check, Finish, End, Publish
    <2>5. ASSUME Execute(w) PROVE DraftPast'
      BY <1>3, <2>5 DEF TypeOK, CommandRow, Execute
    <2>6. ASSUME Store(w) \/ Charge(w) PROVE DraftPast'
      <3>1. \A d \in Commands : row'[d].draft = row[d].draft
        BY <2>6 DEF TypeOK, CommandRow, Store, Charge, Charged
      <3> QED
        BY <1>3, <2>6, <3>1 DEF Store, Charge
    <2> QED
      BY <1>5, <2>2, <2>4, <2>5, <2>6 DEF WorkerStep, Advance
  <1>6. ASSUME Revoke \/ UNCHANGED vars \/ \E w \in Workers : Fault(w) \/ Crash(w) \/ LoseLock(w)
        PROVE  DraftPast'
    BY <1>3, <1>6 DEF Revoke, vars, Fault, Crash, LoseLock
  <1> QED
    BY <1>2, <1>4, <1>5, <1>6 DEF Next

\* While the lock was never lost, nobody but the worker that takes a step is
\* at work before or after it.
LEMMA OthersIdle ==
  ASSUME TypeOK, InOrder, NEW w \in Workers, WorkerStep(w), NEW v \in Workers, v # w
  PROVE  ~Working(v) /\ ~Working(v)'
  <1>1. ~Working(v)
    <2>1. CASE Advance(w)
      <3>1. Working(w)
        BY <2>1 DEF Advance, Begin, Execute, Store, Check, Publish, Finish, Charge, End, Working
      <3> QED
        BY <3>1 DEF InOrder, Alone
    <2>2. ASSUME NEW c \in Commands, Take(w, c) PROVE ~Working(v)
      BY <2>2, NoWorkerAssumption DEF Take, InOrder, Alone
    <2> QED
      BY <2>1, <2>2 DEF WorkerStep
  <1>2. work'[v] = work[v]
    BY DEF TypeOK, WorkerStep, Advance, Take, Begin, Execute, Store, Check, Publish, Finish, Charge, End,
       Step, Rest
  <1> QED
    BY <1>1, <1>2 DEF Working

\* Then order needs to be shown for that worker and for the relay only.
LEMMA OrderedAlone ==
  ASSUME TypeOK, InOrder, NEW w \in Workers, WorkerStep(w), Sent',
         Working(w)' => lock' = w /\ Holding(w)' /\ Outdated(w)'
  PROVE  InOrder'
  <1>1. \A v \in Workers : Working(v)' => v = w
    BY OthersIdle
  <1> QED
    BY <1>1 DEF InOrder, Alone

\* A statement that touches neither response, draft nor relay.
LEMMA StepHeld ==
  ASSUME TypeOK, InOrder, UNCHANGED <<relay, revision>>,
         \A c \in Commands : row'[c].response = row[c].response /\ row'[c].draft = row[c].draft
  PROVE  /\ Sent'
         /\ \A w \in Workers : Working(w) /\ work'[w] = work[w] => Holding(w)' /\ Outdated(w)'
  <1>1. Sent'
    <2>1. \A x \in relay : x[1] \in Commands
      BY DEF TypeOK
    <2> QED
      BY <2>1 DEF InOrder, Sent
  <1>2. ASSUME NEW w \in Workers, Working(w), work'[w] = work[w] PROVE Holding(w)' /\ Outdated(w)'
    <2>1. Command(w) \in Commands /\ Command(w)' = Command(w)
      BY <1>2, InHand DEF Command
    <2>2. Holding(w) /\ Outdated(w)
      BY <1>2 DEF InOrder
    <2>3. Holding(w)'
      BY <1>2, <2>1, <2>2 DEF Holding
    <2>4. Outdated(w)'
      BY <1>2, <2>1, <2>2 DEF Outdated
    <2> QED
      BY <2>3, <2>4
  <1> QED
    BY <1>1, <1>2

LEMMA WorkOrdered ==
  ASSUME TypeOK, DraftPast, InOrder, NEW w \in Workers, WorkerStep(w)
  PROVE  InOrder'
  <1> DEFINE c == Command(w)
  <1>1. Advance(w) => /\ Working(w) /\ lock = w /\ Holding(w) /\ Outdated(w)
                      /\ work[w] \in Work /\ c \in Commands /\ row[c] \in CommandRow
    <2>1. Advance(w) => Working(w)
      BY DEF Advance, Begin, Execute, Store, Check, Publish, Finish, Charge, End, Working
    <2> QED
      BY <2>1, InHand DEF InOrder, Alone, TypeOK
  <1>2. ASSUME NEW d \in Commands, Delivered(d)
        PROVE  \A e \in Commands : row'[e].response = row[e].response /\ row'[e].draft = row[e].draft
    BY <1>2 DEF TypeOK, CommandRow, Delivered
  <1>3. Rest(w) => ~Working(w)'
    BY DEF TypeOK, Rest, Working, NoWork
  <1>4. ASSUME NEW d \in Commands, Take(w, d) PROVE InOrder'
    <2>1. Sent'
      BY <1>4 DEF Take, InOrder, Sent
    <2>2. work'[w] = [step |-> "taken", command |-> d, stored |-> row[d].response, reply |-> 0,
                      fresh |-> row[d].response = 0 \/ EvidenceCurrent(d)]
      BY <1>4 DEF TypeOK, Take
    <2>3. lock' = w /\ Holding(w)'
      BY <1>4, <2>2 DEF Take, Holding, Command
    <2>4. Outdated(w)'
      <3>1. ASSUME ~work'[w].fresh PROVE row[d].response # 0 /\ row[d].draft \notin {0, revision}
        <4>1. work'[w].fresh = (row[d].response = 0 \/ row[d].draft \in {0, revision})
          BY <2>2 DEF EvidenceCurrent
        <4> QED
          BY <3>1, <4>1
      <3>2. /\ work'[w].stored = row[d].response /\ Command(w)' = d /\ work'[w].step = "taken"
            /\ row' = row /\ revision' = revision
        BY <1>4, <2>2 DEF Take, Command
      <3> QED
        BY <3>1, <3>2 DEF Outdated
    <2> QED
      BY <2>1, <2>3, <2>4, OrderedAlone
  <1>5. ASSUME Begin(w) PROVE InOrder'
    <2>1. /\ Working(w) /\ lock = w /\ Holding(w) /\ Outdated(w) /\ work[w] \in Work /\ c \in Commands
      BY <1>1, <1>5 DEF Advance
    <2>2. \A e \in Commands : row'[e].response = row[e].response /\ row'[e].draft = row[e].draft
      BY <1>2, <1>5, <2>1 DEF Begin
    <2>3. Sent'
      BY <1>5, <2>2, StepHeld DEF Begin
    <2>4. CASE Step(w, "denied") /\ UNCHANGED lock
      <3>1. work'[w] = [work[w] EXCEPT !.step = "denied"]
        BY <2>4 DEF TypeOK, Step
      <3>2. Holding(w)' /\ Outdated(w)'
        BY <1>5, <2>1, <2>2, <3>1 DEF Begin, Work, Holding, Outdated, Command
      <3> QED
        BY <2>1, <2>3, <2>4, <3>2, OrderedAlone
    <2>5. CASE Rest(w)
      BY <1>3, <2>3, <2>5, OrderedAlone
    <2>6. CASE work[w].stored # 0 /\ work' = [work EXCEPT ![w].step = "stored", ![w].reply = work[w].stored]
               /\ UNCHANGED lock
      <3>1. work'[w] = [work[w] EXCEPT !.step = "stored", !.reply = work[w].stored]
        BY <2>6 DEF TypeOK
      <3>2. /\ work'[w].step = "stored" /\ work'[w].reply = work[w].stored /\ Command(w)' = c
            /\ work'[w].stored = work[w].stored /\ work'[w].fresh = work[w].fresh
        BY <2>1, <3>1 DEF Work, Command
      <3>3. Holding(w)' /\ Outdated(w)'
        BY <1>5, <2>1, <2>2, <2>6, <3>2 DEF Begin, Holding, Outdated
      <3> QED
        BY <2>1, <2>3, <2>6, <3>3, OrderedAlone
    <2>7. CASE work[w].stored = 0 /\ work' = [work EXCEPT ![w].step = "executing", ![w].reply = runs + 1]
               /\ UNCHANGED lock
      <3>1. work'[w] = [work[w] EXCEPT !.step = "executing", !.reply = runs + 1]
        BY <2>7 DEF TypeOK
      <3>2. runs + 1 # 0
        BY DEF TypeOK, Reply
      <3>4. /\ work'[w].step = "executing" /\ work'[w].reply = runs + 1 /\ Command(w)' = c
            /\ work'[w].fresh = work[w].fresh
        BY <2>1, <3>1 DEF Work, Command
      <3>3. Holding(w)' /\ Outdated(w)'
        BY <1>5, <2>1, <2>2, <2>7, <3>2, <3>4 DEF Begin, Holding, Outdated
      <3> QED
        BY <2>1, <2>3, <2>7, <3>3, OrderedAlone
    <2> QED
      BY <1>5, <2>4, <2>5, <2>6, <2>7 DEF Begin
  <1>6. ASSUME Execute(w) PROVE InOrder'
    <2>1. /\ Working(w) /\ lock = w /\ Holding(w) /\ Outdated(w) /\ work[w] \in Work /\ c \in Commands
      BY <1>1, <1>6 DEF Advance
    <2>2. \A e \in Commands : row'[e].response = row[e].response
      BY <1>6 DEF TypeOK, CommandRow, Execute
    <2>3. Sent'
      <3>1. \A x \in relay : x[1] \in Commands
        BY DEF TypeOK
      <3> QED
        BY <1>6, <2>2, <3>1 DEF Execute, InOrder, Sent
    <2>4. work'[w] = [work[w] EXCEPT !.step = "composed"]
      BY <1>6 DEF TypeOK, Execute, Step
    <2>5. work[w].fresh
      BY <1>6, <2>1 DEF Execute, Outdated
    <2>6. Holding(w)' /\ Outdated(w)'
      BY <1>6, <2>1, <2>2, <2>4, <2>5 DEF Execute, Work, Holding, Outdated, Command
    <2> QED
      BY <1>6, <2>1, <2>3, <2>6, OrderedAlone DEF Execute
  <1>7. ASSUME Store(w) PROVE InOrder'
    <2>1. /\ Working(w) /\ lock = w /\ Holding(w) /\ Outdated(w) /\ work[w] \in Work /\ c \in Commands
          /\ row[c] \in CommandRow
      BY <1>1, <1>7 DEF Advance
    <2>2. row'[c].response = work[w].reply
      BY <1>7, <2>1 DEF TypeOK, CommandRow, Store
    <2>3. \A e \in Commands \ {c} : row'[e] = row[e]
      BY <1>7 DEF TypeOK, Store
    <2>4. row[c].response = 0 /\ work[w].reply # 0
      BY <1>7, <2>1 DEF Store, Holding
    <2>5. Sent'
      <3>1. \A x \in relay : x[1] \in Commands /\ x[2] # 0 /\ x[2] = row[x[1]].response
        BY DEF TypeOK, InOrder, Sent
      <3>2. \A x \in relay : x[1] # c
        BY <2>4, <3>1
      <3> QED
        BY <1>7, <2>3, <3>1, <3>2 DEF Store, Sent
    <2>6. work'[w] = [work[w] EXCEPT !.step = "stored"]
      BY <1>7 DEF TypeOK, Store, Step
    <2>7. work[w].fresh
      BY <1>7, <2>1 DEF Store, Outdated
    <2>8. Holding(w)' /\ Outdated(w)'
      BY <2>1, <2>2, <2>4, <2>6, <2>7 DEF Work, Holding, Outdated, Command
    <2> QED
      BY <1>7, <2>1, <2>5, <2>8, OrderedAlone DEF Store
  <1>8. ASSUME Check(w) PROVE InOrder'
    <2>1. /\ Working(w) /\ lock = w /\ Holding(w) /\ Outdated(w) /\ work[w] \in Work /\ c \in Commands
      BY <1>1, <1>8 DEF Advance
    <2>2. \A e \in Commands : row'[e].response = row[e].response /\ row'[e].draft = row[e].draft
      BY <1>2, <1>8, <2>1 DEF Check
    <2>3. Sent'
      BY <1>8, <2>2, StepHeld DEF Check
    <2>4. CASE Rest(w)
      BY <1>3, <2>3, <2>4, OrderedAlone
    <2>5. CASE Step(w, "denied") /\ UNCHANGED lock
      <3>1. work'[w] = [work[w] EXCEPT !.step = "denied"]
        BY <2>5 DEF TypeOK, Step
      <3>2. Holding(w)' /\ Outdated(w)'
        BY <1>8, <2>1, <2>2, <3>1 DEF Check, Work, Holding, Outdated, Command
      <3> QED
        BY <2>1, <2>3, <2>5, <3>2, OrderedAlone
    <2>6. CASE Deliverable(c) /\ Step(w, "checked") /\ UNCHANGED lock
      <3>1. work'[w] = [work[w] EXCEPT !.step = "checked"]
        BY <2>6 DEF TypeOK, Step
      <3>2. work[w].fresh
        BY <2>1, <2>6 DEF Deliverable, EvidenceCurrent, Outdated
      <3>3. Holding(w)' /\ Outdated(w)'
        BY <1>8, <2>1, <2>2, <3>1, <3>2 DEF Check, Work, Holding, Outdated, Command
      <3> QED
        BY <2>1, <2>3, <2>6, <3>3, OrderedAlone
    <2> QED
      BY <1>8, <2>4, <2>5, <2>6 DEF Check
  <1>9. ASSUME Publish(w) PROVE InOrder'
    <2>1. /\ Working(w) /\ lock = w /\ Holding(w) /\ Outdated(w) /\ work[w] \in Work /\ c \in Commands
      BY <1>1, <1>9 DEF Advance
    <2>2. work[w].reply # 0 /\ work[w].reply = row[c].response
      BY <1>9, <2>1 DEF Publish, Holding
    <2>3. Sent'
      BY <1>9, <2>2 DEF Publish, InOrder, Sent
    <2>4. work'[w] = [work[w] EXCEPT !.step = "accepted"]
      BY <1>9 DEF TypeOK, Publish, Step
    <2>5. Holding(w)' /\ Outdated(w)'
      BY <1>9, <2>1, <2>2, <2>4 DEF Publish, Work, Holding, Outdated, Command
    <2> QED
      BY <1>9, <2>1, <2>3, <2>5, OrderedAlone DEF Publish
  <1>10. ASSUME Finish(w) \/ End(w) PROVE InOrder'
    <2>1. c \in Commands
      BY <1>1, <1>10 DEF Advance
    <2>2. Sent'
      BY <1>2, <1>10, <2>1, StepHeld DEF Finish, End
    <2> QED
      BY <1>3, <1>10, <2>2, OrderedAlone DEF Finish, End
  <1>11. ASSUME Charge(w) PROVE InOrder'
    <2>1. /\ Working(w) /\ lock = w /\ Holding(w) /\ Outdated(w) /\ work[w] \in Work /\ c \in Commands
      BY <1>1, <1>11 DEF Advance
    <2>2. \A e \in Commands : row'[e].response = row[e].response /\ row'[e].draft = row[e].draft
      BY <1>11 DEF TypeOK, CommandRow, Charge
    <2>3. Sent'
      BY <1>11, <2>2, StepHeld DEF Charge
    <2>4. CASE Rest(w)
      BY <1>3, <2>3, <2>4, OrderedAlone
    <2>5. CASE Step(w, "ending") /\ UNCHANGED lock
      <3>1. work'[w] = [work[w] EXCEPT !.step = "ending"]
        BY <2>5 DEF TypeOK, Step
      <3>2. Holding(w)' /\ Outdated(w)'
        BY <1>11, <2>1, <2>2, <3>1 DEF Charge, Work, Holding, Outdated, Command
      <3> QED
        BY <2>1, <2>3, <2>5, <3>2, OrderedAlone
    <2> QED
      BY <1>11, <2>4, <2>5 DEF Charge
  <1> QED
    BY <1>4, <1>5, <1>6, <1>7, <1>8, <1>9, <1>10, <1>11 DEF WorkerStep, Advance

LEMMA EnvironmentOrdered ==
  ASSUME TypeOK, DraftPast, InOrder, Serialized',
         \/ \E c \in Commands : Receive(c) \/ Wait(c) \/ Age(c) \/ Delete(c)
         \/ Change \/ Revoke
         \/ \E w \in Workers : Fault(w) \/ Crash(w) \/ LoseLock(w)
  PROVE  InOrder'
  <1>1. ASSUME UNCHANGED <<relay, revision, work, lock>>,
               \A c \in Commands : row'[c].response = row[c].response /\ row'[c].draft = row[c].draft
        PROVE  InOrder'
    BY <1>1, StepHeld DEF InOrder, Alone, Working
  <1>2. ASSUME NEW c \in Commands, Receive(c) \/ Wait(c) \/ Age(c) \/ Delete(c) PROVE InOrder'
    <2>1. \A d \in Commands : row'[d].response = row[d].response /\ row'[d].draft = row[d].draft
      BY <1>2 DEF TypeOK, CommandRow, Receive, Wait, Age, Delete
    <2> QED
      BY <1>1, <1>2, <2>1 DEF Receive, Wait, Age, Delete
  <1>3. ASSUME Change PROVE InOrder'
    <2>1. ASSUME NEW w \in Workers, Working(w) PROVE Holding(w)' /\ Outdated(w)'
      <3>1. Command(w) \in Commands /\ Holding(w) /\ Outdated(w)
        BY <2>1, InHand DEF InOrder
      <3>2. row[Command(w)].draft \in Nat /\ row[Command(w)].draft <= revision /\ revision \in Nat
        BY <3>1 DEF TypeOK, CommandRow, Revision, DraftPast
      <3>3. row[Command(w)].draft # revision + 1
        BY <3>2
      <3>4. Holding(w)'
        BY <1>3, <3>1 DEF Change, Holding, Command
      <3>5. Outdated(w)'
        BY <1>3, <3>1, <3>3 DEF Change, Outdated, Command
      <3> QED
        BY <3>4, <3>5
    <2> QED
      BY <1>3, <2>1 DEF Change, InOrder, Alone, Sent, Working
  <1>4. ASSUME Revoke PROVE InOrder'
    BY <1>1, <1>4 DEF Revoke
  <1>5. ASSUME NEW w \in Workers, Fault(w) PROVE InOrder'
    <2>1. Working(w) /\ work[w] \in Work /\ Command(w) \in Commands /\ Outdated(w)
      BY <1>5, InHand DEF Fault, InOrder
    <2>2. work'[w] = [work[w] EXCEPT !.step = "failed"] /\ \A v \in Workers \ {w} : work'[v] = work[v]
      BY <1>5 DEF TypeOK, Fault, Step
    <2>3. Holding(w)' /\ Outdated(w)'
      BY <1>5, <2>1, <2>2 DEF Fault, Work, Holding, Outdated, Command
    <2>4. Sent' /\ \A v \in Workers : Working(v) /\ work'[v] = work[v] => Holding(v)' /\ Outdated(v)'
      BY <1>5, StepHeld DEF Fault
    <2>5. \A v \in Workers : Working(v)' => Working(v)
      BY <2>1, <2>2 DEF Working
    <2> QED
      BY <1>5, <2>2, <2>3, <2>4, <2>5 DEF Fault, InOrder, Alone
  <1>6. ASSUME NEW w \in Workers, Crash(w) PROVE InOrder'
    <2>1. Working(w) /\ lock = w
      BY <1>6 DEF Crash, InOrder, Alone
    <2>2. \A v \in Workers : ~Working(v)'
      BY <1>6, <2>1 DEF TypeOK, Crash, Rest, InOrder, Alone, Working, NoWork
    <2>3. Sent'
      BY <1>6 DEF Crash, InOrder, Sent
    <2> QED
      BY <2>2, <2>3 DEF InOrder, Alone
  <1>7. ASSUME NEW w \in Workers, LoseLock(w) PROVE FALSE
    BY <1>7 DEF TypeOK, LoseLock, Serialized
  <1> QED
    BY <1>2, <1>3, <1>4, <1>5, <1>6, <1>7

LEMMA StepOrdered == IInv /\ [Next]_vars => IInv'
  <1> SUFFICES ASSUME IInv, [Next]_vars PROVE IInv'
    OBVIOUS
  <1>1. TypeOK' /\ DraftPast'
    BY StepTyped, StepDraft DEF IInv
  <1>2. Serialized' => Serialized
    <2>1. spent.losses \in Nat
      BY BoundsAssumption DEF IInv, TypeOK
    <2>2. spent'.losses = spent.losses \/ spent'.losses = spent.losses + 1
      BY DEF IInv, TypeOK, Next, vars, WorkerStep, Advance, Take, Begin, Execute, Store, Check, Publish,
         Finish, Charge, End, Fault, Crash, LoseLock, Receive, Wait, Age, Delete, Change, Revoke
    <2> QED
      BY <2>1, <2>2 DEF Serialized
  <1>3. ASSUME Serialized' PROVE InOrder'
    <2>1. InOrder
      BY <1>2, <1>3 DEF IInv
    <2>2. CASE UNCHANGED vars
      BY <2>1, <2>2 DEF vars, InOrder, Alone, Sent, Working, Holding, Outdated, Command
    <2> QED
      BY <1>3, <2>1, <2>2, WorkOrdered, EnvironmentOrdered DEF IInv, Next
  <1> QED
    BY <1>1, <1>3 DEF IInv

\* Of serialized workers, a command gets at most one reply, through every
\* retry, restart and lost answer.
THEOREM OneReplyHolds == Spec => []OneReply
  <1>1. IInv => OneReply
    BY DEF IInv, TypeOK, InOrder, Sent, OneReply, SameReply
  <1> QED
    BY <1>1, InitOrdered, StepOrdered, PTL DEF Spec

\* Of serialized workers, an answer whose evidence changed while it waited is
\* not sent by a later attempt.
THEOREM StaleAnswerKeptHolds == Spec => StaleAnswerKept
  <1>1. IInv => (Serialized => \A w \in Workers : Publish(w) => work[w].fresh)
    BY DEF IInv, InOrder, Publish, Working, Outdated
  <1> QED
    BY <1>1, InitOrdered, StepOrdered, PTL DEF Spec, StaleAnswerKept
=============================================================================
