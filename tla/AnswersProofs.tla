---------------------------- MODULE AnswersProofs ----------------------------
(***************************************************************************)
(* Proofs about the signed questions.                                      *)
(*                                                                         *)
(* A slot is taken and given back by one handler each time, so the counter *)
(* is the number of handlers inside.  A claimed proof is remembered, or it *)
(* is out of the window for good, so it is claimed once; and what is       *)
(* remembered was claimed by a request of its own call.  A document that   *)
(* was not current at the end of the inference never becomes so at the     *)
(* revision that was read, and the recheck finds it.                       *)
(***************************************************************************)
EXTENDS Answers, FiniteSetTheorems, SequenceTheorems, WellFoundedInduction, TLAPS

-----------------------------------------------------------------------------
(***************************************************************************)
(* Types.                                                                  *)
(***************************************************************************)
LEMMA InitTyped == Init => TypeOK
  <1> SUFFICES ASSUME Init PROVE TypeOK
    OBVIOUS
  <1> USE BoundsAssumption DEF Init
  <1>1. Removed \in Standing /\ 0 \in Standing /\ 0 \in 0..MaxTime /\ 0 \in 0..MaxTroubles /\ 0 \in 0..MaxChanges
    BY DEF Standing
  <1>2. docs \in [Docs -> [rev : 0..MaxChanges, ok : BOOLEAN]]
    BY <1>1
  <1>3. client \in [Calls -> Call]
    BY DEF Call
  <1>4. request \in [Requests -> Handler]
    BY <1>1 DEF Handler
  <1>5. standing \in Standing /\ key \in BOOLEAN /\ mcp \in {"down", "up", "exited"}
    BY <1>1
  <1>6. seen \in Seq(Entry) /\ active \in Int /\ now \in 0..MaxTime /\ troubles \in 0..MaxTroubles
    BY <1>1
  <1> QED
    BY <1>2, <1>3, <1>4, <1>5, <1>6 DEF TypeOK

\* What a step does to one call keeps the calls typed.
LEMMA EndedTyped ==
  ASSUME TypeOK, NEW c \in Calls, NEW outcome, Ended(c, outcome),
         outcome \in {"none", "help", "usage", "identity", "error", "results", "grounded", "ungrounded"}
  PROVE  client' \in [Calls -> Call]
  <1>1. client[c] \in Call
    BY DEF TypeOK
  <1>2. [client[c] EXCEPT !.step = "ended", !.outcome = outcome] \in Call
    BY <1>1 DEF Call
  <1>3. client' = [client EXCEPT ![c] = [client[c] EXCEPT !.step = "ended", !.outcome = outcome]]
    BY DEF TypeOK, Ended
  <1> QED
    BY <1>2, <1>3 DEF TypeOK

\* A handler that answers, or goes on, keeps the handlers typed.
LEMMA AnswersTyped ==
  ASSUME TypeOK, NEW r \in Requests, NEW status \in {"ok", "refused", "used", "withheld"}, Answers(r, status)
  PROVE  request' \in [Requests -> Handler] /\ active' \in Int
  <1>1. Removed \in Standing
    BY DEF Standing
  <1>2. request[r] \in Handler
    BY DEF TypeOK
  <1>3. [step |-> "done", status |-> status, as |-> Removed, left |-> {}, held |-> TRUE,
         cites |-> IF status = "ok" THEN request[r].cites ELSE {}] \in Handler
    BY <1>1, <1>2 DEF Handler
  <1> QED
    BY <1>3 DEF TypeOK, Answers

LEMMA GoesTyped ==
  ASSUME TypeOK, NEW r \in Requests, NEW step, Goes(r, step),
         step \in {"sent", "body", "claimed", "verifying", "citing", "releasing"}
  PROVE  request' \in [Requests -> Handler]
  <1>1. request[r] \in Handler
    BY DEF TypeOK
  <1>2. [request[r] EXCEPT !.step = step] \in Handler
    BY <1>1 DEF Handler
  <1>3. request' = [request EXCEPT ![r] = [request[r] EXCEPT !.step = step]]
    BY DEF TypeOK, Goes
  <1> QED
    BY <1>2, <1>3 DEF TypeOK

LEMMA McpTyped == TypeOK /\ StartMcp => TypeOK'
  BY DEF TypeOK, StartMcp

LEMMA ClientTyped ==
  ASSUME TypeOK, NEW c \in Calls, ClientStep(c)
  PROVE  TypeOK'
  <1> USE BoundsAssumption
  <1>1. ASSUME NEW command \in {"help", "unknown", "whoami"}, RunLocal(c, command) PROVE TypeOK'
    <2>1. PICK outcome \in {"help", "usage", "identity", "error"} : Ended(c, outcome)
      BY <1>1 DEF RunLocal
    <2> QED
      BY <1>1, <2>1, EndedTyped DEF TypeOK, RunLocal
  <1>2. CASE Invalid(c)
    BY <1>2, EndedTyped DEF TypeOK, Invalid
  <1>3. CASE NoKey(c)
    BY <1>3, EndedTyped DEF TypeOK, NoKey
  <1>4. CASE Post(c)
    <2>1. PICK tool \in ToolsOf[c] :
            client' = [client EXCEPT ![c].step = "waiting", ![c].proof = Proof(c, tool)]
      BY <1>4 DEF Post
    <2>2. tool \in {"ask", "search"}
      BY <2>1, CallsAssumption
    <2>3. Proof(c, tool) \in Signed
      BY <2>2 DEF TypeOK, Proof, Nonce, Signed
    <2>4. client' \in [Calls -> Call]
      <3>1. client[c] \in Call
        BY DEF TypeOK
      <3>2. [client[c] EXCEPT !.step = "waiting", !.proof = Proof(c, tool)] \in Call
        BY <2>3, <3>1 DEF Call
      <3>3. client' = [client EXCEPT ![c] = [client[c] EXCEPT !.step = "waiting", !.proof = Proof(c, tool)]]
        BY <2>1 DEF TypeOK
      <3> QED
        BY <3>2, <3>3 DEF TypeOK
    <2>5. request' \in [Requests -> Handler]
      <3>1. <<c, "original">> \in Requests
        BY DEF Requests, Copies
      <3>2. Goes(<<c, "original">>, "sent")
        BY <1>4 DEF Post, Goes
      <3> QED
        BY <3>1, <3>2, GoesTyped
    <2> QED
      BY <1>4, <2>4, <2>5 DEF TypeOK, Post
  <1>5. CASE Timeout(c)
    BY <1>5, EndedTyped DEF TypeOK, Timeout, Trouble
  <1>6. ASSUME NEW k \in Copies, Headers(c, k) PROVE TypeOK'
    <2>1. client' \in [Calls -> Call]
      <3>1. PICK step \in {"reading", "reading copy"} : client' = [client EXCEPT ![c].step = step]
        BY <1>6 DEF Headers
      <3>2. client[c] \in Call
        BY DEF TypeOK
      <3>3. [client[c] EXCEPT !.step = step] \in Call
        BY <3>2 DEF Call
      <3>4. client' = [client EXCEPT ![c] = [client[c] EXCEPT !.step = step]]
        BY <3>1 DEF TypeOK
      <3> QED
        BY <3>3, <3>4 DEF TypeOK
    <2> QED
      BY <1>6, <2>1 DEF TypeOK, Headers
  <1>7. ASSUME NEW k \in Copies, ReadBody(c, k) PROVE TypeOK'
    <2>1. Outcome(c, request[<<c, k>>]) \in {"error", "results", "grounded", "ungrounded"}
      BY DEF Outcome
    <2>2. client' \in [Calls -> Call]
      BY <1>7, <2>1, EndedTyped DEF ReadBody
    <2>3. troubles' \in 0..MaxTroubles
      <3>1. UNCHANGED troubles \/ Trouble
        BY <1>7 DEF ReadBody
      <3> QED
        BY <3>1 DEF TypeOK, Trouble
    <2> QED
      BY <1>7, <2>2, <2>3 DEF TypeOK, ReadBody
  <1> QED
    BY <1>1, <1>2, <1>3, <1>4, <1>5, <1>6, <1>7 DEF ClientStep

LEMMA HandlerTyped ==
  ASSUME TypeOK, NEW r \in Requests, NEW h \in Handler, request' = [request EXCEPT ![r] = h]
  PROVE  request' \in [Requests -> Handler]
  BY DEF TypeOK

\* The documents that may be used are items.
LEMMA UsableItems == TypeOK => Usable \subseteq Item
  BY DEF TypeOK, Usable, Item

LEMMA RetrieveTyped ==
  ASSUME TypeOK, NEW r \in Requests, Retrieve(r)
  PROVE  request' \in [Requests -> Handler]
  <1>1. CASE Goes(r, "releasing")
    BY <1>1, GoesTyped
  <1>2. CASE \E evidence \in SUBSET Usable : \E cites \in Citable(evidence) :
               request' = [request EXCEPT ![r].step = "inferring", ![r].left = evidence, ![r].cites = cites]
    <2>0. PICK evidence \in SUBSET Usable : \E cites \in Citable(evidence) :
            request' = [request EXCEPT ![r].step = "inferring", ![r].left = evidence, ![r].cites = cites]
      BY <1>2
    <2>1. PICK cites \in Citable(evidence) :
            request' = [request EXCEPT ![r].step = "inferring", ![r].left = evidence, ![r].cites = cites]
      BY <2>0
    <2>2. evidence \in SUBSET Item /\ cites \in SUBSET Item
      BY UsableItems DEF Citable
    <2>3. [request[r] EXCEPT !.step = "inferring", !.left = evidence, !.cites = cites] \in Handler
      BY <2>2 DEF TypeOK, Handler
    <2>4. request' = [request EXCEPT ![r] = [request[r] EXCEPT !.step = "inferring", !.left = evidence, !.cites = cites]]
      BY <2>1 DEF TypeOK
    <2> QED
      BY <2>3, <2>4, HandlerTyped
  <1> QED
    BY <1>1, <1>2 DEF Retrieve

LEMMA RecheckTyped ==
  ASSUME TypeOK, NEW r \in Requests, Recheck(r)
  PROVE  request' \in [Requests -> Handler]
  <1>1. CASE Goes(r, "verifying")
    BY <1>1, GoesTyped
  <1>2. ASSUME NEW item \in request[r].left, request' = [request EXCEPT ![r].left = @ \ {item}]
        PROVE  request' \in [Requests -> Handler]
    <2>1. [request[r] EXCEPT !.left = request[r].left \ {item}] \in Handler
      BY DEF TypeOK, Handler
    <2>2. request' = [request EXCEPT ![r] = [request[r] EXCEPT !.left = request[r].left \ {item}]]
      BY <1>2 DEF TypeOK
    <2> QED
      BY <2>1, <2>2, HandlerTyped
  <1>3. CASE request' = [request EXCEPT ![r].step = "releasing", ![r].left = {}, ![r].cites = {}]
    <2>1. [request[r] EXCEPT !.step = "releasing", !.left = {}, !.cites = {}] \in Handler
      BY DEF TypeOK, Handler
    <2>2. request' = [request EXCEPT ![r] = [request[r] EXCEPT !.step = "releasing", !.left = {}, !.cites = {}]]
      BY <1>3 DEF TypeOK
    <2> QED
      BY <2>1, <2>2, HandlerTyped
  <1> QED
    BY <1>1, <1>2, <1>3 DEF Recheck

\* Proofs are forgotten from the oldest on, and none of them is one to keep.
LEMMA RememberedIsSuffix ==
  ASSUME TypeOK
  PROVE  \E n \in 0..Len(seen) :
           /\ Remembered(seen) \in Seq(Entry) /\ Len(Remembered(seen)) = Len(seen) - n
           /\ \A i \in 1..(Len(seen) - n) : Remembered(seen)[i] = seen[i + n]
           /\ \A i \in 1..n : i \notin Kept(seen)
  <1>1. seen \in Seq(Entry) /\ Len(seen) \in Nat
    BY DEF TypeOK
  <1>2. CASE Kept(seen) = {}
    <2>1. Remembered(seen) = <<>>
      BY <1>2 DEF Remembered
    <2>2. Remembered(seen) \in Seq(Entry) /\ Len(Remembered(seen)) = Len(seen) - Len(seen)
      BY <1>1, <2>1
    <2> QED
      BY <1>1, <1>2, <2>2
  <1>3. CASE Kept(seen) # {}
    <2>1. Kept(seen) \subseteq 1..Len(seen)
      BY DEF Kept
    <2>2. Kept(seen) \subseteq Nat
      BY <1>1, <2>1
    <2>3. \E x \in Kept(seen) : \A y \in Kept(seen) : ~(<<y, x>> \in OpToRel(<, Nat))
      BY <1>3, <2>2, NatLessThanWellFounded, WFMin
    <2>4. \E x \in Kept(seen) : \A y \in Kept(seen) : x <= y
      <3>1. PICK x \in Kept(seen) : \A y \in Kept(seen) : ~(<<y, x>> \in OpToRel(<, Nat))
        BY <2>3
      <3>2. ASSUME NEW y \in Kept(seen) PROVE x <= y
        <4>1. x \in Nat /\ y \in Nat
          BY <2>2
        <4>2. ~(y < x)
          BY <3>1, <4>1 DEF OpToRel
        <4> QED
          BY <4>1, <4>2
      <3> QED
        BY <3>2
    <2> DEFINE first == CHOOSE k \in Kept(seen) : \A j \in Kept(seen) : k <= j
    <2>5. first \in Kept(seen) /\ \A j \in Kept(seen) : first <= j
      BY <2>4
    <2>6. first \in 1..Len(seen)
      BY <2>1, <2>5
    <2>7. Remembered(seen) = SubSeq(seen, first, Len(seen))
      BY <1>3 DEF Remembered
    <2> HIDE DEF first
    <2>8. /\ SubSeq(seen, first, Len(seen)) \in Seq(Entry)
          /\ Len(SubSeq(seen, first, Len(seen))) = Len(seen) - first + 1
          /\ \A i \in 1..(Len(seen) - first + 1) : SubSeq(seen, first, Len(seen))[i] = seen[first + i - 1]
      BY <1>1, <2>6, SubSeqProperties
    <2>9. first - 1 \in 0..Len(seen)
      BY <1>1, <2>6
    <2>10. \A i \in 1..(first - 1) : i \notin Kept(seen)
      BY <1>1, <2>5, <2>6
    <2>11. \A i \in 1..(Len(seen) - (first - 1)) : Remembered(seen)[i] = seen[i + (first - 1)]
      BY <1>1, <2>6, <2>7, <2>8
    <2>12. Remembered(seen) \in Seq(Entry) /\ Len(Remembered(seen)) = Len(seen) - (first - 1)
      BY <1>1, <2>6, <2>7, <2>8
    <2> QED
      BY <2>9, <2>10, <2>11, <2>12
  <1> QED
    BY <1>2, <1>3

\* What was posted: a request on its way has the signed proof of its call.
Posted ==
  \A r \in Requests : request[r].step # "absent" =>
    /\ client[r[1]].step # "idle"
    /\ client[r[1]].proof \in Signed
    /\ client[r[1]].proof.nonce = r[1]
    /\ client[r[1]].proof.created <= now + Skew

LEMMA ApiTyped ==
  ASSUME TypeOK, Posted, NEW r \in Requests, ApiStep(r)
  PROVE  TypeOK'
  <1> USE BoundsAssumption
  <1>1. CASE Admit(r)
    <2>1. request' \in [Requests -> Handler]
      <3>1. CASE Goes(r, "body")
        BY <3>1, GoesTyped
      <3>2. CASE request' = [request EXCEPT ![r].step = "done", ![r].status = "refused"]
        <4>1. [request[r] EXCEPT !.step = "done", !.status = "refused"] \in Handler
          BY DEF TypeOK, Handler
        <4>2. request' = [request EXCEPT ![r] = [request[r] EXCEPT !.step = "done", !.status = "refused"]]
          BY <3>2 DEF TypeOK
        <4> QED
          BY <4>1, <4>2, HandlerTyped
      <3> QED
        BY <1>1, <3>1, <3>2 DEF Admit
    <2> QED
      BY <1>1, <2>1 DEF TypeOK, Admit
  <1>2. CASE BodyTimeout(r)
    BY <1>2, AnswersTyped DEF TypeOK, BodyTimeout, Trouble
  <1>3. CASE Disconnect(r)
    <2>1. request' \in [Requests -> Handler]
      <3>1. [request[r] EXCEPT !.step = "gone"] \in Handler
        BY DEF TypeOK, Handler
      <3>2. request' = [request EXCEPT ![r] = [request[r] EXCEPT !.step = "gone"]]
        BY <1>3 DEF TypeOK, Disconnect
      <3> QED
        BY <3>1, <3>2, HandlerTyped
    <2>2. active' \in Int
      BY <1>3 DEF TypeOK, Disconnect
    <2>3. UNCHANGED <<now, docs, standing, key, mcp, client, seen, troubles>>
      BY <1>3 DEF Disconnect
    <2> QED
      BY <2>1, <2>2, <2>3 DEF TypeOK
  <1>4. CASE Authenticate(r)
    <2>1. request' \in [Requests -> Handler] /\ active' \in Int
      <3>1. CASE Goes(r, "claimed") /\ UNCHANGED active
        BY <3>1, GoesTyped DEF TypeOK
      <3>2. CASE Answers(r, "refused") \/ Answers(r, "used")
        BY <3>2, AnswersTyped
      <3> QED
        BY <1>4, <3>1, <3>2 DEF Authenticate
    <2>2. seen' \in Seq(Entry)
      <3>1. CASE seen' = seen \/ seen' = Remembered(seen)
        BY <3>1, RememberedIsSuffix DEF TypeOK
      <3>2. CASE /\ request[r].step = "body" /\ InTime(client[r[1]].proof)
                 /\ seen' = Append(Remembered(seen), [proof |-> client[r[1]].proof, at |-> now])
        <4>1. client[r[1]].proof \in Signed
          BY <3>2 DEF Posted
        <4>2. [proof |-> client[r[1]].proof, at |-> now] \in Entry
          BY <4>1 DEF TypeOK, Entry
        <4> QED
          BY <3>2, <4>2, RememberedIsSuffix
      <3> QED
        BY <1>4, <3>1, <3>2 DEF Authenticate
    <2> QED
      BY <1>4, <2>1, <2>2 DEF TypeOK, Authenticate
  <1>5. CASE Identify(r)
    <2>1. request' \in [Requests -> Handler] /\ active' \in Int
      <3>1. CASE request' = [request EXCEPT ![r].step = "identified", ![r].as = standing] /\ UNCHANGED active
        <4>1. [request[r] EXCEPT !.step = "identified", !.as = standing] \in Handler
          BY DEF TypeOK, Handler
        <4>2. request' = [request EXCEPT ![r] = [request[r] EXCEPT !.step = "identified", !.as = standing]]
          BY <3>1 DEF TypeOK
        <4> QED
          BY <3>1, <4>1, <4>2, HandlerTyped DEF TypeOK
      <3> QED
        BY <1>5, <3>1, AnswersTyped DEF Identify
    <2> QED
      BY <1>5, <2>1 DEF TypeOK, Identify
  <1>6. CASE Retrieve(r)
    BY <1>6, RetrieveTyped DEF TypeOK, Retrieve
  <1>7. CASE Infer(r)
    <2>1. request' \in [Requests -> Handler]
      <3>1. PICK held \in BOOLEAN : request' = [request EXCEPT ![r].step = "rechecking", ![r].held = held]
        BY <1>7 DEF TypeOK, Infer, Handler
      <3>0. request[r] \in Handler
        BY DEF TypeOK
      <3>2. [request[r] EXCEPT !.step = "rechecking", !.held = held] \in Handler
        BY <3>0 DEF Handler
      <3>3. request' = [request EXCEPT ![r] = [request[r] EXCEPT !.step = "rechecking", !.held = held]]
        BY <3>1 DEF TypeOK
      <3> QED
        BY <3>2, <3>3, HandlerTyped
    <2> QED
      BY <1>7, <2>1 DEF TypeOK, Infer
  <1>8. CASE Recheck(r)
    BY <1>8, RecheckTyped DEF TypeOK, Recheck
  <1>9. CASE VerifyMember(r)
    <2>1. request' \in [Requests -> Handler] /\ active' \in Int
      BY <1>9, GoesTyped, AnswersTyped DEF TypeOK, VerifyMember
    <2> QED
      BY <1>9, <2>1 DEF TypeOK, VerifyMember
  <1>10. CASE VerifyCitations(r)
    <2>1. request' \in [Requests -> Handler] /\ active' \in Int
      BY <1>10, GoesTyped, AnswersTyped DEF TypeOK, VerifyCitations
    <2> QED
      BY <1>10, <2>1 DEF TypeOK, VerifyCitations
  <1>11. CASE Release(r)
    <2>1. request' \in [Requests -> Handler] /\ active' \in Int
      BY <1>11, AnswersTyped DEF Release
    <2> QED
      BY <1>11, <2>1 DEF TypeOK, Release
  <1> QED
    BY <1>1, <1>2, <1>3, <1>4, <1>5, <1>6, <1>7, <1>8, <1>9, <1>10, <1>11 DEF ApiStep

LEMMA SurroundingsTyped ==
  ASSUME TypeOK, Tick \/ ChangeStanding \/ \E d \in Docs : ChangeDocument(d)
  PROVE  TypeOK'
  <1> USE BoundsAssumption
  <1>1. CASE Tick
    BY <1>1 DEF TypeOK, Tick
  <1>2. CASE ChangeStanding
    <2>1. standing' \in Standing
      BY <1>2 DEF TypeOK, ChangeStanding, Standing, Removed
    <2> QED
      BY <1>2, <2>1 DEF TypeOK, ChangeStanding, Trouble
  <1>3. ASSUME NEW d \in Docs, ChangeDocument(d) PROVE TypeOK'
    <2>1. docs[d].rev \in 0..MaxChanges /\ docs[d].rev + 1 \in Nat
      BY DEF TypeOK
    <2>2. docs' \in [Docs -> [rev : 0..MaxChanges, ok : BOOLEAN]]
      <3>1. CASE docs[d].rev < MaxChanges /\ \E ok \in BOOLEAN : docs' = [docs EXCEPT ![d] = [rev |-> @.rev + 1, ok |-> ok]]
        <4>1. PICK ok \in BOOLEAN : docs' = [docs EXCEPT ![d] = [rev |-> docs[d].rev + 1, ok |-> ok]]
          BY <3>1
        <4>2. [rev |-> docs[d].rev + 1, ok |-> ok] \in [rev : 0..MaxChanges, ok : BOOLEAN]
          BY <2>1, <3>1
        <4> QED
          BY <4>1, <4>2 DEF TypeOK
      <3>2. CASE docs' = [docs EXCEPT ![d].ok = FALSE]
        <4>1. [docs[d] EXCEPT !.ok = FALSE] \in [rev : 0..MaxChanges, ok : BOOLEAN]
          BY DEF TypeOK
        <4>2. docs' = [docs EXCEPT ![d] = [docs[d] EXCEPT !.ok = FALSE]]
          BY <3>2 DEF TypeOK
        <4> QED
          BY <4>1, <4>2 DEF TypeOK
      <3> QED
        BY <1>3, <3>1, <3>2 DEF ChangeDocument
    <2> QED
      <3>0. Trouble /\ troubles \in 0..MaxTroubles /\ MaxTroubles \in Nat
        BY <1>3 DEF TypeOK, ChangeDocument
      <3>1. troubles' \in 0..MaxTroubles
        BY <3>0 DEF Trouble
      <3> QED
        BY <1>3, <2>2, <3>1 DEF TypeOK, ChangeDocument
  <1> QED
    BY <1>1, <1>2, <1>3

-----------------------------------------------------------------------------
(***************************************************************************)
(* What a step leaves alone.                                               *)
(***************************************************************************)
LEMMA GoesLocal ==
  ASSUME TypeOK, NEW r \in Requests, NEW step, Goes(r, step)
  PROVE  /\ request'[r] = [request[r] EXCEPT !.step = step]
         /\ \A q \in Requests \ {r} : request'[q] = request[q]
  BY DEF TypeOK, Goes

LEMMA AnswersLocal ==
  ASSUME TypeOK, NEW r \in Requests, NEW status, Answers(r, status)
  PROVE  /\ request'[r].step = "done" /\ request'[r].status = status
         /\ request'[r].cites = (IF status = "ok" THEN request[r].cites ELSE {}) /\ request'[r].held = TRUE
         /\ request'[r].left = {}
         /\ \A q \in Requests \ {r} : request'[q] = request[q]
  BY DEF TypeOK, Answers

LEMMA ApiLocal ==
  ASSUME TypeOK, NEW r \in Requests, ApiStep(r)
  PROVE  /\ UNCHANGED <<now, docs, standing, key, mcp, client>>
         /\ request[r].step # "absent"
         /\ \A q \in Requests \ {r} : request'[q] = request[q]
  <1>1. UNCHANGED <<now, docs, standing, key, mcp, client>>
    BY DEF ApiStep, Admit, BodyTimeout, Disconnect, Authenticate, Identify, Retrieve, Infer, Recheck,
       VerifyMember, VerifyCitations, Release
  <1>2. request[r].step # "absent"
    BY DEF ApiStep, Admit, BodyTimeout, Disconnect, Authenticate, Identify, Retrieve, Infer, Recheck,
       VerifyMember, VerifyCitations, Release
  <1>3. \A q \in Requests \ {r} : request'[q] = request[q]
    <2>1. CASE \E status : Answers(r, status)
      BY <2>1, AnswersLocal
    <2>2. CASE \E step : Goes(r, step)
      BY <2>2, GoesLocal
    <2>3. CASE Retrieve(r)
      BY <2>2, <2>3 DEF TypeOK, Retrieve
    <2>4. CASE Recheck(r)
      BY <2>2, <2>4 DEF TypeOK, Recheck
    <2>5. CASE Admit(r)
      BY <2>2, <2>5 DEF TypeOK, Admit
    <2>6. CASE Identify(r)
      BY <2>1, <2>6 DEF TypeOK, Identify
    <2>7. CASE Disconnect(r) \/ Infer(r)
      BY <2>7 DEF TypeOK, Disconnect, Infer
    <2>8. CASE BodyTimeout(r) \/ Authenticate(r) \/ VerifyMember(r) \/ VerifyCitations(r) \/ Release(r)
      BY <2>1, <2>2, <2>8 DEF BodyTimeout, Authenticate, VerifyMember, VerifyCitations, Release
    <2> QED
      BY <2>3, <2>4, <2>5, <2>6, <2>7, <2>8 DEF ApiStep
  <1> QED
    BY <1>1, <1>2, <1>3

\* A call that is not posted by the step keeps its proof, and the requests stay.
LEMMA ClientLocal ==
  ASSUME TypeOK, NEW c \in Calls, ClientStep(c)
  PROVE  /\ UNCHANGED <<now, docs, standing, seen, active>>
         /\ \A d \in Calls \ {c} : client'[d] = client[d]
         /\ client'[c].step # "idle"
         /\ ~Post(c) => UNCHANGED request /\ client'[c].proof = client[c].proof
  <1>1. UNCHANGED <<now, docs, standing, seen, active>>
    BY DEF ClientStep, RunLocal, Invalid, NoKey, Post, Timeout, Headers, ReadBody
  <1>2. CASE \E outcome : Ended(c, outcome)
    <2>1. /\ \A d \in Calls \ {c} : client'[d] = client[d]
          /\ client'[c].step = "ended" /\ client'[c].proof = client[c].proof
      <3>1. PICK outcome : client' = [client EXCEPT ![c].step = "ended", ![c].outcome = outcome]
        BY <1>2 DEF Ended
      <3>2. client' = [client EXCEPT ![c] = [client[c] EXCEPT !.step = "ended", !.outcome = outcome]]
        BY <3>1 DEF TypeOK
      <3> QED
        BY <3>2 DEF TypeOK, Call
    <2>2. ~Post(c) => UNCHANGED request
      BY DEF ClientStep, RunLocal, Invalid, NoKey, Timeout, Headers, ReadBody
    <2> QED
      BY <1>1, <2>1, <2>2
  <1>3. CASE Post(c)
    <2>1. /\ \A d \in Calls \ {c} : client'[d] = client[d]
          /\ client'[c].step = "waiting"
      <3>1. PICK proof : client' = [client EXCEPT ![c].step = "waiting", ![c].proof = proof]
        BY <1>3 DEF Post
      <3>2. client' = [client EXCEPT ![c] = [client[c] EXCEPT !.step = "waiting", !.proof = proof]]
        BY <3>1 DEF TypeOK
      <3> QED
        BY <3>2 DEF TypeOK, Call
    <2> QED
      BY <1>1, <1>3, <2>1
  <1>4. ASSUME NEW k \in Copies, Headers(c, k)
        PROVE  /\ \A d \in Calls \ {c} : client'[d] = client[d]
               /\ client'[c].step # "idle"
               /\ UNCHANGED request /\ client'[c].proof = client[c].proof
    BY <1>4 DEF TypeOK, Call, Headers
  <1>5. ASSUME NEW command \in {"help", "unknown", "whoami"}, RunLocal(c, command)
        PROVE  \E outcome : Ended(c, outcome)
    BY <1>5 DEF RunLocal
  <1>6. ASSUME NEW k \in Copies, ReadBody(c, k) PROVE \E outcome : Ended(c, outcome)
    BY <1>6 DEF ReadBody
  <1>7. Invalid(c) \/ NoKey(c) \/ Timeout(c) => \E outcome : Ended(c, outcome)
    BY DEF Invalid, NoKey, Timeout
  <1> QED
    BY <1>1, <1>2, <1>3, <1>4, <1>5, <1>6, <1>7 DEF ClientStep

LEMMA PostLocal ==
  ASSUME TypeOK, Posted, NEW c \in Calls, Post(c)
  PROVE  /\ request[<<c, "original">>].step = "absent" /\ <<c, "original">> \in Requests
         /\ request'[<<c, "original">>] = [request[<<c, "original">>] EXCEPT !.step = "sent"]
         /\ \A q \in Requests \ {<<c, "original">>} : request'[q] = request[q]
         /\ client'[c].proof \in Signed /\ client'[c].proof.nonce = c
         /\ client'[c].proof.created = now + Skew
         /\ \A k \in Copies : request[<<c, k>>].step = "absent"
  <1>1. \A k \in Copies : <<c, k>> \in Requests
    BY DEF Requests
  <1>2. client[c].step = "idle"
    BY DEF Post, CanStart
  <1>3. \A k \in Copies : request[<<c, k>>].step = "absent"
    BY <1>1, <1>2 DEF Posted
  <1>4. <<c, "original">> \in Requests /\ request[<<c, "original">>].step = "absent"
    BY <1>1, <1>3 DEF Copies
  <1>5. Goes(<<c, "original">>, "sent")
    BY DEF Post, Goes
  <1>6. PICK tool \in ToolsOf[c] : client' = [client EXCEPT ![c].step = "waiting", ![c].proof = Proof(c, tool)]
    BY DEF Post
  <1>7. Proof(c, tool) \in Signed /\ Proof(c, tool).nonce = c /\ Proof(c, tool).created = now + Skew
    BY CallsAssumption, BoundsAssumption DEF TypeOK, Proof, Nonce, Signed
  <1>8. client'[c].proof = Proof(c, tool)
    BY <1>6 DEF TypeOK, Call
  <1> QED
    BY <1>3, <1>4, <1>5, <1>7, <1>8, GoesLocal

LEMMA ResendLocal ==
  ASSUME TypeOK, NEW c \in Calls, Resend(c)
  PROVE  /\ <<c, "original">> \in Requests /\ <<c, "copy">> \in Requests
         /\ request[<<c, "original">>].step # "absent" /\ request[<<c, "copy">>].step = "absent"
         /\ request'[<<c, "copy">>] = [request[<<c, "copy">>] EXCEPT !.step = "sent"]
         /\ \A q \in Requests \ {<<c, "copy">>} : request'[q] = request[q]
  <1>1. <<c, "original">> \in Requests /\ <<c, "copy">> \in Requests
    BY DEF Requests, Copies
  <1> QED
    BY <1>1, GoesLocal DEF Resend

LEMMA PostedKept == TypeOK /\ Posted /\ [Next]_vars => Posted'
  <1> SUFFICES ASSUME TypeOK, Posted, [Next]_vars PROVE Posted'
    OBVIOUS
  <1> USE BoundsAssumption
  <1>0. \A r \in Requests : r[1] \in Calls
    BY DEF Requests
  <1>1. CASE UNCHANGED <<client, request, now>>
    BY <1>1 DEF Posted
  <1>2. ASSUME NEW c \in Calls, ClientStep(c) PROVE Posted'
    <2>1. CASE Post(c)
      <3>0. /\ client'[c].proof \in Signed /\ client'[c].proof.nonce = c
            /\ client'[c].proof.created = now + Skew
            /\ client'[c].step # "idle" /\ now' = now
            /\ \A d \in Calls \ {c} : client'[d] = client[d]
            /\ \A q \in Requests \ {<<c, "original">>} : request'[q] = request[q]
        BY <1>2, <2>1, ClientLocal, PostLocal
      <3>1. ASSUME NEW q \in Requests, request'[q].step # "absent"
            PROVE  /\ client'[q[1]].step # "idle"
                   /\ client'[q[1]].proof \in Signed
                   /\ client'[q[1]].proof.nonce = q[1]
                   /\ client'[q[1]].proof.created <= now' + Skew
        <4>1. CASE q[1] = c
          <5>1. now' + Skew \in Int /\ now' = now
            BY <3>0 DEF TypeOK
          <5> QED
            BY <3>0, <4>1, <5>1
        <4>2. CASE q[1] # c
          <5>1. q # <<c, "original">>
            BY <4>2
          <5>2. request[q].step # "absent"
            BY <3>0, <3>1, <5>1
          <5>3. client'[q[1]] = client[q[1]] /\ now' = now
            BY <1>0, <3>0, <4>2
          <5> QED
            BY <5>2, <5>3 DEF Posted
        <4> QED
          BY <4>1, <4>2
      <3> QED
        BY <3>1 DEF Posted
    <2>2. CASE ~Post(c)
      <3>1. UNCHANGED <<request, now>> /\ client'[c].step # "idle" /\ client'[c].proof = client[c].proof
            /\ \A d \in Calls \ {c} : client'[d] = client[d]
        BY <1>2, <2>2, ClientLocal
      <3> QED
        BY <1>0, <3>1 DEF Posted
    <2> QED
      BY <2>1, <2>2
  <1>3. ASSUME NEW c \in Calls, Resend(c) PROVE Posted'
    <2>1. UNCHANGED <<client, now>>
      BY <1>3 DEF Resend
    <2>0. /\ <<c, "original">> \in Requests /\ request[<<c, "original">>].step # "absent"
          /\ \A q \in Requests \ {<<c, "copy">>} : request'[q] = request[q]
      BY <1>3, ResendLocal
    <2>2. ASSUME NEW q \in Requests, request'[q].step # "absent"
          PROVE  \E p \in Requests : p[1] = q[1] /\ request[p].step # "absent"
      <3>1. CASE q = <<c, "copy">>
        BY <2>0, <3>1
      <3>2. CASE q # <<c, "copy">>
        BY <2>0, <2>2, <3>2
      <3> QED
        BY <3>1, <3>2
    <2> QED
      BY <2>1, <2>2 DEF Posted
  <1>4. ASSUME NEW r \in Requests, ApiStep(r) PROVE Posted'
    <2>1. UNCHANGED <<client, now>> /\ \A q \in Requests : request'[q].step # "absent" => request[q].step # "absent"
      BY <1>4, ApiLocal
    <2> QED
      BY <2>1 DEF Posted
  <1>5. CASE Tick
    <2>1. UNCHANGED <<client, request>> /\ now <= now' /\ now \in Int /\ now' \in Int
      BY <1>5 DEF TypeOK, Tick
    <2>2. \A p \in Signed : p.created <= now + Skew => p.created <= now' + Skew
      BY <2>1 DEF Signed
    <2> QED
      BY <2>1, <2>2 DEF Posted
  <1>6. StartMcp \/ ChangeStanding \/ (\E d \in Docs : ChangeDocument(d)) => UNCHANGED <<client, request, now>>
    BY DEF StartMcp, ChangeStanding, ChangeDocument
  <1>7. UNCHANGED vars => UNCHANGED <<client, request, now>>
    BY DEF vars
  <1> QED
    BY <1>1, <1>2, <1>3, <1>4, <1>5, <1>6, <1>7 DEF Next

LEMMA StepTyped == TypeOK /\ Posted /\ [Next]_vars => TypeOK'
  <1> SUFFICES ASSUME TypeOK, Posted, [Next]_vars PROVE TypeOK'
    OBVIOUS
  <1>1. ASSUME NEW c \in Calls, Resend(c) PROVE TypeOK'
    <2>1. <<c, "copy">> \in Requests
      BY DEF Requests, Copies
    <2>2. request' \in [Requests -> Handler]
      BY <1>1, <2>1, GoesTyped DEF Resend
    <2> QED
      BY <1>1, <2>2 DEF TypeOK, Resend
  <1>2. CASE UNCHANGED vars
    BY <1>2 DEF TypeOK, vars
  <1> QED
    BY <1>1, <1>2, McpTyped, ClientTyped, ApiTyped, SurroundingsTyped DEF Next

LEMMA Typed == Spec => [](TypeOK /\ Posted)
  <1>1. Init => Posted
    BY DEF Init, Posted
  <1> QED
    BY <1>1, InitTyped, StepTyped, PostedKept, PTL DEF Spec

\* Every variable keeps its type and every counter its bound, and a request
\* on its way carries the proof its own call has signed.
THEOREM TypeCorrect == Spec => []TypeOK
  BY Typed, PTL

-----------------------------------------------------------------------------
(***************************************************************************)
(* Slots.                                                                  *)
(***************************************************************************)
IsInside(r) == request[r].step \notin {"absent", "sent", "gone", "done"}
Inside == {r \in Requests : IsInside(r)}

\* A handler takes a free slot when it comes in and gives it back when it
\* leaves.
LEMMA SlotMoves ==
  ASSUME TypeOK, NEW r \in Requests, ApiStep(r)
  PROVE  \/ ~IsInside(r) /\ IsInside(r)' /\ active' = active + 1 /\ active < MaxInFlight
         \/ IsInside(r) /\ ~IsInside(r)' /\ active' = active - 1
         \/ (IsInside(r)' <=> IsInside(r)) /\ active' = active
  <1>1. ASSUME NEW status, Answers(r, status) PROVE ~IsInside(r)' /\ active' = active - 1
    BY <1>1, AnswersLocal DEF Answers, IsInside
  <1>2. ASSUME NEW step, Goes(r, step) PROVE request'[r].step = step
    BY <1>2 DEF TypeOK, Handler, Goes
  <1>3. CASE Admit(r)
    <2>1. CASE HasRoom
      BY <1>2, <1>3, <2>1 DEF Admit, HasRoom, IsInside
    <2>2. CASE ~HasRoom
      <3>1. request' = [request EXCEPT ![r] = [request[r] EXCEPT !.step = "done", !.status = "refused"]]
        BY <1>3, <2>2 DEF TypeOK, Admit
      <3>2. request'[r].step = "done"
        BY <3>1 DEF TypeOK, Handler
      <3> QED
        BY <1>3, <2>2, <3>2 DEF Admit, IsInside
    <2> QED
      BY <2>1, <2>2
  <1>4. CASE BodyTimeout(r)
    BY <1>1, <1>4 DEF BodyTimeout, IsInside
  <1>5. CASE Disconnect(r)
    BY <1>5 DEF TypeOK, Handler, Disconnect, IsInside
  <1>6. CASE Authenticate(r)
    BY <1>1, <1>2, <1>6 DEF Authenticate, IsInside
  <1>7. CASE Identify(r)
    <2>1. CASE request' = [request EXCEPT ![r].step = "identified", ![r].as = standing] /\ UNCHANGED active
      <3>1. request' = [request EXCEPT ![r] = [request[r] EXCEPT !.step = "identified", !.as = standing]]
        BY <2>1 DEF TypeOK
      <3>2. request'[r].step = "identified"
        BY <3>1 DEF TypeOK, Handler
      <3> QED
        BY <1>7, <2>1, <3>2 DEF Identify, IsInside
    <2> QED
      BY <1>1, <1>7, <2>1 DEF Identify, IsInside
  <1>8. CASE Retrieve(r)
    <2>1. request'[r].step \in {"releasing", "inferring"}
      <3>1. CASE Goes(r, "releasing")
        BY <1>2, <3>1
      <3>2. CASE \E evidence, cites :
                   request' = [request EXCEPT ![r].step = "inferring", ![r].left = evidence, ![r].cites = cites]
        <4>1. PICK evidence, cites :
                   request' = [request EXCEPT ![r].step = "inferring", ![r].left = evidence, ![r].cites = cites]
          BY <3>2
        <4>2. request' = [request EXCEPT ![r] = [request[r] EXCEPT !.step = "inferring", !.left = evidence, !.cites = cites]]
          BY <4>1 DEF TypeOK
        <4> QED
          BY <4>2 DEF TypeOK, Handler
      <3> QED
        BY <1>8, <3>1, <3>2 DEF Retrieve
    <2> QED
      BY <1>8, <2>1 DEF Retrieve, IsInside
  <1>9. CASE Infer(r)
    <2>1. PICK held : request' = [request EXCEPT ![r].step = "rechecking", ![r].held = held]
      BY <1>9 DEF Infer
    <2>2. request' = [request EXCEPT ![r] = [request[r] EXCEPT !.step = "rechecking", !.held = held]]
      BY <2>1 DEF TypeOK
    <2>3. request'[r].step = "rechecking"
      BY <2>2 DEF TypeOK, Handler
    <2> QED
      BY <1>9, <2>3 DEF Infer, IsInside
  <1>10. CASE Recheck(r)
    <2>1. request'[r].step \in {"verifying", "rechecking", "releasing"}
      <3>1. CASE Goes(r, "verifying")
        BY <1>2, <3>1
      <3>2. CASE \E item : request' = [request EXCEPT ![r].left = @ \ {item}]
        BY <1>10, <3>2 DEF Recheck, TypeOK, Handler
      <3>3. CASE request' = [request EXCEPT ![r].step = "releasing", ![r].left = {}, ![r].cites = {}]
        <4>1. request' = [request EXCEPT ![r] = [request[r] EXCEPT !.step = "releasing", !.left = {}, !.cites = {}]]
          BY <3>3 DEF TypeOK
        <4> QED
          BY <4>1 DEF TypeOK, Handler
      <3> QED
        BY <1>10, <3>1, <3>2, <3>3 DEF Recheck
    <2> QED
      BY <1>10, <2>1 DEF Recheck, IsInside
  <1>11. CASE VerifyMember(r)
    BY <1>1, <1>2, <1>11 DEF VerifyMember, IsInside
  <1>12. CASE VerifyCitations(r)
    BY <1>1, <1>2, <1>12 DEF VerifyCitations, IsInside
  <1>13. CASE Release(r)
    BY <1>1, <1>13 DEF Release, IsInside
  <1> QED
    BY <1>3, <1>4, <1>5, <1>6, <1>7, <1>8, <1>9, <1>10, <1>11, <1>12, <1>13 DEF ApiStep

LEMMA RequestsFinite == IsFiniteSet(Calls) => IsFiniteSet(Requests)
  <1>1. IsFiniteSet(Copies)
    <2>1. IsFiniteSet({"original"}) /\ Copies = {"original"} \cup {"copy"}
      BY FS_Singleton DEF Copies
    <2> QED
      BY <2>1, FS_AddElement
  <1> QED
    BY <1>1, FS_Product DEF Requests

LEMMA SlotsKept ==
  ASSUME IsFiniteSet(Calls), TypeOK, Posted, SlotsAccounted, [Next]_vars
  PROVE  SlotsAccounted'
  <1> USE BoundsAssumption
  <1>1. IsFiniteSet(Inside) /\ Cardinality(Inside) \in Nat
    BY RequestsFinite, FS_Subset, FS_CardinalityType DEF Inside
  <1>2. active <= MaxInFlight /\ active = Cardinality(Inside)
    BY DEF SlotsAccounted, Inside, IsInside
  <1>3. SUFFICES active' <= MaxInFlight /\ active' = Cardinality(Inside')
    BY DEF SlotsAccounted, Inside, IsInside
  <1>4. ASSUME Inside' = Inside, active' = active PROVE active' <= MaxInFlight /\ active' = Cardinality(Inside')
    BY <1>2, <1>4
  <1>5. ASSUME NEW r \in Requests, ApiStep(r) PROVE active' <= MaxInFlight /\ active' = Cardinality(Inside')
    <2>1. \A q \in Requests \ {r} : IsInside(q)' <=> IsInside(q)
      BY <1>5, ApiLocal DEF IsInside
    <2>2. CASE ~IsInside(r) /\ IsInside(r)' /\ active' = active + 1 /\ active < MaxInFlight
      <3>1. r \notin Inside /\ Inside' = Inside \cup {r}
        BY <2>1, <2>2 DEF Inside
      <3>2. Cardinality(Inside \cup {r}) = Cardinality(Inside) + 1
        BY <1>1, <3>1, FS_AddElement
      <3> QED
        BY <1>1, <1>2, <2>2, <3>1, <3>2
    <2>3. CASE IsInside(r) /\ ~IsInside(r)' /\ active' = active - 1
      <3>1. r \in Inside /\ Inside' = Inside \ {r}
        BY <2>1, <2>3 DEF Inside
      <3>2. Cardinality(Inside \ {r}) = Cardinality(Inside) - 1
        BY <1>1, <3>1, FS_RemoveElement
      <3> QED
        BY <1>1, <1>2, <2>3, <3>1, <3>2
    <2>4. CASE (IsInside(r)' <=> IsInside(r)) /\ active' = active
      <3>1. Inside' = Inside
        BY <2>1, <2>4 DEF Inside
      <3> QED
        BY <1>4, <2>4, <3>1
    <2> QED
      BY <1>5, <2>2, <2>3, <2>4, SlotMoves
  <1>6. ASSUME NEW c \in Calls, ClientStep(c) PROVE Inside' = Inside /\ active' = active
    <2>1. active' = active
      BY <1>6, ClientLocal
    <2>2. \A q \in Requests : IsInside(q)' <=> IsInside(q)
      <3>1. CASE Post(c)
        <4>1. /\ request[<<c, "original">>].step = "absent" /\ <<c, "original">> \in Requests
              /\ request'[<<c, "original">>] = [request[<<c, "original">>] EXCEPT !.step = "sent"]
              /\ \A q \in Requests \ {<<c, "original">>} : request'[q] = request[q]
          BY <3>1, PostLocal
        <4>2. request'[<<c, "original">>].step = "sent"
          BY <4>1 DEF TypeOK, Handler
        <4> QED
          BY <4>1, <4>2 DEF IsInside
      <3>2. CASE ~Post(c)
        BY <1>6, <3>2, ClientLocal DEF IsInside
      <3> QED
        BY <3>1, <3>2
    <2> QED
      BY <2>1, <2>2 DEF Inside
  <1>7. ASSUME NEW c \in Calls, Resend(c) PROVE Inside' = Inside /\ active' = active
    <2>1. /\ request[<<c, "copy">>].step = "absent" /\ <<c, "copy">> \in Requests
          /\ request'[<<c, "copy">>] = [request[<<c, "copy">>] EXCEPT !.step = "sent"]
          /\ \A q \in Requests \ {<<c, "copy">>} : request'[q] = request[q]
      BY <1>7, ResendLocal
    <2>2. request'[<<c, "copy">>].step = "sent"
      BY <2>1 DEF TypeOK, Handler
    <2>3. \A q \in Requests : IsInside(q)' <=> IsInside(q)
      BY <2>1, <2>2 DEF IsInside
    <2> QED
      BY <1>7, <2>3 DEF Inside, Resend
  <1>8. CASE UNCHANGED <<request, active>>
    BY <1>4, <1>8 DEF Inside, IsInside
  <1>9. StartMcp \/ Tick \/ ChangeStanding \/ (\E d \in Docs : ChangeDocument(d)) \/ UNCHANGED vars
          => UNCHANGED <<request, active>>
    BY DEF StartMcp, Tick, ChangeStanding, ChangeDocument, vars
  <1> QED
    BY <1>4, <1>5, <1>6, <1>7, <1>8, <1>9 DEF Next

\* However many requests race, time out, leave or are refused, the API's
\* counter is the number of handlers inside, and they never exceed the limit.
THEOREM SlotsAccountedHolds ==
  ASSUME IsFiniteSet(Calls)
  PROVE  Spec => []SlotsAccounted
  <1>1. Init => SlotsAccounted
    <2> SUFFICES ASSUME Init PROVE SlotsAccounted
      OBVIOUS
    <2>1. {r \in Requests : request[r].step \notin {"absent", "sent", "gone", "done"}} = {}
      BY DEF Init
    <2>2. active = Cardinality({}) /\ active <= MaxInFlight
      BY FS_EmptySet, BoundsAssumption DEF Init
    <2> QED
      BY <2>1, <2>2 DEF SlotsAccounted
  <1> QED
    BY <1>1, Typed, SlotsKept, PTL DEF Spec

-----------------------------------------------------------------------------
(***************************************************************************)
(* Proofs.                                                                 *)
(***************************************************************************)
HasClaimed(h) == h.step \notin {"absent", "sent", "body", "gone"} /\ h.status \notin {"refused", "used"}
IsClaimant(r) == HasClaimed(request[r])

\* A handler whose step says that it has not answered has no status.
Unanswered == \A r \in Requests : request[r].step # "done" => request[r].status = "none"

\* What is remembered was claimed, at the time that is noted, by a request of
\* the call that signed it.
Remembers ==
  \A i \in 1..Len(seen) :
    /\ seen[i].at <= now
    /\ \E k \in Copies : IsClaimant(<<seen[i].proof.nonce, k>>)
    /\ client[seen[i].proof.nonce].proof = seen[i].proof

\* A proof that was refused as used was claimed by a request of its own call.
UsedOnce == \A r \in Requests : request[r].status = "used" => \E k \in Copies : IsClaimant(<<r[1], k>>)

\* What a step of the API does to a claim.
LEMMA ClaimMoves ==
  ASSUME TypeOK, Unanswered, NEW r \in Requests, ApiStep(r)
  PROVE  /\ IsClaimant(r) => IsClaimant(r)'
         /\ ~IsClaimant(r) /\ IsClaimant(r)' =>
              /\ request[r].step = "body" /\ InTime(client[r[1]].proof)
              /\ client[r[1]].proof \notin ProofsIn(Remembered(seen))
              /\ seen' = Append(Remembered(seen), [proof |-> client[r[1]].proof, at |-> now])
         /\ seen' # seen => request[r].step = "body" /\ InTime(client[r[1]].proof)
         /\ \/ seen' = seen
            \/ seen' = Remembered(seen)
            \/ IsClaimant(r)' /\ seen' = Append(Remembered(seen), [proof |-> client[r[1]].proof, at |-> now])
         /\ request'[r].status = "used" /\ request[r].status # "used" =>
              client[r[1]].proof \in ProofsIn(Remembered(seen))
         /\ request'[r].step # "done" => request'[r].status = "none"
  <1> DEFINE Goal ==
         /\ IsClaimant(r) => IsClaimant(r)'
         /\ ~IsClaimant(r) /\ IsClaimant(r)' =>
              /\ request[r].step = "body" /\ InTime(client[r[1]].proof)
              /\ client[r[1]].proof \notin ProofsIn(Remembered(seen))
              /\ seen' = Append(Remembered(seen), [proof |-> client[r[1]].proof, at |-> now])
         /\ seen' # seen => request[r].step = "body" /\ InTime(client[r[1]].proof)
         /\ \/ seen' = seen
            \/ seen' = Remembered(seen)
            \/ IsClaimant(r)' /\ seen' = Append(Remembered(seen), [proof |-> client[r[1]].proof, at |-> now])
         /\ request'[r].status = "used" /\ request[r].status # "used" =>
              client[r[1]].proof \in ProofsIn(Remembered(seen))
         /\ request'[r].step # "done" => request'[r].status = "none"
  <1> SUFFICES Goal
    OBVIOUS
  <1>1. ASSUME NEW step, Goes(r, step) PROVE request'[r].step = step /\ request'[r].status = request[r].status
    BY <1>1 DEF TypeOK, Handler, Goes
  <1>2. ASSUME NEW status, Answers(r, status) PROVE request'[r].step = "done" /\ request'[r].status = status
    BY <1>2, AnswersLocal
  \* A handler that goes on, unchanged memory.
  <1>3. ASSUME request'[r].step \notin {"absent", "sent", "body", "gone", "done"},
               request'[r].status = request[r].status, seen' = seen,
               request[r].step \notin {"absent", "sent", "body", "gone", "done"}
        PROVE  Goal
    BY <1>3 DEF Unanswered, IsClaimant, HasClaimed
  \* A handler that answers without having claimed, or that had claimed.
  <1>4. ASSUME request'[r].step = "done", request'[r].status = "refused", seen' = seen,
               request[r].step \in {"sent", "body"}
        PROVE  Goal
    BY <1>4 DEF IsClaimant, HasClaimed
  <1>5. ASSUME request'[r].step = "done", request'[r].status \in {"ok", "withheld"}, seen' = seen,
               request[r].step \notin {"absent", "sent", "body", "gone", "done"}
        PROVE  Goal
    BY <1>5 DEF Unanswered, IsClaimant, HasClaimed
  <1>6. CASE Admit(r)
    <2>1. CASE HasRoom
      <3>1. request'[r].step = "body" /\ request'[r].status = request[r].status /\ seen' = seen
            /\ request[r].step = "sent"
        BY <1>1, <1>6, <2>1 DEF Admit
      <3> QED
        BY <3>1 DEF Unanswered, IsClaimant, HasClaimed
    <2>2. CASE ~HasRoom
      <3>1. request' = [request EXCEPT ![r] = [request[r] EXCEPT !.step = "done", !.status = "refused"]]
        BY <1>6, <2>2 DEF TypeOK, Admit
      <3>2. request'[r].step = "done" /\ request'[r].status = "refused"
        BY <3>1 DEF TypeOK, Handler
      <3> QED
        BY <1>4, <1>6, <3>2 DEF Admit
    <2> QED
      BY <2>1, <2>2
  <1>7. CASE BodyTimeout(r)
    BY <1>2, <1>4, <1>7 DEF BodyTimeout
  <1>8. CASE Disconnect(r)
    <2>1. request'[r].step = "gone" /\ request'[r].status = request[r].status /\ seen' = seen
          /\ request[r].step = "body"
      BY <1>8 DEF TypeOK, Handler, Disconnect
    <2> QED
      BY <2>1 DEF Unanswered, IsClaimant, HasClaimed
  <1>9. CASE Authenticate(r)
    <2>0. request[r].step = "body" /\ ~IsClaimant(r) /\ request[r].status = "none"
      BY <1>9 DEF Authenticate, Unanswered, IsClaimant, HasClaimed
    <2>1. CASE ~InTime(client[r[1]].proof) /\ Answers(r, "refused") /\ UNCHANGED seen
      BY <1>2, <1>4, <2>0, <2>1
    <2>2. CASE /\ InTime(client[r[1]].proof) /\ client[r[1]].proof \in ProofsIn(Remembered(seen))
               /\ seen' = Remembered(seen) /\ Answers(r, "used")
      <3>1. request'[r].step = "done" /\ request'[r].status = "used" /\ ~IsClaimant(r)'
        BY <1>2, <2>2 DEF IsClaimant, HasClaimed
      <3> QED
        BY <2>0, <2>2, <3>1
    <2>3. CASE /\ InTime(client[r[1]].proof) /\ client[r[1]].proof \notin ProofsIn(Remembered(seen))
               /\ seen' = Append(Remembered(seen), [proof |-> client[r[1]].proof, at |-> now])
               /\ Goes(r, "claimed")
      <3>1. request'[r].step = "claimed" /\ request'[r].status = "none" /\ IsClaimant(r)'
        BY <1>1, <2>0, <2>3 DEF IsClaimant, HasClaimed
      <3> QED
        BY <2>0, <2>3, <3>1
    <2> QED
      BY <1>9, <2>1, <2>2, <2>3 DEF Authenticate
  <1>10. CASE Identify(r)
    <2>1. CASE request' = [request EXCEPT ![r].step = "identified", ![r].as = standing]
      <3>1. request' = [request EXCEPT ![r] = [request[r] EXCEPT !.step = "identified", !.as = standing]]
        BY <2>1 DEF TypeOK
      <3>2. request'[r].step = "identified" /\ request'[r].status = request[r].status
        BY <3>1 DEF TypeOK, Handler
      <3> QED
        BY <1>3, <1>10, <3>2 DEF Identify
    <2> QED
      BY <1>2, <1>5, <1>10, <2>1 DEF Identify
  <1>11. CASE Retrieve(r)
    <2>1. request'[r].step \in {"releasing", "inferring"} /\ request'[r].status = request[r].status
      <3>1. CASE Goes(r, "releasing")
        BY <1>1, <3>1
      <3>2. CASE \E evidence, cites :
                   request' = [request EXCEPT ![r].step = "inferring", ![r].left = evidence, ![r].cites = cites]
        <4>1. PICK evidence, cites :
                   request' = [request EXCEPT ![r].step = "inferring", ![r].left = evidence, ![r].cites = cites]
          BY <3>2
        <4>2. request' = [request EXCEPT ![r] = [request[r] EXCEPT !.step = "inferring", !.left = evidence, !.cites = cites]]
          BY <4>1 DEF TypeOK
        <4> QED
          BY <4>2 DEF TypeOK, Handler
      <3> QED
        BY <1>11, <3>1, <3>2 DEF Retrieve
    <2> QED
      BY <1>3, <1>11, <2>1 DEF Retrieve
  <1>12. CASE Infer(r)
    <2>1. PICK held : request' = [request EXCEPT ![r].step = "rechecking", ![r].held = held]
      BY <1>12 DEF Infer
    <2>2. request' = [request EXCEPT ![r] = [request[r] EXCEPT !.step = "rechecking", !.held = held]]
      BY <2>1 DEF TypeOK
    <2>3. request'[r].step = "rechecking" /\ request'[r].status = request[r].status
      BY <2>2 DEF TypeOK, Handler
    <2> QED
      BY <1>3, <1>12, <2>3 DEF Infer
  <1>13. CASE Recheck(r)
    <2>1. request'[r].step \in {"verifying", "rechecking", "releasing"} /\ request'[r].status = request[r].status
      <3>1. CASE Goes(r, "verifying")
        BY <1>1, <3>1
      <3>2. CASE \E item : request' = [request EXCEPT ![r].left = @ \ {item}]
        BY <1>13, <3>2 DEF Recheck, TypeOK, Handler
      <3>3. CASE request' = [request EXCEPT ![r].step = "releasing", ![r].left = {}, ![r].cites = {}]
        <4>1. request' = [request EXCEPT ![r] = [request[r] EXCEPT !.step = "releasing", !.left = {}, !.cites = {}]]
          BY <3>3 DEF TypeOK
        <4> QED
          BY <4>1 DEF TypeOK, Handler
      <3> QED
        BY <1>13, <3>1, <3>2, <3>3 DEF Recheck
    <2> QED
      BY <1>3, <1>13, <2>1 DEF Recheck
  <1>14. CASE VerifyMember(r)
    BY <1>1, <1>2, <1>3, <1>5, <1>14 DEF VerifyMember
  <1>15. CASE VerifyCitations(r)
    BY <1>1, <1>2, <1>3, <1>5, <1>15 DEF VerifyCitations
  <1>16. CASE Release(r)
    BY <1>2, <1>5, <1>16 DEF Release
  <1> QED
    BY <1>6, <1>7, <1>8, <1>9, <1>10, <1>11, <1>12, <1>13, <1>14, <1>15, <1>16 DEF ApiStep

\* A step of the client or of the surroundings sends a request at most.
LEMMA OutsideMoves ==
  ASSUME TypeOK, Posted, [Next]_vars, \A r \in Requests : ~ApiStep(r)
  PROVE  /\ seen' = seen
         /\ \A q \in Requests : \/ request'[q] = request[q]
                                \/ /\ request[q].step = "absent" /\ request'[q].step = "sent"
                                   /\ request'[q].status = request[q].status
                                   /\ request'[q].cites = request[q].cites
                                   /\ request'[q].held = request[q].held
                                   /\ request'[q].left = request[q].left
  <1>1. ASSUME NEW c \in Calls, ClientStep(c)
        PROVE  /\ seen' = seen
               /\ \A q \in Requests : \/ request'[q] = request[q]
                                      \/ /\ request[q].step = "absent" /\ request'[q].step = "sent"
                                         /\ request'[q].status = request[q].status
                                         /\ request'[q].cites = request[q].cites
                                         /\ request'[q].held = request[q].held
                                         /\ request'[q].left = request[q].left
    <2>1. seen' = seen
      BY <1>1, ClientLocal
    <2>2. CASE Post(c)
      <3>1. /\ request[<<c, "original">>].step = "absent" /\ <<c, "original">> \in Requests
            /\ request'[<<c, "original">>] = [request[<<c, "original">>] EXCEPT !.step = "sent"]
            /\ \A q \in Requests \ {<<c, "original">>} : request'[q] = request[q]
        BY <2>2, PostLocal
      <3>2. request[<<c, "original">>] \in Handler
        BY <3>1 DEF TypeOK
      <3>3. /\ request'[<<c, "original">>].step = "sent"
            /\ request'[<<c, "original">>].status = request[<<c, "original">>].status
            /\ request'[<<c, "original">>].cites = request[<<c, "original">>].cites
            /\ request'[<<c, "original">>].held = request[<<c, "original">>].held
            /\ request'[<<c, "original">>].left = request[<<c, "original">>].left
        BY <3>1, <3>2 DEF Handler
      <3> QED
        BY <2>1, <3>1, <3>3
    <2>3. CASE ~Post(c)
      BY <1>1, <2>1, <2>3, ClientLocal
    <2> QED
      BY <2>2, <2>3
  <1>2. ASSUME NEW c \in Calls, Resend(c)
        PROVE  /\ seen' = seen
               /\ \A q \in Requests : \/ request'[q] = request[q]
                                      \/ /\ request[q].step = "absent" /\ request'[q].step = "sent"
                                         /\ request'[q].status = request[q].status
                                         /\ request'[q].cites = request[q].cites
                                         /\ request'[q].held = request[q].held
                                         /\ request'[q].left = request[q].left
    <2>1. /\ request[<<c, "copy">>].step = "absent" /\ <<c, "copy">> \in Requests
          /\ request'[<<c, "copy">>] = [request[<<c, "copy">>] EXCEPT !.step = "sent"]
          /\ \A q \in Requests \ {<<c, "copy">>} : request'[q] = request[q]
      BY <1>2, ResendLocal
    <2>2. request[<<c, "copy">>] \in Handler
      BY <2>1 DEF TypeOK
    <2>3. /\ request'[<<c, "copy">>].step = "sent"
          /\ request'[<<c, "copy">>].status = request[<<c, "copy">>].status
          /\ request'[<<c, "copy">>].cites = request[<<c, "copy">>].cites
          /\ request'[<<c, "copy">>].held = request[<<c, "copy">>].held
          /\ request'[<<c, "copy">>].left = request[<<c, "copy">>].left
      BY <2>1, <2>2 DEF Handler
    <2>4. seen' = seen
      BY <1>2 DEF Resend
    <2> QED
      BY <2>1, <2>3, <2>4
  <1>3. StartMcp \/ Tick \/ ChangeStanding \/ (\E d \in Docs : ChangeDocument(d)) \/ UNCHANGED vars
          => UNCHANGED <<request, seen>>
    BY DEF StartMcp, Tick, ChangeStanding, ChangeDocument, vars
  <1> QED
    BY <1>1, <1>2, <1>3 DEF Next

LEMMA ClockMoves ==
  ASSUME TypeOK, [Next]_vars
  PROVE  now <= now' /\ now' \in Int
  <1>0. now \in Int
    BY DEF TypeOK
  <1>1. now' = now \/ Tick
    <2>1. ASSUME NEW c \in Calls, ClientStep(c) PROVE now' = now
      BY <2>1, ClientLocal
    <2>2. ASSUME NEW c \in Calls, Resend(c) PROVE now' = now
      BY <2>2 DEF Resend
    <2>3. ASSUME NEW r \in Requests, ApiStep(r) PROVE now' = now
      BY <2>3, ApiLocal
    <2>4. StartMcp \/ ChangeStanding \/ (\E d \in Docs : ChangeDocument(d)) \/ UNCHANGED vars => now' = now
      BY DEF StartMcp, ChangeStanding, ChangeDocument, vars
    <2> QED
      BY <2>1, <2>2, <2>3, <2>4 DEF Next
  <1> QED
    BY <1>0, <1>1 DEF Tick

\* A posted request keeps its proof.
LEMMA ProofKept ==
  ASSUME TypeOK, Posted, [Next]_vars, NEW r \in Requests, request[r].step # "absent"
  PROVE  client'[r[1]].proof = client[r[1]].proof
  <1>0. r[1] \in Calls /\ client[r[1]].step # "idle"
    BY DEF Requests, Posted
  <1>1. ASSUME NEW c \in Calls, ClientStep(c) PROVE client'[r[1]].proof = client[r[1]].proof
    <2>1. CASE c = r[1]
      <3>1. ~Post(c)
        BY <1>0, <2>1 DEF Post, CanStart
      <3> QED
        BY <1>1, <2>1, <3>1, ClientLocal
    <2>2. CASE c # r[1]
      BY <1>0, <1>1, <2>2, ClientLocal
    <2> QED
      BY <2>1, <2>2
  <1>2. ASSUME NEW c \in Calls, Resend(c) PROVE client' = client
    BY <1>2 DEF Resend
  <1>3. ASSUME NEW q \in Requests, ApiStep(q) PROVE client' = client
    BY <1>3, ApiLocal
  <1>4. StartMcp \/ Tick \/ ChangeStanding \/ (\E d \in Docs : ChangeDocument(d)) \/ UNCHANGED vars
          => client' = client
    BY DEF StartMcp, Tick, ChangeStanding, ChangeDocument, vars
  <1> QED
    BY <1>1, <1>2, <1>3, <1>4 DEF Next

LEMMA ClaimsKept ==
  ASSUME TypeOK, Posted, Unanswered, [Next]_vars, NEW q \in Requests, IsClaimant(q)
  PROVE  IsClaimant(q)'
  <1>1. ASSUME NEW r \in Requests, ApiStep(r) PROVE IsClaimant(q)'
    <2>1. CASE q = r
      BY <1>1, <2>1, ClaimMoves
    <2>2. CASE q # r
      BY <1>1, <2>2, ApiLocal DEF IsClaimant, HasClaimed
    <2> QED
      BY <2>1, <2>2
  <1>2. CASE \A r \in Requests : ~ApiStep(r)
    BY <1>2, OutsideMoves DEF IsClaimant, HasClaimed
  <1> QED
    BY <1>1, <1>2

LEMMA UnansweredKept == TypeOK /\ Posted /\ Unanswered /\ [Next]_vars => Unanswered'
  <1> SUFFICES ASSUME TypeOK, Posted, Unanswered, [Next]_vars, NEW q \in Requests, request'[q].step # "done"
               PROVE  request'[q].status = "none"
    BY DEF Unanswered
  <1>1. ASSUME NEW r \in Requests, ApiStep(r) PROVE request'[q].status = "none"
    <2>1. CASE q = r
      BY <1>1, <2>1, ClaimMoves
    <2>2. CASE q # r
      BY <1>1, <2>2, ApiLocal DEF Unanswered
    <2> QED
      BY <2>1, <2>2
  <1>2. CASE \A r \in Requests : ~ApiStep(r)
    BY <1>2, OutsideMoves DEF Unanswered
  <1> QED
    BY <1>1, <1>2

\* An entry that is kept stays true.
LEMMA EntryKept ==
  ASSUME TypeOK, Posted, Unanswered, Remembers, [Next]_vars, NEW i \in 1..Len(seen), NEW e, e = seen[i]
  PROVE  /\ e.at <= now'
         /\ \E k \in Copies : IsClaimant(<<e.proof.nonce, k>>)'
         /\ client'[e.proof.nonce].proof = e.proof
  <1>1. e \in Entry
    BY DEF TypeOK
  <1>2. e.proof.nonce \in Calls /\ e.at \in Int /\ now \in Int
    BY <1>1 DEF Entry, Signed, TypeOK
  <1>3. /\ e.at <= now
        /\ client[e.proof.nonce].proof = e.proof
    BY DEF Remembers
  <1>4. PICK k \in Copies : IsClaimant(<<e.proof.nonce, k>>)
    BY DEF Remembers
  <1>5. <<e.proof.nonce, k>> \in Requests
    BY <1>2 DEF Requests
  <1>6. request[<<e.proof.nonce, k>>].step # "absent"
    BY <1>4 DEF IsClaimant, HasClaimed
  <1>7. client'[e.proof.nonce].proof = e.proof
    BY <1>3, <1>5, <1>6, ProofKept
  <1>8. IsClaimant(<<e.proof.nonce, k>>)'
    BY <1>4, <1>5, ClaimsKept
  <1>9. e.at <= now'
    BY <1>2, <1>3, ClockMoves
  <1> QED
    BY <1>7, <1>8, <1>9

LEMMA RemembersKept ==
  ASSUME TypeOK, Posted, Unanswered, Remembers, [Next]_vars
  PROVE  Remembers'
  <1> DEFINE Right(e) == /\ e.at <= now'
                         /\ \E k \in Copies : HasClaimed(request'[<<e.proof.nonce, k>>])
                         /\ client'[e.proof.nonce].proof = e.proof
  <1>1. \A i \in 1..Len(seen) : Right(seen[i])
    <2>1. ASSUME NEW i \in 1..Len(seen), NEW e, e = seen[i] PROVE Right(e)
      BY <2>1, EntryKept DEF IsClaimant
    <2> QED
      BY <2>1
  <1> HIDE DEF Right
  <1>2. ASSUME NEW s, s = seen', \A i \in 1..Len(s) : Right(s[i]) PROVE Remembers'
    BY <1>2 DEF Remembers, Right, IsClaimant
  <1>3. CASE seen' = seen
    BY <1>1, <1>2, <1>3
  <1>4. PICK n \in 0..Len(seen) :
           /\ Remembered(seen) \in Seq(Entry) /\ Len(Remembered(seen)) = Len(seen) - n
           /\ \A i \in 1..(Len(seen) - n) : Remembered(seen)[i] = seen[i + n]
           /\ \A i \in 1..n : i \notin Kept(seen)
    BY RememberedIsSuffix
  <1>5. Len(seen) \in Nat
    BY DEF TypeOK
  <1>6. \A i \in 1..Len(Remembered(seen)) : Right(Remembered(seen)[i])
    BY <1>1, <1>4, <1>5
  <1>7. CASE seen' = Remembered(seen)
    BY <1>2, <1>6, <1>7
  <1>8. ASSUME NEW r \in Requests, ApiStep(r), IsClaimant(r)',
               seen' = Append(Remembered(seen), [proof |-> client[r[1]].proof, at |-> now])
        PROVE  Remembers'
    <2>1. /\ client[r[1]].proof \in Signed /\ client[r[1]].proof.nonce = r[1]
          /\ client' = client /\ now' = now /\ now \in Int
      BY <1>8, ApiLocal DEF Posted, TypeOK
    <2>2. r = <<r[1], r[2]>> /\ r[2] \in Copies
      BY DEF Requests
    <2>3. HasClaimed(request'[<<r[1], r[2]>>])
      BY <1>8, <2>2 DEF IsClaimant
    <2>4. Right([proof |-> client[r[1]].proof, at |-> now])
      BY <2>1, <2>2, <2>3 DEF Right
    <2>5. \A i \in 1..Len(seen') : \/ i \in 1..Len(Remembered(seen)) /\ seen'[i] = Remembered(seen)[i]
                                  \/ seen'[i] = [proof |-> client[r[1]].proof, at |-> now]
      BY <1>4, <1>8
    <2> QED
      BY <1>2, <1>6, <2>4, <2>5
  <1>9. (\A r \in Requests : ~ApiStep(r)) => seen' = seen
    BY OutsideMoves
  <1> QED
    BY <1>3, <1>7, <1>8, <1>9, ClaimMoves

\* A remembered proof of the call of a posted request has a claimant.
LEMMA RememberedClaimed ==
  ASSUME TypeOK, Posted, Remembers, NEW r \in Requests, request[r].step # "absent",
         client[r[1]].proof \in ProofsIn(Remembered(seen))
  PROVE  \E k \in Copies : IsClaimant(<<r[1], k>>)
  <1>0. ASSUME NEW s \in Seq(Entry), NEW p \in ProofsIn(s) PROVE \E i \in 1..Len(s) : s[i].proof = p
    BY DEF ProofsIn
  <1>1. PICK n \in 0..Len(seen) :
           /\ Remembered(seen) \in Seq(Entry) /\ Len(Remembered(seen)) = Len(seen) - n
           /\ \A i \in 1..(Len(seen) - n) : Remembered(seen)[i] = seen[i + n]
           /\ \A i \in 1..n : i \notin Kept(seen)
    BY RememberedIsSuffix
  <1>2. Len(seen) \in Nat
    BY DEF TypeOK
  <1>3. PICK i \in 1..Len(Remembered(seen)) : Remembered(seen)[i].proof = client[r[1]].proof
    BY <1>0, <1>1
  <1>4. i + n \in 1..Len(seen) /\ seen[i + n].proof = client[r[1]].proof
    BY <1>1, <1>2, <1>3
  <1>5. client[r[1]].proof.nonce = r[1]
    BY DEF Posted
  <1> QED
    BY <1>4, <1>5 DEF Remembers

LEMMA UsedOnceKept == TypeOK /\ Posted /\ Unanswered /\ Remembers /\ UsedOnce /\ [Next]_vars => UsedOnce'
  <1> SUFFICES ASSUME TypeOK, Posted, Unanswered, Remembers, UsedOnce, [Next]_vars,
                      NEW q \in Requests, request'[q].status = "used"
               PROVE  \E k \in Copies : IsClaimant(<<q[1], k>>)'
    BY DEF UsedOnce
  <1>1. \E k \in Copies : IsClaimant(<<q[1], k>>)
    <2>1. CASE request[q].status = "used"
      BY <2>1 DEF UsedOnce
    <2>2. ASSUME request[q].status # "used", NEW r \in Requests, ApiStep(r)
          PROVE  \E k \in Copies : IsClaimant(<<q[1], k>>)
      <3>1. q = r
        BY <2>2, ApiLocal
      <3> QED
        BY <2>2, <3>1, ApiLocal, ClaimMoves, RememberedClaimed
    <2>3. (\A r \in Requests : ~ApiStep(r)) => request'[q].status = request[q].status
      BY OutsideMoves
    <2> QED
      BY <2>1, <2>2, <2>3
  <1>2. PICK k \in Copies : IsClaimant(<<q[1], k>>)
    BY <1>1
  <1>3. <<q[1], k>> \in Requests
    BY DEF Requests
  <1> QED
    BY <1>2, <1>3, ClaimsKept

LEMMA Proven == Spec => [](TypeOK /\ Posted /\ Unanswered /\ Remembers /\ UsedOnce)
  <1>1. Init => Unanswered /\ Remembers /\ UsedOnce
    BY DEF Init, Unanswered, Remembers, UsedOnce
  <1> QED
    BY <1>1, Typed, UnansweredKept, RemembersKept, UsedOnceKept, PTL DEF Spec

\* With any number of calls, deliveries and clocks, a request is refused as
\* already used only when its own proof was claimed before.
THEOREM FreshNotRefusedHolds == Spec => []FreshNotRefused
  <1>1. TypeOK /\ UsedOnce => FreshNotRefused
    <2> SUFFICES ASSUME UsedOnce, NEW c \in Calls, NEW k \in Copies, request[<<c, k>>].status = "used"
                 PROVE  \E j \in Copies : <<c, j>> \in Claimants
      BY DEF FreshNotRefused
    <2>1. \A j \in Copies : <<c, j>> \in Requests
      BY DEF Requests
    <2> QED
      BY <2>1 DEF UsedOnce, IsClaimant, HasClaimed, Claimants
  <1> QED
    BY <1>1, Proven, PTL

\* Entries of different calls: the nonces differ.
Distinct == \A i, j \in 1..Len(seen) : seen[i].proof.nonce = seen[j].proof.nonce => i = j

\* A proof is used at the time it names, or later.
Timely == \A i \in 1..Len(seen) : seen[i].proof.created <= seen[i].at

Late(p) == now - p.created > Window

\* A claimed proof is remembered, or never accepted again.
Claimed == \A r \in Requests : IsClaimant(r) => client[r[1]].proof \in ProofsIn(seen) \/ Late(client[r[1]].proof)

OneProofEach == Distinct /\ Timely /\ Claimed /\ ProofUsedOnce

\* The memory has room for every proof, and the client's clock is not ahead.
RoomForProofs == IsFiniteSet(Calls) /\ Cardinality(Calls) < CacheLimit
ClockNotAhead == Skew <= 0

LEMMA MemoryFits ==
  ASSUME RoomForProofs, TypeOK, Distinct
  PROVE  Len(seen) < CacheLimit
  <1>1. Len(seen) \in Nat /\ Cardinality(Calls) \in Nat /\ IsFiniteSet(Calls)
    BY FS_CardinalityType DEF TypeOK, RoomForProofs
  <1>2. ASSUME NEW i \in 1..Len(seen) PROVE seen[i].proof.nonce \in Calls
    <2>1. seen[i] \in Entry
      BY DEF TypeOK
    <2> QED
      BY <2>1 DEF Entry, Signed
  <1> DEFINE f == [i \in 1..Len(seen) |-> seen[i].proof.nonce]
  <1>3. f \in Injection(1..Len(seen), Calls)
    BY <1>2 DEF Distinct, Injection, IsInjective
  <1>4. IsFiniteSet(1..Len(seen)) /\ Cardinality(1..Len(seen)) = Len(seen)
    <2>1. 1 \in Int /\ Len(seen) \in Int
      BY <1>1
    <2>2. IsFiniteSet(1..Len(seen)) /\ Cardinality(1..Len(seen)) = IF 1 > Len(seen) THEN 0 ELSE Len(seen) - 1 + 1
      BY <2>1, FS_Interval
    <2> QED
      BY <1>1, <2>2
  <1>5. Cardinality(1..Len(seen)) <= Cardinality(Calls)
    BY <1>1, <1>3, <1>4, FS_Injection DEF ExistsInjection
  <1> QED
    BY <1>1, <1>4, <1>5, BoundsAssumption DEF RoomForProofs

\* What is forgotten is too old to be accepted.
LEMMA ForgottenIsLate ==
  ASSUME RoomForProofs, TypeOK, Distinct, Timely, NEW p \in ProofsIn(seen)
  PROVE  p \in ProofsIn(Remembered(seen)) \/ Late(p)
  <1> USE BoundsAssumption
  <1>1. PICK n \in 0..Len(seen) :
           /\ Remembered(seen) \in Seq(Entry) /\ Len(Remembered(seen)) = Len(seen) - n
           /\ \A i \in 1..(Len(seen) - n) : Remembered(seen)[i] = seen[i + n]
           /\ \A i \in 1..n : i \notin Kept(seen)
    BY RememberedIsSuffix
  <1>2. Len(seen) \in Nat /\ now \in Int /\ seen \in Seq(Entry)
    BY DEF TypeOK
  <1>3. PICK i \in 1..Len(seen) : seen[i].proof = p
    BY <1>2 DEF ProofsIn
  <1>4. seen[i].at \in Int /\ p.created \in Int /\ p.created <= seen[i].at
    <2>1. seen[i] \in Entry
      BY <1>2
    <2>2. seen[i].at \in 0..MaxTime /\ seen[i].proof \in Signed
      BY <2>1 DEF Entry
    <2> QED
      BY <1>3, <2>2 DEF Signed, Timely
  <1>5. CASE i <= n
    <2>1. i \notin Kept(seen)
      BY <1>1, <1>2, <1>3, <1>5
    <2>2. Len(seen) - i + 1 < CacheLimit
      BY <1>2, <1>3, MemoryFits
    <2>3. ~(now - seen[i].at <= Window)
      BY <1>2, <1>3, <2>1, <2>2 DEF Kept
    <2> QED
      BY <1>2, <1>4, <2>3 DEF Late
  <1>6. CASE ~(i <= n)
    <2>1. i - n \in 1..(Len(seen) - n) /\ (i - n) + n = i
      BY <1>1, <1>2, <1>3, <1>6
    <2>2. Remembered(seen)[i - n] = seen[i]
      BY <1>1, <2>1
    <2>3. i - n \in DOMAIN Remembered(seen)
      BY <1>1, <2>1
    <2> QED
      BY <1>3, <2>2, <2>3 DEF ProofsIn
  <1> QED
    BY <1>5, <1>6

LEMMA OneProofKept ==
  ASSUME RoomForProofs, ClockNotAhead, TypeOK, Posted, Unanswered, Remembers, OneProofEach, [Next]_vars
  PROVE  OneProofEach'
  <1> USE BoundsAssumption
  <1>1. PICK n \in 0..Len(seen) :
           /\ Remembered(seen) \in Seq(Entry) /\ Len(Remembered(seen)) = Len(seen) - n
           /\ \A i \in 1..(Len(seen) - n) : Remembered(seen)[i] = seen[i + n]
           /\ \A i \in 1..n : i \notin Kept(seen)
    BY RememberedIsSuffix
  <1>2. Len(seen) \in Nat /\ now \in Int /\ seen \in Seq(Entry) /\ n \in Nat
    BY <1>1 DEF TypeOK
  <1>3. now <= now' /\ now' \in Int
    BY ClockMoves
  \* What is forgotten stays late.
  <1>4. ASSUME NEW p \in Signed, p \in ProofsIn(seen) \/ Late(p)
        PROVE  p \in ProofsIn(Remembered(seen)) \/ now' - p.created > Window
    <2>1. p.created \in Int
      BY DEF Signed
    <2>2. Late(p) => now' - p.created > Window
      BY <1>2, <1>3, <2>1 DEF Late
    <2> QED
      BY <1>4, <2>2, ForgottenIsLate DEF OneProofEach
  \* One handler claims at a time.
  <1>5. ASSUME NEW r \in Requests, ApiStep(r), ~IsClaimant(r), IsClaimant(r)'
        PROVE  /\ \A k \in Copies : ~IsClaimant(<<r[1], k>>)
               /\ seen' = Append(Remembered(seen), [proof |-> client[r[1]].proof, at |-> now])
               /\ client[r[1]].proof \in Signed /\ client[r[1]].proof.created <= now
               /\ \A i \in 1..Len(Remembered(seen)) :
                    Remembered(seen)[i].proof.nonce # client[r[1]].proof.nonce
    <2>1. /\ InTime(client[r[1]].proof) /\ client[r[1]].proof \notin ProofsIn(Remembered(seen))
          /\ seen' = Append(Remembered(seen), [proof |-> client[r[1]].proof, at |-> now])
      BY <1>5, ClaimMoves
    <2>2. /\ client[r[1]].proof \in Signed /\ client[r[1]].proof.nonce = r[1]
          /\ client[r[1]].proof.created <= now + Skew
      BY <1>5, ApiLocal DEF Posted
    <2>3. client[r[1]].proof.created \in Int
      BY <2>2 DEF Signed
    <2>4. client[r[1]].proof.created <= now
      BY <1>2, <2>2, <2>3 DEF ClockNotAhead
    <2>5. ~Late(client[r[1]].proof)
      <3>1. now - client[r[1]].proof.created <= Window
        BY <2>1 DEF InTime
      <3>2. now \in Int /\ Window \in Int
        BY <1>2
      <3> QED
        BY <2>3, <3>1, <3>2 DEF Late
    <2>6. client[r[1]].proof \notin ProofsIn(seen)
      BY <2>1, <2>5, ForgottenIsLate DEF OneProofEach
    <2>7. ASSUME NEW k \in Copies, IsClaimant(<<r[1], k>>) PROVE FALSE
      <3>1. <<r[1], k>> \in Requests /\ <<r[1], k>>[1] = r[1]
        BY DEF Requests
      <3> QED
        BY <2>5, <2>6, <2>7, <3>1 DEF OneProofEach, Claimed
    <2>8. ASSUME NEW i \in 1..Len(Remembered(seen)), Remembered(seen)[i].proof.nonce = client[r[1]].proof.nonce
          PROVE  FALSE
      <3>1. i + n \in 1..Len(seen) /\ seen[i + n].proof.nonce = r[1]
        BY <1>1, <1>2, <2>2, <2>8
      <3>2. client[r[1]].proof = seen[i + n].proof
        BY <3>1 DEF Remembers
      <3>3. i + n \in DOMAIN seen
        BY <1>2, <3>1
      <3> QED
        BY <2>6, <3>2, <3>3 DEF ProofsIn
    <2> QED
      BY <2>1, <2>2, <2>4, <2>7, <2>8
  <1> DEFINE kept == Remembered(seen)
  \* What is kept stays in order.
  <1>6. /\ \A i, j \in 1..Len(kept) : kept[i].proof.nonce = kept[j].proof.nonce => i = j
        /\ \A i \in 1..Len(kept) : kept[i].proof.created <= kept[i].at
        /\ ProofsIn(kept) \subseteq ProofsIn(seen)
    <2>0. \A i \in 1..Len(kept) : i + n \in 1..Len(seen) /\ kept[i] = seen[i + n]
      BY <1>1, <1>2
    <2>1. ASSUME NEW i \in 1..Len(kept), NEW j \in 1..Len(kept), kept[i].proof.nonce = kept[j].proof.nonce
          PROVE  i = j
      <3>0. Distinct /\ i + n \in 1..Len(seen) /\ j + n \in 1..Len(seen)
            /\ seen[i + n].proof.nonce = seen[j + n].proof.nonce
        BY <2>0, <2>1 DEF OneProofEach
      <3>1. i + n = j + n
        BY <3>0 DEF Distinct
      <3> QED
        BY <1>1, <1>2, <3>1
    <2>2. \A i \in 1..Len(kept) : kept[i].proof.created <= kept[i].at
      BY <2>0 DEF OneProofEach, Timely
    <2>3. ProofsIn(kept) \subseteq ProofsIn(seen)
      <3>1. DOMAIN kept = 1..Len(kept) /\ DOMAIN seen = 1..Len(seen)
        BY <1>1, <1>2
      <3> QED
        BY <2>0, <3>1 DEF ProofsIn
    <2> QED
      BY <2>1, <2>2, <2>3
  <1> HIDE DEF kept
  \* An old claimant's proof is kept, or late.
  <1>7. ASSUME NEW s, ProofsIn(kept) \subseteq ProofsIn(s), NEW q \in Requests, IsClaimant(q)
        PROVE  client'[q[1]].proof \in ProofsIn(s) \/ now' - client'[q[1]].proof.created > Window
    <2>1. request[q].step # "absent"
      BY <1>7 DEF IsClaimant, HasClaimed
    <2>2. client'[q[1]].proof = client[q[1]].proof /\ client[q[1]].proof \in Signed
      BY <2>1, ProofKept DEF Posted
    <2>3. client[q[1]].proof \in ProofsIn(seen) \/ Late(client[q[1]].proof)
      BY <1>7 DEF OneProofEach, Claimed
    <2> QED
      BY <1>4, <1>7, <2>2, <2>3 DEF kept
  <1>8. ASSUME NEW r \in Requests, ApiStep(r), ~IsClaimant(r), IsClaimant(r)' PROVE OneProofEach'
    <2> DEFINE p == client[r[1]].proof
               e == [proof |-> p, at |-> now]
               s == Append(kept, e)
    <2>1. /\ \A k \in Copies : ~IsClaimant(<<r[1], k>>)
          /\ seen' = s /\ p \in Signed /\ p.created <= now
          /\ \A i \in 1..Len(kept) : kept[i].proof.nonce # p.nonce
      BY <1>5, <1>8 DEF kept
    <2>2. client' = client /\ \A q \in Requests \ {r} : request'[q] = request[q]
      BY <1>8, ApiLocal
    <2>3. Len(kept) \in Nat /\ kept \in Seq(Entry)
      BY <1>1, <1>2 DEF kept
    <2>4. /\ Len(s) = Len(kept) + 1 /\ s[Len(kept) + 1] = e /\ DOMAIN s = 1..(Len(kept) + 1)
          /\ \A i \in 1..Len(kept) : s[i] = kept[i]
      BY <2>3
    <2> HIDE DEF s
    <2>5. Distinct'
      <3>1. ASSUME NEW i \in 1..Len(s), NEW j \in 1..Len(s), s[i].proof.nonce = s[j].proof.nonce PROVE i = j
        <4>0. s[Len(kept) + 1].proof.nonce = p.nonce
          BY <2>4
        <4>1. CASE i \in 1..Len(kept) /\ j \in 1..Len(kept)
          BY <1>6, <2>4, <3>1, <4>1
        <4>2. CASE i = Len(kept) + 1 /\ j \in 1..Len(kept)
          BY <2>1, <2>4, <3>1, <4>0, <4>2
        <4>3. CASE j = Len(kept) + 1 /\ i \in 1..Len(kept)
          BY <2>1, <2>4, <3>1, <4>0, <4>3
        <4> QED
          BY <2>3, <2>4, <4>1, <4>2, <4>3
      <3> QED
        BY <2>1, <3>1 DEF Distinct
    <2>6. Timely'
      <3>1. ASSUME NEW i \in 1..Len(s) PROVE s[i].proof.created <= s[i].at
        <4>1. CASE i \in 1..Len(kept)
          BY <1>6, <2>4, <4>1
        <4>2. CASE i = Len(kept) + 1
          BY <2>1, <2>4, <4>2
        <4> QED
          BY <2>3, <2>4, <4>1, <4>2
      <3> QED
        BY <2>1, <3>1 DEF Timely
    <2>7. ProofsIn(kept) \subseteq ProofsIn(s) /\ p \in ProofsIn(s)
      <3>1. DOMAIN kept = 1..Len(kept)
        BY <2>3
      <3>2. Len(kept) + 1 \in DOMAIN s /\ \A i \in 1..Len(kept) : i \in DOMAIN s
        BY <2>3, <2>4
      <3> QED
        BY <2>4, <3>1, <3>2 DEF ProofsIn
    <2>8. Claimed'
      <3>1. ASSUME NEW q \in Requests, HasClaimed(request'[q])
            PROVE  client'[q[1]].proof \in ProofsIn(s) \/ now' - client'[q[1]].proof.created > Window
        <4>1. CASE q = r
          BY <2>2, <2>7, <4>1
        <4>2. CASE q # r
          <5>1. IsClaimant(q)
            BY <2>2, <3>1, <4>2 DEF IsClaimant
          <5> QED
            BY <1>7, <2>7, <5>1
        <4> QED
          BY <4>1, <4>2
      <3> QED
        BY <2>1, <3>1 DEF Claimed, IsClaimant, Late
    <2>9. ProofUsedOnce'
      <3>1. ASSUME NEW c \in Calls, \A k \in Copies : <<c, k>> \in Requests /\ HasClaimed(request'[<<c, k>>])
            PROVE  FALSE
        <4>1. PICK k \in Copies : <<c, k>> # r
          BY DEF Copies
        <4>2. IsClaimant(<<c, k>>) /\ <<c, k>> \in Requests
          BY <2>2, <3>1, <4>1 DEF IsClaimant
        <4>3. c # r[1]
          BY <2>1, <4>2
        <4>4. \A j \in Copies : <<c, j>> \in Requests /\ IsClaimant(<<c, j>>)
          <5> TAKE j \in Copies
          <5>1. <<c, j>> # r
            BY <4>3
          <5> QED
            BY <2>2, <3>1, <5>1 DEF IsClaimant
        <4> QED
          BY <4>4 DEF OneProofEach, ProofUsedOnce, Claimants, IsClaimant, HasClaimed
      <3> QED
        BY <3>1 DEF ProofUsedOnce, Claimants, HasClaimed
    <2> QED
      BY <2>5, <2>6, <2>8, <2>9 DEF OneProofEach
  <1>9. ASSUME \A q \in Requests : IsClaimant(q)' => IsClaimant(q), seen' = seen \/ seen' = kept
        PROVE  OneProofEach'
    <2>1. Distinct' /\ Timely'
      <3>1. CASE seen' = seen
        BY <3>1 DEF OneProofEach, Distinct, Timely
      <3>2. CASE seen' = kept
        BY <1>6, <3>2 DEF Distinct, Timely
      <3> QED
        BY <1>9, <3>1, <3>2
    <2>2. Claimed'
      <3>1. ASSUME NEW s, s = seen', NEW q \in Requests, HasClaimed(request'[q])
            PROVE  client'[q[1]].proof \in ProofsIn(s) \/ now' - client'[q[1]].proof.created > Window
        <4>1. IsClaimant(q)
          BY <1>9, <3>1 DEF IsClaimant
        <4>2. ProofsIn(kept) \subseteq ProofsIn(s)
          BY <1>6, <1>9, <3>1
        <4> QED
          BY <1>7, <4>1, <4>2
      <3> QED
        BY <3>1 DEF Claimed, IsClaimant, Late
    <2>3. ProofUsedOnce'
      <3>1. ASSUME NEW c \in Calls, \A k \in Copies : <<c, k>> \in Requests /\ HasClaimed(request'[<<c, k>>])
            PROVE  FALSE
        <4>1. \A k \in Copies : <<c, k>> \in Requests /\ IsClaimant(<<c, k>>)
          BY <1>9, <3>1 DEF IsClaimant
        <4> QED
          BY <4>1 DEF OneProofEach, ProofUsedOnce, Claimants, IsClaimant, HasClaimed
      <3> QED
        BY <3>1 DEF ProofUsedOnce, Claimants, HasClaimed
    <2> QED
      BY <2>1, <2>2, <2>3 DEF OneProofEach
  <1>10. CASE \A r \in Requests : ~ApiStep(r)
    <2>1. seen' = seen /\ \A q \in Requests : IsClaimant(q)' => IsClaimant(q)
      BY <1>10, OutsideMoves DEF IsClaimant, HasClaimed
    <2> QED
      BY <1>9, <2>1
  <1>11. ASSUME NEW r \in Requests, ApiStep(r), IsClaimant(r)' => IsClaimant(r) PROVE OneProofEach'
    <2>1. \A q \in Requests : IsClaimant(q)' => IsClaimant(q)
      <3> SUFFICES ASSUME NEW q \in Requests, HasClaimed(request'[q]) PROVE IsClaimant(q)
        BY DEF IsClaimant
      <3>1. CASE q = r
        BY <1>11, <3>1 DEF IsClaimant
      <3>2. CASE q # r
        BY <1>11, <3>2, ApiLocal DEF IsClaimant
      <3> QED
        BY <3>1, <3>2
    <2>2. seen' = seen \/ seen' = kept
      <3>1. CASE seen' = seen
        BY <3>1
      <3>2. CASE seen' # seen
        <4>1. request[r].step = "body"
          BY <1>11, <3>2, ClaimMoves
        <4>2. ~IsClaimant(r)
          BY <4>1 DEF IsClaimant, HasClaimed
        <4> QED
          BY <1>11, <3>2, <4>2, ClaimMoves DEF kept
      <3> QED
        BY <3>1, <3>2
    <2> QED
      BY <1>9, <2>1, <2>2
  <1> QED
    BY <1>8, <1>10, <1>11

\* With room for every proof and a client whose clock is not ahead of the
\* API's, a request that is delivered twice claims its proof once, in whatever
\* order and with whatever delay.
THEOREM ProofUsedOnceHolds ==
  ASSUME RoomForProofs, ClockNotAhead
  PROVE  Spec => []ProofUsedOnce
  <1>1. Init => OneProofEach
    <2> SUFFICES ASSUME Init PROVE OneProofEach
      OBVIOUS
    <2>1. seen = <<>> /\ \A r \in Requests : request[r].step = "absent"
      BY DEF Init
    <2>2. Distinct /\ Timely /\ Claimed
      BY <2>1 DEF Distinct, Timely, Claimed, IsClaimant, HasClaimed
    <2>3. ProofUsedOnce
      BY <2>1 DEF ProofUsedOnce, Claimants, Copies
    <2> QED
      BY <2>2, <2>3 DEF OneProofEach
  <1>2. TypeOK /\ Posted /\ Unanswered /\ Remembers /\ OneProofEach /\ [Next]_vars => OneProofEach'
    BY OneProofKept
  <1>3. OneProofEach => ProofUsedOnce
    BY DEF OneProofEach
  <1> QED
    BY <1>1, <1>2, <1>3, Proven, PTL DEF Spec

-----------------------------------------------------------------------------
(***************************************************************************)
(* Releases.                                                               *)
(***************************************************************************)
CurrentIn(item, D) == D[item.doc].rev = item.rev /\ D[item.doc].ok

\* What a handler knows of its citations: until the inference has ended they
\* hold; then they held or a document that is still to be read again is
\* outdated; and what passed the recheck held.
FitsIn(h, D) ==
  /\ \A item \in h.left : item.rev <= D[item.doc].rev
  /\ h.step \in {"absent", "sent", "body", "claimed", "identified"} => h.held = TRUE /\ h.cites = {}
  /\ h.step = "inferring" => h.held = TRUE /\ h.cites \subseteq h.left
  /\ h.step = "rechecking" => h.held = TRUE \/ \E item \in h.left : ~CurrentIn(item, D)
  /\ h.step \in {"verifying", "citing"} => h.held = TRUE
  /\ h.step = "releasing" => h.held = TRUE \/ h.cites = {}
Fits == \A r \in Requests : FitsIn(request[r], docs)

\* A document that is outdated stays so: its revision grows, and what lost its
\* evidence is not restored at the same revision.
LEMMA OutdatedStays ==
  ASSUME TypeOK, [Next]_vars, NEW item \in Item, item.rev <= docs[item.doc].rev
  PROVE  /\ item.rev <= docs'[item.doc].rev
         /\ ~CurrentIn(item, docs) => ~CurrentIn(item, docs')
  <1>0. item.doc \in Docs /\ item.rev \in Int /\ docs[item.doc].rev \in Int /\ docs[item.doc].ok \in BOOLEAN
    BY BoundsAssumption DEF TypeOK, Item
  <1>1. CASE docs' = docs
    BY <1>1
  <1>2. ASSUME NEW d \in Docs, ChangeDocument(d)
        PROVE  /\ item.rev <= docs'[item.doc].rev
               /\ ~CurrentIn(item, docs) => ~CurrentIn(item, docs')
    <2>1. CASE \E ok \in BOOLEAN : docs' = [docs EXCEPT ![d] = [rev |-> @.rev + 1, ok |-> ok]]
      <3>1. PICK ok \in BOOLEAN : docs' = [docs EXCEPT ![d] = [rev |-> docs[d].rev + 1, ok |-> ok]]
        BY <2>1
      <3>2. CASE item.doc = d
        <4>1. docs'[item.doc].rev = docs[item.doc].rev + 1
          BY <1>0, <3>1, <3>2 DEF TypeOK
        <4> QED
          BY <1>0, <4>1 DEF CurrentIn
      <3>3. CASE item.doc # d
        <4>1. docs'[item.doc] = docs[item.doc]
          BY <1>0, <3>1, <3>3 DEF TypeOK
        <4> QED
          BY <4>1 DEF CurrentIn
      <3> QED
        BY <3>2, <3>3
    <2>2. CASE docs' = [docs EXCEPT ![d].ok = FALSE]
      <3>0. docs' = [docs EXCEPT ![d] = [docs[d] EXCEPT !.ok = FALSE]]
        BY <2>2 DEF TypeOK
      <3>1. docs'[item.doc].rev = docs[item.doc].rev /\ (docs'[item.doc].ok => docs[item.doc].ok)
        BY <1>0, <3>0 DEF TypeOK
      <3> QED
        BY <3>1 DEF CurrentIn
    <2> QED
      BY <1>2, <2>1, <2>2 DEF ChangeDocument
  <1>3. (\A d \in Docs : ~ChangeDocument(d)) => docs' = docs
    <2>1. ASSUME NEW c \in Calls, ClientStep(c) PROVE docs' = docs
      BY <2>1, ClientLocal
    <2>2. ASSUME NEW c \in Calls, Resend(c) PROVE docs' = docs
      BY <2>2 DEF Resend
    <2>3. ASSUME NEW r \in Requests, ApiStep(r) PROVE docs' = docs
      BY <2>3, ApiLocal
    <2>4. StartMcp \/ Tick \/ ChangeStanding \/ UNCHANGED vars => docs' = docs
      BY DEF StartMcp, Tick, ChangeStanding, vars
    <2> QED
      BY <2>1, <2>2, <2>3, <2>4 DEF Next
  <1> QED
    BY <1>1, <1>2, <1>3

\* What a step of the API leaves of its own handler.
LEMMA FitMoves ==
  ASSUME TypeOK, Fits, NEW r \in Requests, ApiStep(r)
  PROVE  FitsIn(request'[r], docs)
  <1> DEFINE Goal == FitsIn(request'[r], docs)
  <1> SUFFICES Goal
    OBVIOUS
  <1>0. request[r] \in Handler /\ FitsIn(request[r], docs)
    BY DEF TypeOK, Fits
  <1>1. ASSUME NEW status, Answers(r, status) PROVE Goal
    <2>1. request'[r].step = "done" /\ request'[r].left = {}
      BY <1>1, AnswersLocal
    <2> QED
      BY <2>1 DEF FitsIn
  <1>2. ASSUME NEW step, Goes(r, step)
        PROVE  /\ request'[r].step = step /\ request'[r].held = request[r].held
               /\ request'[r].cites = request[r].cites /\ request'[r].left = request[r].left
    <2>1. request'[r] = [request[r] EXCEPT !.step = step]
      BY <1>2, GoesLocal
    <2> QED
      BY <1>0, <2>1 DEF Handler
  <1>3. CASE Admit(r)
    <2>1. CASE HasRoom
      <3>1. request[r].step = "sent" /\ Goes(r, "body")
        BY <1>3, <2>1 DEF Admit
      <3> QED
        BY <1>0, <1>2, <3>1 DEF FitsIn
    <2>2. CASE ~HasRoom
      <3>1. request' = [request EXCEPT ![r] = [request[r] EXCEPT !.step = "done", !.status = "refused"]]
        BY <1>3, <2>2 DEF TypeOK, Admit
      <3>2. request'[r].step = "done" /\ request'[r].left = request[r].left
        BY <1>0, <3>1 DEF TypeOK, Handler
      <3> QED
        BY <1>0, <3>2 DEF FitsIn
    <2> QED
      BY <2>1, <2>2
  <1>4. CASE BodyTimeout(r)
    BY <1>1, <1>4 DEF BodyTimeout
  <1>5. CASE Disconnect(r)
    <2>1. request'[r].step = "gone" /\ request'[r].left = request[r].left
      BY <1>0, <1>5 DEF TypeOK, Handler, Disconnect
    <2> QED
      BY <1>0, <2>1 DEF FitsIn
  <1>6. CASE Authenticate(r)
    <2>1. CASE Goes(r, "claimed")
      <3>1. request[r].step = "body"
        BY <1>6 DEF Authenticate
      <3> QED
        BY <1>0, <1>2, <2>1, <3>1 DEF FitsIn
    <2> QED
      BY <1>1, <1>6, <2>1 DEF Authenticate
  <1>7. CASE Identify(r)
    <2>1. CASE request' = [request EXCEPT ![r].step = "identified", ![r].as = standing]
      <3>1. request' = [request EXCEPT ![r] = [request[r] EXCEPT !.step = "identified", !.as = standing]]
        BY <2>1 DEF TypeOK
      <3>2. /\ request'[r].step = "identified" /\ request'[r].held = request[r].held
            /\ request'[r].cites = request[r].cites /\ request'[r].left = request[r].left
        BY <1>0, <3>1 DEF TypeOK, Handler
      <3>3. request[r].step = "claimed"
        BY <1>7 DEF Identify
      <3> QED
        BY <1>0, <3>2, <3>3 DEF FitsIn
    <2> QED
      BY <1>1, <1>7, <2>1 DEF Identify
  <1>8. CASE Retrieve(r)
    <2>0. request[r].step = "identified"
      BY <1>8 DEF Retrieve
    <2>1. CASE Goes(r, "releasing")
      BY <1>0, <1>2, <2>0, <2>1 DEF FitsIn
    <2>2. ASSUME NEW evidence \in SUBSET Usable, NEW cites \in Citable(evidence),
                 request' = [request EXCEPT ![r].step = "inferring", ![r].left = evidence, ![r].cites = cites]
          PROVE  Goal
      <3>1. request' = [request EXCEPT ![r] = [request[r] EXCEPT !.step = "inferring", !.left = evidence, !.cites = cites]]
        BY <2>2 DEF TypeOK
      <3>2. /\ request'[r].step = "inferring" /\ request'[r].held = request[r].held
            /\ request'[r].cites = cites /\ request'[r].left = evidence
        BY <1>0, <3>1 DEF TypeOK, Handler
      <3>3. cites \subseteq evidence
        BY DEF Citable
      <3>4. \A item \in evidence : item.rev <= docs[item.doc].rev
        <4> TAKE item \in evidence
        <4>1. PICK d \in Docs : item = [doc |-> d, rev |-> docs[d].rev]
          BY DEF Usable
        <4>2. docs[d].rev \in Int /\ item.doc = d /\ item.rev = docs[d].rev
          BY <4>1, BoundsAssumption DEF TypeOK
        <4> QED
          BY <4>2
      <3> QED
        BY <1>0, <2>0, <3>2, <3>3, <3>4 DEF FitsIn
    <2> QED
      BY <1>8, <2>1, <2>2 DEF Retrieve
  <1>9. CASE Infer(r)
    <2> DEFINE held == request[r].held /\ request[r].cites \subseteq Usable
    <2>0. request[r].step = "inferring" /\ request[r].held = TRUE /\ request[r].cites \subseteq request[r].left
      BY <1>0, <1>9 DEF Infer, FitsIn
    <2>1. request' = [request EXCEPT ![r].step = "rechecking", ![r].held = held]
      BY <1>9 DEF Infer, TypeOK
    <2>2. request' = [request EXCEPT ![r] = [request[r] EXCEPT !.step = "rechecking", !.held = held]]
      BY <2>1 DEF TypeOK
    <2>3. /\ request'[r].step = "rechecking" /\ request'[r].held = held /\ request'[r].left = request[r].left
      BY <1>0, <2>2 DEF TypeOK, Handler
    <2>4. request[r].cites \subseteq Usable => held = TRUE
      BY <2>0
    <2>5. CASE ~(request[r].cites \subseteq Usable)
      <3>1. PICK item \in request[r].cites : item \notin Usable
        BY <2>5
      <3>2. item \in request[r].left /\ item \in Item
        BY <1>0, <2>0, <3>1 DEF Handler
      <3>3. item = [doc |-> item.doc, rev |-> item.rev] /\ item.doc \in Docs
        BY <3>2 DEF Item
      <3>4. ~CurrentIn(item, docs)
        BY <3>1, <3>3 DEF CurrentIn, Usable
      <3> QED
        BY <1>0, <2>3, <3>2, <3>4 DEF FitsIn
    <2> HIDE DEF held
    <2>6. CASE held = TRUE
      BY <1>0, <2>3, <2>6 DEF FitsIn
    <2> QED
      BY <2>4, <2>5, <2>6
  <1>10. CASE Recheck(r)
    <2>0. request[r].step = "rechecking"
      BY <1>10 DEF Recheck
    <2>1. CASE request[r].left = {} /\ Goes(r, "verifying")
      BY <1>0, <1>2, <2>0, <2>1 DEF FitsIn
    <2>2. ASSUME NEW item \in request[r].left, StillCurrent(item),
                 request' = [request EXCEPT ![r].left = @ \ {item}]
          PROVE  Goal
      <3>1. request' = [request EXCEPT ![r] = [request[r] EXCEPT !.left = request[r].left \ {item}]]
        BY <2>2 DEF TypeOK
      <3>2. /\ request'[r].step = "rechecking" /\ request'[r].held = request[r].held
            /\ request'[r].left = request[r].left \ {item}
        BY <1>0, <2>0, <3>1 DEF TypeOK, Handler
      <3>3. CurrentIn(item, docs)
        BY <2>2 DEF StillCurrent, CurrentIn
      <3>4. request[r].held = TRUE \/ \E other \in request[r].left : ~CurrentIn(other, docs)
        BY <1>0, <2>0 DEF FitsIn
      <3>5. \A other \in request[r].left : other.rev <= docs[other.doc].rev
        BY <1>0 DEF FitsIn
      <3> QED
        BY <3>2, <3>3, <3>4, <3>5 DEF FitsIn
    <2>3. CASE request' = [request EXCEPT ![r].step = "releasing", ![r].left = {}, ![r].cites = {}]
      <3>1. request' = [request EXCEPT ![r] = [request[r] EXCEPT !.step = "releasing", !.left = {}, !.cites = {}]]
        BY <2>3 DEF TypeOK
      <3>2. request'[r].step = "releasing" /\ request'[r].left = {} /\ request'[r].cites = {}
        BY <1>0, <3>1 DEF TypeOK, Handler
      <3> QED
        BY <3>2 DEF FitsIn
    <2> QED
      BY <1>10, <2>1, <2>2, <2>3 DEF Recheck
  <1>11. CASE VerifyMember(r)
    <2>1. CASE standing # Removed
      <3>1. request[r].step = "verifying" /\ Goes(r, IF request[r].cites = {} THEN "releasing" ELSE "citing")
        BY <1>11, <2>1 DEF VerifyMember
      <3> QED
        BY <1>0, <1>2, <3>1 DEF FitsIn
    <2> QED
      BY <1>1, <1>11, <2>1 DEF VerifyMember
  <1>12. CASE VerifyCitations(r)
    <2>1. CASE Goes(r, "releasing")
      <3>1. request[r].step = "citing"
        BY <1>12 DEF VerifyCitations
      <3> QED
        BY <1>0, <1>2, <2>1, <3>1 DEF FitsIn
    <2> QED
      BY <1>1, <1>12, <2>1 DEF VerifyCitations
  <1>13. CASE Release(r)
    BY <1>1, <1>13 DEF Release
  <1> QED
    BY <1>3, <1>4, <1>5, <1>6, <1>7, <1>8, <1>9, <1>10, <1>11, <1>12, <1>13 DEF ApiStep

LEMMA FitsKept == TypeOK /\ Posted /\ Fits /\ [Next]_vars => Fits'
  <1> SUFFICES ASSUME TypeOK, Posted, Fits, [Next]_vars, NEW q \in Requests PROVE FitsIn(request'[q], docs')
    BY DEF Fits
  <1>0. request[q] \in Handler /\ FitsIn(request[q], docs)
    BY DEF TypeOK, Fits
  <1>1. ASSUME NEW r \in Requests, ApiStep(r) PROVE FitsIn(request'[q], docs')
    <2>1. docs' = docs
      BY <1>1, ApiLocal
    <2>2. CASE q = r
      BY <1>1, <2>1, <2>2, FitMoves
    <2>3. CASE q # r
      <3>1. request'[q] = request[q]
        BY <1>1, <2>3, ApiLocal
      <3> QED
        BY <1>0, <2>1, <3>1
    <2> QED
      BY <2>2, <2>3
  <1>2. CASE \A r \in Requests : ~ApiStep(r)
    <2>1. \A item \in request[q].left : /\ item \in Item /\ item.rev <= docs[item.doc].rev
                                        /\ item.rev <= docs'[item.doc].rev
                                        /\ ~CurrentIn(item, docs) => ~CurrentIn(item, docs')
      <3> TAKE item \in request[q].left
      <3>1. item \in Item /\ item.rev <= docs[item.doc].rev
        BY <1>0 DEF Handler, FitsIn
      <3> QED
        BY <3>1, OutdatedStays
    <2>2. FitsIn(request[q], docs')
      BY <1>0, <2>1 DEF FitsIn
    <2>3. CASE request'[q] = request[q]
      BY <2>2, <2>3
    <2>4. CASE /\ request[q].step = "absent" /\ request'[q].step = "sent"
               /\ request'[q].cites = request[q].cites
               /\ request'[q].held = request[q].held
               /\ request'[q].left = request[q].left
      BY <2>2, <2>4 DEF FitsIn
    <2> QED
      BY <1>2, <2>3, <2>4, OutsideMoves
  <1> QED
    BY <1>1, <1>2

\* An answer leaves only as a release, to a caller in the role it was asked in.
LEMMA ReleaseOnly ==
  ASSUME TypeOK, Unanswered, NEW r \in Requests, ApiStep(r), request[r].status = "none", request'[r].status = "ok"
  PROVE  request[r].step = "releasing" /\ standing = request[r].as
  <1>0. request[r] \in Handler
    BY DEF TypeOK
  <1>1. ASSUME NEW step, Goes(r, step) PROVE FALSE
    BY <1>0, <1>1, GoesLocal DEF Handler
  <1>2. ASSUME NEW status, Answers(r, status) PROVE status = "ok"
    BY <1>2, AnswersLocal
  <1>3. CASE Release(r)
    BY <1>2, <1>3 DEF Release, StillAuthorized
  <1>4. ~Admit(r)
    <2>1. CASE request' = [request EXCEPT ![r].step = "done", ![r].status = "refused"]
      <3>1. request' = [request EXCEPT ![r] = [request[r] EXCEPT !.step = "done", !.status = "refused"]]
        BY <2>1 DEF TypeOK
      <3> QED
        BY <1>0, <3>1 DEF TypeOK, Handler
    <2> QED
      BY <1>1, <2>1 DEF Admit
  <1>5. ~BodyTimeout(r) /\ ~Authenticate(r) /\ ~VerifyMember(r) /\ ~VerifyCitations(r)
    BY <1>1, <1>2 DEF BodyTimeout, Authenticate, VerifyMember, VerifyCitations
  <1>6. ~Disconnect(r)
    <2>1. Disconnect(r) => request'[r] = [request[r] EXCEPT !.step = "gone"]
      BY DEF TypeOK, Disconnect
    <2>2. [request[r] EXCEPT !.step = "gone"].status = request[r].status
      BY <1>0 DEF Handler
    <2> QED
      BY <2>1, <2>2
  <1>7. ~Identify(r)
    <2>1. CASE request' = [request EXCEPT ![r].step = "identified", ![r].as = standing]
      <3>1. request' = [request EXCEPT ![r] = [request[r] EXCEPT !.step = "identified", !.as = standing]]
        BY <2>1 DEF TypeOK
      <3> QED
        BY <1>0, <3>1 DEF TypeOK, Handler
    <2> QED
      BY <1>2, <2>1 DEF Identify
  <1>8. ~Retrieve(r)
    <2>1. ASSUME NEW evidence, NEW cites,
                 request' = [request EXCEPT ![r].step = "inferring", ![r].left = evidence, ![r].cites = cites]
          PROVE  FALSE
      <3>1. request' = [request EXCEPT ![r] = [request[r] EXCEPT !.step = "inferring", !.left = evidence, !.cites = cites]]
        BY <2>1 DEF TypeOK
      <3> QED
        BY <1>0, <3>1 DEF TypeOK, Handler
    <2>2. ~Goes(r, "releasing")
      BY <1>1
    <2>3. ASSUME Retrieve(r) PROVE FALSE
      <3>1. PICK evidence \in SUBSET Usable : \E cites \in Citable(evidence) :
               request' = [request EXCEPT ![r].step = "inferring", ![r].left = evidence, ![r].cites = cites]
        BY <2>2, <2>3 DEF Retrieve
      <3>2. PICK cites \in Citable(evidence) :
               request' = [request EXCEPT ![r].step = "inferring", ![r].left = evidence, ![r].cites = cites]
        BY <3>1
      <3> QED
        BY <2>1, <3>2
    <2> QED
      BY <2>3
  <1>9. ~Infer(r)
    <2>1. ASSUME NEW held, request' = [request EXCEPT ![r].step = "rechecking", ![r].held = held] PROVE FALSE
      <3>1. request' = [request EXCEPT ![r] = [request[r] EXCEPT !.step = "rechecking", !.held = held]]
        BY <2>1 DEF TypeOK
      <3> QED
        BY <1>0, <3>1 DEF TypeOK, Handler
    <2> QED
      BY <2>1 DEF Infer
  <1>10. ~Recheck(r)
    <2>1. ASSUME NEW item, request' = [request EXCEPT ![r].left = @ \ {item}] PROVE FALSE
      BY <1>0, <2>1 DEF TypeOK, Handler
    <2>2. ASSUME request' = [request EXCEPT ![r].step = "releasing", ![r].left = {}, ![r].cites = {}] PROVE FALSE
      <3>1. request' = [request EXCEPT ![r] = [request[r] EXCEPT !.step = "releasing", !.left = {}, !.cites = {}]]
        BY <2>2 DEF TypeOK
      <3> QED
        BY <1>0, <3>1 DEF TypeOK, Handler
    <2> QED
      BY <1>1, <2>1, <2>2 DEF Recheck
  <1> QED
    BY <1>3, <1>4, <1>5, <1>6, <1>7, <1>8, <1>9, <1>10 DEF ApiStep

\* For any documents, roles, calls and deliveries: an answer is released to a
\* caller still in the role it was asked in, and its citations were current
\* and approved, at the revision that was read, when the inference ended.
THEOREM ReleasedHoldsHolds == Spec => ReleasedHolds
  <1> DEFINE Goal == \A r \in Requests :
                       request[r].status = "none" /\ request'[r].status = "ok" =>
                         /\ standing = request[r].as
                         /\ request[r].cites # {} => request[r].held
  <1>1. Init => Fits
    BY DEF Init, Fits, FitsIn
  <1>2. TypeOK /\ Posted /\ Unanswered /\ Fits /\ [Next]_vars => Goal
    <2> SUFFICES ASSUME TypeOK, Posted, Unanswered, Fits, [Next]_vars,
                        NEW r \in Requests, request[r].status = "none", request'[r].status = "ok"
                 PROVE  standing = request[r].as /\ (request[r].cites # {} => request[r].held)
      OBVIOUS
    <2>1. PICK q \in Requests : ApiStep(q)
      <3>1. CASE \A q \in Requests : ~ApiStep(q)
        <4>1. request'[r].status = request[r].status
          BY <3>1, OutsideMoves
        <4> QED
          BY <4>1
      <3> QED
        BY <3>1
    <2>2. q = r
      BY <2>1, ApiLocal
    <2>3. request[r].step = "releasing" /\ standing = request[r].as
      BY <2>1, <2>2, ReleaseOnly
    <2>4. FitsIn(request[r], docs)
      BY DEF Fits
    <2>5. request[r].held = TRUE \/ request[r].cites = {}
      BY <2>3, <2>4 DEF FitsIn
    <2> QED
      BY <2>3, <2>5
  <1>3. Spec => [](TypeOK /\ Posted /\ Unanswered /\ Fits)
    BY <1>1, FitsKept, Proven, PTL DEF Spec
  <1>4. ReleasedHolds <=> [][Goal]_vars
    BY DEF ReleasedHolds
  <1> QED
    BY <1>2, <1>3, PTL DEF Spec, ReleasedHolds
=============================================================================
