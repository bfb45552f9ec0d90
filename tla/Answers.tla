------------------------------- MODULE Answers -------------------------------
(***************************************************************************)
(* Signed questions of an agent: the gcor-agent client                     *)
(* (agent-tools/gcor-agent), the admission and proof checks of the API     *)
(* (proxy/request_limits.py, proxy/nostr_auth.py, proxy/access_policy.py)  *)
(* and the release of the answer (proxy/main.py, ask and retrieve).        *)
(*                                                                         *)
(* A call validates its arguments, signs one proof and posts it under a    *)
(* timer.  The network may deliver the request twice.  The API admits it,  *)
(* reads its body, checks and claims the proof, retrieves approved         *)
(* evidence, infers for a long time and, for a question, checks evidence   *)
(* and membership again before it releases the answer.                     *)
(*                                                                         *)
(* Time counts seconds.  A document is its revision and whether it is      *)
(* approved with current evidence.  The caller's standing is the number of *)
(* role changes, or Removed; a removed caller stays removed.               *)
(***************************************************************************)
EXTENDS Integers, Sequences, FiniteSets

CONSTANTS
  Commands,      \* runs of the command line client
  ToolCalls,     \* tool calls to the client's MCP server
  ToolsOf,       \* [Calls -> what it may be: "ask", "search" or both]
  Docs,          \* documents of the channel that match the question
  MaxCitations,  \* citations of an answer (4 for the client, 6 at most)
  MaxInFlight,   \* requests the API admits at once
  Window,        \* seconds a proof is accepted, and remembered (60)
  CacheLimit,    \* proofs remembered (10000)
  Skew,          \* the client's clock minus the API's
  MaxTime,       \* bound: seconds
  MaxChanges,    \* bound: changes of a document
  MaxRoles,      \* bound: changes of the caller's role
  Resent,        \* bound: the calls whose request the network may deliver twice
  MaxTroubles    \* bound: changes, timeouts and failures together

Calls == Commands \cup ToolCalls
Copies == {"original", "copy"}
Requests == Calls \X Copies

ASSUME CallsAssumption ==
  /\ Commands \cap ToolCalls = {}
  /\ ToolsOf \in [Calls -> SUBSET {"ask", "search"}]
  /\ Resent \subseteq Calls
ASSUME BoundsAssumption ==
  /\ MaxCitations \in Nat \ {0} /\ MaxInFlight \in Nat \ {0} /\ Window \in Nat
  /\ CacheLimit \in Nat \ {0} /\ Skew \in Int /\ MaxTime \in Nat /\ MaxChanges \in Nat
  /\ MaxRoles \in Nat /\ MaxTroubles \in Nat

Removed == -1
NoProof == [nonce |-> "none", body |-> "none", created |-> Removed]

VARIABLES
  now,       \* the API's clock
  docs,      \* [Docs -> [rev, ok]]
  standing,  \* role changes of the caller so far, or Removed
  key,       \* whether BUZZ_PRIVATE_KEY holds a key
  mcp,       \* whether the MCP server runs
  client,    \* [Calls -> where the call is]
  request,   \* [Requests -> where the API's handler of the request is]
  seen,      \* proofs the API remembers, oldest first
  active,    \* requests admitted and not finished
  troubles   \* changes, timeouts and failures so far

vars == <<now, docs, standing, key, mcp, client, request, seen, active, troubles>>

\* A document at a revision, as retrieved.
Item == [doc : Docs, rev : 0..MaxChanges]
Standing == {Removed} \cup 0..MaxRoles
Signed == [nonce : Calls, body : {"ask", "search"}, created : Int]
Call == [step : {"idle", "waiting", "reading", "reading copy", "ended"},
         proof : Signed \cup {NoProof},
         outcome : {"none", "help", "usage", "identity", "error", "results", "grounded", "ungrounded"}]
Handler == [step : {"absent", "sent", "body", "claimed", "identified", "inferring", "rechecking",
                    "verifying", "citing", "releasing", "done", "gone"},
            status : {"none", "ok", "refused", "used", "withheld"},
            as : Standing, cites : SUBSET Item, left : SUBSET Item, held : BOOLEAN]
Entry == [proof : Signed, at : 0..MaxTime]

\* Every variable stays in its declared set.
TypeOK ==
  /\ now \in 0..MaxTime
  /\ docs \in [Docs -> [rev : 0..MaxChanges, ok : BOOLEAN]]
  /\ standing \in Standing
  /\ key \in BOOLEAN
  /\ mcp \in {"down", "up", "exited"}
  /\ client \in [Calls -> Call]
  /\ request \in [Requests -> Handler]
  /\ seen \in Seq(Entry)
  /\ active \in Int
  /\ troubles \in 0..MaxTroubles

Init ==
  /\ now = 0
  /\ docs = [d \in Docs |-> [rev |-> 0, ok |-> TRUE]]
  /\ standing = 0
  /\ key \in BOOLEAN
  /\ mcp = "down"
  /\ client = [c \in Calls |-> [step |-> "idle", proof |-> NoProof, outcome |-> "none"]]
  /\ request = [r \in Requests |->
       [step |-> "absent", status |-> "none", as |-> Removed, cites |-> {}, left |-> {},
        held |-> TRUE]]
  /\ seen = <<>>
  /\ active = 0
  /\ troubles = 0

-----------------------------------------------------------------------------
(* The client *)

\* A change, a timeout or a failure, within the bound.
Trouble ==
  /\ troubles < MaxTroubles
  /\ troubles' = troubles + 1

\* What a call ends with: a printed or returned text, or an error.
Ended(c, outcome) ==
  client' = [client EXCEPT ![c].step = "ended", ![c].outcome = outcome]

\* The MCP server parses the key before it serves, and exits without one.
StartMcp ==
  /\ mcp = "down"
  /\ mcp' = IF key THEN "up" ELSE "exited"
  /\ UNCHANGED <<now, docs, standing, key, client, request, seen, active, troubles>>

\* A command that asks nothing: help, whoami, or an unknown one (exit code 2).
RunLocal(c, command) ==
  /\ c \in Commands
  /\ client[c].step = "idle"
  /\ Ended(c, CASE command = "help" -> "help"
                [] command = "unknown" -> "usage"
                [] command = "whoami" -> IF key THEN "identity" ELSE "error")
  /\ UNCHANGED <<now, docs, standing, key, mcp, request, seen, active, troubles>>

\* The nonce that makes the proofs of two equal calls differ.
NonceMissing(c) == "fixed"

Nonce(c) == c

\* What is signed: the call's nonce, the request (two questions, or two searches,
\* are the same one) and the second of the client's clock.
Proof(c, tool) == [nonce |-> Nonce(c), body |-> tool, created |-> now + Skew]

ToolOf(c) == client[c].proof.body

CanStart(c) ==
  /\ client[c].step = "idle"
  /\ c \in ToolCalls => mcp = "up"

\* The arguments are checked before anything is signed.
Invalid(c) ==
  /\ CanStart(c)
  /\ Ended(c, "error")
  /\ UNCHANGED <<now, docs, standing, key, mcp, request, seen, active, troubles>>

\* A command without a key signs nothing.
NoKey(c) ==
  /\ CanStart(c)
  /\ ~key
  /\ Ended(c, "error")
  /\ UNCHANGED <<now, docs, standing, key, mcp, request, seen, active, troubles>>

\* The key is parsed, the request is signed and posted and the timer is set.
Post(c) ==
  /\ CanStart(c)
  /\ key
  /\ \E tool \in ToolsOf[c] :
       client' = [client EXCEPT ![c].step = "waiting", ![c].proof = Proof(c, tool)]
  /\ request' = [request EXCEPT ![<<c, "original">>].step = "sent"]
  /\ UNCHANGED <<now, docs, standing, key, mcp, seen, active, troubles>>

\* A request whose answer has not begun is aborted by the timer, or its
\* connection fails: the service is reported unreachable.
Timeout(c) ==
  /\ client[c].step = "waiting"
  /\ Ended(c, "error")
  /\ Trouble
  /\ UNCHANGED <<now, docs, standing, key, mcp, request, seen, active>>

\* The answer begins: the timer is cleared, the body is still to be read.
Headers(c, k) ==
  /\ client[c].step = "waiting"
  /\ request[<<c, k>>].step = "done"
  /\ client' = [client EXCEPT ![c].step = IF k = "original" THEN "reading" ELSE "reading copy"]
  /\ UNCHANGED <<now, docs, standing, key, mcp, request, seen, active, troubles>>

\* The status, and the citations of an answer, decide what the call returns.
Outcome(c, r) ==
  CASE r.status # "ok" -> "error"
    [] ToolOf(c) = "search" -> "results"
    [] OTHER -> IF r.cites # {} THEN "grounded" ELSE "ungrounded"

ReadBody(c, k) ==
  /\ client[c].step = IF k = "original" THEN "reading" ELSE "reading copy"
  /\ \/ Ended(c, Outcome(c, request[<<c, k>>])) /\ UNCHANGED troubles
     \/ Ended(c, "error") /\ Trouble   \* the connection breaks
  /\ UNCHANGED <<now, docs, standing, key, mcp, request, seen, active>>

-----------------------------------------------------------------------------
(* The API *)

Goes(r, step) == request' = [request EXCEPT ![r].step = step]

\* A response leaves, or the request is given up: its slot is free again.
Answers(r, status) ==
  /\ request' = [request EXCEPT ![r] =
       [step |-> "done", status |-> status, as |-> Removed, left |-> {}, held |-> TRUE,
        cites |-> IF status = "ok" THEN request[r].cites ELSE {}]]
  /\ active' = active - 1

\* The network delivers a request a second time.
Resend(c) ==
  /\ c \in Resent
  /\ request[<<c, "original">>].step # "absent"
  /\ request[<<c, "copy">>].step = "absent"
  /\ Goes(<<c, "copy">>, "sent")
  /\ UNCHANGED <<now, docs, standing, key, mcp, client, seen, active, troubles>>

\* Admission: the slot is checked and taken without an await between them.
HasRoom == active < MaxInFlight
Admit(r) ==
  /\ request[r].step = "sent"
  /\ IF HasRoom
     THEN Goes(r, "body") /\ active' = active + 1
     ELSE /\ request' = [request EXCEPT ![r].step = "done", ![r].status = "refused"]
          /\ UNCHANGED active
  /\ UNCHANGED <<now, docs, standing, key, mcp, client, seen, troubles>>

\* The body stays out too long (408).
BodyTimeout(r) ==
  /\ request[r].step = "body"
  /\ Answers(r, "refused")
  /\ Trouble
  /\ UNCHANGED <<now, docs, standing, key, mcp, client, seen>>

\* The client leaves before its body arrived: nothing is answered.
DisconnectKeepsSlot(r) ==
  /\ request[r].step = "body"
  /\ request' = [request EXCEPT ![r].step = "gone"]
  /\ UNCHANGED <<now, docs, standing, key, mcp, client, seen, active, troubles>>

Disconnect(r) ==
  /\ request[r].step = "body"
  /\ r[2] = "original" => client[r[1]].step = "ended"
  /\ request' = [request EXCEPT ![r].step = "gone"]
  /\ active' = active - 1
  /\ UNCHANGED <<now, docs, standing, key, mcp, client, seen, troubles>>

\* A proof is taken within the window around the API's clock.
InTime(p) == now - p.created <= Window /\ p.created - now <= Window

KeptTooBriefly(entries) ==
  {k \in 1..Len(entries) :
     now - entries[k].at < Window /\ Len(entries) - k + 1 < CacheLimit}

\* Proofs are forgotten from the oldest on, until the oldest left is within
\* the window and there is room for one more.
Kept(entries) ==
  {k \in 1..Len(entries) :
     now - entries[k].at <= Window /\ Len(entries) - k + 1 < CacheLimit}

Remembered(entries) ==
  IF Kept(entries) = {} THEN <<>>
  ELSE LET first == CHOOSE k \in Kept(entries) : \A j \in Kept(entries) : k <= j
       IN SubSeq(entries, first, Len(entries))

ProofsIn(entries) == {entries[k].proof : k \in DOMAIN entries}

\* The body is complete: the proof is checked (401), and claimed unless it is
\* remembered (403).  No await separates the check from the claim.
Authenticate(r) ==
  LET p == client[r[1]].proof
      kept == Remembered(seen)
  IN /\ request[r].step = "body"
     /\ \/ ~InTime(p) /\ Answers(r, "refused") /\ UNCHANGED seen
        \/ /\ InTime(p) /\ p \in ProofsIn(kept)
           /\ seen' = kept
           /\ Answers(r, "used")
        \/ /\ InTime(p) /\ p \notin ProofsIn(kept)
           /\ seen' = Append(kept, [proof |-> p, at |-> now])
           /\ Goes(r, "claimed") /\ UNCHANGED active
     /\ UNCHANGED <<now, docs, standing, key, mcp, client, troubles>>

\* The caller's live membership becomes the principal of the request (403).
Identify(r) ==
  /\ request[r].step = "claimed"
  /\ \/ standing = Removed /\ Answers(r, "withheld")
     \/ /\ standing # Removed
        /\ request' = [request EXCEPT ![r].step = "identified", ![r].as = standing]
        /\ UNCHANGED active
  /\ UNCHANGED <<now, docs, standing, key, mcp, client, seen, troubles>>

\* The documents that may be used now, at their revisions.
Usable == {[doc |-> d, rev |-> docs[d].rev] : d \in {e \in Docs : docs[e].ok}}

\* The first citations of the evidence.
Citable(evidence) ==
  {s \in SUBSET evidence :
     IF Cardinality(evidence) <= MaxCitations THEN s = evidence
     ELSE Cardinality(s) = MaxCitations}

\* One statement retrieves the evidence.  A question is inferred from it and
\* cites the first of it; a search is answered with it, and nothing is read again.
Retrieve(r) ==
  /\ request[r].step = "identified"
  /\ \/ /\ ToolOf(r[1]) = "search"
        /\ Goes(r, "releasing")
     \/ /\ ToolOf(r[1]) = "ask"
        /\ \E evidence \in SUBSET Usable : \E cites \in Citable(evidence) :
             request' = [request EXCEPT ![r].step = "inferring", ![r].left = evidence, ![r].cites = cites]
  /\ UNCHANGED <<now, docs, standing, key, mcp, client, seen, active, troubles>>

\* The slow inference ends; whether the citations still hold then is remembered
\* for the property ReleasedHolds only.
Infer(r) ==
  /\ request[r].step = "inferring"
  /\ request' = [request EXCEPT ![r].step = "rechecking", ![r].held = @ /\ request[r].cites \subseteq Usable]
  /\ UNCHANGED <<now, docs, standing, key, mcp, client, seen, active, troubles>>

StillApproved(item) == docs[item.doc].ok

\* A document still is what was retrieved, and may still be used.
StillCurrent(item) == docs[item.doc].rev = item.rev /\ docs[item.doc].ok

\* The documents are read again one by one; one that changed empties the answer.
Recheck(r) ==
  /\ request[r].step = "rechecking"
  /\ \/ /\ request[r].left = {}
        /\ Goes(r, "verifying")
     \/ \E item \in request[r].left :
          IF StillCurrent(item)
          THEN request' = [request EXCEPT ![r].left = @ \ {item}]
          ELSE request' = [request EXCEPT ![r].step = "releasing", ![r].left = {}, ![r].cites = {}]
  /\ UNCHANGED <<now, docs, standing, key, mcp, client, seen, active, troubles>>

\* The caller must be an active member (403) ...
VerifyMember(r) ==
  /\ request[r].step = "verifying"
  /\ IF standing = Removed THEN Answers(r, "withheld")
     ELSE /\ Goes(r, IF request[r].cites = {} THEN "releasing" ELSE "citing")
          /\ UNCHANGED active
  /\ UNCHANGED <<now, docs, standing, key, mcp, client, seen, troubles>>

\* ... and the cited documents approved, in one statement (409).
VerifyCitations(r) ==
  /\ request[r].step = "citing"
  /\ IF \E item \in request[r].cites : ~docs[item.doc].ok THEN Answers(r, "withheld")
     ELSE Goes(r, "releasing") /\ UNCHANGED active
  /\ UNCHANGED <<now, docs, standing, key, mcp, client, seen, troubles>>

\* The response may start only for a caller in the role it was asked in.
StillAuthorized(r) == standing = request[r].as
Release(r) ==
  /\ request[r].step = "releasing"
  /\ Answers(r, IF StillAuthorized(r) THEN "ok" ELSE "withheld")
  /\ UNCHANGED <<now, docs, standing, key, mcp, client, seen, troubles>>

-----------------------------------------------------------------------------
(* The surroundings *)

Tick ==
  /\ now < MaxTime
  /\ now' = now + 1
  /\ UNCHANGED <<docs, standing, key, mcp, client, request, seen, active, troubles>>

\* A review changes a document, or its evidence goes; what lost its evidence
\* comes back only with a new revision.
ChangeDocument(d) ==
  /\ \/ /\ docs[d].rev < MaxChanges
        /\ \E ok \in BOOLEAN : docs' = [docs EXCEPT ![d] = [rev |-> @.rev + 1, ok |-> ok]]
     \/ docs[d].ok /\ docs' = [docs EXCEPT ![d].ok = FALSE]
  /\ Trouble
  /\ UNCHANGED <<now, standing, key, mcp, client, request, seen, active>>

\* The caller's role changes, or the caller leaves the channel.
ChangeStanding ==
  /\ standing # Removed
  /\ \/ standing < MaxRoles /\ standing' = standing + 1
     \/ standing' = Removed
  /\ Trouble
  /\ UNCHANGED <<now, docs, key, mcp, client, request, seen, active>>

-----------------------------------------------------------------------------
ClientStep(c) ==
  \/ \E command \in {"help", "unknown", "whoami"} : RunLocal(c, command)
  \/ Invalid(c)
  \/ NoKey(c)
  \/ Post(c)
  \/ Timeout(c)
  \/ \E k \in Copies : Headers(c, k) \/ ReadBody(c, k)

ApiStep(r) ==
  \/ Admit(r) \/ BodyTimeout(r) \/ Disconnect(r) \/ Authenticate(r) \/ Identify(r)
  \/ Retrieve(r) \/ Infer(r) \/ Recheck(r) \/ VerifyMember(r) \/ VerifyCitations(r) \/ Release(r)

Next ==
  \/ StartMcp
  \/ \E c \in Calls : ClientStep(c) \/ Resend(c)
  \/ \E r \in Requests : ApiStep(r)
  \/ Tick
  \/ \E d \in Docs : ChangeDocument(d)
  \/ ChangeStanding

Spec == Init /\ [][Next]_vars

-----------------------------------------------------------------------------
(* Properties *)

\* The requests whose proof was claimed.
Claimants == {r \in Requests : request[r].step \notin {"absent", "sent", "body", "gone"}
                               /\ request[r].status \notin {"refused", "used"}}

\* A request that is delivered twice is worked on once: whatever the order and
\* the delay of the two deliveries, at most one of them claims the proof (the
\* API's memory of a proof outlives the window in which it is accepted, as long
\* as the client's clock is not ahead and the memory has room).
ProofUsedOnce == \A c \in Calls : ~(\A k \in Copies : <<c, k>> \in Claimants)

\* A call is refused as already used only when its own proof was claimed
\* before: two identical calls within one second do not shut each other out.
FreshNotRefused ==
  \A c \in Calls : (\E k \in Copies : request[<<c, k>>].status = "used")
                      => \E k \in Copies : <<c, k>> \in Claimants

\* An answer is released to a caller whose role is still the one it was asked
\* in, and cites only documents that were, at the end of the inference,
\* approved and current at the very revision the inference read.
ReleasedHolds ==
  [][\A r \in Requests :
       request[r].status = "none" /\ request'[r].status = "ok" =>
         /\ standing = request[r].as
         /\ request[r].cites # {} => request[r].held]_vars

\* The requests inside never exceed the admission limit, and each slot is held by
\* one of them: no way out of the API (an answer, a refusal, a stalled body, a
\* client that left) loses a slot or frees it twice.
SlotsAccounted ==
  /\ active <= MaxInFlight
  /\ active = Cardinality({r \in Requests : request[r].step \notin {"absent", "sent", "gone", "done"}})
=============================================================================
