---------------------------- MODULE KnowledgeCards ----------------------------
(***************************************************************************)
(* Knowledge cards in Buzz Desktop (clients/buzz-desktop) and the agent    *)
(* that posts them and answers their commands (proxy/buzz_cards.py,        *)
(* buzz_chat.py, buzz_wiki.py).                                            *)
(*                                                                         *)
(* A mounted card offers buttons as they were rendered last, from the      *)
(* message it was built from and the members that were loaded.  A button   *)
(* sends a command as an ordinary channel message; the send may fail       *)
(* although the message was delivered.  The agent takes one command at a   *)
(* time, checks the author, acts, and posts a reply, with another card.  A *)
(* crash before the reply leads to a second execution of the command.      *)
(*                                                                         *)
(* A revision is a document's updated_at, as a number.  Within the channel *)
(* a document is known by its text, and a text by the first command that   *)
(* wrote it; 0 is the text of the first document.  What a proposal depends *)
(* on is a set of pages at a revision, its base included.  Which evidence  *)
(* is current, and the delivery of replies, are in Knowledge and           *)
(* ChatCommands; here the agent may refuse any command.                    *)
(***************************************************************************)
EXTENDS Naturals, FiniteSets

CONSTANTS
  Users,        \* people in the channel; each has one card on the screen at a time
  Docs, NoDoc,
  Pressable,    \* bound: the actions whose buttons are pressed
  MaxMountings, \* bound: cards that are put on a screen
  MaxSends,     \* bound: commands sent
  MaxTroubles   \* bound: failures, crashes, reviews elsewhere and role changes together

ASSUME NoDocAssumption == NoDoc \notin Docs
ASSUME BoundsAssumption == MaxMountings \in Nat /\ MaxSends \in Nat /\ MaxTroubles \in Nat

DocKinds == {"proposal", "document"}
Reviews == {"approve", "reject"}

VARIABLES
  docs,       \* [Docs -> row of gcor.documents]
  replies,    \* card tags of the agent's messages in the channel
  role,       \* [Users -> "admin", "member" or "gone"]
  mount,      \* [Users -> what the KnowledgeCard component on the screen holds]
  sends,      \* messages on their way, and whether a component waits for them
  commands,   \* commands the relay has, and where the agent is with them
  decisions,  \* review events: gcor.governance_outbox
  mountings,  \* cards put on a screen so far
  sent,       \* commands sent so far
  troubles

vars == <<docs, replies, role, mount, sends, commands, decisions, mountings, sent, troubles>>

-----------------------------------------------------------------------------
(* Cards *)

NoCommand == [action |-> "none", doc |-> NoDoc, rev |-> 0, deps |-> {}, text |-> 0]
NoCard == [kind |-> "none", doc |-> NoDoc, rev |-> 0, state |-> "none", links |-> {}, saveable |-> FALSE,
           deps |-> {}, text |-> 0]

\* ChatReply: the card of a reply; a reply too long for a tag is text only.
ChatReply(kind) == [kind |-> kind, doc |-> NoDoc, rev |-> 0, state |-> "none", links |-> {},
                    saveable |-> FALSE, deps |-> {}, text |-> 0]

\* A page that is shown, and the document that a proposal led to: that card
\* says "proposed" whatever became of the document.
DocumentCard(d) == [ChatReply("document") EXCEPT !.doc = d, !.rev = docs[d].rev, !.state = docs[d].state]
Announcement(d, rev) == [ChatReply("proposal") EXCEPT !.doc = d, !.rev = rev, !.state = "proposed"]
ProposalCard(d) == Announcement(d, docs[d].rev)

\* Only the fields of its kind are kept.  The text of an answer, and the pages
\* it rests on, are known to the agent by the message.
ParseKnowledgeCard(reply) ==
  [reply EXCEPT !.doc = IF reply.kind \in DocKinds THEN @ ELSE NoDoc,
                !.rev = IF reply.kind \in DocKinds THEN @ ELSE 0,
                !.state = IF reply.kind \in DocKinds THEN @ ELSE "none",
                !.saveable = reply.kind = "answer" /\ @]

\* The command of an action; the text of a question is left out.
Plain(action) == [NoCommand EXCEPT !.action = action]
About(action, d) == [NoCommand EXCEPT !.action = action, !.doc = d]

KnowledgeCommand(card, press) ==
  LET act == press.action
  IN CASE act \in {"ask", "list", "synthesize", "index", "lint"} -> Plain(act)
       [] act = "open" /\ press.link \in card.links -> About("show", press.link)
       [] act = "save" /\ card.saveable ->
            [NoCommand EXCEPT !.action = act, !.deps = card.deps, !.text = card.text]
       [] act \in {"changes", "history", "related"} /\ card.doc # NoDoc -> About(act, card.doc)
       [] act = "inspect" /\ card.doc # NoDoc -> About("show", card.doc)
       [] \/ act = "revise" /\ card.doc # NoDoc /\ card.state = "approved"
          \/ act \in Reviews /\ card.doc # NoDoc /\ card.state = "proposed" ->
            [NoCommand EXCEPT !.action = act, !.doc = card.doc, !.rev = card.rev]
       [] OTHER -> NoCommand

\* The text of a revision is typed: one of its own, or one that some earlier
\* command writes.
Typed(command, text) == IF command.action = "revise" THEN [command EXCEPT !.text = text] ELSE command

\* The buttons of a card, given whether the review buttons are rendered.
Offered(card, canReview) ==
  LET Buttons(shown, actions) == IF shown THEN {[action |-> a, link |-> NoDoc] : a \in actions} ELSE {}
  IN {[action |-> "open", link |-> d] : d \in card.links}
     \cup Buttons(card.doc # NoDoc, {"inspect", "changes", "related", "history"})
     \cup Buttons(card.state = "approved", {"revise"})
     \cup Buttons(card.saveable, {"save"})
     \cup Buttons(card.state = "proposed" /\ canReview, Reviews)
     \cup Buttons(card.kind = "help", {"synthesize", "list", "index", "lint"})
     \cup Buttons(TRUE, {"ask"})

-----------------------------------------------------------------------------
Unmounted == [card |-> NoCard, inFlight |-> FALSE, pending |-> FALSE,
              reviewSent |-> FALSE, busy |-> TRUE, canReview |-> FALSE]

NewDoc == [state |-> "absent", rev |-> 0, deps |-> {}, base |-> NoDoc, multi |-> FALSE, text |-> 0]

\* A proposal was posted, or an approved page shown, and the help card.
Init ==
  /\ \E d \in Docs, first \in {[kind |-> "proposal", state |-> "proposed"],
                              [kind |-> "document", state |-> "approved"]} :
       /\ docs = [e \in Docs |-> IF e = d THEN [NewDoc EXCEPT !.state = first.state, !.rev = 1] ELSE NewDoc]
       /\ replies = {ChatReply("help"),
                     [ChatReply(first.kind) EXCEPT !.doc = d, !.rev = 1, !.state = first.state]}
  /\ role = [u \in Users |-> "admin"]
  /\ mount = [u \in Users |-> Unmounted]
  /\ sends = {}
  /\ commands = {}
  /\ decisions = {}
  /\ mountings = 0
  /\ sent = 0
  /\ troubles = 0

Trouble ==
  /\ troubles < MaxTroubles
  /\ troubles' = troubles + 1

AgentUnchanged == UNCHANGED <<docs, replies, role, commands, decisions>>

-----------------------------------------------------------------------------
(* The component *)

Mounted(u) == mount[u].card # NoCard

\* What a component renders, with the members as they are loaded.
Rendered(u, c) ==
  [c EXCEPT !.busy = c.pending \/ role[u] = "gone",
            !.canReview = ~c.reviewSent /\ role[u] = "admin"]

\* A card is shown; its buttons are of use once the members are loaded.
Mount(u) ==
  /\ ~Mounted(u)
  /\ mountings < MaxMountings
  /\ mountings' = mountings + 1
  /\ \E reply \in replies :
       mount' = [mount EXCEPT ![u] = Rendered(u, [Unmounted EXCEPT !.card = ParseKnowledgeCard(reply)])]
  /\ UNCHANGED <<sends, sent, troubles>> /\ AgentUnchanged

\* What is remembered goes; a message that is on its way goes on.
Unmount(u) ==
  /\ Mounted(u)
  /\ mount' = [mount EXCEPT ![u] = Unmounted]
  /\ sends' = {s \in sends : s.user # u \/ ~s.waited}
                \cup {[s EXCEPT !.waited = FALSE] : s \in {x \in sends : x.user = u /\ ~x.posted}}
  /\ UNCHANGED <<mountings, sent, troubles>> /\ AgentUnchanged

\* React renders it again; that a review was sent may take a pass of its own.
Render(u) ==
  /\ Mounted(u)
  /\ \E c \in {Rendered(u, mount[u]), [Rendered(u, mount[u]) EXCEPT !.canReview = mount[u].canReview]} :
       mount' = [mount EXCEPT ![u] = c]
  /\ UNCHANGED <<sends, mountings, sent, troubles>> /\ AgentUnchanged

\* The flag is set at once, unlike what is rendered.
FreeAsRendered(u) == ~mount[u].busy

Free(u) == ~mount[u].busy /\ ~mount[u].inFlight

\* A rendered button is pressed.
Act(u) ==
  /\ Mounted(u) /\ Free(u)
  /\ sent < MaxSends
  /\ \E press \in Offered(mount[u].card, mount[u].canReview), text \in 0..(sent + 1) :
       LET command == Typed(KnowledgeCommand(mount[u].card, press), text)
       IN /\ command # NoCommand
          /\ press.action \in Pressable
          /\ sends' = sends \cup {[id |-> sent + 1, waited |-> TRUE, user |-> u,
                                   command |-> command, posted |-> FALSE]}
  /\ sent' = sent + 1
  /\ mount' = [mount EXCEPT ![u].inFlight = TRUE, ![u].pending = TRUE]
  /\ UNCHANGED <<mountings, troubles>> /\ AgentUnchanged

\* The relay has the message.
Post(s) ==
  /\ ~s.posted
  /\ sends' = (sends \ {s}) \cup (IF s.waited THEN {[s EXCEPT !.posted = TRUE]} ELSE {})
  /\ commands' = commands \cup {[id |-> s.id, user |-> s.user, command |-> s.command, step |-> "waiting",
                                  made |-> NoDoc]}
  /\ UNCHANGED <<docs, replies, role, mount, decisions, mountings, sent, troubles>>

\* act() goes on, and the next action may start: a review that was sent hides
\* the review buttons, and a failure does not, whether or not the message was
\* delivered or will be.
SendSucceeds(s) ==
  /\ s.waited /\ s.posted
  /\ sends' = sends \ {s}
  /\ mount' = [mount EXCEPT ![s.user].inFlight = FALSE,
                            ![s.user].reviewSent = @ \/ s.command.action \in Reviews]
  /\ UNCHANGED <<mountings, sent, troubles>> /\ AgentUnchanged

SendFails(s) ==
  /\ s.waited
  /\ sends' = (sends \ {s}) \cup (IF s.posted THEN {} ELSE {[s EXCEPT !.waited = FALSE]})
  /\ mount' = [mount EXCEPT ![s.user].inFlight = FALSE]
  /\ Trouble
  /\ UNCHANGED <<mountings, sent>> /\ AgentUnchanged

\* The mutation reports that it is no longer pending, after act() went on.
SettlePending(u) ==
  /\ mount[u].pending /\ ~mount[u].inFlight
  /\ mount' = [mount EXCEPT ![u].pending = FALSE]
  /\ UNCHANGED <<sends, mountings, sent, troubles>> /\ AgentUnchanged

-----------------------------------------------------------------------------
(* The agent *)

InHand == {c \in commands : c.step # "waiting"}
Ends(c) == commands' = commands \ {c}
Becomes(c, step) == commands' = (commands \ {c}) \cup {[c EXCEPT !.step = step, !.made = NoDoc]}
Makes(c, d) == commands' = (commands \ {c}) \cup {[c EXCEPT !.step = "made", !.made = d]}
Says(reply) == replies' = replies \cup reply
AsText == {}  \* a reply without a card
ClientUnchanged == UNCHANGED <<role, mount, sends, mountings, sent>>

\* principal(): the author is an active member, and for a review a human admin.
Permitted(c) == role[c.user] = "admin" \/ (role[c.user] = "member" /\ c.command.action \notin Reviews)

Take(c) ==
  /\ InHand = {}
  /\ c.step = "waiting"
  /\ IF Permitted(c) THEN Becomes(c, "taken") ELSE Ends(c)
  /\ UNCHANGED <<docs, replies, decisions, troubles>> /\ ClientUnchanged

Refuse(c) ==
  /\ c.step = "taken"
  /\ Ends(c)
  /\ UNCHANGED <<docs, replies, decisions, troubles>> /\ ClientUnchanged

\* The process stops before the reply was stored.
Crash(c) ==
  /\ c.step \in {"taken", "made", "executed"}
  /\ Becomes(c, "waiting")
  /\ Trouble
  /\ UNCHANGED <<docs, replies, decisions>> /\ ClientUnchanged

\* Every dependency is approved and at the revision it was written against.
Holds(deps) == \A x \in deps : docs[x.doc].state = "approved" /\ docs[x.doc].rev = x.rev

\* Pages the whole channel may see.
Catalog == {d \in Docs : docs[d].state \in {"proposed", "approved"}}

\* show, changes, and the lists of links: nothing is changed.
Look(c) ==
  LET d == c.command.doc
  IN /\ c.step = "taken"
     /\ c.command.action \in {"show", "changes", "history", "related", "index", "lint", "list"}
     /\ UNCHANGED docs
     /\ \/ c.command.action \in {"show", "list"} /\ Says(AsText)
        \/ c.command.action = "show" /\ Says({DocumentCard(d)})
        \/ /\ c.command.action = "changes"
           /\ Says({IF docs[d].base = NoDoc THEN ChatReply("answer")
                    ELSE [DocumentCard(d) EXCEPT !.links = {docs[d].base}]})
        \/ /\ c.command.action \in {"history", "related", "index", "lint"}
           /\ \E links \in SUBSET Catalog :
                /\ c.command.action = "index" => links = Catalog
                /\ Says({[ChatReply("answer") EXCEPT !.links = links]})
     /\ Ends(c)
     /\ UNCHANGED <<decisions, troubles>> /\ ClientUnchanged

\* An answer from approved pages may be saved; it may be that of an earlier
\* question again.
Ask(c) ==
  /\ c.step = "taken" /\ c.command.action = "ask"
  /\ \E cited \in SUBSET {d \in Docs : docs[d].state = "approved"}, text \in 1..c.id :
       Says({[ChatReply("answer") EXCEPT !.saveable = cited # {}, !.text = text,
                !.deps = {[doc |-> d, rev |-> docs[d].rev] : d \in cited}]})
  /\ Ends(c)
  /\ UNCHANGED <<docs, decisions, troubles>> /\ ClientUnchanged

With(text) == {d \in Docs : docs[d].state # "absent" /\ docs[d].text = text}

\* ingest_payload: a document with this text is left as it is, whichever command
\* proposed it and whatever was decided of it since, or only touched, if its
\* derivatives had been removed; otherwise there is a new one.
Propose(c, row) ==
  /\ \E d \in Docs :
       /\ \/ d \in With(row.text) /\ docs' \in {docs, [docs EXCEPT ![d].rev = @ + 1]}
          \/ /\ docs[d].state = "absent" /\ With(row.text) = {}
             /\ docs' = [docs EXCEPT ![d] = row]
       /\ Makes(c, d)
  /\ UNCHANGED <<replies, decisions, troubles>> /\ ClientUnchanged

Proposed(text, deps) ==
  [NewDoc EXCEPT !.state = "proposed", !.rev = 1, !.deps = deps, !.text = text]

\* The text names the event of the command.
Synthesize(c) ==
  /\ c.step = "taken" /\ c.command.action = "synthesize"
  /\ \E multi \in BOOLEAN : Propose(c, [Proposed(c.id, {}) EXCEPT !.multi = multi])

Save(c) ==
  /\ c.step = "taken" /\ c.command.action = "save"
  /\ Holds(c.command.deps)
  /\ Propose(c, Proposed(c.command.text, c.command.deps))

Revise(c) ==
  LET base == [doc |-> c.command.doc, rev |-> c.command.rev]
  IN /\ c.step = "taken" /\ c.command.action = "revise"
     /\ Holds({base})
     /\ Propose(c, [Proposed(c.command.text, docs[base.doc].deps \cup {base}) EXCEPT !.base = base.doc])

\* The revision that the document has by now is read, and the card posted.
Announce(c) ==
  /\ c.step = "made"
  /\ Says({ProposalCard(c.made)})
  /\ Ends(c)
  /\ UNCHANGED <<docs, decisions, troubles>> /\ ClientUnchanged

\* The revision that the card showed is still there.
UnchangedUnchecked(c) == TRUE

Unchanged(c) == docs[c.command.doc].rev = c.command.rev

\* commit_governance, once for the command: the document gets its new state
\* and, when it is approved, its base is superseded.
Review(c) ==
  LET d == c.command.doc
      approves == c.command.action = "approve"
      Set(e, state) == [docs[e] EXCEPT !.state = state, !.rev = @ + 1]
  IN /\ c.step = "taken" /\ c.command.action \in Reviews
     /\ \/ (\E x \in decisions : x.id = c.id) /\ UNCHANGED <<docs, decisions>>
        \/ /\ \A x \in decisions : x.id # c.id
           /\ Unchanged(c)
           /\ approves => ~docs[d].multi /\ Holds(docs[d].deps)
           /\ docs' = [e \in Docs |->
                CASE e = d -> Set(d, IF approves THEN "approved" ELSE "rejected")
                  [] e # d /\ approves /\ e = docs[d].base -> Set(e, "superseded")
                  [] OTHER -> docs[e]]
           /\ decisions' = decisions \cup {[id |-> c.id, doc |-> d, rev |-> docs[d].rev, was |-> docs[d].state]}
     /\ Becomes(c, "executed")
     /\ UNCHANGED <<replies, troubles>> /\ ClientUnchanged

\* The reply of a review is stored; it is not executed again.
Reply(c) ==
  /\ c.step = "executed"
  /\ Ends(c)
  /\ UNCHANGED <<docs, replies, decisions, troubles>> /\ ClientUnchanged

-----------------------------------------------------------------------------
(* The surroundings *)

\* A document is reviewed or withdrawn elsewhere ("archived" stands for the
\* other states it may be withdrawn to).
ReviewElsewhere(d) ==
  /\ docs[d].state # "absent"
  /\ \E state \in {"proposed", "approved", "archived"} :
       docs' = [docs EXCEPT ![d].state = state, ![d].rev = @ + 1]
  /\ Trouble
  /\ UNCHANGED <<replies, commands, decisions>> /\ ClientUnchanged

ChangeRole(u) ==
  /\ \E r \in {"admin", "member", "gone"} \ {role[u]} : role' = [role EXCEPT ![u] = r]
  /\ Trouble
  /\ UNCHANGED <<docs, replies, mount, sends, commands, decisions, mountings, sent>>

-----------------------------------------------------------------------------
ComponentStep(u) == Mount(u) \/ Unmount(u) \/ Render(u) \/ Act(u) \/ SettlePending(u)

SendStep(s) == Post(s) \/ SendSucceeds(s) \/ SendFails(s)

AgentStep(c) ==
  \/ Take(c) \/ Refuse(c) \/ Crash(c) \/ Look(c) \/ Ask(c) \/ Synthesize(c) \/ Save(c)
  \/ Revise(c) \/ Announce(c) \/ Review(c) \/ Reply(c)

Next ==
  \/ \E u \in Users : ComponentStep(u)
  \/ \E s \in sends : SendStep(s)
  \/ \E c \in commands : AgentStep(c)
  \/ \E d \in Docs : ReviewElsewhere(d)
  \/ \E u \in Users : ChangeRole(u)

Spec == Init /\ [][Next]_vars

-----------------------------------------------------------------------------
(* Properties *)

\* Of a revision one decision at most takes effect, however many cards of
\* whatever age offer it, to several reviewers, and however often a decision is
\* sent and executed; and what it is made on is still a proposal, unless the
\* agent itself announced that very revision as one, after the document had been
\* decided: when its text was proposed again, or before its card was posted.
DecidedOnce ==
  \A x \in decisions :
    /\ x.was = "proposed" \/ Announcement(x.doc, x.rev) \in replies
    /\ \A y \in decisions : x.doc = y.doc /\ x.rev = y.rev => x = y

\* A mounted card waits for one send at a time: a second press, although the
\* buttons are still rendered as they were, sends nothing.
OneSend ==
  \A s, t \in sends : s.user = t.user /\ s.waited /\ t.waited => s = t
=============================================================================
