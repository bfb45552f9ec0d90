----------------------------- MODULE ClientProofs -----------------------------
(***************************************************************************)
(* Proofs about what people work with: the knowledge cards (module         *)
(* KnowledgeCards) and the workspace page (module Workspace).              *)
(*                                                                         *)
(* Cards: a decision is safe because a revision number never returns: a    *)
(* document changes only together with its revision (Moves), so what a     *)
(* card or a command says of a revision stays true for as long as the      *)
(* document is at that revision (Matches), and a decision leaves the       *)
(* revision it was made on behind.  The agent's announcement of a proposal *)
(* says "proposed" of a document in any state, and is never taken back:    *)
(* Matches excepts it, and so does what is proved of a decision.           *)
(*                                                                         *)
(* Page: every chain of requests is started by a click, continues and ends *)
(* (ClickedCall, ServedCall, ResumedCall); the theorems follow from what   *)
(* the buttons let start.                                                  *)
(***************************************************************************)
EXTENDS KnowledgeCards, Workspace, FiniteSetTheorems, TLAPS

States == {"none", "absent", "proposed", "approved", "rejected", "superseded", "archived"}
Kinds == {"none", "help", "proposal", "document", "answer"}
SomeDoc == Docs \cup {NoDoc}
Dependency == [doc : Docs, rev : Nat]

DocRow == [state : States, rev : Nat, deps : SUBSET Dependency, base : SomeDoc, multi : BOOLEAN, text : Nat]
Card == [kind : Kinds, doc : SomeDoc, rev : Nat, state : States, links : SUBSET Docs, saveable : BOOLEAN,
         deps : SUBSET Dependency, text : Nat]
ReplyCard == {r \in Card : r.kind \in DocKinds => r.doc \in Docs}
Component == [card : Card, inFlight : BOOLEAN, pending : BOOLEAN, reviewSent : BOOLEAN, busy : BOOLEAN,
              canReview : BOOLEAN]
PlainActions == {"ask", "list", "synthesize", "index", "lint", "save"}
DocActions == {"show", "changes", "history", "related", "revise", "approve", "reject"}
Command == {c \in [action : PlainActions \cup DocActions, doc : SomeDoc, rev : Nat, deps : SUBSET Dependency,
                   text : Nat] :
              c.action \in DocActions => c.doc \in Docs}
Send == [id : Nat, waited : BOOLEAN, user : Users, command : Command, posted : BOOLEAN]
Received == {c \in [id : Nat, user : Users, command : Command, made : SomeDoc,
                    step : {"waiting", "taken", "made", "executed"}] :
               c.step = "made" => c.made \in Docs}
Decision == [id : Nat, doc : Docs, rev : Nat, was : States]

TypeOK ==
  /\ docs \in [Docs -> DocRow]
  /\ replies \subseteq ReplyCard
  /\ role \in [Users -> {"admin", "member", "gone"}]
  /\ mount \in [Users -> Component]
  /\ sends \subseteq Send
  /\ commands \subseteq Received
  /\ decisions \subseteq Decision
  /\ sent \in Nat

\* A document that does not exist yet has no revision.
AbsentIsNew == \A d \in Docs : docs[d].state = "absent" => docs[d].rev = 0

\* What is said of a revision of a document is so, or was so once, or was
\* announced.
Matches(table, said, d, number, state) ==
  /\ d \in Docs
  /\ number <= table[d].rev
  /\ number = table[d].rev =>
       table[d].state = state \/ (state = "proposed" /\ Announcement(d, number) \in said)

RepliesMatch == \A r \in replies : r.kind \in DocKinds => Matches(docs, replies, r.doc, r.rev, r.state)
MountsMatch ==
  \A u \in Users :
    LET card == mount[u].card IN card.doc # NoDoc => Matches(docs, replies, card.doc, card.rev, card.state)
SendsMatch ==
  \A s \in sends :
    s.command.action \in Reviews => Matches(docs, replies, s.command.doc, s.command.rev, "proposed")
CommandsMatch ==
  \A c \in commands :
    c.command.action \in Reviews => Matches(docs, replies, c.command.doc, c.command.rev, "proposed")

DecisionsPast == \A x \in decisions : x.rev < docs[x.doc].rev

IInv ==
  /\ TypeOK /\ AbsentIsNew
  /\ RepliesMatch /\ MountsMatch /\ SendsMatch /\ CommandsMatch
  /\ DecisionsPast /\ DecidedOnce

\* A step changes a document only together with its revision.
Moves == \A d \in Docs : docs'[d] = docs[d] \/ docs'[d].rev > docs[d].rev

\* What a step posts shows a document as it is after the step, or announces it.
Current(table, r) ==
  r.kind \in DocKinds =>
    r.rev = table[r.doc].rev /\ (r.state = table[r.doc].state \/ r = Announcement(r.doc, r.rev))

PostsCurrent == replies \subseteq replies' /\ \A r \in replies' \ replies : Current(docs', r)

\* The component of a send that is waited for is on the screen, and in flight.
SendsInFlight == \A s \in sends : s.waited => Mounted(s.user) /\ mount[s.user].inFlight

-----------------------------------------------------------------------------
(* Cards and their commands *)

\* A reply's card names a document exactly when it is a proposal or a document.
LEMMA ParsedType ==
  ASSUME NEW reply \in ReplyCard
  PROVE  /\ ParseKnowledgeCard(reply) \in Card
         /\ ParseKnowledgeCard(reply).state # "none" => ParseKnowledgeCard(reply).doc # NoDoc
         /\ ParseKnowledgeCard(reply).doc # NoDoc =>
              /\ reply.kind \in DocKinds
              /\ ParseKnowledgeCard(reply).doc = reply.doc
              /\ ParseKnowledgeCard(reply).rev = reply.rev
              /\ ParseKnowledgeCard(reply).state = reply.state
  BY NoDocAssumption DEF ParseKnowledgeCard, NoCard, ReplyCard, Card, Kinds, States, SomeDoc, DocKinds

\* A command has the type of a command, and a review names what its card shows.
LEMMA CommandFacts ==
  ASSUME NEW card \in Card, NEW press,
         KnowledgeCommand(card, press) # NoCommand
  PROVE  /\ KnowledgeCommand(card, press) \in Command
         /\ KnowledgeCommand(card, press).action \in Reviews =>
              /\ card.doc # NoDoc /\ card.state = "proposed"
              /\ KnowledgeCommand(card, press).doc = card.doc
              /\ KnowledgeCommand(card, press).rev = card.rev
<1>1. CASE press.action \in {"ask", "list", "synthesize", "index", "lint"}
  <2>1. KnowledgeCommand(card, press) =
          [action |-> press.action, doc |-> NoDoc, rev |-> 0, deps |-> {}, text |-> 0]
    BY <1>1 DEF KnowledgeCommand, Plain, NoCommand, Reviews
  <2> QED BY <1>1, <2>1 DEF Command, PlainActions, DocActions, Reviews, SomeDoc, Card
<1>2. CASE press.action = "open"
  <2>1. /\ press.link \in card.links
        /\ KnowledgeCommand(card, press) =
             [action |-> "show", doc |-> press.link, rev |-> 0, deps |-> {}, text |-> 0]
    BY <1>2 DEF KnowledgeCommand, About, NoCommand, Reviews
  <2> QED BY <1>2, <2>1 DEF Command, PlainActions, DocActions, Reviews, SomeDoc, Card
<1>3. CASE press.action = "save"
  <2>1. KnowledgeCommand(card, press) =
          [action |-> "save", doc |-> NoDoc, rev |-> 0, deps |-> card.deps, text |-> card.text]
    BY <1>3 DEF KnowledgeCommand, NoCommand, Reviews
  <2> QED BY <1>3, <2>1 DEF Command, PlainActions, DocActions, Reviews, SomeDoc, Card
<1>4. CASE press.action \in {"changes", "history", "related"}
  <2>1. /\ card.doc # NoDoc
        /\ KnowledgeCommand(card, press) =
             [action |-> press.action, doc |-> card.doc, rev |-> 0, deps |-> {}, text |-> 0]
    BY <1>4 DEF KnowledgeCommand, About, NoCommand, Reviews
  <2> QED BY <1>4, <2>1 DEF Command, PlainActions, DocActions, Reviews, SomeDoc, Card
<1>5. CASE press.action = "inspect"
  <2>1. /\ card.doc # NoDoc
        /\ KnowledgeCommand(card, press) =
             [action |-> "show", doc |-> card.doc, rev |-> 0, deps |-> {}, text |-> 0]
    BY <1>5 DEF KnowledgeCommand, About, NoCommand, Reviews
  <2> QED BY <1>5, <2>1 DEF Command, PlainActions, DocActions, Reviews, SomeDoc, Card
<1>6. CASE press.action = "revise"
  <2>1. /\ card.doc # NoDoc
        /\ KnowledgeCommand(card, press) =
             [action |-> "revise", doc |-> card.doc, rev |-> card.rev, deps |-> {}, text |-> 0]
    BY <1>6 DEF KnowledgeCommand, NoCommand, Reviews
  <2> QED BY <1>6, <2>1 DEF Command, PlainActions, DocActions, Reviews, SomeDoc, Card
<1>7. CASE press.action \in Reviews
  <2>1. /\ card.doc # NoDoc /\ card.state = "proposed"
        /\ KnowledgeCommand(card, press) =
             [action |-> press.action, doc |-> card.doc, rev |-> card.rev, deps |-> {}, text |-> 0]
    BY <1>7 DEF KnowledgeCommand, NoCommand, Reviews
  <2> QED BY <1>7, <2>1 DEF Command, PlainActions, DocActions, Reviews, SomeDoc, Card
<1> QED BY <1>1, <1>2, <1>3, <1>4, <1>5, <1>6, <1>7 DEF KnowledgeCommand

\* The text that is typed leaves what a command is about alone.
LEMMA TypedFacts ==
  ASSUME NEW command \in Command, NEW text \in Nat
  PROVE  /\ Typed(command, text) \in Command
         /\ Typed(command, text).action = command.action
         /\ Typed(command, text).doc = command.doc
         /\ Typed(command, text).rev = command.rev
<1>1. /\ [command EXCEPT !.text = text] \in Command
      /\ [command EXCEPT !.text = text].action = command.action
      /\ [command EXCEPT !.text = text].doc = command.doc
      /\ [command EXCEPT !.text = text].rev = command.rev
  BY DEF Command
<1> QED BY <1>1 DEF Typed

\* Every button that a card offers leads to a command: for each card of the
\* agent, what the view shows and what the model of the card allows agree.
THEOREM OfferedActionsWork ==
  ASSUME NEW reply \in ReplyCard,
         NEW canReview \in BOOLEAN,
         NEW press \in Offered(ParseKnowledgeCard(reply), canReview)
  PROVE  KnowledgeCommand(ParseKnowledgeCard(reply), press) # NoCommand
<1> DEFINE card == ParseKnowledgeCard(reply)
<1>1. card \in Card /\ (card.state # "none" => card.doc # NoDoc)
  BY ParsedType
<1> HIDE DEF card
<1>2. /\ press.action \notin {"none", "show"}
      /\ press.action = "open" => press.link \in card.links
      /\ press.action = "save" => card.saveable
      /\ press.action \in {"inspect", "changes", "related", "history"} => card.doc # NoDoc
      /\ press.action = "revise" => card.state = "approved"
      /\ press.action \in Reviews => card.state = "proposed"
      /\ press.action \in {"open", "save", "inspect", "changes", "related", "history", "revise", "approve",
                           "reject", "synthesize", "list", "index", "lint", "ask"}
  <2>1. press \in Offered(card, canReview)
    BY DEF card
  <2> QED BY <2>1 DEF Offered, Reviews
<1>3. KnowledgeCommand(card, press).action # "none"
  BY <1>1, <1>2 DEF KnowledgeCommand, Reviews, Plain, About, NoCommand
<1> QED BY <1>3 DEF NoCommand, card
-----------------------------------------------------------------------------
(* Type correctness *)

LEMMA DocumentCardFacts ==
  ASSUME NEW d \in Docs, docs \in [Docs -> DocRow]
  PROVE  /\ DocumentCard(d) \in ReplyCard
         /\ DocumentCard(d).kind = "document"
         /\ DocumentCard(d).doc = d
         /\ DocumentCard(d).rev = docs[d].rev
         /\ DocumentCard(d).state = docs[d].state
  BY DEF DocumentCard, ChatReply, ReplyCard, Card, Kinds, States, SomeDoc, DocKinds, DocRow

LEMMA AnnouncementFacts ==
  ASSUME NEW d \in Docs, NEW n \in Nat
  PROVE  /\ Announcement(d, n) \in ReplyCard
         /\ Announcement(d, n).kind = "proposal"
         /\ Announcement(d, n).doc = d
         /\ Announcement(d, n).rev = n
         /\ Announcement(d, n).state = "proposed"
  BY DEF Announcement, ChatReply, ReplyCard, Card, Kinds, States, SomeDoc, DocKinds

LEMMA ChatReplyFacts ==
  ASSUME NEW kind \in Kinds \ DocKinds
  PROVE  ChatReply(kind) \in ReplyCard /\ ChatReply(kind).kind = kind
  BY DEF ChatReply, ReplyCard, Card, Kinds, States, SomeDoc, DocKinds

\* A proposal is an ordinary row.
LEMMA ProposedType ==
  ASSUME NEW text \in Nat, NEW deps \in SUBSET Dependency
  PROVE  /\ Proposed(text, deps) \in DocRow
         /\ Proposed(text, deps).rev = 1
         /\ Proposed(text, deps).state = "proposed"
  BY DEF Proposed, NewDoc, DocRow, States, SomeDoc

\* The first document and its card.
Firsts == {[kind |-> "proposal", state |-> "proposed"], [kind |-> "document", state |-> "approved"]}

LEMMA FirstFacts ==
  ASSUME NEW d \in Docs, NEW first \in Firsts
  PROVE  /\ [ChatReply(first.kind) EXCEPT !.doc = d, !.rev = 1, !.state = first.state] \in ReplyCard
         /\ [ChatReply(first.kind) EXCEPT !.doc = d, !.rev = 1, !.state = first.state].doc = d
         /\ [ChatReply(first.kind) EXCEPT !.doc = d, !.rev = 1, !.state = first.state].rev = 1
         /\ [ChatReply(first.kind) EXCEPT !.doc = d, !.rev = 1, !.state = first.state].state = first.state
         /\ [NewDoc EXCEPT !.state = first.state, !.rev = 1] \in DocRow
         /\ [NewDoc EXCEPT !.state = first.state, !.rev = 1].state = first.state
         /\ [NewDoc EXCEPT !.state = first.state, !.rev = 1].rev = 1
<1>1. first.kind \in DocKinds /\ first.state \in {"proposed", "approved"}
  BY DEF Firsts, DocKinds
<1> QED BY <1>1 DEF ChatReply, ReplyCard, Card, Kinds, States, SomeDoc, DocKinds, NewDoc, DocRow

LEMMA InitPicks ==
  ASSUME Init
  PROVE  \E d \in Docs, first \in Firsts :
           /\ docs = [e \in Docs |-> IF e = d THEN [NewDoc EXCEPT !.state = first.state, !.rev = 1] ELSE NewDoc]
           /\ replies = {ChatReply("help"),
                         [ChatReply(first.kind) EXCEPT !.doc = d, !.rev = 1, !.state = first.state]}
  BY DEF Init, Firsts

LEMMA InitNew == Init => AbsentIsNew
<1> SUFFICES ASSUME Init, NEW e \in Docs, docs[e].state = "absent" PROVE docs[e].rev = 0
  BY DEF AbsentIsNew
<1>1. docs[e] = NewDoc \/ \E first \in Firsts : docs[e] = [NewDoc EXCEPT !.state = first.state, !.rev = 1]
  BY InitPicks
<1>2. NewDoc.rev = 0 /\ \A first \in Firsts : [NewDoc EXCEPT !.state = first.state, !.rev = 1].state # "absent"
  BY DEF NewDoc, Firsts
<1> QED BY <1>1, <1>2

LEMMA InitType == Init => TypeOK
<1> SUFFICES ASSUME Init PROVE TypeOK
  OBVIOUS
<1>1. PICK d \in Docs, first \in Firsts :
        /\ docs = [e \in Docs |-> IF e = d THEN [NewDoc EXCEPT !.state = first.state, !.rev = 1] ELSE NewDoc]
        /\ replies = {ChatReply("help"),
                      [ChatReply(first.kind) EXCEPT !.doc = d, !.rev = 1, !.state = first.state]}
  BY InitPicks
<1>2. docs \in [Docs -> DocRow]
  <2>1. NewDoc \in DocRow
    BY DEF NewDoc, DocRow, States, SomeDoc
  <2>2. [NewDoc EXCEPT !.state = first.state, !.rev = 1] \in DocRow
    BY FirstFacts
  <2> QED BY <1>1, <2>1, <2>2
<1>3. replies \subseteq ReplyCard
  <2>1. ChatReply("help") \in ReplyCard
    BY ChatReplyFacts DEF Kinds, DocKinds
  <2>2. [ChatReply(first.kind) EXCEPT !.doc = d, !.rev = 1, !.state = first.state] \in ReplyCard
    BY FirstFacts
  <2> QED BY <1>1, <2>1, <2>2
<1>4. mount \in [Users -> Component]
  <2>1. Unmounted \in Component
    BY DEF Unmounted, Component, NoCard, Card, Kinds, States, SomeDoc
  <2> QED BY <2>1 DEF Init
<1> QED BY <1>2, <1>3, <1>4 DEF Init, TypeOK

\* A pressed button sends a command, and a review names what its card shows.
LEMMA ActSends ==
  ASSUME NEW u \in Users, mount[u].card \in Card, sent \in Nat, Act(u)
  PROVE  \E command \in Command :
           /\ sends' = sends \cup {[id |-> sent + 1, waited |-> TRUE, user |-> u,
                                     command |-> command, posted |-> FALSE]}
           /\ command.action \in Reviews =>
                /\ mount[u].card.doc # NoDoc /\ mount[u].card.state = "proposed"
                /\ command.doc = mount[u].card.doc /\ command.rev = mount[u].card.rev
<1>1. PICK press \in Offered(mount[u].card, mount[u].canReview), text \in 0..(sent + 1) :
        /\ Typed(KnowledgeCommand(mount[u].card, press), text) # NoCommand
        /\ sends' = sends \cup {[id |-> sent + 1, waited |-> TRUE, user |-> u,
                                  command |-> Typed(KnowledgeCommand(mount[u].card, press), text),
                                  posted |-> FALSE]}
  BY DEF Act
<1> DEFINE plain == KnowledgeCommand(mount[u].card, press)
<1>2. plain # NoCommand
  BY <1>1 DEF Typed, NoCommand
<1>3. plain \in Command /\ (plain.action \in Reviews =>
                              /\ mount[u].card.doc # NoDoc /\ mount[u].card.state = "proposed"
                              /\ plain.doc = mount[u].card.doc /\ plain.rev = mount[u].card.rev)
  BY <1>2, CommandFacts
<1> HIDE DEF plain
<1>4. text \in Nat
  OBVIOUS
<1>5. /\ Typed(plain, text) \in Command /\ Typed(plain, text).action = plain.action
      /\ Typed(plain, text).doc = plain.doc /\ Typed(plain, text).rev = plain.rev
  BY <1>3, <1>4, TypedFacts
<1>6. sends' = sends \cup {[id |-> sent + 1, waited |-> TRUE, user |-> u,
                             command |-> Typed(plain, text), posted |-> FALSE]}
  BY <1>1 DEF plain
<1> QED BY <1>3, <1>5, <1>6

\* What the component does, and the network.
LEMMA ComponentType ==
  ASSUME TypeOK, NEW u \in Users, ComponentStep(u)
  PROVE  TypeOK'
<1> USE DEF TypeOK, AgentUnchanged
<1>0. Unmounted \in Component /\ mount[u] \in Component
  BY DEF Unmounted, Component, NoCard, Card, Kinds, States, SomeDoc
<1>1. CASE Mount(u)
  <2>1. PICK reply \in replies :
          mount' = [mount EXCEPT ![u] = Rendered(u, [Unmounted EXCEPT !.card = ParseKnowledgeCard(reply)])]
    BY <1>1 DEF Mount
  <2>2. ParseKnowledgeCard(reply) \in Card
    BY ParsedType
  <2>3. Rendered(u, [Unmounted EXCEPT !.card = ParseKnowledgeCard(reply)]) \in Component
    BY <2>2 DEF Rendered, Unmounted, Component
  <2> QED BY <1>1, <2>1, <2>3 DEF Mount
<1>2. CASE Unmount(u)
  <2>0. \A s \in sends : [s EXCEPT !.waited = FALSE] \in Send
    BY DEF Send
  <2>1. sends' \subseteq Send
    BY <1>2, <2>0 DEF Unmount
  <2> QED BY <1>0, <1>2, <2>1 DEF Unmount
<1>3. CASE Render(u)
  <2>0. Rendered(u, mount[u]) \in Component /\ mount[u].canReview \in BOOLEAN
    BY <1>0 DEF Rendered, Component
  <2>1. \A c \in {Rendered(u, mount[u]), [Rendered(u, mount[u]) EXCEPT !.canReview = mount[u].canReview]} :
          c \in Component
    BY <2>0 DEF Component
  <2> QED BY <1>3, <2>1 DEF Render
<1>4. CASE Act(u)
  <2>1. PICK command :
          /\ sends' = sends \cup {[id |-> sent + 1, waited |-> TRUE, user |-> u,
                                    command |-> command, posted |-> FALSE]}
          /\ command \in Command
    BY <1>0, <1>4, ActSends DEF Component
  <2>3. sends' \subseteq Send
    <3>1. [id |-> sent + 1, waited |-> TRUE, user |-> u, command |-> command, posted |-> FALSE] \in Send
      BY <2>1 DEF Send
    <3> QED BY <2>1, <3>1
  <2>4. mount' \in [Users -> Component]
    BY <1>4, <1>0 DEF Act, Component
  <2> QED BY <1>4, <2>3, <2>4 DEF Act
<1>5. CASE SettlePending(u)
  BY <1>5, <1>0 DEF SettlePending, Component
<1> QED BY <1>1, <1>2, <1>3, <1>4, <1>5 DEF ComponentStep

LEMMA SendType ==
  ASSUME TypeOK, NEW s \in sends, SendStep(s)
  PROVE  TypeOK'
<1> USE DEF TypeOK, AgentUnchanged
<1>0. s \in Send /\ s.user \in Users /\ mount[s.user] \in Component
  BY DEF Send
<1>1. CASE Post(s)
  <2>1. [s EXCEPT !.posted = TRUE] \in Send
    BY <1>0 DEF Send
  <2>2. [id |-> s.id, user |-> s.user, command |-> s.command, step |-> "waiting", made |-> NoDoc] \in Received
    BY <1>0 DEF Send, Received, SomeDoc
  <2> QED BY <1>1, <2>1, <2>2 DEF Post
<1>2. CASE SendSucceeds(s)
  BY <1>0, <1>2 DEF SendSucceeds, Component
<1>3. CASE SendFails(s)
  <2>1. [s EXCEPT !.waited = FALSE] \in Send
    BY <1>0 DEF Send
  <2>2. mount' \in [Users -> Component]
    BY <1>0, <1>3 DEF SendFails, Component
  <2>3. sends' \subseteq Send
    BY <1>3, <2>1 DEF SendFails
  <2> QED BY <1>3, <2>2, <2>3 DEF SendFails
<1> QED BY <1>1, <1>2, <1>3 DEF SendStep

-----------------------------------------------------------------------------
(* What the agent does to documents and replies *)

\* Documents and replies keep their type, documents move and cards are current.
Sound == docs' \in [Docs -> DocRow] /\ replies' \subseteq ReplyCard /\ AbsentIsNew' /\ Moves /\ PostsCurrent

LEMMA ProposeSound ==
  ASSUME TypeOK, AbsentIsNew, NEW c \in commands, NEW row \in DocRow, row.rev = 1, row.state = "proposed",
         Propose(c, row)
  PROVE  Sound
<1> USE DEF TypeOK
<1>1. PICK d \in Docs :
        \/ docs' = docs
        \/ docs[d].state # "absent" /\ docs' = [docs EXCEPT ![d].rev = @ + 1]
        \/ docs[d].state = "absent" /\ docs' = [docs EXCEPT ![d] = row]
  BY DEF Propose, With
<1>2. replies' = replies
  BY DEF Propose
<1>3. CASE docs' = docs
  BY <1>2, <1>3 DEF Sound, Moves, AbsentIsNew, PostsCurrent
<1>4. CASE docs[d].state # "absent" /\ docs' = [docs EXCEPT ![d].rev = @ + 1]
  <2> DEFINE touched == [docs[d] EXCEPT !.rev = @ + 1]
  <2>1. docs[d] \in DocRow /\ docs[d].rev \in Nat
    BY DEF DocRow
  <2>2. touched \in DocRow /\ touched.rev > docs[d].rev /\ touched.state = docs[d].state
    BY <2>1 DEF DocRow
  <2>3. docs' = [docs EXCEPT ![d] = touched]
    BY <1>4
  <2> HIDE DEF touched
  <2>4. docs' \in [Docs -> DocRow] /\ Moves /\ AbsentIsNew'
    BY <1>4, <2>2, <2>3 DEF Moves, AbsentIsNew
  <2> QED BY <1>2, <2>4 DEF Sound, PostsCurrent
<1>5. CASE docs[d].state = "absent" /\ docs' = [docs EXCEPT ![d] = row]
  <2>1. docs' \in [Docs -> DocRow] /\ Moves /\ AbsentIsNew'
    BY <1>5 DEF Moves, AbsentIsNew
  <2> QED BY <1>2, <2>1 DEF Sound, PostsCurrent
<1> QED BY <1>1, <1>3, <1>4, <1>5

LEMMA AnnounceSound ==
  ASSUME TypeOK, AbsentIsNew, NEW c \in commands, Announce(c)
  PROVE  Sound
<1> USE DEF TypeOK
<1>1. c.made \in Docs
  BY DEF Announce, Received
<1>2. docs' = docs /\ replies' = replies \cup {Announcement(c.made, docs[c.made].rev)}
  BY DEF Announce, Says, ProposalCard
<1> DEFINE number == docs[c.made].rev
           r == Announcement(c.made, number)
<1>3. number \in Nat
  BY <1>1 DEF DocRow
<1>4. r \in ReplyCard /\ r.doc = c.made /\ r.rev = number
  BY <1>1, <1>3, AnnouncementFacts
<1>5. r = Announcement(r.doc, r.rev) /\ r.rev = docs'[r.doc].rev
  <2>1. docs'[r.doc].rev = number
    BY <1>2, <1>4
  <2> HIDE DEF number
  <2> QED BY <1>4, <2>1
<1>6. replies' = replies \cup {r}
  BY <1>2
<1> HIDE DEF r, number
<1> QED BY <1>2, <1>4, <1>5, <1>6 DEF Sound, PostsCurrent, Current, Moves, AbsentIsNew

LEMMA LookSound ==
  ASSUME TypeOK, AbsentIsNew, NEW c \in commands, Look(c)
  PROVE  Sound
<1> USE DEF TypeOK
<1> DEFINE d == c.command.doc
<1>0. c \in Received /\ docs' = docs
  BY DEF Look
<1>1. docs' \in [Docs -> DocRow] /\ AbsentIsNew' /\ Moves
  BY <1>0 DEF AbsentIsNew, Moves
<1>2. CASE c.command.action \in {"show", "changes"}
  <2>1. d \in Docs
    BY <1>0, <1>2 DEF Received, Command, DocActions
  <2>2. ChatReply("answer") \in ReplyCard /\ ChatReply("answer").kind = "answer"
    BY ChatReplyFacts DEF Kinds, DocKinds
  <2>3. /\ DocumentCard(d) \in ReplyCard /\ DocumentCard(d).kind = "document"
        /\ DocumentCard(d).doc = d /\ DocumentCard(d).rev = docs'[d].rev
        /\ DocumentCard(d).state = docs'[d].state
    BY <1>0, <2>1, DocumentCardFacts
  <2>0. CASE replies' = replies
    BY <1>1, <2>0 DEF Sound, PostsCurrent
  <2> SUFFICES ASSUME replies' # replies PROVE Sound
    BY <2>0
  <2>4. PICK r :
          /\ replies' = replies \cup {r}
          /\ \/ r = ChatReply("answer")
             \/ r = DocumentCard(d)
             \/ docs[d].base # NoDoc /\ r = [DocumentCard(d) EXCEPT !.links = {docs[d].base}]
    BY <1>2 DEF Look, Says, AsText
  <2>5. docs[d].base # NoDoc => docs[d].base \in Docs
    BY <2>1 DEF DocRow, SomeDoc
  <2>6. r \in ReplyCard /\ (r.kind \in DocKinds => r.rev = docs'[r.doc].rev /\ r.state = docs'[r.doc].state)
    <3> HIDE DEF d
    <3>1. CASE r = ChatReply("answer")
      BY <2>2, <3>1 DEF DocKinds
    <3>2. CASE r = DocumentCard(d)
      BY <2>3, <3>2
    <3>3. CASE docs[d].base # NoDoc /\ r = [DocumentCard(d) EXCEPT !.links = {docs[d].base}]
      BY <2>3, <2>5, <3>3 DEF ReplyCard, Card
    <3> QED BY <2>4, <3>1, <3>2, <3>3
  <2> QED BY <1>1, <2>4, <2>6 DEF Sound, PostsCurrent, Current
<1>3. CASE c.command.action \in {"history", "related", "index", "lint"}
  <2>1. PICK links \in SUBSET Catalog : replies' = replies \cup {[ChatReply("answer") EXCEPT !.links = links]}
    BY <1>3 DEF Look, Says
  <2>2. /\ [ChatReply("answer") EXCEPT !.links = links] \in ReplyCard
        /\ [ChatReply("answer") EXCEPT !.links = links].kind \notin DocKinds
    BY DEF ChatReply, ReplyCard, Card, Kinds, States, SomeDoc, DocKinds, Catalog
  <2> QED BY <1>1, <2>1, <2>2 DEF Sound, PostsCurrent, Current
<1>4. CASE c.command.action = "list"
  BY <1>1, <1>4 DEF Look, Says, AsText, Sound, PostsCurrent
<1> QED BY <1>2, <1>3, <1>4 DEF Look

LEMMA AskSound ==
  ASSUME TypeOK, AbsentIsNew, NEW c \in commands, Ask(c)
  PROVE  Sound
<1> USE DEF TypeOK
<1> DEFINE AnswerCard(cited, text) ==
             [ChatReply("answer") EXCEPT !.saveable = cited # {}, !.text = text,
                !.deps = {[doc |-> d, rev |-> docs[d].rev] : d \in cited}]
<1>0. c.id \in Nat
  BY DEF Received
<1>1. PICK cited \in SUBSET Docs, text \in 1..c.id : replies' = replies \cup {AnswerCard(cited, text)}
  BY DEF Ask, Says
<1>2. {[doc |-> d, rev |-> docs[d].rev] : d \in cited} \in SUBSET Dependency
  BY DEF Dependency, DocRow
<1>3. AnswerCard(cited, text) \in ReplyCard /\ AnswerCard(cited, text).kind \notin DocKinds
  <2> DEFINE pages == {[doc |-> d, rev |-> docs[d].rev] : d \in cited}
             asked == [ChatReply("answer") EXCEPT !.saveable = cited # {}, !.text = text, !.deps = pages]
  <2>1. text \in Nat /\ pages \in SUBSET Dependency /\ (cited # {}) \in BOOLEAN
    BY <1>0, <1>2
  <2> HIDE DEF pages
  <2>2. ChatReply("answer") \in ReplyCard /\ ChatReply("answer").kind = "answer"
    BY ChatReplyFacts DEF Kinds, DocKinds
  <2>3. asked \in ReplyCard /\ asked.kind = "answer"
    BY <2>1, <2>2 DEF ReplyCard, Card, DocKinds
  <2> QED BY <2>3 DEF pages, DocKinds
<1>4. docs' = docs
  BY DEF Ask
<1> HIDE DEF AnswerCard
<1> QED BY <1>1, <1>3, <1>4 DEF Sound, PostsCurrent, Current, Moves, AbsentIsNew

LEMMA SynthesizeSound ==
  ASSUME TypeOK, AbsentIsNew, NEW c \in commands, Synthesize(c)
  PROVE  Sound
<1>1. PICK multi \in BOOLEAN : Propose(c, [Proposed(c.id, {}) EXCEPT !.multi = multi])
  BY DEF Synthesize
<1>2. /\ [Proposed(c.id, {}) EXCEPT !.multi = multi] \in DocRow
      /\ [Proposed(c.id, {}) EXCEPT !.multi = multi].rev = 1
      /\ [Proposed(c.id, {}) EXCEPT !.multi = multi].state = "proposed"
  <2>1. c.id \in Nat
    BY DEF TypeOK, Received
  <2>2. /\ Proposed(c.id, {}) \in DocRow
        /\ Proposed(c.id, {}).rev = 1
        /\ Proposed(c.id, {}).state = "proposed"
    BY <2>1, ProposedType
  <2> QED BY <2>2 DEF DocRow
<1> QED BY <1>1, <1>2, ProposeSound

LEMMA SaveSound ==
  ASSUME TypeOK, AbsentIsNew, NEW c \in commands, Save(c)
  PROVE  Sound
<1>1. c.command.text \in Nat /\ c.command.deps \in SUBSET Dependency
  BY DEF TypeOK, Received, Command
<1>2. /\ Proposed(c.command.text, c.command.deps) \in DocRow
      /\ Proposed(c.command.text, c.command.deps).rev = 1
      /\ Proposed(c.command.text, c.command.deps).state = "proposed"
  BY <1>1, ProposedType
<1>3. Propose(c, Proposed(c.command.text, c.command.deps))
  BY DEF Save
<1> QED BY <1>2, <1>3, ProposeSound

LEMMA ReviseSound ==
  ASSUME TypeOK, AbsentIsNew, NEW c \in commands, Revise(c)
  PROVE  Sound
<1> DEFINE base == [doc |-> c.command.doc, rev |-> c.command.rev]
           deps == docs[base.doc].deps \cup {base}
           row == [Proposed(c.command.text, deps) EXCEPT !.base = base.doc]
<1>1. Propose(c, row) /\ c.command.action = "revise"
  BY DEF Revise
<1>2. c.command.text \in Nat /\ c.command.doc \in Docs /\ base \in Dependency
  BY <1>1 DEF TypeOK, Received, Command, DocActions, Dependency
<1>3. deps \in SUBSET Dependency
  BY <1>2 DEF TypeOK, DocRow
<1>4. /\ Proposed(c.command.text, deps) \in DocRow
      /\ Proposed(c.command.text, deps).rev = 1
      /\ Proposed(c.command.text, deps).state = "proposed"
  BY <1>2, <1>3, ProposedType
<1>5. row \in DocRow /\ row.rev = 1 /\ row.state = "proposed"
  BY <1>2, <1>4 DEF DocRow, SomeDoc
<1> QED BY <1>1, <1>5, ProposeSound

\* A review moves a row on.
LEMMA SetFacts ==
  ASSUME NEW row \in DocRow, NEW state \in States
  PROVE  /\ [row EXCEPT !.state = state, !.rev = row.rev + 1] \in DocRow
         /\ [row EXCEPT !.state = state, !.rev = row.rev + 1].rev > row.rev
         /\ [row EXCEPT !.state = state, !.rev = row.rev + 1].state = state
<1>1. row.rev \in Nat /\ row.rev + 1 \in Nat /\ row.rev + 1 > row.rev
  BY DEF DocRow
<1>2. /\ [row EXCEPT !.state = state, !.rev = row.rev + 1].rev = row.rev + 1
      /\ [row EXCEPT !.state = state, !.rev = row.rev + 1].state = state
  BY DEF DocRow
<1>3. [row EXCEPT !.state = state, !.rev = row.rev + 1] \in DocRow
  BY <1>1 DEF DocRow
<1> QED BY <1>1, <1>2, <1>3

LEMMA ReviewSound ==
  ASSUME TypeOK, AbsentIsNew, NEW c \in commands, Review(c)
  PROVE  Sound
<1> USE DEF TypeOK
<1> DEFINE d == c.command.doc
           approves == c.command.action = "approve"
           Set(e, state) == [docs[e] EXCEPT !.state = state, !.rev = @ + 1]
<1>0. replies' = replies
  BY DEF Review
<1>1. CASE docs' = docs
  BY <1>0, <1>1 DEF Sound, Moves, AbsentIsNew, PostsCurrent
<1>2. CASE docs' = [e \in Docs |->
             CASE e = d -> Set(d, IF approves THEN "approved" ELSE "rejected")
               [] e # d /\ approves /\ e = docs[d].base -> Set(e, "superseded")
               [] OTHER -> docs[e]]
  <2>1. \A e \in Docs, state \in {"approved", "rejected", "superseded"} :
          /\ Set(e, state) \in DocRow
          /\ Set(e, state).rev > docs[e].rev
          /\ Set(e, state).state = state
    <3> TAKE e \in Docs, state \in {"approved", "rejected", "superseded"}
    <3>1. docs[e] \in DocRow /\ state \in States
      BY DEF States
    <3>2. Set(e, state) = [docs[e] EXCEPT !.state = state, !.rev = docs[e].rev + 1]
      OBVIOUS
    <3>3. /\ [docs[e] EXCEPT !.state = state, !.rev = docs[e].rev + 1] \in DocRow
          /\ [docs[e] EXCEPT !.state = state, !.rev = docs[e].rev + 1].rev > docs[e].rev
          /\ [docs[e] EXCEPT !.state = state, !.rev = docs[e].rev + 1].state = state
      BY <3>1, SetFacts
    <3> HIDE DEF Set
    <3> QED BY <3>2, <3>3
  <2>2. \A e \in Docs : \/ docs'[e] = docs[e]
                         \/ \E state \in {"approved", "rejected", "superseded"} : docs'[e] = Set(e, state)
    BY <1>2
  <2> HIDE DEF Set
  <2>3. docs' \in [Docs -> DocRow]
    <3>1. \A e \in Docs : docs'[e] \in DocRow
      BY <2>1, <2>2
    <3>2. docs' = [e \in Docs |-> docs'[e]]
      BY <1>2
    <3> QED BY <3>1, <3>2
  <2>4. Moves /\ AbsentIsNew'
    <3>1. Moves
      BY <2>1, <2>2 DEF Moves
    <3>2. ASSUME NEW e \in Docs, docs'[e].state = "absent" PROVE docs'[e].rev = 0
      <4>1. docs'[e] = docs[e]
        BY <2>1, <2>2, <3>2
      <4> QED BY <3>2, <4>1 DEF AbsentIsNew
    <3> QED BY <3>1, <3>2 DEF AbsentIsNew
  <2> QED BY <1>0, <2>3, <2>4 DEF Sound, PostsCurrent
<1> QED BY <1>1, <1>2 DEF Review

LEMMA ReviewElsewhereSound ==
  ASSUME TypeOK, AbsentIsNew, NEW d \in Docs, ReviewElsewhere(d)
  PROVE  Sound
<1> USE DEF TypeOK
<1>1. PICK state \in {"proposed", "approved", "archived"} :
        docs' = [docs EXCEPT ![d].state = state, ![d].rev = @ + 1]
  BY DEF ReviewElsewhere
<1>2. docs' = [docs EXCEPT ![d] = [docs[d] EXCEPT !.state = state, !.rev = docs[d].rev + 1]]
  BY <1>1
<1>3. /\ [docs[d] EXCEPT !.state = state, !.rev = docs[d].rev + 1] \in DocRow
      /\ [docs[d] EXCEPT !.state = state, !.rev = docs[d].rev + 1].rev > docs[d].rev
      /\ [docs[d] EXCEPT !.state = state, !.rev = docs[d].rev + 1].state # "absent"
  BY SetFacts DEF States
<1>4. docs' \in [Docs -> DocRow] /\ Moves /\ AbsentIsNew'
  BY <1>2, <1>3 DEF Moves, AbsentIsNew
<1> QED BY <1>4 DEF Sound, PostsCurrent, ReviewElsewhere, ClientUnchanged

\* Every step of the system is sound in this sense.
LEMMA NextSound ==
  ASSUME TypeOK, AbsentIsNew, [Next]_vars
  PROVE  Sound
<1> DEFINE Still == docs' = docs /\ replies' = replies
<1>0. ASSUME Still PROVE Sound
  BY <1>0 DEF Sound, TypeOK, Moves, AbsentIsNew, PostsCurrent
<1>1. CASE \E u \in Users : ComponentStep(u)
  BY <1>0, <1>1 DEF ComponentStep, Mount, Unmount, Render, Act, SettlePending, AgentUnchanged
<1>2. CASE \E s \in sends : SendStep(s)
  BY <1>0, <1>2 DEF SendStep, Post, SendSucceeds, SendFails, AgentUnchanged
<1>3. ASSUME NEW c \in commands, AgentStep(c) PROVE Sound
  <2>1. CASE Take(c) \/ Refuse(c) \/ Crash(c) \/ Reply(c)
    BY <1>0, <2>1 DEF Take, Refuse, Crash, Reply
  <2> QED BY <1>3, <2>1, LookSound, AskSound, SynthesizeSound, SaveSound, ReviseSound, AnnounceSound,
             ReviewSound DEF AgentStep
<1>4. CASE \E d \in Docs : ReviewElsewhere(d)
  BY <1>4, ReviewElsewhereSound
<1>5. CASE \E u \in Users : ChangeRole(u)
  BY <1>0, <1>5 DEF ChangeRole
<1>6. CASE UNCHANGED vars
  BY <1>0, <1>6 DEF vars
<1> QED BY <1>1, <1>2, <1>3, <1>4, <1>5, <1>6 DEF Next

\* The agent moves commands on and decides; it does not make either up.
LEMMA AgentCommands ==
  ASSUME TypeOK, NEW c \in commands, AgentStep(c)
  PROVE  \/ commands' = commands \ {c}
         \/ \E x \in Received : x.command = c.command /\ commands' = (commands \ {c}) \cup {x}
<1>0. c \in Received
  BY DEF TypeOK
<1>1. CASE commands' = commands \ {c}
  BY <1>1
<1>2. ASSUME NEW step \in {"waiting", "taken", "executed"}, Becomes(c, step)
      PROVE  \E x \in Received : x.command = c.command /\ commands' = (commands \ {c}) \cup {x}
  <2>1. [c EXCEPT !.step = step, !.made = NoDoc] \in Received
    BY <1>0 DEF Received, SomeDoc
  <2>2. [c EXCEPT !.step = step, !.made = NoDoc].command = c.command
    BY <1>0 DEF Received
  <2> QED BY <1>2, <2>1, <2>2 DEF Becomes
<1>3. ASSUME NEW d \in Docs, Makes(c, d)
      PROVE  \E x \in Received : x.command = c.command /\ commands' = (commands \ {c}) \cup {x}
  <2>1. [c EXCEPT !.step = "made", !.made = d] \in Received
    BY <1>0 DEF Received, SomeDoc
  <2>2. [c EXCEPT !.step = "made", !.made = d].command = c.command
    BY <1>0 DEF Received
  <2> QED BY <1>3, <2>1, <2>2 DEF Makes
<1>4. CASE Take(c) \/ Refuse(c) \/ Crash(c) \/ Review(c) \/ Reply(c)
  BY <1>1, <1>2, <1>4 DEF Take, Refuse, Crash, Review, Reply, Ends
<1>5. CASE Look(c) \/ Ask(c) \/ Announce(c)
  BY <1>1, <1>5 DEF Look, Ask, Announce, Ends
<1>6. CASE Synthesize(c) \/ Save(c) \/ Revise(c)
  BY <1>3, <1>6 DEF Synthesize, Save, Revise, Propose
<1> QED BY <1>4, <1>5, <1>6 DEF AgentStep

LEMMA AgentDecisions ==
  ASSUME TypeOK, NEW c \in commands, AgentStep(c)
  PROVE  \/ decisions' = decisions
         \/ /\ Review(c)
            /\ decisions' = decisions \cup {[id |-> c.id, doc |-> c.command.doc, rev |-> docs[c.command.doc].rev,
                                            was |-> docs[c.command.doc].state]}
  BY DEF AgentStep, Take, Refuse, Crash, Look, Ask, Synthesize, Save, Revise, Propose, Announce, Review, Reply

LEMMA AgentType ==
  ASSUME TypeOK, AbsentIsNew, NEW c \in commands, AgentStep(c)
  PROVE  TypeOK'
<1>1. docs' \in [Docs -> DocRow] /\ replies' \subseteq ReplyCard
  BY NextSound DEF Next, Sound
<1>2. UNCHANGED <<role, mount, sends, sent>>
  BY DEF AgentStep, Take, Refuse, Crash, Look, Ask, Synthesize, Save, Revise, Propose, Announce, Review, Reply,
         ClientUnchanged
<1>3. commands' \subseteq Received
  BY AgentCommands DEF TypeOK
<1>4. decisions' \subseteq Decision
  <2>1. CASE decisions' = decisions
    BY <2>1 DEF TypeOK
  <2>2. CASE Review(c)
    <3>1. c \in Received /\ c.command.doc \in Docs
      BY <2>2 DEF TypeOK, Review, Received, Command, DocActions, Reviews
    <3>2. docs[c.command.doc] \in DocRow
      BY <3>1 DEF TypeOK
    <3>3. [id |-> c.id, doc |-> c.command.doc, rev |-> docs[c.command.doc].rev,
           was |-> docs[c.command.doc].state] \in Decision
      BY <3>1, <3>2 DEF Decision, Received, DocRow
    <3> QED BY <3>3, AgentDecisions DEF TypeOK
  <2> QED BY <2>1, <2>2, AgentDecisions
<1> QED BY <1>1, <1>2, <1>3, <1>4 DEF TypeOK

LEMMA NextType ==
  ASSUME TypeOK, AbsentIsNew, [Next]_vars
  PROVE  TypeOK' /\ AbsentIsNew'
<1>1. AbsentIsNew'
  BY NextSound DEF Sound
<1> SUFFICES TypeOK'
  BY <1>1
<1>2. CASE \E u \in Users : ComponentStep(u)
  BY <1>2, ComponentType
<1>3. CASE \E s \in sends : SendStep(s)
  BY <1>3, SendType
<1>4. CASE \E c \in commands : AgentStep(c)
  BY <1>4, AgentType
<1>5. CASE \E d \in Docs : ReviewElsewhere(d)
  <2>1. docs' \in [Docs -> DocRow]
    BY NextSound DEF Sound
  <2> QED BY <1>5, <2>1 DEF ReviewElsewhere, ClientUnchanged, TypeOK
<1>6. CASE \E u \in Users : ChangeRole(u)
  BY <1>6 DEF ChangeRole, TypeOK
<1>7. CASE UNCHANGED vars
  BY <1>7 DEF vars, TypeOK
<1> QED BY <1>2, <1>3, <1>4, <1>5, <1>6, <1>7 DEF Next

\* Whatever is rendered, sent, executed and posted, cards, commands and
\* documents keep the form that the component and the agent read them in: a
\* command about a document names one.
THEOREM TypeCorrect == Spec => []TypeOK
<1>1. Init => TypeOK /\ AbsentIsNew
  BY InitType, InitNew
<1>2. (TypeOK /\ AbsentIsNew) /\ [Next]_vars => (TypeOK /\ AbsentIsNew)'
  BY NextType
<1> QED BY <1>1, <1>2, PTL DEF Spec

-----------------------------------------------------------------------------
(* One send at a time *)

\* A mounted card waits for one send: it starts another only when it is not in
\* flight, and it is in flight for as long as it waits.
THEOREM OneSendHolds == Spec => []OneSend
<1> DEFINE Inv == TypeOK /\ AbsentIsNew /\ SendsInFlight /\ OneSend
<1>1. Init => Inv
  BY InitType, InitNew DEF Init, SendsInFlight, OneSend
<1>2. ASSUME Inv, [Next]_vars PROVE Inv'
  <2>0. TypeOK' /\ AbsentIsNew'
    BY <1>2, NextType
  <2> SUFFICES SendsInFlight' /\ OneSend'
    BY <2>0
  <2>1. CASE UNCHANGED <<mount, sends>>
    BY <1>2, <2>1 DEF SendsInFlight, OneSend, Mounted
  <2>2. ASSUME NEW u \in Users, ComponentStep(u) PROVE SendsInFlight' /\ OneSend'
    <3>0. mount \in [Users -> Component] /\ mount[u] \in Component /\ \A s \in sends : s.user \in Users
      BY <1>2 DEF TypeOK, Send
    <3>1. CASE Mount(u)
      <4>1. PICK c : sends' = sends /\ ~Mounted(u) /\ mount' = [mount EXCEPT ![u] = c]
        BY <3>1 DEF Mount
      <4>2. \A s \in sends : s.waited => s.user # u
        BY <1>2, <4>1 DEF SendsInFlight
      <4> QED BY <1>2, <3>0, <4>1, <4>2 DEF SendsInFlight, OneSend, Mounted
    <3>2. CASE Unmount(u)
      <4>1. \A s \in sends' : s.waited => s \in sends /\ s.user # u
        BY <3>0, <3>2, <1>2 DEF Unmount, TypeOK, Send
      <4>2. \A v \in Users : v # u => mount'[v] = mount[v]
        BY <3>0, <3>2 DEF Unmount
      <4> QED BY <1>2, <3>0, <4>1, <4>2 DEF SendsInFlight, OneSend, Mounted
    <3>3. CASE Render(u)
      <4>1. PICK c \in {Rendered(u, mount[u]), [Rendered(u, mount[u]) EXCEPT !.canReview = mount[u].canReview]} :
              sends' = sends /\ mount' = [mount EXCEPT ![u] = c]
        BY <3>3 DEF Render
      <4>2. c.card = mount[u].card /\ c.inFlight = mount[u].inFlight
        BY <3>0, <4>1 DEF Rendered, Component
      <4> QED BY <1>2, <3>0, <4>1, <4>2 DEF SendsInFlight, OneSend, Mounted
    <3>4. CASE Act(u)
      <4>0. PICK command : sends' = sends \cup {[id |-> sent + 1, waited |-> TRUE, user |-> u,
                                                  command |-> command, posted |-> FALSE]}
        BY <3>4 DEF Act
      <4> DEFINE new == [id |-> sent + 1, waited |-> TRUE, user |-> u, command |-> command, posted |-> FALSE]
      <4>1. sends' = sends \cup {new} /\ new.user = u
        BY <4>0
      <4> HIDE DEF new
      <4>2. \A t \in sends : t.waited => t.user # u
        BY <1>2, <3>4 DEF Act, Free, SendsInFlight
      <4>3. /\ Mounted(u) /\ mount'[u].card = mount[u].card /\ mount'[u].inFlight
            /\ \A v \in Users : v # u => mount'[v] = mount[v]
        BY <3>0, <3>4 DEF Act, Component
      <4> QED BY <1>2, <3>0, <4>1, <4>2, <4>3 DEF SendsInFlight, OneSend, Mounted
    <3>5. CASE SettlePending(u)
      <4>1. sends' = sends /\ mount' = [mount EXCEPT ![u].pending = FALSE]
        BY <3>5 DEF SettlePending
      <4>2. mount'[u].card = mount[u].card /\ mount'[u].inFlight = mount[u].inFlight
        BY <3>0, <4>1 DEF Component
      <4> QED BY <1>2, <3>0, <4>1, <4>2 DEF SendsInFlight, OneSend, Mounted
    <3> QED BY <2>2, <3>1, <3>2, <3>3, <3>4, <3>5 DEF ComponentStep
  <2>3. ASSUME NEW s \in sends, SendStep(s) PROVE SendsInFlight' /\ OneSend'
    <3>0. /\ mount \in [Users -> Component] /\ s \in Send /\ s.user \in Users /\ mount[s.user] \in Component
          /\ \A t \in sends : t.user \in Users
      BY <1>2 DEF TypeOK, Send
    <3>1. CASE Post(s)
      <4>1. [s EXCEPT !.posted = TRUE].user = s.user /\ [s EXCEPT !.posted = TRUE].waited = s.waited
        BY <3>0 DEF Send
      <4> DEFINE t == [s EXCEPT !.posted = TRUE]
      <4>2. mount' = mount /\ sends' \subseteq (sends \ {s}) \cup {t}
        BY <3>1 DEF Post
      <4> HIDE DEF t
      <4>3. t.user = s.user /\ t.waited = s.waited
        BY <4>1 DEF t
      <4> QED BY <1>2, <4>2, <4>3 DEF SendsInFlight, OneSend, Mounted
    <3>2. CASE SendSucceeds(s) \/ SendFails(s)
      <4>1. s.waited /\ \A t \in sends' : t.waited => t \in sends /\ t # s
        BY <3>0, <3>2 DEF SendSucceeds, SendFails, Send
      <4>2. \A u \in Users : u # s.user => mount'[u] = mount[u]
        BY <3>0, <3>2 DEF SendSucceeds, SendFails
      <4> QED BY <1>2, <3>0, <4>1, <4>2 DEF SendsInFlight, OneSend, Mounted
    <3> QED BY <2>3, <3>1, <3>2 DEF SendStep
  <2>4. CASE \E c \in commands : AgentStep(c)
    BY <2>1, <2>4 DEF AgentStep, Take, Refuse, Crash, Look, Ask, Synthesize, Save, Revise, Propose, Announce,
                      Review, Reply, ClientUnchanged
  <2>5. CASE (\E d \in Docs : ReviewElsewhere(d)) \/ (\E u \in Users : ChangeRole(u)) \/ UNCHANGED vars
    BY <2>1, <2>5 DEF ReviewElsewhere, ChangeRole, ClientUnchanged, vars
  <2> QED BY <1>2, <2>2, <2>3, <2>4, <2>5 DEF Next
<1> QED BY <1>1, <1>2, PTL DEF Spec

-----------------------------------------------------------------------------
(* One decision for a revision *)

\* What is said of a revision stays true when documents move.
LEMMA MatchesStays ==
  ASSUME TypeOK, TypeOK', Moves, PostsCurrent,
         NEW d, NEW number \in Nat, NEW state, Matches(docs, replies, d, number, state)
  PROVE  Matches(docs', replies', d, number, state)
<1>1. d \in Docs /\ docs[d].rev \in Nat /\ docs'[d].rev \in Nat
  BY DEF Matches, TypeOK, DocRow
<1>2. CASE docs'[d] = docs[d]
  BY <1>2 DEF Matches, PostsCurrent
<1>3. CASE docs'[d].rev > docs[d].rev
  BY <1>1, <1>3 DEF Matches
<1> QED BY <1>1, <1>2, <1>3 DEF Moves

LEMMA InitMatches == Init => IInv
<1> SUFFICES ASSUME Init PROVE IInv
  OBVIOUS
<1>1. PICK d \in Docs, first \in Firsts :
        /\ docs = [e \in Docs |-> IF e = d THEN [NewDoc EXCEPT !.state = first.state, !.rev = 1] ELSE NewDoc]
        /\ replies = {ChatReply("help"),
                      [ChatReply(first.kind) EXCEPT !.doc = d, !.rev = 1, !.state = first.state]}
  BY InitPicks
<1>2. RepliesMatch
  <2> SUFFICES ASSUME NEW r \in replies, r.kind \in DocKinds
               PROVE  Matches(docs, replies, r.doc, r.rev, r.state)
    BY DEF RepliesMatch
  <2>1. ChatReply("help").kind \notin DocKinds
    BY DEF ChatReply, DocKinds
  <2>2. r = [ChatReply(first.kind) EXCEPT !.doc = d, !.rev = 1, !.state = first.state]
    BY <1>1, <2>1
  <2>3. r.doc = d /\ r.rev = 1 /\ r.state = first.state
    BY <2>2, FirstFacts
  <2>4. docs[d].rev = 1 /\ docs[d].state = first.state
    <3>1. docs[d] = [NewDoc EXCEPT !.state = first.state, !.rev = 1]
      BY <1>1
    <3> QED BY <3>1, FirstFacts
  <2> QED BY <2>3, <2>4 DEF Matches
<1>3. MountsMatch
  BY DEF Init, MountsMatch, Unmounted, NoCard
<1> QED BY <1>2, <1>3, InitType, InitNew
        DEF Init, IInv, SendsMatch, CommandsMatch, DecisionsPast, DecidedOnce

LEMMA RepliesStay ==
  ASSUME IInv, TypeOK', Moves, PostsCurrent
  PROVE  RepliesMatch'
<1> SUFFICES ASSUME NEW r \in replies', r.kind \in DocKinds
             PROVE  Matches(docs', replies', r.doc, r.rev, r.state)
  BY DEF RepliesMatch
<1>1. r \in ReplyCard /\ r.doc \in Docs /\ r.rev \in Nat
  BY DEF TypeOK, ReplyCard, Card
<1>2. CASE r \in replies
  BY <1>1, <1>2, MatchesStays DEF IInv, RepliesMatch
<1>3. CASE r \notin replies
  <2>1. r.rev = docs'[r.doc].rev /\ (r.state = docs'[r.doc].state \/ r = Announcement(r.doc, r.rev))
    BY <1>3 DEF PostsCurrent, Current
  <2>2. CASE r.state = docs'[r.doc].state
    BY <1>1, <2>1, <2>2 DEF Matches
  <2>3. CASE r = Announcement(r.doc, r.rev)
    <3>1. Announcement(r.doc, r.rev).state = "proposed"
      BY <1>1, AnnouncementFacts
    <3>2. r.state = "proposed"
      BY <2>3, <3>1
    <3> QED BY <1>1, <2>1, <2>3, <3>2 DEF Matches
  <2> QED BY <2>1, <2>2, <2>3
<1> QED BY <1>2, <1>3

\* A card on the screen is the card it was, or one that was just mounted.
LEMMA MountsStay ==
  ASSUME IInv, TypeOK', Moves, PostsCurrent, [Next]_vars
  PROVE  MountsMatch'
<1> SUFFICES ASSUME NEW v \in Users, mount'[v].card.doc # NoDoc
             PROVE  Matches(docs', replies', mount'[v].card.doc, mount'[v].card.rev, mount'[v].card.state)
  BY DEF MountsMatch
<1>0. mount \in [Users -> Component] /\ \A u \in Users : mount[u] \in Component /\ mount[u].card.rev \in Nat
  BY DEF IInv, TypeOK, Component, Card
<1>1. CASE mount'[v].card = mount[v].card
  BY <1>0, <1>1, MatchesStays DEF IInv, MountsMatch
<1>2. ASSUME NEW u \in Users, ComponentStep(u)
      PROVE  \/ mount'[v].card = mount[v].card
             \/ mount'[v].card = NoCard
             \/ \E reply \in replies : mount'[v].card = ParseKnowledgeCard(reply)
  <2>1. CASE Mount(u)
    <3>1. PICK reply \in replies :
            mount' = [mount EXCEPT ![u] = Rendered(u, [Unmounted EXCEPT !.card = ParseKnowledgeCard(reply)])]
      BY <2>1 DEF Mount
    <3>2. Rendered(u, [Unmounted EXCEPT !.card = ParseKnowledgeCard(reply)]).card = ParseKnowledgeCard(reply)
      BY DEF Rendered, Unmounted
    <3> QED BY <1>0, <3>1, <3>2
  <2>2. CASE Unmount(u)
    BY <1>0, <2>2 DEF Unmount, Unmounted
  <2>3. CASE Render(u)
    <3>1. PICK c \in {Rendered(u, mount[u]), [Rendered(u, mount[u]) EXCEPT !.canReview = mount[u].canReview]} :
            mount' = [mount EXCEPT ![u] = c]
      BY <2>3 DEF Render
    <3>2. c.card = mount[u].card
      BY <1>0, <3>1 DEF Rendered, Component
    <3> QED BY <1>0, <3>1, <3>2
  <2>4. CASE Act(u) \/ SettlePending(u)
    BY <1>0, <2>4 DEF Act, SettlePending, Component
  <2> QED BY <1>2, <2>1, <2>2, <2>3, <2>4 DEF ComponentStep
<1>3. ASSUME NEW reply \in replies, mount'[v].card = ParseKnowledgeCard(reply)
      PROVE  Matches(docs', replies', mount'[v].card.doc, mount'[v].card.rev, mount'[v].card.state)
  <2>1. /\ reply \in ReplyCard /\ reply.rev \in Nat /\ reply.kind \in DocKinds
        /\ mount'[v].card.doc = reply.doc /\ mount'[v].card.rev = reply.rev /\ mount'[v].card.state = reply.state
    BY <1>3, ParsedType DEF IInv, TypeOK, ReplyCard, Card
  <2>2. Matches(docs', replies', reply.doc, reply.rev, reply.state)
    BY <2>1, MatchesStays DEF IInv, RepliesMatch
  <2> QED BY <2>1, <2>2 DEF Matches
<1>4. CASE \E u \in Users : ComponentStep(u)
  <2>1. NoCard.doc = NoDoc
    BY DEF NoCard
  <2> QED BY <1>1, <1>2, <1>3, <1>4, <2>1
<1>5. ASSUME NEW s \in sends, SendStep(s) PROVE mount'[v].card = mount[v].card
  <2>1. s.user \in Users
    BY DEF IInv, TypeOK, Send
  <2> QED BY <1>0, <1>5, <2>1 DEF SendStep, Post, SendSucceeds, SendFails, Component
<1>6. CASE \E c \in commands : AgentStep(c)
  BY <1>1, <1>6 DEF AgentStep, Take, Refuse, Crash, Look, Ask, Synthesize, Save, Revise, Propose, Announce,
                    Review, Reply, ClientUnchanged
<1>7. CASE (\E d \in Docs : ReviewElsewhere(d)) \/ (\E u \in Users : ChangeRole(u)) \/ UNCHANGED vars
  BY <1>1, <1>7 DEF ReviewElsewhere, ChangeRole, ClientUnchanged, vars
<1> QED BY <1>1, <1>4, <1>5, <1>6, <1>7 DEF Next

\* A message carries the revision of the card whose button was pressed.
LEMMA SendsStay ==
  ASSUME IInv, TypeOK', Moves, PostsCurrent, [Next]_vars
  PROVE  SendsMatch'
<1> SUFFICES ASSUME NEW s \in sends', s.command.action \in Reviews
             PROVE  Matches(docs', replies', s.command.doc, s.command.rev, "proposed")
  BY DEF SendsMatch
<1>0. s.command.rev \in Nat
  BY DEF TypeOK, Send, Command
<1>1. SUFFICES Matches(docs, replies, s.command.doc, s.command.rev, "proposed")
  BY <1>0, MatchesStays DEF IInv
<1>2. CASE \E t \in sends : t.command = s.command
  BY <1>2 DEF IInv, SendsMatch
<1>3. ASSUME NEW u \in Users, Act(u) PROVE Matches(docs, replies, s.command.doc, s.command.rev, "proposed")
  <2>0. mount[u].card \in Card /\ sent \in Nat
    BY DEF IInv, TypeOK, Component
  <2>1. PICK command :
          /\ sends' = sends \cup {[id |-> sent + 1, waited |-> TRUE, user |-> u,
                                    command |-> command, posted |-> FALSE]}
          /\ command.action \in Reviews =>
               /\ mount[u].card.doc # NoDoc /\ mount[u].card.state = "proposed"
               /\ command.doc = mount[u].card.doc /\ command.rev = mount[u].card.rev
    BY <1>3, <2>0, ActSends
  <2>2. CASE s.command = command
    <3>1. /\ mount[u].card.doc # NoDoc /\ mount[u].card.state = "proposed"
          /\ s.command.doc = mount[u].card.doc /\ s.command.rev = mount[u].card.rev
      BY <2>1, <2>2
    <3> QED BY <3>1 DEF IInv, MountsMatch
  <2> QED BY <1>2, <2>1, <2>2
<1>4. ASSUME NEW u \in Users, Unmount(u) PROVE \E t \in sends : t.command = s.command
  BY <1>4 DEF Unmount, IInv, TypeOK, Send
<1>5. CASE \E u \in Users : ComponentStep(u)
  BY <1>2, <1>3, <1>4, <1>5 DEF ComponentStep, Mount, Render, SettlePending
<1>6. ASSUME NEW t \in sends, SendStep(t) PROVE \E x \in sends : x.command = s.command
  BY <1>6 DEF SendStep, Post, SendSucceeds, SendFails, IInv, TypeOK, Send
<1>7. CASE \E c \in commands : AgentStep(c)
  BY <1>2, <1>7 DEF AgentStep, Take, Refuse, Crash, Look, Ask, Synthesize, Save, Revise, Propose, Announce,
                    Review, Reply, ClientUnchanged
<1>8. CASE (\E d \in Docs : ReviewElsewhere(d)) \/ (\E u \in Users : ChangeRole(u)) \/ UNCHANGED vars
  BY <1>2, <1>8 DEF ReviewElsewhere, ChangeRole, ClientUnchanged, vars
<1> QED BY <1>2, <1>5, <1>6, <1>7, <1>8 DEF Next

LEMMA CommandsStay ==
  ASSUME IInv, TypeOK', Moves, PostsCurrent, [Next]_vars
  PROVE  CommandsMatch'
<1> SUFFICES ASSUME NEW c \in commands', c.command.action \in Reviews
             PROVE  Matches(docs', replies', c.command.doc, c.command.rev, "proposed")
  BY DEF CommandsMatch
<1>0. c.command.rev \in Nat
  BY DEF TypeOK, Received, Command
<1> SUFFICES Matches(docs, replies, c.command.doc, c.command.rev, "proposed")
  BY <1>0, MatchesStays DEF IInv
<1>1. CASE \E x \in commands : x.command = c.command
  BY <1>1 DEF IInv, CommandsMatch
<1>2. CASE \E u \in Users : ComponentStep(u)
  BY <1>1, <1>2 DEF ComponentStep, Mount, Unmount, Render, Act, SettlePending, AgentUnchanged
<1>3. ASSUME NEW s \in sends, SendStep(s) PROVE Matches(docs, replies, c.command.doc, c.command.rev, "proposed")
  <2>1. CASE Post(s)
    <3>1. commands' = commands \cup {[id |-> s.id, user |-> s.user, command |-> s.command, step |-> "waiting",
                                       made |-> NoDoc]}
      BY <2>1 DEF Post
    <3>2. CASE c.command = s.command
      BY <3>2 DEF IInv, SendsMatch
    <3> QED BY <1>1, <3>1, <3>2
  <2>2. CASE SendSucceeds(s) \/ SendFails(s)
    BY <1>1, <2>2 DEF SendSucceeds, SendFails, AgentUnchanged
  <2> QED BY <1>3, <2>1, <2>2 DEF SendStep
<1>4. ASSUME NEW x \in commands, AgentStep(x) PROVE \E y \in commands : y.command = c.command
  <2>1. TypeOK
    BY DEF IInv
  <2>2. CASE commands' = commands \ {x}
    BY <2>2
  <2>3. ASSUME NEW z, z.command = x.command, commands' = (commands \ {x}) \cup {z}
        PROVE  \E y \in commands : y.command = c.command
    BY <2>3
  <2> QED BY <1>4, <2>1, <2>2, <2>3, AgentCommands
<1>5. CASE (\E d \in Docs : ReviewElsewhere(d)) \/ (\E u \in Users : ChangeRole(u)) \/ UNCHANGED vars
  BY <1>1, <1>5 DEF ReviewElsewhere, ChangeRole, vars
<1> QED BY <1>1, <1>2, <1>3, <1>4, <1>5 DEF Next

\* A decision moves its document on from the revision it was made on, so that
\* no other decision finds that revision.
LEMMA ReviewDecides ==
  ASSUME IInv, TypeOK', Moves, PostsCurrent, NEW c \in commands, Review(c)
  PROVE  DecisionsPast' /\ DecidedOnce'
<1> DEFINE d == c.command.doc
           new == [id |-> c.id, doc |-> d, rev |-> docs[d].rev, was |-> docs[d].state]
<1>0. /\ d \in Docs /\ c.command.rev \in Nat
      /\ docs \in [Docs -> DocRow] /\ docs' \in [Docs -> DocRow]
      /\ \A x \in decisions : x.doc \in Docs /\ x.rev \in Nat
      /\ \A e \in Docs : docs[e].rev \in Nat /\ docs'[e].rev \in Nat
  BY DEF IInv, TypeOK, Review, Received, Command, DocActions, Reviews, Decision, DocRow
<1>1. \A e \in Docs : docs[e].rev <= docs'[e].rev
  BY <1>0 DEF Moves
<1>2. CASE decisions' = decisions
  <2>1. replies' = replies
    BY DEF Review
  <2> QED BY <1>0, <1>1, <1>2, <2>1 DEF IInv, DecisionsPast, DecidedOnce
<1>3. CASE decisions' = decisions \cup {new} /\ Unchanged(c) /\ docs'[d].rev = docs[d].rev + 1
  <2>0. replies' = replies
    BY DEF Review
  <2>1. new.was = "proposed" \/ Announcement(new.doc, new.rev) \in replies'
    BY <1>3, <2>0 DEF IInv, CommandsMatch, Matches, Unchanged, Review
  <2>2. new.doc = d /\ new.rev = docs[d].rev
    OBVIOUS
  <2> HIDE DEF new
  <2>3. DecisionsPast'
    BY <1>0, <1>1, <1>3, <2>2 DEF IInv, DecisionsPast
  <2>4. \A x \in decisions : ~(x.doc = new.doc /\ x.rev = new.rev)
    BY <1>0, <2>2 DEF IInv, DecisionsPast
  <2>5. DecidedOnce'
    BY <1>3, <2>0, <2>1, <2>4 DEF IInv, DecidedOnce
  <2> QED BY <2>3, <2>5
<1>4. ASSUME decisions' # decisions
      PROVE  decisions' = decisions \cup {new} /\ Unchanged(c) /\ docs'[d].rev = docs[d].rev + 1
  <2>1. decisions' = decisions \cup {new} /\ Unchanged(c)
    BY <1>4 DEF Review
  <2>2. PICK state : docs'[d] = [docs[d] EXCEPT !.state = state, !.rev = @ + 1]
    BY <1>0, <1>4 DEF Review
  <2>3. docs'[d].rev = docs[d].rev + 1
    BY <1>0, <2>2 DEF DocRow
  <2> QED BY <2>1, <2>3
<1> QED BY <1>2, <1>3, <1>4

\* Two cards of whatever age, in the hands of two reviewers, decide a revision
\* once, and only while it is a proposal or after the agent announced that very
\* revision as one; neither a send that failed after its delivery and was
\* repeated, nor an execution after a crash, changes that.
THEOREM DecidedOnceHolds == Spec => []DecidedOnce
<1>1. Init => IInv
  BY InitMatches
<1>2. ASSUME IInv, [Next]_vars PROVE IInv'
  <2>1. TypeOK' /\ AbsentIsNew' /\ Moves /\ PostsCurrent
    BY <1>2, NextType, NextSound DEF IInv, Sound
  <2>2. RepliesMatch' /\ MountsMatch' /\ SendsMatch' /\ CommandsMatch'
    BY <1>2, <2>1, RepliesStay, MountsStay, SendsStay, CommandsStay
  <2>3. DecisionsPast' /\ DecidedOnce'
    <3>1. CASE decisions' = decisions
      <4>1. /\ \A x \in decisions : x.doc \in Docs /\ x.rev \in Nat
            /\ \A e \in Docs : docs[e].rev \in Nat /\ docs'[e].rev \in Nat
        BY <1>2, <2>1 DEF IInv, TypeOK, Decision, DocRow
      <4>2. DecisionsPast'
        BY <1>2, <2>1, <3>1, <4>1 DEF IInv, DecisionsPast, Moves
      <4>3. DecidedOnce'
        BY <1>2, <2>1, <3>1 DEF IInv, DecidedOnce, PostsCurrent
      <4> QED BY <4>2, <4>3
    <3>2. ASSUME NEW c \in commands, AgentStep(c) PROVE DecisionsPast' /\ DecidedOnce'
      BY <1>2, <2>1, <3>1, <3>2, AgentDecisions, ReviewDecides DEF IInv
    <3>3. CASE (\E u \in Users : ComponentStep(u)) \/ (\E s \in sends : SendStep(s))
      BY <3>1, <3>3 DEF ComponentStep, Mount, Unmount, Render, Act, SettlePending, SendStep, Post, SendSucceeds,
                        SendFails, AgentUnchanged
    <3>4. CASE (\E d \in Docs : ReviewElsewhere(d)) \/ (\E u \in Users : ChangeRole(u)) \/ UNCHANGED vars
      BY <3>1, <3>4 DEF ReviewElsewhere, ChangeRole, vars
    <3> QED BY <1>2, <3>2, <3>3, <3>4 DEF Next
  <2> QED BY <2>1, <2>2, <2>3 DEF IInv
<1>3. IInv => DecidedOnce
  BY DEF IInv
<1> QED BY <1>1, <1>2, <1>3, PTL DEF Spec

-----------------------------------------------------------------------------
(***************************************************************************)
(* The workspace page.  It shares no state with the knowledge cards: what  *)
(* follows speaks of module Workspace alone.                               *)
(***************************************************************************)

\* The kinds of request that are about a document.
DocRequests == {"detail", "review", "feedback"}
RequestKinds == {"channels", "documents", "jobs", "ask", "submit", "job-action"}
Buttons == {"none", "connect", "refresh", "refresh-jobs", "ask-button", "submit", "save-review",
            "send-feedback"}

\* A chain's fields, each of its type.
CallFields == [step : {"free", "sent", "ok", "orphan"}, kind : {"none"} \cup RequestKinds \cup DocRequests,
               button : Buttons, chan : SomeChannel, doc : Documents \cup {NoDocument}, rev : Nat, rid : Nat,
               text : Texts \cup {NoText}, act : {"none", "retry", "cancel"}, list : Listing]

LEMMA CallIsFields == Call = {c \in CallFields : c.kind \in DocRequests => c.doc \in Documents}
  <1>1. {"none", "channels", "documents", "jobs", "ask", "submit", "detail", "review", "feedback",
         "job-action"} = {"none"} \cup RequestKinds \cup DocRequests
    BY DEF RequestKinds, DocRequests
  <1> QED
    BY <1>1 DEF Call, CallFields, DocRequests, Buttons

LEMMA NoCallType ==
  /\ NoCall \in Call /\ NoCall \in CallFields /\ NoCall.step = "free" /\ NoCall.kind = "none"
  /\ NoCall.button = "none" /\ NoCall.rid = 0
  <1> DEFINE none == [r \in Rids |-> "absent"]
  <1>1. none \in Listing
    BY DEF Listing
  <1>2. NoCall = [step |-> "free", kind |-> "none", button |-> "none", chan |-> NoChannel, doc |-> NoDocument,
                    rev |-> 0, rid |-> 0, text |-> NoText, act |-> "none", list |-> none]
    BY DEF NoCall
  <1> HIDE DEF none
  <1>3. NoCall \in CallFields
    BY <1>1, <1>2 DEF CallFields, Buttons, SomeChannel
  <1> QED
    BY <1>2, <1>3, CallIsFields DEF DocRequests

\* What a request made by the page is: about no document, or about the one named.
LEMMA RequestFields ==
  ASSUME NEW kind \in RequestKinds \cup DocRequests, NEW button \in Buttons, NEW chan \in SomeChannel
  PROVE  LET c == Request(kind, button, chan)
         IN  c \in CallFields /\ c.step = "sent" /\ c.kind = kind /\ c.button = button /\ c.rid = 0
  <1>1. NoCall \in CallFields /\ NoCall.rid = 0
    BY NoCallType
  <1> QED
    BY <1>1 DEF Request, CallFields

LEMMA RequestCall ==
  ASSUME NEW kind \in RequestKinds, NEW button \in Buttons, NEW chan \in SomeChannel
  PROVE  LET c == Request(kind, button, chan)
         IN  c \in Call /\ c.step = "sent" /\ c.kind = kind /\ c.button = button /\ c.rid = 0
  BY RequestFields, CallIsFields DEF RequestKinds, DocRequests

LEMMA DetailCall ==
  ASSUME NEW button \in Buttons, NEW chan \in SomeChannel, NEW doc \in Documents
  PROVE  LET c == [Request("detail", button, chan) EXCEPT !.doc = doc]
         IN  c \in Call /\ c.step = "sent" /\ c.kind = "detail" /\ c.button = button /\ c.rid = 0
  <1> DEFINE q == Request("detail", button, chan)
             c == [q EXCEPT !.doc = doc]
  <1>1. q \in CallFields /\ q.step = "sent" /\ q.kind = "detail" /\ q.button = button /\ q.rid = 0
    BY RequestFields DEF RequestKinds, DocRequests, Buttons
  <1> HIDE DEF q
  <1>2. c \in CallFields
    BY <1>1 DEF CallFields
  <1>3. /\ c.step = "sent" /\ c.kind = "detail" /\ c.button = button /\ c.rid = 0
        /\ c.doc = doc
    BY <1>1 DEF CallFields
  <1>4. c \in Call
    BY <1>2, <1>3, CallIsFields
  <1> QED
    BY <1>3, <1>4 DEF q

LEMMA FeedbackCall ==
  ASSUME NEW chan \in SomeChannel, NEW doc \in Documents
  PROVE  LET c == [Request("feedback", "send-feedback", chan) EXCEPT !.doc = doc]
         IN  c \in Call /\ c.step = "sent" /\ c.kind = "feedback" /\ c.button = "send-feedback" /\ c.rid = 0
  <1> DEFINE q == Request("feedback", "send-feedback", chan)
             c == [q EXCEPT !.doc = doc]
  <1>1. q \in CallFields /\ q.step = "sent" /\ q.kind = "feedback" /\ q.button = "send-feedback" /\ q.rid = 0
    BY RequestFields DEF RequestKinds, DocRequests, Buttons
  <1> HIDE DEF q
  <1>2. c \in CallFields
    BY <1>1 DEF CallFields
  <1>3. /\ c.step = "sent" /\ c.kind = "feedback" /\ c.button = "send-feedback" /\ c.rid = 0
        /\ c.doc = doc
    BY <1>1 DEF CallFields
  <1>4. c \in Call
    BY <1>2, <1>3, CallIsFields
  <1> QED
    BY <1>3, <1>4 DEF q

LEMMA ReviewCall ==
  ASSUME NEW chan \in SomeChannel, NEW doc \in Documents, NEW was \in Nat
  PROVE  LET c == [Request("review", "save-review", chan) EXCEPT !.doc = doc, !.rev = was]
         IN  c \in Call /\ c.step = "sent" /\ c.kind = "review" /\ c.button = "save-review" /\ c.rid = 0
  <1> DEFINE q == Request("review", "save-review", chan)
             c == [q EXCEPT !.doc = doc, !.rev = was]
  <1>1. q \in CallFields /\ q.step = "sent" /\ q.kind = "review" /\ q.button = "save-review" /\ q.rid = 0
    BY RequestFields DEF RequestKinds, DocRequests, Buttons
  <1> HIDE DEF q
  <1>2. c \in CallFields
    BY <1>1 DEF CallFields
  <1>3. /\ c.step = "sent" /\ c.kind = "review" /\ c.button = "save-review" /\ c.rid = 0
        /\ c.doc = doc
    BY <1>1 DEF CallFields
  <1>4. c \in Call
    BY <1>2, <1>3, CallIsFields
  <1> QED
    BY <1>3, <1>4 DEF q

\* What a row of the job list offers.
RowActions == {"retry", "cancel"}

\* How a chain goes on: it ends, or keeps its button, and only a submission
\* that was sent before is answered as one.
Continues(c, old) ==
  \/ c = NoCall
  \/ /\ c.step \in {"sent", "ok"} /\ old.step \in {"sent", "ok"}
     /\ c.button = old.button
     /\ c.kind = "submit" => old.kind = "submit" /\ c.rid = old.rid
     /\ c.rid \in {0, old.rid}

\* What the request of a chain becomes once it is answered, or lost.
LEMMA AnswerCall ==
  ASSUME PageTypeOK, NEW k \in Slots, NEW ok \in BOOLEAN, Answer(k, ok),
         calls[k].step \in {"sent", "ok", "orphan"}
  PROVE  \E c \in Call : calls' = [calls EXCEPT ![k] = c] /\ Continues(c, calls[k])
  <1>1. calls[k] \in Call
    BY DEF PageTypeOK
  <1> DEFINE d == [calls[k] EXCEPT !.step = "ok", !.text = NoText]
  <1>2. /\ d \in Call /\ d.step = "ok" /\ d.button = calls[k].button /\ d.kind = calls[k].kind
        /\ d.rid = calls[k].rid
    BY <1>1 DEF Call
  <1>3. calls' = [calls EXCEPT ![k] = IF calls[k].step = "orphan" THEN NoCall
                                      ELSE IF ok THEN d ELSE NoCall]
    BY DEF Answer, Deliver, PageTypeOK
  <1> HIDE DEF d
  <1>4. CASE calls[k].step = "orphan" \/ ~ok
    BY <1>3, <1>4, NoCallType DEF Continues
  <1>5. CASE calls[k].step # "orphan" /\ ok
    BY <1>2, <1>3, <1>5 DEF Continues
  <1> QED
    BY <1>4, <1>5

\* The same for an answer that carries something.
LEMMA ReplyCall ==
  ASSUME PageTypeOK, NEW k \in Slots, NEW answer \in Call, Deliver(k, answer),
         calls[k].step \in {"sent", "orphan"}, answer.step = "ok", answer.kind = calls[k].kind,
         answer.button = calls[k].button, answer.rid = calls[k].rid
  PROVE  \E c \in Call : calls' = [calls EXCEPT ![k] = c] /\ Continues(c, calls[k])
  <1>1. calls' = [calls EXCEPT ![k] = IF calls[k].step = "orphan" THEN NoCall ELSE answer]
    BY DEF Deliver, PageTypeOK
  <1>2. CASE calls[k].step = "orphan"
    BY <1>1, <1>2, NoCallType DEF Continues
  <1>3. CASE calls[k].step = "sent"
    BY <1>1, <1>3 DEF Continues
  <1> QED
    BY <1>2, <1>3

\* Every request the API serves, and every one that is lost, continues its chain.
LEMMA ServedCall ==
  ASSUME Configured, PageTypeOK, NEW k \in Slots, Serve(k) \/ Lose(k)
  PROVE  \E c \in Call : calls' = [calls EXCEPT ![k] = c] /\ Continues(c, calls[k])
  <1>1. calls[k] \in Call
    BY DEF PageTypeOK
  <1>2. CASE ServeList(k)
    BY <1>2, AnswerCall DEF ServeList, Served
  <1>3. CASE ServeDetail(k)
    <2>1. CASE Found(calls[k])
      <3> DEFINE a == [calls[k] EXCEPT !.step = "ok", !.rev = rev[calls[k].doc]]
      <3>1. rev[calls[k].doc] \in Nat
        BY <1>1, <1>3 DEF ServeDetail, Served, Call, PageTypeOK
      <3>2. /\ a \in Call /\ a.step = "ok" /\ a.button = calls[k].button /\ a.kind = calls[k].kind
            /\ a.rid = calls[k].rid
        BY <1>1, <3>1 DEF Call
      <3>3. Deliver(k, a)
        BY <1>3, <2>1 DEF ServeDetail
      <3> HIDE DEF a
      <3> QED
        BY <1>3, <3>2, <3>3, ReplyCall DEF ServeDetail, Served
    <2>2. CASE ~Found(calls[k])
      BY <1>3, <2>2, AnswerCall DEF ServeDetail, Served
    <2> QED
      BY <2>1, <2>2
  <1>4. CASE ServeJobs(k)
    <2>1. CASE calls[k].chan # NoChannel
      <3> DEFINE a == [calls[k] EXCEPT !.step = "ok", !.list = JobsOf(calls[k].chan)]
      <3>1. JobsOf(calls[k].chan) \in Listing
        BY DEF JobsOf, Listing, PageTypeOK, Job
      <3>2. /\ a \in Call /\ a.step = "ok" /\ a.button = calls[k].button /\ a.kind = calls[k].kind
            /\ a.rid = calls[k].rid
        BY <1>1, <3>1 DEF Call
      <3>3. Deliver(k, a)
        BY <1>4, <2>1 DEF ServeJobs
      <3> HIDE DEF a
      <3> QED
        BY <1>4, <3>2, <3>3, ReplyCall DEF ServeJobs, Served
    <2>2. CASE calls[k].chan = NoChannel
      BY <1>4, <2>2, AnswerCall DEF ServeJobs, Served
    <2> QED
      BY <2>1, <2>2
  <1>5. CASE ServeReview(k)
    BY <1>5, AnswerCall DEF ServeReview, Served
  <1>6. CASE ServeFeedback(k)
    <2>1. Found(calls[k]) \in BOOLEAN
      BY DEF Found
    <2> QED
      BY <1>6, <2>1, AnswerCall DEF ServeFeedback, Served
  <1>7. CASE ServeSubmit(k)
    <2> DEFINE ok == calls[k].chan # NoChannel /\ (jobs[calls[k].rid].status = "absent" \/
                       (jobs[calls[k].rid].chan = calls[k].chan /\ jobs[calls[k].rid].text = calls[k].text))
    <2>1. ok \in BOOLEAN /\ Answer(k, ok)
      BY <1>7 DEF ServeSubmit
    <2> HIDE DEF ok
    <2> QED
      BY <1>7, <2>1, AnswerCall DEF ServeSubmit, Served
  <1>8. CASE ServeJobAction(k)
    <2> DEFINE ok == jobs[calls[k].rid].chan = calls[k].chan /\ Actionable(jobs[calls[k].rid])
    <2>1. ok \in BOOLEAN /\ Answer(k, ok)
      BY <1>8 DEF ServeJobAction, Actionable
    <2> HIDE DEF ok
    <2> QED
      BY <1>8, <2>1, AnswerCall DEF ServeJobAction, Served
  <1>9. CASE Lose(k)
    BY <1>9, AnswerCall DEF Lose
  <1> QED
    BY <1>2, <1>3, <1>4, <1>5, <1>6, <1>7, <1>8, <1>9 DEF Serve

\* The step that follows an answer continues its chain.
LEMMA ResumedCall ==
  ASSUME Configured, PageTypeOK, NEW k \in Slots, Resume(k)
  PROVE  \E c \in Call : calls' = [calls EXCEPT ![k] = c] /\ Continues(c, calls[k])
  <1>1. calls[k] \in Call /\ calls[k].button \in Buttons
    BY DEF PageTypeOK, Call, Buttons
  <1>2. page.channel \in SomeChannel /\ First \in SomeChannel /\ (page.doc # NoDocument => page.doc \in Documents)
    BY DEF PageTypeOK, Page, Configured, SomeChannel
  <1>3. ASSUME NEW kind \in RequestKinds \ {"submit"}, NEW chan \in SomeChannel,
               Then(k, Request(kind, calls[k].button, chan)), calls[k].step = "ok"
        PROVE  \E c \in Call : calls' = [calls EXCEPT ![k] = c] /\ Continues(c, calls[k])
    <2> DEFINE c == Request(kind, calls[k].button, chan)
    <2>1. /\ c \in Call /\ c.step = "sent" /\ c.kind = kind /\ c.button = calls[k].button
          /\ c.rid = 0
      BY <1>1, RequestCall
    <2>2. calls' = [calls EXCEPT ![k] = c]
      BY <1>3 DEF Then
    <2> HIDE DEF c
    <2> QED
      BY <1>3, <2>1, <2>2 DEF Continues
  <1>4. ASSUME End(k)
        PROVE  \E c \in Call : calls' = [calls EXCEPT ![k] = c] /\ Continues(c, calls[k])
    BY <1>4, NoCallType DEF End, Continues
  <1>5. CASE Connected(k)
    BY <1>2, <1>3, <1>5 DEF Connected, Answered, RequestKinds
  <1>6. CASE Listed(k) \/ Answering(k) \/ Opened(k) \/ JobsListed(k)
    BY <1>4, <1>6 DEF Listed, Answering, Opened, JobsListed
  <1>7. CASE Reviewed(k)
    <2>1. CASE page.doc = NoDocument
      BY <1>4, <1>7, <2>1 DEF Reviewed
    <2>2. CASE page.doc # NoDocument
      <3> DEFINE c == [Request("detail", calls[k].button, page.channel) EXCEPT !.doc = page.doc]
      <3>1. /\ c \in Call /\ c.step = "sent" /\ c.kind = "detail" /\ c.button = calls[k].button
            /\ c.rid = 0
        BY <1>1, <1>2, <2>2, DetailCall
      <3>2. calls' = [calls EXCEPT ![k] = c]
        BY <1>7, <2>2 DEF Reviewed, Then
      <3> HIDE DEF c
      <3> QED
        BY <1>7, <3>1, <3>2 DEF Continues, Reviewed, Answered
    <2> QED
      BY <2>1, <2>2
  <1>8. CASE Accepted(k) \/ JobChanged(k)
    BY <1>2, <1>3, <1>8 DEF Accepted, JobChanged, Answered, RequestKinds
  <1> QED
    BY <1>5, <1>6, <1>7, <1>8 DEF Resume

\* The steps of the user that send something.
Clicks ==
  \/ Connect \/ Refresh \/ RefreshJobs \/ AskQuestion \/ SaveReview \/ SendFeedback
  \/ \E text \in Texts : Submit(text)
  \/ \E c \in Channels : ChooseChannel(c)
  \/ \E d \in Documents : Open(d)
  \/ \E r \in Rids : RowAction(r)

\* What starts a chain: a submission is the only chain of its button, and has
\* the id of the page.
Starts(c) ==
  /\ c.step = "sent"
  /\ c.rid \in Rids \cup {page.submissionId}
  /\ c.kind = "submit" <=> c.button = "submit"
  /\ c.kind = "submit" => c.rid = page.submissionId /\ ~Disabled("submit")

LEMMA ClickedCall ==
  ASSUME Configured, PageTypeOK, Clicks
  PROVE  \E k \in Slots : \E c \in Call :
           calls[k].step = "free" /\ calls' = [calls EXCEPT ![k] = c] /\ Starts(c)
  <1>1. /\ page.channel \in SomeChannel /\ page.submissionId \in Nat /\ page.rev \in Nat
        /\ page.shown => page.doc \in Documents
    BY DEF PageTypeOK, Page
  <1>2. 0 \in Rids /\ Rids \subseteq Nat /\ Channels \subseteq SomeChannel
    BY DEF Rids, Configured, SomeChannel
  <1>3. ASSUME NEW c \in Call, Starts(c), Click(c)
        PROVE  \E k \in Slots : \E d \in Call :
                 calls[k].step = "free" /\ calls' = [calls EXCEPT ![k] = d] /\ Starts(d)
    BY <1>3 DEF Click
  <1>4. ASSUME NEW kind \in RequestKinds \ {"submit"}, NEW button \in Buttons \ {"submit"},
               NEW chan \in SomeChannel
        PROVE  LET c == Request(kind, button, chan) IN c \in Call /\ Starts(c)
    <2> DEFINE c == Request(kind, button, chan)
    <2>1. c \in Call /\ c.step = "sent" /\ c.kind = kind /\ c.button = button /\ c.rid = 0
      BY RequestCall
    <2> HIDE DEF c
    <2>2. c \in Call /\ Starts(c)
      BY <1>2, <2>1 DEF Starts
    <2> QED
      BY <2>2 DEF c
  <1>5. CASE Connect \/ Refresh \/ RefreshJobs \/ AskQuestion
    BY <1>1, <1>3, <1>4, <1>5 DEF Connect, Refresh, RefreshJobs, AskQuestion, Press, RequestKinds, Buttons
  <1>6. CASE SaveReview
    <2> DEFINE c == [Request("review", "save-review", page.channel) EXCEPT !.doc = page.doc, !.rev = page.rev]
    <2>1. /\ c \in Call /\ c.step = "sent" /\ c.kind = "review" /\ c.button = "save-review" /\ c.rid = 0
      BY <1>1, <1>6, ReviewCall DEF SaveReview
    <2>2. Click(c)
      BY <1>6 DEF SaveReview, Press
    <2> HIDE DEF c
    <2> QED
      BY <1>2, <1>3, <2>1, <2>2 DEF Starts
  <1>7. CASE SendFeedback
    <2> DEFINE c == [Request("feedback", "send-feedback", page.channel) EXCEPT !.doc = page.doc]
    <2>1. /\ c \in Call /\ c.step = "sent" /\ c.kind = "feedback" /\ c.button = "send-feedback" /\ c.rid = 0
      BY <1>1, <1>7, FeedbackCall DEF SendFeedback
    <2>2. Click(c)
      BY <1>7 DEF SendFeedback, Press
    <2> HIDE DEF c
    <2> QED
      BY <1>2, <1>3, <2>1, <2>2 DEF Starts
  <1>8. ASSUME NEW text \in Texts, Submit(text)
        PROVE  \E k \in Slots : \E d \in Call :
                 calls[k].step = "free" /\ calls' = [calls EXCEPT ![k] = d] /\ Starts(d)
    <2> DEFINE q == Request("submit", "submit", page.channel)
               c == [q EXCEPT !.rid = page.submissionId, !.text = text]
    <2>1. q \in CallFields /\ q.step = "sent" /\ q.kind = "submit" /\ q.button = "submit"
      BY <1>1, RequestFields DEF RequestKinds, Buttons
    <2>2. Click(c) /\ ~Disabled("submit")
      BY <1>8 DEF Submit, Press
    <2> HIDE DEF q
    <2>3. c \in CallFields
      BY <1>1, <2>1 DEF CallFields
    <2>4. c.step = "sent" /\ c.kind = "submit" /\ c.button = "submit" /\ c.rid = page.submissionId
      BY <2>1 DEF CallFields
    <2>5. c \in Call
      BY <2>3, <2>4, CallIsFields DEF DocRequests
    <2> HIDE DEF c
    <2> QED
      BY <1>3, <2>2, <2>4, <2>5 DEF Starts
  <1>9. ASSUME NEW chan \in Channels, ChooseChannel(chan)
        PROVE  \E k \in Slots : \E d \in Call :
                 calls[k].step = "free" /\ calls' = [calls EXCEPT ![k] = d] /\ Starts(d)
    BY <1>2, <1>3, <1>4, <1>9 DEF ChooseChannel, RequestKinds, Buttons
  <1>10. ASSUME NEW d \in Documents, Open(d)
         PROVE  \E k \in Slots : \E c \in Call :
                  calls[k].step = "free" /\ calls' = [calls EXCEPT ![k] = c] /\ Starts(c)
    <2> DEFINE c == [Request("detail", "none", page.channel) EXCEPT !.doc = d]
    <2>1. c \in Call /\ c.step = "sent" /\ c.kind = "detail" /\ c.button = "none" /\ c.rid = 0
      BY <1>1, DetailCall DEF Buttons
    <2>2. Click(c)
      BY <1>10 DEF Open
    <2> HIDE DEF c
    <2> QED
      BY <1>2, <1>3, <2>1, <2>2 DEF Starts
  <1>11. ASSUME NEW r \in Rids, RowAction(r)
         PROVE  \E k \in Slots : \E c \in Call :
                  calls[k].step = "free" /\ calls' = [calls EXCEPT ![k] = c] /\ Starts(c)
    <2>0. PICK act \in RowActions :
            Click([Request("job-action", "none", page.channel) EXCEPT !.rid = r, !.act = act])
      BY <1>11 DEF RowAction, RowActions
    <2> DEFINE q == Request("job-action", "none", page.channel)
               c == [q EXCEPT !.rid = r, !.act = act]
    <2>1. q \in CallFields /\ q.step = "sent" /\ q.kind = "job-action" /\ q.button = "none"
      BY <1>1, RequestFields DEF RequestKinds, Buttons
    <2>2. Click(c)
      BY <2>0
    <2> HIDE DEF q
    <2>3. c \in CallFields
      BY <1>2, <2>1 DEF CallFields, RowActions
    <2>4. c.step = "sent" /\ c.kind = "job-action" /\ c.button = "none" /\ c.rid = r
      BY <2>1 DEF CallFields
    <2>5. c \in Call
      BY <2>3, <2>4, CallIsFields DEF DocRequests
    <2> HIDE DEF c
    <2> QED
      BY <1>3, <2>2, <2>4, <2>5 DEF Starts
  <1> QED
    BY <1>5, <1>6, <1>7, <1>8, <1>9, <1>10, <1>11 DEF Clicks

\* The page and its document, each field of its type.
PageFields == [channel : SomeChannel, doc : Documents \cup {NoDocument}, rev : Nat, shown : BOOLEAN,
               controls : BOOLEAN, rows : SomeChannel, jobRows : Listing, submissionId : Nat]

LEMMA PageIsFields == Page = {p \in PageFields : p.shown => p.doc \in Documents}
  BY DEF Page, PageFields

LEMMA LoadedType ==
  ASSUME NEW id \in Nat
  PROVE  Loaded(id) \in Page /\ Loaded(id).submissionId = id
  <1> DEFINE none == [r \in Rids |-> "absent"]
  <1>1. none \in Listing
    BY DEF Listing
  <1>2. Loaded(id) = [channel |-> NoChannel, doc |-> NoDocument, rev |-> 0, shown |-> FALSE, controls |-> FALSE,
                        rows |-> NoChannel, jobRows |-> none, submissionId |-> id]
    BY DEF Loaded
  <1> HIDE DEF none
  <1>3. Loaded(id) \in PageFields
    BY <1>1, <1>2 DEF PageFields, SomeChannel
  <1> QED
    BY <1>2, <1>3, PageIsFields

\* The steps that change the page.
PageSteps ==
  \/ \E c \in Channels : ChooseChannel(c)
  \/ Navigate \/ Reload
  \/ \E k \in Slots : Connected(k) \/ Listed(k) \/ Opened(k) \/ Accepted(k) \/ JobsListed(k)

\* The page after a step: its submission id grows by one when it is loaded again
\* or told of an acceptance, and at no other step.
LEMMA PageStep ==
  ASSUME Configured, PageTypeOK, [PageNext]_pageVars
  PROVE  /\ page' \in Page
         /\ \/ page'.submissionId = page.submissionId
               /\ ~Reload /\ \A k \in Slots : ~Accepted(k)
            \/ page'.submissionId = page.submissionId + 1
               /\ (Reload \/ \E k \in Slots : Accepted(k))
  <1>1. page \in PageFields /\ (page.shown => page.doc \in Documents) /\ page.submissionId \in Nat
    BY PageIsFields DEF PageTypeOK, PageFields
  <1>2. Channels \subseteq SomeChannel /\ First \in SomeChannel
    BY DEF Configured, SomeChannel
  <1> DEFINE Same == page' \in Page /\ page'.submissionId = page.submissionId
  <1>3. ASSUME NEW p \in PageFields, p.shown => p.doc \in Documents, p.submissionId = page.submissionId,
               page' = p
        PROVE  Same
    BY <1>3, PageIsFields
  <1>4. ASSUME NEW c \in Channels, ChooseChannel(c) PROVE Same
    <2> DEFINE p == [page EXCEPT !.channel = c, !.doc = NoDocument, !.rev = 0, !.shown = FALSE]
    <2>1. p \in PageFields /\ ~p.shown /\ p.submissionId = page.submissionId
      BY <1>1, <1>2 DEF PageFields
    <2>2. page' = p
      BY <1>4 DEF ChooseChannel
    <2> HIDE DEF p
    <2> QED
      BY <1>3, <2>1, <2>2
  <1>5. ASSUME Navigate PROVE Same
    <2> DEFINE p == [page EXCEPT !.shown = FALSE]
    <2>1. p \in PageFields /\ ~p.shown /\ p.submissionId = page.submissionId
      BY <1>1 DEF PageFields
    <2>2. page' = p
      BY <1>5 DEF Navigate
    <2> HIDE DEF p
    <2> QED
      BY <1>3, <2>1, <2>2
  <1>6. ASSUME NEW k \in Slots, Connected(k) PROVE Same
    <2> DEFINE p == [page EXCEPT !.channel = First]
    <2>1. p \in PageFields /\ p.shown = page.shown /\ p.doc = page.doc /\ p.submissionId = page.submissionId
      BY <1>1, <1>2 DEF PageFields
    <2>2. page' = p
      BY <1>6 DEF Connected
    <2> HIDE DEF p
    <2> QED
      BY <1>1, <1>3, <2>1, <2>2
  <1>7. ASSUME NEW k \in Slots PROVE calls[k] \in CallFields /\ (calls[k].kind \in DocRequests => calls[k].doc \in Documents)
    BY CallIsFields DEF PageTypeOK
  <1>8. ASSUME NEW k \in Slots, Listed(k) PROVE Same
    <2> DEFINE p == [page EXCEPT !.rows = calls[k].chan]
    <2>1. p \in PageFields /\ p.shown = page.shown /\ p.doc = page.doc /\ p.submissionId = page.submissionId
      BY <1>1, <1>7 DEF PageFields, CallFields
    <2>2. page' = p
      BY <1>8 DEF Listed
    <2> HIDE DEF p
    <2> QED
      BY <1>1, <1>3, <2>1, <2>2
  <1>9. ASSUME NEW k \in Slots, Opened(k) PROVE Same
    <2> DEFINE admin == RoleIn[page.channel] = "admin"
               p == [page EXCEPT !.doc = calls[k].doc, !.rev = calls[k].rev, !.shown = TRUE, !.controls = admin]
    <2>1. calls[k].doc \in Documents /\ calls[k].rev \in Nat /\ admin \in BOOLEAN
      BY <1>7, <1>9 DEF Opened, Answered, DocRequests, CallFields
    <2>2. page' = p
      BY <1>9 DEF Opened
    <2> HIDE DEF admin
    <2>3. p \in PageFields /\ p.doc = calls[k].doc /\ p.submissionId = page.submissionId
      BY <1>1, <2>1 DEF PageFields
    <2> HIDE DEF p
    <2> QED
      BY <1>3, <2>1, <2>2, <2>3
  <1>10. ASSUME NEW k \in Slots, JobsListed(k) PROVE Same
    <2> DEFINE p == [page EXCEPT !.jobRows = calls[k].list]
    <2>1. p \in PageFields /\ p.shown = page.shown /\ p.doc = page.doc /\ p.submissionId = page.submissionId
      BY <1>1, <1>7 DEF PageFields, CallFields
    <2>2. page' = p
      BY <1>10 DEF JobsListed
    <2> HIDE DEF p
    <2> QED
      BY <1>1, <1>3, <2>1, <2>2
  <1>11. ASSUME NEW k \in Slots, Accepted(k)
         PROVE  page' \in Page /\ page'.submissionId = page.submissionId + 1
    <2> DEFINE n == page.submissionId + 1
               p == [page EXCEPT !.submissionId = n, !.shown = FALSE]
    <2>1. page' = p /\ n \in Nat
      BY <1>1, <1>11 DEF Accepted
    <2> HIDE DEF n
    <2>2. p \in PageFields /\ ~p.shown /\ p.submissionId = n
      BY <1>1, <2>1 DEF PageFields
    <2> HIDE DEF p
    <2> QED
      BY <2>1, <2>2, PageIsFields DEF n
  <1>12. CASE Reload
    BY <1>1, <1>12, LoadedType DEF Reload
  <1>13. CASE ~PageSteps
    <2>1. page' = page
      BY <1>13 DEF PageSteps, PageNext, UserStep, Connect, Refresh, RefreshJobs, AskQuestion, SaveReview,
         SendFeedback, Submit, Press, Open, RowAction, Serve, ServeList, ServeDetail,
         ServeJobs, ServeReview, ServeFeedback, ServeSubmit, ServeJobAction, Lose, Resume,
         Answering, Reviewed, JobChanged, OtherReview, JobGoes, Claim, Settle, SettleLate,
         pageVars
    <2> QED
      BY <1>13, <2>1 DEF PageSteps, PageTypeOK
  <1>14. CASE PageSteps /\ ~Reload /\ \A k \in Slots : ~Accepted(k)
    <2>1. Same
      BY <1>4, <1>5, <1>6, <1>8, <1>9, <1>10, <1>14 DEF PageSteps
    <2> QED
      BY <1>14, <2>1
  <1> QED
    BY <1>11, <1>12, <1>13, <1>14

\* The chains after a step.
LEMMA CallsStep ==
  ASSUME Configured, PageTypeOK, [PageNext]_pageVars
  PROVE  /\ calls' \in [Slots -> Call]
         /\ \/ calls' = calls
            \/ \E k \in Slots : \E c \in Call : calls' = [calls EXCEPT ![k] = c] /\ Continues(c, calls[k])
            \/ \E k \in Slots : \E c \in Call :
                 Clicks /\ calls[k].step = "free" /\ calls' = [calls EXCEPT ![k] = c] /\ Starts(c)
            \/ Reload
  <1>1. ASSUME NEW k \in Slots, NEW c \in Call, calls' = [calls EXCEPT ![k] = c]
        PROVE  calls' \in [Slots -> Call]
    BY <1>1 DEF PageTypeOK
  <1>2. ASSUME NEW k \in Slots, Serve(k) \/ Lose(k) \/ Resume(k)
        PROVE  \E c \in Call : calls' = [calls EXCEPT ![k] = c] /\ Continues(c, calls[k])
    BY <1>2, ServedCall, ResumedCall
  <1>3. CASE Clicks
    BY <1>1, <1>3, ClickedCall
  <1>4. CASE Reload
    <2>1. ASSUME NEW k \in Slots
          PROVE  (IF calls[k].step \in {"sent", "orphan"} THEN [calls[k] EXCEPT !.step = "orphan"] ELSE NoCall)
                   \in Call
      <3>1. calls[k] \in CallFields /\ (calls[k].kind \in DocRequests => calls[k].doc \in Documents)
        BY CallIsFields DEF PageTypeOK
      <3>2. /\ [calls[k] EXCEPT !.step = "orphan"] \in CallFields
            /\ [calls[k] EXCEPT !.step = "orphan"].kind = calls[k].kind
            /\ [calls[k] EXCEPT !.step = "orphan"].doc = calls[k].doc
        BY <3>1 DEF CallFields
      <3>3. [calls[k] EXCEPT !.step = "orphan"] \in Call
        BY <3>1, <3>2, CallIsFields
      <3> QED
        BY <3>3, NoCallType
    <2> QED
      BY <1>4, <2>1 DEF Reload
  <1>5. CASE \E k \in Slots : Serve(k) \/ Lose(k) \/ Resume(k)
    BY <1>1, <1>2, <1>5
  <1>6. CASE calls' = calls
    BY <1>6 DEF PageTypeOK
  <1>7. CASE ~Clicks /\ ~Reload /\ ~\E k \in Slots : Serve(k) \/ Lose(k) \/ Resume(k)
    <2>1. calls' = calls
      BY <1>7 DEF Clicks, PageNext, UserStep, Navigate, OtherReview, JobGoes, Claim, Settle,
         SettleLate, pageVars
    <2> QED
      BY <1>6, <2>1
  <1> QED
    BY <1>3, <1>4, <1>5, <1>7

\* The uses of the bounds after a step.
LEMMA SpentStep ==
  ASSUME Configured, PageTypeOK, [PageNext]_pageVars
  PROVE  /\ spent' \in [clicks : 0..MaxClicks, others : [Documents -> 0..MaxReviews], runs : 0..MaxRuns,
                        reloads : 0..MaxReloads, troubles : 0..MaxPageTroubles]
         /\ spent'.reloads = IF Reload THEN spent.reloads + 1 ELSE spent.reloads
         /\ spent'.clicks = IF Clicks THEN spent.clicks + 1 ELSE spent.clicks
  <1> DEFINE Spent == [clicks : 0..MaxClicks, others : [Documents -> 0..MaxReviews], runs : 0..MaxRuns,
                       reloads : 0..MaxReloads, troubles : 0..MaxPageTroubles]
  <1>1. spent \in Spent
    BY DEF PageTypeOK
  <1>2. {MaxClicks, MaxReviews, MaxRuns, MaxReloads, MaxPageTroubles} \subseteq Nat
    BY DEF Configured
  <1>3. ASSUME NEW counted \in Spent, PageTrouble(counted), counted.troubles = spent.troubles
        PROVE  spent' \in Spent /\ spent'.clicks = counted.clicks /\ spent'.reloads = counted.reloads
    <2> DEFINE n == counted.troubles + 1
    <2>1. n \in 0..MaxPageTroubles /\ spent' = [counted EXCEPT !.troubles = n]
      BY <1>2, <1>3 DEF PageTrouble
    <2> HIDE DEF n
    <2> QED
      BY <2>1
  <1>4. ASSUME Clicks PROVE spent' \in Spent /\ spent'.clicks = spent.clicks + 1 /\ spent'.reloads = spent.reloads
    <2> DEFINE n == spent.clicks + 1
    <2>1. spent.clicks < MaxClicks /\ spent' = [spent EXCEPT !.clicks = n]
      BY <1>4 DEF Clicks, Connect, Refresh, RefreshJobs, AskQuestion, SaveReview, SendFeedback, Submit,
         Press, ChooseChannel, Open, RowAction, Click
    <2>2. n \in 0..MaxClicks
      BY <1>1, <1>2, <2>1
    <2> HIDE DEF n
    <2>3. spent' \in Spent /\ spent'.clicks = n /\ spent'.reloads = spent.reloads
      BY <1>1, <2>1, <2>2
    <2> QED
      BY <2>3 DEF n
  <1>5. ASSUME Reload PROVE spent' \in Spent /\ spent'.clicks = spent.clicks /\ spent'.reloads = spent.reloads + 1
    <2> DEFINE n == spent.reloads + 1
               counted == [spent EXCEPT !.reloads = n]
    <2>1. n \in 0..MaxReloads /\ PageTrouble(counted)
      BY <1>1, <1>2, <1>5 DEF Reload
    <2> HIDE DEF n
    <2>2. /\ counted \in Spent /\ counted.troubles = spent.troubles /\ counted.clicks = spent.clicks
          /\ counted.reloads = n
      BY <1>1, <2>1
    <2> HIDE DEF counted
    <2>3. spent' \in Spent /\ spent'.clicks = spent.clicks /\ spent'.reloads = n
      BY <1>3, <2>1, <2>2
    <2> QED
      BY <2>3 DEF n
  <1>6. ASSUME NEW d \in Documents, OtherReview(d)
        PROVE  spent' \in Spent /\ spent'.clicks = spent.clicks /\ spent'.reloads = spent.reloads
    <2> DEFINE n == spent.others[d] + 1
               m == [spent.others EXCEPT ![d] = n]
               counted == [spent EXCEPT !.others = m]
    <2>1. n \in 0..MaxReviews
      BY <1>1, <1>2, <1>6 DEF OtherReview
    <2>2. PageTrouble(counted)
      BY <1>1, <1>6 DEF OtherReview
    <2> HIDE DEF n
    <2>3. m \in [Documents -> 0..MaxReviews]
      BY <1>1, <2>1
    <2> HIDE DEF m
    <2>4. /\ counted \in Spent /\ counted.troubles = spent.troubles /\ counted.clicks = spent.clicks
          /\ counted.reloads = spent.reloads
      BY <1>1, <2>3
    <2> HIDE DEF counted
    <2> QED
      BY <1>3, <2>2, <2>4
  <1>7. ASSUME NEW r \in Rids, Claim(r)
        PROVE  spent' \in Spent /\ spent'.clicks = spent.clicks /\ spent'.reloads = spent.reloads
    <2> DEFINE n == spent.runs + 1
    <2>1. n \in 0..MaxRuns /\ spent' = [spent EXCEPT !.runs = n]
      BY <1>1, <1>2, <1>7 DEF Claim
    <2> HIDE DEF n
    <2> QED
      BY <1>1, <2>1
  <1>8. ASSUME (\E k \in Slots : Lose(k)) \/ (\E r \in Rids : Settle(r)) \/ spent' = spent
        PROVE  spent' \in Spent /\ spent'.clicks = spent.clicks /\ spent'.reloads = spent.reloads
    BY <1>1, <1>3, <1>8 DEF Lose, Settle
  <1>9. \/ Clicks \/ Reload \/ (\E d \in Documents : OtherReview(d)) \/ (\E r \in Rids : Claim(r))
        \/ (\E k \in Slots : Lose(k)) \/ (\E r \in Rids : Settle(r)) \/ spent' = spent
    BY DEF Clicks, PageNext, UserStep, Navigate, Serve, ServeList, ServeDetail, ServeJobs,
       ServeReview, ServeFeedback, ServeSubmit, ServeJobAction, Resume, Connected, Listed,
       Answering, Opened, Reviewed, Accepted, JobsListed, JobChanged, SettleLate, pageVars
  <1> QED
    BY <1>4, <1>5, <1>6, <1>7, <1>8, <1>9

\* What a step may make of the row of one job.
RowBecomes(r, j) ==
  \/ /\ jobs[r].status = "absent" /\ j.status = "pending" /\ j.late = jobs[r].late
     /\ \E k \in Slots : calls[k].kind = "submit" /\ calls[k].rid = r
  \/ jobs[r].status \in {"pending", "failed"} /\ j.status \in {"pending", "cancelled"} /\ j.late = jobs[r].late
  \/ jobs[r].status = "pending" /\ j.status = "processing" /\ ~j.late
  \/ /\ jobs[r].status = "processing" /\ j.status \in {"completed", "failed", "pending"}
     /\ j.late = jobs[r].late \/ (j.late /\ j.status # "pending")
  \/ /\ jobs[r].late /\ ~j.late
     /\ j.status \in (IF jobs[r].status = "completed" THEN {"pending", "failed"} ELSE {"completed", "failed"})

\* A step changes the row of one job at most.
LEMMA JobsMove ==
  ASSUME Configured, PageTypeOK, [PageNext]_pageVars
  PROVE  jobs' = jobs \/ \E r \in Rids, j \in Job : jobs' = [jobs EXCEPT ![r] = j] /\ RowBecomes(r, j)
  <1> DEFINE Goal == jobs' = jobs \/ \E r \in Rids, j \in Job : jobs' = [jobs EXCEPT ![r] = j] /\ RowBecomes(r, j)
  <1>1. jobs \in [Rids -> Job]
    BY DEF PageTypeOK
  <1>2. ASSUME NEW x, x \notin Rids, NEW j, jobs' = [jobs EXCEPT ![x] = j] PROVE jobs' = jobs
    BY <1>1, <1>2
  <1>2a. ASSUME NEW r \in Rids, NEW status, jobs[r].status # "absent",
               status \in {"pending", "processing", "completed", "failed", "cancelled"}
        PROVE  /\ [jobs[r] EXCEPT !.status = status] \in Job
               /\ [jobs[r] EXCEPT !.status = status].status = status
               /\ [jobs[r] EXCEPT !.status = status].late = jobs[r].late
    BY <1>2a, <1>1 DEF Job
  <1>3. ASSUME NEW r \in Rids, NEW status, NEW late \in BOOLEAN, jobs[r].status # "absent",
               status \in {"pending", "processing", "completed", "failed", "cancelled"}
        PROVE  /\ [jobs[r] EXCEPT !.status = status, !.late = late] \in Job
               /\ [jobs[r] EXCEPT !.status = status, !.late = late].status = status
               /\ [jobs[r] EXCEPT !.status = status, !.late = late].late = late
    BY <1>1, <1>3 DEF Job
  <1>4. ASSUME NEW k \in Slots, ServeSubmit(k) PROVE Goal
    <2> DEFINE rid == calls[k].rid
               j == [status |-> "pending", chan |-> calls[k].chan, text |-> calls[k].text, late |-> FALSE]
    <2>1. CASE jobs' = [jobs EXCEPT ![rid] = j] /\ jobs[rid].status = "absent" /\ rid \in Rids
      <3>1. j \in Job
        BY CallIsFields DEF PageTypeOK, CallFields, Job
      <3>2. calls[k].kind = "submit" /\ calls[k].rid = rid
        BY <1>4 DEF ServeSubmit, Served
      <3>3. j.status = "pending" /\ j.late = FALSE /\ jobs[rid].late = FALSE
        BY <1>1, <2>1 DEF Job
      <3> HIDE DEF rid, j
      <3> QED
        BY <2>1, <3>1, <3>2, <3>3 DEF RowBecomes
    <2>2. jobs' = jobs \/ (jobs' = [jobs EXCEPT ![rid] = j] /\ jobs[rid].status = "absent")
      BY <1>4 DEF ServeSubmit
    <2> HIDE DEF rid, j
    <2> QED
      BY <1>2, <2>1, <2>2
  <1>5. ASSUME NEW k \in Slots, ServeJobAction(k) PROVE Goal
    <2> DEFINE rid == calls[k].rid
               status == IF calls[k].act = "retry" THEN "pending" ELSE "cancelled"
               j == [jobs[rid] EXCEPT !.status = status]
    <2>1. jobs' = jobs \/ (jobs' = [jobs EXCEPT ![rid].status = status] /\ Actionable(jobs[rid]))
      BY <1>5 DEF ServeJobAction
    <2>2. CASE jobs' = [jobs EXCEPT ![rid].status = status] /\ Actionable(jobs[rid]) /\ rid \in Rids
      <3>1. jobs' = [jobs EXCEPT ![rid] = j]
        BY <1>1, <2>2
      <3>2. status \in {"pending", "cancelled"} /\ jobs[rid].status \in {"pending", "failed"}
        BY <2>2 DEF Actionable
      <3> HIDE DEF rid, status
      <3>3. /\ jobs[rid].status # "absent" /\ rid \in Rids
            /\ status \in {"pending", "processing", "completed", "failed", "cancelled"}
        BY <2>2, <3>2
      <3>4. j \in Job /\ j.status = status /\ j.late = jobs[rid].late
        BY <1>2a, <3>3, Zenon
      <3> HIDE DEF j
      <3> QED
        BY <2>2, <3>1, <3>2, <3>4 DEF RowBecomes
    <2>3. CASE jobs' = [jobs EXCEPT ![rid].status = status] /\ rid \notin Rids
      BY <1>1, <2>3
    <2> HIDE DEF rid, status
    <2> QED
      BY <2>1, <2>2, <2>3
  <1>6. ASSUME NEW r \in Rids, Claim(r) PROVE Goal
    <2> DEFINE j == [jobs[r] EXCEPT !.status = "processing", !.late = FALSE]
    <2>1. jobs' = [jobs EXCEPT ![r] = j] /\ jobs[r].status = "pending"
      BY <1>6 DEF Claim, JobGoes
    <2>2. j \in Job /\ j.status = "processing" /\ ~j.late
      BY <1>3, <2>1
    <2> HIDE DEF j
    <2> QED
      BY <2>1, <2>2 DEF RowBecomes
  <1>7. ASSUME NEW r \in Rids, Settle(r) PROVE Goal
    <2>1. jobs[r].status = "processing"
      BY <1>7 DEF Settle
    <2>2. ASSUME NEW status \in {"completed", "failed", "pending"}, JobGoes(r, [jobs[r] EXCEPT !.status = status])
          PROVE  Goal
      <3> DEFINE j == [jobs[r] EXCEPT !.status = status]
      <3>1. j \in Job /\ j.status = status /\ j.late = jobs[r].late /\ jobs' = [jobs EXCEPT ![r] = j]
        BY <1>2a, <2>1, <2>2 DEF JobGoes
      <3> HIDE DEF j
      <3> QED
        BY <2>1, <3>1 DEF RowBecomes
    <2>3. ASSUME NEW status \in {"completed", "failed"},
                 JobGoes(r, [jobs[r] EXCEPT !.status = status, !.late = TRUE])
          PROVE  Goal
      <3> DEFINE j == [jobs[r] EXCEPT !.status = status, !.late = TRUE]
      <3>1. j \in Job /\ j.status = status /\ j.late /\ jobs' = [jobs EXCEPT ![r] = j]
        BY <1>3, <2>1, <2>3 DEF JobGoes
      <3> HIDE DEF j
      <3> QED
        BY <2>1, <3>1 DEF RowBecomes
    <2> HIDE DEF Goal
    <2> QED
      BY <1>7, <2>2, <2>3 DEF Settle
  <1>8. ASSUME NEW r \in Rids, SettleLate(r) PROVE Goal
    <2> DEFINE Settled == IF jobs[r].status = "completed" THEN {"pending", "failed"} ELSE {"completed", "failed"}
    <2>1. jobs[r].status # "absent" /\ jobs[r].late
      BY <1>1, <1>8 DEF SettleLate, Job
    <2>2. PICK status \in Settled : JobGoes(r, [jobs[r] EXCEPT !.status = status, !.late = FALSE])
      BY <1>8 DEF SettleLate
    <2> DEFINE j == [jobs[r] EXCEPT !.status = status, !.late = FALSE]
    <2>3. j \in Job /\ jobs' = [jobs EXCEPT ![r] = j] /\ j.status = status /\ ~j.late
      BY <1>3, <2>1, <2>2 DEF JobGoes
    <2> HIDE DEF j
    <2> QED
      BY <2>1, <2>2, <2>3 DEF RowBecomes
  <1>9. \/ \E k \in Slots : ServeSubmit(k) \/ ServeJobAction(k)
        \/ \E r \in Rids : Claim(r) \/ Settle(r) \/ SettleLate(r)
        \/ jobs' = jobs
    BY DEF PageNext, UserStep, Connect, Refresh, RefreshJobs, AskQuestion, SaveReview, SendFeedback,
       Submit, Press, ChooseChannel, Open, RowAction, Navigate, Reload, ServerUnchanged,
       Serve, ServeList, ServeDetail, ServeJobs, ServeReview, ServeFeedback, Lose, Resume,
       Connected, Listed, Answering, Opened, Reviewed, Accepted, JobsListed, JobChanged,
       OtherReview, pageVars
  <1> HIDE DEF Goal
  <1>10. Goal
    BY <1>4, <1>5, <1>6, <1>7, <1>8, <1>9 DEF Goal
  <1> QED
    BY <1>10 DEF Goal

\* The jobs after a step: a row appears only by a submission with its id, and a
\* cancelled job is not put back in the queue.
LEMMA JobsStep ==
  ASSUME Configured, PageTypeOK, [PageNext]_pageVars
  PROVE  /\ jobs' \in [Rids -> Job]
         /\ \A r \in Rids : jobs[r].status = "cancelled" => jobs'[r].status \notin {"pending", "processing"}
         /\ \A r \in Rids : jobs'[r].status # "absent" =>
              \/ jobs[r].status # "absent"
              \/ \E k \in Slots : calls[k].kind = "submit" /\ calls[k].rid = r
  <1>1. jobs \in [Rids -> Job]
    BY DEF PageTypeOK
  <1>2. CASE jobs' = jobs
    BY <1>1, <1>2
  <1>3. ASSUME NEW r \in Rids, NEW j \in Job, jobs' = [jobs EXCEPT ![r] = j], RowBecomes(r, j)
        PROVE  /\ jobs' \in [Rids -> Job]
               /\ \A s \in Rids : jobs'[s] = IF s = r THEN j ELSE jobs[s]
    BY <1>1, <1>3
  <1>4. ASSUME NEW r \in Rids, NEW j \in Job, RowBecomes(r, j)
        PROVE  /\ jobs[r].status = "cancelled" => j.status \notin {"pending", "processing"}
               /\ jobs[r].status = "absent" => \E k \in Slots : calls[k].kind = "submit" /\ calls[k].rid = r
    <2>1. jobs[r].status = "absent" => ~jobs[r].late
      BY <1>1 DEF Job
    <2> QED
      BY <1>4, <2>1 DEF RowBecomes
  <1> QED
    BY <1>2, <1>3, <1>4, JobsMove

\* A review as the API records it, and how it relates to the revisions.
ReviewEvent == [doc : Documents, chan : SomeChannel, asked : Nat, replaced : Nat]

\* Revisions only grow; a new review event replaces the revision that was there,
\* which is the one it asked for, in the channel of its document.
LEMMA ReviewStep ==
  ASSUME Configured, PageTypeOK, [PageNext]_pageVars
  PROVE  /\ rev' \in [Documents -> Nat] /\ \A d \in Documents : rev[d] <= rev'[d]
         /\ \/ reviews' = reviews
            \/ \E x \in ReviewEvent :
                 /\ reviews' = reviews \cup {x}
                 /\ ChannelOf[x.doc] = x.chan /\ RoleIn[x.chan] = "admin" /\ x.asked = x.replaced
                 /\ x.replaced = rev[x.doc] /\ rev'[x.doc] = rev[x.doc] + 1
         /\ \/ feedback' = feedback
            \/ \E x \in [doc : Documents, chan : SomeChannel] :
                 feedback' = feedback \cup {x} /\ ChannelOf[x.doc] = x.chan
  <1>1. rev \in [Documents -> Nat]
    BY DEF PageTypeOK
  <1>2. ASSUME NEW d \in Documents, rev' = [rev EXCEPT ![d] = rev[d] + 1]
        PROVE  /\ rev' \in [Documents -> Nat] /\ rev'[d] = rev[d] + 1
               /\ \A c \in Documents : rev[c] <= rev'[c]
    <2> DEFINE n == rev[d] + 1
    <2>1. n \in Nat /\ rev[d] <= n
      BY <1>1
    <2>2. \A c \in Documents : rev'[c] = IF c = d THEN n ELSE rev[c]
      BY <1>1, <1>2
    <2>3. rev' \in [Documents -> Nat]
      BY <1>1, <1>2, <2>1
    <2> HIDE DEF n
    <2>4. \A c \in Documents : rev[c] <= rev'[c]
      BY <1>1, <2>1, <2>2
    <2> QED
      BY <2>2, <2>3, <2>4 DEF n
  <1>3. ASSUME NEW k \in Slots PROVE calls[k] \in CallFields /\ (calls[k].kind \in DocRequests => calls[k].doc \in Documents)
    BY CallIsFields DEF PageTypeOK
  <1>4. ASSUME rev' = rev PROVE rev' \in [Documents -> Nat] /\ \A d \in Documents : rev[d] <= rev'[d]
    BY <1>1, <1>4
  <1>5. ASSUME NEW k \in Slots, ServeReview(k), Found(calls[k]), RoleIn[calls[k].chan] = "admin",
               AsShown(calls[k]), rev' = [rev EXCEPT ![calls[k].doc] = rev[calls[k].doc] + 1],
               reviews' = reviews \cup {[doc |-> calls[k].doc, chan |-> calls[k].chan,
                                         asked |-> calls[k].rev, replaced |-> rev[calls[k].doc]]}
        PROVE  /\ rev' \in [Documents -> Nat] /\ \A d \in Documents : rev[d] <= rev'[d]
               /\ \E x \in ReviewEvent :
                    /\ reviews' = reviews \cup {x}
                    /\ ChannelOf[x.doc] = x.chan /\ RoleIn[x.chan] = "admin" /\ x.asked = x.replaced
                    /\ x.replaced = rev[x.doc] /\ rev'[x.doc] = rev[x.doc] + 1
    <2> DEFINE x == [doc |-> calls[k].doc, chan |-> calls[k].chan, asked |-> calls[k].rev,
                     replaced |-> rev[calls[k].doc]]
    <2>1. calls[k].doc \in Documents /\ calls[k].chan \in SomeChannel /\ calls[k].rev \in Nat
      BY <1>3, <1>5 DEF ServeReview, Served, DocRequests, CallFields
    <2>2. x \in ReviewEvent
      BY <1>1, <2>1 DEF ReviewEvent
    <2>3. /\ ChannelOf[x.doc] = x.chan /\ RoleIn[x.chan] = "admin" /\ x.asked = x.replaced
          /\ x.replaced = rev[x.doc] /\ x.doc = calls[k].doc
      BY <1>5 DEF Found, AsShown
    <2>4. reviews' = reviews \cup {x}
      BY <1>5
    <2> HIDE DEF x
    <2>5. rev' = [rev EXCEPT ![x.doc] = rev[x.doc] + 1] /\ x.doc \in Documents
      BY <1>5, <2>1, <2>3
    <2>6. /\ rev' \in [Documents -> Nat] /\ rev'[x.doc] = rev[x.doc] + 1
          /\ \A c \in Documents : rev[c] <= rev'[c]
      BY <1>2, <2>5
    <2> QED
      BY <2>2, <2>3, <2>4, <2>6
  <1>6. CASE \E k \in Slots : ServeReview(k)
    <2>1. PICK k \in Slots : ServeReview(k)
      BY <1>6
    <2>2. feedback' = feedback
      BY <2>1 DEF ServeReview
    <2>3. CASE rev' = rev /\ reviews' = reviews
      BY <1>4, <2>2, <2>3
    <2>4. CASE /\ Found(calls[k]) /\ RoleIn[calls[k].chan] = "admin" /\ AsShown(calls[k])
               /\ rev' = [rev EXCEPT ![calls[k].doc] = rev[calls[k].doc] + 1]
               /\ reviews' = reviews \cup {[doc |-> calls[k].doc, chan |-> calls[k].chan,
                                            asked |-> calls[k].rev, replaced |-> rev[calls[k].doc]]}
      BY <1>5, <2>1, <2>2, <2>4
    <2> QED
      BY <2>1, <2>3, <2>4 DEF ServeReview
  <1>7. CASE \E k \in Slots : ServeFeedback(k)
    <2>1. PICK k \in Slots : ServeFeedback(k)
      BY <1>7
    <2>2. rev' = rev /\ reviews' = reviews
      BY <2>1 DEF ServeFeedback
    <2>3. CASE Found(calls[k])
      <3> DEFINE x == [doc |-> calls[k].doc, chan |-> calls[k].chan]
      <3>1. calls[k].doc \in Documents /\ calls[k].chan \in SomeChannel
        BY <1>3, <2>1 DEF ServeFeedback, Served, DocRequests, CallFields
      <3>2. x \in [doc : Documents, chan : SomeChannel] /\ ChannelOf[x.doc] = x.chan
        BY <2>3, <3>1 DEF Found
      <3>3. feedback' = feedback \cup {x}
        BY <2>1, <2>3 DEF ServeFeedback
      <3> HIDE DEF x
      <3> QED
        BY <1>4, <2>2, <3>2, <3>3
    <2>4. CASE ~Found(calls[k])
      <3>1. feedback' = feedback
        BY <2>1, <2>4 DEF ServeFeedback
      <3> QED
        BY <1>4, <2>2, <3>1
    <2> QED
      BY <2>3, <2>4
  <1>8. CASE \E d \in Documents : OtherReview(d)
    <2>1. PICK d \in Documents : OtherReview(d)
      BY <1>8
    <2>2. rev' = [rev EXCEPT ![d] = rev[d] + 1] /\ reviews' = reviews /\ feedback' = feedback
      BY <2>1 DEF OtherReview
    <2>3. rev' \in [Documents -> Nat] /\ \A c \in Documents : rev[c] <= rev'[c]
      BY <1>2, <2>2
    <2> QED
      BY <2>2, <2>3
  <1>9. CASE /\ ~\E k \in Slots : ServeReview(k) \/ ServeFeedback(k)
             /\ ~\E d \in Documents : OtherReview(d)
    <2>1. rev' = rev /\ reviews' = reviews /\ feedback' = feedback
      BY <1>9 DEF PageNext, UserStep, Connect, Refresh, RefreshJobs, AskQuestion, SaveReview, SendFeedback,
         Submit, Press, ChooseChannel, Open, RowAction, Navigate, Reload, ServerUnchanged,
         Serve, ServeList, ServeDetail, ServeJobs, ServeSubmit, ServeJobAction, Lose,
         Resume, Connected, Listed, Answering, Opened, Reviewed, Accepted, JobsListed,
         JobChanged, JobGoes, Claim, Settle, SettleLate, pageVars
    <2> QED
      BY <1>4, <2>1
  <1> QED
    BY <1>6, <1>7, <1>8, <1>9

\* An id is acknowledged when the page is told of an acceptance.
LEMMA AckedStep ==
  ASSUME [PageNext]_pageVars
  PROVE  \/ acked' = acked /\ \A k \in Slots : ~Accepted(k)
         \/ \E k \in Slots : Accepted(k) /\ acked' = acked \cup {calls[k].rid}
  <1>1. CASE \E k \in Slots : Accepted(k)
    BY <1>1 DEF Accepted
  <1>2. CASE \A k \in Slots : ~Accepted(k)
    BY <1>2 DEF PageNext, UserStep, Connect, Refresh, RefreshJobs, AskQuestion, SaveReview, SendFeedback,
       Submit, Press, ChooseChannel, Open, RowAction, Navigate, Reload, ServerUnchanged,
       Serve, ServeList, ServeDetail, ServeJobs, ServeReview, ServeFeedback, ServeSubmit,
       ServeJobAction, Lose, Resume, Connected, Listed, Answering, Opened, Reviewed,
       JobsListed, JobChanged, OtherReview, JobGoes, Claim, Settle, SettleLate, pageVars
  <1> QED
    BY <1>1, <1>2

LEMMA PageInitTyped == Configured /\ PageInit => PageTypeOK
  <1> SUFFICES ASSUME Configured, PageInit PROVE PageTypeOK
    OBVIOUS
  <1>1. page \in Page
    BY LoadedType DEF PageInit
  <1>2. calls \in [Slots -> Call]
    BY NoCallType DEF PageInit
  <1>3. jobs \in [Rids -> Job]
    BY DEF PageInit, NoJob, Job, SomeChannel
  <1>4. spent \in [clicks : 0..MaxClicks, others : [Documents -> 0..MaxReviews], runs : 0..MaxRuns,
                   reloads : 0..MaxReloads, troubles : 0..MaxPageTroubles]
    <2> DEFINE m == [d \in Documents |-> 0]
    <2>1. /\ m \in [Documents -> 0..MaxReviews] /\ 0 \in 0..MaxClicks /\ 0 \in 0..MaxRuns /\ 0 \in 0..MaxReloads
          /\ 0 \in 0..MaxPageTroubles
      BY DEF Configured
    <2>2. spent = [clicks |-> 0, others |-> m, runs |-> 0, reloads |-> 0, troubles |-> 0]
      BY DEF PageInit
    <2> HIDE DEF m
    <2> QED
      BY <2>1, <2>2
  <1> QED
    BY <1>1, <1>2, <1>3, <1>4 DEF PageInit, PageTypeOK

LEMMA PageTypes == Configured /\ PageTypeOK /\ [PageNext]_pageVars => PageTypeOK'
  <1> SUFFICES ASSUME Configured, PageTypeOK, [PageNext]_pageVars PROVE PageTypeOK'
    OBVIOUS
  <1>1. page' \in Page /\ calls' \in [Slots -> Call] /\ jobs' \in [Rids -> Job]
    BY PageStep, CallsStep, JobsStep
  <1>2. spent' \in [clicks : 0..MaxClicks, others : [Documents -> 0..MaxReviews], runs : 0..MaxRuns,
                    reloads : 0..MaxReloads, troubles : 0..MaxPageTroubles]
    BY SpentStep
  <1>3. /\ rev' \in [Documents -> Nat]
        /\ reviews' \subseteq [doc : Documents, chan : SomeChannel, asked : Nat, replaced : Nat]
        /\ feedback' \subseteq [doc : Documents, chan : SomeChannel]
    BY ReviewStep DEF ReviewEvent, PageTypeOK
  <1>4. acked' \subseteq Nat
    <2>1. \A k \in Slots : {calls[k].rid} \subseteq Nat
      BY CallIsFields DEF CallFields, PageTypeOK
    <2>2. acked \subseteq Nat
      BY DEF PageTypeOK
    <2>3. CASE acked' = acked
      BY <2>2, <2>3
    <2>4. ASSUME NEW k \in Slots, acked' = acked \cup {calls[k].rid} PROVE acked' \subseteq Nat
      BY <2>1, <2>2, <2>4
    <2> QED
      BY <2>3, <2>4, AckedStep
  <1> QED
    BY <1>1, <1>2, <1>3, <1>4 DEF PageTypeOK

\* The page, its chains, the rows of the jobs and the events of the reviews keep
\* their types, and the bounded counters their bounds, for any channels, roles,
\* documents and number of chains.
THEOREM PageTypeCorrect == PageSpec => []PageTypeOK
  <1>1. PageInit => PageTypeOK
    BY PageInitTyped, ConfiguredAssumption
  <1>2. PageTypeOK /\ [PageNext]_pageVars => PageTypeOK'
    BY PageTypes, ConfiguredAssumption
  <1> QED
    BY <1>1, <1>2, PTL DEF PageSpec

\* A cancelled job is never put back in the queue, whatever the page listed and
\* however late a retry is served or a worker reports.
THEOREM CancelledJobsStay == PageSpec => CancelledStays
  <1>1. PageTypeOK /\ [PageNext]_pageVars =>
          [\A r \in Rids : jobs[r].status = "cancelled" =>
             jobs'[r].status \notin {"pending", "processing"}]_pageVars
    BY JobsStep, ConfiguredAssumption
  <1> QED
    BY <1>1, PageTypeCorrect, PTL DEF PageSpec, CancelledStays

\* The jobs of the page go through the statuses that JobLifecycle allows, as the
\* rows of IngestionJobs do, whatever chains of requests overlap.
THEOREM PageImplementsLifecycle == PageSpec => PageLifecycleKept
  <1> DEFINE Late == {r \in Rids : jobs[r].late}
             StatusOf == [r \in Rids |-> jobs[r].status]
  <1>1. PageInit => Lifecycle!Init
    BY DEF PageInit, Lifecycle!Init, NoJob
  <1>2. PageTypeOK /\ [PageNext]_pageVars => [Lifecycle!Next]_(Lifecycle!vars)
    <2> SUFFICES ASSUME PageTypeOK, [PageNext]_pageVars PROVE [Lifecycle!Next]_(Lifecycle!vars)
      OBVIOUS
    <2>1. CASE jobs' = jobs
      BY <2>1 DEF Lifecycle!vars
    <2>2. ASSUME NEW r \in Rids, NEW j \in Job, jobs' = [jobs EXCEPT ![r] = j], RowBecomes(r, j)
          PROVE  Lifecycle!Next
      <3>1. jobs \in [Rids -> Job] /\ \A s \in Rids : jobs'[s] = IF s = r THEN j ELSE jobs[s]
        BY <2>2 DEF PageTypeOK
      <3>2. StatusOf' = [StatusOf EXCEPT ![r] = j.status] /\ StatusOf[r] = jobs[r].status
        BY <3>1
      <3>3. jobs[r].late \in BOOLEAN /\ j.late \in BOOLEAN
        BY <3>1 DEF Job
      <3>4. /\ r \in Late <=> jobs[r].late
            /\ j.late => Late' = Late \cup {r}
            /\ ~j.late => Late' = Late \ {r}
            /\ j.late = jobs[r].late => Late' = Late
        BY <3>1
      <3>5. CASE jobs[r].status = "absent" /\ j.status = "pending" /\ j.late = jobs[r].late
        BY <3>2, <3>4, <3>5 DEF Lifecycle!Next, Lifecycle!Submit, Lifecycle!Becomes
      <3>6. CASE /\ jobs[r].status \in {"pending", "failed"} /\ j.status \in {"pending", "cancelled"}
                 /\ j.late = jobs[r].late
        BY <3>2, <3>4, <3>6 DEF Lifecycle!Next, Lifecycle!RetryOrCancel, Lifecycle!Becomes
      <3>7. CASE jobs[r].status = "pending" /\ j.status = "processing" /\ ~j.late
        BY <3>2, <3>4, <3>7 DEF Lifecycle!Next, Lifecycle!Claim, Lifecycle!Becomes
      <3>8. CASE /\ jobs[r].status = "processing" /\ j.status \in {"completed", "failed", "pending"}
                 /\ j.late = jobs[r].late
        BY <3>2, <3>4, <3>8 DEF Lifecycle!Next, Lifecycle!Settle, Lifecycle!Becomes
      <3>9. CASE jobs[r].status = "processing" /\ j.status = "completed" /\ j.late
        BY <3>2, <3>4, <3>9 DEF Lifecycle!Next, Lifecycle!Settle, Lifecycle!Becomes
      <3>10. CASE jobs[r].status = "processing" /\ j.status = "failed" /\ j.late
        <4>1. Lifecycle!GiveUp({r})
          <5>1. StatusOf' = [s \in Rids |-> IF s \in {r} THEN "failed" ELSE StatusOf[s]]
            BY <3>1, <3>10
          <5>2. \E T \in SUBSET {r} : Late' = Late \cup T
            BY <3>4, <3>10
          <5> QED
            BY <3>10, <5>1, <5>2 DEF Lifecycle!GiveUp
        <4> QED
          BY <4>1 DEF Lifecycle!Next
      <3>11. CASE /\ jobs[r].late /\ ~j.late
                  /\ j.status \in (IF jobs[r].status = "completed" THEN {"pending", "failed"}
                                   ELSE {"completed", "failed"})
        <4>1. Lifecycle!SettleLate(r)
          BY <3>2, <3>4, <3>11 DEF Lifecycle!SettleLate, Lifecycle!Becomes
        <4> QED
          BY <4>1 DEF Lifecycle!Next
      <3> QED
        BY <2>2, <3>5, <3>6, <3>7, <3>8, <3>9, <3>10, <3>11 DEF RowBecomes
    <2> QED
      BY <2>1, <2>2, JobsMove, ConfiguredAssumption
  <1> QED
    BY <1>1, <1>2, PageTypeCorrect, PTL DEF PageSpec, PageLifecycleKept, Lifecycle!Spec

-----------------------------------------------------------------------------
(***************************************************************************)
(* Reviews in scope: a review asks for the revision it replaces, and       *)
(* leaves it behind for good, because revisions only grow.                 *)
(***************************************************************************)
ReviewsPast == \A x \in reviews : x.replaced < rev[x.doc]

ScopeInv == PageTypeOK /\ ReviewsInScope /\ ReviewsPast

LEMMA ScopeStep == Configured /\ ScopeInv /\ [PageNext]_pageVars => ScopeInv'
  <1> SUFFICES ASSUME Configured, ScopeInv, [PageNext]_pageVars PROVE ScopeInv'
    OBVIOUS
  <1>0. PageTypeOK /\ PageTypeOK'
    BY PageTypes DEF ScopeInv
  <1>1. ASSUME NEW x \in reviews
        PROVE  /\ x.doc \in Documents /\ x.replaced \in Nat /\ x.replaced < rev[x.doc]
               /\ ChannelOf[x.doc] = x.chan /\ RoleIn[x.chan] = "admin" /\ x.asked = x.replaced
    BY DEF ScopeInv, ReviewsPast, PageTypeOK, ReviewsInScope
  <1>2. rev \in [Documents -> Nat] /\ rev' \in [Documents -> Nat] /\ \A d \in Documents : rev[d] <= rev'[d]
    BY <1>0, ReviewStep DEF PageTypeOK
  <1>3. \A x \in feedback' : ChannelOf[x.doc] = x.chan
    BY <1>0, ReviewStep DEF ScopeInv, ReviewsInScope
  <1>4. \A x \in reviews : x.replaced < rev'[x.doc]
    BY <1>1, <1>2
  <1>5. CASE reviews' = reviews
    BY <1>0, <1>3, <1>4, <1>5 DEF ScopeInv, ReviewsPast, ReviewsInScope
  <1>6. ASSUME NEW x \in ReviewEvent, reviews' = reviews \cup {x},
               ChannelOf[x.doc] = x.chan, RoleIn[x.chan] = "admin", x.asked = x.replaced,
               x.replaced = rev[x.doc], rev'[x.doc] = rev[x.doc] + 1
        PROVE  ScopeInv'
    <2>1. x.doc \in Documents
      BY DEF ReviewEvent
    <2>2. x.replaced < rev'[x.doc]
      BY <1>2, <1>6, <2>1
    <2>3. \A y \in reviews : ~(x.doc = y.doc /\ x.replaced = y.replaced)
      BY <1>1, <1>2, <1>6
    <2>4. \A y, z \in reviews : y.doc = z.doc /\ y.replaced = z.replaced => y = z
      BY DEF ScopeInv, ReviewsInScope
    <2>5. ReviewsPast'
      BY <1>4, <1>6, <2>2 DEF ReviewsPast
    <2>6. \A y, z \in reviews' : y.doc = z.doc /\ y.replaced = z.replaced => y = z
      BY <1>6, <2>3, <2>4
    <2>7. \A y \in reviews' : ChannelOf[y.doc] = y.chan /\ RoleIn[y.chan] = "admin" /\ y.asked = y.replaced
      BY <1>1, <1>6
    <2> QED
      BY <1>0, <1>3, <2>5, <2>6, <2>7 DEF ScopeInv, ReviewsInScope
  <1> QED
    BY <1>0, <1>5, <1>6, ReviewStep

\* A review takes effect in the channel of its document only, where the user is
\* an admin, on the revision the page showed, and on no revision twice.
THEOREM ReviewsStayInScope == PageSpec => []ReviewsInScope
  <1>1. PageInit => ScopeInv
    BY PageInitTyped, ConfiguredAssumption DEF PageInit, ScopeInv, ReviewsInScope, ReviewsPast
  <1>2. ScopeInv /\ [PageNext]_pageVars => ScopeInv'
    BY ScopeStep, ConfiguredAssumption
  <1>3. ScopeInv => ReviewsInScope
    BY DEF ScopeInv
  <1> QED
    BY <1>1, <1>2, <1>3, PTL DEF PageSpec

-----------------------------------------------------------------------------
(***************************************************************************)
(* One job the page was not told of: the button admits one submission at a *)
(* time, so the answer it gets is to the id the page has (OneSubmission);  *)
(* every job has an id up to that one, and an id that was left behind is   *)
(* acknowledged, or the page was loaded again (SkippedByReload).           *)
(***************************************************************************)
OfSubmit(c) == c.button = "submit" /\ c.step # "orphan"

OneSubmission ==
  /\ \A k, l \in Slots : OfSubmit(calls[k]) /\ OfSubmit(calls[l]) => k = l
  /\ \A k \in Slots :
       /\ calls[k].kind = "submit" => calls[k].rid <= page.submissionId
       /\ calls[k].kind = "submit" /\ calls[k].step \in {"sent", "ok"} =>
            OfSubmit(calls[k]) /\ calls[k].rid = page.submissionId
            /\ page.submissionId < spent.clicks + spent.reloads

\* There is a row for every id: the page has not used up its ids.
IdsSuffice ==
  /\ page.submissionId <= spent.clicks + spent.reloads
  /\ \A k \in Slots : calls[k].rid \in Rids

JobsNumbered == \A r \in Rids : jobs[r].status # "absent" => r <= page.submissionId

Skipped(id, told) == {r \in 0..id : r < id /\ r \notin told}

SkippedByReload == Cardinality(Skipped(page.submissionId, acked)) <= spent.reloads

UnackedInv == PageTypeOK /\ OneSubmission /\ IdsSuffice /\ JobsNumbered /\ SkippedByReload

LEMMA SkippedFinite ==
  ASSUME NEW id \in Nat, NEW told
  PROVE  IsFiniteSet(Skipped(id, told)) /\ Cardinality(Skipped(id, told)) \in Nat
  <1>1. IsFiniteSet(0..id)
    BY FS_Interval
  <1>2. IsFiniteSet(Skipped(id, told))
    BY <1>1, FS_Subset DEF Skipped
  <1> QED
    BY <1>2, FS_CardinalityType

\* One more element makes a set larger by one at most.
LEMMA OneMore ==
  ASSUME NEW S, IsFiniteSet(S), NEW x
  PROVE  IsFiniteSet(S \cup {x}) /\ Cardinality(S \cup {x}) <= Cardinality(S) + 1
  <1>1. /\ IsFiniteSet(S \cup {x})
        /\ Cardinality(S \cup {x}) = IF x \in S THEN Cardinality(S) ELSE Cardinality(S) + 1
    BY FS_AddElement, Zenon
  <1>2. Cardinality(S) \in Nat
    BY FS_CardinalityType
  <1> QED
    BY <1>1, <1>2

\* The jobs the page was not told of have the id it has, or one it left behind.
LEMMA UnackedInvImplies == Configured /\ UnackedInv => OneUnackedJob
  <1> SUFFICES ASSUME Configured, UnackedInv PROVE OneUnackedJob
    OBVIOUS
  <1> DEFINE id == page.submissionId
             S == Skipped(id, acked)
             U == {r \in Rids : jobs[r].status # "absent" /\ r \notin acked}
  <1>1. id \in Nat /\ spent.reloads \in Nat
    BY PageIsFields DEF UnackedInv, PageTypeOK, PageFields
  <1>2. IsFiniteSet(S) /\ Cardinality(S) \in Nat /\ Cardinality(S) <= spent.reloads
    BY <1>1, SkippedFinite DEF UnackedInv, SkippedByReload
  <1>3. U \subseteq S \cup {id}
    BY <1>1 DEF UnackedInv, JobsNumbered, Skipped, Rids
  <1> HIDE DEF S, U, id
  <1>4. IsFiniteSet(S \cup {id}) /\ Cardinality(S \cup {id}) <= Cardinality(S) + 1
    BY <1>2, OneMore, Zenon
  <1>5. IsFiniteSet(U) /\ Cardinality(U) <= Cardinality(S \cup {id})
    BY <1>3, <1>4, FS_Subset
  <1>6. Cardinality(U) \in Nat /\ Cardinality(S \cup {id}) \in Nat
    BY <1>4, <1>5, FS_CardinalityType
  <1>7. Cardinality(U) <= 1 + spent.reloads
    BY <1>1, <1>2, <1>4, <1>5, <1>6
  <1> QED
    BY <1>7 DEF OneUnackedJob, U

LEMMA UnackedInit == Configured /\ PageInit => UnackedInv
  <1> SUFFICES ASSUME Configured, PageInit PROVE UnackedInv
    OBVIOUS
  <1>1. PageTypeOK
    BY PageInitTyped, ConfiguredAssumption
  <1>2. page.submissionId = 0 /\ spent.clicks = 0 /\ spent.reloads = 0
    BY LoadedType DEF PageInit
  <1>3. \A k \in Slots : calls[k] = NoCall
    BY DEF PageInit
  <1>4. 0 \in Rids
    BY DEF Rids, Configured
  <1>5. OneSubmission /\ IdsSuffice
    BY <1>2, <1>3, <1>4, NoCallType DEF OneSubmission, OfSubmit, IdsSuffice
  <1>6. JobsNumbered
    BY DEF PageInit, NoJob, JobsNumbered
  <1>7. Skipped(0, acked) = {}
    BY DEF Skipped
  <1>8. SkippedByReload
    BY <1>2, <1>7, FS_EmptySet DEF SkippedByReload
  <1> QED
    BY <1>1, <1>5, <1>6, <1>8 DEF UnackedInv

\* What the invariant says of the numbers of a step.
LEMMA UnackedNumbers ==
  ASSUME Configured, UnackedInv, [PageNext]_pageVars
  PROVE  /\ page.submissionId \in Nat /\ page'.submissionId \in Nat
         /\ spent.clicks \in Nat /\ spent'.clicks \in Nat /\ spent.reloads \in Nat /\ spent'.reloads \in Nat
         /\ spent'.clicks <= MaxClicks /\ spent'.reloads <= MaxReloads
         /\ MaxClicks \in Nat /\ MaxReloads \in Nat
         /\ spent'.reloads = IF Reload THEN spent.reloads + 1 ELSE spent.reloads
         /\ spent'.clicks = IF Clicks THEN spent.clicks + 1 ELSE spent.clicks
  <1>1. PageTypeOK /\ PageTypeOK'
    BY PageTypes DEF UnackedInv
  <1>2. page.submissionId \in Nat /\ page'.submissionId \in Nat
    BY <1>1, PageStep, PageIsFields DEF PageTypeOK, PageFields
  <1>3. MaxClicks \in Nat /\ MaxReloads \in Nat
    BY DEF Configured
  <1>4. /\ spent.clicks \in 0..MaxClicks /\ spent.reloads \in 0..MaxReloads
        /\ spent'.clicks \in 0..MaxClicks /\ spent'.reloads \in 0..MaxReloads
    BY <1>1 DEF PageTypeOK
  <1> QED
    BY <1>1, <1>2, <1>3, <1>4, SpentStep

\* A step that neither loads the page again nor starts or settles a submission
\* keeps the page's id; a chain that goes on stays the only one of its button.
LEMMA SubmissionStep ==
  ASSUME Configured, UnackedInv, [PageNext]_pageVars
  PROVE  OneSubmission' /\ IdsSuffice'
  <1> DEFINE id == page.submissionId
  <1>1. PageTypeOK
    BY DEF UnackedInv
  <1>2. /\ id \in Nat /\ page'.submissionId \in Nat
        /\ spent.clicks \in Nat /\ spent'.clicks \in Nat /\ spent.reloads \in Nat /\ spent'.reloads \in Nat
        /\ spent'.clicks <= MaxClicks /\ spent'.reloads <= MaxReloads
        /\ MaxClicks \in Nat /\ MaxReloads \in Nat
        /\ spent.clicks <= spent'.clicks /\ spent.reloads <= spent'.reloads
    BY UnackedNumbers
  <1>3. /\ \A k, l \in Slots : OfSubmit(calls[k]) /\ OfSubmit(calls[l]) => k = l
        /\ \A k \in Slots :
             /\ calls[k].kind = "submit" => calls[k].rid <= id
             /\ calls[k].kind = "submit" /\ calls[k].step \in {"sent", "ok"} =>
                  OfSubmit(calls[k]) /\ calls[k].rid = id /\ id < spent.clicks + spent.reloads
             /\ calls[k].rid \in Rids
        /\ id <= spent.clicks + spent.reloads
    BY DEF UnackedInv, OneSubmission, IdsSuffice
  <1>4. \A k \in Slots : calls[k] \in Call /\ calls[k].rid \in Nat
    BY <1>1, CallIsFields DEF PageTypeOK, CallFields
  <1>5. 0 \in Rids /\ Rids = 0..(MaxClicks + MaxReloads)
    BY <1>2 DEF Rids
  <1>6. CASE calls' = calls
    <2>1. ASSUME NEW k \in Slots PROVE ~Accepted(k)
      <3>1. ASSUME Accepted(k) PROVE FALSE
        <4>1. calls[k].step = "ok" /\ calls[k].kind = "submit"
          BY <3>1 DEF Accepted, Answered
        <4>2. calls[k].button \in Buttons /\ page.channel \in SomeChannel
          BY <1>1, CallIsFields, PageIsFields DEF PageTypeOK, CallFields, PageFields
        <4>3. Request("jobs", calls[k].button, page.channel).step = "sent"
          BY <4>2, RequestCall DEF RequestKinds
        <4>4. calls'[k] = Request("jobs", calls[k].button, page.channel)
          BY <1>1, <3>1 DEF Accepted, Then, PageTypeOK
        <4> QED
          BY <1>6, <4>1, <4>3, <4>4
      <3> QED
        BY <3>1
    <2>2. page'.submissionId = id \/ Reload
      BY <1>1, <2>1, PageStep
    <2>3. CASE page'.submissionId = id
      BY <1>2, <1>3, <1>6, <2>3 DEF OneSubmission, IdsSuffice, OfSubmit
    <2>4. CASE Reload
      <3>1. \A k \in Slots : calls[k].step \notin {"sent", "ok"}
        <4>1. ASSUME NEW k \in Slots, calls[k].step \in {"sent", "ok"} PROVE FALSE
          <5>1. calls'[k].step \in {"orphan", "free"}
            <6>1. [calls[k] EXCEPT !.step = "orphan"].step = "orphan"
              BY <1>4, CallIsFields DEF CallFields
            <6> QED
              BY <2>4, <6>1, NoCallType DEF Reload
          <5> QED
            BY <1>6, <4>1, <5>1
        <4> QED
          BY <4>1
      <3>2. page'.submissionId = id + 1 /\ spent'.reloads = spent.reloads + 1
        BY <1>2, <2>4, UnackedNumbers, LoadedType DEF Reload
      <3> QED
        BY <1>2, <1>3, <1>4, <1>6, <3>1, <3>2 DEF OneSubmission, IdsSuffice, OfSubmit
    <2> QED
      BY <2>2, <2>3, <2>4
  <1>7. ASSUME NEW k \in Slots, NEW c \in Call, calls' = [calls EXCEPT ![k] = c], Continues(c, calls[k]),
               ~Reload
        PROVE  OneSubmission' /\ IdsSuffice'
    <2>1. \A l \in Slots : calls'[l] = IF l = k THEN c ELSE calls[l]
      BY <1>1, <1>7 DEF PageTypeOK
    <2>2. OfSubmit(c) => OfSubmit(calls[k])
      BY <1>7, NoCallType DEF Continues, OfSubmit
    <2>3. \A l, m \in Slots : OfSubmit(calls'[l]) /\ OfSubmit(calls'[m]) => l = m
      BY <1>3, <2>1, <2>2
    <2>4. c.rid \in Rids
      BY <1>3, <1>5, <1>7, NoCallType DEF Continues
    <2>5. \A l \in Slots : calls'[l].rid \in Rids
      BY <1>3, <2>1, <2>4
    <2>6. c.kind = "submit" => /\ calls[k].kind = "submit" /\ c.rid = calls[k].rid
                               /\ calls[k].step \in {"sent", "ok"} /\ OfSubmit(c)
      BY <1>3, <1>7, NoCallType DEF Continues, OfSubmit
    <2>7. CASE page'.submissionId = id
      <3>1. ASSUME NEW l \in Slots
            PROVE  /\ calls'[l].kind = "submit" => calls'[l].rid <= id
                   /\ calls'[l].kind = "submit" /\ calls'[l].step \in {"sent", "ok"} =>
                        OfSubmit(calls'[l]) /\ calls'[l].rid = id /\ id < spent'.clicks + spent'.reloads
        BY <1>2, <1>3, <2>1, <2>6
      <3> QED
        BY <1>2, <1>3, <2>3, <2>5, <2>7, <3>1 DEF OneSubmission, IdsSuffice, OfSubmit
    <2>8. CASE page'.submissionId # id
      <3>1. PICK m \in Slots : Accepted(m)
        BY <1>1, <1>7, <2>8, PageStep
      <3>2. page'.submissionId = id + 1
        BY <1>1, <2>8, PageStep
      <3>3. calls[m].kind = "submit" /\ calls[m].step = "ok"
        BY <3>1 DEF Accepted, Answered
      <3>4. calls'[m].kind = "jobs"
        <4>1. calls[m].button \in Buttons /\ page.channel \in SomeChannel
          BY <1>1, CallIsFields, PageIsFields DEF PageTypeOK, CallFields, PageFields
        <4>2. Request("jobs", calls[m].button, page.channel).kind = "jobs"
          BY <4>1, RequestCall DEF RequestKinds
        <4> QED
          BY <1>1, <3>1, <4>2 DEF Accepted, Then, PageTypeOK
      <3>5. m = k
        BY <2>1, <3>3, <3>4
      <3>6. \A l \in Slots : calls'[l].kind = "submit" => calls'[l].step \notin {"sent", "ok"} /\ calls'[l].rid <= id
        BY <1>3, <2>1, <3>3, <3>4, <3>5
      <3>7. id < spent.clicks + spent.reloads
        BY <1>3, <3>3
      <3>8. \A l \in Slots : calls'[l].kind = "submit" => calls'[l].rid <= page'.submissionId
        BY <1>2, <1>5, <2>5, <3>2, <3>6
      <3> QED
        BY <1>2, <2>3, <2>5, <3>2, <3>6, <3>7, <3>8 DEF OneSubmission, IdsSuffice, OfSubmit
    <2> QED
      BY <2>7, <2>8
  <1>8. ASSUME NEW k \in Slots, NEW c \in Call, Clicks, calls[k].step = "free", calls' = [calls EXCEPT ![k] = c],
               Starts(c), ~Reload
        PROVE  OneSubmission' /\ IdsSuffice'
    <2>1. \A l \in Slots : calls'[l] = IF l = k THEN c ELSE calls[l]
      BY <1>1, <1>8 DEF PageTypeOK
    <2>2. spent'.clicks = spent.clicks + 1 /\ spent'.reloads = spent.reloads
      BY <1>8, UnackedNumbers
    <2>3. page'.submissionId = id
      <3>1. ASSUME NEW m \in Slots, Accepted(m) PROVE FALSE
        <4>1. spent' = spent
          BY <3>1 DEF Accepted
        <4> QED
          BY <1>2, <2>2, <4>1
      <3> QED
        BY <1>1, <1>8, <3>1, PageStep
    <2>4. OfSubmit(c) => \A l \in Slots : ~OfSubmit(calls[l])
      BY <1>8 DEF Starts, OfSubmit, Disabled
    <2>5. \A l, m \in Slots : OfSubmit(calls'[l]) /\ OfSubmit(calls'[m]) => l = m
      BY <1>3, <2>1, <2>4
    <2>6. id \in Rids
      BY <1>2, <1>3, <1>5, <2>2
    <2>7. c.rid \in Rids /\ (c.kind = "submit" => c.rid = id /\ OfSubmit(c))
      BY <1>8, <2>6 DEF Starts, OfSubmit
    <2>8. \A l \in Slots : calls'[l].rid \in Rids
      BY <1>3, <2>1, <2>7
    <2>9. ASSUME NEW l \in Slots
          PROVE  /\ calls'[l].kind = "submit" => calls'[l].rid <= id
                 /\ calls'[l].kind = "submit" /\ calls'[l].step \in {"sent", "ok"} =>
                      OfSubmit(calls'[l]) /\ calls'[l].rid = id /\ id < spent'.clicks + spent'.reloads
      BY <1>2, <1>3, <2>1, <2>2, <2>7
    <2> QED
      BY <1>2, <1>3, <2>2, <2>3, <2>5, <2>8, <2>9 DEF OneSubmission, IdsSuffice, OfSubmit
  <1>9. CASE Reload
    <2>1. page'.submissionId = id + 1 /\ spent'.reloads = spent.reloads + 1
      BY <1>2, <1>9, UnackedNumbers, LoadedType DEF Reload
    <2>2. ASSUME NEW k \in Slots
          PROVE  /\ calls'[k].step \in {"orphan", "free"} /\ ~OfSubmit(calls'[k])
                 /\ calls'[k].rid \in Rids
                 /\ calls'[k].kind = "submit" => calls'[k].rid <= id + 1
      <3> DEFINE o == [calls[k] EXCEPT !.step = "orphan"]
      <3>1. o.step = "orphan" /\ o.kind = calls[k].kind /\ o.rid = calls[k].rid
        BY <1>4, CallIsFields DEF CallFields
      <3>2. calls'[k] = IF calls[k].step \in {"sent", "orphan"} THEN o ELSE NoCall
        BY <1>9 DEF Reload
      <3> HIDE DEF o
      <3>3. CASE calls[k].step \in {"sent", "orphan"}
        BY <1>2, <1>3, <1>4, <1>5, <3>1, <3>2, <3>3 DEF OfSubmit
      <3>4. CASE calls[k].step \notin {"sent", "orphan"}
        BY <1>2, <1>3, <1>5, <3>2, <3>4, NoCallType DEF OfSubmit
      <3> QED
        BY <3>3, <3>4
    <2> QED
      <3>1. \A k \in Slots : calls'[k].kind = "submit" => calls'[k].rid <= page'.submissionId
        BY <2>1, <2>2
      <3>2. OneSubmission'
        BY <2>2, <3>1 DEF OneSubmission
      <3> QED
        BY <1>2, <1>3, <2>1, <2>2, <3>1, <3>2 DEF IdsSuffice
  <1> HIDE DEF id
  <1> QED
    BY <1>1, <1>6, <1>7, <1>8, <1>9, CallsStep

\* Jobs keep ids the page has had.
LEMMA NumberedStep ==
  ASSUME Configured, UnackedInv, [PageNext]_pageVars
  PROVE  JobsNumbered'
  <1>1. page.submissionId \in Nat /\ page.submissionId <= page'.submissionId /\ page'.submissionId \in Nat
    BY UnackedNumbers, PageStep DEF UnackedInv
  <1>2. ASSUME NEW r \in Rids, jobs'[r].status # "absent" PROVE r <= page.submissionId
    BY <1>2, JobsStep DEF UnackedInv, JobsNumbered, OneSubmission
  <1>3. \A r \in Rids : r \in Nat
    BY DEF Rids
  <1>4. ASSUME NEW r \in Rids, jobs'[r].status # "absent" PROVE r <= page'.submissionId
    BY <1>1, <1>2, <1>3, <1>4
  <1> QED
    BY <1>4 DEF JobsNumbered, Rids

\* The id that is left behind was acknowledged, or counts as a reload.
LEMMA SkippedStep ==
  ASSUME Configured, UnackedInv, [PageNext]_pageVars
  PROVE  SkippedByReload'
  <1> DEFINE id == page.submissionId
             S == Skipped(id, acked)
  <1>1. /\ id \in Nat /\ page'.submissionId \in Nat
        /\ spent.reloads \in Nat /\ spent'.reloads \in Nat
        /\ spent'.reloads = IF Reload THEN spent.reloads + 1 ELSE spent.reloads
    BY UnackedNumbers
  <1>2. IsFiniteSet(S) /\ Cardinality(S) \in Nat /\ Cardinality(S) <= spent.reloads
    BY <1>1, SkippedFinite DEF UnackedInv, SkippedByReload
  <1> HIDE DEF S, id
  <1>3. IsFiniteSet(S \cup {id}) /\ Cardinality(S \cup {id}) <= Cardinality(S) + 1
    BY <1>2, OneMore, Zenon
  <1> USE DEF S, id
  <1>4. CASE \E k \in Slots : Accepted(k)
    <2>1. PICK k \in Slots : Accepted(k) /\ acked' = acked \cup {calls[k].rid}
      BY <1>4 DEF Accepted
    <2>2. calls[k].rid = id
      BY <2>1 DEF Accepted, Answered, UnackedInv, OneSubmission
    <2>3. page'.submissionId = id + 1
      <3>1. page \in PageFields
        BY PageIsFields DEF UnackedInv, PageTypeOK
      <3> QED
        BY <2>1, <3>1 DEF Accepted, PageFields
    <2>4. Skipped(page'.submissionId, acked') = S
      BY <1>1, <2>1, <2>2, <2>3 DEF Skipped
    <2> QED
      BY <1>1, <1>2, <2>4 DEF SkippedByReload
  <1>5. CASE Reload
    <2>1. page'.submissionId = id + 1 /\ acked' = acked
      BY <1>1, <1>5, LoadedType DEF Reload, ServerUnchanged
    <2>2. Skipped(page'.submissionId, acked') \subseteq S \cup {id}
      BY <1>1, <2>1 DEF Skipped
    <2>4. Cardinality(Skipped(page'.submissionId, acked')) <= Cardinality(S \cup {id})
      BY <1>3, <2>2, FS_Subset
    <2>5. Cardinality(S \cup {id}) \in Nat /\ Cardinality(Skipped(page'.submissionId, acked')) \in Nat
      BY <1>1, <1>3, FS_CardinalityType, SkippedFinite
    <2> HIDE DEF S
    <2> QED
      BY <1>1, <1>2, <1>3, <1>5, <2>4, <2>5 DEF SkippedByReload
  <1>6. CASE ~Reload /\ \A k \in Slots : ~Accepted(k)
    <2>1. page'.submissionId = id /\ acked' = acked
      BY <1>6, PageStep, AckedStep DEF UnackedInv
    <2> QED
      BY <1>1, <1>2, <1>6, <2>1 DEF SkippedByReload
  <1> QED
    BY <1>4, <1>5, <1>6

\* Each load of the page leaves at most one job the page was not told of,
\* however often a proposal is submitted again.
THEOREM OneUnackedJobHolds == PageSpec => []OneUnackedJob
  <1>1. PageInit => UnackedInv
    BY UnackedInit, ConfiguredAssumption
  <1>2. UnackedInv /\ [PageNext]_pageVars => UnackedInv'
    BY PageTypes, SubmissionStep, NumberedStep, SkippedStep, ConfiguredAssumption DEF UnackedInv
  <1>3. UnackedInv => OneUnackedJob
    BY UnackedInvImplies, ConfiguredAssumption
  <1> QED
    BY <1>1, <1>2, <1>3, PTL DEF PageSpec
=============================================================================
