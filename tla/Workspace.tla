------------------------------ MODULE Workspace ------------------------------
(***************************************************************************)
(* The workspace page of one user (proxy/workspace/workspace.js, its       *)
(* signed requests in clients/buzz-knowledge.mjs) with the handlers it     *)
(* calls (proxy/enterprise_workflows.py).                                  *)
(*                                                                         *)
(* A click starts a chain of requests that share the page's variables with *)
(* every other chain.  Only the buttons made by action() are disabled      *)
(* while their own chain runs; rows, the channel list and the navigation   *)
(* are not.  Requests are served and answered in any order, an answer may  *)
(* be lost, and a reload forgets the page but not what was sent.           *)
(*                                                                         *)
(* A call is one chain, with the request it waits for.  A refusal, a       *)
(* failure and a lost answer look the same to the page: it shows a message.*)
(* A document is its revision (updated_at).  There is one job per request  *)
(* id, as for gcor.ingestion_jobs of one actor.                            *)
(***************************************************************************)
EXTENDS Naturals, FiniteSets

CONSTANTS
  Channels, First,  \* the user's channels; the one that is listed first
  NoChannel,
  RoleIn,           \* [Channels -> "admin" or "member"], the role of the user
  Documents, NoDocument,
  ChannelOf,        \* [Documents -> Channels]
  Texts, NoText,    \* proposals the user may type
  Slots,            \* bound: chains at once
  MaxClicks,        \* bound: clicks that send something
  MaxReviews,       \* bound: reviews by others, of each document
  MaxRuns,          \* bound: claims of jobs by the worker
  MaxReloads,       \* bound: reloads of the page
  MaxPageTroubles   \* bound: reloads, failed requests, lost answers, reviews by others and stalls

\* The channels and documents of one user, and numbers as bounds.
Configured ==
  /\ First \in Channels /\ NoChannel \notin Channels /\ NoDocument \notin Documents /\ NoText \notin Texts
  /\ RoleIn \in [Channels -> {"admin", "member"}]
  /\ ChannelOf \in [Documents -> Channels]
  /\ {MaxClicks, MaxReviews, MaxRuns, MaxReloads, MaxPageTroubles} \subseteq Nat

ASSUME ConfiguredAssumption == Configured

Rids == 0..(MaxClicks + MaxReloads)

VARIABLES
  page,      \* what the script and the document of the page hold
  calls,     \* [Slots -> chain]
  rev,       \* [Documents -> revision]
  jobs,      \* [Rids -> row of gcor.ingestion_jobs]
  reviews,   \* review events of this user
  feedback,  \* rows of gcor.knowledge_feedback
  acked,     \* request ids whose acceptance the page was told of
  spent      \* uses of the bounds

pageVars == <<page, calls, rev, jobs, reviews, feedback, acked, spent>>

Listing == [Rids -> {"absent", "pending", "processing", "completed", "failed", "cancelled"}]
SomeChannel == Channels \cup {NoChannel}

\* A document is shown, or asked about, only if there is one.
Page == {p \in [channel : SomeChannel, doc : Documents \cup {NoDocument}, rev : Nat, shown : BOOLEAN,
                 controls : BOOLEAN, rows : SomeChannel, jobRows : Listing, submissionId : Nat] :
           p.shown => p.doc \in Documents}

Call == {c \in [step : {"free", "sent", "ok", "orphan"},
                 kind : {"none", "channels", "documents", "jobs", "ask", "submit", "detail", "review",
                         "feedback", "job-action"},
                 button : {"none", "connect", "refresh", "refresh-jobs", "ask-button", "submit",
                           "save-review", "send-feedback"},
                 chan : SomeChannel, doc : Documents \cup {NoDocument}, rev : Nat, rid : Nat,
                 text : Texts \cup {NoText}, act : {"none", "retry", "cancel"}, list : Listing] :
           c.kind \in {"detail", "review", "feedback"} => c.doc \in Documents}

\* Only a job that was claimed has a worker that may settle it late.
Job == {j \in [status : {"absent", "pending", "processing", "completed", "failed", "cancelled"},
                chan : SomeChannel, text : Texts \cup {NoText}, late : BOOLEAN] :
          j.status = "absent" => ~j.late}

\* Every variable stays in its declared set.
PageTypeOK ==
  /\ page \in Page
  /\ calls \in [Slots -> Call]
  /\ rev \in [Documents -> Nat]
  /\ jobs \in [Rids -> Job]
  /\ reviews \subseteq [doc : Documents, chan : SomeChannel, asked : Nat, replaced : Nat]
  /\ feedback \subseteq [doc : Documents, chan : SomeChannel]
  /\ acked \subseteq Nat
  /\ spent \in [clicks : 0..MaxClicks, others : [Documents -> 0..MaxReviews], runs : 0..MaxRuns,
                reloads : 0..MaxReloads, troubles : 0..MaxPageTroubles]

NoCall == [step |-> "free", kind |-> "none", button |-> "none", chan |-> NoChannel, doc |-> NoDocument,
           rev |-> 0, rid |-> 0, text |-> NoText, act |-> "none", list |-> [r \in Rids |-> "absent"]]

NoJob == [status |-> "absent", chan |-> NoChannel, text |-> NoText, late |-> FALSE]

\* The page as loaded, with the id its next submission will have.
Loaded(id) ==
  [channel |-> NoChannel, doc |-> NoDocument, rev |-> 0, shown |-> FALSE, controls |-> FALSE,
   rows |-> NoChannel, jobRows |-> [r \in Rids |-> "absent"], submissionId |-> id]

PageInit ==
  /\ page = Loaded(0)
  /\ calls = [k \in Slots |-> NoCall]
  /\ rev = [d \in Documents |-> 0]
  /\ jobs = [r \in Rids |-> NoJob]
  /\ reviews = {}
  /\ feedback = {}
  /\ acked = {}
  /\ spent = [clicks |-> 0, others |-> [d \in Documents |-> 0], runs |-> 0, reloads |-> 0, troubles |-> 0]

-----------------------------------------------------------------------------
(* The page: clicks *)

\* The request of an api() call, with the channel that is chosen at that moment.
Request(kind, button, chan) ==
  [NoCall EXCEPT !.step = "sent", !.kind = kind, !.button = button, !.chan = chan]

\* A button made by action() is disabled until its chain has ended.
Disabled(button) == \E k \in Slots : calls[k].step # "orphan" /\ calls[k].button = button

Click(request) ==
  /\ spent.clicks < MaxClicks
  /\ spent' = [spent EXCEPT !.clicks = @ + 1]
  /\ \E k \in Slots :
       /\ calls[k].step = "free"
       /\ calls' = [calls EXCEPT ![k] = request]

\* A trouble within the bound, counted together with what it counts itself.
PageTrouble(counted) ==
  /\ spent.troubles < MaxPageTroubles
  /\ spent' = [counted EXCEPT !.troubles = @ + 1]

ServerUnchanged == UNCHANGED <<rev, jobs, reviews, feedback, acked>>

Press(button, request) ==
  /\ ~Disabled(button)
  /\ Click(request)
  /\ UNCHANGED page /\ ServerUnchanged

Connect == Press("connect", Request("channels", "connect", page.channel))
Refresh ==
  /\ page.channel # NoChannel
  /\ Press("refresh", Request("documents", "refresh", page.channel))
RefreshJobs == Press("refresh-jobs", Request("jobs", "refresh-jobs", page.channel))
AskQuestion ==
  /\ page.channel # NoChannel
  /\ Press("ask-button", Request("ask", "ask-button", page.channel))

\* A fresh id for every click, as reviews and feedback have.
SubmitAnew(text) ==
  /\ ~Disabled("submit")
  /\ Click([Request("submit", "submit", page.channel) EXCEPT !.rid = page.submissionId, !.text = text])
  /\ page' = [page EXCEPT !.submissionId = @ + 1]
  /\ ServerUnchanged

\* The id of a submission changes only when the page is told of its acceptance.
Submit(text) ==
  Press("submit", [Request("submit", "submit", page.channel)
                     EXCEPT !.rid = page.submissionId, !.text = text])

\* A review names the document, the revision and the values that are shown.
SaveReview ==
  /\ page.shown /\ page.controls
  /\ Press("save-review", [Request("review", "save-review", page.channel)
                             EXCEPT !.doc = page.doc, !.rev = page.rev])
SendFeedback ==
  /\ page.shown
  /\ Press("send-feedback", [Request("feedback", "send-feedback", page.channel) EXCEPT !.doc = page.doc])

\* Another channel is chosen: nothing stays selected, its library is asked for.
ChooseChannel(c) ==
  /\ page.channel \notin {NoChannel, c}
  /\ page' = [page EXCEPT !.channel = c, !.doc = NoDocument, !.rev = 0, !.shown = FALSE]
  /\ Click(Request("documents", "none", c))
  /\ ServerUnchanged

\* A row of the library is opened; rows stay as they were listed.
Open(d) ==
  /\ page.rows = ChannelOf[d]
  /\ Click([Request("detail", "none", page.channel) EXCEPT !.doc = d])
  /\ UNCHANGED page /\ ServerUnchanged

\* A row of the job list offers what its listed status allows.
RowAction(r) ==
  /\ page.jobRows[r] \in {"pending", "failed"}
  /\ Click([Request("job-action", "none", page.channel)
              EXCEPT !.rid = r, !.act = IF page.jobRows[r] = "failed" THEN "retry" ELSE "cancel"])
  /\ UNCHANGED page /\ ServerUnchanged

\* Another view hides the detail, and forgets nothing.
Navigate ==
  /\ page.shown
  /\ page' = [page EXCEPT !.shown = FALSE]
  /\ UNCHANGED calls /\ ServerUnchanged /\ UNCHANGED spent

-----------------------------------------------------------------------------
(* The API: one handler per request *)

\* An answer arrives unless the page was loaded again.  An error ends the chain:
\* the page shows a message and frees the button.
Deliver(k, answer) == calls' = [calls EXCEPT ![k] = IF @.step = "orphan" THEN NoCall ELSE answer]
Answer(k, ok) == Deliver(k, IF ok THEN [calls[k] EXCEPT !.step = "ok", !.text = NoText] ELSE NoCall)
Served(k, kind) == calls[k].kind = kind /\ calls[k].step \in {"sent", "orphan"}

\* What the API finds under the given id in the request's channel.
FoundAnywhere(call) == call.chan # NoChannel

Found(call) == call.chan # NoChannel /\ ChannelOf[call.doc] = call.chan

ServeList(k) ==
  /\ \E kind \in {"channels", "documents", "ask"} : Served(k, kind)
  /\ Answer(k, calls[k].kind = "channels" \/ calls[k].chan # NoChannel)
  /\ UNCHANGED <<page, spent>> /\ ServerUnchanged

ServeDetail(k) ==
  LET call == calls[k]
  IN /\ Served(k, "detail")
     /\ IF Found(call) THEN Deliver(k, [call EXCEPT !.step = "ok", !.rev = rev[call.doc]])
        ELSE Answer(k, FALSE)
     /\ UNCHANGED <<page, spent>> /\ ServerUnchanged

\* The user's jobs of the channel.
JobsOf(chan) == [r \in Rids |-> IF jobs[r].chan = chan THEN jobs[r].status ELSE "absent"]

ServeJobs(k) ==
  LET call == calls[k]
  IN /\ Served(k, "jobs")
     /\ IF call.chan # NoChannel THEN Deliver(k, [call EXCEPT !.step = "ok", !.list = JobsOf(call.chan)])
        ELSE Answer(k, FALSE)
     /\ UNCHANGED <<page, spent>> /\ ServerUnchanged

\* The revision the page showed is the current one.
AsShown(call) == rev[call.doc] = call.rev

\* An admin's review of the revision it names becomes an event and a new revision.
ServeReview(k) ==
  LET call == calls[k]
  IN /\ Served(k, "review")
     /\ \/ /\ Found(call) /\ RoleIn[call.chan] = "admin" /\ AsShown(call)
           /\ rev' = [rev EXCEPT ![call.doc] = @ + 1]
           /\ reviews' = reviews \cup {[doc |-> call.doc, chan |-> call.chan,
                                        asked |-> call.rev, replaced |-> rev[call.doc]]}
           /\ Answer(k, TRUE)
        \/ /\ ~(Found(call) /\ RoleIn[call.chan] = "admin" /\ AsShown(call))
           /\ Answer(k, FALSE)
           /\ UNCHANGED <<rev, reviews>>
     /\ UNCHANGED <<page, jobs, feedback, acked, spent>>

ServeFeedback(k) ==
  LET call == calls[k]
  IN /\ Served(k, "feedback")
     /\ feedback' = feedback \cup (IF Found(call) THEN {[doc |-> call.doc, chan |-> call.chan]} ELSE {})
     /\ Answer(k, Found(call))
     /\ UNCHANGED <<page, rev, jobs, reviews, acked, spent>>

\* The job of the request id, new or old, if it was submitted with this content.
ServeSubmit(k) ==
  LET call == calls[k]
      job == jobs[call.rid]
  IN /\ Served(k, "submit")
     /\ IF call.chan # NoChannel /\ job.status = "absent"
        THEN jobs' = [jobs EXCEPT ![call.rid] =
               [status |-> "pending", chan |-> call.chan, text |-> call.text, late |-> FALSE]]
        ELSE UNCHANGED jobs
     /\ Answer(k, call.chan # NoChannel /\ (job.status = "absent" \/
                                              (job.chan = call.chan /\ job.text = call.text)))
     /\ UNCHANGED <<page, rev, reviews, feedback, acked, spent>>

ActionableAlways(job) == job.status # "absent"

Actionable(job) == job.status \in {"pending", "failed"}

ServeJobAction(k) ==
  LET call == calls[k]
      allowed == jobs[call.rid].chan = call.chan /\ Actionable(jobs[call.rid])
  IN /\ Served(k, "job-action")
     /\ IF allowed
        THEN jobs' = [jobs EXCEPT ![call.rid].status = IF call.act = "retry" THEN "pending" ELSE "cancelled"]
        ELSE UNCHANGED jobs
     /\ Answer(k, allowed)
     /\ UNCHANGED <<page, rev, reviews, feedback, acked, spent>>

Serve(k) ==
  \/ ServeList(k) \/ ServeDetail(k) \/ ServeJobs(k) \/ ServeReview(k)
  \/ ServeFeedback(k) \/ ServeSubmit(k) \/ ServeJobAction(k)

\* The request fails, before or after it was served, or its content is refused.
Lose(k) ==
  /\ calls[k].step \in {"sent", "ok"}
  /\ PageTrouble(spent)
  /\ Answer(k, FALSE)
  /\ UNCHANGED page /\ ServerUnchanged

-----------------------------------------------------------------------------
(* The page: what follows an answer *)

\* The chain goes on with another request, or ends and frees its button.
Then(k, request) == calls' = [calls EXCEPT ![k] = request]
End(k) == calls' = [calls EXCEPT ![k] = NoCall]
Answered(k, kind) == calls[k].step = "ok" /\ calls[k].kind = kind

Connected(k) ==
  /\ Answered(k, "channels")
  /\ page' = [page EXCEPT !.channel = First]
  /\ Then(k, Request("documents", calls[k].button, First))
  /\ UNCHANGED spent /\ ServerUnchanged

Listed(k) ==
  /\ Answered(k, "documents")
  /\ page' = [page EXCEPT !.rows = calls[k].chan]
  /\ End(k)
  /\ UNCHANGED spent /\ ServerUnchanged

Answering(k) ==
  /\ Answered(k, "ask")
  /\ End(k)
  /\ UNCHANGED <<page, spent>> /\ ServerUnchanged

\* Whatever was chosen since, the document is selected and shown, with the
\* review controls of the channel that is chosen now.
Opened(k) ==
  /\ Answered(k, "detail")
  /\ page' = [page EXCEPT !.doc = calls[k].doc, !.rev = calls[k].rev, !.shown = TRUE,
                          !.controls = RoleIn[page.channel] = "admin"]
  /\ End(k)
  /\ UNCHANGED spent /\ ServerUnchanged

\* The document that is selected now is read again; if there is none, the
\* script fails, with the same effect as a failed request.
Reviewed(k) ==
  /\ Answered(k, "review") \/ Answered(k, "feedback")
  /\ IF page.doc = NoDocument THEN End(k)
     ELSE Then(k, [Request("detail", calls[k].button, page.channel) EXCEPT !.doc = page.doc])
  /\ UNCHANGED <<page, spent>> /\ ServerUnchanged

\* The submission was accepted: the next one has another id; the jobs are shown.
Accepted(k) ==
  /\ Answered(k, "submit")
  /\ acked' = acked \cup {calls[k].rid}
  /\ page' = [page EXCEPT !.submissionId = @ + 1, !.shown = FALSE]
  /\ Then(k, Request("jobs", calls[k].button, page.channel))
  /\ UNCHANGED <<rev, jobs, reviews, feedback, spent>>

JobsListed(k) ==
  /\ Answered(k, "jobs")
  /\ page' = [page EXCEPT !.jobRows = calls[k].list]
  /\ End(k)
  /\ UNCHANGED spent /\ ServerUnchanged

JobChanged(k) ==
  /\ Answered(k, "job-action")
  /\ Then(k, Request("jobs", calls[k].button, page.channel))
  /\ UNCHANGED <<page, spent>> /\ ServerUnchanged

Resume(k) ==
  \/ Connected(k) \/ Listed(k) \/ Answering(k) \/ Opened(k)
  \/ Reviewed(k) \/ Accepted(k) \/ JobsListed(k) \/ JobChanged(k)

\* The page is loaded again; what it had sent is still on its way.
Reload ==
  /\ spent.reloads < MaxReloads
  /\ PageTrouble([spent EXCEPT !.reloads = @ + 1])
  /\ page' = Loaded(page.submissionId + 1)
  /\ calls' = [k \in Slots |-> IF calls[k].step \in {"sent", "orphan"}
                               THEN [calls[k] EXCEPT !.step = "orphan"] ELSE NoCall]
  /\ ServerUnchanged

-----------------------------------------------------------------------------
(* The surroundings *)

\* Another reviewer changes a document.
OtherReview(d) ==
  /\ spent.others[d] < MaxReviews
  /\ PageTrouble([spent EXCEPT !.others[d] = @ + 1])
  /\ rev' = [rev EXCEPT ![d] = @ + 1]
  /\ UNCHANGED <<page, calls, jobs, reviews, feedback, acked>>

JobGoes(r, job) ==
  /\ jobs' = [jobs EXCEPT ![r] = job]
  /\ UNCHANGED <<page, calls, rev, reviews, feedback, acked>>

\* A worker claims a pending job.
Claim(r) ==
  /\ jobs[r].status = "pending"
  /\ spent.runs < MaxRuns
  /\ spent' = [spent EXCEPT !.runs = @ + 1]
  /\ JobGoes(r, [jobs[r] EXCEPT !.status = "processing", !.late = FALSE])

\* The worker settles it.  With a trouble it does not hear that it completed the
\* job, or it has late and the sweep fails the job meanwhile.
Settle(r) ==
  /\ jobs[r].status = "processing"
  /\ \/ /\ \E status \in {"completed", "failed", "pending"} : JobGoes(r, [jobs[r] EXCEPT !.status = status])
        /\ UNCHANGED spent
     \/ /\ \E status \in {"completed", "failed"} :
             JobGoes(r, [jobs[r] EXCEPT !.status = status, !.late = TRUE])
        /\ PageTrouble(spent)

\* Such a worker settles the job once more while no other one has claimed it,
\* whatever its owner did: the lease is looked at, not the status.
SettleLate(r) ==
  /\ jobs[r].late
  /\ UNCHANGED spent
  /\ \E status \in (IF jobs[r].status = "completed" THEN {"pending", "failed"} ELSE {"completed", "failed"}) :
       JobGoes(r, [jobs[r] EXCEPT !.status = status, !.late = FALSE])

-----------------------------------------------------------------------------
UserStep ==
  \/ Connect \/ Refresh \/ RefreshJobs \/ AskQuestion \/ SaveReview \/ SendFeedback \/ Navigate \/ Reload
  \/ \E text \in Texts : Submit(text)
  \/ \E c \in Channels : ChooseChannel(c)
  \/ \E d \in Documents : Open(d)
  \/ \E r \in Rids : RowAction(r)

PageNext ==
  \/ UserStep
  \/ \E k \in Slots : Serve(k) \/ Lose(k) \/ Resume(k)
  \/ \E d \in Documents : OtherReview(d)
  \/ \E r \in Rids : Claim(r) \/ Settle(r) \/ SettleLate(r)

PageSpec == PageInit /\ [][PageNext]_pageVars

-----------------------------------------------------------------------------
(* Properties *)

\* A review or feedback takes effect only in the channel its document belongs
\* to and, for a review, where the user is an admin, on the very revision the
\* page showed when the button was pressed and on no revision twice: although a
\* late answer may show a document after its channel was left, and with the
\* review controls of the channel that is chosen then.
ReviewsInScope ==
  /\ \A x \in reviews :
       /\ ChannelOf[x.doc] = x.chan /\ RoleIn[x.chan] = "admin"
       /\ x.asked = x.replaced
       /\ \A y \in reviews : x.doc = y.doc /\ x.replaced = y.replaced => x = y
  /\ \A x \in feedback : ChannelOf[x.doc] = x.chan

\* However often a proposal is submitted again after a failure, with or without
\* changes and in whatever channel, each load of the page leaves at most one job
\* that the page was not told of.
OneUnackedJob ==
  Cardinality({r \in Rids : jobs[r].status # "absent" /\ r \notin acked}) <= 1 + spent.reloads

\* A cancelled job is never put back in the queue, although the page offers to
\* retry what it listed as failed and an earlier retry may be served late.
CancelledStays ==
  [][\A r \in Rids : jobs[r].status = "cancelled" => jobs'[r].status \notin {"pending", "processing"}]_pageVars

Lifecycle == INSTANCE JobLifecycle WITH
  Job <- Rids, status <- [r \in Rids |-> jobs[r].status], late <- {r \in Rids : jobs[r].late}

\* Whatever chains of requests do in whatever order, the jobs of the page go
\* through the statuses of module JobLifecycle, as those of IngestionJobs do.
PageLifecycleKept == Lifecycle!Spec
=============================================================================
