------------------------------ MODULE Enqueuer ------------------------------
(***************************************************************************)
(* The webhook side: GitHub emits events about an installation and its     *)
(* pull requests, the HTTP server runs one handler per delivery            *)
(* (internal/httpserver/webhooks.go, internal/queue/enqueue.go), and the   *)
(* handlers insert and cancel rows of review_jobs.                         *)
(*                                                                         *)
(* One action is one database statement with the straight-line code up to  *)
(* the next.  An event is a snapshot of the pull request at the moment     *)
(* GitHub emitted it.  Which login of the whitelist matched only decides   *)
(* who publishes; the model keeps whether one matched (assigned).          *)
(***************************************************************************)
EXTENDS Store, Sequences, FiniteSets

CONSTANTS
    PR,            \* pull requests of the one installation
    SHA,           \* commits a pull request's head may point to
    Handler,       \* concurrent HTTP requests
    Worker,        \* the worker that executes jobs
    MaxEvents,     \* bound on the events GitHub emits
    MaxDisorder,   \* bound on the disturbances: see Disturb
    RedeliverOften \* bound: FALSE if only one event is ever delivered again

ASSUME BoundsAssumption == /\ MaxEvents \in Nat /\ MaxDisorder \in Nat
                           /\ RedeliverOften \in BOOLEAN
ASSUME NullAssumption == NULL \notin SHA

VARIABLES
    jobs,       \* review_jobs, keyed by (pull request, head SHA)
    inst,       \* the row of installations: absent, active or suspended
    pulls,      \* the pull requests as GitHub sees them
    suspended,  \* whether GitHub has suspended the installation
    inflight,   \* events emitted and not yet delivered, oldest first
    emitted,    \* number of events emitted
    handlers,   \* what each request is doing
    disorder    \* the kinds of disturbance that have happened

vars == <<jobs, inst, pulls, suspended, inflight, emitted, handlers, disorder>>

(* The UNIQUE constraint of review_jobs (one installation). *)
Key == PR \X SHA

(* past: heads that were replaced, closed or converted to draft before;     *)
(* triggered: an event that asks for a review of the head was emitted.      *)
(* Both are history, read only by properties.                               *)
Pull == [head : SHA \cup {NULL}, open : BOOLEAN, draft : BOOLEAN,
         assigned : BOOLEAN, past : SUBSET SHA, triggered : BOOLEAN]

NoPull == [head |-> NULL, open |-> FALSE, draft |-> FALSE, assigned |-> FALSE,
           past |-> {}, triggered |-> FALSE]

Allowlist == {"opened", "reopened", "synchronize", "ready_for_review", "assigned"}

PullActions == Allowlist \cup {"closed", "converted_to_draft", "unassigned"}

PullEvent == [kind : {"pull_request"}, action : PullActions, pr : PR, sha : SHA,
              open : BOOLEAN, draft : BOOLEAN, assigned : BOOLEAN]

(* issue_comment carries no head SHA; installation carries only its action. *)
OtherEvent == [kind : {"issue_comment"}, action : {"created"}]
              \cup [kind : {"installation"}, action : {"suspend", "unsuspend"}]

Event == PullEvent \cup OtherEvent

(* A request waiting for its event.  The decision string HandleEvent        *)
(* returns is only logged, and is left out.                                 *)
Idle == [pc |-> "idle", event |-> NULL]

Init ==
    /\ jobs = [k \in Key |-> NoJob]
    /\ inst = "absent"
    /\ pulls = [r \in PR |-> NoPull]
    /\ suspended = FALSE
    /\ inflight = <<>>
    /\ emitted = 0
    /\ handlers = [h \in Handler |-> Idle]
    /\ disorder = {}

(* What makes the history of a pull request harder than one event after the *)
(* other: at most MaxDisorder kinds of it happen in a behaviour.            *)
Disturb(kind) ==
    /\ Cardinality(disorder \cup {kind}) <= MaxDisorder
    /\ disorder' = disorder \cup {kind}

-----------------------------------------------------------------------------
(* GitHub (external).                                                       *)

Emit(e) ==
    /\ emitted < MaxEvents
    /\ emitted' = emitted + 1
    /\ inflight' = Append(inflight, e)
    /\ UNCHANGED <<jobs, inst, handlers, disorder>>

(* The pull request changes to `pull`, and GitHub says so. *)
EmitPull(r, action, pull) ==
    /\ Emit([kind |-> "pull_request", action |-> action, pr |-> r, sha |-> pull.head,
             open |-> pull.open, draft |-> pull.draft, assigned |-> pull.assigned])
    /\ pulls' = [pulls EXCEPT ![r] =
          [pull EXCEPT !.triggered = @ \/ /\ action \in Allowlist
                                          /\ pull.open /\ ~pull.draft
                                          /\ pull.assigned /\ ~suspended]]
    /\ UNCHANGED suspended

OpenPull(r) ==
    /\ pulls[r].head = NULL
    /\ \E s \in SHA, draft, assigned \in BOOLEAN :
          EmitPull(r, "opened", [NoPull EXCEPT !.head = s, !.open = TRUE,
                                               !.draft = draft, !.assigned = assigned])

(* A push, possibly forced back to a commit that was the head before. *)
Push(r, s) ==
    /\ pulls[r].open /\ s # pulls[r].head
    /\ EmitPull(r, "synchronize",
                [pulls[r] EXCEPT !.head = s, !.past = @ \cup {pulls[r].head},
                                 !.triggered = FALSE])

ClosePull(r) ==
    /\ pulls[r].open
    /\ EmitPull(r, "closed", [pulls[r] EXCEPT !.open = FALSE,
                                              !.past = @ \cup {pulls[r].head}])

ReopenPull(r) ==
    /\ pulls[r].head # NULL /\ ~pulls[r].open
    /\ EmitPull(r, "reopened", [pulls[r] EXCEPT !.open = TRUE])

ConvertToDraft(r) ==
    /\ pulls[r].open /\ ~pulls[r].draft
    /\ EmitPull(r, "converted_to_draft", [pulls[r] EXCEPT !.draft = TRUE,
                                                          !.past = @ \cup {pulls[r].head}])

ReadyForReview(r) ==
    /\ pulls[r].open /\ pulls[r].draft
    /\ EmitPull(r, "ready_for_review", [pulls[r] EXCEPT !.draft = FALSE])

Assign(r) ==
    /\ pulls[r].head # NULL
    /\ \/ ~pulls[r].assigned /\ EmitPull(r, "assigned", [pulls[r] EXCEPT !.assigned = TRUE])
       \/ pulls[r].assigned /\ EmitPull(r, "unassigned", [pulls[r] EXCEPT !.assigned = FALSE])

Comment ==
    /\ Emit([kind |-> "issue_comment", action |-> "created"])
    /\ UNCHANGED <<pulls, suspended>>

SuspendOrUnsuspend ==
    /\ Emit([kind |-> "installation",
             action |-> IF suspended THEN "unsuspend" ELSE "suspend"])
    /\ suspended' = ~suspended
    /\ UNCHANGED pulls

-----------------------------------------------------------------------------
(* Delivery (external): in order, out of order, or not at all.              *)

(* Where HandleEvent sends an event first. *)
FirstStep(e) == IF e.kind = "installation" THEN "upsert" ELSE "ensure"

(* Nobody else is handling an event. *)
Alone(h) == \A g \in Handler \ {h} : handlers[g].pc = "idle"

Deliver(h, e) ==
    /\ handlers[h].pc = "idle"
    /\ handlers' = [handlers EXCEPT ![h] = [pc |-> FirstStep(e), event |-> e]]
    /\ UNCHANGED <<jobs, inst, pulls, suspended, emitted>>

DeliverNext(h) ==
    /\ inflight # <<>>
    /\ Deliver(h, Head(inflight))
    /\ inflight' = Tail(inflight)
    /\ \/ Alone(h) /\ UNCHANGED disorder
       \/ ~Alone(h) /\ Disturb("concurrent")

DeliverLate(h, i) ==
    /\ i \in 2 .. Len(inflight) /\ Alone(h)
    /\ Deliver(h, inflight[i])
    /\ inflight' = SubSeq(inflight, 1, i - 1) \o SubSeq(inflight, i + 1, Len(inflight))
    /\ Disturb("reordered")

(* The event will be delivered once more, after those now in flight. *)
DeliverTwice(h) ==
    /\ inflight # <<>> /\ Alone(h)
    /\ "redelivered" \in disorder => RedeliverOften
    /\ Deliver(h, Head(inflight))
    /\ inflight' = Append(Tail(inflight), Head(inflight))
    /\ Disturb("redelivered")

LoseDelivery ==
    /\ inflight # <<>>
    /\ Disturb("lost")
    /\ inflight' = Tail(inflight)
    /\ UNCHANGED <<jobs, inst, pulls, suspended, emitted, handlers>>

-----------------------------------------------------------------------------
(* The handlers.                                                            *)

Goto(h, next) == handlers' = [handlers EXCEPT ![h].pc = next]

(* HandleEvent returns, and the server answers. *)
Answer(h) == handlers' = [handlers EXCEPT ![h] = Idle]

(* A statement fails, or is applied while its reply is lost: every handler  *)
(* returns "failed", the server answers 500, and nothing is rolled back.    *)
StatementFails(h) == Disturb("failed") /\ Answer(h)

(* The reply of a statement arrives: the handler goes on with `step`. *)
Succeeds(step) == step /\ UNCHANGED disorder

(* The case "suspend" is missing: SuspensionFollowsGitHub. *)
BugInstallationRow(action) == IF action = "deleted" THEN "suspended" ELSE "active"

(* The row handleInstallationEvent writes; actions it does not know clear   *)
(* suspended_at as well.                                                    *)
InstallationRow(action) ==
    IF action \in {"suspend", "deleted"} THEN "suspended" ELSE "active"

(* handleInstallationEvent. *)
UpsertInstallation(h) ==
    LET row == InstallationRow(handlers[h].event.action) IN
    /\ handlers[h].pc = "upsert"
    /\ \/ inst' = row /\ Succeeds(Answer(h))
       \/ inst' \in {inst, row} /\ StatementFails(h)
    /\ UNCHANGED <<jobs, pulls, suspended, inflight, emitted>>

(* A conversion to draft is overlooked: QueueFollowsPull. *)
BugEndsReview(e) == e.kind = "pull_request" /\ ~e.open

(* The pull request is closed, or becomes a draft: checked before anything  *)
(* else, also for a suspended installation.                                 *)
EndsReview(e) ==
    e.kind = "pull_request" /\ (~e.open \/ e.action = "converted_to_draft")

(* Every condition of handlePullRequestEvent for enqueueing holds, given    *)
(* the installation row it read.                                            *)
WantsReview(e, row) ==
    /\ e.kind = "pull_request"
    /\ row # "suspended"
    /\ e.action \in Allowlist
    /\ ~e.draft \/ e.action = "ready_for_review"
    /\ e.assigned

(* What follows ensureInstallation.  issue_comment has no further effect:   *)
(* it ends as skipped_suspended, skipped or skipped_no_sha.                 *)
Route(h, row) ==
    LET e == handlers[h].event IN
    \/ EndsReview(e) /\ Goto(h, "cancel_open")
    \/ ~EndsReview(e) /\ WantsReview(e, row) /\ Goto(h, "supersede")
    \/ ~EndsReview(e) /\ ~WantsReview(e, row) /\ Answer(h)

(* ensureInstallation reads the row ... *)
EnsureInstallation(h) ==
    /\ handlers[h].pc = "ensure"
    /\ \/ inst # "absent" /\ Succeeds(Route(h, inst))
       \/ inst = "absent" /\ Succeeds(Goto(h, "stub"))
       \/ StatementFails(h)
    /\ UNCHANGED <<jobs, inst, pulls, suspended, inflight, emitted>>

(* ... and upserts an active stub when there was none, without looking      *)
(* again: ON CONFLICT overwrites suspended_at.                              *)
CreateStub(h) ==
    /\ handlers[h].pc = "stub"
    /\ \/ inst' = "active" /\ Succeeds(Route(h, "active"))
       \/ inst' \in {inst, "active"} /\ StatementFails(h)
    /\ UNCHANGED <<jobs, pulls, suspended, inflight, emitted>>

(* head_sha = $4 instead of head_sha != $4: OneOpenJobPerPR. *)
BugCancelRows(r, except) ==
    [k \in Key |-> IF k[1] = r /\ k[2] = except THEN CancelledRow(jobs[k]) ELSE jobs[k]]

(* The rows a cancellation statement for pull request r selects. *)
CancelRows(r, except) ==
    [k \in Key |-> IF k[1] = r /\ k[2] # except THEN CancelledRow(jobs[k]) ELSE jobs[k]]

CancelOpenJobsForPR(h) ==
    LET e == handlers[h].event IN
    /\ handlers[h].pc = "cancel_open"
    /\ \/ jobs' = CancelRows(e.pr, NULL) /\ Succeeds(Answer(h))
       \/ jobs' \in {jobs, CancelRows(e.pr, NULL)} /\ StatementFails(h)
    /\ UNCHANGED <<inst, pulls, suspended, inflight, emitted>>

CancelJobsForPR(h) ==
    LET e == handlers[h].event IN
    /\ handlers[h].pc = "supersede"
    /\ \/ jobs' = CancelRows(e.pr, e.sha) /\ Succeeds(Goto(h, "create"))
       \/ jobs' \in {jobs, CancelRows(e.pr, e.sha)} /\ StatementFails(h)
    /\ UNCHANGED <<inst, pulls, suspended, inflight, emitted>>

(* An upsert, which queues an existing row again: ServerKeepsContract. *)
BugCreateJob(h) ==
    LET k == <<handlers[h].event.pr, handlers[h].event.sha>> IN
    /\ handlers[h].pc = "create"
    /\ jobs' = [jobs EXCEPT ![k] = NewJob] /\ Succeeds(Answer(h))
    /\ UNCHANGED <<inst, pulls, suspended, inflight, emitted>>

(* GetAccountByLogin, which changes nothing but may fail, then CreateJob;   *)
(* a row with this key, whatever its status, makes it a no-op.              *)
CreateJob(h) ==
    LET k   == <<handlers[h].event.pr, handlers[h].event.sha>>
        new == [jobs EXCEPT ![k] = NewJob] IN
    /\ handlers[h].pc = "create"
    /\ \/ jobs[k].status = "absent" /\ jobs' = new /\ Succeeds(Answer(h))
       \/ jobs[k].status # "absent" /\ jobs' = jobs /\ Succeeds(Answer(h))
       \/ jobs' \in {jobs, IF jobs[k].status = "absent" THEN new ELSE jobs} /\ StatementFails(h)
    /\ UNCHANGED <<inst, pulls, suspended, inflight, emitted>>

-----------------------------------------------------------------------------
(* The workers, as far as the enqueuer notices them: a queued job is        *)
(* claimed, a running one ends.                                             *)
WorkerStep(k) ==
    /\ \/ jobs[k].status \in Queued /\ jobs' = [jobs EXCEPT ![k] = ClaimedRow(@, Worker)]
       \/ /\ jobs[k].status = "running"
          /\ \E row \in {CompletedRow(jobs[k], jobs[k].lock_generation), FailedRow(jobs[k])} :
                jobs' = [jobs EXCEPT ![k] = row]
    /\ UNCHANGED <<inst, pulls, suspended, inflight, emitted, handlers, disorder>>

-----------------------------------------------------------------------------
GitHubStep ==
    \/ \E r \in PR : \/ OpenPull(r) \/ ClosePull(r) \/ ReopenPull(r)
                     \/ ConvertToDraft(r) \/ ReadyForReview(r) \/ Assign(r)
                     \/ \E s \in SHA : Push(r, s)
    \/ Comment
    \/ SuspendOrUnsuspend

HandlerStep(h) ==
    \/ UpsertInstallation(h) \/ EnsureInstallation(h) \/ CreateStub(h)
    \/ CancelOpenJobsForPR(h) \/ CancelJobsForPR(h) \/ CreateJob(h)

Next ==
    \/ GitHubStep
    \/ \E h \in Handler : \/ HandlerStep(h)
                          \/ DeliverNext(h) \/ DeliverTwice(h)
                          \/ \E i \in 2 .. Len(inflight) : DeliverLate(h, i)
    \/ LoseDelivery
    \/ \E k \in Key : WorkerStep(k)

Spec == Init /\ [][Next]_vars

-----------------------------------------------------------------------------
(* Every variable has its type. *)
TypeOK ==
    /\ jobs \in [Key -> JobRow({Worker})]
    /\ inst \in {"absent", "active", "suspended"}
    /\ pulls \in [PR -> Pull]
    /\ suspended \in BOOLEAN
    /\ inflight \in Seq(Event)
    /\ emitted \in 0 .. MaxEvents
    /\ handlers \in [Handler ->
          [pc : {"idle", "upsert", "ensure", "stub", "cancel_open", "supersede", "create"},
           event : Event \cup {NULL}]]
    /\ disorder \subseteq {"concurrent", "reordered", "lost", "redelivered", "failed"}

OpenKeys(r) == {k \in Key : k[1] = r /\ jobs[k].status \in Open}

(* Supersede logic (enqueue.go:156): as long as the server handles one      *)
(* event at a time, a pull request never has two open jobs, even when       *)
(* events are lost, repeated or reordered, a handler fails between its      *)
(* statements, or a worker claims a job in the middle of one.               *)
OneOpenJobPerPR ==
    "concurrent" \notin disorder => \A r \in PR : Cardinality(OpenKeys(r)) <= 1

(* Everything emitted has been handled, in order, once, without a failure. *)
Settled == disorder = {} /\ inflight = <<>> /\ \A h \in Handler : handlers[h].pc = "idle"

(* Once every event is handled, undisturbed: a pull request that is closed  *)
(* or a draft has no open job (enqueue.go:110-121); for one that asked for  *)
(* a review of its head, and whose head was not replaced, closed or drafted *)
(* before, the head's job was enqueued and not cancelled, and no other job  *)
(* is open (enqueue.go:123-204).                                            *)
QueueFollowsPull ==
    Settled => \A r \in PR :
        LET pull == pulls[r] IN
        /\ ~pull.open \/ pull.draft => OpenKeys(r) = {}
        /\ pull.triggered /\ pull.head \notin pull.past =>
              /\ jobs[<<r, pull.head>>].status \notin {"absent", "cancelled"}
              /\ OpenKeys(r) \subseteq {<<r, pull.head>>}

(* Once every event is handled, undisturbed, the installation row is        *)
(* suspended exactly when GitHub has suspended it: the stub an early event  *)
(* creates does not outlive a suspension (enqueue.go:64-93, 249-278).       *)
SuspensionFollowsGitHub ==
    Settled => (inst = "suspended" <=> suspended)

Table == INSTANCE JobTable WITH
    Row    <- Key,
    status <- [k \in Key |-> jobs[k].status]

(* However webhooks are lost, repeated, reordered or interleaved, and       *)
(* wherever a handler fails, all the server does to the queue is insert     *)
(* rows that are not there and cancel unsettled ones: a job that was        *)
(* claimed, settled or cancelled before is never queued again (enqueue.go:  *)
(* 120, 158 and 192).  What this module takes for granted of the workers is *)
(* the other half of the contract.                                          *)
ServerKeepsContract ==
    /\ Table!Init
    /\ [][\/ Table!ServerStep /\ handlers' # handlers
          \/ Table!WorkerStep /\ handlers' = handlers]_(Table!vars)

-----------------------------------------------------------------------------
(* What comments of the repository say and the code does not keep.          *)

(* enqueue.go:194 "Job already enqueued for PR ... (no-op success)": a row  *)
(* that turns an enqueue into a no-op stands for a job that will be, is     *)
(* being or was executed.                                                   *)
NoopMeansQueued ==
    \A h \in Handler : handlers[h].pc = "create" =>
        jobs[<<handlers[h].event.pr, handlers[h].event.sha>>].status # "cancelled"

(* store.go:357 "cancels all non-terminal jobs for a specific PR except the *)
(* specified head SHA (supersede logic)": no two jobs of a pull request     *)
(* stay open.                                                               *)
SupersededIsCancelled ==
    (\A h \in Handler : handlers[h].pc = "idle") =>
        \A r \in PR : Cardinality(OpenKeys(r)) <= 1
=============================================================================
