# A TLA+ model of agent-frei

agent-frei is a GitHub App that reviews pull requests with an LLM. An HTTP
server turns webhooks into rows of a job table in PostgreSQL; worker processes
claim rows, run a pipeline on each and publish one review on GitHub. The
processes share nothing but the database, and every one of them may be stopped,
paused or killed at any point. The model is about what holds nevertheless.

## Inventory

| Part | State | Operations | Modelled in |
|---|---|---|---|
| Tables `review_jobs`, `review_publications` (`internal/store/postgres`, `migrations`) | one row per (installation, repository, PR, head SHA); at most one publication per job | create, cancel, claim, heartbeat, save context, save result, complete, fail; begin, finalize and fail a publication | `Store` |
| Worker loops (`internal/worker/worker.go`, `cmd/agent-frei`) | claimed job, lock generation, job context, heartbeat goroutine | poll, claim, heartbeat, finish, shutdown | `Worker` |
| Pipeline (`internal/worker/pipeline.go`) | its stage | checks before each stage, detective, memory (a stub), critic, diplomat | `Worker` |
| Publication (`internal/diplomat/publish.go`) | the publication row and GitHub | dry run, token resolution, reserve, POST, settle | `Worker` |
| Enqueuer (`internal/queue`), webhook endpoint | the installation row, jobs | installation, pull_request and issue_comment events | `Enqueuer` |
| OAuth and account administration (`internal/httpserver/oauth.go`, `seed-account`) | accounts, OAuth states, rate-limit windows | start, callback, disable, seed, restart (list only reads) | `Accounts` |
| Detective (`internal/detective`) | none | build the context; truncate the changed files | `Worker` (stage), `Truncate` |
| LLM router and CLI provider (`internal/llm`) | child process, descendants, output buffer, context | try the primary, then the fallback; start, capture, kill, reap | `Provider` |
| Critic (`internal/critic`) | none | build the prompt, complete it, validate the findings | `Worker` (stage), `Critic` |
| Review mapping (`internal/diplomat/map.go`) | none | findings to comments and notes | `Review` |
| GitHub client (`internal/githubapp`) | token cache | list files, post a review | by outcome inside `Worker` |
| Configuration, encryption, JWT, signature verification | none | parsing, cryptography | no |

How they interact. Server and workers never talk to each other: the server
inserts and cancels rows, workers claim and finish them, and a worker learns of a
cancellation only when a heartbeat, a stage check or a fenced UPDATE finds the row
no longer its own. Inside a worker process, loops run as goroutines under one
context and one `WORKER_ID`; the heartbeat goroutine of a job cancels the job's
context and the pipeline notices that at its next call.

What is hard here: two executions of one job after a lease ran out; a crash or a
lost reply between any two statements; a context that is cancelled between a
check and the call it guards, and the error that surfaces then; a cancellation
racing a completion; two webhook requests interleaving between two statements;
deliveries that are late, repeated or lost; OAuth flows that overlap, repeat or
outlive their state; child processes that hang, fork or outlive a deadline; limits
on files, bytes, output and comments meeting each other. `PROJECT.json` lists these hazards at
their lines with the properties that would notice them going wrong.

What makes each part correct: the tables - a settled row stays as it is; the
workers - one execution per lock generation, a healthy owner keeps its job, an
abandoned job is picked up; publication - at most one review, and a record that
agrees with GitHub; the enqueuer - at most one open job per pull request, and a
queue that follows the pull request's state; accounts - one-time states, an exact
rate limit, a bound on active accounts; the stages of a review - each algorithm
does what its limits say, no finding is lost, and the call of the LLM ends.

## Modules

* **Store** - the two kinds of rows and what each SQL statement does to one. A
  statement is atomic. `locked_until` is kept as null, live or past, because it is
  only ever compared with `NOW()`. `context_blob` and `result_blob` are kept as the
  lock generation that wrote them. `attempt` and `last_error` are never read and
  are left out.
* **Worker** - `EXTENDS Store`. `jobs` and `pubs` are the tables, `reviews` counts
  what GitHub accepted, `loops` holds for each goroutine of `runLoop` its position,
  the claimed row and generation, the job context and the error `runPipeline`
  returned; `proc` says whether a process is up, draining after a signal, or down.
  One action is one statement or one remote call with the code up to the next.
  `StageCheck` is the pair `ctx.Err()` / `isCancelledInDB` before every stage;
  `FinishCheck` the test at `worker.go:158`. The server, the clock and the operator
  are actions beside the loops.
* **Enqueuer** - `EXTENDS Store`. GitHub (external) changes pull requests and emits
  events that are snapshots; deliveries start handlers, which run statement by
  statement. `WorkerStep` is what the enqueuer sees of the workers: a queued row is
  claimed, a running one ends.
* **ReviewLedger** - what `Worker` promises about a job, its publication slot and
  its review, without workers, leases or faults. **WorkerLedger** holds the refinement
  mappings of `Worker`: the status of the row, the state of the publication row, and
  the set of jobs GitHub has accepted a review for (`posted`).
* **JobTable** - the contract of the status column: the server inserts and cancels, a
  worker starts and settles. `Enqueuer` and `WorkerLedger` each instantiate it with
  their `jobs`; one side's system steps are the other side's environment.
* **Accounts** - `states` and `limits` are the maps of one server process, guarded
  by its two mutexes (a window of the limiter is a set of requests, numbered so that
  two in one tick differ); `accounts` is the table; `starts` and `calls` say where the
  requests stand. A flow is one random state; the start request counts the accounts in
  one step (`CheckLimit`) and stores its state in a later one (`IssueState`), and
  callbacks may present any issued state any number of times. `admits`, `spent` and `overlap` record history for the
  properties and influence nothing.
* **Truncate** - the loop of `TruncatePRFiles`, one action per branch. `info` holds
  the counters of `TruncationInfo`.
* **Provider** - one call of `Router.Complete`. `call` follows `CLIProvider.Complete`
  through `Start`, `Wait` and the copying goroutines; `child` and `desc` are the
  processes, `ctx` the context both attempts share. What `os/exec` does is external
  and stated in the module's head.
* **Critic** - `EXTENDS Truncate, Provider`: `BuildPrompt` on the truncated files,
  the provider call, `ParseAndValidate` on its output.
* **Review** - `EXTENDS Critic`: the stages of one review in sequence, and
  `MapResultToRequest`.
* **MCWorker**, **MCEnqueuer**, **MCAccounts**, **MCReview** - instances for TLC.
* **StoreProofs** - lemmas about the statements of `Store`, shared by the proofs.
* **WorkerProofs**, **WorkerJobProofs**, **WorkerLedgerProofs** - the theorems about
  `Worker`: publications and generations, what a completed or reclaimed job
  promises, the refinement of `ReviewLedger`, and the workers' half of `JobTable`.
* **EnqueuerProofs**, **AccountsProofs** - the theorems about `Enqueuer`, with the
  server's half of `JobTable`, and about `Accounts`.
* **ReviewProofs**, **ReviewStageProofs** - the theorems about `Review`: the provider
  call, then the truncation, the prompt, the critic and the mapping of the findings.

`Worker` and `Enqueuer` meet in the tables. `Worker` contains the server as
`CreateJob` and `CancelJobs` on arbitrary sets of jobs, which allows more than the
enqueuer does; `Enqueuer` contains the workers as `WorkerStep`, which leaves out
only steps that do not change a status. `JobTable` makes both precise: in `Enqueuer`
a handler takes only server steps and `WorkerStep` only worker steps
(`ServerKeepsContract`); in `Worker` a loop takes only worker steps and whatever else
changes a status is a server step (`WorkersKeepContract`). Proved on both sides, they
say that neither module assumes of the other more than it does. `Review` looks inside
the stages that are single steps of `Worker`: `DetectiveStage` stands for `Truncate`, `CriticStage` for
`Critic` (its failure for `CriticFailed`), and the request `Post` sends is the one
`Review` maps. Whether the LLM call of a stage ends is left open in `Worker`;
`ReviewEnds` says when it does. `Accounts` writes the rows `ResolveToken` reads; the lookup ignores the
status, so `Worker` needs no more of them than success or failure.

An operator whose name starts with `Bug` is a plausible mistake in the definition
after it. No specification uses it; replacing the definition by it makes TLC
refute the property its comment names.

### How calls fail

Every statement of `Worker` ends in one of three ways (`Outcome`): applied; not
applied; applied but reported as failed, when the reply is lost or the context is
cancelled in flight. Under a cancelled context only the last two are possible.
The error a failing call returns matters, because `process` abandons a job when it
wraps `context.Canceled` and fails it otherwise: `CtxError`, `BuildError`,
`RouterError` and `TokenError` say which it is. The driver, pgx, and `net/http`
wrap the context's error; the LLM router does not when a fallback is configured
(`provider.go:66` formats with `%v`). A repository name without exactly one slash
(`publish.go:168`) does not occur in GitHub's payloads; its path is the one of a
refused POST.

## Runs

| Run | Checks | Instance |
|---|---|---|
| `worker_two_processes` | `TypeOK`, `AtMostOneReview`, `GenerationIsUnique`, `CompletedIsReserved`, `ReclaimNeedsFault`, `TerminalIsFinal`, `PublicationSettlesOnce`, `ImplementsLedger`, `WorkersKeepContract` | 1 publishing and 1 dry-run process, 1 loop each, 1 job, 3 faults |
| `worker_shared_id` | `ResultFromOneExecution`, `PublishedIsBacked`, `EveryJobSettles` | 1 publishing process with 2 loops, 1 job, 3 faults, no symmetry |
| `enqueuer` | `TypeOK`, `OneOpenJobPerPR`, `QueueFollowsPull`, `SuspensionFollowsGitHub`, `ServerKeepsContract` | 2 handlers, 1 pull request, 2 commits, 4 events, 2 kinds of disturbance |
| `accounts` | `TypeOK`, `StateSpentOnce`, `RateLimitHolds`, `LimiterIsExact`, `LimitHoldsWithoutOverlap` | 3 flows, 2 callback requests, 2 logins, 1 address, 5 ticks, 1 seeding, limit 1 |
| `review` | `TypeOK`, `KeptMatchesReference`, `CountersAddUp`, `CaptureIsPrefix`, `ExitZeroSucceeds`, `NoChildLeft`, `ShownAreWhole`, `FindingsAccountedFor`, `ReviewEnds` | up to 3 files of 4 kinds, up to 3 findings of 7 kinds, 2 providers that may fork, limits of 1 or 2 |

`ImplementsLedger` is the refinement: every step of the workers is a step of
`ReviewLedger` or leaves its variables unchanged. `KeptMatchesReference` and
`FindingsAccountedFor` compare a loop with a definition of its result that does not
follow it: `Wanted` allows a file what the number and the bytes of the files before
it leave, `Judged` is the set of findings that end in the same way.

Seven more runs state what a comment or a document says and end in a
counterexample:

* `worker_completed_unpublished` (`CompletedMeansPublished`): a job is completed
  although nothing was posted, because a pending slot left by a crash is taken for
  a review.
* `worker_shutdown` (`ExitIsGraceful`): a signal abandons active jobs in `running`;
  `SHUTDOWN_TIMEOUT` has no effect.
* `worker_heartbeat_loss` (`HeartbeatLossAborts`): one failed heartbeat statement
  can fail a job for good.
* `enqueuer_noop` (`NoopMeansQueued`): closing and reopening a pull request leaves
  its head unreviewed.
* `enqueuer_concurrent` (`SupersededIsCancelled`): two concurrent requests leave
  two open jobs.
* `accounts_limit` (`ActiveWithinLimit`): two flows started below
  `MAX_REVIEWER_ACCOUNTS` exceed it together.
* `provider_descendants` (`TimeoutKillsDescendants`): a descendant of a command that
  was killed at its deadline is never killed.

Seen while modelling, without a run of its own: a disabled account's token is still
used for publishing, and a new authorization enables the account again
(`README.md:207`); the status `invalid` (`domain/account.go:12`) is never set; a
patch cut at the byte limit counts as kept but is never shown to the LLM; a primary
provider that uses up the deadline leaves the fallback no time to start; states of
OAuth flows that are never finished stay in memory.

### Bounds

`MaxFaults` bounds faults that make a job run again (lost or failed statements,
stalls, crashes, shutdowns); failures that end a job are free. Two faults give an
old execution that is still running beside a new one, three let the new one be
replaced as well or fail at the publication. Two loops suffice for the races over
one row, since the fences compare a row with one execution at a time. Jobs
interact only through the loop that holds them, so one job is enough for the
fences. For `EveryJobSettles` one job leaves out that a loop which hangs with one job is
missing for the others; the instance of `WorkerSharedID.cfg` with `Job = {j1, j2}`,
`Publishing = {}` and `MaxFaults = 1` has that case, and passes too (396 thousand states).
The proofs of the safety properties remove these bounds.

The instances have `HeartbeatInTime = TRUE`, which says that
`WORKER_HEARTBEAT_INTERVAL` is shorter than `WORKER_LEASE`, as by default. Nothing in
the code checks that (`config.go:86`); otherwise a healthy owner may lose its job
any number of times. `ReclaimNeedsFault` and `EveryJobSettles` assume it, the proofs of
the other properties do not.

`MaxEvents` = 4 allows for example open, close, reopen and push, and
`MaxDisorder` = 2 any two kinds of disturbance together. Two commits allow a push
and a push back. Pull requests share only the installation row, so one is enough.
`RedeliverOften = FALSE` lets only one event be delivered again, which keeps the run
short; with `TRUE` it passes as well, on three times as many states, and the proofs hold for
both. `Enqueuer` stops when every event is
handled, and its runs do not check for deadlock; nor do those of `Review` and
`Provider`, which end with the review. The other runs do.

In `accounts`, a minute is 2 ticks and a state lives for 3: a state expires, and the
limiter's window moves on, within `MaxTime` = 5. Two of the three flows can overlap
while the third has expired. The limiter's windows are gone after a restart, so
`RateLimitHolds` and `LimiterIsExact` speak of the life of one server process, and
`Restart` clears their history too. `MaxSeeds` bounds runs of `seed-account`, which ignores
the limit; `accounts_limit` sets it to 0 so that only flows count. In `review`, the
configured file limit and prompt budget are 0, so that the defaults apply, scaled
down to 2 files and 4 characters; three files reach a file beyond either limit in
every order, and three findings go beyond one comment. `MaxProduced` = 2 lets a
chunk straddle `MaxOutput` = 1.

### Fairness

`Fairness` has weak fairness of each loop's own steps outside the call of the LLM, and
of `LeaseExpires`. The former says that a runnable goroutine runs, and that HTTP calls
end, which have a client timeout, and statements, which end with their connection. The
latter says that time passes. Nothing makes a process start, a fault happen or an LLM call
return: `cmd.Wait` (`cli.go:68`) has no `WaitDelay` and returns only when nobody holds
the command's output pipes, so a loop may stay in `critic` for good.

What can be promised then is in the premises of `EveryJobSettles`. Some loop belongs to a process
that stays up from some point on, and leaves `critic` whenever it gets there; and the
job in question is not stuck in the `critic` stage of the execution that owns it,
which would keep it running for ever, because the heartbeat goroutine goes on
renewing the lease. Loops that hang otherwise, with another job or with this one after
it was taken from them, do no harm. Without the condition on the job TLC refutes the
property in `worker_shared_id`; without the condition on the loop, in the instance
with two jobs: both loops hang with one, the second after a stall, and the other waits.

When an LLM call does end is checked in `Review`, whose fairness is that of the one
goroutine that runs the stages, of `os/exec`, and of the deadline. No child process
is obliged to write, exit or close a pipe. `ReviewEnds` assumes only that no
descendant holds a pipe for good; without that the call can hang, which is what
`provider_descendants` is about.

## Proofs

The theorems hold for all sets of processes, loops, jobs, pull requests, handlers,
flows and addresses, for every configuration and input, and for every value of the
bounds TLC needs.

| Module | Theorem | Says |
|---|---|---|
| `WorkerProofs` | `Typing` | `Worker!TypeOK` |
| | `FenceHolds` | the invariant of the publication fence |
| | `OneReviewPerJob` | `AtMostOneReview` |
| | `PublishedHasReview` | `PublishedIsBacked` |
| | `PublicationsSettleOnce` | `PublicationSettlesOnce` |
| | `SettledJobsStay` | `TerminalIsFinal` |
| | `OneLoopPerGeneration` | `GenerationIsUnique` |
| `WorkerJobProofs` | `CompletedByOneExecution` | `ResultFromOneExecution` |
| | `CompletedHasSlot` | `CompletedIsReserved` |
| | `ReclaimedAfterFault` | `ReclaimNeedsFault` |
| `WorkerLedgerProofs` | `WorkersImplementLedger` | `ImplementsLedger` |
| | `WorkersWithinContract` | `WorkersKeepContract` |
| `EnqueuerProofs` | `EnqueuerTyping` | `Enqueuer!TypeOK` |
| | `OneJobOpen` | `OneOpenJobPerPR` |
| | `SuspensionIsFollowed` | `SuspensionFollowsGitHub` |
| | `QueueIsFollowed` | `QueueFollowsPull` |
| | `ServerWithinContract` | `ServerKeepsContract` |
| `AccountsProofs` | `AccountsTyping` | `Accounts!TypeOK` |
| | `StatesAreOneTime` | `StateSpentOnce` |
| | `RateIsLimited` | `RateLimitHolds` |
| | `LimiterCountsRight` | `LimiterIsExact` |
| | `LimitWithoutOverlap` | `LimitHoldsWithoutOverlap` |
| `ReviewProofs` | `OutputIsPrefix` | `CaptureIsPrefix` |
| | `FailuresHaveReasons` | `ExitZeroSucceeds` |
| | `ChildrenAreReaped` | `NoChildLeft` |
| `ReviewStageProofs` | `CountsAddUp` | `CountersAddUp` |
| | `PatchesAreCutAtTheLimits` | `KeptMatchesReference` |
| | `PromptShowsWholePatches` | `ShownAreWhole` |
| | `ReviewTyping` | `Review!TypeOK` |
| | `FindingsAreAccountedFor` | `FindingsAccountedFor` |

They rest on the `ASSUME`s of the modules and nothing else: a loop belongs to a
process; `NULL` is no other value; bounds are naturals and limits integers of any
sign, as the configuration allows; inputs are sequences of files or findings. None
assumes that a set is finite. Each property below is made inductive by an invariant
named in its proof module.

*Publication.* `AtMostOneReview` is not inductive: a loop about to POST must know
that nobody has. `FenceInv` adds that a loop between its INSERT and the settling
statement finds the slot pending (`SlotIsPending`), is the only one there
(`SlotIsExclusive`), and what GitHub has received at each of these points
(`ReviewFollowsPost`). Only `BeginPublication`, `Post`, `FailPublication` and
`FinalizePublication` touch these facts, each with a lemma; every other action is
covered by `QuietStep`. Neither the generation nor the lease is needed: the UNIQUE
constraint alone carries the argument, also for executions that lost their job.

*Generations.* `JobStep` lists what a step may do to a row; none applies to a settled
one. `GenInv` strengthens `GenerationIsUnique` by the fact that a row not yet inserted
has generation 0: a claim moves to a generation no loop has seen, and a loop never
changes its generation while it is busy.

*What a job promises.* `RowStep` says which statement changed a row and that a fenced
one came from a loop that owns it; `Transition` says where a loop may go. A loop
past the detective that owns its row finds its own context there (`ContextIsOwn`),
since ownership, once lost, is never won back under the same generation; so the one
statement that completes a row completes it for the execution that wrote both blobs.
`ReservedInv` follows the first execution of a job: its slot is free until its own
INSERT, and published when it reaches `complete`; a later one has at least found the
slot taken. `ReclaimInv` is what makes generations cheap to count: a running row has
either used up a fault already, or has a live lease and an owner whose heartbeat renews
it (`OwnerRenews`; `ReclaimedAfterFault` needs it to come in time), and
a loop returns `context.Canceled` only under a context that is done.

*Refinement.* `WorkersImplementLedger` maps each action to one of `ReviewLedger` or a
stutter. A row changes by one statement, whose effect on the status alone is a ledger
step (`Ledger_Open`, `Ledger_Cancel`, `Ledger_Final`); a publication step moves the
slot; the POST is `Accept`. The fence provides what the ledger's guards ask for: `Accept` finds
the slot pending and nothing posted, `Refuse` that nothing was posted, and `Complete`,
by `ReservedInv`, that the slot is taken.

*Enqueuer.* `TypeInv` adds to the types that an open pull request has a head and a
handler at a statement the event that needs it. `SerialInv`, while requests take
turns: a handler about to insert has just closed every other open row of its pull
request (`Superseded`), and nobody but a handler opens a row. `needs_reconcile` is a
status a worker would claim and no UPDATE of the server cancels, so the argument also
needs that it is never written. It needs no assumption about the order, loss or repetition of events.
`SuspensionInv`, undisturbed: GitHub's last word on the suspension is the last
installation event in flight; if there is none, the one being handled; if there is
none, the row; and the stub that an early event inserts comes while there is no row.

`QueueInv` does the same for the whole queue. Undisturbed, one event is handled at a
time, so the event in hand and those in flight form one `line`, and `stage` says how
far its first one is. GitHub only appends to the line, a handler works on its front.
`LineInv` relates every pull request to the line and to its rows: for a closed one or
a draft, the event that cancels its jobs is still to come and nothing after it inserts
one, or that has happened (`QuietWhenClosed`); a head that was never replaced, closed
or drafted has its own events last, has no row while older events wait, and its row is
never cancelled (`FreshHead`); and if its review was asked for, it has its row or the
event that inserts it is in the line and will find the installation not suspended
(`TriggeredIsComing`), which is where `SuspensionInv` enters. With an empty line this
is `QueueFollowsPull`.

*Contract.* `ServerWithinContract` and `WorkersWithinContract` map each statement on
`review_jobs` to a step of `JobTable` by the side that issues it. `JobTable`'s types,
carried along, say that `retry_wait` and `needs_reconcile` are never written; without
that a claim could start from a status the contract does not name.

*Accounts.* A state that was spent or is not yet issued is not in the map
(`StateInv`). `LimiterInv`: whatever was admitted within the last minute is remembered,
and everything remembered was admitted; an admission therefore sees all earlier ones
of any minute it falls into. `LimitInv` counts: without overlap only one flow at a time can still end in an
upsert, be it still to store its state, holding one that is valid or in its callback, and
there was room for it when it was counted (`RoomIsKept`).

*Review.* `ProviderInv` records what is known of the child while the call stands at
each point of `CLIProvider.Complete` (`CurrentChild`) and after each attempt
(`Recorded`); the context never becomes live again. `TruncInv`: an unmarked file has
kept a whole patch, and a patch is cut or dropped exactly when `byBytes` is set, with the
whole byte limit used; the
cardinalities are those of the files appended so far. `IncludedInv`: fewer files are
included than processed exactly when one was skipped or fell to a limit, which is what
`TruncatedByFiles` reports at the end (`IncludedTells`). `PromptInv`: only unmarked files
are shown, and each file adds a patch that fits or a note.

`KeptInv` says what the counters of the loop, which skip over some files, still tell
of all that were seen (`LimitsCounted`): until the byte limit, the files admitted are
those seen, or as many as the limit were seen; until either limit, the bytes kept are
those seen; once `byBytes` is set, as many bytes as the limit were seen. With that,
each branch of the loop keeps what `Wanted` allows. The sums are recursive
functions; that a sum over a longer prefix adds its last file, and is a natural, is
shown by induction on a set of naturals (`NatInductionOnSet`, from the library's
theorem on least elements), since the library's own induction takes an operator.

`AccountInv` keeps two accounts. The critic's: the findings validated so far are the
positions whose `Judgement` lets them pass, in increasing order, and each kind of drop
is counted (`CriticAccounts`). The mapping's: comments, overflow and notes are the
validated findings mapped so far, split by `Judgement`, in increasing order, and
nothing overflows before the comments are full (`RequestAccounts`). `Lists`, a strictly
increasing sequence with a given range, is kept by appending a larger position
(`ListsAppend`), and its length is the size of its range (`ListsLength`).

### Only model-checked

* `EveryJobSettles` and `ReviewEnds`: liveness under fairness, which needs `ENABLED`.
* The statements of the seven runs that end in a counterexample.

Strings as tags of omitted files have no spaces because the SMT translation has no
names for those that do.

## Not modelled

Text (prompts, review bodies, logs, pages), cryptography, signature checks and
JSON decoding, environment parsing, migrations (run once, before anything else),
the language label of a file, severity and category of a finding, the classes of
provider errors (the router treats them alike), the paging of GitHub's file list,
the token cache (every use checks the expiry of what it reads, so a race over it
costs a second fetch at worst), and the order in which claimable rows are taken: `SKIP LOCKED` may pass over the
oldest, so any claimable row may be claimed. Rows are never deleted by the code.
`retry_wait` and `needs_reconcile` are read by the statements and written by none.
Of installation events, `suspend` and `unsuspend`; `created` and `deleted` write
the same two rows.

## Plan

Every safety invariant and action property of the passing runs is proved. What is left
to do: `EveryJobSettles` and `ReviewEnds`, should the prover learn `ENABLED`; and, when
the code grows, the statuses `retry_wait` and `needs_reconcile`, whose first writer will
break the contract of `JobTable` in `Store`'s operators before it breaks anything else,
and the memory stage, which is a stub.
