------------------------------- MODULE Worker -------------------------------
(***************************************************************************)
(* The review workers: processes that run `agent-frei worker`, each with   *)
(* several loops (internal/worker), the pipeline a loop runs on a claimed  *)
(* job (detective, memory, critic, diplomat) and the publication fence of  *)
(* the diplomat (internal/diplomat), over the two tables of Store.         *)
(*                                                                         *)
(* One action is one database statement or one remote call together with   *)
(* the straight-line code up to the next one.  What the HTTP server does   *)
(* to the tables (CreateJob, CancelJobs), the clock (LeaseExpires,         *)
(* LeaseStalls) and the operator (Start, Shutdown, Crash) run concurrently.*)
(***************************************************************************)
EXTENDS Store

CONSTANTS
    Job,            \* jobs that may be enqueued
    Process,        \* worker processes; a process is its WORKER_ID
    Loop,           \* worker loops (goroutines) of all processes
    ProcOf,         \* the process a loop belongs to
    Publishing,     \* processes configured with FF_PUBLISH_COMMENTS=true
    LLMFallback,    \* LLM_FALLBACK_PROVIDER names a provider
    AppBotFallback, \* FF_APP_BOT_PUBLISH_FALLBACK=true
    HeartbeatInTime,\* WORKER_HEARTBEAT_INTERVAL is shorter than WORKER_LEASE,
                    \* which nothing checks
    MaxFaults       \* bound on faults: see Fault

ASSUME ProcOfAssumption == ProcOf \in [Loop -> Process]
ASSUME NullAssumption == NULL \notin Process /\ NULL \notin Job
ASSUME ConfigAssumption == /\ Publishing \subseteq Process
                           /\ LLMFallback \in BOOLEAN
                           /\ {AppBotFallback, HeartbeatInTime} \subseteq BOOLEAN
ASSUME MaxFaultsAssumption == MaxFaults \in Nat

VARIABLES
    jobs,    \* the table review_jobs
    pubs,    \* the table review_publications
    reviews, \* how many reviews GitHub accepted for each job
    loops,   \* what each worker loop is doing
    proc,    \* "up", "draining" (signal received) or "down"
    faults   \* faults so far

vars == <<jobs, pubs, reviews, loops, proc, faults>>

(* Where a loop stands while runPipeline runs, its heartbeat goroutine      *)
(* beside it ...                                                            *)
Pipeline == {"check_detective", "detective", "check_memory", "check_critic",
             "critic", "check_diplomat", "diplomat", "begin", "existing",
             "post", "failpub", "finalize", "check_final"}

(* ... and where it finalizes the job after the heartbeat has stopped.      *)
Finalizing == {"finish", "fail", "complete"}

(* A loop waiting for its next poll. *)
Idle == [pc |-> "poll", job |-> NULL, gen |-> 0, ctx |-> "live", err |-> "none"]

(* What runPipeline returns: nil, an error that wraps context.Canceled,     *)
(* ErrJobCancelled, or any other error.                                     *)
Errors == {"none", "canceled", "cancelled_in_db", "other"}

(* job, gen: the row ClaimJob returned; ctx: jobCtx. *)
LoopState ==
    [pc : Pipeline \cup Finalizing \cup {"poll"}, job : Job \cup {NULL},
     gen : Nat, ctx : {"live", "done"}, err : Errors]

Busy(l) == loops[l].pc # "poll"

(* The context every loop of the process shares, cancelled by a signal. *)
ParentDone(l) == proc[ProcOf[l]] = "draining"

(* jobCtx: cancelled by the heartbeat goroutine or by its parent. *)
CtxDone(l) == loops[l].ctx = "done" \/ ParentDone(l)

(* The fence in the WHERE clauses, for the job a loop holds. *)
Owned(l) == OwnedBy(jobs[loops[l].job], ProcOf[l], loops[l].gen)

(***************************************************************************)
(* Faults: a lost or failed database statement, a stalled process, a crash *)
(* or a shutdown.  Each costs one of MaxFaults, which bounds how often a   *)
(* job can be reclaimed.  Failures that end the job (GitHub and LLM errors)*)
(* cost nothing.                                                           *)
(***************************************************************************)
Fault == faults < MaxFaults /\ faults' = faults + 1

(* How a statement can end under a context: applied ("ok"); not applied     *)
(* ("err"); applied but reported as an error, because the reply is lost or  *)
(* the context is cancelled while the statement is in flight ("lost").      *)
Outcome(r, done) ==
    \/ r = "ok" /\ ~done /\ UNCHANGED faults
    \/ r \in {"err", "lost"} /\ done /\ UNCHANGED faults
    \/ r \in {"err", "lost"} /\ ~done /\ Fault

(* The error of a call that fails under jobCtx: it wraps context.Canceled   *)
(* exactly when jobCtx is done.                                             *)
CtxError(l) == IF CtxDone(l) THEN "canceled" ELSE "other"

Goto(l, next) == loops' = [loops EXCEPT ![l].pc = next]

(* runPipeline returns an error. *)
Return(l, e) == loops' = [loops EXCEPT ![l].pc = "finish", ![l].err = e]

(* The loop keeps the job it gave up: TypeOK. *)
BugRelease(l) == loops' = [loops EXCEPT ![l].pc = "poll"]

(* process returns, and the loop waits for its ticker. *)
Release(l) == loops' = [loops EXCEPT ![l] = Idle]

Init ==
    /\ jobs = [j \in Job |-> NoJob]
    /\ pubs = [j \in Job |-> NoPub]
    /\ reviews = [j \in Job |-> 0]
    /\ loops = [l \in Loop |-> Idle]
    /\ proc = [p \in Process |-> "up"]
    /\ faults = 0

-----------------------------------------------------------------------------
(* The HTTP server's statements, the clock and the operator.                *)

CreateJob(j) ==
    /\ jobs[j].status = "absent"
    /\ jobs' = [jobs EXCEPT ![j] = NewJob]
    /\ UNCHANGED <<pubs, reviews, loops, proc, faults>>

(* One cancellation statement that matches some row: S is the pull request  *)
(* its WHERE clause selects.                                                *)
CancelJobs(S) ==
    /\ \E j \in S : CancelledRow(jobs[j]) # jobs[j]
    /\ jobs' = [j \in Job |-> IF j \in S THEN CancelledRow(jobs[j]) ELSE jobs[j]]
    /\ UNCHANGED <<pubs, reviews, loops, proc, faults>>

(* The heartbeat statement of l, whose WHERE clause is the fence, makes a   *)
(* lease that is about to run out live again.                               *)
Renews(l) ==
    LET row == jobs[loops[l].job] IN
    Owned(l) /\ HeartbeatRow([row EXCEPT !.locked_until = "past"]).locked_until = "live"

(* Within every lease some loop renews that of j, or is about to finalize   *)
(* the job.                                                                 *)
Renewing(j) ==
    /\ HeartbeatInTime
    /\ \E l \in Loop : Busy(l) /\ loops[l].job = j /\ ~CtxDone(l) /\ Renews(l)

ClockPasses(j) ==
    /\ jobs[j].status = "running"
    /\ jobs[j].locked_until = "live"
    /\ jobs' = [jobs EXCEPT ![j].locked_until = "past"]
    /\ UNCHANGED <<pubs, reviews, loops, proc>>

(* No heartbeat comes in time: the clock reaches locked_until. *)
LeaseExpires(j) == ~Renewing(j) /\ ClockPasses(j) /\ UNCHANGED faults

(* The clock reaches locked_until although a loop holds the job: its        *)
(* process was paused, or the database was unreachable, for a whole lease.  *)
LeaseStalls(j) == Renewing(j) /\ ClockPasses(j) /\ Fault

Start(p) ==
    /\ proc[p] = "down"
    /\ proc' = [proc EXCEPT ![p] = "up"]
    /\ UNCHANGED <<jobs, pubs, reviews, loops, faults>>

(* SIGINT or SIGTERM cancels the context of every loop. *)
Shutdown(p) ==
    /\ proc[p] = "up"
    /\ Fault
    /\ proc' = [proc EXCEPT ![p] = "draining"]
    /\ UNCHANGED <<jobs, pubs, reviews, loops>>

(* Start returns once every loop has left process and seen ctx.Done. *)
Exit(p) ==
    /\ proc[p] = "draining"
    /\ \A l \in Loop : ProcOf[l] = p => ~Busy(l)
    /\ proc' = [proc EXCEPT ![p] = "down"]
    /\ UNCHANGED <<jobs, pubs, reviews, loops, faults>>

Crash(p) ==
    /\ proc[p] # "down"
    /\ Fault
    /\ proc' = [proc EXCEPT ![p] = "down"]
    /\ loops' = [l \in Loop |-> IF ProcOf[l] = p THEN Idle ELSE loops[l]]
    /\ UNCHANGED <<jobs, pubs, reviews>>

-----------------------------------------------------------------------------
(* pollAndProcess.  SKIP LOCKED lets a claim pass over the oldest claimable *)
(* row while another transaction holds it, so any claimable row may come.   *)

ClaimJob(l, j) ==
    /\ ~Busy(l) /\ proc[ProcOf[l]] = "up"
    /\ Claimable(jobs[j])
    /\ jobs' = [jobs EXCEPT ![j] = ClaimedRow(@, ProcOf[l])]
    /\ loops' = [loops EXCEPT ![l] =
           [Idle EXCEPT !.pc = "check_detective", !.job = j,
                        !.gen = jobs'[j].lock_generation]]
    /\ UNCHANGED <<pubs, reviews, proc, faults>>

(* The claim is committed but its reply never arrives: pollAndProcess logs  *)
(* an error and nobody works on the row.                                    *)
ClaimLost(l, j) ==
    /\ ~Busy(l) /\ proc[ProcOf[l]] # "down"
    /\ Claimable(jobs[j])
    /\ Fault
    /\ jobs' = [jobs EXCEPT ![j] = ClaimedRow(@, ProcOf[l])]
    /\ UNCHANGED <<pubs, reviews, loops, proc>>

(* The queue is empty, or the claim failed: keep sleeping. *)
PollEmpty(l) ==
    /\ ~Busy(l) /\ proc[ProcOf[l]] = "up"
    /\ \A j \in Job : ~Claimable(jobs[j])
    /\ UNCHANGED vars

(* One tick of the heartbeat goroutine: any error, and a row that is no     *)
(* longer owned, cancels jobCtx.                                            *)
HeartbeatJob(l) ==
    /\ loops[l].pc \in Pipeline /\ ~CtxDone(l)
    /\ \E r \in {"ok", "err", "lost"} :
        /\ Outcome(r, FALSE)
        /\ jobs' = IF Owned(l) /\ r # "err"
                   THEN [jobs EXCEPT ![loops[l].job] = HeartbeatRow(@)]
                   ELSE jobs
        /\ loops' = IF Owned(l) /\ r = "ok"
                    THEN loops
                    ELSE [loops EXCEPT ![l].ctx = "done"]
    /\ UNCHANGED <<pubs, reviews, proc>>
-----------------------------------------------------------------------------
(* runPipeline.                                                             *)

(* The check in front of every stage: ctx.Err(), then isCancelledInDB.      *)
(* jobCtx may be cancelled before the former or between the two; a read     *)
(* that fails counts as cancelled.                                          *)
StageCheck(l, here, next) ==
    /\ loops[l].pc = here
    /\ \/ CtxDone(l) /\ UNCHANGED faults
          /\ \E e \in {"canceled", "cancelled_in_db"} : Return(l, e)
       \/ ~CtxDone(l) /\ Owned(l) /\ UNCHANGED faults /\ Goto(l, next)
       \/ ~CtxDone(l) /\ ~Owned(l) /\ UNCHANGED faults /\ Return(l, "cancelled_in_db")
       \/ ~CtxDone(l) /\ Fault /\ Return(l, "cancelled_in_db")
    /\ UNCHANGED <<jobs, pubs, reviews, proc>>

(* The memory stage is a stub: it sleeps and goes on to the critic's check. *)
PipelineCheck(l) ==
    \/ StageCheck(l, "check_detective", "detective")
    \/ StageCheck(l, "check_memory", "check_critic")
    \/ StageCheck(l, "check_critic", "critic")
    \/ StageCheck(l, "check_diplomat", "diplomat")
    \/ StageCheck(l, "check_final", "complete")

(* A stage's fenced UPDATE of its job row to `row`. *)
SaveRow(l, row, next) ==
    \E r \in {"ok", "err", "lost"} :
        /\ Outcome(r, CtxDone(l))
        /\ jobs' = IF Owned(l) /\ r # "err"
                   THEN [jobs EXCEPT ![loops[l].job] = row] ELSE jobs
        /\ IF Owned(l) /\ r = "ok" THEN Goto(l, next) ELSE Return(l, CtxError(l))

(* A stage's own work fails before it has changed anything. *)
StageFails(l, e) == Return(l, e) /\ UNCHANGED <<jobs, faults>>

(* Build reads the installation, gets a token and lists the pull request's  *)
(* files, each under jobCtx; every failure wraps its cause with %w.         *)
BuildError(l) == CtxError(l)

(* The context Build returns is saved with UpdateJobContext. *)
DetectiveStage(l) ==
    /\ loops[l].pc = "detective"
    /\ \/ StageFails(l, BuildError(l))
       \/ SaveRow(l, ContextRow(jobs[loops[l].job], loops[l].gen), "check_memory")
    /\ UNCHANGED <<pubs, reviews, proc>>

(* The LLM router tries the fallback provider even when jobCtx is done, and *)
(* formats both errors with %v: context.Canceled is no longer in the chain. *)
RouterError(l) == IF LLMFallback THEN "other" ELSE CtxError(l)

CriticStage(l) ==
    /\ loops[l].pc = "critic"
    /\ \/ StageFails(l, RouterError(l))
       \/ SaveRow(l, ResultRow(jobs[loops[l].job], loops[l].gen), "check_diplomat")
    /\ UNCHANGED <<pubs, reviews, proc>>
-----------------------------------------------------------------------------
(* Publish.                                                                 *)

Real(l) == ProcOf[l] \in Publishing

(* A failed account lookup is only logged, so a cancelled jobCtx surfaces   *)
(* as context.Canceled only in the App Bot fallback.                        *)
TokenError(l) == IF AppBotFallback THEN CtxError(l) ELSE "other"

(* Token resolution; a dry run needs no token. *)
ResolveToken(l) ==
    /\ loops[l].pc = "diplomat"
    /\ \/ (~CtxDone(l) \/ ~Real(l)) /\ Goto(l, "begin")
       \/ Real(l) /\ Return(l, TokenError(l))
    /\ UNCHANGED <<jobs, pubs, reviews, proc, faults>>

(* The INSERT whose UNIQUE constraint is the fence. *)
BeginPublication(l) ==
    LET j == loops[l].job IN
    /\ loops[l].pc = "begin"
    /\ \E r \in {"ok", "err", "lost"} :
        /\ Outcome(r, CtxDone(l))
        /\ pubs' = IF r # "err" /\ SlotFree(pubs[j])
                   THEN [pubs EXCEPT ![j] = PendingPub] ELSE pubs
        /\ \/ r # "ok" /\ Return(l, CtxError(l))
           \/ r = "ok" /\ ~SlotFree(pubs[j]) /\ Goto(l, "existing")
           \/ r = "ok" /\ SlotFree(pubs[j]) /\ Real(l) /\ Goto(l, "post")
           \/ r = "ok" /\ SlotFree(pubs[j]) /\ ~Real(l) /\ Goto(l, "finalize")
    /\ UNCHANGED <<jobs, reviews, proc>>

(* ErrPublicationExists: GetPublication decides.  A dry run accepts any     *)
(* state; a real one returns nil on "published" and "pending_github".       *)
ExistingPublication(l) ==
    /\ loops[l].pc = "existing"
    /\ \/ /\ ~CtxDone(l) /\ UNCHANGED faults
          /\ IF Real(l) /\ pubs[loops[l].job].state = "failed"
             THEN Return(l, "other") ELSE Goto(l, "check_final")
       \/ /\ CtxDone(l) /\ UNCHANGED faults
          /\ Return(l, IF Real(l) THEN "canceled" ELSE "other")
       \/ ~CtxDone(l) /\ Fault /\ Return(l, "other")
    /\ UNCHANGED <<jobs, pubs, reviews, proc>>

(* CreatePullReview: GitHub accepts the review and answers; refuses it or   *)
(* is not reached; or accepts it while the answer never arrives.            *)
Post(l) ==
    LET j == loops[l].job IN
    /\ loops[l].pc = "post"
    /\ \/ ~CtxDone(l) /\ reviews' = [reviews EXCEPT ![j] = @ + 1] /\ Goto(l, "finalize")
       \/ /\ reviews' \in {reviews, [reviews EXCEPT ![j] = @ + 1]}
          /\ loops' = [loops EXCEPT ![l].pc = "failpub", ![l].err = CtxError(l)]
    /\ UNCHANGED <<jobs, pubs, proc, faults>>

(* FailPublication runs under jobCtx and its error is ignored: after a POST *)
(* that was cancelled it never reaches the database.                        *)
FailPublication(l) ==
    LET j == loops[l].job IN
    /\ loops[l].pc = "failpub"
    /\ \/ /\ loops[l].err # "canceled" /\ UNCHANGED faults
          /\ pubs' = [pubs EXCEPT ![j] = FailedPub(@)]
       \/ CtxDone(l) /\ UNCHANGED <<pubs, faults>>
       \/ ~CtxDone(l) /\ Fault /\ UNCHANGED pubs
    /\ Goto(l, "finish")
    /\ UNCHANGED <<jobs, reviews, proc>>

FinalizePublication(l) ==
    LET j  == loops[l].job
        id == IF Real(l) THEN "id" ELSE "null" IN
    /\ loops[l].pc = "finalize"
    /\ \E r \in {"ok", "err", "lost"} :
        /\ Outcome(r, CtxDone(l))
        /\ pubs' = IF r # "err" THEN [pubs EXCEPT ![j] = PublishedPub(@, id)] ELSE pubs
        /\ IF r = "ok" THEN Goto(l, "check_final") ELSE Return(l, CtxError(l))
    /\ UNCHANGED <<jobs, reviews, proc>>
-----------------------------------------------------------------------------
(* The rest of process, under the parent context.                           *)

(* runPipeline returned an error: is the job to be abandoned or failed?     *)
FinishCheck(l) ==
    /\ loops[l].pc = "finish"
    /\ \/ /\ loops[l].err = "canceled" \/ ParentDone(l) \/ ~Owned(l)
          /\ Release(l) /\ UNCHANGED faults
       \/ /\ loops[l].err # "canceled" /\ ~ParentDone(l) /\ Owned(l)
          /\ Goto(l, "fail") /\ UNCHANGED faults
       \/ /\ loops[l].err # "canceled" /\ ~ParentDone(l) /\ Fault
          /\ Release(l)
    /\ UNCHANGED <<jobs, pubs, reviews, proc>>

(* FailJob and CompleteJob: whatever happens is only logged. *)
FinalUpdate(l, here, row) ==
    /\ loops[l].pc = here
    /\ \E r \in {"ok", "err", "lost"} :
        /\ Outcome(r, ParentDone(l))
        /\ jobs' = IF Owned(l) /\ r # "err"
                   THEN [jobs EXCEPT ![loops[l].job] = row] ELSE jobs
    /\ Release(l)
    /\ UNCHANGED <<pubs, reviews, proc>>

FailJob(l) ==
    FinalUpdate(l, "fail", FailedRow(jobs[loops[l].job]))

CompleteJob(l) ==
    FinalUpdate(l, "complete", CompletedRow(jobs[loops[l].job], loops[l].gen))
-----------------------------------------------------------------------------
LoopStep(l) ==
    \/ \E j \in Job : ClaimJob(l, j)
    \/ PipelineCheck(l)
    \/ DetectiveStage(l)
    \/ CriticStage(l)
    \/ ResolveToken(l)
    \/ BeginPublication(l)
    \/ ExistingPublication(l)
    \/ Post(l)
    \/ FailPublication(l)
    \/ FinalizePublication(l)
    \/ FinishCheck(l)
    \/ FailJob(l)
    \/ CompleteJob(l)

Next ==
    \/ \E j \in Job : CreateJob(j) \/ LeaseExpires(j) \/ LeaseStalls(j)
    \/ \E S \in SUBSET Job : CancelJobs(S)
    \/ \E p \in Process : Start(p) \/ Shutdown(p) \/ Exit(p) \/ Crash(p)
    \/ \E l \in Loop, j \in Job : ClaimLost(l, j)
    \/ \E l \in Loop : LoopStep(l) \/ HeartbeatJob(l) \/ PollEmpty(l)

(* The LLM call returns or not: see EveryJobSettles. *)
InCritic(l) == loops[l].pc = "critic"

(* A goroutine that can run eventually runs, and HTTP calls and statements  *)
(* end; of a call of the LLM this is not said, because cmd.Wait (cli.go:68) *)
(* may block past every deadline.  Time passes, so a lease nobody renews    *)
(* runs out.  Nothing obliges a process to start or a fault to occur.       *)
Fairness ==
    /\ \A l \in Loop : WF_vars(~InCritic(l) /\ LoopStep(l))
    /\ \A j \in Job : WF_vars(LeaseExpires(j))

Spec == Init /\ [][Next]_vars /\ Fairness

-----------------------------------------------------------------------------
(* Every variable has its type, and a loop has a claimed row exactly while  *)
(* it is inside process (worker.go:122).                                    *)
TypeOK ==
    /\ jobs \in [Job -> JobRow(Process)]
    /\ pubs \in [Job -> PubRow]
    /\ reviews \in [Job -> Nat]
    /\ loops \in [Loop -> LoopState]
    /\ proc \in [Process -> {"up", "draining", "down"}]
    /\ faults \in 0 .. MaxFaults
    /\ \A l \in Loop : Busy(l) <=> loops[l].job # NULL

(* However often a job is reclaimed, crashed, stalled or retried, GitHub    *)
(* receives at most one review for it (the fence of publish.go:145).        *)
AtMostOneReview == \A j \in Job : reviews[j] <= 1

(* A lock generation names one execution: no two loops ever work under the  *)
(* same (job, generation), and none under one the row has not reached, so   *)
(* the fence of store.go:481 admits one loop at a time.                     *)
GenerationIsUnique ==
    \A l \in Loop : Busy(l) =>
        /\ loops[l].gen <= jobs[loops[l].job].lock_generation
        /\ \A m \in Loop \ {l} :
              loops[m].job = loops[l].job => loops[m].gen # loops[l].gen

(* A completed job holds the context and the result of the same execution,  *)
(* the one that completed it: no write of a superseded loop got in between  *)
(* (the fences of UpdateJobContext, UpdateJobResult and CompleteJob).       *)
ResultFromOneExecution ==
    \A j \in Job : jobs[j].status = "completed" =>
        /\ jobs[j].context_by = jobs[j].lock_generation
        /\ jobs[j].result_by = jobs[j].lock_generation

(* A job is completed only once its publication slot is taken, and the      *)
(* execution that finds it completed at the first claim published it itself *)
(* (publish.go:145-188, pipeline.go:90).                                    *)
CompletedIsReserved ==
    \A j \in Job : jobs[j].status = "completed" =>
        /\ pubs[j].state # "absent"
        /\ jobs[j].lock_generation = 1 => pubs[j].state = "published"

(* A publication marked published with a review id has a review on GitHub;  *)
(* one without an id was registered by a dry run (publish.go:60-83, 185).   *)
PublishedIsBacked ==
    \A j \in Job : pubs[j].state = "published" =>
        \/ pubs[j].github_review_id = "id" /\ reviews[j] = 1
        \/ pubs[j].github_review_id = "null" /\ Publishing # Process

(* A job is executed again only after something went wrong: a healthy       *)
(* owner's job is never taken from it (store.go:414, worker.go:139).  This  *)
(* rests on heartbeats that come within a lease and do renew it.            *)
ReclaimNeedsFault ==
    HeartbeatInTime => \A j \in Job : jobs[j].lock_generation <= faults + 1

(* No statement of any worker or webhook, however late, changes a job that  *)
(* is completed, failed or cancelled.                                       *)
TerminalIsFinal ==
    [][\A j \in Job : jobs[j].status \in Terminal => jobs'[j] = jobs[j]]_vars

(* FinalizePublication and FailPublication carry no fence, yet a settled    *)
(* publication is never overwritten and a slot never given back, because    *)
(* only the loop whose INSERT succeeded reaches them (store.go:636-672).    *)
PublicationSettlesOnce ==
    [][\A j \in Job :
          /\ pubs[j].state \in {"published", "failed"} => pubs'[j] = pubs[j]
          /\ pubs[j].state # "absent" => pubs'[j].state # "absent"]_vars

(* The execution that owns j waits for the LLM. *)
AwaitsLLM(j) == \E l \in Loop : InCritic(l) /\ loops[l].job = j /\ Owned(l)

(* Once some loop's process stays up and the loop itself does not hang in   *)
(* the call of the LLM, every enqueued job whose own calls of the LLM end   *)
(* is eventually completed, failed or cancelled, whatever crashed, stalled  *)
(* or was lost before and whichever other executions hang (the reclaim of   *)
(* store.go:414 picks up what was abandoned).  A call that hangs for good   *)
(* (cli.go:68) keeps its job running, since the heartbeat goes on renewing  *)
(* the lease (worker.go:139).                                               *)
EveryJobSettles ==
    (/\ HeartbeatInTime
     /\ \E l \in Loop : <>[](proc[ProcOf[l]] = "up") /\ []<>~InCritic(l))
    => \A j \in Job :
          []<>~AwaitsLLM(j) => (jobs[j].status = "pending" ~> jobs[j].status \in Terminal)

-----------------------------------------------------------------------------
(* What comments and documents of the repository say and the code does not  *)
(* keep; each is checked by a run that finds a counterexample.              *)

(* publish.go:52 "Publish takes job findings and publishes a GitHub pull    *)
(* request review": with real publishing, a completed job has its review.   *)
CompletedMeansPublished ==
    \A j \in Job : jobs[j].status = "completed" => reviews[j] = 1

(* worker.go:68 "Blocks until the context is cancelled, ensuring active     *)
(* jobs finish gracefully": a process that exits leaves no job running.     *)
ExitIsGraceful ==
    [][\A p \in Process : Exit(p) =>
          \A j \in Job : ~(jobs[j].status = "running" /\ jobs[j].locked_by = p)]_vars

(* worker.go:157 "Check if it was cancelled internally (due to manual       *)
(* cancel or heartbeat loss)": a job whose heartbeat was lost is aborted,   *)
(* never marked failed.                                                     *)
HeartbeatLossAborts ==
    \A l \in Loop : loops[l].pc = "fail" => loops[l].ctx = "live"
=============================================================================
