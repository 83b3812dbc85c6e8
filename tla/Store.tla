------------------------------- MODULE Store -------------------------------
(***************************************************************************)
(* The rows of review_jobs and review_publications and the effect of each  *)
(* SQL statement of internal/store/postgres/store.go on one row.  A        *)
(* statement is one atomic UPDATE or INSERT; every module that touches the *)
(* two tables applies these operators.                                     *)
(*                                                                         *)
(* Data abstraction.  locked_until is compared with NOW() and nothing      *)
(* else, so it is NULL ("null"), in the future ("live") or in the past     *)
(* ("past").  context_blob and result_blob are replaced by the lock        *)
(* generation whose pipeline wrote them (0: the webhook payload written at *)
(* enqueue time, or NULL).  attempt, always equal to lock_generation, and  *)
(* last_error are written but never read, and are left out.                *)
(*                                                                         *)
(* An operator whose name starts with Bug is a plausible mistake in the    *)
(* operator that follows it; no specification uses it.  It documents which *)
(* property notices the mistake.                                           *)
(***************************************************************************)
EXTENDS Naturals

CONSTANT NULL

Statuses == {"pending", "running", "retry_wait", "needs_reconcile",
             "completed", "failed", "cancelled"}

(* The statuses ClaimJob takes without looking at the lease. *)
Queued == {"pending", "retry_wait", "needs_reconcile"}

(* The statuses both cancellation statements select. *)
Open == {"pending", "running", "retry_wait"}

Terminal == {"completed", "failed", "cancelled"}

JobRow(workers) ==
    [status : Statuses \cup {"absent"}, lock_generation : Nat,
     locked_by : workers \cup {NULL}, locked_until : {"null", "live", "past"},
     context_by : Nat, result_by : Nat]

NoJob == [status |-> "absent", lock_generation |-> 0, locked_by |-> NULL,
          locked_until |-> "null", context_by |-> 0, result_by |-> 0]

(* The status is left at its zero value: TypeOK. *)
BugNewJob == [NoJob EXCEPT !.status = ""]

(* CreateJob: the row the enqueuer inserts. *)
NewJob == [NoJob EXCEPT !.status = "pending"]

(* The statuses are not checked: TerminalIsFinal. *)
BugCancelledRow(row) ==
    IF row.status # "absent" THEN [row EXCEPT !.status = "cancelled"] ELSE row

(* CancelJobsForPR and CancelOpenJobsForPR: only open rows are matched, and *)
(* the lock fields are left as they are.                                    *)
CancelledRow(row) ==
    IF row.status \in Open THEN [row EXCEPT !.status = "cancelled"] ELSE row

(* A running job is never reclaimed: EveryJobSettles. *)
BugClaimableQueued(row) == row.status \in Queued

(* The WHERE clause of ClaimJob. *)
Claimable(row) ==
    \/ row.status \in Queued
    \/ row.status = "running" /\ row.locked_until = "past"

(* The generation is not advanced: GenerationIsUnique. *)
BugClaimedRow(row, worker) ==
    [row EXCEPT !.status = "running", !.locked_by = worker, !.locked_until = "live"]

ClaimedRow(row, worker) ==
    [row EXCEPT !.status = "running",
                !.lock_generation = @ + 1,
                !.locked_by = worker,
                !.locked_until = "live"]

(* Ownership is judged by WORKER_ID alone: ResultFromOneExecution. *)
BugOwnedBy(row, worker, gen) == row.status = "running" /\ row.locked_by = worker

(* The fence of every statement a pipeline issues on its job.  It does not  *)
(* look at locked_until: an owner whose lease ran out still owns the row    *)
(* until somebody reclaims it.                                              *)
OwnedBy(row, worker, gen) ==
    /\ row.status = "running"
    /\ row.locked_by = worker
    /\ row.lock_generation = gen

(* The lease is not extended: ReclaimNeedsFault. *)
BugHeartbeatRow(row) == row

HeartbeatRow(row) == [row EXCEPT !.locked_until = "live"]

ContextRow(row, gen) == [row EXCEPT !.context_by = gen]

ResultRow(row, gen) == [row EXCEPT !.result_by = gen]

CompletedRow(row, gen) ==
    [row EXCEPT !.status = "completed", !.result_by = gen,
                !.locked_by = NULL, !.locked_until = "null"]

(* A failed job is put back for a retry: WorkersKeepContract. *)
BugFailedRow(row) ==
    [row EXCEPT !.status = "retry_wait",
                !.locked_by = NULL, !.locked_until = "null"]

FailedRow(row) ==
    [row EXCEPT !.status = "failed",
                !.locked_by = NULL, !.locked_until = "null"]

-----------------------------------------------------------------------------
(* review_publications: at most one row per job (job_id is UNIQUE), so the  *)
(* table is a function from jobs to rows.  github_review_id is NULL or an   *)
(* identifier GitHub returned.                                              *)

PubRow == [state : {"absent", "pending_github", "published", "failed"},
           github_review_id : {"null", "id"}]

NoPub == [state |-> "absent", github_review_id |-> "null"]

PendingPub == [NoPub EXCEPT !.state = "pending_github"]

(* A pending slot is taken again: AtMostOneReview. *)
BugSlotFreePending(pub) == pub.state \in {"absent", "pending_github"}

(* A failed publication is retried in place: PublicationSettlesOnce. *)
BugSlotFreeFailed(pub) == pub.state \in {"absent", "failed"}

(* BeginPublication: the INSERT violates UNIQUE (job_id) unless the slot is *)
(* free.                                                                    *)
SlotFree(pub) == pub.state = "absent"

(* Only the review id is stored: CompletedIsReserved. *)
BugPublishedPub(pub, id) == [pub EXCEPT !.github_review_id = id]

(* FinalizePublication and FailPublication match on job_id alone: neither   *)
(* the lock generation nor the current state is part of the WHERE clause.   *)
PublishedPub(pub, id) ==
    [pub EXCEPT !.state = "published", !.github_review_id = id]

(* The state is copied from FinalizePublication: PublishedIsBacked. *)
BugFailedPub(pub) == [pub EXCEPT !.state = "published"]

(* A failed publication gives its slot back for a retry: ImplementsLedger. *)
BugFailedPubRetry(pub) == NoPub

FailedPub(pub) == [pub EXCEPT !.state = "failed"]
=============================================================================
