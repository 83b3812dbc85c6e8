------------------------- MODULE WorkerLedgerProofs -------------------------
(***************************************************************************)
(* The workers implement ReviewLedger, for any number of jobs, processes   *)
(* and loops: each statement on review_jobs is one step of the ledger's    *)
(* status or none, each statement on review_publications one step of its   *)
(* slot or none, and each POST one of its reviews or none.  The guards of  *)
(* the ledger come from the fence (FenceInv), from the generations         *)
(* (GenInv) and from the taken slots (ReservedInv).                        *)
(* The second part shows that they keep the contract of JobTable.          *)
(***************************************************************************)
EXTENDS WorkerLedger, WorkerJobProofs

(* What the two tables and GitHub show of a state. *)
Status == [j \in Job |-> JobStatus(jobs[j])]
Slot == [j \in Job |-> PubSlot(pubs[j])]
Posted == {j \in Job : reviews[j] > 0}

(* The rows of an empty database are the ledger's initial ones. *)
LEMMA Ledger_Init == Init => Ledger!Init
  <1>1. JobStatus(NoJob) = "absent" /\ PubSlot(NoPub) = "free"
    BY DEF JobStatus, PubSlot, NoJob, NoPub
  <1>2. ASSUME Init PROVE \A j \in Job : /\ JobStatus(jobs[j]) = "absent"
                                        /\ PubSlot(pubs[j]) = "free"
                                        /\ ~(reviews[j] > 0)
    BY <1>1, <1>2 DEF Init
  <1> QED
    BY <1>2 DEF Ledger!Init

(* Statements that leave the visible tables alone are stutters. *)
LEMMA Stutters ==
    ASSUME UNCHANGED <<Status, Slot, Posted>>
    PROVE  UNCHANGED Ledger!vars
  BY DEF Ledger!vars, Status, Slot, Posted

(* Every status a row can have, as the ledger sees it. *)
LEMMA StatusOf ==
    ASSUME NEW row \in JobRow(Process)
    PROVE  /\ row.status = "absent" <=> JobStatus(row) = "absent"
           /\ row.status \in {"completed", "failed", "cancelled"} => JobStatus(row) = row.status
           /\ row.status \notin {"absent", "completed", "failed", "cancelled"}
                 => JobStatus(row) = "open"
  BY DEF JobStatus, Terminal, JobRow, Statuses

(* An UPDATE of one row changes the ledger at that row only. *)
LEMMA StatusUpdate ==
    ASSUME TypeOK, NEW j \in Job, NEW row, jobs' = [jobs EXCEPT ![j] = row]
    PROVE  Status' = [Status EXCEPT ![j] = JobStatus(row)]
  BY DEF TypeOK, Status

(* CreateJob enqueues. *)
LEMMA Ledger_Create ==
    ASSUME TypeOK, NEW j \in Job, CreateJob(j)
    PROVE  Ledger!Enqueue(j)
  <1>1. JobStatus(NewJob) = "open" /\ JobStatus(jobs[j]) = "absent"
    BY DEF CreateJob, JobStatus, NewJob, NoJob, Terminal
  <1>2. Status' = [Status EXCEPT ![j] = "open"]
    BY <1>1, StatusUpdate DEF CreateJob
  <1> QED
    BY <1>1, <1>2 DEF Ledger!Enqueue, CreateJob, Status

(* A cancellation statement cancels the open jobs it matches. *)
LEMMA Ledger_Cancel ==
    ASSUME TypeOK, NEW S \in SUBSET Job, CancelJobs(S)
    PROVE  Ledger!Cancel({j \in S : jobs[j].status \in Open})
  <1>1. ASSUME NEW j \in Job, jobs[j].status \in Open
        PROVE  JobStatus(jobs[j]) = "open" /\ JobStatus(CancelledRow(jobs[j])) = "cancelled"
    <2>1. jobs[j] \in JobRow(Process)
      BY DEF TypeOK
    <2>2. CancelledRow(jobs[j]).status = "cancelled"
      BY <1>1, <2>1 DEF CancelledRow, JobRow
    <2>3. JobStatus(CancelledRow(jobs[j])) = "cancelled"
      BY <2>2 DEF JobStatus, Terminal
    <2> QED
      BY <1>1, <2>1, <2>3, StatusOf DEF Open
  <1>2. ASSUME NEW j \in Job
        PROVE  jobs'[j] = IF j \in S /\ jobs[j].status \in Open THEN CancelledRow(jobs[j]) ELSE jobs[j]
    BY DEF CancelJobs, CancelledRow
  <1> QED
    BY <1>1, <1>2 DEF Ledger!Cancel, CancelJobs

(* A statement that moves an open row to a status the ledger does not tell  *)
(* from it is a stutter.                                                    *)
LEMMA OpenUpdate ==
    ASSUME TypeOK, NEW j \in Job, NEW row,
           JobStatus(jobs[j]) = "open", JobStatus(row) = "open",
           jobs' = [jobs EXCEPT ![j] = row], UNCHANGED <<pubs, reviews>>
    PROVE  UNCHANGED Ledger!vars
  <1>1. Status' = Status
    BY StatusUpdate DEF Status
  <1> QED
    BY <1>1, Stutters DEF Slot, Posted

(* Leases, claims, heartbeats and saved stages do not show: the job stays   *)
(* open.                                                                    *)
LEMMA Ledger_Open ==
    ASSUME TypeOK,
           \/ \E j \in Job : LeaseExpires(j) \/ LeaseStalls(j)
           \/ \E l \in Loop, j \in Job : ClaimJob(l, j) \/ ClaimLost(l, j)
           \/ \E l \in Loop : HeartbeatJob(l) \/ DetectiveStage(l) \/ CriticStage(l)
    PROVE  UNCHANGED Ledger!vars
  <1>open. ASSUME NEW row, row.status \in Queued \cup {"running"}
           PROVE  JobStatus(row) = "open"
    BY <1>open DEF JobStatus, Terminal, Queued
  <1>1. ASSUME NEW j \in Job, LeaseExpires(j) \/ LeaseStalls(j) PROVE UNCHANGED Ledger!vars
    <2> DEFINE row == [jobs[j] EXCEPT !.locked_until = "past"]
    <2>1. jobs[j].status = "running" /\ row.status = "running"
      BY <1>1 DEF LeaseExpires, LeaseStalls, ClockPasses, TypeOK, JobRow
    <2>2. jobs' = [jobs EXCEPT ![j] = row] /\ UNCHANGED <<pubs, reviews>>
      BY <1>1 DEF LeaseExpires, LeaseStalls, ClockPasses
    <2> QED
      BY <1>open, <2>1, <2>2, OpenUpdate
  <1>2. ASSUME NEW l \in Loop, NEW j \in Job, ClaimJob(l, j) \/ ClaimLost(l, j)
        PROVE  UNCHANGED Ledger!vars
    <2> DEFINE row == ClaimedRow(jobs[j], ProcOf[l])
    <2>1. jobs[j].status \in Queued \cup {"running"} /\ row.status = "running"
      <3>1. Claimable(jobs[j]) /\ jobs[j] \in JobRow(Process)
        BY <1>2 DEF ClaimJob, ClaimLost, TypeOK
      <3> QED
        BY <3>1 DEF Claimable, ClaimedRow, JobRow
    <2>2. jobs' = [jobs EXCEPT ![j] = row] /\ UNCHANGED <<pubs, reviews>>
      BY <1>2 DEF ClaimJob, ClaimLost
    <2> QED
      BY <1>open, <2>1, <2>2, OpenUpdate
  <1>3. ASSUME NEW l \in Loop, HeartbeatJob(l) \/ DetectiveStage(l) \/ CriticStage(l)
        PROVE  UNCHANGED Ledger!vars
    <2> DEFINE j == loops[l].job
    <2>1. j \in Job /\ jobs[j] \in JobRow(Process)
      BY <1>3 DEF HeartbeatJob, DetectiveStage, CriticStage, Pipeline, TypeOK, LoopState, Busy
    <2>2. UNCHANGED <<pubs, reviews>>
      BY <1>3 DEF HeartbeatJob, DetectiveStage, CriticStage
    <2>3. \/ jobs' = jobs
          \/ Owned(l) /\ \E row \in {HeartbeatRow(jobs[j]), ContextRow(jobs[j], loops[l].gen),
                                     ResultRow(jobs[j], loops[l].gen)} :
                            jobs' = [jobs EXCEPT ![j] = row]
      BY <1>3 DEF HeartbeatJob, DetectiveStage, CriticStage, StageFails, SaveRow
    <2>4. Owned(l) => /\ jobs[j].status = "running"
                      /\ HeartbeatRow(jobs[j]).status = "running"
                      /\ ContextRow(jobs[j], loops[l].gen).status = "running"
                      /\ ResultRow(jobs[j], loops[l].gen).status = "running"
      BY <2>1 DEF Owned, OwnedBy, HeartbeatRow, ContextRow, ResultRow, JobRow
    <2>5. CASE jobs' = jobs
      BY <2>2, <2>5, Stutters DEF Status, Slot, Posted
    <2>6. ASSUME Owned(l),
                 NEW row \in {HeartbeatRow(jobs[j]), ContextRow(jobs[j], loops[l].gen),
                              ResultRow(jobs[j], loops[l].gen)},
                 jobs' = [jobs EXCEPT ![j] = row]
          PROVE  UNCHANGED Ledger!vars
      <3>1. JobStatus(jobs[j]) = "open" /\ JobStatus(row) = "open"
        BY <1>open, <2>4, <2>6
      <3> QED
        BY <2>1, <2>2, <2>6, <3>1, OpenUpdate
    <2> QED
      BY <2>3, <2>5, <2>6
  <1> QED
    BY <1>1, <1>2, <1>3

(* FailJob and CompleteJob settle an open job, or their fence keeps them    *)
(* out; a job is completed only with its slot taken.                        *)
LEMMA Ledger_Final ==
    ASSUME TypeOK, ReservedInv, NEW l \in Loop, FailJob(l) \/ CompleteJob(l)
    PROVE  Ledger!Fail(loops[l].job) \/ Ledger!Complete(loops[l].job) \/ UNCHANGED Ledger!vars
  <1> DEFINE j == loops[l].job
             failed == FailedRow(jobs[j])
             completed == CompletedRow(jobs[j], loops[l].gen)
  <1>1. j \in Job /\ jobs[j] \in JobRow(Process)
    BY DEF FailJob, CompleteJob, FinalUpdate, TypeOK, LoopState, Busy
  <1>2. UNCHANGED <<pubs, reviews>>
    BY DEF FailJob, CompleteJob, FinalUpdate
  <1>3. JobStatus(failed) = "failed" /\ JobStatus(completed) = "completed"
    <2>1. failed.status = "failed" /\ completed.status = "completed"
      BY <1>1 DEF FailedRow, CompletedRow, JobRow
    <2> QED
      BY <2>1 DEF JobStatus, Terminal
  <1>4. Owned(l) => JobStatus(jobs[j]) = "open"
    BY <1>1, StatusOf DEF Owned, OwnedBy
  <1>5. CASE jobs' = jobs
    BY <1>2, <1>5, Stutters DEF Status, Slot, Posted
  <1>6. CASE Owned(l) /\ jobs' = [jobs EXCEPT ![j] = failed]
    <2>1. Status' = [Status EXCEPT ![j] = "failed"]
      BY <1>1, <1>3, <1>6, StatusUpdate
    <2> QED
      BY <1>1, <1>2, <1>4, <1>6, <2>1 DEF Ledger!Fail, Status
  <1>7. CASE /\ CompleteJob(l) /\ Owned(l)
             /\ jobs' = [jobs EXCEPT ![j] = completed]
    <2>1. Status' = [Status EXCEPT ![j] = "completed"]
      BY <1>1, <1>3, <1>7, StatusUpdate
    <2>2. pubs[j].state # "absent"
      BY <1>7 DEF CompleteJob, FinalUpdate, ReservedInv
    <2>3. PubSlot(pubs[j]) # "free"
      BY <1>1, <2>2 DEF PubSlot, TypeOK, PubRow
    <2> QED
      BY <1>1, <1>2, <1>4, <1>7, <2>1, <2>3 DEF Ledger!Complete, Status
  <1> QED
    BY <1>5, <1>6, <1>7 DEF FailJob, CompleteJob, FinalUpdate

(* An INSERT or UPDATE of one publication changes the slot of its job only. *)
LEMMA SlotUpdate ==
    ASSUME TypeOK, NEW j \in Job, NEW pub, pubs' = [pubs EXCEPT ![j] = pub]
    PROVE  Slot' = [Slot EXCEPT ![j] = PubSlot(pub)]
  BY DEF TypeOK, Slot

(* The states a publication goes through, as the ledger sees them. *)
LEMMA SlotOf ==
    ASSUME NEW pub \in PubRow
    PROVE  /\ pub.state = "absent" <=> PubSlot(pub) = "free"
           /\ pub.state = "pending_github" <=> PubSlot(pub) = "taken"
           /\ PubSlot(PendingPub) = "taken"
           /\ PubSlot(FailedPub(pub)) = "refused"
           /\ \A id : PubSlot(PublishedPub(pub, id)) = "published"
  <1>1. /\ PendingPub.state = "pending_github" /\ FailedPub(pub).state = "failed"
        /\ \A id : PublishedPub(pub, id).state = "published"
    BY DEF PendingPub, NoPub, FailedPub, PublishedPub, PubRow
  <1>2. pub.state \in {"absent", "pending_github", "published", "failed"}
    BY DEF PubRow
  <1> QED
    BY <1>1, <1>2 DEF PubSlot

(* The INSERT takes the free slot of a job that exists, or nothing shows. *)
LEMMA Ledger_Begin ==
    ASSUME TypeOK, GenInv, ReservedInv, NEW l \in Loop, BeginPublication(l)
    PROVE  Ledger!Take(loops[l].job) \/ UNCHANGED Ledger!vars
  <1> DEFINE j == loops[l].job
  <1>1. j \in Job /\ Busy(l) /\ loops[l].gen \in Nat /\ jobs[j] \in JobRow(Process)
    BY DEF BeginPublication, TypeOK, LoopState, Busy
  <1>2. UNCHANGED <<jobs, reviews>>
    BY DEF BeginPublication
  <1>3. CASE pubs' = pubs
    BY <1>2, <1>3, Stutters DEF Status, Slot, Posted
  <1>4. CASE SlotFree(pubs[j]) /\ pubs' = [pubs EXCEPT ![j] = PendingPub]
    <2>1. jobs[j].lock_generation # 0
      BY <1>1 DEF GenInv, GenerationIsUnique, ReservedInv, JobRow
    <2>2. JobStatus(jobs[j]) # "absent"
      BY <1>1, <2>1, StatusOf DEF GenInv
    <2>3. pubs[j] \in PubRow
      BY <1>1 DEF TypeOK
    <2>4. PubSlot(pubs[j]) = "free" /\ PubSlot(PendingPub) = "taken"
      BY <1>4, <2>3, SlotOf DEF SlotFree
    <2>5. Slot' = [Slot EXCEPT ![j] = "taken"]
      <3>1. Slot' = [Slot EXCEPT ![j] = PubSlot(PendingPub)]
        BY <1>1, <1>4, SlotUpdate
      <3> QED
        BY <2>4, <3>1
    <2> QED
      BY <1>1, <1>2, <2>2, <2>4, <2>5 DEF Ledger!Take, Slot
  <1> QED
    BY <1>3, <1>4 DEF BeginPublication

(* A POST that GitHub accepts is the first for its job, and the slot is     *)
(* taken and undecided.                                                     *)
LEMMA Ledger_Post ==
    ASSUME TypeOK, FenceInv, NEW l \in Loop, Post(l)
    PROVE  (\E j \in Job : Ledger!Accept(j)) \/ UNCHANGED Ledger!vars
  <1> PICK j \in Job : j = loops[l].job
    BY DEF Post, TypeOK, LoopState, Busy
  <1>1. pubs[j] \in PubRow /\ HoldsSlot(l)
    BY DEF Post, TypeOK, HoldsSlot
  <1>2. UNCHANGED <<jobs, pubs>>
    BY DEF Post
  <1>3. CASE reviews' = reviews
    BY <1>2, <1>3, Stutters DEF Status, Slot, Posted
  <1>4. CASE reviews' = [reviews EXCEPT ![j] = reviews[j] + 1]
    <2>1. reviews[j] = 0
      BY DEF Post, FenceInv, ReviewFollowsPost
    <2>2. PubSlot(pubs[j]) = "taken"
      BY <1>1, SlotOf DEF FenceInv, SlotIsPending
    <2>3. reviews'[j] = 1 /\ \A k \in Job \ {j} : reviews'[k] = reviews[k]
      BY <1>1, <1>4, <2>1 DEF TypeOK
    <2>4. Posted' = Posted \cup {j} /\ j \notin Posted
      BY <1>1, <2>1, <2>3 DEF Posted
    <2> QED
      BY <1>1, <1>2, <2>2, <2>4 DEF Ledger!Accept, Posted
  <1> QED
    BY <1>3, <1>4 DEF Post

(* The statements that settle a publication find its slot taken, and one    *)
(* that publishes has a review to point to or belongs to a dry run.         *)
LEMMA Ledger_Settle ==
    ASSUME TypeOK, FenceInv, NEW l \in Loop, FailPublication(l) \/ FinalizePublication(l)
    PROVE  \/ Ledger!Refuse(loops[l].job) \/ Ledger!Publish(loops[l].job)
           \/ UNCHANGED Ledger!vars
  <1> DEFINE j == loops[l].job
  <1>1. j \in Job /\ pubs[j] \in PubRow /\ HoldsSlot(l)
    BY DEF FailPublication, FinalizePublication, TypeOK, LoopState, Busy, HoldsSlot
  <1>2. UNCHANGED <<jobs, reviews>>
    BY DEF FailPublication, FinalizePublication
  <1>3. PubSlot(pubs[j]) = "taken"
    BY <1>1, SlotOf DEF FenceInv, SlotIsPending
  <1>4. CASE pubs' = pubs
    BY <1>2, <1>4, Stutters DEF Status, Slot, Posted
  <1>5. CASE pubs' = [pubs EXCEPT ![j] = FailedPub(pubs[j])]
    <2>1. Slot' = [Slot EXCEPT ![j] = "refused"]
      <3>1. Slot' = [Slot EXCEPT ![j] = PubSlot(FailedPub(pubs[j]))]
        BY <1>1, <1>5, SlotUpdate
      <3>2. PubSlot(FailedPub(pubs[j])) = "refused"
        BY <1>1, SlotOf
      <3> QED
        BY <3>1, <3>2
    <2> QED
      BY <1>1, <1>2, <1>3, <2>1 DEF Ledger!Refuse, Slot
  <1>6. ASSUME FinalizePublication(l), NEW id, pubs' = [pubs EXCEPT ![j] = PublishedPub(pubs[j], id)]
        PROVE  Ledger!Publish(j)
    <2>1. Slot' = [Slot EXCEPT ![j] = "published"]
      <3>1. Slot' = [Slot EXCEPT ![j] = PubSlot(PublishedPub(pubs[j], id))]
        BY <1>1, <1>6, SlotUpdate
      <3>2. PubSlot(PublishedPub(pubs[j], id)) = "published"
        BY <1>1, SlotOf
      <3> QED
        BY <3>1, <3>2
    <2>2. reviews[j] > 0 \/ Publishing # Process
      BY <1>6, ProcOfAssumption DEF FinalizePublication, FenceInv, ReviewFollowsPost, Real
    <2> QED
      BY <1>1, <1>2, <1>3, <2>1, <2>2 DEF Ledger!Publish, Slot
  <1> QED
    BY <1>4, <1>5, <1>6 DEF FailPublication, FinalizePublication

(* Every step of the workers is a step of the ledger or a stutter. *)
LEMMA Ledger_Next ==
    TypeOK /\ GenInv /\ FenceInv /\ ReservedInv /\ [Next]_vars => [Ledger!Next]_(Ledger!vars)
  <1> SUFFICES ASSUME TypeOK, GenInv, FenceInv, ReservedInv, [Next]_vars
               PROVE  Ledger!Next \/ UNCHANGED Ledger!vars
    OBVIOUS
  <1>job. \A l \in Loop : Busy(l) => loops[l].job \in Job
    BY DEF TypeOK, LoopState, Busy
  <1>1. CASE UNCHANGED <<jobs, pubs, reviews>>
    BY <1>1, Stutters DEF Status, Slot, Posted
  <1>2. ASSUME NEW j \in Job, CreateJob(j) PROVE Ledger!Next
    BY <1>2, Ledger_Create DEF Ledger!Next
  <1>3. ASSUME NEW S \in SUBSET Job, CancelJobs(S) PROVE Ledger!Next
    <2>1. {j \in S : jobs[j].status \in Open} \in SUBSET Job
      OBVIOUS
    <2> QED
      BY <1>3, <2>1, Ledger_Cancel DEF Ledger!Next
  <1>4. ASSUME NEW l \in Loop, FailJob(l) \/ CompleteJob(l)
        PROVE  Ledger!Next \/ UNCHANGED Ledger!vars
    <2>1. loops[l].job \in Job
      BY <1>4, <1>job DEF FailJob, CompleteJob, FinalUpdate, Busy
    <2> QED
      BY <1>4, <2>1, Ledger_Final DEF Ledger!Next
  <1>5. ASSUME NEW l \in Loop,
               BeginPublication(l) \/ Post(l) \/ FailPublication(l) \/ FinalizePublication(l)
        PROVE  Ledger!Next \/ UNCHANGED Ledger!vars
    <2>1. loops[l].job \in Job
      BY <1>5, <1>job DEF BeginPublication, Post, FailPublication, FinalizePublication, Busy
    <2> QED
      <3>1. ASSUME NEW j \in Job,
                   Ledger!Take(j) \/ Ledger!Accept(j) \/ Ledger!Refuse(j) \/ Ledger!Publish(j)
            PROVE  Ledger!Next
        BY <3>1 DEF Ledger!Next
      <3>2. CASE BeginPublication(l)
        BY <2>1, <3>1, <3>2, Ledger_Begin
      <3>3. CASE Post(l)
        BY <3>1, <3>3, Ledger_Post
      <3>4. CASE FailPublication(l) \/ FinalizePublication(l)
        BY <2>1, <3>1, <3>4, Ledger_Settle
      <3> QED
        BY <1>5, <3>2, <3>3, <3>4
  <1>6. \/ UNCHANGED <<jobs, pubs, reviews>>
        \/ \E j \in Job : CreateJob(j) \/ LeaseExpires(j) \/ LeaseStalls(j)
        \/ \E S \in SUBSET Job : CancelJobs(S)
        \/ \E l \in Loop, j \in Job : ClaimJob(l, j) \/ ClaimLost(l, j)
        \/ \E l \in Loop : \/ HeartbeatJob(l) \/ DetectiveStage(l) \/ CriticStage(l)
                           \/ BeginPublication(l) \/ Post(l)
                           \/ FailPublication(l) \/ FinalizePublication(l)
                           \/ FailJob(l) \/ CompleteJob(l)
    BY DEF Next, LoopStep, vars, Start, Shutdown, Exit, Crash, PollEmpty, PipelineCheck,
           StageCheck, ResolveToken, ExistingPublication, FinishCheck
  <1> QED
    BY <1>1, <1>2, <1>3, <1>4, <1>5, <1>6, Ledger_Open

(* The workers implement the ledger: whatever crashes, stalls or is lost,   *)
(* whoever reads the two tables sees jobs settle once, slots taken and      *)
(* settled once, no review outside a taken slot and no completed job with a *)
(* free one (worker.go:122-178, publish.go:145-191).                        *)
THEOREM WorkersImplementLedger == Spec => ImplementsLedger
  BY TypeOK_Init, TypeOK_Next, Gen_Init, Gen_Next, Fence_Init, Fence_Next,
     Reserved_Init, Reserved_Next, Ledger_Init, Ledger_Next, PTL
     DEF Spec, ImplementsLedger, Ledger!Spec

-----------------------------------------------------------------------------
(* WorkersKeepContract.                                                     *)

(* The column both sides of the contract are about. *)
StatusOfJobs == [j \in Job |-> jobs[j].status]

Contract ==
    \/ Table!WorkerStep
    \/ Table!ServerStep /\ UNCHANGED loops

(* No step of the contract writes a status it does not name. *)
LEMMA ContractTypes == Table!TypeOK /\ [Contract]_(Table!vars) => Table!TypeOK'
  <1> USE DEF Table!TypeOK, Table!vars
  <1>1. Table!TypeOK /\ Table!ServerStep => Table!TypeOK'
    BY DEF Table!ServerStep, Table!Insert, Table!Cancel
  <1>2. Table!TypeOK /\ Table!WorkerStep => Table!TypeOK'
    BY DEF Table!WorkerStep, Table!Claim, Table!Settle
  <1> QED
    BY <1>1, <1>2 DEF Contract

(* A statement on one row changes one status, or none.                      *)
LEMMA ColumnUpdate ==
    ASSUME TypeOK, NEW j \in Job, NEW row, jobs' = [jobs EXCEPT ![j] = row]
    PROVE  /\ StatusOfJobs' = [StatusOfJobs EXCEPT ![j] = row.status]
           /\ row.status = jobs[j].status => UNCHANGED Table!vars
  BY DEF TypeOK, StatusOfJobs, Table!vars

(* CreateJob inserts a row that is not there. *)
LEMMA Contract_Create ==
    ASSUME TypeOK, NEW j \in Job, CreateJob(j)
    PROVE  Contract
  <1>1. NewJob.status = "pending"
    BY DEF NewJob, NoJob
  <1>2. StatusOfJobs' = [StatusOfJobs EXCEPT ![j] = "pending"]
    BY <1>1, ColumnUpdate DEF CreateJob
  <1>3. Table!Insert(j)
    BY <1>2 DEF Table!Insert, StatusOfJobs, CreateJob
  <1> QED
    BY <1>3 DEF Contract, Table!ServerStep, CreateJob

(* A cancellation statement cancels the unsettled rows it matches. *)
LEMMA Contract_Cancel ==
    ASSUME TypeOK, Table!TypeOK, NEW S \in SUBSET Job, CancelJobs(S)
    PROVE  Contract
  <1> PICK C \in SUBSET Job : C = {j \in S : jobs[j].status \in Open}
    OBVIOUS
  <1>1. ASSUME NEW j \in Job
        PROVE  CancelledRow(jobs[j]).status =
                  IF jobs[j].status \in Open THEN "cancelled" ELSE jobs[j].status
    BY DEF CancelledRow, TypeOK, JobRow
  <1>2. ASSUME NEW j \in Job
        PROVE  jobs'[j].status = IF j \in C THEN "cancelled" ELSE jobs[j].status
    BY <1>1 DEF CancelJobs
  <1>3. \A j \in C : jobs[j].status \in {"pending", "running"}
    BY DEF Table!TypeOK, Open
  <1>4. Table!Cancel(C)
    BY <1>2, <1>3 DEF Table!Cancel
  <1> QED
    BY <1>4 DEF Contract, Table!ServerStep, CancelJobs

(* A claim starts a pending job, or takes over a running one.               *)
LEMMA Contract_Claim ==
    ASSUME TypeOK, Table!TypeOK, NEW l \in Loop, NEW j \in Job, ClaimJob(l, j) \/ ClaimLost(l, j)
    PROVE  Contract \/ UNCHANGED Table!vars
  <1>1. jobs' = [jobs EXCEPT ![j] = ClaimedRow(jobs[j], ProcOf[l])] /\ Claimable(jobs[j])
    BY DEF ClaimJob, ClaimLost
  <1>2. jobs[j].status \in {"pending", "running"}
    BY <1>1 DEF Claimable, Queued, Table!TypeOK
  <1>3. ClaimedRow(jobs[j], ProcOf[l]).status = "running"
    BY DEF ClaimedRow, TypeOK, JobRow
  <1>4. CASE jobs[j].status = "pending"
    <2>1. StatusOfJobs' = [StatusOfJobs EXCEPT ![j] = "running"]
      BY <1>1, <1>3, ColumnUpdate
    <2>2. Table!Claim(j)
      BY <1>4, <2>1 DEF Table!Claim, StatusOfJobs
    <2> QED
      BY <2>2 DEF Contract, Table!WorkerStep
  <1>5. CASE jobs[j].status = "running"
    BY <1>1, <1>3, <1>5, ColumnUpdate
  <1> QED
    BY <1>2, <1>4, <1>5

(* Leases, heartbeats and saved stages leave every status as it is. *)
LEMMA Contract_Kept ==
    ASSUME TypeOK,
           \/ \E j \in Job : LeaseExpires(j) \/ LeaseStalls(j)
           \/ \E l \in Loop : HeartbeatJob(l) \/ DetectiveStage(l) \/ CriticStage(l)
    PROVE  UNCHANGED Table!vars
  <1>1. ASSUME NEW j \in Job, LeaseExpires(j) \/ LeaseStalls(j) PROVE UNCHANGED Table!vars
    <2> DEFINE row == [jobs[j] EXCEPT !.locked_until = "past"]
    <2>1. row.status = jobs[j].status
      BY DEF TypeOK, JobRow
    <2>2. jobs' = [jobs EXCEPT ![j] = row]
      BY <1>1 DEF LeaseExpires, LeaseStalls, ClockPasses
    <2> HIDE DEF row
    <2> QED
      BY <2>1, <2>2, ColumnUpdate
  <1>2. ASSUME NEW l \in Loop, HeartbeatJob(l) \/ DetectiveStage(l) \/ CriticStage(l)
        PROVE  UNCHANGED Table!vars
    <2> PICK j \in Job : j = loops[l].job
      BY <1>2 DEF HeartbeatJob, DetectiveStage, CriticStage, Pipeline, TypeOK, LoopState, Busy
    <2>1. \/ jobs' = jobs
          \/ \E row \in {HeartbeatRow(jobs[j]), ContextRow(jobs[j], loops[l].gen),
                         ResultRow(jobs[j], loops[l].gen)} :
                jobs' = [jobs EXCEPT ![j] = row]
      BY <1>2 DEF HeartbeatJob, DetectiveStage, CriticStage, StageFails, SaveRow
    <2>2. /\ HeartbeatRow(jobs[j]).status = jobs[j].status
          /\ ContextRow(jobs[j], loops[l].gen).status = jobs[j].status
          /\ ResultRow(jobs[j], loops[l].gen).status = jobs[j].status
      BY DEF HeartbeatRow, ContextRow, ResultRow, TypeOK, JobRow
    <2>3. CASE jobs' = jobs
      BY <2>3 DEF Table!vars
    <2> QED
      BY <2>1, <2>2, <2>3, ColumnUpdate
  <1> QED
    BY <1>1, <1>2

(* FailJob and CompleteJob settle a running job, or their fence keeps them  *)
(* out.                                                                     *)
LEMMA Contract_Final ==
    ASSUME TypeOK, NEW l \in Loop, FailJob(l) \/ CompleteJob(l)
    PROVE  Contract \/ UNCHANGED Table!vars
  <1> PICK j \in Job : j = loops[l].job
    BY DEF FailJob, CompleteJob, FinalUpdate, TypeOK, LoopState, Busy
  <1>1. /\ FailedRow(jobs[j]).status = "failed"
        /\ CompletedRow(jobs[j], loops[l].gen).status = "completed"
    BY DEF FailedRow, CompletedRow, TypeOK, JobRow
  <1>2. \/ jobs' = jobs
        \/ Owned(l) /\ \E row \in {FailedRow(jobs[j]), CompletedRow(jobs[j], loops[l].gen)} :
                          jobs' = [jobs EXCEPT ![j] = row]
    BY DEF FailJob, CompleteJob, FinalUpdate
  <1>3. CASE jobs' = jobs
    BY <1>3 DEF Table!vars
  <1>4. ASSUME Owned(l), NEW row, row.status \in {"failed", "completed"},
               jobs' = [jobs EXCEPT ![j] = row]
        PROVE  Contract
    <2>1. StatusOfJobs' = [StatusOfJobs EXCEPT ![j] = row.status]
      BY <1>4, ColumnUpdate
    <2>2. jobs[j].status = "running"
      BY <1>4 DEF Owned, OwnedBy
    <2>3. Table!Settle(j)
      BY <1>4, <2>1, <2>2 DEF Table!Settle, StatusOfJobs
    <2> QED
      BY <2>3 DEF Contract, Table!WorkerStep
  <1> QED
    BY <1>1, <1>2, <1>3, <1>4

(* Each step is one of the side that takes it. *)
LEMMA Contract_Next == TypeOK /\ Table!TypeOK /\ [Next]_vars => [Contract]_(Table!vars)
  <1> SUFFICES ASSUME TypeOK, Table!TypeOK, [Next]_vars
               PROVE  Contract \/ UNCHANGED Table!vars
    OBVIOUS
  <1>1. CASE UNCHANGED jobs
    BY <1>1 DEF Table!vars
  <1>2. \/ UNCHANGED jobs
        \/ \E j \in Job : CreateJob(j) \/ LeaseExpires(j) \/ LeaseStalls(j)
        \/ \E S \in SUBSET Job : CancelJobs(S)
        \/ \E l \in Loop, j \in Job : ClaimJob(l, j) \/ ClaimLost(l, j)
        \/ \E l \in Loop : \/ HeartbeatJob(l) \/ DetectiveStage(l) \/ CriticStage(l)
                           \/ FailJob(l) \/ CompleteJob(l)
    BY DEF Next, LoopStep, vars, Start, Shutdown, Exit, Crash, PollEmpty,
           PipelineCheck, StageCheck, ResolveToken, BeginPublication, ExistingPublication,
           Post, FailPublication, FinalizePublication, FinishCheck
  <1> QED
    BY <1>1, <1>2, Contract_Create, Contract_Cancel, Contract_Claim, Contract_Kept,
       Contract_Final

(* An empty table is where the contract begins. *)
LEMMA Contract_Init == Init => Table!Init /\ Table!TypeOK
  <1> SUFFICES ASSUME Init PROVE Table!Init /\ Table!TypeOK
    OBVIOUS
  <1>1. \A j \in Job : jobs[j].status = "absent"
    BY DEF Init, NoJob
  <1> QED
    BY <1>1 DEF Table!Init, Table!TypeOK

(* Whatever crashes, stalls, is lost or reclaimed, the workers only start   *)
(* pending jobs and settle running ones: no job is handed back to the       *)
(* queue, settled unclaimed or cancelled by a worker (store.go:408, 498 and *)
(* 526).                                                                    *)
THEOREM WorkersWithinContract == Spec => WorkersKeepContract
  BY TypeOK_Init, TypeOK_Next, Contract_Init, Contract_Next, ContractTypes, PTL
     DEF Spec, WorkersKeepContract, Contract
=============================================================================
