-------------------------- MODULE WorkerJobProofs --------------------------
(***************************************************************************)
(* Proofs about what Worker promises of a job: whose context and result a  *)
(* completed job holds, that its publication slot is taken, and that it is *)
(* executed again only after a fault.  They need the publication fence and *)
(* the generations of WorkerProofs.                                        *)
(***************************************************************************)
EXTENDS WorkerProofs

(* The effect of a step on one row of review_jobs: no statement, or one of  *)
(* those of store.go, the fenced ones issued by a loop that owns the row.   *)
FencedStatement(l, j) ==
    /\ loops[l].job = j /\ Busy(l) /\ Owned(l)
    /\ \/ loops[l].pc \in Pipeline /\ jobs'[j] = HeartbeatRow(jobs[j])
       \/ loops[l].pc = "detective" /\ jobs'[j] = ContextRow(jobs[j], loops[l].gen)
       \/ loops[l].pc = "critic" /\ jobs'[j] = ResultRow(jobs[j], loops[l].gen)
       \/ loops[l].pc = "fail" /\ jobs'[j] = FailedRow(jobs[j])
       \/ loops[l].pc = "complete" /\ jobs'[j] = CompletedRow(jobs[j], loops[l].gen)

Claim(j) == /\ Claimable(jobs[j])
            /\ \E p \in Process : jobs'[j] = ClaimedRow(jobs[j], p)
            /\ Fault \/ \E l \in Loop : ClaimJob(l, j)

Statement(j) ==
    \/ jobs[j].status = "absent" /\ jobs'[j] = NewJob
    \/ jobs[j].status \in Open /\ jobs'[j] = CancelledRow(jobs[j])
    \/ /\ jobs[j].status = "running" /\ (~Renewing(j) \/ Fault)
       /\ jobs'[j] = [jobs[j] EXCEPT !.locked_until = "past"]
    \/ Claim(j)
    \/ \E l \in Loop : FencedStatement(l, j)

(* A step changes the row of a job by one of these statements only. *)
LEMMA RowStep ==
    ASSUME TypeOK, [Next]_vars, NEW j \in Job
    PROVE  jobs'[j] = jobs[j] \/ Statement(j)
  <1>1. ASSUME NEW k \in Job, CreateJob(k) PROVE jobs'[j] = jobs[j] \/ Statement(j)
    BY <1>1 DEF CreateJob, TypeOK, Statement
  <1>2. ASSUME NEW S \in SUBSET Job, CancelJobs(S) PROVE jobs'[j] = jobs[j] \/ Statement(j)
    <2>1. jobs[j].status \notin Open => CancelledRow(jobs[j]) = jobs[j]
      BY DEF CancelledRow
    <2> QED
      BY <1>2, <2>1 DEF CancelJobs, Statement
  <1>3. ASSUME NEW k \in Job, LeaseExpires(k) \/ LeaseStalls(k)
        PROVE  jobs'[j] = jobs[j] \/ Statement(j)
    BY <1>3 DEF LeaseExpires, LeaseStalls, ClockPasses, TypeOK, Statement
  <1>4. ASSUME NEW l \in Loop, NEW k \in Job, ClaimJob(l, k) \/ ClaimLost(l, k)
        PROVE  jobs'[j] = jobs[j] \/ Claim(j)
    <2>1. /\ jobs' = [jobs EXCEPT ![k] = ClaimedRow(jobs[k], ProcOf[l])]
          /\ Claimable(jobs[k]) /\ ProcOf[l] \in Process
          /\ Fault \/ ClaimJob(l, k)
      BY <1>4, ProcOfAssumption DEF ClaimJob, ClaimLost
    <2>2. CASE k = j
      <3>1. jobs'[j] = ClaimedRow(jobs[j], ProcOf[l])
        BY <2>1, <2>2 DEF TypeOK
      <3> QED
        BY <2>1, <2>2, <3>1 DEF Claim
    <2>3. CASE k # j
      BY <2>1, <2>3 DEF TypeOK
    <2> QED
      BY <2>2, <2>3
  <1> DEFINE Row(l) == jobs[loops[l].job]
  <1>5. ASSUME NEW l \in Loop,
               \/ HeartbeatJob(l) \/ DetectiveStage(l) \/ CriticStage(l)
               \/ FailJob(l) \/ CompleteJob(l)
        PROVE  jobs'[j] = jobs[j] \/ FencedStatement(l, j)
    <2>1. Busy(l)
      BY <1>5 DEF HeartbeatJob, DetectiveStage, CriticStage, FailJob, CompleteJob,
                  FinalUpdate, Pipeline, Busy
    <2>2. jobs' # jobs =>
            /\ Owned(l)
            /\ \/ /\ loops[l].pc \in Pipeline
                  /\ jobs' = [jobs EXCEPT ![loops[l].job] = HeartbeatRow(Row(l))]
               \/ /\ loops[l].pc = "detective"
                  /\ jobs' = [jobs EXCEPT ![loops[l].job] = ContextRow(Row(l), loops[l].gen)]
               \/ /\ loops[l].pc = "critic"
                  /\ jobs' = [jobs EXCEPT ![loops[l].job] = ResultRow(Row(l), loops[l].gen)]
               \/ /\ loops[l].pc = "fail"
                  /\ jobs' = [jobs EXCEPT ![loops[l].job] = FailedRow(Row(l))]
               \/ /\ loops[l].pc = "complete"
                  /\ jobs' = [jobs EXCEPT ![loops[l].job] = CompletedRow(Row(l), loops[l].gen)]
      BY <1>5 DEF HeartbeatJob, DetectiveStage, CriticStage, FailJob, CompleteJob,
                  FinalUpdate, StageFails, SaveRow
    <2>3. \A row : [jobs EXCEPT ![loops[l].job] = row][j] =
                      IF j = loops[l].job THEN row ELSE jobs[j]
      BY DEF TypeOK
    <2>4. CASE jobs' = jobs \/ j # loops[l].job
      BY <2>2, <2>3, <2>4
    <2>5. CASE jobs' # jobs /\ j = loops[l].job
      <3>1. Owned(l) /\ jobs[j] = Row(l)
        BY <2>2, <2>5
      <3> QED
        BY <2>1, <2>2, <2>3, <2>5, <3>1 DEF FencedStatement
    <2> QED
      BY <2>4, <2>5
  <1>6. CASE UNCHANGED jobs
    BY <1>6
  <1>7. \/ UNCHANGED jobs
        \/ \E k \in Job : CreateJob(k) \/ LeaseExpires(k) \/ LeaseStalls(k)
        \/ \E S \in SUBSET Job : CancelJobs(S)
        \/ \E l \in Loop, k \in Job : ClaimJob(l, k) \/ ClaimLost(l, k)
        \/ \E l \in Loop : \/ HeartbeatJob(l) \/ DetectiveStage(l) \/ CriticStage(l)
                           \/ FailJob(l) \/ CompleteJob(l)
    BY DEF Next, LoopStep, vars, Start, Shutdown, Exit, Crash, PollEmpty,
           PipelineCheck, StageCheck, ResolveToken, BeginPublication, ExistingPublication,
           Post, FailPublication, FinalizePublication, FinishCheck
  <1> QED
    BY <1>1, <1>2, <1>3, <1>4, <1>5, <1>6, <1>7 DEF Statement

(* A loop is moved by its own steps only: by a stage, by its heartbeat, or  *)
(* by the crash of its process.                                             *)
LEMMA OwnSteps ==
    ASSUME TypeOK, [Next]_vars, NEW l \in Loop
    PROVE  \/ loops'[l] = loops[l]
           \/ LoopStep(l)
           \/ HeartbeatJob(l)
           \/ loops'[l] = Idle /\ \E p \in Process : Crash(p)
  <1>1. ASSUME NEW m \in Loop, LoopStep(m) \/ HeartbeatJob(m), m # l
        PROVE  loops'[l] = loops[l]
    <2>1. \E next : loops' = [loops EXCEPT ![m] = next] \/ loops' = loops
      BY <1>1 DEF LoopStep, ClaimJob, PipelineCheck, StageCheck, DetectiveStage, CriticStage,
                  StageFails, SaveRow, ResolveToken, BeginPublication, ExistingPublication,
                  Post, FailPublication, FinalizePublication, FinishCheck, FailJob,
                  CompleteJob, FinalUpdate, HeartbeatJob, Goto, Return, Release
    <2> QED
      BY <1>1, <2>1 DEF TypeOK
  <1>2. ASSUME NEW p \in Process, Crash(p)
        PROVE  loops'[l] = loops[l] \/ loops'[l] = Idle
    BY <1>2 DEF Crash
  <1>3. ASSUME \/ UNCHANGED vars
               \/ \E j \in Job : CreateJob(j) \/ LeaseExpires(j) \/ LeaseStalls(j)
               \/ \E S \in SUBSET Job : CancelJobs(S)
               \/ \E p \in Process : Start(p) \/ Shutdown(p) \/ Exit(p)
               \/ \E m \in Loop, j \in Job : ClaimLost(m, j)
               \/ \E m \in Loop : PollEmpty(m)
        PROVE  loops'[l] = loops[l]
    BY <1>3 DEF vars, CreateJob, LeaseExpires, LeaseStalls, ClockPasses, CancelJobs,
                Start, Shutdown, Exit, ClaimLost, PollEmpty
  <1> QED
    BY <1>1, <1>2, <1>3 DEF Next

(* A claim gives the loop the row at its new generation and nobody else     *)
(* anything.                                                                *)
LEMMA ClaimedLoop ==
    ASSUME TypeOK, NEW l \in Loop, NEW j \in Job, ClaimJob(l, j)
    PROVE  /\ ~Busy(l) /\ Claimable(jobs[j])
           /\ jobs' = [jobs EXCEPT ![j] = ClaimedRow(jobs[j], ProcOf[l])]
           /\ jobs'[j].lock_generation = jobs[j].lock_generation + 1
           /\ loops'[l].pc = "check_detective" /\ loops'[l].job = j
           /\ loops'[l].gen = jobs'[j].lock_generation
           /\ loops'[l].ctx = "live" /\ loops'[l].err = "none"
           /\ \A m \in Loop \ {l} : loops'[m] = loops[m]
  <1>1. jobs' = [jobs EXCEPT ![j] = ClaimedRow(jobs[j], ProcOf[l])]
    BY DEF ClaimJob
  <1>2. jobs'[j].lock_generation = jobs[j].lock_generation + 1
    BY <1>1 DEF ClaimedRow, TypeOK, JobRow
  <1> QED
    BY <1>1, <1>2 DEF ClaimJob, Idle, TypeOK

(* Where a step of its own takes a loop: the stages in their order, with    *)
(* what the entrance of the next stage tells about the tables.              *)
Prepared == {"check_memory", "check_critic", "critic", "check_diplomat", "diplomat", "begin"}

From(l, a) == loops[l].pc = a

To(l, b) == /\ loops'[l].pc = b
            /\ loops'[l].job = loops[l].job
            /\ loops'[l].gen = loops[l].gen

Advance(l) ==
    \/ To(l, "finish") \/ To(l, "fail")
    \/ From(l, "check_detective") /\ To(l, "detective")
    \/ /\ From(l, "detective") /\ To(l, "check_memory") /\ Owned(l)
       /\ jobs' = [jobs EXCEPT ![loops[l].job] =
                      ContextRow(jobs[loops[l].job], loops[l].gen)]
    \/ \E a, b \in Prepared : From(l, a) /\ To(l, b)
    \/ /\ From(l, "begin") /\ SlotFree(pubs[loops[l].job])
       /\ To(l, "post") \/ To(l, "finalize")
       /\ pubs' = [pubs EXCEPT ![loops[l].job] = PendingPub]
    \/ From(l, "begin") /\ ~SlotFree(pubs[loops[l].job]) /\ To(l, "existing")
    \/ From(l, "existing") /\ To(l, "check_final")
    \/ From(l, "post") /\ (To(l, "failpub") \/ To(l, "finalize"))
    \/ /\ From(l, "finalize") /\ To(l, "check_final")
       /\ \E id \in {"null", "id"} :
             pubs' = [pubs EXCEPT ![loops[l].job] = PublishedPub(@, id)]
    \/ From(l, "check_final") /\ To(l, "complete")

(* A step of a loop ends its job, claims one or moves along the pipeline. *)
LEMMA Transition ==
    ASSUME TypeOK, NEW l \in Loop, LoopStep(l)
    PROVE  ~Busy(l)' \/ (\E j \in Job : ClaimJob(l, j)) \/ Advance(l)
  <1> USE DEF Advance
  <1>goto. \A next : Goto(l, next) => To(l, next)
    BY DEF Goto, To, TypeOK, LoopState
  <1>return. \A e : Return(l, e) => To(l, "finish")
    BY DEF Return, To, TypeOK, LoopState
  <1>release. Release(l) => ~Busy(l)'
    BY DEF Release, Busy, Idle, TypeOK
  <1>1. ASSUME NEW here, NEW next, StageCheck(l, here, next)
        PROVE  From(l, here) /\ (To(l, next) \/ To(l, "finish"))
    BY <1>1, <1>goto, <1>return DEF StageCheck, From
  <1>2. CASE PipelineCheck(l)
    BY <1>1, <1>2 DEF PipelineCheck, Prepared
  <1>3. CASE DetectiveStage(l)
    BY <1>3, <1>goto, <1>return DEF DetectiveStage, StageFails, SaveRow, From
  <1>4. CASE CriticStage(l)
    BY <1>4, <1>goto, <1>return DEF CriticStage, StageFails, SaveRow, From, Prepared
  <1>5. CASE ResolveToken(l)
    BY <1>5, <1>goto, <1>return DEF ResolveToken, From, Prepared
  <1>6. CASE BeginPublication(l)
    BY <1>6, <1>goto, <1>return DEF BeginPublication, From
  <1>7. CASE ExistingPublication(l)
    BY <1>7, <1>goto, <1>return DEF ExistingPublication, From
  <1>8. CASE Post(l)
    <2>1. \A e : loops' = [loops EXCEPT ![l].pc = "failpub", ![l].err = e] => To(l, "failpub")
      BY DEF To, TypeOK, LoopState
    <2> QED
      BY <1>8, <1>goto, <2>1 DEF Post, From
  <1>9. CASE FailPublication(l)
    BY <1>9, <1>goto DEF FailPublication
  <1>10. CASE FinalizePublication(l)
    BY <1>10, <1>goto, <1>return DEF FinalizePublication, From
  <1>11. CASE FinishCheck(l) \/ FailJob(l) \/ CompleteJob(l)
    BY <1>11, <1>goto, <1>release DEF FinishCheck, FailJob, CompleteJob, FinalUpdate
  <1> QED
    BY <1>2, <1>3, <1>4, <1>5, <1>6, <1>7, <1>8, <1>9, <1>10, <1>11 DEF LoopStep

-----------------------------------------------------------------------------
(* A completed job holds the work of one execution.  A loop that is past    *)
(* the detective and still owns its row wrote the context that is in it.    *)

PastDetective == Prepared \cup {"existing", "post", "finalize", "check_final", "complete"}

ContextIsOwn ==
    \A l \in Loop : loops[l].pc \in PastDetective /\ Owned(l) =>
        jobs[loops[l].job].context_by = loops[l].gen

ExecutionInv == ContextIsOwn /\ ResultFromOneExecution

(* No step changes what a loop that keeps the ownership of its row relies   *)
(* on: it owned the row before, and the context is its own afterwards.      *)
LEMMA OwnershipStep ==
    ASSUME TypeOK, GenInv, [Next]_vars, NEW l \in Loop,
           Busy(l), Owned(l)', loops'[l].job = loops[l].job, loops'[l].gen = loops[l].gen
    PROVE  /\ Owned(l)
           /\ \/ jobs'[loops[l].job].context_by = jobs[loops[l].job].context_by
              \/ jobs'[loops[l].job].context_by = loops[l].gen
  <1> DEFINE j == loops[l].job
  <1>1. j \in Job /\ loops[l].gen \in Nat /\ jobs[j] \in JobRow(Process)
    BY DEF TypeOK, LoopState, Busy
  <1>2. /\ jobs'[j].status = "running" /\ jobs'[j].locked_by = ProcOf[l]
        /\ jobs'[j].lock_generation = loops[l].gen /\ loops[l].gen <= jobs[j].lock_generation
    BY DEF Owned, OwnedBy, GenInv, GenerationIsUnique
  <1>3. CASE jobs'[j] = jobs[j]
    BY <1>2, <1>3 DEF Owned, OwnedBy
  <1>4. CASE jobs'[j] = NewJob \/ (jobs[j].status \in Open /\ jobs'[j] = CancelledRow(jobs[j]))
    <2>1. NewJob.status # "running"
      BY DEF NewJob, NoJob
    <2>2. jobs[j].status \in Open => CancelledRow(jobs[j]).status # "running"
      BY <1>1 DEF CancelledRow, JobRow
    <2> QED
      BY <1>2, <1>4, <2>1, <2>2
  <1>5. CASE jobs[j].status = "running" /\ jobs'[j] = [jobs[j] EXCEPT !.locked_until = "past"]
    BY <1>1, <1>2, <1>5 DEF JobRow, Owned, OwnedBy
  <1>6. CASE Claim(j)
    <2>1. jobs'[j].lock_generation = jobs[j].lock_generation + 1
      BY <1>1, <1>6 DEF Claim, ClaimedRow, JobRow
    <2> QED
      BY <1>1, <1>2, <2>1 DEF JobRow
  <1>7. CASE \E m \in Loop : FencedStatement(m, j)
    <2> PICK m \in Loop : FencedStatement(m, j)
      BY <1>7
    <2>1. /\ jobs[j].status = "running" /\ jobs[j].locked_by = ProcOf[m]
          /\ jobs[j].lock_generation = loops[m].gen
      BY DEF FencedStatement, Owned, OwnedBy
    <2>2. \/ jobs'[j] = HeartbeatRow(jobs[j])
          \/ jobs'[j] = ContextRow(jobs[j], loops[m].gen)
          \/ jobs'[j] = ResultRow(jobs[j], loops[m].gen)
      <3>1. FailedRow(jobs[j]).status # "running"
        BY <1>1 DEF FailedRow, JobRow
      <3>2. CompletedRow(jobs[j], loops[m].gen).status # "running"
        BY <1>1 DEF CompletedRow, JobRow
      <3> QED
        BY <1>2, <3>1, <3>2 DEF FencedStatement
    <2>3. /\ jobs'[j].lock_generation = jobs[j].lock_generation
          /\ jobs'[j].locked_by = jobs[j].locked_by
          /\ \/ jobs'[j].context_by = jobs[j].context_by
             \/ jobs'[j].context_by = loops[m].gen
      BY <1>1, <2>2 DEF HeartbeatRow, ContextRow, ResultRow, JobRow
    <2> QED
      BY <1>2, <2>1, <2>3 DEF Owned, OwnedBy
  <1> QED
    BY <1>1, <1>3, <1>4, <1>5, <1>6, <1>7, RowStep DEF Statement

(* Initially no loop is past the detective and no job is completed. *)
LEMMA Execution_Init == Init => ExecutionInv
  BY DEF Init, ExecutionInv, ContextIsOwn, ResultFromOneExecution, Idle, NoJob,
         PastDetective, Prepared

(* The context of a job is the one its present owner built. *)
LEMMA ContextIsOwn_Next == TypeOK /\ GenInv /\ ExecutionInv /\ [Next]_vars => ContextIsOwn'
  <1> SUFFICES ASSUME TypeOK, GenInv, ExecutionInv, [Next]_vars,
                      NEW l \in Loop, loops'[l].pc \in PastDetective, Owned(l)'
               PROVE  jobs'[loops'[l].job].context_by = loops'[l].gen
    BY DEF ContextIsOwn
  <1>1. ASSUME loops[l].pc \in PastDetective, To(l, loops'[l].pc)
        PROVE  jobs'[loops'[l].job].context_by = loops'[l].gen
    <2>1. Busy(l)
      BY <1>1 DEF PastDetective, Prepared, Busy
    <2> QED
      BY <1>1, <2>1, OwnershipStep DEF To, ExecutionInv, ContextIsOwn
  <1>2. CASE loops'[l] = loops[l]
    BY <1>1, <1>2 DEF To
  <1>3. CASE HeartbeatJob(l)
    <2>1. loops'[l].pc = loops[l].pc /\ To(l, loops[l].pc)
      BY <1>3 DEF HeartbeatJob, TypeOK, LoopState, To
    <2> QED
      BY <1>1, <2>1
  <1>4. CASE LoopStep(l)
    <2>1. Busy(l)'
      BY DEF PastDetective, Prepared, Busy
    <2>2. ~ \E j \in Job : ClaimJob(l, j)
      BY ClaimedLoop DEF PastDetective, Prepared
    <2>3. CASE /\ To(l, "check_memory") /\ Owned(l) /\ From(l, "detective")
               /\ jobs' = [jobs EXCEPT ![loops[l].job] =
                             ContextRow(jobs[loops[l].job], loops[l].gen)]
      <3>1. loops[l].job \in Job
        BY <2>3 DEF From, TypeOK, LoopState, Busy
      <3> QED
        BY <2>3, <3>1 DEF To, ContextRow, TypeOK, JobRow
    <2>4. CASE loops[l].pc \in PastDetective /\ To(l, loops'[l].pc)
      BY <1>1, <2>4
    <2>5. \A b : To(l, b) => loops'[l].pc = b /\ To(l, loops'[l].pc)
      BY DEF To
    <2>6. \A a : From(l, a) /\ a \in PastDetective => loops[l].pc \in PastDetective
      BY DEF From
    <2>7. ~To(l, "finish") /\ ~To(l, "fail") /\ ~To(l, "detective") /\ ~To(l, "failpub")
      BY DEF To, PastDetective, Prepared
    <2>8. Prepared \subseteq PastDetective
          /\ {"begin", "existing", "post", "finalize", "check_final"} \subseteq PastDetective
      BY DEF PastDetective, Prepared
    <2> QED
      BY <1>4, <2>1, <2>2, <2>3, <2>4, <2>5, <2>6, <2>7, <2>8, Transition DEF Advance
  <1>5. CASE loops'[l] = Idle
    BY <1>5 DEF Idle, PastDetective, Prepared
  <1> QED
    BY <1>2, <1>3, <1>4, <1>5, OwnSteps

(* A completed row has the result and the context of its last execution. *)
LEMMA Result_Next == TypeOK /\ ExecutionInv /\ [Next]_vars => ResultFromOneExecution'
  <1> SUFFICES ASSUME TypeOK, ExecutionInv, [Next]_vars, NEW j \in Job,
                      jobs'[j].status = "completed"
               PROVE  /\ jobs'[j].context_by = jobs'[j].lock_generation
                      /\ jobs'[j].result_by = jobs'[j].lock_generation
    BY DEF ResultFromOneExecution
  <1>1. jobs[j] \in JobRow(Process)
    BY DEF TypeOK
  <1>2. CASE jobs'[j] = jobs[j]
    BY <1>2 DEF ExecutionInv, ResultFromOneExecution
  <1>3. ~ \/ jobs'[j] = NewJob
          \/ jobs[j].status \in Open /\ jobs'[j] = CancelledRow(jobs[j])
          \/ /\ jobs[j].status = "running"
             /\ jobs'[j] = [jobs[j] EXCEPT !.locked_until = "past"]
          \/ Claim(j)
    BY <1>1 DEF NewJob, NoJob, CancelledRow, Open, Claim, ClaimedRow, JobRow
  <1>4. ASSUME NEW l \in Loop, FencedStatement(l, j)
        PROVE  /\ jobs'[j].context_by = jobs'[j].lock_generation
               /\ jobs'[j].result_by = jobs'[j].lock_generation
    <2>1. jobs[j].status = "running" /\ jobs[j].lock_generation = loops[l].gen
      BY <1>4 DEF FencedStatement, Owned, OwnedBy
    <2>2. loops[l].pc = "complete" /\ jobs'[j] = CompletedRow(jobs[j], loops[l].gen)
      BY <1>1, <1>4, <2>1 DEF FencedStatement, HeartbeatRow, ContextRow, ResultRow, FailedRow,
                              JobRow
    <2>3. jobs[j].context_by = loops[l].gen
      BY <1>4, <2>2 DEF FencedStatement, ExecutionInv, ContextIsOwn, PastDetective
    <2> QED
      BY <1>1, <2>1, <2>2, <2>3 DEF CompletedRow, JobRow
  <1> QED
    BY <1>2, <1>3, <1>4, RowStep DEF Statement

(* A completed job holds the context and the result of the execution that   *)
(* completed it, whoever else wrote to its row before.                      *)
THEOREM CompletedByOneExecution == Spec => []ResultFromOneExecution
  <1>1. ExecutionInv => ResultFromOneExecution
    BY DEF ExecutionInv
  <1>2. TypeOK /\ GenInv /\ ExecutionInv /\ [Next]_vars => ExecutionInv'
    BY ContextIsOwn_Next, Result_Next DEF ExecutionInv
  <1> QED
    BY <1>1, <1>2, TypeOK_Init, TypeOK_Next, Gen_Init, Gen_Next, Execution_Init, PTL DEF Spec

-----------------------------------------------------------------------------
(* A completed job has its publication slot taken.  What makes the first    *)
(* execution special is that nobody can have taken the slot before it: until *)
(* it takes the slot itself the slot is free, and it never finds it taken.   *)

Unpublished == {"check_detective", "detective"} \cup Prepared

ReservedInv ==
    /\ CompletedIsReserved
    /\ \A j \in Job : jobs[j].lock_generation = 0 => pubs[j].state = "absent"
    /\ \A l \in Loop : Busy(l) => loops[l].gen # 0
    /\ \A l \in Loop : loops[l].pc \in {"existing", "check_final", "complete"} =>
          pubs[loops[l].job].state # "absent"
    /\ \A l \in Loop : Busy(l) /\ jobs[loops[l].job].lock_generation = 1 =>
          /\ loops[l].pc \in Unpublished => pubs[loops[l].job].state = "absent"
          /\ loops[l].pc # "existing"
          /\ loops[l].pc \in {"check_final", "complete"} =>
                pubs[loops[l].job].state = "published"

(* What becomes of a loop that works after the step. *)
LEMMA LoopMoves ==
    ASSUME TypeOK, [Next]_vars, NEW l \in Loop, Busy(l)'
    PROVE  \/ \E j \in Job : ClaimJob(l, j)
           \/ Busy(l) /\ To(l, loops[l].pc)
           \/ Busy(l) /\ To(l, loops'[l].pc) /\ LoopStep(l) /\ Advance(l)
  <1>1. CASE loops'[l] = loops[l]
    BY <1>1 DEF Busy, To
  <1>2. CASE HeartbeatJob(l)
    BY <1>2 DEF HeartbeatJob, TypeOK, LoopState, To, Busy
  <1>3. CASE LoopStep(l)
    <2>1. (\E j \in Job : ClaimJob(l, j)) \/ Advance(l)
      BY <1>3, Transition
    <2>2. (\E j \in Job : ClaimJob(l, j)) \/ (Busy(l) /\ To(l, loops'[l].pc))
      BY ClaimStep DEF To
    <2> QED
      BY <1>3, <2>1, <2>2
  <1>4. loops'[l] # Idle
    BY DEF Busy, Idle
  <1> QED
    BY <1>1, <1>2, <1>3, <1>4, OwnSteps

(* Only a loop that works on the job changes its publication. *)
LEMMA PublicationActor ==
    ASSUME TypeOK, [Next]_vars, NEW j \in Job, pubs'[j] # pubs[j]
    PROVE  \E l \in Loop : /\ Busy(l) /\ loops[l].job = j
                           /\ \/ BeginPublication(l)
                              \/ FailPublication(l)
                              \/ FinalizePublication(l)
  <1>1. UNCHANGED pubs \/ \E l \in Loop : \/ BeginPublication(l)
                                         \/ FailPublication(l)
                                         \/ FinalizePublication(l)
    BY DEF Next, LoopStep, vars, CreateJob, LeaseExpires, LeaseStalls, ClockPasses, CancelJobs,
           Start, Shutdown, Exit, Crash, ClaimJob, ClaimLost, HeartbeatJob, PollEmpty,
           PipelineCheck, StageCheck, DetectiveStage, CriticStage, ResolveToken,
           ExistingPublication, Post, FinishCheck, FailJob, CompleteJob, FinalUpdate
  <1>2. PICK l \in Loop : BeginPublication(l) \/ FailPublication(l) \/ FinalizePublication(l)
    BY <1>1
  <1>3. Busy(l)
    BY <1>2 DEF BeginPublication, FailPublication, FinalizePublication, Busy
  <1>4. \E row : pubs' = [pubs EXCEPT ![loops[l].job] = row] \/ pubs' = pubs
    BY <1>2 DEF BeginPublication, FailPublication, FinalizePublication
  <1> QED
    BY <1>2, <1>3, <1>4 DEF TypeOK

(* Initially no slot is taken and no loop works. *)
LEMMA Reserved_Init == Init => ReservedInv
  BY DEF Init, ReservedInv, CompletedIsReserved, NoJob, NoPub, Idle, Busy, Unpublished, Prepared

(* A loop that keeps working on a job of generation 1 works under that      *)
(* generation, and so does nobody else.                                     *)
LEMMA FirstExecution ==
    ASSUME TypeOK, GenInv, ReservedInv, NEW l \in Loop, NEW m \in Loop,
           Busy(l), Busy(m), loops[m].job = loops[l].job,
           jobs[loops[l].job].lock_generation <= 1
    PROVE  m = l /\ jobs[loops[l].job].lock_generation = 1
  <1>1. jobs[loops[l].job].lock_generation \in Nat /\ loops[l].gen \in Nat /\ loops[m].gen \in Nat
    BY DEF TypeOK, LoopState, Busy, JobRow
  <1>2. loops[l].gen = 1 /\ loops[m].gen = 1 /\ jobs[loops[l].job].lock_generation = 1
    BY <1>1 DEF ReservedInv, GenInv, GenerationIsUnique
  <1> QED
    BY <1>2 DEF GenInv, GenerationIsUnique

(* While no execution has started, the slot is free. *)
LEMMA Reserved_Unclaimed ==
    ASSUME TypeOK, GenInv, ReservedInv, [Next]_vars, NEW j \in Job,
           jobs'[j].lock_generation = 0
    PROVE  pubs'[j].state = "absent"
  <1>1. jobs[j].lock_generation = 0
    BY GenerationStep
  <1>2. \A l \in Loop : Busy(l) => loops[l].job # j
    BY <1>1, FirstExecution
  <1> QED
    BY <1>1, <1>2, PublicationActor DEF ReservedInv

(* What the last conjunct of ReservedInv says of the first execution. *)
LEMMA Reserved_First ==
    ASSUME TypeOK, GenInv, FenceInv, ReservedInv, [Next]_vars, NEW l \in Loop, Busy(l)',
           jobs'[loops'[l].job].lock_generation = 1
    PROVE  /\ loops'[l].pc \in Unpublished => pubs'[loops'[l].job].state = "absent"
           /\ loops'[l].pc # "existing"
           /\ loops'[l].pc \in {"check_final", "complete"} =>
                 pubs'[loops'[l].job].state = "published"
  <1> DEFINE j == loops'[l].job
  <1>1. j \in Job
    BY TypeOK_Next DEF TypeOK, LoopState, Busy
  <1>2. ASSUME NEW k \in Job, ClaimJob(l, k)
        PROVE  j = k /\ loops'[l].pc = "check_detective" /\ pubs'[j].state = "absent"
    <2>1. j = k /\ loops'[l].pc = "check_detective" /\ jobs[k].lock_generation = 0
      BY <1>2, ClaimedLoop, GenerationStep
    <2> QED
      BY <1>2, <2>1 DEF ClaimJob, ReservedInv
  <1>3. CASE Busy(l) /\ loops'[l].job = loops[l].job
    <2>1. jobs[j].lock_generation = 1 /\ \A m \in Loop : Busy(m) /\ loops[m].job = j => m = l
      BY <1>1, <1>3, FirstExecution, GenerationStep
    <2>2. CASE pubs'[j] = pubs[j]
      <3>1. CASE To(l, loops[l].pc)
        BY <1>3, <2>1, <2>2, <3>1 DEF To, ReservedInv
      <3>2. CASE Advance(l)
        <4>1. \A b : To(l, b) => loops'[l].pc = b
          BY DEF To
        <4>2. \A a : From(l, a) => loops[l].pc = a
          BY DEF From
        <4>3. /\ Prepared \subseteq Unpublished
              /\ {"check_detective", "detective", "check_memory", "begin"} \subseteq Unpublished
              /\ {"finish", "fail", "post", "finalize", "failpub", "existing",
                  "check_final", "complete"} \cap Unpublished = {}
          BY DEF Unpublished, Prepared
        <4>4. loops[l].pc \in Unpublished => pubs[j].state = "absent"
          BY <1>3, <2>1 DEF ReservedInv
        <4>5. From(l, "begin") => SlotFree(pubs[j])
          BY <4>2, <4>3, <4>4 DEF SlotFree
        <4>6. \A id : pubs' = [pubs EXCEPT ![loops[l].job] = PublishedPub(@, id)]
                        => pubs'[j].state = "published"
          BY <1>1, <1>3 DEF PublishedPub, TypeOK, PubRow
        <4>7. /\ loops[l].pc # "existing"
              /\ loops[l].pc = "check_final" => pubs[j].state = "published"
          BY <1>3, <2>1 DEF ReservedInv
        <4> QED
          BY <1>3, <2>2, <3>2, <4>1, <4>2, <4>3, <4>4, <4>5, <4>6, <4>7 DEF Advance
      <3> QED
        BY <1>1, <1>2, <3>1, <3>2, LoopMoves, <1>3, ClaimedLoop
    <2>3. CASE pubs'[j] # pubs[j]
      <3>1. BeginPublication(l) \/ FailPublication(l) \/ FinalizePublication(l)
        BY <1>1, <2>1, <2>3, PublicationActor
      <3>2. /\ loops'[l].pc \in {"finish", "existing", "post", "finalize", "check_final"}
            /\ loops'[l].pc = "existing" => BeginPublication(l) /\ ~SlotFree(pubs[j])
            /\ loops'[l].pc = "check_final" => FinalizePublication(l)
        BY <1>3, <3>1 DEF BeginPublication, FailPublication, FinalizePublication, Goto, Return,
                         TypeOK, LoopState
      <3>3. BeginPublication(l) => SlotFree(pubs[j])
        BY <1>3, <2>1 DEF BeginPublication, ReservedInv, Unpublished, Prepared, SlotFree
      <3>4. FinalizePublication(l) => pubs'[j].state = "published"
        BY <1>1, <1>3, <2>3 DEF FinalizePublication, PublishedPub, TypeOK, PubRow
      <3> QED
        BY <3>2, <3>3, <3>4 DEF Unpublished, Prepared
    <2> QED
      BY <2>2, <2>3
  <1> QED
    BY <1>1, <1>2, <1>3, LoopMoves DEF To, Unpublished, Prepared

(* A loop that goes on to complete its job has found the slot taken. *)
LEMMA Reserved_Taken ==
    ASSUME TypeOK, FenceInv, ReservedInv, [Next]_vars, NEW l \in Loop,
           loops'[l].pc \in {"existing", "check_final", "complete"}
    PROVE  pubs'[loops'[l].job].state # "absent"
  <1>1. Busy(l)' /\ loops'[l].job \in Job
    BY TypeOK_Next DEF TypeOK, LoopState, Busy
  <1>2. ~ \E k \in Job : ClaimJob(l, k)
    BY ClaimedLoop
  <1>3. Busy(l) /\ loops'[l].job = loops[l].job
    BY <1>1, <1>2, LoopMoves DEF To
  <1>4. pubs[loops[l].job].state # "absent" => pubs'[loops[l].job].state # "absent"
    BY <1>1, <1>3, PublicationStep
  <1>5. CASE To(l, loops[l].pc)
    BY <1>3, <1>4, <1>5 DEF To, ReservedInv
  <1>6. CASE Advance(l)
    <2>1. \A b : To(l, b) => loops'[l].pc = b
      BY DEF To
    <2>2. \A id : pubs' = [pubs EXCEPT ![loops[l].job] = PublishedPub(@, id)]
                    => pubs'[loops[l].job].state = "published"
      BY <1>1, <1>3 DEF PublishedPub, TypeOK, PubRow
    <2>3. \A a \in {"existing", "check_final"} :
             From(l, a) => pubs[loops[l].job].state # "absent"
      BY DEF From, ReservedInv
    <2>4. {"existing", "check_final", "complete"} \cap Prepared = {}
      BY DEF Prepared
    <2> QED
      BY <1>3, <1>4, <1>6, <2>1, <2>2, <2>3, <2>4 DEF Advance, SlotFree
  <1> QED
    BY <1>1, <1>2, <1>5, <1>6, LoopMoves

(* A job is completed by a loop for which the slot is taken, and the slot   *)
(* stays as it is.                                                          *)
LEMMA Reserved_Completed ==
    ASSUME TypeOK, FenceInv, ReservedInv, [Next]_vars, NEW j \in Job,
           jobs'[j].status = "completed"
    PROVE  /\ pubs'[j].state # "absent"
           /\ jobs'[j].lock_generation = 1 => pubs'[j].state = "published"
  <1>1. jobs[j] \in JobRow(Process)
    BY DEF TypeOK
  <1>2. ~ \/ jobs'[j] = NewJob
          \/ jobs[j].status \in Open /\ jobs'[j] = CancelledRow(jobs[j])
          \/ /\ jobs[j].status = "running"
             /\ jobs'[j] = [jobs[j] EXCEPT !.locked_until = "past"]
          \/ Claim(j)
    BY <1>1 DEF NewJob, NoJob, CancelledRow, Open, Claim, ClaimedRow, JobRow
  <1>3. /\ pubs[j].state # "absent"
        /\ jobs'[j].lock_generation = 1 => pubs[j].state = "published"
    <2>1. CASE jobs'[j] = jobs[j]
      BY <2>1 DEF ReservedInv, CompletedIsReserved
    <2>2. ASSUME NEW l \in Loop, FencedStatement(l, j)
          PROVE  /\ pubs[j].state # "absent"
                 /\ jobs'[j].lock_generation = 1 => pubs[j].state = "published"
      <3>1. jobs[j].status = "running" /\ loops[l].job = j /\ Busy(l)
        BY <2>2 DEF FencedStatement, Owned, OwnedBy
      <3>2. loops[l].pc = "complete" /\ jobs'[j] = CompletedRow(jobs[j], loops[l].gen)
        BY <1>1, <2>2, <3>1 DEF FencedStatement, HeartbeatRow, ContextRow, ResultRow, FailedRow,
                                JobRow
      <3>3. jobs'[j].lock_generation = jobs[j].lock_generation
        BY <1>1, <3>2 DEF CompletedRow, JobRow
      <3> QED
        BY <3>1, <3>2, <3>3 DEF ReservedInv
    <2> QED
      BY <1>2, <2>1, <2>2, RowStep DEF Statement
  <1> QED
    BY <1>3, PublicationStep

(* No step completes a job whose publication slot is free. *)
LEMMA Reserved_Next ==
    TypeOK /\ GenInv /\ FenceInv /\ ReservedInv /\ [Next]_vars => ReservedInv'
  <1> SUFFICES ASSUME TypeOK, GenInv, FenceInv, ReservedInv, [Next]_vars PROVE ReservedInv'
    OBVIOUS
  <1>1. ASSUME NEW l \in Loop, Busy(l)' PROVE loops'[l].gen # 0
    <2>1. ASSUME NEW j \in Job, ClaimJob(l, j) PROVE loops'[l].gen # 0
      BY <2>1, ClaimedLoop, GenerationStep
    <2> QED
      BY <1>1, <2>1, ClaimStep DEF ReservedInv
  <1> QED
    BY <1>1, Reserved_Unclaimed, Reserved_First, Reserved_Taken, Reserved_Completed
       DEF ReservedInv, CompletedIsReserved

(* A completed job has its publication slot taken, and if it was completed  *)
(* at its first claim, it is published.                                     *)
THEOREM CompletedHasSlot == Spec => []CompletedIsReserved
  <1>1. ReservedInv => CompletedIsReserved
    BY DEF ReservedInv
  <1> QED
    BY <1>1, TypeOK_Init, TypeOK_Next, Gen_Init, Gen_Next, Fence_Init, Fence_Next,
       Reserved_Init, Reserved_Next, PTL DEF Spec

-----------------------------------------------------------------------------
(* A job is reclaimed only after a fault, as long as heartbeats come in     *)
(* time.  A running job whose generation no fault pays for yet is in the    *)
(* hands of a loop that renews its lease.                                   *)

ReclaimInv ==
    /\ \A j \in Job : jobs[j].lock_generation <= faults + 1
    /\ \A j \in Job : jobs[j].status \in Queued \cup {"absent"} =>
          jobs[j].lock_generation = 0
    /\ \A j \in Job : jobs[j].status = "running" =>
          \/ jobs[j].lock_generation <= faults
          \/ jobs[j].locked_until = "live" /\ Renewing(j)
    /\ \A l \in Loop : Busy(l) /\ loops[l].err = "canceled" => CtxDone(l)
    /\ \A l \in Loop :
          /\ Busy(l) /\ jobs[loops[l].job].status = "running"
          /\ loops[l].gen = jobs[loops[l].job].lock_generation
          => Owned(l)

(* A fault is paid for with one of MaxFaults, and none is ever paid back. *)
LEMMA FaultStep ==
    ASSUME TypeOK, [Next]_vars
    PROVE  /\ faults \in Nat /\ faults' \in Nat /\ faults <= faults'
           /\ Fault => faults' = faults + 1
  <1>1. faults \in Nat /\ faults' \in Nat
    BY TypeOK_Next, MaxFaultsAssumption DEF TypeOK
  <1>2. \A r, done : Outcome(r, done) => faults' = faults \/ Fault
    BY DEF Outcome
  <1>3. ASSUME NEW l \in Loop, LoopStep(l) PROVE faults' = faults \/ Fault
    <2>1. (\E j \in Job : ClaimJob(l, j)) \/ PipelineCheck(l) \/ ResolveToken(l)
          \/ ExistingPublication(l) \/ Post(l) \/ FinishCheck(l)
          => faults' = faults \/ Fault
      BY DEF ClaimJob, PipelineCheck, StageCheck, ResolveToken, ExistingPublication, Post,
             FinishCheck
    <2>2. DetectiveStage(l) \/ CriticStage(l) => faults' = faults \/ Fault
      BY <1>2 DEF DetectiveStage, CriticStage, StageFails, SaveRow
    <2>3. BeginPublication(l) \/ FailPublication(l) \/ FinalizePublication(l)
          => faults' = faults \/ Fault
      BY <1>2 DEF BeginPublication, FailPublication, FinalizePublication
    <2>4. FailJob(l) \/ CompleteJob(l) => faults' = faults \/ Fault
      BY <1>2 DEF FailJob, CompleteJob, FinalUpdate
    <2> QED
      BY <1>3, <2>1, <2>2, <2>3, <2>4 DEF LoopStep
  <1>4. ASSUME NEW l \in Loop, HeartbeatJob(l) \/ PollEmpty(l)
        PROVE  faults' = faults \/ Fault
    BY <1>2, <1>4 DEF HeartbeatJob, PollEmpty, vars
  <1>5. ASSUME NEW p \in Process, Start(p) \/ Shutdown(p) \/ Exit(p) \/ Crash(p)
        PROVE  faults' = faults \/ Fault
    BY <1>5 DEF Start, Shutdown, Exit, Crash
  <1>6. ASSUME NEW j \in Job,
               \/ CreateJob(j) \/ LeaseExpires(j) \/ LeaseStalls(j)
               \/ \E l \in Loop : ClaimLost(l, j)
        PROVE  faults' = faults \/ Fault
    BY <1>6 DEF CreateJob, LeaseExpires, LeaseStalls, ClaimLost
  <1>7. ASSUME NEW S \in SUBSET Job, CancelJobs(S) PROVE faults' = faults \/ Fault
    BY <1>7 DEF CancelJobs
  <1>8. faults' = faults \/ Fault
    BY <1>3, <1>4, <1>5, <1>6, <1>7 DEF Next, vars
  <1> QED
    BY <1>1, <1>8 DEF Fault

(* A step of a loop touches its process and its context only when it claims *)
(* a job, and it reports a cancellation only when there was one.            *)
LEMMA ContextStep ==
    ASSUME TypeOK, NEW l \in Loop, LoopStep(l), Busy(l), Busy(l)'
    PROVE  /\ proc' = proc /\ loops'[l].ctx = loops[l].ctx
           /\ loops'[l].err = "canceled" => loops[l].err = "canceled" \/ CtxDone(l)
  <1> DEFINE Good == /\ loops'[l].ctx = loops[l].ctx
                     /\ loops'[l].err = "canceled" => loops[l].err = "canceled" \/ CtxDone(l)
  <1>goto. \A next : Goto(l, next) => Good
    BY DEF Goto, TypeOK, LoopState
  <1>return. \A e : Return(l, e) /\ (e = "canceled" => CtxDone(l)) => Good
    BY DEF Return, TypeOK, LoopState
  <1>release. ~Release(l)
    BY DEF Release, Busy, Idle, TypeOK
  <1>err. /\ CtxError(l) = "canceled" => CtxDone(l)
          /\ BuildError(l) = "canceled" => CtxDone(l)
          /\ RouterError(l) = "canceled" => CtxDone(l)
          /\ TokenError(l) = "canceled" => CtxDone(l)
    BY DEF CtxError, BuildError, RouterError, TokenError
  <1> HIDE DEF Good
  <1>1. ASSUME NEW here, NEW next, StageCheck(l, here, next) PROVE Good /\ proc' = proc
    <2>1. \A e : Return(l, e) /\ CtxDone(l) => Good
      BY <1>return
    <2>2. Return(l, "cancelled_in_db") => Good
      BY <1>return
    <2> QED
      BY <1>1, <1>goto, <2>1, <2>2 DEF StageCheck
  <1>2. CASE PipelineCheck(l)
    BY <1>1, <1>2 DEF PipelineCheck, Good
  <1>3. CASE DetectiveStage(l) \/ CriticStage(l)
    BY <1>3, <1>goto, <1>return, <1>err
       DEF DetectiveStage, CriticStage, StageFails, SaveRow, Good
  <1>4. CASE ResolveToken(l)
    BY <1>4, <1>goto, <1>return, <1>err DEF ResolveToken, Good
  <1>5. CASE BeginPublication(l) \/ FinalizePublication(l)
    BY <1>5, <1>goto, <1>return, <1>err DEF BeginPublication, FinalizePublication, Good
  <1>6. CASE ExistingPublication(l)
    BY <1>6, <1>goto, <1>return DEF ExistingPublication, Good
  <1>7. CASE Post(l)
    <2>1. loops' = [loops EXCEPT ![l].pc = "failpub", ![l].err = CtxError(l)] => Good
      BY <1>err DEF TypeOK, LoopState, Good
    <2> QED
      BY <1>7, <1>goto, <2>1 DEF Post, Good
  <1>8. CASE FailPublication(l)
    BY <1>8, <1>goto DEF FailPublication, Good
  <1>9. CASE FinishCheck(l) \/ FailJob(l) \/ CompleteJob(l)
    BY <1>9, <1>goto, <1>release DEF FinishCheck, FailJob, CompleteJob, FinalUpdate, Good
  <1> QED
    BY <1>2, <1>3, <1>4, <1>5, <1>6, <1>7, <1>8, <1>9 DEF LoopStep, ClaimJob

(* A loop whose context is live gives up a running job it owns only when a  *)
(* fault makes it.                                                          *)
LEMMA ReleaseStep ==
    ASSUME TypeOK, NEW l \in Loop, LoopStep(l), Busy(l), ~Busy(l)', Owned(l), ~CtxDone(l),
           loops[l].err # "canceled"
    PROVE  Fault \/ jobs'[loops[l].job].status # "running"
  <1> DEFINE j == loops[l].job
  <1>1. j \in Job /\ jobs[j] \in JobRow(Process)
    BY DEF TypeOK, LoopState, Busy
  <1>2. /\ FailedRow(jobs[j]).status # "running"
        /\ CompletedRow(jobs[j], loops[l].gen).status # "running"
    BY <1>1 DEF FailedRow, CompletedRow, JobRow
  <1>3. ~ \E k \in Job : ClaimJob(l, k)
    BY DEF ClaimJob
  <1>4. ASSUME FailJob(l) \/ CompleteJob(l)
        PROVE  Fault \/ jobs'[j].status # "running"
    BY <1>1, <1>2, <1>4 DEF FailJob, CompleteJob, FinalUpdate, Outcome, CtxDone, TypeOK
  <1>5. ASSUME FinishCheck(l)
        PROVE  Fault
    <2>1. ~Goto(l, "fail")
      BY DEF Goto, Busy, TypeOK, LoopState
    <2> QED
      BY <1>5, <2>1 DEF FinishCheck, CtxDone
  <1>6. FinishCheck(l) \/ FailJob(l) \/ CompleteJob(l)
    <2>1. ~ (\E next : next # "poll" /\ Goto(l, next)) /\ ~ \E e : Return(l, e)
      BY DEF Goto, Return, Busy, TypeOK, LoopState
    <2>2. ~PipelineCheck(l)
      BY <2>1 DEF PipelineCheck, StageCheck
    <2>3. ~ DetectiveStage(l) /\ ~CriticStage(l)
      BY <2>1 DEF DetectiveStage, CriticStage, StageFails, SaveRow
    <2>4. ~ResolveToken(l) /\ ~BeginPublication(l) /\ ~ExistingPublication(l)
      BY <2>1 DEF ResolveToken, BeginPublication, ExistingPublication
    <2>5. ~Post(l)
      BY <2>1 DEF Post, Busy, TypeOK, LoopState
    <2>6. ~FailPublication(l) /\ ~FinalizePublication(l)
      BY <2>1 DEF FailPublication, FinalizePublication
    <2> QED
      BY <1>3, <2>2, <2>3, <2>4, <2>5, <2>6 DEF LoopStep
  <1> QED
    BY <1>4, <1>5, <1>6

(* The context of a process ends with a fault, and a context that is done   *)
(* stays done.                                                              *)
LEMMA ProcessStep ==
    ASSUME TypeOK, [Next]_vars, NEW l \in Loop, Busy(l), Busy(l)'
    PROVE  /\ ParentDone(l)' => ParentDone(l) \/ Fault
           /\ ParentDone(l) => ParentDone(l)'
  <1>1. ProcOf[l] \in Process
    BY ProcOfAssumption
  <1>2. ASSUME NEW p \in Process, Start(p) \/ Shutdown(p) \/ Exit(p)
        PROVE  /\ ParentDone(l)' => ParentDone(l) \/ Fault
               /\ ParentDone(l) => ParentDone(l)'
    BY <1>1, <1>2 DEF Start, Shutdown, Exit, ParentDone, TypeOK
  <1>3. ASSUME NEW p \in Process, Crash(p)
        PROVE  /\ ParentDone(l)' => ParentDone(l) \/ Fault
               /\ ParentDone(l) => ParentDone(l)'
    <2>1. ProcOf[l] # p
      BY <1>3 DEF Crash, Busy, Idle
    <2> QED
      BY <1>1, <1>3, <2>1 DEF Crash, ParentDone, TypeOK
  <1>4. ASSUME NEW m \in Loop, LoopStep(m) PROVE proc' = proc
    <2>1. (\E j \in Job : ClaimJob(m, j)) \/ PipelineCheck(m) \/ ResolveToken(m)
          \/ ExistingPublication(m) \/ Post(m) \/ FinishCheck(m) => proc' = proc
      BY DEF ClaimJob, PipelineCheck, StageCheck, ResolveToken, ExistingPublication, Post,
             FinishCheck
    <2>2. DetectiveStage(m) \/ CriticStage(m) \/ FailJob(m) \/ CompleteJob(m) => proc' = proc
      BY DEF DetectiveStage, CriticStage, FailJob, CompleteJob, FinalUpdate
    <2>3. BeginPublication(m) \/ FailPublication(m) \/ FinalizePublication(m) => proc' = proc
      BY DEF BeginPublication, FailPublication, FinalizePublication
    <2> QED
      BY <1>4, <2>1, <2>2, <2>3 DEF LoopStep
  <1>5. ASSUME NEW m \in Loop, HeartbeatJob(m) \/ PollEmpty(m) PROVE proc' = proc
    BY <1>5 DEF HeartbeatJob, PollEmpty, vars
  <1>6. ASSUME NEW j \in Job,
               \/ CreateJob(j) \/ LeaseExpires(j) \/ LeaseStalls(j)
               \/ \E m \in Loop : ClaimLost(m, j)
        PROVE  proc' = proc
    BY <1>6 DEF CreateJob, LeaseExpires, LeaseStalls, ClockPasses, ClaimLost
  <1>7. ASSUME NEW S \in SUBSET Job, CancelJobs(S) PROVE proc' = proc
    BY <1>7 DEF CancelJobs
  <1>8. proc' = proc \/ \E p \in Process : Start(p) \/ Shutdown(p) \/ Exit(p) \/ Crash(p)
    BY <1>4, <1>5, <1>6, <1>7 DEF Next, vars
  <1> QED
    BY <1>2, <1>3, <1>8 DEF ParentDone

(* A loop keeps a live context as long as it works on a job it owns, unless *)
(* a fault happens or it leaves the job settled.                            *)
LEMMA RenewingStep ==
    ASSUME TypeOK, ReclaimInv, [Next]_vars, NEW l \in Loop,
           Busy(l), Owned(l), ~CtxDone(l), jobs'[loops[l].job].status = "running", ~Fault
    PROVE  /\ Busy(l)' /\ ~CtxDone(l)'
           /\ loops'[l].job = loops[l].job /\ loops'[l].gen = loops[l].gen
  <1> DEFINE Kept == /\ Busy(l)' /\ loops'[l].ctx = loops[l].ctx
                     /\ loops'[l].job = loops[l].job /\ loops'[l].gen = loops[l].gen
  <1>1. ASSUME loops'[l] = loops[l] PROVE Kept
    BY <1>1 DEF Busy
  <1>2. ASSUME HeartbeatJob(l) PROVE Kept
    BY <1>2 DEF HeartbeatJob, Outcome, Busy
  <1>3. ASSUME LoopStep(l) PROVE Kept
    <2>1. Busy(l)'
      BY <1>3, ReleaseStep DEF ReclaimInv
    <2>2. ~ \E j \in Job : ClaimJob(l, j)
      BY DEF ClaimJob
    <2> QED
      BY <1>3, <2>1, <2>2, ContextStep, ClaimStep
  <1>4. ~ \E p \in Process : Crash(p)
    BY DEF Crash
  <1>5. Kept
    BY <1>1, <1>2, <1>3, <1>4, OwnSteps
  <1> QED
    BY <1>5, ProcessStep DEF CtxDone

(* Initially nothing is queued, running or worked on. *)
LEMMA Reclaim_Init == Init => ReclaimInv
  BY MaxFaultsAssumption DEF Init, ReclaimInv, NoJob, Idle, Busy

(* A heartbeat of the owner renews the lease. *)
LEMMA OwnerRenews ==
    ASSUME NEW row \in JobRow(Process)
    PROVE  HeartbeatRow([row EXCEPT !.locked_until = "past"]).locked_until = "live"
  BY DEF HeartbeatRow, JobRow

(* The loop that holds the generation of a running row is its owner. *)
LEMMA Reclaim_Owner ==
    ASSUME TypeOK, GenInv, ReclaimInv, [Next]_vars, NEW l \in Loop, Busy(l)',
           jobs'[loops'[l].job].status = "running",
           loops'[l].gen = jobs'[loops'[l].job].lock_generation
    PROVE  Owned(l)'
  <1>1. CASE \E j \in Job : ClaimJob(l, j)
    <2> PICK j \in Job : ClaimJob(l, j)
      BY <1>1
    <2>1. jobs'[j].locked_by = ProcOf[l] /\ loops'[l].job = j
      <3>1. /\ jobs' = [jobs EXCEPT ![j] = ClaimedRow(jobs[j], ProcOf[l])]
            /\ loops'[l].job = j
        BY ClaimedLoop
      <3>2. jobs'[j] = ClaimedRow(jobs[j], ProcOf[l])
        BY <3>1 DEF TypeOK
      <3>3. \A p : ClaimedRow(jobs[j], p).locked_by = p
        BY DEF ClaimedRow, TypeOK, JobRow
      <3> QED
        BY <3>1, <3>2, <3>3
    <2> QED
      BY <2>1 DEF Owned, OwnedBy
  <1>2. CASE Busy(l) /\ loops'[l].job = loops[l].job /\ loops'[l].gen = loops[l].gen
    <2> DEFINE j == loops[l].job
    <2>1. j \in Job /\ loops[l].gen \in Nat /\ jobs[j] \in JobRow(Process)
      BY <1>2 DEF TypeOK, LoopState, Busy
    <2>2. /\ loops[l].gen <= jobs[j].lock_generation
          /\ jobs[j].lock_generation <= jobs'[j].lock_generation
          /\ jobs[j].lock_generation \in Nat /\ jobs'[j].lock_generation \in Nat
      BY <1>2, <2>1, GenerationStep DEF GenInv, GenerationIsUnique
    <2>3. jobs[j].lock_generation = loops[l].gen /\ jobs'[j].lock_generation = loops[l].gen
      BY <1>2, <2>1, <2>2
    <2>4. jobs[j].status = "running" => Owned(l)
      BY <1>2, <2>3 DEF ReclaimInv
    <2>5. ~Claim(j)
      <3>1. \A p : ClaimedRow(jobs[j], p).lock_generation = jobs[j].lock_generation + 1
        BY <2>1 DEF ClaimedRow, JobRow
      <3> QED
        BY <2>2, <2>3, <3>1 DEF Claim
    <2>6. jobs[j].status = "running" /\ jobs'[j].locked_by = jobs[j].locked_by
      <3>1. CASE jobs'[j] = jobs[j]
        BY <1>2, <3>1
      <3>2. CASE jobs'[j] = NewJob \/ (jobs[j].status \in Open /\ jobs'[j] = CancelledRow(jobs[j]))
        BY <1>2, <2>1, <3>2 DEF NewJob, NoJob, CancelledRow, JobRow
      <3>3. CASE jobs[j].status = "running" /\ jobs'[j] = [jobs[j] EXCEPT !.locked_until = "past"]
        BY <2>1, <3>3 DEF JobRow
      <3>4. ASSUME NEW m \in Loop, FencedStatement(m, j)
            PROVE  jobs[j].status = "running" /\ jobs'[j].locked_by = jobs[j].locked_by
        <4>1. jobs[j].status = "running"
          BY <3>4 DEF FencedStatement, Owned, OwnedBy
        <4> QED
          BY <1>2, <2>1, <3>4, <4>1 DEF FencedStatement, HeartbeatRow, ContextRow, ResultRow,
                                        FailedRow, CompletedRow, JobRow
      <3> QED
        BY <2>1, <2>5, <3>1, <3>2, <3>3, <3>4, RowStep DEF Statement
    <2> QED
      BY <1>2, <2>3, <2>4, <2>6 DEF Owned, OwnedBy
  <1> QED
    BY <1>1, <1>2, ClaimStep

(* A claim starts a generation that is paid for, and whoever hears of it    *)
(* renews the lease.                                                        *)
LEMMA Reclaim_Claim ==
    ASSUME HeartbeatInTime, TypeOK, ReclaimInv, [Next]_vars, NEW j \in Job, Claim(j)
    PROVE  /\ jobs'[j].lock_generation <= faults' + 1
           /\ jobs'[j].status = "running"
           /\ jobs'[j].lock_generation <= faults' \/ (jobs'[j].locked_until = "live" /\ Renewing(j)')
  <1>1. jobs[j] \in JobRow(Process) /\ jobs[j].lock_generation \in Nat
    BY DEF TypeOK, JobRow
  <1>2. jobs[j].lock_generation <= faults
    BY FaultStep DEF Claim, Claimable, ReclaimInv
  <1>3. /\ jobs'[j].lock_generation = jobs[j].lock_generation + 1
        /\ jobs'[j].status = "running" /\ jobs'[j].locked_until = "live"
    BY <1>1 DEF Claim, ClaimedRow, JobRow
  <1>4. ASSUME NEW l \in Loop, ClaimJob(l, j) PROVE Renewing(j)'
    <2>1. /\ loops'[l].pc # "poll" /\ loops'[l].job = j /\ loops'[l].ctx = "live"
          /\ loops'[l].gen = jobs'[j].lock_generation
      BY <1>4, ClaimedLoop
    <2>2. proc'[ProcOf[l]] = "up" /\ jobs'[j].locked_by = ProcOf[l]
      BY <1>1, <1>4 DEF ClaimJob, ClaimedRow, TypeOK, JobRow
    <2>3. Busy(l)' /\ Owned(l)'
      BY <1>3, <2>1, <2>2 DEF Busy, Owned, OwnedBy
    <2>4. Renews(l)'
      <3>1. jobs'[j] \in JobRow(Process)
        BY TypeOK_Next DEF TypeOK
      <3> QED
        BY <2>1, <2>3, <3>1, OwnerRenews DEF Renews
    <2> QED
      BY <2>1, <2>2, <2>3, <2>4 DEF Renewing, CtxDone, ParentDone
  <1>5. Fault \/ \E l \in Loop : ClaimJob(l, j)
    BY DEF Claim
  <1> QED
    BY <1>1, <1>2, <1>3, <1>4, <1>5, FaultStep

(* A row that stays running at its generation stays paid for or renewed. *)
LEMMA Reclaim_Kept ==
    ASSUME TypeOK, GenInv, ReclaimInv, [Next]_vars, NEW j \in Job,
           jobs[j].status = "running", jobs'[j].status = "running",
           jobs'[j].lock_generation = jobs[j].lock_generation,
           jobs'[j].locked_until \in {jobs[j].locked_until, "live"}
    PROVE  \/ jobs'[j].lock_generation <= faults'
           \/ jobs'[j].locked_until = "live" /\ Renewing(j)'
  <1>1. jobs[j].lock_generation \in Nat /\ jobs[j].lock_generation <= faults + 1
    BY DEF TypeOK, JobRow, ReclaimInv
  <1>2. CASE jobs[j].lock_generation <= faults \/ Fault
    BY <1>1, <1>2, FaultStep
  <1>3. CASE ~Fault /\ jobs[j].locked_until = "live" /\ Renewing(j)
    <2>1. PICK l \in Loop : Busy(l) /\ loops[l].job = j /\ ~CtxDone(l) /\ Renews(l)
      BY <1>3 DEF Renewing
    <2>2. Owned(l) /\ jobs'[loops[l].job].status = "running"
      BY <2>1 DEF Renews
    <2>3. Busy(l) /\ ~CtxDone(l) /\ ~Fault
      BY <1>3, <2>1
    <2>4. /\ Busy(l)' /\ ~CtxDone(l)'
          /\ loops'[l].job = loops[l].job /\ loops'[l].gen = loops[l].gen
      BY <2>2, <2>3, RenewingStep
    <2>5. Renews(l)'
      <3>1. jobs'[j] \in JobRow(Process) /\ loops'[l].job = j
        BY <2>1, <2>4, TypeOK_Next DEF TypeOK
      <3>2. loops'[l].gen = jobs'[j].lock_generation
        BY <2>1, <2>2, <2>4 DEF Owned, OwnedBy
      <3>3. Owned(l)'
        BY <2>4, <3>1, <3>2, Reclaim_Owner
      <3> QED
        BY <3>1, <3>3, OwnerRenews DEF Renews
    <2> QED
      BY <1>3, <2>1, <2>4, <2>5 DEF Renewing
  <1> QED
    BY <1>2, <1>3 DEF ReclaimInv

(* A running row is paid for, or in the hands of a loop that renews it. *)
LEMMA Reclaim_Running ==
    ASSUME HeartbeatInTime, TypeOK, GenInv, ReclaimInv, [Next]_vars, NEW j \in Job,
           jobs'[j].status = "running"
    PROVE  \/ jobs'[j].lock_generation <= faults'
           \/ jobs'[j].locked_until = "live" /\ Renewing(j)'
  <1>1. /\ jobs[j] \in JobRow(Process)
        /\ jobs[j].lock_generation \in Nat /\ jobs[j].lock_generation <= faults + 1
    BY DEF TypeOK, JobRow, ReclaimInv
  <1>2. CASE jobs'[j] = jobs[j]
    BY <1>2, Reclaim_Kept
  <1>3. CASE jobs'[j] = NewJob \/ (jobs[j].status \in Open /\ jobs'[j] = CancelledRow(jobs[j]))
    BY <1>1, <1>3 DEF NewJob, NoJob, CancelledRow, JobRow
  <1>4. CASE /\ jobs[j].status = "running" /\ (~Renewing(j) \/ Fault)
             /\ jobs'[j] = [jobs[j] EXCEPT !.locked_until = "past"]
    <2>1. jobs'[j].lock_generation = jobs[j].lock_generation
      BY <1>1, <1>4 DEF JobRow
    <2>2. jobs[j].lock_generation <= faults \/ Fault
      BY <1>4 DEF ReclaimInv
    <2> QED
      BY <1>1, <2>1, <2>2, FaultStep
  <1>5. CASE Claim(j)
    BY <1>5, Reclaim_Claim
  <1>6. ASSUME NEW l \in Loop, FencedStatement(l, j)
        PROVE  \/ jobs'[j].lock_generation <= faults'
               \/ jobs'[j].locked_until = "live" /\ Renewing(j)'
    <2>1. jobs[j].status = "running"
      BY <1>6 DEF FencedStatement, Owned, OwnedBy
    <2>2. /\ jobs'[j].lock_generation = jobs[j].lock_generation
          /\ jobs'[j].locked_until \in {jobs[j].locked_until, "live"}
      BY <1>1, <1>6 DEF FencedStatement, HeartbeatRow, ContextRow, ResultRow, FailedRow,
                        CompletedRow, JobRow
    <2> QED
      BY <2>1, <2>2, Reclaim_Kept
  <1> QED
    BY <1>2, <1>3, <1>4, <1>5, <1>6, RowStep DEF Statement

(* Every generation is paid for, and a row nobody claimed has none. *)
LEMMA Reclaim_Paid ==
    ASSUME HeartbeatInTime, TypeOK, ReclaimInv, [Next]_vars, NEW j \in Job
    PROVE  /\ jobs'[j].lock_generation <= faults' + 1
           /\ jobs'[j].status \in Queued \cup {"absent"} => jobs'[j].lock_generation = 0
  <1>1. /\ jobs[j] \in JobRow(Process)
        /\ jobs[j].lock_generation \in Nat /\ jobs[j].lock_generation <= faults + 1
        /\ jobs[j].status \in Queued \cup {"absent"} => jobs[j].lock_generation = 0
    BY DEF TypeOK, JobRow, ReclaimInv
  <1> DEFINE Paid == /\ jobs'[j].lock_generation <= faults' + 1
                     /\ jobs'[j].status \in Queued \cup {"absent"} =>
                           jobs'[j].lock_generation = 0
  <1>2. CASE jobs'[j] = jobs[j]
    BY <1>1, <1>2, FaultStep
  <1>3. CASE jobs'[j] = NewJob
    BY <1>3, FaultStep DEF NewJob, NoJob
  <1>4. CASE jobs[j].status \in Open /\ jobs'[j] = CancelledRow(jobs[j])
    <2>1. jobs'[j].status = "cancelled" /\ jobs'[j].lock_generation = jobs[j].lock_generation
      BY <1>1, <1>4 DEF CancelledRow, JobRow
    <2> QED
      BY <1>1, <2>1, FaultStep DEF Queued
  <1>5. CASE jobs[j].status = "running" /\ jobs'[j] = [jobs[j] EXCEPT !.locked_until = "past"]
    <2>1. jobs'[j].status = "running" /\ jobs'[j].lock_generation = jobs[j].lock_generation
      BY <1>1, <1>5 DEF JobRow
    <2> QED
      BY <1>1, <2>1, FaultStep DEF Queued
  <1>6. CASE Claim(j)
    BY <1>6, Reclaim_Claim DEF Queued
  <1>7. ASSUME NEW l \in Loop, FencedStatement(l, j) PROVE Paid
    <2>1. jobs[j].status = "running"
      BY <1>7 DEF FencedStatement, Owned, OwnedBy
    <2>2. /\ jobs'[j].status \in {"running", "failed", "completed"}
          /\ jobs'[j].lock_generation = jobs[j].lock_generation
      BY <1>1, <1>7, <2>1 DEF FencedStatement, HeartbeatRow, ContextRow, ResultRow, FailedRow,
                        CompletedRow, JobRow
    <2> QED
      BY <1>1, <2>2, FaultStep DEF Queued
  <1> QED
    BY <1>2, <1>3, <1>4, <1>5, <1>6, <1>7, RowStep DEF Statement

(* A loop that reports a cancellation has a context that is done. *)
LEMMA Reclaim_Canceled ==
    ASSUME TypeOK, ReclaimInv, [Next]_vars, NEW l \in Loop,
           Busy(l)', loops'[l].err = "canceled"
    PROVE  CtxDone(l)'
  <1>1. ASSUME NEW j \in Job PROVE ~ClaimJob(l, j)
    BY <1>1, ClaimedLoop
  <1>2. Busy(l)
    BY <1>1, ClaimStep
  <1>3. ParentDone(l) => ParentDone(l)'
    BY <1>2, ProcessStep
  <1>4. CASE loops'[l] = loops[l]
    BY <1>2, <1>3, <1>4 DEF ReclaimInv, CtxDone
  <1>5. CASE LoopStep(l)
    <2>1. /\ proc' = proc /\ loops'[l].ctx = loops[l].ctx
          /\ loops[l].err = "canceled" \/ CtxDone(l)
      BY <1>2, <1>5, ContextStep
    <2>2. CtxDone(l)
      BY <1>2, <2>1 DEF ReclaimInv
    <2> QED
      BY <1>3, <2>1, <2>2 DEF CtxDone
  <1>6. CASE HeartbeatJob(l)
    <2>1. \/ loops'[l] = loops[l]
          \/ loops'[l].ctx = "done"
      BY <1>6 DEF HeartbeatJob, TypeOK, LoopState
    <2> QED
      BY <1>4, <2>1 DEF CtxDone
  <1>7. loops'[l] # Idle
    BY DEF Idle, Busy
  <1> QED
    BY <1>4, <1>5, <1>6, <1>7, OwnSteps

(* Every step keeps what pays for the executions of a job. *)
LEMMA Reclaim_Next ==
    HeartbeatInTime => (TypeOK /\ GenInv /\ ReclaimInv /\ [Next]_vars => ReclaimInv')
  BY Reclaim_Paid, Reclaim_Running, Reclaim_Canceled, Reclaim_Owner DEF ReclaimInv

(* A job is executed at most once more than there were faults: an owner     *)
(* that neither crashed nor stalled nor lost a statement is never robbed of *)
(* its job (store.go:414, worker.go:139).                                   *)
THEOREM ReclaimedAfterFault == Spec => []ReclaimNeedsFault
  <1>1. CASE HeartbeatInTime
    <2>1. ReclaimInv => ReclaimNeedsFault
      BY DEF ReclaimInv, ReclaimNeedsFault
    <2>2. TypeOK /\ GenInv /\ ReclaimInv /\ [Next]_vars => ReclaimInv'
      BY <1>1, Reclaim_Next
    <2> QED
      BY <2>1, <2>2, TypeOK_Init, TypeOK_Next, Gen_Init, Gen_Next, Reclaim_Init, PTL DEF Spec
  <1>2. CASE ~HeartbeatInTime
    <2>1. ReclaimNeedsFault
      BY <1>2 DEF ReclaimNeedsFault
    <2> QED
      BY <2>1, PTL
  <1> QED
    BY <1>1, <1>2
=============================================================================
