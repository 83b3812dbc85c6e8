---------------------------- MODULE WorkerProofs ----------------------------
(***************************************************************************)
(* Proofs about Worker, for any number of jobs, processes and loops, any   *)
(* configuration of the processes and any bound on faults.                 *)
(***************************************************************************)
EXTENDS Worker, StoreProofs

-----------------------------------------------------------------------------
(* TypeOK.                                                                  *)

LoopsOK == /\ loops \in [Loop -> LoopState]
           /\ \A l \in Loop : Busy(l) <=> loops[l].job # NULL

(* A statement's outcome, and a fault, keep the fault counter in range. *)
LEMMA FaultTypes ==
    ASSUME TypeOK
    PROVE  /\ Fault => faults' \in 0 .. MaxFaults
           /\ \A r, done : Outcome(r, done) => faults' \in 0 .. MaxFaults
  BY MaxFaultsAssumption DEF TypeOK, Fault, Outcome

(* A busy loop that moves on with an error keeps its job. *)
LEMMA MovesOn ==
    ASSUME TypeOK, NEW l \in Loop, Busy(l),
           NEW pc \in Pipeline \cup Finalizing, NEW e \in Errors,
           loops' = [loops EXCEPT ![l] = [loops[l] EXCEPT !.pc = pc, !.err = e]]
    PROVE  LoopsOK'
  <1>1. "poll" \notin Pipeline \cup Finalizing
    BY DEF Pipeline, Finalizing
  <1>2. loops[l] \in LoopState /\ loops[l].job # NULL
    BY DEF TypeOK, Busy
  <1> DEFINE new == [loops[l] EXCEPT !.pc = pc, !.err = e]
  <1>3. new \in LoopState /\ new.job = loops[l].job /\ new.pc = pc
    BY <1>2 DEF LoopState
  <1>4. loops' = [loops EXCEPT ![l] = new]
    OBVIOUS
  <1> HIDE DEF new
  <1>5. loops' \in [Loop -> LoopState] /\ loops'[l] = new
        /\ \A m \in Loop \ {l} : loops'[m] = loops[m]
    BY <1>3, <1>4 DEF TypeOK
  <1> QED
    BY <1>1, <1>2, <1>3, <1>5 DEF LoopsOK, TypeOK, Busy

(* However a busy loop moves on, it keeps its job until it goes idle. *)
LEMMA LoopTypes ==
    ASSUME TypeOK, NEW l \in Loop, Busy(l)
    PROVE  /\ \A next \in Pipeline \cup Finalizing : Goto(l, next) => LoopsOK'
           /\ \A e \in Errors : Return(l, e) => LoopsOK'
           /\ Release(l) => LoopsOK'
           /\ loops' = [loops EXCEPT ![l].ctx = "done"] => LoopsOK'
           /\ \A e \in Errors :
                 loops' = [loops EXCEPT ![l].pc = "failpub", ![l].err = e] => LoopsOK'
  <1> USE DEF TypeOK, LoopsOK, LoopState, Busy
  <1>1. "poll" \notin Pipeline \cup Finalizing /\ "failpub" \in Pipeline
    BY DEF Pipeline, Finalizing
  <1>2. ASSUME NEW next \in Pipeline \cup Finalizing, Goto(l, next) PROVE LoopsOK'
    BY <1>1, <1>2 DEF Goto
  <1>3. ASSUME NEW e \in Errors, Return(l, e) PROVE LoopsOK'
    <2>1. /\ loops' = [loops EXCEPT ![l] = [loops[l] EXCEPT !.pc = "finish", !.err = e]]
          /\ "finish" \in Finalizing
      BY <1>3 DEF Return, Finalizing
    <2> QED
      BY <1>1, <2>1, MovesOn
  <1>4. ASSUME Release(l) PROVE LoopsOK'
    <2>1. Idle \in LoopState /\ Idle.pc = "poll" /\ Idle.job = NULL
      BY DEF Idle, Errors
    <2> QED
      BY <1>4, <2>1 DEF Release
  <1>5. ASSUME loops' = [loops EXCEPT ![l].ctx = "done"] PROVE LoopsOK'
    BY <1>5
  <1>6. ASSUME NEW e \in Errors, loops' = [loops EXCEPT ![l].pc = "failpub", ![l].err = e]
        PROVE  LoopsOK'
    <2>1. loops' = [loops EXCEPT ![l] = [loops[l] EXCEPT !.pc = "failpub", !.err = e]]
      BY <1>6
    <2> QED
      BY <1>1, <2>1, MovesOn
  <1> QED
    BY <1>2, <1>3, <1>4, <1>5, <1>6

(* The empty database and idle loops of a fresh deployment are well typed. *)
LEMMA TypeOK_Init == Init => TypeOK
  <1> SUFFICES ASSUME Init PROVE TypeOK
    OBVIOUS
  <1>1. NoJob \in JobRow(Process) /\ NoPub \in PubRow /\ Idle \in LoopState
    BY DEF NoJob, JobRow, NoPub, PubRow, Idle, LoopState, Errors
  <1>2. Idle.pc = "poll" /\ Idle.job = NULL
    BY DEF Idle
  <1> QED
    BY <1>1, <1>2, MaxFaultsAssumption DEF Init, TypeOK, Busy

(* Every action of the workers, the server, the clock and the operator     *)
(* preserves the types, one step per action.                                *)
LEMMA TypeOK_Next == TypeOK /\ [Next]_vars => TypeOK'
  <1> SUFFICES ASSUME TypeOK, [Next]_vars PROVE TypeOK'
    OBVIOUS
  <1> USE ProcOfAssumption
  <1>env. /\ jobs \in [Job -> JobRow(Process)] /\ pubs \in [Job -> PubRow]
          /\ reviews \in [Job -> Nat] /\ LoopsOK
          /\ proc \in [Process -> {"up", "draining", "down"}]
          /\ faults \in 0 .. MaxFaults
    BY DEF TypeOK, LoopsOK
  <1>parts. ASSUME /\ jobs' \in [Job -> JobRow(Process)] /\ pubs' \in [Job -> PubRow]
                   /\ reviews' \in [Job -> Nat] /\ LoopsOK'
                   /\ proc' \in [Process -> {"up", "draining", "down"}]
                   /\ faults' \in 0 .. MaxFaults
            PROVE  TypeOK'
    BY <1>parts DEF TypeOK, LoopsOK
  <1>same. loops' = loops => LoopsOK'
    BY <1>env DEF LoopsOK, Busy
  <1>held. ASSUME NEW l \in Loop, Busy(l)
           PROVE  loops[l].job \in Job /\ loops[l].gen \in Nat /\ loops[l].err \in Errors
    BY <1>held, <1>env DEF LoopsOK, LoopState, Busy
  <1>err. ASSUME NEW l \in Loop
          PROVE  /\ CtxError(l) \in Errors /\ BuildError(l) \in Errors
                 /\ RouterError(l) \in Errors /\ TokenError(l) \in Errors
    BY DEF CtxError, BuildError, RouterError, TokenError, Errors
  <1>rows. \A j \in Job : /\ CancelledRow(jobs[j]) \in JobRow(Process)
                         /\ [jobs[j] EXCEPT !.locked_until = "past"] \in JobRow(Process)
                         /\ HeartbeatRow(jobs[j]) \in JobRow(Process)
                         /\ FailedRow(jobs[j]) \in JobRow(Process)
                         /\ \A g \in Nat : CompletedRow(jobs[j], g) \in JobRow(Process)
                         /\ \A p \in Process : ClaimedRow(jobs[j], p) \in JobRow(Process)
    BY <1>env, RowTypes, ClaimTypes
  <1>1. ASSUME NEW j \in Job, CreateJob(j) PROVE TypeOK'
    BY <1>1, <1>env, <1>parts, <1>same, NewRowTypes DEF CreateJob
  <1>2. ASSUME NEW S \in SUBSET Job, CancelJobs(S) PROVE TypeOK'
    BY <1>2, <1>env, <1>parts, <1>same, <1>rows DEF CancelJobs
  <1>3. ASSUME NEW j \in Job, LeaseExpires(j) \/ LeaseStalls(j) PROVE TypeOK'
    BY <1>3, <1>env, <1>parts, <1>same, <1>rows, FaultTypes
       DEF LeaseExpires, LeaseStalls, ClockPasses
  <1>4. ASSUME NEW p \in Process, Start(p) \/ Shutdown(p) \/ Exit(p) PROVE TypeOK'
    BY <1>4, <1>env, <1>parts, <1>same, FaultTypes DEF Start, Shutdown, Exit
  <1>5. ASSUME NEW p \in Process, Crash(p) PROVE TypeOK'
    <2>1. Idle \in LoopState /\ Idle.pc = "poll" /\ Idle.job = NULL
      BY DEF Idle, LoopState, Errors
    <2>2. LoopsOK'
      BY <1>5, <1>env, <2>1 DEF Crash, LoopsOK, Busy
    <2> QED
      BY <1>5, <1>env, <1>parts, <2>2, FaultTypes DEF Crash
  <1>6. ASSUME NEW l \in Loop, NEW j \in Job, ClaimJob(l, j) PROVE TypeOK'
    <2>1. jobs' \in [Job -> JobRow(Process)]
      BY <1>6, <1>env, <1>rows DEF ClaimJob
    <2>2. jobs'[j].lock_generation \in Nat
      BY <2>1 DEF JobRow
    <2>3. LoopsOK'
      <3> DEFINE new == [Idle EXCEPT !.pc = "check_detective", !.job = j,
                                     !.gen = jobs'[j].lock_generation]
      <3>1. new \in LoopState /\ new.pc # "poll" /\ new.job # NULL
        BY <2>2, NullAssumption DEF Idle, LoopState, Errors, Pipeline
      <3>2. loops' = [loops EXCEPT ![l] = new]
        BY <1>6 DEF ClaimJob
      <3> HIDE DEF new
      <3> QED
        BY <3>1, <3>2, <1>env DEF LoopsOK, Busy
    <2> QED
      BY <1>6, <1>env, <1>parts, <2>1, <2>3 DEF ClaimJob
  <1>7. ASSUME NEW l \in Loop, NEW j \in Job, ClaimLost(l, j) PROVE TypeOK'
    BY <1>7, <1>env, <1>parts, <1>same, <1>rows, FaultTypes DEF ClaimLost
  <1>8. ASSUME NEW l \in Loop, HeartbeatJob(l) PROVE TypeOK'
    <2>1. Busy(l)
      BY <1>8 DEF HeartbeatJob, Pipeline, Busy
    <2>2. jobs' \in [Job -> JobRow(Process)]
      <3>1. loops[l].job \in Job /\ HeartbeatRow(jobs[loops[l].job]) \in JobRow(Process)
        BY <2>1, <1>held, <1>rows
      <3>2. \/ jobs' = jobs
            \/ jobs' = [jobs EXCEPT ![loops[l].job] = HeartbeatRow(jobs[loops[l].job])]
        BY <1>8 DEF HeartbeatJob
      <3> QED
        BY <3>1, <3>2, <1>env
    <2>3. LoopsOK' /\ faults' \in 0 .. MaxFaults
      BY <1>8, <2>1, <1>same, LoopTypes, FaultTypes DEF HeartbeatJob
    <2> QED
      BY <1>8, <1>env, <1>parts, <2>2, <2>3 DEF HeartbeatJob
  <1>9. ASSUME NEW l \in Loop, NEW here, NEW next \in Pipeline \cup Finalizing,
               here # "poll", StageCheck(l, here, next)
        PROVE  TypeOK'
    <2>1. LoopsOK'
      BY <1>9, LoopTypes DEF StageCheck, Busy, Errors
    <2> QED
      BY <1>9, <1>env, <1>parts, <2>1, FaultTypes DEF StageCheck
  <1>10. ASSUME NEW l \in Loop, PipelineCheck(l) PROVE TypeOK'
    BY <1>9, <1>10 DEF PipelineCheck, Pipeline, Finalizing
  <1>11. ASSUME NEW l \in Loop, NEW row \in JobRow(Process), NEW next \in Pipeline, Busy(l),
                SaveRow(l, row, next), UNCHANGED <<pubs, reviews, proc>>
         PROVE  TypeOK'
    <2>1. jobs' \in [Job -> JobRow(Process)]
      BY <1>11, <1>env DEF SaveRow
    <2>2. LoopsOK' /\ faults' \in 0 .. MaxFaults
      BY <1>11, <1>err, LoopTypes, FaultTypes DEF SaveRow
    <2> QED
      BY <1>11, <1>env, <1>parts, <2>1, <2>2
  <1>12. ASSUME NEW l \in Loop, DetectiveStage(l) \/ CriticStage(l) PROVE TypeOK'
    <2>1. Busy(l)
      BY <1>12 DEF DetectiveStage, CriticStage, Busy
    <2>2. jobs[loops[l].job] \in JobRow(Process) /\ loops[l].gen \in Nat
      BY <2>1, <1>held, <1>env
    <2>3. /\ ContextRow(jobs[loops[l].job], loops[l].gen) \in JobRow(Process)
          /\ ResultRow(jobs[loops[l].job], loops[l].gen) \in JobRow(Process)
      BY <2>2, RowTypes
    <2>4. ASSUME NEW e \in Errors, StageFails(l, e), UNCHANGED <<pubs, reviews, proc>>
          PROVE  TypeOK'
      BY <2>1, <2>4, <1>env, <1>parts, LoopTypes DEF StageFails
    <2> QED
      BY <1>11, <1>12, <1>err, <2>1, <2>3, <2>4 DEF DetectiveStage, CriticStage, Pipeline
  <1>13. ASSUME NEW l \in Loop, ResolveToken(l) PROVE TypeOK'
    <2>1. LoopsOK'
      BY <1>13, <1>err, LoopTypes DEF ResolveToken, Busy, Pipeline
    <2> QED
      BY <1>13, <1>env, <1>parts, <2>1 DEF ResolveToken
  <1>14. ASSUME NEW l \in Loop, BeginPublication(l) PROVE TypeOK'
    <2>1. Busy(l)
      BY <1>14 DEF BeginPublication, Busy
    <2>2. pubs' \in [Job -> PubRow]
      BY <1>14, <2>1, <1>env, PubTypes DEF BeginPublication
    <2>3. LoopsOK' /\ faults' \in 0 .. MaxFaults
      BY <1>14, <2>1, <1>err, LoopTypes, FaultTypes DEF BeginPublication, Pipeline
    <2> QED
      BY <1>14, <1>env, <1>parts, <2>2, <2>3 DEF BeginPublication
  <1>15. ASSUME NEW l \in Loop, ExistingPublication(l) PROVE TypeOK'
    <2>1. LoopsOK' /\ faults' \in 0 .. MaxFaults
      BY <1>15, <1>env, LoopTypes, FaultTypes
         DEF ExistingPublication, Busy, Pipeline, Errors
    <2> QED
      BY <1>15, <1>env, <1>parts, <2>1 DEF ExistingPublication
  <1>16. ASSUME NEW l \in Loop, Post(l) PROVE TypeOK'
    <2>1. Busy(l)
      BY <1>16 DEF Post, Busy
    <2>2. reviews' \in [Job -> Nat]
      BY <1>16, <2>1, <1>env, <1>held DEF Post
    <2>3. LoopsOK'
      BY <1>16, <2>1, <1>err, LoopTypes DEF Post, Pipeline
    <2> QED
      BY <1>16, <1>env, <1>parts, <2>2, <2>3 DEF Post
  <1>17. ASSUME NEW l \in Loop, FailPublication(l) PROVE TypeOK'
    <2>1. Busy(l)
      BY <1>17 DEF FailPublication, Busy
    <2>2. pubs' \in [Job -> PubRow]
      BY <1>17, <2>1, <1>env, <1>held, PubTypes DEF FailPublication
    <2>3. LoopsOK' /\ faults' \in 0 .. MaxFaults
      BY <1>17, <2>1, <1>env, LoopTypes, FaultTypes DEF FailPublication, Finalizing
    <2> QED
      BY <1>17, <1>env, <1>parts, <2>2, <2>3 DEF FailPublication
  <1>18. ASSUME NEW l \in Loop, FinalizePublication(l) PROVE TypeOK'
    <2>1. Busy(l)
      BY <1>18 DEF FinalizePublication, Busy
    <2>2. pubs' \in [Job -> PubRow]
      BY <1>18, <2>1, <1>env, <1>held, PubTypes DEF FinalizePublication
    <2>3. LoopsOK' /\ faults' \in 0 .. MaxFaults
      BY <1>18, <2>1, <1>err, LoopTypes, FaultTypes DEF FinalizePublication, Pipeline
    <2> QED
      BY <1>18, <1>env, <1>parts, <2>2, <2>3 DEF FinalizePublication
  <1>19. ASSUME NEW l \in Loop, FinishCheck(l) PROVE TypeOK'
    <2>1. LoopsOK' /\ faults' \in 0 .. MaxFaults
      BY <1>19, <1>env, LoopTypes, FaultTypes DEF FinishCheck, Busy, Finalizing
    <2> QED
      BY <1>19, <1>env, <1>parts, <2>1 DEF FinishCheck
  <1>20. ASSUME NEW l \in Loop, FailJob(l) \/ CompleteJob(l) PROVE TypeOK'
    <2>1. Busy(l)
      BY <1>20 DEF FailJob, CompleteJob, FinalUpdate, Busy
    <2>2. jobs' \in [Job -> JobRow(Process)]
      <3>1. /\ loops[l].job \in Job
            /\ FailedRow(jobs[loops[l].job]) \in JobRow(Process)
            /\ CompletedRow(jobs[loops[l].job], loops[l].gen) \in JobRow(Process)
        BY <2>1, <1>held, <1>rows
      <3>2. \/ jobs' = jobs
            \/ jobs' = [jobs EXCEPT ![loops[l].job] = FailedRow(jobs[loops[l].job])]
            \/ jobs' = [jobs EXCEPT ![loops[l].job] =
                           CompletedRow(jobs[loops[l].job], loops[l].gen)]
        BY <1>20 DEF FailJob, CompleteJob, FinalUpdate
      <3> QED
        BY <3>1, <3>2, <1>env
    <2>3. LoopsOK' /\ faults' \in 0 .. MaxFaults
      BY <1>20, <2>1, LoopTypes, FaultTypes DEF FailJob, CompleteJob, FinalUpdate
    <2> QED
      BY <1>20, <1>env, <1>parts, <2>2, <2>3 DEF FailJob, CompleteJob, FinalUpdate
  <1>21. ASSUME UNCHANGED vars PROVE TypeOK'
    BY <1>21 DEF vars, TypeOK, Busy
  <1> QED
    BY <1>1, <1>2, <1>3, <1>4, <1>5, <1>6, <1>7, <1>8, <1>10, <1>12, <1>13, <1>14, <1>15,
       <1>16, <1>17, <1>18, <1>19, <1>20, <1>21 DEF Next, LoopStep, PollEmpty

(* Every state the workers reach is well typed, and a loop holds a claimed  *)
(* row exactly while it is inside process.                                  *)
THEOREM Typing == Spec => []TypeOK
  BY TypeOK_Init, TypeOK_Next, PTL DEF Spec

-----------------------------------------------------------------------------
(* The publication fence.  The loop whose INSERT succeeded holds the slot   *)
(* until it has settled it; FenceInv says that it is alone, that the slot   *)
(* stays pending meanwhile, and what GitHub has received at each point.     *)

HoldsSlot(l) == loops[l].pc \in {"post", "failpub", "finalize"}

SlotIsPending ==
    \A l \in Loop : HoldsSlot(l) => pubs[loops[l].job].state = "pending_github"

SlotIsExclusive ==
    \A l, m \in Loop :
        HoldsSlot(l) /\ HoldsSlot(m) /\ loops[l].job = loops[m].job => l = m

ReviewFollowsPost ==
    /\ \A j \in Job : pubs[j].state = "absent" => reviews[j] = 0
    /\ \A l \in Loop : loops[l].pc = "post" => reviews[loops[l].job] = 0
    /\ \A l \in Loop : loops[l].pc = "finalize" /\ Real(l) => reviews[loops[l].job] = 1

FenceInv == /\ SlotIsPending /\ SlotIsExclusive /\ ReviewFollowsPost
            /\ AtMostOneReview /\ PublishedIsBacked

(* A step that touches neither the publications nor GitHub and gives no     *)
(* loop a slot keeps the fence.                                             *)
LEMMA QuietStep ==
    ASSUME FenceInv, UNCHANGED <<pubs, reviews>>,
           \A l \in Loop : HoldsSlot(l)' =>
               loops'[l].pc = loops[l].pc /\ loops'[l].job = loops[l].job
    PROVE  FenceInv'
  <1>1. SlotIsPending' /\ SlotIsExclusive'
    BY DEF FenceInv, SlotIsPending, SlotIsExclusive, HoldsSlot
  <1>2. ReviewFollowsPost'
    BY DEF FenceInv, ReviewFollowsPost, HoldsSlot, Real
  <1>3. AtMostOneReview' /\ PublishedIsBacked'
    BY DEF FenceInv, AtMostOneReview, PublishedIsBacked
  <1> QED
    BY <1>1, <1>2, <1>3 DEF FenceInv

(* A loop that moves within the pipeline without entering the slot, or      *)
(* leaves the pipeline, gives nobody a slot.                                *)
LEMMA QuietLoop ==
    ASSUME TypeOK, FenceInv, UNCHANGED <<pubs, reviews>>, NEW l \in Loop,
           \/ loops' = loops
           \/ loops' = [loops EXCEPT ![l].ctx = "done"]
           \/ Release(l)
           \/ \E e \in Errors : Return(l, e)
           \/ \E next : next \notin {"post", "failpub", "finalize"} /\ Goto(l, next)
    PROVE  FenceInv'
  <1> SUFFICES \A m \in Loop : HoldsSlot(m)' =>
                  loops'[m].pc = loops[m].pc /\ loops'[m].job = loops[m].job
    BY QuietStep
  <1> QED
    BY DEF HoldsSlot, Release, Return, Goto, Idle, TypeOK, LoopState

(* Initially no publication exists and nobody holds a slot. *)
LEMMA Fence_Init == Init => FenceInv
  BY DEF Init, FenceInv, SlotIsPending, SlotIsExclusive, ReviewFollowsPost,
         AtMostOneReview, PublishedIsBacked, HoldsSlot, Idle, NoPub

(* Taking the slot: the INSERT succeeds only when no publication exists, so *)
(* nobody holds the slot and nothing was posted.                            *)
LEMMA Fence_Begin ==
    ASSUME TypeOK, FenceInv, NEW l \in Loop, BeginPublication(l)
    PROVE  FenceInv'
  <1> DEFINE j == loops[l].job
  <1>1. j \in Job /\ Busy(l)
    BY DEF BeginPublication, TypeOK, LoopState, Busy
  <1>2. CASE pubs' = pubs /\ loops'[l].pc \in {"finish", "existing"}
    <2> SUFFICES \A m \in Loop : HoldsSlot(m)' =>
                    loops'[m].pc = loops[m].pc /\ loops'[m].job = loops[m].job
      BY <1>2, QuietStep DEF BeginPublication
    <2> QED
      BY <1>2 DEF BeginPublication, HoldsSlot, Goto, Return, TypeOK, LoopState
  <1>3. CASE pubs[j].state = "absent" /\ pubs' = [pubs EXCEPT ![j] = PendingPub]
    <2>1. \A m \in Loop : HoldsSlot(m) => loops[m].job # j
      BY <1>3 DEF FenceInv, SlotIsPending
    <2>2. /\ reviews' = reviews /\ reviews[j] = 0
          /\ loops'[l].job = j
          /\ loops'[l].pc \in {"post", "finalize", "finish"}
          /\ loops'[l].pc = "finalize" => ~Real(l)
          /\ \A m \in Loop \ {l} : loops'[m] = loops[m]
      BY <1>3, <1>1 DEF BeginPublication, SlotFree, Goto, Return, FenceInv,
                        ReviewFollowsPost, TypeOK, LoopState
    <2>3. pubs'[j].state = "pending_github" /\ \A k \in Job \ {j} : pubs'[k] = pubs[k]
      BY <1>1, <1>3 DEF PendingPub, NoPub, TypeOK
    <2>4. \A m \in Loop : HoldsSlot(m) => loops[m].job \in Job
      BY DEF HoldsSlot, TypeOK, LoopState, Busy
    <2>5. SlotIsPending'
      BY <2>1, <2>2, <2>3, <2>4 DEF SlotIsPending, HoldsSlot, FenceInv
    <2>6. SlotIsExclusive'
      BY <2>1, <2>2 DEF SlotIsExclusive, HoldsSlot, FenceInv
    <2>7. ReviewFollowsPost'
      BY <2>2, <2>3 DEF ReviewFollowsPost, FenceInv, Real
    <2>8. AtMostOneReview' /\ PublishedIsBacked'
      BY <2>2, <2>3 DEF AtMostOneReview, PublishedIsBacked, FenceInv
    <2> QED
      BY <2>5, <2>6, <2>7, <2>8 DEF FenceInv
  <1> QED
    BY <1>1, <1>2, <1>3 DEF BeginPublication, SlotFree, Goto, Return, TypeOK, LoopState

(* Posting: the holder is alone and has not posted before. *)
LEMMA Fence_Post ==
    ASSUME TypeOK, FenceInv, NEW l \in Loop, Post(l)
    PROVE  FenceInv'
  <1> DEFINE j == loops[l].job
  <1>1. j \in Job /\ HoldsSlot(l) /\ reviews[j] = 0 /\ pubs[j].state = "pending_github"
    BY DEF Post, TypeOK, LoopState, Busy, HoldsSlot, FenceInv, ReviewFollowsPost, SlotIsPending
  <1>2. /\ pubs' = pubs
        /\ loops'[l].job = j
        /\ loops'[l].pc \in {"failpub", "finalize"}
        /\ loops'[l].pc = "finalize" => reviews'[j] = 1
        /\ \A m \in Loop \ {l} : loops'[m] = loops[m]
    BY <1>1 DEF Post, Goto, TypeOK, LoopState
  <1>3. reviews'[j] \in {0, 1} /\ \A k \in Job \ {j} : reviews'[k] = reviews[k]
    BY <1>1 DEF Post, TypeOK
  <1>4. \A m \in Loop \ {l} : HoldsSlot(m) => loops[m].job \in Job /\ loops[m].job # j
    BY <1>1 DEF FenceInv, SlotIsExclusive, HoldsSlot, TypeOK, LoopState, Busy
  <1>5. SlotIsPending' /\ SlotIsExclusive'
    BY <1>1, <1>2, <1>4 DEF SlotIsPending, SlotIsExclusive, HoldsSlot, FenceInv
  <1>6. ReviewFollowsPost'
    BY <1>1, <1>2, <1>3, <1>4 DEF ReviewFollowsPost, HoldsSlot, FenceInv, Real
  <1>7. AtMostOneReview' /\ PublishedIsBacked'
    BY <1>1, <1>2, <1>3 DEF AtMostOneReview, PublishedIsBacked, FenceInv
  <1> QED
    BY <1>5, <1>6, <1>7 DEF FenceInv

(* Settling: the holder leaves the slot, and nobody else is in it. *)
LEMMA Fence_Settle ==
    ASSUME TypeOK, FenceInv, NEW l \in Loop, FailPublication(l) \/ FinalizePublication(l)
    PROVE  FenceInv'
  <1> DEFINE j == loops[l].job
  <1>1. j \in Job /\ HoldsSlot(l) /\ pubs[j].state = "pending_github"
    BY DEF FailPublication, FinalizePublication, TypeOK, LoopState, Busy, HoldsSlot,
           FenceInv, SlotIsPending
  <1>2. /\ reviews' = reviews
        /\ ~HoldsSlot(l)'
        /\ \A m \in Loop \ {l} : loops'[m] = loops[m]
    BY DEF FailPublication, FinalizePublication, Goto, Return, HoldsSlot, TypeOK, LoopState
  <1>3. pubs'[j] # pubs[j] /\ pubs'[j].state = "published" =>
          \/ pubs'[j].github_review_id = "id" /\ reviews[j] = 1
          \/ pubs'[j].github_review_id = "null" /\ Publishing # Process
    <2>1. CASE FailPublication(l)
      BY <1>1, <2>1 DEF FailPublication, FailedPub, TypeOK, PubRow
    <2>2. CASE FinalizePublication(l)
      <3>1. Real(l) => reviews[j] = 1
        BY <2>2 DEF FinalizePublication, FenceInv, ReviewFollowsPost
      <3>2. ~Real(l) => Publishing # Process
        BY ProcOfAssumption DEF Real
      <3>3. pubs'[j] # pubs[j] => pubs'[j] = PublishedPub(pubs[j], IF Real(l) THEN "id" ELSE "null")
        BY <1>1, <2>2 DEF FinalizePublication, TypeOK
      <3>4. pubs'[j] # pubs[j] => pubs'[j].github_review_id = IF Real(l) THEN "id" ELSE "null"
        BY <1>1, <3>3 DEF PublishedPub, TypeOK, PubRow
      <3> QED
        BY <3>1, <3>2, <3>4
    <2> QED
      BY <2>1, <2>2
  <1>4. pubs'[j].state # "absent" /\ \A k \in Job \ {j} : pubs'[k] = pubs[k]
    <2>1. /\ FailedPub(pubs[j]).state = "failed"
          /\ \A id : PublishedPub(pubs[j], id).state = "published"
      BY <1>1 DEF FailedPub, PublishedPub, TypeOK, PubRow
    <2> QED
      BY <1>1, <2>1 DEF FailPublication, FinalizePublication, TypeOK
  <1>5. \A m \in Loop \ {l} : HoldsSlot(m) => loops[m].job \in Job /\ loops[m].job # j
    BY <1>1 DEF FenceInv, SlotIsExclusive, HoldsSlot, TypeOK, LoopState, Busy
  <1>6. SlotIsPending' /\ SlotIsExclusive'
    BY <1>2, <1>4, <1>5 DEF SlotIsPending, SlotIsExclusive, HoldsSlot, FenceInv
  <1>7. ReviewFollowsPost'
    BY <1>2, <1>4 DEF ReviewFollowsPost, HoldsSlot, FenceInv, Real
  <1>8. AtMostOneReview' /\ PublishedIsBacked'
    BY <1>1, <1>2, <1>3, <1>4 DEF AtMostOneReview, PublishedIsBacked, FenceInv
  <1> QED
    BY <1>6, <1>7, <1>8 DEF FenceInv

(* Every step preserves the fence: only BeginPublication, Post and the two  *)
(* settling statements touch it; the others are quiet.                      *)
LEMMA Fence_Next == TypeOK /\ FenceInv /\ [Next]_vars => FenceInv'
  <1> SUFFICES ASSUME TypeOK, FenceInv, [Next]_vars PROVE FenceInv'
    OBVIOUS
  <1>err. \A l \in Loop : /\ CtxError(l) \in Errors /\ BuildError(l) \in Errors
                         /\ RouterError(l) \in Errors /\ TokenError(l) \in Errors
    BY DEF CtxError, BuildError, RouterError, TokenError, Errors
  <1>1. ASSUME UNCHANGED <<pubs, reviews, loops>> PROVE FenceInv'
    BY <1>1, QuietStep DEF HoldsSlot
  <1>2. ASSUME NEW p \in Process, Crash(p) PROVE FenceInv'
    BY <1>2, QuietStep DEF Crash, HoldsSlot, Idle
  <1>3. ASSUME NEW l \in Loop, NEW j \in Job, ClaimJob(l, j) PROVE FenceInv'
    <2>1. loops'[l].pc = "check_detective" /\ \A m \in Loop \ {l} : loops'[m] = loops[m]
      BY <1>3 DEF ClaimJob, Idle, TypeOK
    <2> QED
      BY <1>3, <2>1, QuietStep DEF ClaimJob, HoldsSlot
  <1>4. ASSUME NEW l \in Loop, HeartbeatJob(l) PROVE FenceInv'
    BY <1>4, QuietLoop DEF HeartbeatJob
  <1>5. ASSUME NEW l \in Loop, NEW here, NEW next, next \notin {"post", "failpub", "finalize"},
               StageCheck(l, here, next)
        PROVE  FenceInv'
    BY <1>5, QuietLoop DEF StageCheck, Errors
  <1>6. ASSUME NEW l \in Loop, PipelineCheck(l) PROVE FenceInv'
    BY <1>5, <1>6 DEF PipelineCheck
  <1>7. ASSUME NEW l \in Loop, DetectiveStage(l) \/ CriticStage(l) PROVE FenceInv'
    BY <1>7, <1>err, QuietLoop DEF DetectiveStage, CriticStage, StageFails, SaveRow
  <1>8. ASSUME NEW l \in Loop, ResolveToken(l) PROVE FenceInv'
    BY <1>8, <1>err, QuietLoop DEF ResolveToken
  <1>9. ASSUME NEW l \in Loop, ExistingPublication(l) PROVE FenceInv'
    BY <1>9, QuietLoop DEF ExistingPublication, Errors
  <1>10. ASSUME NEW l \in Loop, FinishCheck(l) PROVE FenceInv'
    BY <1>10, QuietLoop DEF FinishCheck
  <1>11. ASSUME NEW l \in Loop, FailJob(l) \/ CompleteJob(l) PROVE FenceInv'
    BY <1>11, QuietLoop DEF FailJob, CompleteJob, FinalUpdate
  <1>12. ASSUME NEW l \in Loop, LoopStep(l) PROVE FenceInv'
    BY <1>3, <1>6, <1>7, <1>8, <1>9, <1>10, <1>11, <1>12, Fence_Begin, Fence_Post, Fence_Settle
       DEF LoopStep
  <1>13. ASSUME NEW j \in Job, CreateJob(j) \/ LeaseExpires(j) \/ LeaseStalls(j)
         PROVE  FenceInv'
    BY <1>1, <1>13 DEF CreateJob, LeaseExpires, LeaseStalls, ClockPasses
  <1>14. ASSUME NEW S \in SUBSET Job, CancelJobs(S) PROVE FenceInv'
    BY <1>1, <1>14 DEF CancelJobs
  <1>15. ASSUME NEW p \in Process, Start(p) \/ Shutdown(p) \/ Exit(p) PROVE FenceInv'
    BY <1>1, <1>15 DEF Start, Shutdown, Exit
  <1>16. ASSUME NEW l \in Loop, NEW j \in Job, ClaimLost(l, j) PROVE FenceInv'
    BY <1>1, <1>16 DEF ClaimLost
  <1>17. ASSUME UNCHANGED vars PROVE FenceInv'
    BY <1>1, <1>17 DEF vars
  <1> QED
    BY <1>2, <1>4, <1>12, <1>13, <1>14, <1>15, <1>16, <1>17 DEF Next, PollEmpty

(* The fence invariant holds in every reachable state. *)
THEOREM FenceHolds == Spec => []FenceInv
  BY TypeOK_Init, TypeOK_Next, Fence_Init, Fence_Next, PTL DEF Spec

(* For any number of processes, loops, jobs, crashes, stalls and lost       *)
(* replies, GitHub receives at most one review per job.                     *)
THEOREM OneReviewPerJob == Spec => []AtMostOneReview
  <1>1. FenceInv => AtMostOneReview
    BY DEF FenceInv
  <1> QED
    BY <1>1, FenceHolds, PTL

(* A published publication with a review id has its review on GitHub, and   *)
(* one without an id comes from a dry run.                                  *)
THEOREM PublishedHasReview == Spec => []PublishedIsBacked
  <1>1. FenceInv => PublishedIsBacked
    BY DEF FenceInv
  <1> QED
    BY <1>1, FenceHolds, PTL

(* What a step may do to the publications: nothing, take a free slot, or    *)
(* settle a pending one.                                                    *)
LEMMA PublicationStep ==
    ASSUME TypeOK, FenceInv, [Next]_vars, NEW j \in Job
    PROVE  \/ pubs'[j] = pubs[j]
           \/ pubs[j].state = "absent"
           \/ pubs[j].state = "pending_github" /\ pubs'[j].state \in {"published", "failed"}
  <1>1. ASSUME NEW l \in Loop, BeginPublication(l)
        PROVE  pubs'[j] = pubs[j] \/ pubs[j].state = "absent"
    BY <1>1 DEF BeginPublication, SlotFree, TypeOK
  <1>2. ASSUME NEW l \in Loop, FailPublication(l) \/ FinalizePublication(l)
        PROVE  \/ pubs'[j] = pubs[j]
               \/ pubs[j].state = "pending_github" /\ pubs'[j].state \in {"published", "failed"}
    <2>1. loops[l].job \in Job /\ pubs[loops[l].job].state = "pending_github"
      BY <1>2 DEF FailPublication, FinalizePublication, TypeOK, LoopState, Busy,
                  FenceInv, SlotIsPending, HoldsSlot
    <2>2. /\ FailedPub(pubs[loops[l].job]).state = "failed"
          /\ \A id : PublishedPub(pubs[loops[l].job], id).state = "published"
      BY <2>1 DEF FailedPub, PublishedPub, TypeOK, PubRow
    <2> QED
      BY <1>2, <2>1, <2>2 DEF FailPublication, FinalizePublication, TypeOK
  <1>3. CASE UNCHANGED pubs
    BY <1>3
  <1>4. UNCHANGED pubs \/ \E l \in Loop : \/ BeginPublication(l)
                                         \/ FailPublication(l)
                                         \/ FinalizePublication(l)
    BY DEF Next, LoopStep, vars, CreateJob, LeaseExpires, LeaseStalls, ClockPasses, CancelJobs,
           Start, Shutdown, Exit, Crash, ClaimJob, ClaimLost, HeartbeatJob, PollEmpty,
           PipelineCheck, StageCheck, DetectiveStage, CriticStage, ResolveToken,
           ExistingPublication, Post, FinishCheck, FailJob, CompleteJob, FinalUpdate
  <1> QED
    BY <1>1, <1>2, <1>3, <1>4

(* A settled publication is never overwritten although the two statements   *)
(* that settle it are not fenced.                                           *)
THEOREM PublicationsSettleOnce == Spec => PublicationSettlesOnce
  <1>1. TypeOK /\ FenceInv /\ [Next]_vars =>
          [\A j \in Job :
             /\ pubs[j].state \in {"published", "failed"} => pubs'[j] = pubs[j]
             /\ pubs[j].state # "absent" => pubs'[j].state # "absent"]_vars
    BY PublicationStep
  <1> QED
    BY <1>1, Typing, FenceHolds, PTL DEF Spec, PublicationSettlesOnce

-----------------------------------------------------------------------------
(* The job fence.                                                           *)

(* What a step may do to a row of review_jobs. *)
LEMMA JobStep ==
    ASSUME TypeOK, [Next]_vars, NEW j \in Job
    PROVE  \/ jobs'[j] = jobs[j]
           \/ jobs[j].status = "absent" /\ jobs'[j] = NewJob
           \/ Claimable(jobs[j]) /\ \E p \in Process : jobs'[j] = ClaimedRow(jobs[j], p)
           \/ /\ jobs[j].status \in Open /\ jobs'[j].status # "absent"
              /\ jobs'[j].lock_generation = jobs[j].lock_generation
  <1> DEFINE Same(row) == /\ row.status # "absent"
                          /\ row.lock_generation = jobs[j].lock_generation
  <1>row. jobs[j] \in JobRow(Process)
    BY DEF TypeOK
  <1>keep. jobs[j].status \in Open =>
             /\ Same(CancelledRow(jobs[j])) /\ Same(HeartbeatRow(jobs[j]))
             /\ Same([jobs[j] EXCEPT !.locked_until = "past"]) /\ Same(FailedRow(jobs[j]))
             /\ \A g : /\ Same(ContextRow(jobs[j], g)) /\ Same(ResultRow(jobs[j], g))
                       /\ Same(CompletedRow(jobs[j], g))
    BY <1>row DEF JobRow, Open, CancelledRow, HeartbeatRow, FailedRow, ContextRow, ResultRow,
                  CompletedRow
  <1>own. \A l \in Loop : Owned(l) => jobs[loops[l].job].status \in Open
    BY DEF Owned, OwnedBy, Open
  <1> HIDE DEF Same
  <1>1. ASSUME NEW k \in Job, CreateJob(k)
        PROVE  \/ jobs'[j] = jobs[j]
               \/ jobs[j].status = "absent" /\ jobs'[j] = NewJob
    BY <1>1 DEF CreateJob, TypeOK
  <1> DEFINE Kept == jobs'[j] = jobs[j] \/ (jobs[j].status \in Open /\ Same(jobs'[j]))
  <1>2. ASSUME NEW S \in SUBSET Job, CancelJobs(S) PROVE Kept
    <2>1. jobs[j].status \notin Open => CancelledRow(jobs[j]) = jobs[j]
      BY DEF CancelledRow
    <2> QED
      BY <1>2, <1>keep, <2>1 DEF CancelJobs
  <1>3. ASSUME NEW k \in Job, LeaseExpires(k) \/ LeaseStalls(k) PROVE Kept
    BY <1>3, <1>keep DEF LeaseExpires, LeaseStalls, ClockPasses, TypeOK, Open
  <1>4. ASSUME NEW l \in Loop, NEW k \in Job, ClaimJob(l, k) \/ ClaimLost(l, k)
        PROVE  \/ jobs'[j] = jobs[j]
               \/ Claimable(jobs[j]) /\ \E p \in Process : jobs'[j] = ClaimedRow(jobs[j], p)
    BY <1>4, ProcOfAssumption DEF ClaimJob, ClaimLost, TypeOK
  <1>5. ASSUME NEW l \in Loop, HeartbeatJob(l) PROVE Kept
    BY <1>5, <1>keep, <1>own DEF HeartbeatJob, TypeOK
  <1>6. ASSUME NEW l \in Loop, DetectiveStage(l) \/ CriticStage(l) PROVE Kept
    BY <1>6, <1>keep, <1>own DEF DetectiveStage, CriticStage, StageFails, SaveRow, TypeOK
  <1>7. ASSUME NEW l \in Loop, FailJob(l) \/ CompleteJob(l) PROVE Kept
    BY <1>7, <1>keep, <1>own DEF FailJob, CompleteJob, FinalUpdate, TypeOK
  <1>8. CASE UNCHANGED jobs
    BY <1>8
  <1>9. \/ UNCHANGED jobs
        \/ \E k \in Job : CreateJob(k) \/ LeaseExpires(k) \/ LeaseStalls(k)
        \/ \E S \in SUBSET Job : CancelJobs(S)
        \/ \E l \in Loop, k \in Job : ClaimJob(l, k) \/ ClaimLost(l, k)
        \/ \E l \in Loop : \/ HeartbeatJob(l) \/ DetectiveStage(l) \/ CriticStage(l)
                           \/ FailJob(l) \/ CompleteJob(l)
    BY DEF Next, LoopStep, vars, Start, Shutdown, Exit, Crash, PollEmpty,
           PipelineCheck, StageCheck, ResolveToken, BeginPublication, ExistingPublication,
           Post, FailPublication, FinalizePublication, FinishCheck
  <1> QED
    BY <1>1, <1>2, <1>3, <1>4, <1>5, <1>6, <1>7, <1>8, <1>9 DEF Same

(* No worker and no webhook, however late, changes a settled job. *)
THEOREM SettledJobsStay == Spec => TerminalIsFinal
  <1>1. TypeOK /\ [Next]_vars =>
          [\A j \in Job : jobs[j].status \in Terminal => jobs'[j] = jobs[j]]_vars
    <2> SUFFICES ASSUME TypeOK, [Next]_vars, NEW j \in Job, jobs[j].status \in Terminal
                 PROVE  jobs'[j] = jobs[j]
      OBVIOUS
    <2>1. jobs[j].status # "absent" /\ jobs[j].status \notin Open /\ ~Claimable(jobs[j])
      BY DEF Terminal, Open, Claimable, Queued
    <2> QED
      BY <2>1, JobStep
  <1> QED
    BY <1>1, Typing, PTL DEF Spec, TerminalIsFinal

(* The generation invariant: GenerationIsUnique, strengthened by the fact   *)
(* that a row not yet inserted has never been claimed.                      *)
GenInv == /\ GenerationIsUnique
          /\ \A j \in Job : jobs[j].status = "absent" => jobs[j].lock_generation = 0

(* A lock generation never decreases, and grows only by a claim. *)
LEMMA GenerationStep ==
    ASSUME TypeOK, GenInv, [Next]_vars, NEW j \in Job
    PROVE  /\ jobs[j].lock_generation \in Nat /\ jobs'[j].lock_generation \in Nat
           /\ jobs[j].lock_generation <= jobs'[j].lock_generation
           /\ jobs'[j].status = "absent" => jobs'[j].lock_generation = 0
  <1>1. jobs[j] \in JobRow(Process) /\ jobs'[j] \in JobRow(Process)
    BY TypeOK_Next DEF TypeOK
  <1>2. jobs[j].lock_generation \in Nat /\ jobs'[j].lock_generation \in Nat
    BY <1>1 DEF JobRow
  <1>3. NewJob.lock_generation = 0
    BY DEF NewJob, NoJob
  <1>4. \A p : /\ ClaimedRow(jobs[j], p).lock_generation = jobs[j].lock_generation + 1
              /\ ClaimedRow(jobs[j], p).status = "running"
    BY <1>1 DEF ClaimedRow, JobRow
  <1> QED
    BY <1>2, <1>3, <1>4, JobStep DEF GenInv

(* What a step may do to a loop: leave it where it was with the same claim, *)
(* send it to its next poll, or give it a freshly claimed job.              *)
LEMMA ClaimStep ==
    ASSUME TypeOK, [Next]_vars, NEW l \in Loop
    PROVE  \/ ~Busy(l)'
           \/ /\ Busy(l) /\ loops'[l].job = loops[l].job /\ loops'[l].gen = loops[l].gen
           \/ \E j \in Job : ClaimJob(l, j)
  <1> DEFINE Kept == Busy(l) /\ loops'[l].job = loops[l].job /\ loops'[l].gen = loops[l].gen
             Moved == ~Busy(l)' \/ Kept
  <1>1. ASSUME loops' = loops PROVE Moved
    BY <1>1 DEF Busy
  <1>2. ASSUME NEW m \in Loop, m # l,
               \/ \E j \in Job : ClaimJob(m, j)
               \/ Release(m) \/ (\E e : Return(m, e)) \/ (\E next : Goto(m, next))
        PROVE  Moved
    BY <1>2 DEF ClaimJob, Release, Return, Goto, TypeOK, Busy
  <1>3. ASSUME Busy(l), Release(l) \/ (\E e : Return(l, e)) \/ (\E next : Goto(l, next))
        PROVE  Moved
    BY <1>3 DEF Release, Return, Goto, TypeOK, LoopState, Busy, Idle
  <1>4. ASSUME NEW m \in Loop,
               \/ PipelineCheck(m) \/ DetectiveStage(m) \/ CriticStage(m) \/ ResolveToken(m)
               \/ BeginPublication(m) \/ ExistingPublication(m) \/ FailPublication(m)
               \/ FinalizePublication(m) \/ FinishCheck(m) \/ FailJob(m) \/ CompleteJob(m)
        PROVE  Moved
    <2>1. Busy(m)
      BY <1>4 DEF PipelineCheck, StageCheck, DetectiveStage, CriticStage, ResolveToken,
                  BeginPublication, ExistingPublication, FailPublication, FinalizePublication,
                  FinishCheck, FailJob, CompleteJob, FinalUpdate, Busy
    <2>2. Release(m) \/ (\E e : Return(m, e)) \/ (\E next : Goto(m, next))
      BY <1>4 DEF PipelineCheck, StageCheck, DetectiveStage, CriticStage, StageFails, SaveRow,
                  ResolveToken, BeginPublication, ExistingPublication, FailPublication,
                  FinalizePublication, FinishCheck, FailJob, CompleteJob, FinalUpdate
    <2> QED
      BY <1>2, <1>3, <2>1, <2>2
  <1>5. ASSUME NEW m \in Loop, Post(m) \/ HeartbeatJob(m) PROVE Moved
    <2>1. Busy(m)
      BY <1>5 DEF Post, HeartbeatJob, Pipeline, Busy
    <2>2. \/ loops' = loops
          \/ loops' = [loops EXCEPT ![m].ctx = "done"]
          \/ \E next : Goto(m, next)
          \/ \E e : loops' = [loops EXCEPT ![m].pc = "failpub", ![m].err = e]
      BY <1>5 DEF Post, HeartbeatJob
    <2> QED
      BY <1>1, <2>1, <2>2 DEF Goto, TypeOK, LoopState, Busy
  <1>6. ASSUME NEW p \in Process, Crash(p) PROVE Moved
    BY <1>6 DEF Crash, Idle, Busy
  <1>7. ASSUME \/ UNCHANGED vars
               \/ \E j \in Job : CreateJob(j) \/ LeaseExpires(j) \/ LeaseStalls(j)
               \/ \E S \in SUBSET Job : CancelJobs(S)
               \/ \E p \in Process : Start(p) \/ Shutdown(p) \/ Exit(p)
               \/ \E m \in Loop, j \in Job : ClaimLost(m, j)
        PROVE  Moved
    BY <1>1, <1>7 DEF vars, CreateJob, LeaseExpires, LeaseStalls, ClockPasses, CancelJobs,
                      Start, Shutdown, Exit, ClaimLost
  <1> HIDE DEF Moved
  <1>8. Moved \/ \E j \in Job : ClaimJob(l, j)
    BY <1>2, <1>4, <1>5, <1>6, <1>7 DEF Next, LoopStep, PollEmpty
  <1> QED
    BY <1>8 DEF Moved

(* Initially no loop works and no row has been claimed. *)
LEMMA Gen_Init == Init => GenInv
  BY DEF Init, GenInv, GenerationIsUnique, Busy, Idle, NoJob

(* Every step keeps generations unique: a claim moves to a generation that  *)
(* nobody has used, everything else keeps or drops its claim.               *)
LEMMA Gen_Next == TypeOK /\ GenInv /\ [Next]_vars => GenInv'
  <1> SUFFICES ASSUME TypeOK, GenInv, [Next]_vars PROVE GenInv'
    OBVIOUS
  <1>1. /\ \A l \in Loop : loops[l].gen \in Nat /\ (Busy(l) => loops[l].job \in Job)
        /\ \A l \in Loop : Busy(l)' => loops'[l].job \in Job
        /\ \A l \in Loop : Busy(l) <=> loops[l].job # NULL
        /\ \A l \in Loop : Busy(l)' <=> loops'[l].job # NULL
    BY TypeOK_Next DEF TypeOK, LoopState, Busy
  <1>2. CASE \E l \in Loop, j \in Job : ClaimJob(l, j)
    <2> PICK l \in Loop, j \in Job : ClaimJob(l, j)
      BY <1>2
    <2>1. jobs'[j].lock_generation = jobs[j].lock_generation + 1
      BY DEF ClaimJob, ClaimedRow, TypeOK, JobRow
    <2>2. /\ loops'[l].job = j /\ loops'[l].gen = jobs'[j].lock_generation
          /\ \A m \in Loop \ {l} : loops'[m] = loops[m]
      BY DEF ClaimJob, Idle, TypeOK
    <2>3. \A m \in Loop \ {l} : loops[m].job = j => loops[m].gen < jobs'[j].lock_generation
      BY <1>1, <2>1, GenerationStep, NullAssumption DEF GenInv, GenerationIsUnique
    <2>4. \A k \in Job : /\ jobs[k].lock_generation \in Nat /\ jobs'[k].lock_generation \in Nat
                         /\ jobs[k].lock_generation <= jobs'[k].lock_generation
      BY GenerationStep
    <2>5. ASSUME NEW m \in Loop, Busy(m)' PROVE loops'[m].gen <= jobs'[loops'[m].job].lock_generation
      <3>1. CASE m = l
        BY <2>2, <2>4, <3>1
      <3>2. CASE m # l
        BY <1>1, <2>2, <2>4, <2>5, <3>2 DEF GenInv, GenerationIsUnique, Busy
      <3> QED
        BY <3>1, <3>2
    <2>6. ASSUME NEW m \in Loop, NEW n \in Loop \ {m}, Busy(m)', loops'[n].job = loops'[m].job
          PROVE  loops'[n].gen # loops'[m].gen
      <3>1. CASE m = l \/ n = l
        BY <1>1, <2>2, <2>3, <2>4, <2>6, <3>1
      <3>2. CASE m # l /\ n # l
        BY <2>2, <2>6, <3>2 DEF GenInv, GenerationIsUnique, Busy
      <3> QED
        BY <3>1, <3>2
    <2> QED
      BY <2>5, <2>6, GenerationStep DEF GenInv, GenerationIsUnique
  <1>3. CASE ~ \E l \in Loop, j \in Job : ClaimJob(l, j)
    <2>1. \A l \in Loop : Busy(l)' => /\ Busy(l) /\ loops'[l].job = loops[l].job
                                     /\ loops'[l].gen = loops[l].gen
      BY <1>3, ClaimStep
    <2>2. \A k \in Job : /\ jobs[k].lock_generation \in Nat /\ jobs'[k].lock_generation \in Nat
                         /\ jobs[k].lock_generation <= jobs'[k].lock_generation
      BY GenerationStep
    <2>3. ASSUME NEW m \in Loop, Busy(m)' PROVE loops'[m].gen <= jobs'[loops'[m].job].lock_generation
      BY <1>1, <2>1, <2>2, <2>3 DEF GenInv, GenerationIsUnique
    <2>4. ASSUME NEW m \in Loop, NEW n \in Loop \ {m}, Busy(m)', loops'[n].job = loops'[m].job
          PROVE  loops'[n].gen # loops'[m].gen
      BY <1>1, <2>1, <2>4, NullAssumption DEF GenInv, GenerationIsUnique
    <2> QED
      BY <2>3, <2>4, GenerationStep DEF GenInv, GenerationIsUnique
  <1> QED
    BY <1>2, <1>3

(* A lock generation is worked on by at most one loop, ever: what the       *)
(* fences of store.go rely on.                                              *)
THEOREM OneLoopPerGeneration == Spec => []GenerationIsUnique
  <1>1. GenInv => GenerationIsUnique
    BY DEF GenInv
  <1> QED
    BY <1>1, TypeOK_Init, TypeOK_Next, Gen_Init, Gen_Next, PTL DEF Spec
=============================================================================
