---------------------------- MODULE WorkerLedger ----------------------------
(* How the workers implement the ledger, and keep the contract of the job   *)
(* table: the refinement mappings.                                          *)
EXTENDS Worker

JobStatus(row) ==
    IF row.status \in Terminal \cup {"absent"} THEN row.status ELSE "open"

PubSlot(pub) ==
    CASE pub.state = "absent" -> "free"
      [] pub.state = "pending_github" -> "taken"
      [] pub.state = "published" -> "published"
      [] pub.state = "failed" -> "refused"

Ledger == INSTANCE ReviewLedger WITH
    DryRuns <- Publishing # Process,
    status  <- [j \in Job |-> JobStatus(jobs[j])],
    slot    <- [j \in Job |-> PubSlot(pubs[j])],
    posted  <- {j \in Job : reviews[j] > 0}

(* Whatever crashes, stalls, is lost, reclaimed or cancelled in between,    *)
(* each step of the workers is one step of the ledger or none: no job is    *)
(* completed with a free slot, no slot is given back or settled twice, and  *)
(* no review is posted outside a taken slot (worker.go:122-178,             *)
(* publish.go:145-191).                                                     *)
ImplementsLedger == Ledger!Spec

Table == INSTANCE JobTable WITH
    Row    <- Job,
    status <- [j \in Job |-> jobs[j].status]

(* Whatever crashes, stalls, is lost or reclaimed, all a worker does to the *)
(* queue is start pending jobs and settle running ones: none is handed back *)
(* to the queue, settled unclaimed or cancelled by a worker (store.go:408,  *)
(* 498 and 526).  What is taken for granted of the server is the other half *)
(* of the contract.                                                         *)
WorkersKeepContract ==
    /\ Table!Init
    /\ [][\/ Table!WorkerStep
          \/ Table!ServerStep /\ UNCHANGED loops]_(Table!vars)
=============================================================================
