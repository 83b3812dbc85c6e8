---------------------------- MODULE ReviewLedger ----------------------------
(***************************************************************************)
(* What the worker side promises to whoever reads the two tables, without  *)
(* workers, leases, generations or faults: a job is open until it settles  *)
(* once; its publication slot is taken once and settles once; GitHub gets  *)
(* a review only while the slot is taken and undecided, and only once; and *)
(* no job is completed while its slot is free.                             *)
(*                                                                         *)
(* The slot outlives the job: an execution that lost its job may still     *)
(* take the slot, post and settle it.                                      *)
(***************************************************************************)
CONSTANTS
    Job,
    DryRuns     \* some process runs without FF_PUBLISH_COMMENTS

VARIABLES
    status, \* "absent", "open", "completed", "failed" or "cancelled"
    slot,   \* "free", "taken", "published" or "refused"
    posted  \* the jobs GitHub has accepted a review for

vars == <<status, slot, posted>>

Init ==
    /\ status = [j \in Job |-> "absent"]
    /\ slot = [j \in Job |-> "free"]
    /\ posted = {}

Enqueue(j) ==
    /\ status[j] = "absent"
    /\ status' = [status EXCEPT ![j] = "open"]
    /\ UNCHANGED <<slot, posted>>

(* Any of the open jobs of a pull request, in one statement. *)
Cancel(S) ==
    /\ \A j \in S : status[j] = "open"
    /\ status' = [j \in Job |-> IF j \in S THEN "cancelled" ELSE status[j]]
    /\ UNCHANGED <<slot, posted>>

Fail(j) ==
    /\ status[j] = "open"
    /\ status' = [status EXCEPT ![j] = "failed"]
    /\ UNCHANGED <<slot, posted>>

Complete(j) ==
    /\ status[j] = "open" /\ slot[j] # "free"
    /\ status' = [status EXCEPT ![j] = "completed"]
    /\ UNCHANGED <<slot, posted>>

Take(j) ==
    /\ status[j] # "absent" /\ slot[j] = "free"
    /\ slot' = [slot EXCEPT ![j] = "taken"]
    /\ UNCHANGED <<status, posted>>

Accept(j) ==
    /\ slot[j] = "taken" /\ j \notin posted
    /\ posted' = posted \cup {j}
    /\ UNCHANGED <<status, slot>>

Publish(j) ==
    /\ slot[j] = "taken" /\ (j \in posted \/ DryRuns)
    /\ slot' = [slot EXCEPT ![j] = "published"]
    /\ UNCHANGED <<status, posted>>

(* A review whose answer was lost may be there nevertheless. *)
Refuse(j) ==
    /\ slot[j] = "taken"
    /\ slot' = [slot EXCEPT ![j] = "refused"]
    /\ UNCHANGED <<status, posted>>

Next ==
    \/ \E j \in Job : \/ Enqueue(j) \/ Fail(j) \/ Complete(j)
                      \/ Take(j) \/ Accept(j) \/ Publish(j) \/ Refuse(j)
    \/ \E S \in SUBSET Job : Cancel(S)

Spec == Init /\ [][Next]_vars
=============================================================================
