------------------------------ MODULE JobTable ------------------------------
(***************************************************************************)
(* The contract under which the webhook server and the workers share       *)
(* review_jobs without talking to each other, as far as the status goes.   *)
(* The server inserts rows that are not there and cancels unsettled ones;  *)
(* a worker starts a pending job and settles a running one.  Each side is  *)
(* modelled with this much of the other, and shown to do no more itself.   *)
(***************************************************************************)
CONSTANT Row \* the keys of review_jobs

VARIABLE status \* "absent", or the status of the row

vars == status

(* The statuses rows have.  retry_wait and needs_reconcile, which the       *)
(* statements of the store read as well, are not among them.                *)
TypeOK ==
    status \in [Row -> {"absent", "pending", "running", "completed", "failed", "cancelled"}]

Init == status = [k \in Row |-> "absent"]

Insert(k) ==
    /\ status[k] = "absent"
    /\ status' = [status EXCEPT ![k] = "pending"]

(* The rows one statement matches. *)
Cancel(S) ==
    /\ \A k \in S : status[k] \in {"pending", "running"}
    /\ status' = [k \in Row |-> IF k \in S THEN "cancelled" ELSE status[k]]

ServerStep ==
    \/ \E k \in Row : Insert(k)
    \/ \E S \in SUBSET Row : Cancel(S)

Claim(k) ==
    /\ status[k] = "pending"
    /\ status' = [status EXCEPT ![k] = "running"]

Settle(k) ==
    /\ status[k] = "running"
    /\ \E result \in {"completed", "failed"} : status' = [status EXCEPT ![k] = result]

WorkerStep == \E k \in Row : Claim(k) \/ Settle(k)

Next == ServerStep \/ WorkerStep

Spec == Init /\ [][Next]_vars
=============================================================================
