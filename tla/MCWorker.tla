------------------------------ MODULE MCWorker ------------------------------
(* Instances of Worker for TLC. *)
EXTENDS WorkerLedger, TLC

CONSTANTS p1, p2, a1, a2

(* Two processes with one loop each: the loop is identified with its        *)
(* process, so that the processes can be permuted.                          *)
OneLoopEach == [p \in {p1, p2} |-> p]

(* One process with two loops, which share one WORKER_ID. *)
TwoLoops == [l \in {a1, a2} |-> p1]

(* One process with WORKER_CONCURRENCY=1. *)
OneLoop == [l \in {a1} |-> p1]

ProcessSymmetry == Permutations({p1, p2})
=============================================================================
