---------------------------- MODULE StoreProofs ----------------------------
(***************************************************************************)
(* What the statements of Store do to the type of a row, whoever issues    *)
(* them: the proofs about the workers and about the enqueuer use these     *)
(* lemmas.                                                                 *)
(***************************************************************************)
EXTENDS Store, TLAPS

(* Every SQL statement of store.go leaves a well-formed review_jobs row. *)
LEMMA RowTypes ==
    ASSUME NEW W, NEW row \in JobRow(W), NEW g \in Nat
    PROVE  /\ CancelledRow(row) \in JobRow(W)
           /\ [row EXCEPT !.locked_until = "past"] \in JobRow(W)
           /\ HeartbeatRow(row) \in JobRow(W)
           /\ ContextRow(row, g) \in JobRow(W)
           /\ ResultRow(row, g) \in JobRow(W)
           /\ CompletedRow(row, g) \in JobRow(W)
           /\ FailedRow(row) \in JobRow(W)
  <1> USE DEF JobRow, Statuses
  <1>1. CancelledRow(row) \in JobRow(W)
    BY DEF CancelledRow
  <1>2. [row EXCEPT !.locked_until = "past"] \in JobRow(W)
    OBVIOUS
  <1>3. HeartbeatRow(row) \in JobRow(W)
    BY DEF HeartbeatRow
  <1>4. ContextRow(row, g) \in JobRow(W) /\ ResultRow(row, g) \in JobRow(W)
    BY DEF ContextRow, ResultRow
  <1>5. CompletedRow(row, g) \in JobRow(W) /\ FailedRow(row) \in JobRow(W)
    BY DEF CompletedRow, FailedRow
  <1> QED
    BY <1>1, <1>2, <1>3, <1>4, <1>5

(* The row CreateJob inserts, and the absence of a row, are well formed. *)
LEMMA NewRowTypes ==
    ASSUME NEW W
    PROVE  NoJob \in JobRow(W) /\ NewJob \in JobRow(W)
  BY DEF JobRow, Statuses, NewJob, NoJob

(* A claim leaves a well-formed row. *)
LEMMA ClaimTypes ==
    ASSUME NEW W, NEW row \in JobRow(W), NEW w \in W
    PROVE  ClaimedRow(row, w) \in JobRow(W)
  <1>1. row.lock_generation + 1 \in Nat
    BY DEF JobRow
  <1> QED
    BY <1>1 DEF ClaimedRow, JobRow, Statuses

(* Every statement leaves a well-formed review_publications row. *)
LEMMA PubTypes ==
    ASSUME NEW pub \in PubRow, NEW id \in {"null", "id"}
    PROVE  /\ PendingPub \in PubRow
           /\ PublishedPub(pub, id) \in PubRow
           /\ FailedPub(pub) \in PubRow
  BY DEF PubRow, PendingPub, NoPub, PublishedPub, FailedPub
=============================================================================
