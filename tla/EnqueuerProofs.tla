--------------------------- MODULE EnqueuerProofs ---------------------------
(***************************************************************************)
(* Proofs about Enqueuer, for any number of pull requests, commits and     *)
(* handlers, any number of events and any bound on disturbances.           *)
(***************************************************************************)
EXTENDS Enqueuer, StoreProofs, FiniteSetTheorems, SequenceTheorems

-----------------------------------------------------------------------------
(* TypeOK.                                                                  *)

(* A pull request that is open has a head, so that its events name one.     *)
OpenHasHead == \A r \in PR : pulls[r].open => pulls[r].head \in SHA

(* A busy handler knows its event; past Route, a pull request's.            *)
HandlersKnowEvent ==
    \A h \in Handler :
        /\ handlers[h].pc # "idle" => handlers[h].event \in Event
        /\ handlers[h].pc \in {"cancel_open", "supersede", "create"} =>
              handlers[h].event \in PullEvent

TypeInv == TypeOK /\ OpenHasHead /\ HandlersKnowEvent

Disturbances == {"concurrent", "reordered", "lost", "redelivered", "failed"}

(* A disturbance adds one of the known kinds. *)
LEMMA DisturbTypes ==
    ASSUME disorder \subseteq Disturbances, NEW kind \in Disturbances, Disturb(kind)
    PROVE  disorder' \subseteq Disturbances
  BY DEF Disturb

(* An event emitted about a pull request with a head is queued behind the   *)
(* others, and leaves the pull request with a well-formed state.            *)
LEMMA EmitPullTypes ==
    ASSUME TypeInv, NEW r \in PR, NEW action \in PullActions, NEW pull \in Pull,
           pull.head \in SHA, EmitPull(r, action, pull)
    PROVE  TypeInv'
  <1> DEFINE e == [kind |-> "pull_request", action |-> action, pr |-> r, sha |-> pull.head,
                   open |-> pull.open, draft |-> pull.draft, assigned |-> pull.assigned]
             t == pull.triggered \/ /\ action \in Allowlist
                                    /\ pull.open /\ ~pull.draft
                                    /\ pull.assigned /\ ~suspended
             new == [pull EXCEPT !.triggered = t]
  <1>1. e \in Event
    BY DEF Event, PullEvent, Pull
  <1>2. pulls' = [pulls EXCEPT ![r] = new] /\ UNCHANGED suspended
    BY DEF EmitPull
  <1>3. t \in BOOLEAN
    BY DEF Pull, TypeInv, TypeOK
  <1>4. new \in Pull /\ new.head = pull.head
    <2> HIDE DEF t
    <2> QED
      BY <1>3 DEF Pull
  <1> HIDE DEF e, new
  <1>5. pulls' \in [PR -> Pull] /\ OpenHasHead'
    BY <1>2, <1>4 DEF TypeInv, TypeOK, OpenHasHead
  <1>6. Emit(e)
    BY DEF EmitPull, e
  <1>7. inflight' \in Seq(Event)
    BY <1>1, <1>6, AppendProperties DEF Emit, TypeInv, TypeOK
  <1>8. emitted' \in 0 .. MaxEvents
    BY <1>6, BoundsAssumption DEF Emit, TypeInv, TypeOK
  <1> QED
    BY <1>2, <1>5, <1>6, <1>7, <1>8 DEF TypeInv, TypeOK, Emit, HandlersKnowEvent

(* Any other event changes no pull request. *)
LEMMA EmitOtherTypes ==
    ASSUME TypeInv, NEW e \in OtherEvent, Emit(e), UNCHANGED pulls, suspended' \in BOOLEAN
    PROVE  TypeInv'
  <1>1. inflight' \in Seq(Event)
    BY AppendProperties DEF Emit, TypeInv, TypeOK, Event
  <1>2. emitted' \in 0 .. MaxEvents
    BY BoundsAssumption DEF Emit, TypeInv, TypeOK
  <1> QED
    BY <1>1, <1>2 DEF TypeInv, TypeOK, Emit, HandlersKnowEvent, OpenHasHead

(* GitHub emits only events whose fields it has. *)
LEMMA GitHubTypes == ASSUME TypeInv, GitHubStep PROVE TypeInv'
  <1>0. \A r \in PR : pulls[r] \in Pull /\ (pulls[r].open => pulls[r].head \in SHA)
    BY DEF TypeInv, TypeOK, OpenHasHead
  <1> USE DEF Pull
  <1>1. ASSUME NEW r \in PR, OpenPull(r) PROVE TypeInv'
    <2>1. PICK s \in SHA, draft, assigned \in BOOLEAN :
             EmitPull(r, "opened", [NoPull EXCEPT !.head = s, !.open = TRUE,
                                                  !.draft = draft, !.assigned = assigned])
      BY <1>1 DEF OpenPull
    <2> DEFINE pull == [NoPull EXCEPT !.head = s, !.open = TRUE,
                                      !.draft = draft, !.assigned = assigned]
    <2>2. pull \in Pull /\ pull.head \in SHA
      BY DEF NoPull
    <2>3. "opened" \in PullActions
      BY DEF PullActions, Allowlist
    <2> QED
      BY <2>1, <2>2, <2>3, EmitPullTypes
  <1>2. ASSUME NEW r \in PR, NEW s \in SHA, Push(r, s) PROVE TypeInv'
    <2> DEFINE pull == [pulls[r] EXCEPT !.head = s, !.past = @ \cup {pulls[r].head},
                                        !.triggered = FALSE]
    <2>1. pull \in Pull /\ pull.head \in SHA /\ "synchronize" \in PullActions
      BY <1>0, <1>2 DEF Push, PullActions, Allowlist
    <2> QED
      BY <1>2, <2>1, EmitPullTypes DEF Push
  <1>3. ASSUME NEW r \in PR, ClosePull(r) PROVE TypeInv'
    <2> DEFINE pull == [pulls[r] EXCEPT !.open = FALSE, !.past = @ \cup {pulls[r].head}]
    <2>1. pull \in Pull /\ pull.head \in SHA /\ "closed" \in PullActions
      BY <1>0, <1>3 DEF ClosePull, PullActions
    <2> QED
      BY <1>3, <2>1, EmitPullTypes DEF ClosePull
  <1>4. ASSUME NEW r \in PR, ReopenPull(r) PROVE TypeInv'
    <2> DEFINE pull == [pulls[r] EXCEPT !.open = TRUE]
    <2>1. pull \in Pull /\ pull.head \in SHA /\ "reopened" \in PullActions
      BY <1>0, <1>4 DEF ReopenPull, PullActions, Allowlist
    <2> QED
      BY <1>4, <2>1, EmitPullTypes DEF ReopenPull
  <1>5. ASSUME NEW r \in PR, ConvertToDraft(r) PROVE TypeInv'
    <2> DEFINE pull == [pulls[r] EXCEPT !.draft = TRUE, !.past = @ \cup {pulls[r].head}]
    <2>1. pull \in Pull /\ pull.head \in SHA /\ "converted_to_draft" \in PullActions
      BY <1>0, <1>5 DEF ConvertToDraft, PullActions
    <2> QED
      BY <1>5, <2>1, EmitPullTypes DEF ConvertToDraft
  <1>6. ASSUME NEW r \in PR, ReadyForReview(r) PROVE TypeInv'
    <2> DEFINE pull == [pulls[r] EXCEPT !.draft = FALSE]
    <2>1. pull \in Pull /\ pull.head \in SHA /\ "ready_for_review" \in PullActions
      BY <1>0, <1>6 DEF ReadyForReview, PullActions, Allowlist
    <2> QED
      BY <1>6, <2>1, EmitPullTypes DEF ReadyForReview
  <1>7. ASSUME NEW r \in PR, Assign(r) PROVE TypeInv'
    <2>1. \A b \in BOOLEAN : LET pull == [pulls[r] EXCEPT !.assigned = b] IN
             pull \in Pull /\ pull.head \in SHA
      BY <1>0, <1>7 DEF Assign
    <2>2. {"assigned", "unassigned"} \subseteq PullActions
      BY DEF PullActions, Allowlist
    <2> QED
      BY <1>7, <2>1, <2>2, EmitPullTypes DEF Assign
  <1>8. ASSUME Comment PROVE TypeInv'
    BY <1>8, EmitOtherTypes DEF Comment, OtherEvent, TypeInv, TypeOK
  <1>9. ASSUME SuspendOrUnsuspend PROVE TypeInv'
    BY <1>9, EmitOtherTypes DEF SuspendOrUnsuspend, OtherEvent, TypeInv, TypeOK
  <1> QED
    BY <1>1, <1>2, <1>3, <1>4, <1>5, <1>6, <1>7, <1>8, <1>9 DEF GitHubStep

(* What DeliverLate leaves in flight when it takes the event at place i.    *)
Without(q, i) == SubSeq(q, 1, i - 1) \o SubSeq(q, i + 1, Len(q))

(* The events before place i stay where they are, those after it move up.   *)
LEMMA WithoutProperties ==
    ASSUME NEW S, NEW q \in Seq(S), NEW i \in 1 .. Len(q)
    PROVE  /\ Without(q, i) \in Seq(S)
           /\ Len(Without(q, i)) = Len(q) - 1
           /\ \A n \in 1 .. Len(q) - 1 :
                 Without(q, i)[n] = IF n < i THEN q[n] ELSE q[n + 1]
  <1> DEFINE s == SubSeq(q, 1, i - 1)
             t == SubSeq(q, i + 1, Len(q))
  <1>0. Len(q) \in Nat /\ \A n \in 1 .. Len(q) : q[n] \in S
    BY LenProperties, ElementOfSeq
  <1>1. /\ s \in Seq(S) /\ Len(s) = i - 1
        /\ \A n \in 1 .. i - 1 : s[n] = q[n]
    <2>1. \A n \in 1 .. i - 1 : q[n] \in S
      BY <1>0
    <2>2. /\ s \in Seq(S) /\ Len(s) = IF 1 <= i - 1 THEN i - 1 - 1 + 1 ELSE 0
          /\ \A n \in 1 .. (i - 1) - 1 + 1 : s[n] = q[1 + n - 1]
      BY <2>1, <1>0, SubSeqProperties
    <2> HIDE DEF s
    <2> QED
      BY <2>2, <1>0
  <1>2. /\ t \in Seq(S) /\ Len(t) = Len(q) - i
        /\ \A n \in 1 .. Len(q) - i : t[n] = q[i + n]
    <2>1. \A n \in i + 1 .. Len(q) : q[n] \in S
      BY <1>0
    <2>2. /\ t \in Seq(S) /\ Len(t) = IF i + 1 <= Len(q) THEN Len(q) - (i + 1) + 1 ELSE 0
          /\ \A n \in 1 .. Len(q) - (i + 1) + 1 : t[n] = q[i + 1 + n - 1]
      BY <2>1, <1>0, SubSeqProperties
    <2> HIDE DEF t
    <2> QED
      BY <2>2, <1>0
  <1> HIDE DEF s, t
  <1>3. /\ s \o t \in Seq(S) /\ Len(s \o t) = Len(s) + Len(t)
        /\ \A n \in 1 .. Len(s) + Len(t) :
              (s \o t)[n] = IF n <= Len(s) THEN s[n] ELSE t[n - Len(s)]
    BY <1>1, <1>2, ConcatProperties
  <1>4. Without(q, i) = s \o t
    BY DEF Without, s, t
  <1>5. \A n \in 1 .. Len(q) - 1 : (s \o t)[n] = IF n < i THEN q[n] ELSE q[n + 1]
    <2> SUFFICES ASSUME NEW n \in 1 .. Len(q) - 1
                 PROVE  (s \o t)[n] = IF n < i THEN q[n] ELSE q[n + 1]
      OBVIOUS
    <2>1. (s \o t)[n] = IF n <= i - 1 THEN s[n] ELSE t[n - (i - 1)]
      BY <1>0, <1>1, <1>2, <1>3
    <2>2. CASE n < i
      BY <1>0, <1>1, <2>1, <2>2
    <2>3. CASE ~(n < i)
      <3>1. n - (i - 1) \in 1 .. Len(q) - i /\ i + (n - (i - 1)) = n + 1
        BY <1>0, <2>3
      <3>2. t[n - (i - 1)] = q[i + (n - (i - 1))]
        BY <1>2, <3>1
      <3> QED
        BY <1>0, <2>1, <2>3, <3>1, <3>2
    <2> QED
      BY <2>2, <2>3
  <1>6. Len(s \o t) = Len(q) - 1
    BY <1>0, <1>1, <1>2, <1>3
  <1> QED
    BY <1>3, <1>4, <1>5, <1>6

(* A handler that takes over an event in flight knows it. *)
LEMMA DeliverTypes ==
    ASSUME TypeInv, NEW h \in Handler, NEW e \in Event, Deliver(h, e),
           inflight' \in Seq(Event), disorder' \subseteq Disturbances
    PROVE  TypeInv'
  <1> DEFINE call == [pc |-> FirstStep(e), event |-> e]
  <1>1. /\ call.pc \in {"upsert", "ensure"} /\ call.event \in Event
        /\ call \in [pc : {"idle", "upsert", "ensure", "stub",
                           "cancel_open", "supersede", "create"},
                     event : Event \cup {NULL}]
    BY DEF FirstStep
  <1>2. handlers' = [handlers EXCEPT ![h] = call]
    BY DEF Deliver
  <1> HIDE DEF call
  <1>3. HandlersKnowEvent'
    <2> SUFFICES ASSUME NEW g \in Handler
                 PROVE  /\ handlers'[g].pc # "idle" => handlers'[g].event \in Event
                        /\ handlers'[g].pc \in {"cancel_open", "supersede", "create"} =>
                              handlers'[g].event \in PullEvent
      BY DEF HandlersKnowEvent
    <2>1. CASE g = h
      BY <1>1, <1>2, <2>1 DEF TypeInv, TypeOK
    <2>2. CASE g # h
      BY <1>2, <2>2 DEF TypeInv, TypeOK, HandlersKnowEvent
    <2> QED
      BY <2>1, <2>2
  <1>4. handlers' \in [Handler ->
          [pc : {"idle", "upsert", "ensure", "stub", "cancel_open", "supersede", "create"},
           event : Event \cup {NULL}]]
    BY <1>1, <1>2 DEF TypeInv, TypeOK
  <1>5. UNCHANGED <<jobs, inst, pulls, suspended, emitted>>
    BY DEF Deliver
  <1> QED
    BY <1>3, <1>4, <1>5 DEF TypeInv, TypeOK, OpenHasHead, Disturbances

(* A delivery, in order or not, takes an event that was in flight. *)
LEMMA DeliveryTypes ==
    ASSUME TypeInv
    PROVE  /\ \A h \in Handler : DeliverNext(h) \/ DeliverTwice(h) => TypeInv'
           /\ \A h \in Handler, i \in 2 .. Len(inflight) : DeliverLate(h, i) => TypeInv'
           /\ LoseDelivery => TypeInv'
  <1>0. inflight \in Seq(Event) /\ disorder \subseteq Disturbances
    BY DEF TypeInv, TypeOK, Disturbances
  <1>1. inflight # <<>> => Head(inflight) \in Event /\ Tail(inflight) \in Seq(Event)
    BY <1>0, HeadTailProperties
  <1>2. \A kind \in Disturbances : Disturb(kind) => disorder' \subseteq Disturbances
    BY <1>0, DisturbTypes
  <1>3. ASSUME NEW h \in Handler, DeliverNext(h) PROVE TypeInv'
    <2>1. disorder' \subseteq Disturbances
      BY <1>0, <1>2, <1>3 DEF DeliverNext, Disturbances
    <2> QED
      BY <1>1, <1>3, <2>1, DeliverTypes DEF DeliverNext
  <1>4. ASSUME NEW h \in Handler, DeliverTwice(h) PROVE TypeInv'
    <2>1. disorder' \subseteq Disturbances
      BY <1>2, <1>4 DEF DeliverTwice, Disturbances
    <2>2. inflight' \in Seq(Event)
      BY <1>1, <1>4, AppendProperties DEF DeliverTwice
    <2> QED
      BY <1>1, <1>4, <2>1, <2>2, DeliverTypes DEF DeliverTwice
  <1>5. ASSUME NEW h \in Handler, NEW i \in 2 .. Len(inflight), DeliverLate(h, i)
        PROVE  TypeInv'
    <2>1. disorder' \subseteq Disturbances
      BY <1>2, <1>5 DEF DeliverLate, Disturbances
    <2>2. i \in 1 .. Len(inflight)
      BY <1>0, LenProperties
    <2>3. inflight' \in Seq(Event)
      BY <1>0, <1>5, <2>2, WithoutProperties DEF DeliverLate, Without
    <2>4. inflight[i] \in Event
      BY <1>0, <2>2, ElementOfSeq
    <2> QED
      BY <1>5, <2>1, <2>3, <2>4, DeliverTypes DEF DeliverLate
  <1>6. ASSUME LoseDelivery PROVE TypeInv'
    <2>1. disorder' \subseteq Disturbances
      BY <1>2, <1>6 DEF LoseDelivery, Disturbances
    <2>2. UNCHANGED <<jobs, inst, pulls, suspended, emitted, handlers>>
      BY <1>6 DEF LoseDelivery
    <2> QED
      BY <1>1, <1>6, <2>1, <2>2
         DEF LoseDelivery, TypeInv, TypeOK, Disturbances, OpenHasHead, HandlersKnowEvent
  <1> QED
    BY <1>3, <1>4, <1>5, <1>6

(* A handler that goes on keeps its event, one that answers forgets it. *)
HandlersOK ==
    /\ handlers \in [Handler ->
          [pc : {"idle", "upsert", "ensure", "stub", "cancel_open", "supersede", "create"},
           event : Event \cup {NULL}]]
    /\ HandlersKnowEvent

(* Each way a handler can go on keeps the handlers well formed. *)
LEMMA StepTypes ==
    ASSUME TypeInv, NEW h \in Handler
    PROVE  /\ Answer(h) => HandlersOK'
           /\ handlers[h].pc # "idle" /\ Goto(h, "stub") => HandlersOK'
           /\ handlers[h].pc # "idle" /\ (\E row : Route(h, row)) => HandlersOK'
           /\ handlers[h].pc = "supersede" /\ Goto(h, "create") => HandlersOK'
           /\ StatementFails(h) => HandlersOK' /\ disorder' \subseteq Disturbances
  <1> USE DEF TypeInv, TypeOK, HandlersOK, HandlersKnowEvent
  <1>1. Answer(h) => HandlersOK'
    BY DEF Answer, Idle
  <1>2. handlers[h].pc # "idle" /\ Goto(h, "stub") => HandlersOK'
    BY DEF Goto
  <1>3. handlers[h].pc = "supersede" /\ Goto(h, "create") => HandlersOK'
    BY DEF Goto
  <1>4. ASSUME handlers[h].pc # "idle", handlers[h].event \in PullEvent,
               NEW pc \in {"cancel_open", "supersede"}, Goto(h, pc)
        PROVE  HandlersOK'
    BY <1>4 DEF Goto
  <1>5. ASSUME handlers[h].pc # "idle", NEW row, Route(h, row) PROVE HandlersOK'
    <2>1. EndsReview(handlers[h].event) \/ WantsReview(handlers[h].event, row) =>
             handlers[h].event \in PullEvent
      BY <1>5 DEF EndsReview, WantsReview, Event, OtherEvent, PullEvent
    <2> QED
      BY <1>1, <1>4, <1>5, <2>1 DEF Route
  <1>6. StatementFails(h) => HandlersOK' /\ disorder' \subseteq Disturbances
    BY <1>1, DisturbTypes DEF StatementFails, Disturbances
  <1> QED
    BY <1>1, <1>2, <1>3, <1>5, <1>6

(* A cancellation statement, an insert, a claim and the end of an execution *)
(* leave well-formed rows.                                                  *)
LEMMA JobsTypes ==
    ASSUME TypeInv
    PROVE  /\ \A r, except : CancelRows(r, except) \in [Key -> JobRow({Worker})]
           /\ \A k \in Key : [jobs EXCEPT ![k] = NewJob] \in [Key -> JobRow({Worker})]
           /\ \A k \in Key : WorkerStep(k) => jobs' \in [Key -> JobRow({Worker})]
  <1>1. \A k \in Key : jobs[k] \in JobRow({Worker})
    BY DEF TypeInv, TypeOK
  <1>2. \A r, except : CancelRows(r, except) \in [Key -> JobRow({Worker})]
    BY <1>1, RowTypes DEF CancelRows
  <1>3. \A k \in Key : [jobs EXCEPT ![k] = NewJob] \in [Key -> JobRow({Worker})]
    BY NewRowTypes DEF TypeInv, TypeOK
  <1>4. ASSUME NEW k \in Key, WorkerStep(k) PROVE jobs' \in [Key -> JobRow({Worker})]
    <2>1. jobs[k].lock_generation \in Nat
      BY <1>1 DEF JobRow
    <2>2. /\ ClaimedRow(jobs[k], Worker) \in JobRow({Worker})
          /\ CompletedRow(jobs[k], jobs[k].lock_generation) \in JobRow({Worker})
          /\ FailedRow(jobs[k]) \in JobRow({Worker})
      BY <1>1, <2>1, RowTypes, ClaimTypes
    <2> QED
      BY <1>4, <2>2 DEF WorkerStep, TypeInv, TypeOK
  <1> QED
    BY <1>2, <1>3, <1>4

(* Every statement of a handler, failing or not, keeps the types. *)
LEMMA HandlerTypes == ASSUME TypeInv, NEW h \in Handler, HandlerStep(h) PROVE TypeInv'
  <1> USE StepTypes
  <1>same. UNCHANGED <<pulls, suspended, inflight, emitted>>
    BY DEF HandlerStep, UpsertInstallation, EnsureInstallation, CreateStub,
           CancelOpenJobsForPR, CancelJobsForPR, CreateJob
  <1>1. ASSUME /\ jobs' \in [Key -> JobRow({Worker})]
               /\ inst' \in {"absent", "active", "suspended"}
               /\ HandlersOK'
               /\ disorder' \subseteq Disturbances
        PROVE  TypeInv'
    BY <1>1, <1>same DEF TypeInv, TypeOK, HandlersOK, OpenHasHead, Disturbances
  <1>2. disorder \subseteq Disturbances /\ jobs \in [Key -> JobRow({Worker})]
    BY DEF TypeInv, TypeOK, Disturbances
  <1>3. CASE UpsertInstallation(h)
    <2>1. InstallationRow(handlers[h].event.action) \in {"active", "suspended"}
      BY DEF InstallationRow
    <2> QED
      BY <1>1, <1>2, <1>3, <2>1 DEF UpsertInstallation, Succeeds, TypeInv, TypeOK
  <1>4. CASE EnsureInstallation(h)
    BY <1>1, <1>2, <1>4 DEF EnsureInstallation, Succeeds, TypeInv, TypeOK
  <1>5. CASE CreateStub(h)
    BY <1>1, <1>2, <1>5 DEF CreateStub, Succeeds, TypeInv, TypeOK
  <1>6. CASE CancelOpenJobsForPR(h)
    <2>0. CancelRows(handlers[h].event.pr, NULL) \in [Key -> JobRow({Worker})]
      BY JobsTypes
    <2>1. jobs' \in {jobs, CancelRows(handlers[h].event.pr, NULL)} /\ UNCHANGED inst
      BY <1>6 DEF CancelOpenJobsForPR
    <2>2. jobs' \in [Key -> JobRow({Worker})]
      BY <1>2, <2>0, <2>1
    <2>3. HandlersOK' /\ disorder' \subseteq Disturbances
      BY <1>2, <1>6 DEF CancelOpenJobsForPR, Succeeds
    <2> QED
      BY <1>1, <2>1, <2>2, <2>3 DEF TypeInv, TypeOK
  <1>7. CASE CancelJobsForPR(h)
    <2>0. CancelRows(handlers[h].event.pr, handlers[h].event.sha) \in [Key -> JobRow({Worker})]
      BY JobsTypes
    <2>1. jobs' \in {jobs, CancelRows(handlers[h].event.pr, handlers[h].event.sha)} /\ UNCHANGED inst
      BY <1>7 DEF CancelJobsForPR
    <2>2. jobs' \in [Key -> JobRow({Worker})]
      BY <1>2, <2>0, <2>1
    <2>3. HandlersOK' /\ disorder' \subseteq Disturbances
      BY <1>2, <1>7 DEF CancelJobsForPR, Succeeds
    <2> QED
      BY <1>1, <2>1, <2>2, <2>3 DEF TypeInv, TypeOK
  <1>8. CASE CreateJob(h)
    <2>1. <<handlers[h].event.pr, handlers[h].event.sha>> \in Key
      BY <1>8 DEF CreateJob, TypeInv, HandlersKnowEvent, PullEvent, Key
    <2> QED
      BY <1>1, <1>2, <1>8, <2>1, JobsTypes DEF CreateJob, Succeeds, TypeInv, TypeOK
  <1> QED
    BY <1>3, <1>4, <1>5, <1>6, <1>7, <1>8 DEF HandlerStep

(* Initially there is nothing. *)
LEMMA TypeInv_Init == Init => TypeInv
  <1> SUFFICES ASSUME Init PROVE TypeInv
    OBVIOUS
  <1>1. pulls \in [PR -> Pull] /\ OpenHasHead
    BY DEF Init, NoPull, Pull, OpenHasHead
  <1>2. HandlersOK
    BY DEF Init, Idle, HandlersOK, HandlersKnowEvent
  <1>3. inflight \in Seq(Event) /\ emitted \in 0 .. MaxEvents
    BY EmptySeq, BoundsAssumption DEF Init
  <1> QED
    BY <1>1, <1>2, <1>3, NewRowTypes DEF Init, TypeInv, TypeOK, HandlersOK

(* Every step of GitHub, of the network, of a handler and of the worker     *)
(* keeps the types.                                                         *)
LEMMA TypeInv_Next == TypeInv /\ [Next]_vars => TypeInv'
  <1> SUFFICES ASSUME TypeInv, [Next]_vars PROVE TypeInv'
    OBVIOUS
  <1>1. ASSUME NEW k \in Key, WorkerStep(k) PROVE TypeInv'
    <2>1. UNCHANGED <<inst, pulls, suspended, inflight, emitted, handlers, disorder>>
      BY <1>1 DEF WorkerStep
    <2> QED
      BY <1>1, <2>1, JobsTypes DEF TypeInv, TypeOK, OpenHasHead, HandlersKnowEvent
  <1>2. CASE UNCHANGED vars
    BY <1>2 DEF vars, TypeInv, TypeOK, OpenHasHead, HandlersKnowEvent
  <1> QED
    BY <1>1, <1>2, GitHubTypes, DeliveryTypes, HandlerTypes DEF Next

(* TypeOK of Enqueuer is an invariant: every row of review_jobs and of      *)
(* installations, every pull request, event and handler is well formed,     *)
(* whatever the deliveries, failures and workers do.                        *)
THEOREM EnqueuerTyping == Spec => []TypeOK
  <1>1. TypeInv => TypeOK
    BY DEF TypeInv
  <1> QED
    BY <1>1, TypeInv_Init, TypeInv_Next, PTL DEF Spec

-----------------------------------------------------------------------------
(* OneOpenJobPerPR.                                                         *)

IsOpen(k) == jobs[k].status \in Open

EventKey(h) == <<handlers[h].event.pr, handlers[h].event.sha>>

Busy(h) == handlers[h].pc # "idle"

(* No delivery overlaps another: the handlers take turns.                   *)
TakeTurns == \A g, h \in Handler : Busy(g) /\ Busy(h) => g = h

(* Nothing asks for reconciliation: no row is claimed that is not open.     *)
NoReconcile == \A k \in Key : jobs[k].status # "needs_reconcile"

(* A handler about to insert has cancelled the other jobs of its pull       *)
(* request.                                                                 *)
Superseded ==
    \A h \in Handler, k \in Key :
        handlers[h].pc = "create" /\ IsOpen(k) /\ k[1] = handlers[h].event.pr =>
            k = EventKey(h)

(* No two open rows belong to the same pull request. *)
OneOpen == \A k, l \in Key : IsOpen(k) /\ IsOpen(l) /\ k[1] = l[1] => k = l

SerialInv ==
    /\ TypeInv
    /\ NoReconcile
    /\ "concurrent" \notin disorder => TakeTurns /\ Superseded /\ OneOpen

(* GitHub does nothing but emit events. *)
LEMMA GitHubEmits == ASSUME GitHubStep PROVE \E e : Emit(e)
  <1>1. \A r, action, pull : EmitPull(r, action, pull) => \E e : Emit(e)
    BY DEF EmitPull
  <1>2. ASSUME NEW r \in PR, OpenPull(r) PROVE \E e : Emit(e)
    BY <1>1, <1>2 DEF OpenPull
  <1>3. ASSUME NEW r \in PR, ClosePull(r) \/ ReopenPull(r) PROVE \E e : Emit(e)
    BY <1>1, <1>3 DEF ClosePull, ReopenPull
  <1>4. ASSUME NEW r \in PR, ConvertToDraft(r) \/ ReadyForReview(r) PROVE \E e : Emit(e)
    BY <1>1, <1>4 DEF ConvertToDraft, ReadyForReview
  <1>5. ASSUME NEW r \in PR, Assign(r) PROVE \E e : Emit(e)
    BY <1>1, <1>5 DEF Assign
  <1>6. ASSUME NEW r \in PR, NEW s \in SHA, Push(r, s) PROVE \E e : Emit(e)
    BY <1>1, <1>6 DEF Push
  <1>7. ASSUME Comment \/ SuspendOrUnsuspend PROVE \E e : Emit(e)
    BY <1>7 DEF Comment, SuspendOrUnsuspend
  <1> QED
    BY <1>2, <1>3, <1>4, <1>5, <1>6, <1>7 DEF GitHubStep

(* A disturbance is never forgotten. *)
LEMMA DisorderGrows ==
    ASSUME [Next]_vars
    PROVE  disorder \subseteq disorder'
  <1> USE DEF Disturb, Succeeds
  <1>1. \A h \in Handler : HandlerStep(h) => disorder \subseteq disorder'
    BY DEF HandlerStep, UpsertInstallation, EnsureInstallation, CreateStub, CancelOpenJobsForPR,
           CancelJobsForPR, CreateJob, StatementFails
  <1>2. \A h \in Handler : DeliverNext(h) \/ DeliverTwice(h) => disorder \subseteq disorder'
    BY DEF DeliverNext, DeliverTwice
  <1>3. \A h \in Handler, i \in 2 .. Len(inflight) : DeliverLate(h, i) => disorder \subseteq disorder'
    BY DEF DeliverLate
  <1>4. GitHubStep => UNCHANGED disorder
    BY GitHubEmits DEF Emit
  <1>5. LoseDelivery => disorder \subseteq disorder'
    BY DEF LoseDelivery
  <1>6. \A k \in Key : WorkerStep(k) => UNCHANGED disorder
    BY DEF WorkerStep
  <1> QED
    BY <1>1, <1>2, <1>3, <1>4, <1>5, <1>6 DEF Next, vars

(* A handler's step is its own, and leaves an idle handler idle. *)
LEMMA OwnStep ==
    ASSUME TypeInv, NEW h \in Handler, HandlerStep(h)
    PROVE  /\ Busy(h)
           /\ \A g \in Handler : g # h => handlers'[g] = handlers[g]
           /\ handlers'[h].pc = "create" =>
                 /\ handlers[h].pc = "supersede" /\ handlers'[h].event = handlers[h].event
                 /\ jobs' = CancelRows(handlers[h].event.pr, handlers[h].event.sha)
  <1> USE DEF TypeInv, TypeOK
  <1>1. Answer(h) => /\ handlers'[h].pc = "idle"
                     /\ \A g \in Handler : g # h => handlers'[g] = handlers[g]
    BY DEF Answer, Idle
  <1>2. \A pc : Goto(h, pc) =>
           /\ handlers'[h].pc = pc /\ handlers'[h].event = handlers[h].event
           /\ \A g \in Handler : g # h => handlers'[g] = handlers[g]
    BY DEF Goto
  <1>3. StatementFails(h) =>
           /\ handlers'[h].pc = "idle"
           /\ \A g \in Handler : g # h => handlers'[g] = handlers[g]
    BY <1>1 DEF StatementFails
  <1>4. ASSUME NEW row, Route(h, row)
        PROVE  /\ handlers'[h].pc # "create"
               /\ \A g \in Handler : g # h => handlers'[g] = handlers[g]
    BY <1>1, <1>2, <1>4 DEF Route
  <1>5. CASE UpsertInstallation(h)
    BY <1>1, <1>3, <1>5 DEF UpsertInstallation, Succeeds, Busy
  <1>6. CASE EnsureInstallation(h)
    BY <1>2, <1>3, <1>4, <1>6 DEF EnsureInstallation, Succeeds, Busy
  <1>7. CASE CreateStub(h)
    BY <1>2, <1>3, <1>4, <1>7 DEF CreateStub, Succeeds, Busy
  <1>8. CASE CancelOpenJobsForPR(h)
    BY <1>1, <1>3, <1>8 DEF CancelOpenJobsForPR, Succeeds, Busy
  <1>9. CASE CancelJobsForPR(h)
    BY <1>2, <1>3, <1>9 DEF CancelJobsForPR, Succeeds, Busy
  <1>10. CASE CreateJob(h)
    BY <1>1, <1>3, <1>10 DEF CreateJob, Succeeds, Busy
  <1> QED
    BY <1>5, <1>6, <1>7, <1>8, <1>9, <1>10 DEF HandlerStep

(* A delivery occupies an idle handler, while nobody else is busy unless    *)
(* deliveries overlap.                                                      *)
LEMMA OwnDelivery ==
    ASSUME TypeInv, NEW h \in Handler,
           \/ DeliverNext(h) \/ DeliverTwice(h)
           \/ \E i \in 2 .. Len(inflight) : DeliverLate(h, i)
    PROVE  /\ \A g \in Handler : g # h => handlers'[g] = handlers[g]
           /\ handlers'[h].pc \in {"upsert", "ensure"}
           /\ "concurrent" \notin disorder' => Alone(h)
           /\ UNCHANGED <<jobs, inst, pulls, suspended, emitted>>
  <1>1. PICK e : Deliver(h, e)
    BY DEF DeliverNext, DeliverTwice, DeliverLate
  <1>2. "concurrent" \notin disorder' => Alone(h)
    BY DEF DeliverNext, DeliverTwice, DeliverLate, Disturb
  <1> DEFINE call == [pc |-> FirstStep(e), event |-> e]
  <1>3. call.pc \in {"upsert", "ensure"}
    BY DEF FirstStep
  <1>4. handlers' = [handlers EXCEPT ![h] = call]
    BY <1>1 DEF Deliver
  <1> HIDE DEF call
  <1> QED
    BY <1>1, <1>2, <1>3, <1>4 DEF Deliver, TypeInv, TypeOK

(* Nobody else moves a handler. *)
LEMMA HandlersMove ==
    ASSUME [Next]_vars
    PROVE  \/ UNCHANGED handlers
           \/ \E h \in Handler :
                 \/ HandlerStep(h)
                 \/ DeliverNext(h) \/ DeliverTwice(h)
                 \/ \E i \in 2 .. Len(inflight) : DeliverLate(h, i)
  <1>1. GitHubStep => UNCHANGED handlers
    BY GitHubEmits DEF Emit
  <1>2. LoseDelivery => UNCHANGED handlers
    BY DEF LoseDelivery
  <1>3. \A k \in Key : WorkerStep(k) => UNCHANGED handlers
    BY DEF WorkerStep
  <1> QED
    BY <1>1, <1>2, <1>3 DEF Next, vars

(* A cancellation statement closes the open rows it selects, and opens none. *)
LEMMA CancelCloses ==
    ASSUME TypeInv, NoReconcile, NEW r, NEW except, jobs' = CancelRows(r, except)
    PROVE  \A k \in Key :
              /\ IsOpen(k)' => IsOpen(k) /\ (k[1] = r => k[2] = except)
              /\ jobs'[k].status # "needs_reconcile"
  <1> SUFFICES ASSUME NEW k \in Key
               PROVE  /\ IsOpen(k)' => IsOpen(k) /\ (k[1] = r => k[2] = except)
                      /\ jobs'[k].status # "needs_reconcile"
    OBVIOUS
  <1>1. jobs[k] \in JobRow({Worker})
    BY DEF TypeInv, TypeOK
  <1>2. /\ CancelledRow(jobs[k]).status # "needs_reconcile"
        /\ CancelledRow(jobs[k]).status \notin Open
    BY <1>1 DEF CancelledRow, JobRow, Open, NoReconcile
  <1>3. jobs'[k] = IF k[1] = r /\ k[2] # except THEN CancelledRow(jobs[k]) ELSE jobs[k]
    BY DEF CancelRows
  <1> QED
    BY <1>2, <1>3 DEF IsOpen, NoReconcile

(* A worker claims only rows that are open already. *)
LEMMA WorkerOpensNothing ==
    ASSUME TypeInv, NoReconcile, NEW j \in Key, WorkerStep(j)
    PROVE  \A k \in Key : /\ IsOpen(k)' => IsOpen(k)
                          /\ jobs'[k].status # "needs_reconcile"
  <1>1. jobs[j] \in JobRow({Worker})
    BY DEF TypeInv, TypeOK
  <1>2. /\ ClaimedRow(jobs[j], Worker).status = "running"
        /\ CompletedRow(jobs[j], jobs[j].lock_generation).status = "completed"
        /\ FailedRow(jobs[j]).status = "failed"
    BY <1>1 DEF ClaimedRow, CompletedRow, FailedRow, JobRow
  <1>3. PICK row : /\ jobs' = [jobs EXCEPT ![j] = row]
                   /\ row.status # "needs_reconcile"
                   /\ row.status \in Open => jobs[j].status \in Open
    BY <1>2 DEF WorkerStep, Queued, Open, NoReconcile
  <1>4. \A k \in Key : k # j => jobs'[k] = jobs[k]
    BY <1>3 DEF TypeInv, TypeOK
  <1>5. jobs'[j] = row
    BY <1>3 DEF TypeInv, TypeOK
  <1> QED
    BY <1>3, <1>4, <1>5 DEF IsOpen, NoReconcile

(* The only row a step can open is the one a handler inserts. *)
LEMMA OpenedByCreate ==
    ASSUME TypeInv, NoReconcile, [Next]_vars
    PROVE  \A k \in Key :
              /\ jobs'[k].status # "needs_reconcile"
              /\ IsOpen(k)' => \/ IsOpen(k)
                               \/ \E h \in Handler : handlers[h].pc = "create" /\ k = EventKey(h)
  <1> DEFINE Goal == \A k \in Key :
              /\ jobs'[k].status # "needs_reconcile"
              /\ IsOpen(k)' => \/ IsOpen(k)
                               \/ \E h \in Handler : handlers[h].pc = "create" /\ k = EventKey(h)
  <1>1. UNCHANGED jobs => Goal
    BY DEF IsOpen, NoReconcile
  <1>2. ASSUME NEW h \in Handler, CancelOpenJobsForPR(h) \/ CancelJobsForPR(h) PROVE Goal
    <2>1. PICK except : jobs' = jobs \/ jobs' = CancelRows(handlers[h].event.pr, except)
      BY <1>2 DEF CancelOpenJobsForPR, CancelJobsForPR
    <2> QED
      BY <1>1, <2>1, CancelCloses
  <1>3. ASSUME NEW h \in Handler, CreateJob(h) PROVE Goal
    <2>1. jobs' = jobs \/ jobs' = [jobs EXCEPT ![EventKey(h)] = NewJob]
      BY <1>3 DEF CreateJob, EventKey
    <2>2. NewJob.status = "pending" /\ handlers[h].pc = "create"
      BY <1>3 DEF NewJob, NoJob, CreateJob
    <2>3. ASSUME jobs' = [jobs EXCEPT ![EventKey(h)] = NewJob], NEW k \in Key
          PROVE  (jobs'[k] = NewJob /\ k = EventKey(h)) \/ jobs'[k] = jobs[k]
      BY <2>3 DEF TypeInv, TypeOK
    <2> QED
      BY <1>1, <2>1, <2>2, <2>3 DEF IsOpen, NoReconcile
  <1>4. ASSUME NEW h \in Handler,
               UpsertInstallation(h) \/ EnsureInstallation(h) \/ CreateStub(h)
        PROVE  UNCHANGED jobs
    BY <1>4 DEF UpsertInstallation, EnsureInstallation, CreateStub
  <1>5. GitHubStep => UNCHANGED jobs
    BY GitHubEmits DEF Emit
  <1>6. LoseDelivery => UNCHANGED jobs
    BY DEF LoseDelivery
  <1>7. \A k \in Key : WorkerStep(k) => Goal
    BY WorkerOpensNothing
  <1>8. \A h \in Handler : HandlerStep(h) => Goal
    BY <1>1, <1>2, <1>3, <1>4 DEF HandlerStep
  <1>9. ASSUME NEW h \in Handler,
               \/ DeliverNext(h) \/ DeliverTwice(h)
               \/ \E i \in 2 .. Len(inflight) : DeliverLate(h, i)
        PROVE  UNCHANGED jobs
    BY <1>9 DEF DeliverNext, DeliverTwice, DeliverLate, Deliver
  <1> HIDE DEF Goal
  <1>10. Goal
    BY <1>1, <1>5, <1>6, <1>7, <1>8, <1>9 DEF Next, vars
  <1> QED
    BY <1>10 DEF Goal

(* Handlers take turns, and no two rows of a pull request become open.      *)
LEMMA SerialInv_Next == SerialInv /\ [Next]_vars => SerialInv'
  <1> SUFFICES ASSUME SerialInv, [Next]_vars PROVE SerialInv'
    OBVIOUS
  <1>0. TypeInv /\ NoReconcile /\ TypeInv'
    BY TypeInv_Next DEF SerialInv
  <1>1. NoReconcile'
    BY <1>0, OpenedByCreate DEF NoReconcile
  <1> SUFFICES ASSUME "concurrent" \notin disorder'
               PROVE  TakeTurns' /\ Superseded' /\ OneOpen'
    BY <1>0, <1>1 DEF SerialInv
  <1>2. TakeTurns /\ Superseded /\ OneOpen
    BY DisorderGrows DEF SerialInv
  <1>3. \A h \in Handler : handlers'[h].pc = "create" =>
           \/ handlers'[h] = handlers[h]
           \/ /\ handlers'[h].event = handlers[h].event
              /\ jobs' = CancelRows(handlers[h].event.pr, handlers[h].event.sha)
    BY <1>0, HandlersMove, OwnStep, OwnDelivery
  <1>4. TakeTurns'
    <2>1. ASSUME NEW h \in Handler, HandlerStep(h) PROVE TakeTurns'
      BY <1>0, <1>2, <2>1, OwnStep DEF TakeTurns, Busy
    <2>2. ASSUME NEW h \in Handler,
                 \/ DeliverNext(h) \/ DeliverTwice(h)
                 \/ \E i \in 2 .. Len(inflight) : DeliverLate(h, i)
          PROVE  TakeTurns'
      <3>1. \A g \in Handler : g # h => handlers'[g].pc = "idle"
        BY <1>0, <2>2, OwnDelivery DEF Alone
      <3> QED
        BY <3>1 DEF TakeTurns, Busy
    <2>3. UNCHANGED handlers => TakeTurns'
      BY <1>2 DEF TakeTurns, Busy
    <2> QED
      BY <2>1, <2>2, <2>3, HandlersMove
  <1>5. \A k \in Key : IsOpen(k)' =>
           \/ IsOpen(k)
           \/ \E h \in Handler : handlers[h].pc = "create" /\ k = EventKey(h)
    BY <1>0, OpenedByCreate
  <1>6. OneOpen'
    <2> SUFFICES ASSUME NEW k \in Key, NEW l \in Key, IsOpen(k)', IsOpen(l)', k[1] = l[1]
                 PROVE  k = l
      BY DEF OneOpen
    <2>1. CASE IsOpen(k) /\ IsOpen(l)
      BY <1>2, <2>1 DEF OneOpen
    <2>2. ASSUME NEW h \in Handler, handlers[h].pc = "create", k = EventKey(h) \/ l = EventKey(h)
          PROVE  k = l
      <3>1. \A m \in Key : IsOpen(m)' /\ m[1] = handlers[h].event.pr => m = EventKey(h)
        BY <1>2, <1>5, <2>2 DEF Superseded, TakeTurns, Busy
      <3>2. EventKey(h)[1] = handlers[h].event.pr
        BY DEF EventKey
      <3> QED
        BY <2>2, <3>1, <3>2
    <2> QED
      BY <1>5, <2>1, <2>2
  <1>7. Superseded'
    <2> SUFFICES ASSUME NEW h \in Handler, NEW k \in Key, handlers'[h].pc = "create",
                        IsOpen(k)', k[1] = handlers'[h].event.pr
                 PROVE  k = <<handlers'[h].event.pr, handlers'[h].event.sha>>
      BY DEF Superseded, EventKey
    <2>1. CASE handlers'[h] = handlers[h]
      BY <1>2, <1>5, <2>1 DEF Superseded, TakeTurns, Busy, EventKey
    <2>2. CASE /\ handlers'[h].event = handlers[h].event
               /\ jobs' = CancelRows(handlers[h].event.pr, handlers[h].event.sha)
      <3>1. k[2] = handlers[h].event.sha
        BY <1>0, <2>2, CancelCloses
      <3> QED
        BY <2>2, <3>1 DEF Key
    <2> QED
      BY <1>3, <2>1, <2>2
  <1> QED
    BY <1>4, <1>6, <1>7

(* Initially nobody is busy and there is no row. *)
LEMMA SerialInv_Init == Init => SerialInv
  <1> SUFFICES ASSUME Init PROVE SerialInv
    OBVIOUS
  <1>1. \A k \in Key : jobs[k].status = "absent"
    BY DEF Init, NoJob
  <1>2. \A h \in Handler : handlers[h].pc = "idle"
    BY DEF Init, Idle
  <1> QED
    BY <1>1, <1>2, TypeInv_Init
       DEF SerialInv, NoReconcile, TakeTurns, Superseded, OneOpen, IsOpen, Busy, Open

(* As long as the server handles one event at a time, a pull request never  *)
(* has two open jobs: the cancellation and the insert of enqueue.go are two *)
(* statements, but nothing another actor does in between opens a job.       *)
THEOREM OneJobOpen == Spec => []OneOpenJobPerPR
  <1>1. SerialInv => OneOpenJobPerPR
    <2> SUFFICES ASSUME OneOpen, NEW r \in PR PROVE Cardinality(OpenKeys(r)) <= 1
      BY DEF SerialInv, OneOpenJobPerPR
    <2>1. CASE OpenKeys(r) = {}
      BY <2>1, FS_EmptySet
    <2>2. CASE OpenKeys(r) # {}
      <3>1. PICK k : k \in OpenKeys(r)
        BY <2>2
      <3>2. OpenKeys(r) = {k}
        BY <3>1 DEF OpenKeys, OneOpen, IsOpen
      <3>3. Cardinality({k}) = 1
        BY FS_Singleton
      <3> QED
        BY <3>2, <3>3
    <2> QED
      BY <2>1, <2>2
  <1> QED
    BY <1>1, SerialInv_Init, SerialInv_Next, PTL DEF Spec

-----------------------------------------------------------------------------
(* SuspensionFollowsGitHub.                                                 *)

IsInstallation(e) == e.kind = "installation"

(* No installation event is in flight from place i on.                      *)
NoneFrom(i) == \A n \in i .. Len(inflight) : ~IsInstallation(inflight[n])

Upserting(h) == handlers[h].pc = "upsert"

(* The last word of GitHub about the suspension is the last installation    *)
(* event in flight, ...                                                     *)
LastEventTells ==
    \A i \in 1 .. Len(inflight) :
        IsInstallation(inflight[i]) /\ NoneFrom(i + 1) =>
            (inflight[i].action = "suspend" <=> suspended)

(* ... when none is in flight the one being handled, ...                    *)
HandledEventTells ==
    \A h \in Handler : Upserting(h) /\ NoneFrom(1) =>
        (handlers[h].event.action = "suspend" <=> suspended)

(* ... and when none is being handled the row of installations.             *)
RowTells ==
    NoneFrom(1) /\ (\A h \in Handler : ~Upserting(h)) =>
        (inst = "suspended" <=> suspended)

(* A stub is inserted only while there is still no row.                     *)
StubWhenAbsent == \A h \in Handler : handlers[h].pc = "stub" => inst = "absent"

UpsertsInstallation == \A h \in Handler : Upserting(h) => IsInstallation(handlers[h].event)

LastWord ==
    /\ TakeTurns
    /\ LastEventTells /\ HandledEventTells /\ RowTells
    /\ StubWhenAbsent /\ UpsertsInstallation

SuspensionInv == TypeInv /\ (disorder = {} => LastWord)

(* An installation event says what GitHub has just done; any other event    *)
(* leaves the suspension as it is.                                          *)
Truthful(e) ==
    IF IsInstallation(e) THEN e.action = "suspend" <=> suspended'
                         ELSE suspended' = suspended

(* Every event GitHub emits says what has happened to the installation. *)
LEMMA GitHubIsTruthful ==
    ASSUME TypeInv, GitHubStep
    PROVE  \E e : Emit(e) /\ Truthful(e)
  <1>1. ASSUME NEW r, NEW action, NEW pull, EmitPull(r, action, pull)
        PROVE  \E e : Emit(e) /\ Truthful(e)
    <2> DEFINE e == [kind |-> "pull_request", action |-> action, pr |-> r, sha |-> pull.head,
                     open |-> pull.open, draft |-> pull.draft, assigned |-> pull.assigned]
    <2>1. Emit(e) /\ UNCHANGED suspended
      BY <1>1 DEF EmitPull
    <2>2. ~IsInstallation(e)
      BY DEF IsInstallation
    <2> QED
      BY <2>1, <2>2 DEF Truthful
  <1>2. ASSUME NEW r \in PR, OpenPull(r) PROVE \E e : Emit(e) /\ Truthful(e)
    BY <1>1, <1>2 DEF OpenPull
  <1>3. ASSUME NEW r \in PR, ClosePull(r) \/ ReopenPull(r) PROVE \E e : Emit(e) /\ Truthful(e)
    BY <1>1, <1>3 DEF ClosePull, ReopenPull
  <1>4. ASSUME NEW r \in PR, ConvertToDraft(r) \/ ReadyForReview(r)
        PROVE  \E e : Emit(e) /\ Truthful(e)
    BY <1>1, <1>4 DEF ConvertToDraft, ReadyForReview
  <1>5. ASSUME NEW r \in PR, Assign(r) PROVE \E e : Emit(e) /\ Truthful(e)
    BY <1>1, <1>5 DEF Assign
  <1>6. ASSUME NEW r \in PR, NEW s \in SHA, Push(r, s) PROVE \E e : Emit(e) /\ Truthful(e)
    BY <1>1, <1>6 DEF Push
  <1>7. ASSUME Comment PROVE \E e : Emit(e) /\ Truthful(e)
    BY <1>7 DEF Comment, Truthful, IsInstallation
  <1>8. ASSUME SuspendOrUnsuspend PROVE \E e : Emit(e) /\ Truthful(e)
    <2> DEFINE e == [kind |-> "installation",
                     action |-> IF suspended THEN "unsuspend" ELSE "suspend"]
    <2>1. Emit(e) /\ suspended' = ~suspended
      BY <1>8 DEF SuspendOrUnsuspend
    <2>2. IsInstallation(e) /\ (e.action = "suspend" <=> ~suspended)
      BY DEF IsInstallation
    <2> QED
      BY <2>1, <2>2 DEF Truthful
  <1> QED
    BY <1>2, <1>3, <1>4, <1>5, <1>6, <1>7, <1>8 DEF GitHubStep


(* A new event is the last word if it is about the installation, and leaves *)
(* the last word where it was otherwise.                                    *)
LEMMA EmitKeepsLastWord ==
    ASSUME TypeInv, LastWord, NEW e, Emit(e), Truthful(e)
    PROVE  LastWord'
  <1> DEFINE n == Len(inflight)
  <1>1. /\ Len(inflight') = n + 1 /\ n \in Nat
        /\ \A i \in 1 .. n : inflight'[i] = inflight[i]
        /\ inflight'[n + 1] = e
    <2>1. inflight \in Seq(Event \cup {e})
      BY SeqMonotonic DEF TypeInv, TypeOK
    <2>2. inflight' = Append(inflight, e)
      BY DEF Emit
    <2> QED
      BY <2>1, <2>2, AppendProperties, LenProperties
  <1>2. UNCHANGED <<handlers, inst>>
    BY DEF Emit
  <1> HIDE DEF n
  <1>3. TakeTurns' /\ StubWhenAbsent' /\ UpsertsInstallation'
    BY <1>2 DEF LastWord, TakeTurns, StubWhenAbsent, UpsertsInstallation, Busy, Upserting
  <1>4. CASE IsInstallation(e)
    <2>1. \A i \in 1 .. n + 1 : NoneFrom(i)' => FALSE
      BY <1>1, <1>4 DEF NoneFrom
    <2>2. LastEventTells'
      <3>1. \A i \in 1 .. n + 1 : NoneFrom(i + 1)' => i = n + 1
        BY <2>1, <1>1
      <3> QED
        BY <1>1, <1>4, <3>1 DEF LastEventTells, Truthful
    <2> QED
      BY <1>1, <1>3, <2>1, <2>2 DEF LastWord, HandledEventTells, RowTells
  <1>5. CASE ~IsInstallation(e)
    <2>1. suspended' = suspended
      BY <1>5 DEF Truthful
    <2>2. \A i \in 1 .. n + 1 : NoneFrom(i)' => NoneFrom(i)
      BY <1>1 DEF NoneFrom, n
    <2>3. LastEventTells'
      <3> SUFFICES ASSUME NEW i \in 1 .. n + 1,
                          IsInstallation(inflight'[i]), NoneFrom(i + 1)'
                   PROVE  inflight'[i].action = "suspend" <=> suspended
        BY <1>1, <2>1 DEF LastEventTells
      <3>1. i \in 1 .. n /\ inflight'[i] = inflight[i]
        BY <1>1, <1>5
      <3>2. NoneFrom(i + 1)
        BY <1>1, <2>2, <3>1
      <3> QED
        BY <3>1, <3>2 DEF LastWord, LastEventTells, n
    <2>4. NoneFrom(1)' => NoneFrom(1)
      BY <1>1, <2>2
    <2> QED
      BY <1>2, <1>3, <2>1, <2>3, <2>4
         DEF LastWord, HandledEventTells, RowTells, Upserting
  <1> QED
    BY <1>4, <1>5

(* The oldest event passes from the queue to the handler.                   *)
LEMMA DeliverKeepsLastWord ==
    ASSUME TypeInv, LastWord, NEW h \in Handler, DeliverNext(h), Alone(h)
    PROVE  LastWord'
  <1> DEFINE n == Len(inflight)
             call == [pc |-> FirstStep(Head(inflight)), event |-> Head(inflight)]
  <1>1. /\ n \in Nat /\ n >= 1 /\ Head(inflight) = inflight[1]
        /\ Len(inflight') = n - 1
        /\ \A i \in 1 .. n - 1 : inflight'[i] = inflight[i + 1]
    <2>1. inflight \in Seq(Event) /\ inflight # <<>> /\ inflight' = Tail(inflight)
      BY DEF DeliverNext, TypeInv, TypeOK
    <2>2. Len(inflight) \in Nat \ {0} /\ Head(inflight) = inflight[1]
      BY <2>1, EmptySeq
    <2> QED
      BY <2>1, <2>2, HeadTailProperties
  <1>2. UNCHANGED <<inst, suspended>> /\ handlers' = [handlers EXCEPT ![h] = call]
    BY DEF DeliverNext, Deliver
  <1>3. /\ call.event = inflight[1]
        /\ call.pc = IF IsInstallation(inflight[1]) THEN "upsert" ELSE "ensure"
    BY <1>1 DEF FirstStep, IsInstallation
  <1> HIDE DEF call, n
  <1>4. /\ handlers'[h] = call
        /\ \A g \in Handler : g # h => handlers'[g].pc = "idle"
    BY <1>2 DEF Alone, TypeInv, TypeOK
  <1>5. \A i \in 1 .. n : NoneFrom(i)' <=> NoneFrom(i + 1)
    <2> SUFFICES ASSUME NEW i \in 1 .. n PROVE NoneFrom(i)' <=> NoneFrom(i + 1)
      OBVIOUS
    <2>1. ASSUME NoneFrom(i + 1), NEW m \in i .. n - 1 PROVE ~IsInstallation(inflight'[m])
      BY <1>1, <2>1 DEF NoneFrom, n
    <2>2. ASSUME NoneFrom(i)', NEW m \in i + 1 .. n PROVE ~IsInstallation(inflight[m])
      <3>1. m - 1 \in i .. n - 1 /\ m - 1 \in 1 .. n - 1 /\ (m - 1) + 1 = m
        BY <1>1
      <3>2. inflight'[m - 1] = inflight[m]
        BY <1>1, <3>1
      <3> QED
        BY <1>1, <2>2, <3>1, <3>2 DEF NoneFrom
    <2> QED
      BY <1>1, <2>1, <2>2 DEF NoneFrom, n
  <1>6. TakeTurns' /\ StubWhenAbsent' /\ UpsertsInstallation'
    BY <1>3, <1>4 DEF TakeTurns, StubWhenAbsent, UpsertsInstallation, Busy, Upserting
  <1>7. LastEventTells'
    <2> SUFFICES ASSUME NEW i \in 1 .. n - 1, IsInstallation(inflight'[i]), NoneFrom(i + 1)'
                 PROVE  inflight'[i].action = "suspend" <=> suspended
      BY <1>1, <1>2 DEF LastEventTells
    <2>1. i + 1 \in 1 .. n /\ inflight'[i] = inflight[i + 1]
      BY <1>1
    <2>2. NoneFrom((i + 1) + 1)
      BY <1>5, <2>1
    <2> QED
      BY <2>1, <2>2 DEF LastWord, LastEventTells, n
  <1>8. NoneFrom(1)' <=> NoneFrom(1 + 1)
    BY <1>1, <1>5
  <1>9. HandledEventTells'
    <2>1. Upserting(h)' /\ NoneFrom(1)' =>
             (handlers'[h].event.action = "suspend" <=> suspended)
      BY <1>1, <1>3, <1>4, <1>8 DEF LastWord, LastEventTells, Upserting, n
    <2> QED
      BY <1>2, <1>4, <2>1 DEF HandledEventTells, Upserting
  <1>10. RowTells'
    <2> SUFFICES ASSUME NoneFrom(1)', ~Upserting(h)'
                 PROVE  inst = "suspended" <=> suspended
      BY <1>2 DEF RowTells
    <2>1. NoneFrom(1)
      BY <1>1, <1>3, <1>4, <1>8 DEF NoneFrom, Upserting
    <2>2. \A g \in Handler : ~Upserting(g)
      BY DEF Upserting, Alone, DeliverNext, Deliver
    <2> QED
      BY <2>1, <2>2 DEF LastWord, RowTells
  <1> QED
    BY <1>6, <1>7, <1>9, <1>10 DEF LastWord

(* The handler of an installation event writes what the event said; the     *)
(* others find the row as it is, or insert an active one where there is     *)
(* none.                                                                    *)
LEMMA HandlerKeepsLastWord ==
    ASSUME TypeInv, LastWord, NEW h \in Handler, HandlerStep(h), disorder' = {}
    PROVE  LastWord'
  <1>1. ~StatementFails(h)
    BY DEF StatementFails, Disturb
  <1>2. /\ Busy(h)
        /\ \A g \in Handler : g # h => handlers'[g] = handlers[g] /\ ~Busy(g)
    BY OwnStep DEF LastWord, TakeTurns
  <1>3. UNCHANGED <<suspended, inflight>>
    BY DEF HandlerStep, UpsertInstallation, EnsureInstallation, CreateStub,
           CancelOpenJobsForPR, CancelJobsForPR, CreateJob
  <1>4. /\ handlers'[h].pc # "upsert"
        /\ handlers'[h].pc = "stub" => inst' = "absent"
        /\ Upserting(h) => inst' = InstallationRow(handlers[h].event.action)
        /\ ~Upserting(h) => (inst' = "suspended" <=> inst = "suspended")
    <2> USE DEF TypeInv, TypeOK
    <2>1. Answer(h) => handlers'[h].pc = "idle"
      BY DEF Answer, Idle
    <2>2. \A pc : Goto(h, pc) => handlers'[h].pc = pc
      BY DEF Goto
    <2>3. \A row : Route(h, row) => handlers'[h].pc \in {"idle", "cancel_open", "supersede"}
      BY <2>1, <2>2 DEF Route
    <2>4. CASE UpsertInstallation(h)
      BY <1>1, <2>1, <2>4 DEF UpsertInstallation, Succeeds, Upserting
    <2>5. CASE EnsureInstallation(h)
      BY <1>1, <2>2, <2>3, <2>5 DEF EnsureInstallation, Succeeds, Upserting
    <2>6. CASE CreateStub(h)
      <3>1. inst = "absent" /\ inst' = "active"
        BY <1>1, <2>6 DEF CreateStub, LastWord, StubWhenAbsent
      <3> QED
        BY <1>1, <2>3, <2>6, <3>1 DEF CreateStub, Succeeds, Upserting
    <2>7. CASE CancelOpenJobsForPR(h)
      BY <1>1, <2>1, <2>7 DEF CancelOpenJobsForPR, Succeeds, Upserting
    <2>8. CASE CancelJobsForPR(h)
      BY <1>1, <2>2, <2>8 DEF CancelJobsForPR, Succeeds, Upserting
    <2>9. CASE CreateJob(h)
      BY <1>1, <2>1, <2>9 DEF CreateJob, Succeeds, Upserting
    <2> QED
      BY <2>4, <2>5, <2>6, <2>7, <2>8, <2>9 DEF HandlerStep
  <1>5. \A g \in Handler : ~Upserting(g)' /\ (Upserting(g) => g = h)
    BY <1>2, <1>4 DEF Upserting, Busy
  <1>6. TakeTurns' /\ StubWhenAbsent' /\ UpsertsInstallation' /\ HandledEventTells'
    <2>1. TakeTurns'
      BY <1>2 DEF TakeTurns, Busy
    <2>2. StubWhenAbsent'
      BY <1>2, <1>4 DEF StubWhenAbsent, Busy
    <2> QED
      BY <1>5, <2>1, <2>2 DEF UpsertsInstallation, HandledEventTells
  <1>7. LastEventTells' /\ (NoneFrom(1)' <=> NoneFrom(1))
    BY <1>3 DEF LastWord, LastEventTells, NoneFrom
  <1>8. RowTells'
    <2> SUFFICES ASSUME NoneFrom(1) PROVE inst' = "suspended" <=> suspended
      BY <1>3, <1>7 DEF RowTells
    <2>1. CASE Upserting(h)
      <3>1. handlers[h].event.action = "suspend" <=> suspended
        BY <2>1 DEF LastWord, HandledEventTells
      <3>2. handlers[h].event.action \in {"suspend", "unsuspend"}
        <4>1. handlers[h].event \in Event /\ IsInstallation(handlers[h].event)
          BY <2>1 DEF TypeInv, HandlersKnowEvent, LastWord, UpsertsInstallation, Upserting
        <4> QED
          BY <4>1 DEF Event, PullEvent, OtherEvent, IsInstallation
      <3> QED
        BY <1>4, <2>1, <3>1, <3>2 DEF InstallationRow
    <2>2. CASE ~Upserting(h)
      BY <1>4, <1>5, <2>2 DEF LastWord, RowTells
    <2> QED
      BY <2>1, <2>2
  <1> QED
    BY <1>6, <1>7, <1>8 DEF LastWord

(* Undisturbed, every step keeps the last word. *)
LEMMA SuspensionInv_Next == SuspensionInv /\ [Next]_vars => SuspensionInv'
  <1> SUFFICES ASSUME SuspensionInv, [Next]_vars, disorder' = {} PROVE LastWord'
    BY TypeInv_Next DEF SuspensionInv
  <1>1. TypeInv /\ LastWord
    BY DisorderGrows DEF SuspensionInv
  <1>2. GitHubStep => LastWord'
    BY <1>1, GitHubIsTruthful, EmitKeepsLastWord
  <1>3. \A h \in Handler : HandlerStep(h) => LastWord'
    BY <1>1, HandlerKeepsLastWord
  <1>4. \A kind : ~Disturb(kind)
    BY DEF Disturb
  <1>5. \A h \in Handler : DeliverNext(h) => LastWord'
    BY <1>1, <1>4, DeliverKeepsLastWord DEF DeliverNext
  <1>6. ~LoseDelivery /\ \A h \in Handler : /\ ~DeliverTwice(h)
                                            /\ \A i \in 2 .. Len(inflight) : ~DeliverLate(h, i)
    BY <1>4 DEF LoseDelivery, DeliverTwice, DeliverLate
  <1>7. UNCHANGED <<inst, suspended, inflight, handlers>> => LastWord'
    BY <1>1 DEF LastWord, TakeTurns, LastEventTells, HandledEventTells, RowTells,
                StubWhenAbsent, UpsertsInstallation, NoneFrom, Busy, Upserting
  <1>8. \A k \in Key : WorkerStep(k) => LastWord'
    BY <1>7 DEF WorkerStep
  <1>9. UNCHANGED vars => LastWord'
    BY <1>7 DEF vars
  <1> QED
    BY <1>2, <1>3, <1>5, <1>6, <1>8, <1>9 DEF Next

(* Initially the installation is not suspended, and has no row. *)
LEMMA SuspensionInv_Init == Init => SuspensionInv
  <1> SUFFICES ASSUME Init PROVE LastWord
    BY TypeInv_Init DEF SuspensionInv
  <1>1. \A h \in Handler : handlers[h].pc = "idle"
    BY DEF Init, Idle
  <1>2. Len(inflight) = 0 /\ inst = "absent" /\ suspended = FALSE
    BY EmptySeq DEF Init
  <1> QED
    BY <1>1, <1>2 DEF LastWord, TakeTurns, LastEventTells, HandledEventTells, RowTells,
                      StubWhenAbsent, UpsertsInstallation, Busy, Upserting

(* Once every event is handled, undisturbed, the installation row is        *)
(* suspended exactly when GitHub has suspended it: whatever handlers read   *)
(* between a suspension and its delivery, and whichever of them inserts the *)
(* stub, the row ends as the last installation event said.                  *)
THEOREM SuspensionIsFollowed == Spec => []SuspensionFollowsGitHub
  <1>1. SuspensionInv => SuspensionFollowsGitHub
    <2> SUFFICES ASSUME LastWord, Settled PROVE inst = "suspended" <=> suspended
      BY DEF SuspensionInv, SuspensionFollowsGitHub, Settled
    <2>1. Len(inflight) = 0
      BY EmptySeq DEF Settled
    <2>2. NoneFrom(1)
      BY <2>1 DEF NoneFrom
    <2> QED
      BY <2>2 DEF Settled, LastWord, RowTells, Upserting
  <1> QED
    BY <1>1, SuspensionInv_Init, SuspensionInv_Next, PTL DEF Spec

-----------------------------------------------------------------------------
(* QueueFollowsPull.                                                        *)

(* Undisturbed, the server is a line: the event being handled, if any, then *)
(* those in flight ...                                                      *)
SomeoneBusy == \E h \in Handler : Busy(h)

Turn == CHOOSE h \in Handler : Busy(h)

line == IF SomeoneBusy THEN <<handlers[Turn].event>> \o inflight ELSE inflight

(* ... and how far the handling of its first event is.                      *)
stage == IF SomeoneBusy THEN handlers[Turn].pc ELSE "idle"

About(e, r) == e.kind = "pull_request" /\ e.pr = r

(* The places of the line where an event about r waits or is handled.       *)
Waiting(r) == {i \in 1 .. Len(line) : About(line[i], r)}

ClosedOrDraft(pull) == ~pull.open \/ pull.draft

(* The head was not replaced, closed or drafted before.                     *)
Fresh(r) == pulls[r].head \in SHA \ pulls[r].past

HeadRow(r) == jobs[<<r, pulls[r].head>>]

(* A pull request without a head has not been opened; one that is closed    *)
(* has its head among the past ones.                                        *)
PullHistory ==
    \A r \in PR : /\ pulls[r].head = NULL => pulls[r] = NoPull
                  /\ ~pulls[r].open => pulls[r].head \in pulls[r].past \cup {NULL}

(* Events and rows know only commits that were or are the head.             *)
KnownCommits ==
    \A r \in PR :
        /\ \A i \in Waiting(r) : line[i].sha \in pulls[r].past \cup {pulls[r].head}
        /\ \A s \in SHA : jobs[<<r, s>>].status # "absent" =>
              s \in pulls[r].past \cup {pulls[r].head}

ReadyIsNoDraft ==
    \A r \in PR : \A i \in Waiting(r) :
        line[i].action = "ready_for_review" => ~line[i].draft

(* A handler past Route does what the event asks for.                       *)
StageFits ==
    /\ stage # "idle" => Len(line) >= 1
    /\ stage = "upsert" => IsInstallation(line[1])
    /\ stage \in {"ensure", "stub"} => ~IsInstallation(line[1])
    /\ stage = "cancel_open" => EndsReview(line[1])
    /\ stage \in {"supersede", "create"} =>
          ~EndsReview(line[1]) /\ WantsReview(line[1], "active")

(* No event about r from place i on leads to an insert.                     *)
DeadFrom(i, r) == \A k \in Waiting(r) : k >= i => ClosedOrDraft(line[k])

(* The cancellation of r's open jobs is still to come, and nothing after it *)
(* opens one; or they are cancelled, and nothing opens one.                 *)
Quiet(r) ==
    \/ \E i \in Waiting(r) : EndsReview(line[i]) /\ DeadFrom(i + 1, r)
    \/ OpenKeys(r) = {} /\ DeadFrom(1, r)

QuietWhenClosed == \A r \in PR : ClosedOrDraft(pulls[r]) => Quiet(r)

(* Of a fresh head: no event ends its review, the events about it come last,*)
(* while older ones wait it has no row, its row is not cancelled, and once  *)
(* it has a row nothing else is open.                                       *)
FreshHead ==
    \A r \in PR : Fresh(r) =>
        /\ \A i \in Waiting(r) : line[i].sha = pulls[r].head => ~EndsReview(line[i])
        /\ \A i, k \in Waiting(r) :
              i < k /\ line[i].sha = pulls[r].head => line[k].sha = pulls[r].head
        /\ \A i \in Waiting(r) :
              line[i].sha # pulls[r].head => HeadRow(r).status = "absent"
        /\ HeadRow(r).status # "cancelled"
        /\ HeadRow(r).status # "absent" => OpenKeys(r) \subseteq {<<r, pulls[r].head>>}

(* The event at place i will find the installation not suspended.           *)
Clear(i) ==
    /\ \A k \in 1 .. i - 1 :
          /\ IsInstallation(line[k])
          /\ \A m \in k + 1 .. i - 1 : ~IsInstallation(line[m])
          => line[k].action = "unsuspend"
    /\ (\A k \in 1 .. i - 1 : ~IsInstallation(line[k])) => inst # "suspended"

(* An event in line will have the head of r enqueued.                       *)
Coming(r) ==
    \E i \in Waiting(r) :
        /\ line[i].sha = pulls[r].head
        /\ ~EndsReview(line[i]) /\ WantsReview(line[i], "active")
        /\ Clear(i) \/ (i = 1 /\ stage \in {"supersede", "create"})

TriggeredIsComing ==
    \A r \in PR : Fresh(r) /\ pulls[r].triggered => HeadRow(r).status # "absent" \/ Coming(r)

LineInv ==
    /\ PullHistory /\ KnownCommits /\ ReadyIsNoDraft /\ StageFits
    /\ QuietWhenClosed /\ FreshHead /\ TriggeredIsComing

(* What the line is, whoever is busy.                                       *)
LineOK ==
    /\ line \in Seq(Event)
    /\ \A h \in Handler : Busy(h) =>
          /\ stage = handlers[h].pc /\ line[1] = handlers[h].event
          /\ Len(line) = Len(inflight) + 1
          /\ \A i \in 1 .. Len(inflight) : line[i + 1] = inflight[i]
    /\ (\A h \in Handler : ~Busy(h)) => line = inflight /\ stage = "idle"

(* The handlers take turns, so that the line has one first event.           *)
LEMMA LineIs == TypeInv /\ TakeTurns => LineOK
  <1> SUFFICES ASSUME TypeInv, TakeTurns PROVE LineOK
    OBVIOUS
  <1>0. inflight \in Seq(Event)
    BY DEF TypeInv, TypeOK
  <1>1. CASE \A h \in Handler : ~Busy(h)
    BY <1>0, <1>1 DEF LineOK, line, stage, SomeoneBusy
  <1>2. ASSUME NEW h \in Handler, Busy(h) PROVE LineOK
    <2>1. SomeoneBusy /\ Turn = h
      BY <1>2 DEF SomeoneBusy, Turn, TakeTurns
    <2>2. handlers[h].event \in Event
      BY <1>2 DEF TypeInv, HandlersKnowEvent, Busy
    <2> DEFINE s == <<handlers[h].event>>
    <2>3. s \in Seq(Event) /\ Len(s) = 1 /\ s[1] = handlers[h].event
      BY <2>2
    <2>4. line = s \o inflight /\ stage = handlers[h].pc
      BY <2>1 DEF line, stage
    <2> HIDE DEF s
    <2>5. /\ s \o inflight \in Seq(Event)
          /\ Len(s \o inflight) = Len(s) + Len(inflight)
          /\ \A i \in 1 .. Len(s) + Len(inflight) :
                (s \o inflight)[i] = IF i <= Len(s) THEN s[i] ELSE inflight[i - Len(s)]
      BY <1>0, <2>3, ConcatProperties
    <2>6. Len(inflight) \in Nat
      BY <1>0, LenProperties
    <2>7. Len(line) = Len(inflight) + 1 /\ line[1] = handlers[h].event
      BY <2>3, <2>4, <2>5, <2>6
    <2>8. ASSUME NEW i \in 1 .. Len(inflight) PROVE line[i + 1] = inflight[i]
      BY <2>3, <2>4, <2>5, <2>6
    <2>9. \A g \in Handler : Busy(g) => g = h
      BY <1>2 DEF TakeTurns
    <2> QED
      BY <1>2, <2>4, <2>5, <2>7, <2>8, <2>9 DEF LineOK
  <1> QED
    BY <1>1, <1>2

(* The same of the next state.                                              *)
LEMMA LineIsNext == TypeInv' /\ TakeTurns' => LineOK'
  BY LineIs, PTL

(* The line loses its first d events.                                       *)
Shifts(d) ==
    /\ Len(line') = Len(line) - d
    /\ \A i \in 1 .. Len(line) - d : line'[i] = line[i + d]

(* The line is longer by e.                                                 *)
Appends(e) ==
    /\ Len(line') = Len(line) + 1
    /\ line'[Len(line) + 1] = e
    /\ \A i \in 1 .. Len(line) : line'[i] = line[i]

(* An event emitted goes to the end of the line.                            *)
LEMMA EmitAppends ==
    ASSUME TypeInv, TakeTurns, TypeInv', NEW e, Emit(e)
    PROVE  Appends(e) /\ stage' = stage
  <1> DEFINE n == Len(inflight)
  <1>0. n \in Nat /\ inflight \in Seq(Event)
    BY LenProperties DEF TypeInv, TypeOK
  <1>1. /\ Len(inflight') = n + 1
        /\ \A i \in 1 .. n : inflight'[i] = inflight[i]
        /\ inflight'[n + 1] = e
    <2>1. inflight \in Seq(Event \cup {e})
      BY SeqMonotonic DEF TypeInv, TypeOK
    <2>2. inflight' = Append(inflight, e)
      BY DEF Emit
    <2> QED
      BY <2>1, <2>2, AppendProperties, LenProperties
  <1>2. handlers' = handlers /\ \A h \in Handler : Busy(h)' <=> Busy(h)
    BY DEF Emit, Busy
  <1>3. TakeTurns'
    BY <1>2 DEF TakeTurns
  <1>4. LineOK /\ LineOK'
    BY <1>3, LineIs, LineIsNext
  <1> HIDE DEF n
  <1>5. CASE \A h \in Handler : ~Busy(h)
    BY <1>1, <1>2, <1>4, <1>5 DEF LineOK, Appends, n
  <1>6. ASSUME NEW h \in Handler, Busy(h) PROVE Appends(e) /\ stage' = stage
    <2>1. /\ Len(line) = n + 1 /\ Len(line') = n + 2 /\ stage' = stage
          /\ line'[1] = line[1]
      BY <1>0, <1>1, <1>2, <1>4, <1>6 DEF LineOK, n
    <2>2. \A i \in 1 .. n : line[i + 1] = inflight[i]
      BY <1>4, <1>6 DEF LineOK, n
    <2>3. \A i \in 1 .. n + 1 : line'[i + 1] = inflight'[i]
      BY <1>1, <1>2, <1>4, <1>6 DEF LineOK
    <2>4. line'[n + 2] = e
      <3>1. n + 1 \in 1 .. n + 1 /\ (n + 1) + 1 = n + 2
        BY <1>0
      <3> QED
        BY <1>1, <2>3, <3>1
    <2>5. ASSUME NEW i \in 1 .. n + 1 PROVE line'[i] = line[i]
      <3>1. CASE i = 1
        BY <2>1, <3>1
      <3>2. CASE i # 1
        <4>1. i - 1 \in 1 .. n /\ i - 1 \in 1 .. n + 1 /\ (i - 1) + 1 = i
          BY <1>0, <3>2
        <4> QED
          BY <1>1, <2>2, <2>3, <4>1
      <3> QED
        BY <3>1, <3>2
    <2> QED
      BY <1>0, <2>1, <2>4, <2>5 DEF Appends
  <1> QED
    BY <1>5, <1>6

(* A delivery moves no event: the first in line is being handled now.       *)
LEMMA DeliveryShifts ==
    ASSUME TypeInv, TakeTurns, TypeInv', TakeTurns',
           NEW h \in Handler, DeliverNext(h), disorder' = {}
    PROVE  /\ Shifts(0) /\ Len(line) >= 1
           /\ stage = "idle" /\ stage' = FirstStep(line[1])
           /\ UNCHANGED <<jobs, inst, pulls, suspended>>
  <1> DEFINE n == Len(inflight)
             call == [pc |-> FirstStep(Head(inflight)), event |-> Head(inflight)]
  <1>1. /\ n \in Nat /\ n >= 1 /\ Head(inflight) = inflight[1]
        /\ Len(inflight') = n - 1
        /\ \A i \in 1 .. n - 1 : inflight'[i] = inflight[i + 1]
    <2>1. inflight \in Seq(Event) /\ inflight # <<>> /\ inflight' = Tail(inflight)
      BY DEF DeliverNext, TypeInv, TypeOK
    <2>2. Len(inflight) \in Nat \ {0} /\ Head(inflight) = inflight[1]
      BY <2>1, EmptySeq
    <2> QED
      BY <2>1, <2>2, HeadTailProperties
  <1>2. /\ UNCHANGED <<jobs, inst, pulls, suspended>> /\ handlers[h].pc = "idle"
        /\ handlers' = [handlers EXCEPT ![h] = call]
    BY DEF DeliverNext, Deliver
  <1>3. call.pc = FirstStep(inflight[1]) /\ call.event = inflight[1] /\ call.pc # "idle"
    BY <1>1 DEF FirstStep
  <1> HIDE DEF call, n
  <1>4. Alone(h)
    BY DEF DeliverNext, Disturb
  <1>5. line = inflight /\ stage = "idle"
    BY <1>2, <1>4, LineIs DEF LineOK, Alone, Busy
  <1>6. /\ stage' = call.pc /\ line'[1] = inflight[1] /\ Len(line') = n
        /\ \A i \in 1 .. n - 1 : line'[i + 1] = inflight[i + 1]
    <2>1. handlers'[h] = call /\ Busy(h)'
      BY <1>2, <1>3 DEF Busy, TypeInv, TypeOK
    <2>2. /\ stage' = handlers'[h].pc /\ line'[1] = handlers'[h].event
          /\ Len(line') = Len(inflight') + 1
          /\ \A i \in 1 .. Len(inflight') : line'[i + 1] = inflight'[i]
      BY <2>1, LineIsNext DEF LineOK
    <2>3. \A i \in 1 .. n - 1 : line'[i + 1] = inflight[i + 1]
      BY <1>1, <2>2
    <2> QED
      BY <1>1, <1>3, <2>1, <2>2, <2>3
  <1>7. ASSUME NEW i \in 1 .. n PROVE line'[i] = inflight[i]
    <2>1. CASE i = 1
      BY <1>6, <2>1
    <2>2. CASE i # 1
      <3>1. i - 1 \in 1 .. n - 1 /\ (i - 1) + 1 = i
        BY <1>1, <2>2
      <3> QED
        BY <1>6, <3>1
    <2> QED
      BY <2>1, <2>2
  <1> QED
    BY <1>1, <1>2, <1>3, <1>5, <1>6, <1>7 DEF Shifts, n

(* A handler's step leaves the line alone, or answers the first event.      *)
LEMMA AnswerShifts ==
    ASSUME TypeInv, TakeTurns, TypeInv', TakeTurns',
           NEW h \in Handler, HandlerStep(h), UNCHANGED inflight
    PROVE  /\ Len(line) >= 1 /\ line[1] = handlers[h].event /\ stage = handlers[h].pc
           /\ stage' = handlers'[h].pc
           /\ handlers'[h].pc = "idle" => Shifts(1)
           /\ handlers'[h].pc # "idle" /\ handlers'[h].event = handlers[h].event => Shifts(0)
  <1> DEFINE n == Len(inflight)
  <1>0. n \in Nat
    BY LenProperties DEF TypeInv, TypeOK
  <1>1. /\ Busy(h)
        /\ \A g \in Handler : g # h => handlers'[g] = handlers[g] /\ ~Busy(g)
    BY OwnStep DEF TakeTurns
  <1>2. /\ stage = handlers[h].pc /\ line[1] = handlers[h].event
        /\ Len(line) = n + 1 /\ \A i \in 1 .. n : line[i + 1] = inflight[i]
    BY <1>1, LineIs DEF LineOK
  <1> HIDE DEF n
  <1>3. CASE handlers'[h].pc = "idle"
    <2>1. \A g \in Handler : ~Busy(g)'
      BY <1>1, <1>3 DEF Busy
    <2>2. line' = inflight' /\ stage' = "idle"
      BY <2>1, LineIsNext DEF LineOK
    <2> QED
      BY <1>0, <1>2, <1>3, <2>2 DEF Shifts, n
  <1>4. CASE handlers'[h].pc # "idle"
    <2>1. /\ stage' = handlers'[h].pc /\ line'[1] = handlers'[h].event
          /\ Len(line') = n + 1 /\ \A i \in 1 .. n : line'[i + 1] = inflight[i]
      BY <1>4, LineIsNext DEF LineOK, Busy, n
    <2>2. ASSUME handlers'[h].event = handlers[h].event, NEW i \in 1 .. n + 1
          PROVE  line'[i] = line[i]
      <3>1. CASE i = 1
        BY <1>2, <2>1, <2>2, <3>1
      <3>2. CASE i # 1
        <4>1. i - 1 \in 1 .. n /\ (i - 1) + 1 = i
          BY <1>0, <3>2
        <4> QED
          BY <1>2, <2>1, <4>1
      <3> QED
        BY <3>1, <3>2
    <2> QED
      BY <1>0, <1>2, <1>4, <2>1, <2>2 DEF Shifts
  <1> QED
    BY <1>3, <1>4

(* What the handler of the first event in line does next, undisturbed.      *)
Writes ==
    /\ stage = "upsert" /\ stage' = "idle" /\ Shifts(1)
    /\ inst' = InstallationRow(line[1].action) /\ jobs' = jobs

Misses ==
    /\ stage = "ensure" /\ stage' = "stub" /\ Shifts(0)
    /\ inst' = inst /\ jobs' = jobs

Routes ==
    /\ stage \in {"ensure", "stub"} /\ jobs' = jobs
    /\ inst' = "suspended" <=> inst = "suspended"
    /\ \/ EndsReview(line[1]) /\ stage' = "cancel_open" /\ Shifts(0)
       \/ ~EndsReview(line[1]) /\ WantsReview(line[1], inst') /\ stage' = "supersede" /\ Shifts(0)
       \/ ~EndsReview(line[1]) /\ ~WantsReview(line[1], inst') /\ stage' = "idle" /\ Shifts(1)

Cancels ==
    /\ stage = "cancel_open" /\ stage' = "idle" /\ Shifts(1)
    /\ inst' = inst /\ jobs' = CancelRows(line[1].pr, NULL)

Supersedes ==
    /\ stage = "supersede" /\ stage' = "create" /\ Shifts(0)
    /\ inst' = inst /\ jobs' = CancelRows(line[1].pr, line[1].sha)

Creates ==
    LET k == <<line[1].pr, line[1].sha>> IN
    /\ stage = "create" /\ stage' = "idle" /\ Shifts(1) /\ inst' = inst
    /\ jobs' = IF jobs[k].status = "absent" THEN [jobs EXCEPT ![k] = NewJob] ELSE jobs

Serves == Writes \/ Misses \/ Routes \/ Cancels \/ Supersedes \/ Creates

(* Every step of a handler is one of these.                                 *)
LEMMA HandlerServes ==
    ASSUME TypeInv, LastWord, TypeInv', TakeTurns',
           NEW h \in Handler, HandlerStep(h), disorder' = {}
    PROVE  Serves /\ Len(line) >= 1 /\ UNCHANGED <<pulls, suspended>>
  <1>1. ~StatementFails(h)
    BY DEF StatementFails, Disturb
  <1>2. UNCHANGED <<pulls, suspended, inflight>>
    BY DEF HandlerStep, UpsertInstallation, EnsureInstallation, CreateStub,
           CancelOpenJobsForPR, CancelJobsForPR, CreateJob
  <1>3. /\ Len(line) >= 1 /\ line[1] = handlers[h].event /\ stage = handlers[h].pc
        /\ stage' = handlers'[h].pc
        /\ handlers'[h].pc = "idle" => Shifts(1)
        /\ handlers'[h].pc # "idle" /\ handlers'[h].event = handlers[h].event => Shifts(0)
    BY <1>2, AnswerShifts DEF LastWord
  <1>4. Answer(h) => stage' = "idle" /\ Shifts(1)
    BY <1>3 DEF Answer, Idle, TypeInv, TypeOK
  <1>5. \A pc : pc # "idle" /\ Goto(h, pc) => stage' = pc /\ Shifts(0)
    <2>1. \A pc : Goto(h, pc) => handlers'[h].pc = pc /\ handlers'[h].event = handlers[h].event
      BY DEF Goto, TypeInv, TypeOK
    <2> QED
      BY <1>3, <2>1
  <1>6. \A row : Route(h, row) =>
           \/ EndsReview(line[1]) /\ stage' = "cancel_open" /\ Shifts(0)
           \/ ~EndsReview(line[1]) /\ WantsReview(line[1], row) /\ stage' = "supersede" /\ Shifts(0)
           \/ ~EndsReview(line[1]) /\ ~WantsReview(line[1], row) /\ stage' = "idle" /\ Shifts(1)
    <2> HIDE DEF Shifts
    <2> QED
      BY <1>3, <1>4, <1>5 DEF Route
  <1>7. CASE UpsertInstallation(h)
    BY <1>1, <1>3, <1>4, <1>7 DEF UpsertInstallation, Succeeds, Serves, Writes
  <1>8. CASE EnsureInstallation(h)
    BY <1>1, <1>3, <1>5, <1>6, <1>8 DEF EnsureInstallation, Succeeds, Serves, Misses, Routes
  <1>9. CASE CreateStub(h)
    <2>1. inst = "absent"
      BY <1>9 DEF LastWord, StubWhenAbsent, CreateStub
    <2> QED
      BY <1>1, <1>3, <1>6, <1>9, <2>1 DEF CreateStub, Succeeds, Serves, Routes
  <1>10. CASE CancelOpenJobsForPR(h)
    BY <1>1, <1>3, <1>4, <1>10 DEF CancelOpenJobsForPR, Succeeds, Serves, Cancels
  <1>11. CASE CancelJobsForPR(h)
    BY <1>1, <1>3, <1>5, <1>11 DEF CancelJobsForPR, Succeeds, Serves, Supersedes
  <1>12. CASE CreateJob(h)
    BY <1>1, <1>3, <1>4, <1>12 DEF CreateJob, Succeeds, Serves, Creates
  <1>13. Serves
    BY <1>7, <1>8, <1>9, <1>10, <1>11, <1>12 DEF HandlerStep
  <1> QED
    BY <1>2, <1>3, <1>13

(* The event asks for a review, and the installation is not suspended.      *)
Asks(e) == WantsReview(e, "active") /\ ~suspended

(* What GitHub may change a pull request into, saying `action`.             *)
Lawful(r, action, pull) ==
    LET old == pulls[r] IN
    /\ action \in PullActions /\ pull \in Pull /\ pull.head \in SHA
    /\ ~pull.open => pull.head \in pull.past
    /\ action = "ready_for_review" => ~pull.draft
    /\ ClosedOrDraft(pull) => \/ ClosedOrDraft(old) \/ ~pull.open
                              \/ action = "converted_to_draft"
    /\ old.past \cup {old.head} \subseteq pull.past \cup {pull.head, NULL}
    /\ pull.head \notin pull.past =>
          /\ action # "converted_to_draft"
          /\ \/ pull.head \notin old.past \cup {old.head} /\ ~pull.triggered
             \/ /\ Fresh(r) /\ pull.head = old.head
                /\ pull.triggered => old.triggered

(* e tells of the pull request r as it is now, and how it changed.          *)
Reports(e, r) ==
    LET old == pulls[r]  new == pulls'[r] IN
    /\ About(e, r) /\ e \in Event
    /\ e.sha = new.head
    /\ e.action = "ready_for_review" => ~e.draft
    /\ ClosedOrDraft(new) => ClosedOrDraft(e) /\ (ClosedOrDraft(old) \/ EndsReview(e))
    /\ old.past \cup {old.head} \subseteq new.past \cup {new.head, NULL}
    /\ Fresh(r)' =>
          /\ ~EndsReview(e)
          /\ \/ new.head \notin old.past \cup {old.head} /\ (new.triggered => Asks(e))
             \/ Fresh(r) /\ new.head = old.head /\ (new.triggered => old.triggered \/ Asks(e))

(* GitHub emits e, which tells of the one pull request that changed, if any *)
(* did.                                                                     *)
Tells(e) ==
    /\ Emit(e) /\ e \in Event /\ Truthful(e)
    /\ \A r \in PR : Reports(e, r) \/ (~About(e, r) /\ pulls'[r] = pulls[r])

(* A lawful change is reported.                                             *)
LEMMA EmitPullReports ==
    ASSUME TypeInv, PullHistory, NEW r \in PR, NEW action, NEW pull,
           Lawful(r, action, pull), EmitPull(r, action, pull)
    PROVE  PullHistory' /\ \E e : Tells(e)
  <1> DEFINE e == [kind |-> "pull_request", action |-> action, pr |-> r, sha |-> pull.head,
                   open |-> pull.open, draft |-> pull.draft, assigned |-> pull.assigned]
             t == pull.triggered \/ /\ action \in Allowlist
                                    /\ pull.open /\ ~pull.draft
                                    /\ pull.assigned /\ ~suspended
             new == [pull EXCEPT !.triggered = t]
  <1>1. Emit(e) /\ pulls' = [pulls EXCEPT ![r] = new] /\ UNCHANGED suspended
    BY DEF EmitPull
  <1>2. pull \in Pull /\ action \in PullActions /\ pull.head \in SHA
    BY DEF Lawful
  <1>3. /\ new.head = pull.head /\ new.open = pull.open /\ new.draft = pull.draft
        /\ new.past = pull.past /\ new.assigned = pull.assigned
    BY <1>2 DEF Pull
  <1>4. new.triggered => pull.triggered \/ t
    BY <1>2 DEF Pull
  <1>5. e \in Event /\ About(e, r) /\ ~IsInstallation(e) /\ \A q \in PR : About(e, q) => q = r
    BY <1>2 DEF Event, PullEvent, Pull, About, IsInstallation
  <1>6. /\ e.kind = "pull_request" /\ e.sha = pull.head /\ e.action = action
        /\ e.open = pull.open /\ e.draft = pull.draft /\ e.assigned = pull.assigned
    OBVIOUS
  <1>7. t => pull.triggered \/ (Asks(e) /\ ~ClosedOrDraft(pull))
    BY <1>6 DEF Asks, WantsReview, ClosedOrDraft
  <1> HIDE DEF e, t, new
  <1>8. pulls'[r] = new /\ \A q \in PR : q # r => pulls'[q] = pulls[q]
    BY <1>1 DEF TypeInv, TypeOK
  <1>9. PullHistory'
    <2>1. pulls'[r].head # NULL /\ (~pulls'[r].open => pulls'[r].head \in pulls'[r].past)
      BY <1>2, <1>3, <1>8, NullAssumption DEF Lawful
    <2> QED
      BY <1>8, <2>1 DEF PullHistory
  <1>10. Reports(e, r)
    <2>1. ClosedOrDraft(new) => ClosedOrDraft(e) /\ (ClosedOrDraft(pulls[r]) \/ EndsReview(e))
      BY <1>3, <1>6 DEF ClosedOrDraft, Lawful, EndsReview
    <2>2. Fresh(r)' => pull.head \notin pull.past
      BY <1>3, <1>8 DEF Fresh
    <2>3. Fresh(r)' => ~EndsReview(e)
      BY <1>6, <2>2 DEF Lawful, EndsReview
    <2>4. new.triggered => pull.triggered \/ Asks(e)
      BY <1>4, <1>7
    <2>5. Fresh(r)' =>
             \/ new.head \notin pulls[r].past \cup {pulls[r].head} /\ (new.triggered => Asks(e))
             \/ /\ Fresh(r) /\ new.head = pulls[r].head
                /\ new.triggered => pulls[r].triggered \/ Asks(e)
      BY <1>3, <2>2, <2>4 DEF Lawful
    <2>6. /\ e.sha = new.head /\ (e.action = "ready_for_review" => ~e.draft)
          /\ pulls[r].past \cup {pulls[r].head} \subseteq new.past \cup {new.head, NULL}
      BY <1>3, <1>6 DEF Lawful
    <2> QED
      BY <1>5, <1>8, <2>1, <2>3, <2>5, <2>6 DEF Reports
  <1>11. Tells(e)
    BY <1>1, <1>5, <1>8, <1>10 DEF Tells, Truthful
  <1> QED
    BY <1>9, <1>11

(* Every step of GitHub changes at most one pull request, lawfully.         *)
LEMMA GitHubReports ==
    ASSUME TypeInv, PullHistory, GitHubStep
    PROVE  PullHistory' /\ \E e : Tells(e)
  <1> DEFINE Goal == PullHistory' /\ \E e : Tells(e)
  <1>0. \A r \in PR : /\ pulls[r] \in Pull /\ (pulls[r].open => pulls[r].head \in SHA)
                      /\ pulls[r].head = NULL => pulls[r] = NoPull
                      /\ ~pulls[r].open => pulls[r].head \in pulls[r].past \cup {NULL}
    BY DEF TypeInv, TypeOK, OpenHasHead, PullHistory
  <1>1. \A r \in PR : \A action, pull :
           Lawful(r, action, pull) /\ EmitPull(r, action, pull) => Goal
    BY EmitPullReports
  <1> HIDE DEF Goal
  <1> USE NullAssumption
  <1>2. ASSUME NEW r \in PR, OpenPull(r) PROVE Goal
    <2>1. PICK s \in SHA, draft, assigned \in BOOLEAN :
             EmitPull(r, "opened", [NoPull EXCEPT !.head = s, !.open = TRUE,
                                                  !.draft = draft, !.assigned = assigned])
      BY <1>2 DEF OpenPull
    <2> DEFINE pull == [NoPull EXCEPT !.head = s, !.open = TRUE,
                                      !.draft = draft, !.assigned = assigned]
    <2>2. /\ pull \in Pull /\ pull.head = s /\ pull.open /\ pull.past = {} /\ ~pull.triggered
      BY DEF NoPull, Pull
    <2>3. pulls[r] = NoPull
      BY <1>0, <1>2 DEF OpenPull
    <2>4. NoPull.past = {} /\ NoPull.head = NULL /\ ~NoPull.open
      BY DEF NoPull
    <2> HIDE DEF pull
    <2>5. Lawful(r, "opened", pull)
      BY <2>2, <2>3, <2>4 DEF Lawful, PullActions, Allowlist, ClosedOrDraft
    <2> QED
      BY <1>1, <2>1, <2>5 DEF pull
  <1>3. ASSUME NEW r \in PR, NEW s \in SHA, Push(r, s) PROVE Goal
    <2> DEFINE pull == [pulls[r] EXCEPT !.head = s, !.past = @ \cup {pulls[r].head},
                                        !.triggered = FALSE]
    <2>1. /\ pull \in Pull /\ pull.head = s /\ pull.open = pulls[r].open
          /\ pull.draft = pulls[r].draft /\ ~pull.triggered
          /\ pull.past = pulls[r].past \cup {pulls[r].head}
      BY <1>0, <1>3 DEF Push, Pull
    <2>2. EmitPull(r, "synchronize", pull) /\ pulls[r].open
      BY <1>3 DEF Push
    <2> HIDE DEF pull
    <2>3. Lawful(r, "synchronize", pull)
      BY <2>1, <2>2 DEF Lawful, PullActions, Allowlist, ClosedOrDraft
    <2> QED
      BY <1>1, <2>2, <2>3
  <1>4. ASSUME NEW r \in PR, ClosePull(r) PROVE Goal
    <2> DEFINE pull == [pulls[r] EXCEPT !.open = FALSE, !.past = @ \cup {pulls[r].head}]
    <2>1. /\ pull \in Pull /\ pull.head = pulls[r].head /\ pull.head \in SHA /\ ~pull.open
          /\ pull.past = pulls[r].past \cup {pulls[r].head}
      BY <1>0, <1>4 DEF ClosePull, Pull
    <2>2. EmitPull(r, "closed", pull)
      BY <1>4 DEF ClosePull
    <2> HIDE DEF pull
    <2>3. Lawful(r, "closed", pull)
      BY <2>1 DEF Lawful, PullActions
    <2> QED
      BY <1>1, <2>2, <2>3
  <1>5. ASSUME NEW r \in PR, ConvertToDraft(r) PROVE Goal
    <2> DEFINE pull == [pulls[r] EXCEPT !.draft = TRUE, !.past = @ \cup {pulls[r].head}]
    <2>1. /\ pull \in Pull /\ pull.head = pulls[r].head /\ pull.head \in SHA /\ pull.open
          /\ pull.past = pulls[r].past \cup {pulls[r].head}
      BY <1>0, <1>5 DEF ConvertToDraft, Pull
    <2>2. EmitPull(r, "converted_to_draft", pull)
      BY <1>5 DEF ConvertToDraft
    <2> HIDE DEF pull
    <2>3. Lawful(r, "converted_to_draft", pull)
      BY <2>1 DEF Lawful, PullActions
    <2> QED
      BY <1>1, <2>2, <2>3
  <1>6. ASSUME NEW r \in PR, NEW action \in {"reopened", "ready_for_review", "assigned", "unassigned"},
               NEW pull \in Pull, EmitPull(r, action, pull),
               pulls[r].head \in SHA, pull.head = pulls[r].head, pull.past = pulls[r].past,
               pull.triggered = pulls[r].triggered,
               ~pull.open => ~pulls[r].open,
               pull.draft => pulls[r].draft,
               action = "ready_for_review" => ~pull.draft
        PROVE  Goal
    <2>1. Lawful(r, action, pull)
      BY <1>0, <1>6 DEF Lawful, PullActions, Allowlist, ClosedOrDraft, Fresh
    <2> QED
      BY <1>1, <1>6, <2>1
  <1>7. ASSUME NEW r \in PR, ReopenPull(r) PROVE Goal
    <2> DEFINE pull == [pulls[r] EXCEPT !.open = TRUE]
    <2>1. /\ pull \in Pull /\ pull.open
          /\ pull.head = pulls[r].head /\ pull.head \in SHA /\ pull.past = pulls[r].past
          /\ pull.draft = pulls[r].draft /\ pull.triggered = pulls[r].triggered
      BY <1>0, <1>7 DEF ReopenPull, Pull
    <2>2. EmitPull(r, "reopened", pull)
      BY <1>7 DEF ReopenPull
    <2> HIDE DEF pull
    <2> QED
      BY <1>6, <2>1, <2>2
  <1>8. ASSUME NEW r \in PR, ReadyForReview(r) PROVE Goal
    <2> DEFINE pull == [pulls[r] EXCEPT !.draft = FALSE]
    <2>1. /\ pull \in Pull /\ pull.open = pulls[r].open
          /\ pull.head = pulls[r].head /\ pull.head \in SHA /\ pull.past = pulls[r].past
          /\ ~pull.draft /\ pull.triggered = pulls[r].triggered
      BY <1>0, <1>8 DEF ReadyForReview, Pull
    <2>2. EmitPull(r, "ready_for_review", pull)
      BY <1>8 DEF ReadyForReview
    <2> HIDE DEF pull
    <2> QED
      BY <1>6, <2>1, <2>2
  <1>9. ASSUME NEW r \in PR, Assign(r) PROVE Goal
    <2>1. PICK b \in BOOLEAN, action \in {"assigned", "unassigned"} :
             EmitPull(r, action, [pulls[r] EXCEPT !.assigned = b])
      BY <1>9 DEF Assign
    <2> DEFINE pull == [pulls[r] EXCEPT !.assigned = b]
    <2>2. /\ pull \in Pull /\ pull.open = pulls[r].open
          /\ pull.head = pulls[r].head /\ pull.head \in SHA /\ pull.past = pulls[r].past
          /\ pull.draft = pulls[r].draft /\ pull.triggered = pulls[r].triggered
      BY <1>0, <1>9 DEF Assign, Pull
    <2> HIDE DEF pull
    <2>3. EmitPull(r, action, pull)
      BY <2>1 DEF pull
    <2> QED
      BY <1>6, <2>2, <2>3
  <1>10. ASSUME Comment PROVE Goal
    <2> DEFINE e == [kind |-> "issue_comment", action |-> "created"]
    <2>1. Emit(e) /\ UNCHANGED <<pulls, suspended>>
      BY <1>10 DEF Comment
    <2>2. e \in Event /\ Truthful(e) /\ \A r \in PR : ~About(e, r)
      BY <2>1 DEF Event, OtherEvent, Truthful, IsInstallation, About
    <2>3. PullHistory'
      BY <2>1 DEF PullHistory
    <2> QED
      BY <2>1, <2>2, <2>3 DEF Goal, Tells
  <1>11. ASSUME SuspendOrUnsuspend PROVE Goal
    <2> DEFINE e == [kind |-> "installation",
                     action |-> IF suspended THEN "unsuspend" ELSE "suspend"]
    <2>1. Emit(e) /\ UNCHANGED pulls /\ suspended' = ~suspended
      BY <1>11 DEF SuspendOrUnsuspend
    <2>2. e \in Event /\ Truthful(e) /\ \A r \in PR : ~About(e, r)
      BY <2>1 DEF Event, OtherEvent, Truthful, IsInstallation, About
    <2>3. PullHistory'
      BY <2>1 DEF PullHistory
    <2> QED
      BY <2>1, <2>2, <2>3 DEF Goal, Tells
  <1> QED
    BY <1>2, <1>3, <1>4, <1>5, <1>7, <1>8, <1>9, <1>10, <1>11 DEF GitHubStep, Goal

(* What every step of the undisturbed server starts from.                   *)
Serial == TypeInv /\ TakeTurns /\ NoReconcile /\ Superseded /\ LastWord /\ LineInv

(* The events in line are well formed.                                      *)
LEMMA LineTypes ==
    ASSUME TypeInv, TakeTurns
    PROVE  /\ Len(line) \in Nat
           /\ \A i \in 1 .. Len(line) : line[i] \in Event
           /\ \A r \in PR : \A i \in Waiting(r) :
                 i \in 1 .. Len(line) /\ line[i] \in PullEvent /\ line[i].sha \in SHA
                    /\ line[i].pr = r
  <1>1. line \in Seq(Event)
    BY LineIs DEF LineOK
  <1>2. Len(line) \in Nat /\ \A i \in 1 .. Len(line) : line[i] \in Event
    BY <1>1, LenProperties, ElementOfSeq
  <1>3. \A e \in Event, r \in PR : About(e, r) => e \in PullEvent /\ e.sha \in SHA /\ e.pr = r
    BY DEF Event, PullEvent, OtherEvent, About
  <1> QED
    BY <1>2, <1>3 DEF Waiting

(* Unless GitHub has suspended the installation, an event emitted now will  *)
(* find it not suspended.                                                   *)
LEMMA ClearAtEnd ==
    ASSUME TypeInv, LastWord, StageFits, ~suspended
    PROVE  Clear(Len(line) + 1)
  <1> DEFINE n == Len(line)
  <1>0. n \in Nat /\ \A i \in 1 .. n : line[i] \in Event
    BY LineTypes DEF LastWord
  <1>1. \A e \in Event : IsInstallation(e) /\ e.action # "suspend" => e.action = "unsuspend"
    BY DEF Event, PullEvent, OtherEvent, IsInstallation
  <1>2. CASE \A h \in Handler : ~Busy(h)
    <2>1. line = inflight
      BY <1>2, LineIs DEF LastWord, LineOK
    <2>2. ASSUME NEW k \in 1 .. n, IsInstallation(line[k]),
                 \A m \in k + 1 .. n : ~IsInstallation(line[m])
          PROVE  line[k].action = "unsuspend"
      <3>1. NoneFrom(k + 1)
        BY <2>1, <2>2 DEF NoneFrom
      <3> QED
        BY <1>0, <1>1, <2>1, <2>2, <3>1 DEF LastWord, LastEventTells
    <2>3. ASSUME \A k \in 1 .. n : ~IsInstallation(line[k]) PROVE inst # "suspended"
      <3>1. NoneFrom(1) /\ \A h \in Handler : ~Upserting(h)
        BY <1>2, <2>1, <2>3 DEF NoneFrom, Busy, Upserting
      <3> QED
        BY <3>1 DEF LastWord, RowTells
    <2> QED
      BY <1>0, <2>2, <2>3 DEF Clear
  <1>3. ASSUME NEW h \in Handler, Busy(h) PROVE Clear(n + 1)
    <2>1. /\ stage = handlers[h].pc /\ line[1] = handlers[h].event
          /\ Len(line) = Len(inflight) + 1 /\ Len(inflight) \in Nat
          /\ \A i \in 1 .. Len(inflight) : line[i + 1] = inflight[i]
      BY <1>3, LineIs, LenProperties DEF LastWord, LineOK, TypeInv, TypeOK
    <2>2. ASSUME NEW k \in 1 .. n, IsInstallation(line[k]),
                 \A m \in k + 1 .. n : ~IsInstallation(line[m])
          PROVE  line[k].action = "unsuspend"
      <3>1. ASSUME NEW m \in k .. Len(inflight) PROVE ~IsInstallation(inflight[m])
        <4>1. m + 1 \in k + 1 .. n /\ m \in 1 .. Len(inflight)
          BY <2>1
        <4> QED
          BY <2>1, <2>2, <4>1
      <3>2. NoneFrom(k)
        BY <3>1 DEF NoneFrom
      <3>3. CASE k = 1
        <4>1. IsInstallation(handlers[h].event)
          BY <2>1, <2>2, <3>3
        <4>2. Upserting(h)
          BY <1>3, <2>1, <4>1
             DEF TypeInv, TypeOK, StageFits, Busy, Upserting, EndsReview, WantsReview,
                 IsInstallation
        <4> QED
          BY <1>0, <1>1, <2>1, <3>2, <3>3, <4>1, <4>2 DEF LastWord, HandledEventTells
      <3>4. CASE k # 1
        <4>1. k - 1 \in 1 .. Len(inflight) /\ (k - 1) + 1 = k
          BY <2>1, <3>4
        <4>2. inflight[k - 1] = line[k] /\ NoneFrom((k - 1) + 1)
          BY <2>1, <3>2, <4>1
        <4> QED
          BY <1>0, <1>1, <2>2, <4>1, <4>2 DEF LastWord, LastEventTells
      <3> QED
        BY <3>3, <3>4
    <2>3. ASSUME \A k \in 1 .. n : ~IsInstallation(line[k]) PROVE inst # "suspended"
      <3>1. ~IsInstallation(line[1]) /\ \A m \in 1 .. Len(inflight) : ~IsInstallation(inflight[m])
        <4>1. 1 \in 1 .. n /\ \A m \in 1 .. Len(inflight) : m + 1 \in 1 .. n
          BY <2>1
        <4> QED
          BY <2>1, <2>3, <4>1
      <3>2. NoneFrom(1)
        BY <3>1 DEF NoneFrom
      <3>3. \A g \in Handler : ~Upserting(g)
        <4>1. \A g \in Handler : Upserting(g) => g = h
          BY <1>3 DEF LastWord, TakeTurns, Busy, Upserting
        <4> QED
          BY <2>1, <3>1, <4>1 DEF LastWord, UpsertsInstallation
      <3> QED
        BY <3>2, <3>3 DEF LastWord, RowTells
    <2> QED
      BY <1>0, <2>2, <2>3 DEF Clear
  <1> QED
    BY <1>2, <1>3

(* An event emitted leaves the others where they are.                       *)
LEMMA AppendWaits ==
    ASSUME TypeInv, TakeTurns, NEW e, Appends(e), NEW r \in PR
    PROVE  /\ \A i : i \in Waiting(r)' <=> \/ i \in Waiting(r)
                                           \/ i = Len(line) + 1 /\ About(e, r)
           /\ \A i \in Waiting(r) : line'[i] = line[i] /\ i <= Len(line)
  <1>1. Len(line) \in Nat
    BY LineTypes
  <1>2. 1 .. Len(line') = 1 .. Len(line) \cup {Len(line) + 1}
    BY <1>1 DEF Appends
  <1> QED
    BY <1>1, <1>2 DEF Appends, Waiting

(* An event in line stays clear: those before it are the same.              *)
LEMMA AppendKeepsClear ==
    ASSUME NEW e, Appends(e), Len(line) \in Nat, NEW i \in 1 .. Len(line) + 1, inst' = inst,
           Clear(i)
    PROVE  Clear(i)'
  <1>1. \A k \in 1 .. i - 1 : line'[k] = line[k]
    BY DEF Appends
  <1>2. ASSUME NEW k \in 1 .. i - 1 PROVE \A m \in k + 1 .. i - 1 : line'[m] = line[m]
    BY <1>1
  <1> QED
    BY <1>1, <1>2 DEF Clear

(* An event GitHub emits keeps what the line promises.                      *)
LEMMA TellsKeepsLine ==
    ASSUME Serial, TypeInv', NEW e, Tells(e), PullHistory'
    PROVE  LineInv'
  <1>0. /\ TypeInv /\ TakeTurns /\ LastWord /\ KnownCommits /\ ReadyIsNoDraft /\ StageFits
        /\ QuietWhenClosed /\ FreshHead /\ TriggeredIsComing
    BY DEF Serial, LineInv
  <1>1. Appends(e) /\ stage' = stage /\ UNCHANGED <<jobs, inst>>
    BY <1>0, EmitAppends DEF Tells, Emit
  <1>n. PICK n \in Nat : n = Len(line)
    BY <1>0, LineTypes
  <1>2. n \in Nat /\ \A r \in PR : \A i \in Waiting(r) : i \in 1 .. n /\ line[i].sha \in SHA
    BY <1>0, <1>n, LineTypes
  <1>3. ASSUME NEW r \in PR
        PROVE  /\ \A i : i \in Waiting(r)' <=> \/ i \in Waiting(r)
                                               \/ i = n + 1 /\ About(e, r)
               /\ \A i \in Waiting(r) : line'[i] = line[i] /\ i <= n
    BY <1>0, <1>n, <1>1, AppendWaits
  <1>4. line'[n + 1] = e
    BY <1>1, <1>n DEF Appends
  <1>5. \A r \in PR : Reports(e, r) \/ (~About(e, r) /\ pulls'[r] = pulls[r])
    BY DEF Tells
  <1>6. KnownCommits'
    BY <1>0, <1>1, <1>2, <1>3, <1>4, <1>5, NullAssumption DEF KnownCommits, Reports
  <1>7. ReadyIsNoDraft'
    BY <1>0, <1>3, <1>4, <1>5 DEF ReadyIsNoDraft, Reports
  <1>8. StageFits'
    <2>1. stage # "idle" => Len(line') >= 1 /\ line'[1] = line[1]
      BY <1>0, <1>n, <1>1, <1>2 DEF StageFits, Appends
    <2> QED
      BY <1>0, <1>1, <2>1 DEF StageFits
  <1>9. QuietWhenClosed'
    <2> SUFFICES ASSUME NEW r \in PR, ClosedOrDraft(pulls'[r]) PROVE Quiet(r)'
      BY DEF QuietWhenClosed
    <2>1. CASE About(e, r) /\ EndsReview(e)
      <3>1. n + 1 \in Waiting(r)' /\ \A k \in Waiting(r)' : ~(k >= (n + 1) + 1)
        BY <1>2, <1>3, <2>1
      <3> QED
        BY <1>4, <2>1, <3>1 DEF Quiet, DeadFrom
    <2>2. CASE Quiet(r) /\ (About(e, r) => ClosedOrDraft(e))
      <3>1. \A i : DeadFrom(i, r) => DeadFrom(i, r)'
        BY <1>3, <1>4, <2>2 DEF DeadFrom
      <3>2. OpenKeys(r)' = OpenKeys(r)
        BY <1>1 DEF OpenKeys
      <3>3. ASSUME NEW i \in Waiting(r), EndsReview(line[i]), DeadFrom(i + 1, r)
            PROVE  Quiet(r)'
        <4>1. i \in Waiting(r)' /\ line'[i] = line[i] /\ DeadFrom(i + 1, r)'
          BY <1>3, <3>1, <3>3
        <4>2. EndsReview(line'[i])
          BY <3>3, <4>1
        <4> QED
          BY <4>1, <4>2 DEF Quiet
      <3> QED
        BY <2>2, <3>1, <3>2, <3>3 DEF Quiet
    <2> QED
      BY <1>0, <1>5, <2>1, <2>2 DEF Reports, QuietWhenClosed
  <1>10. FreshHead'
    <2> SUFFICES ASSUME NEW r \in PR, Fresh(r)'
                 PROVE  /\ \A i \in Waiting(r)' : line'[i].sha = pulls'[r].head => ~EndsReview(line'[i])
                        /\ \A i, k \in Waiting(r)' :
                              i < k /\ line'[i].sha = pulls'[r].head => line'[k].sha = pulls'[r].head
                        /\ \A i \in Waiting(r)' :
                              line'[i].sha # pulls'[r].head => HeadRow(r)'.status = "absent"
                        /\ HeadRow(r)'.status # "cancelled"
                        /\ HeadRow(r)'.status # "absent" =>
                              OpenKeys(r)' \subseteq {<<r, pulls'[r].head>>}
      BY DEF FreshHead
    <2>0. OpenKeys(r)' = OpenKeys(r)
      BY <1>1 DEF OpenKeys
    <2>1. CASE Fresh(r) /\ pulls'[r].head = pulls[r].head
      <3>1. HeadRow(r)' = HeadRow(r)
        BY <1>1, <2>1 DEF HeadRow
      <3>2. About(e, r) => ~EndsReview(e) /\ e.sha = pulls'[r].head
        BY <1>5 DEF Reports
      <3> QED
        BY <1>0, <1>2, <1>3, <1>4, <2>0, <2>1, <3>1, <3>2 DEF FreshHead
    <2>2. CASE About(e, r) /\ pulls'[r].head \notin pulls[r].past \cup {pulls[r].head}
      <3>1. ~EndsReview(e) /\ e.sha = pulls'[r].head
        BY <1>5, <2>2 DEF Reports
      <3>2. \A i \in Waiting(r) : line[i].sha # pulls'[r].head
        BY <1>0, <2>2 DEF KnownCommits
      <3>3. pulls'[r].head \in SHA
        BY DEF Fresh
      <3>4. HeadRow(r)'.status = "absent"
        BY <1>0, <1>1, <2>2, <3>3 DEF KnownCommits, HeadRow
      <3> QED
        BY <1>2, <1>3, <1>4, <3>1, <3>2, <3>4
    <2> QED
      BY <1>5, <2>1, <2>2 DEF Reports, Fresh
  <1>11. TriggeredIsComing'
    <2> SUFFICES ASSUME NEW r \in PR, Fresh(r)', pulls'[r].triggered
                 PROVE  HeadRow(r)'.status # "absent" \/ Coming(r)'
      BY DEF TriggeredIsComing
    <2>1. CASE About(e, r) /\ Asks(e)
      <3>1. e.sha = pulls'[r].head /\ ~EndsReview(e) /\ WantsReview(e, "active") /\ ~suspended
        BY <1>5, <2>1 DEF Reports, Asks
      <3>2. Clear(n + 1)
        BY <1>0, <1>n, <3>1, ClearAtEnd
      <3>3. Clear(n + 1)'
        <4>1. n + 1 \in 1 .. n + 1
          BY <1>2
        <4> QED
          BY <1>1, <1>n, <3>2, <4>1, AppendKeepsClear
      <3> QED
        BY <1>3, <1>4, <2>1, <3>1, <3>3 DEF Coming
    <2>2. CASE Fresh(r) /\ pulls'[r].head = pulls[r].head /\ pulls[r].triggered
      <3>1. HeadRow(r)' = HeadRow(r)
        BY <1>1, <2>2 DEF HeadRow
      <3>2. ASSUME Coming(r) PROVE Coming(r)'
        <4>1. PICK i \in Waiting(r) :
                 /\ line[i].sha = pulls[r].head
                 /\ ~EndsReview(line[i]) /\ WantsReview(line[i], "active")
                 /\ Clear(i) \/ (i = 1 /\ stage \in {"supersede", "create"})
          BY <3>2 DEF Coming
        <4>2. i \in Waiting(r)' /\ line'[i] = line[i] /\ i \in 1 .. n
          BY <1>2, <1>3
        <4>3. Clear(i) => Clear(i)'
          BY <1>1, <1>n, <4>2, AppendKeepsClear
        <4> QED
          BY <1>1, <2>2, <4>1, <4>2, <4>3 DEF Coming
      <3> QED
        BY <1>0, <2>2, <3>1, <3>2 DEF TriggeredIsComing
    <2> QED
      BY <1>5, <2>1, <2>2 DEF Reports, Fresh
  <1> QED
    BY <1>6, <1>7, <1>8, <1>9, <1>10, <1>11 DEF LineInv

(* The events that stay in line move up by d.                               *)
LEMMA ShiftWaits ==
    ASSUME TypeInv, TakeTurns, NEW d \in {0, 1}, d <= Len(line), Shifts(d), NEW r \in PR
    PROVE  /\ \A i \in Waiting(r)' : i \in Nat /\ i >= 1 /\ i + d \in Waiting(r)
                                        /\ line'[i] = line[i + d]
           /\ \A i \in Waiting(r) : i > d => i - d \in Waiting(r)' /\ line'[i - d] = line[i]
  <1>1. Len(line) \in Nat
    BY LineTypes
  <1>2. ASSUME NEW i \in Waiting(r)'
        PROVE  i \in Nat /\ i >= 1 /\ i + d \in Waiting(r) /\ line'[i] = line[i + d]
    <2>1. i \in 1 .. Len(line) - d /\ About(line'[i], r)
      BY <1>2 DEF Shifts, Waiting
    <2>2. i \in Nat /\ i >= 1 /\ i + d \in 1 .. Len(line)
      BY <1>1, <2>1
    <2> QED
      BY <2>1, <2>2 DEF Shifts, Waiting
  <1>3. ASSUME NEW i \in Waiting(r), i > d
        PROVE  i - d \in Waiting(r)' /\ line'[i - d] = line[i]
    <2>1. i \in 1 .. Len(line) /\ About(line[i], r)
      BY DEF Waiting
    <2>2. i - d \in 1 .. Len(line) - d /\ (i - d) + d = i
      BY <1>1, <1>3, <2>1
    <2>3. line'[i - d] = line[i] /\ Len(line') = Len(line) - d
      BY <2>2 DEF Shifts
    <2> QED
      BY <2>1, <2>2, <2>3 DEF Waiting
  <1> QED
    BY <1>2, <1>3

(* What is known of the events in line stays true.                          *)
LEMMA ShiftKeepsKnown ==
    ASSUME TypeInv, TakeTurns, KnownCommits, ReadyIsNoDraft, UNCHANGED pulls,
           NEW d \in {0, 1}, d <= Len(line), Shifts(d),
           \A r \in PR, s \in SHA : jobs'[<<r, s>>].status # "absent" =>
              s \in pulls[r].past \cup {pulls[r].head}
    PROVE  KnownCommits' /\ ReadyIsNoDraft'
  <1>1. ASSUME NEW r \in PR, NEW i \in Waiting(r)'
        PROVE  /\ line'[i].sha \in pulls[r].past \cup {pulls[r].head}
               /\ line'[i].action = "ready_for_review" => ~line'[i].draft
    BY <1>1, ShiftWaits DEF KnownCommits, ReadyIsNoDraft
  <1>2. KnownCommits'
    BY <1>1 DEF KnownCommits
  <1>3. ReadyIsNoDraft'
    BY <1>1 DEF ReadyIsNoDraft
  <1> QED
    BY <1>2, <1>3

(* A pull request stays quiet: unless the first event is the cancellation   *)
(* that was to come, it still comes; what may open a job comes before it.   *)
LEMMA QuietShifts ==
    ASSUME TypeInv, TakeTurns, NEW d \in {0, 1}, d <= Len(line), Shifts(d),
           NEW r \in PR, Quiet(r),
           \/ OpenKeys(r)' \subseteq OpenKeys(r)
           \/ 1 \in Waiting(r) /\ ~ClosedOrDraft(line[1]),
           d = 1 /\ 1 \in Waiting(r) /\ EndsReview(line[1]) => OpenKeys(r)' = {}
    PROVE  Quiet(r)'
  <1>0. \A i \in Waiting(r) : i \in Nat /\ i >= 1
    BY LineTypes
  <1>1. ASSUME NEW i \in Nat, DeadFrom(i + d, r) PROVE DeadFrom(i, r)'
    <2>1. ASSUME NEW k \in Waiting(r)', k >= i PROVE ClosedOrDraft(line'[k])
      <3>1. k \in Nat /\ k + d \in Waiting(r) /\ line'[k] = line[k + d]
        BY ShiftWaits
      <3>2. k + d >= i + d
        BY <2>1, <3>1
      <3> QED
        BY <1>1, <3>1, <3>2 DEF DeadFrom
    <2> QED
      BY <2>1 DEF DeadFrom
  <1>2. ASSUME OpenKeys(r)' = {}, \A k \in Waiting(r) : k >= 1 + d => ClosedOrDraft(line[k])
        PROVE  Quiet(r)'
    <2>1. DeadFrom(1, r)'
      BY <1>1, <1>2 DEF DeadFrom
    <2> QED
      BY <1>2, <2>1 DEF Quiet
  <1>3. ASSUME NEW i \in Waiting(r), EndsReview(line[i]), DeadFrom(i + 1, r) PROVE Quiet(r)'
    <2>1. CASE i > d
      <3>1. i - d \in Waiting(r)' /\ EndsReview(line'[i - d])
        BY <1>3, <2>1, ShiftWaits
      <3>2. i - d + 1 \in Nat /\ (i - d + 1) + d = i + 1
        BY <1>0, <2>1
      <3>3. DeadFrom(i - d + 1, r)'
        BY <1>1, <1>3, <3>2
      <3> QED
        BY <3>1, <3>3 DEF Quiet
    <2>2. CASE ~(i > d)
      <3>1. i = 1 /\ d = 1
        BY <1>0, <2>2
      <3> QED
        BY <1>2, <1>3, <3>1 DEF DeadFrom
    <2> QED
      BY <2>1, <2>2
  <1>4. ASSUME OpenKeys(r) = {}, DeadFrom(1, r) PROVE Quiet(r)'
    <2>1. OpenKeys(r)' = {}
      BY <1>4 DEF DeadFrom
    <2>2. \A k \in Waiting(r) : ClosedOrDraft(line[k])
      BY <1>0, <1>4 DEF DeadFrom
    <2> QED
      BY <1>2, <2>1, <2>2
  <1> QED
    BY <1>3, <1>4 DEF Quiet

(* What a step may do to the rows of a pull request with a fresh head: open *)
(* and cancel nothing new, leave the head without a row, or insert the row  *)
(* the first event asks for.                                                *)
KeepsRows(r) ==
    /\ HeadRow(r)'.status = "absent" <=> HeadRow(r).status = "absent"
    /\ HeadRow(r)'.status = "cancelled" => HeadRow(r).status = "cancelled"
    /\ OpenKeys(r)' \subseteq OpenKeys(r)

KeepsAbsent(r) == HeadRow(r).status = "absent" /\ HeadRow(r)'.status = "absent"

Enqueues(r) ==
    /\ Shifts(1) /\ 1 \in Waiting(r) /\ line[1].sha = pulls[r].head
    /\ HeadRow(r)'.status \notin {"absent", "cancelled"}
    /\ OpenKeys(r)' \subseteq {<<r, pulls[r].head>>}

(* Such a step keeps what is known of a fresh head.                         *)
LEMMA FreshShifts ==
    ASSUME TypeInv, TakeTurns, FreshHead, UNCHANGED pulls,
           NEW d \in {0, 1}, d <= Len(line), Shifts(d),
           \A r \in PR : Fresh(r) => KeepsRows(r) \/ KeepsAbsent(r) \/ (d = 1 /\ Enqueues(r))
    PROVE  FreshHead'
  <1> SUFFICES ASSUME NEW r \in PR, Fresh(r)
               PROVE  /\ \A i \in Waiting(r)' : line'[i].sha = pulls[r].head => ~EndsReview(line'[i])
                      /\ \A i, k \in Waiting(r)' :
                            i < k /\ line'[i].sha = pulls[r].head => line'[k].sha = pulls[r].head
                      /\ \A i \in Waiting(r)' :
                            line'[i].sha # pulls[r].head => HeadRow(r)'.status = "absent"
                      /\ HeadRow(r)'.status # "cancelled"
                      /\ HeadRow(r)'.status # "absent" =>
                            OpenKeys(r)' \subseteq {<<r, pulls[r].head>>}
    BY DEF FreshHead, Fresh
  <1>0. \A i \in Waiting(r) : i \in Nat /\ i >= 1
    BY LineTypes
  <1>1. \A i \in Waiting(r)' : i \in Nat /\ i >= 1 /\ i + d \in Waiting(r)
                                  /\ line'[i] = line[i + d]
    BY ShiftWaits
  <1>2. \A i \in Waiting(r)' : line'[i].sha = pulls[r].head => ~EndsReview(line'[i])
    BY <1>1 DEF FreshHead
  <1>3. ASSUME NEW i \in Waiting(r)', NEW k \in Waiting(r)', i < k, line'[i].sha = pulls[r].head
        PROVE  line'[k].sha = pulls[r].head
    <2>1. i + d < k + d
      BY <1>1, <1>3
    <2> QED
      BY <1>1, <1>3, <2>1 DEF FreshHead
  <1>4. CASE d = 1 /\ Enqueues(r)
    <2>1. ASSUME NEW i \in Waiting(r)' PROVE line'[i].sha = pulls[r].head
      <3>1. 1 < i + d
        BY <1>1, <1>4
      <3> QED
        BY <1>1, <1>4, <3>1 DEF Enqueues, FreshHead
    <2> QED
      BY <1>2, <1>3, <1>4, <2>1 DEF Enqueues
  <1>5. CASE KeepsAbsent(r)
    BY <1>2, <1>3, <1>5 DEF KeepsAbsent
  <1>6. CASE KeepsRows(r)
    BY <1>1, <1>2, <1>3, <1>6 DEF KeepsRows, FreshHead
  <1> QED
    BY <1>4, <1>5, <1>6

(* An event that will find the installation not suspended still will, once  *)
(* the first event is answered: if that one is about the installation, the  *)
(* row is written as it says.                                               *)
LEMMA ClearShifts ==
    ASSUME TypeInv, TakeTurns, NEW d \in {0, 1}, d <= Len(line), Shifts(d),
           d = 1 /\ IsInstallation(line[1]) => inst' = InstallationRow(line[1].action),
           (d = 1 /\ IsInstallation(line[1])) \/ (inst' = "suspended" <=> inst = "suspended"),
           NEW i \in 1 .. Len(line), i > d, Clear(i)
    PROVE  Clear(i - d)'
  <1>0. PICK n \in Nat : n = Len(line)
    BY LineTypes
  <1>1. i \in Nat /\ i >= 1 /\ i <= n
    BY <1>0
  <1>2. \A k \in 1 .. n - d : line'[k] = line[k + d]
    BY <1>0 DEF Shifts
  <1>3. ASSUME NEW k \in 1 .. i - d - 1, IsInstallation(line'[k]),
               \A m \in k + 1 .. i - d - 1 : ~IsInstallation(line'[m])
        PROVE  line'[k].action = "unsuspend"
    <2>1. k \in 1 .. n - d /\ k + d \in 1 .. i - 1
      BY <1>1
    <2>2. ASSUME NEW m \in (k + d) + 1 .. i - 1 PROVE ~IsInstallation(line[m])
      <3>1. m - d \in k + 1 .. i - d - 1 /\ m - d \in 1 .. n - d /\ (m - d) + d = m
        BY <1>1, <2>1
      <3> QED
        BY <1>2, <1>3, <3>1
    <2> QED
      BY <1>2, <1>3, <2>1, <2>2 DEF Clear
  <1>4. ASSUME \A k \in 1 .. i - d - 1 : ~IsInstallation(line'[k]) PROVE inst' # "suspended"
    <2>1. ASSUME NEW m \in 1 + d .. i - 1 PROVE ~IsInstallation(line[m])
      <3>1. m - d \in 1 .. i - d - 1 /\ m - d \in 1 .. n - d /\ (m - d) + d = m
        BY <1>1
      <3> QED
        BY <1>2, <1>4, <3>1
    <2>2. CASE d = 1 /\ IsInstallation(line[1])
      <3>1. 1 \in 1 .. i - 1 /\ \A m \in 1 + 1 .. i - 1 : ~IsInstallation(line[m])
        BY <1>1, <2>1, <2>2
      <3>2. line[1].action = "unsuspend"
        BY <2>2, <3>1 DEF Clear
      <3> QED
        BY <2>2, <3>2 DEF InstallationRow
    <2>3. CASE ~(d = 1 /\ IsInstallation(line[1]))
      <3>1. ASSUME NEW m \in 1 .. i - 1 PROVE ~IsInstallation(line[m])
        <4>1. m \in 1 + d .. i - 1 \/ (m = 1 /\ d = 1)
          BY <1>1
        <4> QED
          BY <2>1, <2>3, <4>1
      <3>2. inst # "suspended"
        BY <3>1 DEF Clear
      <3> QED
        BY <2>3, <3>2
    <2> QED
      BY <2>2, <2>3
  <1>5. PICK j \in Nat : j = i - d
    BY <1>1
  <1>6. Clear(j)'
    BY <1>3, <1>4, <1>5 DEF Clear
  <1> QED
    BY <1>5, <1>6

(* Past Route, the first event in line is about a pull request.             *)
LEMMA FirstIsPull ==
    ASSUME TypeInv, TakeTurns, StageFits, stage \in {"cancel_open", "supersede", "create"}
    PROVE  /\ line[1] \in PullEvent /\ line[1].pr \in PR /\ line[1].sha \in SHA
           /\ Len(line) >= 1
           /\ \A r \in PR : 1 \in Waiting(r) <=> line[1].pr = r
  <1>1. Len(line) \in Nat /\ Len(line) >= 1
    BY LineTypes DEF StageFits
  <1>2. line[1] \in Event /\ line[1].kind = "pull_request"
    BY <1>1, LineTypes DEF StageFits, EndsReview, WantsReview
  <1>3. line[1] \in PullEvent
    BY <1>2 DEF Event, OtherEvent, PullEvent
  <1> QED
    BY <1>1, <1>2, <1>3 DEF PullEvent, Waiting, About

(* No row is inserted: only rows that were there are.                       *)
InsertsNothing ==
    \A k \in Key : jobs'[k].status = "absent" <=> jobs[k].status = "absent"

(* Either cancellation statement spares the row of a fresh head: no event   *)
(* about it ends its review, and the others come before it has a row.       *)
LEMMA CancelsRows ==
    ASSUME Serial, UNCHANGED pulls, NEW except,
           \/ stage = "cancel_open" /\ except = NULL
           \/ stage = "supersede" /\ except = line[1].sha,
           jobs' = CancelRows(line[1].pr, except)
    PROVE  /\ InsertsNothing
           /\ \A r \in PR : OpenKeys(r)' \subseteq OpenKeys(r)
           /\ \A r \in PR : Fresh(r) => KeepsRows(r) \/ KeepsAbsent(r)
           /\ stage = "cancel_open" => \A r \in PR : 1 \in Waiting(r) => OpenKeys(r)' = {}
  <1>1. /\ TypeInv /\ TakeTurns /\ NoReconcile /\ StageFits /\ FreshHead
    BY DEF Serial, LineInv
  <1>2. /\ line[1].pr \in PR /\ line[1].sha \in SHA
        /\ \A r \in PR : 1 \in Waiting(r) <=> line[1].pr = r
    BY <1>1, FirstIsPull
  <1>3. \A k \in Key : IsOpen(k)' => IsOpen(k) /\ (k[1] = line[1].pr => k[2] = except)
    BY <1>1, CancelCloses
  <1>4. \A k \in Key : jobs'[k] = IF k[1] = line[1].pr /\ k[2] # except
                                  THEN CancelledRow(jobs[k]) ELSE jobs[k]
    BY DEF CancelRows
  <1>5. \A k \in Key : CancelledRow(jobs[k]).status = "absent" <=> jobs[k].status = "absent"
    <2> SUFFICES ASSUME NEW k \in Key
                 PROVE  CancelledRow(jobs[k]).status = "absent" <=> jobs[k].status = "absent"
      OBVIOUS
    <2>1. jobs[k] \in JobRow({Worker})
      BY <1>1 DEF TypeInv, TypeOK
    <2> QED
      BY <2>1 DEF CancelledRow, JobRow, Open
  <1>6. InsertsNothing
    BY <1>4, <1>5 DEF InsertsNothing
  <1>7. \A r \in PR : OpenKeys(r)' \subseteq OpenKeys(r)
    BY <1>3 DEF OpenKeys, IsOpen
  <1>8. ASSUME stage = "cancel_open", NEW r \in PR, 1 \in Waiting(r) PROVE OpenKeys(r)' = {}
    <2>1. except = NULL /\ \A k \in Key : k[2] # NULL
      BY <1>8, NullAssumption DEF Key
    <2> QED
      BY <1>2, <1>3, <1>8, <2>1 DEF OpenKeys, IsOpen
  <1>9. ASSUME NEW r \in PR, Fresh(r) PROVE KeepsRows(r) \/ KeepsAbsent(r)
    <2>1. <<r, pulls[r].head>> \in Key
      BY <1>9 DEF Fresh, Key
    <2>2. HeadRow(r)' = jobs'[<<r, pulls[r].head>>] /\ HeadRow(r) = jobs[<<r, pulls[r].head>>]
      BY DEF HeadRow
    <2>3. HeadRow(r)'.status = "absent" <=> HeadRow(r).status = "absent"
      BY <1>6, <2>1, <2>2 DEF InsertsNothing
    <2>4. CASE r # line[1].pr \/ pulls[r].head = except
      <3>1. HeadRow(r)' = HeadRow(r)
        BY <1>4, <2>1, <2>2, <2>4
      <3> QED
        BY <1>7, <2>3, <3>1 DEF KeepsRows
    <2>5. CASE r = line[1].pr /\ pulls[r].head # except
      <3>1. 1 \in Waiting(r)
        BY <1>2, <2>5
      <3>2. line[1].sha # pulls[r].head
        BY <1>1, <1>9, <2>5, <3>1 DEF StageFits, FreshHead
      <3>3. HeadRow(r).status = "absent"
        BY <1>1, <1>9, <3>1, <3>2 DEF FreshHead
      <3> QED
        BY <2>3, <3>3 DEF KeepsAbsent
    <2> QED
      BY <2>4, <2>5
  <1> QED
    BY <1>6, <1>7, <1>8, <1>9

(* The insert gives the head its row and leaves nothing else open, or is    *)
(* about a commit that is no longer the head, which then has no row yet.    *)
LEMMA CreatesRows ==
    ASSUME Serial, UNCHANGED pulls, Creates
    PROVE  /\ \A r \in PR : r # line[1].pr => OpenKeys(r)' = OpenKeys(r)
           /\ \A r \in PR : Fresh(r) => KeepsRows(r) \/ KeepsAbsent(r) \/ Enqueues(r)
           /\ \A k \in Key : jobs'[k].status # "absent" =>
                 jobs[k].status # "absent" \/ k = <<line[1].pr, line[1].sha>>
  <1> DEFINE new == <<line[1].pr, line[1].sha>>
  <1>1. /\ TypeInv /\ TakeTurns /\ NoReconcile /\ Superseded /\ StageFits /\ FreshHead
    BY DEF Serial, LineInv
  <1>2. /\ line[1].pr \in PR /\ line[1].sha \in SHA
        /\ \A r \in PR : 1 \in Waiting(r) <=> line[1].pr = r
    BY <1>1, FirstIsPull DEF Creates
  <1>3. new \in Key /\ new[1] = line[1].pr /\ new[2] = line[1].sha
    BY <1>2 DEF Key
  <1>4. jobs' = IF jobs[new].status = "absent" THEN [jobs EXCEPT ![new] = NewJob] ELSE jobs
    BY DEF Creates
  <1>5. \A k \in Key : k[1] = line[1].pr /\ IsOpen(k) => k = new
    <2>1. PICK h \in Handler : Busy(h)
      BY <1>1, LineIs DEF LineOK, Creates
    <2>2. handlers[h].pc = "create" /\ handlers[h].event = line[1]
      BY <1>1, <2>1, LineIs DEF LineOK, Creates
    <2> QED
      BY <1>1, <2>2 DEF Superseded, EventKey
  <1> HIDE DEF new
  <1>6. \A k \in Key : k # new => jobs'[k] = jobs[k]
    BY <1>1, <1>4 DEF TypeInv, TypeOK
  <1>7. /\ jobs'[new].status # "absent"
        /\ jobs[new].status = "absent" => jobs'[new].status = "pending"
        /\ jobs[new].status # "absent" => jobs'[new] = jobs[new]
    BY <1>1, <1>3, <1>4 DEF TypeInv, TypeOK, NewJob, NoJob
  <1>8. \A r \in PR : r # line[1].pr => OpenKeys(r)' = OpenKeys(r)
    BY <1>3, <1>6 DEF OpenKeys
  <1>9. \A r \in PR : r = line[1].pr => OpenKeys(r)' \subseteq {new}
    BY <1>5, <1>6 DEF OpenKeys, IsOpen
  <1>10. ASSUME NEW r \in PR, Fresh(r) PROVE KeepsRows(r) \/ KeepsAbsent(r) \/ Enqueues(r)
    <2>1. /\ <<r, pulls[r].head>> \in Key
          /\ HeadRow(r)' = jobs'[<<r, pulls[r].head>>] /\ HeadRow(r) = jobs[<<r, pulls[r].head>>]
      BY <1>10 DEF Fresh, Key, HeadRow
    <2>2. CASE r # line[1].pr
      <3>1. <<r, pulls[r].head>> # new
        BY <2>2 DEF new
      <3> QED
        BY <1>6, <1>8, <2>1, <2>2, <3>1 DEF KeepsRows
    <2>3. CASE r = line[1].pr /\ line[1].sha = pulls[r].head
      <3>1. new = <<r, pulls[r].head>>
        BY <2>3 DEF new
      <3>2. HeadRow(r).status # "cancelled"
        BY <1>1, <1>10 DEF FreshHead
      <3>3. HeadRow(r)'.status \notin {"absent", "cancelled"}
        BY <1>7, <2>1, <3>1, <3>2
      <3> QED
        BY <1>2, <1>9, <2>3, <3>1, <3>3 DEF Enqueues, Creates
    <2>4. CASE r = line[1].pr /\ line[1].sha # pulls[r].head
      <3>1. HeadRow(r).status = "absent"
        BY <1>1, <1>2, <1>10, <2>4 DEF FreshHead
      <3>2. <<r, pulls[r].head>> # new
        BY <2>4 DEF new
      <3> QED
        BY <1>6, <2>1, <3>1, <3>2 DEF KeepsAbsent
    <2> QED
      BY <2>2, <2>3, <2>4
  <1>11. \A k \in Key : jobs'[k].status # "absent" => jobs[k].status # "absent" \/ k = new
    BY <1>6
  <1> QED
    BY <1>8, <1>10, <1>11 DEF new

(* A worker inserts and cancels nothing.                                    *)
LEMMA WorkerRows ==
    ASSUME Serial, UNCHANGED pulls, NEW j \in Key, WorkerStep(j)
    PROVE  /\ InsertsNothing
           /\ \A r \in PR : OpenKeys(r)' \subseteq OpenKeys(r)
           /\ \A r \in PR : Fresh(r) => KeepsRows(r)
  <1>1. TypeInv /\ NoReconcile
    BY DEF Serial
  <1>2. jobs[j] \in JobRow({Worker})
    BY <1>1 DEF TypeInv, TypeOK
  <1>3. /\ ClaimedRow(jobs[j], Worker).status = "running"
        /\ CompletedRow(jobs[j], jobs[j].lock_generation).status = "completed"
        /\ FailedRow(jobs[j]).status = "failed"
    BY <1>2 DEF ClaimedRow, CompletedRow, FailedRow, JobRow
  <1>4. PICK row : /\ jobs' = [jobs EXCEPT ![j] = row]
                   /\ row.status \notin {"absent", "cancelled"} /\ jobs[j].status # "absent"
    BY <1>3 DEF WorkerStep, Queued
  <1>5. jobs'[j] = row /\ \A k \in Key : k # j => jobs'[k] = jobs[k]
    BY <1>1, <1>4 DEF TypeInv, TypeOK
  <1>6. InsertsNothing
    BY <1>4, <1>5 DEF InsertsNothing
  <1>7. \A r \in PR : OpenKeys(r)' \subseteq OpenKeys(r)
    BY <1>1, WorkerOpensNothing DEF OpenKeys, IsOpen
  <1>8. ASSUME NEW r \in PR, Fresh(r) PROVE KeepsRows(r)
    <2>1. <<r, pulls[r].head>> \in Key
      BY <1>8 DEF Fresh, Key
    <2>2. HeadRow(r)' = jobs'[<<r, pulls[r].head>>] /\ HeadRow(r) = jobs[<<r, pulls[r].head>>]
      BY DEF HeadRow
    <2> QED
      BY <1>4, <1>5, <1>6, <1>7, <2>1, <2>2 DEF KeepsRows, InsertsNothing
  <1> QED
    BY <1>6, <1>7, <1>8

(* The event that will have the head enqueued moves on, until it has been.  *)
LEMMA ComingShifts ==
    ASSUME Serial, UNCHANGED pulls, NEW d \in {0, 1}, d <= Len(line), Shifts(d),
           d = 1 /\ IsInstallation(line[1]) => inst' = InstallationRow(line[1].action),
           (d = 1 /\ IsInstallation(line[1])) \/ (inst' = "suspended" <=> inst = "suspended"),
           NEW r \in PR, Coming(r),
           /\ 1 \in Waiting(r) /\ line[1].sha = pulls[r].head
           /\ ~EndsReview(line[1]) /\ WantsReview(line[1], "active")
           /\ Clear(1) \/ stage \in {"supersede", "create"}
           => \/ d = 0 /\ stage' \in {"supersede", "create"}
              \/ d = 0 /\ Clear(1)
              \/ HeadRow(r)'.status # "absent"
    PROVE  Coming(r)' \/ HeadRow(r)'.status # "absent"
  <1>0. TypeInv /\ TakeTurns
    BY DEF Serial
  <1>1. PICK i \in Waiting(r) :
           /\ line[i].sha = pulls[r].head
           /\ ~EndsReview(line[i]) /\ WantsReview(line[i], "active")
           /\ Clear(i) \/ (i = 1 /\ stage \in {"supersede", "create"})
    BY DEF Coming
  <1>2. i \in Nat /\ i >= 1 /\ i \in 1 .. Len(line)
    BY <1>0, LineTypes
  <1>3. ASSUME i > d PROVE i - d \in Waiting(r)' /\ line'[i - d] = line[i]
    BY <1>0, <1>3, ShiftWaits
  <1>4. ASSUME i > d, Clear(i) PROVE Clear(i - d)'
    BY <1>0, <1>2, <1>4, ClearShifts
  <1>5. PICK j \in Int : j = i - d
    BY <1>2
  <1>6. ASSUME i > d, Clear(i) PROVE Coming(r)'
    BY <1>1, <1>3, <1>4, <1>5, <1>6 DEF Coming
  <1>7. CASE i > d /\ Clear(i)
    BY <1>6, <1>7
  <1>8. CASE i = 1
    <2>1. CASE d = 0 /\ stage' \in {"supersede", "create"}
      <3>1. i - d = 1 /\ i > d
        BY <1>8, <2>1
      <3>2. 1 \in Waiting(r)' /\ line'[1] = line[i]
        BY <1>3, <3>1
      <3> QED
        BY <1>1, <2>1, <3>2 DEF Coming
    <2>2. CASE d = 0 /\ Clear(1)
      BY <1>6, <1>8, <2>2
    <2> QED
      BY <1>1, <1>8, <2>1, <2>2
  <1> QED
    BY <1>1, <1>2, <1>7, <1>8

(* What a step of the server, a delivery or a worker must respect.          *)
Respects(d) ==
    /\ d <= Len(line) /\ Shifts(d) /\ UNCHANGED pulls
    /\ d = 1 /\ IsInstallation(line[1]) => inst' = InstallationRow(line[1].action)
    /\ (d = 1 /\ IsInstallation(line[1])) \/ (inst' = "suspended" <=> inst = "suspended")
    /\ \A k \in Key : jobs'[k].status # "absent" =>
          \/ jobs[k].status # "absent"
          \/ k[1] \in PR /\ 1 \in Waiting(k[1]) /\ k[2] = line[1].sha
    /\ \A r \in PR : \/ OpenKeys(r)' \subseteq OpenKeys(r)
                     \/ 1 \in Waiting(r) /\ ~ClosedOrDraft(line[1])
    /\ \A r \in PR : d = 1 /\ 1 \in Waiting(r) /\ EndsReview(line[1]) => OpenKeys(r)' = {}
    /\ \A r \in PR : Fresh(r) => KeepsRows(r) \/ KeepsAbsent(r) \/ (d = 1 /\ Enqueues(r))
    /\ \A r \in PR :
          /\ 1 \in Waiting(r) /\ line[1].sha = pulls[r].head
          /\ ~EndsReview(line[1]) /\ WantsReview(line[1], "active")
          /\ Clear(1) \/ stage \in {"supersede", "create"}
          => \/ d = 0 /\ stage' \in {"supersede", "create"}
             \/ d = 0 /\ Clear(1)
             \/ d = 1 /\ (Fresh(r) => HeadRow(r)'.status # "absent")

(* A step that does keeps what the line promises.                           *)
LEMMA RespectsKeepsLine ==
    ASSUME Serial, NEW d \in {0, 1}, Respects(d), StageFits'
    PROVE  LineInv'
  <1>0. /\ TypeInv /\ TakeTurns /\ PullHistory /\ KnownCommits /\ ReadyIsNoDraft
        /\ QuietWhenClosed /\ FreshHead /\ TriggeredIsComing
    BY DEF Serial, LineInv
  <1>1. d <= Len(line) /\ Shifts(d) /\ pulls' = pulls
    BY DEF Respects
  <1>2. PullHistory'
    BY <1>0, <1>1 DEF PullHistory
  <1>3. KnownCommits' /\ ReadyIsNoDraft'
    <2>1. ASSUME NEW r \in PR, NEW s \in SHA, jobs'[<<r, s>>].status # "absent"
          PROVE  s \in pulls[r].past \cup {pulls[r].head}
      <3>1. <<r, s>> \in Key /\ <<r, s>>[1] = r /\ <<r, s>>[2] = s
        BY DEF Key
      <3>2. \/ jobs[<<r, s>>].status # "absent"
            \/ 1 \in Waiting(r) /\ s = line[1].sha
        BY <2>1, <3>1 DEF Respects
      <3> QED
        BY <1>0, <3>2 DEF KnownCommits
    <2> QED
      BY <1>0, <1>1, <2>1, ShiftKeepsKnown
  <1>4. QuietWhenClosed'
    <2> SUFFICES ASSUME NEW r \in PR, ClosedOrDraft(pulls[r]) PROVE Quiet(r)'
      BY <1>1 DEF QuietWhenClosed
    <2>1. Quiet(r)
      BY <1>0 DEF QuietWhenClosed
    <2> QED
      BY <1>0, <1>1, <2>1, QuietShifts DEF Respects
  <1>5. FreshHead'
    BY <1>0, <1>1, FreshShifts DEF Respects
  <1>6. TriggeredIsComing'
    <2> SUFFICES ASSUME NEW r \in PR, Fresh(r), pulls[r].triggered
                 PROVE  HeadRow(r)'.status # "absent" \/ Coming(r)'
      BY <1>1 DEF TriggeredIsComing, Fresh
    <2>1. CASE HeadRow(r).status # "absent"
      BY <2>1 DEF Respects, KeepsRows, KeepsAbsent, Enqueues
    <2>2. CASE Coming(r)
      <3>1. /\ 1 \in Waiting(r) /\ line[1].sha = pulls[r].head
            /\ ~EndsReview(line[1]) /\ WantsReview(line[1], "active")
            /\ Clear(1) \/ stage \in {"supersede", "create"}
            => \/ d = 0 /\ stage' \in {"supersede", "create"}
               \/ d = 0 /\ Clear(1)
               \/ HeadRow(r)'.status # "absent"
        BY DEF Respects
      <3>2. /\ d = 1 /\ IsInstallation(line[1]) => inst' = InstallationRow(line[1].action)
            /\ (d = 1 /\ IsInstallation(line[1])) \/ (inst' = "suspended" <=> inst = "suspended")
        BY DEF Respects
      <3> QED
        BY <1>1, <2>2, <3>1, <3>2, ComingShifts
    <2> QED
      BY <1>0, <2>1, <2>2 DEF TriggeredIsComing
  <1> QED
    BY <1>2, <1>3, <1>4, <1>5, <1>6 DEF LineInv

(* A step that moves no handler on, changes no installation row and inserts *)
(* nothing respects the line.                                               *)
LEMMA IdleRespects ==
    ASSUME Serial, Shifts(0), UNCHANGED pulls, inst' = "suspended" <=> inst = "suspended",
           InsertsNothing,
           \A r \in PR : OpenKeys(r)' \subseteq OpenKeys(r),
           \A r \in PR : Fresh(r) => KeepsRows(r) \/ KeepsAbsent(r),
           Clear(1) \/ stage \in {"supersede", "create"} =>
              Clear(1) \/ stage' \in {"supersede", "create"}
    PROVE  Respects(0)
  <1>1. 0 <= Len(line)
    BY LineTypes DEF Serial
  <1>2. \A k \in Key : jobs'[k].status # "absent" => jobs[k].status # "absent"
    BY DEF InsertsNothing
  <1> QED
    BY <1>1, <1>2 DEF Respects

(* No statement of review_jobs: the rows stay as they are.                  *)
LEMMA SameRows ==
    ASSUME UNCHANGED <<jobs, pulls>>
    PROVE  /\ InsertsNothing
           /\ \A r \in PR : OpenKeys(r)' \subseteq OpenKeys(r)
           /\ \A r \in PR : KeepsRows(r)
  <1>1. \A r \in PR : OpenKeys(r)' = OpenKeys(r) /\ HeadRow(r)' = HeadRow(r)
    BY DEF OpenKeys, HeadRow
  <1> QED
    BY <1>1 DEF InsertsNothing, KeepsRows

(* Every step of the handler of the first event keeps what the line         *)
(* promises.                                                                *)
LEMMA ServesKeepsLine ==
    ASSUME Serial, Serves, Len(line) >= 1, UNCHANGED pulls
    PROVE  LineInv'
  <1>0. /\ TypeInv /\ TakeTurns /\ StageFits /\ ReadyIsNoDraft /\ Len(line) \in Nat
        /\ line[1] \in Event
    BY LineTypes DEF Serial, LineInv
  <1>1. \A r \in PR : 1 \in Waiting(r) => line[1].kind = "pull_request" /\ ~IsInstallation(line[1])
    BY DEF Waiting, About, IsInstallation
  <1>2. Clear(1) => inst # "suspended"
    BY DEF Clear
  <1>3. ASSUME Shifts(0) PROVE Len(line') >= 1 /\ line'[1] = line[1]
    BY <1>0, <1>3 DEF Shifts
  <1>4. CASE Writes
    <2>1. IsInstallation(line[1])
      BY <1>0, <1>4 DEF Writes, StageFits
    <2>2. StageFits'
      BY <1>4 DEF Writes, StageFits
    <2>3. Respects(1)
      BY <1>0, <1>1, <1>4, <2>1, SameRows DEF Writes, Respects, InsertsNothing
    <2> QED
      BY <2>2, <2>3, RespectsKeepsLine
  <1>5. CASE Misses
    <2>1. StageFits'
      BY <1>0, <1>3, <1>5 DEF Misses, StageFits
    <2>2. Respects(0)
      BY <1>5, SameRows, IdleRespects DEF Misses
    <2> QED
      BY <2>1, <2>2, RespectsKeepsLine
  <1>6. CASE Routes /\ Shifts(0) /\ stage' = "cancel_open" /\ EndsReview(line[1])
    <2>1. StageFits'
      BY <1>3, <1>6 DEF StageFits
    <2>2. Respects(0)
      BY <1>0, <1>6, SameRows, IdleRespects DEF Routes
    <2> QED
      BY <2>1, <2>2, RespectsKeepsLine
  <1>7. CASE /\ Routes /\ Shifts(0) /\ stage' = "supersede"
             /\ ~EndsReview(line[1]) /\ WantsReview(line[1], inst')
    <2>1. WantsReview(line[1], "active")
      BY <1>7 DEF WantsReview
    <2>2. StageFits'
      BY <1>3, <1>7, <2>1 DEF StageFits
    <2>3. Respects(0)
      BY <1>7, SameRows, IdleRespects DEF Routes
    <2> QED
      BY <2>2, <2>3, RespectsKeepsLine
  <1>8. CASE /\ Routes /\ Shifts(1) /\ stage' = "idle"
             /\ ~EndsReview(line[1]) /\ ~WantsReview(line[1], inst')
    <2>1. StageFits'
      BY <1>8 DEF StageFits
    <2>2. inst # "suspended" => ~WantsReview(line[1], "active")
      BY <1>8 DEF WantsReview, Routes
    <2>3. stage \in {"ensure", "stub"} /\ (inst' = "suspended" <=> inst = "suspended")
      BY <1>8 DEF Routes
    <2>4. ~IsInstallation(line[1])
      BY <1>0, <2>3 DEF StageFits
    <2>5. UNCHANGED <<jobs, pulls>>
      BY <1>8 DEF Routes
    <2>6. Respects(1)
      BY <1>0, <1>2, <1>8, <2>2, <2>3, <2>4, <2>5, SameRows DEF Respects, InsertsNothing
    <2> QED
      BY <2>1, <2>6, RespectsKeepsLine
  <1>9. CASE Cancels
    <2>1. StageFits'
      BY <1>9 DEF StageFits, Cancels
    <2>2. /\ InsertsNothing
          /\ \A r \in PR : OpenKeys(r)' \subseteq OpenKeys(r)
          /\ \A r \in PR : Fresh(r) => KeepsRows(r) \/ KeepsAbsent(r)
          /\ \A r \in PR : 1 \in Waiting(r) => OpenKeys(r)' = {}
      BY <1>9, CancelsRows DEF Cancels
    <2>3. EndsReview(line[1]) /\ ~IsInstallation(line[1])
      BY <1>0, <1>9 DEF StageFits, Cancels, EndsReview, IsInstallation
    <2>4. Respects(1)
      BY <1>0, <1>9, <2>2, <2>3 DEF Respects, InsertsNothing, Cancels
    <2> QED
      BY <2>1, <2>4, RespectsKeepsLine
  <1>10. CASE Supersedes
    <2>1. StageFits'
      BY <1>0, <1>3, <1>10 DEF StageFits, Supersedes
    <2>2. /\ InsertsNothing
          /\ \A r \in PR : OpenKeys(r)' \subseteq OpenKeys(r)
          /\ \A r \in PR : Fresh(r) => KeepsRows(r) \/ KeepsAbsent(r)
      BY <1>10, CancelsRows DEF Supersedes
    <2>3. Respects(0)
      BY <1>10, <2>2, IdleRespects DEF Supersedes
    <2> QED
      BY <2>1, <2>3, RespectsKeepsLine
  <1>11. CASE Creates
    <2>1. StageFits'
      BY <1>11 DEF StageFits, Creates
    <2>2. /\ \A r \in PR : r # line[1].pr => OpenKeys(r)' = OpenKeys(r)
          /\ \A r \in PR : Fresh(r) => KeepsRows(r) \/ KeepsAbsent(r) \/ Enqueues(r)
          /\ \A k \in Key : jobs'[k].status # "absent" =>
                jobs[k].status # "absent" \/ k = <<line[1].pr, line[1].sha>>
      BY <1>11, CreatesRows
    <2>3. /\ line[1].pr \in PR /\ line[1].sha \in SHA
          /\ \A r \in PR : 1 \in Waiting(r) <=> line[1].pr = r
      BY <1>0, <1>11, FirstIsPull DEF Creates
    <2>4. ~EndsReview(line[1]) /\ WantsReview(line[1], "active") /\ ~IsInstallation(line[1])
      BY <1>0, <1>11 DEF StageFits, Creates, WantsReview, IsInstallation
    <2>5. ~ClosedOrDraft(line[1])
      BY <1>0, <2>3, <2>4 DEF ReadyIsNoDraft, EndsReview, WantsReview, ClosedOrDraft
    <2>6. \A k \in Key : jobs'[k].status # "absent" =>
             \/ jobs[k].status # "absent"
             \/ k[1] \in PR /\ 1 \in Waiting(k[1]) /\ k[2] = line[1].sha
      BY <2>2, <2>3
    <2>7. Shifts(1) /\ inst' = inst
      BY <1>11 DEF Creates
    <2>8. \A r \in PR : 1 \in Waiting(r) /\ line[1].sha = pulls[r].head /\ Fresh(r) =>
             HeadRow(r)'.status # "absent"
      <3> SUFFICES ASSUME NEW r \in PR, 1 \in Waiting(r), line[1].sha = pulls[r].head
                   PROVE  HeadRow(r)'.status # "absent"
        OBVIOUS
      <3>1. <<line[1].pr, line[1].sha>> = <<r, pulls[r].head>> /\ <<r, pulls[r].head>> \in Key
        BY <2>3 DEF Key
      <3> QED
        BY <1>0, <1>11, <3>1 DEF Creates, HeadRow, NewJob, NoJob, TypeInv, TypeOK
    <2>9. Respects(1)
      BY <1>0, <2>2, <2>3, <2>4, <2>5, <2>6, <2>7, <2>8 DEF Respects
    <2> QED
      BY <2>1, <2>9, RespectsKeepsLine
  <1>12. Routes => \/ Shifts(0) /\ stage' = "cancel_open" /\ EndsReview(line[1])
                   \/ /\ Shifts(0) /\ stage' = "supersede"
                      /\ ~EndsReview(line[1]) /\ WantsReview(line[1], inst')
                   \/ /\ Shifts(1) /\ stage' = "idle"
                      /\ ~EndsReview(line[1]) /\ ~WantsReview(line[1], inst')
    BY DEF Routes
  <1> QED
    BY <1>4, <1>5, <1>6, <1>7, <1>8, <1>9, <1>10, <1>11, <1>12 DEF Serves

(* A delivery hands the first event in line to a handler.                   *)
LEMMA DeliveryKeepsLine ==
    ASSUME Serial, TypeInv', TakeTurns', NEW h \in Handler, DeliverNext(h), disorder' = {}
    PROVE  LineInv'
  <1>1. /\ Shifts(0) /\ Len(line) >= 1
        /\ stage = "idle" /\ stage' = FirstStep(line[1])
        /\ UNCHANGED <<jobs, inst, pulls, suspended>>
    BY DeliveryShifts DEF Serial
  <1>2. Len(line') >= 1 /\ line'[1] = line[1]
    BY <1>1, LineTypes DEF Shifts, Serial
  <1>3. StageFits'
    BY <1>1, <1>2 DEF StageFits, FirstStep, IsInstallation
  <1>4. Respects(0)
    BY <1>1, SameRows, IdleRespects
  <1> QED
    BY <1>3, <1>4, RespectsKeepsLine

(* A worker, like a step that changes nothing, leaves the line alone.       *)
LEMMA WorkerKeepsLine ==
    ASSUME Serial, UNCHANGED vars \/ \E k \in Key : WorkerStep(k)
    PROVE  LineInv'
  <1>1. UNCHANGED <<inst, pulls, inflight, handlers>>
    BY DEF WorkerStep, vars
  <1>2. line' = line /\ stage' = stage
    BY <1>1 DEF line, stage, SomeoneBusy, Turn, Busy
  <1>3. Shifts(0)
    BY <1>2, LineTypes DEF Shifts, Serial
  <1>4. StageFits'
    BY <1>2 DEF Serial, LineInv, StageFits
  <1>5. /\ InsertsNothing
        /\ \A r \in PR : OpenKeys(r)' \subseteq OpenKeys(r)
        /\ \A r \in PR : Fresh(r) => KeepsRows(r)
    BY <1>1, SameRows, WorkerRows DEF vars
  <1>6. Respects(0)
    BY <1>1, <1>2, <1>3, <1>5, IdleRespects
  <1> QED
    BY <1>4, <1>6, RespectsKeepsLine

(* What the line promises, as long as nothing disturbs it.                  *)
QueueInv == SerialInv /\ SuspensionInv /\ (disorder = {} => LineInv)

(* Undisturbed, every step keeps what the line promises.                    *)
LEMMA QueueInv_Next == QueueInv /\ [Next]_vars => QueueInv'
  <1> SUFFICES ASSUME QueueInv, [Next]_vars, disorder' = {} PROVE LineInv'
    BY SerialInv_Next, SuspensionInv_Next DEF QueueInv
  <1>1. disorder = {}
    BY DisorderGrows DEF QueueInv
  <1>2. Serial
    BY <1>1 DEF QueueInv, SerialInv, SuspensionInv, Serial
  <1>3. TypeInv' /\ TakeTurns'
    BY SerialInv_Next DEF QueueInv, SerialInv
  <1>4. GitHubStep => LineInv'
    BY <1>2, <1>3, GitHubReports, TellsKeepsLine DEF Serial, LineInv
  <1>5. ASSUME NEW h \in Handler, HandlerStep(h) PROVE LineInv'
    BY <1>2, <1>3, <1>5, HandlerServes, ServesKeepsLine DEF Serial
  <1>6. \A kind : ~Disturb(kind)
    BY DEF Disturb
  <1>7. \A h \in Handler : DeliverNext(h) => LineInv'
    BY <1>2, <1>3, DeliveryKeepsLine
  <1>8. ~LoseDelivery /\ \A h \in Handler : /\ ~DeliverTwice(h)
                                            /\ \A i \in 2 .. Len(inflight) : ~DeliverLate(h, i)
    BY <1>6 DEF LoseDelivery, DeliverTwice, DeliverLate
  <1>9. UNCHANGED vars \/ (\E k \in Key : WorkerStep(k)) => LineInv'
    BY <1>2, WorkerKeepsLine
  <1> QED
    BY <1>4, <1>5, <1>7, <1>8, <1>9 DEF Next

(* Initially nothing is in line, and no pull request is open.               *)
LEMMA QueueInv_Init == Init => QueueInv
  <1> SUFFICES ASSUME Init PROVE QueueInv
    OBVIOUS
  <1>1. \A h \in Handler : handlers[h].pc = "idle"
    BY DEF Init, Idle
  <1>2. \A k \in Key : jobs[k].status = "absent"
    BY DEF Init, NoJob
  <1>3. line = <<>> /\ stage = "idle"
    BY <1>1 DEF Init, line, stage, SomeoneBusy, Busy
  <1>4. \A r \in PR : Waiting(r) = {} /\ OpenKeys(r) = {} /\ pulls[r] = NoPull
    BY <1>2, <1>3, EmptySeq DEF Waiting, OpenKeys, Open, Init
  <1>5. \A r \in PR : ~Fresh(r)
    BY <1>4, NullAssumption DEF Fresh, NoPull
  <1>6. PullHistory
    <2>1. NoPull.head = NULL
      BY DEF NoPull
    <2> QED
      BY <1>4, <2>1 DEF PullHistory
  <1>7. KnownCommits /\ ReadyIsNoDraft /\ StageFits
    BY <1>2, <1>3, <1>4 DEF KnownCommits, ReadyIsNoDraft, StageFits, Key
  <1>8. QuietWhenClosed /\ FreshHead /\ TriggeredIsComing
    BY <1>4, <1>5 DEF QuietWhenClosed, Quiet, DeadFrom, FreshHead, TriggeredIsComing
  <1> QED
    BY <1>6, <1>7, <1>8, SerialInv_Init, SuspensionInv_Init DEF QueueInv, LineInv

(* Once every event is handled, undisturbed: a pull request that is closed  *)
(* or a draft has no open job, and one that asked for a review of a head    *)
(* not replaced, closed or drafted before has that job enqueued, not        *)
(* cancelled, and no other open.                                            *)
THEOREM QueueIsFollowed == Spec => []QueueFollowsPull
  <1>1. QueueInv => QueueFollowsPull
    <2> SUFFICES ASSUME QueueInv, Settled, NEW r \in PR
                 PROVE  LET pull == pulls[r] IN
                        /\ ~pull.open \/ pull.draft => OpenKeys(r) = {}
                        /\ pull.triggered /\ pull.head \notin pull.past =>
                              /\ jobs[<<r, pull.head>>].status \notin {"absent", "cancelled"}
                              /\ OpenKeys(r) \subseteq {<<r, pull.head>>}
      BY DEF QueueFollowsPull
    <2>1. LineInv /\ TypeInv
      BY DEF QueueInv, Settled, SerialInv
    <2>2. line = <<>>
      BY DEF Settled, line, SomeoneBusy, Busy
    <2>3. Waiting(r) = {}
      BY <2>2, EmptySeq DEF Waiting
    <2>4. ClosedOrDraft(pulls[r]) => OpenKeys(r) = {}
      BY <2>1, <2>3 DEF LineInv, QuietWhenClosed, Quiet
    <2>5. ASSUME pulls[r].triggered, pulls[r].head \notin pulls[r].past
          PROVE  /\ HeadRow(r).status \notin {"absent", "cancelled"}
                 /\ OpenKeys(r) \subseteq {<<r, pulls[r].head>>}
      <3>1. Fresh(r)
        <4>1. pulls[r].head # NULL
          BY <2>1, <2>5 DEF LineInv, PullHistory, NoPull
        <4> QED
          BY <2>1, <2>5, <4>1 DEF Fresh, TypeInv, TypeOK, Pull
      <3> QED
        BY <2>1, <2>3, <2>5, <3>1 DEF LineInv, FreshHead, TriggeredIsComing, Coming
    <2> QED
      BY <2>4, <2>5 DEF ClosedOrDraft, HeadRow
  <1> QED
    BY <1>1, QueueInv_Init, QueueInv_Next, PTL DEF Spec

-----------------------------------------------------------------------------
(* ServerKeepsContract.                                                     *)

(* The column both sides of the contract are about. *)
StatusOfJobs == [k \in Key |-> jobs[k].status]

Contract ==
    \/ Table!ServerStep /\ handlers' # handlers
    \/ Table!WorkerStep /\ handlers' = handlers

(* Steps that leave the rows alone do not concern the contract. *)
LEMMA ContractStutters ==
    ASSUME UNCHANGED jobs
    PROVE  UNCHANGED Table!vars
  BY DEF Table!vars

(* A statement on one row changes one status. *)
LEMMA StatusUpdate ==
    ASSUME TypeInv, NEW k \in Key, NEW row, jobs' = [jobs EXCEPT ![k] = row]
    PROVE  StatusOfJobs' = [StatusOfJobs EXCEPT ![k] = row.status]
  BY DEF TypeInv, TypeOK, StatusOfJobs

(* No step of the contract writes a status it does not name. *)
LEMMA ContractTypes == Table!TypeOK /\ [Contract]_(Table!vars) => Table!TypeOK'
  <1> USE DEF Table!TypeOK, Table!vars
  <1>1. Table!TypeOK /\ Table!ServerStep => Table!TypeOK'
    BY DEF Table!ServerStep, Table!Insert, Table!Cancel
  <1>2. Table!TypeOK /\ Table!WorkerStep => Table!TypeOK'
    BY DEF Table!WorkerStep, Table!Claim, Table!Settle
  <1> QED
    BY <1>1, <1>2 DEF Contract

(* A cancellation statement cancels the unsettled rows it matches. *)
LEMMA Contract_Cancel ==
    ASSUME TypeInv, Table!TypeOK, NEW r, NEW except, jobs' = CancelRows(r, except)
    PROVE  Table!ServerStep
  <1> PICK S \in SUBSET Key :
             S = {k \in Key : k[1] = r /\ k[2] # except /\ jobs[k].status \in Open}
    OBVIOUS
  <1>1. ASSUME NEW k \in Key PROVE CancelledRow(jobs[k]).status =
           IF jobs[k].status \in Open THEN "cancelled" ELSE jobs[k].status
    BY DEF CancelledRow, TypeInv, TypeOK, JobRow
  <1>2. ASSUME NEW k \in Key
        PROVE  jobs'[k].status = IF k \in S THEN "cancelled" ELSE jobs[k].status
    BY <1>1 DEF CancelRows
  <1>3. \A k \in S : jobs[k].status \in {"pending", "running"}
    BY DEF Table!TypeOK, Open
  <1>4. Table!Cancel(S)
    BY <1>2, <1>3 DEF Table!Cancel
  <1> QED
    BY <1>4 DEF Table!ServerStep

(* An insert finds its key free; any other outcome leaves the rows alone.   *)
LEMMA Contract_Create ==
    ASSUME TypeInv, NEW h \in Handler, CreateJob(h)
    PROVE  Table!ServerStep \/ UNCHANGED jobs
  <1> PICK k \in Key : k = EventKey(h)
    BY DEF CreateJob, TypeInv, HandlersKnowEvent, PullEvent, EventKey, Key
  <1>1. CASE jobs[k].status = "absent" /\ jobs' = [jobs EXCEPT ![k] = NewJob]
    <2>1. NewJob.status = "pending"
      BY DEF NewJob, NoJob
    <2>2. StatusOfJobs' = [StatusOfJobs EXCEPT ![k] = "pending"]
      <3>1. StatusOfJobs' = [StatusOfJobs EXCEPT ![k] = NewJob.status]
        BY <1>1, StatusUpdate
      <3> QED
        BY <2>1, <3>1
    <2>3. Table!Insert(k)
      BY <1>1, <2>2 DEF Table!Insert, StatusOfJobs
    <2> QED
      BY <2>3 DEF Table!ServerStep
  <1> QED
    BY <1>1 DEF CreateJob, EventKey

(* What the enqueuer takes for granted of the workers is their half. *)
LEMMA Contract_Worker ==
    ASSUME TypeInv, Table!TypeOK, NEW k \in Key, WorkerStep(k)
    PROVE  Table!WorkerStep
  <1>0. jobs[k] \in JobRow({Worker})
    BY DEF TypeInv, TypeOK
  <1>1. /\ ClaimedRow(jobs[k], Worker).status = "running"
        /\ CompletedRow(jobs[k], jobs[k].lock_generation).status = "completed"
        /\ FailedRow(jobs[k]).status = "failed"
    BY <1>0 DEF ClaimedRow, CompletedRow, FailedRow, JobRow
  <1>2. CASE /\ jobs[k].status \in Queued
             /\ jobs' = [jobs EXCEPT ![k] = ClaimedRow(jobs[k], Worker)]
    <2>1. StatusOfJobs' = [StatusOfJobs EXCEPT ![k] = "running"]
      BY <1>1, <1>2, StatusUpdate
    <2>2. jobs[k].status = "pending"
      BY <1>2 DEF Table!TypeOK, Queued
    <2>3. Table!Claim(k)
      BY <2>1, <2>2 DEF Table!Claim, StatusOfJobs
    <2> QED
      BY <2>3 DEF Table!WorkerStep
  <1>3. ASSUME jobs[k].status = "running", NEW row, row.status \in {"completed", "failed"},
               jobs' = [jobs EXCEPT ![k] = row]
        PROVE  Table!WorkerStep
    <2>1. StatusOfJobs' = [StatusOfJobs EXCEPT ![k] = row.status]
      BY <1>3, StatusUpdate
    <2>2. Table!Settle(k)
      BY <1>3, <2>1 DEF Table!Settle, StatusOfJobs
    <2> QED
      BY <2>2 DEF Table!WorkerStep
  <1> QED
    BY <1>1, <1>2, <1>3 DEF WorkerStep

(* Each step is one of the side that takes it. *)
LEMMA Contract_Next == TypeInv /\ Table!TypeOK /\ [Next]_vars => [Contract]_(Table!vars)
  <1> SUFFICES ASSUME TypeInv, Table!TypeOK, [Next]_vars
               PROVE  Contract \/ UNCHANGED Table!vars
    OBVIOUS
  <1>1. CASE UNCHANGED jobs
    BY <1>1, ContractStutters
  <1>2. ASSUME NEW h \in Handler,
               CancelOpenJobsForPR(h) \/ CancelJobsForPR(h) \/ CreateJob(h)
        PROVE  handlers'[h].pc # handlers[h].pc
    BY <1>2 DEF CancelOpenJobsForPR, CancelJobsForPR, CreateJob, Succeeds, StatementFails,
                Answer, Goto, Idle, TypeInv, TypeOK
  <1>3. ASSUME NEW h \in Handler, CancelOpenJobsForPR(h) \/ CancelJobsForPR(h)
        PROVE  UNCHANGED jobs \/ Contract
    <2>1. PICK except : jobs' = jobs \/ jobs' = CancelRows(handlers[h].event.pr, except)
      BY <1>3 DEF CancelOpenJobsForPR, CancelJobsForPR
    <2> QED
      BY <1>2, <1>3, <2>1, Contract_Cancel DEF Contract
  <1>4. ASSUME NEW h \in Handler, CreateJob(h) PROVE UNCHANGED jobs \/ Contract
    BY <1>2, <1>4, Contract_Create DEF Contract
  <1>5. ASSUME NEW k \in Key, WorkerStep(k) PROVE Contract
    BY <1>5, Contract_Worker DEF Contract, WorkerStep
  <1>6. \/ UNCHANGED jobs
        \/ \E h \in Handler : CancelOpenJobsForPR(h) \/ CancelJobsForPR(h) \/ CreateJob(h)
        \/ \E k \in Key : WorkerStep(k)
    <2>1. GitHubStep => UNCHANGED jobs
      BY GitHubEmits DEF Emit
    <2>2. ASSUME NEW h \in Handler,
                 \/ DeliverNext(h) \/ DeliverTwice(h)
                 \/ \E i \in 2 .. Len(inflight) : DeliverLate(h, i)
          PROVE  UNCHANGED jobs
      BY <2>2 DEF DeliverNext, DeliverTwice, DeliverLate, Deliver
    <2>3. LoseDelivery => UNCHANGED jobs
      BY DEF LoseDelivery
    <2>4. ASSUME NEW h \in Handler, HandlerStep(h)
          PROVE  \/ UNCHANGED jobs
                 \/ CancelOpenJobsForPR(h) \/ CancelJobsForPR(h) \/ CreateJob(h)
      BY <2>4 DEF HandlerStep, UpsertInstallation, EnsureInstallation, CreateStub
    <2> QED
      BY <2>1, <2>2, <2>3, <2>4 DEF Next, vars
  <1> QED
    BY <1>1, <1>3, <1>4, <1>5, <1>6

(* An empty table is where the contract begins. *)
LEMMA Contract_Init == Init => Table!Init /\ Table!TypeOK
  <1> SUFFICES ASSUME Init PROVE Table!Init /\ Table!TypeOK
    OBVIOUS
  <1>1. \A k \in Key : jobs[k].status = "absent"
    BY DEF Init, NoJob
  <1> QED
    BY <1>1 DEF Table!Init, Table!TypeOK

(* Whatever happens to the deliveries and wherever a handler fails, the     *)
(* server only inserts rows that are not there and cancels unsettled ones:  *)
(* a job once claimed, settled or cancelled is never queued again           *)
(* (enqueue.go:120, 158 and 192).                                           *)
THEOREM ServerWithinContract == Spec => ServerKeepsContract
  <1> QED
    BY TypeInv_Init, TypeInv_Next, Contract_Init, Contract_Next, ContractTypes, PTL
       DEF Spec, ServerKeepsContract, Contract
=============================================================================
