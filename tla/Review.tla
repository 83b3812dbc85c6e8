------------------------------- MODULE Review -------------------------------
(***************************************************************************)
(* What happens to one job's review between its stages in Worker: the      *)
(* detective truncates the changed files, the critic prompts the LLM and   *)
(* validates its findings, and the diplomat turns them into a review       *)
(* request (MapResultToRequest of internal/diplomat/map.go, one action per *)
(* finding).  The stages run one after the other.                          *)
(***************************************************************************)
EXTENDS Critic

CONSTANT CommentLimit \* 30 in the code

ASSUME CommentLimitAssumption == CommentLimit \in Nat

VARIABLES
    mapped,   \* how many validated findings have been mapped
    inline,   \* req.Comments: the finding and the line of each
    notes,    \* fileLevelNotes
    overflow  \* overflowNotes

requestVars == <<mapped, inline, notes, overflow>>
vars == <<truncateVars, providerVars, criticVars, requestVars>>

Init ==
    /\ TruncateInit /\ ProviderInit /\ CriticInit
    /\ mapped = 0 /\ inline = <<>> /\ notes = <<>> /\ overflow = <<>>

MapDone == ValidateDone /\ mapped = Len(valid)

(* A comment goes to the last line of its finding. *)
CommentLine(f) == IF f.end <= 0 THEN f.start ELSE f.end

(* Comments beyond the limit are dropped: FindingsAccountedFor. *)
BugMapLined(f) ==
    /\ inline' = IF Len(inline) < CommentLimit
                 THEN Append(inline, [src |-> f.src, line |-> CommentLine(f)]) ELSE inline
    /\ UNCHANGED <<notes, overflow>>

MapLined(f) ==
    \/ /\ Len(inline) < CommentLimit
       /\ inline' = Append(inline, [src |-> f.src, line |-> CommentLine(f)])
       /\ UNCHANGED <<notes, overflow>>
    \/ /\ Len(inline) >= CommentLimit
       /\ overflow' = Append(overflow, f.src)
       /\ UNCHANGED <<notes, inline>>

MapFinding ==
    /\ ValidateDone /\ ~MapDone
    /\ mapped' = mapped + 1
    /\ LET f == valid[mapped + 1] IN
         \/ /\ CommentLine(f) <= 0
            /\ notes' = Append(notes, f.src)
            /\ UNCHANGED <<inline, overflow>>
         \/ CommentLine(f) > 0 /\ MapLined(f)
    /\ UNCHANGED <<truncateVars, providerVars, criticVars>>

DetectiveStep == TruncateNext /\ UNCHANGED <<providerVars, criticVars, requestVars>>

Next ==
    \/ DetectiveStep
    \/ CriticStep /\ UNCHANGED requestVars
    \/ MapFinding

(* The goroutine of the review and os/exec run, and LLM_TIMEOUT comes. *)
Fairness ==
    /\ WF_vars(DetectiveStep)
    /\ WF_vars((WriteFile \/ ParseOutput \/ ValidateFinding) /\ UNCHANGED requestVars)
    /\ WF_vars(CompletePrompt /\ CompleteStep /\ UNCHANGED requestVars)
    /\ WF_vars(CompletePrompt /\ ContextDone /\ UNCHANGED requestVars)
    /\ WF_vars(MapFinding)

Spec == Init /\ [][Next]_vars /\ Fairness
-----------------------------------------------------------------------------
(* Every variable of the composed stages has its type. *)
TypeOK ==
    /\ TruncateTypeOK /\ ProviderTypeOK /\ CriticTypeOK
    /\ mapped \in 0 .. Len(valid)
    /\ inline \in Seq([src : Nat, line : Nat])
    /\ notes \in Seq(Nat) /\ overflow \in Seq(Nat)

(* What should become of a finding, from the output of the LLM alone. *)
Judgement(f) ==
    CASE f.path \notin DOMAIN files -> "bad_path"
      [] f.path \in DOMAIN files /\ f.confidence < MinConfidence -> "low_confidence"
      [] OTHER -> IF 0 < f.end /\ f.end < f.start THEN "invalid"
                  ELSE IF Min({f.start, f.end}) < 0 \/ Max({f.start, f.end}) = 0
                       THEN "note" ELSE "line"

(* The positions of the findings judged so. *)
Judged(j) == {k \in DOMAIN raw : Judgement(raw[k]) = j}

(* s lists the positions in S once each, in the order of the output. *)
Lists(s, S) ==
    /\ {s[i] : i \in DOMAIN s} = S
    /\ \A i, k \in DOMAIN s : i < k => s[i] < s[k]

Sources(s) == [i \in DOMAIN s |-> s[i].src]

(* Where the comment on a finding belongs. *)
LastLine(f) == IF f.end > 0 THEN f.end ELSE f.start

(* No finding of the LLM is lost or reported twice between its output and   *)
(* the review request: those with a line become the first CommentLimit      *)
(* comments, in order and at the right line, the others go to the body, and *)
(* every one that is left out is counted with its reason (schema.go:97-139, *)
(* map.go:27-61).                                                           *)
FindingsAccountedFor ==
    MapDone =>
        /\ Lists(Sources(inline) \o overflow, Judged("line"))
        /\ Len(inline) = Min({CommentLimit, Cardinality(Judged("line"))})
        /\ \A i \in DOMAIN inline : inline[i].line = LastLine(raw[inline[i].src])
        /\ Lists(notes, Judged("note"))
        /\ \A r \in DOMAIN dropped : dropped[r] = Cardinality(Judged(r))

(* Unless a descendant of a command holds its pipes for good, a review      *)
(* always ends: with a request, or with an error that fails its job,        *)
(* whether or not the LLM ever answers or exits (critic.go:27, cli.go:67).  *)
ReviewEnds ==
    (\A p \in Providers : []<>(desc[p] # "holding")) => <>(MapDone \/ CriticFailed)
=============================================================================
