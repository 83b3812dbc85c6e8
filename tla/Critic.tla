------------------------------- MODULE Critic -------------------------------
(***************************************************************************)
(* Critic.Review of internal/critic on the files the detective has         *)
(* truncated: BuildPrompt, the call of the LLM router, ParseAndValidate.   *)
(* One action is one file written to the prompt, one step of the provider  *)
(* call, or one finding judged.                                            *)
(*                                                                         *)
(* A prompt is its length and which files show their patch.  A finding is  *)
(* its path (the position of the file among the changed files; any other   *)
(* number is an empty or unknown path), its confidence and its lines.      *)
(* Normalising severity and category, identifiers and fingerprints changes *)
(* no decision and is left out.                                            *)
(***************************************************************************)
EXTENDS Truncate, Provider, SequencesExt

CONSTANTS
    Outputs,              \* lists of findings the LLM may return
    MinConfidence,        \* FINDING_CONFIDENCE_MIN
    PromptBudgetTokens,   \* PROMPT_BUDGET_TOKENS, not positive: use the default
    DefaultBudgetTokens,  \* 100000 in the code
    BaseLen,              \* length of the prompt before the first file
    NoteLen,              \* length of a file's path-only note
    HeaderLen             \* length of a file's header and the patch's frame

Finding == [path : Int, confidence : Int, start : Int, end : Int]

ASSUME OutputsAssumption == Outputs \subseteq Seq(Finding)
ASSUME PromptAssumption ==
    /\ {MinConfidence, PromptBudgetTokens} \subseteq Int
    /\ {DefaultBudgetTokens, BaseLen, NoteLen, HeaderLen} \subseteq Nat

VARIABLES
    shown,     \* for each file written so far: is its patch in the prompt?
    promptLen, \* sb.Len()
    parsed,    \* the output: "no" (not looked at), "yes" or "error"
    raw,       \* the findings of the output
    judged,    \* how many of them the loop has looked at
    valid,     \* validatedFindings; src: position in raw
    dropped    \* DroppedStats

promptVars == <<shown, promptLen>>
findingVars == <<parsed, raw, judged, valid, dropped>>
criticVars == <<promptVars, findingVars>>

CriticInit ==
    /\ shown = <<>> /\ promptLen = BaseLen
    /\ parsed = "no" /\ raw = <<>> /\ judged = 0 /\ valid = <<>>
    /\ dropped = [bad_path |-> 0, low_confidence |-> 0, invalid |-> 0]
-----------------------------------------------------------------------------
(* BuildPrompt.                                                             *)

charBudget ==
    4 * IF PromptBudgetTokens <= 0 THEN DefaultBudgetTokens ELSE PromptBudgetTokens

PromptDone == TruncateDone /\ Len(shown) = Len(processed)

(* Whatever is left of a patch is shown: ShownAreWhole. *)
BugPatchShown(f) == f.patch > 0 /\ promptLen + HeaderLen + f.patch <= charBudget

(* An omitted file has a note only, and so has one whose patch would exceed *)
(* the budget; a later, shorter patch may still fit.                        *)
PatchShown(f) ==
    f.reason = "none" /\ promptLen + HeaderLen + f.patch <= charBudget

WriteFile ==
    /\ TruncateDone /\ ~PromptDone
    /\ LET f == processed[Len(shown) + 1] IN
         /\ shown' = Append(shown, PatchShown(f))
         /\ promptLen' = promptLen + IF PatchShown(f) THEN HeaderLen + f.patch ELSE NoteLen
    /\ UNCHANGED <<truncateVars, providerVars, findingVars>>

(* router.Complete(ctx, prompt). *)
CompletePrompt ==
    /\ PromptDone
    /\ ProviderNext
    /\ UNCHANGED <<truncateVars, criticVars>>
-----------------------------------------------------------------------------
(* ParseAndValidate.                                                        *)

(* Empty output and output that is no JSON end the review. *)
ParseOutput ==
    /\ answer \in Providers /\ parsed = "no"
    /\ \/ parsed' = "error" /\ UNCHANGED raw
       \/ parsed' = "yes" /\ raw' \in Outputs
    /\ UNCHANGED <<truncateVars, providerVars, promptVars, judged, valid, dropped>>

ValidateDone == parsed = "yes" /\ judged = Len(raw)

ToJudge == parsed = "yes" /\ judged < Len(raw)
F == raw[judged + 1]

(* All changed files are known, the omitted ones too. *)
KnownPath(f) == f.path \in DOMAIN files

Confident(f) == f.confidence >= MinConfidence

(* Negative lines are passed on: TypeOK. *)
BugLines(f) == <<f.start, f.end>>

(* A negative line makes the finding one without lines. *)
Lines(f) == IF f.start < 0 \/ f.end < 0 THEN <<0, 0>> ELSE <<f.start, f.end>>

Backwards(ln) == ln[1] > 0 /\ ln[2] > 0 /\ ln[2] < ln[1]

Drop(reason) ==
    /\ dropped' = [dropped EXCEPT ![reason] = @ + 1]
    /\ UNCHANGED valid

ValidateFinding ==
    /\ ToJudge
    /\ judged' = judged + 1
    /\ \/ ~KnownPath(F) /\ Drop("bad_path")
       \/ KnownPath(F) /\ ~Confident(F) /\ Drop("low_confidence")
       \/ KnownPath(F) /\ Confident(F) /\ Backwards(Lines(F)) /\ Drop("invalid")
       \/ /\ KnownPath(F) /\ Confident(F) /\ ~Backwards(Lines(F))
          /\ valid' = Append(valid, [src |-> judged', path |-> F.path,
                                     start |-> Lines(F)[1], end |-> Lines(F)[2]])
          /\ UNCHANGED dropped
    /\ UNCHANGED <<truncateVars, providerVars, promptVars, parsed, raw>>

CriticFailed == answer = "error" \/ parsed = "error"

CriticStep == WriteFile \/ CompletePrompt \/ ParseOutput \/ ValidateFinding
-----------------------------------------------------------------------------
CriticTypeOK ==
    /\ shown \in Seq(BOOLEAN) /\ promptLen \in Nat
    /\ parsed \in {"no", "yes", "error"}
    /\ raw \in Seq(Finding) /\ judged \in 0 .. Len(raw)
    /\ valid \in Seq([src : Nat, path : Int, start : Nat, end : Nat])
    /\ dropped \in [{"bad_path", "low_confidence", "invalid"} -> Nat]

(* The LLM sees whole patches only: the patch the detective cut at its byte *)
(* limit is marked omitted and never reaches the prompt, although its bytes *)
(* are counted as kept; and beyond the budget there are nothing but         *)
(* path-only notes (prompt.go:60-90, truncate.go:105).                      *)
ShownAreWhole ==
    /\ \A k \in DOMAIN shown : shown[k] =>
          processed[k].patch = files[k].len /\ files[k].len > 0
    /\ promptLen <= Max({charBudget, BaseLen}) + NoteLen * Len(shown)
=============================================================================
