------------------------------ MODULE Truncate ------------------------------
(***************************************************************************)
(* TruncatePRFiles of internal/detective/truncate.go: which changed files  *)
(* of a pull request keep their patch, under a limit on files and one on   *)
(* patch bytes.  One action is one file through one branch of the loop.    *)
(*                                                                         *)
(* A file is whether its path is on the skip list and how long its patch   *)
(* is (0: binary or empty); a processed file is how much of the patch is   *)
(* left and the reason it is marked omitted, "none" if it is not.          *)
(* detectLanguage only labels a file and is left out.                      *)
(***************************************************************************)
EXTENDS Integers, Sequences, FiniteSets, FiniteSetsExt

CONSTANTS
    Inputs,               \* lists of changed files GitHub may return
    MaxFiles,             \* DETECTIVE_MAX_FILES, not positive: use the default
    MaxPatchBytes,        \* DETECTIVE_MAX_PATCH_BYTES, not positive: use the default
    DefaultMaxFiles,      \* 40 in the code
    DefaultMaxPatchBytes  \* 409600 in the code

File == [skip : BOOLEAN, len : Nat]

ASSUME InputsAssumption == Inputs \subseteq Seq(File)
ASSUME TruncateAssumption == /\ {MaxFiles, MaxPatchBytes} \subseteq Int
                             /\ {DefaultMaxFiles, DefaultMaxPatchBytes} \subseteq Nat \ {0}

VARIABLES
    files,     \* the argument
    processed, \* the result so far
    info       \* the counters of TruncationInfo so far

truncateVars == <<files, processed, info>>

maxFiles == IF MaxFiles <= 0 THEN DefaultMaxFiles ELSE MaxFiles
maxPatchBytes == IF MaxPatchBytes <= 0 THEN DefaultMaxPatchBytes ELSE MaxPatchBytes

Reasons == {"none", "skipped_path", "max_files", "empty_patch", "max_bytes", "partial"}

TruncateInit ==
    /\ files \in Inputs
    /\ processed = <<>>
    /\ info = [included |-> 0, omitted |-> 0, total |-> 0, kept |-> 0, byBytes |-> FALSE]

TruncateDone == Len(processed) = Len(files)

(* The file the loop looks at. *)
Current == files[Len(processed) + 1]

Emit(patch, reason) ==
    /\ processed' = Append(processed, [patch |-> patch, reason |-> reason])
    /\ UNCHANGED files

(* What of maxPatchBytes is left. *)
Remaining == maxPatchBytes - info.kept

SkipPath ==
    /\ ~TruncateDone /\ Current.skip
    /\ Emit(0, "skipped_path")
    /\ info' = [info EXCEPT !.omitted = @ + 1]

(* Every branch below comes after the skip rules. *)
Considered == ~TruncateDone /\ ~Current.skip

(* The limit is one file too far on: KeptMatchesReference. *)
BugUnderFileLimit == info.included <= maxFiles

UnderFileLimit == info.included < maxFiles

OverFileLimit ==
    /\ Considered /\ ~UnderFileLimit
    /\ Emit(0, "max_files")
    /\ info' = [info EXCEPT !.omitted = @ + 1]

(* Counted as omitted and towards the file limit. *)
EmptyPatch ==
    /\ Considered /\ UnderFileLimit /\ Current.len = 0
    /\ Emit(0, "empty_patch")
    /\ info' = [info EXCEPT !.omitted = @ + 1, !.included = @ + 1]

HasPatch == Considered /\ UnderFileLimit /\ Current.len > 0

PatchFits ==
    /\ HasPatch /\ ~info.byBytes /\ Current.len <= Remaining
    /\ Emit(Current.len, "none")
    /\ info' = [info EXCEPT !.total = @ + Current.len, !.kept = @ + Current.len,
                            !.included = @ + 1]

(* The cut patch is counted neither way: CountersAddUp. *)
BugPatchCut ==
    /\ HasPatch /\ ~info.byBytes /\ Current.len > Remaining /\ Remaining > 0
    /\ Emit(Remaining, "partial")
    /\ info' = [info EXCEPT !.total = @ + Current.len, !.kept = @ + Remaining,
                            !.byBytes = TRUE]

(* The patch that reaches the limit is cut, marked omitted, and counted as  *)
(* included.                                                                *)
PatchCut ==
    /\ HasPatch /\ ~info.byBytes /\ Current.len > Remaining /\ Remaining > 0
    /\ Emit(Remaining, "partial")
    /\ info' = [info EXCEPT !.total = @ + Current.len, !.kept = @ + Remaining,
                            !.included = @ + 1, !.byBytes = TRUE]

(* Nothing is left, or a patch was cut before. *)
PatchDropped ==
    /\ HasPatch
    /\ info.byBytes \/ (Current.len > Remaining /\ Remaining = 0)
    /\ Emit(0, "max_bytes")
    /\ info' = [info EXCEPT !.total = @ + Current.len, !.omitted = @ + 1,
                            !.byBytes = TRUE]

(* TruncatedByFiles, once the loop has ended. *)
TruncatedByFiles == Len(files) > info.included

TruncateNext ==
    \/ SkipPath \/ OverFileLimit \/ EmptyPatch
    \/ PatchFits \/ PatchCut \/ PatchDropped

TruncateSpec == TruncateInit /\ [][TruncateNext]_truncateVars
-----------------------------------------------------------------------------
TruncateTypeOK ==
    /\ files \in Seq(File)
    /\ processed \in Seq([patch : Nat, reason : Reasons])
    /\ Len(processed) <= Len(files)
    /\ info \in [included : Nat, omitted : Nat, total : Nat, kept : Nat, byBytes : BOOLEAN]

(* The files before position k that are not on the skip list. *)
Before(k) == {i \in 1 .. (k - 1) : ~files[i].skip}

(* Sums(s)[k] is the sum of the first k elements of s. *)
Sums(s) ==
    LET sum[k \in 0 .. Len(s)] == IF k = 0 THEN 0 ELSE sum[k - 1] + s[k]
    IN  sum

(* The patch bytes of each file, none for one on the skip list. *)
Sizes == [i \in DOMAIN files |-> IF files[i].skip THEN 0 ELSE files[i].len]

BytesBefore(k) == Sums(Sizes)[k - 1]

(* What file k should keep: of the first maxFiles files that are not on the *)
(* skip list, the first maxPatchBytes bytes of their patches put together.  *)
Wanted(k) ==
    IF files[k].skip \/ Cardinality(Before(k)) >= maxFiles
    THEN 0
    ELSE Min({files[k].len, Max({0, maxPatchBytes - BytesBefore(k)})})

Patches == [k \in DOMAIN processed |-> processed[k].patch]

(* However skipped, empty, cut and dropped patches alternate, each file     *)
(* keeps what the two limits leave it and no more, and the bytes reported   *)
(* as kept are those of the result (truncate.go:33-119).                    *)
KeptMatchesReference ==
    /\ \A k \in DOMAIN processed : processed[k].patch = Wanted(k)
    /\ info.kept = Sums(Patches)[Len(processed)]
    /\ info.kept <= maxPatchBytes

(* The reasons of the files that do not count as included. *)
NotIncluded == {"skipped_path", "max_files", "max_bytes"}

WithReason(r) == {k \in DOMAIN processed : processed[k].reason = r}

(* Every file is counted as included or omitted, once, except one without   *)
(* a patch, which is counted both ways; never more than maxFiles are        *)
(* included; at most one patch is cut, and once the byte limit has taken    *)
(* effect all of its bytes are used, so that exactly one is cut unless the  *)
(* limit falls between two patches; and TruncatedByFiles reports that some  *)
(* file was on the skip list or fell to either limit (truncate.go:27-133).  *)
CountersAddUp ==
    /\ info.included + info.omitted
         = Len(processed) + Cardinality(WithReason("empty_patch"))
    /\ info.included <= maxFiles
    /\ info.byBytes <=> WithReason("partial") \cup WithReason("max_bytes") # {}
    /\ Cardinality(WithReason("partial")) <= 1
    /\ info.byBytes => info.kept = maxPatchBytes
    /\ TruncateDone => (TruncatedByFiles <=> \E r \in NotIncluded : WithReason(r) # {})
=============================================================================
