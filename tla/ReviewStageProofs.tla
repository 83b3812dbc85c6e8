------------------------- MODULE ReviewStageProofs -------------------------
(***************************************************************************)
(* Proofs about the other stages of Review: the truncation of the changed  *)
(* files, the prompt, the types of the whole review, and the account of    *)
(* the findings from the parsed output to the request.                     *)
(***************************************************************************)
EXTENDS ReviewProofs, FiniteSetTheorems, WellFoundedInduction

(* What the truncation has made of a file. *)
ProcessedFile == [patch : Nat, reason : Reasons]

(* The prompt is written once the truncation has ended. *)
ShownInOrder == /\ Len(shown) <= Len(processed)
                /\ Len(shown) > 0 => TruncateDone

(* Nothing is judged before the output is parsed. *)
JudgedAfterParsing == parsed = "no" => judged = 0

(* Only files that kept their whole, non-empty patch are left unmarked.     *)
UnmarkedAreWhole ==
    \A k \in 1 .. Len(processed) :
        processed[k].reason = "none" =>
            processed[k].patch = files[k].len /\ files[k].len > 0

(* Only unmarked files are shown.                                           *)
ShownAreUnmarked == \A k \in 1 .. Len(shown) : shown[k] => processed[k].reason = "none"

(* The prompt is beyond its budget by at most a note for each file.          *)
PromptBound == promptLen <= Max({charBudget, BaseLen}) + NoteLen * Len(shown)

-----------------------------------------------------------------------------
(* Numbers, and sums of sequences of them.                                  *)

(* The larger of two numbers. *)
LEMMA MaxOfTwo ==
    ASSUME NEW a \in Int, NEW b \in Int
    PROVE  Max({a, b}) = IF a >= b THEN a ELSE b
  <1>1. \E x \in {a, b} : \A y \in {a, b} : x >= y
    OBVIOUS
  <1>2. Max({a, b}) \in {a, b} /\ \A y \in {a, b} : Max({a, b}) >= y
    BY <1>1 DEF Max
  <1> QED
    BY <1>2

LessThan == OpToRel(<, Nat)

(* Every non-empty set of naturals has a least element. *)
LEMMA LeastNatural ==
    ASSUME NEW T, T \subseteq Nat, T # {}
    PROVE  \E x \in T : \A y \in T : ~(y < x)
  <1>1. IsWellFoundedOn(LessThan, Nat)
    BY NatLessThanWellFounded DEF LessThan
  <1>2. PICK x \in T : \A y \in T : <<y, x>> \notin LessThan
    BY <1>1, WFMin
  <1>3. \A y \in Nat : y < x => <<y, x>> \in LessThan
    BY <1>2, Zenon DEF LessThan, OpToRel
  <1> QED
    BY <1>2, <1>3

(* Induction, of a set of naturals. *)
LEMMA NatInductionOnSet ==
    ASSUME NEW T, T \subseteq Nat, 0 \in T, \A n \in T : n + 1 \in T
    PROVE  T = Nat
  <1> SUFFICES ASSUME Nat \ T # {} PROVE FALSE
    OBVIOUS
  <1>1. PICK x \in Nat \ T : \A y \in Nat \ T : ~(y < x)
    BY LeastNatural
  <1>2. x # 0 /\ x - 1 \in Nat /\ x - 1 < x /\ (x - 1) + 1 = x
    OBVIOUS
  <1>3. x - 1 \in T
    BY <1>1, <1>2
  <1> QED
    BY <1>2, <1>3

(* A function on the first positions is a sequence. *)
LEMMA SequenceOfNaturals ==
    ASSUME NEW n \in Nat, NEW f \in [1 .. n -> Nat]
    PROVE  f \in Seq(Nat) /\ Len(f) = n
  <1>1. f \in Seq(Nat)
    OBVIOUS
  <1>2. DOMAIN f = 1 .. Len(f) /\ Len(f) \in Nat /\ DOMAIN f = 1 .. n
    BY <1>1, LenProperties
  <1> QED
    BY <1>1, <1>2

(* g gives the sums of the first elements of s, up to n of them. *)
SumsUpTo(s, n, g) ==
    g = [k \in 0 .. n |-> IF k = 0 THEN 0 ELSE g[k - 1] + s[k]]

(* Such a function exists, and Sums is one. *)
LEMMA SumsDefined ==
    ASSUME NEW s, Len(s) \in Nat
    PROVE  SumsUpTo(s, Len(s), Sums(s))
  <1> DEFINE T == {m \in Nat : \E g : SumsUpTo(s, m, g)}
  <1>1. 0 \in T
    <2>1. SumsUpTo(s, 0, [k \in 0 .. 0 |-> 0])
      BY DEF SumsUpTo
    <2> QED
      BY <2>1
  <1>2. ASSUME NEW m \in T PROVE m + 1 \in T
    <2>1. PICK g : SumsUpTo(s, m, g)
      OBVIOUS
    <2> DEFINE h == [k \in 0 .. m + 1 |-> IF k = m + 1 THEN g[m] + s[m + 1] ELSE g[k]]
    <2>2. m \in Nat /\ m + 1 \in Nat
      OBVIOUS
    <2>3. \A k \in 0 .. m : g[k] = IF k = 0 THEN 0 ELSE g[k - 1] + s[k]
      BY <2>1 DEF SumsUpTo
    <2>4. ASSUME NEW k \in 0 .. m + 1
          PROVE  h[k] = IF k = 0 THEN 0 ELSE h[k - 1] + s[k]
      <3>1. CASE k = m + 1
        <4>1. k # 0 /\ k - 1 = m /\ m \in 0 .. m + 1 /\ m # m + 1
          BY <2>2, <3>1
        <4> QED
          BY <3>1, <4>1
      <3>2. CASE k # m + 1
        <4>1. k \in 0 .. m /\ (k # 0 => k - 1 \in 0 .. m + 1 /\ k - 1 # m + 1)
          BY <2>2, <3>2
        <4> QED
          BY <2>3, <3>2, <4>1
      <3> QED
        BY <3>1, <3>2
    <2>5. h = [k \in 0 .. m + 1 |-> h[k]]
      OBVIOUS
    <2> HIDE DEF h
    <2>6. SumsUpTo(s, m + 1, h)
      BY <2>4, <2>5 DEF SumsUpTo
    <2> QED
      BY <2>2, <2>6
  <1> HIDE DEF T
  <1>3. T \subseteq Nat
    BY DEF T
  <1>4. Len(s) \in T
    BY <1>1, <1>2, <1>3, NatInductionOnSet
  <1>5. PICK g : SumsUpTo(s, Len(s), g)
    BY <1>4 DEF T
  <1> QED
    BY <1>5 DEF SumsUpTo, Sums

(* A sum starts from 0, and every element is added to the sum before it. *)
LEMMA SumsStep ==
    ASSUME NEW s, Len(s) \in Nat
    PROVE  /\ Sums(s)[0] = 0
           /\ \A k \in 1 .. Len(s) : Sums(s)[k] = Sums(s)[k - 1] + s[k]
  <1>1. SumsUpTo(s, Len(s), Sums(s))
    BY SumsDefined
  <1>2. \A k \in 0 .. Len(s) : Sums(s)[k] = IF k = 0 THEN 0 ELSE Sums(s)[k - 1] + s[k]
    BY <1>1, Zenon DEF SumsUpTo
  <1> QED
    BY <1>2

(* The sums of sequences that begin alike begin alike, ... *)
LEMMA SumsOfPrefix ==
    ASSUME NEW s, NEW t, Len(s) \in Nat, Len(t) \in Nat, Len(s) <= Len(t),
           \A k \in 1 .. Len(s) : t[k] = s[k]
    PROVE  \A k \in 0 .. Len(s) : Sums(t)[k] = Sums(s)[k]
  <1> DEFINE T == {m \in Nat : m <= Len(s) => Sums(t)[m] = Sums(s)[m]}
  <1>1. 0 \in T
    BY SumsStep
  <1>2. ASSUME NEW m \in T PROVE m + 1 \in T
    <2> SUFFICES ASSUME m + 1 <= Len(s) PROVE Sums(t)[m + 1] = Sums(s)[m + 1]
      OBVIOUS
    <2>1. m + 1 \in 1 .. Len(s) /\ m + 1 \in 1 .. Len(t) /\ (m + 1) - 1 = m /\ m <= Len(s)
      OBVIOUS
    <2>2. Sums(t)[m + 1] = Sums(t)[m] + t[m + 1] /\ Sums(s)[m + 1] = Sums(s)[m] + s[m + 1]
      BY <2>1, SumsStep
    <2> QED
      BY <2>1, <2>2
  <1>3. T = Nat
    <2> HIDE DEF T
    <2>1. T \subseteq Nat
      BY DEF T
    <2> QED
      BY <1>1, <1>2, <2>1, NatInductionOnSet
  <1> QED
    BY <1>3

(* ... and those of naturals are naturals. *)
LEMMA SumsOfNaturals ==
    ASSUME NEW s \in Seq(Nat)
    PROVE  \A k \in 0 .. Len(s) : Sums(s)[k] \in Nat
  <1> DEFINE T == {m \in Nat : m <= Len(s) => Sums(s)[m] \in Nat}
  <1>0. Len(s) \in Nat /\ \A k \in 1 .. Len(s) : s[k] \in Nat
    BY LenProperties, ElementOfSeq
  <1>1. 0 \in T
    BY <1>0, SumsStep
  <1>2. ASSUME NEW m \in T PROVE m + 1 \in T
    <2> SUFFICES ASSUME m + 1 <= Len(s) PROVE Sums(s)[m + 1] \in Nat
      OBVIOUS
    <2>1. m + 1 \in 1 .. Len(s) /\ (m + 1) - 1 = m /\ m <= Len(s)
      BY <1>0
    <2>2. Sums(s)[m + 1] = Sums(s)[m] + s[m + 1]
      BY <1>0, <2>1, SumsStep
    <2>3. Sums(s)[m] \in Nat /\ s[m + 1] \in Nat
      BY <1>0, <2>1
    <2> QED
      BY <2>2, <2>3
  <1>3. T = Nat
    <2> HIDE DEF T
    <2>1. T \subseteq Nat
      BY DEF T
    <2> QED
      BY <1>1, <1>2, <2>1, NatInductionOnSet
  <1> QED
    BY <1>0, <1>3

-----------------------------------------------------------------------------
(* The truncation.                                                          *)

(* A file is not included for one of three reasons. *)
IncludedInv ==
    /\ info.included <= Len(processed)
    /\ info.included < Len(processed) => \E r \in NotIncluded : WithReason(r) # {}
    /\ \A r \in NotIncluded : WithReason(r) # {} => info.included < Len(processed)

TruncInv == TruncateTypeOK /\ CountersAddUp /\ UnmarkedAreWhole /\ IncludedInv

(* So TruncatedByFiles reports that there is one. *)
LEMMA IncludedTells ==
    ASSUME TruncateTypeOK, IncludedInv, TruncateDone
    PROVE  TruncatedByFiles <=> \E r \in NotIncluded : WithReason(r) # {}
  <1>1. Len(processed) = Len(files) /\ Len(files) \in Nat /\ info.included \in Nat
    BY LenProperties DEF TruncateTypeOK, TruncateDone
  <1>2. TruncatedByFiles <=> info.included < Len(processed)
    BY <1>1 DEF TruncatedByFiles
  <1> QED
    BY <1>2 DEF IncludedInv

(* Every step of the composed review is a step of the truncation, or leaves *)
(* it alone.                                                                *)
LEMMA TruncateAlone == [Next]_vars => [TruncateNext]_truncateVars
  <1> USE DEF requestVars
  <1>1. MapFinding => UNCHANGED truncateVars
    BY DEF MapFinding
  <1>2. CriticStep => UNCHANGED truncateVars
    BY DEF CriticStep, WriteFile, CompletePrompt, ParseOutput, ValidateFinding
  <1>3. UNCHANGED vars => UNCHANGED truncateVars
    BY DEF vars
  <1> QED
    BY <1>1, <1>2, <1>3 DEF Next, DetectiveStep

(* The files with one reason are finitely many. *)
LEMMA WithReasonFinite ==
    ASSUME TruncateTypeOK, NEW r
    PROVE  /\ WithReason(r) \subseteq 1 .. Len(processed)
           /\ IsFiniteSet(WithReason(r)) /\ Cardinality(WithReason(r)) \in Nat
  <1>1. Len(processed) \in Nat /\ DOMAIN processed = 1 .. Len(processed)
    BY LenProperties DEF TruncateTypeOK
  <1>2. IsFiniteSet(1 .. Len(processed))
    BY <1>1, FS_Interval
  <1>3. WithReason(r) \subseteq 1 .. Len(processed)
    BY <1>1 DEF WithReason
  <1>4. IsFiniteSet(WithReason(r))
    BY <1>2, <1>3, FS_Subset
  <1> QED
    BY <1>3, <1>4, FS_CardinalityType

(* One file more is processed, for one reason more. *)
LEMMA EmitAdds ==
    ASSUME TruncateTypeOK, ~TruncateDone, NEW p \in Nat, NEW r \in Reasons, Emit(p, r)
    PROVE  LET n == Len(processed) + 1 IN
           /\ n \in 1 .. Len(files) /\ Len(processed') = n
           /\ processed' \in Seq(ProcessedFile)
           /\ processed'[n] = [patch |-> p, reason |-> r]
           /\ \A k \in 1 .. Len(processed) : processed'[k] = processed[k]
           /\ \A x : WithReason(x)' =
                 IF x = r THEN WithReason(x) \cup {n} ELSE WithReason(x)
           /\ \A x : Cardinality(WithReason(x)') =
                 IF x = r THEN Cardinality(WithReason(x)) + 1 ELSE Cardinality(WithReason(x))
           /\ UNCHANGED files
  <1> DEFINE n == Len(processed) + 1
             e == [patch |-> p, reason |-> r]
  <1>1. /\ processed \in Seq(ProcessedFile) /\ files \in Seq(File)
        /\ Len(processed) \in Nat /\ Len(files) \in Nat
        /\ Len(processed) <= Len(files) /\ Len(processed) # Len(files)
    BY LenProperties DEF TruncateTypeOK, ProcessedFile, TruncateDone
  <1>2. n \in 1 .. Len(files)
    BY <1>1
  <1>3. e \in ProcessedFile /\ e.reason = r
    BY DEF ProcessedFile
  <1>4. processed' = Append(processed, e) /\ UNCHANGED files
    BY DEF Emit
  <1> HIDE DEF e
  <1>5. /\ processed' \in Seq(ProcessedFile) /\ Len(processed') = n
        /\ processed'[n] = e
        /\ \A k \in 1 .. Len(processed) : processed'[k] = processed[k]
    BY <1>1, <1>3, <1>4, AppendProperties
  <1>6. /\ DOMAIN processed = 1 .. Len(processed) /\ DOMAIN processed' = 1 .. n
        /\ 1 .. n = (1 .. Len(processed)) \cup {n} /\ n \notin 1 .. Len(processed)
    BY <1>1, <1>5, LenProperties
  <1>7. ASSUME NEW x
        PROVE  WithReason(x)' = IF x = r THEN WithReason(x) \cup {n} ELSE WithReason(x)
    BY <1>3, <1>5, <1>6 DEF WithReason
  <1>8. ASSUME NEW x
        PROVE  Cardinality(WithReason(x)') =
                 IF x = r THEN Cardinality(WithReason(x)) + 1 ELSE Cardinality(WithReason(x))
    <2>1. IsFiniteSet(WithReason(x)) /\ n \notin WithReason(x)
      BY <1>6, WithReasonFinite
    <2> HIDE DEF n
    <2>2. Cardinality(WithReason(x) \cup {n}) = Cardinality(WithReason(x)) + 1
      BY <2>1, FS_AddElement
    <2> QED
      BY <1>7, <2>2
  <1> QED
    BY <1>2, <1>4, <1>5, <1>7, <1>8 DEF e

(* The limits in force are positive. *)
LEMMA LimitTypes == maxFiles \in Nat \ {0} /\ maxPatchBytes \in Nat \ {0}
  BY TruncateAssumption DEF maxFiles, maxPatchBytes

(* The same, of the next state. *)
LEMMA IncludedTellsNext ==
    TruncateTypeOK' /\ IncludedInv' /\ TruncateDone' =>
        (TruncatedByFiles <=> \E r \in NotIncluded : WithReason(r) # {})'
  BY IncludedTells, PTL

Counters ==
    [included : Nat, omitted : Nat, total : Nat, kept : Nat, byBytes : BOOLEAN]

(* One file more with reason r counts i times as included and o times as    *)
(* omitted ...                                                              *)
Counts(r, i, o) ==
    /\ info'.included = info.included + i /\ info'.omitted = info.omitted + o
    /\ i + o = IF r = "empty_patch" THEN 2 ELSE 1
    /\ i = IF r \in NotIncluded THEN 0 ELSE 1

(* ... and is remembered if it reached the byte limit, once, with all bytes *)
(* used.                                                                    *)
Marks(r) ==
    /\ info'.byBytes => info'.kept = maxPatchBytes
    /\ info'.byBytes <=> info.byBytes \/ r \in {"partial", "max_bytes"}
    /\ r = "partial" => ~info.byBytes

(* What a step does to the counters is what it does to the sets they count. *)
LEMMA TruncInv_Emit ==
    ASSUME TruncInv, ~TruncateDone, NEW p \in Nat, NEW r \in Reasons, Emit(p, r),
           NEW i \in {0, 1}, NEW o \in {0, 1}, Counts(r, i, o), Marks(r),
           info' \in Counters, i = 1 => UnderFileLimit,
           r = "none" => p = Current.len /\ Current.len > 0
    PROVE  TruncInv'
  <1> DEFINE n == Len(processed) + 1
  <1>1. TruncateTypeOK /\ CountersAddUp /\ UnmarkedAreWhole /\ IncludedInv
    BY DEF TruncInv
  <1>2. /\ n \in 1 .. Len(files) /\ Len(processed') = n
        /\ processed' \in Seq(ProcessedFile)
        /\ processed'[n] = [patch |-> p, reason |-> r]
        /\ \A k \in 1 .. Len(processed) : processed'[k] = processed[k]
        /\ UNCHANGED files
    BY <1>1, EmitAdds
  <1>3. \A x : WithReason(x)' = IF x = r THEN WithReason(x) \cup {n} ELSE WithReason(x)
    BY <1>1, EmitAdds
  <1>4. \A x : /\ Cardinality(WithReason(x)) \in Nat
               /\ Cardinality(WithReason(x)') =
                    IF x = r THEN Cardinality(WithReason(x)) + 1 ELSE Cardinality(WithReason(x))
    <2>1. \A x : Cardinality(WithReason(x)) \in Nat
      BY <1>1, WithReasonFinite
    <2>2. \A x : Cardinality(WithReason(x)') =
             IF x = r THEN Cardinality(WithReason(x)) + 1 ELSE Cardinality(WithReason(x))
      BY <1>1, EmitAdds
    <2> QED
      BY <2>1, <2>2
  <1>5. /\ Len(processed) \in Nat /\ Len(files) \in Nat
        /\ info.included \in Nat /\ info.omitted \in Nat
    BY <1>1, LenProperties DEF TruncateTypeOK
  <1>6. TruncateTypeOK'
    BY <1>1, <1>2, <1>5 DEF TruncateTypeOK, ProcessedFile, Counters
  <1>9. IncludedInv'
    <2>0. PICK a \in Nat, m \in Nat : a = info.included /\ m = Len(processed)
      BY <1>5
    <2>1. info'.included = a + i /\ Len(processed') = m + 1 /\ a <= m
      BY <1>1, <1>2, <2>0 DEF Counts, IncludedInv
    <2>2. CASE r \in NotIncluded
      <3>1. i = 0 /\ WithReason(r)' # {}
        BY <1>3, <2>2 DEF Counts
      <3>2. info'.included < Len(processed')
        BY <2>1, <3>1
      <3> QED
        BY <2>1, <2>2, <3>1, <3>2 DEF IncludedInv
    <2>3. CASE r \notin NotIncluded
      <3>1. i = 1 /\ \A x \in NotIncluded : WithReason(x)' = WithReason(x)
        BY <1>3, <2>3 DEF Counts
      <3>2. info'.included < Len(processed') <=> info.included < Len(processed)
        BY <2>0, <2>1, <3>1
      <3>3. info'.included <= Len(processed')
        BY <2>1, <3>1
      <3> QED
        BY <1>1, <3>1, <3>2, <3>3 DEF IncludedInv
    <2> QED
      BY <2>2, <2>3
  <1>7. CountersAddUp'
    <2>1. info'.included + info'.omitted
            = Len(processed') + Cardinality(WithReason("empty_patch")')
      <3>1. info.included + info.omitted
              = Len(processed) + Cardinality(WithReason("empty_patch"))
        BY <1>1 DEF CountersAddUp
      <3>2. Cardinality(WithReason("empty_patch")')
              = IF r = "empty_patch" THEN Cardinality(WithReason("empty_patch")) + 1
                                     ELSE Cardinality(WithReason("empty_patch"))
        BY <1>4
      <3>3. Cardinality(WithReason("empty_patch")) \in Nat
        BY <1>4
      <3> QED
        <4>1. /\ info'.included = info.included + i /\ info'.omitted = info.omitted + o
              /\ i + o = IF r = "empty_patch" THEN 2 ELSE 1
          BY DEF Counts
        <4>2. Len(processed') = Len(processed) + 1
          BY <1>2
        <4>3. PICK c \in Nat, d \in Int :
                 /\ c = Cardinality(WithReason("empty_patch"))
                 /\ d = Cardinality(WithReason("empty_patch")')
          BY <3>2, <3>3
        <4> PICK a \in Nat, b \in Nat, m \in Nat :
               a = info.included /\ b = info.omitted /\ m = Len(processed)
          BY <1>5
        <4>4. info.included + i + (info.omitted + o) = Len(processed) + 1 + d
          <5>1. info.included + info.omitted = Len(processed) + c
            BY <3>1, <4>3
          <5>2. d = IF r = "empty_patch" THEN c + 1 ELSE c
            BY <3>2, <4>3
          <5>3. a + b = m + c
            BY <5>1
          <5>4. CASE r = "empty_patch"
            <6>1. i = 1 /\ o = 1 /\ d = c + 1
              BY <4>1, <5>2, <5>4
            <6> QED
              BY <5>3, <6>1
          <5>5. CASE r # "empty_patch"
            <6>1. i + o = 1 /\ d = c
              BY <4>1, <5>2, <5>5
            <6>2. CASE i = 0
              <7>1. o = 1
                BY <6>1, <6>2
              <7> QED
                BY <5>3, <6>1, <6>2, <7>1
            <6>3. CASE i = 1
              <7>1. o = 0
                BY <6>1, <6>3
              <7> QED
                BY <5>3, <6>1, <6>3, <7>1
            <6> QED
              BY <6>2, <6>3
          <5> QED
            BY <5>4, <5>5
        <4> QED
          BY <4>1, <4>2, <4>3, <4>4
    <2>2. info'.included <= maxFiles
      <3>1. info.included <= maxFiles
        BY <1>1 DEF CountersAddUp
      <3> QED
        BY <1>5, <3>1, LimitTypes DEF UnderFileLimit, Counts
    <2>3. info'.byBytes <=> WithReason("partial")' \cup WithReason("max_bytes")' # {}
      <3>1. info.byBytes <=> WithReason("partial") \cup WithReason("max_bytes") # {}
        BY <1>1 DEF CountersAddUp
      <3>2. CASE r \in {"partial", "max_bytes"}
        BY <1>3, <3>2 DEF Marks
      <3>3. CASE r \notin {"partial", "max_bytes"}
        BY <1>3, <3>1, <3>3 DEF Marks
      <3> QED
        BY <3>2, <3>3
    <2>4. Cardinality(WithReason("partial")') <= 1
      <3>1. CASE r = "partial"
        <4>1. WithReason("partial") = {}
          BY <1>1, <3>1 DEF CountersAddUp, Marks
        <4>2. Cardinality(WithReason("partial")) = 0
          BY <4>1, FS_EmptySet
        <4> QED
          BY <1>4, <3>1, <4>2
      <3>2. CASE r # "partial"
        BY <1>1, <1>4, <3>2 DEF CountersAddUp
      <3> QED
        BY <3>1, <3>2
    <2>5. info'.byBytes => info'.kept = maxPatchBytes
      BY DEF Marks
    <2>6. ASSUME TruncateDone'
          PROVE  (TruncatedByFiles <=> \E x \in NotIncluded : WithReason(x) # {})'
      BY <1>6, <1>9, <2>6, IncludedTellsNext
    <2> QED
      BY <2>1, <2>2, <2>3, <2>4, <2>5, <2>6 DEF CountersAddUp, maxPatchBytes
  <1>8. UnmarkedAreWhole'
    <2> SUFFICES ASSUME NEW k \in 1 .. n, processed'[k].reason = "none"
                 PROVE  processed'[k].patch = files[k].len /\ files[k].len > 0
      BY <1>2 DEF UnmarkedAreWhole
    <2>1. CASE k = n
      BY <1>2, <2>1 DEF Current
    <2>2. CASE k # n
      <3>1. k \in 1 .. Len(processed)
        BY <1>5, <2>2
      <3> QED
        BY <1>1, <1>2, <3>1 DEF UnmarkedAreWhole
    <2> QED
      BY <2>1, <2>2
  <1> QED
    BY <1>6, <1>7, <1>8, <1>9 DEF TruncInv

(* New numbers in the counters leave them counters. *)
LEMMA CounterTypes ==
    ASSUME NEW c \in Counters, NEW x \in Nat, NEW y \in Nat, NEW z \in Nat
    PROVE  /\ [c EXCEPT !.omitted = x, !.included = y] \in Counters
           /\ [c EXCEPT !.total = x, !.kept = y, !.included = z] \in Counters
           /\ [c EXCEPT !.total = x, !.kept = y, !.included = z, !.byBytes = TRUE] \in Counters
           /\ [c EXCEPT !.total = x, !.omitted = y, !.byBytes = TRUE] \in Counters
  <1> USE DEF Counters
  <1>1. [c EXCEPT !.omitted = x, !.included = y] \in Counters
    OBVIOUS
  <1>2. [c EXCEPT !.total = x, !.kept = y, !.included = z] \in Counters
    OBVIOUS
  <1>3. [c EXCEPT !.total = x, !.kept = y, !.included = z, !.byBytes = TRUE] \in Counters
    OBVIOUS
  <1>4. [c EXCEPT !.total = x, !.omitted = y, !.byBytes = TRUE] \in Counters
    OBVIOUS
  <1> QED
    BY <1>1, <1>2, <1>3, <1>4

(* Each branch of the loop is such a step. *)
LEMMA TruncInv_Next == TruncInv /\ [TruncateNext]_truncateVars => TruncInv'
  <1> SUFFICES ASSUME TruncInv, TruncateNext PROVE TruncInv'
    <2>1. TruncInv /\ UNCHANGED truncateVars => TruncInv'
      BY DEF truncateVars, TruncInv, TruncateTypeOK, CountersAddUp, UnmarkedAreWhole,
             IncludedInv, WithReason, TruncateDone, TruncatedByFiles
    <2> QED
      BY <2>1
  <1>1. /\ info \in [included : Nat, omitted : Nat, total : Nat, kept : Nat, byBytes : BOOLEAN]
        /\ maxPatchBytes \in Nat
        /\ ~TruncateDone => Current.len \in Nat
        /\ info.byBytes => info.kept = maxPatchBytes
    <2>1. ~TruncateDone => Current \in File
      <3>1. /\ Len(processed) \in Nat /\ Len(files) \in Nat /\ Len(processed) <= Len(files)
            /\ files \in Seq(File)
        BY LenProperties DEF TruncInv, TruncateTypeOK
      <3>2. ~TruncateDone => Len(processed) + 1 \in 1 .. Len(files)
        BY <3>1 DEF TruncateDone
      <3> QED
        BY <3>1, <3>2, ElementOfSeq DEF Current
    <2> QED
      BY <2>1, LimitTypes DEF TruncInv, TruncateTypeOK, CountersAddUp, File
  <1> USE DEF Reasons, NotIncluded
  <1>2. CASE SkipPath
    <2>1. ~TruncateDone /\ Emit(0, "skipped_path")
      BY <1>2 DEF SkipPath
    <2>2. info' \in Counters /\ Counts("skipped_path", 0, 1)
      BY <1>1, <1>2 DEF SkipPath, Counters, Counts
    <2>3. Marks("skipped_path")
      BY <1>1, <1>2 DEF SkipPath, Marks
    <2> QED
      BY <2>1, <2>2, <2>3, TruncInv_Emit
  <1>3. CASE OverFileLimit
    <2>1. ~TruncateDone /\ Emit(0, "max_files")
      BY <1>3 DEF OverFileLimit, Considered
    <2>2. info' \in Counters /\ Counts("max_files", 0, 1)
      BY <1>1, <1>3 DEF OverFileLimit, Considered, Counters, Counts
    <2>3. Marks("max_files")
      BY <1>1, <1>3 DEF OverFileLimit, Considered, Marks
    <2> QED
      BY <2>1, <2>2, <2>3, TruncInv_Emit
  <1>4. CASE EmptyPatch
    <2>1. ~TruncateDone /\ Emit(0, "empty_patch") /\ UnderFileLimit
      BY <1>4 DEF EmptyPatch, Considered
    <2>2. info' \in Counters /\ Counts("empty_patch", 1, 1)
      <3>1. info' = [info EXCEPT !.omitted = @ + 1, !.included = @ + 1]
        BY <1>4 DEF EmptyPatch
      <3>3. info' \in Counters
        <4>1. info \in Counters /\ info.omitted + 1 \in Nat /\ info.included + 1 \in Nat
          BY <1>1 DEF Counters
        <4> QED
          BY <3>1, <4>1, CounterTypes
      <3>4. Counts("empty_patch", 1, 1)
        BY <1>1, <3>1 DEF Counts
      <3> QED
        BY <3>3, <3>4
    <2>3. Marks("empty_patch")
      BY <1>1, <1>4 DEF EmptyPatch, Considered, Marks
    <2> QED
      BY <2>1, <2>2, <2>3, TruncInv_Emit
  <1>5. CASE PatchFits
    <2>1. ~TruncateDone /\ Emit(Current.len, "none") /\ UnderFileLimit
      BY <1>5 DEF PatchFits, HasPatch, Considered
    <2>2. info' \in Counters /\ Counts("none", 1, 0)
      <3>1. info' = [info EXCEPT !.total = @ + Current.len, !.kept = @ + Current.len,
                                  !.included = @ + 1]
        BY <1>5 DEF PatchFits
      <3>2. Current.len \in Nat
        BY <1>1, <1>5 DEF PatchFits, HasPatch, Considered
      <3>3. info' \in Counters
        <4>1. /\ info \in Counters
              /\ info.total + Current.len \in Nat /\ info.kept + Current.len \in Nat
              /\ info.included + 1 \in Nat
          BY <1>1, <3>2 DEF Counters
        <4> QED
          BY <3>1, <4>1, CounterTypes
      <3>4. Counts("none", 1, 0)
        BY <1>1, <3>1, <3>2 DEF Counts
      <3> QED
        BY <3>3, <3>4
    <2>3. Marks("none")
      BY <1>1, <1>5 DEF PatchFits, HasPatch, Considered, Marks
    <2>4. Current.len \in Nat /\ Current.len > 0
      BY <1>1, <1>5 DEF PatchFits, HasPatch, Considered
    <2> QED
      BY <2>1, <2>2, <2>3, <2>4, TruncInv_Emit
  <1>6. CASE PatchCut
    <2>1. ~TruncateDone /\ Emit(Remaining, "partial") /\ UnderFileLimit
      BY <1>6 DEF PatchCut, HasPatch, Considered
    <2>2. info' \in Counters /\ Counts("partial", 1, 0)
      <3>1. info' = [info EXCEPT !.total = @ + Current.len, !.kept = @ + Remaining,
                                  !.included = @ + 1, !.byBytes = TRUE]
        BY <1>6 DEF PatchCut
      <3>2. Current.len \in Nat /\ Remaining \in Nat
        BY <1>1, <1>6 DEF PatchCut, HasPatch, Considered, Remaining
      <3>3. info' \in Counters
        <4>1. /\ info \in Counters
              /\ info.total + Current.len \in Nat /\ info.kept + Remaining \in Nat
              /\ info.included + 1 \in Nat
          BY <1>1, <3>2 DEF Counters
        <4> QED
          BY <3>1, <4>1, CounterTypes
      <3>4. Counts("partial", 1, 0)
        BY <1>1, <3>1, <3>2 DEF Counts
      <3> QED
        BY <3>3, <3>4
    <2>3. Marks("partial")
      <3>1. info'.byBytes /\ info'.kept = info.kept + Remaining /\ ~info.byBytes
        BY <1>1, <1>6 DEF PatchCut, Counters
      <3>2. info.kept + Remaining = maxPatchBytes
        BY <1>1, LimitTypes DEF Remaining, Counters
      <3> QED
        BY <3>1, <3>2 DEF Marks
    <2>4. Remaining \in Nat
      BY <1>1, <1>6 DEF PatchCut, Remaining
    <2> QED
      BY <2>1, <2>2, <2>3, <2>4, TruncInv_Emit
  <1>7. CASE PatchDropped
    <2>1. ~TruncateDone /\ Emit(0, "max_bytes")
      BY <1>7 DEF PatchDropped, HasPatch, Considered
    <2>2. info' \in Counters /\ Counts("max_bytes", 0, 1)
      <3>1. info' = [info EXCEPT !.total = @ + Current.len, !.omitted = @ + 1,
                                  !.byBytes = TRUE]
        BY <1>7 DEF PatchDropped
      <3>2. Current.len \in Nat
        BY <1>1, <1>7 DEF PatchDropped, HasPatch, Considered
      <3>3. info' \in Counters
        <4>1. /\ info \in Counters
              /\ info.total + Current.len \in Nat /\ info.omitted + 1 \in Nat
          BY <1>1, <3>2 DEF Counters
        <4> QED
          BY <3>1, <4>1, CounterTypes
      <3>4. Counts("max_bytes", 0, 1)
        BY <1>1, <3>1, <3>2 DEF Counts
      <3> QED
        BY <3>3, <3>4
    <2>3. Marks("max_bytes")
      <3>1. info'.byBytes /\ info'.kept = info.kept
        BY <1>1, <1>7 DEF PatchDropped, Counters
      <3>2. CASE info.byBytes
        BY <1>1, <3>1, <3>2 DEF CountersAddUp, Marks
      <3>3. CASE ~info.byBytes
        <4>1. Remaining = 0
          BY <1>7, <3>3 DEF PatchDropped
        <4>2. info.kept = maxPatchBytes
          BY <1>1, <4>1, LimitTypes DEF Remaining, Counters
        <4> QED
          BY <3>1, <4>2 DEF Marks
      <3> QED
        BY <3>2, <3>3
    <2> QED
      BY <2>1, <2>2, <2>3, TruncInv_Emit
  <1> QED
    BY <1>2, <1>3, <1>4, <1>5, <1>6, <1>7 DEF TruncateNext

(* Nothing is processed at first. *)
LEMMA TruncInv_Init == TruncateInit => TruncInv
  <1> SUFFICES ASSUME TruncateInit PROVE TruncInv
    OBVIOUS
  <1>1. processed \in Seq(ProcessedFile) /\ Len(processed) = 0 /\ DOMAIN processed = {}
    BY EmptySeq DEF TruncateInit
  <1>2. files \in Seq(File) /\ Len(files) \in Nat
    BY InputsAssumption, LenProperties DEF TruncateInit
  <1>3. \A r : WithReason(r) = {}
    BY <1>1 DEF WithReason
  <1>4. \A r : Cardinality(WithReason(r)) = 0
    BY <1>3, FS_EmptySet
  <1>5. CountersAddUp
    <2>1. info.included + info.omitted
         = Len(processed) + Cardinality(WithReason("empty_patch"))
      BY <1>1, <1>4 DEF TruncateInit
    <2>2. info.included <= maxFiles
      BY LimitTypes DEF TruncateInit
    <2>3. info.byBytes <=> WithReason("partial") \cup WithReason("max_bytes") # {}
      BY <1>3 DEF TruncateInit
    <2>4. Cardinality(WithReason("partial")) <= 1
      BY <1>4
    <2>5. info.byBytes = FALSE
      BY DEF TruncateInit
    <2>6. TruncateDone => (TruncatedByFiles <=> \E r \in NotIncluded : WithReason(r) # {})
      BY <1>1, <1>3 DEF TruncateInit, TruncateDone, TruncatedByFiles
    <2> QED
      BY <2>1, <2>2, <2>3, <2>4, <2>5, <2>6 DEF CountersAddUp
  <1>6. IncludedInv
    BY <1>1, <1>3 DEF TruncateInit, IncludedInv
  <1> QED
    BY <1>1, <1>2, <1>5, <1>6
       DEF TruncateInit, TruncInv, TruncateTypeOK, UnmarkedAreWhole, ProcessedFile

(* Through a whole review the truncation keeps its invariant. *)
LEMMA TruncInvariant == Spec => []TruncInv
  <1>1. Init => TruncInv
    BY TruncInv_Init DEF Init
  <1>2. TruncInv /\ [Next]_vars => TruncInv'
    BY TruncInv_Next, TruncateAlone
  <1> QED
    BY <1>1, <1>2, PTL DEF Spec

(* Every file is counted as included or omitted, once, except one without a *)
(* patch, which is counted both ways; the file limit is kept, one patch at  *)
(* most is cut, at the last byte, and the two flags tell what happened.     *)
THEOREM CountsAddUp == Spec => []CountersAddUp
  <1>1. TruncInv => CountersAddUp
    BY DEF TruncInv
  <1> QED
    BY <1>1, TruncInvariant, PTL

-----------------------------------------------------------------------------
(* KeptMatchesReference.                                                    *)

(* Of the first n files, n of them processed: the ones not on the skip list *)
(* and the bytes of their patches.                                          *)
FilesSeen == Cardinality(Before(Len(processed) + 1))

BytesSeen == BytesBefore(Len(processed) + 1)

(* What the counters c say of the limits when f files with b bytes were     *)
(* seen.  Until the byte limit is reached, every file seen counts as        *)
(* included, unless the file limit is, and then enough files were seen; ... *)
FilesCounted(f, c) ==
    ~c.byBytes => /\ c.included < maxFiles => f = c.included
                  /\ c.included >= maxFiles => f >= maxFiles

(* ... until either limit is reached, every byte seen is kept; ...          *)
BytesCounted(b, c) == ~c.byBytes /\ c.included < maxFiles => c.kept = b

(* ... and once the byte limit is, enough bytes were seen.                  *)
BytesExceeded(b, c) == c.byBytes => b >= maxPatchBytes

LimitsCounted(f, b, c) == FilesCounted(f, c) /\ BytesCounted(b, c) /\ BytesExceeded(b, c)

KeptInv == KeptMatchesReference /\ LimitsCounted(FilesSeen, BytesSeen, info)

(* What the limits leave a file of l bytes that is not on the skip list,    *)
(* after f of those with b bytes.                                           *)
Allowed(f, b, l) ==
    IF f >= maxFiles THEN 0
    ELSE IF b + l <= maxPatchBytes THEN l
    ELSE IF b <= maxPatchBytes THEN maxPatchBytes - b ELSE 0

(* It is the smaller of the patch and of what is left of the bytes.         *)
LEMMA AllowedIsMin ==
    ASSUME NEW f \in Nat, NEW b \in Nat, NEW l \in Nat
    PROVE  Allowed(f, b, l) = IF f >= maxFiles THEN 0
                              ELSE Min({l, Max({0, maxPatchBytes - b})})
  <1>1. PICK B \in Nat : B = maxPatchBytes
    BY LimitTypes
  <1>2. Max({0, B - b}) = IF b <= B THEN B - b ELSE 0
    <2>1. B - b \in Int /\ 0 \in Int
      OBVIOUS
    <2>2. Max({0, B - b}) = IF 0 >= B - b THEN 0 ELSE B - b
      BY <2>1, MaxOfTwo
    <2> QED
      BY <2>2
  <1>3. Min({l, Max({0, B - b})}) = IF b + l <= B THEN l ELSE IF b <= B THEN B - b ELSE 0
    <2>1. PICK m \in Nat : m = Max({0, B - b}) /\ m = IF b <= B THEN B - b ELSE 0
      BY <1>2
    <2>2. Min({l, m}) = IF l <= m THEN l ELSE m
      BY MinOfTwo
    <2>3. (IF l <= m THEN l ELSE m) = IF b + l <= B THEN l ELSE IF b <= B THEN B - b ELSE 0
      BY <2>1
    <2> QED
      BY <2>1, <2>2, <2>3
  <1> QED
    BY <1>1, <1>3 DEF Allowed

(* One file more is seen: the limits leave the next one what those seen     *)
(* leave of them.                                                           *)
LEMMA EmitSees ==
    ASSUME TruncInv, ~TruncateDone, NEW p \in Nat, NEW r \in Reasons, Emit(p, r)
    PROVE  /\ FilesSeen \in Nat /\ BytesSeen \in Nat /\ Current.len \in Nat
           /\ FilesSeen' = IF Current.skip THEN FilesSeen ELSE FilesSeen + 1
           /\ BytesSeen' = IF Current.skip THEN BytesSeen ELSE BytesSeen + Current.len
           /\ Sums(Patches)[Len(processed)] \in Nat
           /\ Sums(Patches')[Len(processed')] = Sums(Patches)[Len(processed)] + p
           /\ Wanted(Len(processed) + 1) =
                IF Current.skip \/ FilesSeen >= maxFiles THEN 0
                ELSE Min({Current.len, Max({0, maxPatchBytes - BytesSeen})})
           /\ Len(processed') = Len(processed) + 1
           /\ processed'[Len(processed) + 1].patch = p
           /\ \A k \in 1 .. Len(processed) : processed'[k].patch = processed[k].patch
           /\ \A k : Wanted(k)' = Wanted(k)
  <1>1. PICK n \in Nat : n = Len(processed)
    BY LenProperties DEF TruncInv, TruncateTypeOK
  <1>2. /\ n + 1 \in 1 .. Len(files) /\ Len(processed') = n + 1
        /\ processed' \in Seq(ProcessedFile)
        /\ processed'[n + 1] = [patch |-> p, reason |-> r]
        /\ \A k \in 1 .. n : processed'[k] = processed[k]
        /\ UNCHANGED files
    BY <1>1, EmitAdds DEF TruncInv
  <1>3. /\ files \in Seq(File) /\ DOMAIN files = 1 .. Len(files) /\ Len(files) \in Nat
        /\ \A k \in 1 .. Len(files) : files[k] \in File
    BY LenProperties, ElementOfSeq DEF TruncInv, TruncateTypeOK
  <1>4. Current = files[n + 1] /\ Current \in File /\ Current.len \in Nat
    BY <1>1, <1>2, <1>3 DEF Current, File
  <1>5. FilesSeen \in Nat /\ FilesSeen' = IF Current.skip THEN FilesSeen ELSE FilesSeen + 1
    <2>1. Before(n + 1) \subseteq 1 .. n /\ n + 1 \notin Before(n + 1)
      BY DEF Before
    <2>2. IsFiniteSet(Before(n + 1))
      <3>1. IsFiniteSet(1 .. n)
        BY FS_Interval
      <3> QED
        BY <2>1, <3>1, FS_Subset
    <2>3. 1 .. ((n + 1) + 1) - 1 = (1 .. (n + 1) - 1) \cup {n + 1}
      OBVIOUS
    <2>4. Before((n + 1) + 1) = IF files[n + 1].skip THEN Before(n + 1)
                                                     ELSE Before(n + 1) \cup {n + 1}
      BY <2>3 DEF Before
    <2>5. /\ Cardinality(Before(n + 1)) \in Nat
          /\ Cardinality(Before(n + 1) \cup {n + 1}) = Cardinality(Before(n + 1)) + 1
      BY <2>1, <2>2, FS_CardinalityType, FS_AddElement
    <2>6. FilesSeen = Cardinality(Before(n + 1)) /\ FilesSeen' = Cardinality(Before((n + 1) + 1))
      BY <1>1, <1>2 DEF FilesSeen, Before
    <2> QED
      BY <1>4, <2>4, <2>5, <2>6
  <1>6. BytesSeen \in Nat
        /\ BytesSeen' = IF Current.skip THEN BytesSeen ELSE BytesSeen + Current.len
    <2> DEFINE s == Sizes
    <2>1. /\ Len(s) = Len(files) /\ s \in Seq(Nat)
          /\ \A k \in 1 .. Len(files) : s[k] = IF files[k].skip THEN 0 ELSE files[k].len
      <3>1. s \in [1 .. Len(files) -> Nat]
        BY <1>3 DEF Sizes, File
      <3>2. s \in Seq(Nat) /\ Len(s) = Len(files)
        BY <1>3, <3>1, SequenceOfNaturals
      <3> QED
        BY <1>3, <3>2 DEF Sizes
    <2>2. BytesSeen = Sums(s)[n] /\ BytesSeen' = Sums(s)[n + 1]
      <3>1. (n + 1) - 1 = n /\ ((n + 1) + 1) - 1 = n + 1
        OBVIOUS
      <3> QED
        BY <1>1, <1>2, <3>1 DEF BytesSeen, BytesBefore, Sizes
    <2> HIDE DEF s
    <2>3. Sums(s)[n + 1] = Sums(s)[n] + s[n + 1] /\ Sums(s)[n] \in Nat
      <3>1. n + 1 \in 1 .. Len(s) /\ n \in 0 .. Len(s) /\ (n + 1) - 1 = n
        BY <1>2, <1>3, <2>1
      <3> QED
        BY <1>3, <2>1, <3>1, SumsStep, SumsOfNaturals
    <2> QED
      BY <1>2, <1>4, <2>1, <2>2, <2>3
  <1>7. /\ Sums(Patches)[n] \in Nat
        /\ Sums(Patches')[n + 1] = Sums(Patches)[n] + p
    <2> DEFINE s == Patches
               t == Patches'
    <2>1. /\ s \in Seq(Nat) /\ Len(s) = n
          /\ \A k \in 1 .. n : s[k] = processed[k].patch
      <3>1. processed \in Seq(ProcessedFile)
        BY DEF TruncInv, TruncateTypeOK, ProcessedFile
      <3>2. DOMAIN processed = 1 .. n /\ \A k \in 1 .. n : processed[k] \in ProcessedFile
        BY <1>1, <3>1, LenProperties, ElementOfSeq
      <3>3. \A k \in 1 .. n : processed[k].patch \in Nat
        BY <3>2 DEF ProcessedFile
      <3>4. s \in [1 .. n -> Nat] /\ \A k \in 1 .. n : s[k] = processed[k].patch
        BY <3>2, <3>3 DEF Patches
      <3> QED
        BY <3>4, SequenceOfNaturals
    <2>2. /\ t \in Seq(Nat) /\ Len(t) = n + 1
          /\ \A k \in 1 .. n + 1 : t[k] = processed'[k].patch
      <3>1. /\ DOMAIN processed' = 1 .. n + 1
            /\ \A k \in 1 .. n + 1 : processed'[k] \in ProcessedFile
        BY <1>2, LenProperties, ElementOfSeq
      <3>2. \A k \in 1 .. n + 1 : processed'[k].patch \in Nat
        BY <3>1 DEF ProcessedFile
      <3>3. t \in [1 .. n + 1 -> Nat] /\ \A k \in 1 .. n + 1 : t[k] = processed'[k].patch
        BY <3>1, <3>2 DEF Patches
      <3> HIDE DEF t
      <3>4. n + 1 \in Nat
        OBVIOUS
      <3>5. t \in Seq(Nat) /\ Len(t) = n + 1
        BY <3>3, <3>4, SequenceOfNaturals
      <3> QED
        BY <3>3, <3>5
    <2> HIDE DEF s, t
    <2>3. \A k \in 1 .. n : t[k] = s[k]
      <3>1. \A k \in 1 .. n : k \in 1 .. n + 1
        OBVIOUS
      <3> QED
        BY <1>2, <2>1, <2>2, <3>1
    <2>4. Sums(t)[n] = Sums(s)[n] /\ Sums(s)[n] \in Nat
      <3>1. /\ Len(s) \in Nat /\ Len(t) \in Nat /\ Len(s) <= Len(t) /\ n \in 0 .. Len(s)
            /\ \A k \in 1 .. Len(s) : t[k] = s[k]
        BY <2>1, <2>2, <2>3
      <3>2. \A k \in 0 .. Len(s) : Sums(t)[k] = Sums(s)[k]
        BY <3>1, SumsOfPrefix
      <3>3. \A k \in 0 .. Len(s) : Sums(s)[k] \in Nat
        BY <2>1, SumsOfNaturals
      <3> QED
        BY <3>1, <3>2, <3>3
    <2>5. Sums(t)[n + 1] = Sums(t)[n] + t[n + 1]
      <3>1. n + 1 \in 1 .. Len(t) /\ (n + 1) - 1 = n
        BY <2>2
      <3> QED
        BY <2>2, <3>1, SumsStep
    <2> QED
      BY <1>2, <2>2, <2>4, <2>5 DEF s, t
  <1>8. Wanted(n + 1) = IF Current.skip \/ FilesSeen >= maxFiles THEN 0
                        ELSE Min({Current.len, Max({0, maxPatchBytes - BytesSeen})})
    BY <1>1, <1>4 DEF Wanted, FilesSeen, BytesSeen
  <1>9. \A k : Wanted(k)' = Wanted(k)
    BY <1>2 DEF Wanted, Before, BytesBefore, Sizes
  <1> QED
    BY <1>1, <1>2, <1>4, <1>5, <1>6, <1>7, <1>8, <1>9

(* A file that gets what it should, counted as kept, keeps the result as it *)
(* should be.                                                               *)
LEMMA KeptMatches_Emit ==
    ASSUME TruncInv, KeptMatchesReference, ~TruncateDone, NEW p \in Nat, NEW r \in Reasons,
           Emit(p, r), p = Wanted(Len(processed) + 1),
           info'.kept = info.kept + p, info'.kept <= maxPatchBytes
    PROVE  KeptMatchesReference'
  <1>1. PICK n \in Nat : n = Len(processed)
    BY LenProperties DEF TruncInv, TruncateTypeOK
  <1>2. /\ Len(processed') = n + 1
        /\ processed'[n + 1].patch = p
        /\ \A k \in 1 .. n : processed'[k].patch = processed[k].patch
        /\ \A k : Wanted(k)' = Wanted(k)
        /\ Sums(Patches')[Len(processed')] = Sums(Patches)[Len(processed)] + p
    BY <1>1, EmitSees
  <1>3. DOMAIN processed = 1 .. n /\ DOMAIN processed' = 1 .. n + 1
    <2>1. processed' \in Seq(ProcessedFile)
      BY EmitAdds DEF TruncInv
    <2> QED
      BY <1>1, <1>2, <2>1, LenProperties DEF TruncInv, TruncateTypeOK
  <1>4. ASSUME NEW k \in 1 .. n + 1 PROVE processed'[k].patch = Wanted(k)'
    <2>1. CASE k = n + 1
      BY <1>1, <1>2, <2>1
    <2>2. CASE k # n + 1
      <3>1. k \in 1 .. n
        BY <2>2
      <3> QED
        BY <1>2, <1>3, <3>1 DEF KeptMatchesReference
    <2> QED
      BY <2>1, <2>2
  <1>5. info'.kept = Sums(Patches')[Len(processed')]
    BY <1>2 DEF KeptMatchesReference
  <1> QED
    BY <1>3, <1>4, <1>5 DEF KeptMatchesReference

(* A file that gets what the limits leave it keeps the invariant when the   *)
(* counters go on saying what was seen.                                     *)
LEMMA KeptInv_Emit ==
    ASSUME TruncInv, KeptInv, ~TruncateDone, NEW p \in Nat, NEW r \in Reasons,
           Emit(p, r), info'.kept = info.kept + p, info'.kept <= maxPatchBytes,
           NEW f \in Nat, f = FilesSeen, NEW b \in Nat, b = BytesSeen,
           NEW l \in Nat, l = Current.len,
           \/ Current.skip /\ p = 0 /\ LimitsCounted(f, b, info')
           \/ ~Current.skip /\ p = Allowed(f, b, l) /\ LimitsCounted(f + 1, b + l, info')
    PROVE  KeptInv'
  <1>1. p = Wanted(Len(processed) + 1)
    <2>1. Allowed(f, b, l) = IF f >= maxFiles THEN 0
                             ELSE Min({l, Max({0, maxPatchBytes - b})})
      BY AllowedIsMin
    <2>2. Wanted(Len(processed) + 1) =
                IF Current.skip \/ f >= maxFiles THEN 0
                ELSE Min({l, Max({0, maxPatchBytes - b})})
      BY EmitSees
    <2> QED
      BY <2>1, <2>2
  <1>2. KeptMatchesReference'
    BY <1>1, KeptMatches_Emit DEF KeptInv
  <1>3. \/ Current.skip /\ FilesSeen' = f /\ BytesSeen' = b
        \/ ~Current.skip /\ FilesSeen' = f + 1 /\ BytesSeen' = b + l
    BY EmitSees
  <1>4. LimitsCounted(FilesSeen', BytesSeen', info')
    BY <1>3
  <1>5. LimitsCounted(FilesSeen', BytesSeen', info') => LimitsCounted(FilesSeen, BytesSeen, info)'
    BY DEF LimitsCounted, FilesCounted, BytesCounted, BytesExceeded, maxFiles, maxPatchBytes
  <1> QED
    BY <1>2, <1>4, <1>5 DEF KeptInv

(* Each branch of the loop is such a step. *)
LEMMA KeptInv_Next == TruncInv /\ KeptInv /\ [TruncateNext]_truncateVars => KeptInv'
  <1> SUFFICES ASSUME TruncInv, KeptInv, TruncateNext PROVE KeptInv'
    <2>1. UNCHANGED truncateVars => UNCHANGED <<files, processed, info>>
      BY DEF truncateVars
    <2>2. KeptInv /\ UNCHANGED <<files, processed, info>> => KeptInv'
      BY DEF KeptInv, KeptMatchesReference, LimitsCounted, FilesCounted, BytesCounted,
             BytesExceeded, FilesSeen, BytesSeen, Wanted, Before, BytesBefore, Sizes, Patches
    <2> QED
      BY <2>1, <2>2
  <1>1. PICK M \in Nat, B \in Nat : M = maxFiles /\ B = maxPatchBytes
    BY LimitTypes
  <1>2. info \in Counters
    BY DEF TruncInv, TruncateTypeOK, Counters
  <1>3. PICK i \in Nat, t \in Nat, o \in Nat, T \in Nat :
           i = info.included /\ t = info.kept /\ o = info.omitted /\ T = info.total
    BY <1>2 DEF Counters
  <1>4. ~TruncateDone /\ \E p \in Nat : \E r \in Reasons : Emit(p, r)
    <2>1. maxPatchBytes - info.kept \in Nat \/ ~(Remaining > 0)
      BY <1>1, <1>3 DEF Remaining
    <2>2. ~TruncateDone => Current.len \in Nat
      <3>1. /\ Len(processed) \in Nat /\ Len(files) \in Nat /\ Len(processed) <= Len(files)
            /\ files \in Seq(File)
        BY LenProperties DEF TruncInv, TruncateTypeOK
      <3>2. ~TruncateDone => Len(processed) + 1 \in 1 .. Len(files)
        BY <3>1 DEF TruncateDone
      <3>3. ~TruncateDone => Current \in File
        BY <3>1, <3>2, ElementOfSeq DEF Current
      <3> QED
        BY <3>3 DEF File
    <2> QED
      BY <2>1, <2>2 DEF TruncateNext, SkipPath, OverFileLimit, EmptyPatch, PatchFits, PatchCut,
                        PatchDropped, HasPatch, Considered, Remaining, Reasons
  <1>5. PICK f \in Nat, b \in Nat, l \in Nat :
           f = FilesSeen /\ b = BytesSeen /\ l = Current.len
    BY <1>4, EmitSees
  <1>6. /\ KeptMatchesReference /\ t <= B /\ i <= M
        /\ LimitsCounted(f, b, info)
    BY <1>1, <1>3, <1>5 DEF KeptInv, KeptMatchesReference, TruncInv, CountersAddUp
  <1>7. CASE SkipPath
    <2>1. ~TruncateDone /\ Emit(0, "skipped_path") /\ Current.skip
          /\ info' = [info EXCEPT !.omitted = @ + 1]
      BY <1>7 DEF SkipPath
    <2>2. info'.kept = info.kept + 0 /\ info'.kept <= maxPatchBytes
      BY <1>1, <1>2, <1>3, <1>6, <2>1 DEF Counters
    <2>3. LimitsCounted(f, b, info')
      BY <1>2, <1>6, <2>1 DEF LimitsCounted, FilesCounted, BytesCounted, BytesExceeded, Counters
    <2> QED
      BY <1>5, <2>1, <2>2, <2>3, KeptInv_Emit DEF Reasons
  <1>8. CASE OverFileLimit
    <2>1. ~TruncateDone /\ Emit(0, "max_files") /\ ~Current.skip /\ i = M
          /\ info' = [info EXCEPT !.omitted = @ + 1]
      BY <1>1, <1>3, <1>6, <1>8 DEF OverFileLimit, Considered, UnderFileLimit
    <2>2. /\ info'.kept = t /\ info'.included = i /\ info'.byBytes = info.byBytes
          /\ info'.kept = info.kept + 0 /\ info'.kept <= maxPatchBytes
      <3>1. info'.kept = info.kept /\ info'.byBytes = info.byBytes
            /\ info'.included = info.included
        BY <1>2, <2>1 DEF Counters
      <3> QED
        BY <1>1, <1>3, <1>6, <3>1
    <2>3. LimitsCounted(f + 1, b + l, info') /\ 0 = Allowed(f, b, l)
      <3>1. CASE info.byBytes
        <4>1. b >= B
          BY <1>1, <1>6, <3>1 DEF LimitsCounted, BytesExceeded
        <4>2. 0 = Allowed(f, b, l) /\ b + l >= B
          BY <1>1, <4>1 DEF Allowed
        <4> QED
          BY <1>1, <2>2, <3>1, <4>2 DEF LimitsCounted, FilesCounted, BytesCounted, BytesExceeded
      <3>2. CASE ~info.byBytes
        <4>1. f >= M
          BY <1>1, <1>3, <1>6, <2>1, <3>2 DEF LimitsCounted, FilesCounted
        <4>2. 0 = Allowed(f, b, l) /\ f + 1 >= M
          BY <1>1, <4>1 DEF Allowed
        <4> QED
          BY <1>1, <2>1, <2>2, <3>2, <4>2
             DEF LimitsCounted, FilesCounted, BytesCounted, BytesExceeded
      <3> QED
        BY <3>1, <3>2
    <2> QED
      BY <1>5, <2>1, <2>2, <2>3, KeptInv_Emit DEF Reasons
  <1>9. CASE EmptyPatch
    <2>1. ~TruncateDone /\ Emit(0, "empty_patch") /\ ~Current.skip /\ i < M /\ l = 0
          /\ info' = [info EXCEPT !.omitted = @ + 1, !.included = @ + 1]
      BY <1>1, <1>3, <1>5, <1>9 DEF EmptyPatch, Considered, UnderFileLimit
    <2>2. /\ info'.kept = t /\ info'.included = i + 1 /\ info'.byBytes = info.byBytes
          /\ info'.kept = info.kept + 0 /\ info'.kept <= maxPatchBytes
      <3>1. info'.kept = info.kept /\ info'.byBytes = info.byBytes
            /\ info'.included = info.included + 1
        BY <1>2, <2>1 DEF Counters
      <3> QED
        BY <1>1, <1>3, <1>6, <3>1
    <2>3. 0 = Allowed(f, b, l)
      BY <1>1, <2>1 DEF Allowed
    <2>4. LimitsCounted(f + 1, b + l, info')
      <3>1. CASE info.byBytes
        <4>1. b + l >= B
          BY <1>1, <1>6, <2>1, <3>1 DEF LimitsCounted, BytesExceeded
        <4> QED
          BY <1>1, <2>2, <3>1, <4>1 DEF LimitsCounted, FilesCounted, BytesCounted, BytesExceeded
      <3>2. CASE ~info.byBytes
        <4>1. f = i /\ t = b
          BY <1>1, <1>3, <1>6, <2>1, <3>2 DEF LimitsCounted, FilesCounted, BytesCounted
        <4>2. f + 1 = i + 1 /\ t = b + l /\ (i + 1 >= M => f + 1 >= M)
          BY <2>1, <4>1
        <4> QED
          BY <1>1, <2>2, <3>2, <4>2 DEF LimitsCounted, FilesCounted, BytesCounted, BytesExceeded
      <3> QED
        BY <3>1, <3>2
    <2> QED
      BY <1>5, <2>1, <2>2, <2>3, <2>4, KeptInv_Emit DEF Reasons
  <1>10. CASE PatchFits
    <2>1. /\ ~TruncateDone /\ Emit(l, "none") /\ ~Current.skip /\ i < M /\ l > 0
          /\ ~info.byBytes /\ l <= B - t
          /\ info' = [info EXCEPT !.total = @ + Current.len, !.kept = @ + Current.len,
                                   !.included = @ + 1]
      BY <1>1, <1>3, <1>5, <1>10
         DEF PatchFits, HasPatch, Considered, UnderFileLimit, Remaining
    <2>2. /\ info'.kept = t + l /\ info'.included = i + 1 /\ info'.byBytes = FALSE
          /\ info'.kept = info.kept + l /\ info'.kept <= maxPatchBytes
      BY <1>1, <1>2, <1>3, <1>5, <1>6, <2>1 DEF Counters
    <2>3. f = i /\ t = b
      BY <1>1, <1>3, <1>6, <2>1 DEF LimitsCounted, FilesCounted, BytesCounted
    <2>4. l = Allowed(f, b, l)
      BY <1>1, <2>1, <2>3 DEF Allowed
    <2>5. LimitsCounted(f + 1, b + l, info')
      <3>1. f + 1 = i + 1 /\ t + l = b + l /\ (i + 1 >= M => f + 1 >= M)
        BY <2>3
      <3> QED
        BY <1>1, <2>2, <3>1 DEF LimitsCounted, FilesCounted, BytesCounted, BytesExceeded
    <2> QED
      BY <1>5, <2>1, <2>2, <2>4, <2>5, KeptInv_Emit DEF Reasons
  <1>11. CASE PatchCut
    <2>1. /\ ~TruncateDone /\ Emit(B - t, "partial") /\ ~Current.skip /\ i < M
          /\ ~info.byBytes /\ l > B - t /\ B - t > 0
          /\ info' = [info EXCEPT !.total = @ + Current.len, !.kept = @ + (B - t),
                                   !.included = @ + 1, !.byBytes = TRUE]
      BY <1>1, <1>3, <1>5, <1>11
         DEF PatchCut, HasPatch, Considered, UnderFileLimit, Remaining
    <2>2. /\ info'.kept = t + (B - t) /\ info'.byBytes = TRUE
          /\ info'.kept = info.kept + (B - t) /\ info'.kept <= maxPatchBytes
      BY <1>1, <1>2, <1>3, <1>6, <2>1 DEF Counters
    <2>3. f = i /\ t = b
      BY <1>1, <1>3, <1>6, <2>1 DEF LimitsCounted, FilesCounted, BytesCounted
    <2>4. B - t = Allowed(f, b, l) /\ B - t \in Nat /\ b + l >= B
      BY <1>1, <2>1, <2>3 DEF Allowed
    <2>5. LimitsCounted(f + 1, b + l, info')
      BY <1>1, <2>2, <2>4 DEF LimitsCounted, FilesCounted, BytesCounted, BytesExceeded
    <2> QED
      BY <1>5, <2>1, <2>2, <2>4, <2>5, KeptInv_Emit DEF Reasons
  <1>12. CASE PatchDropped
    <2>1. /\ ~TruncateDone /\ Emit(0, "max_bytes") /\ ~Current.skip /\ i < M /\ l > 0
          /\ info.byBytes \/ B - t = 0
          /\ info' = [info EXCEPT !.total = @ + Current.len, !.omitted = @ + 1,
                                   !.byBytes = TRUE]
      BY <1>1, <1>3, <1>5, <1>12
         DEF PatchDropped, HasPatch, Considered, UnderFileLimit, Remaining
    <2>2. /\ info'.byBytes = TRUE
          /\ info'.kept = info.kept + 0 /\ info'.kept <= maxPatchBytes
      BY <1>1, <1>2, <1>3, <1>6, <2>1 DEF Counters
    <2>3. b >= B
      <3>1. CASE info.byBytes
        BY <1>1, <1>6, <3>1 DEF LimitsCounted, BytesExceeded
      <3>2. CASE ~info.byBytes
        <4>1. t = b /\ B - t = 0
          BY <1>1, <1>3, <1>6, <2>1, <3>2 DEF LimitsCounted, BytesCounted
        <4> QED
          BY <4>1
      <3> QED
        BY <3>1, <3>2
    <2>4. 0 = Allowed(f, b, l) /\ b + l >= B
      BY <1>1, <2>3 DEF Allowed
    <2>5. LimitsCounted(f + 1, b + l, info')
      BY <1>1, <2>2, <2>4 DEF LimitsCounted, FilesCounted, BytesCounted, BytesExceeded
    <2> QED
      BY <1>5, <2>1, <2>2, <2>4, <2>5, KeptInv_Emit DEF Reasons
  <1> QED
    BY <1>7, <1>8, <1>9, <1>10, <1>11, <1>12 DEF TruncateNext

(* Nothing is seen, counted or kept at first. *)
LEMMA KeptInv_Init == TruncateInit => KeptInv
  <1> SUFFICES ASSUME TruncateInit PROVE KeptInv
    OBVIOUS
  <1>1. processed = <<>> /\ Len(processed) = 0 /\ DOMAIN processed = {}
    BY EmptySeq DEF TruncateInit
  <1>2. /\ info.included = 0 /\ info.kept = 0 /\ info.byBytes = FALSE
        /\ maxFiles \in Nat \ {0} /\ maxPatchBytes \in Nat
    BY LimitTypes DEF TruncateInit
  <1>3. FilesSeen = 0
    <2>1. Before(1) = {}
      BY DEF Before
    <2> QED
      BY <1>1, <2>1, FS_EmptySet DEF FilesSeen
  <1>4. BytesSeen = 0
    <2>1. Len(Sizes) \in Nat
      <3>1. files \in Seq(File) /\ Len(files) \in Nat /\ DOMAIN files = 1 .. Len(files)
        BY InputsAssumption, LenProperties DEF TruncateInit
      <3>2. Sizes \in [1 .. Len(files) -> Nat]
        <4>1. \A k \in 1 .. Len(files) : files[k] \in File
          BY <3>1, ElementOfSeq
        <4>2. \A k \in 1 .. Len(files) : files[k].len \in Nat
          BY <4>1 DEF File
        <4> QED
          BY <3>1, <4>2 DEF Sizes
      <3> QED
        BY <3>1, <3>2, SequenceOfNaturals
    <2>2. Sums(Sizes)[0] = 0
      BY <2>1, SumsStep
    <2> QED
      BY <1>1, <2>2 DEF BytesSeen, BytesBefore
  <1>5. Sums(Patches)[Len(processed)] = 0
    <2>1. Patches \in [1 .. 0 -> Nat]
      BY <1>1 DEF Patches
    <2>2. Len(Patches) \in Nat
      BY <2>1, SequenceOfNaturals
    <2> QED
      BY <1>1, <2>2, SumsStep
  <1>6. KeptMatchesReference
    BY <1>1, <1>2, <1>5 DEF KeptMatchesReference
  <1>7. LimitsCounted(FilesSeen, BytesSeen, info)
    BY <1>2, <1>3, <1>4 DEF LimitsCounted, FilesCounted, BytesCounted, BytesExceeded
  <1> QED
    BY <1>6, <1>7 DEF KeptInv

(* However skipped, empty, cut and dropped patches alternate, each file     *)
(* keeps what the two limits leave it and no more, and the bytes reported   *)
(* as kept are those of the result.                                         *)
THEOREM PatchesAreCutAtTheLimits == Spec => []KeptMatchesReference
  <1>1. Init => KeptInv
    BY KeptInv_Init DEF Init
  <1>2. TruncInv /\ KeptInv /\ [Next]_vars => KeptInv'
    BY KeptInv_Next, TruncateAlone
  <1>3. KeptInv => KeptMatchesReference
    BY DEF KeptInv
  <1> QED
    BY <1>1, <1>2, <1>3, TruncInvariant, PTL DEF Spec

-----------------------------------------------------------------------------
(* The prompt.                                                              *)

PromptInv ==
    /\ shown \in Seq(BOOLEAN) /\ promptLen \in Nat
    /\ ShownInOrder /\ ShownAreUnmarked /\ PromptBound

(* Only WriteFile writes to the prompt; the truncation has ended then.      *)
LEMMA PromptAlone ==
    ASSUME [Next]_vars
    PROVE  \/ WriteFile
           \/ /\ UNCHANGED promptVars
              /\ UNCHANGED truncateVars \/ ~TruncateDone
  <1> USE DEF promptVars, criticVars
  <1>1. ASSUME DetectiveStep PROVE UNCHANGED promptVars /\ ~TruncateDone
    <2>1. TruncateNext /\ UNCHANGED promptVars
      BY <1>1 DEF DetectiveStep
    <2> QED
      BY <2>1 DEF TruncateNext, SkipPath, OverFileLimit, EmptyPatch, PatchFits, PatchCut,
                  PatchDropped, HasPatch, Considered
  <1>2. ASSUME CriticStep
        PROVE  WriteFile \/ (UNCHANGED promptVars /\ UNCHANGED truncateVars)
    BY <1>2 DEF CriticStep, CompletePrompt, ParseOutput, ValidateFinding
  <1>3. MapFinding => UNCHANGED promptVars /\ UNCHANGED truncateVars
    BY DEF MapFinding
  <1>4. UNCHANGED vars => UNCHANGED promptVars /\ UNCHANGED truncateVars
    BY DEF vars
  <1> QED
    BY <1>1, <1>2, <1>3, <1>4 DEF Next

(* A file adds its note, or its whole patch if that fits the budget. *)
LEMMA PromptInv_Write ==
    ASSUME TruncInv, PromptInv, WriteFile
    PROVE  PromptInv'
  <1> DEFINE n == Len(shown) + 1
             f == processed[n]
             B == Max({charBudget, BaseLen})
  <1>1. /\ shown \in Seq(BOOLEAN) /\ promptLen \in Nat /\ Len(shown) \in Nat
        /\ Len(shown) <= Len(processed)
        /\ processed \in Seq(ProcessedFile) /\ Len(processed) \in Nat
    BY LenProperties DEF PromptInv, ShownInOrder, TruncInv, TruncateTypeOK, ProcessedFile
  <1>2. TruncateDone /\ UNCHANGED truncateVars /\ Len(shown) # Len(processed)
    BY DEF WriteFile, PromptDone
  <1>3. n \in 1 .. Len(processed)
    BY <1>1, <1>2
  <1>4. f.patch \in Nat
    <2>1. processed[n] \in ProcessedFile
      BY <1>1, <1>3, ElementOfSeq
    <2> QED
      BY <2>1 DEF ProcessedFile
  <1>5. /\ shown' = Append(shown, PatchShown(f))
        /\ promptLen' = promptLen + IF PatchShown(f) THEN HeaderLen + f.patch ELSE NoteLen
    BY DEF WriteFile
  <1>6. PatchShown(f) \in BOOLEAN
    BY DEF PatchShown
  <1>7. /\ shown' \in Seq(BOOLEAN) /\ Len(shown') = n
        /\ \A k \in 1 .. Len(shown) : shown'[k] = shown[k]
        /\ shown'[n] = PatchShown(f)
    BY <1>1, <1>5, <1>6, AppendProperties
  <1>8. /\ NoteLen \in Nat /\ HeaderLen \in Nat /\ charBudget \in Int /\ BaseLen \in Nat
        /\ B \in Nat /\ charBudget <= B
    <2>1. NoteLen \in Nat /\ HeaderLen \in Nat /\ charBudget \in Int /\ BaseLen \in Nat
      BY PromptAssumption DEF charBudget
    <2> QED
      BY <2>1, MaxOfTwo
  <1> HIDE DEF B
  <1>9. promptLen' \in Nat
    BY <1>1, <1>4, <1>5, <1>8
  <1>10. PromptBound'
    <2>1. promptLen <= B + NoteLen * Len(shown)
      BY DEF PromptInv, PromptBound, B
    <2>2. /\ NoteLen * n = NoteLen * Len(shown) + NoteLen
          /\ NoteLen * Len(shown) \in Nat
      BY <1>1, <1>8
    <2>3. promptLen' <= B + NoteLen * n
      <3>1. CASE PatchShown(f)
        <4>1. promptLen + HeaderLen + f.patch <= charBudget
          BY <3>1 DEF PatchShown
        <4>2. promptLen' = promptLen + HeaderLen + f.patch
          BY <1>1, <1>4, <1>5, <1>8, <3>1
        <4> HIDE DEF f, n
        <4>3. NoteLen * n \in Nat
          BY <1>8, <2>2
        <4> QED
          BY <1>1, <1>4, <1>8, <4>1, <4>2, <4>3
      <3>2. CASE ~PatchShown(f)
        <4>1. promptLen' = promptLen + NoteLen
          BY <1>5, <3>2
        <4> HIDE DEF n
        <4> QED
          BY <1>1, <1>8, <2>1, <2>2, <4>1
      <3> QED
        BY <3>1, <3>2
    <2> QED
      BY <1>7, <2>3 DEF PromptBound, B, charBudget
  <1>11. ShownInOrder'
    BY <1>1, <1>2, <1>3, <1>7 DEF ShownInOrder, truncateVars, TruncateDone
  <1>12. ShownAreUnmarked'
    <2> SUFFICES ASSUME NEW k \in 1 .. n, shown'[k] PROVE processed[k].reason = "none"
      BY <1>2, <1>7 DEF ShownAreUnmarked, truncateVars
    <2>1. CASE k = n
      BY <1>7, <2>1 DEF PatchShown
    <2>2. CASE k # n
      <3>1. k \in 1 .. Len(shown)
        BY <1>1, <2>2
      <3> QED
        BY <1>7, <3>1 DEF PromptInv, ShownAreUnmarked
    <2> QED
      BY <2>1, <2>2
  <1> QED
    BY <1>7, <1>9, <1>10, <1>11, <1>12 DEF PromptInv

(* Before the truncation ends nothing is written, and afterwards it rests. *)
LEMMA PromptInv_Next == TruncInv /\ PromptInv /\ [Next]_vars => PromptInv'
  <1> SUFFICES ASSUME TruncInv, PromptInv, [Next]_vars PROVE PromptInv'
    OBVIOUS
  <1>1. CASE WriteFile
    BY <1>1, PromptInv_Write
  <1>2. CASE UNCHANGED promptVars /\ UNCHANGED truncateVars
    BY <1>2 DEF PromptInv, promptVars, truncateVars, ShownInOrder, TruncateDone,
                ShownAreUnmarked, PromptBound
  <1>3. CASE UNCHANGED promptVars /\ ~TruncateDone
    <2>1. shown' = shown /\ promptLen' = promptLen
      BY <1>3 DEF promptVars
    <2>2. Len(shown) = 0
      <3>1. Len(shown) \in Nat /\ ~(Len(shown) > 0)
        BY <1>3, LenProperties DEF PromptInv, ShownInOrder
      <3> QED
        BY <3>1
    <2>3. Len(processed') \in Nat
      <3>1. TruncInv'
        BY TruncInv_Next, TruncateAlone
      <3> QED
        BY <3>1, LenProperties DEF TruncInv, TruncateTypeOK
    <2>4. ShownInOrder' /\ ShownAreUnmarked'
      BY <2>1, <2>2, <2>3 DEF ShownInOrder, ShownAreUnmarked
    <2> QED
      BY <2>1, <2>4 DEF PromptInv, PromptBound
  <1> QED
    BY <1>1, <1>2, <1>3, PromptAlone

(* Through a whole review the prompt keeps its invariant. *)
LEMMA PromptInvariant == Spec => []PromptInv
  <1>1. Init => PromptInv
    <2> SUFFICES ASSUME Init PROVE PromptInv
      OBVIOUS
    <2>1. shown \in Seq(BOOLEAN) /\ Len(shown) = 0 /\ promptLen = BaseLen
      BY EmptySeq DEF Init, CriticInit
    <2>2. Len(processed) = 0
      BY EmptySeq DEF Init, TruncateInit
    <2>3. /\ BaseLen \in Nat /\ NoteLen * 0 = 0
          /\ BaseLen <= Max({charBudget, BaseLen}) /\ Max({charBudget, BaseLen}) \in Int
      <3>1. charBudget \in Int /\ BaseLen \in Nat /\ NoteLen \in Nat
        BY PromptAssumption DEF charBudget
      <3> QED
        BY <3>1, MaxOfTwo
    <2>4. PromptBound
      <3> HIDE DEF charBudget
      <3> QED
        BY <2>1, <2>3 DEF PromptBound
    <2> QED
      BY <2>1, <2>2, <2>3, <2>4 DEF PromptInv, ShownInOrder, ShownAreUnmarked
  <1> QED
    BY <1>1, PromptInv_Next, TruncInvariant, PTL DEF Spec

(* The LLM sees whole patches only, never the one cut at the byte limit,    *)
(* and beyond the budget nothing but path-only notes.                       *)
THEOREM PromptShowsWholePatches == Spec => []ShownAreWhole
  <1>1. TruncInv /\ PromptInv => ShownAreWhole
    <2> SUFFICES ASSUME TruncInv, PromptInv PROVE ShownAreWhole
      OBVIOUS
    <2>1. /\ DOMAIN shown = 1 .. Len(shown) /\ Len(shown) <= Len(processed)
          /\ Len(shown) \in Nat /\ Len(processed) \in Nat
      BY LenProperties DEF PromptInv, ShownInOrder, TruncInv, TruncateTypeOK
    <2>2. \A k \in DOMAIN shown : k \in 1 .. Len(processed)
      BY <2>1
    <2>3. \A k \in DOMAIN shown : shown[k] =>
             processed[k].patch = files[k].len /\ files[k].len > 0
      BY <2>1, <2>2 DEF TruncInv, PromptInv, UnmarkedAreWhole, ShownAreUnmarked
    <2>4. promptLen <= Max({charBudget, BaseLen}) + NoteLen * Len(shown)
      BY DEF PromptInv, PromptBound
    <2> QED
      BY <2>3, <2>4 DEF ShownAreWhole
  <1> QED
    BY <1>1, TruncInvariant, PromptInvariant, PTL

-----------------------------------------------------------------------------
(* The findings and the review request, and the types of them all.          *)

ValidFinding == [src : Nat, path : Int, start : Nat, end : Nat]

(* The statistics of the findings that were left out.                       *)
Dropped == [{"bad_path", "low_confidence", "invalid"} -> Nat]

FindingInv ==
    /\ parsed \in {"no", "yes", "error"} /\ JudgedAfterParsing
    /\ raw \in Seq(Finding) /\ judged \in 0 .. Len(raw)
    /\ valid \in Seq(ValidFinding)
    /\ dropped \in Dropped

RequestInv ==
    /\ mapped \in 0 .. Len(valid)
    /\ inline \in Seq([src : Nat, line : Nat])
    /\ notes \in Seq(Nat) /\ overflow \in Seq(Nat)

(* A finding that passes has lines that are not negative; one that does not *)
(* is counted.                                                              *)
LEMMA ValidateTypes ==
    ASSUME FindingInv, RequestInv, ValidateFinding, UNCHANGED requestVars
    PROVE  FindingInv' /\ RequestInv'
  <1>1. /\ raw \in Seq(Finding) /\ Len(raw) \in Nat /\ judged \in Nat /\ judged < Len(raw)
        /\ valid \in Seq(ValidFinding) /\ Len(valid) \in Nat
    BY LenProperties DEF FindingInv, ValidateFinding, ToJudge
  <1>2. judged' = judged + 1 /\ UNCHANGED <<parsed, raw>> /\ parsed = "yes"
    BY DEF ValidateFinding, ToJudge
  <1>3. judged' \in Nat /\ judged' \in 0 .. Len(raw) /\ judged + 1 \in 1 .. Len(raw)
    BY <1>1, <1>2
  <1>4. F \in Finding
    BY <1>1, <1>3, ElementOfSeq DEF F
  <1>5. dropped' \in Dropped /\ valid' \in Seq(ValidFinding) /\ Len(valid') >= Len(valid)
    <2>1. ASSUME NEW r \in {"bad_path", "low_confidence", "invalid"}, Drop(r)
          PROVE  dropped' \in Dropped /\ UNCHANGED valid
      <3>1. dropped[r] + 1 \in Nat
        BY DEF FindingInv, Dropped
      <3>2. dropped' = [dropped EXCEPT ![r] = dropped[r] + 1] /\ UNCHANGED valid
        BY <2>1 DEF Drop
      <3> QED
        BY <3>1, <3>2 DEF FindingInv, Dropped
    <2>2. ASSUME valid' = Append(valid, [src |-> judged', path |-> F.path,
                                         start |-> Lines(F)[1], end |-> Lines(F)[2]])
          PROVE  valid' \in Seq(ValidFinding) /\ Len(valid') = Len(valid) + 1
      <3>1. F.start \in Int /\ F.end \in Int /\ F.path \in Int
        BY <1>4 DEF Finding
      <3>2. Lines(F)[1] \in Nat /\ Lines(F)[2] \in Nat
        BY <3>1 DEF Lines
      <3>3. [src |-> judged', path |-> F.path, start |-> Lines(F)[1], end |-> Lines(F)[2]]
               \in ValidFinding
        BY <1>3, <3>1, <3>2 DEF ValidFinding
      <3> QED
        BY <1>1, <2>2, <3>3, AppendProperties
    <2>3. \/ Drop("bad_path") \/ Drop("low_confidence") \/ Drop("invalid")
          \/ /\ valid' = Append(valid, [src |-> judged', path |-> F.path,
                                        start |-> Lines(F)[1], end |-> Lines(F)[2]])
             /\ UNCHANGED dropped
      BY DEF ValidateFinding
    <2> QED
      BY <1>1, <2>1, <2>2, <2>3 DEF FindingInv
  <1>6. FindingInv'
    BY <1>2, <1>3, <1>5 DEF FindingInv, JudgedAfterParsing
  <1>7. RequestInv'
    <2>1. Len(valid') \in Nat
      BY <1>5, LenProperties
    <2> QED
      BY <1>1, <1>5, <2>1 DEF RequestInv, requestVars
  <1> QED
    BY <1>6, <1>7

(* The output is any list of findings. *)
LEMMA ParseTypes ==
    ASSUME FindingInv, RequestInv, ParseOutput, UNCHANGED requestVars
    PROVE  FindingInv' /\ RequestInv'
  <1>1. parsed = "no" /\ judged = 0 /\ UNCHANGED <<judged, valid, dropped>>
    BY DEF ParseOutput, FindingInv, JudgedAfterParsing
  <1>2. parsed' \in {"yes", "error"} /\ raw' \in Seq(Finding)
    BY OutputsAssumption DEF ParseOutput, FindingInv
  <1>3. judged' \in 0 .. Len(raw')
    BY <1>1, <1>2, LenProperties
  <1> QED
    BY <1>1, <1>2, <1>3 DEF FindingInv, RequestInv, JudgedAfterParsing, requestVars

(* A finding becomes a comment on one of its lines, a note or overflow. *)
LEMMA MapTypes == ASSUME FindingInv, RequestInv, MapFinding PROVE RequestInv'
  <1>1. valid \in Seq(ValidFinding) /\ Len(valid) \in Nat
    BY LenProperties DEF FindingInv
  <1>2. mapped \in 0 .. Len(valid) /\ mapped # Len(valid) /\ mapped' = mapped + 1
    BY DEF RequestInv, MapFinding, MapDone
  <1>3. mapped + 1 \in 1 .. Len(valid)
    BY <1>1, <1>2
  <1> DEFINE f == valid[mapped + 1]
  <1>4. f \in ValidFinding
    BY <1>1, <1>3, ElementOfSeq
  <1> HIDE DEF f
  <1>5. f.src \in Nat /\ CommentLine(f) \in Nat
    BY <1>4 DEF ValidFinding, CommentLine
  <1>6. \/ notes' = Append(notes, f.src) /\ UNCHANGED <<inline, overflow>>
        \/ /\ inline' = Append(inline, [src |-> f.src, line |-> CommentLine(f)])
           /\ UNCHANGED <<notes, overflow>>
        \/ overflow' = Append(overflow, f.src) /\ UNCHANGED <<notes, inline>>
    BY DEF MapFinding, MapLined, f
  <1>7. UNCHANGED valid
    BY DEF MapFinding, criticVars, findingVars
  <1>8. [src |-> f.src, line |-> CommentLine(f)] \in [src : Nat, line : Nat]
    BY <1>5
  <1>9. /\ inline' \in Seq([src : Nat, line : Nat])
        /\ notes' \in Seq(Nat) /\ overflow' \in Seq(Nat)
    <2>1. inline \in Seq([src : Nat, line : Nat]) /\ notes \in Seq(Nat) /\ overflow \in Seq(Nat)
      BY DEF RequestInv
    <2>2. Append(notes, f.src) \in Seq(Nat) /\ Append(overflow, f.src) \in Seq(Nat)
      BY <1>5, <2>1, AppendProperties
    <2>3. Append(inline, [src |-> f.src, line |-> CommentLine(f)])
            \in Seq([src : Nat, line : Nat])
      BY <1>8, <2>1, AppendProperties
    <2> QED
      BY <1>6, <2>1, <2>2, <2>3
  <1> QED
    BY <1>2, <1>3, <1>7, <1>9 DEF RequestInv

(* No other step touches the findings or the request. *)
LEMMA FindingInv_Next ==
    FindingInv /\ RequestInv /\ [Next]_vars => FindingInv' /\ RequestInv'
  <1> SUFFICES ASSUME FindingInv, RequestInv, [Next]_vars PROVE FindingInv' /\ RequestInv'
    OBVIOUS
  <1> USE DEF criticVars
  <1>1. UNCHANGED findingVars => FindingInv' /\ UNCHANGED valid
    BY DEF FindingInv, findingVars, JudgedAfterParsing
  <1>2. UNCHANGED findingVars /\ UNCHANGED requestVars => FindingInv' /\ RequestInv'
    BY <1>1 DEF RequestInv, requestVars
  <1>3. CASE DetectiveStep
    BY <1>2, <1>3 DEF DetectiveStep
  <1>4. CASE CriticStep /\ UNCHANGED requestVars
    <2>1. WriteFile \/ CompletePrompt => UNCHANGED findingVars
      BY DEF WriteFile, CompletePrompt
    <2> QED
      BY <1>2, <1>4, <2>1, ParseTypes, ValidateTypes DEF CriticStep
  <1>5. CASE MapFinding
    BY <1>1, <1>5, MapTypes DEF MapFinding
  <1>6. CASE UNCHANGED vars
    BY <1>2, <1>6 DEF vars
  <1> QED
    BY <1>3, <1>4, <1>5, <1>6 DEF Next

(* There are no findings, and no request, at first.                         *)
LEMMA FindingInv_Init == Init => FindingInv /\ RequestInv
  <1> SUFFICES ASSUME Init PROVE FindingInv /\ RequestInv
    OBVIOUS
  <1>1. raw = <<>> /\ valid = <<>> /\ inline = <<>> /\ notes = <<>> /\ overflow = <<>>
    BY DEF Init, CriticInit
  <1>2. dropped \in Dropped
    BY DEF Init, CriticInit, Dropped
  <1>3. \A S : <<>> \in Seq(S)
    BY EmptySeq
  <1> QED
    BY <1>1, <1>2, <1>3, EmptySeq
       DEF Init, CriticInit, FindingInv, RequestInv, JudgedAfterParsing

(* Through a whole review the findings and the request have their types.    *)
LEMMA FindingInvariant == Spec => [](FindingInv /\ RequestInv)
  BY FindingInv_Init, FindingInv_Next, PTL DEF Spec

(* Every variable of the composed stages has its type: in particular a      *)
(* comment always has a line that is not negative, whatever lines the LLM   *)
(* answers with.                                                            *)
THEOREM ReviewTyping == Spec => []TypeOK
  <1>1. ProviderInv /\ TruncInv /\ PromptInv /\ FindingInv /\ RequestInv => TypeOK
    BY DEF ProviderInv, TruncInv, PromptInv, FindingInv, RequestInv, TypeOK, CriticTypeOK,
           ValidFinding, Dropped
  <1> QED
    BY <1>1, FindingInvariant, ProviderInvariant, TruncInvariant, PromptInvariant, PTL

-----------------------------------------------------------------------------
(* FindingsAccountedFor.                                                    *)

(* A list goes on with a position beyond the ones it has. *)
LEMMA ListsAppend ==
    ASSUME NEW s \in Seq(Nat), NEW S, Lists(s, S), NEW x \in Nat, \A y \in S : y < x
    PROVE  Append(s, x) \in Seq(Nat) /\ Lists(Append(s, x), S \cup {x})
  <1>1. PICK n \in Nat : n = Len(s)
    BY LenProperties
  <1>2. PICK t : t = Append(s, x)
    OBVIOUS
  <1>3. /\ t \in Seq(Nat) /\ Len(t) = n + 1 /\ t[n + 1] = x
        /\ \A i \in 1 .. n : t[i] = s[i]
    BY <1>1, <1>2, AppendProperties
  <1>4. DOMAIN s = 1 .. n /\ DOMAIN t = 1 .. n + 1
    BY <1>1, <1>3, LenProperties
  <1>5. \A i \in 1 .. n : s[i] \in S
    BY <1>4 DEF Lists
  <1>6. 1 .. n + 1 = (1 .. n) \cup {n + 1}
    OBVIOUS
  <1>7. {t[i] : i \in DOMAIN t} = S \cup {x}
    BY <1>3, <1>4, <1>5, <1>6 DEF Lists
  <1>8. ASSUME NEW i \in DOMAIN t, NEW k \in DOMAIN t, i < k PROVE t[i] < t[k]
    <2>1. CASE k \in 1 .. n
      <3>1. i \in 1 .. n
        BY <1>4, <1>8, <2>1
      <3> QED
        BY <1>3, <1>4, <1>8, <2>1, <3>1 DEF Lists
    <2>2. CASE k = n + 1
      <3>1. i \in 1 .. n
        BY <1>4, <1>8, <2>2
      <3> QED
        BY <1>3, <1>5, <2>2, <3>1
    <2> QED
      BY <1>4, <1>6, <2>1, <2>2
  <1>9. Lists(t, S \cup {x})
    BY <1>7, <1>8 DEF Lists
  <1> QED
    BY <1>2, <1>3, <1>9

(* A list is as long as its set is large. *)
LEMMA ListsLength ==
    ASSUME NEW s \in Seq(Nat), NEW S, Lists(s, S)
    PROVE  IsFiniteSet(S) /\ Cardinality(S) = Len(s) /\ Len(s) \in Nat
  <1>1. PICK n \in Nat : n = Len(s)
    BY LenProperties
  <1>2. DOMAIN s = 1 .. n /\ \A i \in 1 .. n : s[i] \in Nat
    BY <1>1, LenProperties, ElementOfSeq
  <1>3. s \in [1 .. n -> S]
    <2>1. s \in [1 .. n -> Nat]
      BY <1>1, LenProperties
    <2>2. \A i \in 1 .. n : s[i] \in S
      BY <1>2 DEF Lists
    <2> QED
      BY <2>1, <2>2
  <1>4. ASSUME NEW i \in 1 .. n, NEW k \in 1 .. n, s[i] = s[k] PROVE i = k
    <2>1. ~(i < k) /\ ~(k < i)
      BY <1>2, <1>4 DEF Lists
    <2> QED
      BY <2>1
  <1>5. IsInjective(s)
    BY <1>2, <1>4 DEF IsInjective
  <1>6. \A y \in S : \E i \in 1 .. n : s[i] = y
    BY <1>2 DEF Lists
  <1>7. s \in Bijection(1 .. n, S)
    BY <1>3, <1>5, <1>6 DEF Bijection, Injection, Surjection
  <1>8. ExistsBijection(1 .. n, S)
    BY <1>7 DEF ExistsBijection
  <1> QED
    BY <1>1, <1>8, FS_CountingElements, FS_NatBijection

(* Nothing lists nothing. *)
LEMMA ListsNothing == Lists(<<>>, {}) /\ \A s : Lists(s, {}) => DOMAIN s = {}
  <1>1. DOMAIN <<>> = {}
    OBVIOUS
  <1> QED
    BY <1>1 DEF Lists

(* The sources of a sequence of findings, or comments, follow it. *)
LEMMA SourcesAppend ==
    ASSUME NEW T, \A e \in T : e.src \in Nat, NEW s \in Seq(T), NEW e \in T
    PROVE  /\ Sources(s) \in Seq(Nat) /\ Len(Sources(s)) = Len(s)
           /\ Sources(Append(s, e)) = Append(Sources(s), e.src)
  <1>1. PICK n \in Nat : n = Len(s)
    BY LenProperties
  <1>2. DOMAIN s = 1 .. n /\ \A i \in 1 .. n : s[i] \in T
    BY <1>1, LenProperties, ElementOfSeq
  <1>3. Sources(s) \in [1 .. n -> Nat] /\ \A i \in 1 .. n : Sources(s)[i] = s[i].src
    BY <1>2 DEF Sources
  <1>4. Sources(s) \in Seq(Nat) /\ Len(Sources(s)) = n
    BY <1>3, SequenceOfNaturals
  <1>5. PICK t : t = Append(s, e)
    OBVIOUS
  <1>6. /\ t \in Seq(T) /\ Len(t) = n + 1 /\ t[n + 1] = e
        /\ \A i \in 1 .. n : t[i] = s[i]
    BY <1>1, <1>5, AppendProperties
  <1>7. DOMAIN t = 1 .. n + 1 /\ \A i \in 1 .. n + 1 : t[i] \in T
    BY <1>6, LenProperties, ElementOfSeq
  <1>8. /\ Sources(t) \in [1 .. n + 1 -> Nat]
        /\ \A i \in 1 .. n + 1 : Sources(t)[i] = t[i].src
    BY <1>7 DEF Sources
  <1>9. Sources(t) \in Seq(Nat) /\ Len(Sources(t)) = n + 1
    BY <1>8, SequenceOfNaturals
  <1>10. PICK u : u = Append(Sources(s), e.src)
    OBVIOUS
  <1>11. /\ u \in Seq(Nat) /\ Len(u) = n + 1 /\ u[n + 1] = e.src
         /\ \A i \in 1 .. n : u[i] = Sources(s)[i]
    BY <1>4, <1>10, AppendProperties
  <1>12. \A i \in 1 .. n + 1 : Sources(t)[i] = u[i]
    <2>1. \A i \in 1 .. n : Sources(t)[i] = u[i]
      <3>1. \A i \in 1 .. n : i \in 1 .. n + 1
        OBVIOUS
      <3> QED
        BY <1>3, <1>6, <1>8, <1>11, <3>1
    <2>2. Sources(t)[n + 1] = u[n + 1]
      <3>1. n + 1 \in 1 .. n + 1
        OBVIOUS
      <3> QED
        BY <1>6, <1>8, <1>11, <3>1
    <2>3. 1 .. n + 1 = (1 .. n) \cup {n + 1}
      OBVIOUS
    <2> QED
      BY <2>1, <2>2, <2>3
  <1>13. Sources(t) = u
    BY <1>9, <1>11, <1>12, SeqEqual
  <1> QED
    BY <1>1, <1>4, <1>5, <1>10, <1>13

(* The kinds of findings that pass.                                         *)
Passing == {"note", "line"}

(* The critic leaves a finding out for the reason the reference gives, and  *)
(* passes the others with their last line, or none.                         *)
LEMMA JudgementOf ==
    ASSUME NEW f \in Finding
    PROVE  /\ ~KnownPath(f) => Judgement(f) = "bad_path"
           /\ KnownPath(f) /\ ~Confident(f) => Judgement(f) = "low_confidence"
           /\ KnownPath(f) /\ Confident(f) /\ Backwards(Lines(f)) => Judgement(f) = "invalid"
           /\ KnownPath(f) /\ Confident(f) /\ ~Backwards(Lines(f)) =>
                 /\ Judgement(f) \in Passing
                 /\ (IF Lines(f)[2] <= 0 THEN Lines(f)[1] ELSE Lines(f)[2])
                      = IF Judgement(f) = "line" THEN LastLine(f) ELSE 0
           /\ Judgement(f) = "line" => LastLine(f) > 0
  <1>1. PICK s \in Int, e \in Int, c \in Int : s = f.start /\ e = f.end /\ c = f.confidence
    BY DEF Finding
  <1>2. MinConfidence \in Int
    BY PromptAssumption
  <1>3. Confident(f) <=> ~(f.confidence < MinConfidence)
    BY <1>1, <1>2 DEF Confident
  <1>4. Lines(f) = IF s < 0 \/ e < 0 THEN <<0, 0>> ELSE <<s, e>>
    BY <1>1 DEF Lines
  <1>5. Backwards(Lines(f)) <=> 0 < e /\ e < s
    <2>1. CASE s < 0 \/ e < 0
      <3>1. Lines(f)[1] = 0 /\ ~(0 < e /\ e < s)
        BY <1>4, <2>1
      <3> QED
        BY <3>1 DEF Backwards
    <2>2. CASE ~(s < 0 \/ e < 0)
      <3>1. Lines(f)[1] = s /\ Lines(f)[2] = e
        BY <1>4, <2>2
      <3>2. s > 0 /\ e > 0 /\ e < s <=> 0 < e /\ e < s
        OBVIOUS
      <3> QED
        BY <3>1, <3>2 DEF Backwards
    <2> QED
      BY <2>1, <2>2
  <1>6. Min({s, e}) < 0 \/ Max({s, e}) = 0 <=> s < 0 \/ e < 0 \/ (s = 0 /\ e = 0)
    <2>1. Min({s, e}) = (IF s <= e THEN s ELSE e) /\ Max({s, e}) = (IF s >= e THEN s ELSE e)
      BY MinOfTwo, MaxOfTwo
    <2> QED
      BY <2>1
  <1>7. CASE ~KnownPath(f)
    BY <1>7 DEF KnownPath, Judgement
  <1>8. CASE KnownPath(f) /\ ~Confident(f)
    BY <1>3, <1>8 DEF KnownPath, Judgement
  <1>9. CASE KnownPath(f) /\ Confident(f)
    <2>1. Judgement(f) = IF 0 < e /\ e < s THEN "invalid"
                         ELSE IF s < 0 \/ e < 0 \/ (s = 0 /\ e = 0) THEN "note" ELSE "line"
      <3>1. Judgement(f) = IF 0 < f.end /\ f.end < f.start THEN "invalid"
                           ELSE IF Min({f.start, f.end}) < 0 \/ Max({f.start, f.end}) = 0
                           THEN "note" ELSE "line"
        BY <1>3, <1>9 DEF KnownPath, Judgement
      <3> QED
        BY <1>1, <1>6, <3>1
    <2>2. CASE 0 < e /\ e < s
      BY <1>5, <1>9, <2>1, <2>2
    <2>3. CASE ~(0 < e /\ e < s) /\ (s < 0 \/ e < 0 \/ (s = 0 /\ e = 0))
      <3>1. Judgement(f) = "note"
        BY <2>1, <2>3
      <3>2. Lines(f)[1] = 0 /\ Lines(f)[2] = 0
        BY <1>4, <2>3
      <3> QED
        BY <1>5, <1>9, <2>3, <3>1, <3>2 DEF Passing
    <2>4. CASE ~(0 < e /\ e < s) /\ ~(s < 0 \/ e < 0 \/ (s = 0 /\ e = 0))
      <3>1. Judgement(f) = "line"
        BY <2>1, <2>4
      <3>2. Lines(f)[1] = s /\ Lines(f)[2] = e
        BY <1>4, <2>4
      <3>3. LastLine(f) = (IF e <= 0 THEN s ELSE e) /\ LastLine(f) > 0
        BY <1>1, <2>4 DEF LastLine
      <3> QED
        BY <1>5, <1>9, <2>4, <3>1, <3>2, <3>3 DEF Passing
    <2> QED
      BY <2>2, <2>3, <2>4
  <1> QED
    BY <1>7, <1>8, <1>9

(* The findings the critic has judged so far, by their judgement.           *)
JudgedSoFar(J) == {k \in 1 .. judged : Judgement(raw[k]) \in J}

(* The critic's account of them: the passing ones in order, ...             *)
ValidInOrder == Lists(Sources(valid), JudgedSoFar(Passing))

(* ... with the line their comment goes to, 0 for none, ...                 *)
ValidKeepLines ==
    \A i \in DOMAIN valid :
        CommentLine(valid[i]) = IF Judgement(raw[valid[i].src]) = "line"
                                THEN LastLine(raw[valid[i].src]) ELSE 0

(* ... and how many are left out for each reason.                           *)
DroppedCounted == \A r \in DOMAIN dropped : dropped[r] = Cardinality(JudgedSoFar({r}))

CriticAccounts == ValidInOrder /\ ValidKeepLines /\ DroppedCounted

(* A judged finding joins those of its judgement.                           *)
LEMMA JudgedGrows ==
    ASSUME FindingInv, ValidateFinding, NEW J
    PROVE  /\ JudgedSoFar(J) \subseteq 1 .. judged /\ judged \in Nat
           /\ IsFiniteSet(JudgedSoFar(J)) /\ judged + 1 \notin JudgedSoFar(J)
           /\ JudgedSoFar(J)' = IF Judgement(F) \in J THEN JudgedSoFar(J) \cup {judged + 1}
                                                      ELSE JudgedSoFar(J)
  <1>1. PICK n \in Nat : n = judged
    BY LenProperties DEF FindingInv
  <1>2. judged' = n + 1 /\ UNCHANGED <<raw, files>>
    BY <1>1 DEF ValidateFinding, truncateVars
  <1>3. JudgedSoFar(J) \subseteq 1 .. n /\ n + 1 \notin 1 .. n
    BY <1>1 DEF JudgedSoFar
  <1>4. IsFiniteSet(JudgedSoFar(J))
    <2>1. IsFiniteSet(1 .. n)
      BY FS_Interval
    <2> QED
      BY <1>3, <2>1, FS_Subset
  <1>5. 1 .. n + 1 = (1 .. n) \cup {n + 1}
    OBVIOUS
  <1>6. \A k : Judgement(raw[k])' = Judgement(raw[k])
    BY <1>2 DEF Judgement
  <1>7. JudgedSoFar(J)' = {k \in 1 .. n + 1 : Judgement(raw[k]) \in J}
    BY <1>2, <1>6 DEF JudgedSoFar
  <1>8. Judgement(F) = Judgement(raw[n + 1])
    BY <1>1 DEF F
  <1> QED
    BY <1>1, <1>3, <1>4, <1>5, <1>7, <1>8 DEF JudgedSoFar

(* The critic's account holds on: each judged finding enters it once.       *)
LEMMA ValidateAccounts ==
    ASSUME FindingInv, CriticAccounts, ValidateFinding
    PROVE  CriticAccounts'
  <1>1. PICK n \in Nat : n = judged
    BY LenProperties DEF FindingInv
  <1>2. judged' = n + 1 /\ UNCHANGED <<raw, files>>
    BY <1>1 DEF ValidateFinding, truncateVars
  <1>3. F \in Finding /\ F = raw[n + 1]
    <2>1. raw \in Seq(Finding) /\ Len(raw) \in Nat /\ judged < Len(raw)
      BY LenProperties DEF FindingInv, ValidateFinding, ToJudge
    <2>2. n + 1 \in 1 .. Len(raw)
      BY <1>1, <2>1
    <2> QED
      BY <1>1, <2>1, <2>2, ElementOfSeq DEF F
  <1>4. \A k : Judgement(raw[k])' = Judgement(raw[k])
    BY <1>2 DEF Judgement
  <1>5. DOMAIN dropped = {"bad_path", "low_confidence", "invalid"}
        /\ \A x \in DOMAIN dropped : dropped[x] \in Nat /\ x \notin Passing
    BY DEF FindingInv, Dropped, Passing
  <1>6. ASSUME NEW r \in {"bad_path", "low_confidence", "invalid"}, Drop(r), Judgement(F) = r
        PROVE  CriticAccounts'
    <2>1. UNCHANGED valid /\ dropped' = [dropped EXCEPT ![r] = dropped[r] + 1]
      BY <1>6 DEF Drop
    <2>2. ValidInOrder'
      <3>1. JudgedSoFar(Passing)' = JudgedSoFar(Passing)
        BY <1>6, JudgedGrows DEF Passing
      <3>2. Sources(valid)' = Sources(valid)
        BY <2>1
      <3>3. Lists(Sources(valid), JudgedSoFar(Passing))' = Lists(Sources(valid)', JudgedSoFar(Passing)')
        BY DEF Lists
      <3> QED
        BY <3>1, <3>2, <3>3 DEF CriticAccounts, ValidInOrder
    <2>3. ValidKeepLines'
      BY <1>2, <1>4, <2>1 DEF CriticAccounts, ValidKeepLines
    <2>4. ASSUME NEW x \in DOMAIN dropped PROVE dropped'[x] = Cardinality(JudgedSoFar({x})')
      <3>1. dropped[x] = Cardinality(JudgedSoFar({x})) /\ dropped[x] \in Nat
        BY <1>5 DEF CriticAccounts, DroppedCounted
      <3>2. CASE x = r
        <4>1. dropped'[x] = dropped[x] + 1
          BY <1>5, <2>1, <3>2
        <4>2. JudgedSoFar({x})' = JudgedSoFar({x}) \cup {judged + 1}
          BY <1>6, <3>2, JudgedGrows
        <4>3. Cardinality(JudgedSoFar({x}) \cup {judged + 1}) = Cardinality(JudgedSoFar({x})) + 1
          <5>1. IsFiniteSet(JudgedSoFar({x})) /\ judged + 1 \notin JudgedSoFar({x})
            BY JudgedGrows
          <5> QED
            BY <5>1, FS_AddElement
        <4> QED
          BY <3>1, <4>1, <4>2, <4>3
      <3>3. CASE x # r
        <4>1. dropped'[x] = dropped[x]
          BY <1>5, <2>1, <3>3
        <4>2. JudgedSoFar({x})' = JudgedSoFar({x})
          BY <1>6, <3>3, JudgedGrows
        <4> QED
          BY <3>1, <4>1, <4>2
      <3> QED
        BY <3>2, <3>3
    <2>5. DroppedCounted'
      <3>1. DOMAIN dropped' = DOMAIN dropped
        BY <2>1
      <3> QED
        BY <2>4, <3>1 DEF DroppedCounted
    <2> QED
      BY <2>2, <2>3, <2>5 DEF CriticAccounts
  <1>7. ASSUME KnownPath(F), Confident(F), ~Backwards(Lines(F)), UNCHANGED dropped,
               valid' = Append(valid, [src |-> judged', path |-> F.path,
                                       start |-> Lines(F)[1], end |-> Lines(F)[2]])
        PROVE  CriticAccounts'
    <2> DEFINE e == [src |-> n + 1, path |-> F.path, start |-> Lines(F)[1], end |-> Lines(F)[2]]
    <2>1. Judgement(F) \in Passing
          /\ CommentLine(e) = IF Judgement(F) = "line" THEN LastLine(F) ELSE 0
      <3>1. CommentLine(e) = IF Lines(F)[2] <= 0 THEN Lines(F)[1] ELSE Lines(F)[2]
        BY DEF CommentLine
      <3> QED
        BY <1>3, <1>7, <3>1, JudgementOf
    <2>2. e.src = n + 1
      OBVIOUS
    <2>3. valid' = Append(valid, e)
      BY <1>2, <1>7
    <2> HIDE DEF e
    <2>4. PICK T : /\ \A x \in T : x.src \in Nat
                   /\ valid \in Seq(T) /\ e \in T
      <3> DEFINE T == ValidFinding \cup {e}
      <3>1. \A x \in T : x.src \in Nat
        BY <2>2 DEF ValidFinding
      <3>2. valid \in Seq(ValidFinding) /\ ValidFinding \subseteq T
        BY DEF FindingInv
      <3>3. valid \in Seq(T)
        BY <3>2, SeqMonotonic
      <3> QED
        BY <3>1, <3>3
    <2>5. ValidInOrder'
      <3>1. JudgedSoFar(Passing)' = JudgedSoFar(Passing) \cup {n + 1}
        BY <1>1, <2>1, JudgedGrows
      <3>2. /\ Sources(valid) \in Seq(Nat)
            /\ Sources(valid') = Append(Sources(valid), n + 1)
        BY <2>2, <2>3, <2>4, SourcesAppend
      <3>3. \A y \in JudgedSoFar(Passing) : y < n + 1
        <4>1. JudgedSoFar(Passing) \subseteq 1 .. n
          BY <1>1, JudgedGrows
        <4> QED
          BY <4>1
      <3>4. Lists(Append(Sources(valid), n + 1), JudgedSoFar(Passing) \cup {n + 1})
        BY <3>2, <3>3, ListsAppend DEF CriticAccounts, ValidInOrder
      <3>5. Lists(Sources(valid'), JudgedSoFar(Passing)')
        BY <3>1, <3>2, <3>4
      <3> QED
        BY <3>5 DEF ValidInOrder, Lists, Sources
    <2>6. ValidKeepLines'
      <3>1. PICK m \in Nat : m = Len(valid)
        BY <2>4, LenProperties
      <3>2. DOMAIN valid = 1 .. m /\ DOMAIN valid' = 1 .. m + 1
            /\ valid'[m + 1] = e /\ \A i \in 1 .. m : valid'[i] = valid[i]
        <4>1. valid' \in Seq(T) /\ Len(valid') = m + 1
              /\ valid'[m + 1] = e /\ \A i \in 1 .. m : valid'[i] = valid[i]
          BY <2>3, <2>4, <3>1, AppendProperties
        <4> QED
          BY <2>4, <3>1, <4>1, LenProperties
      <3>3. ASSUME NEW i \in 1 .. m + 1
            PROVE  CommentLine(valid'[i]) = IF Judgement(raw[valid'[i].src]) = "line"
                                            THEN LastLine(raw[valid'[i].src]) ELSE 0
        <4>1. CASE i = m + 1
          <5>1. valid'[i] = e /\ raw[e.src] = F
            BY <1>3, <2>2, <3>2, <4>1
          <5> QED
            BY <2>1, <5>1
        <4>2. CASE i # m + 1
          <5>1. i \in 1 .. m
            BY <4>2
          <5> QED
            BY <3>2, <5>1 DEF CriticAccounts, ValidKeepLines
        <4> QED
          BY <4>1, <4>2
      <3> QED
        BY <1>2, <1>4, <3>2, <3>3 DEF ValidKeepLines, CommentLine, LastLine
    <2>7. DroppedCounted'
      <3>1. ASSUME NEW x \in DOMAIN dropped PROVE dropped'[x] = Cardinality(JudgedSoFar({x})')
        <4>1. Judgement(F) \notin {x}
          BY <1>5, <2>1
        <4>2. JudgedSoFar({x})' = JudgedSoFar({x})
          BY <4>1, JudgedGrows
        <4> QED
          BY <1>7, <4>2 DEF CriticAccounts, DroppedCounted
      <3> QED
        BY <1>7, <3>1 DEF DroppedCounted
    <2> QED
      BY <2>5, <2>6, <2>7 DEF CriticAccounts
  <1> QED
    BY <1>3, <1>6, <1>7, JudgementOf DEF ValidateFinding

(* The passing findings that are mapped, by their judgement.                *)
MappedSoFar(j) ==
    {valid[i].src : i \in {m \in 1 .. mapped : Judgement(raw[valid[m].src]) = j}}

(* The account the request gives of them: every one with a line is a        *)
(* comment or in the body, in order, and the others are notes, ...          *)
CommentsListed == Lists(Sources(inline) \o overflow, MappedSoFar("line"))

NotesListed == Lists(notes, MappedSoFar("note"))

(* ... and the limit on comments is used up before anything goes to the     *)
(* body.                                                                    *)
LimitFirst == /\ Len(inline) <= CommentLimit
              /\ overflow # <<>> => Len(inline) = CommentLimit

CommentsAtLines == \A i \in DOMAIN inline : inline[i].line = LastLine(raw[inline[i].src])

RequestAccounts == CommentsListed /\ NotesListed /\ LimitFirst /\ CommentsAtLines

(* The diplomat waits for the critic.                                       *)
NothingMapped == mapped = 0 /\ inline = <<>> /\ notes = <<>> /\ overflow = <<>>

AccountInv == CriticAccounts /\ RequestAccounts /\ (~ValidateDone => NothingMapped)

(* Appending to the second of two sequences appends to the two.             *)
LEMMA ConcatAppend ==
    ASSUME NEW s \in Seq(Nat), NEW t \in Seq(Nat), NEW x \in Nat
    PROVE  s \o Append(t, x) = Append(s \o t, x)
  <1>1. PICK a \in Nat, b \in Nat : a = Len(s) /\ b = Len(t)
    BY LenProperties
  <1>2. PICK u : u = Append(t, x)
    OBVIOUS
  <1>3. u \in Seq(Nat) /\ Len(u) = b + 1 /\ u[b + 1] = x /\ \A i \in 1 .. b : u[i] = t[i]
    BY <1>1, <1>2, AppendProperties
  <1>4. PICK st, su : st = s \o t /\ su = s \o u
    OBVIOUS
  <1>5. /\ st \in Seq(Nat) /\ Len(st) = a + b
        /\ \A i \in 1 .. a + b : st[i] = IF i <= a THEN s[i] ELSE t[i - a]
    BY <1>1, <1>4, ConcatProperties
  <1>6. /\ su \in Seq(Nat) /\ Len(su) = a + (b + 1)
        /\ \A i \in 1 .. a + (b + 1) : su[i] = IF i <= a THEN s[i] ELSE u[i - a]
    <2>1. /\ s \o u \in Seq(Nat) /\ Len(s \o u) = Len(s) + Len(u)
          /\ \A i \in 1 .. Len(s) + Len(u) :
                (s \o u)[i] = IF i <= Len(s) THEN s[i] ELSE u[i - Len(s)]
      BY <1>3, ConcatProperties
    <2> QED
      BY <1>1, <1>3, <1>4, <2>1
  <1>7. PICK v : v = Append(st, x)
    OBVIOUS
  <1>8. /\ v \in Seq(Nat) /\ Len(v) = (a + b) + 1 /\ v[(a + b) + 1] = x
        /\ \A i \in 1 .. a + b : v[i] = st[i]
    BY <1>5, <1>7, AppendProperties
  <1>9. ASSUME NEW i \in 1 .. (a + b) + 1 PROVE su[i] = v[i]
    <2>1. CASE i = (a + b) + 1
      <3>1. i \in 1 .. a + (b + 1) /\ ~(i <= a) /\ i - a = b + 1
        BY <2>1
      <3> QED
        BY <1>3, <1>6, <1>8, <2>1, <3>1
    <2>2. CASE i # (a + b) + 1
      <3>1. i \in 1 .. a + b /\ i \in 1 .. a + (b + 1) /\ (~(i <= a) => i - a \in 1 .. b)
        BY <2>2
      <3> QED
        BY <1>3, <1>5, <1>6, <1>8, <3>1
    <2> QED
      BY <2>1, <2>2
  <1>10. (a + b) + 1 = a + (b + 1)
    OBVIOUS
  <1>11. su = v
    BY <1>6, <1>8, <1>9, <1>10, SeqEqual
  <1> QED
    BY <1>2, <1>4, <1>7, <1>11

(* With nothing mapped there is nothing to account for.                     *)
LEMMA NothingToAccount == NothingMapped => RequestAccounts
  <1> SUFFICES ASSUME NothingMapped PROVE RequestAccounts
    OBVIOUS
  <1>1. /\ mapped = 0 /\ inline = <<>> /\ notes = <<>> /\ overflow = <<>>
        /\ DOMAIN inline = {} /\ Len(inline) = 0
    BY EmptySeq DEF NothingMapped
  <1>2. \A j : MappedSoFar(j) = {}
    BY <1>1 DEF MappedSoFar
  <1>3. Sources(inline) = <<>>
    BY <1>1 DEF Sources
  <1>4. Sources(inline) \o overflow = <<>>
    BY <1>1, <1>3, ConcatEmptySeq, EmptySeq
  <1>5. CommentsListed /\ NotesListed
    BY <1>1, <1>2, <1>4, ListsNothing DEF CommentsListed, NotesListed
  <1>6. LimitFirst
    BY <1>1, CommentLimitAssumption DEF LimitFirst
  <1>7. CommentsAtLines
    BY <1>1 DEF CommentsAtLines
  <1> QED
    BY <1>5, <1>6, <1>7 DEF RequestAccounts

(* Mapping leaves what it maps, and what was said of it.                    *)
LEMMA MapKeepsFindings ==
    ASSUME MapFinding
    PROVE  /\ UNCHANGED <<files, raw, valid, judged, dropped, parsed>>
           /\ \A k : Judgement(raw[k])' = Judgement(raw[k])
  <1>1. UNCHANGED <<files, raw, valid, judged, dropped, parsed>>
    BY DEF MapFinding, truncateVars, criticVars, findingVars
  <1> QED
    BY <1>1 DEF Judgement

(* The next finding to map is beyond those that are, and has a line if it   *)
(* is judged to have one.                                                   *)
LEMMA MappedGrows ==
    ASSUME FindingInv, RequestInv, CriticAccounts, MapFinding, NEW f, f = valid[mapped + 1]
    PROVE  /\ f.src \in Nat /\ CommentLine(f) \in Nat /\ Judgement(raw[f.src]) \in Passing
           /\ Judgement(raw[f.src]) = "line" =>
                 CommentLine(f) = LastLine(raw[f.src]) /\ CommentLine(f) > 0
           /\ Judgement(raw[f.src]) # "line" => CommentLine(f) = 0
           /\ \A j : /\ \A y \in MappedSoFar(j) : y < f.src
                     /\ {valid[i].src : i \in {m \in 1 .. mapped' : Judgement(raw[valid[m].src]) = j}}
                          = IF Judgement(raw[f.src]) = j THEN MappedSoFar(j) \cup {f.src}
                                                         ELSE MappedSoFar(j)
  <1>1. PICK n \in Nat : n = mapped
    BY LenProperties DEF FindingInv, RequestInv
  <1>2. mapped' = n + 1 /\ n + 1 \in 1 .. Len(valid)
    <2>1. Len(valid) \in Nat /\ mapped \in 0 .. Len(valid) /\ mapped # Len(valid)
      BY LenProperties DEF FindingInv, RequestInv, MapFinding, MapDone
    <2> QED
      BY <1>1, <2>1 DEF MapFinding
  <1>3. DOMAIN valid = 1 .. Len(valid) /\ Len(valid) \in Nat /\ f \in ValidFinding
    <2>1. valid \in Seq(ValidFinding)
      BY DEF FindingInv
    <2> QED
      BY <1>1, <1>2, <2>1, LenProperties, ElementOfSeq
  <1>4. /\ DOMAIN Sources(valid) = 1 .. Len(valid)
        /\ \A i \in 1 .. Len(valid) : Sources(valid)[i] = valid[i].src
    BY <1>3 DEF Sources
  <1>5. f.src \in JudgedSoFar(Passing)
    BY <1>1, <1>2, <1>4 DEF CriticAccounts, ValidInOrder, Lists
  <1>6. /\ f.src \in 1 .. judged /\ Judgement(raw[f.src]) \in Passing
    BY <1>5 DEF JudgedSoFar
  <1>7. raw[f.src] \in Finding
    <2>1. raw \in Seq(Finding) /\ judged \in 0 .. Len(raw) /\ Len(raw) \in Nat
      BY LenProperties DEF FindingInv
    <2>2. f.src \in 1 .. Len(raw)
      BY <1>6, <2>1
    <2> QED
      BY <2>1, <2>2, ElementOfSeq
  <1>8. CommentLine(f) = IF Judgement(raw[f.src]) = "line" THEN LastLine(raw[f.src]) ELSE 0
    BY <1>1, <1>2, <1>3 DEF CriticAccounts, ValidKeepLines
  <1>9. Judgement(raw[f.src]) = "line" => LastLine(raw[f.src]) > 0
    BY <1>7, JudgementOf
  <1>10. \A i \in 1 .. n : valid[i].src < f.src
    <2>1. \A i \in 1 .. n : i \in 1 .. Len(valid) /\ i < n + 1
      BY <1>2, <1>3
    <2> QED
      BY <1>1, <1>2, <1>4, <2>1 DEF CriticAccounts, ValidInOrder, Lists
  <1>11. ASSUME NEW j
         PROVE  /\ \A y \in MappedSoFar(j) : y < f.src
                /\ {valid[i].src : i \in {m \in 1 .. mapped' : Judgement(raw[valid[m].src]) = j}}
                     = IF Judgement(raw[f.src]) = j THEN MappedSoFar(j) \cup {f.src}
                                                    ELSE MappedSoFar(j)
    <2>1. \A y \in MappedSoFar(j) : y < f.src
      BY <1>1, <1>10 DEF MappedSoFar
    <2>2. 1 .. n + 1 = (1 .. n) \cup {n + 1}
      OBVIOUS
    <2>3. {m \in 1 .. n + 1 : Judgement(raw[valid[m].src]) = j}
             = {m \in 1 .. n : Judgement(raw[valid[m].src]) = j}
               \cup IF Judgement(raw[f.src]) = j THEN {n + 1} ELSE {}
      BY <1>1, <2>2
    <2>4. {valid[i].src : i \in {m \in 1 .. n + 1 : Judgement(raw[valid[m].src]) = j}}
            = IF Judgement(raw[f.src]) = j THEN MappedSoFar(j) \cup {f.src} ELSE MappedSoFar(j)
      BY <1>1, <2>3 DEF MappedSoFar
    <2> QED
      BY <1>2, <2>1, <2>4
  <1> QED
    <2>1. f.src \in Nat /\ CommentLine(f) \in Nat
      BY <1>3 DEF ValidFinding, CommentLine
    <2>2. /\ Judgement(raw[f.src]) = "line" =>
                CommentLine(f) = LastLine(raw[f.src]) /\ CommentLine(f) > 0
          /\ Judgement(raw[f.src]) # "line" => CommentLine(f) = 0
      BY <1>8, <1>9
    <2> QED
      BY <1>6, <1>11, <2>1, <2>2

(* The request's account holds on: each mapped finding enters it once.      *)
LEMMA MapAccounts ==
    ASSUME FindingInv, RequestInv, CriticAccounts, RequestAccounts, MapFinding
    PROVE  RequestAccounts'
  <1>1. PICK f : f = valid[mapped + 1]
    OBVIOUS
  <1>2. PICK x \in Nat, j \in Passing : x = f.src /\ j = Judgement(raw[x])
    BY <1>1, MappedGrows
  <1>3. PICK c \in Nat : c = CommentLine(f)
    BY <1>1, MappedGrows
  <1>4. /\ j = "line" => c = LastLine(raw[x]) /\ c > 0
        /\ j # "line" => c = 0
    BY <1>1, <1>2, <1>3, MappedGrows
  <1>5. \A i : \A y \in MappedSoFar(i) : y < x
    BY <1>1, <1>2, MappedGrows
  <1>6. UNCHANGED <<raw, valid>> /\ \A k : Judgement(raw[k])' = Judgement(raw[k])
    BY MapKeepsFindings
  <1>7. /\ MappedSoFar("line")' = IF j = "line" THEN MappedSoFar("line") \cup {x}
                                                ELSE MappedSoFar("line")
        /\ MappedSoFar("note")' = IF j = "note" THEN MappedSoFar("note") \cup {x}
                                                ELSE MappedSoFar("note")
    <2>1. /\ MappedSoFar("line")'
               = {valid[i].src : i \in {m \in 1 .. mapped' : Judgement(raw[valid[m].src]) = "line"}}
          /\ MappedSoFar("note")'
               = {valid[i].src : i \in {m \in 1 .. mapped' : Judgement(raw[valid[m].src]) = "note"}}
      BY <1>6 DEF MappedSoFar
    <2> QED
      BY <1>1, <1>2, <2>1, MappedGrows
  <1>8. /\ inline \in Seq([src : Nat, line : Nat]) /\ notes \in Seq(Nat) /\ overflow \in Seq(Nat)
        /\ Sources(inline) \in Seq(Nat) /\ Len(inline) \in Nat
    <2>1. inline \in Seq([src : Nat, line : Nat]) /\ notes \in Seq(Nat) /\ overflow \in Seq(Nat)
      BY DEF RequestInv
    <2>2. [src |-> 0, line |-> 0] \in [src : Nat, line : Nat]
      OBVIOUS
    <2>3. \A e \in [src : Nat, line : Nat] : e.src \in Nat
      OBVIOUS
    <2> QED
      BY <2>1, <2>2, <2>3, SourcesAppend, LenProperties
  <1>9. Sources(inline) \o overflow \in Seq(Nat)
    BY <1>8, ConcatProperties
  <1>10. /\ Lists(Sources(inline) \o overflow, MappedSoFar("line"))
         /\ Lists(notes, MappedSoFar("note"))
    BY DEF RequestAccounts, CommentsListed, NotesListed
  <1>11. \/ c <= 0 /\ notes' = Append(notes, x) /\ UNCHANGED <<inline, overflow>>
         \/ c > 0 /\ MapLined(f)
    BY <1>1, <1>2, <1>3 DEF MapFinding
  <1>12. ASSUME c <= 0, notes' = Append(notes, x), UNCHANGED <<inline, overflow>>
         PROVE  RequestAccounts'
    <2>1. j = "note"
      <3>1. j # "line"
        BY <1>4, <1>12
      <3> QED
        BY <3>1 DEF Passing
    <2>2. CommentsListed'
      <3>1. Lists(Sources(inline) \o overflow, MappedSoFar("line"))'
              <=> Lists(Sources(inline') \o overflow', MappedSoFar("line")')
        BY DEF Lists, Sources
      <3> QED
        BY <1>7, <1>10, <1>12, <2>1, <3>1 DEF CommentsListed
    <2>3. NotesListed'
      <3>1. Lists(Append(notes, x), MappedSoFar("note") \cup {x})
        BY <1>5, <1>8, <1>10, ListsAppend
      <3>2. Lists(notes', MappedSoFar("note")')
        BY <1>7, <1>12, <2>1, <3>1
      <3> QED
        BY <3>2 DEF NotesListed, Lists
    <2>4. LimitFirst' /\ CommentsAtLines'
      BY <1>6, <1>12 DEF RequestAccounts, LimitFirst, CommentsAtLines, LastLine
    <2> QED
      BY <2>2, <2>3, <2>4 DEF RequestAccounts
  <1>13. ASSUME c > 0, MapLined(f)
         PROVE  RequestAccounts'
    <2>1. UNCHANGED notes /\ j = "line" /\ c = LastLine(raw[x])
      <3>1. j = "line"
        BY <1>4, <1>13
      <3> QED
        BY <1>4, <1>13, <3>1 DEF MapLined
    <2>2. NotesListed'
      <3>1. Lists(notes', MappedSoFar("note")')
        BY <1>7, <1>10, <2>1
      <3> QED
        BY <3>1 DEF NotesListed, Lists
    <2>3. Lists(Append(Sources(inline) \o overflow, x), MappedSoFar("line") \cup {x})
      BY <1>5, <1>9, <1>10, ListsAppend
    <2>4. ASSUME Sources(inline') \o overflow' = Append(Sources(inline) \o overflow, x)
          PROVE  CommentsListed'
      <3>1. Lists(Sources(inline') \o overflow', MappedSoFar("line")')
        BY <1>7, <2>1, <2>3, <2>4
      <3> QED
        BY <3>1 DEF CommentsListed, Lists, Sources
    <2>5. CASE /\ Len(inline) < CommentLimit
               /\ inline' = Append(inline, [src |-> f.src, line |-> CommentLine(f)])
               /\ UNCHANGED overflow
      <3> DEFINE e == [src |-> x, line |-> c]
      <3>1. e.src = x /\ e.line = c /\ e \in [src : Nat, line : Nat]
        OBVIOUS
      <3>2. inline' = Append(inline, e)
        BY <1>2, <1>3, <2>5
      <3> HIDE DEF e
      <3>3. PICK m \in Nat : m = Len(inline)
        BY <1>8
      <3>4. /\ DOMAIN inline = 1 .. m /\ DOMAIN inline' = 1 .. m + 1 /\ Len(inline') = m + 1
            /\ inline'[m + 1] = e /\ \A i \in 1 .. m : inline'[i] = inline[i]
        <4>1. inline' \in Seq([src : Nat, line : Nat]) /\ Len(inline') = m + 1
              /\ inline'[m + 1] = e /\ \A i \in 1 .. m : inline'[i] = inline[i]
          BY <1>8, <3>1, <3>2, <3>3, AppendProperties
        <4> QED
          BY <1>8, <3>3, <4>1, LenProperties
      <3>5. overflow = <<>> /\ overflow' = <<>>
        <4>1. Len(inline) # CommentLimit
          BY <1>8, <2>5, CommentLimitAssumption
        <4> QED
          BY <2>5, <4>1 DEF RequestAccounts, LimitFirst
      <3>6. CommentsListed'
        <4>1. \A e1 \in [src : Nat, line : Nat] : e1.src \in Nat
          OBVIOUS
        <4>2. Sources(inline') = Append(Sources(inline), x)
          BY <1>8, <3>1, <3>2, <4>1, SourcesAppend
        <4>3. Append(Sources(inline), x) \in Seq(Nat)
          BY <1>8, AppendProperties
        <4>4. Sources(inline') \o overflow' = Append(Sources(inline) \o overflow, x)
          BY <1>8, <3>5, <4>2, <4>3, ConcatEmptySeq
        <4> QED
          BY <2>4, <4>4
      <3>7. LimitFirst'
        <4>1. m + 1 <= CommentLimit
          BY <2>5, <3>3, CommentLimitAssumption
        <4> QED
          BY <3>4, <3>5, <4>1 DEF LimitFirst
      <3>8. CommentsAtLines'
        <4>1. ASSUME NEW i \in 1 .. m + 1 PROVE inline'[i].line = LastLine(raw[inline'[i].src])
          <5>1. CASE i = m + 1
            BY <2>1, <3>1, <3>4, <5>1
          <5>2. CASE i # m + 1
            <6>1. i \in 1 .. m
              BY <5>2
            <6> QED
              BY <3>4, <6>1 DEF RequestAccounts, CommentsAtLines
          <5> QED
            BY <5>1, <5>2
        <4> QED
          BY <1>6, <3>4, <4>1 DEF CommentsAtLines, LastLine
      <3> QED
        BY <2>2, <3>6, <3>7, <3>8 DEF RequestAccounts
    <2>6. CASE /\ Len(inline) >= CommentLimit
               /\ overflow' = Append(overflow, f.src)
               /\ UNCHANGED inline
      <3>1. CommentsListed'
        <4>1. Sources(inline') \o overflow' = Append(Sources(inline) \o overflow, x)
          BY <1>2, <1>8, <2>6, ConcatAppend
        <4> QED
          BY <2>4, <4>1
      <3>2. LimitFirst'
        <4>1. Len(inline) <= CommentLimit
          BY DEF RequestAccounts, LimitFirst
        <4>2. Len(inline) = CommentLimit
          BY <1>8, <2>6, <4>1, CommentLimitAssumption
        <4> QED
          BY <2>6, <4>1, <4>2 DEF LimitFirst
      <3>3. CommentsAtLines'
        BY <1>6, <2>6 DEF RequestAccounts, CommentsAtLines, LastLine
      <3> QED
        BY <2>2, <3>1, <3>2, <3>3 DEF RequestAccounts
    <2> QED
      BY <1>13, <2>5, <2>6 DEF MapLined
  <1> QED
    BY <1>11, <1>12, <1>13

(* The critic's account is of the findings alone.                           *)
LEMMA CriticAccounts_Frame ==
    ASSUME CriticAccounts, UNCHANGED <<files, raw, judged, valid, dropped>>
    PROVE  CriticAccounts'
  <1>1. \A k : Judgement(raw[k])' = Judgement(raw[k])
    BY DEF Judgement
  <1>2. ValidInOrder'
    BY <1>1 DEF CriticAccounts, ValidInOrder, JudgedSoFar, Sources, Lists
  <1>3. ValidKeepLines'
    BY <1>1 DEF CriticAccounts, ValidKeepLines, CommentLine, LastLine
  <1>4. DroppedCounted'
    BY <1>1 DEF CriticAccounts, DroppedCounted, JudgedSoFar
  <1> QED
    BY <1>2, <1>3, <1>4 DEF CriticAccounts

(* An output that is only looked at now has no finding judged yet.          *)
LEMMA ParseAccounts ==
    ASSUME FindingInv, CriticAccounts, ParseOutput
    PROVE  CriticAccounts'
  <1>1. judged = 0 /\ UNCHANGED <<judged, valid, dropped>>
    BY DEF ParseOutput, FindingInv, JudgedAfterParsing
  <1>2. \A J : JudgedSoFar(J) = {}
    BY <1>1 DEF JudgedSoFar
  <1>3. ASSUME NEW J PROVE JudgedSoFar(J)' = {}
    BY <1>1 DEF JudgedSoFar
  <1>4. DOMAIN valid = {}
    <2>1. DOMAIN Sources(valid) = {}
      BY <1>2, ListsNothing DEF CriticAccounts, ValidInOrder
    <2> QED
      BY <2>1 DEF Sources
  <1>5. ValidInOrder'
    <2>1. Lists(Sources(valid), {})
      BY <1>2 DEF CriticAccounts, ValidInOrder
    <2>2. JudgedSoFar(Passing)' = {}
      BY <1>3
    <2> QED
      BY <1>1, <2>1, <2>2 DEF ValidInOrder, Lists, Sources
  <1>6. ValidKeepLines'
    BY <1>1, <1>4 DEF ValidKeepLines
  <1>7. DroppedCounted'
    <2>1. ASSUME NEW x \in DOMAIN dropped PROVE dropped'[x] = Cardinality(JudgedSoFar({x})')
      <3>1. JudgedSoFar({x})' = JudgedSoFar({x})
        BY <1>2, <1>3
      <3> QED
        BY <1>1, <3>1 DEF CriticAccounts, DroppedCounted
    <2> QED
      BY <1>1, <2>1 DEF DroppedCounted
  <1> QED
    BY <1>5, <1>6, <1>7 DEF CriticAccounts

(* The same of the next state: nothing mapped, nothing to account for.      *)
LEMMA NothingToAccountNext == NothingMapped' => RequestAccounts'
  BY NothingToAccount, PTL

(* Every other step leaves both accounts alone.                             *)
LEMMA AccountInv_Next ==
    FindingInv /\ RequestInv /\ AccountInv /\ [Next]_vars => AccountInv'
  <1> SUFFICES ASSUME FindingInv, RequestInv, AccountInv, [Next]_vars PROVE AccountInv'
    OBVIOUS
  <1> USE DEF criticVars
  <1>1. CASE UNCHANGED <<files, findingVars, requestVars>>
    <2>1. UNCHANGED <<files, parsed, raw, judged, valid, dropped, mapped, inline, notes, overflow>>
      BY <1>1 DEF findingVars, requestVars
    <2>2. CriticAccounts'
      BY <2>1, CriticAccounts_Frame DEF AccountInv
    <2>3. RequestAccounts'
      <3>1. \A k : Judgement(raw[k])' = Judgement(raw[k])
        BY <2>1 DEF Judgement
      <3>2. /\ MappedSoFar("line")' = MappedSoFar("line")
            /\ MappedSoFar("note")' = MappedSoFar("note")
        BY <2>1, <3>1 DEF MappedSoFar
      <3>3. CommentsListed' /\ NotesListed'
        <4>1. /\ Lists(Sources(inline') \o overflow', MappedSoFar("line")')
              /\ Lists(notes', MappedSoFar("note")')
          BY <2>1, <3>2 DEF AccountInv, RequestAccounts, CommentsListed, NotesListed
        <4> QED
          BY <4>1 DEF CommentsListed, NotesListed, Sources, Lists
      <3>4. LimitFirst' /\ CommentsAtLines'
        BY <2>1 DEF AccountInv, RequestAccounts, LimitFirst, CommentsAtLines, LastLine
      <3> QED
        BY <3>3, <3>4 DEF RequestAccounts
    <2>4. ~ValidateDone' => NothingMapped'
      BY <2>1 DEF AccountInv, ValidateDone, NothingMapped
    <2> QED
      BY <2>2, <2>3, <2>4 DEF AccountInv
  <1>2. ASSUME ~ValidateDone, UNCHANGED requestVars, CriticAccounts' PROVE AccountInv'
    <2>1. NothingMapped'
      BY <1>2 DEF AccountInv, NothingMapped, requestVars
    <2> QED
      BY <1>2, <2>1, NothingToAccountNext DEF AccountInv
  <1>3. CASE DetectiveStep
    <2>1. UNCHANGED files
      BY <1>3 DEF DetectiveStep, TruncateNext, SkipPath, OverFileLimit, EmptyPatch, PatchFits,
                  PatchCut, PatchDropped, Emit
    <2> QED
      BY <1>1, <1>3, <2>1 DEF DetectiveStep
  <1>4. CASE CriticStep /\ UNCHANGED requestVars
    <2>1. CASE WriteFile \/ CompletePrompt
      <3>1. UNCHANGED <<files, findingVars>>
        BY <2>1 DEF WriteFile, CompletePrompt, truncateVars
      <3> QED
        BY <1>1, <1>4, <3>1
    <2>2. CASE ParseOutput
      <3>1. ~ValidateDone
        BY <2>2 DEF ParseOutput, ValidateDone
      <3>2. CriticAccounts'
        BY <2>2, ParseAccounts DEF AccountInv
      <3> QED
        BY <1>2, <1>4, <3>1, <3>2
    <2>3. CASE ValidateFinding
      <3>1. ~ValidateDone
        <4>1. judged \in Nat /\ Len(raw) \in Nat /\ judged < Len(raw)
          BY <2>3, LenProperties DEF FindingInv, ValidateFinding, ToJudge
        <4> QED
          BY <4>1 DEF ValidateDone
      <3>2. CriticAccounts'
        BY <2>3, ValidateAccounts DEF AccountInv
      <3> QED
        BY <1>2, <1>4, <3>1, <3>2
    <2> QED
      BY <1>4, <2>1, <2>2, <2>3 DEF CriticStep
  <1>5. CASE MapFinding
    <2>1. UNCHANGED <<files, raw, valid, judged, dropped, parsed>>
      BY <1>5, MapKeepsFindings
    <2>2. CriticAccounts' /\ RequestAccounts'
      BY <1>5, <2>1, CriticAccounts_Frame, MapAccounts DEF AccountInv
    <2>3. ValidateDone'
      BY <1>5, <2>1 DEF MapFinding, ValidateDone
    <2> QED
      BY <2>2, <2>3 DEF AccountInv
  <1>6. CASE UNCHANGED vars
    BY <1>1, <1>6 DEF vars, truncateVars
  <1> QED
    BY <1>3, <1>4, <1>5, <1>6 DEF Next

(* There is no finding at first.                                            *)
LEMMA AccountInv_Init == Init => AccountInv
  <1> SUFFICES ASSUME Init PROVE AccountInv
    OBVIOUS
  <1>1. /\ judged = 0 /\ valid = <<>> /\ DOMAIN valid = {} /\ NothingMapped
        /\ \A x \in DOMAIN dropped : dropped[x] = 0
    BY DEF Init, CriticInit, NothingMapped
  <1>2. \A J : JudgedSoFar(J) = {}
    BY <1>1 DEF JudgedSoFar
  <1>3. ValidInOrder
    <2>1. Sources(valid) = <<>>
      BY <1>1 DEF Sources
    <2> QED
      BY <1>2, <2>1, ListsNothing DEF ValidInOrder
  <1>4. ValidKeepLines
    BY <1>1 DEF ValidKeepLines
  <1>5. DroppedCounted
    <2>1. \A J : Cardinality(JudgedSoFar(J)) = 0
      BY <1>2, FS_EmptySet
    <2> QED
      BY <1>1, <2>1 DEF DroppedCounted
  <1> QED
    BY <1>1, <1>3, <1>4, <1>5, NothingToAccount DEF AccountInv, CriticAccounts

(* When the last finding is mapped, the accounts are of the whole output.   *)
LEMMA AccountsAreComplete ==
    ASSUME FindingInv, RequestInv, AccountInv
    PROVE  FindingsAccountedFor
  <1> SUFFICES ASSUME MapDone
               PROVE  /\ Lists(Sources(inline) \o overflow, Judged("line"))
                      /\ Len(inline) = Min({CommentLimit, Cardinality(Judged("line"))})
                      /\ \A i \in DOMAIN inline : inline[i].line = LastLine(raw[inline[i].src])
                      /\ Lists(notes, Judged("note"))
                      /\ \A r \in DOMAIN dropped : dropped[r] = Cardinality(Judged(r))
    BY DEF FindingsAccountedFor
  <1>1. judged = Len(raw) /\ mapped = Len(valid)
    BY DEF MapDone, ValidateDone
  <1>2. DOMAIN raw = 1 .. judged /\ DOMAIN valid = 1 .. mapped
    BY <1>1, LenProperties DEF FindingInv
  <1>3. \A r : Judged(r) = JudgedSoFar({r})
    BY <1>2 DEF Judged, JudgedSoFar
  <1>4. ASSUME NEW j \in Passing PROVE MappedSoFar(j) = Judged(j)
    <2>1. {Sources(valid)[i] : i \in DOMAIN Sources(valid)} = JudgedSoFar(Passing)
      BY DEF AccountInv, CriticAccounts, ValidInOrder, Lists
    <2>2. {valid[i].src : i \in 1 .. mapped} = JudgedSoFar(Passing)
      BY <1>2, <2>1 DEF Sources
    <2>3. Judged(j) = {k \in JudgedSoFar(Passing) : Judgement(raw[k]) = j}
      BY <1>2 DEF Judged, JudgedSoFar
    <2> QED
      BY <2>2, <2>3 DEF MappedSoFar
  <1>5. /\ Lists(Sources(inline) \o overflow, Judged("line"))
        /\ Lists(notes, Judged("note"))
    BY <1>4 DEF Passing, AccountInv, RequestAccounts, CommentsListed, NotesListed
  <1>6. Len(inline) = Min({CommentLimit, Cardinality(Judged("line"))})
    <2>1. inline \in Seq([src : Nat, line : Nat]) /\ overflow \in Seq(Nat)
      BY DEF RequestInv
    <2>2. PICK a \in Nat, b \in Nat : a = Len(inline) /\ b = Len(overflow)
      BY <2>1, LenProperties
    <2>3. Sources(inline) \in Seq(Nat) /\ Len(Sources(inline)) = a
      <3>1. [src |-> 0, line |-> 0] \in [src : Nat, line : Nat]
        OBVIOUS
      <3>2. \A e \in [src : Nat, line : Nat] : e.src \in Nat
        OBVIOUS
      <3> QED
        BY <2>1, <2>2, <3>1, <3>2, SourcesAppend
    <2>4. Sources(inline) \o overflow \in Seq(Nat) /\ Len(Sources(inline) \o overflow) = a + b
      BY <2>1, <2>2, <2>3, ConcatProperties
    <2>5. Cardinality(Judged("line")) = a + b
      BY <1>5, <2>4, ListsLength
    <2>6. a <= CommentLimit /\ (b # 0 => a = CommentLimit)
      <3>1. b # 0 => overflow # <<>>
        BY <2>2, EmptySeq
      <3> QED
        BY <2>2, <3>1 DEF AccountInv, RequestAccounts, LimitFirst
    <2>7. Min({CommentLimit, a + b}) = IF CommentLimit <= a + b THEN CommentLimit ELSE a + b
      BY CommentLimitAssumption, MinOfTwo
    <2>8. a = IF CommentLimit <= a + b THEN CommentLimit ELSE a + b
      <3>1. CASE b = 0
        BY <2>6, <3>1, CommentLimitAssumption
      <3>2. CASE b # 0
        BY <2>6, <3>2, CommentLimitAssumption
      <3> QED
        BY <3>1, <3>2
    <2> QED
      BY <2>2, <2>5, <2>7, <2>8
  <1>7. \A i \in DOMAIN inline : inline[i].line = LastLine(raw[inline[i].src])
    BY DEF AccountInv, RequestAccounts, CommentsAtLines
  <1>8. \A r \in DOMAIN dropped : dropped[r] = Cardinality(Judged(r))
    BY <1>3 DEF AccountInv, CriticAccounts, DroppedCounted
  <1> QED
    BY <1>5, <1>6, <1>7, <1>8

(* No finding of the LLM is lost or reported twice between its output and   *)
(* the review request: those with a line become the first CommentLimit      *)
(* comments, in order and at the right line, the others go to the body, and *)
(* every one that is left out is counted with its reason.                   *)
THEOREM FindingsAreAccountedFor == Spec => []FindingsAccountedFor
  <1>1. Init => AccountInv
    BY AccountInv_Init
  <1>2. FindingInv /\ RequestInv /\ AccountInv /\ [Next]_vars => AccountInv'
    BY AccountInv_Next
  <1>3. FindingInv /\ RequestInv /\ AccountInv => FindingsAccountedFor
    BY AccountsAreComplete
  <1> QED
    BY <1>1, <1>2, <1>3, FindingInvariant, PTL DEF Spec
=============================================================================
