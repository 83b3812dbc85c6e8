---------------------------- MODULE ReviewProofs ----------------------------
(***************************************************************************)
(* Proofs about Review and the stages it composes, for any changed files,  *)
(* any output of the LLM, any limits, and whatever the processes of the    *)
(* providers do.                                                           *)
(***************************************************************************)
EXTENDS Review, SequenceTheorems, TLAPS

-----------------------------------------------------------------------------
(* The provider call.  Its variables change by its own steps alone.         *)

(* The smaller of two numbers, as the buffer's limit computes it. *)
LEMMA MinOfTwo ==
    ASSUME NEW a \in Int, NEW b \in Int
    PROVE  Min({a, b}) = IF a <= b THEN a ELSE b
  <1>1. \E x \in {a, b} : \A y \in {a, b} : x <= y
    OBVIOUS
  <1>2. Min({a, b}) \in {a, b} /\ \A y \in {a, b} : Min({a, b}) <= y
    BY <1>1 DEF Min
  <1> QED
    BY <1>2

(* Every step of the composed review is a step of the provider call, or     *)
(* leaves it alone.                                                         *)
LEMMA ProviderAlone == [Next]_vars => [ProviderNext]_providerVars
  <1> USE DEF requestVars
  <1>1. DetectiveStep => UNCHANGED providerVars
    BY DEF DetectiveStep
  <1>2. MapFinding => UNCHANGED providerVars
    BY DEF MapFinding
  <1>3. CriticStep => [ProviderNext]_providerVars
    BY DEF CriticStep, WriteFile, CompletePrompt, ParseOutput, ValidateFinding
  <1>4. UNCHANGED vars => UNCHANGED providerVars
    BY DEF vars
  <1> QED
    BY <1>1, <1>2, <1>3, <1>4 DEF Next

(* Where the call stands decides what is known of the child it tries.       *)
CurrentChild ==
    /\ call = "start" => child[provider] = "none"
    /\ call = "wait" => child[provider] # "none"
    /\ call = "copy" =>
          /\ err = "exit" => child[provider] \in {"exit1", "killed"}
          /\ err # "exit" => child[provider] = "exit0"
          /\ err = "ctx" => ctx = "done"
    /\ call = "returned" => child[provider] # "running"
    /\ provider = "primary" => child["fallback"] = "none"
    /\ provider = "fallback" => child["primary"] # "running"

(* What has been recorded of the attempts so far.                           *)
Recorded ==
    LET before == IF provider = "primary" THEN <<>> ELSE <<"fail">> IN
    /\ call # "returned" => answer = "none" /\ attempts = before
    /\ call = "returned" =>
          \/ answer = "error" /\ attempts = Append(before, "fail")
          \/ /\ answer = provider /\ attempts = Append(before, "ok")
             /\ child[provider] = "exit0"

(* Only the end of the context kills, and nothing short is ever reported.   *)
KilledOnlyWhenDone == ctx = "live" => \A p \in Providers : child[p] # "killed"

ProviderInv ==
    /\ ProviderTypeOK
    /\ CaptureIsPrefix /\ ~out.short
    /\ CurrentChild /\ Recorded /\ KilledOnlyWhenDone
    /\ ExitZeroSucceeds

(* A chunk never takes the buffer beyond its limit, or leaves a gap.        *)
LEMMA WriteKeepsPrefix ==
    ASSUME ProviderTypeOK, CaptureIsPrefix, ~out.short, WriteOutput
    PROVE  /\ out' \in [produced : Nat, captured : Nat, short : BOOLEAN]
           /\ CaptureIsPrefix' /\ ~out'.short
  <1>1. MaxOutput \in Nat /\ MaxProduced \in Nat /\ out.produced \in Nat /\ out.captured \in Nat
    BY ProviderAssumption DEF ProviderTypeOK
  <1>2. PICK n \in 1 .. MaxProduced - out.produced :
           out' = [produced |-> out.produced + n, captured |-> out.captured + ToWrite(n),
                   short |-> Reported(n) # n]
    BY DEF WriteOutput
  <1>3. n \in Nat /\ n > 0
    BY <1>1
  <1>4. out.captured = IF out.produced <= MaxOutput THEN out.produced ELSE MaxOutput
    BY <1>1, MinOfTwo DEF CaptureIsPrefix
  <1>5. ToWrite(n) = IF out.captured >= MaxOutput THEN 0
                     ELSE IF n <= MaxOutput - out.captured THEN n
                     ELSE MaxOutput - out.captured
    <2>1. MaxOutput - out.captured \in Int
      BY <1>1
    <2>2. Min({n, MaxOutput - out.captured})
             = IF n <= MaxOutput - out.captured THEN n ELSE MaxOutput - out.captured
      BY <1>3, <2>1, MinOfTwo
    <2> QED
      BY <2>2 DEF ToWrite
  <1>6. /\ out.captured + ToWrite(n) \in Nat
        /\ out.captured + ToWrite(n)
             = IF out.produced + n <= MaxOutput THEN out.produced + n ELSE MaxOutput
    BY <1>1, <1>3, <1>4, <1>5
  <1>7. /\ out'.produced = out.produced + n
        /\ out'.captured = out.captured + ToWrite(n)
        /\ ~out'.short
    <2>1. ~(Reported(n) # n)
      BY DEF Reported
    <2> QED
      BY <1>2, <2>1
  <1>9. out.produced + n \in Nat
    BY <1>1, <1>3
  <1>8. out'.captured = Min({out'.produced, MaxOutput})
    BY <1>1, <1>6, <1>7, <1>9, MinOfTwo
  <1> QED
    BY <1>2, <1>6, <1>7, <1>8, <1>9 DEF CaptureIsPrefix, Reported

(* The two ways the first and the second attempt are recorded. *)
LEMMA AttemptSequences ==
    ASSUME NEW r \in {"ok", "fail"}
    PROVE  /\ Append(<<>>, r) = <<r>> /\ Append(<<"fail">>, r) = <<"fail", r>>
           /\ <<r>> \in Seq({"ok", "fail"}) /\ <<"fail", r>> \in Seq({"ok", "fail"})
           /\ Len(<<r>>) = 1 /\ Len(<<"fail", r>>) = 2
           /\ DOMAIN <<r>> = {1} /\ DOMAIN <<"fail", r>> = {1, 2}
           /\ <<>> \in Seq({"ok", "fail"}) /\ DOMAIN <<>> = {}
  <1>1. Append(<<>>, r) = <<r>> /\ Append(<<"fail">>, r) = <<"fail", r>>
    <2> DEFINE S == {"ok", "fail"}
    <2>1. <<>> \in Seq(S) /\ Len(<<>>) = 0 /\ <<"fail">> \in Seq(S) /\ Len(<<"fail">>) = 1
      OBVIOUS
    <2>2. <<r>> \in Seq(S) /\ Len(<<r>>) = 1 /\ <<r>>[1] = r
      OBVIOUS
    <2>3. /\ <<"fail", r>> \in Seq(S) /\ Len(<<"fail", r>>) = 2
          /\ <<"fail", r>>[1] = "fail" /\ <<"fail", r>>[2] = r
      OBVIOUS
    <2>4. /\ Append(<<>>, r) \in Seq(S) /\ Len(Append(<<>>, r)) = 1
          /\ Append(<<>>, r)[1] = r
      BY <2>1, AppendProperties
    <2>5. /\ Append(<<"fail">>, r) \in Seq(S) /\ Len(Append(<<"fail">>, r)) = 2
          /\ Append(<<"fail">>, r)[1] = "fail" /\ Append(<<"fail">>, r)[2] = r
      BY <2>1, AppendProperties
    <2> HIDE DEF S
    <2>6. Append(<<>>, r) = <<r>>
      BY <2>2, <2>4, SeqEqual
    <2>7. Append(<<"fail">>, r) = <<"fail", r>>
      <3>1. \A i \in 1 .. 2 : Append(<<"fail">>, r)[i] = <<"fail", r>>[i]
        BY <2>3, <2>5
      <3> QED
        BY <2>3, <2>5, <3>1, SeqEqual
    <2> QED
      BY <2>6, <2>7
  <1>2. <<r>> \in Seq({"ok", "fail"}) /\ <<"fail", r>> \in Seq({"ok", "fail"})
    OBVIOUS
  <1>3. <<>> \in Seq({"ok", "fail"}) /\ DOMAIN <<>> = {}
    OBVIOUS
  <1>4. Len(<<r>>) = 1 /\ Len(<<"fail", r>>) = 2
    OBVIOUS
  <1>5. DOMAIN <<r>> = 1 .. 1 /\ DOMAIN <<"fail", r>> = 1 .. 2
    BY <1>2, <1>4, LenProperties
  <1> QED
    BY <1>1, <1>2, <1>3, <1>4, <1>5

(* The attempts a call has recorded, written out. *)
LEMMA RecordedAttempts ==
    ASSUME Recorded, provider \in Providers
    PROVE  /\ call # "returned" => attempts = IF provider = "primary" THEN <<>> ELSE <<"fail">>
           /\ call = "returned" /\ answer = "error" =>
                 attempts = IF provider = "primary" THEN <<"fail">> ELSE <<"fail", "fail">>
           /\ call = "returned" /\ answer \in Providers =>
                 /\ answer = provider /\ child[answer] = "exit0"
                 /\ attempts = IF provider = "primary" THEN <<"ok">> ELSE <<"fail", "ok">>
  BY AttemptSequences DEF Recorded, Providers

(* An attempt that fails while the context lives has a child that was never *)
(* started or exited with an error: the call goes on to the fallback, or    *)
(* returns the error.                                                       *)
LEMMA FailedAttempt ==
    ASSUME ProviderInv, call \in {"start", "copy"}, AttemptFails, UNCHANGED <<child, ctx>>,
           child[provider] # "running",
           ctx = "live" => child[provider] \in {"none", "exit1"}
    PROVE  /\ provider' \in Providers /\ call' \in {"start", "returned"}
           /\ attempts' \in Seq({"ok", "fail"}) /\ answer' \in {"none", "error"}
           /\ CurrentChild' /\ Recorded' /\ ExitZeroSucceeds'
  <1>0. provider \in Providers /\ attempts \in Seq({"ok", "fail"})
    BY DEF ProviderInv, ProviderTypeOK
  <1>1. /\ attempts = IF provider = "primary" THEN <<>> ELSE <<"fail">>
        /\ answer = "none"
    BY <1>0, RecordedAttempts DEF ProviderInv, Recorded
  <1>2. attempts' = IF provider = "primary" THEN <<"fail">> ELSE <<"fail", "fail">>
    BY <1>1, AttemptSequences DEF AttemptFails
  <1>3. \/ /\ provider = "primary" /\ provider' = "fallback" /\ call' = "start"
           /\ answer' = "none"
        \/ provider' = provider /\ call' = "returned" /\ answer' = "error"
    BY <1>1 DEF AttemptFails
  <1>4. CurrentChild'
    BY <1>0, <1>3 DEF CurrentChild, ProviderInv, Providers
  <1>5. Recorded'
    BY <1>0, <1>2, <1>3, AttemptSequences DEF Recorded, Providers
  <1>6. ExitZeroSucceeds'
    <2>1. CASE provider = "primary"
      <3>1. DOMAIN attempts' = {1} /\ attempts'[1] = "fail"
        BY <1>2, <2>1, AttemptSequences
      <3> QED
        BY <2>1, <3>1 DEF ExitZeroSucceeds
    <2>2. CASE provider = "fallback"
      <3>1. DOMAIN attempts' = {1, 2} /\ attempts'[1] = "fail" /\ attempts'[2] = "fail"
        BY <1>2, <2>2, AttemptSequences
      <3>2. DOMAIN attempts = {1} /\ attempts[1] = "fail"
        BY <1>1, <2>2, AttemptSequences
      <3>3. ctx = "live" => child["primary"] \in {"none", "exit1"}
        BY <3>2 DEF ProviderInv, ExitZeroSucceeds
      <3> QED
        BY <2>2, <3>1, <3>3 DEF ExitZeroSucceeds
    <2> QED
      BY <1>0, <2>1, <2>2 DEF Providers
  <1>7. attempts' \in Seq({"ok", "fail"})
    BY <1>2, AttemptSequences
  <1> QED
    BY <1>0, <1>3, <1>4, <1>5, <1>6, <1>7 DEF Providers

(* A child that starts, exits or is killed is the one being tried, which no *)
(* recorded attempt is about.                                               *)
LEMMA ChildMoves ==
    ASSUME ProviderInv, call # "returned", UNCHANGED <<provider, attempts, answer>>,
           NEW state \in {"running", "exit0", "exit1", "killed"},
           child' = [child EXCEPT ![provider] = state],
           call' \in {"wait", "copy", "start"}, ctx' = ctx
    PROVE  /\ child' \in [Providers -> {"none", "running", "exit0", "exit1", "killed"}]
           /\ Recorded' /\ ExitZeroSucceeds'
           /\ child'[provider] = state
           /\ \A p \in Providers \ {provider} : child'[p] = child[p]
  <1>1. /\ provider \in Providers
        /\ child \in [Providers -> {"none", "running", "exit0", "exit1", "killed"}]
    BY DEF ProviderInv, ProviderTypeOK
  <1>2. attempts = IF provider = "primary" THEN <<>> ELSE <<"fail">>
    BY <1>1, RecordedAttempts DEF ProviderInv
  <1>3. Recorded'
    BY DEF ProviderInv, Recorded
  <1>4. ExitZeroSucceeds'
    <2>1. DOMAIN attempts = IF provider = "primary" THEN {} ELSE {1}
      BY <1>2, AttemptSequences
    <2>2. provider # "primary" => child'["primary"] = child["primary"]
      BY <1>1 DEF Providers
    <2> QED
      BY <1>1, <2>1, <2>2 DEF ProviderInv, ExitZeroSucceeds
  <1> QED
    BY <1>1, <1>3, <1>4

(* No step of the call, of os/exec or of a process breaks it. *)
LEMMA ProviderInv_Next == ProviderInv /\ [ProviderNext]_providerVars => ProviderInv'
  <1> SUFFICES ASSUME ProviderInv, [ProviderNext]_providerVars PROVE ProviderInv'
    OBVIOUS
  <1>0. /\ provider \in Providers /\ Providers = {"primary", "fallback"}
        /\ child \in [Providers -> {"none", "running", "exit0", "exit1", "killed"}]
        /\ desc \in [Providers -> {"none", "holding", "detached"}]
    BY DEF ProviderInv, ProviderTypeOK, Providers
  <1> USE DEF ProviderInv
  <1>1. CASE StartChild
    <2>1. call = "start" /\ out' = NoOutput /\ err' = "none" /\ UNCHANGED <<ctx, desc>>
      BY <1>1 DEF StartChild
    <2>2. /\ out' \in [produced : Nat, captured : Nat, short : BOOLEAN]
          /\ CaptureIsPrefix' /\ ~out'.short
      <3>1. Min({0, MaxOutput}) = 0
        BY MinOfTwo, ProviderAssumption
      <3> QED
        BY <2>1, <3>1 DEF NoOutput, CaptureIsPrefix
    <2>3. CASE /\ child' = [child EXCEPT ![provider] = "running"] /\ call' = "wait"
               /\ UNCHANGED <<provider, attempts, answer>>
      <3>1. /\ child' \in [Providers -> {"none", "running", "exit0", "exit1", "killed"}]
            /\ Recorded' /\ ExitZeroSucceeds' /\ child'[provider] = "running"
            /\ \A p \in Providers \ {provider} : child'[p] = child[p]
        BY <2>1, <2>3, ChildMoves
      <3>2. CurrentChild'
        BY <1>0, <2>3, <3>1 DEF CurrentChild
      <3>3. KilledOnlyWhenDone'
        BY <1>0, <2>1, <3>1 DEF KilledOnlyWhenDone
      <3> QED
        BY <2>1, <2>2, <2>3, <3>1, <3>2, <3>3 DEF ProviderTypeOK
    <2>4. CASE AttemptFails /\ UNCHANGED child
      <3>1. child[provider] = "none"
        BY <2>1 DEF CurrentChild
      <3>2. KilledOnlyWhenDone'
        BY <2>1, <2>4 DEF KilledOnlyWhenDone
      <3> QED
        BY <2>1, <2>2, <2>4, <3>1, <3>2, FailedAttempt DEF ProviderTypeOK
    <2> QED
      BY <1>1, <2>3, <2>4 DEF StartChild
  <1>2. CASE WriteOutput
    <2>1. UNCHANGED <<provider, call, ctx, child, desc, err, attempts, answer>>
      BY <1>2 DEF WriteOutput
    <2> QED
      BY <1>2, <2>1, WriteKeepsPrefix
         DEF ProviderTypeOK, CurrentChild, Recorded, KilledOnlyWhenDone, ExitZeroSucceeds
  <1>3. ASSUME UNCHANGED <<provider, call, ctx, child, out, err, attempts, answer>>,
               desc' \in [Providers -> {"none", "holding", "detached"}]
        PROVE  ProviderInv'
    BY <1>3 DEF ProviderTypeOK, CaptureIsPrefix, CurrentChild, Recorded, KilledOnlyWhenDone,
                ExitZeroSucceeds
  <1>4. CASE Fork
    BY <1>0, <1>3, <1>4 DEF Fork
  <1>5. ASSUME NEW p \in Providers, DescendantEnds(p) PROVE ProviderInv'
    BY <1>0, <1>3, <1>5 DEF DescendantEnds
  <1>6. CASE ChildExits
    <2>1. PICK e \in {"exit0", "exit1"} : child' = [child EXCEPT ![provider] = e]
      BY <1>6 DEF ChildExits
    <2>2. /\ call = "wait" /\ UNCHANGED <<provider, call, ctx, desc, out, err, attempts, answer>>
      BY <1>6 DEF ChildExits, CurrentChild, ProviderTypeOK
    <2>3. /\ child' \in [Providers -> {"none", "running", "exit0", "exit1", "killed"}]
          /\ Recorded' /\ ExitZeroSucceeds' /\ child'[provider] = e
          /\ \A p \in Providers \ {provider} : child'[p] = child[p]
      BY <2>1, <2>2, ChildMoves
    <2>4. CurrentChild'
      BY <1>0, <2>2, <2>3 DEF CurrentChild
    <2>5. KilledOnlyWhenDone'
      BY <1>0, <2>2, <2>3 DEF KilledOnlyWhenDone
    <2> QED
      BY <2>2, <2>3, <2>4, <2>5 DEF ProviderTypeOK, CaptureIsPrefix
  <1>7. CASE ContextDone
    <2>1. ctx' = "done" /\ UNCHANGED <<provider, call, child, desc, out, err, attempts, answer>>
      BY <1>7 DEF ContextDone
    <2> QED
      BY <2>1 DEF ProviderTypeOK, CaptureIsPrefix, CurrentChild, Recorded, KilledOnlyWhenDone,
                  ExitZeroSucceeds
  <1>8. CASE KillChild
    <2>1. /\ call = "wait" /\ ctx = "done" /\ child' = [child EXCEPT ![provider] = "killed"]
          /\ UNCHANGED <<provider, call, ctx, desc, out, err, attempts, answer>>
      BY <1>8 DEF KillChild
    <2>2. /\ child' \in [Providers -> {"none", "running", "exit0", "exit1", "killed"}]
          /\ Recorded' /\ ExitZeroSucceeds' /\ child'[provider] = "killed"
          /\ \A p \in Providers \ {provider} : child'[p] = child[p]
      BY <2>1, ChildMoves
    <2>3. CurrentChild'
      BY <1>0, <2>1, <2>2 DEF CurrentChild
    <2>4. KilledOnlyWhenDone'
      BY <2>1 DEF KilledOnlyWhenDone
    <2> QED
      BY <2>1, <2>2, <2>3, <2>4 DEF ProviderTypeOK, CaptureIsPrefix
  <1>9. CASE ReapChild
    <2>1. /\ call = "wait" /\ call' = "copy" /\ child[provider] # "running"
          /\ UNCHANGED <<provider, ctx, child, desc, out, attempts, answer>>
      BY <1>9 DEF ReapChild, Reapable
    <2>2. CASE child[provider] = "exit0"
      <3>1. err' = "none" \/ (err' = "ctx" /\ ctx = "done")
        BY <1>9, <2>2 DEF ReapChild, ProviderTypeOK
      <3>2. CurrentChild'
        BY <2>1, <2>2, <3>1 DEF CurrentChild
      <3> QED
        BY <2>1, <3>1, <3>2 DEF ProviderTypeOK, CaptureIsPrefix, Recorded, KilledOnlyWhenDone,
                                ExitZeroSucceeds
    <2>3. CASE child[provider] # "exit0"
      <3>1. err' = "exit" /\ child[provider] \in {"exit1", "killed"}
        BY <1>0, <1>9, <2>1, <2>3 DEF ReapChild, CurrentChild
      <3>2. CurrentChild'
        BY <2>1, <3>1 DEF CurrentChild
      <3> QED
        BY <2>1, <3>1, <3>2 DEF ProviderTypeOK, CaptureIsPrefix, Recorded, KilledOnlyWhenDone,
                                ExitZeroSucceeds
    <2> QED
      BY <2>2, <2>3
  <1>10. CASE CopyDone
    <2>1. call = "copy" /\ UNCHANGED <<ctx, child, desc, out, err>>
      BY <1>10 DEF CopyDone
    <2>2. CaptureIsPrefix' /\ KilledOnlyWhenDone'
      BY <2>1 DEF CaptureIsPrefix, KilledOnlyWhenDone
    <2>3. CASE err = "none"
      <3>1. /\ call' = "returned" /\ answer' = provider /\ UNCHANGED provider
            /\ attempts' = Append(attempts, "ok")
        BY <1>10, <2>3 DEF CopyDone, AttemptOk
      <3>2. child[provider] = "exit0"
        BY <2>1, <2>3 DEF CurrentChild
      <3>3. attempts = IF provider = "primary" THEN <<>> ELSE <<"fail">>
        BY <1>0, <2>1, RecordedAttempts
      <3>4. attempts' = IF provider = "primary" THEN <<"ok">> ELSE <<"fail", "ok">>
        BY <3>1, <3>3, AttemptSequences
      <3>5. CurrentChild' /\ Recorded'
        BY <2>1, <3>1, <3>2, <3>3 DEF CurrentChild, Recorded
      <3>6. ExitZeroSucceeds'
        <4>1. CASE provider = "primary"
          <5>1. DOMAIN attempts' = {1} /\ attempts'[1] = "ok"
            BY <3>4, <4>1, AttemptSequences
          <5> QED
            BY <5>1 DEF ExitZeroSucceeds
        <4>2. CASE provider = "fallback"
          <5>1. DOMAIN attempts' = {1, 2} /\ attempts'[1] = "fail" /\ attempts'[2] = "ok"
            BY <3>4, <4>2, AttemptSequences
          <5>2. DOMAIN attempts = {1} /\ attempts[1] = "fail"
            BY <3>3, <4>2, AttemptSequences
          <5> QED
            BY <2>1, <5>1, <5>2 DEF ExitZeroSucceeds
        <4> QED
          BY <1>0, <4>1, <4>2
      <3>7. attempts' \in Seq({"ok", "fail"})
        BY <3>4, AttemptSequences
      <3> QED
        BY <1>0, <2>1, <2>2, <3>1, <3>5, <3>6, <3>7 DEF ProviderTypeOK
    <2>4. CASE err # "none"
      <3>1. AttemptFails
        BY <1>10, <2>4 DEF CopyDone
      <3>2. /\ child[provider] # "running"
            /\ ctx = "live" => child[provider] \in {"none", "exit1"}
        BY <1>0, <2>1, <2>4 DEF CurrentChild, KilledOnlyWhenDone, ProviderTypeOK
      <3> QED
        BY <2>1, <2>2, <3>1, <3>2, FailedAttempt DEF ProviderTypeOK
    <2> QED
      BY <2>3, <2>4
  <1>11. CASE UNCHANGED providerVars
    BY <1>3, <1>11, <1>0 DEF providerVars
  <1> QED
    BY <1>1, <1>2, <1>4, <1>5, <1>6, <1>7, <1>8, <1>9, <1>10, <1>11
       DEF ProviderNext, CompleteStep

(* The call starts with the primary, and nothing has been written. *)
LEMMA ProviderInv_Init == ProviderInit => ProviderInv
  <1> SUFFICES ASSUME ProviderInit PROVE ProviderInv
    OBVIOUS
  <1>1. CaptureIsPrefix /\ ~out.short /\ out \in [produced : Nat, captured : Nat, short : BOOLEAN]
    <2>1. Min({0, MaxOutput}) = 0
      BY MinOfTwo, ProviderAssumption
    <2> QED
      BY <2>1 DEF ProviderInit, NoOutput, CaptureIsPrefix
  <1>2. attempts \in Seq({"ok", "fail"}) /\ ExitZeroSucceeds
    BY AttemptSequences DEF ProviderInit, ExitZeroSucceeds
  <1>3. CurrentChild /\ Recorded /\ KilledOnlyWhenDone
    BY DEF ProviderInit, CurrentChild, Recorded, KilledOnlyWhenDone, Providers
  <1> QED
    BY <1>1, <1>2, <1>3 DEF ProviderInit, ProviderInv, ProviderTypeOK, Providers

(* Through a whole review the provider call keeps its invariant. *)
LEMMA ProviderInvariant == Spec => []ProviderInv
  <1>1. Init => ProviderInv
    BY ProviderInv_Init DEF Init
  <1>2. ProviderInv /\ [Next]_vars => ProviderInv'
    BY ProviderInv_Next, ProviderAlone
  <1> QED
    BY <1>1, <1>2, PTL DEF Spec

(* The buffer holds the first MaxOutput bytes of what was written, however  *)
(* the output is split into chunks around the limit.                        *)
THEOREM OutputIsPrefix == Spec => []CaptureIsPrefix
  <1>1. ProviderInv => CaptureIsPrefix
    BY DEF ProviderInv
  <1> QED
    BY <1>1, ProviderInvariant, PTL

(* An attempt fails only because the child failed or was not started, or    *)
(* because the context ended: output beyond the limit is no reason.         *)
THEOREM FailuresHaveReasons == Spec => []ExitZeroSucceeds
  <1>1. ProviderInv => ExitZeroSucceeds
    BY DEF ProviderInv
  <1> QED
    BY <1>1, ProviderInvariant, PTL

(* The fallback starts after the primary's child was reaped, the call       *)
(* returns with no child left, and the output it returns is that of a child *)
(* that exited with 0 after every attempt before it failed.                 *)
THEOREM ChildrenAreReaped == Spec => []NoChildLeft
  <1>1. ProviderInv => NoChildLeft
    <2> SUFFICES ASSUME ProviderInv PROVE NoChildLeft
      OBVIOUS
    <2>1. provider \in Providers /\ Providers = {"primary", "fallback"}
      BY DEF ProviderInv, ProviderTypeOK, Providers
    <2>2. /\ provider = "fallback" => child["primary"] # "running"
          /\ call = "returned" => \A p \in Providers : child[p] # "running"
      BY <2>1 DEF ProviderInv, CurrentChild
    <2>3. answer \in Providers => call = "returned"
      BY <2>1 DEF ProviderInv, Recorded, ProviderTypeOK
    <2> QED
      BY <2>1, <2>2, <2>3, RecordedAttempts DEF ProviderInv, NoChildLeft
  <1> QED
    BY <1>1, ProviderInvariant, PTL
=============================================================================
