------------------------------ MODULE Provider ------------------------------
(***************************************************************************)
(* One call of Router.Complete (internal/llm/provider.go): the primary CLI *)
(* provider, then the fallback, each a child process run by                *)
(* CLIProvider.Complete (internal/llm/cli.go) under one context with a     *)
(* deadline.                                                               *)
(*                                                                         *)
(* os/exec (external) kills the child, not its process group, when the     *)
(* context is done; Wait reaps the child and then, without WaitDelay,      *)
(* waits for the goroutines that copy its output until every process that  *)
(* inherited the pipes has closed them.  A descendant is a process the     *)
(* child forked: "holding" the pipes, or "detached" from them.             *)
(* The two output streams behave alike and are one; the goroutine that     *)
(* feeds stdin ignores its errors and is left out.                         *)
(***************************************************************************)
EXTENDS Integers, Sequences, FiniteSetsExt

CONSTANTS
    Fallback,    \* LLM_FALLBACK_PROVIDER names a provider
    Forks,       \* the commands may fork processes that outlive them
    MaxOutput,   \* cap of the output buffer, 10 MiB in the code
    MaxProduced  \* bound: bytes the processes of one attempt write

ASSUME ProviderAssumption == /\ {Fallback, Forks} \subseteq BOOLEAN
                             /\ {MaxOutput, MaxProduced} \subseteq Nat

VARIABLES
    provider, \* the provider being tried: "primary" or "fallback"
    call,     \* where Complete stands: "start", "wait", "copy" or "returned"
    ctx,      \* "live" or "done" (deadline reached, or job cancelled)
    child,    \* the child of each provider
    desc,     \* the descendants each child left or has
    out,      \* this attempt's output: bytes produced, captured, and whether
              \* a Write reported fewer bytes than it was given
    err,      \* what Wait will report for this attempt
    attempts, \* ProviderAttempts: "ok" or "fail" for each provider tried
    answer    \* the provider whose output is returned, "none", or "error"

providerVars == <<provider, call, ctx, child, desc, out, err, attempts, answer>>

Providers == {"primary", "fallback"}
NoOutput == [produced |-> 0, captured |-> 0, short |-> FALSE]

ProviderInit ==
    /\ provider = "primary" /\ call = "start" /\ ctx = "live"
    /\ child = [p \in Providers |-> "none"]
    /\ desc = [p \in Providers |-> "none"]
    /\ out = NoOutput /\ err = "none"
    /\ attempts = <<>> /\ answer = "none"

(* The rest of Router.Complete once an attempt has ended: a failed primary  *)
(* is followed by the fallback, whatever the error and even when the        *)
(* context is done.                                                         *)
AttemptOk ==
    /\ attempts' = Append(attempts, "ok")
    /\ call' = "returned" /\ answer' = provider
    /\ UNCHANGED provider

AttemptFails ==
    /\ attempts' = Append(attempts, "fail")
    /\ IF provider = "primary" /\ Fallback
       THEN provider' = "fallback" /\ call' = "start" /\ UNCHANGED answer
       ELSE call' = "returned" /\ answer' = "error" /\ UNCHANGED provider

(* cmd.Start refuses when the context is done, and may fail by itself. *)
StartChild ==
    /\ call = "start"
    /\ out' = NoOutput /\ err' = "none"
    /\ \/ /\ ctx = "live"
          /\ child' = [child EXCEPT ![provider] = "running"]
          /\ call' = "wait"
          /\ UNCHANGED <<provider, attempts, answer>>
       \/ AttemptFails /\ UNCHANGED child
    /\ UNCHANGED <<ctx, desc>>
-----------------------------------------------------------------------------
(* The processes, each free to do any of this at any time.                  *)

Alive == child[provider] = "running" \/ desc[provider] = "holding"

(* The cap is compared before the chunk is added: CaptureIsPrefix. *)
BugToWrite(n) == IF out.captured >= MaxOutput THEN 0 ELSE n

(* limitWriter.Write: how much of a chunk of n bytes goes to the buffer ... *)
ToWrite(n) == IF out.captured >= MaxOutput THEN 0
              ELSE Min({n, MaxOutput - out.captured})

(* A partly kept chunk is reported as such: ExitZeroSucceeds. *)
BugReported(n) == ToWrite(n)

(* ... and how much it reports as written: always the whole chunk. *)
Reported(n) == n

(* The copying goroutine ends with io.ErrShortWrite if less is reported. *)
WriteOutput ==
    /\ call \in {"wait", "copy"} /\ Alive /\ ~out.short
    /\ \E n \in 1 .. MaxProduced - out.produced :
         out' = [produced |-> out.produced + n, captured |-> out.captured + ToWrite(n),
                 short |-> Reported(n) # n]
    /\ UNCHANGED <<provider, call, ctx, child, desc, err, attempts, answer>>

Fork ==
    /\ Forks /\ child[provider] = "running" /\ desc[provider] = "none"
    /\ \E d \in {"holding", "detached"} : desc' = [desc EXCEPT ![provider] = d]
    /\ UNCHANGED <<provider, call, ctx, child, out, err, attempts, answer>>

DescendantEnds(p) ==
    /\ desc[p] # "none"
    /\ desc' = [desc EXCEPT ![p] = "none"]
    /\ UNCHANGED <<provider, call, ctx, child, out, err, attempts, answer>>

ChildExits ==
    /\ child[provider] = "running"
    /\ \E e \in {"exit0", "exit1"} : child' = [child EXCEPT ![provider] = e]
    /\ UNCHANGED <<provider, call, ctx, desc, out, err, attempts, answer>>

(* LLM_TIMEOUT is over, or the heartbeat goroutine cancelled the job. *)
ContextDone ==
    /\ ctx = "live" /\ call # "returned"
    /\ ctx' = "done"
    /\ UNCHANGED <<provider, call, child, desc, out, err, attempts, answer>>
-----------------------------------------------------------------------------
(* cmd.Wait, and the code after it.                                         *)

(* exec.Command without the context: ReviewEnds. *)
BugKillChild == FALSE /\ UNCHANGED providerVars

(* The goroutine that watches the context kills the child, and only it. *)
KillChild ==
    /\ call = "wait" /\ ctx = "done" /\ child[provider] = "running"
    /\ child' = [child EXCEPT ![provider] = "killed"]
    /\ UNCHANGED <<provider, call, ctx, desc, out, err, attempts, answer>>

(* Wait stops waiting when the context is done: NoChildLeft. *)
BugReapable == ctx = "done" \/ child[provider] # "running"

Reapable == child[provider] # "running"

(* When the context is done, a child that exited with 0 may have been sent  *)
(* the signal before it was reaped, which Wait reports as ctx.Err().        *)
ReapChild ==
    /\ call = "wait" /\ Reapable
    /\ err' \in IF child[provider] = "exit0"
                THEN {"none"} \cup (IF ctx = "done" THEN {"ctx"} ELSE {})
                ELSE {"exit"}
    /\ call' = "copy"
    /\ UNCHANGED <<provider, ctx, child, desc, out, attempts, answer>>

(* All ends of the pipes are closed.  After an error, Getpgid is asked for  *)
(* the group of a child that has just been reaped and fails, so that no     *)
(* descendant is killed.                                                    *)
CopyDone ==
    /\ call = "copy" /\ (desc[provider] # "holding" \/ out.short)
    /\ IF err = "none" /\ ~out.short THEN AttemptOk ELSE AttemptFails
    /\ UNCHANGED <<ctx, child, desc, out, err>>

CompleteStep == StartChild \/ KillChild \/ ReapChild \/ CopyDone

ProviderNext ==
    \/ CompleteStep
    \/ WriteOutput \/ Fork \/ ChildExits \/ ContextDone
    \/ \E p \in Providers : DescendantEnds(p)

(* The calling goroutine and os/exec run, and the deadline comes.  Nothing  *)
(* obliges a process to write, to exit or to close a pipe.                  *)
ProviderFairness ==
    /\ WF_providerVars(CompleteStep)
    /\ WF_providerVars(ContextDone)

ProviderSpec == ProviderInit /\ [][ProviderNext]_providerVars /\ ProviderFairness
-----------------------------------------------------------------------------
ProviderTypeOK ==
    /\ provider \in Providers
    /\ call \in {"start", "wait", "copy", "returned"}
    /\ ctx \in {"live", "done"}
    /\ child \in [Providers -> {"none", "running", "exit0", "exit1", "killed"}]
    /\ desc \in [Providers -> {"none", "holding", "detached"}]
    /\ out \in [produced : Nat, captured : Nat, short : BOOLEAN]
    /\ err \in {"none", "ctx", "exit"}
    /\ attempts \in Seq({"ok", "fail"})
    /\ answer \in Providers \cup {"none", "error"}

(* The buffer holds the first MaxOutput bytes of what was written, however  *)
(* the output is split into chunks around the cap (cli.go:93-108).          *)
CaptureIsPrefix == out.captured = Min({out.produced, MaxOutput})

(* An attempt fails only for a reason: the child failed or could not be     *)
(* started, or the context ended.  Output beyond the cap is no reason       *)
(* (cli.go:44, 104).                                                        *)
ExitZeroSucceeds ==
    \A i \in DOMAIN attempts :
        (attempts[i] = "fail" /\ ctx = "live") =>
            child[IF i = 1 THEN "primary" ELSE "fallback"] \in {"none", "exit1"}

(* While the fallback runs, and after the call has returned, no child of an *)
(* attempt is left; and the output returned is that of a child that exited  *)
(* with 0 after every attempt before it failed (cli.go:68, provider.go:39). *)
NoChildLeft ==
    /\ provider = "fallback" => child["primary"] # "running"
    /\ call = "returned" => \A p \in Providers : child[p] # "running"
    /\ answer \in Providers =>
          /\ child[answer] = "exit0"
          /\ attempts = IF answer = "primary" THEN <<"ok">> ELSE <<"fail", "ok">>

(* cli.go:38 "Enable process group attributes to kill descendant processes  *)
(* on timeout": when a child was killed at the deadline, its descendants go *)
(* too.  The group is never killed, and a descendant that holds a pipe      *)
(* keeps the call, and with it the worker loop, waiting.                    *)
TimeoutKillsDescendants ==
    \A p \in Providers : child[p] = "killed" ~> desc[p] = "none"
=============================================================================
