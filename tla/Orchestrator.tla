---------------------------- MODULE Orchestrator ----------------------------
(***************************************************************************)
(* One tailbench process executing an approved plan: RunWithOutcome joins  *)
(* or creates the tailnet, runProvider sets up networking and walks the    *)
(* instance types, runModeLoop benchmarks one pair, and the deferred steps *)
(* tear down what the cleanup policy allows.  Every action is one external *)
(* call or one durable write, so a crash or a cancelled context can fall   *)
(* between any two of them.  What the clouds really hold (live, tailnets)  *)
(* is kept beside the manifest that claims to describe it.                 *)
(*                                                                         *)
(* The recorder can fail before it saves (the manifest is unchanged) or    *)
(* after it (the event append failed); both return the same error.  An     *)
(* external call started under a cancelled context fails.  A failed call   *)
(* may or may not have had its effect, and its error may or may not carry  *)
(* a context error: inner timeouts produce one without the run being       *)
(* cancelled, and killed child processes hide one.                         *)
(***************************************************************************)
EXTENDS RunState

CONSTANTS
    QuotaGroup,     \* QuotaGroup[t]: the family group a quota denial covers
    JoinedTailnet,  \* the tailnet a run joins when it does not create one
    Configs         \* effective configurations to consider

CleanupPolicies == {"always", "on-success", "manual"}

\* createTailnet: the run creates and owns its tailnet.
\* managed: the provider creates its own networking stack.
Configurations ==
    [policy : CleanupPolicies, createTailnet : BOOLEAN, managed : BOOLEAN]

ASSUME ConfigAssumption == Configs \subseteq Configurations
ASSUME JoinedAssumption == JoinedTailnet \in Tailnets
ASSUME GroupAssumption == QuotaGroup \in [InstanceTypes -> InstanceTypes]

VARIABLES
    cfg,        \* the recorded effective configuration
    manifest,   \* the durable run record
    results,    \* result files that exist on disk, a set of <<type, mode>>
    complete,   \* the ones whose content was written to the end
    live,       \* stacks with at least one cloud resource
    tailnets,   \* every tailnet's state at Tailscale
    pc,         \* the process's next step; "idle" when no process runs
    cmd,        \* the command the process executes
    ctxDone,    \* the command's context is cancelled or past its deadline
    outcome,    \* the in-memory orchestrator.Outcome
    tailnetDNS, \* Orchestrator.tailnetDNS
    loop        \* selection and position of the instance and mode loops

external == <<live, tailnets>>
files == <<results, complete>>
vars == <<cfg, manifest, results, complete, live, tailnets,
          pc, cmd, ctxDone, outcome, tailnetDNS, loop>>

-----------------------------------------------------------------------------
\* Volatile state.

NoOutcome ==
    [benchmark |-> FALSE, cleanup |-> FALSE, interrupted |-> FALSE,
     resources |-> [r \in ResourceIDs |-> "none"], dns |-> NoTailnet]

\* types and modes are cfg.Filter and cfg.Modes; queue holds the instance types
\* still to visit, inst and mode the current ones, pending the modes left.
NoLoop ==
    [types |-> {}, modes |-> {}, queue |-> {}, inst |-> "none",
     pending |-> {}, mode |-> "none", skipped |-> {}]

Outcomes ==
    [benchmark : BOOLEAN, cleanup : BOOLEAN, interrupted : BOOLEAN,
     resources : Inventory, dns : Tailnets \cup {NoTailnet}]
Loops ==
    [types : SUBSET InstanceTypes, modes : SUBSET Modes,
     queue : SUBSET InstanceTypes, inst : InstanceTypes \cup {"none"},
     pending : SUBSET Modes, mode : Modes \cup {"none"},
     skipped : SUBSET InstanceTypes]

TailnetState == {"unused", "live", "deleted"}

\* The work item the mode loop is at, as its work ID would name it.
Current == <<loop.inst, loop.mode>>

-----------------------------------------------------------------------------
\* Error accounting and policy.

BenchmarkFails(interrupted) ==
    [outcome EXCEPT !.benchmark = TRUE,
                    !.interrupted = outcome.interrupted \/ interrupted]
CleanupFails(interrupted) ==
    [outcome EXCEPT !.cleanup = TRUE,
                    !.interrupted = outcome.interrupted \/ interrupted]

ShouldCleanup(policy, benchmarkErr) ==
    policy = "always" \/ (policy = "on-success" /\ ~benchmarkErr)

\* cfg.CleanupNetworking is derived from the policy.
CleanupNetworking == cfg.policy # "manual"

\* The ExecutionResult that RunWithResult makes of an Outcome.
ResultOf(out) ==
    [benchmark |-> IF out.benchmark THEN "failed" ELSE "succeeded",
     cleanup |-> IF \/ cfg.policy = "manual"
                    \/ cfg.policy = "on-success" /\ out.benchmark
                 THEN "skipped"
                 ELSE IF out.cleanup THEN "failed" ELSE "succeeded",
     interrupted |-> out.interrupted,
     resources |-> out.resources, dns |-> out.dns]

-----------------------------------------------------------------------------
\* Recorder calls.

Saved(m) == manifest' = m
SaveFails(m) == manifest' \in {manifest, m}

\* The in-memory inventory is updated before the recorder is asked, so it
\* changes even when the save fails.
Remembered(out, r, status) == [out EXCEPT !.resources[r] = status]

-----------------------------------------------------------------------------
\* Provider and Tailscale calls.

DestroySucceeds(r) == ~ctxDone /\ live' = live \ {r}
DestroyFails(r) == live' \in {live, live \ {r}}
CreateSucceeds(r) == ~ctxDone /\ live' = live \cup {r}
CreateFails(r) == live' \in {live, live \cup {r}}

\* An API-only tailnet gets a fresh DNS name every time it is created.
Fresh == {d \in Tailnets : tailnets[d] = "unused"}
DeleteTailnet(d) == [tailnets EXCEPT ![d] = "deleted"]

-----------------------------------------------------------------------------
\* RunWithOutcome: joining or creating the tailnet.

\* The state directory cannot be made, or a run that creates its tailnet has
\* unusable credentials: nothing is recorded and no defer has work to do.
PrepareFails ==
    /\ pc = "execute"
    /\ outcome' = BenchmarkFails(FALSE)
    /\ pc' = "tailnet-defer"
    /\ UNCHANGED <<cfg, manifest, files, external, cmd, ctxDone, tailnetDNS,
                   loop>>

\* recordResources(creating) and beforeExternalStep, before CreateTailnet.
RecordTailnetIntent ==
    /\ pc = "execute" /\ cfg.createTailnet
    /\ LET m == UpsertTailnet(manifest, "creating", NoTailnet)
           out == Remembered(outcome, "tailnet", "creating")
       IN \/ Saved(m) /\ outcome' = out /\ pc' = "create-tailnet"
          \/ /\ SaveFails(m)
             /\ outcome' = [out EXCEPT !.benchmark = TRUE]
             /\ pc' = "tailnet-defer"
    /\ UNCHANGED <<cfg, files, external, cmd, ctxDone, tailnetDNS, loop>>

\* The failed call may have created a tailnet whose name never came back.
CreateTailnet ==
    /\ pc = "create-tailnet"
    /\ \/ \E d \in Fresh :
            /\ ~ctxDone
            /\ tailnets' = [tailnets EXCEPT ![d] = "live"]
            /\ tailnetDNS' = d
            /\ pc' = "record-tailnet"
            /\ UNCHANGED outcome
       \/ \E i \in BOOLEAN :
            /\ \/ UNCHANGED tailnets
               \/ \E d \in Fresh : tailnets' = [tailnets EXCEPT ![d] = "live"]
            /\ outcome' = BenchmarkFails(i)
            /\ pc' = "tailnet-defer"
            /\ UNCHANGED tailnetDNS
    /\ UNCHANGED <<cfg, manifest, files, live, cmd, ctxDone, loop>>

RecordTailnetCreated ==
    /\ pc = "record-tailnet"
    /\ LET m == UpsertTailnet(manifest, "created", tailnetDNS)
           out == [Remembered(outcome, "tailnet", "created")
                     EXCEPT !.dns = tailnetDNS]
       IN \/ Saved(m) /\ outcome' = out /\ pc' = "join-tailnet"
          \/ /\ SaveFails(m)
             /\ outcome' = [out EXCEPT !.benchmark = TRUE]
             /\ pc' = "tailnet-defer"
    /\ UNCHANGED <<cfg, files, external, cmd, ctxDone, tailnetDNS, loop>>

\* The join path records nothing: the run does not own that tailnet.
UseExistingTailnet ==
    /\ pc = "execute" /\ ~cfg.createTailnet
    /\ tailnetDNS' = JoinedTailnet
    /\ pc' = "join-tailnet"
    /\ UNCHANGED <<cfg, manifest, files, external, cmd, ctxDone, outcome,
                   loop>>

\* SetupACL, EnableHTTPS, CreateAuthKey and tsnet.Up: any failure returns.
JoinTailnet ==
    /\ pc = "join-tailnet"
    /\ \/ ~ctxDone /\ pc' = "networking" /\ UNCHANGED outcome
       \/ \E i \in BOOLEAN :
            outcome' = BenchmarkFails(i) /\ pc' = "tailnet-defer"
    /\ UNCHANGED <<cfg, manifest, files, external, cmd, ctxDone, tailnetDNS,
                   loop>>

-----------------------------------------------------------------------------
\* runProvider: networking and the instance list.

\* Until this has succeeded the teardown defer is not registered.
RecordNetworkingIntent ==
    /\ pc = "networking" /\ cfg.managed
    /\ LET m == UpsertResource(manifest, "networking", "creating")
           out == Remembered(outcome, "networking", "creating")
       IN \/ Saved(m) /\ outcome' = out /\ pc' = "setup-networking"
          \/ /\ SaveFails(m)
             /\ outcome' = [out EXCEPT !.benchmark = TRUE]
             /\ pc' = "provider-return"
    /\ UNCHANGED <<cfg, files, external, cmd, ctxDone, tailnetDNS, loop>>

SetupNetworking ==
    /\ pc = "setup-networking"
    /\ \/ CreateSucceeds("networking") /\ pc' = "record-networking"
          /\ UNCHANGED outcome
       \/ \E i \in BOOLEAN :
            /\ CreateFails("networking")
            /\ outcome' = BenchmarkFails(i)
            /\ pc' = "networking-defer"
    /\ UNCHANGED <<cfg, manifest, files, tailnets, cmd, ctxDone, tailnetDNS,
                   loop>>

\* A provider that uses existing networking only looks it up.
LookUpNetworking ==
    /\ pc = "networking" /\ ~cfg.managed
    /\ \/ ~ctxDone /\ pc' = "list-instances" /\ UNCHANGED outcome
       \/ \E i \in BOOLEAN :
            outcome' = BenchmarkFails(i) /\ pc' = "provider-return"
    /\ UNCHANGED <<cfg, manifest, files, external, cmd, ctxDone, tailnetDNS,
                   loop>>

RecordNetworkingCreated ==
    /\ pc = "record-networking"
    /\ LET m == UpsertResource(manifest, "networking", "created")
           out == Remembered(outcome, "networking", "created")
       IN \/ Saved(m) /\ outcome' = out /\ pc' = "list-instances"
          \/ /\ SaveFails(m)
             /\ outcome' = [out EXCEPT !.benchmark = TRUE]
             /\ pc' = "networking-defer"
    /\ UNCHANGED <<cfg, files, external, cmd, ctxDone, tailnetDNS, loop>>

\* Stale-device removal may fail (a cleanup error, nothing stops), a cluster
\* may come without a kubeconfig (the provider returns), and the listing may
\* be partial: with an error, or silently where a region lacks a type.  The
\* filter keeps the selected types.
ListInstances ==
    /\ pc = "list-instances"
    /\ \E listErr, staleErr, kubeconfig, i \in BOOLEAN :
         /\ staleErr => cfg.createTailnet
         /\ i => listErr \/ staleErr
         /\ outcome' = [outcome EXCEPT
                 !.benchmark = outcome.benchmark \/ listErr \/ ~kubeconfig,
                 !.cleanup = outcome.cleanup \/ staleErr,
                 !.interrupted = outcome.interrupted \/ i]
         /\ \/ /\ ~kubeconfig /\ ~listErr
               /\ pc' = "networking-defer" /\ UNCHANGED loop
            \/ /\ kubeconfig /\ pc' = "instances"
               /\ \E listed \in SUBSET loop.types :
                     loop' = [loop EXCEPT !.queue = listed]
    /\ UNCHANGED <<cfg, manifest, files, external, cmd, ctxDone, tailnetDNS>>

-----------------------------------------------------------------------------
\* runProvider: the loop over instance types.  The listing's order is not fixed.

\* A result is a file under the name of its mode, or for l4-kernel under the name
\* that older versions gave it: results does not tell the two apart.
PendingModes(t) == {m \in loop.modes : <<t, m>> \notin results}
Skippable(t) == QuotaGroup[t] \in loop.skipped \/ PendingModes(t) = {}

\* The head of an iteration sees the cancelled context and returns.
InstanceInterrupted ==
    /\ pc = "instances" /\ loop.queue # {} /\ ctxDone
    /\ outcome' = BenchmarkFails(TRUE)
    /\ pc' = "networking-defer"
    /\ UNCHANGED <<cfg, manifest, files, external, cmd, ctxDone, tailnetDNS,
                   loop>>

\* Quota denied for its group, every result present, or user data that
\* cannot be rendered: the type is left alone.
SkipInstance(t) ==
    /\ pc = "instances" /\ t \in loop.queue /\ ~ctxDone
    /\ \/ Skippable(t) /\ UNCHANGED outcome
       \/ ~Skippable(t) /\ outcome' = BenchmarkFails(FALSE)
    /\ loop' = [loop EXCEPT !.queue = loop.queue \ {t}]
    /\ UNCHANGED <<cfg, manifest, files, external, pc, cmd, ctxDone,
                   tailnetDNS>>

\* Mutant: the position in the loop is not updated.
PreCleanupForgetsInstance(t) ==
    /\ pc = "instances" /\ t \in loop.queue /\ ~ctxDone /\ ~Skippable(t)
    /\ DestroySucceeds(t)
    /\ loop' = [loop EXCEPT !.queue = loop.queue \ {t}]
    /\ pc' = "record-topology"
    /\ UNCHANGED <<cfg, manifest, files, tailnets, cmd, ctxDone, outcome,
                   tailnetDNS>>

\* Pre-cleanup: DestroyPair of whatever an earlier process left behind.
PreCleanup(t) ==
    /\ pc = "instances" /\ t \in loop.queue /\ ~ctxDone /\ ~Skippable(t)
    /\ \/ DestroySucceeds(t) /\ UNCHANGED outcome
       \/ \E i \in BOOLEAN : DestroyFails(t) /\ outcome' = CleanupFails(i)
    /\ loop' = [loop EXCEPT !.queue = loop.queue \ {t}, !.inst = t]
    /\ pc' = "record-topology"
    /\ UNCHANGED <<cfg, manifest, files, tailnets, cmd, ctxDone, tailnetDNS>>

\* Mutant: a failed save of the intent is logged and the pair created anyway.
RecordTopologyIntentBestEffort ==
    /\ pc = "record-topology"
    /\ SaveFails(UpsertResource(manifest, loop.inst, "creating"))
    /\ outcome' = Remembered(outcome, loop.inst, "creating")
    /\ pc' = "create-pair"
    /\ UNCHANGED <<cfg, files, external, cmd, ctxDone, tailnetDNS, loop>>

RecordTopologyIntent ==
    /\ pc = "record-topology"
    /\ LET m == UpsertResource(manifest, loop.inst, "creating")
           out == Remembered(outcome, loop.inst, "creating")
       IN \/ Saved(m) /\ outcome' = out /\ pc' = "create-pair"
          \/ /\ SaveFails(m)
             /\ outcome' = [out EXCEPT !.benchmark = TRUE]
             /\ pc' = "instances"
    /\ UNCHANGED <<cfg, files, external, cmd, ctxDone, tailnetDNS, loop>>

\* A quota error also skips the rest of the group.
CreatePair ==
    /\ pc = "create-pair"
    /\ \/ /\ CreateSucceeds(loop.inst) /\ pc' = "record-pair"
          /\ UNCHANGED <<outcome, loop>>
       \/ \E i, quota \in BOOLEAN :
            /\ CreateFails(loop.inst)
            /\ outcome' = BenchmarkFails(i)
            /\ loop' = [loop EXCEPT !.skipped =
                    IF quota THEN loop.skipped \cup {QuotaGroup[loop.inst]}
                    ELSE loop.skipped]
            /\ pc' = "abandon-pair"
    /\ UNCHANGED <<cfg, manifest, files, tailnets, cmd, ctxDone, tailnetDNS>>

RecordPairCreated ==
    /\ pc = "record-pair"
    /\ LET m == UpsertResource(manifest, loop.inst, "created")
           out == Remembered(outcome, loop.inst, "created")
       IN \/ Saved(m) /\ outcome' = out /\ pc' = "benchmark"
          \/ /\ SaveFails(m)
             /\ outcome' = [out EXCEPT !.benchmark = TRUE]
             /\ pc' = "abandon-pair"
    /\ UNCHANGED <<cfg, files, external, cmd, ctxDone, tailnetDNS, loop>>

\* Mutants: the error of the destroy call is dropped; the pair is retried until
\* it comes up.
AbandonPairIgnoringErrors ==
    /\ pc = "abandon-pair"
    /\ DestroyFails(loop.inst)
    /\ pc' = "instances"
    /\ UNCHANGED <<cfg, manifest, files, tailnets, cmd, ctxDone, outcome,
                   tailnetDNS, loop>>
AbandonPairRetrying ==
    /\ pc = "abandon-pair"
    /\ DestroyFails(loop.inst)
    /\ pc' = "create-pair"
    /\ UNCHANGED <<cfg, manifest, files, tailnets, cmd, ctxDone, outcome,
                   tailnetDNS, loop>>

\* The pair that failed, or could not be recorded, is destroyed under the
\* run's own context and keeps its record; the loop continues.
AbandonPair ==
    /\ pc = "abandon-pair"
    /\ \/ DestroySucceeds(loop.inst) /\ UNCHANGED outcome
       \/ \E i \in BOOLEAN :
            DestroyFails(loop.inst) /\ outcome' = CleanupFails(i)
    /\ pc' = "instances"
    /\ UNCHANGED <<cfg, manifest, files, tailnets, cmd, ctxDone, tailnetDNS,
                   loop>>

-----------------------------------------------------------------------------
\* runBenchmark and runModeLoop.

\* SSH dialling, readiness or Kubernetes set-up fails, or the loop begins.
StartBenchmark ==
    /\ pc = "benchmark"
    /\ \/ /\ ~ctxDone
          /\ loop' = [loop EXCEPT !.pending = loop.modes]
          /\ pc' = "modes" /\ UNCHANGED outcome
       \/ \E i \in BOOLEAN :
            outcome' = BenchmarkFails(i) /\ pc' = "pair-done"
            /\ UNCHANGED loop
    /\ UNCHANGED <<cfg, manifest, files, external, cmd, ctxDone, tailnetDNS>>

\* A result on disk skips the mode and leaves its work item as it is.
SkipMode(m) ==
    /\ pc = "modes" /\ m \in loop.pending /\ <<loop.inst, m>> \in results
    /\ loop' = [loop EXCEPT !.pending = loop.pending \ {m}]
    /\ UNCHANGED <<cfg, manifest, files, external, pc, cmd, ctxDone, outcome,
                   tailnetDNS>>

\* Mutant: work the plan does not hold is run without a record.
StartModeUnchecked(m) ==
    /\ pc = "modes" /\ m \in loop.pending /\ <<loop.inst, m>> \notin results
    /\ Saved(SetWork(manifest, <<loop.inst, m>>, "running"))
    /\ loop' = [loop EXCEPT !.pending = loop.pending \ {m}, !.mode = m]
    /\ pc' = "run-mode"
    /\ UNCHANGED <<cfg, files, external, cmd, ctxDone, outcome, tailnetDNS>>

\* BeforeExternalStep: an item the plan does not hold is refused unsaved.
StartMode(m) ==
    /\ pc = "modes" /\ m \in loop.pending /\ <<loop.inst, m>> \notin results
    /\ LET w == <<loop.inst, m>>
       IN \/ /\ w \in Work /\ Saved(SetWork(manifest, w, "running"))
             /\ pc' = "run-mode" /\ UNCHANGED outcome
          \/ /\ IF w \in Work THEN SaveFails(SetWork(manifest, w, "running"))
                ELSE UNCHANGED manifest
             /\ outcome' = BenchmarkFails(FALSE) /\ UNCHANGED pc
    /\ loop' = [loop EXCEPT !.pending = loop.pending \ {m}, !.mode = m]
    /\ UNCHANGED <<cfg, files, external, cmd, ctxDone, tailnetDNS>>

\* The measurement.  WriteResult then truncates the file before filling it.
RunMode ==
    /\ pc = "run-mode"
    /\ \/ /\ ~ctxDone
          /\ results' = results \cup {Current}
          /\ pc' = "write-result" /\ UNCHANGED outcome
       \/ \E i \in BOOLEAN :
            /\ outcome' = BenchmarkFails(i)
            /\ pc' = "fail-mode" /\ UNCHANGED results
    /\ UNCHANGED <<cfg, manifest, complete, external, cmd, ctxDone, tailnetDNS,
                   loop>>

WriteResult ==
    /\ pc = "write-result"
    /\ \/ /\ complete' = complete \cup {Current}
          /\ pc' = "succeed-mode" /\ UNCHANGED outcome
       \/ /\ outcome' = BenchmarkFails(FALSE)
          /\ pc' = "fail-mode" /\ UNCHANGED complete
    /\ UNCHANGED <<cfg, manifest, results, external, cmd, ctxDone, tailnetDNS,
                   loop>>

\* AfterExternalStep.
FinishMode ==
    /\ pc \in {"succeed-mode", "fail-mode"}
    /\ LET m == SetWork(manifest, Current,
                    IF pc = "succeed-mode" THEN "succeeded" ELSE "failed")
       IN \/ Saved(m) /\ UNCHANGED outcome
          \/ SaveFails(m) /\ outcome' = BenchmarkFails(FALSE)
    /\ pc' = "modes"
    /\ UNCHANGED <<cfg, files, external, cmd, ctxDone, tailnetDNS, loop>>

EndModes ==
    /\ pc = "modes" /\ loop.pending = {}
    /\ pc' = "pair-done"
    /\ UNCHANGED <<cfg, manifest, files, external, cmd, ctxDone, outcome,
                   tailnetDNS, loop>>

-----------------------------------------------------------------------------
\* runProvider: teardown of the pair, then the next instance type.

KeepPair ==
    /\ pc = "pair-done" /\ ~ShouldCleanup(cfg.policy, outcome.benchmark)
    /\ pc' = "refresh-key"
    /\ UNCHANGED <<cfg, manifest, files, external, cmd, ctxDone, outcome,
                   tailnetDNS, loop>>

\* Without a durable "cleaning" record the pair is not destroyed at all.
RecordPairCleaning ==
    /\ pc = "pair-done" /\ ShouldCleanup(cfg.policy, outcome.benchmark)
    /\ LET m == UpsertResource(manifest, loop.inst, "cleaning")
           out == Remembered(outcome, loop.inst, "cleaning")
       IN \/ Saved(m) /\ outcome' = out /\ pc' = "destroy-pair"
          \/ /\ SaveFails(m)
             /\ outcome' = [out EXCEPT !.cleanup = TRUE]
             /\ pc' = "instances"
    /\ UNCHANGED <<cfg, files, external, cmd, ctxDone, tailnetDNS, loop>>

\* Mutant: a destroy call that failed is recorded as one that succeeded.
DestroyPairAssumed ==
    /\ pc = "destroy-pair"
    /\ DestroyFails(loop.inst)
    /\ pc' = "record-destroyed"
    /\ UNCHANGED <<cfg, manifest, files, tailnets, cmd, ctxDone, outcome,
                   tailnetDNS, loop>>

DestroyPair ==
    /\ pc = "destroy-pair"
    /\ \/ /\ DestroySucceeds(loop.inst)
          /\ pc' = "record-destroyed" /\ UNCHANGED outcome
       \/ \E i \in BOOLEAN :
            /\ DestroyFails(loop.inst)
            /\ outcome' = CleanupFails(i)
            /\ pc' = "refresh-key"
    /\ UNCHANGED <<cfg, manifest, files, tailnets, cmd, ctxDone, tailnetDNS,
                   loop>>

RecordPairCleaned ==
    /\ pc = "record-destroyed"
    /\ LET m == UpsertResource(manifest, loop.inst, "cleaned")
           out == Remembered(outcome, loop.inst, "cleaned")
       IN \/ Saved(m) /\ outcome' = out
          \/ SaveFails(m) /\ outcome' = [out EXCEPT !.cleanup = TRUE]
    /\ pc' = "refresh-key"
    /\ UNCHANGED <<cfg, files, external, cmd, ctxDone, tailnetDNS, loop>>

\* Only an owned tailnet has its key refreshed, and only when it is old.
RefreshAuthKey ==
    /\ pc = "refresh-key"
    /\ \/ UNCHANGED outcome
       \/ \E i \in BOOLEAN : cfg.createTailnet /\ outcome' = BenchmarkFails(i)
    /\ pc' = "instances"
    /\ UNCHANGED <<cfg, manifest, files, external, cmd, ctxDone, tailnetDNS,
                   loop>>

Aggregate ==
    /\ pc = "instances" /\ loop.queue = {}
    /\ outcome' \in {outcome, BenchmarkFails(FALSE)}
    /\ pc' = "networking-defer"
    /\ UNCHANGED <<cfg, manifest, files, external, cmd, ctxDone, tailnetDNS,
                   loop>>

-----------------------------------------------------------------------------
\* Deferred teardown.  It runs under contexts of its own, so a cancelled run
\* does not stop it, and a failed record does not either.

TearsDownNetworking ==
    cfg.managed /\ CleanupNetworking
    /\ ShouldCleanup(cfg.policy, outcome.benchmark)

KeepNetworking ==
    /\ pc = "networking-defer" /\ ~TearsDownNetworking
    /\ pc' = "provider-return"
    /\ UNCHANGED <<cfg, manifest, files, external, cmd, ctxDone, outcome,
                   tailnetDNS, loop>>

RecordNetworkingCleaning ==
    /\ pc = "networking-defer" /\ TearsDownNetworking
    /\ LET m == UpsertResource(manifest, "networking", "cleaning")
           out == Remembered(outcome, "networking", "cleaning")
       IN \/ Saved(m) /\ outcome' = out
          \/ SaveFails(m) /\ outcome' = [out EXCEPT !.cleanup = TRUE]
    /\ pc' = "teardown-networking"
    /\ UNCHANGED <<cfg, files, external, cmd, ctxDone, tailnetDNS, loop>>

TeardownNetworking ==
    /\ pc = "teardown-networking"
    /\ \/ /\ live' = live \ {"networking"}
          /\ pc' = "record-torn-down" /\ UNCHANGED outcome
       \/ \E i \in BOOLEAN :
            /\ DestroyFails("networking")
            /\ outcome' = CleanupFails(i)
            /\ pc' = "provider-return"
    /\ UNCHANGED <<cfg, manifest, files, tailnets, cmd, ctxDone, tailnetDNS,
                   loop>>

RecordNetworkingCleaned ==
    /\ pc = "record-torn-down"
    /\ LET m == UpsertResource(manifest, "networking", "cleaned")
           out == Remembered(outcome, "networking", "cleaned")
       IN \/ Saved(m) /\ outcome' = out
          \/ SaveFails(m) /\ outcome' = [out EXCEPT !.cleanup = TRUE]
    /\ pc' = "provider-return"
    /\ UNCHANGED <<cfg, files, external, cmd, ctxDone, tailnetDNS, loop>>

\* The tsnet server is closed before the tailnet is deleted.
CloseTsnet ==
    /\ pc = "provider-return"
    /\ outcome' \in {outcome, CleanupFails(FALSE)}
    /\ pc' = "tailnet-defer"
    /\ UNCHANGED <<cfg, manifest, files, external, cmd, ctxDone, tailnetDNS,
                   loop>>

\* Mutants: ownership of the tailnet, and the policy, are not asked.
DeletesTailnetJoined ==
    CleanupNetworking /\ tailnetDNS # NoTailnet
    /\ ShouldCleanup(cfg.policy, outcome.benchmark)
DeletesTailnetRegardless ==
    cfg.createTailnet /\ tailnetDNS # NoTailnet

DeletesTailnet ==
    cfg.createTailnet /\ CleanupNetworking /\ tailnetDNS # NoTailnet
    /\ ShouldCleanup(cfg.policy, outcome.benchmark)

KeepTailnet ==
    /\ pc = "tailnet-defer" /\ ~DeletesTailnet
    /\ pc' = "finish"
    /\ UNCHANGED <<cfg, manifest, files, external, cmd, ctxDone, outcome,
                   tailnetDNS, loop>>

RecordTailnetCleaning ==
    /\ pc = "tailnet-defer" /\ DeletesTailnet
    /\ LET m == UpsertTailnet(manifest, "cleaning", outcome.dns)
           out == Remembered(outcome, "tailnet", "cleaning")
       IN \/ Saved(m) /\ outcome' = out
          \/ SaveFails(m) /\ outcome' = [out EXCEPT !.cleanup = TRUE]
    /\ pc' = "delete-tailnet"
    /\ UNCHANGED <<cfg, files, external, cmd, ctxDone, tailnetDNS, loop>>

\* Mutant: the tailnet is recorded as gone whatever the call returned.
DeleteOwnTailnetAssumed ==
    /\ pc = "delete-tailnet"
    /\ tailnets' \in {tailnets, DeleteTailnet(tailnetDNS)}
    /\ pc' = "record-tailnet-gone"
    /\ UNCHANGED <<cfg, manifest, files, live, cmd, ctxDone, outcome,
                   tailnetDNS, loop>>

DeleteOwnTailnet ==
    /\ pc = "delete-tailnet"
    /\ \/ /\ tailnets' = DeleteTailnet(tailnetDNS)
          /\ pc' = "record-tailnet-gone" /\ UNCHANGED outcome
       \/ \E i \in BOOLEAN :
            /\ tailnets' \in {tailnets, DeleteTailnet(tailnetDNS)}
            /\ outcome' = CleanupFails(i)
            /\ pc' = "finish"
    /\ UNCHANGED <<cfg, manifest, files, live, cmd, ctxDone, tailnetDNS,
                   loop>>

RecordTailnetCleaned ==
    /\ pc = "record-tailnet-gone"
    /\ LET m == UpsertTailnet(manifest, "cleaned", outcome.dns)
           out == Remembered(outcome, "tailnet", "cleaned")
       IN \/ Saved(m) /\ outcome' = out
          \/ SaveFails(m) /\ outcome' = [out EXCEPT !.cleanup = TRUE]
    /\ pc' = "finish"
    /\ UNCHANGED <<cfg, files, external, cmd, ctxDone, tailnetDNS, loop>>

-----------------------------------------------------------------------------
\* The orchestrator's steps, between the first and the last of its process.

Execute ==
    \/ PrepareFails
    \/ RecordTailnetIntent \/ CreateTailnet \/ RecordTailnetCreated
    \/ UseExistingTailnet \/ JoinTailnet
    \/ RecordNetworkingIntent \/ SetupNetworking \/ LookUpNetworking
    \/ RecordNetworkingCreated \/ ListInstances
    \/ InstanceInterrupted
    \/ \E t \in InstanceTypes : SkipInstance(t) \/ PreCleanup(t)
    \/ RecordTopologyIntent \/ CreatePair \/ RecordPairCreated \/ AbandonPair
    \/ StartBenchmark \/ RunMode \/ WriteResult \/ FinishMode \/ EndModes
    \/ \E m \in Modes : SkipMode(m) \/ StartMode(m)
    \/ KeepPair \/ RecordPairCleaning \/ DestroyPair \/ RecordPairCleaned
    \/ RefreshAuthKey \/ Aggregate
    \/ KeepNetworking \/ RecordNetworkingCleaning \/ TeardownNetworking
    \/ RecordNetworkingCleaned \/ CloseTsnet
    \/ KeepTailnet \/ RecordTailnetCleaning \/ DeleteOwnTailnet
    \/ RecordTailnetCleaned
=============================================================================
