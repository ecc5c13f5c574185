----------------------------- MODULE Tailbench ------------------------------
(***************************************************************************)
(* The tailbench commands that change a run: run, resume and cleanup, each *)
(* a process that ends by itself, is cancelled through its context, or     *)
(* dies between two steps.  run and resume execute the orchestrator's      *)
(* steps; cleanup walks the recorded work and inventory itself.            *)
(***************************************************************************)
EXTENDS Orchestrator

idle == pc = "idle" /\ cmd = "none"

\* Earlier runs have left results, though not all that are planned: there is a
\* run to be had.
Init ==
    /\ cfg \in Configs
    /\ manifest = NoManifest
    /\ results \in (SUBSET Work) \ {Work} /\ complete = results
    /\ live = {}
    /\ tailnets = [d \in Tailnets |->
                    IF d = JoinedTailnet THEN "live" ELSE "unused"]
    /\ pc = "idle" /\ cmd = "none" /\ ctxDone = FALSE
    /\ outcome = NoOutcome /\ tailnetDNS = NoTailnet /\ loop = NoLoop

\* A process ends: everything it held in memory is gone.
ProcessEnds ==
    /\ pc' = "idle" /\ cmd' = "none" /\ ctxDone' = FALSE
    /\ outcome' = NoOutcome /\ tailnetDNS' = NoTailnet /\ loop' = NoLoop

Starts(command, label, types, modes) ==
    /\ cmd' = command /\ pc' = label
    /\ loop' = [NoLoop EXCEPT !.types = types, !.modes = modes]
    /\ UNCHANGED <<ctxDone, outcome, tailnetDNS>>

-----------------------------------------------------------------------------
\* run

\* The guardrails refuse a plan with nothing left to measure.
NoRunnableWork == Work \subseteq results

\* Everything before Store.Create (plan, guardrails, confirmation, preflight)
\* changes no state.  The provider's listing is not bounded by the plan.
StartRun ==
    /\ idle /\ manifest.status = "absent" /\ ~NoRunnableWork
    /\ manifest' = CreatedManifest(results)
    /\ Starts("run", "execute", InstanceTypes, Modes)
    /\ UNCHANGED <<cfg, files, external>>

-----------------------------------------------------------------------------
\* resume

StartResume ==
    /\ idle /\ manifest.status # "absent"
    /\ SelectedWork(manifest) # {}   \* configureResumeSelection
    /\ CanResume(manifest)           \* Manager.Resume
    /\ manifest' = BeginResume(manifest)
    /\ Starts("resume", "execute", {w[1] : w \in SelectedWork(manifest)},
              {w[2] : w \in SelectedWork(manifest)})
    /\ UNCHANGED <<cfg, files, external>>

\* executeWithRecorder returns before there is an orchestrator: the log cannot
\* be opened, or the runtime cannot be built.
ExecuteFailsEarly ==
    /\ pc = "execute"
    /\ \E cleanup \in {"pending", "skipped"} :
        manifest' = ApplyExecutionResult(manifest,
            [benchmark |-> "failed", cleanup |-> cleanup,
             interrupted |-> FALSE, resources |-> NoOutcome.resources,
             dns |-> NoTailnet])
    /\ ProcessEnds
    /\ UNCHANGED <<cfg, files, external>>

\* The end of Manager.Run and Manager.Resume.
FinishExecution ==
    /\ pc = "finish"
    /\ manifest' = ApplyExecutionResult(manifest, ResultOf(outcome))
    /\ ProcessEnds
    /\ UNCHANGED <<cfg, files, external>>

-----------------------------------------------------------------------------
\* cleanup

\* Ownership is certain for every run-scoped resource, so the refusal on
\* foreign ownership does not apply.  cleanup asks for no recoverability.
\* outcome.cleanup holds the error so far: lock recovery may already fail.
StartCleanup ==
    /\ idle /\ manifest.status # "absent"
    /\ manifest' = BeginCleanup(manifest)
    /\ cmd' = "cleanup"
    /\ IF HasUncleanResources(manifest)
       THEN /\ pc' = "cleanup-pairs"
            /\ loop' = [NoLoop EXCEPT !.queue = Planned]
            /\ outcome' \in {NoOutcome, CleanupFails(FALSE)}
       ELSE /\ pc' = "cleanup-done"
            /\ outcome' = CleanupFails(FALSE) /\ UNCHANGED loop
    /\ UNCHANGED <<cfg, files, external, ctxDone, tailnetDNS>>

\* The types come from the recorded work, not from the inventory.
CleanupPair(t) ==
    /\ pc = "cleanup-pairs" /\ t \in loop.queue
    /\ \/ DestroySucceeds(t) /\ UNCHANGED outcome
       \/ DestroyFails(t) /\ outcome' = CleanupFails(FALSE)
    /\ loop' = [loop EXCEPT !.queue = loop.queue \ {t}]
    /\ UNCHANGED <<cfg, manifest, files, tailnets, pc, cmd, ctxDone,
                   tailnetDNS>>

CleanupNetwork ==
    /\ pc = "cleanup-pairs" /\ loop.queue = {}
    /\ \/ ~cfg.managed /\ UNCHANGED <<live, outcome>>
       \/ cfg.managed /\ DestroySucceeds("networking") /\ UNCHANGED outcome
       \/ /\ cfg.managed /\ DestroyFails("networking")
          /\ outcome' = CleanupFails(FALSE)
    /\ pc' = "cleanup-tailnet"
    /\ UNCHANGED <<cfg, manifest, files, tailnets, cmd, ctxDone, tailnetDNS,
                   loop>>

\* Mutant: the error of the tailnet's deletion is dropped.
CleanupTailnetIgnoringErrors ==
    /\ pc = "cleanup-tailnet"
    /\ IF Unclean(manifest.resources["tailnet"]) /\ manifest.dns # NoTailnet
       THEN tailnets' \in {tailnets, DeleteTailnet(manifest.dns)}
       ELSE UNCHANGED tailnets
    /\ pc' = "cleanup-done"
    /\ UNCHANGED <<cfg, manifest, files, live, cmd, ctxDone, outcome,
                   tailnetDNS, loop>>

\* Every tailnet record the manager found unclean: "cleaning" by now.
CleanupTailnet ==
    /\ pc = "cleanup-tailnet"
    /\ \/ /\ ~Unclean(manifest.resources["tailnet"])
          /\ UNCHANGED <<tailnets, outcome>>
       \/ /\ Unclean(manifest.resources["tailnet"])
          /\ manifest.dns = NoTailnet
          /\ outcome' = CleanupFails(FALSE) /\ UNCHANGED tailnets
       \/ /\ Unclean(manifest.resources["tailnet"])
          /\ manifest.dns # NoTailnet /\ ~ctxDone
          /\ tailnets' = DeleteTailnet(manifest.dns) /\ UNCHANGED outcome
       \/ /\ Unclean(manifest.resources["tailnet"])
          /\ manifest.dns # NoTailnet
          /\ tailnets' \in {tailnets, DeleteTailnet(manifest.dns)}
          /\ outcome' = CleanupFails(FALSE)
    /\ pc' = "cleanup-done"
    /\ UNCHANGED <<cfg, manifest, files, live, cmd, ctxDone, tailnetDNS, loop>>

EndCleanup ==
    /\ pc = "cleanup-done"
    /\ manifest' = FinishCleanup(manifest, ~outcome.cleanup)
    /\ ProcessEnds
    /\ UNCHANGED <<cfg, files, external>>

-----------------------------------------------------------------------------
\* The environment.

\* SIGINT, SIGTERM or the duration limit.
Cancel ==
    /\ ~idle /\ ~ctxDone
    /\ ctxDone' = TRUE
    /\ UNCHANGED <<cfg, manifest, files, external, pc, cmd, outcome,
                   tailnetDNS, loop>>

\* The process dies.  A final update that cannot be saved ends the same way.
Crash ==
    /\ ~idle
    /\ ProcessEnds
    /\ UNCHANGED <<cfg, manifest, files, external>>

-----------------------------------------------------------------------------
ProcessStep ==
    \/ Execute \/ ExecuteFailsEarly \/ FinishExecution
    \/ \E t \in InstanceTypes : CleanupPair(t)
    \/ CleanupNetwork \/ CleanupTailnet \/ EndCleanup

Next ==
    \/ StartRun \/ StartResume \/ StartCleanup
    \/ ProcessStep \/ Cancel \/ Crash

\* A process that can step does; nobody has to start one or to kill it.
Spec == Init /\ [][Next]_vars /\ WF_vars(ProcessStep)

-----------------------------------------------------------------------------
Labels ==
    {"idle", "execute", "create-tailnet", "record-tailnet", "join-tailnet",
     "networking", "setup-networking", "record-networking", "list-instances",
     "instances", "record-topology", "create-pair", "record-pair",
     "abandon-pair", "benchmark", "modes", "run-mode", "write-result",
     "succeed-mode", "fail-mode", "pair-done", "destroy-pair",
     "record-destroyed", "refresh-key", "networking-defer",
     "teardown-networking", "record-torn-down", "provider-return",
     "tailnet-defer", "delete-tailnet", "record-tailnet-gone", "finish",
     "cleanup-pairs", "cleanup-tailnet", "cleanup-done"}

\* The labels at which loop.inst names the pair the step is about, and the
\* ones at which loop.mode names the mode as well.
ModeLabels == {"run-mode", "write-result", "succeed-mode", "fail-mode"}
PairLabels ==
    {"record-topology", "create-pair", "record-pair", "abandon-pair",
     "benchmark", "modes", "pair-done", "destroy-pair", "record-destroyed"}
    \cup ModeLabels

\* Types of all state, and that the loop's position is set where it is used.
TypeOK ==
    /\ cfg \in Configurations
    /\ manifest \in Manifest
    /\ results \in SUBSET (InstanceTypes \X Modes) /\ complete \subseteq results
    /\ live \subseteq Stacks
    /\ tailnets \in [Tailnets -> TailnetState]
    /\ pc \in Labels
    /\ cmd \in {"none", "run", "resume", "cleanup"}
    /\ ctxDone \in BOOLEAN
    /\ outcome \in Outcomes
    /\ tailnetDNS \in Tailnets \cup {NoTailnet}
    /\ loop \in Loops
    /\ pc \in PairLabels => loop.inst \in InstanceTypes
    /\ pc \in ModeLabels => Current \in Work
    /\ pc = "write-result" => Current \in results

-----------------------------------------------------------------------------
\* Properties.

\* A stack that holds cloud resources is always in the manifest, and not as
\* cleaned: intent is saved before SetupNetworking and CreatePair, and
\* "cleaned" only after the destroy call succeeded.  At every instant, so
\* whatever moment the process dies at.
StacksTracked == \A s \in live : Unclean(manifest.resources[s])

\* The run implements the write-ahead promise: the order of the durable record
\* and the cloud call, for every stack, through crashes, failed saves, resumes
\* and cleanups.
Ledger == INSTANCE WriteAhead WITH
    owned <- live,
    recorded <- {s \in Stacks : Unclean(manifest.resources[s])}
ImplementsWriteAhead == Ledger!Spec

\* A run recorded as cleaned owns nothing: no stack is left, the tailnet it
\* recorded is gone, nothing is marked unclean, and resume is refused.
CleanedRunOwnsNothing ==
    manifest.status = "cleaned" =>
        /\ live = {}
        /\ manifest.dns # NoTailnet => tailnets[manifest.dns] # "live"
        /\ ~HasUncleanResources(manifest)
        /\ ~manifest.recoverable

\* A run that has ended with anything left in the cloud says so: Recoverable
\* is what makes status print the cleanup command.
LeftoversAreFlagged ==
    (idle /\ manifest.status \notin {"absent", "running"} /\ live # {})
        => manifest.recoverable

\* A run recorded as succeeded has no open work: whatever failed or was cut
\* off in an earlier process of the run was selected and done by a resume.
SucceededRunIsComplete ==
    manifest.status = "succeeded" =>
        \A w \in Work : manifest.work[w] \in {"succeeded", "skipped"}

\* A first run that reports its cleanup as succeeded has left no stack.
FirstCleanupIsComplete ==
    [][cmd = "run" /\ pc = "finish" /\ manifest'.cleanup = "succeeded"
        => live = {}]_vars

\* A tailnet record marked cleaned names a tailnet that no longer exists.
CleanedTailnetIsGone ==
    (manifest.resources["tailnet"] = "cleaned" /\ manifest.dns # NoTailnet)
        => tailnets[manifest.dns] # "live"

\* Only approved work is measured, even where the provider lists types that
\* the plan does not hold.
OnlyPlannedWorkMeasured == results \subseteq Work

\* run and resume tear down networking and tailnets only as the policy says:
\* never under manual, and under on-success only if nothing failed.
TeardownFollowsPolicy ==
    [][(/\ cmd \in {"run", "resume"}
        /\ \/ "networking" \in live \ live'
           \/ \E d \in Tailnets : tailnets[d] # "deleted"
                                  /\ tailnets'[d] = "deleted")
        => \/ cfg.policy = "always"
           \/ cfg.policy = "on-success" /\ ~outcome.benchmark]_vars

\* No command deletes the tailnet a run merely joined.
JoinedTailnetSurvives == tailnets[JoinedTailnet] = "live"

\* Work that has succeeded is never executed again; only cleanup claims it.
\* Work that cleanup has finished with never changes.
DoneWorkStaysDone ==
    [][\A w \in Work :
        /\ manifest.status # "absent" /\ manifest.work[w] = "succeeded"
            => manifest'.work[w] \in {"succeeded", "cleanup-pending"}
        /\ manifest.work[w] = "cleaned" => manifest'.work[w] = "cleaned"]_vars

\* Every command ends, cancelled or not, however its calls turn out.
CommandEnds == pc # "idle" ~> pc = "idle"

-----------------------------------------------------------------------------
\* Why StacksTracked holds: it is not inductive by itself.  The parts below say
\* where the record and the process's memory must agree with the cloud.

\* No manifest, no process and no stack.
NothingBeforeRun == manifest.status = "absent" => pc = "idle" /\ live = {}

\* What the process will write at its end does not forget a live stack either.
MemoryTracksStacks == \A s \in live : outcome.resources[s] # "cleaned"

\* The intent is durable, and in memory, when the create call starts.
IntentIsRecorded ==
    /\ pc = "create-pair" =>
        /\ Unclean(manifest.resources[loop.inst])
        /\ outcome.resources[loop.inst] # "cleaned"
    /\ pc = "setup-networking" =>
        /\ cfg.managed
        /\ Unclean(manifest.resources["networking"])
        /\ outcome.resources["networking"] # "cleaned"

\* The stack is gone when "cleaned" is about to be recorded.
GoneBeforeCleaned ==
    /\ pc = "record-destroyed" => loop.inst \notin live
    /\ pc = "record-torn-down" => "networking" \notin live

\* A run with existing networking never has a networking stack.
UnmanagedHasNoStack == ~cfg.managed => "networking" \notin live

\* A cleanup without an error so far has destroyed all it has passed.
CleanupSweeps ==
    ~outcome.cleanup =>
        /\ pc = "cleanup-pairs" => live \subseteq loop.queue \cup {"networking"}
        /\ pc \in {"cleanup-tailnet", "cleanup-done"} => live = {}

\* The inductive invariant behind StacksTracked and ImplementsWriteAhead.
TrackingInvariant ==
    /\ TypeOK
    /\ StacksTracked
    /\ NothingBeforeRun
    /\ MemoryTracksStacks
    /\ IntentIsRecorded
    /\ GoneBeforeCleaned
    /\ UnmanagedHasNoStack
    /\ CleanupSweeps

-----------------------------------------------------------------------------
\* Why the other properties hold, whatever the provider lists.  None of them is
\* inductive either: each part ties the manifest to the process that writes it.

CleanupLabels == {"cleanup-pairs", "cleanup-tailnet", "cleanup-done"}
Executing == pc \notin CleanupLabels \cup {"idle"}

\* The command is the one whose steps are taken, and an ended process has left
\* nothing in memory.
CommandMatchesStep ==
    /\ cmd = "none" <=> pc = "idle"
    /\ cmd = "cleanup" <=> pc \in CleanupLabels
    /\ pc \in {"idle", "execute"} => outcome = NoOutcome

\* While a process runs, the manifest says so; before the first one it is the
\* empty manifest.
StatusMatchesProcess ==
    /\ pc # "idle" => manifest.status = "running" /\ manifest.cleanup = "pending"
    /\ manifest.status = "absent" => manifest = NoManifest /\ live = {}

\* An ended run that names an unclean resource is flagged; a cleaned one names
\* none.
UncleanIsFlagged ==
    /\ (manifest.status \notin {"absent", "running"}
            /\ HasUncleanResources(manifest)) => manifest.recoverable
    /\ manifest.status = "cleaned" =>
        ~HasUncleanResources(manifest) /\ ~manifest.recoverable

Gone(d) == d = NoTailnet \/ tailnets[d] = "deleted"

\* No record, on disk or in memory, names the joined tailnet, and the steps
\* that create or delete a tailnet belong to runs that own theirs.
OnlyOwnTailnet ==
    /\ JoinedTailnetSurvives
    /\ JoinedTailnet \notin {manifest.dns, outcome.dns}
    /\ cfg.createTailnet => tailnetDNS # JoinedTailnet
    /\ pc \in {"create-tailnet", "record-tailnet", "delete-tailnet",
               "record-tailnet-gone"} => cfg.createTailnet

\* A tailnet is recorded as cleaned, or about to be, only once it is deleted.
TailnetRecordIsTrue ==
    /\ outcome.dns \in {NoTailnet, tailnetDNS}
    /\ pc = "create-tailnet" => outcome.dns = NoTailnet
    /\ manifest.resources["tailnet"] = "none" => manifest.dns = NoTailnet
    /\ manifest.resources["tailnet"] = "cleaned" => Gone(manifest.dns)
    /\ outcome.resources["tailnet"] = "cleaned" => Gone(outcome.dns)
    /\ pc = "record-tailnet-gone" => Gone(tailnetDNS)
    /\ (pc = "cleanup-done" /\ ~outcome.cleanup
            /\ Unclean(manifest.resources["tailnet"])) => Gone(manifest.dns)

\* Work is "cleaned" all at once, so a run that can execute again has none;
\* while it executes, all that succeeded has a result, and without an error
\* nothing but the current item is open or failed.
WorkIsAccounted ==
    /\ (\E w \in Work : manifest.work[w] = "cleaned")
        => \A w \in Work : manifest.work[w] \in {"skipped", "cleaned"}
    /\ pc \in CleanupLabels =>
        \A w \in Work : manifest.work[w] \in
                            {"skipped", "cleanup-pending", "cleaned"}
    /\ SelectedWork(manifest) # {} \/ Executing =>
        \A w \in Work : manifest.work[w] = "succeeded" => w \in results
    /\ Executing => \A w \in Work :
            manifest.work[w] \notin {"cleanup-pending", "cleaned"}
    /\ (Executing /\ ~outcome.benchmark) => \A w \in Work :
            \/ manifest.work[w] \in {"pending", "succeeded", "skipped"}
            \/ pc \in ModeLabels /\ w = Current
    /\ pc \in ModeLabels => manifest.work[Current] = "running"
    /\ pc = "succeed-mode" => Current \in results
    /\ pc = "fail-mode" => outcome.benchmark
    /\ SucceededRunIsComplete

\* The teardown steps are reached only where the policy allows them.
PolicyIsAsked ==
    pc \in {"teardown-networking", "delete-tailnet"} =>
        ShouldCleanup(cfg.policy, outcome.benchmark)

\* The steps at which a pair may exist, and those without a networking stack.
HoldingLabels ==
    {"record-pair", "abandon-pair", "benchmark", "modes", "pair-done",
     "destroy-pair"} \cup ModeLabels
BareLabels ==
    {"execute", "create-tailnet", "record-tailnet", "join-tailnet",
     "networking", "record-torn-down", "provider-return", "tailnet-defer",
     "delete-tailnet", "record-tailnet-gone", "finish"}

\* A first run that may clean up and has had no cleanup error holds at most
\* the pair it is at and its networking, and nothing before and after them.
FirstRunSweeps ==
    /\ UnmanagedHasNoStack
    /\ pc = "setup-networking" => cfg.managed
    /\ (cmd = "run" /\ ~outcome.cleanup
            /\ ShouldCleanup(cfg.policy, outcome.benchmark)) =>
        /\ live \subseteq {"networking", loop.inst}
        /\ pc \notin HoldingLabels => live \subseteq {"networking"}
        /\ pc \in BareLabels => live = {}

\* The inductive invariant behind the properties that need no assumption on
\* what the provider lists.
LifecycleInvariant ==
    /\ TypeOK
    /\ CommandMatchesStep
    /\ StatusMatchesProcess
    /\ UncleanIsFlagged
    /\ OnlyOwnTailnet
    /\ TailnetRecordIsTrue
    /\ WorkIsAccounted
    /\ PolicyIsAsked
    /\ FirstRunSweeps

-----------------------------------------------------------------------------
\* What the documentation says and the code does not do.

\* "Recoverable state was saved" when requested work failed.
FailedRunIsResumable ==
    (idle /\ manifest.status = "failed" /\ UnfinishedWork(manifest) # {})
        => CanResume(manifest)

\* Work is done when its result file exists.
SucceededWorkHasResult ==
    \A w \in Work :
        (manifest.status # "absent" /\ manifest.work[w] = "succeeded")
            => w \in results

\* Under "always", a resume that ends well has removed what was left.
CleanupSucceededLeavesNothing ==
    (idle /\ manifest.status = "succeeded" /\ manifest.cleanup = "succeeded")
        => live = {}
=============================================================================
