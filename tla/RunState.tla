------------------------------ MODULE RunState ------------------------------
(***************************************************************************)
(* The durable record of one tailbench run, its manifest.json, and         *)
(* the pure transitions the lifecycle manager and its recorder apply to it.*)
(* Every operator here is the body of a mutate function that Store.Update  *)
(* loads, runs and saves by an atomic rename; the modules that extend this *)
(* one decide when the update happens and whether the save succeeds.       *)
(*                                                                         *)
(* Abstracted away: timestamps, revision and retry counters, failure text, *)
(* the plan hash and the other descriptive fields of the manifest.  All    *)
(* records of one instance type (topology, server, client, router) are one *)
(* record, since one process always moves them together.                   *)
(***************************************************************************)
CONSTANTS
    InstanceTypes,  \* every instance type the provider can return
    Planned,        \* the types of the approved plan: the manifest's work
    Modes,          \* benchmark modes
    Tailnets        \* DNS names the Tailscale API may hand out

CONSTANT NoTailnet  \* the empty ProviderID

ASSUME PlannedAssumption == Planned \subseteq InstanceTypes
ASSUME ResourceAssumption == {"networking", "tailnet", "none"} \cap InstanceTypes = {}
ASSUME TailnetAssumption == NoTailnet \notin Tailnets

-----------------------------------------------------------------------------
\* Identifiers.  A work item is "<type>/<mode>"; a stack is what Pulumi owns.

Work == Planned \X Modes
Stacks == InstanceTypes \cup {"networking"}
ResourceIDs == Stacks \cup {"tailnet"}

RunStatus ==
    {"running", "succeeded", "partial", "failed", "interrupted", "cleaned"}
WorkStatus ==
    {"pending", "running", "succeeded", "skipped", "failed",
     "cleanup-pending", "cleaned"}
OutcomeStatus == {"pending", "succeeded", "skipped", "failed"}

\* "none" stands for a resource the inventory does not hold.
ResourceStatus ==
    {"none", "creating", "created", "cleaning", "cleaned", "unknown"}

\* dns is the ProviderID of the tailnet record, the only one cleanup needs:
\* stack names are derived from the run ID and the instance type.
Inventory == [ResourceIDs -> ResourceStatus]
Manifest ==
    [status : RunStatus \cup {"absent"}, recoverable : BOOLEAN,
     benchmark : OutcomeStatus, cleanup : OutcomeStatus,
     work : [Work -> WorkStatus],
     resources : Inventory, dns : Tailnets \cup {NoTailnet}]

-----------------------------------------------------------------------------
\* Queries.

Unclean(status) == status \notin {"none", "cleaned"}
\* Mutant: an interrupted creation is not counted as a leftover.
HasUncleanResourcesCreatedOnly(m) ==
    \E r \in ResourceIDs : m.resources[r] = "created"
HasUncleanResources(m) == \E r \in ResourceIDs : Unclean(m.resources[r])
HasRecoverableWork(m) ==
    \E w \in Work : m.work[w] \in {"pending", "running", "cleanup-pending"}

\* Mutants: failed work is forgotten; finished work is reset.
UnfinishedWorkWithoutFailed(m) ==
    {w \in Work : m.work[w] \in {"pending", "running", "cleanup-pending"}}
UnfinishedWorkWithSucceeded(m) ==
    {w \in Work :
        m.work[w] \in {"pending", "running", "failed", "succeeded",
                      "cleanup-pending"}}

\* What Manager.Resume may select.
UnfinishedWork(m) ==
    {w \in Work :
        m.work[w] \in {"pending", "running", "failed", "cleanup-pending"}}

\* What the resume command narrows the filter and the mode list to.  It is a
\* different set: work that a cleanup has claimed is not selected.
SelectedWork(m) ==
    {w \in Work : m.work[w] \in {"pending", "running", "failed"}}

-----------------------------------------------------------------------------
\* Run: the first manifest.  Work that already has a result is skipped.

WorkFromPlan(results) ==
    [w \in Work |-> IF w \in results THEN "skipped" ELSE "pending"]

CreatedManifest(results) ==
    [status |-> "running", recoverable |-> FALSE,
     benchmark |-> "pending", cleanup |-> "pending",
     work |-> WorkFromPlan(results),
     resources |-> [r \in ResourceIDs |-> "none"], dns |-> NoTailnet]

\* Before Store.Create has made the run directory there is no manifest.
NoManifest == [CreatedManifest({}) EXCEPT !.status = "absent"]

-----------------------------------------------------------------------------
\* Recorder: durable updates while a command executes.

UpsertResource(m, r, status) == [m EXCEPT !.resources[r] = status]

\* The tailnet record replaces its predecessor, ProviderID included.
UpsertTailnet(m, status, dns) ==
    [m EXCEPT !.resources["tailnet"] = status, !.dns = dns]

SetWork(m, w, status) == [m EXCEPT !.work[w] = status]

-----------------------------------------------------------------------------
\* The end of Run and Resume.  A result carries the outcomes, whether its
\* error chain holds a context error, and the process's own inventory.

FinalizeWork(work, benchmark) ==
    [w \in Work |->
        IF work[w] = "running" THEN "failed"
        ELSE IF work[w] = "pending" /\ benchmark = "succeeded" THEN "succeeded"
        ELSE work[w]]

\* Every resource of the result is upserted; the others keep their record.
UpsertAll(m, inventory, dns) ==
    [m EXCEPT
        !.resources = [r \in ResourceIDs |->
            IF inventory[r] = "none" THEN m.resources[r] ELSE inventory[r]],
        !.dns = IF inventory["tailnet"] = "none" THEN m.dns ELSE dns]

ExecutionStatus(result) ==
    IF result.interrupted THEN "interrupted"
    ELSE IF result.benchmark = "succeeded" /\ result.cleanup = "failed"
        THEN "partial"
    ELSE IF result.benchmark = "succeeded"
            /\ result.cleanup \in {"succeeded", "skipped"} THEN "succeeded"
    ELSE "failed"

ApplyExecutionResult(m, result) ==
    LET upserted == UpsertAll(m, result.resources, result.dns)
        finalized == [upserted EXCEPT
                        !.status = ExecutionStatus(result),
                        !.benchmark = result.benchmark,
                        !.cleanup = result.cleanup,
                        !.work = FinalizeWork(m.work, result.benchmark)]
    IN  [finalized EXCEPT !.recoverable =
            \/ finalized.status = "interrupted"
            \/ result.cleanup \in {"failed", "pending"}
            \/ HasRecoverableWork(finalized)
            \/ HasUncleanResources(finalized)]

-----------------------------------------------------------------------------
\* Resume and Cleanup: what they write before they act, and Cleanup's end.

CanResume(m) == m.recoverable /\ UnfinishedWork(m) # {}

BeginResume(m) ==
    [m EXCEPT
        !.status = "running", !.recoverable = TRUE,
        !.benchmark = "pending", !.cleanup = "pending",
        !.work = [w \in Work |->
            IF w \in UnfinishedWork(m) THEN "pending" ELSE m.work[w]]]

BeginCleanup(m) ==
    [m EXCEPT
        !.status = "running", !.recoverable = TRUE, !.cleanup = "pending",
        !.resources = [r \in ResourceIDs |->
            IF Unclean(m.resources[r]) THEN "cleaning" ELSE m.resources[r]],
        !.work = [w \in Work |->
            IF m.work[w] \in {"skipped", "cleaned"} THEN m.work[w]
            ELSE "cleanup-pending"]]

FinishCleanup(m, succeeded) ==
    [m EXCEPT
        !.status = IF succeeded THEN "cleaned"
                   ELSE IF m.benchmark = "succeeded" THEN "partial"
                   ELSE "failed",
        !.recoverable = ~succeeded,
        !.cleanup = IF succeeded THEN "succeeded" ELSE "failed",
        !.resources = [r \in ResourceIDs |->
            IF ~Unclean(m.resources[r]) THEN m.resources[r]
            ELSE IF succeeded THEN "cleaned" ELSE "unknown"],
        !.work = [w \in Work |->
            IF succeeded /\ m.work[w] = "cleanup-pending" THEN "cleaned"
            ELSE m.work[w]]]
=============================================================================
