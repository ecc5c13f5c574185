--------------------------- MODULE RunStateProofs ---------------------------
(***************************************************************************)
(* What the manifest transitions of RunState preserve: each keeps the      *)
(* manifest well formed and none of them returns it to "absent", and each  *)
(* is exact about which resources it stops calling unclean.                *)
(***************************************************************************)
EXTENDS RunState, TLAPS

\* A manifest that exists.
Existing(m) == m \in Manifest /\ m.status # "absent"

\* The manifest before the run and the first one Store.Create writes.
LEMMA CreatedManifestType ==
    ASSUME NEW results
    PROVE  /\ Existing(CreatedManifest(results))
           /\ NoManifest \in Manifest
<1>1. \A rs : CreatedManifest(rs) \in Manifest
  BY DEF CreatedManifest, WorkFromPlan, Manifest, Inventory, RunStatus,
         OutcomeStatus, WorkStatus, ResourceStatus
<1>2. CreatedManifest(results).status = "running"
  BY DEF CreatedManifest
<1>3. NoManifest \in Manifest
  BY <1>1 DEF NoManifest, Manifest
<1> QED BY <1>1, <1>2, <1>3 DEF Existing

\* upsertResource on a stack record changes that record and nothing else.
LEMMA UpsertResourceType ==
    ASSUME NEW m \in Manifest, NEW r \in ResourceIDs,
           NEW status \in ResourceStatus
    PROVE  /\ UpsertResource(m, r, status) \in Manifest
           /\ UpsertResource(m, r, status).status = m.status
           /\ UpsertResource(m, r, status).resources
                = [m.resources EXCEPT ![r] = status]
BY DEF UpsertResource, Manifest, Inventory

\* The tailnet record is replaced together with its identifier.
LEMMA UpsertTailnetType ==
    ASSUME NEW m \in Manifest, NEW status \in ResourceStatus,
           NEW dns \in Tailnets \cup {NoTailnet}
    PROVE  /\ UpsertTailnet(m, status, dns) \in Manifest
           /\ UpsertTailnet(m, status, dns).status = m.status
           /\ UpsertTailnet(m, status, dns).resources
                = [m.resources EXCEPT !["tailnet"] = status]
BY DEF UpsertTailnet, Manifest, Inventory, ResourceIDs

\* BeforeExternalStep and AfterExternalStep touch one work item only.
LEMMA SetWorkType ==
    ASSUME NEW m \in Manifest, NEW w \in Work, NEW status \in WorkStatus
    PROVE  /\ SetWork(m, w, status) \in Manifest
           /\ SetWork(m, w, status).status = m.status
           /\ SetWork(m, w, status).resources = m.resources
BY DEF SetWork, Manifest

\* The results an execution may hand back.
Results ==
    [benchmark : OutcomeStatus, cleanup : OutcomeStatus,
     interrupted : BOOLEAN, resources : Inventory,
     dns : Tailnets \cup {NoTailnet}]

\* applyExecutionResult: the resources of the result win over the recorded
\* ones, and the others keep their record.
LEMMA ApplyExecutionResultType ==
    ASSUME NEW m \in Manifest, NEW result \in Results
    PROVE  /\ Existing(ApplyExecutionResult(m, result))
           /\ ApplyExecutionResult(m, result).resources =
                [r \in ResourceIDs |->
                    IF result.resources[r] = "none" THEN m.resources[r]
                    ELSE result.resources[r]]
<1> DEFINE u == UpsertAll(m, result.resources, result.dns)
           f == [u EXCEPT !.status = ExecutionStatus(result),
                          !.benchmark = result.benchmark,
                          !.cleanup = result.cleanup,
                          !.work = FinalizeWork(m.work, result.benchmark)]
           b == \/ f.status = "interrupted"
                \/ result.cleanup \in {"failed", "pending"}
                \/ HasRecoverableWork(f)
                \/ HasUncleanResources(f)
           kept == [r \in ResourceIDs |->
                    IF result.resources[r] = "none" THEN m.resources[r]
                    ELSE result.resources[r]]
<1>1. kept \in Inventory
  BY DEF Manifest, Results, Inventory
<1>2. /\ u \in Manifest
      /\ u.resources = kept
  BY <1>1 DEF UpsertAll, Manifest, Results
<1>3. FinalizeWork(m.work, result.benchmark) \in [Work -> WorkStatus]
  BY DEF FinalizeWork, Manifest, WorkStatus
<1>4. ExecutionStatus(result) \in RunStatus
  BY DEF ExecutionStatus, RunStatus
<1>5. /\ f \in Manifest
      /\ f.status \in RunStatus
      /\ f.resources = kept
  BY <1>2, <1>3, <1>4 DEF Manifest, Results
<1>6. b \in BOOLEAN
  BY DEF HasRecoverableWork, HasUncleanResources
<1>7. ApplyExecutionResult(m, result) = [f EXCEPT !.recoverable = b]
  BY DEF ApplyExecutionResult
<1> HIDE DEF f, b, kept
<1>8. /\ [f EXCEPT !.recoverable = b] \in Manifest
      /\ [f EXCEPT !.recoverable = b].status = f.status
      /\ [f EXCEPT !.recoverable = b].resources = f.resources
  BY <1>5, <1>6 DEF Manifest
<1>9. "absent" \notin RunStatus
  BY DEF RunStatus
<1> QED BY <1>5, <1>7, <1>8, <1>9 DEF Existing, kept

\* Resume writes no resource record before it executes.
LEMMA BeginResumeType ==
    ASSUME NEW m \in Manifest
    PROVE  /\ Existing(BeginResume(m))
           /\ BeginResume(m).resources = m.resources
BY DEF BeginResume, Manifest, RunStatus, OutcomeStatus, WorkStatus, Existing

\* Cleanup claims every unclean record and forgets none.
LEMMA BeginCleanupType ==
    ASSUME NEW m \in Manifest
    PROVE  /\ Existing(BeginCleanup(m))
           /\ BeginCleanup(m).resources \in Inventory
           /\ \A r \in ResourceIDs :
                Unclean(BeginCleanup(m).resources[r])
                    <=> Unclean(m.resources[r])
<1> DEFINE rs == [r \in ResourceIDs |->
                    IF Unclean(m.resources[r]) THEN "cleaning"
                    ELSE m.resources[r]]
<1>1. rs \in Inventory /\ \A r \in ResourceIDs :
                            Unclean(rs[r]) <=> Unclean(m.resources[r])
  BY DEF Manifest, Inventory, ResourceStatus, Unclean
<1>2. BeginCleanup(m).resources = rs
  BY DEF BeginCleanup, Manifest
<1> HIDE DEF rs
<1>3. Existing(BeginCleanup(m))
  BY <1>1, <1>2 DEF BeginCleanup, Manifest, RunStatus, OutcomeStatus,
                    WorkStatus, Existing, rs
<1> QED BY <1>1, <1>2, <1>3

\* Only a cleanup that succeeded stops calling a resource unclean.
LEMMA FinishCleanupType ==
    ASSUME NEW m \in Manifest, NEW succeeded \in BOOLEAN
    PROVE  /\ Existing(FinishCleanup(m, succeeded))
           /\ FinishCleanup(m, succeeded).resources \in Inventory
           /\ ~succeeded => \A r \in ResourceIDs :
                Unclean(FinishCleanup(m, succeeded).resources[r])
                    <=> Unclean(m.resources[r])
<1> DEFINE rs == [r \in ResourceIDs |->
                    IF ~Unclean(m.resources[r]) THEN m.resources[r]
                    ELSE IF succeeded THEN "cleaned" ELSE "unknown"]
<1>1. rs \in Inventory
  BY DEF Manifest, Inventory, ResourceStatus
<1>2. ~succeeded => \A r \in ResourceIDs :
                        Unclean(rs[r]) <=> Unclean(m.resources[r])
  BY DEF Manifest, Inventory, Unclean
<1>3. FinishCleanup(m, succeeded).resources = rs
  BY DEF FinishCleanup, Manifest
<1>4. Existing(FinishCleanup(m, succeeded))
  BY <1>1, <1>3 DEF FinishCleanup, Manifest, RunStatus, OutcomeStatus,
                    WorkStatus, Existing
<1> QED BY <1>1, <1>2, <1>3, <1>4

-----------------------------------------------------------------------------
\* The remaining fields: what each transition leaves alone and what it sets.

\* A resource record says nothing about work, outcomes or the tailnet's name.
LEMMA UpsertResourceFields ==
    ASSUME NEW m \in Manifest, NEW r \in ResourceIDs,
           NEW status \in ResourceStatus
    PROVE  LET u == UpsertResource(m, r, status)
           IN  /\ u.work = m.work /\ u.dns = m.dns
               /\ u.cleanup = m.cleanup
BY DEF UpsertResource, Manifest, Inventory

\* The tailnet record carries the name it was given, even an empty one.
LEMMA UpsertTailnetFields ==
    ASSUME NEW m \in Manifest, NEW status \in ResourceStatus,
           NEW dns \in Tailnets \cup {NoTailnet}
    PROVE  LET u == UpsertTailnet(m, status, dns)
           IN  /\ u.work = m.work /\ u.dns = dns
               /\ u.status = m.status /\ u.cleanup = m.cleanup
BY DEF UpsertTailnet, Manifest, Inventory, ResourceIDs

\* A work item changes without touching another one.
LEMMA SetWorkFields ==
    ASSUME NEW m \in Manifest, NEW w \in Work, NEW status \in WorkStatus
    PROVE  LET u == SetWork(m, w, status)
           IN  /\ u.work = [m.work EXCEPT ![w] = status]
               /\ u.dns = m.dns /\ u.cleanup = m.cleanup
BY DEF SetWork, Manifest

\* applyExecutionResult: the tailnet's name follows its record, and a manifest
\* that names an unclean resource comes out recoverable.
LEMMA ApplyExecutionResultFields ==
    ASSUME NEW m \in Manifest, NEW result \in Results
    PROVE  LET a == ApplyExecutionResult(m, result)
           IN  /\ a.status = ExecutionStatus(result)
               /\ a.cleanup = result.cleanup
               /\ a.work = FinalizeWork(m.work, result.benchmark)
               /\ a.dns = IF result.resources["tailnet"] = "none" THEN m.dns
                          ELSE result.dns
               /\ HasUncleanResources(a) => a.recoverable
<1> DEFINE u == UpsertAll(m, result.resources, result.dns)
           f == [u EXCEPT !.status = ExecutionStatus(result),
                          !.benchmark = result.benchmark,
                          !.cleanup = result.cleanup,
                          !.work = FinalizeWork(m.work, result.benchmark)]
           b == \/ f.status = "interrupted"
                \/ result.cleanup \in {"failed", "pending"}
                \/ HasRecoverableWork(f)
                \/ HasUncleanResources(f)
           a == [f EXCEPT !.recoverable = b]
<1>1. ApplyExecutionResult(m, result) = a
  BY DEF ApplyExecutionResult
<1>2. /\ DOMAIN u = {"status", "recoverable", "benchmark", "cleanup", "work",
                     "resources", "dns"}
      /\ u.dns = IF result.resources["tailnet"] = "none" THEN m.dns
                 ELSE result.dns
  BY DEF UpsertAll, Manifest
<1> HIDE DEF u
<1>3. /\ DOMAIN f = DOMAIN u
      /\ f.status = ExecutionStatus(result) /\ f.cleanup = result.cleanup
      /\ f.work = FinalizeWork(m.work, result.benchmark)
      /\ f.dns = u.dns
  BY <1>2
<1> HIDE DEF f
<1>4. /\ a.status = f.status /\ a.cleanup = f.cleanup /\ a.work = f.work
      /\ a.dns = f.dns /\ a.resources = f.resources /\ a.recoverable = b
  BY <1>2, <1>3
<1>5. HasUncleanResources(f) => b
  OBVIOUS
<1>6. HasUncleanResources(a) <=> HasUncleanResources(f)
  BY <1>4 DEF HasUncleanResources
<1>7. HasUncleanResources(a) => a.recoverable
  BY <1>4, <1>5, <1>6
<1> QED BY <1>1, <1>2, <1>3, <1>4, <1>7

\* Resume reopens the unfinished work and leaves the rest.
LEMMA BeginResumeFields ==
    ASSUME NEW m \in Manifest
    PROVE  LET b == BeginResume(m)
           IN  /\ b.status = "running" /\ b.cleanup = "pending"
               /\ b.dns = m.dns
               /\ b.work = [w \in Work |->
                    IF w \in UnfinishedWork(m) THEN "pending" ELSE m.work[w]]
BY DEF BeginResume, Manifest

\* Cleanup claims all work but what was skipped or is cleaned already.
LEMMA BeginCleanupFields ==
    ASSUME NEW m \in Manifest
    PROVE  LET b == BeginCleanup(m)
           IN  /\ b.status = "running" /\ b.cleanup = "pending"
               /\ b.dns = m.dns
               /\ b.work = [w \in Work |->
                    IF m.work[w] \in {"skipped", "cleaned"} THEN m.work[w]
                    ELSE "cleanup-pending"]
               /\ b.resources = [r \in ResourceIDs |->
                    IF Unclean(m.resources[r]) THEN "cleaning"
                    ELSE m.resources[r]]
BY DEF BeginCleanup, Manifest

\* A cleanup that failed stays flagged; one that succeeded leaves nothing.
LEMMA FinishCleanupFields ==
    ASSUME NEW m \in Manifest, NEW succeeded \in BOOLEAN
    PROVE  LET f == FinishCleanup(m, succeeded)
           IN  /\ f.status \in {"cleaned", "partial", "failed"}
               /\ f.status = "cleaned" <=> succeeded
               /\ f.recoverable = ~succeeded
               /\ f.dns = m.dns
               /\ f.work = [w \in Work |->
                    IF succeeded /\ m.work[w] = "cleanup-pending"
                    THEN "cleaned" ELSE m.work[w]]
               /\ f.resources = [r \in ResourceIDs |->
                    IF ~Unclean(m.resources[r]) THEN m.resources[r]
                    ELSE IF succeeded THEN "cleaned" ELSE "unknown"]
               /\ succeeded => ~HasUncleanResources(f)
<1> DEFINE f == FinishCleanup(m, succeeded)
<1>1. /\ f.status = IF succeeded THEN "cleaned"
                    ELSE IF m.benchmark = "succeeded" THEN "partial"
                    ELSE "failed"
      /\ f.recoverable = ~succeeded
      /\ f.dns = m.dns
      /\ f.work = [w \in Work |->
            IF succeeded /\ m.work[w] = "cleanup-pending"
            THEN "cleaned" ELSE m.work[w]]
      /\ f.resources = [r \in ResourceIDs |->
            IF ~Unclean(m.resources[r]) THEN m.resources[r]
            ELSE IF succeeded THEN "cleaned" ELSE "unknown"]
  BY DEF FinishCleanup, Manifest
<1> HIDE DEF f
<1>2. succeeded => \A r \in ResourceIDs : ~Unclean(f.resources[r])
  BY <1>1 DEF Unclean
<1> QED BY <1>1, <1>2 DEF HasUncleanResources, f
=============================================================================
