--------------------------- MODULE TailbenchProofs --------------------------
(***************************************************************************)
(* Proofs about Tailbench for every set of instance types, modes, tailnets *)
(* and configurations: the type invariant, and that no stack the run owns  *)
(* is ever missing from the durable inventory.                             *)
(***************************************************************************)
EXTENDS Tailbench, RunStateProofs

\* The in-memory outcome: what the error and inventory updates preserve.
LEMMA RememberedType ==
    ASSUME NEW out \in Outcomes, NEW r \in ResourceIDs,
           NEW status \in ResourceStatus
    PROVE  /\ Remembered(out, r, status) \in Outcomes
           /\ Remembered(out, r, status).resources
                = [out.resources EXCEPT ![r] = status]
           /\ Remembered(out, r, status).cleanup = out.cleanup
BY DEF Remembered, Outcomes, Inventory

\* recordBenchmarkFailure and recordCleanupFailure leave the inventory alone.
LEMMA FailuresType ==
    ASSUME NEW out \in Outcomes
    PROVE  /\ [out EXCEPT !.benchmark = TRUE] \in Outcomes
           /\ [out EXCEPT !.benchmark = TRUE].resources = out.resources
           /\ [out EXCEPT !.cleanup = TRUE] \in Outcomes
           /\ [out EXCEPT !.cleanup = TRUE].resources = out.resources
           /\ \A d \in Tailnets \cup {NoTailnet} :
                /\ [out EXCEPT !.dns = d] \in Outcomes
                /\ [out EXCEPT !.dns = d].resources = out.resources
BY DEF Outcomes

\* The same for the error of a call, whether or not it carries a context error.
LEMMA FailsType ==
    ASSUME outcome \in Outcomes, NEW i \in BOOLEAN
    PROVE  /\ BenchmarkFails(i) \in Outcomes
           /\ BenchmarkFails(i).resources = outcome.resources
           /\ CleanupFails(i) \in Outcomes
           /\ CleanupFails(i).resources = outcome.resources
           /\ CleanupFails(i).cleanup = TRUE
BY DEF BenchmarkFails, CleanupFails, Outcomes

\* A process starts and ends with nothing in memory.
LEMMA EmptyMemory ==
    /\ NoOutcome \in Outcomes
    /\ NoLoop \in Loops
    /\ \A r \in ResourceIDs : NoOutcome.resources[r] = "none"
BY DEF NoOutcome, Outcomes, Inventory, ResourceStatus, NoLoop, Loops

\* Every result handed to applyExecutionResult is well formed.
LEMMA ResultOfType ==
    ASSUME NEW out \in Outcomes
    PROVE  /\ ResultOf(out) \in Results
           /\ ResultOf(out).resources = out.resources
BY DEF ResultOf, Results, Outcomes, OutcomeStatus

\* The resources a run has, and the positions of its loops.
LEMMA StackIDs ==
    /\ Stacks \subseteq ResourceIDs /\ "networking" \in Stacks
    /\ "tailnet" \in ResourceIDs /\ "networking" \in ResourceIDs
    /\ InstanceTypes \subseteq Stacks /\ InstanceTypes \subseteq ResourceIDs
    /\ "networking" \notin InstanceTypes /\ "tailnet" \notin Stacks
BY ResourceAssumption DEF Stacks, ResourceIDs

-----------------------------------------------------------------------------
\* The recorder.

\* What recordResources does to memory and, if the save went through, to the
\* manifest.
Recorded(r, status) ==
    /\ manifest' \in Manifest /\ outcome' \in Outcomes
    /\ manifest'.status = manifest.status
    /\ \/ manifest'.resources = [manifest.resources EXCEPT ![r] = status]
       \/ /\ manifest'.resources = manifest.resources
          /\ pc' \notin {"create-pair", "setup-networking"}
    /\ outcome'.resources = [outcome.resources EXCEPT ![r] = status]

\* Each of the eight stack records is such a step.
LEMMA StackRecords ==
    ASSUME TypeOK
    PROVE  /\ RecordNetworkingIntent => Recorded("networking", "creating")
           /\ RecordNetworkingCreated => Recorded("networking", "created")
           /\ RecordNetworkingCleaning => Recorded("networking", "cleaning")
           /\ RecordNetworkingCleaned => Recorded("networking", "cleaned")
           /\ RecordTopologyIntent => Recorded(loop.inst, "creating")
           /\ RecordPairCreated => Recorded(loop.inst, "created")
           /\ RecordPairCleaning => Recorded(loop.inst, "cleaning")
           /\ RecordPairCleaned => Recorded(loop.inst, "cleaned")
<1>1. ASSUME NEW r \in ResourceIDs, NEW status \in ResourceStatus,
             \/ /\ manifest' = UpsertResource(manifest, r, status)
                /\ outcome' = Remembered(outcome, r, status)
             \/ /\ manifest' \in
                    {manifest, UpsertResource(manifest, r, status)}
                /\ outcome' \in
                    {[Remembered(outcome, r, status) EXCEPT !.benchmark = TRUE],
                     [Remembered(outcome, r, status) EXCEPT !.cleanup = TRUE]}
                /\ pc' \notin {"create-pair", "setup-networking"}
      PROVE  Recorded(r, status)
  <2>1. manifest \in Manifest /\ outcome \in Outcomes
    BY DEF TypeOK
  <2>2. /\ UpsertResource(manifest, r, status) \in Manifest
        /\ UpsertResource(manifest, r, status).status = manifest.status
        /\ UpsertResource(manifest, r, status).resources
            = [manifest.resources EXCEPT ![r] = status]
    BY <2>1, UpsertResourceType
  <2>3. /\ outcome' \in Outcomes
        /\ outcome'.resources = [outcome.resources EXCEPT ![r] = status]
    <3> DEFINE out == Remembered(outcome, r, status)
    <3>1. /\ out \in Outcomes
          /\ out.resources = [outcome.resources EXCEPT ![r] = status]
      BY <2>1, RememberedType
    <3>2. outcome' \in {out, [out EXCEPT !.benchmark = TRUE],
                       [out EXCEPT !.cleanup = TRUE]}
      BY <1>1
    <3> HIDE DEF out
    <3> QED BY <3>1, <3>2, FailuresType
  <2> QED BY <1>1, <2>1, <2>2, <2>3 DEF Recorded
<1>2. {"creating", "created", "cleaning", "cleaned"} \subseteq ResourceStatus
  BY DEF ResourceStatus
<1>3. pc \in PairLabels => loop.inst \in ResourceIDs
  BY StackIDs DEF TypeOK
<1>4. RecordNetworkingIntent => Recorded("networking", "creating")
  BY <1>1, <1>2, StackIDs DEF RecordNetworkingIntent, Saved, SaveFails
<1>5. RecordNetworkingCreated => Recorded("networking", "created")
  BY <1>1, <1>2, StackIDs DEF RecordNetworkingCreated, Saved, SaveFails
<1>6. RecordNetworkingCleaning => Recorded("networking", "cleaning")
  BY <1>1, <1>2, StackIDs DEF RecordNetworkingCleaning, Saved, SaveFails
<1>7. RecordNetworkingCleaned => Recorded("networking", "cleaned")
  BY <1>1, <1>2, StackIDs DEF RecordNetworkingCleaned, Saved, SaveFails
<1>8. RecordTopologyIntent => Recorded(loop.inst, "creating")
  BY <1>1, <1>2, <1>3 DEF RecordTopologyIntent, Saved, SaveFails, PairLabels
<1>9. RecordPairCreated => Recorded(loop.inst, "created")
  BY <1>1, <1>2, <1>3 DEF RecordPairCreated, Saved, SaveFails, PairLabels
<1>10. RecordPairCleaning => Recorded(loop.inst, "cleaning")
  BY <1>1, <1>2, <1>3 DEF RecordPairCleaning, Saved, SaveFails, PairLabels
<1>11. RecordPairCleaned => Recorded(loop.inst, "cleaned")
  BY <1>1, <1>2, <1>3 DEF RecordPairCleaned, Saved, SaveFails, PairLabels
<1> QED BY <1>4, <1>5, <1>6, <1>7, <1>8, <1>9, <1>10, <1>11

\* The tailnet record is no stack, and is updated the same way.
LEMMA TailnetRecords ==
    ASSUME TypeOK,
           \/ RecordTailnetIntent \/ RecordTailnetCreated
           \/ RecordTailnetCleaning \/ RecordTailnetCleaned
    PROVE  \E status \in ResourceStatus : Recorded("tailnet", status)
<1>1. PICK status, dns, out :
        /\ status \in {"creating", "created", "cleaning", "cleaned"}
        /\ dns \in Tailnets \cup {NoTailnet}
        /\ out \in {Remembered(outcome, "tailnet", status),
                    [Remembered(outcome, "tailnet", status)
                        EXCEPT !.dns = tailnetDNS]}
        /\ \/ /\ manifest' = UpsertTailnet(manifest, status, dns)
              /\ outcome' = out
           \/ /\ manifest' \in {manifest, UpsertTailnet(manifest, status, dns)}
              /\ outcome' \in {[out EXCEPT !.benchmark = TRUE],
                               [out EXCEPT !.cleanup = TRUE]}
        /\ pc' \notin {"create-pair", "setup-networking"}
  <2>1. outcome.dns \in Tailnets \cup {NoTailnet}
    BY DEF TypeOK, Outcomes
  <2>2. tailnetDNS \in Tailnets \cup {NoTailnet}
    BY DEF TypeOK
  <2>3. CASE RecordTailnetIntent
    BY <2>3 DEF RecordTailnetIntent, Saved, SaveFails
  <2>4. CASE RecordTailnetCreated
    <3> DEFINE o == [Remembered(outcome, "tailnet", "created")
                        EXCEPT !.dns = tailnetDNS]
    <3>1. /\ \/ /\ manifest' = UpsertTailnet(manifest, "created", tailnetDNS)
                /\ outcome' = o
             \/ /\ manifest' \in {manifest, UpsertTailnet(manifest, "created",
                                                         tailnetDNS)}
                /\ outcome' = [o EXCEPT !.benchmark = TRUE]
          /\ pc' \in {"join-tailnet", "tailnet-defer"}
      BY <2>4 DEF RecordTailnetCreated, Saved, SaveFails
    <3>2. o \in {Remembered(outcome, "tailnet", "created"),
                [Remembered(outcome, "tailnet", "created")
                    EXCEPT !.dns = tailnetDNS]}
      OBVIOUS
    <3> HIDE DEF o
    <3> QED BY <2>2, <3>1, <3>2
  <2>5. CASE RecordTailnetCleaning
    BY <2>1, <2>5 DEF RecordTailnetCleaning, Saved, SaveFails
  <2>6. CASE RecordTailnetCleaned
    BY <2>1, <2>6 DEF RecordTailnetCleaned, Saved, SaveFails
  <2> QED BY <2>3, <2>4, <2>5, <2>6
<1>2. manifest \in Manifest /\ outcome \in Outcomes
      /\ status \in ResourceStatus /\ tailnetDNS \in Tailnets \cup {NoTailnet}
  BY <1>1 DEF TypeOK, ResourceStatus
<1>3. /\ UpsertTailnet(manifest, status, dns) \in Manifest
      /\ UpsertTailnet(manifest, status, dns).status = manifest.status
      /\ UpsertTailnet(manifest, status, dns).resources
            = [manifest.resources EXCEPT !["tailnet"] = status]
  BY <1>1, <1>2, UpsertTailnetType
<1>4. /\ out \in Outcomes
      /\ out.resources = [outcome.resources EXCEPT !["tailnet"] = status]
  <2> DEFINE o == Remembered(outcome, "tailnet", status)
  <2>1. /\ o \in Outcomes
        /\ o.resources = [outcome.resources EXCEPT !["tailnet"] = status]
    BY <1>2, StackIDs, RememberedType
  <2>2. out \in {o, [o EXCEPT !.dns = tailnetDNS]}
    BY <1>1
  <2> HIDE DEF o
  <2>3. CASE out = o
    BY <2>1, <2>3
  <2>4. CASE out = [o EXCEPT !.dns = tailnetDNS]
    BY <1>2, <2>1, <2>4, FailuresType
  <2> QED BY <2>2, <2>3, <2>4
<1>5. /\ outcome' \in Outcomes
      /\ outcome'.resources = [outcome.resources EXCEPT !["tailnet"] = status]
  BY <1>1, <1>4, FailuresType
<1> QED BY <1>1, <1>2, <1>3, <1>5 DEF Recorded
-----------------------------------------------------------------------------
\* Type correctness.

\* No step of any command leaves the types.
LEMMA TypeStep ==
    ASSUME TypeOK, [Next]_vars
    PROVE  TypeOK'
<1> USE DEF TypeOK, Labels, PairLabels, ModeLabels, files, external
<1> USE StackIDs
<1>1. CASE RecordTailnetIntent
  BY <1>1, TailnetRecords DEF Recorded, RecordTailnetIntent, Current
<1>2. CASE RecordTailnetCreated
  BY <1>2, TailnetRecords DEF Recorded, RecordTailnetCreated, Current
<1>3. CASE RecordTailnetCleaning
  BY <1>3, TailnetRecords DEF Recorded, RecordTailnetCleaning, Current
<1>4. CASE RecordTailnetCleaned
  BY <1>4, TailnetRecords DEF Recorded, RecordTailnetCleaned, Current
<1>5. CASE RecordNetworkingIntent
  BY <1>5, StackRecords DEF Recorded, RecordNetworkingIntent, Current
<1>6. CASE RecordNetworkingCreated
  BY <1>6, StackRecords DEF Recorded, RecordNetworkingCreated, Current
<1>7. CASE RecordNetworkingCleaning
  BY <1>7, StackRecords DEF Recorded, RecordNetworkingCleaning, Current
<1>8. CASE RecordNetworkingCleaned
  BY <1>8, StackRecords DEF Recorded, RecordNetworkingCleaned, Current
<1>9. CASE RecordTopologyIntent
  BY <1>9, StackRecords DEF Recorded, RecordTopologyIntent, Current
<1>10. CASE RecordPairCreated
  BY <1>10, StackRecords DEF Recorded, RecordPairCreated, Current
<1>11. CASE RecordPairCleaning
  BY <1>11, StackRecords DEF Recorded, RecordPairCleaning, Current
<1>12. CASE RecordPairCleaned
  BY <1>12, StackRecords DEF Recorded, RecordPairCleaned, Current
<1>13. CASE CreateTailnet
  BY <1>13, FailsType DEF CreateTailnet, Fresh, TailnetState, Current
<1>14. CASE DeleteOwnTailnet
  <2>1. outcome' \in Outcomes
    BY <1>14, FailsType DEF DeleteOwnTailnet
  <2>2. tailnets' \in [Tailnets -> TailnetState]
    BY <1>14 DEF DeleteOwnTailnet, DeleteTailnet, TailnetState
  <2>3. pc' \in {"record-tailnet-gone", "finish"}
    BY <1>14 DEF DeleteOwnTailnet
  <2> QED BY <1>14, <2>1, <2>2, <2>3 DEF DeleteOwnTailnet
<1>15. CASE UseExistingTailnet
  BY <1>15, JoinedAssumption DEF UseExistingTailnet, Current
<1>16. CASE PrepareFails \/ JoinTailnet
  BY <1>16, FailsType DEF PrepareFails, JoinTailnet, Current
<1>17. CASE LookUpNetworking
  BY <1>17, FailsType DEF LookUpNetworking, Current
<1>18. CASE RefreshAuthKey
  BY <1>18, FailsType DEF RefreshAuthKey, Current
<1>19. CASE InstanceInterrupted
  BY <1>19, FailsType DEF InstanceInterrupted, Current
<1>20. CASE Aggregate
  BY <1>20, FailsType DEF Aggregate, Current
<1>21. CASE CloseTsnet
  BY <1>21, FailsType DEF CloseTsnet, Current
<1>22. CASE KeepPair
  BY <1>22, FailsType DEF KeepPair, Current
<1>23. CASE KeepNetworking
  BY <1>23, FailsType DEF KeepNetworking, Current
<1>24. CASE KeepTailnet
  BY <1>24, FailsType DEF KeepTailnet, Current
<1>25. CASE EndModes
  BY <1>25, FailsType DEF EndModes, Current
<1>26. CASE SetupNetworking
  BY <1>26, FailsType DEF SetupNetworking, CreateSucceeds, CreateFails,
     DestroySucceeds, DestroyFails, Current
<1>27. CASE AbandonPair
  BY <1>27, FailsType DEF AbandonPair, CreateSucceeds, CreateFails,
     DestroySucceeds, DestroyFails, Current
<1>28. CASE DestroyPair
  BY <1>28, FailsType DEF DestroyPair, CreateSucceeds, CreateFails,
     DestroySucceeds, DestroyFails, Current
<1>29. CASE TeardownNetworking
  <2>1. outcome' \in Outcomes
    BY <1>29, FailsType DEF TeardownNetworking
  <2>2. pc' \in {"record-torn-down", "provider-return"}
    BY <1>29 DEF TeardownNetworking
  <2> QED BY <1>29, <2>1, <2>2 DEF TeardownNetworking, DestroyFails
<1>30. CASE CreatePair
  <2>1. loop' \in Loops
    BY <1>30, GroupAssumption DEF CreatePair, Loops
  <2>2. loop'.inst = loop.inst
    BY <1>30 DEF CreatePair, Loops
  <2> QED BY <1>30, <2>1, <2>2, FailsType
          DEF CreatePair, CreateSucceeds, CreateFails
<1>31. CASE ListInstances
  <2>1. loop' \in Loops
    <3>1. \A listed \in SUBSET InstanceTypes :
            [loop EXCEPT !.queue = listed] \in Loops
      BY DEF Loops
    <3>2. loop.types \in SUBSET InstanceTypes
      BY DEF Loops
    <3>3. \/ loop' = loop
          \/ \E listed \in SUBSET loop.types :
                loop' = [loop EXCEPT !.queue = listed]
      BY <1>31 DEF ListInstances
    <3> QED BY <3>1, <3>2, <3>3
  <2>2. outcome' \in Outcomes
    <3>1. \A b, c, i \in BOOLEAN :
            [outcome EXCEPT !.benchmark = b, !.cleanup = c, !.interrupted = i]
                \in Outcomes
      BY DEF Outcomes
    <3>2. /\ outcome.benchmark \in BOOLEAN /\ outcome.cleanup \in BOOLEAN
          /\ outcome.interrupted \in BOOLEAN
      BY DEF Outcomes
    <3> QED BY <1>31, <3>1, <3>2, FailsType DEF ListInstances
  <2> QED BY <1>31, <2>1, <2>2 DEF ListInstances
<1>32. CASE StartBenchmark
  <2>1. outcome' \in Outcomes
    BY <1>32, FailsType DEF StartBenchmark
  <2>2. loop' \in Loops /\ loop'.inst = loop.inst
    BY <1>32 DEF StartBenchmark, Loops
  <2>3. pc' \in {"modes", "pair-done"}
    BY <1>32 DEF StartBenchmark
  <2> QED BY <1>32, <2>1, <2>2, <2>3 DEF StartBenchmark
<1>33. CASE RunMode
  BY <1>33, FailsType, PlannedAssumption DEF RunMode, Work, Current
<1>34. CASE WriteResult
  BY <1>34, FailsType DEF WriteResult, Current
<1>35. CASE FinishMode
  BY <1>35, FailsType, SetWorkType DEF FinishMode, Saved, SaveFails,
     WorkStatus, Current
<1>36. CASE \E t \in InstanceTypes : SkipInstance(t)
  <2> PICK t \in InstanceTypes : SkipInstance(t)
    BY <1>36
  <2>1. loop' \in Loops
    BY DEF SkipInstance, Loops
  <2>2. outcome' \in Outcomes
    BY FailsType DEF SkipInstance
  <2> QED BY <2>1, <2>2 DEF SkipInstance
<1>37. CASE \E t \in InstanceTypes : PreCleanup(t)
  <2> PICK t \in InstanceTypes : PreCleanup(t)
    BY <1>37
  <2>1. loop' \in Loops /\ loop'.inst \in InstanceTypes
    BY DEF PreCleanup, Loops
  <2>2. live' \subseteq Stacks
    BY DEF PreCleanup, DestroySucceeds, DestroyFails
  <2>3. outcome' \in Outcomes
    BY FailsType DEF PreCleanup
  <2> QED BY <2>1, <2>2, <2>3 DEF PreCleanup
<1>38. CASE \E m \in Modes : SkipMode(m)
  BY <1>38 DEF SkipMode, Loops, Current
<1>39. CASE \E m \in Modes : StartMode(m)
  <2> PICK m \in Modes : StartMode(m)
    BY <1>39
  <2> DEFINE w == <<loop.inst, m>>
  <2>1. loop' \in Loops /\ loop'.inst = loop.inst /\ loop'.mode = m
    BY DEF StartMode, Loops
  <2>2. manifest' \in Manifest
    <3>1. w \in Work => SetWork(manifest, w, "running") \in Manifest
      BY SetWorkType DEF WorkStatus
    <3> QED BY <3>1 DEF StartMode, Saved, SaveFails
  <2>3. outcome' \in Outcomes /\ pc' \in {"run-mode", "modes"}
    BY FailsType DEF StartMode
  <2>4. pc' = "run-mode" => Current' \in Work
    BY <2>1 DEF StartMode, Current
  <2> QED BY <2>1, <2>2, <2>3, <2>4 DEF StartMode
<1>40. CASE ExecuteFailsEarly
  <2>1. \A c \in {"pending", "skipped"} :
            [benchmark |-> "failed", cleanup |-> c, interrupted |-> FALSE,
             resources |-> NoOutcome.resources, dns |-> NoTailnet] \in Results
    BY EmptyMemory DEF Results, OutcomeStatus, Outcomes
  <2>2. \A r \in Results : ApplyExecutionResult(manifest, r) \in Manifest
    BY ApplyExecutionResultType DEF Existing
  <2>3. manifest' \in Manifest
    BY <1>40, <2>1, <2>2 DEF ExecuteFailsEarly
  <2> QED BY <1>40, <2>3, EmptyMemory DEF ExecuteFailsEarly, ProcessEnds
<1>41. CASE FinishExecution
  BY <1>41, ApplyExecutionResultType, EmptyMemory, ResultOfType
     DEF FinishExecution, ProcessEnds, Existing, Current
<1>42. CASE StartRun
  BY <1>42, CreatedManifestType DEF StartRun, Starts, Existing, NoLoop,
     Loops, Current
<1>43. CASE StartResume
  <2>1. \A w \in SelectedWork(manifest) :
            w[1] \in InstanceTypes /\ w[2] \in Modes
    BY PlannedAssumption DEF SelectedWork, Work
  <2>2. loop' \in Loops
    <3>1. \A ts \in SUBSET InstanceTypes, ms \in SUBSET Modes :
            [NoLoop EXCEPT !.types = ts, !.modes = ms] \in Loops
      BY DEF NoLoop, Loops
    <3>2. /\ {w[1] : w \in SelectedWork(manifest)} \in SUBSET InstanceTypes
          /\ {w[2] : w \in SelectedWork(manifest)} \in SUBSET Modes
      BY <2>1
    <3> QED BY <1>43, <3>1, <3>2 DEF StartResume, Starts
  <2>3. manifest' \in Manifest
    BY <1>43, BeginResumeType DEF StartResume, Existing
  <2> QED BY <1>43, <2>2, <2>3 DEF StartResume, Starts
<1>44. CASE StartCleanup
  <2>1. manifest' \in Manifest
    BY <1>44, BeginCleanupType DEF StartCleanup, Existing
  <2>2. [NoLoop EXCEPT !.queue = Planned] \in Loops
    BY PlannedAssumption DEF NoLoop, Loops
  <2>3. loop' \in Loops /\ outcome' \in Outcomes
    BY <1>44, <2>2, FailsType, EmptyMemory DEF StartCleanup
  <2> QED BY <1>44, <2>1, <2>3 DEF StartCleanup
<1>45. CASE \E t \in InstanceTypes : CleanupPair(t)
  <2> PICK t \in InstanceTypes : CleanupPair(t)
    BY <1>45
  <2>1. loop' \in Loops
    BY DEF CleanupPair, Loops
  <2>2. live' \subseteq Stacks
    BY DEF CleanupPair, DestroySucceeds, DestroyFails
  <2>3. outcome' \in Outcomes
    BY FailsType DEF CleanupPair
  <2> QED BY <2>1, <2>2, <2>3 DEF CleanupPair
<1>46. CASE CleanupNetwork
  BY <1>46, FailsType DEF CleanupNetwork, DestroySucceeds, DestroyFails,
     Current
<1>47. CASE CleanupTailnet
  BY <1>47, FailsType DEF CleanupTailnet, DeleteTailnet, TailnetState,
     Current
<1>48. CASE EndCleanup
  BY <1>48, FinishCleanupType, EmptyMemory DEF EndCleanup, ProcessEnds,
     Existing, Outcomes, Current
<1>49. CASE Cancel
  BY <1>49 DEF Cancel, Current
<1>50. CASE Crash
  BY <1>50, EmptyMemory DEF Crash, ProcessEnds, Current
<1>51. CASE UNCHANGED vars
  BY <1>51 DEF vars, Current
<1> QED
  BY <1>1, <1>2, <1>3, <1>4, <1>5, <1>6, <1>7, <1>8, <1>9, <1>10, <1>11,
     <1>12, <1>13, <1>14, <1>15, <1>16, <1>17, <1>18, <1>19, <1>20, <1>21,
     <1>22, <1>23, <1>24, <1>25, <1>26, <1>27, <1>28, <1>29, <1>30, <1>31,
     <1>32, <1>33, <1>34, <1>35, <1>36, <1>37, <1>38, <1>39, <1>40, <1>41,
     <1>42, <1>43, <1>44, <1>45, <1>46, <1>47, <1>48, <1>49, <1>50, <1>51
     DEF Next, ProcessStep, Execute

\* The initial states have the types.
LEMMA TypeInit == Init => TypeOK
BY CreatedManifestType, EmptyMemory, ConfigAssumption, PlannedAssumption
   DEF Init, TypeOK, Labels, PairLabels, ModeLabels, Work, TailnetState

\* Spec keeps its types for every value of the constants.
THEOREM TypeCorrect == Spec => []TypeOK
<1>1. TypeOK /\ [Next]_vars => TypeOK'
  BY TypeStep
<1> QED BY <1>1, TypeInit, PTL DEF Spec
-----------------------------------------------------------------------------
\* Every stack is tracked.

\* The labels a part of the invariant is about.
Anchors ==
    {"idle", "create-pair", "setup-networking", "record-destroyed",
     "record-torn-down", "cleanup-pairs", "cleanup-tailnet", "cleanup-done"}

\* The parts that speak of the next call, not of the record.
CallParts == IntentIsRecorded /\ GoneBeforeCleaned /\ CleanupSweeps

\* Away from those labels the parts ask for nothing.
LEMMA OffAnchors ==
    ASSUME pc' \notin Anchors
    PROVE  CallParts'
BY DEF Anchors, CallParts, IntentIsRecorded, GoneBeforeCleaned, CleanupSweeps

\* A step that only loses stacks and leaves both inventories alone.
LEMMA QuietStep ==
    ASSUME TrackingInvariant, TypeOK', CallParts',
           manifest'.resources = manifest.resources,
           manifest'.status # "absent",
           outcome'.resources = outcome.resources,
           live' \subseteq live, UNCHANGED cfg
    PROVE  TrackingInvariant'
BY DEF TrackingInvariant, CallParts, StacksTracked, NothingBeforeRun,
       MemoryTracksStacks, UnmanagedHasNoStack

\* A step that records one resource, and as cleaned only when it is gone.
LEMMA RecordStep ==
    ASSUME TrackingInvariant, TypeOK', CallParts',
           NEW r \in ResourceIDs, NEW status \in ResourceStatus \ {"none"},
           Recorded(r, status), pc # "idle",
           status = "cleaned" => r \notin live,
           UNCHANGED <<cfg, live>>
    PROVE  TrackingInvariant'
<1>1. /\ manifest.resources \in Inventory /\ outcome.resources \in Inventory
      /\ live \subseteq ResourceIDs
  BY StackIDs DEF TrackingInvariant, TypeOK, Manifest, Outcomes
<1>2. /\ \A s \in live : Unclean(manifest.resources[s])
      /\ \A s \in live : outcome.resources[s] # "cleaned"
  BY DEF TrackingInvariant, StacksTracked, MemoryTracksStacks
<1>3. \A s \in live : s = r => Unclean(status)
  BY DEF Unclean
<1>4. \A s \in live : Unclean(manifest'.resources[s])
  BY <1>1, <1>2, <1>3 DEF Recorded, Inventory
<1>5. \A s \in live : outcome'.resources[s] # "cleaned"
  BY <1>1, <1>2 DEF Recorded, Inventory
<1>6. StacksTracked' /\ MemoryTracksStacks'
  BY <1>4, <1>5 DEF StacksTracked, MemoryTracksStacks
<1>7. NothingBeforeRun' /\ UnmanagedHasNoStack'
  BY DEF TrackingInvariant, NothingBeforeRun, UnmanagedHasNoStack, Recorded
<1> QED BY <1>6, <1>7 DEF TrackingInvariant, CallParts

\* After a durable intent the record is unclean, on disk and in memory.
LEMMA IntentStep ==
    ASSUME TypeOK, NEW r \in ResourceIDs, Recorded(r, "creating"),
           pc' \in {"create-pair", "setup-networking"}
    PROVE  Unclean(manifest'.resources[r]) /\ outcome'.resources[r] # "cleaned"
BY DEF TypeOK, Manifest, Outcomes, Inventory, Recorded, Unclean

\* The orchestrator steps between records: they lose stacks at most.
LEMMA QuietSteps ==
    ASSUME TrackingInvariant, TypeOK',
           \/ UseExistingTailnet \/ KeepPair \/ KeepNetworking
           \/ KeepTailnet \/ EndModes \/ CreateTailnet
           \/ DeleteOwnTailnet \/ PrepareFails \/ JoinTailnet \/ LookUpNetworking
           \/ RefreshAuthKey \/ InstanceInterrupted \/ Aggregate
           \/ CloseTsnet \/ StartBenchmark \/ RunMode \/ WriteResult
           \/ AbandonPair \/ ListInstances \/ FinishMode
           \/ \E t \in InstanceTypes : SkipInstance(t) \/ PreCleanup(t)
           \/ \E m \in Modes : SkipMode(m) \/ StartMode(m)
    PROVE  TrackingInvariant'
<1> DEFINE Quiet == /\ manifest'.resources = manifest.resources
                    /\ manifest'.status = manifest.status
                    /\ outcome'.resources = outcome.resources
                    /\ live' \subseteq live
                    /\ UNCHANGED cfg
                    /\ pc # "idle" /\ pc' \notin Anchors
<1>0. TypeOK /\ outcome \in Outcomes /\ manifest \in Manifest
  BY DEF TrackingInvariant, TypeOK
<1>1. ASSUME UseExistingTailnet PROVE Quiet
  BY <1>0, <1>1 DEF UseExistingTailnet, Anchors, files, external
<1>2. ASSUME KeepPair PROVE Quiet
  BY <1>0, <1>2 DEF KeepPair, Anchors, files, external
<1>3. ASSUME KeepNetworking PROVE Quiet
  BY <1>0, <1>3 DEF KeepNetworking, Anchors, files, external
<1>4. ASSUME KeepTailnet PROVE Quiet
  BY <1>0, <1>4 DEF KeepTailnet, Anchors, files, external
<1>5. ASSUME EndModes PROVE Quiet
  BY <1>0, <1>5 DEF EndModes, Anchors, files, external
<1>6. ASSUME CreateTailnet PROVE Quiet
  BY <1>0, <1>6, FailsType DEF CreateTailnet, Anchors, files, external
<1>7. ASSUME DeleteOwnTailnet PROVE Quiet
  BY <1>0, <1>7, FailsType DEF DeleteOwnTailnet, Anchors, files, external
<1>8. ASSUME PrepareFails \/ JoinTailnet PROVE Quiet
  BY <1>0, <1>8, FailsType DEF PrepareFails, JoinTailnet, Anchors, files, external
<1>9. ASSUME LookUpNetworking PROVE Quiet
  BY <1>0, <1>9, FailsType DEF LookUpNetworking, Anchors, files, external
<1>10. ASSUME RefreshAuthKey PROVE Quiet
  BY <1>0, <1>10, FailsType DEF RefreshAuthKey, Anchors, files, external
<1>11. ASSUME InstanceInterrupted PROVE Quiet
  BY <1>0, <1>11, FailsType DEF InstanceInterrupted, Anchors, files,
     external
<1>12. ASSUME Aggregate PROVE Quiet
  BY <1>0, <1>12, FailsType DEF Aggregate, Anchors, files, external
<1>13. ASSUME CloseTsnet PROVE Quiet
  BY <1>0, <1>13, FailsType DEF CloseTsnet, Anchors, files, external
<1>14. ASSUME StartBenchmark PROVE Quiet
  BY <1>0, <1>14, FailsType DEF StartBenchmark, Anchors, files, external
<1>15. ASSUME RunMode PROVE Quiet
  BY <1>0, <1>15, FailsType DEF RunMode, Anchors, files, external
<1>16. ASSUME WriteResult PROVE Quiet
  BY <1>0, <1>16, FailsType DEF WriteResult, Anchors, files, external
<1>17. ASSUME AbandonPair PROVE Quiet
  BY <1>0, <1>17, FailsType DEF AbandonPair, Anchors, files, external,
     DestroySucceeds, DestroyFails
<1>18. ASSUME \E t \in InstanceTypes : SkipInstance(t) PROVE Quiet
  BY <1>0, <1>18, FailsType DEF SkipInstance, Anchors, files, external
<1>19. ASSUME \E t \in InstanceTypes : PreCleanup(t) PROVE Quiet
  BY <1>0, <1>19, FailsType DEF PreCleanup, Anchors, files, external,
     DestroySucceeds, DestroyFails
<1>20. ASSUME \E m \in Modes : SkipMode(m) PROVE Quiet
  BY <1>0, <1>20 DEF SkipMode, Anchors, files, external
<1>21. ASSUME ListInstances PROVE Quiet
  <2>1. \A b, c, i \in BOOLEAN :
            [outcome EXCEPT !.benchmark = b, !.cleanup = c, !.interrupted = i]
                .resources = outcome.resources
    BY <1>0 DEF Outcomes
  <2>2. /\ outcome.benchmark \in BOOLEAN /\ outcome.cleanup \in BOOLEAN
        /\ outcome.interrupted \in BOOLEAN
    BY <1>0 DEF Outcomes
  <2>3. outcome'.resources = outcome.resources
    BY <1>0, <1>21, <2>1, <2>2, FailsType DEF ListInstances
  <2> QED BY <1>21, <2>3 DEF ListInstances, Anchors, files, external
<1>22. ASSUME FinishMode PROVE Quiet
  <2>1. \A status \in WorkStatus :
            /\ SetWork(manifest, Current, status).status = manifest.status
            /\ SetWork(manifest, Current, status).resources
                = manifest.resources
    BY <1>0, <1>22, SetWorkType DEF FinishMode, TypeOK, ModeLabels
  <2> QED BY <1>0, <1>22, <2>1, FailsType
          DEF FinishMode, Saved, SaveFails, WorkStatus, Anchors, files, external
<1>23. ASSUME NEW m \in Modes, StartMode(m) PROVE Quiet
  <2>1. <<loop.inst, m>> \in Work =>
            /\ SetWork(manifest, <<loop.inst, m>>, "running").status
                = manifest.status
            /\ SetWork(manifest, <<loop.inst, m>>, "running").resources
                = manifest.resources
    BY <1>0, SetWorkType DEF WorkStatus
  <2> QED BY <1>0, <1>23, <2>1, FailsType
          DEF StartMode, Saved, SaveFails, Anchors, files, external
<1>24. Quiet
  BY <1>1, <1>2, <1>3, <1>4, <1>5, <1>6, <1>7, <1>8, <1>9, <1>10, <1>11,
     <1>12, <1>13, <1>14, <1>15, <1>16, <1>17, <1>18, <1>19, <1>20, <1>21,
     <1>22, <1>23
<1>25. manifest.status # "absent" /\ CallParts'
  BY <1>24, OffAnchors DEF TrackingInvariant, NothingBeforeRun
<1> QED BY <1>24, <1>25, QuietStep

\* The record steps: intent before creation, "cleaned" after destruction.
LEMMA RecordSteps ==
    ASSUME TrackingInvariant, TypeOK',
           \/ RecordTailnetIntent \/ RecordTailnetCreated
           \/ RecordTailnetCleaning \/ RecordTailnetCleaned
           \/ RecordNetworkingIntent \/ RecordNetworkingCreated
           \/ RecordNetworkingCleaning \/ RecordNetworkingCleaned
           \/ RecordTopologyIntent \/ RecordPairCreated
           \/ RecordPairCleaning \/ RecordPairCleaned
    PROVE  TrackingInvariant'
<1>0. TypeOK
  BY DEF TrackingInvariant
<1>1. CASE RecordTailnetIntent \/ RecordTailnetCreated
           \/ RecordTailnetCleaning \/ RecordTailnetCleaned
  <2>1. PICK status \in ResourceStatus : Recorded("tailnet", status)
    BY <1>0, <1>1, TailnetRecords
  <2>2. /\ pc # "idle" /\ pc' \notin Anchors
        /\ UNCHANGED <<cfg, live, manifest.status>>
    BY <1>1, <2>1 DEF RecordTailnetIntent, RecordTailnetCreated,
       RecordTailnetCleaning, RecordTailnetCleaned, Anchors, external, Recorded
  <2>3. \A s \in live : s # "tailnet"
    BY <1>0, StackIDs DEF TypeOK
  <2>4. \A s \in live : /\ manifest'.resources[s] = manifest.resources[s]
                        /\ outcome'.resources[s] = outcome.resources[s]
    BY <1>0, <2>1, <2>3, StackIDs
       DEF TypeOK, Manifest, Outcomes, Inventory, Recorded
  <2>5. StacksTracked' /\ MemoryTracksStacks'
    BY <2>2, <2>4 DEF TrackingInvariant, StacksTracked, MemoryTracksStacks
  <2> QED BY <2>2, <2>5, OffAnchors
          DEF TrackingInvariant, CallParts, NothingBeforeRun,
              UnmanagedHasNoStack
<1>2. CASE RecordNetworkingIntent
  <2>1. Recorded("networking", "creating") /\ UNCHANGED <<cfg, live>>
        /\ pc = "networking" /\ cfg.managed
        /\ pc' \in {"setup-networking", "provider-return"}
    BY <1>0, <1>2, StackRecords DEF RecordNetworkingIntent, external
  <2>2. pc' = "setup-networking" =>
            /\ Unclean(manifest'.resources["networking"])
            /\ outcome'.resources["networking"] # "cleaned"
    BY <1>0, <2>1, StackIDs, IntentStep
  <2>3. CallParts'
    BY <2>1, <2>2 DEF CallParts, IntentIsRecorded, GoneBeforeCleaned,
                      CleanupSweeps
  <2> QED BY <2>1, <2>3, StackIDs, RecordStep DEF ResourceStatus
<1>3. CASE RecordTopologyIntent
  <2>1. Recorded(loop.inst, "creating") /\ UNCHANGED <<cfg, live, loop>>
        /\ pc = "record-topology" /\ pc' \in {"create-pair", "instances"}
    BY <1>0, <1>3, StackRecords DEF RecordTopologyIntent, external
  <2>2. loop.inst \in ResourceIDs
    BY <1>0, <2>1, StackIDs DEF TypeOK, PairLabels
  <2>3. pc' = "create-pair" => /\ Unclean(manifest'.resources[loop.inst])
                               /\ outcome'.resources[loop.inst] # "cleaned"
    BY <1>0, <2>1, <2>2, IntentStep
  <2>4. CallParts'
    BY <2>1, <2>3 DEF CallParts, IntentIsRecorded, GoneBeforeCleaned,
                      CleanupSweeps
  <2> QED BY <2>1, <2>2, <2>4, RecordStep DEF ResourceStatus
<1>4. CASE RecordNetworkingCreated
  <2>1. Recorded("networking", "created") /\ UNCHANGED <<cfg, live>>
        /\ "networking" \in ResourceIDs
        /\ pc # "idle" /\ pc' \notin Anchors
    BY <1>0, <1>4, StackRecords, StackIDs
       DEF RecordNetworkingCreated, external, Anchors, TypeOK, PairLabels
  <2> QED BY <2>1, OffAnchors, RecordStep DEF ResourceStatus
<1>5. CASE RecordNetworkingCleaning
  <2>1. Recorded("networking", "cleaning") /\ UNCHANGED <<cfg, live>>
        /\ "networking" \in ResourceIDs
        /\ pc # "idle" /\ pc' \notin Anchors
    BY <1>0, <1>5, StackRecords, StackIDs
       DEF RecordNetworkingCleaning, external, Anchors, TypeOK, PairLabels
  <2> QED BY <2>1, OffAnchors, RecordStep DEF ResourceStatus
<1>6. CASE RecordNetworkingCleaned
  <2>1. Recorded("networking", "cleaned") /\ UNCHANGED <<cfg, live>>
        /\ "networking" \in ResourceIDs /\ "networking" \notin live
        /\ pc # "idle" /\ pc' \notin Anchors
    BY <1>0, <1>6, StackRecords, StackIDs
       DEF RecordNetworkingCleaned, external, Anchors, TypeOK, PairLabels,
           TrackingInvariant, GoneBeforeCleaned
  <2> QED BY <2>1, OffAnchors, RecordStep DEF ResourceStatus
<1>7. CASE RecordPairCreated
  <2>1. Recorded(loop.inst, "created") /\ UNCHANGED <<cfg, live>>
        /\ loop.inst \in ResourceIDs
        /\ pc # "idle" /\ pc' \notin Anchors
    BY <1>0, <1>7, StackRecords, StackIDs
       DEF RecordPairCreated, external, Anchors, TypeOK, PairLabels
  <2> QED BY <2>1, OffAnchors, RecordStep DEF ResourceStatus
<1>8. CASE RecordPairCleaning
  <2>1. Recorded(loop.inst, "cleaning") /\ UNCHANGED <<cfg, live>>
        /\ loop.inst \in ResourceIDs
        /\ pc # "idle" /\ pc' \notin Anchors
    BY <1>0, <1>8, StackRecords, StackIDs
       DEF RecordPairCleaning, external, Anchors, TypeOK, PairLabels
  <2> QED BY <2>1, OffAnchors, RecordStep DEF ResourceStatus
<1>9. CASE RecordPairCleaned
  <2>1. Recorded(loop.inst, "cleaned") /\ UNCHANGED <<cfg, live>>
        /\ loop.inst \in ResourceIDs /\ loop.inst \notin live
        /\ pc # "idle" /\ pc' \notin Anchors
    BY <1>0, <1>9, StackRecords, StackIDs
       DEF RecordPairCleaned, external, Anchors, TypeOK, PairLabels,
           TrackingInvariant, GoneBeforeCleaned
  <2> QED BY <2>1, OffAnchors, RecordStep DEF ResourceStatus
<1> QED BY <1>1, <1>2, <1>3, <1>4, <1>5, <1>6, <1>7, <1>8, <1>9

\* The provider calls: one stack appears, and only where its intent is on
\* record, or one stack goes.
LEMMA CallSteps ==
    ASSUME TrackingInvariant, TypeOK',
           SetupNetworking \/ CreatePair \/ DestroyPair \/ TeardownNetworking
    PROVE  TrackingInvariant'
<1>0. TypeOK /\ outcome \in Outcomes
  BY DEF TrackingInvariant, TypeOK
<1>1. /\ UNCHANGED <<manifest, cfg>> /\ outcome'.resources = outcome.resources
      /\ pc # "idle" /\ manifest.status # "absent"
  BY <1>0, FailsType DEF SetupNetworking, CreatePair, DestroyPair,
     TeardownNetworking, TrackingInvariant, NothingBeforeRun
<1>2. CASE SetupNetworking
  <2>1. live' \subseteq live \cup {"networking"} /\ pc' \notin Anchors
    BY <1>2 DEF SetupNetworking, CreateSucceeds, CreateFails, Anchors
  <2>2. /\ cfg.managed /\ Unclean(manifest.resources["networking"])
        /\ outcome.resources["networking"] # "cleaned"
    BY <1>2 DEF SetupNetworking, TrackingInvariant, IntentIsRecorded
  <2> QED BY <1>1, <2>1, <2>2, OffAnchors
          DEF TrackingInvariant, CallParts, StacksTracked, NothingBeforeRun,
              MemoryTracksStacks, UnmanagedHasNoStack
<1>3. CASE CreatePair
  <2>1. live' \subseteq live \cup {loop.inst} /\ pc' \notin Anchors
    BY <1>3 DEF CreatePair, CreateSucceeds, CreateFails, Anchors
  <2>2. /\ Unclean(manifest.resources[loop.inst])
        /\ outcome.resources[loop.inst] # "cleaned"
    BY <1>3 DEF CreatePair, TrackingInvariant, IntentIsRecorded
  <2>3. loop.inst # "networking"
    BY <1>0, <1>3, StackIDs DEF CreatePair, TypeOK, PairLabels
  <2> QED BY <1>1, <2>1, <2>2, <2>3, OffAnchors
          DEF TrackingInvariant, CallParts, StacksTracked, NothingBeforeRun,
              MemoryTracksStacks, UnmanagedHasNoStack
<1>4. CASE DestroyPair
  <2>1. live' \subseteq live /\ loop' = loop
        /\ \/ pc' = "record-destroyed" /\ loop.inst \notin live'
           \/ pc' = "refresh-key"
    BY <1>4 DEF DestroyPair, DestroySucceeds, DestroyFails
  <2>2. CallParts'
    BY <2>1 DEF CallParts, IntentIsRecorded, GoneBeforeCleaned, CleanupSweeps
  <2> QED BY <1>1, <2>1, <2>2, QuietStep
<1>5. CASE TeardownNetworking
  <2>1. live' \subseteq live
        /\ \/ pc' = "record-torn-down" /\ "networking" \notin live'
           \/ pc' = "provider-return"
    BY <1>5 DEF TeardownNetworking, DestroyFails
  <2>2. CallParts'
    BY <2>1 DEF CallParts, IntentIsRecorded, GoneBeforeCleaned, CleanupSweeps
  <2> QED BY <1>1, <2>1, <2>2, QuietStep
<1> QED BY <1>2, <1>3, <1>4, <1>5

\* The ends of run, resume and cleanup, and a crash: memory is empty, and the
\* manifest they leave still names every stack.
LEMMA EndSteps ==
    ASSUME TrackingInvariant, TypeOK',
           ExecuteFailsEarly \/ FinishExecution \/ EndCleanup \/ Crash
    PROVE  TrackingInvariant'
<1>0. /\ TypeOK /\ manifest \in Manifest /\ outcome \in Outcomes
      /\ live \subseteq ResourceIDs /\ live \subseteq Stacks
      /\ StacksTracked /\ MemoryTracksStacks
  BY StackIDs DEF TrackingInvariant, TypeOK
<1>1. /\ UNCHANGED <<cfg, live>> /\ pc' = "idle" /\ outcome' = NoOutcome
      /\ pc # "idle" \/ UNCHANGED manifest
  BY DEF ExecuteFailsEarly, FinishExecution, EndCleanup, Crash, ProcessEnds,
         external
<1>2. MemoryTracksStacks' /\ CallParts' /\ UnmanagedHasNoStack'
  BY <1>0, <1>1, EmptyMemory DEF MemoryTracksStacks, CallParts,
     IntentIsRecorded, GoneBeforeCleaned, CleanupSweeps, UnmanagedHasNoStack,
     TrackingInvariant
<1>3. ASSUME NEW result \in Results,
             \A s \in live : result.resources[s] # "cleaned",
             manifest' = ApplyExecutionResult(manifest, result)
      PROVE  StacksTracked' /\ manifest'.status # "absent"
  <2>1. /\ manifest'.status # "absent"
        /\ manifest'.resources = [r \in ResourceIDs |->
                IF result.resources[r] = "none" THEN manifest.resources[r]
                ELSE result.resources[r]]
    BY <1>0, <1>3, ApplyExecutionResultType DEF Existing
  <2> QED BY <1>0, <1>1, <1>3, <2>1 DEF StacksTracked, Unclean
<1>4. CASE ExecuteFailsEarly
  <2>1. PICK c \in {"pending", "skipped"} :
            manifest' = ApplyExecutionResult(manifest,
                [benchmark |-> "failed", cleanup |-> c, interrupted |-> FALSE,
                 resources |-> NoOutcome.resources, dns |-> NoTailnet])
    BY <1>4 DEF ExecuteFailsEarly
  <2> DEFINE result ==
                [benchmark |-> "failed", cleanup |-> c, interrupted |-> FALSE,
                 resources |-> NoOutcome.resources, dns |-> NoTailnet]
  <2>2. result \in Results
        /\ \A s \in live : result.resources[s] # "cleaned"
    BY <1>0, EmptyMemory DEF Results, OutcomeStatus, Outcomes
  <2>3. manifest' = ApplyExecutionResult(manifest, result)
    BY <2>1
  <2> HIDE DEF result
  <2>4. StacksTracked' /\ manifest'.status # "absent"
    BY <1>3, <2>2, <2>3
  <2> QED BY <1>2, <2>4 DEF TrackingInvariant, CallParts, NothingBeforeRun
<1>5. CASE FinishExecution
  <2>1. ResultOf(outcome) \in Results
        /\ \A s \in live : ResultOf(outcome).resources[s] # "cleaned"
    BY <1>0, ResultOfType DEF MemoryTracksStacks
  <2>2. StacksTracked' /\ manifest'.status # "absent"
    BY <1>3, <1>5, <2>1 DEF FinishExecution
  <2> QED BY <1>2, <2>2 DEF TrackingInvariant, CallParts, NothingBeforeRun
<1>6. CASE EndCleanup
  <2> DEFINE ok == ~outcome.cleanup
             m == FinishCleanup(manifest, ok)
  <2>1. ok \in BOOLEAN /\ manifest' = m
    BY <1>0, <1>6 DEF EndCleanup, Outcomes
  <2>2. ok => live = {}
    BY <1>6 DEF EndCleanup, TrackingInvariant, CleanupSweeps
  <2> HIDE DEF ok
  <2>3. /\ m.status # "absent"
        /\ ~ok => \A r \in ResourceIDs :
                    Unclean(m.resources[r]) <=> Unclean(manifest.resources[r])
    BY <1>0, <2>1, FinishCleanupType DEF Existing
  <2>4. StacksTracked' /\ manifest'.status # "absent"
    BY <1>0, <1>1, <2>1, <2>2, <2>3 DEF StacksTracked
  <2> QED BY <1>2, <2>4 DEF TrackingInvariant, CallParts, NothingBeforeRun
<1>7. CASE Crash
  <2>1. StacksTracked' /\ NothingBeforeRun'
    BY <1>0, <1>1, <1>7 DEF Crash, StacksTracked, NothingBeforeRun,
       TrackingInvariant
  <2> QED BY <1>2, <2>1 DEF TrackingInvariant, CallParts
<1> QED BY <1>4, <1>5, <1>6, <1>7

\* The starts of run, resume and cleanup, and a cancelled context.
LEMMA StartSteps ==
    ASSUME InstanceTypes \subseteq Planned, TrackingInvariant, TypeOK',
           StartRun \/ StartResume \/ StartCleanup \/ Cancel
    PROVE  TrackingInvariant'
<1>0. /\ TypeOK /\ manifest \in Manifest /\ outcome \in Outcomes
      /\ live \subseteq ResourceIDs /\ live \subseteq Stacks
      /\ StacksTracked /\ MemoryTracksStacks
  BY StackIDs DEF TrackingInvariant, TypeOK
<1>1. CASE StartRun
  <2>1. live = {} /\ live' = {} /\ pc' = "execute"
        /\ manifest' = CreatedManifest(results)
    BY <1>1 DEF StartRun, Starts, TrackingInvariant, NothingBeforeRun, external
  <2>2. manifest'.status # "absent"
    BY <2>1, CreatedManifestType DEF Existing
  <2> QED BY <2>1, <2>2, OffAnchors
          DEF TrackingInvariant, CallParts, Anchors, StacksTracked,
              NothingBeforeRun, MemoryTracksStacks, UnmanagedHasNoStack
<1>2. CASE StartResume
  <2>1. /\ manifest' = BeginResume(manifest) /\ pc' = "execute"
        /\ UNCHANGED <<cfg, live, outcome>>
    BY <1>2 DEF StartResume, Starts, external
  <2>2. manifest'.status # "absent" /\ manifest'.resources = manifest.resources
    BY <1>0, <2>1, BeginResumeType DEF Existing
  <2> QED BY <2>1, <2>2, OffAnchors, QuietStep DEF Anchors
<1>3. CASE StartCleanup
  <2>1. /\ manifest' = BeginCleanup(manifest)
        /\ pc' \in {"cleanup-pairs", "cleanup-done"} /\ UNCHANGED <<cfg, live>>
    BY <1>3 DEF StartCleanup, external
  <2>2. StacksTracked' /\ manifest'.status # "absent"
    BY <1>0, <2>1, BeginCleanupType DEF StacksTracked, Existing
  <2>3. MemoryTracksStacks'
    BY <1>0, <1>3, <2>1, FailsType, EmptyMemory
       DEF StartCleanup, MemoryTracksStacks
  <2>4. pc' = "cleanup-pairs" => loop'.queue = Planned
    BY <1>3 DEF StartCleanup, NoLoop
  <2>5. pc' = "cleanup-done" => outcome'.cleanup
    BY <1>0, <1>3, FailsType DEF StartCleanup
  <2>6. CallParts'
    BY <1>0, <2>1, <2>4, <2>5
       DEF CallParts, IntentIsRecorded, GoneBeforeCleaned, CleanupSweeps,
           Stacks
  <2> QED BY <2>1, <2>2, <2>3, <2>6
          DEF TrackingInvariant, CallParts, NothingBeforeRun,
              UnmanagedHasNoStack
<1>4. CASE Cancel
  <2>1. UNCHANGED <<cfg, manifest, live, pc, outcome, loop>> /\ ~idle
    BY <1>4 DEF Cancel, external
  <2> QED BY <2>1 DEF TrackingInvariant, StacksTracked, NothingBeforeRun,
          MemoryTracksStacks, IntentIsRecorded, GoneBeforeCleaned,
          UnmanagedHasNoStack, CleanupSweeps
<1> QED BY <1>1, <1>2, <1>3, <1>4

\* The cleanup command's sweep over pairs, networking and tailnet.
LEMMA CleanupSteps ==
    ASSUME TrackingInvariant, TypeOK',
           \/ \E t \in InstanceTypes : CleanupPair(t)
           \/ CleanupNetwork \/ CleanupTailnet
    PROVE  TrackingInvariant'
<1>0. outcome \in Outcomes /\ loop \in Loops /\ CleanupSweeps
      /\ UnmanagedHasNoStack
  BY DEF TrackingInvariant, TypeOK
<1>1. /\ UNCHANGED <<cfg, manifest>> /\ live' \subseteq live
      /\ pc # "idle" /\ manifest.status # "absent"
      /\ outcome'.resources = outcome.resources
      /\ ~outcome'.cleanup => ~outcome.cleanup
  BY <1>0, FailsType DEF CleanupPair, CleanupNetwork, CleanupTailnet,
     DestroySucceeds, DestroyFails, TrackingInvariant, NothingBeforeRun
<1>2. ASSUME NEW t \in InstanceTypes, CleanupPair(t)
      PROVE  CallParts'
  <2>1. ~outcome'.cleanup => live' = live \ {t}
    BY <1>0, <1>2, FailsType DEF CleanupPair, DestroySucceeds
  <2>2. pc = "cleanup-pairs" /\ pc' = pc /\ loop'.queue = loop.queue \ {t}
    BY <1>0, <1>2 DEF CleanupPair, Loops
  <2> QED BY <1>0, <1>1, <2>1, <2>2 DEF CallParts, IntentIsRecorded,
          GoneBeforeCleaned, CleanupSweeps
<1>3. ASSUME CleanupNetwork PROVE CallParts'
  <2>1. ~outcome'.cleanup => live' = live \ {"networking"}
    BY <1>0, <1>3, FailsType
       DEF CleanupNetwork, DestroySucceeds, UnmanagedHasNoStack
  <2>2. pc = "cleanup-pairs" /\ loop.queue = {} /\ pc' = "cleanup-tailnet"
    BY <1>3 DEF CleanupNetwork
  <2> QED BY <1>0, <1>1, <2>1, <2>2 DEF CallParts, IntentIsRecorded,
          GoneBeforeCleaned, CleanupSweeps
<1>4. ASSUME CleanupTailnet PROVE CallParts'
  BY <1>0, <1>1, <1>4 DEF CleanupTailnet, CallParts, IntentIsRecorded,
     GoneBeforeCleaned, CleanupSweeps
<1>5. CallParts'
  BY <1>2, <1>3, <1>4
<1> QED BY <1>1, <1>5, QuietStep

\* Every step of every command preserves the invariant.
LEMMA TrackingStep ==
    ASSUME InstanceTypes \subseteq Planned, TrackingInvariant, [Next]_vars
    PROVE  TrackingInvariant'
<1>1. TypeOK'
  BY TypeStep DEF TrackingInvariant
<1>2. CASE Next
  BY <1>1, <1>2, QuietSteps, RecordSteps, CallSteps, EndSteps, StartSteps,
     CleanupSteps DEF Next, ProcessStep, Execute
<1>3. CASE UNCHANGED vars
  BY <1>3, <1>1 DEF vars, TrackingInvariant, StacksTracked, NothingBeforeRun,
     MemoryTracksStacks, IntentIsRecorded, GoneBeforeCleaned,
     UnmanagedHasNoStack, CleanupSweeps
<1> QED BY <1>2, <1>3

\* Before the first command there is no stack to track.
LEMMA TrackingInit == Init => TrackingInvariant
<1>1. Init => TypeOK
  BY TypeInit
<1> QED BY <1>1 DEF Init, TrackingInvariant, StacksTracked, NothingBeforeRun,
        MemoryTracksStacks, IntentIsRecorded, GoneBeforeCleaned,
        UnmanagedHasNoStack, CleanupSweeps

\* The invariant behind the two theorems below, for every run whose provider
\* offers no type outside the plan.
THEOREM TrackingIsInvariant ==
    ASSUME InstanceTypes \subseteq Planned
    PROVE  Spec => []TrackingInvariant
<1>1. TrackingInvariant /\ [Next]_vars => TrackingInvariant'
  BY TrackingStep
<1> QED BY <1>1, TrackingInit, PTL DEF Spec

\* Whenever a process dies, whichever call or save failed, every stack that
\* exists in the cloud is in the manifest and not marked cleaned.
THEOREM StacksAreTracked ==
    ASSUME InstanceTypes \subseteq Planned
    PROVE  Spec => []StacksTracked
<1>1. TrackingInvariant => StacksTracked
  BY DEF TrackingInvariant
<1> QED BY <1>1, TrackingIsInvariant, PTL

-----------------------------------------------------------------------------
\* The refinement.

\* A step changes the set of stacks or the set of recorded ones, not both, and
\* each change is one the write-ahead specification allows.
LEMMA LedgerStep ==
    ASSUME TrackingInvariant, TrackingInvariant', [Next]_vars
    PROVE  [Ledger!Next]_<<live, {s \in Stacks : Unclean(manifest.resources[s])}>>
<1> DEFINE rec == {s \in Stacks : Unclean(manifest.resources[s])}
<1>0. live \subseteq rec /\ live' \subseteq rec' /\ rec' \in SUBSET Stacks
      /\ live \subseteq Stacks
  BY DEF TrackingInvariant, StacksTracked, TypeOK
<1>1. ASSUME UNCHANGED live
      PROVE  Ledger!Record
  BY <1>0, <1>1 DEF Ledger!Record
<1>2. ASSUME NEW s \in Stacks, UNCHANGED manifest,
             live' \in {live, live \ {s}}
      PROVE  Ledger!Release(s) \/ UNCHANGED live
  BY <1>2 DEF Ledger!Release
<1>3. ASSUME NEW s \in Stacks, UNCHANGED manifest, s \in rec,
             live' \in {live, live \cup {s}}
      PROVE  Ledger!Provision(s) \/ UNCHANGED live
  BY <1>3 DEF Ledger!Provision
<1>4. \/ UNCHANGED live
      \/ \E s \in Stacks : UNCHANGED manifest /\ live' \in {live, live \ {s}}
      \/ \E s \in Stacks : UNCHANGED manifest /\ s \in rec
                           /\ live' \in {live, live \cup {s}}
  <2>1. CASE SetupNetworking
    BY <2>1, StackIDs DEF SetupNetworking, CreateSucceeds, CreateFails,
       TrackingInvariant, IntentIsRecorded
  <2>2. CASE CreatePair
    BY <2>2, StackIDs DEF CreatePair, CreateSucceeds, CreateFails,
       TrackingInvariant, IntentIsRecorded, TypeOK, PairLabels
  <2>3. CASE AbandonPair \/ DestroyPair
    BY <2>3, StackIDs DEF AbandonPair, DestroyPair, DestroySucceeds,
       DestroyFails, TrackingInvariant, TypeOK, PairLabels
  <2>4. CASE TeardownNetworking \/ CleanupNetwork
    BY <2>4, StackIDs DEF TeardownNetworking, CleanupNetwork,
       DestroySucceeds, DestroyFails
  <2>5. CASE \E t \in InstanceTypes : PreCleanup(t) \/ CleanupPair(t)
    BY <2>5, StackIDs DEF PreCleanup, CleanupPair, DestroySucceeds,
       DestroyFails
  <2>6. CASE \/ StartRun \/ StartResume \/ StartCleanup \/ Cancel \/ Crash
             \/ ExecuteFailsEarly \/ FinishExecution \/ EndCleanup
             \/ CleanupTailnet \/ UNCHANGED vars
    BY <2>6 DEF StartRun, StartResume, StartCleanup, Cancel, Crash,
       ExecuteFailsEarly, FinishExecution, EndCleanup, CleanupTailnet, vars,
       external
  <2>7. CASE \/ RecordTailnetIntent \/ CreateTailnet \/ RecordTailnetCreated
             \/ UseExistingTailnet \/ JoinTailnet \/ RecordNetworkingIntent
             \/ LookUpNetworking \/ RecordNetworkingCreated \/ ListInstances
             \/ InstanceInterrupted \/ RecordTopologyIntent
             \/ RecordPairCreated \/ StartBenchmark \/ RunMode \/ WriteResult
             \/ FinishMode \/ EndModes \/ PrepareFails
    BY <2>7 DEF PrepareFails, RecordTailnetIntent, CreateTailnet, RecordTailnetCreated,
       UseExistingTailnet, JoinTailnet, RecordNetworkingIntent,
       LookUpNetworking, RecordNetworkingCreated, ListInstances,
       InstanceInterrupted, RecordTopologyIntent, RecordPairCreated,
       StartBenchmark, RunMode, WriteResult, FinishMode, EndModes, external
  <2>8. CASE \/ KeepPair \/ RecordPairCleaning \/ RecordPairCleaned
             \/ RefreshAuthKey \/ Aggregate \/ KeepNetworking
             \/ RecordNetworkingCleaning \/ RecordNetworkingCleaned
             \/ CloseTsnet \/ KeepTailnet \/ RecordTailnetCleaning
             \/ DeleteOwnTailnet \/ RecordTailnetCleaned
             \/ \E t \in InstanceTypes : SkipInstance(t)
             \/ \E m \in Modes : SkipMode(m) \/ StartMode(m)
    BY <2>8 DEF KeepPair, RecordPairCleaning, RecordPairCleaned,
       RefreshAuthKey, Aggregate, KeepNetworking, RecordNetworkingCleaning,
       RecordNetworkingCleaned, CloseTsnet, KeepTailnet,
       RecordTailnetCleaning, DeleteOwnTailnet, RecordTailnetCleaned,
       SkipInstance, SkipMode, StartMode, external
  <2> QED BY <2>1, <2>2, <2>3, <2>4, <2>5, <2>6, <2>7, <2>8
          DEF Next, ProcessStep, Execute
<1> QED BY <1>1, <1>2, <1>3, <1>4 DEF Ledger!Next

\* Every behaviour of the run, resume and cleanup commands, crashes included,
\* is a behaviour of the write-ahead specification.
THEOREM RunImplementsWriteAhead ==
    ASSUME InstanceTypes \subseteq Planned
    PROVE  Spec => ImplementsWriteAhead
<1>1. Init => Ledger!Init
  BY StackIDs DEF Init, Ledger!Init, NoManifest, CreatedManifest, Unclean
<1>2. TrackingInvariant /\ TrackingInvariant' /\ [Next]_vars
        => [Ledger!Next]_<<live, {s \in Stacks : Unclean(manifest.resources[s])}>>
  BY LedgerStep
<1> QED BY <1>1, <1>2, TrackingIsInvariant, PTL
        DEF Spec, ImplementsWriteAhead, Ledger!Spec
=============================================================================
