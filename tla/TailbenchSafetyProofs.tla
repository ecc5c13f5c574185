------------------------ MODULE TailbenchSafetyProofs -----------------------
(***************************************************************************)
(* Proofs of what the run, resume and cleanup commands promise beyond the  *)
(* tracking of stacks, for every value of the constants: the lifecycle of  *)
(* the manifest, the ownership of tailnets, the accounting of work, the    *)
(* cleanup policy and the completeness of a first run's own cleanup.       *)
(***************************************************************************)
EXTENDS TailbenchProofs

\* The in-memory inventory update leaves the errors and the name alone.
LEMMA RememberedFields ==
    ASSUME NEW out \in Outcomes, NEW r \in ResourceIDs,
           NEW status \in ResourceStatus
    PROVE  LET o == Remembered(out, r, status)
           IN  /\ o.benchmark = out.benchmark /\ o.cleanup = out.cleanup
               /\ o.dns = out.dns
BY DEF Remembered, Outcomes, Inventory

\* The error updates of a failed save, and the name of a created tailnet.
LEMMA FailuresFields ==
    ASSUME NEW out \in Outcomes
    PROVE  /\ [out EXCEPT !.benchmark = TRUE].benchmark = TRUE
           /\ [out EXCEPT !.benchmark = TRUE].cleanup = out.cleanup
           /\ [out EXCEPT !.benchmark = TRUE].dns = out.dns
           /\ [out EXCEPT !.cleanup = TRUE].cleanup = TRUE
           /\ [out EXCEPT !.cleanup = TRUE].benchmark = out.benchmark
           /\ [out EXCEPT !.cleanup = TRUE].dns = out.dns
           /\ \A d : /\ [out EXCEPT !.dns = d].dns = d
                     /\ [out EXCEPT !.dns = d].benchmark = out.benchmark
                     /\ [out EXCEPT !.dns = d].cleanup = out.cleanup
BY DEF Outcomes

\* The error updates of a failed call.
LEMMA FailsFields ==
    ASSUME outcome \in Outcomes, NEW i \in BOOLEAN
    PROVE  /\ BenchmarkFails(i).benchmark = TRUE
           /\ BenchmarkFails(i).cleanup = outcome.cleanup
           /\ BenchmarkFails(i).dns = outcome.dns
           /\ CleanupFails(i).cleanup = TRUE
           /\ CleanupFails(i).benchmark = outcome.benchmark
           /\ CleanupFails(i).dns = outcome.dns
BY DEF BenchmarkFails, CleanupFails, Outcomes

-----------------------------------------------------------------------------
\* Frames: what the orchestrator's steps have in common.

\* The record of the run as a whole stays, errors are never taken back.
Framed ==
    /\ UNCHANGED <<cfg, cmd>>
    /\ Executing /\ Executing' /\ pc' # "execute"
    /\ manifest'.status = manifest.status
    /\ manifest'.cleanup = manifest.cleanup
    /\ results \subseteq results'
    /\ outcome.benchmark => outcome'.benchmark
    /\ outcome.cleanup => outcome'.cleanup

\* No work item is opened or closed.
WorkKept ==
    /\ manifest'.work = manifest.work
    /\ pc \notin ModeLabels /\ pc' \notin ModeLabels

\* The tailnet, its record and its name in memory stay as they are.
TailnetKept ==
    /\ manifest'.dns = manifest.dns
    /\ manifest'.resources["tailnet"] = manifest.resources["tailnet"]
    /\ outcome'.dns = outcome.dns
    /\ outcome'.resources["tailnet"] = outcome.resources["tailnet"]
    /\ UNCHANGED <<tailnets, tailnetDNS>>
    /\ pc' \notin {"create-tailnet", "record-tailnet", "delete-tailnet",
                   "record-tailnet-gone"}

\* The steps about one mode, and the steps about the tailnet.
ModeStep ==
    RunMode \/ WriteResult \/ FinishMode \/ \E m \in Modes : StartMode(m)
TailnetStep ==
    \/ RecordTailnetIntent \/ CreateTailnet \/ RecordTailnetCreated
    \/ UseExistingTailnet \/ RecordTailnetCleaning \/ DeleteOwnTailnet
    \/ RecordTailnetCleaned

\* The steps that write a stack's record.
StackRecordStep ==
    \/ RecordNetworkingIntent \/ RecordNetworkingCreated
    \/ RecordNetworkingCleaning \/ RecordNetworkingCleaned
    \/ RecordTopologyIntent \/ RecordPairCreated
    \/ RecordPairCleaning \/ RecordPairCleaned

\* A save of a stack's record, whether or not it went through.
LEMMA StackRecordFrame ==
    ASSUME TypeOK, StackRecordStep
    PROVE  Framed /\ WorkKept /\ TailnetKept
<1>0. manifest \in Manifest /\ outcome \in Outcomes
  BY DEF TypeOK
<1>1. PICK r \in Stacks, status \in ResourceStatus :
        /\ manifest' \in {manifest, UpsertResource(manifest, r, status)}
        /\ outcome' \in
            {Remembered(outcome, r, status),
             [Remembered(outcome, r, status) EXCEPT !.benchmark = TRUE],
             [Remembered(outcome, r, status) EXCEPT !.cleanup = TRUE]}
  <2>1. {"creating", "created", "cleaning", "cleaned"} \subseteq ResourceStatus
    BY DEF ResourceStatus
  <2>2. pc \in PairLabels => loop.inst \in Stacks
    BY StackIDs DEF TypeOK
  <2>3. CASE RecordNetworkingIntent \/ RecordNetworkingCreated
    BY <2>1, <2>3, StackIDs DEF RecordNetworkingIntent,
       RecordNetworkingCreated, Saved, SaveFails
  <2>4. CASE RecordNetworkingCleaning \/ RecordNetworkingCleaned
    BY <2>1, <2>4, StackIDs DEF RecordNetworkingCleaning,
       RecordNetworkingCleaned, Saved, SaveFails
  <2>5. CASE RecordTopologyIntent \/ RecordPairCreated
    BY <2>1, <2>2, <2>5 DEF RecordTopologyIntent, RecordPairCreated, Saved,
       SaveFails, PairLabels
  <2>6. CASE RecordPairCleaning \/ RecordPairCleaned
    BY <2>1, <2>2, <2>6 DEF RecordPairCleaning, RecordPairCleaned, Saved,
       SaveFails, PairLabels
  <2> QED BY <2>3, <2>4, <2>5, <2>6 DEF StackRecordStep
<1>2. r \in ResourceIDs /\ r # "tailnet"
  BY StackIDs
<1>3. /\ manifest'.status = manifest.status
      /\ manifest'.cleanup = manifest.cleanup
      /\ manifest'.work = manifest.work /\ manifest'.dns = manifest.dns
      /\ manifest'.resources["tailnet"] = manifest.resources["tailnet"]
  <2>1. manifest.resources \in [ResourceIDs -> ResourceStatus]
    BY <1>0 DEF Manifest, Inventory
  <2>2. CASE manifest' = manifest
    BY <2>2
  <2>3. CASE manifest' = UpsertResource(manifest, r, status)
    <3>1. /\ manifest'.status = manifest.status
          /\ manifest'.resources = [manifest.resources EXCEPT ![r] = status]
      BY <1>0, <1>2, <2>3, UpsertResourceType
    <3>2. /\ manifest'.cleanup = manifest.cleanup
          /\ manifest'.work = manifest.work /\ manifest'.dns = manifest.dns
      BY <1>0, <1>2, <2>3, UpsertResourceFields
    <3> QED BY <1>2, <2>1, <3>1, <3>2, StackIDs
  <2> QED BY <1>1, <2>2, <2>3
<1>4. /\ outcome.benchmark => outcome'.benchmark
      /\ outcome.cleanup => outcome'.cleanup
      /\ outcome'.dns = outcome.dns
      /\ outcome'.resources["tailnet"] = outcome.resources["tailnet"]
  <2> DEFINE o == Remembered(outcome, r, status)
  <2>1. /\ o \in Outcomes /\ o.benchmark = outcome.benchmark
        /\ o.cleanup = outcome.cleanup /\ o.dns = outcome.dns
        /\ o.resources = [outcome.resources EXCEPT ![r] = status]
    BY <1>0, <1>2, RememberedType, RememberedFields
  <2>2. o.resources["tailnet"] = outcome.resources["tailnet"]
    BY <1>0, <1>2, <2>1, StackIDs DEF Outcomes, Inventory
  <2>3. outcome' \in {o, [o EXCEPT !.benchmark = TRUE],
                      [o EXCEPT !.cleanup = TRUE]}
    BY <1>1
  <2> HIDE DEF o
  <2>4. CASE outcome' = o
    BY <2>1, <2>2, <2>4
  <2>5. CASE outcome' = [o EXCEPT !.benchmark = TRUE]
    BY <2>1, <2>2, <2>5, FailuresType, FailuresFields
  <2>6. CASE outcome' = [o EXCEPT !.cleanup = TRUE]
    BY <2>1, <2>2, <2>6, FailuresType, FailuresFields
  <2> QED BY <2>3, <2>4, <2>5, <2>6
<1>5. /\ UNCHANGED <<cfg, cmd, results, tailnets, tailnetDNS>>
      /\ pc \in {"networking", "record-networking", "networking-defer",
                 "record-torn-down", "record-topology", "record-pair",
                 "pair-done", "record-destroyed"}
      /\ pc' \in {"setup-networking", "provider-return", "list-instances",
                  "networking-defer", "teardown-networking", "create-pair",
                  "instances", "benchmark", "abandon-pair", "destroy-pair",
                  "refresh-key"}
  BY DEF StackRecordStep, RecordNetworkingIntent, RecordNetworkingCreated,
     RecordNetworkingCleaning, RecordNetworkingCleaned, RecordTopologyIntent,
     RecordPairCreated, RecordPairCleaning, RecordPairCleaned, external, files
<1>6. Executing /\ Executing' /\ pc' # "execute"
      /\ pc \notin ModeLabels /\ pc' \notin ModeLabels
  BY <1>5 DEF Executing, CleanupLabels, ModeLabels
<1> QED BY <1>3, <1>4, <1>5, <1>6 DEF Framed, WorkKept, TailnetKept

\* The steps that write no record and are not about the tailnet.
PlainStep ==
    \/ PrepareFails \/ JoinTailnet \/ SetupNetworking \/ LookUpNetworking
    \/ ListInstances \/ InstanceInterrupted
    \/ \E t \in InstanceTypes : SkipInstance(t) \/ PreCleanup(t)
    \/ CreatePair \/ AbandonPair \/ StartBenchmark \/ EndModes
    \/ \E m \in Modes : SkipMode(m)
    \/ KeepPair \/ DestroyPair \/ RefreshAuthKey \/ Aggregate
    \/ KeepNetworking \/ TeardownNetworking \/ CloseTsnet \/ KeepTailnet

\* They touch neither work nor tailnet, and the manifest not at all.
LEMMA PlainFrame ==
    ASSUME TypeOK, PlainStep
    PROVE  Framed /\ WorkKept /\ TailnetKept /\ UNCHANGED manifest
<1> USE DEF Framed, WorkKept, TailnetKept, Executing, CleanupLabels,
            ModeLabels, external, files
<1> DEFINE Kept == Framed /\ WorkKept /\ TailnetKept /\ UNCHANGED manifest
<1>0. outcome \in Outcomes
  BY DEF TypeOK
<1>1. ASSUME KeepPair PROVE Kept
  BY <1>0, <1>1 DEF KeepPair
<1>2. ASSUME KeepNetworking PROVE Kept
  BY <1>0, <1>2 DEF KeepNetworking
<1>3. ASSUME KeepTailnet PROVE Kept
  BY <1>0, <1>3 DEF KeepTailnet
<1>4. ASSUME EndModes PROVE Kept
  BY <1>0, <1>4 DEF EndModes
<1>5. ASSUME PrepareFails PROVE Kept
  BY <1>0, <1>5, FailsType, FailsFields DEF PrepareFails
<1>6. ASSUME JoinTailnet PROVE Kept
  BY <1>0, <1>6, FailsType, FailsFields DEF JoinTailnet
<1>7. ASSUME LookUpNetworking PROVE Kept
  BY <1>0, <1>7, FailsType, FailsFields DEF LookUpNetworking
<1>8. ASSUME RefreshAuthKey PROVE Kept
  BY <1>0, <1>8, FailsType, FailsFields DEF RefreshAuthKey
<1>9. ASSUME InstanceInterrupted PROVE Kept
  BY <1>0, <1>9, FailsType, FailsFields DEF InstanceInterrupted
<1>10. ASSUME Aggregate PROVE Kept
  BY <1>0, <1>10, FailsType, FailsFields DEF Aggregate
<1>11. ASSUME CloseTsnet PROVE Kept
  BY <1>0, <1>11, FailsType, FailsFields DEF CloseTsnet
<1>12. ASSUME StartBenchmark PROVE Kept
  BY <1>0, <1>12, FailsType, FailsFields DEF StartBenchmark
<1>13. ASSUME SetupNetworking PROVE Kept
  BY <1>0, <1>13, FailsType, FailsFields DEF SetupNetworking
<1>14. ASSUME CreatePair PROVE Kept
  BY <1>0, <1>14, FailsType, FailsFields DEF CreatePair
<1>15. ASSUME AbandonPair PROVE Kept
  BY <1>0, <1>15, FailsType, FailsFields DEF AbandonPair
<1>16. ASSUME DestroyPair PROVE Kept
  BY <1>0, <1>16, FailsType, FailsFields DEF DestroyPair
<1>17. ASSUME TeardownNetworking PROVE Kept
  BY <1>0, <1>17, FailsType, FailsFields DEF TeardownNetworking
<1>18. ASSUME NEW t \in InstanceTypes, SkipInstance(t) PROVE Kept
  BY <1>0, <1>18, FailsType, FailsFields DEF SkipInstance
<1>19. ASSUME NEW t \in InstanceTypes, PreCleanup(t) PROVE Kept
  BY <1>0, <1>19, FailsType, FailsFields DEF PreCleanup
<1>20. ASSUME NEW m \in Modes, SkipMode(m) PROVE Kept
  BY <1>0, <1>20 DEF SkipMode
<1>21. ASSUME ListInstances PROVE Kept
  <2>1. CASE outcome' = BenchmarkFails(FALSE)
    BY <1>0, <1>21, <2>1, FailsType, FailsFields DEF ListInstances
  <2>2. ASSUME NEW listErr \in BOOLEAN, NEW staleErr \in BOOLEAN,
               NEW i \in BOOLEAN,
               outcome' = [outcome EXCEPT
                    !.benchmark = outcome.benchmark \/ listErr,
                    !.cleanup = outcome.cleanup \/ staleErr,
                    !.interrupted = outcome.interrupted \/ i]
        PROVE  Kept
    <3>1. /\ outcome'.resources = outcome.resources
          /\ outcome'.dns = outcome.dns
          /\ outcome'.benchmark = (outcome.benchmark \/ listErr)
          /\ outcome'.cleanup = (outcome.cleanup \/ staleErr)
      BY <1>0, <2>2 DEF Outcomes
    <3> QED BY <1>21, <3>1 DEF ListInstances
  <2> QED BY <1>21, <2>1, <2>2 DEF ListInstances
<1> QED BY <1>1, <1>2, <1>3, <1>4, <1>5, <1>6, <1>7, <1>8, <1>9, <1>10,
     <1>11, <1>12, <1>13, <1>14, <1>15, <1>16, <1>17, <1>18, <1>19,
     <1>20, <1>21
        DEF PlainStep

\* The tailnet's own steps: no work is touched.
LEMMA TailnetFrame ==
    ASSUME TypeOK, TailnetStep
    PROVE  Framed /\ WorkKept
<1> USE DEF Framed, WorkKept, Executing, CleanupLabels, ModeLabels, external,
            files
<1>0. /\ manifest \in Manifest /\ outcome \in Outcomes
      /\ tailnetDNS \in Tailnets \cup {NoTailnet}
      /\ outcome.dns \in Tailnets \cup {NoTailnet}
      /\ {"creating", "created", "cleaning", "cleaned"} \subseteq ResourceStatus
  BY DEF TypeOK, Outcomes, ResourceStatus
<1>1. ASSUME CreateTailnet PROVE Framed /\ WorkKept
  BY <1>0, <1>1, FailsType, FailsFields DEF CreateTailnet
<1>2. ASSUME DeleteOwnTailnet PROVE Framed /\ WorkKept
  BY <1>0, <1>2, FailsType, FailsFields DEF DeleteOwnTailnet
<1>3. ASSUME UseExistingTailnet PROVE Framed /\ WorkKept
  BY <1>3 DEF UseExistingTailnet
<1>4. ASSUME NEW status \in ResourceStatus,
             NEW dns \in Tailnets \cup {NoTailnet},
             manifest' \in {manifest, UpsertTailnet(manifest, status, dns)}
      PROVE  /\ manifest'.status = manifest.status
             /\ manifest'.cleanup = manifest.cleanup
             /\ manifest'.work = manifest.work
  <2>1. CASE manifest' = manifest
    BY <2>1
  <2>2. CASE manifest' = UpsertTailnet(manifest, status, dns)
    BY <1>0, <2>2, UpsertTailnetFields
  <2> QED BY <1>4, <2>1, <2>2
<1>5. ASSUME NEW o \in Outcomes,
             o.benchmark = outcome.benchmark, o.cleanup = outcome.cleanup,
             outcome' \in {o, [o EXCEPT !.benchmark = TRUE],
                           [o EXCEPT !.cleanup = TRUE]}
      PROVE  /\ outcome.benchmark => outcome'.benchmark
             /\ outcome.cleanup => outcome'.cleanup
  <2>1. CASE outcome' = o
    BY <1>5, <2>1
  <2>2. CASE outcome' = [o EXCEPT !.benchmark = TRUE]
    BY <1>5, <2>2, FailuresFields
  <2>3. CASE outcome' = [o EXCEPT !.cleanup = TRUE]
    BY <1>5, <2>3, FailuresFields
  <2> QED BY <1>5, <2>1, <2>2, <2>3
<1>6. ASSUME NEW status \in ResourceStatus
      PROVE  LET o == Remembered(outcome, "tailnet", status)
                 n == [o EXCEPT !.dns = tailnetDNS]
             IN  /\ o \in Outcomes /\ o.benchmark = outcome.benchmark
                 /\ o.cleanup = outcome.cleanup
                 /\ n \in Outcomes /\ n.benchmark = outcome.benchmark
                 /\ n.cleanup = outcome.cleanup
  <2> DEFINE o == Remembered(outcome, "tailnet", status)
  <2>1. /\ o \in Outcomes /\ o.benchmark = outcome.benchmark
        /\ o.cleanup = outcome.cleanup
    <3>1. o \in Outcomes
      BY <1>0, RememberedType, StackIDs
    <3>2. o.benchmark = outcome.benchmark /\ o.cleanup = outcome.cleanup
      BY <1>0, RememberedFields, StackIDs
    <3> QED BY <3>1, <3>2
  <2> HIDE DEF o
  <2>2. /\ [o EXCEPT !.dns = tailnetDNS] \in Outcomes
        /\ [o EXCEPT !.dns = tailnetDNS].benchmark = o.benchmark
        /\ [o EXCEPT !.dns = tailnetDNS].cleanup = o.cleanup
    BY <1>0, <2>1, FailuresType, FailuresFields
  <2> QED BY <2>1, <2>2 DEF o
<1>7. ASSUME RecordTailnetIntent PROVE Framed /\ WorkKept
  <2> DEFINE o == Remembered(outcome, "tailnet", "creating")
  <2>1. /\ o \in Outcomes /\ o.benchmark = outcome.benchmark
        /\ o.cleanup = outcome.cleanup
    BY <1>0, <1>6
  <2>2. /\ manifest' \in {manifest, UpsertTailnet(manifest, "creating", NoTailnet)}
        /\ outcome' \in {o, [o EXCEPT !.benchmark = TRUE]}
    BY <1>7 DEF RecordTailnetIntent, Saved, SaveFails
  <2> HIDE DEF o
  <2>3. /\ manifest'.status = manifest.status
        /\ manifest'.cleanup = manifest.cleanup
        /\ manifest'.work = manifest.work
    BY <1>0, <1>4, <2>2
  <2>4. /\ outcome.benchmark => outcome'.benchmark
        /\ outcome.cleanup => outcome'.cleanup
    BY <1>5, <2>1, <2>2
  <2> QED BY <1>7, <2>3, <2>4 DEF RecordTailnetIntent
<1>8. ASSUME RecordTailnetCreated PROVE Framed /\ WorkKept
  <2> DEFINE o == [Remembered(outcome, "tailnet", "created")
                     EXCEPT !.dns = tailnetDNS]
  <2>1. /\ o \in Outcomes /\ o.benchmark = outcome.benchmark
        /\ o.cleanup = outcome.cleanup
    BY <1>0, <1>6
  <2>2. /\ manifest' \in {manifest, UpsertTailnet(manifest, "created", tailnetDNS)}
        /\ outcome' \in {o, [o EXCEPT !.benchmark = TRUE]}
    BY <1>8 DEF RecordTailnetCreated, Saved, SaveFails
  <2> HIDE DEF o
  <2>3. /\ manifest'.status = manifest.status
        /\ manifest'.cleanup = manifest.cleanup
        /\ manifest'.work = manifest.work
    BY <1>0, <1>4, <2>2
  <2>4. /\ outcome.benchmark => outcome'.benchmark
        /\ outcome.cleanup => outcome'.cleanup
    BY <1>5, <2>1, <2>2
  <2> QED BY <1>8, <2>3, <2>4 DEF RecordTailnetCreated
<1>9. ASSUME RecordTailnetCleaning PROVE Framed /\ WorkKept
  <2> DEFINE o == Remembered(outcome, "tailnet", "cleaning")
  <2>1. /\ o \in Outcomes /\ o.benchmark = outcome.benchmark
        /\ o.cleanup = outcome.cleanup
    BY <1>0, <1>6
  <2>2. /\ manifest' \in {manifest, UpsertTailnet(manifest, "cleaning", outcome.dns)}
        /\ outcome' \in {o, [o EXCEPT !.cleanup = TRUE]}
    BY <1>9 DEF RecordTailnetCleaning, Saved, SaveFails
  <2> HIDE DEF o
  <2>3. /\ manifest'.status = manifest.status
        /\ manifest'.cleanup = manifest.cleanup
        /\ manifest'.work = manifest.work
    BY <1>0, <1>4, <2>2
  <2>4. /\ outcome.benchmark => outcome'.benchmark
        /\ outcome.cleanup => outcome'.cleanup
    BY <1>5, <2>1, <2>2
  <2> QED BY <1>9, <2>3, <2>4 DEF RecordTailnetCleaning
<1>10. ASSUME RecordTailnetCleaned PROVE Framed /\ WorkKept
  <2> DEFINE o == Remembered(outcome, "tailnet", "cleaned")
  <2>1. /\ o \in Outcomes /\ o.benchmark = outcome.benchmark
        /\ o.cleanup = outcome.cleanup
    BY <1>0, <1>6
  <2>2. /\ manifest' \in {manifest, UpsertTailnet(manifest, "cleaned", outcome.dns)}
        /\ outcome' \in {o, [o EXCEPT !.cleanup = TRUE]}
    BY <1>10 DEF RecordTailnetCleaned, Saved, SaveFails
  <2> HIDE DEF o
  <2>3. /\ manifest'.status = manifest.status
        /\ manifest'.cleanup = manifest.cleanup
        /\ manifest'.work = manifest.work
    BY <1>0, <1>4, <2>2
  <2>4. /\ outcome.benchmark => outcome'.benchmark
        /\ outcome.cleanup => outcome'.cleanup
    BY <1>5, <2>1, <2>2
  <2> QED BY <1>10, <2>3, <2>4 DEF RecordTailnetCleaned
<1> QED BY <1>1, <1>2, <1>3, <1>7, <1>8, <1>9, <1>10 DEF TailnetStep

\* The steps of one mode: the tailnet is not touched.
LEMMA ModeFrame ==
    ASSUME TypeOK, ModeStep
    PROVE  Framed /\ TailnetKept
<1> USE DEF Framed, TailnetKept, Executing, CleanupLabels, external, files
<1> DEFINE Kept == Framed /\ TailnetKept
<1>0. manifest \in Manifest /\ outcome \in Outcomes
  BY DEF TypeOK
<1>1. ASSUME RunMode PROVE Kept
  BY <1>0, <1>1, FailsType, FailsFields DEF RunMode
<1>2. ASSUME WriteResult PROVE Kept
  BY <1>0, <1>2, FailsType, FailsFields DEF WriteResult
<1>3. ASSUME NEW w \in Work, NEW status \in WorkStatus,
             manifest' \in {manifest, SetWork(manifest, w, status)}
      PROVE  /\ manifest'.status = manifest.status
             /\ manifest'.cleanup = manifest.cleanup
             /\ manifest'.resources = manifest.resources
             /\ manifest'.dns = manifest.dns
  <2>1. CASE manifest' = manifest
    BY <2>1
  <2>2. CASE manifest' = SetWork(manifest, w, status)
    <3>1. /\ manifest'.status = manifest.status
          /\ manifest'.resources = manifest.resources
      BY <1>0, <2>2, SetWorkType
    <3>2. manifest'.cleanup = manifest.cleanup /\ manifest'.dns = manifest.dns
      BY <1>0, <2>2, SetWorkFields
    <3> QED BY <3>1, <3>2
  <2> QED BY <1>3, <2>1, <2>2
<1>4. ASSUME FinishMode PROVE Kept
  <2>1. Current \in Work
    BY <1>4 DEF FinishMode, TypeOK, ModeLabels
  <2>2. PICK status \in WorkStatus :
            manifest' \in {manifest, SetWork(manifest, Current, status)}
    BY <1>4 DEF FinishMode, Saved, SaveFails, WorkStatus
  <2>3. /\ manifest'.status = manifest.status
        /\ manifest'.cleanup = manifest.cleanup
        /\ manifest'.resources = manifest.resources
        /\ manifest'.dns = manifest.dns
    BY <1>3, <2>1, <2>2
  <2> QED BY <1>0, <1>4, <2>3, FailsType, FailsFields DEF FinishMode
<1>5. ASSUME NEW m \in Modes, StartMode(m) PROVE Kept
  <2>1. \/ manifest' = manifest
        \/ /\ <<loop.inst, m>> \in Work
           /\ manifest' = SetWork(manifest, <<loop.inst, m>>, "running")
    BY <1>5 DEF StartMode, Saved, SaveFails
  <2>2. /\ manifest'.status = manifest.status
        /\ manifest'.cleanup = manifest.cleanup
        /\ manifest'.resources = manifest.resources
        /\ manifest'.dns = manifest.dns
    BY <1>3, <2>1 DEF WorkStatus
  <2> QED BY <1>0, <1>5, <2>2, FailsType, FailsFields DEF StartMode
<1> QED BY <1>1, <1>2, <1>4, <1>5 DEF ModeStep

\* Every step of the orchestrator is of one of the four kinds.
LEMMA ExecuteKinds ==
    ASSUME Execute
    PROVE  PlainStep \/ StackRecordStep \/ TailnetStep \/ ModeStep
BY DEF Execute, PlainStep, StackRecordStep, TailnetStep, ModeStep

\* And all of them are framed.
LEMMA ExecuteFrame ==
    ASSUME TypeOK, Execute
    PROVE  /\ Framed
           /\ WorkKept \/ ModeStep
           /\ TailnetKept \/ TailnetStep
BY ExecuteKinds, PlainFrame, StackRecordFrame, TailnetFrame, ModeFrame

-----------------------------------------------------------------------------
\* The parts of the invariant, one at a time, through the orchestrator's steps.

\* A framed step leaves the run's status as it is.
LEMMA FramedStatus ==
    ASSUME LifecycleInvariant, Framed
    PROVE  CommandMatchesStep' /\ StatusMatchesProcess' /\ UncleanIsFlagged'
BY DEF LifecycleInvariant, CommandMatchesStep, StatusMatchesProcess,
       UncleanIsFlagged, Framed, Executing, CleanupLabels

\* A step away from the tailnet leaves its record true.
LEMMA TailnetKeptParts ==
    ASSUME LifecycleInvariant, Framed, TailnetKept
    PROVE  OnlyOwnTailnet' /\ TailnetRecordIsTrue'
BY DEF LifecycleInvariant, OnlyOwnTailnet, TailnetRecordIsTrue,
       JoinedTailnetSurvives, Gone, Framed, TailnetKept, Executing,
       CleanupLabels

\* A step away from the work items leaves them accounted for.
LEMMA WorkKeptParts ==
    ASSUME LifecycleInvariant, Framed, WorkKept
    PROVE  WorkIsAccounted'
<1>1. pc' \notin CleanupLabels /\ manifest'.status = "running"
  BY DEF LifecycleInvariant, StatusMatchesProcess, Framed, Executing
<1> QED BY <1>1 DEF LifecycleInvariant, WorkIsAccounted, Framed, WorkKept,
           SucceededRunIsComplete, Executing, ModeLabels

\* A save of the tailnet's record: memory always changes, the manifest only if
\* the save went through.
TailnetRecorded(status, dns, remembered) ==
    /\ \/ UNCHANGED manifest
       \/ /\ manifest'.resources["tailnet"] = status
          /\ manifest'.dns = dns
    /\ outcome'.resources["tailnet"] = status
    /\ outcome'.dns = remembered
    /\ UNCHANGED <<cfg, tailnets, tailnetDNS>>

\* What each of the four records writes.
LEMMA TailnetRecordEffects ==
    ASSUME TypeOK
    PROVE  /\ RecordTailnetIntent
                => TailnetRecorded("creating", NoTailnet, outcome.dns)
           /\ RecordTailnetCreated
                => TailnetRecorded("created", tailnetDNS, tailnetDNS)
           /\ RecordTailnetCleaning
                => TailnetRecorded("cleaning", outcome.dns, outcome.dns)
           /\ RecordTailnetCleaned
                => TailnetRecorded("cleaned", outcome.dns, outcome.dns)
<1>0. /\ manifest \in Manifest /\ outcome \in Outcomes
      /\ tailnetDNS \in Tailnets \cup {NoTailnet}
      /\ outcome.dns \in Tailnets \cup {NoTailnet}
      /\ {"creating", "created", "cleaning", "cleaned"} \subseteq ResourceStatus
      /\ manifest.resources \in [ResourceIDs -> ResourceStatus]
      /\ outcome.resources \in [ResourceIDs -> ResourceStatus]
  BY DEF TypeOK, Outcomes, Manifest, ResourceStatus, Inventory
<1>1. ASSUME NEW status \in ResourceStatus,
             NEW dns \in Tailnets \cup {NoTailnet},
             manifest' = UpsertTailnet(manifest, status, dns)
      PROVE  manifest'.resources["tailnet"] = status /\ manifest'.dns = dns
  <2>1. manifest'.resources = [manifest.resources EXCEPT !["tailnet"] = status]
    BY <1>0, <1>1, UpsertTailnetType
  <2>2. manifest'.dns = dns
    BY <1>0, <1>1, UpsertTailnetFields
  <2> QED BY <1>0, <2>1, <2>2, StackIDs
<1>2. ASSUME NEW o \in Outcomes,
             outcome' \in {o, [o EXCEPT !.benchmark = TRUE],
                           [o EXCEPT !.cleanup = TRUE]}
      PROVE  outcome'.resources = o.resources /\ outcome'.dns = o.dns
  <2>1. CASE outcome' = o
    BY <2>1
  <2>2. CASE outcome' = [o EXCEPT !.benchmark = TRUE]
    BY <2>2, FailuresType, FailuresFields
  <2>3. CASE outcome' = [o EXCEPT !.cleanup = TRUE]
    BY <2>3, FailuresType, FailuresFields
  <2> QED BY <1>2, <2>1, <2>2, <2>3
<1>3. ASSUME NEW status \in ResourceStatus
      PROVE  LET o == Remembered(outcome, "tailnet", status)
                 n == [o EXCEPT !.dns = tailnetDNS]
             IN  /\ o \in Outcomes /\ o.resources["tailnet"] = status
                 /\ o.dns = outcome.dns
                 /\ n \in Outcomes /\ n.resources["tailnet"] = status
                 /\ n.dns = tailnetDNS
  <2> DEFINE o == Remembered(outcome, "tailnet", status)
  <2>1. o \in Outcomes
        /\ o.resources = [outcome.resources EXCEPT !["tailnet"] = status]
    BY <1>0, RememberedType, StackIDs
  <2>2. o.dns = outcome.dns /\ o.resources["tailnet"] = status
    BY <1>0, <2>1, RememberedFields, StackIDs
  <2> HIDE DEF o
  <2>3. /\ [o EXCEPT !.dns = tailnetDNS] \in Outcomes
        /\ [o EXCEPT !.dns = tailnetDNS].resources = o.resources
    BY <1>0, <2>1, FailuresType
  <2>4. [o EXCEPT !.dns = tailnetDNS].dns = tailnetDNS
    BY <2>1, FailuresFields
  <2> QED BY <2>1, <2>2, <2>3, <2>4 DEF o
<1>4. ASSUME NEW status \in ResourceStatus,
             NEW dns \in Tailnets \cup {NoTailnet},
             NEW o \in Outcomes, o.resources["tailnet"] = status,
             manifest' \in {manifest, UpsertTailnet(manifest, status, dns)},
             outcome' \in {o, [o EXCEPT !.benchmark = TRUE],
                           [o EXCEPT !.cleanup = TRUE]},
             UNCHANGED <<cfg, tailnets, tailnetDNS>>
      PROVE  TailnetRecorded(status, dns, o.dns)
  BY <1>1, <1>2, <1>4 DEF TailnetRecorded
<1>5. ASSUME RecordTailnetIntent
      PROVE  TailnetRecorded("creating", NoTailnet, outcome.dns)
  <2> DEFINE o == Remembered(outcome, "tailnet", "creating")
  <2>1. o \in Outcomes /\ o.resources["tailnet"] = "creating" /\ o.dns = outcome.dns
    BY <1>0, <1>3
  <2>2. /\ manifest' \in {manifest, UpsertTailnet(manifest, "creating", NoTailnet)}
        /\ outcome' \in {o, [o EXCEPT !.benchmark = TRUE],
                         [o EXCEPT !.cleanup = TRUE]}
        /\ UNCHANGED <<cfg, tailnets, tailnetDNS>>
    BY <1>5 DEF RecordTailnetIntent, Saved, SaveFails, external
  <2> HIDE DEF o
  <2> QED BY <1>0, <1>4, <2>1, <2>2
<1>6. ASSUME RecordTailnetCreated
      PROVE  TailnetRecorded("created", tailnetDNS, tailnetDNS)
  <2> DEFINE o == [Remembered(outcome, "tailnet", "created")
                    EXCEPT !.dns = tailnetDNS]
  <2>1. o \in Outcomes /\ o.resources["tailnet"] = "created" /\ o.dns = tailnetDNS
    BY <1>0, <1>3
  <2>2. /\ manifest' \in {manifest, UpsertTailnet(manifest, "created", tailnetDNS)}
        /\ outcome' \in {o, [o EXCEPT !.benchmark = TRUE],
                         [o EXCEPT !.cleanup = TRUE]}
        /\ UNCHANGED <<cfg, tailnets, tailnetDNS>>
    BY <1>6 DEF RecordTailnetCreated, Saved, SaveFails, external
  <2> HIDE DEF o
  <2> QED BY <1>0, <1>4, <2>1, <2>2
<1>7. ASSUME RecordTailnetCleaning
      PROVE  TailnetRecorded("cleaning", outcome.dns, outcome.dns)
  <2> DEFINE o == Remembered(outcome, "tailnet", "cleaning")
  <2>1. o \in Outcomes /\ o.resources["tailnet"] = "cleaning" /\ o.dns = outcome.dns
    BY <1>0, <1>3
  <2>2. /\ manifest' \in {manifest, UpsertTailnet(manifest, "cleaning", outcome.dns)}
        /\ outcome' \in {o, [o EXCEPT !.benchmark = TRUE],
                         [o EXCEPT !.cleanup = TRUE]}
        /\ UNCHANGED <<cfg, tailnets, tailnetDNS>>
    BY <1>7 DEF RecordTailnetCleaning, Saved, SaveFails, external
  <2> HIDE DEF o
  <2> QED BY <1>0, <1>4, <2>1, <2>2
<1>8. ASSUME RecordTailnetCleaned
      PROVE  TailnetRecorded("cleaned", outcome.dns, outcome.dns)
  <2> DEFINE o == Remembered(outcome, "tailnet", "cleaned")
  <2>1. o \in Outcomes /\ o.resources["tailnet"] = "cleaned" /\ o.dns = outcome.dns
    BY <1>0, <1>3
  <2>2. /\ manifest' \in {manifest, UpsertTailnet(manifest, "cleaned", outcome.dns)}
        /\ outcome' \in {o, [o EXCEPT !.benchmark = TRUE],
                         [o EXCEPT !.cleanup = TRUE]}
        /\ UNCHANGED <<cfg, tailnets, tailnetDNS>>
    BY <1>8 DEF RecordTailnetCleaned, Saved, SaveFails, external
  <2> HIDE DEF o
  <2> QED BY <1>0, <1>4, <2>1, <2>2
<1> QED BY <1>5, <1>6, <1>7, <1>8

\* Creating, joining, recording and deleting the tailnet keep its record true,
\* and never reach the joined one.
LEMMA TailnetSteps ==
    ASSUME LifecycleInvariant, TailnetStep
    PROVE  OnlyOwnTailnet' /\ TailnetRecordIsTrue'
<1> USE DEF OnlyOwnTailnet, TailnetRecordIsTrue, JoinedTailnetSurvives, Gone
<1>0. /\ OnlyOwnTailnet /\ TailnetRecordIsTrue /\ TypeOK
      /\ pc = "execute" => outcome = NoOutcome
      /\ tailnets \in [Tailnets -> TailnetState] /\ outcome \in Outcomes
      /\ tailnetDNS \in Tailnets \cup {NoTailnet}
      /\ manifest.dns \in Tailnets \cup {NoTailnet}
      /\ outcome.dns \in Tailnets \cup {NoTailnet}
      /\ JoinedTailnet \in Tailnets /\ NoTailnet \notin Tailnets
  BY JoinedAssumption, TailnetAssumption DEF LifecycleInvariant,
     CommandMatchesStep, TypeOK, Manifest, Outcomes
<1>1. NoOutcome.dns = NoTailnet
  BY DEF NoOutcome
<1>2. CASE RecordTailnetIntent
  <2>1. TailnetRecorded("creating", NoTailnet, outcome.dns) /\ cfg.createTailnet
        /\ pc = "execute" /\ pc' \in {"create-tailnet", "tailnet-defer"}
    BY <1>0, <1>2, TailnetRecordEffects DEF RecordTailnetIntent
  <2> QED BY <1>0, <1>1, <2>1 DEF TailnetRecorded
<1>3. CASE RecordTailnetCreated
  <2>1. TailnetRecorded("created", tailnetDNS, tailnetDNS) /\ cfg.createTailnet
        /\ pc' \in {"join-tailnet", "tailnet-defer"}
    BY <1>0, <1>3, TailnetRecordEffects DEF RecordTailnetCreated
  <2> QED BY <1>0, <2>1 DEF TailnetRecorded
<1>4. CASE RecordTailnetCleaning
  <2>1. TailnetRecorded("cleaning", outcome.dns, outcome.dns)
        /\ cfg.createTailnet /\ pc' = "delete-tailnet"
    BY <1>0, <1>4, TailnetRecordEffects
       DEF RecordTailnetCleaning, DeletesTailnet
  <2> QED BY <1>0, <2>1 DEF TailnetRecorded
<1>5. CASE RecordTailnetCleaned
  <2>1. TailnetRecorded("cleaned", outcome.dns, outcome.dns)
        /\ cfg.createTailnet /\ pc' = "finish" /\ Gone(outcome.dns)
    BY <1>0, <1>5, TailnetRecordEffects DEF RecordTailnetCleaned
  <2> QED BY <1>0, <2>1 DEF TailnetRecorded
<1>6. CASE UseExistingTailnet
  BY <1>0, <1>1, <1>6 DEF UseExistingTailnet, external
<1>7. CASE CreateTailnet
  <2>1. /\ UNCHANGED <<cfg, manifest>> /\ cfg.createTailnet
        /\ outcome.dns = NoTailnet /\ outcome'.dns = outcome.dns
        /\ outcome'.resources = outcome.resources
        /\ pc' \in {"record-tailnet", "tailnet-defer"}
    <3>1. \A i \in BOOLEAN : /\ BenchmarkFails(i).dns = outcome.dns
                             /\ BenchmarkFails(i).resources = outcome.resources
      BY <1>0, FailsType, FailsFields
    <3>2. /\ outcome'.dns = outcome.dns
          /\ outcome'.resources = outcome.resources
          /\ pc' \in {"record-tailnet", "tailnet-defer"}
      BY <1>7, <3>1 DEF CreateTailnet
    <3>3. UNCHANGED <<cfg, manifest>> /\ pc = "create-tailnet"
      BY <1>7 DEF CreateTailnet
    <3> QED BY <1>0, <3>2, <3>3
  <2>2. \/ UNCHANGED tailnets
        \/ \E d \in Tailnets : /\ tailnets[d] = "unused"
                               /\ tailnets' = [tailnets EXCEPT ![d] = "live"]
    BY <1>7 DEF CreateTailnet, Fresh
  <2>3. /\ tailnets'[JoinedTailnet] = "live"
        /\ \A d \in Tailnets : tailnets[d] = "deleted"
                                => tailnets'[d] = "deleted"
    BY <1>0, <2>2
  <2>4. tailnetDNS' # JoinedTailnet
    BY <1>0, <1>7 DEF CreateTailnet, Fresh
  <2> QED BY <1>0, <2>1, <2>3, <2>4
<1>8. CASE DeleteOwnTailnet
  <2>1. /\ UNCHANGED <<cfg, manifest, tailnetDNS>> /\ cfg.createTailnet
        /\ outcome'.dns = outcome.dns
        /\ outcome'.resources = outcome.resources
        /\ pc' \in {"record-tailnet-gone", "finish"}
    BY <1>0, <1>8, FailsType, FailsFields DEF DeleteOwnTailnet
  <2>2. /\ tailnets' \in {tailnets, [tailnets EXCEPT ![tailnetDNS] = "deleted"]}
        /\ pc' = "record-tailnet-gone"
            => tailnets' = [tailnets EXCEPT ![tailnetDNS] = "deleted"]
    BY <1>8 DEF DeleteOwnTailnet, DeleteTailnet
  <2>3. /\ tailnets'[JoinedTailnet] = "live"
        /\ \A d \in Tailnets : tailnets[d] = "deleted"
                                => tailnets'[d] = "deleted"
    BY <1>0, <2>1, <2>2
  <2>4. pc' = "record-tailnet-gone" => Gone(tailnetDNS)'
    BY <1>0, <2>1, <2>2
  <2> QED BY <1>0, <2>1, <2>3, <2>4
<1> QED BY <1>2, <1>3, <1>4, <1>5, <1>6, <1>7, <1>8 DEF TailnetStep

\* Opening, measuring and closing one work item keeps the work accounted for.
LEMMA ModeSteps ==
    ASSUME LifecycleInvariant, ModeStep
    PROVE  WorkIsAccounted'
<1>0. /\ WorkIsAccounted /\ TypeOK /\ outcome \in Outcomes
      /\ manifest \in Manifest /\ manifest.work \in [Work -> WorkStatus]
  BY DEF LifecycleInvariant, TypeOK, Manifest
<1>1. Framed
  BY <1>0, ModeFrame
<1>2. /\ pc' \notin CleanupLabels /\ Executing /\ Executing'
      /\ manifest'.status = "running" /\ results \subseteq results'
      /\ outcome.benchmark => outcome'.benchmark
  BY <1>1 DEF LifecycleInvariant, StatusMatchesProcess, Framed, Executing
<1>3. SucceededRunIsComplete'
  BY <1>2 DEF SucceededRunIsComplete
<1>4. \A w \in Work : /\ manifest.work[w] \notin {"cleanup-pending", "cleaned"}
                      /\ manifest.work[w] = "succeeded" => w \in results
  BY <1>0, <1>2 DEF WorkIsAccounted
<1>5. CASE RunMode \/ WriteResult
  <2>1. /\ manifest'.work = manifest.work /\ Current' = Current
        /\ pc \in {"run-mode", "write-result"}
        /\ pc' \in {"write-result", "succeed-mode", "fail-mode"}
    BY <1>5 DEF RunMode, WriteResult, Current
  <2>2. pc' = "fail-mode" => outcome'.benchmark = TRUE
    BY <1>0, <1>5, FailsFields DEF RunMode, WriteResult
  <2>3. pc' = "succeed-mode" => Current \in results
    BY <1>0, <1>5 DEF RunMode, WriteResult, TypeOK
  <2>4. manifest.work[Current] = "running"
    BY <1>0, <2>1 DEF WorkIsAccounted, ModeLabels
  <2> QED BY <1>0, <1>2, <1>3, <1>4, <2>1, <2>2, <2>3, <2>4
          DEF WorkIsAccounted, ModeLabels
<1>6. CASE FinishMode
  <2>1. /\ Current \in Work /\ pc \in ModeLabels /\ pc' = "modes"
        /\ UNCHANGED results
    BY <1>0, <1>6 DEF FinishMode, TypeOK, ModeLabels, files
  <2> DEFINE status == IF pc = "succeed-mode" THEN "succeeded" ELSE "failed"
  <2>2. /\ status \in WorkStatus
        /\ \/ manifest' = SetWork(manifest, Current, status)
              /\ UNCHANGED outcome
           \/ /\ manifest' \in {manifest, SetWork(manifest, Current, status)}
              /\ outcome' = BenchmarkFails(FALSE)
    BY <1>6 DEF FinishMode, Saved, SaveFails, WorkStatus
  <2>3. /\ status = "succeeded" => Current \in results
        /\ status # "succeeded" => status = "failed" /\ outcome.benchmark
    BY <1>0, <1>6 DEF FinishMode, WorkIsAccounted
  <2> HIDE DEF status
  <2>4. \/ /\ manifest'.work = [manifest.work EXCEPT ![Current] = status]
           /\ UNCHANGED outcome
        \/ /\ manifest'.work \in {manifest.work,
                                  [manifest.work EXCEPT ![Current] = status]}
           /\ outcome'.benchmark
    <3>1. SetWork(manifest, Current, status).work
            = [manifest.work EXCEPT ![Current] = status]
      BY <1>0, <2>1, <2>2, SetWorkFields
    <3>2. BenchmarkFails(FALSE).benchmark
      BY <1>0, FailsFields
    <3> QED BY <2>2, <3>1, <3>2
  <2>5. \A w \in Work : w # Current => manifest'.work[w] = manifest.work[w]
    BY <1>0, <2>4
  <2>6. manifest'.work[Current] \in {manifest.work[Current], status}
    BY <1>0, <2>1, <2>4
  <2>7. ~outcome'.benchmark => /\ ~outcome.benchmark
                               /\ manifest'.work[Current] = "succeeded"
    BY <1>0, <1>2, <2>1, <2>3, <2>4
  <2>8. \A w \in Work : /\ manifest'.work[w] \notin {"cleanup-pending", "cleaned"}
                        /\ manifest'.work[w] = "succeeded" => w \in results
    BY <1>4, <2>1, <2>3, <2>5, <2>6
  <2>9. ~outcome'.benchmark =>
            \A w \in Work : manifest'.work[w] \in
                                {"pending", "succeeded", "skipped"}
    BY <1>0, <1>2, <2>1, <2>5, <2>7 DEF WorkIsAccounted
  <2> QED BY <1>2, <1>3, <2>1, <2>8, <2>9 DEF WorkIsAccounted, ModeLabels
<1>7. ASSUME NEW m \in Modes, StartMode(m)
      PROVE  WorkIsAccounted'
  <2> DEFINE w0 == <<loop.inst, m>>
  <2>1. /\ loop'.inst = loop.inst /\ loop'.mode = m /\ pc = "modes"
        /\ w0 \notin results /\ UNCHANGED results
    BY <1>0, <1>7 DEF StartMode, TypeOK, Loops, files
  <2>2. \/ /\ w0 \in Work /\ pc' = "run-mode" /\ UNCHANGED outcome
           /\ manifest' = SetWork(manifest, w0, "running")
        \/ /\ pc' = "modes" /\ outcome' = BenchmarkFails(FALSE)
           /\ \/ UNCHANGED manifest
              \/ w0 \in Work /\ manifest' = SetWork(manifest, w0, "running")
    BY <1>7 DEF StartMode, Saved, SaveFails
  <2>3. Current' = w0
    BY <2>1 DEF Current
  <2> HIDE DEF w0
  <2>4. \/ /\ w0 \in Work /\ pc' = "run-mode" /\ UNCHANGED outcome
           /\ manifest'.work = [manifest.work EXCEPT ![w0] = "running"]
        \/ /\ pc' = "modes" /\ outcome'.benchmark
           /\ \/ manifest'.work = manifest.work
              \/ /\ w0 \in Work
                 /\ manifest'.work = [manifest.work EXCEPT ![w0] = "running"]
    <3>1. w0 \in Work => SetWork(manifest, w0, "running").work
                            = [manifest.work EXCEPT ![w0] = "running"]
      BY <1>0, SetWorkFields DEF WorkStatus
    <3>2. BenchmarkFails(FALSE).benchmark
      BY <1>0, FailsFields
    <3> QED BY <2>2, <3>1, <3>2
  <2>5. \A w \in Work :
            /\ w # w0 => manifest'.work[w] = manifest.work[w]
            /\ manifest'.work[w] \in {manifest.work[w], "running"}
    BY <1>0, <2>4
  <2>6. \A w \in Work : /\ manifest'.work[w] \notin {"cleanup-pending", "cleaned"}
                        /\ manifest'.work[w] = "succeeded" => w \in results
    BY <1>4, <2>5
  <2>7. pc' = "run-mode" => manifest'.work[w0] = "running"
    BY <1>0, <2>4
  <2>8. ~outcome'.benchmark => ~outcome.benchmark /\ pc' = "run-mode"
    BY <2>4
  <2>9. ~outcome'.benchmark => \A w \in Work :
            \/ manifest'.work[w] \in {"pending", "succeeded", "skipped"}
            \/ w = w0
    BY <1>0, <1>2, <2>1, <2>5, <2>8 DEF WorkIsAccounted, ModeLabels
  <2>10. pc' \in {"run-mode", "modes"}
    BY <2>4
  <2> QED BY <1>2, <1>3, <2>1, <2>3, <2>6, <2>7, <2>8, <2>9, <2>10
          DEF WorkIsAccounted, ModeLabels
<1> QED BY <1>5, <1>6, <1>7 DEF ModeStep

\* The policy has been asked whenever a teardown step is next.
LEMMA PolicySteps ==
    ASSUME LifecycleInvariant, Execute
    PROVE  PolicyIsAsked'
<1>0. TypeOK /\ outcome \in Outcomes
  BY DEF LifecycleInvariant, TypeOK
<1>1. UNCHANGED cfg
  BY <1>0, ExecuteFrame DEF Framed
<1>2. ASSUME NEW r \in ResourceIDs, NEW status \in ResourceStatus,
             outcome' \in {Remembered(outcome, r, status),
                [Remembered(outcome, r, status) EXCEPT !.cleanup = TRUE]}
      PROVE  outcome'.benchmark = outcome.benchmark
  <2> DEFINE o == Remembered(outcome, r, status)
  <2>1. o \in Outcomes /\ o.benchmark = outcome.benchmark
    BY <1>0, RememberedType, RememberedFields
  <2>2. outcome' \in {o, [o EXCEPT !.cleanup = TRUE]}
    BY <1>2
  <2> HIDE DEF o
  <2> QED BY <2>1, <2>2, FailuresFields
<1>3. {"networking", "tailnet"} \subseteq ResourceIDs
      /\ "cleaning" \in ResourceStatus
  BY StackIDs DEF ResourceStatus
<1>4. CASE RecordNetworkingCleaning
  BY <1>1, <1>2, <1>3, <1>4 DEF RecordNetworkingCleaning, TearsDownNetworking,
     PolicyIsAsked
<1>5. CASE RecordTailnetCleaning
  BY <1>1, <1>2, <1>3, <1>5 DEF RecordTailnetCleaning, DeletesTailnet,
     PolicyIsAsked
<1>6. CASE PlainStep \/ ModeStep
  <2>1. pc' \notin {"teardown-networking", "delete-tailnet"}
    BY <1>6 DEF PlainStep, ModeStep, PrepareFails, JoinTailnet,
       SetupNetworking, LookUpNetworking, ListInstances, InstanceInterrupted,
       SkipInstance, PreCleanup, CreatePair, AbandonPair, StartBenchmark,
       EndModes, SkipMode, KeepPair, DestroyPair, RefreshAuthKey, Aggregate,
       KeepNetworking, TeardownNetworking, CloseTsnet, KeepTailnet, RunMode,
       WriteResult, FinishMode, StartMode
  <2> QED BY <2>1 DEF PolicyIsAsked
<1>7. CASE \/ StackRecordStep /\ ~RecordNetworkingCleaning
           \/ TailnetStep /\ ~RecordTailnetCleaning
  <2>1. pc' \notin {"teardown-networking", "delete-tailnet"}
    BY <1>7 DEF StackRecordStep, TailnetStep, RecordNetworkingIntent,
       RecordNetworkingCreated, RecordNetworkingCleaned,
       RecordTopologyIntent, RecordPairCreated, RecordPairCleaning,
       RecordPairCleaned, RecordTailnetIntent, CreateTailnet,
       RecordTailnetCreated, UseExistingTailnet, DeleteOwnTailnet,
       RecordTailnetCleaned
  <2> QED BY <2>1 DEF PolicyIsAsked
<1> QED BY <1>4, <1>5, <1>6, <1>7, ExecuteKinds

\* What a first run holds while it may clean up and has had no cleanup error.
Sweeping ==
    /\ cmd = "run" /\ ~outcome.cleanup
    /\ ShouldCleanup(cfg.policy, outcome.benchmark)

\* Errors are never taken back, so a run that is sweeping has always been.
LEMMA SweepingBefore ==
    ASSUME Framed, Sweeping'
    PROVE  Sweeping
BY DEF Framed, Sweeping, ShouldCleanup

\* A step that only loses stacks and stays within its phase.
LEMMA SweepKept ==
    ASSUME LifecycleInvariant, Framed, live' \subseteq live,
           loop'.inst = loop.inst, pc' # "setup-networking",
           pc \in HoldingLabels => pc' \in HoldingLabels,
           pc' \in BareLabels => pc \in BareLabels
    PROVE  FirstRunSweeps'
<1>1. FirstRunSweeps /\ UNCHANGED cfg
  BY DEF LifecycleInvariant, Framed
<1>2. Sweeping' => Sweeping
  BY SweepingBefore
<1> QED BY <1>1, <1>2 DEF FirstRunSweeps, UnmanagedHasNoStack, Sweeping

\* The steps of the tailnet and of the modes, and most of the records.
LEMMA SweepOtherSteps ==
    ASSUME LifecycleInvariant,
           \/ TailnetStep \/ ModeStep
           \/ StackRecordStep /\ ~RecordNetworkingIntent /\ ~RecordPairCleaning
    PROVE  FirstRunSweeps'
<1> USE DEF HoldingLabels, ModeLabels, BareLabels, external
<1> DEFINE Phase == /\ live' \subseteq live /\ loop'.inst = loop.inst
                    /\ pc' # "setup-networking"
                    /\ pc \in HoldingLabels => pc' \in HoldingLabels
                    /\ pc' \in BareLabels => pc \in BareLabels
<1>0. TypeOK /\ loop \in Loops
  BY DEF LifecycleInvariant, TypeOK
<1>1. Framed
  BY <1>0, TailnetFrame, ModeFrame, StackRecordFrame
<1>2. ASSUME TailnetStep PROVE Phase
  BY <1>2 DEF TailnetStep, RecordTailnetIntent, CreateTailnet,
     RecordTailnetCreated, UseExistingTailnet, RecordTailnetCleaning,
     DeleteOwnTailnet, RecordTailnetCleaned
<1>3. ASSUME RunMode \/ WriteResult \/ FinishMode PROVE Phase
  BY <1>3 DEF RunMode, WriteResult, FinishMode
<1>4. ASSUME NEW m \in Modes, StartMode(m) PROVE Phase
  BY <1>0, <1>4 DEF StartMode, Loops
<1>5. ASSUME StackRecordStep, ~RecordNetworkingIntent, ~RecordPairCleaning
      PROVE  Phase
  BY <1>5 DEF StackRecordStep, RecordNetworkingCreated,
     RecordNetworkingCleaning, RecordNetworkingCleaned, RecordTopologyIntent,
     RecordPairCreated, RecordPairCleaned
<1>6. Phase
  BY <1>2, <1>3, <1>4, <1>5 DEF ModeStep
<1> QED BY <1>1, <1>6, SweepKept

\* The steps that create, destroy or decide to keep a stack, and the rest of
\* the orchestrator's quiet steps.
LEMMA SweepStackSteps ==
    ASSUME LifecycleInvariant,
           PlainStep \/ RecordNetworkingIntent \/ RecordPairCleaning
    PROVE  FirstRunSweeps'
<1> USE DEF HoldingLabels, ModeLabels, BareLabels, external
<1> DEFINE Phase == /\ live' \subseteq live /\ loop'.inst = loop.inst
                    /\ pc' # "setup-networking"
                    /\ pc \in HoldingLabels => pc' \in HoldingLabels
                    /\ pc' \in BareLabels => pc \in BareLabels
<1>0. TypeOK /\ loop \in Loops /\ outcome \in Outcomes /\ FirstRunSweeps
      /\ live \subseteq Stacks
  BY DEF LifecycleInvariant, TypeOK
<1>1. Framed
  BY <1>0, PlainFrame, StackRecordFrame DEF StackRecordStep
<1>2. (Sweeping' => Sweeping) /\ UNCHANGED <<cfg, cmd>>
  BY <1>1, SweepingBefore DEF Framed
<1>3. Sweeping => /\ live \subseteq {"networking", loop.inst}
                  /\ pc \notin HoldingLabels => live \subseteq {"networking"}
                  /\ pc \in BareLabels => live = {}
  BY <1>0 DEF FirstRunSweeps, Sweeping
<1>4. ASSUME /\ ~cfg.managed => "networking" \notin live'
             /\ pc' = "setup-networking" => cfg.managed
             /\ Sweeping' =>
                /\ live' \subseteq {"networking", loop'.inst}
                /\ pc' \notin HoldingLabels => live' \subseteq {"networking"}
                /\ pc' \in BareLabels => live' = {}
      PROVE  FirstRunSweeps'
  BY <1>2, <1>4 DEF FirstRunSweeps, UnmanagedHasNoStack, Sweeping
<1>5. ~cfg.managed => "networking" \notin live
  BY <1>0 DEF FirstRunSweeps, UnmanagedHasNoStack
<1>6. CASE \/ PrepareFails \/ JoinTailnet \/ LookUpNetworking \/ ListInstances
           \/ InstanceInterrupted \/ StartBenchmark \/ EndModes
           \/ RefreshAuthKey \/ Aggregate \/ CloseTsnet \/ KeepTailnet
           \/ \E t \in InstanceTypes : SkipInstance(t)
           \/ \E m \in Modes : SkipMode(m)
  <2>1. Phase
    BY <1>0, <1>6 DEF PrepareFails, JoinTailnet, LookUpNetworking,
       ListInstances, InstanceInterrupted, StartBenchmark, EndModes,
       RefreshAuthKey, Aggregate, CloseTsnet, KeepTailnet, SkipInstance,
       SkipMode, Loops
  <2> QED BY <1>1, <2>1, SweepKept
<1>7. CASE RecordNetworkingIntent
  BY <1>2, <1>3, <1>4, <1>5, <1>7 DEF RecordNetworkingIntent
<1>8. CASE SetupNetworking
  <2>1. live' \subseteq live \cup {"networking"} /\ UNCHANGED loop
        /\ pc = "setup-networking"
        /\ pc' \in {"record-networking", "networking-defer"}
    BY <1>8 DEF SetupNetworking, CreateSucceeds, CreateFails
  <2>2. cfg.managed
    BY <1>0, <2>1 DEF FirstRunSweeps
  <2> QED BY <1>2, <1>3, <1>4, <2>1, <2>2
<1>9. CASE \E t \in InstanceTypes : PreCleanup(t)
  <2>1. live' \subseteq live /\ pc = "instances" /\ pc' = "record-topology"
    BY <1>9 DEF PreCleanup, DestroySucceeds, DestroyFails
  <2> QED BY <1>2, <1>3, <1>4, <1>5, <2>1
<1>10. CASE CreatePair
  <2>1. /\ live' \subseteq live \cup {loop.inst} /\ loop'.inst = loop.inst
        /\ pc = "create-pair" /\ pc' \in {"record-pair", "abandon-pair"}
    BY <1>0, <1>10 DEF CreatePair, CreateSucceeds, CreateFails, Loops
  <2>2. loop.inst # "networking"
    BY <1>0, <2>1, StackIDs DEF TypeOK, PairLabels
  <2> QED BY <1>2, <1>3, <1>4, <1>5, <2>1, <2>2
<1>11. CASE AbandonPair
  <2>1. /\ live' \subseteq live /\ pc' = "instances" /\ UNCHANGED loop
        /\ live' = live \ {loop.inst} \/ outcome'.cleanup = TRUE
    BY <1>0, <1>11, FailsType DEF AbandonPair, DestroySucceeds, DestroyFails
  <2>2. Sweeping' => live' = live \ {loop.inst}
    BY <2>1 DEF Sweeping
  <2> QED BY <1>2, <1>3, <1>4, <1>5, <2>1, <2>2
<1>12. CASE DestroyPair
  <2>1. /\ live' \subseteq live /\ UNCHANGED loop
        /\ pc' \in {"record-destroyed", "refresh-key"}
        /\ live' = live \ {loop.inst} \/ outcome'.cleanup = TRUE
    BY <1>0, <1>12, FailsType DEF DestroyPair, DestroySucceeds, DestroyFails
  <2>2. Sweeping' => live' = live \ {loop.inst}
    BY <2>1 DEF Sweeping
  <2> QED BY <1>2, <1>3, <1>4, <1>5, <2>1, <2>2
<1>13. CASE KeepPair
  <2>1. /\ UNCHANGED <<live, outcome>> /\ pc' = "refresh-key"
        /\ ~ShouldCleanup(cfg.policy, outcome.benchmark)
    BY <1>13 DEF KeepPair
  <2>2. ~Sweeping'
    BY <1>2, <2>1 DEF Sweeping
  <2> QED BY <1>4, <1>5, <2>1, <2>2
<1>14. CASE RecordPairCleaning
  <2>1. /\ UNCHANGED <<live, loop>> /\ pc = "pair-done"
        /\ \/ pc' = "destroy-pair"
           \/ /\ pc' = "instances"
              /\ outcome' = [Remembered(outcome, loop.inst, "cleaning")
                                EXCEPT !.cleanup = TRUE]
    BY <1>14 DEF RecordPairCleaning
  <2>2. Remembered(outcome, loop.inst, "cleaning") \in Outcomes
    BY <1>0, <2>1, StackIDs, RememberedType
       DEF TypeOK, PairLabels, ResourceStatus
  <2>3. [Remembered(outcome, loop.inst, "cleaning")
            EXCEPT !.cleanup = TRUE].cleanup
    BY <2>2, FailuresFields
  <2>4. Sweeping' => pc' = "destroy-pair"
    BY <2>1, <2>3 DEF Sweeping
  <2> QED BY <1>2, <1>3, <1>4, <1>5, <2>1, <2>4
<1>15. CASE KeepNetworking
  <2>1. /\ UNCHANGED <<live, outcome>> /\ pc' = "provider-return"
        /\ ~TearsDownNetworking /\ pc = "networking-defer"
    BY <1>15 DEF KeepNetworking
  <2>2. Sweeping' => ~cfg.managed
    BY <1>2, <2>1 DEF Sweeping, TearsDownNetworking, CleanupNetworking,
       ShouldCleanup
  <2> QED BY <1>2, <1>3, <1>4, <1>5, <2>1, <2>2
<1>16. CASE TeardownNetworking
  <2>1. /\ live' \subseteq live /\ pc = "teardown-networking"
        /\ pc' \in {"record-torn-down", "provider-return"}
        /\ live' = live \ {"networking"} \/ outcome'.cleanup = TRUE
    BY <1>0, <1>16, FailsType DEF TeardownNetworking, DestroyFails
  <2>2. Sweeping' => live' = live \ {"networking"}
    BY <2>1 DEF Sweeping
  <2> QED BY <1>2, <1>3, <1>4, <1>5, <2>1, <2>2
<1> QED BY <1>6, <1>7, <1>8, <1>9, <1>10, <1>11, <1>12, <1>13, <1>14, <1>15,
           <1>16 DEF PlainStep

\* Every step of the orchestrator preserves the invariant.
LEMMA ExecuteSteps ==
    ASSUME LifecycleInvariant, TypeOK', Execute
    PROVE  LifecycleInvariant'
<1>1. TypeOK
  BY DEF LifecycleInvariant
<1>2. CommandMatchesStep' /\ StatusMatchesProcess' /\ UncleanIsFlagged'
  BY <1>1, ExecuteFrame, FramedStatus
<1>3. OnlyOwnTailnet' /\ TailnetRecordIsTrue'
  BY <1>1, ExecuteFrame, TailnetKeptParts, TailnetSteps
<1>4. WorkIsAccounted'
  BY <1>1, ExecuteFrame, WorkKeptParts, ModeSteps
<1>5. PolicyIsAsked'
  BY PolicySteps
<1>6. FirstRunSweeps'
  BY ExecuteKinds, SweepOtherSteps, SweepStackSteps
<1> QED BY <1>2, <1>3, <1>4, <1>5, <1>6 DEF LifecycleInvariant

-----------------------------------------------------------------------------
\* The ends of the commands.

\* A process that ends leaves nothing in memory; what the manifest then says
\* decides the invariant.
LEMMA AfterProcess ==
    ASSUME LifecycleInvariant, TypeOK', ProcessEnds,
           UNCHANGED <<cfg, live, tailnets, results>>,
           manifest'.status # "absent", manifest'.dns # JoinedTailnet,
           UncleanIsFlagged',
           manifest'.resources["tailnet"] = "none"
                => manifest'.dns = NoTailnet,
           manifest'.resources["tailnet"] = "cleaned" => Gone(manifest'.dns),
           (\E w \in Work : manifest'.work[w] = "cleaned")
                => \A w \in Work : manifest'.work[w] \in {"skipped", "cleaned"},
           SelectedWork(manifest') # {} =>
                \A w \in Work : manifest'.work[w] = "succeeded" => w \in results,
           SucceededRunIsComplete'
    PROVE  LifecycleInvariant'
<1>0. /\ pc' = "idle" /\ cmd' = "none" /\ outcome' = NoOutcome
      /\ tailnetDNS' = NoTailnet
  BY DEF ProcessEnds
<1>1. NoOutcome.dns = NoTailnet /\ NoOutcome.resources["tailnet"] = "none"
  BY StackIDs DEF NoOutcome
<1>2. CommandMatchesStep' /\ StatusMatchesProcess'
  BY <1>0 DEF CommandMatchesStep, StatusMatchesProcess, CleanupLabels
<1>3. OnlyOwnTailnet'
  BY <1>0, <1>1, TailnetAssumption, JoinedAssumption
     DEF LifecycleInvariant, OnlyOwnTailnet, JoinedTailnetSurvives
<1>4. TailnetRecordIsTrue'
  BY <1>0, <1>1 DEF TailnetRecordIsTrue, Gone
<1>5. WorkIsAccounted'
  BY <1>0 DEF WorkIsAccounted, Executing, CleanupLabels, ModeLabels
<1>6. PolicyIsAsked' /\ FirstRunSweeps'
  BY <1>0 DEF PolicyIsAsked, FirstRunSweeps, LifecycleInvariant,
     UnmanagedHasNoStack
<1> QED BY <1>2, <1>3, <1>4, <1>5, <1>6 DEF LifecycleInvariant

\* The end of an execution, with whatever result it hands back.
LEMMA AfterExecution ==
    ASSUME LifecycleInvariant, TypeOK', Executing, ProcessEnds,
           UNCHANGED <<cfg, live, tailnets, results>>,
           NEW result \in Results,
           manifest' = ApplyExecutionResult(manifest, result),
           result.benchmark = "succeeded" => \A w \in Work :
                manifest.work[w] \in {"pending", "succeeded", "skipped"},
           result.dns # JoinedTailnet,
           result.resources["tailnet"] = "cleaned" => Gone(result.dns)
    PROVE  LifecycleInvariant'
<1>0. /\ manifest \in Manifest /\ manifest.work \in [Work -> WorkStatus]
      /\ OnlyOwnTailnet /\ TailnetRecordIsTrue /\ WorkIsAccounted
  BY DEF LifecycleInvariant, TypeOK, Manifest
<1>1. manifest'.resources = [r \in ResourceIDs |->
            IF result.resources[r] = "none" THEN manifest.resources[r]
            ELSE result.resources[r]]
  BY <1>0, ApplyExecutionResultType
<1>2. /\ manifest'.status = ExecutionStatus(result)
      /\ manifest'.work = FinalizeWork(manifest.work, result.benchmark)
      /\ manifest'.dns = IF result.resources["tailnet"] = "none"
                         THEN manifest.dns ELSE result.dns
      /\ HasUncleanResources(manifest') => manifest'.recoverable
  BY <1>0, ApplyExecutionResultFields
<1>3. /\ manifest'.status \in {"interrupted", "partial", "succeeded", "failed"}
      /\ manifest'.status = "succeeded" => result.benchmark = "succeeded"
  BY <1>2 DEF ExecutionStatus
<1>4. UncleanIsFlagged'
  BY <1>2, <1>3 DEF UncleanIsFlagged
<1>5. /\ manifest'.dns # JoinedTailnet
      /\ manifest'.resources["tailnet"] = "none" => manifest'.dns = NoTailnet
      /\ manifest'.resources["tailnet"] = "cleaned" => Gone(manifest'.dns)
  BY <1>0, <1>1, <1>2, StackIDs DEF OnlyOwnTailnet, TailnetRecordIsTrue
<1>6. \A w \in Work :
        /\ manifest.work[w] \notin {"cleanup-pending", "cleaned"}
        /\ manifest.work[w] = "succeeded" => w \in results
  BY <1>0 DEF WorkIsAccounted
<1>7. \A w \in Work :
        manifest'.work[w] =
            IF manifest.work[w] = "running" THEN "failed"
            ELSE IF manifest.work[w] = "pending"
                    /\ result.benchmark = "succeeded" THEN "succeeded"
            ELSE manifest.work[w]
  BY <1>2 DEF FinalizeWork
<1>8. \A w \in Work : manifest'.work[w] # "cleaned"
  BY <1>6, <1>7
<1>9. result.benchmark = "succeeded" =>
        \A w \in Work : manifest'.work[w] \in {"succeeded", "skipped"}
  BY <1>7
<1>10. result.benchmark # "succeeded" =>
        \A w \in Work : manifest'.work[w] = "succeeded" => w \in results
  BY <1>6, <1>7
<1>11. SelectedWork(manifest') # {} =>
        \A w \in Work : manifest'.work[w] = "succeeded" => w \in results
  BY <1>9, <1>10 DEF SelectedWork
<1>12. SucceededRunIsComplete'
  BY <1>3, <1>9 DEF SucceededRunIsComplete
<1> QED BY <1>3, <1>4, <1>5, <1>8, <1>11, <1>12, AfterProcess

\* run, resume and cleanup end, or the process dies.
LEMMA LifecycleEnds ==
    ASSUME LifecycleInvariant, TypeOK',
           ExecuteFailsEarly \/ FinishExecution \/ EndCleanup \/ Crash
    PROVE  LifecycleInvariant'
<1>0. /\ TypeOK /\ manifest \in Manifest /\ outcome \in Outcomes
      /\ manifest.work \in [Work -> WorkStatus]
      /\ manifest.resources \in [ResourceIDs -> ResourceStatus]
      /\ CommandMatchesStep /\ StatusMatchesProcess /\ UncleanIsFlagged
      /\ OnlyOwnTailnet /\ TailnetRecordIsTrue /\ WorkIsAccounted
  BY DEF LifecycleInvariant, TypeOK, Manifest, Inventory
<1>1. ProcessEnds /\ UNCHANGED <<cfg, live, tailnets, results>>
  BY DEF ExecuteFailsEarly, FinishExecution, EndCleanup, Crash, external,
     files
<1>2. CASE ExecuteFailsEarly
  <2>1. PICK c \in {"pending", "skipped"} :
            manifest' = ApplyExecutionResult(manifest,
                [benchmark |-> "failed", cleanup |-> c, interrupted |-> FALSE,
                 resources |-> NoOutcome.resources, dns |-> NoTailnet])
    BY <1>2 DEF ExecuteFailsEarly
  <2> DEFINE result ==
                [benchmark |-> "failed", cleanup |-> c, interrupted |-> FALSE,
                 resources |-> NoOutcome.resources, dns |-> NoTailnet]
  <2>2. /\ result \in Results /\ result.benchmark # "succeeded"
        /\ result.dns # JoinedTailnet
        /\ result.resources["tailnet"] # "cleaned"
    BY EmptyMemory, StackIDs, JoinedAssumption, TailnetAssumption
       DEF Results, OutcomeStatus, Outcomes
  <2>3. manifest' = ApplyExecutionResult(manifest, result)
    BY <2>1
  <2>4. Executing
    BY <1>2 DEF ExecuteFailsEarly, Executing, CleanupLabels
  <2> HIDE DEF result
  <2> QED BY <1>1, <2>2, <2>3, <2>4, AfterExecution
<1>3. CASE FinishExecution
  <2>1. /\ ResultOf(outcome) \in Results
        /\ ResultOf(outcome).resources = outcome.resources
    BY <1>0, ResultOfType
  <2>2. /\ ResultOf(outcome).dns = outcome.dns
        /\ ResultOf(outcome).benchmark = "succeeded" => ~outcome.benchmark
    BY DEF ResultOf
  <2>3. Executing /\ pc \notin ModeLabels
        /\ manifest' = ApplyExecutionResult(manifest, ResultOf(outcome))
    BY <1>3 DEF FinishExecution, Executing, CleanupLabels, ModeLabels
  <2>4. ~outcome.benchmark => \A w \in Work :
            manifest.work[w] \in {"pending", "succeeded", "skipped"}
    BY <1>0, <2>3 DEF WorkIsAccounted
  <2>5. /\ outcome.dns # JoinedTailnet
        /\ outcome.resources["tailnet"] = "cleaned" => Gone(outcome.dns)
    BY <1>0 DEF OnlyOwnTailnet, TailnetRecordIsTrue
  <2> QED BY <1>1, <2>1, <2>2, <2>3, <2>4, <2>5, AfterExecution
<1>4. CASE EndCleanup
  <2> DEFINE ok == ~outcome.cleanup
  <2>1. /\ ok \in BOOLEAN /\ manifest' = FinishCleanup(manifest, ok)
        /\ pc = "cleanup-done"
    BY <1>0, <1>4 DEF EndCleanup, Outcomes
  <2>2. ok /\ Unclean(manifest.resources["tailnet"]) => Gone(manifest.dns)
    BY <1>0, <2>1 DEF TailnetRecordIsTrue
  <2> HIDE DEF ok
  <2>3. /\ manifest'.status \in {"cleaned", "partial", "failed"}
        /\ manifest'.status = "cleaned" <=> ok
        /\ manifest'.recoverable = ~ok
        /\ manifest'.dns = manifest.dns
        /\ manifest'.work = [w \in Work |->
                IF ok /\ manifest.work[w] = "cleanup-pending"
                THEN "cleaned" ELSE manifest.work[w]]
        /\ manifest'.resources = [r \in ResourceIDs |->
                IF ~Unclean(manifest.resources[r]) THEN manifest.resources[r]
                ELSE IF ok THEN "cleaned" ELSE "unknown"]
        /\ ok => ~HasUncleanResources(manifest')
    BY <1>0, <2>1, FinishCleanupFields
  <2>4. UncleanIsFlagged'
    BY <2>1, <2>3 DEF UncleanIsFlagged
  <2>5. /\ manifest'.dns # JoinedTailnet
        /\ manifest'.resources["tailnet"] = "none"
            => manifest'.dns = NoTailnet
        /\ manifest'.resources["tailnet"] = "cleaned" => Gone(manifest'.dns)
    BY <1>0, <2>2, <2>3, StackIDs
       DEF OnlyOwnTailnet, TailnetRecordIsTrue, Unclean
  <2>6. \A w \in Work : manifest.work[w] \in
                            {"skipped", "cleanup-pending", "cleaned"}
    BY <1>0, <2>1 DEF WorkIsAccounted, CleanupLabels
  <2>7. \A w \in Work : manifest'.work[w] \in
                            {"skipped", "cleanup-pending", "cleaned"}
    BY <2>3, <2>6
  <2>8. ASSUME NEW w \in Work, manifest'.work[w] = "cleaned"
        PROVE  \A v \in Work : manifest'.work[v] \in {"skipped", "cleaned"}
    <3>1. CASE ok
      BY <2>3, <2>6, <3>1
    <3>2. CASE ~ok
      BY <1>0, <2>3, <2>8, <3>2 DEF WorkIsAccounted
    <3> QED BY <3>1, <3>2
  <2>9. SelectedWork(manifest') = {} /\ SucceededRunIsComplete'
    BY <2>3, <2>7 DEF SelectedWork, SucceededRunIsComplete
  <2> QED BY <1>1, <2>3, <2>4, <2>5, <2>8, <2>9, AfterProcess
<1>5. CASE Crash
  <2>1. pc # "idle" /\ UNCHANGED manifest
    BY <1>0, <1>5 DEF Crash, idle, CommandMatchesStep
  <2>2. manifest.status = "running"
    BY <1>0, <2>1 DEF StatusMatchesProcess
  <2>3. UncleanIsFlagged' /\ SucceededRunIsComplete'
    BY <1>0, <2>1, <2>2 DEF UncleanIsFlagged, SucceededRunIsComplete
  <2>4. SelectedWork(manifest) # {} =>
            \A w \in Work : manifest.work[w] = "succeeded" => w \in results
    BY <1>0 DEF WorkIsAccounted
  <2>5. (\E w \in Work : manifest.work[w] = "cleaned")
            => \A w \in Work : manifest.work[w] \in {"skipped", "cleaned"}
    BY <1>0 DEF WorkIsAccounted
  <2>6. /\ manifest.dns # JoinedTailnet
        /\ manifest.resources["tailnet"] = "none" => manifest.dns = NoTailnet
        /\ manifest.resources["tailnet"] = "cleaned" => Gone(manifest.dns)
    BY <1>0 DEF OnlyOwnTailnet, TailnetRecordIsTrue
  <2> QED BY <1>1, <2>1, <2>2, <2>3, <2>4, <2>5, <2>6, AfterProcess
<1> QED BY <1>2, <1>3, <1>4, <1>5

-----------------------------------------------------------------------------
\* The starts of the commands, and the cleanup command's own steps.

\* The first manifest: no resource, no name, and work skipped or pending.
LEMMA CreatedManifestFields ==
    ASSUME NEW rs
    PROVE  LET c == CreatedManifest(rs)
           IN  /\ c.status = "running" /\ c.cleanup = "pending"
               /\ c.dns = NoTailnet /\ c.resources["tailnet"] = "none"
               /\ \A w \in Work : c.work[w] \in {"pending", "skipped"}
BY StackIDs DEF CreatedManifest, WorkFromPlan

\* run, resume and cleanup write their first manifest.
LEMMA LifecycleStarts ==
    ASSUME LifecycleInvariant, TypeOK', StartRun \/ StartResume \/ StartCleanup
    PROVE  LifecycleInvariant'
<1>0. /\ TypeOK /\ manifest \in Manifest
      /\ manifest.work \in [Work -> WorkStatus]
      /\ manifest.resources \in [ResourceIDs -> ResourceStatus]
      /\ CommandMatchesStep /\ StatusMatchesProcess
      /\ OnlyOwnTailnet /\ TailnetRecordIsTrue /\ WorkIsAccounted
      /\ FirstRunSweeps
  BY DEF LifecycleInvariant, TypeOK, Manifest, Inventory
<1>1. /\ UNCHANGED <<cfg, live, tailnets, results, tailnetDNS>>
      /\ outcome = NoOutcome /\ outcome \in Outcomes
  BY <1>0, EmptyMemory DEF StartRun, StartResume, StartCleanup, Starts, idle,
     CommandMatchesStep, external, files
<1>2. ASSUME outcome'.dns = outcome.dns,
             outcome'.resources = outcome.resources,
             manifest'.dns # JoinedTailnet,
             manifest'.resources["tailnet"] = "none"
                => manifest'.dns = NoTailnet,
             manifest'.resources["tailnet"] = "cleaned" => Gone(manifest'.dns),
             pc' \in {"execute", "cleanup-pairs", "cleanup-done"},
             pc' = "cleanup-done" => outcome'.cleanup
      PROVE  OnlyOwnTailnet' /\ TailnetRecordIsTrue'
  BY <1>0, <1>1, <1>2 DEF OnlyOwnTailnet, TailnetRecordIsTrue,
     JoinedTailnetSurvives, Gone
<1>3. ASSUME manifest'.status = "running" PROVE UncleanIsFlagged'
  BY <1>3 DEF UncleanIsFlagged
<1>4. CASE StartRun
  <2>1. /\ manifest' = CreatedManifest(results) /\ UNCHANGED outcome
        /\ pc' = "execute" /\ cmd' = "run" /\ live = {}
    BY <1>0, <1>4 DEF StartRun, Starts, StatusMatchesProcess
  <2>2. /\ manifest'.status = "running" /\ manifest'.cleanup = "pending"
        /\ manifest'.dns = NoTailnet
        /\ manifest'.resources["tailnet"] = "none"
        /\ \A w \in Work : manifest'.work[w] \in {"pending", "skipped"}
    BY <2>1, CreatedManifestFields
  <2>3. OnlyOwnTailnet' /\ TailnetRecordIsTrue' /\ UncleanIsFlagged'
    BY <1>2, <1>3, <2>1, <2>2, JoinedAssumption, TailnetAssumption
  <2>4. CommandMatchesStep' /\ StatusMatchesProcess' /\ PolicyIsAsked'
    BY <1>1, <2>1, <2>2 DEF CommandMatchesStep, StatusMatchesProcess,
       PolicyIsAsked, CleanupLabels
  <2>5. WorkIsAccounted'
    BY <2>1, <2>2 DEF WorkIsAccounted, SucceededRunIsComplete, CleanupLabels,
       ModeLabels
  <2>6. FirstRunSweeps'
    BY <1>1, <2>1 DEF FirstRunSweeps, UnmanagedHasNoStack
  <2> QED BY <2>3, <2>4, <2>5, <2>6 DEF LifecycleInvariant
<1>5. CASE StartResume
  <2>1. /\ manifest' = BeginResume(manifest) /\ UNCHANGED outcome
        /\ pc' = "execute" /\ cmd' = "resume" /\ SelectedWork(manifest) # {}
    BY <1>5 DEF StartResume, Starts
  <2>2. manifest'.resources = manifest.resources
    BY <1>0, <2>1, BeginResumeType
  <2>3. /\ manifest'.status = "running" /\ manifest'.cleanup = "pending"
        /\ manifest'.dns = manifest.dns
        /\ manifest'.work = [w \in Work |->
                IF w \in UnfinishedWork(manifest) THEN "pending"
                ELSE manifest.work[w]]
    BY <1>0, <2>1, BeginResumeFields
  <2>4. OnlyOwnTailnet' /\ TailnetRecordIsTrue' /\ UncleanIsFlagged'
    BY <1>0, <1>2, <1>3, <2>1, <2>2, <2>3
       DEF OnlyOwnTailnet, TailnetRecordIsTrue
  <2>5. CommandMatchesStep' /\ StatusMatchesProcess' /\ PolicyIsAsked'
    BY <1>1, <2>1, <2>3 DEF CommandMatchesStep, StatusMatchesProcess,
       PolicyIsAsked, CleanupLabels
  <2>6. \A w \in Work : /\ manifest.work[w] # "cleaned"
                        /\ manifest.work[w] = "succeeded" => w \in results
    BY <1>0, <2>1 DEF WorkIsAccounted, SelectedWork
  <2>7. \A w \in Work :
            /\ manifest'.work[w] \in {"pending", "succeeded", "skipped"}
            /\ manifest'.work[w] = "succeeded" => w \in results
    BY <1>0, <2>3, <2>6 DEF UnfinishedWork, WorkStatus
  <2>8. WorkIsAccounted'
    BY <1>1, <2>1, <2>3, <2>7 DEF WorkIsAccounted, SucceededRunIsComplete,
       CleanupLabels, ModeLabels
  <2>9. FirstRunSweeps'
    BY <1>0, <1>1, <2>1 DEF FirstRunSweeps, UnmanagedHasNoStack
  <2> QED BY <2>4, <2>5, <2>8, <2>9 DEF LifecycleInvariant
<1>6. CASE StartCleanup
  <2>1. /\ manifest' = BeginCleanup(manifest) /\ cmd' = "cleanup"
        /\ pc' \in {"cleanup-pairs", "cleanup-done"}
        /\ outcome' \in {outcome, CleanupFails(FALSE)}
        /\ pc' = "cleanup-done" => outcome' = CleanupFails(FALSE)
    BY <1>1, <1>6 DEF StartCleanup
  <2>2. /\ outcome'.dns = outcome.dns
        /\ outcome'.resources = outcome.resources
        /\ pc' = "cleanup-done" => outcome'.cleanup
    BY <1>1, <2>1, FailsType, FailsFields
  <2>3. /\ manifest'.status = "running" /\ manifest'.cleanup = "pending"
        /\ manifest'.dns = manifest.dns
        /\ manifest'.work = [w \in Work |->
                IF manifest.work[w] \in {"skipped", "cleaned"}
                THEN manifest.work[w] ELSE "cleanup-pending"]
        /\ manifest'.resources = [r \in ResourceIDs |->
                IF Unclean(manifest.resources[r]) THEN "cleaning"
                ELSE manifest.resources[r]]
    BY <1>0, <2>1, BeginCleanupFields
  <2>4. OnlyOwnTailnet' /\ TailnetRecordIsTrue' /\ UncleanIsFlagged'
    BY <1>0, <1>2, <1>3, <2>1, <2>2, <2>3, StackIDs
       DEF OnlyOwnTailnet, TailnetRecordIsTrue
  <2>5. CommandMatchesStep' /\ StatusMatchesProcess' /\ PolicyIsAsked'
    BY <2>1, <2>3 DEF CommandMatchesStep, StatusMatchesProcess,
       PolicyIsAsked, CleanupLabels
  <2>6. \A w \in Work : manifest'.work[w] \in
                            {"skipped", "cleanup-pending", "cleaned"}
    BY <2>3
  <2>7. (\E w \in Work : manifest'.work[w] = "cleaned")
            => \A w \in Work : manifest'.work[w] \in {"skipped", "cleaned"}
    BY <1>0, <2>3 DEF WorkIsAccounted
  <2>8. WorkIsAccounted'
    BY <2>1, <2>3, <2>6, <2>7 DEF WorkIsAccounted, SucceededRunIsComplete,
       CleanupLabels, ModeLabels, Executing
  <2>9. FirstRunSweeps'
    BY <1>0, <1>1, <2>1 DEF FirstRunSweeps, UnmanagedHasNoStack
  <2> QED BY <2>4, <2>5, <2>8, <2>9 DEF LifecycleInvariant
<1> QED BY <1>4, <1>5, <1>6

\* The cleanup command's sweep and a cancelled context.
LEMMA LifecycleCleanup ==
    ASSUME LifecycleInvariant, TypeOK',
           \/ \E t \in InstanceTypes : CleanupPair(t)
           \/ CleanupNetwork \/ CleanupTailnet
    PROVE  LifecycleInvariant'
<1>0. /\ TypeOK /\ manifest \in Manifest /\ outcome \in Outcomes
      /\ tailnets \in [Tailnets -> TailnetState]
      /\ manifest.dns \in Tailnets \cup {NoTailnet}
      /\ outcome.dns \in Tailnets \cup {NoTailnet}
      /\ CommandMatchesStep /\ StatusMatchesProcess
      /\ OnlyOwnTailnet /\ TailnetRecordIsTrue /\ WorkIsAccounted
      /\ FirstRunSweeps
  BY DEF LifecycleInvariant, TypeOK, Manifest, Outcomes
<1>1. /\ UNCHANGED <<cfg, manifest, cmd, results, tailnetDNS>>
      /\ live' \subseteq live
      /\ pc \in CleanupLabels
      /\ pc' \in {"cleanup-pairs", "cleanup-tailnet", "cleanup-done"}
  BY DEF CleanupPair, CleanupNetwork, CleanupTailnet, DestroySucceeds,
     DestroyFails, CleanupLabels, files
<1>2. outcome'.dns = outcome.dns /\ outcome'.resources = outcome.resources
  BY <1>0, FailsType, FailsFields
     DEF CleanupPair, CleanupNetwork, CleanupTailnet
<1>3. cmd = "cleanup" /\ manifest.status = "running"
  BY <1>0, <1>1 DEF CommandMatchesStep, StatusMatchesProcess, CleanupLabels
<1>4. CommandMatchesStep' /\ StatusMatchesProcess' /\ UncleanIsFlagged'
      /\ PolicyIsAsked'
  BY <1>0, <1>1, <1>3 DEF CommandMatchesStep, StatusMatchesProcess,
     UncleanIsFlagged, PolicyIsAsked, CleanupLabels
<1>5. WorkIsAccounted'
  BY <1>0, <1>1, <1>3 DEF WorkIsAccounted, SucceededRunIsComplete,
     CleanupLabels, ModeLabels, Executing
<1>6. FirstRunSweeps'
  BY <1>0, <1>1, <1>3 DEF FirstRunSweeps, UnmanagedHasNoStack
<1>7. OnlyOwnTailnet' /\ TailnetRecordIsTrue'
  <2>1. CASE UNCHANGED tailnets /\ pc' # "cleanup-done"
    BY <1>0, <1>1, <1>2, <2>1 DEF OnlyOwnTailnet, TailnetRecordIsTrue,
       JoinedTailnetSurvives, Gone
  <2>2. CASE CleanupTailnet
    <3>1. /\ tailnets' \in {tailnets, [tailnets EXCEPT ![manifest.dns] = "deleted"]}
          /\ \/ ~Unclean(manifest.resources["tailnet"])
             \/ outcome' = CleanupFails(FALSE)
             \/ tailnets' = [tailnets EXCEPT ![manifest.dns] = "deleted"]
      BY <2>2 DEF CleanupTailnet, DeleteTailnet
    <3>2. CleanupFails(FALSE).cleanup
      BY <1>0, FailsType
    <3>3. /\ tailnets'[JoinedTailnet] = "live"
          /\ \A d \in Tailnets : tailnets[d] = "deleted"
                                    => tailnets'[d] = "deleted"
      BY <1>0, <3>1, JoinedAssumption
         DEF OnlyOwnTailnet, JoinedTailnetSurvives
    <3>4. (~outcome'.cleanup /\ Unclean(manifest.resources["tailnet"]))
            => Gone(manifest.dns)'
      BY <1>0, <1>1, <3>1, <3>2 DEF Gone
    <3>5. OnlyOwnTailnet'
      BY <1>0, <1>1, <1>2, <3>3 DEF OnlyOwnTailnet, JoinedTailnetSurvives
    <3>6. TailnetRecordIsTrue'
      BY <1>0, <1>1, <1>2, <3>3, <3>4 DEF TailnetRecordIsTrue, Gone
    <3> QED BY <3>5, <3>6
  <2> QED BY <2>1, <2>2 DEF CleanupPair, CleanupNetwork
<1> QED BY <1>4, <1>5, <1>6, <1>7 DEF LifecycleInvariant

-----------------------------------------------------------------------------
\* The invariant.

\* Every step of every command preserves it.
LEMMA LifecycleStep ==
    ASSUME LifecycleInvariant, [Next]_vars
    PROVE  LifecycleInvariant'
<1>1. TypeOK'
  BY TypeStep DEF LifecycleInvariant
<1>2. ASSUME UNCHANGED <<cfg, manifest, results, live, tailnets, pc, cmd,
                         outcome, tailnetDNS, loop>>
      PROVE  LifecycleInvariant'
  BY <1>1, <1>2 DEF LifecycleInvariant, CommandMatchesStep,
     StatusMatchesProcess, UncleanIsFlagged, OnlyOwnTailnet,
     TailnetRecordIsTrue, WorkIsAccounted, PolicyIsAsked, FirstRunSweeps,
     JoinedTailnetSurvives, SucceededRunIsComplete, UnmanagedHasNoStack, Gone,
     Executing, Current
<1>3. CASE Cancel \/ UNCHANGED vars
  BY <1>2, <1>3 DEF Cancel, vars, external, files
<1> QED BY <1>1, <1>3, ExecuteSteps, LifecycleEnds, LifecycleStarts,
           LifecycleCleanup DEF Next, ProcessStep

\* Before the first command there is nothing to account for.
LEMMA LifecycleInit == Init => LifecycleInvariant
<1> SUFFICES ASSUME Init PROVE LifecycleInvariant
  OBVIOUS
<1>1. TypeOK
  BY TypeInit
<1>2. /\ manifest = NoManifest /\ pc = "idle" /\ cmd = "none" /\ live = {}
      /\ outcome = NoOutcome /\ tailnetDNS = NoTailnet
      /\ tailnets[JoinedTailnet] = "live"
  BY JoinedAssumption DEF Init
<1>3. /\ NoManifest.status = "absent" /\ NoManifest.dns = NoTailnet
      /\ NoManifest.resources["tailnet"] = "none"
      /\ \A w \in Work : NoManifest.work[w] = "pending"
  BY StackIDs DEF NoManifest, CreatedManifest, WorkFromPlan
<1>4. NoOutcome.dns = NoTailnet /\ NoOutcome.resources["tailnet"] = "none"
  BY StackIDs DEF NoOutcome
<1>5. CommandMatchesStep /\ StatusMatchesProcess /\ UncleanIsFlagged
      /\ PolicyIsAsked /\ FirstRunSweeps
  BY <1>2, <1>3 DEF CommandMatchesStep, StatusMatchesProcess,
     UncleanIsFlagged, PolicyIsAsked, FirstRunSweeps, UnmanagedHasNoStack,
     CleanupLabels
<1>6. OnlyOwnTailnet /\ TailnetRecordIsTrue
  BY <1>2, <1>3, <1>4, JoinedAssumption, TailnetAssumption
     DEF OnlyOwnTailnet, TailnetRecordIsTrue, JoinedTailnetSurvives
<1>7. WorkIsAccounted
  BY <1>2, <1>3 DEF WorkIsAccounted, SucceededRunIsComplete, Executing,
     CleanupLabels, ModeLabels
<1> QED BY <1>1, <1>5, <1>6, <1>7 DEF LifecycleInvariant

\* The inductive invariant holds whatever the provider lists and whichever
\* call, save or process fails.
THEOREM LifecycleIsSound == Spec => []LifecycleInvariant
<1>1. LifecycleInvariant /\ [Next]_vars => LifecycleInvariant'
  BY LifecycleStep
<1> QED BY <1>1, LifecycleInit, PTL DEF Spec

-----------------------------------------------------------------------------
\* What follows from it.

\* No command, crash or retry deletes the tailnet a run merely joined: deletion
\* is asked for by a name that only createTailnet puts on record.
THEOREM JoinedTailnetIsSafe == Spec => []JoinedTailnetSurvives
<1>1. LifecycleInvariant => JoinedTailnetSurvives
  BY DEF LifecycleInvariant, OnlyOwnTailnet
<1> QED BY <1>1, LifecycleIsSound, PTL

\* A tailnet recorded as cleaned has been deleted at Tailscale.
THEOREM CleanedTailnetsAreGone == Spec => []CleanedTailnetIsGone
<1>1. LifecycleInvariant => CleanedTailnetIsGone
  BY DEF LifecycleInvariant, TailnetRecordIsTrue, Gone, CleanedTailnetIsGone
<1> QED BY <1>1, LifecycleIsSound, PTL

\* A run recorded as succeeded has no open or failed work, through any sequence
\* of failed, cancelled and killed processes before its last one.
THEOREM SucceededRunsAreComplete == Spec => []SucceededRunIsComplete
<1>1. LifecycleInvariant => SucceededRunIsComplete
  BY DEF LifecycleInvariant, WorkIsAccounted
<1> QED BY <1>1, LifecycleIsSound, PTL

\* A run recorded as cleaned owns no stack and no tailnet, and cannot be
\* resumed, provided the provider offers no type outside the plan.
THEOREM CleanedRunsOwnNothing ==
    ASSUME InstanceTypes \subseteq Planned
    PROVE  Spec => []CleanedRunOwnsNothing
<1>1. LifecycleInvariant /\ TrackingInvariant => CleanedRunOwnsNothing
  <2> SUFFICES ASSUME LifecycleInvariant, TrackingInvariant,
                      manifest.status = "cleaned"
               PROVE  /\ live = {}
                      /\ manifest.dns # NoTailnet
                            => tailnets[manifest.dns] # "live"
                      /\ ~HasUncleanResources(manifest)
                      /\ ~manifest.recoverable
    BY DEF CleanedRunOwnsNothing
  <2>1. ~HasUncleanResources(manifest) /\ ~manifest.recoverable
    BY DEF LifecycleInvariant, UncleanIsFlagged
  <2>2. live = {}
    BY <2>1, StackIDs DEF TrackingInvariant, TypeOK, StacksTracked,
       HasUncleanResources
  <2>3. manifest.resources["tailnet"] \in {"none", "cleaned"}
    BY <2>1, StackIDs DEF HasUncleanResources, Unclean
  <2>4. manifest.dns # NoTailnet => tailnets[manifest.dns] # "live"
    BY <2>3 DEF LifecycleInvariant, TailnetRecordIsTrue, Gone
  <2> QED BY <2>1, <2>2, <2>4
<1> QED BY <1>1, LifecycleIsSound, TrackingIsInvariant, PTL

\* A run that has ended with a stack left is marked recoverable, under the same
\* proviso.
THEOREM LeftoversAreAlwaysFlagged ==
    ASSUME InstanceTypes \subseteq Planned
    PROVE  Spec => []LeftoversAreFlagged
<1>1. LifecycleInvariant /\ TrackingInvariant => LeftoversAreFlagged
  <2> SUFFICES ASSUME LifecycleInvariant, TrackingInvariant,
                      manifest.status \notin {"absent", "running"}, live # {}
               PROVE  manifest.recoverable
    BY DEF LeftoversAreFlagged
  <2>1. HasUncleanResources(manifest)
    BY StackIDs DEF TrackingInvariant, TypeOK, StacksTracked,
       HasUncleanResources
  <2> QED BY <2>1 DEF LifecycleInvariant, UncleanIsFlagged
<1> QED BY <1>1, LifecycleIsSound, TrackingIsInvariant, PTL

\* Result files are written for work of the approved plan only, also when the
\* provider lists further types.
THEOREM OnlyPlannedWorkIsMeasured == Spec => []OnlyPlannedWorkMeasured
<1>1. Init => OnlyPlannedWorkMeasured
  BY DEF Init, OnlyPlannedWorkMeasured
<1>2. LifecycleInvariant /\ OnlyPlannedWorkMeasured /\ [Next]_vars
        => OnlyPlannedWorkMeasured'
  <2> SUFFICES ASSUME LifecycleInvariant, OnlyPlannedWorkMeasured, [Next]_vars
               PROVE  OnlyPlannedWorkMeasured'
    OBVIOUS
  <2>1. CASE RunMode
    BY <2>1 DEF RunMode, OnlyPlannedWorkMeasured, LifecycleInvariant, TypeOK,
       ModeLabels
  <2>2. CASE \/ PlainStep \/ StackRecordStep \/ TailnetStep
             \/ ModeStep /\ ~RunMode
    <3>1. UNCHANGED results
      BY <2>2 DEF PlainStep, StackRecordStep, TailnetStep, ModeStep,
         PrepareFails, JoinTailnet, SetupNetworking, LookUpNetworking,
         ListInstances, InstanceInterrupted, SkipInstance, PreCleanup,
         CreatePair, AbandonPair, StartBenchmark, EndModes, SkipMode,
         KeepPair, DestroyPair, RefreshAuthKey, Aggregate, KeepNetworking,
         TeardownNetworking, CloseTsnet, KeepTailnet, WriteResult, FinishMode,
         StartMode, RecordNetworkingIntent, RecordNetworkingCreated,
         RecordNetworkingCleaning, RecordNetworkingCleaned,
         RecordTopologyIntent, RecordPairCreated, RecordPairCleaning,
         RecordPairCleaned, RecordTailnetIntent, CreateTailnet,
         RecordTailnetCreated, UseExistingTailnet, RecordTailnetCleaning,
         DeleteOwnTailnet, RecordTailnetCleaned, files
    <3> QED BY <3>1 DEF OnlyPlannedWorkMeasured
  <2>3. CASE \/ StartRun \/ StartResume \/ StartCleanup \/ Cancel \/ Crash
             \/ ExecuteFailsEarly \/ FinishExecution \/ EndCleanup
             \/ CleanupNetwork \/ CleanupTailnet
             \/ \E t \in InstanceTypes : CleanupPair(t)
             \/ UNCHANGED vars
    <3>1. UNCHANGED results
      BY <2>3 DEF StartRun, StartResume, StartCleanup, Cancel, Crash,
         ExecuteFailsEarly, FinishExecution, EndCleanup, CleanupNetwork,
         CleanupTailnet, CleanupPair, vars, files
    <3> QED BY <3>1 DEF OnlyPlannedWorkMeasured
  <2> QED BY <2>1, <2>2, <2>3, ExecuteKinds DEF Next, ProcessStep
<1> QED BY <1>1, <1>2, LifecycleIsSound, PTL DEF Spec

-----------------------------------------------------------------------------
\* Action properties.

\* The orchestrator loses its networking stack in TeardownNetworking only, and
\* deletes a tailnet in DeleteOwnTailnet only.
LEMMA TeardownSteps ==
    ASSUME TypeOK, Execute
    PROVE  /\ "networking" \in live \ live' => pc = "teardown-networking"
           /\ (\E d \in Tailnets : tailnets[d] # "deleted"
                                   /\ tailnets'[d] = "deleted")
                => pc = "delete-tailnet"
<1>1. "networking" \in live \ live' => pc = "teardown-networking"
  <2>1. pc \in PairLabels => loop.inst # "networking"
    BY StackIDs DEF TypeOK
  <2>2. CASE StackRecordStep \/ TailnetStep \/ ModeStep
    BY <2>2 DEF StackRecordStep, TailnetStep, ModeStep,
       RunMode, WriteResult, FinishMode,
       StartMode, RecordNetworkingIntent, RecordNetworkingCreated,
       RecordNetworkingCleaning, RecordNetworkingCleaned,
       RecordTopologyIntent, RecordPairCreated, RecordPairCleaning,
       RecordPairCleaned, RecordTailnetIntent, CreateTailnet,
       RecordTailnetCreated, UseExistingTailnet, RecordTailnetCleaning,
       DeleteOwnTailnet, RecordTailnetCleaned, external
  <2>3. CASE \/ PrepareFails \/ JoinTailnet \/ LookUpNetworking
             \/ ListInstances \/ InstanceInterrupted \/ StartBenchmark
             \/ EndModes \/ RefreshAuthKey \/ Aggregate \/ CloseTsnet
             \/ KeepTailnet \/ KeepPair \/ KeepNetworking
             \/ \E t \in InstanceTypes : SkipInstance(t)
             \/ \E m \in Modes : SkipMode(m)
    BY <2>3 DEF PrepareFails, JoinTailnet, LookUpNetworking,
       ListInstances, InstanceInterrupted, StartBenchmark, EndModes,
       RefreshAuthKey, Aggregate, CloseTsnet, KeepTailnet, SkipInstance,
       SkipMode, KeepPair, KeepNetworking, external
  <2>4. CASE \E t \in InstanceTypes : PreCleanup(t)
    BY <2>4, StackIDs DEF PreCleanup, DestroySucceeds, DestroyFails
  <2>5. CASE CreatePair \/ SetupNetworking
    BY <2>5 DEF CreatePair, SetupNetworking, CreateSucceeds, CreateFails
  <2>6. CASE AbandonPair \/ DestroyPair
    BY <2>1, <2>6 DEF AbandonPair, DestroyPair, DestroySucceeds, DestroyFails,
       PairLabels
  <2>7. CASE TeardownNetworking
    BY <2>7 DEF TeardownNetworking
  <2> QED BY <2>2, <2>3, <2>4, <2>5, <2>6, <2>7, ExecuteKinds DEF PlainStep
<1>2. ASSUME NEW d \in Tailnets, tailnets[d] # "deleted",
             tailnets'[d] = "deleted"
      PROVE  pc = "delete-tailnet"
  <2>1. ~TailnetKept
    BY <1>2 DEF TailnetKept
  <2>2. TailnetStep
    BY <2>1, ExecuteFrame
  <2>3. CASE CreateTailnet
    BY <1>2, <2>3 DEF CreateTailnet, Fresh, TypeOK
  <2>4. CASE TailnetStep /\ ~CreateTailnet
    BY <1>2, <2>4 DEF TailnetStep, RecordTailnetIntent, RecordTailnetCreated,
       UseExistingTailnet, RecordTailnetCleaning, DeleteOwnTailnet,
       RecordTailnetCleaned, external
  <2> QED BY <2>2, <2>3, <2>4
<1> QED BY <1>1, <1>2

\* run and resume tear down networking and tailnets only as the policy says.
THEOREM PolicyIsFollowed == Spec => TeardownFollowsPolicy
<1> DEFINE Allowed ==
        (/\ cmd \in {"run", "resume"}
         /\ \/ "networking" \in live \ live'
            \/ \E d \in Tailnets : tailnets[d] # "deleted"
                                   /\ tailnets'[d] = "deleted")
         => \/ cfg.policy = "always"
            \/ cfg.policy = "on-success" /\ ~outcome.benchmark
<1>1. LifecycleInvariant /\ [Next]_vars => [Allowed]_vars
  <2> SUFFICES ASSUME LifecycleInvariant, Next, cmd \in {"run", "resume"},
                      \/ "networking" \in live \ live'
                      \/ \E d \in Tailnets : tailnets[d] # "deleted"
                                             /\ tailnets'[d] = "deleted"
               PROVE  ShouldCleanup(cfg.policy, outcome.benchmark)
    BY DEF ShouldCleanup
  <2>1. pc \notin CleanupLabels \cup {"idle"} /\ TypeOK
    BY DEF LifecycleInvariant, CommandMatchesStep
  <2>2. CASE Execute
    BY <2>1, <2>2, TeardownSteps DEF LifecycleInvariant, PolicyIsAsked
  <2>3. CASE \/ StartRun \/ StartResume \/ StartCleanup \/ Cancel \/ Crash
             \/ ExecuteFailsEarly \/ FinishExecution \/ EndCleanup
             \/ CleanupNetwork \/ CleanupTailnet
             \/ \E t \in InstanceTypes : CleanupPair(t)
    BY <2>1, <2>3 DEF StartRun, StartResume, StartCleanup, Cancel, Crash,
       ExecuteFailsEarly, FinishExecution, EndCleanup, CleanupNetwork,
       CleanupTailnet, CleanupPair, CleanupLabels, external
  <2> QED BY <2>2, <2>3 DEF Next, ProcessStep
<1> QED BY <1>1, LifecycleIsSound, PTL DEF Spec, TeardownFollowsPolicy

\* A first run that records its cleanup as succeeded has left no stack, whatever
\* the provider listed.
THEOREM FirstCleanupsAreComplete == Spec => FirstCleanupIsComplete
<1> DEFINE Complete ==
        cmd = "run" /\ pc = "finish" /\ manifest'.cleanup = "succeeded"
            => live = {}
<1>1. LifecycleInvariant /\ [Next]_vars => [Complete]_vars
  <2> SUFFICES ASSUME LifecycleInvariant, Next, cmd = "run", pc = "finish",
                      manifest'.cleanup = "succeeded"
               PROVE  live = {}
    OBVIOUS
  <2>1. manifest.cleanup = "pending" /\ manifest \in Manifest
        /\ outcome \in Outcomes /\ TypeOK
    BY DEF LifecycleInvariant, StatusMatchesProcess, TypeOK
  <2>2. CASE FinishExecution
    <3>1. manifest'.cleanup = ResultOf(outcome).cleanup
      BY <2>1, <2>2, ResultOfType, ApplyExecutionResultFields
         DEF FinishExecution
    <3>2. Sweeping
      BY <3>1 DEF ResultOf, Sweeping, ShouldCleanup, LifecycleInvariant,
         TypeOK, Configurations, CleanupPolicies
    <3> QED BY <3>2 DEF Sweeping, LifecycleInvariant, FirstRunSweeps,
               BareLabels
  <2>3. CASE Execute
    BY <2>1, <2>3, ExecuteFrame DEF Framed
  <2>4. CASE \/ StartRun \/ StartResume \/ StartCleanup \/ Cancel \/ Crash
             \/ ExecuteFailsEarly \/ EndCleanup
             \/ CleanupNetwork \/ CleanupTailnet
             \/ \E t \in InstanceTypes : CleanupPair(t)
    BY <2>1, <2>4 DEF StartRun, StartResume, StartCleanup, Cancel, Crash,
       ExecuteFailsEarly, EndCleanup, CleanupNetwork, CleanupTailnet,
       CleanupPair, idle
  <2> QED BY <2>2, <2>3, <2>4 DEF Next, ProcessStep
<1> QED BY <1>1, LifecycleIsSound, PTL DEF Spec, FirstCleanupIsComplete

\* What DoneWorkStaysDone asks of a step.
WorkStaysDone ==
    \A w \in Work :
        /\ manifest.status # "absent" /\ manifest.work[w] = "succeeded"
            => manifest'.work[w] \in {"succeeded", "cleanup-pending"}
        /\ manifest.work[w] = "cleaned" => manifest'.work[w] = "cleaned"

\* The orchestrator opens an item only without its result, and closes the one
\* it opened.
LEMMA ExecuteKeepsDone ==
    ASSUME LifecycleInvariant, Execute
    PROVE  WorkStaysDone
<1>0. /\ TypeOK /\ manifest \in Manifest /\ WorkIsAccounted
      /\ manifest.work \in [Work -> WorkStatus]
  BY DEF LifecycleInvariant, TypeOK, Manifest
<1>1. Executing
  BY <1>0, ExecuteFrame DEF Framed
<1>2. \A w \in Work : /\ manifest.work[w] # "cleaned"
                      /\ manifest.work[w] = "succeeded" => w \in results
  BY <1>0, <1>1 DEF WorkIsAccounted
<1>3. CASE WorkKept \/ RunMode \/ WriteResult
  <2>1. manifest'.work = manifest.work
    BY <1>3 DEF WorkKept, RunMode, WriteResult
  <2> QED BY <2>1 DEF WorkStaysDone
<1>4. CASE FinishMode
  <2>1. Current \in Work /\ manifest.work[Current] = "running"
    BY <1>0, <1>4 DEF FinishMode, TypeOK, ModeLabels, WorkIsAccounted
  <2>2. PICK status \in WorkStatus :
            manifest' \in {manifest, SetWork(manifest, Current, status)}
    BY <1>4 DEF FinishMode, Saved, SaveFails, WorkStatus
  <2>3. \A w \in Work : w # Current => manifest'.work[w] = manifest.work[w]
    <3>1. SetWork(manifest, Current, status).work
            = [manifest.work EXCEPT ![Current] = status]
      BY <1>0, <2>1, SetWorkFields
    <3> QED BY <1>0, <2>2, <3>1
  <2> QED BY <1>2, <2>1, <2>3 DEF WorkStaysDone
<1>5. ASSUME NEW m \in Modes, StartMode(m)
      PROVE  WorkStaysDone
  <2> DEFINE w0 == <<loop.inst, m>>
  <2>1. /\ w0 \notin results
        /\ \/ UNCHANGED manifest
           \/ w0 \in Work /\ manifest' = SetWork(manifest, w0, "running")
    BY <1>5 DEF StartMode, Saved, SaveFails
  <2> HIDE DEF w0
  <2>2. \A w \in Work : w # w0 => manifest'.work[w] = manifest.work[w]
    <3>1. w0 \in Work => SetWork(manifest, w0, "running").work
                            = [manifest.work EXCEPT ![w0] = "running"]
      BY <1>0, SetWorkFields DEF WorkStatus
    <3> QED BY <1>0, <2>1, <3>1
  <2> QED BY <1>2, <2>1, <2>2 DEF WorkStaysDone
<1> QED BY <1>0, <1>3, <1>4, <1>5, ExecuteFrame DEF ModeStep

\* Neither do the starts and the ends of the commands.
LEMMA BoundsKeepDone ==
    ASSUME LifecycleInvariant,
           \/ StartRun \/ StartResume \/ StartCleanup
           \/ ExecuteFailsEarly \/ FinishExecution \/ EndCleanup
    PROVE  WorkStaysDone
<1>0. /\ TypeOK /\ manifest \in Manifest /\ outcome \in Outcomes
      /\ manifest.work \in [Work -> WorkStatus]
  BY DEF LifecycleInvariant, TypeOK, Manifest
<1>1. CASE StartRun
  <2>1. manifest.status = "absent" /\ manifest = NoManifest
    BY <1>1 DEF StartRun, LifecycleInvariant, StatusMatchesProcess
  <2>2. \A w \in Work : NoManifest.work[w] = "pending"
    BY DEF NoManifest, CreatedManifest, WorkFromPlan
  <2> QED BY <2>1, <2>2 DEF WorkStaysDone
<1>2. CASE StartResume
  <2>1. manifest'.work = [w \in Work |->
            IF w \in UnfinishedWork(manifest) THEN "pending"
            ELSE manifest.work[w]]
    BY <1>0, <1>2, BeginResumeFields DEF StartResume
  <2> QED BY <2>1 DEF WorkStaysDone, UnfinishedWork
<1>3. CASE StartCleanup
  <2>1. manifest'.work = [w \in Work |->
            IF manifest.work[w] \in {"skipped", "cleaned"} THEN manifest.work[w]
            ELSE "cleanup-pending"]
    BY <1>0, <1>3, BeginCleanupFields DEF StartCleanup
  <2> QED BY <2>1 DEF WorkStaysDone
<1>4. ASSUME NEW result \in Results,
             manifest' = ApplyExecutionResult(manifest, result)
      PROVE  WorkStaysDone
  <2>1. manifest'.work = FinalizeWork(manifest.work, result.benchmark)
    BY <1>0, <1>4, ApplyExecutionResultFields
  <2> QED BY <2>1 DEF WorkStaysDone, FinalizeWork
<1>5. CASE ExecuteFailsEarly
  <2>1. PICK c \in {"pending", "skipped"} :
            manifest' = ApplyExecutionResult(manifest,
                [benchmark |-> "failed", cleanup |-> c, interrupted |-> FALSE,
                 resources |-> NoOutcome.resources, dns |-> NoTailnet])
    BY <1>5 DEF ExecuteFailsEarly
  <2>2. [benchmark |-> "failed", cleanup |-> c, interrupted |-> FALSE,
         resources |-> NoOutcome.resources, dns |-> NoTailnet] \in Results
    BY EmptyMemory DEF Results, OutcomeStatus, Outcomes
  <2> QED BY <1>4, <2>1, <2>2
<1>6. CASE FinishExecution
  BY <1>0, <1>4, <1>6, ResultOfType DEF FinishExecution
<1>7. CASE EndCleanup
  <2> DEFINE ok == ~outcome.cleanup
  <2>1. ok \in BOOLEAN /\ manifest' = FinishCleanup(manifest, ok)
    BY <1>0, <1>7 DEF EndCleanup, Outcomes
  <2> HIDE DEF ok
  <2>2. manifest'.work = [w \in Work |->
            IF ok /\ manifest.work[w] = "cleanup-pending" THEN "cleaned"
            ELSE manifest.work[w]]
    BY <1>0, <2>1, FinishCleanupFields
  <2> QED BY <2>2 DEF WorkStaysDone
<1> QED BY <1>1, <1>2, <1>3, <1>5, <1>6, <1>7

\* Work that succeeded is never executed again, in any later process of the
\* run, and work that a cleanup has finished with never changes.
THEOREM DoneWorkIsFinal == Spec => DoneWorkStaysDone
<1>1. LifecycleInvariant /\ [Next]_vars => [WorkStaysDone]_vars
  <2> SUFFICES ASSUME LifecycleInvariant, Next PROVE WorkStaysDone
    OBVIOUS
  <2>1. CASE \/ Cancel \/ Crash \/ CleanupNetwork \/ CleanupTailnet
             \/ \E t \in InstanceTypes : CleanupPair(t)
    BY <2>1 DEF Cancel, Crash, CleanupNetwork, CleanupTailnet, CleanupPair,
       WorkStaysDone
  <2> QED BY <2>1, ExecuteKeepsDone, BoundsKeepDone DEF Next, ProcessStep
<1> QED BY <1>1, LifecycleIsSound, PTL
        DEF Spec, DoneWorkStaysDone, WorkStaysDone
=============================================================================
