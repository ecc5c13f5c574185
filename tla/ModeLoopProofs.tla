--------------------------- MODULE ModeLoopProofs ---------------------------
(***************************************************************************)
(* The mode loop keeps LoopInvariant for any number of pairs, replicas and *)
(* faults, and with it the three properties of its results.                *)
(***************************************************************************)
EXTENDS ModeLoop, TLAPS

\* A fault is spent, and never more than there are.
LEMMA FaultsAreCounted ==
    ASSUME TypeOK, UNCHANGED faults \/ Fault
    PROVE  faults' \in 0..MaxFaults
  BY MaxFaultsAssumption DEF TypeOK, Fault

\* iptables on one of the three hosts.
LEMMA RuleIsAdded ==
    ASSUME TypeOK, NEW host \in Hosts, AddRule(host)
    PROVE  /\ rules' \in SUBSET Hosts /\ refused' \in SUBSET Hosts
           /\ bad' \in BOOLEAN /\ faults' \in 0..MaxFaults
  BY FaultsAreCounted DEF TypeOK, AddRule

\* Removing a rule, likewise.
LEMMA RuleIsRemoved ==
    ASSUME TypeOK, NEW host \in Hosts, RemoveRule(host)
    PROVE  /\ rules' \in SUBSET Hosts /\ refused' \in SUBSET Hosts
           /\ bad' \in BOOLEAN /\ faults' \in 0..MaxFaults
  BY FaultsAreCounted DEF TypeOK, RemoveRule

\* What GetProxyGroupRolloutState reads, or leaves zero.
LEMMA Snapshots ==
    LET Type == [revision : Settings \cup {"none"}, setting : Settings,
                 settled : BOOLEAN]
    IN /\ NoSnapshot \in Type
       /\ \A u \in Settings \cup {"none"} :
             [revision |-> u, setting |-> IF spec = "on" THEN "on" ELSE "off",
              settled |-> Settled] \in Type
<1>1. Settled \in BOOLEAN
  BY DEF Settled
<1> QED
  BY <1>1 DEF NoSnapshot, Settings

\* What a sweep records, or that none has been.
LEMMA Sweeps ==
    ASSUME TypeOK
    PROVE  LET Type == [settings : SUBSET (Settings \cup {"none"}),
                        pair : 0..MaxPairs, stale : BOOLEAN]
           IN /\ NoSweep \in Type
              /\ [settings |-> {pods[r] : r \in Replicas}, pair |-> routed,
                  stale |-> stale] \in Type
<1>1. {pods[r] : r \in Replicas} \in SUBSET (Settings \cup {"none"})
  BY DEF TypeOK
<1>2. routed \in 0..MaxPairs /\ stale \in BOOLEAN
  BY DEF TypeOK
<1>3. 0 \in 0..MaxPairs
  BY MaxPairsAssumption
<1> QED
  BY <1>1, <1>2, <1>3 DEF NoSweep

\* The types of the egress service's state.
EgressTyped ==
    /\ service \in {"none", "legacy", "deleting", "external"}
    /\ resolved \in BOOLEAN /\ ready \in BOOLEAN /\ stale \in BOOLEAN
    /\ egress \in 0..MaxPairs /\ routed \in 0..MaxPairs

\* Every call to the API server leaves a service of that type.
LEMMA ServiceIsTyped ==
    ASSUME TypeOK, UNCHANGED routed,
           \/ CreateService(pair) \/ UpdateService(pair) \/ DeleteService
           \/ UNCHANGED egressVars
    PROVE  EgressTyped'
<1>1. EgressTyped /\ pair \in 0..MaxPairs
  BY MaxPairsAssumption DEF TypeOK, EgressTyped
<1> QED
  BY <1>1 DEF EgressTyped, CreateService, UpdateService, DeleteService, egressVars

\* The end of a mode, recorded as failed or not.
LEMMA ModeEnds ==
    ASSUME TypeOK, mode # "none", NEW lost \in SUBSET {mode}, EndMode(lost),
           faults' \in 0..MaxFaults
    PROVE  TypeOK'
<1>1. mode \in AppliesTo(env) /\ mode \notin todo
  BY DEF TypeOK
<1>2. "none" \notin AppliesTo(env)
  BY DEF AppliesTo
<1>3. /\ env' = env /\ todo' = todo /\ mode' = "none" /\ pair' = pair
      /\ failed' = failed \cup lost
  BY DEF EndMode
<1>4. /\ env' \in Environments /\ todo' \subseteq AppliesTo(env')
      /\ failed' \subseteq AppliesTo(env')
      /\ mode' \in AppliesTo(env') \cup {"none"}
      /\ mode' \notin todo' \cup failed' /\ todo' \cap failed' = {}
      /\ pair' \in 1..MaxPairs
  BY <1>1, <1>2, <1>3 DEF TypeOK
<1>5. /\ bad' \in BOOLEAN /\ rules' \in SUBSET Hosts
      /\ refused' \in SUBSET Hosts /\ exitNode' \in BOOLEAN
      /\ path' \in Paths /\ want' \in Paths /\ ran' \in [Paths -> SUBSET Paths]
  BY DEF TypeOK, EndMode, Paths, NothingMeasured
<1>6. /\ before' \in [revision : Settings \cup {"none"}, setting : Settings,
                      settled : BOOLEAN]
      /\ swept' \in [settings : SUBSET (Settings \cup {"none"}), pair : 0..MaxPairs,
                     stale : BOOLEAN]
      /\ UNCHANGED <<class, spec, update, current, pods, service, egress, resolved,
                     ready, routed, stale>>
  BY Snapshots, Sweeps DEF EndMode, cluster, rollout, egressVars
<1> QED
  BY <1>4, <1>5, <1>6 DEF TypeOK

\* Asking for the router's address changes nothing.
LEMMA GetRouterIPKeeps ==
    ASSUME LoopInvariant, GetRouterIP, UNCHANGED <<proxyVars, loop>>
    PROVE  LoopInvariant'
<1>1. TypeOK'
  BY MaxFaultsAssumption, MaxPairsAssumption
     DEF LoopInvariant, TypeOK, GetRouterIP, At, Goto, Then, FailMode, Fault,
         pathVars, proxyVars, cluster, rollout, egressVars, loop, AppliesTo,
         Hosts, Paths, Settings
<1>2. StepFits'
  BY DEF LoopInvariant, StepFits, GetRouterIP, At, Goto, Then, FailMode, Fault,
         pathVars, proxyVars, cluster, rollout, egressVars, loop, Paths, TypeOK
<1>3. LeftoversMeanFailure'
  BY DEF LoopInvariant, LeftoversMeanFailure, GetRouterIP, At, Goto, Then,
         FailMode, Fault, pathVars, proxyVars, cluster, rollout, egressVars,
         loop, StepFits
<1>4. NetworkIsRestored'
  BY DEF LoopInvariant, NetworkIsRestored, GetRouterIP, At, Goto, Then,
         FailMode, Fault, pathVars, proxyVars, cluster, rollout, egressVars,
         loop, StepFits, Paths, TypeOK, Hosts
<1>5. PathsAreBlocked' /\ PathsAreConfirmed'
  BY DEF LoopInvariant, PathsAreBlocked, PathsAreConfirmed, NoFaster,
         GetRouterIP, At, Goto, Then, FailMode, Fault, pathVars, proxyVars,
         cluster, rollout, egressVars, loop, StepFits, TypeOK, Hosts, Paths
<1>6. RolloutIsTracked' /\ EgressIsTracked'
  BY DEF LoopInvariant, RolloutIsTracked, EgressIsTracked, GetRouterIP, At,
         Goto, Then, FailMode, Fault, pathVars, proxyVars, cluster, rollout,
         egressVars, loop, StepFits, Proxies
<1> QED
  BY <1>1, <1>2, <1>3, <1>4, <1>5, <1>6 DEF LoopInvariant

\* An exit node may be set although the mode fails.
LEMMA SetExitNodeKeeps ==
    ASSUME LoopInvariant, SetExitNode, UNCHANGED <<proxyVars, loop>>
    PROVE  LoopInvariant'
<1>1. TypeOK'
  <2>1. faults' \in 0..MaxFaults
    BY FaultsAreCounted DEF LoopInvariant, SetExitNode, At, Goto, Then, FailMode
  <2>2. exitNode' \in BOOLEAN
    BY DEF LoopInvariant, TypeOK, SetExitNode, At, Goto, Then, FailMode, pathVars,
          proxyVars, cluster, rollout, egressVars, loop
  <2>3. UNCHANGED <<mode, bad, rules, path, want, ran, refused, proxyVars, loop>>
    BY DEF SetExitNode, Goto, Then, FailMode
  <2> QED
    BY <2>1, <2>2, <2>3
       DEF LoopInvariant, TypeOK, proxyVars, cluster, rollout, egressVars, loop
<1>2. StepFits'
  BY DEF LoopInvariant, StepFits, SetExitNode, At, Goto, Then, FailMode, Fault,
         proxyVars, cluster, rollout, egressVars, loop, Paths, TypeOK
<1>3. LeftoversMeanFailure'
  BY DEF LoopInvariant, LeftoversMeanFailure, SetExitNode, At, Goto, Then,
         FailMode, Fault, proxyVars, cluster, rollout, egressVars, loop, StepFits
<1>4. NetworkIsRestored'
  BY DEF LoopInvariant, NetworkIsRestored, SetExitNode, At, Goto, Then,
         FailMode, Fault, proxyVars, cluster, rollout, egressVars, loop,
         StepFits, Paths, TypeOK, Hosts
<1>5. PathsAreBlocked' /\ PathsAreConfirmed'
  BY DEF LoopInvariant, PathsAreBlocked, PathsAreConfirmed, NoFaster,
         SetExitNode, At, Goto, Then, FailMode, Fault, proxyVars, cluster,
         rollout, egressVars, loop, StepFits, TypeOK, Hosts, Paths
<1>6. RolloutIsTracked' /\ EgressIsTracked'
  BY DEF LoopInvariant, RolloutIsTracked, EgressIsTracked, SetExitNode, At,
         Goto, Then, FailMode, Fault, proxyVars, cluster, rollout, egressVars,
         loop, StepFits, Proxies
<1> QED
  BY <1>1, <1>2, <1>3, <1>4, <1>5, <1>6 DEF LoopInvariant

\* The sweep's error waits until the exit node is cleared.
LEMMA SweepThroughRouterKeeps ==
    ASSUME LoopInvariant, SweepThroughRouter, UNCHANGED <<proxyVars, loop>>
    PROVE  LoopInvariant'
<1>1. TypeOK'
  <2>1. bad' \in BOOLEAN
    BY DEF LoopInvariant, TypeOK, SweepThroughRouter, Deferred, At, Goto, pathVars,
          proxyVars, cluster, rollout, egressVars, loop
  <2>2. faults' \in 0..MaxFaults
    BY FaultsAreCounted DEF LoopInvariant, SweepThroughRouter, Deferred, At, Goto
  <2> QED
    BY <2>1, <2>2
       DEF LoopInvariant, TypeOK, SweepThroughRouter, Deferred, At, Goto, pathVars,
          proxyVars, cluster, rollout, egressVars, loop, AppliesTo, Settings
<1>2. StepFits'
  BY DEF LoopInvariant, StepFits, SweepThroughRouter, Deferred, At, Goto, Fault,
         pathVars, proxyVars, cluster, rollout, egressVars, loop, Paths, TypeOK
<1>3. LeftoversMeanFailure'
  BY DEF LoopInvariant, LeftoversMeanFailure, SweepThroughRouter, Deferred, At,
         Goto, Fault, pathVars, proxyVars, cluster, rollout, egressVars, loop,
         StepFits
<1>4. NetworkIsRestored'
  BY DEF LoopInvariant, NetworkIsRestored, SweepThroughRouter, Deferred, At,
         Goto, Fault, pathVars, proxyVars, cluster, rollout, egressVars, loop,
         StepFits, Paths, TypeOK, Hosts
<1>5. PathsAreBlocked' /\ PathsAreConfirmed'
  BY DEF LoopInvariant, PathsAreBlocked, PathsAreConfirmed, NoFaster,
         SweepThroughRouter, Deferred, At, Goto, Fault, pathVars, proxyVars,
         cluster, rollout, egressVars, loop, StepFits, TypeOK, Hosts, Paths
<1>6. RolloutIsTracked' /\ EgressIsTracked'
  BY DEF LoopInvariant, RolloutIsTracked, EgressIsTracked, SweepThroughRouter,
         Deferred, At, Goto, Fault, pathVars, proxyVars, cluster, rollout,
         egressVars, loop, StepFits, Proxies
<1> QED
  BY <1>1, <1>2, <1>3, <1>4, <1>5, <1>6 DEF LoopInvariant

\* Only a cleared exit node lets the mode write its result.
LEMMA ClearExitNodeKeeps ==
    ASSUME LoopInvariant, ClearExitNode, UNCHANGED <<proxyVars, loop>>
    PROVE  LoopInvariant'
<1>1. TypeOK'
  <2>1. faults' \in 0..MaxFaults
    BY FaultsAreCounted DEF LoopInvariant, ClearExitNode, At, Goto, Then, FailMode
  <2>2. exitNode' \in BOOLEAN
    BY DEF LoopInvariant, TypeOK, ClearExitNode, At, Goto, Then, FailMode, pathVars,
          proxyVars, cluster, rollout, egressVars, loop
  <2>3. UNCHANGED <<mode, bad, rules, path, want, ran, refused, proxyVars, loop>>
    BY DEF ClearExitNode, Goto, Then, FailMode
  <2> QED
    BY <2>1, <2>2, <2>3
       DEF LoopInvariant, TypeOK, proxyVars, cluster, rollout, egressVars, loop
<1>2. StepFits'
  BY DEF LoopInvariant, StepFits, ClearExitNode, At, Goto, Then, FailMode, Fault,
         proxyVars, cluster, rollout, egressVars, loop, Paths, TypeOK
<1>3. LeftoversMeanFailure'
  BY DEF LoopInvariant, LeftoversMeanFailure, ClearExitNode, At, Goto, Then,
         FailMode, Fault, proxyVars, cluster, rollout, egressVars, loop, StepFits
<1>4. NetworkIsRestored'
  BY DEF LoopInvariant, NetworkIsRestored, ClearExitNode, At, Goto, Then,
         FailMode, Fault, proxyVars, cluster, rollout, egressVars, loop,
         StepFits, Paths, TypeOK, Hosts
<1>5. PathsAreBlocked' /\ PathsAreConfirmed'
  BY DEF LoopInvariant, PathsAreBlocked, PathsAreConfirmed, NoFaster,
         ClearExitNode, At, Goto, Then, FailMode, Fault, proxyVars, cluster,
         rollout, egressVars, loop, StepFits, TypeOK, Hosts, Paths
<1>6. RolloutIsTracked' /\ EgressIsTracked'
  BY DEF LoopInvariant, RolloutIsTracked, EgressIsTracked, ClearExitNode, At,
         Goto, Then, FailMode, Fault, proxyVars, cluster, rollout, egressVars,
         loop, StepFits, Proxies
<1> QED
  BY <1>1, <1>2, <1>3, <1>4, <1>5, <1>6 DEF LoopInvariant

\* The relay mode begins with the direct path.
LEMMA StartRelayKeeps ==
    ASSUME LoopInvariant, StartRelay, UNCHANGED <<proxyVars, loop>>
    PROVE  LoopInvariant'
<1>1. TypeOK'
  BY MaxFaultsAssumption, MaxPairsAssumption
     DEF LoopInvariant, TypeOK, StartRelay, WaitForPeer, At, Goto, Then,
         FailMode, TimedOut, Fault, pathVars, proxyVars, cluster, rollout,
         egressVars, loop, AppliesTo, Hosts, Paths, Settings
<1>2. StepFits'
  BY DEF LoopInvariant, StepFits, StartRelay, WaitForPeer, At, Goto, Then,
         FailMode, TimedOut, Fault, pathVars, proxyVars, cluster, rollout,
         egressVars, loop, Paths, TypeOK
<1>3. LeftoversMeanFailure'
  BY DEF LoopInvariant, LeftoversMeanFailure, StartRelay, WaitForPeer, At, Goto,
         Then, FailMode, TimedOut, Fault, pathVars, proxyVars, cluster, rollout,
         egressVars, loop, StepFits
<1>4. NetworkIsRestored'
  BY DEF LoopInvariant, NetworkIsRestored, StartRelay, WaitForPeer, At, Goto,
         Then, FailMode, TimedOut, Fault, pathVars, proxyVars, cluster, rollout,
         egressVars, loop, StepFits, Paths, TypeOK, Hosts
<1>5. PathsAreBlocked' /\ PathsAreConfirmed'
  BY DEF LoopInvariant, PathsAreBlocked, PathsAreConfirmed, NoFaster,
         StartRelay, WaitForPeer, At, Goto, Then, FailMode, TimedOut, Fault,
         pathVars, proxyVars, cluster, rollout, egressVars, loop, StepFits,
         TypeOK, Hosts, Paths, Open
<1>6. RolloutIsTracked' /\ EgressIsTracked'
  BY DEF LoopInvariant, RolloutIsTracked, EgressIsTracked, StartRelay,
         WaitForPeer, At, Goto, Then, FailMode, TimedOut, Fault, pathVars,
         proxyVars, cluster, rollout, egressVars, loop, StepFits, Proxies
<1> QED
  BY <1>1, <1>2, <1>3, <1>4, <1>5, <1>6 DEF LoopInvariant

\* A measurement starts on the path it names.
LEMMA PathViaKeeps ==
    ASSUME LoopInvariant, PathVia, UNCHANGED <<proxyVars, loop>>
    PROVE  LoopInvariant'
<1>1. TypeOK'
  <2>1. bad' \in BOOLEAN
    BY DEF LoopInvariant, TypeOK, PathVia, RelayPathFails, At, Goto, Then, pathVars,
          proxyVars, cluster, rollout, egressVars, loop
  <2>2. faults' \in 0..MaxFaults
    BY FaultsAreCounted DEF LoopInvariant, PathVia, RelayPathFails, At, Goto, Then
  <2>3. ran' \in [Paths -> SUBSET Paths]
    BY DEF LoopInvariant, TypeOK, PathVia, RelayPathFails, At, Goto, Then, pathVars,
          proxyVars, cluster, rollout, egressVars, loop, Paths, Open
  <2> QED
    BY <2>1, <2>2, <2>3
       DEF LoopInvariant, TypeOK, PathVia, RelayPathFails, At, Goto, Then, pathVars,
          proxyVars, cluster, rollout, egressVars, loop, AppliesTo, Settings
<1>2. StepFits'
  BY DEF LoopInvariant, StepFits, PathVia, RelayPathFails, At, Goto, Then,
         Fault, pathVars, proxyVars, cluster, rollout, egressVars, loop,
         NotMeasured, Paths, TypeOK
<1>3. LeftoversMeanFailure'
  BY DEF LoopInvariant, LeftoversMeanFailure, PathVia, RelayPathFails, At, Goto,
         Then, Fault, pathVars, proxyVars, cluster, rollout, egressVars, loop,
         StepFits
<1>4. NetworkIsRestored'
  BY DEF LoopInvariant, NetworkIsRestored, PathVia, RelayPathFails, At, Goto,
         Then, Fault, pathVars, proxyVars, cluster, rollout, egressVars, loop,
         StepFits, NotMeasured, Paths, TypeOK, Hosts
<1>5. PathsAreBlocked' /\ PathsAreConfirmed'
  BY DEF LoopInvariant, PathsAreBlocked, PathsAreConfirmed, NoFaster, PathVia,
         RelayPathFails, At, Goto, Then, Fault, pathVars, proxyVars, cluster,
         rollout, egressVars, loop, StepFits, TypeOK, Hosts, NotMeasured, Paths,
         Open
<1>6. RolloutIsTracked' /\ EgressIsTracked'
  BY DEF LoopInvariant, RolloutIsTracked, EgressIsTracked, PathVia,
         RelayPathFails, At, Goto, Then, Fault, pathVars, proxyVars, cluster,
         rollout, egressVars, loop, StepFits, Proxies
<1> QED
  BY <1>1, <1>2, <1>3, <1>4, <1>5, <1>6 DEF LoopInvariant

\* What was measured stays what it was.
LEMMA MeasurePathKeeps ==
    ASSUME LoopInvariant, MeasurePath, UNCHANGED <<proxyVars, loop>>
    PROVE  LoopInvariant'
<1>1. TypeOK'
  <2>1. bad' \in BOOLEAN
    BY DEF LoopInvariant, TypeOK, MeasurePath, RelayPathFails, At, Goto, Then,
          pathVars, proxyVars, cluster, rollout, egressVars, loop
  <2>2. faults' \in 0..MaxFaults
    BY FaultsAreCounted
       DEF LoopInvariant, MeasurePath, RelayPathFails, At, Goto, Then
  <2> QED
    BY <2>1, <2>2
       DEF LoopInvariant, TypeOK, MeasurePath, RelayPathFails, At, Goto, Then,
           pathVars, proxyVars, cluster, rollout, egressVars, loop, AppliesTo,
           Settings
<1>2. StepFits'
  BY DEF LoopInvariant, StepFits, MeasurePath, RelayPathFails, At, Goto, Then,
         Fault, pathVars, proxyVars, cluster, rollout, egressVars, loop,
         Measured, NotMeasured, Paths, TypeOK
<1>3. LeftoversMeanFailure'
  BY DEF LoopInvariant, LeftoversMeanFailure, MeasurePath, RelayPathFails, At,
         Goto, Then, Fault, pathVars, proxyVars, cluster, rollout, egressVars,
         loop, StepFits
<1>4. NetworkIsRestored'
  BY DEF LoopInvariant, NetworkIsRestored, MeasurePath, RelayPathFails, At,
         Goto, Then, Fault, pathVars, proxyVars, cluster, rollout, egressVars,
         loop, StepFits, NotMeasured, Measured, Paths, TypeOK, Hosts
<1>5. PathsAreBlocked' /\ PathsAreConfirmed'
  BY DEF LoopInvariant, PathsAreBlocked, PathsAreConfirmed, NoFaster,
         MeasurePath, RelayPathFails, At, Goto, Then, Fault, pathVars,
         proxyVars, cluster, rollout, egressVars, loop, StepFits, TypeOK, Hosts,
         NotMeasured, Measured, Paths
<1>6. RolloutIsTracked' /\ EgressIsTracked'
  BY DEF LoopInvariant, RolloutIsTracked, EgressIsTracked, MeasurePath,
         RelayPathFails, At, Goto, Then, Fault, pathVars, proxyVars, cluster,
         rollout, egressVars, loop, StepFits, Proxies
<1> QED
  BY <1>1, <1>2, <1>3, <1>4, <1>5, <1>6 DEF LoopInvariant

\* The first half of blocking the pair; an error waits for the second.
LEMMA BlockClientKeeps ==
    ASSUME LoopInvariant, BlockClient, UNCHANGED <<proxyVars, loop>>
    PROVE  LoopInvariant'
<1>1. TypeOK'
  <2>1. /\ rules' \in SUBSET Hosts /\ refused' \in SUBSET Hosts
        /\ bad' \in BOOLEAN /\ faults' \in 0..MaxFaults
    BY RuleIsAdded DEF LoopInvariant, BlockClient, Hosts
  <2> QED
    BY <2>1
       DEF LoopInvariant, TypeOK, BlockClient, AddRule, At, Goto, pathVars,
          proxyVars, cluster, rollout, egressVars, loop, AppliesTo, Settings
<1>2. StepFits'
  BY DEF LoopInvariant, StepFits, BlockClient, AddRule, At, Goto, Fault,
         proxyVars, cluster, rollout, egressVars, loop, Paths, TypeOK
<1>3. LeftoversMeanFailure'
  BY DEF LoopInvariant, LeftoversMeanFailure, BlockClient, AddRule, At, Goto,
         Fault, proxyVars, cluster, rollout, egressVars, loop, StepFits
<1>4. NetworkIsRestored'
  BY DEF LoopInvariant, NetworkIsRestored, BlockClient, AddRule, At, Goto,
         Fault, proxyVars, cluster, rollout, egressVars, loop, StepFits, Paths,
         TypeOK, Hosts
<1>5. PathsAreBlocked' /\ PathsAreConfirmed'
  BY DEF LoopInvariant, PathsAreBlocked, PathsAreConfirmed, NoFaster,
         BlockClient, AddRule, At, Goto, Fault, proxyVars, cluster, rollout,
         egressVars, loop, StepFits, TypeOK, Hosts, Paths
<1>6. RolloutIsTracked' /\ EgressIsTracked'
  BY DEF LoopInvariant, RolloutIsTracked, EgressIsTracked, BlockClient, AddRule,
         At, Goto, Fault, proxyVars, cluster, rollout, egressVars, loop,
         StepFits, Proxies
<1> QED
  BY <1>1, <1>2, <1>3, <1>4, <1>5, <1>6 DEF LoopInvariant

\* Both rules are in place, or the relay is not measured.
LEMMA BlockServerKeeps ==
    ASSUME LoopInvariant, BlockServer, UNCHANGED <<proxyVars, loop>>
    PROVE  LoopInvariant'
<1>1. TypeOK'
  <2>1. /\ rules' \in SUBSET Hosts /\ refused' \in SUBSET Hosts
        /\ bad' \in BOOLEAN /\ faults' \in 0..MaxFaults
    BY RuleIsAdded DEF LoopInvariant, BlockServer, Hosts
  <2>2. want' \in Paths
    BY DEF LoopInvariant, TypeOK, BlockServer, AddRule, At, Goto, pathVars,
          proxyVars, cluster, rollout, egressVars, loop, Paths
  <2> QED
    BY <2>1, <2>2
       DEF LoopInvariant, TypeOK, BlockServer, AddRule, At, Goto, pathVars,
          proxyVars, cluster, rollout, egressVars, loop, AppliesTo, Settings
<1>2. StepFits'
  BY DEF LoopInvariant, StepFits, BlockServer, AddRule, At, Goto, Fault,
         proxyVars, cluster, rollout, egressVars, loop, Paths, TypeOK
<1>3. LeftoversMeanFailure'
  BY DEF LoopInvariant, LeftoversMeanFailure, BlockServer, AddRule, At, Goto,
         Fault, proxyVars, cluster, rollout, egressVars, loop, StepFits
<1>4. NetworkIsRestored'
  BY DEF LoopInvariant, NetworkIsRestored, BlockServer, AddRule, At, Goto,
         Fault, proxyVars, cluster, rollout, egressVars, loop, StepFits, Paths,
         TypeOK, Hosts
<1>5. PathsAreBlocked' /\ PathsAreConfirmed'
  BY DEF LoopInvariant, PathsAreBlocked, PathsAreConfirmed, NoFaster,
         BlockServer, AddRule, At, Goto, Fault, proxyVars, cluster, rollout,
         egressVars, loop, StepFits, TypeOK, Hosts, Paths
<1>6. RolloutIsTracked' /\ EgressIsTracked'
  BY DEF LoopInvariant, RolloutIsTracked, EgressIsTracked, BlockServer, AddRule,
         At, Goto, Fault, proxyVars, cluster, rollout, egressVars, loop,
         StepFits, Proxies
<1> QED
  BY <1>1, <1>2, <1>3, <1>4, <1>5, <1>6 DEF LoopInvariant

\* The router's rule is in place, or DERP is not measured.
LEMMA BlockRelayPortKeeps ==
    ASSUME LoopInvariant, BlockRelayPort, UNCHANGED <<proxyVars, loop>>
    PROVE  LoopInvariant'
<1>1. TypeOK'
  <2>1. /\ rules' \in SUBSET Hosts /\ refused' \in SUBSET Hosts
        /\ bad' \in BOOLEAN /\ faults' \in 0..MaxFaults
    BY RuleIsAdded DEF LoopInvariant, BlockRelayPort, Hosts
  <2>2. want' \in Paths
    BY DEF LoopInvariant, TypeOK, BlockRelayPort, AddRule, At, Goto, pathVars,
          proxyVars, cluster, rollout, egressVars, loop, Paths
  <2> QED
    BY <2>1, <2>2
       DEF LoopInvariant, TypeOK, BlockRelayPort, AddRule, At, Goto, pathVars,
          proxyVars, cluster, rollout, egressVars, loop, AppliesTo, Settings
<1>2. StepFits'
  BY DEF LoopInvariant, StepFits, BlockRelayPort, AddRule, At, Goto, Fault,
         proxyVars, cluster, rollout, egressVars, loop, Paths, TypeOK
<1>3. LeftoversMeanFailure'
  BY DEF LoopInvariant, LeftoversMeanFailure, BlockRelayPort, AddRule, At, Goto,
         Fault, proxyVars, cluster, rollout, egressVars, loop, StepFits
<1>4. NetworkIsRestored'
  BY DEF LoopInvariant, NetworkIsRestored, BlockRelayPort, AddRule, At, Goto,
         Fault, proxyVars, cluster, rollout, egressVars, loop, StepFits, Paths,
         TypeOK, Hosts
<1>5. PathsAreBlocked' /\ PathsAreConfirmed'
  BY DEF LoopInvariant, PathsAreBlocked, PathsAreConfirmed, NoFaster,
         BlockRelayPort, AddRule, At, Goto, Fault, proxyVars, cluster, rollout,
         egressVars, loop, StepFits, TypeOK, Hosts, Paths
<1>6. RolloutIsTracked' /\ EgressIsTracked'
  BY DEF LoopInvariant, RolloutIsTracked, EgressIsTracked, BlockRelayPort,
         AddRule, At, Goto, Fault, proxyVars, cluster, rollout, egressVars,
         loop, StepFits, Proxies
<1> QED
  BY <1>1, <1>2, <1>3, <1>4, <1>5, <1>6 DEF LoopInvariant

\* The first step back.
LEMMA UnblockRelayPortKeeps ==
    ASSUME LoopInvariant, UnblockRelayPort, UNCHANGED <<proxyVars, loop>>
    PROVE  LoopInvariant'
<1>1. TypeOK'
  <2>1. /\ rules' \in SUBSET Hosts /\ refused' \in SUBSET Hosts
        /\ bad' \in BOOLEAN /\ faults' \in 0..MaxFaults
    BY RuleIsRemoved DEF LoopInvariant, UnblockRelayPort, Hosts
  <2> QED
    BY <2>1
       DEF LoopInvariant, TypeOK, UnblockRelayPort, RemoveRule, At, Goto, pathVars,
          proxyVars, cluster, rollout, egressVars, loop, AppliesTo, Settings
<1>2. StepFits'
  BY DEF LoopInvariant, StepFits, UnblockRelayPort, RemoveRule, At, Goto, Fault,
         proxyVars, cluster, rollout, egressVars, loop, Paths, TypeOK
<1>3. LeftoversMeanFailure'
  BY DEF LoopInvariant, LeftoversMeanFailure, UnblockRelayPort, RemoveRule, At,
         Goto, Fault, proxyVars, cluster, rollout, egressVars, loop, StepFits
<1>4. NetworkIsRestored'
  BY DEF LoopInvariant, NetworkIsRestored, UnblockRelayPort, RemoveRule, At,
         Goto, Fault, proxyVars, cluster, rollout, egressVars, loop, StepFits,
         Paths, TypeOK, Hosts
<1>5. PathsAreBlocked' /\ PathsAreConfirmed'
  BY DEF LoopInvariant, PathsAreBlocked, PathsAreConfirmed, NoFaster,
         UnblockRelayPort, RemoveRule, At, Goto, Fault, proxyVars, cluster,
         rollout, egressVars, loop, StepFits, TypeOK, Hosts, Paths
<1>6. RolloutIsTracked' /\ EgressIsTracked'
  BY DEF LoopInvariant, RolloutIsTracked, EgressIsTracked, UnblockRelayPort,
         RemoveRule, At, Goto, Fault, proxyVars, cluster, rollout, egressVars,
         loop, StepFits, Proxies
<1> QED
  BY <1>1, <1>2, <1>3, <1>4, <1>5, <1>6 DEF LoopInvariant

\* The second step back.
LEMMA UnblockClientKeeps ==
    ASSUME LoopInvariant, UnblockClient, UNCHANGED <<proxyVars, loop>>
    PROVE  LoopInvariant'
<1>1. TypeOK'
  <2>1. /\ rules' \in SUBSET Hosts /\ refused' \in SUBSET Hosts
        /\ bad' \in BOOLEAN /\ faults' \in 0..MaxFaults
    BY RuleIsRemoved DEF LoopInvariant, UnblockClient, Hosts
  <2> QED
    BY <2>1
       DEF LoopInvariant, TypeOK, UnblockClient, RemoveRule, At, Goto, pathVars,
          proxyVars, cluster, rollout, egressVars, loop, AppliesTo, Settings
<1>2. StepFits'
  BY DEF LoopInvariant, StepFits, UnblockClient, RemoveRule, At, Goto, Fault,
         proxyVars, cluster, rollout, egressVars, loop, Paths, TypeOK
<1>3. LeftoversMeanFailure'
  BY DEF LoopInvariant, LeftoversMeanFailure, UnblockClient, RemoveRule, At, Goto,
         Fault, proxyVars, cluster, rollout, egressVars, loop, StepFits
<1>4. NetworkIsRestored'
  BY DEF LoopInvariant, NetworkIsRestored, UnblockClient, RemoveRule, At, Goto,
         Fault, proxyVars, cluster, rollout, egressVars, loop, StepFits, Paths,
         TypeOK, Hosts
<1>5. PathsAreBlocked' /\ PathsAreConfirmed'
  BY DEF LoopInvariant, PathsAreBlocked, PathsAreConfirmed, NoFaster,
         UnblockClient, RemoveRule, At, Goto, Fault, proxyVars, cluster,
         rollout, egressVars, loop, StepFits, TypeOK, Hosts, Paths
<1>6. RolloutIsTracked' /\ EgressIsTracked'
  BY DEF LoopInvariant, RolloutIsTracked, EgressIsTracked, UnblockClient,
         RemoveRule, At, Goto, Fault, proxyVars, cluster, rollout, egressVars,
         loop, StepFits, Proxies
<1> QED
  BY <1>1, <1>2, <1>3, <1>4, <1>5, <1>6 DEF LoopInvariant

\* The last step back: a result means that no rule is left.
LEMMA UnblockServerKeeps ==
    ASSUME LoopInvariant, UnblockServer, UNCHANGED <<proxyVars, loop>>
    PROVE  LoopInvariant'
<1>1. TypeOK'
  <2>1. /\ rules' \in SUBSET Hosts /\ refused' \in SUBSET Hosts
        /\ bad' \in BOOLEAN /\ faults' \in 0..MaxFaults
    BY RuleIsRemoved DEF LoopInvariant, UnblockServer, Hosts
  <2> QED
    BY <2>1
       DEF LoopInvariant, TypeOK, UnblockServer, RemoveRule, At, Goto, pathVars,
          proxyVars, cluster, rollout, egressVars, loop, AppliesTo, Settings
<1>2. StepFits'
  BY DEF LoopInvariant, StepFits, UnblockServer, RemoveRule, At, Goto, Fault,
         proxyVars, cluster, rollout, egressVars, loop, Paths, TypeOK
<1>3. LeftoversMeanFailure'
  BY DEF LoopInvariant, LeftoversMeanFailure, UnblockServer, RemoveRule, At, Goto,
         Fault, proxyVars, cluster, rollout, egressVars, loop, StepFits
<1>4. NetworkIsRestored'
  BY DEF LoopInvariant, NetworkIsRestored, UnblockServer, RemoveRule, At, Goto,
         Fault, proxyVars, cluster, rollout, egressVars, loop, StepFits, Paths,
         TypeOK, Hosts
<1>5. PathsAreBlocked' /\ PathsAreConfirmed'
  BY DEF LoopInvariant, PathsAreBlocked, PathsAreConfirmed, NoFaster,
         UnblockServer, RemoveRule, At, Goto, Fault, proxyVars, cluster,
         rollout, egressVars, loop, StepFits, TypeOK, Hosts, Paths
<1>6. RolloutIsTracked' /\ EgressIsTracked'
  BY DEF LoopInvariant, RolloutIsTracked, EgressIsTracked, UnblockServer,
         RemoveRule, At, Goto, Fault, proxyVars, cluster, rollout, egressVars,
         loop, StepFits, Proxies
<1> QED
  BY <1>1, <1>2, <1>3, <1>4, <1>5, <1>6 DEF LoopInvariant

\* A settled snapshot names the setting that all proxies have.
LEMMA SnapshotKeeps ==
    ASSUME LoopInvariant, Snapshot, UNCHANGED <<pathVars, loop>>
    PROVE  LoopInvariant'
<1>1. TypeOK'
  <2>1. faults' \in 0..MaxFaults
    BY FaultsAreCounted DEF LoopInvariant, Snapshot, At, Goto
  <2>2. before' \in [revision : Settings \cup {"none"}, setting : Settings,
                   settled : BOOLEAN]
    BY Snapshots
       DEF LoopInvariant, TypeOK, Snapshot, At, Goto, pathVars, proxyVars,
           cluster, rollout, egressVars, loop
  <2> QED
    BY <2>1, <2>2
       DEF LoopInvariant, TypeOK, Snapshot, At, Goto, pathVars, proxyVars,
           cluster, rollout, egressVars, loop, AppliesTo, Settings
<1>2. StepFits'
  BY DEF LoopInvariant, StepFits, Snapshot, At, Goto, Fault, pathVars, cluster,
         rollout, egressVars, loop
<1>3. LeftoversMeanFailure'
  BY DEF LoopInvariant, LeftoversMeanFailure, Snapshot, At, Goto, Fault, pathVars,
         cluster, rollout, egressVars, loop, StepFits
<1>4. NetworkIsRestored'
  BY DEF LoopInvariant, NetworkIsRestored, Snapshot, At, Goto, Fault, pathVars,
         cluster, rollout, egressVars, loop, StepFits
<1>5. PathsAreBlocked' /\ PathsAreConfirmed'
  BY DEF LoopInvariant, PathsAreBlocked, PathsAreConfirmed, NoFaster, Snapshot,
         At, Goto, Fault, pathVars, cluster, rollout, egressVars, loop, StepFits
<1>6. RolloutIsTracked' /\ EgressIsTracked'
  BY EnvironmentsAssumption
     DEF LoopInvariant, RolloutIsTracked, EgressIsTracked, Snapshot, At, Goto,
         Fault, pathVars, cluster, rollout, egressVars, loop, StepFits, TypeOK,
         Proxies, RollsOut, Settled, Setting, Settings, AppliesTo, NoSnapshot
<1> QED
  BY <1>1, <1>2, <1>3, <1>4, <1>5, <1>6 DEF LoopInvariant

\* From here the ProxyClass is the mode's.
LEMMA DeployProxyGroupKeeps ==
    ASSUME LoopInvariant, DeployProxyGroup, UNCHANGED <<pathVars, loop>>
    PROVE  LoopInvariant'
<1>1. TypeOK'
  BY MaxFaultsAssumption, MaxPairsAssumption
     DEF LoopInvariant, TypeOK, DeployProxyGroup, egressVars, At, Goto, Then,
         FailMode, Fault, pathVars, loop, AppliesTo, Hosts, Paths, Settings,
         Setting
<1>2. StepFits'
  BY DEF LoopInvariant, StepFits, DeployProxyGroup, At, Goto, Then, FailMode,
         Fault, pathVars, loop
<1>3. LeftoversMeanFailure'
  BY DEF LoopInvariant, LeftoversMeanFailure, DeployProxyGroup, At, Goto, Then,
         FailMode, Fault, pathVars, loop, StepFits
<1>4. NetworkIsRestored'
  BY DEF LoopInvariant, NetworkIsRestored, DeployProxyGroup, At, Goto, Then,
         FailMode, Fault, pathVars, loop, StepFits
<1>5. PathsAreBlocked' /\ PathsAreConfirmed'
  BY DEF LoopInvariant, PathsAreBlocked, PathsAreConfirmed, NoFaster,
         DeployProxyGroup, At, Goto, Then, FailMode, Fault, pathVars, loop,
         StepFits
<1>6. RolloutIsTracked' /\ EgressIsTracked'
  BY EnvironmentsAssumption
     DEF LoopInvariant, RolloutIsTracked, EgressIsTracked, DeployProxyGroup,
         egressVars, At, Goto, Then, FailMode, Fault, pathVars, loop, StepFits,
         TypeOK, Proxies, RollsOut, Settled, Setting, Settings, AppliesTo
<1> QED
  BY <1>1, <1>2, <1>3, <1>4, <1>5, <1>6 DEF LoopInvariant

\* A wait that ends well has seen the mode's revision become the current one.
LEMMA WaitForProxyGroupReadyKeeps ==
    ASSUME LoopInvariant, WaitForProxyGroupReady, UNCHANGED <<pathVars, loop>>
    PROVE  LoopInvariant'
<1>1. TypeOK'
  BY MaxFaultsAssumption, MaxPairsAssumption
     DEF LoopInvariant, TypeOK, WaitForProxyGroupReady, At, Goto, Then,
         TimedOut, pathVars, proxyVars, cluster, rollout, egressVars, loop,
         AppliesTo, Hosts, Paths, Settings, Setting
<1>2. StepFits'
  BY DEF LoopInvariant, StepFits, WaitForProxyGroupReady, At, Goto, Then,
         TimedOut, pathVars, proxyVars, cluster, rollout, egressVars, loop
<1>3. LeftoversMeanFailure'
  BY DEF LoopInvariant, LeftoversMeanFailure, WaitForProxyGroupReady, At, Goto,
         Then, TimedOut, pathVars, proxyVars, cluster, rollout, egressVars,
         loop, StepFits
<1>4. NetworkIsRestored'
  BY DEF LoopInvariant, NetworkIsRestored, WaitForProxyGroupReady, At, Goto, Then,
         TimedOut, pathVars, proxyVars, cluster, rollout, egressVars, loop, StepFits
<1>5. PathsAreBlocked' /\ PathsAreConfirmed'
  BY DEF LoopInvariant, PathsAreBlocked, PathsAreConfirmed, NoFaster,
         WaitForProxyGroupReady, At, Goto, Then, TimedOut, pathVars, proxyVars,
         cluster, rollout, egressVars, loop, StepFits
<1>6. RolloutIsTracked' /\ EgressIsTracked'
  BY EnvironmentsAssumption
     DEF LoopInvariant, RolloutIsTracked, EgressIsTracked,
         WaitForProxyGroupReady, At, Goto, Then, TimedOut, pathVars, proxyVars,
         cluster, rollout, egressVars, loop, StepFits, TypeOK, Proxies,
         RollsOut, Settled, Setting, Settings, RolloutReady, AppliesTo
<1> QED
  BY <1>1, <1>2, <1>3, <1>4, <1>5, <1>6 DEF LoopInvariant

\* The service is the pair's own from here on, or being deleted first.
LEMMA EnsureEgressServiceKeeps ==
    ASSUME LoopInvariant, EnsureEgressService(pair), UNCHANGED <<pathVars, loop>>
    PROVE  LoopInvariant'
<1>0. UNCHANGED <<rollout, before, swept>> /\ UNCHANGED mode
  BY DEF EnsureEgressService, Then, FailMode, Goto
<1>1. TypeOK'
  <2>1. faults' \in 0..MaxFaults /\ UNCHANGED bad
    BY FaultsAreCounted
       DEF LoopInvariant, EnsureEgressService, At, Goto, Then, FailMode
  <2>2. EgressTyped'
    BY ServiceIsTyped DEF LoopInvariant, EnsureEgressService
  <2> QED
    BY <1>0, <2>1, <2>2
       DEF LoopInvariant, TypeOK, EgressTyped, pathVars, rollout, loop, AppliesTo,
           Settings
<1>2. StepFits'
  BY DEF LoopInvariant, StepFits, EnsureEgressService, At, Goto, Then, FailMode,
         Fault, pathVars, loop
<1>3. LeftoversMeanFailure'
  BY <1>0 DEF LoopInvariant, LeftoversMeanFailure, pathVars, loop
<1>4. NetworkIsRestored'
  BY DEF LoopInvariant, NetworkIsRestored, EnsureEgressService, At, Goto, Then, 
         FailMode, Fault, pathVars, loop, StepFits
<1>5. PathsAreBlocked' /\ PathsAreConfirmed'
  BY DEF LoopInvariant, PathsAreBlocked, PathsAreConfirmed, NoFaster,
         EnsureEgressService, At, Goto, Then, FailMode, Fault, pathVars, loop,
         StepFits
<1>6. RolloutIsTracked'
  BY <1>0, EnvironmentsAssumption
     DEF LoopInvariant, RolloutIsTracked, EnsureEgressService, At, Goto, Then, 
         FailMode, Fault, rollout, loop, StepFits, TypeOK, Proxies,
         RollsOut, Settled, Setting, Settings, AppliesTo
<1>7. EgressIsTracked'
  BY <1>0 DEF LoopInvariant, EgressIsTracked, EnsureEgressService, At, Goto, Then, 
         FailMode, Fault, CreateService, UpdateService, DeleteService, egressVars,
         loop, StepFits, TypeOK, Proxies
<1> QED
  BY <1>1, <1>2, <1>3, <1>4, <1>5, <1>6, <1>7 DEF LoopInvariant

\* Once it is gone, a new one of the right type.
LEMMA RecreateEgressServiceKeeps ==
    ASSUME LoopInvariant, RecreateEgressService(pair), UNCHANGED <<pathVars, loop>>
    PROVE  LoopInvariant'
<1>0. UNCHANGED <<rollout, before, swept>> /\ UNCHANGED mode
  BY DEF RecreateEgressService, Then, FailMode, TimedOut, Goto
<1>1. TypeOK'
  <2>1. faults' \in 0..MaxFaults /\ UNCHANGED bad
    BY FaultsAreCounted
       DEF LoopInvariant, RecreateEgressService, At, Goto, Then, TimedOut, FailMode
  <2>2. EgressTyped'
    BY ServiceIsTyped DEF LoopInvariant, RecreateEgressService
  <2> QED
    BY <1>0, <2>1, <2>2
       DEF LoopInvariant, TypeOK, EgressTyped, pathVars, rollout, loop, AppliesTo,
           Settings
<1>2. StepFits'
  BY DEF LoopInvariant, StepFits, RecreateEgressService, At, Goto, Then,
         TimedOut, FailMode, Fault, pathVars, loop
<1>3. LeftoversMeanFailure'
  BY <1>0 DEF LoopInvariant, LeftoversMeanFailure, pathVars, loop
<1>4. NetworkIsRestored'
  BY DEF LoopInvariant, NetworkIsRestored, RecreateEgressService, At, Goto,
         Then, TimedOut, FailMode, Fault, pathVars, loop, StepFits
<1>5. PathsAreBlocked' /\ PathsAreConfirmed'
  BY DEF LoopInvariant, PathsAreBlocked, PathsAreConfirmed, NoFaster,
         RecreateEgressService, At, Goto, Then, TimedOut, FailMode, Fault,
         pathVars, loop, StepFits
<1>6. RolloutIsTracked'
  BY <1>0, EnvironmentsAssumption
     DEF LoopInvariant, RolloutIsTracked, RecreateEgressService, At, Goto, Then,
         TimedOut, FailMode, Fault, rollout, loop, StepFits, TypeOK, Proxies,
         RollsOut, Settled, Setting, Settings, AppliesTo
<1>7. EgressIsTracked'
  BY <1>0
     DEF LoopInvariant, EgressIsTracked, RecreateEgressService, At, Goto, Then,
         TimedOut, FailMode, Fault, CreateService, UpdateService, DeleteService,
         egressVars, loop, StepFits, TypeOK, Proxies
<1> QED
  BY <1>1, <1>2, <1>3, <1>4, <1>5, <1>6, <1>7 DEF LoopInvariant

\* Routed or given up.
LEMMA WaitForEgressKeeps ==
    ASSUME LoopInvariant, WaitForEgress, UNCHANGED <<pathVars, loop>>
    PROVE  LoopInvariant'
<1>1. TypeOK'
  BY MaxFaultsAssumption, MaxPairsAssumption
     DEF LoopInvariant, TypeOK, WaitForEgress, At, Goto, Then, TimedOut,
         pathVars, proxyVars, cluster, rollout, egressVars, loop, AppliesTo,
         Hosts, Paths, Settings
<1>2. StepFits'
  BY DEF LoopInvariant, StepFits, WaitForEgress, At, Goto, Then, TimedOut,
         pathVars, proxyVars, cluster, rollout, egressVars, loop
<1>3. LeftoversMeanFailure'
  BY DEF LoopInvariant, LeftoversMeanFailure, WaitForEgress, At, Goto, Then,
         TimedOut, pathVars, proxyVars, cluster, rollout, egressVars, loop, StepFits
<1>4. NetworkIsRestored'
  BY DEF LoopInvariant, NetworkIsRestored, WaitForEgress, At, Goto, Then,
         TimedOut, pathVars, proxyVars, cluster, rollout, egressVars, loop, StepFits
<1>5. PathsAreBlocked' /\ PathsAreConfirmed'
  BY DEF LoopInvariant, PathsAreBlocked, PathsAreConfirmed, NoFaster,
         WaitForEgress, At, Goto, Then, TimedOut, pathVars, proxyVars, cluster,
         rollout, egressVars, loop, StepFits
<1>6. RolloutIsTracked' /\ EgressIsTracked'
  BY EnvironmentsAssumption
     DEF LoopInvariant, RolloutIsTracked, EgressIsTracked, WaitForEgress, At,
         Goto, Then, TimedOut, pathVars, proxyVars, cluster, rollout,
         egressVars, loop, StepFits, TypeOK, Proxies, RollsOut, Settled,
         Setting, Settings, AppliesTo
<1> QED
  BY <1>1, <1>2, <1>3, <1>4, <1>5, <1>6 DEF LoopInvariant

\* All proxies have the mode's setting while the sweep runs.
LEMMA SweepThroughProxiesKeeps ==
    ASSUME LoopInvariant, SweepThroughProxies, UNCHANGED <<pathVars, loop>>
    PROVE  LoopInvariant'
<1>1. TypeOK'
  <2>1. faults' \in 0..MaxFaults
    BY FaultsAreCounted
       DEF LoopInvariant, SweepThroughProxies, At, Goto, Then, FailMode
  <2>2. swept' \in [settings : SUBSET (Settings \cup {"none"}), pair : 0..MaxPairs,
                    stale : BOOLEAN]
    BY Sweeps
       DEF LoopInvariant, TypeOK, SweepThroughProxies, At, Goto, Then, FailMode,
           pathVars, proxyVars, cluster, rollout, egressVars, loop
  <2> QED
    BY <2>1, <2>2
       DEF LoopInvariant, TypeOK, SweepThroughProxies, At, Goto, Then, FailMode,
           pathVars, proxyVars, cluster, rollout, egressVars, loop, AppliesTo,
           Settings
<1>2. StepFits'
  BY DEF LoopInvariant, StepFits, SweepThroughProxies, At, Goto, Then, FailMode,
         Fault, pathVars, cluster, rollout, egressVars, loop
<1>3. LeftoversMeanFailure'
  BY DEF LoopInvariant, LeftoversMeanFailure, SweepThroughProxies, At, Goto, Then,
         FailMode, Fault, pathVars, cluster, rollout, egressVars, loop, StepFits
<1>4. NetworkIsRestored'
  BY DEF LoopInvariant, NetworkIsRestored, SweepThroughProxies, At, Goto, Then,
         FailMode, Fault, pathVars, cluster, rollout, egressVars, loop, StepFits
<1>5. PathsAreBlocked' /\ PathsAreConfirmed'
  BY DEF LoopInvariant, PathsAreBlocked, PathsAreConfirmed, NoFaster,
         SweepThroughProxies, At, Goto, Then, FailMode, Fault, pathVars,
         cluster, rollout, egressVars, loop, StepFits
<1>6. RolloutIsTracked' /\ EgressIsTracked'
  <2>1. ASSUME at' = "write", before.settled
        PROVE  swept'.settings = {Setting(mode)}
    <3>1. \A r \in Replicas : pods[r] = Setting(mode)
      BY <2>1 DEF LoopInvariant, StepFits, RolloutIsTracked, RollsOut, Proxies,
         SweepThroughProxies, At
    <3>2. swept'.settings = {pods[r] : r \in Replicas}
      BY <2>1 DEF SweepThroughProxies, FailMode, Goto
    <3> QED
      BY <3>1, <3>2, ReplicasAssumption
  <2> QED
    BY <2>1
       DEF LoopInvariant, RolloutIsTracked, EgressIsTracked, StepFits,
           SweepThroughProxies, At, Goto, Then, FailMode, proxyVars, cluster,
           rollout, egressVars, loop, Proxies, RollsOut, Settled
<1> QED
  BY <1>1, <1>2, <1>3, <1>4, <1>5, <1>6 DEF LoopInvariant

\* The plain modes change neither the network nor the cluster.
LEMMA VerifyLANKeeps ==
    ASSUME LoopInvariant, VerifyLAN
    PROVE  LoopInvariant'
<1>1. TypeOK'
  BY MaxFaultsAssumption, MaxPairsAssumption
     DEF LoopInvariant, TypeOK, VerifyLAN, At, Goto, Then, FailMode, Fault,
         pathVars, proxyVars, cluster, rollout, egressVars, loop, AppliesTo,
         Hosts, Paths, Settings
<1>2. StepFits'
  BY DEF LoopInvariant, StepFits, VerifyLAN, At, Goto, Then, FailMode, Fault,
         pathVars, proxyVars, cluster, rollout, egressVars, loop
<1>3. LeftoversMeanFailure'
  BY DEF LoopInvariant, LeftoversMeanFailure, VerifyLAN, At, Goto, Then, FailMode,
         Fault, pathVars, proxyVars, cluster, rollout, egressVars, loop, StepFits,
         NetworkIsRestored
<1>4. NetworkIsRestored'
  BY DEF LoopInvariant, NetworkIsRestored, VerifyLAN, At, Goto, Then, FailMode,
         Fault, pathVars, proxyVars, cluster, rollout, egressVars, loop, StepFits
<1>5. PathsAreBlocked' /\ PathsAreConfirmed'
  BY DEF LoopInvariant, PathsAreBlocked, PathsAreConfirmed, NoFaster, VerifyLAN,
         At, Goto, Then, FailMode, Fault, pathVars, proxyVars, cluster, rollout,
         egressVars, loop, StepFits
<1>6. RolloutIsTracked' /\ EgressIsTracked'
  BY DEF LoopInvariant, RolloutIsTracked, EgressIsTracked, VerifyLAN, At, Goto,
         Then, FailMode, Fault, pathVars, proxyVars, cluster, rollout,
         egressVars, loop, StepFits, Proxies
<1> QED
  BY <1>1, <1>2, <1>3, <1>4, <1>5, <1>6 DEF LoopInvariant

\* Throughput and latency over the tailnet.
LEMMA RunFullKeeps ==
    ASSUME LoopInvariant, RunFull
    PROVE  LoopInvariant'
<1>1. TypeOK'
  BY MaxFaultsAssumption, MaxPairsAssumption
     DEF LoopInvariant, TypeOK, RunFull, WaitForPeer, At, Goto, Then, FailMode,
         TimedOut, Fault, pathVars, proxyVars, cluster, rollout, egressVars,
         loop, AppliesTo, Hosts, Paths, Settings
<1>2. StepFits'
  BY DEF LoopInvariant, StepFits, RunFull, WaitForPeer, At, Goto, Then, FailMode,
         TimedOut, Fault, pathVars, proxyVars, cluster, rollout, egressVars, loop
<1>3. LeftoversMeanFailure'
  BY DEF LoopInvariant, LeftoversMeanFailure, RunFull, WaitForPeer, At, Goto,
         Then, FailMode, TimedOut, Fault, pathVars, proxyVars, cluster, rollout,
         egressVars, loop, StepFits, NetworkIsRestored
<1>4. NetworkIsRestored'
  BY DEF LoopInvariant, NetworkIsRestored, RunFull, WaitForPeer, At, Goto, Then,
         FailMode, TimedOut, Fault, pathVars, proxyVars, cluster, rollout,
         egressVars, loop, StepFits
<1>5. PathsAreBlocked' /\ PathsAreConfirmed'
  BY DEF LoopInvariant, PathsAreBlocked, PathsAreConfirmed, NoFaster, RunFull,
         WaitForPeer, At, Goto, Then, FailMode, TimedOut, Fault, pathVars,
         proxyVars, cluster, rollout, egressVars, loop, StepFits
<1>6. RolloutIsTracked' /\ EgressIsTracked'
  BY DEF LoopInvariant, RolloutIsTracked, EgressIsTracked, RunFull, WaitForPeer,
         At, Goto, Then, FailMode, TimedOut, Fault, pathVars, proxyVars,
         cluster, rollout, egressVars, loop, StepFits, Proxies
<1> QED
  BY <1>1, <1>2, <1>3, <1>4, <1>5, <1>6 DEF LoopInvariant

\* Endpoints of the HTTP modes.
LEMMA ResolveEndpointsKeeps ==
    ASSUME LoopInvariant, ResolveEndpoints
    PROVE  LoopInvariant'
<1>1. TypeOK'
  BY MaxFaultsAssumption, MaxPairsAssumption
     DEF LoopInvariant, TypeOK, ResolveEndpoints, At, Goto, Then, FailMode,
         Fault, pathVars, proxyVars, cluster, rollout, egressVars, loop,
         AppliesTo, Hosts, Paths, Settings
<1>2. StepFits'
  BY DEF LoopInvariant, StepFits, ResolveEndpoints, At, Goto, Then, FailMode,
         Fault, pathVars, proxyVars, cluster, rollout, egressVars, loop
<1>3. LeftoversMeanFailure'
  BY DEF LoopInvariant, LeftoversMeanFailure, ResolveEndpoints, At, Goto, Then,
         FailMode, Fault, pathVars, proxyVars, cluster, rollout, egressVars,
         loop, StepFits, NetworkIsRestored
<1>4. NetworkIsRestored'
  BY DEF LoopInvariant, NetworkIsRestored, ResolveEndpoints, At, Goto, Then,
         FailMode, Fault, pathVars, proxyVars, cluster, rollout, egressVars,
         loop, StepFits
<1>5. PathsAreBlocked' /\ PathsAreConfirmed'
  BY DEF LoopInvariant, PathsAreBlocked, PathsAreConfirmed, NoFaster,
         ResolveEndpoints, At, Goto, Then, FailMode, Fault, pathVars, proxyVars,
         cluster, rollout, egressVars, loop, StepFits
<1>6. RolloutIsTracked' /\ EgressIsTracked'
  BY DEF LoopInvariant, RolloutIsTracked, EgressIsTracked, ResolveEndpoints, At,
         Goto, Then, FailMode, Fault, pathVars, proxyVars, cluster, rollout,
         egressVars, loop, StepFits, Proxies
<1> QED
  BY <1>1, <1>2, <1>3, <1>4, <1>5, <1>6 DEF LoopInvariant

\* The HTTP modes.
LEMMA RunFortioKeeps ==
    ASSUME LoopInvariant, RunFortio
    PROVE  LoopInvariant'
<1>1. TypeOK'
  BY MaxFaultsAssumption, MaxPairsAssumption
     DEF LoopInvariant, TypeOK, RunFortio, At, Goto, Then, FailMode, Fault,
         pathVars, proxyVars, cluster, rollout, egressVars, loop, AppliesTo,
         Hosts, Paths, Settings
<1>2. StepFits'
  BY DEF LoopInvariant, StepFits, RunFortio, At, Goto, Then, FailMode, Fault,
         pathVars, proxyVars, cluster, rollout, egressVars, loop
<1>3. LeftoversMeanFailure'
  BY DEF LoopInvariant, LeftoversMeanFailure, RunFortio, At, Goto, Then, FailMode,
         Fault, pathVars, proxyVars, cluster, rollout, egressVars, loop, StepFits,
         NetworkIsRestored
<1>4. NetworkIsRestored'
  BY DEF LoopInvariant, NetworkIsRestored, RunFortio, At, Goto, Then, FailMode,
         Fault, pathVars, proxyVars, cluster, rollout, egressVars, loop, StepFits
<1>5. PathsAreBlocked' /\ PathsAreConfirmed'
  BY DEF LoopInvariant, PathsAreBlocked, PathsAreConfirmed, NoFaster, RunFortio,
         At, Goto, Then, FailMode, Fault, pathVars, proxyVars, cluster, rollout,
         egressVars, loop, StepFits
<1>6. RolloutIsTracked' /\ EgressIsTracked'
  BY DEF LoopInvariant, RolloutIsTracked, EgressIsTracked, RunFortio, At, Goto,
         Then, FailMode, Fault, pathVars, proxyVars, cluster, rollout,
         egressVars, loop, StepFits, Proxies
<1> QED
  BY <1>1, <1>2, <1>3, <1>4, <1>5, <1>6 DEF LoopInvariant

\* A result is written of a mode that has cleaned up; one that cannot be is a
\* failure.
LEMMA WriteResultKeeps ==
    ASSUME LoopInvariant, WriteResult
    PROVE  LoopInvariant'
<1>1. TypeOK'
  <2>1. mode # "none" /\ (UNCHANGED faults \/ Fault)
    BY DEF LoopInvariant, StepFits, WriteResult, At
  <2>2. EndMode({}) \/ EndMode({mode})
    BY DEF WriteResult
  <2> QED
    BY <2>1, <2>2, ModeEnds, FaultsAreCounted DEF LoopInvariant
<1>2. StepFits'
  BY DEF LoopInvariant, StepFits, WriteResult, EndMode, At, Fault, cluster,
         rollout, egressVars, loop
<1>3. LeftoversMeanFailure'
  BY DEF LoopInvariant, LeftoversMeanFailure, WriteResult, EndMode, At, Fault,
         cluster, rollout, egressVars, loop, StepFits, NetworkIsRestored
<1>4. NetworkIsRestored'
  BY DEF LoopInvariant, NetworkIsRestored, WriteResult, EndMode, At, Fault,
         cluster, rollout, egressVars, loop, StepFits
<1>5. PathsAreBlocked' /\ PathsAreConfirmed'
  BY DEF LoopInvariant, PathsAreBlocked, PathsAreConfirmed, NoFaster,
         WriteResult, EndMode, At, Fault, cluster, rollout, egressVars, loop,
         StepFits, NothingMeasured, Paths
<1>6. RolloutIsTracked' /\ EgressIsTracked'
  BY DEF LoopInvariant, RolloutIsTracked, EgressIsTracked, WriteResult, EndMode,
         At, Fault, cluster, rollout, egressVars, loop, StepFits, Proxies
<1> QED
  BY <1>1, <1>2, <1>3, <1>4, <1>5, <1>6 DEF LoopInvariant

\* A failed mode is recorded, with whatever it left.
LEMMA ModeFailsKeeps ==
    ASSUME LoopInvariant, ModeFails
    PROVE  LoopInvariant'
<1>1. TypeOK'
  <2>1. mode # "none" /\ EndMode({mode}) /\ UNCHANGED faults
    BY DEF LoopInvariant, StepFits, ModeFails, At
  <2> QED
    BY <2>1, ModeEnds, FaultsAreCounted DEF LoopInvariant
<1>2. StepFits'
  BY DEF LoopInvariant, StepFits, ModeFails, EndMode, At, cluster, rollout,
         egressVars, loop
<1>3. LeftoversMeanFailure'
  BY DEF LoopInvariant, LeftoversMeanFailure, ModeFails, EndMode, At, cluster,
         rollout, egressVars, loop, StepFits, NetworkIsRestored
<1>4. NetworkIsRestored'
  BY DEF LoopInvariant, NetworkIsRestored, ModeFails, EndMode, At, cluster,
         rollout, egressVars, loop, StepFits
<1>5. PathsAreBlocked' /\ PathsAreConfirmed'
  BY DEF LoopInvariant, PathsAreBlocked, PathsAreConfirmed, NoFaster, ModeFails,
         EndMode, At, cluster, rollout, egressVars, loop, StepFits,
         NothingMeasured, Paths
<1>6. RolloutIsTracked' /\ EgressIsTracked'
  BY DEF LoopInvariant, RolloutIsTracked, EgressIsTracked, ModeFails, EndMode,
         At, cluster, rollout, egressVars, loop, StepFits, Proxies
<1> QED
  BY <1>1, <1>2, <1>3, <1>4, <1>5, <1>6 DEF LoopInvariant

\* New machines without rules, the same cluster.
LEMMA NextPairKeeps ==
    ASSUME LoopInvariant, NextPair
    PROVE  LoopInvariant'
<1>1. TypeOK'
  <2>1. rules' \in SUBSET Hosts
    BY DEF NextPair
  <2>2. /\ todo' \subseteq AppliesTo(env)' /\ failed' \subseteq AppliesTo(env)'
        /\ mode' \notin todo' \cup failed' /\ todo' \cap failed' = {}
    BY DEF LoopInvariant, TypeOK, NextPair, steps, pathVars, proxyVars, cluster,
           rollout, egressVars, loop, AppliesTo, StepFits
  <2>3. pair' \in 1..MaxPairs
    BY MaxPairsAssumption
       DEF LoopInvariant, TypeOK, NextPair, steps, pathVars, proxyVars, cluster,
           rollout, egressVars, loop
  <2>4. /\ path' \in Paths /\ exitNode' = FALSE /\ refused' = {}
        /\ UNCHANGED <<steps, want, ran, proxyVars, env>>
    BY DEF NextPair, Paths
  <2> QED
    BY <2>1, <2>2, <2>3, <2>4
       DEF LoopInvariant, TypeOK, steps, proxyVars, cluster, rollout, egressVars
<1>2. StepFits'
  BY DEF LoopInvariant, StepFits, NextPair, steps, proxyVars, cluster, rollout,
         egressVars, loop
<1>3. LeftoversMeanFailure'
  BY DEF LoopInvariant, LeftoversMeanFailure, NextPair, steps, proxyVars,
         cluster, rollout, egressVars, loop, StepFits, NetworkIsRestored
<1>4. NetworkIsRestored'
  BY DEF LoopInvariant, NetworkIsRestored, NextPair, steps, proxyVars, cluster,
         rollout, egressVars, loop, StepFits
<1>5. PathsAreBlocked' /\ PathsAreConfirmed'
  BY DEF LoopInvariant, PathsAreBlocked, PathsAreConfirmed, NoFaster, NextPair,
         steps, proxyVars, cluster, rollout, egressVars, loop, StepFits
<1>6. RolloutIsTracked' /\ EgressIsTracked'
  BY DEF LoopInvariant, RolloutIsTracked, EgressIsTracked, NextPair, steps,
         proxyVars, cluster, rollout, egressVars, loop, StepFits, Proxies
<1> QED
  BY <1>1, <1>2, <1>3, <1>4, <1>5, <1>6 DEF LoopInvariant

\* A mode begins with nothing measured.
LEMMA StartModeKeeps ==
    ASSUME LoopInvariant, NEW m \in Modes, StartMode(m)
    PROVE  LoopInvariant'
<1>1. TypeOK'
  <2>1. /\ mode' = m /\ m \in todo /\ todo' = todo \ {m} /\ UNCHANGED <<env, failed>>
        /\ bad' = FALSE /\ UNCHANGED <<faults, pair>>
    BY DEF StartMode
  <2>2. /\ mode' \in AppliesTo(env) \cup {"none"} /\ todo' \subseteq AppliesTo(env)
        /\ mode' \notin todo' \cup failed /\ todo' \cap failed = {}
    BY <2>1 DEF LoopInvariant, TypeOK
  <2> QED
    BY <2>1, <2>2
       DEF LoopInvariant, TypeOK, StartMode, pathVars, proxyVars, cluster, rollout,
           egressVars, AppliesTo
<1>2. StepFits'
  BY DEF LoopInvariant, StepFits, StartMode, pathVars, proxyVars, cluster,
         rollout, egressVars, loop, FirstStep, Modes
<1>3. LeftoversMeanFailure'
  BY DEF LoopInvariant, LeftoversMeanFailure, StartMode, pathVars, proxyVars,
         cluster, rollout, egressVars, loop, TypeOK, StepFits
<1>4. NetworkIsRestored'
  BY DEF LoopInvariant, NetworkIsRestored, StartMode, pathVars, proxyVars,
         cluster, rollout, egressVars, FirstStep, Modes
<1>5. PathsAreBlocked' /\ PathsAreConfirmed'
  BY DEF LoopInvariant, PathsAreBlocked, PathsAreConfirmed, NoFaster, StartMode,
         pathVars, proxyVars, cluster, rollout, egressVars, loop, StepFits,
         FirstStep, Modes
<1>6. RolloutIsTracked' /\ EgressIsTracked'
  BY DEF LoopInvariant, RolloutIsTracked, EgressIsTracked, StartMode, pathVars,
         proxyVars, cluster, rollout, egressVars, FirstStep, Modes, Proxies
<1> QED
  BY <1>1, <1>2, <1>3, <1>4, <1>5, <1>6 DEF LoopInvariant

\* Tailscale moves to an open path only, and the rules closed the others.
LEMMA RerouteKeeps ==
    ASSUME LoopInvariant, Reroute, UNCHANGED <<proxyVars, loop>>
    PROVE  LoopInvariant'
<1>1. TypeOK'
  <2>1. path' \in Paths
    BY DEF LoopInvariant, TypeOK, Reroute, Measuring, At, steps, pathVars,
          proxyVars, cluster, rollout, egressVars, loop, Open, Paths
  <2>2. ran' \in [Paths -> SUBSET Paths]
    BY DEF LoopInvariant, TypeOK, Reroute, Measuring, At, steps, pathVars,
          proxyVars, cluster, rollout, egressVars, loop, Paths, Open
  <2> QED
    BY <2>1, <2>2
       DEF LoopInvariant, TypeOK, Reroute, Measuring, At, steps, pathVars,
          proxyVars, cluster, rollout, egressVars, loop, AppliesTo, Settings
<1>2. StepFits'
  BY DEF LoopInvariant, StepFits, Reroute, Measuring, At, steps, proxyVars,
         cluster, rollout, egressVars, loop
<1>3. LeftoversMeanFailure'
  BY DEF LoopInvariant, LeftoversMeanFailure, Reroute, Measuring, At, steps,
         proxyVars, cluster, rollout, egressVars, loop
<1>4. NetworkIsRestored'
  BY DEF LoopInvariant, NetworkIsRestored, Reroute, Measuring, At, steps,
         proxyVars, cluster, rollout, egressVars, loop
<1>5. PathsAreBlocked' /\ PathsAreConfirmed'
  BY DEF LoopInvariant, PathsAreBlocked, PathsAreConfirmed, NoFaster, Reroute,
         Measuring, At, steps, proxyVars, cluster, rollout, egressVars, loop,
         StepFits, TypeOK, Paths, Open
<1>6. RolloutIsTracked' /\ EgressIsTracked'
  BY DEF LoopInvariant, RolloutIsTracked, EgressIsTracked, Reroute, Measuring,
         At, steps, proxyVars, cluster, rollout, egressVars, loop, Proxies,
         RollsOut, Settled
<1> QED
  BY <1>1, <1>2, <1>3, <1>4, <1>5, <1>6 DEF LoopInvariant

\* The operator brings the template towards the ProxyClass.
LEMMA OperatorKeeps ==
    ASSUME LoopInvariant, Operator, UNCHANGED <<pathVars, loop>>
    PROVE  LoopInvariant'
<1>1. TypeOK'
  BY MaxFaultsAssumption, MaxPairsAssumption
     DEF LoopInvariant, TypeOK, Operator, steps, egressVars, pathVars, loop,
         AppliesTo, Hosts, Paths, Settings
<1>2. StepFits'
  BY DEF LoopInvariant, StepFits, Operator, steps, pathVars, loop
<1>3. LeftoversMeanFailure'
  BY DEF LoopInvariant, LeftoversMeanFailure, Operator, steps, pathVars, loop
<1>4. NetworkIsRestored'
  BY DEF LoopInvariant, NetworkIsRestored, Operator, steps, pathVars, loop
<1>5. PathsAreBlocked' /\ PathsAreConfirmed'
  BY DEF LoopInvariant, PathsAreBlocked, PathsAreConfirmed, NoFaster, Operator,
         steps, pathVars, loop
<1>6. RolloutIsTracked' /\ EgressIsTracked'
  BY DEF LoopInvariant, RolloutIsTracked, EgressIsTracked, Operator, steps,
         egressVars, pathVars, loop, StepFits, TypeOK, Proxies, RollsOut,
         Settled, Setting, Settings, AppliesTo
<1> QED
  BY <1>1, <1>2, <1>3, <1>4, <1>5, <1>6 DEF LoopInvariant

\* The controller's update revision follows the template.
LEMMA ObserveTemplateKeeps ==
    ASSUME LoopInvariant, ObserveTemplate, UNCHANGED <<pathVars, loop>>
    PROVE  LoopInvariant'
<1>1. TypeOK'
  BY MaxFaultsAssumption, MaxPairsAssumption
     DEF LoopInvariant, TypeOK, ObserveTemplate, steps, egressVars, pathVars,
         loop, AppliesTo, Hosts, Paths, Settings
<1>2. StepFits'
  BY DEF LoopInvariant, StepFits, ObserveTemplate, steps, pathVars, loop
<1>3. LeftoversMeanFailure'
  BY DEF LoopInvariant, LeftoversMeanFailure, ObserveTemplate, steps, pathVars,
         loop
<1>4. NetworkIsRestored'
  BY DEF LoopInvariant, NetworkIsRestored, ObserveTemplate, steps, pathVars, loop
<1>5. PathsAreBlocked' /\ PathsAreConfirmed'
  BY DEF LoopInvariant, PathsAreBlocked, PathsAreConfirmed, NoFaster,
         ObserveTemplate, steps, pathVars, loop
<1>6. RolloutIsTracked' /\ EgressIsTracked'
  BY DEF LoopInvariant, RolloutIsTracked, EgressIsTracked, ObserveTemplate,
         steps, egressVars, pathVars, loop, StepFits, TypeOK, Proxies, RollsOut,
         Settled, Setting, Settings, AppliesTo
<1> QED
  BY <1>1, <1>2, <1>3, <1>4, <1>5, <1>6 DEF LoopInvariant

\* Pods are replaced only while the roll-out is not finished.
LEMMA RollPodKeeps ==
    ASSUME LoopInvariant, NEW r \in Replicas, RollPod(r), UNCHANGED <<pathVars, loop>>
    PROVE  LoopInvariant'
<1>1. TypeOK'
  BY MaxFaultsAssumption, MaxPairsAssumption
     DEF LoopInvariant, TypeOK, RollPod, steps, egressVars, pathVars, loop,
         AppliesTo, Hosts, Paths, Settings
<1>2. StepFits'
  BY DEF LoopInvariant, StepFits, RollPod, steps, pathVars, loop
<1>3. LeftoversMeanFailure'
  BY DEF LoopInvariant, LeftoversMeanFailure, RollPod, steps, pathVars, loop
<1>4. NetworkIsRestored'
  BY DEF LoopInvariant, NetworkIsRestored, RollPod, steps, pathVars, loop
<1>5. PathsAreBlocked' /\ PathsAreConfirmed'
  BY DEF LoopInvariant, PathsAreBlocked, PathsAreConfirmed, NoFaster, RollPod,
         steps, pathVars, loop
<1>6. RolloutIsTracked' /\ EgressIsTracked'
  BY DEF LoopInvariant, RolloutIsTracked, EgressIsTracked, RollPod, steps,
         egressVars, pathVars, loop, StepFits, TypeOK, Proxies, RollsOut,
         Settled, Setting, Settings, AppliesTo
<1> QED
  BY <1>1, <1>2, <1>3, <1>4, <1>5, <1>6 DEF LoopInvariant

\* The current revision is the one that all pods have.
LEMMA FinishRolloutKeeps ==
    ASSUME LoopInvariant, FinishRollout, UNCHANGED <<pathVars, loop>>
    PROVE  LoopInvariant'
<1>1. TypeOK'
  BY MaxFaultsAssumption, MaxPairsAssumption
     DEF LoopInvariant, TypeOK, FinishRollout, steps, egressVars, pathVars,
         loop, AppliesTo, Hosts, Paths, Settings
<1>2. StepFits'
  BY DEF LoopInvariant, StepFits, FinishRollout, steps, pathVars, loop
<1>3. LeftoversMeanFailure'
  BY DEF LoopInvariant, LeftoversMeanFailure, FinishRollout, steps, pathVars,
         loop
<1>4. NetworkIsRestored'
  BY DEF LoopInvariant, NetworkIsRestored, FinishRollout, steps, pathVars, loop
<1>5. PathsAreBlocked' /\ PathsAreConfirmed'
  BY DEF LoopInvariant, PathsAreBlocked, PathsAreConfirmed, NoFaster,
         FinishRollout, steps, pathVars, loop
<1>6. RolloutIsTracked' /\ EgressIsTracked'
  BY DEF LoopInvariant, RolloutIsTracked, EgressIsTracked, FinishRollout, steps,
         egressVars, pathVars, loop, StepFits, TypeOK, Proxies, RollsOut,
         Settled, Setting, Settings, AppliesTo
<1> QED
  BY <1>1, <1>2, <1>3, <1>4, <1>5, <1>6 DEF LoopInvariant

\* A name for the service says nothing of its mapping.
LEMMA ResolveEgressKeeps ==
    ASSUME LoopInvariant, ResolveEgress, UNCHANGED <<pathVars, loop>>
    PROVE  LoopInvariant'
<1>1. TypeOK'
  BY MaxFaultsAssumption, MaxPairsAssumption
     DEF LoopInvariant, TypeOK, ResolveEgress, steps, rollout, pathVars, loop,
         AppliesTo, Hosts, Paths, Settings
<1>2. StepFits' /\ LeftoversMeanFailure' /\ NetworkIsRestored'
  BY DEF LoopInvariant, StepFits, LeftoversMeanFailure, NetworkIsRestored,
         ResolveEgress, steps, pathVars, loop
<1>3. PathsAreBlocked' /\ PathsAreConfirmed'
  BY DEF LoopInvariant, PathsAreBlocked, PathsAreConfirmed, ResolveEgress,
         steps, pathVars, loop
<1>4. RolloutIsTracked'
  BY DEF LoopInvariant, RolloutIsTracked, ResolveEgress, steps, rollout, loop,
         Proxies, RollsOut, Settled
<1>5. EgressIsTracked'
  BY DEF LoopInvariant, EgressIsTracked, ResolveEgress, steps, loop, StepFits,
         TypeOK, Proxies
<1> QED
  BY <1>1, <1>2, <1>3, <1>4, <1>5 DEF LoopInvariant

\* A mapping that is taken up is the one the service names.
LEMMA RouteEgressKeeps ==
    ASSUME LoopInvariant, RouteEgress, UNCHANGED <<pathVars, loop>>
    PROVE  LoopInvariant'
<1>1. TypeOK'
  BY MaxFaultsAssumption, MaxPairsAssumption
     DEF LoopInvariant, TypeOK, RouteEgress, steps, rollout, pathVars, loop,
         AppliesTo, Hosts, Paths, Settings
<1>2. StepFits' /\ LeftoversMeanFailure' /\ NetworkIsRestored'
  BY DEF LoopInvariant, StepFits, LeftoversMeanFailure, NetworkIsRestored,
         RouteEgress, steps, pathVars, loop
<1>3. PathsAreBlocked' /\ PathsAreConfirmed'
  BY DEF LoopInvariant, PathsAreBlocked, PathsAreConfirmed, RouteEgress, steps,
         pathVars, loop
<1>4. RolloutIsTracked'
  BY DEF LoopInvariant, RolloutIsTracked, RouteEgress, steps, rollout, loop,
         Proxies, RollsOut, Settled
<1>5. EgressIsTracked'
  BY DEF LoopInvariant, EgressIsTracked, RouteEgress, steps, loop, StepFits, TypeOK,
         Proxies
<1> QED
  BY <1>1, <1>2, <1>3, <1>4, <1>5 DEF LoopInvariant

\* A condition that becomes true tells of the mapping in place.
LEMMA ReportEgressKeeps ==
    ASSUME LoopInvariant, ReportEgress, UNCHANGED <<pathVars, loop>>
    PROVE  LoopInvariant'
<1>1. TypeOK'
  BY MaxFaultsAssumption, MaxPairsAssumption
     DEF LoopInvariant, TypeOK, ReportEgress, steps, rollout, pathVars, loop,
         AppliesTo, Hosts, Paths, Settings
<1>2. StepFits' /\ LeftoversMeanFailure' /\ NetworkIsRestored'
  BY DEF LoopInvariant, StepFits, LeftoversMeanFailure, NetworkIsRestored,
         ReportEgress, steps, pathVars, loop
<1>3. PathsAreBlocked' /\ PathsAreConfirmed'
  BY DEF LoopInvariant, PathsAreBlocked, PathsAreConfirmed, ReportEgress, steps,
         pathVars, loop
<1>4. RolloutIsTracked'
  BY DEF LoopInvariant, RolloutIsTracked, ReportEgress, steps, rollout, loop,
         Proxies, RollsOut, Settled
<1>5. EgressIsTracked'
  BY DEF LoopInvariant, EgressIsTracked, ReportEgress, steps, loop, StepFits,
         TypeOK, Proxies
<1> QED
  BY <1>1, <1>2, <1>3, <1>4, <1>5 DEF LoopInvariant

\* Only a service that is not in use is gone.
LEMMA RemoveServiceKeeps ==
    ASSUME LoopInvariant, RemoveService, UNCHANGED <<pathVars, loop>>
    PROVE  LoopInvariant'
<1>1. TypeOK'
  BY MaxFaultsAssumption, MaxPairsAssumption
     DEF LoopInvariant, TypeOK, RemoveService, steps, rollout, pathVars, loop,
         AppliesTo, Hosts, Paths, Settings
<1>2. StepFits' /\ LeftoversMeanFailure' /\ NetworkIsRestored'
  BY DEF LoopInvariant, StepFits, LeftoversMeanFailure, NetworkIsRestored,
         RemoveService, steps, pathVars, loop
<1>3. PathsAreBlocked' /\ PathsAreConfirmed'
  BY DEF LoopInvariant, PathsAreBlocked, PathsAreConfirmed, RemoveService,
         steps, pathVars, loop
<1>4. RolloutIsTracked'
  BY DEF LoopInvariant, RolloutIsTracked, RemoveService, steps, rollout, loop,
         Proxies, RollsOut, Settled
<1>5. EgressIsTracked'
  BY DEF LoopInvariant, EgressIsTracked, RemoveService, steps, loop, StepFits,
         TypeOK, Proxies
<1> QED
  BY <1>1, <1>2, <1>3, <1>4, <1>5 DEF LoopInvariant

-----------------------------------------------------------------------------
\* The first pair, fresh.
LEMMA InvariantInit == Init => LoopInvariant
<1> SUFFICES ASSUME Init PROVE LoopInvariant
  OBVIOUS
<1>1. TypeOK
  <2>1. before \in [revision : Settings \cup {"none"}, setting : Settings,
                    settled : BOOLEAN]
    BY Snapshots DEF Init, ProxyInit
  <2>2. ran \in [Paths -> SUBSET Paths] /\ path \in Paths /\ want \in Paths
    BY DEF Init, PathInit, Paths, NothingMeasured
  <2>3. /\ faults \in 0..MaxFaults /\ pair \in 1..MaxPairs
        /\ egress \in 0..MaxPairs /\ routed \in 0..MaxPairs
    BY MaxFaultsAssumption, MaxPairsAssumption DEF Init, ProxyInit
  <2>5. swept \in [settings : SUBSET (Settings \cup {"none"}), pair : 0..MaxPairs,
                   stale : BOOLEAN]
    <3>1. swept = NoSweep /\ 0 \in 0..MaxPairs
      BY MaxPairsAssumption DEF Init, ProxyInit
    <3> QED
      BY <3>1 DEF NoSweep
  <2>4. /\ env \in Environments /\ mode = "none" /\ todo = AppliesTo(env)
        /\ failed = {} /\ "none" \notin AppliesTo(env)
    BY DEF Init, AppliesTo
  <2> QED
    BY <2>1, <2>2, <2>3, <2>4, <2>5 DEF TypeOK, Init, PathInit, ProxyInit, Settings
<1>2. StepFits /\ LeftoversMeanFailure /\ NetworkIsRestored
  BY DEF Init, PathInit, StepFits, LeftoversMeanFailure, NetworkIsRestored
<1>3. PathsAreBlocked /\ PathsAreConfirmed
  BY DEF Init, PathInit, PathsAreBlocked, PathsAreConfirmed, NothingMeasured, Paths
<1>4. RolloutIsTracked /\ EgressIsTracked
  BY DEF Init, ProxyInit, RolloutIsTracked, EgressIsTracked, Proxies, Settings
<1> QED
  BY <1>1, <1>2, <1>3, <1>4 DEF LoopInvariant

\* Steps of nobody.
LEMMA StutterKeeps ==
    ASSUME LoopInvariant, UNCHANGED vars
    PROVE  LoopInvariant'
  BY DEF vars, steps, pathVars, proxyVars, cluster, rollout, egressVars, loop,
         LoopInvariant, TypeOK, StepFits, LeftoversMeanFailure,
         NetworkIsRestored, PathsAreBlocked, PathsAreConfirmed,
         RolloutIsTracked, EgressIsTracked, RollsOut, Settled

\* Any step of the virtual machines' modes.
LEMMA PathStepKeeps ==
    ASSUME LoopInvariant, PathStep, UNCHANGED <<proxyVars, loop>>
    PROVE  LoopInvariant'
  BY GetRouterIPKeeps, SetExitNodeKeeps, SweepThroughRouterKeeps,
     ClearExitNodeKeeps, StartRelayKeeps, PathViaKeeps, MeasurePathKeeps,
     BlockClientKeeps, BlockServerKeeps, BlockRelayPortKeeps,
     UnblockRelayPortKeeps, UnblockClientKeeps, UnblockServerKeeps DEF PathStep

\* Any step of the A/B test.
LEMMA ProxyStepKeeps ==
    ASSUME LoopInvariant, ProxyStep(pair), UNCHANGED <<pathVars, loop>>
    PROVE  LoopInvariant'
  BY SnapshotKeeps, DeployProxyGroupKeeps, WaitForProxyGroupReadyKeeps,
     EnsureEgressServiceKeeps, RecreateEgressServiceKeeps, WaitForEgressKeeps,
     SweepThroughProxiesKeeps
     DEF ProxyStep

\* Anything that happens in the cluster.
LEMMA ClusterStepKeeps ==
    ASSUME LoopInvariant, ClusterStep, UNCHANGED <<pathVars, loop>>
    PROVE  LoopInvariant'
  BY OperatorKeeps, ObserveTemplateKeeps, RollPodKeeps, FinishRolloutKeeps,
     ResolveEgressKeeps, RouteEgressKeeps, ReportEgressKeeps, RemoveServiceKeeps
     DEF ClusterStep

\* Between any two remote commands of a mode, and whatever Tailscale, the
\* operator and the controller do meanwhile, the loop keeps its invariant.
THEOREM LoopIsSound == Spec => []LoopInvariant
<1>1. LoopInvariant /\ [Next]_vars => LoopInvariant'
  <2> SUFFICES ASSUME LoopInvariant, [Next]_vars PROVE LoopInvariant'
    OBVIOUS
  <2>1. CASE UNCHANGED vars
    BY <2>1, StutterKeeps
  <2>2. CASE World
    BY <2>2, RerouteKeeps, ClusterStepKeeps DEF World
  <2>3. CASE Process
    BY <2>3, StartModeKeeps, VerifyLANKeeps, RunFullKeeps,
       ResolveEndpointsKeeps, RunFortioKeeps, WriteResultKeeps, ModeFailsKeeps,
       NextPairKeeps, PathStepKeeps, ProxyStepKeeps DEF Process
  <2> QED
    BY <2>1, <2>2, <2>3 DEF Next
<1> QED
  BY <1>1, InvariantInit, PTL DEF Spec

\* What a mode changes in the network is undone, or the mode failed.
THEOREM LeftoversAreReported == Spec => []LeftoversMeanFailure
<1>1. LoopInvariant => LeftoversMeanFailure
  BY DEF LoopInvariant
<1> QED
  BY <1>1, LoopIsSound, PTL

\* No relay result is labelled with a path that is faster than the one it names.
THEOREM LabelsHold == Spec => []RelayLabelsHold
<1>1. LoopInvariant => RelayLabelsHold
  BY DEF LoopInvariant, NetworkIsRestored, PathsAreBlocked, PathsAreConfirmed,
         RelayLabelsHold
<1> QED
  BY <1>1, LoopIsSound, PTL

\* A pass of the A/B test that began on settled proxies measures its own setting
\* and its own pair.
THEOREM PassesAreSeparate == Spec => []SweptOwnSetting
<1>1. LoopInvariant => SweptOwnSetting
  BY DEF LoopInvariant, RolloutIsTracked, EgressIsTracked, Proxies, SweptOwnSetting
<1> QED
  BY <1>1, LoopIsSound, PTL

\* The loop over modes, the pair, the paths and the proxies keep their types.
THEOREM LoopIsTyped == Spec => []TypeOK
<1>1. LoopInvariant => TypeOK
  BY DEF LoopInvariant
<1> QED
  BY <1>1, LoopIsSound, PTL
=============================================================================
