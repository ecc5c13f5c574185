----------------------------- MODULE ProxyGroup -----------------------------
(***************************************************************************)
(* The forwarding A/B test of a Kubernetes cluster, runForwardPPS: the     *)
(* ProxyClass of the mode is applied, the roll-out of the operator's       *)
(* StatefulSet awaited, the egress service pointed at the pair's server    *)
(* pod, and UDP swept through the proxies.                                 *)
(*                                                                         *)
(* The operator and the StatefulSet controller are external and late:      *)
(* each catches up with what it watches when it likes, or never.  A        *)
(* revision is named after the template's contents, so that a setting and  *)
(* its revision are the same here.                                         *)
(***************************************************************************)
EXTENDS ModeSteps

CONSTANT Replicas       \* proxies of the ProxyGroup

ASSUME ReplicasAssumption == Replicas # {}

VARIABLES
    class,      \* the ProxyClass: "off", "on", or "none" without a cluster
    spec,       \* the setting in the StatefulSet's template, "none": no set
    update,     \* Status.UpdateRevision
    current,    \* Status.CurrentRevision
    pods,       \* replica to the setting it runs with, "none": not ready
    before,     \* the snapshot the pass took, and whether all was settled then
    service,    \* the egress service: "none", "legacy" (of another type),
                \* "deleting" or "external"
    egress,     \* the pair its annotation names, 0: none of this run
    resolved,   \* its ExternalName is not the placeholder
    ready,      \* its condition TailscaleEgressSvcReady is true
    routed,     \* the pair whose server the proxies forward to
    stale,      \* it was true when the service was pointed at another sink, and
                \* has not been reported true since (history)
    swept       \* what a finished sweep ran through (history)

rollout == <<class, spec, update, current, pods>>
egressVars == <<service, egress, resolved, ready, routed, stale>>
cluster == <<rollout, egressVars>>
proxyVars == <<cluster, before, swept>>

Settings == {"off", "on"}
Setting(m) == IF m = "proxy-on" THEN "on" ELSE "off"
NoSnapshot == [revision |-> "none", setting |-> "off", settled |-> FALSE]
NoSweep == [settings |-> {}, pair |-> 0, stale |-> FALSE]

\* Nothing is left to do for the operator, the controller or a pod.
Settled ==
    /\ class = spec /\ spec = update /\ update = current
    /\ \A r \in Replicas : pods[r] = current

\* setupK8s has applied the base manifests where the modes ask for them; an
\* older program may have left an egress service of another type.
ProxyInit(applied, services) ==
    /\ class = applied /\ spec = "none" /\ update = "none" /\ current = "none"
    /\ pods = [r \in Replicas |-> "none"]
    /\ before = NoSnapshot /\ swept = NoSweep
    /\ service \in services /\ egress = 0 /\ routed = 0
    /\ resolved = FALSE /\ ready = FALSE /\ stale = FALSE

-----------------------------------------------------------------------------
\* The cluster.

\* The operator brings the template up to the ProxyClass.
Operator ==
    /\ spec # class /\ spec' = class
    /\ UNCHANGED <<steps, class, update, current, pods, egressVars, before, swept>>

\* The controller notices the template; a new set has but one revision.
ObserveTemplate ==
    /\ update # spec /\ update' = spec
    /\ current' = IF current = "none" THEN spec ELSE current
    /\ UNCHANGED <<steps, class, spec, pods, egressVars, before, swept>>

\* A pod of another revision is deleted, a deleted one replaced.
RollPod(r) ==
    /\ update # "none" /\ pods[r] # update
    /\ pods' = [pods EXCEPT ![r] = IF pods[r] = "none" THEN update ELSE "none"]
    /\ UNCHANGED <<steps, class, spec, update, current, egressVars, before, swept>>

\* The last pod of a roll-out makes its revision the current one.
FinishRollout ==
    /\ current # update /\ \A r \in Replicas : pods[r] = update
    /\ current' = update
    /\ UNCHANGED <<steps, class, spec, update, pods, egressVars, before, swept>>

\* The operator replaces the placeholder by the name of its own service.
ResolveEgress ==
    /\ service = "external" /\ ~resolved /\ resolved' = TRUE
    /\ UNCHANGED <<steps, rollout, service, egress, ready, routed, stale, before,
                   swept>>

\* The proxies take up the mapping to the server the annotation names.
RouteEgress ==
    /\ service = "external" /\ routed # egress /\ routed' = egress
    /\ UNCHANGED <<steps, rollout, service, egress, resolved, ready, stale,
                   before, swept>>

\* The operator brings the condition up to the mapping.
ReportEgress ==
    /\ service = "external" /\ ready # (routed = egress)
    /\ ready' = (routed = egress) /\ stale' = (stale /\ ~ready')
    /\ UNCHANGED <<steps, rollout, service, egress, resolved, routed, before,
                   swept>>

\* A deleted service is gone once its finalizers are.
RemoveService ==
    /\ service = "deleting" /\ service' = "none"
    /\ UNCHANGED <<steps, rollout, egress, resolved, ready, routed, stale, before,
                   swept>>

ClusterStep ==
    \/ Operator \/ ObserveTemplate \/ \E r \in Replicas : RollPod(r)
    \/ FinishRollout \/ ResolveEgress \/ RouteEgress \/ ReportEgress
    \/ RemoveService

-----------------------------------------------------------------------------
\* One pass.

\* GetProxyGroupRolloutState; an error is only logged and leaves a zero snapshot.
Snapshot ==
    /\ At("snapshot") /\ Goto("apply") /\ UNCHANGED bad
    /\ \/ /\ spec # "none" /\ UNCHANGED faults
          /\ before' = [revision |-> update,
                        setting |-> IF spec = "on" THEN "on" ELSE "off",
                        settled |-> Settled]
       \/ before' = NoSnapshot
          /\ IF spec = "none" THEN UNCHANGED faults ELSE Fault
    /\ UNCHANGED <<cluster, swept>>

\* DeployProxyGroup: kubectl apply of the base or of overlays/on.
DeployProxyGroup ==
    /\ At("apply")
    /\ \/ Then("rollout") /\ class' = Setting(mode)
       \/ FailMode /\ class' \in {class, Setting(mode)}
    /\ UNCHANGED <<spec, update, current, pods, egressVars, before, swept>>

\* Mutant: a set that shows the setting and is ready is good enough.
RolloutReadyWithoutRevision(setting) ==
    /\ \A r \in Replicas : pods[r] # "none"
    /\ current # "none" /\ current = update /\ spec = setting

\* proxyGroupRolloutReady: ready replicas are counted, whatever they run.
RolloutReady(setting) ==
    /\ \A r \in Replicas : pods[r] # "none"
    /\ current # "none" /\ current = update
    /\ spec = setting
    /\ \/ before.revision = "none"
       \/ before.setting = setting
       \/ update # before.revision

\* Mutant: the wait has no deadline.
WaitForProxyGroup ==
    /\ At("rollout") /\ spec # "none" /\ RolloutReady(Setting(mode))
    /\ Then("egress") /\ UNCHANGED proxyVars

WaitForProxyGroupReady ==
    /\ At("rollout")
    /\ \/ spec # "none" /\ RolloutReady(Setting(mode)) /\ Then("egress")
       \/ TimedOut
    /\ UNCHANGED proxyVars

\* The service the API server has after Create; it has no condition yet.
CreateService(sink) ==
    /\ service' = "external" /\ egress' = sink
    /\ resolved' = FALSE /\ ready' = FALSE /\ stale' = FALSE

\* Update writes the placeholder again; the status it leaves as it was.
UpdateService(sink) ==
    /\ egress' = sink /\ resolved' = FALSE /\ stale' = ready
    /\ UNCHANGED <<service, ready>>

\* Delete marks a service of another type.
DeleteService ==
    service' = "deleting" /\ UNCHANGED <<egress, resolved, ready, stale>>

\* EnsureEgressService: Get, and the case that applies to what it finds.  A call
\* that fails may have had its effect.
EnsureEgressService(sink) ==
    /\ At("egress")
    /\ \/ service = "none" /\ CreateService(sink) /\ (Then("egress-wait") \/ FailMode)
       \/ /\ service \in {"legacy", "deleting"} /\ DeleteService
          /\ (Then("egress-gone") \/ FailMode)
       \/ /\ service = "external" /\ egress # sink /\ UpdateService(sink)
          /\ (Then("egress-wait") \/ FailMode)
       \/ /\ service = "external" /\ egress = sink /\ Then("egress-wait")
          /\ UNCHANGED egressVars
       \/ FailMode /\ UNCHANGED egressVars
    /\ UNCHANGED <<rollout, routed, before, swept>>

\* The wait for the deletion has no deadline but the run's.
RecreateEgressService(sink) ==
    /\ At("egress-gone")
    /\ \/ service = "none" /\ CreateService(sink) /\ (Then("egress-wait") \/ FailMode)
       \/ (TimedOut \/ FailMode) /\ UNCHANGED egressVars
    /\ UNCHANGED <<rollout, routed, before, swept>>

\* Mutant: the operator's condition is not looked at.
WaitForExternalName ==
    /\ At("egress-wait")
    /\ \/ service = "external" /\ resolved /\ Then("proxy-sweep")
       \/ TimedOut
    /\ UNCHANGED proxyVars

\* waitForEgressServiceReady.  After an update the condition may still be the one
\* of the previous sink.
WaitForEgress ==
    /\ At("egress-wait")
    /\ \/ service = "external" /\ resolved /\ ready /\ Then("proxy-sweep")
       \/ TimedOut
    /\ UNCHANGED proxyVars

\* The sweep goes through whichever proxies there are, to wherever they forward.
SweepThroughProxies ==
    /\ At("proxy-sweep")
    /\ \/ /\ Then("write")
          /\ swept' = [settings |-> {pods[r] : r \in Replicas}, pair |-> routed,
                       stale |-> stale]
       \/ FailMode /\ UNCHANGED swept
    /\ UNCHANGED <<cluster, before>>

ProxyStep(sink) ==
    \/ Snapshot \/ DeployProxyGroup \/ WaitForProxyGroupReady
    \/ EnsureEgressService(sink) \/ RecreateEgressService(sink) \/ WaitForEgress
    \/ SweepThroughProxies
=============================================================================
