# tailbench: specification and proofs

tailbench provisions pairs of cloud instances, measures Tailscale throughput,
latency and packet rate between them, and tears everything down again. Each
run is a directory holding a JSON manifest (`manifest.json`); `run`, `resume` and
`cleanup` are separate processes that meet only through that file, the result
files and whatever the clouds really hold. What can go wrong is therefore
mostly about *order*: what was durable when a process died, what a failed call
left behind, and what the next process makes of it.

The modules here model that core in TLA+, check it with TLC on small
instances, and prove its main safety properties with TLAPS for every value of
the constants. `PROJECT.json` maps every definition to the lines it models and
lists runs, mutants, hazards, findings and theorems.

## The system

| Component | State | Operations | Talks to |
|---|---|---|---|
| command layer (`cmd/tailbench`) | flags, signal context | `run`, `resume`, `cleanup`; read-only `plan`, `status`, `doctor`, `init` | planner, preflight, lifecycle, orchestrator, providers |
| lifecycle manager and recorder (`internal/lifecycle`) | none of its own; mutates the manifest | `Run`, `Resume`, `Cleanup`; recorder callbacks before and after every external step | run-state store |
| run-state store (`internal/runstate`) | `manifest.json`, plan, configuration, event log, summary | `Create`, `Load`, `Update` (load, mutate, atomic rename), `AppendEvent` | file system |
| orchestrator (`internal/orchestrator`) | outcome, in-memory inventory, tailnet DNS name, loop position, skipped quota groups | `RunWithOutcome`, `runProvider`, `runModeLoop`, deferred teardown | recorder, provider, tailnet manager, benchmark runner, result writer |
| cloud providers (`internal/provider`) | Pulumi stacks and their locks, generated SSH key | `SetupNetworking`, `CreatePair`, `DestroyPair`, `TeardownNetworking`, listing | Pulumi, clouds |
| Pulumi lock recovery (`internal/recovery`) | lock files of dead processes | find, confirm, remove | command layer, Pulumi's backend |
| Kubernetes workload (`internal/k8s`) | ProxyClass, egress service, pods | apply, roll-out and readiness waits, sweep through proxies | operator, API server |
| tailnet manager (`internal/tailnet`) | tailnets at Tailscale, auth key | create, delete, key refresh, ACL | Tailscale API |
| benchmark runner (`internal/benchmark`) | one measurement | throughput, latency, path control, UDP rate search | iperf3 and mtr over SSH |
| result files (`internal/result`) | `<type>-<mode>.json` | `WriteResult`, existence test, aggregation | file system |
| planner, guardrails, preflight, retry, configuration | computed per command | pure checks, bounded retries | command layer, orchestrator |
| application shell, summary, failure classes, ssh, cloud-init, logger, pricing, website | none that outlives a call | rendering, transport, tables | everything |

The orchestrator calls the recorder around each external call, and the
recorder turns each call into one `Store.Update`. The orchestrator also keeps
its own inventory in memory, updated before the recorder is asked; the end of a
run writes that copy over the manifest. Nothing locks the manifest.

### What is hard here, and what makes each part correct

* **Crash between a cloud call and its record.** A stack must never exist
  without a durable record that says so (`StacksTracked`,
  `ImplementsWriteAhead`), at every instant, since the process can die at any.
* **Calls that fail half-way, saves that fail before or after the rename.** A
  failed call may have had its effect; a failed save may have happened. A run
  with leftovers must say so (`LeftoversAreFlagged`); a run recorded as cleaned
  must own nothing (`CleanedRunOwnsNothing`); a first run that claims a
  successful cleanup must have left no stack (`FirstCleanupIsComplete`).
* **Cancellation.** SIGINT or the duration limit kills the context in the
  middle of a type; pair teardown then fails, while deferred teardown has a
  context of its own. Teardown must still follow the policy
  (`TeardownFollowsPolicy`) and every command must end (`CommandEnds`).
* **Any sequence of run, resume and cleanup.** Each resets, claims or finishes
  work items another one left (`DoneWorkStaysDone`, `SucceededRunIsComplete`,
  `CleanedTailnetIsGone`, `JoinedTailnetSurvives`).
* **The provider's listing is not the plan.** Types nobody approved may be
  provisioned (`OnlyPlannedWorkMeasured`).
* **A file system that loses power, and processes that share a run.** Every
  file is written through a temporary file, a sync and a rename; a reader must
  find the old file or the new one (`FilesAreWhole`), a run with a manifest must
  have the files that later commands open without creating them (`RunIsUsable`;
  the run log only while power lasts), an acknowledged update must
  survive (`AckedUpdateSurvives`, except where two processes really overlap), and
  the event log must agree with it (`EventsFollowManifest`, `NotedEventStays`).
* **A process that dies inside a provider call.** It leaves a Pulumi lock, a
  half-built or half-destroyed stack, perhaps a torn key file. The orchestrator
  relies on a simple promise of each call (`ImplementsContract`); the next
  process must be able to clean up what it can name (`RecoveringCleanup`) or to
  start again (`RestartSucceeds`).
* **A mode changes the network that the next mode measures.** Firewall rules and
  exit nodes must be undone or the mode must fail (`LeftoversMeanFailure`), and
  Tailscale may change its path at any time: no figure may come from a faster
  path than its label (`RelayLabelsHold`). The operator and the StatefulSet
  controller lag behind the test that drives them, and one egress service is
  pointed at pair after pair (`SweptOwnSetting`), or they never react
  (`LoopEnds`).
* **Measurements are noise.** The rate search bisects on verdicts that are
  neither monotone nor repeatable (`BestIsHighestUsable`, `FailureIsThorough`,
  `LimitingMeansCeiling`, `SweepEnds`).

`PROJECT.json` lists these hazards at their lines, including those no property
covers, mostly because the code itself has no answer to them.

## Modules

| Module | Models | Notes |
|---|---|---|
| `RunState` | manifest, status enumerations, every mutate function of the manager and recorder | operators only |
| `Orchestrator` (extends `RunState`) | one process executing a plan: tailnet, networking, instance loop, mode loop, deferred teardown | actions, `Execute` is their disjunction |
| `Tailbench` (extends `Orchestrator`) | the three commands, cancellation, crash; specification and properties | composes the parts into one system |
| `WriteAhead` | abstract promise: a stack is provisioned only while recorded and forgotten only when gone | refined by `Tailbench` |
| `ManifestStore` | the store under `RunState`'s saves: `Create`, `Update`, `atomicWrite`, `AppendEvent`, one system call at a time | several processes, failing calls, loss of power |
| `StackPrograms` | what each of the six providers asks of Pulumi: the calls of its four methods and the resource graphs of its programs | constants only |
| `CloudStack` (extends `StackPrograms`) | those calls executed against Pulumi's backend and the cloud, lock recovery, `run` and `cleanup` around them | under the one-step calls of `Orchestrator` |
| `ProviderContract` | abstract promise of a provider to the orchestrator | refined by `CloudStack` |
| `ModeSteps` | position inside one mode, failing commands and waits | shared by the next two |
| `PathControl`, `ProxyGroup` | the modes that change the network (exit node, relay) and the forwarding A/B test in a cluster | with Tailscale, operator and controller |
| `ModeLoop` (extends both) | `runModeLoop` from the inside, pair after pair | under `Orchestrator`'s one step per mode |
| `UDPSweep` | `RunForwardingPPS` and `runUDPSweep` | under one measurement of `ModeLoop` |
| `MCTailbench`, `MCManifestStore`, `MCCloudStack`, `MCModeLoop`, `MCUDPSweep` | instances for TLC | |
| `RunStateProofs`, `TailbenchProofs`, `TailbenchSafetyProofs` | proofs about `RunState` and `Tailbench`: helpers, write-ahead and tracking, the other safety properties | each extends the one before |
| `CloudStackProofs`, `ManifestStoreProofs`, `ModeLoopProofs`, `UDPSweepProofs` | proofs about the module of the name | |

The modules form levels. What `Orchestrator` takes as one step, `CloudStack`
(a provider call), `ModeLoop` (a mode) and `ManifestStore` (a save) take apart.
`Orchestrator` lets a failing call have any part of its effect, which is what
the lower level shows to be the most that happens: `ProviderContract` states it
for the providers, and `FilesAreWhole` with `AckedUpdateSurvives` for a save.

### State and actions

`manifest` is `manifest.json`. `live` is the set of stacks that really hold cloud
resources and `tailnets` the real state of every tailnet; the code cannot see
either, the properties can. `outcome`, `loop`, `tailnetDNS`, `ctxDone`, `cmd`
and `pc` are one process's memory and disappear when it ends or dies. `results`
are the result files that exist and `complete` those written to the end.

An action is one external call or one durable write, with everything the code
does up to the next one, so a crash (`Crash`) or a cancellation (`Cancel`) falls
between any two. Labels in `pc` name the next call. Save failures are part of
the recording action: `SaveFails(m)` leaves either the old or the new manifest,
because the event append can fail after the rename. A failing external call may
or may not have had its effect and may or may not carry a context error; one
started under a cancelled context fails.

In `ManifestStore`, `disk` is what a reader sees and `possible` what may be
found after a loss of power: a rename adds to the possible contents, the
directory's sync leaves one. The run log lies in `logs/`, which nobody syncs, so
its name stays possible only. `proc` is where each process stands between two
system calls. `issued`, `acked`, `contested`, `noted` and `outage` are history;
an update is contested when another process had loaded the manifest as it was
renamed.

In `CloudStack`, `call.calls` is what the provider method still has to do; its
head is the next external call, and an update (`up`, `destroy`) is several
steps, one per resource. `known`, `state` and `locked` are Pulumi's backend,
`cloud` what exists, `orphans` what a dying process created unheard, `vanishing`
what is deleted asynchronously. `named` are the stacks whose names the manifest
records: a creation's answer brings the name, and the intent to set up the
network replaces the record by one without. Lock recovery looks up those names
only, and `cleanup --recover-pulumi-locks` is refused when there are none.
`session` is the process: its command, its position, the lock files it found and
the types left to clean.

In `ModeLoop`, `at` is the next step of the mode. `rules`, `exitNode` and `path`
belong to the pair's hosts. `class` to `pods` (the roll-out) and `service` to
`routed` (the egress service) belong to the cluster, which outlives the pair:
`egress` is the pair the service names, `resolved` and `ready` what the operator
has written into it, `routed` where the proxies forward to. The operator
resolves, routes and reports in any order and as late as it likes, and an update
of the service leaves `ready` as it was. `ran` and `swept` are history: over
which paths, through proxies of which setting and to which pair the measurement
really went; `refused` and `stale` mark the two silent cases described under
*Findings*.

In `UDPSweep` an action is one trial with its verdict (usable, lossy, invalid
counters, error), or the end of one size. `usable` and `lossy` are history: the
code does not keep them, the properties compare the answer with them.

### Abstractions

* The four inventory records of one instance type (topology, server, client,
  router) are one record: one process always moves them together.
* The order of instance types and modes is arbitrary: the loops pick any
  element left. This covers every order the provider or the flags can give.
* A binary is compiled with one provider, so one provider is modelled, and a
  manifest always has a run ID, so stack names are run-scoped and ownership is
  certain.
* Timestamps, revisions, retry counters, failure texts, plan hash, event log
  and summary are left out: no decision modelled here reads them.
* The listing is an arbitrary subset of the selected types; a stale cached list
  is one of them.
* `WriteResult` truncates and then fills, as `os.WriteFile` does.
* A final update that cannot be saved ends the process with nothing changed,
  as `Crash` does.
* Everything `run` does before `Store.Create` (planning, guardrails,
  confirmation, preflight) changes no state and is not a step. Of its refusals
  one is a guard of `StartRun`, since the results of earlier runs decide it: a
  plan with nothing left to measure (`NoRunnableWork`).
* A result is there or not. The legacy file name of `l4-kernel`, which planner
  and orchestrator both accept, counts as the result.
* In `Tailbench` and `CloudStack` one process runs at a time; several on one run
  directory are `ManifestStore`'s subject.
* The file system is POSIX's promise: contents are safe after the file's sync,
  names after the directory's, a rename shows the old or the new file. The run
  directory's own name, which the code does not sync either, is taken to be safe.
  A manifest is the set of updates in it.
* Pulumi and the clouds are modelled from how the providers use them. Resource
  properties are left out; the graph and the order are kept. One network card,
  address and machine stand for those of all nodes on Azure. `WantRouter` is
  false in the runs: a router is one more node.
* A checkpoint entry is looked up by its ID, so a refresh keeps it while the
  resource exists; an orphan of the same kind passes for it only where the code
  chooses the name (`NamedByCode`), in which case it also blocks a new creation.
* A resource whose creation was interrupted is an orphan that nobody can find,
  and the liveness properties of `CloudStack` are about states without one.
* A StatefulSet revision is named after the contents of its template, so
  setting and revision are the same value; pods are ready or not.
* The six kinds of mode in `ModeLoop` stand for all: the `l4-` modes differ in
  arguments, as do the `l7-` modes and `l4-lb`.

## Runs

| Run | Instance | Shows |
|---|---|---|
| `join` | two types in one quota group, one mode, joined tailnet, managed networking, three policies | what a run says of its end and its leftovers, the refinement of `WriteAhead` |
| `create` | one type, two modes, own tailnet, names for two creations | a cleaned run owns nothing, tailnet deletion, done work, policy; the tracking invariant of the proofs |
| `unplanned` | a listed type the plan does not hold, joined or created tailnet | it is never measured, a clean end leaves no stack, and every command ends; the lifecycle invariant of the proofs |
| `store` | two processes, two updates each | files are whole, runs usable, updates and events kept; the invariant of the proofs |
| `stacks` | five providers, two types, one or two faults each | the provider's contract, cleanup after any death, repeatable set-up; the invariant of the proofs |
| `modes` | virtual machines with four modes, cluster with both passes of the A/B test, two pairs, two replicas, two faults | labels of relay results, undone changes, the A/B test's settings and targets, the end of the loop; the invariant of the proofs |
| `sweep` | ceilings 6 and 2,000,000, 12 steps, 5 %, two sizes | the answer agrees with every verdict, a failure is thorough, the cap is blamed exactly, the search ends; the invariant of the proofs |

Each further run has one property that a document or message states and the
code violates; see *Findings*.

**Why the bounds are enough.** The number of commands, crashes and
cancellations is not bounded at all: the state space is finite because the
manifest and the process memory are. Two types are what the instance loop and
the quota group need to interact (one type's failure, another's success or
skip); two modes are what the work items of one type need; two tailnet names
let a resume create a second tailnet, and when names run out creation can only
fail. Policies, tailnet creation and managed networking are enumerated.
In `store` two processes overlap, each also with its own earlier
update, and there is no bound on failures and losses of power. In `stacks` two
types share one network, and the faults are a crash or an unexplained failure:
on GCP and GKE two of them let a process die inside the recovery from another's
death; AWS, Azure and EKS, whose graphs are widest, have one, after which the
recovery is undisturbed. The proofs have no such bound. AKS has a run of its own,
which shows its finding. In `modes` two pairs share a cluster; two faults break a
mode and its restoration, while waits time out and the outside world lags without
limit. In the cluster only the A/B test is configured (`Configured`): the other
modes touch nothing there and would only multiply the states; in the proofs any
modes may be.
`sweep` has the code's own step budget, tolerance and default ceiling. From
2,000,000 the search never gets down to one packet per second; from the low
ceiling it does, and it probes a rate twice when the bracket cannot shrink.

**Deadlock** is checked in the runs of `MCTailbench`, `MCCloudStack` and
`MCManifestStore`: some command can always be started. The sweep and the mode
loop end, so their runs do not check it.

**Fairness.** `WF_vars(ProcessStep)`: a process that can step does. Every
external call of the code returns: `run`, `resume` and `cleanup` put
`MaxDuration` on the context their calls run under (`main.go:1011`, `427`,
`612`), and deferred teardown has timeouts of its own. Nobody is obliged to start, cancel or kill a process.
`CloudStack` has the same for the commands (`Driver`) and for the provider's
calls (`Method`), and for deletions that a cloud has accepted (`Deletions`,
external): `cleanup` waits for them no longer than its context lasts.
`ModeLoop` has it for the process alone (`Process`): each remote command and
each wait in it has a deadline or a number of attempts, but for the deletion of
an incompatible egress service, which ends with the context. Nothing is assumed
of Tailscale, the operator or the controller.
For the sweep, `WF_vars(Next)`: `probeUDPRate` gives each trial a timeout of
its duration plus warm-up plus 15 seconds.

**Mutants.** For every property of a passing run there is a plausible bug in a
modelled definition (an ignored destroy error, a best-effort save of the
intent, a policy not asked, an off-by-one in the step budget) under which TLC
finds the property violated.

## Proofs

`RunStateProofs` states what each manifest transition preserves: its type, that
it never makes a manifest absent again, and what it does to the inventory, the
work list, the tailnet record and the statuses. The other modules prove, for
every value of the constants:

* `TypeCorrect`: `Spec => []TypeOK`, including that the loop position is set at
  every label that uses it.
* `TrackingIsInvariant`, `StacksAreTracked`: no stack that holds cloud
  resources is missing from the manifest or marked cleaned in it.
* `RunImplementsWriteAhead`: `Tailbench` implements `WriteAhead` under
  `owned <- live` and `recorded <-` the stacks with an unclean record.
* `LifecycleIsSound` and what follows from it: a joined tailnet survives
  (`JoinedTailnetIsSafe`), a tailnet recorded as cleaned is gone
  (`CleanedTailnetsAreGone`), a succeeded run is complete
  (`SucceededRunsAreComplete`), only planned work is measured
  (`OnlyPlannedWorkIsMeasured`), and three action properties: the policy
  (`PolicyIsFollowed`), a first run's cleanup (`FirstCleanupsAreComplete`) and
  finished work (`DoneWorkIsFinal`).
* `CleanedRunsOwnNothing`, `LeftoversAreAlwaysFlagged`: from both invariants
  together. With these, every safety property that the passing runs check of
  `Tailbench` is a theorem.
* `StacksAreSound`, `StacksAreTyped`, on all six providers, and
  `ContractIsSound`, `ProvidersKeepContract`, `DestructionIsScoped` on all but
  AKS: `CloudStack` implements `ProviderContract`, for any types and faults.
* `SweepIsBracketed`, `BestIsHighest`, `LimitingIsExact`: the rate reported is
  the highest judged usable, below every rate judged lossy, for any verdicts,
  ceiling, step budget, tolerance and number of sizes; and `LimitingResource`
  is exact. `FailuresAreThorough`: a search that finds nothing has halved the
  ceiling at every step. `SweepIsTyped`.
* `StoreIsSound` and its consequences `EveryFileIsWhole`, `EveryRunIsUsable`,
  `NoUpdateIsLost`, `EventsReportUpdates`, `NoNotedEventIsLost`, `StoreIsTyped`:
  all of the store's properties, for any number of processes and updates.
* `LoopIsSound` and its consequences `LeftoversAreReported`, `LabelsHold`,
  `PassesAreSeparate`, `LoopIsTyped`: the safety properties of the mode loop, for
  any number of pairs, replicas and faults.

**The argument.** `StacksTracked` is not inductive. A step that ends a run
writes the process's own inventory over the manifest, so the memory must not
call a live stack cleaned either (`MemoryTracksStacks`). A create call makes a
stack live, so the intent must be durable and in memory when it starts
(`IntentIsRecorded`). Recording `cleaned` drops a stack from the inventory, so
it must be gone by then (`GoneBeforeCleaned`). A successful cleanup marks
*everything* cleaned, so a cleanup without an error so far must have destroyed
all it has passed (`CleanupSweeps`), which for networking needs that a run with
existing networking has no stack (`UnmanagedHasNoStack`). Their conjunction
with `TypeOK`, `TrackingInvariant`, is inductive.

The other properties of `Tailbench` rest on a second one, `LifecycleInvariant`,
which says nothing of types outside the plan and so needs no assumption about
the listing. The running command owns the step (`CommandMatchesStep`) and the
manifest says "running" until it ends (`StatusMatchesProcess`). Ended runs with
unclean records are flagged (`UncleanIsFlagged`). No record names the joined
tailnet (`OnlyOwnTailnet`), and one is recorded as cleaned, or about to be, only
when deleted, which must also hold of the process's memory, since the end of a
run writes it over the manifest (`TailnetRecordIsTrue`). Work becomes cleaned all
at once, what succeeded has a result, and without an error only the current item
is open (`WorkIsAccounted`): a resume selects failed work, and needs this to
end as succeeded. Teardown labels are reached only through the policy
(`PolicyIsAsked`). For a first run, `FirstRunSweeps` says label by label which
stacks may be live while no cleanup has failed.

For the sweep, the bracket separates the verdicts (`Bracketed`): every usable
rate is at most `lo`, every lossy one at least `hi`, and `best` is `lo`. While
nothing is usable, `hi` is at most the ceiling over 2^(`step` - 1) (`Halves`). The
provers do not know what an exponential is, so `PowersOfTwo` states its recursion
on the step budget as an assumption, which TLC evaluates.

For `CloudStack`, every provider keeps `StackInvariant`: what
a creation has left are calls of creations, and likewise for a destruction
(`CallIsShaped`), what exists and was acknowledged is in a checkpoint (`TypeOK`,
`CloudIsShaped`), and the destruction comes before
the removal of the stack, so that nil means an empty checkpoint
(`CallsAreOrdered`). That nil from a creation means a live resource needs more.
A checkpoint may name what is gone, when a process died after the cloud
had deleted it; but only resources nothing else was made from can be in that
state (`FoundationsExist`). Hence an update that adds nothing still has
something: either it refreshed and what it kept exists (`RefreshIsTrue`), or the
graph has a resource that another one was made from (`UpdateIsTelling`,
`CreationIsLive`). On AKS another type's pre-cleanup deletes the pool by its
fixed name, so neither this nor the scope of a destruction holds, and the
theorems that need it assume `"aks" \notin Providers`.

For the store (`StoreInvariant`): only whole and synced contents ever get a name
(`NamedFilesAreSynced`); until its manifest is visible the creating process is
alone and works its list off in order, each directory sync making the earlier
names in that directory safe, while the run log's is there as long as power
lasts (`CreationIsOrdered`); a process inside `Update` holds its own update
(`UpdatesAreLoaded`), and every visible update without a rival is in the file and
in every copy loaded since, every acknowledged one in every content that a loss
of power may bring back (`UpdatesAreKept`).

For the mode loop (`LoopInvariant`): the step belongs to the mode (`StepFits`);
without an error so far, the hosts passed on the way back have no rule but one
that iptables refused to remove (`NetworkIsRestored`); while the relay or DERP is
measured the rules that close the faster paths stand, so Tailscale cannot move
there (`PathsAreBlocked`), and the states left behind were confirmed
(`PathsAreConfirmed`); from settled proxies the template, the update revision,
the pods and the current revision change in this order, so that a current
revision of the new setting means that all pods have it (`RolloutIsTracked`); and
a readiness condition reported since the last update tells of the mapping to the
server the service names (`EgressIsTracked`).

**Assumptions.** The named `ASSUME`s of the modules: planned types are types,
the identifiers `networking`, `tailnet` and `none` are not instance types, the
empty name is no tailnet, configurations are configurations; positive ceilings
and number of sizes, and `PowersOfTwo`; natural bounds, at least one pair and one replica, the two
environments and the modes configured in them; some instance type, none called `network`, and known providers. `TrackingIsInvariant` and what follows from it, including
`CleanedRunsOwnNothing` and `LeftoversAreAlwaysFlagged`, have one more hypothesis in their statement, `InstanceTypes \subseteq Planned`: the
provider lists only planned types. Without it they are false, and the
`unplanned_cleanup` run shows how.

**Only model-checked.** The liveness properties `CommandEnds`, `SweepEnds`,
`LoopEnds`, `RecoveringCleanup` and `RestartSucceeds`: liveness under fairness is
outside the prover. Every safety property of a passing run is proved.

## Findings

Each is a run that TLC ends with a counterexample; `PROJECT.json` quotes the
sentence that the code contradicts.

* `failed_resume`: a run whose only open work failed is saved as not
  recoverable, and `resume` refuses it, although the command prints a resume
  hint.
* `no_result`: planned work of a type the provider did not list is recorded as
  succeeded without ever being measured.
* `resume_leaves_stack`: a resume does not remove the stack of an interrupted
  type that has no modes left or is not listed, and ends as succeeded with
  cleanup succeeded. The manifest still flags it (`LeftoversAreFlagged`).
* `unplanned_cleanup`: `cleanup` takes its types from the work list, never
  destroys the stack of an unplanned type, and marks it cleaned.
* `aks_pool`: on AKS the node pool's name is fixed, and the pre-cleanup of one
  instance type deletes the pool of another that the manual policy left running.

Further weaknesses are in the model without a property that excludes them, or
are the stated exception of one, and are listed among the hazards:

* A resume that creates a tailnet overwrites the only record of the earlier one.
* A crash while a result is written leaves a truncated file whose existence marks
  the mode as done.
* `UnblockDirect` and `UnblockRelayPort` end in `|| true`: a rule that iptables
  does not remove stays, nothing is reported, and the modes that follow measure
  the pair over a blocked path (`refused`).
* The path of a relay measurement is confirmed once, before it. The figures of
  the direct path, and of the peer relay, may come in part from a slower one.
* `EnsureEgressService` resets the name but not the condition of the service it
  points elsewhere. Until the operator has reported anew, the wait may take the
  previous server's condition and the sweep go to the previous pair (`stale`).
* An error reading the ProxyGroup before an update leaves a zero snapshot, with
  which the wait takes the first revision that looks rolled out.
* The name of `logs/tailbench.log` is never synced. A run that has lost it with
  the power is refused by every `resume`.
* A process that dies inside `SetupNetworking` leaves a lock of a stack whose name
  is not recorded. Lock recovery does not look for it, and `TeardownNetworking`,
  which does not cancel, is refused.

## What is left

1. **Plan, the other guardrails and Preflight**: pure operators to be checked against
   reference definitions over bounded inputs.
2. **Aggregation** of results by family, and the throughput and latency
   iterations of the runner.
3. **Retry**: bounded attempts with doubling delays. The loop keeps nothing that
   outlives the call, and only the instance listing uses it.
4. Two processes at once in `CloudStack`: `cleanup` beside a live `run`.

Proofs to add: that `ModeLoop`, seen through a mapping, implements what
`Orchestrator` assumes of one mode, and `ManifestStore` what it assumes of one
save; both need an abstract specification first.

## Not modelled, and why

The read-only commands, rendering, redaction, summaries and failure classes
keep no state that outlives a call. SSH, cloud-init, logging, pricing tables,
the website and packaging are transport, templates or data. Properties of cloud
resources, the installation of the operator by Helm and the discovery of ingress
addresses are declarations or single calls that only succeed or fail. Parsing of
configuration and of iperf3, fortio and mtr output is left to the unit tests;
the model takes the choices and verdicts they produce.
