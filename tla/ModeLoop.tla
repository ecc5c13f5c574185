------------------------------ MODULE ModeLoop ------------------------------
(***************************************************************************)
(* runModeLoop from the inside: the modes of one pair after the other, on  *)
(* virtual machines or in a cluster, and a second pair after the first.    *)
(* Whether a mode is skipped or recorded is the Orchestrator's; here is    *)
(* what a mode does to the network and to the cluster it measures.         *)
(***************************************************************************)
EXTENDS PathControl, ProxyGroup

CONSTANTS
    Environments,   \* of "vm" and "container", the ones to consider
    Configured,     \* the modes asked for, in each of them
    MaxPairs        \* pairs measured one after the other

ASSUME EnvironmentsAssumption == Environments \subseteq {"vm", "container"}
ASSUME ConfiguredAssumption == Environments \subseteq DOMAIN Configured
ASSUME MaxPairsAssumption == MaxPairs \in Nat \ {0}

VARIABLES
    env,        \* how the binary was built
    pair,       \* number of the pair under test
    todo,       \* modes it has not been through
    failed      \* the ones recorded as failed

loop == <<env, pair, todo, failed>>
vars == <<steps, pathVars, proxyVars, loop>>

Modes == {"iperf", "fortio", "exit", "relay", "proxy-off", "proxy-on"}

\* ModeAppliesTo, of the modes asked for.  l4-kernel and l4-userspace are iperf,
\* the l7 modes and l4-lb fortio.
AppliesTo(e) ==
    Configured[e] \cap
        ({"iperf", "fortio"} \cup IF e = "vm" THEN {"exit", "relay"}
                                 ELSE {"proxy-off", "proxy-on"})

Init ==
    /\ env \in Environments /\ pair = 1 /\ todo = AppliesTo(env)
    /\ failed = {}
    /\ mode = "none" /\ at = "loop" /\ bad = FALSE /\ faults = 0
    /\ PathInit
    /\ \/ env = "container" /\ ProxyInit("off", {"none", "legacy"})
       \/ env = "vm" /\ ProxyInit("none", {"none"})

FirstStep(m) ==
    CASE m = "iperf" -> "lan"
      [] m = "fortio" -> "endpoint"
      [] m = "exit" -> "router-ip"
      [] m = "relay" -> "wait-peer"
      [] OTHER -> "snapshot"

\* Mutant: a mode that ran is not taken off the list.
RestartMode(m) ==
    /\ mode = "none" /\ m \in todo
    /\ mode' = m /\ at' = FirstStep(m) /\ bad' = FALSE /\ UNCHANGED faults
    /\ UNCHANGED <<pathVars, proxyVars, env, pair, todo, failed>>

\* The configured order of the modes may be any.
StartMode(m) ==
    /\ mode = "none" /\ m \in todo
    /\ mode' = m /\ at' = FirstStep(m) /\ bad' = FALSE /\ UNCHANGED faults
    /\ todo' = todo \ {m}
    /\ UNCHANGED <<pathVars, proxyVars, env, pair, failed>>

\* RunFull: over the LAN, then over the tailnet once the peer answers.
VerifyLAN ==
    /\ At("lan") /\ (Then("peer") \/ FailMode)
    /\ UNCHANGED <<pathVars, proxyVars, loop>>

RunFull ==
    /\ \/ At("peer") /\ WaitForPeer("iperf")
       \/ At("iperf") /\ (Then("write") \/ FailMode)
    /\ UNCHANGED <<pathVars, proxyVars, loop>>

\* resolveEndpoints and warmUpEndpoint, then RunFortio.
ResolveEndpoints ==
    /\ At("endpoint") /\ (Then("fortio") \/ FailMode)
    /\ UNCHANGED <<pathVars, proxyVars, loop>>

RunFortio ==
    /\ At("fortio") /\ (Then("write") \/ FailMode)
    /\ UNCHANGED <<pathVars, proxyVars, loop>>

\* What the mode has measured is in its result, or dropped.
EndMode(lost) ==
    /\ failed' = failed \cup lost
    /\ mode' = "none" /\ at' = "loop" /\ bad' = FALSE
    /\ want' = "direct" /\ ran' = NothingMeasured
    /\ before' = NoSnapshot /\ swept' = NoSweep
    /\ UNCHANGED <<rules, exitNode, path, refused, cluster, env, pair, todo>>

WriteResult ==
    /\ At("write")
    /\ \/ EndMode({}) /\ UNCHANGED faults
       \/ EndMode({mode}) /\ Fault

ModeFails == At("failed") /\ EndMode({mode}) /\ UNCHANGED faults

\* The next pair is new machines, but the same cluster.
NextPair ==
    /\ mode = "none" /\ todo = {} /\ pair < MaxPairs
    /\ pair' = pair + 1 /\ todo' = AppliesTo(env) /\ failed' = {}
    /\ rules' = {} /\ refused' = {} /\ exitNode' = FALSE /\ path' = "derp"
    /\ UNCHANGED <<steps, want, ran, proxyVars, env>>

Process ==
    \/ \E m \in Modes : StartMode(m)
    \/ VerifyLAN \/ RunFull \/ ResolveEndpoints \/ RunFortio \/ WriteResult
    \/ ModeFails \/ NextPair
    \/ PathStep /\ UNCHANGED <<proxyVars, loop>>
    \/ ProxyStep(pair) /\ UNCHANGED <<pathVars, loop>>

World ==
    \/ env = "vm" /\ Reroute /\ UNCHANGED <<proxyVars, loop>>
    \/ ClusterStep /\ UNCHANGED <<pathVars, loop>>

Next == Process \/ World

\* The process takes its next step: every wait in it has a deadline, a number of
\* attempts or, for a deleted service, the run's MaxDuration.  Tailscale, the
\* operator and the controller promise nothing.
Spec == Init /\ [][Next]_vars /\ WF_vars(Process)

-----------------------------------------------------------------------------
TypeOK ==
    /\ env \in Environments /\ mode \in AppliesTo(env) \cup {"none"}
    /\ bad \in BOOLEAN /\ faults \in 0..MaxFaults
    /\ rules \in SUBSET Hosts /\ refused \in SUBSET Hosts /\ exitNode \in BOOLEAN
    /\ path \in Paths /\ want \in Paths /\ ran \in [Paths -> SUBSET Paths]
    /\ {class, spec, update, current} \subseteq Settings \cup {"none"}
    /\ pods \in [Replicas -> Settings \cup {"none"}]
    /\ before \in [revision : Settings \cup {"none"}, setting : Settings,
                   settled : BOOLEAN]
    /\ service \in {"none", "legacy", "deleting", "external"}
    /\ {resolved, ready, stale} \subseteq BOOLEAN
    /\ {egress, routed} \subseteq 0..MaxPairs
    /\ swept \in [settings : SUBSET (Settings \cup {"none"}), pair : 0..MaxPairs,
                  stale : BOOLEAN]
    /\ todo \subseteq AppliesTo(env) /\ failed \subseteq AppliesTo(env)
    /\ mode \notin todo \cup failed /\ todo \cap failed = {}
    /\ pair \in 1..MaxPairs

\* The paths that are no faster than the one a figure is labelled with.
NoFaster == [direct |-> Paths, relay |-> {"relay", "derp"}, derp |-> {"derp"}]

\* No figure of a relay result that gets written is better than its label: every
\* state was confirmed and measured at least in part over its own path, and at no
\* moment over a faster one, even when Tailscale changes the path after PathVia has
\* confirmed it.  The path is not confirmed again, so that the figures of the
\* direct path and of the peer relay may contain what a slower path gave.
RelayLabelsHold ==
    (mode = "relay" /\ at = "write") =>
        \A p \in Paths : p \in ran[p] /\ ran[p] \subseteq NoFaster[p]

\* What blockDirectPair, BlockRelayPort and SetExitNode change is undone before
\* another mode measures the same pair, or the mode that changed it is recorded as
\* failed.  The one exception is a rule that iptables itself did not remove, whose
\* error UnblockDirect and UnblockRelayPort swallow.
LeftoversMeanFailure ==
    /\ (mode # "relay" /\ ~(rules \subseteq refused)) => "relay" \in failed
    /\ (mode # "exit" /\ exitNode) => "exit" \in failed

\* Neither pass of the A/B test measures the other's setting: one that found the
\* ProxyGroup settled sweeps through proxies that all run its own, however late the
\* operator and the controller are.  Nor does it measure another pair's server: the
\* proxies forward to its own, unless the service still showed the condition of the
\* sink it was pointed at before.  Without a snapshot, in the middle of an earlier
\* roll-out, or with such a condition, the code promises neither.
SweptOwnSetting ==
    (mode \in {"proxy-off", "proxy-on"} /\ at = "write") =>
        /\ before.settled => swept.settings = {Setting(mode)}
        /\ ~swept.stale => swept.pair = pair

\* The mode loop ends for every pair, whatever the cluster and the tailnet never
\* get to: each wait has its deadline, its number of attempts or the run's, and a
\* failed mode makes room for the next.
LoopEnds == <>(mode = "none" /\ todo = {} /\ pair = MaxPairs)

-----------------------------------------------------------------------------
(***************************************************************************)
(* The inductive invariant behind the three properties of results.         *)
(***************************************************************************)

\* The steps of each mode.
StepFits ==
    \/ mode = "none" /\ at = "loop"
    \/ mode # "none" /\ at \in {"write", "failed"}
    \/ mode = "iperf" /\ at \in {"lan", "peer", "iperf"}
    \/ mode = "fortio" /\ at \in {"endpoint", "fortio"}
    \/ mode = "exit" /\ at \in {"router-ip", "set-exit", "sweep", "clear-exit"}
    \/ mode = "relay" /\ at \in {"wait-peer", "assert", "measure",
                                 "block-client", "block-server", "block-router",
                                 "unblock-router", "unblock-client",
                                 "unblock-server"}
    \/ mode \in {"proxy-off", "proxy-on"} /\
       at \in {"snapshot", "apply", "rollout", "egress", "egress-gone",
               "egress-wait", "proxy-sweep"}

\* Without an error so far, what has been passed on the way back is undone or was
\* refused in silence.
NetworkIsRestored ==
    /\ (mode = "exit" /\ at = "write") => ~exitNode
    /\ mode = "relay" =>
          /\ at = "unblock-client" => bad \/ "router" \notin rules \ refused
          /\ at = "unblock-server" => bad \/ rules \ refused \subseteq {"server"}
          /\ at = "write" => ~bad /\ rules \subseteq refused

\* The rules that stand between a measurement and the paths it must not take.
PathsAreBlocked ==
    /\ \A p \in Paths : ran[p] \subseteq NoFaster[p]
    /\ mode # "relay" \/ at = "wait-peer" => want = "direct"
    /\ at = "block-server" => bad \/ "client" \in rules
    /\ \/ at = "block-router"
       \/ at \in {"assert", "measure"} /\ want # "direct"
       => {"client", "server"} \subseteq rules
    /\ at \in {"assert", "measure"} /\ want = "derp" => "router" \in rules

\* The states that the mode has left behind, or is in, were confirmed.
PathsAreConfirmed ==
    mode = "relay" =>
        /\ \/ at \in {"block-client", "block-server", "block-router"}
           \/ at \in {"assert", "measure"} /\ want # "direct"
           => "direct" \in ran["direct"]
        /\ \/ at = "block-router"
           \/ at \in {"assert", "measure"} /\ want = "derp"
           => "relay" \in ran["relay"]
        /\ at = "measure" => want \in ran[want]
        /\ at \in {"unblock-router", "unblock-client", "unblock-server", "write"} =>
              bad \/ \A p \in Paths : p \in ran[p]

Proxies(m) == m \in {"proxy-off", "proxy-on"}

\* From settled proxies of one setting to proxies of the mode's setting.
RollsOut ==
    LET old == before.revision
        new == Setting(mode)
    IN /\ old \in Settings /\ before.setting = old /\ class = new
       /\ {spec, update, current} \subseteq {old, new}
       /\ spec = old => update = old
       /\ update = old => current = old /\ \A r \in Replicas : pods[r] = old
       /\ current = new => \A r \in Replicas : pods[r] = new

RolloutIsTracked ==
    /\ env = "container" => class \in Settings
    /\ Proxies(mode) /\ at = "apply" /\ before.settled =>
          Settled /\ before.revision = class /\ before.setting = class
    /\ Proxies(mode) /\ before.settled =>
          /\ at \in {"rollout", "egress", "egress-gone", "egress-wait",
                     "proxy-sweep", "write"} => RollsOut
          /\ at \in {"egress", "egress-gone", "egress-wait", "proxy-sweep",
                     "write"} => current = Setting(mode)
          /\ at = "write" => swept.settings = {Setting(mode)}

\* The condition tells of the mapping it was reported for, and the service names
\* the pair under test from EnsureEgressService on.
EgressIsTracked ==
    /\ service = "external" /\ ready /\ ~stale => routed = egress
    /\ Proxies(mode) =>
          /\ at \in {"egress-wait", "proxy-sweep"} =>
                service = "external" /\ egress = pair
          /\ at = "proxy-sweep" => stale \/ routed = pair
          /\ at = "write" => swept.stale \/ swept.pair = pair

\* All of it: what runModeLoop keeps between any two of its remote commands.
LoopInvariant ==
    /\ TypeOK
    /\ StepFits
    /\ LeftoversMeanFailure
    /\ NetworkIsRestored
    /\ PathsAreBlocked
    /\ PathsAreConfirmed
    /\ RolloutIsTracked
    /\ EgressIsTracked
=============================================================================
