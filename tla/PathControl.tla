---------------------------- MODULE PathControl -----------------------------
(***************************************************************************)
(* The modes of virtual machines that change the network they measure:     *)
(* forward-pps-exit sends the client's traffic through an exit node, and   *)
(* relay-throughput blocks the direct path and then the relay to measure   *)
(* what Tailscale falls back to.  Tailscale (external) moves to any path   *)
(* the rules leave open, whenever it likes.                                *)
(***************************************************************************)
EXTENDS ModeSteps

VARIABLES
    rules,      \* hosts whose iptables rule is in place
    exitNode,   \* the client's egress goes through the router
    path,       \* the connection's present path
    want,       \* the state RunRelayPath asserts and measures
    ran,        \* per state, the paths its measurement ran over
    refused     \* hosts where iptables did not remove the rule (history)

pathVars == <<rules, exitNode, path, want, ran, refused>>

Paths == {"direct", "relay", "derp"}
Hosts == {"client", "server", "router"}

\* With the rule on one of the two hosts a direct path may still be found.
Open ==
    {"derp"} \cup (IF {"client", "server"} \subseteq rules THEN {} ELSE {"direct"})
             \cup (IF "router" \in rules THEN {} ELSE {"relay"})

NothingMeasured == [p \in Paths |-> {}]

\* A connection begins over DERP.
PathInit ==
    /\ rules = {} /\ exitNode = FALSE /\ path = "derp"
    /\ want = "direct" /\ ran = NothingMeasured /\ refused = {}

Measuring == At("measure")

\* Tailscale changes the path, also in the middle of a measurement.
Reroute ==
    /\ mode # "none"
    /\ path' \in Open \ {path}
    /\ ran' = IF Measuring THEN [ran EXCEPT ![want] = @ \cup {path'}] ELSE ran
    /\ UNCHANGED <<steps, rules, exitNode, want, refused>>

-----------------------------------------------------------------------------
\* iptables over SSH.  Adding a rule twice and removing one that is not there
\* change nothing.
AddRule(host) ==
    /\ \/ rules' = rules \cup {host} /\ UNCHANGED <<bad, faults>>
       \/ Fault /\ bad' = TRUE /\ rules' \in {rules, rules \cup {host}}
    /\ UNCHANGED refused

\* "iptables -D ... || true": only the connection's own failure is an error.  One
\* of iptables leaves the rule where it is and goes unnoticed.
RemoveRule(host) ==
    \/ rules' = rules \ {host} /\ UNCHANGED <<bad, faults, refused>>
    \/ Fault /\ UNCHANGED <<bad, rules>> /\ refused' = refused \cup {host}
    \/ Fault /\ bad' = TRUE /\ rules' \in {rules, rules \ {host}} /\ UNCHANGED refused

-----------------------------------------------------------------------------
\* forward-pps-exit.

GetRouterIP ==
    /\ At("router-ip") /\ (Then("set-exit") \/ FailMode)
    /\ UNCHANGED pathVars

SetExitNode ==
    /\ At("set-exit")
    /\ \/ Then("sweep") /\ exitNode' = TRUE
       \/ FailMode /\ exitNode' \in {exitNode, TRUE}
    /\ UNCHANGED <<rules, path, want, ran, refused>>

SweepThroughRouter ==
    /\ At("sweep") /\ Deferred("clear-exit")
    /\ UNCHANGED pathVars

\* Mutant: the error of clearing the exit node is dropped.
ClearExitNodeBestEffort ==
    /\ At("clear-exit")
    /\ Goto(IF bad THEN "failed" ELSE "write") /\ UNCHANGED bad
    /\ \/ UNCHANGED faults /\ exitNode' = FALSE
       \/ Fault /\ exitNode' \in {exitNode, FALSE}
    /\ UNCHANGED <<rules, path, want, ran, refused>>

ClearExitNode ==
    /\ At("clear-exit")
    /\ \/ Then(IF bad THEN "failed" ELSE "write") /\ exitNode' = FALSE
       \/ FailMode /\ exitNode' \in {exitNode, FALSE}
    /\ UNCHANGED <<rules, path, want, ran, refused>>

-----------------------------------------------------------------------------
\* relay-throughput.

\* Pings until the peer answers, over whichever path.
WaitForPeer(step) ==
    \/ path \in Open /\ Then(step)
    \/ path \notin Open /\ TimedOut
    \/ FailMode

StartRelay ==
    /\ At("wait-peer") /\ WaitForPeer("assert")
    /\ UNCHANGED pathVars

\* Where the mode goes on from a state that was measured, or could not be.
Measured == [direct |-> "block-client", relay |-> "block-router",
             derp |-> "unblock-router"]
NotMeasured == [direct |-> "failed", relay |-> "unblock-client",
                derp |-> "unblock-router"]

RelayPathFails ==
    /\ Goto(NotMeasured[want]) /\ bad' = TRUE
    /\ UNCHANGED pathVars

\* PathVia takes the first path that answers.  RunRelayPath refuses one that it
\* was not asked for, and gives up when nothing has answered in 20 attempts.
PathVia ==
    /\ At("assert")
    /\ \/ /\ path \in Open /\ path = want /\ Then("measure")
          /\ ran' = [ran EXCEPT ![want] = {path}]
          /\ UNCHANGED <<rules, exitNode, path, want, refused>>
       \/ /\ RelayPathFails
          /\ \/ (path \in Open => path # want) /\ UNCHANGED faults
             \/ Fault

\* Latency, throughput and the sweep.
MeasurePath ==
    /\ At("measure")
    /\ \/ Then(Measured[want]) /\ UNCHANGED pathVars
       \/ RelayPathFails /\ Fault

\* blockDirectPair: both hosts are tried whatever happens to the first.
BlockClient ==
    /\ At("block-client") /\ AddRule("client") /\ Goto("block-server")
    /\ UNCHANGED <<exitNode, path, want, ran>>

\* Mutant: the client's rule is thought to be enough.
BlockClientOnly ==
    /\ At("block-server") /\ Goto(IF bad THEN "unblock-client" ELSE "assert")
    /\ want' = "relay"
    /\ UNCHANGED <<bad, faults, rules, exitNode, path, ran, refused>>

BlockServer ==
    /\ At("block-server") /\ AddRule("server")
    /\ Goto(IF bad' THEN "unblock-client" ELSE "assert")
    /\ want' = "relay"
    /\ UNCHANGED <<exitNode, path, ran>>

\* BlockRelayPort: when it fails only the pair is unblocked.
BlockRelayPort ==
    /\ At("block-router") /\ AddRule("router")
    /\ Goto(IF bad' THEN "unblock-client" ELSE "assert")
    /\ want' = "derp"
    /\ UNCHANGED <<exitNode, path, ran>>

\* restoreRelayNetwork, and unblockDirectPair at its end or on its own: every
\* host is tried, and an error that any of them returns fails the mode.
UnblockRelayPort ==
    /\ At("unblock-router") /\ RemoveRule("router") /\ Goto("unblock-client")
    /\ UNCHANGED <<exitNode, path, want, ran>>

UnblockClient ==
    /\ At("unblock-client") /\ RemoveRule("client") /\ Goto("unblock-server")
    /\ UNCHANGED <<exitNode, path, want, ran>>

UnblockServer ==
    /\ At("unblock-server") /\ RemoveRule("server")
    /\ Goto(IF bad' THEN "failed" ELSE "write")
    /\ UNCHANGED <<exitNode, path, want, ran>>

PathStep ==
    \/ GetRouterIP \/ SetExitNode \/ SweepThroughRouter \/ ClearExitNode
    \/ StartRelay \/ PathVia \/ MeasurePath \/ BlockClient \/ BlockServer
    \/ BlockRelayPort \/ UnblockRelayPort \/ UnblockClient \/ UnblockServer
=============================================================================
