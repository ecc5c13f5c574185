-------------------------- MODULE ProviderContract --------------------------
(***************************************************************************)
(* What the orchestrator relies on when it calls a provider: one call at a *)
(* time acts on one stack, a creation that returns nil leaves the stack    *)
(* with resources, a destruction that returns nil leaves it with none, and *)
(* a call that fails or dies may stop anywhere.  Tearing down the network  *)
(* may take pairs along, as deleting a managed cluster does.               *)
(***************************************************************************)
CONSTANTS Stacks, Network

VARIABLES
    live,   \* stacks that hold at least one cloud resource
    op,     \* what the call in progress does: "none", "create", "destroy"
    on,     \* the stack it was made for, Network when there is none
    ret     \* what the last call returned: "ok" for nil, else "error"

Init == live = {} /\ op = "none" /\ on = Network /\ ret = "ok"

Begin ==
    /\ op = "none"
    /\ op' \in {"create", "destroy"} /\ on' \in Stacks
    /\ UNCHANGED <<live, ret>>

Touched(after) ==
    \/ op = "create" /\ after \in {live, live \cup {on}}
    \/ op = "destroy" /\ after \in {live, live \ {on}}
    \/ op = "destroy" /\ on = Network /\ after \subseteq live

Work == op # "none" /\ Touched(live') /\ UNCHANGED <<op, on, ret>>

Return ==
    /\ op # "none" /\ op' = "none" /\ on' = Network /\ ret' = "ok"
    /\ UNCHANGED live
    /\ op = "create" => on \in live
    /\ op = "destroy" => on \notin live

\* The call returns an error, or its process dies, perhaps with a request to the
\* cloud still under way.
Fail ==
    /\ op # "none" /\ op' = "none" /\ on' = Network /\ ret' = "error"
    /\ Touched(live')

Next == Begin \/ Work \/ Return \/ Fail
Spec == Init /\ [][Next]_<<live, op, on, ret>>
=============================================================================
