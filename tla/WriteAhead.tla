----------------------------- MODULE WriteAhead -----------------------------
(***************************************************************************)
(* What a run promises about the cloud stacks it owns, told without any of *)
(* the machinery: a stack is provisioned only while the durable inventory  *)
(* already names it, and the inventory stops naming it only when it is     *)
(* gone.  One stack changes at a time; the inventory may be rewritten as a *)
(* whole.  Tailbench implements this specification.                        *)
(***************************************************************************)
CONSTANT Stacks

VARIABLES
    owned,      \* the stacks that hold cloud resources
    recorded    \* the stacks a later cleanup would know about

Init == owned = {} /\ recorded = {}

Record ==
    /\ \E stacks \in SUBSET Stacks :
            owned \subseteq stacks /\ recorded' = stacks
    /\ UNCHANGED owned

Provision(s) ==
    /\ s \in recorded
    /\ owned' = owned \cup {s}
    /\ UNCHANGED recorded

Release(s) ==
    /\ owned' = owned \ {s}
    /\ UNCHANGED recorded

Next == Record \/ \E s \in Stacks : Provision(s) \/ Release(s)

Spec == Init /\ [][Next]_<<owned, recorded>>
=============================================================================
