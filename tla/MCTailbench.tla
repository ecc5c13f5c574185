---------------------------- MODULE MCTailbench -----------------------------
(* Small instances of Tailbench for TLC. *)
EXTENDS Tailbench

CONSTANTS t1, t2, m1, m2, d0, d1, d2

OneGroup == [t \in InstanceTypes |-> t1]

Conf(policies, create, managed) ==
    [policy : policies, createTailnet : create, managed : managed]
ManagedConfigs == Conf(CleanupPolicies, {FALSE}, {TRUE})
JoinConfigs == Conf(CleanupPolicies, {FALSE}, BOOLEAN)
CreateConfigs == Conf(CleanupPolicies, {TRUE}, {TRUE})
MixedConfigs == ManagedConfigs \cup Conf({"always"}, BOOLEAN, {FALSE})
=============================================================================
