---------------------------- MODULE MCCloudStack ----------------------------
(***************************************************************************)
(* Two instance types on each of the providers.                            *)
(***************************************************************************)
EXTENDS CloudStack

\* One fault on AWS, Azure and EKS, two where the graphs are smaller: on GCP two
\* of them make a checkpoint disagree with the cloud.
Faults == [p \in AllProviders |-> IF p \in {"aws", "azure", "eks"} THEN 1 ELSE 2]
FiveProviders == AllProviders \ {"aks"}
=============================================================================
