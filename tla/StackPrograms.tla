--------------------------- MODULE StackPrograms ----------------------------
(***************************************************************************)
(* What the six cloud providers ask of Pulumi.  Each provider method is a  *)
(* list of external calls that CloudStack executes one by one, and each    *)
(* Pulumi program is the graph it declares: every resource with the        *)
(* resources of the same stack whose outputs it reads.  uses names what a  *)
(* pair takes from the networking stack.  Sizes, names, tags and firewall  *)
(* ports are left out.                                                     *)
(*                                                                         *)
(* Calls: upsert, select and remove act on the stack in Pulumi's backend,  *)
(* select-or-fallback is a select whose 404 goes on to a provider CLI, up, *)
(* refresh-up, destroy and destroy-all (ContinueOnError) run an update,    *)
(* cancel breaks the stack's lock, delete-pods never fails, and the others *)
(* only succeed or fail.                                                   *)
(***************************************************************************)
CONSTANT WantRouter     \* PairOptions.WantRouter: a third node is provisioned

ASSUME RouterAssumption == WantRouter \in BOOLEAN

Nodes == {"server", "client"} \cup (IF WantRouter THEN {"router"} ELSE {})

-----------------------------------------------------------------------------
\* AWS virtual machines.  No key_name is configured, so a key pair is created.

AWSSetupNetworking ==
    [calls |-> <<"ssh-key", "upsert", "config", "refresh-up">>,
     program |-> [keypair |-> {}, vpc |-> {}, subnet |-> {"vpc"},
                  igw |-> {"vpc"}, rtb |-> {"vpc", "igw"},
                  assoc |-> {"subnet", "rtb"}, sg |-> {"vpc"}, pg |-> {}]]

AWSCreatePair ==
    [calls |-> <<"upsert", "config", "refresh-up">>,
     program |-> [n \in Nodes |-> {}],
     uses |-> [n \in Nodes |-> {"subnet", "sg", "pg", "keypair"}]]

AWSDestroyPair == <<"select", "cancel", "destroy-all", "remove">>
AWSTeardownNetworking == <<"select", "destroy", "remove">>

-----------------------------------------------------------------------------
\* Azure virtual machines.  The five rules of the security group differ only in
\* their ports, and the nodes of a pair, each with an address and an interface,
\* only in their names: one of each stands for all.

AzureSetupNetworking ==
    [calls |-> <<"ssh-key", "upsert", "config", "up">>,
     program |-> [vnet |-> {}, subnet |-> {"vnet"}, nsg |-> {},
                  rules |-> {"nsg"}]]

AzureCreatePair ==
    [calls |-> <<"upsert", "config", "refresh-up">>,
     program |-> [address |-> {}, interface |-> {"address"},
                  machine |-> {"interface"}],
     uses |-> [address |-> {}, interface |-> {"subnet", "nsg"}, machine |-> {}]]

AzureDestroyPair == <<"select", "cancel", "destroy-all", "remove">>
AzureTeardownNetworking == <<"select", "destroy", "remove">>

-----------------------------------------------------------------------------
\* GCP virtual machines live in a network the user brings.

GCPSetupNetworking == <<"ssh-key">>

GCPCreatePair ==
    LET resources == Nodes \cup (IF WantRouter THEN {"firewall"} ELSE {})
    IN [calls |-> <<"upsert", "config", "config", "config", "refresh-up">>,
        program |-> [r \in resources |-> {}],
        uses |-> [r \in resources |-> {}]]

GCPDestroyPair == <<"select", "cancel", "destroy-all", "remove">>

-----------------------------------------------------------------------------
\* Managed Kubernetes: the networking stack is the cluster, a pair is a pool of
\* two nodes with a pod on each.  The two subnets of EKS are one here, and the
\* policy attachments read their role and nothing reads them.

EKSSetupNetworking ==
    [calls |-> <<"upsert", "config", "up", "credentials", "namespace">>,
     program |-> [vpc |-> {}, subnets |-> {"vpc"}, igw |-> {"vpc"},
                  rt |-> {"vpc", "igw"}, rta |-> {"subnets", "rt"},
                  clusterRole |-> {}, clusterPolicy |-> {"clusterRole"},
                  cluster |-> {"clusterRole", "subnets"},
                  nodeRole |-> {}, nodePolicies |-> {"nodeRole"}]]

EKSCreatePair ==
    [calls |-> <<"upsert", "config", "refresh-up", "nodes", "secret",
                 "server-pod", "client-pod">>,
     program |-> [pool |-> {}],
     uses |-> [pool |-> {"cluster", "nodeRole", "subnets"}]]

EKSDestroyPair == <<"delete-pods", "select", "cancel", "destroy-all", "remove">>
EKSTeardownNetworking == <<"select", "destroy", "remove">>

GKESetupNetworking ==
    [calls |-> <<"upsert", "config", "config", "up", "credentials",
                 "namespace">>,
     program |-> [vpc |-> {}, subnet |-> {"vpc"},
                  cluster |-> {"vpc", "subnet"}]]

\* Mutant: Up trusts the checkpoint.
GKECreatePairWithoutRefresh ==
    [calls |-> <<"upsert", "config", "config", "up", "nodes", "secret",
                 "server-pod", "client-pod", "pod-ip", "pod-ip">>,
     program |-> [pool |-> {}], uses |-> [pool |-> {"cluster"}]]

GKECreatePair ==
    [calls |-> <<"upsert", "config", "config", "refresh-up", "nodes", "secret",
                 "server-pod", "client-pod", "pod-ip", "pod-ip">>,
     program |-> [pool |-> {}], uses |-> [pool |-> {"cluster"}]]

GKEDestroyPair ==
    <<"delete-pods", "select-or-fallback", "cancel", "destroy-all", "remove">>
GKETeardownNetworking == <<"select", "destroy", "remove">>

AKSSetupNetworking ==
    [calls |-> <<"upsert", "up", "credentials", "namespace">>,
     program |-> [cluster |-> {}]]

AKSCreatePair ==
    [calls |-> <<"upsert", "refresh-up", "nodes", "secret", "server-pod",
                 "client-pod">>,
     program |-> [pool |-> {}], uses |-> [pool |-> {"cluster"}]]

AKSDestroyPair ==
    <<"delete-pods", "select-or-fallback", "cancel", "destroy-all", "remove">>
AKSTeardownNetworking == <<"select", "destroy", "remove">>

-----------------------------------------------------------------------------
\* The provider interface.

AllProviders == {"aws", "azure", "gcp", "eks", "gke", "aks"}

ManagesNetworking(p) == p # "gcp"

SetupNetworkingOf ==
    [aws |-> AWSSetupNetworking, azure |-> AzureSetupNetworking,
     eks |-> EKSSetupNetworking, gke |-> GKESetupNetworking,
     aks |-> AKSSetupNetworking]
CreatePairOf ==
    [aws |-> AWSCreatePair, azure |-> AzureCreatePair, gcp |-> GCPCreatePair,
     eks |-> EKSCreatePair, gke |-> GKECreatePair, aks |-> AKSCreatePair]
DestroyPairOf ==
    [aws |-> AWSDestroyPair, azure |-> AzureDestroyPair, gcp |-> GCPDestroyPair,
     eks |-> EKSDestroyPair, gke |-> GKEDestroyPair, aks |-> AKSDestroyPair]
TeardownNetworkingOf ==
    [aws |-> AWSTeardownNetworking, azure |-> AzureTeardownNetworking,
     eks |-> EKSTeardownNetworking, gke |-> GKETeardownNetworking,
     aks |-> AKSTeardownNetworking]

\* Resources with a name of the code's choosing, of which a second one cannot be
\* created beside the first; Pulumi gives the others a suffix of its own.
NamedByCode(p) ==
    IF p = "azure" THEN {"vnet", "subnet", "nsg", "rules", "address",
                         "interface", "machine"}
    ELSE IF p = "aws" THEN {"keypair", "sg"}
    ELSE IF p = "aks" THEN {"pool"} ELSE {}

\* The AKS pool is called bench whatever its instance type.
SharesPoolName(p) == p = "aks"

\* Deleting a managed cluster takes its node pools along; EKS refuses.
ClusterTakesPools(p) == p \in {"gke", "aks"}
=============================================================================
