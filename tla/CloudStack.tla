----------------------------- MODULE CloudStack -----------------------------
(***************************************************************************)
(* A provider at work: the external calls of SetupNetworking, CreatePair,  *)
(* DestroyPair and TeardownNetworking against Pulumi's backend and the     *)
(* cloud, the crash of the process between any two of them or inside one,  *)
(* and what the next process, a run, a resume or a cleanup, finds.         *)
(*                                                                         *)
(* Pulumi and the clouds are external and modelled from how the providers  *)
(* use them: an update takes the stack's lock, walks the program's graph   *)
(* one resource at a time and writes each finished step to the stack's     *)
(* checkpoint.  A process that dies leaves the lock, and a creation in     *)
(* flight may leave a resource that no checkpoint knows.                   *)
(***************************************************************************)
EXTENDS StackPrograms, Naturals, Sequences

CONSTANTS
    Types,      \* instance types
    Providers,  \* providers to consider, one per behaviour
    MaxFaults   \* per provider, bound on crashes and failures of calls

ASSUME TypesAssumption == Types # {} /\ "network" \notin Types
ASSUME ProvidersAssumption == Providers \subseteq AllProviders
ASSUME FaultsAssumption == MaxFaults \in [AllProviders -> Nat]

Network == "network"
Stacks == Types \cup {Network}

VARIABLES
    provider,   \* the compiled-in provider
    named,      \* stacks that the run's manifest has the name of
    known,      \* stacks that exist in Pulumi's backend
    state,      \* their checkpoints: the resources Pulumi knows of
    locked,     \* stacks whose lock is held, by a live or a dead process
    cloud,      \* resources whose creation was acknowledged, <<stack, res>>
    orphans,    \* resources whose creation nobody heard the end of
    vanishing,  \* resources under an asynchronous deletion
    key,        \* the generated SSH key file: "none", "torn" or "whole"
    session,    \* the process: its command, position and what it knows
    call,       \* the provider method in progress
    ret,        \* what the last method returned
    faults

infra == <<known, state, locked, cloud, orphans, vanishing>>
vars == <<provider, named, infra, key, session, call, ret, faults>>

-----------------------------------------------------------------------------
\* The graph of a stack and the resources another one stands on.

ProgramOf(p, s) ==
    IF s # Network THEN CreatePairOf[p].program
    ELSE IF ManagesNetworking(p) THEN SetupNetworkingOf[p].program ELSE <<>>
Program(s) == ProgramOf(provider, s)

\* Everything that must exist for a resource to exist.
Needs(o) ==
    {<<o[1], r>> : r \in Program(o[1])[o[2]]}
      \cup (IF o[1] = Network THEN {}
            ELSE {<<Network, r>> : r \in CreatePairOf[provider].uses[o[2]]})

Existing == cloud \cup orphans \cup vanishing
Known(s) == {<<s, r>> : r \in state[s]}

\* A name of the code's choosing that is already taken.
NameTaken(o) ==
    /\ o[2] \in NamedByCode(provider)
    /\ \/ o \in Existing
       \/ SharesPoolName(provider) /\ o[1] \in Types
          /\ \E e \in Existing : e[1] \in Types

PoolsOf(o) ==
    IF ClusterTakesPools(provider) /\ o = <<Network, "cluster">>
    THEN {e \in Existing : e[1] \in Types} ELSE {}

\* The cloud does not delete what another resource stands on.
InUse(o) == \E e \in Existing \ PoolsOf(o) : o \in Needs(e)

-----------------------------------------------------------------------------
\* Processes and the calls they make.

\* A crash, or a call that fails for no reason of the model.
Fault == faults < MaxFaults[provider] /\ faults' = faults + 1
Undisturbed == faults = MaxFaults[provider]

NoCall == [op |-> "none", on |-> Network, calls |-> <<>>, busy |-> FALSE,
           failed |-> {}]
NoSession ==
    [command |-> "none", at |-> "none", todo |-> {}, cluster |-> FALSE,
     locks |-> {}]

Init ==
    /\ provider \in Providers /\ named = {}
    /\ known = {} /\ state = [s \in Stacks |-> {}] /\ locked = {}
    /\ cloud = {} /\ orphans = {} /\ vanishing = {}
    /\ key = "none"
    /\ session = NoSession /\ call = NoCall /\ ret = "ok" /\ faults = 0

Idle == session.command # "none" /\ call.op = "none"

\* A run or a resume begins with SetupNetworking.  A new provider value has no
\* kubeconfig and no cluster name.
StartRun ==
    /\ session.command = "none"
    /\ session' = [NoSession EXCEPT !.command = "run", !.at = "setup"]
    /\ UNCHANGED <<provider, named, infra, key, call, ret, faults>>

\* The lock files below the run's provider state that belong to a stack the
\* manifest has the name of.
FindPulumiLocks == locked \cap named

\* cleanup RUN_ID; with --recover-pulumi-locks the locks are looked up before
\* anything else, and shown to the user for confirmation.  A manifest without
\* the name of a stack has the command refused.
StartCleanup(recover) ==
    /\ session.command = "none"
    /\ recover => named # {}
    /\ session' = [NoSession EXCEPT
            !.command = "cleanup", !.todo = Types,
            !.at = IF recover THEN "recover" ELSE "destroy",
            !.locks = IF recover THEN FindPulumiLocks ELSE {}]
    /\ UNCHANGED <<provider, named, infra, key, call, ret, faults>>

\* Mutant: only the stacks of pairs are looked up.
RecoverPairLocks ==
    /\ session.command = "cleanup" /\ session.at = "recover"
    /\ locked' = locked \ (session.locks \ {Network})
    /\ session' = [session EXCEPT !.at = "destroy"]
    /\ UNCHANGED <<provider, named, known, state, cloud, orphans, vanishing,
                   key, call, ret, faults>>

\* The files are removed in order, and a failure stops the removal.
RemovePulumiLocks(locks) ==
    \/ locked' = locked \ locks /\ UNCHANGED faults
    \/ /\ Fault
       /\ \E rest \in SUBSET locks : rest # {} /\ locked' = locked \ (locks \ rest)

\* recoverRecordedPulumiLocks: cleanup goes on whatever became of the locks.
RecoverLocks ==
    /\ session.command = "cleanup" /\ session.at = "recover"
    /\ RemovePulumiLocks(session.locks)
    /\ session' = [session EXCEPT !.at = "destroy", !.locks = {}]
    /\ UNCHANGED <<provider, named, known, state, cloud, orphans, vanishing,
                   key, call, ret>>

Calls(op, s, calls) ==
    /\ call' = [NoCall EXCEPT !.op = op, !.on = s, !.calls = calls]
    /\ UNCHANGED <<provider, infra, key, ret, faults>>

\* The run's calls.  The record of the intent to set the network up takes the
\* place of an earlier record, with no name of a stack in it.
SetupNetworking ==
    /\ Idle /\ session.at = "setup" /\ ManagesNetworking(provider)
    /\ session' = [session EXCEPT !.at = "ready-if-ok"]
    /\ named' = named \ {Network}
    /\ Calls("create", Network, SetupNetworkingOf[provider].calls)

\* GCP looks its network up and only prepares the key.
UseOwnNetwork ==
    /\ Idle /\ session.at = "setup" /\ ~ManagesNetworking(provider)
    /\ \/ /\ key # "torn" /\ key' = "whole"
          /\ session' = [session EXCEPT !.at = "ready"] /\ UNCHANGED faults
       \/ /\ \/ key = "torn" /\ UNCHANGED <<key, faults>>
             \/ /\ key = "none" /\ key' \in {"none", "torn"}
                /\ Fault
          /\ session' = [session EXCEPT !.at = "leave"]
    /\ UNCHANGED <<provider, named, infra, call, ret>>

SetupReturns ==
    /\ Idle /\ session.at = "ready-if-ok"
    /\ session' = [session EXCEPT !.at = IF ret = "ok" THEN "ready"
                                         ELSE "leave"]
    /\ UNCHANGED <<provider, named, infra, key, call, ret, faults>>

\* Every pair is destroyed before it is created.
DestroyPair(t) ==
    /\ Idle /\ UNCHANGED named
    /\ \/ session.command = "run" /\ session.at \in {"ready"} \cup Types
          /\ session' = [session EXCEPT !.at = t]
       \/ session.at = "destroy" /\ t \in session.todo
          /\ session' = [session EXCEPT !.todo = session.todo \ {t}]
    /\ Calls("destroy", t, DestroyPairOf[provider])

\* The topology's intent record has no name, but the records of an earlier
\* server and client keep theirs.
CreatePair(t) ==
    /\ Idle /\ UNCHANGED named /\ session.command = "run" /\ session.at = t
    /\ session' = [session EXCEPT !.at = "ready"]
    /\ Calls("create", t, CreatePairOf[provider].calls)

\* The deferred teardown of a run, and the last call of a cleanup.
TeardownNetworking ==
    /\ Idle /\ ManagesNetworking(provider) /\ UNCHANGED named
    /\ \/ session.command = "run"
          /\ session.at \in {"ready", "leave"} \cup Types
       \/ session.at = "destroy" /\ session.todo = {}
    /\ session' = [session EXCEPT !.at = "done"]
    /\ Calls("destroy", Network, TeardownNetworkingOf[provider])

\* The command ends: policy keeps the network, or there is nothing left to do.
Exit ==
    /\ Idle
    /\ \/ session.at = "done"
       \/ session.command = "run"
          /\ session.at \in {"ready", "leave"} \cup Types
       \/ session.at = "destroy" /\ session.todo = {}
          /\ ~ManagesNetworking(provider)
    /\ session' = NoSession
    /\ UNCHANGED <<provider, named, infra, key, call, ret, faults>>

-----------------------------------------------------------------------------
\* The calls of a provider method.

On == call.on
Step(names) == call.op # "none" /\ call.calls # <<>> /\ Head(call.calls) \in names
Advance ==
    /\ call' = [call EXCEPT !.calls = Tail(call.calls), !.busy = FALSE,
                            !.failed = {}]
    /\ UNCHANGED ret
Return(result) == call' = NoCall /\ ret' = result

\* A creation answers with the name of its stack, and the orchestrator's next
\* step records it: a process that dies in between might as well have died
\* before the answer.
ReturnNil ==
    /\ call.op # "none" /\ call.calls = <<>>
    /\ Return("ok")
    /\ named' = IF call.op = "create" THEN named \cup {On} ELSE named
    /\ UNCHANGED <<provider, infra, key, session, faults>>

\* Any call but the deletion of pods can fail, before it has had an effect.
CallFails ==
    /\ call.op # "none" /\ call.calls # <<>> /\ ~Step({"ssh-key", "delete-pods"})
    /\ ~call.busy /\ Fault
    /\ Return("error")
    /\ UNCHANGED <<provider, named, infra, key, session>>

\* Stack settings, and the pods of a pair, whose deletion is best effort.
PlainCall ==
    /\ Step({"config", "delete-pods"}) /\ Advance
    /\ UNCHANGED <<provider, named, infra, key, session, faults>>

\* The cluster's credentials, after which the provider value knows its cluster.
ClusterCredentials ==
    /\ Step({"credentials"})
    /\ IF <<Network, "cluster">> \in cloud
       THEN Advance /\ session' = [session EXCEPT !.cluster = TRUE]
       ELSE Return("error") /\ UNCHANGED session
    /\ UNCHANGED <<provider, named, infra, key, faults>>

\* Calls to the cluster's API: the namespace and the secret are created or kept,
\* nodes and pods are waited for until a deadline.
KubernetesCall ==
    /\ Step({"namespace", "nodes", "secret", "server-pod", "client-pod",
             "pod-ip"})
    /\ IF /\ <<Network, "cluster">> \in cloud
          /\ On # Network => <<On, "pool">> \in cloud
       THEN Advance ELSE Return("error")
    /\ UNCHANGED <<provider, named, infra, key, session, faults>>

\* EnsureSSHKey reuses the key on disk, refuses one it cannot parse and writes
\* a new one without a temporary file.
EnsureSSHKey ==
    /\ Step({"ssh-key"})
    /\ \/ key # "torn" /\ key' = "whole" /\ Advance /\ UNCHANGED faults
       \/ key = "torn" /\ Return("error") /\ UNCHANGED <<key, faults>>
       \/ /\ key = "none" /\ Fault
          /\ key' \in {"none", "torn"} /\ Return("error")
    /\ UNCHANGED <<provider, named, infra, session>>

\* Mutant: the stack is created, and a second creation refused.
CreateStack ==
    /\ Step({"upsert"})
    /\ IF On \in known THEN Return("error") ELSE Advance
    /\ known' = known \cup {On}
    /\ UNCHANGED <<provider, named, state, locked, cloud, orphans, vanishing,
                   key, session, faults>>

UpsertStack ==
    /\ Step({"upsert"}) /\ Advance
    /\ known' = known \cup {On}
    /\ UNCHANGED <<provider, named, state, locked, cloud, orphans, vanishing,
                   key, session, faults>>

\* Mutant: the 404 of a stack that does not exist is not looked at.
SelectStackAnyway ==
    /\ Step({"select", "select-or-fallback"}) /\ Advance
    /\ UNCHANGED <<provider, named, infra, key, session, faults>>

\* A stack the backend does not have needs no destruction.
SelectStack ==
    /\ Step({"select", "select-or-fallback"})
    /\ \/ On \in known /\ Advance
       \/ On \notin known /\ Step({"select"}) /\ Return("ok")
    /\ UNCHANGED <<provider, named, infra, key, session, faults>>

\* Mutant: the label that names the pool's instance type is not asked for.
AnyPool == {o \in cloud \cup orphans : o[1] \in Types}

\* The pools the provider's CLI finds for the pair: by label on GKE, by the one
\* fixed name on AKS.  A process without a cluster name looks for none.
FallbackPools ==
    {o \in cloud \cup orphans :
        /\ session.cluster /\ o[1] \in Types
        /\ o[1] = On \/ SharesPoolName(provider)}

\* cleanupNodePools: the deletion is requested and not awaited.
Fallback ==
    /\ Step({"select-or-fallback"}) /\ On \notin known
    /\ vanishing' = vanishing \cup FallbackPools
    /\ cloud' = cloud \ FallbackPools
    /\ orphans' = orphans \ FallbackPools
    /\ Return("ok")
    /\ UNCHANGED <<provider, named, known, state, locked, key, session, faults>>

CancelUpdate ==
    /\ Step({"cancel"}) /\ Advance
    /\ locked' = locked \ {On}
    /\ UNCHANGED <<provider, named, known, state, cloud, orphans, vanishing,
                   key, session, faults>>

\* Without force Pulumi removes only a stack that has no resources.
RemoveStack ==
    /\ Step({"remove"}) /\ state[On] = {} /\ Advance
    /\ known' = known \ {On}
    /\ UNCHANGED <<provider, named, state, locked, cloud, orphans, vanishing,
                   key, session, faults>>

-----------------------------------------------------------------------------
\* Pulumi updates (external).

Updates == {"up", "refresh-up", "destroy", "destroy-all"}
Updating(names) == Step(names) /\ call.busy

\* What a checkpoint names is looked up by its ID, which for a name of the code's
\* choosing is the name.
Found(o) == o \in cloud \/ NameTaken(o)

\* The update takes the lock; with Refresh it drops what the cloud has lost.
BeginUpdate ==
    /\ Step(Updates) /\ ~call.busy /\ On \notin locked
    /\ locked' = locked \cup {On}
    /\ call' = [call EXCEPT !.busy = TRUE]
    /\ state' = IF Step({"refresh-up"})
                THEN [state EXCEPT ![On] = {r \in @ : Found(<<On, r>>)}]
                ELSE state
    /\ UNCHANGED <<provider, named, known, cloud, orphans, vanishing, key,
                   session, ret, faults>>

\* A stack that is locked cannot be updated.
UpdateRefused ==
    /\ Step(Updates) /\ ~call.busy /\ On \in locked /\ Return("error")
    /\ UNCHANGED <<provider, named, infra, key, session, faults>>

\* Resources whose turn it is.
Creatable ==
    {r \in DOMAIN Program(On) \ state[On] :
        /\ Updating({"up", "refresh-up"}) /\ call.failed = {}
        /\ Program(On)[r] \subseteq state[On]}
Deletable ==
    {r \in state[On] \ call.failed :
        /\ \/ Updating({"destroy"}) /\ call.failed = {}
           \/ Updating({"destroy-all"})
        /\ \A d \in state[On] : r \notin Program(On)[d]}

Accepted(o) == ~NameTaken(o) /\ Needs(o) \subseteq cloud

CreateResource ==
    \E r \in Creatable :
        /\ Accepted(<<On, r>>)
        /\ cloud' = cloud \cup {<<On, r>>}
        /\ state' = [state EXCEPT ![On] = @ \cup {r}]
        /\ UNCHANGED <<provider, named, known, locked, orphans, vanishing, key,
                       session, call, ret, faults>>

DeleteResource ==
    \E r \in Deletable :
        /\ ~InUse(<<On, r>>)
        /\ cloud' = (cloud \ {<<On, r>>}) \ PoolsOf(<<On, r>>)
        /\ orphans' = orphans \ PoolsOf(<<On, r>>)
        /\ vanishing' = vanishing \ PoolsOf(<<On, r>>)
        /\ state' = [state EXCEPT ![On] = @ \ {r}]
        /\ UNCHANGED <<provider, named, known, locked, key, session, call, ret,
                       faults>>

\* The cloud refuses, or the request fails.
Refused ==
    {r \in Creatable : ~Accepted(<<On, r>>)}
      \cup {r \in Deletable : InUse(<<On, r>>)}

ResourceFails ==
    \E r \in Creatable \cup Deletable :
        /\ \/ r \in Refused /\ UNCHANGED faults
           \/ r \notin Refused /\ Fault
        /\ call' = [call EXCEPT !.failed = @ \cup {r}]
        /\ UNCHANGED <<provider, named, infra, key, session, ret>>

UpdateDone ==
    \/ Updating({"up", "refresh-up"}) /\ state[On] = DOMAIN Program(On)
    \/ Updating({"destroy", "destroy-all"}) /\ state[On] = {}

EndUpdate ==
    /\ Updating(Updates) /\ Creatable = {} /\ Deletable = {}
    /\ IF UpdateDone THEN Advance ELSE Return("error")
    /\ locked' = locked \ {On}
    /\ UNCHANGED <<provider, named, known, state, cloud, orphans, vanishing,
                   key, session, faults>>

-----------------------------------------------------------------------------
\* The process dies, perhaps with a request to the cloud or a write under way.
WritesKey ==
    /\ key = "none"
    /\ \/ Step({"ssh-key"})
       \/ Idle /\ session.at = "setup" /\ ~ManagesNetworking(provider)

Crash ==
    /\ session.command # "none" /\ Fault
    /\ \/ UNCHANGED <<cloud, orphans, key>>
       \/ \E r \in Creatable : /\ Accepted(<<On, r>>)
                              /\ orphans' = orphans \cup {<<On, r>>}
                              /\ UNCHANGED <<cloud, key>>
       \/ \E r \in Deletable : /\ ~InUse(<<On, r>>)
                              /\ cloud' = (cloud \ {<<On, r>>})
                                             \ PoolsOf(<<On, r>>)
                              /\ orphans' = orphans \ PoolsOf(<<On, r>>)
                              /\ UNCHANGED key
       \/ WritesKey /\ key' = "torn" /\ UNCHANGED <<cloud, orphans>>
    /\ session' = NoSession /\ call' = NoCall
    /\ ret' = IF call.op = "none" THEN ret ELSE "error"
    /\ UNCHANGED <<provider, named, known, state, locked, vanishing>>

\* An asynchronous deletion comes to its end (external).
Vanish(o) ==
    /\ o \in vanishing /\ vanishing' = vanishing \ {o}
    /\ UNCHANGED <<provider, named, known, state, locked, cloud, orphans, key,
                   session, call, ret, faults>>

-----------------------------------------------------------------------------
Start == StartRun \/ \E recover \in BOOLEAN : StartCleanup(recover)

Driver ==
    \/ RecoverLocks \/ SetupNetworking \/ UseOwnNetwork \/ SetupReturns
    \/ \E t \in Types : DestroyPair(t) \/ CreatePair(t)
    \/ TeardownNetworking \/ Exit

Method ==
    \/ ReturnNil \/ CallFails \/ PlainCall \/ ClusterCredentials
    \/ KubernetesCall \/ EnsureSSHKey \/ UpsertStack \/ SelectStack \/ Fallback
    \/ CancelUpdate \/ RemoveStack \/ BeginUpdate \/ UpdateRefused
    \/ CreateResource \/ DeleteResource \/ ResourceFails \/ EndUpdate

Deletions == \E o \in vanishing : Vanish(o)

Next == Start \/ Driver \/ Method \/ Crash \/ Deletions

\* A live process makes its next call and every call returns: the providers pass
\* contexts with deadlines to what they wait for.  Crashes and new commands are
\* never promised.
Spec ==
    /\ Init /\ [][Next]_vars
    /\ WF_vars(Driver) /\ WF_vars(Method) /\ WF_vars(Deletions)

-----------------------------------------------------------------------------
TypeOK ==
    /\ provider \in Providers /\ named \subseteq Stacks
    /\ known \subseteq Stacks /\ locked \subseteq known
    /\ \A s \in Stacks \ known : state[s] = {}
    /\ \A s \in Stacks : state[s] \subseteq DOMAIN Program(s)
    /\ \A o \in cloud : o[2] \in state[o[1]]
    /\ \A o \in Existing : o[1] \in Stacks /\ o[2] \in DOMAIN Program(o[1])
    /\ key \in {"none", "torn", "whole"} /\ ret \in {"ok", "error"}
    /\ call.op \in {"none", "create", "destroy"} /\ call.on \in Stacks
    /\ session.command \in {"none", "run", "cleanup"}
    /\ faults \in 0..MaxFaults[provider]

\* SetupNetworking, CreatePair, DestroyPair and TeardownNetworking keep what the
\* orchestrator relies on: nil from a creation means that the stack has
\* resources, nil from a destruction that it has none, and no call touches the
\* stack of another instance type.
Contract == INSTANCE ProviderContract WITH
    live <- {o[1] : o \in cloud}, op <- call.op, on <- call.on
ImplementsContract == Contract!Spec

\* DestroyPair, which the pre-cleanup of every instance type calls, deletes no
\* node of another type: under the manual policy those are left running.
DestroyIsScoped ==
    [][call.op = "destroy" /\ call.on \in Types =>
          \A o \in cloud \ cloud' : o[1] = call.on]_vars

\* cleanup with --recover-pulumi-locks ends with nothing left, however the
\* processes before it died: once nothing more goes wrong it removes every
\* stale lock it can name, destroys every pair and the network they stand on.
\* DestroyPair cancels an update of its own stack, so the locks of pairs need no
\* name.  TeardownNetworking does not: a lock that a process left inside
\* SetupNetworking, whose record has no name yet, is beyond the command, and so
\* is a resource of a creation that nobody heard the end of.
RecoveringCleanup ==
    (/\ session.at = "recover" /\ Undisturbed /\ orphans = {}
     /\ Network \in locked => Network \in named)
      ~> (session.command = "none" /\ cloud = {})

\* SetupNetworking can be repeated: a run that starts after any number of failed
\* or dead ones gets its network, provided nobody holds the network's lock, the
\* key file is readable and Pulumi's checkpoint agrees with the cloud.
RestartSucceeds ==
    (/\ session.command = "run" /\ session.at = "setup" /\ call.op = "none"
     /\ Undisturbed /\ Network \notin locked /\ key # "torn"
     /\ orphans = {} /\ \A r \in state[Network] : <<Network, r>> \in cloud)
      ~> session.at = "ready"

-----------------------------------------------------------------------------
\* Why TypeOK and ImplementsContract hold: the inductive invariant of a provider
\* at work, as conjuncts.

Resources ==
    UNION {DOMAIN ProgramOf(p, s) : p \in AllProviders, s \in Stacks}
Positions ==
    {"none", "setup", "ready-if-ok", "ready", "leave", "done", "recover",
     "destroy"} \cup Types

Selects == {"upsert", "select", "select-or-fallback"}
Ups == {"up", "refresh-up"}
Destroys == {"destroy", "destroy-all"}
CreateCalls ==
    Ups \cup {"ssh-key", "upsert", "config", "credentials", "namespace", "nodes",
              "secret", "server-pod", "client-pod", "pod-ip"}
DestroyCalls ==
    Destroys \cup {"delete-pods", "select", "select-or-fallback", "cancel",
                   "remove"}

SessionShapes ==
    [command : {"none", "run", "cleanup"}, at : Positions, todo : SUBSET Types,
     cluster : BOOLEAN, locks : SUBSET Stacks]
CallShapes ==
    [op : {"none", "create", "destroy"}, on : Stacks,
     calls : Seq(CreateCalls \cup DestroyCalls), busy : BOOLEAN,
     failed : SUBSET Resources]

\* Calls that have not returned yet.
Left(names) == \E i \in 1..Len(call.calls) : call.calls[i] \in names

\* The shapes of the records, and a method's calls after any number of returns.
CallIsShaped ==
    /\ state \in [Stacks -> SUBSET Resources]
    /\ session \in SessionShapes
    /\ call \in CallShapes
    /\ call.op = "none" => call = NoCall
    /\ call.op = "create" => ~Left(DestroyCalls)
    /\ call.op = "destroy" => ~Left(CreateCalls)

\* What exists is a resource of some stack.
CloudIsShaped == Existing \subseteq Stacks \X Resources

\* Nothing is updated before its stack is known, and the removal of the stack,
\* whose checkpoint is empty by then and whose lock is free, comes last.
CallsAreOrdered ==
    /\ \A i \in 1..Len(call.calls) :
         /\ call.calls[i] \in Updates =>
              On \in known \/ \E j \in 1..(i - 1) : call.calls[j] \in Selects
         /\ call.calls[i] = "remove" => i = Len(call.calls)
    /\ call.op = "destroy" =>
         Left(Destroys) \/ (state[On] = {} /\ On \notin locked)

\* A resource that another one in the checkpoint was made from is in the cloud,
\* even if a process died while it deleted the other one.
FoundationsExist ==
    \A s \in Stacks : \A d \in state[s] : \A r \in Program(s)[d] :
        <<s, r>> \in cloud

\* An update that began with a refresh knows only what the cloud has, unless
\* something else goes by the same name.
RefreshIsTrue ==
    Updating({"refresh-up"}) =>
        \A r \in state[On] : r \in NamedByCode(provider) \/ <<On, r>> \in cloud

\* A finished update means resources in the cloud: the program has a resource
\* under another one, or the update refreshes and no resource has a fixed name.
UpdateIsTelling(s, update) ==
    \/ \E d \in DOMAIN Program(s) : Program(s)[d] # {}
    \/ /\ update = "refresh-up" /\ DOMAIN Program(s) # {}
       /\ DOMAIN Program(s) \cap NamedByCode(provider) = {}

\* A creation is past its update only with resources in the cloud.
CreationIsLive ==
    call.op = "create" =>
        /\ Left(Ups) \/ \E o \in cloud : o[1] = On
        /\ \A i \in 1..Len(call.calls) :
             call.calls[i] \in Ups => UpdateIsTelling(On, call.calls[i])

\* The inductive invariant of every provider, and the one of those whose pools
\* have names of their own.
StackInvariant == TypeOK /\ CloudIsShaped /\ CallIsShaped /\ CallsAreOrdered
ContractInvariant ==
    StackInvariant /\ FoundationsExist /\ RefreshIsTrue /\ CreationIsLive
=============================================================================
