-------------------------- MODULE CloudStackProofs --------------------------
(***************************************************************************)
(* Proofs about CloudStack for every set of instance types, every bound on *)
(* faults and every provider.                                              *)
(***************************************************************************)
EXTENDS CloudStack, TLAPS

-----------------------------------------------------------------------------
\* The methods of the providers, as lists of calls.

\* An update comes after the call that selects its stack.
Prepared(calls) ==
    \A i \in 1..Len(calls) :
        calls[i] \in Updates => \E j \in 1..(i - 1) : calls[j] \in Selects

Creates(calls) ==
    /\ calls \in Seq(CreateCalls)
    /\ \E i \in 1..Len(calls) : calls[i] \in Ups
    /\ Prepared(calls)

DestroysStack(calls) ==
    /\ calls \in Seq(DestroyCalls)
    /\ \E i \in 1..Len(calls) : calls[i] \in Destroys
    /\ \A i \in 1..Len(calls) : calls[i] = "remove" => i = Len(calls)
    /\ Prepared(calls)

LEMMA SetupCreates ==
    ASSUME NEW p \in AllProviders, ManagesNetworking(p)
    PROVE  Creates(SetupNetworkingOf[p].calls)
<1> USE DEF Creates, Prepared, Updates, Ups, Selects, CreateCalls
<1>1. Creates(AWSSetupNetworking.calls)
  BY DEF AWSSetupNetworking
<1>2. Creates(AzureSetupNetworking.calls)
  BY DEF AzureSetupNetworking
<1>3. Creates(EKSSetupNetworking.calls)
  BY DEF EKSSetupNetworking
<1>4. Creates(GKESetupNetworking.calls)
  BY DEF GKESetupNetworking
<1>5. Creates(AKSSetupNetworking.calls)
  BY DEF AKSSetupNetworking
<1> HIDE DEF Creates, Prepared, Updates, Ups, Selects, CreateCalls
<1> QED BY <1>1, <1>2, <1>3, <1>4, <1>5
        DEF SetupNetworkingOf, AllProviders, ManagesNetworking
LEMMA PairCreates ==
    ASSUME NEW p \in AllProviders
    PROVE  Creates(CreatePairOf[p].calls)
<1> USE DEF Creates, Prepared, Updates, Ups, Selects, CreateCalls
<1>1. Creates(AWSCreatePair.calls)
  BY DEF AWSCreatePair
<1>2. Creates(AzureCreatePair.calls)
  BY DEF AzureCreatePair
<1>3. Creates(GCPCreatePair.calls)
  BY DEF GCPCreatePair
<1>4. Creates(EKSCreatePair.calls)
  BY DEF EKSCreatePair
<1>5. Creates(GKECreatePair.calls)
  BY DEF GKECreatePair
<1>6. Creates(AKSCreatePair.calls)
  BY DEF AKSCreatePair
<1> HIDE DEF Creates, Prepared, Updates, Ups, Selects, CreateCalls
<1> QED BY <1>1, <1>2, <1>3, <1>4, <1>5, <1>6 DEF CreatePairOf, AllProviders

LEMMA PairDestroys ==
    ASSUME NEW p \in AllProviders
    PROVE  DestroysStack(DestroyPairOf[p])
<1> USE DEF DestroysStack, Prepared, Updates, Destroys, Selects, DestroyCalls
<1>1. DestroysStack(AWSDestroyPair)
  BY DEF AWSDestroyPair
<1>2. DestroysStack(EKSDestroyPair)
  BY DEF EKSDestroyPair
<1>3. DestroysStack(GKEDestroyPair)
  BY DEF GKEDestroyPair
<1> HIDE DEF DestroysStack, Prepared, Updates, Destroys, Selects, DestroyCalls
<1>4. /\ AzureDestroyPair = AWSDestroyPair /\ GCPDestroyPair = AWSDestroyPair
      /\ AKSDestroyPair = GKEDestroyPair
  BY DEF AzureDestroyPair, AWSDestroyPair, GCPDestroyPair, AKSDestroyPair,
         GKEDestroyPair
<1> QED BY <1>1, <1>2, <1>3, <1>4 DEF DestroyPairOf, AllProviders

LEMMA TeardownDestroys ==
    ASSUME NEW p \in AllProviders, ManagesNetworking(p)
    PROVE  DestroysStack(TeardownNetworkingOf[p])
<1>1. DestroysStack(<<"select", "destroy", "remove">>)
  BY DEF DestroysStack, Prepared, Updates, Destroys, Selects, DestroyCalls
<1>2. TeardownNetworkingOf[p] = <<"select", "destroy", "remove">>
  BY DEF TeardownNetworkingOf, AllProviders, ManagesNetworking,
     AWSTeardownNetworking, AzureTeardownNetworking, EKSTeardownNetworking,
     GKETeardownNetworking, AKSTeardownNetworking
<1> QED BY <1>1, <1>2

-----------------------------------------------------------------------------
\* The programs of the providers.

\* A program declares resources of the model.
LEMMA ProgramsAreOfResources ==
    ASSUME NEW p \in AllProviders, NEW s \in Stacks
    PROVE  DOMAIN ProgramOf(p, s) \subseteq Resources
BY DEF Resources

\* No resource of a pair is made from another one where the deletion of the
\* cluster takes the pairs along.
LEMMA PoolsAreFlat ==
    ASSUME NEW p \in AllProviders, ClusterTakesPools(p), NEW t \in Types,
           NEW d \in DOMAIN ProgramOf(p, t)
    PROVE  ProgramOf(p, t)[d] = {}
<1>1. t # Network
  BY TypesAssumption DEF Network
<1>2. ProgramOf(p, t) = CreatePairOf[p].program
  BY <1>1 DEF ProgramOf
<1>3. CASE p = "gke"
  BY <1>2, <1>3 DEF CreatePairOf, GKECreatePair
<1>4. CASE p = "aks"
  BY <1>2, <1>4 DEF CreatePairOf, AKSCreatePair
<1> QED BY <1>3, <1>4 DEF ClusterTakesPools

\* UpdateIsTelling, for a provider that need not be the compiled-in one.
Tells(p, s, update) ==
    \/ \E d \in DOMAIN ProgramOf(p, s) : ProgramOf(p, s)[d] # {}
    \/ /\ update = "refresh-up" /\ DOMAIN ProgramOf(p, s) # {}
       /\ DOMAIN ProgramOf(p, s) \cap NamedByCode(p) = {}

\* The networking stack of every provider but AKS, whose cluster is a single
\* resource, has resources under other ones.
LEMMA SetupIsTelling ==
    ASSUME NEW p \in AllProviders \ {"aks"}, ManagesNetworking(p), NEW update
    PROVE  Tells(p, Network, update)
<1> DEFINE g == ProgramOf(p, Network)
<1>1. g = SetupNetworkingOf[p].program
  BY DEF ProgramOf
<1>2. CASE p \in {"aws", "eks"}
  <2>1. "igw" \in DOMAIN g /\ g["igw"] = {"vpc"}
    BY <1>1, <1>2 DEF SetupNetworkingOf, AWSSetupNetworking, EKSSetupNetworking
  <2> QED BY <2>1 DEF Tells
<1>3. CASE p = "azure"
  <2>1. "subnet" \in DOMAIN g /\ g["subnet"] = {"vnet"}
    BY <1>1, <1>3 DEF SetupNetworkingOf, AzureSetupNetworking
  <2> QED BY <2>1 DEF Tells
<1>4. CASE p = "gke"
  <2>1. "subnet" \in DOMAIN g /\ g["subnet"] = {"vpc"}
    BY <1>1, <1>4 DEF SetupNetworkingOf, GKESetupNetworking
  <2> QED BY <2>1 DEF Tells
<1> QED BY <1>2, <1>3, <1>4 DEF AllProviders, ManagesNetworking

\* Every CreatePair refreshes, and only on Azure and AKS do the resources of a
\* pair have names of the code's choosing.
LEMMA PairIsTelling ==
    ASSUME NEW p \in AllProviders \ {"aks"}, NEW t \in Types,
           NEW i \in 1..Len(CreatePairOf[p].calls),
           CreatePairOf[p].calls[i] \in Ups
    PROVE  Tells(p, t, CreatePairOf[p].calls[i])
<1> DEFINE g == ProgramOf(p, t)
<1>0. g = CreatePairOf[p].program
  BY TypesAssumption DEF ProgramOf, Network
<1>1. CASE p = "azure"
  <2>1. "interface" \in DOMAIN g /\ g["interface"] = {"address"}
    BY <1>0, <1>1 DEF CreatePairOf, AzureCreatePair
  <2> QED BY <2>1 DEF Tells
<1>2. CASE p \in {"aws", "gcp", "eks", "gke"}
  <2> DEFINE calls == CreatePairOf[p].calls
  <2>1. calls[i] = "refresh-up"
    <3>0. i \in 1..Len(calls) /\ calls[i] \in Ups
      OBVIOUS
    <3>1. CASE p = "aws"
      <4>1. calls = <<"upsert", "config", "refresh-up">>
        BY <3>1 DEF CreatePairOf, AWSCreatePair
      <4> HIDE DEF calls
      <4> QED BY <3>0, <4>1 DEF Ups
    <3>2. CASE p = "gcp"
      <4>1. calls = <<"upsert", "config", "config", "config", "refresh-up">>
        BY <3>2 DEF CreatePairOf, GCPCreatePair
      <4> HIDE DEF calls
      <4>2. Len(calls) = 5 /\ \A k \in 1..4 : calls[k] \notin Ups
        BY <4>1 DEF Ups
      <4>3. i = 5
        BY <3>0, <4>2
      <4> QED BY <4>1, <4>3
    <3>3. CASE p = "eks"
      BY <3>0, <3>3 DEF CreatePairOf, EKSCreatePair, Ups
    <3>4. CASE p = "gke"
      BY <3>0, <3>4 DEF CreatePairOf, GKECreatePair, Ups
    <3> QED BY <1>2, <3>1, <3>2, <3>3, <3>4
  <2>2. DOMAIN g # {} /\ DOMAIN g \cap NamedByCode(p) = {}
    <3> USE DEF CreatePairOf, NamedByCode
    <3>1. CASE p = "aws"
      <4>1. DOMAIN g = Nodes
        BY <1>0, <3>1 DEF AWSCreatePair
      <4> QED BY <3>1, <4>1 DEF Nodes
    <3>2. CASE p = "gcp"
      <4>1. DOMAIN g = Nodes \cup (IF WantRouter THEN {"firewall"} ELSE {})
        BY <1>0, <3>2 DEF GCPCreatePair
      <4> QED BY <3>2, <4>1 DEF Nodes
    <3>3. CASE p \in {"eks", "gke"}
      <4>1. DOMAIN g = {"pool"}
        BY <1>0, <3>3 DEF EKSCreatePair, GKECreatePair
      <4> QED BY <3>3, <4>1
    <3> QED BY <1>2, <3>1, <3>2, <3>3
  <2> QED BY <2>1, <2>2 DEF Tells
<1> QED BY <1>1, <1>2 DEF AllProviders

-----------------------------------------------------------------------------
\* The parts of TypeOK: what is in the backend and the cloud, and the rest.

InfraIsTyped ==
    /\ provider \in Providers
    /\ known \subseteq Stacks /\ locked \subseteq known
    /\ \A s \in Stacks \ known : state[s] = {}
    /\ \A s \in Stacks : state[s] \subseteq DOMAIN Program(s)
    /\ \A o \in cloud : o[2] \in state[o[1]]
    /\ \A o \in Existing : o[1] \in Stacks /\ o[2] \in DOMAIN Program(o[1])
    /\ Existing \subseteq Stacks \X Resources

\* The invariant falls into parts, before a step and after it.
LEMMA TypeParts ==
    ASSUME StackInvariant
    PROVE  /\ InfraIsTyped /\ key \in {"none", "torn", "whole"}
           /\ ret \in {"ok", "error"} /\ faults \in 0..MaxFaults[provider]
           /\ CallIsShaped /\ CallsAreOrdered
           /\ session \in SessionShapes /\ call \in CallShapes
           /\ state \in [Stacks -> SUBSET Resources]
BY DEF StackInvariant, TypeOK, CloudIsShaped, InfraIsTyped, CallIsShaped

\* The parts make up the invariant.
LEMMA PartsAreEnough ==
    ASSUME InfraIsTyped', key' \in {"none", "torn", "whole"},
           ret' \in {"ok", "error"}, Fault \/ UNCHANGED faults,
           provider' = provider, StackInvariant,
           named' \subseteq Stacks,
           CallIsShaped', CallsAreOrdered'
    PROVE  StackInvariant'
<1>1. faults' \in 0..MaxFaults[provider]'
  BY ProvidersAssumption, FaultsAssumption DEF Fault, StackInvariant, TypeOK
<1> QED BY <1>1 DEF StackInvariant, TypeOK, CloudIsShaped, InfraIsTyped,
                    CallIsShaped, CallShapes, SessionShapes

\* The provider is one of the modelled ones, and has a bound on its faults.
LEMMA ProviderIsModelled ==
    ASSUME StackInvariant
    PROVE  provider \in AllProviders /\ MaxFaults[provider] \in Nat
BY ProvidersAssumption, FaultsAssumption DEF StackInvariant, TypeOK

\* No call in progress has a well-formed record.
LEMMA NoCallIsShaped ==
    /\ NoCall \in CallShapes
    /\ NoCall.op = "none" /\ NoCall.on = Network /\ NoCall.calls = <<>>
    /\ NoCall.busy = FALSE
BY DEF NoCall, CallShapes, Stacks

\* Without a command the session has a well-formed record.
LEMMA NoSessionIsShaped ==
    NoSession \in SessionShapes
BY DEF NoSession, SessionShapes, Positions

\* The call that returns is the first of those that are left.
LEMMA HeadIsFirst ==
    ASSUME CallIsShaped, NEW names, Step(names)
    PROVE  /\ 1 \in 1..Len(call.calls) /\ call.calls[1] \in names
           /\ call.calls[1] = Head(call.calls)
           /\ call.calls \in Seq(CreateCalls \cup DestroyCalls)
           /\ Len(call.calls) \in Nat
           /\ call.op \in {"create", "destroy"} /\ On \in Stacks
BY DEF Step, CallIsShaped, CallShapes, On

\* After a call has returned, the others are left.
LEMMA AdvanceLeavesTheRest ==
    ASSUME CallIsShaped, call.op # "none", call.calls # <<>>, Advance
    PROVE  /\ call' \in CallShapes
           /\ call'.op = call.op /\ call'.on = call.on /\ call'.busy = FALSE
           /\ Len(call.calls) \in Nat
           /\ Len(call.calls') = Len(call.calls) - 1
           /\ \A i \in 1..Len(call.calls') :
                /\ i + 1 \in 1..Len(call.calls)
                /\ call.calls'[i] = call.calls[i + 1]
<1> DEFINE c == call.calls
<1>1. c \in Seq(CreateCalls \cup DestroyCalls)
  BY DEF CallIsShaped, CallShapes
<1>2. /\ Tail(c) \in Seq(CreateCalls \cup DestroyCalls)
      /\ Len(c) \in Nat /\ Len(Tail(c)) = Len(c) - 1
      /\ \A i \in 1..Len(Tail(c)) : i + 1 \in 1..Len(c) /\ Tail(c)[i] = c[i + 1]
  BY <1>1
<1> HIDE DEF c
<1>3. call' = [call EXCEPT !.calls = Tail(c), !.busy = FALSE, !.failed = {}]
  BY DEF Advance, c
<1>4. call.calls' = Tail(c) /\ call'.op = call.op /\ call'.on = call.on
      /\ call'.busy = FALSE
  BY <1>3 DEF CallIsShaped, CallShapes
<1>5. call' \in CallShapes
  BY <1>2, <1>3 DEF CallIsShaped, CallShapes
<1> QED BY <1>2, <1>4, <1>5 DEF c

\* What is left after a call was left before it.
LEMMA AdvanceLeavesLess ==
    ASSUME CallIsShaped, call.op # "none", call.calls # <<>>, Advance,
           NEW names, Left(names)'
    PROVE  Left(names)
BY AdvanceLeavesTheRest DEF Left

\* Unless it is the call that returned.
LEMMA AdvanceLeavesOthers ==
    ASSUME CallIsShaped, call.op # "none", call.calls # <<>>, Advance,
           NEW names, Left(names), call.calls[1] \notin names
    PROVE  Left(names)'
<1>1. PICK i \in 1..Len(call.calls) : call.calls[i] \in names
  BY DEF Left
<1>2. /\ Len(call.calls) \in Nat /\ Len(call.calls') = Len(call.calls) - 1
      /\ \A j \in 1..Len(call.calls') : call.calls'[j] = call.calls[j + 1]
  BY AdvanceLeavesTheRest
<1>3. i # 1
  BY <1>1
<1>4. i - 1 \in 1..Len(call.calls') /\ (i - 1) + 1 = i
  BY <1>1, <1>2, <1>3
<1> QED BY <1>1, <1>2, <1>4 DEF Left

\* A call that returns keeps the record of its method well-formed.
LEMMA AdvanceKeepsShape ==
    ASSUME CallIsShaped, call.op # "none", call.calls # <<>>, Advance,
           state' \in [Stacks -> SUBSET Resources],
           session' \in SessionShapes
    PROVE  CallIsShaped'
<1>1. /\ call' \in CallShapes
      /\ call'.op = call.op
  BY AdvanceLeavesTheRest
<1>2. call'.op = "create" => ~Left(DestroyCalls)'
  BY <1>1, AdvanceLeavesLess DEF CallIsShaped
<1>3. call'.op = "destroy" => ~Left(CreateCalls)'
  BY <1>1, AdvanceLeavesLess DEF CallIsShaped
<1> QED BY <1>1, <1>2, <1>3 DEF CallIsShaped

\* A method that ends leaves nothing to order.
LEMMA ReturnKeepsShape ==
    ASSUME call' = NoCall,
           state' \in [Stacks -> SUBSET Resources],
           session' \in SessionShapes
    PROVE  CallIsShaped' /\ CallsAreOrdered'
<1>1. call'.op = "none" /\ call'.calls = <<>>
  BY NoCallIsShaped
<1>2. Len(call'.calls) = 0
  BY <1>1
<1> QED BY <1>1, <1>2, NoCallIsShaped DEF CallIsShaped, CallsAreOrdered

\* The order of the calls that are left, after a call that may have changed what
\* is known, locked or in the checkpoint.
LEMMA AdvanceKeepsOrder ==
    ASSUME StackInvariant, call.op # "none", call.calls # <<>>, Advance,
           call.calls[1] \in Selects => On \in known',
           On \in known /\ Len(call.calls) > 1 => On \in known',
           (/\ call.op = "destroy"
            /\ \/ call.calls[1] \in Destroys
               \/ state[On] = {} /\ On \notin locked)
             => (state'[On] = {} /\ On \notin locked')
    PROVE  CallsAreOrdered'
<1>0. CallIsShaped /\ CallsAreOrdered
  BY DEF StackInvariant
<1>1. /\ call'.op = call.op /\ call'.on = call.on /\ Len(call.calls) \in Nat
      /\ Len(call.calls') = Len(call.calls) - 1
      /\ \A i \in 1..Len(call.calls') :
           /\ i + 1 \in 1..Len(call.calls)
           /\ call.calls'[i] = call.calls[i + 1]
  BY <1>0, AdvanceLeavesTheRest
<1>2. On' = On
  BY <1>1 DEF On
<1>3. ASSUME NEW i \in 1..Len(call.calls'), call.calls'[i] \in Updates
      PROVE  On' \in known'
               \/ \E j \in 1..(i - 1) : call.calls'[j] \in Selects
  <2>1. /\ i + 1 \in 1..Len(call.calls) /\ call.calls[i + 1] \in Updates
        /\ Len(call.calls) > 1
    BY <1>1, <1>3
  <2>2. CASE On \in known
    BY <1>2, <2>1, <2>2
  <2>3. CASE On \notin known
    <3>1. PICK j \in 1..((i + 1) - 1) : call.calls[j] \in Selects
      BY <1>0, <2>1, <2>3 DEF CallsAreOrdered
    <3>2. CASE j = 1
      BY <1>2, <3>1, <3>2
    <3>3. CASE j # 1
      <4>1. /\ j - 1 \in 1..(i - 1) /\ j - 1 \in 1..Len(call.calls')
            /\ (j - 1) + 1 = j
        BY <1>1, <1>3, <3>1, <3>3
      <4> QED BY <1>1, <3>1, <4>1
    <3> QED BY <3>2, <3>3
  <2> QED BY <2>2, <2>3
<1>4. ASSUME NEW i \in 1..Len(call.calls'), call.calls'[i] = "remove"
      PROVE  i = Len(call.calls')
  BY <1>0, <1>1, <1>4 DEF CallsAreOrdered
<1>5. ASSUME call'.op = "destroy"
      PROVE  Left(Destroys)' \/ (state'[On'] = {} /\ On' \notin locked')
  <2>1. CASE call.calls[1] \in Destroys
    BY <1>1, <1>2, <1>5, <2>1
  <2>2. CASE call.calls[1] \notin Destroys
    <3>1. CASE Left(Destroys)
      BY <1>0, <2>2, <3>1, AdvanceLeavesOthers
    <3>2. CASE ~Left(Destroys)
      BY <1>0, <1>1, <1>2, <1>5, <2>2, <3>2 DEF CallsAreOrdered
    <3> QED BY <3>1, <3>2
  <2> QED BY <2>1, <2>2
<1> QED BY <1>3, <1>4, <1>5 DEF CallsAreOrdered

-----------------------------------------------------------------------------
\* The invariant of every provider, step by step.

\* The steps between two calls change only the session, the key file, and the
\* locks and deletions that end.
LEMMA SessionStepKeeps ==
    ASSUME StackInvariant, named' \subseteq Stacks,
           \/ Start \/ RecoverLocks \/ UseOwnNetwork \/ SetupReturns \/ Exit
           \/ Deletions
    PROVE  StackInvariant'
<1>0. /\ InfraIsTyped /\ CallIsShaped /\ CallsAreOrdered
      /\ key \in {"none", "torn", "whole"} /\ ret \in {"ok", "error"}
      /\ session \in SessionShapes
  BY TypeParts
<1>1. UNCHANGED <<provider, known, state, call, ret, cloud, orphans>>
  BY DEF Start, StartRun, StartCleanup, RecoverLocks, UseOwnNetwork,
         SetupReturns, Exit, Deletions, Vanish, infra
<1>2. locked' \subseteq locked /\ vanishing' \subseteq vanishing
  BY DEF Start, StartRun, StartCleanup, RecoverLocks, RemovePulumiLocks,
         UseOwnNetwork, SetupReturns, Exit, Deletions, Vanish, infra
<1>3. key' \in {"none", "torn", "whole"}
  BY <1>0 DEF Start, StartRun, StartCleanup, RecoverLocks, UseOwnNetwork,
         SetupReturns, Exit, Deletions, Vanish
<1>4. Fault \/ UNCHANGED faults
  BY DEF Start, StartRun, StartCleanup, RecoverLocks, RemovePulumiLocks,
         UseOwnNetwork, SetupReturns, Exit, Deletions, Vanish
<1>5. session' \in SessionShapes
  <2> USE DEF SessionShapes, Positions
  <2>1. CASE StartRun
    BY <2>1 DEF StartRun, NoSession
  <2>2. ASSUME NEW recover \in BOOLEAN, StartCleanup(recover)
        PROVE  session' \in SessionShapes
    <3>1. locked \subseteq Stacks
      BY <1>0 DEF InfraIsTyped
    <3> QED BY <2>2, <3>1 DEF StartCleanup, FindPulumiLocks, NoSession
  <2>3. CASE RecoverLocks
    BY <1>0, <2>3 DEF RecoverLocks
  <2>4. CASE UseOwnNetwork
    BY <1>0, <2>4 DEF UseOwnNetwork
  <2>5. CASE SetupReturns
    BY <1>0, <2>5 DEF SetupReturns
  <2>6. CASE Exit
    BY <2>6, NoSessionIsShaped DEF Exit
  <2>7. CASE Deletions
    BY <1>0, <2>7 DEF Deletions, Vanish
  <2> QED BY <2>1, <2>2, <2>3, <2>4, <2>5, <2>6, <2>7 DEF Start
<1>6. InfraIsTyped'
  BY <1>0, <1>1, <1>2 DEF InfraIsTyped, Existing, Program
<1>7. CallIsShaped'
  BY <1>0, <1>1, <1>5 DEF CallIsShaped, Left
<1>8. CallsAreOrdered'
  BY <1>0, <1>1, <1>2 DEF CallsAreOrdered, Left, On
<1> QED BY <1>0, <1>1, <1>3, <1>4, <1>6, <1>7, <1>8, PartsAreEnough

\* A method begins with all of its calls to make.
LEMMA BeginKeeps ==
    ASSUME StackInvariant, named' \subseteq Stacks,
           NEW op \in {"create", "destroy"}, NEW s \in Stacks,
           NEW calls, Calls(op, s, calls), session' \in SessionShapes,
           op = "create" => Creates(calls),
           op = "destroy" => DestroysStack(calls)
    PROVE  StackInvariant'
<1>0. /\ InfraIsTyped /\ CallIsShaped
      /\ key \in {"none", "torn", "whole"} /\ ret \in {"ok", "error"}
  BY TypeParts
<1>1. /\ UNCHANGED <<provider, known, state, locked, cloud, orphans, vanishing,
                     key, ret, faults>>
      /\ call' = [NoCall EXCEPT !.op = op, !.on = s, !.calls = calls]
  BY DEF Calls, infra
<1>2. /\ calls \in Seq(CreateCalls \cup DestroyCalls) /\ Prepared(calls)
      /\ op = "create" => calls \in Seq(CreateCalls)
      /\ op = "destroy" => calls \in Seq(DestroyCalls)
  <2>1. /\ op = "create" => calls \in Seq(CreateCalls) /\ Prepared(calls)
        /\ op = "destroy" => calls \in Seq(DestroyCalls) /\ Prepared(calls)
    BY DEF Creates, DestroysStack
  <2> QED BY <2>1
<1>3. /\ call' \in CallShapes
      /\ call'.op = op /\ call'.on = s /\ call'.calls = calls
  BY <1>1, <1>2 DEF NoCall, CallShapes
<1>4. op = "create" => ~Left(DestroyCalls)'
  <2>1. CreateCalls \cap DestroyCalls = {}
    BY DEF CreateCalls, DestroyCalls, Ups, Destroys
  <2> QED BY <1>2, <1>3, <2>1 DEF Left
<1>5. op = "destroy" => ~Left(CreateCalls)'
  <2>1. CreateCalls \cap DestroyCalls = {}
    BY DEF CreateCalls, DestroyCalls, Ups, Destroys
  <2> QED BY <1>2, <1>3, <2>1 DEF Left
<1>6. CallIsShaped'
  BY <1>0, <1>1, <1>3, <1>4, <1>5 DEF CallIsShaped
<1>7. CallsAreOrdered'
  <2>1. \A i \in 1..Len(calls) : calls[i] = "remove" => i = Len(calls)
    <3>1. CASE op = "create"
      BY <1>2, <3>1 DEF CreateCalls, Ups
    <3>2. CASE op = "destroy"
      BY <3>2 DEF DestroysStack
    <3> QED BY <3>1, <3>2
  <2>2. op = "destroy" => \E i \in 1..Len(calls) : calls[i] \in Destroys
    BY DEF DestroysStack
  <2> QED BY <1>2, <1>3, <2>1, <2>2 DEF CallsAreOrdered, Left, Prepared
<1>8. InfraIsTyped'
  BY <1>0, <1>1 DEF InfraIsTyped, Existing, Program
<1> QED BY <1>0, <1>1, <1>6, <1>7, <1>8, PartsAreEnough

\* The calls of a run and of a cleanup.
LEMMA DriverCallKeeps ==
    ASSUME StackInvariant, named' \subseteq Stacks,
           \/ SetupNetworking \/ TeardownNetworking
           \/ \E t \in Types : DestroyPair(t) \/ CreatePair(t)
    PROVE  StackInvariant'
<1>0. provider \in AllProviders /\ session \in SessionShapes
  BY ProviderIsModelled, TypeParts
<1>1. Network \in Stacks /\ Types \subseteq Stacks
  BY DEF Stacks
<1>2. CASE SetupNetworking
  <2>1. session' \in SessionShapes
    BY <1>0, <1>2 DEF SetupNetworking, SessionShapes, Positions
  <2> QED BY <1>0, <1>1, <1>2, <2>1, SetupCreates, BeginKeeps
          DEF SetupNetworking
<1>3. CASE TeardownNetworking
  <2>1. session' \in SessionShapes
    BY <1>0, <1>3 DEF TeardownNetworking, SessionShapes, Positions
  <2> QED BY <1>0, <1>1, <1>3, <2>1, TeardownDestroys, BeginKeeps
          DEF TeardownNetworking
<1>4. ASSUME NEW t \in Types, DestroyPair(t) PROVE StackInvariant'
  <2>1. session' \in SessionShapes
    BY <1>0, <1>4 DEF DestroyPair, SessionShapes, Positions
  <2> QED BY <1>0, <1>1, <1>4, <2>1, PairDestroys, BeginKeeps
          DEF DestroyPair
<1>5. ASSUME NEW t \in Types, CreatePair(t) PROVE StackInvariant'
  <2>1. session' \in SessionShapes
    BY <1>0, <1>5 DEF CreatePair, SessionShapes, Positions
  <2> QED BY <1>0, <1>1, <1>5, <2>1, PairCreates, BeginKeeps
          DEF CreatePair
<1> QED BY <1>2, <1>3, <1>4, <1>5

\* A method returns and nothing else changes than the key file.
LEMMA ReturnKeeps ==
    ASSUME StackInvariant, named' \subseteq Stacks,
           NEW result \in {"ok", "error"}, Return(result),
           UNCHANGED <<provider, session, known, state>>,
           locked' \subseteq locked, cloud' \subseteq cloud,
           orphans' \subseteq orphans,
           vanishing' \subseteq vanishing \cup cloud \cup orphans,
           key' \in {"none", "torn", "whole"}, Fault \/ UNCHANGED faults
    PROVE  StackInvariant'
<1>0. /\ InfraIsTyped /\ session \in SessionShapes
      /\ state \in [Stacks -> SUBSET Resources]
  BY TypeParts
<1>1. call' = NoCall /\ ret' \in {"ok", "error"}
  BY DEF Return
<1>2. CallIsShaped' /\ CallsAreOrdered'
  BY <1>0, <1>1, ReturnKeepsShape
<1>3. InfraIsTyped'
  BY <1>0 DEF InfraIsTyped, Existing, Program
<1> QED BY <1>1, <1>2, <1>3, PartsAreEnough

\* A call returns that leaves the backend and the cloud alone.
LEMMA PlainAdvanceKeeps ==
    ASSUME StackInvariant, named' \subseteq Stacks,
           call.op # "none", call.calls # <<>>, Advance,
           call.calls[1] \notin Destroys,
           call.calls[1] \in Selects => On \in known,
           session' \in SessionShapes, UNCHANGED <<provider, infra>>,
           key' \in {"none", "torn", "whole"}, Fault \/ UNCHANGED faults
    PROVE  StackInvariant'
<1>0. /\ InfraIsTyped /\ CallIsShaped /\ ret \in {"ok", "error"}
      /\ state \in [Stacks -> SUBSET Resources]
  BY TypeParts
<1>1. UNCHANGED <<known, state, locked, cloud, orphans, vanishing, ret>>
  BY DEF infra, Advance
<1>2. CallIsShaped'
  BY <1>0, <1>1, AdvanceKeepsShape
<1>3. CallsAreOrdered'
  BY <1>1, AdvanceKeepsOrder
<1>4. InfraIsTyped'
  BY <1>0, <1>1 DEF InfraIsTyped, Existing, Program
<1> QED BY <1>0, <1>1, <1>2, <1>3, <1>4, PartsAreEnough

\* The calls of a method that are no updates.
LEMMA CallKeeps ==
    ASSUME StackInvariant, named' \subseteq Stacks,
           \/ ReturnNil \/ CallFails \/ PlainCall \/ ClusterCredentials
           \/ KubernetesCall \/ EnsureSSHKey \/ SelectStack \/ Fallback
           \/ UpdateRefused
    PROVE  StackInvariant'
<1>0. /\ CallIsShaped /\ session \in SessionShapes
      /\ key \in {"none", "torn", "whole"}
  BY TypeParts
<1>1. ASSUME NEW names, Step(names), names \cap (Destroys \cup Selects) = {}
      PROVE  /\ call.op # "none" /\ call.calls # <<>>
             /\ call.calls[1] \notin Destroys /\ call.calls[1] \notin Selects
  BY <1>0, <1>1, HeadIsFirst DEF Step
<1>2. CASE ReturnNil
  BY <1>0, <1>2, ReturnKeeps DEF ReturnNil, infra
<1>3. CASE CallFails
  BY <1>0, <1>3, ReturnKeeps DEF CallFails, infra
<1>4. CASE PlainCall
  <2>1. {"config", "delete-pods"} \cap (Destroys \cup Selects) = {}
    BY DEF Destroys, Selects
  <2> QED BY <1>0, <1>1, <1>4, <2>1, PlainAdvanceKeeps DEF PlainCall
<1>5. CASE ClusterCredentials
  <2>1. {"credentials"} \cap (Destroys \cup Selects) = {}
    BY DEF Destroys, Selects
  <2>2. CASE Advance /\ session' = [session EXCEPT !.cluster = TRUE]
    <3>1. session' \in SessionShapes
      BY <1>0, <2>2 DEF SessionShapes
    <3> QED BY <1>0, <1>1, <1>5, <2>1, <2>2, <3>1, PlainAdvanceKeeps
            DEF ClusterCredentials
  <2>3. CASE Return("error") /\ UNCHANGED session
    BY <1>0, <1>5, <2>3, ReturnKeeps DEF ClusterCredentials, infra
  <2> QED BY <1>5, <2>2, <2>3 DEF ClusterCredentials
<1>6. CASE KubernetesCall
  <2> DEFINE names == {"namespace", "nodes", "secret", "server-pod",
                       "client-pod", "pod-ip"}
  <2>1. names \cap (Destroys \cup Selects) = {} /\ Step(names)
    BY <1>6 DEF Destroys, Selects, KubernetesCall
  <2> HIDE DEF names
  <2>2. CASE Advance
    BY <1>0, <1>1, <1>6, <2>1, <2>2, PlainAdvanceKeeps DEF KubernetesCall
  <2>3. CASE Return("error")
    BY <1>0, <1>6, <2>3, ReturnKeeps DEF KubernetesCall, infra
  <2> QED BY <1>6, <2>2, <2>3 DEF KubernetesCall
<1>7. CASE EnsureSSHKey
  <2>1. {"ssh-key"} \cap (Destroys \cup Selects) = {}
    BY DEF Destroys, Selects
  <2>2. /\ UNCHANGED <<provider, infra, session>> /\ Step({"ssh-key"})
        /\ key' \in {"none", "torn", "whole"} /\ (Fault \/ UNCHANGED faults)
    BY <1>0, <1>7 DEF EnsureSSHKey
  <2>3. CASE Advance
    BY <1>0, <1>1, <2>1, <2>2, <2>3, PlainAdvanceKeeps
  <2>4. CASE Return("error")
    BY <1>0, <2>2, <2>4, ReturnKeeps DEF infra
  <2> QED BY <1>7, <2>3, <2>4 DEF EnsureSSHKey
<1>8. CASE SelectStack
  <2>1. CASE On \in known /\ Advance
    <3>1. /\ call.op # "none" /\ call.calls # <<>>
          /\ call.calls[1] \in {"select", "select-or-fallback"}
      BY <1>0, <1>8, HeadIsFirst DEF SelectStack, Step
    <3>2. call.calls[1] \notin Destroys
      BY <3>1 DEF Destroys
    <3> QED BY <1>0, <1>8, <2>1, <3>1, <3>2, PlainAdvanceKeeps DEF SelectStack
  <2>2. CASE Return("ok")
    BY <1>0, <1>8, <2>2, ReturnKeeps DEF SelectStack, infra
  <2> QED BY <1>8, <2>1, <2>2 DEF SelectStack
<1>9. CASE Fallback
  <2>1. FallbackPools \subseteq cloud \cup orphans
    BY DEF FallbackPools
  <2> QED BY <1>0, <1>9, <2>1, ReturnKeeps DEF Fallback
<1>10. CASE UpdateRefused
  BY <1>0, <1>10, ReturnKeeps DEF UpdateRefused, infra
<1> QED BY <1>2, <1>3, <1>4, <1>5, <1>6, <1>7, <1>8, <1>9, <1>10

\* The calls that change what the backend knows of the stack.
LEMMA BackendCallKeeps ==
    ASSUME StackInvariant, named' \subseteq Stacks,
           UpsertStack \/ CancelUpdate \/ RemoveStack
    PROVE  StackInvariant'
<1>0. /\ InfraIsTyped /\ CallIsShaped /\ CallsAreOrdered
      /\ session \in SessionShapes /\ ret \in {"ok", "error"}
      /\ key \in {"none", "torn", "whole"}
      /\ state \in [Stacks -> SUBSET Resources]
  BY TypeParts
<1>1. /\ call.op \in {"create", "destroy"} /\ call.op # "none"
      /\ call.calls # <<>> /\ Advance /\ On \in Stacks
      /\ 1 \in 1..Len(call.calls) /\ Len(call.calls) \in Nat
      /\ UNCHANGED <<provider, state, cloud, orphans, vanishing, key, session,
                     ret, faults>>
  <2>1. Step({"upsert"}) \/ Step({"cancel"}) \/ Step({"remove"})
    BY DEF UpsertStack, CancelUpdate, RemoveStack
  <2> QED BY <1>0, <2>1, HeadIsFirst
          DEF UpsertStack, CancelUpdate, RemoveStack, Advance, Step
<1>2. CallIsShaped'
  BY <1>0, <1>1, AdvanceKeepsShape
<1>3. CASE UpsertStack
  <2>1. call.calls[1] = "upsert"
    BY <1>0, <1>3, HeadIsFirst DEF UpsertStack
  <2>2. call.calls[1] \notin Destroys
    BY <2>1 DEF Destroys
  <2>3. known' = known \cup {On} /\ UNCHANGED locked
    BY <1>3 DEF UpsertStack
  <2>4. CallsAreOrdered'
    BY <1>1, <2>2, <2>3, AdvanceKeepsOrder
  <2>5. InfraIsTyped'
    BY <1>0, <1>1, <2>3 DEF InfraIsTyped, Existing, Program
  <2> QED BY <1>0, <1>1, <1>2, <2>4, <2>5, PartsAreEnough
<1>4. CASE CancelUpdate
  <2>1. call.calls[1] = "cancel"
    BY <1>0, <1>4, HeadIsFirst DEF CancelUpdate
  <2>2. call.calls[1] \notin Destroys /\ call.calls[1] \notin Selects
    BY <2>1 DEF Destroys, Selects
  <2>3. locked' = locked \ {On} /\ UNCHANGED known
    BY <1>4 DEF CancelUpdate
  <2>4. CallsAreOrdered'
    BY <1>1, <2>2, <2>3, AdvanceKeepsOrder
  <2>5. InfraIsTyped'
    BY <1>0, <1>1, <2>3 DEF InfraIsTyped, Existing, Program
  <2> QED BY <1>0, <1>1, <1>2, <2>4, <2>5, PartsAreEnough
<1>5. CASE RemoveStack
  <2>1. call.calls[1] = "remove" /\ state[On] = {}
    BY <1>0, <1>5, HeadIsFirst DEF RemoveStack
  <2>2. call.calls[1] \notin Destroys /\ call.calls[1] \notin Selects
    BY <2>1 DEF Destroys, Selects
  <2>3. known' = known \ {On} /\ UNCHANGED locked
    BY <1>5 DEF RemoveStack
  <2>4. Len(call.calls) = 1
    BY <1>0, <1>1, <2>1 DEF CallsAreOrdered
  <2>5. On \notin locked
    <3>1. call.op = "destroy"
      BY <1>0, <1>1, <2>1 DEF CallIsShaped, Left, DestroyCalls
    <3>2. ~Left(Destroys)
      BY <2>2, <2>4 DEF Left
    <3> QED BY <1>0, <3>1, <3>2 DEF CallsAreOrdered
  <2>6. CallsAreOrdered'
    BY <1>1, <2>1, <2>2, <2>3, <2>4, <2>5, AdvanceKeepsOrder
  <2>7. InfraIsTyped'
    <3>1. locked' \subseteq known'
      BY <1>0, <2>3, <2>5 DEF InfraIsTyped
    <3> QED BY <1>0, <1>1, <2>1, <2>3, <3>1 DEF InfraIsTyped, Existing, Program
  <2> QED BY <1>0, <1>1, <1>2, <2>6, <2>7, PartsAreEnough
<1> QED BY <1>3, <1>4, <1>5

\* An update runs on a stack that is known, for the method its kind belongs to.
LEMMA UpdateIsOnKnown ==
    ASSUME StackInvariant, Step(Updates)
    PROVE  /\ On \in known /\ On \in Stacks
           /\ call.calls[1] \in Ups => call.op = "create"
           /\ call.calls[1] \in Destroys => call.op = "destroy"
<1>0. CallIsShaped /\ CallsAreOrdered
  BY TypeParts
<1>1. /\ 1 \in 1..Len(call.calls) /\ call.calls[1] \in Updates
      /\ call.op \in {"create", "destroy"} /\ On \in Stacks
  BY <1>0, HeadIsFirst
<1>2. On \in known
  BY <1>0, <1>1 DEF CallsAreOrdered
<1>3. call.calls[1] \in Ups => call.op = "create"
  BY <1>0, <1>1 DEF CallIsShaped, Left, CreateCalls
<1>4. call.calls[1] \in Destroys => call.op = "destroy"
  BY <1>0, <1>1 DEF CallIsShaped, Left, DestroyCalls
<1> QED BY <1>1, <1>2, <1>3, <1>4

\* What is created or deleted is a resource of the stack's program, and belongs
\* to the update in progress.
LEMMA TurnsBelongToUpdates ==
    ASSUME StackInvariant
    PROVE  /\ \A r \in Creatable :
                /\ Updating(Ups) /\ r \in DOMAIN Program(On)
                /\ r \notin state[On] /\ r \in Resources
           /\ \A r \in Deletable :
                /\ Updating(Destroys) /\ r \in state[On] /\ r \in Resources
                /\ \A d \in state[On] : r \notin Program(On)[d]
<1>0. /\ provider \in AllProviders /\ state \in [Stacks -> SUBSET Resources]
      /\ call \in CallShapes
  BY TypeParts, ProviderIsModelled
<1>1. On \in Stacks
  BY <1>0 DEF CallShapes, On
<1>2. DOMAIN Program(On) \subseteq Resources /\ state[On] \subseteq Resources
  BY <1>0, <1>1, ProgramsAreOfResources DEF Program
<1> QED BY <1>2 DEF Creatable, Deletable, Updating, Step, Ups, Destroys

\* An update takes the lock of its stack, and a refresh only forgets.
LEMMA BeginUpdateKeeps ==
    ASSUME StackInvariant, named' \subseteq Stacks, BeginUpdate
    PROVE  StackInvariant'
<1>0. /\ InfraIsTyped /\ CallIsShaped /\ CallsAreOrdered
      /\ session \in SessionShapes /\ ret \in {"ok", "error"}
      /\ key \in {"none", "torn", "whole"} /\ call \in CallShapes
      /\ state \in [Stacks -> SUBSET Resources]
  BY TypeParts
<1>1. /\ On \in known /\ On \in Stacks
      /\ UNCHANGED <<provider, known, cloud, orphans, vanishing, key, session,
                     ret, faults>>
      /\ locked' = locked \cup {On} /\ call.calls[1] \in Updates
      /\ 1 \in 1..Len(call.calls)
  BY <1>0, UpdateIsOnKnown, HeadIsFirst DEF BeginUpdate
<1>2. /\ call' \in CallShapes /\ call'.op = call.op /\ call'.on = call.on
      /\ call'.calls = call.calls /\ call.op # "none"
  BY <1>0 DEF BeginUpdate, CallShapes, Step
<1>3. /\ state' \in [Stacks -> SUBSET Resources]
      /\ \A s \in Stacks : state'[s] \subseteq state[s]
      /\ \A s \in Stacks \ {On} : state'[s] = state[s]
      /\ \A r \in state[On] : <<On, r>> \in cloud => r \in state'[On]
  BY <1>0, <1>1 DEF BeginUpdate, Found
<1>4. InfraIsTyped'
  <2>1. \A o \in cloud : o[2] \in state'[o[1]]
    <3> SUFFICES ASSUME NEW o \in cloud PROVE o[2] \in state'[o[1]]
      OBVIOUS
    <3>1. o[1] \in Stacks /\ o[2] \in state[o[1]]
      BY <1>0 DEF InfraIsTyped, Existing
    <3>2. CASE o[1] # On
      BY <1>3, <3>1, <3>2
    <3>3. CASE o[1] = On
      <4>1. o = <<On, o[2]>>
        BY <1>0, <3>3 DEF InfraIsTyped, Existing
      <4> QED BY <1>3, <3>1, <3>3, <4>1
    <3> QED BY <3>2, <3>3
  <2> QED BY <1>0, <1>1, <1>3, <2>1 DEF InfraIsTyped, Existing, Program
<1>5. CallIsShaped'
  BY <1>0, <1>1, <1>2, <1>3 DEF CallIsShaped, Left
<1>6. CallsAreOrdered'
  <2>1. On' = On /\ (Left(Destroys)' <=> Left(Destroys))
    BY <1>2 DEF On, Left
  <2>2. call.op = "destroy" => Left(Destroys)
    <3>1. call.calls[1] \in Ups => call.op = "create"
      BY UpdateIsOnKnown DEF BeginUpdate
    <3>2. Updates = Ups \cup Destroys
      BY DEF Updates, Ups, Destroys
    <3> QED BY <1>1, <3>1, <3>2 DEF Left
  <2> QED BY <1>0, <1>1, <1>2, <2>1, <2>2 DEF CallsAreOrdered
<1> QED BY <1>0, <1>1, <1>4, <1>5, <1>6, PartsAreEnough

\* While its update runs, a stack's checkpoint may change: nothing but the
\* checkpoint of the stack is looked at by the order of the calls.
LEMMA UpdatingKeepsOrder ==
    ASSUME StackInvariant, Step(Updates), UNCHANGED <<known, locked, session>>,
           state' \in [Stacks -> SUBSET Resources], call' \in CallShapes,
           call'.op = call.op, call'.on = call.on, call'.calls = call.calls
    PROVE  CallIsShaped' /\ CallsAreOrdered'
<1>0. /\ CallIsShaped /\ CallsAreOrdered /\ session \in SessionShapes
  BY TypeParts
<1>1. /\ call.calls[1] \in Updates /\ 1 \in 1..Len(call.calls)
      /\ call.op # "none"
  BY <1>0, HeadIsFirst DEF Step
<1>2. CallIsShaped'
  BY <1>0, <1>1 DEF CallIsShaped, Left
<1>3. On' = On /\ (Left(Destroys)' <=> Left(Destroys))
  BY DEF On, Left
<1>4. call.op = "destroy" => Left(Destroys)
  <2>1. call.calls[1] \in Ups => call.op = "create"
    BY UpdateIsOnKnown
  <2>2. Updates = Ups \cup Destroys
    BY DEF Updates, Ups, Destroys
  <2> QED BY <1>1, <2>1, <2>2 DEF Left
<1> QED BY <1>0, <1>2, <1>3, <1>4 DEF CallsAreOrdered

\* One resource is created, deleted or refused.
LEMMA ResourceStepKeeps ==
    ASSUME StackInvariant, named' \subseteq Stacks,
           CreateResource \/ DeleteResource \/ ResourceFails
    PROVE  StackInvariant'
<1>0. /\ InfraIsTyped /\ CallIsShaped
      /\ session \in SessionShapes /\ ret \in {"ok", "error"}
      /\ key \in {"none", "torn", "whole"} /\ call \in CallShapes
      /\ state \in [Stacks -> SUBSET Resources]
  BY TypeParts
<1>1. Ups \subseteq Updates /\ Destroys \subseteq Updates
  BY DEF Ups, Destroys, Updates
<1>2. \A r \in Creatable \cup Deletable : Step(Updates) /\ r \in Resources
  BY <1>1, TurnsBelongToUpdates DEF Updating, Step
<1>3. CASE CreateResource
  <2>1. PICK r \in Creatable :
          /\ cloud' = cloud \cup {<<On, r>>}
          /\ state' = [state EXCEPT ![On] = @ \cup {r}]
          /\ UNCHANGED <<provider, known, locked, orphans, vanishing, key,
                         session, call, ret, faults>>
    BY <1>3 DEF CreateResource
  <2>2. /\ Step(Updates) /\ On \in known /\ On \in Stacks
        /\ r \in DOMAIN Program(On) /\ r \in Resources
    BY <1>2, <2>1, TurnsBelongToUpdates, UpdateIsOnKnown
  <2>3. state' \in [Stacks -> SUBSET Resources]
    BY <1>0, <2>1, <2>2
  <2>4. CallIsShaped' /\ CallsAreOrdered'
    BY <1>0, <2>1, <2>2, <2>3, UpdatingKeepsOrder
  <2>5. InfraIsTyped'
    BY <1>0, <2>1, <2>2 DEF InfraIsTyped, Existing, Program
  <2> QED BY <1>0, <2>1, <2>4, <2>5, PartsAreEnough
<1>4. CASE DeleteResource
  <2>1. PICK r \in Deletable :
          /\ cloud' = (cloud \ {<<On, r>>}) \ PoolsOf(<<On, r>>)
          /\ orphans' = orphans \ PoolsOf(<<On, r>>)
          /\ vanishing' = vanishing \ PoolsOf(<<On, r>>)
          /\ state' = [state EXCEPT ![On] = @ \ {r}]
          /\ UNCHANGED <<provider, known, locked, key, session, call, ret,
                         faults>>
    BY <1>4 DEF DeleteResource
  <2>2. /\ Step(Updates) /\ On \in known /\ On \in Stacks
    BY <1>2, <2>1, UpdateIsOnKnown
  <2>3. state' \in [Stacks -> SUBSET Resources]
    BY <1>0, <2>1, <2>2
  <2>4. CallIsShaped' /\ CallsAreOrdered'
    BY <1>0, <2>1, <2>2, <2>3, UpdatingKeepsOrder
  <2>5. \A o \in cloud' : o[2] \in state'[o[1]]
    <3> SUFFICES ASSUME NEW o \in cloud' PROVE o[2] \in state'[o[1]]
      OBVIOUS
    <3>1. o[1] \in Stacks /\ o[2] \in state[o[1]] /\ o # <<On, r>>
      BY <1>0, <2>1 DEF InfraIsTyped, Existing
    <3>2. o = <<o[1], o[2]>>
      BY <1>0, <2>1 DEF InfraIsTyped, Existing
    <3> QED BY <1>0, <2>1, <2>2, <3>1, <3>2
  <2>6. InfraIsTyped'
    BY <1>0, <2>1, <2>2, <2>5 DEF InfraIsTyped, Existing, Program
  <2> QED BY <1>0, <2>1, <2>4, <2>6, PartsAreEnough
<1>5. CASE ResourceFails
  <2>1. PICK r \in Creatable \cup Deletable :
          /\ call' = [call EXCEPT !.failed = @ \cup {r}]
          /\ UNCHANGED <<provider, infra, key, session, ret>>
          /\ Fault \/ UNCHANGED faults
    BY <1>5 DEF ResourceFails
  <2>2. /\ call' \in CallShapes /\ call'.op = call.op /\ call'.on = call.on
        /\ call'.calls = call.calls
    BY <1>0, <1>2, <2>1 DEF CallShapes
  <2>3. CallIsShaped' /\ CallsAreOrdered'
    BY <1>0, <1>2, <2>1, <2>2, UpdatingKeepsOrder DEF infra
  <2>4. InfraIsTyped'
    BY <1>0, <2>1 DEF InfraIsTyped, Existing, Program, infra
  <2> QED BY <1>0, <2>1, <2>3, <2>4, PartsAreEnough DEF infra
<1> QED BY <1>3, <1>4, <1>5

\* An update ends, done or with an error, and frees the lock.
LEMMA EndUpdateKeeps ==
    ASSUME StackInvariant, named' \subseteq Stacks, EndUpdate
    PROVE  StackInvariant'
<1>0. /\ InfraIsTyped /\ CallIsShaped
      /\ session \in SessionShapes /\ ret \in {"ok", "error"}
      /\ key \in {"none", "torn", "whole"}
      /\ state \in [Stacks -> SUBSET Resources]
  BY TypeParts
<1>1. /\ Step(Updates) /\ locked' = locked \ {On}
      /\ UNCHANGED <<provider, known, state, cloud, orphans, vanishing, key,
                     session, faults>>
  BY DEF EndUpdate, Updating
<1>2. CASE UpdateDone /\ Advance
  <2>1. /\ call.op # "none" /\ call.calls # <<>> /\ call.calls[1] \in Updates
        /\ call.calls[1] = Head(call.calls)
    BY <1>0, <1>1, HeadIsFirst DEF Step
  <2>2. call.calls[1] \notin Selects
    BY <2>1 DEF Updates, Selects
  <2>3. call.calls[1] \in Destroys => state[On] = {}
    BY <1>2, <2>1 DEF UpdateDone, Updating, Step, Destroys
  <2>4. CallsAreOrdered'
    BY <1>1, <1>2, <2>1, <2>2, <2>3, AdvanceKeepsOrder
  <2>5. CallIsShaped' /\ ret' = ret
    BY <1>0, <1>1, <1>2, <2>1, AdvanceKeepsShape DEF Advance
  <2>6. InfraIsTyped'
    BY <1>0, <1>1 DEF InfraIsTyped, Existing, Program
  <2> QED BY <1>0, <1>1, <2>4, <2>5, <2>6, PartsAreEnough
<1>3. CASE Return("error")
  BY <1>0, <1>1, <1>3, ReturnKeeps
<1> QED BY <1>2, <1>3 DEF EndUpdate

\* What a dying process leaves in the cloud.
LEMMA CrashEffects ==
    ASSUME StackInvariant, Crash
    PROVE  /\ cloud' \subseteq cloud /\ vanishing' = vanishing
           /\ \/ orphans' \subseteq orphans
              \/ \E r \in Creatable : orphans' = orphans \cup {<<On, r>>}
           /\ UNCHANGED <<provider, known, state, locked>>
           /\ call' = NoCall /\ session' = NoSession
           /\ ret' = (IF call.op = "none" THEN ret ELSE "error")
           /\ key' \in {key, "torn"} /\ Fault
BY DEF Crash

\* A process may die anywhere.
LEMMA CrashKeeps ==
    ASSUME StackInvariant, named' \subseteq Stacks, Crash
    PROVE  StackInvariant'
<1>0. /\ InfraIsTyped /\ ret \in {"ok", "error"}
      /\ key \in {"none", "torn", "whole"} /\ call \in CallShapes
      /\ state \in [Stacks -> SUBSET Resources]
  BY TypeParts
<1>1. /\ cloud' \subseteq cloud /\ vanishing' = vanishing
      /\ UNCHANGED <<provider, known, state, locked>>
      /\ call' = NoCall /\ session' = NoSession
      /\ ret' \in {"ok", "error"} /\ key' \in {"none", "torn", "whole"}
      /\ Fault
  BY <1>0, CrashEffects
<1>2. CallIsShaped' /\ CallsAreOrdered'
  BY <1>0, <1>1, NoSessionIsShaped, ReturnKeepsShape
<1>3. \A o \in orphans' \ orphans :
        /\ o \in Stacks \X Resources
        /\ o[1] \in Stacks /\ o[2] \in DOMAIN Program(o[1])
  <2>1. On \in Stacks
    BY <1>0 DEF CallShapes, On
  <2> QED BY <2>1, CrashEffects, TurnsBelongToUpdates
<1>4. InfraIsTyped'
  <2>1. \A o \in Existing' : o \in Existing \/ o \in orphans' \ orphans
    BY <1>1 DEF Existing
  <2>2. \A s : Program(s)' = Program(s)
    BY <1>1 DEF Program
  <2> QED BY <1>0, <1>1, <1>3, <2>1, <2>2 DEF InfraIsTyped
<1> QED BY <1>1, <1>2, <1>4, PartsAreEnough

\* Before the first command nothing exists.
LEMMA InitIsSound == Init => StackInvariant
<1> SUFFICES ASSUME Init PROVE StackInvariant
  OBVIOUS
<1>1. /\ provider \in Providers /\ named = {} /\ known = {} /\ locked = {}
      /\ cloud = {}
      /\ orphans = {} /\ vanishing = {} /\ key = "none" /\ ret = "ok"
      /\ faults = 0 /\ session = NoSession /\ call = NoCall
      /\ state = [s \in Stacks |-> {}]
  BY DEF Init
<1>2. TypeOK
  <2>1. faults \in 0..MaxFaults[provider]
    BY <1>1, ProvidersAssumption, FaultsAssumption
  <2>2. Existing = {}
    BY <1>1 DEF Existing
  <2> QED BY <1>1, <2>1, <2>2, NoCallIsShaped, NoSessionIsShaped
          DEF TypeOK, CallShapes, SessionShapes
<1>3. CallIsShaped
  <2>1. state \in [Stacks -> SUBSET Resources]
    BY <1>1
  <2> QED BY <1>1, <2>1, NoCallIsShaped, NoSessionIsShaped DEF CallIsShaped
<1>4. CallsAreOrdered
  <2>1. Len(call.calls) = 0 /\ call.op = "none"
    BY <1>1, NoCallIsShaped
  <2> QED BY <2>1 DEF CallsAreOrdered
<1>5. CloudIsShaped
  BY <1>1 DEF CloudIsShaped, Existing
<1> QED BY <1>2, <1>3, <1>4, <1>5 DEF StackInvariant

\* The manifest gets the name of a stack from a creation, and of nothing else.
LEMMA NamesAreOfStacks ==
    ASSUME StackInvariant, Next
    PROVE  named' \subseteq Stacks
<1>1. named \subseteq Stacks /\ call.on \in Stacks
  BY DEF StackInvariant, TypeOK
<1>2. CASE ReturnNil
  BY <1>1, <1>2 DEF ReturnNil, On
<1>3. CASE SetupNetworking
  BY <1>1, <1>3 DEF SetupNetworking
<1>4. CASE ~ReturnNil /\ ~SetupNetworking
  <2>1. UNCHANGED named
    BY <1>4 DEF Next, Start, Driver, Method, Deletions, StartRun, StartCleanup,
       RecoverLocks, UseOwnNetwork, SetupReturns, DestroyPair, CreatePair,
       TeardownNetworking, Exit, CallFails, PlainCall, ClusterCredentials,
       KubernetesCall, EnsureSSHKey, UpsertStack, SelectStack, Fallback,
       CancelUpdate, RemoveStack, BeginUpdate, UpdateRefused, CreateResource,
       DeleteResource, ResourceFails, EndUpdate, Crash, Vanish
  <2> QED BY <1>1, <2>1
<1> QED BY <1>2, <1>3, <1>4

\* Every step keeps the invariant.
LEMMA StepKeeps ==
    ASSUME StackInvariant, [Next]_vars
    PROVE  StackInvariant'
<1>1. CASE UNCHANGED vars
  BY <1>1 DEF vars, infra, StackInvariant, TypeOK, CloudIsShaped, CallIsShaped,
     CallsAreOrdered, Left, On, Existing, Program
<1>2. CASE Next
  <2>1. named' \subseteq Stacks
    BY <1>2, NamesAreOfStacks
  <2> QED BY <1>2, <2>1, SessionStepKeeps, DriverCallKeeps, CallKeeps,
             BackendCallKeeps, BeginUpdateKeeps, ResourceStepKeeps,
             EndUpdateKeeps, CrashKeeps
          DEF Next, Driver, Method
<1> QED BY <1>1, <1>2

\* The invariant holds whatever the provider and however many calls fail.
THEOREM StacksAreSound == Spec => []StackInvariant
<1>1. StackInvariant /\ [Next]_vars => StackInvariant'
  BY StepKeeps
<1> QED BY <1>1, InitIsSound, PTL DEF Spec

\* A stack that Pulumi's backend does not know has no checkpoint and no lock,
\* and every acknowledged resource of the cloud is in a checkpoint, so that a
\* later destroy can find it.
THEOREM StacksAreTyped == Spec => []TypeOK
<1>1. StackInvariant => TypeOK
  BY DEF StackInvariant
<1> QED BY <1>1, StacksAreSound, PTL

-----------------------------------------------------------------------------
\* The contract of the providers whose pools have names of their own.  On AKS
\* every pool is called bench, and the fallback of DestroyPair takes the pool of
\* another instance type.

\* A deletion leaves what other resources in the checkpoints were made from.
LEMMA DeletionKeepsFoundations ==
    ASSUME StackInvariant, FoundationsExist, NEW r \in Deletable,
           provider' = provider,
           \A s \in Stacks : state'[s] \subseteq state[s],
           (cloud \ {<<On, r>>}) \ PoolsOf(<<On, r>>) \subseteq cloud'
    PROVE  FoundationsExist'
<1> SUFFICES ASSUME NEW s \in Stacks, NEW d \in state'[s],
                    NEW x \in Program(s)[d]
             PROVE  <<s, x>> \in cloud'
  BY DEF FoundationsExist, Program
<1>1. d \in state[s] /\ <<s, x>> \in cloud
  BY DEF FoundationsExist
<1>2. <<s, x>> # <<On, r>>
  BY <1>1, TurnsBelongToUpdates
<1>3. <<s, x>> \notin PoolsOf(<<On, r>>)
  <2> SUFFICES ASSUME ClusterTakesPools(provider), s \in Types PROVE FALSE
    BY DEF PoolsOf
  <2>1. provider \in AllProviders /\ d \in DOMAIN ProgramOf(provider, s)
    BY <1>1, ProviderIsModelled, TypeParts DEF InfraIsTyped, Program
  <2> QED BY <2>1, PoolsAreFlat DEF Program
<1> QED BY <1>1, <1>2, <1>3

\* An unknown stack has nothing that a fallback could find for it.
LEMMA FallbackFindsNothing ==
    ASSUME StackInvariant, provider # "aks", On \notin known
    PROVE  cloud \cap FallbackPools = {}
<1>1. /\ \A o \in cloud : o[2] \in state[o[1]]
      /\ \A s \in Stacks \ known : state[s] = {}
      /\ \A o \in cloud : o[1] \in Stacks
  BY TypeParts DEF InfraIsTyped, Existing
<1> QED BY <1>1 DEF FallbackPools, SharesPoolName

\* A stack without a checkpoint has nothing in the cloud.
LEMMA EmptyStackIsNotLive ==
    ASSUME StackInvariant, NEW s \in Stacks, state[s] = {}
    PROVE  \A o \in cloud : o[1] # s
BY TypeParts DEF InfraIsTyped

\* The steps that begin no call and end none.
LEMMA QuietStepKeepsContract ==
    ASSUME ContractInvariant, UNCHANGED <<provider, state, cloud, call>>
    PROVE  FoundationsExist' /\ RefreshIsTrue' /\ CreationIsLive'
<1>1. \A s : Program(s)' = Program(s)
  BY DEF Program
<1>2. FoundationsExist'
  BY <1>1 DEF ContractInvariant, FoundationsExist
<1>3. RefreshIsTrue'
  BY DEF ContractInvariant, RefreshIsTrue, Updating, Step, On
<1>4. CreationIsLive'
  BY <1>1 DEF ContractInvariant, CreationIsLive, Left, On, UpdateIsTelling
<1> QED BY <1>2, <1>3, <1>4

\* A method begins: its update will tell whether its resources exist.
LEMMA BeginKeepsContract ==
    ASSUME ContractInvariant, NEW op \in {"create", "destroy"},
           NEW s \in Stacks, NEW calls, Calls(op, s, calls),
           op = "create" => Creates(calls),
           \A i \in 1..Len(calls) :
               op = "create" /\ calls[i] \in Ups => Tells(provider, s, calls[i])
    PROVE  FoundationsExist' /\ RefreshIsTrue' /\ CreationIsLive'
<1>1. UNCHANGED <<provider, state, cloud>>
  BY DEF Calls, infra
<1>2. /\ call'.op = op /\ call'.on = s /\ call'.calls = calls
      /\ call'.busy = FALSE
  BY DEF Calls, NoCall
<1>3. FoundationsExist'
  BY <1>1 DEF ContractInvariant, FoundationsExist, Program
<1>4. RefreshIsTrue'
  BY <1>2 DEF RefreshIsTrue, Updating
<1>5. CreationIsLive'
  <2>1. op = "create" => \E i \in 1..Len(calls) : calls[i] \in Ups
    BY DEF Creates
  <2> QED BY <1>1, <1>2, <2>1
          DEF CreationIsLive, Left, On, UpdateIsTelling, Tells, Program
<1> QED BY <1>3, <1>4, <1>5

\* The calls of a run and of a cleanup.
LEMMA DriverCallKeepsContract ==
    ASSUME ContractInvariant, provider # "aks",
           \/ SetupNetworking \/ TeardownNetworking
           \/ \E t \in Types : DestroyPair(t) \/ CreatePair(t)
    PROVE  FoundationsExist' /\ RefreshIsTrue' /\ CreationIsLive'
<1>0. provider \in AllProviders \ {"aks"}
  BY ProviderIsModelled DEF ContractInvariant
<1>1. Network \in Stacks /\ Types \subseteq Stacks
  BY DEF Stacks
<1>2. CASE SetupNetworking
  BY <1>0, <1>1, <1>2, SetupCreates, SetupIsTelling, BeginKeepsContract
     DEF SetupNetworking
<1>3. CASE TeardownNetworking
  BY <1>1, <1>3, BeginKeepsContract DEF TeardownNetworking
<1>4. ASSUME NEW t \in Types, DestroyPair(t)
      PROVE  FoundationsExist' /\ RefreshIsTrue' /\ CreationIsLive'
  BY <1>1, <1>4, BeginKeepsContract DEF DestroyPair
<1>5. ASSUME NEW t \in Types, CreatePair(t)
      PROVE  FoundationsExist' /\ RefreshIsTrue' /\ CreationIsLive'
  BY <1>0, <1>1, <1>5, PairCreates, PairIsTelling, BeginKeepsContract
     DEF CreatePair
<1> QED BY <1>2, <1>3, <1>4, <1>5

\* A method ends and leaves the cloud as it was.
LEMMA ReturnKeepsContract ==
    ASSUME ContractInvariant, UNCHANGED <<provider, state, cloud>>,
           call' = NoCall
    PROVE  FoundationsExist' /\ RefreshIsTrue' /\ CreationIsLive'
<1>1. FoundationsExist'
  BY DEF ContractInvariant, FoundationsExist, Program
<1>2. RefreshIsTrue'
  BY NoCallIsShaped DEF RefreshIsTrue, Updating, Step
<1>3. CreationIsLive'
  BY NoCallIsShaped DEF CreationIsLive
<1> QED BY <1>1, <1>2, <1>3

\* A call returns: a creation has its update before it, or its resources.
LEMMA AdvanceKeepsContract ==
    ASSUME ContractInvariant, UNCHANGED <<provider, state, cloud>>,
           call.op # "none", call.calls # <<>>, Advance,
           call.op = "create" /\ call.calls[1] \in Ups
             => \E o \in cloud : o[1] = On
    PROVE  FoundationsExist' /\ RefreshIsTrue' /\ CreationIsLive'
<1>0. CallIsShaped
  BY TypeParts DEF ContractInvariant
<1>1. /\ call'.op = call.op /\ call'.on = call.on /\ call'.busy = FALSE
      /\ \A i \in 1..Len(call.calls') :
           /\ i + 1 \in 1..Len(call.calls)
           /\ call.calls'[i] = call.calls[i + 1]
  BY <1>0, AdvanceLeavesTheRest
<1>2. FoundationsExist'
  BY DEF ContractInvariant, FoundationsExist, Program
<1>3. RefreshIsTrue'
  BY <1>1 DEF RefreshIsTrue, Updating
<1>4. CreationIsLive'
  <2> SUFFICES ASSUME call.op = "create" PROVE CreationIsLive'
    BY <1>1 DEF CreationIsLive
  <2>1. Left(Ups)' \/ \E o \in cloud : o[1] = On
    BY <1>0, AdvanceLeavesOthers DEF ContractInvariant, CreationIsLive
  <2>2. \A i \in 1..Len(call.calls') :
          call.calls'[i] \in Ups => UpdateIsTelling(On, call.calls'[i])
    BY <1>1 DEF ContractInvariant, CreationIsLive
  <2> QED BY <1>1, <2>1, <2>2 DEF CreationIsLive, On, UpdateIsTelling, Program
<1> QED BY <1>2, <1>3, <1>4

\* The calls of a method that are no updates.
LEMMA CallKeepsContract ==
    ASSUME ContractInvariant, provider # "aks",
           \/ ReturnNil \/ CallFails \/ PlainCall \/ ClusterCredentials
           \/ KubernetesCall \/ EnsureSSHKey \/ SelectStack \/ Fallback
           \/ UpdateRefused \/ UpsertStack \/ CancelUpdate \/ RemoveStack
    PROVE  FoundationsExist' /\ RefreshIsTrue' /\ CreationIsLive'
<1> DEFINE Others == {"config", "delete-pods", "credentials", "namespace",
                      "nodes", "secret", "server-pod", "client-pod", "pod-ip",
                      "ssh-key", "select", "select-or-fallback", "upsert",
                      "cancel", "remove"}
<1>0. StackInvariant /\ CallIsShaped
  BY TypeParts DEF ContractInvariant
<1>1. UNCHANGED <<provider, state, cloud>>
  <2>1. CASE Fallback
    BY <1>0, <2>1, FallbackFindsNothing DEF Fallback
  <2>2. CASE ~Fallback
    BY <2>2 DEF ReturnNil, CallFails, PlainCall, ClusterCredentials,
       KubernetesCall, EnsureSSHKey, SelectStack, UpdateRefused, UpsertStack,
       CancelUpdate, RemoveStack, infra
  <2> QED BY <2>1, <2>2
<1>2. CASE call' = NoCall
  BY <1>1, <1>2, ReturnKeepsContract
<1>3. CASE Advance /\ Step(Others)
  <2>1. call.op # "none" /\ call.calls # <<>> /\ call.calls[1] \in Others
    BY <1>0, <1>3, HeadIsFirst DEF Step
  <2>2. call.calls[1] \notin Ups
    BY <2>1 DEF Ups
  <2> QED BY <1>1, <1>3, <2>1, <2>2, AdvanceKeepsContract
<1>4. call' = NoCall \/ (Advance /\ Step(Others))
  BY DEF ReturnNil, CallFails, PlainCall, ClusterCredentials, KubernetesCall,
     EnsureSSHKey, SelectStack, Fallback, UpdateRefused, UpsertStack,
     CancelUpdate, RemoveStack, Return, Step
<1> QED BY <1>2, <1>3, <1>4

\* The update of a creation that is done has left something in the cloud.
LEMMA DoneUpdateIsLive ==
    ASSUME ContractInvariant, call.op = "create", UpdateDone, Step(Updates)
    PROVE  \E o \in cloud : o[1] = On
<1>0. StackInvariant /\ CallIsShaped
  BY TypeParts DEF ContractInvariant
<1>1. /\ 1 \in 1..Len(call.calls) /\ call.calls[1] \in Updates
      /\ call.calls[1] = Head(call.calls) /\ On \in Stacks
  BY <1>0, HeadIsFirst
<1>2. call.calls[1] \in Ups
  <2>1. call.calls[1] \in Destroys => call.op = "destroy"
    BY <1>0, UpdateIsOnKnown
  <2> QED BY <1>1, <2>1 DEF Updates, Ups, Destroys
<1>3. state[On] = DOMAIN Program(On) /\ call.busy
  BY <1>1, <1>2 DEF UpdateDone, Updating, Step, Ups
<1>4. UpdateIsTelling(On, call.calls[1])
  BY <1>1, <1>2 DEF ContractInvariant, CreationIsLive
<1>5. ASSUME NEW d \in DOMAIN Program(On), Program(On)[d] # {}
      PROVE  \E o \in cloud : o[1] = On
  <2>1. PICK r \in Program(On)[d] : TRUE
    BY <1>5
  <2>2. <<On, r>> \in cloud
    BY <1>1, <1>3, <1>5, <2>1 DEF ContractInvariant, FoundationsExist
  <2> QED BY <2>2
<1>6. ASSUME call.calls[1] = "refresh-up", DOMAIN Program(On) # {},
             DOMAIN Program(On) \cap NamedByCode(provider) = {}
      PROVE  \E o \in cloud : o[1] = On
  <2>1. PICK r \in DOMAIN Program(On) : TRUE
    BY <1>6
  <2>2. Updating({"refresh-up"})
    BY <1>1, <1>3, <1>6 DEF Updating, Step
  <2>3. <<On, r>> \in cloud
    BY <1>3, <1>6, <2>1, <2>2 DEF ContractInvariant, RefreshIsTrue
  <2> QED BY <2>3
<1> QED BY <1>4, <1>5, <1>6 DEF UpdateIsTelling

\* The steps of an update.
LEMMA UpdateKeepsContract ==
    ASSUME ContractInvariant,
           \/ BeginUpdate \/ CreateResource \/ DeleteResource \/ ResourceFails
           \/ EndUpdate
    PROVE  FoundationsExist' /\ RefreshIsTrue' /\ CreationIsLive'
<1>0. /\ StackInvariant /\ CallIsShaped /\ call \in CallShapes
      /\ state \in [Stacks -> SUBSET Resources]
  BY TypeParts DEF ContractInvariant
<1>s. On \in Stacks
  BY <1>0 DEF CallShapes, On
<1>1. CASE BeginUpdate
  <2>1. /\ call'.op = call.op /\ call'.on = call.on
        /\ call'.calls = call.calls
        /\ UNCHANGED <<provider, cloud>>
    BY <1>0, <1>1 DEF BeginUpdate, CallShapes
  <2>2. \A s \in Stacks : state'[s] \subseteq state[s]
    BY <1>0, <1>1 DEF BeginUpdate
  <2>3. FoundationsExist'
    BY <2>1, <2>2 DEF ContractInvariant, FoundationsExist, Program
  <2>4. RefreshIsTrue'
    <3> SUFFICES ASSUME Updating({"refresh-up"})', NEW r \in state'[On]
                 PROVE  r \in NamedByCode(provider) \/ <<On, r>> \in cloud
      BY <2>1 DEF RefreshIsTrue, On
    <3>1. Step({"refresh-up"})
      BY <2>1 DEF Updating, Step
    <3>2. Found(<<On, r>>)
      BY <1>0, <1>1, <1>s, <3>1 DEF BeginUpdate
    <3> QED BY <3>2 DEF Found, NameTaken
  <2>5. CreationIsLive'
    BY <2>1 DEF ContractInvariant, CreationIsLive, Left, On, UpdateIsTelling,
       Program
  <2> QED BY <2>3, <2>4, <2>5
<1>2. CASE CreateResource
  <2>1. PICK r \in Creatable :
          /\ Accepted(<<On, r>>)
          /\ cloud' = cloud \cup {<<On, r>>}
          /\ state' = [state EXCEPT ![On] = @ \cup {r}]
          /\ UNCHANGED <<provider, call>>
    BY <1>2 DEF CreateResource
  <2>2. /\ state'[On] = state[On] \cup {r}
        /\ \A s \in Stacks \ {On} : state'[s] = state[s]
    BY <1>0, <1>s, <2>1
  <2>3. \A x \in Program(On)[r] : <<On, x>> \in cloud
    BY <2>1 DEF Accepted, Needs
  <2>4. FoundationsExist'
    <3> SUFFICES ASSUME NEW s \in Stacks, NEW d \in state'[s],
                        NEW x \in Program(s)[d]
                 PROVE  <<s, x>> \in cloud'
      BY <2>1 DEF FoundationsExist, Program
    <3>1. CASE d \in state[s]
      BY <2>1, <3>1 DEF ContractInvariant, FoundationsExist
    <3>2. CASE d \notin state[s]
      BY <2>1, <2>2, <2>3, <3>2
    <3> QED BY <3>1, <3>2
  <2>5. RefreshIsTrue'
    BY <2>1, <2>2 DEF ContractInvariant, RefreshIsTrue, Updating, Step, On
  <2>6. CreationIsLive'
    BY <2>1 DEF ContractInvariant, CreationIsLive, Left, On, UpdateIsTelling,
       Program
  <2> QED BY <2>4, <2>5, <2>6
<1>3. CASE DeleteResource
  <2>1. PICK r \in Deletable :
          /\ cloud' = (cloud \ {<<On, r>>}) \ PoolsOf(<<On, r>>)
          /\ state' = [state EXCEPT ![On] = @ \ {r}]
          /\ UNCHANGED <<provider, call>>
    BY <1>3 DEF DeleteResource
  <2>2. \A s \in Stacks : state'[s] \subseteq state[s]
    BY <1>0, <2>1
  <2>3. FoundationsExist'
    BY <1>0, <2>1, <2>2, DeletionKeepsFoundations DEF ContractInvariant
  <2>4. call.op = "destroy" /\ Step(Destroys)
    <3>1. Step(Destroys)
      BY <1>0, <2>1, TurnsBelongToUpdates DEF Updating
    <3>2. Step(Updates) /\ call.calls[1] \in Destroys
      BY <1>0, <3>1, HeadIsFirst DEF Step, Updates, Destroys
    <3> QED BY <1>0, <3>1, <3>2, UpdateIsOnKnown
  <2>5. RefreshIsTrue'
    BY <2>1, <2>4 DEF RefreshIsTrue, Updating, Step, Destroys
  <2>6. CreationIsLive'
    BY <2>1, <2>4 DEF CreationIsLive
  <2> QED BY <2>3, <2>5, <2>6
<1>4. CASE ResourceFails
  <2>1. /\ call'.op = call.op /\ call'.on = call.on /\ call'.busy = call.busy
        /\ call'.calls = call.calls
        /\ UNCHANGED <<provider, cloud, state>>
    BY <1>0, <1>4 DEF ResourceFails, CallShapes, infra
  <2>2. FoundationsExist'
    BY <2>1 DEF ContractInvariant, FoundationsExist, Program
  <2>3. RefreshIsTrue'
    BY <2>1 DEF ContractInvariant, RefreshIsTrue, Updating, Step, On
  <2>4. CreationIsLive'
    BY <2>1 DEF ContractInvariant, CreationIsLive, Left, On, UpdateIsTelling,
       Program
  <2> QED BY <2>2, <2>3, <2>4
<1>5. CASE EndUpdate
  <2>1. Step(Updates) /\ UNCHANGED <<provider, state, cloud>>
    BY <1>5 DEF EndUpdate, Updating
  <2>2. CASE UpdateDone /\ Advance
    BY <2>1, <2>2, DoneUpdateIsLive, AdvanceKeepsContract DEF Step
  <2>3. CASE Return("error")
    BY <2>1, <2>3, ReturnKeepsContract DEF Return
  <2> QED BY <1>5, <2>2, <2>3 DEF EndUpdate
<1> QED BY <1>1, <1>2, <1>3, <1>4, <1>5

\* A process that dies while it deletes something leaves the checkpoint behind.
LEMMA CrashKeepsContract ==
    ASSUME ContractInvariant, Crash
    PROVE  FoundationsExist' /\ RefreshIsTrue' /\ CreationIsLive'
<1>0. StackInvariant /\ FoundationsExist
  BY DEF ContractInvariant
<1>1. UNCHANGED <<provider, state>> /\ call' = NoCall
  BY DEF Crash
<1>2. FoundationsExist'
  <2>1. CASE cloud' = cloud
    BY <1>0, <1>1, <2>1 DEF FoundationsExist, Program
  <2>2. ASSUME NEW r \in Deletable,
               cloud' = (cloud \ {<<On, r>>}) \ PoolsOf(<<On, r>>)
        PROVE  FoundationsExist'
    BY <1>0, <1>1, <2>2, DeletionKeepsFoundations
  <2> QED BY <2>1, <2>2 DEF Crash
<1>3. RefreshIsTrue' /\ CreationIsLive'
  BY <1>1, NoCallIsShaped DEF RefreshIsTrue, Updating, CreationIsLive
<1> QED BY <1>2, <1>3

\* Every step keeps what the contract rests on.
LEMMA StepKeepsContract ==
    ASSUME ContractInvariant, provider # "aks", [Next]_vars
    PROVE  ContractInvariant' /\ provider' = provider
<1>0. StackInvariant
  BY DEF ContractInvariant
<1>1. StackInvariant'
  BY <1>0, StepKeeps
<1>2. FoundationsExist' /\ RefreshIsTrue' /\ CreationIsLive'
  <2>1. CASE \/ Start \/ RecoverLocks \/ UseOwnNetwork \/ SetupReturns \/ Exit
             \/ Deletions \/ UNCHANGED vars
    <3>1. UNCHANGED <<provider, state, cloud, call>>
      BY <2>1 DEF Start, StartRun, StartCleanup, RecoverLocks, UseOwnNetwork,
         SetupReturns, Exit, Deletions, Vanish, infra, vars
    <3> QED BY <3>1, QuietStepKeepsContract
  <2> QED BY <2>1, DriverCallKeepsContract, CallKeepsContract,
             UpdateKeepsContract, CrashKeepsContract DEF Next, Driver, Method
<1>3. provider' = provider
  BY DEF Next, Start, Driver, Method, StartRun, StartCleanup, RecoverLocks,
     UseOwnNetwork, SetupReturns, Exit, Deletions, Vanish, vars, Calls,
     SetupNetworking, TeardownNetworking, DestroyPair, CreatePair, ReturnNil,
     CallFails, PlainCall, ClusterCredentials, KubernetesCall, EnsureSSHKey,
     SelectStack, Fallback, UpdateRefused, UpsertStack, CancelUpdate,
     RemoveStack, BeginUpdate, CreateResource, DeleteResource, ResourceFails,
     EndUpdate, Crash
<1> QED BY <1>1, <1>2, <1>3 DEF ContractInvariant

-----------------------------------------------------------------------------
\* Every step of a provider is a step of the contract, or none.

\* What the contract sees.
Live == {o[1] : o \in cloud}
seen == <<Live, call.op, call.on, ret>>

\* The deletion of a resource takes its own stack out of the cloud at most; the
\* deletion of a cluster may take pairs.
LEMMA DeletionIsScoped ==
    ASSUME StackInvariant, NEW r \in Deletable,
           cloud' = (cloud \ {<<On, r>>}) \ PoolsOf(<<On, r>>)
    PROVE  /\ call.op = "destroy" /\ On \in Stacks
           /\ On # Network => \A o \in cloud \ cloud' : o[1] = On
           /\ On # Network => Live' \in {Live, Live \ {On}}
           /\ Live' \subseteq Live
<1>1. call.op = "destroy" /\ On \in Stacks
  <2>1. Step(Destroys)
    BY TurnsBelongToUpdates DEF Updating
  <2>2. Step(Updates) /\ call.calls[1] \in Destroys
    BY <2>1, TypeParts, HeadIsFirst DEF Step, Updates, Destroys
  <2> QED BY <2>1, <2>2, UpdateIsOnKnown
<1>2. Live' \subseteq Live
  BY DEF Live
<1>3. ASSUME On # Network PROVE \A o \in cloud \ cloud' : o[1] = On
  BY <1>3 DEF PoolsOf
<1>4. ASSUME On # Network PROVE Live' \in {Live, Live \ {On}}
  <2>1. cloud' \subseteq cloud /\ \A o \in cloud \ cloud' : o[1] = On
    BY <1>3, <1>4
  <2>2. \A s : s # On => (s \in Live' <=> s \in Live)
    BY <2>1 DEF Live
  <2>3. CASE On \in Live'
    BY <1>2, <2>2, <2>3
  <2>4. CASE On \notin Live'
    BY <1>2, <2>2, <2>4
  <2> QED BY <2>3, <2>4
<1> QED BY <1>1, <1>2, <1>3, <1>4

\* A method returns: nil from a creation means resources, nil from a destruction
\* none, and an error nothing.
LEMMA ReturnImplements ==
    ASSUME ContractInvariant, call.op # "none", UNCHANGED cloud,
           \/ Return("error")
           \/ /\ Return("ok")
              /\ call.op = "create" => \E o \in cloud : o[1] = On
              /\ call.op = "destroy" => \A o \in cloud : o[1] # On
    PROVE  Contract!Next
<1>0. call.op \in {"create", "destroy"} /\ call.on \in Stacks
  BY TypeParts DEF ContractInvariant, CallShapes
<1>1. call'.op = "none" /\ call'.on = Network /\ Live' = Live
  BY NoCallIsShaped DEF Return, Live
<1>2. CASE Return("error")
  <2>1. Contract!Fail
    BY <1>0, <1>1, <1>2 DEF Contract!Fail, Contract!Touched, Return, Live
  <2> QED BY <2>1 DEF Contract!Next
<1>3. CASE /\ Return("ok")
           /\ call.op = "create" => \E o \in cloud : o[1] = On
           /\ call.op = "destroy" => \A o \in cloud : o[1] # On
  <2>1. Contract!Return
    BY <1>0, <1>1, <1>3 DEF Contract!Return, Return, Live, On
  <2> QED BY <2>1 DEF Contract!Next
<1> QED BY <1>2, <1>3

\* A call returns inside its method: the contract sees nothing.
LEMMA AdvanceIsUnseen ==
    ASSUME ContractInvariant, call.op # "none", call.calls # <<>>, Advance,
           UNCHANGED cloud
    PROVE  UNCHANGED seen
<1>1. call'.op = call.op /\ call'.on = call.on
  BY TypeParts, AdvanceLeavesTheRest DEF ContractInvariant
<1> QED BY <1>1 DEF seen, Live, Advance

\* The calls of a method that are no updates.
LEMMA CallImplements ==
    ASSUME ContractInvariant, provider # "aks",
           \/ ReturnNil \/ CallFails \/ PlainCall \/ ClusterCredentials
           \/ KubernetesCall \/ EnsureSSHKey \/ SelectStack \/ Fallback
           \/ UpdateRefused \/ UpsertStack \/ CancelUpdate \/ RemoveStack
    PROVE  Contract!Next \/ UNCHANGED seen
<1>0. StackInvariant /\ CallIsShaped /\ CallsAreOrdered
  BY TypeParts DEF ContractInvariant
<1>1. call.op # "none" /\ call.op \in {"create", "destroy"} /\ On \in Stacks
  <2>1. call.op # "none"
    BY DEF ReturnNil, CallFails, PlainCall, ClusterCredentials, KubernetesCall,
       EnsureSSHKey, SelectStack, Fallback, UpdateRefused, UpsertStack,
       CancelUpdate, RemoveStack, Step
  <2> QED BY <1>0, <2>1 DEF CallIsShaped, CallShapes, On
<1>2. UNCHANGED cloud
  <2>1. CASE Fallback
    BY <1>0, <2>1, FallbackFindsNothing DEF Fallback
  <2>2. CASE ~Fallback
    BY <2>2 DEF ReturnNil, CallFails, PlainCall, ClusterCredentials,
       KubernetesCall, EnsureSSHKey, SelectStack, UpdateRefused, UpsertStack,
       CancelUpdate, RemoveStack, infra
  <2> QED BY <2>1, <2>2
<1>3. CASE Return("error")
  BY <1>1, <1>2, <1>3, ReturnImplements
<1>4. CASE Advance /\ call.calls # <<>>
  BY <1>1, <1>2, <1>4, AdvanceIsUnseen
<1>5. CASE ReturnNil
  <2>1. call.calls = <<>> /\ Return("ok") /\ Len(call.calls) = 0
    BY <1>5 DEF ReturnNil
  <2>2. ~Left(Ups) /\ ~Left(Destroys)
    BY <2>1 DEF Left
  <2>3. call.op = "create" => \E o \in cloud : o[1] = On
    BY <2>2 DEF ContractInvariant, CreationIsLive
  <2>4. call.op = "destroy" => \A o \in cloud : o[1] # On
    BY <1>0, <1>1, <2>2, EmptyStackIsNotLive DEF CallsAreOrdered
  <2> QED BY <1>1, <1>2, <2>1, <2>3, <2>4, ReturnImplements
<1>6. ASSUME Step({"select", "select-or-fallback"}), On \notin known, Return("ok")
      PROVE  Contract!Next
  <2>1. call.op = "destroy"
    <3>1. /\ 1 \in 1..Len(call.calls)
          /\ call.calls[1] \in {"select", "select-or-fallback"}
      BY <1>0, <1>6, HeadIsFirst
    <3>2. Left(DestroyCalls)
      BY <3>1 DEF Left, DestroyCalls
    <3> QED BY <1>0, <1>1, <3>2 DEF CallIsShaped
  <2>2. state[On] = {}
    BY <1>0, <1>1, <1>6, TypeParts DEF InfraIsTyped
  <2>3. \A o \in cloud : o[1] # On
    BY <1>0, <1>1, <2>2, EmptyStackIsNotLive
  <2> QED BY <1>1, <1>2, <1>6, <2>1, <2>3, ReturnImplements
<1>7. \/ Return("error") \/ ReturnNil
      \/ Advance /\ call.calls # <<>>
      \/ /\ Step({"select", "select-or-fallback"}) /\ On \notin known
         /\ Return("ok")
  BY DEF ReturnNil, CallFails, PlainCall, ClusterCredentials, KubernetesCall,
     EnsureSSHKey, SelectStack, Fallback, UpdateRefused, UpsertStack,
     CancelUpdate, RemoveStack, Step
<1> QED BY <1>3, <1>4, <1>5, <1>6, <1>7

\* The steps of an update.
LEMMA UpdateImplements ==
    ASSUME ContractInvariant,
           \/ BeginUpdate \/ CreateResource \/ DeleteResource \/ ResourceFails
           \/ EndUpdate
    PROVE  Contract!Next \/ UNCHANGED seen
<1>0. StackInvariant /\ CallIsShaped /\ call \in CallShapes
  BY TypeParts DEF ContractInvariant
<1>1. CASE BeginUpdate \/ ResourceFails
  <2>1. /\ call'.op = call.op /\ call'.on = call.on
        /\ UNCHANGED <<cloud, ret>>
    BY <1>0, <1>1 DEF BeginUpdate, ResourceFails, CallShapes, infra
  <2> QED BY <2>1 DEF seen, Live
<1>2. CASE CreateResource
  <2>1. PICK r \in Creatable :
          cloud' = cloud \cup {<<On, r>>} /\ UNCHANGED <<call, ret>>
    BY <1>2 DEF CreateResource
  <2>2. call.op = "create"
    <3>1. Step(Ups)
      BY <1>0, <2>1, TurnsBelongToUpdates DEF Updating
    <3>2. Step(Updates) /\ call.calls[1] \in Ups
      BY <1>0, <3>1, HeadIsFirst DEF Step, Updates, Ups
    <3> QED BY <1>0, <3>1, <3>2, UpdateIsOnKnown
  <2>3. Live' = Live \cup {On}
    <3>1. <<On, r>> \in cloud' /\ <<On, r>>[1] = On
      BY <2>1
    <3>2. On \in Live' /\ Live \subseteq Live'
      BY <2>1, <3>1 DEF Live
    <3>3. \A o \in cloud' : o[1] \in Live \cup {On}
      BY <2>1, <3>1 DEF Live
    <3>4. Live' \subseteq Live \cup {On}
      BY <3>3 DEF Live
    <3> QED BY <3>2, <3>4
  <2>4. Contract!Work
    BY <2>1, <2>2, <2>3 DEF Contract!Work, Contract!Touched, Live, On
  <2> QED BY <2>4 DEF Contract!Next
<1>3. CASE DeleteResource
  <2>1. PICK r \in Deletable :
          /\ cloud' = (cloud \ {<<On, r>>}) \ PoolsOf(<<On, r>>)
          /\ UNCHANGED <<call, ret>>
    BY <1>3 DEF DeleteResource
  <2>2. /\ call.op = "destroy" /\ Live' \subseteq Live
        /\ On # Network => Live' \in {Live, Live \ {On}}
    BY <1>0, <2>1, DeletionIsScoped
  <2>3. Contract!Work
    BY <2>1, <2>2 DEF Contract!Work, Contract!Touched, Live, On
  <2> QED BY <2>3 DEF Contract!Next
<1>4. CASE EndUpdate
  <2>1. Step(Updates) /\ UNCHANGED cloud
    BY <1>4 DEF EndUpdate, Updating
  <2>2. CASE Advance
    BY <2>1, <2>2, AdvanceIsUnseen DEF Step
  <2>3. CASE Return("error")
    BY <2>1, <2>3, ReturnImplements DEF Step
  <2> QED BY <1>4, <2>2, <2>3 DEF EndUpdate
<1> QED BY <1>1, <1>2, <1>3, <1>4

\* A crash between two calls is unseen, and inside one it is a failure.
LEMMA CrashImplements ==
    ASSUME ContractInvariant, Crash
    PROVE  Contract!Next \/ UNCHANGED seen
<1>0. /\ StackInvariant /\ CallIsShaped
      /\ call.op \in {"none", "create", "destroy"}
  BY TypeParts DEF ContractInvariant, CallShapes
<1>1. /\ call'.op = "none" /\ call'.on = Network
      /\ ret' = (IF call.op = "none" THEN ret ELSE "error")
  BY <1>0, CrashEffects, NoCallIsShaped
<1>2. CASE cloud' = cloud
  <2>1. Live' = Live
    BY <1>2 DEF Live
  <2>2. CASE call.op = "none"
    <3>1. call.on = Network
      BY <1>0, <2>2, NoCallIsShaped DEF CallIsShaped
    <3> QED BY <1>1, <2>1, <2>2, <3>1 DEF seen
  <2>3. CASE call.op # "none"
    <3>1. Contract!Fail
      BY <1>0, <1>1, <2>1, <2>3 DEF Contract!Fail, Contract!Touched, Live
    <3> QED BY <3>1 DEF Contract!Next
  <2> QED BY <2>2, <2>3
<1>3. ASSUME NEW r \in Deletable,
             cloud' = (cloud \ {<<On, r>>}) \ PoolsOf(<<On, r>>)
      PROVE  Contract!Next
  <2>1. /\ call.op = "destroy" /\ Live' \subseteq Live
        /\ On # Network => Live' \in {Live, Live \ {On}}
    BY <1>0, <1>3, DeletionIsScoped
  <2>2. Contract!Fail
    BY <1>1, <2>1 DEF Contract!Fail, Contract!Touched, Live, On
  <2> QED BY <2>2 DEF Contract!Next
<1> QED BY <1>2, <1>3 DEF Crash

\* A step of a provider is a step of the contract, or unseen.
LEMMA StepImplements ==
    ASSUME ContractInvariant, provider # "aks", [Next]_vars
    PROVE  [Contract!Next]_seen
<1>1. CASE \/ Start \/ RecoverLocks \/ UseOwnNetwork \/ SetupReturns \/ Exit
           \/ Deletions \/ UNCHANGED vars
  <2>1. UNCHANGED <<cloud, call, ret>>
    BY <1>1 DEF Start, StartRun, StartCleanup, RecoverLocks, UseOwnNetwork,
       SetupReturns, Exit, Deletions, Vanish, infra, vars
  <2> QED BY <2>1 DEF seen, Live
<1>2. CASE \/ SetupNetworking \/ TeardownNetworking
           \/ \E t \in Types : DestroyPair(t) \/ CreatePair(t)
  <2>1. PICK op \in {"create", "destroy"}, s \in Stacks :
          call.op = "none" /\ \E calls : Calls(op, s, calls)
    BY <1>2 DEF SetupNetworking, TeardownNetworking, DestroyPair, CreatePair,
       Idle, Stacks
  <2>2. /\ call'.op = op /\ call'.on = s /\ UNCHANGED <<cloud, ret>>
    BY <2>1 DEF Calls, NoCall, infra
  <2>3. Contract!Begin
    BY <2>1, <2>2 DEF Contract!Begin
  <2> QED BY <2>3 DEF Contract!Next
<1> QED BY <1>1, <1>2, CallImplements, UpdateImplements, CrashImplements
        DEF Next, Driver, Method

\* DestroyPair deletes nothing of another instance type.
LEMMA StepIsScoped ==
    ASSUME ContractInvariant, provider # "aks", [Next]_vars,
           call.op = "destroy", call.on \in Types
    PROVE  \A o \in cloud \ cloud' : o[1] = call.on
<1>0. StackInvariant /\ On # Network
  BY TypesAssumption DEF ContractInvariant, On, Network
<1>1. ASSUME NEW r \in Deletable,
             cloud' = (cloud \ {<<On, r>>}) \ PoolsOf(<<On, r>>)
      PROVE  \A o \in cloud \ cloud' : o[1] = call.on
  BY <1>0, <1>1, DeletionIsScoped DEF On
<1>2. CASE DeleteResource
  BY <1>1, <1>2 DEF DeleteResource
<1>3. CASE Crash
  BY <1>1, <1>3 DEF Crash
<1>4. CASE Fallback
  BY <1>0, <1>4, FallbackFindsNothing DEF Fallback
<1>5. CASE CreateResource
  BY <1>5 DEF CreateResource
<1>6. CASE ~(DeleteResource \/ Crash \/ Fallback \/ CreateResource)
  <2>1. UNCHANGED cloud
    BY <1>6 DEF Next, Start, Driver, Method, StartRun, StartCleanup,
       RecoverLocks, UseOwnNetwork, SetupReturns, Exit, Deletions, Vanish, vars,
       infra, Calls, SetupNetworking, TeardownNetworking, DestroyPair,
       CreatePair, ReturnNil, CallFails, PlainCall, ClusterCredentials,
       KubernetesCall, EnsureSSHKey, SelectStack, UpdateRefused, UpsertStack,
       CancelUpdate, RemoveStack, BeginUpdate, ResourceFails, EndUpdate
  <2> QED BY <2>1
<1> QED BY <1>2, <1>3, <1>4, <1>5, <1>6

\* The states the contract is proved for.
Covered == ContractInvariant /\ provider # "aks"

\* What the contract rests on holds from the first command on.
LEMMA ContractRests ==
    ASSUME "aks" \notin Providers
    PROVE  Spec => []Covered
<1>1. Init => Covered
  <2> SUFFICES ASSUME Init PROVE Covered
    OBVIOUS
  <2>1. StackInvariant /\ provider # "aks"
    BY InitIsSound DEF Init
  <2>2. FoundationsExist
    BY DEF Init, FoundationsExist
  <2>3. RefreshIsTrue /\ CreationIsLive
    BY NoCallIsShaped DEF Init, RefreshIsTrue, CreationIsLive, Updating
  <2> QED BY <2>1, <2>2, <2>3 DEF Covered, ContractInvariant
<1>2. Covered /\ [Next]_vars => Covered'
  BY StepKeepsContract DEF Covered
<1> QED BY <1>1, <1>2, PTL DEF Spec

\* Whatever died inside an update: a resource that a checkpoint entry was made
\* from exists, a refreshed update relies only on what the cloud has, and a
\* creation that has no update left has a resource, on every provider but AKS.
THEOREM ContractIsSound ==
    ASSUME "aks" \notin Providers
    PROVE  Spec => []ContractInvariant
<1>1. Covered => ContractInvariant
  BY DEF Covered
<1> QED BY <1>1, ContractRests, PTL

\* SetupNetworking, CreatePair, DestroyPair and TeardownNetworking keep the
\* contract the orchestrator relies on, on every provider but AKS, for any set
\* of instance types and any number of failures and crashes.
THEOREM ProvidersKeepContract ==
    ASSUME "aks" \notin Providers
    PROVE  Spec => ImplementsContract
<1>1. Init => Contract!Init
  BY NoCallIsShaped DEF Init, Contract!Init
<1>2. Covered /\ [Next]_vars
        => [Contract!Next]_<<{o[1] : o \in cloud}, call.op, call.on, ret>>
  BY StepImplements DEF Covered, seen, Live
<1> QED BY <1>1, <1>2, ContractRests, PTL
        DEF Spec, ImplementsContract, Contract!Spec

\* DestroyPair of one instance type leaves the nodes of the others alone, on
\* every provider but AKS.
THEOREM DestructionIsScoped ==
    ASSUME "aks" \notin Providers
    PROVE  Spec => DestroyIsScoped
<1>1. Covered /\ [Next]_vars =>
        [call.op = "destroy" /\ call.on \in Types =>
            \A o \in cloud \ cloud' : o[1] = call.on]_vars
  BY StepIsScoped DEF Covered
<1> QED BY <1>1, ContractRests, PTL DEF Spec, DestroyIsScoped
=============================================================================
