-------------------------- MODULE ObjectStatusProofs --------------------------
(* Proofs about ObjectStatus: its types, that a status never claims more than
   the generation it names gives, that a write replaces the version its replica
   has seen, and that the status is right once a replica is at rest, for any
   replicas, nodes, attempts and numbers of edits. *)
EXTENDS ObjectStatus, TLAPS

\* The object is a version there has been: its spec is the one of its generation
\* in sp, the specs so far.
WasStored(o, sp) == o.gen \in 1..Len(sp) /\ o.spec = sp[o.gen]

\* Kubernetes, the caches and the watches hold versions there have been.
VersionsReal ==
    /\ WasStored(api, specs)
    /\ \A r \in Replicas : WasStored(view[r], specs)
    /\ \A r \in Replicas : \A i \in 1..Len(stream[r]) : WasStored(stream[r][i], specs)

\* What a worker is about to write is true of the generation it read: an object
\* is active only on a spec that converts.
WorkersHonest ==
    \A r \in Replicas : worker[r].pc = "write" =>
        /\ worker[r].gen \in 1..Len(specs)
        /\ worker[r].out.active => specs[worker[r].gen] # 0

\* The last version on its way to a replica, or the one it has, is the present.
Latest(r) == IF stream[r] = <<>> THEN view[r] ELSE stream[r][Len(stream[r])]
CachesCatchUp == \A r \in Replicas : Latest(r) = api

\* The inductive invariant.
IInv == VersionsReal /\ WorkersHonest /\ CachesCatchUp /\ HonestStatus

-----------------------------------------------------------------------------
(* What a reconcile computes *)

\* The plain outcomes and the empty status are of their types.
LEMMA BasicOutcomes ==
    /\ \A msg \in Messages : Inactive(msg) \in Outcomes /\ ~Inactive(msg).active
    /\ \A n \in Nodes, c \in Specs : ActiveOn(n, c) \in Outcomes
    /\ Idle \in Workers /\ NoStatus \in Statuses
BY StatusAssumption DEF Inactive, ActiveOn, Outcomes, Messages, Specs, Idle, Workers, NoStatus, Statuses

\* Whatever the kind, the outcome is one, and not active without a conversion.
LEMMA OutcomeFacts ==
    ASSUME kind \in Kinds, NEW o \in Objects, NEW d \in Deps
    PROVE  Outcome(o, d) \in Outcomes /\ (Outcome(o, d).active => o.spec # 0)
<1>1. o.spec \in Specs /\ o.node \in Nodes /\ 1 \in Specs
    BY DEF Objects, Specs
<1>2. /\ Inactive("conversion") \in Outcomes /\ ~Inactive("conversion").active
      /\ Inactive("waiting") \in Outcomes /\ ~Inactive("waiting").active
      /\ Inactive("broken") \in Outcomes /\ ~Inactive("broken").active
    BY BasicOutcomes DEF Messages
<1>3. ActiveOn(o.node, o.spec) \in Outcomes /\ ActiveOn(o.node, 1) \in Outcomes
    BY <1>1, BasicOutcomes
<1>4. CASE kind = "route"
    <2>1. Outcome(o, d) = RouteOutcome(o, d)
        BY <1>4 DEF Outcome
    <2> QED
        BY <1>2, <1>3, <2>1 DEF RouteOutcome
<1>5. CASE kind = "listener"
    <2>1. Outcome(o, d) = ListenerOutcome(o, d)
        BY <1>5 DEF Outcome
    <2> QED
        BY <1>2, <1>3, <2>1 DEF ListenerOutcome
<1>6. CASE kind = "cluster"
    <2>1. Outcome(o, d) = ClusterOutcome(o, d)
        BY <1>6 DEF Outcome
    <2> QED
        BY <1>2, <1>3, <2>1 DEF ClusterOutcome
<1>7. CASE kind = "endpoint"
    <2>1. Outcome(o, d) = EndpointOutcome(o)
        BY <1>7 DEF Outcome
    <2> QED
        BY <1>2, <1>3, <2>1 DEF EndpointOutcome
<1> QED
    BY <1>4, <1>5, <1>6, <1>7 DEF Kinds

-----------------------------------------------------------------------------
(* Types *)

\* Init is well typed.
LEMMA TypeInit == Init => TypeOK
<1> SUFFICES ASSUME Init PROVE TypeOK
    OBVIOUS
<1>1. PICK s \in Specs, n \in Nodes :
        /\ api = [gen |-> 1, spec |-> s, node |-> n, status |-> NoStatus]
        /\ specs = <<s>>
    BY DEF Init
<1>2. api \in Objects /\ specs \in Seq(Specs) /\ Len(specs) = api.gen
    BY <1>1, BasicOutcomes DEF Objects
<1>3. dep \in Deps
    BY DEF Init, Deps
<1> QED
    BY <1>2, <1>3, BasicOutcomes, StatusAssumption DEF Init, TypeOK

\* A version that is stored goes to every watch.
LEMMA StoreTypes ==
    ASSUME TypeOK, NEW o \in Objects, Store(o)
    PROVE  api' \in Objects /\ stream' \in [Replicas -> Seq(Objects)]
BY DEF TypeOK, Store

\* A reconcile that returns leaves its worker idle.
LEMMA ReturnTypes ==
    ASSUME TypeOK, NEW r \in Replicas, Return(r)
    PROVE  worker' \in [Replicas -> Workers] /\ queued' \in [Replicas -> BOOLEAN]
BY BasicOutcomes DEF TypeOK, Return, Requeues

\* An edit of the spec moves the generation and leaves the status.
LEMMA NextGeneration ==
    ASSUME TypeOK, NEW s \in Specs
    PROVE  LET o == [api EXCEPT !.spec = s, !.gen = @ + 1] IN
           o \in Objects /\ o.gen = api.gen + 1 /\ o.spec = s /\ o.status = api.status
<1> DEFINE o1 == [api EXCEPT !.spec = s]
           o == [api EXCEPT !.spec = s, !.gen = @ + 1]
<1>1. api.gen \in Nat /\ api.gen + 1 \in Nat /\ api \in Objects
    BY DEF TypeOK, Objects
<1>2. o1 \in Objects /\ o1.gen = api.gen /\ o1.spec = s /\ o1.status = api.status
    BY <1>1 DEF Objects
<1>3. o = [o1 EXCEPT !.gen = o1.gen + 1]
    OBVIOUS
<1> HIDE DEF o1, o
<1>4. o \in Objects /\ o.gen = api.gen + 1 /\ o.spec = s /\ o.status = api.status
    BY <1>1, <1>2, <1>3 DEF Objects
<1> QED
    BY <1>4 DEF o

\* Every step keeps the types.
LEMMA TypeStep == TypeOK /\ [Next]_vars => TypeOK'
<1> SUFFICES ASSUME TypeOK, [Next]_vars PROVE TypeOK'
    OBVIOUS
<1> USE StatusAssumption
<1>1. CASE EditSpec
    <2>1. PICK s \in Specs :
            /\ Store([api EXCEPT !.spec = s, !.gen = @ + 1])
            /\ specs' = Append(specs, s)
        BY <1>1 DEF EditSpec
    <2> DEFINE o == [api EXCEPT !.spec = s, !.gen = @ + 1]
    <2>2. o \in Objects /\ o.gen = api.gen + 1
        BY NextGeneration
    <2> HIDE DEF o
    <2>3. Store(o)
        BY <2>1 DEF o
    <2>4. api' \in Objects /\ stream' \in [Replicas -> Seq(Objects)] /\ api' = o
        BY <2>2, <2>3, StoreTypes DEF Store
    <2>5. specs' \in Seq(Specs) /\ Len(specs') = api'.gen
        BY <2>1, <2>2, <2>4 DEF TypeOK
    <2> QED
        BY <1>1, <2>4, <2>5 DEF EditSpec, TypeOK
<1>2. CASE EditNode
    <2>1. PICK n \in Nodes : Store([api EXCEPT !.node = n])
        BY <1>2 DEF EditNode
    <2> DEFINE o == [api EXCEPT !.node = n]
    <2>2. o \in Objects /\ o.gen = api.gen
        BY DEF TypeOK, Objects
    <2> HIDE DEF o
    <2>3. Store(o)
        BY <2>1 DEF o
    <2>4. api' \in Objects /\ stream' \in [Replicas -> Seq(Objects)] /\ api' = o
        BY <2>2, <2>3, StoreTypes DEF Store
    <2> QED
        BY <1>2, <2>2, <2>4 DEF EditNode, TypeOK
<1>3. CASE EditDep
    BY <1>3 DEF EditDep, TypeOK, replica
<1>4. ASSUME NEW r \in Replicas, Deliver(r) PROVE TypeOK'
    <2>1. Head(stream[r]) \in Objects /\ Tail(stream[r]) \in Seq(Objects)
        BY <1>4 DEF Deliver, TypeOK
    <2> QED
        BY <1>4, <2>1 DEF Deliver, TypeOK, env
<1>5. ASSUME NEW r \in Replicas, DeliverDep(r) PROVE TypeOK'
    BY <1>5 DEF DeliverDep, TypeOK, env
<1>6. ASSUME NEW r \in Replicas, Reconcile(r) PROVE TypeOK'
    <2> DEFINE w == [pc |-> "write", gen |-> view[r].gen, out |-> Outcome(view[r], depView[r]),
                     tries |-> 0]
    <2>1. view[r] \in Objects /\ depView[r] \in Deps
        BY DEF TypeOK
    <2>2. view[r].gen \in Nat /\ Outcome(view[r], depView[r]) \in Outcomes
        BY <2>1, OutcomeFacts DEF TypeOK, Objects
    <2>3. w \in Workers
        BY <2>2 DEF Workers
    <2>4. worker' = [worker EXCEPT ![r] = w]
        BY <1>6 DEF Reconcile
    <2> HIDE DEF w
    <2> QED
        BY <1>6, <2>3, <2>4 DEF Reconcile, TypeOK, env
<1>7. ASSUME NEW r \in Replicas, AlreadyWritten(r) PROVE TypeOK'
    BY <1>7, ReturnTypes DEF AlreadyWritten, TypeOK, env
<1>8. ASSUME NEW r \in Replicas, WriteStatus(r) PROVE TypeOK'
    <2> DEFINE o == [api EXCEPT !.status = NewStatus(r)]
    <2>1. NewStatus(r) \in Statuses
        BY DEF NewStatus, TypeOK, Workers, Statuses
    <2>2. o \in Objects /\ o.gen = api.gen
        BY <2>1 DEF TypeOK, Objects
    <2> HIDE DEF o
    <2>3. Store(o) /\ Return(r)
        BY <1>8 DEF o, WriteStatus
    <2>4. api' \in Objects /\ stream' \in [Replicas -> Seq(Objects)] /\ api' = o
        BY <2>2, <2>3, StoreTypes DEF Store
    <2> QED
        BY <1>8, <2>2, <2>3, <2>4, ReturnTypes DEF WriteStatus, TypeOK, env
<1>9. ASSUME NEW r \in Replicas, Conflict(r) PROVE TypeOK'
    <2>1. worker' \in [Replicas -> Workers]
        <3>1. CASE worker' = [worker EXCEPT ![r].tries = @ + 1] /\ worker[r].tries + 1 < Steps
            <4>1. worker[r] \in Workers /\ worker[r].tries \in 0..Steps - 1
                BY DEF TypeOK, Workers
            <4>2. worker[r].tries + 1 \in 0..Steps - 1
                BY <3>1, <4>1
            <4> DEFINE w == [worker[r] EXCEPT !.tries = worker[r].tries + 1]
            <4>3. w \in Workers
                BY <4>1, <4>2 DEF Workers
            <4>4. worker' = [worker EXCEPT ![r] = w]
                BY <3>1
            <4> HIDE DEF w
            <4> QED
                BY <4>3, <4>4 DEF TypeOK
        <3>2. CASE Return(r)
            BY <3>2, ReturnTypes
        <3> QED
            BY <1>9, <3>1, <3>2 DEF Conflict
    <2>2. queued' \in [Replicas -> BOOLEAN]
        BY <1>9, ReturnTypes DEF Conflict, TypeOK
    <2>3. lost' \in [Replicas -> BOOLEAN]
        BY <1>9 DEF Conflict, TypeOK
    <2> QED
        BY <1>9, <2>1, <2>2, <2>3 DEF Conflict, TypeOK, env
<1>10. ASSUME NEW r \in Replicas, WriteFails(r) PROVE TypeOK'
    BY <1>10, ReturnTypes DEF WriteFails, TypeOK, env
<1>11. ASSUME NEW r \in Replicas, Restart(r) PROVE TypeOK'
    BY <1>11, BasicOutcomes DEF Restart, TypeOK, env
<1>12. CASE UNCHANGED vars
    BY <1>12 DEF vars, env, replica, TypeOK
<1> QED
    BY <1>1, <1>2, <1>3, <1>4, <1>5, <1>6, <1>7, <1>8, <1>9, <1>10, <1>11, <1>12 DEF Next, Write

-----------------------------------------------------------------------------
(* Honesty *)

\* Generations are only added: what was stored, or true of one, stays so.
LEMMA SpecsGrow ==
    ASSUME TypeOK, \/ specs' = specs
                   \/ \E s \in Specs : specs' = Append(specs, s)
    PROVE  /\ Len(specs) <= Len(specs') /\ Len(specs) \in Nat /\ Len(specs') \in Nat
           /\ \A g \in 1..Len(specs) : specs'[g] = specs[g]
           /\ \A o : WasStored(o, specs) => WasStored(o, specs')
<1>1. /\ Len(specs) <= Len(specs') /\ Len(specs) \in Nat /\ Len(specs') \in Nat
      /\ \A g \in 1..Len(specs) : specs'[g] = specs[g]
    <2>1. CASE specs' = specs
        BY <2>1 DEF TypeOK
    <2>2. ASSUME NEW s \in Specs, specs' = Append(specs, s)
          PROVE  /\ Len(specs) <= Len(specs') /\ Len(specs) \in Nat /\ Len(specs') \in Nat
                 /\ \A g \in 1..Len(specs) : specs'[g] = specs[g]
        BY <2>2 DEF TypeOK
    <2> QED
        BY <2>1, <2>2
<1>2. ASSUME NEW o, WasStored(o, specs)
      PROVE  WasStored(o, specs')
    <2>1. o.gen \in 1..Len(specs) /\ o.spec = specs[o.gen]
        BY <1>2 DEF WasStored
    <2>2. o.gen \in 1..Len(specs') /\ specs'[o.gen] = specs[o.gen]
        BY <1>1, <2>1
    <2> QED
        BY <2>1, <2>2 DEF WasStored
<1> QED
    BY <1>1, <1>2

\* What is stored is real; then so is everything the watches hold, and they end
\* in the present version.
LEMMA StoreReal ==
    ASSUME TypeOK, VersionsReal, CachesCatchUp, NEW o \in Objects, Store(o), WasStored(o, specs'),
           UNCHANGED view, \A x : WasStored(x, specs) => WasStored(x, specs')
    PROVE  VersionsReal' /\ CachesCatchUp'
<1>1. \A r \in Replicas : stream[r] \in Seq(Objects) /\ stream'[r] = Append(stream[r], o)
    BY DEF Store, TypeOK
<1>2. api' = o
    BY DEF Store
<1>3. ASSUME NEW r \in Replicas, NEW i \in 1..Len(stream'[r])
      PROVE  WasStored(stream'[r][i], specs')
    <2>1. Len(stream[r]) \in Nat /\ Len(stream'[r]) = Len(stream[r]) + 1
        BY <1>1
    <2>2. CASE i \in 1..Len(stream[r])
        <3>1. stream'[r][i] = stream[r][i]
            BY <1>1, <2>2
        <3>2. WasStored(stream[r][i], specs)
            BY <2>2 DEF VersionsReal
        <3> QED
            BY <3>1, <3>2 DEF WasStored
    <2>3. CASE i = Len(stream[r]) + 1
        <3>1. stream'[r][i] = o
            BY <1>1, <2>3
        <3> QED
            BY <3>1 DEF WasStored
    <2> QED
        BY <2>1, <2>2, <2>3
<1>4. VersionsReal'
    BY <1>2, <1>3 DEF VersionsReal, WasStored
<1>5. ASSUME NEW r \in Replicas
      PROVE  Latest(r)' = api'
    <2>1. stream'[r] # <<>> /\ stream'[r][Len(stream'[r])] = o
        BY <1>1
    <2> QED
        BY <1>2, <2>1 DEF Latest
<1> QED
    BY <1>4, <1>5 DEF CachesCatchUp

\* The object starts as its only version, without a status.
LEMMA IInvInit == Init => IInv
<1> SUFFICES ASSUME Init PROVE IInv
    OBVIOUS
<1>1. PICK s \in Specs, n \in Nodes :
        /\ api = [gen |-> 1, spec |-> s, node |-> n, status |-> NoStatus]
        /\ specs = <<s>>
    BY DEF Init
<1>2. WasStored(api, specs)
    BY <1>1 DEF WasStored
<1>3. /\ \A r \in Replicas : view[r] = api /\ stream[r] = <<>> /\ worker[r].pc = "idle"
      /\ api.status.gen = 0
    BY <1>1 DEF Init, Idle, NoStatus
<1> QED
    BY <1>2, <1>3 DEF IInv, VersionsReal, WorkersHonest, CachesCatchUp, Latest, HonestStatus

\* A step that leaves the versions alone.
LEMMA VersionsKept ==
    ASSUME VersionsReal, CachesCatchUp, HonestStatus, UNCHANGED <<api, specs, view, stream>>
    PROVE  VersionsReal' /\ CachesCatchUp' /\ HonestStatus'
BY DEF VersionsReal, CachesCatchUp, Latest, HonestStatus

\* A worker that returns has nothing to write, the others are as they were.
LEMMA ReturnHonest ==
    ASSUME TypeOK, WorkersHonest, NEW r \in Replicas, Return(r), UNCHANGED specs
    PROVE  WorkersHonest'
<1>1. \A x \in Replicas : IF x = r THEN worker'[x].pc = "idle" ELSE worker'[x] = worker[x]
    BY DEF Return, TypeOK, Idle
<1> QED
    BY <1>1 DEF WorkersHonest

\* An edit of the spec makes a new generation, which no status speaks of yet.
LEMMA EditSpecStep == TypeOK /\ IInv /\ EditSpec => IInv'
<1> SUFFICES ASSUME TypeOK, IInv, EditSpec PROVE IInv'
    OBVIOUS
<1> USE DEF IInv
<1>1. PICK s \in Specs :
        /\ Store([api EXCEPT !.spec = s, !.gen = @ + 1])
        /\ specs' = Append(specs, s)
    BY DEF EditSpec
<1> DEFINE o == [api EXCEPT !.spec = s, !.gen = @ + 1]
<1>2. o \in Objects /\ o.gen = api.gen + 1 /\ o.spec = s /\ o.status = api.status
    BY NextGeneration
<1>3. Store(o)
    BY <1>1
<1> HIDE DEF o
<1>4. UNCHANGED <<view, worker>>
    BY DEF EditSpec
<1>5. /\ \A x : WasStored(x, specs) => WasStored(x, specs')
      /\ \A g \in 1..Len(specs) : g \in 1..Len(specs') /\ specs'[g] = specs[g]
    BY <1>1, SpecsGrow
<1>6. Len(specs') = api.gen + 1 /\ specs'[api.gen + 1] = s /\ api.gen \in Nat
    BY <1>1 DEF TypeOK, Objects
<1>7. WasStored(o, specs')
    BY <1>2, <1>6 DEF WasStored
<1>8. VersionsReal' /\ CachesCatchUp'
    BY <1>2, <1>3, <1>4, <1>5, <1>7, StoreReal
<1>9. WorkersHonest'
    BY <1>4, <1>5 DEF WorkersHonest
<1>10. HonestStatus'
    <2>1. api'.status = api.status /\ api'.gen = api.gen + 1
        BY <1>2, <1>3 DEF Store
    <2>2. api.status.gen \in Nat /\ Len(specs) = api.gen
        BY DEF TypeOK, Objects, Statuses
    <2>3. api.status.gen # 0 => api.status.gen \in 1..Len(specs)
        BY <1>6, <2>2 DEF HonestStatus
    <2> QED
        BY <1>5, <1>6, <2>1, <2>2, <2>3 DEF HonestStatus
<1> QED
    BY <1>8, <1>9, <1>10

\* A version of the same generation is stored.
LEMMA SameGeneration ==
    ASSUME TypeOK, IInv, NEW o \in Objects, o.gen = api.gen, o.spec = api.spec, Store(o),
           UNCHANGED <<specs, view>>
    PROVE  VersionsReal' /\ CachesCatchUp'
<1>1. WasStored(o, specs')
    BY DEF IInv, VersionsReal, WasStored
<1> QED
    BY <1>1, StoreReal DEF IInv

\* An edit of the annotations leaves generation and status alone.
LEMMA EditNodeStep == TypeOK /\ IInv /\ EditNode => IInv'
<1> SUFFICES ASSUME TypeOK, IInv, EditNode PROVE IInv'
    OBVIOUS
<1>1. PICK n \in Nodes : Store([api EXCEPT !.node = n])
    BY DEF EditNode
<1> DEFINE o == [api EXCEPT !.node = n]
<1>2. /\ o \in Objects /\ o.gen = api.gen /\ o.spec = api.spec /\ o.status = api.status
      /\ Store(o)
    BY <1>1 DEF TypeOK, Objects
<1> HIDE DEF o
<1>3. UNCHANGED <<specs, view, worker>>
    BY DEF EditNode
<1>4. VersionsReal' /\ CachesCatchUp'
    BY <1>2, <1>3, SameGeneration
<1>5. WorkersHonest'
    BY <1>3 DEF IInv, WorkersHonest
<1>6. HonestStatus'
    BY <1>2, <1>3 DEF IInv, HonestStatus, Store
<1> QED
    BY <1>4, <1>5, <1>6 DEF IInv

\* The informer moves one version on.
LEMMA DeliverStep == \A r \in Replicas : TypeOK /\ IInv /\ Deliver(r) => IInv'
<1> SUFFICES ASSUME NEW r \in Replicas, TypeOK, IInv, Deliver(r) PROVE IInv'
    OBVIOUS
<1>1. /\ stream[r] # <<>> /\ stream[r] \in Seq(Objects)
      /\ view' = [view EXCEPT ![r] = Head(stream[r])]
      /\ stream' = [stream EXCEPT ![r] = Tail(stream[r])]
      /\ UNCHANGED <<api, specs, worker>>
    BY DEF Deliver, env, TypeOK
<1>2. /\ view'[r] = stream[r][1]
      /\ Len(stream[r]) \in Nat \ {0}
      /\ Len(stream'[r]) = Len(stream[r]) - 1
      /\ \A i \in 1..Len(stream'[r]) : stream'[r][i] = stream[r][i + 1]
    BY <1>1 DEF TypeOK
<1>3. \A x \in Replicas : x # r => view'[x] = view[x] /\ stream'[x] = stream[x]
    BY <1>1 DEF TypeOK
<1>4. VersionsReal'
    <2>1. \A x \in Replicas : WasStored(view'[x], specs)
        BY <1>2, <1>3 DEF IInv, VersionsReal
    <2>2. ASSUME NEW i \in 1..Len(stream'[r])
          PROVE  WasStored(stream'[r][i], specs)
        <3>1. i + 1 \in 1..Len(stream[r])
            BY <1>2
        <3> QED
            BY <1>2, <3>1 DEF IInv, VersionsReal
    <2> QED
        BY <1>1, <1>3, <2>1, <2>2 DEF IInv, VersionsReal
<1>5. CachesCatchUp'
    <2>1. Latest(r)' = Latest(r)
        <3>1. Latest(r) = stream[r][Len(stream[r])]
            BY <1>1 DEF Latest
        <3>2. CASE Len(stream[r]) = 1
            <4>1. stream'[r] = <<>>
                BY <1>1, <1>2, <3>2 DEF TypeOK
            <4> QED
                BY <1>2, <3>1, <3>2, <4>1 DEF Latest
        <3>3. CASE Len(stream[r]) # 1
            <4> DEFINE k == Len(stream[r])
                       j == Len(stream'[r])
            <4>1. j \in 1..j /\ j + 1 = k
                <5>1. k \in Nat /\ k # 0 /\ k # 1 /\ j = k - 1
                    BY <1>2, <3>3
                <5> HIDE DEF k, j
                <5> QED
                    BY <5>1
            <4>2. stream'[r] # <<>> /\ stream'[r][Len(stream'[r])] = stream[r][Len(stream[r])]
                BY <1>2, <4>1
            <4> QED
                BY <3>1, <4>2 DEF Latest
        <3> QED
            BY <3>2, <3>3
    <2> QED
        BY <1>1, <1>3, <2>1 DEF IInv, CachesCatchUp, Latest
<1>6. WorkersHonest' /\ HonestStatus'
    BY <1>1 DEF IInv, WorkersHonest, HonestStatus
<1> QED
    BY <1>4, <1>5, <1>6 DEF IInv

\* A reconcile reports on the version it reads.
LEMMA ReconcileStep == \A r \in Replicas : TypeOK /\ IInv /\ Reconcile(r) => IInv'
<1> SUFFICES ASSUME NEW r \in Replicas, TypeOK, IInv, Reconcile(r) PROVE IInv'
    OBVIOUS
<1> DEFINE w == [pc |-> "write", gen |-> view[r].gen, out |-> Outcome(view[r], depView[r]),
                 tries |-> 0]
<1>1. worker' = [worker EXCEPT ![r] = w] /\ UNCHANGED <<api, specs, view, stream>>
    BY DEF Reconcile, env
<1>2. w.gen = view[r].gen /\ w.out = Outcome(view[r], depView[r])
    OBVIOUS
<1> HIDE DEF w
<1>3. view[r].gen \in 1..Len(specs) /\ view[r].spec = specs[view[r].gen]
    BY DEF IInv, VersionsReal, WasStored
<1>4. w.out.active => view[r].spec # 0
    BY <1>2, OutcomeFacts DEF TypeOK
<1>5. WorkersHonest'
    BY <1>1, <1>2, <1>3, <1>4 DEF IInv, WorkersHonest, TypeOK
<1> QED
    BY <1>1, <1>5, VersionsKept DEF IInv

\* What is written is what the worker found.
LEMMA WriteStatusStep == \A r \in Replicas : TypeOK /\ IInv /\ WriteStatus(r) => IInv'
<1> SUFFICES ASSUME NEW r \in Replicas, TypeOK, IInv, WriteStatus(r) PROVE IInv'
    OBVIOUS
<1> DEFINE o == [api EXCEPT !.status = NewStatus(r)]
<1>1. NewStatus(r) \in Statuses
    BY DEF NewStatus, TypeOK, Workers, Statuses
<1>2. /\ o \in Objects /\ o.gen = api.gen /\ o.spec = api.spec /\ o.status = NewStatus(r)
    BY <1>1 DEF TypeOK, Objects
<1>3. Store(o) /\ Return(r) /\ worker[r].pc = "write" /\ UNCHANGED <<specs, view>>
    BY DEF WriteStatus, env
<1> HIDE DEF o
<1>4. VersionsReal' /\ CachesCatchUp'
    BY <1>2, <1>3, SameGeneration
<1>5. WorkersHonest'
    BY <1>3, ReturnHonest DEF IInv
<1>6. HonestStatus'
    <2>1. api'.status.gen = worker[r].gen /\ api'.status.out = worker[r].out /\ api'.gen = api.gen
        BY <1>2, <1>3 DEF Store, NewStatus
    <2>2. /\ worker[r].gen \in 1..Len(specs)
          /\ worker[r].out.active => specs[worker[r].gen] # 0
        BY <1>3 DEF IInv, WorkersHonest
    <2>3. Len(specs) = api.gen /\ api.gen \in Nat
        BY DEF TypeOK, Objects
    <2> QED
        BY <1>3, <2>1, <2>2, <2>3 DEF HonestStatus
<1> QED
    BY <1>4, <1>5, <1>6 DEF IInv

\* A restarted replica lists the present version.
LEMMA RestartStep == \A r \in Replicas : TypeOK /\ IInv /\ Restart(r) => IInv'
<1> SUFFICES ASSUME NEW r \in Replicas, TypeOK, IInv, Restart(r) PROVE IInv'
    OBVIOUS
<1>1. /\ \A x \in Replicas :
            IF x = r THEN view'[x] = api /\ stream'[x] = <<>> /\ worker'[x].pc = "idle"
            ELSE view'[x] = view[x] /\ stream'[x] = stream[x] /\ worker'[x] = worker[x]
      /\ UNCHANGED <<api, specs>>
    BY DEF Restart, env, TypeOK, Idle
<1>2. VersionsReal'
    BY <1>1 DEF IInv, VersionsReal
<1>3. CachesCatchUp'
    BY <1>1 DEF IInv, CachesCatchUp, Latest
<1>4. WorkersHonest' /\ HonestStatus'
    BY <1>1 DEF IInv, WorkersHonest, HonestStatus
<1> QED
    BY <1>2, <1>3, <1>4 DEF IInv

\* Every step keeps the inductive invariant.
LEMMA IInvStep == TypeOK /\ IInv /\ [Next]_vars => IInv'
<1> SUFFICES ASSUME TypeOK, IInv, [Next]_vars PROVE IInv'
    OBVIOUS
<1>1. ASSUME UNCHANGED <<api, specs, view, stream, worker>> PROVE IInv'
    BY <1>1, VersionsKept DEF IInv, WorkersHonest
<1>2. CASE EditDep
    BY <1>1, <1>2 DEF EditDep, replica
<1>3. ASSUME NEW r \in Replicas, DeliverDep(r) PROVE IInv'
    BY <1>1, <1>3 DEF DeliverDep, env
<1>4. ASSUME NEW r \in Replicas, AlreadyWritten(r) \/ WriteFails(r) PROVE IInv'
    <2>1. Return(r) /\ UNCHANGED <<api, specs, view, stream>>
        BY <1>4 DEF AlreadyWritten, WriteFails, env
    <2> QED
        BY <2>1, ReturnHonest, VersionsKept DEF IInv
<1>5. ASSUME NEW r \in Replicas, Conflict(r) PROVE IInv'
    <2>1. UNCHANGED <<api, specs, view, stream>>
        BY <1>5 DEF Conflict, env
    <2>2. WorkersHonest'
        <3>1. CASE Return(r)
            BY <2>1, <3>1, ReturnHonest DEF IInv
        <3>2. CASE worker' = [worker EXCEPT ![r].tries = @ + 1]
            <4>1. \A x \in Replicas : /\ worker'[x].pc = worker[x].pc
                                       /\ worker'[x].gen = worker[x].gen
                                       /\ worker'[x].out = worker[x].out
                BY <3>2 DEF TypeOK, Workers
            <4> QED
                BY <2>1, <4>1 DEF IInv, WorkersHonest
        <3> QED
            BY <1>5, <3>1, <3>2 DEF Conflict
    <2> QED
        BY <2>1, <2>2, VersionsKept DEF IInv
<1>6. CASE UNCHANGED vars
    BY <1>1, <1>6 DEF vars, env, replica
<1> QED
    BY <1>2, <1>3, <1>4, <1>5, <1>6, EditSpecStep, EditNodeStep, DeliverStep, ReconcileStep,
       WriteStatusStep, RestartStep
    DEF Next, Write

-----------------------------------------------------------------------------
(* The theorems *)

\* Every variable holds what the code can put there, and a write is tried at
\* most Steps times (update<Kind>Status under retry.RetryOnConflict).
THEOREM TypeCorrect == Spec => []TypeOK
BY TypeInit, TypeStep, PTL DEF Spec

\* The inductive invariant holds throughout.
THEOREM Invariance == Spec => [](TypeOK /\ IInv)
BY TypeInit, TypeStep, IInvInit, IInvStep, PTL DEF Spec

\* observedGeneration never lies, whatever is edited between the reconcile and
\* the write and however many replicas write: a status names a generation there
\* is, and reports an object as active only if that generation converts.
THEOREM StatusHonest == Spec => []HonestStatus
<1>1. IInv => HonestStatus
    BY DEF IInv
<1> QED
    BY <1>1, Invariance, PTL

\* A status write replaces the version its replica has in its cache, and so
\* undoes no edit and no other replica's status that it has not seen: the check
\* of the resourceVersion is what retry.RetryOnConflict relies on.
THEOREM NoBlindWrite == Spec => [][\A r \in Replicas : WriteStatus(r) => view[r] = api]_vars
<1>1. TypeOK /\ IInv => [\A r \in Replicas : WriteStatus(r) => view[r] = api]_vars
    BY DEF IInv, CachesCatchUp, Latest, WriteStatus
<1> QED
    BY <1>1, Invariance, PTL

-----------------------------------------------------------------------------
(* Where the status settles *)

\* What r would report on the version and the dependencies it has.
Wanted(r) == [gen |-> view[r].gen, out |-> Outcome(view[r], depView[r])]

\* A worker whose object was not enqueued again writes what r would report now.
WorkersFresh ==
    \A r \in Replicas : worker[r].pc = "write" /\ ~queued[r] => NewStatus(r) = Wanted(r)

\* A replica with nothing to do has a newer version on its way, shows what it
\* would report, or lost its last write.
RestShown ==
    \A r \in Replicas : worker[r].pc = "idle" /\ ~queued[r] =>
        stream[r] # <<>> \/ StatusEqual(view[r].status, Wanted(r)) \/ lost[r]

\* At first every replica has the object queued.
LEMMA RestInit == Init => WorkersFresh /\ RestShown
<1> SUFFICES ASSUME Init PROVE \A r \in Replicas : queued[r]
    BY DEF WorkersFresh, RestShown
<1> QED
    BY DEF Init

\* Replica x is as it was, but for versions that were added to its watch.
Alike(x) ==
    /\ view'[x] = view[x] /\ depView'[x] = depView[x] /\ worker'[x] = worker[x]
    /\ queued'[x] = queued[x] /\ lost'[x] = lost[x]
    /\ stream'[x] = stream[x] \/ stream'[x] # <<>>

\* Such a replica goes on as before.
LEMMA AlikeRests ==
    ASSUME WorkersFresh, RestShown, NEW x \in Replicas, Alike(x), kind' = kind
    PROVE  /\ (worker[x].pc = "write" /\ ~queued[x] => NewStatus(x) = Wanted(x))'
           /\ (worker[x].pc = "idle" /\ ~queued[x] =>
                stream[x] # <<>> \/ StatusEqual(view[x].status, Wanted(x)) \/ lost[x])'
<1>1. \A o, d : Outcome(o, d)' = Outcome(o, d)
    BY DEF Outcome, RouteOutcome, ListenerOutcome, ClusterOutcome, EndpointOutcome
<1>2. \A a, b : StatusEqual(a, b)' <=> StatusEqual(a, b)
    BY DEF StatusEqual, SameButMessage
<1>3. Wanted(x)' = Wanted(x) /\ NewStatus(x)' = NewStatus(x)
    BY <1>1 DEF Alike, Wanted, NewStatus
<1> QED
    BY <1>2, <1>3 DEF Alike, WorkersFresh, RestShown

\* What a step of r has to show about r itself.
RestsOwn(r) ==
    \/ queued'[r]
    \/ worker'[r].pc = "write" /\ NewStatus(r)' = Wanted(r)'
    \/ worker'[r].pc = "idle"
       /\ (stream'[r] # <<>> \/ StatusEqual(view[r].status, Wanted(r))' \/ lost'[r])

\* The step of one replica, with the others alike.
LEMMA OneRests ==
    ASSUME WorkersFresh, RestShown, kind' = kind, NEW r \in Replicas, RestsOwn(r),
           \A x \in Replicas \ {r} : Alike(x)
    PROVE  WorkersFresh' /\ RestShown'
<1>1. \A x \in Replicas \ {r} :
        /\ (worker[x].pc = "write" /\ ~queued[x] => NewStatus(x) = Wanted(x))'
        /\ (worker[x].pc = "idle" /\ ~queued[x] =>
             stream[x] # <<>> \/ StatusEqual(view[x].status, Wanted(x)) \/ lost[x])'
    BY AlikeRests
<1>2. /\ (worker[r].pc = "write" /\ ~queued[r] => NewStatus(r) = Wanted(r))'
      /\ (worker[r].pc = "idle" /\ ~queued[r] =>
           stream[r] # <<>> \/ StatusEqual(view[r].status, Wanted(r)) \/ lost[r])'
    BY DEF RestsOwn
<1> QED
    BY <1>1, <1>2 DEF WorkersFresh, RestShown

\* A reconcile that returns was fresh, or the object is queued.
LEMMA ReturnRests ==
    ASSUME TypeOK, WorkersFresh, NEW r \in Replicas, Return(r), worker[r].pc = "write"
    PROVE  /\ worker'[r].pc = "idle" /\ (queued'[r] \/ NewStatus(r) = Wanted(r))
           /\ \A x \in Replicas \ {r} : worker'[x] = worker[x] /\ queued'[x] = queued[x]
<1>1. worker'[r].pc = "idle" /\ \A x \in Replicas \ {r} : worker'[x] = worker[x] /\ queued'[x] = queued[x]
    BY DEF Return, TypeOK, Idle
<1>2. queued[r] => queued'[r]
    <2>1. queued'[r] = (queued[r] \/ Requeues(worker[r].out))
        BY DEF Return, TypeOK
    <2> QED
        BY <2>1
<1> QED
    BY <1>1, <1>2 DEF WorkersFresh

\* Every step keeps it so.
LEMMA RestStep == TypeOK /\ WorkersFresh /\ RestShown /\ [Next]_vars => (WorkersFresh /\ RestShown)'
<1> SUFFICES ASSUME TypeOK, WorkersFresh, RestShown, [Next]_vars PROVE WorkersFresh' /\ RestShown'
    OBVIOUS
<1>1. kind' = kind
    BY DEF Next, EditSpec, EditNode, EditDep, Deliver, DeliverDep, Reconcile, Write, AlreadyWritten,
           WriteStatus, Conflict, WriteFails, Restart, env, vars
<1>2. \A o \in Objects : Store(o) => \A x \in Replicas : stream'[x] # <<>>
    <2> SUFFICES ASSUME NEW o \in Objects, Store(o), NEW x \in Replicas PROVE stream'[x] # <<>>
        OBVIOUS
    <2>1. stream[x] \in Seq(Objects) /\ stream'[x] = Append(stream[x], o)
        BY DEF Store, TypeOK
    <2> QED
        BY <2>1
<1>3. ASSUME \A x \in Replicas : Alike(x) PROVE WorkersFresh' /\ RestShown'
    BY <1>1, <1>3, AlikeRests DEF WorkersFresh, RestShown
<1>4. CASE EditSpec
    <2>1. PICK s \in Specs : Store([api EXCEPT !.spec = s, !.gen = @ + 1])
        BY <1>4 DEF EditSpec
    <2>2. [api EXCEPT !.spec = s, !.gen = @ + 1] \in Objects
        BY NextGeneration
    <2>3. \A x \in Replicas : stream'[x] # <<>>
        BY <1>2, <2>1, <2>2
    <2> QED
        BY <1>3, <1>4, <2>3 DEF EditSpec, Alike
<1>5. CASE EditNode
    <2>1. PICK n \in Nodes : Store([api EXCEPT !.node = n])
        BY <1>5 DEF EditNode
    <2>2. [api EXCEPT !.node = n] \in Objects
        BY DEF TypeOK, Objects
    <2>3. \A x \in Replicas : stream'[x] # <<>>
        BY <1>2, <2>1, <2>2
    <2> QED
        BY <1>3, <1>5, <2>3 DEF EditNode, Alike
<1>6. CASE EditDep \/ UNCHANGED vars
    BY <1>3, <1>6 DEF EditDep, vars, replica, Alike
<1>7. ASSUME NEW r \in Replicas, Deliver(r) \/ DeliverDep(r) \/ Restart(r)
      PROVE  WorkersFresh' /\ RestShown'
    <2>1. queued'[r]
        BY <1>7 DEF Deliver, DeliverDep, Restart, TypeOK
    <2>2. \A x \in Replicas \ {r} : Alike(x)
        BY <1>7 DEF Deliver, DeliverDep, Restart, TypeOK, Alike
    <2> QED
        BY <1>1, <2>1, <2>2, OneRests DEF RestsOwn
<1>8. ASSUME NEW r \in Replicas, Reconcile(r) PROVE WorkersFresh' /\ RestShown'
    <2> DEFINE w == [pc |-> "write", gen |-> view[r].gen, out |-> Outcome(view[r], depView[r]), tries |-> 0]
    <2>1. /\ worker' = [worker EXCEPT ![r] = w] /\ UNCHANGED <<kind, view, stream, depView>>
          /\ queued' = [queued EXCEPT ![r] = FALSE] /\ lost' = [lost EXCEPT ![r] = FALSE]
        BY <1>8 DEF Reconcile, env
    <2>2. \A x \in Replicas \ {r} : Alike(x)
        <3> HIDE DEF w
        <3> QED
            BY <2>1 DEF Alike, TypeOK
    <2>3. worker'[r] = w
        BY <2>1 DEF TypeOK
    <2>4. Wanted(r)' = Wanted(r)
        BY <2>1 DEF Wanted, Outcome, RouteOutcome, ListenerOutcome, ClusterOutcome, EndpointOutcome
    <2>5. NewStatus(r)' = [gen |-> w.gen, out |-> w.out] /\ w.pc = "write"
        BY <2>3 DEF NewStatus
    <2>6. [gen |-> w.gen, out |-> w.out] = Wanted(r)
        BY DEF Wanted
    <2> HIDE DEF w
    <2> QED
        BY <1>1, <2>2, <2>3, <2>4, <2>5, <2>6, OneRests DEF RestsOwn
<1>9. ASSUME NEW r \in Replicas, AlreadyWritten(r) PROVE WorkersFresh' /\ RestShown'
    <2>1. /\ Return(r) /\ worker[r].pc = "write" /\ StatusEqual(view[r].status, NewStatus(r))
          /\ UNCHANGED <<kind, view, stream, depView, lost>>
        BY <1>9 DEF AlreadyWritten, env
    <2>2. /\ worker'[r].pc = "idle" /\ (queued'[r] \/ NewStatus(r) = Wanted(r))
          /\ \A x \in Replicas \ {r} : Alike(x)
        BY <2>1, ReturnRests DEF Alike
    <2>3. StatusEqual(view[r].status, Wanted(r)) => StatusEqual(view[r].status, Wanted(r))'
        BY <2>1 DEF StatusEqual, SameButMessage, Wanted, Outcome, RouteOutcome, ListenerOutcome,
                    ClusterOutcome, EndpointOutcome
    <2> QED
        BY <1>1, <2>1, <2>2, <2>3, OneRests DEF RestsOwn
<1>10. ASSUME NEW r \in Replicas, WriteStatus(r) PROVE WorkersFresh' /\ RestShown'
    <2>1. /\ Return(r) /\ worker[r].pc = "write" /\ Store([api EXCEPT !.status = NewStatus(r)])
          /\ UNCHANGED <<view, depView, lost>>
        BY <1>10 DEF WriteStatus, env
    <2>2. [api EXCEPT !.status = NewStatus(r)] \in Objects
        <3>1. NewStatus(r) \in Statuses
            BY DEF NewStatus, TypeOK, Workers, Statuses
        <3> QED
            BY <3>1 DEF TypeOK, Objects
    <2>3. \A x \in Replicas : stream'[x] # <<>>
        BY <1>2, <2>1, <2>2
    <2>4. worker'[r].pc = "idle" /\ \A x \in Replicas \ {r} : Alike(x)
        BY <2>1, <2>3, ReturnRests DEF Alike
    <2> QED
        BY <1>1, <2>3, <2>4, OneRests DEF RestsOwn
<1>11. ASSUME NEW r \in Replicas, Return(r), worker[r].pc = "write", lost' = [lost EXCEPT ![r] = TRUE],
              UNCHANGED <<view, stream, depView>>
       PROVE  WorkersFresh' /\ RestShown'
    <2>1. worker'[r].pc = "idle" /\ \A x \in Replicas \ {r} : Alike(x)
        BY <1>11, ReturnRests DEF Alike, TypeOK
    <2>2. lost'[r]
        BY <1>11 DEF TypeOK
    <2> QED
        BY <1>1, <2>1, <2>2, OneRests DEF RestsOwn
<1>12. ASSUME NEW r \in Replicas, Conflict(r) PROVE WorkersFresh' /\ RestShown'
    <2>1. UNCHANGED <<kind, view, stream, depView>> /\ worker[r].pc = "write"
        BY <1>12 DEF Conflict, env
    <2>2. CASE worker' = [worker EXCEPT ![r].tries = @ + 1] /\ UNCHANGED <<queued, lost>>
        <3>1. \A x \in Replicas \ {r} : Alike(x)
            BY <2>1, <2>2 DEF Alike, TypeOK
        <3>2. worker'[r].pc = "write" /\ worker'[r].gen = worker[r].gen /\ worker'[r].out = worker[r].out
            BY <2>1, <2>2 DEF TypeOK, Workers
        <3>3. NewStatus(r)' = NewStatus(r)
            BY <3>2 DEF NewStatus
        <3>4. Wanted(r)' = Wanted(r)
            BY <2>1 DEF Wanted, Outcome, RouteOutcome, ListenerOutcome, ClusterOutcome, EndpointOutcome
        <3>5. RestsOwn(r)
            BY <2>1, <2>2, <3>2, <3>3, <3>4 DEF RestsOwn, WorkersFresh
        <3> QED
            BY <1>1, <3>1, <3>5, OneRests
    <2>3. CASE Return(r) /\ lost' = [lost EXCEPT ![r] = TRUE]
        BY <1>11, <2>1, <2>3
    <2> QED
        BY <1>12, <2>2, <2>3 DEF Conflict
<1>13. ASSUME NEW r \in Replicas, WriteFails(r) PROVE WorkersFresh' /\ RestShown'
    BY <1>11, <1>13 DEF WriteFails
<1> QED
    BY <1>4, <1>5, <1>6, <1>7, <1>8, <1>9, <1>10, <1>12, <1>13 DEF Next, Write

\* A replica that has nothing to do: nothing is on its way, queued or being written.
AtRest(r) == stream[r] = <<>> /\ depView[r] = dep /\ ~queued[r] /\ worker[r].pc = "idle"

\* The status settles nowhere else: as soon as one replica has nothing to do, the
\* status shows the outcome of the latest version, whatever the others wrote over
\* it from older caches, unless that replica's last write failed.
RestMeansSettled == \A r \in Replicas : AtRest(r) => Settled \/ lost[r]

\* The safety half of StatusSettles, for any number of replicas, edits and failures.
THEOREM SettlesOnlyRight == Spec => []RestMeansSettled
<1>1. TypeOK /\ IInv /\ RestShown => RestMeansSettled
    <2> SUFFICES ASSUME IInv, RestShown, NEW r \in Replicas, AtRest(r), ~lost[r] PROVE Settled
        BY DEF RestMeansSettled
    <2>1. view[r] = api /\ depView[r] = dep
        BY DEF IInv, CachesCatchUp, Latest, AtRest
    <2>2. StatusEqual(view[r].status, Wanted(r))
        BY DEF RestShown, AtRest
    <2>3. StatusEqual(api.status, [gen |-> api.gen, out |-> Outcome(api, dep)])
        BY <2>1, <2>2 DEF Wanted
    <2> QED
        BY <2>3 DEF StatusEqual, SameButMessage, Settled
<1> QED
    BY <1>1, RestInit, RestStep, TypeInit, TypeStep, Invariance, PTL DEF Spec
=============================================================================
