-------------------------- MODULE SnapshotServerProofs --------------------------
(***************************************************************************)
(* Proofs about SnapshotServer and ClusterEndpoint for any sets of nodes,  *)
(* Clusters, Endpoints and routes and any bounds.                          *)
(*                                                                         *)
(* The server relies on one fact about the controllers: a step that leaves *)
(* the counter alone leaves the config alone (CountsChanges).  So while    *)
(* current equals the counter, the snapshots of the tick are those of the  *)
(* config as it is now, and each node's is still to do, in the cache, or   *)
(* has made the tick fail.                                                 *)
(***************************************************************************)
EXTENDS SnapshotServer, TLAPS

\* The config maps GenerateSnapshotsV2 reads.
config == <<ClusterConfigs, EndpointConfigs, placed, used>>

\* The versions remembered are those of the cache.
VersionsMatch == snapVersions = cache

\* The counters of a tick never run ahead.
CountersOrdered ==
    /\ lastProcessed <= counter
    /\ pc # "idle" => lastProcessed < current /\ current <= counter

\* The loop ticks only once it has started, and its first counter is the oldest.
StartsIdle ==
    /\ ~started => pc = "idle"
    /\ started => first <= lastProcessed

\* A tick that is not overtaken handles the snapshots of the present config.
TickCoversConfig ==
    pc = "push" /\ current = counter =>
        /\ todo \subseteq GenerateSnapshotsV2
        /\ \A n \in Nodes : HasResources(n) =>
             SnapshotOf(n) \in todo \/ cache[n] = {SnapshotOf(n)} \/ failed

ServerInv ==
    /\ VersionsMatch
    /\ CountersOrdered
    /\ StartsIdle
    /\ TickCoversConfig
    /\ ServedIsCurrent
    /\ CacheClosed

-----------------------------------------------------------------------------
(* Types *)

\* What CDS stores for a Cluster has the type of a config entry.
LEMMA ClusterEntriesType ==
  ASSUME ControllersTypeOK, NEW c \in Clusters
  PROVE  ClusterEntries(c) \subseteq ClusterEntry
  <1>1. apiClusters[c] \subseteq ClusterSpec
    BY DEF ControllersTypeOK
  <1>2. \A o \in ClusterSpec : Merged(o) \subseteq Nat
    BY DEF Merged, ControllersTypeOK, EndpointSpec
  <1> QED
    BY <1>1, <1>2 DEF ClusterEntries, ClusterEntry, ClusterSpec

\* Every step of CDS, EDS and the API keeps the types.
LEMMA ControllersTypeStep ==
  ASSUME ControllersTypeOK, ControllersNext
  PROVE  ControllersTypeOK'
  <1>1. ASSUME NEW c \in Clusters, ApplyCluster(c)
        PROVE  ControllersTypeOK'
    BY <1>1 DEF ApplyCluster, SetCluster, ControllersTypeOK, ClusterSpec
  <1>2. ASSUME NEW c \in Clusters, SetCluster(c, {})
        PROVE  ControllersTypeOK'
    BY <1>2 DEF SetCluster, ControllersTypeOK
  <1>3. ASSUME NEW e \in Endpoints, ApplyEndpoint(e)
        PROVE  ControllersTypeOK'
    BY <1>3 DEF ApplyEndpoint, SetEndpoint, ControllersTypeOK, EndpointSpec, ClustersReferring
  <1>4. ASSUME NEW e \in Endpoints, SetEndpoint(e, {})
        PROVE  ControllersTypeOK'
    BY <1>4 DEF SetEndpoint, ControllersTypeOK, ClustersReferring
  <1>5. ASSUME NEW c \in Clusters, CdsReconcile(c)
        PROVE  ControllersTypeOK'
    <2>1. reconciled' \in BOOLEAN
      BY <1>5, Zenon DEF CdsReconcile
    <2> QED
      BY <1>5, <2>1, ClusterEntriesType DEF CdsReconcile, ControllersTypeOK
  <1>6. ASSUME NEW e \in Endpoints, EdsRemove(e)
        PROVE  ControllersTypeOK'
    <2>1. reconciled' \in BOOLEAN
      BY <1>6, Zenon DEF EdsRemove
    <2> QED
      BY <1>6, <2>1 DEF EdsRemove, ControllersTypeOK
  <1>7. ASSUME NEW e \in Endpoints, EdsStore(e)
        PROVE  ControllersTypeOK'
    <2>1. PICK o \in EndpointSpec :
            EndpointConfigs' = {x \in EndpointConfigs : x.service # o.service}
                               \union {[service |-> o.service, node |-> o.node, rev |-> o.rev]}
      BY <1>7 DEF EdsStore, ControllersTypeOK
    <2>2. EndpointConfigs' \subseteq EndpointEntry
      BY <2>1 DEF EndpointSpec, EndpointEntry, ControllersTypeOK
    <2>3. reconciled' \in BOOLEAN
      BY <1>7, Zenon DEF EdsStore
    <2> QED
      BY <1>7, <2>2, <2>3 DEF EdsStore, ControllersTypeOK
  <1>8. ASSUME NEW c \in Clusters, CdsError(c)
        PROVE  ControllersTypeOK'
    BY <1>8 DEF CdsError, ControllersTypeOK
  <1>9. ASSUME NEW e \in Endpoints, EdsError(e)
        PROVE  ControllersTypeOK'
    BY <1>9 DEF EdsError, ControllersTypeOK
  <1>10. CASE Done
    BY <1>10 DEF Done, ControllersTypeOK
  <1> QED
    BY <1>1, <1>2, <1>3, <1>4, <1>5, <1>6, <1>7, <1>8, <1>9, <1>10
       DEF ControllersNext, CdsStep, EdsStep

\* The snapshot of a node has its type.
LEMMA SnapshotOfType ==
  ASSUME TypeOK, NEW n \in Nodes
  PROVE  SnapshotOf(n) \in Snapshot /\ SnapshotOf(n).node = n
  BY DEF SnapshotOf, Snapshot, TypeOK, ControllersTypeOK

\* Every step keeps the types.
LEMMA TypeStep ==
  ASSUME TypeOK, [Next]_vars
  PROVE  TypeOK'
  <1>1. CASE Controllers
    BY <1>1, ControllersTypeStep
       DEF Controllers, Beside, TypeOK, routing, loop, tick, pushed
  <1>2. ASSUME NEW n \in Nodes, NEW routes \in SUBSET RouteNames,
               NEW uses \in SUBSET RouteNames, RoutingChange(n, routes, uses)
        PROVE  TypeOK'
    <2>1. reconciled' \in BOOLEAN
      BY <1>2, Zenon DEF RoutingChange
    <2> QED
      BY <1>2, <2>1 DEF RoutingChange, TypeOK, ControllersTypeOK, loop, tick, pushed
  <1>4. CASE ServerStart \/ Tick
    BY <1>4 DEF ServerStart, Tick, TypeOK, ControllersTypeOK, controllers, routing, loop, pushed
  <1>5. CASE Generate
    <2>1. GenerateSnapshotsV2 \subseteq Snapshot
      BY SnapshotOfType DEF GenerateSnapshotsV2
    <2> QED
      BY <1>5, <2>1 DEF Generate, TypeOK, ControllersTypeOK, controllers, routing, loop, pushed
  <1>6. ASSUME NEW s \in todo, KeepPrevious(s) \/ Push(s) \/ PushFails(s)
        PROVE  TypeOK'
    <2>1. s \in Snapshot /\ s.node \in Nodes
      BY DEF TypeOK, Snapshot
    <2>2. CASE KeepPrevious(s)
      BY <2>2 DEF KeepPrevious, TypeOK, ControllersTypeOK, controllers, routing, loop, pushed
    <2>3. CASE Push(s) \/ PushFails(s)
      <3>1. /\ snapVersions' \in [Nodes -> SUBSET Snapshot]
            /\ cache' \in [Nodes -> SUBSET Snapshot]
        BY <2>1, <2>3 DEF Push, PushFails, TypeOK
      <3>2. /\ todo' \subseteq Snapshot /\ fails' \in Nat
        BY <2>3 DEF Push, PushFails, TypeOK
      <3>3. failed' \in BOOLEAN /\ snapshotGenerated' \in BOOLEAN
        BY <2>3, Zenon DEF Push, PushFails, TypeOK
      <3> QED
        BY <2>3, <3>1, <3>2, <3>3
           DEF Push, PushFails, TypeOK, ControllersTypeOK, controllers, routing, loop
    <2> QED BY <1>6, <2>2, <2>3
  <1>7. CASE TickEnd
    BY <1>7 DEF TickEnd, TypeOK, ControllersTypeOK, controllers, routing, loop, pushed
  <1>8. CASE UNCHANGED vars
    BY <1>8 DEF vars, TypeOK, ControllersTypeOK, controllers, routing, loop, tick, pushed
  <1> QED
    BY <1>1, <1>2, <1>4, <1>5, <1>6, <1>7, <1>8 DEF Next, Server, ServerRuns, Handle

-----------------------------------------------------------------------------
(* The server *)

\* What a node's snapshot depends on.
LEMMA SnapshotDepends ==
  ASSUME UNCHANGED config, NEW n \in Nodes
  PROVE  SnapshotOf(n)' = SnapshotOf(n) /\ (HasResources(n)' <=> HasResources(n))
  <1>1. edsEndpointNames' = edsEndpointNames
    BY DEF edsEndpointNames, config
  <1>2. SnapshotOf(n)' = SnapshotOf(n)
    BY <1>1 DEF SnapshotOf, config
  <1> QED
    BY <1>2 DEF HasResources, config

\* The snapshots generated depend on nothing but the config.
LEMMA GenerateDepends ==
  ASSUME UNCHANGED config
  PROVE  GenerateSnapshotsV2' = GenerateSnapshotsV2
  BY SnapshotDepends DEF GenerateSnapshotsV2

\* Every change of the config raises the counter.
LEMMA CountsChanges ==
  ASSUME ControllersTypeOK, ControllersNext
  PROVE  \/ counter' = counter /\ UNCHANGED <<ClusterConfigs, EndpointConfigs>>
         \/ counter' > counter
  <1> USE DEF ControllersTypeOK
  <1>1. ASSUME NEW c \in Clusters, CdsReconcile(c)
        PROVE  \/ counter' = counter /\ UNCHANGED <<ClusterConfigs, EndpointConfigs>>
               \/ counter' > counter
    BY <1>1 DEF CdsReconcile
  <1>2. ASSUME NEW e \in Endpoints, EdsRemove(e)
        PROVE  \/ counter' = counter /\ UNCHANGED <<ClusterConfigs, EndpointConfigs>>
               \/ counter' > counter
    BY <1>2 DEF EdsRemove
  <1>6. ASSUME NEW e \in Endpoints, EdsStore(e)
        PROVE  counter' > counter
    BY <1>6 DEF EdsStore
  <1>3. ASSUME NEW c \in Clusters, ApplyCluster(c) \/ SetCluster(c, {}) \/ CdsError(c)
        PROVE  counter' = counter /\ UNCHANGED <<ClusterConfigs, EndpointConfigs>>
    BY <1>3 DEF ApplyCluster, SetCluster, CdsError
  <1>4. ASSUME NEW e \in Endpoints, ApplyEndpoint(e) \/ SetEndpoint(e, {}) \/ EdsError(e)
        PROVE  counter' = counter /\ UNCHANGED <<ClusterConfigs, EndpointConfigs>>
    BY <1>4 DEF ApplyEndpoint, SetEndpoint, EdsError
  <1>5. ASSUME Done
        PROVE  counter' = counter /\ UNCHANGED <<ClusterConfigs, EndpointConfigs>>
    BY <1>5 DEF Done
  <1> QED
    BY <1>1, <1>2, <1>3, <1>4, <1>5, <1>6 DEF ControllersNext, CdsStep, EdsStep

\* Steps of the controllers: the config stays, or the counter moves on.
LEMMA ConfigStep ==
  ASSUME TypeOK, ServerInv, counter' \in Nat,
         \/ counter' = counter /\ UNCHANGED config
         \/ counter' > counter,
         UNCHANGED <<loop, tick, pushed, fails>>
  PROVE  ServerInv'
  <1>1. VersionsMatch' /\ CacheClosed'
    BY DEF ServerInv, VersionsMatch, CacheClosed, pushed
  <1>2. CountersOrdered'
    BY DEF ServerInv, CountersOrdered, TypeOK, ControllersTypeOK, tick
  <1>3. StartsIdle'
    BY DEF ServerInv, StartsIdle, TypeOK, loop, tick
  <1>4. CASE counter' = counter /\ UNCHANGED config
    <2>1. TickCoversConfig'
      BY <1>4, SnapshotDepends, GenerateDepends DEF ServerInv, TickCoversConfig, tick, pushed
    <2>2. ServedIsCurrent'
      BY <1>4, SnapshotDepends
         DEF ServerInv, ServedIsCurrent, ChangedSinceStart, loop, tick, pushed
    <2> QED BY <1>1, <1>2, <1>3, <2>1, <2>2 DEF ServerInv
  <1>5. CASE counter' > counter
    <2>1. TickCoversConfig'
      BY <1>5 DEF ServerInv, TickCoversConfig, CountersOrdered, TypeOK, ControllersTypeOK, tick
    <2>2. ServedIsCurrent'
      BY <1>5 DEF ServerInv, ServedIsCurrent, ChangedSinceStart, CountersOrdered, TypeOK,
                  ControllersTypeOK, loop, tick
    <2> QED BY <1>1, <1>2, <1>3, <2>1, <2>2 DEF ServerInv
  <1> QED BY <1>4, <1>5

\* Every step of the server keeps the invariant.
LEMMA ServerStep ==
  ASSUME TypeOK, ServerInv, [Next]_vars
  PROVE  ServerInv'
  <1> USE DEF ServerInv
  <1>0. TypeOK'
    BY TypeStep
  <1>1. CASE Controllers
    BY <1>0, <1>1, CountsChanges, ConfigStep
       DEF Controllers, Beside, TypeOK, ControllersTypeOK, config, routing
  <1>2. ASSUME NEW n \in Nodes, NEW routes, NEW uses, RoutingChange(n, routes, uses)
        PROVE  ServerInv'
    BY <1>0, <1>2, ConfigStep DEF RoutingChange, TypeOK, ControllersTypeOK
  <1>4. CASE UNCHANGED vars
    BY <1>0, <1>4, ConfigStep
       DEF vars, controllers, routing, loop, config, TypeOK, ControllersTypeOK
  <1>5. CASE ServerStart
    <2>1. /\ UNCHANGED config /\ counter' = counter /\ UNCHANGED <<pc, pushed, current, todo>>
          /\ first' = counter /\ lastProcessed' = counter
      BY <1>5 DEF ServerStart, controllers, routing, loop, config
    <2>2. VersionsMatch' /\ CacheClosed'
      BY <2>1 DEF VersionsMatch, CacheClosed, pushed
    <2>3. CountersOrdered' /\ StartsIdle' /\ TickCoversConfig'
      BY <1>5, <2>1
         DEF ServerStart, CountersOrdered, StartsIdle, TickCoversConfig, TypeOK,
             ControllersTypeOK
    <2> QED BY <2>1, <2>2, <2>3 DEF ServedIsCurrent, ChangedSinceStart
  <1>6. CASE Tick
    <2>1. UNCHANGED <<config, counter, loop, lastProcessed, pushed>>
      BY <1>6 DEF Tick, controllers, routing, loop, config
    <2>2. ServedIsCurrent' /\ TickCoversConfig'
      BY <1>6, <2>1 DEF Tick, ServedIsCurrent, ChangedSinceStart, TickCoversConfig, loop
    <2>3. CountersOrdered' /\ StartsIdle'
      BY <1>6, <2>1 DEF Tick, CountersOrdered, StartsIdle, TypeOK, ControllersTypeOK, loop
    <2>4. VersionsMatch' /\ CacheClosed'
      BY <2>1 DEF VersionsMatch, CacheClosed, pushed
    <2> QED BY <2>2, <2>3, <2>4
  <1>7. CASE Generate
    <2>1. UNCHANGED <<config, counter, loop, lastProcessed, current, pushed>>
      BY <1>7 DEF Generate, controllers, routing, loop, config
    <2>2. \A n \in Nodes : HasResources(n) => SnapshotOf(n) \in GenerateSnapshotsV2
      BY DEF GenerateSnapshotsV2
    <2>3. TickCoversConfig'
      BY <1>7, <2>1, <2>2, SnapshotDepends, GenerateDepends DEF Generate, TickCoversConfig
    <2>4. ServedIsCurrent' /\ CountersOrdered' /\ StartsIdle'
      BY <1>7, <2>1, SnapshotDepends
         DEF Generate, ServedIsCurrent, ChangedSinceStart, CountersOrdered, StartsIdle, pushed,
             loop, config
    <2>5. VersionsMatch' /\ CacheClosed'
      BY <2>1 DEF VersionsMatch, CacheClosed, pushed
    <2> QED BY <2>3, <2>4, <2>5
  <1>8. ASSUME NEW s \in todo, KeepPrevious(s) \/ Push(s) \/ PushFails(s)
        PROVE  ServerInv'
    <2>1. /\ UNCHANGED <<config, counter, loop, lastProcessed, pc, current>>
          /\ pc = "push"
      BY <1>8 DEF KeepPrevious, Push, PushFails, controllers, routing, loop, config
    <2>2. s.node \in Nodes
      BY DEF TypeOK, Snapshot
    <2>3. \/ ~consistent(s) /\ failed' = TRUE /\ UNCHANGED <<cache, snapVersions>>
          \/ /\ consistent(s)
             /\ cache' = [cache EXCEPT ![s.node] = {s}]
             /\ snapVersions' = cache'
             /\ failed' = failed \/ failed' = TRUE
      BY <1>8, <2>2 DEF KeepPrevious, Push, PushFails, VersionsMatch, TypeOK, pushed
    <2>4. failed' = TRUE \/ (failed' = failed /\ todo' = todo \ {s} /\ cache'[s.node] = {s})
      BY <1>8, <2>2, <2>3 DEF KeepPrevious, Push, PushFails, TypeOK
    <2>5. todo' \subseteq todo
      BY <1>8 DEF KeepPrevious, Push, PushFails
    <2>6. current = counter => s = SnapshotOf(s.node)
      BY <2>1, SnapshotOfType DEF TickCoversConfig, GenerateSnapshotsV2
    <2>7. \A n \in Nodes : n # s.node => cache'[n] = cache[n]
      BY <2>3 DEF TypeOK
    <2>8. TickCoversConfig'
      <3> SUFFICES ASSUME current = counter
                   PROVE  TickCoversConfig'
        BY <2>1 DEF TickCoversConfig
      <3>1. todo' \subseteq GenerateSnapshotsV2'
        BY <2>1, <2>5, GenerateDepends DEF TickCoversConfig
      <3>2. ASSUME NEW n \in Nodes, HasResources(n), ~failed'
            PROVE  SnapshotOf(n) \in todo' \/ cache'[n] = {SnapshotOf(n)}
        <4>1. CASE n = s.node
          BY <2>4, <2>6, <3>2, <4>1
        <4>2. CASE n # s.node
          <5>1. SnapshotOf(n) # s
            BY <4>2, SnapshotOfType
          <5>2. ~failed /\ todo' = todo \ {s}
            BY <2>4, <3>2
          <5> QED BY <2>1, <2>7, <3>2, <4>2, <5>1, <5>2 DEF TickCoversConfig
        <4> QED BY <4>1, <4>2
      <3> QED BY <2>1, <3>1, <3>2, SnapshotDepends DEF TickCoversConfig
    <2>9. VersionsMatch'
      BY <2>3 DEF VersionsMatch
    <2>10. CacheClosed'
      <3>1. consistent(s) =>
              /\ \A c \in s.clusters : c.eds \subseteq {e.service : e \in s.endpoints}
              /\ s.used \subseteq s.routes
        BY DEF consistent
      <3> QED BY <2>2, <2>3, <2>7, <3>1 DEF CacheClosed, TypeOK, HoldsReferences
    <2>11. ServedIsCurrent' /\ CountersOrdered' /\ StartsIdle'
      BY <2>1 DEF ServedIsCurrent, ChangedSinceStart, CountersOrdered, StartsIdle, TypeOK,
                  ControllersTypeOK, loop, config
    <2> QED BY <2>8, <2>9, <2>10, <2>11
  <1>9. CASE TickEnd
    <2>1. /\ UNCHANGED <<config, counter, loop, pushed>>
          /\ pc = "push" /\ pc' = "idle" /\ todo = {}
          /\ lastProcessed' = lastProcessed \/ (~failed /\ lastProcessed' = current)
      BY <1>9 DEF TickEnd, controllers, routing, loop, config
    <2>2. ServedIsCurrent'
      BY <2>1, SnapshotDepends
         DEF ServedIsCurrent, ChangedSinceStart, TickCoversConfig, CountersOrdered, TypeOK,
             ControllersTypeOK, loop, pushed
    <2>3. CountersOrdered' /\ StartsIdle' /\ TickCoversConfig'
      BY <2>1 DEF CountersOrdered, StartsIdle, TickCoversConfig, TypeOK,
                  ControllersTypeOK, loop, config
    <2>4. VersionsMatch' /\ CacheClosed'
      BY <2>1 DEF VersionsMatch, CacheClosed, pushed
    <2> QED BY <2>2, <2>3, <2>4
  <1> QED
    BY <1>1, <1>2, <1>4, <1>5, <1>6, <1>7, <1>8, <1>9
       DEF Next, Server, ServerRuns, Handle

-----------------------------------------------------------------------------
(* The controllers *)

\* What the entries of a Cluster depend on.
LEMMA EntriesDepend ==
  ASSUME NEW c \in Clusters, apiClusters'[c] = apiClusters[c],
         \A o \in apiClusters[c] : \A e \in o.refs \intersect Endpoints :
            apiEndpoints'[e] = apiEndpoints[e]
  PROVE  ClusterEntries(c)' = ClusterEntries(c)
  <1>1. \A o \in apiClusters[c] : Merged(o)' = Merged(o)
    BY DEF Merged
  <1> QED
    BY <1>1 DEF ClusterEntries

\* An edit that outdates a Cluster's entries queues it, and a reconcile refreshes them.
LEMMA ClustersCurrentStep ==
  ASSUME ControllersTypeOK, ClustersCurrent, ControllersNext
  PROVE  ClustersCurrent'
  <1> USE DEF ControllersTypeOK
  <1>1. ASSUME NEW c \in Clusters, NEW objects, SetCluster(c, objects)
        PROVE  ClustersCurrent'
    <2>1. \A d \in Clusters : d # c => ClusterEntries(d)' = ClusterEntries(d)
      BY <1>1, EntriesDepend DEF SetCluster
    <2> QED
      BY <1>1, <2>1 DEF SetCluster, ClustersCurrent
  <1>2. ASSUME NEW e \in Endpoints, NEW objects, SetEndpoint(e, objects)
        PROVE  ClustersCurrent'
    <2>1. \A d \in Clusters :
            d \notin ClustersReferring(e) => ClusterEntries(d)' = ClusterEntries(d)
      BY <1>2, EntriesDepend DEF SetEndpoint, ClustersReferring
    <2> QED
      BY <1>2, <2>1 DEF SetEndpoint, ClustersCurrent
  <1>3. ASSUME NEW c \in Clusters, CdsReconcile(c)
        PROVE  ClustersCurrent'
    <2>1. \A d \in Clusters : ClusterEntries(d)' = ClusterEntries(d)
      BY <1>3, EntriesDepend DEF CdsReconcile
    <2>2. \A x \in ClusterEntries(c) : x.name = c
      BY DEF ClusterEntries
    <2>3. ClusterConfigs' = {x \in ClusterConfigs : x.name # c} \union ClusterEntries(c)
      BY <1>3 DEF CdsReconcile
    <2>4. \A d \in Clusters : {x \in ClusterConfigs' : x.name = d} =
            IF d = c THEN ClusterEntries(c) ELSE {x \in ClusterConfigs : x.name = d}
      BY <2>2, <2>3
    <2> QED
      BY <1>3, <2>1, <2>4 DEF CdsReconcile, ClustersCurrent
  <1>4. ASSUME UNCHANGED <<apiClusters, apiEndpoints, ClusterConfigs, cdsQueue>>
        PROVE  ClustersCurrent'
    BY <1>4, EntriesDepend DEF ClustersCurrent
  <1> QED
    BY <1>1, <1>2, <1>3, <1>4
       DEF ControllersNext, CdsStep, EdsStep, ApplyCluster, ApplyEndpoint, CdsError, EdsRemove,
           EdsStore, EdsError, Done

\* With cluster_name left empty, an entry that is not queued shows its object.
EntriesShown ==
    /\ \A e \in Endpoints : \A o \in apiEndpoints[e] : o.service = e
    /\ \A x \in EndpointConfigs :
        /\ x.service \in Endpoints
        /\ x.service \in edsQueue \/ \E o \in apiEndpoints[x.service] : o.rev = x.rev

\* An Endpoint's entry is replaced or removed when its object is.
LEMMA EntriesShownStep ==
  ASSUME OwnNames, ControllersTypeOK, EntriesShown, ControllersNext
  PROVE  EntriesShown'
  <1> USE DEF ControllersTypeOK
  <1>1. ASSUME NEW e \in Endpoints, ApplyEndpoint(e) \/ SetEndpoint(e, {})
        PROVE  EntriesShown'
    BY <1>1 DEF ApplyEndpoint, SetEndpoint, EntriesShown
  <1>2. ASSUME NEW e \in Endpoints, EdsRemove(e)
        PROVE  EntriesShown'
    BY <1>2 DEF EdsRemove, EntriesShown
  <1>3. ASSUME NEW e \in Endpoints, EdsStore(e)
        PROVE  EntriesShown'
    BY <1>3 DEF EdsStore, EntriesShown
  <1>4. ASSUME UNCHANGED <<apiEndpoints, EndpointConfigs, edsQueue>>
        PROVE  EntriesShown'
    BY <1>4 DEF EntriesShown
  <1> QED
    BY <1>1, <1>2, <1>3, <1>4
       DEF ControllersNext, CdsStep, EdsStep, ApplyCluster, SetCluster, CdsReconcile, CdsError,
           EdsError, Done

\* The parts of the invariant kept by every step of the whole system.
LEMMA ControllersBeside ==
  ASSUME TypeOK, [Next]_vars, ~Controllers
  PROVE  /\ ClustersCurrent => ClustersCurrent'
         /\ EntriesShown => EntriesShown'
  <1>1. UNCHANGED <<apiClusters, apiEndpoints, ClusterConfigs, EndpointConfigs, cdsQueue,
                    edsQueue>>
    BY DEF Next, RoutingChange, Beside, Server, ServerRuns, ServerStart, Tick, Generate,
           Handle, KeepPrevious, Push, PushFails, TickEnd, vars, controllers
  <1>2. \A c \in Clusters : ClusterEntries(c)' = ClusterEntries(c)
    BY <1>1, EntriesDepend
  <1> QED
    BY <1>1, <1>2 DEF ClustersCurrent, EntriesShown

-----------------------------------------------------------------------------
(* The theorems *)

\* Everything the server and the two controllers keep is typed.
THEOREM ServerTypeCorrect == Safe => []TypeOK
  <1>1. Init => TypeOK
    <2> SUFFICES ASSUME Init PROVE TypeOK
      OBVIOUS
    <2>1. ControllersTypeOK
      BY DEF Init, ControllersInit, ControllersTypeOK
    <2>2. started \in BOOLEAN /\ failed \in BOOLEAN /\ snapshotGenerated \in BOOLEAN
      BY DEF Init
    <2> QED
      BY <2>1, <2>2 DEF Init, TypeOK
  <1>2. TypeOK /\ [Next]_vars => TypeOK'
    BY TypeStep
  <1> QED
    BY <1>1, <1>2, PTL DEF Safe

\* The server's invariant holds in every state, whenever the server starts.
LEMMA ServerInvariant ==
  Safe => []ServerInv
  <1>1. Init => ServerInv
    BY DEF Init, ControllersInit, ServerInv, VersionsMatch, CountersOrdered, StartsIdle,
           TickCoversConfig, ServedIsCurrent, ChangedSinceStart, CacheClosed
  <1>2. TypeOK /\ ServerInv /\ [Next]_vars => ServerInv'
    BY ServerStep
  <1> QED
    BY <1>1, <1>2, ServerTypeCorrect, PTL DEF Safe

\* Whenever the server starts: once the config has changed since its loop took its
\* first counter, and it has nothing left to process, every node is served the
\* config as it is.
THEOREM ServerServesCurrentConfig ==
  Safe => []ServedIsCurrent
  <1>1. ServerInv => ServedIsCurrent
    BY DEF ServerInv
  <1> QED
    BY <1>1, ServerInvariant, PTL

\* No snapshot in the cache names a load assignment or a route configuration
\* it does not hold.
THEOREM CacheIsClosed ==
  Safe => []CacheClosed
  <1>1. ServerInv => CacheClosed
    BY DEF ServerInv
  <1> QED
    BY <1>1, ServerInvariant, PTL

\* The Endpoint watch of CDS suffices: a Cluster that is not queued is in the
\* config as its object and the Endpoints it refers to say.
THEOREM ClustersStayCurrent == Safe => []ClustersCurrent
  <1>1. Init => ClustersCurrent
    BY DEF Init, ControllersInit, ClustersCurrent, ClusterEntries
  <1>2. TypeOK /\ ClustersCurrent /\ [Next]_vars => ClustersCurrent'
    BY ClustersCurrentStep, ControllersBeside DEF Controllers, Beside, TypeOK
  <1> QED
    BY <1>1, <1>2, ServerTypeCorrect, PTL DEF Safe

\* If no Endpoint sets cluster_name, the load assignments are those of the
\* Endpoints that exist, once EDS has caught up.
THEOREM EndpointsStayCurrent ==
  ASSUME OwnNames
  PROVE  Safe => []EndpointsCurrent
  <1>1. Init => EntriesShown
    BY DEF Init, ControllersInit, EntriesShown
  <1>2. TypeOK /\ EntriesShown /\ [Next]_vars => EntriesShown'
    BY EntriesShownStep, ControllersBeside DEF Controllers, Beside, TypeOK
  <1>3. EntriesShown => EndpointsCurrent
    BY DEF EntriesShown, EndpointsCurrent
  <1> QED
    BY <1>1, <1>2, <1>3, ServerTypeCorrect, PTL DEF Safe

-----------------------------------------------------------------------------
(* The refinement of Publication *)

\* A tick has one snapshot per node, and the versions are those of the cache.
PublishInv ==
    /\ VersionsMatch
    /\ \A s, t \in todo : s.node = t.node => s = t

\* Every step keeps what the refinement rests on.
LEMMA PublishInvStep ==
  ASSUME TypeOK, PublishInv, [Next]_vars
  PROVE  PublishInv'
  <1> USE DEF PublishInv, VersionsMatch
  <1>1. CASE UNCHANGED <<todo, pushed>>
    BY <1>1 DEF pushed
  <1>2. CASE Generate
    <2>1. todo' = GenerateSnapshotsV2 /\ UNCHANGED pushed
      BY <1>2 DEF Generate
    <2>2. \A n \in Nodes : SnapshotOf(n).node = n
      BY DEF SnapshotOf
    <2>3. \A s, t \in GenerateSnapshotsV2 : s.node = t.node => s = t
      BY <2>2 DEF GenerateSnapshotsV2
    <2> QED
      BY <2>1, <2>3 DEF pushed
  <1>3. ASSUME NEW s \in todo, KeepPrevious(s) \/ Push(s) \/ PushFails(s)
        PROVE  PublishInv'
    <2>1. snapVersions' = cache'
      BY <1>3 DEF KeepPrevious, Push, PushFails, pushed
    <2>2. todo' \subseteq todo
      BY <1>3 DEF KeepPrevious, Push, PushFails
    <2> QED
      BY <2>1, <2>2
  <1>4. ASSUME Controllers
        PROVE  UNCHANGED <<todo, pushed>>
    BY <1>4 DEF Controllers, Beside, tick
  <1>5. ASSUME NEW n \in Nodes, NEW routes, NEW uses, RoutingChange(n, routes, uses)
        PROVE  UNCHANGED <<todo, pushed>>
    BY <1>5 DEF RoutingChange, tick
  <1>6. ASSUME ServerStart \/ Tick \/ TickEnd
        PROVE  UNCHANGED <<todo, pushed>>
    BY <1>6 DEF ServerStart, Tick, TickEnd
  <1>7. ASSUME UNCHANGED vars
        PROVE  UNCHANGED <<todo, pushed>>
    BY <1>7 DEF vars, tick
  <1> QED
    BY <1>1, <1>2, <1>3, <1>4, <1>5, <1>6, <1>7 DEF Next, Server, ServerRuns, Handle

\* The snapshots of a pass are, node by node, the config that it copied.
LEMMA GeneratedIsConfig ==
  ASSUME NEW n \in Nodes
  PROVE  {s \in GenerateSnapshotsV2 : s.node = n}
            = IF HasResources(n) THEN {SnapshotOf(n)} ELSE {}
  <1>1. \A m \in Nodes : SnapshotOf(m).node = m
    BY DEF SnapshotOf
  <1> QED
    BY <1>1 DEF GenerateSnapshotsV2

\* Every step of the server is a step of Publication, or none.
LEMMA PublishStep ==
  ASSUME TypeOK, PublishInv, [Next]_vars
  PROVE  [Abstract!Next]_(Abstract!vars)
  <1>1. ASSUME UNCHANGED <<todo, cache>>
        PROVE  [Abstract!Next]_(Abstract!vars)
    BY <1>1 DEF Abstract!Next, Abstract!vars, Abstract!Change
  <1>2. ASSUME Generate
        PROVE  Abstract!Copy
    <2>1. /\ todo' = GenerateSnapshotsV2
          /\ UNCHANGED <<ClusterConfigs, EndpointConfigs, placed, used, cache>>
      BY <1>2 DEF Generate, controllers, routing, pushed
    <2>2. \A n \in Nodes : SnapshotOf(n)' = SnapshotOf(n) /\ HasResources(n)' = HasResources(n)
      BY <2>1 DEF HasResources, SnapshotOf, edsEndpointNames
    <2> QED
      BY <2>1, <2>2, GeneratedIsConfig DEF Abstract!Copy
  <1>3. ASSUME NEW s \in todo, KeepPrevious(s) \/ Push(s) \/ PushFails(s)
        PROVE  Abstract!Next
    <2>1. /\ s.node \in Nodes
          /\ UNCHANGED <<ClusterConfigs, EndpointConfigs, placed, used>>
      BY <1>3 DEF KeepPrevious, Push, PushFails, controllers, routing, TypeOK, Snapshot
    <2>2. \A n \in Nodes : SnapshotOf(n)' = SnapshotOf(n) /\ HasResources(n)' = HasResources(n)
      BY <2>1 DEF HasResources, SnapshotOf, edsEndpointNames
    <2>3. {t \in todo : t.node = s.node} = {s}
      BY DEF PublishInv
    <2>4. consistent(s) => HoldsReferences(s)
      BY DEF consistent, HoldsReferences
    <2>5. todo' = todo \ {s} =>
            [n \in Nodes |-> {t \in todo : t.node = n}]'
              = [n \in Nodes |-> IF n \in {s.node} THEN {} ELSE {t \in todo : t.node = n}]
      BY <2>3
    <2>6. CASE todo' = todo \ {s} /\ UNCHANGED cache
      <3>1. Abstract!Skip({s.node})
        BY <2>2, <2>5, <2>6 DEF Abstract!Skip
      <3> QED
        BY <2>1, <3>1 DEF Abstract!Next
    <2>7. CASE /\ consistent(s) /\ cache[s.node] # {s}
               /\ cache' = [cache EXCEPT ![s.node] = {s}]
               /\ todo' = todo \ {s} \/ todo' = {}
      <3>1. CASE todo' = todo \ {s}
        <4>1. Abstract!Give(s.node, {})
          BY <2>1, <2>2, <2>3, <2>4, <2>5, <2>7, <3>1 DEF Abstract!Give
        <4> QED
          BY <2>1, <4>1 DEF Abstract!Next
      <3>2. CASE todo' = {}
        <4>1. Abstract!Give(s.node, Nodes)
          BY <2>1, <2>2, <2>3, <2>4, <2>7, <3>2 DEF Abstract!Give
        <4> QED
          BY <2>1, <4>1 DEF Abstract!Next
      <3> QED
        BY <2>7, <3>1, <3>2
    <2>8. \/ todo' = todo \ {s} /\ UNCHANGED cache
          \/ /\ consistent(s) /\ cache[s.node] # {s}
             /\ cache' = [cache EXCEPT ![s.node] = {s}]
             /\ todo' = todo \ {s} \/ todo' = {}
      BY <1>3 DEF KeepPrevious, Push, PushFails, PublishInv, VersionsMatch, pushed
    <2> QED
      BY <2>6, <2>7, <2>8
  <1>4. ASSUME Controllers
        PROVE  UNCHANGED <<todo, cache>>
    BY <1>4 DEF Controllers, Beside, tick, pushed
  <1>5. ASSUME NEW n \in Nodes, NEW routes, NEW uses, RoutingChange(n, routes, uses)
        PROVE  UNCHANGED <<todo, cache>>
    BY <1>5 DEF RoutingChange, tick, pushed
  <1>6. ASSUME ServerStart \/ Tick \/ TickEnd
        PROVE  UNCHANGED <<todo, cache>>
    BY <1>6 DEF ServerStart, Tick, TickEnd, pushed
  <1>7. ASSUME UNCHANGED vars
        PROVE  UNCHANGED <<todo, cache>>
    BY <1>7 DEF vars, tick, pushed
  <1> QED
    BY <1>1, <1>2, <1>3, <1>4, <1>5, <1>6, <1>7 DEF Next, Server, ServerRuns, Handle, Abstract!Next

\* The server implements Publication, for any config, with any number of edits
\* and failed pushes, whenever it starts: a node only ever moves to its part of
\* one copy of the whole config, closed under references, or stays on what it
\* has.
THEOREM ServerPublishes == Safe => Publishes
  <1>1. Init => Abstract!Init /\ PublishInv
    BY DEF Init, Abstract!Init, PublishInv, VersionsMatch
  <1>2. TypeOK /\ PublishInv /\ [Next]_vars => PublishInv'
    BY PublishInvStep
  <1>3. TypeOK /\ PublishInv /\ [Next]_vars => [Abstract!Next]_(Abstract!vars)
    BY PublishStep
  <1> QED
    BY <1>1, <1>2, <1>3, ServerTypeCorrect, PTL DEF Safe, Publishes, Abstract!Spec

=============================================================================
