----------------------------- MODULE SnapshotServer -----------------------------
(***************************************************************************)
(* The xDS server: from the config maps the controllers fill to the        *)
(* snapshot cache Envoy is answered from.                                  *)
(*                                                                         *)
(* Every tick of the server compares the config change counter with the    *)
(* one it processed last, builds one snapshot per node under the read      *)
(* lock, keeps nodes whose snapshot is inconsistent on their last one, and *)
(* stores the others if their version (a hash of the content) is new.      *)
(* Controllers go on changing the config between those steps.              *)
(*                                                                         *)
(* CDS and EDS are those of ClusterEndpoint.  What RDS and LDS leave in    *)
(* the config (see ListenerSync) is, per node, the set of route            *)
(* configurations and the set of those the listeners use.                  *)
(***************************************************************************)
EXTENDS ClusterEndpoint

CONSTANTS
    RouteNames,   \* names of route configurations
    MaxEarly,     \* bound: edits before the server's loop starts
    MaxFails      \* bound: pushes that fail

ASSUME ServerAssumption == MaxEarly \in Nat /\ MaxFails \in Nat

VARIABLES
    placed,             \* RouteConfigs: node -> names of the placed routes
    used,               \* ListenerConfigs: node -> routes the listeners use
    started,            \* has the server's loop started?
    first,              \* the counter it started from (history variable)
    lastProcessed,      \* lastProcessedCounter
    pc,                 \* where a tick is: "idle", "generate" or "push"
    current,            \* currentCounter of the tick
    todo,               \* snapshots of the tick still to be handled
    failed,             \* did the tick meet an inconsistent snapshot?
    snapVersions,       \* node -> version last pushed (here: the content)
    cache,              \* node -> snapshot in the cache Envoy is answered from
    snapshotGenerated,  \* ReconciliationStatus.snapshotGenerated
    fails               \* number of failed pushes so far

routing == <<placed, used>>
tick == <<lastProcessed, pc, current, todo, failed>>
pushed == <<snapVersions, cache, snapshotGenerated>>
loop == <<started, first>>
vars == <<controllers, routing, loop, tick, pushed, fails>>

Snapshot == [node: Nodes, clusters: SUBSET ClusterEntry, endpoints: SUBSET EndpointEntry,
             routes: SUBSET RouteNames, used: SUBSET RouteNames]

-----------------------------------------------------------------------------
(* GenerateSnapshotsV2 *)

\* getResourcesFromEndpointConfigs: services of the EDS clusters of any node.
edsEndpointNames == UNION {c.eds : c \in ClusterConfigs}

\* The node's resources, without the routes no listener uses.
SnapshotOf(n) ==
    [node |-> n,
     clusters |-> {c \in ClusterConfigs : c.node = n},
     endpoints |-> {e \in EndpointConfigs : e.node = n /\ e.service \in edsEndpointNames},
     routes |-> placed[n] \intersect used[n],
     used |-> used[n]]

\* A node has a snapshot only while the config holds some resource for it.
HasResources(n) ==
    \/ SnapshotOf(n).clusters # {}
    \/ SnapshotOf(n).endpoints # {}
    \/ placed[n] # {}
    \/ used[n] # {}

\* Mutant of consistent: only the routes are compared.
consistentRoutes(s) == s.routes = s.used

\* consistent: what the clusters and the listeners name is there, and no more.
consistent(s) ==
    /\ {e.service : e \in s.endpoints} = UNION {c.eds : c \in s.clusters}
    /\ s.routes = s.used

GenerateSnapshotsV2 == {SnapshotOf(n) : n \in {m \in Nodes : HasResources(m)}}

-----------------------------------------------------------------------------
(* RDS and LDS, and CDS and EDS, beside the server. *)

\* app.Run starts the server and the controllers side by side: either may be first.
Early == ~started => edits' <= MaxEarly

RoutingChange(n, routes, uses) ==
    /\ edits < MaxEdits
    /\ edits' = edits + 1
    /\ Early
    /\ <<routes, uses>> # <<placed[n], used[n]>>
    /\ routes = placed[n] \/ uses = used[n]
    /\ placed' = [placed EXCEPT ![n] = routes]
    /\ used' = [used EXCEPT ![n] = uses]
    /\ counter' = counter + 1
    /\ reconciled' = FALSE
    /\ UNCHANGED <<apiClusters, apiEndpoints, cdsQueue, edsQueue, ClusterConfigs,
                   EndpointConfigs, loop, tick, pushed, fails>>

\* Steps of ClusterEndpoint leave the server alone.
Beside(A) == A /\ Early /\ UNCHANGED <<routing, loop, tick, pushed, fails>>

Controllers == Beside(ControllersNext)

-----------------------------------------------------------------------------
(* ServerConfig.Start *)

\* Mutant of ServerStart: start one behind, so that the first tick has work.
ServerStartsBehind ==
    /\ ~started
    /\ started' = TRUE
    /\ lastProcessed' = counter - 1
    /\ first' = counter - 1
    /\ UNCHANGED <<controllers, routing, pc, current, todo, failed, pushed, fails>>

\* The loop starts by taking the counter as it is, also when app.Run has let the
\* controllers change the config before.
ServerStart ==
    /\ ~started
    /\ started' = TRUE
    /\ first' = counter
    /\ lastProcessed' = counter
    /\ UNCHANGED <<controllers, routing, pc, current, todo, failed, pushed, fails>>

\* A tick finds an open gate and a changed counter.
Tick ==
    /\ started
    /\ pc = "idle"
    /\ reconciled
    /\ counter # lastProcessed
    /\ current' = counter
    /\ pc' = "generate"
    /\ UNCHANGED <<controllers, routing, loop, lastProcessed, todo, failed, pushed, fails>>

\* processSnapshot copies the config under the read lock.
Generate ==
    /\ pc = "generate"
    /\ todo' = GenerateSnapshotsV2
    /\ failed' = FALSE
    /\ pc' = "push"
    /\ UNCHANGED <<controllers, routing, loop, lastProcessed, current, pushed, fails>>

\* Mutant of KeepPrevious: the node's snapshot is cleared.
ClearPrevious(s) ==
    /\ pc = "push"
    /\ s \in todo
    /\ ~consistent(s)
    /\ todo' = todo \ {s}
    /\ failed' = TRUE
    /\ cache' = [cache EXCEPT ![s.node] = {}]
    /\ UNCHANGED <<controllers, routing, loop, lastProcessed, pc, current, snapVersions,
                   snapshotGenerated, fails>>

\* An inconsistent snapshot keeps the node on its last one.
KeepPrevious(s) ==
    /\ pc = "push"
    /\ s \in todo
    /\ ~consistent(s)
    /\ todo' = todo \ {s}
    /\ failed' = TRUE
    /\ UNCHANGED <<controllers, routing, loop, lastProcessed, pc, current, pushed, fails>>

\* isSnapToUpdate and, for a new version, SetSnapshot.
Push(s) ==
    /\ pc = "push"
    /\ s \in todo
    /\ consistent(s)
    /\ todo' = todo \ {s}
    /\ IF snapVersions[s.node] # {s}
       THEN /\ snapVersions' = [snapVersions EXCEPT ![s.node] = {s}]
            /\ cache' = [cache EXCEPT ![s.node] = {s}]
       ELSE UNCHANGED <<snapVersions, cache>>
    /\ snapshotGenerated' = TRUE
    /\ UNCHANGED <<controllers, routing, loop, lastProcessed, pc, current, failed, fails>>

\* SetSnapshot stores the snapshot and fails when it answers a watch: the rest
\* of the tick is dropped.
PushFails(s) ==
    /\ pc = "push"
    /\ s \in todo
    /\ consistent(s)
    /\ snapVersions[s.node] # {s}
    /\ fails < MaxFails
    /\ fails' = fails + 1
    /\ snapVersions' = [snapVersions EXCEPT ![s.node] = {s}]
    /\ cache' = [cache EXCEPT ![s.node] = {s}]
    /\ todo' = {}
    /\ failed' = TRUE
    /\ UNCHANGED <<controllers, routing, loop, lastProcessed, pc, current,
                   snapshotGenerated>>

\* Mutant of TickEnd: the counter is read again at the end of the tick.
TickEndRereads ==
    /\ pc = "push"
    /\ todo = {}
    /\ lastProcessed' = IF failed THEN lastProcessed ELSE counter
    /\ pc' = "idle"
    /\ UNCHANGED <<controllers, routing, loop, current, todo, failed, pushed, fails>>

\* Mutant of TickEnd: the counter is taken over although the tick failed.
TickEndAlways ==
    /\ pc = "push"
    /\ todo = {}
    /\ lastProcessed' = current
    /\ pc' = "idle"
    /\ UNCHANGED <<controllers, routing, loop, current, todo, failed, pushed, fails>>

\* Only a tick without an error takes over the counter it started from.
TickEnd ==
    /\ pc = "push"
    /\ todo = {}
    /\ lastProcessed' = IF failed THEN lastProcessed ELSE current
    /\ pc' = "idle"
    /\ UNCHANGED <<controllers, routing, loop, current, todo, failed, pushed, fails>>

-----------------------------------------------------------------------------

Init ==
    /\ ControllersInit
    /\ placed = [n \in Nodes |-> {}]
    /\ used = [n \in Nodes |-> {}]
    /\ started = FALSE
    /\ first = 0
    /\ lastProcessed = 0
    /\ pc = "idle"
    /\ current = 0
    /\ todo = {}
    /\ failed = FALSE
    /\ snapVersions = [n \in Nodes |-> {}]
    /\ cache = [n \in Nodes |-> {}]
    /\ snapshotGenerated = FALSE
    /\ fails = 0

Handle == \E s \in todo : KeepPrevious(s) \/ Push(s)
ServerRuns == ServerStart \/ Generate \/ Handle \/ TickEnd
Server == Tick \/ ServerRuns

Next ==
    \/ Controllers
    \/ \E n \in Nodes, routes, uses \in SUBSET RouteNames : RoutingChange(n, routes, uses)
    \/ Server
    \/ \E s \in todo : PushFails(s)

Safe == Init /\ [][Next]_vars

\* The server ticks, queued objects that convert are reconciled, and the done
\* goroutines end.  An object that never converts closes its flag for a second
\* on every retry; retries back off up to minutes, so that all flags are open
\* together again and again, and the server gets its turn.
Fairness ==
    /\ SF_vars(Tick) /\ WF_vars(ServerRuns)
    /\ WF_vars(Beside(CdsStep)) /\ WF_vars(Beside(EdsStep))
    /\ WF_vars(Beside(Done))
    /\ []<>reconciled

Spec == Safe /\ Fairness

-----------------------------------------------------------------------------
(* Properties *)

\* Every variable has its type: the counter last processed is one the config had.
TypeOK ==
    /\ ControllersTypeOK
    /\ placed \in [Nodes -> SUBSET RouteNames]
    /\ used \in [Nodes -> SUBSET RouteNames]
    /\ started \in BOOLEAN
    /\ first \in Nat
    /\ lastProcessed \in Nat
    /\ pc \in {"idle", "generate", "push"}
    /\ current \in Nat
    /\ todo \subseteq Snapshot
    /\ failed \in BOOLEAN
    /\ snapVersions \in [Nodes -> SUBSET Snapshot]
    /\ cache \in [Nodes -> SUBSET Snapshot]
    /\ snapshotGenerated \in BOOLEAN
    /\ fails \in Nat

\* The config has changed since the server's loop took its first counter.  What the
\* controllers stored before is taken for processed and not pushed until then.
ChangedSinceStart == started /\ counter # first

\* When the server sees nothing left to process, and it has had something to
\* process, the cache shows the config as it is now: no change slips in between
\* reading the counter and copying the maps, a failed push is repeated, the version
\* filter hides nothing, and the first change brings along all that was there
\* before the loop started.
ServedIsCurrent ==
    ChangedSinceStart /\ lastProcessed = counter =>
        \A n \in Nodes : HasResources(n) => cache[n] = {SnapshotOf(n)}

\* A snapshot holds what its clusters and listeners refer to.
HoldsReferences(s) ==
    /\ \A c \in s.clusters : c.eds \subseteq {e.service : e \in s.endpoints}
    /\ s.used \subseteq s.routes

\* Envoy is never answered from a snapshot that names a load assignment or a
\* route configuration it does not hold.
CacheClosed == \A n \in Nodes : \A s \in cache[n] : HoldsReferences(s)

\* The cache as Publication sees it: todo is the copy of the config.
Abstract == INSTANCE Publication WITH
    Nodes <- Nodes,
    Closed <- HoldsReferences,
    config <- [n \in Nodes |-> IF HasResources(n) THEN {SnapshotOf(n)} ELSE {}],
    copy <- [n \in Nodes |-> {s \in todo : s.node = n}],
    published <- cache

\* The server implements Publication: whatever ticks, failures and controllers
\* do, a node only ever moves to its part of one copy of the whole config, or
\* stays where it is, also if it lost its last resource.
Publishes == Abstract!Spec

NodeServed(n) == HasResources(n) /\ consistent(SnapshotOf(n)) => cache[n] = {SnapshotOf(n)}

\* Once the edits stop, every node whose resources fit together is served
\* them, also while another node's never do, provided that the config has changed
\* since the server's loop started.
Delivered == <>[](ChangedSinceStart => \A n \in Nodes : NodeServed(n))

=============================================================================
