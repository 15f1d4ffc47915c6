# xds-controller: a TLA+ verification project

xds-controller is a Kubernetes operator that serves Envoy over xDS.  Custom
resources (Listener, Route, Cluster, Endpoint, TLSSecret) are turned into
per-node snapshots; a leader among the replicas orders certificates.  This
directory holds TLA+ models of its core, TLC configurations that check them on
small instances, and TLAPS proofs that lift the main safety properties to every
instance.

    tlc -workers 2 -config ListenerSync.cfg MCListenerSync    # a run
    tlapm ListenerSyncProofs.tla                              # a proof

`PROJECT.json` lists components, runs, mutants, the map from definitions to
source lines, findings, hazards and theorems.


## 1. The system

| Component | Source | State | Operations |
|---|---|---|---|
| Route controller (RDS) | controllers/rds/route_controller.go | Config.RouteConfigs, losers, reconciling counter | Reconcile: place, unplace, reject or evict; notifyListeners; requeueLosers |
| Listener controller (LDS) | controllers/lds/listener_controller.go | Config.ListenerConfigs, chain cache, reconciling counter | Reconcile: wait, take the token, read, build, store, clear the token |
| Cluster controller (CDS) | controllers/cds/cluster_controller.go | Config.ClusterConfigs | Reconcile, mergeEndpointRefs, watch on Endpoints |
| Endpoint controller (EDS) | controllers/eds/endpoint_controller.go | Config.EndpointConfigs | Reconcile |
| TLSSecret controller (SDS) | controllers/sds/*.go | Config.SecretConfigs, status and annotations of the TLSSecret | Reconcile, GetSecret/makeSecret, updateTLSSecretStatus, clearForceRenew |
| ACME and certificate store | pkg/xds/sds.go | Vault, Kubernetes Secrets or files | StorageConfigRead/Write, CertGetter.Get |
| Reconciliation status | pkg/status/status.go | has/reconciled/initialized flags, pendingListeners, snapshotGenerated | setters, AllReconciled, MarkListenerPending, ClearListenerPending |
| Snapshot generation | pkg/xds/xds.go | the config maps and the change counter | GenerateSnapshotsV2, consistent |
| xDS server | pkg/serv/serv.go | lastProcessedCounter, snapVersions, snapshot cache | the tick loop, processSnapshot, isSnapToUpdate |
| Leader election | pkg/leader/leader.go, pkg/app/app.go | isLeader, initialElectionDone, the Lease | tick, ReleaseLeadership |
| Filter chain matching | pkg/xds/fcm/fcm.go | the Set of one listener build | Compile, Compare, Add, HasDuplicate |
| Application set-up | pkg/app | none | Run, set-up of controllers, probes |
| Metrics and callbacks | pkg/serv/callbacks.go, pkg/xds/xdsMetrics.go | xds.Streams, xds.Snapshots, gauges | stream callbacks, AddSnapshot, CleanSnapshots, VersionMatch |
| Object status | the four controllers, apis/v1alpha1 | status of Route, Listener, Cluster, Endpoint | update*Status, *StatusEqual |
| Node identifiers | controllers/util/util.go | none | annotation parsing, GetNodeID, GetNodeInfo, OlderRoute |
| Route audit tool | cmd/route-audit | none | audit: replay the placement from manifests |
| API types, type generators | apis, pkg/xds/types, tools/typegen | none | generated structs and their DeepCopy |

How they interact.  Every controller runs its own worker beside the others.  They share the
config maps under one RW lock and bump the change counter.  RDS tells LDS which
listeners to rebuild (a pending mark with a sequence number, and an event);
LDS in turn waits until RDS and SDS have reconciled.  CDS watches Endpoints.
The server polls the counter, waits for AllReconciled, copies the maps into
snapshots and stores the consistent ones in the go-control-plane cache.  The
leader flag decides who may order certificates.  Replicas meet only in
Kubernetes: the Lease, the status of the objects, the certificate store.

What is hard here:

- *Interleavings.*  LDS reads, builds and stores under separate locks while RDS
  places Routes; the server reads the counter before it copies the maps;
  replicas write the same status.
- *Order and timeouts.*  "Done" goroutines lower a counter one second after
  the end of a reconcile, or at its timeout while it still runs; init runnables
  race the first reconciles.
- *Failures.*  API reads, pushes, renewals, orders, writes and status updates
  fail one by one, also after they took effect; replicas crash or release the
  lease half way.
- *Coming back.*  Losers of a conflict, listeners that wait, failed orders and
  failed pushes all rely on somebody queueing them again.

What makes each component correct, and the property that says so:

| Component | Correct if | Property |
|---|---|---|
| RDS/LDS hand-over | no outdated listener is forgotten | NoLostRebuild |
| pending marks | no mark outlives the rebuild that can clear it | PendingIsOwed |
| the gate AllReconciled | behind an open gate, only a listener RDS is about to mark has outdated chains (section 5, *Publish window*); the gate opens in the end | GateMatchesRoutes, Converges |
| conflicts | conflicting chains are never served together; the oldest Route is served; it comes to rest | NoConflictServed, OldestServed, Settles |
| CDS | merged endpoints follow their Endpoints | ClustersCurrent |
| EDS | no load assignment outlives its Endpoint | EndpointsCurrent |
| server | no change since its start is missed, and the first brings along what was there before; nothing dangling is served; one bad node does not stop the rest | ServedIsCurrent, CacheClosed, Delivered |
| server, as Envoy sees it | a node gets whole, closed parts of one copy of the config, never older ones, and is never cleared | Publishes |
| status | a status names the generation it was computed from, ends up true, and the writing stops | HonestStatus, StatusSettles, WritesStop |
| streams | a watch is under the id the snapshot is stored under (but for the streams of section 5, *Encoded twice*); tables and series do not pile up; the match gauge is right | WatchUnderOwnNode, LeaksOnlyUnanswered, LoneMatchIsTrue |
| matching | no listener holds two chains Envoy files under one key; LDS builds what RDS places if its HCM converts; RDS settles on what route-audit predicts if both look on the same nodes | BuiltAcceptable, ServedIsBuilt, AuditAgrees |
| generated types | nesting ends; a deep copy shares no struct with the informer's cache | NestingEnds, CopiesShareOnlyPayloads |
| election | within TimingAssumption, one leader, which holds the lease; a leader in the end | AtMostOneLeader, LeaderHoldsLease, LeaderEmerges |
| SDS | Envoy keeps its certificate; requests and backoffs are kept; renewal happens | KeepsServing, LoneKeepsRequests, LoneAttemptsWait, Renews |


## 2. The modules

**ListenerSync** (RDS, LDS, ReconciliationStatus).  One node; a Route is its
generation, the listeners it refers to, whether it converts, and `rev`, which
names its content.  RDS is `RdsStart` (Get), `RdsPlace` (under the config lock:
place, keep or remove, and compute the listeners to notify), `RdsAnnounce` (the
LDS flag is lowered), `RdsNotify` (mark pending and send the event, one listener
at a time) and `RdsFinish`.  LDS is `LdsWait` (requeue while RDS or SDS are
busy), `LdsStart` (token and Get), `LdsRead` (the placed Routes, under the read
lock) and `LdsFinish` (store, status, clear the mark if its number is the one
taken).  `Wake` and `SetReconciled` are the two halves of the done goroutine,
`RdsTimeout`/`LdsTimeout` the 30 s context, `InitRoutes`/`InitListeners` the
runnables of SetupWithManager.  SDS takes part with its reconciled flag only.

**RouteConflicts** (RDS).  Any number of nodes, Routes that all refer to one
Listener.  `Clash` is any symmetric relation on matches: the outcome of
fcm.Compare and of overlapping virtual hosts.  A reconcile is `Start`, one of
`Unplace`, `KeepLast`, `RejectStatic`, `RejectYounger`, `Win`, then `Evict` and
`Place` one Route and one node at a time, and `Finish` (the deferred
requeueLosers).

**ClusterEndpoint** (CDS, EDS).  Both hold the write lock during the whole
Reconcile, so one reconcile is one action.  Clusters are static, EDS, or merged
from any number of endpoint_refs, with or without a load_assignment of their own.

**SnapshotServer** composes ClusterEndpoint with the server.  `RoutingChange`
stands for what RDS and LDS leave in the maps.  A tick is `Tick` (read the
counter), `Generate`, then `KeepPrevious`, `Push` or `PushFails` per node, and
`TickEnd`.  The server's loop may start (`ServerStart`) before or after the
first changes.  A version hash is the content itself, so hash collisions are
excluded.

**Publication** is what the server promises, without counter, gate, versions and
failures: the config of all nodes is copied at one instant (`Copy`), and each
node is given its part of the copy if that is closed under references (`Give`)
or stays on what it has (`Skip`).  SnapshotServer instantiates it as `Abstract`
with `config` mapped to what GenerateSnapshotsV2 would return now, `copy` to
the snapshots the tick has still to handle, and `published` to the cache;
`Publishes` says that SnapshotServer implements it.

**ObjectStatus** (the status writes of RDS, LDS, CDS and EDS).  One object of any
kind, with its spec (moves the generation), its node annotation (does not) and
what it depends on.  Each replica has an informer some versions behind, a work
queue and a worker.  `Reconcile` computes the outcome in the order of the
controller's checks; `AlreadyWritten`, `WriteStatus`, `Conflict` and `WriteFails`
are the attempts of RetryOnConflict; every stored version, status writes
included, comes back through `Deliver`.

**StreamCallbacks** (pkg/serv/callbacks.go, pkg/xds/xdsMetrics.go, processSnapshot
again, for the tables it keeps).  A node id is the number of times it has been
encoded.  Requests, answers, responses and closing of streams run beside
`Begin`, `SetSnapshot`, `AddSnapshot`, `SkipNode` and `End`.  A stream may name
its node in every request or in the first only (`NodeOnce`: all its requests then
share one Node object, which the callbacks encode and decode in place).  Requests
come at any time: `OnStreamRequest` has no guard but an open stream, and replaces
the watch and the unsent answer of its type.  `ahead` is a history variable: the
NodeOnce streams that sent a request before the answer to another.

**FilterChainMatch** (pkg/xds/fcm) holds Compile, Compare and Set as operators.  A
name is the sequence of its labels and an address a sequence of bits, so that
case, wildcards, trailing dots, clamped prefix lengths and masked addresses are
what they are in the code.  `Filed` is Envoy's side: the keys a chain is filed
under.  It does not use Compile: `EnvoyName`, `EnvoyRange` and `EnvoyValues` say
for themselves what becomes of case, wildcards, over-long prefixes, bits outside
the mask and unset fields (an address keeps its length and its cleared bits, where
fcm cuts it), written down from the comments of the package on Envoy.

**ChainPlacement** puts the three users of fcm beside each other: `Reconcile` (RDS,
with isListenerExists as it is written), `Build` (the listener build of LDS) and
`Audit` (cmd/route-audit), for Routes on several nodes and Listeners.  The
route_config of every Route converts, which RDS looks at; its HCM (`hcm`), which
only LDS converts, may not, and then LDS skips the Route.  A
reconcile of RDS is one step; RouteConflicts has its steps apart.

**TypeGraph, EdsTypes, LdsTypes, RdsTypes, CdsTypes, HcmTypes, GeneratedTypes**
(pkg/xds/types, tools/typegen).  The `*Types` modules list every generated
struct as its references by form (`*T`, `[]*T`, `map[string]*T`), which is what
DeepCopyInto tells apart.  TypeGraph says
what the DeepCopy code of writeDeepCopyField leaves shared.  GeneratedTypes
walks down a resource beside its copy.

**LeaderElection** (pkg/leader).  A Lease with a resourceVersion check on
updates and none on delete; a tick is a read (`TickGet`) and at most one call
(`CallSucceeds`, `CallRejected`, `CallFails`, whose effect may or may not have
taken place).  Shutdown, release, crash and restart under the same name.  Time
is kept as ages on one common clock.  That calls end within CallTime and that no
more than MaxMisses reads fail in a row is assumed: the code has neither a client
timeout (leader.go:102) nor a limit on failed reads (leader.go:182).

**TLSSecretRenewal** (SDS, the store and the CA).  One TLSSecret shared by one or
two replicas.  A reconcile is a chain of calls (`Begin`, `Read...`, `Order...`,
`Write...`, `Patch`, `Serve`, `Record`) and other replicas, the operator and the
leader election act between any two.  Certificates are numbered in the order of
issue; force-renew requests have distinct values.  A status that equals the
stored one but for the backoff may be left unwritten (`tlsSecretStatusEqual`).

The `MC*` modules extend these with the definitions the cfg files need;
the `*Proofs` modules hold the theorems.  In every module a `Mutant of X`
comment marks an operator that changes X the way a plausible bug would.  It is
not part of the specification: it is there to show that the property can fail.


## 3. The runs

Every bound is a CONSTANT.

| Run | Instance | Result |
|---|---|---|
| ListenerSync | 2 Routes, 2 Listeners (one with chains of its own), 1 edit, 1 failure | holds |
| ListenerSyncLive | 1 Route, 1 Listener, 1 edit, 2 failures | Converges holds |
| RouteConflicts | 3 Routes, 2 nodes, a wildcard and two names, 2 edits | holds |
| SnapshotServer | 2 nodes, 1 Cluster, 1 Endpoint, 1 route, 3 edits, of which 1 may precede the start of the loop, 1 failed push | holds, Publishes included |
| EndpointLeak | 1 node, an Endpoint with a cluster_name of its own | EndpointsCurrent violated (finding 1) |
| LeaderElection | 3 replicas, 3 faults, within TimingAssumption | holds |
| TLSSecretRenewal | 1 replica with 3 edits, or 2 with 1; 2 failed calls | holds |
| ForceRenewDropped | 1 replica | NeverDropsRequest violated (finding 2) |
| ObjectStatus | each kind, 2 replicas, 2 nodes, 2 attempts per write, 1 edit, 1 failed write or restart | holds |
| StreamCallbacks | 2 nodes, 2 of 4 streams opened, 2 of them sharing a Node object, ids encoded twice at most, 2 versions | holds |
| ChainPlacement | 3 Routes of 10 kinds, 2 nodes, 3 Listeners (one missing), 3 sets of static chains | holds |
| GeneratedTypes | all generated structs | holds |

Why the bounds are enough to be interesting.  *ListenerSync*: the edit comes at
any point of the start-up, so a rebuild, a placement and the edit overlap; two
Routes on two Listeners make a Route that leaves one for the other.  The proofs
cover all sizes.  *RouteConflicts*: with a wildcard the clash relation is not
transitive, so that the fall of one Route frees two others; creation times may
be equal.  *SnapshotServer*: one of two nodes may be inconsistent for good.
*LeaderElection*: the durations are the shipped ones in units of RetryPeriod
(2 s): lease 7 (15 s, rounded down), deadline 5, shutdown 5; with three
replicas two compete for the lease that a third releases or lets expire.  One failed read in a row is
assumed (MaxMisses = 1).  With two, a releasing replica can wait long enough for
its unconditional Delete to hit the lease of its successor; `TimingAssumption`
says what the safety of the election rests on (section 4).  *TLSSecretRenewal*: the multiplier takes the second delay past
the cap; three edits are enough for a request, a pause and a leader change, or
a deletion and a recreation.  *ObjectStatus*: two replicas are enough for one to
write over the other from an older cache; the one edit comes at any point, and
two attempts make a write that gives up possible.  *StreamCallbacks*: one node
with a single stream, where the gauge is unambiguous, and one whose streams
share entries, a delta stream among them; an id encoded twice shows what encoding
it over itself does, and further levels only repeat it; two versions make a push between a response and its predecessor.
*ChainPlacement*: the kinds of match are chosen so that each way to share a key
occurs: equal after lower-casing, one key of several, masked to the same range,
a wildcard that covers a name, a name with a trailing dot, a list that holds a
key twice; one Route has an HCM that does not convert, and two name the missing
Listener first, of which one is on the default node, where RDS and the audit do
not look for it on the same nodes; the Listeners' own chains clash with Routes, with each other, or are
invalid; all assignments to three Routes and all orders are tried.
*GeneratedTypes* has no bound: it is the code's own tables.

Deadlock is checked in the election runs, which never stop.  The others stop
legitimately when edits and failures are used up and everything has settled.

### Fairness

- ListenerSync, RouteConflicts: the manager's workers, the init runnables and
  the done goroutines go on (WF).  Failed reads are requeued by
  controller-runtime, and only finitely many are allowed, or strong fairness of
  the decision says that a read succeeds in the end.  LdsWait needs none.
- SnapshotServer: WF of the tick's steps and of reconciles of objects that
  convert.  An object that never converts closes its reconciled flag on every
  retry; the retries back off, so that all flags are open together infinitely
  often, and SF of Tick uses those moments.
- LeaderElection: time passes, replicas tick within RetryPeriod (the ticker), the
  Deployment restarts what is down.  That a call returns within CallTime is an
  assumption on the API server and the network: the client has no timeout and the
  calls carry no deadline.
- ObjectStatus: informers deliver, the manager's workers reconcile, calls return
  (WF of each).  Failed writes and restarts are not fair and bounded by MaxFails.
- TLSSecretRenewal: time passes, and each replica continues its reconciles:
  every return of Reconcile carries a RequeueAfter, or an event follows.

No fairness is assumed of edits, of failures, or of any particular order.


## 4. The proofs

Theorems speak of `Safe`, the specification without fairness, or of `Spec` where
fairness does not matter or is not stated (ObjectStatus, StreamCallbacks,
ChainPlacement).  They hold for every value of the constants under the named
ASSUME of the module, which TLC evaluates in the runs.

**ListenerSyncProofs**, assuming CoalescedRecreate = FALSE (with TRUE the first
property is false, section 5): TypeOK, NoLostRebuild, PendingIsOwed,
GateMatchesRoutes, which excepts the listeners RDS has placed a Route of and not
yet marked (section 5, *Publish window*).  None is inductive alone.  IInv adds: GenerationsIdentify
(stored, read and current versions of a Route are ordered and told apart by
generation, so that placement.same skips a notification only if nothing
changed); StaleIsOwed and StaleRebuildIsFollowed (an outdated listener, or a
rebuild from outdated state, has another rebuild coming); TokensBounded,
StaleIsPending and StaleRebuildHoldsOldToken (outdated chains are marked with a
number newer than any rebuild's that would store them); CountersBalance (the
reconciling counter is the running worker plus the sleeping goroutines, so it
never goes negative).

**SnapshotServerProofs**: TypeOK and ClustersCurrent unconditionally;
ServedIsCurrent and CacheClosed too, whether the loop starts before or after the
controllers' first changes (ServedIsCurrent speaks of the time from the first
change after the start on, section 5, *Late start*); EndpointsCurrent assuming
OwnNames (else finding 1).  The argument: a
controller step that leaves the counter alone leaves the config alone
(CountsChanges), so while the tick's counter is the present one, each node's
present snapshot is still to do, in the cache, or has made the tick fail
(TickCoversConfig).

ServerPublishes, in the same module, proves the refinement of Publication
without any of these assumptions: initial states map to initial states, and
every step of SnapshotServer maps to a step of Publication or to a stutter.  It
rests on PublishInv: a tick has at most one snapshot left to do per node, and
the version recorded for a node is that of what the cache holds (VersionsMatch),
so that a push moves one node to its part of the copy and is not one that
changes nothing.

**RouteConflictsProofs**: TypeOK, NoConflictServed and OldestServed.  What
NoConflictServed lacks is EvictionCovers: between the decision and the last
placement, whoever conflicts with the winner on its nodes is still on the list
to evict.  OldestServed speaks of the moment when nothing is left to do;
SettledIsRight says it of each Route that is neither queued nor in the worker's
hands.  The step that needs thought is the end of a reconcile: a Route that
changes or goes may make others right or wrong, and all of these are queued by
requeueLosers or as evicted.  ReadIsCurrent and PlacedSoFar carry the decision
from the Get to the last node.

**LeaderElectionProofs**: TypeOK, LeaderHoldsLease and, from it,
AtMostOneLeader.  LeaseIsYoung is the core: the lease of an acting leader is no
older than its clock and its failed reads account for.  Timely bounds the
clocks, FreshIsRight says that a decision stays right until the lease changes
(which the resourceVersion check then detects), and ReleaseIsOwn keeps the
unconditional Delete of a release inside the lease it read.  The assumption
TimingAssumption makes the margins add up: the slower of a call and a
RetryPeriod, the failed reads in a row and then a call, or the whole shutdown,
fit into LeaseDuration.  The shipped values (15 s, retry 2 s, shutdown 10 s) do
for one failed read and calls of up to 3 s; they do not for two failed reads.
TimingAssumption is about the environment: the code enforces neither part of it
(section 5, *Failed reads and slow calls*).

**ObjectStatusProofs**: TypeOK, HonestStatus and NoBlindWrite, an action property:
a status is written only over the version in the writer's cache, by the
resourceVersion.  The invariant: what API server, caches and watches hold are
versions that there were (VersionsReal), what a worker is about to write is true
of the generation it read (WorkersHonest), and the last version on its way to a
replica is the present one (CachesCatchUp).  SettlesOnlyRight is the safety half
of StatusSettles: as soon as one replica has nothing queued, nothing in its
worker and nothing on its way, the status is Settled or that replica's last write
failed.  It needs WorkersFresh (a worker whose object was not enqueued again holds
what the replica would report now) and RestShown (who has nothing to do has a
newer version coming, shows what it would report, or lost a write); what another
replica wrote from an older cache is such a newer version.

**StreamCallbacksProofs**: TypeOK, WatchUnderOwnNode, which excepts delta streams
whose Envoy names its node once and streams with two requests of a type
unanswered (there the code encodes twice, section 5, *Encoded twice*).  It rests
on SharedIdRestored (a Node object that callbacks share is encoded exactly while a
request waits) and IdCoversPending (an id is encoded at least once for each
request that waits, so that every response finds something to decode); then
LeaksOnlyUnanswered (an answered stream is in the table by its name, so that its
closing finds the series) and LoneMatchIsTrue (ListedIsCached: the list names the
version in the cache or none).

**TLSSecretRenewalProofs**: TypeOK with the cap of DelayFor, and three action
properties.  KeepsServing needs InHand: a reconcile that has come to serving,
patching or storing has a certificate.  LoneAttemptsWait needs BackoffCovers: for
a single replica the backoff in the status covers what is owed, and is at most
what its count of failures gives; and its reconcile knows that count unless it
began with a new TLSSecret, so that a failure is never a status equal to the old
one, which would not be written.  That the delay never shrinks with one more failure
rests on the growth of the powers of the multiplier, proved by induction.
LoneKeepsRequests needs RequestsNumbered, CertificatesInOrder (the status shows
no newer certificate than the store, a reconcile holds none older than the
status) and RequestsAnswered.  The proof attempt also showed that the property
has to leave out manual challenges: there the reconcile that finishes a removal
may hold no certificate, because the store has lost it.

**ChainPlacementProofs**.  About fcm alone, for any well-formed matches:
Compare says "duplicate" exactly if Envoy files both chains under a common key
(DuplicateIsEnvoys).  Where Envoy files a match is described from the match as
written, apart from Compile, so that a slip in Compile's normalisation breaks the
theorem; the description is that of the package comments, not of Envoy's code.
And the index by server name finds a collision whenever
there is one (IndexComplete).  About the placement: TypeOK; PlacedTellApart, that
Envoy tells apart what RDS has placed on a node for one Listener, from the
Listener's own chains too; BuiltAcceptable, that LDS builds no listener Envoy
would reject; ServedIsBuilt, that LDS skips no Route RDS has placed unless its HCM does
not convert (section 5, *HCM that does not convert*).  PlacementInv
says of the placed Routes what fcm sees of them (PlacedApart, PlacedBesideStatic)
and that losers are younger than their winners; ServedIsBuilt follows because RDS
refuses what LDS would skip.  ConflictSymmetric proves what RouteConflicts assumes
of Clash: the verdict does not depend on which of two Routes is reconciled.

OrderDoesNotMatter is confluence: whatever the order of reconciles, evictions and
requeues, with an empty queue the placement is ByPrecedence, the one in which a
Route is on all its nodes unless a chain of a Listener or an older Route of that
same placement is in its way.  SettleInv adds to PlacementInv that Routes are
placed whole (ServedWhole), that at most one Route is the late manifest
(OneManifest), and the step that needs thought, LosersWait: who could be served
and is neither served nor queued is recorded as a loser of a Route that is queued,
or is served and in its way, so that no requeueLosers is missing.

AuditExact proves AuditAgrees from it.  The replay of the audit is a placement
ByPrecedence too (AuditByPrecedence, by induction over the replay), there is only
one such placement (PrecedenceUnique, by the oldest Route on which two would
differ), and applying a manifest does not move it in the order (AuditOrderStays).
The property speaks of the Specs and Listeners where NodesAgree, both look for
each Route on the same nodes, and is false without that: isListenerExists keeps the nodes of the Listener it found last when the
next one does not exist, and the audit does not (section 5, *Missing first
listener*).  AuditOnKnownListeners proves the agreement without it when the Listeners that
the Routes refer to exist.

Recursive functions (the listener build, the passes of isListenerExists, the
replay of the audit, powers)
are reasoned about by induction in the form of a least counterexample: the set of
the steps where a claim fails is empty, or has a least element (WFMin of the
library).  The same argument shows that the recursions have a solution and that a
finite set with a total order can be listed in that order.

Only model-checked: all liveness (Converges, Delivered, LeaderEmerges, Settles,
Renews, StatusSettles, WritesStop), which is beyond this prover; that a settled
state is the right one is proved (OldestServed, SettlesByPrecedence,
RestMeansSettled), that one is reached is not.  GeneratedTypes
has no constants: TLC checks all there is.  The two violations (section 5) are
TLC's.


## 5. Findings

Shown by a run:

1. *Leaked load assignment* (endpoint_controller.go:136).  It is stored under
   cluster_name and removed by the Endpoint's name.
2. *Dropped force-renew* (tlssecret_controller.go:242).  A failed attempt is
   recorded as the request acted on, and the next success removes the
   annotation without a new certificate.

Shown by the models with other constants or properties than the cfg files have:

- *Coalesced recreation* (route_controller.go:472).  A Route deleted and
  recreated before RDS reconciles the deletion has generation 1 and the same
  refs again; placement.same finds no change and the listeners keep the old
  Route's chains.  ListenerSyncLive.cfg with CoalescedRecreate = TRUE, MaxEdits = 2
  and INVARIANT NoLostRebuild.
- *Late init runnable* (status.go:136).  SetHas*(true) after the first reconciles
  resets a flag that nobody sets again; the gate stays closed until the next
  event.  ListenerSyncLive.cfg with LateInit = TRUE: Converges fails.
- *Publish window* (route_controller.go:147-164).  The done goroutine
  of a reconcile takes the counter down and then sets routesReconciled if it saw 0:
  the next reconcile may have placed a Route in between and not yet marked its
  listeners.  After the timeout it does so while its own reconcile still runs.
  Until the mark the gate is open, and the server may publish the listener as it
  was before the placement.
  GateMatchesRoutes therefore excepts these listeners; ListenerSync.cfg with the
  disjunct BeingAnnounced(l) removed: violated.
- *Late start* (serv.go:125).  The server's loop takes the counter it finds
  as processed.  The manager runs it beside the controllers (app.go:91), so
  what changed before is pushed only with the next change.  ServedIsCurrent speaks of the time
  from the first change after the start; SnapshotServer.cfg with its conjunct
  ChangedSinceStart removed: violated.
- *HCM that does not convert* (listener_controller.go:743-744, 782-787, 800-802).
  RDS converts the route_config only (route_controller.go:194).  A Route whose
  HttpConnectionManager does not convert is placed and reported active, keeps its
  place against younger Routes, and LDS builds the listener without it.
  ChainPlacement.cfg with the disjunct ~spec[r].hcm of ServedIsBuilt removed:
  violated.
- *Failed reads and slow calls* (leader.go:182-189, leader.go:102).  A leader whose
  reads of the lease fail acts on, however many fail, and its client has no
  timeout: two replicas may act as leader.  LeaderElection.cfg with two replicas,
  MaxMisses = 6, MaxFaults = 7 and without TimingAssumption: LeaderHoldsLease
  violated.
- *Encoded twice* (callbacks.go:116-117, 171-172).  An Envoy that names its node
  once on a stream of several types or a delta stream, or that sends two requests
  of a type before a response, has its id encoded twice: go-control-plane hands
  the callbacks the same Node object, and the second watch is under an id no
  snapshot has.  StreamCallbacks.cfg with WatchUnderOwnNode for all streams:
  violated.
- *RenewDeadline is not used* (leader.go:182): a leader whose reads of the lease
  fail acts on past it.  LeaderElection.cfg with two replicas, MaxMisses = 5,
  MaxFaults = 5 and INVARIANT GivesUpAtDeadline.
- *Lost backoff* (tlssecret_controller.go:360).  A follower's success that began
  before the leader's failure erases the backoff.  TLSSecretRenewal.cfg with
  PROPERTY AttemptsWait.
- *Missing first listener* (route_controller.go:702).  isListenerExists reuses one
  variable for all Gets and gives it the default annotations while it is empty.
  If the first listener_ref does not exist and the Route names the controller's
  default node, the empty Listener "matches", the loop ends before a later
  reference is looked up, and the Route is not served, or is placed on the
  default node without a listener if it has a second node.  route-audit, whose
  routeNodes "mirrors the controller" (cmd/route-audit/main.go:178), serves it.
  Such a Route is among the Specs, and AuditAgrees speaks of the cases where
  NodesAgree; ChainPlacement.cfg with that hypothesis removed: violated.

Seen on the way:

- clearForceRenew patches without a precondition and removes a newer request with
  the old one; a force-renew request on a missing certificate orders two; a
  manual TLSSecret without a certificate is published as an empty secret by the
  leader; a node that loses its last resource keeps its last snapshot.
- Only routeStatusEqual compares the message: a Listener, Cluster or Endpoint
  that goes from one error to another keeps the first message.
- A stream that closes before its first response, or with an id encoded twice, keeps its
  xds_envoy_stream_active series for good; with several streams on a node the
  version-match gauge is that of any one of them, and it is stale until the next
  response or pass.
- route-audit does not convert Routes, so it predicts as served some that RDS
  rejects, and orders several manifests not applied yet by name, not by the
  order they will be applied in.
- One message, several shapes (tools/typegen): StringMatcher in package hcm has
  only typed_config and ignore_case; ConfigSource in rds lacks ads, path and
  api_config_source; GrpcService differs too.  oneof alternatives are found by a
  pattern that needs braces on one line, with a fallback that depends on the
  order of a map.
- Map values and RawExtension bytes are shared by a deep copy (named_endpoints of
  Cluster and Endpoint); no controller writes to them.


## 6. Not modelled

- Other metrics, the fetch callbacks, logging, probes, flags, TLS to Vault, the
  ACME dialogue (lego's), the gRPC server and the snapshot cache
  (go-control-plane's).
- Conversion between CRD and Envoy types: an object converts or not.
- Deletion of objects in ObjectStatus (a deleted object has no status); conditions,
  which repeat the other fields.
- Several nodes in ListenerSync, the LDS chain cache, annotations with several
  nodes and clusters, wildcard node ids, secrets in snapshots, dry run, several
  TLSSecrets, and the watch on Kubernetes Secrets.
- Stale informer caches outside ObjectStatus: a Get reads the object as it is.
- The map race of processSnapshot's loop over xds.Streams.
- How tools/typegen fetches and parses Envoy's sources (network, build time), the
  enum constants and JSON names it writes; reading YAML in cmd/route-audit.


## 7. Left to do

- Composition of ListenerSync with SnapshotServer: ListenerConfigs instead of
  `used`, so that the gate and the cache are checked together; several nodes in
  ListenerSync.
- The liveness of section 3 for every value of the constants, with a prover that
  has ENABLED.
