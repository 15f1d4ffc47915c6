----------------------------- MODULE RouteConflicts -----------------------------
(***************************************************************************)
(* Conflicts between the filter chains of Routes, as the Route controller  *)
(* (RDS) settles them.                                                     *)
(*                                                                         *)
(* Envoy rejects a listener that holds two chains it cannot tell apart.    *)
(* RDS therefore serves a Route only if it clashes with no chain of the    *)
(* Listener itself and with no older Route, evicts the younger Routes it   *)
(* clashes with, and remembers who lost to whom, so that a loser is looked *)
(* at again whenever a winner is reconciled.                               *)
(*                                                                         *)
(* All Routes refer to one Listener, present on every node.  A Route is    *)
(* its age, its nodes, its match and whether it converts; Clash says which *)
(* matches conflict (fcm.Compare, and virtual hosts that overlap).  It     *)
(* need not be transitive: a wildcard clashes with two names that do not   *)
(* clash with each other.  A chain of the Listener clashes with a Route    *)
(* only if the two match the same connections.  The one worker of RDS      *)
(* shares the config with the listener builds and the xDS server, which    *)
(* see every step.  Its reads of the Listener are one step: a Listener     *)
(* that changes between them sends every Route back to the queue.          *)
(***************************************************************************)
EXTENDS Naturals, FiniteSets

CONSTANTS
    Routes,    \* Route names, ordered as the strings are
    Nodes,     \* Envoy nodes
    Spreads,   \* the sets of nodes a Route may be annotated with
    Matches,   \* filter chain matches, with the virtual hosts behind them
    Clash,     \* the pairs of matches that conflict
    Statics,   \* the sets of matches the Listener may define itself
    Starts,    \* the matches the Routes may start with: name -> match
    MaxEdits   \* bound: edits of the Kubernetes API

ASSUME ConflictAssumption ==
    /\ Routes \subseteq Nat
    /\ Routes # {}
    /\ Spreads \subseteq (SUBSET Nodes) \ {{}}
    /\ Nodes \in Spreads
    /\ Clash \subseteq Matches \X Matches
    /\ \A m, x \in Matches : <<m, x>> \in Clash => <<x, m>> \in Clash
    /\ Statics \subseteq SUBSET Matches
    /\ Starts \subseteq [Routes -> Matches]
    /\ MaxEdits \in Nat

\* A version of a Route, and the absence of one.
Version == [name: Routes, created: Nat, rev: Nat, nodes: Spreads, match: Matches, ok: BOOLEAN]

\* One entry of RouteConfigs.
Entry == [node: Nodes, route: Version]

VARIABLES
    api,           \* the Routes in Kubernetes: name -> set of at most one version
    listener,      \* does the Listener exist?
    static,        \* matches of the chains in the Listener's own spec
    now,           \* creation time of the youngest Route so far
    edits,         \* number of edits so far
    queue,         \* work queue of the Route controller
    RouteConfigs,  \* Config.RouteConfigs, over all nodes
    losers,        \* RouteReconciler.losers: winner -> losers
    pc,            \* where the worker is
    key,           \* the Route it reconciles
    read,          \* what it read of that Route
    evict,         \* Routes it has yet to evict
    place          \* nodes it has yet to place the Route on

kube == <<api, listener, static, now, edits>>
worker == <<pc, key, read, evict, place>>
vars == <<kube, queue, RouteConfigs, losers, worker>>

-----------------------------------------------------------------------------

\* OlderRoute: earlier creation first, then the name.
OlderRoute(a, b) ==
    IF a.created # b.created THEN a.created < b.created ELSE a.name < b.name

\* RouteConflict
RouteConflict(a, b) == <<a.match, b.match>> \in Clash

\* findConflicts: the served Routes on v's nodes that conflict with it.
findConflicts(v) ==
    {x.route : x \in {y \in RouteConfigs :
        y.node \in v.nodes /\ y.route.name # v.name /\ RouteConflict(v, y.route)}}

EntriesOf(r) == {x \in RouteConfigs : x.route.name = r}

-----------------------------------------------------------------------------
(* Edits of the Kubernetes API. *)

SetRoute(r, versions) ==
    /\ edits < MaxEdits
    /\ edits' = edits + 1
    /\ api' = [api EXCEPT ![r] = versions]
    /\ queue' = queue \union {r}
    /\ UNCHANGED <<listener, static, RouteConfigs, losers, worker>>

\* Creation times have a resolution of one second: two Routes may share one.
CreateRoute(r, nodes, match, ok) ==
    \E t \in {now, now + 1} :
        /\ api[r] = {}
        /\ now' = t
        /\ SetRoute(r, {[name |-> r, created |-> t, rev |-> edits + 1, nodes |-> nodes,
                         match |-> match, ok |-> ok]})

UpdateRoute(r, nodes, match) ==
    \E v \in api[r] :
        /\ <<nodes, match, TRUE>> # <<v.nodes, v.match, v.ok>>
        /\ SetRoute(r, {[v EXCEPT !.rev = edits + 1, !.nodes = nodes, !.match = match,
                                  !.ok = TRUE]})
        /\ UNCHANGED now

\* A version that does not convert: what else it says does not matter.
BreakRoute(r) ==
    \E v \in api[r] :
        /\ v.ok
        /\ SetRoute(r, {[v EXCEPT !.rev = edits + 1, !.ok = FALSE]})
        /\ UNCHANGED now

DeleteRoute(r) ==
    /\ api[r] # {}
    /\ SetRoute(r, {})
    /\ UNCHANGED now

\* A Listener event enqueues the Routes that refer to it (routesForListener).
EditListener(exists, matches) ==
    /\ edits < MaxEdits
    /\ <<exists, matches>> # <<listener, static>>
    /\ edits' = edits + 1
    /\ listener' = exists
    /\ static' = matches
    /\ queue' = queue \union {r \in Routes : api[r] # {}}
    /\ UNCHANGED <<api, now, RouteConfigs, losers, worker>>

-----------------------------------------------------------------------------
(* RouteReconciler.Reconcile *)

Start(r) ==
    /\ pc = "idle"
    /\ r \in queue
    /\ queue' = queue \ {r}
    /\ key' = r
    /\ read' = api[r]
    /\ pc' = "decide"
    /\ UNCHANGED <<kube, RouteConfigs, losers, evict, place>>

\* The read fails and the Route is retried; nothing else has happened yet.
StartFails ==
    /\ pc = "decide"
    /\ queue' = queue \union {key}
    /\ pc' = "idle"
    /\ UNCHANGED <<kube, RouteConfigs, losers, key, read, evict, place>>

\* The Route is gone, or its Listener is: it is served nowhere.
Unplace ==
    /\ pc = "decide"
    /\ read = {} \/ (~listener /\ \A v \in read : v.ok)
    /\ RouteConfigs' = RouteConfigs \ EntriesOf(key)
    /\ pc' = "finish"
    /\ UNCHANGED <<kube, queue, losers, key, read, evict, place>>

\* The Route does not convert: the last good version keeps serving.
KeepLast ==
    /\ pc = "decide"
    /\ \E v \in read : ~v.ok
    /\ pc' = "finish"
    /\ UNCHANGED <<kube, queue, RouteConfigs, losers, key, read, evict, place>>

\* The Listener's own chains always win (staticChainConflict).
RejectStatic ==
    /\ pc = "decide"
    /\ listener
    /\ \E v \in read : v.ok /\ v.match \in static
    /\ RouteConfigs' = RouteConfigs \ EntriesOf(key)
    /\ pc' = "finish"
    /\ UNCHANGED <<kube, queue, losers, key, read, evict, place>>

addLoser(winners, loser) ==
    losers' = [r \in Routes |->
        IF \E w \in winners : w.name = r THEN losers[r] \union {loser} ELSE losers[r]]

\* Mutant of RejectYounger: the winners are sent back to the queue, to report the conflict.
RejectAndRequeue ==
    /\ pc = "decide"
    /\ listener
    /\ \E v \in read :
        LET winners == {x \in findConflicts(v) : OlderRoute(x, v)} IN
        /\ v.ok /\ v.match \notin static
        /\ winners # {}
        /\ addLoser(winners, key)
        /\ queue' = queue \union {x.name : x \in winners}
    /\ RouteConfigs' = RouteConfigs \ EntriesOf(key)
    /\ pc' = "finish"
    /\ UNCHANGED <<kube, key, read, evict, place>>

\* An older Route is served on one of the nodes: leave every node, and become
\* a loser of each of the older ones.
RejectYounger ==
    /\ pc = "decide"
    /\ listener
    /\ \E v \in read :
        LET winners == {x \in findConflicts(v) : OlderRoute(x, v)} IN
        /\ v.ok /\ v.match \notin static
        /\ winners # {}
        /\ addLoser(winners, key)
    /\ RouteConfigs' = RouteConfigs \ EntriesOf(key)
    /\ pc' = "finish"
    /\ UNCHANGED <<kube, queue, key, read, evict, place>>

\* Mutant of Win: only the oldest of the younger Routes is evicted.
WinOverOne ==
    /\ pc = "decide"
    /\ listener
    /\ \E v \in read :
        /\ v.ok /\ v.match \notin static
        /\ \A x \in findConflicts(v) : OlderRoute(v, x)
        /\ RouteConfigs' = {x \in RouteConfigs : x.route.name = key => x.node \in v.nodes}
        /\ evict' = {x.name : x \in {y \in findConflicts(v) :
                        \A z \in findConflicts(v) : z = y \/ OlderRoute(y, z)}}
        /\ place' = v.nodes
    /\ pc' = "evict"
    /\ UNCHANGED <<kube, queue, losers, key, read>>

\* Every conflicting Route is younger: leave the nodes the Route is no longer
\* on, and evict them.
Win ==
    /\ pc = "decide"
    /\ listener
    /\ \E v \in read :
        /\ v.ok /\ v.match \notin static
        /\ \A x \in findConflicts(v) : OlderRoute(v, x)
        /\ RouteConfigs' = {x \in RouteConfigs : x.route.name = key => x.node \in v.nodes}
        /\ evict' = {x.name : x \in findConflicts(v)}
        /\ place' = v.nodes
    /\ pc' = "evict"
    /\ UNCHANGED <<kube, queue, losers, key, read>>

\* removeRouteEverywhere, and enqueueRoute to have its status written.
Evict(r) ==
    /\ pc = "evict"
    /\ r \in evict
    /\ RouteConfigs' = RouteConfigs \ EntriesOf(r)
    /\ queue' = queue \union {r}
    /\ evict' = evict \ {r}
    /\ UNCHANGED <<kube, losers, pc, key, read, place>>

\* updateRouteConfig, one node after the other.
Place(n) ==
    /\ pc = "evict"
    /\ evict = {}
    /\ n \in place
    /\ \E v \in read : RouteConfigs' = {x \in RouteConfigs : x.node # n \/ x.route.name # key}
                                       \union {[node |-> n, route |-> v]}
    /\ place' = place \ {n}
    /\ UNCHANGED <<kube, queue, losers, pc, key, read, evict>>

\* Mutant of Finish: losers are looked at again only if the Route is gone.
FinishDeletedOnly ==
    /\ pc = "finish" \/ (pc = "evict" /\ evict = {} /\ place = {})
    /\ queue' = IF read = {} THEN queue \union losers[key] ELSE queue
    /\ losers' = [losers EXCEPT ![key] = {}]
    /\ pc' = "idle"
    /\ UNCHANGED <<kube, RouteConfigs, key, read, evict, place>>

\* Mutant of Finish: the reconcile returns once the losers are evicted.
FinishUnplaced ==
    /\ pc = "finish" \/ (pc = "evict" /\ evict = {})
    /\ queue' = queue \union losers[key]
    /\ losers' = [losers EXCEPT ![key] = {}]
    /\ pc' = "idle"
    /\ UNCHANGED <<kube, RouteConfigs, key, read, evict, place>>

\* requeueLosers, deferred to the end of every reconcile that read the Route.
Finish ==
    /\ pc = "finish" \/ (pc = "evict" /\ evict = {} /\ place = {})
    /\ queue' = queue \union losers[key]
    /\ losers' = [losers EXCEPT ![key] = {}]
    /\ pc' = "idle"
    /\ UNCHANGED <<kube, RouteConfigs, key, read, evict, place>>

-----------------------------------------------------------------------------

\* The process starts with Routes in Kubernetes, all of them queued.
Init ==
    /\ \E ms \in Starts :
        api = [r \in Routes |-> {[name |-> r, created |-> 0, rev |-> 0,
                                  nodes |-> Nodes, match |-> ms[r], ok |-> TRUE]}]
    /\ listener = TRUE
    /\ static = {}
    /\ now = 0
    /\ edits = 0
    /\ queue = Routes
    /\ RouteConfigs = {}
    /\ losers = [r \in Routes |-> {}]
    /\ pc = "idle"
    /\ key = CHOOSE r \in Routes : TRUE
    /\ read = {}
    /\ evict = {}
    /\ place = {}

Edit ==
    \/ \E r \in Routes, nodes \in Spreads, match \in Matches :
          \/ \E ok \in BOOLEAN : CreateRoute(r, nodes, match, ok)
          \/ UpdateRoute(r, nodes, match)
    \/ \E r \in Routes : BreakRoute(r) \/ DeleteRoute(r)
    \/ \E exists \in BOOLEAN, matches \in Statics : EditListener(exists, matches)

Decide == Unplace \/ KeepLast \/ RejectStatic \/ RejectYounger \/ Win

Work ==
    \/ \E r \in Routes : Start(r) \/ Evict(r)
    \/ Decide
    \/ \E n \in Nodes : Place(n)
    \/ Finish

Next == Edit \/ Work \/ StartFails

Safe == Init /\ [][Next]_vars

\* The worker goes on; a failed read is retried, so that reads succeed in the end.
Fairness == WF_vars(Work) /\ SF_vars(Decide)

Spec == Safe /\ Fairness

-----------------------------------------------------------------------------
(* Properties *)

\* Every variable has its type, and only a Route that won has Routes to evict
\* and nodes to go to: no reconcile ends half way.
TypeOK ==
    /\ api \in [Routes -> SUBSET Version]
    /\ listener \in BOOLEAN /\ static \subseteq Matches
    /\ now \in Nat /\ edits \in Nat
    /\ queue \subseteq Routes
    /\ RouteConfigs \subseteq Entry
    /\ losers \in [Routes -> SUBSET Routes]
    /\ pc \in {"idle", "decide", "evict", "finish"}
    /\ key \in Routes
    /\ read \subseteq Version
    /\ evict \subseteq Routes
    /\ place \subseteq Nodes
    /\ pc # "evict" => evict = {} /\ place = {}

\* No node ever serves two Routes whose chains conflict, not even between two
\* steps of a reconcile: Envoy would reject the listener that holds both.
NoConflictServed ==
    \A x, y \in RouteConfigs :
        x.node = y.node /\ x.route.name # y.route.name => ~RouteConflict(x.route, y.route)

\* An older Route, as served, stands in the way of v.
Beaten(v) == \E x \in findConflicts(v) : OlderRoute(x, v)

ServedEverywhere(v) == EntriesOf(v.name) = {[node |-> n, route |-> v] : n \in v.nodes}

\* When RDS has nothing left to do, every Route that converts is served on all
\* its nodes, unless the Listener's chains or an older served Route forbid it,
\* and then on none: no loser waits although its winner went, moved or changed.
OldestServed ==
    pc = "idle" /\ queue = {} =>
        \A r \in Routes :
            /\ api[r] = {} => EntriesOf(r) = {}
            /\ \A v \in api[r] : v.ok =>
                IF listener /\ v.match \notin static /\ ~Beaten(v)
                THEN ServedEverywhere(v)
                ELSE EntriesOf(r) = {}

\* Winners and losers do not send each other back to the queue for ever.
Settles == <>[](pc = "idle" /\ queue = {})

=============================================================================
