---------------------------- MODULE ChainPlacement ----------------------------
(***************************************************************************)
(* One filter chain, three judges: the Route controller decides which      *)
(* Routes are served on which nodes, the listener build decides which      *)
(* chains go into a listener, and the route-audit tool predicts the first  *)
(* from manifests.  All of them compare matches with package fcm.          *)
(*                                                                         *)
(* Routes refer to several Listeners on several nodes.  A reconcile of RDS *)
(* is one step here (RouteConflicts has its steps apart) and the listener  *)
(* build is what LDS would store if it ran now.  The route_config of every *)
(* Route converts, which RDS needs; its HCM, which only LDS converts, may  *)
(* not.  The Listeners do not change.  One Route at most is a manifest     *)
(* that has not been applied when the audit reads it.                      *)
(***************************************************************************)
EXTENDS FilterChainMatch, FiniteSets

CONSTANTS
    Routes,     \* Route names, ordered as the strings are
    Nodes,      \* node names, ordered as the strings are
    Default,    \* the controller's --nodeID
    Names,      \* names Routes may give Listeners
    Specs,      \* what a Route may say: [refs, nodes, match, domains, hcm]
    Layouts     \* the Listeners there may be: name -> set of at most one
                \* [nodes, chains]

ASSUME PlacementAssumption ==
    /\ Routes \subseteq Nat /\ IsFiniteSet(Routes)
    /\ Nodes \subseteq Nat /\ IsFiniteSet(Nodes) /\ Default \in Nodes
    /\ \A s \in Specs : /\ s.refs \in Seq(Names) /\ s.nodes \subseteq Nodes
                        /\ s.hcm \in BOOLEAN /\ WellFormed(s.match)
    /\ \A y \in Layouts :
         /\ DOMAIN y = Names
         /\ \A l \in Names : /\ IsFiniteSet(y[l]) /\ Cardinality(y[l]) <= 1
                            /\ \A x \in y[l] : /\ x.chains \in Seq(ToSet(x.chains))
                                              /\ \A m \in ToSet(x.chains) : WellFormed(m)

VARIABLES
    spec,          \* what the Routes say
    created,       \* when they were created; 0: not yet
    listeners,     \* the Listeners
    queue,         \* work queue of the Route controller
    RouteConfigs,  \* Config.RouteConfigs: pairs of a node and a Route
    losers,        \* RouteReconciler.losers: winner -> losers
    report         \* what the audit takes to be served, once it ran

vars == <<spec, created, listeners, queue, RouteConfigs, losers, report>>

\* The elements of S in the order of Op.
Sorted(S, Op(_, _)) ==
    CHOOSE s \in [1..Cardinality(S) -> S] :
        /\ ToSet(s) = S
        /\ \A i, j \in 1..Cardinality(S) : i < j => Op(s[i], s[j])

-----------------------------------------------------------------------------
(* Precedence and conflicts *)

OlderRoute(a, b) ==
    IF created[a] # created[b] THEN created[a] < created[b] ELSE a < b

virtualHostsOverlap(a, b) == spec[a].domains \intersect spec[b].domains # {}

\* RouteConflict of two Routes whose matches are valid.
RouteConflict(a, b) ==
    LET v == Compare(Compile(spec[a].match), Compile(spec[b].match)) IN
    /\ shareKey(ToSet(spec[a].refs), ToSet(spec[b].refs))
    /\ v = "duplicate" \/ (v = "shadow" /\ virtualHostsOverlap(a, b))

\* A valid chain of the Listener l that Envoy cannot tell apart from r's.
DuplicatesStatic(r, l) ==
    \E m \in ToSet(l.chains) : Valid(m) /\ Compare(Compile(spec[r].match), Compile(m)) = "duplicate"

-----------------------------------------------------------------------------
(* RouteReconciler.Reconcile *)

\* One reference in a node's pass of isListenerExists.  li is the variable that
\* every Get fills, and that a failed one leaves as it was; as long as none
\* succeeded it has the default annotations.  The pass ends with the first hit.
ScanRef(s, l, node) ==
    LET li == IF listeners[l] = {} THEN s.li ELSE UNION {x.nodes : x \in listeners[l]}
    IN IF s.hit THEN s
       ELSE [li |-> li, exists |-> s.exists \/ listeners[l] # {}, hit |-> node \in li]

\* One node's pass over the references.
ScanRefs(refs, node, scan) ==
    LET after[i \in 0..Len(refs)] ==
            IF i = 0 THEN [scan EXCEPT !.hit = FALSE] ELSE ScanRef(after[i - 1], refs[i], node)
    IN after[Len(refs)]

\* The passes of the nodes, in order, and the nodes that match a Listener.
ScanNode(s, node, refs) ==
    LET scan == ScanRefs(refs, node, s.scan)
    IN [scan |-> scan, matched |-> IF scan.hit THEN s.matched \union {node} ELSE s.matched]

\* getNodesForRoute and isListenerExists: the nodes that match a Listener,
\* or none if no Get succeeded.
getNodesForRoute(r) ==
    LET nodes == Sorted(spec[r].nodes, <)
        after[i \in 0..Len(nodes)] ==
            IF i = 0 THEN [scan |-> [li |-> {Default}, exists |-> FALSE, hit |-> FALSE], matched |-> {}]
            ELSE ScanNode(after[i - 1], nodes[i], spec[r].refs)
        end == after[Len(nodes)]
    IN IF end.scan.exists THEN end.matched ELSE {}

\* staticChainConflict: a chain of a Listener on one of the nodes wins.
staticChainConflict(r, nodes) ==
    \E name \in ToSet(spec[r].refs) : \E l \in listeners[name] :
        l.nodes \intersect nodes # {} /\ DuplicatesStatic(r, l)

\* findConflicts: Routes served on the nodes whose chains collide with r's.
findConflicts(r, nodes) ==
    {x \in Routes \ {r} : (\E n \in nodes : <<n, x>> \in RouteConfigs) /\ RouteConflict(r, x)}

Without(rs) == {e \in RouteConfigs : e[2] \notin rs}

\* Mutant of Losing: every conflicting Route is taken for a winner.
LosingToAll(r, conflicts) == conflicts

\* The conflicting Routes that are older: r becomes a loser of each.
Losing(r, conflicts) == {x \in conflicts : OlderRoute(x, r)}

\* Where r is served after its reconcile, whom it evicts, to whom it loses.
Outcome(r) ==
    LET nodes == getNodesForRoute(r)
        conflicts == findConflicts(r, nodes)
        winners == Losing(r, conflicts)
    IN  IF ~Valid(spec[r].match)
        THEN [configs |-> RouteConfigs, evicted |-> {}, winners |-> {}]
        ELSE IF nodes = {} \/ staticChainConflict(r, nodes)
        THEN [configs |-> Without({r}), evicted |-> {}, winners |-> {}]
        ELSE IF winners # {}
        THEN [configs |-> Without({r}), evicted |-> {}, winners |-> winners]
        ELSE [configs |-> Without({r} \union conflicts) \union (nodes \X {r}),
              evicted |-> conflicts, winners |-> {}]

\* A reconcile, and requeueLosers when it ends.
Reconcile(r) ==
    LET o == Outcome(r) IN
    /\ r \in queue
    /\ RouteConfigs' = o.configs
    /\ queue' = (queue \ {r}) \union o.evicted \union losers[r]
    /\ losers' = [x \in Routes |->
           IF x = r THEN {} ELSE IF x \in o.winners THEN losers[x] \union {r} ELSE losers[x]]
    /\ UNCHANGED <<spec, created, listeners, report>>

\* The manifest is applied: it is younger than every other Route.
Apply(r) ==
    /\ created[r] = 0
    /\ created' = [created EXCEPT ![r] = 2]
    /\ queue' = queue \union {r}
    /\ UNCHANGED <<spec, listeners, RouteConfigs, losers, report>>

-----------------------------------------------------------------------------
(* The route-audit tool *)

\* Oldest first; a manifest that is not applied yet comes last.
AuditOrder(a, b) ==
    IF (created[a] = 0) # (created[b] = 0) THEN created[b] = 0 ELSE OlderRoute(a, b)

\* routeNodes: the nodes where one of the Route's Listeners is; an input without
\* any Listener is taken to have them all.
routeNodes(r) ==
    {n \in spec[r].nodes :
        \/ \A l \in Names : listeners[l] = {}
        \/ \E name \in ToSet(spec[r].refs) : \E l \in listeners[name] : n \in l.nodes}

\* Mutant of auditConflict: the Listeners' own chains are left out.
auditConflictRoutes(r, served) ==
    \E s \in {e[2] : e \in served} :
        {n \in routeNodes(r) : <<n, s>> \in served} # {} /\ RouteConflict(s, r)

\* conflict: with a chain of a Listener, or with a Route found to be served.
auditConflict(r, served) ==
    \/ staticChainConflict(r, routeNodes(r))
    \/ \E s \in {e[2] : e \in served} :
          {n \in routeNodes(r) : <<n, s>> \in served} # {} /\ RouteConflict(s, r)

\* One Route of the replay.
AuditRoute(served, r) ==
    IF ~Valid(spec[r].match) \/ auditConflict(r, served) THEN served
    ELSE served \union (routeNodes(r) \X {r})

\* audit: replay the placement, one Route after the other.
AuditServed ==
    LET routes == Sorted(Routes, AuditOrder)
        served[i \in 0..Len(routes)] ==
            IF i = 0 THEN {} ELSE AuditRoute(served[i - 1], routes[i])
    IN served[Len(routes)]

Audit ==
    /\ report = {}
    /\ report' = {AuditServed}
    /\ UNCHANGED <<spec, created, listeners, queue, RouteConfigs, losers>>

-----------------------------------------------------------------------------
(* The listener build *)

\* getRoutesForNode: the Routes placed on the node that name the Listener, oldest first.
getRoutesForNode(name, n) ==
    Sorted({r \in Routes : <<n, r>> \in RouteConfigs /\ name \in ToSet(spec[r].refs)}, OlderRoute)

\* The Listener's own chains, in order, if every one of them is valid and
\* none duplicates another: otherwise the listener is not built.
StaticOK(l) ==
    \A i \in DOMAIN l.chains :
        /\ Valid(l.chains[i])
        /\ ~HasDuplicate(UNION {Add(EmptySet, Compile(l.chains[j])) : j \in 1..(i - 1)},
                         Compile(l.chains[i]))

\* One Route in processRoutes: its chain is added, or skipped: the match is not
\* valid, it is a duplicate, or there is no chain because the HCM does not convert.
AddRoute(b, r) ==
    LET m == spec[r].match IN
    IF ~Valid(m) \/ HasDuplicate(b.placed, Compile(m)) \/ ~spec[r].hcm THEN b
    ELSE [placed |-> Add(b.placed, Compile(m)), routes |-> b.routes \union {r},
          chains |-> Append(b.chains, m)]

\* processRoutes: add the chains of the Routes to the Listener's own.
processRoutes(name, l, n) ==
    LET routes == getRoutesForNode(name, n)
        built[i \in 0..Len(routes)] ==
            IF i = 0 THEN [placed |-> UNION {Add(EmptySet, Compile(m)) : m \in ToSet(l.chains)},
                           routes |-> {}, chains |-> l.chains]
            ELSE AddRoute(built[i - 1], routes[i])
    IN built[Len(routes)]

\* The listeners LDS would build without an error.
Built ==
    {b \in Names \X Nodes : \E l \in listeners[b[1]] : b[2] \in l.nodes /\ StaticOK(l)}

Build(name, n) == processRoutes(name, CHOOSE l \in listeners[name] : TRUE, n)

-----------------------------------------------------------------------------

Init ==
    /\ spec \in [Routes -> Specs]
    /\ created \in {c \in [Routes -> {0, 1}] : Cardinality({r \in Routes : c[r] = 0}) <= 1}
    /\ listeners \in Layouts
    /\ queue = {r \in Routes : created[r] # 0}
    /\ RouteConfigs = {}
    /\ losers = [r \in Routes |-> {}]
    /\ report = {}

Next == Audit \/ \E r \in Routes : Apply(r) \/ Reconcile(r)

Spec == Init /\ [][Next]_vars

-----------------------------------------------------------------------------
(* Properties *)

\* Every variable has its type, and losers are younger than their winners:
\* precedence decides in one direction, so that no two Routes lose to each other.
TypeOK ==
    /\ spec \in [Routes -> Specs] /\ created \in [Routes -> 0..2]
    /\ queue \subseteq Routes
    /\ RouteConfigs \subseteq Nodes \X Routes
    /\ losers \in [Routes -> SUBSET Routes]
    /\ report \subseteq SUBSET (Nodes \X Routes)
    /\ \A w \in Routes : \A r \in losers[w] : OlderRoute(w, r)

\* Whenever LDS builds a listener, Envoy tells all its chains apart: no two
\* are filed under one key, whatever the Routes, the Listener's own chains and
\* the order of the reconciles.  One pair would cost the whole listener.
BuiltAcceptable ==
    \A b \in Built :
        LET chains == Build(b[1], b[2]).chains IN
        \A i, j \in DOMAIN chains : i # j => Filed(chains[i]) \intersect Filed(chains[j]) = {}

\* A Route that RDS placed, and reports active, has its chain in every listener of
\* its references that is built, or its HCM does not convert: no Route that RDS let
\* win is skipped as a duplicate or for its match.  RDS converts the route_config
\* only, so the exception is real: the Route holds its place and is not served.
ServedIsBuilt ==
    \A b \in Built, r \in Routes :
        <<b[2], r>> \in RouteConfigs /\ b[1] \in ToSet(spec[r].refs) =>
            r \in Build(b[1], b[2]).routes \/ ~spec[r].hcm

\* RDS and the audit look for every Route on the same nodes.
NodesAgree == \A r \in Routes : Valid(spec[r].match) => getNodesForRoute(r) = routeNodes(r)

\* Once RDS has settled, it serves on every node what the audit said it would,
\* also for a manifest that was audited before it was applied, provided that both
\* look for the Routes on the same nodes.  They do not if a listener_ref names no
\* Listener: a failed Get leaves RDS with the nodes of the one before, or the
\* default node, where the audit, said to mirror the controller, goes on.
AuditAgrees ==
    NodesAgree /\ queue = {} /\ (\A r \in Routes : created[r] # 0) =>
        \A served \in report : RouteConfigs = served

=============================================================================
