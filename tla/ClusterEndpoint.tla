----------------------------- MODULE ClusterEndpoint -----------------------------
(***************************************************************************)
(* The Cluster controller (CDS) and the Endpoint controller (EDS).         *)
(*                                                                         *)
(* Both hold the config write lock for a whole Reconcile, so that one      *)
(* reconcile is one step.  A Cluster may be of type EDS and name a         *)
(* service, may merge the Endpoints it refers to (endpoint_refs), and may  *)
(* have a load_assignment of its own, which the merge extends.  One with   *)
(* endpoint_refs and no load_assignment is kept out of the config until an *)
(* Endpoint it refers to exists.  EDS stores an Endpoint under its         *)
(* cluster_name, which defaults to the Endpoint's own name.                *)
(*                                                                         *)
(* rev names the content of an object: a spec edit makes a new one.  An    *)
(* Endpoint that converts carries at least one address.                    *)
(***************************************************************************)
EXTENDS Integers

CONSTANTS
    Nodes,       \* Envoy nodes (the nodes and clusters annotations)
    Clusters,    \* Cluster objects, by name
    Endpoints,   \* Endpoint objects, by name
    Services,    \* names a load assignment may be stored under
    OwnNames,    \* does every Endpoint leave cluster_name empty?
    MaxEdits     \* bound: edits of the Kubernetes API

ASSUME ClusterAssumption ==
    /\ Nodes # {}
    /\ Endpoints \subseteq Services
    /\ OwnNames \in BOOLEAN
    /\ MaxEdits \in Nat

\* eds holds the service an EDS cluster names, refs the endpoint_refs, and inline
\* says whether the Cluster has a load_assignment of its own.
ClusterSpec == [node: Nodes, eds: SUBSET Services, refs: SUBSET Services,
                inline: BOOLEAN, rev: Nat, ok: BOOLEAN]
EndpointSpec == [node: Nodes, service: Services, rev: Nat, ok: BOOLEAN]

VARIABLES
    apiClusters,      \* the Cluster objects in Kubernetes: name -> set of at most one spec
    apiEndpoints,     \* the Endpoint objects in Kubernetes, likewise
    edits,            \* number of edits so far
    cdsQueue,         \* work queue of the Cluster controller
    edsQueue,         \* work queue of the Endpoint controller
    ClusterConfigs,   \* Config.ClusterConfigs, over all nodes
    EndpointConfigs,  \* Config.EndpointConfigs, over all nodes
    counter,          \* Config.configChangeCounter
    reconciled        \* are all <kind>Reconciled flags set?

controllers == <<apiClusters, apiEndpoints, edits, cdsQueue, edsQueue, ClusterConfigs,
                 EndpointConfigs, counter, reconciled>>

\* Entries of the config.  merged holds the contents taken over by endpoint_refs.
ClusterEntry == [name: Clusters, node: Nodes, eds: SUBSET Services, rev: Nat,
                 merged: SUBSET Nat]
EndpointEntry == [service: Services, node: Nodes, rev: Nat]

-----------------------------------------------------------------------------
(* Edits of the Kubernetes API. *)

\* Mutant of ClustersReferring: only native EDS clusters are looked up.
ClustersOfService(e) ==
    {c \in Clusters : \E o \in apiClusters[c] : e \in o.eds}

\* The Endpoint watch of CDS: the Clusters that refer to e.
ClustersReferring(e) ==
    {c \in Clusters : \E o \in apiClusters[c] : e \in o.refs}

SetCluster(c, objects) ==
    /\ edits < MaxEdits
    /\ apiClusters[c] # objects
    /\ edits' = edits + 1
    /\ apiClusters' = [apiClusters EXCEPT ![c] = objects]
    /\ cdsQueue' = cdsQueue \union {c}
    /\ UNCHANGED <<apiEndpoints, edsQueue, ClusterConfigs, EndpointConfigs, counter,
                   reconciled>>

SetEndpoint(e, objects) ==
    /\ edits < MaxEdits
    /\ apiEndpoints[e] # objects
    /\ edits' = edits + 1
    /\ apiEndpoints' = [apiEndpoints EXCEPT ![e] = objects]
    /\ edsQueue' = edsQueue \union {e}
    /\ cdsQueue' = cdsQueue \union ClustersReferring(e)
    /\ UNCHANGED <<apiClusters, ClusterConfigs, EndpointConfigs, counter, reconciled>>

\* The Clusters applied: a load_assignment, merged or inline, is for the types other
\* than EDS; without endpoint_refs an inline one is content like any other; and of a
\* Cluster that does not convert only the endpoint_refs are read, by the watch.
ApplyCluster(c) ==
    \E n \in Nodes, eds \in {{}} \union {{s} : s \in Services},
       refs \in SUBSET Services, inline \in BOOLEAN, ok \in BOOLEAN :
        /\ refs # {} => eds = {}
        /\ inline => refs # {}
        /\ ~ok => eds = {} /\ ~inline
        /\ SetCluster(c, {[node |-> n, eds |-> eds, refs |-> refs, inline |-> inline,
                           rev |-> edits + 1, ok |-> ok]})

ApplyEndpoint(e) ==
    \E n \in Nodes, s \in Services, ok \in BOOLEAN :
        /\ OwnNames => s = e
        /\ SetEndpoint(e, {[node |-> n, service |-> s, rev |-> edits + 1, ok |-> ok]})

-----------------------------------------------------------------------------
(* ClusterReconciler.Reconcile *)

\* mergeEndpointRefs: the contents of the Endpoints o refers to; one that is not
\* there or does not convert is passed over.
Merged(o) ==
    {x.rev : x \in {y \in UNION {apiEndpoints[e] : e \in o.refs \intersect Endpoints} : y.ok}}

\* The entries c has in the config once it is reconciled: none for a deleted Cluster
\* and for one that has nothing but endpoint_refs, which find nothing.
ClusterEntries(c) ==
    {[name |-> c, node |-> o.node, eds |-> o.eds, rev |-> o.rev, merged |-> Merged(o)] :
        o \in {x \in apiClusters[c] : x.refs # {} /\ ~x.inline => Merged(x) # {}}}

\* Every change of the config counts, under the same lock.
CdsReconcile(c) ==
    /\ c \in cdsQueue
    /\ \A o \in apiClusters[c] : o.ok
    /\ LET old == {x \in ClusterConfigs : x.name = c} IN
        /\ ClusterConfigs' = (ClusterConfigs \ old) \union ClusterEntries(c)
        /\ counter' = counter + (IF old = {} /\ ClusterEntries(c) = {} THEN 0 ELSE 1)
    /\ cdsQueue' = cdsQueue \ {c}
    /\ reconciled' = FALSE
    /\ UNCHANGED <<apiClusters, apiEndpoints, edits, edsQueue, EndpointConfigs>>

\* The Cluster does not convert, or a read failed: the error puts it back.
CdsError(c) ==
    /\ c \in cdsQueue
    /\ reconciled' = FALSE
    /\ UNCHANGED <<apiClusters, apiEndpoints, edits, cdsQueue, edsQueue, ClusterConfigs,
                   EndpointConfigs, counter>>

-----------------------------------------------------------------------------
(* EndpointReconciler.Reconcile *)

\* A deleted Endpoint is looked up by its own name, not by its cluster_name.
EdsRemove(e) ==
    /\ e \in edsQueue
    /\ apiEndpoints[e] = {}
    /\ LET old == {x \in EndpointConfigs : x.service = e} IN
        /\ EndpointConfigs' = EndpointConfigs \ old
        /\ counter' = counter + (IF old = {} THEN 0 ELSE 1)
    /\ edsQueue' = edsQueue \ {e}
    /\ reconciled' = FALSE
    /\ UNCHANGED <<apiClusters, apiEndpoints, edits, cdsQueue, ClusterConfigs>>

\* Mutant of EdsStore: the new entry is appended without replacing the old one.
EdsStoreAppends(e) ==
    /\ e \in edsQueue
    /\ \E o \in apiEndpoints[e] :
        /\ o.ok
        /\ EndpointConfigs' = EndpointConfigs
                              \union {[service |-> o.service, node |-> o.node, rev |-> o.rev]}
    /\ counter' = counter + 1
    /\ edsQueue' = edsQueue \ {e}
    /\ reconciled' = FALSE
    /\ UNCHANGED <<apiClusters, apiEndpoints, edits, cdsQueue, ClusterConfigs>>

\* An existing one replaces the entry of its cluster_name, on whatever node.
EdsStore(e) ==
    /\ e \in edsQueue
    /\ \E o \in apiEndpoints[e] :
        /\ o.ok
        /\ EndpointConfigs' = {x \in EndpointConfigs : x.service # o.service}
                              \union {[service |-> o.service, node |-> o.node, rev |-> o.rev]}
    /\ counter' = counter + 1
    /\ edsQueue' = edsQueue \ {e}
    /\ reconciled' = FALSE
    /\ UNCHANGED <<apiClusters, apiEndpoints, edits, cdsQueue, ClusterConfigs>>

\* The Endpoint does not convert, or the read failed.
EdsError(e) ==
    /\ e \in edsQueue
    /\ reconciled' = FALSE
    /\ UNCHANGED <<apiClusters, apiEndpoints, edits, cdsQueue, edsQueue, ClusterConfigs,
                   EndpointConfigs, counter>>

\* Every reconcile closes its controller's flag.  The last done goroutine of each
\* controller opens it again, and the last of these steps sets the last flag.
Done ==
    /\ ~reconciled
    /\ reconciled' = TRUE
    /\ UNCHANGED <<apiClusters, apiEndpoints, edits, cdsQueue, edsQueue, ClusterConfigs,
                   EndpointConfigs, counter>>

-----------------------------------------------------------------------------

ControllersInit ==
    /\ apiClusters = [c \in Clusters |-> {}]
    /\ apiEndpoints = [e \in Endpoints |-> {}]
    /\ edits = 0
    /\ cdsQueue = {}
    /\ edsQueue = {}
    /\ ClusterConfigs = {}
    /\ EndpointConfigs = {}
    /\ counter = 0
    /\ reconciled = TRUE

CdsStep == \E c \in Clusters : CdsReconcile(c)
EdsStep == \E e \in Endpoints : EdsRemove(e) \/ EdsStore(e)

ControllersNext ==
    \/ \E c \in Clusters : ApplyCluster(c) \/ SetCluster(c, {})
    \/ \E e \in Endpoints : ApplyEndpoint(e) \/ SetEndpoint(e, {})
    \/ CdsStep
    \/ EdsStep
    \/ \E c \in Clusters : CdsError(c)
    \/ \E e \in Endpoints : EdsError(e)
    \/ Done

-----------------------------------------------------------------------------
(* Properties *)

\* Every variable of CDS and EDS has its type: the config holds only entries that
\* Reconcile can build.
ControllersTypeOK ==
    /\ apiClusters \in [Clusters -> SUBSET ClusterSpec]
    /\ apiEndpoints \in [Endpoints -> SUBSET EndpointSpec]
    /\ edits \in Nat
    /\ cdsQueue \subseteq Clusters
    /\ edsQueue \subseteq Endpoints
    /\ ClusterConfigs \subseteq ClusterEntry
    /\ EndpointConfigs \subseteq EndpointEntry
    /\ counter \in Nat
    /\ reconciled \in BOOLEAN

\* A Cluster that is not queued is in the config exactly as its object, and the
\* Endpoints it refers to, now say: no edit of either leaves an outdated merge.
ClustersCurrent ==
    \A c \in Clusters : c \notin cdsQueue =>
        {x \in ClusterConfigs : x.name = c} = ClusterEntries(c)

\* Once EDS has caught up, every load assignment in the config belongs to an
\* Endpoint object and shows its content.
EndpointsCurrent ==
    edsQueue = {} => \A x \in EndpointConfigs : \E e \in Endpoints :
        \E o \in apiEndpoints[e] : o.service = x.service /\ o.rev = x.rev

=============================================================================
