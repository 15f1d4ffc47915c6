----------------------------- MODULE ObjectStatus -----------------------------
(***************************************************************************)
(* How the four controllers report on their objects: the status they       *)
(* compute in a reconcile and write back to Kubernetes.                    *)
(*                                                                         *)
(* Every replica of the program runs every controller and writes status,   *)
(* leader or not.  One object is modelled, of any of the four kinds, with  *)
(* what decides its outcome: its spec (which moves the generation), its    *)
(* node annotation (which does not) and the objects it depends on.  A      *)
(* replica sees the object through its informer, some versions behind; a   *)
(* status write is itself a version every replica receives and reconciles. *)
(***************************************************************************)
EXTENDS Naturals, Sequences

CONSTANTS
    Replicas,   \* the replicas of the program
    Nodes,      \* Envoy nodes the object's annotation can name
    Steps,      \* attempts of retry.RetryOnConflict (DefaultRetry: 5)
    MaxEdits,   \* bound: edits of the object and of its dependencies
    MaxFails    \* bound: status writes that fail and restarts of a replica

ASSUME StatusAssumption ==
    /\ Replicas # {} /\ Nodes # {}
    /\ Steps \in Nat \ {0} /\ MaxEdits \in Nat /\ MaxFails \in Nat

Kinds == {"route", "listener", "cluster", "endpoint"}

\* A spec is the size it reports when it converts, 0 when it does not: the
\* virtual hosts of a Route, the lb_endpoints of an Endpoint.
Specs == 0..1

\* What the object needs: a Listener for a Route, placed Routes for a Listener,
\* Endpoints for a Cluster.  Broken ones are there and cannot be used.
Deps == {"absent", "present", "broken"}

NoNode == "none"
Messages == {"", "conversion", "waiting", "broken"}

\* The status fields the reconcile computes (the conditions repeat them), and
\* the whole status.
Outcomes == [active: BOOLEAN, nodes: Nodes \union {NoNode}, count: 0..1,
             message: Messages]
Statuses == [gen: Nat, out: Outcomes]
Objects == [gen: Nat, spec: Specs, node: Nodes, status: Statuses]

Inactive(msg) ==
    [active |-> FALSE, nodes |-> NoNode, count |-> 0, message |-> msg]
ActiveOn(n, c) ==
    [active |-> TRUE, nodes |-> n, count |-> c, message |-> ""]
NoStatus == [gen |-> 0, out |-> Inactive("")]

VARIABLES
    kind,     \* the kind of the object
    api,      \* the object in Kubernetes
    specs,    \* the spec of every generation so far
    dep,      \* the state of the objects it depends on
    edits,    \* number of edits so far
    fails,    \* number of failed writes and restarts so far
    view,     \* each replica's informer: the version it has
    stream,   \* the later versions on their way to it
    depView,  \* each replica's view of the dependencies
    queued,   \* is the object in the replica's work queue?
    worker,   \* the worker: [pc, gen, out, tries]
    lost      \* did the replica's last status write fail?

env == <<kind, specs, dep, edits>>
replica == <<view, stream, depView, queued, worker, lost>>
vars == <<env, api, fails, replica>>

Workers == [pc: {"idle", "write"}, gen: Nat, out: Outcomes, tries: 0..Steps - 1]
Idle == [pc |-> "idle", gen |-> 0, out |-> Inactive(""), tries |-> 0]

-----------------------------------------------------------------------------
(* What a reconcile reports, in the order of its checks. *)

\* RDS: no conversion, then no listener, then a conflict with an older Route
\* or a static chain.
RouteOutcome(o, d) ==
    CASE o.spec = 0 -> Inactive("conversion")
      [] d = "absent" -> Inactive("waiting")
      [] d = "broken" -> Inactive("broken")
      [] OTHER -> ActiveOn(o.node, o.spec)

\* LDS: without Routes nothing is converted; a Listener or a Route that does
\* not convert leaves it off the node.
ListenerOutcome(o, d) ==
    CASE d = "absent" -> Inactive("waiting")
      [] o.spec = 0 \/ d = "broken" -> Inactive("conversion")
      [] OTHER -> ActiveOn(o.node, 1)

\* CDS: conversion, then the merge of the Endpoints, then none found.
ClusterOutcome(o, d) ==
    CASE o.spec = 0 -> Inactive("conversion")
      [] d = "broken" -> Inactive("broken")
      [] d = "absent" -> Inactive("waiting")
      [] OTHER -> ActiveOn(o.node, 1)

\* EDS: an Endpoint depends on nothing.
EndpointOutcome(o) ==
    IF o.spec = 0 THEN Inactive("conversion") ELSE ActiveOn(o.node, o.spec)

Outcome(o, d) ==
    CASE kind = "route" -> RouteOutcome(o, d)
      [] kind = "listener" -> ListenerOutcome(o, d)
      [] kind = "cluster" -> ClusterOutcome(o, d)
      [] kind = "endpoint" -> EndpointOutcome(o)

\* CDS and EDS return a conversion or merge error, so the key is retried with
\* backoff; RDS and LDS report it and return nil.
Requeues(out) ==
    /\ kind \in {"cluster", "endpoint"}
    /\ out.message \in {"conversion", "broken"}

-----------------------------------------------------------------------------
(* The comparison that decides whether a status is written. *)

\* listenerStatusEqual, clusterStatusEqual, endpointStatusEqual: not the message.
SameButMessage(a, b) ==
    /\ a.gen = b.gen
    /\ [a.out EXCEPT !.message = ""] = [b.out EXCEPT !.message = ""]

\* Mutant of StatusEqual: the generation is not compared.
StatusEqualNoGeneration(a, b) ==
    [a.out EXCEPT !.message = ""] = [b.out EXCEPT !.message = ""]

\* Mutant of StatusEqual: LastReconciled is compared, so no two are equal.
StatusEqualWithTime(a, b) == FALSE

\* routeStatusEqual alone compares the message too.
StatusEqual(a, b) ==
    IF kind = "route" THEN a = b ELSE SameButMessage(a, b)

-----------------------------------------------------------------------------

Init ==
    /\ kind \in Kinds
    /\ \E s \in Specs, n \in Nodes :
         /\ api = [gen |-> 1, spec |-> s, node |-> n, status |-> NoStatus]
         /\ specs = <<s>>
    /\ dep \in (IF kind = "endpoint" THEN {"absent"} ELSE {"absent", "present"})
    /\ edits = 0 /\ fails = 0
    /\ view = [r \in Replicas |-> api]
    /\ stream = [r \in Replicas |-> <<>>]
    /\ depView = [r \in Replicas |-> dep]
    /\ queued = [r \in Replicas |-> TRUE]
    /\ worker = [r \in Replicas |-> Idle]
    /\ lost = [r \in Replicas |-> FALSE]

\* The API server stores a version and sends it to every watcher.
Store(o) ==
    /\ api' = o
    /\ stream' = [r \in Replicas |-> Append(stream[r], o)]

EditSpec ==
    /\ edits < MaxEdits
    /\ edits' = edits + 1
    /\ \E s \in Specs :
         /\ Store([api EXCEPT !.spec = s, !.gen = @ + 1])
         /\ specs' = Append(specs, s)
    /\ UNCHANGED <<kind, dep, fails, view, depView, queued, worker, lost>>

\* An annotation is metadata: the generation stays.
EditNode ==
    /\ edits < MaxEdits
    /\ edits' = edits + 1
    /\ \E n \in Nodes \ {api.node} : Store([api EXCEPT !.node = n])
    /\ UNCHANGED <<kind, specs, dep, fails, view, depView, queued, worker, lost>>

EditDep ==
    /\ edits < MaxEdits
    /\ kind # "endpoint"
    /\ edits' = edits + 1
    /\ dep' \in Deps \ {dep}
    /\ UNCHANGED <<kind, api, specs, fails, replica>>

\* The informer applies the next version; For() has no predicate, so every
\* version, a status write included, enqueues the object.
Deliver(r) ==
    /\ stream[r] # <<>>
    /\ view' = [view EXCEPT ![r] = Head(stream[r])]
    /\ stream' = [stream EXCEPT ![r] = Tail(@)]
    /\ queued' = [queued EXCEPT ![r] = TRUE]
    /\ UNCHANGED <<env, api, fails, depView, worker, lost>>

\* A watch on the dependencies (or notifyListeners) enqueues it as well.
DeliverDep(r) ==
    /\ depView[r] # dep
    /\ depView' = [depView EXCEPT ![r] = dep]
    /\ queued' = [queued EXCEPT ![r] = TRUE]
    /\ UNCHANGED <<env, api, fails, view, stream, worker, lost>>

\* Reconcile up to the call of update<Kind>Status: the outcome and the
\* generation are those of the object read now.
Reconcile(r) ==
    /\ queued[r] /\ worker[r].pc = "idle"
    /\ LET out == Outcome(view[r], depView[r]) IN
         worker' = [worker EXCEPT ![r] =
             [pc |-> "write", gen |-> view[r].gen, out |-> out, tries |-> 0]]
    /\ queued' = [queued EXCEPT ![r] = FALSE]
    /\ lost' = [lost EXCEPT ![r] = FALSE]
    /\ UNCHANGED <<env, api, fails, view, stream, depView>>

\* The reconcile returns; a returned error enqueues the key again.
Return(r) ==
    /\ worker' = [worker EXCEPT ![r] = Idle]
    /\ queued' = [queued EXCEPT ![r] = @ \/ Requeues(worker[r].out)]

\* Mutant of NewStatus: the generation of the object fetched for the write.
NewStatusLatest(r) == [gen |-> view[r].gen, out |-> worker[r].out]

\* The status to write carries the generation of the object reconciled.
NewStatus(r) == [gen |-> worker[r].gen, out |-> worker[r].out]

\* The object in the cache already has this status: nothing is written.
AlreadyWritten(r) ==
    /\ worker[r].pc = "write"
    /\ StatusEqual(view[r].status, NewStatus(r))
    /\ Return(r)
    /\ UNCHANGED <<env, api, fails, view, stream, depView, lost>>

\* The update carries the resourceVersion of the cached object, and succeeds
\* only if no later version exists.
WriteStatus(r) ==
    /\ worker[r].pc = "write"
    /\ ~StatusEqual(view[r].status, NewStatus(r))
    /\ stream[r] = <<>>
    /\ Store([api EXCEPT !.status = NewStatus(r)])
    /\ Return(r)
    /\ UNCHANGED <<env, fails, view, depView, lost>>

\* Mutant of Conflict: the attempts are not limited.
ConflictUnlimited(r) ==
    /\ worker[r].pc = "write"
    /\ ~StatusEqual(view[r].status, NewStatus(r))
    /\ stream[r] # <<>>
    /\ worker' = [worker EXCEPT ![r].tries = @ + 1]
    /\ UNCHANGED <<env, api, fails, view, stream, depView, queued, lost>>

\* A conflict: fetched and tried again, Steps times in all; then only logged.
Conflict(r) ==
    /\ worker[r].pc = "write"
    /\ ~StatusEqual(view[r].status, NewStatus(r))
    /\ stream[r] # <<>>
    /\ IF worker[r].tries + 1 < Steps
         THEN /\ worker' = [worker EXCEPT ![r].tries = @ + 1]
              /\ UNCHANGED <<queued, lost>>
         ELSE /\ Return(r)
              /\ lost' = [lost EXCEPT ![r] = TRUE]
    /\ UNCHANGED <<env, api, fails, view, stream, depView>>

\* Any other error ends the retries; it is logged and nothing is requeued for it.
WriteFails(r) ==
    /\ worker[r].pc = "write"
    /\ ~StatusEqual(view[r].status, NewStatus(r))
    /\ fails < MaxFails
    /\ fails' = fails + 1
    /\ Return(r)
    /\ lost' = [lost EXCEPT ![r] = TRUE]
    /\ UNCHANGED <<env, api, view, stream, depView>>

\* A replica starts again: its informers list the objects and enqueue them.
Restart(r) ==
    /\ fails < MaxFails
    /\ fails' = fails + 1
    /\ view' = [view EXCEPT ![r] = api]
    /\ stream' = [stream EXCEPT ![r] = <<>>]
    /\ depView' = [depView EXCEPT ![r] = dep]
    /\ queued' = [queued EXCEPT ![r] = TRUE]
    /\ worker' = [worker EXCEPT ![r] = Idle]
    /\ lost' = [lost EXCEPT ![r] = FALSE]
    /\ UNCHANGED <<env, api>>

Write(r) == AlreadyWritten(r) \/ WriteStatus(r) \/ Conflict(r)

Next ==
    \/ EditSpec \/ EditNode \/ EditDep
    \/ \E r \in Replicas :
         Deliver(r) \/ DeliverDep(r) \/ Reconcile(r) \/ Write(r)
           \/ WriteFails(r) \/ Restart(r)

Fairness ==
    \A r \in Replicas :
        /\ WF_vars(Deliver(r)) /\ WF_vars(DeliverDep(r))
        /\ WF_vars(Reconcile(r)) /\ WF_vars(Write(r))

Spec == Init /\ [][Next]_vars /\ Fairness

-----------------------------------------------------------------------------

\* Every variable holds what the code can put there; a write is tried at most
\* Steps times.
TypeOK ==
    /\ kind \in Kinds /\ api \in Objects /\ dep \in Deps
    /\ specs \in Seq(Specs) /\ Len(specs) = api.gen
    /\ edits \in 0..MaxEdits /\ fails \in 0..MaxFails
    /\ view \in [Replicas -> Objects]
    /\ stream \in [Replicas -> Seq(Objects)]
    /\ depView \in [Replicas -> Deps]
    /\ queued \in [Replicas -> BOOLEAN]
    /\ worker \in [Replicas -> Workers]
    /\ lost \in [Replicas -> BOOLEAN]

\* observedGeneration never lies: a status names a generation that there was, and
\* an object is never active on a generation that does not convert, whatever was
\* edited between the reconcile and the write.
HonestStatus ==
    LET s == api.status IN
    s.gen # 0 =>
        /\ s.gen <= api.gen
        /\ s.out.active => specs[s.gen] # 0

\* What the status shows once everything has settled: the outcome of the latest
\* version, and for a Route the message that goes with it.
Settled ==
    LET wanted == [gen |-> api.gen, out |-> Outcome(api, dep)] IN
    /\ SameButMessage(api.status, wanted)
    /\ kind = "route" => api.status = wanted

\* The status ends up describing the latest object, with two replicas writing
\* over each other from caches of different ages and one of them restarting,
\* unless the last write of every replica failed: a failed write is only logged
\* and nothing else brings the controllers back to the object.
StatusSettles == <>[](Settled \/ \A r \in Replicas : lost[r])

\* The replicas do not answer each other's status writes for ever: every
\* write enqueues the object in every replica, and the exchange dies out.
WritesStop == <>[][\A r \in Replicas : ~WriteStatus(r)]_vars
=============================================================================
