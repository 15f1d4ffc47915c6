------------------------------ MODULE ListenerSync ------------------------------
(***************************************************************************)
(* The hand-over from the Route controller (RDS) to the Listener           *)
(* controller (LDS) and the reconciliation flags both of them drive.       *)
(*                                                                         *)
(* RDS places Routes in RouteConfigs and then tells LDS which listeners to *)
(* rebuild: notifyListeners marks each of them pending, with a fresh       *)
(* sequence number, and sends an event.  LDS takes the number before it    *)
(* reads any state and clears the mark afterwards only if the number is    *)
(* still the one it took.  The xDS server publishes nothing while          *)
(* AllReconciled is false.                                                 *)
(*                                                                         *)
(* One Envoy node is modelled.  RDS and LDS each run one worker; API       *)
(* edits, the two init runnables and the "done" goroutines run beside      *)
(* them.  A Route is the data the hand-over can tell apart: its            *)
(* generation, the listeners it refers to, whether it converts, and rev,   *)
(* which names its content (RDS stores a new Route pointer per version).   *)
(***************************************************************************)
EXTENDS Naturals, FiniteSets

CONSTANTS
    Routes,             \* Route objects, by name
    Listeners,          \* Listener objects, by name
    Static,             \* the Listeners that define filter_chains of their own
    Existing,           \* the Routes found in Kubernetes at start-up
    MaxEdits,           \* bound: API edits and busy spells of the TLSSecret controller
    MaxFails,           \* bound: failed API reads and reconciles that time out
    CoalescedRecreate,  \* may a Route be recreated before its deletion is seen?
    LateInit            \* may an init runnable end after the first reconciles?

ASSUME SyncAssumption ==
    /\ Routes # {} /\ Listeners # {} /\ Static \subseteq Listeners
    /\ Existing \subseteq Routes
    /\ MaxEdits \in Nat /\ MaxFails \in Nat
    /\ CoalescedRecreate \in BOOLEAN /\ LateInit \in BOOLEAN

\* The controllers modelled in full, and all whose flags LDS waits for.
Built == {"routes", "listeners"}
Kinds == Built \union {"secrets"}

RouteObject == [gen: Nat, rev: Nat, refs: SUBSET Listeners, ok: BOOLEAN]
NoRoute == [gen |-> 0, rev |-> 0, refs |-> {}, ok |-> FALSE]
Exists(o) == o.gen # 0

ListenerObject == {"none", "good", "bad"}

\* A built listener is the set of (route, rev) filter chains it carries.
Chain == Routes \X Nat
ListenerConfig == [built: BOOLEAN, chains: SUBSET Chain]
NotServed == [built |-> FALSE, chains |-> {}]

VARIABLES
    apiRoutes,        \* the Route objects in Kubernetes
    apiListeners,     \* the Listener objects in Kubernetes
    edits,            \* number of edits so far
    fails,            \* number of failed reads and timeouts so far
    RouteConfigs,     \* Config.RouteConfigs of the node: the placed Routes
    ListenerConfigs,  \* Config.ListenerConfigs of the node
    active,           \* status.active of each Listener object
    rdsQueue,         \* work queue of the Route controller
    rds,              \* the Route worker
    ldsQueue,         \* work queue of the Listener controller
    lds,              \* the Listener worker
    pendingSeq,       \* ReconciliationStatus.pendingSeq
    pendingListeners, \* ReconciliationStatus.pendingListeners, 0 for no entry
    has,              \* the has<Kind> flags
    reconciled,       \* the <kind>Reconciled flags
    initialized,      \* the <kind>Initialized flags
    reconciling,      \* each reconciler's atomic counter
    sleeping,         \* done goroutines in their one-second sleep
    opening           \* done goroutines that saw 0 and have yet to set the flag

api == <<apiRoutes, apiListeners, edits>>
configs == <<RouteConfigs, ListenerConfigs, active>>
pending == <<pendingSeq, pendingListeners>>
flags == <<has, reconciled, initialized>>
goroutines == <<reconciling, sleeping, opening>>
vars == <<api, fails, configs, rdsQueue, rds, ldsQueue, lds, pending, flags,
          goroutines>>

RdsWorker == [pc: {"idle", "place", "placed", "notify"}, key: Routes, obj: RouteObject,
              names: SUBSET Listeners, timedOut: BOOLEAN]
LdsWorker == [pc: {"idle", "read", "write"}, key: Listeners, obj: ListenerObject,
              seq: Nat, next: ListenerConfig, timedOut: BOOLEAN]
RdsIdle == [pc |-> "idle", key |-> CHOOSE r \in Routes : TRUE, obj |-> NoRoute,
            names |-> {}, timedOut |-> FALSE]
LdsIdle == [pc |-> "idle", key |-> CHOOSE l \in Listeners : TRUE, obj |-> "none",
            seq |-> 0, next |-> NotServed, timedOut |-> FALSE]

-----------------------------------------------------------------------------
(* What the two controllers compute. *)

\* getNodesForRoute: a Route is placed only if one of its listeners exists.
HasListener(o) == \E l \in o.refs : apiListeners[l] # "none"

\* placement.same: the new placement needs no rebuild.
Same(previous, o) ==
    /\ Exists(previous)
    /\ previous.gen = o.gen
    /\ previous.refs = o.refs

\* The Route's next placement, given the object read and the current one.
Placement(o, previous) ==
    IF ~Exists(o) \/ o.refs = {} THEN NoRoute
    ELSE IF ~o.ok THEN previous
    ELSE IF ~HasListener(o) THEN NoRoute
    ELSE o

\* Mutant of Affected: the listeners a Route moved away from are forgotten.
AffectedNewOnly(o, previous) ==
    LET next == Placement(o, previous) IN
    IF ~Exists(next) THEN previous.refs
    ELSE IF next = previous \/ Same(previous, next) THEN {}
    ELSE next.refs

\* The listeners notifyListeners is called with: those the Route was removed
\* from, or those of the old and the new placement when it changed.
Affected(o, previous) ==
    LET next == Placement(o, previous) IN
    IF ~Exists(next) THEN previous.refs
    ELSE IF next = previous \/ Same(previous, next) THEN {}
    ELSE previous.refs \union next.refs

\* getRoutesForNode: the filter chains of the placed Routes attached to l.
ChainsFor(l) ==
    {c \in {<<r, RouteConfigs[r].rev>> : r \in Routes} :
        /\ Exists(RouteConfigs[c[1]])
        /\ l \in RouteConfigs[c[1]].refs}

\* What a rebuild of l leaves in ListenerConfigs, given the object it read.  A
\* listener that does not convert keeps the version that is served.
Rebuild(obj, l) ==
    IF obj = "none" \/ (l \notin Static /\ ChainsFor(l) = {}) THEN NotServed
    ELSE IF obj = "bad" THEN ListenerConfigs[l]
    ELSE [built |-> TRUE, chains |-> ChainsFor(l)]

-----------------------------------------------------------------------------
(* ReconciliationStatus *)

AllInitialized == \A k \in Kinds : initialized[k]
HasPendingListeners == \E l \in Listeners : pendingListeners[l] # 0

\* AllReconciled: the gate in front of the xDS server.
AllReconciled ==
    /\ AllInitialized
    /\ \A k \in Kinds : has[k] => reconciled[k]
    /\ ~HasPendingListeners

\* SetHas<Kind>(true), as a reconcile or an init runnable calls it.
SetHas(k) ==
    /\ has' = [has EXCEPT ![k] = TRUE]
    /\ reconciled' = [reconciled EXCEPT ![k] = FALSE]

-----------------------------------------------------------------------------
(* Edits of the Kubernetes API.  Every edit enqueues the object; a Listener *)
(* event also enqueues the Routes that refer to it (routesForListener).     *)

RouteEdit(r, o) ==
    /\ edits < MaxEdits
    /\ edits' = edits + 1
    /\ apiRoutes' = [apiRoutes EXCEPT ![r] = o]
    /\ rdsQueue' = rdsQueue \union {r}
    /\ UNCHANGED <<apiListeners, fails, configs, rds, ldsQueue, lds, pending,
                   flags, goroutines>>

\* A deletion RDS has finished with: nothing of the old object is left.
Forgotten(r) ==
    /\ ~Exists(RouteConfigs[r])
    /\ r \notin rdsQueue
    /\ rds.pc = "idle" \/ rds.key # r

CreateRoute(r, refs, ok) ==
    /\ ~Exists(apiRoutes[r])
    /\ CoalescedRecreate \/ Forgotten(r)
    /\ RouteEdit(r, [gen |-> 1, rev |-> edits + 1, refs |-> refs, ok |-> ok])

UpdateRoute(r, refs, ok) ==
    /\ Exists(apiRoutes[r])
    /\ RouteEdit(r, [gen |-> apiRoutes[r].gen + 1, rev |-> edits + 1,
                     refs |-> refs, ok |-> ok])

DeleteRoute(r) ==
    /\ Exists(apiRoutes[r])
    /\ RouteEdit(r, NoRoute)

\* routesForListener
routesForListener(l) == {r \in Routes : l \in apiRoutes[r].refs}

ListenerEdit(l, obj) ==
    /\ edits < MaxEdits
    /\ apiListeners[l] # obj
    /\ edits' = edits + 1
    /\ apiListeners' = [apiListeners EXCEPT ![l] = obj]
    /\ ldsQueue' = ldsQueue \union {l}
    /\ rdsQueue' = rdsQueue \union routesForListener(l)
    /\ UNCHANGED <<apiRoutes, fails, configs, rds, lds, pending, flags, goroutines>>

-----------------------------------------------------------------------------
(* Bookkeeping every reconciler shares: the counter goes up when a          *)
(* reconcile starts; a goroutine waits for its end or for its timeout,      *)
(* sleeps one second, counts down and, at 0, sets the reconciled flag.      *)

DoneSleep(k) ==
    /\ sleeping' = [sleeping EXCEPT ![k] = @ + 1]
    /\ UNCHANGED <<reconciling, opening>>

Begin(k) ==
    /\ reconciling' = [reconciling EXCEPT ![k] = @ + 1]
    /\ UNCHANGED <<sleeping, opening>>

\* The goroutine wakes and counts down; only the one that reaches 0 goes on.
Wake(k) ==
    /\ sleeping[k] > 0
    /\ sleeping' = [sleeping EXCEPT ![k] = @ - 1]
    /\ reconciling' = [reconciling EXCEPT ![k] = @ - 1]
    /\ opening' = [opening EXCEPT ![k] = @ + (IF reconciling[k] = 1 THEN 1 ELSE 0)]
    /\ UNCHANGED <<api, fails, configs, rdsQueue, rds, ldsQueue, lds, pending, flags>>

\* Set<Kind>Reconciled(true).  Without LateInit the init runnable has ended.
SetReconciled(k) ==
    /\ opening[k] > 0
    /\ LateInit \/ initialized[k]
    /\ opening' = [opening EXCEPT ![k] = @ - 1]
    /\ reconciled' = [reconciled EXCEPT ![k] = TRUE]
    /\ UNCHANGED <<api, fails, configs, rdsQueue, rds, ldsQueue, lds, pending, has,
                   initialized, reconciling, sleeping>>

\* The init runnable: list the objects, reset the flag if there are any, and
\* mark the controller initialized.
InitRunnable(k, nonEmpty) ==
    /\ ~initialized[k]
    /\ initialized' = [initialized EXCEPT ![k] = TRUE]
    /\ IF nonEmpty THEN SetHas(k) ELSE UNCHANGED <<has, reconciled>>
    /\ UNCHANGED <<api, fails, configs, rdsQueue, rds, ldsQueue, lds, pending, goroutines>>

InitRoutes == InitRunnable("routes", \E r \in Routes : Exists(apiRoutes[r]))
InitListeners == InitRunnable("listeners", \E l \in Listeners : apiListeners[l] # "none")

\* The TLSSecret controller, seen from here: a reconcile closes its flag, and
\* the last one to end opens it again.
SecretsBusy ==
    /\ edits < MaxEdits
    /\ edits' = edits + 1
    /\ SetHas("secrets")
    /\ UNCHANGED <<apiRoutes, apiListeners, fails, configs, rdsQueue, rds, ldsQueue,
                   lds, pending, initialized, goroutines>>

SecretsDone ==
    /\ ~reconciled["secrets"]
    /\ reconciled' = [reconciled EXCEPT !["secrets"] = TRUE]
    /\ UNCHANGED <<api, fails, configs, rdsQueue, rds, ldsQueue, lds, pending, has,
                   initialized, goroutines>>

-----------------------------------------------------------------------------
(* RouteReconciler.Reconcile *)

\* The reconcile starts and reads the Route.
RdsStart(r) ==
    /\ rds.pc = "idle"
    /\ r \in rdsQueue
    /\ rdsQueue' = rdsQueue \ {r}
    /\ rds' = [pc |-> "place", key |-> r, obj |-> apiRoutes[r], names |-> {},
               timedOut |-> FALSE]
    /\ SetHas("routes")
    /\ Begin("routes")
    /\ UNCHANGED <<api, fails, configs, ldsQueue, lds, pending, initialized>>

\* The read failed: the reconcile returns the error and is retried.
RdsGetFails ==
    /\ rds.pc = "place"
    /\ fails < MaxFails
    /\ fails' = fails + 1
    /\ rds' = RdsIdle
    /\ rdsQueue' = rdsQueue \union {rds.key}
    /\ IF rds.timedOut THEN UNCHANGED goroutines ELSE DoneSleep("routes")
    /\ UNCHANGED <<api, configs, ldsQueue, lds, pending, flags>>

\* The Route is placed, kept or removed under the config lock.  Whether its filter
\* chain lets it be placed at all is RouteConflicts' part: here no two chains clash.
RdsPlace ==
    /\ rds.pc = "place"
    /\ LET previous == RouteConfigs[rds.key] IN
        /\ RouteConfigs' = [RouteConfigs EXCEPT ![rds.key] = Placement(rds.obj, previous)]
        /\ rds' = [rds EXCEPT !.pc = "placed", !.names = Affected(rds.obj, previous)]
    /\ UNCHANGED <<api, fails, ListenerConfigs, active, rdsQueue, ldsQueue, lds, pending,
                   flags, goroutines>>

\* notifyListeners begins: with nothing to rebuild it returns at once.
RdsAnnounce ==
    /\ rds.pc = "placed"
    /\ rds' = [rds EXCEPT !.pc = "notify"]
    /\ reconciled' = IF rds.names = {} THEN reconciled
                     ELSE [reconciled EXCEPT !["listeners"] = FALSE]
    /\ UNCHANGED <<api, fails, configs, rdsQueue, ldsQueue, lds, pending, has,
                   initialized, goroutines>>

\* notifyListeners, one listener: mark it pending and send the event.
RdsNotify(l) ==
    /\ rds.pc = "notify"
    /\ l \in rds.names
    /\ rds' = [rds EXCEPT !.names = @ \ {l}]
    /\ pendingSeq' = pendingSeq + 1
    /\ pendingListeners' = [pendingListeners EXCEPT ![l] = pendingSeq + 1]
    /\ ldsQueue' = ldsQueue \union {l}
    /\ UNCHANGED <<api, fails, configs, rdsQueue, lds, flags, goroutines>>

\* Mutant of RdsFinish: a second goroutine counts down after a timeout.
RdsFinishCountsTwice ==
    /\ rds.pc = "notify"
    /\ rds.names = {}
    /\ rds' = RdsIdle
    /\ DoneSleep("routes")
    /\ UNCHANGED <<api, fails, configs, rdsQueue, ldsQueue, lds, pending, flags>>

\* Reconcile returns: the context is cancelled and the goroutine released.
RdsFinish ==
    /\ rds.pc = "notify"
    /\ rds.names = {}
    /\ rds' = RdsIdle
    /\ IF rds.timedOut THEN UNCHANGED goroutines ELSE DoneSleep("routes")
    /\ UNCHANGED <<api, fails, configs, rdsQueue, ldsQueue, lds, pending, flags>>

\* The 30 s context expires while Reconcile still runs.
RdsTimeout ==
    /\ rds.pc # "idle"
    /\ ~rds.timedOut
    /\ fails < MaxFails
    /\ fails' = fails + 1
    /\ rds' = [rds EXCEPT !.timedOut = TRUE]
    /\ DoneSleep("routes")
    /\ UNCHANGED <<api, configs, rdsQueue, ldsQueue, lds, pending, flags>>

-----------------------------------------------------------------------------
(* ListenerReconciler.Reconcile *)

\* LDS builds nothing before RDS has listed and placed, and SDS is done.
LdsMayBuild ==
    /\ initialized["routes"]
    /\ reconciled["routes"]
    /\ reconciled["secrets"]

\* Mutant of LdsWait: the reconcile ends without RequeueAfter.
LdsWaitDropped(l) ==
    /\ lds.pc = "idle"
    /\ l \in ldsQueue
    /\ ~LdsMayBuild
    /\ ldsQueue' = ldsQueue \ {l}
    /\ SetHas("listeners")
    /\ UNCHANGED <<api, fails, configs, rdsQueue, rds, lds, pending, initialized,
                   goroutines>>

\* Not yet: come back in one second (RequeueAfter).
LdsWait(l) ==
    /\ lds.pc = "idle"
    /\ l \in ldsQueue
    /\ ~LdsMayBuild
    /\ SetHas("listeners")
    /\ UNCHANGED <<api, fails, configs, rdsQueue, rds, ldsQueue, lds, pending,
                   initialized, goroutines>>

\* Take the pending token, then read the Listener.
LdsStart(l) ==
    /\ lds.pc = "idle"
    /\ l \in ldsQueue
    /\ LdsMayBuild
    /\ ldsQueue' = ldsQueue \ {l}
    /\ lds' = [pc |-> "read", key |-> l, obj |-> apiListeners[l],
               seq |-> pendingListeners[l], next |-> NotServed, timedOut |-> FALSE]
    /\ SetHas("listeners")
    /\ Begin("listeners")
    /\ UNCHANGED <<api, fails, configs, rdsQueue, rds, pending, initialized>>

\* Mutant of LdsGetFails: the read error is swallowed.
LdsGetFailsSwallowed ==
    /\ lds.pc = "read"
    /\ fails < MaxFails
    /\ fails' = fails + 1
    /\ lds' = LdsIdle
    /\ IF lds.timedOut THEN UNCHANGED goroutines ELSE DoneSleep("listeners")
    /\ UNCHANGED <<api, configs, rdsQueue, rds, ldsQueue, pending, flags>>

\* The read failed: the mark stays and the reconcile is retried.
LdsGetFails ==
    /\ lds.pc = "read"
    /\ fails < MaxFails
    /\ fails' = fails + 1
    /\ lds' = LdsIdle
    /\ ldsQueue' = ldsQueue \union {lds.key}
    /\ IF lds.timedOut THEN UNCHANGED goroutines ELSE DoneSleep("listeners")
    /\ UNCHANGED <<api, configs, rdsQueue, rds, pending, flags>>

\* Read the placed Routes under the read lock and build the listener.
LdsRead ==
    /\ lds.pc = "read"
    /\ lds' = [lds EXCEPT !.pc = "write", !.next = Rebuild(lds.obj, lds.key)]
    /\ UNCHANGED <<api, fails, configs, rdsQueue, rds, ldsQueue, pending, flags,
                   goroutines>>

\* Mutant of ClearListenerPending: any mark is cleared, also a later one.
ClearAnyPending(l, seq) ==
    pendingListeners' = [pendingListeners EXCEPT ![l] = 0]

\* ClearListenerPending: a mark placed after seq was taken stays.
ClearListenerPending(l, seq) ==
    pendingListeners' = IF pendingListeners[l] = seq
                        THEN [pendingListeners EXCEPT ![l] = 0]
                        ELSE pendingListeners

\* Store the listener under the lock; Reconcile returns and clears the mark.
LdsFinish ==
    /\ lds.pc = "write"
    /\ ListenerConfigs' = [ListenerConfigs EXCEPT ![lds.key] = lds.next]
    /\ active' = [active EXCEPT ![lds.key] = lds.next.built /\ lds.obj = "good"]
    /\ ClearListenerPending(lds.key, lds.seq)
    /\ lds' = LdsIdle
    /\ IF lds.timedOut THEN UNCHANGED goroutines ELSE DoneSleep("listeners")
    /\ UNCHANGED <<api, fails, RouteConfigs, rdsQueue, rds, ldsQueue, pendingSeq, flags>>

\* The 30 s context expires while Reconcile still runs.
LdsTimeout ==
    /\ lds.pc # "idle"
    /\ ~lds.timedOut
    /\ fails < MaxFails
    /\ fails' = fails + 1
    /\ lds' = [lds EXCEPT !.timedOut = TRUE]
    /\ DoneSleep("listeners")
    /\ UNCHANGED <<api, configs, rdsQueue, rds, ldsQueue, pending, flags>>

-----------------------------------------------------------------------------
(* The process starts with the objects it finds in Kubernetes, all queued.  *)

Init ==
    /\ apiRoutes = [r \in Routes |->
            IF r \in Existing
            THEN [gen |-> 1, rev |-> 0, refs |-> Listeners, ok |-> TRUE]
            ELSE NoRoute]
    /\ apiListeners = [l \in Listeners |-> "good"]
    /\ edits = 0
    /\ fails = 0
    /\ RouteConfigs = [r \in Routes |-> NoRoute]
    /\ ListenerConfigs = [l \in Listeners |-> NotServed]
    /\ active = [l \in Listeners |-> FALSE]
    /\ rdsQueue = Existing
    /\ rds = RdsIdle
    /\ ldsQueue = Listeners
    /\ lds = LdsIdle
    /\ pendingSeq = 0
    /\ pendingListeners = [l \in Listeners |-> 0]
    /\ has = [k \in Kinds |-> FALSE]
    /\ reconciled = [k \in Kinds |-> TRUE]
    /\ initialized = [k \in Kinds |-> k = "secrets"]
    /\ reconciling = [k \in Built |-> 0]
    /\ sleeping = [k \in Built |-> 0]
    /\ opening = [k \in Built |-> 0]

Edit ==
    \/ \E r \in Routes, refs \in SUBSET Listeners, ok \in BOOLEAN :
          CreateRoute(r, refs, ok) \/ UpdateRoute(r, refs, ok)
    \/ \E r \in Routes : DeleteRoute(r)
    \/ \E l \in Listeners, obj \in ListenerObject : ListenerEdit(l, obj)
    \/ SecretsBusy

InitRunnables == InitRoutes \/ InitListeners

RdsStep ==
    \/ \E r \in Routes : RdsStart(r)
    \/ RdsPlace
    \/ RdsAnnounce
    \/ \E l \in Listeners : RdsNotify(l)
    \/ RdsFinish

LdsStep ==
    \/ \E l \in Listeners : LdsStart(l)
    \/ LdsRead
    \/ LdsFinish

Failure == RdsGetFails \/ RdsTimeout \/ LdsGetFails \/ LdsTimeout

Next ==
    \/ Edit
    \/ InitRunnables
    \/ RdsStep
    \/ LdsStep
    \/ \E l \in Listeners : LdsWait(l)
    \/ \E k \in Built : Wake(k) \/ SetReconciled(k)
    \/ SecretsDone
    \/ Failure

Safe == Init /\ [][Next]_vars

\* The manager runs its runnables, workers and goroutines; nobody need edit.
Fairness ==
    /\ WF_vars(InitRoutes) /\ WF_vars(InitListeners)
    /\ WF_vars(RdsStep)
    /\ WF_vars(LdsStep)
    /\ WF_vars(SecretsDone)
    /\ \A k \in Built : WF_vars(Wake(k)) /\ WF_vars(SetReconciled(k))

Spec == Safe /\ Fairness

-----------------------------------------------------------------------------
(* Properties *)

\* Every variable has its type: the counters of running reconciles and of done
\* goroutines, which Reconcile and its timeout both count down, never go negative.
TypeOK ==
    /\ apiRoutes \in [Routes -> RouteObject]
    /\ apiListeners \in [Listeners -> ListenerObject]
    /\ edits \in Nat /\ fails \in Nat
    /\ RouteConfigs \in [Routes -> RouteObject]
    /\ ListenerConfigs \in [Listeners -> ListenerConfig]
    /\ active \in [Listeners -> BOOLEAN]
    /\ rdsQueue \subseteq Routes /\ rds \in RdsWorker
    /\ ldsQueue \subseteq Listeners /\ lds \in LdsWorker
    /\ pendingSeq \in Nat /\ pendingListeners \in [Listeners -> Nat]
    /\ has \in [Kinds -> BOOLEAN] /\ reconciled \in [Kinds -> BOOLEAN]
    /\ initialized \in [Kinds -> BOOLEAN]
    /\ reconciling \in [Built -> Nat] /\ sleeping \in [Built -> Nat]
    /\ opening \in [Built -> Nat]

\* What LDS would leave for l if it ran to its end now.
Target(l) == Rebuild(apiListeners[l], l)

\* RDS has stored a placement that changes l and has not yet marked l pending.
BeingAnnounced(l) == rds.pc \in {"placed", "notify"} /\ l \in rds.names

\* Someone still has to rebuild l, or is about to store the right result.
RebuildOwed(l) ==
    \/ l \in ldsQueue
    \/ lds.pc = "read" /\ lds.key = l
    \/ lds.pc = "write" /\ lds.key = l /\ lds.next = Target(l)
    \/ BeingAnnounced(l)

\* A served listener that no longer matches the placed Routes and its own
\* object is never forgotten: an event, a running rebuild or a running RDS
\* reconcile still leads to its rebuild.  This is what notifyListeners, the
\* rule of placement.same and the order token-read-store in LDS are for.
NoLostRebuild ==
    \A l \in Listeners : ListenerConfigs[l] # Target(l) => RebuildOwed(l)

\* A pending mark always has a rebuild coming that can clear it: the listener
\* is queued, or the running rebuild holds exactly the mark's token.  An
\* orphaned mark would keep AllReconciled false for ever.
PendingIsOwed ==
    \A l \in Listeners : pendingListeners[l] # 0 =>
        \/ l \in ldsQueue
        \/ lds.pc # "idle" /\ lds.key = l /\ lds.seq = pendingListeners[l]

\* With the gate open, an active listener carries exactly the chains of the placed
\* Routes, or RDS has just placed a Route of it and has not reached its mark in
\* notifyListeners.  That window is real: the gate is open in it when a done
\* goroutine that saw 0, or that of a reconcile that timed out, sets
\* routesReconciled under the running reconcile, and the server may then publish
\* the listener as it was before the placement.  Outside of it, and for every
\* listener RDS is not about to mark, an open gate shows no outdated chains.
GateMatchesRoutes ==
    AllReconciled => \A l \in Listeners :
        active[l] => ListenerConfigs[l].chains = ChainsFor(l) \/ BeingAnnounced(l)

Settled ==
    /\ AllReconciled
    /\ \A l \in Listeners : ListenerConfigs[l] = Target(l)

\* Once the edits stop, LDS catches up with RDS and the gate opens for good,
\* whatever reconciles failed or timed out on the way.
Converges == <>[]Settled

=============================================================================
