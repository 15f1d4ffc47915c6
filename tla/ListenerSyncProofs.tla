--------------------------- MODULE ListenerSyncProofs ---------------------------
(***************************************************************************)
(* Proofs about ListenerSync for any sets of Routes and Listeners and any  *)
(* bounds: no rebuild is lost, no pending mark is orphaned, and behind an  *)
(* open gate only a listener RDS is about to mark has outdated chains.     *)
(*                                                                         *)
(* The invariant speaks of what each party knows.  Generations identify a  *)
(* Route's content as long as no deletion is coalesced with a recreation   *)
(* (GenerationsIdentify), so placement.same only skips the notification    *)
(* when nothing changed.  From there every way a listener can become       *)
(* outdated leaves a trace: an entry in the LDS queue, a name RDS has      *)
(* still to notify, or a rebuild that holds an old token.                  *)
(***************************************************************************)
EXTENDS ListenerSync, TLAPS

\* b is a version of the object that a is a version of, and not an older one.
NotOlder(a, b) ==
    Exists(a) /\ Exists(b) => a.gen <= b.gen /\ (a.gen = b.gen => a = b)

\* Versions of one Route are ordered and told apart by their generation.
GenerationsIdentify ==
    \A r \in Routes :
        /\ NotOlder(RouteConfigs[r], apiRoutes[r])
        /\ rds.pc = "place" /\ rds.key = r =>
             NotOlder(rds.obj, apiRoutes[r]) /\ NotOlder(RouteConfigs[r], rds.obj)

\* A listener that differs from its target has a rebuild coming.
StaleIsOwed ==
    \A l \in Listeners : ListenerConfigs[l] # Target(l) =>
        \/ l \in ldsQueue
        \/ BeingAnnounced(l)
        \/ lds.pc = "read" /\ lds.key = l /\ lds.obj = apiListeners[l]
        \/ lds.pc = "write" /\ lds.key = l /\ lds.next = Target(l)

\* A rebuild that works from outdated state will be followed by another one.
StaleRebuildIsFollowed ==
    /\ lds.pc = "read" /\ lds.obj # apiListeners[lds.key] => lds.key \in ldsQueue
    /\ lds.pc = "write" /\ lds.next # Target(lds.key) =>
         lds.key \in ldsQueue \/ BeingAnnounced(lds.key)

\* Tokens are handed out in increasing order.
TokensBounded ==
    /\ \A l \in Listeners : pendingListeners[l] <= pendingSeq
    /\ lds.seq <= pendingSeq

\* An active listener with outdated chains is marked, or about to be.
StaleIsPending ==
    \A l \in Listeners : active[l] /\ ListenerConfigs[l].chains # ChainsFor(l) =>
        pendingListeners[l] # 0 \/ BeingAnnounced(l)

\* A rebuild that will store outdated chains holds an outdated token.
StaleRebuildHoldsOldToken ==
    lds.pc = "write" /\ lds.obj = "good" /\ lds.next.built
        /\ lds.next.chains # ChainsFor(lds.key) =>
            \/ pendingListeners[lds.key] > lds.seq
            \/ BeingAnnounced(lds.key)

\* Each reconciler's counter is its sleeping goroutines and its running worker,
\* so that it never falls below 0.
CountersBalance ==
    /\ reconciling["routes"] =
         sleeping["routes"] + (IF rds.pc # "idle" /\ ~rds.timedOut THEN 1 ELSE 0)
    /\ reconciling["listeners"] =
         sleeping["listeners"] + (IF lds.pc # "idle" /\ ~lds.timedOut THEN 1 ELSE 0)

IInv ==
    /\ TypeOK
    /\ CountersBalance
    /\ GenerationsIdentify
    /\ StaleIsOwed
    /\ StaleRebuildIsFollowed
    /\ TokensBounded
    /\ PendingIsOwed
    /\ StaleIsPending
    /\ StaleRebuildHoldsOldToken

-----------------------------------------------------------------------------
(* Types *)

\* The constants are what SyncAssumption says, and idle workers are typed.
LEMMA IdleTypes == RdsIdle \in RdsWorker /\ LdsIdle \in LdsWorker
  BY SyncAssumption
     DEF SyncAssumption, RdsIdle, LdsIdle, RdsWorker, LdsWorker, RouteObject, NoRoute,
         ListenerObject, ListenerConfig, NotServed, Chain

\* What the two controllers compute has the type of what it is stored in.
LEMMA PlacementType ==
  ASSUME TypeOK, NEW o \in RouteObject, NEW previous \in RouteObject
  PROVE  /\ Placement(o, previous) \in RouteObject
         /\ Affected(o, previous) \subseteq Listeners
  BY DEF Placement, Affected, RouteObject, NoRoute, Exists

\* What a rebuild stores has the type of a listener.
LEMMA RebuildType ==
  ASSUME TypeOK, NEW obj, NEW l \in Listeners
  PROVE  Rebuild(obj, l) \in ListenerConfig
  <1>1. ChainsFor(l) \in SUBSET Chain
    BY DEF ChainsFor, Chain, TypeOK, RouteObject
  <1> QED
    BY <1>1 DEF Rebuild, TypeOK, ListenerConfig, NotServed

\* Every step keeps the types, and the counters above 0.
LEMMA TypeStep ==
  ASSUME TypeOK, CountersBalance, [Next]_vars
  PROVE  TypeOK' /\ CountersBalance'
  <1> USE DEF Built, Kinds
  <1>1. ASSUME NEW r \in Routes, NEW refs \in SUBSET Listeners, NEW ok \in BOOLEAN,
               CreateRoute(r, refs, ok) \/ UpdateRoute(r, refs, ok)
        PROVE  TypeOK' /\ CountersBalance'
    BY <1>1 DEF TypeOK, CountersBalance, CreateRoute, UpdateRoute, RouteEdit, RouteObject,
                configs, pending, flags, goroutines
  <1>2. ASSUME NEW r \in Routes, DeleteRoute(r)
        PROVE  TypeOK' /\ CountersBalance'
    BY <1>2 DEF TypeOK, CountersBalance, DeleteRoute, RouteEdit, RouteObject, NoRoute,
                configs, pending, flags, goroutines
  <1>3. ASSUME NEW l \in Listeners, NEW obj \in ListenerObject, ListenerEdit(l, obj)
        PROVE  TypeOK' /\ CountersBalance'
    BY <1>3 DEF TypeOK, CountersBalance, ListenerEdit, routesForListener,
                configs, pending, flags, goroutines
  <1>4. CASE SecretsBusy
    BY <1>4 DEF TypeOK, CountersBalance, SecretsBusy, SetHas, configs, pending, goroutines
  <1>5. CASE InitRunnables
    BY <1>5 DEF TypeOK, CountersBalance, InitRunnables, InitRoutes, InitListeners,
                InitRunnable, SetHas, api, configs, pending, goroutines
  <1>6. ASSUME NEW r \in Routes, RdsStart(r)
        PROVE  TypeOK' /\ CountersBalance'
    BY <1>6 DEF TypeOK, CountersBalance, RdsStart, SetHas, Begin, RdsWorker,
                api, configs, pending
  <1>7. CASE RdsPlace
    <2>1. rds.obj \in RouteObject /\ RouteConfigs[rds.key] \in RouteObject
      BY DEF TypeOK, RdsWorker
    <2>2. /\ Placement(rds.obj, RouteConfigs[rds.key]) \in RouteObject
          /\ Affected(rds.obj, RouteConfigs[rds.key]) \subseteq Listeners
      BY <2>1, PlacementType
    <2> QED
      BY <1>7, <2>2 DEF TypeOK, CountersBalance, RdsPlace, RdsWorker, api, pending,
                        flags, goroutines
  <1>8. CASE RdsAnnounce
    BY <1>8 DEF TypeOK, CountersBalance, RdsAnnounce, RdsWorker, api, configs, pending,
                goroutines
  <1>9. ASSUME NEW l \in Listeners, RdsNotify(l)
        PROVE  TypeOK' /\ CountersBalance'
    BY <1>9 DEF TypeOK, CountersBalance, RdsNotify, RdsWorker, api, configs, flags,
                goroutines
  <1>10. CASE RdsFinish
    BY <1>10, IdleTypes DEF TypeOK, CountersBalance, RdsFinish, DoneSleep, RdsIdle,
                            RdsWorker, api, configs, pending, flags, goroutines
  <1>11. ASSUME NEW l \in Listeners, LdsStart(l)
         PROVE  TypeOK' /\ CountersBalance'
    BY <1>11 DEF TypeOK, CountersBalance, LdsStart, SetHas, Begin, LdsWorker,
                 ListenerConfig, NotServed, api, configs, pending
  <1>12. CASE LdsRead
    <2>1. Rebuild(lds.obj, lds.key) \in ListenerConfig
      BY RebuildType DEF TypeOK, LdsWorker
    <2> QED
      BY <1>12, <2>1 DEF TypeOK, CountersBalance, LdsRead, LdsWorker, api, configs,
                         pending, flags, goroutines
  <1>13. CASE LdsFinish
    BY <1>13, IdleTypes DEF TypeOK, CountersBalance, LdsFinish, DoneSleep, LdsIdle,
                            LdsWorker, ListenerConfig, ClearListenerPending, api, flags,
                            goroutines
  <1>14. ASSUME NEW l \in Listeners, LdsWait(l)
         PROVE  TypeOK' /\ CountersBalance'
    BY <1>14 DEF TypeOK, CountersBalance, LdsWait, SetHas, api, configs, pending,
                 goroutines
  <1>15. ASSUME NEW k \in Built, Wake(k)
         PROVE  TypeOK' /\ CountersBalance'
    BY <1>15 DEF TypeOK, CountersBalance, Wake, api, configs, pending, flags
  <1>16. ASSUME NEW k \in Built, SetReconciled(k)
         PROVE  TypeOK' /\ CountersBalance'
    BY <1>16 DEF TypeOK, CountersBalance, SetReconciled, api, configs, pending
  <1>17. CASE SecretsDone
    BY <1>17 DEF TypeOK, CountersBalance, SecretsDone, api, configs, pending, goroutines
  <1>18. CASE RdsGetFails
    BY <1>18, IdleTypes DEF TypeOK, CountersBalance, RdsGetFails, DoneSleep, RdsIdle,
                            RdsWorker, api, configs, pending, flags, goroutines
  <1>19. CASE RdsTimeout
    <2>1. rds' \in RdsWorker
      BY <1>19 DEF RdsTimeout, TypeOK, RdsWorker
    <2>2. rds'.pc = rds.pc /\ rds'.timedOut = TRUE
      BY <1>19 DEF RdsTimeout, TypeOK, RdsWorker
    <2> QED
      BY <1>19, <2>1, <2>2 DEF TypeOK, CountersBalance, RdsTimeout, DoneSleep, api, configs,
                               pending, flags
  <1>20. CASE LdsGetFails
    BY <1>20, IdleTypes DEF TypeOK, CountersBalance, LdsGetFails, DoneSleep, LdsIdle,
                            LdsWorker, api, configs, pending, flags, goroutines
  <1>21. CASE LdsTimeout
    <2>1. lds' \in LdsWorker
      BY <1>21 DEF LdsTimeout, TypeOK, LdsWorker
    <2>2. lds'.pc = lds.pc /\ lds'.timedOut = TRUE
      BY <1>21 DEF LdsTimeout, TypeOK, LdsWorker
    <2> QED
      BY <1>21, <2>1, <2>2 DEF TypeOK, CountersBalance, LdsTimeout, DoneSleep, api, configs,
                               pending, flags
  <1>22. CASE UNCHANGED vars
    BY <1>22 DEF TypeOK, CountersBalance, vars, api, configs, pending, flags, goroutines
  <1> QED
    BY <1>1, <1>2, <1>3, <1>4, <1>5, <1>6, <1>7, <1>8, <1>9, <1>10, <1>11, <1>12, <1>13,
       <1>14, <1>15, <1>16, <1>17, <1>18, <1>19, <1>20, <1>21, <1>22
       DEF Next, Edit, RdsStep, LdsStep, Failure

-----------------------------------------------------------------------------
(* The hand-over *)

\* The parts of IInv about the hand-over.
HandOver ==
    /\ GenerationsIdentify
    /\ StaleIsOwed
    /\ StaleRebuildIsFollowed
    /\ TokensBounded
    /\ PendingIsOwed
    /\ StaleIsPending
    /\ StaleRebuildHoldsOldToken

\* What the target of a listener depends on.
LEMMA TargetDepends ==
  ASSUME NEW l \in Listeners, ChainsFor(l)' = ChainsFor(l),
         apiListeners'[l] = apiListeners[l], ListenerConfigs'[l] = ListenerConfigs[l]
  PROVE  Target(l)' = Target(l)
  BY DEF Target, Rebuild, NotServed

\* The chains depend on the placed Routes alone.
LEMMA ChainsDepend ==
  ASSUME NEW l \in Listeners, UNCHANGED RouteConfigs
  PROVE  ChainsFor(l)' = ChainsFor(l)
  BY DEF ChainsFor, Exists

\* Steps that touch neither objects, configs, queues, marks nor what the
\* workers know keep the hand-over.
LEMMA HandOverFrame ==
  ASSUME TypeOK, HandOver,
         UNCHANGED <<apiRoutes, apiListeners, configs, rdsQueue, ldsQueue, pending>>,
         rds' = rds \/ RdsTimeout, lds' = lds \/ LdsTimeout
  PROVE  HandOver'
  <1>1. /\ rds'.pc = rds.pc /\ rds'.key = rds.key /\ rds'.obj = rds.obj
        /\ rds'.names = rds.names
    BY DEF RdsTimeout, TypeOK, RdsWorker
  <1>2. /\ lds'.pc = lds.pc /\ lds'.key = lds.key /\ lds'.obj = lds.obj
        /\ lds'.seq = lds.seq /\ lds'.next = lds.next
    BY DEF LdsTimeout, TypeOK, LdsWorker
  <1>3. \A l \in Listeners : ChainsFor(l)' = ChainsFor(l) /\ Target(l)' = Target(l)
    BY ChainsDepend, TargetDepends DEF configs
  <1>4. lds.key \in Listeners
    BY DEF TypeOK, LdsWorker
  <1>5. GenerationsIdentify'
    BY <1>1 DEF HandOver, GenerationsIdentify, NotOlder, Exists, configs
  <1>6. StaleIsOwed'
    BY <1>1, <1>2, <1>3 DEF HandOver, StaleIsOwed, BeingAnnounced, configs
  <1>7. StaleRebuildIsFollowed'
    BY <1>1, <1>2, <1>3, <1>4 DEF HandOver, StaleRebuildIsFollowed, BeingAnnounced
  <1>8. TokensBounded' /\ PendingIsOwed'
    BY <1>2 DEF HandOver, TokensBounded, PendingIsOwed, pending
  <1>9. StaleIsPending' /\ StaleRebuildHoldsOldToken'
    BY <1>1, <1>2, <1>3, <1>4
       DEF HandOver, StaleIsPending, StaleRebuildHoldsOldToken, BeingAnnounced, configs, pending
  <1> QED
    BY <1>5, <1>6, <1>7, <1>8, <1>9 DEF HandOver

\* Editing a Route gives it a generation of its own.
LEMMA RouteEditStep ==
  ASSUME CoalescedRecreate = FALSE, TypeOK, HandOver, NEW r \in Routes,
         \/ \E refs \in SUBSET Listeners, ok \in BOOLEAN :
              CreateRoute(r, refs, ok) \/ UpdateRoute(r, refs, ok)
         \/ DeleteRoute(r)
  PROVE  HandOver'
  <1>1. UNCHANGED <<apiListeners, configs, rds, ldsQueue, lds, pending>>
    BY DEF CreateRoute, UpdateRoute, DeleteRoute, RouteEdit
  <1>2. \A l \in Listeners : ChainsFor(l)' = ChainsFor(l) /\ Target(l)' = Target(l)
    BY <1>1, ChainsDepend, TargetDepends DEF configs
  <1>3. lds.key \in Listeners
    BY DEF TypeOK, LdsWorker
  <1>4. \A q \in Routes : q # r => apiRoutes'[q] = apiRoutes[q]
    BY DEF CreateRoute, UpdateRoute, DeleteRoute, RouteEdit, TypeOK
  <1>5. \/ ~Exists(apiRoutes[r])' 
        \/ apiRoutes'[r].gen > apiRoutes[r].gen /\ Exists(apiRoutes[r])
        \/ Forgotten(r)
    BY DEF CreateRoute, UpdateRoute, DeleteRoute, RouteEdit, TypeOK, Exists, NoRoute,
           RouteObject
  <1>6. /\ NotOlder(RouteConfigs[r], apiRoutes[r])'
        /\ rds.pc = "place" /\ rds.key = r => NotOlder(rds.obj, apiRoutes[r])'
    <2>1. NotOlder(RouteConfigs[r], apiRoutes[r])
      BY DEF HandOver, GenerationsIdentify
    <2>2. rds.pc = "place" /\ rds.key = r => NotOlder(rds.obj, apiRoutes[r])
      BY DEF HandOver, GenerationsIdentify
    <2>3. /\ apiRoutes'[r].gen \in Nat \/ ~Exists(apiRoutes'[r])
          /\ apiRoutes[r].gen \in Nat /\ RouteConfigs[r].gen \in Nat /\ rds.obj.gen \in Nat
      BY DEF TypeOK, RdsWorker, RouteObject, CreateRoute, UpdateRoute, DeleteRoute,
             RouteEdit, Exists, NoRoute
    <2> QED
      BY <1>1, <1>5, <2>1, <2>2, <2>3 DEF NotOlder, Exists, Forgotten, configs
  <1>7. GenerationsIdentify'
    BY <1>1, <1>4, <1>6 DEF HandOver, GenerationsIdentify, NotOlder, Exists, configs
  <1>8. StaleIsOwed'
    BY <1>1, <1>2 DEF HandOver, StaleIsOwed, BeingAnnounced, configs
  <1>9. StaleRebuildIsFollowed'
    BY <1>1, <1>2, <1>3 DEF HandOver, StaleRebuildIsFollowed, BeingAnnounced
  <1>10. TokensBounded' /\ PendingIsOwed'
    BY <1>1 DEF HandOver, TokensBounded, PendingIsOwed, pending
  <1>11. StaleIsPending' /\ StaleRebuildHoldsOldToken'
    BY <1>1, <1>2, <1>3
       DEF HandOver, StaleIsPending, StaleRebuildHoldsOldToken, BeingAnnounced, configs, pending
  <1> QED
    BY <1>7, <1>8, <1>9, <1>10, <1>11 DEF HandOver

\* Editing a Listener queues it.
LEMMA ListenerEditStep ==
  ASSUME TypeOK, HandOver, NEW k \in Listeners, NEW obj \in ListenerObject,
         ListenerEdit(k, obj)
  PROVE  HandOver'
  <1>1. /\ UNCHANGED <<apiRoutes, configs, rds, lds, pending>>
        /\ k \in ldsQueue' /\ ldsQueue \subseteq ldsQueue'
    BY DEF ListenerEdit
  <1>2. \A l \in Listeners : ChainsFor(l)' = ChainsFor(l)
    BY <1>1, ChainsDepend DEF configs
  <1>3. \A l \in Listeners :
          l # k => apiListeners'[l] = apiListeners[l] /\ Target(l)' = Target(l)
    BY <1>1, <1>2, TargetDepends DEF configs, ListenerEdit, TypeOK
  <1>4. lds.key \in Listeners
    BY DEF TypeOK, LdsWorker
  <1>5. GenerationsIdentify'
    BY <1>1 DEF HandOver, GenerationsIdentify, NotOlder, Exists, configs
  <1>6. StaleIsOwed'
    BY <1>1, <1>3 DEF HandOver, StaleIsOwed, BeingAnnounced, configs
  <1>7. StaleRebuildIsFollowed'
    BY <1>1, <1>3, <1>4 DEF HandOver, StaleRebuildIsFollowed, BeingAnnounced
  <1>8. TokensBounded' /\ PendingIsOwed'
    BY <1>1 DEF HandOver, TokensBounded, PendingIsOwed, pending
  <1>9. StaleIsPending' /\ StaleRebuildHoldsOldToken'
    BY <1>1, <1>2, <1>4
       DEF HandOver, StaleIsPending, StaleRebuildHoldsOldToken, BeingAnnounced, configs, pending
  <1> QED
    BY <1>5, <1>6, <1>7, <1>8, <1>9 DEF HandOver

\* A Route reconcile that starts, fails, announces or ends owes nothing.
LEMMA RdsOtherStep ==
  ASSUME TypeOK, HandOver,
         \/ \E r \in Routes : RdsStart(r)
         \/ RdsGetFails \/ RdsAnnounce \/ RdsFinish
  PROVE  HandOver'
  <1>1. UNCHANGED <<apiRoutes, apiListeners, configs, ldsQueue, lds, pending>>
    BY DEF RdsStart, RdsGetFails, RdsAnnounce, RdsFinish, api
  <1>2. \A l \in Listeners : ChainsFor(l)' = ChainsFor(l) /\ Target(l)' = Target(l)
    BY <1>1, ChainsDepend, TargetDepends DEF configs
  <1>3. lds.key \in Listeners
    BY DEF TypeOK, LdsWorker
  <1>4. \A l \in Listeners : BeingAnnounced(l)' <=> BeingAnnounced(l)
    BY DEF BeingAnnounced, RdsStart, RdsGetFails, RdsAnnounce, RdsFinish, RdsIdle, TypeOK,
           RdsWorker
  <1>5. rds'.pc = "place" => \E r \in Routes : rds'.key = r /\ rds'.obj = apiRoutes[r]
    BY DEF RdsStart, RdsGetFails, RdsAnnounce, RdsFinish, RdsIdle, TypeOK, RdsWorker
  <1>6. \A r \in Routes : apiRoutes[r].gen \in Nat
    BY DEF TypeOK, RouteObject
  <1>7. GenerationsIdentify'
    BY <1>1, <1>5, <1>6 DEF HandOver, GenerationsIdentify, NotOlder, Exists, configs
  <1>8. StaleIsOwed'
    BY <1>1, <1>2, <1>4 DEF HandOver, StaleIsOwed, configs
  <1>9. StaleRebuildIsFollowed'
    BY <1>1, <1>2, <1>3, <1>4 DEF HandOver, StaleRebuildIsFollowed
  <1>10. TokensBounded' /\ PendingIsOwed'
    BY <1>1 DEF HandOver, TokensBounded, PendingIsOwed, pending
  <1>11. StaleIsPending' /\ StaleRebuildHoldsOldToken'
    BY <1>1, <1>2, <1>3, <1>4
       DEF HandOver, StaleIsPending, StaleRebuildHoldsOldToken, configs, pending
  <1> QED
    BY <1>7, <1>8, <1>9, <1>10, <1>11 DEF HandOver

\* Placing a Route changes the chains of the listeners it will notify, and of
\* no other: where placement.same skips the notification, nothing changed.
LEMMA PlaceChangesAffected ==
  ASSUME TypeOK, GenerationsIdentify, RdsPlace, NEW l \in Listeners, l \notin rds'.names
  PROVE  ChainsFor(l)' = ChainsFor(l)
  <1> DEFINE k == rds.key
             previous == RouteConfigs[k]
             next == Placement(rds.obj, previous)
  <1>1. /\ k \in Routes /\ previous \in RouteObject /\ rds.obj \in RouteObject
        /\ RouteConfigs' = [RouteConfigs EXCEPT ![k] = next]
        /\ l \notin Affected(rds.obj, previous)
    BY DEF TypeOK, RdsWorker, RdsPlace
  <1>2. RouteConfigs'[k] = next /\ \A r \in Routes : r # k => RouteConfigs'[r] = RouteConfigs[r]
    BY <1>1 DEF TypeOK
  <1>3. next = NoRoute \/ next = previous \/ next = rds.obj
    BY DEF Placement
  <1>4. NotOlder(previous, rds.obj)
    BY <1>1 DEF GenerationsIdentify, RdsPlace
  <1>5. \/ next = previous
        \/ /\ Exists(previous) => l \notin previous.refs
           /\ Exists(next) => l \notin next.refs
    <2>1. CASE ~Exists(next)
      BY <1>1, <2>1 DEF Affected
    <2>2. CASE Exists(next) /\ Same(previous, next)
      BY <1>3, <1>4, <2>2 DEF Same, NotOlder, Exists, NoRoute
    <2>3. CASE Exists(next) /\ ~Same(previous, next) /\ next # previous
      BY <1>1, <2>3 DEF Affected
    <2> QED BY <2>1, <2>2, <2>3
  <1> HIDE DEF k, previous, next
  <1>6. \A r \in Routes :
          \/ RouteConfigs'[r] = RouteConfigs[r]
          \/ /\ ~(Exists(RouteConfigs[r]) /\ l \in RouteConfigs[r].refs)
             /\ ~(Exists(RouteConfigs'[r]) /\ l \in RouteConfigs'[r].refs)
    BY <1>2, <1>5 DEF previous
  <1> QED
    BY <1>6 DEF ChainsFor, Exists

\* A placement names every listener it makes outdated, and keeps the invariant.
LEMMA RdsPlaceStep ==
  ASSUME TypeOK, HandOver, RdsPlace
  PROVE  HandOver'
  <1>1. /\ UNCHANGED <<apiRoutes, apiListeners, ListenerConfigs, active, ldsQueue, lds,
                       pending>>
        /\ rds.pc = "place"
    BY DEF RdsPlace, api
  <1>2. rds'.pc = "placed" /\ rds.key \in Routes
    BY DEF RdsPlace, TypeOK, RdsWorker
  <1>3. \A l \in Listeners : ~BeingAnnounced(l)
    BY <1>1 DEF BeingAnnounced
  <1>4. \A l \in Listeners : ~BeingAnnounced(l)' =>
          ChainsFor(l)' = ChainsFor(l) /\ Target(l)' = Target(l)
    BY <1>1, <1>2, PlaceChangesAffected, TargetDepends DEF BeingAnnounced, HandOver
  <1>5. lds.key \in Listeners
    BY DEF TypeOK, LdsWorker
  <1>6. GenerationsIdentify'
    <2>1. /\ RouteConfigs'[rds.key] \in {NoRoute, RouteConfigs[rds.key], rds.obj}
          /\ \A r \in Routes : r # rds.key => RouteConfigs'[r] = RouteConfigs[r]
      BY <1>2 DEF RdsPlace, Placement, TypeOK
    <2>2. \A r \in Routes : NotOlder(RouteConfigs[r], apiRoutes[r])
      BY DEF HandOver, GenerationsIdentify
    <2>3. NotOlder(rds.obj, apiRoutes[rds.key])
      BY <1>1, <1>2 DEF HandOver, GenerationsIdentify
    <2>4. \A r \in Routes : NotOlder(RouteConfigs'[r], apiRoutes[r])
      BY <2>1, <2>2, <2>3 DEF NotOlder, Exists, NoRoute
    <2> QED BY <1>1, <1>2, <2>4 DEF GenerationsIdentify, NotOlder, Exists
  <1>7. StaleIsOwed'
    BY <1>1, <1>3, <1>4 DEF HandOver, StaleIsOwed
  <1>8. StaleRebuildIsFollowed'
    BY <1>1, <1>3, <1>4, <1>5 DEF HandOver, StaleRebuildIsFollowed
  <1>9. TokensBounded' /\ PendingIsOwed'
    BY <1>1 DEF HandOver, TokensBounded, PendingIsOwed, pending
  <1>10. StaleIsPending' /\ StaleRebuildHoldsOldToken'
    BY <1>1, <1>3, <1>4, <1>5
       DEF HandOver, StaleIsPending, StaleRebuildHoldsOldToken, pending
  <1> QED
    BY <1>6, <1>7, <1>8, <1>9, <1>10 DEF HandOver

\* A notification turns a name into a queue entry and a token newer than any
\* token a rebuild holds.
LEMMA RdsNotifyStep ==
  ASSUME TypeOK, HandOver, NEW k \in Listeners, RdsNotify(k)
  PROVE  HandOver'
  <1>1. /\ UNCHANGED <<apiRoutes, apiListeners, configs, lds>>
        /\ rds.pc = "notify" /\ rds'.pc = "notify"
        /\ ldsQueue' = ldsQueue \union {k}
        /\ pendingSeq' = pendingSeq + 1
    BY DEF RdsNotify, api, TypeOK, RdsWorker
  <1>2. \A l \in Listeners : ChainsFor(l)' = ChainsFor(l) /\ Target(l)' = Target(l)
    BY <1>1, ChainsDepend, TargetDepends DEF configs
  <1>3. lds.key \in Listeners /\ lds.seq \in Nat /\ pendingSeq \in Nat
    BY DEF TypeOK, LdsWorker
  <1>4. \A l \in Listeners : l # k => (BeingAnnounced(l)' <=> BeingAnnounced(l))
    BY DEF BeingAnnounced, RdsNotify, TypeOK, RdsWorker
  <1>5. /\ pendingListeners'[k] = pendingSeq + 1
        /\ \A l \in Listeners : l # k => pendingListeners'[l] = pendingListeners[l]
        /\ \A l \in Listeners : pendingListeners[l] \in Nat
    BY DEF RdsNotify, TypeOK
  <1>6. GenerationsIdentify'
    BY <1>1 DEF HandOver, GenerationsIdentify, NotOlder, Exists, configs
  <1>7. StaleIsOwed'
    BY <1>1, <1>2, <1>4 DEF HandOver, StaleIsOwed, configs
  <1>8. StaleRebuildIsFollowed'
    BY <1>1, <1>2, <1>3, <1>4 DEF HandOver, StaleRebuildIsFollowed
  <1>9. TokensBounded'
    BY <1>1, <1>3, <1>5 DEF HandOver, TokensBounded
  <1>10. PendingIsOwed'
    BY <1>1, <1>5 DEF HandOver, PendingIsOwed
  <1>11. StaleIsPending'
    BY <1>1, <1>2, <1>3, <1>4, <1>5 DEF HandOver, StaleIsPending, configs
  <1>12. StaleRebuildHoldsOldToken'
    BY <1>1, <1>2, <1>3, <1>4, <1>5
       DEF HandOver, StaleRebuildHoldsOldToken, TokensBounded
  <1> QED
    BY <1>6, <1>7, <1>8, <1>9, <1>10, <1>11, <1>12 DEF HandOver

\* A rebuild takes over from the queue entry, with the token of the moment.
LEMMA LdsStartStep ==
  ASSUME TypeOK, HandOver, NEW k \in Listeners, LdsStart(k)
  PROVE  HandOver'
  <1>1. /\ UNCHANGED <<apiRoutes, apiListeners, configs, rds, pending>>
        /\ lds.pc = "idle" /\ ldsQueue' = ldsQueue \ {k}
    BY DEF LdsStart, api
  <1>2. /\ lds'.pc = "read" /\ lds'.key = k /\ lds'.obj = apiListeners[k]
        /\ lds'.seq = pendingListeners[k]
    BY DEF LdsStart
  <1>3. \A l \in Listeners : ChainsFor(l)' = ChainsFor(l) /\ Target(l)' = Target(l)
    BY <1>1, ChainsDepend, TargetDepends DEF configs
  <1>4. GenerationsIdentify'
    BY <1>1 DEF HandOver, GenerationsIdentify, NotOlder, Exists, configs
  <1>5. StaleIsOwed'
    BY <1>1, <1>2, <1>3 DEF HandOver, StaleIsOwed, BeingAnnounced, configs
  <1>6. StaleRebuildIsFollowed'
    BY <1>1, <1>2 DEF StaleRebuildIsFollowed
  <1>7. TokensBounded' /\ PendingIsOwed'
    BY <1>1, <1>2 DEF HandOver, TokensBounded, PendingIsOwed, pending
  <1>8. StaleIsPending' /\ StaleRebuildHoldsOldToken'
    BY <1>1, <1>2, <1>3
       DEF HandOver, StaleIsPending, StaleRebuildHoldsOldToken, BeingAnnounced, configs, pending
  <1> QED
    BY <1>4, <1>5, <1>6, <1>7, <1>8 DEF HandOver

\* A failed rebuild goes back to the queue.
LEMMA LdsGetFailsStep ==
  ASSUME TypeOK, HandOver, LdsGetFails
  PROVE  HandOver'
  <1>1. /\ UNCHANGED <<apiRoutes, apiListeners, configs, rds, pending>>
        /\ lds.pc = "read" /\ ldsQueue' = ldsQueue \union {lds.key}
    BY DEF LdsGetFails, api
  <1>2. lds'.pc = "idle" /\ lds'.seq = 0
    BY DEF LdsGetFails, LdsIdle
  <1>3. \A l \in Listeners : ChainsFor(l)' = ChainsFor(l) /\ Target(l)' = Target(l)
    BY <1>1, ChainsDepend, TargetDepends DEF configs
  <1>4. GenerationsIdentify'
    BY <1>1 DEF HandOver, GenerationsIdentify, NotOlder, Exists, configs
  <1>5. StaleIsOwed'
    BY <1>1, <1>2, <1>3 DEF HandOver, StaleIsOwed, BeingAnnounced, configs
  <1>6. StaleRebuildIsFollowed'
    BY <1>2 DEF StaleRebuildIsFollowed
  <1>7. TokensBounded' /\ PendingIsOwed'
    BY <1>1, <1>2 DEF HandOver, TokensBounded, PendingIsOwed, pending, TypeOK
  <1>8. StaleIsPending' /\ StaleRebuildHoldsOldToken'
    BY <1>1, <1>2, <1>3
       DEF HandOver, StaleIsPending, StaleRebuildHoldsOldToken, BeingAnnounced, configs, pending
  <1> QED
    BY <1>4, <1>5, <1>6, <1>7, <1>8 DEF HandOver

\* A rebuild reads the placed Routes of the moment.
LEMMA LdsReadStep ==
  ASSUME TypeOK, HandOver, LdsRead
  PROVE  HandOver'
  <1>1. /\ UNCHANGED <<apiRoutes, apiListeners, configs, rds, ldsQueue, pending>>
        /\ lds.pc = "read"
    BY DEF LdsRead, api
  <1>2. /\ lds'.pc = "write" /\ lds'.key = lds.key /\ lds'.obj = lds.obj
        /\ lds'.seq = lds.seq /\ lds'.next = Rebuild(lds.obj, lds.key)
    BY DEF LdsRead, TypeOK, LdsWorker
  <1>3. \A l \in Listeners : ChainsFor(l)' = ChainsFor(l) /\ Target(l)' = Target(l)
    BY <1>1, ChainsDepend, TargetDepends DEF configs
  <1>4. lds.key \in Listeners
    BY DEF TypeOK, LdsWorker
  <1>5. GenerationsIdentify'
    BY <1>1 DEF HandOver, GenerationsIdentify, NotOlder, Exists, configs
  <1>6. lds.obj = apiListeners[lds.key] => lds'.next = Target(lds.key)'
    BY <1>2, <1>3, <1>4 DEF Target
  <1>7. StaleIsOwed'
    BY <1>1, <1>2, <1>3, <1>6 DEF HandOver, StaleIsOwed, BeingAnnounced, configs
  <1>8. StaleRebuildIsFollowed'
    BY <1>1, <1>2, <1>6 DEF HandOver, StaleRebuildIsFollowed
  <1>9. TokensBounded' /\ PendingIsOwed'
    BY <1>1, <1>2 DEF HandOver, TokensBounded, PendingIsOwed, pending
  <1>10. StaleIsPending'
    BY <1>1, <1>2, <1>3 DEF HandOver, StaleIsPending, BeingAnnounced, configs, pending
  <1>11. lds.obj = "good" /\ lds'.next.built => lds'.next.chains = ChainsFor(lds.key)
    BY <1>2 DEF Rebuild, NotServed
  <1>12. StaleRebuildHoldsOldToken'
    BY <1>2, <1>3, <1>4, <1>11 DEF StaleRebuildHoldsOldToken
  <1> QED
    BY <1>5, <1>7, <1>8, <1>9, <1>10, <1>12 DEF HandOver

\* A rebuild stores its result and clears only the mark it started with.
LEMMA LdsFinishStep ==
  ASSUME TypeOK, HandOver, LdsFinish
  PROVE  HandOver'
  <1>0. PICK k \in Listeners : k = lds.key
    BY DEF TypeOK, LdsWorker
  <1>1. /\ UNCHANGED <<apiRoutes, apiListeners, RouteConfigs, rds, ldsQueue, pendingSeq>>
        /\ lds.pc = "write" /\ lds'.pc = "idle" /\ lds'.seq = 0
    BY DEF LdsFinish, LdsIdle, api
  <1>2. /\ lds.seq \in Nat
        /\ \A l \in Listeners : pendingListeners[l] \in Nat
    BY DEF TypeOK, LdsWorker
  <1>3. /\ ListenerConfigs'[k] = lds.next
        /\ active'[k] <=> lds.next.built /\ lds.obj = "good"
        /\ pendingListeners'[k] = IF pendingListeners[k] = lds.seq THEN 0
                                  ELSE pendingListeners[k]
        /\ \A l \in Listeners : l # k =>
             /\ ListenerConfigs'[l] = ListenerConfigs[l]
             /\ active'[l] = active[l]
             /\ pendingListeners'[l] = pendingListeners[l]
    BY <1>0 DEF LdsFinish, ClearListenerPending, TypeOK
  <1>4. \A l \in Listeners : ChainsFor(l)' = ChainsFor(l) /\ (BeingAnnounced(l)' <=> BeingAnnounced(l))
    BY <1>1, ChainsDepend DEF BeingAnnounced
  <1>5. \A l \in Listeners : l # k => Target(l)' = Target(l)
    BY <1>1, <1>3, <1>4, TargetDepends
  <1>6. Target(k)' = Target(k) \/ Target(k)' = ListenerConfigs'[k]
    BY <1>1, <1>4 DEF Target, Rebuild, NotServed
  <1>7. GenerationsIdentify'
    BY <1>1 DEF HandOver, GenerationsIdentify, NotOlder, Exists
  <1>8. StaleIsOwed'
    BY <1>0, <1>1, <1>3, <1>4, <1>5, <1>6 DEF HandOver, StaleIsOwed, StaleRebuildIsFollowed
  <1>9. StaleRebuildIsFollowed'
    BY <1>1 DEF StaleRebuildIsFollowed
  <1>10. TokensBounded'
    BY <1>1, <1>2, <1>3 DEF HandOver, TokensBounded, TypeOK
  <1>11. PendingIsOwed'
    BY <1>0, <1>1, <1>2, <1>3 DEF HandOver, PendingIsOwed
  <1>12. StaleIsPending'
    BY <1>0, <1>1, <1>2, <1>3, <1>4 DEF HandOver, StaleIsPending, StaleRebuildHoldsOldToken
  <1>13. StaleRebuildHoldsOldToken'
    BY <1>1 DEF StaleRebuildHoldsOldToken
  <1> QED
    BY <1>7, <1>8, <1>9, <1>10, <1>11, <1>12, <1>13 DEF HandOver

-----------------------------------------------------------------------------
(* The theorems *)

\* The process starts with nothing served, nothing pending and everything queued.
LEMMA IInvInit == Init => IInv
  <1> SUFFICES ASSUME Init PROVE IInv
    OBVIOUS
  <1>1. TypeOK /\ CountersBalance
    BY SyncAssumption, IdleTypes
       DEF SyncAssumption, Init, TypeOK, CountersBalance, RouteObject, NoRoute,
           ListenerObject, ListenerConfig, NotServed, Chain, Built, Kinds, RdsIdle, LdsIdle
  <1>2. \A l \in Listeners : ChainsFor(l) = {} /\ ListenerConfigs[l] = NotServed
    BY DEF Init, ChainsFor, Exists, NoRoute
  <1>3. GenerationsIdentify
    BY DEF Init, GenerationsIdentify, NotOlder, Exists, NoRoute, RdsIdle
  <1>4. StaleIsOwed /\ StaleIsPending
    BY <1>2 DEF Init, StaleIsOwed, StaleIsPending
  <1>5. StaleRebuildIsFollowed /\ StaleRebuildHoldsOldToken
    BY DEF Init, StaleRebuildIsFollowed, StaleRebuildHoldsOldToken, LdsIdle
  <1>6. TokensBounded /\ PendingIsOwed
    BY DEF Init, TokensBounded, PendingIsOwed, LdsIdle
  <1> QED
    BY <1>1, <1>3, <1>4, <1>5, <1>6 DEF IInv

\* Every step keeps the invariant.
LEMMA IInvStep ==
  ASSUME CoalescedRecreate = FALSE, IInv, [Next]_vars
  PROVE  IInv'
  <1>1. TypeOK /\ CountersBalance /\ HandOver
    BY DEF IInv, HandOver
  <1>2. TypeOK' /\ CountersBalance'
    BY <1>1, TypeStep
  <1>3. HandOver'
    <2>1. CASE Edit
      <3>1. CASE SecretsBusy
        BY <1>1, <3>1, HandOverFrame DEF SecretsBusy
      <3> QED
        BY <1>1, <2>1, <3>1, RouteEditStep, ListenerEditStep DEF Edit
    <2>2. CASE RdsStep
      BY <1>1, <2>2, RdsOtherStep, RdsPlaceStep, RdsNotifyStep DEF RdsStep
    <2>3. CASE LdsStep
      BY <1>1, <2>3, LdsStartStep, LdsReadStep, LdsFinishStep DEF LdsStep
    <2>4. CASE RdsGetFails \/ LdsGetFails
      BY <1>1, <2>4, RdsOtherStep, LdsGetFailsStep
    <2>5. CASE RdsTimeout
      BY <1>1, <2>5, HandOverFrame DEF RdsTimeout, api
    <2>6. CASE LdsTimeout
      BY <1>1, <2>6, HandOverFrame DEF LdsTimeout, api
    <2>7. CASE InitRunnables
      BY <1>1, <2>7, HandOverFrame
         DEF InitRunnables, InitRoutes, InitListeners, InitRunnable, api
    <2>8. CASE \E l \in Listeners : LdsWait(l)
      BY <1>1, <2>8, HandOverFrame DEF LdsWait, api
    <2>9. CASE \E k \in Built : Wake(k) \/ SetReconciled(k)
      BY <1>1, <2>9, HandOverFrame DEF Wake, SetReconciled, api
    <2>10. CASE SecretsDone
      BY <1>1, <2>10, HandOverFrame DEF SecretsDone, api
    <2>11. CASE UNCHANGED vars
      BY <1>1, <2>11, HandOverFrame DEF vars, api
    <2> QED
      BY <2>1, <2>2, <2>3, <2>4, <2>5, <2>6, <2>7, <2>8, <2>9, <2>10, <2>11
         DEF Next, Failure
  <1> QED
    BY <1>2, <1>3 DEF IInv, HandOver

\* The hand-over invariant holds in every reachable state, as long as no Route
\* is recreated before its deletion was reconciled.
THEOREM HandOverInvariant ==
  ASSUME CoalescedRecreate = FALSE
  PROVE  Safe => []IInv
  <1>1. IInv /\ [Next]_vars => IInv'
    BY IInvStep
  <1> QED
    BY <1>1, IInvInit, PTL DEF Safe

\* For any sets of Routes and Listeners, and whatever reconciles fail or time
\* out: the state of ReconciliationStatus and of both controllers is typed.
\* The atomic counters in particular never fall below 0.
THEOREM TypeCorrect ==
  ASSUME CoalescedRecreate = FALSE
  PROVE  Safe => []TypeOK
  <1>1. IInv => TypeOK
    BY DEF IInv
  <1> QED
    BY <1>1, HandOverInvariant, PTL

\* No listener is left outdated: notifyListeners and the token rule of LDS
\* together always leave a rebuild coming for it.
THEOREM RebuildsAreNotLost ==
  ASSUME CoalescedRecreate = FALSE
  PROVE  Safe => []NoLostRebuild
  <1>1. IInv => NoLostRebuild
    BY DEF IInv, StaleIsOwed, NoLostRebuild, RebuildOwed, BeingAnnounced
  <1> QED
    BY <1>1, HandOverInvariant, PTL

\* No mark of MarkListenerPending is left without a rebuild that can clear it.
THEOREM MarksAreNotOrphaned ==
  ASSUME CoalescedRecreate = FALSE
  PROVE  Safe => []PendingIsOwed
  <1>1. IInv => PendingIsOwed
    BY DEF IInv
  <1> QED
    BY <1>1, HandOverInvariant, PTL

\* While AllReconciled is true, an active listener carries the chains of the
\* placed Routes unless RDS has placed one of them and has still to mark the
\* listener; as long as no Route is recreated before its deletion was reconciled.
THEOREM OpenGateIsCurrent ==
  ASSUME CoalescedRecreate = FALSE
  PROVE  Safe => []GateMatchesRoutes
  <1>1. IInv => GateMatchesRoutes
    BY DEF IInv, StaleIsPending, GateMatchesRoutes, AllReconciled, HasPendingListeners,
           BeingAnnounced
  <1> QED
    BY <1>1, HandOverInvariant, PTL

=============================================================================
