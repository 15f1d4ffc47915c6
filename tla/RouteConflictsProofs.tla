------------------------- MODULE RouteConflictsProofs -------------------------
(* Proofs about RouteConflicts: its types, and that no node ever serves two
   Routes whose chains conflict, for any Routes, nodes and conflict relation. *)
EXTENDS RouteConflicts, TLAPS

\* What Kubernetes holds under a name, and what the worker read under its key,
\* carries that name.
NamesOK ==
    /\ \A r \in Routes : \A v \in api[r] : v.name = r
    /\ \A v \in read : v.name = key

\* While a Route that won evicts and moves in, there is one version of it, it
\* goes to its own nodes, and whoever conflicts with it there is on the list.
\* This is what the eviction is for, and what NoConflictServed lacks.
EvictionCovers ==
    pc = "evict" => \E v \in read :
        /\ read = {v}
        /\ place \subseteq v.nodes
        /\ \A x \in RouteConfigs :
            x.node \in v.nodes /\ x.route.name # key /\ RouteConflict(v, x.route)
                => x.route.name \in evict

\* Kubernetes holds at most one version of a Route.
OneVersion ==
    /\ \A r \in Routes : \A v, w \in api[r] : v = w
    /\ \A v, w \in read : v = w

\* The inductive invariant.
IInv == TypeOK /\ NamesOK /\ OneVersion /\ EvictionCovers /\ NoConflictServed

\* Conflicts are symmetric: it does not matter who was there first.
LEMMA ConflictSymmetric ==
    ASSUME NEW a \in Version, NEW b \in Version, RouteConflict(a, b)
    PROVE  RouteConflict(b, a)
BY ConflictAssumption DEF RouteConflict, Version

\* The empty config the process starts with satisfies the invariant.
LEMMA IInvInit == Init => IInv
<1> SUFFICES ASSUME Init PROVE IInv
    OBVIOUS
<1>1. PICK ms \in Starts :
        api = [r \in Routes |-> {[name |-> r, created |-> 0, rev |-> 0,
                                  nodes |-> Nodes, match |-> ms[r], ok |-> TRUE]}]
    BY DEF Init
<1>2. \A r \in Routes : ms[r] \in Matches
    BY ConflictAssumption
<1>3. api \in [Routes -> SUBSET Version]
    BY <1>1, <1>2, ConflictAssumption DEF Version
<1>4. key \in Routes
    BY ConflictAssumption DEF Init
<1>5. TypeOK
    BY <1>3, <1>4 DEF Init, TypeOK
<1>6. NamesOK /\ OneVersion
    <2>1. read = {}
        BY DEF Init
    <2>2. ASSUME NEW r \in Routes
          PROVE  \E w : api[r] = {w} /\ w.name = r
        <3> DEFINE w == [name |-> r, created |-> 0, rev |-> 0, nodes |-> Nodes,
                         match |-> ms[r], ok |-> TRUE]
        <3>1. api[r] = {w} /\ w.name = r
            BY <1>1
        <3> QED
            BY <3>1
    <2> QED
        BY <2>1, <2>2 DEF NamesOK, OneVersion
<1>7. EvictionCovers /\ NoConflictServed
    BY DEF Init, EvictionCovers, NoConflictServed
<1> QED
    BY <1>5, <1>6, <1>7 DEF IInv

\* An edit of the Kubernetes API touches neither the config nor the worker.
LEMMA EditStep == IInv /\ Edit => IInv'
<1> SUFFICES ASSUME IInv, Edit PROVE IInv'
    OBVIOUS
<1> USE DEF IInv
<1>1. UNCHANGED <<RouteConfigs, losers, worker>>
    BY DEF Edit, CreateRoute, UpdateRoute, BreakRoute, DeleteRoute, SetRoute, EditListener
<1>2. EvictionCovers' /\ NoConflictServed'
    BY <1>1 DEF worker, EvictionCovers, NoConflictServed, RouteConflict
<1>3. TypeOK' /\ NamesOK' /\ OneVersion'
    <2>1. ASSUME NEW r \in Routes, NEW nodes \in Spreads, NEW match \in Matches, NEW ok \in BOOLEAN,
                 CreateRoute(r, nodes, match, ok)
          PROVE  TypeOK' /\ NamesOK' /\ OneVersion'
        <3>1. PICK t \in {now, now + 1} :
                /\ now' = t
                /\ SetRoute(r, {[name |-> r, created |-> t, rev |-> edits + 1, nodes |-> nodes,
                                 match |-> match, ok |-> ok]})
            BY <2>1 DEF CreateRoute
        <3>2. t \in Nat /\ edits + 1 \in Nat
            BY <3>1 DEF TypeOK
        <3> DEFINE w == [name |-> r, created |-> t, rev |-> edits + 1, nodes |-> nodes,
                         match |-> match, ok |-> ok]
        <3>3. w \in Version /\ w.name = r
            BY <3>2 DEF Version
        <3> HIDE DEF w
        <3>4. SetRoute(r, {w})
            BY <3>1 DEF w
        <3> QED
            BY <1>1, <3>1, <3>2, <3>3, <3>4 DEF SetRoute, TypeOK, NamesOK, OneVersion, worker
    <2>2. ASSUME NEW r \in Routes, NEW nodes \in Spreads, NEW match \in Matches,
                 UpdateRoute(r, nodes, match)
          PROVE  TypeOK' /\ NamesOK' /\ OneVersion'
        <3>1. PICK v \in api[r] :
                /\ SetRoute(r, {[v EXCEPT !.rev = edits + 1, !.nodes = nodes, !.match = match,
                                          !.ok = TRUE]})
                /\ UNCHANGED now
            BY <2>2 DEF UpdateRoute
        <3> DEFINE w == [v EXCEPT !.rev = edits + 1, !.nodes = nodes, !.match = match, !.ok = TRUE]
        <3>2. v \in Version /\ v.name = r /\ edits + 1 \in Nat
            BY <3>1 DEF TypeOK, NamesOK
        <3>3. w \in Version /\ w.name = r
            BY <3>2 DEF Version
        <3> HIDE DEF w
        <3>4. SetRoute(r, {w})
            BY <3>1 DEF w
        <3> QED
            BY <1>1, <3>1, <3>2, <3>3, <3>4 DEF SetRoute, TypeOK, NamesOK, OneVersion, worker
    <2>3. ASSUME NEW r \in Routes, BreakRoute(r)
          PROVE  TypeOK' /\ NamesOK' /\ OneVersion'
        <3>1. PICK v \in api[r] :
                SetRoute(r, {[v EXCEPT !.rev = edits + 1, !.ok = FALSE]}) /\ UNCHANGED now
            BY <2>3 DEF BreakRoute
        <3> DEFINE w == [v EXCEPT !.rev = edits + 1, !.ok = FALSE]
        <3>2. v \in Version /\ v.name = r /\ edits + 1 \in Nat
            BY <3>1 DEF TypeOK, NamesOK
        <3>3. w \in Version /\ w.name = r
            BY <3>2 DEF Version
        <3> HIDE DEF w
        <3>4. SetRoute(r, {w})
            BY <3>1 DEF w
        <3> QED
            BY <1>1, <3>1, <3>2, <3>3, <3>4 DEF SetRoute, TypeOK, NamesOK, OneVersion, worker
    <2>4. ASSUME NEW r \in Routes, DeleteRoute(r)
          PROVE  TypeOK' /\ NamesOK' /\ OneVersion'
        BY <1>1, <2>4 DEF DeleteRoute, SetRoute, TypeOK, NamesOK, OneVersion, worker
    <2>5. ASSUME NEW exists \in BOOLEAN, NEW matches \in Statics, EditListener(exists, matches)
          PROVE  TypeOK' /\ NamesOK' /\ OneVersion'
        <3>1. matches \subseteq Matches
            BY ConflictAssumption
        <3> QED
            BY <1>1, <2>5, <3>1 DEF EditListener, TypeOK, NamesOK, OneVersion, worker
    <2> QED
        BY <2>1, <2>2, <2>3, <2>4, <2>5 DEF Edit
<1> QED
    BY <1>2, <1>3

\* A step of the worker that takes Routes out of the config, or leaves it
\* alone, and does not evict for anyone afterwards.
LEMMA ShrinkingStep ==
    ASSUME IInv, UNCHANGED kube, RouteConfigs' \subseteq RouteConfigs, pc' # "evict",
           TypeOK', NamesOK', OneVersion'
    PROVE  IInv'
BY DEF IInv, EvictionCovers, NoConflictServed, RouteConflict

\* The steps that end in a rejection, or change nothing.
LEMMA RejectStep == IInv /\ (Unplace \/ KeepLast \/ RejectStatic \/ RejectYounger) => IInv'
<1> SUFFICES ASSUME IInv, Unplace \/ KeepLast \/ RejectStatic \/ RejectYounger PROVE IInv'
    OBVIOUS
<1>1. /\ UNCHANGED <<kube, queue, key, read, evict, place>>
      /\ RouteConfigs' \subseteq RouteConfigs
      /\ pc = "decide" /\ pc' = "finish"
    BY DEF Unplace, KeepLast, RejectStatic, RejectYounger
<1>2. losers' \in [Routes -> SUBSET Routes]
    <2>1. losers \in [Routes -> SUBSET Routes] /\ key \in Routes
        BY DEF IInv, TypeOK
    <2>2. CASE UNCHANGED losers
        BY <2>1, <2>2
    <2>3. CASE RejectYounger
        <3>1. PICK winners : addLoser(winners, key)
            BY <2>3 DEF RejectYounger
        <3> QED
            BY <2>1, <3>1 DEF addLoser
    <2> QED
        BY <2>2, <2>3 DEF Unplace, KeepLast, RejectStatic
<1>3. TypeOK'
    BY <1>1, <1>2 DEF IInv, TypeOK, kube
<1>4. NamesOK' /\ OneVersion'
    BY <1>1 DEF IInv, NamesOK, OneVersion, kube
<1> QED
    BY <1>1, <1>3, <1>4, ShrinkingStep

\* Winning puts every conflicting Route on the list.
LEMMA WinStep == IInv /\ Win => IInv'
<1> SUFFICES ASSUME IInv, Win PROVE IInv'
    OBVIOUS
<1>1. PICK v \in read :
        /\ RouteConfigs' = {x \in RouteConfigs : x.route.name = key => x.node \in v.nodes}
        /\ evict' = {x.name : x \in findConflicts(v)}
        /\ place' = v.nodes
    BY DEF Win
<1>2. /\ pc' = "evict" /\ UNCHANGED <<kube, queue, losers, key, read>>
      /\ v \in Version /\ v.name = key /\ read = {v} /\ v.nodes \subseteq Nodes
      /\ RouteConfigs' \subseteq RouteConfigs
    <2>1. v \in Version /\ v.name = key /\ read = {v}
        BY <1>1 DEF IInv, TypeOK, NamesOK, OneVersion
    <2> QED
        BY <1>1, <2>1, ConflictAssumption DEF Win, Version
<1>3. \A y \in findConflicts(v) : y \in Version
    BY DEF findConflicts, IInv, TypeOK, Entry
<1>4. evict' \subseteq Routes
    BY <1>1, <1>3 DEF Version
<1>5. TypeOK'
    BY <1>1, <1>2, <1>4 DEF IInv, TypeOK, kube
<1>6. NamesOK' /\ OneVersion'
    BY <1>2 DEF IInv, NamesOK, OneVersion, kube
<1>7. EvictionCovers'
    <2>1. ASSUME NEW x \in RouteConfigs', x.node \in v.nodes, x.route.name # key,
                 RouteConflict(v, x.route)
          PROVE  x.route.name \in evict'
        <3>1. x \in RouteConfigs
            BY <1>2
        <3>2. x.route \in findConflicts(v)
            BY <1>2, <2>1, <3>1 DEF findConflicts
        <3> QED
            BY <1>1, <3>2
    <2> QED
        BY <1>1, <1>2, <2>1 DEF EvictionCovers, RouteConflict
<1>8. NoConflictServed'
    BY <1>2 DEF IInv, NoConflictServed, RouteConflict
<1> QED
    BY <1>5, <1>6, <1>7, <1>8 DEF IInv

\* An evicted Route leaves the config before it leaves the list.
LEMMA EvictStep == \A r \in Routes : IInv /\ Evict(r) => IInv'
<1> SUFFICES ASSUME NEW r \in Routes, IInv, Evict(r) PROVE IInv'
    OBVIOUS
<1>1. TypeOK' /\ NamesOK' /\ OneVersion'
    BY DEF IInv, TypeOK, NamesOK, OneVersion, Evict, kube
<1>2. EvictionCovers'
    <2>1. PICK v \in read :
            /\ read = {v}
            /\ place \subseteq v.nodes
            /\ \A x \in RouteConfigs :
                x.node \in v.nodes /\ x.route.name # key /\ RouteConflict(v, x.route)
                    => x.route.name \in evict
        BY DEF IInv, EvictionCovers, Evict
    <2>2. ASSUME NEW x \in RouteConfigs', x.node \in v.nodes, x.route.name # key,
                 RouteConflict(v, x.route)
          PROVE  x.route.name \in evict'
        <3>1. x \in RouteConfigs /\ x.route.name # r
            BY DEF Evict, EntriesOf
        <3> QED
            BY <2>1, <2>2, <3>1 DEF Evict
    <2> QED
        BY <2>1, <2>2 DEF EvictionCovers, RouteConflict, Evict
<1>3. NoConflictServed'
    BY DEF IInv, NoConflictServed, RouteConflict, Evict, EntriesOf
<1> QED
    BY <1>1, <1>2, <1>3 DEF IInv

\* Once the list is empty, nobody on the Route's nodes conflicts with it.
LEMMA PlaceStep == \A n \in Nodes : IInv /\ Place(n) => IInv'
<1> SUFFICES ASSUME NEW n \in Nodes, IInv, Place(n) PROVE IInv'
    OBVIOUS
<1>1. PICK v \in read :
        /\ read = {v}
        /\ place \subseteq v.nodes
        /\ \A x \in RouteConfigs :
            x.node \in v.nodes /\ x.route.name # key /\ RouteConflict(v, x.route)
                => x.route.name \in evict
    BY DEF IInv, EvictionCovers, Place
<1> DEFINE e == [node |-> n, route |-> v]
<1>2. RouteConfigs' = {x \in RouteConfigs : x.node # n \/ x.route.name # key} \union {e}
    BY <1>1 DEF Place
<1>3. v \in Version /\ v.name = key
    BY <1>1 DEF IInv, TypeOK, NamesOK
<1>4. e \in Entry /\ e.node = n /\ e.route = v
    BY <1>3 DEF Entry
<1>5. n \in v.nodes /\ evict = {}
    BY <1>1 DEF Place
<1> HIDE DEF e
<1>6. ASSUME NEW x \in RouteConfigs, x.node = n, x.route.name # key
      PROVE  ~RouteConflict(v, x.route) /\ ~RouteConflict(x.route, v)
    <2>1. x.route \in Version
        BY DEF IInv, TypeOK, Entry
    <2>2. ~RouteConflict(v, x.route)
        BY <1>1, <1>5, <1>6
    <2> QED
        BY <1>3, <2>1, <2>2, ConflictSymmetric
<1>7. TypeOK' /\ NamesOK' /\ OneVersion'
    BY <1>2, <1>4 DEF IInv, TypeOK, NamesOK, OneVersion, Place, kube
<1>8. NoConflictServed'
    <2> SUFFICES ASSUME NEW x \in RouteConfigs', NEW y \in RouteConfigs',
                        x.node = y.node, x.route.name # y.route.name
                 PROVE  ~RouteConflict(x.route, y.route)
        BY DEF NoConflictServed, RouteConflict
    <2>1. CASE x = e
        BY <1>2, <1>3, <1>4, <1>6, <2>1
    <2>2. CASE y = e
        BY <1>2, <1>3, <1>4, <1>6, <2>2
    <2>3. CASE x # e /\ y # e
        BY <1>2, <2>3 DEF IInv, NoConflictServed
    <2> QED
        BY <2>1, <2>2, <2>3
<1>9. EvictionCovers'
    <2>1. ASSUME NEW x \in RouteConfigs', x.node \in v.nodes, x.route.name # key
          PROVE  ~RouteConflict(v, x.route)
        <3>1. x \in RouteConfigs
            BY <1>2, <1>3, <1>4, <2>1
        <3> QED
            BY <1>1, <1>5, <2>1, <3>1
    <2> QED
        BY <1>1, <2>1 DEF EvictionCovers, RouteConflict, Place
<1> QED
    BY <1>7, <1>8, <1>9 DEF IInv

\* Every step preserves the invariant.
LEMMA IInvStep == IInv /\ [Next]_vars => IInv'
<1> SUFFICES ASSUME IInv, [Next]_vars PROVE IInv'
    OBVIOUS
<1>1. CASE Edit
    BY <1>1, EditStep
<1>2. ASSUME NEW r \in Routes, Start(r) PROVE IInv'
    <2>1. TypeOK' /\ NamesOK' /\ OneVersion'
        BY <1>2 DEF IInv, TypeOK, NamesOK, OneVersion, Start, kube
    <2> QED
        BY <1>2, <2>1, ShrinkingStep DEF Start
<1>3. CASE StartFails
    <2>1. TypeOK' /\ NamesOK' /\ OneVersion'
        BY <1>3 DEF IInv, TypeOK, NamesOK, OneVersion, StartFails, kube
    <2> QED
        BY <1>3, <2>1, ShrinkingStep DEF StartFails
<1>4. CASE Decide
    BY <1>4, RejectStep, WinStep DEF Decide
<1>5. ASSUME NEW r \in Routes, Evict(r) PROVE IInv'
    BY <1>5, EvictStep
<1>6. ASSUME NEW n \in Nodes, Place(n) PROVE IInv'
    BY <1>6, PlaceStep
<1>7. CASE Finish
    <2>1. TypeOK' /\ NamesOK' /\ OneVersion'
        BY <1>7 DEF IInv, TypeOK, NamesOK, OneVersion, Finish, kube
    <2> QED
        BY <1>7, <2>1, ShrinkingStep DEF Finish
<1>8. CASE UNCHANGED vars
    BY <1>8 DEF vars, kube, worker, IInv, TypeOK, NamesOK, OneVersion, EvictionCovers,
                NoConflictServed, RouteConflict
<1> QED
    BY <1>1, <1>2, <1>3, <1>4, <1>5, <1>6, <1>7, <1>8 DEF Next, Work

\* The invariant holds throughout.
THEOREM IInvAlways == Safe => []IInv
<1> QED
    BY IInvInit, IInvStep, PTL DEF Safe

\* The variables of the Route controller keep their types, and no reconcile
\* ends with Routes to evict or nodes to go to.
THEOREM Typed == Safe => []TypeOK
<1>1. IInv => TypeOK
    BY DEF IInv
<1> QED
    BY <1>1, IInvAlways, PTL

\* Whatever Routes, nodes and conflict relation there are, and however edits,
\* failed reads and reconciles interleave, no node ever serves two Routes whose
\* chains conflict, between two steps of a reconcile included.
THEOREM ConflictFree == Safe => []NoConflictServed
<1>1. IInv => NoConflictServed
    BY DEF IInv
<1> QED
    BY <1>1, IInvAlways, PTL

-----------------------------------------------------------------------------
(* Nobody waits without a reason.  OldestServed speaks of an idle worker with
   an empty queue; what leads there is an account of every Route at all times. *)

\* The Route is queued or being reconciled: its losers will be looked at again.
Busy(w) == w \in queue \/ (pc # "idle" /\ key = w)

\* Route w, as served, is older than v and conflicts with it.
BeatenBy(w, v) == \E x \in findConflicts(v) : x.name = w /\ OlderRoute(x, v)

\* Route r lost to one that still stands in its way, or will look at it again.
Excused(r, v) == \E w \in Routes : r \in losers[w] /\ (Busy(w) \/ BeatenBy(w, v))

\* The config is right about Route r, as it is in Kubernetes.
Right(r) ==
    /\ api[r] = {} => EntriesOf(r) = {}
    /\ \A v \in api[r] : v.ok =>
        IF listener /\ v.match \notin static
        THEN ServedEverywhere(v) \/ (EntriesOf(r) = {} /\ Excused(r, v))
        ELSE EntriesOf(r) = {}

\* The config is right about every Route that is not queued, and not about to
\* be decided on or placed.
SettledIsRight ==
    \A r \in Routes : r \in queue \/ (key = r /\ pc \in {"decide", "evict"}) \/ Right(r)

\* Unless the Route is queued again, the worker has its present version.
ReadIsCurrent == pc # "idle" /\ key \notin queue => read = api[key]

\* A Route that won is where it is to be, but for the nodes still to go to.
PlacedSoFar ==
    pc = "evict" =>
        /\ key \notin evict
        /\ \A v \in read :
            /\ v.ok
            /\ key \notin queue => listener /\ v.match \notin static
            /\ \A x \in EntriesOf(key) : x.node \in v.nodes /\ (x.node \notin place => x.route = v)
            /\ \A n \in v.nodes \ place : [node |-> n, route |-> v] \in RouteConfigs

\* The inductive invariant behind OldestServed, on top of IInv.
SInv == SettledIsRight /\ ReadIsCurrent /\ PlacedSoFar

\* What a Route has to be undisturbed by to stay right: its own entries, and
\* those of a winner, unless the winner is busy.
LEMMA RightKept ==
    ASSUME IInv, NEW r \in Routes, Right(r), api'[r] = api[r],
           UNCHANGED <<listener, static>>,
           EntriesOf(r)' = EntriesOf(r),
           \A w \in Routes : r \in losers[w] =>
               /\ r \in losers'[w]
               /\ Busy(w)' \/ (~Busy(w) /\ EntriesOf(w)' = EntriesOf(w))
    PROVE  Right(r)'
<1>1. ASSUME NEW v \in api[r], ServedEverywhere(v)
      PROVE  ServedEverywhere(v)'
    BY <1>1 DEF ServedEverywhere, IInv, NamesOK
<1>2. ASSUME NEW v \in api[r], Excused(r, v)
      PROVE  Excused(r, v)'
    <2>1. PICK w \in Routes : r \in losers[w] /\ (Busy(w) \/ BeatenBy(w, v))
        BY <1>2 DEF Excused
    <2>2. CASE Busy(w)'
        BY <2>1, <2>2 DEF Excused
    <2>3. CASE ~Busy(w) /\ EntriesOf(w)' = EntriesOf(w)
        <3>1. PICK x \in findConflicts(v) : x.name = w /\ OlderRoute(x, v)
            BY <2>1, <2>3 DEF BeatenBy
        <3>2. PICK y \in RouteConfigs :
                /\ x = y.route /\ y.node \in v.nodes
                /\ y.route.name # v.name /\ RouteConflict(v, y.route)
            BY DEF findConflicts
        <3>3. y \in RouteConfigs'
            BY <2>3, <3>1, <3>2 DEF EntriesOf
        <3>4. x \in findConflicts(v)'
            BY <3>2, <3>3 DEF findConflicts, RouteConflict
        <3>5. BeatenBy(w, v)'
            BY <3>1, <3>4 DEF BeatenBy, OlderRoute
        <3> QED
            BY <2>1, <3>5 DEF Excused
    <2> QED
        BY <2>1, <2>2, <2>3
<1> QED
    BY <1>1, <1>2 DEF Right

\* The process starts with every Route queued.
LEMMA SInvInit == Init => SInv
BY DEF Init, SInv, SettledIsRight, ReadIsCurrent, PlacedSoFar

\* An edit sends the Routes it is about to the queue.
LEMMA SEditStep == IInv /\ SInv /\ Edit => SInv'
<1> SUFFICES ASSUME IInv, SInv, Edit PROVE SInv'
    OBVIOUS
<1>1. UNCHANGED <<RouteConfigs, losers, pc, key, read, evict, place>> /\ queue \subseteq queue'
    BY DEF Edit, CreateRoute, UpdateRoute, BreakRoute, DeleteRoute, SetRoute, EditListener, worker
<1>2. EntriesOf(key)' = EntriesOf(key) /\ \A r \in Routes : EntriesOf(r)' = EntriesOf(r)
    BY <1>1 DEF EntriesOf
<1>3. \A w \in Routes : Busy(w) => Busy(w)'
    BY <1>1 DEF Busy
<1>4. ASSUME NEW r0 \in Routes, NEW versions, SetRoute(r0, versions)
      PROVE  SInv'
    <2>1. /\ \A r \in Routes : r \notin queue' => r # r0 /\ api'[r] = api[r]
          /\ UNCHANGED <<listener, static>>
        BY <1>4 DEF SetRoute, IInv, TypeOK
    <2>2. ASSUME NEW r \in Routes, r \notin queue', ~(key' = r /\ pc' \in {"decide", "evict"})
          PROVE  Right(r)'
        <3>1. Right(r)
            BY <1>1, <2>2 DEF SInv, SettledIsRight
        <3>2. api'[r] = api[r]
            BY <2>1, <2>2
        <3> QED
            BY <1>1, <1>2, <1>3, <2>1, <3>1, <3>2, RightKept
    <2>3. ReadIsCurrent'
        BY <1>1, <2>1 DEF SInv, ReadIsCurrent, IInv, TypeOK
    <2>4. PlacedSoFar'
        BY <1>1, <1>2, <2>1 DEF SInv, PlacedSoFar
    <2> QED
        BY <2>2, <2>3, <2>4 DEF SInv, SettledIsRight
<1>5. ASSUME NEW exists \in BOOLEAN, NEW matches \in Statics, EditListener(exists, matches)
      PROVE  SInv'
    <2>1. /\ \A r \in Routes : r \notin queue' => api[r] = {}
          /\ UNCHANGED api
        BY <1>5 DEF EditListener
    <2>2. ASSUME NEW r \in Routes, r \notin queue', ~(key' = r /\ pc' \in {"decide", "evict"})
          PROVE  Right(r)'
        <3>1. Right(r) /\ api'[r] = {} /\ api[r] = {}
            BY <1>1, <2>1, <2>2 DEF SInv, SettledIsRight
        <3> QED
            BY <1>2, <3>1 DEF Right
    <2>3. ReadIsCurrent'
        BY <1>1, <2>1 DEF SInv, ReadIsCurrent
    <2>4. PlacedSoFar'
        <3>1. ASSUME pc = "evict" PROVE key \in queue'
            BY <1>1, <2>1, <3>1 DEF SInv, ReadIsCurrent, IInv, TypeOK, EvictionCovers
        <3> QED
            BY <1>1, <1>2, <3>1 DEF SInv, PlacedSoFar
    <2> QED
        BY <2>2, <2>3, <2>4 DEF SInv, SettledIsRight
<1> QED
    BY <1>4, <1>5 DEF Edit, CreateRoute, UpdateRoute, BreakRoute, DeleteRoute

\* While the worker is busy with its Route, a step that touches no other entries
\* leaves the config right about the others.
LEMMA OthersKept ==
    ASSUME IInv, SInv, UNCHANGED <<api, listener, static, key>>, queue \subseteq queue',
           pc # "idle", pc' # "idle",
           \A r \in Routes : r # key /\ r \notin queue' => EntriesOf(r)' = EntriesOf(r),
           \A w \in Routes : losers[w] \subseteq losers'[w],
           NEW r \in Routes, r # key, r \notin queue'
    PROVE  Right(r)'
<1>1. Right(r)
    BY DEF SInv, SettledIsRight
<1>2. ASSUME NEW w \in Routes
      PROVE  Busy(w)' \/ (~Busy(w) /\ EntriesOf(w)' = EntriesOf(w))
    BY DEF Busy
<1> QED
    BY <1>1, <1>2, RightKept

\* The worker takes a Route from the queue.
LEMMA SStartStep == \A r \in Routes : IInv /\ SInv /\ Start(r) => SInv'
<1> SUFFICES ASSUME NEW r0 \in Routes, IInv, SInv, Start(r0) PROVE SInv'
    OBVIOUS
<1>1. /\ pc = "idle" /\ pc' = "decide" /\ key' = r0 /\ read' = api[r0]
      /\ queue' = queue \ {r0}
      /\ UNCHANGED <<api, listener, static, RouteConfigs, losers>>
    BY DEF Start, kube
<1>2. ASSUME NEW r \in Routes, r \notin queue', r # r0
      PROVE  Right(r)'
    <2>1. Right(r)
        BY <1>1, <1>2 DEF SInv, SettledIsRight
    <2>2. \A w \in Routes : EntriesOf(w)' = EntriesOf(w)
        BY <1>1 DEF EntriesOf
    <2>3. \A w \in Routes : Busy(w) => Busy(w)'
        BY <1>1 DEF Busy
    <2> QED
        BY <1>1, <2>1, <2>2, <2>3, RightKept
<1>3. SettledIsRight'
    BY <1>1, <1>2 DEF SettledIsRight
<1>4. ReadIsCurrent' /\ PlacedSoFar'
    BY <1>1 DEF ReadIsCurrent, PlacedSoFar
<1> QED
    BY <1>3, <1>4 DEF SInv

\* A read that fails sends the Route back to the queue.
LEMMA SStartFailsStep == IInv /\ SInv /\ StartFails => SInv'
<1> SUFFICES ASSUME IInv, SInv, StartFails PROVE SInv'
    OBVIOUS
<1>1. /\ pc = "decide" /\ pc' = "idle" /\ queue' = queue \union {key}
      /\ UNCHANGED <<api, listener, static, RouteConfigs, losers, key>>
    BY DEF StartFails, kube
<1>2. ASSUME NEW r \in Routes, r \notin queue'
      PROVE  Right(r)'
    <2>1. Right(r)
        BY <1>1, <1>2 DEF SInv, SettledIsRight
    <2>2. \A w \in Routes : EntriesOf(w)' = EntriesOf(w)
        BY <1>1 DEF EntriesOf
    <2>3. \A w \in Routes : Busy(w) => Busy(w)'
        BY <1>1 DEF Busy
    <2> QED
        BY <1>1, <2>1, <2>2, <2>3, RightKept
<1> QED
    BY <1>1, <1>2 DEF SInv, SettledIsRight, ReadIsCurrent, PlacedSoFar

\* A Route that is not to be served leaves every node, one that does not
\* convert stays as it is, and one that is rejected has lost to a winner.
LEMMA SRejectStep ==
    IInv /\ SInv /\ (Unplace \/ KeepLast \/ RejectStatic \/ RejectYounger) => SInv'
<1> SUFFICES ASSUME IInv, SInv, Unplace \/ KeepLast \/ RejectStatic \/ RejectYounger
             PROVE  SInv'
    OBVIOUS
<1>1. /\ UNCHANGED <<api, listener, static, queue, key, read>>
      /\ pc = "decide" /\ pc' = "finish"
    BY DEF Unplace, KeepLast, RejectStatic, RejectYounger, kube
<1>2. RouteConfigs' = RouteConfigs \/ RouteConfigs' = RouteConfigs \ EntriesOf(key)
    BY DEF Unplace, KeepLast, RejectStatic, RejectYounger
<1>3. \A r \in Routes : r # key => EntriesOf(r)' = EntriesOf(r)
    BY <1>2 DEF EntriesOf
<1>4. \A w \in Routes : losers[w] \subseteq losers'[w]
    <2>1. CASE UNCHANGED losers
        BY <2>1
    <2>2. CASE RejectYounger
        <3>1. PICK winners : addLoser(winners, key)
            BY <2>2 DEF RejectYounger
        <3> QED
            BY <3>1 DEF addLoser
    <2> QED
        BY <2>1, <2>2 DEF Unplace, KeepLast, RejectStatic
<1>5. ASSUME NEW r \in Routes, r \notin queue', r # key
      PROVE  Right(r)'
    BY <1>1, <1>3, <1>4, <1>5, OthersKept
<1>6. ASSUME RouteConfigs' = RouteConfigs \ EntriesOf(key)
      PROVE  EntriesOf(key)' = {}
    BY <1>1, <1>6 DEF EntriesOf
<1>7. ASSUME key \notin queue
      PROVE  Right(key)'
    <2>1. read = api[key]
        BY <1>1, <1>7 DEF SInv, ReadIsCurrent
    <2>2. CASE Unplace
        <3>1. EntriesOf(key)' = {}
            BY <1>6, <2>2 DEF Unplace
        <3> QED
            BY <1>1, <2>1, <2>2, <3>1 DEF Right, Unplace
    <2>3. CASE KeepLast
        <3>1. PICK v \in read : ~v.ok
            BY <2>3 DEF KeepLast
        <3>2. api'[key'] = {v}
            BY <1>1, <2>1, <3>1 DEF IInv, OneVersion
        <3> QED
            BY <3>1, <3>2 DEF Right
    <2>4. CASE RejectStatic
        <3>1. EntriesOf(key)' = {}
            BY <1>6, <2>4 DEF RejectStatic
        <3>2. PICK v \in read : v.ok /\ v.match \in static
            BY <2>4 DEF RejectStatic
        <3>3. api'[key'] = {v}
            BY <1>1, <2>1, <3>2 DEF IInv, OneVersion
        <3> QED
            BY <1>1, <3>1, <3>2, <3>3 DEF Right
    <2>5. CASE RejectYounger
        <3>1. EntriesOf(key)' = {} /\ RouteConfigs' = RouteConfigs \ EntriesOf(key)
            BY <1>6, <2>5 DEF RejectYounger
        <3>2. PICK v \in read :
                LET winners == {x \in findConflicts(v) : OlderRoute(x, v)} IN
                winners # {} /\ addLoser(winners, key)
            BY <2>5 DEF RejectYounger
        <3>3. PICK x \in findConflicts(v) : OlderRoute(x, v)
            BY <3>2
        <3>4. PICK y \in RouteConfigs :
                /\ x = y.route /\ y.node \in v.nodes
                /\ y.route.name # v.name /\ RouteConflict(v, y.route)
            BY DEF findConflicts
        <3>5. v.name = key /\ api'[key'] = {v} /\ x.name \in Routes
            BY <1>1, <2>1, <3>4 DEF IInv, OneVersion, NamesOK, TypeOK, Entry, Version
        <3>6. y \in RouteConfigs'
            BY <3>1, <3>4, <3>5 DEF EntriesOf
        <3>7. x \in findConflicts(v)'
            BY <3>4, <3>6 DEF findConflicts, RouteConflict
        <3>8. BeatenBy(x.name, v)'
            BY <3>3, <3>7 DEF BeatenBy, OlderRoute
        <3>9. key \in losers'[x.name]
            BY <3>2, <3>3, <3>5 DEF addLoser
        <3>10. Excused(key, v)'
            BY <1>1, <3>5, <3>8, <3>9 DEF Excused
        <3>11. listener' /\ v.match \notin static'
            BY <1>1, <2>1, <2>5, <3>5 DEF RejectYounger
        <3> QED
            BY <1>1, <3>1, <3>5, <3>10, <3>11 DEF Right
    <2> QED
        BY <2>2, <2>3, <2>4, <2>5
<1>8. SettledIsRight'
    <2>1. key' = key
        BY <1>1
    <2>2. ASSUME NEW r \in Routes, r \notin queue' PROVE Right(r)'
        <3>1. CASE r = key
            <4>1. Right(key)'
                BY <1>1, <1>7, <2>2, <3>1
            <4> QED
                BY <2>1, <3>1, <4>1
        <3> QED
            BY <1>5, <2>2, <3>1
    <2> QED
        BY <2>2 DEF SettledIsRight
<1>9. ReadIsCurrent' /\ PlacedSoFar'
    BY <1>1 DEF SInv, ReadIsCurrent, PlacedSoFar
<1> QED
    BY <1>8, <1>9 DEF SInv

\* A Route that wins leaves the nodes it is no longer on.
LEMMA SWinStep == IInv /\ SInv /\ Win => SInv'
<1> SUFFICES ASSUME IInv, SInv, Win PROVE SInv'
    OBVIOUS
<1>1. PICK v \in read :
        /\ v.ok /\ v.match \notin static
        /\ RouteConfigs' = {x \in RouteConfigs : x.route.name = key => x.node \in v.nodes}
        /\ evict' = {x.name : x \in findConflicts(v)}
        /\ place' = v.nodes
    BY DEF Win
<1>2. /\ pc = "decide" /\ pc' = "evict" /\ listener
      /\ UNCHANGED <<api, listener, static, queue, losers, key, read>>
    BY DEF Win, kube
<1>3. v.name = key /\ read = {v}
    BY <1>1 DEF IInv, NamesOK, OneVersion
<1>4. \A r \in Routes : r # key => EntriesOf(r)' = EntriesOf(r)
    BY <1>1 DEF EntriesOf
<1>5. SettledIsRight'
    BY <1>2, <1>4, OthersKept DEF SettledIsRight
<1>6. ReadIsCurrent'
    BY <1>2 DEF SInv, ReadIsCurrent
<1>7. key \notin evict'
    BY <1>1, <1>3 DEF findConflicts
<1>8. \A x \in EntriesOf(key)' : x.node \in v.nodes
    BY <1>1, <1>2 DEF EntriesOf
<1>9. PlacedSoFar'
    BY <1>1, <1>2, <1>3, <1>7, <1>8 DEF PlacedSoFar
<1> QED
    BY <1>5, <1>6, <1>9 DEF SInv

\* A Route that is evicted is looked at again.
LEMMA SEvictStep == \A r \in Routes : IInv /\ SInv /\ Evict(r) => SInv'
<1> SUFFICES ASSUME NEW r0 \in Routes, IInv, SInv, Evict(r0) PROVE SInv'
    OBVIOUS
<1>1. /\ pc = "evict" /\ r0 \in evict
      /\ RouteConfigs' = RouteConfigs \ EntriesOf(r0)
      /\ queue' = queue \union {r0}
      /\ evict' = evict \ {r0}
      /\ UNCHANGED <<api, listener, static, losers, pc, key, read, place>>
    BY DEF Evict, kube
<1>2. \A r \in Routes : r # r0 => EntriesOf(r)' = EntriesOf(r)
    BY <1>1 DEF EntriesOf
<1>3. key # r0
    BY <1>1 DEF SInv, PlacedSoFar
<1>4. ASSUME NEW r \in Routes, r # key, r \notin queue'
      PROVE  Right(r)'
    BY <1>1, <1>2, <1>4, OthersKept
<1>5. SettledIsRight'
    BY <1>1, <1>4 DEF SettledIsRight
<1>6. ReadIsCurrent'
    BY <1>1 DEF SInv, ReadIsCurrent
<1>7. PlacedSoFar'
    <2>1. \A x \in EntriesOf(key)' : x \in EntriesOf(key)
        BY <1>1 DEF EntriesOf
    <2>2. ASSUME NEW v \in read, NEW n \in v.nodes \ place
          PROVE  [node |-> n, route |-> v] \in RouteConfigs'
        <3>1. [node |-> n, route |-> v] \in RouteConfigs /\ v.name = key
            BY <1>1 DEF SInv, PlacedSoFar, IInv, NamesOK
        <3>2. [node |-> n, route |-> v].route = v
            OBVIOUS
        <3> QED
            BY <1>1, <1>3, <3>1, <3>2 DEF EntriesOf
    <2> QED
        BY <1>1, <2>1, <2>2 DEF SInv, PlacedSoFar
<1> QED
    BY <1>5, <1>6, <1>7 DEF SInv

\* A Route that won moves to one more of its nodes.
LEMMA SPlaceStep == \A n \in Nodes : IInv /\ SInv /\ Place(n) => SInv'
<1> SUFFICES ASSUME NEW n \in Nodes, IInv, SInv, Place(n) PROVE SInv'
    OBVIOUS
<1>1. PICK v \in read :
        RouteConfigs' = {x \in RouteConfigs : x.node # n \/ x.route.name # key}
                        \union {[node |-> n, route |-> v]}
    BY DEF Place
<1>2. /\ pc = "evict" /\ n \in place /\ place' = place \ {n}
      /\ UNCHANGED <<api, listener, static, queue, losers, pc, key, read, evict>>
    BY DEF Place, kube
<1>3. v.name = key /\ read = {v} /\ place \subseteq v.nodes
    BY <1>1, <1>2 DEF IInv, NamesOK, OneVersion, EvictionCovers
<1> DEFINE e == [node |-> n, route |-> v]
<1>4. e.node = n /\ e.route = v
    OBVIOUS
<1>5. RouteConfigs' = {x \in RouteConfigs : x.node # n \/ x.route.name # key} \union {e}
    BY <1>1
<1> HIDE DEF e
<1>6. \A r \in Routes : r # key => EntriesOf(r)' = EntriesOf(r)
    BY <1>3, <1>4, <1>5 DEF EntriesOf
<1>7. SettledIsRight'
    BY <1>2, <1>6, OthersKept DEF SettledIsRight
<1>8. ReadIsCurrent'
    BY <1>2 DEF SInv, ReadIsCurrent
<1>9. ASSUME NEW x \in EntriesOf(key)'
      PROVE  x.node \in v.nodes /\ (x.node \notin place' => x.route = v)
    <2>1. CASE x = e
        BY <1>2, <1>3, <1>4, <2>1
    <2>2. CASE x # e
        <3>1. x \in RouteConfigs /\ x.route.name = key /\ x.node # n
            BY <1>2, <1>5, <2>2 DEF EntriesOf
        <3>2. x \in EntriesOf(key)
            BY <3>1 DEF EntriesOf
        <3> QED
            BY <1>2, <3>1, <3>2 DEF SInv, PlacedSoFar
    <2> QED
        BY <2>1, <2>2
<1>10. ASSUME NEW o \in v.nodes \ place'
       PROVE  [node |-> o, route |-> v] \in RouteConfigs'
    <2>1. CASE o = n
        BY <1>5, <2>1 DEF e
    <2>2. CASE o # n
        <3>1. o \in v.nodes \ place
            BY <1>2, <2>2
        <3>2. [node |-> o, route |-> v] \in RouteConfigs
            BY <1>2, <3>1 DEF SInv, PlacedSoFar
        <3>3. [node |-> o, route |-> v].node = o
            OBVIOUS
        <3> QED
            BY <1>5, <2>2, <3>2, <3>3
    <2> QED
        BY <2>1, <2>2
<1>11. PlacedSoFar'
    <2>1. key \notin evict /\ v.ok /\ (key \notin queue => listener /\ v.match \notin static)
        BY <1>2 DEF SInv, PlacedSoFar
    <2> QED
        BY <1>2, <1>3, <1>9, <1>10, <2>1 DEF PlacedSoFar
<1> QED
    BY <1>7, <1>8, <1>11 DEF SInv

\* At the end of a reconcile the Route is right, and its losers are queued.
LEMMA SFinishStep == IInv /\ SInv /\ Finish => SInv'
<1> SUFFICES ASSUME IInv, SInv, Finish PROVE SInv'
    OBVIOUS
<1>1. /\ pc = "finish" \/ (pc = "evict" /\ evict = {} /\ place = {})
      /\ queue' = queue \union losers[key]
      /\ losers' = [losers EXCEPT ![key] = {}]
      /\ pc' = "idle"
      /\ UNCHANGED <<api, listener, static, RouteConfigs, key, read>>
    BY DEF Finish, kube
<1>2. ASSUME key \notin queue
      PROVE  Right(key)
    <2>1. CASE pc = "finish"
        BY <1>2, <2>1 DEF SInv, SettledIsRight, IInv, TypeOK
    <2>2. CASE pc = "evict" /\ place = {}
        <3>1. PICK v \in read : read = {v}
            BY <2>2 DEF IInv, EvictionCovers
        <3>2. api[key] = {v} /\ v.name = key
            BY <1>2, <2>2, <3>1 DEF SInv, ReadIsCurrent, IInv, NamesOK
        <3>3. listener /\ v.match \notin static
            BY <1>2, <2>2, <3>1 DEF SInv, PlacedSoFar
        <3>4. \A x \in EntriesOf(key) : x.node \in v.nodes /\ x.route = v
            BY <2>2, <3>1 DEF SInv, PlacedSoFar
        <3>5. \A n \in v.nodes : [node |-> n, route |-> v] \in RouteConfigs
            BY <2>2, <3>1 DEF SInv, PlacedSoFar
        <3>6. ASSUME NEW x \in EntriesOf(key)
              PROVE  x \in {[node |-> n, route |-> v] : n \in v.nodes}
            <4>1. x \in Entry
                BY DEF EntriesOf, IInv, TypeOK
            <4>2. x = [node |-> x.node, route |-> x.route]
                BY <4>1 DEF Entry
            <4> QED
                BY <3>4, <4>2
        <3>7. ASSUME NEW n \in v.nodes
              PROVE  [node |-> n, route |-> v] \in EntriesOf(key)
            <4>1. [node |-> n, route |-> v].route = v
                OBVIOUS
            <4> QED
                BY <3>2, <3>5, <4>1 DEF EntriesOf
        <3>8. ServedEverywhere(v)
            BY <3>2, <3>6, <3>7 DEF ServedEverywhere
        <3> QED
            BY <3>2, <3>3, <3>8 DEF Right
    <2> QED
        BY <1>1, <2>1, <2>2
<1>3. ASSUME NEW r \in Routes, r \notin queue'
      PROVE  Right(r)'
    <2>1. Right(r)
        BY <1>1, <1>2, <1>3 DEF SInv, SettledIsRight
    <2>2. \A w \in Routes : EntriesOf(w)' = EntriesOf(w)
        BY <1>1 DEF EntriesOf
    <2>3. ASSUME NEW w \in Routes, r \in losers[w]
          PROVE  r \in losers'[w] /\ (Busy(w) => Busy(w)')
        <3>1. w # key
            BY <1>1, <1>3, <2>3
        <3> QED
            BY <1>1, <2>3, <3>1 DEF Busy, IInv, TypeOK
    <2> QED
        BY <1>1, <2>1, <2>2, <2>3, RightKept
<1> QED
    BY <1>1, <1>3 DEF SInv, SettledIsRight, ReadIsCurrent, PlacedSoFar

\* Every step preserves the account.
LEMMA SInvStep == IInv /\ SInv /\ [Next]_vars => SInv'
<1>1. IInv /\ SInv /\ UNCHANGED vars => SInv'
    BY DEF vars, kube, worker, SInv, SettledIsRight, ReadIsCurrent, PlacedSoFar, Right, Excused,
           Busy, BeatenBy, ServedEverywhere, EntriesOf, findConflicts, RouteConflict, OlderRoute
<1> QED
    BY <1>1, SEditStep, SStartStep, SStartFailsStep, SRejectStep, SWinStep, SEvictStep,
       SPlaceStep, SFinishStep
    DEF Next, Work, Decide

\* When nothing is left to do, whoever is excused is beaten, and who is served
\* everywhere is not.
LEMMA AccountImpliesOldest == IInv /\ SInv => OldestServed
<1> SUFFICES ASSUME IInv, SInv, pc = "idle", queue = {}, NEW r \in Routes
             PROVE  /\ api[r] = {} => EntriesOf(r) = {}
                    /\ \A v \in api[r] : v.ok =>
                        IF listener /\ v.match \notin static /\ ~Beaten(v)
                        THEN ServedEverywhere(v)
                        ELSE EntriesOf(r) = {}
    BY DEF OldestServed
<1>1. Right(r)
    BY DEF SInv, SettledIsRight
<1>2. ASSUME NEW v \in api[r], Excused(r, v)
      PROVE  Beaten(v)
    BY <1>2 DEF Excused, Busy, BeatenBy, Beaten
<1>3. ASSUME NEW v \in api[r], ServedEverywhere(v), Beaten(v)
      PROVE  FALSE
    <2>1. PICK x \in findConflicts(v) : OlderRoute(x, v)
        BY <1>3 DEF Beaten
    <2>2. PICK y \in RouteConfigs :
            y.node \in v.nodes /\ y.route.name # v.name /\ RouteConflict(v, y.route)
        BY <2>1 DEF findConflicts
    <2> DEFINE e == [node |-> y.node, route |-> v]
    <2>3. e \in RouteConfigs /\ e.node = y.node /\ e.route = v
        BY <1>3, <2>2 DEF ServedEverywhere, EntriesOf
    <2> QED
        BY <2>2, <2>3 DEF IInv, NoConflictServed
<1> QED
    BY <1>1, <1>2, <1>3 DEF Right

\* Whatever Routes, nodes and conflict relation there are: when RDS is idle with
\* an empty queue, every Route that converts is served on all its nodes, unless
\* the Listener's chains or an older served Route forbid it, and then on none.
THEOREM OldestWins == Safe => []OldestServed
<1>1. Safe => []SInv
    BY IInvAlways, SInvInit, SInvStep, PTL DEF Safe
<1> QED
    BY <1>1, IInvAlways, AccountImpliesOldest, PTL

=============================================================================
