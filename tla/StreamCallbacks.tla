---------------------------- MODULE StreamCallbacks ----------------------------
(***************************************************************************)
(* The callbacks of the xDS server and the metrics behind them.            *)
(*                                                                         *)
(* OnStreamRequest replaces the id of the Envoy node by the encoded id its *)
(* snapshot is stored under, OnStreamResponse decodes it again, and both,  *)
(* with processSnapshot, keep the tables the metrics are computed from:    *)
(* xds.Streams, one entry per stream, and xds.Snapshots, one per node.     *)
(* Callbacks exclude each other; processSnapshot runs beside them.         *)
(*                                                                         *)
(* The gRPC server and the snapshot cache are go-control-plane's: a stream *)
(* is served by one goroutine, a request opens a watch under its node id,  *)
(* and a watch is answered when the cache holds another version than the   *)
(* one last sent.  Delta streams are counted by the callbacks and are in   *)
(* neither table; their requests are encoded all the same.                 *)
(*                                                                         *)
(* An Envoy may name its node in the first request of a stream only.  The  *)
(* server then puts that one Node object in every later request, so that   *)
(* the callbacks encode and decode an id that all requests share.          *)
(***************************************************************************)
EXTENDS Naturals, FiniteSets

CONSTANTS
    Nodes,       \* Envoy nodes
    Single, Full, Delta,  \* streams: one type; several types; incremental
    NodeOf,      \* the node of each stream
    NodeOnce,    \* streams whose requests share the Node object of the first
    MaxVersion,  \* bound: versions of the configuration
    MaxOpened,   \* bound: streams opened in a behaviour
    MaxLevel     \* bound: how often a node id is encoded over itself

Streams == Single \union Full \union Delta
Types == {"clusters", "listeners"}
Versions == 1..MaxVersion

ASSUME StreamAssumption ==
    /\ Nodes # {} /\ MaxVersion \in Nat \ {0} /\ MaxOpened \in Nat
    /\ NodeOf \in [Streams -> Nodes] /\ NodeOnce \subseteq Streams
    /\ MaxLevel \in Nat \ {0}
    /\ Single \intersect Full = {} /\ Delta \intersect (Single \union Full) = {}
    /\ IsFiniteSet(Streams)

TypesOn(s) == IF s \in Full THEN Types ELSE {"clusters"}

\* How often a node id has been encoded.
Levels == 0..MaxLevel

\* An entry of xds.Streams: the zero Stream until the first response.
Entries == [named: BOOLEAN, level: Levels, client: 0..MaxVersion, server: 0..MaxVersion]
NoEntry == [named |-> FALSE, level |-> 0, client |-> 0, server |-> 0]

\* A watch or an answer on its way: the encoding of its node id, the version.
Watches == [level: Levels, version: 0..MaxVersion]
NoWatch == [level |-> 0, version |-> 0]

VARIABLES
    conf,      \* version of each node's configuration
    dirty,     \* has a configuration changed since the last pass?
    pass,      \* the pass of processSnapshot: [pc, todo, last, snaps]
    cache,     \* the snapshot cache: version per node, 0 for none
    Snapshots, \* xds.Snapshots: version per node, 0 for no entry
    phase,     \* each stream: "new", "open" or "closed"
    StreamsMap,\* xds.Streams: entry per stream
    known,     \* the streams xds.Streams has an entry for
    id,        \* encoding of the Node object shared by a stream's requests
    watch,     \* open watch per stream and type
    answer,    \* response created and not yet sent, per stream and type
    sent,      \* version last sent per stream and type
    series,    \* xds_envoy_stream_active: series by stream and node label
    answered,  \* streams OnStreamResponse has run for
    ahead,     \* history: NodeOnce streams that did not wait for their answers
    gauge      \* xds_snapshot_version_match per node: 2 for no series

server == <<conf, dirty, pass, cache, Snapshots>>
grpc == <<phase, id, watch, answer, sent, ahead>>
tables == <<StreamsMap, known, series, answered, gauge>>
vars == <<server, grpc, tables>>

Idle == [pc |-> "idle", todo |-> {}, last |-> CHOOSE n \in Nodes : TRUE,
         snaps |-> [n \in Nodes |-> 0]]

Init ==
    /\ conf = [n \in Nodes |-> 1] /\ dirty = TRUE
    /\ pass = Idle
    /\ cache = [n \in Nodes |-> 0]
    /\ Snapshots = [n \in Nodes |-> 0]
    /\ phase = [s \in Streams |-> "new"]
    /\ StreamsMap = [s \in Streams |-> NoEntry] /\ known = {}
    /\ id = [s \in Streams |-> 0]
    /\ watch = [s \in Streams |-> [t \in Types |-> NoWatch]]
    /\ answer = [s \in Streams |-> [t \in Types |-> NoWatch]]
    /\ sent = [s \in Streams |-> [t \in Types |-> 0]]
    /\ series = {} /\ answered = {} /\ ahead = {}
    /\ gauge = [n \in Nodes |-> 2]

-----------------------------------------------------------------------------
(* Node ids. *)

\* GetNodeID encodes whatever it is given; GetNodeInfo takes one level off and
\* fails on a name that is not encoded.
GetNodeID(level) == level + 1
Decodes(level) == level > 0

-----------------------------------------------------------------------------
(* The version-match gauge. *)

\* Streams whose entry has the name of the node.
Named(streams, n) == {s \in known : streams[s].named /\ NodeOf[s] = n /\ streams[s].level = 0}

\* VersionMatch: the first stream of the node, in random order, decides.
VersionMatch(e) == IF e.client # 0 /\ e.server # 0 /\ e.client = e.server THEN 1 ELSE 0

\* RecordSnapshotVersionMatchSet for the node of every stream with both versions.
Record(streams) ==
    gauge' \in {g \in [Nodes -> 0..2] : \A n \in Nodes :
        IF \E s \in Named(streams, n) : streams[s].client # 0 /\ streams[s].server # 0
          THEN \E s \in Named(streams, n) : g[n] = VersionMatch(streams[s])
          ELSE g[n] = gauge[n]}

\* SetSnapshotServerVersion for every node in Snapshots, then
\* SetSnapshotClientVersion for the name just decoded, node n still encoded level
\* times: every entry of that name gets the version.
WithVersions(streams, n, level, version) ==
    [s \in Streams |->
        IF ~streams[s].named THEN streams[s]
        ELSE [streams[s] EXCEPT
                !.server = IF streams[s].level = 0 /\ Snapshots[NodeOf[s]] # 0
                             THEN Snapshots[NodeOf[s]] ELSE @,
                !.client = IF NodeOf[s] = n /\ streams[s].level = level THEN version ELSE @]]

-----------------------------------------------------------------------------
(* The callbacks. *)

\* OnStreamOpen: an empty entry.  A delta stream gets none.
OnStreamOpen(s) ==
    /\ phase[s] = "new"
    /\ Cardinality({r \in Streams : phase[r] # "new"}) < MaxOpened
    /\ phase' = [phase EXCEPT ![s] = "open"]
    /\ known' = IF s \in Delta THEN known ELSE known \union {s}
    /\ UNCHANGED <<server, id, watch, answer, sent, ahead, StreamsMap, series, answered, gauge>>

\* A request of the type waits for its response.
Waiting(s, t) == watch[s][t] # NoWatch \/ answer[s][t] # NoWatch

\* OnStreamRequest or OnStreamDeltaRequest, which encode the id of whatever Node
\* they are given, then the server: the request replaces the watch of its type and
\* an answer still on its way, unless it acknowledges a response that is not the
\* last (stale), which leaves them.  A request may come at any time; a stream that
\* sends one while another of its requests waits, or that crosses a response, is
\* ahead of its answers.
OnStreamRequest(s, t) ==
    /\ phase[s] = "open" /\ t \in TypesOn(s)
    /\ LET level == IF s \in NodeOnce THEN id[s] ELSE 0 IN
         /\ level < MaxLevel
         /\ series' = IF s \in Delta THEN series ELSE series \union {<<s, level>>}
         /\ id' = [id EXCEPT ![s] = IF s \in NodeOnce THEN GetNodeID(level) ELSE @]
         /\ \E stale \in BOOLEAN :
              /\ stale => s \notin Delta /\ sent[s][t] # 0
              /\ ahead' = IF s \in NodeOnce /\ (stale \/ \E u \in Types : Waiting(s, u))
                            THEN ahead \union {s} ELSE ahead
              /\ IF stale
                   THEN UNCHANGED <<watch, answer>>
                   ELSE /\ watch' = [watch EXCEPT ![s][t] =
                               [level |-> GetNodeID(level), version |-> sent[s][t]]]
                        /\ answer' = [answer EXCEPT ![s][t] = NoWatch]
    /\ UNCHANGED <<server, phase, sent, StreamsMap, known, answered, gauge>>

\* The cache answers a watch: a snapshot under that id, of another version.
Answer(s, t) ==
    /\ watch[s][t].level = 1
    /\ cache[NodeOf[s]] \notin {0, watch[s][t].version}
    /\ answer' = [answer EXCEPT ![s][t] =
           [level |-> watch[s][t].level, version |-> cache[NodeOf[s]]]]
    /\ watch' = [watch EXCEPT ![s][t] = NoWatch]
    /\ UNCHANGED <<server, phase, id, sent, ahead, tables>>

\* Mutant of Restored: the id of the request is left encoded.
RestoredNot(level) == level

\* The id OnStreamResponse leaves in the request's Node.
Restored(level) == level - 1

\* The goroutine of the stream sends the response and calls OnStreamResponse: it
\* takes one encoding off the id, replaces the entry and recomputes the gauge.  The
\* id of a request that was answered is encoded (TypeOK), so it decodes and the
\* early return is not taken.
OnStreamResponse(s, t) ==
    /\ phase[s] = "open" /\ s \notin Delta
    /\ answer[s][t] # NoWatch
    /\ sent' = [sent EXCEPT ![s][t] = answer[s][t].version]
    /\ answer' = [answer EXCEPT ![s][t] = NoWatch]
    /\ LET level == IF s \in NodeOnce THEN id[s] ELSE answer[s][t].level
           entry == [named |-> TRUE, level |-> level - 1, client |-> 0, server |-> 0]
           streams == WithVersions([StreamsMap EXCEPT ![s] = entry], NodeOf[s], level - 1,
                                   answer[s][t].version)
       IN /\ Decodes(level)
          /\ id' = [id EXCEPT ![s] = IF s \in NodeOnce THEN Restored(level) ELSE @]
          /\ StreamsMap' = streams
          /\ Record(streams)
    /\ answered' = answered \union {s}
    /\ UNCHANGED <<server, phase, watch, ahead, known, series>>

\* OnStreamDeltaResponse counts, and leaves the id as it is.
OnStreamDeltaResponse(s, t) ==
    /\ phase[s] = "open" /\ s \in Delta
    /\ answer[s][t] # NoWatch
    /\ sent' = [sent EXCEPT ![s][t] = answer[s][t].version]
    /\ answer' = [answer EXCEPT ![s][t] = NoWatch]
    /\ UNCHANGED <<server, phase, id, watch, ahead, tables>>

\* Mutant of Close: the series is not deleted.
CloseKeepsSeries(s) ==
    /\ known' = known \ {s}
    /\ StreamsMap' = [StreamsMap EXCEPT ![s] = NoEntry]
    /\ UNCHANGED series

\* Mutant of Close: the entry is not deleted.
CloseKeepsEntry(s) ==
    /\ series' = IF StreamsMap[s].named
                   THEN series \ {<<s, StreamsMap[s].level>>} ELSE series
    /\ UNCHANGED <<known, StreamsMap>>

\* The series is deleted by the labels of the entry, which are empty until the
\* first response.
Close(s) ==
    /\ series' = IF StreamsMap[s].named
                   THEN series \ {<<s, StreamsMap[s].level>>} ELSE series
    /\ known' = known \ {s}
    /\ StreamsMap' = [StreamsMap EXCEPT ![s] = NoEntry]

\* OnStreamClosed; OnDeltaStreamClosed finds no entry.
OnStreamClosed(s) ==
    /\ phase[s] = "open"
    /\ phase' = [phase EXCEPT ![s] = "closed"]
    /\ IF s \in known THEN Close(s) ELSE UNCHANGED <<series, known, StreamsMap>>
    /\ watch' = [watch EXCEPT ![s] = [t \in Types |-> NoWatch]]
    /\ answer' = [answer EXCEPT ![s] = [t \in Types |-> NoWatch]]
    /\ id' = [id EXCEPT ![s] = 0]
    /\ sent' = [sent EXCEPT ![s] = [t \in Types |-> 0]]
    /\ UNCHANGED <<server, ahead, answered, gauge>>

-----------------------------------------------------------------------------
(* processSnapshot. *)

Edit(n) ==
    /\ \A m \in Nodes : conf[m] < MaxVersion
    /\ conf' = [conf EXCEPT ![n] = @ + 1]
    /\ dirty' = TRUE
    /\ UNCHANGED <<pass, cache, Snapshots, grpc, tables>>

\* Mutant of Cleaned: the list of the last pass stays.
CleanedNot == Snapshots

\* CleanSnapshots empties the list before the first node is handled.
Cleaned == [n \in Nodes |-> 0]

\* Generate the snapshots and empty the list; a node's snapshot may be
\* inconsistent (0).
Begin ==
    /\ pass.pc = "idle" /\ dirty
    /\ \E bad \in SUBSET Nodes :
         pass' = [pc |-> "nodes", todo |-> Nodes, last |-> Idle.last,
                  snaps |-> [n \in Nodes |-> IF n \in bad THEN 0 ELSE conf[n]]]
    /\ dirty' = FALSE
    /\ Snapshots' = Cleaned
    /\ UNCHANGED <<conf, cache, grpc, tables>>

\* SetSnapshot for a node whose version changed.
SetSnapshot(n) ==
    /\ pass.pc = "nodes" /\ n \in pass.todo
    /\ pass.snaps[n] \notin {0, cache[n]}
    /\ cache' = [cache EXCEPT ![n] = pass.snaps[n]]
    /\ pass' = [pass EXCEPT !.pc = "set", !.last = n]
    /\ UNCHANGED <<conf, dirty, Snapshots, grpc, tables>>

\* AddSnapshot for the node whose version the cache now has, the next thing
\* done after SetSnapshot.
AddSnapshot(n) ==
    /\ pass.pc \in {"nodes", "set"} /\ n \in pass.todo
    /\ pass.pc = "set" => pass.last = n
    /\ pass.snaps[n] = cache[n] /\ cache[n] # 0
    /\ Snapshots' = [Snapshots EXCEPT ![n] = cache[n]]
    /\ pass' = [pass EXCEPT !.pc = "nodes", !.todo = @ \ {n}, !.last = Idle.last]
    /\ UNCHANGED <<conf, dirty, cache, grpc, tables>>

\* An inconsistent snapshot is left out, of the list as well.
SkipNode(n) ==
    /\ pass.pc = "nodes" /\ n \in pass.todo
    /\ pass.snaps[n] = 0
    /\ pass' = [pass EXCEPT !.todo = @ \ {n}]
    /\ UNCHANGED <<conf, dirty, cache, Snapshots, grpc, tables>>

\* The gauge for all streams; an inconsistent node makes the next tick retry.
End ==
    /\ pass.pc = "nodes" /\ pass.todo = {}
    /\ Record(StreamsMap)
    /\ dirty' = (dirty \/ \E n \in Nodes : pass.snaps[n] = 0)
    /\ pass' = Idle
    /\ UNCHANGED <<conf, cache, Snapshots, grpc, StreamsMap, known, series, answered>>

Next ==
    \/ \E n \in Nodes : Edit(n) \/ SetSnapshot(n) \/ AddSnapshot(n) \/ SkipNode(n)
    \/ Begin \/ End
    \/ \E s \in Streams :
         \/ OnStreamOpen(s) \/ OnStreamClosed(s)
         \/ \E t \in Types :
              \/ OnStreamRequest(s, t) \/ Answer(s, t)
              \/ OnStreamResponse(s, t) \/ OnStreamDeltaResponse(s, t)

Spec == Init /\ [][Next]_vars

-----------------------------------------------------------------------------

\* The types of the variables.
VarTypes ==
    /\ conf \in [Nodes -> Versions] /\ dirty \in BOOLEAN
    /\ pass.pc \in {"idle", "nodes", "set"} /\ pass.todo \subseteq Nodes
    /\ cache \in [Nodes -> 0..MaxVersion] /\ Snapshots \in [Nodes -> 0..MaxVersion]
    /\ phase \in [Streams -> {"new", "open", "closed"}]
    /\ StreamsMap \in [Streams -> Entries]
    /\ known \subseteq {s \in Streams \ Delta : phase[s] = "open"}
    /\ id \in [Streams -> Levels]
    /\ watch \in [Streams -> [Types -> Watches]]
    /\ answer \in [Streams -> [Types -> Watches]]
    /\ series \subseteq Streams \X Levels /\ answered \subseteq Streams
    /\ ahead \subseteq NodeOnce
    /\ gauge \in [Nodes -> 0..2]

\* Every variable holds what the code can put there; a stream that is not open
\* has no entry, so the tables do not grow with the connections of the past, and
\* the id of a request whose answer is on its way can be decoded.
TypeOK ==
    /\ VarTypes
    /\ \A s \in NodeOnce \ Delta, t \in Types : answer[s][t] # NoWatch => Decodes(id[s])

\* An Envoy waits under its own node id: a watch is registered under the id encoded
\* once, the one SetSnapshot uses.  Under another id it would never be answered, and
\* that does happen, to exactly two kinds of streams that name their node once: delta
\* streams, whose id OnStreamDeltaResponse does not restore, and streams ahead of
\* their answers, whose second request encodes the id that the first one encoded.
WatchUnderOwnNode ==
    \A s \in Streams, t \in Types : watch[s][t] # NoWatch =>
        \/ watch[s][t].level = 1
        \/ s \in NodeOnce /\ (s \in Delta \/ s \in ahead)

\* A stream that closed leaves its xds_envoy_stream_active series behind only
\* if it was never answered, or was ahead of its answers, where the series is
\* recorded under one name and deleted under another.
LeaksOnlyUnanswered ==
    \A s \in Streams :
        phase[s] = "closed" /\ (\E l \in Levels : <<s, l>> \in series)
            => s \notin answered \/ s \in ahead

\* Mapped streams of a node.
LoneNode(n) == Cardinality({s \in Single \union Full : NodeOf[s] = n}) = 1

\* For a node with one stream, a response that sets the gauge to 1 is right: the
\* version just sent is the one in the cache.  The list is emptied before the
\* cache changes and refilled after, so a response between the two finds no
\* server version to agree with.
LoneMatchIsTrue ==
    [][\A s \in Single \union Full, t \in Types :
         /\ gauge'[NodeOf[s]] = 1 /\ gauge[NodeOf[s]] # 1
         /\ sent'[s][t] \notin {0, sent[s][t]}
         /\ LoneNode(NodeOf[s])
         => sent'[s][t] = cache[NodeOf[s]]]_vars
=============================================================================
