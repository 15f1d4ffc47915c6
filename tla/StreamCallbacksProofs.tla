------------------------- MODULE StreamCallbacksProofs -------------------------
(* Proofs about StreamCallbacks: its types, which watches are registered under
   the id encoded once, which series outlive their stream, and that a match
   reported for a node with one stream is true, for any nodes, streams and
   versions. *)
EXTENDS StreamCallbacks, FiniteSetTheorems, TLAPS

\* What VarTypes leaves open: the versions sent, and the shape of a pass.
Passes == [pc: {"idle", "nodes", "set"}, todo: SUBSET Nodes, last: Nodes,
           snaps: [Nodes -> 0..MaxVersion]]
Shapes == sent \in [Streams -> [Types -> 0..MaxVersion]] /\ pass \in Passes

\* What waits: a watch under the id encoded once, save for the streams that
\* WatchUnderOwnNode excepts, or an answer to such a watch, never both.
EncodedOnce ==
    /\ WatchUnderOwnNode
    /\ \A s \in Streams, t \in Types :
         /\ answer[s][t] # NoWatch => answer[s][t].level = 1
         /\ watch[s][t] = NoWatch \/ answer[s][t] = NoWatch

\* How many requests of a stream wait for their response.
Pending(s) == (IF Waiting(s, "clusters") THEN 1 ELSE 0)
              + (IF Waiting(s, "listeners") THEN 1 ELSE 0)

\* The Node object a stream's requests share is encoded at least once for each
\* request that waits, so that every response can decode it.
IdCoversPending == \A s \in NodeOnce \ Delta : id[s] >= Pending(s)

\* While the stream is not ahead of its answers it is encoded exactly while a
\* request waits, and only one does.  This is what WatchUnderOwnNode lacks: the
\* next request encodes the id again.
SharedIdRestored == \A s \in NodeOnce \ (Delta \union ahead) :
    id[s] = Pending(s) /\ Pending(s) <= 1

\* Series carry the plain id, and so do the entries they are deleted by, unless
\* the stream was ahead of its answers.
SeriesPlain == \A s \in Streams, l \in Levels : <<s, l>> \in series => l = 0 \/ s \in ahead

\* A stream that was answered has an entry that names it until it closes.
AnsweredNamed == \A s \in answered :
    /\ s \notin Delta /\ phase[s] # "new"
    /\ phase[s] = "open" =>
         s \in known /\ StreamsMap[s].named /\ (StreamsMap[s].level = 0 \/ s \in ahead)

\* A stream in neither table of a delta stream is known while it is open.
OpenIsKnown == \A s \in Streams \ Delta : phase[s] = "open" => s \in known

\* The list names the version in the cache, or none: a node still to do has none.
ListedIsCached ==
    /\ \A n \in Nodes : Snapshots[n] \in {0, cache[n]}
    /\ \A n \in pass.todo : Snapshots[n] = 0

\* The inductive invariants: of the ids, of the series, of the list.
IdInv == EncodedOnce /\ IdCoversPending /\ SharedIdRestored
SeriesInv == SeriesPlain /\ AnsweredNamed /\ OpenIsKnown /\ LeaksOnlyUnanswered
TypeInv == VarTypes /\ Shapes

-----------------------------------------------------------------------------
(* The operators *)

\* The empty watch, entry and pass are of their types.
LEMMA Constants ==
    /\ NoWatch \in Watches /\ NoEntry \in Entries /\ Idle \in Passes
    /\ Idle.pc = "idle" /\ Idle.todo = {} /\ Idle.last \in Nodes
    /\ NoWatch.level = 0 /\ ~NoEntry.named
    /\ "clusters" \in Types /\ "listeners" \in Types
<1>1. (CHOOSE n \in Nodes : TRUE) \in Nodes
    BY StreamAssumption
<1>2. [n \in Nodes |-> 0] \in [Nodes -> 0..MaxVersion]
    BY StreamAssumption
<1>3. Idle \in Passes /\ Idle.pc = "idle" /\ Idle.todo = {} /\ Idle.last \in Nodes
    BY <1>1, <1>2 DEF Idle, Passes
<1> QED
    BY <1>3, StreamAssumption DEF NoWatch, Watches, NoEntry, Entries, Levels, Types

\* Setting the versions changes neither who is named nor under which id.
LEMMA WithVersionsFacts ==
    ASSUME Snapshots \in [Nodes -> 0..MaxVersion], NEW streams \in [Streams -> Entries],
           NEW n \in Nodes, NEW level \in Levels, NEW version \in 0..MaxVersion
    PROVE  LET ws == WithVersions(streams, n, level, version) IN
           /\ ws \in [Streams -> Entries]
           /\ \A s \in Streams :
                /\ ws[s].named = streams[s].named /\ ws[s].level = streams[s].level
                /\ streams[s].named =>
                     /\ NodeOf[s] = n /\ streams[s].level = level => ws[s].client = version
                     /\ ws[s].server \in {streams[s].server, Snapshots[NodeOf[s]]}
<1> DEFINE ws == WithVersions(streams, n, level, version)
           srv(s) == IF streams[s].level = 0 /\ Snapshots[NodeOf[s]] # 0
                       THEN Snapshots[NodeOf[s]] ELSE streams[s].server
           cli(s) == IF NodeOf[s] = n /\ streams[s].level = level
                       THEN version ELSE streams[s].client
           new(s) == [streams[s] EXCEPT !.server = srv(s), !.client = cli(s)]
<1>1. ws = [s \in Streams |-> IF ~streams[s].named THEN streams[s] ELSE new(s)]
    BY DEF WithVersions
<1>2. ASSUME NEW s \in Streams
      PROVE  /\ new(s) \in Entries /\ new(s).named = streams[s].named
             /\ new(s).level = streams[s].level
             /\ new(s).client = cli(s) /\ new(s).server = srv(s)
    <2>1. streams[s] \in Entries /\ Snapshots[NodeOf[s]] \in 0..MaxVersion
        BY StreamAssumption
    <2>2. cli(s) \in 0..MaxVersion /\ srv(s) \in 0..MaxVersion
        BY <2>1 DEF Entries
    <2> HIDE DEF cli, srv
    <2> QED
        BY <2>1, <2>2 DEF Entries
<1> HIDE DEF new, ws
<1>3. \A s \in Streams : ws[s] = IF ~streams[s].named THEN streams[s] ELSE new(s)
    BY <1>1
<1>4. ws \in [Streams -> Entries]
    BY <1>1, <1>2
<1> QED
    BY <1>2, <1>3, <1>4 DEF ws

\* The gauge is recomputed for the nodes of named streams only.
LEMMA RecordFacts ==
    ASSUME NEW streams, Record(streams)
    PROVE  /\ gauge' \in [Nodes -> 0..2]
           /\ \A n \in Nodes : gauge'[n] # gauge[n] =>
                \E s \in Named(streams, n) : gauge'[n] = VersionMatch(streams[s])
BY DEF Record

\* Setting one entry of a table per stream and type.
LEMMA SetCell ==
    ASSUME NEW S, NEW f \in [Streams -> [Types -> S]], NEW s \in Streams, NEW t \in Types, NEW w \in S
    PROVE  /\ [f EXCEPT ![s][t] = w] \in [Streams -> [Types -> S]]
           /\ \A x \in Streams, u \in Types :
                [f EXCEPT ![s][t] = w][x][u] = IF x = s /\ u = t THEN w ELSE f[x][u]
OBVIOUS

\* What OnStreamRequest does to the ids and the watches.
LEMMA RequestFacts ==
    ASSUME TypeInv, NEW s \in Streams, NEW t \in Types, OnStreamRequest(s, t)
    PROVE  \E level \in Levels, w \in Watches, stale \in BOOLEAN :
             /\ level = IF s \in NodeOnce THEN id[s] ELSE 0
             /\ series' = IF s \in Delta THEN series ELSE series \union {<<s, level>>}
             /\ id' \in [Streams -> Levels]
             /\ \A x \in Streams : id'[x] = IF x = s /\ s \in NodeOnce THEN id[x] + 1 ELSE id[x]
             /\ ahead' = IF s \in NodeOnce /\ (stale \/ \E u \in Types : Waiting(s, u))
                           THEN ahead \union {s} ELSE ahead
             /\ w.level = level + 1 /\ w # NoWatch
             /\ watch' \in [Streams -> [Types -> Watches]]
             /\ answer' \in [Streams -> [Types -> Watches]]
             /\ \A x \in Streams, u \in Types :
                  /\ watch'[x][u] = (IF x = s /\ u = t /\ ~stale THEN w ELSE watch[x][u])
                  /\ answer'[x][u] = (IF x = s /\ u = t /\ ~stale THEN NoWatch ELSE answer[x][u])
<1> DEFINE level == IF s \in NodeOnce THEN id[s] ELSE 0
           w == [level |-> level + 1, version |-> sent[s][t]]
<1>1. PICK stale \in BOOLEAN :
        /\ level < MaxLevel
        /\ series' = IF s \in Delta THEN series ELSE series \union {<<s, level>>}
        /\ id' = [id EXCEPT ![s] = IF s \in NodeOnce THEN level + 1 ELSE id[s]]
        /\ ahead' = IF s \in NodeOnce /\ (stale \/ \E u \in Types : Waiting(s, u))
                      THEN ahead \union {s} ELSE ahead
        /\ IF stale THEN UNCHANGED <<watch, answer>>
           ELSE /\ watch' = [watch EXCEPT ![s][t] = w]
                /\ answer' = [answer EXCEPT ![s][t] = NoWatch]
    BY DEF OnStreamRequest, GetNodeID
<1>2. level \in Levels /\ level + 1 \in Levels /\ level + 1 # 0
    BY <1>1, StreamAssumption DEF TypeInv, VarTypes, Levels
<1>3. w \in Watches /\ w.level = level + 1 /\ w # NoWatch /\ NoWatch \in Watches
    <2>1. sent[s][t] \in 0..MaxVersion
        BY DEF TypeInv, Shapes
    <2> HIDE DEF level
    <2>2. w \in Watches /\ w.level = level + 1
        BY <1>2, <2>1 DEF Watches
    <2> HIDE DEF w
    <2> QED
        BY <1>2, <2>2, Constants
<1>4. /\ id' \in [Streams -> Levels]
      /\ \A x \in Streams : id'[x] = IF x = s /\ s \in NodeOnce THEN id[x] + 1 ELSE id[x]
    BY <1>1, <1>2 DEF TypeInv, VarTypes
<1> HIDE DEF w
<1>5. /\ watch' \in [Streams -> [Types -> Watches]]
      /\ answer' \in [Streams -> [Types -> Watches]]
      /\ \A x \in Streams, u \in Types :
            /\ watch'[x][u] = (IF x = s /\ u = t /\ ~stale THEN w ELSE watch[x][u])
            /\ answer'[x][u] = (IF x = s /\ u = t /\ ~stale THEN NoWatch ELSE answer[x][u])
    <2>1. /\ watch \in [Streams -> [Types -> Watches]]
          /\ answer \in [Streams -> [Types -> Watches]]
        BY DEF TypeInv, VarTypes
    <2>2. CASE stale
        BY <1>1, <2>1, <2>2
    <2>3. CASE ~stale
        <3>1. /\ watch' = [watch EXCEPT ![s][t] = w]
              /\ answer' = [answer EXCEPT ![s][t] = NoWatch]
            BY <1>1, <2>3
        <3>2. /\ watch' \in [Streams -> [Types -> Watches]]
              /\ \A x \in Streams, u \in Types :
                    watch'[x][u] = IF x = s /\ u = t THEN w ELSE watch[x][u]
            BY <1>3, <2>1, <3>1, SetCell
        <3>3. /\ answer' \in [Streams -> [Types -> Watches]]
              /\ \A x \in Streams, u \in Types :
                    answer'[x][u] = IF x = s /\ u = t THEN NoWatch ELSE answer[x][u]
            BY <1>3, <2>1, <3>1, SetCell
        <3> QED
            BY <2>3, <3>2, <3>3
    <2> QED
        BY <2>2, <2>3
<1>6. level = IF s \in NodeOnce THEN id[s] ELSE 0
    OBVIOUS
<1> HIDE DEF level
<1>7. level \in Levels /\ w \in Watches /\ stale \in BOOLEAN
    BY <1>2, <1>3
<1> USE <1>7
<1> WITNESS level \in Levels, w \in Watches, stale \in BOOLEAN
<1> QED
    BY <1>1, <1>3, <1>4, <1>5, <1>6

\* What OnStreamResponse does to the id and the tables, whoever shares the Node object.
LEMMA ResponseFacts ==
    ASSUME TypeInv, IdInv, NEW s \in Streams, NEW t \in Types, OnStreamResponse(s, t)
    PROVE  \E streams \in [Streams -> Entries] :
             /\ StreamsMap' = streams /\ Record(streams)
             /\ \A x \in Streams : x # s =>
                  streams[x].named = StreamsMap[x].named /\ streams[x].level = StreamsMap[x].level
             /\ streams[s].named /\ (streams[s].level = 0 \/ s \in ahead)
             /\ streams[s].client = answer[s][t].version
             /\ streams[s].server \in {0, Snapshots[NodeOf[s]]}
             /\ id' \in [Streams -> Levels]
             /\ \A x \in Streams : id'[x] = IF x = s /\ s \in NodeOnce THEN id[x] - 1 ELSE id[x]
             /\ answer[s][t] # NoWatch /\ answer[s][t] \in Watches /\ s \notin Delta
<1> DEFINE level == IF s \in NodeOnce THEN id[s] ELSE answer[s][t].level
           entry == [named |-> TRUE, level |-> level - 1, client |-> 0, server |-> 0]
           before == [StreamsMap EXCEPT ![s] = entry]
           streams == WithVersions(before, NodeOf[s], level - 1, answer[s][t].version)
<1>1. answer[s][t] # NoWatch /\ answer[s][t] \in Watches /\ answer[s][t].version \in 0..MaxVersion
    BY DEF OnStreamResponse, TypeInv, VarTypes, Watches
<1>2. /\ StreamsMap' = streams /\ Record(streams) /\ level > 0 /\ s \notin Delta
      /\ id' = [id EXCEPT ![s] = IF s \in NodeOnce THEN level - 1 ELSE @]
    BY DEF OnStreamResponse, Decodes, Restored
<1>3. level \in Levels /\ level - 1 \in Levels
    BY <1>1, <1>2, StreamAssumption DEF TypeInv, VarTypes, Watches, Levels
<1>4. level - 1 = 0 \/ s \in ahead
    <2>1. CASE s \notin NodeOnce
        BY <1>1, <2>1 DEF IdInv, EncodedOnce
    <2>2. CASE s \in NodeOnce /\ s \notin ahead
        <3>1. level = Pending(s) /\ Pending(s) <= 1
            BY <1>2, <2>2 DEF IdInv, SharedIdRestored
        <3> HIDE DEF level
        <3> QED
            BY <1>2, <1>3, <3>1 DEF Levels
    <2> QED
        BY <2>1, <2>2
<1>5. /\ id' \in [Streams -> Levels]
      /\ \A x \in Streams : id'[x] = IF x = s /\ s \in NodeOnce THEN id[x] - 1 ELSE id[x]
    BY <1>2, <1>3 DEF TypeInv, VarTypes
<1> HIDE DEF level
<1>6. /\ entry \in Entries /\ entry.named /\ entry.level = level - 1
      /\ entry.client = 0 /\ entry.server = 0
    BY <1>3, StreamAssumption DEF Entries
<1> HIDE DEF entry
<1>7. /\ before \in [Streams -> Entries] /\ before[s] = entry
      /\ \A x \in Streams : x # s => before[x] = StreamsMap[x]
    BY <1>6 DEF TypeInv, VarTypes
<1>8. NodeOf[s] \in Nodes /\ Snapshots \in [Nodes -> 0..MaxVersion]
    BY StreamAssumption DEF TypeInv, VarTypes
<1> HIDE DEF before
<1>9. /\ streams \in [Streams -> Entries]
      /\ \A x \in Streams :
            /\ streams[x].named = before[x].named /\ streams[x].level = before[x].level
            /\ before[x].named =>
                 /\ NodeOf[x] = NodeOf[s] /\ before[x].level = level - 1 =>
                      streams[x].client = answer[s][t].version
                 /\ streams[x].server \in {before[x].server, Snapshots[NodeOf[x]]}
    BY <1>1, <1>3, <1>7, <1>8, WithVersionsFacts
<1> HIDE DEF streams
<1>10. /\ streams[s].named /\ (streams[s].level = 0 \/ s \in ahead)
       /\ streams[s].client = answer[s][t].version
       /\ streams[s].server \in {0, Snapshots[NodeOf[s]]}
    BY <1>4, <1>6, <1>7, <1>9
<1>11. \A x \in Streams : x # s =>
        streams[x].named = StreamsMap[x].named /\ streams[x].level = StreamsMap[x].level
    BY <1>7, <1>9
<1> QED
    BY <1>1, <1>2, <1>5, <1>9, <1>10, <1>11

-----------------------------------------------------------------------------
(* Types *)

\* The tables start empty.
LEMMA TypeInit == Init => TypeInv
BY Constants, StreamAssumption
DEF Init, TypeInv, VarTypes, Shapes, Versions, Levels

\* Every step of the callbacks keeps the types; OnStreamResponse relies on the
\* encoding of the ids.
LEMMA CallbackTypes ==
    ASSUME TypeInv, IdInv, NEW s \in Streams, NEW t \in Types,
           \/ OnStreamOpen(s) \/ OnStreamRequest(s, t) \/ Answer(s, t)
           \/ OnStreamResponse(s, t) \/ OnStreamDeltaResponse(s, t) \/ OnStreamClosed(s)
    PROVE  TypeInv'
<1> USE DEF TypeInv
<1>1. CASE OnStreamOpen(s)
    <2>1. /\ phase' = [phase EXCEPT ![s] = "open"]
          /\ known' = IF s \in Delta THEN known ELSE known \union {s}
          /\ UNCHANGED <<conf, dirty, pass, cache, Snapshots, id, watch, answer, sent, ahead,
                         StreamsMap, series, answered, gauge>>
        BY <1>1 DEF OnStreamOpen, server
    <2>2. known' \subseteq {x \in Streams \ Delta : phase'[x] = "open"}
        BY <2>1 DEF VarTypes
    <2> QED
        BY <2>1, <2>2 DEF VarTypes, Shapes
<1>2. CASE OnStreamRequest(s, t)
    <2>1. UNCHANGED <<conf, dirty, pass, cache, Snapshots, phase, sent, StreamsMap, known,
                      answered, gauge>>
        BY <1>2 DEF OnStreamRequest, server
    <2>2. PICK level \in Levels :
            /\ series' = IF s \in Delta THEN series ELSE series \union {<<s, level>>}
            /\ id' \in [Streams -> Levels]
            /\ ahead' \subseteq ahead \union {s} /\ (s \notin NodeOnce => ahead' = ahead)
            /\ watch' \in [Streams -> [Types -> Watches]]
            /\ answer' \in [Streams -> [Types -> Watches]]
        BY <1>2, RequestFacts
    <2>3. series' \subseteq Streams \X Levels /\ ahead' \subseteq NodeOnce
        BY <2>2 DEF VarTypes
    <2> QED
        BY <2>1, <2>2, <2>3 DEF VarTypes, Shapes
<1>3. CASE Answer(s, t)
    <2> DEFINE w == [level |-> watch[s][t].level, version |-> cache[NodeOf[s]]]
    <2>1. /\ answer' = [answer EXCEPT ![s][t] = w]
          /\ watch' = [watch EXCEPT ![s][t] = NoWatch]
          /\ UNCHANGED <<conf, dirty, pass, cache, Snapshots, phase, id, sent, ahead, StreamsMap,
                         known, series, answered, gauge>>
        BY <1>3 DEF Answer, server, tables
    <2>2. w \in Watches
        BY StreamAssumption DEF Watches, VarTypes
    <2> HIDE DEF w
    <2>3. /\ watch' \in [Streams -> [Types -> Watches]]
          /\ answer' \in [Streams -> [Types -> Watches]]
        BY <2>1, <2>2, SetCell, Constants DEF VarTypes
    <2> QED
        BY <2>1, <2>3 DEF VarTypes, Shapes
<1>4. CASE OnStreamResponse(s, t)
    <2>1. /\ sent' = [sent EXCEPT ![s][t] = answer[s][t].version]
          /\ answer' = [answer EXCEPT ![s][t] = NoWatch]
          /\ answered' = answered \union {s}
          /\ UNCHANGED <<conf, dirty, pass, cache, Snapshots, phase, watch, ahead, known, series>>
        BY <1>4 DEF OnStreamResponse, server
    <2>2. /\ StreamsMap' \in [Streams -> Entries]
          /\ gauge' \in [Nodes -> 0..2]
          /\ id' \in [Streams -> Levels]
          /\ answer[s][t] \in Watches
        BY <1>4, ResponseFacts, RecordFacts
    <2>3. answer' \in [Streams -> [Types -> Watches]]
        BY <2>1, SetCell, Constants DEF VarTypes
    <2>4. sent' \in [Streams -> [Types -> 0..MaxVersion]]
        BY <2>1, <2>2, SetCell DEF Shapes, Watches
    <2> QED
        BY <2>1, <2>2, <2>3, <2>4 DEF VarTypes, Shapes
<1>5. CASE OnStreamDeltaResponse(s, t)
    <2>1. /\ sent' = [sent EXCEPT ![s][t] = answer[s][t].version]
          /\ answer' = [answer EXCEPT ![s][t] = NoWatch]
          /\ UNCHANGED <<conf, dirty, pass, cache, Snapshots, phase, id, watch, ahead, StreamsMap,
                         known, series, answered, gauge>>
        BY <1>5 DEF OnStreamDeltaResponse, server, tables
    <2>2. answer[s][t].version \in 0..MaxVersion
        BY DEF VarTypes, Watches
    <2>3. answer' \in [Streams -> [Types -> Watches]]
        BY <2>1, SetCell, Constants DEF VarTypes
    <2>4. sent' \in [Streams -> [Types -> 0..MaxVersion]]
        BY <2>1, <2>2, SetCell DEF Shapes
    <2> QED
        BY <2>1, <2>3, <2>4 DEF VarTypes, Shapes
<1>6. CASE OnStreamClosed(s)
    <2>1. /\ phase' = [phase EXCEPT ![s] = "closed"]
          /\ watch' = [watch EXCEPT ![s] = [u \in Types |-> NoWatch]]
          /\ answer' = [answer EXCEPT ![s] = [u \in Types |-> NoWatch]]
          /\ id' = [id EXCEPT ![s] = 0]
          /\ sent' = [sent EXCEPT ![s] = [u \in Types |-> 0]]
          /\ UNCHANGED <<conf, dirty, pass, cache, Snapshots, ahead, answered, gauge>>
        BY <1>6 DEF OnStreamClosed, server
    <2>2. /\ series' \subseteq series /\ known' = known \ {s}
          /\ StreamsMap' \in [Streams -> Entries]
        <3>1. CASE s \in known
            <4>1. /\ series' = (IF StreamsMap[s].named
                                THEN series \ {<<s, StreamsMap[s].level>>} ELSE series)
                  /\ known' = known \ {s} /\ StreamsMap' = [StreamsMap EXCEPT ![s] = NoEntry]
                BY <1>6, <3>1 DEF OnStreamClosed, Close
            <4> QED
                BY <4>1, Constants DEF VarTypes
        <3>2. CASE s \notin known
            BY <1>6, <3>2 DEF OnStreamClosed, VarTypes
        <3> QED
            BY <3>1, <3>2
    <2>3. known' \subseteq {x \in Streams \ Delta : phase'[x] = "open"}
        BY <2>1, <2>2 DEF VarTypes
    <2>4. 0 \in 0..MaxVersion /\ 0 \in Levels
        BY StreamAssumption DEF Levels
    <2>5. /\ watch' \in [Streams -> [Types -> Watches]]
          /\ answer' \in [Streams -> [Types -> Watches]]
          /\ id' \in [Streams -> Levels] /\ Shapes'
        BY <2>1, <2>4, Constants DEF VarTypes, Shapes
    <2> QED
        BY <2>1, <2>2, <2>3, <2>5 DEF VarTypes
<1> QED
    BY <1>1, <1>2, <1>3, <1>4, <1>5, <1>6

\* Every step of processSnapshot, and an edit, keeps the types.
LEMMA PassTypes ==
    ASSUME TypeInv, NEW n \in Nodes,
           Edit(n) \/ SetSnapshot(n) \/ AddSnapshot(n) \/ SkipNode(n) \/ Begin \/ End
    PROVE  TypeInv'
<1> USE DEF TypeInv
<1>1. UNCHANGED <<grpc, StreamsMap, known, series, answered>>
    BY DEF Edit, SetSnapshot, AddSnapshot, SkipNode, Begin, End, tables
<1>2. gauge' \in [Nodes -> 0..2]
    BY RecordFacts DEF Edit, SetSnapshot, AddSnapshot, SkipNode, Begin, End, tables, VarTypes
<1>3. conf' \in [Nodes -> Versions] /\ dirty' \in BOOLEAN
    <2>1. CASE Edit(n)
        BY <2>1, StreamAssumption DEF Edit, VarTypes, Versions
    <2>2. CASE ~Edit(n)
        BY <2>2 DEF SetSnapshot, AddSnapshot, SkipNode, Begin, End, VarTypes
    <2> QED
        BY <2>1, <2>2
<1>4. pass' \in Passes
    <2>1. CASE Begin
        <3>1. PICK bad \in SUBSET Nodes :
                pass' = [pc |-> "nodes", todo |-> Nodes, last |-> Idle.last,
                         snaps |-> [x \in Nodes |-> IF x \in bad THEN 0 ELSE conf[x]]]
            BY <2>1 DEF Begin
        <3>2. [x \in Nodes |-> IF x \in bad THEN 0 ELSE conf[x]] \in [Nodes -> 0..MaxVersion]
            BY StreamAssumption DEF VarTypes, Versions
        <3> QED
            BY <3>1, <3>2, Constants DEF Passes
    <2>2. CASE SetSnapshot(n) \/ AddSnapshot(n) \/ SkipNode(n)
        <3>1. CASE SetSnapshot(n)
            BY <3>1 DEF SetSnapshot, Shapes, Passes
        <3>2. CASE AddSnapshot(n)
            BY <3>2, Constants DEF AddSnapshot, Shapes, Passes
        <3>3. CASE SkipNode(n)
            BY <3>3, Constants DEF SkipNode, Shapes, Passes
        <3> QED
            BY <2>2, <3>1, <3>2, <3>3
    <2>3. CASE Edit(n) \/ End
        BY <2>3, Constants DEF Edit, End, Shapes
    <2> QED
        BY <2>1, <2>2, <2>3
<1>5. cache' \in [Nodes -> 0..MaxVersion] /\ Snapshots' \in [Nodes -> 0..MaxVersion]
    <2>1. pass.snaps[n] \in 0..MaxVersion /\ cache[n] \in 0..MaxVersion /\ 0 \in 0..MaxVersion
        BY StreamAssumption DEF VarTypes, Shapes, Passes
    <2> QED
        BY <2>1 DEF Edit, SetSnapshot, AddSnapshot, SkipNode, Begin, Cleaned, End, VarTypes
<1>6. pass'.pc \in {"idle", "nodes", "set"} /\ pass'.todo \subseteq Nodes
    BY <1>4 DEF Passes
<1> QED
    BY <1>1, <1>2, <1>3, <1>4, <1>5, <1>6 DEF VarTypes, Shapes, grpc

-----------------------------------------------------------------------------
(* The ids *)

\* What a step does to one cell of a stream's watches and answers: the count of
\* the requests that wait changes by what happens to that cell.
LEMMA PendingStep ==
    ASSUME NEW s \in Streams, NEW t \in Types,
           \A u \in Types : u # t => (Waiting(s, u)' <=> Waiting(s, u))
    PROVE  Pending(s)' = Pending(s) + (IF Waiting(s, t)' THEN 1 ELSE 0)
                                    - (IF Waiting(s, t) THEN 1 ELSE 0)
<1>1. t = "clusters" \/ t = "listeners"
    BY DEF Types
<1>2. CASE t = "clusters"
    <2>1. Waiting(s, "listeners")' <=> Waiting(s, "listeners")
        BY <1>2, Constants
    <2> QED
        BY <1>2, <2>1 DEF Pending
<1>3. CASE t = "listeners"
    <2>1. Waiting(s, "clusters")' <=> Waiting(s, "clusters")
        BY <1>3, Constants
    <2> QED
        BY <1>3, <2>1 DEF Pending
<1> QED
    BY <1>1, <1>2, <1>3

\* The number of requests that wait is a natural number, and one that waits counts.
LEMMA PendingFacts ==
    ASSUME NEW s \in Streams
    PROVE  /\ Pending(s) \in Nat
           /\ \A t \in Types : Waiting(s, t) => Pending(s) >= 1
           /\ (\A t \in Types : ~Waiting(s, t)) => Pending(s) = 0
BY DEF Pending, Types

\* A stream whose id, watches and answers a step leaves alone stays in order.
LEMMA OthersKept ==
    ASSUME IdInv, NEW x \in Streams, id'[x] = id[x], x \in ahead' <=> x \in ahead,
           \A u \in Types : watch'[x][u] = watch[x][u] /\ answer'[x][u] = answer[x][u]
    PROVE  /\ \A u \in Types :
                /\ watch'[x][u] # NoWatch =>
                     \/ watch'[x][u].level = 1
                     \/ x \in NodeOnce /\ (x \in Delta \/ x \in ahead')
                /\ answer'[x][u] # NoWatch => answer'[x][u].level = 1
                /\ watch'[x][u] = NoWatch \/ answer'[x][u] = NoWatch
           /\ x \in NodeOnce \ Delta => id'[x] >= Pending(x)'
           /\ x \in NodeOnce \ (Delta \union ahead') => id'[x] = Pending(x)' /\ Pending(x)' <= 1
<1>1. Pending(x)' = Pending(x)
    BY Constants DEF Pending, Waiting
<1> QED
    BY <1>1 DEF IdInv, EncodedOnce, WatchUnderOwnNode, IdCoversPending, SharedIdRestored

\* A request encodes an id that is plain, or is ahead; a response takes one off.
LEMMA IdStep ==
    ASSUME TypeInv, IdInv, NEW s \in Streams, NEW t \in Types,
           \/ OnStreamRequest(s, t) \/ Answer(s, t) \/ OnStreamResponse(s, t)
           \/ OnStreamDeltaResponse(s, t) \/ OnStreamClosed(s)
    PROVE  IdInv'
<1>1. /\ watch \in [Streams -> [Types -> Watches]] /\ answer \in [Streams -> [Types -> Watches]]
      /\ id \in [Streams -> Levels] /\ Levels \subseteq Nat /\ NodeOnce \subseteq Streams
    BY StreamAssumption DEF TypeInv, VarTypes, Levels
<1>2. NoWatch \in Watches /\ NoWatch.level = 0
    BY Constants
<1> DEFINE Cells == \A u \in Types :
                /\ watch'[s][u] # NoWatch =>
                     \/ watch'[s][u].level = 1
                     \/ s \in NodeOnce /\ (s \in Delta \/ s \in ahead')
                /\ answer'[s][u] # NoWatch => answer'[s][u].level = 1
                /\ watch'[s][u] = NoWatch \/ answer'[s][u] = NoWatch
           Covers == s \in NodeOnce \ Delta => id'[s] >= Pending(s)'
           Exact == s \in NodeOnce \ (Delta \union ahead') => id'[s] = Pending(s)' /\ Pending(s)' <= 1
           Others == \A x \in Streams : x # s =>
                /\ id'[x] = id[x] /\ (x \in ahead' <=> x \in ahead)
                /\ \A u \in Types : watch'[x][u] = watch[x][u] /\ answer'[x][u] = answer[x][u]
<1>3. \A u \in Types :
        /\ watch[s][u] # NoWatch =>
             \/ watch[s][u].level = 1
             \/ s \in NodeOnce /\ (s \in Delta \/ s \in ahead)
        /\ answer[s][u] # NoWatch => answer[s][u].level = 1
        /\ watch[s][u] = NoWatch \/ answer[s][u] = NoWatch
    BY DEF IdInv, EncodedOnce, WatchUnderOwnNode
<1>4. /\ s \in NodeOnce \ Delta => id[s] >= Pending(s)
      /\ s \in NodeOnce \ (Delta \union ahead) => id[s] = Pending(s) /\ Pending(s) <= 1
    BY DEF IdInv, IdCoversPending, SharedIdRestored
<1>5. ASSUME Cells, Covers, Exact, Others PROVE IdInv'
    <2>1. \A x \in Streams : x # s =>
           /\ \A u \in Types :
                /\ watch'[x][u] # NoWatch =>
                     \/ watch'[x][u].level = 1
                     \/ x \in NodeOnce /\ (x \in Delta \/ x \in ahead')
                /\ answer'[x][u] # NoWatch => answer'[x][u].level = 1
                /\ watch'[x][u] = NoWatch \/ answer'[x][u] = NoWatch
           /\ x \in NodeOnce \ Delta => id'[x] >= Pending(x)'
           /\ x \in NodeOnce \ (Delta \union ahead') => id'[x] = Pending(x)' /\ Pending(x)' <= 1
        BY <1>5, OthersKept
    <2>2. EncodedOnce'
        BY <1>5, <2>1 DEF EncodedOnce, WatchUnderOwnNode
    <2>3. IdCoversPending'
        BY <1>1, <1>5, <2>1 DEF IdCoversPending
    <2>4. SharedIdRestored'
        BY <1>1, <1>5, <2>1 DEF SharedIdRestored
    <2> QED
        BY <2>2, <2>3, <2>4 DEF IdInv
<1>6. Pending(s) \in Nat /\ \A u \in Types : Waiting(s, u) => Pending(s) >= 1
    BY PendingFacts
<1>7. id[s] \in Nat
    BY <1>1
<1> HIDE DEF Cells, Covers, Exact, Others
<1>8. CASE OnStreamRequest(s, t)
    <2>1. PICK level \in Levels, w \in Watches, stale \in BOOLEAN :
             /\ level = IF s \in NodeOnce THEN id[s] ELSE 0
             /\ series' = IF s \in Delta THEN series ELSE series \union {<<s, level>>}
             /\ id' \in [Streams -> Levels]
             /\ \A x \in Streams : id'[x] = IF x = s /\ s \in NodeOnce THEN id[x] + 1 ELSE id[x]
             /\ ahead' = IF s \in NodeOnce /\ (stale \/ \E u \in Types : Waiting(s, u))
                           THEN ahead \union {s} ELSE ahead
             /\ w.level = level + 1 /\ w # NoWatch
             /\ watch' \in [Streams -> [Types -> Watches]]
             /\ answer' \in [Streams -> [Types -> Watches]]
             /\ \A x \in Streams, u \in Types :
                  /\ watch'[x][u] = (IF x = s /\ u = t /\ ~stale THEN w ELSE watch[x][u])
                  /\ answer'[x][u] = (IF x = s /\ u = t /\ ~stale THEN NoWatch ELSE answer[x][u])
        BY <1>8, RequestFacts
    <2>2. Others
        BY <2>1 DEF Others
    <2>3. Pending(s)' = Pending(s) + (IF Waiting(s, t)' THEN 1 ELSE 0)
                                   - (IF Waiting(s, t) THEN 1 ELSE 0)
        <3>1. \A u \in Types : u # t => (Waiting(s, u)' <=> Waiting(s, u))
            BY <2>1 DEF Waiting
        <3> QED
            BY <3>1, PendingStep
    <2>4. Covers
        BY <1>4, <1>6, <1>7, <2>1, <2>3 DEF Covers
    <2>5. ASSUME s \in NodeOnce \ (Delta \union ahead')
          PROVE  id[s] = 0 /\ Pending(s) = 0 /\ ~stale /\ ~Waiting(s, t) /\ s \notin ahead
        <3>1. ~stale /\ (\A u \in Types : ~Waiting(s, u)) /\ s \notin ahead
            BY <2>1, <2>5
        <3> QED
            BY <1>4, <2>5, <3>1, PendingFacts
    <2>6. Exact
        <3> SUFFICES ASSUME s \in NodeOnce \ (Delta \union ahead')
                     PROVE  id'[s] = Pending(s)' /\ Pending(s)' <= 1
            BY DEF Exact
        <3>1. id'[s] = 1
            BY <2>1, <2>5
        <3>2. Waiting(s, t)'
            BY <2>1, <2>5 DEF Waiting
        <3> QED
            BY <2>3, <2>5, <3>1, <3>2
    <2>7. w.level = 1 \/ (s \in NodeOnce /\ (s \in Delta \/ s \in ahead'))
        <3>1. CASE s \notin NodeOnce
            BY <2>1, <3>1
        <3>2. CASE s \in NodeOnce \ (Delta \union ahead')
            BY <2>1, <2>5, <3>2
        <3> QED
            BY <3>1, <3>2
    <2>8. Cells
        BY <1>3, <2>1, <2>7 DEF Cells
    <2> QED
        BY <1>5, <2>2, <2>4, <2>6, <2>8
<1>9. CASE Answer(s, t)
    <2> DEFINE w == [level |-> watch[s][t].level, version |-> cache[NodeOf[s]]]
    <2>1. /\ watch[s][t].level = 1 /\ UNCHANGED <<id, ahead>>
          /\ answer' = [answer EXCEPT ![s][t] = w]
          /\ watch' = [watch EXCEPT ![s][t] = NoWatch]
        BY <1>9 DEF Answer
    <2>2. w.level = 1 /\ w \in Watches
        <3>1. 1 \in Levels /\ cache[NodeOf[s]] \in 0..MaxVersion
            BY StreamAssumption DEF Levels, TypeInv, VarTypes
        <3> QED
            BY <2>1, <3>1 DEF Watches
    <2>3. w # NoWatch /\ watch[s][t] # NoWatch
        BY <1>2, <2>1, <2>2
    <2> HIDE DEF w
    <2>4. \A x \in Streams, u \in Types :
            /\ answer'[x][u] = (IF x = s /\ u = t THEN w ELSE answer[x][u])
            /\ watch'[x][u] = (IF x = s /\ u = t THEN NoWatch ELSE watch[x][u])
        BY <1>1, <1>2, <2>1, <2>2, SetCell
    <2>5. Others
        BY <2>1, <2>4 DEF Others
    <2>6. Cells
        BY <1>3, <2>1, <2>2, <2>4 DEF Cells
    <2>7. Pending(s)' = Pending(s)
        <3>1. \A u \in Types : Waiting(s, u)' <=> Waiting(s, u)
            BY <2>3, <2>4 DEF Waiting
        <3> QED
            BY <3>1, Constants DEF Pending
    <2>8. Covers /\ Exact
        BY <1>4, <2>1, <2>7 DEF Covers, Exact
    <2> QED
        BY <1>5, <2>5, <2>6, <2>8
<1>10. CASE OnStreamResponse(s, t)
    <2>1. answer' = [answer EXCEPT ![s][t] = NoWatch] /\ UNCHANGED <<watch, ahead>>
        BY <1>10 DEF OnStreamResponse
    <2>2. /\ \A x \in Streams : id'[x] = IF x = s /\ s \in NodeOnce THEN id[x] - 1 ELSE id[x]
          /\ answer[s][t] # NoWatch
        BY <1>10, ResponseFacts
    <2>3. \A x \in Streams, u \in Types :
            answer'[x][u] = IF x = s /\ u = t THEN NoWatch ELSE answer[x][u]
        BY <1>1, <1>2, <2>1, SetCell
    <2>4. Others
        BY <2>1, <2>2, <2>3 DEF Others
    <2>5. Cells
        BY <1>3, <2>1, <2>3 DEF Cells
    <2>6. Waiting(s, t) /\ ~Waiting(s, t)'
        BY <1>3, <2>1, <2>2, <2>3 DEF Waiting
    <2>7. Pending(s)' = Pending(s) - 1
        <3>1. \A u \in Types : u # t => (Waiting(s, u)' <=> Waiting(s, u))
            BY <2>1, <2>3 DEF Waiting
        <3> QED
            BY <1>6, <2>6, <3>1, PendingStep
    <2>8. Covers /\ Exact
        BY <1>4, <1>6, <1>7, <2>1, <2>2, <2>7 DEF Covers, Exact
    <2> QED
        BY <1>5, <2>4, <2>5, <2>8
<1>11. CASE OnStreamDeltaResponse(s, t)
    <2>1. /\ answer' = [answer EXCEPT ![s][t] = NoWatch] /\ UNCHANGED <<watch, id, ahead>>
          /\ s \in Delta
        BY <1>11 DEF OnStreamDeltaResponse
    <2>2. \A x \in Streams, u \in Types :
            answer'[x][u] = IF x = s /\ u = t THEN NoWatch ELSE answer[x][u]
        BY <1>1, <1>2, <2>1, SetCell
    <2>3. Others
        BY <2>1, <2>2 DEF Others
    <2>4. Cells
        BY <1>3, <2>1, <2>2 DEF Cells
    <2>5. Covers /\ Exact
        BY <2>1 DEF Covers, Exact
    <2> QED
        BY <1>5, <2>3, <2>4, <2>5
<1>12. CASE OnStreamClosed(s)
    <2>1. /\ watch' = [watch EXCEPT ![s] = [u \in Types |-> NoWatch]]
          /\ answer' = [answer EXCEPT ![s] = [u \in Types |-> NoWatch]]
          /\ id' = [id EXCEPT ![s] = 0] /\ UNCHANGED ahead
        BY <1>12 DEF OnStreamClosed
    <2>2. \A x \in Streams, u \in Types :
            /\ answer'[x][u] = (IF x = s THEN NoWatch ELSE answer[x][u])
            /\ watch'[x][u] = (IF x = s THEN NoWatch ELSE watch[x][u])
        BY <1>1, <2>1
    <2>3. \A x \in Streams : id'[x] = IF x = s THEN 0 ELSE id[x]
        BY <1>1, <2>1
    <2>4. Others
        BY <2>1, <2>2, <2>3 DEF Others
    <2>5. Cells
        BY <2>2 DEF Cells
    <2>6. Pending(s)' = 0
        <3>1. ~Waiting(s, "clusters")' /\ ~Waiting(s, "listeners")'
            BY <2>2, Constants DEF Waiting
        <3> QED
            BY <3>1 DEF Pending
    <2>7. Covers /\ Exact
        BY <2>3, <2>6 DEF Covers, Exact
    <2> QED
        BY <1>5, <2>4, <2>5, <2>7
<1> QED
    BY <1>8, <1>9, <1>10, <1>11, <1>12

\* The types and the ids hold throughout, together: the types rely on the ids.
LEMMA TypeIdStep == TypeInv /\ IdInv /\ [Next]_vars => TypeInv' /\ IdInv'
<1> SUFFICES ASSUME TypeInv, IdInv, [Next]_vars PROVE TypeInv' /\ IdInv'
    OBVIOUS
<1>1. ASSUME UNCHANGED <<id, watch, answer, ahead>> PROVE IdInv'
    BY <1>1 DEF IdInv, EncodedOnce, WatchUnderOwnNode, IdCoversPending, SharedIdRestored, Pending,
                Waiting
<1>2. ASSUME NEW n \in Nodes,
             Edit(n) \/ SetSnapshot(n) \/ AddSnapshot(n) \/ SkipNode(n) \/ Begin \/ End
      PROVE  TypeInv' /\ IdInv'
    <2>1. UNCHANGED <<id, watch, answer, ahead>>
        BY <1>2 DEF Edit, SetSnapshot, AddSnapshot, SkipNode, Begin, End, grpc
    <2> QED
        BY <1>1, <1>2, <2>1, PassTypes
<1>3. ASSUME NEW s \in Streams, NEW t \in Types,
             \/ OnStreamOpen(s) \/ OnStreamRequest(s, t) \/ Answer(s, t)
             \/ OnStreamResponse(s, t) \/ OnStreamDeltaResponse(s, t) \/ OnStreamClosed(s)
      PROVE  TypeInv' /\ IdInv'
    <2>1. TypeInv'
        BY <1>3, CallbackTypes
    <2>2. CASE OnStreamOpen(s)
        BY <1>1, <2>1, <2>2 DEF OnStreamOpen
    <2> QED
        BY <1>3, <2>1, <2>2, IdStep
<1>4. CASE UNCHANGED vars
    <2>1. UNCHANGED <<conf, dirty, pass, cache, Snapshots, phase, id, watch, answer, sent, ahead,
                      StreamsMap, known, series, answered, gauge>>
        BY <1>4 DEF vars, server, grpc, tables
    <2> QED
        BY <1>1, <2>1 DEF TypeInv, VarTypes, Shapes
<1>5. (\E n \in Nodes : TRUE) /\ (\E t \in Types : TRUE)
    BY Constants
<1> QED
    BY <1>2, <1>3, <1>4, <1>5 DEF Next

-----------------------------------------------------------------------------
(* The series *)

\* A step that leaves the phases, the entries and the series alone.
LEMMA SeriesKept ==
    ASSUME SeriesInv, UNCHANGED <<phase, StreamsMap, known, series, answered, ahead>>
    PROVE  SeriesInv'
BY DEF SeriesInv, SeriesPlain, AnsweredNamed, OpenIsKnown, LeaksOnlyUnanswered

\* The callbacks of one stream keep the series in order.
LEMMA SeriesStep ==
    ASSUME TypeInv, IdInv, SeriesInv, NEW s \in Streams, NEW t \in Types,
           \/ OnStreamOpen(s) \/ OnStreamRequest(s, t) \/ Answer(s, t)
           \/ OnStreamResponse(s, t) \/ OnStreamDeltaResponse(s, t) \/ OnStreamClosed(s)
    PROVE  SeriesInv'
<1> USE DEF SeriesInv
<1>1. /\ phase \in [Streams -> {"new", "open", "closed"}] /\ answered \subseteq Streams
      /\ known \subseteq {x \in Streams \ Delta : phase[x] = "open"}
      /\ StreamsMap \in [Streams -> Entries]
    BY DEF TypeInv, VarTypes
<1>2. CASE OnStreamOpen(s)
    <2>1. /\ phase[s] = "new" /\ phase' = [phase EXCEPT ![s] = "open"]
          /\ known' = (IF s \in Delta THEN known ELSE known \union {s})
          /\ UNCHANGED <<StreamsMap, series, answered, ahead>>
        BY <1>2 DEF OnStreamOpen
    <2>2. s \notin answered
        BY <2>1 DEF AnsweredNamed
    <2>3. SeriesPlain' /\ AnsweredNamed'
        BY <1>1, <2>1, <2>2 DEF SeriesPlain, AnsweredNamed
    <2>4. OpenIsKnown' /\ LeaksOnlyUnanswered'
        BY <1>1, <2>1 DEF OpenIsKnown, LeaksOnlyUnanswered
    <2> QED
        BY <2>3, <2>4
<1>3. CASE OnStreamRequest(s, t)
    <2>1. phase[s] = "open" /\ UNCHANGED <<phase, StreamsMap, known, answered>>
        BY <1>3 DEF OnStreamRequest
    <2>2. PICK level \in Levels, stale \in BOOLEAN :
            /\ level = IF s \in NodeOnce THEN id[s] ELSE 0
            /\ series' = IF s \in Delta THEN series ELSE series \union {<<s, level>>}
            /\ ahead' = IF s \in NodeOnce /\ (stale \/ \E u \in Types : Waiting(s, u))
                          THEN ahead \union {s} ELSE ahead
        BY <1>3, RequestFacts
    <2>3. s \notin Delta => level = 0 \/ s \in ahead'
        <3> SUFFICES ASSUME s \notin Delta, s \in NodeOnce, s \notin ahead' PROVE level = 0
            BY <2>2
        <3>1. s \notin ahead /\ \A u \in Types : ~Waiting(s, u)
            BY <2>2
        <3> QED
            BY <2>2, <3>1, PendingFacts DEF IdInv, SharedIdRestored
    <2>4. ahead \subseteq ahead'
        BY <2>2
    <2>5. SeriesPlain'
        BY <2>2, <2>3, <2>4 DEF SeriesPlain
    <2>6. LeaksOnlyUnanswered'
        BY <2>1, <2>2, <2>4 DEF LeaksOnlyUnanswered
    <2>7. AnsweredNamed'
        BY <2>1, <2>4 DEF AnsweredNamed
    <2>8. OpenIsKnown'
        BY <2>1 DEF OpenIsKnown
    <2> QED
        BY <2>5, <2>6, <2>7, <2>8
<1>4. CASE OnStreamResponse(s, t)
    <2>1. /\ phase[s] = "open" /\ s \notin Delta /\ answered' = answered \union {s}
          /\ UNCHANGED <<phase, known, series, ahead>>
        BY <1>4 DEF OnStreamResponse
    <2>2. /\ StreamsMap'[s].named /\ (StreamsMap'[s].level = 0 \/ s \in ahead)
          /\ \A x \in Streams : x # s => /\ StreamsMap'[x].named = StreamsMap[x].named
                                         /\ StreamsMap'[x].level = StreamsMap[x].level
        BY <1>4, ResponseFacts
    <2>3. s \in known
        BY <2>1 DEF OpenIsKnown
    <2>4. AnsweredNamed'
        BY <1>1, <2>1, <2>2, <2>3 DEF AnsweredNamed
    <2>5. SeriesPlain' /\ OpenIsKnown' /\ LeaksOnlyUnanswered'
        BY <2>1 DEF SeriesPlain, OpenIsKnown, LeaksOnlyUnanswered
    <2> QED
        BY <2>4, <2>5
<1>5. CASE Answer(s, t) \/ OnStreamDeltaResponse(s, t)
    BY <1>5, SeriesKept DEF Answer, OnStreamDeltaResponse, tables
<1>6. CASE OnStreamClosed(s)
    <2>1. phase[s] = "open" /\ phase' = [phase EXCEPT ![s] = "closed"]
          /\ UNCHANGED <<answered, ahead>>
        BY <1>6 DEF OnStreamClosed
    <2>2. /\ known' = known \ {s} /\ series' \subseteq series
          /\ \A x \in Streams : x # s => StreamsMap'[x] = StreamsMap[x]
        BY <1>1, <1>6 DEF OnStreamClosed, Close
    <2>3. s \in answered /\ s \notin ahead => <<s, 0>> \notin series'
        BY <1>6, <2>1 DEF AnsweredNamed, OnStreamClosed, Close
    <2>4. SeriesPlain'
        BY <2>1, <2>2 DEF SeriesPlain
    <2>5. AnsweredNamed' /\ OpenIsKnown'
        BY <1>1, <2>1, <2>2 DEF AnsweredNamed, OpenIsKnown
    <2>6. LeaksOnlyUnanswered'
        BY <1>1, <2>1, <2>2, <2>3, <2>4 DEF LeaksOnlyUnanswered, SeriesPlain
    <2> QED
        BY <2>4, <2>5, <2>6
<1> QED
    BY <1>2, <1>3, <1>4, <1>5, <1>6

\* Every step preserves what is known of the series.
LEMMA SeriesInvStep == TypeInv /\ IdInv /\ SeriesInv /\ [Next]_vars => SeriesInv'
<1> SUFFICES ASSUME TypeInv, IdInv, SeriesInv, [Next]_vars PROVE SeriesInv'
    OBVIOUS
<1>1. ASSUME NEW n \in Nodes, Edit(n) \/ SetSnapshot(n) \/ AddSnapshot(n) \/ SkipNode(n)
      PROVE  SeriesInv'
    BY <1>1, SeriesKept DEF Edit, SetSnapshot, AddSnapshot, SkipNode, grpc, tables
<1>2. CASE Begin \/ End
    BY <1>2, SeriesKept DEF Begin, End, grpc, tables
<1>3. CASE UNCHANGED vars
    BY <1>3, SeriesKept DEF vars, grpc, tables
<1>4. \E t \in Types : TRUE
    BY Constants
<1> QED
    BY <1>1, <1>2, <1>3, <1>4, SeriesStep DEF Next

-----------------------------------------------------------------------------
(* The list of snapshots *)

\* The list is emptied before the cache changes, and a node is listed after.
LEMMA ListStep == TypeInv /\ ListedIsCached /\ [Next]_vars => ListedIsCached'
<1> SUFFICES ASSUME TypeInv, ListedIsCached, [Next]_vars PROVE ListedIsCached'
    OBVIOUS
<1>1. /\ pass \in Passes /\ cache \in [Nodes -> 0..MaxVersion]
      /\ Snapshots \in [Nodes -> 0..MaxVersion]
    BY DEF TypeInv, VarTypes, Shapes
<1>2. ASSUME UNCHANGED <<pass, cache, Snapshots>> PROVE ListedIsCached'
    BY <1>2 DEF ListedIsCached
<1>3. ASSUME NEW n \in Nodes, SetSnapshot(n) PROVE ListedIsCached'
    <2>1. /\ n \in pass.todo /\ UNCHANGED Snapshots
          /\ cache' = [cache EXCEPT ![n] = pass.snaps[n]]
          /\ pass'.todo = pass.todo
        BY <1>1, <1>3 DEF SetSnapshot, Passes
    <2> QED
        BY <1>1, <2>1 DEF ListedIsCached
<1>4. ASSUME NEW n \in Nodes, AddSnapshot(n) PROVE ListedIsCached'
    <2>1. /\ Snapshots' = [Snapshots EXCEPT ![n] = cache[n]] /\ UNCHANGED cache
          /\ pass'.todo = pass.todo \ {n}
        BY <1>1, <1>4 DEF AddSnapshot, Passes
    <2>2. pass.todo \subseteq Nodes
        BY <1>1 DEF Passes
    <2> QED
        BY <1>1, <2>1, <2>2 DEF ListedIsCached
<1>5. ASSUME NEW n \in Nodes, SkipNode(n) PROVE ListedIsCached'
    <2>1. UNCHANGED <<Snapshots, cache>> /\ pass'.todo = pass.todo \ {n}
        BY <1>1, <1>5 DEF SkipNode, Passes
    <2> QED
        BY <2>1 DEF ListedIsCached
<1>6. CASE Begin
    <2>1. Snapshots' = [n \in Nodes |-> 0] /\ pass'.todo = Nodes
        BY <1>6 DEF Begin, Cleaned
    <2> QED
        BY <2>1 DEF ListedIsCached
<1>7. CASE End
    <2>1. UNCHANGED <<Snapshots, cache>> /\ pass'.todo = {}
        BY <1>7, Constants DEF End
    <2> QED
        BY <2>1 DEF ListedIsCached
<1>8. ASSUME NEW n \in Nodes, Edit(n) PROVE ListedIsCached'
    BY <1>2, <1>8 DEF Edit
<1>9. ASSUME NEW s \in Streams, NEW t \in Types,
             \/ OnStreamOpen(s) \/ OnStreamRequest(s, t) \/ Answer(s, t)
             \/ OnStreamResponse(s, t) \/ OnStreamDeltaResponse(s, t) \/ OnStreamClosed(s)
      PROVE  ListedIsCached'
    BY <1>2, <1>9 DEF OnStreamOpen, OnStreamRequest, Answer, OnStreamResponse,
                      OnStreamDeltaResponse, OnStreamClosed, server
<1>10. CASE UNCHANGED vars
    BY <1>2, <1>10 DEF vars, server
<1>11. \E t \in Types : TRUE
    BY Constants
<1> QED
    BY <1>3, <1>4, <1>5, <1>6, <1>7, <1>8, <1>9, <1>10, <1>11 DEF Next

\* Nothing is open, listed or counted at the start.
LEMMA InvInit == Init => IdInv /\ SeriesInv /\ ListedIsCached
<1> SUFFICES ASSUME Init PROVE IdInv /\ SeriesInv /\ ListedIsCached
    OBVIOUS
<1>1. IdInv
    BY Constants, StreamAssumption
    DEF Init, IdInv, EncodedOnce, WatchUnderOwnNode, IdCoversPending, SharedIdRestored, Pending,
        Waiting
<1>2. SeriesInv
    BY DEF Init, SeriesInv, SeriesPlain, AnsweredNamed, OpenIsKnown, LeaksOnlyUnanswered
<1>3. ListedIsCached
    BY Constants DEF Init, ListedIsCached
<1> QED
    BY <1>1, <1>2, <1>3

\* A response that sets the gauge of a node with one stream to 1 has sent the
\* version the list names for it, which is the one in the cache.
LEMMA MatchStep ==
    ASSUME TypeInv, IdInv, ListedIsCached, [Next]_vars,
           NEW s \in Single \union Full, NEW t \in Types,
           gauge'[NodeOf[s]] = 1, gauge[NodeOf[s]] # 1,
           sent'[s][t] \notin {0, sent[s][t]}, LoneNode(NodeOf[s])
    PROVE  sent'[s][t] = cache[NodeOf[s]]
<1>1. s \in Streams \ Delta /\ NodeOf[s] \in Nodes
    BY StreamAssumption DEF Streams
<1>2. sent \in [Streams -> [Types -> 0..MaxVersion]]
    BY DEF TypeInv, Shapes
<1>3. sent' # sent
    OBVIOUS
<1>4. PICK x \in Streams, u \in Types :
        OnStreamResponse(x, u) \/ OnStreamDeltaResponse(x, u) \/ OnStreamClosed(x)
    BY <1>3, Constants
    DEF Next, vars, Edit, SetSnapshot, AddSnapshot, SkipNode, Begin, End, OnStreamOpen,
        OnStreamRequest, Answer, grpc, server
<1>5. ~OnStreamClosed(x)
    BY <1>1, <1>2 DEF OnStreamClosed
<1>6. ~OnStreamDeltaResponse(x, u)
    BY <1>1, <1>2 DEF OnStreamDeltaResponse
<1>7. OnStreamResponse(x, u)
    BY <1>4, <1>5, <1>6
<1>8. sent' = [sent EXCEPT ![x][u] = answer[x][u].version]
    BY <1>7 DEF OnStreamResponse
<1>9. x = s /\ u = t /\ sent'[s][t] = answer[s][t].version
    BY <1>1, <1>2, <1>8
<1>10. PICK streams \in [Streams -> Entries] :
        /\ Record(streams)
        /\ streams[s].client = answer[s][t].version
        /\ streams[s].server \in {0, Snapshots[NodeOf[s]]}
    BY <1>7, <1>9, ResponseFacts
<1>11. PICK y \in Named(streams, NodeOf[s]) : gauge'[NodeOf[s]] = VersionMatch(streams[y])
    BY <1>1, <1>10, RecordFacts
<1>12. y = s
    <2> DEFINE L == {z \in Single \union Full : NodeOf[z] = NodeOf[s]}
    <2>1. y \in L /\ s \in L
        BY <1>11 DEF Named, TypeInv, VarTypes, Streams
    <2>2. IsFiniteSet(L)
        BY StreamAssumption, FS_Subset DEF Streams
    <2>3. Cardinality(L) = 1
        BY DEF LoneNode
    <2> HIDE DEF L
    <2>4. \E z : L = {z}
        BY <2>2, <2>3, FS_Singleton
    <2> QED
        BY <2>1, <2>4
<1>13. streams[s].server # 0 /\ streams[s].client = streams[s].server
    BY <1>11, <1>12 DEF VersionMatch
<1> QED
    BY <1>1, <1>9, <1>10, <1>13 DEF ListedIsCached

-----------------------------------------------------------------------------
(* The theorems *)

\* The types and the encoding of the ids hold throughout.
LEMMA TypeIdAlways == Spec => [](TypeInv /\ IdInv)
BY TypeInit, InvInit, TypeIdStep, PTL DEF Spec

\* Every variable holds what the code can put there, a stream that is not open has
\* no entry in xds.Streams, and every response finds an id it can decode.
THEOREM TypeCorrect == Spec => []TypeOK
<1>1. TypeInv /\ IdInv => TypeOK
    <2> SUFFICES ASSUME TypeInv, IdInv, NEW s \in NodeOnce \ Delta, NEW t \in Types,
                        answer[s][t] # NoWatch
                 PROVE  Decodes(id[s])
        BY DEF TypeOK, TypeInv
    <2>1. s \in Streams /\ id[s] \in Nat
        BY StreamAssumption DEF TypeInv, VarTypes, Levels
    <2>2. Pending(s) \in Nat /\ Pending(s) >= 1
        BY <2>1, PendingFacts DEF Waiting
    <2> QED
        BY <2>1, <2>2 DEF IdInv, IdCoversPending, Decodes
<1> QED
    BY <1>1, TypeIdAlways, PTL

\* Every watch is registered under the id encoded once, the one SetSnapshot uses,
\* except on streams that name their node in their first request only and are delta
\* streams or were ahead of their answers.
THEOREM WatchesReachable == Spec => []WatchUnderOwnNode
<1>1. IdInv => WatchUnderOwnNode
    BY DEF IdInv, EncodedOnce
<1> QED
    BY <1>1, TypeIdAlways, PTL

\* A stream that closed leaves its series behind only if it was never answered or
\* was ahead of its answers.
THEOREM SeriesDeleted == Spec => []LeaksOnlyUnanswered
<1>1. SeriesInv => LeaksOnlyUnanswered
    BY DEF SeriesInv
<1> QED
    BY <1>1, InvInit, TypeIdAlways, SeriesInvStep, PTL DEF Spec

\* For a node with one stream, a response that sets the version-match gauge to 1
\* has sent the version in the cache.
THEOREM LoneMatchTrue == Spec => LoneMatchIsTrue
<1>1. Spec => []ListedIsCached
    BY InvInit, TypeIdAlways, ListStep, PTL DEF Spec
<1>2. TypeInv /\ IdInv /\ ListedIsCached /\ [Next]_vars =>
        [\A s \in Single \union Full, t \in Types :
            /\ gauge'[NodeOf[s]] = 1 /\ gauge[NodeOf[s]] # 1
            /\ sent'[s][t] \notin {0, sent[s][t]}
            /\ LoneNode(NodeOf[s])
            => sent'[s][t] = cache[NodeOf[s]]]_vars
    BY MatchStep
<1> QED
    BY <1>1, <1>2, TypeIdAlways, PTL DEF Spec, LoneMatchIsTrue

=============================================================================
