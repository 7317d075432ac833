------------------------------ MODULE PebbleTx ------------------------------
(***************************************************************************)
(* The transactions of the Pebble graph store, for one tenant.             *)
(*                                                                         *)
(* A read-write transaction is a Pebble IndexedBatch over the LIVE         *)
(* database: a read returns the batch's own write of a key if there is     *)
(* one, and otherwise whatever is committed at that moment.  The edge      *)
(* locks belong to the transaction itself, so they exclude nobody, and     *)
(* Commit checks no conflict.  On top of the batch a transaction keeps its *)
(* own caches: the counters it has read (counterBase), the increments it   *)
(* will flush at Commit (counterDeltas) and the vertices it has loaded     *)
(* (vertexCache).                                                          *)
(*                                                                         *)
(* A key of the store is a tuple whose first element is the key prefix.    *)
(* The endpoints and the type of an edge are functions of its id, as the   *)
(* callers derive ids from them.  A vertex has labels and the value of one *)
(* property, or none; an edge has no properties.                           *)
(*                                                                         *)
(* Each call of the store is one step.  With one writer that loses         *)
(* nothing, since nobody commits between the reads of a call and readers   *)
(* have snapshots.  With several, a commit may also fall between two reads *)
(* of one call: the steps here are then only some of those possible, which *)
(* is enough to refute a property and not to establish it.                 *)
(***************************************************************************)
EXTENDS Integers, FiniteSets

CONSTANTS
    Vertex,         \* vertex ids
    Edge,           \* edge ids
    Label,          \* labels a caller may give a vertex
    Unlabeled,      \* the label the store itself gives a vertex without any
    Prop,           \* values of the one property of a vertex
    Kind,           \* edge types
    Src, Dst,       \* functions: the endpoints of an edge id
    Type,           \* function: the type of an edge id
    Tx,             \* slots for read-write transactions open at once
    Absent,         \* there is no such key
    Unwritten,      \* the batch says nothing of the key
    DetachScanThreshold, \* vertices from which detach scans all adjacency
    MaxBatch,       \* bound: ids in one batched call
    MaxCalls        \* bound: reading and writing calls in a behaviour

Row == "row"        \* the value of a key whose value is not looked at

StoredLabel == Label \cup {Unlabeled}
Content     == [labels : SUBSET Label, prop : Prop \cup {Absent}]

ASSUME EdgeAssumption ==
    /\ Src \in [Edge -> Vertex]
    /\ Dst \in [Edge -> Vertex]
    /\ Type \in [Edge -> Kind]

ASSUME ValueAssumption ==
    /\ Unlabeled \notin Label
    /\ Absent \notin Prop
    /\ \A x \in {Absent, Unwritten} : x \notin Content /\ x \notin Nat /\ x # Row
    /\ Absent # Unwritten

ASSUME BoundAssumption ==
    /\ IsFiniteSet(Vertex) /\ IsFiniteSet(Edge)
    /\ DetachScanThreshold \in Nat \ {0}
    /\ MaxBatch \in Nat \ {0}
    /\ MaxCalls \in Nat

VARIABLES
    db,     \* the committed key-value pairs
    tx,     \* the state of each transaction slot
    calls   \* reading and writing calls so far (only to bound the model)

vars == <<db, tx, calls>>

-----------------------------------------------------------------------------
(* The key space.                                                          *)

EdgePrefix == {"e", "et", "te", "oa", "ia", "od"}

VertexKeys == {"v"} \X Vertex
LabelKeys  == {"vl", "lv"} \X Vertex \X StoredLabel
PropKeys   == {"vp", "pv"} \X Vertex \X Prop
EdgeKeys   == EdgePrefix \X Edge

VertexTotal == <<"vertex_total">>
EdgeTotal   == <<"edge_total">>
LabelStats  == {"label"} \X StoredLabel
TypeStats   == {"edge_type"} \X Kind
SourceStats == {"edge_type_sources"} \X Kind
DegreeStats == {"edge_type_src_degree"} \X Kind \X Vertex
PairStats   == {"odc", "udc"} \X Vertex \X Kind \X Vertex

\* Counters changed through counterDeltas, and counters written in place.
PendingStats == {VertexTotal, EdgeTotal}
                    \cup LabelStats \cup TypeStats \cup SourceStats
DirectStats  == DegreeStats \cup PairStats
Stats        == PendingStats \cup DirectStats

RowKeys == LabelKeys \cup PropKeys \cup EdgeKeys
Key     == VertexKeys \cup RowKeys \cup Stats

Rows(E)       == EdgePrefix \X E
LabelRows(v, L) == {"vl", "lv"} \X {v} \X L
PropRows(v, P)  == {"vp", "pv"} \X {v} \X P

\* The counters an edge is counted in.  The endpoint pair of "udc" is in a
\* canonical order: CHOOSE picks the same one for both directions.
StatsOf(e) ==
    LET pair == CHOOSE p \in {<<Src[e], Dst[e]>>, <<Dst[e], Src[e]>>} : TRUE
    IN  { EdgeTotal,
          <<"edge_type", Type[e]>>,
          <<"edge_type_src_degree", Type[e], Src[e]>>,
          <<"odc", Src[e], Type[e], Dst[e]>>,
          <<"udc", pair[1], Type[e], pair[2]>> }

\* normalizedLabelsOrdered, without the order.
Norm(L) == IF L = {} THEN {Unlabeled} ELSE L

-----------------------------------------------------------------------------
(* What a transaction s (an element of the range of tx) sees.              *)

Idle ==
    [ active |-> FALSE,
      batch  |-> [k \in Key |-> Unwritten],
      base   |-> [k \in Stats |-> Absent],
      delta  |-> [k \in Stats |-> 0],
      cache  |-> [v \in Vertex |-> Absent] ]

Read(s, k) == IF s.batch[k] = Unwritten THEN db[k] ELSE s.batch[k]

Visible(s, k) == Read(s, k) # Absent

VisibleEdges(s)    == {e \in Edge : Visible(s, <<"e", e>>)}
VisibleVertices(s) == {v \in Vertex : Visible(s, <<"v", v>>)}

\* loadEdgeTypeAndEndpoints succeeds on the edges whose type rows are there.
LoadableEdges(s) ==
    {e \in VisibleEdges(s) : Visible(s, <<"et", e>>) /\ Visible(s, <<"te", e>>)}

VisibleLabels(s, v) == {l \in StoredLabel : Visible(s, <<"vl", v, l>>)}
VisibleProps(s, v)  == {p \in Prop : Visible(s, <<"vp", v, p>>)}

\* Wrong: the store's own label is shown to the caller.
LoadVertexRaw(s, v) ==
    LET P == VisibleProps(s, v)
    IN  [ labels |-> VisibleLabels(s, v),
          prop   |-> IF P = {} THEN Absent ELSE CHOOSE p \in P : TRUE ]

\* loadVertexByID: the first property row in key order stands for the value.
LoadVertex(s, v) ==
    LET P == VisibleProps(s, v)
    IN  [ labels |-> VisibleLabels(s, v) \ {Unlabeled},
          prop   |-> IF P = {} THEN Absent ELSE CHOOSE p \in P : TRUE ]

CounterFound(s, k) == s.base[k] # Absent \/ Visible(s, k)

AtLeast0(n) == IF n < 0 THEN 0 ELSE n

CounterValue(s, k) ==
    IF s.base[k] # Absent THEN AtLeast0(s.base[k] + s.delta[k])
    ELSE IF Visible(s, k) THEN Read(s, k) ELSE 0

\* tenantEdgeTypes: the types the stored counters (batch and database, but
\* not the pending deltas) know of; all of them if the counters know none.
ScannedTypes(s) ==
    LET known == {k \in Kind : /\ Visible(s, <<"edge_type", k>>)
                               /\ Read(s, <<"edge_type", k>>) > 0}
    IN  IF \/ ~CounterFound(s, VertexTotal) /\ ~CounterFound(s, EdgeTotal)
           \/ known = {}
        THEN Kind ELSE known

\* Wrong: only the outgoing edges are looked at.
OutEdgesOnly(s, v, K) ==
    {e \in LoadableEdges(s) : Type[e] \in K /\ Src[e] = v /\ Visible(s, <<"oa", e>>)}

\* ScanOutEdges and ScanInEdges of the types in K, through scanAdjacency.
IncidentEdges(s, v, K) ==
    {e \in LoadableEdges(s) :
        /\ Type[e] \in K
        /\ \/ Src[e] = v /\ Visible(s, <<"oa", e>>)
           \/ Dst[e] = v /\ Visible(s, <<"ia", e>>)}

\* collectIncidentEdgeIDsForVertexSet.
AdjacentEdges(s, V) ==
    {e \in Edge : Visible(s, <<"oa", e>>) /\ {Src[e], Dst[e]} \cap V # {}}

\* Wrong: the stored total is compared, without the pending increments.
FullSelectionStored(s, V) ==
    /\ V # {}
    /\ Cardinality(V) = IF Visible(s, VertexTotal) THEN Read(s, VertexTotal)
                        ELSE Cardinality(VisibleVertices(s))

\* isFullTenantVertexSelection.
FullSelection(s, V) ==
    /\ V # {}
    /\ Cardinality(V) = IF CounterFound(s, VertexTotal)
                        THEN CounterValue(s, VertexTotal)
                        ELSE Cardinality(VisibleVertices(s))

-----------------------------------------------------------------------------
(* What a call does to the transaction.                                    *)

Written(s, K, x) ==
    [s EXCEPT !.batch = [k \in Key |-> IF k \in K THEN x ELSE s.batch[k]]]

\* readCounterMaybeMissing caches the counters it finds.
CountersRead(s, K) ==
    [s EXCEPT !.base =
        [k \in Stats |-> IF k \in K /\ s.base[k] = Absent
                         THEN Read(s, k) ELSE s.base[k]]]

\* Wrong: an increment replaces the one already pending.
AddedOver(s, d) ==
    [CountersRead(s, {k \in PendingStats : d[k] # 0}) EXCEPT !.delta =
        [k \in Stats |-> IF k \in PendingStats /\ d[k] # 0 THEN d[k]
                                                           ELSE s.delta[k]]]

\* addToCounter for each counter k with d[k] # 0.
Added(s, d) ==
    [CountersRead(s, {k \in PendingStats : d[k] # 0}) EXCEPT !.delta =
        [k \in Stats |-> IF k \in PendingStats THEN s.delta[k] + d[k]
                                               ELSE s.delta[k]]]

\* The counter changes of creating (n = 1) or deleting (n = -1) the edges E.
\* Degrees and pair counts are written into the batch from the value read,
\* which the read caches and the write does not refresh; a degree that
\* leaves or reaches zero also changes the pending count of sources.
Tallied(s, E, n) ==
    LET d    == [k \in Stats |-> n * Cardinality({e \in E : k \in StatsOf(e)})]
        was  == [k \in DirectStats |-> CounterValue(s, k)]
        next == [k \in DirectStats |-> was[k] + d[k]]
        sources(k) ==
            LET deg(v) == <<"edge_type_src_degree", k[2], v>>
            IN  Cardinality({v \in Vertex : was[deg(v)] <= 0 /\ next[deg(v)] > 0})
                - Cardinality({v \in Vertex : was[deg(v)] > 0 /\ next[deg(v)] <= 0})
        r    == Added(s, [k \in Stats |-> IF k \in SourceStats
                                          THEN sources(k) ELSE d[k]])
        kept == {k \in DirectStats :
                    \/ d[k] = 0
                    \/ k \in DegreeStats /\ was[k] <= 0 /\ next[k] <= 0}
    IN  [CountersRead(r, {k \in DirectStats : d[k] # 0}) EXCEPT !.batch =
            [k \in Key |->
                IF k \notin DirectStats \/ k \in kept THEN s.batch[k]
                ELSE IF next[k] <= 0 THEN Absent ELSE next[k]]]

\* Wrong: the rows of the value before are left.
PropsWrittenOver(s, v, p) == Written(s, PropRows(v, {p} \ {Absent}), Row)

\* deleteVertexPropertiesBySchema, then writeVertexProperties.
PropsWritten(s, v, p) ==
    Written(Written(s, PropRows(v, VisibleProps(s, v)), Absent),
            PropRows(v, {p} \ {Absent}), Row)

\* Wrong: a vertex loaded earlier stays in the cache.
VertexStoredUncached(s, v, c) == Written(s, {<<"v", v>>}, c)

VertexStored(s, v, c) ==
    [Written(s, {<<"v", v>>}, c) EXCEPT !.cache[v] = c]

\* putVertexesByMeta.  A vertex that does not exist is taken to be
\* UNLABELED before; one whose content is unchanged is left alone.
VertexPut(s, v, c) ==
    LET exists == Visible(s, <<"v", v>>)
        prev   == IF exists THEN Norm(VisibleLabels(s, v) \ {Unlabeled})
                            ELSE {Unlabeled}
        next   == Norm(c.labels)
        d      == [k \in Stats |->
                    IF k = VertexTotal THEN IF exists THEN 0 ELSE 1
                    ELSE IF k \in {"label"} \X (next \ prev) THEN 1
                    ELSE IF k \in {"label"} \X (prev \ next) THEN -1
                    ELSE 0]
        r1     == Written(Added(s, d), LabelRows(v, prev \ next), Absent)
        r2     == Written(r1, LabelRows(v, next \ prev), Row)
    IN  IF exists /\ Read(s, <<"v", v>>) = c THEN s
        ELSE VertexStored(IF exists THEN PropsWritten(r2, v, c.prop)
                          ELSE Written(r2, PropRows(v, {c.prop} \ {Absent}), Row),
                          v, c)

\* Wrong: the adjacency rows of the target are forgotten.
EdgesDeletedOneSided(s, E) ==
    LET known == E \cap LoadableEdges(s)
    IN  Written(Tallied(s, known, -1), Rows(known) \ ({"ia"} \X Edge), Absent)

\* deleteEdgesByMeta of the loadable edges, deleteEdgeKeysByIDs of all.
EdgesDeleted(s, E) ==
    LET known == E \cap LoadableEdges(s)
        stale == Rows(E \cap VisibleEdges(s))
    IN  Written(Tallied(s, known, -1),
                Rows(known) \cup {k \in stale : Visible(s, k)}, Absent)

\* deleteVerticesByMeta, for existing vertices V.
VerticesDeleted(s, V) ==
    LET labels(v) == Norm(VisibleLabels(s, v))
        d == [k \in Stats |->
                IF k = VertexTotal THEN -Cardinality(V)
                ELSE IF k \in LabelStats
                     THEN -Cardinality({v \in V : k[2] \in labels(v)})
                ELSE 0]
        gone == ({"v"} \X V)
                  \cup (UNION {LabelRows(v, labels(v)) : v \in V})
                  \cup (UNION {PropRows(v, VisibleProps(s, v)) : v \in V})
    IN  [Written(Added(s, d), gone, Absent) EXCEPT !.cache =
            [v \in Vertex |-> IF v \in V THEN Absent ELSE s.cache[v]]]

\* Wrong: only committed keys are deleted, not those the batch has written.
PurgedCommitted(s) ==
    [ s EXCEPT
        !.batch = [k \in Key |->
                    IF k \in {VertexTotal, EdgeTotal} THEN 0
                    ELSE IF db[k] # Absent THEN Absent ELSE s.batch[k]],
        !.base  = [k \in Stats |-> IF k \in PairStats THEN s.base[k] ELSE Absent],
        !.delta = [k \in Stats |-> 0],
        !.cache = [v \in Vertex |-> Absent] ]

\* purgeTenantDataFastPath.  The counter caches it clears are those under
\* the stats prefix, so the bases of the pair counts stay.
Purged(s) ==
    [ s EXCEPT
        !.batch = [k \in Key |->
                    IF k \in {VertexTotal, EdgeTotal} THEN 0
                    ELSE IF Visible(s, k) THEN Absent ELSE s.batch[k]],
        !.base  = [k \in Stats |-> IF k \in PairStats THEN s.base[k] ELSE Absent],
        !.delta = [k \in Stats |-> 0],
        !.cache = [v \in Vertex |-> Absent] ]

-----------------------------------------------------------------------------
(* The calls.                                                              *)

Batches(S) == {B \in SUBSET S : B # {} /\ Cardinality(B) <= MaxBatch}

\* A call of an open transaction t, which leaves it in the state s.
Call(t, s) ==
    /\ tx[t].active
    /\ calls < MaxCalls
    /\ tx' = [tx EXCEPT ![t] = s]
    /\ calls' = calls + 1
    /\ UNCHANGED db

Begin(t) ==
    /\ ~tx[t].active
    /\ tx' = [tx EXCEPT ![t] = [Idle EXCEPT !.active = TRUE]]
    /\ UNCHANGED <<db, calls>>

\* A vertex that is in the cache is not looked for in the store again.
VertexFound(s, v) == s.cache[v] # Absent \/ Visible(s, <<"v", v>>)

VertexGot(s, v) ==
    IF s.cache[v] # Absent THEN s
    ELSE [s EXCEPT !.cache[v] = LoadVertex(s, v)]

GetVertex(t, v) ==
    /\ VertexFound(tx[t], v)
    /\ Call(t, VertexGot(tx[t], v))

\* Only called for an id the same transaction has looked up and not found.
PutVertexNew(t, v, c) ==
    LET s == tx[t]
        d == [k \in Stats |-> IF k \in {VertexTotal} \cup {"label"} \X Norm(c.labels)
                              THEN 1 ELSE 0]
        r == Written(Added(s, d),
                     LabelRows(v, Norm(c.labels)) \cup PropRows(v, {c.prop} \ {Absent}),
                     Row)
    IN  /\ ~VertexFound(s, v)
        /\ Call(t, VertexStored(r, v, c))

PutVertexBatch(t, v, c) == Call(t, VertexPut(tx[t], v, c))

\* The labels written back are those of the cached vertex.
PatchVertexProperties(t, v, p) ==
    LET r == VertexGot(tx[t], v)
    IN  /\ VertexFound(tx[t], v)
        /\ Call(t, VertexPut(r, v, [r.cache[v] EXCEPT !.prop = p]))

\* Callers have matched or created both endpoints in the transaction; WriteStatement
\* shows the applier that calls, and when it does not keep to this.
EndpointsVisible(s, e) == \A v \in {Src[e], Dst[e]} : Visible(s, <<"v", v>>)

\* PutEdgeNew and PutEdgeNewBatch: meant for ids not found before (a batch of MERGE
\* that does not look is in WriteStatement).
PutEdgeNewBatch(t, E) ==
    LET s == tx[t]
    IN  /\ \A e \in E : ~Visible(s, <<"e", e>>) /\ EndpointsVisible(s, e)
        /\ Call(t, Written(Tallied(s, E, 1), Rows(E), Row))

\* Wrong: an edge that is there already is counted again.
EdgesPutCounted(s, E) == Written(Tallied(s, E, 1), Rows(E), Row)

\* putEdgesByMeta.  The endpoints of an id never change, so an edge that is
\* there has its rows deleted and written again, and no counter moves.
EdgesPut(s, E) == Written(Tallied(s, E \ LoadableEdges(s), 1), Rows(E), Row)

PutEdgeBatch(t, E) ==
    /\ \A e \in E : EndpointsVisible(tx[t], e)
    /\ Call(t, EdgesPut(tx[t], E))

PatchEdgeProperties(t, e) ==
    /\ e \in LoadableEdges(tx[t])
    /\ Call(t, EdgesPut(tx[t], {e}))

DeleteEdgeBatch(t, E) == Call(t, EdgesDeleted(tx[t], E))

\* Reading the edge types caches both totals.
TypesRead(s) == CountersRead(s, {VertexTotal, EdgeTotal})

\* deleteVertexBatch without detach: a vertex with an incident edge is a
\* conflict, and the call has changed nothing but the counter cache.
DeleteVertexBatch(t, V) ==
    LET s == tx[t]
        r == TypesRead(s)
        connected == \E v \in V : IncidentEdges(s, v, ScannedTypes(s)) # {}
    IN  Call(t, IF connected THEN r
                ELSE VerticesDeleted(r, V \cap VisibleVertices(s)))

\* deleteVertexBatch with detach.
DeleteVertexDetachBatch(t, V) ==
    LET s     == tx[t]
        found == V \cap VisibleVertices(s)
        few   == found # {} /\ Cardinality(found) < DetachScanThreshold
        r     == CountersRead(s, {VertexTotal} \cup (IF few THEN {EdgeTotal} ELSE {}))
        edges == IF few
                 THEN UNION {IncidentEdges(s, v, ScannedTypes(s)) : v \in found}
                 ELSE AdjacentEdges(s, found)
    IN  Call(t, IF found = {} THEN s
                ELSE IF FullSelection(s, found) THEN Purged(s)
                ELSE VerticesDeleted(EdgesDeleted(r, edges), found))

\* flushCounterDeltas: a counter whose base was never cached is read now.
Flushed(s) ==
    LET base(k) == IF s.base[k] # Absent THEN s.base[k]
                   ELSE IF Visible(s, k) THEN Read(s, k) ELSE 0
    IN  [k \in Key |-> IF k \in Stats /\ s.delta[k] # 0
                       THEN AtLeast0(base(k) + s.delta[k]) ELSE s.batch[k]]

Commit(t) ==
    LET batch == Flushed(tx[t])
    IN  /\ tx[t].active
        /\ db' = [k \in Key |-> IF batch[k] = Unwritten THEN db[k] ELSE batch[k]]
        /\ tx' = [tx EXCEPT ![t] = Idle]
        /\ UNCHANGED calls

\* Wrong: the slot keeps what the transaction cached.
RollbackKept(t) ==
    /\ tx[t].active
    /\ tx' = [tx EXCEPT ![t].active = FALSE]
    /\ UNCHANGED <<db, calls>>

\* Also how a transaction ends whose call failed (say on the batch's size).
Rollback(t) ==
    /\ tx[t].active
    /\ tx' = [tx EXCEPT ![t] = Idle]
    /\ UNCHANGED <<db, calls>>

\* The process dies: what was committed, and synced, is all there is.
Crash ==
    /\ \E t \in Tx : tx[t].active
    /\ tx' = [t \in Tx |-> Idle]
    /\ UNCHANGED <<db, calls>>

-----------------------------------------------------------------------------

Init ==
    /\ db = [k \in Key |-> Absent]
    /\ tx = [t \in Tx |-> Idle]
    /\ calls = 0

VertexStep(t) ==
    \E v \in Vertex :
        \/ GetVertex(t, v)
        \/ \E c \in Content : PutVertexNew(t, v, c) \/ PutVertexBatch(t, v, c)
        \/ \E p \in Prop \cup {Absent} : PatchVertexProperties(t, v, p)

EdgeStep(t) ==
    \/ \E E \in Batches(Edge) :
            PutEdgeNewBatch(t, E) \/ PutEdgeBatch(t, E) \/ DeleteEdgeBatch(t, E)
    \/ \E e \in Edge : PatchEdgeProperties(t, e)

DeleteVertexStep(t) ==
    \E V \in Batches(Vertex) :
        DeleteVertexBatch(t, V) \/ DeleteVertexDetachBatch(t, V)

Next ==
    \/ \E t \in Tx : \/ Begin(t)
                     \/ VertexStep(t) \/ EdgeStep(t) \/ DeleteVertexStep(t)
                     \/ Commit(t) \/ Rollback(t)
    \/ Crash

Spec == Init /\ [][Next]_vars

-----------------------------------------------------------------------------
(* Properties.                                                             *)

\* Each kind of key has values of its own, in the database and in a batch.
ValuesOK(m, None) ==
    /\ DOMAIN m = Key
    /\ \A k \in VertexKeys : m[k] \in None \/ m[k] \in Content
    /\ \A k \in RowKeys : m[k] \in None \cup {Row}
    /\ \A k \in Stats : m[k] \in None \/ m[k] \in Nat

TxOK(s) ==
    /\ DOMAIN s = {"active", "batch", "base", "delta", "cache"}
    /\ s.active \in BOOLEAN
    /\ ValuesOK(s.batch, {Absent, Unwritten})
    /\ s.base \in [Stats -> Nat \cup {Absent}]
    /\ s.delta \in [Stats -> Int]
    /\ s.cache \in [Vertex -> Content \cup {Absent}]

\* The types of the state, and that a slot not in use holds nothing that
\* the transaction before it left there.
TypeOK ==
    /\ ValuesOK(db, {Absent})
    /\ DOMAIN tx = Tx
    /\ \A t \in Tx : TxOK(tx[t]) /\ (~tx[t].active => tx[t] = Idle)
    /\ calls \in 0 .. MaxCalls

\* The rows that stand for one fact: an edge, a label or a property value.
Groups ==
    {Rows({e}) : e \in Edge}
        \cup (UNION {{LabelRows(v, {l}) : l \in StoredLabel} : v \in Vertex})
        \cup (UNION {{PropRows(v, {p}) : p \in Prop} : v \in Vertex})

Together(m, G) == \A j, k \in G : m[j] = Absent <=> m[k] = Absent

\* The six rows of an edge are committed and deleted together, and so are
\* the two rows of a label and of a property: a scan from either end finds
\* the same edges and vertices (the sets and deletes of putEdgesByMeta,
\* deleteEdgesByMeta, putVertexesByMeta and the purge, which decide by
\* different reads which rows there are to delete).
RowsAgree == \A G \in Groups : Together(db, G)

\* The label and property rows of a committed vertex are those of the
\* content its record was written with, and a vertex that is gone has left
\* none behind (putVertexesByMeta rewrites only what it believes changed).
VertexRowsMatch ==
    \A v \in Vertex :
        LET c == db[<<"v", v>>]
            labels == {l \in StoredLabel : db[<<"vl", v, l>>] # Absent}
            props  == {p \in Prop : db[<<"vp", v, p>>] # Absent}
        IN  IF c = Absent THEN labels = {} /\ props = {}
            ELSE /\ labels \ {Unlabeled} = c.labels
                 /\ Unlabeled \in labels => c.labels = {}
                 /\ props = {c.prop} \ {Absent}

\* The totals, the counts by edge type and the counts by label that the
\* planner and the full-selection check read are exact in every committed
\* state (addToCounter and flushCounterDeltas around every write).
CountersExact ==
    LET Committed(k) == IF db[k] = Absent THEN 0 ELSE db[k]
        V == {v \in Vertex : db[<<"v", v>>] # Absent}
        E == {e \in Edge : db[<<"e", e>>] # Absent}
    IN  /\ Committed(VertexTotal) = Cardinality(V)
        /\ Committed(EdgeTotal) = Cardinality(E)
        /\ \A k \in Kind : Committed(<<"edge_type", k>>)
                                = Cardinality({e \in E : Type[e] = k})
        /\ \A l \in Label : Committed(<<"label", l>>)
                                = Cardinality({v \in V : l \in db[<<"v", v>>].labels})

\* No committed edge has lost an endpoint (the DeleteConnectedNode conflict
\* and the collection of incident edges in deleteVertexBatch).
NoDanglingEdges ==
    \A e \in Edge : db[<<"e", e>>] # Absent =>
        \A v \in {Src[e], Dst[e]} : db[<<"v", v>>] # Absent

\* The vertex a transaction has cached is the one its view holds, so that a
\* patch never writes back labels or properties that are gone (cacheVertex,
\* dropVertexCache and the purge's clearing of the cache).
CacheCoherent ==
    \A t \in Tx, v \in Vertex :
        tx[t].cache[v] # Absent => tx[t].cache[v] = Read(tx[t], <<"v", v>>)

\* DETACH DELETE takes from its transaction's view the vertices it is given
\* and no other, also when it purges the tenant (isFullTenantVertexSelection).
DetachSpares ==
    [][\A t \in Tx, V \in Batches(Vertex) : DeleteVertexDetachBatch(t, V) =>
            \A v \in Vertex \ V :
                Visible(tx[t], <<"v", v>>) => Visible(tx[t], <<"v", v>>)']_vars

=============================================================================
