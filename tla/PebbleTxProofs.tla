--------------------------- MODULE PebbleTxProofs ---------------------------
(***************************************************************************)
(* Proofs about PebbleTx: the types of its state, the rows that stand      *)
(* together, and, for one writer and one edge type, that no committed edge *)
(* has lost an endpoint.                                                   *)
(***************************************************************************)
EXTENDS PebbleTx, TLAPS, FiniteSetTheorems

-----------------------------------------------------------------------------
(* Keys of different kinds differ.                                         *)

\* The first element of a key tells its kind.
LEMMA KeyPrefixes ==
    /\ \A k \in VertexKeys : k[1] = "v"
    /\ \A k \in LabelKeys : k[1] \in {"vl", "lv"}
    /\ \A k \in PropKeys : k[1] \in {"vp", "pv"}
    /\ \A k \in EdgeKeys : k[1] \in EdgePrefix
    /\ \A k \in Stats : k[1] \in {"vertex_total", "edge_total", "label",
                                  "edge_type", "edge_type_sources",
                                  "edge_type_src_degree", "odc", "udc"}
  BY DEF VertexKeys, LabelKeys, PropKeys, EdgeKeys, Stats, PendingStats,
         DirectStats, VertexTotal, EdgeTotal, LabelStats, TypeStats,
         SourceStats, DegreeStats, PairStats

\* Vertex records, rows and counters have no key in common.
LEMMA KeysDiffer ==
    /\ VertexKeys \cap RowKeys = {}
    /\ VertexKeys \cap Stats = {}
    /\ RowKeys \cap Stats = {}
    /\ Key = VertexKeys \cup RowKeys \cup Stats
  BY KeyPrefixes DEF RowKeys, Key, EdgePrefix

\* Counters changed in place are none of the pending ones.
LEMMA StatsDiffer ==
    /\ PendingStats \cap DirectStats = {}
    /\ Stats = PendingStats \cup DirectStats
    /\ VertexTotal \in PendingStats /\ EdgeTotal \in PendingStats
    /\ SourceStats \subseteq PendingStats
    /\ LabelStats \subseteq PendingStats
  <1>1. \A k \in PendingStats : k[1] \in {"vertex_total", "edge_total", "label",
                                          "edge_type", "edge_type_sources"}
    BY DEF PendingStats, VertexTotal, EdgeTotal, LabelStats, TypeStats, SourceStats
  <1>2. \A k \in DirectStats : k[1] \in {"edge_type_src_degree", "odc", "udc"}
    BY DEF DirectStats, DegreeStats, PairStats
  <1>3. QED
    BY <1>1, <1>2 DEF Stats, PendingStats

\* The keys a call names are keys of their kind.
LEMMA KeysNamed ==
    /\ \A v \in Vertex : <<"v", v>> \in VertexKeys
    /\ \A v \in Vertex : {<<"v", v>>} \subseteq VertexKeys
    /\ \A V \in SUBSET Vertex : ({"v"} \X V) \subseteq VertexKeys
    /\ \A E \in SUBSET Edge : Rows(E) \subseteq RowKeys
    /\ \A e \in Edge, p \in EdgePrefix : <<p, e>> \in RowKeys
    /\ \A v \in Vertex, L \in SUBSET StoredLabel : LabelRows(v, L) \subseteq RowKeys
    /\ \A v \in Vertex, P \in SUBSET Prop : PropRows(v, P) \subseteq RowKeys
  BY DEF VertexKeys, RowKeys, Rows, LabelRows, PropRows, LabelKeys, PropKeys, EdgeKeys

-----------------------------------------------------------------------------
(* Type correctness of what a call does.                                   *)

\* Writing keys changes the batch at those keys and nothing else.
LEMMA WrittenIs ==
  ASSUME NEW s, TxOK(s), NEW K, NEW x
  PROVE  /\ Written(s, K, x).batch = [k \in Key |-> IF k \in K THEN x ELSE s.batch[k]]
         /\ Written(s, K, x).active = s.active
         /\ Written(s, K, x).base = s.base
         /\ Written(s, K, x).delta = s.delta
         /\ Written(s, K, x).cache = s.cache
         /\ DOMAIN Written(s, K, x) = {"active", "batch", "base", "delta", "cache"}
  BY DEF Written, TxOK

\* Rows and vertex records are written with values of their kind.
LEMMA WrittenOK ==
  ASSUME NEW s, TxOK(s), NEW K, NEW x,
         \/ K \subseteq RowKeys /\ x \in {Row, Absent}
         \/ K \subseteq VertexKeys /\ x \in Content
         \/ x = Absent
  PROVE  TxOK(Written(s, K, x))
  <1> DEFINE m == [k \in Key |-> IF k \in K THEN x ELSE s.batch[k]]
  <1>1. ValuesOK(m, {Absent, Unwritten})
    <2>1. \A k \in VertexKeys : m[k] \in {Absent, Unwritten} \/ m[k] \in Content
      BY KeysDiffer DEF TxOK, ValuesOK
    <2>2. \A k \in RowKeys : m[k] \in {Absent, Unwritten} \cup {Row}
      BY KeysDiffer DEF TxOK, ValuesOK
    <2>3. \A k \in Stats : m[k] \in {Absent, Unwritten} \/ m[k] \in Nat
      BY KeysDiffer DEF TxOK, ValuesOK
    <2>4. QED
      BY <2>1, <2>2, <2>3 DEF ValuesOK
  <1> DEFINE w == Written(s, K, x)
  <1>2. /\ w.batch = m
        /\ w.active = s.active /\ w.base = s.base
        /\ w.delta = s.delta /\ w.cache = s.cache
        /\ DOMAIN w = {"active", "batch", "base", "delta", "cache"}
    BY WrittenIs
  <1> HIDE DEF m, w
  <1>3. TxOK(w)
    BY <1>1, <1>2 DEF TxOK
  <1>4. QED
    BY <1>3 DEF w

\* A read finds what the kind of the key allows, or nothing.
LEMMA ReadOK ==
  ASSUME NEW s, TxOK(s), ValuesOK(db, {Absent})
  PROVE  /\ \A k \in VertexKeys : Read(s, k) \in Content \cup {Absent}
         /\ \A k \in RowKeys : Read(s, k) \in {Row, Absent}
         /\ \A k \in Stats : Read(s, k) \in Nat \cup {Absent}
  <1>1. \A k \in VertexKeys : Read(s, k) \in Content \cup {Absent}
    BY DEF TxOK, ValuesOK, Read
  <1>2. \A k \in RowKeys : Read(s, k) \in {Row, Absent}
    BY DEF TxOK, ValuesOK, Read
  <1>3. \A k \in Stats : Read(s, k) \in Nat \cup {Absent}
    BY DEF TxOK, ValuesOK, Read
  <1>4. QED  BY <1>1, <1>2, <1>3

\* A transaction that has not started writing reads the database.
LEMMA IdleOK == TxOK(Idle) /\ ~Idle.active /\ \A k \in Key : Idle.batch[k] = Unwritten
  <1>1. \A k \in Key : Idle.batch[k] = Unwritten
    BY DEF Idle
  <1>2. ValuesOK(Idle.batch, {Absent, Unwritten})
    BY <1>1, KeysDiffer DEF ValuesOK, Idle
  <1>3. QED
    BY <1>1, <1>2 DEF Idle, TxOK

\* Caching counters changes the base and nothing else.
LEMMA CountersReadIs ==
  ASSUME NEW s, TxOK(s), ValuesOK(db, {Absent}), NEW K
  PROVE  /\ TxOK(CountersRead(s, K))
         /\ CountersRead(s, K).batch = s.batch
         /\ CountersRead(s, K).active = s.active
         /\ CountersRead(s, K).delta = s.delta
         /\ CountersRead(s, K).cache = s.cache
  <1>1. \A k \in Stats : Read(s, k) \in Nat \cup {Absent}
    BY ReadOK
  <1> DEFINE b == [k \in Stats |-> IF k \in K /\ s.base[k] = Absent
                                   THEN Read(s, k) ELSE s.base[k]]
  <1>2. b \in [Stats -> Nat \cup {Absent}]
    BY <1>1 DEF TxOK
  <1>3. QED
    BY <1>2 DEF CountersRead, TxOK

\* Adding to counters changes the base and the increments and nothing else.
LEMMA AddedIs ==
  ASSUME NEW s, TxOK(s), ValuesOK(db, {Absent}),
         NEW d, \A k \in PendingStats : d[k] \in Int
  PROVE  /\ TxOK(Added(s, d))
         /\ Added(s, d).batch = s.batch
         /\ Added(s, d).active = s.active
         /\ Added(s, d).cache = s.cache
  <1> DEFINE r == CountersRead(s, {k \in PendingStats : d[k] # 0})
             f == [k \in Stats |-> IF k \in PendingStats THEN s.delta[k] + d[k]
                                                          ELSE s.delta[k]]
  <1>1. TxOK(r) /\ r.batch = s.batch /\ r.active = s.active /\ r.cache = s.cache
    BY CountersReadIs
  <1>2. f \in [Stats -> Int]
    BY StatsDiffer DEF TxOK
  <1>3. Added(s, d) = [r EXCEPT !.delta = f]
    BY DEF Added
  <1>4. QED
    BY <1>1, <1>2, <1>3 DEF TxOK

\* A counter has a number for a value.
LEMMA CounterValueOK ==
  ASSUME NEW s, TxOK(s), ValuesOK(db, {Absent}), NEW k \in Stats
  PROVE  CounterValue(s, k) \in Int
  <1>1. Read(s, k) \in Nat \cup {Absent}
    BY ReadOK
  <1>2. s.base[k] \in Nat \cup {Absent} /\ s.delta[k] \in Int
    BY DEF TxOK
  <1>3. QED
    BY <1>1, <1>2 DEF CounterValue, AtLeast0, Visible

\* Counting edges writes counters into the batch and nothing else.
LEMMA TalliedIs ==
  ASSUME NEW s, TxOK(s), ValuesOK(db, {Absent}),
         NEW E \in SUBSET Edge, NEW n \in {1, -1}
  PROVE  /\ TxOK(Tallied(s, E, n))
         /\ \A k \in VertexKeys \cup RowKeys :
                Tallied(s, E, n).batch[k] = s.batch[k]
         /\ Tallied(s, E, n).active = s.active
         /\ Tallied(s, E, n).cache = s.cache
  <1> DEFINE d    == [k \in Stats |-> n * Cardinality({e \in E : k \in StatsOf(e)})]
             was  == [k \in DirectStats |-> CounterValue(s, k)]
             next == [k \in DirectStats |-> was[k] + d[k]]
             deg(k, v) == <<"edge_type_src_degree", k[2], v>>
             up(k)   == {v \in Vertex : was[deg(k, v)] <= 0 /\ next[deg(k, v)] > 0}
             down(k) == {v \in Vertex : was[deg(k, v)] > 0 /\ next[deg(k, v)] <= 0}
             D    == [k \in Stats |-> IF k \in SourceStats
                         THEN Cardinality(up(k)) - Cardinality(down(k)) ELSE d[k]]
             r    == Added(s, D)
             q    == CountersRead(r, {k \in DirectStats : d[k] # 0})
             kept == {k \in DirectStats :
                         \/ d[k] = 0
                         \/ k \in DegreeStats /\ was[k] <= 0 /\ next[k] <= 0}
             m    == [k \in Key |->
                        IF k \notin DirectStats \/ k \in kept THEN s.batch[k]
                        ELSE IF next[k] <= 0 THEN Absent ELSE next[k]]
  <1>1. \A k \in Stats : d[k] \in Int
    <2> TAKE k \in Stats
    <2> DEFINE S == {e \in E : k \in StatsOf(e)}
    <2>1. IsFiniteSet(S)
      BY FS_Subset, BoundAssumption
    <2>2. Cardinality(S) \in Nat
      BY <2>1, FS_CardinalityType
    <2> HIDE DEF S
    <2>3. n * Cardinality(S) \in Int
      BY <2>2
    <2>4. QED
      BY <2>3 DEF S
  <1>2. \A k : Cardinality(up(k)) \in Int /\ Cardinality(down(k)) \in Int
    <2> TAKE k
    <2>1. up(k) \in SUBSET Vertex /\ down(k) \in SUBSET Vertex
      OBVIOUS
    <2> HIDE DEF up, down
    <2>2. IsFiniteSet(up(k)) /\ IsFiniteSet(down(k))
      BY <2>1, FS_Subset, BoundAssumption
    <2>3. Cardinality(up(k)) \in Nat /\ Cardinality(down(k)) \in Nat
      BY <2>2, FS_CardinalityType
    <2>4. QED
      BY <2>3
  <1>3. \A k \in DirectStats : was[k] \in Int /\ next[k] \in Int
    <2> HIDE DEF d
    <2>1. \A k \in DirectStats : k \in Stats
      BY StatsDiffer
    <2>2. \A k \in DirectStats : CounterValue(s, k) \in Int
      BY <2>1, CounterValueOK
    <2>3. QED
      BY <2>1, <2>2, <1>1
  <1>4. \A k \in PendingStats : D[k] \in Int
    <2> HIDE DEF up, down, d
    <2>1. QED
      BY <1>1, <1>2, StatsDiffer
  <1>5. TxOK(r) /\ r.batch = s.batch /\ r.active = s.active /\ r.cache = s.cache
    BY <1>4, AddedIs
  <1>6. TxOK(q) /\ q.batch = s.batch /\ q.active = s.active /\ q.cache = s.cache
    BY <1>5, CountersReadIs
  <1>7. \A k \in VertexKeys \cup RowKeys : m[k] = s.batch[k]
    BY KeysDiffer, StatsDiffer
  <1>8. \A k \in Stats : m[k] \in {Absent, Unwritten} \/ m[k] \in Nat
    <2> HIDE DEF d, was, next, kept
    <2>1. QED
      BY <1>3, KeysDiffer DEF TxOK, ValuesOK
  <1>9. ValuesOK(m, {Absent, Unwritten})
    <2> DOMAIN m = Key
      OBVIOUS
    <2> HIDE DEF m
    <2>1. QED
      BY <1>7, <1>8 DEF TxOK, ValuesOK
  <1>10. Tallied(s, E, n) = [q EXCEPT !.batch = m]
    BY DEF Tallied
  <1>11. QED
    <2> HIDE DEF m, q
    <2>1. QED
      BY <1>6, <1>7, <1>9, <1>10 DEF TxOK

-----------------------------------------------------------------------------
(* Rows that stand together.                                               *)

\* A set of keys that splits no group of rows.
Whole(K) == \A G \in Groups : G \subseteq K \/ G \cap K = {}

\* A batch says the same of all the rows of a group.
TxRows(s) ==
    \A G \in Groups : \A j, k \in G :
        /\ s.batch[j] = Unwritten <=> s.batch[k] = Unwritten
        /\ s.batch[j] = Absent <=> s.batch[k] = Absent

LEMMA GroupKinds ==
  ASSUME NEW G \in Groups
  PROVE  \/ \E e \in Edge : G = Rows({e})
         \/ \E v \in Vertex, l \in StoredLabel : G = LabelRows(v, {l})
         \/ \E v \in Vertex, p \in Prop : G = PropRows(v, {p})
  BY DEF Groups

LEMMA GroupsAreRows == \A G \in Groups : G \subseteq RowKeys
  <1> SUFFICES ASSUME NEW G \in Groups
               PROVE  G \subseteq RowKeys
    OBVIOUS
  <1>1. CASE \E e \in Edge : G = Rows({e})
    BY <1>1, KeysNamed
  <1>2. CASE \E v \in Vertex, l \in StoredLabel : G = LabelRows(v, {l})
    BY <1>2, KeysNamed
  <1>3. CASE \E v \in Vertex, p \in Prop : G = PropRows(v, {p})
    BY <1>3, KeysNamed
  <1>4. QED
    BY <1>1, <1>2, <1>3, GroupKinds

\* The rows of a set of edges, of labels and of values are whole groups, and
\* keys that are no rows split nothing.
LEMMA WholeRows ==
    /\ \A E \in SUBSET Edge : Whole(Rows(E))
    /\ \A v \in Vertex, L \in SUBSET StoredLabel : Whole(LabelRows(v, L))
    /\ \A v \in Vertex, P \in SUBSET Prop : Whole(PropRows(v, P))
    /\ \A K \in SUBSET VertexKeys : Whole(K)
  <1>1. \A E \in SUBSET Edge : Whole(Rows(E))
    BY DEF Whole, Groups, Rows, LabelRows, PropRows, EdgePrefix
  <1>2. \A v \in Vertex, L \in SUBSET StoredLabel : Whole(LabelRows(v, L))
    BY DEF Whole, Groups, Rows, LabelRows, PropRows, EdgePrefix
  <1>3. \A v \in Vertex, P \in SUBSET Prop : Whole(PropRows(v, P))
    BY DEF Whole, Groups, Rows, LabelRows, PropRows, EdgePrefix
  <1>4. \A K \in SUBSET VertexKeys : Whole(K)
    BY GroupsAreRows, KeysDiffer DEF Whole
  <1>5. QED  BY <1>1, <1>2, <1>3, <1>4

LEMMA WholeUnion ==
    /\ \A J, K : Whole(J) /\ Whole(K) => Whole(J \cup K)
    /\ \A F : (\A K \in F : Whole(K)) => Whole(UNION F)
  BY DEF Whole

\* Writing whole groups keeps the batch uniform.
LEMMA WrittenRows ==
  ASSUME NEW s, TxOK(s), TxRows(s), NEW K, Whole(K), NEW x
  PROVE  TxRows(Written(s, K, x))
  <1> DEFINE m == [k \in Key |-> IF k \in K THEN x ELSE s.batch[k]]
  <1>1. Written(s, K, x).batch = m
    BY WrittenIs
  <1>2. ASSUME NEW G \in Groups, NEW j \in G, NEW k \in G
        PROVE  /\ m[j] = Unwritten <=> m[k] = Unwritten
               /\ m[j] = Absent <=> m[k] = Absent
    <2>1. j \in Key /\ k \in Key
      BY GroupsAreRows, KeysDiffer
    <2>2. j \in K <=> k \in K
      BY DEF Whole
    <2>3. QED
      BY <2>1, <2>2 DEF TxRows
  <1>3. QED
    BY <1>1, <1>2 DEF TxRows

\* What leaves the rows alone keeps them uniform.
LEMMA SameRows ==
  ASSUME NEW s, TxRows(s), NEW r, \A k \in RowKeys : r.batch[k] = s.batch[k]
  PROVE  TxRows(r)
  BY GroupsAreRows DEF TxRows

\* In a view over a committed state whose rows agree, they agree as well.
LEMMA ViewTogether ==
  ASSUME NEW s, TxRows(s), RowsAgree, NEW G \in Groups, NEW j \in G, NEW k \in G
  PROVE  Visible(s, j) <=> Visible(s, k)
  BY ValueAssumption DEF TxRows, RowsAgree, Together, Visible, Read

\* An edge whose record is seen has all its rows seen.
LEMMA EdgeRowsSeen ==
  ASSUME NEW s, TxRows(s), RowsAgree
  PROVE  /\ \A e \in Edge, p \in EdgePrefix :
                Visible(s, <<p, e>>) <=> Visible(s, <<"e", e>>)
         /\ LoadableEdges(s) = VisibleEdges(s)
  <1>1. ASSUME NEW e \in Edge, NEW p \in EdgePrefix
        PROVE  Visible(s, <<p, e>>) <=> Visible(s, <<"e", e>>)
    <2>1. Rows({e}) \in Groups
      BY DEF Groups
    <2>2. <<p, e>> \in Rows({e}) /\ <<"e", e>> \in Rows({e})
      BY DEF Rows, EdgePrefix
    <2>3. QED
      BY <2>1, <2>2, ViewTogether
  <1>2. QED
    BY <1>1 DEF LoadableEdges, VisibleEdges, EdgePrefix

-----------------------------------------------------------------------------
(* What the calls on vertices do.                                          *)

\* r comes from s by a change that says nothing of edges, takes no vertex
\* away and leaves the rows uniform.
VertexGain(s, r) ==
    /\ TxOK(r) /\ r.active = s.active
    /\ TxRows(s) => TxRows(r)
    /\ \A k \in EdgeKeys : r.batch[k] = s.batch[k]
    /\ \A v \in Vertex : Visible(s, <<"v", v>>) => Visible(r, <<"v", v>>)

LEMMA VertexGainTrans ==
  ASSUME NEW q, NEW r, NEW s, VertexGain(q, r), VertexGain(r, s)
  PROVE  VertexGain(q, s)
  BY DEF VertexGain

\* A change that leaves the batch alone is one.
LEMMA SameBatchGain ==
  ASSUME NEW s, NEW r, TxOK(r), r.active = s.active, r.batch = s.batch
  PROVE  VertexGain(s, r)
  BY DEF VertexGain, TxRows, Visible, Read

LEMMA LabelAndPropKeys ==
    /\ \A v \in Vertex, L \in SUBSET StoredLabel :
            /\ LabelRows(v, L) \subseteq RowKeys
            /\ LabelRows(v, L) \cap EdgeKeys = {}
    /\ \A v \in Vertex, P \in SUBSET Prop :
            /\ PropRows(v, P) \subseteq RowKeys
            /\ PropRows(v, P) \cap EdgeKeys = {}
    /\ EdgeKeys \subseteq RowKeys
    /\ VertexKeys \cap EdgeKeys = {}
  <1>1. \A v \in Vertex, L \in SUBSET StoredLabel : LabelRows(v, L) \subseteq LabelKeys
    BY DEF LabelRows, LabelKeys
  <1>2. \A v \in Vertex, P \in SUBSET Prop : PropRows(v, P) \subseteq PropKeys
    BY DEF PropRows, PropKeys
  <1>3. QED
    BY <1>1, <1>2, KeyPrefixes DEF EdgePrefix, RowKeys

\* Writing label and property rows is one.
LEMMA RowsGain ==
  ASSUME NEW s, TxOK(s), NEW K \in SUBSET RowKeys, Whole(K), K \cap EdgeKeys = {},
         NEW x \in {Row, Absent}
  PROVE  VertexGain(s, Written(s, K, x))
  <1> DEFINE r == Written(s, K, x)
  <1>1. TxOK(r)
    BY WrittenOK
  <1>2. /\ r.batch = [k \in Key |-> IF k \in K THEN x ELSE s.batch[k]]
        /\ r.active = s.active
    BY WrittenIs
  <1>3. TxRows(s) => TxRows(r)
    BY WrittenRows
  <1> HIDE DEF r
  <1>4. \A k \in EdgeKeys : r.batch[k] = s.batch[k]
    BY <1>2, KeysDiffer, LabelAndPropKeys
  <1>5. \A k \in VertexKeys : r.batch[k] = s.batch[k]
    BY <1>2, KeysDiffer
  <1>6. \A v \in Vertex : Visible(s, <<"v", v>>) => Visible(r, <<"v", v>>)
    BY <1>5, KeysNamed DEF Visible, Read
  <1>7. VertexGain(s, r)
    BY <1>1, <1>2, <1>3, <1>4, <1>6 DEF VertexGain
  <1>8. QED
    BY <1>7 DEF r

LEMMA LabelRowsGain ==
  ASSUME NEW s, TxOK(s), NEW v \in Vertex, NEW L \in SUBSET StoredLabel,
         NEW x \in {Row, Absent}
  PROVE  VertexGain(s, Written(s, LabelRows(v, L), x))
  BY RowsGain, WholeRows, LabelAndPropKeys

LEMMA PropRowsGain ==
  ASSUME NEW s, TxOK(s), NEW v \in Vertex, NEW P \in SUBSET Prop,
         NEW x \in {Row, Absent}
  PROVE  VertexGain(s, Written(s, PropRows(v, P), x))
  BY RowsGain, WholeRows, LabelAndPropKeys

\* Storing a vertex is one, and the vertex is seen.
LEMMA VertexStoredGain ==
  ASSUME NEW s, TxOK(s), NEW v \in Vertex, NEW c \in Content
  PROVE  VertexGain(s, VertexStored(s, v, c))
  <1> DEFINE w == Written(s, {<<"v", v>>}, c)
             r == VertexStored(s, v, c)
  <1>1. TxOK(w)
    BY WrittenOK, KeysNamed
  <1>2. /\ w.batch = [k \in Key |-> IF k \in {<<"v", v>>} THEN c ELSE s.batch[k]]
        /\ w.active = s.active /\ w.cache = s.cache
    BY WrittenIs
  <1>3. TxRows(s) => TxRows(w)
    <2>1. {<<"v", v>>} \in SUBSET VertexKeys
      BY KeysNamed
    <2>2. Whole({<<"v", v>>})
      BY <2>1, WholeRows
    <2>3. QED
      BY <2>2, WrittenRows
  <1> HIDE DEF w
  <1>4. r = [w EXCEPT !.cache = [w.cache EXCEPT ![v] = c]]
    BY DEF r, VertexStored, w
  <1>5. /\ r.batch = w.batch /\ r.active = w.active /\ TxOK(r)
    BY <1>1, <1>4 DEF TxOK
  <1> HIDE DEF r
  <1>6. \A k \in EdgeKeys : r.batch[k] = s.batch[k]
    BY <1>2, <1>5, KeysDiffer, KeysNamed, LabelAndPropKeys
  <1>7. \A u \in Vertex : r.batch[<<"v", u>>] \in {c, s.batch[<<"v", u>>]}
    BY <1>2, <1>5, KeysDiffer, KeysNamed
  <1>8. r.batch[<<"v", v>>] = c
    BY <1>2, <1>5, KeysDiffer, KeysNamed
  <1>9. c # Absent /\ c # Unwritten
    BY ValueAssumption
  <1>10. \A u \in Vertex : Visible(s, <<"v", u>>) => Visible(r, <<"v", u>>)
    BY <1>7, <1>9 DEF Visible, Read
  <1>11. TxRows(s) => TxRows(r)
    BY <1>3, <1>5 DEF TxRows
  <1>12. VertexGain(s, r)
    BY <1>2, <1>5, <1>6, <1>10, <1>11 DEF VertexGain
  <1>13. QED
    BY <1>12 DEF r

\* Loading a vertex gives a content, and only fills the cache.
LEMMA VertexGotGain ==
  ASSUME NEW s, TxOK(s), NEW v \in Vertex
  PROVE  /\ VertexGain(s, VertexGot(s, v))
         /\ VertexGot(s, v).cache[v] \in Content
  <1> DEFINE r == VertexGot(s, v)
             P == VisibleProps(s, v)
  <1>1. LoadVertex(s, v) \in Content
    <2>1. VisibleLabels(s, v) \ {Unlabeled} \in SUBSET Label
      BY DEF VisibleLabels, StoredLabel
    <2>2. P # {} => (CHOOSE p \in P : TRUE) \in P
      OBVIOUS
    <2>3. P \subseteq Prop
      BY DEF VisibleProps
    <2>4. (IF P = {} THEN Absent ELSE CHOOSE p \in P : TRUE) \in Prop \cup {Absent}
      BY <2>2, <2>3
    <2> HIDE DEF P
    <2>5. QED
      BY <2>1, <2>4 DEF LoadVertex, Content, P
  <1>2. s.cache \in [Vertex -> Content \cup {Absent}]
    BY DEF TxOK
  <1>3. CASE s.cache[v] # Absent
    <2>1. r = s
      BY <1>3 DEF VertexGot
    <2>2. QED
      BY <1>2, <1>3, <2>1, SameBatchGain
  <1>4. CASE s.cache[v] = Absent
    <2>1. r = [s EXCEPT !.cache = [s.cache EXCEPT ![v] = LoadVertex(s, v)]]
      BY <1>4 DEF VertexGot
    <2> HIDE DEF r
    <2>2. TxOK(r) /\ r.active = s.active /\ r.batch = s.batch
      BY <1>1, <1>2, <2>1 DEF TxOK
    <2>3. r.cache[v] \in Content
      BY <1>1, <1>2, <2>1 DEF TxOK
    <2>4. VertexGain(s, r) /\ r.cache[v] \in Content
      BY <2>2, <2>3, SameBatchGain
    <2>5. QED
      BY <2>4 DEF r
  <1>5. QED
    BY <1>3, <1>4

LEMMA NormOK ==
    /\ \A L \in SUBSET StoredLabel : Norm(L) \in SUBSET StoredLabel
    /\ \A c \in Content : Norm(c.labels) \in SUBSET StoredLabel
    /\ \A c \in Content : {c.prop} \ {Absent} \in SUBSET Prop
  BY DEF Norm, StoredLabel, Content

LEMMA PropsWrittenGain ==
  ASSUME NEW s, TxOK(s), NEW v \in Vertex, NEW p \in Prop \cup {Absent}
  PROVE  VertexGain(s, PropsWritten(s, v, p))
  <1> DEFINE r == Written(s, PropRows(v, VisibleProps(s, v)), Absent)
  <1>1. VertexGain(s, r)
    BY PropRowsGain DEF VisibleProps
  <1>2. TxOK(r)
    BY <1>1 DEF VertexGain
  <1>3. {p} \ {Absent} \in SUBSET Prop
    OBVIOUS
  <1> HIDE DEF r
  <1>4. VertexGain(r, Written(r, PropRows(v, {p} \ {Absent}), Row))
    BY <1>2, <1>3, PropRowsGain
  <1>5. PropsWritten(s, v, p) = Written(r, PropRows(v, {p} \ {Absent}), Row)
    BY DEF PropsWritten, r
  <1>6. QED
    BY <1>1, <1>4, <1>5, VertexGainTrans

\* Putting a vertex takes none away and leaves the edges alone.
LEMMA VertexPutGain ==
  ASSUME NEW s, TxOK(s), ValuesOK(db, {Absent}), NEW v \in Vertex, NEW c \in Content
  PROVE  VertexGain(s, VertexPut(s, v, c))
  <1> DEFINE exists == Visible(s, <<"v", v>>)
             prev   == IF exists THEN Norm(VisibleLabels(s, v) \ {Unlabeled})
                                 ELSE {Unlabeled}
             next   == Norm(c.labels)
             d      == [k \in Stats |->
                         IF k = VertexTotal THEN IF exists THEN 0 ELSE 1
                         ELSE IF k \in {"label"} \X (next \ prev) THEN 1
                         ELSE IF k \in {"label"} \X (prev \ next) THEN -1
                         ELSE 0]
             r0     == Added(s, d)
             r1     == Written(r0, LabelRows(v, prev \ next), Absent)
             r2     == Written(r1, LabelRows(v, next \ prev), Row)
             r3     == PropsWritten(r2, v, c.prop)
             r4     == Written(r2, PropRows(v, {c.prop} \ {Absent}), Row)
  <1>1. \A k \in PendingStats : d[k] \in Int
    BY StatsDiffer
  <1>2. prev \in SUBSET StoredLabel /\ next \in SUBSET StoredLabel
    <2>1. VisibleLabels(s, v) \ {Unlabeled} \in SUBSET StoredLabel
      BY DEF VisibleLabels
    <2>2. QED
      BY <2>1, NormOK DEF StoredLabel
  <1>3. c.prop \in Prop \cup {Absent} /\ {c.prop} \ {Absent} \in SUBSET Prop
    BY DEF Content
  <1>4. TxOK(r0) /\ r0.batch = s.batch /\ r0.active = s.active
    BY <1>1, AddedIs
  <1>5. VertexGain(s, r0) /\ TxOK(r0)
    BY <1>4, SameBatchGain
  <1>6. (prev \ next) \in SUBSET StoredLabel /\ (next \ prev) \in SUBSET StoredLabel
    BY <1>2
  <1> HIDE DEF r0, prev, next
  <1>7. VertexGain(r0, r1) /\ TxOK(r1)
    BY <1>5, <1>6, LabelRowsGain DEF VertexGain
  <1> HIDE DEF r1
  <1>8. VertexGain(r1, r2) /\ TxOK(r2)
    BY <1>6, <1>7, LabelRowsGain DEF VertexGain
  <1>9. VertexGain(s, r2)
    BY <1>5, <1>7, <1>8, VertexGainTrans
  <1> HIDE DEF r2
  <1>10. VertexGain(r2, r3) /\ TxOK(r3)
    BY <1>3, <1>8, PropsWrittenGain DEF VertexGain
  <1>11. VertexGain(r2, r4) /\ TxOK(r4)
    BY <1>3, <1>8, PropRowsGain DEF VertexGain
  <1> HIDE DEF r3, r4
  <1>12. VertexGain(s, VertexStored(r3, v, c)) /\ VertexGain(s, VertexStored(r4, v, c))
    BY <1>9, <1>10, <1>11, VertexStoredGain, VertexGainTrans
  <1>13. VertexGain(s, s)
    BY SameBatchGain
  <1>14. VertexPut(s, v, c) =
            IF exists /\ Read(s, <<"v", v>>) = c THEN s
            ELSE VertexStored(IF exists THEN r3 ELSE r4, v, c)
    BY DEF VertexPut, r0, r1, r2, r3, r4, prev, next
  <1>15. QED
    BY <1>12, <1>13, <1>14

\* So does creating one.
LEMMA VertexNewGain ==
  ASSUME NEW s, TxOK(s), ValuesOK(db, {Absent}), NEW v \in Vertex, NEW c \in Content,
         NEW d, \A k \in PendingStats : d[k] \in Int
  PROVE  VertexGain(s, VertexStored(
             Written(Added(s, d),
                     LabelRows(v, Norm(c.labels)) \cup PropRows(v, {c.prop} \ {Absent}),
                     Row), v, c))
  <1> DEFINE r0 == Added(s, d)
             J  == LabelRows(v, Norm(c.labels))
             K  == PropRows(v, {c.prop} \ {Absent})
             r1 == Written(r0, J \cup K, Row)
  <1>1. TxOK(r0) /\ VertexGain(s, r0)
    BY AddedIs, SameBatchGain
  <1>2. /\ Whole(J) /\ J \subseteq RowKeys /\ J \cap EdgeKeys = {}
        /\ Whole(K) /\ K \subseteq RowKeys /\ K \cap EdgeKeys = {}
    BY NormOK, WholeRows, LabelAndPropKeys
  <1> HIDE DEF r0, J, K
  <1>3. (J \cup K) \in SUBSET RowKeys /\ (J \cup K) \cap EdgeKeys = {} /\ Whole(J \cup K)
    BY <1>2, WholeUnion
  <1>4. VertexGain(r0, r1) /\ TxOK(r1)
    BY <1>1, <1>3, RowsGain DEF VertexGain
  <1> HIDE DEF r1
  <1>5. VertexGain(s, VertexStored(r1, v, c))
    BY <1>1, <1>4, VertexStoredGain, VertexGainTrans
  <1>6. QED
    BY <1>5 DEF r1, r0, J, K

-----------------------------------------------------------------------------
(* What the calls on edges do.                                             *)

\* The rows of edges are no vertex records.
LEMMA EdgeRowKeys ==
    /\ \A E \in SUBSET Edge : Rows(E) \subseteq RowKeys /\ Rows(E) \cap VertexKeys = {}
    /\ \A E \in SUBSET Edge, e \in Edge : <<"e", e>> \in Rows(E) <=> e \in E
    /\ \A e \in Edge : <<"e", e>> \in Key /\ <<"e", e>> \in RowKeys
    /\ \A v \in Vertex : <<"v", v>> \in Key
  <1>1. \A E \in SUBSET Edge : Rows(E) \subseteq RowKeys /\ Rows(E) \cap VertexKeys = {}
    BY KeysNamed, KeysDiffer
  <1>2. \A E \in SUBSET Edge, e \in Edge : <<"e", e>> \in Rows(E) <=> e \in E
    BY DEF Rows, EdgePrefix
  <1>3. \A e \in Edge : <<"e", e>> \in Key /\ <<"e", e>> \in RowKeys
    BY KeysNamed, KeysDiffer DEF EdgePrefix
  <1>4. \A v \in Vertex : <<"v", v>> \in Key
    BY KeysNamed, KeysDiffer
  <1>5. QED  BY <1>1, <1>2, <1>3, <1>4

\* Writing the rows of the edges E, new edges counted or not, adds E to the
\* edges seen and leaves the vertices alone.
LEMMA EdgesWrittenIs ==
  ASSUME NEW s, TxOK(s), ValuesOK(db, {Absent}),
         NEW E \in SUBSET Edge, NEW N \in SUBSET Edge
  PROVE  LET r == Written(Tallied(s, N, 1), Rows(E), Row)
         IN  /\ TxOK(r) /\ r.active = s.active
             /\ TxRows(s) => TxRows(r)
             /\ VisibleEdges(r) = VisibleEdges(s) \cup E
             /\ VisibleVertices(r) = VisibleVertices(s)
  <1> DEFINE q == Tallied(s, N, 1)
             r == Written(q, Rows(E), Row)
  <1>1. /\ TxOK(q) /\ q.active = s.active
        /\ \A k \in VertexKeys \cup RowKeys : q.batch[k] = s.batch[k]
    BY TalliedIs
  <1>2. TxRows(s) => TxRows(q)
    BY <1>1, SameRows
  <1> HIDE DEF q
  <1>3. Whole(Rows(E)) /\ Rows(E) \subseteq RowKeys
    BY WholeRows, EdgeRowKeys
  <1>4. /\ TxOK(r) /\ r.active = s.active
        /\ r.batch = [k \in Key |-> IF k \in Rows(E) THEN Row ELSE q.batch[k]]
        /\ TxRows(s) => TxRows(r)
    BY <1>1, <1>2, <1>3, WrittenOK, WrittenIs, WrittenRows
  <1> HIDE DEF r
  <1>5. Row # Absent /\ Row # Unwritten
    BY ValueAssumption
  <1>6. \A e \in Edge : Visible(r, <<"e", e>>) <=> (Visible(s, <<"e", e>>) \/ e \in E)
    <2>1. \A e \in Edge : r.batch[<<"e", e>>] =
                            IF e \in E THEN Row ELSE s.batch[<<"e", e>>]
      BY <1>1, <1>4, EdgeRowKeys
    <2>2. QED
      BY <2>1, <1>5 DEF Visible, Read
  <1>7. \A v \in Vertex : Visible(r, <<"v", v>>) <=> Visible(s, <<"v", v>>)
    BY <1>1, <1>4, EdgeRowKeys, KeysNamed DEF Visible, Read
  <1>8. VisibleEdges(r) = VisibleEdges(s) \cup E /\ VisibleVertices(r) = VisibleVertices(s)
    BY <1>6, <1>7 DEF VisibleEdges, VisibleVertices
  <1>9. QED
    BY <1>4, <1>8 DEF r, q

\* Deleting edges takes exactly them from the edges seen.
LEMMA EdgesDeletedIs ==
  ASSUME NEW s, TxOK(s), TxRows(s), ValuesOK(db, {Absent}), RowsAgree,
         NEW E \in SUBSET Edge
  PROVE  LET r == EdgesDeleted(s, E)
         IN  /\ TxOK(r) /\ r.active = s.active /\ TxRows(r)
             /\ VisibleEdges(r) = VisibleEdges(s) \ E
             /\ VisibleVertices(r) = VisibleVertices(s)
  <1> DEFINE known == E \cap LoadableEdges(s)
             q     == Tallied(s, known, -1)
             stale == Rows(E \cap VisibleEdges(s))
             K     == Rows(known) \cup {k \in stale : Visible(s, k)}
             r     == Written(q, K, Absent)
  <1>1. /\ TxOK(q) /\ q.active = s.active
        /\ \A k \in VertexKeys \cup RowKeys : q.batch[k] = s.batch[k]
    BY TalliedIs
  <1>2. TxRows(q)
    BY <1>1, SameRows
  <1> HIDE DEF q
  <1>3. K = Rows(known) /\ known = E \cap VisibleEdges(s)
    <2>1. known = E \cap VisibleEdges(s)
      BY EdgeRowsSeen
    <2>2. QED
      BY <2>1
  <1>4. known \in SUBSET Edge
    OBVIOUS
  <1> HIDE DEF K, known
  <1>5. Whole(K) /\ K \subseteq RowKeys
    BY <1>3, <1>4, WholeRows, EdgeRowKeys
  <1>6. /\ TxOK(r) /\ r.active = s.active /\ TxRows(r)
        /\ r.batch = [k \in Key |-> IF k \in K THEN Absent ELSE q.batch[k]]
    BY <1>1, <1>2, <1>5, WrittenOK, WrittenIs, WrittenRows
  <1> HIDE DEF r
  <1>7. \A e \in Edge : Visible(r, <<"e", e>>) <=> (Visible(s, <<"e", e>>) /\ e \notin known)
    BY <1>1, <1>3, <1>4, <1>6, EdgeRowKeys, ValueAssumption DEF Visible, Read
  <1>8. \A v \in Vertex : Visible(r, <<"v", v>>) <=> Visible(s, <<"v", v>>)
    BY <1>1, <1>3, <1>4, <1>6, EdgeRowKeys, KeysNamed DEF Visible, Read
  <1>9. VisibleEdges(r) = VisibleEdges(s) \ E /\ VisibleVertices(r) = VisibleVertices(s)
    BY <1>3, <1>7, <1>8 DEF VisibleEdges, VisibleVertices
  <1>10. EdgesDeleted(s, E) = r
    BY Zenon DEF EdgesDeleted, r, K, q, known
  <1>11. QED
    BY <1>6, <1>9, <1>10

-----------------------------------------------------------------------------
(* What deleting vertices does.                                            *)

\* Deleting vertices leaves the edges alone and takes no other vertex.
LEMMA VerticesDeletedIs ==
  ASSUME NEW s, TxOK(s), ValuesOK(db, {Absent}), NEW V \in SUBSET Vertex
  PROVE  LET r == VerticesDeleted(s, V)
         IN  /\ TxOK(r) /\ r.active = s.active
             /\ TxRows(s) => TxRows(r)
             /\ VisibleEdges(r) = VisibleEdges(s)
             /\ VisibleVertices(r) = VisibleVertices(s) \ V
  <1> DEFINE labels(v) == Norm(VisibleLabels(s, v))
             d    == [k \in Stats |->
                        IF k = VertexTotal THEN -Cardinality(V)
                        ELSE IF k \in LabelStats
                             THEN -Cardinality({v \in V : k[2] \in labels(v)})
                        ELSE 0]
             LL   == UNION {LabelRows(v, labels(v)) : v \in V}
             PP   == UNION {PropRows(v, VisibleProps(s, v)) : v \in V}
             VV   == {"v"} \X V
             gone == VV \cup LL \cup PP
             q    == Added(s, d)
             w    == Written(q, gone, Absent)
             c    == [v \in Vertex |-> IF v \in V THEN Absent ELSE s.cache[v]]
             r    == [w EXCEPT !.cache = c]
  <1>1. \A k \in PendingStats : d[k] \in Int
    <2>1. Cardinality(V) \in Int
      BY FS_Subset, FS_CardinalityType, BoundAssumption
    <2>2. ASSUME NEW k \in LabelStats
          PROVE  Cardinality({v \in V : k[2] \in labels(v)}) \in Int
      <3> DEFINE S == {v \in V : k[2] \in labels(v)}
      <3>1. S \in SUBSET Vertex
        OBVIOUS
      <3> HIDE DEF S
      <3>2. IsFiniteSet(S)
        BY <3>1, FS_Subset, BoundAssumption
      <3>3. Cardinality(S) \in Int
        BY <3>2, FS_CardinalityType
      <3>4. QED
        BY <3>3 DEF S
    <2> HIDE DEF labels
    <2>3. QED
      BY <2>1, <2>2, StatsDiffer
  <1>2. TxOK(q) /\ q.batch = s.batch /\ q.active = s.active /\ q.cache = s.cache
    BY <1>1, AddedIs
  <1>3. \A v \in V : labels(v) \in SUBSET StoredLabel
    BY NormOK DEF VisibleLabels
  <1> HIDE DEF labels
  <1>4. LL \subseteq RowKeys /\ LL \cap EdgeKeys = {} /\ Whole(LL)
    <2>1. \A v \in V : /\ LabelRows(v, labels(v)) \subseteq RowKeys
                        /\ LabelRows(v, labels(v)) \cap EdgeKeys = {}
                        /\ Whole(LabelRows(v, labels(v)))
      BY <1>3, LabelAndPropKeys, WholeRows
    <2>2. QED
      BY <2>1, WholeUnion
  <1>5. PP \subseteq RowKeys /\ PP \cap EdgeKeys = {} /\ Whole(PP)
    <2>1. \A v \in V : VisibleProps(s, v) \in SUBSET Prop
      BY DEF VisibleProps
    <2>2. \A v \in V : /\ PropRows(v, VisibleProps(s, v)) \subseteq RowKeys
                        /\ PropRows(v, VisibleProps(s, v)) \cap EdgeKeys = {}
                        /\ Whole(PropRows(v, VisibleProps(s, v)))
      BY <2>1, LabelAndPropKeys, WholeRows
    <2>3. QED
      BY <2>2, WholeUnion
  <1>6. VV \subseteq VertexKeys /\ Whole(VV)
    BY KeysNamed, WholeRows
  <1>7. \A v \in Vertex : <<"v", v>> \in VV <=> v \in V
    OBVIOUS
  <1> HIDE DEF VV, LL, PP, q, d
  <1>8. Whole(gone) /\ gone \cap EdgeKeys = {}
    BY <1>4, <1>5, <1>6, WholeUnion, LabelAndPropKeys
  <1>9. \A v \in Vertex : <<"v", v>> \in gone <=> v \in V
    BY <1>4, <1>5, <1>7, KeysNamed, KeysDiffer
  <1> HIDE DEF gone
  <1>10. /\ TxOK(w) /\ w.active = q.active /\ w.cache = q.cache
         /\ w.batch = [k \in Key |-> IF k \in gone THEN Absent ELSE q.batch[k]]
         /\ TxRows(q) => TxRows(w)
    BY <1>2, <1>8, WrittenOK, WrittenIs, WrittenRows
  <1> HIDE DEF w
  <1>11. c \in [Vertex -> Content \cup {Absent}]
    BY DEF TxOK
  <1> HIDE DEF c
  <1>12. /\ TxOK(r) /\ r.active = s.active /\ r.batch = w.batch
    BY <1>2, <1>10, <1>11 DEF TxOK
  <1> HIDE DEF r
  <1>13. TxRows(s) => TxRows(r)
    BY <1>2, <1>10, <1>12 DEF TxRows
  <1>14. \A e \in Edge : Visible(r, <<"e", e>>) <=> Visible(s, <<"e", e>>)
    <2>1. \A e \in Edge : <<"e", e>> \in EdgeKeys /\ <<"e", e>> \in Key
      BY EdgeRowKeys DEF EdgeKeys, EdgePrefix
    <2>2. \A e \in Edge : r.batch[<<"e", e>>] = s.batch[<<"e", e>>]
      <3> TAKE e \in Edge
      <3>1. <<"e", e>> \in Key /\ <<"e", e>> \notin gone
        BY <2>1, <1>8
      <3> DEFINE k == <<"e", e>>
      <3> HIDE DEF k
      <3>2. w.batch[k] = s.batch[k]
        BY <3>1, <1>2, <1>10 DEF k
      <3>3. QED
        BY <3>2, <1>12 DEF k
    <2>3. QED
      BY <2>2 DEF Visible, Read
  <1>15. \A v \in Vertex : Visible(r, <<"v", v>>) <=> (Visible(s, <<"v", v>>) /\ v \notin V)
    <2>1. \A v \in Vertex : r.batch[<<"v", v>>] =
                              IF v \in V THEN Absent ELSE s.batch[<<"v", v>>]
      <3> TAKE v \in Vertex
      <3>1. <<"v", v>> \in Key
        BY EdgeRowKeys
      <3>2. w.batch[<<"v", v>>] =
              IF <<"v", v>> \in gone THEN Absent ELSE q.batch[<<"v", v>>]
        BY <3>1, <1>10
      <3>3. QED
        BY <3>2, <1>2, <1>9, <1>12
    <2>2. QED
      BY <2>1, ValueAssumption DEF Visible, Read
  <1>16. VisibleEdges(r) = VisibleEdges(s) /\ VisibleVertices(r) = VisibleVertices(s) \ V
    BY <1>14, <1>15 DEF VisibleEdges, VisibleVertices
  <1>17. VerticesDeleted(s, V) = r
    <2>1. gone = ({"v"} \X V)
                  \cup (UNION {LabelRows(v, labels(v)) : v \in V})
                  \cup (UNION {PropRows(v, VisibleProps(s, v)) : v \in V})
      BY DEF gone, VV, LL, PP
    <2>2. QED
      BY <2>1 DEF VerticesDeleted, r, c, w, q, d, labels
  <1>18. QED
    BY <1>12, <1>13, <1>16, <1>17

\* The purge leaves no edge to be seen, and the rows uniform.
LEMMA PurgedIs ==
  ASSUME NEW s, TxOK(s), TxRows(s), ValuesOK(db, {Absent}), RowsAgree
  PROVE  LET r == Purged(s)
         IN  /\ TxOK(r) /\ r.active = s.active /\ TxRows(r)
             /\ VisibleEdges(r) = {}
  <1> DEFINE m == [k \in Key |->
                     IF k \in {VertexTotal, EdgeTotal} THEN 0
                     ELSE IF Visible(s, k) THEN Absent ELSE s.batch[k]]
             b == [k \in Stats |-> IF k \in PairStats THEN s.base[k] ELSE Absent]
             d == [k \in Stats |-> 0]
             c == [v \in Vertex |-> Absent]
             r == Purged(s)
  <1>1. r = [s EXCEPT !.batch = m, !.base = b, !.delta = d, !.cache = c]
    BY DEF Purged
  <1>2. ValuesOK(m, {Absent, Unwritten})
    <2>1. \A k \in VertexKeys \cup RowKeys : m[k] = Absent \/ m[k] = s.batch[k]
      <3>1. VertexTotal \in Stats /\ EdgeTotal \in Stats
        BY StatsDiffer
      <3>2. QED
        BY <3>1, KeysDiffer
    <2>2. \A k \in Stats : m[k] = Absent \/ m[k] = s.batch[k] \/ m[k] = 0
      BY KeysDiffer
    <2>3. DOMAIN m = Key
      OBVIOUS
    <2> HIDE DEF m
    <2>4. ValuesOK(s.batch, {Absent, Unwritten})
      BY DEF TxOK
    <2>5. \A k \in VertexKeys : m[k] \in {Absent, Unwritten} \/ m[k] \in Content
      BY <2>1, <2>4 DEF ValuesOK
    <2>6. \A k \in RowKeys : m[k] \in {Absent, Unwritten} \cup {Row}
      BY <2>1, <2>4 DEF ValuesOK
    <2>7. \A k \in Stats : m[k] \in {Absent, Unwritten} \/ m[k] \in Nat
      BY <2>2, <2>4 DEF ValuesOK
    <2>8. QED
      BY <2>3, <2>5, <2>6, <2>7 DEF ValuesOK
  <1>3. b \in [Stats -> Nat \cup {Absent}] /\ d \in [Stats -> Int]
        /\ c \in [Vertex -> Content \cup {Absent}]
    BY DEF TxOK
  <1>4. \A k \in RowKeys : m[k] = IF Visible(s, k) THEN Absent ELSE s.batch[k]
    BY KeysDiffer, StatsDiffer
  <1> HIDE DEF m, b, d, c, r
  <1>5. TxOK(r) /\ r.active = s.active /\ r.batch = m
    BY <1>1, <1>2, <1>3 DEF TxOK
  <1>6. ASSUME NEW G \in Groups, NEW j \in G, NEW k \in G
        PROVE  /\ m[j] = Unwritten <=> m[k] = Unwritten
               /\ m[j] = Absent <=> m[k] = Absent
    <2>1. Visible(s, j) <=> Visible(s, k)
      BY ViewTogether
    <2>2. j \in RowKeys /\ k \in RowKeys
      BY GroupsAreRows
    <2>3. QED
      BY <1>4, <2>1, <2>2 DEF TxRows
  <1>7. TxRows(r)
    BY <1>5, <1>6 DEF TxRows
  <1>8. \A e \in Edge : ~Visible(r, <<"e", e>>)
    BY <1>4, <1>5, EdgeRowKeys, ValueAssumption DEF Visible, Read
  <1>9. QED
    BY <1>5, <1>7, <1>8 DEF VisibleEdges, r

-----------------------------------------------------------------------------
(* What every call does.                                                   *)

\* Every edge a transaction sees has its endpoints there.
Closed(s) ==
    \A e \in Edge : Visible(s, <<"e", e>>) =>
        Visible(s, <<"v", Src[e]>>) /\ Visible(s, <<"v", Dst[e]>>)

OneKind == \E k \in Kind : Kind = {k}

\* What a call makes of the transaction s is a transaction with uniform rows
\* and, with a single edge type, no edge of it has lost an endpoint.
CallOK(s, r) ==
    /\ TxOK(r) /\ r.active = s.active
    /\ TxRows(r)
    /\ OneKind /\ Closed(s) => Closed(r)

\* Closed in terms of the sets of what is seen.
LEMMA ClosedIs ==
  ASSUME NEW s
  PROVE  Closed(s) <=> \A e \in VisibleEdges(s) :
                          Src[e] \in VisibleVertices(s) /\ Dst[e] \in VisibleVertices(s)
  BY EdgeAssumption DEF Closed, VisibleEdges, VisibleVertices

LEMMA VertexGainCallOK ==
  ASSUME NEW s, TxRows(s), NEW r, VertexGain(s, r)
  PROVE  CallOK(s, r)
  <1>1. \A e \in Edge : Visible(r, <<"e", e>>) => Visible(s, <<"e", e>>)
    <2>1. \A e \in Edge : <<"e", e>> \in EdgeKeys
      BY DEF EdgeKeys, EdgePrefix
    <2>2. QED
      BY <2>1 DEF VertexGain, Visible, Read
  <1>2. Closed(s) => Closed(r)
    BY <1>1, EdgeAssumption DEF Closed, VertexGain
  <1>3. QED
    BY <1>2 DEF CallOK, VertexGain

\* Writing edges whose endpoints are seen.
LEMMA EdgesWrittenCallOK ==
  ASSUME NEW s, TxOK(s), TxRows(s), ValuesOK(db, {Absent}),
         NEW E \in SUBSET Edge, NEW N \in SUBSET Edge,
         \/ \A e \in E : EndpointsVisible(s, e)
         \/ E \subseteq VisibleEdges(s)
  PROVE  CallOK(s, Written(Tallied(s, N, 1), Rows(E), Row))
  <1> DEFINE r == Written(Tallied(s, N, 1), Rows(E), Row)
  <1>1. /\ TxOK(r) /\ r.active = s.active /\ TxRows(r)
        /\ VisibleEdges(r) = VisibleEdges(s) \cup E
        /\ VisibleVertices(r) = VisibleVertices(s)
    BY EdgesWrittenIs
  <1> HIDE DEF r
  <1>2. CASE \A e \in E : EndpointsVisible(s, e)
    <2>1. \A e \in E : Src[e] \in VisibleVertices(s) /\ Dst[e] \in VisibleVertices(s)
      BY <1>2, EdgeAssumption DEF EndpointsVisible, VisibleVertices
    <2>2. QED
      BY <1>1, <2>1, ClosedIs DEF CallOK, r
  <1>3. CASE E \subseteq VisibleEdges(s)
    BY <1>1, <1>3, ClosedIs DEF CallOK, r
  <1>4. QED
    BY <1>2, <1>3

\* Deleting edges.
LEMMA EdgesDeletedCallOK ==
  ASSUME NEW s, TxOK(s), TxRows(s), ValuesOK(db, {Absent}), RowsAgree,
         NEW E \in SUBSET Edge
  PROVE  CallOK(s, EdgesDeleted(s, E))
  BY EdgesDeletedIs, ClosedIs DEF CallOK

\* With one edge type the scans of a deletion find every incident edge.
LEMMA ScansFindAll ==
  ASSUME NEW s, TxRows(s), RowsAgree, OneKind
  PROVE  /\ \A v \in Vertex :
                IncidentEdges(s, v, ScannedTypes(s)) =
                    {e \in VisibleEdges(s) : Src[e] = v \/ Dst[e] = v}
         /\ \A V \in SUBSET Vertex :
                AdjacentEdges(s, V) =
                    {e \in VisibleEdges(s) : Src[e] \in V \/ Dst[e] \in V}
  <1>1. ScannedTypes(s) = Kind
    <2> DEFINE known == {k \in Kind : /\ Visible(s, <<"edge_type", k>>)
                                      /\ Read(s, <<"edge_type", k>>) > 0}
    <2>1. known = {} \/ known = Kind
      <3>1. known \subseteq Kind
        OBVIOUS
      <3> HIDE DEF known
      <3>2. QED
        BY <3>1 DEF OneKind
    <2> HIDE DEF known
    <2>2. ScannedTypes(s) =
            IF \/ ~CounterFound(s, VertexTotal) /\ ~CounterFound(s, EdgeTotal)
               \/ known = {}
            THEN Kind ELSE known
      BY DEF ScannedTypes, known
    <2>3. QED
      BY <2>1, <2>2
  <1>2. /\ LoadableEdges(s) = VisibleEdges(s)
        /\ \A e \in Edge : /\ Visible(s, <<"oa", e>>) <=> Visible(s, <<"e", e>>)
                           /\ Visible(s, <<"ia", e>>) <=> Visible(s, <<"e", e>>)
    BY EdgeRowsSeen DEF EdgePrefix
  <1>3. ASSUME NEW v \in Vertex
        PROVE  IncidentEdges(s, v, ScannedTypes(s)) =
                    {e \in VisibleEdges(s) : Src[e] = v \/ Dst[e] = v}
    BY <1>1, <1>2, EdgeAssumption DEF IncidentEdges, VisibleEdges
  <1>4. ASSUME NEW V \in SUBSET Vertex
        PROVE  AdjacentEdges(s, V) =
                    {e \in VisibleEdges(s) : Src[e] \in V \/ Dst[e] \in V}
    BY <1>2 DEF AdjacentEdges, VisibleEdges
  <1>5. QED
    BY <1>3, <1>4

\* Two views with the same batch see the same.
LEMMA SameView ==
  ASSUME NEW s, NEW r, r.batch = s.batch
  PROVE  /\ TxRows(s) => TxRows(r)
         /\ VisibleEdges(r) = VisibleEdges(s)
         /\ VisibleVertices(r) = VisibleVertices(s)
  BY DEF TxRows, VisibleEdges, VisibleVertices, Visible, Read

\* Deleting vertices that have no edges.
LEMMA VerticesDeletedCallOK ==
  ASSUME NEW s, TxOK(s), TxRows(s), ValuesOK(db, {Absent}), NEW V \in SUBSET Vertex,
         OneKind => \A e \in VisibleEdges(s) : Src[e] \notin V /\ Dst[e] \notin V
  PROVE  CallOK(s, VerticesDeleted(s, V))
  BY VerticesDeletedIs, ClosedIs DEF CallOK

LEMMA DeleteVertexCallOK ==
  ASSUME NEW s, TxOK(s), TxRows(s), ValuesOK(db, {Absent}), RowsAgree,
         NEW V \in SUBSET Vertex
  PROVE  LET r == TypesRead(s)
         IN  /\ CallOK(s, r)
             /\ (\A v \in V : IncidentEdges(s, v, ScannedTypes(s)) = {}) =>
                    CallOK(s, VerticesDeleted(r, V \cap VisibleVertices(s)))
  <1> DEFINE r == TypesRead(s)
             W == V \cap VisibleVertices(s)
  <1>1. TxOK(r) /\ r.batch = s.batch /\ r.active = s.active
    BY CountersReadIs DEF TypesRead
  <1> HIDE DEF r
  <1>2. /\ TxRows(r) /\ VisibleEdges(r) = VisibleEdges(s)
        /\ VisibleVertices(r) = VisibleVertices(s)
    BY <1>1, SameView
  <1>3. CallOK(s, r) /\ (Closed(s) => Closed(r))
    BY <1>1, <1>2, ClosedIs DEF CallOK
  <1>4. ASSUME \A v \in V : IncidentEdges(s, v, ScannedTypes(s)) = {}
        PROVE  CallOK(s, VerticesDeleted(r, W))
    <2>1. OneKind => \A e \in VisibleEdges(r) : Src[e] \notin W /\ Dst[e] \notin W
      BY <1>2, <1>4, ScansFindAll
    <2>2. W \in SUBSET Vertex
      OBVIOUS
    <2> HIDE DEF W
    <2>3. CallOK(r, VerticesDeleted(r, W))
      BY <1>1, <1>2, <2>1, <2>2, VerticesDeletedCallOK
    <2>4. QED
      BY <1>1, <1>3, <2>3 DEF CallOK
  <1>5. QED
    BY <1>3, <1>4 DEF r

LEMMA DetachCallOK ==
  ASSUME NEW s, TxOK(s), TxRows(s), ValuesOK(db, {Absent}), RowsAgree,
         NEW found \in SUBSET Vertex, NEW K, NEW few \in BOOLEAN
  PROVE  LET r == CountersRead(s, K)
             edges == IF few
                      THEN UNION {IncidentEdges(s, v, ScannedTypes(s)) : v \in found}
                      ELSE AdjacentEdges(s, found)
         IN  CallOK(s, VerticesDeleted(EdgesDeleted(r, edges), found))
  <1> DEFINE r     == CountersRead(s, K)
             edges == IF few
                      THEN UNION {IncidentEdges(s, v, ScannedTypes(s)) : v \in found}
                      ELSE AdjacentEdges(s, found)
             q     == EdgesDeleted(r, edges)
             w     == VerticesDeleted(q, found)
  <1>1. TxOK(r) /\ r.batch = s.batch /\ r.active = s.active
    BY CountersReadIs
  <1> HIDE DEF r
  <1>2. /\ TxRows(r) /\ VisibleEdges(r) = VisibleEdges(s)
        /\ VisibleVertices(r) = VisibleVertices(s)
    BY <1>1, SameView
  <1>3. edges \in SUBSET Edge
    BY DEF IncidentEdges, LoadableEdges, VisibleEdges, AdjacentEdges
  <1>4. OneKind => \A e \in VisibleEdges(s) :
                      Src[e] \in found \/ Dst[e] \in found => e \in edges
    BY ScansFindAll
  <1> HIDE DEF edges
  <1>5. /\ TxOK(q) /\ q.active = r.active /\ TxRows(q)
        /\ VisibleEdges(q) = VisibleEdges(r) \ edges
        /\ VisibleVertices(q) = VisibleVertices(r)
    BY <1>1, <1>2, <1>3, EdgesDeletedIs
  <1> HIDE DEF q
  <1>6. OneKind => \A e \in VisibleEdges(q) : Src[e] \notin found /\ Dst[e] \notin found
    BY <1>2, <1>4, <1>5
  <1>7. CallOK(q, w)
    BY <1>5, <1>6, VerticesDeletedCallOK
  <1> HIDE DEF w
  <1>8. Closed(s) => Closed(q)
    BY <1>2, <1>5, ClosedIs
  <1>9. CallOK(s, w)
    BY <1>1, <1>5, <1>7, <1>8 DEF CallOK
  <1>10. QED
    BY <1>9 DEF w, q, edges, r

LEMMA PurgedCallOK ==
  ASSUME NEW s, TxOK(s), TxRows(s), ValuesOK(db, {Absent}), RowsAgree
  PROVE  CallOK(s, Purged(s))
  BY PurgedIs, ClosedIs DEF CallOK

-----------------------------------------------------------------------------
(* The inductive invariant and the steps.                                  *)

\* The types, and that rows standing for one fact are together in the
\* database and are written together in every batch.  The batches are what
\* makes it inductive: a commit stores what they say.
Inv ==
    /\ TypeOK
    /\ RowsAgree
    /\ \A t \in Tx : TxRows(tx[t])

\* What a call of an open transaction is: a step to a state that is CallOK.
CallStep(t) == \E r : Call(t, r) /\ CallOK(tx[t], r)

LEMMA VertexStepIs ==
  ASSUME Inv, NEW t \in Tx, VertexStep(t)
  PROVE  CallStep(t)
  <1> DEFINE s == tx[t]
  <1>1. TxOK(s) /\ TxRows(s) /\ ValuesOK(db, {Absent})
    BY DEF Inv, TypeOK
  <1> HIDE DEF s
  <1>2. PICK v \in Vertex :
          \/ GetVertex(t, v)
          \/ \E c \in Content : PutVertexNew(t, v, c) \/ PutVertexBatch(t, v, c)
          \/ \E p \in Prop \cup {Absent} : PatchVertexProperties(t, v, p)
    BY DEF VertexStep
  <1>3. CASE GetVertex(t, v)
    <2>1. VertexGain(s, VertexGot(s, v))
      BY <1>1, VertexGotGain
    <2>2. CallOK(s, VertexGot(s, v))
      BY <1>1, <2>1, VertexGainCallOK
    <2>3. QED
      BY <1>3, <2>2 DEF GetVertex, CallStep, s
  <1>4. ASSUME NEW c \in Content, PutVertexNew(t, v, c)
        PROVE  CallStep(t)
    <2> DEFINE d == [k \in Stats |-> IF k \in {VertexTotal} \cup {"label"} \X Norm(c.labels)
                                     THEN 1 ELSE 0]
               r == VertexStored(
                      Written(Added(s, d),
                              LabelRows(v, Norm(c.labels))
                                  \cup PropRows(v, {c.prop} \ {Absent}),
                              Row), v, c)
    <2>1. \A k \in PendingStats : d[k] \in Int
      BY StatsDiffer
    <2>2. Call(t, r)
      BY <1>4 DEF PutVertexNew, s
    <2> HIDE DEF d
    <2>3. VertexGain(s, r)
      BY <1>1, <2>1, VertexNewGain
    <2>4. CallOK(s, r)
      BY <1>1, <2>3, VertexGainCallOK
    <2> HIDE DEF r
    <2>5. QED
      BY <2>2, <2>4 DEF CallStep, s
  <1>5. ASSUME NEW c \in Content, PutVertexBatch(t, v, c)
        PROVE  CallStep(t)
    <2>1. VertexGain(s, VertexPut(s, v, c))
      BY <1>1, VertexPutGain
    <2>2. CallOK(s, VertexPut(s, v, c))
      BY <1>1, <2>1, VertexGainCallOK
    <2>3. QED
      BY <1>5, <2>2 DEF PutVertexBatch, CallStep, s
  <1>6. ASSUME NEW p \in Prop \cup {Absent}, PatchVertexProperties(t, v, p)
        PROVE  CallStep(t)
    <2> DEFINE r == VertexGot(s, v)
               c == [r.cache[v] EXCEPT !.prop = p]
    <2>1. VertexGain(s, r) /\ r.cache[v] \in Content
      BY <1>1, VertexGotGain
    <2>2. Call(t, VertexPut(r, v, c))
      BY <1>6 DEF PatchVertexProperties, s
    <2> HIDE DEF r
    <2>3. c \in Content
      BY <2>1 DEF Content
    <2> HIDE DEF c
    <2>4. TxOK(r)
      BY <2>1 DEF VertexGain
    <2>5. VertexGain(r, VertexPut(r, v, c))
      BY <1>1, <2>3, <2>4, VertexPutGain
    <2>6. VertexGain(s, VertexPut(r, v, c))
      BY <2>1, <2>5, VertexGainTrans
    <2>7. CallOK(s, VertexPut(r, v, c))
      BY <1>1, <2>6, VertexGainCallOK
    <2>8. QED
      BY <2>2, <2>7 DEF CallStep, s
  <1>7. QED
    BY <1>2, <1>3, <1>4, <1>5, <1>6

LEMMA EdgeStepIs ==
  ASSUME Inv, NEW t \in Tx, EdgeStep(t)
  PROVE  CallStep(t)
  <1> DEFINE s == tx[t]
  <1>1. TxOK(s) /\ TxRows(s) /\ ValuesOK(db, {Absent}) /\ RowsAgree
    BY DEF Inv, TypeOK
  <1> HIDE DEF s
  <1>2. ASSUME NEW E \in Batches(Edge), PutEdgeNewBatch(t, E)
        PROVE  CallStep(t)
    <2>1. E \in SUBSET Edge /\ \A e \in E : EndpointsVisible(s, e)
      BY <1>2 DEF PutEdgeNewBatch, Batches, s
    <2>2. CallOK(s, Written(Tallied(s, E, 1), Rows(E), Row))
      BY <1>1, <2>1, EdgesWrittenCallOK
    <2>3. QED
      BY <1>2, <2>2 DEF PutEdgeNewBatch, CallStep, s
  <1>3. ASSUME NEW E \in Batches(Edge), PutEdgeBatch(t, E)
        PROVE  CallStep(t)
    <2>1. E \in SUBSET Edge /\ \A e \in E : EndpointsVisible(s, e)
      BY <1>3 DEF PutEdgeBatch, Batches, s
    <2>2. CallOK(s, EdgesPut(s, E))
      BY <1>1, <2>1, EdgesWrittenCallOK DEF EdgesPut
    <2>3. QED
      BY <1>3, <2>2 DEF PutEdgeBatch, CallStep, s
  <1>4. ASSUME NEW E \in Batches(Edge), DeleteEdgeBatch(t, E)
        PROVE  CallStep(t)
    <2>1. CallOK(s, EdgesDeleted(s, E))
      BY <1>1, EdgesDeletedCallOK DEF Batches
    <2>2. QED
      BY <1>4, <2>1 DEF DeleteEdgeBatch, CallStep, s
  <1>5. ASSUME NEW e \in Edge, PatchEdgeProperties(t, e)
        PROVE  CallStep(t)
    <2>1. {e} \subseteq VisibleEdges(s) /\ Call(t, EdgesPut(s, {e}))
      BY <1>5 DEF PatchEdgeProperties, LoadableEdges, s
    <2>2. CallOK(s, EdgesPut(s, {e}))
      BY <1>1, <2>1, EdgesWrittenCallOK DEF EdgesPut
    <2>3. QED
      BY <2>1, <2>2 DEF CallStep, s
  <1>6. QED
    BY <1>2, <1>3, <1>4, <1>5 DEF EdgeStep

LEMMA DeleteVertexStepIs ==
  ASSUME Inv, NEW t \in Tx, DeleteVertexStep(t)
  PROVE  CallStep(t)
  <1> DEFINE s == tx[t]
  <1>1. TxOK(s) /\ TxRows(s) /\ ValuesOK(db, {Absent}) /\ RowsAgree
    BY DEF Inv, TypeOK
  <1> HIDE DEF s
  <1>2. ASSUME NEW V \in Batches(Vertex), DeleteVertexBatch(t, V)
        PROVE  CallStep(t)
    <2> DEFINE r == TypesRead(s)
               connected == \E v \in V : IncidentEdges(s, v, ScannedTypes(s)) # {}
               q == IF connected THEN r
                    ELSE VerticesDeleted(r, V \cap VisibleVertices(s))
    <2>1. V \in SUBSET Vertex
      BY DEF Batches
    <2>2. CallOK(s, r) /\ (~connected => CallOK(s, VerticesDeleted(r, V \cap VisibleVertices(s))))
      BY <1>1, <2>1, DeleteVertexCallOK
    <2>3. Call(t, q)
      BY <1>2 DEF DeleteVertexBatch, s
    <2> HIDE DEF r, connected
    <2>4. CallOK(s, q)
      BY <2>2
    <2> HIDE DEF q
    <2>5. QED
      BY <2>3, <2>4 DEF CallStep, s
  <1>3. ASSUME NEW V \in Batches(Vertex), DeleteVertexDetachBatch(t, V)
        PROVE  CallStep(t)
    <2> DEFINE found == V \cap VisibleVertices(s)
               few   == found # {} /\ Cardinality(found) < DetachScanThreshold
               K     == {VertexTotal} \cup (IF few THEN {EdgeTotal} ELSE {})
               r     == CountersRead(s, K)
               edges == IF few
                        THEN UNION {IncidentEdges(s, v, ScannedTypes(s)) : v \in found}
                        ELSE AdjacentEdges(s, found)
               w     == VerticesDeleted(EdgesDeleted(r, edges), found)
               q     == IF found = {} THEN s
                        ELSE IF FullSelection(s, found) THEN Purged(s)
                        ELSE w
    <2>1. Call(t, q)
      BY <1>3 DEF DeleteVertexDetachBatch, s
    <2>2. found \in SUBSET Vertex /\ few \in BOOLEAN
      BY DEF Batches
    <2> HIDE DEF found, few, K
    <2>3. CallOK(s, w)
      BY <1>1, <2>2, DetachCallOK
    <2>4. CallOK(s, Purged(s))
      BY <1>1, PurgedCallOK
    <2>5. CallOK(s, s)
      BY <1>1 DEF CallOK
    <2> HIDE DEF w
    <2>6. CallOK(s, q)
      BY <2>3, <2>4, <2>5
    <2> HIDE DEF q
    <2>7. QED
      BY <2>1, <2>6 DEF CallStep, s
  <1>4. QED
    BY <1>2, <1>3 DEF DeleteVertexStep

\* Flushing the counters touches no row and no vertex record.
LEMMA FlushedIs ==
  ASSUME NEW s, TxOK(s), ValuesOK(db, {Absent})
  PROVE  /\ ValuesOK(Flushed(s), {Absent, Unwritten})
         /\ \A k \in VertexKeys \cup RowKeys : Flushed(s)[k] = s.batch[k]
  <1> DEFINE base(k) == IF s.base[k] # Absent THEN s.base[k]
                        ELSE IF Visible(s, k) THEN Read(s, k) ELSE 0
             m == [k \in Key |-> IF k \in Stats /\ s.delta[k] # 0
                                 THEN AtLeast0(base(k) + s.delta[k]) ELSE s.batch[k]]
  <1>1. \A k \in Stats : base(k) \in Nat
    <2>1. \A k \in Stats : Read(s, k) \in Nat \cup {Absent}
      BY ReadOK
    <2>2. s.base \in [Stats -> Nat \cup {Absent}]
      BY DEF TxOK
    <2>3. QED
      BY <2>1, <2>2 DEF Visible
  <1> HIDE DEF base
  <1>2. \A k \in Stats : m[k] \in Nat \/ m[k] = s.batch[k]
    BY <1>1, KeysDiffer DEF TxOK, AtLeast0
  <1>3. \A k \in VertexKeys \cup RowKeys : m[k] = s.batch[k]
    BY KeysDiffer
  <1>4. DOMAIN m = Key
    OBVIOUS
  <1>5. Flushed(s) = m
    BY DEF Flushed, base
  <1> HIDE DEF m
  <1>6. ValuesOK(m, {Absent, Unwritten})
    <2>1. ValuesOK(s.batch, {Absent, Unwritten})
      BY DEF TxOK
    <2>2. QED
      BY <1>2, <1>3, <1>4, <2>1 DEF ValuesOK
  <1>7. QED
    BY <1>3, <1>5, <1>6

\* A commit leaves in the database what its transaction saw of rows and
\* vertex records.
LEMMA CommitIs ==
  ASSUME Inv, NEW t \in Tx, Commit(t)
  PROVE  /\ ValuesOK(db', {Absent})
         /\ RowsAgree'
         /\ \A k \in VertexKeys \cup RowKeys : db'[k] = Read(tx[t], k)
         /\ tx' = [tx EXCEPT ![t] = Idle]
         /\ calls' = calls
  <1> DEFINE s == tx[t]
             b == Flushed(s)
  <1>1. TxOK(s) /\ TxRows(s) /\ ValuesOK(db, {Absent}) /\ RowsAgree
    BY DEF Inv, TypeOK
  <1>2. /\ db' = [k \in Key |-> IF b[k] = Unwritten THEN db[k] ELSE b[k]]
        /\ tx' = [tx EXCEPT ![t] = Idle]
        /\ calls' = calls
    BY DEF Commit
  <1> HIDE DEF s
  <1>3. /\ ValuesOK(b, {Absent, Unwritten})
        /\ \A k \in VertexKeys \cup RowKeys : b[k] = s.batch[k]
    BY <1>1, FlushedIs
  <1> HIDE DEF b
  <1>4. ValuesOK(db', {Absent})
    <2>1. DOMAIN db' = Key
      BY <1>2
    <2>2. \A k \in VertexKeys : db'[k] \in {Absent} \/ db'[k] \in Content
      BY <1>1, <1>2, <1>3, KeysDiffer DEF ValuesOK
    <2>3. \A k \in RowKeys : db'[k] \in {Absent} \cup {Row}
      BY <1>1, <1>2, <1>3, KeysDiffer DEF ValuesOK
    <2>4. \A k \in Stats : db'[k] \in {Absent} \/ db'[k] \in Nat
      BY <1>1, <1>2, <1>3, KeysDiffer DEF ValuesOK
    <2>5. QED
      BY <2>1, <2>2, <2>3, <2>4 DEF ValuesOK
  <1>5. \A k \in VertexKeys \cup RowKeys : db'[k] = Read(s, k)
    BY <1>2, <1>3, KeysDiffer DEF Read
  <1>6. RowsAgree'
    <2> SUFFICES ASSUME NEW G \in Groups, NEW j \in G, NEW k \in G
                 PROVE  db'[j] = Absent <=> db'[k] = Absent
      BY DEF RowsAgree, Together
    <2>1. Visible(s, j) <=> Visible(s, k)
      BY <1>1, ViewTogether
    <2>2. j \in RowKeys /\ k \in RowKeys
      BY GroupsAreRows
    <2>3. QED
      BY <1>5, <2>1, <2>2 DEF Visible
  <1>7. QED
    BY <1>2, <1>4, <1>5, <1>6 DEF s

\* A transaction that has written nothing has uniform rows.
LEMMA IdleRows ==
  ASSUME NEW s, s.batch = Idle.batch
  PROVE  TxRows(s)
  BY IdleOK, GroupsAreRows, KeysDiffer, ValueAssumption DEF TxRows

LEMMA BegunOK ==
  /\ TxOK([Idle EXCEPT !.active = TRUE])
  /\ [Idle EXCEPT !.active = TRUE].active
  /\ [Idle EXCEPT !.active = TRUE].batch = Idle.batch
  BY IdleOK DEF TxOK, Idle

\* Every step is a begin, a call, a commit or the end of transactions.
LEMMA StepKinds ==
  ASSUME Inv, Next
  PROVE  \/ \E t \in Tx : Begin(t)
         \/ \E t \in Tx : CallStep(t)
         \/ \E t \in Tx : Commit(t)
         \/ \E t \in Tx : Rollback(t)
         \/ Crash
  BY VertexStepIs, EdgeStepIs, DeleteVertexStepIs DEF Next

LEMMA InvInit ==
  ASSUME Init
  PROVE  Inv
  <1>1. \A k \in Key : db[k] = Absent
    BY DEF Init
  <1>2. ValuesOK(db, {Absent})
    BY <1>1, KeysDiffer DEF ValuesOK, Init
  <1>3. RowsAgree
    BY <1>1, GroupsAreRows, KeysDiffer DEF RowsAgree, Together
  <1>4. DOMAIN tx = Tx /\ \A t \in Tx : tx[t] = Idle
    BY DEF Init
  <1>5. \A t \in Tx : TxOK(tx[t]) /\ TxRows(tx[t])
    BY <1>4, IdleOK, IdleRows
  <1>6. calls \in 0 .. MaxCalls
    BY BoundAssumption DEF Init
  <1>7. QED
    BY <1>2, <1>3, <1>4, <1>5, <1>6 DEF Inv, TypeOK

\* Steps that leave the database alone and give every slot a sound state.
LEMMA InvKept ==
  ASSUME Inv, db' = db, DOMAIN tx' = Tx, calls' \in 0 .. MaxCalls,
         \A t \in Tx : /\ TxOK(tx'[t]) /\ TxRows(tx'[t])
                       /\ ~tx'[t].active => tx'[t] = Idle
  PROVE  Inv'
  <1>1. TypeOK'
    BY DEF Inv, TypeOK, TxOK, ValuesOK
  <1>2. RowsAgree'
    BY DEF Inv, RowsAgree, Together
  <1>3. QED
    BY <1>1, <1>2 DEF Inv, TxRows

LEMMA InvNext ==
  ASSUME Inv, [Next]_vars
  PROVE  Inv'
  <1>1. /\ DOMAIN tx = Tx /\ calls \in 0 .. MaxCalls
        /\ \A t \in Tx : /\ TxOK(tx[t]) /\ TxRows(tx[t])
                         /\ ~tx[t].active => tx[t] = Idle
    BY DEF Inv, TypeOK
  <1>2. TxOK(Idle) /\ TxRows(Idle)
    BY IdleOK, IdleRows
  <1>3. ASSUME NEW t \in Tx, Begin(t)
        PROVE  Inv'
    <2> DEFINE b == [Idle EXCEPT !.active = TRUE]
    <2>1. TxOK(b) /\ b.active /\ TxRows(b)
      BY BegunOK, IdleRows
    <2>2. tx' = [tx EXCEPT ![t] = b] /\ db' = db /\ calls' = calls
      BY <1>3 DEF Begin
    <2> HIDE DEF b
    <2>3. QED
      BY <1>1, <2>1, <2>2, InvKept
  <1>4. ASSUME NEW t \in Tx, CallStep(t)
        PROVE  Inv'
    <2>1. PICK r : Call(t, r) /\ CallOK(tx[t], r)
      BY <1>4 DEF CallStep
    <2>2. /\ tx' = [tx EXCEPT ![t] = r] /\ db' = db /\ calls' = calls + 1
          /\ calls < MaxCalls /\ tx[t].active
      BY <2>1 DEF Call
    <2>3. TxOK(r) /\ TxRows(r) /\ r.active
      BY <2>1, <2>2 DEF CallOK
    <2>4. calls' \in 0 .. MaxCalls
      BY <1>1, <2>2, BoundAssumption
    <2>5. QED
      BY <1>1, <2>2, <2>3, <2>4, InvKept
  <1>5. ASSUME NEW t \in Tx, Commit(t)
        PROVE  Inv'
    <2>1. /\ ValuesOK(db', {Absent}) /\ RowsAgree'
          /\ tx' = [tx EXCEPT ![t] = Idle] /\ calls' = calls
      BY <1>5, CommitIs
    <2>2. /\ DOMAIN tx' = Tx
          /\ \A u \in Tx : /\ TxOK(tx'[u]) /\ TxRows(tx'[u])
                           /\ ~tx'[u].active => tx'[u] = Idle
      BY <1>1, <1>2, <2>1
    <2>3. TypeOK'
      BY <1>1, <2>1, <2>2 DEF TypeOK, TxOK, ValuesOK
    <2>4. QED
      BY <2>1, <2>2, <2>3 DEF Inv, TxRows
  <1>6. ASSUME NEW t \in Tx, Rollback(t)
        PROVE  Inv'
    <2>1. tx' = [tx EXCEPT ![t] = Idle] /\ db' = db /\ calls' = calls
      BY <1>6 DEF Rollback
    <2>2. QED
      BY <1>1, <1>2, <2>1, InvKept
  <1>7. CASE Crash
    <2>1. tx' = [t \in Tx |-> Idle] /\ db' = db /\ calls' = calls
      BY <1>7 DEF Crash
    <2>2. QED
      BY <1>1, <1>2, <2>1, InvKept
  <1>8. CASE UNCHANGED vars
    BY <1>1, <1>8, InvKept DEF vars
  <1>9. QED
    BY <1>3, <1>4, <1>5, <1>6, <1>7, <1>8, StepKinds

\* The state has its types, and a slot not in use holds nothing of the
\* transaction that was in it (BeginTx, closeResources), for any number of
\* writers whose calls each read at one instant.
THEOREM TypeCorrect == Spec => []TypeOK
  <1>1. Inv => TypeOK
    BY DEF Inv
  <1>2. QED
    BY <1>1, InvInit, InvNext, PTL DEF Spec

\* Every commit leaves the rows of an edge, of a label and of a property
\* together, so that scans from either end agree, again for any number of
\* such writers: the deletes of deleteEdgesByMeta, deleteVerticesByMeta and
\* the purge, and the puts, take or write all the rows of a fact or none.
THEOREM RowsAgreeAlways == Spec => []RowsAgree
  <1>1. Inv => RowsAgree
    BY DEF Inv
  <1>2. QED
    BY <1>1, InvInit, InvNext, PTL DEF Spec

-----------------------------------------------------------------------------
(* No edge without its endpoints.                                          *)

OneWriter == \E t \in Tx : Tx = {t}

\* What is committed is closed, and so is what an open transaction sees.
ClosedInv ==
    /\ Inv
    /\ NoDanglingEdges
    /\ \A t \in Tx : tx[t].active => Closed(tx[t])

\* A transaction that has written nothing sees what is committed.
LEMMA CleanView ==
  ASSUME NEW s, s.batch = Idle.batch
  PROVE  Closed(s) <=> NoDanglingEdges
  <1>1. \A k \in Key : Read(s, k) = db[k]
    BY IdleOK DEF Read
  <1>2. QED
    BY <1>1, EdgeRowKeys, EdgeAssumption DEF Closed, NoDanglingEdges, Visible

LEMMA ClosedInvInit ==
  ASSUME Init
  PROVE  ClosedInv
  <1>1. Inv
    BY InvInit
  <1>2. NoDanglingEdges
    BY EdgeRowKeys DEF Init, NoDanglingEdges
  <1>3. \A t \in Tx : ~tx[t].active
    BY IdleOK DEF Init
  <1>4. QED
    BY <1>1, <1>2, <1>3 DEF ClosedInv

LEMMA ClosedInvNext ==
  ASSUME OneWriter, OneKind, ClosedInv, [Next]_vars
  PROVE  ClosedInv'
  <1> Inv'
    BY InvNext DEF ClosedInv
  <1>1. PICK t \in Tx : Tx = {t}
    BY DEF OneWriter
  <1>2. DOMAIN tx = Tx /\ Inv /\ NoDanglingEdges /\ (tx[t].active => Closed(tx[t]))
    BY DEF ClosedInv, Inv, TypeOK
  <1>3. ASSUME db' = db, tx'[t].active => Closed(tx'[t])
        PROVE  ClosedInv'
    <2>1. NoDanglingEdges'
      BY <1>2, <1>3 DEF NoDanglingEdges
    <2>2. tx'[t].active => Closed(tx[t])'
      BY <1>3 DEF Closed, Visible, Read
    <2>3. QED
      BY <1>1, <2>1, <2>2 DEF ClosedInv
  <1>4. CASE Begin(t)
    <2> DEFINE b == [Idle EXCEPT !.active = TRUE]
    <2>1. tx'[t] = b /\ db' = db
      BY <1>2, <1>4 DEF Begin
    <2>2. b.batch = Idle.batch
      BY BegunOK
    <2> HIDE DEF b
    <2>3. Closed(b)
      BY <1>2, <2>2, CleanView
    <2>4. QED
      BY <1>3, <2>1, <2>3
  <1>5. CASE CallStep(t)
    <2>1. PICK r : Call(t, r) /\ CallOK(tx[t], r)
      BY <1>5 DEF CallStep
    <2>2. tx'[t] = r /\ db' = db /\ tx[t].active
      BY <1>2, <2>1 DEF Call
    <2>3. Closed(r)
      BY <1>2, <2>1, <2>2 DEF CallOK
    <2>4. QED
      BY <1>3, <2>2, <2>3
  <1>6. CASE Commit(t)
    <2>1. /\ \A k \in VertexKeys \cup RowKeys : db'[k] = Read(tx[t], k)
          /\ tx' = [tx EXCEPT ![t] = Idle]
      BY <1>2, <1>6, CommitIs
    <2>2. Closed(tx[t])
      BY <1>2, <1>6 DEF Commit
    <2>3. \A e \in Edge : /\ <<"e", e>> \in RowKeys
                          /\ <<"v", Src[e]>> \in VertexKeys
                          /\ <<"v", Dst[e]>> \in VertexKeys
      BY EdgeRowKeys, KeysNamed, EdgeAssumption
    <2>4. NoDanglingEdges'
      BY <2>1, <2>2, <2>3 DEF NoDanglingEdges, Closed, Visible
    <2>5. ~tx'[t].active
      BY <1>2, <2>1, IdleOK
    <2>6. QED
      BY <1>1, <2>4, <2>5 DEF ClosedInv
  <1>7. CASE Rollback(t) \/ Crash
    <2>1. tx'[t] = Idle /\ db' = db
      BY <1>2, <1>7 DEF Rollback, Crash
    <2>2. QED
      BY <1>3, <2>1, IdleOK
  <1>8. CASE UNCHANGED vars
    <2>1. tx'[t] = tx[t] /\ db' = db
      BY <1>8 DEF vars
    <2>2. QED
      BY <1>2, <1>3, <2>1
  <1>9. QED
    BY <1>1, <1>2, <1>4, <1>5, <1>6, <1>7, <1>8, StepKinds

\* With one writer and one edge type, no committed edge ever loses an
\* endpoint, whatever the numbers of vertices and edges, the batches and the
\* threshold (the conflict and the collection of incident edges in
\* deleteVertexBatch).  Both assumptions are needed: two writers, or two
\* types, leave edges without endpoints.
THEOREM NoDangling ==
  ASSUME OneWriter, OneKind
  PROVE  Spec => []NoDanglingEdges
  <1>1. ClosedInv => NoDanglingEdges
    BY DEF ClosedInv
  <1>2. QED
    BY <1>1, ClosedInvInit, ClosedInvNext, PTL DEF Spec

=============================================================================
