-------------------------- MODULE PebbleViewProofs --------------------------
(***************************************************************************)
(* Proofs about PebbleTx with one writer: what the writer's transaction    *)
(* sees of vertices and counters, and so that committed rows match the     *)
(* records of their vertices, that cached vertices are those of the view,  *)
(* that the counters are exact, that DETACH DELETE spares what it was not  *)
(* given, and that the store implements PropertyGraph.                     *)
(***************************************************************************)
EXTENDS PebbleGraph, PebbleTxProofs

-----------------------------------------------------------------------------
(* What a transaction sees of a vertex.                                    *)

\* The record is c, and the label and property rows are those of L and P.
Sees(s, v, c, L, P) ==
    /\ Read(s, <<"v", v>>) = c
    /\ VisibleLabels(s, v) = L
    /\ VisibleProps(s, v) = P

\* r and s see the same vertex v, and have cached the same.
SameVertex(s, r, v) ==
    /\ Sees(r, v, Read(s, <<"v", v>>), VisibleLabels(s, v), VisibleProps(s, v))
    /\ r.cache[v] = s.cache[v]

\* The rows L and P are those of a vertex whose record is c.
Matching(c, L, P) ==
    IF c = Absent THEN L = {} /\ P = {}
    ELSE /\ L \ {Unlabeled} = c.labels
         /\ Unlabeled \in L => c.labels = {}
         /\ P = {c.prop} \ {Absent}

VertexOK(s, v) ==
    /\ Matching(Read(s, <<"v", v>>), VisibleLabels(s, v), VisibleProps(s, v))
    /\ s.cache[v] # Absent => s.cache[v] = Read(s, <<"v", v>>)

LEMMA SameVertexOK ==
  ASSUME NEW s, NEW r, NEW v, SameVertex(s, r, v), VertexOK(s, v)
  PROVE  VertexOK(r, v)
  BY DEF SameVertex, Sees, VertexOK

LEMMA SameVertexTrans ==
  ASSUME NEW q, NEW r, NEW s, NEW v, SameVertex(q, r, v), SameVertex(r, s, v)
  PROVE  SameVertex(q, s, v)
  BY DEF SameVertex, Sees

\* A write is read back, and nothing else changes.
LEMMA ReadWritten ==
  ASSUME NEW s, TxOK(s), NEW K, NEW x, x # Unwritten
  PROVE  \A k \in Key : Read(Written(s, K, x), k) = IF k \in K THEN x ELSE Read(s, k)
  <1>1. Written(s, K, x).batch = [k \in Key |-> IF k \in K THEN x ELSE s.batch[k]]
    BY WrittenIs
  <1>2. QED
    BY <1>1 DEF Read

\* The rows of labels and of properties by name.
LEMMA LabelRowNames ==
    /\ \A v \in Vertex, l \in StoredLabel : <<"vl", v, l>> \in Key
    /\ \A u, v \in Vertex, l \in StoredLabel, L \in SUBSET StoredLabel :
            <<"vl", u, l>> \in LabelRows(v, L) <=> u = v /\ l \in L
    /\ \A u, v \in Vertex, l \in StoredLabel, P \in SUBSET Prop :
            <<"vl", u, l>> \notin PropRows(v, P)
  BY DEF LabelRows, PropRows, LabelKeys, RowKeys, Key

LEMMA PropRowNames ==
    /\ \A v \in Vertex, p \in Prop : <<"vp", v, p>> \in Key
    /\ \A u, v \in Vertex, p \in Prop, P \in SUBSET Prop :
            <<"vp", u, p>> \in PropRows(v, P) <=> u = v /\ p \in P
    /\ \A u, v \in Vertex, p \in Prop, L \in SUBSET StoredLabel :
            <<"vp", u, p>> \notin LabelRows(v, L)
  BY DEF LabelRows, PropRows, PropKeys, RowKeys, Key

\* What holds of a transaction that has only written rows to come to r.
RowsOnly(s, r) ==
    /\ TxOK(r) /\ r.active = s.active
    /\ r.base = s.base /\ r.delta = s.delta /\ r.cache = s.cache
    /\ \A k \in VertexKeys \cup EdgeKeys \cup Stats : r.batch[k] = s.batch[k]

LEMMA RowsOnlyTrans ==
  ASSUME NEW q, NEW r, NEW s, RowsOnly(q, r), RowsOnly(r, s)
  PROVE  RowsOnly(q, s)
  BY DEF RowsOnly

LEMMA WrittenRowsOnly ==
  ASSUME NEW s, TxOK(s), NEW K \in SUBSET RowKeys, K \cap EdgeKeys = {},
         NEW x \in {Row, Absent}
  PROVE  RowsOnly(s, Written(s, K, x))
  <1> DEFINE r == Written(s, K, x)
  <1>1. TxOK(r)
    BY WrittenOK
  <1>2. /\ r.batch = [k \in Key |-> IF k \in K THEN x ELSE s.batch[k]]
        /\ r.active = s.active /\ r.base = s.base
        /\ r.delta = s.delta /\ r.cache = s.cache
    BY WrittenIs
  <1> HIDE DEF r
  <1>3. \A k \in VertexKeys \cup EdgeKeys \cup Stats : k \in Key /\ k \notin K
    BY KeysDiffer, LabelAndPropKeys
  <1>4. RowsOnly(s, r)
    BY <1>1, <1>2, <1>3 DEF RowsOnly
  <1>5. QED
    BY <1>4 DEF r

\* Label rows written or deleted.
LEMMA LabelsWrittenIs ==
  ASSUME NEW s, TxOK(s), NEW v \in Vertex, NEW L \in SUBSET StoredLabel,
         NEW x \in {Row, Absent}
  PROVE  LET r == Written(s, LabelRows(v, L), x)
         IN  /\ RowsOnly(s, r)
             /\ \A u \in Vertex \ {v} : SameVertex(s, r, u)
             /\ Sees(r, v, Read(s, <<"v", v>>),
                     IF x = Row THEN VisibleLabels(s, v) \cup L
                                ELSE VisibleLabels(s, v) \ L,
                     VisibleProps(s, v))
  <1> DEFINE K == LabelRows(v, L)
             r == Written(s, K, x)
  <1>1. K \in SUBSET RowKeys /\ K \cap EdgeKeys = {}
    BY LabelAndPropKeys
  <1>2. RowsOnly(s, r)
    BY <1>1, WrittenRowsOnly
  <1>3. x # Unwritten /\ Row # Absent
    BY ValueAssumption
  <1>4. \A k \in Key : Read(r, k) = IF k \in K THEN x ELSE Read(s, k)
    BY <1>3, ReadWritten
  <1> HIDE DEF r
  <1>5. \A u \in Vertex : Read(r, <<"v", u>>) = Read(s, <<"v", u>>)
    BY <1>2, KeysNamed DEF RowsOnly, Read
  <1>6. \A u \in Vertex : VisibleProps(r, u) = VisibleProps(s, u)
    <2>1. \A u \in Vertex, p \in Prop : Read(r, <<"vp", u, p>>) = Read(s, <<"vp", u, p>>)
      BY <1>4, LabelRowNames, PropRowNames
    <2>2. QED
      BY <2>1 DEF VisibleProps, Visible
  <1>7. \A u \in Vertex, l \in StoredLabel :
            Read(r, <<"vl", u, l>>) =
                IF u = v /\ l \in L THEN x ELSE Read(s, <<"vl", u, l>>)
    <2> TAKE u \in Vertex, l \in StoredLabel
    <2>1. <<"vl", u, l>> \in Key /\ (<<"vl", u, l>> \in K <=> u = v /\ l \in L)
      BY LabelRowNames
    <2> HIDE DEF K
    <2>2. QED
      BY <1>4, <2>1
  <1>8. \A u \in Vertex \ {v} : VisibleLabels(r, u) = VisibleLabels(s, u)
    BY <1>7 DEF VisibleLabels, Visible
  <1> DEFINE N == IF x = Row THEN VisibleLabels(s, v) \cup L
                             ELSE VisibleLabels(s, v) \ L
  <1>9. VisibleLabels(r, v) = N
    <2>1. CASE x = Row
      BY <1>3, <1>7, <2>1 DEF VisibleLabels, Visible
    <2>2. CASE x = Absent
      BY <1>3, <1>7, <2>2 DEF VisibleLabels, Visible
    <2>3. QED
      BY <2>1, <2>2
  <1> HIDE DEF N
  <1>10. /\ \A u \in Vertex \ {v} : SameVertex(s, r, u)
         /\ Sees(r, v, Read(s, <<"v", v>>), N, VisibleProps(s, v))
    BY <1>2, <1>5, <1>6, <1>8, <1>9 DEF SameVertex, Sees, RowsOnly
  <1>11. QED
    BY <1>2, <1>10 DEF r, N

\* Property rows written or deleted.
LEMMA PropRowsWrittenIs ==
  ASSUME NEW s, TxOK(s), NEW v \in Vertex, NEW P \in SUBSET Prop,
         NEW x \in {Row, Absent}
  PROVE  LET r == Written(s, PropRows(v, P), x)
         IN  /\ RowsOnly(s, r)
             /\ \A u \in Vertex \ {v} : SameVertex(s, r, u)
             /\ Sees(r, v, Read(s, <<"v", v>>), VisibleLabels(s, v),
                     IF x = Row THEN VisibleProps(s, v) \cup P
                                ELSE VisibleProps(s, v) \ P)
  <1> DEFINE K == PropRows(v, P)
             r == Written(s, K, x)
  <1>1. K \in SUBSET RowKeys /\ K \cap EdgeKeys = {}
    BY LabelAndPropKeys
  <1>2. RowsOnly(s, r)
    BY <1>1, WrittenRowsOnly
  <1>3. x # Unwritten /\ Row # Absent
    BY ValueAssumption
  <1>4. \A k \in Key : Read(r, k) = IF k \in K THEN x ELSE Read(s, k)
    BY <1>3, ReadWritten
  <1> HIDE DEF r
  <1>5. \A u \in Vertex : Read(r, <<"v", u>>) = Read(s, <<"v", u>>)
    BY <1>2, KeysNamed DEF RowsOnly, Read
  <1>6. \A u \in Vertex : VisibleLabels(r, u) = VisibleLabels(s, u)
    <2>1. \A u \in Vertex, l \in StoredLabel :
              Read(r, <<"vl", u, l>>) = Read(s, <<"vl", u, l>>)
      BY <1>4, LabelRowNames, PropRowNames
    <2>2. QED
      BY <2>1 DEF VisibleLabels, Visible
  <1>7. \A u \in Vertex, p \in Prop :
            Read(r, <<"vp", u, p>>) =
                IF u = v /\ p \in P THEN x ELSE Read(s, <<"vp", u, p>>)
    <2> TAKE u \in Vertex, p \in Prop
    <2>1. <<"vp", u, p>> \in Key /\ (<<"vp", u, p>> \in K <=> u = v /\ p \in P)
      BY PropRowNames
    <2> HIDE DEF K
    <2>2. QED
      BY <1>4, <2>1
  <1>8. \A u \in Vertex \ {v} : VisibleProps(r, u) = VisibleProps(s, u)
    BY <1>7 DEF VisibleProps, Visible
  <1> DEFINE N == IF x = Row THEN VisibleProps(s, v) \cup P
                             ELSE VisibleProps(s, v) \ P
  <1>9. VisibleProps(r, v) = N
    <2>1. CASE x = Row
      BY <1>3, <1>7, <2>1 DEF VisibleProps, Visible
    <2>2. CASE x = Absent
      BY <1>3, <1>7, <2>2 DEF VisibleProps, Visible
    <2>3. QED
      BY <2>1, <2>2
  <1> HIDE DEF N
  <1>10. /\ \A u \in Vertex \ {v} : SameVertex(s, r, u)
         /\ Sees(r, v, Read(s, <<"v", v>>), VisibleLabels(s, v), N)
    BY <1>2, <1>5, <1>6, <1>8, <1>9 DEF SameVertex, Sees, RowsOnly
  <1>11. QED
    BY <1>2, <1>10 DEF r, N

\* Two states with the same batch and cache see the same vertices.
LEMMA SameBatchVertex ==
  ASSUME NEW s, NEW r, r.batch = s.batch, r.cache = s.cache
  PROVE  \A v \in Vertex : SameVertex(s, r, v)
  <1>1. \A k : Read(r, k) = Read(s, k)
    BY DEF Read
  <1>2. \A v : VisibleLabels(r, v) = VisibleLabels(s, v) /\ VisibleProps(r, v) = VisibleProps(s, v)
    BY <1>1 DEF VisibleLabels, VisibleProps, Visible
  <1>3. QED
    BY <1>1, <1>2 DEF SameVertex, Sees

\* The properties of a vertex are replaced by p.
LEMMA PropsWrittenIs ==
  ASSUME NEW s, TxOK(s), NEW v \in Vertex, NEW p \in Prop \cup {Absent}
  PROVE  LET r == PropsWritten(s, v, p)
         IN  /\ RowsOnly(s, r)
             /\ \A u \in Vertex \ {v} : SameVertex(s, r, u)
             /\ Sees(r, v, Read(s, <<"v", v>>), VisibleLabels(s, v), {p} \ {Absent})
  <1> DEFINE q == Written(s, PropRows(v, VisibleProps(s, v)), Absent)
             r == Written(q, PropRows(v, {p} \ {Absent}), Row)
  <1>1. VisibleProps(s, v) \in SUBSET Prop /\ {p} \ {Absent} \in SUBSET Prop
    BY DEF VisibleProps
  <1>2. Row # Absent
    BY ValueAssumption
  <1>3. /\ RowsOnly(s, q)
        /\ \A u \in Vertex \ {v} : SameVertex(s, q, u)
        /\ Sees(q, v, Read(s, <<"v", v>>), VisibleLabels(s, v), {})
    <2>1. VisibleProps(s, v) \ VisibleProps(s, v) = {}
      OBVIOUS
    <2>2. QED
      BY <1>1, <1>2, <2>1, PropRowsWrittenIs
  <1>4. TxOK(q)
    BY <1>3 DEF RowsOnly
  <1> HIDE DEF q
  <1>5. /\ RowsOnly(q, r)
        /\ \A u \in Vertex \ {v} : SameVertex(q, r, u)
        /\ Sees(r, v, Read(q, <<"v", v>>), VisibleLabels(q, v),
                VisibleProps(q, v) \cup ({p} \ {Absent}))
    BY <1>1, <1>2, <1>4, PropRowsWrittenIs
  <1>6. PropsWritten(s, v, p) = r
    BY DEF PropsWritten, r, q
  <1> HIDE DEF r
  <1>7. Sees(r, v, Read(s, <<"v", v>>), VisibleLabels(s, v), {p} \ {Absent})
    BY <1>3, <1>5 DEF Sees
  <1>8. RowsOnly(s, r) /\ \A u \in Vertex \ {v} : SameVertex(s, r, u)
    BY <1>3, <1>5, RowsOnlyTrans, SameVertexTrans
  <1>9. QED
    BY <1>6, <1>7, <1>8

\* A record is stored and cached, and nothing else is touched.
LEMMA VertexStoredIs ==
  ASSUME NEW s, TxOK(s), NEW v \in Vertex, NEW c \in Content
  PROVE  LET r == VertexStored(s, v, c)
         IN  /\ TxOK(r) /\ r.base = s.base /\ r.delta = s.delta
             /\ \A k \in EdgeKeys \cup Stats : r.batch[k] = s.batch[k]
             /\ \A u \in Vertex \ {v} : SameVertex(s, r, u)
             /\ Sees(r, v, c, VisibleLabels(s, v), VisibleProps(s, v))
             /\ r.cache[v] = c
  <1> DEFINE w == Written(s, {<<"v", v>>}, c)
             r == VertexStored(s, v, c)
  <1>1. /\ TxOK(w)
        /\ w.batch = [k \in Key |-> IF k \in {<<"v", v>>} THEN c ELSE s.batch[k]]
        /\ w.base = s.base /\ w.delta = s.delta /\ w.cache = s.cache
    BY WrittenOK, WrittenIs, KeysNamed
  <1>2. c # Absent /\ c # Unwritten
    BY ValueAssumption
  <1> HIDE DEF w
  <1>3. r = [w EXCEPT !.cache = [w.cache EXCEPT ![v] = c]]
    BY DEF r, VertexStored, w
  <1>4. s.cache \in [Vertex -> Content \cup {Absent}]
    BY DEF TxOK
  <1>5. /\ TxOK(r) /\ r.base = s.base /\ r.delta = s.delta /\ r.batch = w.batch
        /\ r.cache = [s.cache EXCEPT ![v] = c]
    BY <1>1, <1>3 DEF TxOK
  <1> HIDE DEF r
  <1>6. \A k \in Key : k # <<"v", v>> => r.batch[k] = s.batch[k]
    BY <1>1, <1>5
  <1>7. r.batch[<<"v", v>>] = c
    BY <1>1, <1>5, KeysNamed, KeysDiffer
  <1>8. \A k \in RowKeys \cup Stats : r.batch[k] = s.batch[k]
    BY <1>6, KeysDiffer, KeysNamed
  <1>9. \A u \in Vertex \ {v} : r.batch[<<"v", u>>] = s.batch[<<"v", u>>]
    BY <1>6, KeysDiffer, KeysNamed
  <1>10. \A u \in Vertex : VisibleLabels(r, u) = VisibleLabels(s, u)
    <2>1. \A u \in Vertex, l \in StoredLabel : <<"vl", u, l>> \in RowKeys
      BY DEF RowKeys, LabelKeys
    <2>2. QED
      BY <1>8, <2>1 DEF VisibleLabels, Visible, Read
  <1>11. \A u \in Vertex : VisibleProps(r, u) = VisibleProps(s, u)
    <2>1. \A u \in Vertex, p \in Prop : <<"vp", u, p>> \in RowKeys
      BY DEF RowKeys, PropKeys
    <2>2. QED
      BY <1>8, <2>1 DEF VisibleProps, Visible, Read
  <1>12. Read(r, <<"v", v>>) = c
    BY <1>2, <1>7 DEF Read
  <1>13. \A u \in Vertex \ {v} : Read(r, <<"v", u>>) = Read(s, <<"v", u>>)
    BY <1>9 DEF Read
  <1>14. /\ \A u \in Vertex \ {v} : SameVertex(s, r, u)
         /\ Sees(r, v, c, VisibleLabels(s, v), VisibleProps(s, v))
         /\ r.cache[v] = c
    BY <1>4, <1>5, <1>10, <1>11, <1>12, <1>13 DEF SameVertex, Sees
  <1>15. \A k \in EdgeKeys \cup Stats : r.batch[k] = s.batch[k]
    BY <1>8, LabelAndPropKeys
  <1>16. QED
    BY <1>5, <1>14, <1>15 DEF r

\* Loading a vertex that is there caches its record.
LEMMA VertexGotIs ==
  ASSUME NEW s, TxOK(s), ValuesOK(db, {Absent}), NEW v \in Vertex,
         VertexOK(s, v), VertexFound(s, v)
  PROVE  LET r == VertexGot(s, v)
         IN  /\ TxOK(r) /\ r.active = s.active
             /\ r.batch = s.batch /\ r.base = s.base /\ r.delta = s.delta
             /\ r.cache[v] = Read(s, <<"v", v>>) /\ r.cache[v] \in Content
             /\ VertexOK(r, v)
             /\ \A u \in Vertex \ {v} : SameVertex(s, r, u)
  <1> DEFINE r == VertexGot(s, v)
             c == Read(s, <<"v", v>>)
  <1>1. s.cache \in [Vertex -> Content \cup {Absent}]
    BY DEF TxOK
  <1>2. c \in Content
    <2>1. c \in Content \cup {Absent}
      BY ReadOK, KeysNamed
    <2>2. c # Absent
      BY DEF VertexFound, VertexOK, Visible
    <2>3. QED
      BY <2>1, <2>2
  <1>3. CASE s.cache[v] # Absent
    <2>1. r = s
      BY <1>3 DEF VertexGot
    <2>2. s.cache[v] = c
      BY <1>3 DEF VertexOK
    <2>3. QED
      BY <1>2, <2>1, <2>2 DEF SameVertex, Sees
  <1>4. CASE s.cache[v] = Absent
    <2>1. LoadVertex(s, v) = c
      <3>1. c # Absent
        BY <1>2, ValueAssumption
      <3>2. /\ VisibleLabels(s, v) \ {Unlabeled} = c.labels
            /\ VisibleProps(s, v) = {c.prop} \ {Absent}
        BY <3>1 DEF VertexOK, Matching
      <3>3. (IF VisibleProps(s, v) = {} THEN Absent
             ELSE CHOOSE p \in VisibleProps(s, v) : TRUE) = c.prop
        BY <3>2
      <3>4. LoadVertex(s, v) = [labels |-> c.labels, prop |-> c.prop]
        BY <3>2, <3>3 DEF LoadVertex
      <3> HIDE DEF c
      <3>5. QED
        BY <1>2, <3>4 DEF Content
    <2>2. r = [s EXCEPT !.cache = [s.cache EXCEPT ![v] = c]]
      BY <1>4, <2>1 DEF VertexGot
    <2> HIDE DEF r
    <2>3. /\ TxOK(r) /\ r.active = s.active
          /\ r.batch = s.batch /\ r.base = s.base /\ r.delta = s.delta
          /\ r.cache = [s.cache EXCEPT ![v] = c]
      BY <1>1, <1>2, <2>2 DEF TxOK
    <2>4. \A k : Read(r, k) = Read(s, k)
      BY <2>3 DEF Read
    <2>5. \A u : /\ VisibleLabels(r, u) = VisibleLabels(s, u)
                 /\ VisibleProps(r, u) = VisibleProps(s, u)
      BY <2>4 DEF VisibleLabels, VisibleProps, Visible
    <2>6. r.cache[v] = c /\ \A u \in Vertex \ {v} : r.cache[u] = s.cache[u]
      BY <1>1, <2>3
    <2>7. VertexOK(r, v) /\ \A u \in Vertex \ {v} : SameVertex(s, r, u)
      BY <2>4, <2>5, <2>6 DEF VertexOK, SameVertex, Sees
    <2>8. QED
      BY <1>2, <2>3, <2>6, <2>7 DEF r
  <1>5. QED
    BY <1>3, <1>4

-----------------------------------------------------------------------------
(* Counting.                                                               *)

\* The counters with a property: all that are pending but the sources.
Counters == {VertexTotal, EdgeTotal} \cup LabelStats \cup TypeStats

\* The counter k stands at n, with what the transaction has pending; what
\* it has read of the counter is what the view still holds.
Stands(s, k, n) ==
    /\ s.base[k] # Absent => s.base[k] = Read(s, k)
    /\ s.base[k] = Absent /\ Visible(s, k) => s.delta[k] = 0
    /\ (IF Visible(s, k) THEN Read(s, k) ELSE 0) + s.delta[k] = n

\* From s to r every counter moves by d.
Moves(s, r, d) ==
    \A k \in Counters, n \in Int : Stands(s, k, n) => Stands(r, k, n + d[k])

\* From s to r no counter moves.
Still(s, r) == \A k \in Counters, n \in Int : Stands(s, k, n) => Stands(r, k, n)

LEMMA CountersPending ==
    /\ Counters \subseteq PendingStats
    /\ Counters \cap SourceStats = {}
    /\ Counters \subseteq Stats
    /\ VertexTotal \in Counters /\ EdgeTotal \in Counters
    /\ \A k \in Kind : <<"edge_type", k>> \in Counters
    /\ \A l \in Label : <<"label", l>> \in Counters
  BY DEF Counters, Stats, PendingStats, SourceStats, LabelStats, TypeStats,
         VertexTotal, EdgeTotal, StoredLabel

\* What leaves increments, bases and values of the counters alone.
LEMMA SameStill ==
  ASSUME NEW s, NEW r, r.base = s.base, r.delta = s.delta,
         \A k \in Counters : r.batch[k] = s.batch[k]
  PROVE  Still(s, r)
  BY DEF Still, Stands, Visible, Read

LEMMA MovesStill ==
  ASSUME NEW s, NEW q, NEW r, NEW d, Moves(s, q, d), Still(q, r),
         \A k \in Counters : d[k] \in Int
  PROVE  Moves(s, r, d)
  BY DEF Moves, Still

LEMMA CountersReadStill ==
  ASSUME NEW s, TxOK(s), ValuesOK(db, {Absent}), NEW K
  PROVE  Still(s, CountersRead(s, K))
  <1> DEFINE r == CountersRead(s, K)
  <1>1. r.batch = s.batch /\ r.delta = s.delta
    BY CountersReadIs
  <1>2. \A k \in Stats : r.base[k] = IF k \in K /\ s.base[k] = Absent
                                     THEN Read(s, k) ELSE s.base[k]
    BY DEF CountersRead, TxOK
  <1> HIDE DEF r
  <1>3. \A k : Read(r, k) = Read(s, k)
    BY <1>1 DEF Read
  <1>4. Still(s, r)
    BY <1>1, <1>2, <1>3, CountersPending DEF Still, Stands, Visible
  <1>5. QED
    BY <1>4 DEF r

LEMMA AddedMoves ==
  ASSUME NEW s, TxOK(s), ValuesOK(db, {Absent}),
         NEW d, \A k \in PendingStats : d[k] \in Int
  PROVE  Moves(s, Added(s, d), d)
  <1> DEFINE K == {k \in PendingStats : d[k] # 0}
             q == CountersRead(s, K)
             f == [k \in Stats |-> IF k \in PendingStats THEN s.delta[k] + d[k]
                                                          ELSE s.delta[k]]
             r == Added(s, d)
  <1>1. TxOK(q) /\ q.batch = s.batch /\ q.delta = s.delta
    BY CountersReadIs
  <1>2. \A k \in Stats : q.base[k] = IF k \in K /\ s.base[k] = Absent
                                     THEN Read(s, k) ELSE s.base[k]
    BY DEF CountersRead, TxOK
  <1>3. r = [q EXCEPT !.delta = f]
    BY DEF Added
  <1> HIDE DEF q, r
  <1>4. r.batch = s.batch /\ r.base = q.base /\ r.delta = f
    BY <1>1, <1>3 DEF TxOK
  <1>5. \A k : Read(r, k) = Read(s, k)
    BY <1>4 DEF Read
  <1>6. ASSUME NEW k \in Counters, NEW n \in Int, Stands(s, k, n)
        PROVE  Stands(r, k, n + d[k])
    <2>1. /\ k \in Stats /\ k \in PendingStats /\ d[k] \in Int /\ k \in Key
      BY CountersPending, KeysDiffer
    <2>2. /\ r.delta[k] = s.delta[k] + d[k] /\ s.delta[k] \in Int
          /\ r.base[k] = IF d[k] # 0 /\ s.base[k] = Absent
                         THEN Read(s, k) ELSE s.base[k]
      BY <1>2, <1>4, <2>1 DEF TxOK
    <2>3. Read(s, k) \in Nat \cup {Absent}
      BY <2>1, ReadOK
    <2> DEFINE x == IF Read(s, k) # Absent THEN Read(s, k) ELSE 0
    <2>4. /\ s.base[k] # Absent => s.base[k] = Read(s, k)
          /\ s.base[k] = Absent /\ Read(s, k) # Absent => s.delta[k] = 0
          /\ x + s.delta[k] = n
      BY <1>6 DEF Stands, Visible
    <2>5. x \in Int
      BY <2>3
    <2> HIDE DEF x
    <2>6. x + r.delta[k] = n + d[k]
      BY <2>1, <2>2, <2>4, <2>5
    <2>7. /\ r.base[k] # Absent => r.base[k] = Read(s, k)
          /\ r.base[k] = Absent /\ Read(s, k) # Absent => r.delta[k] = 0
      BY <2>1, <2>2, <2>4
    <2>8. QED
      BY <1>5, <2>6, <2>7 DEF Stands, Visible, x
  <1>7. Moves(s, r, d)
    BY <1>6 DEF Moves
  <1>8. QED
    BY <1>7 DEF r

\* Counting edges moves the counters by the edges counted in them.
LEMMA TalliedMoves ==
  ASSUME NEW s, TxOK(s), ValuesOK(db, {Absent}),
         NEW E \in SUBSET Edge, NEW n \in {1, -1}
  PROVE  Moves(s, Tallied(s, E, n),
               [k \in Stats |-> n * Cardinality({e \in E : k \in StatsOf(e)})])
  <1> DEFINE d    == [k \in Stats |-> n * Cardinality({e \in E : k \in StatsOf(e)})]
             was  == [k \in DirectStats |-> CounterValue(s, k)]
             next == [k \in DirectStats |-> was[k] + d[k]]
             deg(k, v) == <<"edge_type_src_degree", k[2], v>>
             up(k)   == {v \in Vertex : was[deg(k, v)] <= 0 /\ next[deg(k, v)] > 0}
             down(k) == {v \in Vertex : was[deg(k, v)] > 0 /\ next[deg(k, v)] <= 0}
             D    == [k \in Stats |-> IF k \in SourceStats
                         THEN Cardinality(up(k)) - Cardinality(down(k)) ELSE d[k]]
             r    == Added(s, D)
             q    == CountersRead(r, {k \in DirectStats : d[k] # 0})
             kept == {k \in DirectStats :
                         \/ d[k] = 0
                         \/ k \in DegreeStats /\ was[k] <= 0 /\ next[k] <= 0}
             m    == [k \in Key |->
                        IF k \notin DirectStats \/ k \in kept THEN s.batch[k]
                        ELSE IF next[k] <= 0 THEN Absent ELSE next[k]]
             w    == Tallied(s, E, n)
  <1>1. \A S \in SUBSET Edge : Cardinality(S) \in Nat
    BY FS_Subset, FS_CardinalityType, BoundAssumption
  <1>2. \A S \in SUBSET Vertex : Cardinality(S) \in Nat
    BY FS_Subset, FS_CardinalityType, BoundAssumption
  <1>3. \A k \in Stats : d[k] \in Int
    <2> TAKE k \in Stats
    <2>1. {e \in E : k \in StatsOf(e)} \in SUBSET Edge
      OBVIOUS
    <2>2. Cardinality({e \in E : k \in StatsOf(e)}) \in Nat
      BY <1>1, <2>1
    <2>3. QED
      BY <2>2
  <1>4. \A k : Cardinality(up(k)) \in Int /\ Cardinality(down(k)) \in Int
    <2> TAKE k
    <2>1. up(k) \in SUBSET Vertex /\ down(k) \in SUBSET Vertex
      OBVIOUS
    <2> HIDE DEF up, down
    <2>2. Cardinality(up(k)) \in Nat /\ Cardinality(down(k)) \in Nat
      BY <1>2, <2>1
    <2>3. QED
      BY <2>2
  <1>5. \A k \in PendingStats : D[k] \in Int
    <2> HIDE DEF up, down, d
    <2>1. QED
      BY <1>3, <1>4, StatsDiffer
  <1>6. \A k \in Counters : D[k] = d[k]
    <2> HIDE DEF up, down, d
    <2>1. QED
      BY CountersPending
  <1>7. TxOK(r) /\ r.batch = s.batch /\ Moves(s, r, D)
    BY <1>5, AddedIs, AddedMoves
  <1>8. Moves(s, r, d)
    <2> HIDE DEF D, d, r
    <2>1. QED
      BY <1>6, <1>7 DEF Moves
  <1> HIDE DEF r
  <1>9. TxOK(q) /\ q.batch = r.batch /\ Still(r, q)
    BY <1>7, CountersReadIs, CountersReadStill
  <1>10. w = [q EXCEPT !.batch = m]
    BY DEF Tallied, w, q, r
  <1>11. \A k \in Counters : k \in Key /\ k \notin DirectStats
    BY CountersPending, StatsDiffer, KeysDiffer
  <1>12. \A k \in Counters : m[k] = s.batch[k]
    BY <1>11
  <1> HIDE DEF m, q, w
  <1>13. w.base = q.base /\ w.delta = q.delta /\ w.batch = m
    BY <1>9, <1>10 DEF TxOK
  <1>14. Still(q, w)
    BY <1>7, <1>9, <1>12, <1>13, SameStill
  <1>15. \A k \in Counters : d[k] \in Int
    BY <1>3, CountersPending
  <1> HIDE DEF d
  <1>16. Moves(s, w, d)
    BY <1>8, <1>9, <1>14, <1>15, MovesStill
  <1>17. QED
    BY <1>16 DEF w, d

-----------------------------------------------------------------------------
(* Puts of vertices.                                                       *)

\* The vertices of a label and the edges of a type that are seen.
With(s, l)   == {v \in VisibleVertices(s) : l \in Read(s, <<"v", v>>).labels}
OfType(s, k) == {e \in VisibleEdges(s) : Type[e] = k}

\* The counters stand at what is seen.
Exact(s) ==
    /\ Stands(s, VertexTotal, Cardinality(VisibleVertices(s)))
    /\ Stands(s, EdgeTotal, Cardinality(VisibleEdges(s)))
    /\ \A k \in Kind : Stands(s, <<"edge_type", k>>, Cardinality(OfType(s, k)))
    /\ \A l \in Label : Stands(s, <<"label", l>>, Cardinality(With(s, l)))

\* What is seen and counted is finite.
LEMMA SeenFinite ==
  ASSUME NEW s
  PROVE  /\ IsFiniteSet(VisibleVertices(s)) /\ Cardinality(VisibleVertices(s)) \in Nat
         /\ IsFiniteSet(VisibleEdges(s)) /\ Cardinality(VisibleEdges(s)) \in Nat
         /\ \A l : IsFiniteSet(With(s, l)) /\ Cardinality(With(s, l)) \in Nat
         /\ \A k : IsFiniteSet(OfType(s, k)) /\ Cardinality(OfType(s, k)) \in Nat
  <1>1. \A S \in SUBSET Vertex : IsFiniteSet(S) /\ Cardinality(S) \in Nat
    BY FS_Subset, FS_CardinalityType, BoundAssumption
  <1>2. \A S \in SUBSET Edge : IsFiniteSet(S) /\ Cardinality(S) \in Nat
    BY FS_Subset, FS_CardinalityType, BoundAssumption
  <1>3. /\ VisibleVertices(s) \in SUBSET Vertex /\ VisibleEdges(s) \in SUBSET Edge
        /\ \A l : With(s, l) \in SUBSET Vertex
        /\ \A k : OfType(s, k) \in SUBSET Edge
    BY DEF VisibleVertices, VisibleEdges, With, OfType
  <1>4. QED
    BY <1>1, <1>2, <1>3

\* A vertex gets the content c, and the counters move by what that changes.
LEMMA PutExact ==
  ASSUME NEW s, NEW r, Exact(s), NEW v \in Vertex, NEW c \in Content,
         Read(r, <<"v", v>>) = c,
         \A u \in Vertex \ {v} : Read(r, <<"v", u>>) = Read(s, <<"v", u>>),
         VisibleEdges(r) = VisibleEdges(s),
         NEW d, Moves(s, r, d),
         d[VertexTotal] = IF v \in VisibleVertices(s) THEN 0 ELSE 1,
         d[EdgeTotal] = 0,
         \A k \in Kind : d[<<"edge_type", k>>] = 0,
         \A l \in Label : d[<<"label", l>>] =
             (IF l \in c.labels THEN 1 ELSE 0) - (IF v \in With(s, l) THEN 1 ELSE 0)
  PROVE  Exact(r)
  <1>1. c # Absent
    BY ValueAssumption
  <1>2. VisibleVertices(r) = VisibleVertices(s) \cup {v}
    BY <1>1 DEF VisibleVertices, Visible
  <1>3. Cardinality(VisibleVertices(r)) =
            Cardinality(VisibleVertices(s)) + d[VertexTotal]
    <2>1. Cardinality(VisibleVertices(s) \cup {v}) =
              IF v \in VisibleVertices(s) THEN Cardinality(VisibleVertices(s))
                                          ELSE Cardinality(VisibleVertices(s)) + 1
      BY SeenFinite, FS_AddElement
    <2>2. Cardinality(VisibleVertices(s)) \in Nat
      BY SeenFinite
    <2>3. QED
      BY <1>2, <2>1, <2>2
  <1>4. ASSUME NEW l \in Label
        PROVE  Cardinality(With(r, l)) = Cardinality(With(s, l)) + d[<<"label", l>>]
    <2>1. CASE l \in c.labels
      <3>1. With(r, l) = With(s, l) \cup {v}
        BY <1>2, <2>1 DEF With, VisibleVertices
      <3>2. Cardinality(With(s, l) \cup {v}) =
                IF v \in With(s, l) THEN Cardinality(With(s, l))
                                    ELSE Cardinality(With(s, l)) + 1
        BY SeenFinite, FS_AddElement
      <3>3. Cardinality(With(s, l)) \in Nat
        BY SeenFinite
      <3>4. QED
        BY <2>1, <3>1, <3>2, <3>3
    <2>2. CASE l \notin c.labels
      <3>1. With(r, l) = With(s, l) \ {v}
        BY <1>2, <2>2 DEF With, VisibleVertices
      <3>2. Cardinality(With(s, l) \ {v}) =
                IF v \in With(s, l) THEN Cardinality(With(s, l)) - 1
                                    ELSE Cardinality(With(s, l))
        BY SeenFinite, FS_RemoveElement
      <3>3. Cardinality(With(s, l)) \in Nat
        BY SeenFinite
      <3>4. QED
        BY <2>2, <3>1, <3>2, <3>3
    <2>3. QED
      BY <2>1, <2>2
  <1>5. \A k : OfType(r, k) = OfType(s, k)
    BY DEF OfType
  <1>6. Stands(r, VertexTotal, Cardinality(VisibleVertices(r)))
    BY <1>3, CountersPending, SeenFinite DEF Exact, Moves
  <1>7. Stands(r, EdgeTotal, Cardinality(VisibleEdges(r)))
    <2>1. Stands(r, EdgeTotal, Cardinality(VisibleEdges(s)) + d[EdgeTotal])
      BY CountersPending, SeenFinite DEF Exact, Moves
    <2>2. QED
      BY <2>1, SeenFinite
  <1>8. ASSUME NEW k \in Kind
        PROVE  Stands(r, <<"edge_type", k>>, Cardinality(OfType(r, k)))
    <2>1. Stands(r, <<"edge_type", k>>, Cardinality(OfType(s, k)) + d[<<"edge_type", k>>])
      BY CountersPending, SeenFinite DEF Exact, Moves
    <2>2. QED
      BY <1>5, <2>1, SeenFinite
  <1>9. ASSUME NEW l \in Label
        PROVE  Stands(r, <<"label", l>>, Cardinality(With(r, l)))
    <2>1. Stands(r, <<"label", l>>, Cardinality(With(s, l)) + d[<<"label", l>>])
      BY CountersPending, SeenFinite DEF Exact, Moves
    <2>2. QED
      BY <1>4, <2>1
  <1>10. QED
    BY <1>6, <1>7, <1>8, <1>9 DEF Exact

\* What only reads counters keeps them exact.
LEMMA SameBatchExact ==
  ASSUME NEW s, NEW r, r.batch = s.batch, Still(s, r), Exact(s)
  PROVE  Exact(r)
  <1>1. \A k : Read(r, k) = Read(s, k)
    BY DEF Read
  <1>2. /\ VisibleVertices(r) = VisibleVertices(s)
        /\ VisibleEdges(r) = VisibleEdges(s)
    BY <1>1 DEF VisibleVertices, VisibleEdges, Visible
  <1>3. /\ \A l : With(r, l) = With(s, l)
        /\ \A k : OfType(r, k) = OfType(s, k)
    BY <1>1, <1>2 DEF With, OfType
  <1>4. QED
    BY <1>2, <1>3, SeenFinite, CountersPending DEF Exact, Still

\* The rows of two kinds written at once are written one after the other.
LEMMA WrittenTwice ==
  ASSUME NEW s, TxOK(s), NEW J, NEW K, NEW x
  PROVE  Written(s, J \cup K, x) = Written(Written(s, J, x), K, x)
  BY DEF Written, TxOK

\* The counters an event on a vertex names.
LEMMA CounterNames ==
    /\ \A L : VertexTotal \notin {"label"} \X L
    /\ \A L : EdgeTotal \notin {"label"} \X L
    /\ EdgeTotal # VertexTotal
    /\ \A L, k : <<"edge_type", k>> \notin {"label"} \X L
    /\ \A k : <<"edge_type", k>> # VertexTotal /\ <<"edge_type", k>> # EdgeTotal
    /\ \A L, l : <<"label", l>> \in {"label"} \X L <=> l \in L
    /\ \A l : <<"label", l>> # VertexTotal /\ <<"label", l>> # EdgeTotal
  BY DEF VertexTotal, EdgeTotal

\* N is what a put of c leaves of the labels of a vertex that was old, if it takes
\* prev \ next away and adds next \ prev: the labels of c, and the bucket of the
\* unlabeled only if there are none.
Replaced(c, old, prev, next, N) ==
    /\ N \ {Unlabeled} = c.labels
    /\ Unlabeled \in N => c.labels = {}
    /\ \A l \in Label : /\ l \in next <=> l \in c.labels
                        /\ l \in prev <=> old # Absent /\ l \in old.labels

\* A vertex whose rows are L before and N after a put of the labels of c.
LEMMA LabelsReplaced ==
  ASSUME NEW c \in Content, NEW old \in Content \cup {Absent}, NEW L \in SUBSET StoredLabel,
         NEW P, Matching(old, L, P), NEW prev, NEW next, NEW N,
         prev = IF old # Absent THEN Norm(L \ {Unlabeled}) ELSE {Unlabeled},
         next = Norm(c.labels),
         N = (L \ (prev \ next)) \cup (next \ prev)
  PROVE  Replaced(c, old, prev, next, N)
  <1>1. c.labels \in SUBSET Label /\ (old # Absent => old.labels \in SUBSET Label)
    BY DEF Content
  <1>2. Unlabeled \notin c.labels /\ \A l \in Label : l # Unlabeled
    BY <1>1, ValueAssumption
  <1>3. next = IF c.labels = {} THEN {Unlabeled} ELSE c.labels
    BY DEF Norm
  <1>4. CASE old = Absent
    <2>1. L = {} /\ prev = {Unlabeled}
      BY <1>4 DEF Matching
    <2>2. N = next \ {Unlabeled}
      BY <2>1
    <2>3. QED
      BY <1>1, <1>2, <1>3, <1>4, <2>1, <2>2 DEF Replaced
  <1>5. CASE old # Absent /\ old.labels = {}
    <2>1. L \subseteq {Unlabeled} /\ L \ {Unlabeled} = {}
      BY <1>5 DEF Matching
    <2>2. prev = {Unlabeled}
      BY <1>5, <2>1 DEF Norm
    <2>3. N \ {Unlabeled} = next \ {Unlabeled}
      BY <2>1, <2>2
    <2>4. Unlabeled \in N => Unlabeled \in next
      BY <2>1, <2>2
    <2>5. N \ {Unlabeled} = c.labels /\ (Unlabeled \in N => c.labels = {})
      BY <1>2, <1>3, <2>3, <2>4
    <2>6. \A l \in Label : /\ l \in next <=> l \in c.labels
                           /\ l \in prev <=> old # Absent /\ l \in old.labels
      BY <1>2, <1>3, <1>5, <2>2
    <2>7. QED
      BY <2>5, <2>6 DEF Replaced
  <1>6. CASE old # Absent /\ old.labels # {}
    <2>1. L = old.labels /\ L \ {Unlabeled} = old.labels
      BY <1>6 DEF Matching
    <2>2. prev = L
      BY <1>6, <2>1 DEF Norm
    <2>3. N = next
      BY <2>2
    <2>4. N \ {Unlabeled} = c.labels /\ (Unlabeled \in N => c.labels = {})
      BY <1>2, <1>3, <2>3
    <2>5. \A l \in Label : /\ l \in next <=> l \in c.labels
                           /\ l \in prev <=> old # Absent /\ l \in old.labels
      BY <1>2, <1>3, <1>6, <2>1, <2>2
    <2>6. QED
      BY <2>4, <2>5 DEF Replaced
  <1>7. QED
    BY <1>4, <1>5, <1>6

\* What a put of the content c at v makes of s.
PutTo(s, r, v, c) ==
    /\ VertexOK(r, v) /\ Read(r, <<"v", v>>) = c
    /\ \A u \in Vertex \ {v} : SameVertex(s, r, u)
    /\ VisibleEdges(r) = VisibleEdges(s)
    /\ Exact(r)

\* Edges are seen by their records, which no put of a vertex writes.
LEMMA SameEdges ==
  ASSUME NEW s, NEW r, \A k \in EdgeKeys : r.batch[k] = s.batch[k]
  PROVE  VisibleEdges(r) = VisibleEdges(s)
  <1>1. \A e \in Edge : <<"e", e>> \in EdgeKeys
    BY DEF EdgeKeys, EdgePrefix
  <1>2. QED
    BY <1>1 DEF VisibleEdges, Visible, Read

LEMMA RowsOnlyStill ==
  ASSUME NEW s, NEW r, RowsOnly(s, r)
  PROVE  Still(s, r)
  BY SameStill, CountersPending DEF RowsOnly

\* The last step of a put: rows and counters are as c has them, and the
\* record is stored.
LEMMA StoredIsPut ==
  ASSUME NEW s, Exact(s), NEW q, TxOK(q), NEW v \in Vertex, NEW c \in Content,
         NEW N, Sees(q, v, Read(s, <<"v", v>>), N, {c.prop} \ {Absent}),
         N \ {Unlabeled} = c.labels, Unlabeled \in N => c.labels = {},
         \A u \in Vertex \ {v} : SameVertex(s, q, u),
         \A k \in EdgeKeys : q.batch[k] = s.batch[k],
         NEW d, Moves(s, q, d), \A k \in Counters : d[k] \in Int,
         d[VertexTotal] = IF Visible(s, <<"v", v>>) THEN 0 ELSE 1,
         d[EdgeTotal] = 0,
         \A k \in Kind : d[<<"edge_type", k>>] = 0,
         \A l \in Label : d[<<"label", l>>] =
             (IF l \in c.labels THEN 1 ELSE 0) - (IF v \in With(s, l) THEN 1 ELSE 0)
  PROVE  PutTo(s, VertexStored(q, v, c), v, c)
  <1> DEFINE r == VertexStored(q, v, c)
  <1>1. /\ TxOK(r) /\ r.base = q.base /\ r.delta = q.delta
        /\ \A k \in EdgeKeys \cup Stats : r.batch[k] = q.batch[k]
        /\ \A u \in Vertex \ {v} : SameVertex(q, r, u)
        /\ Sees(r, v, c, VisibleLabels(q, v), VisibleProps(q, v))
        /\ r.cache[v] = c
    BY VertexStoredIs
  <1> HIDE DEF r
  <1>2. \A u \in Vertex \ {v} : SameVertex(s, r, u)
    BY <1>1, SameVertexTrans
  <1>3. Moves(s, r, d)
    <2>1. Still(q, r)
      BY <1>1, SameStill, CountersPending
    <2>2. QED
      BY <2>1, MovesStill
  <1>4. VisibleEdges(r) = VisibleEdges(s)
    BY <1>1, SameEdges
  <1>5. VertexOK(r, v) /\ Read(r, <<"v", v>>) = c
    BY <1>1, ValueAssumption DEF VertexOK, Sees, Matching
  <1>6. v \in VisibleVertices(s) <=> Visible(s, <<"v", v>>)
    BY DEF VisibleVertices
  <1>7. Exact(r)
    <2>1. \A u \in Vertex \ {v} : Read(r, <<"v", u>>) = Read(s, <<"v", u>>)
      BY <1>2 DEF SameVertex, Sees
    <2>2. QED
      BY <1>3, <1>4, <1>5, <1>6, <2>1, PutExact
  <1>8. PutTo(s, r, v, c)
    BY <1>2, <1>4, <1>5, <1>7 DEF PutTo
  <1>9. QED
    BY <1>8 DEF r

\* putVertexesByMeta leaves the vertex with the content given.
LEMMA VertexPutIs ==
  ASSUME NEW s, TxOK(s), ValuesOK(db, {Absent}), NEW v \in Vertex, NEW c \in Content,
         VertexOK(s, v), Exact(s)
  PROVE  PutTo(s, VertexPut(s, v, c), v, c)
  <1> DEFINE exists == Visible(s, <<"v", v>>)
             old    == Read(s, <<"v", v>>)
             L      == VisibleLabels(s, v)
             P      == VisibleProps(s, v)
             prev   == IF exists THEN Norm(VisibleLabels(s, v) \ {Unlabeled})
                                 ELSE {Unlabeled}
             next   == Norm(c.labels)
             d      == [k \in Stats |->
                         IF k = VertexTotal THEN IF exists THEN 0 ELSE 1
                         ELSE IF k \in {"label"} \X (next \ prev) THEN 1
                         ELSE IF k \in {"label"} \X (prev \ next) THEN -1
                         ELSE 0]
             N      == (L \ (prev \ next)) \cup (next \ prev)
             r0     == Added(s, d)
             r1     == Written(r0, LabelRows(v, prev \ next), Absent)
             r2     == Written(r1, LabelRows(v, next \ prev), Row)
             r3     == PropsWritten(r2, v, c.prop)
             r4     == Written(r2, PropRows(v, {c.prop} \ {Absent}), Row)
             q      == IF exists THEN r3 ELSE r4
  <1>1. /\ old \in Content \cup {Absent} /\ L \in SUBSET StoredLabel
        /\ Matching(old, L, P) /\ (exists <=> old # Absent)
    BY ReadOK, KeysNamed DEF VisibleLabels, VertexOK, Visible
  <1>2. /\ N \ {Unlabeled} = c.labels
        /\ Unlabeled \in N => c.labels = {}
        /\ \A l \in Label : /\ l \in next <=> l \in c.labels
                            /\ l \in prev <=> old # Absent /\ l \in old.labels
    <2> HIDE DEF old, L, P
    <2>1. prev = IF old # Absent THEN Norm(L \ {Unlabeled}) ELSE {Unlabeled}
      BY <1>1 DEF L
    <2>2. next = Norm(c.labels) /\ N = (L \ (prev \ next)) \cup (next \ prev)
      OBVIOUS
    <2> HIDE DEF prev, next, N
    <2>3. Replaced(c, old, prev, next, N)
      BY <1>1, <2>1, <2>2, LabelsReplaced
    <2>4. QED
      BY <2>3 DEF Replaced
  <1>3. prev \in SUBSET StoredLabel /\ next \in SUBSET StoredLabel
    <2>1. VisibleLabels(s, v) \ {Unlabeled} \in SUBSET StoredLabel
      BY DEF VisibleLabels
    <2>2. QED
      BY <2>1, NormOK DEF StoredLabel
  <1>4. c.prop \in Prop \cup {Absent} /\ {c.prop} \ {Absent} \in SUBSET Prop
    BY DEF Content
  <1>5. (prev \ next) \in SUBSET StoredLabel /\ (next \ prev) \in SUBSET StoredLabel
    BY <1>3
  <1>6. \A k \in Stats : d[k] \in Int
    OBVIOUS
  <1>7. /\ d[VertexTotal] = IF exists THEN 0 ELSE 1
        /\ d[EdgeTotal] = 0
        /\ \A k \in Kind : d[<<"edge_type", k>>] = 0
    <2> HIDE DEF exists, prev, next
    <2>1. QED
      BY CounterNames, CountersPending
  <1>8. \A l \in Label : d[<<"label", l>>] =
             (IF l \in c.labels THEN 1 ELSE 0) - (IF v \in With(s, l) THEN 1 ELSE 0)
    <2> TAKE l \in Label
    <2>1. d[<<"label", l>>] = IF l \in next \ prev THEN 1
                              ELSE IF l \in prev \ next THEN -1 ELSE 0
      <3> HIDE DEF exists, prev, next
      <3>1. QED
        BY CounterNames, CountersPending
    <2>2. v \in With(s, l) <=> old # Absent /\ l \in old.labels
      BY DEF With, VisibleVertices, Visible
    <2> HIDE DEF d, prev, next, old
    <2>3. QED
      BY <1>2, <2>1, <2>2
  <1> HIDE DEF d, N, prev, next
  <1>9. /\ TxOK(r0) /\ r0.batch = s.batch /\ r0.cache = s.cache
        /\ Moves(s, r0, d)
    BY <1>6, StatsDiffer, AddedIs, AddedMoves
  <1>10. \A u \in Vertex : SameVertex(s, r0, u)
    BY <1>9, SameBatchVertex
  <1>11. Sees(r0, v, old, L, P)
    BY <1>10 DEF SameVertex
  <1> HIDE DEF old, L, P, r0
  <1>12. /\ RowsOnly(r0, r1)
         /\ \A u \in Vertex \ {v} : SameVertex(r0, r1, u)
         /\ Sees(r1, v, old, L \ (prev \ next), P)
    <2>1. Row # Absent
      BY ValueAssumption
    <2>2. /\ RowsOnly(r0, r1)
          /\ \A u \in Vertex \ {v} : SameVertex(r0, r1, u)
          /\ Sees(r1, v, Read(r0, <<"v", v>>), VisibleLabels(r0, v) \ (prev \ next),
                  VisibleProps(r0, v))
      BY <1>5, <1>9, <2>1, LabelsWrittenIs
    <2>3. QED
      BY <1>11, <2>2 DEF Sees
  <1>13. TxOK(r1)
    BY <1>12 DEF RowsOnly
  <1> HIDE DEF r1
  <1>14. /\ RowsOnly(r1, r2)
         /\ \A u \in Vertex \ {v} : SameVertex(r1, r2, u)
         /\ Sees(r2, v, old, N, P)
    <2>1. /\ RowsOnly(r1, r2)
          /\ \A u \in Vertex \ {v} : SameVertex(r1, r2, u)
          /\ Sees(r2, v, Read(r1, <<"v", v>>), VisibleLabels(r1, v) \cup (next \ prev),
                  VisibleProps(r1, v))
      BY <1>5, <1>13, LabelsWrittenIs
    <2>2. QED
      BY <1>12, <2>1 DEF Sees, N
  <1>15. TxOK(r2)
    BY <1>14 DEF RowsOnly
  <1> HIDE DEF r2
  <1>16. /\ RowsOnly(r2, r3)
         /\ \A u \in Vertex \ {v} : SameVertex(r2, r3, u)
         /\ Sees(r3, v, old, N, {c.prop} \ {Absent})
    <2>1. /\ RowsOnly(r2, r3)
          /\ \A u \in Vertex \ {v} : SameVertex(r2, r3, u)
          /\ Sees(r3, v, Read(r2, <<"v", v>>), VisibleLabels(r2, v), {c.prop} \ {Absent})
      BY <1>4, <1>15, PropsWrittenIs
    <2>2. QED
      BY <1>14, <2>1 DEF Sees
  <1>17. ~exists =>
         /\ RowsOnly(r2, r4)
         /\ \A u \in Vertex \ {v} : SameVertex(r2, r4, u)
         /\ Sees(r4, v, old, N, {c.prop} \ {Absent})
    <2>1. /\ RowsOnly(r2, r4)
          /\ \A u \in Vertex \ {v} : SameVertex(r2, r4, u)
          /\ Sees(r4, v, Read(r2, <<"v", v>>), VisibleLabels(r2, v),
                  VisibleProps(r2, v) \cup ({c.prop} \ {Absent}))
      BY <1>4, <1>15, PropRowsWrittenIs
    <2>2. ~exists => P = {}
      BY <1>1 DEF Matching
    <2>3. QED
      BY <1>14, <2>1, <2>2 DEF Sees
  <1> HIDE DEF r3, r4
  <1>18. /\ RowsOnly(r2, q)
         /\ \A u \in Vertex \ {v} : SameVertex(r2, q, u)
         /\ Sees(q, v, old, N, {c.prop} \ {Absent})
    BY <1>16, <1>17
  <1> HIDE DEF q
  <1>19. RowsOnly(r0, q) /\ \A u \in Vertex \ {v} : SameVertex(s, q, u)
    <2>1. RowsOnly(r0, r2) /\ \A u \in Vertex \ {v} : SameVertex(s, r2, u)
      BY <1>10, <1>12, <1>14, RowsOnlyTrans, SameVertexTrans
    <2>2. QED
      BY <1>18, <2>1, RowsOnlyTrans, SameVertexTrans
  <1>20. TxOK(q) /\ \A k \in EdgeKeys : q.batch[k] = s.batch[k]
    BY <1>9, <1>19 DEF RowsOnly
  <1>21. Moves(s, q, d)
    BY <1>6, <1>9, <1>19, RowsOnlyStill, MovesStill, CountersPending
  <1>22. \A k \in Counters : d[k] \in Int
    BY <1>6, CountersPending
  <1>23. Sees(q, v, Read(s, <<"v", v>>), N, {c.prop} \ {Absent})
    BY <1>18 DEF old
  <1> HIDE DEF exists
  <1>24. PutTo(s, VertexStored(q, v, c), v, c)
    BY <1>2, <1>7, <1>8, <1>19, <1>20, <1>21, <1>22, <1>23, StoredIsPut DEF exists
  <1>25. old = c => PutTo(s, s, v, c)
    <2>1. \A u : SameVertex(s, s, u)
      BY DEF SameVertex, Sees
    <2>2. QED
      BY <2>1 DEF PutTo, old
  <1>26. VertexPut(s, v, c) = IF exists /\ old = c THEN s ELSE VertexStored(q, v, c)
    BY DEF VertexPut, q, r4, r3, r2, r1, r0, d, prev, next, exists, old
  <1>27. QED
    BY <1>24, <1>25, <1>26

\* Creating a vertex that was not found gives it the content too.
LEMMA VertexNewIs ==
  ASSUME NEW s, TxOK(s), ValuesOK(db, {Absent}), NEW v \in Vertex, NEW c \in Content,
         VertexOK(s, v), Exact(s), ~VertexFound(s, v)
  PROVE  LET d == [k \in Stats |-> IF k \in {VertexTotal} \cup {"label"} \X Norm(c.labels)
                                   THEN 1 ELSE 0]
         IN  PutTo(s, VertexStored(
                 Written(Added(s, d),
                         LabelRows(v, Norm(c.labels)) \cup PropRows(v, {c.prop} \ {Absent}),
                         Row), v, c), v, c)
  <1> DEFINE old  == Read(s, <<"v", v>>)
             L    == VisibleLabels(s, v)
             P    == VisibleProps(s, v)
             next == Norm(c.labels)
             new  == {c.prop} \ {Absent}
             d    == [k \in Stats |-> IF k \in {VertexTotal} \cup {"label"} \X next
                                      THEN 1 ELSE 0]
             r0   == Added(s, d)
             r1   == Written(r0, LabelRows(v, next), Row)
             q    == Written(r1, PropRows(v, new), Row)
  <1>1. old = Absent /\ L = {} /\ P = {} /\ ~Visible(s, <<"v", v>>)
    BY DEF VertexFound, VertexOK, Matching, Visible
  <1>2. next \in SUBSET StoredLabel /\ new \in SUBSET Prop
    BY NormOK
  <1>3. /\ next \ {Unlabeled} = c.labels
        /\ Unlabeled \in next => c.labels = {}
        /\ \A l \in Label : l \in next <=> l \in c.labels
    <2>1. c.labels \in SUBSET Label
      BY DEF Content
    <2>2. QED
      BY <2>1, ValueAssumption DEF Norm
  <1>4. \A k \in Stats : d[k] \in Int
    OBVIOUS
  <1>5. /\ d[VertexTotal] = 1 /\ d[EdgeTotal] = 0
        /\ \A k \in Kind : d[<<"edge_type", k>>] = 0
    <2> HIDE DEF next
    <2>1. QED
      BY CounterNames, CountersPending
  <1>6. \A l \in Label : d[<<"label", l>>] =
             (IF l \in c.labels THEN 1 ELSE 0) - (IF v \in With(s, l) THEN 1 ELSE 0)
    <2> TAKE l \in Label
    <2>1. d[<<"label", l>>] = IF l \in next THEN 1 ELSE 0
      <3> HIDE DEF next
      <3>1. QED
        BY CounterNames, CountersPending
    <2>2. v \notin With(s, l)
      BY <1>1 DEF With, VisibleVertices
    <2> HIDE DEF d, next
    <2>3. QED
      BY <1>3, <2>1, <2>2
  <1> HIDE DEF d, next, new
  <1>7. /\ TxOK(r0) /\ r0.batch = s.batch /\ r0.cache = s.cache
        /\ Moves(s, r0, d)
    BY <1>4, StatsDiffer, AddedIs, AddedMoves
  <1>8. \A u \in Vertex : SameVertex(s, r0, u)
    BY <1>7, SameBatchVertex
  <1> HIDE DEF r0
  <1>9. /\ RowsOnly(r0, r1)
        /\ \A u \in Vertex \ {v} : SameVertex(r0, r1, u)
        /\ Sees(r1, v, old, next, {})
    <2>1. /\ RowsOnly(r0, r1)
          /\ \A u \in Vertex \ {v} : SameVertex(r0, r1, u)
          /\ Sees(r1, v, Read(r0, <<"v", v>>), VisibleLabels(r0, v) \cup next,
                  VisibleProps(r0, v))
      BY <1>2, <1>7, LabelsWrittenIs
    <2>2. QED
      BY <1>1, <1>8, <2>1 DEF SameVertex, Sees
  <1>10. TxOK(r1)
    BY <1>9 DEF RowsOnly
  <1> HIDE DEF r1
  <1>11. /\ RowsOnly(r1, q)
         /\ \A u \in Vertex \ {v} : SameVertex(r1, q, u)
         /\ Sees(q, v, old, next, new)
    <2>1. /\ RowsOnly(r1, q)
          /\ \A u \in Vertex \ {v} : SameVertex(r1, q, u)
          /\ Sees(q, v, Read(r1, <<"v", v>>), VisibleLabels(r1, v),
                  VisibleProps(r1, v) \cup new)
      BY <1>2, <1>10, PropRowsWrittenIs
    <2>2. QED
      BY <1>9, <2>1 DEF Sees
  <1> HIDE DEF q
  <1>12. RowsOnly(r0, q) /\ \A u \in Vertex \ {v} : SameVertex(s, q, u)
    BY <1>8, <1>9, <1>11, RowsOnlyTrans, SameVertexTrans
  <1>13. TxOK(q) /\ \A k \in EdgeKeys : q.batch[k] = s.batch[k]
    BY <1>7, <1>12 DEF RowsOnly
  <1>14. \A k \in Counters : d[k] \in Int
    BY <1>4, CountersPending
  <1>15. Moves(s, q, d)
    BY <1>7, <1>12, <1>14, RowsOnlyStill, MovesStill
  <1> HIDE DEF old
  <1>16. PutTo(s, VertexStored(q, v, c), v, c)
    <2>1. Sees(q, v, Read(s, <<"v", v>>), next, {c.prop} \ {Absent})
      BY <1>11 DEF old, new
    <2>2. d[VertexTotal] = IF Visible(s, <<"v", v>>) THEN 0 ELSE 1
      BY <1>1, <1>5
    <2>3. QED
      BY <1>3, <1>5, <1>6, <1>12, <1>13, <1>14, <1>15, <2>1, <2>2, StoredIsPut
  <1>17. q = Written(r0, LabelRows(v, next) \cup PropRows(v, new), Row)
    BY <1>7, WrittenTwice DEF q, r1
  <1>18. QED
    BY <1>16, <1>17 DEF r0, d, next, new

\* A patch puts the vertex as it was found, with another property.
LEMMA VertexPatchIs ==
  ASSUME NEW s, TxOK(s), ValuesOK(db, {Absent}), NEW v \in Vertex,
         NEW p \in Prop \cup {Absent},
         \A u \in Vertex : VertexOK(s, u), Exact(s), VertexFound(s, v)
  PROVE  LET r == VertexGot(s, v)
             c == [r.cache[v] EXCEPT !.prop = p]
         IN  /\ c \in Content
             /\ c = [Read(s, <<"v", v>>) EXCEPT !.prop = p]
             /\ PutTo(s, VertexPut(r, v, c), v, c)
  <1> DEFINE r == VertexGot(s, v)
             c == [r.cache[v] EXCEPT !.prop = p]
  <1>1. /\ TxOK(r) /\ r.batch = s.batch /\ r.base = s.base /\ r.delta = s.delta
        /\ r.cache[v] = Read(s, <<"v", v>>) /\ r.cache[v] \in Content
        /\ VertexOK(r, v)
        /\ \A u \in Vertex \ {v} : SameVertex(s, r, u)
    BY VertexGotIs
  <1> HIDE DEF r
  <1>2. c \in Content /\ c = [Read(s, <<"v", v>>) EXCEPT !.prop = p]
    BY <1>1 DEF Content
  <1>3. Exact(r)
    BY <1>1, SameStill, SameBatchExact
  <1> HIDE DEF c
  <1>4. PutTo(r, VertexPut(r, v, c), v, c)
    BY <1>1, <1>2, <1>3, VertexPutIs
  <1>5. VisibleEdges(r) = VisibleEdges(s)
    BY <1>1, SameEdges
  <1>6. PutTo(s, VertexPut(r, v, c), v, c)
    BY <1>1, <1>4, <1>5, SameVertexTrans DEF PutTo
  <1>7. QED
    BY <1>2, <1>6 DEF c, r

-----------------------------------------------------------------------------
(* Puts and deletions of edges.                                            *)

\* The counters an edge is counted in.
LEMMA EdgeCounted ==
  ASSUME NEW e \in Edge
  PROVE  /\ EdgeTotal \in StatsOf(e)
         /\ VertexTotal \notin StatsOf(e)
         /\ \A l \in Label : <<"label", l>> \notin StatsOf(e)
         /\ \A k \in Kind : <<"edge_type", k>> \in StatsOf(e) <=> Type[e] = k
  BY DEF StatsOf, EdgeTotal, VertexTotal

\* The edges E are counted, or no longer counted, and nothing else is.
LEMMA EdgesExact ==
  ASSUME NEW s, Exact(s), NEW r, NEW E \in SUBSET Edge, NEW n \in {1, -1},
         \/ n = 1 /\ E \cap VisibleEdges(s) = {} /\ VisibleEdges(r) = VisibleEdges(s) \cup E
         \/ n = -1 /\ E \subseteq VisibleEdges(s) /\ VisibleEdges(r) = VisibleEdges(s) \ E,
         \A v \in Vertex : SameVertex(s, r, v),
         Moves(s, r, [k \in Stats |-> n * Cardinality({e \in E : k \in StatsOf(e)})])
  PROVE  Exact(r)
  <1> DEFINE d == [k \in Stats |-> n * Cardinality({e \in E : k \in StatsOf(e)})]
             F(k) == {e \in E : Type[e] = k}
  <1>1. /\ d[VertexTotal] = n * Cardinality({e \in E : VertexTotal \in StatsOf(e)})
        /\ d[EdgeTotal] = n * Cardinality({e \in E : EdgeTotal \in StatsOf(e)})
        /\ \A l \in Label : d[<<"label", l>>] =
                n * Cardinality({e \in E : <<"label", l>> \in StatsOf(e)})
        /\ \A k \in Kind : d[<<"edge_type", k>>] =
                n * Cardinality({e \in E : <<"edge_type", k>> \in StatsOf(e)})
    BY CountersPending
  <1>2. /\ {e \in E : VertexTotal \in StatsOf(e)} = {}
        /\ {e \in E : EdgeTotal \in StatsOf(e)} = E
        /\ \A l \in Label : {e \in E : <<"label", l>> \in StatsOf(e)} = {}
        /\ \A k \in Kind : {e \in E : <<"edge_type", k>> \in StatsOf(e)} = F(k)
    BY EdgeCounted
  <1>3. /\ d[VertexTotal] = 0 /\ d[EdgeTotal] = n * Cardinality(E)
        /\ \A l \in Label : d[<<"label", l>>] = 0
        /\ \A k \in Kind : d[<<"edge_type", k>>] = n * Cardinality(F(k))
    <2>1. n * Cardinality({}) = 0
      BY FS_EmptySet
    <2> HIDE DEF d, F
    <2>2. QED
      BY <1>1, <1>2, <2>1
  <1>4. \A v \in Vertex : Read(r, <<"v", v>>) = Read(s, <<"v", v>>)
    BY DEF SameVertex, Sees
  <1>5. /\ VisibleVertices(r) = VisibleVertices(s)
        /\ \A l : With(r, l) = With(s, l)
    BY <1>4 DEF VisibleVertices, With, Visible
  <1>6. ASSUME NEW S \in SUBSET Edge, NEW T \in SUBSET Edge, NEW G \in SUBSET Edge,
               \/ n = 1 /\ G \cap S = {} /\ T = S \cup G
               \/ n = -1 /\ G \subseteq S /\ T = S \ G
        PROVE  Cardinality(T) = Cardinality(S) + n * Cardinality(G)
    <2>1. IsFiniteSet(S) /\ IsFiniteSet(G)
      BY FS_Subset, BoundAssumption
    <2>2. Cardinality(S) \in Nat /\ Cardinality(G) \in Nat
      BY <2>1, FS_CardinalityType
    <2>3. CASE n = 1 /\ G \cap S = {} /\ T = S \cup G
      <3>1. Cardinality(S \cap G) = 0
        <4>1. S \cap G = {}
          BY <2>3
        <4>2. QED
          BY <4>1, FS_EmptySet
      <3>2. Cardinality(S \cup G) = Cardinality(S) + Cardinality(G) - Cardinality(S \cap G)
        BY <2>1, FS_Union
      <3>3. n * Cardinality(G) = Cardinality(G)
        BY <2>2, <2>3
      <3>4. Cardinality(T) = Cardinality(S \cup G)
        BY <2>3
      <3>5. QED
        BY <2>2, <3>1, <3>2, <3>3, <3>4
    <2>4. CASE n = -1 /\ G \subseteq S /\ T = S \ G
      <3>1. S \cap G = G
        BY <2>4
      <3>2. Cardinality(S \ G) = Cardinality(S) - Cardinality(S \cap G)
        BY <2>1, FS_Difference
      <3>3. n * Cardinality(G) = -Cardinality(G)
        BY <2>2, <2>4
      <3>4. Cardinality(T) = Cardinality(S \ G)
        BY <2>4
      <3>5. QED
        BY <2>2, <3>1, <3>2, <3>3, <3>4
    <2>5. QED
      BY <1>6, <2>3, <2>4
  <1>7. VisibleEdges(s) \in SUBSET Edge /\ VisibleEdges(r) \in SUBSET Edge
    BY DEF VisibleEdges
  <1>8. Cardinality(VisibleEdges(r)) = Cardinality(VisibleEdges(s)) + n * Cardinality(E)
    BY <1>6, <1>7
  <1>9. ASSUME NEW k \in Kind
        PROVE  Cardinality(OfType(r, k)) = Cardinality(OfType(s, k)) + n * Cardinality(F(k))
    <2>1. OfType(s, k) \in SUBSET Edge /\ OfType(r, k) \in SUBSET Edge /\ F(k) \in SUBSET Edge
      BY <1>7 DEF OfType
    <2>2. \/ n = 1 /\ F(k) \cap OfType(s, k) = {} /\ OfType(r, k) = OfType(s, k) \cup F(k)
          \/ n = -1 /\ F(k) \subseteq OfType(s, k) /\ OfType(r, k) = OfType(s, k) \ F(k)
      BY DEF OfType
    <2> HIDE DEF F
    <2>3. QED
      BY <1>6, <2>1, <2>2
  <1>10. Moves(s, r, d)
    OBVIOUS
  <1> HIDE DEF d, F
  <1>11. Stands(r, VertexTotal, Cardinality(VisibleVertices(r)))
    <2>1. Stands(r, VertexTotal, Cardinality(VisibleVertices(s)) + d[VertexTotal])
      BY <1>10, CountersPending, SeenFinite DEF Exact, Moves
    <2>2. QED
      BY <1>3, <1>5, <2>1, SeenFinite
  <1>12. Stands(r, EdgeTotal, Cardinality(VisibleEdges(r)))
    <2>1. Stands(r, EdgeTotal, Cardinality(VisibleEdges(s)) + d[EdgeTotal])
      BY <1>10, CountersPending, SeenFinite DEF Exact, Moves
    <2>2. QED
      BY <1>3, <1>8, <2>1
  <1>13. ASSUME NEW k \in Kind
         PROVE  Stands(r, <<"edge_type", k>>, Cardinality(OfType(r, k)))
    <2>1. Stands(r, <<"edge_type", k>>, Cardinality(OfType(s, k)) + d[<<"edge_type", k>>])
      BY <1>10, CountersPending, SeenFinite DEF Exact, Moves
    <2>2. QED
      BY <1>3, <1>9, <2>1
  <1>14. ASSUME NEW l \in Label
         PROVE  Stands(r, <<"label", l>>, Cardinality(With(r, l)))
    <2>1. Stands(r, <<"label", l>>, Cardinality(With(s, l)) + d[<<"label", l>>])
      BY <1>10, CountersPending, SeenFinite DEF Exact, Moves
    <2>2. QED
      BY <1>3, <1>5, <2>1, SeenFinite
  <1>15. QED
    BY <1>11, <1>12, <1>13, <1>14 DEF Exact

\* What a transaction sees of vertices and counters is sound.
ViewOK(s) ==
    /\ \A v \in Vertex : VertexOK(s, v)
    /\ Exact(s)

\* The keys that say something of vertices.
RecordKeys == VertexKeys \cup LabelKeys \cup PropKeys

LEMMA SameRecords ==
  ASSUME NEW s, NEW r, r.cache = s.cache, \A k \in RecordKeys : r.batch[k] = s.batch[k]
  PROVE  \A v \in Vertex : SameVertex(s, r, v)
  <1>1. \A k \in RecordKeys : Read(r, k) = Read(s, k)
    BY DEF Read
  <1>2. \A v \in Vertex : <<"v", v>> \in RecordKeys
    BY KeysNamed DEF RecordKeys
  <1>3. \A v \in Vertex : VisibleLabels(r, v) = VisibleLabels(s, v)
    <2>1. \A v \in Vertex, l \in StoredLabel : <<"vl", v, l>> \in RecordKeys
      BY DEF RecordKeys, LabelKeys
    <2>2. QED
      BY <1>1, <2>1 DEF VisibleLabels, Visible
  <1>4. \A v \in Vertex : VisibleProps(r, v) = VisibleProps(s, v)
    <2>1. \A v \in Vertex, p \in Prop : <<"vp", v, p>> \in RecordKeys
      BY DEF RecordKeys, PropKeys
    <2>2. QED
      BY <1>1, <2>1 DEF VisibleProps, Visible
  <1>5. QED
    BY <1>1, <1>2, <1>3, <1>4 DEF SameVertex, Sees

LEMMA RecordKeysDiffer ==
    /\ RecordKeys \subseteq VertexKeys \cup RowKeys /\ RecordKeys \subseteq Key
    /\ RecordKeys \cap EdgeKeys = {}
    /\ RecordKeys \cap Stats = {}
    /\ EdgeKeys \subseteq Key /\ EdgeKeys \cap Stats = {}
    /\ \A E \in SUBSET Edge : Rows(E) \subseteq EdgeKeys
  <1>1. \A E \in SUBSET Edge : Rows(E) \subseteq EdgeKeys
    BY DEF Rows, EdgeKeys
  <1>2. RecordKeys \cap EdgeKeys = {}
    BY KeyPrefixes DEF RecordKeys, EdgePrefix
  <1>3. QED
    BY <1>1, <1>2, KeysDiffer DEF RecordKeys, RowKeys

\* Edge rows written over a tally, or deleted.
LEMMA EdgeRowsWrittenIs ==
  ASSUME NEW s, TxOK(s), ValuesOK(db, {Absent}), NEW E \in SUBSET Edge,
         NEW n \in {1, -1}, NEW K, K \subseteq EdgeKeys, NEW x \in {Row, Absent}
  PROVE  LET r == Written(Tallied(s, E, n), K, x)
         IN  /\ \A v \in Vertex : SameVertex(s, r, v)
             /\ Moves(s, r, [k \in Stats |-> n * Cardinality({e \in E : k \in StatsOf(e)})])
  <1> DEFINE d == [k \in Stats |-> n * Cardinality({e \in E : k \in StatsOf(e)})]
             q == Tallied(s, E, n)
             r == Written(q, K, x)
  <1>1. /\ TxOK(q) /\ q.cache = s.cache
        /\ \A k \in VertexKeys \cup RowKeys : q.batch[k] = s.batch[k]
    BY TalliedIs
  <1>2. Moves(s, q, d)
    BY TalliedMoves
  <1>3. \A k \in Counters : d[k] \in Int
    <2> TAKE k \in Counters
    <2>1. {e \in E : k \in StatsOf(e)} \in SUBSET Edge
      OBVIOUS
    <2>2. Cardinality({e \in E : k \in StatsOf(e)}) \in Nat
      BY <2>1, FS_Subset, FS_CardinalityType, BoundAssumption
    <2>3. QED
      BY <2>2, CountersPending
  <1> HIDE DEF q, d
  <1>4. /\ r.batch = [k \in Key |-> IF k \in K THEN x ELSE q.batch[k]]
        /\ r.base = q.base /\ r.delta = q.delta /\ r.cache = q.cache
    BY <1>1, WrittenIs
  <1> HIDE DEF r
  <1>5. \A k \in RecordKeys : r.batch[k] = s.batch[k]
    BY <1>1, <1>4, RecordKeysDiffer
  <1>6. \A k \in Counters : r.batch[k] = q.batch[k]
    BY <1>4, RecordKeysDiffer, CountersPending, KeysDiffer
  <1>7. \A v \in Vertex : SameVertex(s, r, v)
    BY <1>1, <1>4, <1>5, SameRecords
  <1>8. Moves(s, r, d)
    BY <1>2, <1>3, <1>4, <1>6, SameStill, MovesStill
  <1>9. QED
    BY <1>7, <1>8 DEF r, q, d

\* Edges put, of which the new ones are counted.
LEMMA EdgesWrittenView ==
  ASSUME NEW s, TxOK(s), ValuesOK(db, {Absent}), ViewOK(s),
         NEW E \in SUBSET Edge, NEW N, N = E \ VisibleEdges(s)
  PROVE  LET r == Written(Tallied(s, N, 1), Rows(E), Row)
         IN  ViewOK(r) /\ \A v \in Vertex : SameVertex(s, r, v)
  <1> DEFINE r == Written(Tallied(s, N, 1), Rows(E), Row)
  <1>1. N \in SUBSET Edge
    OBVIOUS
  <1>2. VisibleEdges(r) = VisibleEdges(s) \cup E
    BY <1>1, EdgesWrittenIs
  <1>3. /\ \A v \in Vertex : SameVertex(s, r, v)
        /\ Moves(s, r, [k \in Stats |-> 1 * Cardinality({e \in N : k \in StatsOf(e)})])
    BY <1>1, EdgeRowsWrittenIs, RecordKeysDiffer
  <1> HIDE DEF r
  <1>4. N \cap VisibleEdges(s) = {} /\ VisibleEdges(r) = VisibleEdges(s) \cup N
    BY <1>2
  <1>5. Exact(r)
    BY <1>1, <1>3, <1>4, EdgesExact DEF ViewOK
  <1>6. ViewOK(r)
    BY <1>3, <1>5, SameVertexOK DEF ViewOK
  <1>7. QED
    BY <1>3, <1>6 DEF r

\* Edges deleted, of which those that were there are counted out.
LEMMA EdgesDeletedView ==
  ASSUME NEW s, TxOK(s), TxRows(s), ValuesOK(db, {Absent}), RowsAgree, ViewOK(s),
         NEW E \in SUBSET Edge
  PROVE  LET r == EdgesDeleted(s, E)
         IN  ViewOK(r) /\ \A v \in Vertex : SameVertex(s, r, v)
  <1> DEFINE known == E \cap LoadableEdges(s)
             stale == Rows(E \cap VisibleEdges(s))
             K     == Rows(known) \cup {k \in stale : Visible(s, k)}
             n     == -1
             r     == EdgesDeleted(s, E)
  <1>1. VisibleEdges(r) = VisibleEdges(s) \ E
    BY EdgesDeletedIs
  <1>2. known = E \cap VisibleEdges(s)
    BY EdgeRowsSeen
  <1>3. known \in SUBSET Edge /\ (E \cap VisibleEdges(s)) \in SUBSET Edge
    OBVIOUS
  <1>4. K \subseteq EdgeKeys
    BY <1>3, RecordKeysDiffer
  <1>5. r = Written(Tallied(s, known, n), K, Absent)
    BY Zenon DEF EdgesDeleted, r, K, known, n
  <1>6. n = -1 /\ n \in {1, -1}
    OBVIOUS
  <1> HIDE DEF K, known, r, n
  <1>7. /\ \A v \in Vertex : SameVertex(s, r, v)
        /\ Moves(s, r, [k \in Stats |-> n * Cardinality({e \in known : k \in StatsOf(e)})])
    BY <1>3, <1>4, <1>5, <1>6, EdgeRowsWrittenIs
  <1>8. known \subseteq VisibleEdges(s) /\ VisibleEdges(r) = VisibleEdges(s) \ known
    BY <1>1, <1>2
  <1>9. Exact(r)
    BY <1>3, <1>6, <1>7, <1>8, EdgesExact DEF ViewOK
  <1>10. ViewOK(r)
    BY <1>7, <1>9, SameVertexOK DEF ViewOK
  <1>11. QED
    BY <1>7, <1>10 DEF r

-----------------------------------------------------------------------------
(* Deletions of vertices and the purge.                                    *)

\* The vertices V are gone from r, and the others are as in s.
Gone(s, r, V) ==
    /\ \A v \in V : Sees(r, v, Absent, {}, {}) /\ r.cache[v] = Absent
    /\ \A u \in Vertex \ V : SameVertex(s, r, u)

LEMMA GoneVertexOK ==
  ASSUME NEW s, \A v \in Vertex : VertexOK(s, v), NEW V \in SUBSET Vertex,
         NEW r, Gone(s, r, V)
  PROVE  \A v \in Vertex : VertexOK(r, v)
  <1>1. ASSUME NEW v \in V
        PROVE  VertexOK(r, v)
    BY <1>1 DEF Gone, Sees, VertexOK, Matching
  <1>2. ASSUME NEW v \in Vertex \ V
        PROVE  VertexOK(r, v)
    BY <1>2, SameVertexOK DEF Gone
  <1>3. QED
    BY <1>1, <1>2

\* The vertices V are counted out with their labels.
LEMMA GoneExact ==
  ASSUME NEW s, Exact(s), NEW V \in SUBSET Vertex, V \subseteq VisibleVertices(s),
         NEW r, Gone(s, r, V), VisibleEdges(r) = VisibleEdges(s),
         NEW d, Moves(s, r, d),
         d[VertexTotal] = -Cardinality(V), d[EdgeTotal] = 0,
         \A k \in Kind : d[<<"edge_type", k>>] = 0,
         \A l \in Label : d[<<"label", l>>] = -Cardinality(With(s, l) \cap V)
  PROVE  Exact(r)
  <1>1. VisibleVertices(r) = VisibleVertices(s) \ V
    BY DEF VisibleVertices, Visible, Gone, SameVertex, Sees
  <1>2. \A l : With(r, l) = With(s, l) \ V
    BY <1>1 DEF With, VisibleVertices, Gone, SameVertex, Sees
  <1>3. \A k : OfType(r, k) = OfType(s, k)
    BY DEF OfType
  <1>4. Stands(r, VertexTotal, Cardinality(VisibleVertices(r)))
    <2>1. Stands(r, VertexTotal, Cardinality(VisibleVertices(s)) + d[VertexTotal])
      BY CountersPending, SeenFinite DEF Exact, Moves
    <2>2. VisibleVertices(s) \cap V = V
      OBVIOUS
    <2>3. Cardinality(VisibleVertices(s) \ V) =
              Cardinality(VisibleVertices(s)) - Cardinality(VisibleVertices(s) \cap V)
      BY SeenFinite, FS_Difference
    <2>4. Cardinality(VisibleVertices(s)) \in Nat /\ Cardinality(V) \in Nat
      BY SeenFinite, FS_Subset, FS_CardinalityType, BoundAssumption
    <2>5. Cardinality(VisibleVertices(r)) = Cardinality(VisibleVertices(s)) + d[VertexTotal]
      BY <1>1, <2>2, <2>3, <2>4
    <2>6. QED
      BY <2>1, <2>5
  <1>5. Stands(r, EdgeTotal, Cardinality(VisibleEdges(r)))
    <2>1. Stands(r, EdgeTotal, Cardinality(VisibleEdges(s)) + d[EdgeTotal])
      BY CountersPending, SeenFinite DEF Exact, Moves
    <2>2. QED
      BY <2>1, SeenFinite
  <1>6. ASSUME NEW k \in Kind
        PROVE  Stands(r, <<"edge_type", k>>, Cardinality(OfType(r, k)))
    <2>1. Stands(r, <<"edge_type", k>>, Cardinality(OfType(s, k)) + d[<<"edge_type", k>>])
      BY CountersPending, SeenFinite DEF Exact, Moves
    <2>2. QED
      BY <1>3, <2>1, SeenFinite
  <1>7. ASSUME NEW l \in Label
        PROVE  Stands(r, <<"label", l>>, Cardinality(With(r, l)))
    <2>1. Stands(r, <<"label", l>>, Cardinality(With(s, l)) + d[<<"label", l>>])
      BY CountersPending, SeenFinite DEF Exact, Moves
    <2>2. Cardinality(With(s, l) \ V) =
              Cardinality(With(s, l)) - Cardinality(With(s, l) \cap V)
      BY SeenFinite, FS_Difference
    <2>3. Cardinality(With(s, l)) \in Nat /\ Cardinality(With(s, l) \cap V) \in Nat
      BY SeenFinite, FS_Intersection, FS_CardinalityType
    <2>4. Cardinality(With(r, l)) = Cardinality(With(s, l)) + d[<<"label", l>>]
      BY <1>2, <2>2, <2>3
    <2>5. QED
      BY <2>1, <2>4
  <1>8. QED
    BY <1>4, <1>5, <1>6, <1>7 DEF Exact

\* deleteVerticesByMeta of vertices that are there.
LEMMA VerticesDeletedView ==
  ASSUME NEW s, TxOK(s), ValuesOK(db, {Absent}), ViewOK(s),
         NEW V \in SUBSET Vertex, V \subseteq VisibleVertices(s)
  PROVE  LET r == VerticesDeleted(s, V)
         IN  ViewOK(r) /\ Gone(s, r, V)
  <1> DEFINE labels(v) == Norm(VisibleLabels(s, v))
             d    == [k \in Stats |->
                        IF k = VertexTotal THEN -Cardinality(V)
                        ELSE IF k \in LabelStats
                             THEN -Cardinality({v \in V : k[2] \in labels(v)})
                        ELSE 0]
             LL   == UNION {LabelRows(v, labels(v)) : v \in V}
             PP   == UNION {PropRows(v, VisibleProps(s, v)) : v \in V}
             VV   == {"v"} \X V
             gone == VV \cup LL \cup PP
             q    == Added(s, d)
             w    == Written(q, gone, Absent)
             c    == [v \in Vertex |-> IF v \in V THEN Absent ELSE s.cache[v]]
             r    == [w EXCEPT !.cache = c]
  <1>1. \A S \in SUBSET Vertex : Cardinality(S) \in Nat
    BY FS_Subset, FS_CardinalityType, BoundAssumption
  <1>2. \A k \in Stats : d[k] \in Int
    <2> TAKE k \in Stats
    <2>1. {v \in V : k[2] \in labels(v)} \in SUBSET Vertex
      OBVIOUS
    <2>2. Cardinality({v \in V : k[2] \in labels(v)}) \in Nat /\ Cardinality(V) \in Nat
      BY <1>1, <2>1
    <2> HIDE DEF labels
    <2>3. QED
      BY <2>2
  <1>3. \A v \in V : labels(v) \in SUBSET StoredLabel /\ VisibleProps(s, v) \in SUBSET Prop
    BY NormOK DEF VisibleLabels, VisibleProps
  <1>4. \A v \in V, l \in Label : l \in labels(v) <=> v \in With(s, l)
    <2> TAKE v \in V, l \in Label
    <2>1. l # Unlabeled
      BY ValueAssumption
    <2>2. l \in labels(v) <=> l \in VisibleLabels(s, v)
      BY <2>1 DEF Norm
    <2>3. Read(s, <<"v", v>>) # Absent
      BY DEF VisibleVertices, Visible
    <2>4. VisibleLabels(s, v) \ {Unlabeled} = Read(s, <<"v", v>>).labels
      BY <2>3 DEF ViewOK, VertexOK, Matching
    <2>5. QED
      BY <2>1, <2>2, <2>4 DEF With
  <1>5. /\ d[VertexTotal] = -Cardinality(V) /\ d[EdgeTotal] = 0
        /\ \A k \in Kind : d[<<"edge_type", k>>] = 0
    <2>1. EdgeTotal \notin LabelStats /\ \A k \in Kind : <<"edge_type", k>> \notin LabelStats
      BY CounterNames DEF LabelStats
    <2> HIDE DEF labels
    <2>2. QED
      BY <2>1, CounterNames, CountersPending
  <1>6. \A l \in Label : d[<<"label", l>>] = -Cardinality(With(s, l) \cap V)
    <2> TAKE l \in Label
    <2>1. {v \in V : l \in labels(v)} = With(s, l) \cap V
      BY <1>4
    <2>2. <<"label", l>> \in LabelStats /\ <<"label", l>> # VertexTotal
      BY CounterNames DEF LabelStats, StoredLabel
    <2>3. <<"label", l>> \in Stats /\ <<"label", l>>[2] = l
      BY CountersPending
    <2> HIDE DEF labels
    <2>4. d[<<"label", l>>] = -Cardinality({v \in V : l \in labels(v)})
      BY <2>2, <2>3
    <2>5. QED
      BY <2>1, <2>4
  <1> HIDE DEF d
  <1>7. /\ TxOK(q) /\ q.batch = s.batch /\ q.cache = s.cache /\ Moves(s, q, d)
    BY <1>2, StatsDiffer, AddedIs, AddedMoves
  <1>8. \A k : Read(q, k) = Read(s, k)
    BY <1>7 DEF Read
  <1> HIDE DEF q, labels
  <1>9. /\ \A u \in Vertex : <<"v", u>> \in gone <=> u \in V
        /\ \A u \in Vertex, l \in StoredLabel :
                <<"vl", u, l>> \in gone <=> u \in V /\ l \in labels(u)
        /\ \A u \in Vertex, p \in Prop :
                <<"vp", u, p>> \in gone <=> u \in V /\ p \in VisibleProps(s, u)
    BY DEF LabelRows, PropRows
  <1>10. gone \subseteq RecordKeys
    <2>1. VV \subseteq VertexKeys
      BY KeysNamed
    <2>2. LL \subseteq LabelKeys
      BY <1>3 DEF LabelRows, LabelKeys
    <2>3. PP \subseteq PropKeys
      BY <1>3 DEF PropRows, PropKeys
    <2>4. QED
      BY <2>1, <2>2, <2>3 DEF RecordKeys
  <1> HIDE DEF gone
  <1>11. Absent # Unwritten
    BY ValueAssumption
  <1>12. /\ \A k \in Key : Read(w, k) = IF k \in gone THEN Absent ELSE Read(s, k)
         /\ w.batch = [k \in Key |-> IF k \in gone THEN Absent ELSE q.batch[k]]
         /\ w.base = q.base /\ w.delta = q.delta /\ TxOK(w)
    BY <1>7, <1>8, <1>11, ReadWritten, WrittenIs, WrittenOK
  <1> HIDE DEF w, c
  <1>13. r.batch = w.batch /\ r.base = w.base /\ r.delta = w.delta /\ r.cache = c
    BY <1>12 DEF TxOK
  <1> HIDE DEF r
  <1>14. \A k \in Key : Read(r, k) = IF k \in gone THEN Absent ELSE Read(s, k)
    BY <1>12, <1>13 DEF Read
  <1>15. /\ \A u \in Vertex : Read(r, <<"v", u>>) =
                IF u \in V THEN Absent ELSE Read(s, <<"v", u>>)
         /\ \A u \in Vertex, l \in StoredLabel : Read(r, <<"vl", u, l>>) =
                IF u \in V /\ l \in labels(u) THEN Absent ELSE Read(s, <<"vl", u, l>>)
         /\ \A u \in Vertex, p \in Prop : Read(r, <<"vp", u, p>>) =
                IF u \in V /\ p \in VisibleProps(s, u) THEN Absent
                ELSE Read(s, <<"vp", u, p>>)
    BY <1>9, <1>14, EdgeRowKeys, LabelRowNames, PropRowNames
  <1>16. Gone(s, r, V)
    <2>1. ASSUME NEW v \in V
          PROVE  Sees(r, v, Absent, {}, {}) /\ r.cache[v] = Absent
      <3>1. VisibleLabels(s, v) \subseteq labels(v)
        BY DEF labels, Norm
      <3>2. VisibleLabels(r, v) = {}
        BY <1>15, <3>1 DEF VisibleLabels, Visible
      <3>3. VisibleProps(r, v) = {}
        BY <1>15 DEF VisibleProps, Visible
      <3>4. QED
        BY <1>13, <1>15, <3>2, <3>3 DEF Sees, c
    <2>2. ASSUME NEW u \in Vertex \ V
          PROVE  SameVertex(s, r, u)
      <3>1. VisibleLabels(r, u) = VisibleLabels(s, u)
        BY <1>15 DEF VisibleLabels, Visible
      <3>2. VisibleProps(r, u) = VisibleProps(s, u)
        BY <1>15 DEF VisibleProps, Visible
      <3>3. QED
        BY <1>13, <1>15, <3>1, <3>2 DEF SameVertex, Sees, c
    <2>3. QED
      BY <2>1, <2>2 DEF Gone
  <1>17. Moves(s, r, d)
    <2>1. \A k \in Counters : r.batch[k] = q.batch[k]
      BY <1>10, <1>12, <1>13, RecordKeysDiffer, CountersPending, KeysDiffer
    <2>2. Still(q, r)
      BY <1>12, <1>13, <2>1, SameStill
    <2>3. \A k \in Counters : d[k] \in Int
      BY <1>2, CountersPending
    <2>4. QED
      BY <1>7, <2>2, <2>3, MovesStill
  <1>18. VisibleEdges(r) = VisibleEdges(s)
    <2>1. \A k \in EdgeKeys : r.batch[k] = s.batch[k]
      BY <1>7, <1>10, <1>12, <1>13, RecordKeysDiffer
    <2>2. QED
      BY <2>1, SameEdges
  <1>19. Exact(r)
    BY <1>5, <1>6, <1>16, <1>17, <1>18, GoneExact DEF ViewOK
  <1>20. ViewOK(r)
    BY <1>16, <1>19, GoneVertexOK DEF ViewOK
  <1>21. VerticesDeleted(s, V) = r
    <2>1. gone = ({"v"} \X V)
                  \cup (UNION {LabelRows(v, labels(v)) : v \in V})
                  \cup (UNION {PropRows(v, VisibleProps(s, v)) : v \in V})
      BY DEF gone, VV, LL, PP
    <2>2. QED
      BY <2>1 DEF VerticesDeleted, r, c, w, q, d, labels
  <1>22. QED
    BY <1>16, <1>20, <1>21

\* The purge leaves nothing to be seen, and both totals at 0.
LEMMA PurgedView ==
  ASSUME NEW s, TxOK(s), ValuesOK(db, {Absent})
  PROVE  LET r == Purged(s)
         IN  ViewOK(r) /\ Gone(s, r, Vertex) /\ VisibleEdges(r) = {}
  <1> DEFINE m == [k \in Key |->
                     IF k \in {VertexTotal, EdgeTotal} THEN 0
                     ELSE IF Visible(s, k) THEN Absent ELSE s.batch[k]]
             b == [k \in Stats |-> IF k \in PairStats THEN s.base[k] ELSE Absent]
             d == [k \in Stats |-> 0]
             c == [v \in Vertex |-> Absent]
             r == Purged(s)
  <1>1. r = [s EXCEPT !.batch = m, !.base = b, !.delta = d, !.cache = c]
    BY DEF Purged
  <1> HIDE DEF r
  <1>2. r.batch = m /\ r.base = b /\ r.delta = d /\ r.cache = c
    BY <1>1 DEF TxOK
  <1>3. \A k \in Counters : k \in Stats /\ k \notin PairStats
    BY CountersPending, StatsDiffer DEF DirectStats
  <1>4. \A k \in Counters : r.base[k] = Absent /\ r.delta[k] = 0
    BY <1>2, <1>3
  <1>5. Absent # Unwritten
    BY ValueAssumption
  <1>6. \A k \in Key \ {VertexTotal, EdgeTotal} : Read(r, k) = Absent
    BY <1>2, <1>5 DEF Read, Visible
  <1>7. Read(r, VertexTotal) = 0 /\ Read(r, EdgeTotal) = 0
    <2>1. /\ VertexTotal \in Key /\ EdgeTotal \in Key
      BY CountersPending, KeysDiffer
    <2>2. 0 # Unwritten
      BY ValueAssumption
    <2>3. QED
      BY <1>2, <2>1, <2>2 DEF Read
  <1> HIDE DEF m, b, d
  <1>8. \A k \in RecordKeys \cup EdgeKeys : Read(r, k) = Absent
    <2>1. VertexTotal \in Stats /\ EdgeTotal \in Stats
      BY CountersPending
    <2>2. QED
      BY <1>6, <2>1, RecordKeysDiffer
  <1>9. \A v \in Vertex : Read(r, <<"v", v>>) = Absent
    BY <1>8, KeysNamed DEF RecordKeys
  <1>10. \A v \in Vertex : VisibleLabels(r, v) = {} /\ VisibleProps(r, v) = {}
    BY <1>8 DEF VisibleLabels, VisibleProps, Visible, RecordKeys, LabelKeys, PropKeys
  <1>11. VisibleVertices(r) = {} /\ VisibleEdges(r) = {}
    BY <1>8, <1>9 DEF VisibleVertices, VisibleEdges, Visible, EdgeKeys, EdgePrefix
  <1>12. Gone(s, r, Vertex) /\ \A v \in Vertex : VertexOK(r, v)
    BY <1>2, <1>9, <1>10 DEF Gone, Sees, VertexOK, Matching
  <1>13. Cardinality({}) = 0 /\ 0 # Absent
    BY FS_EmptySet, ValueAssumption
  <1>14. /\ Stands(r, VertexTotal, 0) /\ Stands(r, EdgeTotal, 0)
    BY <1>4, <1>7, CountersPending DEF Stands, Visible
  <1>15. \A k \in Counters \ {VertexTotal, EdgeTotal} : Stands(r, k, 0)
    BY <1>4, <1>6, CountersPending, KeysDiffer DEF Stands, Visible
  <1>16. Exact(r)
    <2>1. \A l : With(r, l) = {}
      BY <1>11 DEF With
    <2>2. \A k : OfType(r, k) = {}
      BY <1>11 DEF OfType
    <2>3. \A k \in Kind : Stands(r, <<"edge_type", k>>, 0)
      BY <1>15, CountersPending, CounterNames
    <2>4. \A l \in Label : Stands(r, <<"label", l>>, 0)
      BY <1>15, CountersPending, CounterNames
    <2>5. QED
      BY <1>11, <1>13, <1>14, <2>1, <2>2, <2>3, <2>4 DEF Exact
  <1>17. QED
    BY <1>11, <1>12, <1>16 DEF ViewOK, r

\* The full-selection check compares with the number of vertices there are,
\* so that only all of them pass for all of them.
LEMMA FullSelectionIsFull ==
  ASSUME NEW s, TxOK(s), ValuesOK(db, {Absent}), Exact(s),
         NEW V \in SUBSET VisibleVertices(s), FullSelection(s, V)
  PROVE  V = VisibleVertices(s)
  <1> DEFINE n == Cardinality(VisibleVertices(s))
  <1>1. n \in Nat /\ IsFiniteSet(VisibleVertices(s))
    BY SeenFinite
  <1>2. Stands(s, VertexTotal, n)
    BY DEF Exact
  <1>3. VertexTotal \in Stats /\ Read(s, VertexTotal) \in Nat \cup {Absent}
    BY CountersPending, ReadOK
  <1>4. s.base[VertexTotal] \in Nat \cup {Absent} /\ s.delta[VertexTotal] \in Int
    BY <1>3 DEF TxOK
  <1>5. Absent \notin Nat
    BY ValueAssumption
  <1> HIDE DEF n
  <1>6. CounterFound(s, VertexTotal) => CounterValue(s, VertexTotal) = n
    BY <1>1, <1>2, <1>3, <1>4, <1>5 DEF CounterFound, CounterValue, Stands, Visible, AtLeast0
  <1>7. Cardinality(V) = n
    BY <1>6 DEF FullSelection, n
  <1>8. QED
    BY <1>1, <1>7, FS_Subset DEF n

-----------------------------------------------------------------------------
(* What the calls make of the graph a transaction sees.                    *)

\* The graph that s sees.
View(s) ==
    [ vertices |-> [v \in Vertex |-> Read(s, <<"v", v>>)],
      edges    |-> VisibleEdges(s) ]

\* The graph g without the vertices V and their edges.
Without(g, V) ==
    [ vertices |-> [v \in Vertex |-> IF v \in V THEN Absent ELSE g.vertices[v]],
      edges    |-> g.edges \ {e \in g.edges : {Src[e], Dst[e]} \cap V # {}} ]

\* One operation of a graph, or none, leads from g to h.
Operation(g, h) ==
    \/ h = g
    \/ \E v \in Vertex, c \in Content : h = [g EXCEPT !.vertices[v] = c]
    \/ \E E \in SUBSET Edge :
          /\ \A e \in E : g.vertices[Src[e]] # Absent /\ g.vertices[Dst[e]] # Absent
          /\ h = [g EXCEPT !.edges = g.edges \cup E]
    \/ \E E \in SUBSET Edge : h = [g EXCEPT !.edges = g.edges \ E]
    \/ \E V \in SUBSET Vertex : h = Without(g, V)

\* What a call makes of the transaction s sees soundly again and, with a
\* single edge type and if no edge has lost an endpoint, is what an
\* operation makes of the graph.
ViewStep(s, r) ==
    /\ ViewOK(r)
    /\ OneKind /\ Closed(s) => Operation(View(s), View(r))

LEMMA SameVerticesView ==
  ASSUME NEW s, NEW r, \A v \in Vertex : SameVertex(s, r, v)
  PROVE  View(r) = [View(s) EXCEPT !.edges = VisibleEdges(r)]
  <1>1. \A v \in Vertex : Read(r, <<"v", v>>) = Read(s, <<"v", v>>)
    BY DEF SameVertex, Sees
  <1> DEFINE f == [v \in Vertex |-> Read(s, <<"v", v>>)]
             h == [v \in Vertex |-> Read(r, <<"v", v>>)]
  <1>2. h = f
    BY <1>1
  <1> HIDE DEF f, h
  <1>3. /\ View(s) = [vertices |-> f, edges |-> VisibleEdges(s)]
        /\ View(r) = [vertices |-> h, edges |-> VisibleEdges(r)]
    BY DEF View, f, h
  <1>4. QED
    BY <1>2, <1>3

LEMMA PutView ==
  ASSUME NEW s, NEW r, NEW v \in Vertex, NEW c \in Content,
         \A u \in Vertex : VertexOK(s, u), PutTo(s, r, v, c)
  PROVE  ViewStep(s, r)
  <1>1. ViewOK(r)
    BY SameVertexOK DEF PutTo, ViewOK
  <1>2. View(r) = [View(s) EXCEPT !.vertices[v] = c]
    <2> DEFINE f == [u \in Vertex |-> Read(s, <<"v", u>>)]
               h == [u \in Vertex |-> Read(r, <<"v", u>>)]
    <2>1. /\ Read(r, <<"v", v>>) = c /\ VisibleEdges(r) = VisibleEdges(s)
          /\ \A u \in Vertex \ {v} : Read(r, <<"v", u>>) = Read(s, <<"v", u>>)
      BY DEF PutTo, SameVertex, Sees
    <2>2. h = [f EXCEPT ![v] = c]
      BY <2>1
    <2> HIDE DEF f, h
    <2>3. View(s) = [vertices |-> f, edges |-> VisibleEdges(s)]
      BY DEF View, f
    <2>4. View(r) = [vertices |-> h, edges |-> VisibleEdges(r)]
      BY DEF View, h
    <2>5. QED
      BY <2>1, <2>2, <2>3, <2>4
  <1>3. QED
    BY <1>1, <1>2 DEF ViewStep, Operation

LEMMA CountersReadView ==
  ASSUME NEW s, TxOK(s), ValuesOK(db, {Absent}), ViewOK(s), NEW K
  PROVE  LET r == CountersRead(s, K)
         IN  /\ TxOK(r) /\ r.batch = s.batch /\ ViewOK(r)
             /\ \A v \in Vertex : SameVertex(s, r, v)
             /\ VisibleEdges(r) = VisibleEdges(s) /\ VisibleVertices(r) = VisibleVertices(s)
  <1> DEFINE r == CountersRead(s, K)
  <1>1. TxOK(r) /\ r.batch = s.batch /\ r.cache = s.cache /\ Still(s, r)
    BY CountersReadIs, CountersReadStill
  <1> HIDE DEF r
  <1>2. \A v \in Vertex : SameVertex(s, r, v)
    BY <1>1, SameBatchVertex
  <1>3. ViewOK(r)
    BY <1>1, <1>2, SameVertexOK, SameBatchExact DEF ViewOK
  <1>4. VisibleEdges(r) = VisibleEdges(s) /\ VisibleVertices(r) = VisibleVertices(s)
    BY <1>1, SameView
  <1>5. QED
    BY <1>1, <1>2, <1>3, <1>4 DEF r

\* A call of an open transaction is a step to a state that is a ViewStep.
ViewCall(t) == \E r : Call(t, r) /\ ViewStep(tx[t], r)

LEMMA VertexStepView ==
  ASSUME Inv, NEW t \in Tx, ViewOK(tx[t]), VertexStep(t)
  PROVE  ViewCall(t)
  <1> DEFINE s == tx[t]
  <1>1. TxOK(s) /\ ValuesOK(db, {Absent}) /\ ViewOK(s)
    BY DEF Inv, TypeOK
  <1> HIDE DEF s
  <1>2. PICK v \in Vertex :
          \/ GetVertex(t, v)
          \/ \E c \in Content : PutVertexNew(t, v, c) \/ PutVertexBatch(t, v, c)
          \/ \E p \in Prop \cup {Absent} : PatchVertexProperties(t, v, p)
    BY DEF VertexStep
  <1>3. VertexOK(s, v) /\ Exact(s) /\ \A u \in Vertex : VertexOK(s, u)
    BY <1>1 DEF ViewOK
  <1>4. CASE GetVertex(t, v)
    <2> DEFINE r == VertexGot(s, v)
    <2>1. VertexFound(s, v) /\ Call(t, r)
      BY <1>4 DEF GetVertex, s
    <2>2. /\ TxOK(r) /\ r.batch = s.batch /\ r.base = s.base /\ r.delta = s.delta
          /\ VertexOK(r, v)
          /\ \A u \in Vertex \ {v} : SameVertex(s, r, u)
      BY <1>1, <1>3, <2>1, VertexGotIs
    <2> HIDE DEF r
    <2>3. \A u \in Vertex : VertexOK(r, u)
      BY <1>3, <2>2, SameVertexOK
    <2>4. Exact(r)
      BY <1>3, <2>2, SameStill, SameBatchExact
    <2>5. View(r) = View(s)
      BY <2>2 DEF View, VisibleEdges, Visible, Read
    <2>6. ViewStep(s, r)
      BY <2>3, <2>4, <2>5 DEF ViewStep, ViewOK, Operation
    <2>7. QED
      BY <2>1, <2>6 DEF ViewCall, s
  <1>5. ASSUME NEW c \in Content, PutVertexNew(t, v, c)
        PROVE  ViewCall(t)
    <2> DEFINE d == [k \in Stats |-> IF k \in {VertexTotal} \cup {"label"} \X Norm(c.labels)
                                     THEN 1 ELSE 0]
               r == VertexStored(
                      Written(Added(s, d),
                              LabelRows(v, Norm(c.labels))
                                  \cup PropRows(v, {c.prop} \ {Absent}),
                              Row), v, c)
    <2>1. ~VertexFound(s, v) /\ Call(t, r)
      BY <1>5 DEF PutVertexNew, s
    <2>2. PutTo(s, r, v, c)
      BY <1>1, <1>3, <2>1, VertexNewIs
    <2> HIDE DEF r
    <2>3. ViewStep(s, r)
      BY <1>3, <2>2, PutView
    <2>4. QED
      BY <2>1, <2>3 DEF ViewCall, s
  <1>6. ASSUME NEW c \in Content, PutVertexBatch(t, v, c)
        PROVE  ViewCall(t)
    <2>1. PutTo(s, VertexPut(s, v, c), v, c)
      BY <1>1, <1>3, VertexPutIs
    <2>2. ViewStep(s, VertexPut(s, v, c))
      BY <1>3, <2>1, PutView
    <2>3. QED
      BY <1>6, <2>2 DEF PutVertexBatch, ViewCall, s
  <1>7. ASSUME NEW p \in Prop \cup {Absent}, PatchVertexProperties(t, v, p)
        PROVE  ViewCall(t)
    <2> DEFINE r == VertexGot(s, v)
               c == [r.cache[v] EXCEPT !.prop = p]
               q == VertexPut(r, v, c)
    <2>1. VertexFound(s, v) /\ Call(t, q)
      BY <1>7 DEF PatchVertexProperties, s
    <2>2. c \in Content /\ PutTo(s, q, v, c)
      BY <1>1, <1>3, <2>1, VertexPatchIs
    <2> HIDE DEF q, c
    <2>3. ViewStep(s, q)
      BY <1>3, <2>2, PutView
    <2>4. QED
      BY <2>1, <2>3 DEF ViewCall, s
  <1>8. QED
    BY <1>2, <1>4, <1>5, <1>6, <1>7

LEMMA EdgeStepView ==
  ASSUME Inv, NEW t \in Tx, ViewOK(tx[t]), EdgeStep(t)
  PROVE  ViewCall(t)
  <1> DEFINE s == tx[t]
  <1>1. TxOK(s) /\ TxRows(s) /\ ValuesOK(db, {Absent}) /\ RowsAgree /\ ViewOK(s)
    BY DEF Inv, TypeOK
  <1> HIDE DEF s
  <1>2. LoadableEdges(s) = VisibleEdges(s)
    BY <1>1, EdgeRowsSeen
  <1>3. ASSUME NEW E \in SUBSET Edge, NEW N, N = E \ VisibleEdges(s),
               \/ \A e \in E : EndpointsVisible(s, e)
               \/ E \subseteq VisibleEdges(s)
        PROVE  ViewStep(s, Written(Tallied(s, N, 1), Rows(E), Row))
    <2> DEFINE r == Written(Tallied(s, N, 1), Rows(E), Row)
    <2>1. ViewOK(r) /\ \A v \in Vertex : SameVertex(s, r, v)
      BY <1>1, <1>3, EdgesWrittenView
    <2>2. VisibleEdges(r) = VisibleEdges(s) \cup E
      BY <1>1, <1>3, EdgesWrittenIs
    <2> HIDE DEF r
    <2>3. View(r) = [View(s) EXCEPT !.edges = VisibleEdges(s) \cup E]
      BY <2>1, <2>2, SameVerticesView
    <2>4. CASE \A e \in E : EndpointsVisible(s, e)
      <3>1. \A e \in E : /\ View(s).vertices[Src[e]] # Absent
                         /\ View(s).vertices[Dst[e]] # Absent
        BY <2>4, EdgeAssumption DEF EndpointsVisible, Visible, View
      <3>2. View(r) = [View(s) EXCEPT !.edges = View(s).edges \cup E]
        BY <2>3 DEF View
      <3>3. Operation(View(s), View(r))
        BY <3>1, <3>2 DEF Operation
      <3>4. QED
        BY <2>1, <3>3 DEF ViewStep, r
    <2>5. CASE E \subseteq VisibleEdges(s)
      <3>1. VisibleEdges(s) \cup E = VisibleEdges(s)
        BY <2>5
      <3>2. View(r) = View(s)
        BY <2>3, <3>1 DEF View
      <3>3. QED
        BY <2>1, <3>2 DEF ViewStep, Operation, r
    <2>6. QED
      BY <1>3, <2>4, <2>5
  <1>4. ASSUME NEW E \in Batches(Edge), PutEdgeNewBatch(t, E)
        PROVE  ViewCall(t)
    <2>1. E \in SUBSET Edge /\ \A e \in E : EndpointsVisible(s, e)
      BY <1>4 DEF PutEdgeNewBatch, Batches, s
    <2>2. E = E \ VisibleEdges(s)
      BY <1>4 DEF PutEdgeNewBatch, VisibleEdges, s
    <2>3. ViewStep(s, Written(Tallied(s, E, 1), Rows(E), Row))
      BY <1>3, <2>1, <2>2
    <2>4. QED
      BY <1>4, <2>3 DEF PutEdgeNewBatch, ViewCall, s
  <1>5. ASSUME NEW E \in Batches(Edge), PutEdgeBatch(t, E)
        PROVE  ViewCall(t)
    <2>1. E \in SUBSET Edge /\ \A e \in E : EndpointsVisible(s, e)
      BY <1>5 DEF PutEdgeBatch, Batches, s
    <2>2. ViewStep(s, EdgesPut(s, E))
      BY <1>2, <1>3, <2>1 DEF EdgesPut
    <2>3. QED
      BY <1>5, <2>2 DEF PutEdgeBatch, ViewCall, s
  <1>6. ASSUME NEW e \in Edge, PatchEdgeProperties(t, e)
        PROVE  ViewCall(t)
    <2>1. {e} \subseteq VisibleEdges(s) /\ Call(t, EdgesPut(s, {e}))
      BY <1>6 DEF PatchEdgeProperties, LoadableEdges, s
    <2>2. ViewStep(s, EdgesPut(s, {e}))
      BY <1>2, <1>3, <2>1 DEF EdgesPut
    <2>3. QED
      BY <2>1, <2>2 DEF ViewCall, s
  <1>7. ASSUME NEW E \in Batches(Edge), DeleteEdgeBatch(t, E)
        PROVE  ViewCall(t)
    <2> DEFINE r == EdgesDeleted(s, E)
    <2>1. E \in SUBSET Edge
      BY DEF Batches
    <2>2. /\ ViewOK(r) /\ \A v \in Vertex : SameVertex(s, r, v)
          /\ VisibleEdges(r) = VisibleEdges(s) \ E
      BY <1>1, <2>1, EdgesDeletedView, EdgesDeletedIs
    <2>3. Call(t, r)
      BY <1>7 DEF DeleteEdgeBatch, s
    <2> HIDE DEF r
    <2>4. View(r) = [View(s) EXCEPT !.edges = View(s).edges \ E]
      BY <2>2, SameVerticesView DEF View
    <2>5. ViewStep(s, r)
      BY <2>1, <2>2, <2>4 DEF ViewStep, Operation
    <2>6. QED
      BY <2>3, <2>5 DEF ViewCall, s
  <1>8. QED
    BY <1>4, <1>5, <1>6, <1>7 DEF EdgeStep

LEMMA GoneView ==
  ASSUME NEW s, NEW r, NEW V \in SUBSET Vertex, Gone(s, r, V),
         VisibleEdges(r) = VisibleEdges(s)
             \ {e \in VisibleEdges(s) : {Src[e], Dst[e]} \cap V # {}}
  PROVE  View(r) = Without(View(s), V)
  <1> DEFINE f == [v \in Vertex |-> Read(s, <<"v", v>>)]
             h == [v \in Vertex |-> Read(r, <<"v", v>>)]
             k == [v \in Vertex |-> IF v \in V THEN Absent ELSE f[v]]
  <1>1. \A v \in Vertex : Read(r, <<"v", v>>) =
                            IF v \in V THEN Absent ELSE Read(s, <<"v", v>>)
    BY DEF Gone, SameVertex, Sees
  <1>2. h = k
    BY <1>1
  <1> HIDE DEF f, h
  <1>3. /\ View(s) = [vertices |-> f, edges |-> VisibleEdges(s)]
        /\ View(r) = [vertices |-> h, edges |-> VisibleEdges(r)]
    BY DEF View, f, h
  <1>4. View(s).vertices = f /\ View(s).edges = VisibleEdges(s)
    BY <1>3
  <1>5. Without(View(s), V) = [vertices |-> k, edges |-> VisibleEdges(r)]
    BY <1>4 DEF Without
  <1>6. QED
    BY <1>2, <1>3, <1>5

\* Deletions find the same edges however many counters have been read.
LEMMA SameScans ==
  ASSUME NEW s, NEW V \in SUBSET Vertex, TxRows(s), RowsAgree, OneKind
  PROVE  /\ UNION {IncidentEdges(s, v, ScannedTypes(s)) : v \in V} =
                {e \in VisibleEdges(s) : {Src[e], Dst[e]} \cap V # {}}
         /\ AdjacentEdges(s, V) = {e \in VisibleEdges(s) : {Src[e], Dst[e]} \cap V # {}}
  <1>1. /\ \A v \in V : IncidentEdges(s, v, ScannedTypes(s)) =
                            {e \in VisibleEdges(s) : Src[e] = v \/ Dst[e] = v}
        /\ AdjacentEdges(s, V) = {e \in VisibleEdges(s) : Src[e] \in V \/ Dst[e] \in V}
    BY ScansFindAll
  <1>2. QED
    BY <1>1

\* Vertices deleted in s with no edge of them in sight.
LEMMA DeletedView ==
  ASSUME NEW s, TxOK(s), ValuesOK(db, {Absent}), ViewOK(s),
         NEW V \in SUBSET Vertex, V \subseteq VisibleVertices(s)
  PROVE  LET r == VerticesDeleted(s, V)
         IN  /\ ViewOK(r) /\ Gone(s, r, V)
             /\ VisibleEdges(r) = VisibleEdges(s)
  BY VerticesDeletedView, VerticesDeletedIs

LEMMA SameThenGone ==
  ASSUME NEW s, NEW q, NEW r, NEW V \in SUBSET Vertex,
         \A v \in Vertex : SameVertex(s, q, v), Gone(q, r, V)
  PROVE  Gone(s, r, V)
  BY SameVertexTrans DEF Gone

\* deleteVertexBatch with detach takes exactly the vertices it finds.
LEMMA DetachView ==
  ASSUME NEW s, TxOK(s), TxRows(s), ValuesOK(db, {Absent}), RowsAgree, ViewOK(s),
         NEW found \in SUBSET VisibleVertices(s), NEW K, NEW few \in BOOLEAN
  PROVE  LET r == CountersRead(s, K)
             edges == IF few
                      THEN UNION {IncidentEdges(s, v, ScannedTypes(s)) : v \in found}
                      ELSE AdjacentEdges(s, found)
             w == VerticesDeleted(EdgesDeleted(r, edges), found)
         IN  /\ ViewOK(w) /\ Gone(s, w, found)
             /\ OneKind => View(w) = Without(View(s), found)
  <1> DEFINE r     == CountersRead(s, K)
             edges == IF few
                      THEN UNION {IncidentEdges(s, v, ScannedTypes(s)) : v \in found}
                      ELSE AdjacentEdges(s, found)
             q     == EdgesDeleted(r, edges)
             w     == VerticesDeleted(q, found)
  <1>1. /\ TxOK(r) /\ r.batch = s.batch /\ ViewOK(r)
        /\ \A v \in Vertex : SameVertex(s, r, v)
        /\ VisibleEdges(r) = VisibleEdges(s) /\ VisibleVertices(r) = VisibleVertices(s)
    BY CountersReadView
  <1> HIDE DEF r
  <1>2. TxRows(r)
    BY <1>1, SameView
  <1>3. edges \in SUBSET Edge /\ found \in SUBSET Vertex
    BY DEF IncidentEdges, LoadableEdges, VisibleEdges, AdjacentEdges, VisibleVertices
  <1>4. OneKind => edges = {e \in VisibleEdges(s) : {Src[e], Dst[e]} \cap found # {}}
    BY <1>3, SameScans
  <1> HIDE DEF edges
  <1>5. /\ ViewOK(q) /\ \A v \in Vertex : SameVertex(r, q, v)
        /\ TxOK(q) /\ VisibleEdges(q) = VisibleEdges(r) \ edges
        /\ VisibleVertices(q) = VisibleVertices(r)
    BY <1>1, <1>2, <1>3, EdgesDeletedView, EdgesDeletedIs
  <1> HIDE DEF q
  <1>6. /\ ViewOK(w) /\ Gone(q, w, found) /\ VisibleEdges(w) = VisibleEdges(q)
    BY <1>1, <1>3, <1>5, DeletedView
  <1> HIDE DEF w
  <1>7. Gone(s, w, found)
    BY <1>1, <1>3, <1>5, <1>6, SameVertexTrans, SameThenGone
  <1>8. OneKind => View(w) = Without(View(s), found)
    BY <1>1, <1>3, <1>4, <1>5, <1>6, <1>7, GoneView
  <1>9. QED
    BY <1>6, <1>7, <1>8 DEF w, q, edges, r

\* The purge of a full selection takes exactly the vertices that are there.
LEMMA PurgeView ==
  ASSUME NEW s, TxOK(s), ValuesOK(db, {Absent}), ViewOK(s),
         NEW found \in SUBSET VisibleVertices(s), FullSelection(s, found)
  PROVE  LET r == Purged(s)
         IN  /\ ViewOK(r) /\ Gone(s, r, found)
             /\ Closed(s) => View(r) = Without(View(s), found)
  <1> DEFINE r == Purged(s)
  <1>1. ViewOK(r) /\ Gone(s, r, Vertex) /\ VisibleEdges(r) = {}
    BY PurgedView
  <1> HIDE DEF r
  <1>2. found = VisibleVertices(s)
    BY FullSelectionIsFull DEF ViewOK
  <1>3. Gone(s, r, found)
    <2>1. ASSUME NEW u \in Vertex \ found
          PROVE  SameVertex(s, r, u)
      <3>1. Sees(r, u, Absent, {}, {}) /\ r.cache[u] = Absent
        BY <1>1 DEF Gone
      <3>2. Read(s, <<"v", u>>) = Absent
        BY <1>2 DEF VisibleVertices, Visible
      <3>3. VisibleLabels(s, u) = {} /\ VisibleProps(s, u) = {} /\ s.cache[u] = Absent
        BY <3>2 DEF ViewOK, VertexOK, Matching
      <3>4. QED
        BY <3>1, <3>2, <3>3 DEF SameVertex, Sees
    <2>2. found \subseteq Vertex
      BY DEF VisibleVertices
    <2>3. QED
      BY <1>1, <2>1, <2>2 DEF Gone
  <1>4. ASSUME Closed(s)
        PROVE  View(r) = Without(View(s), found)
    <2>1. \A e \in VisibleEdges(s) : Src[e] \in found
      BY <1>2, <1>4, ClosedIs
    <2>2. {e \in VisibleEdges(s) : {Src[e], Dst[e]} \cap found # {}} = VisibleEdges(s)
      BY <2>1
    <2>3. found \in SUBSET Vertex
      BY DEF VisibleVertices
    <2>4. QED
      BY <1>1, <1>3, <2>2, <2>3, GoneView
  <1>5. QED
    BY <1>1, <1>3, <1>4 DEF r

\* What a call of deleteVertexBatch with detach leaves: all but the
\* vertices given are seen as before.
LEMMA DetachStepView ==
  ASSUME Inv, NEW t \in Tx, ViewOK(tx[t]),
         NEW V \in Batches(Vertex), DeleteVertexDetachBatch(t, V)
  PROVE  \E r : /\ Call(t, r) /\ ViewStep(tx[t], r)
                /\ \A u \in Vertex \ V : Read(r, <<"v", u>>) = Read(tx[t], <<"v", u>>)
  <1> DEFINE s     == tx[t]
             found == V \cap VisibleVertices(s)
             few   == found # {} /\ Cardinality(found) < DetachScanThreshold
             K     == {VertexTotal} \cup (IF few THEN {EdgeTotal} ELSE {})
             r     == CountersRead(s, K)
             edges == IF few
                      THEN UNION {IncidentEdges(s, v, ScannedTypes(s)) : v \in found}
                      ELSE AdjacentEdges(s, found)
             w     == VerticesDeleted(EdgesDeleted(r, edges), found)
             q     == IF found = {} THEN s
                      ELSE IF FullSelection(s, found) THEN Purged(s)
                      ELSE w
  <1>1. TxOK(s) /\ TxRows(s) /\ ValuesOK(db, {Absent}) /\ RowsAgree /\ ViewOK(s)
    BY DEF Inv, TypeOK
  <1>2. Call(t, q)
    BY DEF DeleteVertexDetachBatch
  <1> HIDE DEF s
  <1>3. /\ found \in SUBSET VisibleVertices(s) /\ found \in SUBSET Vertex
        /\ found \subseteq V /\ few \in BOOLEAN
    BY DEF Batches
  <1> HIDE DEF found, few, K
  <1>4. /\ ViewOK(w) /\ Gone(s, w, found)
        /\ OneKind => View(w) = Without(View(s), found)
    BY <1>1, <1>3, DetachView
  <1> HIDE DEF w
  <1>5. FullSelection(s, found) =>
            /\ ViewOK(Purged(s)) /\ Gone(s, Purged(s), found)
            /\ Closed(s) => View(Purged(s)) = Without(View(s), found)
    BY <1>1, <1>3, PurgeView
  <1>6. found = {} => q = s
    OBVIOUS
  <1>7. found # {} => /\ ViewOK(q) /\ Gone(s, q, found)
                      /\ OneKind /\ Closed(s) => View(q) = Without(View(s), found)
    BY <1>4, <1>5
  <1> HIDE DEF q
  <1>8. ViewStep(s, q)
    BY <1>1, <1>3, <1>6, <1>7 DEF ViewStep, Operation
  <1>9. \A u \in Vertex \ V : Read(q, <<"v", u>>) = Read(s, <<"v", u>>)
    BY <1>3, <1>6, <1>7 DEF Gone, SameVertex, Sees
  <1>10. QED
    BY <1>2, <1>8, <1>9 DEF s

LEMMA DeleteVertexStepView ==
  ASSUME Inv, NEW t \in Tx, ViewOK(tx[t]), DeleteVertexStep(t)
  PROVE  ViewCall(t)
  <1> DEFINE s == tx[t]
  <1>1. TxOK(s) /\ TxRows(s) /\ ValuesOK(db, {Absent}) /\ RowsAgree /\ ViewOK(s)
    BY DEF Inv, TypeOK
  <1> HIDE DEF s
  <1>2. ASSUME NEW V \in Batches(Vertex), DeleteVertexBatch(t, V)
        PROVE  ViewCall(t)
    <2> DEFINE r == TypesRead(s)
               W == V \cap VisibleVertices(s)
               connected == \E v \in V : IncidentEdges(s, v, ScannedTypes(s)) # {}
               q == IF connected THEN r ELSE VerticesDeleted(r, W)
    <2>1. W \in SUBSET Vertex /\ W \subseteq V /\ W \subseteq VisibleVertices(s)
      BY DEF Batches
    <2>2. Call(t, q)
      BY <1>2 DEF DeleteVertexBatch, s
    <2>3. /\ TxOK(r) /\ r.batch = s.batch /\ ViewOK(r)
          /\ \A v \in Vertex : SameVertex(s, r, v)
          /\ VisibleEdges(r) = VisibleEdges(s) /\ VisibleVertices(r) = VisibleVertices(s)
      BY <1>1, CountersReadView DEF TypesRead
    <2> HIDE DEF r, W, q
    <2>4. ViewStep(s, r)
      <3>1. View(r) = View(s)
        BY <2>3, SameVerticesView DEF View
      <3>2. QED
        BY <2>3, <3>1 DEF ViewStep, Operation
    <2>5. /\ ViewOK(VerticesDeleted(r, W)) /\ Gone(r, VerticesDeleted(r, W), W)
          /\ VisibleEdges(VerticesDeleted(r, W)) = VisibleEdges(r)
      BY <1>1, <2>1, <2>3, DeletedView
    <2>6. Gone(s, VerticesDeleted(r, W), W)
      BY <2>1, <2>3, <2>5, SameThenGone
    <2>7. ~connected /\ OneKind => View(VerticesDeleted(r, W)) = Without(View(s), W)
      <3> SUFFICES ASSUME ~connected, OneKind
                   PROVE  View(VerticesDeleted(r, W)) = Without(View(s), W)
        OBVIOUS
      <3>1. UNION {IncidentEdges(s, v, ScannedTypes(s)) : v \in W} = {}
        BY <2>1
      <3>2. {e \in VisibleEdges(s) : {Src[e], Dst[e]} \cap W # {}} = {}
        BY <1>1, <2>1, <3>1, SameScans
      <3>3. QED
        BY <2>1, <2>3, <2>5, <2>6, <3>2, GoneView
    <2> HIDE DEF connected
    <2>8. ~connected => ViewStep(s, VerticesDeleted(r, W))
      BY <2>1, <2>5, <2>7 DEF ViewStep, Operation
    <2>9. ViewStep(s, q)
      BY <2>4, <2>8 DEF q
    <2>10. QED
      BY <2>2, <2>9 DEF ViewCall, s
  <1>3. ASSUME NEW V \in Batches(Vertex), DeleteVertexDetachBatch(t, V)
        PROVE  ViewCall(t)
    BY <1>1, <1>3, DetachStepView DEF ViewCall, s
  <1>4. QED
    BY <1>2, <1>3 DEF DeleteVertexStep

-----------------------------------------------------------------------------
(* The invariant and the theorems.                                         *)

\* What is committed, and what the writer sees, is sound: rows match their
\* records, the cache is that of the view and the counters stand at what
\* there is to count.
ViewInv ==
    /\ Inv
    /\ ViewOK(Idle)
    /\ \A t \in Tx : ViewOK(tx[t])

\* A transaction sees the same as long as nobody commits.
LEMMA ViewKept ==
  ASSUME NEW r, db' = db
  PROVE  /\ \A k : Read(r, k)' = Read(r, k)
         /\ VisibleEdges(r)' = VisibleEdges(r)
         /\ View(r)' = View(r)
         /\ ViewOK(r) => ViewOK(r)'
  <1>1. \A k : Read(r, k)' = Read(r, k)
    BY DEF Read
  <1>2. /\ VisibleEdges(r)' = VisibleEdges(r)
        /\ VisibleVertices(r)' = VisibleVertices(r)
    BY <1>1 DEF VisibleEdges, VisibleVertices, Visible
  <1>3. \A v : /\ VisibleLabels(r, v)' = VisibleLabels(r, v)
               /\ VisibleProps(r, v)' = VisibleProps(r, v)
    BY <1>1 DEF VisibleLabels, VisibleProps, Visible
  <1>4. /\ \A l : With(r, l)' = With(r, l)
        /\ \A k : OfType(r, k)' = OfType(r, k)
    BY <1>1, <1>2 DEF With, OfType
  <1>5. View(r)' = View(r)
    BY <1>1, <1>2 DEF View
  <1>6. \A v \in Vertex : VertexOK(r, v) => VertexOK(r, v)'
    BY <1>1, <1>3 DEF VertexOK, Matching
  <1>7. \A k, n : Stands(r, k, n) => Stands(r, k, n)'
    BY <1>1 DEF Stands, Visible
  <1>8. Exact(r) => Exact(r)'
    BY <1>2, <1>4, <1>7 DEF Exact
  <1>9. QED
    BY <1>1, <1>2, <1>5, <1>6, <1>8 DEF ViewOK

\* A transaction that has cached nothing and added nothing stands at what
\* the database holds.
LEMMA StandsCommitted ==
  ASSUME NEW k \in Counters, NEW n \in Nat
  PROVE  Stands(Idle, k, n) <=>
            IF db[k] = Absent THEN n = 0 ELSE db[k] + 0 = n
  <1>1. k \in Stats /\ k \in Key
    BY CountersPending, KeysDiffer
  <1>2. Idle.base[k] = Absent /\ Idle.delta[k] = 0
    BY <1>1 DEF Idle
  <1>3. Read(Idle, k) = db[k]
    BY <1>1, IdleOK DEF Read
  <1>4. QED
    BY <1>2, <1>3 DEF Stands, Visible

\* Flushing the increments leaves the counter where it stood.
LEMMA FlushedStands ==
  ASSUME NEW s, TxOK(s), ValuesOK(db, {Absent}),
         NEW k \in Counters, NEW n \in Nat, Stands(s, k, n)
  PROVE  LET x == IF Flushed(s)[k] = Unwritten THEN db[k] ELSE Flushed(s)[k]
         IN  IF x = Absent THEN n = 0 ELSE x + 0 = n
  <1>1. k \in Stats /\ k \in Key
    BY CountersPending, KeysDiffer
  <1>2. Read(s, k) \in Nat \cup {Absent}
    BY <1>1, ReadOK
  <1>3. s.base[k] \in Nat \cup {Absent} /\ s.delta[k] \in Int
    BY <1>1 DEF TxOK
  <1>4. Absent \notin Nat /\ Unwritten \notin Nat
    BY ValueAssumption
  <1>5. /\ s.base[k] # Absent => s.base[k] = Read(s, k)
        /\ (IF Visible(s, k) THEN Read(s, k) ELSE 0) + s.delta[k] = n
    BY DEF Stands
  <1> DEFINE b == IF s.base[k] # Absent THEN s.base[k]
                  ELSE IF Visible(s, k) THEN Read(s, k) ELSE 0
  <1>6. b \in Nat /\ b + s.delta[k] = n
    BY <1>2, <1>3, <1>4, <1>5 DEF Visible
  <1>7. Flushed(s)[k] = IF s.delta[k] # 0 THEN AtLeast0(b + s.delta[k]) ELSE s.batch[k]
    BY <1>1 DEF Flushed
  <1>8. CASE s.delta[k] # 0
    <2>1. Flushed(s)[k] = n
      BY <1>6, <1>7, <1>8 DEF AtLeast0
    <2>2. QED
      BY <1>4, <2>1
  <1>9. CASE s.delta[k] = 0
    <2>1. (IF Flushed(s)[k] = Unwritten THEN db[k] ELSE Flushed(s)[k]) = Read(s, k)
      BY <1>7, <1>9 DEF Read
    <2>2. IF Read(s, k) = Absent THEN n = 0 ELSE Read(s, k) + 0 = n
      BY <1>5, <1>9 DEF Visible
    <2>3. QED
      BY <2>1, <2>2
  <1>10. QED
    BY <1>8, <1>9

\* A commit makes what its transaction saw what everybody sees.
LEMMA CommitView ==
  ASSUME Inv, NEW t \in Tx, ViewOK(tx[t]), Commit(t)
  PROVE  /\ ViewOK(Idle)'
         /\ View(Idle)' = View(tx[t])
  <1> DEFINE s == tx[t]
             b == Flushed(s)
  <1>1. TxOK(s) /\ ValuesOK(db, {Absent}) /\ ViewOK(s)
    BY DEF Inv, TypeOK
  <1>2. db' = [k \in Key |-> IF b[k] = Unwritten THEN db[k] ELSE b[k]]
    BY DEF Commit
  <1>3. \A k \in VertexKeys \cup RowKeys : db'[k] = Read(s, k)
    BY CommitIs
  <1> HIDE DEF s
  <1>4. \A k \in VertexKeys \cup RowKeys : Read(Idle, k)' = Read(s, k)
    BY <1>3, IdleOK, KeysDiffer DEF Read
  <1>5. /\ \A v \in Vertex : Read(Idle, <<"v", v>>)' = Read(s, <<"v", v>>)
        /\ \A e \in Edge : Read(Idle, <<"e", e>>)' = Read(s, <<"e", e>>)
    BY <1>4, KeysNamed, EdgeRowKeys
  <1>6. \A v \in Vertex : VisibleLabels(Idle, v)' = VisibleLabels(s, v)
    <2>1. \A v \in Vertex, l \in StoredLabel : <<"vl", v, l>> \in RowKeys
      BY DEF RowKeys, LabelKeys
    <2>2. QED
      BY <1>4, <2>1 DEF VisibleLabels, Visible
  <1>7. \A v \in Vertex : VisibleProps(Idle, v)' = VisibleProps(s, v)
    <2>1. \A v \in Vertex, p \in Prop : <<"vp", v, p>> \in RowKeys
      BY DEF RowKeys, PropKeys
    <2>2. QED
      BY <1>4, <2>1 DEF VisibleProps, Visible
  <1>8. /\ VisibleVertices(Idle)' = VisibleVertices(s)
        /\ VisibleEdges(Idle)' = VisibleEdges(s)
    BY <1>5 DEF VisibleVertices, VisibleEdges, Visible
  <1>9. /\ \A l : With(Idle, l)' = With(s, l)
        /\ \A k : OfType(Idle, k)' = OfType(s, k)
    <2>1. VisibleVertices(s) \subseteq Vertex
      BY DEF VisibleVertices
    <2>2. QED
      BY <1>5, <1>8, <2>1 DEF With, OfType
  <1>10. \A v \in Vertex : VertexOK(Idle, v)'
    <2>1. \A v \in Vertex : Idle.cache[v] = Absent
      BY DEF Idle
    <2>2. \A v \in Vertex : VertexOK(s, v)
      BY <1>1 DEF ViewOK
    <2>3. QED
      BY <1>5, <1>6, <1>7, <2>1, <2>2 DEF VertexOK, Matching
  <1>11. ASSUME NEW k \in Counters, NEW n \in Nat, Stands(s, k, n)
         PROVE  Stands(Idle, k, n)'
    <2>1. k \in Stats /\ k \in Key
      BY CountersPending, KeysDiffer
    <2>2. IF db'[k] = Absent THEN n = 0 ELSE db'[k] + 0 = n
      BY <1>1, <1>2, <1>11, <2>1, FlushedStands
    <2>3. Idle.base[k] = Absent /\ Idle.delta[k] = 0
      BY <2>1 DEF Idle
    <2>4. Read(Idle, k)' = db'[k]
      BY <2>1, IdleOK DEF Read
    <2>5. QED
      BY <2>2, <2>3, <2>4 DEF Stands, Visible
  <1>12. Exact(Idle)'
    BY <1>1, <1>8, <1>9, <1>11, SeenFinite, CountersPending DEF ViewOK, Exact
  <1>13. View(Idle)' = View(s)
    BY <1>5, <1>8 DEF View
  <1>14. QED
    BY <1>10, <1>12, <1>13 DEF ViewOK, s

\* A transaction that begins sees what is committed.
LEMMA BegunView ==
  ASSUME ViewOK(Idle)
  PROVE  LET b == [Idle EXCEPT !.active = TRUE]
         IN  ViewOK(b) /\ View(b) = View(Idle)
  <1> DEFINE b == [Idle EXCEPT !.active = TRUE]
  <1>1. /\ b.batch = Idle.batch /\ b.base = Idle.base
        /\ b.delta = Idle.delta /\ b.cache = Idle.cache
    BY DEF Idle
  <1> HIDE DEF b
  <1>2. \A v \in Vertex : SameVertex(Idle, b, v)
    BY <1>1, SameBatchVertex
  <1>3. Exact(b)
    BY <1>1, SameStill, SameBatchExact DEF ViewOK
  <1>4. View(b) = View(Idle)
    <2>1. VisibleEdges(b) = VisibleEdges(Idle)
      BY <1>1 DEF VisibleEdges, Visible, Read
    <2>2. QED
      BY <1>2, <2>1, SameVerticesView DEF View
  <1>5. QED
    BY <1>2, <1>3, <1>4, SameVertexOK DEF ViewOK, b

\* Every step is a begin, a call that is a ViewStep, a commit or the end of
\* transactions.
LEMMA StepViews ==
  ASSUME ViewInv, Next
  PROVE  \/ \E t \in Tx : Begin(t)
         \/ \E t \in Tx : ViewCall(t)
         \/ \E t \in Tx : Commit(t)
         \/ \E t \in Tx : Rollback(t)
         \/ Crash
  BY VertexStepView, EdgeStepView, DeleteVertexStepView DEF Next, ViewInv

LEMMA ViewInvInit ==
  ASSUME Init
  PROVE  ViewInv
  <1>1. \A k \in Key : db[k] = Absent
    BY DEF Init
  <1>2. \A k \in Key : Read(Idle, k) = Absent
    BY <1>1, IdleOK DEF Read
  <1>3. \A v \in Vertex : Read(Idle, <<"v", v>>) = Absent /\ Idle.cache[v] = Absent
    BY <1>2, KeysNamed, KeysDiffer DEF Idle
  <1>4. \A v \in Vertex : VisibleLabels(Idle, v) = {} /\ VisibleProps(Idle, v) = {}
    BY <1>2, LabelRowNames, PropRowNames DEF VisibleLabels, VisibleProps, Visible
  <1>5. \A v \in Vertex : VertexOK(Idle, v)
    BY <1>3, <1>4 DEF VertexOK, Matching
  <1>6. VisibleVertices(Idle) = {} /\ VisibleEdges(Idle) = {}
    BY <1>2, <1>3, EdgeRowKeys, KeysDiffer DEF VisibleVertices, VisibleEdges, Visible
  <1>7. \A k \in Counters : Stands(Idle, k, 0)
    BY <1>1, CountersPending, KeysDiffer, StandsCommitted
  <1>8. Exact(Idle)
    <2>1. /\ \A l : With(Idle, l) = {}
          /\ \A k : OfType(Idle, k) = {}
      BY <1>6 DEF With, OfType
    <2>2. Cardinality({}) = 0
      BY FS_EmptySet
    <2>3. QED
      BY <1>6, <1>7, <2>1, <2>2, CountersPending DEF Exact
  <1>9. \A t \in Tx : tx[t] = Idle
    BY DEF Init
  <1>10. QED
    BY <1>5, <1>8, <1>9, InvInit DEF ViewInv, ViewOK

LEMMA ViewInvNext ==
  ASSUME OneWriter, ViewInv, [Next]_vars
  PROVE  ViewInv'
  <1> Inv'
    BY InvNext DEF ViewInv
  <1>1. PICK t \in Tx : Tx = {t}
    BY DEF OneWriter
  <1>2. DOMAIN tx = Tx /\ Inv /\ ViewOK(Idle) /\ ViewOK(tx[t])
    BY DEF ViewInv, Inv, TypeOK
  <1>3. ASSUME NEW r, db' = db, tx'[t] = r, ViewOK(r)
        PROVE  ViewInv'
    <2>1. ViewOK(Idle)'
      BY <1>2, <1>3, ViewKept
    <2>2. ViewOK(r)'
      BY <1>3, ViewKept
    <2>3. QED
      BY <1>1, <1>3, <2>1, <2>2 DEF ViewInv
  <1>4. CASE Begin(t)
    <2> DEFINE b == [Idle EXCEPT !.active = TRUE]
    <2>1. tx'[t] = b /\ db' = db
      BY <1>2, <1>4 DEF Begin
    <2>2. ViewOK(b)
      BY <1>2, BegunView
    <2> HIDE DEF b
    <2>3. QED
      BY <1>3, <2>1, <2>2
  <1>5. CASE ViewCall(t)
    <2>1. PICK r : Call(t, r) /\ ViewStep(tx[t], r)
      BY <1>5 DEF ViewCall
    <2>2. tx'[t] = r /\ db' = db
      BY <1>2, <2>1 DEF Call
    <2>3. QED
      BY <1>3, <2>1, <2>2 DEF ViewStep
  <1>6. CASE Commit(t)
    <2>1. ViewOK(Idle)'
      BY <1>2, <1>6, CommitView
    <2>2. tx'[t] = Idle
      BY <1>2, <1>6 DEF Commit
    <2>3. QED
      BY <1>1, <2>1, <2>2 DEF ViewInv
  <1>7. CASE Rollback(t) \/ Crash
    <2>1. tx'[t] = Idle /\ db' = db
      BY <1>2, <1>7 DEF Rollback, Crash
    <2>2. QED
      BY <1>2, <1>3, <2>1
  <1>8. CASE UNCHANGED vars
    <2>1. tx'[t] = tx[t] /\ db' = db
      BY <1>8 DEF vars
    <2>2. QED
      BY <1>2, <1>3, <2>1
  <1>9. QED
    BY <1>1, <1>2, <1>4, <1>5, <1>6, <1>7, <1>8, StepViews

LEMMA ViewInvAlways ==
  ASSUME OneWriter
  PROVE  Spec => []ViewInv
  BY ViewInvInit, ViewInvNext, PTL DEF Spec

\* A sound view of what is committed is what the properties ask of it.
LEMMA CommittedView ==
  ASSUME Inv, ViewOK(Idle)
  PROVE  VertexRowsMatch /\ CountersExact
  <1>1. /\ \A k \in Key : Read(Idle, k) = db[k]
        /\ \A k : k \in VertexKeys \cup RowKeys => k \in Key
    BY IdleOK, KeysDiffer DEF Read
  <1>2. /\ \A v \in Vertex : Read(Idle, <<"v", v>>) = db[<<"v", v>>]
        /\ \A e \in Edge : Read(Idle, <<"e", e>>) = db[<<"e", e>>]
    BY <1>1, KeysNamed, EdgeRowKeys
  <1>3. VertexRowsMatch
    <2> SUFFICES ASSUME NEW v \in Vertex
                 PROVE  Matching(db[<<"v", v>>],
                                 {l \in StoredLabel : db[<<"vl", v, l>>] # Absent},
                                 {p \in Prop : db[<<"vp", v, p>>] # Absent})
      BY DEF VertexRowsMatch, Matching
    <2>1. VisibleLabels(Idle, v) = {l \in StoredLabel : db[<<"vl", v, l>>] # Absent}
      BY <1>1, LabelRowNames DEF VisibleLabels, Visible
    <2>2. VisibleProps(Idle, v) = {p \in Prop : db[<<"vp", v, p>>] # Absent}
      BY <1>1, PropRowNames DEF VisibleProps, Visible
    <2>3. QED
      BY <1>2, <2>1, <2>2 DEF ViewOK, VertexOK
  <1> DEFINE V == {v \in Vertex : db[<<"v", v>>] # Absent}
             E == {e \in Edge : db[<<"e", e>>] # Absent}
             EE(k) == {e \in E : Type[e] = k}
             VV(l) == {v \in V : l \in db[<<"v", v>>].labels}
             Committed(k) == IF db[k] = Absent THEN 0 ELSE db[k]
  <1>4. VisibleVertices(Idle) = V /\ VisibleEdges(Idle) = E
    BY <1>2 DEF VisibleVertices, VisibleEdges, Visible
  <1>5. /\ \A l : With(Idle, l) = VV(l)
        /\ \A k : OfType(Idle, k) = EE(k)
    BY <1>2, <1>4 DEF With, OfType
  <1>6. \A k \in Counters, n \in Nat : Stands(Idle, k, n) => Committed(k) = n
    <2> SUFFICES ASSUME NEW k \in Counters, NEW n \in Nat,
                        IF db[k] = Absent THEN n = 0 ELSE db[k] + 0 = n
                 PROVE  Committed(k) = n
      BY StandsCommitted
    <2>1. db[k] \in Nat \cup {Absent}
      BY CountersPending DEF Inv, TypeOK, ValuesOK
    <2>2. QED
      BY <2>1
  <1> HIDE DEF V, E, EE, VV, Committed
  <1>7. /\ Committed(VertexTotal) = Cardinality(V)
        /\ Committed(EdgeTotal) = Cardinality(E)
        /\ \A k \in Kind : Committed(<<"edge_type", k>>) = Cardinality(EE(k))
        /\ \A l \in Label : Committed(<<"label", l>>) = Cardinality(VV(l))
    BY <1>4, <1>5, <1>6, SeenFinite, CountersPending DEF ViewOK, Exact
  <1>8. CountersExact
    BY <1>7 DEF CountersExact, V, E, EE, VV, Committed
  <1>9. QED
    BY <1>3, <1>8

\* With one writer, the label and property rows of every committed vertex
\* are those of its record, and a vertex that is gone has left none, for
\* any labels, values, batches and number of calls (putVertexesByMeta,
\* PutVertexNew, deleteVerticesByMeta, the purge).
THEOREM VertexRowsMatchAlways ==
  ASSUME OneWriter
  PROVE  Spec => []VertexRowsMatch
  <1>1. ViewInv => VertexRowsMatch
    BY CommittedView DEF ViewInv
  <1>2. QED
    BY <1>1, ViewInvAlways, PTL

\* With one writer, the totals and the counts by type and by label are
\* exact in every committed state: what addToCounter leaves pending,
\* flushCounterDeltas adds to the value it was counted from.
THEOREM CountersExactAlways ==
  ASSUME OneWriter
  PROVE  Spec => []CountersExact
  <1>1. ViewInv => CountersExact
    BY CommittedView DEF ViewInv
  <1>2. QED
    BY <1>1, ViewInvAlways, PTL

\* With one writer, a cached vertex is the one the transaction's view holds,
\* so that a patch never writes back what is gone (cacheVertex,
\* dropVertexCache, the purge's clearing of the cache).
THEOREM CacheCoherentAlways ==
  ASSUME OneWriter
  PROVE  Spec => []CacheCoherent
  <1>1. ViewInv => CacheCoherent
    BY DEF ViewInv, ViewOK, VertexOK, CacheCoherent
  <1>2. QED
    BY <1>1, ViewInvAlways, PTL

\* With one writer, DETACH DELETE takes no vertex it was not given, also
\* when isFullTenantVertexSelection makes it purge the tenant, whatever the
\* threshold and the sizes of the batches: the count it compares with is
\* exact in the transaction's own view.
THEOREM DetachSparesAlways ==
  ASSUME OneWriter
  PROVE  Spec => DetachSpares
  <1> DEFINE A == \A t \in Tx, V \in Batches(Vertex) : DeleteVertexDetachBatch(t, V) =>
                    \A v \in Vertex \ V :
                        Visible(tx[t], <<"v", v>>) => Visible(tx[t], <<"v", v>>)'
  <1>1. ViewInv => A
    <2> SUFFICES ASSUME ViewInv, NEW t \in Tx, NEW V \in Batches(Vertex),
                        DeleteVertexDetachBatch(t, V), NEW v \in Vertex \ V,
                        Visible(tx[t], <<"v", v>>)
                 PROVE  Visible(tx[t], <<"v", v>>)'
      OBVIOUS
    <2>1. Inv /\ ViewOK(tx[t]) /\ DOMAIN tx = Tx
      BY DEF ViewInv, Inv, TypeOK
    <2>2. PICK r : /\ Call(t, r)
                   /\ \A u \in Vertex \ V : Read(r, <<"v", u>>) = Read(tx[t], <<"v", u>>)
      BY <2>1, DetachStepView
    <2>3. tx'[t] = r /\ db' = db
      BY <2>1, <2>2 DEF Call
    <2>4. Read(r, <<"v", v>>) # Absent
      BY <2>2 DEF Visible
    <2>5. QED
      BY <2>3, <2>4 DEF Visible, Read
  <1> HIDE DEF A
  <1>2. Spec => [][A]_vars
    BY <1>1, ViewInvAlways, PTL
  <1>3. QED
    BY <1>2 DEF DetachSpares, A

-----------------------------------------------------------------------------
(***************************************************************************)
(* The store with one writer and one edge type implements PropertyGraph:   *)
(* what its readers return, from the cache and the rows, is the graph of   *)
(* the records and of the edges seen, and each step of the store is one    *)
(* operation of that graph, its begin or its end, or none.                 *)
(***************************************************************************)
\* What is sound to see and, with one edge type, closed.
GraphInv == ViewInv /\ ClosedInv

\* GetVertex and GetEdge return the records and the edges there are.
LEMMA ReadGraphIsView ==
  ASSUME NEW s, TxOK(s), TxRows(s), ValuesOK(db, {Absent}), RowsAgree, ViewOK(s)
  PROVE  ReadGraph(s) = View(s)
  <1> DEFINE f == [v \in Vertex |-> IF VertexFound(s, v) THEN VertexGot(s, v).cache[v]
                                                         ELSE Absent]
             h == [v \in Vertex |-> Read(s, <<"v", v>>)]
  <1>1. LoadableEdges(s) = VisibleEdges(s)
    BY EdgeRowsSeen
  <1>2. ASSUME NEW v \in Vertex
        PROVE  f[v] = h[v]
    <2>1. CASE VertexFound(s, v)
      <3>1. VertexGot(s, v).cache[v] = Read(s, <<"v", v>>)
        BY <2>1, VertexGotIs DEF ViewOK
      <3>2. QED
        BY <2>1, <3>1
    <2>2. CASE ~VertexFound(s, v)
      BY <2>2 DEF VertexFound, Visible
    <2>3. QED
      BY <2>1, <2>2
  <1>3. f = h
    <2>1. f = [v \in Vertex |-> f[v]] /\ h = [v \in Vertex |-> h[v]]
      OBVIOUS
    <2> HIDE DEF f, h
    <2>2. QED
      BY <1>2, <2>1
  <1> HIDE DEF f, h
  <1>4. ReadGraph(s) = [vertices |-> f, edges |-> LoadableEdges(s)]
    BY DEF ReadGraph, f
  <1>5. View(s) = [vertices |-> h, edges |-> VisibleEdges(s)]
    BY DEF View, h
  <1>6. QED
    BY <1>1, <1>3, <1>4, <1>5

\* The two variables of the abstract graph, for a writer t.
Mapped(t) ==
    /\ CommittedGraph = View(Idle)
    /\ WorkingCopy = IF tx[t].active THEN {View(tx[t])} ELSE {}

MappedOK == GraphInv => \A t \in Tx : Tx = {t} => Mapped(t)

LEMMA MappedNow == MappedOK
  <1> SUFFICES ASSUME GraphInv, NEW t \in Tx, Tx = {t}
               PROVE  Mapped(t)
    BY DEF MappedOK
  <1>1. /\ Inv /\ RowsAgree /\ ValuesOK(db, {Absent})
        /\ TxOK(tx[t]) /\ TxRows(tx[t]) /\ ViewOK(tx[t]) /\ ViewOK(Idle)
    BY DEF GraphInv, ViewInv, Inv, TypeOK
  <1>2. ReadGraph(tx[t]) = View(tx[t])
    BY <1>1, ReadGraphIsView
  <1>3. CommittedGraph = View(Idle)
    BY <1>1, IdleOK, IdleRows, ReadGraphIsView DEF CommittedGraph
  <1>4. WorkingCopy = IF tx[t].active THEN {ReadGraph(tx[t])} ELSE {}
    BY DEF WorkingCopy
  <1>5. QED
    BY <1>2, <1>3, <1>4 DEF Mapped

LEMMA MappedNext == MappedOK'
  BY MappedNow, PTL

\* A call leaves its transaction open.
LEMMA CallKeepsOpen ==
  ASSUME Inv, Next, NEW t \in Tx, Tx = {t}, NEW r, Call(t, r)
  PROVE  r.active
  <1>1. tx[t].active /\ tx' = [tx EXCEPT ![t] = r] /\ calls' = calls + 1
    BY DEF Call
  <1>2. DOMAIN tx = Tx /\ calls \in Nat
    BY DEF Inv, TypeOK
  <1>3. ~Begin(t)
    BY <1>1 DEF Begin
  <1>4. calls' # calls
    BY <1>1, <1>2
  <1>5. ~Commit(t) /\ ~Rollback(t) /\ ~Crash
    BY <1>4 DEF Commit, Rollback, Crash
  <1>6. CallStep(t)
    BY <1>3, <1>5, StepKinds
  <1>7. PICK q : Call(t, q) /\ CallOK(tx[t], q)
    BY <1>6 DEF CallStep
  <1>8. tx'[t] = r /\ tx'[t] = q
    BY <1>1, <1>2, <1>7 DEF Call
  <1>9. QED
    BY <1>1, <1>7, <1>8 DEF CallOK

\* An operation on what the writer sees is one of the abstract graph.
LEMMA OperationIsStep ==
  ASSUME NEW g, NEW h, Operation(g, h),
         WorkingCopy = {g}, WorkingCopy' = {h}, CommittedGraph' = CommittedGraph
  PROVE  [Graph!Next]_<<CommittedGraph, WorkingCopy>>
  <1>1. CASE h = g
    BY <1>1
  <1>2. ASSUME NEW v \in Vertex, NEW c \in Content, h = [g EXCEPT !.vertices[v] = c]
        PROVE  Graph!Next
    <2>1. Graph!PutVertex(v, c)
      BY <1>2 DEF Graph!PutVertex
    <2>2. QED
      BY <2>1 DEF Graph!Next
  <1>3. ASSUME NEW E \in SUBSET Edge,
               \A e \in E : g.vertices[Src[e]] # Absent /\ g.vertices[Dst[e]] # Absent,
               h = [g EXCEPT !.edges = g.edges \cup E]
        PROVE  Graph!Next
    <2>1. UNION {{Src[e], Dst[e]} : e \in E} \subseteq Graph!Present(g)
      BY <1>3, EdgeAssumption DEF Graph!Present
    <2>2. Graph!PutEdges(E)
      BY <1>3, <2>1 DEF Graph!PutEdges
    <2>3. QED
      BY <2>2 DEF Graph!Next
  <1>4. ASSUME NEW E \in SUBSET Edge, h = [g EXCEPT !.edges = g.edges \ E]
        PROVE  Graph!Next
    <2>1. Graph!DeleteEdges(E)
      BY <1>4 DEF Graph!DeleteEdges
    <2>2. QED
      BY <2>1 DEF Graph!Next
  <1>5. ASSUME NEW V \in SUBSET Vertex, h = Without(g, V)
        PROVE  Graph!Next
    <2>1. h = Graph!WithoutVertices(g, V)
      BY <1>5 DEF Without, Graph!WithoutVertices, Graph!Incident
    <2>2. Graph!DetachDeleteVertices(V)
      BY <2>1 DEF Graph!DetachDeleteVertices
    <2>3. QED
      BY <2>2 DEF Graph!Next
  <1>6. QED
    BY <1>1, <1>2, <1>3, <1>4, <1>5 DEF Operation

\* Nothing is committed, and nobody works on a copy, before the first begin.
LEMMA GraphInit ==
  ASSUME OneWriter, Init, GraphInv
  PROVE  Graph!Init
  <1>1. PICK t \in Tx : Tx = {t}
    BY DEF OneWriter
  <1>2. Mapped(t)
    BY <1>1, MappedNow DEF MappedOK
  <1>3. ~tx[t].active
    BY <1>1, IdleOK DEF Init
  <1>4. \A k \in Key : Read(Idle, k) = Absent
    BY IdleOK DEF Init, Read
  <1> DEFINE h == [v \in Vertex |-> Read(Idle, <<"v", v>>)]
             f == [v \in Vertex |-> Absent]
  <1>5. h = f /\ VisibleEdges(Idle) = {}
    BY <1>4, KeysNamed, EdgeRowKeys, KeysDiffer DEF VisibleEdges, Visible
  <1> HIDE DEF h, f
  <1>6. View(Idle) = [vertices |-> f, edges |-> {}]
    BY <1>5 DEF View, h
  <1>7. QED
    BY <1>2, <1>3, <1>6 DEF Mapped, Graph!Init, f

\* Every step of the store is a step of the graph, or none.
LEMMA GraphStep ==
  ASSUME OneWriter, OneKind, GraphInv, GraphInv', [Next]_vars
  PROVE  [Graph!Next]_<<CommittedGraph, WorkingCopy>>
  <1>1. PICK t \in Tx : Tx = {t}
    BY DEF OneWriter
  <1>2. DOMAIN tx = Tx /\ Inv /\ ViewOK(Idle) /\ ViewOK(tx[t])
    BY DEF GraphInv, ViewInv, Inv, TypeOK
  <1>3. /\ CommittedGraph = View(Idle)
        /\ WorkingCopy = IF tx[t].active THEN {View(tx[t])} ELSE {}
    BY <1>1, MappedNow DEF MappedOK, Mapped
  <1>4. /\ CommittedGraph' = View(Idle)'
        /\ WorkingCopy' = IF tx'[t].active THEN {View(tx[t])'} ELSE {}
    BY <1>1, MappedNext DEF MappedOK, Mapped
  <1>5. ASSUME db' = db
        PROVE  CommittedGraph' = CommittedGraph
    BY <1>3, <1>4, <1>5, ViewKept
  <1>6. ASSUME NEW r, db' = db, tx'[t] = r, r.active
        PROVE  WorkingCopy' = {View(r)}
    <2>1. View(tx[t])' = View(r)'
      BY <1>6 DEF View, VisibleEdges, Visible, Read
    <2>2. View(r)' = View(r)
      BY <1>6, ViewKept
    <2>3. QED
      BY <1>4, <1>6, <2>1, <2>2
  <1>7. CASE Begin(t)
    <2> DEFINE b == [Idle EXCEPT !.active = TRUE]
    <2>1. tx'[t] = b /\ db' = db /\ ~tx[t].active
      BY <1>2, <1>7 DEF Begin
    <2>2. b.active /\ View(b) = View(Idle)
      BY <1>2, BegunOK, BegunView
    <2> HIDE DEF b
    <2>3. /\ WorkingCopy = {} /\ WorkingCopy' = {CommittedGraph}
          /\ CommittedGraph' = CommittedGraph
      BY <1>3, <1>5, <1>6, <2>1, <2>2
    <2>4. Graph!Begin
      BY <2>3 DEF Graph!Begin
    <2>5. QED
      BY <2>4 DEF Graph!Next
  <1>8. CASE Next /\ ViewCall(t)
    <2>1. PICK r : Call(t, r) /\ ViewStep(tx[t], r)
      BY <1>8 DEF ViewCall
    <2>2. tx'[t] = r /\ db' = db /\ tx[t].active
      BY <1>2, <2>1 DEF Call
    <2>3. r.active
      BY <1>1, <1>2, <1>8, <2>1, CallKeepsOpen
    <2>4. Operation(View(tx[t]), View(r))
      BY <2>1, <2>2 DEF ViewStep, GraphInv, ClosedInv
    <2>5. /\ WorkingCopy = {View(tx[t])} /\ WorkingCopy' = {View(r)}
          /\ CommittedGraph' = CommittedGraph
      BY <1>3, <1>5, <1>6, <2>2, <2>3
    <2>6. QED
      BY <2>4, <2>5, OperationIsStep
  <1>9. CASE Commit(t)
    <2>1. tx'[t] = Idle /\ tx[t].active
      BY <1>2, <1>9 DEF Commit
    <2>2. View(Idle)' = View(tx[t])
      BY <1>2, <1>9, CommitView
    <2>3. /\ WorkingCopy = {View(tx[t])} /\ WorkingCopy' = {}
          /\ CommittedGraph' = View(tx[t])
      BY <1>3, <1>4, <2>1, <2>2, IdleOK
    <2>4. Graph!Commit
      BY <2>3 DEF Graph!Commit
    <2>5. QED
      BY <2>4 DEF Graph!Next
  <1>10. CASE Rollback(t) \/ Crash
    <2>1. tx'[t] = Idle /\ db' = db /\ tx[t].active
      BY <1>1, <1>2, <1>10 DEF Rollback, Crash
    <2>2. /\ WorkingCopy = {View(tx[t])} /\ WorkingCopy' = {}
          /\ CommittedGraph' = CommittedGraph
      BY <1>3, <1>4, <1>5, <2>1, IdleOK
    <2>3. Graph!Rollback
      BY <2>2 DEF Graph!Rollback
    <2>4. QED
      BY <2>3 DEF Graph!Next
  <1>11. CASE UNCHANGED vars
    <2>1. tx'[t] = tx[t] /\ db' = db
      BY <1>11 DEF vars
    <2>2. CommittedGraph' = CommittedGraph
      BY <1>5, <2>1
    <2>3. WorkingCopy' = WorkingCopy
      BY <1>3, <1>4, <1>6, <2>1
    <2>4. QED
      BY <2>2, <2>3
  <1>12. CASE Next
    <2>1. Begin(t) \/ ViewCall(t) \/ Commit(t) \/ Rollback(t) \/ Crash
      BY <1>1, <1>12, StepViews DEF GraphInv
    <2>2. QED
      BY <1>7, <1>8, <1>9, <1>10, <1>12, <2>1
  <1>13. QED
    BY <1>11, <1>12

\* For one writer and one edge type the transactions of the store are those
\* of a graph: each call changes the writer's copy as one operation, a
\* commit publishes the copy whole, and a rollback or a crash nothing, for
\* any numbers of vertices and edges, batches, threshold and calls.
THEOREM ImplementsGraphAlways ==
  ASSUME OneWriter, OneKind
  PROVE  Spec => ImplementsGraph
  <1>1. Init => GraphInv
    BY ViewInvInit, ClosedInvInit DEF GraphInv
  <1>2. GraphInv /\ [Next]_vars => GraphInv'
    BY ViewInvNext, ClosedInvNext DEF GraphInv
  <1>3. Init => Graph!Init
    BY <1>1, GraphInit
  <1>4. GraphInv /\ GraphInv' /\ [Next]_vars
            => [Graph!Next]_<<CommittedGraph, WorkingCopy>>
    BY GraphStep
  <1>5. QED
    BY <1>1, <1>2, <1>3, <1>4, PTL DEF Spec, ImplementsGraph, Graph!Spec

=============================================================================
