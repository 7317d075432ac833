-------------------------- MODULE WriteCountProofs --------------------------
(***************************************************************************)
(* What the store counts and what a MERGE believes of it, proved for every *)
(* graph, program and bound: the counts are those of the edges, and what a *)
(* MERGE was asked for is there when it has run.                           *)
(***************************************************************************)
EXTENDS WriteClauseProofs

---------------------------------------------------------------------------
(* Pair counts.  A count, or the value it is computed from, is never above *)
(* the number of edges of its pair.                                        *)

Of(s, p) == {e \in DOMAIN s.edges : s.edges[e] = p}
Below(s, f) == \A p \in DOMAIN f : f[p] <= Cardinality(Of(s, p))
Counts(s) == s.counted + s.pending = Cardinality(DOMAIN s.edges) /\ Below(s, s.pairs)

LEMMA OfFinite ==
    ASSUME NEW s, IsFiniteSet(DOMAIN s.edges), NEW p
    PROVE  IsFiniteSet(Of(s, p)) /\ Cardinality(Of(s, p)) \in Nat
<1>1. Of(s, p) \subseteq DOMAIN s.edges
  BY DEF Of
<1> QED BY <1>1, FS_Subset, FS_CardinalityType

LEMMA BelowSame ==
    ASSUME NEW s, NEW t, t.edges = s.edges, NEW f, Below(s, f) PROVE Below(t, f)
BY DEF Below, Of

Grown(s, t) == \A p : Cardinality(Of(t, p)) >= Cardinality(Of(s, p))

\* One edge more for a pair: its count may be one more.
LEMMA OfPut ==
    ASSUME NEW s, IsFiniteSet(DOMAIN s.edges), NEW t, NEW e, e \notin DOMAIN s.edges, NEW p,
           t.edges = Put(s.edges, e, p)
    PROVE  /\ Cardinality(DOMAIN t.edges) = Cardinality(DOMAIN s.edges) + 1
           /\ Cardinality(Of(t, p)) = Cardinality(Of(s, p)) + 1
           /\ Grown(s, t)
<1>1. /\ DOMAIN t.edges = DOMAIN s.edges \cup {e} /\ t.edges[e] = p
      /\ \A d \in DOMAIN s.edges : t.edges[d] = s.edges[d]
  BY DEF Put
<1>2. Cardinality(DOMAIN t.edges) = Cardinality(DOMAIN s.edges) + 1
  <2>1. Cardinality(DOMAIN s.edges \cup {e}) = Cardinality(DOMAIN s.edges) + 1
    BY FS_AddElement
  <2> QED BY <1>1, <2>1
<1>3. \A q : /\ IsFiniteSet(Of(s, q)) /\ Cardinality(Of(s, q)) \in Nat
                /\ e \notin Of(s, q)
  <2>1. \A q : e \notin Of(s, q)
    BY DEF Of
  <2> QED BY <2>1, OfFinite
<1>4. Of(t, p) = Of(s, p) \cup {e}
  BY <1>1 DEF Of
<1>5. Cardinality(Of(t, p)) = Cardinality(Of(s, p)) + 1
  BY <1>3, <1>4, FS_AddElement
<1>6. ASSUME NEW q PROVE Cardinality(Of(t, q)) >= Cardinality(Of(s, q))
  <2>1. Of(s, q) \subseteq Of(t, q)
    BY <1>1 DEF Of
  <2>2. IsFiniteSet(Of(t, q))
    <3>1. Of(t, q) \subseteq Of(s, q) \cup {e}
      BY <1>1 DEF Of
    <3> QED BY <1>3, <3>1, FS_AddElement, FS_Subset
  <2> QED BY <2>1, <2>2, FS_Subset
<1> QED BY <1>2, <1>5, <1>6 DEF Grown

LEMMA PairAdjustedIs ==
    ASSUME NEW s, TxOK(s), NEW p
    PROVE  LET t == PairAdjusted(s, p, 1)
               n == At(s.base, p, At(s.pairs, p, 0)) + 1
           IN  /\ \A q \in DOMAIN t.pairs : 
                     (q \in DOMAIN s.pairs /\ t.pairs[q] = s.pairs[q]) \/ (q = p /\ t.pairs[q] = n)
               /\ \A q \in DOMAIN t.base : \/ q \in DOMAIN s.base /\ t.base[q] = s.base[q]
                                           \/ q \in DOMAIN s.pairs /\ t.base[q] = s.pairs[q]
<1> DEFINE n == At(s.base, p, At(s.pairs, p, 0)) + 1
           B == IF p \in DOMAIN s.pairs /\ p \notin DOMAIN s.base THEN Put(s.base, p, s.pairs[p]) ELSE s.base
           Q == IF n <= 0 THEN Only(s.pairs, DOMAIN s.pairs \ {p}) ELSE Put(s.pairs, p, n)
           t == PairAdjusted(s, p, 1)
<1>1. t.pairs = Q /\ t.base = B
  BY DEF PairAdjusted, TxOK, IsView
<1>2. \A q \in DOMAIN Q : (q \in DOMAIN s.pairs /\ Q[q] = s.pairs[q]) \/ (q = p /\ Q[q] = n)
  BY DEF Only, Put
<1>3. \A q \in DOMAIN B : \/ q \in DOMAIN s.base /\ B[q] = s.base[q]
                          \/ q \in DOMAIN s.pairs /\ B[q] = s.pairs[q]
  BY DEF Put
<1> HIDE DEF t, Q, B, n
<1> QED BY <1>1, <1>2, <1>3 DEF t, n

LEMMA CountsPut ==
    ASSUME NEW s, TxOK(s), Counts(s), Below(s, s.base), NEW a, IsVertexId(a), NEW b, IsVertexId(b),
           NEW t, EdgePut(s, t, a, b)
    PROVE  Counts(t) /\ Below(t, t.base)
<1>1. PICK k \in Nat : EdgeId(a, b, k) \notin DOMAIN s.edges /\ t = PutEdgeNew(s, EdgeId(a, b, k), a, b)
  BY DEF EdgePut
<1> DEFINE e == EdgeId(a, b, k)
           p == <<a, b>>
           r == PairAdjusted(s, p, 1)
           n == At(s.base, p, At(s.pairs, p, 0)) + 1
<1>2. /\ t.edges = Put(s.edges, e, p) /\ t.counted = s.counted /\ t.pending = s.pending + 1
  BY <1>1, PutEdgeNewOK
<1>3. TxOK(r) /\ t.pairs = r.pairs /\ t.base = r.base
  <2>1. TxOK(r)
    BY PairAdjustedOK
  <2> QED BY <1>1, <2>1 DEF PutEdgeNew, TxOK, IsView
<1>4. /\ \A q \in DOMAIN r.pairs : (q \in DOMAIN s.pairs /\ r.pairs[q] = s.pairs[q])
                                   \/ (q = p /\ r.pairs[q] = n)
      /\ \A q \in DOMAIN r.base : \/ q \in DOMAIN s.base /\ r.base[q] = s.base[q]
                                  \/ q \in DOMAIN s.pairs /\ r.base[q] = s.pairs[q]
  <2> HIDE DEF p
  <2> QED BY PairAdjustedIs
<1>5. IsFiniteSet(DOMAIN s.edges) /\ s.counted \in Nat /\ s.pending \in Int
      /\ PairsOK(s.pairs) /\ PairsOK(s.base) /\ PairsOK(r.pairs) /\ PairsOK(r.base)
  BY <1>3 DEF TxOK, GraphOK
<1>6. /\ Cardinality(DOMAIN t.edges) = Cardinality(DOMAIN s.edges) + 1
      /\ Cardinality(Of(t, p)) = Cardinality(Of(s, p)) + 1
      /\ Grown(s, t)
  <2>1. e \notin DOMAIN s.edges /\ t.edges = Put(s.edges, e, p)
    BY <1>1, <1>2
  <2>2. IsFiniteSet(DOMAIN s.edges)
    BY <1>5
  <2> HIDE DEF e, p, r, n
  <2> QED BY <2>1, <2>2, OfPut
<1>7. IsFiniteSet(DOMAIN t.edges) /\ \A q : /\ Cardinality(Of(s, q)) \in Nat
                                               /\ Cardinality(Of(t, q)) \in Nat
  <2>1. IsFiniteSet(DOMAIN t.edges)
    BY <1>2, <1>5, FS_AddElement DEF Put
  <2> QED BY <1>5, <2>1, OfFinite
<1>8. Cardinality(DOMAIN s.edges) \in Nat
  BY <1>5, FS_CardinalityType
<1>9. p[1] = a /\ p[2] = b
  OBVIOUS
<1>10. n <= Cardinality(Of(t, p))
  <2>1. p \in DOMAIN s.base => s.base[p] <= Cardinality(Of(s, p)) /\ s.base[p] \in Nat
    BY <1>5, <1>9 DEF Below, PairsOK
  <2>2. p \in DOMAIN s.pairs => s.pairs[p] <= Cardinality(Of(s, p)) /\ s.pairs[p] \in Nat
    BY <1>5, <1>9 DEF Counts, Below, PairsOK
  <2> HIDE DEF p
  <2> QED BY <1>6, <1>7, <2>1, <2>2 DEF At
<1> HIDE DEF p, r, n, e
<1>11. Below(t, r.base)
  <2> SUFFICES ASSUME NEW q \in DOMAIN r.base PROVE r.base[q] <= Cardinality(Of(t, q))
    BY DEF Below
  <2>1. r.base[q] <= Cardinality(Of(s, q))
    BY <1>4 DEF Counts, Below
  <2>2. r.base[q] \in Nat
    BY <1>5 DEF PairsOK
  <2> QED BY <1>6, <1>7, <2>1, <2>2 DEF Grown
<1>12. Below(t, r.pairs)
  <2> SUFFICES ASSUME NEW q \in DOMAIN r.pairs PROVE r.pairs[q] <= Cardinality(Of(t, q))
    BY DEF Below
  <2>1. r.pairs[q] \in Nat
    BY <1>5 DEF PairsOK
  <2>2. CASE q \in DOMAIN s.pairs /\ r.pairs[q] = s.pairs[q]
    <3>1. r.pairs[q] <= Cardinality(Of(s, q))
      BY <2>2 DEF Counts, Below
    <3> QED BY <1>6, <1>7, <2>1, <3>1 DEF Grown
  <2>3. CASE q = p /\ r.pairs[q] = n
    BY <1>9, <1>10, <2>3
  <2> QED BY <1>4, <2>2, <2>3
<1> QED BY <1>2, <1>3, <1>5, <1>6, <1>8, <1>11, <1>12 DEF Counts

\* A batch puts its edges where there is none.
LEMMA CountsBatch ==
    ASSUME NEW s, TxOK(s), Counts(s), Below(s, s.base), DOMAIN s.edges = {},
           NEW P, IsFiniteSet(P), \A p \in P : IsPair(p)
    PROVE  Counts(PutEdgeNewBatch(s, P)) /\ Below(PutEdgeNewBatch(s, P), PutEdgeNewBatch(s, P).base)
<1> DEFINE t == PutEdgeNewBatch(s, P)
           E == {EdgeId(p[1], p[2], 0) : p \in P}
<1>1. /\ TxOK(t) /\ t.counted = s.counted
      /\ DOMAIN t.edges = DOMAIN s.edges \cup E
      /\ t.pending = s.pending + Cardinality(P)
  BY PutEdgeNewBatchOK
<1>2. IsFiniteSet(E) /\ Cardinality(E) = Cardinality(P)
  BY PlainIds
<1>3. \A q : Cardinality(Of(s, q)) = 0
  <2>1. \A q : Of(s, q) = {}
    BY DEF Of
  <2> QED BY <2>1, FS_EmptySet
<1>4. DOMAIN s.pairs = {} /\ DOMAIN s.base = {}
  <2>1. PairsOK(s.pairs) /\ PairsOK(s.base)
    BY DEF TxOK
  <2>2. ASSUME NEW f, PairsOK(f), Below(s, f) PROVE DOMAIN f = {}
    <3> SUFFICES ASSUME NEW q \in DOMAIN f PROVE FALSE
      OBVIOUS
    <3>1. f[q] \in Nat \ {0} /\ f[q] <= 0
      BY <1>3, <2>2 DEF PairsOK, Below
    <3> QED BY <3>1
  <2> QED BY <2>1, <2>2 DEF Counts
<1>5. DOMAIN t.pairs = P /\ (\A p \in P : t.pairs[p] = 1) /\ DOMAIN t.base = {}
  BY <1>4 DEF PutEdgeNewBatch, At, TxOK, IsView
<1>6. ASSUME NEW p \in P PROVE 1 <= Cardinality(Of(t, p))
  <2> DEFINE e == EdgeId(p[1], p[2], 0)
  <2>1. e \in DOMAIN t.edges /\ e[2] = p[1] /\ e[3] = p[2]
    BY <1>1 DEF EdgeId
  <2>2. t.edges[e] = <<e[2], e[3]>>
    BY <1>1, <2>1 DEF TxOK, GraphOK
  <2>3. e \in Of(t, p)
    BY <2>1, <2>2 DEF Of, IsPair
  <2>4. IsFiniteSet(Of(t, p)) /\ Cardinality(Of(t, p)) \in Nat
    BY <1>1, OfFinite DEF TxOK, GraphOK
  <2> QED BY <2>3, <2>4, FS_EmptySet
<1>7. Below(t, t.pairs) /\ Below(t, t.base)
  BY <1>5, <1>6 DEF Below
<1>8. t.counted + t.pending = Cardinality(DOMAIN t.edges)
  <2>1. s.counted + s.pending = 0 /\ s.counted \in Nat /\ s.pending \in Int
    BY FS_EmptySet DEF Counts, TxOK
  <2>2. Cardinality(DOMAIN t.edges) = Cardinality(P) /\ Cardinality(P) \in Nat
    BY <1>1, <1>2, FS_CardinalityType
  <2> QED BY <1>1, <2>1, <2>2
<1> QED BY <1>7, <1>8 DEF Counts

PairsOf(s, E) == {s.edges[e] : e \in E}

\* what a deletion of edges makes of the count of a pair, and of its base
PairAfter(s, E, t, q) ==
    /\ q \in DOMAIN t.pairs =>
          \/ q \notin PairsOf(s, E) /\ q \in DOMAIN s.pairs /\ t.pairs[q] = s.pairs[q]
          \/ /\ q \in PairsOf(s, E)
             /\ t.pairs[q] = At(s.base, q, At(s.pairs, q, 0))
                             - Cardinality(Between(s, q[1], q[2]) \cap E)
    /\ q \in DOMAIN t.base => \/ q \in DOMAIN s.base /\ t.base[q] = s.base[q]
                              \/ q \in DOMAIN s.pairs /\ t.base[q] = s.pairs[q]

LEMMA PairsDeleted ==
    ASSUME NEW s, TxOK(s), NEW E, NEW t, t = EdgesDeleted(s, E), NEW q
    PROVE  PairAfter(s, E, t, q)
<1> DEFINE pairs == {s.edges[e] : e \in E}
           NewCount(p) == At(s.base, p, At(s.pairs, p, 0)) - Cardinality(Between(s, p[1], p[2]) \cap E)
           W == Only(s.edges, DOMAIN s.edges \ E)
           X == [p \in DOMAIN s.base \cup (pairs \cap DOMAIN s.pairs) |-> At(s.base, p, At(s.pairs, p, 0))]
           Y == [p \in {u \in DOMAIN s.pairs \cup pairs : u \in pairs => NewCount(u) > 0} |->
                    IF p \in pairs THEN NewCount(p) ELSE s.pairs[p]]
<1>1. t = [s EXCEPT !.edges = W, !.base = X, !.pairs = Y, !.pending = s.pending - Cardinality(E)]
  BY DEF EdgesDeleted
<1>2. q \in DOMAIN Y => \/ q \notin pairs /\ q \in DOMAIN s.pairs /\ Y[q] = s.pairs[q]
                        \/ q \in pairs /\ Y[q] = NewCount(q)
  <2> HIDE DEF pairs, NewCount
  <2> QED OBVIOUS
<1>3. q \in DOMAIN X => \/ q \in DOMAIN s.base /\ X[q] = s.base[q]
                        \/ q \in DOMAIN s.pairs /\ X[q] = s.pairs[q]
  <2> HIDE DEF pairs
  <2> QED BY DEF At
<1> HIDE DEF W, X, Y
<1>4. t.base = X /\ t.pairs = Y
  BY <1>1 DEF TxOK, IsView
<1> QED BY <1>2, <1>3, <1>4 DEF PairsOf, PairAfter

\* A deletion takes as many from the count of a pair as it takes edges of it, if
\* the count is computed from one that is not above theirs.
LEMMA CountsDeleted ==
    ASSUME NEW s, TxOK(s), Counts(s), NEW E, E \subseteq DOMAIN s.edges, E = {} \/ Below(s, s.base)
    PROVE  /\ Counts(EdgesDeleted(s, E))
           /\ E = {} /\ Below(s, s.base) => Below(EdgesDeleted(s, E), EdgesDeleted(s, E).base)
<1> DEFINE t == EdgesDeleted(s, E)
           pairs == PairsOf(s, E)
<1>1. /\ TxOK(t) /\ t.labels = s.labels /\ t.counted = s.counted
      /\ DOMAIN t.edges = DOMAIN s.edges \ E
      /\ \A e \in DOMAIN t.edges : t.edges[e] = s.edges[e]
      /\ t.pending = s.pending - Cardinality(E)
  BY EdgesDeletedOK
<1>2. \A q : PairAfter(s, E, t, q)
  BY PairsDeleted
<1> HIDE DEF t
<1>3. /\ IsFiniteSet(DOMAIN s.edges) /\ IsFiniteSet(E) /\ s.counted \in Nat /\ s.pending \in Int
      /\ PairsOK(s.pairs) /\ PairsOK(s.base) /\ PairsOK(t.pairs)
  BY <1>1, FS_Subset DEF TxOK, GraphOK
<1>4. t.counted + t.pending = Cardinality(DOMAIN t.edges)
  <2>1. DOMAIN s.edges \cap E = E
    OBVIOUS
  <2>2. /\ Cardinality(DOMAIN s.edges) \in Nat /\ Cardinality(E) \in Nat
        /\ Cardinality(DOMAIN s.edges \ E) = Cardinality(DOMAIN s.edges) - Cardinality(E)
    BY <1>3, <2>1, FS_Difference, FS_CardinalityType
  <2> QED BY <1>1, <1>3, <2>2 DEF Counts
<1>5. ASSUME NEW q
      PROVE  /\ Cardinality(Of(s, q)) \in Nat /\ Cardinality(Of(s, q) \cap E) \in Nat
             /\ Cardinality(Of(t, q))
                   = Cardinality(Of(s, q)) - Cardinality(Of(s, q) \cap E)
  <2>1. Of(t, q) = Of(s, q) \ E
    BY <1>1 DEF Of
  <2>2. IsFiniteSet(Of(s, q))
    BY <1>3, OfFinite
  <2>3. IsFiniteSet(Of(s, q) \cap E)
    BY <2>2, FS_Subset
  <2> QED BY <2>1, <2>2, <2>3, FS_Difference, FS_CardinalityType
<1>6. Below(t, t.pairs)
  <2> SUFFICES ASSUME NEW q \in DOMAIN t.pairs PROVE t.pairs[q] <= Cardinality(Of(t, q))
    BY DEF Below
  <2> DEFINE B == Of(s, q)
  <2>1. Cardinality(B) \in Nat /\ Cardinality(B \cap E) \in Nat
        /\ Cardinality(Of(t, q)) = Cardinality(B) - Cardinality(B \cap E)
    BY <1>5
  <2>2. CASE q \notin pairs /\ q \in DOMAIN s.pairs /\ t.pairs[q] = s.pairs[q]
    <3>1. B \cap E = {}
      <4> SUFFICES ASSUME NEW e \in B \cap E PROVE FALSE
        OBVIOUS
      <4>1. s.edges[e] = q /\ s.edges[e] \in pairs
        BY DEF Of, PairsOf
      <4> QED BY <2>2, <4>1
    <3>2. s.pairs[q] <= Cardinality(B)
      BY <2>2 DEF Counts, Below
    <3> QED BY <2>1, <2>2, <3>1, <3>2, FS_EmptySet
  <2>3. CASE q \in pairs /\ t.pairs[q] = At(s.base, q, At(s.pairs, q, 0)) - Cardinality(B \cap E)
    <3>1. Below(s, s.base)
      BY <2>3 DEF PairsOf
    <3>2. /\ At(s.base, q, At(s.pairs, q, 0)) <= Cardinality(B)
          /\ At(s.base, q, At(s.pairs, q, 0)) \in Nat
      BY <1>3, <2>1, <3>1 DEF Counts, Below, PairsOK, At
    <3> HIDE DEF B, pairs
    <3> QED BY <2>1, <2>3, <3>2
  <2>4. q \in pairs => Between(s, q[1], q[2]) = B
    BY DEF PairsOf, Between, Of, TxOK, GraphOK
  <2> HIDE DEF B, pairs
  <2> QED BY <1>2, <2>2, <2>3, <2>4 DEF PairAfter, B, pairs
<1>7. ASSUME E = {}, Below(s, s.base) PROVE Below(t, t.base)
  <2>1. \A q : Of(t, q) = Of(s, q)
    BY <1>1, <1>7 DEF Of
  <2> QED BY <1>2, <1>7, <2>1 DEF PairAfter, Below, Counts
<1> QED BY <1>4, <1>6, <1>7 DEF Counts, t

\* Vertices do not count.
LEMMA CountsVertices ==
    ASSUME NEW s, NEW t, VerticesPut(s, t)
    PROVE  /\ Counts(s) => Counts(t)
           /\ Below(s, s.base) => Below(t, t.base)
BY BelowSame DEF VerticesPut, Counts

LEMMA CountsVerticesDeleted ==
    ASSUME NEW s, TxOK(s), Counts(s), NEW V
    PROVE  Counts(VerticesDeleted(s, V))
<1> DEFINE t == VerticesDeleted(s, V)
<1>1. /\ t.edges = s.edges /\ t.counted = s.counted /\ t.pending = s.pending /\ t.pairs = s.pairs
  BY VerticesDeletedOK
<1> HIDE DEF t
<1> QED BY <1>1, BelowSame DEF Counts, t

LEMMA CountsDetached ==
    ASSUME NEW s, TxOK(s), Counts(s), NEW V, V \cap DOMAIN s.labels = {} \/ Below(s, s.base)
    PROVE  Counts(Detached(s, V))
<1> DEFINE V0 == V \cap DOMAIN s.labels
           E == Incident(s, V0)
<1>1. E \subseteq DOMAIN s.edges /\ (V0 = {} => E = {})
  BY DEF Incident
<1>2. CASE Detached(s, V) = Emptied(s)
  <2> DEFINE t == Emptied(s)
  <2>1. DOMAIN t.edges = {} /\ DOMAIN t.pairs = {} /\ t.counted = 0 /\ t.pending = 0
    BY EmptiedOK
  <2> HIDE DEF t
  <2> QED BY <1>2, <2>1, FS_EmptySet DEF Counts, Below, t
<1>3. CASE Detached(s, V) = VerticesDeleted(EdgesDeleted(s, E), V)
  <2> DEFINE w == EdgesDeleted(s, E)
  <2>1. Counts(w) /\ TxOK(w)
    <3> HIDE DEF E
    <3> QED BY <1>1, CountsDeleted, EdgesDeletedOK
  <2> HIDE DEF w, E
  <2>2. Counts(VerticesDeleted(w, V))
    BY <2>1, CountsVerticesDeleted
  <2> QED BY <1>3, <2>2 DEF w
<1> QED BY <1>2, <1>3 DEF Detached

\* Names of vertices stand for no relationship.
LEMMA NodesDoomed ==
    ASSUME TypeInv, clause.vars \cap HopNames = {}
    PROVE  DeletedEdges = {}
<1> SUFFICES ASSUME NEW v \in Doomed(tx, events, clause.vars), v \in DOMAIN tx.edges PROVE FALSE
  BY DEF DeletedEdges
<1>1. PICK p \in (DOMAIN events) \X clause.vars :
         p[2] \in DOMAIN events[p[1]].at /\ v = Resolved(tx, events[p[1]].at[p[2]])
  BY DEF Doomed
<1>2. NamesOK(events[p[1]].at)
  BY <1>1 DEF TypeInv, EventsOK, EventOK, Members
<1>3. IsVertexId(events[p[1]].at[p[2]])
  BY <1>1, <1>2 DEF NamesOK
<1>4. v = events[p[1]].at[p[2]]
  BY <1>1, <1>3 DEF Resolved, IsPlain, IsVertexId
<1>5. v[1] = "e"
  BY DEF TypeInv, TxOK, GraphOK, EdgeId
<1> QED BY <1>3, <1>4, <1>5 DEF IsVertexId

\* A deletion of relationships or of vertices counts what it takes; of one that
\* names both, the second half computes from what the first has not refreshed.
LEMMA CountsTaken ==
    ASSUME TypeInv, DetachesApart, ApplyDelete, Counts(tx), Below(tx, tx.base)
    PROVE  Counts(tx')
<1> DEFINE V == DeletedVertices
           w == WithoutEdges
<1>1. clause \in AllClauses /\ TxOK(tx) /\ clause.op \in {"DELETE", "DETACH DELETE"}
  BY DEF ApplyDelete, TypeInv, RequestOK, Deletes
<1>2. TxOK(w) /\ w.labels = tx.labels
  BY WithoutEdgesIs
<1>3. /\ Counts(w)
      /\ DeletedEdges = {} => Below(w, w.base)
  <2>1. DeletedEdges \subseteq DOMAIN tx.edges
    BY DEF DeletedEdges
  <2> QED BY <1>1, <2>1, CountsDeleted DEF WithoutEdges
<1>4. tx' = IF clause.op = "DELETE" THEN VerticesDeleted(w, V) ELSE Detached(w, V)
  BY DEF ApplyDelete
<1>5. CASE clause.op = "DELETE"
  <2> HIDE DEF w, V
  <2>1. Counts(VerticesDeleted(w, V))
    BY <1>2, <1>3, CountsVerticesDeleted
  <2> QED BY <1>4, <1>5, <2>1
<1>6. CASE clause.op = "DETACH DELETE"
  <2>1. CASE clause.vars \cap HopNames = {}
    <3>1. Below(w, w.base)
      BY <1>3, <2>1, NodesDoomed
    <3> HIDE DEF w, V
    <3>2. Counts(Detached(w, V))
      BY <1>2, <1>3, <3>1, CountsDetached
    <3> QED BY <1>4, <1>6, <3>2
  <2>2. CASE clause.vars \subseteq HopNames
    <3>1. \A v \in V : ~IsVertexId(v)
      BY <2>2, HopsDoomed
    <3>2. V \cap DOMAIN w.labels = {}
      BY <1>2, <3>1 DEF TypeInv, TxOK, GraphOK
    <3> HIDE DEF w, V
    <3>3. Counts(Detached(w, V))
      BY <1>2, <1>3, <3>2, CountsDetached
    <3> QED BY <1>4, <1>6, <3>3
  <2> QED BY <1>1, <1>6, <2>1, <2>2 DEF DetachesApart
<1> QED BY <1>1, <1>5, <1>6

---------------------------------------------------------------------------
(* Rows bind the same names.  What the rows of a clause bind follows from  *)
(* the clauses before it, so a MERGE of a hop has both ends in all of its  *)
(* rows or in none.                                                        *)

Free(at) == DOMAIN at \ HopNames
Alike(S) == \A x, y \in S : Free(x.at) = Free(y.at)

\* the names of nodes that a clause binds in a row
Binds(c) ==
    IF c.op = "CREATE" THEN PartsBind(c) \ HopNames
    ELSE IF MergesNode(c) THEN {c.parts[1].left.var} \ {Anon} ELSE {}

AlikeInv ==
    /\ Alike(rows) /\ Alike(input)
    /\ mode = "rows" => \A t \in rows : \A row \in input : Free(t.at) = Free(row.at) \cup Binds(clause)
    /\ mode \in {"rows", "apply"} /\ MergesHop(clause) => Alike(input \cup Members(events))

LEMMA AlikeRowDone ==
    ASSUME TypeInv, AlikeInv, mode = "rows", NEW row \in input, NEW R, NEW p, NEW es,
           RowDone(row, R, p, es), IsSeq(es),
           \A t \in R : Free(t.at) = Free(row.at) \cup Binds(clause),
           MergesHop(clause) => \A e \in Members(es) : Free(e.at) = Free(row.at)
    PROVE  AlikeInv'
<1>1. /\ input' = input \ {row} /\ rows' = rows \cup R /\ events' = events \o es
      /\ UNCHANGED <<clause, mode>>
  BY DEF RowDone
<1>2. Members(events') = Members(events) \cup Members(es)
  BY <1>1, ConcatIs DEF TypeInv, EventsOK
<1>3. \A r \in input : Free(r.at) = Free(row.at)
  BY DEF AlikeInv, Alike
<1>4. \A t \in rows' : Free(t.at) = Free(row.at) \cup Binds(clause)
  BY <1>1 DEF AlikeInv
<1>5. Alike(rows') /\ Alike(input')
  BY <1>1, <1>3, <1>4 DEF Alike
<1>6. ASSUME MergesHop(clause) PROVE Alike(input' \cup Members(events'))
  <2>1. \A e \in Members(events) : Free(e.at) = Free(row.at)
    BY <1>6 DEF AlikeInv, Alike
  <2>2. \A e \in input' \cup Members(events') : Free(e.at) = Free(row.at)
    BY <1>1, <1>2, <1>3, <1>6, <2>1
  <2> QED BY <2>2 DEF Alike
<1> QED BY <1>1, <1>3, <1>4, <1>5, <1>6 DEF AlikeInv

LEMMA AlikeCreate ==
    \A row \in input : TypeInv /\ AlikeInv /\ mode = "rows" /\ MaterializeCreate(row) => AlikeInv'
<1> SUFFICES ASSUME NEW row \in input, TypeInv, AlikeInv, mode = "rows", MaterializeCreate(row)
             PROVE  AlikeInv'
  OBVIOUS
<1> DEFINE n == Len(clause.parts)
           r == [row |-> row, params |-> params]
           after == CreatedAfter(r, clause.parts)
           es == [i \in 1 .. n |-> Event(clause, clause.parts[i], after[i].row)]
<1>1. RowDone(row, {after[n].row}, after[n].params, es) /\ clause.op = "CREATE" /\ ~MergesHop(clause)
  BY DEF MaterializeCreate, MergesHop
<1>2. BothOK(r) /\ clause \in AllClauses /\ r.row = row
  BY NextRow
<1>3. IsSeq(clause.parts) /\ Members(clause.parts) \subseteq AllParts
  BY <1>1, <1>2, ClauseIs DEF Deletes
<1>4. n \in Nat /\ DOMAIN clause.parts = 1 .. n /\ n \in 0 .. n
  BY <1>3 DEF IsSeq
<1>5. /\ after[0] = r
      /\ \A i \in 1 .. n : BothOK(after[i - 1]) /\ after[i] = CreatePart(after[i - 1], clause.parts[i])
                           /\ clause.parts[i] \in AllParts
  <2> HIDE DEF r
  <2> QED BY <1>2, <1>3, CreatedAfterOK
<1>6. IsSeq(es)
  <2>1. es \in Seq({es[i] : i \in 1 .. n})
    BY <1>4
  <2> HIDE DEF es
  <2> QED BY <2>1, SeqIs
<1> HIDE DEF after, n, r, es
<1> DEFINE Bound(i) == UNION {PartBinds(clause.parts[k]) : k \in 1 .. i}
           S == {i \in 0 .. n : Free(after[i].row.at) = Free(row.at) \cup (Bound(i) \ HopNames)}
<1>7. 0 \in S
  <2>1. Bound(0) = {}
    OBVIOUS
  <2> HIDE DEF Bound
  <2> QED BY <1>2, <1>4, <1>5, <2>1
<1>8. ASSUME NEW i \in 1 .. n, i - 1 \in S PROVE i \in S
  <2>1. DOMAIN after[i].row.at = DOMAIN after[i - 1].row.at \cup PartBinds(clause.parts[i])
    BY <1>5, CreatePartOK
  <2>2. Bound(i) = Bound(i - 1) \cup PartBinds(clause.parts[i])
    <3>1. 1 .. i = (1 .. (i - 1)) \cup {i}
      BY <1>4
    <3> QED BY <3>1
  <2>3. i \in 0 .. n
    BY <1>4
  <2> HIDE DEF Bound
  <2> QED BY <1>8, <2>1, <2>2, <2>3 DEF Free
<1> HIDE DEF S
<1>9. 0 .. n \subseteq S
  BY <1>4, <1>7, <1>8, AfterEachPart DEF n
<1>10. Free(after[n].row.at) = Free(row.at) \cup Binds(clause)
  <2>1. Free(after[n].row.at) = Free(row.at) \cup (Bound(n) \ HopNames)
    BY <1>4, <1>9 DEF S
  <2>2. Bound(n) = PartsBind(clause)
    BY <1>4 DEF PartsBind
  <2>3. Binds(clause) = PartsBind(clause) \ HopNames
    BY <1>1 DEF Binds
  <2> HIDE DEF Bound
  <2> QED BY <2>1, <2>2, <2>3
<1> QED BY <1>1, <1>6, <1>10, AlikeRowDone

LEMMA AlikeMerge ==
    \A row \in input : TypeInv /\ AlikeInv /\ mode = "rows" /\ MaterializeMerge(row) => AlikeInv'
<1> SUFFICES ASSUME NEW row \in input, TypeInv, AlikeInv, mode = "rows", MaterializeMerge(row)
             PROVE  AlikeInv'
  OBVIOUS
<1> DEFINE part == clause.parts[1]
           r == [row |-> row, params |-> params]
<1>1. BothOK(r) /\ clause \in AllClauses /\ clause.op = "MERGE" /\ GraphOK(tx) /\ ~Deletes(clause)
  BY NextRow DEF MaterializeMerge, TypeInv, TxOK, Deletes
<1>2. part \in AllParts /\ r.row = row /\ part \in Members(clause.parts)
  BY <1>1, ClauseIs
<1>3. CASE IsHop(part)
  <2> DEFINE T == MergeEdge(tx, r, part)
  <2>1. PICK list \in Listings(T) :
           RowDone(row, T, params, [i \in DOMAIN list |-> Event(clause, part, list[i])])
    BY <1>3 DEF MaterializeMerge
  <2> DEFINE es == [i \in DOMAIN list |-> Event(clause, part, list[i])]
             a == At(r.row.at, part.left.var, None)
             b == At(r.row.at, part.right.var, None)
  <2>2. /\ IsFiniteSet(T) /\ T # {}
        /\ part.hop = Anon \/ None \in {a, b} => T = {r.row}
        /\ ~(part.hop = Anon \/ None \in {a, b}) => \A t \in T :
              /\ t.at = Put(r.row.at, part.hop, EdgeId(a, b, 0))
              /\ part.hop \in HopNames
        /\ \A t \in T : RowOK(t, r.params) /\ t.gone = r.row.gone
    <3> HIDE DEF r, part
    <3> QED BY <1>1, <1>2, <1>3, MergeEdgeIs
  <2>3. RowDone(row, T, params, es)
    BY <2>1
  <2> HIDE DEF T, r, part
  <2>4. \A t \in T : Free(t.at) = Free(row.at)
    <3> SUFFICES ASSUME NEW t \in T PROVE Free(t.at) = Free(row.at)
      OBVIOUS
    <3>1. CASE t = row
      BY <3>1
    <3>2. CASE t.at = Put(r.row.at, part.hop, EdgeId(a, b, 0)) /\ part.hop \in HopNames
      <4>1. DOMAIN t.at = DOMAIN row.at \cup {part.hop}
        BY <1>2, <3>2 DEF Put
      <4> QED BY <3>2, <4>1 DEF Free
    <3> HIDE DEF a, b
    <3> QED BY <1>2, <2>2, <3>1, <3>2
  <2>5. IsSeq(es) /\ Members(es) = {Event(clause, part, t) : t \in T}
    BY <2>2, ListedEvents
  <2> HIDE DEF es
  <2>6. \A e \in Members(es) : Free(e.at) = Free(row.at)
    BY <2>4, <2>5 DEF Event
  <2>7. Binds(clause) = {}
    BY <1>1, <1>3 DEF Binds, MergesNode, part
  <2> QED BY <2>3, <2>4, <2>5, <2>6, <2>7, AlikeRowDone
<1>4. CASE ~IsHop(part)
  <2>1. PICK m \in MergeNode(tx, r, part.left) :
           RowDone(row, {m.row}, m.params, <<Event(clause, part, m.row)>>)
    BY <1>4 DEF MaterializeMerge
  <2>2. part.left.var \notin HopNames
    BY <1>2, PartNames DEF NodesOf
  <2> DEFINE es == <<Event(clause, part, m.row)>>
  <2>3. IsSeq(es) /\ RowDone(row, {m.row}, m.params, es)
    BY <2>1, OneEvent
  <2> HIDE DEF es, part, r
  <2>4. DOMAIN m.row.at = DOMAIN r.row.at \cup ({part.left.var} \ {Anon})
    BY <1>1, <2>1, <2>2, MergeNodeOK
  <2>5. Binds(clause) = {part.left.var} \ {Anon} /\ ~MergesHop(clause)
    BY <1>1, <1>4 DEF Binds, MergesNode, MergesHop, part
  <2>6. \A t \in {m.row} : Free(t.at) = Free(row.at) \cup Binds(clause)
    BY <1>2, <2>2, <2>4, <2>5 DEF Free
  <2> QED BY <2>3, <2>5, <2>6, AlikeRowDone
<1> QED BY <1>3, <1>4

LEMMA AlikeTombstones ==
    \A row \in input : TypeInv /\ AlikeInv /\ mode = "rows" /\ MaterializeDelete(row) => AlikeInv'
<1> SUFFICES ASSUME NEW row \in input, TypeInv, AlikeInv, mode = "rows", MaterializeDelete(row)
             PROVE  AlikeInv'
  OBVIOUS
<1> DEFINE r == [row |-> row, params |-> params]
           t == Tombstones(tx, r, clause.vars)
           es == <<Event(clause, NoPart, t.row)>>
<1>1. RowDone(row, {t.row}, t.params, es) /\ Deletes(clause)
  BY DEF MaterializeDelete
<1>2. BothOK(r) /\ r.row = row
  BY NextRow
<1>3. IsSeq(es)
  BY OneEvent
<1> HIDE DEF es, r
<1>4. t.row.at = r.row.at
  <2>1. Buried(tx, r, clause.vars, t)
    BY <1>2, TombstonesIs
  <2> QED BY <2>1 DEF Buried
<1> HIDE DEF t
<1>5. Binds(clause) = {} /\ ~MergesHop(clause)
  BY <1>1 DEF Binds, MergesNode, MergesHop, Deletes
<1> QED BY <1>1, <1>2, <1>3, <1>4, <1>5, AlikeRowDone

LEMMA AlikeMatch == TypeInv /\ AlikeInv /\ ExecuteMatch => AlikeInv'
<1> SUFFICES ASSUME TypeInv, AlikeInv, ExecuteMatch PROVE AlikeInv'
  OBVIOUS
<1>1. ClauseBegins
  BY DEF ExecuteMatch
<1>2. clause' \in AllClauses /\ clause' = Head(clauses)
  BY <1>1, ClauseBeginsIs
<1>3. /\ clause'.op = "MATCH" /\ mode = "clause" /\ mode' = mode /\ input' = input
      /\ rows' = UNION {Matches(tx, row, clause'.parts[1]) : row \in Given}
  BY <1>2 DEF ExecuteMatch, ClauseBegins
<1> DEFINE part == clause'.parts[1]
           New == {part.left.var} \cup (IF IsHop(part) THEN {part.right.var, part.hop} ELSE {})
<1>4. /\ part \in AllParts /\ part.left.var # Anon
      /\ IsHop(part) => part.hop # Anon
  BY <1>2, <1>3, MatchNames
<1>5. Alike(Given)
  BY DEF AlikeInv, Alike, Given
<1>6. \A row \in Given : IsRow(row)
  BY GivenOK DEF RowOK
<1> HIDE DEF part
<1>7. ASSUME NEW t \in rows' PROVE \E row \in Given : Free(t.at) = Free(row.at) \cup (New \ HopNames)
  <2>1. PICK row \in Given : t \in Matches(tx, row, part)
    BY <1>3 DEF part
  <2>2. Matched(tx, row, part, t)
    BY <1>4, <1>6, <2>1, MatchesIs
  <2> USE DEF Matched
  <2> QED BY <2>2 DEF Free
<1> HIDE DEF New
<1>8. Alike(rows')
  BY <1>5, <1>7 DEF Alike
<1>9. input = {}
  BY <1>3 DEF TypeInv, RequestOK
<1> QED BY <1>3, <1>8, <1>9 DEF AlikeInv, Alike

LEMMA AlikeStep == TypeInv /\ AlikeInv /\ [Next]_vars => AlikeInv'
<1> SUFFICES ASSUME TypeInv, AlikeInv, [Next]_vars PROVE AlikeInv'
  OBVIOUS
<1>1. CASE UNCHANGED vars
  BY <1>1 DEF vars, AlikeInv, Alike, Members
<1>2. CASE Begin
  BY <1>2, IsEmpty DEF Begin, AlikeInv, Alike
<1>3. CASE ExecuteMatch BY <1>3, AlikeMatch
<1>4. CASE ExecuteWrite
  <2>1. input' = Given /\ rows' = {} /\ events' = <<>>
    BY <1>4 DEF ExecuteWrite
  <2>2. Alike(Given)
    BY DEF AlikeInv, Alike, Given
  <2>3. Members(events') = {}
    BY <2>1, IsEmpty
  <2> QED BY <2>1, <2>2, <2>3 DEF AlikeInv, Alike
<1>5. CASE MaterializeRow
  BY <1>5, AlikeCreate, AlikeMerge, AlikeTombstones DEF MaterializeRow
<1>6. CASE UNCHANGED <<rows, input, clause>> /\ mode' # "rows"
           /\ (mode' = "apply" => mode \in {"rows", "apply"} /\ Members(events') \subseteq Members(events))
  BY <1>6 DEF AlikeInv, Alike
<1>7. CASE RowsDone \/ EndClause \/ Commit
  <2>1. /\ UNCHANGED <<rows, input, clause, events>> /\ mode' # "rows"
        /\ mode' = "apply" => mode = "rows"
    BY <1>7 DEF RowsDone, EndClause, Commit
  <2>2. Members(events') = Members(events)
    BY <2>1 DEF Members
  <2> QED BY <1>6, <2>1, <2>2
<1>8. CASE ApplyCreate \/ ApplyMergeVertex \/ ApplyMergeSimple \/ ApplyMergeEdge \/ ApplyMergeNothing
  <2>1. /\ mode = "apply" /\ mode' = "apply" /\ events # <<>> /\ events' = Tail(events)
        /\ UNCHANGED <<rows, input, clause>>
    BY <1>8 DEF ApplyCreate, ApplyMergeVertex, ApplyMergeSimple, ApplyMergeEdge, ApplyMergeNothing, Applied
  <2>2. Members(events') \subseteq Members(events)
    BY <2>1, HeadIs
  <2> QED BY <1>6, <2>1, <2>2
<1>9. CASE ApplyMergeBatch
  <2>1. PICK n \in DOMAIN events : /\ \A i \in 1 .. n : Placed(events[i])
                                   /\ events' = SubSeq(events, n + 1, Len(events))
    BY <1>9 DEF ApplyMergeBatch
  <2>2. /\ mode = "apply" /\ mode' = "apply" /\ clause.op = "MERGE" /\ IsHop(clause.parts[1])
        /\ UNCHANGED <<rows, input, clause>>
    BY <1>9 DEF ApplyMergeBatch
  <2>3. Members(events') \subseteq Members(events)
    BY <2>1, RestIs DEF TypeInv, EventsOK
  <2> QED BY <1>6, <2>2, <2>3
<1>10. CASE ApplyDelete
  <2>1. /\ mode = "apply" /\ mode' = "apply" /\ events' = <<>> /\ UNCHANGED <<rows, input, clause>>
    BY <1>10 DEF ApplyDelete
  <2> QED BY <1>6, <2>1, IsEmpty
<1>11. CASE Fail
  <2>1. rows' = {} /\ input' = input /\ mode' = "idle"
    BY <1>11 DEF Fail
  <2> QED BY <2>1 DEF AlikeInv, Alike
<1> QED BY <1>1, <1>2, <1>3, <1>4, <1>5, <1>7, <1>8, <1>9, <1>10, <1>11 DEF Next

\* Of the events of a MERGE of a hop all have their ends or none.
LEMMA PlacedAlike ==
    ASSUME TypeInv, AlikeInv, mode = "apply", MergesHop(clause),
           NEW d \in Members(events), NEW e \in Members(events), Placed(d)
    PROVE  Placed(e)
<1>1. clause \in AllClauses /\ clause.parts[1] \in AllParts /\ IsHop(clause.parts[1]) /\ ~Deletes(clause)
  BY ClauseIs DEF TypeInv, RequestOK, MergesHop, Deletes
<1>2. \A f \in {d, e} : NamesOK(f.at) /\ f.part = clause.parts[1]
  <2>1. Members(clause.parts) = {clause.parts[1]}
    BY <1>1, ClauseIs DEF MergesHop
  <2> QED BY <1>1, <2>1 DEF TypeInv, EventsOK, EventOK
<1>3. Free(d.at) = Free(e.at)
  BY DEF AlikeInv, Alike
<1>4. /\ d.part.left.var \in DOMAIN d.at /\ d.part.right.var \in DOMAIN d.at
  BY <1>1, <1>2, EndsIs
<1>5. e.part.left.var \in DOMAIN e.at /\ e.part.right.var \in DOMAIN e.at
      /\ IsVertexId(e.at[e.part.left.var]) /\ IsVertexId(e.at[e.part.right.var])
  <2>1. e.part.left.var \notin HopNames /\ e.part.right.var \notin HopNames
    BY <1>1, <1>2, PartNames DEF NodesOf
  <2> QED BY <1>2, <1>3, <1>4, <2>1 DEF Free, NamesOK
<1>6. Ends(e) = <<e.at[e.part.left.var], e.at[e.part.right.var]>>
  BY <1>5 DEF Ends, At
<1>7. \A v : IsVertexId(v) => v # None
  BY DEF IsVertexId, None
<1> QED BY <1>5, <1>6, <1>7 DEF Placed

---------------------------------------------------------------------------
(* Counts in the requests.  No base is above the edges of its pair while a *)
(* clause that makes or deletes relationships is still to come, and where  *)
(* none was counted no edge is there before a batch.                       *)

Touches(c) == Deletes(c) \/ MakesHops(c)

HopsAhead ==
    \/ mode = "rows" /\ Touches(clause)
    \/ mode = "apply" /\ events # <<>> /\ Touches(clause)
    \/ \E d \in Members(clauses) : Touches(d)

CountInv ==
    /\ store.counted = Cardinality(DOMAIN store.edges) /\ Below(store, store.pairs)
    /\ mode # "idle" => Counts(tx) /\ (HopsAhead => Below(tx, tx.base))

BatchComing ==
    \/ \E d \in Members(clauses) : MergesSimple(d)
    \/ mode = "rows" /\ MergesSimple(clause)
    \/ mode = "apply" /\ MergesSimple(clause) /\ \E e \in Members(events) : Placed(e)

BatchInv == mode # "idle" /\ tx.counted = 0 /\ BatchComing => DOMAIN tx.edges = {}

LEMMA CountInit == Init => CountInv /\ BatchInv
<1> SUFFICES ASSUME Init PROVE CountInv /\ BatchInv
  OBVIOUS
<1>1. PICK g \in Graphs :
         store = [labels |-> g.labels, edges |-> g.edges, counted |-> Cardinality(DOMAIN g.edges),
                  pairs |-> [p \in {g.edges[e] : e \in DOMAIN g.edges} |->
                                Cardinality(Between(g, p[1], p[2]))]]
  BY DEF Init
<1>2. mode = "idle"
  BY DEF Init
<1>3. TypeInv
  BY TypeInit
<1>4. ASSUME NEW p \in DOMAIN store.pairs PROVE store.pairs[p] <= Cardinality(Of(store, p))
  <2>1. PICK e \in DOMAIN g.edges : p = g.edges[e]
    BY <1>1, <1>4
  <2>2. p = <<p[1], p[2]>>
    BY <1>1, <1>3, <2>1 DEF TypeInv, StoreOK, GraphOK
  <2>3. Between(g, p[1], p[2]) = Of(store, p)
    BY <1>1, <2>2 DEF Between, Of
  <2>4. store.pairs[p] = Cardinality(Of(store, p))
    BY <1>1, <1>4, <2>3
  <2>5. Cardinality(Of(store, p)) \in Nat
    BY <1>3, OfFinite DEF TypeInv, StoreOK, GraphOK
  <2> QED BY <2>4, <2>5
<1> QED BY <1>1, <1>2, <1>4 DEF CountInv, BatchInv, Below

LEMMA ViewCounts ==
    ASSUME TypeInv, CountInv
    PROVE  /\ Counts(View(store)) /\ Below(View(store), View(store).base)
           /\ View(store).counted = 0 => DOMAIN View(store).edges = {}
<1> DEFINE v == View(store)
<1>1. /\ v.edges = store.edges /\ v.counted = store.counted /\ v.pairs = store.pairs
      /\ DOMAIN v.base = {} /\ v.pending = 0 /\ store.counted \in Nat
      /\ IsFiniteSet(DOMAIN store.edges)
  BY ViewIs DEF TypeInv, StoreOK, GraphOK
<1> HIDE DEF v
<1>2. store.counted = Cardinality(DOMAIN store.edges) /\ Below(store, store.pairs)
  BY DEF CountInv
<1>3. Below(v, v.pairs) /\ Below(v, v.base)
  BY <1>1, <1>2 DEF Below, Of
<1>4. v.counted = 0 => DOMAIN v.edges = {}
  BY <1>1, <1>2, FS_EmptySet
<1> QED BY <1>1, <1>2, <1>3, <1>4 DEF Counts, v

LEMMA CountBegin == TypeInv /\ CountInv /\ Begin => CountInv' /\ BatchInv'
<1> SUFFICES ASSUME TypeInv, CountInv, Begin PROVE CountInv' /\ BatchInv'
  OBVIOUS
<1>1. tx' = View(store) /\ store' = store
  BY DEF Begin
<1> QED BY <1>1, ViewCounts DEF CountInv, BatchInv

\* What a merge of a hop without a name is.
LEMMA SimpleMakes ==
    ASSUME NEW c \in AllClauses, MergesHop(c) PROVE MakesHops(c)
<1>1. c.parts[1] \in Members(c.parts) /\ Members(c.parts) = {c.parts[1]}
  BY ClauseIs DEF MergesHop
<1> QED BY <1>1 DEF MergesHop, MakesHops, Members

LEMMA CountCommit == TypeInv /\ CountInv /\ Commit => CountInv' /\ BatchInv'
<1> SUFFICES ASSUME TypeInv, CountInv, Commit PROVE CountInv' /\ BatchInv'
  OBVIOUS
<1>1. store' = Flushed(tx) /\ mode = "clause" /\ mode' = "idle"
  BY DEF Commit
<1>2. /\ Flushed(tx).edges = tx.edges /\ Flushed(tx).pairs = tx.pairs
      /\ Flushed(tx).counted = IF tx.counted + tx.pending < 0 THEN 0 ELSE tx.counted + tx.pending
  BY FlushedIs DEF TypeInv
<1>3. Cardinality(DOMAIN tx.edges) \in Nat
  BY FS_CardinalityType DEF TypeInv, TxOK, GraphOK
<1>4. Counts(tx)
  BY <1>1 DEF CountInv
<1>5. store'.counted = Cardinality(DOMAIN store'.edges)
  BY <1>1, <1>2, <1>3, <1>4 DEF Counts
<1>6. Below(store', store'.pairs)
  BY <1>1, <1>2, <1>4 DEF Counts, Below, Of
<1> QED BY <1>1, <1>5, <1>6 DEF CountInv, BatchInv

LEMMA CountOthers ==
    TypeInv /\ CountInv /\ BatchInv /\ UNCHANGED <<tx, store>>
    /\ (ExecuteMatch \/ ExecuteWrite \/ MaterializeRow \/ RowsDone \/ EndClause)
        => CountInv' /\ BatchInv'
<1> SUFFICES ASSUME TypeInv, CountInv, BatchInv, UNCHANGED <<tx, store>>,
                    ExecuteMatch \/ ExecuteWrite \/ MaterializeRow \/ RowsDone \/ EndClause
             PROVE  CountInv' /\ BatchInv'
  OBVIOUS
<1>1. mode # "idle" /\ (HopsAhead' => HopsAhead) /\ (BatchComing' => BatchComing)
  <2>1. CASE ExecuteMatch \/ ExecuteWrite
    <3>1. ClauseBegins /\ mode = "clause" /\ mode' \in {"clause", "rows"}
      BY <2>1 DEF ExecuteMatch, ExecuteWrite, ClauseBegins
    <3>2. Members(clauses) = {clause'} \cup Members(clauses')
      BY <3>1, ClauseBeginsIs
    <3> QED BY <3>1, <3>2 DEF HopsAhead, BatchComing
  <2>2. CASE MaterializeRow
    <3>1. mode = "rows" /\ UNCHANGED <<clauses, clause, mode>>
      BY <2>2 DEF MaterializeRow, MaterializeCreate, MaterializeMerge, MaterializeDelete, RowDone
    <3> QED BY <3>1 DEF HopsAhead, BatchComing
  <2>3. CASE RowsDone
    <3>1. mode = "rows" /\ mode' = "apply" /\ UNCHANGED <<clauses, clause, events>>
      BY <2>3 DEF RowsDone
    <3> QED BY <3>1 DEF HopsAhead, BatchComing
  <2>4. CASE EndClause
    <3>1. mode = "apply" /\ mode' = "clause" /\ UNCHANGED <<clauses, clause, events>>
      BY <2>4 DEF EndClause
    <3> QED BY <3>1 DEF HopsAhead, BatchComing
  <2> QED BY <2>1, <2>2, <2>3, <2>4
<1>2. (Counts(tx)' <=> Counts(tx)) /\ (Below(tx, tx.base)' <=> Below(tx, tx.base))
      /\ (Below(store, store.pairs)' <=> Below(store, store.pairs))
  OBVIOUS
<1> QED BY <1>1, <1>2 DEF CountInv, BatchInv

LEMMA AddsAt ==
    ApplyAdds => /\ mode = "apply" /\ mode' = "apply" /\ events # <<>>
                 /\ ~Deletes(clause) /\ clause.op # "MATCH"
                 /\ UNCHANGED <<store, clauses, clause>>
BY DEF ApplyAdds, ApplyCreate, ApplyMergeVertex, ApplyMergeBatch, ApplyMergeSimple,
       ApplyMergeEdge, ApplyMergeNothing, Applied, Deletes

LEMMA CountAdds == TypeInv /\ CountInv /\ BatchInv /\ ApplyAdds => CountInv'
<1> SUFFICES ASSUME TypeInv, CountInv, BatchInv, ApplyAdds PROVE CountInv'
  OBVIOUS
<1>1. /\ mode = "apply" /\ mode' = "apply" /\ events # <<>>
      /\ UNCHANGED <<store, clauses, clause>>
  BY AddsAt
<1>2. HopsAhead' => HopsAhead
  BY <1>1 DEF HopsAhead
<1>3. Counts(tx) /\ (HopsAhead => Below(tx, tx.base)) /\ TxOK(tx)
  BY <1>1 DEF CountInv, TypeInv
<1>4. CASE VerticesPut(tx, tx')
  <2>1. Counts(tx') /\ (HopsAhead => Below(tx', tx'.base))
    BY <1>3, <1>4, CountsVertices
  <2> QED BY <1>1, <1>2, <2>1 DEF CountInv
<1>5. CASE \E q, a, b : /\ VerticesPut(tx, q) /\ EdgePut(q, tx', a, b)
                        /\ IsVertexId(a) /\ IsVertexId(b)
                        /\ MakesHops(clause)
  <2>1. PICK q, a, b : /\ VerticesPut(tx, q) /\ EdgePut(q, tx', a, b)
                       /\ IsVertexId(a) /\ IsVertexId(b)
                       /\ MakesHops(clause)
    BY <1>5
  <2>2. HopsAhead
    BY <1>1, <2>1 DEF HopsAhead, Touches
  <2>3. Counts(q) /\ Below(q, q.base) /\ TxOK(q)
    BY <1>3, <2>1, <2>2, CountsVertices DEF VerticesPut
  <2>4. Counts(tx') /\ Below(tx', tx'.base)
    BY <2>1, <2>3, CountsPut
  <2> QED BY <1>1, <2>4 DEF CountInv
<1>6. CASE \E P : /\ ApplyMergeBatch /\ IsFiniteSet(P) /\ (\A p \in P : IsPair(p))
                  /\ tx' = PutEdgeNewBatch(tx, P)
  <2>1. PICK P : /\ ApplyMergeBatch /\ IsFiniteSet(P) /\ (\A p \in P : IsPair(p))
                 /\ tx' = PutEdgeNewBatch(tx, P)
    BY <1>6
  <2>2. /\ MergesSimple(clause) /\ tx.counted = 0 /\ Placed(Head(events)) /\ MergesHop(clause)
    BY <2>1 DEF ApplyMergeBatch, IsBatch, MergesSimple, MergesHop
  <2>3. Head(events) \in Members(events) /\ clause \in AllClauses
    BY <1>1, HeadIs
  <2>4. DOMAIN tx.edges = {}
    BY <1>1, <2>2, <2>3 DEF BatchInv, BatchComing
  <2>5. Below(tx, tx.base)
    BY <1>1, <1>3, <2>2, <2>3, SimpleMakes DEF HopsAhead, Touches
  <2>6. Counts(tx') /\ Below(tx', tx'.base)
    BY <1>3, <2>1, <2>4, <2>5, CountsBatch
  <2> QED BY <1>1, <2>6 DEF CountInv
<1> QED BY <1>4, <1>5, <1>6, ApplyAddsIs

LEMMA BatchAdds ==
    TypeInv /\ OrderInv(CountsKept) /\ AlikeInv /\ BatchInv /\ ApplyAdds => BatchInv'
<1> SUFFICES ASSUME TypeInv, OrderInv(CountsKept), AlikeInv, BatchInv, ApplyAdds,
                    tx'.counted = 0, BatchComing'
             PROVE  DOMAIN tx'.edges = {}
  BY DEF BatchInv
<1>1. /\ mode = "apply" /\ mode' = "apply" /\ events # <<>> /\ clause.op # "MATCH"
      /\ UNCHANGED <<store, clauses, clause>>
  BY AddsAt
<1>2. tx.counted = 0
  BY EnoughAdds
<1>3. clause \in AllClauses
  BY <1>1, HeadIs
<1>4. ASSUME MakesHops(clause), NEW d \in Members(clauses) PROVE ~MergesSimple(d)
  <2>1. <<clause, d>> \in CountsKept
    BY <1>1 DEF OrderInv
  <2> QED BY <1>4, <2>1 DEF CountsKept
<1>5. CASE MergesSimple(clause)
  <2>1. MergesHop(clause) /\ MakesHops(clause)
    BY <1>3, <1>5, SimpleMakes DEF MergesSimple
  <2>2. \E e \in Members(events') : Placed(e)
    BY <1>1, <1>4, <2>1 DEF BatchComing
  <2>3. ApplyMergeBatch \/ ApplyMergeNothing
    BY <1>2, <1>5 DEF ApplyAdds, ApplyCreate, ApplyMergeVertex, ApplyMergeSimple, ApplyMergeEdge,
                      MergesSimple, MergesHop
  <2>4. CASE ApplyMergeNothing
    <3>1. tx' = tx /\ events' = Tail(events)
      BY <2>4 DEF ApplyMergeNothing, Applied
    <3>2. Members(events') \subseteq Members(events)
      BY <1>1, <3>1, HeadIs
    <3>3. BatchComing
      BY <1>1, <1>5, <2>2, <3>2 DEF BatchComing
    <3> QED BY <1>1, <1>2, <3>1, <3>3 DEF BatchInv
  <2>5. CASE ApplyMergeBatch
    <3>1. PICK n \in DOMAIN events :
             /\ \A i \in 1 .. n : Placed(events[i])
             /\ n < Len(events) => ~Placed(events[n + 1])
             /\ events' = SubSeq(events, n + 1, Len(events))
      BY <2>5 DEF ApplyMergeBatch
    <3>2. IsSeq(events)
      BY DEF TypeInv, EventsOK
    <3>3. n \in Nat /\ Len(events) \in Nat /\ DOMAIN events = 1 .. Len(events) /\ n \in 1 .. n
      BY <3>2 DEF IsSeq
    <3>4. ~(n < Len(events))
      <4> SUFFICES ASSUME n < Len(events) PROVE FALSE
        OBVIOUS
      <4>1. n + 1 \in DOMAIN events /\ Placed(events[n]) /\ ~Placed(events[n + 1])
        BY <3>1, <3>3
      <4>2. events[n] \in Members(events) /\ events[n + 1] \in Members(events)
        BY <4>1 DEF Members
      <4> QED BY <1>1, <2>1, <4>1, <4>2, PlacedAlike
    <3>5. events' = <<>>
      BY <3>1, <3>2, <3>3, <3>4 DEF IsSeq
    <3> QED BY <2>2, <3>5, IsEmpty
  <2> QED BY <2>3, <2>4, <2>5
<1>6. CASE ~MergesSimple(clause)
  <2>1. \E d \in Members(clauses) : MergesSimple(d)
    BY <1>1, <1>6 DEF BatchComing
  <2>2. ~MakesHops(clause)
    BY <1>4, <2>1
  <2>3. ~ApplyMergeBatch
    BY <1>6 DEF ApplyMergeBatch, IsBatch, MergesSimple, MergesHop
  <2>4. tx'.edges = tx.edges
    BY <2>2, <2>3, ApplyAddsIs DEF VerticesPut
  <2>5. BatchComing
    BY <2>1 DEF BatchComing
  <2> QED BY <1>1, <1>2, <2>4, <2>5 DEF BatchInv
<1> QED BY <1>5, <1>6

LEMMA CountDelete ==
    TypeInv /\ DetachesApart /\ OrderInv(CountsKept) /\ CountInv /\ ApplyDelete => CountInv' /\ BatchInv'
<1> SUFFICES ASSUME TypeInv, DetachesApart, OrderInv(CountsKept), CountInv, ApplyDelete
             PROVE  CountInv' /\ BatchInv'
  OBVIOUS
<1>1. /\ mode = "apply" /\ mode' = "apply" /\ events # <<>> /\ Deletes(clause) /\ events' = <<>>
      /\ UNCHANGED <<store, clauses, clause>> /\ clause.op # "MATCH"
  BY DEF ApplyDelete, Deletes
<1>2. HopsAhead
  BY <1>1 DEF HopsAhead, Touches
<1>3. Counts(tx')
  BY <1>1, <1>2, CountsTaken DEF CountInv
<1>4. ASSUME NEW d \in Members(clauses) PROVE ~Touches(d) /\ ~MergesSimple(d)
  <2>1. <<clause, d>> \in CountsKept
    BY <1>1 DEF OrderInv
  <2>2. d \in AllClauses
    BY DEF TypeInv, RequestOK
  <2> QED BY <1>1, <2>1, <2>2, SimpleMakes DEF CountsKept, Touches, MergesSimple
<1>5. Members(clauses') = Members(clauses) /\ Members(events') = {}
  BY <1>1, IsEmpty
<1>6. ~HopsAhead' /\ ~BatchComing'
  BY <1>1, <1>4, <1>5 DEF HopsAhead, BatchComing
<1>7. (Below(store, store.pairs)' <=> Below(store, store.pairs))
  BY <1>1
<1> QED BY <1>1, <1>3, <1>6, <1>7 DEF CountInv, BatchInv

CountedInv == AlikeInv /\ CountInv /\ BatchInv

LEMMA CountedInit == Init => CountedInv
<1>1. Init => AlikeInv
  BY DEF Init, AlikeInv, Alike
<1> QED BY <1>1, CountInit DEF CountedInv

LEMMA CountedStep ==
    TypeInv /\ DetachesApart /\ OrderInv(CountsKept) /\ CountedInv /\ [Next]_vars => CountedInv'
<1> SUFFICES ASSUME TypeInv, DetachesApart, OrderInv(CountsKept), AlikeInv, CountInv, BatchInv, [Next]_vars
             PROVE  CountedInv'
  BY DEF CountedInv
<1>1. AlikeInv'
  BY AlikeStep
<1>2. CASE UNCHANGED vars
  <2>1. CountInv' /\ BatchInv'
    BY <1>2 DEF vars, CountInv, BatchInv, HopsAhead, BatchComing, Counts, Below, Of
  <2> QED BY <1>1, <2>1 DEF CountedInv
<1>3. CASE Begin BY <1>1, <1>3, CountBegin DEF CountedInv
<1>4. CASE ApplyAdds BY <1>1, <1>4, CountAdds, BatchAdds DEF CountedInv
<1>5. CASE ApplyDelete BY <1>1, <1>5, CountDelete DEF CountedInv
<1>6. CASE Fail
  <2>1. store' = store /\ mode' = "idle"
    BY <1>6 DEF Fail
  <2>2. (Below(store, store.pairs)' <=> Below(store, store.pairs))
    BY <2>1
  <2>3. CountInv' /\ BatchInv'
    BY <2>1, <2>2 DEF CountInv, BatchInv
  <2> QED BY <1>1, <2>3 DEF CountedInv
<1>7. CASE Commit BY <1>1, <1>7, CountCommit DEF CountedInv
<1>8. CASE Elsewhere /\ ~Commit
  <2>1. UNCHANGED <<tx, store>>
    BY <1>8, ElsewhereSame DEF Elsewhere, ExecuteMatch, ExecuteWrite, MaterializeRow, MaterializeCreate,
       MaterializeMerge, MaterializeDelete, RowDone, RowsDone, EndClause
  <2>2. CountInv' /\ BatchInv'
    BY <1>8, <2>1, CountOthers DEF Elsewhere
  <2> QED BY <1>1, <2>2 DEF CountedInv
<1> QED BY <1>2, <1>3, <1>4, <1>5, <1>6, <1>7, <1>8, NextSplit

\* Between requests a count of a pair is for a pair with an edge.
LEMMA CountedGives == TypeInv /\ CountedInv => CountsBelieved
<1> SUFFICES ASSUME TypeInv, CountedInv, mode = "idle" PROVE
       /\ store.counted = Cardinality(DOMAIN store.edges)
       /\ \A p \in DOMAIN store.pairs : Between(store, p[1], p[2]) # {}
  BY DEF CountsBelieved
<1>1. store.counted = Cardinality(DOMAIN store.edges) /\ Below(store, store.pairs)
  BY DEF CountedInv, CountInv
<1>2. ASSUME NEW p \in DOMAIN store.pairs PROVE Between(store, p[1], p[2]) # {}
  <2>1. store.pairs[p] \in Nat \ {0} /\ store.pairs[p] <= Cardinality(Of(store, p))
    BY <1>1 DEF TypeInv, StoreOK, PairsOK, Below
  <2>2. Of(store, p) # {}
    BY <2>1, FS_EmptySet
  <2>3. PICK e \in DOMAIN store.edges : store.edges[e] = p
    BY <2>2 DEF Of
  <2>4. p = <<e[2], e[3]>>
    BY <2>3 DEF TypeInv, StoreOK, GraphOK
  <2>5. e \in Between(store, p[1], p[2])
    BY <2>3, <2>4 DEF Between
  <2> QED BY <2>5
<1> QED BY <1>1, <1>2

LEMMA CountedAlways ==
    ASSUME Obeyed(CountsKept), DetachesApart
    PROVE  Spec => [](TypeInv /\ CountedInv)
<1>1. Init => CountedInv
  BY CountedInit
<1>2. TypeInv /\ OrderInv(CountsKept) /\ CountedInv /\ [Next]_vars => CountedInv'
  BY CountedStep
<1>3. Init => OrderInv(CountsKept)
  BY OrderInit
<1>4. TypeInv /\ OrderInv(CountsKept) /\ [Next]_vars => OrderInv(CountsKept)'
  BY OrderStep
<1> QED BY <1>1, <1>2, <1>3, <1>4, TypeAlways, PTL DEF Spec

\* After every request the store counts as many relationships as it holds, and a
\* count of a pair stands for one that is there (flushCounterDeltas,
\* adjustOutEndpointPairCount): a batch and the writes after it add one for each
\* edge they put, and a deletion computes from a base no higher than the edges.
\* What is asked of the clauses is needed: a batch after an edge was made puts
\* it again and counts it, and the second of two deletions computes from a base
\* the first has not refreshed.
THEOREM CountsRight ==
    ASSUME Obeyed(CountsKept), DetachesApart
    PROVE  Spec => []CountsBelieved
<1>1. TypeInv /\ CountedInv => CountsBelieved
  BY CountedGives
<1> QED BY <1>1, CountedAlways, PTL

---------------------------------------------------------------------------
(* What a MERGE was asked for.  Every row it goes on with has both ends    *)
(* and an edge between them, or an event that is still to be applied; and  *)
(* of the events of a node the first leaves a vertex with the label.       *)

EndsAt(at) == <<At(at, clause.parts[1].left.var, None), At(at, clause.parts[1].right.var, None)>>
Reached(s, p) ==
    Between(s, p[1], p[2]) # {} \/ (clause.parts[1].dir = "any" /\ Between(s, p[2], p[1]) # {})
Answered(s, p) == None \in {p[1], p[2]} \/ Reached(s, p)
Asked(p) == \E e \in Members(events) : Ends(e) = p

HopThere ==
    mode # "idle" /\ MergesHop(clause) =>
        /\ \A row \in rows : Answered(tx, EndsAt(row.at)) \/ Asked(EndsAt(row.at))
        /\ \A p \in scratch.known : Between(tx, p[1], p[2]) # {}

NodeThere ==
    mode # "idle" /\ MergesNode(clause) =>
        /\ DOMAIN scratch.cache # {} => Labelled(tx, MergeLabel) # {}
        /\ Labelled(tx, MergeLabel) # {} \/ events # <<>> \/ input # {}

\* A pair that is believed to have an edge has one.
LEMMA BelievedIsThere ==
    ASSUME NEW s, TxOK(s), Counts(s), NEW a, NEW b, HasDirectedEdgeBetween(s, a, b)
    PROVE  Between(s, a, b) # {}
<1> DEFINE p == <<a, b>>
<1>1. CASE p \in DOMAIN s.pairs
  <2>1. s.pairs[p] \in Nat \ {0} /\ s.pairs[p] <= Cardinality(Of(s, p))
    BY <1>1 DEF TxOK, PairsOK, Counts, Below
  <2>2. Of(s, p) # {}
    BY <2>1, FS_EmptySet
  <2> QED BY <2>2 DEF Of, Between
<1> QED BY <1>1 DEF HasDirectedEdgeBetween

LEMMA ReachedKept ==
    ASSUME NEW s, NEW t, Keeps(s, t), NEW a, NEW b, Between(s, a, b) # {}
    PROVE  Between(t, a, b) # {}
BY DEF Keeps, Between

\* An event of a MERGE of a relationship, one by one, is answered.
LEMMA AnsweredOne ==
    ASSUME TypeInv, CountInv, HopThere, ApplyMergeSimple \/ ApplyMergeEdge \/ ApplyMergeNothing
    PROVE  /\ Answered(tx', Ends(Head(events)))
           /\ \A p \in scratch'.known : p \in scratch.known \/ Between(tx', p[1], p[2]) # {}
<1> DEFINE p == Ends(Head(events))
           dir == clause.parts[1].dir
<1>1. /\ mode = "apply" /\ events # <<>> /\ MergesHop(clause) /\ clause.op = "MERGE"
      /\ IsHop(clause.parts[1]) /\ ~Deletes(clause)
  BY DEF ApplyMergeSimple, ApplyMergeEdge, ApplyMergeNothing, Applied, MergesHop, Deletes
<1>2. /\ Head(events).part = clause.parts[1] /\ Head(events).part \in AllParts
      /\ NamesOK(Head(events).at)
  BY <1>1, HeadIs DEF EventOK
<1>3. TxOK(tx) /\ Counts(tx) /\ IsScratch(scratch) /\ \A q \in scratch.known : Between(tx, q[1], q[2]) # {}
  BY <1>1 DEF TypeInv, EventsOK, CountInv, HopThere
<1>4. Placed(Head(events)) => IsVertexId(p[1]) /\ IsVertexId(p[2])
  BY <1>1, <1>2, EndsIs DEF IsPair
<1>5. ASSUME Placed(Head(events)), EdgePut(tx, tx', p[1], p[2]) PROVE Between(tx', p[1], p[2]) # {}
  <2> HIDE DEF p
  <2>1. EdgeAdded(tx, tx', p[1], p[2])
    BY <1>3, <1>4, <1>5, EdgePutOK
  <2> QED BY <2>1 DEF EdgeAdded, Between
<1>6. CASE ApplyMergeSimple
  <2> DEFINE e == EdgeId(p[1], p[2], 0)
             there == p \in scratch.known \/ HasDirectedEdgeBetween(tx, p[1], p[2]) \/ e \in DOMAIN tx.edges
  <2>1. /\ tx' = (IF there THEN tx ELSE PutEdgeNew(tx, e, p[1], p[2])) /\ Placed(Head(events))
        /\ scratch' = [scratch EXCEPT !.known = scratch.known \cup {p}]
    BY <1>6 DEF ApplyMergeSimple, Applied
  <2>2. scratch'.known = scratch.known \cup {p}
    BY <1>3, <2>1 DEF IsScratch
  <2>3. e \in DOMAIN tx.edges => e \in Between(tx, p[1], p[2])
    BY <1>3, EdgeIdParts DEF Between, TxOK, GraphOK
  <2>4. there => Between(tx, p[1], p[2]) # {}
    <3> HIDE DEF e, p
    <3> QED BY <1>3, <2>3, BelievedIsThere
  <2>5. ~there => EdgePut(tx, PutEdgeNew(tx, e, p[1], p[2]), p[1], p[2])
    BY DEF EdgePut
  <2> HIDE DEF e, there, p
  <2>6. Between(tx', p[1], p[2]) # {}
    BY <1>5, <2>1, <2>4, <2>5
  <2> QED BY <2>2, <2>6 DEF Answered, Reached, p
<1>7. CASE ApplyMergeEdge
  <2> DEFINE gone == scratch.gone \cup Head(events).gone
  <2>1. /\ tx' \in MergedEdge(tx, gone, Head(events).part, p[1], p[2]) /\ Placed(Head(events))
        /\ scratch' = [scratch EXCEPT !.gone = gone]
    BY <1>7 DEF ApplyMergeEdge, Applied
  <2> DEFINE there(x, y) == Between(tx, x, y) \ gone # {}
             found == there(p[1], p[2]) \/ (Head(events).part.dir = "any" /\ there(p[2], p[1]))
  <2>2. IF found THEN tx' = tx ELSE EdgePut(tx, tx', p[1], p[2])
    <3> HIDE DEF p, gone
    <3> QED BY <2>1, MergedEdgeIs
  <2>3. found => Reached(tx, p)
    <3> HIDE DEF p, gone
    <3> QED BY <1>2 DEF Reached
  <2>4. scratch'.known = scratch.known
    BY <1>3, <2>1 DEF IsScratch
  <2> HIDE DEF p, found
  <2>5. Reached(tx', p)
    BY <1>5, <2>1, <2>2, <2>3 DEF Reached
  <2> QED BY <2>4, <2>5 DEF Answered, p
<1>8. CASE ApplyMergeNothing
  <2>1. ~Placed(Head(events)) /\ scratch' = scratch
    BY <1>8 DEF ApplyMergeNothing
  <2> QED BY <2>1 DEF Answered, Placed
<1> QED BY <1>6, <1>7, <1>8

\* A batch answers its events.
LEMMA AnsweredBatch ==
    ASSUME TypeInv, ApplyMergeBatch
    PROVE  \A e \in Members(events) : Answered(tx', Ends(e)) \/ e \in Members(events')
<1>1. /\ mode = "apply" /\ clause.op = "MERGE" /\ IsHop(clause.parts[1])
  BY DEF ApplyMergeBatch
<1>2. PICK n \in DOMAIN events :
         /\ \A i \in 1 .. n : Placed(events[i])
         /\ tx' = PutEdgeNewBatch(tx, {Ends(events[i]) : i \in 1 .. n})
         /\ events' = SubSeq(events, n + 1, Len(events))
  BY DEF ApplyMergeBatch
<1> DEFINE first == {events[i] : i \in 1 .. n}
           P == {Ends(events[i]) : i \in 1 .. n}
           rest == SubSeq(events, n + 1, Len(events))
           t == PutEdgeNewBatch(tx, P)
           E == {EdgeId(p[1], p[2], 0) : p \in P}
<1>3. /\ IsFiniteSet(P) /\ \A p \in P : IsPair(p)
      /\ IsSeq(rest) /\ Members(events) = first \cup Members(rest)
      /\ P = {Ends(e) : e \in first} /\ \A e \in first : Placed(e)
  BY <1>1, <1>2, BatchIs
<1> HIDE DEF first, P
<1>4. /\ TxOK(t) /\ t.labels = tx.labels /\ t.counted = tx.counted
      /\ DOMAIN t.edges = DOMAIN tx.edges \cup E
      /\ \A e \in DOMAIN tx.edges : t.edges[e] = tx.edges[e]
      /\ t.pending = tx.pending + Cardinality(P)
  BY <1>3, PutEdgeNewBatchOK DEF TypeInv
<1>5. tx' = t /\ events' = rest
  BY <1>2 DEF P
<1> HIDE DEF t, rest
<1>6. ASSUME NEW e \in first PROVE Answered(tx', Ends(e))
  <2> DEFINE p == Ends(e)
             d == EdgeId(p[1], p[2], 0)
  <2>1. d \in DOMAIN tx'.edges
    BY <1>3, <1>4, <1>5
  <2>2. d \in Between(tx', p[1], p[2])
    BY <1>4, <1>5, <2>1, EdgeIdParts DEF Between, TxOK, GraphOK
  <2> QED BY <2>2 DEF Answered, Reached
<1> QED BY <1>3, <1>5, <1>6

LEMMA HopThereRows ==
    \A row \in input : TypeInv /\ HopThere /\ mode = "rows" /\ MaterializeMerge(row) => HopThere'
<1> SUFFICES ASSUME NEW row \in input, TypeInv, HopThere, mode = "rows", MaterializeMerge(row),
                    MergesHop(clause)'
             PROVE  HopThere'
  BY DEF HopThere
<1> DEFINE part == clause.parts[1]
           r == [row |-> row, params |-> params]
           T == MergeEdge(tx, r, part)
<1>1. UNCHANGED <<clause, tx, scratch, mode>>
  BY DEF MaterializeMerge, RowDone
<1>2. MergesHop(clause) /\ IsHop(part)
  BY <1>1 DEF MergesHop
<1>3. PICK list \in Listings(T) :
         RowDone(row, T, params, [i \in DOMAIN list |-> Event(clause, part, list[i])])
  BY <1>2 DEF MaterializeMerge
<1> DEFINE es == [i \in DOMAIN list |-> Event(clause, part, list[i])]
<1>4. IsFiniteSet(T)
  <2> DEFINE a == At(r.row.at, part.left.var, None)
             b == At(r.row.at, part.right.var, None)
  <2>1. BothOK(r) /\ clause \in AllClauses /\ part \in AllParts /\ GraphOK(tx)
    BY <1>2, NextRow, ClauseIs DEF MergesHop, TypeInv, TxOK
  <2>2. /\ IsFiniteSet(T) /\ T # {}
        /\ part.hop = Anon \/ None \in {a, b} => T = {r.row}
        /\ ~(part.hop = Anon \/ None \in {a, b}) => \A t \in T :
              /\ t.at = Put(r.row.at, part.hop, EdgeId(a, b, 0))
              /\ part.hop \in HopNames
        /\ \A t \in T : RowOK(t, r.params) /\ t.gone = r.row.gone
    <3> HIDE DEF r, part
    <3> QED BY <1>2, <2>1, MergeEdgeIs
  <2> QED BY <2>2
<1>5. rows' = rows \cup T /\ events' = events \o es
  BY <1>3 DEF RowDone
<1> HIDE DEF T, part
<1>6. IsSeq(es) /\ Members(es) = {Event(clause, part, t) : t \in T}
  BY <1>3, <1>4, ListedEvents
<1> HIDE DEF es
<1>7. Members(events') = Members(events) \cup Members(es)
  BY <1>5, <1>6, ConcatIs DEF TypeInv, EventsOK
<1>8. ASSUME NEW t \in T PROVE Ends(Event(clause, part, t)) = EndsAt(t.at)
  BY DEF Ends, EndsAt, Event, part
<1>9. ASSUME NEW t \in rows' PROVE Answered(tx, EndsAt(t.at)) \/ \E e \in Members(events') : Ends(e) = EndsAt(t.at)
  <2>1. CASE t \in rows
    BY <1>2, <1>7, <2>1 DEF HopThere, Asked
  <2>2. CASE t \in T
    <3>1. Event(clause, part, t) \in Members(events')
      BY <1>6, <1>7, <2>2
    <3> QED BY <1>8, <2>2, <3>1
  <2> QED BY <1>5, <2>1, <2>2
<1>10. \A p \in scratch'.known : Between(tx', p[1], p[2]) # {}
  BY <1>1, <1>2 DEF HopThere
<1>11. \A t \in rows' : Answered(tx', EndsAt(t.at)') \/ (\E e \in Members(events') : Ends(e) = EndsAt(t.at)')
  BY <1>1, <1>9 DEF Answered, Reached, EndsAt
<1> QED BY <1>1, <1>10, <1>11 DEF HopThere, Asked, Answered, Reached, EndsAt

LEMMA HopThereApplied ==
    TypeInv /\ CountInv /\ HopThere /\ ApplyAdds /\ MergesHop(clause) => HopThere'
<1> SUFFICES ASSUME TypeInv, CountInv, HopThere, ApplyAdds, MergesHop(clause) PROVE HopThere'
  OBVIOUS
<1>1. /\ mode = "apply" /\ events # <<>> /\ UNCHANGED <<clause, rows>>
  BY DEF ApplyAdds, ApplyCreate, ApplyMergeVertex, ApplyMergeBatch, ApplyMergeSimple,
         ApplyMergeEdge, ApplyMergeNothing, Applied
<1>2. ApplyMergeBatch \/ ApplyMergeSimple \/ ApplyMergeEdge \/ ApplyMergeNothing
  BY DEF ApplyAdds, ApplyCreate, ApplyMergeVertex, MergesHop
<1>3. Keeps(tx, tx')
  <2>1. Adds(tx, tx')
    BY ApplyStepAdds DEF TypeInv, TxOK
  <2> QED BY <2>1 DEF Adds
<1>4. \A p : Answered(tx, p) => Answered(tx', p)
  BY <1>3, ReachedKept DEF Answered, Reached
<1>5. /\ \A e \in Members(events) : Answered(tx', Ends(e)) \/ e \in Members(events')
      /\ \A p \in scratch'.known : p \in scratch.known \/ Between(tx', p[1], p[2]) # {}
  <2>1. CASE ApplyMergeBatch
    BY <2>1, AnsweredBatch DEF ApplyMergeBatch
  <2>2. CASE ApplyMergeSimple \/ ApplyMergeEdge \/ ApplyMergeNothing
    <3>1. events' = Tail(events)
      BY <2>2 DEF ApplyMergeSimple, ApplyMergeEdge, ApplyMergeNothing, Applied
    <3>2. Members(events) = {Head(events)} \cup Members(events')
      BY <1>1, <3>1, HeadIs
    <3> QED BY <2>2, <3>2, AnsweredOne
  <2> QED BY <1>2, <2>1, <2>2
<1>6. \A p \in scratch'.known : Between(tx', p[1], p[2]) # {}
  <2>1. \A p \in scratch.known : Between(tx', p[1], p[2]) # {}
    BY <1>1, <1>3, ReachedKept DEF HopThere
  <2> QED BY <1>5, <2>1
<1>7. ASSUME NEW row \in rows
      PROVE  Answered(tx', EndsAt(row.at)) \/ \E e \in Members(events') : Ends(e) = EndsAt(row.at)
  <2>1. Answered(tx, EndsAt(row.at)) \/ Asked(EndsAt(row.at))
    BY <1>1 DEF HopThere
  <2> QED BY <1>4, <1>5, <2>1 DEF Asked
<1> QED BY <1>1, <1>6, <1>7 DEF HopThere, Asked, Answered, Reached, EndsAt

LEMMA NodeThereRows ==
    \A row \in input : TypeInv /\ NodeThere /\ mode = "rows" /\ MaterializeMerge(row) => NodeThere'
<1> SUFFICES ASSUME NEW row \in input, TypeInv, NodeThere, mode = "rows", MaterializeMerge(row),
                    MergesNode(clause)'
             PROVE  NodeThere'
  BY DEF NodeThere
<1> DEFINE part == clause.parts[1]
           r == [row |-> row, params |-> params]
<1>1. UNCHANGED <<clause, tx, scratch, mode>> /\ MergesNode(clause)
  BY DEF MaterializeMerge, RowDone, MergesNode
<1>2. PICK m \in MergeNode(tx, r, part.left) :
         RowDone(row, {m.row}, m.params, <<Event(clause, part, m.row)>>)
  BY <1>1 DEF MaterializeMerge, MergesNode
<1> DEFINE es == <<Event(clause, part, m.row)>>
<1>3. IsSeq(es) /\ Members(es) # {} /\ events' = events \o es
  BY <1>2, OneEvent DEF RowDone
<1> HIDE DEF es
<1>4. Members(events') # {}
  <2>1. Members(events') = Members(events) \cup Members(es)
    BY <1>3, ConcatIs DEF TypeInv, EventsOK
  <2> QED BY <1>3, <2>1
<1>5. events' # <<>>
  BY <1>4, IsEmpty
<1>6. mode # "idle"
  OBVIOUS
<1> QED BY <1>1, <1>5, <1>6 DEF NodeThere, MergeLabel, Labelled

\* The first event of a MERGE of a node leaves a vertex with the label.
LEMMA NodeThereApplied == TypeInv /\ NodeThere /\ ApplyMergeVertex => NodeThere'
<1> SUFFICES ASSUME TypeInv, NodeThere, ApplyMergeVertex PROVE NodeThere'
  OBVIOUS
<1> DEFINE e == Head(events)
           lab == MergeLabel
<1>1. PICK m \in MergedVertex(tx, scratch, e) : Applied(m.s) /\ scratch' = m.scratch
  BY DEF ApplyMergeVertex
<1>2. /\ mode = "apply" /\ events # <<>> /\ clause.op = "MERGE" /\ MergesNode(clause)
      /\ tx' = m.s /\ UNCHANGED clause
  BY <1>1 DEF ApplyMergeVertex, Applied, MergesNode
<1>3. e.part.left.label = lab /\ TxOK(tx) /\ IsScratch(scratch)
  BY <1>2, HeadIs DEF TypeInv, EventsOK, MergeLabel
<1>4. VertexMerged(tx, scratch, e, m)
  <2> HIDE DEF e
  <2> QED BY <1>1, <1>3, MergedVertexIs
<1>5. Labelled(tx', lab) # {}
  <2>1. CASE tx' = tx /\ Labelled(tx, lab) # {}
    BY <2>1
  <2>2. CASE \E v : IsVertexId(v) /\ v \notin DOMAIN tx.labels /\ tx' = PutVertex(tx, v, lab)
    <3>1. PICK v : IsVertexId(v) /\ v \notin DOMAIN tx.labels /\ tx' = PutVertex(tx, v, lab)
      BY <2>2
    <3>2. v \in Labelled(tx', lab)
      <4> HIDE DEF lab
      <4> QED BY <1>3, <3>1, WrittenHasLabel
    <3> QED BY <3>2
  <2>3. lab \in DOMAIN scratch.cache => Labelled(tx, lab) # {}
    BY <1>2 DEF NodeThere
  <2>4. TakenId(e) # None => IsVertexId(TakenId(e))
    BY DEF TakenId, IsPredicted, IsVertexId
  <2>5. \A k : IsVertexId(AutoVertex(k))
    BY DEF IsVertexId, AutoVertex
  <2> HIDE DEF e, lab
  <2> QED BY <1>2, <1>3, <1>4, <2>1, <2>2, <2>3, <2>4, <2>5 DEF VertexMerged
<1>6. Labelled(tx, MergeLabel)' = Labelled(tx', lab)
  BY <1>2 DEF MergeLabel
<1> QED BY <1>5, <1>6 DEF NodeThere

ThereInv == HopThere /\ NodeThere

LEMMA ThereStep == TypeInv /\ CountInv /\ ThereInv /\ [Next]_vars => ThereInv'
<1> SUFFICES ASSUME TypeInv, CountInv, HopThere, NodeThere, [Next]_vars PROVE ThereInv'
  BY DEF ThereInv
<1>1. CASE UNCHANGED <<tx, clause, rows, events, scratch>> /\ (mode' # "idle" => mode # "idle")
           /\ (input # {} => input' # {})
  BY <1>1 DEF ThereInv, HopThere, NodeThere, Answered, Reached, EndsAt, Asked, Members, MergeLabel, Labelled
<1>2. CASE Begin \/ ExecuteMatch \/ Fail
  <2>1. mode' = "idle" \/ clause'.op = "MATCH"
    BY <1>2 DEF Begin, ExecuteMatch, ClauseBegins, Match, Fail
  <2> QED BY <2>1 DEF ThereInv, HopThere, NodeThere, MergesHop, MergesNode
<1>3. CASE ExecuteWrite
  <2>1. rows' = {} /\ scratch' = NewScratch /\ input' = Given
    BY <1>3 DEF ExecuteWrite
  <2>2. Given # {}
    BY DEF Given
  <2> QED BY <2>1, <2>2, NewIs DEF ThereInv, HopThere, NodeThere
<1>4. CASE MaterializeRow
  <2>1. PICK row \in input : MaterializeCreate(row) \/ MaterializeMerge(row) \/ MaterializeDelete(row)
    BY <1>4 DEF MaterializeRow
  <2>2. CASE MaterializeMerge(row)
    BY <1>4, <2>2, HopThereRows, NodeThereRows DEF MaterializeRow, ThereInv
  <2>3. CASE MaterializeCreate(row) \/ MaterializeDelete(row)
    <3>1. clause' = clause /\ clause.op # "MERGE"
      BY <2>3 DEF MaterializeCreate, MaterializeDelete, RowDone, Deletes
    <3> QED BY <3>1 DEF ThereInv, HopThere, NodeThere, MergesHop, MergesNode
  <2> QED BY <2>1, <2>2, <2>3
<1>5. CASE RowsDone \/ EndClause \/ Commit
  BY <1>1, <1>5 DEF RowsDone, EndClause, Commit
<1>6. CASE ApplyCreate \/ ApplyDelete
  <2>1. clause' = clause /\ clause.op # "MERGE"
    BY <1>6 DEF ApplyCreate, ApplyDelete, Applied, Deletes
  <2> QED BY <2>1 DEF ThereInv, HopThere, NodeThere, MergesHop, MergesNode
<1>7. CASE ApplyMergeVertex
  <2>1. clause' = clause /\ ~MergesHop(clause)
    BY <1>7 DEF ApplyMergeVertex, Applied, MergesHop
  <2> QED BY <1>7, <2>1, NodeThereApplied DEF ThereInv, HopThere, MergesHop
<1>8. CASE ApplyMergeBatch \/ ApplyMergeSimple \/ ApplyMergeEdge \/ ApplyMergeNothing
  <2>1. clause' = clause /\ MergesHop(clause) /\ ~MergesNode(clause) /\ ApplyAdds
    BY <1>8 DEF ApplyMergeBatch, ApplyMergeSimple, ApplyMergeEdge, ApplyMergeNothing, Applied, ApplyAdds,
               MergesHop, MergesNode
  <2> QED BY <2>1, HopThereApplied DEF ThereInv, NodeThere, MergesNode
<1>9. CASE UNCHANGED vars
  BY <1>1, <1>9 DEF vars
<1> QED BY <1>2, <1>3, <1>4, <1>5, <1>6, <1>7, <1>8, <1>9 DEF Next

\* When a MERGE has run, what it was asked for is there for every row: an edge
\* between ends that are bound, a vertex with the label.  The answer of a pair
\* count (HasDirectedEdgeBetween), of the clause's own memory
\* (tryApplySimpleDirectedMergeEdgeFastPath) and of a batch that looks at nothing
\* is right because the counts are (CountsRight), so the same is asked of the
\* clauses.
THEOREM MergesAreThere ==
    ASSUME Obeyed(CountsKept), DetachesApart
    PROVE  Spec => []MergedIsThere
<1>1. Init => ThereInv
  BY DEF Init, ThereInv, HopThere, NodeThere
<1>2. TypeInv /\ CountedInv /\ ThereInv /\ [Next]_vars => ThereInv'
  BY ThereStep DEF CountedInv
<1>3. TypeInv /\ ThereInv => MergedIsThere
  <2> SUFFICES ASSUME TypeInv, ThereInv, mode = "clause", clause.op = "MERGE" PROVE MergedIsThere
    BY DEF MergedIsThere, Done
  <2>1. events = <<>> /\ input = {} /\ Members(events) = {}
    BY IsEmpty DEF TypeInv, RequestOK
  <2>2. CASE IsHop(clause.parts[1])
    <3>1. \A row \in rows : Answered(tx, EndsAt(row.at))
      BY <2>1, <2>2 DEF ThereInv, HopThere, MergesHop, Asked
    <3> QED BY <2>2, <3>1 DEF MergedIsThere, Answered, Reached, EndsAt
  <2>3. CASE ~IsHop(clause.parts[1])
    <3>1. Labelled(tx, MergeLabel) # {}
      BY <2>1, <2>3 DEF ThereInv, NodeThere, MergesNode
    <3> QED BY <2>3, <3>1 DEF MergedIsThere, MergeLabel
  <2> QED BY <2>2, <2>3
<1> QED BY <1>1, <1>2, <1>3, CountedAlways, PTL DEF Spec
=============================================================================
