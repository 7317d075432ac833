--------------------------- MODULE WriteRowProofs ---------------------------
(***************************************************************************)
(* Proofs about WriteStatement: what a clause that writes leaves for its   *)
(* rows.  A CREATE makes one edge for each row and each hop of its         *)
(* pattern, and the ids its rows go on with are those of vertices and      *)
(* edges that are there.                                                   *)
(***************************************************************************)
EXTENDS WriteCountProofs

---------------------------------------------------------------------------
(* Rows, vertices and edges are finitely many.                             *)

FiniteInv ==
    /\ IsFiniteSet(DOMAIN store.labels) /\ IsFiniteSet(DOMAIN tx.labels)
    /\ IsFiniteSet(rows) /\ IsFiniteSet(input)

\* The values of a function are no more than its arguments.
LEMMA ValuesFinite ==
    ASSUME NEW S, IsFiniteSet(S), NEW f, DOMAIN f = S
    PROVE  IsFiniteSet({f[x] : x \in S})
<1> DEFINE T == {f[x] : x \in S}
           g == [x \in S |-> f[x]]
<1>1. g \in Surjection(S, T)
  BY DEF Surjection
<1> HIDE DEF g, T
<1>2. IsFiniteSet(T)
  BY <1>1, FS_Surjection
<1> QED BY <1>2 DEF T

LEMMA TwoFinite == ASSUME NEW x, NEW y PROVE IsFiniteSet({x, y})
<1>1. {x, y} = {x} \cup {y}
  OBVIOUS
<1>2. IsFiniteSet({x} \cup {y})
  BY FS_AddElement, FS_Singleton
<1> QED BY <1>1, <1>2

\* A row matches finitely often.
LEMMA MatchesFinite ==
    ASSUME NEW s, IsFiniteSet(DOMAIN s.labels), IsFiniteSet(DOMAIN s.edges), NEW row, NEW part
    PROVE  IsFiniteSet(Matches(s, row, part))
<1> DEFINE Fits(x, v) == x \in DOMAIN row.at => row.at[x] = v
           Way(e) == CASE part.dir = "out" -> {s.edges[e]}
                       [] OTHER -> {s.edges[e], <<s.edges[e][2], s.edges[e][1]>>}
           ByNode(v) == [row EXCEPT !.at = Put(row.at, part.left.var, v)]
           ByEdge(e, w) == [row EXCEPT !.at = Put(Put(Put(row.at, part.left.var, w[1]),
                                                      part.right.var, w[2]), part.hop, e)]
           Ws(e) == {u \in Way(e) : Fits(part.left.var, u[1]) /\ Fits(part.right.var, u[2])}
           Es == {d \in DOMAIN s.edges : Fits(part.hop, d)}
           Vs == {w \in Labelled(s, part.left.label) : Fits(part.left.var, w)}
           A == {ByNode(v) : v \in Vs}
           B == UNION {{ByEdge(e, w) : w \in Ws(e)} : e \in Es}
<1>1. Matches(s, row, part) = IF ~IsHop(part) THEN A ELSE B
  BY DEF Matches
<1>2. IsFiniteSet({ByNode(v) : v \in Vs})
  <2>1. Vs \subseteq DOMAIN s.labels
    BY DEF Labelled
  <2>2. IsFiniteSet(Vs)
    BY <2>1, FS_Subset
  <2> HIDE DEF Vs, ByNode
  <2> DEFINE f == [v \in Vs |-> ByNode(v)]
  <2>3. IsFiniteSet({f[v] : v \in Vs})
    BY <2>2, ValuesFinite
  <2> QED BY <2>3
<1>3. IsFiniteSet(UNION {{ByEdge(e, w) : w \in Ws(e)} : e \in Es})
  <2>1. IsFiniteSet(Es)
    <3>1. Es \subseteq DOMAIN s.edges
      OBVIOUS
    <3> QED BY <3>1, FS_Subset
  <2>2. ASSUME NEW e \in Es PROVE IsFiniteSet({ByEdge(e, w) : w \in Ws(e)})
    <3>1. IsFiniteSet({s.edges[e], <<s.edges[e][2], s.edges[e][1]>>})
      BY TwoFinite
    <3>2. Ws(e) \subseteq {s.edges[e], <<s.edges[e][2], s.edges[e][1]>>}
      OBVIOUS
    <3>3. IsFiniteSet(Ws(e))
      BY <3>1, <3>2, FS_Subset
    <3> DEFINE W == Ws(e)
    <3> HIDE DEF Ws, ByEdge
    <3> DEFINE f == [w \in W |-> ByEdge(e, w)]
    <3>4. IsFiniteSet({f[w] : w \in W})
      <4> HIDE DEF W
      <4> QED BY <3>3, ValuesFinite DEF W
    <3>5. {f[w] : w \in W} = {ByEdge(e, w) : w \in Ws(e)}
      OBVIOUS
    <3> QED BY <3>4, <3>5
  <2> DEFINE M == {{ByEdge(e, w) : w \in Ws(e)} : e \in Es}
  <2>3. IsFiniteSet(M)
    <3> HIDE DEF Es
    <3> DEFINE f == [e \in Es |-> {ByEdge(e, w) : w \in Ws(e)}]
    <3>1. M = {f[e] : e \in Es}
      OBVIOUS
    <3>2. DOMAIN f = Es
      OBVIOUS
    <3> HIDE DEF M, f
    <3> QED BY <2>1, <3>1, <3>2, ValuesFinite
  <2>4. \A T \in M : IsFiniteSet(T)
    BY <2>2
  <2> HIDE DEF M
  <2>5. IsFiniteSet(UNION M)
    BY <2>3, <2>4, FS_UNION
  <2> QED BY <2>5 DEF M
<1> HIDE DEF A, B
<1> QED BY <1>1, <1>2, <1>3 DEF A, B

\* A vertex more is still finitely many.
LEMMA PutVertexFinite ==
    ASSUME NEW s, IsFiniteSet(DOMAIN s.labels), IsView(s), NEW v, NEW lab
    PROVE  IsFiniteSet(DOMAIN PutVertex(s, v, lab).labels)
<1>1. DOMAIN PutVertex(s, v, lab).labels = DOMAIN s.labels \cup {v}
  BY DEF PutVertex, Put, IsView
<1> QED BY <1>1, FS_AddElement

LEMMA EnsureVertexFinite ==
    ASSUME NEW s, TxOK(s), IsFiniteSet(DOMAIN s.labels), NEW n, NEW node, NEW at,
           NEW r \in EnsureVertex(s, n, node, at)
    PROVE  IsFiniteSet(DOMAIN r.s.labels)
<1>1. CASE node.var \in DOMAIN at
  <2>1. r = [s |-> IF at[node.var] \in DOMAIN s.labels THEN s
                   ELSE PutVertex(s, at[node.var], node.label),
             n |-> n, id |-> at[node.var]]
    BY <1>1 DEF EnsureVertex
  <2>2. r.s = s \/ r.s = PutVertex(s, at[node.var], node.label)
    BY <2>1
  <2> QED BY <2>2, PutVertexFinite DEF TxOK
<1>2. CASE node.var \notin DOMAIN at
  <2> DEFINE S == Least({k \in Num : k > n /\ AutoVertex(k) \notin DOMAIN s.labels})
  <2>1. EnsureVertex(s, n, node, at)
           = {[s |-> PutVertex(s, AutoVertex(m), node.label), n |-> m, id |-> AutoVertex(m)] : m \in S}
    BY <1>2 DEF EnsureVertex
  <2> HIDE DEF S
  <2>2. \E m : r.s = PutVertex(s, AutoVertex(m), node.label)
    BY <2>1
  <2> QED BY <2>2, PutVertexFinite DEF TxOK
<1> QED BY <1>1, <1>2

LEMMA CreatedFinite ==
    ASSUME NEW s, TxOK(s), IsFiniteSet(DOMAIN s.labels), NEW n, NEW e, NamesOK(e.at),
           e.part \in AllParts, NEW c \in Created(s, n, e)
    PROVE  IsFiniteSet(DOMAIN c.s.labels)
<1>1. PICK l \in EnsureVertex(s, n, e.part.left, e.at) :
         IF ~IsHop(e.part) THEN c = [s |-> l.s, n |-> l.n]
         ELSE \E r \in EnsureVertex(l.s, l.n, e.part.right, Named(e.at, e.part.left.var, l.id)) :
                 c \in EdgeCreated(l, r)
  BY DEF Created
<1>2. IsFiniteSet(DOMAIN l.s.labels)
  BY EnsureVertexFinite
<1>3. TxOK(l.s) /\ IsVertexId(l.id)
  <2>1. e.part.left.var \notin HopNames
    BY PartNames DEF NodesOf
  <2> QED BY <2>1, EnsureVertexOK DEF VerticesPut
<1>4. CASE ~IsHop(e.part)
  BY <1>1, <1>2, <1>4
<1>5. CASE IsHop(e.part)
  <2>1. PICK r \in EnsureVertex(l.s, l.n, e.part.right, Named(e.at, e.part.left.var, l.id)) :
           c \in EdgeCreated(l, r)
    BY <1>1, <1>5
  <2>2. IsFiniteSet(DOMAIN r.s.labels)
    BY <1>2, <1>3, <2>1, EnsureVertexFinite
  <2>3. TxOK(r.s)
    <3>1. NamesOK(Named(e.at, e.part.left.var, l.id)) /\ e.part.right.var \notin HopNames
      <4>1. e.part.left.var \notin HopNames /\ e.part.right.var \notin HopNames
        BY <1>5, PartNames DEF NodesOf
      <4> QED BY <1>3, <4>1 DEF Named, NamesOK, Put
    <3> QED BY <1>3, <2>1, <3>1, EnsureVertexOK DEF VerticesPut
  <2>4. PICK k : c.s = PutEdgeNew(r.s, EdgeId(l.id, r.id, k), l.id, r.id)
    BY <2>1 DEF EdgeCreated
  <2>5. c.s.labels = r.s.labels
    BY <2>3, <2>4, PairAdjustedSame DEF PutEdgeNew, TxOK, IsView
  <2> QED BY <2>2, <2>5
<1> QED BY <1>4, <1>5

LEMMA AddsFinite ==
    ASSUME TypeInv, IsFiniteSet(DOMAIN tx.labels), ApplyAdds
    PROVE  IsFiniteSet(DOMAIN tx'.labels)
<1>1. mode = "apply" /\ events # <<>> /\ TxOK(tx)
  BY AddsAt DEF TypeInv
<1> DEFINE e == Head(events)
<1>2. EventOK(e, clause, params) /\ clause \in AllClauses /\ (~Deletes(clause) => e.part \in AllParts)
  BY <1>1, HeadIs
<1>3. NamesOK(e.at)
  BY <1>2 DEF EventOK
<1> HIDE DEF e
<1>4. CASE ApplyCreate
  <2>1. PICK c \in Created(tx, scratch.autoV, e) : tx' = c.s
    BY <1>4 DEF ApplyCreate, Applied, e
  <2>2. ~Deletes(clause)
    BY <1>4 DEF ApplyCreate, Deletes
  <2> QED BY <1>1, <1>2, <1>3, <2>1, <2>2, CreatedFinite
<1>5. CASE ApplyMergeVertex
  <2>1. PICK m \in MergedVertex(tx, scratch, e) : tx' = m.s
    BY <1>5 DEF ApplyMergeVertex, Applied, e
  <2>2. VertexMerged(tx, scratch, e, m)
    BY <2>1, MergedVertexIs DEF TypeInv, EventsOK
  <2>3. m.s = tx \/ \E v : m.s = PutVertex(tx, v, e.part.left.label)
    BY <2>2 DEF VertexMerged
  <2> QED BY <1>1, <2>1, <2>3, PutVertexFinite DEF TxOK
<1>6. CASE ApplyMergeBatch
  <2>1. \E P : tx' = PutEdgeNewBatch(tx, P)
    BY <1>6 DEF ApplyMergeBatch
  <2>2. tx'.labels = tx.labels
    BY <1>1, <2>1 DEF PutEdgeNewBatch, TxOK, IsView
  <2> QED BY <2>2
<1>7. CASE ApplyMergeSimple \/ ApplyMergeEdge \/ ApplyMergeNothing
  <2>1. tx' = tx \/ HopPut
    BY <1>7, TypeApplyMergeHop
  <2>2. ASSUME HopPut PROVE tx'.labels = tx.labels
    <3>1. PICK a, b, k : tx' = PutEdgeNew(tx, EdgeId(a, b, k), a, b)
      BY <2>2 DEF HopPut, EdgePut
    <3> QED BY <1>1, <3>1, PairAdjustedSame DEF PutEdgeNew, TxOK, IsView
  <2> QED BY <2>1, <2>2
<1> QED BY <1>4, <1>5, <1>6, <1>7 DEF ApplyAdds

LEMMA DeleteFinite ==
    ASSUME TypeInv, IsFiniteSet(DOMAIN tx.labels), ApplyDelete
    PROVE  IsFiniteSet(DOMAIN tx'.labels)
<1>1. TxOK(WithoutEdges) /\ WithoutEdges.labels = tx.labels
  BY WithoutEdgesIs
<1>2. tx' = VerticesDeleted(WithoutEdges, DeletedVertices) \/ tx' = Detached(WithoutEdges, DeletedVertices)
  BY DEF ApplyDelete
<1>3. DOMAIN tx'.labels \subseteq DOMAIN tx.labels
  <2>1. CASE tx' = VerticesDeleted(WithoutEdges, DeletedVertices)
    BY <1>1, <2>1, VerticesDeletedOK
  <2>2. CASE tx' = Detached(WithoutEdges, DeletedVertices)
    <3> DEFINE t == Detached(WithoutEdges, DeletedVertices)
    <3>1. t = Emptied(WithoutEdges) \/ DOMAIN t.labels = DOMAIN WithoutEdges.labels \ DeletedVertices
      <4>1. DetachedTo(WithoutEdges, DeletedVertices, t)
        BY <1>1, DetachedOK
      <4> HIDE DEF t
      <4> QED BY <4>1 DEF DetachedTo
    <3>2. DOMAIN Emptied(WithoutEdges).labels = {}
      BY <1>1, EmptiedOK
    <3> QED BY <1>1, <2>2, <3>1, <3>2
  <2> QED BY <1>2, <2>1, <2>2
<1> QED BY <1>3, FS_Subset

LEMMA FiniteInit == Init => FiniteInv
<1> SUFFICES ASSUME Init PROVE FiniteInv
  OBVIOUS
<1>1. PICK g \in Graphs : store.labels = g.labels
  BY DEF Init
<1>2. IsFiniteSet(DOMAIN store.labels)
  BY <1>1, GraphAssumption
<1>3. tx.labels = store.labels /\ rows = {} /\ input = {}
  BY DEF Init, View
<1> QED BY <1>2, <1>3, FS_EmptySet DEF FiniteInv

\* A row goes on as finitely many.
LEMMA FiniteRow ==
    ASSUME TypeInv, FiniteInv, MaterializeRow PROVE FiniteInv'
<1>1. PICK row, R, p, es : RowDone(row, R, p, es) /\ IsFiniteSet(R)
  <2>0. PICK row \in input :
           MaterializeCreate(row) \/ MaterializeMerge(row) \/ MaterializeDelete(row)
    BY DEF MaterializeRow
  <2> DEFINE r == [row |-> row, params |-> params]
             part == clause.parts[1]
  <2>1. mode = "rows" /\ BothOK(r) /\ clause \in AllClauses
    BY <2>0, NextRow DEF MaterializeRow
  <2>2. \A x : IsFiniteSet({x})
    BY FS_Singleton
  <2>3. CASE MaterializeCreate(row)
    <3>1. \E x, p, es : RowDone(row, {x}, p, es)
      BY <2>3 DEF MaterializeCreate
    <3> QED BY <2>2, <3>1
  <2>4. CASE MaterializeDelete(row)
    <3>1. \E x, p, es : RowDone(row, {x}, p, es)
      BY <2>4 DEF MaterializeDelete
    <3> QED BY <2>2, <3>1
  <2>5. CASE MaterializeMerge(row) /\ ~IsHop(part)
    <3>1. \E x, p, es : RowDone(row, {x}, p, es)
      BY <2>5 DEF MaterializeMerge
    <3> QED BY <2>2, <3>1
  <2>6. CASE MaterializeMerge(row) /\ IsHop(part)
    <3>1. \E p, es : RowDone(row, MergeEdge(tx, r, part), p, es)
      BY <2>6 DEF MaterializeMerge
    <3>2. IsFiniteSet(MergeEdge(tx, r, part))
      <4>1. clause.op = "MERGE" /\ part \in AllParts
        BY <2>1, <2>6, ClauseIs DEF MaterializeMerge
      <4> HIDE DEF r, part
      <4> QED BY <2>1, <2>6, <4>1, MergeEdgeIs DEF TypeInv, TxOK
    <3> QED BY <3>1, <3>2
  <2> QED BY <2>0, <2>3, <2>4, <2>5, <2>6
<1>2. input' = input \ {row} /\ rows' = rows \cup R /\ tx' = tx /\ store' = store
  BY <1>1 DEF RowDone
<1>3. IsFiniteSet(input') /\ IsFiniteSet(rows')
  BY <1>1, <1>2, FS_Subset, FS_Union DEF FiniteInv
<1> QED BY <1>2, <1>3 DEF FiniteInv

LEMMA FiniteGiven == FiniteInv => IsFiniteSet(Given)
  BY FS_Singleton DEF FiniteInv, Given

LEMMA FiniteMatch ==
    ASSUME TypeInv, FiniteInv, ExecuteMatch PROVE FiniteInv'
<1> DEFINE part == Head(clauses).parts[1]
           M == {Matches(tx, row, part) : row \in Given}
<1>1. rows' = UNION M /\ UNCHANGED <<store, tx, input>>
  BY DEF ExecuteMatch
<1>2. IsFiniteSet(M)
  <2> DEFINE f == [row \in Given |-> Matches(tx, row, part)]
  <2>1. M = {f[row] : row \in Given} /\ DOMAIN f = Given
    OBVIOUS
  <2> HIDE DEF f, M
  <2> QED BY <2>1, FiniteGiven, ValuesFinite
<1>3. \A T \in M : IsFiniteSet(T)
  BY MatchesFinite DEF FiniteInv, TypeInv, TxOK, GraphOK
<1> HIDE DEF M
<1>4. IsFiniteSet(rows')
  BY <1>1, <1>2, <1>3, FS_UNION
<1> QED BY <1>1, <1>4 DEF FiniteInv

LEMMA FiniteStep == TypeInv /\ FiniteInv /\ [Next]_vars => FiniteInv'
<1> SUFFICES ASSUME TypeInv, FiniteInv, [Next]_vars PROVE FiniteInv'
  OBVIOUS
<1>1. CASE UNCHANGED vars
  BY <1>1 DEF vars, FiniteInv
<1>2. CASE Begin
  BY <1>2, FS_EmptySet DEF Begin, FiniteInv, View
<1>3. CASE ExecuteMatch
  BY <1>3, FiniteMatch
<1>4. CASE ExecuteWrite
  BY <1>4, FiniteGiven, FS_EmptySet DEF ExecuteWrite, FiniteInv
<1>5. CASE MaterializeRow
  BY <1>5, FiniteRow
<1>6. CASE RowsDone \/ EndClause
  BY <1>6 DEF RowsDone, EndClause, FiniteInv
<1>7. CASE Commit
  BY <1>7 DEF Commit, Flushed, FiniteInv
<1>8. CASE Fail
  BY <1>8, FS_EmptySet DEF Fail, View, FiniteInv
<1>9. CASE ApplyDelete
  BY <1>9, DeleteFinite DEF ApplyDelete, FiniteInv
<1>10. CASE ApplyAdds
  <2>1. UNCHANGED <<store, rows, input>>
    BY <1>10 DEF ApplyAdds, ApplyCreate, ApplyMergeVertex, ApplyMergeBatch, ApplyMergeSimple,
                 ApplyMergeEdge, ApplyMergeNothing, Applied
  <2> QED BY <1>10, <2>1, AddsFinite DEF FiniteInv
<1> QED BY <1>1, <1>2, <1>3, <1>4, <1>5, <1>6, <1>7, <1>8, <1>9, <1>10, NextSplit
        DEF Elsewhere

---------------------------------------------------------------------------
(* The names a CREATE or a MERGE is to give are free in its rows.          *)

IsFun(f) == f = [x \in DOMAIN f |-> f[x]]

\* the names of the relationships of a clause
HopsOf(c) == IF Deletes(c) THEN {}
             ELSE {c.parts[k].hop : k \in {j \in DOMAIN c.parts : IsHop(c.parts[j])}} \ {Anon}
FreeFor(row, c) == DOMAIN row.at \cap GivenBy(c) = {}

NamesInv ==
    /\ \A row \in rows \cup input :
          IsFun(row.at) /\ \A d \in Members(clauses) : FreeFor(row, d)
    /\ mode = "rows" => \A row \in input : FreeFor(row, clause)

\* t is made of the row by c
Follows(row, t, c) ==
    IsFun(t.at) /\ DOMAIN t.at \subseteq DOMAIN row.at \cup NamesIn(c)

LEMMA PutIsFun == ASSUME NEW f, NEW x, NEW v PROVE IsFun(Put(f, x, v))
BY DEF IsFun, Put

LEMMA HopsOfNames ==
    ASSUME NEW c \in AllClauses
    PROVE  /\ HopsOf(c) \subseteq HopNames
           /\ ~Deletes(c) => \A part \in Members(c.parts) :
                 PartBinds(part) \cap HopNames \subseteq HopsOf(c)
           /\ c.op = "CREATE" => HopsOf(c) \subseteq GivenBy(c)
<1>1. CASE Deletes(c)
  BY <1>1 DEF HopsOf
<1>2. CASE ~Deletes(c)
  <2>1. Members(c.parts) \subseteq AllParts
    BY <1>2, ClauseIs
  <2>2. HopsOf(c) = {part.hop : part \in {p \in Members(c.parts) : IsHop(p)}} \ {Anon}
    BY <1>2 DEF HopsOf, Members
  <2>3. HopsOf(c) \subseteq HopNames
    BY <2>1, <2>2 DEF HopNames
  <2>4. ASSUME NEW part \in Members(c.parts) PROVE PartBinds(part) \cap HopNames \subseteq HopsOf(c)
    <3>1. \A node \in NodesOf(part) : node.var \notin HopNames
      BY <2>1, PartNames
    <3> QED BY <2>2, <3>1 DEF PartBinds
  <2>5. c.op = "CREATE" => HopsOf(c) \subseteq GivenBy(c)
    <3> SUFFICES ASSUME c.op = "CREATE", NEW x \in HopsOf(c) PROVE x \in GivenBy(c)
      OBVIOUS
    <3>1. PICK k \in DOMAIN c.parts : IsHop(c.parts[k]) /\ x = c.parts[k].hop /\ x # Anon
      BY <1>2 DEF HopsOf
    <3>2. x \in Gives(c.parts[k])
      BY <3>1 DEF Gives
    <3> QED BY <3>2 DEF GivenBy
  <2> QED BY <2>3, <2>4, <2>5
<1> QED BY <1>1, <1>2

LEMMA OneBinds ==
    ASSUME NEW c, ~Deletes(c), NEW part \in Members(c.parts)
    PROVE  PartBinds(part) \subseteq NamesIn(c)
BY DEF Members, NamesIn, PartsBind

LEMMA FollowsFree ==
    ASSUME NEW row, NEW t, NEW c \in AllClauses, NEW d \in AllClauses, Follows(row, t, c),
           <<c, d>> \in NamesNew, FreeFor(row, d)
    PROVE  FreeFor(t, d)
BY DEF NamesNew, Follows, FreeFor

LEMMA NamesRowDone ==
    ASSUME TypeInv, NamesInv, OrderInv(NamesNew), mode = "rows", NEW row \in input,
           NEW R, NEW p, NEW es, RowDone(row, R, p, es), \A t \in R : Follows(row, t, clause)
    PROVE  NamesInv'
<1>1. /\ input' \subseteq input /\ rows' = rows \cup R
      /\ UNCHANGED <<clause, clauses, mode>>
  BY DEF RowDone
<1>2. clause \in AllClauses /\ clause.op # "MATCH" /\ Members(clauses) \subseteq AllClauses
  BY DEF TypeInv, RequestOK
<1>3. \A d \in Members(clauses) : <<clause, d>> \in NamesNew
  BY <1>2 DEF OrderInv
<1>4. ASSUME NEW t \in R, NEW d \in Members(clauses) PROVE FreeFor(t, d)
  BY <1>2, <1>3, <1>4, FollowsFree DEF NamesInv
<1>5. \A t \in R : IsFun(t.at)
  BY DEF Follows
<1>6. Members(clauses') = Members(clauses)
  BY <1>1
<1> QED BY <1>1, <1>4, <1>5, <1>6 DEF NamesInv, FreeFor

\* A part of a CREATE keeps a row's names a function.
LEMMA CreatePartFun ==
    ASSUME NEW r, BothOK(r), NEW part \in AllParts, IsFun(r.row.at)
    PROVE  IsFun(CreatePart(r, part).row.at)
<1>1. ASSUME NEW q, BothOK(q), IsFun(q.row.at), NEW node PROVE IsFun(CreateNode(q, node).row.at)
  <2>1. CASE node.var = Anon \/ node.var \in DOMAIN q.row.at
    BY <1>1, <2>1 DEF CreateNode
  <2>2. CASE ~(node.var = Anon \/ node.var \in DOMAIN q.row.at)
    <3>1. CreateNode(q, node).row.at
             = Put(q.row.at, node.var, WriteVertex(q.params.nth, q.params.nextV + 1))
      BY <1>1, <2>2 DEF CreateNode, BothOK, RowOK, IsRow
    <3> QED BY <3>1, PutIsFun
  <2> QED BY <2>1, <2>2
<1>2. ASSUME NEW q, BothOK(q), IsFun(q.row.at), NEW at PROVE IsFun(CreateEdge(q, at, part).row.at)
  <2> DEFINE t == CreateEdge(q, at, part)
  <2>1. t = q \/ \E v : t.row.at = Put(q.row.at, part.hop, v)
    <3>1. q = [row |-> q.row, params |-> q.params] /\ IsRow(q.row)
      BY <1>2 DEF BothOK, RowOK
    <3>2. CASE ~IsHop(part) \/ part.hop = Anon
      BY <3>2 DEF CreateEdge
    <3>3. CASE ~(~IsHop(part) \/ part.hop = Anon)
      BY <3>1, <3>3 DEF CreateEdge, IsRow
    <3> QED BY <3>2, <3>3
  <2> QED BY <1>2, <2>1, PutIsFun
<1> DEFINE left == CreateNode(r, part.left)
           nodes == IF IsHop(part) THEN CreateNode(left, part.right) ELSE left
<1>3. BothOK(left) /\ BothOK(nodes)
  <2>1. BothOK(left)
    BY PartNames, CreateNodeOK DEF NodesOf
  <2>2. IsHop(part) => BothOK(CreateNode(left, part.right))
    <3> HIDE DEF left
    <3> QED BY <2>1, PartNames, CreateNodeOK DEF NodesOf
  <2> QED BY <2>1, <2>2
<1>4. IsFun(left.row.at)
  BY <1>1
<1>5. IsFun(nodes.row.at)
  <2> HIDE DEF left
  <2> QED BY <1>1, <1>3, <1>4
<1>6. CreatePart(r, part) = CreateEdge(nodes, r.row.at, part)
  BY DEF CreatePart
<1> HIDE DEF left, nodes
<1> QED BY <1>2, <1>3, <1>5, <1>6

\* What a CREATE makes of a row: it keeps what the row has, but for the names of
\* its own hops, and a node keeps the id its part gave it.
LEMMA CreateRowIs ==
    ASSUME TypeInv, mode = "rows", clause.op = "CREATE", NEW row \in input, IsFun(row.at)
    PROVE  LET n == Len(clause.parts)
               after == CreatedAfter([row |-> row, params |-> params], clause.parts)
               t == after[n].row
           IN  /\ n \in Nat /\ DOMAIN clause.parts = 1 .. n
               /\ IsFun(t.at) /\ IsRow(t) /\ t.id = row.id /\ t.gone = row.gone
               /\ DOMAIN t.at = DOMAIN row.at \cup PartsBind(clause)
               /\ \A x \in DOMAIN row.at : x \notin HopsOf(clause) => t.at[x] = row.at[x]
               /\ \A i \in 1 .. n : \A x \in PartBinds(clause.parts[i]) \ HopNames :
                     x \in DOMAIN after[i].row.at /\ t.at[x] = after[i].row.at[x]
<1> DEFINE n == Len(clause.parts)
           r == [row |-> row, params |-> params]
           after == CreatedAfter(r, clause.parts)
<1>1. BothOK(r) /\ clause \in AllClauses /\ r.row = row /\ ~Deletes(clause)
  BY NextRow DEF Deletes
<1>2. IsSeq(clause.parts) /\ Members(clause.parts) \subseteq AllParts
  BY <1>1, ClauseIs
<1>3. n \in Nat /\ DOMAIN clause.parts = 1 .. n /\ n \in 0 .. n
  BY <1>2 DEF IsSeq
<1>4. /\ after[0] = r
      /\ \A i \in 1 .. n : BothOK(after[i - 1]) /\ after[i] = CreatePart(after[i - 1], clause.parts[i])
                           /\ clause.parts[i] \in AllParts
      /\ \A i \in 0 .. n : BothOK(after[i]) /\ Continues(r, after[i]) /\ after[i].row.id = r.row.id
  <2> HIDE DEF r
  <2> QED BY <1>1, <1>2, CreatedAfterOK
<1> HIDE DEF after, r
<1>5. IsFun(after[n].row.at)
  <2> DEFINE S == {i \in 0 .. n : IsFun(after[i].row.at)}
  <2>1. 0 \in S
    BY <1>1, <1>3, <1>4
  <2>2. ASSUME NEW i \in 1 .. n, i - 1 \in S PROVE i \in S
    BY <1>3, <1>4, <2>2, CreatePartFun
  <2> HIDE DEF S
  <2>3. 0 .. n \subseteq S
    BY <1>3, <2>1, <2>2, AfterEachPart
  <2> QED BY <1>3, <2>3 DEF S
<1>6. \A i \in 1 .. n : DOMAIN after[i].row.at = DOMAIN after[i - 1].row.at \cup PartBinds(clause.parts[i])
  BY <1>4, CreatePartOK
<1>7. DOMAIN after[n].row.at = DOMAIN row.at \cup PartsBind(clause)
  <2> DEFINE Bound(i) == UNION {PartBinds(clause.parts[k]) : k \in 1 .. i}
             S == {i \in 0 .. n : DOMAIN after[i].row.at = DOMAIN row.at \cup Bound(i)}
  <2>1. 0 \in S
    <3>1. Bound(0) = {}
      OBVIOUS
    <3> HIDE DEF Bound
    <3> QED BY <1>1, <1>3, <1>4, <3>1
  <2>2. ASSUME NEW i \in 1 .. n, i - 1 \in S PROVE i \in S
    <3>1. Bound(i) = Bound(i - 1) \cup PartBinds(clause.parts[i])
      <4>1. 1 .. i = (1 .. (i - 1)) \cup {i}
        BY <1>3
      <4> QED BY <4>1
    <3>2. i \in 0 .. n
      BY <1>3
    <3> HIDE DEF Bound
    <3> QED BY <1>6, <2>2, <3>1, <3>2
  <2> HIDE DEF S
  <2>3. 0 .. n \subseteq S
    BY <1>3, <2>1, <2>2, AfterEachPart
  <2>4. DOMAIN after[n].row.at = DOMAIN row.at \cup Bound(n)
    BY <1>3, <2>3 DEF S
  <2>5. Bound(n) = PartsBind(clause)
    BY <1>3 DEF PartsBind
  <2> HIDE DEF Bound
  <2> QED BY <2>4, <2>5
<1>8. \A x \in DOMAIN row.at : x \notin HopsOf(clause) => after[n].row.at[x] = row.at[x]
  <2> DEFINE S == {i \in 0 .. n : \A x \in DOMAIN row.at :
                      x \in DOMAIN after[i].row.at
                      /\ (x \notin HopsOf(clause) => after[i].row.at[x] = row.at[x])}
  <2>1. 0 \in S
    BY <1>1, <1>3, <1>4
  <2>2. ASSUME NEW i \in 1 .. n, i - 1 \in S PROVE i \in S
    <3>1. \A x \in DOMAIN after[i - 1].row.at :
             (IsHop(clause.parts[i]) => x # clause.parts[i].hop)
                 => after[i].row.at[x] = after[i - 1].row.at[x]
      BY <1>4, CreatePartOK
    <3>2. IsHop(clause.parts[i]) /\ clause.parts[i].hop # Anon => clause.parts[i].hop \in HopsOf(clause)
      BY <1>1, <1>3 DEF HopsOf
    <3>3. Anon \notin DOMAIN after[i - 1].row.at
      BY <1>4 DEF BothOK, RowOK, NamesOK
    <3>4. i \in 0 .. n
      BY <1>3
    <3> QED BY <1>6, <2>2, <3>1, <3>2, <3>3, <3>4
  <2> HIDE DEF S
  <2>3. 0 .. n \subseteq S
    BY <1>3, <2>1, <2>2, AfterEachPart
  <2> QED BY <1>3, <2>3 DEF S
<1>9. ASSUME NEW i \in 1 .. n, NEW x \in PartBinds(clause.parts[i]) \ HopNames
      PROVE  x \in DOMAIN after[i].row.at /\ after[n].row.at[x] = after[i].row.at[x]
  <2>1. x \in DOMAIN after[i].row.at
    BY <1>6
  <2> DEFINE S == {j \in 0 .. n : i <= j => x \in DOMAIN after[j].row.at
                                            /\ after[j].row.at[x] = after[i].row.at[x]}
  <2>2. 0 \in S
    BY <1>3
  <2>3. ASSUME NEW j \in 1 .. n, j - 1 \in S PROVE j \in S
    <3>1. Continues(after[j - 1], after[j])
      <4>1. /\ BothOK(after[j - 1]) /\ clause.parts[j] \in AllParts
            /\ after[j] = CreatePart(after[j - 1], clause.parts[j])
        BY <1>4
      <4> DEFINE u == CreatePart(after[j - 1], clause.parts[j])
      <4>2. BothOK(u) /\ Continues(after[j - 1], u)
        BY <4>1, CreatePartOK
      <4> QED BY <4>1, <4>2
    <3>2. j \in 0 .. n /\ (j = i \/ (i <= j => i <= j - 1))
      BY <1>3
    <3> QED BY <2>1, <2>3, <3>1, <3>2 DEF Continues
  <2> HIDE DEF S
  <2>4. 0 .. n \subseteq S
    BY <1>3, <2>2, <2>3, AfterEachPart
  <2> QED BY <1>3, <2>1, <2>4 DEF S
<1>10. IsRow(after[n].row) /\ after[n].row.id = row.id /\ after[n].row.gone = row.gone
  BY <1>1, <1>3, <1>4 DEF BothOK, RowOK, Continues
<1> QED BY <1>3, <1>5, <1>7, <1>8, <1>9, <1>10 DEF after, r

LEMMA NamesRow ==
    ASSUME TypeInv, NamesInv, OrderInv(NamesNew), MaterializeRow PROVE NamesInv'
<1>1. mode = "rows"
  BY DEF MaterializeRow
<1>2. PICK row \in input :
         MaterializeCreate(row) \/ MaterializeMerge(row) \/ MaterializeDelete(row)
  BY DEF MaterializeRow
<1> DEFINE r == [row |-> row, params |-> params]
           part == clause.parts[1]
<1>3. BothOK(r) /\ clause \in AllClauses /\ r.row = row /\ IsFun(row.at) /\ IsRow(row)
  BY <1>1, NextRow DEF NamesInv, TypeInv, RowsOK, RowOK
<1>4. CASE MaterializeCreate(row)
  <2> DEFINE n == Len(clause.parts)
             t == CreatedAfter(r, clause.parts)[n].row
  <2>1. clause.op = "CREATE" /\ ~Deletes(clause)
    BY <1>4 DEF MaterializeCreate, Deletes
  <2>2. \E p, es : RowDone(row, {t}, p, es)
    BY <1>4 DEF MaterializeCreate
  <2>3. IsFun(t.at) /\ DOMAIN t.at = DOMAIN row.at \cup PartsBind(clause)
        /\ DOMAIN clause.parts = 1 .. n
    BY <1>1, <1>3, <2>1, CreateRowIs
  <2>5. Follows(row, t, clause)
    <3> HIDE DEF t
    <3> QED BY <2>1, <2>3 DEF Follows, NamesIn
  <2> HIDE DEF t
  <2> QED BY <1>1, <2>2, <2>5, NamesRowDone
<1>5. CASE MaterializeDelete(row)
  <2> DEFINE t == Tombstones(tx, r, clause.vars).row
  <2>1. \E p, es : RowDone(row, {t}, p, es)
    BY <1>5 DEF MaterializeDelete
  <2>2. t.at = row.at
    <3> HIDE DEF r
    <3> DEFINE u == Tombstones(tx, r, clause.vars)
    <3>1. Buried(tx, r, clause.vars, u)
      BY <1>3, TombstonesIs
    <3> QED BY <1>3, <3>1 DEF Buried
  <2> HIDE DEF t
  <2>3. Follows(row, t, clause)
    BY <1>3, <2>2 DEF Follows
  <2> QED BY <1>1, <2>1, <2>3, NamesRowDone
<1>6. CASE MaterializeMerge(row) /\ IsHop(part)
  <2> DEFINE T == MergeEdge(tx, r, part)
             a == At(r.row.at, part.left.var, None)
             b == At(r.row.at, part.right.var, None)
  <2>1. \E p, es : RowDone(row, T, p, es)
    BY <1>6 DEF MaterializeMerge
  <2>2. clause.op = "MERGE" /\ part \in AllParts /\ ~Deletes(clause) /\ part \in Members(clause.parts)
    BY <1>3, <1>6, ClauseIs DEF MaterializeMerge, Deletes
  <2>3. /\ part.hop = Anon \/ None \in {a, b} => T = {r.row}
        /\ ~(part.hop = Anon \/ None \in {a, b}) => \A t \in T :
              /\ t.at = Put(r.row.at, part.hop, EdgeId(a, b, 0))
              /\ part.hop \in HopNames
    <3> HIDE DEF r, part
    <3>1. GraphOK(tx)
      BY DEF TypeInv, TxOK
    <3> QED BY <1>3, <1>6, <2>2, <3>1, MergeEdgeIs
  <2>4. part.hop \in HopNames => part.hop \in NamesIn(clause)
    <3>1. part.hop \in HopNames => part.hop \in PartBinds(part)
      BY <1>6 DEF PartBinds, HopNames
    <3> QED BY <2>2, <3>1, OneBinds
  <2> HIDE DEF T, a, b, part
  <2>5. ASSUME NEW t \in T PROVE Follows(row, t, clause)
    <3>1. CASE t = row
      BY <1>3, <3>1 DEF Follows
    <3>2. CASE /\ t.at = Put(row.at, part.hop, EdgeId(a, b, 0)) /\ part.hop \in HopNames
      <4>1. IsFun(t.at)
        BY <3>2, PutIsFun
      <4>2. DOMAIN t.at = DOMAIN row.at \cup {part.hop}
        BY <3>2 DEF Put
      <4> QED BY <2>4, <3>2, <4>1, <4>2 DEF Follows
    <3> QED BY <1>3, <2>3, <2>5, <3>1, <3>2
  <2> QED BY <1>1, <2>1, <2>5, NamesRowDone
<1>7. CASE MaterializeMerge(row) /\ ~IsHop(part)
  <2>1. PICK m \in MergeNode(tx, r, part.left) : \E p, es : RowDone(row, {m.row}, p, es)
    BY <1>7 DEF MaterializeMerge
  <2>2. part \in AllParts
    BY <1>3, <1>7, ClauseIs DEF MaterializeMerge
  <2>3. part.left.var \notin HopNames
    BY <2>2, PartNames DEF NodesOf
  <2> HIDE DEF r, part
  <2>4. DOMAIN m.row.at = DOMAIN r.row.at \cup ({part.left.var} \ {Anon})
    BY <1>3, <2>1, <2>3, MergeNodeOK DEF TypeInv, TxOK
  <2>5. m.row.at = r.row.at \/ \E v : m.row.at = Put(r.row.at, part.left.var, v)
    <3>1. \E v : NodeHit(r, part.left, v, m) \/ NodeUnnamed(r, part.left, m) \/ NodeMade(r, part.left, m)
      BY <1>3, <2>1, MergeNodeIs
    <3> QED BY <3>1 DEF NodeHit, NodeUnnamed, NodeMade, Named
  <2>6. IsFun(m.row.at)
    BY <1>3, <2>5, PutIsFun
  <2>7. Follows(row, m.row, clause)
    <3>1. {part.left.var} \ {Anon} \subseteq NamesIn(clause)
      <4>1. ~Deletes(clause) /\ part \in Members(clause.parts)
        BY <1>3, <1>7, ClauseIs DEF MaterializeMerge, Deletes, part
      <4>2. {part.left.var} \ {Anon} \subseteq PartBinds(part)
        BY DEF PartBinds, NodesOf
      <4> QED BY <4>1, <4>2, OneBinds
    <3> QED BY <1>3, <2>4, <2>6, <3>1 DEF Follows
  <2> QED BY <1>1, <2>1, <2>7, NamesRowDone
<1> QED BY <1>2, <1>4, <1>5, <1>6, <1>7

LEMMA NamesGiven ==
    ASSUME NamesInv
    PROVE  \A row \in Given : IsFun(row.at) /\ \A d \in Members(clauses) : FreeFor(row, d)
<1>1. IsFun(EmptyRow.at) /\ DOMAIN EmptyRow.at = {}
  BY EmptyRowIs DEF EmptyRow, Nothing, IsFun
<1>2. \A d : FreeFor(EmptyRow, d)
  BY <1>1 DEF FreeFor
<1>3. \A row \in Given : row = EmptyRow \/ row \in rows
  BY DEF Given
<1> QED BY <1>1, <1>2, <1>3 DEF NamesInv

LEMMA NamesExecute ==
    ASSUME TypeInv, NamesInv, OrderInv(NamesNew), ExecuteMatch \/ ExecuteWrite PROVE NamesInv'
<1>1. ClauseBegins
  BY DEF ExecuteMatch, ExecuteWrite
<1>2. /\ clause' \in AllClauses /\ clause' = Head(clauses) /\ Members(clauses) \subseteq AllClauses
      /\ Members(clauses) = {clause'} \cup Members(clauses')
  BY <1>1, ClauseBeginsIs DEF TypeInv, RequestOK
<1>3. clauses # <<>> /\ clauses' = Tail(clauses) /\ mode = "clause" /\ input = {}
  BY <1>1 DEF ClauseBegins, TypeInv, RequestOK
<1>4. \A d \in Members(clauses') : <<clause', d>> \in NamesNew
  BY <1>2, <1>3, TailOrdered DEF OrderInv, TypeInv, RequestOK
<1>5. CASE ExecuteWrite
  BY <1>2, <1>5, NamesGiven DEF ExecuteWrite, NamesInv
<1>6. CASE ExecuteMatch
  <2> DEFINE part == clause'.parts[1]
  <2>1. /\ clause'.op = "MATCH" /\ mode' = mode /\ input' = input
        /\ rows' = UNION {Matches(tx, row, part) : row \in Given}
    BY <1>2, <1>6 DEF ExecuteMatch
  <2>2. /\ part \in AllParts /\ part.left.var # Anon /\ part.left.var \notin HopNames
        /\ IsHop(part) => part.hop # Anon /\ part.right.var \notin HopNames
    BY <1>2, <2>1, MatchNames
  <2>8. IsHop(part) => part.right.var # Anon
    BY <1>2, <2>1, MatchNames
  <2>3. part \in Members(clause'.parts) /\ ~Deletes(clause')
    BY <1>2, <2>1, ClauseIs DEF Deletes
  <2> HIDE DEF part
  <2>4. ASSUME NEW row \in Given, NEW t \in Matches(tx, row, part) PROVE Follows(row, t, clause')
    <3>1. IsRow(row)
      BY GivenOK DEF RowOK
    <3>2. Matched(tx, row, part, t)
      <4>1. part \in AllParts /\ part.left.var # Anon /\ (IsHop(part) => part.hop # Anon)
        BY <2>2
      <4> QED BY <3>1, <4>1, MatchesIs
    <3> USE DEF Matched
    <3>3. IsFun(t.at)
      <4>1. CASE ~IsHop(part)
        <5>1. \E v : t = [row EXCEPT !.at = Put(row.at, part.left.var, v)]
          BY <2>4, <4>1 DEF Matches
        <5>2. \E v : t.at = Put(row.at, part.left.var, v)
          BY <3>1, <5>1 DEF IsRow
        <5> QED BY <5>2, PutIsFun
      <4>2. CASE IsHop(part)
        <5>1. \E e, w : t = [row EXCEPT !.at = Put(Put(Put(row.at, part.left.var, w[1]),
                                                       part.right.var, w[2]), part.hop, e)]
          BY <2>4, <4>2 DEF Matches
        <5>2. \E f, e : t.at = Put(f, part.hop, e)
          BY <3>1, <5>1 DEF IsRow
        <5> QED BY <5>2, PutIsFun
      <4> QED BY <4>1, <4>2
    <3>4. {part.left.var} \cup (IF IsHop(part) THEN {part.right.var, part.hop} ELSE {})
              \subseteq NamesIn(clause')
      <4>1. {part.left.var} \cup (IF IsHop(part) THEN {part.right.var, part.hop} ELSE {})
                \subseteq PartBinds(part)
        BY <2>2, <2>8 DEF PartBinds, NodesOf
      <4> QED BY <2>3, <4>1, OneBinds
    <3> QED BY <2>2, <3>2, <3>3, <3>4 DEF Follows
  <2>5. ASSUME NEW t \in rows', NEW d \in Members(clauses') PROVE FreeFor(t, d)
    <3>1. PICK row \in Given : t \in Matches(tx, row, part)
      BY <2>1
    <3>2. FreeFor(row, d) /\ d \in AllClauses
      BY <1>2, NamesGiven
    <3> QED BY <1>2, <1>4, <2>4, <3>1, <3>2, FollowsFree
  <2>6. \A t \in rows' : IsFun(t.at)
    BY <2>1, <2>4 DEF Follows
  <2>7. input' = {} /\ mode' = "clause"
    BY <1>3, <2>1
  <2> QED BY <2>5, <2>6, <2>7 DEF NamesInv
<1> QED BY <1>5, <1>6

LEMMA NamesStep ==
    TypeInv /\ OrderInv(NamesNew) /\ NamesInv /\ [Next]_vars => NamesInv'
<1> SUFFICES ASSUME TypeInv, OrderInv(NamesNew), NamesInv, [Next]_vars PROVE NamesInv'
  OBVIOUS
<1>1. CASE UNCHANGED vars
  BY <1>1 DEF vars, NamesInv, FreeFor, Members
<1>2. CASE Begin
  BY <1>2 DEF Begin, NamesInv
<1>3. CASE ExecuteMatch \/ ExecuteWrite
  BY <1>3, NamesExecute
<1>4. CASE MaterializeRow
  BY <1>4, NamesRow
<1>5. CASE UNCHANGED <<rows, input, clauses>> /\ mode' # "rows"
  <2>1. Members(clauses') = Members(clauses)
    BY <1>5 DEF Members
  <2> QED BY <1>5, <2>1 DEF NamesInv
<1>6. CASE RowsDone \/ EndClause \/ Commit
  BY <1>5, <1>6 DEF RowsDone, EndClause, Commit
<1>7. CASE ApplyAdds
  <2>1. UNCHANGED <<rows, input, clauses>> /\ mode' = "apply"
    BY <1>7 DEF ApplyAdds, ApplyCreate, ApplyMergeVertex, ApplyMergeBatch, ApplyMergeSimple,
                ApplyMergeEdge, ApplyMergeNothing, Applied
  <2> QED BY <1>5, <2>1
<1>8. CASE ApplyDelete
  <2>1. UNCHANGED <<rows, input, clauses>> /\ mode' = "apply"
    BY <1>8 DEF ApplyDelete
  <2> QED BY <1>5, <2>1
<1>9. CASE Fail
  <2>1. rows' = {} /\ input' = input /\ mode' = "idle" /\ mode = "apply"
    BY <1>9 DEF Fail
  <2>2. input = {}
    BY <2>1 DEF TypeInv, RequestOK
  <2> QED BY <2>1, <2>2 DEF NamesInv
<1> QED BY <1>1, <1>2, <1>3, <1>4, <1>6, <1>7, <1>8, <1>9, NextSplit DEF Elsewhere

---------------------------------------------------------------------------
(* A CREATE records one event for each row and part, and the applier takes *)
(* each event of a hop for one edge more.                                  *)

HopEvents(s) == {i \in DOMAIN s : IsHop(s[i].part)}
HopParts(c)  == {i \in DOMAIN c.parts : IsHop(c.parts[i])}

LEMMA ShiftedCard ==
    ASSUME NEW S, S \subseteq Nat, IsFiniteSet(S), NEW k \in Nat
    PROVE  LET T == {i + k : i \in S}
           IN  IsFiniteSet(T) /\ Cardinality(T) = Cardinality(S)
<1> DEFINE T == {i + k : i \in S}
           f == [i \in S |-> i + k]
<1>1. f \in Surjection(S, T)
  BY DEF Surjection
<1>2. IsInjective(f)
  <2>1. \A i, j \in S : f[i] = f[j] => i = j
    <3> SUFFICES ASSUME NEW i \in S, NEW j \in S, i + k = j + k PROVE i = j
      OBVIOUS
    <3>1. i \in Nat /\ j \in Nat
      OBVIOUS
    <3> QED BY <3>1
  <2>2. DOMAIN f = S
    OBVIOUS
  <2> HIDE DEF f, T
  <2> QED BY <2>1, <2>2 DEF IsInjective
<1> HIDE DEF T, f
<1>3. f \in Injection(S, T)
  BY <1>1, <1>2 DEF Injection, Surjection
<1> QED BY <1>1, <1>3, FS_Surjection DEF T

LEMMA HopEventsFinite ==
    ASSUME NEW s, IsSeq(s)
    PROVE  HopEvents(s) \subseteq 1 .. Len(s) /\ IsFiniteSet(HopEvents(s))
           /\ Cardinality(HopEvents(s)) \in Nat
<1>1. HopEvents(s) \subseteq 1 .. Len(s) /\ Len(s) \in Nat
  BY DEF HopEvents, IsSeq
<1>2. IsFiniteSet(1 .. Len(s))
  BY <1>1, FS_Interval
<1> QED BY <1>1, <1>2, FS_Subset, FS_CardinalityType

LEMMA HopEventsConcat ==
    ASSUME NEW s, IsSeq(s), NEW t, IsSeq(t)
    PROVE  Cardinality(HopEvents(s \o t)) = Cardinality(HopEvents(s)) + Cardinality(HopEvents(t))
<1> DEFINE S == Members(s) \cup Members(t)
           T == {i + Len(s) : i \in HopEvents(t)}
<1>1. s \in Seq(S) /\ t \in Seq(S)
  <2>1. s \in Seq(Members(s)) /\ t \in Seq(Members(t))
    BY IsOfMembers
  <2> QED BY <2>1
<1> HIDE DEF S
<1>2. /\ \A i \in 1 .. Len(s) : (s \o t)[i] = s[i]
      /\ \A i \in Len(s) + 1 .. Len(s) + Len(t) : (s \o t)[i] = t[i - Len(s)]
      /\ DOMAIN s = 1 .. Len(s) /\ DOMAIN t = 1 .. Len(t)
      /\ DOMAIN (s \o t) = 1 .. Len(s) + Len(t) /\ Len(s) \in Nat /\ Len(t) \in Nat
  BY <1>1
<1>3. /\ IsFiniteSet(HopEvents(s)) /\ HopEvents(s) \subseteq 1 .. Len(s)
      /\ Cardinality(HopEvents(s)) \in Nat
      /\ IsFiniteSet(HopEvents(t)) /\ HopEvents(t) \subseteq 1 .. Len(t)
  BY HopEventsFinite
<1>4. IsFiniteSet(T) /\ Cardinality(T) = Cardinality(HopEvents(t))
  <2>1. HopEvents(t) \subseteq Nat
    BY <1>2, <1>3
  <2> QED BY <1>2, <1>3, <2>1, ShiftedCard
<1>5. \A j \in T : j \in Len(s) + 1 .. Len(s) + Len(t) /\ j - Len(s) \in HopEvents(t)
  BY <1>2, <1>3
<1>6. \A j \in Len(s) + 1 .. Len(s) + Len(t) : j - Len(s) \in HopEvents(t) => j \in T
  <2> SUFFICES ASSUME NEW j \in Len(s) + 1 .. Len(s) + Len(t), j - Len(s) \in HopEvents(t)
               PROVE  j \in T
    OBVIOUS
  <2>1. j = (j - Len(s)) + Len(s)
    BY <1>2
  <2> QED BY <2>1
<1> HIDE DEF T
<1>7. HopEvents(s) \cap T = {}
  BY <1>2, <1>3, <1>5
<1>8. HopEvents(s \o t) = HopEvents(s) \cup T
  <2>1. ASSUME NEW i \in HopEvents(s \o t) PROVE i \in HopEvents(s) \cup T
    <3>1. i \in 1 .. Len(s) + Len(t) /\ IsHop((s \o t)[i].part)
      BY <1>2 DEF HopEvents
    <3>2. CASE i \in 1 .. Len(s)
      BY <1>2, <3>1, <3>2 DEF HopEvents
    <3>3. CASE i \in Len(s) + 1 .. Len(s) + Len(t)
      <4>1. i - Len(s) \in 1 .. Len(t) /\ (s \o t)[i] = t[i - Len(s)]
        BY <1>2, <3>3
      <4>2. i - Len(s) \in HopEvents(t)
        BY <1>2, <3>1, <4>1 DEF HopEvents
      <4> QED BY <1>6, <3>3, <4>2
    <3> QED BY <1>2, <3>1, <3>2, <3>3
  <2>2. ASSUME NEW i \in HopEvents(s) PROVE i \in HopEvents(s \o t)
    <3>1. i \in 1 .. Len(s) /\ i \in 1 .. Len(s) + Len(t)
      BY <1>2, <1>3
    <3> QED BY <1>2, <3>1 DEF HopEvents
  <2>3. ASSUME NEW i \in T PROVE i \in HopEvents(s \o t)
    <3>1. /\ i \in Len(s) + 1 .. Len(s) + Len(t) /\ i \in 1 .. Len(s) + Len(t)
          /\ i - Len(s) \in HopEvents(t)
      BY <1>2, <1>5
    <3>2. (s \o t)[i] = t[i - Len(s)]
      BY <1>2, <3>1
    <3> QED BY <1>2, <3>1, <3>2 DEF HopEvents
  <2> QED BY <2>1, <2>2, <2>3
<1>9. Cardinality(HopEvents(s) \cap T) = 0
  BY <1>7, FS_EmptySet
<1>10. Cardinality(T) \in Nat
  BY <1>4, FS_CardinalityType
<1>11. Cardinality(HopEvents(s) \cup T)
           = Cardinality(HopEvents(s)) + Cardinality(T) - Cardinality(HopEvents(s) \cap T)
  BY <1>3, <1>4, FS_Union
<1> QED BY <1>3, <1>4, <1>8, <1>9, <1>10, <1>11

LEMMA HopEventsTail ==
    ASSUME NEW s, IsSeq(s), s # <<>>
    PROVE  Cardinality(HopEvents(s))
               = Cardinality(HopEvents(Tail(s))) + (IF IsHop(Head(s).part) THEN 1 ELSE 0)
<1> DEFINE T == {i + 1 : i \in HopEvents(Tail(s))}
<1>1. /\ IsSeq(Tail(s)) /\ Len(Tail(s)) = Len(s) - 1 /\ Len(s) > 0 /\ Head(s) = s[1]
      /\ \A i \in 1 .. Len(s) - 1 : Tail(s)[i] = s[i + 1]
  BY TailIs
<1>2. /\ IsFiniteSet(HopEvents(Tail(s))) /\ HopEvents(Tail(s)) \subseteq 1 .. Len(s) - 1
      /\ Cardinality(HopEvents(Tail(s))) \in Nat
  BY <1>1, HopEventsFinite
<1>3. IsFiniteSet(T) /\ Cardinality(T) = Cardinality(HopEvents(Tail(s)))
  <2>1. HopEvents(Tail(s)) \subseteq Nat
    BY <1>2
  <2> QED BY <1>2, <2>1, ShiftedCard
<1>4. Len(s) \in Nat /\ DOMAIN s = 1 .. Len(s) /\ DOMAIN Tail(s) = 1 .. Len(s) - 1
  BY <1>1 DEF IsSeq
<1>5. 1 \notin T
  BY <1>2
<1>6. ASSUME NEW i \in 1 .. Len(s), i # 1 PROVE i \in T <=> IsHop(s[i].part)
  <2>1. /\ i - 1 \in 1 .. Len(s) - 1 /\ (i - 1) + 1 = i
        /\ \A j \in Nat : j + 1 = i => j = i - 1
    BY <1>4, <1>6
  <2>2. i \in T <=> i - 1 \in HopEvents(Tail(s))
    BY <1>2, <2>1
  <2>3. Tail(s)[i - 1] = s[i]
    BY <1>1, <2>1
  <2> QED BY <1>4, <2>1, <2>2, <2>3 DEF HopEvents
<1>7. T \subseteq 1 .. Len(s)
  BY <1>2, <1>4
<1>8. HopEvents(s) = IF IsHop(s[1].part) THEN T \cup {1} ELSE T
  <2>1. 1 \in 1 .. Len(s)
    BY <1>1, <1>4
  <2> HIDE DEF T
  <2> QED BY <1>4, <1>5, <1>6, <1>7, <2>1 DEF HopEvents
<1> HIDE DEF T
<1>9. Cardinality(T \cup {1}) = Cardinality(T) + 1
  BY <1>3, <1>5, FS_AddElement
<1> QED BY <1>1, <1>2, <1>3, <1>8, <1>9

---------------------------------------------------------------------------
(* While a CREATE runs: the edges added and the events of hops to come are *)
(* as many as rows and hops, and each row has for each hop the one or the  *)
(* other.  No row that is done was made of a row that is not.              *)

Origin(row, t) ==
    /\ t.id = row.id /\ t.gone = row.gone /\ DOMAIN t.at = DOMAIN row.at \cup PartsBind(clause)
    /\ \A x \in DOMAIN row.at : t.at[x] = row.at[x]

EndNames(part) == {part.left.var, part.right.var}
EndsIn(part, at) == <<at[part.left.var], at[part.right.var]>>
Joined(p) == \E e \in Added : tx.edges[e] = p
ToJoin(part, p) ==
    \E e \in Members(events) :
        e.part = part /\ EndNames(part) \subseteq DOMAIN e.at /\ EndsIn(part, e.at) = p

MakingInv ==
    mode # "idle" /\ clause.op = "CREATE" =>
        /\ Extends(was, tx)
        /\ mode = "rows" => /\ DOMAIN tx.edges = DOMAIN was.edges
                            /\ \A t \in rows : \A row \in input : ~Origin(row, t)
        /\ Cardinality(Added) + Cardinality(HopEvents(events))
               = Cardinality(rows) * Cardinality(HopParts(clause))
        /\ \A row \in rows : \A i \in HopParts(clause) :
              LET part == clause.parts[i]
              IN  Anon \notin EndNames(part) =>
                      /\ EndNames(part) \subseteq DOMAIN row.at
                      /\ Joined(EndsIn(part, row.at)) \/ ToJoin(part, EndsIn(part, row.at))

\* Two rows make two.
LEMMA OriginOne ==
    ASSUME TypeInv, AlikeInv, NamesInv, mode = "rows", clause.op = "CREATE",
           NEW row \in input, NEW r \in input, NEW t, Origin(row, t), Origin(r, t)
    PROVE  r = row
<1>1. clause \in AllClauses /\ ~Deletes(clause)
  BY DEF TypeInv, RequestOK, Deletes
<1>2. Free(r.at) = Free(row.at)
  BY DEF AlikeInv, Alike
<1>3. \A q \in {r, row} : /\ DOMAIN q.at \cap HopsOf(clause) = {} /\ IsFun(q.at) /\ IsRow(q)
                          /\ DOMAIN t.at = DOMAIN q.at \cup PartsBind(clause)
  <2>1. HopsOf(clause) \subseteq GivenBy(clause)
    BY <1>1, HopsOfNames
  <2> QED BY <2>1 DEF NamesInv, FreeFor, TypeInv, RowsOK, RowOK, Origin
<1>4. PartsBind(clause) \cap HopNames \subseteq HopsOf(clause)
  <2>1. \A k \in DOMAIN clause.parts : clause.parts[k] \in Members(clause.parts)
    BY DEF Members
  <2> QED BY <1>1, <2>1, HopsOfNames DEF PartsBind
<1>5. DOMAIN r.at = DOMAIN row.at
  <2>1. \A q \in {r, row} : DOMAIN q.at \cap HopNames = (DOMAIN t.at \cap HopNames) \ HopsOf(clause)
    <3>1. HopsOf(clause) \cap HopNames \subseteq PartsBind(clause)
      <4> SUFFICES ASSUME NEW x \in HopsOf(clause) PROVE x \in PartsBind(clause)
        OBVIOUS
      <4>1. PICK k \in DOMAIN clause.parts : IsHop(clause.parts[k]) /\ x = clause.parts[k].hop /\ x # Anon
        BY <1>1 DEF HopsOf
      <4>2. x \in PartBinds(clause.parts[k])
        BY <4>1 DEF PartBinds
      <4> QED BY <4>2 DEF PartsBind
    <3> QED BY <1>3, <1>4
  <2> QED BY <1>2, <2>1 DEF Free
<1>6. \A x \in DOMAIN row.at : r.at[x] = row.at[x]
  BY <1>5 DEF Origin
<1>7. r.at = row.at
  <2>1. r.at = [x \in DOMAIN row.at |-> r.at[x]] /\ row.at = [x \in DOMAIN row.at |-> row.at[x]]
    BY <1>3, <1>5 DEF IsFun
  <2>2. [x \in DOMAIN row.at |-> r.at[x]] = [x \in DOMAIN row.at |-> row.at[x]]
    BY <1>6
  <2> QED BY <2>1, <2>2
<1>8. r.id = row.id /\ r.gone = row.gone
  BY DEF Origin
<1>9. IsRow(r) /\ IsRow(row)
  BY <1>3
<1> QED BY <1>7, <1>8, <1>9 DEF IsRow

LEMMA MakingRowDone ==
    ASSUME TypeInv, FiniteInv, AlikeInv, NamesInv, MakingInv, mode = "rows", clause.op = "CREATE",
           NEW row \in input, NEW t, NEW p, NEW es, RowDone(row, {t}, p, es),
           IsSeq(es), HopEvents(es) = HopParts(clause), Origin(row, t),
           \A i \in HopParts(clause) :
              LET part == clause.parts[i]
              IN  Anon \notin EndNames(part) =>
                    /\ EndNames(part) \subseteq DOMAIN t.at
                    /\ \E e \in Members(es) :
                          /\ e.part = part /\ EndNames(part) \subseteq DOMAIN e.at
                          /\ EndsIn(part, e.at) = EndsIn(part, t.at)
    PROVE  MakingInv'
<1>1. /\ input' = input \ {row} /\ rows' = rows \cup {t} /\ events' = events \o es
      /\ UNCHANGED <<tx, was, clause, mode>>
  BY DEF RowDone
<1>2. t \notin rows
  BY DEF MakingInv
<1>3. \A q \in input' : ~Origin(q, t)
  BY <1>1, OriginOne
<1>4. \A u \in rows' : \A q \in input' : ~Origin(q, u)'
  <2>1. \A u, q : Origin(q, u)' <=> Origin(q, u)
    BY <1>1 DEF Origin, PartsBind
  <2> QED BY <1>1, <1>3, <2>1 DEF MakingInv
<1>5. Cardinality(HopEvents(events')) = Cardinality(HopEvents(events)) + Cardinality(HopParts(clause))
  BY <1>1, HopEventsConcat DEF TypeInv, EventsOK
<1>6. Cardinality(rows') = Cardinality(rows) + 1 /\ Cardinality(rows) \in Nat
  BY <1>1, <1>2, FS_AddElement, FS_CardinalityType DEF FiniteInv
<1>7. /\ Added' = Added /\ HopParts(clause') = HopParts(clause) /\ Extends(was', tx')
      /\ DOMAIN tx'.edges = DOMAIN was'.edges /\ Added = {}
  BY <1>1 DEF Added, HopParts, MakingInv
<1>8. Cardinality(Added') + Cardinality(HopEvents(events'))
          = Cardinality(rows') * Cardinality(HopParts(clause'))
  <2>1. Cardinality(Added) = 0
    BY <1>7, FS_EmptySet
  <2>2. Cardinality(HopParts(clause)) \in Nat /\ Cardinality(HopEvents(events)) \in Nat
    BY HopEventsFinite DEF TypeInv, EventsOK
  <2>3. Cardinality(HopEvents(events)) = Cardinality(rows) * Cardinality(HopParts(clause))
    BY <2>1, <2>2 DEF MakingInv
  <2>4. \A m, h \in Nat : m * h + h = (m + 1) * h
    OBVIOUS
  <2> QED BY <1>5, <1>6, <1>7, <2>1, <2>2, <2>3, <2>4
<1>9. Members(events') = Members(events) \cup Members(es)
  BY <1>1, ConcatIs DEF TypeInv, EventsOK
<1>10. \A part, w : (Joined(w) => Joined(w)') /\ (ToJoin(part, w) => ToJoin(part, w)')
  BY <1>1, <1>9 DEF Joined, ToJoin, Added
<1>11. ASSUME NEW i \in HopParts(clause), NEW part, part = clause.parts[i], Anon \notin EndNames(part)
       PROVE  EndNames(part) \subseteq DOMAIN t.at /\ ToJoin(part, EndsIn(part, t.at))'
  BY <1>9, <1>11 DEF ToJoin
<1>12. ASSUME NEW q \in rows', NEW i \in HopParts(clause), NEW part, part = clause.parts[i],
              Anon \notin EndNames(part)
       PROVE  /\ EndNames(part) \subseteq DOMAIN q.at
              /\ Joined(EndsIn(part, q.at))' \/ ToJoin(part, EndsIn(part, q.at))'
  <2>1. CASE q = t
    BY <1>11, <1>12, <2>1
  <2>2. CASE q \in rows
    <3>1. /\ EndNames(part) \subseteq DOMAIN q.at
          /\ Joined(EndsIn(part, q.at)) \/ ToJoin(part, EndsIn(part, q.at))
      BY <1>12, <2>2 DEF MakingInv
    <3> QED BY <1>10, <3>1
  <2> QED BY <1>1, <2>1, <2>2
<1>13. \A i \in HopParts(clause') : clause'.parts[i] = clause.parts[i] /\ i \in HopParts(clause)
  BY <1>1, <1>7
<1> QED BY <1>1, <1>4, <1>7, <1>8, <1>12, <1>13 DEF MakingInv

LEMMA MakingCreate ==
    ASSUME TypeInv, FiniteInv, AlikeInv, NamesInv, MakingInv, mode = "rows",
           NEW row \in input, MaterializeCreate(row)
    PROVE  MakingInv'
<1> DEFINE n == Len(clause.parts)
           after == CreatedAfter([row |-> row, params |-> params], clause.parts)
           t == after[n].row
           es == [i \in 1 .. n |-> Event(clause, clause.parts[i], after[i].row)]
<1>1. clause.op = "CREATE" /\ RowDone(row, {t}, after[n].params, es)
  BY DEF MaterializeCreate
<1>2. clause \in AllClauses /\ ~Deletes(clause) /\ IsFun(row.at)
  BY <1>1 DEF TypeInv, RequestOK, Deletes, NamesInv
<1>3. /\ n \in Nat /\ DOMAIN clause.parts = 1 .. n
      /\ IsFun(t.at) /\ IsRow(t) /\ t.id = row.id /\ t.gone = row.gone
      /\ DOMAIN t.at = DOMAIN row.at \cup PartsBind(clause)
      /\ \A x \in DOMAIN row.at : x \notin HopsOf(clause) => t.at[x] = row.at[x]
      /\ \A i \in 1 .. n : \A x \in PartBinds(clause.parts[i]) \ HopNames :
            x \in DOMAIN after[i].row.at /\ t.at[x] = after[i].row.at[x]
  BY <1>1, <1>2, CreateRowIs
<1> DEFINE last == after[n].params
<1> HIDE DEF after, t, last
<1>4. IsSeq(es) /\ DOMAIN es = 1 .. n
      /\ \A i \in 1 .. n : es[i].part = clause.parts[i] /\ es[i].at = after[i].row.at
  <2>1. es \in Seq({es[i] : i \in 1 .. n})
    BY <1>3
  <2>2. IsSeq(es)
    <3> HIDE DEF es
    <3> QED BY <2>1, SeqIs
  <2> QED BY <2>2 DEF Event
<1>5. HopEvents(es) = HopParts(clause)
  BY <1>3, <1>4 DEF HopEvents, HopParts
<1> HIDE DEF n, es
<1>6. Origin(row, t)
  <2>1. DOMAIN row.at \cap HopsOf(clause) = {}
    BY <1>1, <1>2, HopsOfNames DEF NamesInv, FreeFor
  <2> QED BY <1>3, <2>1 DEF Origin
<1>7. ASSUME NEW i \in HopParts(clause), Anon \notin EndNames(clause.parts[i])
      PROVE  LET part == clause.parts[i]
             IN  /\ EndNames(part) \subseteq DOMAIN t.at
                 /\ \E e \in Members(es) :
                       /\ e.part = part /\ EndNames(part) \subseteq DOMAIN e.at
                       /\ EndsIn(part, e.at) = EndsIn(part, t.at)
  <2> DEFINE part == clause.parts[i]
  <2>1. i \in 1 .. n /\ IsHop(part) /\ part \in AllParts
    <3>1. i \in DOMAIN clause.parts /\ IsHop(part)
      BY DEF HopParts
    <3> QED BY <1>2, <1>3, <3>1, ClauseIs DEF Members
  <2>2. EndNames(part) \subseteq PartBinds(part) \ HopNames
    BY <1>7, <2>1, PartNames DEF EndNames, PartBinds, NodesOf
  <2>3. /\ EndNames(part) \subseteq DOMAIN t.at /\ EndNames(part) \subseteq DOMAIN es[i].at
        /\ \A x \in EndNames(part) : t.at[x] = es[i].at[x]
    <3>1. PartBinds(part) \subseteq PartsBind(clause)
      BY <1>3, <2>1 DEF PartsBind
    <3> QED BY <1>3, <1>4, <2>1, <2>2, <3>1
  <2>4. EndsIn(part, es[i].at) = EndsIn(part, t.at)
    BY <2>3 DEF EndsIn, EndNames
  <2>5. es[i] \in Members(es) /\ es[i].part = part
    BY <1>4, <2>1 DEF Members
  <2> QED BY <2>3, <2>4, <2>5
<1>8. RowDone(row, {t}, last, es)
  BY <1>1 DEF last, t, es, n
<1> QED BY <1>1, <1>4, <1>5, <1>6, <1>7, <1>8, MakingRowDone

\* An event of a hop is taken for one edge, between the ends its row has.
LEMMA MakingApply ==
    ASSUME TypeInv, MakingInv, ApplyCreate PROVE MakingInv'
<1>1. PICK c \in Created(tx, scratch.autoV, Head(events)) : tx' = c.s
  BY DEF ApplyCreate, Applied
<1>2. /\ clause.op = "CREATE" /\ mode = "apply" /\ events # <<>> /\ events' = Tail(events)
      /\ UNCHANGED <<clause, was, rows, input, mode>>
  BY DEF ApplyCreate, Applied
<1>3. PICK e : e = Head(events)
  OBVIOUS
<1>4. /\ NamesOK(e.at) /\ e.part \in AllParts
      /\ Members(events) = {e} \cup Members(events')
  BY <1>2, <1>3, HeadIs DEF EventOK, Deletes
<1>5. TxOK(tx) /\ IsSeq(events)
  BY DEF TypeInv, EventsOK
<1>6. Cardinality(HopEvents(events)) = Cardinality(HopEvents(events')) + (IF IsHop(e.part) THEN 1 ELSE 0)
  BY <1>2, <1>3, <1>5, HopEventsTail
<1>7. Extends(was, tx) /\ IsFiniteSet(Added) /\ Cardinality(Added) \in Nat
  <2>1. Added \subseteq DOMAIN tx.edges /\ IsFiniteSet(DOMAIN tx.edges)
    BY <1>5 DEF Added, TxOK, GraphOK
  <2> QED BY <1>2, <2>1, FS_Subset, FS_CardinalityType DEF MakingInv
<1>8. Cardinality(HopEvents(events)) \in Nat /\ Cardinality(HopEvents(events')) \in Nat
  <2>1. IsSeq(events')
    BY <1>2, <1>5, TailIs
  <2> QED BY <1>5, <2>1, HopEventsFinite
<1>9. CASE ~IsHop(e.part)
  <2>1. tx'.edges = tx.edges
    BY <1>1, <1>3, <1>4, <1>5, <1>9, CreatedOK DEF VerticesPut
  <2>2. Added' = Added /\ Extends(was', tx')
    BY <1>2, <1>7, <2>1 DEF Added, Extends
  <2>3. Cardinality(HopEvents(events')) = Cardinality(HopEvents(events))
    BY <1>6, <1>8, <1>9
  <2>4. \A p : Joined(p) => Joined(p)'
    BY <2>1, <2>2 DEF Joined
  <2>5. \A part, p : IsHop(part) /\ ToJoin(part, p) => ToJoin(part, p)'
    BY <1>4, <1>9 DEF ToJoin
  <2>6. ASSUME NEW row \in rows', NEW i \in HopParts(clause'), NEW part, part = clause'.parts[i],
               Anon \notin EndNames(part)
        PROVE  /\ EndNames(part) \subseteq DOMAIN row.at
               /\ Joined(EndsIn(part, row.at))' \/ ToJoin(part, EndsIn(part, row.at))'
    <3>1. row \in rows /\ i \in HopParts(clause) /\ part = clause.parts[i] /\ IsHop(part)
      BY <1>2, <2>6 DEF HopParts
    <3>2. /\ EndNames(part) \subseteq DOMAIN row.at
          /\ Joined(EndsIn(part, row.at)) \/ ToJoin(part, EndsIn(part, row.at))
      BY <1>2, <2>6, <3>1 DEF MakingInv
    <3> QED BY <2>4, <2>5, <3>1, <3>2
  <2>7. mode' = "apply" /\ rows' = rows /\ HopParts(clause') = HopParts(clause)
    BY <1>2
  <2>8. Cardinality(Added') + Cardinality(HopEvents(events'))
           = Cardinality(rows') * Cardinality(HopParts(clause'))
    BY <1>2, <2>2, <2>3, <2>7 DEF MakingInv
  <2> QED BY <2>2, <2>6, <2>7, <2>8 DEF MakingInv
<1>10. CASE IsHop(e.part)
  <2>1. PICK q, a, b :
           /\ VerticesPut(tx, q) /\ EdgePut(q, tx', a, b) /\ IsVertexId(a) /\ IsVertexId(b)
           /\ e.part.left.var \in DOMAIN e.at => a = e.at[e.part.left.var]
           /\ e.part.right.var \in DOMAIN e.at => b = e.at[e.part.right.var]
    BY <1>1, <1>3, <1>4, <1>5, <1>10, CreatedOK
  <2>2. EdgeAdded(q, tx', a, b) /\ \A d \in DOMAIN q.edges : tx'.edges[d] = q.edges[d]
    BY <2>1, EdgePutOK DEF VerticesPut
  <2>3. q.edges = tx.edges
    BY <2>1 DEF VerticesPut
  <2>4. PICK d : /\ d \notin DOMAIN tx.edges /\ DOMAIN tx'.edges = DOMAIN tx.edges \cup {d}
                 /\ tx'.edges[d] = <<a, b>>
    BY <2>2, <2>3 DEF EdgeAdded
  <2>5. d \notin DOMAIN was.edges /\ d \notin Added /\ Added' = Added \cup {d} /\ Extends(was', tx')
    <3>1. d \notin DOMAIN was.edges
      BY <1>7, <2>4 DEF Extends
    <3> QED BY <1>2, <1>7, <2>2, <2>3, <2>4, <3>1 DEF Added, Extends
  <2>6. Cardinality(Added') = Cardinality(Added) + 1
    BY <1>7, <2>5, FS_AddElement
  <2>7. \A p : Joined(p) => Joined(p)'
    <3>1. \A x \in Added : x \in Added' /\ tx'.edges[x] = tx.edges[x]
      BY <2>2, <2>3, <2>5 DEF Added
    <3> QED BY <3>1 DEF Joined
  <2>8. \A part, p : ToJoin(part, p) => ToJoin(part, p)' \/ Joined(p)'
    <3> SUFFICES ASSUME NEW part, NEW p, ToJoin(part, p) PROVE ToJoin(part, p)' \/ Joined(p)'
      OBVIOUS
    <3>1. PICK x \in Members(events) : x.part = part /\ EndNames(part) \subseteq DOMAIN x.at /\ EndsIn(part, x.at) = p
      BY DEF ToJoin
    <3>2. CASE x \in Members(events')
      BY <3>1, <3>2 DEF ToJoin
    <3>3. CASE x = e
      <4>1. p = <<a, b>>
        BY <2>1, <3>1, <3>3 DEF EndsIn, EndNames
      <4>2. d \in Added' /\ tx'.edges[d] = p
        BY <2>4, <2>5, <4>1
      <4> QED BY <4>2 DEF Joined
    <3> QED BY <1>4, <3>1, <3>2, <3>3
  <2>9. ASSUME NEW row \in rows', NEW i \in HopParts(clause'), NEW part, part = clause'.parts[i],
               Anon \notin EndNames(part)
        PROVE  /\ EndNames(part) \subseteq DOMAIN row.at
               /\ Joined(EndsIn(part, row.at))' \/ ToJoin(part, EndsIn(part, row.at))'
    <3>1. row \in rows /\ i \in HopParts(clause) /\ part = clause.parts[i]
      BY <1>2, <2>9
    <3>2. /\ EndNames(part) \subseteq DOMAIN row.at
          /\ Joined(EndsIn(part, row.at)) \/ ToJoin(part, EndsIn(part, row.at))
      BY <1>2, <2>9, <3>1 DEF MakingInv
    <3> QED BY <2>7, <2>8, <3>2
  <2>10. mode' = "apply" /\ rows' = rows /\ HopParts(clause') = HopParts(clause)
    BY <1>2
  <2>11. Cardinality(Added') + Cardinality(HopEvents(events'))
           = Cardinality(rows') * Cardinality(HopParts(clause'))
    <3>1. Cardinality(Added) + Cardinality(HopEvents(events))
             = Cardinality(rows) * Cardinality(HopParts(clause))
      BY <1>2 DEF MakingInv
    <3>2. Cardinality(HopEvents(events)) = Cardinality(HopEvents(events')) + 1
      BY <1>6, <1>10
    <3>3. Cardinality(Added') + Cardinality(HopEvents(events'))
             = Cardinality(Added) + Cardinality(HopEvents(events))
      BY <1>7, <1>8, <2>6, <3>2
    <3> QED BY <2>10, <3>1, <3>3
  <2> QED BY <2>5, <2>9, <2>10, <2>11 DEF MakingInv
<1> QED BY <1>9, <1>10

LEMMA MakingStep ==
    TypeInv /\ FiniteInv /\ AlikeInv /\ NamesInv /\ MakingInv /\ [Next]_vars => MakingInv'
<1> SUFFICES ASSUME TypeInv, FiniteInv, AlikeInv, NamesInv, MakingInv, [Next]_vars
             PROVE  MakingInv'
  OBVIOUS
<1>1. CASE mode' = "idle" \/ clause'.op # "CREATE"
  BY <1>1 DEF MakingInv
<1>2. CASE Begin \/ ExecuteMatch \/ Commit \/ Fail
  <2>1. mode' = "idle" \/ clause'.op # "CREATE"
    BY <1>2 DEF Begin, Match, ExecuteMatch, ClauseBegins, Commit, Fail
  <2> QED BY <1>1, <2>1
<1>3. CASE ApplyDelete \/ ApplyMergeVertex \/ ApplyMergeBatch \/ ApplyMergeSimple \/ ApplyMergeEdge
           \/ ApplyMergeNothing
  <2>1. clause' = clause /\ clause.op # "CREATE"
    BY <1>3 DEF ApplyDelete, ApplyMergeVertex, ApplyMergeBatch, ApplyMergeSimple, ApplyMergeEdge,
                ApplyMergeNothing, Applied, Deletes
  <2> QED BY <1>1, <2>1
<1>4. CASE UNCHANGED <<tx, was, rows, clause, events>> /\ mode # "idle"
           /\ (mode' = "rows" => mode = "rows" /\ input' = input)
  <2>1. Added' = Added
    BY <1>4 DEF Added
  <2>2. Members(events') = Members(events)
    BY <1>4
  <2>3. \A p : Joined(p)' <=> Joined(p)
    BY <1>4, <2>1 DEF Joined
  <2>4. \A part, p : ToJoin(part, p)' <=> ToJoin(part, p)
    BY <2>2 DEF ToJoin
  <2>5. \A row, t : Origin(row, t)' <=> Origin(row, t)
    BY <1>4 DEF Origin, PartsBind
  <2>6. ASSUME mode' # "idle", clause'.op = "CREATE", NEW row \in rows', NEW i \in HopParts(clause'),
               NEW part, part = clause'.parts[i], Anon \notin EndNames(part)
        PROVE  /\ EndNames(part) \subseteq DOMAIN row.at
               /\ Joined(EndsIn(part, row.at))' \/ ToJoin(part, EndsIn(part, row.at))'
    <3>1. row \in rows /\ i \in HopParts(clause) /\ part = clause.parts[i] /\ clause.op = "CREATE"
      BY <1>4, <2>6
    <3>2. /\ EndNames(part) \subseteq DOMAIN row.at
          /\ Joined(EndsIn(part, row.at)) \/ ToJoin(part, EndsIn(part, row.at))
      BY <1>4, <2>6, <3>1 DEF MakingInv
    <3> QED BY <2>3, <2>4, <3>2
  <2> QED BY <1>4, <2>1, <2>5, <2>6 DEF MakingInv, Extends
<1>5. CASE UNCHANGED vars
  <2>1. CASE mode = "idle"
    BY <1>1, <1>5, <2>1 DEF vars
  <2>2. CASE mode # "idle"
    BY <1>4, <1>5, <2>2 DEF vars
  <2> QED BY <2>1, <2>2
<1>6. CASE RowsDone \/ EndClause
  BY <1>4, <1>6 DEF RowsDone, EndClause
<1>7. CASE ExecuteWrite
  <2>1. /\ rows' = {} /\ events' = <<>> /\ tx' = tx /\ was' = Graph(tx)
    BY <1>7 DEF ExecuteWrite, ClauseBegins
  <2>2. Added' = {} /\ Extends(was', tx') /\ DOMAIN tx'.edges = DOMAIN was'.edges
    BY <2>1 DEF Added, Graph, Extends
  <2>3. HopEvents(events') = {}
    BY <2>1 DEF HopEvents
  <2>4. Cardinality(Added') + Cardinality(HopEvents(events')) = 0 /\ Cardinality(rows') = 0
    <3>1. Cardinality({}) = 0
      BY FS_EmptySet
    <3>2. Cardinality(Added') = 0
      BY <2>2, <3>1
    <3>3. Cardinality(HopEvents(events')) = 0
      BY <2>3, <3>1
    <3>4. Cardinality(rows') = 0
      BY <2>1, <3>1
    <3> QED BY <3>2, <3>3, <3>4
  <2>5. clause'.op = "CREATE" => Cardinality(HopParts(clause')) \in Nat
    <3>1. ClauseBegins
      BY <1>7 DEF ExecuteWrite
    <3>2. clause' \in AllClauses
      BY <3>1, ClauseBeginsIs
    <3>3. clause'.op = "CREATE" => IsSeq(clause'.parts)
      BY <3>2, ClauseIs DEF Deletes
    <3>4. ASSUME NEW s, IsSeq(s) PROVE Cardinality({i \in DOMAIN s : IsHop(s[i])}) \in Nat
      <4>1. {i \in DOMAIN s : IsHop(s[i])} \subseteq 1 .. Len(s) /\ Len(s) \in Nat
        BY <3>4 DEF IsSeq
      <4>2. IsFiniteSet(1 .. Len(s))
        BY <4>1, FS_Interval
      <4> QED BY <4>1, <4>2, FS_Subset, FS_CardinalityType
    <3> QED BY <3>3, <3>4 DEF HopParts
  <2>6. clause'.op = "CREATE" => Cardinality(rows') * Cardinality(HopParts(clause')) = 0
    BY <2>4, <2>5
  <2> QED BY <2>1, <2>2, <2>4, <2>6 DEF MakingInv
<1>8. CASE MaterializeRow
  <2>1. mode = "rows"
    BY <1>8 DEF MaterializeRow
  <2>2. CASE clause.op # "CREATE"
    <3>1. clause' = clause
      BY <1>8 DEF MaterializeRow, MaterializeCreate, MaterializeMerge, MaterializeDelete, RowDone
    <3> QED BY <1>1, <2>2, <3>1
  <2>3. CASE clause.op = "CREATE"
    <3>1. \E row \in input : MaterializeCreate(row)
      BY <1>8, <2>3 DEF MaterializeRow, MaterializeMerge, MaterializeDelete, Deletes
    <3> QED BY <2>1, <3>1, MakingCreate
  <2> QED BY <2>2, <2>3
<1>9. CASE ApplyCreate
  BY <1>9, MakingApply
<1> QED BY <1>2, <1>3, <1>5, <1>6, <1>7, <1>8, <1>9 DEF Next

LEMMA MakingGives == TypeInv /\ MakingInv => CreateMakesAll
<1> SUFFICES ASSUME TypeInv, MakingInv, mode = "clause", clause.op = "CREATE"
             PROVE  CreateMakesAll
  BY DEF CreateMakesAll, Done
<1>1. events = <<>> /\ Members(events) = {} /\ HopEvents(events) = {}
  <2>1. events = <<>>
    BY DEF TypeInv, RequestOK
  <2> QED BY <2>1, IsEmpty DEF HopEvents
<1>2. Cardinality(HopEvents(events)) = 0 /\ Cardinality(Added) \in Nat
  <2>1. Added \subseteq DOMAIN tx.edges /\ IsFiniteSet(DOMAIN tx.edges)
    BY DEF Added, TypeInv, TxOK, GraphOK
  <2> QED BY <1>1, <2>1, FS_EmptySet, FS_Subset, FS_CardinalityType
<1>3. Cardinality(Added) = Cardinality(rows) * Cardinality(HopParts(clause))
  BY <1>2 DEF MakingInv
<1>4. ASSUME NEW row \in rows, NEW i \in HopParts(clause),
             clause.parts[i].left.var # Anon, clause.parts[i].right.var # Anon
      PROVE  \E e \in Added : tx.edges[e]
                 = <<row.at[clause.parts[i].left.var], row.at[clause.parts[i].right.var]>>
  <2>1. Anon \notin EndNames(clause.parts[i])
    BY <1>4 DEF EndNames
  <2>2. Joined(EndsIn(clause.parts[i], row.at))
    BY <1>1, <2>1 DEF MakingInv, ToJoin
  <2> QED BY <2>2 DEF Joined, EndsIn
<1> QED BY <1>3, <1>4 DEF CreateMakesAll, HopParts

\* CREATE makes for every row every relationship of its pattern and one each
\* (putCreatePatternEdge), whatever the graph, the requests and the numbers:
\* though the rows take their ids from one set and no event looks at another's,
\* no two take the same, and no two rows become one.  That a CREATE gives its
\* relationships names no clause before it has bound is needed, and the parser
\* asks it (validatePatternBindings): rows that differ in nothing else would be
\* one row after it.
THEOREM CreatesMakeAll ==
    ASSUME Obeyed(NamesNew) PROVE Spec => []CreateMakesAll
<1> DEFINE IInv == TypeInv /\ FiniteInv /\ AlikeInv /\ OrderInv(NamesNew) /\ NamesInv /\ MakingInv
<1>1. Init => IInv
  <2> SUFFICES ASSUME Init PROVE IInv
    OBVIOUS
  <2>1. TypeInv /\ FiniteInv /\ OrderInv(NamesNew)
    BY TypeInit, FiniteInit, OrderInit
  <2>2. rows = {} /\ input = {} /\ mode = "idle"
    BY DEF Init
  <2>3. AlikeInv /\ NamesInv /\ MakingInv
    BY <2>2 DEF AlikeInv, Alike, NamesInv, MakingInv
  <2> QED BY <2>1, <2>3
<1>2. IInv /\ [Next]_vars => IInv'
  <2> SUFFICES ASSUME IInv, [Next]_vars PROVE IInv'
    OBVIOUS
  <2>1. TypeInv' /\ FiniteInv' /\ AlikeInv'
    BY TypeStep, FiniteStep, AlikeStep
  <2>2. OrderInv(NamesNew)'
    BY OrderStep
  <2> QED BY <2>1, <2>2, NamesStep, MakingStep
<1>3. IInv => CreateMakesAll
  BY MakingGives
<1> QED BY <1>1, <1>2, <1>3, PTL DEF Spec

---------------------------------------------------------------------------
(* What a part of a CREATE takes: numbers for vertices that no id has been *)
(* made with, and for a relationship whose ends were bound before, the     *)
(* next number of their pair.                                              *)

PairAt(at, part) == <<At(at, part.left.var, None), At(at, part.right.var, None)>>
NamedHop(part) == IsHop(part) /\ part.hop # Anon
Counted(r, part) == At(r.params.counts, PairAt(r.row.at, part), 0) + 1
NumberOf(n) == IF n = 1 THEN 0 ELSE n

\* t has more of the numbers for vertices than r
TakesMore(r, t) ==
    /\ t.params.nth = r.params.nth /\ t.params.nextV \in Nat /\ t.params.nextV >= r.params.nextV
    /\ \A x \in DOMAIN t.row.at \ (DOMAIN r.row.at \cup HopNames) :
          \E m \in Nat : /\ m > r.params.nextV /\ m <= t.params.nextV
                         /\ t.row.at[x] = WriteVertex(r.params.nth, m)

LEMMA CreateNodeTakes ==
    ASSUME NEW r, BothOK(r), r.params.nextV \in Nat, NEW node, node.var \notin HopNames
    PROVE  LET t == CreateNode(r, node)
           IN  TakesMore(r, t) /\ t.params.counts = r.params.counts
<1> DEFINE t == CreateNode(r, node)
           m == r.params.nextV + 1
           id == WriteVertex(r.params.nth, m)
<1>1. CASE node.var = Anon \/ node.var \in DOMAIN r.row.at
  <2>1. t = r
    BY <1>1 DEF CreateNode
  <2> QED BY <2>1 DEF TakesMore
<1>2. CASE ~(node.var = Anon \/ node.var \in DOMAIN r.row.at)
  <2>1. t = [row |-> [r.row EXCEPT !.at = Put(r.row.at, node.var, id)],
             params |-> [r.params EXCEPT !.nextV = m]]
    BY <1>2 DEF CreateNode, BothOK
  <2> HIDE DEF t, id
  <2>2. t.row.at = Put(r.row.at, node.var, id)
    BY <2>1 DEF BothOK, RowOK, IsRow
  <2>3. t.params.nth = r.params.nth /\ t.params.nextV = m /\ t.params.counts = r.params.counts
    BY <2>1 DEF BothOK, ParamsOK, IsParams
  <2>4. DOMAIN t.row.at = DOMAIN r.row.at \cup {node.var} /\ t.row.at[node.var] = id
    BY <1>2, <2>2 DEF Put
  <2>5. m \in Nat /\ m > r.params.nextV
    OBVIOUS
  <2> HIDE DEF m
  <2>6. \A x \in DOMAIN t.row.at \ (DOMAIN r.row.at \cup HopNames) : t.row.at[x] = id
    BY <2>4
  <2>7. m <= m /\ m >= r.params.nextV
    BY <2>5
  <2> QED BY <2>3, <2>5, <2>6, <2>7 DEF TakesMore, id, t
<1> QED BY <1>1, <1>2

LEMMA TakesMoreOn ==
    ASSUME NEW r, NEW t, NEW u, r.params.nextV \in Nat, TakesMore(r, t), TakesMore(t, u),
           \A x \in DOMAIN t.row.at \ HopNames : x \in DOMAIN u.row.at /\ u.row.at[x] = t.row.at[x]
    PROVE  TakesMore(r, u)
<1>1. /\ u.params.nth = r.params.nth /\ u.params.nextV \in Nat /\ t.params.nextV \in Nat
      /\ u.params.nextV >= t.params.nextV /\ t.params.nextV >= r.params.nextV
  BY DEF TakesMore
<1>2. ASSUME NEW x \in DOMAIN u.row.at \ (DOMAIN r.row.at \cup HopNames)
      PROVE  \E m \in Nat : /\ m > r.params.nextV /\ m <= u.params.nextV
                            /\ u.row.at[x] = WriteVertex(r.params.nth, m)
  <2>1. CASE x \in DOMAIN t.row.at
    <3>1. PICK m \in Nat : /\ m > r.params.nextV /\ m <= t.params.nextV
                           /\ t.row.at[x] = WriteVertex(r.params.nth, m)
      BY <1>2, <2>1 DEF TakesMore
    <3>2. u.row.at[x] = t.row.at[x]
      BY <1>2, <2>1
    <3>3. m <= u.params.nextV
      BY <1>1, <3>1
    <3> QED BY <3>1, <3>2, <3>3
  <2>2. CASE x \notin DOMAIN t.row.at
    <3>1. PICK m \in Nat : /\ m > t.params.nextV /\ m <= u.params.nextV
                           /\ u.row.at[x] = WriteVertex(t.params.nth, m)
      BY <1>2, <2>2 DEF TakesMore
    <3>2. m > r.params.nextV /\ t.params.nth = r.params.nth
      BY <1>1, <3>1 DEF TakesMore
    <3> QED BY <3>1, <3>2
  <2> QED BY <2>1, <2>2
<1>3. u.params.nextV >= r.params.nextV
  BY <1>1
<1> QED BY <1>1, <1>2, <1>3 DEF TakesMore

\* The ends were bound: the id is of their pair and counted; else it is of none.
HopTakes(r, part, t) ==
    LET p == PairAt(r.row.at, part)
        n == Counted(r, part)
    IN  IF {part.left.var, part.right.var} \subseteq DOMAIN r.row.at
        THEN /\ t.params.counts = Put(r.params.counts, p, n)
             /\ t.row.at[part.hop] = EdgeId(p[1], p[2], NumberOf(n))
        ELSE t.params.counts = r.params.counts /\ t.row.at[part.hop][1] = "auto-e"

LEMMA CreateEdgeTakes ==
    ASSUME NEW r, BothOK(r), NEW q, NEW part, r.params.counts = q.params.counts,
           r.params.nextV \in Nat
    PROVE  LET t == CreateEdge(r, q.row.at, part)
           IN  /\ t.params.nth = r.params.nth /\ t.params.nextV = r.params.nextV
               /\ ~NamedHop(part) => t.params.counts = r.params.counts
               /\ NamedHop(part) => HopTakes(q, part, t)
<1> DEFINE at == q.row.at
           t == CreateEdge(r, at, part)
           p == PairAt(at, part)
           n == Counted(q, part)
           e == EdgeId(p[1], p[2], NumberOf(n))
           u == UnplacedEdge(r.params.nextE + 1)
           c == Put(r.params.counts, p, n)
           A(id) == Put(r.row.at, part.hop, id)
<1>1. CASE ~NamedHop(part)
  <2>1. t = r
    BY <1>1 DEF CreateEdge, NamedHop
  <2> QED BY <1>1, <2>1
<1>2. CASE NamedHop(part)
  <2>1. t = IF part.left.var \in DOMAIN at /\ part.right.var \in DOMAIN at
            THEN [r EXCEPT !.params.counts = c, !.row.at = A(e)]
            ELSE [r EXCEPT !.params.nextE = r.params.nextE + 1, !.row.at = A(u)]
    BY <1>2 DEF CreateEdge, NamedHop, PairAt, Counted, NumberOf
  <2>2. u[1] = "auto-e" /\ \A id : A(id)[part.hop] = id
    BY DEF UnplacedEdge, Put
  <2> HIDE DEF c, e, u, A, t, n
  <2>3. CASE part.left.var \in DOMAIN at /\ part.right.var \in DOMAIN at
    <3>1. t = [row |-> [r.row EXCEPT !.at = A(e)], params |-> [r.params EXCEPT !.counts = c]]
      BY <2>1, <2>3 DEF BothOK
    <3>2. /\ t.row.at = A(e) /\ t.params.counts = c
          /\ t.params.nth = r.params.nth /\ t.params.nextV = r.params.nextV
      BY <3>1 DEF BothOK, RowOK, IsRow, ParamsOK, IsParams
    <3> QED BY <1>2, <2>2, <2>3, <3>2 DEF HopTakes, c, e, n, t
  <2>4. CASE ~(part.left.var \in DOMAIN at /\ part.right.var \in DOMAIN at)
    <3>1. t = [row |-> [r.row EXCEPT !.at = A(u)],
               params |-> [r.params EXCEPT !.nextE = r.params.nextE + 1]]
      BY <2>1, <2>4 DEF BothOK
    <3>2. /\ t.row.at = A(u) /\ t.params.counts = r.params.counts
          /\ t.params.nth = r.params.nth /\ t.params.nextV = r.params.nextV
      BY <3>1 DEF BothOK, RowOK, IsRow, ParamsOK, IsParams
    <3> QED BY <1>2, <2>2, <2>4, <3>2 DEF HopTakes, t
  <2> QED BY <2>3, <2>4
<1> QED BY <1>1, <1>2

LEMMA CreatePartTakes ==
    ASSUME NEW r, BothOK(r), r.params.nextV \in Nat, NEW part \in AllParts
    PROVE  LET t == CreatePart(r, part)
           IN  /\ TakesMore(r, t)
               /\ ~NamedHop(part) => t.params.counts = r.params.counts
               /\ NamedHop(part) => HopTakes(r, part, t)
<1> DEFINE left  == CreateNode(r, part.left)
           nodes == IF IsHop(part) THEN CreateNode(left, part.right) ELSE left
           t     == CreateEdge(nodes, r.row.at, part)
<1>1. CreatePart(r, part) = t
  BY DEF CreatePart
<1>2. /\ part.left.var \notin HopNames
      /\ IsHop(part) => part.right.var \notin HopNames
  BY PartNames DEF NodesOf
<1>3. /\ BothOK(left) /\ TakesMore(r, left) /\ left.params.counts = r.params.counts
      /\ left.params.nextV \in Nat
      /\ \A x \in DOMAIN r.row.at : x \in DOMAIN left.row.at /\ left.row.at[x] = r.row.at[x]
  <2>1. BothOK(left) /\ Continues(r, left)
        /\ \A x \in DOMAIN r.row.at : left.row.at[x] = r.row.at[x]
    BY <1>2, CreateNodeOK
  <2>2. TakesMore(r, left) /\ left.params.counts = r.params.counts
    BY <1>2, CreateNodeTakes
  <2> HIDE DEF left
  <2> QED BY <2>1, <2>2 DEF TakesMore, Continues
<1> HIDE DEF left
<1>4. /\ BothOK(nodes) /\ TakesMore(r, nodes) /\ nodes.params.counts = r.params.counts
      /\ nodes.params.nextV \in Nat
      /\ \A x \in DOMAIN r.row.at : x \in DOMAIN nodes.row.at
  <2>1. CASE ~IsHop(part)
    <3>1. nodes = left
      BY <2>1
    <3> HIDE DEF nodes
    <3> QED BY <1>3, <3>1
  <2>2. CASE IsHop(part)
    <3> DEFINE u == CreateNode(left, part.right)
    <3>1. nodes = u
      BY <2>2
    <3>2. /\ BothOK(u) /\ Continues(left, u)
          /\ \A x \in DOMAIN left.row.at : u.row.at[x] = left.row.at[x]
      BY <1>2, <1>3, <2>2, CreateNodeOK
    <3>3. TakesMore(left, u) /\ u.params.counts = left.params.counts
      BY <1>2, <1>3, <2>2, CreateNodeTakes
    <3> HIDE DEF nodes, u
    <3>4. TakesMore(r, u)
      BY <1>3, <3>2, <3>3, TakesMoreOn DEF Continues
    <3> QED BY <1>3, <3>1, <3>2, <3>3, <3>4 DEF TakesMore, Continues
  <2> QED BY <2>1, <2>2
<1> HIDE DEF nodes
<1>5. /\ t.params.nth = nodes.params.nth /\ t.params.nextV = nodes.params.nextV
      /\ ~NamedHop(part) => t.params.counts = nodes.params.counts
      /\ NamedHop(part) => HopTakes(r, part, t)
  BY <1>4, CreateEdgeTakes
<1>6. /\ Continues(nodes, t)
      /\ DOMAIN t.row.at = DOMAIN nodes.row.at \cup (IF IsHop(part) THEN {part.hop} \ {Anon} ELSE {})
  BY <1>4, CreateEdgeOK
<1>7. TakesMore(r, t)
  <2>1. \A x \in DOMAIN t.row.at \ HopNames : x \in DOMAIN nodes.row.at /\ t.row.at[x] = nodes.row.at[x]
    BY <1>6, PartNames DEF Continues
  <2> HIDE DEF t
  <2>2. \A x \in DOMAIN t.row.at \ (DOMAIN r.row.at \cup HopNames) :
           x \in DOMAIN nodes.row.at \ (DOMAIN r.row.at \cup HopNames) /\ t.row.at[x] = nodes.row.at[x]
    BY <2>1
  <2> QED BY <1>4, <1>5, <2>2 DEF TakesMore
<1> QED BY <1>1, <1>4, <1>5, <1>7

LEMMA CreatedAfterTakes ==
    ASSUME NEW r, BothOK(r), r.params.nextV \in Nat,
           NEW parts, IsSeq(parts), Members(parts) \subseteq AllParts
    PROVE  LET f == CreatedAfter(r, parts)
           IN  /\ \A i \in 0 .. Len(parts) : f[i].params.nextV \in Nat
               /\ \A i, j \in 0 .. Len(parts) : j <= i => TakesMore(f[j], f[i])
<1> DEFINE f == CreatedAfter(r, parts)
           n == Len(parts)
<1>1. /\ f[0] = r
      /\ \A i \in 1 .. n :
            BothOK(f[i - 1]) /\ f[i] = CreatePart(f[i - 1], parts[i]) /\ parts[i] \in AllParts
      /\ \A i \in 0 .. n :
            /\ BothOK(f[i]) /\ Continues(r, f[i])
            /\ f[i].params.found = r.params.found /\ f[i].params.made = r.params.made
            /\ f[i].row.id = r.row.id
  BY CreatedAfterOK
<1>2. n \in Nat
  BY DEF IsSeq
<1> HIDE DEF f, n
<1>3. ASSUME NEW i \in 1 .. n, f[i - 1].params.nextV \in Nat
      PROVE  TakesMore(f[i - 1], f[i]) /\ Continues(f[i - 1], f[i])
  <2> DEFINE q == f[i - 1]
             t == f[i]
  <2>1. BothOK(q) /\ t = CreatePart(q, parts[i]) /\ parts[i] \in AllParts /\ q.params.nextV \in Nat
    BY <1>1, <1>3
  <2> HIDE DEF q, t
  <2>2. TakesMore(q, t) /\ Continues(q, t)
    BY <2>1, CreatePartTakes, CreatePartOK
  <2> QED BY <2>2 DEF q, t
<1>4. \A i \in 0 .. n : f[i].params.nextV \in Nat
  <2> DEFINE S == {i \in 0 .. n : f[i].params.nextV \in Nat}
  <2>1. 0 \in S
    BY <1>1, <1>2
  <2>2. ASSUME NEW i \in 1 .. n, i - 1 \in S PROVE i \in S
    BY <1>2, <1>3, <2>2 DEF TakesMore
  <2> HIDE DEF S
  <2>3. 0 .. n \subseteq S
    BY <1>2, <2>1, <2>2, AfterEachPart DEF n
  <2> QED BY <2>3 DEF S
<1>5. ASSUME NEW j \in 0 .. n
      PROVE  \A i \in 0 .. n : j <= i => TakesMore(f[j], f[i])
  <2> DEFINE S == {i \in 0 .. n : j <= i => TakesMore(f[j], f[i])}
  <2>1. TakesMore(f[j], f[j])
    BY <1>4 DEF TakesMore
  <2>2. 0 \in S
    BY <1>2, <2>1
  <2>3. ASSUME NEW i \in 1 .. n, i - 1 \in S PROVE i \in S
    <3>1. i - 1 \in 0 .. n /\ i \in 0 .. n /\ (j = i \/ (j <= i => j <= i - 1))
      BY <1>2
    <3>2. CASE j = i \/ ~(j <= i)
      BY <2>1, <3>1, <3>2
    <3>3. CASE j <= i - 1
      <4>1. TakesMore(f[j], f[i - 1]) /\ f[j].params.nextV \in Nat /\ f[i - 1].params.nextV \in Nat
        BY <1>4, <2>3, <3>1, <3>3
      <4>2. TakesMore(f[i - 1], f[i]) /\ Continues(f[i - 1], f[i])
        BY <1>3, <4>1
      <4>3. \A x \in DOMAIN f[i - 1].row.at \ HopNames :
               x \in DOMAIN f[i].row.at /\ f[i].row.at[x] = f[i - 1].row.at[x]
        BY <4>2 DEF Continues
      <4>4. TakesMore(f[j], f[i])
        BY <4>1, <4>2, <4>3, TakesMoreOn
      <4> QED BY <3>1, <4>4
    <3> QED BY <3>1, <3>2, <3>3
  <2> HIDE DEF S
  <2>4. 0 .. n \subseteq S
    BY <1>2, <2>2, <2>3, AfterEachPart DEF n
  <2> QED BY <2>4 DEF S
<1> QED BY <1>4, <1>5 DEF f, n

\* MERGE and DELETE take no number for a vertex and count no edge.
TakesNothing(p, q) == q.nth = p.nth /\ q.nextV = p.nextV /\ q.counts = p.counts

LEMMA MergeNodeTakes ==
    ASSUME NEW s, NEW r, BothOK(r), NEW node, NEW t \in MergeNode(s, r, node)
    PROVE  TakesNothing(r.params, t.params)
<1> DEFINE key == <<node.var, node.label>>
           id  == At(r.params.made, key, MergeVertex(r.params.nextMV + 1))
           n   == IF key \in DOMAIN r.params.made THEN r.params.nextMV ELSE r.params.nextMV + 1
           F(v) == Put(r.params.found, node.label, v)
           A(v) == Named(r.row.at, node.var, v)
           B == Put(r.row.at, node.var, id)
           M == Put(r.params.made, key, id)
           hit(v) == [r EXCEPT !.params.found = F(v), !.row.at = A(v)]
           unnamed == [r EXCEPT !.params.found = F(None)]
           miss == [r EXCEPT !.params.found = F(None), !.params.nextMV = n, !.params.made = M,
                             !.row.at = B]
<1>1. r = [row |-> r.row, params |-> r.params] /\ IsParams(r.params)
  BY DEF BothOK, ParamsOK
<1>2. PICK v \in Lookup(s, r.params, node.label) :
         t = IF v # None THEN hit(v) ELSE IF node.var = Anon THEN unnamed ELSE miss
  BY DEF MergeNode
<1> HIDE DEF F, A, B, M, id, n, key
<1>3. CASE v # None
  <2>1. t = [row |-> [r.row EXCEPT !.at = A(v)], params |-> [r.params EXCEPT !.found = F(v)]]
    BY <1>1, <1>2, <1>3
  <2> QED BY <1>1, <2>1 DEF IsParams, TakesNothing
<1>4. CASE v = None /\ node.var = Anon
  <2>1. t = [row |-> r.row, params |-> [r.params EXCEPT !.found = F(None)]]
    BY <1>1, <1>2, <1>4
  <2> QED BY <1>1, <2>1 DEF IsParams, TakesNothing
<1>5. CASE v = None /\ node.var # Anon
  <2>1. t = [row |-> [r.row EXCEPT !.at = B],
             params |-> [r.params EXCEPT !.found = F(None), !.made = M, !.nextMV = n]]
    BY <1>1, <1>2, <1>5
  <2> QED BY <1>1, <2>1 DEF IsParams, TakesNothing
<1> QED BY <1>3, <1>4, <1>5

LEMMA TombstonesTakes ==
    ASSUME NEW s, NEW r, BothOK(r), NEW names
    PROVE  TakesNothing(r.params, Tombstones(s, r, names).params)
<1> DEFINE t == Tombstones(s, r, names)
           es == {r.row.at[x] : x \in names \cap DOMAIN r.row.at} \cap DOMAIN s.edges
           vs == {r.row.at[x] : x \in names \cap DOMAIN r.row.at} \ es
           X == r.row.gone \cup es
           Y == r.params.goneE \cup es
           Z == r.params.goneV \cup vs
<1>1. t = [r EXCEPT !.row.gone = X, !.params.goneE = Y, !.params.goneV = Z]
  BY DEF Tombstones
<1>2. r = [row |-> r.row, params |-> r.params] /\ IsParams(r.params)
  BY DEF BothOK, ParamsOK
<1> HIDE DEF X, Y, Z, t
<1>3. t = [row |-> [r.row EXCEPT !.gone = X], params |-> [r.params EXCEPT !.goneE = Y, !.goneV = Z]]
  BY <1>1, <1>2
<1>4. t.params = [r.params EXCEPT !.goneE = Y, !.goneV = Z]
  BY <1>3
<1>5. TakesNothing(r.params, t.params)
  BY <1>2, <1>4 DEF IsParams, TakesNothing
<1> QED BY <1>5 DEF t

---------------------------------------------------------------------------
(* The ids of vertices that a CREATE predicted: those of requests before   *)
(* this one, and of this one those whose numbers are taken.  The store, the *)
(* rows, the events and the caches have no others, so a number that is not  *)
(* taken makes an id that is nowhere.                                       *)

IdsOf(s) ==
    DOMAIN s.labels \cup {e[2] : e \in DOMAIN s.edges} \cup {e[3] : e \in DOMAIN s.edges}
Older(v, n) == v[1] = "write-v" => v[2] \in Nat /\ v[2] > n
Past(v, p) ==
    v[1] = "write-v" =>
        v[2] \in Nat /\ (v[2] > p.nth \/ (v[2] = p.nth /\ v[3] \in 1 .. p.nextV))
Remembered(p) == {p.found[lab] : lab \in DOMAIN p.found} \cup {p.made[key] : key \in DOMAIN p.made}
BoundIn(S) == UNION {VertexBound(r.at) : r \in S}
Seen == IdsOf(tx) \cup BoundIn(rows) \cup BoundIn(input) \cup BoundIn(Members(events))
        \cup Remembered(params)

PastInv ==
    /\ \A v \in IdsOf(store) : Older(v, IF mode = "idle" THEN Len(todo) ELSE Len(todo) + 1)
    /\ mode # "idle" => /\ params.nth = Len(todo) + 1 /\ params.nextV \in Nat
                        /\ \A v \in Seen : Past(v, params)

LEMMA PastLater ==
    ASSUME NEW p, NEW q, q.nth = p.nth, p.nextV \in Nat, q.nextV \in Nat, q.nextV >= p.nextV,
           NEW v, Past(v, p)
    PROVE  Past(v, q)
BY DEF Past

\* A number that is not taken makes an id that is not past.
LEMMA NotPast ==
    ASSUME NEW p, p.nextV \in Nat, p.nth \in Nat, NEW m \in Nat, m > p.nextV
    PROVE  ~Past(WriteVertex(p.nth, m), p)
<1> DEFINE v == WriteVertex(p.nth, m)
<1>1. v[1] = "write-v" /\ v[2] = p.nth /\ v[3] = m
  BY DEF WriteVertex
<1> HIDE DEF v
<1> QED BY <1>1 DEF Past, v

LEMMA TakenPast ==
    ASSUME NEW p, p.nextV \in Nat, p.nth \in Nat, NEW m \in Nat, m > 0, m <= p.nextV
    PROVE  Past(WriteVertex(p.nth, m), p)
<1> DEFINE v == WriteVertex(p.nth, m)
<1>1. v[1] = "write-v" /\ v[2] = p.nth /\ v[3] = m
  BY DEF WriteVertex
<1> HIDE DEF v
<1> QED BY <1>1 DEF Past, v

\* A step of a request: what is seen after it is past.
LEMMA PastStays ==
    ASSUME TypeInv, PastInv, mode # "idle", UNCHANGED <<store, todo>>, mode' # "idle",
           params'.nth = params.nth, params'.nextV \in Nat, params'.nextV >= params.nextV,
           \A v \in Seen' : v \in Seen \/ Past(v, params')
    PROVE  PastInv'
<1>1. /\ params.nth = Len(todo) + 1 /\ params.nextV \in Nat /\ \A v \in Seen : Past(v, params)
      /\ \A v \in IdsOf(store) : Older(v, Len(todo) + 1)
  BY DEF PastInv
<1>2. \A v \in Seen : Past(v, params')
  BY <1>1, PastLater
<1>3. IdsOf(store') = IdsOf(store)
  BY DEF IdsOf
<1> QED BY <1>1, <1>2, <1>3 DEF PastInv

LEMMA PastRowDone ==
    ASSUME TypeInv, PastInv, mode = "rows", NEW row \in input, NEW R, NEW p, NEW es,
           RowDone(row, R, p, es), IsSeq(es),
           p.nth = params.nth, p.nextV \in Nat, p.nextV >= params.nextV,
           \A v \in BoundIn(R) \cup BoundIn(Members(es)) \cup Remembered(p) :
              v \in Seen \/ Past(v, p)
    PROVE  PastInv'
<1>1. /\ input' = input \ {row} /\ rows' = rows \cup R /\ params' = p /\ events' = events \o es
      /\ UNCHANGED <<store, tx, todo, mode>>
  BY DEF RowDone
<1>2. Members(events') = Members(events) \cup Members(es)
  BY <1>1, ConcatIs DEF TypeInv, EventsOK
<1>3. /\ BoundIn(rows') = BoundIn(rows) \cup BoundIn(R) /\ BoundIn(input') \subseteq BoundIn(input)
      /\ BoundIn(Members(events')) = BoundIn(Members(events)) \cup BoundIn(Members(es))
  BY <1>1, <1>2 DEF BoundIn
<1>4. IdsOf(tx') = IdsOf(tx) /\ Remembered(params') = Remembered(p)
  BY <1>1 DEF IdsOf, Remembered
<1>5. \A v \in Seen' : v \in Seen \/ Past(v, params')
  <2>1. Seen' = IdsOf(tx') \cup BoundIn(rows') \cup BoundIn(input') \cup BoundIn(Members(events'))
                \cup Remembered(params')
    BY DEF Seen
  <2> QED BY <1>1, <1>3, <1>4, <2>1 DEF Seen
<1> QED BY <1>1, <1>5, PastStays

\* A step of the applier: what is in the store after it was in it, is bound by an
\* event, or is an id of the applier's own.
LEMMA PastApplied ==
    ASSUME TypeInv, PastInv, mode = "apply",
           UNCHANGED <<store, todo, rows, input, params, mode>>,
           Members(events') \subseteq Members(events),
           \A v \in IdsOf(tx') : v \in Seen \/ v[1] # "write-v"
    PROVE  PastInv'
<1>1. /\ BoundIn(rows') = BoundIn(rows) /\ BoundIn(input') = BoundIn(input)
      /\ BoundIn(Members(events')) \subseteq BoundIn(Members(events))
      /\ Remembered(params') = Remembered(params)
  BY DEF BoundIn, Remembered
<1>2. \A v \in Seen' : v \in Seen \/ Past(v, params')
  <2>1. Seen' = IdsOf(tx') \cup BoundIn(rows') \cup BoundIn(input') \cup BoundIn(Members(events'))
                \cup Remembered(params')
    BY DEF Seen
  <2>2. \A v \in IdsOf(tx') : v \in Seen \/ Past(v, params')
    BY DEF Past
  <2> QED BY <1>1, <2>1, <2>2 DEF Seen
<1>3. params'.nextV \in Nat /\ params'.nextV >= params.nextV
  BY DEF PastInv
<1> QED BY <1>2, <1>3, PastStays

LEMMA PastInit == ASSUME GraphsFresh PROVE Init => PastInv
<1> SUFFICES ASSUME Init PROVE PastInv
  OBVIOUS
<1>1. PICK g \in Graphs : store.labels = g.labels /\ store.edges = g.edges
  BY DEF Init
<1>2. \A e \in DOMAIN g.edges : {e[2], e[3]} \subseteq DOMAIN g.labels
  BY GraphAssumption
<1>3. IdsOf(store) \subseteq DOMAIN g.labels
  BY <1>1, <1>2 DEF IdsOf
<1>4. \A v \in IdsOf(store) : v[1] # "write-v"
  BY <1>3 DEF GraphsFresh
<1>5. mode = "idle"
  BY DEF Init
<1> QED BY <1>4, <1>5 DEF PastInv, Older

LEMMA PastBegin == TypeInv /\ PastInv /\ Begin => PastInv'
<1> SUFFICES ASSUME TypeInv, PastInv, Begin PROVE PastInv'
  OBVIOUS
<1>1. /\ tx' = View(store) /\ store' = store /\ rows' = {} /\ input' = {} /\ events' = <<>>
      /\ params' = NewParams(Len(todo)) /\ todo' = Tail(todo) /\ todo # <<>>
      /\ mode = "idle" /\ mode' = "clause"
  BY DEF Begin
<1>2. Len(todo) \in Nat /\ Len(todo') = Len(todo) - 1
  BY <1>1, TailIs DEF TypeInv, RequestOK, IsSeq
<1>3. /\ params'.nth = Len(todo) /\ params'.nextV = 0 /\ Remembered(params') = {}
  BY <1>1 DEF NewParams, Remembered, Nothing
<1>4. IdsOf(tx') = IdsOf(store) /\ IdsOf(store') = IdsOf(store)
  BY <1>1, ViewIs DEF IdsOf, TypeInv
<1>5. BoundIn(rows') = {} /\ BoundIn(input') = {} /\ BoundIn(Members(events')) = {}
  BY <1>1, IsEmpty DEF BoundIn
<1>6. Seen' = IdsOf(store)
  <2>1. Seen' = IdsOf(tx') \cup BoundIn(rows') \cup BoundIn(input') \cup BoundIn(Members(events'))
                \cup Remembered(params')
    BY DEF Seen
  <2> QED BY <1>3, <1>4, <1>5, <2>1
<1>7. \A v \in IdsOf(store) : Older(v, Len(todo)) /\ Past(v, params')
  BY <1>1, <1>3 DEF PastInv, Older, Past
<1>8. Len(todo') + 1 = Len(todo)
  BY <1>2
<1> QED BY <1>1, <1>3, <1>4, <1>6, <1>7, <1>8 DEF PastInv

\* The requests before are older than the next one.
LEMMA PastEnd == TypeInv /\ PastInv /\ (Commit \/ Fail) => PastInv'
<1> SUFFICES ASSUME TypeInv, PastInv, Commit \/ Fail PROVE PastInv'
  OBVIOUS
<1>1. mode # "idle" /\ mode' = "idle" /\ todo' = todo /\ Len(todo) \in Nat
      /\ (store' = Flushed(tx) \/ store' = store)
  BY DEF Commit, Fail, TypeInv, RequestOK, IsSeq
<1>2. /\ params.nth = Len(todo) + 1 /\ \A v \in IdsOf(tx) : Past(v, params)
      /\ \A v \in IdsOf(store) : Older(v, Len(todo) + 1)
  BY <1>1 DEF PastInv, Seen
<1>3. IdsOf(store') = IdsOf(tx) \/ IdsOf(store') = IdsOf(store)
  BY <1>1, FlushedIs DEF IdsOf, TypeInv
<1>4. \A v \in IdsOf(store') : Older(v, Len(todo))
  BY <1>1, <1>2, <1>3 DEF Older, Past
<1> QED BY <1>1, <1>4 DEF PastInv

LEMMA MatchesSeen ==
    ASSUME NEW s, GraphOK(s), NEW p, NEW row, RowOK(row, p),
           NEW c \in AllClauses, c.op = "MATCH", NEW t \in Matches(s, row, c.parts[1])
    PROVE  VertexBound(t.at) \subseteq VertexBound(row.at) \cup IdsOf(s)
<1> DEFINE part == c.parts[1]
<1>1. /\ part \in AllParts /\ part.left.var # Anon /\ (IsHop(part) => part.hop # Anon)
      /\ IsHop(part) => part.hop \in HopNames
  BY MatchNames
<1>2. t \in Matches(s, row, part) /\ IsRow(row)
  BY DEF RowOK
<1> HIDE DEF part
<1>3. Matched(s, row, part, t)
  <2>1. t \in Matches(s, row, part)
    BY <1>2
  <2>2. IsRow(row)
    BY <1>2
  <2>3. part \in AllParts /\ part.left.var # Anon /\ (IsHop(part) => part.hop # Anon)
    BY <1>1
  <2> QED BY <2>1, <2>2, <2>3, MatchesIs
<1> USE DEF Matched
<1>4. ASSUME NEW x \in DOMAIN t.at \ HopNames, x \notin DOMAIN row.at PROVE t.at[x] \in IdsOf(s)
  <2>1. CASE ~IsHop(part) BY <1>3, <1>4, <2>1 DEF IdsOf
  <2>2. CASE IsHop(part)
    <3>1. x \in {part.left.var, part.right.var}
      BY <1>1, <1>3, <1>4, <2>2
    <3> DEFINE e == t.at[part.hop]
    <3>2. e \in DOMAIN s.edges /\ {t.at[part.left.var], t.at[part.right.var]} \subseteq {e[2], e[3]}
      <4>1. \A d \in DOMAIN s.edges : s.edges[d] = <<d[2], d[3]>>
        BY DEF GraphOK
      <4>2. e \in DOMAIN s.edges
            /\ {t.at[part.left.var], t.at[part.right.var]} \subseteq {s.edges[e][1], s.edges[e][2]}
        BY <1>3, <2>2
      <4> HIDE DEF e
      <4> QED BY <4>1, <4>2
    <3> HIDE DEF e
    <3>3. {e[2], e[3]} \subseteq IdsOf(s)
      BY <3>2 DEF IdsOf
    <3> QED BY <3>1, <3>2, <3>3
  <2> QED BY <2>1, <2>2
<1>5. ASSUME NEW x \in DOMAIN t.at \ HopNames PROVE t.at[x] \in VertexBound(row.at) \cup IdsOf(s)
  <2>1. CASE x \in DOMAIN row.at BY <1>3, <2>1 DEF VertexBound
  <2> QED BY <1>4, <2>1
<1> QED BY <1>5 DEF VertexBound

LEMMA PastExecute == TypeInv /\ PastInv /\ (ExecuteMatch \/ ExecuteWrite) => PastInv'
<1> SUFFICES ASSUME TypeInv, PastInv, ExecuteMatch \/ ExecuteWrite PROVE PastInv'
  OBVIOUS
<1>1. ClauseBegins /\ UNCHANGED <<store, tx, todo, params>> /\ mode = "clause" /\ events = <<>>
      /\ input = {} /\ events' = <<>> /\ mode' # "idle"
  BY DEF ExecuteMatch, ExecuteWrite, ClauseBegins, TypeInv, RequestOK
<1>2. clause' \in AllClauses /\ clause' = Head(clauses)
  BY <1>1, ClauseBeginsIs
<1>3. \A row \in Given : VertexBound(row.at) \subseteq Seen
  <2>1. VertexBound(EmptyRow.at) = {}
    BY EmptyRowIs DEF VertexBound
  <2>2. \A row \in rows : VertexBound(row.at) \subseteq Seen
    BY DEF Seen, BoundIn
  <2> QED BY <2>1, <2>2 DEF Given
<1>4. ASSUME NEW row \in rows' \cup input' PROVE VertexBound(row.at) \subseteq Seen
  <2>1. CASE ExecuteWrite
    BY <1>3, <2>1 DEF ExecuteWrite
  <2>2. CASE ExecuteMatch
    <3>1. row \in UNION {Matches(tx, q, clause'.parts[1]) : q \in Given} /\ clause'.op = "MATCH"
      BY <1>1, <1>2, <2>2 DEF ExecuteMatch
    <3>2. PICK q \in Given : row \in Matches(tx, q, clause'.parts[1])
      BY <3>1
    <3>3. RowOK(q, params) /\ GraphOK(tx)
      BY GivenOK DEF TypeInv, TxOK
    <3>4. VertexBound(row.at) \subseteq VertexBound(q.at) \cup IdsOf(tx)
      BY <1>2, <3>1, <3>2, <3>3, MatchesSeen
    <3> QED BY <1>3, <3>2, <3>4 DEF Seen
  <2> QED BY <2>1, <2>2
<1>5. Seen' \subseteq Seen
  <2>1. Seen' = IdsOf(tx') \cup BoundIn(rows') \cup BoundIn(input') \cup BoundIn(Members(events'))
                \cup Remembered(params')
    BY DEF Seen
  <2>2. BoundIn(rows') \subseteq Seen /\ BoundIn(input') \subseteq Seen
    BY <1>4 DEF BoundIn
  <2>3. BoundIn(Members(events')) = {}
    BY <1>1, IsEmpty DEF BoundIn
  <2>4. IdsOf(tx') \subseteq Seen /\ Remembered(params') \subseteq Seen
    BY <1>1 DEF Seen, IdsOf, Remembered
  <2> QED BY <2>1, <2>2, <2>3, <2>4
<1>6. mode # "idle" /\ params'.nth = params.nth /\ params'.nextV \in Nat /\ params'.nextV >= params.nextV
  BY <1>1 DEF PastInv
<1> QED BY <1>1, <1>5, <1>6, PastStays

\* The names of nodes a CREATE binds in a row are its own or have numbers that
\* are taken by the last of its parts.
LEMMA CreateSeen ==
    ASSUME TypeInv, PastInv, mode = "rows", clause.op = "CREATE", NEW row \in input
    PROVE  LET n == Len(clause.parts)
               after == CreatedAfter([row |-> row, params |-> params], clause.parts)
               p == after[n].params
           IN  /\ p.nth = params.nth /\ p.nextV \in Nat /\ p.nextV >= params.nextV
               /\ Remembered(p) = Remembered(params)
               /\ \A i \in 0 .. n : \A v \in VertexBound(after[i].row.at) :
                     v \in VertexBound(row.at) \/ Past(v, p)
<1> DEFINE n == Len(clause.parts)
           r == [row |-> row, params |-> params]
           after == CreatedAfter(r, clause.parts)
           p == after[n].params
<1>1. BothOK(r) /\ clause \in AllClauses /\ r.row = row /\ r.params = params
  BY NextRow
<1>2. IsSeq(clause.parts) /\ Members(clause.parts) \subseteq AllParts
  BY <1>1, ClauseIs DEF Deletes
<1>3. params.nextV \in Nat /\ params.nth \in Nat
  <2>1. Len(todo) \in Nat
    BY DEF TypeInv, RequestOK, IsSeq
  <2> QED BY <2>1 DEF PastInv
<1> HIDE DEF r
<1>4. /\ after[0] = r
      /\ \A i \in 1 .. n : BothOK(after[i - 1]) /\ after[i] = CreatePart(after[i - 1], clause.parts[i])
                           /\ clause.parts[i] \in AllParts
      /\ \A i \in 0 .. n : /\ BothOK(after[i]) /\ Continues(r, after[i])
                           /\ after[i].params.found = r.params.found
                           /\ after[i].params.made = r.params.made
  <2>1. BothOK(r) /\ IsSeq(clause.parts) /\ Members(clause.parts) \subseteq AllParts
    BY <1>1, <1>2
  <2> QED BY ONLY <2>1, CreatedAfterOK
<1>5. r.params.nextV \in Nat
  BY <1>1, <1>3
<1>6. /\ \A i \in 0 .. n : after[i].params.nextV \in Nat
      /\ \A i, j \in 0 .. n : j <= i => TakesMore(after[j], after[i])
  BY <1>1, <1>2, <1>5, CreatedAfterTakes
<1>7. n \in Nat /\ n \in 0 .. n /\ 0 \in 0 .. n
  BY <1>2 DEF IsSeq
<1> HIDE DEF after, n
<1>8. TakesMore(r, after[n]) /\ n >= 0
  BY <1>4, <1>6, <1>7
<1>9. p.nth = params.nth /\ p.nextV \in Nat /\ p.nextV >= params.nextV
  BY <1>1, <1>8 DEF TakesMore
<1>10. Remembered(p) = Remembered(params)
  BY <1>1, <1>4, <1>7 DEF Remembered
<1>11. ASSUME NEW i \in 0 .. n, NEW v \in VertexBound(after[i].row.at)
       PROVE  v \in VertexBound(row.at) \/ Past(v, p)
  <2>1. PICK x \in DOMAIN after[i].row.at \ HopNames : v = after[i].row.at[x]
    BY <1>11 DEF VertexBound
  <2>2. CASE x \in DOMAIN row.at
    <3>1. after[i].row.at[x] = row.at[x]
      BY <1>1, <1>4, <1>11, <2>1, <2>2 DEF Continues
    <3> QED BY <2>1, <2>2, <3>1 DEF VertexBound
  <2>3. CASE x \notin DOMAIN row.at
    <3>1. TakesMore(r, after[i]) /\ TakesMore(after[i], after[n]) /\ after[i].params.nextV \in Nat
      BY <1>4, <1>6, <1>7
    <3>2. PICK m \in Nat : /\ m > params.nextV /\ m <= after[i].params.nextV
                           /\ v = WriteVertex(params.nth, m)
      BY <1>1, <2>1, <2>3, <3>1 DEF TakesMore
    <3>3. m <= p.nextV /\ m > 0
      BY <1>3, <1>9, <3>1, <3>2 DEF TakesMore
    <3>4. v = WriteVertex(p.nth, m) /\ p.nth \in Nat
      BY <1>3, <1>9, <3>2
    <3> HIDE DEF p
    <3> QED BY <1>9, <3>3, <3>4, TakenPast
  <2> QED BY <2>2, <2>3
<1> QED BY <1>9, <1>10, <1>11 DEF after, n, r

LEMMA PastCreate ==
    \A row \in input : TypeInv /\ PastInv /\ mode = "rows" /\ MaterializeCreate(row) => PastInv'
<1> SUFFICES ASSUME NEW row \in input, TypeInv, PastInv, mode = "rows", MaterializeCreate(row)
             PROVE  PastInv'
  OBVIOUS
<1> DEFINE n == Len(clause.parts)
           after == CreatedAfter([row |-> row, params |-> params], clause.parts)
           p == after[n].params
           es == [i \in 1 .. n |-> Event(clause, clause.parts[i], after[i].row)]
<1>1. RowDone(row, {after[n].row}, p, es) /\ clause.op = "CREATE"
  BY DEF MaterializeCreate
<1>2. /\ p.nth = params.nth /\ p.nextV \in Nat /\ p.nextV >= params.nextV
      /\ Remembered(p) = Remembered(params)
      /\ \A i \in 0 .. n : \A v \in VertexBound(after[i].row.at) :
            v \in VertexBound(row.at) \/ Past(v, p)
  BY <1>1, CreateSeen
<1>3. n \in Nat
  <2>1. IsSeq(clause.parts)
    BY <1>1, NextRow, ClauseIs DEF Deletes
  <2> QED BY <2>1 DEF IsSeq
<1> HIDE DEF after, n
<1>4. /\ IsSeq(es) /\ Members(es) = {es[i] : i \in 1 .. n}
      /\ \A i \in 1 .. n : es[i].at = after[i].row.at
  <2>1. es \in Seq({es[i] : i \in 1 .. n}) /\ DOMAIN es = 1 .. n
    BY <1>3
  <2>2. \A i \in 1 .. n : es[i].at = after[i].row.at
    BY DEF Event
  <2> HIDE DEF es
  <2> QED BY <2>1, <2>2, SeqIs DEF Members
<1> HIDE DEF es, p
<1>5. \A i \in 0 .. n : \A v \in VertexBound(after[i].row.at) : v \in Seen \/ Past(v, p)
  BY <1>2 DEF Seen, BoundIn
<1>6. \A v \in BoundIn({after[n].row}) \cup BoundIn(Members(es)) \cup Remembered(p) :
         v \in Seen \/ Past(v, p)
  <2>1. \A v \in BoundIn({after[n].row}) : v \in Seen \/ Past(v, p)
    <3>1. n \in 0 .. n /\ BoundIn({after[n].row}) = VertexBound(after[n].row.at)
      BY <1>3 DEF BoundIn
    <3> QED BY <1>5, <3>1
  <2>2. \A v \in BoundIn(Members(es)) : v \in Seen \/ Past(v, p)
    <3>1. \A i \in 1 .. n : i \in 0 .. n
      BY <1>3
    <3>2. \A v \in BoundIn(Members(es)) : \E i \in 1 .. n : v \in VertexBound(after[i].row.at)
      BY <1>4 DEF BoundIn
    <3> QED BY <1>5, <3>1, <3>2
  <2>3. \A v \in Remembered(p) : v \in Seen
    BY <1>2 DEF Seen
  <2> QED BY <2>1, <2>2, <2>3
<1> QED BY <1>1, <1>2, <1>4, <1>6, PastRowDone

\* A name put in a row adds the vertex it stands for and no other.
LEMMA PutBound ==
    ASSUME NEW at, NEW x, NEW v
    PROVE  VertexBound(Put(at, x, v)) \subseteq VertexBound(at) \cup {v}
<1> SUFFICES ASSUME NEW y \in DOMAIN Put(at, x, v) \ HopNames
             PROVE  Put(at, x, v)[y] \in VertexBound(at) \cup {v}
  BY DEF VertexBound
<1>1. y \in DOMAIN at \cup {x} /\ Put(at, x, v)[y] = IF y = x THEN v ELSE at[y]
  BY DEF Put
<1>2. CASE y = x BY <1>1, <1>2
<1>3. CASE y # x BY <1>1, <1>3 DEF VertexBound
<1> QED BY <1>2, <1>3

\* A MERGE of a node binds a vertex that is there, one that is remembered, or an
\* id that no CREATE predicts.
LEMMA MergeNodeSeen ==
    ASSUME NEW s, NEW r, BothOK(r), NEW node, node.var \notin HopNames, NEW t \in MergeNode(s, r, node),
           NEW v \in VertexBound(t.row.at) \cup Remembered(t.params)
    PROVE  \/ v \in VertexBound(r.row.at) \cup Remembered(r.params) \cup IdsOf(s)
           \/ v[1] # "write-v"
<1> DEFINE x == node.var
           lab == node.label
           key == <<x, lab>>
           id == At(r.params.made, key, MergeVertex(r.params.nextMV + 1))
           K(w) == w \in VertexBound(r.row.at) \cup Remembered(r.params) \cup IdsOf(s) \/ w[1] # "write-v"
<1>1. PICK u \in Lookup(s, r.params, lab) :
         \/ NodeHit(r, node, u, t)
         \/ u = None /\ (NodeUnnamed(r, node, t) \/ NodeMade(r, node, t))
  BY MergeNodeIs
<1>2. K(None)
  BY DEF None
<1>3. K(u)
  <2>1. u \in Labelled(s, lab) \/ u = None \/ (lab \in DOMAIN r.params.found /\ u = r.params.found[lab])
    BY <1>1 DEF Lookup
  <2> QED BY <1>2, <2>1 DEF Labelled, IdsOf, Remembered
<1>4. K(id)
  BY DEF At, MergeVertex, Remembered
<1>5. /\ \A w \in VertexBound(r.row.at) : K(w)
      /\ \A l \in DOMAIN r.params.found : K(r.params.found[l])
      /\ \A k \in DOMAIN r.params.made : K(r.params.made[k])
  BY DEF Remembered
<1> HIDE DEF id, key, K
<1>6. \/ v \in VertexBound(t.row.at)
      \/ \E l \in DOMAIN t.params.found : v = t.params.found[l]
      \/ \E k \in DOMAIN t.params.made : v = t.params.made[k]
  BY DEF Remembered
<1>7. CASE NodeHit(r, node, u, t)
  <2>1. /\ t.row.at = Named(r.row.at, x, u) /\ t.params.found = Put(r.params.found, lab, u)
        /\ t.params.made = r.params.made
    BY <1>7 DEF NodeHit
  <2>2. v \in VertexBound(t.row.at) => v \in VertexBound(r.row.at) \/ v = u
    BY <2>1, PutBound DEF Named
  <2>3. (\E l \in DOMAIN t.params.found : v = t.params.found[l]) => v = u \/ \E l \in DOMAIN r.params.found : v = r.params.found[l]
    BY <2>1 DEF Put
  <2> QED BY <1>3, <1>5, <1>6, <2>1, <2>2, <2>3 DEF K
<1>8. CASE NodeUnnamed(r, node, t)
  <2>1. /\ t.row.at = r.row.at /\ t.params.found = Put(r.params.found, lab, None)
        /\ t.params.made = r.params.made
    BY <1>8 DEF NodeUnnamed
  <2>2. (\E l \in DOMAIN t.params.found : v = t.params.found[l]) => v = None \/ \E l \in DOMAIN r.params.found : v = r.params.found[l]
    BY <2>1 DEF Put
  <2> QED BY <1>2, <1>5, <1>6, <2>1, <2>2 DEF K
<1>9. CASE NodeMade(r, node, t)
  <2>1. /\ t.row.at = Put(r.row.at, x, id) /\ t.params.found = Put(r.params.found, lab, None)
        /\ t.params.made = Put(r.params.made, key, id)
    BY <1>9 DEF NodeMade, id, key
  <2>2. v \in VertexBound(t.row.at) => v \in VertexBound(r.row.at) \/ v = id
    BY <2>1, PutBound
  <2>3. (\E l \in DOMAIN t.params.found : v = t.params.found[l]) => v = None \/ \E l \in DOMAIN r.params.found : v = r.params.found[l]
    BY <2>1 DEF Put
  <2>4. (\E k \in DOMAIN t.params.made : v = t.params.made[k]) => v = id \/ \E k \in DOMAIN r.params.made : v = r.params.made[k]
    BY <2>1 DEF Put
  <2> QED BY <1>2, <1>4, <1>5, <1>6, <2>2, <2>3, <2>4 DEF K
<1> QED BY <1>1, <1>7, <1>8, <1>9

LEMMA PastMerge ==
    \A row \in input : TypeInv /\ PastInv /\ mode = "rows" /\ MaterializeMerge(row) => PastInv'
<1> SUFFICES ASSUME NEW row \in input, TypeInv, PastInv, mode = "rows", MaterializeMerge(row)
             PROVE  PastInv'
  OBVIOUS
<1> DEFINE part == clause.parts[1]
           r == [row |-> row, params |-> params]
<1>1. BothOK(r) /\ clause \in AllClauses /\ clause.op = "MERGE" /\ GraphOK(tx)
  BY NextRow DEF MaterializeMerge, TypeInv, TxOK
<1>2. part \in AllParts /\ r.row = row /\ r.params = params
  BY <1>1, ClauseIs
<1>3. params.nextV \in Nat /\ VertexBound(row.at) \subseteq Seen /\ Remembered(params) \subseteq Seen
      /\ IdsOf(tx) \subseteq Seen
  BY DEF PastInv, Seen, BoundIn
<1>4. CASE IsHop(part)
  <2> DEFINE T == MergeEdge(tx, r, part)
  <2>1. PICK list \in Listings(T) :
           RowDone(row, T, params, [i \in DOMAIN list |-> Event(clause, part, list[i])])
    BY <1>4 DEF MaterializeMerge
  <2> DEFINE es == [i \in DOMAIN list |-> Event(clause, part, list[i])]
             a == At(r.row.at, part.left.var, None)
             b == At(r.row.at, part.right.var, None)
  <2>2. /\ IsFiniteSet(T)
        /\ part.hop = Anon \/ None \in {a, b} => T = {r.row}
        /\ ~(part.hop = Anon \/ None \in {a, b}) => \A t \in T :
              /\ t.at = Put(r.row.at, part.hop, EdgeId(a, b, 0))
              /\ part.hop \in HopNames
    <3> HIDE DEF r, part
    <3> QED BY <1>1, <1>2, <1>4, MergeEdgeIs
  <2> HIDE DEF T, a, b, r, part
  <2>3. ASSUME NEW t \in T PROVE VertexBound(t.at) \subseteq VertexBound(row.at)
    <3>1. CASE t = r.row
      BY <1>2, <3>1
    <3>2. CASE t.at = Put(r.row.at, part.hop, EdgeId(a, b, 0)) /\ part.hop \in HopNames
      BY <1>2, <3>2 DEF VertexBound, Put
    <3> QED BY <2>2, <3>1, <3>2
  <2>4. IsSeq(list) /\ Members(list) = T
    BY <2>2, ListingIs
  <2>5. IsSeq(es) /\ \A e \in Members(es) : \E t \in T : e.at = t.at
    <3>1. DOMAIN list = 1 .. Len(list) /\ Len(list) \in Nat
      BY <2>4 DEF IsSeq
    <3>2. \A i \in DOMAIN list : es[i].at = list[i].at
      BY DEF Event
    <3>3. es \in Seq({es[i] : i \in DOMAIN list}) /\ DOMAIN es = DOMAIN list
      BY <3>1
    <3> HIDE DEF es
    <3> QED BY <2>4, <3>2, <3>3, SeqIs DEF Members
  <2>6. RowDone(row, T, params, es)
    BY <2>1
  <2> HIDE DEF es
  <2>7. BoundIn(T) \subseteq Seen /\ BoundIn(Members(es)) \subseteq Seen
    BY <1>3, <2>3, <2>5 DEF BoundIn
  <2>8. \A v \in BoundIn(T) \cup BoundIn(Members(es)) \cup Remembered(params) :
           v \in Seen \/ Past(v, params)
    BY <1>3, <2>7
  <2>9. params.nth = params.nth /\ params.nextV >= params.nextV
    BY <1>3
  <2> QED BY <1>3, <2>5, <2>6, <2>8, <2>9, PastRowDone
<1>5. CASE ~IsHop(part)
  <2>1. PICK m \in MergeNode(tx, r, part.left) :
           RowDone(row, {m.row}, m.params, <<Event(clause, part, m.row)>>)
    BY <1>5 DEF MaterializeMerge
  <2> DEFINE e == Event(clause, part, m.row)
             es == <<e>>
             p == m.params
  <2>2. e.at = m.row.at
    BY <1>1 DEF Event
  <2>3. IsSeq(es) /\ Members(es) = {e}
    BY OneEvent
  <2>4. RowDone(row, {m.row}, p, es)
    BY <2>1
  <2>5. part.left.var \notin HopNames
    BY <1>2, PartNames DEF NodesOf
  <2> HIDE DEF e, es, r, part, p
  <2>6. TakesNothing(r.params, p)
    BY <1>1, <2>1, MergeNodeTakes DEF p
  <2>7. p.nth = params.nth /\ p.nextV \in Nat /\ p.nextV >= params.nextV
    BY <1>2, <1>3, <2>6 DEF TakesNothing
  <2>8. ASSUME NEW v \in VertexBound(m.row.at) \cup Remembered(p) PROVE v \in Seen \/ Past(v, p)
    <3>1. v \in VertexBound(r.row.at) \cup Remembered(r.params) \cup IdsOf(tx) \/ v[1] # "write-v"
      BY <1>1, <2>1, <2>5, <2>8, MergeNodeSeen DEF p
    <3> QED BY <1>2, <1>3, <3>1 DEF Past
  <2>9. BoundIn({m.row}) = VertexBound(m.row.at) /\ BoundIn(Members(es)) = VertexBound(m.row.at)
    BY <2>2, <2>3 DEF BoundIn
  <2>10. \A v \in BoundIn({m.row}) \cup BoundIn(Members(es)) \cup Remembered(p) :
           v \in Seen \/ Past(v, p)
    BY <2>8, <2>9
  <2> QED BY <2>3, <2>4, <2>7, <2>10, PastRowDone
<1> QED BY <1>4, <1>5

LEMMA PastTombstones ==
    \A row \in input : TypeInv /\ PastInv /\ mode = "rows" /\ MaterializeDelete(row) => PastInv'
<1> SUFFICES ASSUME NEW row \in input, TypeInv, PastInv, mode = "rows", MaterializeDelete(row)
             PROVE  PastInv'
  OBVIOUS
<1> DEFINE r == [row |-> row, params |-> params]
           t == Tombstones(tx, r, clause.vars)
           e == Event(clause, NoPart, t.row)
           es == <<e>>
<1>1. RowDone(row, {t.row}, t.params, es)
  BY DEF MaterializeDelete
<1>2. BothOK(r) /\ r.row = row /\ r.params = params
  BY NextRow
<1>3. IsSeq(es) /\ Members(es) = {e} /\ e.at = t.row.at
  BY OneEvent DEF Event
<1> HIDE DEF e, es, r
<1>4. t.row.at = r.row.at /\ t.params.found = r.params.found /\ t.params.made = r.params.made
  <2>1. BothOK(r)
    BY <1>2
  <2>2. Buried(tx, r, clause.vars, t)
    BY <2>1, TombstonesIs
  <2> QED BY <2>2 DEF Buried
<1>5. TakesNothing(r.params, t.params)
  BY <1>2, TombstonesTakes
<1> HIDE DEF t
<1>6. t.params.nth = params.nth /\ t.params.nextV \in Nat /\ t.params.nextV >= params.nextV
  BY <1>2, <1>5 DEF TakesNothing, PastInv
<1>7. /\ BoundIn({t.row}) = VertexBound(row.at) /\ BoundIn(Members(es)) = VertexBound(row.at)
      /\ Remembered(t.params) = Remembered(params)
  BY <1>2, <1>3, <1>4 DEF BoundIn, Remembered
<1>8. VertexBound(row.at) \subseteq Seen /\ Remembered(params) \subseteq Seen
  BY DEF Seen, BoundIn
<1>9. \A v \in BoundIn({t.row}) \cup BoundIn(Members(es)) \cup Remembered(t.params) :
         v \in Seen \/ Past(v, t.params)
  BY <1>7, <1>8
<1> QED BY <1>1, <1>3, <1>6, <1>9, PastRowDone

\* A vertex of a CREATE: nothing is added but the id that is bound, with the
\* label, or one of the applier's own.
LEMMA EnsureVertexIds ==
    ASSUME NEW s, TxOK(s), NEW n, NEW at, NamesOK(at), NEW node, node.var \notin HopNames,
           NEW r \in EnsureVertex(s, n, node, at)
    PROVE  /\ \A v \in DOMAIN r.s.labels : \/ v \in DOMAIN s.labels \/ v[1] = "auto-v"
                                           \/ node.var \in DOMAIN at /\ v = at[node.var]
           /\ node.var \in DOMAIN at /\ at[node.var] \notin DOMAIN s.labels =>
                 at[node.var] \in Labelled(r.s, node.label)
<1>1. CASE node.var \in DOMAIN at
  <2> DEFINE v == at[node.var]
             t == PutVertex(s, v, node.label)
  <2>1. r.s = IF v \in DOMAIN s.labels THEN s ELSE t
    BY <1>1 DEF EnsureVertex
  <2>2. IsVertexId(v)
    BY <1>1 DEF NamesOK
  <2>3. v \notin DOMAIN s.labels => DOMAIN t.labels = DOMAIN s.labels \cup {v} /\ t.labels[v] = LabelSet(node.label)
    <3> HIDE DEF v
    <3> QED BY <2>2, PutVertexPuts
  <2> HIDE DEF v, t
  <2>4. v \notin DOMAIN s.labels => v \in Labelled(t, node.label)
    BY <2>3 DEF Labelled, LabelSet
  <2> QED BY <1>1, <2>1, <2>3, <2>4 DEF v
<1>2. CASE node.var \notin DOMAIN at
  <2> DEFINE F == {k \in Num : k > n /\ AutoVertex(k) \notin DOMAIN s.labels}
  <2>1. PICK m \in Least(F) : r = [s |-> PutVertex(s, AutoVertex(m), node.label),
                                   n |-> m, id |-> AutoVertex(m)]
    BY <1>2 DEF EnsureVertex
  <2> DEFINE v == AutoVertex(m)
             t == PutVertex(s, v, node.label)
  <2>2. v \notin DOMAIN s.labels
    BY LeastIsIn
  <2>3. IsVertexId(v) /\ v[1] = "auto-v"
    BY DEF IsVertexId, AutoVertex
  <2>4. DOMAIN t.labels = DOMAIN s.labels \cup {v}
    <3> HIDE DEF v
    <3> QED BY <2>2, <2>3, PutVertexPuts
  <2>5. r.s = t
    BY <2>1
  <2> HIDE DEF t, v
  <2> QED BY <1>2, <2>3, <2>4, <2>5
<1> QED BY <1>1, <1>2

\* A part of a CREATE: the vertices that are added, and the number of its edge.
LEMMA CreatedIs ==
    ASSUME NEW s, TxOK(s), NEW n, NEW e, NamesOK(e.at), e.part \in AllParts,
           NEW c \in Created(s, n, e)
    PROVE  /\ \A v \in DOMAIN c.s.labels :
                 v \in DOMAIN s.labels \/ v \in VertexBound(e.at) \/ v[1] = "auto-v"
           /\ ~IsHop(e.part) =>
                 LET x == e.part.left.var
                 IN  x \in DOMAIN e.at /\ e.at[x] \notin DOMAIN s.labels =>
                        e.at[x] \in Labelled(c.s, e.part.left.label)
           /\ IsHop(e.part) => \E a, b : \E k \in CreateNumbers(s, a, b) :
                 /\ DOMAIN c.s.edges = DOMAIN s.edges \cup {EdgeId(a, b, k)}
                 /\ {a, b} \subseteq DOMAIN c.s.labels
                 /\ e.part.left.var \in DOMAIN e.at => a = e.at[e.part.left.var]
                 /\ e.part.right.var \in DOMAIN e.at => b = e.at[e.part.right.var]
<1> DEFINE lefts == EnsureVertex(s, n, e.part.left, e.at)
           named(l) == Named(e.at, e.part.left.var, l.id)
           rights(l) == EnsureVertex(l.s, l.n, e.part.right, named(l))
<1>1. e.part.left.var \notin HopNames /\ (IsHop(e.part) => e.part.right.var \notin HopNames)
  BY PartNames DEF NodesOf
<1>2. CASE ~IsHop(e.part)
  <2>1. PICK l \in lefts : c = [s |-> l.s, n |-> l.n]
    BY <1>2 DEF Created
  <2>2. /\ \A v \in DOMAIN l.s.labels : \/ v \in DOMAIN s.labels \/ v[1] = "auto-v"
                                        \/ e.part.left.var \in DOMAIN e.at /\ v = e.at[e.part.left.var]
        /\ e.part.left.var \in DOMAIN e.at /\ e.at[e.part.left.var] \notin DOMAIN s.labels =>
              e.at[e.part.left.var] \in Labelled(l.s, e.part.left.label)
    BY <1>1, EnsureVertexIds
  <2>3. \A v : e.part.left.var \in DOMAIN e.at /\ v = e.at[e.part.left.var] => v \in VertexBound(e.at)
    BY <1>1 DEF VertexBound
  <2> QED BY <1>2, <2>1, <2>2, <2>3
<1>3. CASE IsHop(e.part)
  <2>1. Created(s, n, e) = UNION {UNION {EdgeCreated(l, r) : r \in rights(l)} : l \in lefts}
    BY <1>3 DEF Created
  <2>2. PICK l \in lefts : c \in UNION {EdgeCreated(l, r) : r \in rights(l)}
    BY <2>1
  <2>3. PICK r \in rights(l) : c \in EdgeCreated(l, r)
    BY <2>2
  <2>4. /\ VerticesPut(s, l.s) /\ IsVertexId(l.id) /\ l.id \in DOMAIN l.s.labels
        /\ e.part.left.var \in DOMAIN e.at => l.id = e.at[e.part.left.var]
    BY <1>1, EnsureVertexOK
  <2>5. \A v \in DOMAIN l.s.labels : \/ v \in DOMAIN s.labels \/ v[1] = "auto-v"
                                     \/ e.part.left.var \in DOMAIN e.at /\ v = e.at[e.part.left.var]
    BY <1>1, EnsureVertexIds
  <2>6. /\ NamesOK(named(l))
        /\ \A x \in DOMAIN e.at : x \in DOMAIN named(l) /\ named(l)[x] = e.at[x]
        /\ \A x \in DOMAIN named(l) : x \in DOMAIN e.at \/ named(l)[x] = l.id
    <3>1. CASE e.part.left.var = Anon BY <3>1 DEF Named
    <3>2. CASE e.part.left.var # Anon
      <4> DEFINE f == named(l)
      <4>1. f = Put(e.at, e.part.left.var, l.id)
        BY <3>2 DEF Named
      <4> HIDE DEF f
      <4>2. /\ DOMAIN f = DOMAIN e.at \cup {e.part.left.var} /\ f[e.part.left.var] = l.id
            /\ \A x \in DOMAIN e.at : x # e.part.left.var => f[x] = e.at[x]
        BY <4>1 DEF Put
      <4>3. NamesOK(f) /\ (\A x \in DOMAIN e.at : x \in DOMAIN f /\ f[x] = e.at[x])
            /\ \A x \in DOMAIN f : x \in DOMAIN e.at \/ f[x] = l.id
        BY <1>1, <2>4, <3>2, <4>2 DEF NamesOK
      <4> QED BY <4>3 DEF f
    <3> QED BY <3>1, <3>2
  <2>7. TxOK(l.s)
    BY <2>4 DEF VerticesPut
  <2>8. /\ VerticesPut(l.s, r.s) /\ IsVertexId(r.id) /\ r.id \in DOMAIN r.s.labels
        /\ e.part.right.var \in DOMAIN named(l) => r.id = named(l)[e.part.right.var]
    <3> HIDE DEF named
    <3> QED BY <1>1, <1>3, <2>6, <2>7, EnsureVertexOK
  <2>9. /\ \A v \in DOMAIN r.s.labels : 
              \/ v \in DOMAIN l.s.labels \/ v[1] = "auto-v"
              \/ e.part.right.var \in DOMAIN named(l) /\ v = named(l)[e.part.right.var]
        /\ e.part.right.var \in DOMAIN named(l) /\ named(l)[e.part.right.var] \notin DOMAIN l.s.labels =>
              named(l)[e.part.right.var] \in Labelled(r.s, e.part.right.label)
    <3> HIDE DEF named
    <3> QED BY <1>1, <1>3, <2>6, <2>7, EnsureVertexIds
  <2>10. PICK k \in CreateNumbers(r.s, l.id, r.id) :
           c = [s |-> PutEdgeNew(r.s, EdgeId(l.id, r.id, k), l.id, r.id), n |-> r.n]
    BY <2>3 DEF EdgeCreated
  <2>11. k \in Nat
    BY LeastIsIn, NumberAssumption DEF CreateNumbers, Num
  <2>12. VerticesPut(s, r.s) /\ TxOK(r.s) /\ l.id \in DOMAIN r.s.labels /\ r.s.edges = s.edges
    BY <2>4, <2>8 DEF VerticesPut
  <2>13. c.s.labels = r.s.labels /\ c.s.edges = Put(r.s.edges, EdgeId(l.id, r.id, k), <<l.id, r.id>>)
    BY <2>4, <2>8, <2>10, <2>11, <2>12, PutEdgeNewOK
  <2>14. k \in CreateNumbers(s, l.id, r.id)
    BY <2>10, <2>12 DEF CreateNumbers
  <2>15. DOMAIN c.s.edges = DOMAIN s.edges \cup {EdgeId(l.id, r.id, k)}
    BY <2>12, <2>13 DEF Put
  <2>16. e.part.right.var \in DOMAIN e.at => r.id = e.at[e.part.right.var]
    BY <2>6, <2>8
  <2>17. ASSUME NEW v \in DOMAIN c.s.labels
         PROVE  v \in DOMAIN s.labels \/ v \in VertexBound(e.at) \/ v[1] = "auto-v"
    <3>1. \/ v \in DOMAIN l.s.labels \/ v[1] = "auto-v"
          \/ e.part.right.var \in DOMAIN e.at /\ v = e.at[e.part.right.var]
      BY <2>4, <2>6, <2>9, <2>13, <2>17
    <3> HIDE DEF named, rights, lefts
    <3>2. \/ v \in DOMAIN s.labels \/ v[1] = "auto-v"
          \/ e.part.left.var \in DOMAIN e.at /\ v = e.at[e.part.left.var]
          \/ e.part.right.var \in DOMAIN e.at /\ v = e.at[e.part.right.var]
      BY <2>5, <3>1
    <3> QED BY <1>1, <1>3, <3>2 DEF VertexBound
  <2>18. {l.id, r.id} \subseteq DOMAIN c.s.labels
    BY <2>8, <2>12, <2>13
  <2> HIDE DEF lefts, rights, named
  <2> QED BY <1>3, <2>4, <2>14, <2>15, <2>16, <2>17, <2>18
<1> QED BY <1>2, <1>3

LEMMA CreatedSeen ==
    ASSUME NEW s, TxOK(s), NEW n, NEW e, NamesOK(e.at), e.part \in AllParts,
           NEW c \in Created(s, n, e)
    PROVE  /\ \A v \in DOMAIN c.s.labels :
                 v \in DOMAIN s.labels \/ v \in VertexBound(e.at) \/ v[1] = "auto-v"
           /\ \A d \in DOMAIN c.s.edges : d \in DOMAIN s.edges \/ {d[2], d[3]} \subseteq DOMAIN c.s.labels
<1>1. \A v \in DOMAIN c.s.labels : v \in DOMAIN s.labels \/ v \in VertexBound(e.at) \/ v[1] = "auto-v"
  BY CreatedIs
<1>2. CASE IsHop(e.part)
  <2>1. PICK a, b : \E k \in CreateNumbers(s, a, b) :
              /\ DOMAIN c.s.edges = DOMAIN s.edges \cup {EdgeId(a, b, k)}
              /\ {a, b} \subseteq DOMAIN c.s.labels
    <3>1. \E a, b : \E k \in CreateNumbers(s, a, b) :
                 /\ DOMAIN c.s.edges = DOMAIN s.edges \cup {EdgeId(a, b, k)}
                 /\ {a, b} \subseteq DOMAIN c.s.labels
                 /\ e.part.left.var \in DOMAIN e.at => a = e.at[e.part.left.var]
                 /\ e.part.right.var \in DOMAIN e.at => b = e.at[e.part.right.var]
      BY <1>2, CreatedIs
    <3> QED BY <3>1
  <2> QED BY <1>1, <2>1, EdgeIdParts
<1>3. CASE ~IsHop(e.part)
  <2>1. VerticesPut(s, c.s)
    BY <1>3, CreatedOK
  <2> QED BY <1>1, <2>1 DEF VerticesPut
<1> QED BY <1>2, <1>3

\* A deletion takes vertices and edges.
LEMMA DeleteShrinks ==
    ASSUME TypeInv, ApplyDelete PROVE DOMAIN tx'.labels \subseteq DOMAIN tx.labels
<1>1. TxOK(WithoutEdges) /\ WithoutEdges.labels = tx.labels
  BY WithoutEdgesIs
<1>2. tx' = VerticesDeleted(WithoutEdges, DeletedVertices) \/ tx' = Detached(WithoutEdges, DeletedVertices)
  BY DEF ApplyDelete
<1>3. CASE tx' = VerticesDeleted(WithoutEdges, DeletedVertices)
  BY <1>1, <1>3, VerticesDeletedOK
<1>4. CASE tx' = Detached(WithoutEdges, DeletedVertices)
  <2> DEFINE t == Detached(WithoutEdges, DeletedVertices)
  <2>1. t = Emptied(WithoutEdges) \/ DOMAIN t.labels = DOMAIN WithoutEdges.labels \ DeletedVertices
    <3>1. DetachedTo(WithoutEdges, DeletedVertices, t)
      BY <1>1, DetachedOK
    <3> HIDE DEF t
    <3> QED BY <3>1 DEF DetachedTo
  <2>2. DOMAIN Emptied(WithoutEdges).labels = {}
    BY <1>1, EmptiedOK
  <2> QED BY <1>1, <1>4, <2>1, <2>2
<1> QED BY <1>2, <1>3, <1>4

\* A MERGE of a hop puts edges between what its events bind.
LEMMA PastHops ==
    ASSUME TypeInv, ApplyMergeBatch \/ ApplyMergeSimple \/ ApplyMergeEdge \/ ApplyMergeNothing
    PROVE  /\ Members(events') \subseteq Members(events) /\ tx'.labels = tx.labels
           /\ \A d \in DOMAIN tx'.edges : d \in DOMAIN tx.edges \/ {d[2], d[3]} \subseteq Seen
<1>1. mode = "apply" /\ clause.op = "MERGE" /\ IsHop(clause.parts[1]) /\ ~Deletes(clause) /\ TxOK(tx)
  BY DEF ApplyMergeBatch, ApplyMergeSimple, ApplyMergeEdge, ApplyMergeNothing, Applied, Deletes, TypeInv
<1>2. clause \in AllClauses /\ clause.parts[1] \in AllParts /\ Members(clause.parts) = {clause.parts[1]}
  BY <1>1, ClauseIs DEF TypeInv, RequestOK
<1>3. \A e \in Members(events) : NamesOK(e.at) /\ e.part = clause.parts[1]
  BY <1>1, <1>2 DEF TypeInv, EventsOK, EventOK
<1>4. ASSUME NEW e \in Members(events), Placed(e)
      PROVE  {Ends(e)[1], Ends(e)[2]} \subseteq Seen /\ IsPair(Ends(e))
  <2>1. /\ IsPair(Ends(e))
        /\ e.part.left.var \in DOMAIN e.at /\ Ends(e)[1] = e.at[e.part.left.var]
        /\ e.part.right.var \in DOMAIN e.at /\ Ends(e)[2] = e.at[e.part.right.var]
    BY <1>1, <1>2, <1>3, <1>4, EndsIs
  <2>2. e.part.left.var \notin HopNames /\ e.part.right.var \notin HopNames
    BY <1>1, <1>2, <1>3, PartNames DEF NodesOf
  <2>3. VertexBound(e.at) \subseteq Seen
    BY DEF Seen, BoundIn
  <2> QED BY <2>1, <2>2, <2>3 DEF VertexBound
<1>5. CASE ApplyMergeBatch
  <2>1. PICK n \in DOMAIN events :
           /\ \A i \in 1 .. n : Placed(events[i])
           /\ tx' = PutEdgeNewBatch(tx, {Ends(events[i]) : i \in 1 .. n})
           /\ events' = SubSeq(events, n + 1, Len(events))
    BY <1>5 DEF ApplyMergeBatch
  <2> DEFINE P == {Ends(events[i]) : i \in 1 .. n}
             first == {events[i] : i \in 1 .. n}
             E == {EdgeId(p[1], p[2], 0) : p \in P}
  <2>2. /\ IsFiniteSet(P) /\ \A p \in P : IsPair(p)
        /\ Members(events) = first \cup Members(events')
        /\ P = {Ends(e) : e \in first} /\ \A e \in first : Placed(e)
    BY <1>1, <2>1, BatchIs
  <2>3. \A p \in P : {p[1], p[2]} \subseteq Seen
    BY <1>4, <2>2
  <2>4. tx' = PutEdgeNewBatch(tx, P)
    BY <2>1
  <2> HIDE DEF P
  <2>5. tx'.labels = tx.labels /\ DOMAIN tx'.edges = DOMAIN tx.edges \cup E
    BY <1>1, <2>2, <2>4, PutEdgeNewBatchOK
  <2>6. \A d \in E : {d[2], d[3]} \subseteq Seen
    BY <2>3, EdgeIdParts
  <2> QED BY <2>2, <2>5, <2>6
<1>6. CASE ApplyMergeSimple \/ ApplyMergeEdge \/ ApplyMergeNothing
  <2> DEFINE e == Head(events)
             p == Ends(e)
  <2>1. events # <<>> /\ events' = Tail(events)
    BY <1>6 DEF ApplyMergeSimple, ApplyMergeEdge, ApplyMergeNothing, Applied
  <2>2. tx' = tx \/ EdgePut(tx, tx', p[1], p[2])
    BY <1>6, TypeApplyMergeHop DEF HopPut
  <2>3. tx' = tx \/ Placed(e)
    BY <1>6 DEF ApplyMergeSimple, ApplyMergeEdge, ApplyMergeNothing, Applied
  <2>4. e \in Members(events) /\ Members(Tail(events)) \subseteq Members(events)
    BY <1>1, <2>1, HeadIs
  <2> HIDE DEF e, p
  <2>5. CASE tx' = tx BY <2>1, <2>4, <2>5
  <2>6. CASE Placed(e) /\ EdgePut(tx, tx', p[1], p[2])
    <3>1. {p[1], p[2]} \subseteq Seen /\ IsVertexId(p[1]) /\ IsVertexId(p[2])
      BY <1>4, <2>4, <2>6 DEF p, IsPair
    <3>2. PICK k \in Nat : tx' = PutEdgeNew(tx, EdgeId(p[1], p[2], k), p[1], p[2])
      BY <2>6 DEF EdgePut
    <3>3. tx'.labels = tx.labels /\ tx'.edges = Put(tx.edges, EdgeId(p[1], p[2], k), <<p[1], p[2]>>)
      BY <1>1, <3>1, <3>2, PutEdgeNewOK
    <3>4. DOMAIN tx'.edges = DOMAIN tx.edges \cup {EdgeId(p[1], p[2], k)}
      BY <3>3 DEF Put
    <3> QED BY <2>1, <2>4, <3>1, <3>3, <3>4, EdgeIdParts
  <2> QED BY <2>2, <2>3, <2>5, <2>6
<1> QED BY <1>5, <1>6

\* What the applier's step for an event of the sequence leaves seen.
LEMMA PastAdds == TypeInv /\ PastInv /\ ApplyAdds => PastInv'
<1> SUFFICES ASSUME TypeInv, PastInv, ApplyAdds PROVE PastInv'
  OBVIOUS
<1>1. /\ mode = "apply" /\ mode' = "apply" /\ events # <<>> /\ ~Deletes(clause)
      /\ UNCHANGED <<store, todo, rows, input, params, mode>> /\ TxOK(tx)
  BY AddsAt DEF ApplyAdds, ApplyCreate, ApplyMergeVertex, ApplyMergeBatch, ApplyMergeSimple,
                ApplyMergeEdge, ApplyMergeNothing, Applied, TypeInv
<1> DEFINE e == Head(events)
<1>2. /\ EventOK(e, clause, params) /\ e.part \in AllParts /\ e \in Members(events)
      /\ Members(Tail(events)) \subseteq Members(events)
  BY <1>1, HeadIs
<1>3. /\ NamesOK(e.at) /\ \A d \in Members(events) : VertexBound(d.at) \subseteq Seen
      /\ DOMAIN tx.labels \subseteq Seen /\ IdsOf(tx) \subseteq Seen
  BY <1>2 DEF EventOK, Seen, BoundIn, IdsOf
<1>4. \A d \in DOMAIN tx.edges : {d[2], d[3]} \subseteq Seen
  BY <1>3 DEF IdsOf
<1> HIDE DEF e
<1>5. CASE ApplyCreate
  <2>1. PICK c \in Created(tx, scratch.autoV, e) : tx' = c.s /\ events' = Tail(events)
    BY <1>5 DEF ApplyCreate, Applied, e
  <2>2. \A v \in DOMAIN c.s.labels : v \in DOMAIN tx.labels \/ v \in VertexBound(e.at) \/ v[1] = "auto-v"
    BY <1>1, <1>2, <1>3, <2>1, CreatedSeen
  <2>3. \A v \in DOMAIN c.s.labels : v \in Seen \/ v[1] # "write-v"
    BY <1>2, <1>3, <2>2
  <2>4. ASSUME NEW d \in DOMAIN c.s.edges, NEW v \in {d[2], d[3]} PROVE v \in Seen \/ v[1] # "write-v"
    <3>1. CASE d \in DOMAIN tx.edges BY <1>4, <2>4, <3>1
    <3>2. CASE d \notin DOMAIN tx.edges
      <4>1. {d[2], d[3]} \subseteq DOMAIN c.s.labels
        BY <1>1, <1>2, <1>3, <2>1, <2>4, <3>2, CreatedSeen
      <4> QED BY <2>3, <2>4, <4>1
    <3> QED BY <3>1, <3>2
  <2>5. \A v \in IdsOf(tx') : v \in Seen \/ v[1] # "write-v"
    BY <2>1, <2>3, <2>4 DEF IdsOf
  <2> QED BY <1>1, <1>2, <2>1, <2>5, PastApplied
<1>6. CASE ApplyMergeVertex
  <2>1. PICK m \in MergedVertex(tx, scratch, e) : tx' = m.s /\ events' = Tail(events)
    BY <1>6 DEF ApplyMergeVertex, Applied, e
  <2>2. IsScratch(scratch)
    BY DEF TypeInv, EventsOK
  <2>3. VertexMerged(tx, scratch, e, m)
    BY <2>1, <2>2, MergedVertexIs
  <2>4. TakenId(e) # None => TakenId(e) \in VertexBound(e.at)
    <3>1. e.part.left.var \notin HopNames
      BY <1>2, PartNames DEF NodesOf
    <3> QED BY <3>1 DEF TakenId, At, VertexBound
  <2>5. tx'.edges = tx.edges
    BY <1>6, TypeApplyMergeVertex DEF VerticesPut
  <2>6. \A v, lab : DOMAIN PutVertex(tx, v, lab).labels = DOMAIN tx.labels \cup {v}
    BY <1>1 DEF PutVertex, Put, TxOK, IsView
  <2>7. \A v \in DOMAIN m.s.labels : v \in DOMAIN tx.labels \/ v \in VertexBound(e.at) \/ v[1] = "auto-v"
    <3>1. \/ m.s = tx
          \/ TakenId(e) # None /\ m.s = PutVertex(tx, TakenId(e), e.part.left.label)
          \/ \E k : m.s = PutVertex(tx, AutoVertex(k), e.part.left.label)
      BY <2>3 DEF VertexMerged
    <3>2. \A k : AutoVertex(k)[1] = "auto-v"
      BY DEF AutoVertex
    <3> QED BY <2>4, <2>6, <3>1, <3>2
  <2>8. \A v \in IdsOf(tx') : v \in Seen \/ v[1] # "write-v"
    <3>1. \A v \in DOMAIN tx'.labels : v \in Seen \/ v[1] # "write-v"
      BY <1>2, <1>3, <2>1, <2>7
    <3> QED BY <1>4, <2>5, <3>1 DEF IdsOf
  <2> QED BY <1>1, <1>2, <2>1, <2>8, PastApplied
<1>7. CASE ApplyMergeBatch \/ ApplyMergeSimple \/ ApplyMergeEdge \/ ApplyMergeNothing
  <2>1. /\ Members(events') \subseteq Members(events) /\ tx'.labels = tx.labels
        /\ \A d \in DOMAIN tx'.edges : d \in DOMAIN tx.edges \/ {d[2], d[3]} \subseteq Seen
    BY <1>7, PastHops
  <2>2. \A v \in IdsOf(tx') : v \in Seen \/ v[1] # "write-v"
    BY <1>3, <1>4, <2>1 DEF IdsOf
  <2> QED BY <1>1, <2>1, <2>2, PastApplied
<1> QED BY <1>5, <1>6, <1>7 DEF ApplyAdds

LEMMA PastDelete == TypeInv /\ PastInv /\ ApplyDelete => PastInv'
<1> SUFFICES ASSUME TypeInv, PastInv, ApplyDelete PROVE PastInv'
  OBVIOUS
<1>1. /\ mode = "apply" /\ events' = <<>>
      /\ UNCHANGED <<store, todo, rows, input, params, mode>>
  BY DEF ApplyDelete
<1>2. DOMAIN tx'.labels \subseteq DOMAIN tx.labels
  BY DeleteShrinks
<1>3. DOMAIN tx'.edges \subseteq DOMAIN tx.edges
  BY ApplyDeleteIs
<1>4. IdsOf(tx') \subseteq Seen
  BY <1>2, <1>3 DEF IdsOf, Seen
<1>5. Members(events') \subseteq Members(events)
  BY <1>1, IsEmpty
<1>6. \A v \in IdsOf(tx') : v \in Seen \/ v[1] # "write-v"
  BY <1>4
<1> QED BY <1>1, <1>5, <1>6, PastApplied

LEMMA PastStep == TypeInv /\ PastInv /\ [Next]_vars => PastInv'
<1> SUFFICES ASSUME TypeInv, PastInv, [Next]_vars PROVE PastInv'
  OBVIOUS
<1>1. CASE UNCHANGED vars
  BY <1>1 DEF vars, PastInv, Seen, IdsOf, BoundIn, Remembered, Members, Older, Past
<1>2. CASE Begin BY <1>2, PastBegin
<1>3. CASE ExecuteMatch \/ ExecuteWrite BY <1>3, PastExecute
<1>4. CASE MaterializeRow
  BY <1>4, PastCreate, PastMerge, PastTombstones DEF MaterializeRow
<1>5. CASE RowsDone \/ EndClause
  <2>1. mode # "idle" /\ mode' # "idle" /\ UNCHANGED <<store, tx, todo, rows, input, params, events>>
    BY <1>5 DEF RowsDone, EndClause
  <2> QED BY <2>1 DEF PastInv, Seen, IdsOf, BoundIn, Remembered, Members, Older, Past
<1>6. CASE ApplyAdds BY <1>6, PastAdds
<1>7. CASE ApplyDelete BY <1>7, PastDelete
<1>8. CASE Commit \/ Fail BY <1>8, PastEnd
<1> QED BY <1>1, <1>2, <1>3, <1>4, <1>5, <1>6, <1>7, <1>8 DEF Next, ApplyAdds

---------------------------------------------------------------------------
(* The ids a CREATE predicted for its relationships are taken from the     *)
(* first: when an event is applied that is to make one, the edges of the   *)
(* pair with lower numbers are there, and so the applier counts to the     *)
(* same number (allocateCreateEdgeIDWithLookup).                           *)

\* the id of an edge that an event of a CREATE is to make
PlacedAt(at, part) ==
    IF NamedHop(part) /\ {part.left.var, part.right.var, part.hop} \subseteq DOMAIN at
    THEN {id \in {at[part.hop]} :
             id[1] = "e" /\ id = EdgeId(at[part.left.var], at[part.right.var], id[4])}
    ELSE {}
PlacedBy(e) == IF e.op = "CREATE" THEN PlacedAt(e.at, e.part) ELSE {}
PlacedIn(S) == UNION {PlacedBy(e) : e \in S}

\* the ids there are when the events before the i-th are applied, and when all are
Ready(i) == DOMAIN tx.edges \cup PlacedIn({events[j] : j \in {k \in DOMAIN events : k < i}})
Coming == DOMAIN tx.edges \cup PlacedIn(Members(events))

\* all numbers of a pair up to the one counted, and all below that of an id
Chained(c, R) == \A p \in DOMAIN c : \A m \in (0 .. c[p]) \ {1} : EdgeId(p[1], p[2], m) \in R
LowerIn(id, R) ==
    id[4] \in Nat \ {1} /\ \A m \in (0 .. (id[4] - 1)) \ {1} : EdgeId(id[2], id[3], m) \in R

NamedAhead ==
    \/ mode \in {"rows", "apply"} /\ clause.op = "CREATE" /\ NamesHop(clause)
    \/ \E d \in Members(clauses) : d.op = "CREATE" /\ NamesHop(d)

ChainInv ==
    /\ PairsOK(params.counts)
    /\ mode # "idle" /\ NamedAhead => Chained(params.counts, Coming)
    /\ \A i \in DOMAIN events : \A id \in PlacedBy(events[i]) : LowerIn(id, Ready(i))

LEMMA TakesNumber ==
    ASSUME NEW s, NEW a, NEW b, NEW k \in CreateNumbers(s, a, b), NEW K \in Nat \ {1},
           \A m \in (0 .. (K - 1)) \ {1} : EdgeId(a, b, m) \in DOMAIN s.edges
    PROVE  EdgeId(a, b, K) \in DOMAIN s.edges \cup {EdgeId(a, b, k)}
<1> DEFINE F == {j \in {0} \cup Num : j # 1 /\ EdgeId(a, b, j) \notin DOMAIN s.edges}
<1>1. k \in F /\ \A j \in F : k <= j
  BY DEF CreateNumbers, Least
<1>2. k \in {0} \cup Num /\ k \in Nat /\ k # 1 /\ EdgeId(a, b, k) \notin DOMAIN s.edges
  BY <1>1, NumberAssumption DEF Num
<1>3. ~(k < K)
  <2> SUFFICES ASSUME k < K PROVE FALSE
    OBVIOUS
  <2>1. k \in (0 .. (K - 1)) \ {1}
    BY <1>2
  <2> QED BY <1>2, <2>1
<1>4. K \in {0} \cup Num
  BY <1>2, <1>3, NumberAssumption DEF Num
<1>5. CASE EdgeId(a, b, K) \in DOMAIN s.edges BY <1>5
<1>6. CASE EdgeId(a, b, K) \notin DOMAIN s.edges
  <2>1. K \in F
    BY <1>4, <1>6
  <2>2. k <= K
    BY <1>1, <2>1
  <2>3. k = K
    BY <1>2, <1>3, <2>2
  <2> QED BY <2>3
<1> QED BY <1>5, <1>6

\* A part counts for its pair and its event is to make the number counted.
LEMMA PartPlaces ==
    ASSUME NEW r, BothOK(r), r.params.nextV \in Nat, PairsOK(r.params.counts),
           NEW part \in AllParts, NEW t, t = CreatePart(r, part)
    PROVE  /\ PairsOK(t.params.counts)
           /\ ~NamedHop(part) => t.params.counts = r.params.counts /\ PlacedAt(t.row.at, part) = {}
           /\ NamedHop(part) =>
                 /\ part.hop \in DOMAIN t.row.at
                 /\ t.row.at[part.hop][1] = "e" => PlacedAt(t.row.at, part) = {t.row.at[part.hop]}
                 /\ \A R : Chained(r.params.counts, R) =>
                       /\ Chained(t.params.counts, R \cup PlacedAt(t.row.at, part))
                       /\ \A id \in PlacedAt(t.row.at, part) : LowerIn(id, R)
<1> DEFINE c == r.params.counts
           p == PairAt(r.row.at, part)
           n == Counted(r, part)
           id == EdgeId(p[1], p[2], NumberOf(n))
<1>1. CASE ~NamedHop(part)
  <2>1. t.params.counts = c
    BY <1>1, CreatePartTakes
  <2> QED BY <1>1, <2>1 DEF PlacedAt
<1>2. CASE NamedHop(part)
  <2>1. /\ HopTakes(r, part, t)
        /\ DOMAIN t.row.at = DOMAIN r.row.at \cup PartBinds(part) /\ Continues(r, t)
    BY <1>2, CreatePartTakes, CreatePartOK
  <2>2. part.hop \in DOMAIN t.row.at /\ part.left.var \notin HopNames /\ part.right.var \notin HopNames
    BY <1>2, <2>1, PartNames DEF NamedHop, PartBinds, NodesOf
  <2>3. CASE ~({part.left.var, part.right.var} \subseteq DOMAIN r.row.at)
    <3>1. t.params.counts = c /\ t.row.at[part.hop][1] = "auto-e"
      BY <2>1, <2>3 DEF HopTakes
    <3>2. PlacedAt(t.row.at, part) = {}
      BY <3>1 DEF PlacedAt
    <3> QED BY <1>2, <2>2, <3>1, <3>2
  <2>4. CASE {part.left.var, part.right.var} \subseteq DOMAIN r.row.at
    <3>1. t.params.counts = Put(c, p, n) /\ t.row.at[part.hop] = id
      BY <2>1, <2>4 DEF HopTakes
    <3>2. p = <<t.row.at[part.left.var], t.row.at[part.right.var]>>
      BY <2>1, <2>2, <2>4 DEF PairAt, At, Continues
    <3>3. {part.left.var, part.right.var, part.hop} \subseteq DOMAIN t.row.at
      BY <2>1, <2>2, <2>4
    <3>4. /\ n \in Nat \ {0} /\ (p \in DOMAIN c => n = c[p] + 1 /\ c[p] \in Nat \ {0})
          /\ (p \notin DOMAIN c => n = 1)
      BY DEF Counted, At, PairsOK
    <3> HIDE DEF c, n, p
    <3>5. NumberOf(n) \in Nat \ {1} /\ (n = 1 => NumberOf(n) = 0) /\ (n # 1 => NumberOf(n) = n)
      BY <3>4 DEF NumberOf
    <3>6. id[1] = "e" /\ id[2] = p[1] /\ id[3] = p[2] /\ id[4] = NumberOf(n)
      BY EdgeIdParts
    <3>7. PlacedAt(t.row.at, part) = {id}
      BY <1>2, <3>1, <3>2, <3>3, <3>6 DEF PlacedAt
    <3> HIDE DEF id
    <3>8. PairsOK(t.params.counts)
      <4>1. PairsOK(c)
        BY DEF c
      <4> QED BY <3>1, <3>4, <4>1 DEF PairsOK, Put
    <3>9. ASSUME NEW R, Chained(c, R)
          PROVE  Chained(t.params.counts, R \cup {id}) /\ LowerIn(id, R)
      <4>1. ASSUME NEW m \in (0 .. n) \ {1} PROVE EdgeId(p[1], p[2], m) \in R \cup {id}
        <5>1. CASE p \in DOMAIN c
          <6>1. CASE m = n BY <3>4, <3>5, <4>1, <6>1 DEF id
          <6>2. CASE m # n
            <7>1. m \in (0 .. c[p]) \ {1}
              BY <3>4, <4>1, <5>1, <6>2
            <7> QED BY <3>9, <5>1, <7>1 DEF Chained
          <6> QED BY <6>1, <6>2
        <5>2. CASE p \notin DOMAIN c
          <6>1. m = 0 /\ NumberOf(n) = 0
            BY <3>4, <3>5, <4>1, <5>2
          <6> QED BY <6>1 DEF id
        <5> QED BY <5>1, <5>2
      <4>2. Chained(t.params.counts, R \cup {id})
        <5> SUFFICES ASSUME NEW q \in DOMAIN t.params.counts, NEW m \in (0 .. t.params.counts[q]) \ {1}
                     PROVE  EdgeId(q[1], q[2], m) \in R \cup {id}
          BY DEF Chained
        <5>1. CASE q = p
          <6>1. t.params.counts[q] = n
            BY <3>1, <5>1 DEF Put
          <6> QED BY <4>1, <5>1, <6>1
        <5>2. CASE q # p
          <6>1. q \in DOMAIN c /\ t.params.counts[q] = c[q]
            BY <3>1, <5>2 DEF Put
          <6> QED BY <3>9, <6>1 DEF Chained
        <5> QED BY <5>1, <5>2
      <4>3. LowerIn(id, R)
        <5> SUFFICES ASSUME NEW m \in (0 .. (NumberOf(n) - 1)) \ {1} PROVE EdgeId(p[1], p[2], m) \in R
          BY <3>5, <3>6 DEF LowerIn, id
        <5>1. n # 1 /\ NumberOf(n) = n
          BY <3>5
        <5>2. p \in DOMAIN c /\ m \in (0 .. c[p]) \ {1}
          BY <3>4, <5>1
        <5> QED BY <3>9, <5>2 DEF Chained
      <4> QED BY <4>2, <4>3
    <3> QED BY <1>2, <2>2, <3>1, <3>7, <3>8, <3>9 DEF c
  <2> QED BY <2>3, <2>4
<1> QED BY <1>1, <1>2

LEMMA PlacedInBoth == ASSUME NEW S, NEW T PROVE PlacedIn(S \cup T) = PlacedIn(S) \cup PlacedIn(T)
BY DEF PlacedIn

LEMMA LowerInMore ==
    ASSUME NEW R, NEW T, R \subseteq T
    PROVE  /\ \A id : LowerIn(id, R) => LowerIn(id, T)
           /\ \A c : Chained(c, R) => Chained(c, T)
BY DEF LowerIn, Chained

\* Only a CREATE names what it places.
LEMMA NothingPlaced ==
    ASSUME TypeInv, events = <<>> \/ (mode \in {"rows", "apply"} /\ clause.op # "CREATE")
    PROVE  (\A e \in Members(events) : PlacedBy(e) = {}) /\ Coming = DOMAIN tx.edges
<1>1. \A e \in Members(events) : PlacedBy(e) = {}
  BY IsEmpty DEF TypeInv, EventsOK, EventOK, PlacedBy
<1> QED BY <1>1 DEF Coming, PlacedIn

\* A step that places nothing and takes no edge while a name is ahead.
LEMMA ChainStays ==
    ASSUME TypeInv, TypeInv', ChainInv,
           events' = <<>> \/ (mode' \in {"rows", "apply"} /\ clause'.op # "CREATE"),
           PairsOK(params'.counts),
           mode' # "idle" /\ NamedAhead' => Chained(params'.counts, DOMAIN tx'.edges)
    PROVE  ChainInv'
<1>1. (\A e \in Members(events') : PlacedBy(e) = {}) /\ Coming' = DOMAIN tx'.edges
  <2>1. \A e \in Members(events') : PlacedBy(e) = {}
    BY IsEmpty DEF TypeInv, EventsOK, EventOK, PlacedBy
  <2>2. Coming' = DOMAIN tx'.edges \cup PlacedIn(Members(events'))
    BY DEF Coming
  <2> QED BY <2>1, <2>2 DEF PlacedIn
<1>2. \A i \in DOMAIN events' : PlacedBy(events'[i]) = {}
  BY <1>1 DEF Members
<1> QED BY <1>1, <1>2 DEF ChainInv

\* Rows of a CREATE: what its events place is counted.
LEMMA ChainRowDone ==
    ASSUME TypeInv, ChainInv, mode = "rows", NEW row \in input, NEW R, NEW p, NEW es,
           RowDone(row, R, p, es), IsSeq(es), PairsOK(p.counts),
           NamedAhead => Chained(p.counts, Coming \cup PlacedIn(Members(es))),
           \A i \in 1 .. Len(es) : \A id \in PlacedBy(es[i]) :
              LowerIn(id, Coming \cup PlacedIn({es[j] : j \in 1 .. (i - 1)}))
    PROVE  ChainInv'
<1>1. /\ params' = p /\ events' = events \o es
      /\ UNCHANGED <<tx, clauses, clause, mode>>
  BY DEF RowDone
<1>2. IsSeq(events) /\ Members(events') = Members(events) \cup Members(es)
  BY <1>1, ConcatIs DEF TypeInv, EventsOK
<1>3. Coming' = Coming \cup PlacedIn(Members(es))
  <2>1. Coming' = DOMAIN tx'.edges \cup PlacedIn(Members(events'))
    BY DEF Coming
  <2>2. Coming = DOMAIN tx.edges \cup PlacedIn(Members(events))
    BY DEF Coming
  <2> QED BY <1>1, <1>2, <2>1, <2>2, PlacedInBoth
<1>4. NamedAhead' <=> NamedAhead
  BY <1>1 DEF NamedAhead
<1>5. /\ DOMAIN events = 1 .. Len(events) /\ DOMAIN es = 1 .. Len(es)
      /\ DOMAIN events' = 1 .. Len(events) + Len(es)
      /\ \A i \in 1 .. Len(events) : events'[i] = events[i]
      /\ \A i \in Len(events) + 1 .. Len(events) + Len(es) : events'[i] = es[i - Len(events)]
      /\ Len(events) \in Nat /\ Len(es) \in Nat
  <2> DEFINE S == Members(events) \cup Members(es)
  <2>1. events \in Seq(S) /\ es \in Seq(S)
    <3>1. events \in Seq(Members(events)) /\ es \in Seq(Members(es))
      BY <1>2, IsOfMembers
    <3> QED BY <3>1
  <2> HIDE DEF S
  <2> QED BY <1>1, <2>1
<1> DEFINE Early(i) == {k \in DOMAIN events' : k < i}
<1>6. \A i : Ready(i)' = DOMAIN tx.edges \cup PlacedIn({events'[j] : j \in Early(i)})
  BY <1>1 DEF Ready
<1>7. ASSUME NEW i \in DOMAIN events', NEW id \in PlacedBy(events'[i])
      PROVE  LowerIn(id, DOMAIN tx.edges \cup PlacedIn({events'[j] : j \in Early(i)}))
  <2>1. CASE i \in 1 .. Len(events)
    <3>1. {events'[j] : j \in Early(i)} = {events[j] : j \in {k \in DOMAIN events : k < i}}
      BY <1>5, <2>1
    <3>2. LowerIn(id, Ready(i))
      BY <1>5, <1>7, <2>1 DEF ChainInv
    <3> QED BY <3>1, <3>2 DEF Ready
  <2>2. CASE i \in Len(events) + 1 .. Len(events) + Len(es)
    <3> DEFINE k == i - Len(events)
               T == {es[j] : j \in 1 .. (k - 1)}
    <3>1. k \in 1 .. Len(es) /\ events'[i] = es[k]
      BY <1>5, <2>2
    <3>2. LowerIn(id, Coming \cup PlacedIn(T))
      BY <1>7, <3>1
    <3>3. Members(events) \cup T \subseteq {events'[j] : j \in Early(i)}
      <4>1. ASSUME NEW j \in 1 .. Len(events) PROVE events[j] \in {events'[m] : m \in Early(i)}
        <5>1. j \in Early(i) /\ events'[j] = events[j]
          BY <1>5, <2>2, <4>1
        <5> QED BY <5>1
      <4>2. ASSUME NEW j \in 1 .. (k - 1) PROVE es[j] \in {events'[m] : m \in Early(i)}
        <5>1. /\ j + Len(events) \in Len(events) + 1 .. Len(events) + Len(es)
              /\ (j + Len(events)) - Len(events) = j /\ j + Len(events) < i
              /\ j + Len(events) \in DOMAIN events'
          BY <1>5, <2>2, <4>2
        <5>2. events'[j + Len(events)] = es[j]
          BY <1>5, <5>1
        <5> QED BY <5>1, <5>2
      <4> HIDE DEF Early, k
      <4> QED BY <1>5, <4>1, <4>2 DEF Members
    <3> HIDE DEF T, Early
    <3>4. Coming \cup PlacedIn(T) \subseteq DOMAIN tx.edges \cup PlacedIn({events'[j] : j \in Early(i)})
      BY <3>3 DEF Coming, PlacedIn
    <3> QED BY <3>2, <3>4, LowerInMore
  <2> QED BY <1>5, <1>7, <2>1, <2>2
<1> HIDE DEF Early
<1>8. \A i \in DOMAIN events' : \A id \in PlacedBy(events'[i]) : LowerIn(id, Ready(i)')
  BY <1>6, <1>7
<1>9. mode' # "idle" /\ NamedAhead' => Chained(params'.counts, Coming')
  BY <1>1, <1>3, <1>4
<1> QED BY <1>1, <1>8, <1>9 DEF ChainInv

\* The part of a CREATE that names a relationship makes its clause one that does.
LEMMA OneNamesHop ==
    ASSUME NEW c, NEW i \in DOMAIN c.parts, NamedHop(c.parts[i]) PROVE NamesHop(c)
BY DEF NamesHop, NamedHop

\* What a CREATE makes of a row and its parameters, part after part.
LEMMA CreateSteps ==
    ASSUME TypeInv, PastInv, mode = "rows", clause.op = "CREATE", NEW row \in input
    PROVE  LET n == Len(clause.parts)
               r == [row |-> row, params |-> params]
               after == CreatedAfter(r, clause.parts)
           IN  /\ n \in Nat /\ DOMAIN clause.parts = 1 .. n /\ after[0] = r
               /\ \A i \in 1 .. n : /\ BothOK(after[i - 1]) /\ after[i - 1].params.nextV \in Nat
                                    /\ after[i] = CreatePart(after[i - 1], clause.parts[i])
                                    /\ clause.parts[i] \in AllParts
               /\ \A i, j \in 0 .. n : j <= i => TakesMore(after[j], after[i])
               /\ \A i \in 0 .. n : Continues(r, after[i]) /\ BothOK(after[i])
<1> DEFINE n == Len(clause.parts)
           r == [row |-> row, params |-> params]
           after == CreatedAfter(r, clause.parts)
<1>1. BothOK(r) /\ clause \in AllClauses /\ r.params = params
  BY NextRow
<1>2. IsSeq(clause.parts) /\ Members(clause.parts) \subseteq AllParts
  BY <1>1, ClauseIs DEF Deletes
<1>3. r.params.nextV \in Nat
  BY <1>1 DEF PastInv
<1>4. n \in Nat /\ DOMAIN clause.parts = 1 .. n
  BY <1>2 DEF IsSeq
<1> HIDE DEF r
<1>5. /\ after[0] = r
      /\ \A i \in 1 .. n : BothOK(after[i - 1]) /\ after[i] = CreatePart(after[i - 1], clause.parts[i])
                           /\ clause.parts[i] \in AllParts
      /\ \A i \in 0 .. n : /\ BothOK(after[i]) /\ Continues(r, after[i])
                           /\ after[i].params.found = r.params.found
                           /\ after[i].params.made = r.params.made
                           /\ after[i].row.id = r.row.id
  <2>1. BothOK(r) /\ IsSeq(clause.parts) /\ Members(clause.parts) \subseteq AllParts
    BY <1>1, <1>2
  <2> QED BY ONLY <2>1, CreatedAfterOK
<1>6. /\ \A i \in 0 .. n : after[i].params.nextV \in Nat
      /\ \A i, j \in 0 .. n : j <= i => TakesMore(after[j], after[i])
  <2>1. BothOK(r) /\ IsSeq(clause.parts) /\ Members(clause.parts) \subseteq AllParts /\ r.params.nextV \in Nat
    BY <1>1, <1>2, <1>3
  <2> QED BY ONLY <2>1, CreatedAfterTakes
<1>7. \A i \in 1 .. n : i - 1 \in 0 .. n
  BY <1>4
<1> HIDE DEF after, n
<1> QED BY <1>4, <1>5, <1>6, <1>7 DEF after, n, r

LEMMA ChainCreate ==
    \A row \in input :
        TypeInv /\ PastInv /\ ChainInv /\ mode = "rows" /\ MaterializeCreate(row) => ChainInv'
<1> SUFFICES ASSUME NEW row \in input, TypeInv, PastInv, ChainInv, mode = "rows",
                    MaterializeCreate(row)
             PROVE  ChainInv'
  OBVIOUS
<1> DEFINE n == Len(clause.parts)
           r == [row |-> row, params |-> params]
           after == CreatedAfter(r, clause.parts)
           p == after[n].params
           es == [i \in 1 .. n |-> Event(clause, clause.parts[i], after[i].row)]
           New(i) == {es[j] : j \in 1 .. i}
<1>1. RowDone(row, {after[n].row}, p, es) /\ clause.op = "CREATE"
  BY DEF MaterializeCreate
<1>2. /\ n \in Nat /\ DOMAIN clause.parts = 1 .. n /\ after[0] = r
      /\ \A i \in 1 .. n : /\ BothOK(after[i - 1]) /\ after[i - 1].params.nextV \in Nat
                           /\ after[i] = CreatePart(after[i - 1], clause.parts[i])
                           /\ clause.parts[i] \in AllParts
  <2>1. TypeInv /\ PastInv /\ mode = "rows" /\ clause.op = "CREATE" /\ row \in input
    BY <1>1
  <2> QED BY ONLY <2>1, CreateSteps
<1>3. r.params = params
  OBVIOUS
<1> HIDE DEF after, r
<1>4. /\ IsSeq(es) /\ Members(es) = New(n) /\ Len(es) = n
      /\ \A i \in 1 .. n : es[i].at = after[i].row.at /\ es[i].op = "CREATE"
                           /\ es[i].part = clause.parts[i]
  <2>1. es \in Seq({es[i] : i \in 1 .. n}) /\ DOMAIN es = 1 .. n /\ Len(es) = n
    BY <1>2
  <2>2. \A i \in 1 .. n : es[i].at = after[i].row.at /\ es[i].op = "CREATE"
                           /\ es[i].part = clause.parts[i]
    BY <1>1 DEF Event
  <2> HIDE DEF es
  <2> QED BY <2>1, <2>2, SeqIs DEF Members
<1> HIDE DEF es, n
<1>5. \A i \in 1 .. n : PlacedBy(es[i]) = PlacedAt(after[i].row.at, clause.parts[i])
  BY <1>4 DEF PlacedBy
<1> DEFINE C(i) == after[i].params.counts
           R(i) == Coming \cup PlacedIn(New(i))
<1>6. ASSUME NEW i \in 1 .. n, PairsOK(C(i - 1))
      PROVE  /\ PairsOK(C(i))
             /\ NamedHop(clause.parts[i]) => NamedAhead
             /\ ~NamedHop(clause.parts[i]) => C(i) = C(i - 1) /\ PlacedBy(es[i]) = {}
             /\ NamedHop(clause.parts[i]) /\ Chained(C(i - 1), R(i - 1)) =>
                   /\ Chained(C(i), R(i - 1) \cup PlacedBy(es[i]))
                   /\ \A id \in PlacedBy(es[i]) : LowerIn(id, R(i - 1))
  <2> DEFINE q == after[i - 1]
             t == after[i]
             part == clause.parts[i]
             T == R(i - 1)
  <2>1. /\ BothOK(q) /\ q.params.nextV \in Nat /\ PairsOK(q.params.counts)
        /\ part \in AllParts /\ t = CreatePart(q, part) /\ PlacedBy(es[i]) = PlacedAt(t.row.at, part)
    BY <1>2, <1>5, <1>6
  <2>2. NamedHop(part) => NamedAhead
    BY <1>1, <1>2, OneNamesHop DEF NamedAhead
  <2> HIDE DEF q, t, part, T
  <2>3. /\ PairsOK(t.params.counts)
        /\ ~NamedHop(part) => t.params.counts = q.params.counts /\ PlacedAt(t.row.at, part) = {}
        /\ NamedHop(part) =>
                 /\ part.hop \in DOMAIN t.row.at
                 /\ t.row.at[part.hop][1] = "e" => PlacedAt(t.row.at, part) = {t.row.at[part.hop]}
                 /\ \A Q : Chained(q.params.counts, Q) =>
                       /\ Chained(t.params.counts, Q \cup PlacedAt(t.row.at, part))
                       /\ \A id \in PlacedAt(t.row.at, part) : LowerIn(id, Q)
    BY <2>1, PartPlaces
  <2>4. NamedHop(part) /\ Chained(q.params.counts, T) =>
                   /\ Chained(t.params.counts, T \cup PlacedBy(es[i]))
                   /\ \A id \in PlacedBy(es[i]) : LowerIn(id, T)
    BY <2>1, <2>3
  <2> QED BY <2>1, <2>2, <2>3, <2>4 DEF q, t, part, T
<1>7. \A i \in 1 .. n : R(i) = R(i - 1) \cup PlacedBy(es[i])
  <2> SUFFICES ASSUME NEW i \in 1 .. n PROVE R(i) = R(i - 1) \cup PlacedBy(es[i])
    OBVIOUS
  <2>1. 1 .. i = (1 .. (i - 1)) \cup {i}
    BY <1>2
  <2>2. New(i) = New(i - 1) \cup {es[i]}
    BY <2>1
  <2> HIDE DEF New
  <2>3. PlacedIn(New(i)) = PlacedIn(New(i - 1)) \cup PlacedIn({es[i]})
    BY <2>2, PlacedInBoth
  <2>4. PlacedIn({es[i]}) = PlacedBy(es[i])
    BY DEF PlacedIn
  <2> QED BY <2>3, <2>4
<1>8. R(0) = Coming
  <2>1. New(0) = {}
    OBVIOUS
  <2> QED BY <2>1 DEF PlacedIn
<1> HIDE DEF R
<1> DEFINE S == {i \in 0 .. n : PairsOK(C(i)) /\ (NamedAhead => Chained(C(i), R(i)))}
<1>9. 0 .. n \subseteq S
  <2>1. 0 \in S
    <3>1. C(0) = params.counts /\ 0 \in 0 .. n /\ mode # "idle"
      BY <1>2, <1>3
    <3> HIDE DEF C
    <3> QED BY <1>8, <3>1 DEF ChainInv
  <2>2. ASSUME NEW i \in 1 .. n, i - 1 \in S PROVE i \in S
    <3>1. PairsOK(C(i - 1)) /\ (NamedAhead => Chained(C(i - 1), R(i - 1))) /\ i \in 0 .. n
      BY <1>2, <2>2
    <3>2. /\ PairsOK(C(i))
          /\ NamedHop(clause.parts[i]) => NamedAhead
          /\ ~NamedHop(clause.parts[i]) => C(i) = C(i - 1) /\ PlacedBy(es[i]) = {}
          /\ NamedHop(clause.parts[i]) /\ Chained(C(i - 1), R(i - 1)) =>
                /\ Chained(C(i), R(i - 1) \cup PlacedBy(es[i]))
                /\ \A id \in PlacedBy(es[i]) : LowerIn(id, R(i - 1))
      BY <1>6, <3>1
    <3> HIDE DEF C
    <3>3. NamedAhead => Chained(C(i), R(i))
      <4>1. CASE NamedHop(clause.parts[i]) BY <1>7, <3>1, <3>2, <4>1
      <4>2. CASE ~NamedHop(clause.parts[i]) BY <1>7, <3>1, <3>2, <4>2
      <4> QED BY <4>1, <4>2
    <3> QED BY <3>1, <3>2, <3>3
  <2> HIDE DEF S
  <2> QED BY <1>2, <2>1, <2>2, AfterEachPart DEF n
<1>10. PairsOK(p.counts) /\ (NamedAhead => Chained(p.counts, Coming \cup PlacedIn(Members(es))))
  <2>1. n \in 0 .. n
    BY <1>2
  <2> QED BY <1>4, <1>9, <2>1 DEF R
<1>11. \A i \in 1 .. n : \A id \in PlacedBy(es[i]) : LowerIn(id, Coming \cup PlacedIn(New(i - 1)))
  <2> SUFFICES ASSUME NEW i \in 1 .. n, NEW id \in PlacedBy(es[i]) PROVE LowerIn(id, R(i - 1))
    BY DEF R
  <2>1. i - 1 \in 0 .. n
    BY <1>2
  <2>2. PairsOK(C(i - 1)) /\ (NamedAhead => Chained(C(i - 1), R(i - 1)))
    BY <1>9, <2>1
  <2> HIDE DEF C
  <2>3. NamedHop(clause.parts[i]) /\ NamedAhead
    BY <1>6, <2>2
  <2> QED BY <1>6, <2>2, <2>3
<1> HIDE DEF p
<1>12. \A i \in 1 .. Len(es) : \A id \in PlacedBy(es[i]) :
          LowerIn(id, Coming \cup PlacedIn({es[j] : j \in 1 .. (i - 1)}))
  BY <1>4, <1>11
<1> QED BY <1>1, <1>4, <1>10, <1>12, ChainRowDone

\* The event that is to make an edge makes it: its number is the first that is free.
LEMMA PlacedIsMade ==
    ASSUME NEW s, TxOK(s), NEW n, NEW e, NamesOK(e.at), e.part \in AllParts, NEW c \in Created(s, n, e),
           NEW id \in PlacedBy(e), LowerIn(id, DOMAIN s.edges)
    PROVE  id \in DOMAIN c.s.edges
<1> DEFINE x == e.part.left.var
           y == e.part.right.var
<1>1. /\ IsHop(e.part) /\ x \in DOMAIN e.at /\ y \in DOMAIN e.at
      /\ id = EdgeId(e.at[x], e.at[y], id[4])
  BY DEF PlacedBy, PlacedAt, NamedHop
<1>2. PICK a, b : \E k \in CreateNumbers(s, a, b) :
         /\ DOMAIN c.s.edges = DOMAIN s.edges \cup {EdgeId(a, b, k)}
         /\ a = e.at[x] /\ b = e.at[y]
  <2>1. IsHop(e.part) => \E a, b : \E k \in CreateNumbers(s, a, b) :
                 /\ DOMAIN c.s.edges = DOMAIN s.edges \cup {EdgeId(a, b, k)}
                 /\ {a, b} \subseteq DOMAIN c.s.labels
                 /\ x \in DOMAIN e.at => a = e.at[x]
                 /\ y \in DOMAIN e.at => b = e.at[y]
    BY CreatedIs
  <2> QED BY <1>1, <2>1
<1>3. PICK k \in CreateNumbers(s, a, b) : DOMAIN c.s.edges = DOMAIN s.edges \cup {EdgeId(a, b, k)}
                                         /\ a = e.at[x] /\ b = e.at[y]
  BY <1>2
<1> DEFINE K == id[4]
<1>4. id = EdgeId(a, b, K) /\ id[2] = a /\ id[3] = b
  BY <1>1, <1>3, EdgeIdParts
<1>5. K \in Nat \ {1} /\ \A m \in (0 .. (K - 1)) \ {1} : EdgeId(a, b, m) \in DOMAIN s.edges
  BY <1>4 DEF LowerIn
<1> HIDE DEF K
<1>6. EdgeId(a, b, K) \in DOMAIN s.edges \cup {EdgeId(a, b, k)}
  BY <1>5, TakesNumber
<1> QED BY <1>3, <1>4, <1>6

LEMMA ChainApplyCreate == TypeInv /\ ChainInv /\ ApplyCreate =>
    ChainInv' /\ PlacedBy(Head(events)) \subseteq DOMAIN tx'.edges /\ Coming \subseteq Coming'
<1> SUFFICES ASSUME TypeInv, ChainInv, ApplyCreate
             PROVE  ChainInv' /\ PlacedBy(Head(events)) \subseteq DOMAIN tx'.edges /\ Coming \subseteq Coming'
  OBVIOUS
<1>1. /\ mode = "apply" /\ clause.op = "CREATE" /\ events # <<>> /\ events' = Tail(events)
      /\ UNCHANGED <<clauses, clause, params, mode>>
  BY DEF ApplyCreate, Applied
<1>2. PICK e : e = Head(events)
  OBVIOUS
<1>3. PICK c \in Created(tx, scratch.autoV, e) : tx' = c.s
  BY <1>2 DEF ApplyCreate, Applied
<1>4. NamesOK(e.at) /\ e.part \in AllParts /\ TxOK(tx) /\ IsSeq(events)
  BY <1>1, <1>2, HeadIs DEF EventOK, Deletes, TypeInv, EventsOK
<1>5. /\ IsSeq(events') /\ Len(events') = Len(events) - 1 /\ Len(events) > 0 /\ e = events[1]
      /\ \A i \in 1 .. Len(events) - 1 : events'[i] = events[i + 1]
      /\ Members(events) = {e} \cup Members(events')
      /\ DOMAIN events = 1 .. Len(events) /\ DOMAIN events' = 1 .. Len(events) - 1 /\ Len(events) \in Nat
  <2>1. /\ IsSeq(Tail(events)) /\ Len(Tail(events)) = Len(events) - 1 /\ Len(events) > 0
        /\ Head(events) = events[1]
        /\ \A i \in 1 .. Len(events) - 1 : Tail(events)[i] = events[i + 1]
        /\ Members(events) = {Head(events)} \cup Members(Tail(events))
    BY <1>1, <1>4, TailIs
  <2> QED BY <1>1, <1>2, <1>4, <2>1 DEF IsSeq
<1>6. DOMAIN tx.edges \subseteq DOMAIN tx'.edges
  <2>1. Adds(tx, tx')
    BY <1>4, ApplyStepAdds DEF ApplyAdds, TxOK
  <2> QED BY <2>1 DEF Adds, Keeps
<1>7. PlacedBy(e) \subseteq DOMAIN tx'.edges
  <2> SUFFICES ASSUME NEW id \in PlacedBy(e) PROVE id \in DOMAIN tx'.edges
    OBVIOUS
  <2>1. Ready(1) = DOMAIN tx.edges
    <3>1. {k \in DOMAIN events : k < 1} = {}
      BY <1>5
    <3> QED BY <3>1 DEF Ready, PlacedIn
  <2>2. LowerIn(id, DOMAIN tx.edges)
    <3>1. 1 \in DOMAIN events
      BY <1>5
    <3> QED BY <1>5, <2>1, <3>1 DEF ChainInv
  <2> QED BY <1>3, <1>4, <2>2, PlacedIsMade
<1>8. Coming \subseteq Coming'
  <2>1. Coming = DOMAIN tx.edges \cup PlacedIn({e}) \cup PlacedIn(Members(events'))
    BY <1>5, PlacedInBoth DEF Coming
  <2>2. Coming' = DOMAIN tx'.edges \cup PlacedIn(Members(events'))
    BY DEF Coming
  <2>3. PlacedIn({e}) = PlacedBy(e)
    BY DEF PlacedIn
  <2> QED BY <1>6, <1>7, <2>1, <2>2, <2>3
<1>9. NamedAhead' <=> NamedAhead
  BY <1>1 DEF NamedAhead
<1>10. ASSUME NEW i \in DOMAIN events', NEW id \in PlacedBy(events'[i]) PROVE LowerIn(id, Ready(i)')
  <2>1. i + 1 \in DOMAIN events /\ events'[i] = events[i + 1]
    BY <1>5
  <2>2. LowerIn(id, Ready(i + 1))
    BY <1>10, <2>1 DEF ChainInv
  <2> DEFINE E == {events[j] : j \in {k \in DOMAIN events : k < i + 1}}
             F == {events'[j] : j \in {k \in DOMAIN events' : k < i}}
  <2>3. E \subseteq {e} \cup F
    <3> SUFFICES ASSUME NEW j \in DOMAIN events, j < i + 1 PROVE events[j] \in {e} \cup F
      OBVIOUS
    <3>1. CASE j = 1 BY <1>5, <3>1
    <3>2. CASE j # 1
      <4>1. j - 1 \in DOMAIN events' /\ j - 1 < i /\ (j - 1) + 1 = j
        BY <1>5, <3>2
      <4>2. events'[j - 1] = events[j]
        BY <1>5, <4>1
      <4> QED BY <4>1, <4>2
    <3> QED BY <3>1, <3>2
  <2>4. Ready(i + 1) = DOMAIN tx.edges \cup PlacedIn(E) /\ Ready(i)' = DOMAIN tx'.edges \cup PlacedIn(F)
    BY DEF Ready
  <2> HIDE DEF E, F
  <2>5. PlacedIn(E) \subseteq PlacedBy(e) \cup PlacedIn(F)
    BY <2>3 DEF PlacedIn
  <2>6. Ready(i + 1) \subseteq Ready(i)'
    BY <1>6, <1>7, <2>4, <2>5
  <2> QED BY <2>2, <2>6, LowerInMore
<1>11. PairsOK(params'.counts)
  BY <1>1 DEF ChainInv
<1>12. mode' # "idle" /\ NamedAhead' => Chained(params'.counts, Coming')
  BY <1>1, <1>8, <1>9, LowerInMore DEF ChainInv
<1> QED BY <1>2, <1>7, <1>8, <1>10, <1>11, <1>12 DEF ChainInv

\* MERGE and DELETE count no edge in the rows they do.
LEMMA RowCountsNothing ==
    ASSUME TypeInv, mode = "rows", NEW row \in input, MaterializeMerge(row) \/ MaterializeDelete(row)
    PROVE  params'.counts = params.counts /\ clause.op # "CREATE"
           /\ UNCHANGED <<tx, clauses, clause, mode>>
<1> DEFINE r == [row |-> row, params |-> params]
<1>1. BothOK(r) /\ r.params = params
  BY NextRow
<1> HIDE DEF r
<1>2. CASE MaterializeMerge(row)
  <2>1. CASE IsHop(clause.parts[1])
    BY <1>2, <2>1 DEF MaterializeMerge, RowDone
  <2>2. CASE ~IsHop(clause.parts[1])
    <3>1. PICK m \in MergeNode(tx, r, clause.parts[1].left) : params' = m.params
      BY <1>2, <2>2 DEF MaterializeMerge, RowDone, r
    <3>2. m.params.counts = params.counts
      BY <1>1, <3>1, MergeNodeTakes DEF TakesNothing
    <3> QED BY <1>2, <2>2, <3>1, <3>2 DEF MaterializeMerge, RowDone
  <2> QED BY <2>1, <2>2
<1>3. CASE MaterializeDelete(row)
  <2>1. params' = Tombstones(tx, r, clause.vars).params /\ UNCHANGED <<tx, clauses, clause, mode>>
    BY <1>3 DEF MaterializeDelete, RowDone, r
  <2>2. params'.counts = params.counts
    BY <1>1, <2>1, TombstonesTakes DEF TakesNothing
  <2> QED BY <1>3, <2>1, <2>2 DEF MaterializeDelete, Deletes
<1> QED BY <1>2, <1>3

LEMMA ChainStep ==
    TypeInv /\ PastInv /\ OrderInv(HopsFirst) /\ ChainInv /\ [Next]_vars => ChainInv'
<1> SUFFICES ASSUME TypeInv, PastInv, OrderInv(HopsFirst), ChainInv, [Next]_vars PROVE ChainInv'
  OBVIOUS
<1>0. TypeInv'
  BY TypeStep
<1>1. CASE UNCHANGED vars
  BY <1>1 DEF vars, ChainInv, NamedAhead, Coming, Ready, Members
<1>2. CASE Begin
  <2>1. params'.counts = Nothing /\ events' = <<>>
    BY <1>2 DEF Begin, NewParams
  <2>2. PairsOK(Nothing) /\ Chained(Nothing, DOMAIN tx'.edges)
    BY DEF PairsOK, Nothing, Chained
  <2> QED BY <1>0, <2>1, <2>2, ChainStays
<1>3. CASE ExecuteMatch \/ ExecuteWrite
  <2>1. /\ ClauseBegins /\ UNCHANGED <<tx, params>> /\ mode = "clause" /\ events = <<>> /\ events' = <<>>
    BY <1>3 DEF ExecuteMatch, ExecuteWrite, ClauseBegins, TypeInv, RequestOK
  <2>2. Members(clauses) = {clause'} \cup Members(clauses')
    BY <2>1, ClauseBeginsIs
  <2>3. NamedAhead' => NamedAhead
    BY <2>2 DEF NamedAhead
  <2>4. Coming = DOMAIN tx.edges
    BY <2>1, NothingPlaced
  <2>5. PairsOK(params'.counts) /\ (NamedAhead' => Chained(params'.counts, DOMAIN tx'.edges))
    BY <2>1, <2>3, <2>4 DEF ChainInv
  <2> QED BY <1>0, <2>1, <2>5, ChainStays
<1>4. CASE MaterializeRow
  <2>1. PICK row \in input : MaterializeCreate(row) \/ MaterializeMerge(row) \/ MaterializeDelete(row)
    BY <1>4 DEF MaterializeRow
  <2>2. mode = "rows"
    BY <1>4 DEF MaterializeRow
  <2>3. CASE MaterializeCreate(row)
    BY <2>2, <2>3, ChainCreate
  <2>4. CASE MaterializeMerge(row) \/ MaterializeDelete(row)
    <3>1. params'.counts = params.counts /\ clause.op # "CREATE"
          /\ UNCHANGED <<tx, clauses, clause, mode>>
      BY <2>2, <2>4, RowCountsNothing
    <3>2. Coming = DOMAIN tx.edges
      BY <2>2, <3>1, NothingPlaced
    <3>3. PairsOK(params'.counts) /\ (NamedAhead' => Chained(params'.counts, DOMAIN tx'.edges))
      BY <2>2, <3>1, <3>2 DEF ChainInv, NamedAhead
    <3> QED BY <1>0, <2>2, <3>1, <3>3, ChainStays
  <2> QED BY <2>1, <2>3, <2>4
<1>5. CASE RowsDone
  <2>1. mode = "rows" /\ mode' = "apply" /\ UNCHANGED <<tx, clauses, clause, params, events>>
    BY <1>5 DEF RowsDone
  <2>2. (NamedAhead' <=> NamedAhead) /\ Coming' = Coming /\ \A i : Ready(i)' = Ready(i)
    BY <2>1 DEF NamedAhead, Coming, Ready, Members
  <2> QED BY <2>1, <2>2 DEF ChainInv
<1>6. CASE EndClause
  <2>1. mode = "apply" /\ mode' = "clause" /\ events = <<>> /\ events' = <<>>
        /\ UNCHANGED <<tx, clauses, clause, params>>
    BY <1>6 DEF EndClause
  <2>2. (NamedAhead' => NamedAhead) /\ Coming = DOMAIN tx.edges
    BY <2>1, NothingPlaced DEF NamedAhead
  <2>3. PairsOK(params'.counts) /\ (NamedAhead' => Chained(params'.counts, DOMAIN tx'.edges))
    BY <2>1, <2>2 DEF ChainInv
  <2> QED BY <1>0, <2>1, <2>3, ChainStays
<1>7. CASE ApplyCreate
  BY <1>7, ChainApplyCreate
<1>8. CASE ApplyMergeVertex \/ ApplyMergeBatch \/ ApplyMergeSimple \/ ApplyMergeEdge \/ ApplyMergeNothing
  <2>1. /\ mode = "apply" /\ mode' = "apply" /\ clause.op = "MERGE"
        /\ UNCHANGED <<clauses, clause, params>>
    BY <1>8 DEF ApplyMergeVertex, ApplyMergeBatch, ApplyMergeSimple, ApplyMergeEdge, ApplyMergeNothing, Applied
  <2>2. Adds(tx, tx')
    BY <1>8, ApplyStepAdds DEF ApplyAdds, TypeInv, TxOK
  <2>3. Coming = DOMAIN tx.edges /\ DOMAIN tx.edges \subseteq DOMAIN tx'.edges
    BY <2>1, <2>2, NothingPlaced DEF Adds, Keeps
  <2>4. NamedAhead' <=> NamedAhead
    BY <2>1 DEF NamedAhead
  <2>5. PairsOK(params'.counts) /\ (NamedAhead' => Chained(params'.counts, DOMAIN tx'.edges))
    BY <2>1, <2>3, <2>4, LowerInMore DEF ChainInv
  <2> QED BY <1>0, <2>1, <2>5, ChainStays
<1>9. CASE ApplyDelete
  <2>1. /\ mode = "apply" /\ mode' = "apply" /\ Deletes(clause) /\ events' = <<>>
        /\ UNCHANGED <<clauses, clause, params>>
    BY <1>9 DEF ApplyDelete
  <2>2. clause.op # "MATCH" /\ clause.op # "CREATE"
    BY <2>1 DEF Deletes
  <2>3. \A d \in Members(clauses) : ~(d.op = "CREATE" /\ NamesHop(d))
    BY <2>1, <2>2 DEF OrderInv, HopsFirst
  <2>4. ~NamedAhead'
    BY <2>1, <2>2, <2>3 DEF NamedAhead
  <2>5. PairsOK(params'.counts)
    BY <2>1 DEF ChainInv
  <2> QED BY <1>0, <2>1, <2>4, <2>5, ChainStays
<1>10. CASE Commit \/ Fail
  <2>1. mode' = "idle" /\ events' = <<>> /\ params' = params
    BY <1>10 DEF Commit, Fail, TypeInv, RequestOK
  <2>2. PairsOK(params'.counts)
    BY <2>1 DEF ChainInv
  <2> QED BY <1>0, <2>1, <2>2, ChainStays
<1> QED BY <1>1, <1>2, <1>3, <1>4, <1>5, <1>6, <1>7, <1>8, <1>9, <1>10 DEF Next

---------------------------------------------------------------------------
(* A row of a CREATE has for its relationship an id that is there or is    *)
(* placed, and for a node of its own a vertex with the label, or a new id  *)
(* that no event binds before the one that is to make it.                  *)

NewNode(v, part, V, es) ==
    /\ v[1] = "write-v" /\ v \notin V
    /\ \E j \in DOMAIN es :
          /\ es[j].part = part
          /\ part.left.var \in DOMAIN es[j].at /\ es[j].at[part.left.var] = v
          /\ \A k \in 1 .. (j - 1) : v \notin VertexBound(es[k].at)
HopComing(row, part) ==
    NamedHop(part) /\ row.at[part.hop][1] = "e" =>
        PlacedAt(row.at, part) = {row.at[part.hop]} /\ row.at[part.hop] \in Coming
NodeComing(row, part) ==
    ~IsHop(part) /\ part.left.var # Anon =>
        \/ row.at[part.left.var] \in Labelled(tx, part.left.label)
        \/ NewNode(row.at[part.left.var], part, DOMAIN tx.labels, events)

ComingInv ==
    mode # "idle" /\ clause.op = "CREATE" =>
        \A row \in rows : \A i \in DOMAIN clause.parts :
            HopComing(row, clause.parts[i]) /\ NodeComing(row, clause.parts[i])

\* No part of a CREATE gives what an earlier part or the row has.
LEMMA CreateNamesFree ==
    ASSUME TypeInv, PastInv, NamesApart, mode = "rows", clause.op = "CREATE", NEW row \in input,
           FreeFor(row, clause)
    PROVE  LET n == Len(clause.parts)
               after == CreatedAfter([row |-> row, params |-> params], clause.parts)
           IN  \A i \in 1 .. n : Gives(clause.parts[i]) \cap DOMAIN after[i - 1].row.at = {}
<1> DEFINE n == Len(clause.parts)
           r == [row |-> row, params |-> params]
           after == CreatedAfter(r, clause.parts)
<1>1. /\ n \in Nat /\ DOMAIN clause.parts = 1 .. n /\ after[0] = r
      /\ \A i \in 1 .. n : /\ BothOK(after[i - 1])
                           /\ after[i] = CreatePart(after[i - 1], clause.parts[i])
                           /\ clause.parts[i] \in AllParts
  <2>1. TypeInv /\ PastInv /\ mode = "rows" /\ clause.op = "CREATE" /\ row \in input
    OBVIOUS
  <2> QED BY ONLY <2>1, CreateSteps
<1>2. r.row = row /\ clause \in AllClauses
  BY NextRow
<1> HIDE DEF after, n, r
<1>3. \A i \in 1 .. n : Gives(clause.parts[i]) \subseteq GivenBy(clause)
  BY <1>1 DEF GivenBy
<1>4. \A i, k \in 1 .. n : k < i => PartBinds(clause.parts[k]) \cap Gives(clause.parts[i]) = {}
  BY <1>1, <1>2 DEF NamesApart
<1>5. ASSUME NEW k \in 1 .. n
      PROVE  DOMAIN after[k].row.at = DOMAIN after[k - 1].row.at \cup PartBinds(clause.parts[k])
  BY <1>1, CreatePartOK
<1> DEFINE S == {k \in 0 .. n : \A i \in 1 .. n : k < i => Gives(clause.parts[i]) \cap DOMAIN after[k].row.at = {}}
<1>6. 0 \in S
  BY <1>1, <1>2, <1>3 DEF FreeFor
<1>7. ASSUME NEW k \in 1 .. n, k - 1 \in S PROVE k \in S
  <2>1. k \in 0 .. n /\ \A i \in 1 .. n : k < i => k - 1 < i
    BY <1>1
  <2> QED BY <1>4, <1>5, <1>7, <2>1
<1> HIDE DEF S
<1>8. 0 .. n \subseteq S
  BY <1>1, <1>6, <1>7, AfterEachPart DEF n
<1>9. \A i \in 1 .. n : Gives(clause.parts[i]) \cap DOMAIN after[i - 1].row.at = {}
  <2>1. \A i \in 1 .. n : i - 1 \in 0 .. n /\ i - 1 < i
    BY <1>1
  <2> QED BY <1>8, <2>1 DEF S
<1> QED BY <1>9 DEF after, n, r

LEMMA PartKeeps ==
    ASSUME NEW r, BothOK(r), NEW part \in AllParts, NEW t, t = CreatePart(r, part)
    PROVE  /\ BothOK(t) /\ Continues(r, t)
           /\ DOMAIN t.row.at = DOMAIN r.row.at \cup PartBinds(part)
           /\ \A x \in DOMAIN r.row.at :
                 (IsHop(part) => x # part.hop) => t.row.at[x] = r.row.at[x]
BY CreatePartOK

\* What a part binds stays.
LEMMA CreateKeepsNames ==
    ASSUME TypeInv, PastInv, NamesApart, mode = "rows", clause.op = "CREATE", NEW row \in input
    PROVE  LET n == Len(clause.parts)
               after == CreatedAfter([row |-> row, params |-> params], clause.parts)
           IN  \A i \in 1 .. n : \A x \in PartBinds(clause.parts[i]) :
                  /\ x \in DOMAIN after[i].row.at /\ x \in DOMAIN after[n].row.at
                  /\ after[n].row.at[x] = after[i].row.at[x]
<1> DEFINE n == Len(clause.parts)
           r == [row |-> row, params |-> params]
           after == CreatedAfter(r, clause.parts)
<1>1. /\ n \in Nat /\ DOMAIN clause.parts = 1 .. n
      /\ \A i \in 1 .. n : /\ BothOK(after[i - 1])
                           /\ after[i] = CreatePart(after[i - 1], clause.parts[i])
                           /\ clause.parts[i] \in AllParts
  <2>1. TypeInv /\ PastInv /\ mode = "rows" /\ clause.op = "CREATE" /\ row \in input
    OBVIOUS
  <2> QED BY ONLY <2>1, CreateSteps
<1>2. clause \in AllClauses
  BY NextRow
<1> HIDE DEF after, n, r
<1>3. \A i, k \in 1 .. n : i < k => PartBinds(clause.parts[i]) \cap Gives(clause.parts[k]) = {}
  BY <1>1, <1>2 DEF NamesApart
<1>4. ASSUME NEW k \in 1 .. n
      PROVE  /\ DOMAIN after[k].row.at = DOMAIN after[k - 1].row.at \cup PartBinds(clause.parts[k])
             /\ \A x \in DOMAIN after[k - 1].row.at :
                   (IsHop(clause.parts[k]) => x # clause.parts[k].hop) =>
                       after[k].row.at[x] = after[k - 1].row.at[x]
  <2>1. BothOK(after[k - 1]) /\ clause.parts[k] \in AllParts
        /\ after[k] = CreatePart(after[k - 1], clause.parts[k])
    BY <1>1
  <2> QED BY <2>1, PartKeeps
<1>5. ASSUME NEW i \in 1 .. n, NEW x \in PartBinds(clause.parts[i])
      PROVE  /\ x \in DOMAIN after[i].row.at /\ x \in DOMAIN after[n].row.at
             /\ after[n].row.at[x] = after[i].row.at[x]
  <2> DEFINE S == {k \in 0 .. n : i <= k => x \in DOMAIN after[k].row.at /\ after[k].row.at[x] = after[i].row.at[x]}
  <2>1. x \in DOMAIN after[i].row.at /\ x # Anon
    BY <1>4 DEF PartBinds
  <2>2. 0 \in S
    BY <1>1
  <2>3. ASSUME NEW k \in 1 .. n, k - 1 \in S PROVE k \in S
    <3>1. k \in 0 .. n /\ k - 1 \in 0 .. n /\ (k = i \/ k < i \/ (i < k /\ i <= k - 1))
      BY <1>1
    <3>2. CASE k = i BY <2>1, <3>1, <3>2
    <3>3. CASE k < i BY <1>1, <3>1, <3>3
    <3>4. CASE i < k /\ i <= k - 1
      <4>1. x \in DOMAIN after[k - 1].row.at /\ after[k - 1].row.at[x] = after[i].row.at[x]
        BY <2>3, <3>4
      <4>2. x \notin Gives(clause.parts[k])
        BY <1>3, <3>4
      <4>3. IsHop(clause.parts[k]) => x # clause.parts[k].hop
        BY <2>1, <4>2 DEF Gives
      <4> QED BY <1>4, <3>1, <4>1, <4>3
    <3> QED BY <3>1, <3>2, <3>3, <3>4
  <2> HIDE DEF S
  <2>4. 0 .. n \subseteq S
    BY <1>1, <2>2, <2>3, AfterEachPart DEF n
  <2>5. n \in 0 .. n /\ i <= n
    BY <1>1
  <2> QED BY <2>1, <2>4, <2>5 DEF S
<1> QED BY <1>5 DEF after, n, r

\* v is an id that neither the state nor a row before the i-th has
NowhereYet(v, i, after) ==
    v[1] = "write-v" /\ v \notin Seen /\ \A k \in 1 .. (i - 1) : v \notin VertexBound(after[k].row.at)

\* The vertex a CREATE gives a node of its own has an id that is nowhere yet.
LEMMA CreateIsNew ==
    ASSUME TypeInv, PastInv, NamesApart, mode = "rows", clause.op = "CREATE", NEW row \in input,
           FreeFor(row, clause)
    PROVE  LET n == Len(clause.parts)
               after == CreatedAfter([row |-> row, params |-> params], clause.parts)
           IN  \A i \in 1 .. n :
                  ~IsHop(clause.parts[i]) /\ clause.parts[i].left.var # Anon =>
                     NowhereYet(after[i].row.at[clause.parts[i].left.var], i, after)
<1> DEFINE n == Len(clause.parts)
           r == [row |-> row, params |-> params]
           after == CreatedAfter(r, clause.parts)
<1>1. /\ n \in Nat /\ DOMAIN clause.parts = 1 .. n /\ after[0] = r
      /\ \A i \in 1 .. n : /\ BothOK(after[i - 1]) /\ after[i - 1].params.nextV \in Nat
                           /\ after[i] = CreatePart(after[i - 1], clause.parts[i])
                           /\ clause.parts[i] \in AllParts
      /\ \A i, j \in 0 .. n : j <= i => TakesMore(after[j], after[i])
      /\ \A i \in 0 .. n : Continues(r, after[i]) /\ BothOK(after[i])
  <2>1. TypeInv /\ PastInv /\ mode = "rows" /\ clause.op = "CREATE" /\ row \in input
    OBVIOUS
  <2> QED BY ONLY <2>1, CreateSteps
<1>2. \A i \in 1 .. n : Gives(clause.parts[i]) \cap DOMAIN after[i - 1].row.at = {}
  BY CreateNamesFree
<1>3. r.row = row /\ r.params = params
  OBVIOUS
<1>4. /\ params.nextV \in Nat /\ params.nth \in Nat
      /\ \A v \in Seen : Past(v, params)
  <2>1. Len(todo) \in Nat
    BY DEF TypeInv, RequestOK, IsSeq
  <2> QED BY <2>1 DEF PastInv
<1> HIDE DEF after, n, r
<1>5. ASSUME NEW i \in 1 .. n, ~IsHop(clause.parts[i]), clause.parts[i].left.var # Anon
      PROVE  NowhereYet(after[i].row.at[clause.parts[i].left.var], i, after)
  <2> DEFINE q == after[i - 1]
             t == after[i]
             part == clause.parts[i]
             x == part.left.var
             v == t.row.at[x]
             p == q.params
  <2>1. /\ BothOK(q) /\ part \in AllParts /\ t = CreatePart(q, part)
        /\ x \notin DOMAIN q.row.at
    BY <1>1, <1>2, <1>5 DEF Gives
  <2>2. i - 1 \in 0 .. n /\ i \in 0 .. n /\ i - 1 <= i /\ 0 <= i - 1 /\ 0 \in 0 .. n
    BY <1>1
  <2>3. TakesMore(q, t) /\ TakesMore(r, q) /\ p.nextV \in Nat
    BY <1>1, <2>2
  <2>4. p.nth = params.nth /\ p.nextV >= params.nextV
    BY <1>3, <2>3 DEF TakesMore
  <2> HIDE DEF q, t, part
  <2>5. x \in DOMAIN t.row.at \ HopNames
    <3>1. DOMAIN t.row.at = DOMAIN q.row.at \cup PartBinds(part)
      BY <2>1, PartKeeps
    <3>2. x \in PartBinds(part)
      BY <1>5 DEF PartBinds, NodesOf, part
    <3>3. x \notin HopNames
      BY <2>1, PartNames DEF NodesOf
    <3> QED BY <3>1, <3>2, <3>3
  <2>6. PICK m \in Nat : m > p.nextV /\ v = WriteVertex(p.nth, m)
    BY <2>1, <2>3, <2>5 DEF TakesMore
  <2> HIDE DEF v, p
  <2>7. ~Past(v, p)
    BY <1>4, <2>3, <2>4, <2>6, NotPast
  <2>8. v \notin Seen
    BY <1>4, <2>3, <2>4, <2>7, PastLater
  <2>9. ASSUME NEW k \in 1 .. (i - 1), v \in VertexBound(after[k].row.at) PROVE FALSE
    <3>1. k \in 0 .. n /\ k <= i - 1 /\ 0 <= k
      BY <1>1
    <3>2. TakesMore(r, after[k]) /\ TakesMore(after[k], q) /\ Continues(r, after[k])
      BY <1>1, <2>2, <3>1 DEF q
    <3>3. PICK y \in DOMAIN after[k].row.at \ HopNames : v = after[k].row.at[y]
      BY <2>9 DEF VertexBound
    <3>4. CASE y \in DOMAIN row.at
      <4>1. v = row.at[y]
        BY <1>3, <3>2, <3>3, <3>4 DEF Continues
      <4>2. v \in VertexBound(row.at)
        BY <3>3, <3>4, <4>1 DEF VertexBound
      <4> QED BY <2>8, <4>2 DEF Seen, BoundIn
    <3>5. CASE y \notin DOMAIN row.at
      <4>1. PICK j \in Nat : j > params.nextV /\ j <= after[k].params.nextV /\ v = WriteVertex(params.nth, j)
        BY <1>3, <3>2, <3>3, <3>5 DEF TakesMore
      <4>2. j <= p.nextV /\ j > 0
        <5>1. after[k].params.nextV \in Nat /\ p.nextV >= after[k].params.nextV
          BY <3>2 DEF TakesMore, p
        <5> QED BY <1>4, <2>3, <4>1, <5>1
      <4> QED BY <1>4, <2>3, <2>4, <2>7, <4>1, <4>2, TakenPast
    <3> QED BY <3>4, <3>5
  <2>10. v[1] = "write-v"
    BY <2>6 DEF WriteVertex
  <2>11. NowhereYet(v, i, after)
    BY <2>8, <2>9, <2>10 DEF NowhereYet
  <2> QED BY <2>11 DEF v, t, part
<1>6. \A i \in 1 .. n :
         ~IsHop(clause.parts[i]) /\ clause.parts[i].left.var # Anon =>
            NowhereYet(after[i].row.at[clause.parts[i].left.var], i, after)
  BY <1>5
<1> QED BY <1>6 DEF after, n, r

\* the row at the end, t, has the id the event of the part, with the names at, is to make
SamePlace(at, t, part) ==
    NamedHop(part) /\ t[part.hop][1] = "e" =>
        PlacedAt(at, part) = {t[part.hop]} /\ PlacedAt(t, part) = {t[part.hop]}

LEMMA CreatePlaces ==
    ASSUME TypeInv, PastInv, ChainInv, NamesApart, mode = "rows", clause.op = "CREATE", NEW row \in input
    PROVE  LET n == Len(clause.parts)
               after == CreatedAfter([row |-> row, params |-> params], clause.parts)
           IN  \A i \in 1 .. n : SamePlace(after[i].row.at, after[n].row.at, clause.parts[i])
<1> DEFINE n == Len(clause.parts)
           r == [row |-> row, params |-> params]
           after == CreatedAfter(r, clause.parts)
           C(i) == after[i].params.counts
<1>1. /\ n \in Nat /\ DOMAIN clause.parts = 1 .. n /\ after[0] = r
      /\ \A i \in 1 .. n : /\ BothOK(after[i - 1]) /\ after[i - 1].params.nextV \in Nat
                           /\ after[i] = CreatePart(after[i - 1], clause.parts[i])
                           /\ clause.parts[i] \in AllParts
  <2>1. TypeInv /\ PastInv /\ mode = "rows" /\ clause.op = "CREATE" /\ row \in input
    OBVIOUS
  <2> QED BY ONLY <2>1, CreateSteps
<1>2. \A i \in 1 .. n : \A x \in PartBinds(clause.parts[i]) :
                  /\ x \in DOMAIN after[i].row.at /\ x \in DOMAIN after[n].row.at
                  /\ after[n].row.at[x] = after[i].row.at[x]
  BY CreateKeepsNames
<1>3. r.params = params
  OBVIOUS
<1> HIDE DEF after, n, r
<1>4. ASSUME NEW i \in 1 .. n, PairsOK(C(i - 1))
      PROVE  /\ PairsOK(C(i))
             /\ NamedHop(clause.parts[i]) =>
                   /\ clause.parts[i].hop \in DOMAIN after[i].row.at
                   /\ after[i].row.at[clause.parts[i].hop][1] = "e" =>
                         PlacedAt(after[i].row.at, clause.parts[i]) = {after[i].row.at[clause.parts[i].hop]}
  <2> DEFINE q == after[i - 1]
             t == after[i]
             part == clause.parts[i]
  <2>1. /\ BothOK(q) /\ q.params.nextV \in Nat /\ PairsOK(q.params.counts)
        /\ part \in AllParts /\ t = CreatePart(q, part)
    BY <1>1, <1>4
  <2> HIDE DEF q, t, part
  <2>2. /\ PairsOK(t.params.counts)
        /\ ~NamedHop(part) => t.params.counts = q.params.counts /\ PlacedAt(t.row.at, part) = {}
        /\ NamedHop(part) =>
                 /\ part.hop \in DOMAIN t.row.at
                 /\ t.row.at[part.hop][1] = "e" => PlacedAt(t.row.at, part) = {t.row.at[part.hop]}
                 /\ \A Q : Chained(q.params.counts, Q) =>
                       /\ Chained(t.params.counts, Q \cup PlacedAt(t.row.at, part))
                       /\ \A id \in PlacedAt(t.row.at, part) : LowerIn(id, Q)
    BY <2>1, PartPlaces
  <2>3. /\ PairsOK(t.params.counts)
        /\ NamedHop(part) =>
                 /\ part.hop \in DOMAIN t.row.at
                 /\ t.row.at[part.hop][1] = "e" => PlacedAt(t.row.at, part) = {t.row.at[part.hop]}
    BY <2>2
  <2> QED BY <2>3 DEF t, part
<1> DEFINE S == {i \in 0 .. n : PairsOK(C(i))}
<1>5. 0 .. n \subseteq S
  <2>1. 0 \in S
    <3>1. C(0) = params.counts /\ 0 \in 0 .. n
      BY <1>1, <1>3
    <3> HIDE DEF C
    <3> QED BY <3>1 DEF ChainInv
  <2>2. ASSUME NEW i \in 1 .. n, i - 1 \in S PROVE i \in S
    <3>1. PairsOK(C(i - 1)) /\ i \in 0 .. n
      BY <1>1, <2>2
    <3>2. PairsOK(C(i))
      BY <1>4, <3>1
    <3> QED BY <3>1, <3>2
  <2> HIDE DEF S
  <2> QED BY <1>1, <2>1, <2>2, AfterEachPart DEF n
<1>6. ASSUME NEW i \in 1 .. n PROVE SamePlace(after[i].row.at, after[n].row.at, clause.parts[i])
  <2> DEFINE part == clause.parts[i]
             at == after[i].row.at
             t == after[n].row.at
  <2> SUFFICES ASSUME NamedHop(part), t[part.hop][1] = "e"
               PROVE  PlacedAt(at, part) = {t[part.hop]} /\ PlacedAt(t, part) = {t[part.hop]}
    BY DEF SamePlace
  <2>1. PairsOK(C(i - 1))
    <3>1. i - 1 \in 0 .. n
      BY <1>1
    <3> QED BY <1>5, <3>1
  <2>2. part.hop \in DOMAIN at /\ (at[part.hop][1] = "e" => PlacedAt(at, part) = {at[part.hop]})
    BY <1>4, <2>1
  <2>3. \A x \in PartBinds(part) : x \in DOMAIN at /\ x \in DOMAIN t /\ t[x] = at[x]
    BY <1>2
  <2>4. Anon \notin DOMAIN at
    <3>1. BothOK(after[i - 1]) /\ part \in AllParts /\ after[i] = CreatePart(after[i - 1], part)
      BY <1>1
    <3>2. BothOK(after[i])
      BY <3>1, PartKeeps
    <3> QED BY <3>2 DEF BothOK, RowOK, NamesOK
  <2> HIDE DEF part, at, t
  <2>5. part.hop \in PartBinds(part)
    BY DEF PartBinds, NamedHop
  <2>6. PlacedAt(at, part) = {t[part.hop]}
    BY <2>2, <2>3, <2>5
  <2>7. {part.left.var, part.right.var, part.hop} \subseteq DOMAIN at
    BY <2>6 DEF PlacedAt
  <2>8. {part.left.var, part.right.var, part.hop} \subseteq PartBinds(part)
    BY <2>4, <2>5, <2>7 DEF PartBinds, NodesOf, NamedHop
  <2>9. {part.left.var, part.right.var, part.hop} \subseteq DOMAIN t
        /\ \A x \in {part.left.var, part.right.var, part.hop} : t[x] = at[x]
    BY <2>3, <2>8
  <2>10. PlacedAt(t, part) = PlacedAt(at, part)
    BY <2>7, <2>9 DEF PlacedAt
  <2> QED BY <2>6, <2>10
<1> QED BY <1>6 DEF after, n, r

\* the i-th event of the row t is to make what the part gives it
MadeByOwn(t, i, part, es) ==
    /\ SamePlace(es[i].at, t.at, part) /\ es[i].op = "CREATE" /\ es[i].part = part
    /\ ~IsHop(part) /\ part.left.var # Anon =>
          LET x == part.left.var
          IN  /\ x \in DOMAIN es[i].at /\ es[i].at[x] = t.at[x]
              /\ t.at[x][1] = "write-v" /\ t.at[x] \notin Seen
              /\ \A k \in 1 .. (i - 1) : t.at[x] \notin VertexBound(es[k].at)

LEMMA ComingRowDone ==
    ASSUME TypeInv, ComingInv, mode = "rows", clause.op = "CREATE", NEW row \in input, NEW t, NEW p, NEW es,
           RowDone(row, {t}, p, es), IsSeq(es), DOMAIN clause.parts = 1 .. Len(es),
           \A i \in 1 .. Len(es) : MadeByOwn(t, i, clause.parts[i], es)
    PROVE  ComingInv'
<1>1. /\ rows' = rows \cup {t} /\ events' = events \o es
      /\ UNCHANGED <<tx, clause, mode>>
  BY DEF RowDone
<1>2. IsSeq(events) /\ Members(events') = Members(events) \cup Members(es)
  BY <1>1, ConcatIs DEF TypeInv, EventsOK
<1>3. Coming' = Coming \cup PlacedIn(Members(es))
  <2>1. Coming' = DOMAIN tx'.edges \cup PlacedIn(Members(events'))
    BY DEF Coming
  <2>2. Coming = DOMAIN tx.edges \cup PlacedIn(Members(events))
    BY DEF Coming
  <2> QED BY <1>1, <1>2, <2>1, <2>2, PlacedInBoth
<1>4. /\ DOMAIN events = 1 .. Len(events) /\ DOMAIN es = 1 .. Len(es)
      /\ DOMAIN events' = 1 .. Len(events) + Len(es)
      /\ \A i \in 1 .. Len(events) : events'[i] = events[i]
      /\ \A i \in Len(events) + 1 .. Len(events) + Len(es) : events'[i] = es[i - Len(events)]
      /\ Len(events) \in Nat /\ Len(es) \in Nat
  <2> DEFINE S == Members(events) \cup Members(es)
  <2>1. events \in Seq(S) /\ es \in Seq(S)
    <3>1. events \in Seq(Members(events)) /\ es \in Seq(Members(es))
      BY <1>2, IsOfMembers
    <3> QED BY <3>1
  <2> HIDE DEF S
  <2> QED BY <1>1, <2>1
<1>5. ASSUME NEW q \in rows, NEW i \in DOMAIN clause.parts
      PROVE  HopComing(q, clause.parts[i])' /\ NodeComing(q, clause.parts[i])'
  <2> DEFINE part == clause.parts[i]
             v == q.at[part.left.var]
  <2>1. HopComing(q, part) /\ NodeComing(q, part)
    BY DEF ComingInv
  <2>2. clause'.parts[i] = part
    BY <1>1
  <2>3. HopComing(q, clause.parts[i])'
    BY <1>3, <2>1, <2>2 DEF HopComing
  <2>4. ASSUME NewNode(v, part, DOMAIN tx.labels, events)
        PROVE  NewNode(v, part, DOMAIN tx'.labels, events')
    <3> HIDE DEF v, part
    <3>1. PICK j \in DOMAIN events :
             /\ events[j].part = part
             /\ part.left.var \in DOMAIN events[j].at /\ events[j].at[part.left.var] = v
             /\ \A k \in 1 .. (j - 1) : v \notin VertexBound(events[k].at)
      BY <2>4 DEF NewNode
    <3>2. /\ j \in DOMAIN events' /\ events'[j] = events[j]
          /\ \A k \in 1 .. (j - 1) : events'[k] = events[k]
      BY <1>4
    <3>3. v[1] = "write-v" /\ v \notin DOMAIN tx'.labels
      BY <1>1, <2>4 DEF NewNode
    <3>4. \A k \in 1 .. (j - 1) : v \notin VertexBound(events'[k].at)
      BY <3>1, <3>2
    <3> QED BY <3>1, <3>2, <3>3, <3>4 DEF NewNode
  <2>5. NodeComing(q, clause.parts[i])'
    <3>1. Labelled(tx', part.left.label) = Labelled(tx, part.left.label)
      BY <1>1
    <3> QED BY <2>1, <2>2, <2>4, <3>1 DEF NodeComing
  <2> QED BY <2>3, <2>5
<1>6. ASSUME NEW i \in DOMAIN clause.parts
      PROVE  HopComing(t, clause.parts[i])' /\ NodeComing(t, clause.parts[i])'
  <2> DEFINE part == clause.parts[i]
             v == t.at[part.left.var]
             j == Len(events) + i
  <2>1. MadeByOwn(t, i, part, es) /\ i \in 1 .. Len(es)
    OBVIOUS
  <2>2. clause'.parts[i] = part
    BY <1>1
  <2>3. HopComing(t, clause.parts[i])'
    <3> SUFFICES ASSUME NamedHop(part), t.at[part.hop][1] = "e"
                 PROVE  PlacedAt(t.at, part) = {t.at[part.hop]} /\ t.at[part.hop] \in Coming'
      BY <2>2 DEF HopComing
    <3>1. PlacedAt(es[i].at, part) = {t.at[part.hop]} /\ PlacedAt(t.at, part) = {t.at[part.hop]}
          /\ es[i].op = "CREATE" /\ es[i].part = part
      BY <2>1 DEF MadeByOwn, SamePlace
    <3>2. t.at[part.hop] \in PlacedBy(es[i]) /\ es[i] \in Members(es)
      BY <1>4, <2>1, <3>1 DEF PlacedBy, Members
    <3>3. t.at[part.hop] \in PlacedIn(Members(es))
      BY <3>2 DEF PlacedIn
    <3> QED BY <1>3, <3>1, <3>3
  <2>4. ASSUME ~IsHop(part), part.left.var # Anon
        PROVE  NewNode(v, part, DOMAIN tx'.labels, events')
    <3>1. /\ es[i].part = part /\ part.left.var \in DOMAIN es[i].at /\ es[i].at[part.left.var] = v
          /\ v[1] = "write-v" /\ v \notin Seen
          /\ \A k \in 1 .. (i - 1) : v \notin VertexBound(es[k].at)
      BY <2>1, <2>4 DEF MadeByOwn
    <3>2. v \notin DOMAIN tx'.labels
      BY <1>1, <3>1 DEF Seen, IdsOf
    <3> HIDE DEF v, part
    <3>3. j \in DOMAIN events' /\ events'[j] = es[i]
      BY <1>4, <2>1
    <3>4. ASSUME NEW k \in 1 .. (j - 1) PROVE v \notin VertexBound(events'[k].at)
      <4>1. CASE k \in 1 .. Len(events)
        <5>1. events'[k] = events[k] /\ events[k] \in Members(events)
          BY <1>4, <4>1 DEF Members
        <5> QED BY <3>1, <5>1 DEF Seen, BoundIn
      <4>2. CASE k \in Len(events) + 1 .. Len(events) + (i - 1)
        <5>1. events'[k] = es[k - Len(events)] /\ k - Len(events) \in 1 .. (i - 1)
          BY <1>4, <2>1, <4>2
        <5> QED BY <3>1, <5>1
      <4> QED BY <1>4, <2>1, <4>1, <4>2
    <3> HIDE DEF j
    <3> QED BY <3>1, <3>2, <3>3, <3>4 DEF NewNode
  <2>5. NodeComing(t, clause.parts[i])'
    BY <2>2, <2>4 DEF NodeComing
  <2> QED BY <2>3, <2>5
<1> QED BY <1>1, <1>5, <1>6 DEF ComingInv

LEMMA ComingCreate ==
    \A row \in input :
        TypeInv /\ NamesInv /\ PastInv /\ ChainInv /\ ComingInv /\ NamesApart /\ mode = "rows"
        /\ MaterializeCreate(row) => ComingInv'
<1> SUFFICES ASSUME NEW row \in input, TypeInv, NamesInv, PastInv, ChainInv, ComingInv, NamesApart,
                    mode = "rows", MaterializeCreate(row)
             PROVE  ComingInv'
  OBVIOUS
<1> DEFINE n == Len(clause.parts)
           r == [row |-> row, params |-> params]
           after == CreatedAfter(r, clause.parts)
           t == after[n].row
           p == after[n].params
           es == [i \in 1 .. n |-> Event(clause, clause.parts[i], after[i].row)]
<1>1. RowDone(row, {t}, p, es) /\ clause.op = "CREATE"
  BY DEF MaterializeCreate
<1>2. FreeFor(row, clause)
  BY DEF NamesInv
<1>3. \A i \in 1 .. n : SamePlace(after[i].row.at, after[n].row.at, clause.parts[i])
  BY <1>1, CreatePlaces
<1>4. \A i \in 1 .. n :
         ~IsHop(clause.parts[i]) /\ clause.parts[i].left.var # Anon =>
            NowhereYet(after[i].row.at[clause.parts[i].left.var], i, after)
  BY <1>1, <1>2, CreateIsNew
<1>5. \A i \in 1 .. n : \A x \in PartBinds(clause.parts[i]) :
         /\ x \in DOMAIN after[i].row.at /\ x \in DOMAIN after[n].row.at
         /\ after[n].row.at[x] = after[i].row.at[x]
  BY <1>1, CreateKeepsNames
<1>6. n \in Nat /\ DOMAIN clause.parts = 1 .. n
  <2>1. IsSeq(clause.parts)
    BY <1>1, NextRow, ClauseIs DEF Deletes
  <2> QED BY <2>1 DEF IsSeq
<1> HIDE DEF after, n, r
<1>7. /\ IsSeq(es) /\ Len(es) = n
      /\ \A i \in 1 .. n : es[i].at = after[i].row.at /\ es[i].op = "CREATE"
                           /\ es[i].part = clause.parts[i]
  <2>1. es \in Seq({es[i] : i \in 1 .. n}) /\ DOMAIN es = 1 .. n /\ Len(es) = n
    BY <1>6
  <2>2. \A i \in 1 .. n : es[i].at = after[i].row.at /\ es[i].op = "CREATE"
                           /\ es[i].part = clause.parts[i]
    BY <1>1 DEF Event
  <2> HIDE DEF es
  <2> QED BY <2>1, <2>2, SeqIs DEF Members
<1> HIDE DEF es
<1>8. ASSUME NEW i \in 1 .. n PROVE MadeByOwn(t, i, clause.parts[i], es)
  <2> DEFINE part == clause.parts[i]
             x == part.left.var
  <2>1. SamePlace(es[i].at, t.at, part) /\ es[i].op = "CREATE" /\ es[i].part = part
    BY <1>3, <1>7
  <2>2. ASSUME ~IsHop(part), x # Anon
        PROVE  /\ x \in DOMAIN es[i].at /\ es[i].at[x] = t.at[x]
               /\ t.at[x][1] = "write-v" /\ t.at[x] \notin Seen
               /\ \A k \in 1 .. (i - 1) : t.at[x] \notin VertexBound(es[k].at)
    <3>1. x \in PartBinds(part)
      BY <2>2 DEF PartBinds, NodesOf
    <3>2. x \in DOMAIN es[i].at /\ es[i].at[x] = t.at[x]
      <4>1. x \in DOMAIN after[i].row.at /\ after[n].row.at[x] = after[i].row.at[x]
        BY <1>5, <3>1
      <4> QED BY <1>7, <4>1
    <3>3. NowhereYet(t.at[x], i, after)
      BY <1>4, <1>7, <2>2, <3>2
    <3>4. \A k \in 1 .. (i - 1) : es[k].at = after[k].row.at
      BY <1>6, <1>7
    <3> QED BY <3>2, <3>3, <3>4 DEF NowhereYet
  <2> QED BY <2>1, <2>2 DEF MadeByOwn
<1> HIDE DEF t, p
<1>9. DOMAIN clause.parts = 1 .. Len(es) /\ \A i \in 1 .. Len(es) : MadeByOwn(t, i, clause.parts[i], es)
  BY <1>6, <1>7, <1>8
<1> QED BY <1>1, <1>7, <1>9, ComingRowDone

LEMMA ComingApplyCreate == TypeInv /\ ChainInv /\ ComingInv /\ ApplyCreate => ComingInv'
<1> SUFFICES ASSUME TypeInv, ChainInv, ComingInv, ApplyCreate PROVE ComingInv'
  OBVIOUS
<1>1. /\ mode = "apply" /\ clause.op = "CREATE" /\ events # <<>> /\ events' = Tail(events)
      /\ UNCHANGED <<clause, rows, mode>>
  BY DEF ApplyCreate, Applied
<1>2. PICK e : e = Head(events)
  OBVIOUS
<1>3. PICK c \in Created(tx, scratch.autoV, e) : tx' = c.s
  BY <1>2 DEF ApplyCreate, Applied
<1>4. NamesOK(e.at) /\ e.part \in AllParts /\ TxOK(tx) /\ IsSeq(events)
  BY <1>1, <1>2, HeadIs DEF EventOK, Deletes, TypeInv, EventsOK
<1>5. /\ e = events[1] /\ \A i \in 1 .. Len(events) - 1 : events'[i] = events[i + 1]
      /\ DOMAIN events = 1 .. Len(events) /\ DOMAIN events' = 1 .. Len(events) - 1 /\ Len(events) \in Nat
  <2>1. /\ IsSeq(Tail(events)) /\ Len(Tail(events)) = Len(events) - 1 /\ Len(events) > 0
        /\ Head(events) = events[1]
        /\ \A i \in 1 .. Len(events) - 1 : Tail(events)[i] = events[i + 1]
        /\ Members(events) = {Head(events)} \cup Members(Tail(events))
    BY <1>1, <1>4, TailIs
  <2> QED BY <1>1, <1>2, <1>4, <2>1 DEF IsSeq
<1>6. Coming \subseteq Coming'
  BY ChainApplyCreate
<1>7. \A lab : Labelled(tx, lab) \subseteq Labelled(tx', lab)
  <2>1. Adds(tx, tx')
    BY <1>4, ApplyStepAdds DEF ApplyAdds, TxOK
  <2> QED BY <2>1 DEF Adds, Keeps, Labelled
<1>8. /\ \A v \in DOMAIN tx'.labels : v \in DOMAIN tx.labels \/ v \in VertexBound(e.at) \/ v[1] = "auto-v"
      /\ ~IsHop(e.part) =>
            LET x == e.part.left.var
            IN  x \in DOMAIN e.at /\ e.at[x] \notin DOMAIN tx.labels => e.at[x] \in Labelled(tx', e.part.left.label)
  <2>1. /\ \A v \in DOMAIN c.s.labels :
                 v \in DOMAIN tx.labels \/ v \in VertexBound(e.at) \/ v[1] = "auto-v"
        /\ ~IsHop(e.part) =>
                 LET x == e.part.left.var
                 IN  x \in DOMAIN e.at /\ e.at[x] \notin DOMAIN tx.labels =>
                        e.at[x] \in Labelled(c.s, e.part.left.label)
        /\ IsHop(e.part) => \E a, b : \E k \in CreateNumbers(tx, a, b) :
                 /\ DOMAIN c.s.edges = DOMAIN tx.edges \cup {EdgeId(a, b, k)}
                 /\ {a, b} \subseteq DOMAIN c.s.labels
                 /\ e.part.left.var \in DOMAIN e.at => a = e.at[e.part.left.var]
                 /\ e.part.right.var \in DOMAIN e.at => b = e.at[e.part.right.var]
    BY <1>3, <1>4, CreatedIs
  <2> QED BY <1>3, <2>1
<1>9. ASSUME NEW part, ~IsHop(part), NEW v, NewNode(v, part, DOMAIN tx.labels, events)
      PROVE  v \in Labelled(tx', part.left.label) \/ NewNode(v, part, DOMAIN tx'.labels, events')
  <2>1. PICK j \in DOMAIN events :
           /\ events[j].part = part
           /\ part.left.var \in DOMAIN events[j].at /\ events[j].at[part.left.var] = v
           /\ \A k \in 1 .. (j - 1) : v \notin VertexBound(events[k].at)
    BY <1>9 DEF NewNode
  <2>2. v[1] = "write-v" /\ v \notin DOMAIN tx.labels
    BY <1>9 DEF NewNode
  <2>3. CASE j = 1
    <3>1. e.part = part /\ part.left.var \in DOMAIN e.at /\ e.at[part.left.var] = v
      BY <1>5, <2>1, <2>3
    <3> QED BY <1>8, <1>9, <2>2, <3>1
  <2>4. CASE j # 1
    <3>1. v \notin VertexBound(e.at)
      BY <1>5, <2>1, <2>4
    <3>2. v \notin DOMAIN tx'.labels
      BY <1>8, <2>2, <3>1
    <3>3. j - 1 \in DOMAIN events' /\ events'[j - 1] = events[j]
          /\ \A k \in 1 .. ((j - 1) - 1) : k + 1 \in 1 .. (j - 1) /\ events'[k] = events[k + 1]
      BY <1>5, <2>1, <2>4
    <3>4. \A k \in 1 .. ((j - 1) - 1) : v \notin VertexBound(events'[k].at)
      BY <2>1, <3>3
    <3> QED BY <2>1, <2>2, <3>2, <3>3, <3>4 DEF NewNode
  <2> QED BY <2>3, <2>4
<1>10. ASSUME NEW q \in rows, NEW i \in DOMAIN clause.parts
       PROVE  HopComing(q, clause.parts[i])' /\ NodeComing(q, clause.parts[i])'
  <2> DEFINE part == clause.parts[i]
             v == q.at[part.left.var]
  <2>1. HopComing(q, part) /\ NodeComing(q, part)
    BY <1>1 DEF ComingInv
  <2>2. clause'.parts[i] = part
    BY <1>1
  <2>3. HopComing(q, clause.parts[i])'
    BY <1>6, <2>1, <2>2 DEF HopComing
  <2>4. NodeComing(q, clause.parts[i])'
    <3> SUFFICES ASSUME ~IsHop(part), part.left.var # Anon
                 PROVE  \/ v \in Labelled(tx', part.left.label)
                        \/ NewNode(v, part, DOMAIN tx'.labels, events')
      BY <2>2 DEF NodeComing
    <3>1. v \in Labelled(tx, part.left.label) \/ NewNode(v, part, DOMAIN tx.labels, events)
      BY <2>1 DEF NodeComing
    <3> QED BY <1>7, <1>9, <3>1
  <2> QED BY <2>3, <2>4
<1> QED BY <1>1, <1>10 DEF ComingInv

LEMMA ComingStays ==
    ASSUME ComingInv,
           \/ mode' = "idle" \/ clause'.op # "CREATE" \/ rows' = {}
           \/ mode # "idle" /\ UNCHANGED <<tx, clause, rows, events>>
    PROVE  ComingInv'
<1>1. CASE mode' = "idle" \/ clause'.op # "CREATE" \/ rows' = {}
  BY <1>1 DEF ComingInv
<1>2. CASE mode # "idle" /\ UNCHANGED <<tx, clause, rows, events>>
  <2>1. Coming' = Coming
    BY <1>2 DEF Coming, Members
  <2>2. ASSUME NEW row \in rows, NEW i \in DOMAIN clause.parts
        PROVE  /\ HopComing(row, clause.parts[i]) => HopComing(row, clause.parts[i])'
               /\ NodeComing(row, clause.parts[i]) => NodeComing(row, clause.parts[i])'
    BY <1>2, <2>1 DEF HopComing, NodeComing
  <2> QED BY <1>2, <2>2 DEF ComingInv
<1> QED BY <1>1, <1>2

LEMMA ComingStep ==
    ASSUME NamesApart
    PROVE  TypeInv /\ NamesInv /\ PastInv /\ ChainInv /\ ComingInv /\ [Next]_vars => ComingInv'
<1> SUFFICES ASSUME TypeInv, NamesInv, PastInv, ChainInv, ComingInv, [Next]_vars PROVE ComingInv'
  OBVIOUS
<1>1. CASE UNCHANGED vars
  <2>1. UNCHANGED <<tx, clause, rows, events, mode>>
    BY <1>1 DEF vars
  <2> QED BY <2>1, ComingStays
<1>2. CASE Begin
  <2>1. rows' = {}
    BY <1>2 DEF Begin
  <2> QED BY <2>1, ComingStays
<1>3. CASE ExecuteMatch
  <2>1. clause'.op # "CREATE"
    BY <1>3 DEF ExecuteMatch, ClauseBegins
  <2> QED BY <2>1, ComingStays
<1>4. CASE ExecuteWrite
  <2>1. rows' = {}
    BY <1>4 DEF ExecuteWrite
  <2> QED BY <2>1, ComingStays
<1>5. CASE MaterializeRow
  <2>1. PICK row \in input : MaterializeCreate(row) \/ MaterializeMerge(row) \/ MaterializeDelete(row)
    BY <1>5 DEF MaterializeRow
  <2>2. mode = "rows"
    BY <1>5 DEF MaterializeRow
  <2>3. CASE MaterializeCreate(row)
    BY <2>2, <2>3, ComingCreate
  <2>4. CASE MaterializeMerge(row) \/ MaterializeDelete(row)
    <3>1. params'.counts = params.counts /\ clause.op # "CREATE"
          /\ UNCHANGED <<tx, clauses, clause, mode>>
      BY <2>2, <2>4, RowCountsNothing
    <3> QED BY <3>1, ComingStays
  <2> QED BY <2>1, <2>3, <2>4
<1>6. CASE RowsDone \/ EndClause
  <2>1. mode # "idle" /\ UNCHANGED <<tx, clause, rows, events>>
    BY <1>6 DEF RowsDone, EndClause
  <2> QED BY <2>1, ComingStays
<1>7. CASE ApplyCreate
  BY <1>7, ComingApplyCreate
<1>8. CASE \/ ApplyMergeVertex \/ ApplyMergeBatch \/ ApplyMergeSimple \/ ApplyMergeEdge
           \/ ApplyMergeNothing \/ ApplyDelete
  <2>1. clause.op # "CREATE" /\ clause' = clause
    BY <1>8 DEF ApplyMergeVertex, ApplyMergeBatch, ApplyMergeSimple, ApplyMergeEdge, ApplyMergeNothing,
                ApplyDelete, Applied, Deletes
  <2> QED BY <2>1, ComingStays
<1>9. CASE Commit \/ Fail
  <2>1. mode' = "idle"
    BY <1>9 DEF Commit, Fail
  <2> QED BY <2>1, ComingStays
<1> QED BY <1>1, <1>2, <1>3, <1>4, <1>5, <1>6, <1>7, <1>8, <1>9 DEF Next

LEMMA ComingGives == TypeInv /\ ComingInv => (clause.op = "CREATE" => RowsDenote)
<1> SUFFICES ASSUME TypeInv, ComingInv, clause.op = "CREATE", mode = "clause",
                    NEW row \in rows, NEW i \in DOMAIN clause.parts
             PROVE  LET part == clause.parts[i]
                        x == part.left.var
                        Denotes(r, a, b) == Between(tx, a, b) # {} /\ row.at[r] \in Between(tx, a, b)
                    IN  IF ~IsHop(part)
                        THEN x # Anon => row.at[x] \in Labelled(tx, part.left.label)
                        ELSE (part.hop # Anon /\ part.hop \in DOMAIN row.at
                              /\ row.at[part.hop][1] = "e") =>
                                  Denotes(part.hop, row.at[x], row.at[part.right.var])
  BY DEF RowsDenote, Done
<1> DEFINE part == clause.parts[i]
           x == part.left.var
<1>1. HopComing(row, part) /\ NodeComing(row, part)
  BY DEF ComingInv
<1>2. events = <<>> /\ Coming = DOMAIN tx.edges
  <2>1. events = <<>>
    BY DEF TypeInv, RequestOK
  <2> QED BY <2>1, NothingPlaced
<1>3. CASE ~IsHop(part)
  <2>1. \A v : ~NewNode(v, part, DOMAIN tx.labels, events)
    BY <1>2 DEF NewNode
  <2> QED BY <1>1, <1>3, <2>1 DEF NodeComing
<1>4. CASE IsHop(part)
  <2> DEFINE id == row.at[part.hop]
             a == row.at[x]
             b == row.at[part.right.var]
  <2>1. ASSUME part.hop # Anon, id[1] = "e" PROVE id \in Between(tx, a, b)
    <3>1. PlacedAt(row.at, part) = {id} /\ id \in DOMAIN tx.edges
      BY <1>1, <1>2, <1>4, <2>1 DEF HopComing, NamedHop
    <3>2. id = EdgeId(a, b, id[4])
      BY <3>1 DEF PlacedAt
    <3> HIDE DEF id, a, b
    <3>3. id[2] = a /\ id[3] = b
      BY <3>2, EdgeIdParts
    <3>4. tx.edges[id] = <<id[2], id[3]>>
      BY <3>1 DEF TypeInv, StoreOK, TxOK, GraphOK
    <3> QED BY <3>1, <3>3, <3>4 DEF Between
  <2> QED BY <1>4, <2>1
<1> QED BY <1>3, <1>4

\* The ids a row of a CREATE goes on with, predicted before the store is asked
\* (materializeWriteBindings), are when its events have been applied those of a
\* vertex with the label and of an edge between the two nodes of the row
\* (applyWriteEventsToSink).  For an edge the applier counts again what the planner
\* counted (allocateCreateEdgeIDWithLookup): a number it does not give to this
\* event is one that is there, because the numbers of a pair are taken without a
\* gap, which a DELETE before a CREATE that names a relationship would leave.  That
\* relationships and nodes that stand alone have names that nothing binds before
\* is what the parser asks (validatePatternBindings); that the store does not
\* begin with ids the requests will predict is what the clock gives.
THEOREM CreatedDenote ==
    ASSUME Obeyed(NamesNew), NamesApart, Obeyed(HopsFirst), GraphsFresh
    PROVE  Spec => [](clause.op = "CREATE" => RowsDenote)
<1> DEFINE IInv == TypeInv /\ OrderInv(NamesNew) /\ NamesInv /\ OrderInv(HopsFirst)
                   /\ PastInv /\ ChainInv /\ ComingInv
<1>1. Init => IInv
  <2> SUFFICES ASSUME Init PROVE IInv
    OBVIOUS
  <2>1. TypeInv /\ OrderInv(NamesNew) /\ OrderInv(HopsFirst) /\ PastInv
    BY TypeInit, OrderInit, PastInit
  <2>2. rows = {} /\ input = {} /\ mode = "idle" /\ events = <<>> /\ params.counts = Nothing
    BY DEF Init, NewParams
  <2>3. NamesInv /\ ChainInv /\ ComingInv
    BY <2>2 DEF NamesInv, ChainInv, PairsOK, Nothing, ComingInv
  <2> QED BY <2>1, <2>3
<1>2. IInv /\ [Next]_vars => IInv'
  <2> SUFFICES ASSUME IInv, [Next]_vars PROVE IInv'
    OBVIOUS
  <2>1. TypeInv' /\ OrderInv(NamesNew)' /\ OrderInv(HopsFirst)'
    BY TypeStep, OrderStep
  <2>2. NamesInv' /\ PastInv'
    BY NamesStep, PastStep
  <2>3. ChainInv' /\ ComingInv'
    BY ChainStep, ComingStep
  <2> QED BY <2>1, <2>2, <2>3
<1>3. IInv => (clause.op = "CREATE" => RowsDenote)
  BY ComingGives
<1> QED BY <1>1, <1>2, <1>3, PTL DEF Spec

=============================================================================
