------------------------ MODULE WriteStatementProofs ------------------------
(***************************************************************************)
(* What requests that write leave behind, for all graphs, programs and     *)
(* numbers: CREATE and MERGE only add, as the id under which the applier   *)
(* writes is one it has looked for and not found; the state has its types; *)
(* and edges join vertices.                                                *)
(***************************************************************************)
EXTENDS WriteStatement, TLAPS, FiniteSetTheorems, WellFoundedInduction

\* what the operators on the store take and give
IsView(s) ==
    s = [labels |-> s.labels, edges |-> s.edges, counted |-> s.counted,
         pairs |-> s.pairs, base |-> s.base, pending |-> s.pending]

\* t is s and more
Adds(s, t) == IsView(t) /\ Keeps(s, t)

---------------------------------------------------------------------------
(* The store *)

\* What is added to an addition is added to the first.
LEMMA AddsOn ==
    ASSUME NEW s, NEW t, NEW u, Adds(s, t), Adds(t, u)
    PROVE  Adds(s, u)
  BY DEF Adds, Keeps

LEMMA AddsNothing == ASSUME NEW s, IsView(s) PROVE Adds(s, s)
  BY DEF Adds, Keeps

\* A vertex that is not there is added (PutVertex).
LEMMA PutVertexAdds ==
    ASSUME NEW s, IsView(s), NEW v, NEW lab, v \notin DOMAIN s.labels
    PROVE  Adds(s, PutVertex(s, v, lab))
<1> DEFINE t == PutVertex(s, v, lab)
<1>1. IsView(t) /\ t.edges = s.edges /\ t.labels = Put(s.labels, v, LabelSet(lab))
  BY DEF IsView, PutVertex
<1>2. Keeps(s, t)
  BY <1>1 DEF Keeps, Put
<1> QED BY <1>1, <1>2 DEF Adds

\* The pair counts are apart from vertices and edges (adjustOutEndpointPairCount).
LEMMA PairAdjustedSame ==
    ASSUME NEW s, IsView(s), NEW p, NEW d
    PROVE  LET t == PairAdjusted(s, p, d)
           IN  IsView(t) /\ t.labels = s.labels /\ t.edges = s.edges
<1>1. \E X, Y : PairAdjusted(s, p, d) = [s EXCEPT !.base = X, !.pairs = Y]
  BY DEF PairAdjusted
<1> QED BY <1>1 DEF IsView

\* An edge that is not there is added (PutEdgeNew).
LEMMA PutEdgeNewAdds ==
    ASSUME NEW s, IsView(s), NEW e, NEW a, NEW b, e \notin DOMAIN s.edges
    PROVE  Adds(s, PutEdgeNew(s, e, a, b))
<1> DEFINE r == PairAdjusted(s, <<a, b>>, 1)
           t == PutEdgeNew(s, e, a, b)
<1>1. IsView(r) /\ r.labels = s.labels /\ r.edges = s.edges
  BY PairAdjustedSame
<1>2. t = [r EXCEPT !.edges = Put(r.edges, e, <<a, b>>), !.pending = r.pending + 1]
  BY DEF PutEdgeNew
<1> HIDE DEF r, t
<1>3. IsView(t) /\ t.labels = r.labels /\ t.edges = Put(r.edges, e, <<a, b>>)
  BY <1>1, <1>2 DEF IsView
<1>4. Keeps(s, t)
  BY <1>1, <1>3 DEF Keeps, Put
<1> QED BY <1>3, <1>4 DEF Adds, t

\* A batch keeps the edges that are there, whatever ids its own have
\* (PutEdgeNewBatch).
LEMMA PutEdgeNewBatchAdds ==
    ASSUME NEW s, IsView(s), NEW P
    PROVE  Adds(s, PutEdgeNewBatch(s, P))
<1> DEFINE t == PutEdgeNewBatch(s, P)
           E == {EdgeId(p[1], p[2], 0) : p \in P}
<1>1. /\ IsView(t) /\ t.labels = s.labels
      /\ t.edges = [e \in DOMAIN s.edges \cup E |->
                        IF e \in DOMAIN s.edges THEN s.edges[e] ELSE <<e[2], e[3]>>]
  <2> DEFINE F == [e \in DOMAIN s.edges \cup E |->
                        IF e \in DOMAIN s.edges THEN s.edges[e] ELSE <<e[2], e[3]>>]
  <2>1. \E X, Y, Z : t = [s EXCEPT !.edges = F, !.base = X, !.pairs = Y, !.pending = Z]
    BY DEF PutEdgeNewBatch
  <2> HIDE DEF t, E, F
  <2>2. IsView(t) /\ t.labels = s.labels /\ t.edges = F
    BY <2>1 DEF IsView
  <2> QED BY <2>2 DEF F
<1> HIDE DEF t, E
<1>2. Keeps(s, t)
  BY <1>1 DEF Keeps
<1> QED BY <1>1, <1>2 DEF Adds, t

---------------------------------------------------------------------------
(* The applier *)

LEMMA LeastIsIn == ASSUME NEW S, NEW n \in Least(S) PROVE n \in S
  BY DEF Least

\* The vertex of a node of a CREATE is there, or made (ensureCreatePatternVertex).
LEMMA EnsureVertexAdds ==
    ASSUME NEW s, IsView(s), NEW n, NEW node, NEW at, NEW r \in EnsureVertex(s, n, node, at)
    PROVE  Adds(s, r.s)
<1>1. CASE node.var \in DOMAIN at
  <2>1. r.s = IF at[node.var] \in DOMAIN s.labels THEN s
              ELSE PutVertex(s, at[node.var], node.label)
    BY <1>1 DEF EnsureVertex
  <2> QED BY <2>1, AddsNothing, PutVertexAdds
<1>2. CASE node.var \notin DOMAIN at
  <2> DEFINE F == {k \in Num : k > n /\ AutoVertex(k) \notin DOMAIN s.labels}
  <2>1. PICK m \in Least(F) : r = [s |-> PutVertex(s, AutoVertex(m), node.label),
                                   n |-> m, id |-> AutoVertex(m)]
    BY <1>2 DEF EnsureVertex
  <2>2. m \in F
    BY LeastIsIn
  <2> QED BY <2>1, <2>2, PutVertexAdds
<1> QED BY <1>1, <1>2

\* The edge of a CREATE gets an id no edge has (allocateCreateEdgeIDWithLookup).
LEMMA EdgeCreatedAdds ==
    ASSUME NEW l, NEW r, IsView(r.s), NEW c \in EdgeCreated(l, r)
    PROVE  Adds(r.s, c.s)
<1>1. PICK k \in CreateNumbers(r.s, l.id, r.id) :
         c = [s |-> PutEdgeNew(r.s, EdgeId(l.id, r.id, k), l.id, r.id), n |-> r.n]
  BY DEF EdgeCreated
<1>2. EdgeId(l.id, r.id, k) \notin DOMAIN r.s.edges
  BY LeastIsIn DEF CreateNumbers
<1> QED BY <1>1, <1>2, PutEdgeNewAdds

\* A part of a CREATE adds its vertices and then its edge
\* (applyCreateWriteEventPatterns).
LEMMA CreatedAdds ==
    ASSUME NEW s, IsView(s), NEW n, NEW e, NEW c \in Created(s, n, e)
    PROVE  Adds(s, c.s)
<1> DEFINE lefts == EnsureVertex(s, n, e.part.left, e.at)
           rights(l) == EnsureVertex(l.s, l.n, e.part.right, Named(e.at, e.part.left.var, l.id))
<1>1. CASE ~IsHop(e.part)
  <2>1. PICK l \in lefts : c = [s |-> l.s, n |-> l.n]
    BY <1>1 DEF Created
  <2> QED BY <2>1, EnsureVertexAdds
<1>2. CASE IsHop(e.part)
  <2>1. Created(s, n, e) = UNION {UNION {EdgeCreated(l, r) : r \in rights(l)} : l \in lefts}
    BY <1>2 DEF Created
  <2>2. PICK l \in lefts : c \in UNION {EdgeCreated(l, r) : r \in rights(l)}
    BY <2>1
  <2>3. PICK r \in rights(l) : c \in EdgeCreated(l, r)
    BY <2>2
  <2>4. Adds(s, l.s)
    BY EnsureVertexAdds
  <2>5. Adds(l.s, r.s)
    BY <2>4, EnsureVertexAdds DEF Adds
  <2>6. Adds(r.s, c.s)
    BY <2>3, <2>5, EdgeCreatedAdds DEF Adds
  <2> QED BY <2>4, <2>5, <2>6, AddsOn
<1> QED BY <1>1, <1>2

\* The vertex of a MERGE is found, or written under a predicted id that is not
\* taken, or under the next free one (applyMergeVertexWriteEvent).
LEMMA MergedVertexAdds ==
    ASSUME NEW s, IsView(s), NEW sc, NEW e, NEW m \in MergedVertex(s, sc, e)
    PROVE  Adds(s, m.s)
<1> DEFINE lab == e.part.left.label
           bound == At(e.at, e.part.left.var, None)
           id == IF IsPredicted(bound) THEN bound ELSE None
           kept(v) == IF id = None THEN [sc EXCEPT !.cache = Put(@, lab, v)] ELSE sc
           F == {k \in Num : k > sc.autoV /\ AutoVertex(k) \notin DOMAIN s.labels}
<1> DEFINE Is(v, t) == [s |-> t, scratch |-> kept(v)]
           fit == Labelled(s, lab)
           found == (id = None /\ lab \in DOMAIN sc.cache) \/ id \in fit
           absent == id # None /\ id \notin DOMAIN s.labels
           made(k) == PutVertex(s, AutoVertex(k), lab)
<1>a. \/ found /\ m \in {[s |-> s, scratch |-> sc]}
      \/ absent /\ m \in {Is(id, PutVertex(s, id, lab))}
      \/ m \in {Is(v, s) : v \in fit}
      \/ m \in {[Is(AutoVertex(k), made(k)) EXCEPT !.scratch.autoV = k] : k \in Least(F)}
  BY DEF MergedVertex
<1>b. \A v, t : Is(v, t).s = t
  OBVIOUS
<1>c. \A v, t, k : [Is(v, t) EXCEPT !.scratch.autoV = k].s = t
  OBVIOUS
<1> HIDE DEF Is
<1>1. \/ m.s = s
      \/ id \notin DOMAIN s.labels /\ m.s = PutVertex(s, id, lab)
      \/ \E k \in Least(F) : m.s = made(k)
  <2>1. ASSUME found, m = [s |-> s, scratch |-> sc] PROVE m.s = s
    BY <2>1
  <2>2. ASSUME m = Is(id, PutVertex(s, id, lab)) PROVE m.s = PutVertex(s, id, lab)
    BY <2>2, <1>b
  <2>3. ASSUME NEW v, m = Is(v, s) PROVE m.s = s
    BY <2>3, <1>b
  <2>4. ASSUME NEW k \in Least(F), m = [Is(AutoVertex(k), made(k)) EXCEPT !.scratch.autoV = k]
        PROVE  m.s = made(k)
    <3> HIDE DEF made
    <3> QED BY <2>4, <1>c
  <2> HIDE DEF F, made, id, lab, fit, found
  <2> QED BY <1>a, <2>1, <2>2, <2>3, <2>4
<1>2. \A k \in Least(F) : AutoVertex(k) \notin DOMAIN s.labels
  BY LeastIsIn
<1> QED BY <1>1, <1>2, AddsNothing, PutVertexAdds

\* The edge of a MERGE is found, or written under a free id (allocateMergeEdgeID).
LEMMA MergedEdgeAdds ==
    ASSUME NEW s, IsView(s), NEW gone, NEW part, NEW a, NEW b,
           NEW t \in MergedEdge(s, gone, part, a, b)
    PROVE  Adds(s, t)
<1> DEFINE F == {k \in {0} \cup Num : EdgeId(a, b, k) \notin DOMAIN s.edges \cup gone}
<1>1. t = s \/ \E k \in Least(F) : t = PutEdgeNew(s, EdgeId(a, b, k), a, b)
  BY DEF MergedEdge
<1>2. \A k \in Least(F) : EdgeId(a, b, k) \notin DOMAIN s.edges
  BY LeastIsIn
<1> QED BY <1>1, <1>2, AddsNothing, PutEdgeNewAdds

---------------------------------------------------------------------------
(* The specification *)

\* Deletions leave a view a view.
LEMMA DeletionsView ==
    ASSUME NEW s, IsView(s), NEW V, NEW E
    PROVE  /\ IsView(EdgesDeleted(s, E))
           /\ IsView(VerticesDeleted(s, V))
           /\ IsView(Emptied(s))
<1>1. \E X, Y, Z, W : EdgesDeleted(s, E)
                        = [s EXCEPT !.edges = W, !.base = X, !.pairs = Y, !.pending = Z]
  BY DEF EdgesDeleted
<1>2. IsView(EdgesDeleted(s, E))
  BY <1>1 DEF IsView
<1>3. \E W : VerticesDeleted(s, V) = [s EXCEPT !.labels = W]
  BY DEF VerticesDeleted
<1>4. IsView(VerticesDeleted(s, V))
  BY <1>3 DEF IsView
<1>5. DOMAIN Emptied(s) = DOMAIN s
  BY DEF Emptied
<1>6. DOMAIN s = {"labels", "edges", "counted", "pairs", "base", "pending"}
  BY DEF IsView
<1>7. Emptied(s) = [x \in DOMAIN Emptied(s) |-> Emptied(s)[x]]
  BY DEF Emptied
<1>8. IsView(Emptied(s))
  BY <1>5, <1>6, <1>7 DEF IsView
<1> QED BY <1>2, <1>4, <1>8

LEMMA DetachedView ==
    ASSUME NEW s, IsView(s), NEW V
    PROVE  IsView(Detached(s, V))
<1> DEFINE E == Incident(s, V \cap DOMAIN s.labels)
<1>1. IsView(EdgesDeleted(s, E))
  BY DeletionsView
<1>2. IsView(VerticesDeleted(EdgesDeleted(s, E), V))
  BY <1>1, DeletionsView
<1> QED BY <1>2, DeletionsView DEF Detached

\* A step that applies an event of a CREATE or a MERGE adds to the view.
ApplyAdds ==
    ApplyCreate \/ ApplyMergeVertex \/ ApplyMergeBatch \/ ApplyMergeSimple
    \/ ApplyMergeEdge \/ ApplyMergeNothing

LEMMA ApplyStepAdds ==
    ASSUME IsView(tx), ApplyAdds
    PROVE  Adds(tx, tx')
<1>1. CASE ApplyCreate
  <2>1. PICK c \in Created(tx, scratch.autoV, Head(events)) : tx' = c.s
    BY <1>1 DEF ApplyCreate, Applied
  <2> QED BY <2>1, CreatedAdds
<1>2. CASE ApplyMergeVertex
  <2>1. PICK m \in MergedVertex(tx, scratch, Head(events)) : tx' = m.s
    BY <1>2 DEF ApplyMergeVertex, Applied
  <2> QED BY <2>1, MergedVertexAdds
<1>3. CASE ApplyMergeBatch
  BY <1>3, PutEdgeNewBatchAdds DEF ApplyMergeBatch
<1>4. CASE ApplyMergeSimple
  <2> DEFINE p == Ends(Head(events))
             e == EdgeId(p[1], p[2], 0)
  <2>1. tx' = tx \/ (e \notin DOMAIN tx.edges /\ tx' = PutEdgeNew(tx, e, p[1], p[2]))
    BY <1>4 DEF ApplyMergeSimple, Applied
  <2> QED BY <2>1, AddsNothing, PutEdgeNewAdds
<1>5. CASE ApplyMergeEdge
  <2>1. PICK gone, part, a, b : tx' \in MergedEdge(tx, gone, part, a, b)
    BY <1>5 DEF ApplyMergeEdge, Applied
  <2> QED BY <2>1, MergedEdgeAdds
<1>6. CASE ApplyMergeNothing
  BY <1>6, AddsNothing DEF ApplyMergeNothing, Applied
<1> QED BY <1>1, <1>2, <1>3, <1>4, <1>5, <1>6 DEF ApplyAdds

\* The steps of a transaction that apply nothing leave its view alone.
Elsewhere == ExecuteMatch \/ ExecuteWrite \/ MaterializeRow \/ RowsDone \/ EndClause \/ Commit

LEMMA ElsewhereSame == Elsewhere => UNCHANGED tx
<1> SUFFICES ASSUME Elsewhere PROVE UNCHANGED tx
  OBVIOUS
<1>1. CASE ExecuteMatch BY <1>1 DEF ExecuteMatch
<1>2. CASE ExecuteWrite BY <1>2 DEF ExecuteWrite
<1>3. CASE MaterializeRow
  BY <1>3 DEF MaterializeRow, MaterializeCreate, MaterializeMerge, MaterializeDelete, RowDone
<1>4. CASE RowsDone BY <1>4 DEF RowsDone
<1>5. CASE EndClause BY <1>5 DEF EndClause
<1>6. CASE Commit BY <1>6 DEF Commit
<1> QED BY <1>1, <1>2, <1>3, <1>4, <1>5, <1>6 DEF Elsewhere

LEMMA NextSplit == Next => Begin \/ Elsewhere \/ ApplyAdds \/ ApplyDelete \/ Fail
  BY DEF Next, Elsewhere, ApplyAdds

\* The view is a view in every state: Begin takes it from the store, and every
\* step makes it of the one before.
THEOREM ViewAlways == Spec => []IsView(tx)
<1>1. Init => IsView(tx)
  BY DEF Init, View, IsView
<1>2. IsView(tx) /\ [Next]_vars => IsView(tx)'
  <2> SUFFICES ASSUME IsView(tx), [Next]_vars PROVE IsView(tx')
    OBVIOUS
  <2>1. CASE UNCHANGED vars BY <2>1 DEF vars
  <2>2. CASE Begin \/ Fail BY <2>2 DEF Begin, Fail, View, IsView
  <2>3. CASE Elsewhere BY <2>3, ElsewhereSame
  <2>4. CASE ApplyAdds BY <2>4, ApplyStepAdds DEF Adds
  <2>5. CASE ApplyDelete
    <3>1. IsView(WithoutEdges)
      BY DeletionsView DEF WithoutEdges
    <3>2. \A V : IsView(VerticesDeleted(WithoutEdges, V)) /\ IsView(Detached(WithoutEdges, V))
      BY <3>1, DeletionsView, DetachedView
    <3> QED BY <2>5, <3>2 DEF ApplyDelete
  <2> QED BY <2>1, <2>2, <2>3, <2>4, <2>5, NextSplit
<1> QED BY <1>1, <1>2, PTL DEF Spec

\* CREATE and MERGE only add, for all graphs, requests and numbers
\* (applyWriteEventsToSink).
THEOREM WritesAdd == Spec => WritesOnlyAdd
<1>1. ASSUME IsView(tx), [Next]_vars
      PROVE  [mode = "apply" /\ ~Deletes(clause) => Keeps(tx, tx')]_vars
  <2> SUFFICES ASSUME mode = "apply", ~Deletes(clause) PROVE Keeps(tx, tx')
    OBVIOUS
  <2>1. CASE UNCHANGED vars BY <2>1 DEF vars, Keeps
  <2>2. CASE Begin BY <2>2 DEF Begin
  <2>3. CASE ApplyDelete \/ Fail BY <2>3 DEF ApplyDelete, Fail, Deletes
  <2>4. CASE Elsewhere BY <2>4, ElsewhereSame DEF Keeps
  <2>5. CASE ApplyAdds BY <1>1, <2>5, ApplyStepAdds DEF Adds
  <2> QED BY <1>1, <2>1, <2>2, <2>3, <2>4, <2>5, NextSplit
<1> QED BY <1>1, ViewAlways, PTL DEF Spec, WritesOnlyAdd

---------------------------------------------------------------------------
(* Sequences.  What is known of events and clauses is mostly which there   *)
(* are, in a sequence of whatever members.                                 *)

IsSeq(s) == Len(s) \in Nat /\ s = [i \in 1 .. Len(s) |-> s[i]]
Members(s) == {s[i] : i \in DOMAIN s}

LEMMA SeqIs == ASSUME NEW S, NEW s \in Seq(S) PROVE IsSeq(s) /\ Members(s) \subseteq S
  BY DEF IsSeq, Members

LEMMA IsOfMembers == ASSUME NEW s, IsSeq(s) PROVE s \in Seq(Members(s))
<1>1. DOMAIN s = 1 .. Len(s)
  BY DEF IsSeq
<1>2. \A i \in 1 .. Len(s) : s[i] \in Members(s)
  BY <1>1 DEF Members
<1> QED BY <1>2 DEF IsSeq

LEMMA IsEmpty == ASSUME TRUE PROVE IsSeq(<<>>) /\ Members(<<>>) = {}
  BY DEF IsSeq, Members

LEMMA TailIs ==
    ASSUME NEW s, IsSeq(s), s # <<>>
    PROVE  /\ IsSeq(Tail(s)) /\ Len(Tail(s)) = Len(s) - 1 /\ Len(s) > 0
           /\ Head(s) = s[1]
           /\ \A i \in 1 .. Len(s) - 1 : Tail(s)[i] = s[i + 1]
           /\ Members(s) = {Head(s)} \cup Members(Tail(s))
<1> DEFINE S == Members(s)
<1>1. s \in Seq(S)
  BY IsOfMembers
<1> HIDE DEF S
<1>2. /\ Tail(s) \in Seq(S) /\ Len(Tail(s)) = Len(s) - 1 /\ Len(s) > 0
      /\ Head(s) = s[1] /\ DOMAIN s = 1 .. Len(s) /\ DOMAIN Tail(s) = 1 .. Len(s) - 1
      /\ \A i \in 1 .. Len(s) - 1 : Tail(s)[i] = s[i + 1]
  BY <1>1
<1>3. ASSUME NEW i \in 1 .. Len(s) PROVE s[i] = Head(s) \/ s[i] \in Members(Tail(s))
  <2>1. CASE i = 1 BY <1>2, <2>1
  <2>2. CASE i # 1
    <3>1. i - 1 \in 1 .. Len(s) - 1 /\ s[i] = Tail(s)[i - 1]
      BY <1>1, <1>2, <2>2
    <3> QED BY <1>2, <3>1 DEF Members
  <2> QED BY <2>1, <2>2
<1>4. ASSUME NEW i \in 1 .. Len(s) - 1 PROVE Tail(s)[i] \in Members(s)
  <2>1. i + 1 \in 1 .. Len(s) /\ Tail(s)[i] = s[i + 1]
    BY <1>1, <1>2
  <2> QED BY <1>2, <2>1 DEF Members
<1>5. Head(s) \in Members(s)
  BY <1>1, <1>2 DEF Members
<1>6. Members(s) = {Head(s)} \cup Members(Tail(s))
  BY <1>2, <1>3, <1>4, <1>5 DEF Members
<1> QED BY <1>2, <1>6, SeqIs

LEMMA ConcatIs ==
    ASSUME NEW s, IsSeq(s), NEW t, IsSeq(t)
    PROVE  IsSeq(s \o t) /\ Members(s \o t) = Members(s) \cup Members(t)
<1> DEFINE S == Members(s) \cup Members(t)
<1>1. s \in Seq(S) /\ t \in Seq(S)
  <2>1. s \in Seq(Members(s)) /\ t \in Seq(Members(t))
    BY IsOfMembers
  <2> QED BY <2>1
<1> HIDE DEF S
<1>2. /\ s \o t \in Seq(S) /\ Len(s \o t) = Len(s) + Len(t)
      /\ \A i \in 1 .. Len(s) : (s \o t)[i] = s[i]
      /\ \A i \in Len(s) + 1 .. Len(s) + Len(t) : (s \o t)[i] = t[i - Len(s)]
      /\ DOMAIN s = 1 .. Len(s) /\ DOMAIN t = 1 .. Len(t)
      /\ DOMAIN (s \o t) = 1 .. Len(s) + Len(t) /\ Len(s) \in Nat /\ Len(t) \in Nat
  BY <1>1
<1>3. ASSUME NEW i \in 1 .. Len(s) + Len(t) PROVE (s \o t)[i] \in Members(s) \cup Members(t)
  <2>1. CASE i \in 1 .. Len(s) BY <1>2, <2>1 DEF Members
  <2>2. CASE i \in Len(s) + 1 .. Len(s) + Len(t)
    <3>1. i - Len(s) \in 1 .. Len(t)
      BY <1>2, <2>2
    <3> QED BY <1>2, <2>2, <3>1 DEF Members
  <2> QED BY <1>2, <2>1, <2>2
<1>4. ASSUME NEW i \in 1 .. Len(s) PROVE s[i] \in Members(s \o t)
  <2>1. i \in 1 .. Len(s) + Len(t)
    BY <1>2
  <2> QED BY <1>2, <2>1 DEF Members
<1>5. ASSUME NEW i \in 1 .. Len(t) PROVE t[i] \in Members(s \o t)
  <2>1. i + Len(s) \in Len(s) + 1 .. Len(s) + Len(t) /\ i + Len(s) \in 1 .. Len(s) + Len(t)
        /\ (i + Len(s)) - Len(s) = i
    BY <1>2
  <2>2. (s \o t)[i + Len(s)] = t[i]
    BY <1>2, <2>1
  <2> QED BY <1>2, <2>1, <2>2 DEF Members
<1>6. Members(s \o t) = Members(s) \cup Members(t)
  <2>1. Members(s \o t) \subseteq Members(s) \cup Members(t)
    BY <1>2, <1>3 DEF Members
  <2>2. \A x \in Members(s) : x \in Members(s \o t)
    BY <1>2, <1>4 DEF Members
  <2>3. \A x \in Members(t) : x \in Members(s \o t)
    BY <1>2, <1>5 DEF Members
  <2> QED BY <2>1, <2>2, <2>3
<1> QED BY <1>2, <1>6, SeqIs

\* The members of a sequence are those of its first n and those of the rest.
LEMMA RestIs ==
    ASSUME NEW s, IsSeq(s), NEW n \in DOMAIN s
    PROVE  LET t == SubSeq(s, n + 1, Len(s))
               first == {s[i] : i \in 1 .. n}
           IN  /\ IsSeq(t) /\ Len(t) = Len(s) - n
               /\ \A i \in 1 .. Len(s) - n : t[i] = s[i + n]
               /\ Members(s) = first \cup Members(t)
<1> DEFINE S == Members(s)
           t == SubSeq(s, n + 1, Len(s))
<1>1. s \in Seq(S) /\ n \in 1 .. Len(s) /\ Len(s) \in Nat /\ DOMAIN s = 1 .. Len(s)
  BY IsOfMembers DEF IsSeq
<1> HIDE DEF S
<1>2. /\ t \in Seq(S) /\ Len(t) = Len(s) - n /\ DOMAIN t = 1 .. Len(s) - n
      /\ \A i \in 1 .. Len(s) - n : t[i] = s[i + n]
  <2>1. t = [i \in 1 .. Len(s) - n |-> s[i + n]]
    BY <1>1
  <2>2. t \in Seq(S) /\ Len(t) = Len(s) - n
    BY <1>1
  <2> HIDE DEF t
  <2> QED BY <2>1, <2>2
<1>3. ASSUME NEW i \in 1 .. Len(s) PROVE s[i] \in {s[k] : k \in 1 .. n} \cup Members(t)
  <2>1. CASE i \in 1 .. n BY <2>1
  <2>2. CASE i \in n + 1 .. Len(s)
    <3>1. i - n \in 1 .. Len(s) - n /\ (i - n) + n = i
      BY <1>1, <2>2
    <3>2. t[i - n] = s[i]
      BY <1>2, <3>1
    <3> QED BY <1>2, <3>1, <3>2 DEF Members
  <2> QED BY <1>1, <2>1, <2>2
<1>4. ASSUME NEW i \in 1 .. Len(s) - n PROVE t[i] \in Members(s)
  <2>1. i + n \in 1 .. Len(s)
    BY <1>1
  <2> QED BY <1>1, <1>2, <2>1 DEF Members
<1>5. \A i \in 1 .. n : s[i] \in Members(s)
  BY <1>1 DEF Members
<1>6. Members(s) = {s[k] : k \in 1 .. n} \cup Members(t)
  <2>1. \A x \in Members(s) : x \in {s[k] : k \in 1 .. n} \cup Members(t)
    BY <1>1, <1>3 DEF Members
  <2>2. \A x \in Members(t) : x \in Members(s)
    BY <1>2, <1>4 DEF Members
  <2> QED BY <1>5, <2>1, <2>2
<1> QED BY <1>2, <1>6, SeqIs

\* A set that has 0 and with every number the next has all numbers.
LEMMA SetInduction ==
    ASSUME NEW S, 0 \in S, \A n \in Nat : n \in S => n + 1 \in S
    PROVE  Nat \subseteq S
<1> DEFINE R == OpToRel(<, Nat)
           Out == Nat \ S
<1>1. SUFFICES ASSUME Out # {} PROVE FALSE
  OBVIOUS
<1>2. PICK n \in Out : \A m \in Out : <<m, n>> \notin R
  <2>1. IsWellFoundedOn(R, Nat)
    BY NatLessThanWellFounded
  <2> HIDE DEF R
  <2>2. Out \subseteq Nat
    OBVIOUS
  <2> QED BY <1>1, <2>1, <2>2, WFMin
<1>3. \A m \in Out : ~(m < n)
  <2>1. \A m \in Out : <<m, n>> \in R <=> m < n
    BY DEF OpToRel
  <2> QED BY <1>2, <2>1
<1>4. n # 0 /\ n - 1 \in Nat /\ n - 1 < n
  OBVIOUS
<1>5. n - 1 \in S
  BY <1>3, <1>4
<1> QED BY <1>4, <1>5

\* What the parts of a CREATE make of a row, one after the other: the
\* recursion has a value, which its equation describes.
LEMMA CreatedAfterIs ==
    ASSUME NEW r, NEW parts, Len(parts) \in Nat
    PROVE  LET f == CreatedAfter(r, parts)
           IN  f = [i \in 0 .. Len(parts) |->
                       IF i = 0 THEN r ELSE CreatePart(f[i - 1], parts[i])]
<1> DEFINE F(g, n) == g = [i \in 0 .. n |-> IF i = 0 THEN r ELSE CreatePart(g[i - 1], parts[i])]
           S == {n \in Nat : \E g : F(g, n)}
<1>1. 0 \in S
  <2> DEFINE g == [i \in 0 .. 0 |-> r]
  <2>1. F(g, 0)
    OBVIOUS
  <2> QED BY <2>1
<1>2. ASSUME NEW n \in Nat, n \in S PROVE n + 1 \in S
  <2>1. PICK g : F(g, n)
    BY <1>2
  <2> DEFINE h == [i \in 0 .. n + 1 |-> IF i = n + 1 THEN CreatePart(g[n], parts[n + 1]) ELSE g[i]]
  <2>2. \A i \in 0 .. n : h[i] = g[i]
    OBVIOUS
  <2>3. \A i \in 0 .. n : g[i] = IF i = 0 THEN r ELSE CreatePart(g[i - 1], parts[i])
    BY <2>1
  <2>4. \A i \in 0 .. n + 1 : h[i] = IF i = 0 THEN r ELSE CreatePart(h[i - 1], parts[i])
    <3> TAKE i \in 0 .. n + 1
    <3>1. CASE i = n + 1
      <4>1. h[i] = CreatePart(g[n], parts[i]) /\ i # 0 /\ i - 1 = n /\ n \in 0 .. n
        BY <3>1
      <4> QED BY <4>1, <2>2
    <3>2. CASE i \in 0 .. n
      <4>1. i = 0 \/ i - 1 \in 0 .. n
        BY <3>2
      <4> QED BY <3>2, <4>1, <2>2, <2>3
    <3> QED BY <3>1, <3>2
  <2>5. h = [i \in 0 .. n + 1 |-> h[i]]
    OBVIOUS
  <2> HIDE DEF h
  <2>6. F(h, n + 1)
    BY <2>4, <2>5
  <2> QED BY <2>6
<1>3. \E g : F(g, Len(parts))
  <2> HIDE DEF S
  <2>1. Len(parts) \in S
    BY <1>1, <1>2, SetInduction
  <2> QED BY <2>1 DEF S
<1> QED BY <1>3 DEF CreatedAfter

\* What holds at first and is kept by every part holds after each number of
\* parts; what holds is given as the set of the numbers after which it does.
LEMMA AfterEachPart ==
    ASSUME NEW r, NEW parts, Len(parts) \in Nat, NEW S,
           0 \in S,
           \A i \in 1 .. Len(parts) : i - 1 \in S => i \in S
    PROVE  0 .. Len(parts) \subseteq S
<1> DEFINE T == {n \in Nat : n <= Len(parts) => n \in S}
<1>1. 0 \in T /\ \A n \in Nat : n \in T => n + 1 \in T
  <2>1. ASSUME NEW n \in Nat, n \in T, n + 1 <= Len(parts) PROVE n + 1 \in S
    <3>1. n \in S /\ n + 1 \in 1 .. Len(parts) /\ (n + 1) - 1 = n
      BY <2>1
    <3> QED BY <3>1
  <2> QED BY <2>1
<1> HIDE DEF T
<1>2. Nat \subseteq T
  BY <1>1, SetInduction
<1> QED BY <1>2 DEF T

---------------------------------------------------------------------------
(* The store: what every operation on a view keeps *)

\* Vertex ids are told from edge ids and from the missing end by how they begin.
IsVertexId(v) == v[1] \notin {"e", "auto-e", "none"}

GraphOK(g) ==
    /\ IsFiniteSet(DOMAIN g.edges)
    /\ \A v \in DOMAIN g.labels : IsVertexId(v)
    /\ \A e \in DOMAIN g.edges :
          /\ e = EdgeId(e[2], e[3], e[4]) /\ e[4] \in Nat /\ g.edges[e] = <<e[2], e[3]>>
          /\ IsVertexId(e[2]) /\ IsVertexId(e[3])

PairsOK(f) == \A p \in DOMAIN f : f[p] \in Nat \ {0}
TxOK(s) ==
    /\ IsView(s) /\ GraphOK(s) /\ PairsOK(s.pairs) /\ PairsOK(s.base)
    /\ s.counted \in Nat /\ s.pending \in Int

IsPair(p) == p = <<p[1], p[2]>> /\ IsVertexId(p[1]) /\ IsVertexId(p[2])

LEMMA EdgeIdParts ==
    ASSUME NEW a, NEW b, NEW n
    PROVE  LET e == EdgeId(a, b, n)
           IN  e = EdgeId(e[2], e[3], e[4]) /\ e[1] = "e" /\ e[2] = a /\ e[3] = b /\ e[4] = n
  BY DEF EdgeId

LEMMA PutVertexOK ==
    ASSUME NEW s, TxOK(s), NEW v, IsVertexId(v), NEW lab
    PROVE  TxOK(PutVertex(s, v, lab))
<1> DEFINE t == PutVertex(s, v, lab)
<1>1. /\ IsView(t) /\ t.edges = s.edges /\ t.labels = Put(s.labels, v, LabelSet(lab))
      /\ t.pairs = s.pairs /\ t.base = s.base /\ t.counted = s.counted /\ t.pending = s.pending
  BY DEF TxOK, IsView, PutVertex
<1>2. DOMAIN t.labels = DOMAIN s.labels \cup {v}
  BY <1>1 DEF Put
<1> HIDE DEF t
<1> QED BY <1>1, <1>2 DEF TxOK, GraphOK, t

\* A pair count that is kept is positive.
LEMMA PairAdjustedOK ==
    ASSUME NEW s, TxOK(s), NEW p, NEW d \in Int
    PROVE  LET t == PairAdjusted(s, p, d)
           IN  /\ TxOK(t) /\ t.labels = s.labels /\ t.edges = s.edges
               /\ t.counted = s.counted /\ t.pending = s.pending
<1> DEFINE n == At(s.base, p, At(s.pairs, p, 0)) + d
           X == IF p \in DOMAIN s.pairs /\ p \notin DOMAIN s.base
                THEN Put(s.base, p, s.pairs[p]) ELSE s.base
           Y == IF n <= 0 THEN Only(s.pairs, DOMAIN s.pairs \ {p}) ELSE Put(s.pairs, p, n)
           t == PairAdjusted(s, p, d)
<1>1. t = [s EXCEPT !.base = X, !.pairs = Y]
  BY DEF PairAdjusted
<1>2. n \in Int
  BY DEF TxOK, PairsOK, At
<1>3. PairsOK(X)
  BY DEF TxOK, PairsOK, Put
<1>4. PairsOK(Y)
  BY <1>2 DEF TxOK, PairsOK, Put, Only
<1> HIDE DEF X, Y, t, n
<1>5. /\ IsView(t) /\ t.labels = s.labels /\ t.edges = s.edges /\ t.counted = s.counted
      /\ t.pending = s.pending /\ t.base = X /\ t.pairs = Y
  BY <1>1 DEF TxOK, IsView
<1> QED BY <1>3, <1>4, <1>5 DEF TxOK, GraphOK, t

LEMMA PutEdgeNewOK ==
    ASSUME NEW s, TxOK(s), NEW a, IsVertexId(a), NEW b, IsVertexId(b), NEW n \in Nat
    PROVE  LET t == PutEdgeNew(s, EdgeId(a, b, n), a, b)
           IN  /\ TxOK(t) /\ t.labels = s.labels /\ t.counted = s.counted
               /\ t.edges = Put(s.edges, EdgeId(a, b, n), <<a, b>>)
               /\ t.pending = s.pending + 1
<1> DEFINE r == PairAdjusted(s, <<a, b>>, 1)
           e == EdgeId(a, b, n)
           t == PutEdgeNew(s, e, a, b)
<1>1. /\ TxOK(r) /\ r.labels = s.labels /\ r.edges = s.edges
      /\ r.counted = s.counted /\ r.pending = s.pending
  BY PairAdjustedOK
<1>2. t = [r EXCEPT !.edges = Put(r.edges, e, <<a, b>>), !.pending = r.pending + 1]
  BY DEF PutEdgeNew
<1>3. e = EdgeId(e[2], e[3], e[4]) /\ e[2] = a /\ e[3] = b /\ e[4] \in Nat
  BY EdgeIdParts
<1> HIDE DEF r, t, e
<1>4. /\ IsView(t) /\ t.labels = r.labels /\ t.edges = Put(r.edges, e, <<a, b>>)
      /\ t.pairs = r.pairs /\ t.base = r.base /\ t.counted = r.counted /\ t.pending = r.pending + 1
  BY <1>1, <1>2 DEF TxOK, IsView
<1>5. DOMAIN t.edges = DOMAIN s.edges \cup {e}
  BY <1>1, <1>4 DEF Put
<1>6. IsFiniteSet(DOMAIN t.edges)
  BY <1>5, FS_AddElement DEF TxOK, GraphOK
<1>7. \A d \in DOMAIN t.edges : t.edges[d] = IF d = e THEN <<a, b>> ELSE s.edges[d]
  BY <1>1, <1>4 DEF Put
<1>8. GraphOK(t)
  BY <1>1, <1>3, <1>4, <1>5, <1>6, <1>7 DEF TxOK, GraphOK
<1> QED BY <1>1, <1>4, <1>8 DEF TxOK, t, e

LEMMA PlainIds ==
    ASSUME NEW P, IsFiniteSet(P), \A p \in P : IsPair(p)
    PROVE  LET E == {EdgeId(p[1], p[2], 0) : p \in P}
           IN  IsFiniteSet(E) /\ Cardinality(E) = Cardinality(P)
<1> DEFINE E == {EdgeId(p[1], p[2], 0) : p \in P}
           f == [p \in P |-> EdgeId(p[1], p[2], 0)]
<1>1. \A p, q \in P : f[p] = f[q] => p = q
  BY EdgeIdParts DEF IsPair
<1>2. f \in Surjection(P, E)
  BY DEF Surjection
<1>3. f \in Injection(P, E)
  BY <1>1, <1>2 DEF Injection, IsInjective, Surjection
<1> HIDE DEF E, f
<1> QED BY <1>2, <1>3, FS_Surjection DEF E

\* A batch takes the number of its edges from the increment, whether or not an
\* edge was there under the id.
LEMMA PutEdgeNewBatchOK ==
    ASSUME NEW s, TxOK(s), NEW P, IsFiniteSet(P), \A p \in P : IsPair(p)
    PROVE  LET t == PutEdgeNewBatch(s, P)
               E == {EdgeId(p[1], p[2], 0) : p \in P}
           IN  /\ TxOK(t) /\ t.labels = s.labels /\ t.counted = s.counted
               /\ DOMAIN t.edges = DOMAIN s.edges \cup E
               /\ \A e \in DOMAIN s.edges : t.edges[e] = s.edges[e]
               /\ t.pending = s.pending + Cardinality(P)
<1> DEFINE t == PutEdgeNewBatch(s, P)
           E == {EdgeId(p[1], p[2], 0) : p \in P}
           NewCount(p) == At(s.base, p, At(s.pairs, p, 0)) + 1
           W == [e \in DOMAIN s.edges \cup E |->
                    IF e \in DOMAIN s.edges THEN s.edges[e] ELSE <<e[2], e[3]>>]
           X == [p \in DOMAIN s.base \cup (P \cap DOMAIN s.pairs) |-> At(s.base, p, At(s.pairs, p, 0))]
           Y == [p \in DOMAIN s.pairs \cup P |-> IF p \in P THEN NewCount(p) ELSE s.pairs[p]]
<1>1. t = [s EXCEPT !.edges = W, !.base = X, !.pairs = Y, !.pending = s.pending + Cardinality(P)]
  BY DEF PutEdgeNewBatch
<1>2. PairsOK(X)
  BY DEF TxOK, PairsOK, At
<1>3. PairsOK(Y)
  BY DEF TxOK, PairsOK, At
<1>4. Cardinality(P) \in Nat
  BY FS_CardinalityType
<1>5. IsFiniteSet(DOMAIN W)
  BY PlainIds, FS_Union DEF TxOK, GraphOK
<1>6. \A e \in E : e = EdgeId(e[2], e[3], e[4]) /\ e[4] \in Nat /\ IsVertexId(e[2]) /\ IsVertexId(e[3])
  BY EdgeIdParts DEF IsPair
<1>7. DOMAIN W = DOMAIN s.edges \cup E /\ \A e \in DOMAIN W : W[e] = IF e \in DOMAIN s.edges
                                                             THEN s.edges[e] ELSE <<e[2], e[3]>>
  OBVIOUS
<1> HIDE DEF t, E, W, X, Y
<1>8. /\ IsView(t) /\ t.labels = s.labels /\ t.edges = W /\ t.counted = s.counted
      /\ t.base = X /\ t.pairs = Y /\ t.pending = s.pending + Cardinality(P)
  BY <1>1 DEF TxOK, IsView
<1>9. GraphOK(t)
  BY <1>5, <1>6, <1>7, <1>8 DEF TxOK, GraphOK
<1>10. \A e \in DOMAIN s.edges : t.edges[e] = s.edges[e]
  BY <1>7, <1>8
<1>11. TxOK(t)
  BY <1>2, <1>3, <1>4, <1>8, <1>9 DEF TxOK
<1> QED BY <1>7, <1>8, <1>10, <1>11 DEF t, E

LEMMA EdgesDeletedOK ==
    ASSUME NEW s, TxOK(s), NEW E, E \subseteq DOMAIN s.edges
    PROVE  LET t == EdgesDeleted(s, E)
           IN  /\ TxOK(t) /\ t.labels = s.labels /\ t.counted = s.counted
               /\ DOMAIN t.edges = DOMAIN s.edges \ E
               /\ \A e \in DOMAIN t.edges : t.edges[e] = s.edges[e]
               /\ t.pending = s.pending - Cardinality(E)
<1> DEFINE t == EdgesDeleted(s, E)
           pairs == {s.edges[e] : e \in E}
           NewCount(p) == At(s.base, p, At(s.pairs, p, 0)) - Cardinality(Between(s, p[1], p[2]) \cap E)
           W == Only(s.edges, DOMAIN s.edges \ E)
           X == [p \in DOMAIN s.base \cup (pairs \cap DOMAIN s.pairs) |-> At(s.base, p, At(s.pairs, p, 0))]
           Y == [p \in {q \in DOMAIN s.pairs \cup pairs : q \in pairs => NewCount(q) > 0} |->
                    IF p \in pairs THEN NewCount(p) ELSE s.pairs[p]]
<1>1. t = [s EXCEPT !.edges = W, !.base = X, !.pairs = Y, !.pending = s.pending - Cardinality(E)]
  BY DEF EdgesDeleted
<1>2. PairsOK(X)
  BY DEF TxOK, PairsOK, At
<1>3. IsFiniteSet(E) /\ Cardinality(E) \in Nat /\ IsFiniteSet(DOMAIN s.edges \ E)
  BY FS_Subset, FS_CardinalityType, FS_Difference DEF TxOK, GraphOK
<1>4. \A p : NewCount(p) \in Int
  <2> TAKE p
  <2>1. Cardinality(Between(s, p[1], p[2]) \cap E) \in Nat
    BY <1>3, FS_Intersection, FS_CardinalityType
  <2>2. At(s.base, p, At(s.pairs, p, 0)) \in Int
    BY DEF TxOK, PairsOK, At
  <2> QED BY <2>1, <2>2
<1>5. PairsOK(Y)
  <2> HIDE DEF NewCount, pairs
  <2> QED BY <1>4 DEF TxOK, PairsOK
<1>6. DOMAIN W = DOMAIN s.edges \ E /\ \A e \in DOMAIN W : W[e] = s.edges[e]
  BY DEF Only
<1> HIDE DEF t, W, X, Y
<1>7. /\ IsView(t) /\ t.labels = s.labels /\ t.edges = W /\ t.counted = s.counted
      /\ t.base = X /\ t.pairs = Y /\ t.pending = s.pending - Cardinality(E)
  BY <1>1 DEF TxOK, IsView
<1>8. GraphOK(t)
  BY <1>3, <1>6, <1>7 DEF TxOK, GraphOK
<1> QED BY <1>2, <1>3, <1>5, <1>6, <1>7, <1>8 DEF TxOK, t

LEMMA VerticesDeletedOK ==
    ASSUME NEW s, TxOK(s), NEW V
    PROVE  LET t == VerticesDeleted(s, V)
           IN  /\ TxOK(t) /\ t.edges = s.edges /\ t.counted = s.counted /\ t.pending = s.pending
               /\ t.pairs = s.pairs /\ t.base = s.base
               /\ DOMAIN t.labels = DOMAIN s.labels \ V
<1> DEFINE t == VerticesDeleted(s, V)
           W == Only(s.labels, DOMAIN s.labels \ V)
<1>1. t = [s EXCEPT !.labels = W]
  BY DEF VerticesDeleted
<1>2. DOMAIN W = DOMAIN s.labels \ V
  BY DEF Only
<1> HIDE DEF t, W
<1>3. /\ IsView(t) /\ t.labels = W /\ t.edges = s.edges /\ t.counted = s.counted
      /\ t.base = s.base /\ t.pairs = s.pairs /\ t.pending = s.pending
  BY <1>1 DEF TxOK, IsView
<1> QED BY <1>2, <1>3 DEF TxOK, GraphOK, t

LEMMA EmptiedOK ==
    ASSUME NEW s, TxOK(s)
    PROVE  LET t == Emptied(s)
           IN  /\ TxOK(t) /\ DOMAIN t.labels = {} /\ DOMAIN t.edges = {} /\ DOMAIN t.pairs = {}
               /\ DOMAIN t.base = {} /\ t.counted = 0 /\ t.pending = 0
<1> DEFINE t == Emptied(s)
<1>1. DOMAIN Nothing = {}
  BY DEF Nothing
<1>2. IsView(t)
  BY DeletionsView DEF TxOK
<1>3. /\ t.labels = Nothing /\ t.edges = Nothing /\ t.pairs = Nothing
      /\ t.base = Nothing /\ t.counted = 0 /\ t.pending = 0
  BY DEF Emptied, TxOK, IsView
<1> HIDE DEF t
<1> QED BY <1>1, <1>2, <1>3, FS_EmptySet DEF TxOK, GraphOK, PairsOK, t

\* t is s without V: everything is gone, or the edges of the vertices and then these.
DetachedTo(s, V, t) ==
    LET E == Incident(s, V \cap DOMAIN s.labels)
    IN  \/ V # {} /\ DOMAIN s.labels \subseteq V /\ t = Emptied(s)
        \/ /\ t = VerticesDeleted(EdgesDeleted(s, E), V)
           /\ DOMAIN t.labels = DOMAIN s.labels \ V
           /\ DOMAIN t.edges = DOMAIN s.edges \ E
           /\ \A e \in DOMAIN t.edges : t.edges[e] = s.edges[e]

\* Detached (DeleteVertexDetachBatch) leaves a view without the vertices.
LEMMA DetachedOK ==
    ASSUME NEW s, TxOK(s), NEW V
    PROVE  TxOK(Detached(s, V)) /\ DetachedTo(s, V, Detached(s, V))
<1> DEFINE V0 == V \cap DOMAIN s.labels
           r == EdgesDeleted(s, Incident(s, V0))
<1>1. /\ TxOK(r) /\ r.labels = s.labels /\ DOMAIN r.edges = DOMAIN s.edges \ Incident(s, V0)
      /\ \A e \in DOMAIN r.edges : r.edges[e] = s.edges[e]
  <2>1. Incident(s, V0) \subseteq DOMAIN s.edges
    BY DEF Incident
  <2> HIDE DEF V0
  <2> QED BY <2>1, EdgesDeletedOK
<1> HIDE DEF r
<1>2. LET t == VerticesDeleted(r, V)
      IN  TxOK(t) /\ t.edges = r.edges /\ DOMAIN t.labels = DOMAIN r.labels \ V
  BY <1>1, VerticesDeletedOK
<1> QED BY <1>1, <1>2, EmptiedOK DEF Detached, DetachedTo, r

---------------------------------------------------------------------------
(* Rows: what a name is bound to, and what PHY_WRITE does to a row *)

IsRow(row) == row = [at |-> row.at, id |-> row.id, gone |-> row.gone]
IsParams(p) ==
    p = [nth |-> p.nth, nextV |-> p.nextV, nextMV |-> p.nextMV, nextE |-> p.nextE,
         counts |-> p.counts, found |-> p.found, made |-> p.made, goneV |-> p.goneV,
         goneE |-> p.goneE]

\* the names of hops have ids of edges, the others those of vertices
NamesOK(at) ==
    /\ Anon \notin DOMAIN at
    /\ \A x \in DOMAIN at : IF x \in HopNames THEN at[x][1] \in {"e", "auto-e"}
                            ELSE IsVertexId(at[x])

RowOK(row, p) ==
    /\ IsRow(row) /\ NamesOK(row.at)
    /\ DOMAIN row.id \subseteq DOMAIN row.at /\ row.gone \subseteq p.goneE

ParamsOK(p) ==
    /\ IsParams(p)
    /\ \A lab \in DOMAIN p.found : p.found[lab] = None \/ IsVertexId(p.found[lab])
    /\ \A key \in DOMAIN p.made : IsVertexId(p.made[key])

BothOK(r) ==
    /\ r = [row |-> r.row, params |-> r.params]
    /\ RowOK(r.row, r.params) /\ ParamsOK(r.params)

\* what the row r and its parameters share with t, which is made of it
Continues(r, t) ==
    /\ t.row.gone = r.row.gone
    /\ t.params.goneE = r.params.goneE /\ t.params.goneV = r.params.goneV
    /\ \A x \in DOMAIN r.row.at : /\ x \in DOMAIN t.row.at
                                  /\ x \notin HopNames => t.row.at[x] = r.row.at[x]

\* t is r with x bound to id, but for the counters of the parameters
Rebound(r, x, id, t) ==
    /\ t = [row |-> t.row, params |-> t.params] /\ IsRow(t.row) /\ IsParams(t.params)
    /\ t.row.at = Put(r.row.at, x, id) /\ t.row.id = r.row.id /\ t.row.gone = r.row.gone
    /\ t.params.found = r.params.found /\ t.params.made = r.params.made
    /\ t.params.goneE = r.params.goneE /\ t.params.goneV = r.params.goneV

LEMMA PartNames ==
    ASSUME NEW part \in AllParts
    PROVE  /\ \A node \in NodesOf(part) : node.var \notin HopNames
           /\ IsHop(part) /\ part.hop # Anon => part.hop \in HopNames
  BY ProgramAssumption DEF HopNames

\* A node that has no id yet gets one.
LEMMA CreateNodeOK ==
    ASSUME NEW r, BothOK(r), NEW node, node.var \notin HopNames
    PROVE  LET t == CreateNode(r, node)
           IN  /\ BothOK(t) /\ Continues(r, t)
               /\ t.params.found = r.params.found /\ t.params.made = r.params.made
               /\ t.row.id = r.row.id
               /\ DOMAIN t.row.at = DOMAIN r.row.at \cup ({node.var} \ {Anon})
               /\ \A x \in DOMAIN r.row.at : t.row.at[x] = r.row.at[x]
<1> DEFINE t == CreateNode(r, node)
           id == WriteVertex(r.params.nth, r.params.nextV + 1)
<1>1. CASE node.var = Anon \/ node.var \in DOMAIN r.row.at
  <2>1. t = r
    BY <1>1 DEF CreateNode
  <2>2. {node.var} \ {Anon} \subseteq DOMAIN r.row.at
    BY <1>1
  <2> QED BY <2>1, <2>2 DEF BothOK, Continues
<1>2. CASE ~(node.var = Anon \/ node.var \in DOMAIN r.row.at)
  <2>1. t = [r EXCEPT !.row.at = Put(r.row.at, node.var, id), !.params.nextV = r.params.nextV + 1]
    BY <1>2 DEF CreateNode
  <2>2. IsVertexId(id)
    BY DEF IsVertexId, WriteVertex
  <2> HIDE DEF t, id
  <2>3. /\ t = [row |-> [r.row EXCEPT !.at = Put(r.row.at, node.var, id)],
                params |-> [r.params EXCEPT !.nextV = r.params.nextV + 1]]
    BY <2>1 DEF BothOK
  <2>4. /\ IsRow(t.row) /\ t.row.at = Put(r.row.at, node.var, id) /\ t.row.id = r.row.id
        /\ t.row.gone = r.row.gone
    BY <2>3 DEF BothOK, RowOK, IsRow
  <2>5. /\ IsParams(t.params) /\ t.params.found = r.params.found /\ t.params.made = r.params.made
        /\ t.params.goneE = r.params.goneE /\ t.params.goneV = r.params.goneV
    BY <2>3 DEF BothOK, ParamsOK, IsParams
  <2>6. /\ DOMAIN t.row.at = DOMAIN r.row.at \cup {node.var}
        /\ t.row.at[node.var] = id
        /\ \A x \in DOMAIN r.row.at : t.row.at[x] = r.row.at[x]
    BY <1>2, <2>4 DEF Put
  <2>7. NamesOK(t.row.at)
    BY <1>2, <2>2, <2>6 DEF BothOK, RowOK, NamesOK
  <2>8. BothOK(t)
    BY <2>3, <2>4, <2>5, <2>6, <2>7 DEF BothOK, RowOK, ParamsOK
  <2>9. Continues(r, t)
    BY <2>4, <2>5, <2>6 DEF Continues
  <2> QED BY <1>2, <2>4, <2>5, <2>6, <2>8, <2>9 DEF t
<1> QED BY <1>1, <1>2

\* The name of a hop is bound to an id of an edge.
LEMMA CreateEdgeOK ==
    ASSUME NEW r, BothOK(r), NEW at, NEW part \in AllParts
    PROVE  LET t == CreateEdge(r, at, part)
           IN  /\ BothOK(t) /\ Continues(r, t)
               /\ t.params.found = r.params.found /\ t.params.made = r.params.made
               /\ t.row.id = r.row.id
               /\ DOMAIN t.row.at = DOMAIN r.row.at
                                    \cup (IF IsHop(part) THEN {part.hop} \ {Anon} ELSE {})
               /\ \A x \in DOMAIN r.row.at : x # part.hop => t.row.at[x] = r.row.at[x]
<1> DEFINE t == CreateEdge(r, at, part)
<1>1. CASE ~IsHop(part) \/ part.hop = Anon
  <2>1. t = r
    BY <1>1 DEF CreateEdge
  <2> QED BY <1>1, <2>1 DEF BothOK, Continues
<1>2. CASE ~(~IsHop(part) \/ part.hop = Anon)
  <2>1. \E id : id[1] \in {"e", "auto-e"} /\ Rebound(r, part.hop, id, t)
    <3> DEFINE a == part.left.var
               b == part.right.var
               p == <<At(at, a, None), At(at, b, None)>>
               n == At(r.params.counts, p, 0) + 1
               e == EdgeId(p[1], p[2], IF n = 1 THEN 0 ELSE n)
               u == UnplacedEdge(r.params.nextE + 1)
               c == Put(r.params.counts, p, n)
    <3>1. e[1] = "e" /\ u[1] = "auto-e"
      BY DEF EdgeId, UnplacedEdge
    <3>2. \/ t = [r EXCEPT !.params.counts = c, !.row.at = Put(r.row.at, part.hop, e)]
          \/ t = [r EXCEPT !.params.nextE = r.params.nextE + 1, !.row.at = Put(r.row.at, part.hop, u)]
      BY <1>2 DEF CreateEdge
    <3> HIDE DEF t, e, u, c
    <3>3. CASE t = [r EXCEPT !.params.counts = c, !.row.at = Put(r.row.at, part.hop, e)]
      <4>1. t = [row |-> [r.row EXCEPT !.at = Put(r.row.at, part.hop, e)],
                 params |-> [r.params EXCEPT !.counts = c]]
        BY <3>3 DEF BothOK
      <4>2. Rebound(r, part.hop, e, t)
        BY <4>1 DEF Rebound, BothOK, RowOK, IsRow, ParamsOK, IsParams
      <4> QED BY <3>1, <4>2
    <3>4. CASE t = [r EXCEPT !.params.nextE = r.params.nextE + 1, !.row.at = Put(r.row.at, part.hop, u)]
      <4>1. t = [row |-> [r.row EXCEPT !.at = Put(r.row.at, part.hop, u)],
                 params |-> [r.params EXCEPT !.nextE = r.params.nextE + 1]]
        BY <3>4 DEF BothOK
      <4>2. Rebound(r, part.hop, u, t)
        BY <4>1 DEF Rebound, BothOK, RowOK, IsRow, ParamsOK, IsParams
      <4> QED BY <3>1, <4>2
    <3> QED BY <3>2, <3>3, <3>4
  <2> HIDE DEF t
  <2>2. PICK id : id[1] \in {"e", "auto-e"} /\ Rebound(r, part.hop, id, t)
    BY <2>1
  <2>3. part.hop \in HopNames /\ part.hop # Anon
    BY <1>2, PartNames
  <2>4. t.row.at = Put(r.row.at, part.hop, id)
    BY <2>2 DEF Rebound
  <2>6. /\ DOMAIN t.row.at = DOMAIN r.row.at \cup {part.hop}
        /\ t.row.at[part.hop] = id
        /\ \A x \in DOMAIN r.row.at : x # part.hop => t.row.at[x] = r.row.at[x]
    BY <2>4 DEF Put
  <2>7. NamesOK(t.row.at)
    BY <2>2, <2>3, <2>6 DEF BothOK, RowOK, NamesOK
  <2>8. BothOK(t)
    BY <2>2, <2>6, <2>7 DEF BothOK, RowOK, ParamsOK, Rebound
  <2>9. Continues(r, t)
    BY <2>2, <2>3, <2>6 DEF Continues, Rebound
  <2> QED BY <1>2, <2>2, <2>3, <2>6, <2>8, <2>9 DEF t, Rebound
<1> QED BY <1>1, <1>2

LEMMA ContinuesOn ==
    ASSUME NEW r, NEW t, NEW u, Continues(r, t), Continues(t, u)
    PROVE  Continues(r, u)
  BY DEF Continues

LEMMA CreatePartOK ==
    ASSUME NEW r, BothOK(r), NEW part \in AllParts
    PROVE  LET t == CreatePart(r, part)
           IN  /\ BothOK(t) /\ Continues(r, t)
               /\ t.params.found = r.params.found /\ t.params.made = r.params.made
               /\ t.row.id = r.row.id
               /\ DOMAIN t.row.at = DOMAIN r.row.at \cup PartBinds(part)
               /\ \A x \in DOMAIN r.row.at :
                     (IsHop(part) => x # part.hop) => t.row.at[x] = r.row.at[x]
<1> DEFINE left  == CreateNode(r, part.left)
           nodes == IF IsHop(part) THEN CreateNode(left, part.right) ELSE left
           t     == CreateEdge(nodes, r.row.at, part)
<1>1. CreatePart(r, part) = t
  BY DEF CreatePart
<1>2. /\ part.left.var \notin HopNames
      /\ IsHop(part) => part.right.var \notin HopNames
  BY PartNames DEF NodesOf
<1>3. /\ BothOK(left) /\ Continues(r, left)
      /\ left.params.found = r.params.found /\ left.params.made = r.params.made
      /\ left.row.id = r.row.id
      /\ DOMAIN left.row.at = DOMAIN r.row.at \cup ({part.left.var} \ {Anon})
      /\ \A x \in DOMAIN r.row.at : left.row.at[x] = r.row.at[x]
  BY <1>2, CreateNodeOK
<1> HIDE DEF left
<1>4. /\ BothOK(nodes) /\ Continues(r, nodes)
      /\ nodes.params.found = r.params.found /\ nodes.params.made = r.params.made
      /\ nodes.row.id = r.row.id
      /\ DOMAIN nodes.row.at = DOMAIN r.row.at \cup ({node.var : node \in NodesOf(part)} \ {Anon})
      /\ \A x \in DOMAIN r.row.at : nodes.row.at[x] = r.row.at[x]
  <2>1. CASE ~IsHop(part)
    <3>1. NodesOf(part) = {part.left} /\ nodes = left
      BY <2>1 DEF NodesOf
    <3>2. {node.var : node \in NodesOf(part)} = {part.left.var}
      BY <3>1
    <3> HIDE DEF nodes
    <3> QED BY <1>3, <3>1, <3>2
  <2>2. CASE IsHop(part)
    <3> DEFINE u == CreateNode(left, part.right)
    <3>1. /\ BothOK(u) /\ Continues(left, u)
          /\ u.params.found = left.params.found /\ u.params.made = left.params.made
          /\ u.row.id = left.row.id
          /\ DOMAIN u.row.at = DOMAIN left.row.at \cup ({part.right.var} \ {Anon})
          /\ \A x \in DOMAIN left.row.at : u.row.at[x] = left.row.at[x]
      <4>1. BothOK(left) /\ part.right.var \notin HopNames
        BY <1>2, <1>3, <2>2
      <4> QED BY ONLY <4>1, CreateNodeOK
    <3> HIDE DEF u
    <3>2. NodesOf(part) = {part.left, part.right}
      BY <2>2 DEF NodesOf
    <3>3. nodes = u
      BY <2>2 DEF u
    <3> HIDE DEF nodes
    <3>4. Continues(r, u)
      BY <1>3, <3>1, ContinuesOn
    <3>5. DOMAIN u.row.at = DOMAIN r.row.at \cup ({node.var : node \in NodesOf(part)} \ {Anon})
      BY <1>3, <3>1, <3>2
    <3> QED BY <1>3, <3>1, <3>3, <3>4, <3>5
  <2> QED BY <2>1, <2>2
<1> HIDE DEF nodes
<1>5. /\ BothOK(t) /\ Continues(nodes, t) /\ t.params.found = nodes.params.found /\ t.params.made = nodes.params.made
      /\ t.row.id = nodes.row.id
      /\ DOMAIN t.row.at = DOMAIN nodes.row.at \cup (IF IsHop(part) THEN {part.hop} \ {Anon} ELSE {})
      /\ \A x \in DOMAIN nodes.row.at : x # part.hop => t.row.at[x] = nodes.row.at[x]
  BY <1>4, CreateEdgeOK
<1>e. ~IsHop(part) => t = nodes
  BY DEF CreateEdge
<1> HIDE DEF t
<1>6. Continues(r, t)
  BY <1>4, <1>5, ContinuesOn
<1>7. DOMAIN t.row.at = DOMAIN r.row.at \cup PartBinds(part)
  BY <1>4, <1>5 DEF PartBinds
<1>8. \A x \in DOMAIN r.row.at : (IsHop(part) => x # part.hop) => t.row.at[x] = r.row.at[x]
  BY <1>4, <1>5, <1>e
<1> QED BY <1>1, <1>4, <1>5, <1>6, <1>7, <1>8

\* After each number of parts of a CREATE.
LEMMA CreatedAfterOK ==
    ASSUME NEW r, BothOK(r), NEW parts, IsSeq(parts), Members(parts) \subseteq AllParts
    PROVE  LET f == CreatedAfter(r, parts)
           IN  /\ f[0] = r
               /\ \A i \in 1 .. Len(parts) :
                     BothOK(f[i - 1]) /\ f[i] = CreatePart(f[i - 1], parts[i]) /\ parts[i] \in AllParts
               /\ \A i \in 0 .. Len(parts) :
                     /\ BothOK(f[i]) /\ Continues(r, f[i])
                     /\ f[i].params.found = r.params.found /\ f[i].params.made = r.params.made
                     /\ f[i].row.id = r.row.id
<1> DEFINE f == CreatedAfter(r, parts)
           OK(i) == /\ BothOK(f[i]) /\ Continues(r, f[i])
                    /\ f[i].params.found = r.params.found /\ f[i].params.made = r.params.made
                    /\ f[i].row.id = r.row.id
           S == {i \in 0 .. Len(parts) : OK(i)}
<1>1. Len(parts) \in Nat /\ f = [i \in 0 .. Len(parts) |->
                                    IF i = 0 THEN r ELSE CreatePart(f[i - 1], parts[i])]
  BY CreatedAfterIs DEF IsSeq
<1>2. f[0] = r /\ \A i \in 1 .. Len(parts) : f[i] = CreatePart(f[i - 1], parts[i])
  <2> HIDE DEF f
  <2>1. \A i \in 0 .. Len(parts) : f[i] = IF i = 0 THEN r ELSE CreatePart(f[i - 1], parts[i])
    BY <1>1
  <2> QED BY <1>1, <2>1
<1>3. \A i \in 1 .. Len(parts) : parts[i] \in AllParts
  BY DEF IsSeq, Members
<1> HIDE DEF f
<1>4. 0 \in S
  BY <1>1, <1>2 DEF Continues
<1>5. ASSUME NEW i \in 1 .. Len(parts), i - 1 \in S PROVE i \in S
  <2> DEFINE q == f[i - 1]
             t == f[i]
  <2>1. BothOK(q) /\ Continues(r, q) /\ q.params.found = r.params.found
        /\ q.params.made = r.params.made /\ q.row.id = r.row.id
    BY <1>5
  <2>2. t = CreatePart(q, parts[i]) /\ parts[i] \in AllParts
    BY <1>2, <1>3
  <2> HIDE DEF q, t
  <2>3. /\ BothOK(t) /\ Continues(q, t) /\ t.params.found = q.params.found
        /\ t.params.made = q.params.made /\ t.row.id = q.row.id
    BY <2>1, <2>2, CreatePartOK
  <2>4. Continues(r, t)
    BY <2>1, <2>3, ContinuesOn
  <2> QED BY <2>1, <2>3, <2>4 DEF t
<1> HIDE DEF S
<1>6. 0 .. Len(parts) \subseteq S
  BY <1>1, <1>4, <1>5, AfterEachPart
<1>7. \A i \in 0 .. Len(parts) : OK(i)
  BY <1>6 DEF S
<1>8. \A i \in 1 .. Len(parts) : i - 1 \in 0 .. Len(parts)
  BY <1>1
<1> QED BY <1>2, <1>3, <1>7, <1>8 DEF f

---------------------------------------------------------------------------
(* What reading and the prediction make of a row *)

\* The row t is what a MATCH of the part makes of the row: it binds the names of
\* the part to what the store holds, and those the row binds already as the row does.
Matched(s, row, part, t) ==
    /\ IsRow(t) /\ t.id = row.id /\ t.gone = row.gone
    /\ DOMAIN t.at = DOMAIN row.at \cup {part.left.var}
                     \cup (IF IsHop(part) THEN {part.right.var, part.hop} ELSE {})
    /\ \A x \in DOMAIN row.at : t.at[x] = row.at[x]
    /\ ~IsHop(part) => t.at[part.left.var] \in DOMAIN s.labels
    /\ IsHop(part) =>
          /\ t.at[part.hop] \in DOMAIN s.edges
          /\ {t.at[part.left.var], t.at[part.right.var]}
                 \subseteq {s.edges[t.at[part.hop]][1], s.edges[t.at[part.hop]][2]}

\* Every row that a MATCH answers with is matched so.
LEMMA MatchesIs ==
    ASSUME NEW s, NEW row, IsRow(row), NEW part \in AllParts,
           part.left.var # Anon, IsHop(part) => part.hop # Anon,
           NEW t \in Matches(s, row, part)
    PROVE  Matched(s, row, part, t)
<1> DEFINE x == part.left.var
           y == part.right.var
           h == part.hop
           Fits(z, v) == z \in DOMAIN row.at => row.at[z] = v
<1>1. CASE ~IsHop(part)
  <2>1. PICK v \in Labelled(s, part.left.label) :
           Fits(x, v) /\ t = [row EXCEPT !.at = Put(row.at, x, v)]
    BY <1>1 DEF Matches
  <2>2. IsRow(t) /\ t.id = row.id /\ t.gone = row.gone /\ t.at = Put(row.at, x, v)
    BY <2>1 DEF IsRow
  <2>3. DOMAIN t.at = DOMAIN row.at \cup {x} /\ t.at[x] = v
        /\ \A z \in DOMAIN row.at : t.at[z] = row.at[z]
    BY <2>1, <2>2 DEF Put
  <2>4. v \in DOMAIN s.labels
    BY DEF Labelled
  <2> QED BY <1>1, <2>2, <2>3, <2>4 DEF Matched
<1>2. CASE IsHop(part)
  <2> DEFINE E == {d \in DOMAIN s.edges : Fits(h, d)}
             Way(e) == CASE part.dir = "out" -> {s.edges[e]}
                         [] OTHER -> {s.edges[e], <<s.edges[e][2], s.edges[e][1]>>}
             Ways(e) == {u \in Way(e) : Fits(x, u[1]) /\ Fits(y, u[2])}
             Bound(w, e) == [row EXCEPT !.at = Put(Put(Put(row.at, x, w[1]), y, w[2]), h, e)]
  <2>1. t \in UNION {{Bound(w, e) : w \in Ways(e)} : e \in E}
    BY <1>2 DEF Matches
  <2>2. PICK e \in E : t \in {Bound(w, e) : w \in Ways(e)}
    BY <2>1
  <2>3. PICK w \in Ways(e) : t = Bound(w, e)
    BY <2>2
  <2>4. e \in DOMAIN s.edges /\ Fits(h, e) /\ Fits(x, w[1]) /\ Fits(y, w[2])
    BY <2>2, <2>3
  <2>5. {w[1], w[2]} \subseteq {s.edges[e][1], s.edges[e][2]}
    BY <2>3
  <2>6. IsRow(t) /\ t.id = row.id /\ t.gone = row.gone
        /\ t.at = Put(Put(Put(row.at, x, w[1]), y, w[2]), h, e)
    BY <2>3 DEF IsRow
  <2>7. h \notin {x, y}
    BY <1>2, PartNames DEF NodesOf
  <2>8. DOMAIN t.at = DOMAIN row.at \cup {x} \cup {y, h} /\ t.at[h] = e /\ t.at[y] = w[2]
        /\ t.at[x] \in {w[1], w[2]}
    BY <2>6, <2>7 DEF Put
  <2>9. \A z \in DOMAIN row.at : t.at[z] = row.at[z]
    BY <2>4, <2>6, <2>7 DEF Put
  <2> HIDE DEF x, y, h, Fits
  <2>10. {t.at[x], t.at[y]} \subseteq {s.edges[e][1], s.edges[e][2]}
    BY <2>5, <2>8
  <2> QED BY <1>2, <2>4, <2>6, <2>8, <2>9, <2>10 DEF x, y, h, Matched
<1> QED BY <1>1, <1>2

\* The steps of a row under a MERGE of a node: the vertex found, or, if none is,
\* nothing for a node without a name and one id for each name and label.
NodeHit(r, node, v, t) ==
    /\ v # None
    /\ t.row.at = Named(r.row.at, node.var, v)
    /\ t.params.found = Put(r.params.found, node.label, v)
    /\ t.params.made = r.params.made
NodeUnnamed(r, node, t) ==
    /\ node.var = Anon /\ t.row.at = r.row.at
    /\ t.params.found = Put(r.params.found, node.label, None)
    /\ t.params.made = r.params.made
NodeMade(r, node, t) ==
    LET key == <<node.var, node.label>>
        id == At(r.params.made, key, MergeVertex(r.params.nextMV + 1))
    IN  /\ node.var # Anon /\ t.row.at = Put(r.row.at, node.var, id)
        /\ t.params.found = Put(r.params.found, node.label, None)
        /\ t.params.made = Put(r.params.made, key, id)

LEMMA MergeNodeIs ==
    ASSUME NEW s, NEW r, BothOK(r), NEW node, NEW t \in MergeNode(s, r, node)
    PROVE  /\ t = [row |-> t.row, params |-> t.params] /\ IsRow(t.row) /\ IsParams(t.params)
           /\ t.row.id = r.row.id /\ t.row.gone = r.row.gone
           /\ t.params.goneE = r.params.goneE /\ t.params.goneV = r.params.goneV
           /\ \E v \in Lookup(s, r.params, node.label) :
                 \/ NodeHit(r, node, v, t)
                 \/ v = None /\ (NodeUnnamed(r, node, t) \/ NodeMade(r, node, t))
<1> DEFINE key == <<node.var, node.label>>
           id  == At(r.params.made, key, MergeVertex(r.params.nextMV + 1))
           n   == IF key \in DOMAIN r.params.made THEN r.params.nextMV ELSE r.params.nextMV + 1
           F(v) == Put(r.params.found, node.label, v)
           A(v) == Named(r.row.at, node.var, v)
           B == Put(r.row.at, node.var, id)
           M == Put(r.params.made, key, id)
           hit(v) == [r EXCEPT !.params.found = F(v), !.row.at = A(v)]
           unnamed == [r EXCEPT !.params.found = F(None)]
           miss == [r EXCEPT !.params.found = F(None), !.params.nextMV = n, !.params.made = M,
                             !.row.at = B]
           Same(u) == /\ u = [row |-> u.row, params |-> u.params] /\ IsRow(u.row) /\ IsParams(u.params)
                      /\ u.row.id = r.row.id /\ u.row.gone = r.row.gone
                      /\ u.params.goneE = r.params.goneE /\ u.params.goneV = r.params.goneV
<1>1. r = [row |-> r.row, params |-> r.params] /\ IsRow(r.row) /\ IsParams(r.params)
  BY DEF BothOK, RowOK, ParamsOK
<1>2. PICK v \in Lookup(s, r.params, node.label) :
         t = IF v # None THEN hit(v) ELSE IF node.var = Anon THEN unnamed ELSE miss
  BY DEF MergeNode
<1> HIDE DEF F, A, B, M, id, n, key
<1>3. CASE v # None
  <2>1. t = [row |-> [r.row EXCEPT !.at = A(v)], params |-> [r.params EXCEPT !.found = F(v)]]
    BY <1>1, <1>2, <1>3
  <2>2. Same(t) /\ t.row.at = A(v) /\ t.params.found = F(v) /\ t.params.made = r.params.made
    BY <1>1, <2>1 DEF IsRow, IsParams
  <2> QED BY <1>3, <2>2 DEF NodeHit, A, F
<1>4. CASE v = None /\ node.var = Anon
  <2>1. t = [row |-> r.row, params |-> [r.params EXCEPT !.found = F(None)]]
    BY <1>1, <1>2, <1>4
  <2>2. Same(t) /\ t.row.at = r.row.at /\ t.params.found = F(None)
        /\ t.params.made = r.params.made
    BY <1>1, <2>1 DEF IsRow, IsParams
  <2> QED BY <1>4, <2>2 DEF NodeUnnamed, F
<1>5. CASE v = None /\ node.var # Anon
  <2>1. t = [row |-> [r.row EXCEPT !.at = B],
             params |-> [r.params EXCEPT !.found = F(None), !.made = M, !.nextMV = n]]
    BY <1>1, <1>2, <1>5
  <2>2. Same(t) /\ t.row.at = B /\ t.params.found = F(None) /\ t.params.made = M
    BY <1>1, <2>1 DEF IsRow, IsParams
  <2> QED BY <1>5, <2>2 DEF NodeMade, F, B, M, id, key
<1> QED BY <1>3, <1>4, <1>5

\* A MERGE of a node keeps the row's other names.
LEMMA MergeNodeOK ==
    ASSUME NEW s, GraphOK(s), NEW r, BothOK(r), NEW node, node.var \notin HopNames,
           NEW t \in MergeNode(s, r, node)
    PROVE  /\ BothOK(t)
           /\ t.row.id = r.row.id /\ t.row.gone = r.row.gone
           /\ t.params.goneE = r.params.goneE /\ t.params.goneV = r.params.goneV
           /\ DOMAIN t.row.at = DOMAIN r.row.at \cup ({node.var} \ {Anon})
           /\ \A x \in DOMAIN r.row.at : x # node.var => t.row.at[x] = r.row.at[x]
<1>1. /\ t = [row |-> t.row, params |-> t.params] /\ IsRow(t.row) /\ IsParams(t.params)
      /\ t.row.id = r.row.id /\ t.row.gone = r.row.gone
      /\ t.params.goneE = r.params.goneE /\ t.params.goneV = r.params.goneV
      /\ \E v \in Lookup(s, r.params, node.label) :
            \/ NodeHit(r, node, v, t)
            \/ v = None /\ (NodeUnnamed(r, node, t) \/ NodeMade(r, node, t))
  BY MergeNodeIs
<1>2. /\ NamesOK(r.row.at) /\ DOMAIN r.row.id \subseteq DOMAIN r.row.at
      /\ r.row.gone \subseteq r.params.goneE
      /\ \A lab \in DOMAIN r.params.found :
            r.params.found[lab] = None \/ IsVertexId(r.params.found[lab])
      /\ \A key \in DOMAIN r.params.made : IsVertexId(r.params.made[key])
  BY DEF BothOK, RowOK, ParamsOK
<1>3. PICK v \in Lookup(s, r.params, node.label) :
            \/ NodeHit(r, node, v, t)
            \/ v = None /\ (NodeUnnamed(r, node, t) \/ NodeMade(r, node, t))
  BY <1>1
<1>4. v = None \/ IsVertexId(v)
  <2>1. \A w \in Labelled(s, node.label) : IsVertexId(w)
    BY DEF Labelled, GraphOK
  <2> QED BY <1>2, <2>1 DEF Lookup
<1>5. ASSUME NEW id, IsVertexId(id), node.var # Anon, t.row.at = Put(r.row.at, node.var, id)
      PROVE  /\ NamesOK(t.row.at)
             /\ DOMAIN t.row.at = DOMAIN r.row.at \cup ({node.var} \ {Anon})
             /\ \A x \in DOMAIN r.row.at : x # node.var => t.row.at[x] = r.row.at[x]
  <2>1. DOMAIN t.row.at = DOMAIN r.row.at \cup {node.var} /\ t.row.at[node.var] = id
        /\ \A x \in DOMAIN r.row.at : x # node.var => t.row.at[x] = r.row.at[x]
    BY <1>5 DEF Put
  <2> QED BY <1>2, <1>5, <2>1 DEF NamesOK
<1>6. ASSUME t.row.at = r.row.at, node.var = Anon
      PROVE  /\ NamesOK(t.row.at)
             /\ DOMAIN t.row.at = DOMAIN r.row.at \cup ({node.var} \ {Anon})
             /\ \A x \in DOMAIN r.row.at : x # node.var => t.row.at[x] = r.row.at[x]
  BY <1>2, <1>6
<1>7. ASSUME NEW w, w = None \/ IsVertexId(w), t.params.found = Put(r.params.found, node.label, w)
      PROVE  \A lab \in DOMAIN t.params.found :
                t.params.found[lab] = None \/ IsVertexId(t.params.found[lab])
  BY <1>2, <1>7 DEF Put
<1>8. CASE NodeHit(r, node, v, t)
  <2>1. /\ NamesOK(t.row.at)
        /\ DOMAIN t.row.at = DOMAIN r.row.at \cup ({node.var} \ {Anon})
        /\ \A x \in DOMAIN r.row.at : x # node.var => t.row.at[x] = r.row.at[x]
    BY <1>4, <1>5, <1>6, <1>8 DEF NodeHit, Named
  <2>2. \A lab \in DOMAIN t.params.found :
                t.params.found[lab] = None \/ IsVertexId(t.params.found[lab])
    BY <1>4, <1>7, <1>8 DEF NodeHit
  <2> QED BY <1>1, <1>2, <1>8, <2>1, <2>2 DEF NodeHit, BothOK, RowOK, ParamsOK
<1>9. CASE NodeUnnamed(r, node, t)
  <2>1. \A lab \in DOMAIN t.params.found :
                t.params.found[lab] = None \/ IsVertexId(t.params.found[lab])
    BY <1>7, <1>9 DEF NodeUnnamed
  <2> QED BY <1>1, <1>2, <1>6, <1>9, <2>1 DEF NodeUnnamed, BothOK, RowOK, ParamsOK
<1>10. CASE NodeMade(r, node, t)
  <2> DEFINE key == <<node.var, node.label>>
             id == At(r.params.made, key, MergeVertex(r.params.nextMV + 1))
  <2>1. /\ node.var # Anon /\ t.row.at = Put(r.row.at, node.var, id)
        /\ t.params.found = Put(r.params.found, node.label, None)
        /\ t.params.made = Put(r.params.made, key, id)
    BY <1>10 DEF NodeMade
  <2>2. IsVertexId(id)
    BY <1>2 DEF At, MergeVertex, IsVertexId
  <2> HIDE DEF id, key
  <2>3. \A k \in DOMAIN t.params.made : IsVertexId(t.params.made[k])
    BY <1>2, <2>1, <2>2 DEF Put
  <2>4. \A lab \in DOMAIN t.params.found :
                t.params.found[lab] = None \/ IsVertexId(t.params.found[lab])
    BY <1>7, <2>1
  <2>5. /\ NamesOK(t.row.at)
        /\ DOMAIN t.row.at = DOMAIN r.row.at \cup ({node.var} \ {Anon})
        /\ \A x \in DOMAIN r.row.at : x # node.var => t.row.at[x] = r.row.at[x]
    BY <1>5, <2>1, <2>2
  <2> QED BY <1>1, <1>2, <2>3, <2>4, <2>5 DEF BothOK, RowOK, ParamsOK
<1> QED BY <1>3, <1>8, <1>9, <1>10

\* The rows a MERGE of a hop goes on with: the row itself, or the row with the
\* name bound to the plain id of the pair.
LEMMA MergeEdgeIs ==
    ASSUME NEW s, GraphOK(s), NEW r, BothOK(r), NEW part \in AllParts, IsHop(part)
    PROVE  LET a == At(r.row.at, part.left.var, None)
               b == At(r.row.at, part.right.var, None)
               T == MergeEdge(s, r, part)
           IN  /\ IsFiniteSet(T) /\ T # {}
               /\ part.hop = Anon \/ None \in {a, b} => T = {r.row}
               /\ ~(part.hop = Anon \/ None \in {a, b}) => \A t \in T :
                     /\ t.at = Put(r.row.at, part.hop, EdgeId(a, b, 0))
                     /\ part.hop \in HopNames
               /\ \A t \in T : RowOK(t, r.params) /\ t.gone = r.row.gone
<1> DEFINE a == At(r.row.at, part.left.var, None)
           b == At(r.row.at, part.right.var, None)
           h == part.hop
           there == IF part.dir = "out" /\ r.params.goneE = {} THEN Between(s, a, b) ELSE {}
           ids == IF there = {} THEN {EdgeId(a, b, 0)} ELSE there
           Bound(e) == [r.row EXCEPT !.at = Put(r.row.at, h, EdgeId(a, b, 0)),
                                     !.id = Put(r.row.id, h, e)]
           T == MergeEdge(s, r, part)
<1>1. T = IF h = Anon \/ None \in {a, b} THEN {r.row} ELSE {Bound(e) : e \in ids}
  BY DEF MergeEdge
<1>2. IsFiniteSet(ids) /\ ids # {}
  <2>1. Between(s, a, b) \subseteq DOMAIN s.edges
    BY DEF Between
  <2>2. IsFiniteSet(Between(s, a, b))
    BY <2>1, FS_Subset DEF GraphOK
  <2> QED BY <2>2, FS_Singleton
<1> HIDE DEF a, b, ids
<1>3. CASE h = Anon \/ None \in {a, b}
  BY <1>1, <1>3, FS_Singleton DEF BothOK, a, b
<1>4. CASE ~(h = Anon \/ None \in {a, b})
  <2>1. T = {Bound(e) : e \in ids}
    BY <1>1, <1>4
  <2>2. IsFiniteSet(T) /\ T # {}
    <3> DEFINE f == [e \in ids |-> Bound(e)]
    <3> HIDE DEF Bound
    <3>1. f \in Surjection(ids, T)
      BY <2>1 DEF Surjection
    <3> HIDE DEF f, T
    <3>2. IsFiniteSet(T)
      BY <1>2, <3>1, FS_Surjection
    <3> QED BY <1>2, <2>1, <3>2
  <2>3. h \in HopNames /\ h # Anon
    BY <1>4, PartNames
  <2>4. ASSUME NEW t \in T
        PROVE  /\ t.at = Put(r.row.at, h, EdgeId(a, b, 0)) /\ RowOK(t, r.params)
               /\ t.gone = r.row.gone
    <3>1. PICK e \in ids : t = Bound(e)
      BY <2>1
    <3>2. /\ IsRow(t) /\ t.gone = r.row.gone
          /\ t.at = Put(r.row.at, h, EdgeId(a, b, 0)) /\ t.id = Put(r.row.id, h, e)
      BY <3>1 DEF BothOK, RowOK, IsRow
    <3>3. EdgeId(a, b, 0)[1] = "e"
      BY DEF EdgeId
    <3> HIDE DEF Bound
    <3>4. /\ DOMAIN t.at = DOMAIN r.row.at \cup {h} /\ t.at[h] = EdgeId(a, b, 0)
          /\ \A x \in DOMAIN r.row.at : x # h => t.at[x] = r.row.at[x]
          /\ DOMAIN t.id = DOMAIN r.row.id \cup {h}
      BY <3>2 DEF Put
    <3>5. NamesOK(t.at)
      BY <2>3, <3>3, <3>4 DEF BothOK, RowOK, NamesOK
    <3> QED BY <3>2, <3>4, <3>5 DEF BothOK, RowOK
  <2> QED BY <1>4, <2>2, <2>3, <2>4 DEF a, b
<1> QED BY <1>3, <1>4

\* t is r with the ids that r binds to the names among the deleted ones.
Buried(s, r, names, t) ==
    LET ids == {r.row.at[x] : x \in names \cap DOMAIN r.row.at}
    IN  /\ BothOK(t) /\ t.row.at = r.row.at /\ t.row.id = r.row.id
        /\ t.row.gone = r.row.gone \cup (ids \cap DOMAIN s.edges)
        /\ t.params.goneE = r.params.goneE \cup (ids \cap DOMAIN s.edges)
        /\ t.params.goneV = r.params.goneV \cup (ids \ DOMAIN s.edges)
        /\ t.params.found = r.params.found /\ t.params.made = r.params.made

\* A DELETE takes what its names stand for and leaves the row's names alone.
LEMMA TombstonesIs ==
    ASSUME NEW s, NEW r, BothOK(r), NEW names
    PROVE  Buried(s, r, names, Tombstones(s, r, names))
<1> DEFINE t == Tombstones(s, r, names)
           ids == {r.row.at[x] : x \in names \cap DOMAIN r.row.at}
           es == ids \cap DOMAIN s.edges
           vs == ids \ es
<1>1. t = [r EXCEPT !.row.gone = r.row.gone \cup es, !.params.goneE = r.params.goneE \cup es,
                    !.params.goneV = r.params.goneV \cup vs]
  BY DEF Tombstones
<1>2. vs = ids \ DOMAIN s.edges
  OBVIOUS
<1> HIDE DEF ids, es, vs, t
<1>3. t = [row |-> [r.row EXCEPT !.gone = r.row.gone \cup es],
           params |-> [r.params EXCEPT !.goneE = r.params.goneE \cup es,
                                       !.goneV = r.params.goneV \cup vs]]
  BY <1>1 DEF BothOK
<1>4. IsRow(t.row) /\ t.row.at = r.row.at /\ t.row.id = r.row.id
      /\ t.row.gone = r.row.gone \cup es
  BY <1>3 DEF BothOK, RowOK, IsRow
<1>5. IsParams(t.params) /\ t.params.goneE = r.params.goneE \cup es
      /\ t.params.goneV = r.params.goneV \cup vs
      /\ t.params.found = r.params.found /\ t.params.made = r.params.made
  BY <1>3 DEF BothOK, ParamsOK, IsParams
<1>6. BothOK(t)
  BY <1>3, <1>4, <1>5 DEF BothOK, RowOK, ParamsOK
<1> QED BY <1>2, <1>4, <1>5, <1>6 DEF t, es, ids, Buried

---------------------------------------------------------------------------
(* What the applier makes of the store *)

\* t is s with more vertices
VerticesPut(s, t) ==
    /\ TxOK(t) /\ t.edges = s.edges /\ t.pairs = s.pairs /\ t.base = s.base
    /\ t.counted = s.counted /\ t.pending = s.pending
    /\ \A v \in DOMAIN s.labels : v \in DOMAIN t.labels /\ t.labels[v] = s.labels[v]

\* t is s with one more edge, from a to b
EdgePut(s, t, a, b) ==
    \E k \in Nat : EdgeId(a, b, k) \notin DOMAIN s.edges /\ t = PutEdgeNew(s, EdgeId(a, b, k), a, b)

\* numbered if the plain id of the pair is taken
FirstPut(s, t, a, b) ==
    \E k \in Nat : /\ EdgeId(a, b, k) \notin DOMAIN s.edges /\ t = PutEdgeNew(s, EdgeId(a, b, k), a, b)
                   /\ k = 0 \/ EdgeId(a, b, 0) \in DOMAIN s.edges

LEMMA LeastIsFirst ==
    ASSUME NEW S \in SUBSET Nat, NEW n \in Least(S), 0 \in S PROVE n = 0
  BY DEF Least

LEMMA PutVertexPuts ==
    ASSUME NEW s, TxOK(s), NEW v, IsVertexId(v), v \notin DOMAIN s.labels, NEW lab
    PROVE  LET t == PutVertex(s, v, lab)
           IN  VerticesPut(s, t) /\ DOMAIN t.labels = DOMAIN s.labels \cup {v}
               /\ t.labels[v] = LabelSet(lab)
<1> DEFINE t == PutVertex(s, v, lab)
<1>1. /\ t.edges = s.edges /\ t.labels = Put(s.labels, v, LabelSet(lab)) /\ t.pairs = s.pairs
      /\ t.base = s.base /\ t.counted = s.counted /\ t.pending = s.pending
  BY DEF TxOK, IsView, PutVertex
<1>2. TxOK(t)
  BY PutVertexOK
<1> HIDE DEF t
<1>3. /\ DOMAIN t.labels = DOMAIN s.labels \cup {v} /\ t.labels[v] = LabelSet(lab)
      /\ \A w \in DOMAIN s.labels : t.labels[w] = s.labels[w]
  BY <1>1 DEF Put
<1> QED BY <1>1, <1>2, <1>3 DEF VerticesPut, t

EdgeAdded(s, t, a, b) ==
    \E e : /\ e \notin DOMAIN s.edges /\ DOMAIN t.edges = DOMAIN s.edges \cup {e}
           /\ t.edges[e] = <<a, b>>

\* An edge put between vertices.
LEMMA EdgePutOK ==
    ASSUME NEW s, TxOK(s), NEW a, IsVertexId(a), NEW b, IsVertexId(b), NEW t, EdgePut(s, t, a, b)
    PROVE  /\ TxOK(t) /\ t.labels = s.labels /\ t.counted = s.counted /\ t.pending = s.pending + 1
           /\ EdgeAdded(s, t, a, b)
           /\ \A e \in DOMAIN s.edges : t.edges[e] = s.edges[e]
<1>1. PICK k \in Nat : EdgeId(a, b, k) \notin DOMAIN s.edges /\ t = PutEdgeNew(s, EdgeId(a, b, k), a, b)
  BY DEF EdgePut
<1> DEFINE e == EdgeId(a, b, k)
<1>2. /\ TxOK(t) /\ t.labels = s.labels /\ t.counted = s.counted
      /\ t.edges = Put(s.edges, e, <<a, b>>) /\ t.pending = s.pending + 1
  BY <1>1, PutEdgeNewOK
<1> HIDE DEF e
<1>3. /\ DOMAIN t.edges = DOMAIN s.edges \cup {e} /\ t.edges[e] = <<a, b>>
      /\ \A d \in DOMAIN s.edges : d # e => t.edges[d] = s.edges[d]
  BY <1>2 DEF Put
<1>4. e \notin DOMAIN s.edges
  BY <1>1 DEF e
<1> QED BY <1>2, <1>3, <1>4 DEF EdgeAdded

LEMMA EnsureVertexOK ==
    ASSUME NEW s, TxOK(s), NEW n, NEW at, NamesOK(at), NEW node, node.var \notin HopNames,
           NEW r \in EnsureVertex(s, n, node, at)
    PROVE  /\ VerticesPut(s, r.s) /\ IsVertexId(r.id) /\ r.id \in DOMAIN r.s.labels
           /\ node.var \in DOMAIN at => r.id = at[node.var]
<1>1. CASE node.var \in DOMAIN at
  <2>1. /\ r.id = at[node.var]
        /\ r.s = IF at[node.var] \in DOMAIN s.labels THEN s
                 ELSE PutVertex(s, at[node.var], node.label)
    BY <1>1 DEF EnsureVertex
  <2>2. IsVertexId(r.id)
    BY <1>1, <2>1 DEF NamesOK
  <2>3. VerticesPut(s, s)
    BY DEF VerticesPut
  <2> QED BY <1>1, <2>1, <2>2, <2>3, PutVertexPuts
<1>2. CASE node.var \notin DOMAIN at
  <2> DEFINE F == {k \in Num : k > n /\ AutoVertex(k) \notin DOMAIN s.labels}
  <2>1. PICK m \in Least(F) : r = [s |-> PutVertex(s, AutoVertex(m), node.label),
                                   n |-> m, id |-> AutoVertex(m)]
    BY <1>2 DEF EnsureVertex
  <2>2. AutoVertex(m) \notin DOMAIN s.labels
    BY LeastIsIn
  <2>3. IsVertexId(AutoVertex(m))
    BY DEF IsVertexId, AutoVertex
  <2> QED BY <1>2, <2>1, <2>2, <2>3, PutVertexPuts
<1> QED BY <1>1, <1>2

\* A part of a CREATE: vertices, among them those the row predicts, and then an
\* edge between two that are there.
LEMMA CreatedOK ==
    ASSUME NEW s, TxOK(s), NEW n, NEW e, NamesOK(e.at), e.part \in AllParts,
           NEW c \in Created(s, n, e)
    PROVE  /\ TxOK(c.s)
           /\ \A node \in NodesOf(e.part) :
                 node.var \in DOMAIN e.at => e.at[node.var] \in DOMAIN c.s.labels
           /\ ~IsHop(e.part) => VerticesPut(s, c.s)
           /\ IsHop(e.part) => \E q, a, b :
                 /\ VerticesPut(s, q) /\ EdgePut(q, c.s, a, b)
                 /\ IsVertexId(a) /\ IsVertexId(b) /\ {a, b} \subseteq DOMAIN q.labels
                 /\ FirstPut(q, c.s, a, b)
                 /\ e.part.left.var \in DOMAIN e.at => a = e.at[e.part.left.var]
                 /\ e.part.right.var \in DOMAIN e.at => b = e.at[e.part.right.var]
<1> DEFINE lefts == EnsureVertex(s, n, e.part.left, e.at)
           named(l) == Named(e.at, e.part.left.var, l.id)
           rights(l) == EnsureVertex(l.s, l.n, e.part.right, named(l))
<1>1. e.part.left.var \notin HopNames /\ (IsHop(e.part) => e.part.right.var \notin HopNames)
  BY PartNames DEF NodesOf
<1>2. CASE ~IsHop(e.part)
  <2>1. PICK l \in lefts : c = [s |-> l.s, n |-> l.n]
    BY <1>2 DEF Created
  <2>2. /\ VerticesPut(s, l.s) /\ l.id \in DOMAIN l.s.labels
        /\ e.part.left.var \in DOMAIN e.at => l.id = e.at[e.part.left.var]
    BY <1>1, EnsureVertexOK
  <2>3. NodesOf(e.part) = {e.part.left}
    BY <1>2 DEF NodesOf
  <2> QED BY <1>2, <2>1, <2>2, <2>3 DEF VerticesPut
<1>3. CASE IsHop(e.part)
  <2>1. Created(s, n, e) = UNION {UNION {EdgeCreated(l, r) : r \in rights(l)} : l \in lefts}
    BY <1>3 DEF Created
  <2>2. PICK l \in lefts : c \in UNION {EdgeCreated(l, r) : r \in rights(l)}
    BY <2>1
  <2>3. PICK r \in rights(l) : c \in EdgeCreated(l, r)
    BY <2>2
  <2>4. /\ VerticesPut(s, l.s) /\ IsVertexId(l.id) /\ l.id \in DOMAIN l.s.labels
        /\ e.part.left.var \in DOMAIN e.at => l.id = e.at[e.part.left.var]
    BY <1>1, EnsureVertexOK
  <2>5. /\ NamesOK(named(l))
        /\ \A x \in DOMAIN e.at : x \in DOMAIN named(l) /\ named(l)[x] = e.at[x]
    <3>1. CASE e.part.left.var = Anon BY <3>1 DEF Named
    <3>2. CASE e.part.left.var # Anon
      <4> DEFINE f == named(l)
      <4>1. f = Put(e.at, e.part.left.var, l.id)
        BY <3>2 DEF Named
      <4> HIDE DEF f
      <4>2. /\ DOMAIN f = DOMAIN e.at \cup {e.part.left.var} /\ f[e.part.left.var] = l.id
            /\ \A x \in DOMAIN e.at : x # e.part.left.var => f[x] = e.at[x]
        BY <4>1 DEF Put
      <4>3. NamesOK(f) /\ \A x \in DOMAIN e.at : x \in DOMAIN f /\ f[x] = e.at[x]
        BY <1>1, <2>4, <3>2, <4>2 DEF NamesOK
      <4> QED BY <4>3 DEF f
    <3> QED BY <3>1, <3>2
  <2>6. TxOK(l.s)
    BY <2>4 DEF VerticesPut
  <2>7. /\ VerticesPut(l.s, r.s) /\ IsVertexId(r.id) /\ r.id \in DOMAIN r.s.labels
        /\ e.part.right.var \in DOMAIN named(l) => r.id = named(l)[e.part.right.var]
    <3> HIDE DEF named
    <3> QED BY <1>1, <1>3, <2>5, <2>6, EnsureVertexOK
  <2>8. PICK k \in CreateNumbers(r.s, l.id, r.id) :
           c = [s |-> PutEdgeNew(r.s, EdgeId(l.id, r.id, k), l.id, r.id), n |-> r.n]
    BY <2>3 DEF EdgeCreated
  <2>9. EdgeId(l.id, r.id, k) \notin DOMAIN r.s.edges /\ k \in Nat
    BY LeastIsIn, NumberAssumption DEF CreateNumbers, Num
  <2>10. EdgePut(r.s, c.s, l.id, r.id) /\ FirstPut(r.s, c.s, l.id, r.id)
    <3> DEFINE F == {m \in {0} \cup Num : m # 1 /\ EdgeId(l.id, r.id, m) \notin DOMAIN r.s.edges}
    <3>1. F \in SUBSET Nat /\ k \in Least(F)
      BY NumberAssumption DEF CreateNumbers, Num
    <3>2. 0 \in F => k = 0
      <4> HIDE DEF F
      <4> QED BY <3>1, LeastIsFirst
    <3>3. k = 0 \/ EdgeId(l.id, r.id, 0) \in DOMAIN r.s.edges
      BY <3>2
    <3> QED BY <2>8, <2>9, <3>3 DEF EdgePut, FirstPut
  <2>11. VerticesPut(s, r.s) /\ TxOK(r.s) /\ l.id \in DOMAIN r.s.labels
    BY <2>4, <2>7 DEF VerticesPut
  <2>12. TxOK(c.s) /\ c.s.labels = r.s.labels
    BY <2>4, <2>7, <2>10, <2>11, EdgePutOK
  <2>13. NodesOf(e.part) = {e.part.left, e.part.right}
    BY <1>3 DEF NodesOf
  <2>14. e.part.right.var \in DOMAIN e.at => r.id = e.at[e.part.right.var]
    BY <2>5, <2>7
  <2>15. /\ VerticesPut(s, r.s) /\ EdgePut(r.s, c.s, l.id, r.id)
         /\ IsVertexId(l.id) /\ IsVertexId(r.id) /\ {l.id, r.id} \subseteq DOMAIN r.s.labels
         /\ FirstPut(r.s, c.s, l.id, r.id)
         /\ e.part.left.var \in DOMAIN e.at => l.id = e.at[e.part.left.var]
         /\ e.part.right.var \in DOMAIN e.at => r.id = e.at[e.part.right.var]
    BY <2>4, <2>7, <2>10, <2>11, <2>14
  <2>16. \A node \in NodesOf(e.part) :
            node.var \in DOMAIN e.at => e.at[node.var] \in DOMAIN c.s.labels
    BY <2>4, <2>7, <2>11, <2>12, <2>13, <2>14
  <2> HIDE DEF lefts, rights, named
  <2> QED BY <1>3, <2>12, <2>15, <2>16
<1> QED BY <1>2, <1>3

IsScratch(sc) == sc = [autoV |-> sc.autoV, cache |-> sc.cache, known |-> sc.known, gone |-> sc.gone]

\* what the applier takes of the id a row has for the node of a MERGE
TakenId(e) ==
    LET bound == At(e.at, e.part.left.var, None)
    IN  IF IsPredicted(bound) THEN bound ELSE None

\* A MERGE of a node: nothing for an answer that is kept or a predicted vertex
\* that fits, else the predicted vertex if there is none under its id, else one
\* that fits, else a new one.
VertexMerged(s, sc, e, m) ==
    LET lab == e.part.left.label
        id == TakenId(e)
        fit == Labelled(s, lab)
        same == m.scratch.cache = sc.cache
        known == DOMAIN m.scratch.cache = DOMAIN sc.cache \cup {lab}
    IN  \/ ((id = None /\ lab \in DOMAIN sc.cache) \/ id \in fit) /\ m.s = s /\ same
        \/ id # None /\ id \notin DOMAIN s.labels /\ m.s = PutVertex(s, id, lab) /\ same
        \/ fit # {} /\ m.s = s /\ (same \/ known) /\ (id # None => id \in DOMAIN s.labels)
        \/ /\ fit = {} /\ (same \/ known) /\ (id # None => id \in DOMAIN s.labels)
           /\ \E k : AutoVertex(k) \notin DOMAIN s.labels
                     /\ m.s = PutVertex(s, AutoVertex(k), lab)

LEMMA MergedVertexIs ==
    ASSUME NEW s, NEW sc, IsScratch(sc), NEW e, NEW m \in MergedVertex(s, sc, e)
    PROVE  /\ IsScratch(m.scratch) /\ m.scratch.known = sc.known /\ m.scratch.gone = sc.gone
           /\ VertexMerged(s, sc, e, m)
<1> DEFINE lab == e.part.left.label
           id == TakenId(e)
           kept(v) == IF id = None THEN [sc EXCEPT !.cache = Put(sc.cache, lab, v)] ELSE sc
           F == {k \in Num : k > sc.autoV /\ AutoVertex(k) \notin DOMAIN s.labels}
           Is(v, t) == [s |-> t, scratch |-> kept(v)]
           fit == Labelled(s, lab)
           found == (id = None /\ lab \in DOMAIN sc.cache) \/ id \in fit
           absent == id # None /\ id \notin DOMAIN s.labels
           made(k) == PutVertex(s, AutoVertex(k), lab)
           known(c) == DOMAIN c.cache = DOMAIN sc.cache \cup {lab}
           same(c) == c.cache = sc.cache
           OK(c) == IsScratch(c) /\ c.known = sc.known /\ c.gone = sc.gone
<1>1. \/ found /\ m = [s |-> s, scratch |-> sc]
      \/ absent /\ m = Is(id, PutVertex(s, id, lab))
      \/ fit # {} /\ ~absent /\ m \in {Is(v, s) : v \in fit}
      \/ fit = {} /\ ~absent /\ m \in {[Is(AutoVertex(k), made(k)) EXCEPT !.scratch.autoV = k] : k \in Least(F)}
  BY DEF MergedVertex, TakenId
<1>2. ASSUME NEW v PROVE OK(kept(v)) /\ (same(kept(v)) \/ (id = None /\ known(kept(v))))
  <2>1. CASE id = None
    <3>1. /\ IsScratch(kept(v)) /\ kept(v).known = sc.known /\ kept(v).gone = sc.gone
          /\ kept(v).cache = Put(sc.cache, lab, v)
      BY <2>1 DEF IsScratch
    <3> HIDE DEF kept
    <3> QED BY <2>1, <3>1 DEF Put
  <2>2. CASE id # None
    BY <2>2
  <2> QED BY <2>1, <2>2
<1>3. \A v, t : Is(v, t).s = t /\ Is(v, t).scratch = kept(v)
  OBVIOUS
<1>4. ASSUME NEW v, NEW t, NEW k
      PROVE  LET c == [Is(v, t) EXCEPT !.scratch.autoV = k]
             IN  c.s = t /\ OK(c.scratch) /\ (same(c.scratch) \/ known(c.scratch))
  <2> DEFINE q == kept(v)
  <2>1. OK(q) /\ (same(q) \/ known(q))
    BY <1>2
  <2> HIDE DEF q
  <2>2. [[s |-> t, scratch |-> q] EXCEPT !.scratch.autoV = k] = [s |-> t, scratch |-> [q EXCEPT !.autoV = k]]
    OBVIOUS
  <2>3. LET u == [q EXCEPT !.autoV = k] IN OK(u) /\ (same(u) \/ known(u))
    BY <2>1 DEF IsScratch
  <2> QED BY <2>2, <2>3 DEF q
<1> HIDE DEF Is, kept, OK, same, known, made
<1>5. ASSUME absent, m = Is(id, PutVertex(s, id, lab))
      PROVE  m.s = PutVertex(s, id, lab) /\ OK(m.scratch) /\ same(m.scratch)
  BY <1>2, <1>3, <1>5
<1>6. ASSUME NEW v, m = Is(v, s) PROVE m.s = s /\ OK(m.scratch) /\ (same(m.scratch) \/ known(m.scratch))
  BY <1>2, <1>3, <1>6
<1>7. ASSUME NEW k \in Least(F), m = [Is(AutoVertex(k), made(k)) EXCEPT !.scratch.autoV = k]
      PROVE  /\ m.s = made(k) /\ AutoVertex(k) \notin DOMAIN s.labels
             /\ OK(m.scratch) /\ (same(m.scratch) \/ known(m.scratch))
  <2>1. AutoVertex(k) \notin DOMAIN s.labels
    BY LeastIsIn
  <2> QED BY <1>4, <1>7, <2>1
<1>8. ASSUME found, m = [s |-> s, scratch |-> sc] PROVE m.s = s /\ OK(m.scratch) /\ same(m.scratch)
  BY <1>8 DEF OK, same
<1> HIDE DEF F, id, lab, fit, found
<1>9. /\ OK(m.scratch)
      /\ \/ found /\ m.s = s /\ same(m.scratch)
         \/ absent /\ m.s = PutVertex(s, id, lab) /\ same(m.scratch)
         \/ fit # {} /\ ~absent /\ m.s = s /\ (same(m.scratch) \/ known(m.scratch))
         \/ /\ fit = {} /\ ~absent /\ (same(m.scratch) \/ known(m.scratch))
            /\ \E k : AutoVertex(k) \notin DOMAIN s.labels /\ m.s = made(k)
  <2>1. CASE found /\ m = [s |-> s, scratch |-> sc] BY <1>8, <2>1
  <2>2. CASE absent /\ m = Is(id, PutVertex(s, id, lab)) BY <1>5, <2>2
  <2>3. CASE fit # {} /\ ~absent /\ m \in {Is(v, s) : v \in fit} BY <1>6, <2>3
  <2>4. CASE fit = {} /\ ~absent /\ m \in {[Is(AutoVertex(k), made(k)) EXCEPT !.scratch.autoV = k] : k \in Least(F)}
    <3>1. PICK k \in Least(F) : m = [Is(AutoVertex(k), made(k)) EXCEPT !.scratch.autoV = k]
      BY <2>4
    <3> HIDE DEF made
    <3> QED BY <1>7, <2>4, <3>1
  <2> HIDE DEF absent, made
  <2> QED BY <1>1, <2>1, <2>2, <2>3, <2>4
<1> QED BY <1>9 DEF OK, known, same, found, absent, fit, lab, id, made, VertexMerged

LEMMA MergedVertexOK ==
    ASSUME NEW s, TxOK(s), NEW sc, IsScratch(sc), NEW e, NamesOK(e.at), e.part \in AllParts,
           NEW m \in MergedVertex(s, sc, e)
    PROVE  /\ VerticesPut(s, m.s)
           /\ IsScratch(m.scratch) /\ m.scratch.known = sc.known /\ m.scratch.gone = sc.gone
<1>1. VerticesPut(s, s)
  BY DEF VerticesPut
<1>2. TakenId(e) = None \/ IsVertexId(TakenId(e))
  BY PartNames DEF TakenId, At, NamesOK, NodesOf
<1>3. \A k : IsVertexId(AutoVertex(k))
  BY DEF IsVertexId, AutoVertex
<1>4. /\ IsScratch(m.scratch) /\ m.scratch.known = sc.known /\ m.scratch.gone = sc.gone
      /\ \/ m.s = s
         \/ /\ TakenId(e) # None /\ TakenId(e) \notin DOMAIN s.labels
            /\ m.s = PutVertex(s, TakenId(e), e.part.left.label)
         \/ \E k : AutoVertex(k) \notin DOMAIN s.labels
                   /\ m.s = PutVertex(s, AutoVertex(k), e.part.left.label)
  <2>1. /\ IsScratch(m.scratch) /\ m.scratch.known = sc.known /\ m.scratch.gone = sc.gone
        /\ VertexMerged(s, sc, e, m)
    BY MergedVertexIs
  <2> QED BY <2>1 DEF VertexMerged
<1> QED BY <1>1, <1>2, <1>3, <1>4, PutVertexPuts

\* A MERGE of a hop: nothing if an edge is there that is not among the
\* deletions, else one more edge.
LEMMA MergedEdgeIs ==
    ASSUME NEW s, NEW gone, NEW part, NEW a, NEW b, NEW t \in MergedEdge(s, gone, part, a, b)
    PROVE  LET there(x, y) == Between(s, x, y) \ gone # {}
               found == there(a, b) \/ (part.dir = "any" /\ there(b, a))
           IN  IF found THEN t = s
               ELSE EdgePut(s, t, a, b) /\ (gone = {} => FirstPut(s, t, a, b))
<1> DEFINE F == {k \in {0} \cup Num : EdgeId(a, b, k) \notin DOMAIN s.edges \cup gone}
           there(x, y) == Between(s, x, y) \ gone # {}
           found == there(a, b) \/ (part.dir = "any" /\ there(b, a))
<1>1. IF found THEN t = s ELSE \E k \in Least(F) : t = PutEdgeNew(s, EdgeId(a, b, k), a, b)
  BY DEF MergedEdge
<1>2. \A k \in Least(F) : EdgeId(a, b, k) \notin DOMAIN s.edges /\ k \in Nat
  BY LeastIsIn, NumberAssumption DEF Num
<1>3. \A k \in Least(F) : gone = {} => k = 0 \/ EdgeId(a, b, 0) \in DOMAIN s.edges
  <2>1. F \in SUBSET Nat
    BY NumberAssumption DEF Num
  <2>2. 0 \in F => \A k \in Least(F) : k = 0
    <3> HIDE DEF F
    <3> QED BY <2>1, LeastIsFirst
  <2> QED BY <2>2
<1> HIDE DEF F, found
<1> QED BY <1>1, <1>2, <1>3 DEF EdgePut, FirstPut, found

---------------------------------------------------------------------------
(* The types of the state *)

LEMMA ProgramIs ==
    ASSUME NEW prog \in Programs
    PROVE  /\ IsSeq(prog)
           /\ \A q \in Members(prog) : IsSeq(q) /\ Members(q) \subseteq AllClauses
<1>1. prog \in Seq(Seq(Clauses))
  BY ProgramAssumption
<1>2. IsSeq(prog) /\ Members(prog) \subseteq Seq(Clauses)
  BY <1>1, SeqIs
<1>3. ASSUME NEW i \in DOMAIN prog, NEW j \in DOMAIN prog[i] PROVE prog[i][j] \in AllClauses
  BY DEF AllClauses
<1>4. ASSUME NEW q \in Members(prog) PROVE IsSeq(q) /\ Members(q) \subseteq AllClauses
  <2>1. IsSeq(q)
    BY <1>2, SeqIs
  <2>2. PICK i \in DOMAIN prog : q = prog[i]
    BY DEF Members
  <2> QED BY <1>3, <2>1, <2>2 DEF Members
<1> QED BY <1>2, <1>4

LEMMA ClauseIs ==
    ASSUME NEW c \in AllClauses
    PROVE  /\ c.op \in {"MATCH", "CREATE", "MERGE", "DELETE", "DETACH DELETE"}
           /\ ~Deletes(c) => IsSeq(c.parts) /\ Members(c.parts) \subseteq AllParts
           /\ c.op \in {"MATCH", "MERGE"} =>
                 Len(c.parts) = 1 /\ c.parts[1] \in AllParts /\ Members(c.parts) = {c.parts[1]}
<1>1. PICK prog \in Programs : \E i \in DOMAIN prog : \E j \in DOMAIN prog[i] : c = prog[i][j]
  BY DEF AllClauses
<1>2. c \in Clauses
  <2>1. prog \in Seq(Seq(Clauses))
    BY ProgramAssumption
  <2>2. \A i \in DOMAIN prog : prog[i] \in Seq(Clauses)
    BY <2>1
  <2> QED BY <1>1, <2>2
<1>3. c.op \in {"MATCH", "CREATE", "MERGE", "DELETE", "DETACH DELETE"}
  BY <1>2 DEF Clauses
<1>4. ~Deletes(c) => c.parts \in Seq(Parts)
  BY <1>2 DEF Clauses, Deletes
<1>5. ~Deletes(c) => IsSeq(c.parts)
  BY <1>4, SeqIs
<1>6. ~Deletes(c) => \A k \in DOMAIN c.parts : c.parts[k] \in AllParts
  BY DEF AllParts
<1>7. c.op \in {"MATCH", "MERGE"} => ~Deletes(c) /\ Len(c.parts) = 1
  BY ProgramAssumption DEF Deletes
<1>8. c.op \in {"MATCH", "MERGE"} => DOMAIN c.parts = {1}
  BY <1>5, <1>7 DEF IsSeq
<1> QED BY <1>3, <1>5, <1>6, <1>7, <1>8 DEF Members

StoreOK ==
    /\ store = [labels |-> store.labels, edges |-> store.edges, counted |-> store.counted,
                pairs |-> store.pairs]
    /\ GraphOK(store) /\ PairsOK(store.pairs) /\ store.counted \in Nat

RequestOK ==
    /\ IsSeq(todo) /\ \A q \in Members(todo) : IsSeq(q) /\ Members(q) \subseteq AllClauses
    /\ IsSeq(clauses) /\ Members(clauses) \subseteq AllClauses
    /\ mode \in {"idle", "clause", "rows", "apply"}
    /\ mode \in {"rows", "apply"} => clause \in AllClauses /\ clause.op # "MATCH"
    /\ mode # "rows" => input = {}
    /\ mode \in {"idle", "clause"} => events = <<>>

RowsOK == ParamsOK(params) /\ \A row \in rows \cup input : RowOK(row, params)

EventOK(e, c, p) ==
    /\ e = [op |-> c.op, part |-> e.part, at |-> e.at, gone |-> e.gone]
    /\ NamesOK(e.at) /\ e.gone \subseteq p.goneE
    /\ ~Deletes(c) => e.part \in Members(c.parts)

EventsOK ==
    IsScratch(scratch) /\ IsSeq(events) /\ \A e \in Members(events) : EventOK(e, clause, params)

TypeInv == StoreOK /\ TxOK(tx) /\ GraphOK(was) /\ RequestOK /\ RowsOK /\ EventsOK

LEMMA TypeInvGives == TypeInv => TypeOK
<1> SUFFICES ASSUME TypeInv PROVE TypeOK
  OBVIOUS
<1>1. ASSUME NEW g, GraphOK(g) PROVE IsGraph(g)
  <2> SUFFICES ASSUME NEW e \in DOMAIN g.edges PROVE e = EdgeId(g.edges[e][1], g.edges[e][2], e[4])
    BY DEF IsGraph
  <2>1. e = EdgeId(e[2], e[3], e[4]) /\ g.edges[e] = <<e[2], e[3]>>
    BY <1>1 DEF GraphOK
  <2> QED BY <2>1
<1>2. IsGraph(store) /\ IsGraph(tx) /\ IsGraph(was)
  BY <1>1 DEF TypeInv, StoreOK, TxOK
<1>3. \A p \in DOMAIN tx.pairs : tx.pairs[p] > 0
  BY DEF TypeInv, TxOK, PairsOK
<1>4. \A row \in rows \cup input : DOMAIN row.id \subseteq DOMAIN row.at /\ row.gone \subseteq params.goneE
  BY DEF TypeInv, RowsOK, RowOK
<1> QED BY <1>2, <1>3, <1>4 DEF TypeInv, RequestOK, TypeOK

\* The view of a store, and the store a view leaves.
LEMMA ViewIs ==
    ASSUME StoreOK
    PROVE  /\ TxOK(View(store)) /\ View(store).labels = store.labels
           /\ View(store).edges = store.edges /\ View(store).counted = store.counted
           /\ View(store).pairs = store.pairs /\ DOMAIN View(store).base = {}
           /\ View(store).pending = 0
  BY DEF StoreOK, View, TxOK, IsView, GraphOK, PairsOK, Nothing

LEMMA GraphIs ==
    ASSUME NEW s, GraphOK(s) PROVE GraphOK(Graph(s)) /\ Graph(s).labels = s.labels /\ Graph(s).edges = s.edges
  BY DEF GraphOK, Graph

LEMMA NewIs ==
    /\ \A nth : ParamsOK(NewParams(nth)) /\ NewParams(nth).goneE = {} /\ NewParams(nth).goneV = {}
                /\ DOMAIN NewParams(nth).found = {} /\ DOMAIN NewParams(nth).made = {}
    /\ IsScratch(NewScratch) /\ NewScratch.known = {} /\ NewScratch.gone = {}
    /\ DOMAIN NewScratch.cache = {}
  BY DEF NewParams, ParamsOK, IsParams, NewScratch, IsScratch, Nothing

LEMMA EmptyRowIs == \A p : RowOK(EmptyRow, p) /\ EmptyRow.gone = {} /\ DOMAIN EmptyRow.at = {}
                           /\ DOMAIN EmptyRow.id = {}
  BY DEF EmptyRow, RowOK, IsRow, NamesOK, Nothing

\* What is known of rows and events stays as the deletions grow.
LEMMA GoneGrows ==
    ASSUME NEW p, NEW q, p.goneE \subseteq q.goneE
    PROVE  /\ \A row : RowOK(row, p) => RowOK(row, q)
           /\ \A e, c : EventOK(e, c, p) => EventOK(e, c, q)
  BY DEF RowOK, EventOK

LEMMA TypeInit == Init => TypeInv
<1> SUFFICES ASSUME Init PROVE TypeInv
  OBVIOUS
<1>1. PICK g \in Graphs :
         store = [labels |-> g.labels, edges |-> g.edges, counted |-> Cardinality(DOMAIN g.edges),
                  pairs |-> [p \in {g.edges[e] : e \in DOMAIN g.edges} |->
                                Cardinality(Between(g, p[1], p[2]))]]
  BY DEF Init
<1> DEFINE P == {g.edges[e] : e \in DOMAIN g.edges}
           f == [p \in P |-> Cardinality(Between(g, p[1], p[2]))]
<1>2. GraphOK(g)
  BY GraphAssumption DEF GraphOK, IsVertexId
<1>3. Cardinality(DOMAIN g.edges) \in Nat
  BY <1>2, FS_CardinalityType DEF GraphOK
<1>4. PairsOK(f)
  <2> SUFFICES ASSUME NEW p \in P PROVE Cardinality(Between(g, p[1], p[2])) \in Nat \ {0}
    BY DEF PairsOK
  <2>1. PICK e \in DOMAIN g.edges : p = g.edges[e]
    OBVIOUS
  <2>2. p = <<p[1], p[2]>>
    BY <1>2, <2>1 DEF GraphOK
  <2>3. e \in Between(g, p[1], p[2])
    BY <2>1, <2>2 DEF Between
  <2>4. Between(g, p[1], p[2]) \subseteq DOMAIN g.edges
    BY DEF Between
  <2>5. IsFiniteSet(Between(g, p[1], p[2]))
    BY <1>2, <2>4, FS_Subset DEF GraphOK
  <2> QED BY <2>3, <2>5, FS_CardinalityType, FS_EmptySet
<1> HIDE DEF f
<1>5. StoreOK
  BY <1>1, <1>2, <1>3, <1>4 DEF StoreOK, GraphOK, f
<1>6. TxOK(tx) /\ GraphOK(was)
  <2>1. GraphOK(store) /\ tx = View(store) /\ was = Graph(store)
    BY <1>5 DEF Init, StoreOK
  <2> QED BY <1>5, <2>1, ViewIs, GraphIs
<1>7. RequestOK
  BY ProgramIs, IsEmpty DEF Init, RequestOK
<1>8. RowsOK /\ EventsOK
  BY NewIs, IsEmpty DEF Init, RowsOK, EventsOK
<1> QED BY <1>5, <1>6, <1>7, <1>8 DEF TypeInv

LEMMA TypeBegin == TypeInv /\ Begin => TypeInv'
<1> SUFFICES ASSUME TypeInv, Begin PROVE TypeInv'
  OBVIOUS
<1>1. StoreOK' /\ TxOK(tx') /\ GraphOK(was')
  <2>1. StoreOK /\ UNCHANGED store /\ tx' = View(store) /\ was' = Graph(store)
    BY DEF TypeInv, Begin
  <2>2. GraphOK(store)
    BY <2>1 DEF StoreOK
  <2> QED BY <2>1, <2>2, ViewIs, GraphIs DEF StoreOK
<1>2. RequestOK'
  <2>1. IsSeq(todo) /\ todo # <<>> /\ \A q \in Members(todo) : IsSeq(q) /\ Members(q) \subseteq AllClauses
    BY DEF TypeInv, RequestOK, Begin
  <2>2. /\ clauses' = Head(todo) /\ todo' = Tail(todo) /\ mode' = "clause" /\ input' = {}
        /\ events' = <<>>
    BY DEF Begin
  <2>3. IsSeq(todo') /\ Members(todo) = {clauses'} \cup Members(todo')
    BY <2>1, <2>2, TailIs
  <2> QED BY <2>1, <2>2, <2>3 DEF RequestOK
<1>3. RowsOK' /\ EventsOK'
  BY NewIs, IsEmpty DEF Begin, RowsOK, EventsOK
<1> QED BY <1>1, <1>2, <1>3 DEF TypeInv

LEMMA GivenOK ==
    ASSUME TypeInv
    PROVE  \A row \in Given : RowOK(row, params)
  BY EmptyRowIs DEF TypeInv, RowsOK, Given

LEMMA ClauseBeginsIs ==
    ASSUME TypeInv, ClauseBegins
    PROVE  /\ clause' \in AllClauses /\ IsSeq(clauses') /\ Members(clauses') \subseteq AllClauses
           /\ Members(clauses) = {clause'} \cup Members(clauses')
           /\ clause' = Head(clauses) /\ GraphOK(was')
           /\ was'.labels = tx.labels /\ was'.edges = tx.edges
<1>1. /\ IsSeq(clauses) /\ clauses # <<>> /\ Members(clauses) \subseteq AllClauses
      /\ clause' = Head(clauses) /\ clauses' = Tail(clauses) /\ was' = Graph(tx) /\ TxOK(tx)
  BY DEF TypeInv, RequestOK, ClauseBegins
<1>2. IsSeq(clauses') /\ Members(clauses) = {clause'} \cup Members(clauses')
  BY <1>1, TailIs
<1> QED BY <1>1, <1>2, GraphIs DEF TxOK

LEMMA MatchNames ==
    ASSUME NEW c \in AllClauses, c.op = "MATCH"
    PROVE  LET part == c.parts[1]
           IN  /\ part \in AllParts /\ part.left.var # Anon
               /\ IsHop(part) => part.hop \in HopNames /\ part.hop # Anon /\ part.right.var # Anon
               /\ part.left.var \notin HopNames /\ (IsHop(part) => part.right.var \notin HopNames)
<1>1. c.parts[1] \in AllParts
  BY ClauseIs
<1>2. \A node \in NodesOf(c.parts[1]) : Anon \notin {node.var, c.parts[1].hop} /\ node.var \notin HopNames
  BY <1>1, ProgramAssumption
<1>3. c.parts[1].left.var # Anon /\ (IsHop(c.parts[1]) => c.parts[1].hop # Anon /\ c.parts[1].right.var # Anon)
      /\ c.parts[1].left.var \notin HopNames /\ (IsHop(c.parts[1]) => c.parts[1].right.var \notin HopNames)
  BY <1>2 DEF NodesOf
<1> QED BY <1>1, <1>3, PartNames

LEMMA MatchesOK ==
    ASSUME NEW s, GraphOK(s), NEW p, NEW row, RowOK(row, p), NEW c \in AllClauses, c.op = "MATCH",
           NEW t \in Matches(s, row, c.parts[1])
    PROVE  RowOK(t, p)
<1> DEFINE part == c.parts[1]
<1>1. /\ part \in AllParts /\ part.left.var # Anon
      /\ IsHop(part) => part.hop \in HopNames /\ part.hop # Anon /\ part.right.var # Anon
      /\ part.left.var \notin HopNames /\ (IsHop(part) => part.right.var \notin HopNames)
  BY MatchNames
<1> HIDE DEF part
<1>2. IsRow(row)
  BY DEF RowOK
<1>3. Matched(s, row, part, t)
  <2>1. t \in Matches(s, row, part)
    BY DEF part
  <2>2. part \in AllParts /\ part.left.var # Anon /\ (IsHop(part) => part.hop # Anon)
    BY <1>1
  <2> QED BY <1>2, <2>1, <2>2, MatchesIs
<1> USE DEF Matched
<1>4. NamesOK(t.at)
  <2>1. Anon \notin DOMAIN t.at
    BY <1>1, <1>3 DEF RowOK, NamesOK
  <2>2. ASSUME NEW x \in DOMAIN t.at, x \notin DOMAIN row.at
        PROVE  IF x \in HopNames THEN t.at[x][1] \in {"e", "auto-e"} ELSE IsVertexId(t.at[x])
    <3>1. CASE ~IsHop(part)
      BY <1>1, <1>3, <2>2, <3>1 DEF GraphOK
    <3>2. CASE IsHop(part)
      <4> DEFINE e == t.at[part.hop]
      <4>1. e = EdgeId(e[2], e[3], e[4]) /\ s.edges[e] = <<e[2], e[3]>>
            /\ IsVertexId(e[2]) /\ IsVertexId(e[3])
        BY <1>3, <3>2 DEF GraphOK
      <4>2. s.edges[e][1] = e[2] /\ s.edges[e][2] = e[3] /\ e[1] = "e"
        BY <4>1 DEF EdgeId
      <4> QED BY <1>1, <1>3, <2>2, <3>2, <4>1, <4>2
    <3> QED BY <3>1, <3>2
  <2> QED BY <1>3, <2>1, <2>2 DEF RowOK, NamesOK
<1> QED BY <1>3, <1>4 DEF RowOK

LEMMA TypeExecuteMatch == TypeInv /\ ExecuteMatch => TypeInv'
<1> SUFFICES ASSUME TypeInv, ExecuteMatch PROVE TypeInv'
  OBVIOUS
<1>1. ClauseBegins
  BY DEF ExecuteMatch
<1>2. /\ clause' \in AllClauses /\ IsSeq(clauses') /\ Members(clauses') \subseteq AllClauses
      /\ clause' = Head(clauses) /\ GraphOK(was')
  BY <1>1, ClauseBeginsIs
<1>3. /\ clause'.op = "MATCH" /\ mode = "clause"
      /\ rows' = UNION {Matches(tx, row, clause'.parts[1]) : row \in Given}
      /\ UNCHANGED <<store, tx, todo, input, params, events, scratch, mode>>
  BY <1>2 DEF ExecuteMatch, ClauseBegins
<1>4. RequestOK'
  BY <1>2, <1>3 DEF TypeInv, RequestOK
<1>5. input = {} /\ events = <<>>
  BY <1>3 DEF TypeInv, RequestOK
<1>6. RowsOK'
  <2>1. ASSUME NEW t \in rows' PROVE RowOK(t, params)
    <3>1. PICK row \in Given : t \in Matches(tx, row, clause'.parts[1])
      BY <1>3
    <3>2. RowOK(row, params) /\ GraphOK(tx)
      BY GivenOK DEF TypeInv, TxOK
    <3> QED BY <1>2, <1>3, <3>1, <3>2, MatchesOK
  <2> QED BY <1>3, <1>5, <2>1 DEF TypeInv, RowsOK
<1>7. EventsOK'
  BY <1>3, <1>5, IsEmpty DEF TypeInv, EventsOK
<1> QED BY <1>2, <1>3, <1>4, <1>6, <1>7 DEF TypeInv, StoreOK

LEMMA TypeExecuteWrite == TypeInv /\ ExecuteWrite => TypeInv'
<1> SUFFICES ASSUME TypeInv, ExecuteWrite PROVE TypeInv'
  OBVIOUS
<1>1. ClauseBegins
  BY DEF ExecuteWrite
<1>2. /\ clause' \in AllClauses /\ IsSeq(clauses') /\ Members(clauses') \subseteq AllClauses
      /\ clause' = Head(clauses) /\ GraphOK(was')
  BY <1>1, ClauseBeginsIs
<1>3. /\ clause'.op # "MATCH" /\ mode' = "rows" /\ input' = Given /\ rows' = {}
      /\ events' = <<>> /\ scratch' = NewScratch
      /\ UNCHANGED <<store, tx, todo, params>>
  BY <1>2 DEF ExecuteWrite, ClauseBegins
<1>4. RequestOK'
  BY <1>2, <1>3 DEF TypeInv, RequestOK
<1>5. RowsOK'
  BY <1>3, GivenOK DEF TypeInv, RowsOK
<1>6. EventsOK'
  BY <1>3, NewIs, IsEmpty DEF EventsOK
<1> QED BY <1>2, <1>3, <1>4, <1>5, <1>6 DEF TypeInv, StoreOK

\* The row that is next, with its parameters.
LEMMA NextRow ==
    ASSUME TypeInv, mode = "rows", NEW row \in input
    PROVE  /\ BothOK([row |-> row, params |-> params])
           /\ clause \in AllClauses /\ clause.op # "MATCH"
  BY DEF TypeInv, RequestOK, RowsOK, BothOK

LEMMA TypeRowDone ==
    ASSUME TypeInv, mode = "rows", NEW row \in input, NEW R, NEW p, NEW es, RowDone(row, R, p, es),
           ParamsOK(p), params.goneE \subseteq p.goneE, \A t \in R : RowOK(t, p),
           IsSeq(es), \A e \in Members(es) : EventOK(e, clause, p)
    PROVE  TypeInv'
<1>1. /\ input' = input \ {row} /\ rows' = rows \cup R /\ params' = p /\ events' = events \o es
      /\ UNCHANGED <<store, tx, todo, clauses, clause, was, scratch, mode>>
  BY DEF RowDone
<1>2. RequestOK'
  BY <1>1 DEF TypeInv, RequestOK
<1>3. RowsOK'
  BY <1>1, GoneGrows DEF TypeInv, RowsOK
<1>4. IsSeq(events') /\ Members(events') = Members(events) \cup Members(es)
  BY <1>1, ConcatIs DEF TypeInv, EventsOK
<1>5. EventsOK'
  BY <1>1, <1>4, GoneGrows DEF TypeInv, EventsOK
<1> QED BY <1>1, <1>2, <1>3, <1>5 DEF TypeInv, StoreOK

\* The event of a row.
LEMMA EventIs ==
    ASSUME NEW c \in AllClauses, NEW p, NEW row, RowOK(row, p), NEW part,
           ~Deletes(c) => part \in Members(c.parts)
    PROVE  /\ EventOK(Event(c, part, row), c, p)
           /\ Event(c, part, row).at = row.at /\ Event(c, part, row).part = part
           /\ Event(c, part, row).gone = row.gone
  BY DEF Event, EventOK, RowOK

LEMMA OneEvent == ASSUME NEW e PROVE IsSeq(<<e>>) /\ Members(<<e>>) = {e}
<1> DEFINE s == <<e>>
<1>1. s \in Seq({e}) /\ DOMAIN s = {1} /\ s[1] = e
  OBVIOUS
<1> HIDE DEF s
<1>2. IsSeq(s) /\ Members(s) = {e}
  BY <1>1, SeqIs DEF Members
<1> QED BY <1>2 DEF s

LEMMA TypeCreate == \A row \in input : TypeInv /\ mode = "rows" /\ MaterializeCreate(row) => TypeInv'
<1> SUFFICES ASSUME NEW row \in input, TypeInv, mode = "rows", MaterializeCreate(row) PROVE TypeInv'
  OBVIOUS
<1> DEFINE n == Len(clause.parts)
           r == [row |-> row, params |-> params]
           after == CreatedAfter(r, clause.parts)
           es == [i \in 1 .. n |-> Event(clause, clause.parts[i], after[i].row)]
<1>1. RowDone(row, {after[n].row}, after[n].params, es) /\ clause.op = "CREATE"
  BY DEF MaterializeCreate
<1>2. BothOK(r) /\ clause \in AllClauses
  BY NextRow
<1>3. IsSeq(clause.parts) /\ Members(clause.parts) \subseteq AllParts /\ ~Deletes(clause)
  BY <1>1, <1>2, ClauseIs DEF Deletes
<1>4. n \in Nat /\ DOMAIN clause.parts = 1 .. n
  BY <1>3 DEF IsSeq
<1>5. \A i \in 0 .. n : BothOK(after[i]) /\ Continues(r, after[i])
  <2> HIDE DEF r
  <2> QED BY <1>2, <1>3, CreatedAfterOK
<1> HIDE DEF after, n
<1>6. \A i \in 0 .. n : after[i].params.goneE = params.goneE /\ RowOK(after[i].row, after[n].params)
  <2>1. \A i \in 0 .. n : after[i].params.goneE = params.goneE /\ RowOK(after[i].row, after[i].params)
    BY <1>5 DEF Continues, BothOK
  <2>2. n \in 0 .. n
    BY <1>4
  <2> QED BY <2>1, <2>2, GoneGrows
<1>7. \A i \in 1 .. n : EventOK(es[i], clause, after[n].params)
  <2> TAKE i \in 1 .. n
  <2>1. clause.parts[i] \in Members(clause.parts) /\ i \in 0 .. n
    BY <1>4 DEF Members
  <2> QED BY <1>2, <1>6, <2>1, EventIs
<1>8. IsSeq(es) /\ \A e \in Members(es) : EventOK(e, clause, after[n].params)
  <2> DEFINE S == {es[i] : i \in 1 .. n}
  <2>1. es \in Seq(S) /\ DOMAIN es = 1 .. n
    BY <1>4
  <2> HIDE DEF es, S
  <2>2. IsSeq(es)
    BY <2>1, SeqIs
  <2> QED BY <1>7, <2>1, <2>2 DEF Members
<1>9. ParamsOK(after[n].params) /\ n \in 0 .. n
  <2>1. n \in 0 .. n
    BY <1>4
  <2>2. BothOK(after[n])
    BY <1>5, <2>1
  <2> QED BY <2>1, <2>2 DEF BothOK
<1> HIDE DEF es
<1> QED BY <1>1, <1>6, <1>8, <1>9, TypeRowDone

LEMMA ListingIs ==
    ASSUME NEW S, IsFiniteSet(S), NEW l \in Listings(S)
    PROVE  IsSeq(l) /\ Members(l) = S /\ DOMAIN l = 1 .. Cardinality(S)
<1>1. Cardinality(S) \in Nat /\ l \in [1 .. Cardinality(S) -> S]
      /\ \A x \in S : \E i \in DOMAIN l : l[i] = x
  BY FS_CardinalityType DEF Listings
<1>2. l \in Seq(S)
  BY <1>1
<1> QED BY <1>1, <1>2, SeqIs DEF Members

LEMMA TypeMerge == \A row \in input : TypeInv /\ mode = "rows" /\ MaterializeMerge(row) => TypeInv'
<1> SUFFICES ASSUME NEW row \in input, TypeInv, mode = "rows", MaterializeMerge(row) PROVE TypeInv'
  OBVIOUS
<1> DEFINE part == clause.parts[1]
           r == [row |-> row, params |-> params]
<1>1. BothOK(r) /\ clause \in AllClauses /\ clause.op = "MERGE" /\ GraphOK(tx) /\ TxOK(tx)
      /\ ParamsOK(params)
  BY NextRow DEF MaterializeMerge, TypeInv, TxOK, RowsOK
<1>2. part \in AllParts /\ part \in Members(clause.parts)
  BY <1>1, ClauseIs
<1>3. CASE IsHop(part)
  <2> DEFINE T == MergeEdge(tx, r, part)
  <2>1. PICK list \in Listings(T) :
           RowDone(row, T, params, [i \in DOMAIN list |-> Event(clause, part, list[i])])
    BY <1>3 DEF MaterializeMerge
  <2>2. IsFiniteSet(T) /\ \A t \in T : RowOK(t, r.params)
    <3> HIDE DEF r, part
    <3> QED BY <1>1, <1>2, <1>3, MergeEdgeIs
  <2> DEFINE es == [i \in DOMAIN list |-> Event(clause, part, list[i])]
  <2>3. IsSeq(list) /\ Members(list) = T
    <3> HIDE DEF T
    <3> QED BY <2>2, ListingIs
  <2>4. \A t \in T : EventOK(Event(clause, part, t), clause, params)
    <3> HIDE DEF T, part
    <3> QED BY <1>1, <1>2, <2>2, EventIs
  <2> HIDE DEF T, part
  <2>5. IsSeq(es) /\ \A e \in Members(es) : EventOK(e, clause, params)
    <3>1. DOMAIN list = 1 .. Len(list) /\ Len(list) \in Nat
      BY <2>3 DEF IsSeq
    <3>2. \A i \in DOMAIN list : EventOK(es[i], clause, params)
      BY <2>3, <2>4 DEF Members
    <3>3. es \in Seq({es[i] : i \in DOMAIN list}) /\ DOMAIN es = DOMAIN list
      BY <3>1
    <3> HIDE DEF es
    <3> QED BY <3>2, <3>3, SeqIs DEF Members
  <2> HIDE DEF es
  <2> QED BY <1>1, <2>1, <2>2, <2>5, TypeRowDone DEF es
<1>4. CASE ~IsHop(part)
  <2>1. PICK m \in MergeNode(tx, r, part.left) :
           RowDone(row, {m.row}, m.params, <<Event(clause, part, m.row)>>)
    BY <1>4 DEF MaterializeMerge
  <2>2. part.left.var \notin HopNames
    BY <1>2, PartNames DEF NodesOf
  <2> HIDE DEF part
  <2>3. BothOK(m) /\ m.params.goneE = r.params.goneE
    <3> HIDE DEF r
    <3> QED BY <1>1, <2>2, MergeNodeOK
  <2>4. RowOK(m.row, m.params) /\ ParamsOK(m.params) /\ m.params.goneE = params.goneE
    BY <2>3 DEF BothOK
  <2>5. EventOK(Event(clause, part, m.row), clause, m.params)
    BY <1>1, <1>2, <2>4, EventIs
  <2>6. IsSeq(<<Event(clause, part, m.row)>>)
        /\ Members(<<Event(clause, part, m.row)>>) = {Event(clause, part, m.row)}
    BY OneEvent
  <2> QED BY <2>1, <2>4, <2>5, <2>6, TypeRowDone
<1> QED BY <1>3, <1>4

LEMMA TypeDelete == \A row \in input : TypeInv /\ mode = "rows" /\ MaterializeDelete(row) => TypeInv'
<1> SUFFICES ASSUME NEW row \in input, TypeInv, mode = "rows", MaterializeDelete(row) PROVE TypeInv'
  OBVIOUS
<1> DEFINE r == [row |-> row, params |-> params]
           t == Tombstones(tx, r, clause.vars)
           e == Event(clause, NoPart, t.row)
<1>1. RowDone(row, {t.row}, t.params, <<e>>) /\ Deletes(clause)
  BY DEF MaterializeDelete
<1>2. BothOK(r) /\ clause \in AllClauses
  BY NextRow
<1>3. BothOK(t) /\ r.params.goneE \subseteq t.params.goneE
  <2> HIDE DEF r
  <2>1. Buried(tx, r, clause.vars, t)
    BY <1>2, TombstonesIs
  <2> HIDE DEF t
  <2> QED BY <2>1 DEF Buried
<1>4. RowOK(t.row, t.params) /\ ParamsOK(t.params) /\ params.goneE \subseteq t.params.goneE
  BY <1>3 DEF BothOK
<1> HIDE DEF t
<1>5. EventOK(e, clause, t.params)
  BY <1>1, <1>2, <1>4, EventIs
<1>6. IsSeq(<<e>>) /\ Members(<<e>>) = {e}
  BY OneEvent
<1> HIDE DEF e
<1> QED BY <1>1, <1>4, <1>5, <1>6, TypeRowDone

LEMMA TypeMaterializeRow == TypeInv /\ MaterializeRow => TypeInv'
  BY TypeCreate, TypeMerge, TypeDelete DEF MaterializeRow

\* A step of the applier: it needs the new view, the scratch record, and that
\* no event is new.
LEMMA TypeApplied ==
    ASSUME TypeInv, mode = "apply", TxOK(tx'), IsScratch(scratch'),
           IsSeq(events'), Members(events') \subseteq Members(events),
           UNCHANGED <<store, todo, clauses, clause, was, rows, input, params, mode>>
    PROVE  TypeInv'
<1>1. RequestOK'
  BY DEF TypeInv, RequestOK
<1>2. RowsOK'
  BY DEF TypeInv, RowsOK
<1>3. EventsOK'
  BY DEF TypeInv, EventsOK
<1> QED BY <1>1, <1>2, <1>3 DEF TypeInv, StoreOK

\* The event at the head, and those behind it.
LEMMA HeadIs ==
    ASSUME TypeInv, mode = "apply", events # <<>>
    PROVE  /\ EventOK(Head(events), clause, params) /\ Head(events) \in Members(events)
           /\ IsSeq(Tail(events)) /\ Members(Tail(events)) \subseteq Members(events)
           /\ Members(events) = {Head(events)} \cup Members(Tail(events))
           /\ clause \in AllClauses /\ clause.op # "MATCH"
           /\ ~Deletes(clause) => Head(events).part \in AllParts
           /\ clause.op = "MERGE" => Head(events).part = clause.parts[1]
<1>1. IsSeq(events) /\ \A e \in Members(events) : EventOK(e, clause, params)
  BY DEF TypeInv, EventsOK
<1>2. clause \in AllClauses /\ clause.op # "MATCH"
  BY DEF TypeInv, RequestOK
<1>3. IsSeq(Tail(events)) /\ Members(events) = {Head(events)} \cup Members(Tail(events))
  BY <1>1, TailIs
<1>4. EventOK(Head(events), clause, params)
  BY <1>1, <1>3
<1>5. ~Deletes(clause) => Head(events).part \in Members(clause.parts)
  BY <1>4 DEF EventOK
<1> QED BY <1>2, <1>3, <1>4, <1>5, ClauseIs DEF Deletes

\* The ends of an event are vertex ids or missing.
LEMMA EndsIs ==
    ASSUME NEW e, NamesOK(e.at), e.part \in AllParts, IsHop(e.part), Placed(e)
    PROVE  /\ IsPair(Ends(e))
           /\ e.part.left.var \in DOMAIN e.at /\ Ends(e)[1] = e.at[e.part.left.var]
           /\ e.part.right.var \in DOMAIN e.at /\ Ends(e)[2] = e.at[e.part.right.var]
<1>1. e.part.left.var \notin HopNames /\ e.part.right.var \notin HopNames
  BY PartNames DEF NodesOf
<1> DEFINE a == At(e.at, e.part.left.var, None)
           b == At(e.at, e.part.right.var, None)
<1>2. Ends(e) = <<a, b>> /\ Ends(e)[1] = a /\ Ends(e)[2] = b
  BY DEF Ends
<1>3. a # None /\ b # None
  BY <1>2 DEF Placed
<1>4. e.part.left.var \in DOMAIN e.at /\ a = e.at[e.part.left.var]
  BY <1>3 DEF At
<1>5. e.part.right.var \in DOMAIN e.at /\ b = e.at[e.part.right.var]
  BY <1>3 DEF At
<1>6. IsVertexId(a) /\ IsVertexId(b)
  BY <1>1, <1>4, <1>5 DEF NamesOK
<1> HIDE DEF a, b
<1> QED BY <1>2, <1>4, <1>5, <1>6 DEF IsPair

LEMMA TypeApplyCreate == TypeInv /\ ApplyCreate => TypeInv' /\ TxOK(tx')
<1> SUFFICES ASSUME TypeInv, ApplyCreate PROVE TypeInv' /\ TxOK(tx')
  OBVIOUS
<1>1. PICK c \in Created(tx, scratch.autoV, Head(events)) :
         Applied(c.s) /\ scratch' = [scratch EXCEPT !.autoV = c.n]
  BY DEF ApplyCreate
<1>2. mode = "apply" /\ events # <<>> /\ ~Deletes(clause) /\ tx' = c.s /\ events' = Tail(events)
      /\ UNCHANGED <<store, todo, clauses, clause, was, rows, input, params, mode>>
  BY <1>1 DEF ApplyCreate, Applied, Deletes
<1>3. EventOK(Head(events), clause, params) /\ Head(events).part \in AllParts
      /\ IsSeq(Tail(events)) /\ Members(Tail(events)) \subseteq Members(events)
  BY <1>2, HeadIs
<1>4. TxOK(c.s)
  BY <1>3, CreatedOK DEF TypeInv, EventOK
<1>5. IsScratch(scratch')
  BY <1>1 DEF TypeInv, EventsOK, IsScratch
<1> QED BY <1>2, <1>3, <1>4, <1>5, TypeApplied

LEMMA TypeApplyMergeVertex == TypeInv /\ ApplyMergeVertex => TypeInv' /\ VerticesPut(tx, tx')
<1> SUFFICES ASSUME TypeInv, ApplyMergeVertex PROVE TypeInv' /\ VerticesPut(tx, tx')
  OBVIOUS
<1>1. PICK m \in MergedVertex(tx, scratch, Head(events)) : Applied(m.s) /\ scratch' = m.scratch
  BY DEF ApplyMergeVertex
<1>2. mode = "apply" /\ events # <<>> /\ ~Deletes(clause) /\ tx' = m.s /\ events' = Tail(events)
      /\ UNCHANGED <<store, todo, clauses, clause, was, rows, input, params, mode>>
  BY <1>1 DEF ApplyMergeVertex, Applied, Deletes
<1>3. EventOK(Head(events), clause, params) /\ Head(events).part \in AllParts
      /\ IsSeq(Tail(events)) /\ Members(Tail(events)) \subseteq Members(events)
  BY <1>2, HeadIs
<1>4. VerticesPut(tx, m.s) /\ IsScratch(m.scratch)
  BY <1>3, MergedVertexOK DEF TypeInv, EventOK, EventsOK
<1> QED BY <1>1, <1>2, <1>3, <1>4, TypeApplied DEF VerticesPut

\* The pairs of a batch: those of its events, and as many as there are.
LEMMA BatchIs ==
    ASSUME TypeInv, mode = "apply", clause.op = "MERGE", IsHop(clause.parts[1]),
           NEW n \in DOMAIN events, \A i \in 1 .. n : Placed(events[i])
    PROVE  LET P == {Ends(events[i]) : i \in 1 .. n}
               rest == SubSeq(events, n + 1, Len(events))
               first == {events[i] : i \in 1 .. n}
           IN  /\ IsFiniteSet(P) /\ \A p \in P : IsPair(p)
               /\ IsSeq(rest) /\ Members(events) = first \cup Members(rest)
               /\ P = {Ends(e) : e \in first} /\ \A e \in first : Placed(e)
<1> DEFINE P == {Ends(events[i]) : i \in 1 .. n}
           f == [i \in 1 .. n |-> Ends(events[i])]
<1>1. IsSeq(events) /\ (\A e \in Members(events) : EventOK(e, clause, params)) /\ clause \in AllClauses
  BY DEF TypeInv, EventsOK, RequestOK
<1>2. n \in Nat /\ 1 .. n \subseteq DOMAIN events
  BY <1>1 DEF IsSeq
<1>3. IsFiniteSet(P)
  <2>1. IsFiniteSet(1 .. n)
    BY <1>2, FS_Interval
  <2>2. f \in Surjection(1 .. n, P)
    BY DEF Surjection
  <2> HIDE DEF f, P
  <2> QED BY <2>1, <2>2, FS_Surjection
<1>4. \A i \in 1 .. n : IsPair(Ends(events[i]))
  <2> TAKE i \in 1 .. n
  <2>1. EventOK(events[i], clause, params)
    BY <1>1, <1>2 DEF Members
  <2>2. NamesOK(events[i].at) /\ events[i].part = clause.parts[1] /\ clause.parts[1] \in AllParts
    BY <1>1, <2>1, ClauseIs DEF EventOK, Deletes
  <2> QED BY <2>2, EndsIs
<1>5. IsSeq(SubSeq(events, n + 1, Len(events)))
      /\ Members(events) = {events[i] : i \in 1 .. n} \cup Members(SubSeq(events, n + 1, Len(events)))
  BY <1>1, RestIs
<1> QED BY <1>3, <1>4, <1>5

LEMMA TypeApplyMergeBatch == TypeInv /\ ApplyMergeBatch => TypeInv' /\ TxOK(tx')
<1> SUFFICES ASSUME TypeInv, ApplyMergeBatch PROVE TypeInv' /\ TxOK(tx')
  OBVIOUS
<1>1. PICK n \in DOMAIN events :
         /\ \A i \in 1 .. n : Placed(events[i])
         /\ tx' = PutEdgeNewBatch(tx, {Ends(events[i]) : i \in 1 .. n})
         /\ events' = SubSeq(events, n + 1, Len(events))
  BY DEF ApplyMergeBatch
<1>2. /\ mode = "apply" /\ clause.op = "MERGE" /\ IsHop(clause.parts[1])
      /\ UNCHANGED <<store, todo, clauses, clause, was, rows, input, params, scratch, mode>>
  BY DEF ApplyMergeBatch
<1> DEFINE P == {Ends(events[i]) : i \in 1 .. n}
<1>3. IsFiniteSet(P) /\ (\A p \in P : IsPair(p)) /\ IsSeq(events')
      /\ Members(events') \subseteq Members(events)
  BY <1>1, <1>2, BatchIs
<1> HIDE DEF P
<1>4. TxOK(tx')
  BY <1>1, <1>3, PutEdgeNewBatchOK DEF TypeInv, P
<1> QED BY <1>2, <1>3, <1>4, TypeApplied DEF TypeInv, EventsOK

\* A MERGE of a hop, one event at a time: nothing, or an edge of the pair.
HopPut ==
    LET p == Ends(Head(events))
    IN  /\ EdgePut(tx, tx', p[1], p[2])
        /\ scratch.gone \cup Head(events).gone = {} => FirstPut(tx, tx', p[1], p[2])

LEMMA TypeApplyMergeHop ==
    TypeInv /\ (ApplyMergeSimple \/ ApplyMergeEdge \/ ApplyMergeNothing) =>
        /\ TypeInv' /\ TxOK(tx')
        /\ tx' = tx \/ HopPut
<1> SUFFICES ASSUME TypeInv, ApplyMergeSimple \/ ApplyMergeEdge \/ ApplyMergeNothing
             PROVE  /\ TypeInv' /\ TxOK(tx')
                    /\ tx' = tx \/ HopPut
  OBVIOUS
<1> DEFINE e == Head(events)
           p == Ends(e)
<1>1. /\ mode = "apply" /\ events # <<>> /\ clause.op = "MERGE" /\ IsHop(clause.parts[1])
      /\ events' = Tail(events) /\ ~Deletes(clause)
      /\ UNCHANGED <<store, todo, clauses, clause, was, rows, input, params, mode>>
  BY DEF ApplyMergeSimple, ApplyMergeEdge, ApplyMergeNothing, Applied, Deletes
<1>2. EventOK(e, clause, params) /\ e.part \in AllParts /\ e.part = clause.parts[1]
      /\ IsSeq(Tail(events)) /\ Members(Tail(events)) \subseteq Members(events)
  BY <1>1, HeadIs
<1>3. IsScratch(scratch')
  BY DEF ApplyMergeSimple, ApplyMergeEdge, ApplyMergeNothing, TypeInv, EventsOK, IsScratch
<1> DEFINE gone == scratch.gone \cup e.gone
<1>4. tx' = tx \/ (/\ Placed(e) /\ EdgePut(tx, tx', p[1], p[2])
                   /\ gone = {} => FirstPut(tx, tx', p[1], p[2]))
  <2>1. CASE ApplyMergeSimple
    BY <2>1 DEF ApplyMergeSimple, Applied, EdgePut, FirstPut
  <2>2. CASE ApplyMergeEdge
    <3>1. Placed(e) /\ tx' \in MergedEdge(tx, gone, e.part, p[1], p[2])
      BY <2>2 DEF ApplyMergeEdge, Applied
    <3> HIDE DEF e, p, gone
    <3> QED BY <3>1, MergedEdgeIs
  <2>3. CASE ApplyMergeNothing
    BY <2>3 DEF ApplyMergeNothing, Applied
  <2> QED BY <2>1, <2>2, <2>3
<1>5. TxOK(tx')
  <2>1. Placed(e) => IsVertexId(p[1]) /\ IsVertexId(p[2])
    BY <1>1, <1>2, EndsIs DEF EventOK, IsPair
  <2> HIDE DEF e, p
  <2> QED BY <1>4, <2>1, EdgePutOK DEF TypeInv
<1>6. tx' = tx \/ HopPut
  BY <1>4 DEF HopPut
<1> QED BY <1>1, <1>2, <1>3, <1>5, <1>6, TypeApplied

\* A deletion, in the two ways it ends, and what is left.
LEMMA WithoutEdgesIs ==
    ASSUME TypeInv
    PROVE  /\ TxOK(WithoutEdges) /\ WithoutEdges.labels = tx.labels
           /\ DOMAIN WithoutEdges.edges = DOMAIN tx.edges \ DeletedEdges
           /\ \A e \in DOMAIN WithoutEdges.edges : WithoutEdges.edges[e] = tx.edges[e]
<1>1. DeletedEdges \subseteq DOMAIN tx.edges /\ TxOK(tx)
  BY DEF DeletedEdges, TypeInv
<1> QED BY <1>1, EdgesDeletedOK DEF WithoutEdges

LEMMA TypeApplyDelete == TypeInv /\ ApplyDelete => TypeInv'
<1> SUFFICES ASSUME TypeInv, ApplyDelete PROVE TypeInv'
  OBVIOUS
<1>1. /\ mode = "apply" /\ events' = <<>>
      /\ tx' = IF clause.op = "DELETE" THEN VerticesDeleted(WithoutEdges, DeletedVertices)
               ELSE Detached(WithoutEdges, DeletedVertices)
      /\ UNCHANGED <<store, todo, clauses, clause, was, rows, input, params, scratch, mode>>
  BY DEF ApplyDelete
<1>2. TxOK(WithoutEdges)
  BY WithoutEdgesIs
<1>3. TxOK(tx')
  BY <1>1, <1>2, VerticesDeletedOK, DetachedOK
<1>4. IsSeq(events') /\ Members(events') \subseteq Members(events)
  BY <1>1, IsEmpty
<1> QED BY <1>1, <1>3, <1>4, TypeApplied DEF TypeInv, EventsOK

\* A commit writes what is counted, and no less than nothing.
LEMMA FlushedIs ==
    ASSUME NEW s, TxOK(s)
    PROVE  /\ Flushed(s).labels = s.labels /\ Flushed(s).edges = s.edges
           /\ Flushed(s).pairs = s.pairs
           /\ Flushed(s).counted = IF s.counted + s.pending < 0 THEN 0 ELSE s.counted + s.pending
           /\ Flushed(s).counted \in Nat
           /\ Flushed(s) = [labels |-> Flushed(s).labels, edges |-> Flushed(s).edges,
                            counted |-> Flushed(s).counted, pairs |-> Flushed(s).pairs]
  BY DEF TxOK, Flushed

LEMMA TypeOthers == TypeInv /\ (RowsDone \/ EndClause \/ Commit \/ Fail) => TypeInv'
<1>1. TypeInv /\ RowsDone => TypeInv'
  BY DEF TypeInv, StoreOK, RequestOK, RowsOK, EventsOK, RowsDone
<1>2. TypeInv /\ EndClause => TypeInv'
  BY DEF TypeInv, StoreOK, RequestOK, RowsOK, EventsOK, EndClause
<1>3. TypeInv /\ Commit => TypeInv'
  <2> SUFFICES ASSUME TypeInv, Commit PROVE TypeInv'
    OBVIOUS
  <2>1. /\ mode = "clause" /\ store' = Flushed(tx) /\ mode' = "idle" /\ TxOK(tx)
        /\ UNCHANGED <<tx, todo, clauses, clause, was, rows, input, params, events, scratch>>
    BY DEF TypeInv, Commit
  <2>2. StoreOK'
    BY <2>1, FlushedIs DEF StoreOK, TxOK, GraphOK
  <2> QED BY <2>1, <2>2 DEF TypeInv, RequestOK, RowsOK, EventsOK
<1>4. TypeInv /\ Fail => TypeInv'
  <2> SUFFICES ASSUME TypeInv, Fail PROVE TypeInv'
    OBVIOUS
  <2>1. /\ mode = "apply" /\ mode' = "idle" /\ tx' = View(store) /\ rows' = {} /\ events' = <<>>
        /\ UNCHANGED <<store, todo, clauses, clause, was, input, params, scratch>>
    BY DEF Fail
  <2>2. TxOK(tx')
    BY <2>1, ViewIs DEF TypeInv
  <2> QED BY <2>1, <2>2, IsEmpty DEF TypeInv, StoreOK, RequestOK, RowsOK, EventsOK
<1> QED BY <1>1, <1>2, <1>3, <1>4

LEMMA TypeStep == TypeInv /\ [Next]_vars => TypeInv'
<1> SUFFICES ASSUME TypeInv, [Next]_vars PROVE TypeInv'
  OBVIOUS
<1>1. CASE UNCHANGED vars
  BY <1>1 DEF vars, TypeInv, StoreOK, RequestOK, RowsOK, EventsOK
<1>2. CASE Begin BY <1>2, TypeBegin
<1>3. CASE ExecuteMatch BY <1>3, TypeExecuteMatch
<1>4. CASE ExecuteWrite BY <1>4, TypeExecuteWrite
<1>5. CASE MaterializeRow BY <1>5, TypeMaterializeRow
<1>6. CASE RowsDone \/ EndClause \/ Commit \/ Fail BY <1>6, TypeOthers
<1>7. CASE ApplyCreate BY <1>7, TypeApplyCreate
<1>8. CASE ApplyMergeVertex BY <1>8, TypeApplyMergeVertex
<1>9. CASE ApplyMergeBatch BY <1>9, TypeApplyMergeBatch
<1>10. CASE ApplyMergeSimple \/ ApplyMergeEdge \/ ApplyMergeNothing
  BY <1>10, TypeApplyMergeHop
<1>11. CASE ApplyDelete BY <1>11, TypeApplyDelete
<1> QED BY <1>1, <1>2, <1>3, <1>4, <1>5, <1>6, <1>7, <1>8, <1>9, <1>10, <1>11 DEF Next

LEMMA TypeAlways == Spec => []TypeInv
  BY TypeInit, TypeStep, PTL DEF Spec

\* Whatever the requests, edge ids name the ends of their edges, a pair count
\* that is kept is positive, and a row's deletions are among the request's
\* (PutEdgeNew, adjustOutEndpointPairCount, materializeWriteBindings).
THEOREM StatementTypes == Spec => []TypeOK
  BY TypeAlways, TypeInvGives, PTL

---------------------------------------------------------------------------
(* Requests whose clauses stand in an order *)

OrderInv(R) ==
    /\ \A q \in Members(todo) : Ordered(q, R)
    /\ Ordered(clauses, R)
    /\ mode # "idle" /\ clause.op # "MATCH" => \A d \in Members(clauses) : <<clause, d>> \in R

LEMMA TailOrdered ==
    ASSUME NEW R, NEW q, IsSeq(q), q # <<>>, Ordered(q, R)
    PROVE  Ordered(Tail(q), R) /\ \A d \in Members(Tail(q)) : <<Head(q), d>> \in R
<1>1. /\ IsSeq(Tail(q)) /\ Len(Tail(q)) = Len(q) - 1 /\ Len(q) > 0 /\ Head(q) = q[1]
      /\ \A i \in 1 .. Len(q) - 1 : Tail(q)[i] = q[i + 1]
  BY TailIs
<1>2. DOMAIN Tail(q) = 1 .. Len(q) - 1 /\ DOMAIN q = 1 .. Len(q) /\ Len(q) \in Nat
  BY <1>1 DEF IsSeq
<1>3. \A j \in 1 .. Len(q) - 1 : j + 1 \in 1 .. Len(q) /\ 1 \in 1 .. Len(q) /\ 1 < j + 1
  BY <1>2
<1>4. ASSUME NEW d \in Members(Tail(q)) PROVE <<Head(q), d>> \in R
  <2>1. PICK j \in 1 .. Len(q) - 1 : d = q[j + 1]
    BY <1>1, <1>2 DEF Members
  <2> QED BY <1>1, <1>2, <1>3, <2>1 DEF Ordered
<1>5. ASSUME NEW j \in 1 .. Len(q) - 1, NEW k \in 1 .. Len(q) - 1, j < k
      PROVE  <<Tail(q)[j], Tail(q)[k]>> \in R
  <2>1. j + 1 < k + 1
    BY <1>2, <1>5
  <2> QED BY <1>1, <1>2, <1>3, <2>1 DEF Ordered
<1> QED BY <1>2, <1>4, <1>5 DEF Ordered

LEMMA OrderInit == ASSUME NEW R, Obeyed(R) PROVE Init => OrderInv(R)
<1> SUFFICES ASSUME Init PROVE OrderInv(R)
  OBVIOUS
<1>1. \A q \in Members(todo) : Ordered(q, R)
  BY DEF Init, Obeyed, Members
<1>2. clauses = <<>> /\ mode = "idle"
  BY DEF Init
<1> QED BY <1>1, <1>2 DEF OrderInv, Ordered

LEMMA OrderStep == ASSUME NEW R, TypeInv, OrderInv(R), [Next]_vars PROVE OrderInv(R)'
<1>1. CASE UNCHANGED vars BY <1>1 DEF vars, OrderInv
<1>2. CASE Begin
  <2>1. IsSeq(todo) /\ todo # <<>>
    BY <1>2 DEF TypeInv, RequestOK, Begin
  <2>2. clauses' = Head(todo) /\ todo' = Tail(todo) /\ clause'.op = "MATCH"
    BY <1>2 DEF Begin, Match
  <2>3. Members(todo) = {clauses'} \cup Members(todo')
    BY <2>1, <2>2, TailIs
  <2> QED BY <2>2, <2>3 DEF OrderInv
<1>3. CASE ExecuteMatch \/ ExecuteWrite
  <2>1. /\ IsSeq(clauses) /\ clauses # <<>> /\ clause' = Head(clauses) /\ clauses' = Tail(clauses)
        /\ UNCHANGED todo
    BY <1>3 DEF TypeInv, RequestOK, ExecuteMatch, ExecuteWrite, ClauseBegins
  <2>2. Ordered(clauses', R) /\ \A d \in Members(clauses') : <<clause', d>> \in R
    BY <2>1, TailOrdered DEF OrderInv
  <2> QED BY <2>1, <2>2 DEF OrderInv
<1>4. CASE UNCHANGED <<todo, clauses, clause>> /\ mode # "idle"
  BY <1>4 DEF OrderInv
<1>5. CASE MaterializeRow
  BY <1>4, <1>5 DEF MaterializeRow, MaterializeCreate, MaterializeMerge, MaterializeDelete, RowDone
<1>6. CASE RowsDone \/ EndClause \/ Commit \/ Fail
  BY <1>4, <1>6 DEF RowsDone, EndClause, Commit, Fail
<1>7. CASE ApplyCreate \/ ApplyMergeVertex \/ ApplyMergeBatch \/ ApplyMergeSimple
           \/ ApplyMergeEdge \/ ApplyMergeNothing \/ ApplyDelete
  BY <1>4, <1>7 DEF ApplyCreate, ApplyMergeVertex, ApplyMergeBatch, ApplyMergeSimple,
                    ApplyMergeEdge, ApplyMergeNothing, ApplyDelete, Applied
<1> QED BY <1>1, <1>2, <1>3, <1>5, <1>6, <1>7 DEF Next

---------------------------------------------------------------------------
(* Edges join vertices.  The ends of a MERGE of a relationship are read    *)
(* from the rows, so what has to be kept is that the names of a row denote *)
(* vertices which are there, or which an event in front will write.        *)

Whole(s) == \A e \in DOMAIN s.edges : {s.edges[e][1], s.edges[e][2]} \subseteq DOMAIN s.labels

\* a relationship is merged by the running clause or one to come
HopMergeAhead ==
    (mode \in {"rows", "apply"} /\ MergesHop(clause)) \/ \E c \in Members(clauses) : MergesHop(c)

WrittenBy(e) ==
    IF e.op = "CREATE" THEN {e.at[x] : x \in {node.var : node \in NodesOf(e.part)} \cap DOMAIN e.at}
    ELSE IF e.op = "MERGE" /\ ~IsHop(e.part) THEN {TakenId(e)} \ {None} ELSE {}
ToBeWritten == UNION {WrittenBy(e) : e \in Members(events)}

VertexBound(at) == {at[x] : x \in DOMAIN at \ HopNames}

MadeInv == \A key \in DOMAIN params.made : IsPredicted(params.made[key])
FoundInv == \A lab \in DOMAIN params.found :
                params.found[lab] # None => params.found[lab] \in DOMAIN tx.labels
EndsInv ==
    /\ \A row \in rows \cup input : VertexBound(row.at) \subseteq DOMAIN tx.labels \cup ToBeWritten
    /\ \A e \in Members(events) : VertexBound(e.at) \subseteq DOMAIN tx.labels \cup ToBeWritten
WholeInv ==
    /\ Whole(store) /\ Whole(tx) /\ MadeInv
    /\ mode # "idle" /\ HopMergeAhead => FoundInv /\ EndsInv

LEMMA WholePut ==
    ASSUME NEW s, Whole(s), NEW t, VerticesPut(s, t) PROVE Whole(t)
  BY DEF Whole, VerticesPut

LEMMA WholeEdge ==
    ASSUME NEW s, TxOK(s), Whole(s), NEW a, NEW b, IsVertexId(a), IsVertexId(b),
           {a, b} \subseteq DOMAIN s.labels, NEW t, EdgePut(s, t, a, b)
    PROVE  Whole(t) /\ t.labels = s.labels
<1>1. /\ t.labels = s.labels
      /\ EdgeAdded(s, t, a, b)
      /\ \A e \in DOMAIN s.edges : t.edges[e] = s.edges[e]
  BY EdgePutOK
<1>2. PICK e : /\ DOMAIN t.edges = DOMAIN s.edges \cup {e}
               /\ t.edges[e] = <<a, b>>
  BY <1>1 DEF EdgeAdded
<1> QED BY <1>1, <1>2 DEF Whole

LEMMA WholeBatch ==
    ASSUME NEW s, TxOK(s), Whole(s), NEW P, IsFiniteSet(P), \A p \in P : IsPair(p),
           \A p \in P : {p[1], p[2]} \subseteq DOMAIN s.labels
    PROVE  Whole(PutEdgeNewBatch(s, P)) /\ PutEdgeNewBatch(s, P).labels = s.labels
<1> DEFINE t == PutEdgeNewBatch(s, P)
           E == {EdgeId(p[1], p[2], 0) : p \in P}
<1>1. /\ TxOK(t) /\ t.labels = s.labels /\ DOMAIN t.edges = DOMAIN s.edges \cup E
      /\ \A e \in DOMAIN s.edges : t.edges[e] = s.edges[e]
  BY PutEdgeNewBatchOK
<1> HIDE DEF t
<1>2. ASSUME NEW e \in E PROVE {e[2], e[3]} \subseteq DOMAIN t.labels
  BY <1>1, EdgeIdParts
<1>3. \A e \in DOMAIN t.edges : t.edges[e] = <<e[2], e[3]>>
  BY <1>1 DEF TxOK, GraphOK
<1> HIDE DEF E
<1>4. \A e \in DOMAIN t.edges : {t.edges[e][1], t.edges[e][2]} \subseteq DOMAIN t.labels
  BY <1>1, <1>2, <1>3 DEF Whole
<1> QED BY <1>1, <1>4 DEF Whole, t

\* A deletion that is applied leaves no edge without its ends.
LEMMA WholeDelete ==
    ASSUME TypeInv, Whole(tx), ApplyDelete PROVE Whole(tx')
<1> DEFINE V == DeletedVertices
           w == WithoutEdges
<1>1. /\ TxOK(w) /\ w.labels = tx.labels /\ DOMAIN w.edges = DOMAIN tx.edges \ DeletedEdges
      /\ \A e \in DOMAIN w.edges : w.edges[e] = tx.edges[e]
  BY WithoutEdgesIs
<1>2. Whole(w)
  BY <1>1 DEF Whole
<1>3. CASE clause.op = "DELETE"
  <2>1. tx' = VerticesDeleted(w, V) /\ Incident(w, V) = {}
    BY <1>3 DEF ApplyDelete, Connected
  <2> HIDE DEF w, V
  <2>2. tx'.edges = w.edges /\ DOMAIN tx'.labels = DOMAIN w.labels \ V
    BY <1>1, <2>1, VerticesDeletedOK
  <2>3. \A e \in DOMAIN w.edges : w.edges[e][1] \notin V /\ w.edges[e][2] \notin V
    BY <2>1 DEF Incident
  <2> QED BY <1>2, <2>2, <2>3 DEF Whole
<1>4. CASE clause.op # "DELETE"
  <2> DEFINE V0 == V \cap DOMAIN w.labels
  <2>1. tx' = Detached(w, V)
    BY <1>4 DEF ApplyDelete
  <2> HIDE DEF w, V
  <2>2. \/ tx' = Emptied(w)
        \/ /\ DOMAIN tx'.labels = DOMAIN w.labels \ V
           /\ DOMAIN tx'.edges = DOMAIN w.edges \ Incident(w, V0)
           /\ \A e \in DOMAIN tx'.edges : tx'.edges[e] = w.edges[e]
    <3> DEFINE d == Detached(w, V)
    <3>1. \/ d = Emptied(w)
          \/ /\ DOMAIN d.labels = DOMAIN w.labels \ V
             /\ DOMAIN d.edges = DOMAIN w.edges \ Incident(w, V0)
             /\ \A e \in DOMAIN d.edges : d.edges[e] = w.edges[e]
      <4>1. DetachedTo(w, V, d)
        BY <1>1, DetachedOK
      <4> HIDE DEF d
      <4> QED BY <4>1 DEF DetachedTo
    <3> HIDE DEF d
    <3> QED BY <2>1, <3>1 DEF d
  <2>3. CASE tx' = Emptied(w)
    <3>1. DOMAIN tx'.edges = {}
      BY <1>1, <2>3, EmptiedOK
    <3> QED BY <3>1 DEF Whole
  <2>4. CASE /\ DOMAIN tx'.labels = DOMAIN w.labels \ V
             /\ DOMAIN tx'.edges = DOMAIN w.edges \ Incident(w, V0)
             /\ \A e \in DOMAIN tx'.edges : tx'.edges[e] = w.edges[e]
    <3>1. \A e \in DOMAIN tx'.edges : /\ w.edges[e][1] \notin V0 /\ w.edges[e][2] \notin V0
                                     /\ e \in DOMAIN w.edges
      BY <2>4 DEF Incident
    <3>2. \A e \in DOMAIN w.edges : {w.edges[e][1], w.edges[e][2]} \subseteq DOMAIN w.labels
      BY <1>2 DEF Whole
    <3>3. \A e \in DOMAIN tx'.edges : {tx'.edges[e][1], tx'.edges[e][2]} \subseteq DOMAIN tx'.labels
      BY <2>4, <3>1, <3>2
    <3> QED BY <3>3 DEF Whole
  <2> QED BY <2>2, <2>3, <2>4
<1> QED BY <1>3, <1>4

\* A set of edges has one with the least number, so a plain id in a deletion
\* stands for an edge (deleteEdgeLookup).
LEMMA LeastEdge ==
    ASSUME NEW B, B # {}, \A e \in B : e[4] \in Nat
    PROVE  LET m == CHOOSE e \in B : \A d \in B : e[4] <= d[4]
           IN  m \in B /\ \A d \in B : m[4] <= d[4]
<1> DEFINE R == OpToRel(<, Nat)
           S == {e[4] : e \in B}
<1>1. S \subseteq Nat /\ S # {}
  OBVIOUS
<1>2. PICK n \in S : \A m \in S : <<m, n>> \notin R
  <2>1. IsWellFoundedOn(R, Nat)
    BY NatLessThanWellFounded
  <2> HIDE DEF R, S
  <2> QED BY <1>1, <2>1, WFMin
<1>3. \A m \in S : n <= m
  <2>1. \A m \in S : <<m, n>> \in R <=> m < n
    BY <1>1 DEF OpToRel
  <2> HIDE DEF R
  <2>2. \A m \in S : ~(m < n) /\ m \in Nat /\ n \in Nat
    BY <1>1, <1>2, <2>1
  <2> QED BY <2>2
<1>4. \E e \in B : \A d \in B : e[4] <= d[4]
  BY <1>2, <1>3
<1> QED BY <1>4

\* What a deletion of names of hops takes is no vertex.
LEMMA HopsDoomed ==
    ASSUME TypeInv, clause.vars \subseteq HopNames
    PROVE  \A v \in DeletedVertices : ~IsVertexId(v)
<1> SUFFICES ASSUME NEW v \in Doomed(tx, events, clause.vars) PROVE ~IsVertexId(v)
  BY DEF DeletedVertices
<1>1. PICK p \in (DOMAIN events) \X clause.vars :
         p[2] \in DOMAIN events[p[1]].at /\ v = Resolved(tx, events[p[1]].at[p[2]])
  BY DEF Doomed
<1> DEFINE id == events[p[1]].at[p[2]]
<1>2. NamesOK(events[p[1]].at)
  BY <1>1 DEF TypeInv, EventsOK, EventOK, Members
<1>3. id[1] \in {"e", "auto-e"}
  BY <1>1, <1>2 DEF NamesOK
<1>4. v = id \/ v \in DOMAIN tx.edges
  <2> HIDE DEF id
  <2>1. v = Resolved(tx, id)
    BY <1>1 DEF id
  <2>2. CASE v # id
    <3> DEFINE B == Between(tx, id[2], id[3])
    <3>1. /\ IsPlain(id) /\ B # {}
          /\ v = CHOOSE e \in B : \A d \in B : e[4] <= d[4]
      BY <2>1, <2>2 DEF Resolved
    <3>2. B \subseteq DOMAIN tx.edges /\ \A e \in B : e[4] \in Nat
      BY DEF Between, TypeInv, TxOK, GraphOK
    <3> HIDE DEF B
    <3>3. v \in B
      BY <3>1, <3>2, LeastEdge
    <3> QED BY <3>2, <3>3
  <2> QED BY <2>2
<1>5. v \in DOMAIN tx.edges => v[1] = "e"
  BY DEF TypeInv, TxOK, GraphOK, EdgeId
<1> QED BY <1>3, <1>4, <1>5 DEF IsVertexId

LEMMA HopsOnly ==
    ASSUME TypeInv, ApplyDelete, clause.vars \subseteq HopNames
    PROVE  DOMAIN tx'.labels = DOMAIN tx.labels
<1>1. \A v \in DeletedVertices : ~IsVertexId(v)
  BY HopsDoomed
<1>2. \A v \in DOMAIN tx.labels : IsVertexId(v)
  BY DEF TypeInv, TxOK, GraphOK
<1>3. TxOK(WithoutEdges) /\ WithoutEdges.labels = tx.labels
  BY WithoutEdgesIs
<1>4. tx' = IF clause.op = "DELETE" THEN VerticesDeleted(WithoutEdges, DeletedVertices)
            ELSE Detached(WithoutEdges, DeletedVertices)
  BY DEF ApplyDelete
<1> DEFINE V == DeletedVertices
           w == WithoutEdges
<1>v. DOMAIN VerticesDeleted(w, V).labels = DOMAIN w.labels \ V
  BY <1>3, VerticesDeletedOK
<1>d. LET d == Detached(w, V)
      IN  \/ d = Emptied(w) /\ DOMAIN w.labels \subseteq V
          \/ DOMAIN d.labels = DOMAIN w.labels \ V
  <2> HIDE DEF w, V
  <2>1. DetachedTo(w, V, Detached(w, V))
    BY <1>3, DetachedOK DEF w
  <2> QED BY <2>1 DEF DetachedTo
<1>5. CASE DOMAIN tx'.labels = DOMAIN tx.labels \ DeletedVertices
  BY <1>1, <1>2, <1>5
<1>6. CASE tx' = Emptied(WithoutEdges) /\ DOMAIN tx.labels \subseteq DeletedVertices
  <2>1. DOMAIN tx'.labels = {}
    BY <1>3, <1>6, EmptiedOK
  <2> QED BY <1>1, <1>2, <1>6, <2>1
<1> QED BY <1>3, <1>4, <1>5, <1>6, <1>v, <1>d

LEMMA WholeInit == Init => WholeInv
<1> SUFFICES ASSUME Init PROVE WholeInv
  OBVIOUS
<1>1. PICK g \in Graphs : store.labels = g.labels /\ store.edges = g.edges
  BY DEF Init
<1>2. \A e \in DOMAIN g.edges : g.edges[e][1] = e[2] /\ g.edges[e][2] = e[3]
                                /\ {e[2], e[3]} \subseteq DOMAIN g.labels
  BY GraphAssumption
<1>3. Whole(store) /\ Whole(tx)
  BY <1>1, <1>2 DEF Init, View, Whole
<1>4. MadeInv /\ mode = "idle"
  BY NewIs DEF Init, MadeInv
<1> QED BY <1>3, <1>4 DEF WholeInv

LEMMA WholeBegin == TypeInv /\ WholeInv /\ Begin => WholeInv'
<1> SUFFICES ASSUME TypeInv, WholeInv, Begin PROVE WholeInv'
  OBVIOUS
<1>1. /\ tx' = View(store) /\ UNCHANGED store /\ rows' = {} /\ input' = {} /\ events' = <<>>
      /\ params' = NewParams(Len(todo))
  BY DEF Begin
<1>2. Whole(store') /\ Whole(tx')
  BY <1>1 DEF WholeInv, View, Whole
<1>3. MadeInv' /\ FoundInv'
  BY <1>1, NewIs DEF MadeInv, FoundInv
<1>4. EndsInv'
  BY <1>1, IsEmpty DEF EndsInv
<1> QED BY <1>2, <1>3, <1>4 DEF WholeInv

\* A MATCH binds new names to vertices that are there.
LEMMA MatchesWhole ==
    ASSUME NEW s, GraphOK(s), Whole(s), NEW p, NEW row, RowOK(row, p),
           NEW c \in AllClauses, c.op = "MATCH", NEW t \in Matches(s, row, c.parts[1])
    PROVE  VertexBound(t.at) \subseteq VertexBound(row.at) \cup DOMAIN s.labels
<1> DEFINE part == c.parts[1]
<1>1. /\ part \in AllParts /\ part.left.var # Anon /\ (IsHop(part) => part.hop # Anon)
      /\ IsHop(part) => part.hop \in HopNames
  BY MatchNames
<1>2. t \in Matches(s, row, part) /\ IsRow(row)
  BY DEF RowOK
<1> HIDE DEF part
<1>3. Matched(s, row, part, t)
  <2>1. t \in Matches(s, row, part)
    BY <1>2
  <2>2. IsRow(row)
    BY <1>2
  <2>3. part \in AllParts /\ part.left.var # Anon /\ (IsHop(part) => part.hop # Anon)
    BY <1>1
  <2> QED BY <2>1, <2>2, <2>3, MatchesIs
<1> USE DEF Matched
<1>4. ASSUME NEW x \in DOMAIN t.at \ HopNames, x \notin DOMAIN row.at PROVE t.at[x] \in DOMAIN s.labels
  <2>1. CASE ~IsHop(part) BY <1>3, <1>4, <2>1
  <2>2. CASE IsHop(part)
    <3>1. x \in {part.left.var, part.right.var}
      BY <1>1, <1>3, <1>4, <2>2
    <3>2. {s.edges[t.at[part.hop]][1], s.edges[t.at[part.hop]][2]} \subseteq DOMAIN s.labels
      BY <1>3, <2>2 DEF Whole
    <3> QED BY <1>3, <2>2, <3>1, <3>2
  <2> QED BY <2>1, <2>2
<1>5. ASSUME NEW x \in DOMAIN t.at \ HopNames PROVE t.at[x] \in VertexBound(row.at) \cup DOMAIN s.labels
  <2>1. CASE x \in DOMAIN row.at BY <1>3, <2>1 DEF VertexBound
  <2> QED BY <1>4, <2>1
<1> QED BY <1>5 DEF VertexBound

LEMMA GivenBound ==
    ASSUME EndsInv PROVE \A row \in Given : VertexBound(row.at) \subseteq DOMAIN tx.labels \cup ToBeWritten
<1>1. VertexBound(EmptyRow.at) = {}
  BY EmptyRowIs DEF VertexBound
<1> QED BY <1>1 DEF EndsInv, Given

LEMMA NothingWritten == events = <<>> => ToBeWritten = {}
  BY IsEmpty DEF ToBeWritten

LEMMA WholeExecute == TypeInv /\ WholeInv /\ (ExecuteMatch \/ ExecuteWrite) => WholeInv'
<1> SUFFICES ASSUME TypeInv, WholeInv, ExecuteMatch \/ ExecuteWrite PROVE WholeInv'
  OBVIOUS
<1>1. ClauseBegins /\ UNCHANGED <<store, tx, params>> /\ mode = "clause" /\ events = <<>>
  BY DEF ExecuteMatch, ExecuteWrite, ClauseBegins, TypeInv, RequestOK
<1>2. /\ clause' \in AllClauses /\ Members(clauses) = {clause'} \cup Members(clauses')
      /\ clause' = Head(clauses)
  BY <1>1, ClauseBeginsIs
<1>3. HopMergeAhead' => HopMergeAhead
  BY <1>2 DEF HopMergeAhead
<1>4. Whole(store') /\ Whole(tx') /\ MadeInv'
  BY <1>1 DEF WholeInv, MadeInv
<1>5. events' = <<>> /\ ToBeWritten = {} /\ ToBeWritten' = {}
  <2>1. events' = <<>>
    BY <1>1 DEF ExecuteMatch, ExecuteWrite
  <2>2. ToBeWritten' = {}
    BY <2>1, IsEmpty DEF ToBeWritten
  <2> QED BY <1>1, <2>1, <2>2, NothingWritten
<1>6. ASSUME HopMergeAhead' PROVE FoundInv' /\ EndsInv'
  <2>1. FoundInv /\ EndsInv
    BY <1>1, <1>3, <1>6 DEF WholeInv
  <2>2. FoundInv'
    BY <1>1, <2>1 DEF FoundInv
  <2>3. \A row \in Given : VertexBound(row.at) \subseteq DOMAIN tx.labels
    BY <1>5, <2>1, GivenBound
  <2>4. ASSUME NEW row \in rows' \cup input' PROVE VertexBound(row.at) \subseteq DOMAIN tx.labels
    <3>1. CASE ExecuteWrite
      BY <2>3, <3>1 DEF ExecuteWrite
    <3>2. CASE ExecuteMatch
      <4>1. row \in UNION {Matches(tx, q, clause'.parts[1]) : q \in Given} /\ clause'.op = "MATCH"
        BY <1>1, <1>2, <3>2 DEF ExecuteMatch, TypeInv, RequestOK
      <4>2. PICK q \in Given : row \in Matches(tx, q, clause'.parts[1])
        BY <4>1
      <4>3. RowOK(q, params) /\ GraphOK(tx) /\ Whole(tx)
        BY GivenOK DEF TypeInv, TxOK, WholeInv
      <4>4. VertexBound(row.at) \subseteq VertexBound(q.at) \cup DOMAIN tx.labels
        BY <1>2, <4>1, <4>2, <4>3, MatchesWhole
      <4> QED BY <2>3, <4>2, <4>4
    <3> QED BY <3>1, <3>2
  <2>5. EndsInv'
    BY <1>1, <1>5, <2>4, IsEmpty DEF EndsInv
  <2> QED BY <2>2, <2>5
<1> QED BY <1>4, <1>6 DEF WholeInv

\* The vertices that a row that is done with the events es may name.
EndsAfter(row, es) ==
    VertexBound(row.at) \cup DOMAIN tx.labels \cup UNION {WrittenBy(e) : e \in Members(es)}

\* A row is done: what it and its events bind is there, was bound before, or is
\* written by one of the events.
LEMMA WholeRowDone ==
    ASSUME TypeInv, WholeInv, mode = "rows", NEW row \in input, NEW R, NEW p, NEW es,
           RowDone(row, R, p, es), IsSeq(es),
           \A key \in DOMAIN p.made : IsPredicted(p.made[key]),
           HopMergeAhead => \A lab \in DOMAIN p.found : p.found[lab] # None => p.found[lab] \in DOMAIN tx.labels,
           HopMergeAhead => \A t \in R : VertexBound(t.at) \subseteq EndsAfter(row, es),
           HopMergeAhead => \A e \in Members(es) : VertexBound(e.at) \subseteq EndsAfter(row, es)
    PROVE  WholeInv'
<1>1. /\ input' = input \ {row} /\ rows' = rows \cup R /\ params' = p /\ events' = events \o es
      /\ UNCHANGED <<store, tx, todo, clauses, clause, was, scratch, mode>>
  BY DEF RowDone
<1>2. Members(events') = Members(events) \cup Members(es)
  BY <1>1, ConcatIs DEF TypeInv, EventsOK
<1>3. ToBeWritten' = ToBeWritten \cup UNION {WrittenBy(e) : e \in Members(es)}
  BY <1>2 DEF ToBeWritten
<1>4. HopMergeAhead' = HopMergeAhead
  BY <1>1 DEF HopMergeAhead
<1>5. Whole(store') /\ Whole(tx') /\ MadeInv'
  BY <1>1 DEF WholeInv, MadeInv
<1>6. ASSUME HopMergeAhead PROVE FoundInv' /\ EndsInv'
  <2>1. FoundInv'
    BY <1>1, <1>6 DEF FoundInv
  <2>2. EndsInv
    BY <1>6 DEF WholeInv
  <2>3. EndsAfter(row, es) \subseteq DOMAIN tx.labels \cup ToBeWritten'
    BY <1>3, <2>2 DEF EndsInv, EndsAfter
  <2>4. /\ \A t \in rows' \cup input' : VertexBound(t.at) \subseteq DOMAIN tx.labels \cup ToBeWritten'
        /\ \A e \in Members(events') : VertexBound(e.at) \subseteq DOMAIN tx.labels \cup ToBeWritten'
    BY <1>1, <1>2, <1>3, <1>6, <2>2, <2>3 DEF EndsInv
  <2> QED BY <1>1, <2>1, <2>4 DEF EndsInv
<1> QED BY <1>4, <1>5, <1>6 DEF WholeInv

\* A part of a CREATE binds new names of nodes, which its event writes.
LEMMA CreatePartWrites ==
    ASSUME NEW r, BothOK(r), NEW part \in AllParts, NEW e, e.op = "CREATE", e.part = part,
           NEW t, t = CreatePart(r, part), e.at = t.row.at
    PROVE  VertexBound(t.row.at) \subseteq VertexBound(r.row.at) \cup WrittenBy(e)
<1>1. /\ Continues(r, t)
      /\ DOMAIN t.row.at = DOMAIN r.row.at \cup PartBinds(part)
  BY CreatePartOK
<1>2. \A x \in DOMAIN r.row.at : x \notin HopNames => t.row.at[x] = r.row.at[x]
  BY <1>1 DEF Continues
<1>3. WrittenBy(e) = {t.row.at[x] : x \in {node.var : node \in NodesOf(part)} \cap DOMAIN t.row.at}
  BY DEF WrittenBy
<1>4. ASSUME NEW x \in DOMAIN t.row.at \ HopNames, x \notin DOMAIN r.row.at
      PROVE  x \in {node.var : node \in NodesOf(part)}
  <2>1. x \in PartBinds(part)
    BY <1>1, <1>4
  <2>2. IsHop(part) /\ part.hop # Anon => part.hop \in HopNames
    BY PartNames
  <2> QED BY <1>4, <2>1, <2>2 DEF PartBinds
<1> QED BY <1>2, <1>3, <1>4 DEF VertexBound

LEMMA WholeCreate ==
    \A row \in input : TypeInv /\ WholeInv /\ mode = "rows" /\ MaterializeCreate(row) => WholeInv'
<1> SUFFICES ASSUME NEW row \in input, TypeInv, WholeInv, mode = "rows", MaterializeCreate(row)
             PROVE  WholeInv'
  OBVIOUS
<1> DEFINE n == Len(clause.parts)
           r == [row |-> row, params |-> params]
           after == CreatedAfter(r, clause.parts)
           es == [i \in 1 .. n |-> Event(clause, clause.parts[i], after[i].row)]
           W == UNION {WrittenBy(e) : e \in Members(es)}
<1>1. RowDone(row, {after[n].row}, after[n].params, es) /\ clause.op = "CREATE"
  BY DEF MaterializeCreate
<1>2. BothOK(r) /\ clause \in AllClauses
  BY NextRow
<1>3. IsSeq(clause.parts) /\ Members(clause.parts) \subseteq AllParts
  BY <1>1, <1>2, ClauseIs DEF Deletes
<1>4. n \in Nat /\ DOMAIN clause.parts = 1 .. n /\ n \in 0 .. n
  BY <1>3 DEF IsSeq
<1>5. /\ after[0] = r
      /\ \A i \in 1 .. n : BothOK(after[i - 1]) /\ after[i] = CreatePart(after[i - 1], clause.parts[i])
                           /\ clause.parts[i] \in AllParts
      /\ \A i \in 0 .. n : after[i].params.found = params.found /\ after[i].params.made = params.made
  <2> HIDE DEF r
  <2>1. /\ after[0] = r
        /\ \A i \in 1 .. n : BothOK(after[i - 1]) /\ after[i] = CreatePart(after[i - 1], clause.parts[i])
                             /\ clause.parts[i] \in AllParts
        /\ \A i \in 0 .. n : after[i].params.found = r.params.found /\ after[i].params.made = r.params.made
    BY <1>2, <1>3, CreatedAfterOK
  <2>2. r.params = params
    BY DEF r
  <2> HIDE DEF after, n
  <2> QED BY <2>1, <2>2
<1>r. r.row = row
  OBVIOUS
<1> HIDE DEF after, n, r
<1>6. /\ IsSeq(es) /\ Members(es) = {es[i] : i \in 1 .. n}
      /\ \A i \in 1 .. n : /\ es[i].op = "CREATE" /\ es[i].part = clause.parts[i]
                           /\ es[i].at = after[i].row.at
  <2>1. es \in Seq({es[i] : i \in 1 .. n}) /\ DOMAIN es = 1 .. n
    BY <1>4
  <2>2. \A i \in 1 .. n : /\ es[i].op = "CREATE" /\ es[i].part = clause.parts[i]
                          /\ es[i].at = after[i].row.at
    BY <1>1 DEF Event
  <2> HIDE DEF es
  <2> QED BY <2>1, <2>2, SeqIs DEF Members
<1> HIDE DEF es
<1>7. \A i \in 1 .. n : WrittenBy(es[i]) \subseteq W
  BY <1>6
<1> HIDE DEF W
<1>8. \A i \in 0 .. n : VertexBound(after[i].row.at) \subseteq VertexBound(row.at) \cup W
  <2> DEFINE S == {i \in 0 .. n : VertexBound(after[i].row.at) \subseteq VertexBound(row.at) \cup W}
  <2>1. 0 \in S
    BY <1>4, <1>5, <1>r
  <2>2. ASSUME NEW i \in 1 .. n, i - 1 \in S PROVE i \in S
    <3>1. VertexBound(after[i].row.at) \subseteq VertexBound(after[i - 1].row.at) \cup WrittenBy(es[i])
      BY <1>5, <1>6, CreatePartWrites
    <3> QED BY <1>4, <1>7, <2>2, <3>1
  <2> HIDE DEF S
  <2>3. 0 .. n \subseteq S
    BY <1>4, <2>1, <2>2, AfterEachPart DEF n
  <2> QED BY <2>3 DEF S
<1> DEFINE B == VertexBound(row.at) \cup DOMAIN tx.labels \cup W
<1>9. \A t \in {after[n].row} : VertexBound(t.at) \subseteq B
  BY <1>4, <1>8
<1>10. \A e \in Members(es) : VertexBound(e.at) \subseteq B
  <2>1. \A i \in 1 .. n : i \in 0 .. n
    BY <1>4
  <2> QED BY <1>6, <1>8, <2>1
<1>11. /\ \A key \in DOMAIN after[n].params.made : IsPredicted(after[n].params.made[key])
       /\ HopMergeAhead => \A lab \in DOMAIN after[n].params.found :
             after[n].params.found[lab] # None => after[n].params.found[lab] \in DOMAIN tx.labels
  BY <1>4, <1>5 DEF WholeInv, MadeInv, FoundInv
<1>12. B = EndsAfter(row, es)
  BY DEF W, EndsAfter
<1> HIDE DEF B
<1> QED BY <1>1, <1>6, <1>9, <1>10, <1>11, <1>12, WholeRowDone

\* A MERGE of a node binds its name to a vertex that is there, or to one that
\* its event writes.
LEMMA MergeNodeWrites ==
    ASSUME TypeInv, WholeInv, NEW r, BothOK(r), r.params = params, NEW part \in AllParts, ~IsHop(part),
           NEW t \in MergeNode(tx, r, part.left),
           NEW e, e.op = "MERGE", e.part = part, e.at = t.row.at
    PROVE  /\ \A key \in DOMAIN t.params.made : IsPredicted(t.params.made[key])
           /\ FoundInv =>
                 /\ \A lab \in DOMAIN t.params.found :
                       t.params.found[lab] # None => t.params.found[lab] \in DOMAIN tx.labels
                 /\ VertexBound(t.row.at) \subseteq VertexBound(r.row.at) \cup DOMAIN tx.labels
                                                    \cup WrittenBy(e)
<1> DEFINE x == part.left.var
           lab == part.left.label
           key == <<x, lab>>
           id == At(r.params.made, key, MergeVertex(r.params.nextMV + 1))
<1>1. \E v \in Lookup(tx, r.params, lab) :
         \/ NodeHit(r, part.left, v, t)
         \/ v = None /\ (NodeUnnamed(r, part.left, t) \/ NodeMade(r, part.left, t))
  BY MergeNodeIs
<1>2. PICK v \in Lookup(tx, r.params, lab) :
         \/ NodeHit(r, part.left, v, t)
         \/ v = None /\ (NodeUnnamed(r, part.left, t) \/ NodeMade(r, part.left, t))
  BY <1>1
<1>3. MadeInv
  BY DEF WholeInv
<1>4. IsPredicted(id)
  BY <1>3 DEF MadeInv, At, IsPredicted, MergeVertex
<1>5. FoundInv /\ v # None => v \in DOMAIN tx.labels
  BY <1>2 DEF Lookup, Labelled, FoundInv
<1>6. CASE NodeHit(r, part.left, v, t)
  <2>1. /\ t.row.at = Named(r.row.at, x, v) /\ v # None
        /\ t.params.found = Put(r.params.found, lab, v) /\ t.params.made = params.made
    BY <1>6 DEF NodeHit
  <2>2. FoundInv => \A l \in DOMAIN t.params.found :
                       t.params.found[l] # None => t.params.found[l] \in DOMAIN tx.labels
    BY <1>5, <2>1 DEF FoundInv, Put
  <2>3. FoundInv => VertexBound(t.row.at) \subseteq VertexBound(r.row.at) \cup DOMAIN tx.labels
    BY <1>5, <2>1 DEF VertexBound, Named, Put
  <2> QED BY <1>3, <2>1, <2>2, <2>3 DEF MadeInv
<1>7. CASE NodeUnnamed(r, part.left, t)
  <2>1. /\ t.row.at = r.row.at
        /\ t.params.found = Put(r.params.found, lab, None) /\ t.params.made = params.made
    BY <1>7 DEF NodeUnnamed
  <2>2. FoundInv => \A l \in DOMAIN t.params.found :
                       t.params.found[l] # None => t.params.found[l] \in DOMAIN tx.labels
    BY <2>1 DEF FoundInv, Put
  <2> QED BY <1>3, <2>1, <2>2 DEF MadeInv
<1>8. CASE NodeMade(r, part.left, t)
  <2>1. /\ t.row.at = Put(r.row.at, x, id)
        /\ t.params.found = Put(r.params.found, lab, None)
        /\ t.params.made = Put(r.params.made, key, id)
    BY <1>8 DEF NodeMade
  <2> HIDE DEF id, key
  <2>2. FoundInv => \A l \in DOMAIN t.params.found :
                       t.params.found[l] # None => t.params.found[l] \in DOMAIN tx.labels
    BY <2>1 DEF FoundInv, Put
  <2>3. \A k \in DOMAIN t.params.made : IsPredicted(t.params.made[k])
    BY <1>3, <1>4, <2>1 DEF MadeInv, Put
  <2>4. id \in WrittenBy(e)
    <3>1. x \in DOMAIN e.at /\ e.at[x] = id /\ e.part.left.var = x
      BY <2>1 DEF Put
    <3>2. TakenId(e) = id /\ id # None
      BY <1>4, <3>1 DEF TakenId, At, IsPredicted, None
    <3> QED BY <3>2 DEF WrittenBy
  <2>5. VertexBound(t.row.at) \subseteq VertexBound(r.row.at) \cup {id}
    BY <2>1 DEF VertexBound, Put
  <2> QED BY <2>2, <2>3, <2>4, <2>5
<1> QED BY <1>2, <1>6, <1>7, <1>8

LEMMA WholeMerge ==
    \A row \in input : TypeInv /\ WholeInv /\ mode = "rows" /\ MaterializeMerge(row) => WholeInv'
<1> SUFFICES ASSUME NEW row \in input, TypeInv, WholeInv, mode = "rows", MaterializeMerge(row)
             PROVE  WholeInv'
  OBVIOUS
<1> DEFINE part == clause.parts[1]
           r == [row |-> row, params |-> params]
<1>1. BothOK(r) /\ clause \in AllClauses /\ clause.op = "MERGE" /\ GraphOK(tx)
  BY NextRow DEF MaterializeMerge, TypeInv, TxOK
<1>2. part \in AllParts /\ r.row = row /\ r.params = params
  BY <1>1, ClauseIs
<1>3. MadeInv /\ (HopMergeAhead => FoundInv)
  BY DEF WholeInv
<1>4. CASE IsHop(part)
  <2> DEFINE T == MergeEdge(tx, r, part)
  <2>1. PICK list \in Listings(T) :
           RowDone(row, T, params, [i \in DOMAIN list |-> Event(clause, part, list[i])])
    BY <1>4 DEF MaterializeMerge
  <2> DEFINE es == [i \in DOMAIN list |-> Event(clause, part, list[i])]
             a == At(r.row.at, part.left.var, None)
             b == At(r.row.at, part.right.var, None)
             B == VertexBound(row.at) \cup DOMAIN tx.labels \cup UNION {WrittenBy(e) : e \in Members(es)}
  <2>2. /\ IsFiniteSet(T)
        /\ part.hop = Anon \/ None \in {a, b} => T = {r.row}
        /\ ~(part.hop = Anon \/ None \in {a, b}) => \A t \in T :
              /\ t.at = Put(r.row.at, part.hop, EdgeId(a, b, 0))
              /\ part.hop \in HopNames
    <3> HIDE DEF r, part
    <3> QED BY <1>1, <1>2, <1>4, MergeEdgeIs
  <2> HIDE DEF T, a, b, r, part
  <2>3. ASSUME NEW t \in T PROVE VertexBound(t.at) \subseteq VertexBound(row.at)
    <3>1. CASE t = r.row
      BY <1>2, <3>1
    <3>2. CASE t.at = Put(r.row.at, part.hop, EdgeId(a, b, 0)) /\ part.hop \in HopNames
      BY <1>2, <3>2 DEF VertexBound, Put
    <3> QED BY <2>2, <3>1, <3>2
  <2>4. IsSeq(list) /\ Members(list) = T
    BY <2>2, ListingIs
  <2>5. IsSeq(es) /\ \A e \in Members(es) : \E t \in T : e.at = t.at
    <3>1. DOMAIN list = 1 .. Len(list) /\ Len(list) \in Nat
      BY <2>4 DEF IsSeq
    <3>2. \A i \in DOMAIN list : es[i].at = list[i].at
      BY DEF Event
    <3>3. es \in Seq({es[i] : i \in DOMAIN list}) /\ DOMAIN es = DOMAIN list
      BY <3>1
    <3> HIDE DEF es
    <3> QED BY <2>4, <3>2, <3>3, SeqIs DEF Members
  <2>6. RowDone(row, T, params, es)
    BY <2>1
  <2>7. /\ \A t \in T : VertexBound(t.at) \subseteq B
        /\ \A e \in Members(es) : VertexBound(e.at) \subseteq B
    BY <2>3, <2>5
  <2>8. B = EndsAfter(row, es)
    BY DEF EndsAfter
  <2> HIDE DEF es, B
  <2> QED BY <1>3, <2>5, <2>6, <2>7, <2>8, WholeRowDone DEF MadeInv, FoundInv
<1>5. CASE ~IsHop(part)
  <2>1. PICK m \in MergeNode(tx, r, part.left) :
           RowDone(row, {m.row}, m.params, <<Event(clause, part, m.row)>>)
    BY <1>5 DEF MaterializeMerge
  <2> DEFINE e == Event(clause, part, m.row)
             es == <<e>>
             B == VertexBound(row.at) \cup DOMAIN tx.labels \cup UNION {WrittenBy(d) : d \in Members(es)}
  <2>2. e.op = "MERGE" /\ e.part = part /\ e.at = m.row.at
    BY <1>1 DEF Event
  <2>3. IsSeq(es) /\ Members(es) = {e}
    BY OneEvent
  <2>4. RowDone(row, {m.row}, m.params, es)
    BY <2>1
  <2> HIDE DEF e, es, r, part
  <2>5. /\ \A key \in DOMAIN m.params.made : IsPredicted(m.params.made[key])
        /\ FoundInv =>
              /\ \A lab \in DOMAIN m.params.found :
                    m.params.found[lab] # None => m.params.found[lab] \in DOMAIN tx.labels
              /\ VertexBound(m.row.at) \subseteq VertexBound(r.row.at) \cup DOMAIN tx.labels
                                                 \cup WrittenBy(e)
    BY <1>1, <1>2, <1>5, <2>1, <2>2, MergeNodeWrites
  <2>6. FoundInv => /\ \A t \in {m.row} : VertexBound(t.at) \subseteq B
                    /\ \A d \in Members(es) : VertexBound(d.at) \subseteq B
    BY <1>2, <2>2, <2>3, <2>5
  <2>7. B = EndsAfter(row, es)
    BY DEF EndsAfter
  <2> HIDE DEF B
  <2> QED BY <1>3, <2>3, <2>4, <2>5, <2>6, <2>7, WholeRowDone
<1> QED BY <1>4, <1>5

LEMMA WholeTombstones ==
    \A row \in input : TypeInv /\ WholeInv /\ mode = "rows" /\ MaterializeDelete(row) => WholeInv'
<1> SUFFICES ASSUME NEW row \in input, TypeInv, WholeInv, mode = "rows", MaterializeDelete(row)
             PROVE  WholeInv'
  OBVIOUS
<1> DEFINE r == [row |-> row, params |-> params]
           t == Tombstones(tx, r, clause.vars)
           e == Event(clause, NoPart, t.row)
           es == <<e>>
           B == VertexBound(row.at) \cup DOMAIN tx.labels \cup UNION {WrittenBy(d) : d \in Members(es)}
<1>1. RowDone(row, {t.row}, t.params, es)
  BY DEF MaterializeDelete
<1>2. BothOK(r) /\ r.row = row /\ r.params = params
  BY NextRow
<1>3. IsSeq(es) /\ Members(es) = {e} /\ e.at = t.row.at
  BY OneEvent DEF Event
<1> HIDE DEF e, es, r
<1>4. t.row.at = r.row.at /\ t.params.found = r.params.found /\ t.params.made = r.params.made
  <2>1. BothOK(r)
    BY <1>2
  <2>2. Buried(tx, r, clause.vars, t)
    BY <2>1, TombstonesIs
  <2> QED BY <2>2 DEF Buried
<1> HIDE DEF t
<1>5. MadeInv /\ (HopMergeAhead => FoundInv)
  BY DEF WholeInv
<1>6. /\ \A q \in {t.row} : VertexBound(q.at) \subseteq B
      /\ \A d \in Members(es) : VertexBound(d.at) \subseteq B
  BY <1>2, <1>3, <1>4
<1>7. B = EndsAfter(row, es)
  BY DEF EndsAfter
<1>8. /\ \A key \in DOMAIN t.params.made : IsPredicted(t.params.made[key])
      /\ HopMergeAhead => \A lab \in DOMAIN t.params.found :
            t.params.found[lab] # None => t.params.found[lab] \in DOMAIN tx.labels
  BY <1>2, <1>4, <1>5 DEF MadeInv, FoundInv
<1> HIDE DEF B
<1> QED BY <1>1, <1>3, <1>6, <1>7, <1>8, WholeRowDone

\* A step of the applier takes the events E, having written what they were to.
LEMMA WholeApplied ==
    ASSUME TypeInv, WholeInv, mode = "apply", NEW E, Whole(tx'),
           UNCHANGED <<store, todo, clauses, clause, was, rows, input, params, mode>>,
           Members(events) = E \cup Members(events'),
           HopMergeAhead => DOMAIN tx.labels \subseteq DOMAIN tx'.labels,
           HopMergeAhead => UNION {WrittenBy(e) : e \in E} \subseteq DOMAIN tx'.labels
    PROVE  WholeInv'
<1>1. HopMergeAhead' = HopMergeAhead
  BY DEF HopMergeAhead
<1>2. Whole(store') /\ MadeInv'
  BY DEF WholeInv, MadeInv
<1>3. ASSUME HopMergeAhead PROVE FoundInv' /\ EndsInv'
  <2>1. FoundInv /\ EndsInv
    BY <1>3 DEF WholeInv
  <2>2. FoundInv'
    BY <1>3, <2>1 DEF FoundInv
  <2>3. ToBeWritten \subseteq DOMAIN tx'.labels \cup ToBeWritten'
    BY <1>3 DEF ToBeWritten
  <2>4. EndsInv'
    BY <1>3, <2>1, <2>3 DEF EndsInv
  <2> QED BY <2>2, <2>4
<1> QED BY <1>1, <1>2, <1>3 DEF WholeInv

LEMMA WholeApplyCreate == TypeInv /\ WholeInv /\ ApplyCreate => WholeInv'
<1> SUFFICES ASSUME TypeInv, WholeInv, ApplyCreate PROVE WholeInv'
  OBVIOUS
<1> DEFINE e == Head(events)
<1>1. PICK c \in Created(tx, scratch.autoV, e) : Applied(c.s)
  BY DEF ApplyCreate
<1>2. mode = "apply" /\ events # <<>> /\ clause.op = "CREATE" /\ ~Deletes(clause)
      /\ tx' = c.s /\ events' = Tail(events)
      /\ UNCHANGED <<store, todo, clauses, clause, was, rows, input, params, mode>>
  BY <1>1 DEF ApplyCreate, Applied, Deletes
<1>3. EventOK(e, clause, params) /\ e.part \in AllParts
      /\ Members(events) = {e} \cup Members(events')
  BY <1>2, HeadIs
<1>4. NamesOK(e.at) /\ e.op = "CREATE"
  BY <1>2, <1>3 DEF EventOK
<1>5. TxOK(tx) /\ Whole(tx)
  BY DEF TypeInv, WholeInv
<1> HIDE DEF e
<1>6. /\ \A node \in NodesOf(e.part) :
            node.var \in DOMAIN e.at => e.at[node.var] \in DOMAIN c.s.labels
      /\ ~IsHop(e.part) => VerticesPut(tx, c.s)
      /\ IsHop(e.part) => \E q, a, b :
            /\ VerticesPut(tx, q) /\ EdgePut(q, c.s, a, b)
            /\ IsVertexId(a) /\ IsVertexId(b) /\ {a, b} \subseteq DOMAIN q.labels
  BY <1>1, <1>3, <1>4, <1>5, CreatedOK
<1>7. Whole(c.s) /\ DOMAIN tx.labels \subseteq DOMAIN c.s.labels
  <2>1. CASE ~IsHop(e.part)
    <3>1. VerticesPut(tx, c.s)
      BY <1>6, <2>1
    <3> QED BY <1>5, <3>1, WholePut DEF VerticesPut
  <2>2. CASE IsHop(e.part)
    <3>1. PICK q, a, b : /\ VerticesPut(tx, q) /\ EdgePut(q, c.s, a, b)
                         /\ IsVertexId(a) /\ IsVertexId(b) /\ {a, b} \subseteq DOMAIN q.labels
      BY <1>6, <2>2
    <3>2. TxOK(q) /\ Whole(q) /\ DOMAIN tx.labels \subseteq DOMAIN q.labels
      BY <1>5, <3>1, WholePut DEF VerticesPut
    <3>3. Whole(c.s) /\ c.s.labels = q.labels
      BY <3>1, <3>2, WholeEdge
    <3> QED BY <3>2, <3>3
  <2> QED BY <2>1, <2>2
<1>8. WrittenBy(e) \subseteq DOMAIN c.s.labels
  BY <1>4, <1>6 DEF WrittenBy
<1>9. UNION {WrittenBy(d) : d \in {e}} \subseteq DOMAIN tx'.labels
  BY <1>2, <1>8
<1> QED BY <1>2, <1>3, <1>7, <1>9, WholeApplied

LEMMA WholeApplyVertex == TypeInv /\ WholeInv /\ ApplyMergeVertex => WholeInv'
<1> SUFFICES ASSUME TypeInv, WholeInv, ApplyMergeVertex PROVE WholeInv'
  OBVIOUS
<1> DEFINE e == Head(events)
<1>1. PICK m \in MergedVertex(tx, scratch, e) : Applied(m.s)
  BY DEF ApplyMergeVertex
<1>2. mode = "apply" /\ events # <<>> /\ clause.op = "MERGE" /\ ~IsHop(clause.parts[1])
      /\ tx' = m.s /\ events' = Tail(events)
      /\ UNCHANGED <<store, todo, clauses, clause, was, rows, input, params, mode>>
  BY <1>1 DEF ApplyMergeVertex, Applied
<1>3. EventOK(e, clause, params) /\ e.part = clause.parts[1]
      /\ Members(events) = {e} \cup Members(events')
  BY <1>2, HeadIs
<1>4. IsScratch(scratch) /\ Whole(tx)
  BY DEF TypeInv, EventsOK, WholeInv
<1>5. VerticesPut(tx, tx')
  BY TypeApplyMergeVertex
<1> HIDE DEF e
<1>6. VertexMerged(tx, scratch, e, m)
  BY <1>1, <1>4, MergedVertexIs
<1>7. TakenId(e) # None => TakenId(e) \in DOMAIN m.s.labels
  <2> DEFINE id == TakenId(e)
  <2> HIDE DEF id
  <2>1. id \in Labelled(tx, e.part.left.label) => id \in DOMAIN tx.labels
    BY DEF Labelled
  <2>2. id # None => id \in DOMAIN tx.labels \/ m.s = PutVertex(tx, id, e.part.left.label)
    BY <1>6, <2>1 DEF VertexMerged, id
  <2>3. m.s = PutVertex(tx, id, e.part.left.label) => id \in DOMAIN m.s.labels
    BY DEF PutVertex, Put, TypeInv, TxOK, IsView
  <2>4. DOMAIN tx.labels \subseteq DOMAIN m.s.labels
    BY <1>2, <1>5 DEF VerticesPut
  <2> QED BY <2>2, <2>3, <2>4 DEF id
<1>8. WrittenBy(e) \subseteq DOMAIN tx'.labels
  BY <1>2, <1>3, <1>7 DEF WrittenBy, EventOK
<1>9. UNION {WrittenBy(d) : d \in {e}} \subseteq DOMAIN tx'.labels
  BY <1>8
<1>10. Whole(tx') /\ DOMAIN tx.labels \subseteq DOMAIN tx'.labels
  BY <1>4, <1>5, WholePut DEF VerticesPut
<1> QED BY <1>2, <1>3, <1>9, <1>10, WholeApplied

\* While a relationship is merged nothing else is to be written, and the ends
\* of its events are there.
LEMMA HopEnds ==
    ASSUME TypeInv, WholeInv, mode = "apply", clause.op = "MERGE", IsHop(clause.parts[1])
    PROVE  /\ \A e \in Members(events) : WrittenBy(e) = {}
           /\ \A e \in Members(events) :
                 Placed(e) => {Ends(e)[1], Ends(e)[2]} \subseteq DOMAIN tx.labels
<1>1. \A e \in Members(events) : EventOK(e, clause, params)
  BY DEF TypeInv, EventsOK
<1>2. /\ clause \in AllClauses /\ Members(clause.parts) = {clause.parts[1]}
      /\ clause.parts[1] \in AllParts /\ ~Deletes(clause)
  BY ClauseIs DEF TypeInv, RequestOK, Deletes
<1>3. \A e \in Members(events) : NamesOK(e.at) /\ e.op = "MERGE" /\ e.part = clause.parts[1]
  BY <1>1, <1>2 DEF EventOK
<1>4. \A e \in Members(events) : WrittenBy(e) = {}
  BY <1>3 DEF WrittenBy
<1>5. ToBeWritten = {} /\ HopMergeAhead
  BY <1>4 DEF ToBeWritten, HopMergeAhead, MergesHop
<1>6. \A e \in Members(events) : VertexBound(e.at) \subseteq DOMAIN tx.labels
  BY <1>5 DEF WholeInv, EndsInv
<1>7. ASSUME NEW e \in Members(events), Placed(e)
      PROVE  {Ends(e)[1], Ends(e)[2]} \subseteq DOMAIN tx.labels
  <2>1. /\ e.part.left.var \in DOMAIN e.at /\ Ends(e)[1] = e.at[e.part.left.var]
        /\ e.part.right.var \in DOMAIN e.at /\ Ends(e)[2] = e.at[e.part.right.var]
    BY <1>2, <1>3, <1>7, EndsIs
  <2>2. e.part.left.var \notin HopNames /\ e.part.right.var \notin HopNames
    BY <1>2, <1>3, PartNames DEF NodesOf
  <2> QED BY <1>6, <2>1, <2>2 DEF VertexBound
<1> QED BY <1>4, <1>7

LEMMA WholeApplyBatch == TypeInv /\ WholeInv /\ ApplyMergeBatch => WholeInv'
<1> SUFFICES ASSUME TypeInv, WholeInv, ApplyMergeBatch PROVE WholeInv'
  OBVIOUS
<1>1. PICK n \in DOMAIN events :
         /\ \A i \in 1 .. n : Placed(events[i])
         /\ tx' = PutEdgeNewBatch(tx, {Ends(events[i]) : i \in 1 .. n})
         /\ events' = SubSeq(events, n + 1, Len(events))
  BY DEF ApplyMergeBatch
<1>2. /\ mode = "apply" /\ clause.op = "MERGE" /\ IsHop(clause.parts[1])
      /\ UNCHANGED <<store, todo, clauses, clause, was, rows, input, params, mode>>
  BY DEF ApplyMergeBatch
<1> DEFINE P == {Ends(events[i]) : i \in 1 .. n}
           first == {events[i] : i \in 1 .. n}
<1>3. /\ IsFiniteSet(P) /\ \A p \in P : IsPair(p)
      /\ Members(events) = first \cup Members(events')
      /\ P = {Ends(e) : e \in first} /\ \A e \in first : Placed(e)
  BY <1>1, <1>2, BatchIs
<1> HIDE DEF P, first
<1>4. /\ \A e \in Members(events) : WrittenBy(e) = {}
      /\ \A e \in Members(events) :
            Placed(e) => {Ends(e)[1], Ends(e)[2]} \subseteq DOMAIN tx.labels
  BY <1>2, HopEnds
<1>5. \A p \in P : {p[1], p[2]} \subseteq DOMAIN tx.labels
  BY <1>3, <1>4
<1>6. Whole(tx') /\ tx'.labels = tx.labels
  <2>1. TxOK(tx) /\ Whole(tx) /\ tx' = PutEdgeNewBatch(tx, P)
    BY <1>1 DEF TypeInv, WholeInv, P
  <2> QED BY <1>3, <1>5, <2>1, WholeBatch
<1>7. UNION {WrittenBy(e) : e \in first} \subseteq DOMAIN tx'.labels
  BY <1>3, <1>4
<1> QED BY <1>2, <1>3, <1>6, <1>7, WholeApplied

LEMMA WholeApplyHop ==
    TypeInv /\ WholeInv /\ (ApplyMergeSimple \/ ApplyMergeEdge \/ ApplyMergeNothing) => WholeInv'
<1> SUFFICES ASSUME TypeInv, WholeInv, ApplyMergeSimple \/ ApplyMergeEdge \/ ApplyMergeNothing
             PROVE  WholeInv'
  OBVIOUS
<1> DEFINE e == Head(events)
           p == Ends(e)
<1>1. /\ mode = "apply" /\ events # <<>> /\ clause.op = "MERGE" /\ IsHop(clause.parts[1])
      /\ events' = Tail(events) /\ ~Deletes(clause)
      /\ UNCHANGED <<store, todo, clauses, clause, was, rows, input, params, mode>>
  BY DEF ApplyMergeSimple, ApplyMergeEdge, ApplyMergeNothing, Applied, Deletes
<1>2. tx' = tx \/ EdgePut(tx, tx', p[1], p[2])
  BY TypeApplyMergeHop DEF HopPut
<1>3. tx' = tx \/ Placed(e)
  BY DEF ApplyMergeSimple, ApplyMergeEdge, ApplyMergeNothing, Applied
<1>4. /\ EventOK(e, clause, params) /\ e.part = clause.parts[1] /\ e.part \in AllParts
      /\ e \in Members(events) /\ Members(events) = {e} \cup Members(events')
  BY <1>1, HeadIs
<1>5. WrittenBy(e) = {} /\ (Placed(e) => {p[1], p[2]} \subseteq DOMAIN tx.labels)
  BY <1>1, <1>4, HopEnds
<1>6. Placed(e) => IsVertexId(p[1]) /\ IsVertexId(p[2])
  BY <1>1, <1>4, EndsIs DEF EventOK, IsPair
<1>7. Whole(tx) /\ TxOK(tx)
  BY DEF WholeInv, TypeInv
<1> HIDE DEF e, p
<1>8. Whole(tx') /\ tx'.labels = tx.labels
  <2>1. CASE tx' = tx BY <1>7, <2>1
  <2>2. CASE Placed(e) /\ EdgePut(tx, tx', p[1], p[2])
    BY <1>5, <1>6, <1>7, <2>2, WholeEdge
  <2> QED BY <1>2, <1>3, <2>1, <2>2
<1>9. UNION {WrittenBy(d) : d \in {e}} \subseteq DOMAIN tx'.labels
  BY <1>5
<1> QED BY <1>1, <1>4, <1>8, <1>9, WholeApplied

\* A deletion applied: vertices go only when no relationship is merged after it.
LEMMA WholeApplyDelete ==
    TypeInv /\ OrderInv(EndsKept) /\ WholeInv /\ ApplyDelete => WholeInv'
<1> SUFFICES ASSUME TypeInv, OrderInv(EndsKept), WholeInv, ApplyDelete PROVE WholeInv'
  OBVIOUS
<1>1. mode = "apply" /\ Deletes(clause) /\ events' = <<>> /\ clause.op # "MATCH"
      /\ UNCHANGED <<store, todo, clauses, clause, was, rows, input, params, mode>>
  BY DEF ApplyDelete, Deletes
<1>2. Whole(tx')
  BY WholeDelete DEF WholeInv
<1>3. \A e \in Members(events) : e.op = clause.op
  BY DEF TypeInv, EventsOK, EventOK
<1>4. \A e \in Members(events) : WrittenBy(e) = {}
  BY <1>1, <1>3 DEF WrittenBy, Deletes
<1>5. Members(events) = Members(events) \cup Members(events')
  BY <1>1, IsEmpty
<1>6. ASSUME HopMergeAhead PROVE DOMAIN tx.labels \subseteq DOMAIN tx'.labels
  <2>1. ~MergesHop(clause)
    BY <1>1 DEF MergesHop, Deletes
  <2>2. PICK d \in Members(clauses) : MergesHop(d)
    BY <1>6, <2>1 DEF HopMergeAhead
  <2>3. <<clause, d>> \in EndsKept
    BY <1>1 DEF OrderInv
  <2>4. clause.vars \subseteq HopNames
    BY <1>1, <2>2, <2>3 DEF EndsKept
  <2> QED BY <2>4, HopsOnly
<1>7. UNION {WrittenBy(e) : e \in Members(events)} \subseteq DOMAIN tx'.labels
  BY <1>4
<1> QED BY <1>1, <1>2, <1>5, <1>6, <1>7, WholeApplied

LEMMA WholeOthers == TypeInv /\ WholeInv /\ (RowsDone \/ EndClause \/ Commit \/ Fail) => WholeInv'
<1> SUFFICES ASSUME TypeInv, WholeInv, RowsDone \/ EndClause \/ Commit \/ Fail PROVE WholeInv'
  OBVIOUS
<1>1. CASE RowsDone
  BY <1>1 DEF RowsDone, WholeInv, HopMergeAhead, MadeInv, FoundInv, EndsInv, ToBeWritten
<1>2. CASE EndClause
  <2>1. /\ mode = "apply" /\ mode' = "clause"
        /\ UNCHANGED <<store, tx, todo, clauses, clause, was, rows, input, params, events, scratch>>
    BY <1>2 DEF EndClause
  <2>2. HopMergeAhead' => HopMergeAhead
    BY <2>1 DEF HopMergeAhead
  <2>3. (FoundInv' <=> FoundInv) /\ (EndsInv' <=> EndsInv) /\ (MadeInv' <=> MadeInv)
    BY <2>1 DEF FoundInv, EndsInv, MadeInv, ToBeWritten
  <2> QED BY <2>1, <2>2, <2>3 DEF WholeInv
<1>3. CASE Commit
  <2>1. /\ store' = Flushed(tx) /\ mode' = "idle" /\ tx' = tx /\ params' = params
    BY <1>3 DEF Commit
  <2>2. Whole(store')
    BY <2>1 DEF WholeInv, Whole, Flushed
  <2> QED BY <2>1, <2>2 DEF WholeInv, MadeInv
<1>4. CASE Fail
  <2>1. tx' = View(store) /\ mode' = "idle" /\ store' = store /\ params' = params
    BY <1>4 DEF Fail
  <2>2. Whole(tx')
    BY <2>1 DEF WholeInv, Whole, View
  <2> QED BY <2>1, <2>2 DEF WholeInv, MadeInv
<1> QED BY <1>1, <1>2, <1>3, <1>4

LEMMA WholeStep ==
    TypeInv /\ OrderInv(EndsKept) /\ WholeInv /\ [Next]_vars => WholeInv'
<1> SUFFICES ASSUME TypeInv, OrderInv(EndsKept), WholeInv, [Next]_vars PROVE WholeInv'
  OBVIOUS
<1>1. CASE UNCHANGED vars
  BY <1>1 DEF vars, WholeInv, HopMergeAhead, MadeInv, FoundInv, EndsInv, ToBeWritten
<1>2. CASE Begin BY <1>2, WholeBegin
<1>3. CASE ExecuteMatch \/ ExecuteWrite BY <1>3, WholeExecute
<1>4. CASE MaterializeRow
  BY <1>4, WholeCreate, WholeMerge, WholeTombstones DEF MaterializeRow
<1>5. CASE RowsDone \/ EndClause \/ Commit \/ Fail BY <1>5, WholeOthers
<1>6. CASE ApplyCreate BY <1>6, WholeApplyCreate
<1>7. CASE ApplyMergeVertex BY <1>7, WholeApplyVertex
<1>8. CASE ApplyMergeBatch BY <1>8, WholeApplyBatch
<1>9. CASE ApplyMergeSimple \/ ApplyMergeEdge \/ ApplyMergeNothing BY <1>9, WholeApplyHop
<1>10. CASE ApplyDelete BY <1>10, WholeApplyDelete
<1> QED BY <1>1, <1>2, <1>3, <1>4, <1>5, <1>6, <1>7, <1>8, <1>9, <1>10 DEF Next

\* No request leaves an edge without its ends, though putCreatePatternEdge and
\* applyMergeEdgeWriteEvent write one without reading them: the ids they take from
\* a row, predicted or matched, are those of vertices that are there or that an
\* earlier event writes.  The order asked of the clauses is needed: a row keeps
\* the id of a vertex that a clause before the MERGE has deleted.
THEOREM EdgesJoinVertices == ASSUME Obeyed(EndsKept) PROVE Spec => []NoDangling
<1>1. Init => WholeInv
  BY WholeInit
<1>2. TypeInv /\ OrderInv(EndsKept) /\ WholeInv /\ [Next]_vars => WholeInv'
  BY WholeStep
<1>3. Init => OrderInv(EndsKept)
  BY OrderInit
<1>4. TypeInv /\ OrderInv(EndsKept) /\ [Next]_vars => OrderInv(EndsKept)'
  BY OrderStep
<1>5. WholeInv => NoDangling
  BY DEF WholeInv, Whole, NoDangling
<1> QED BY <1>1, <1>2, <1>3, <1>4, <1>5, TypeAlways, PTL DEF Spec
=============================================================================
