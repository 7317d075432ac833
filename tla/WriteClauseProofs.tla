-------------------------- MODULE WriteClauseProofs --------------------------
(***************************************************************************)
(* What a clause does to the graph it finds, for all graphs, programs and  *)
(* numbers: a deletion takes what its rows name, and a merge adds once     *)
(* what was not there.                                                     *)
(***************************************************************************)
EXTENDS WriteStatementProofs

---------------------------------------------------------------------------
(* Deletions.  The rows and the events of a DELETE say the same, and the   *)
(* relationships they name are those a MATCH found; so a name stands for   *)
(* the entity its row has, though a plain id is read as the first edge of  *)
(* its pair.                                                               *)

HopIds(at) == {at[x] : x \in DOMAIN at \cap HopNames}

\* a relationship is deleted by the running clause or one to come
HopDeleteAhead ==
    (DeletesHop(clause) /\ (mode = "rows" \/ events # <<>>))
    \/ \E d \in Members(clauses) : DeletesHop(d)
HopsThere == \A row \in rows \cup input : HopIds(row.at) \subseteq DOMAIN tx.edges

Corresponds ==
    /\ \A row \in rows : \E e \in Members(events) : e.at = row.at
    /\ \A e \in Members(events) : \E row \in rows : e.at = row.at
Unwritten == was.labels = tx.labels /\ was.edges = tx.edges

NamedBy == UNION {{row.at[x] : x \in clause.vars \cap DOMAIN row.at} : row \in rows}
Taken ==
    /\ NamedBy \cap (DOMAIN tx.labels \cup DOMAIN tx.edges) = {}
    /\ {v \in DOMAIN was.labels : v \notin DOMAIN tx.labels} \subseteq NamedBy
    /\ {e \in DOMAIN was.edges : e \notin DOMAIN tx.edges} \subseteq NamedBy \cup Incident(was, NamedBy)

DeleteInv ==
    /\ mode # "idle" /\ HopDeleteAhead => HopsThere
    /\ mode \in {"rows", "apply"} /\ Deletes(clause) =>
          \/ Unwritten /\ Corresponds /\ (mode = "rows" \/ events # <<>>)
          \/ mode = "apply" /\ events = <<>> /\ Taken
    /\ mode = "clause" /\ Deletes(clause) => Taken

\* Where the first edge of a pair has the plain id, that id stands for itself.
LEMMA PlainIsFirst ==
    ASSUME NEW s, GraphOK(s), NEW id, IsVertexId(id) \/ id \in DOMAIN s.edges
    PROVE  Resolved(s, id) = id
<1> DEFINE B == Between(s, id[2], id[3])
<1>1. CASE ~IsPlain(id) BY <1>1 DEF Resolved
<1>2. CASE IsPlain(id)
  <2>1. id \in DOMAIN s.edges /\ id[4] = 0
    BY <1>2 DEF IsPlain, IsVertexId
  <2>2. id = EdgeId(id[2], id[3], 0) /\ s.edges[id] = <<id[2], id[3]>>
    BY <2>1 DEF GraphOK
  <2>3. id \in B
    BY <2>1, <2>2 DEF Between
  <2>4. \A d \in B : d = EdgeId(id[2], id[3], d[4]) /\ d[4] \in Nat
    <3> TAKE d \in B
    <3>1. d \in DOMAIN s.edges /\ s.edges[d] = <<id[2], id[3]>>
      BY DEF Between
    <3>2. d = EdgeId(d[2], d[3], d[4]) /\ d[4] \in Nat /\ s.edges[d] = <<d[2], d[3]>>
      BY <3>1 DEF GraphOK
    <3>3. d[2] = id[2] /\ d[3] = id[3]
      BY <3>1, <3>2
    <3> QED BY <3>2, <3>3
  <2> DEFINE c == CHOOSE e \in B : \A d \in B : e[4] <= d[4]
  <2>5. Resolved(s, id) = c
    BY <1>2, <2>3 DEF Resolved
  <2> HIDE DEF B
  <2>6. \A d \in B : id[4] <= d[4]
    BY <2>1, <2>4
  <2>7. c \in B /\ \A d \in B : c[4] <= d[4]
    BY <2>3, <2>6
  <2> HIDE DEF c
  <2>8. c[4] = 0 /\ c = EdgeId(id[2], id[3], c[4])
    BY <2>1, <2>3, <2>4, <2>7
  <2> QED BY <2>2, <2>5, <2>8
<1> QED BY <1>1, <1>2

\* What is deleted is what the rows name.
LEMMA DoomedIsNamed ==
    ASSUME TypeInv, mode = "apply", Deletes(clause), Corresponds, DeletesHop(clause) => HopsThere
    PROVE  /\ Doomed(tx, events, clause.vars) = NamedBy
           /\ \A v \in NamedBy : IsVertexId(v) \/ v \in DOMAIN tx.edges
<1>1. ASSUME NEW row \in rows, NEW x \in clause.vars \cap DOMAIN row.at
      PROVE  IsVertexId(row.at[x]) \/ row.at[x] \in DOMAIN tx.edges
  <2>1. NamesOK(row.at)
    BY DEF TypeInv, RowsOK, RowOK
  <2>2. CASE x \notin HopNames
    BY <1>1, <2>1, <2>2 DEF NamesOK
  <2>3. CASE x \in HopNames
    <3>1. HopsThere
      BY <1>1, <2>3 DEF DeletesHop
    <3> QED BY <1>1, <2>3, <3>1 DEF HopsThere, HopIds
  <2> QED BY <2>2, <2>3
<1>2. \A v \in NamedBy : IsVertexId(v) \/ v \in DOMAIN tx.edges
  BY <1>1 DEF NamedBy
<1>3. \A row \in rows : \A x \in clause.vars \cap DOMAIN row.at : Resolved(tx, row.at[x]) = row.at[x]
  BY <1>1, PlainIsFirst DEF TypeInv, TxOK
<1>4. \A e \in Members(events) : \A x \in clause.vars \cap DOMAIN e.at :
         Resolved(tx, e.at[x]) = e.at[x] /\ e.at[x] \in NamedBy
  <2> TAKE e \in Members(events)
  <2>1. PICK row \in rows : e.at = row.at
    BY DEF Corresponds
  <2> QED BY <1>3, <2>1 DEF NamedBy
<1>5. ASSUME NEW v \in Doomed(tx, events, clause.vars) PROVE v \in NamedBy
  <2>1. PICK p \in (DOMAIN events) \X clause.vars :
           p[2] \in DOMAIN events[p[1]].at /\ v = Resolved(tx, events[p[1]].at[p[2]])
    BY DEF Doomed
  <2>2. events[p[1]] \in Members(events) /\ p[2] \in clause.vars
    BY <2>1 DEF Members
  <2> QED BY <1>4, <2>1, <2>2
<1>6. ASSUME NEW v \in NamedBy PROVE v \in Doomed(tx, events, clause.vars)
  <2>1. PICK row \in rows : \E x \in clause.vars \cap DOMAIN row.at : v = row.at[x]
    BY DEF NamedBy
  <2>2. PICK x \in clause.vars \cap DOMAIN row.at : v = row.at[x]
    BY <2>1
  <2>3. PICK e \in Members(events) : e.at = row.at
    BY DEF Corresponds
  <2>4. PICK i \in DOMAIN events : e = events[i]
    BY DEF Members
  <2>5. v = Resolved(tx, events[i].at[x]) /\ x \in DOMAIN events[i].at
    BY <1>3, <2>2, <2>3, <2>4
  <2> DEFINE p == <<i, x>>
  <2>6. p \in (DOMAIN events) \X clause.vars /\ p[1] = i /\ p[2] = x
    BY <2>2
  <2> HIDE DEF p
  <2> QED BY <2>5, <2>6 DEF Doomed
<1> QED BY <1>2, <1>5, <1>6

LEMMA DeleteTakes ==
    ASSUME TypeInv, Whole(tx), ApplyDelete, Unwritten, Corresponds, DeletesHop(clause) => HopsThere
    PROVE  Taken'
<1> DEFINE N == NamedBy
           V == DeletedVertices
           w == WithoutEdges
<1>1. /\ mode = "apply" /\ Deletes(clause)
      /\ clause.op = "DELETE" => ~Connected
      /\ tx' = IF clause.op = "DELETE" THEN VerticesDeleted(w, V) ELSE Detached(w, V)
      /\ UNCHANGED <<clause, was, rows>>
  BY DEF ApplyDelete
<1>2. /\ Doomed(tx, events, clause.vars) = N
      /\ \A v \in N : IsVertexId(v) \/ v \in DOMAIN tx.edges
  BY <1>1, DoomedIsNamed
<1>3. DeletedEdges = N \cap DOMAIN tx.edges /\ V = N \ DOMAIN tx.edges
  BY <1>2 DEF DeletedEdges, DeletedVertices
<1>4. /\ TxOK(w) /\ w.labels = tx.labels /\ DOMAIN w.edges = DOMAIN tx.edges \ DeletedEdges
      /\ \A e \in DOMAIN w.edges : w.edges[e] = tx.edges[e]
  BY WithoutEdgesIs
<1>5. \A e \in DOMAIN tx.edges : ~IsVertexId(e)
  BY DEF TypeInv, TxOK, GraphOK, EdgeId, IsVertexId
<1>6. \A v \in DOMAIN tx.labels : IsVertexId(v)
  BY DEF TypeInv, TxOK, GraphOK
<1>7. Taken' <=>
      /\ N \cap (DOMAIN tx'.labels \cup DOMAIN tx'.edges) = {}
      /\ {v \in DOMAIN tx.labels : v \notin DOMAIN tx'.labels} \subseteq N
      /\ {e \in DOMAIN tx.edges : e \notin DOMAIN tx'.edges} \subseteq N \cup Incident(was, N)
  BY <1>1 DEF Taken, NamedBy, Unwritten
<1>8. Incident(was, N) = Incident(tx, N)
  BY DEF Incident, Unwritten
<1> HIDE DEF N, V, w
<1>9. CASE clause.op = "DELETE"
  <2>1. tx'.edges = w.edges /\ DOMAIN tx'.labels = DOMAIN w.labels \ V
    BY <1>1, <1>4, <1>9, VerticesDeletedOK
  <2> QED BY <1>2, <1>3, <1>4, <1>5, <1>6, <1>7, <2>1
<1>10. CASE clause.op # "DELETE"
  <2>1. tx' = Detached(w, V)
    BY <1>1, <1>10
  <2> DEFINE t == Detached(w, V)
             V0 == V \cap DOMAIN w.labels
  <2>2. \/ /\ V # {} /\ DOMAIN w.labels \subseteq V /\ t = Emptied(w)
        \/ /\ DOMAIN t.labels = DOMAIN w.labels \ V
           /\ DOMAIN t.edges = DOMAIN w.edges \ Incident(w, V0)
    <3>1. DetachedTo(w, V, t)
      BY <1>4, DetachedOK
    <3> HIDE DEF t
    <3> QED BY <3>1 DEF DetachedTo
  <2> HIDE DEF t
  <2>3. CASE DOMAIN w.labels \subseteq V /\ t = Emptied(w)
    <3>1. DOMAIN tx'.labels = {} /\ DOMAIN tx'.edges = {}
      BY <1>4, <2>1, <2>3, EmptiedOK DEF t
    <3>2. \A e \in DOMAIN tx.edges : tx.edges[e][1] \in N
      BY <1>3, <1>4, <2>3 DEF Whole
    <3>3. DOMAIN tx.edges \subseteq Incident(tx, N)
      BY <3>2 DEF Incident
    <3> QED BY <1>3, <1>4, <1>7, <1>8, <2>3, <3>1, <3>3
  <2>4. CASE /\ DOMAIN t.labels = DOMAIN w.labels \ V
             /\ DOMAIN t.edges = DOMAIN w.edges \ Incident(w, V0)
    <3>1. Incident(w, V0) \subseteq Incident(tx, N)
      BY <1>3, <1>4 DEF Incident
    <3>2. /\ DOMAIN tx'.labels = DOMAIN w.labels \ V
          /\ DOMAIN tx'.edges = DOMAIN w.edges \ Incident(w, V0)
      BY <2>1, <2>4 DEF t
    <3> HIDE DEF V0
    <3> QED BY <1>2, <1>3, <1>4, <1>5, <1>6, <1>7, <1>8, <3>1, <3>2
  <2> QED BY <2>2, <2>3, <2>4
<1> QED BY <1>9, <1>10

\* A row is done: the relationships its successors name are those it names, and
\* a deletion's event says what its row says.
LEMMA DeleteRowDone ==
    ASSUME TypeInv, DeleteInv, mode = "rows", NEW row \in input, NEW R, NEW p, NEW es,
           RowDone(row, R, p, es), IsSeq(es),
           HopDeleteAhead => \A t \in R : HopIds(t.at) \subseteq HopIds(row.at),
           Deletes(clause) => /\ \A t \in R : \E e \in Members(es) : e.at = t.at
                              /\ \A e \in Members(es) : \E t \in R : e.at = t.at
    PROVE  DeleteInv'
<1>1. /\ input' = input \ {row} /\ rows' = rows \cup R /\ events' = events \o es
      /\ UNCHANGED <<store, tx, todo, clauses, clause, was, scratch, mode>>
  BY DEF RowDone
<1>2. Members(events') = Members(events) \cup Members(es)
  BY <1>1, ConcatIs DEF TypeInv, EventsOK
<1>3. HopDeleteAhead' => HopDeleteAhead
  BY <1>1 DEF HopDeleteAhead
<1>4. HopDeleteAhead' => HopsThere'
  BY <1>1, <1>3 DEF DeleteInv, HopsThere
<1>5. Deletes(clause) => Unwritten' /\ Corresponds'
  BY <1>1, <1>2 DEF DeleteInv, Unwritten, Corresponds
<1> QED BY <1>1, <1>4, <1>5 DEF DeleteInv

\* A clause that names no relationship binds none.
LEMMA CreatePartHops ==
    ASSUME NEW r, BothOK(r), NEW part \in AllParts, part.hop \in {Anon, NoHop},
           NEW t, t = CreatePart(r, part)
    PROVE  HopIds(t.row.at) \subseteq HopIds(r.row.at)
<1>1. /\ DOMAIN t.row.at = DOMAIN r.row.at \cup PartBinds(part)
      /\ \A x \in DOMAIN r.row.at : (IsHop(part) => x # part.hop) => t.row.at[x] = r.row.at[x]
  BY CreatePartOK
<1>2. \A x \in PartBinds(part) : x \notin HopNames
  BY PartNames DEF PartBinds, IsHop
<1>3. Anon \notin HopNames
  BY DEF HopNames
<1>4. \A x \in HopNames : IsHop(part) => x # part.hop
  BY <1>3 DEF IsHop
<1> QED BY <1>1, <1>2, <1>4 DEF HopIds

LEMMA DeleteCreate ==
    \A row \in input : TypeInv /\ OrderInv(HopsMatched) /\ DeleteInv /\ mode = "rows"
                       /\ MaterializeCreate(row) => DeleteInv'
<1> SUFFICES ASSUME NEW row \in input, TypeInv, OrderInv(HopsMatched), DeleteInv, mode = "rows",
                    MaterializeCreate(row)
             PROVE  DeleteInv'
  OBVIOUS
<1> DEFINE n == Len(clause.parts)
           r == [row |-> row, params |-> params]
           after == CreatedAfter(r, clause.parts)
           es == [i \in 1 .. n |-> Event(clause, clause.parts[i], after[i].row)]
<1>1. RowDone(row, {after[n].row}, after[n].params, es) /\ clause.op = "CREATE" /\ ~Deletes(clause)
  BY DEF MaterializeCreate, Deletes
<1>2. BothOK(r) /\ clause \in AllClauses
  BY NextRow
<1>3. IsSeq(clause.parts) /\ Members(clause.parts) \subseteq AllParts
  BY <1>1, <1>2, ClauseIs
<1>4. n \in Nat /\ DOMAIN clause.parts = 1 .. n /\ n \in 0 .. n
  BY <1>3 DEF IsSeq
<1>5. /\ after[0] = r
      /\ \A i \in 1 .. n : BothOK(after[i - 1]) /\ after[i] = CreatePart(after[i - 1], clause.parts[i])
                           /\ clause.parts[i] \in AllParts
  <2> HIDE DEF r
  <2> QED BY <1>2, <1>3, CreatedAfterOK
<1>r. r.row = row
  OBVIOUS
<1>6. IsSeq(es)
  <2>1. es \in Seq({es[i] : i \in 1 .. n})
    BY <1>4
  <2> HIDE DEF es
  <2> QED BY <2>1, SeqIs
<1> HIDE DEF after, n, r, es
<1>7. ASSUME HopDeleteAhead PROVE HopIds(after[n].row.at) \subseteq HopIds(row.at)
  <2>1. PICK d \in Members(clauses) : DeletesHop(d)
    BY <1>1, <1>7 DEF HopDeleteAhead, DeletesHop
  <2>2. <<clause, d>> \in HopsMatched
    BY <1>1 DEF OrderInv
  <2>3. NamesNoHop(clause)
    BY <1>1, <2>1, <2>2 DEF HopsMatched
  <2> DEFINE S == {i \in 0 .. n : HopIds(after[i].row.at) \subseteq HopIds(row.at)}
  <2>4. 0 \in S
    BY <1>4, <1>5, <1>r
  <2>5. ASSUME NEW i \in 1 .. n, i - 1 \in S PROVE i \in S
    <3>1. clause.parts[i].hop \in {Anon, NoHop}
      BY <1>4, <2>3 DEF NamesNoHop
    <3>2. HopIds(after[i].row.at) \subseteq HopIds(after[i - 1].row.at)
      BY <1>5, <3>1, CreatePartHops
    <3> QED BY <1>4, <2>5, <3>2
  <2> HIDE DEF S
  <2>6. 0 .. n \subseteq S
    BY <1>4, <2>4, <2>5, AfterEachPart DEF n
  <2> QED BY <1>4, <2>6 DEF S
<1>8. HopDeleteAhead => \A t \in {after[n].row} : HopIds(t.at) \subseteq HopIds(row.at)
  BY <1>7
<1> QED BY <1>1, <1>6, <1>8, DeleteRowDone

\* The events of the rows a MERGE of a hop goes on with.
LEMMA ListedEvents ==
    ASSUME NEW T, IsFiniteSet(T), NEW list \in Listings(T), NEW c, NEW part,
           NEW es, es = [i \in DOMAIN list |-> Event(c, part, list[i])]
    PROVE  IsSeq(es) /\ Members(es) = {Event(c, part, t) : t \in T}
<1>1. IsSeq(list) /\ Members(list) = T
  BY ListingIs
<1>2. DOMAIN list = 1 .. Len(list) /\ Len(list) \in Nat
  BY <1>1 DEF IsSeq
<1>3. es \in Seq({es[i] : i \in DOMAIN list}) /\ DOMAIN es = DOMAIN list
  BY <1>2
<1>4. IsSeq(es)
  BY <1>3, SeqIs
<1> QED BY <1>1, <1>3, <1>4 DEF Members

LEMMA DeleteMerge ==
    \A row \in input : TypeInv /\ OrderInv(HopsMatched) /\ DeleteInv /\ mode = "rows"
                       /\ MaterializeMerge(row) => DeleteInv'
<1> SUFFICES ASSUME NEW row \in input, TypeInv, OrderInv(HopsMatched), DeleteInv, mode = "rows",
                    MaterializeMerge(row)
             PROVE  DeleteInv'
  OBVIOUS
<1> DEFINE part == clause.parts[1]
           r == [row |-> row, params |-> params]
<1>1. BothOK(r) /\ clause \in AllClauses /\ clause.op = "MERGE" /\ GraphOK(tx) /\ ~Deletes(clause)
  BY NextRow DEF MaterializeMerge, TypeInv, TxOK, Deletes
<1>2. part \in AllParts /\ r.row = row /\ r.params = params /\ part \in Members(clause.parts)
  BY <1>1, ClauseIs
<1>3. ASSUME HopDeleteAhead PROVE part.hop \in {Anon, NoHop}
  <2>1. PICK d \in Members(clauses) : DeletesHop(d)
    BY <1>1, <1>3 DEF HopDeleteAhead, DeletesHop
  <2>2. <<clause, d>> \in HopsMatched
    BY <1>1 DEF OrderInv
  <2>3. NamesNoHop(clause)
    BY <1>1, <2>1, <2>2 DEF HopsMatched
  <2>4. 1 \in DOMAIN clause.parts
    <3>1. IsSeq(clause.parts) /\ Len(clause.parts) = 1
      BY <1>1, ClauseIs
    <3> QED BY <3>1 DEF IsSeq
  <2> QED BY <2>3, <2>4 DEF NamesNoHop
<1>4. CASE IsHop(part)
  <2> DEFINE T == MergeEdge(tx, r, part)
  <2>1. PICK list \in Listings(T) :
           RowDone(row, T, params, [i \in DOMAIN list |-> Event(clause, part, list[i])])
    BY <1>4 DEF MaterializeMerge
  <2> DEFINE es == [i \in DOMAIN list |-> Event(clause, part, list[i])]
  <2>2. IsFiniteSet(T) /\ (part.hop = Anon => T = {r.row})
    <3> DEFINE a == At(r.row.at, part.left.var, None)
               b == At(r.row.at, part.right.var, None)
    <3>1. /\ IsFiniteSet(T) /\ T # {}
          /\ part.hop = Anon \/ None \in {a, b} => T = {r.row}
      <4> HIDE DEF r, part
      <4> QED BY <1>1, <1>2, <1>4, MergeEdgeIs
    <3> QED BY <3>1
  <2>3. RowDone(row, T, params, es)
    BY <2>1
  <2> HIDE DEF T, r, part
  <2>4. HopDeleteAhead => \A t \in T : HopIds(t.at) \subseteq HopIds(row.at)
    BY <1>2, <1>3, <1>4, <2>2 DEF IsHop
  <2>5. IsSeq(es)
    BY <2>2, ListedEvents
  <2> HIDE DEF es
  <2> QED BY <1>1, <2>3, <2>4, <2>5, DeleteRowDone
<1>5. CASE ~IsHop(part)
  <2>1. PICK m \in MergeNode(tx, r, part.left) :
           RowDone(row, {m.row}, m.params, <<Event(clause, part, m.row)>>)
    BY <1>5 DEF MaterializeMerge
  <2>2. part.left.var \notin HopNames
    BY <1>2, PartNames DEF NodesOf
  <2> DEFINE es == <<Event(clause, part, m.row)>>
  <2>3. IsSeq(es) /\ RowDone(row, {m.row}, m.params, es)
    BY <2>1, OneEvent
  <2> HIDE DEF es, part, r
  <2>4. /\ DOMAIN m.row.at = DOMAIN r.row.at \cup ({part.left.var} \ {Anon})
        /\ \A x \in DOMAIN r.row.at : x # part.left.var => m.row.at[x] = r.row.at[x]
    BY <1>1, <2>1, <2>2, MergeNodeOK
  <2>5. HopIds(m.row.at) \subseteq HopIds(row.at)
    BY <1>2, <2>2, <2>4 DEF HopIds
  <2>6. \A t \in {m.row} : HopIds(t.at) \subseteq HopIds(row.at)
    BY <2>5
  <2> QED BY <1>1, <2>3, <2>6, DeleteRowDone
<1> QED BY <1>4, <1>5

LEMMA DeleteTombstones ==
    \A row \in input : TypeInv /\ DeleteInv /\ mode = "rows" /\ MaterializeDelete(row) => DeleteInv'
<1> SUFFICES ASSUME NEW row \in input, TypeInv, DeleteInv, mode = "rows", MaterializeDelete(row)
             PROVE  DeleteInv'
  OBVIOUS
<1> DEFINE r == [row |-> row, params |-> params]
           t == Tombstones(tx, r, clause.vars)
           e == Event(clause, NoPart, t.row)
           es == <<e>>
<1>1. RowDone(row, {t.row}, t.params, es)
  BY DEF MaterializeDelete
<1>2. BothOK(r) /\ r.row = row
  BY NextRow
<1>3. IsSeq(es) /\ Members(es) = {e} /\ e.at = t.row.at
  BY OneEvent DEF Event
<1> HIDE DEF e, es, r
<1>4. t.row.at = r.row.at
  <2>1. BothOK(r)
    BY <1>2
  <2>2. Buried(tx, r, clause.vars, t)
    BY <2>1, TombstonesIs
  <2> QED BY <2>2 DEF Buried
<1> HIDE DEF t
<1>5. HopDeleteAhead => \A q \in {t.row} : HopIds(q.at) \subseteq HopIds(row.at)
  BY <1>2, <1>4
<1>6. /\ \A q \in {t.row} : \E d \in Members(es) : d.at = q.at
      /\ \A d \in Members(es) : \E q \in {t.row} : d.at = q.at
  BY <1>3
<1> QED BY <1>1, <1>3, <1>5, <1>6, DeleteRowDone

LEMMA DeleteExecute ==
    TypeInv /\ DeleteInv /\ (ExecuteMatch \/ ExecuteWrite) => DeleteInv'
<1> SUFFICES ASSUME TypeInv, DeleteInv, ExecuteMatch \/ ExecuteWrite PROVE DeleteInv'
  OBVIOUS
<1>1. ClauseBegins /\ UNCHANGED <<store, tx, params>> /\ mode = "clause" /\ events = <<>>
  BY DEF ExecuteMatch, ExecuteWrite, ClauseBegins, TypeInv, RequestOK
<1>2. /\ clause' \in AllClauses /\ Members(clauses) = {clause'} \cup Members(clauses')
      /\ clause' = Head(clauses) /\ was'.labels = tx.labels /\ was'.edges = tx.edges
  BY <1>1, ClauseBeginsIs
<1>3. HopDeleteAhead' => HopDeleteAhead
  BY <1>2 DEF HopDeleteAhead
<1>4. ASSUME HopDeleteAhead PROVE \A row \in Given : HopIds(row.at) \subseteq DOMAIN tx.edges
  <2>1. HopsThere /\ HopIds(EmptyRow.at) = {}
    BY <1>1, <1>4, EmptyRowIs DEF DeleteInv, HopIds
  <2> QED BY <2>1 DEF HopsThere, Given
<1>5. CASE ExecuteWrite
  <2>1. input' = Given /\ rows' = {} /\ events' = <<>> /\ mode' = "rows" /\ tx' = tx
    BY <1>5 DEF ExecuteWrite
  <2>2. HopDeleteAhead' => HopsThere'
    BY <1>3, <1>4, <2>1 DEF HopsThere
  <2>3. Unwritten' /\ Corresponds'
    BY <1>2, <2>1, IsEmpty DEF Unwritten, Corresponds
  <2> QED BY <2>1, <2>2, <2>3 DEF DeleteInv
<1>6. CASE ExecuteMatch
  <2>1. /\ rows' = UNION {Matches(tx, row, clause'.parts[1]) : row \in Given} /\ clause'.op = "MATCH"
        /\ input' = {} /\ mode' = "clause" /\ tx' = tx /\ ~Deletes(clause')
    BY <1>1, <1>2, <1>6 DEF ExecuteMatch, TypeInv, RequestOK, Deletes
  <2>2. ASSUME HopDeleteAhead, NEW t \in rows' PROVE HopIds(t.at) \subseteq DOMAIN tx.edges
    <3> DEFINE part == clause'.parts[1]
    <3>1. PICK row \in Given : t \in Matches(tx, row, part)
      BY <2>1
    <3>2. IsRow(row)
      BY GivenOK DEF RowOK
    <3>3. /\ part \in AllParts /\ part.left.var # Anon
          /\ IsHop(part) => part.hop \in HopNames /\ part.hop # Anon /\ part.right.var # Anon
          /\ part.left.var \notin HopNames /\ (IsHop(part) => part.right.var \notin HopNames)
      BY <1>2, <2>1, MatchNames
    <3> HIDE DEF part
    <3>4. part \in AllParts /\ part.left.var # Anon /\ (IsHop(part) => part.hop # Anon)
      BY <3>3
    <3>5. Matched(tx, row, part, t)
      BY <3>1, <3>2, <3>4, MatchesIs
    <3> USE DEF Matched
    <3>6. HopIds(row.at) \subseteq DOMAIN tx.edges
      BY <1>4, <2>2
    <3>7. ASSUME NEW x \in DOMAIN t.at \cap HopNames PROVE t.at[x] \in DOMAIN tx.edges
      <4>1. CASE x \in DOMAIN row.at
        BY <3>5, <3>6, <3>7, <4>1 DEF HopIds
      <4>2. CASE x \notin DOMAIN row.at
        BY <3>3, <3>5, <3>7, <4>2
      <4> QED BY <4>1, <4>2
    <3> QED BY <3>7 DEF HopIds
  <2>3. HopDeleteAhead' => HopsThere'
    BY <1>3, <2>1, <2>2 DEF HopsThere
  <2> QED BY <2>1, <2>3 DEF DeleteInv
<1> QED BY <1>5, <1>6

LEMMA DeleteApply ==
    TypeInv /\ Whole(tx) /\ OrderInv(HopsMatched) /\ DeleteInv /\ ApplyDelete => DeleteInv'
<1> SUFFICES ASSUME TypeInv, Whole(tx), OrderInv(HopsMatched), DeleteInv, ApplyDelete PROVE DeleteInv'
  OBVIOUS
<1>1. /\ mode = "apply" /\ events # <<>> /\ Deletes(clause) /\ clause.op # "MATCH"
      /\ mode' = "apply" /\ events' = <<>> /\ UNCHANGED <<clauses, clause>>
  BY DEF ApplyDelete, Deletes
<1>2. Unwritten /\ Corresponds
  BY <1>1 DEF DeleteInv
<1>3. DeletesHop(clause) => HopsThere
  BY <1>1 DEF DeleteInv, HopDeleteAhead
<1>4. Taken'
  BY <1>2, <1>3, DeleteTakes
<1>5. ~HopDeleteAhead'
  <2> SUFFICES ASSUME NEW d \in Members(clauses), DeletesHop(d) PROVE FALSE
    BY <1>1 DEF HopDeleteAhead
  <2>1. <<clause, d>> \in HopsMatched
    BY <1>1 DEF OrderInv
  <2> QED BY <1>1, <2>1 DEF HopsMatched
<1> QED BY <1>1, <1>4, <1>5 DEF DeleteInv

LEMMA DeleteAdds == TypeInv /\ DeleteInv /\ ApplyAdds => DeleteInv'
<1> SUFFICES ASSUME TypeInv, DeleteInv, ApplyAdds PROVE DeleteInv'
  OBVIOUS
<1>1. /\ mode = "apply" /\ mode' = "apply" /\ ~Deletes(clause)
      /\ UNCHANGED <<clauses, clause, rows, input>>
  BY DEF ApplyAdds, ApplyCreate, ApplyMergeVertex, ApplyMergeBatch, ApplyMergeSimple,
         ApplyMergeEdge, ApplyMergeNothing, Applied, Deletes
<1>2. DOMAIN tx.edges \subseteq DOMAIN tx'.edges
  BY ApplyStepAdds DEF Adds, Keeps, TypeInv, TxOK
<1>3. HopDeleteAhead' => HopDeleteAhead
  BY <1>1 DEF HopDeleteAhead, DeletesHop
<1>4. HopDeleteAhead' => HopsThere'
  BY <1>1, <1>2, <1>3 DEF DeleteInv, HopsThere
<1> QED BY <1>1, <1>4 DEF DeleteInv

LEMMA DeleteOthers ==
    TypeInv /\ DeleteInv /\ (Begin \/ RowsDone \/ EndClause \/ Commit \/ Fail) => DeleteInv'
<1> SUFFICES ASSUME TypeInv, DeleteInv, Begin \/ RowsDone \/ EndClause \/ Commit \/ Fail
             PROVE  DeleteInv'
  OBVIOUS
<1>1. CASE Begin
  <2>1. mode' = "clause" /\ rows' = {} /\ input' = {} /\ ~Deletes(clause')
    BY <1>1 DEF Begin, Match, Deletes
  <2> QED BY <2>1 DEF DeleteInv, HopsThere
<1>2. CASE RowsDone
  <2>1. /\ mode = "rows" /\ mode' = "apply"
        /\ UNCHANGED <<store, tx, todo, clauses, clause, was, rows, input, params, events>>
    BY <1>2 DEF RowsDone
  <2>2. (HopDeleteAhead' => HopDeleteAhead) /\ (HopsThere => HopsThere')
    BY <2>1 DEF HopDeleteAhead, HopsThere
  <2>3. Unwritten /\ Corresponds => Unwritten' /\ Corresponds'
    BY <2>1 DEF Unwritten, Corresponds
  <2>4. Unwritten /\ Corresponds /\ events = <<>> => Taken'
    <3>1. Corresponds /\ events = <<>> => NamedBy = {}
      BY IsEmpty DEF Corresponds, NamedBy
    <3>2. NamedBy' = NamedBy
      BY <2>1 DEF NamedBy
    <3> QED BY <2>1, <3>1, <3>2 DEF Unwritten, Taken
  <2> QED BY <2>1, <2>2, <2>3, <2>4 DEF DeleteInv
<1>3. CASE EndClause
  <2>1. /\ mode = "apply" /\ mode' = "clause" /\ events = <<>>
        /\ UNCHANGED <<store, tx, todo, clauses, clause, was, rows, input, params, events>>
    BY <1>3 DEF EndClause
  <2>2. (HopDeleteAhead' => HopDeleteAhead) /\ (HopsThere => HopsThere') /\ (Taken => Taken')
    BY <2>1 DEF HopDeleteAhead, HopsThere, Taken, NamedBy, Incident
  <2> QED BY <2>1, <2>2 DEF DeleteInv
<1>4. CASE Commit \/ Fail
  BY <1>4 DEF Commit, Fail, DeleteInv
<1> QED BY <1>1, <1>2, <1>3, <1>4

LEMMA DeleteStep ==
    TypeInv /\ Whole(tx) /\ OrderInv(HopsMatched) /\ DeleteInv /\ [Next]_vars => DeleteInv'
<1> SUFFICES ASSUME TypeInv, Whole(tx), OrderInv(HopsMatched), DeleteInv, [Next]_vars
             PROVE  DeleteInv'
  OBVIOUS
<1>1. CASE UNCHANGED vars
  BY <1>1 DEF vars, DeleteInv, HopDeleteAhead, HopsThere, Corresponds, Unwritten, Taken, NamedBy, Incident
<1>2. CASE ExecuteMatch \/ ExecuteWrite BY <1>2, DeleteExecute
<1>3. CASE MaterializeRow
  BY <1>3, DeleteCreate, DeleteMerge, DeleteTombstones DEF MaterializeRow
<1>4. CASE Begin \/ RowsDone \/ EndClause \/ Commit \/ Fail BY <1>4, DeleteOthers
<1>5. CASE ApplyAdds BY <1>5, DeleteAdds
<1>6. CASE ApplyDelete BY <1>6, DeleteApply
<1> QED BY <1>1, <1>2, <1>3, <1>4, <1>5, <1>6 DEF Next, ApplyAdds

\* A clause that deletes leaves nothing of what its rows name and takes nothing
\* else but, if it detaches, the edges of the vertices they name
\* (applyDeleteWriteEventsBatch), though all rows are deleted together and the
\* applier reads a name anew.  That relationships are deleted by names a MATCH
\* gave them is needed: for a predicted or stale id the first edge of its pair
\* goes.  That edges join vertices is needed for a purge, which takes every edge.
THEOREM DeletionsTakeNamed ==
    ASSUME Obeyed(EndsKept), Obeyed(HopsMatched) PROVE Spec => []DeleteTakesNamed
<1>1. Init => WholeInv
  BY WholeInit
<1>2. TypeInv /\ OrderInv(EndsKept) /\ WholeInv /\ [Next]_vars => WholeInv'
  BY WholeStep
<1>3. (Init => OrderInv(EndsKept)) /\ (Init => OrderInv(HopsMatched))
  BY OrderInit
<1>4. TypeInv /\ OrderInv(EndsKept) /\ [Next]_vars => OrderInv(EndsKept)'
  BY OrderStep
<1>5. TypeInv /\ OrderInv(HopsMatched) /\ [Next]_vars => OrderInv(HopsMatched)'
  BY OrderStep
<1>6. Init => DeleteInv
  BY DEF Init, DeleteInv
<1>7. TypeInv /\ WholeInv /\ OrderInv(HopsMatched) /\ DeleteInv /\ [Next]_vars => DeleteInv'
  BY DeleteStep DEF WholeInv
<1>8. DeleteInv => DeleteTakesNamed
  <2> SUFFICES ASSUME DeleteInv, Done({"DELETE", "DETACH DELETE"}) PROVE DeleteTakesNamed
    BY DEF DeleteTakesNamed
  <2>1. Taken
    BY DEF DeleteInv, Done, Deletes
  <2> QED BY <2>1 DEF DeleteTakesNamed, Taken, NamedBy
<1> QED BY <1>1, <1>2, <1>3, <1>4, <1>5, <1>6, <1>7, <1>8, TypeAlways, PTL DEF Spec

---------------------------------------------------------------------------
(* Merges.  No count is below the number of edges, so a request that finds *)
(* none counted finds none.                                                *)

NothingGone == params.goneE = {} /\ params.goneV = {} /\ scratch.gone = {}

\* A step of a CREATE or a MERGE: vertices, and then an edge, or edges with plain
\* ids for a set of pairs.
LEMMA ApplyAddsIs ==
    ASSUME TypeInv, ApplyAdds
    PROVE  \/ VerticesPut(tx, tx')
           \/ \E q, a, b : /\ VerticesPut(tx, q) /\ EdgePut(q, tx', a, b)
                           /\ IsVertexId(a) /\ IsVertexId(b)
                           /\ NothingGone => FirstPut(q, tx', a, b)
                           /\ MakesHops(clause)
           \/ \E P : /\ ApplyMergeBatch /\ IsFiniteSet(P) /\ (\A p \in P : IsPair(p)) /\ tx' = PutEdgeNewBatch(tx, P)
<1>1. TxOK(tx) /\ VerticesPut(tx, tx)
  BY DEF TypeInv, VerticesPut
<1>2. CASE ApplyCreate
  <2> DEFINE e == Head(events)
  <2>1. PICK c \in Created(tx, scratch.autoV, e) : tx' = c.s
    BY <1>2 DEF ApplyCreate, Applied
  <2>2. mode = "apply" /\ events # <<>> /\ ~Deletes(clause)
    BY <1>2 DEF ApplyCreate, Applied, Deletes
  <2>3. NamesOK(e.at) /\ e.part \in AllParts /\ e.part \in Members(clause.parts)
    BY <2>2, HeadIs DEF EventOK
  <2> HIDE DEF e
  <2>4. /\ ~IsHop(e.part) => VerticesPut(tx, c.s)
        /\ IsHop(e.part) => \E q, a, b :
              /\ VerticesPut(tx, q) /\ EdgePut(q, c.s, a, b)
              /\ IsVertexId(a) /\ IsVertexId(b) /\ FirstPut(q, c.s, a, b)
    BY <1>1, <2>1, <2>3, CreatedOK
  <2>5. IsHop(e.part) => MakesHops(clause)
    BY <1>2, <2>3 DEF ApplyCreate, MakesHops, Members
  <2> QED BY <2>1, <2>4, <2>5
<1>3. CASE ApplyMergeVertex BY <1>3, TypeApplyMergeVertex
<1>4. CASE ApplyMergeBatch
  <2>1. PICK n \in DOMAIN events :
           /\ \A i \in 1 .. n : Placed(events[i])
           /\ tx' = PutEdgeNewBatch(tx, {Ends(events[i]) : i \in 1 .. n})
    BY <1>4 DEF ApplyMergeBatch
  <2>2. mode = "apply" /\ clause.op = "MERGE" /\ IsHop(clause.parts[1])
    BY <1>4 DEF ApplyMergeBatch
  <2> DEFINE P == {Ends(events[i]) : i \in 1 .. n}
  <2>3. IsFiniteSet(P) /\ \A p \in P : IsPair(p)
    BY <2>1, <2>2, BatchIs
  <2>4. tx' = PutEdgeNewBatch(tx, P)
    BY <2>1
  <2> HIDE DEF P
  <2> QED BY <1>4, <2>3, <2>4
<1>5. CASE ApplyMergeSimple \/ ApplyMergeEdge \/ ApplyMergeNothing
  <2> DEFINE p == Ends(Head(events))
  <2> DEFINE gone == scratch.gone \cup Head(events).gone
  <2>1. tx' = tx \/ (/\ EdgePut(tx, tx', p[1], p[2]) /\ Placed(Head(events))
                     /\ gone = {} => FirstPut(tx, tx', p[1], p[2]))
    <3>1. tx' = tx \/ (/\ EdgePut(tx, tx', p[1], p[2])
                       /\ gone = {} => FirstPut(tx, tx', p[1], p[2]))
      BY <1>5, TypeApplyMergeHop DEF HopPut
    <3>2. tx' = tx \/ Placed(Head(events))
      BY <1>5 DEF ApplyMergeSimple, ApplyMergeEdge, ApplyMergeNothing, Applied
    <3> QED BY <3>1, <3>2
  <2>2. mode = "apply" /\ events # <<>> /\ clause.op = "MERGE" /\ IsHop(clause.parts[1])
    BY <1>5 DEF ApplyMergeSimple, ApplyMergeEdge, ApplyMergeNothing, Applied
  <2>3. NamesOK(Head(events).at) /\ Head(events).part = clause.parts[1]
        /\ Head(events).part \in AllParts /\ Head(events).gone \subseteq params.goneE
    BY <2>2, HeadIs DEF EventOK, Deletes
  <2>4. Placed(Head(events)) => IsVertexId(p[1]) /\ IsVertexId(p[2])
    BY <2>2, <2>3, EndsIs DEF IsPair
  <2>5. NothingGone => gone = {}
    BY <2>3 DEF NothingGone
  <2>6. MakesHops(clause)
    BY <2>2, <2>3, HeadIs DEF MakesHops, Members, EventOK, Deletes
  <2>7. VerticesPut(tx, tx)
    BY <1>1 DEF VerticesPut
  <2> HIDE DEF p, gone
  <2> QED BY <2>1, <2>4, <2>5, <2>6, <2>7
<1> QED BY <1>2, <1>3, <1>4, <1>5 DEF ApplyAdds

Enough(s) == s.counted + s.pending >= Cardinality(DOMAIN s.edges)
EnoughInv == Enough(tx) /\ store.counted >= Cardinality(DOMAIN store.edges)

LEMMA EnoughPut ==
    ASSUME NEW s, TxOK(s), Enough(s), NEW a, IsVertexId(a), NEW b, IsVertexId(b),
           NEW t, EdgePut(s, t, a, b)
    PROVE  Enough(t)
<1>1. /\ TxOK(t) /\ t.counted = s.counted /\ t.pending = s.pending + 1
      /\ EdgeAdded(s, t, a, b)
  BY EdgePutOK
<1>2. PICK e : DOMAIN t.edges = DOMAIN s.edges \cup {e}
  BY <1>1 DEF EdgeAdded
<1>3. IsFiniteSet(DOMAIN s.edges) /\ s.counted \in Nat /\ s.pending \in Int
  BY DEF TxOK, GraphOK
<1>4. Cardinality(DOMAIN s.edges) \in Nat /\ Cardinality(DOMAIN t.edges) \in Nat
      /\ Cardinality(DOMAIN t.edges) <= Cardinality(DOMAIN s.edges) + 1
  <2>1. /\ IsFiniteSet(DOMAIN s.edges \cup {e})
        /\ Cardinality(DOMAIN s.edges \cup {e}) =
              IF e \in DOMAIN s.edges THEN Cardinality(DOMAIN s.edges) ELSE Cardinality(DOMAIN s.edges) + 1
    BY <1>3, FS_AddElement
  <2>2. Cardinality(DOMAIN s.edges) \in Nat /\ Cardinality(DOMAIN s.edges \cup {e}) \in Nat
    BY <1>3, <2>1, FS_CardinalityType
  <2> QED BY <1>2, <2>1, <2>2
<1> QED BY <1>1, <1>3, <1>4 DEF Enough

LEMMA EnoughBatch ==
    ASSUME NEW s, TxOK(s), Enough(s), NEW P, IsFiniteSet(P), \A p \in P : IsPair(p)
    PROVE  Enough(PutEdgeNewBatch(s, P))
<1> DEFINE t == PutEdgeNewBatch(s, P)
           E == {EdgeId(p[1], p[2], 0) : p \in P}
<1>1. /\ TxOK(t) /\ t.labels = s.labels /\ t.counted = s.counted
      /\ DOMAIN t.edges = DOMAIN s.edges \cup E
      /\ \A e \in DOMAIN s.edges : t.edges[e] = s.edges[e]
      /\ t.pending = s.pending + Cardinality(P)
  BY PutEdgeNewBatchOK
<1>2. IsFiniteSet(E) /\ Cardinality(E) = Cardinality(P)
  BY PlainIds
<1> HIDE DEF t, E
<1>3. IsFiniteSet(DOMAIN s.edges) /\ s.counted \in Nat /\ s.pending \in Int
  BY DEF TxOK, GraphOK
<1>4. Cardinality(DOMAIN s.edges) \in Nat /\ Cardinality(E) \in Nat
      /\ Cardinality(DOMAIN s.edges \cap E) \in Nat /\ Cardinality(DOMAIN s.edges \cup E) \in Nat
      /\ Cardinality(DOMAIN s.edges \cup E)
            = Cardinality(DOMAIN s.edges) + Cardinality(E) - Cardinality(DOMAIN s.edges \cap E)
  <2>1. IsFiniteSet(DOMAIN s.edges \cap E) /\ IsFiniteSet(DOMAIN s.edges \cup E)
    BY <1>2, <1>3, FS_Union, FS_Subset
  <2> QED BY <1>2, <1>3, <2>1, FS_Union, FS_CardinalityType
<1> QED BY <1>1, <1>2, <1>3, <1>4 DEF Enough, t

LEMMA EnoughDeleted ==
    ASSUME NEW s, TxOK(s), Enough(s)
    PROVE  /\ \A E : E \subseteq DOMAIN s.edges => Enough(EdgesDeleted(s, E))
           /\ \A V : Enough(VerticesDeleted(s, V))
           /\ Enough(Emptied(s))
<1>1. IsFiniteSet(DOMAIN s.edges) /\ s.counted \in Nat /\ s.pending \in Int
  BY DEF TxOK, GraphOK
<1>2. ASSUME NEW E, E \subseteq DOMAIN s.edges PROVE Enough(EdgesDeleted(s, E))
  <2> DEFINE t == EdgesDeleted(s, E)
  <2>1. /\ TxOK(t) /\ t.labels = s.labels /\ t.counted = s.counted
        /\ DOMAIN t.edges = DOMAIN s.edges \ E
        /\ \A e \in DOMAIN t.edges : t.edges[e] = s.edges[e]
        /\ t.pending = s.pending - Cardinality(E)
    BY <1>2, EdgesDeletedOK
  <2> HIDE DEF t
  <2>2. DOMAIN s.edges \cap E = E /\ IsFiniteSet(E)
    BY <1>1, <1>2, FS_Subset
  <2>3. /\ Cardinality(DOMAIN s.edges) \in Nat /\ Cardinality(E) \in Nat
        /\ Cardinality(DOMAIN s.edges \ E) = Cardinality(DOMAIN s.edges) - Cardinality(E)
    BY <1>1, <2>2, FS_Difference, FS_CardinalityType
  <2> QED BY <1>1, <2>1, <2>3 DEF Enough, t
<1>3. ASSUME NEW V PROVE Enough(VerticesDeleted(s, V))
  <2> DEFINE t == VerticesDeleted(s, V)
  <2>1. /\ TxOK(t) /\ t.edges = s.edges /\ t.counted = s.counted /\ t.pending = s.pending
        /\ t.pairs = s.pairs /\ t.base = s.base
        /\ DOMAIN t.labels = DOMAIN s.labels \ V
    BY VerticesDeletedOK
  <2> HIDE DEF t
  <2> QED BY <2>1 DEF Enough, t
<1>4. Enough(Emptied(s))
  BY EmptiedOK, FS_EmptySet DEF Enough
<1> QED BY <1>2, <1>3, <1>4

\* A deletion takes edges, or everything, the count with it.
LEMMA ApplyDeleteIs ==
    ASSUME TypeInv, ApplyDelete
    PROVE  /\ Enough(tx) => Enough(tx')
           /\ \/ tx'.counted = tx.counted /\ DOMAIN tx'.edges \subseteq DOMAIN tx.edges
              \/ tx'.counted = 0 /\ DOMAIN tx'.edges = {}
<1> DEFINE V == DeletedVertices
           w == WithoutEdges
<1>1. /\ TxOK(w) /\ w.labels = tx.labels
      /\ DOMAIN w.edges = DOMAIN tx.edges \ DeletedEdges
      /\ \A e \in DOMAIN w.edges : w.edges[e] = tx.edges[e]
  BY WithoutEdgesIs
<1>2. DeletedEdges \subseteq DOMAIN tx.edges /\ TxOK(tx)
  BY DEF DeletedEdges, TypeInv
<1>3. /\ w.counted = tx.counted
      /\ Enough(tx) => Enough(w)
  BY <1>2, EdgesDeletedOK, EnoughDeleted DEF WithoutEdges
<1>4. tx' = VerticesDeleted(w, V) \/ tx' = Detached(w, V)
  BY DEF ApplyDelete
<1> HIDE DEF V, w
<1>5. ASSUME NEW E, E \subseteq DOMAIN w.edges,
             tx' = VerticesDeleted(EdgesDeleted(w, E), V) \/ tx' = VerticesDeleted(w, V)
      PROVE  /\ Enough(tx) => Enough(tx')
             /\ tx'.counted = tx.counted /\ DOMAIN tx'.edges \subseteq DOMAIN tx.edges
  <2> DEFINE u == EdgesDeleted(w, E)
  <2>1. /\ TxOK(u) /\ u.labels = w.labels /\ u.counted = w.counted
        /\ DOMAIN u.edges = DOMAIN w.edges \ E
        /\ \A e \in DOMAIN u.edges : u.edges[e] = w.edges[e]
        /\ u.pending = w.pending - Cardinality(E)
    BY <1>1, <1>5, EdgesDeletedOK
  <2>2. Enough(w) => Enough(u)
    BY <1>1, <1>5, EnoughDeleted
  <2>3. PICK q \in {u, w} : tx' = VerticesDeleted(q, V)
    BY <1>5
  <2> HIDE DEF u
  <2>4. TxOK(q) /\ (Enough(tx) => Enough(q)) /\ q.counted = tx.counted
        /\ DOMAIN q.edges \subseteq DOMAIN tx.edges
    BY <1>1, <1>3, <2>1, <2>2
  <2> DEFINE t == VerticesDeleted(q, V)
  <2>5. /\ TxOK(t) /\ t.edges = q.edges /\ t.counted = q.counted /\ t.pending = q.pending
        /\ t.pairs = q.pairs /\ t.base = q.base
        /\ DOMAIN t.labels = DOMAIN q.labels \ V
    BY <2>4, VerticesDeletedOK
  <2>6. Enough(q) => Enough(t)
    BY <2>4, EnoughDeleted
  <2> HIDE DEF t
  <2> QED BY <2>3, <2>4, <2>5, <2>6 DEF t
<1>6. CASE tx' = VerticesDeleted(w, V)
  BY <1>5, <1>6
<1>7. CASE tx' = Detached(w, V)
  <2> DEFINE t == Detached(w, V)
             V0 == V \cap DOMAIN w.labels
  <2>1. \/ /\ V # {} /\ DOMAIN w.labels \subseteq V /\ t = Emptied(w)
        \/ t = VerticesDeleted(EdgesDeleted(w, Incident(w, V0)), V)
    BY DEF Detached
  <2>2. Incident(w, V0) \subseteq DOMAIN w.edges
    BY DEF Incident
  <2> HIDE DEF t, V0
  <2>3. CASE t = Emptied(w)
    <3>1. tx'.counted = 0 /\ DOMAIN tx'.edges = {}
      BY <1>1, <1>7, <2>3, EmptiedOK DEF t
    <3>2. Enough(tx) => Enough(tx')
      BY <1>1, <1>3, <1>7, <2>3, EnoughDeleted DEF t
    <3> QED BY <3>1, <3>2
  <2>4. CASE t = VerticesDeleted(EdgesDeleted(w, Incident(w, V0)), V)
    BY <1>5, <1>7, <2>2, <2>4 DEF t
  <2> QED BY <2>1, <2>3, <2>4
<1> QED BY <1>4, <1>6, <1>7

LEMMA EnoughAdds ==
    ASSUME TypeInv, ApplyAdds
    PROVE  tx'.counted = tx.counted /\ (Enough(tx) => Enough(tx'))
<1>1. TxOK(tx)
  BY DEF TypeInv
<1>2. CASE VerticesPut(tx, tx')
  BY <1>2 DEF VerticesPut, Enough
<1>3. ASSUME NEW q, NEW a, NEW b, VerticesPut(tx, q), EdgePut(q, tx', a, b), IsVertexId(a), IsVertexId(b)
      PROVE  tx'.counted = tx.counted /\ (Enough(tx) => Enough(tx'))
  <2>1. TxOK(q) /\ q.counted = tx.counted /\ (Enough(tx) => Enough(q))
    BY <1>3 DEF VerticesPut, Enough
  <2>2. tx'.counted = q.counted
    BY <1>3, <2>1, EdgePutOK
  <2>3. Enough(q) => Enough(tx')
    BY <1>3, <2>1, EnoughPut
  <2> QED BY <2>1, <2>2, <2>3
<1>4. ASSUME NEW P, IsFiniteSet(P), \A p \in P : IsPair(p), tx' = PutEdgeNewBatch(tx, P)
      PROVE  tx'.counted = tx.counted /\ (Enough(tx) => Enough(tx'))
  BY <1>1, <1>4, PutEdgeNewBatchOK, EnoughBatch
<1> QED BY <1>2, <1>3, <1>4, ApplyAddsIs

LEMMA EnoughInit == Init => EnoughInv
<1> SUFFICES ASSUME Init PROVE EnoughInv
  OBVIOUS
<1>1. TypeInv /\ tx = View(store)
  BY TypeInit DEF Init
<1>2. /\ View(store).edges = store.edges /\ View(store).counted = store.counted
      /\ View(store).pending = 0 /\ IsFiniteSet(DOMAIN store.edges) /\ store.counted \in Nat
  BY <1>1, ViewIs DEF TypeInv, StoreOK, GraphOK
<1>3. store.counted = Cardinality(DOMAIN store.edges)
  BY DEF Init
<1>4. Cardinality(DOMAIN store.edges) \in Nat
  BY <1>2, FS_CardinalityType
<1> QED BY <1>1, <1>2, <1>3, <1>4 DEF EnoughInv, Enough

LEMMA EnoughStep == TypeInv /\ EnoughInv /\ [Next]_vars => EnoughInv'
<1> SUFFICES ASSUME TypeInv, EnoughInv, [Next]_vars PROVE EnoughInv'
  OBVIOUS
<1>1. CASE UNCHANGED <<tx, store>>
  BY <1>1 DEF EnoughInv, Enough
<1>2. CASE Begin \/ Fail
  <2>1. tx' = View(store) /\ store' = store
    BY <1>2 DEF Begin, Fail
  <2>2. /\ View(store).edges = store.edges /\ View(store).counted = store.counted
        /\ View(store).pending = 0 /\ store.counted \in Nat
    BY ViewIs DEF TypeInv, StoreOK
  <2> QED BY <2>1, <2>2 DEF EnoughInv, Enough
<1>3. CASE Commit
  <2>1. store' = Flushed(tx) /\ tx' = tx
    BY <1>3 DEF Commit
  <2>2. /\ Flushed(tx).edges = tx.edges
        /\ Flushed(tx).counted = IF tx.counted + tx.pending < 0 THEN 0 ELSE tx.counted + tx.pending
    BY FlushedIs DEF TypeInv
  <2>3. Cardinality(DOMAIN tx.edges) \in Nat /\ tx.counted \in Nat /\ tx.pending \in Int
    BY FS_CardinalityType DEF TypeInv, TxOK, GraphOK
  <2> QED BY <2>1, <2>2, <2>3 DEF EnoughInv, Enough
<1>4. CASE ApplyAdds
  <2>1. store' = store
    BY <1>4 DEF ApplyAdds, ApplyCreate, ApplyMergeVertex, ApplyMergeBatch, ApplyMergeSimple,
                ApplyMergeEdge, ApplyMergeNothing, Applied
  <2> QED BY <1>4, <2>1, EnoughAdds DEF EnoughInv
<1>5. CASE ApplyDelete
  <2>1. store' = store
    BY <1>5 DEF ApplyDelete
  <2> QED BY <1>5, <2>1, ApplyDeleteIs DEF EnoughInv
<1>6. CASE Elsewhere
  <2>1. Commit \/ UNCHANGED <<tx, store>>
    BY <1>6, ElsewhereSame DEF Elsewhere, ExecuteMatch, ExecuteWrite, MaterializeRow, MaterializeCreate,
       MaterializeMerge, MaterializeDelete, RowDone, RowsDone, EndClause
  <2> QED BY <1>1, <1>3, <2>1
<1> QED BY <1>1, <1>2, <1>4, <1>5, <1>6, NextSplit DEF vars

---------------------------------------------------------------------------
(* Merges: what they find.  Nothing is deleted before a merge, no answer   *)
(* is known for a label that is still to be merged, and where none was     *)
(* counted every pair with an edge has one with a plain id.                *)

MergeAhead ==
    (mode \in {"rows", "apply"} /\ clause.op = "MERGE") \/ \E d \in Members(clauses) : d.op = "MERGE"
SimpleAhead == \E d \in Members(clauses) : MergesSimple(d)
PlainFirst(s) == \A e \in DOMAIN s.edges : EdgeId(e[2], e[3], 0) \in DOMAIN s.edges
LabelsAhead(p) == \A d \in Members(clauses) : MergesNode(d) => d.parts[1].left.label \notin DOMAIN p.found

FindInv ==
    /\ MadeInv
    /\ mode # "idle" => /\ MergeAhead => NothingGone
                        /\ LabelsAhead(params)
                        /\ tx.counted = 0 /\ SimpleAhead => PlainFirst(tx)

\* A row is done: only the parameters change.
LEMMA FindRowDone ==
    ASSUME FindInv, mode = "rows", NEW row, NEW R, NEW p, NEW es, RowDone(row, R, p, es),
           MergeAhead => p.goneE = {} /\ p.goneV = {},
           \A key \in DOMAIN p.made : IsPredicted(p.made[key]),
           LabelsAhead(p)
    PROVE  FindInv'
<1>1. params' = p /\ UNCHANGED <<store, tx, todo, clauses, clause, was, scratch, mode>>
  BY DEF RowDone
<1>2. MadeInv' /\ LabelsAhead(params)'
  BY <1>1 DEF MadeInv, LabelsAhead
<1>3. (MergeAhead' <=> MergeAhead) /\ (SimpleAhead' <=> SimpleAhead)
  BY <1>1 DEF MergeAhead, SimpleAhead
<1>4. MergeAhead => NothingGone'
  BY <1>1 DEF FindInv, NothingGone
<1> QED BY <1>1, <1>2, <1>3, <1>4 DEF FindInv

LEMMA FindCreate ==
    \A row \in input : TypeInv /\ FindInv /\ mode = "rows" /\ MaterializeCreate(row) => FindInv'
<1> SUFFICES ASSUME NEW row \in input, TypeInv, FindInv, mode = "rows", MaterializeCreate(row)
             PROVE  FindInv'
  OBVIOUS
<1> DEFINE n == Len(clause.parts)
           r == [row |-> row, params |-> params]
           after == CreatedAfter(r, clause.parts)
           es == [i \in 1 .. n |-> Event(clause, clause.parts[i], after[i].row)]
           p == after[n].params
<1>1. RowDone(row, {after[n].row}, p, es) /\ clause.op = "CREATE"
  BY DEF MaterializeCreate
<1>2. BothOK(r) /\ clause \in AllClauses /\ r.params = params
  BY NextRow
<1>3. IsSeq(clause.parts) /\ Members(clause.parts) \subseteq AllParts
  BY <1>1, <1>2, ClauseIs DEF Deletes
<1>4. n \in 0 .. n
  BY <1>3 DEF IsSeq
<1>5. /\ Continues(r, after[n])
      /\ p.found = r.params.found /\ p.made = r.params.made
  <2> HIDE DEF r
  <2>1. \A i \in 0 .. n : /\ BothOK(after[i]) /\ Continues(r, after[i])
                          /\ after[i].params.found = r.params.found
                          /\ after[i].params.made = r.params.made
                          /\ after[i].row.id = r.row.id
    BY <1>2, <1>3, CreatedAfterOK
  <2> HIDE DEF after, n
  <2> QED BY <1>4, <2>1
<1> HIDE DEF es, after, n, r
<1>6. p.goneE = params.goneE /\ p.goneV = params.goneV /\ p.found = params.found /\ p.made = params.made
  BY <1>2, <1>5 DEF Continues
<1> HIDE DEF p
<1>7. MergeAhead => p.goneE = {} /\ p.goneV = {}
  BY <1>6 DEF FindInv, NothingGone
<1>8. \A key \in DOMAIN p.made : IsPredicted(p.made[key])
  BY <1>6 DEF FindInv, MadeInv
<1>9. LabelsAhead(p)
  BY <1>6 DEF FindInv, LabelsAhead
<1> QED BY <1>1, <1>7, <1>8, <1>9, FindRowDone

LEMMA FindMerge ==
    \A row \in input : TypeInv /\ OrderInv(MergesApart) /\ FindInv /\ mode = "rows"
                       /\ MaterializeMerge(row) => FindInv'
<1> SUFFICES ASSUME NEW row \in input, TypeInv, OrderInv(MergesApart), FindInv, mode = "rows",
                    MaterializeMerge(row)
             PROVE  FindInv'
  OBVIOUS
<1> DEFINE part == clause.parts[1]
           r == [row |-> row, params |-> params]
<1>1. BothOK(r) /\ clause.op = "MERGE" /\ r.params = params
  BY NextRow DEF MaterializeMerge
<1>2. params.goneE = {} /\ params.goneV = {} /\ LabelsAhead(params)
      /\ (\A key \in DOMAIN params.made : IsPredicted(params.made[key]))
  BY <1>1 DEF FindInv, MergeAhead, NothingGone, MadeInv
<1>3. CASE IsHop(part)
  <2>1. \E R, es : RowDone(row, R, params, es)
    BY <1>3 DEF MaterializeMerge
  <2> QED BY <1>2, <2>1, FindRowDone
<1>4. CASE ~IsHop(part)
  <2>1. PICK m \in MergeNode(tx, r, part.left) :
           RowDone(row, {m.row}, m.params, <<Event(clause, part, m.row)>>)
    BY <1>4 DEF MaterializeMerge
  <2> HIDE DEF part, r
  <2>2. /\ m.params.goneE = r.params.goneE /\ m.params.goneV = r.params.goneV
        /\ \E v \in Lookup(tx, r.params, part.left.label) :
              \/ NodeHit(r, part.left, v, m)
              \/ v = None /\ (NodeUnnamed(r, part.left, m) \/ NodeMade(r, part.left, m))
    BY <1>1, <2>1, MergeNodeIs
  <2>3. \E u : m.params.found = Put(params.found, part.left.label, u)
    BY <1>1, <2>2 DEF NodeHit, NodeUnnamed, NodeMade
  <2>4. LabelsAhead(m.params)
    <3> SUFFICES ASSUME NEW d \in Members(clauses), MergesNode(d)
                 PROVE  d.parts[1].left.label \notin DOMAIN m.params.found
      BY DEF LabelsAhead
    <3>1. <<clause, d>> \in MergesApart
      BY <1>1 DEF OrderInv
    <3>2. MergesNode(clause)
      BY <1>1, <1>4 DEF MergesNode, part
    <3>3. part.left.label # d.parts[1].left.label
      BY <3>1, <3>2 DEF MergesApart, part
    <3>4. DOMAIN m.params.found = DOMAIN params.found \cup {part.left.label}
      BY <2>3 DEF Put
    <3> QED BY <1>2, <3>3, <3>4 DEF LabelsAhead
  <2>5. \A key \in DOMAIN m.params.made : IsPredicted(m.params.made[key])
    <3>1. CASE m.params.made = params.made
      BY <1>2, <3>1
    <3>2. CASE NodeMade(r, part.left, m)
      <4> DEFINE key == <<part.left.var, part.left.label>>
                 id == At(params.made, key, MergeVertex(params.nextMV + 1))
      <4>1. m.params.made = Put(params.made, key, id)
        BY <1>1, <3>2 DEF NodeMade
      <4>2. IsPredicted(id)
        BY <1>2 DEF At, IsPredicted, MergeVertex
      <4> HIDE DEF id, key
      <4> QED BY <1>2, <4>1, <4>2 DEF Put
    <3> QED BY <1>1, <2>2, <3>1, <3>2 DEF NodeHit, NodeUnnamed
  <2>6. m.params.goneE = {} /\ m.params.goneV = {}
    BY <1>1, <1>2, <2>2
  <2> QED BY <2>1, <2>4, <2>5, <2>6, FindRowDone
<1> QED BY <1>3, <1>4

LEMMA FindTombstones ==
    \A row \in input : TypeInv /\ OrderInv(MergesApart) /\ FindInv /\ mode = "rows"
                       /\ MaterializeDelete(row) => FindInv'
<1> SUFFICES ASSUME NEW row \in input, TypeInv, OrderInv(MergesApart), FindInv, mode = "rows",
                    MaterializeDelete(row)
             PROVE  FindInv'
  OBVIOUS
<1> DEFINE r == [row |-> row, params |-> params]
           t == Tombstones(tx, r, clause.vars)
<1>1. RowDone(row, {t.row}, t.params, <<Event(clause, NoPart, t.row)>>) /\ Deletes(clause)
      /\ clause.op # "MERGE" /\ clause.op # "MATCH"
  BY DEF MaterializeDelete, Deletes
<1>2. BothOK(r) /\ r.params = params
  BY NextRow
<1> HIDE DEF r
<1>3. t.params.found = params.found /\ t.params.made = params.made
  <2>1. Buried(tx, r, clause.vars, t)
    BY <1>2, TombstonesIs
  <2> QED BY <1>2, <2>1 DEF Buried
<1> HIDE DEF t
<1>4. ~MergeAhead
  <2> SUFFICES ASSUME NEW d \in Members(clauses), d.op = "MERGE" PROVE FALSE
    BY <1>1 DEF MergeAhead
  <2>1. <<clause, d>> \in MergesApart
    BY <1>1 DEF OrderInv
  <2> QED BY <1>1, <2>1 DEF MergesApart
<1>5. LabelsAhead(t.params) /\ \A key \in DOMAIN t.params.made : IsPredicted(t.params.made[key])
  BY <1>3 DEF FindInv, LabelsAhead, MadeInv
<1> QED BY <1>1, <1>4, <1>5, FindRowDone

\* Every step that adds takes the plain id of a pair first.
LEMMA AddsPlainFirst ==
    ASSUME TypeInv, ApplyAdds, NothingGone, PlainFirst(tx) PROVE PlainFirst(tx')
<1>1. CASE VerticesPut(tx, tx')
  BY <1>1 DEF VerticesPut, PlainFirst
<1>2. ASSUME NEW q, NEW a, NEW b, VerticesPut(tx, q), FirstPut(q, tx', a, b),
             IsVertexId(a), IsVertexId(b)
      PROVE  PlainFirst(tx')
  <2>1. PICK k \in Nat : /\ EdgeId(a, b, k) \notin DOMAIN q.edges
                         /\ tx' = PutEdgeNew(q, EdgeId(a, b, k), a, b)
                         /\ k = 0 \/ EdgeId(a, b, 0) \in DOMAIN q.edges
    BY <1>2 DEF FirstPut
  <2> DEFINE e == EdgeId(a, b, k)
  <2>2. TxOK(q) /\ DOMAIN q.edges = DOMAIN tx.edges
    BY <1>2 DEF VerticesPut
  <2>3. tx'.edges = Put(q.edges, e, <<a, b>>)
    BY <1>2, <2>1, <2>2, PutEdgeNewOK
  <2>4. e[2] = a /\ e[3] = b /\ (e = EdgeId(a, b, 0) \/ EdgeId(a, b, 0) \in DOMAIN q.edges)
    BY <2>1, EdgeIdParts
  <2> HIDE DEF e
  <2>5. DOMAIN tx'.edges = DOMAIN tx.edges \cup {e}
    BY <2>2, <2>3 DEF Put
  <2> QED BY <2>2, <2>4, <2>5 DEF PlainFirst
<1>3. ASSUME NEW P, IsFiniteSet(P), \A p \in P : IsPair(p), tx' = PutEdgeNewBatch(tx, P)
      PROVE  PlainFirst(tx')
  <2> DEFINE E == {EdgeId(p[1], p[2], 0) : p \in P}
  <2>1. DOMAIN tx'.edges = DOMAIN tx.edges \cup E
    BY <1>3, PutEdgeNewBatchOK DEF TypeInv
  <2>2. \A e \in E : e = EdgeId(e[2], e[3], 0)
    BY EdgeIdParts
  <2> HIDE DEF E
  <2> QED BY <2>1, <2>2 DEF PlainFirst
<1> QED BY <1>1, <1>2, <1>3, ApplyAddsIs

LEMMA FindAdds ==
    TypeInv /\ OrderInv(MergesApart) /\ FindInv /\ ApplyAdds => FindInv'
<1> SUFFICES ASSUME TypeInv, OrderInv(MergesApart), FindInv, ApplyAdds PROVE FindInv'
  OBVIOUS
<1>1. /\ mode = "apply" /\ mode' = "apply" /\ ~Deletes(clause) /\ clause.op # "MATCH"
      /\ UNCHANGED <<clauses, clause, params>>
  BY DEF ApplyAdds, ApplyCreate, ApplyMergeVertex, ApplyMergeBatch, ApplyMergeSimple,
         ApplyMergeEdge, ApplyMergeNothing, Applied, Deletes
<1>2. MadeInv' /\ LabelsAhead(params)' /\ (MergeAhead' <=> MergeAhead) /\ (SimpleAhead' <=> SimpleAhead)
  BY <1>1 DEF FindInv, MadeInv, LabelsAhead, MergeAhead, SimpleAhead
<1>3. ASSUME MergeAhead PROVE NothingGone'
  <2>1. NothingGone
    BY <1>1, <1>3 DEF FindInv
  <2>2. scratch'.gone = scratch.gone
    <3>1. IsScratch(scratch)
      BY DEF TypeInv, EventsOK
    <3>2. CASE ApplyCreate BY <3>1, <3>2 DEF ApplyCreate, IsScratch
    <3>3. CASE ApplyMergeVertex
      <4>1. \E m \in MergedVertex(tx, scratch, Head(events)) : scratch' = m.scratch
        BY <3>3 DEF ApplyMergeVertex
      <4> QED BY <3>1, <4>1, MergedVertexIs
    <3>4. CASE ApplyMergeBatch \/ ApplyMergeNothing BY <3>4 DEF ApplyMergeBatch, ApplyMergeNothing
    <3>5. CASE ApplyMergeSimple BY <3>1, <3>5 DEF ApplyMergeSimple, IsScratch
    <3>6. CASE ApplyMergeEdge
      <4>1. scratch' = [scratch EXCEPT !.gone = scratch.gone \cup Head(events).gone] /\ events # <<>>
        BY <3>6 DEF ApplyMergeEdge
      <4>2. Head(events).gone \subseteq params.goneE
        BY <1>1, <4>1, HeadIs DEF EventOK
      <4>3. Head(events).gone = {}
        BY <2>1, <4>2 DEF NothingGone
      <4> QED BY <3>1, <4>1, <4>3 DEF IsScratch
    <3> QED BY <3>2, <3>3, <3>4, <3>5, <3>6 DEF ApplyAdds
  <2> QED BY <1>1, <2>1, <2>2 DEF NothingGone
<1>4. ASSUME tx'.counted = 0, SimpleAhead PROVE PlainFirst(tx')
  <2>1. tx.counted = 0
    BY <1>4, EnoughAdds
  <2>2. MergeAhead
    BY <1>4 DEF SimpleAhead, MergeAhead, MergesSimple, MergesHop
  <2>3. PlainFirst(tx) /\ NothingGone
    BY <1>1, <1>4, <2>1, <2>2 DEF FindInv
  <2> QED BY <2>3, AddsPlainFirst
<1> QED BY <1>1, <1>2, <1>3, <1>4 DEF FindInv

LEMMA FindDelete ==
    TypeInv /\ OrderInv(MergesApart) /\ FindInv /\ ApplyDelete => FindInv'
<1> SUFFICES ASSUME TypeInv, OrderInv(MergesApart), FindInv, ApplyDelete PROVE FindInv'
  OBVIOUS
<1>1. /\ mode = "apply" /\ mode' = "apply" /\ Deletes(clause)
      /\ UNCHANGED <<clauses, clause, params, scratch>>
  BY DEF ApplyDelete
<1>2. MadeInv' /\ LabelsAhead(params)'
  BY <1>1 DEF FindInv, MadeInv, LabelsAhead
<1>3. ~MergeAhead' /\ ~SimpleAhead'
  <2>1. \A d \in Members(clauses) : d.op # "MERGE"
    <3> SUFFICES ASSUME NEW d \in Members(clauses) PROVE d.op # "MERGE"
      OBVIOUS
    <3>1. <<clause, d>> \in MergesApart
      BY <1>1 DEF OrderInv, Deletes
    <3> QED BY <1>1, <3>1 DEF MergesApart
  <2> QED BY <1>1, <2>1 DEF MergeAhead, SimpleAhead, MergesSimple, MergesHop, Deletes
<1> QED BY <1>1, <1>2, <1>3 DEF FindInv

LEMMA FindOthers ==
    TypeInv /\ EnoughInv /\ FindInv
    /\ (Begin \/ ExecuteMatch \/ ExecuteWrite \/ RowsDone \/ EndClause \/ Commit \/ Fail) => FindInv'
<1> SUFFICES ASSUME TypeInv, EnoughInv, FindInv,
                    Begin \/ ExecuteMatch \/ ExecuteWrite \/ RowsDone \/ EndClause \/ Commit \/ Fail
             PROVE  FindInv'
  OBVIOUS
<1>1. CASE Begin
  <2> DEFINE new == NewParams(Len(todo))
  <2>1. /\ mode' = "clause" /\ params' = new /\ scratch' = NewScratch /\ tx' = View(store)
        /\ store' = store
    BY <1>1 DEF Begin
  <2>2. /\ new.goneE = {} /\ new.goneV = {} /\ DOMAIN new.found = {} /\ DOMAIN new.made = {}
        /\ NewScratch.gone = {}
    BY NewIs
  <2> HIDE DEF new
  <2>3. MadeInv' /\ NothingGone' /\ LabelsAhead(params)'
    BY <2>1, <2>2 DEF MadeInv, NothingGone, LabelsAhead
  <2>4. View(store).counted = store.counted /\ View(store).edges = store.edges
        /\ IsFiniteSet(DOMAIN store.edges) /\ store.counted \in Nat
    BY ViewIs DEF TypeInv, StoreOK, GraphOK
  <2>5. ASSUME store.counted = 0 PROVE DOMAIN store.edges = {}
    <3>1. Cardinality(DOMAIN store.edges) \in Nat /\ store.counted >= Cardinality(DOMAIN store.edges)
      BY <2>4, FS_CardinalityType DEF EnoughInv
    <3>2. Cardinality(DOMAIN store.edges) = 0
      BY <2>5, <3>1
    <3> QED BY <2>4, <3>2, FS_EmptySet
  <2> QED BY <2>1, <2>3, <2>4, <2>5 DEF FindInv, PlainFirst
<1>2. CASE ExecuteMatch \/ ExecuteWrite
  <2>1. ClauseBegins /\ UNCHANGED <<store, tx, params>> /\ mode = "clause"
        /\ (scratch' = scratch \/ scratch' = NewScratch)
    BY <1>2 DEF ExecuteMatch, ExecuteWrite, ClauseBegins
  <2>2. Members(clauses) = {clause'} \cup Members(clauses')
    BY <2>1, ClauseBeginsIs
  <2>3. (MergeAhead' => MergeAhead) /\ (SimpleAhead' => SimpleAhead)
    BY <2>1, <2>2 DEF MergeAhead, SimpleAhead
  <2>4. NothingGone => NothingGone'
    BY <2>1, NewIs DEF NothingGone
  <2>5. MadeInv' /\ LabelsAhead(params)'
    BY <2>1, <2>2 DEF FindInv, MadeInv, LabelsAhead
  <2> QED BY <2>1, <2>3, <2>4, <2>5 DEF FindInv
<1>3. CASE RowsDone \/ EndClause \/ Commit \/ Fail
  <2>1. /\ UNCHANGED <<clauses, clause, params, scratch>> /\ (mode' # "idle" => tx' = tx)
        /\ mode' # "idle" => mode # "idle" /\ (mode' \in {"rows", "apply"} => mode \in {"rows", "apply"})
    BY <1>3 DEF RowsDone, EndClause, Commit, Fail
  <2>2. /\ MadeInv' /\ (SimpleAhead' <=> SimpleAhead) /\ (NothingGone' <=> NothingGone)
        /\ (LabelsAhead(params)' <=> LabelsAhead(params))
    BY <2>1 DEF FindInv, MadeInv, LabelsAhead, SimpleAhead, NothingGone
  <2>3. mode' # "idle" /\ MergeAhead' => MergeAhead
    BY <2>1 DEF MergeAhead
  <2> QED BY <2>1, <2>2, <2>3 DEF FindInv
<1> QED BY <1>1, <1>2, <1>3

LEMMA FindInit == Init => FindInv
  BY NewIs DEF Init, FindInv, MadeInv

LEMMA FindStep ==
    TypeInv /\ EnoughInv /\ OrderInv(MergesApart) /\ FindInv /\ [Next]_vars => FindInv'
<1> SUFFICES ASSUME TypeInv, EnoughInv, OrderInv(MergesApart), FindInv, [Next]_vars PROVE FindInv'
  OBVIOUS
<1>1. CASE UNCHANGED vars
  BY <1>1 DEF vars, FindInv, MadeInv, MergeAhead, SimpleAhead, NothingGone, LabelsAhead, PlainFirst
<1>2. CASE MaterializeRow
  BY <1>2, FindCreate, FindMerge, FindTombstones DEF MaterializeRow
<1>3. CASE Begin \/ ExecuteMatch \/ ExecuteWrite \/ RowsDone \/ EndClause \/ Commit \/ Fail
  BY <1>3, FindOthers
<1>4. CASE ApplyAdds BY <1>4, FindAdds
<1>5. CASE ApplyDelete BY <1>5, FindDelete
<1> QED BY <1>1, <1>2, <1>3, <1>4, <1>5 DEF Next, ApplyAdds

---------------------------------------------------------------------------
(* Merges of relationships.  What was added stands alone between its ends  *)
(* and was not there; a batch, which reads nothing, is kept from adding a  *)
(* second edge by the plain id the first one took.                         *)

Ways(s, e, dir) ==
    IF dir = "any" THEN {s.edges[e], <<s.edges[e][2], s.edges[e][1]>>} ELSE {s.edges[e]}
Alone(g, s, dir) ==
    \A e \in DOMAIN s.edges \ DOMAIN g.edges : \A w \in Ways(s, e, dir) :
        Between(g, w[1], w[2]) = {} /\ Between(s, w[1], w[2]) \ {e} = {}
Extends(g, s) == \A e \in DOMAIN g.edges : e \in DOMAIN s.edges /\ s.edges[e] = g.edges[e]

HopInv ==
    mode # "idle" /\ MergesHop(clause) =>
        /\ tx.labels = was.labels /\ Extends(was, tx) /\ Alone(was, tx, clause.parts[1].dir)
        /\ tx.counted = 0 /\ MergesSimple(clause) =>
              PlainFirst(tx)

\* An edge is put where none is, in any way the pattern looks.
LEMMA AloneOnePut ==
    ASSUME NEW g, NEW s, NEW dir, GraphOK(s), GraphOK(g), Extends(g, s), Alone(g, s, dir),
           NEW a, NEW b, NEW t, NEW e, DOMAIN t.edges = DOMAIN s.edges \cup {e},
           e \notin DOMAIN s.edges, t.edges[e] = <<a, b>>,
           \A d \in DOMAIN s.edges : t.edges[d] = s.edges[d],
           Between(s, a, b) = {}, dir = "any" => Between(s, b, a) = {}
    PROVE  Extends(g, t) /\ Alone(g, t, dir)
<1>1. Extends(g, t)
  BY DEF Extends
<1>2. \A x, y : Between(g, x, y) \subseteq Between(s, x, y) /\ Between(t, x, y) \subseteq Between(s, x, y) \cup {e}
  BY DEF Extends, Between
<1>3. ASSUME NEW w \in Ways(t, e, dir)
      PROVE  Between(g, w[1], w[2]) = {} /\ Between(t, w[1], w[2]) \ {e} = {}
  <2>1. w = <<a, b>> \/ (dir = "any" /\ w = <<b, a>>)
    BY <1>3 DEF Ways
  <2>2. Between(s, w[1], w[2]) = {}
    BY <2>1
  <2> QED BY <1>2, <2>2
<1>4. ASSUME NEW d \in DOMAIN s.edges, d \notin DOMAIN g.edges, NEW w \in Ways(t, d, dir)
      PROVE  Between(g, w[1], w[2]) = {} /\ Between(t, w[1], w[2]) \ {d} = {}
  <2>1. w \in Ways(s, d, dir)
    BY <1>4 DEF Ways
  <2>2. Between(g, w[1], w[2]) = {} /\ Between(s, w[1], w[2]) \ {d} = {}
    BY <1>4, <2>1 DEF Alone
  <2>3. s.edges[d] = <<d[2], d[3]>>
    BY DEF GraphOK
  <2>4. e \notin Between(t, w[1], w[2])
    <3> SUFFICES ASSUME e \in Between(t, w[1], w[2]) PROVE FALSE
      OBVIOUS
    <3>1. <<a, b>> = <<w[1], w[2]>>
      BY DEF Between
    <3>2. CASE w = s.edges[d]
      <4>1. s.edges[d] = <<a, b>>
        BY <2>3, <3>1, <3>2
      <4> QED BY <4>1 DEF Between
    <3>3. CASE dir = "any" /\ w = <<s.edges[d][2], s.edges[d][1]>>
      <4>1. s.edges[d] = <<b, a>>
        BY <2>3, <3>1, <3>3
      <4> QED BY <3>3, <4>1 DEF Between
    <3> QED BY <2>1, <3>2, <3>3 DEF Ways
  <2> QED BY <1>2, <2>2, <2>4
<1> QED BY <1>1, <1>3, <1>4 DEF Alone

\* A batch takes plain ids, and where one is free there is no edge.
LEMMA AloneBatch ==
    ASSUME NEW g, NEW s, NEW dir, dir # "any", GraphOK(s), Extends(g, s), Alone(g, s, dir),
           PlainFirst(s), NEW E, \A e \in E : e = EdgeId(e[2], e[3], 0), NEW t, GraphOK(t),
           DOMAIN t.edges = DOMAIN s.edges \cup E, \A e \in DOMAIN s.edges : t.edges[e] = s.edges[e]
    PROVE  Extends(g, t) /\ Alone(g, t, dir) /\ PlainFirst(t)
<1>1. Extends(g, t)
  BY DEF Extends
<1>2. PlainFirst(t)
  <2> SUFFICES ASSUME NEW e \in DOMAIN t.edges PROVE EdgeId(e[2], e[3], 0) \in DOMAIN t.edges
    BY DEF PlainFirst
  <2>1. CASE e \in E BY <2>1
  <2>2. CASE e \in DOMAIN s.edges BY <2>2 DEF PlainFirst
  <2> QED BY <2>1, <2>2
<1>3. \A d \in DOMAIN t.edges : t.edges[d] = <<d[2], d[3]>>
  BY DEF GraphOK
<1>4. ASSUME NEW e \in DOMAIN t.edges, e \notin DOMAIN g.edges, NEW w \in Ways(t, e, dir)
      PROVE  Between(g, w[1], w[2]) = {} /\ Between(t, w[1], w[2]) \ {e} = {}
  <2>1. w = <<e[2], e[3]>> /\ w = t.edges[e]
    BY <1>3, <1>4 DEF Ways
  <2>2. \A d \in Between(t, w[1], w[2]) :
           d \in DOMAIN t.edges /\ EdgeId(d[2], d[3], 0) = EdgeId(e[2], e[3], 0)
    BY <1>3, <2>1 DEF Between
  <2>3. Between(g, w[1], w[2]) \subseteq Between(s, w[1], w[2])
        /\ Between(s, w[1], w[2]) \subseteq Between(t, w[1], w[2])
    BY DEF Extends, Between
  <2>4. CASE e \in DOMAIN s.edges
    <3>1. w \in Ways(s, e, dir)
      BY <2>1, <2>4 DEF Ways
    <3>2. Between(g, w[1], w[2]) = {} /\ Between(s, w[1], w[2]) \ {e} = {}
      BY <1>4, <2>4, <3>1 DEF Alone
    <3>3. EdgeId(e[2], e[3], 0) \in DOMAIN s.edges
      BY <2>4 DEF PlainFirst
    <3>4. ASSUME NEW d \in Between(t, w[1], w[2]) PROVE d \in Between(s, w[1], w[2])
      <4>1. d \in DOMAIN s.edges
        BY <2>2, <3>3
      <4> QED BY <4>1 DEF Between
    <3> QED BY <3>2, <3>4
  <2>5. CASE e \notin DOMAIN s.edges
    <3>1. e = EdgeId(e[2], e[3], 0)
      BY <2>5
    <3>2. ASSUME NEW d \in Between(t, w[1], w[2]) PROVE d = e
      <4>1. d \notin DOMAIN s.edges
        BY <2>2, <2>5, <3>1 DEF PlainFirst
      <4> QED BY <2>2, <3>1, <4>1
    <3>3. e \notin Between(s, w[1], w[2])
      BY <2>5 DEF Between
    <3> QED BY <2>3, <3>2, <3>3
  <2> QED BY <2>4, <2>5
<1> QED BY <1>1, <1>2, <1>4 DEF Alone

\* An event of a MERGE of a relationship, one by one.
LEMMA HopApplyOne ==
    TypeInv /\ FindInv /\ HopInv /\ (ApplyMergeSimple \/ ApplyMergeEdge \/ ApplyMergeNothing) => HopInv'
<1> SUFFICES ASSUME TypeInv, FindInv, HopInv, ApplyMergeSimple \/ ApplyMergeEdge \/ ApplyMergeNothing
             PROVE  HopInv'
  OBVIOUS
<1> DEFINE p == Ends(Head(events))
           dir == clause.parts[1].dir
<1>1. /\ mode = "apply" /\ mode' = "apply" /\ events # <<>> /\ MergesHop(clause) /\ clause.op = "MERGE"
      /\ IsHop(clause.parts[1]) /\ ~Deletes(clause) /\ UNCHANGED <<clause, was, params>>
  BY DEF ApplyMergeSimple, ApplyMergeEdge, ApplyMergeNothing, Applied, MergesHop, Deletes
<1>2. /\ tx.labels = was.labels /\ Extends(was, tx) /\ Alone(was, tx, dir)
      /\ GraphOK(tx) /\ GraphOK(was) /\ TxOK(tx) /\ NothingGone
  BY <1>1 DEF HopInv, TypeInv, TxOK, FindInv, MergeAhead
<1>3. /\ Head(events).part = clause.parts[1] /\ Head(events).part \in AllParts
      /\ NamesOK(Head(events).at) /\ Head(events).gone \subseteq params.goneE
  BY <1>1, HeadIs DEF EventOK
<1>4. tx'.counted = tx.counted
  BY EnoughAdds DEF ApplyAdds
<1>5. \/ tx' = tx
      \/ /\ EdgePut(tx, tx', p[1], p[2]) /\ Placed(Head(events)) /\ Between(tx, p[1], p[2]) = {}
         /\ dir = "any" => Between(tx, p[2], p[1]) = {}
         /\ MergesSimple(clause) => tx.counted > 0
  <2>1. CASE ApplyMergeSimple
    <3> DEFINE e == EdgeId(p[1], p[2], 0)
               there == p \in scratch.known \/ HasDirectedEdgeBetween(tx, p[1], p[2]) \/ e \in DOMAIN tx.edges
    <3>1. tx' = (IF there THEN tx ELSE PutEdgeNew(tx, e, p[1], p[2])) /\ Placed(Head(events))
          /\ tx.counted > 0 /\ dir = "out"
      BY <2>1 DEF ApplyMergeSimple, Applied, IsSimple
    <3>2. ~there => EdgePut(tx, PutEdgeNew(tx, e, p[1], p[2]), p[1], p[2]) /\ Between(tx, p[1], p[2]) = {}
      BY DEF EdgePut, HasDirectedEdgeBetween
    <3> HIDE DEF e, p, there, dir
    <3> QED BY <3>1, <3>2
  <2>2. CASE ApplyMergeEdge
    <3> DEFINE gone == scratch.gone \cup Head(events).gone
    <3>1. tx' \in MergedEdge(tx, gone, Head(events).part, p[1], p[2]) /\ Placed(Head(events))
          /\ ~IsSimple(clause.parts[1])
      BY <2>2 DEF ApplyMergeEdge, Applied
    <3>2. gone = {}
      BY <1>2, <1>3 DEF NothingGone
    <3> DEFINE there(x, y) == Between(tx, x, y) \ gone # {}
               found == there(p[1], p[2]) \/ (Head(events).part.dir = "any" /\ there(p[2], p[1]))
    <3>3. IF found THEN tx' = tx ELSE EdgePut(tx, tx', p[1], p[2])
      <4> HIDE DEF p, gone
      <4> QED BY <3>1, MergedEdgeIs
    <3>4. ~found => Between(tx, p[1], p[2]) = {} /\ (dir = "any" => Between(tx, p[2], p[1]) = {})
      BY <1>3, <3>2
    <3>5. ~MergesSimple(clause)
      BY <3>1 DEF MergesSimple
    <3> HIDE DEF p, found, dir
    <3> QED BY <3>1, <3>3, <3>4, <3>5
  <2>3. CASE ApplyMergeNothing BY <2>3 DEF ApplyMergeNothing, Applied
  <2> QED BY <2>1, <2>2, <2>3
<1>6. CASE tx' = tx
  BY <1>1, <1>6 DEF HopInv
<1>7. CASE /\ EdgePut(tx, tx', p[1], p[2]) /\ Placed(Head(events)) /\ Between(tx, p[1], p[2]) = {}
           /\ dir = "any" => Between(tx, p[2], p[1]) = {}
           /\ MergesSimple(clause) => tx.counted > 0
  <2>1. IsVertexId(p[1]) /\ IsVertexId(p[2])
    BY <1>1, <1>3, <1>7, EndsIs DEF IsPair
  <2>2. PICK e : /\ e \notin DOMAIN tx.edges /\ DOMAIN tx'.edges = DOMAIN tx.edges \cup {e}
                 /\ tx'.edges[e] = <<p[1], p[2]>> /\ tx'.labels = tx.labels
                 /\ \A d \in DOMAIN tx.edges : tx'.edges[d] = tx.edges[d]
    <3> HIDE DEF p
    <3>1. /\ tx'.labels = tx.labels /\ EdgeAdded(tx, tx', p[1], p[2])
          /\ \A d \in DOMAIN tx.edges : tx'.edges[d] = tx.edges[d]
      BY <1>2, <1>7, <2>1, EdgePutOK
    <3> QED BY <3>1 DEF EdgeAdded
  <2>3. Extends(was, tx') /\ Alone(was, tx', dir)
    <3> HIDE DEF p, dir
    <3> QED BY <1>2, <1>7, <2>2, AloneOnePut
  <2> QED BY <1>1, <1>2, <1>4, <1>7, <2>2, <2>3 DEF HopInv
<1> QED BY <1>5, <1>6, <1>7

LEMMA HopApplyBatch == TypeInv /\ HopInv /\ ApplyMergeBatch => HopInv'
<1> SUFFICES ASSUME TypeInv, HopInv, ApplyMergeBatch PROVE HopInv'
  OBVIOUS
<1>1. /\ mode = "apply" /\ mode' = "apply" /\ MergesSimple(clause) /\ MergesHop(clause) /\ tx.counted = 0
      /\ clause.op = "MERGE" /\ IsHop(clause.parts[1]) /\ UNCHANGED <<clause, was>>
      /\ clause.parts[1].dir # "any"
  BY DEF ApplyMergeBatch, IsBatch, MergesSimple, MergesHop, IsSimple
<1>2. /\ tx.labels = was.labels /\ Extends(was, tx) /\ Alone(was, tx, clause.parts[1].dir)
      /\ PlainFirst(tx) /\ GraphOK(tx)
  BY <1>1 DEF HopInv, TypeInv, TxOK
<1>3. PICK n \in DOMAIN events :
         /\ \A i \in 1 .. n : Placed(events[i])
         /\ tx' = PutEdgeNewBatch(tx, {Ends(events[i]) : i \in 1 .. n})
  BY DEF ApplyMergeBatch
<1> DEFINE P == {Ends(events[i]) : i \in 1 .. n}
           E == {EdgeId(q[1], q[2], 0) : q \in P}
           t == PutEdgeNewBatch(tx, P)
<1>4. IsFiniteSet(P) /\ \A q \in P : IsPair(q)
  BY <1>1, <1>3, BatchIs
<1> HIDE DEF P
<1>5. /\ TxOK(t) /\ t.labels = tx.labels /\ t.counted = tx.counted
      /\ DOMAIN t.edges = DOMAIN tx.edges \cup E
      /\ \A e \in DOMAIN tx.edges : t.edges[e] = tx.edges[e]
      /\ t.pending = tx.pending + Cardinality(P)
  BY <1>4, PutEdgeNewBatchOK DEF TypeInv
<1>6. \A e \in E : e = EdgeId(e[2], e[3], 0)
  BY EdgeIdParts
<1>7. tx' = t
  BY <1>3 DEF P
<1> HIDE DEF E, t
<1>8. GraphOK(tx')
  BY <1>5, <1>7 DEF TxOK
<1>9. Extends(was, tx') /\ Alone(was, tx', clause.parts[1].dir) /\ PlainFirst(tx')
  <2>1. DOMAIN tx'.edges = DOMAIN tx.edges \cup E /\ \A e \in DOMAIN tx.edges : tx'.edges[e] = tx.edges[e]
    BY <1>5, <1>7
  <2> QED BY <1>1, <1>2, <1>6, <1>8, <2>1, AloneBatch
<1> QED BY <1>1, <1>2, <1>5, <1>7, <1>9 DEF HopInv

LEMMA HopStep ==
    TypeInv /\ FindInv /\ HopInv /\ [Next]_vars => HopInv'
<1> SUFFICES ASSUME TypeInv, FindInv, HopInv, [Next]_vars PROVE HopInv'
  OBVIOUS
<1>1. CASE UNCHANGED <<tx, was, clause>> /\ (mode' # "idle" => mode # "idle")
  BY <1>1 DEF HopInv
<1>2. CASE Begin \/ ExecuteMatch \/ Fail
  <2>1. mode' = "idle" \/ clause'.op = "MATCH"
    BY <1>2 DEF Begin, ExecuteMatch, ClauseBegins, Match, Fail
  <2> QED BY <2>1 DEF HopInv, MergesHop
<1>3. CASE ExecuteWrite
  <2>1. ClauseBegins /\ tx' = tx /\ mode = "clause"
    BY <1>3 DEF ExecuteWrite, ClauseBegins
  <2>2. /\ Members(clauses) = {clause'} \cup Members(clauses')
        /\ was'.labels = tx.labels /\ was'.edges = tx.edges
    BY <2>1, ClauseBeginsIs
  <2>3. Extends(was', tx') /\ Alone(was', tx', clause'.parts[1].dir)
    BY <2>1, <2>2 DEF Extends, Alone
  <2>4. ASSUME tx.counted = 0, MergesSimple(clause') PROVE PlainFirst(tx)
    BY <2>1, <2>2, <2>4 DEF FindInv, SimpleAhead
  <2> QED BY <2>1, <2>2, <2>3, <2>4 DEF HopInv
<1>4. CASE MaterializeRow
  <2>1. UNCHANGED <<tx, was, clause, mode>>
    BY <1>4 DEF MaterializeRow, MaterializeCreate, MaterializeMerge, MaterializeDelete, RowDone
  <2> QED BY <1>1, <2>1
<1>5. CASE RowsDone \/ EndClause \/ Commit
  BY <1>1, <1>5 DEF RowsDone, EndClause, Commit
<1>6. CASE ApplyCreate \/ ApplyMergeVertex \/ ApplyDelete
  <2>1. ~MergesHop(clause) /\ clause' = clause
    BY <1>6 DEF ApplyCreate, ApplyMergeVertex, ApplyDelete, Applied, MergesHop, Deletes
  <2> QED BY <2>1 DEF HopInv
<1>7. CASE ApplyMergeBatch BY <1>7, HopApplyBatch
<1>8. CASE ApplyMergeSimple \/ ApplyMergeEdge \/ ApplyMergeNothing BY <1>8, HopApplyOne
<1>9. UNCHANGED vars => UNCHANGED <<tx, was, clause, mode>>
  BY DEF vars
<1> QED BY <1>1, <1>2, <1>3, <1>4, <1>5, <1>6, <1>7, <1>8, <1>9 DEF Next

---------------------------------------------------------------------------
(* Merges of nodes.  Where a vertex has the label, every row finds one;    *)
(* where none has, all rows are given one id, and the first event writes   *)
(* it, or a vertex of its own if the id is not to be had.                  *)

MergeLabel == clause.parts[1].left.label
MergeKey == <<clause.parts[1].left.var, MergeLabel>>
TakenThere == \A e \in Members(events) : TakenId(e) # None => TakenId(e) \in DOMAIN tx.labels
TakenOne(p) ==
    \A e \in Members(events) :
        IF clause.parts[1].left.var = Anon THEN TakenId(e) = None
        ELSE MergeKey \in DOMAIN p.made /\ TakenId(e) = p.made[MergeKey]

NodeFound ==
    Labelled(tx, MergeLabel) # {} =>
        TakenThere
        /\ (MergeLabel \in DOMAIN params.found => params.found[MergeLabel] \in Labelled(tx, MergeLabel))
NodeMissed ==
    Labelled(tx, MergeLabel) = {} =>
        TakenOne(params)
        /\ (MergeLabel \in DOMAIN params.found => params.found[MergeLabel] = None)
Before ==
    /\ Labelled(tx, MergeLabel) = {} /\ tx.labels = was.labels
    /\ \A e, d \in Members(events) : TakenId(e) = TakenId(d)
After ==
    /\ Labelled(tx, MergeLabel) # {} /\ TakenThere
    /\ AddedVertices = {} \/ (Labelled(was, MergeLabel) = {} /\ \E v : AddedVertices = {v})

NodeInv ==
    mode # "idle" /\ MergesNode(clause) =>
        /\ tx.edges = was.edges
        /\ mode = "rows" => tx.labels = was.labels /\ NodeFound /\ NodeMissed
        /\ mode \in {"apply", "clause"} => Before \/ After

\* The id the applier takes of a row's node.
LEMMA TakenIs ==
    ASSUME NEW e, NEW part, e.part = part, NamesOK(e.at)
    PROVE  /\ part.left.var = Anon => TakenId(e) = None
           /\ \A v : part.left.var \in DOMAIN e.at /\ e.at[part.left.var] = v =>
                        TakenId(e) = (IF IsPredicted(v) THEN v ELSE None)
<1>1. ~IsPredicted(None)
  BY DEF IsPredicted, None
<1> QED BY <1>1 DEF TakenId, At, NamesOK

\* The vertex a row finds, or that none is to be found.
LEMMA LookupIs ==
    ASSUME GraphOK(tx), NEW p, p.goneV = {}, NEW lab, NEW v \in Lookup(tx, p, lab),
           lab \in DOMAIN p.found =>
               p.found[lab] \in Labelled(tx, lab) \/ (p.found[lab] = None /\ Labelled(tx, lab) = {})
    PROVE  \/ v \in Labelled(tx, lab) /\ v # None
           \/ v = None /\ Labelled(tx, lab) = {}
<1>1. \A u \in Labelled(tx, lab) : u # None
  BY DEF GraphOK, Labelled, IsVertexId, None
<1>2. Labelled(tx, lab) \ p.goneV = Labelled(tx, lab)
  OBVIOUS
<1>3. v \in Labelled(tx, lab) \/ (v = None /\ Labelled(tx, lab) = {})
  <2>1. CASE lab \notin DOMAIN p.found
    BY <1>2, <2>1 DEF Lookup
  <2>2. CASE lab \in DOMAIN p.found
    <3>1. CASE p.found[lab] = None
      BY <1>1, <2>2, <3>1 DEF Lookup
    <3>2. CASE p.found[lab] # None
      <4>1. Lookup(tx, p, lab) = {p.found[lab]}
        BY <2>2, <3>2 DEF Lookup
      <4> QED BY <2>2, <3>2, <4>1
    <3> QED BY <3>1, <3>2
  <2> QED BY <2>1, <2>2
<1> QED BY <1>1, <1>3

LEMMA NodeMerge ==
    \A row \in input : TypeInv /\ FindInv /\ FindInv' /\ NodeInv /\ mode = "rows"
                       /\ MaterializeMerge(row) => NodeInv'
<1> SUFFICES ASSUME NEW row \in input, TypeInv, FindInv, FindInv', NodeInv, mode = "rows",
                    MaterializeMerge(row), MergesNode(clause)
             PROVE  NodeInv'
  BY DEF NodeInv, MaterializeMerge, RowDone
<1> DEFINE part == clause.parts[1]
           lab == part.left.label
           r == [row |-> row, params |-> params]
<1>1. BothOK(r) /\ clause \in AllClauses /\ clause.op = "MERGE" /\ r.params = params /\ r.row = row
      /\ GraphOK(tx) /\ ~IsHop(part)
  BY NextRow DEF MaterializeMerge, TypeInv, TxOK, MergesNode
<1>2. part \in AllParts /\ part.left.var \notin HopNames
  BY <1>1, ClauseIs, PartNames DEF NodesOf
<1>3. PICK m \in MergeNode(tx, r, part.left) :
         RowDone(row, {m.row}, m.params, <<Event(clause, part, m.row)>>)
  BY <1>1 DEF MaterializeMerge
<1> DEFINE e == Event(clause, part, m.row)
<1>4. /\ params' = m.params /\ events' = events \o <<e>>
      /\ UNCHANGED <<tx, clause, was, mode>>
  BY <1>3 DEF RowDone
<1>5. e.part = part /\ e.at = m.row.at
  BY DEF Event
<1> HIDE DEF e
<1>6. Members(events') = Members(events) \cup {e}
  BY <1>4, ConcatIs, OneEvent DEF TypeInv, EventsOK
<1>7. params.goneV = {} /\ MadeInv'
  BY <1>1 DEF FindInv, MergeAhead, NothingGone
<1>8. NodeFound /\ NodeMissed /\ tx.labels = was.labels /\ tx.edges = was.edges
  BY DEF NodeInv
<1> HIDE DEF part, r
<1>9. BothOK(m) /\ NamesOK(m.row.at) /\ NamesOK(row.at)
  <2>1. BothOK(m)
    BY <1>1, <1>2, <1>3, MergeNodeOK
  <2> QED BY <1>1, <2>1 DEF BothOK, RowOK
<1>10. PICK v \in Lookup(tx, params, lab) :
          \/ NodeHit(r, part.left, v, m)
          \/ v = None /\ (NodeUnnamed(r, part.left, m) \/ NodeMade(r, part.left, m))
  BY <1>1, <1>3, MergeNodeIs
<1>11. \/ v \in Labelled(tx, lab) /\ v # None
       \/ v = None /\ Labelled(tx, lab) = {}
  <2>1. lab \in DOMAIN params.found =>
           params.found[lab] \in Labelled(tx, lab) \/ (params.found[lab] = None /\ Labelled(tx, lab) = {})
    BY <1>8 DEF NodeFound, NodeMissed, MergeLabel, part
  <2> HIDE DEF lab
  <2> QED BY <1>1, <1>7, <1>10, <2>1, LookupIs
<1>12. MergeLabel = lab /\ MergeLabel' = lab /\ MergeKey = <<part.left.var, lab>> /\ MergeKey' = MergeKey
       /\ Labelled(tx, lab)' = Labelled(tx, lab)
  BY <1>4 DEF MergeLabel, MergeKey, part, Labelled
<1>13. /\ part.left.var = Anon => TakenId(e) = None
       /\ \A u : part.left.var \in DOMAIN e.at /\ e.at[part.left.var] = u =>
                    TakenId(e) = (IF IsPredicted(u) THEN u ELSE None)
  BY <1>5, <1>9, TakenIs
<1>14. CASE v \in Labelled(tx, lab) /\ v # None
  <2>1. NodeHit(r, part.left, v, m)
    BY <1>10, <1>14
  <2>2. m.params.found[lab] = v
    BY <2>1 DEF NodeHit, Put
  <2>3. TakenId(e) # None => TakenId(e) \in DOMAIN tx.labels
    <3>1. v \in DOMAIN tx.labels
      BY <1>14 DEF Labelled
    <3>2. part.left.var # Anon => part.left.var \in DOMAIN e.at /\ e.at[part.left.var] = v
      BY <1>5, <2>1 DEF NodeHit, Named, Put
    <3> QED BY <1>13, <3>1, <3>2
  <2>4. TakenThere
    BY <1>8, <1>12, <1>14 DEF NodeFound
  <2>5. TakenThere'
    BY <1>4, <1>6, <2>3, <2>4 DEF TakenThere
  <2>6. NodeFound' /\ NodeMissed'
    BY <1>4, <1>12, <1>14, <2>2, <2>5 DEF NodeFound, NodeMissed
  <2> QED BY <1>4, <1>8, <2>6 DEF NodeInv
<1>15. CASE v = None /\ Labelled(tx, lab) = {}
  <2>1. NodeUnnamed(r, part.left, m) \/ NodeMade(r, part.left, m)
    BY <1>10, <1>15 DEF NodeHit
  <2>2. m.params.found[lab] = None
    BY <2>1 DEF NodeUnnamed, NodeMade, Put
  <2>3. TakenOne(params)
    BY <1>8, <1>12, <1>15 DEF NodeMissed
  <2>4. part.left.var = clause.parts[1].left.var /\ clause' = clause
    BY <1>4 DEF part
  <2>5. TakenOne(params)'
    <3>1. CASE NodeUnnamed(r, part.left, m)
      <4>1. part.left.var = Anon
        BY <3>1 DEF NodeUnnamed
      <4> QED BY <1>6, <1>13, <2>3, <2>4, <4>1 DEF TakenOne
    <3>2. CASE NodeMade(r, part.left, m)
      <4> DEFINE key == <<part.left.var, lab>>
                 id == At(params.made, key, MergeVertex(params.nextMV + 1))
      <4>1. /\ part.left.var # Anon /\ m.row.at = Put(r.row.at, part.left.var, id)
            /\ m.params.made = Put(params.made, key, id)
        BY <1>1, <3>2 DEF NodeMade
      <4>2. key \in DOMAIN params.made => id = params.made[key]
        BY DEF At
      <4>3. key = MergeKey /\ key = MergeKey'
        BY <1>12
      <4> HIDE DEF id, key
      <4>4. key \in DOMAIN m.params.made /\ m.params.made[key] = id
        BY <4>1 DEF Put
      <4>5. IsPredicted(id)
        BY <1>4, <1>7, <4>4 DEF MadeInv
      <4>6. TakenId(e) = id
        BY <1>5, <1>13, <4>1, <4>5 DEF Put
      <4>7. \A d \in Members(events) : TakenId(d) = id
        BY <2>3, <2>4, <4>1, <4>2, <4>3 DEF TakenOne
      <4>8. MergeKey' \in DOMAIN params'.made /\ params'.made[MergeKey'] = id
        BY <1>4, <4>3, <4>4
      <4>9. \A d \in Members(events') : TakenId(d) = id
        BY <1>6, <4>6, <4>7
      <4> QED BY <2>4, <4>1, <4>8, <4>9 DEF TakenOne
    <3> QED BY <2>1, <3>1, <3>2
  <2>6. NodeFound' /\ NodeMissed'
    BY <1>4, <1>12, <1>15, <2>2, <2>5 DEF NodeFound, NodeMissed
  <2> QED BY <1>4, <1>8, <2>6 DEF NodeInv
<1> QED BY <1>11, <1>14, <1>15

\* A vertex that is written has the label.
LEMMA WrittenHasLabel ==
    ASSUME NEW s, TxOK(s), NEW v, IsVertexId(v), v \notin DOMAIN s.labels, NEW lab,
           NEW t, t = PutVertex(s, v, lab)
    PROVE  /\ v \in Labelled(t, lab) /\ DOMAIN t.labels = DOMAIN s.labels \cup {v}
           /\ t.edges = s.edges
<1>1. VerticesPut(s, t) /\ DOMAIN t.labels = DOMAIN s.labels \cup {v}
      /\ t.labels[v] = LabelSet(lab)
  BY PutVertexPuts
<1>2. lab = NoLabel \/ lab \in t.labels[v]
  BY <1>1 DEF LabelSet
<1> QED BY <1>1, <1>2 DEF VerticesPut, Labelled

LEMMA NodeApply == TypeInv /\ NodeInv /\ ApplyMergeVertex => NodeInv'
<1> SUFFICES ASSUME TypeInv, NodeInv, ApplyMergeVertex PROVE NodeInv'
  OBVIOUS
<1> DEFINE e == Head(events)
           lab == MergeLabel
<1>1. PICK m \in MergedVertex(tx, scratch, e) : Applied(m.s) /\ scratch' = m.scratch
  BY DEF ApplyMergeVertex
<1>2. /\ mode = "apply" /\ mode' = "apply" /\ events # <<>> /\ clause.op = "MERGE" /\ MergesNode(clause)
      /\ ~Deletes(clause) /\ tx' = m.s /\ events' = Tail(events) /\ UNCHANGED <<clause, was>>
  BY <1>1 DEF ApplyMergeVertex, Applied, MergesNode, Deletes
<1>3. /\ Members(events) = {e} \cup Members(events') /\ e.part = clause.parts[1]
  BY <1>2, HeadIs
<1>4. TxOK(tx) /\ IsScratch(scratch) /\ tx.edges = was.edges /\ (Before \/ After)
  BY <1>2 DEF TypeInv, EventsOK, NodeInv
<1>5. VertexMerged(tx, scratch, e, m)
  <2> HIDE DEF e
  <2> QED BY <1>1, <1>4, MergedVertexIs
<1>6. e.part.left.label = lab /\ MergeLabel' = lab
  BY <1>2, <1>3 DEF MergeLabel
<1> HIDE DEF e, lab
<1>7. e \in Members(events) /\ (TakenId(e) # None => IsVertexId(TakenId(e)))
  BY <1>3 DEF TakenId, IsPredicted, IsVertexId
<1>8. \/ tx' = tx
      \/ TakenId(e) # None /\ TakenId(e) \notin DOMAIN tx.labels /\ tx' = PutVertex(tx, TakenId(e), lab)
      \/ /\ Labelled(tx, lab) = {} /\ (TakenId(e) # None => TakenId(e) \in DOMAIN tx.labels)
         /\ \E k : AutoVertex(k) \notin DOMAIN tx.labels /\ tx' = PutVertex(tx, AutoVertex(k), lab)
  BY <1>2, <1>5, <1>6 DEF VertexMerged
<1>9. CASE tx' = tx
  <2>1. Before => Before'
    BY <1>2, <1>3, <1>6, <1>9 DEF Before, Labelled, lab
  <2>2. After => After'
    BY <1>2, <1>3, <1>6, <1>9 DEF After, TakenThere, AddedVertices, Labelled, lab
  <2> QED BY <1>2, <1>4, <1>9, <2>1, <2>2 DEF NodeInv
<1>10. ASSUME NEW v, IsVertexId(v), v \notin DOMAIN tx.labels, tx' = PutVertex(tx, v, lab), Before,
              TakenId(e) # None => TakenId(e) \in DOMAIN tx.labels \cup {v}
       PROVE  NodeInv'
  <2>1. /\ v \in Labelled(tx', lab) /\ DOMAIN tx'.labels = DOMAIN tx.labels \cup {v}
        /\ tx'.edges = tx.edges
    BY <1>4, <1>10, WrittenHasLabel
  <2>2. \A d \in Members(events') : TakenId(d) = TakenId(e)
    BY <1>3, <1>7, <1>10 DEF Before
  <2>3. TakenThere'
    BY <1>10, <2>1, <2>2 DEF TakenThere
  <2>4. AddedVertices' = {v}
    BY <1>2, <1>10, <2>1 DEF AddedVertices, Before
  <2>5. Labelled(was, lab) = {}
    BY <1>10 DEF Before, Labelled, lab
  <2>6. After'
    <3>1. Labelled(tx, MergeLabel)' = Labelled(tx', lab)
      BY <1>6
    <3>2. Labelled(was, MergeLabel)' = Labelled(was, lab)
      BY <1>2, <1>6
    <3> QED BY <2>1, <2>3, <2>4, <2>5, <3>1, <3>2 DEF After
  <2> QED BY <1>2, <1>4, <2>1, <2>6 DEF NodeInv
<1>11. CASE TakenId(e) # None /\ TakenId(e) \notin DOMAIN tx.labels /\ tx' = PutVertex(tx, TakenId(e), lab)
  <2>1. ~After
    BY <1>7, <1>11 DEF After, TakenThere
  <2> QED BY <1>4, <1>7, <1>10, <1>11, <2>1
<1>12. CASE /\ Labelled(tx, lab) = {} /\ (TakenId(e) # None => TakenId(e) \in DOMAIN tx.labels)
            /\ \E k : AutoVertex(k) \notin DOMAIN tx.labels /\ tx' = PutVertex(tx, AutoVertex(k), lab)
  <2>1. ~After
    BY <1>12 DEF After, lab
  <2>2. PICK k : AutoVertex(k) \notin DOMAIN tx.labels /\ tx' = PutVertex(tx, AutoVertex(k), lab)
    BY <1>12
  <2>3. IsVertexId(AutoVertex(k))
    BY DEF IsVertexId, AutoVertex
  <2> QED BY <1>4, <1>10, <1>12, <2>1, <2>2, <2>3
<1> QED BY <1>8, <1>9, <1>11, <1>12

LEMMA NodeStep ==
    TypeInv /\ FindInv /\ FindInv' /\ NodeInv /\ [Next]_vars => NodeInv'
<1> SUFFICES ASSUME TypeInv, FindInv, FindInv', NodeInv, [Next]_vars PROVE NodeInv'
  OBVIOUS
<1>1. CASE UNCHANGED vars
  <2>1. UNCHANGED <<tx, was, clause, mode, events, params>>
    BY <1>1 DEF vars
  <2> QED BY <2>1 DEF NodeInv, NodeFound, NodeMissed, Before, After, TakenThere, TakenOne,
                      MergeLabel, MergeKey, AddedVertices, Labelled
<1>2. CASE Begin \/ ExecuteMatch \/ Fail
  <2>1. mode' = "idle" \/ clause'.op = "MATCH"
    BY <1>2 DEF Begin, ExecuteMatch, ClauseBegins, Match, Fail
  <2> QED BY <2>1 DEF NodeInv, MergesNode
<1>3. CASE ExecuteWrite
  <2> SUFFICES ASSUME MergesNode(clause') PROVE NodeInv'
    BY DEF NodeInv
  <2>1. ClauseBegins /\ tx' = tx /\ params' = params /\ events' = <<>> /\ mode = "clause" /\ mode' = "rows"
    BY <1>3 DEF ExecuteWrite, ClauseBegins
  <2>2. /\ Members(clauses) = {clause'} \cup Members(clauses')
        /\ was'.labels = tx.labels /\ was'.edges = tx.edges
    BY <2>1, ClauseBeginsIs
  <2>3. MergeLabel' \notin DOMAIN params'.found
    BY <2>1, <2>2 DEF FindInv, LabelsAhead, MergeLabel
  <2>4. TakenThere' /\ TakenOne(params)'
    BY <2>1, IsEmpty DEF TakenThere, TakenOne
  <2>5. NodeFound' /\ NodeMissed'
    BY <2>3, <2>4 DEF NodeFound, NodeMissed
  <2> QED BY <2>1, <2>2, <2>5 DEF NodeInv
<1>4. CASE MaterializeRow
  <2>1. CASE \E row \in input : MaterializeMerge(row)
    BY <1>4, <2>1, NodeMerge DEF MaterializeRow
  <2>2. CASE \E row \in input : MaterializeCreate(row) \/ MaterializeDelete(row)
    <3>1. ~MergesNode(clause) /\ clause' = clause
      BY <2>2 DEF MaterializeCreate, MaterializeDelete, RowDone, MergesNode, Deletes
    <3> QED BY <3>1 DEF NodeInv
  <2> QED BY <1>4, <2>1, <2>2 DEF MaterializeRow
<1>5. CASE RowsDone
  <2>1. /\ mode = "rows" /\ mode' = "apply"
        /\ UNCHANGED <<tx, was, clause, events, params>>
    BY <1>5 DEF RowsDone
  <2> SUFFICES ASSUME MergesNode(clause) PROVE NodeInv'
    BY <2>1 DEF NodeInv
  <2>2. tx.edges = was.edges /\ tx.labels = was.labels /\ NodeFound /\ NodeMissed
    BY <2>1 DEF NodeInv
  <2>3. CASE Labelled(tx, MergeLabel) = {}
    <3>1. TakenOne(params)
      BY <2>2, <2>3 DEF NodeMissed
    <3>2. Before
      BY <2>2, <2>3, <3>1 DEF Before, TakenOne
    <3>3. Before'
      BY <2>1, <3>2 DEF Before, MergeLabel, Labelled
    <3> QED BY <2>1, <2>2, <3>3 DEF NodeInv
  <2>4. CASE Labelled(tx, MergeLabel) # {}
    <3>1. TakenThere
      BY <2>2, <2>4 DEF NodeFound
    <3>2. AddedVertices = {}
      BY <2>2 DEF AddedVertices
    <3>3. After'
      BY <2>1, <2>4, <3>1, <3>2 DEF After, TakenThere, AddedVertices, MergeLabel, Labelled
    <3> QED BY <2>1, <2>2, <3>3 DEF NodeInv
  <2> QED BY <2>3, <2>4
<1>6. CASE EndClause \/ Commit
  <2>1. UNCHANGED <<tx, was, clause, events, params>>
    BY <1>6 DEF EndClause, Commit
  <2>2. mode' = "idle" \/ (mode = "apply" /\ mode' = "clause")
    BY <1>6 DEF EndClause, Commit
  <2>3. (Before => Before') /\ (After => After')
    BY <2>1 DEF Before, After, TakenThere, AddedVertices, MergeLabel, Labelled
  <2> QED BY <2>1, <2>2, <2>3 DEF NodeInv
<1>7. CASE ApplyCreate \/ ApplyMergeBatch \/ ApplyMergeSimple \/ ApplyMergeEdge \/ ApplyMergeNothing
           \/ ApplyDelete
  <2>1. ~MergesNode(clause) /\ clause' = clause
    BY <1>7 DEF ApplyCreate, ApplyMergeBatch, ApplyMergeSimple, ApplyMergeEdge, ApplyMergeNothing,
                ApplyDelete, Applied, MergesNode, Deletes
  <2> QED BY <2>1 DEF NodeInv
<1>8. CASE ApplyMergeVertex BY <1>8, NodeApply
<1> QED BY <1>1, <1>2, <1>3, <1>4, <1>5, <1>6, <1>7, <1>8 DEF Next

\* MERGE matches or creates, and creates once for all the rows that ask for it
\* (expandWriteEventsForClause, applyMergeWriteEvent), whatever the graph and the
\* numbers.  That nothing was deleted before it and no label merged twice in a
\* request is needed: the answers a request keeps are then stale.
THEOREM MergesOnce == ASSUME Obeyed(MergesApart) PROVE Spec => []MergeCreatesOnce
<1>1. (Init => OrderInv(MergesApart)) /\ (Init => EnoughInv) /\ (Init => FindInv)
  BY OrderInit, EnoughInit, FindInit
<1>2. Init => HopInv /\ NodeInv
  BY DEF Init, HopInv, NodeInv
<1>3. TypeInv /\ OrderInv(MergesApart) /\ [Next]_vars => OrderInv(MergesApart)'
  BY OrderStep
<1>4. TypeInv /\ EnoughInv /\ [Next]_vars => EnoughInv'
  BY EnoughStep
<1>5. TypeInv /\ EnoughInv /\ OrderInv(MergesApart) /\ FindInv /\ [Next]_vars => FindInv'
  BY FindStep
<1>6. TypeInv /\ FindInv /\ HopInv /\ [Next]_vars => HopInv'
  BY HopStep
<1>7. TypeInv /\ FindInv /\ FindInv' /\ NodeInv /\ [Next]_vars => NodeInv'
  BY NodeStep
<1>8. HopInv /\ NodeInv => MergeCreatesOnce
  <2> SUFFICES ASSUME HopInv, NodeInv, Done({"MERGE"}) PROVE MergeCreatesOnce
    BY DEF MergeCreatesOnce
  <2>1. mode = "clause" /\ clause.op = "MERGE"
    BY DEF Done
  <2>2. CASE IsHop(clause.parts[1])
    <3>1. tx.labels = was.labels /\ Alone(was, tx, clause.parts[1].dir)
      BY <2>1, <2>2 DEF HopInv, MergesHop
    <3> QED BY <2>1, <2>2, <3>1 DEF MergeCreatesOnce, Alone, Ways, Added, AddedVertices
  <2>3. CASE ~IsHop(clause.parts[1])
    <3>1. tx.edges = was.edges /\ (Before \/ After)
      BY <2>1, <2>3 DEF NodeInv, MergesNode
    <3>2. Added = {}
      BY <3>1 DEF Added
    <3>3. AddedVertices # {} => Labelled(was, MergeLabel) = {} /\ \E v : AddedVertices = {v}
      BY <3>1 DEF Before, After, AddedVertices
    <3>4. AddedVertices # {} => Cardinality(AddedVertices) = 1
      BY <3>3, FS_Singleton
    <3> QED BY <2>3, <3>2, <3>3, <3>4 DEF MergeCreatesOnce, MergeLabel
  <2> QED BY <2>2, <2>3
<1> QED BY <1>1, <1>2, <1>3, <1>4, <1>5, <1>6, <1>7, <1>8, TypeAlways, PTL DEF Spec
=============================================================================
