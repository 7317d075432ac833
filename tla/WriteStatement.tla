--------------------------- MODULE WriteStatement ---------------------------
(***************************************************************************)
(* Requests that write: MATCH, CREATE, MERGE and DELETE of one tenant, one *)
(* edge type and nodes without properties, each request one transaction.   *)
(*                                                                         *)
(* A write clause has two halves.  The operator PHY_WRITE goes through the *)
(* rows, PREDICTS the ids its entities will have, binds them in the rows   *)
(* and records an event; the applier then reads the events one by one and  *)
(* decides for itself what exists and which ids are free.  The rows keep   *)
(* the prediction.  The prediction works from caches and counters that     *)
(* live as long as the request (state.Params); the applier's live as long  *)
(* as the clause.                                                          *)
(*                                                                         *)
(* Rows are a set: each comes from matches or creations of its own, so no  *)
(* two are equal, and the order in which a scan delivered them is any      *)
(* order.  Of the store a transaction shows its vertices and edges, the    *)
(* count of edges of the type as it was committed, and the pair counts     *)
(* with the cache their updates are computed from (see PebbleTx).          *)
(***************************************************************************)
EXTENDS Integers, Sequences, FiniteSets

CONSTANTS
    Graphs,     \* graphs to begin with: [labels, edges]
    Programs,   \* sequences of requests, a request being a sequence of clauses
    MaxNumber   \* bound: the numbers ids are made with

Anon    == ""
NoLabel == "-"
NoHop   == "no hop"
Num     == 1 .. MaxNumber

(***************************************************************************)
(* Clauses.  A part of a pattern is a node, or two nodes and a hop.        *)
(***************************************************************************)
Node(x, lab) == [var |-> x, label |-> lab]
Single(x, lab) ==
    [left |-> Node(x, lab), hop |-> NoHop, dir |-> "out", right |-> Node(Anon, NoLabel)]
Edge(x, r, dir, y) ==
    [left |-> Node(x, NoLabel), hop |-> r, dir |-> dir, right |-> Node(y, NoLabel)]
Match(part)   == [op |-> "MATCH", parts |-> <<part>>]
Create(parts) == [op |-> "CREATE", parts |-> parts]
Merge(part)   == [op |-> "MERGE", parts |-> <<part>>]
Delete(vars)  == [op |-> "DELETE", vars |-> vars]
Detach(vars)  == [op |-> "DETACH DELETE", vars |-> vars]

IsHop(part) == part.hop # NoHop
Deletes(c) == c.op \in {"DELETE", "DETACH DELETE"}

(***************************************************************************)
(* Ids.  The number of an edge id tells those of one pair apart: 0 is the  *)
(* plain id tenant|source|type|target, n the one with suffix auto-e-n.     *)
(***************************************************************************)
AutoVertex(n)         == <<"auto-v", n>>
MergeVertex(n)        == <<"auto-mv", n>>
WriteVertex(nth, n)   == <<"write-v", nth, n>>      \* made unique by the clock
EdgeId(a, b, n)       == <<"e", a, b, n>>
UnplacedEdge(n)       == <<"auto-e", n>>
IsPlain(id)           == id[1] = "e" /\ id[4] = 0

VARIABLES
    store,      \* what is committed
    tx,         \* the transaction's view, with its cache and pending count
    todo,       \* the requests to come
    clauses,    \* the clauses of the running request to come
    clause,     \* the clause that runs or ran last
    was,        \* the graph when it began
    rows,       \* state.Rows
    input,      \* rows the write operator has not come to
    params,     \* what state.Params keeps for the request
    events,     \* events recorded and not applied
    scratch,    \* the applier's counters and caches for the clause
    mode        \* "idle", "clause" between clauses, "rows", "apply"

vars == <<store, tx, todo, clauses, clause, was, rows, input, params, events,
          scratch, mode>>

Put(f, x, v) == [y \in DOMAIN f \cup {x} |-> IF y = x THEN v ELSE f[y]]
Only(f, S)   == [x \in DOMAIN f \cap S |-> f[x]]
At(f, x, default) == IF x \in DOMAIN f THEN f[x] ELSE default
Nothing == [x \in {} |-> 0]
EmptyRow == [at |-> Nothing, id |-> Nothing, gone |-> {}]

Least(S) == {n \in S : \A m \in S : n <= m}

---------------------------------------------------------------------------
(* Assumptions.  Names of nodes and names of hops are apart; a MATCH names  *)
(* all of its part, and its nodes apart.                                    *)

Nodes == [var : STRING, label : STRING]
Parts == [left : Nodes, hop : STRING, dir : {"out", "any"}, right : Nodes]
Clauses ==
    [op : {"MATCH", "CREATE", "MERGE"}, parts : Seq(Parts)]
    \cup [op : {"DELETE", "DETACH DELETE"}, vars : SUBSET STRING]
NodesOf(part) == IF IsHop(part) THEN {part.left, part.right} ELSE {part.left}

\* the clauses of all requests, and the names of their hops
AllClauses == UNION {UNION {{q[j] : j \in DOMAIN q} : q \in {prog[i] : i \in DOMAIN prog}} :
                     prog \in Programs}
AllParts == UNION {{c.parts[k] : k \in DOMAIN c.parts} : c \in {d \in AllClauses : ~Deletes(d)}}
HopNames == {part.hop : part \in {p \in AllParts : IsHop(p)}} \ {Anon}

ASSUME NumberAssumption == MaxNumber \in Nat

\* graphs the store can hold: edges join vertices, and their ids say which
ASSUME GraphAssumption ==
    \A g \in Graphs :
        /\ IsFiniteSet(DOMAIN g.labels) /\ IsFiniteSet(DOMAIN g.edges)
        /\ \A v \in DOMAIN g.labels : v[1] \notin {"e", "auto-e", "none"}
        /\ \A e \in DOMAIN g.edges :
              /\ e = EdgeId(e[2], e[3], e[4]) /\ e[4] \in Nat /\ g.edges[e] = <<e[2], e[3]>>
              /\ {e[2], e[3]} \subseteq DOMAIN g.labels

ASSUME ProgramAssumption ==
    /\ Programs \subseteq Seq(Seq(Clauses))
    /\ \A c \in AllClauses : c.op \in {"MATCH", "MERGE"} => Len(c.parts) = 1
    /\ \A part \in AllParts : \A node \in NodesOf(part) : node.var \notin HopNames
    /\ \A c \in AllClauses : c.op = "MATCH" =>
          /\ \A node \in NodesOf(c.parts[1]) : Anon \notin {node.var, c.parts[1].hop}
          /\ IsHop(c.parts[1]) => c.parts[1].left.var # c.parts[1].right.var

---------------------------------------------------------------------------
(* The store *)

Between(s, a, b) == {e \in DOMAIN s.edges : s.edges[e] = <<a, b>>}
\* Wrong: the edges that end in V are not looked for.
OutOf(s, V) == {e \in DOMAIN s.edges : s.edges[e][1] \in V}

Incident(s, V) == {e \in DOMAIN s.edges : s.edges[e][1] \in V \/ s.edges[e][2] \in V}
Labelled(s, lab) == {v \in DOMAIN s.labels : lab = NoLabel \/ lab \in s.labels[v]}
LabelSet(lab) == {lab} \ {NoLabel}

\* a pair count is computed from the value cached when it was first found, and
\* the cache is not refreshed by the write
PairAdjusted(s, p, d) ==
    LET n == At(s.base, p, At(s.pairs, p, 0)) + d
    IN  [s EXCEPT !.base = IF p \in DOMAIN s.pairs /\ p \notin DOMAIN s.base
                           THEN Put(s.base, p, s.pairs[p]) ELSE s.base,
                  !.pairs = IF n <= 0 THEN Only(s.pairs, DOMAIN s.pairs \ {p})
                            ELSE Put(s.pairs, p, n)]

PutVertex(s, v, lab) == [s EXCEPT !.labels = Put(s.labels, v, LabelSet(lab))]

PutEdgeNew(s, e, a, b) ==
    LET r == PairAdjusted(s, <<a, b>>, 1)
    IN  [r EXCEPT !.edges = Put(r.edges, e, <<a, b>>), !.pending = r.pending + 1]

\* one plain edge for each pair, whatever is there under its id
PutEdgeNewBatch(s, P) ==
    LET NewCount(p) == At(s.base, p, At(s.pairs, p, 0)) + 1
    IN  [s EXCEPT
           !.edges = [e \in DOMAIN s.edges \cup {EdgeId(p[1], p[2], 0) : p \in P} |->
                        IF e \in DOMAIN s.edges THEN s.edges[e] ELSE <<e[2], e[3]>>],
           !.base = [p \in DOMAIN s.base \cup (P \cap DOMAIN s.pairs) |->
                        At(s.base, p, At(s.pairs, p, 0))],
           !.pairs = [p \in DOMAIN s.pairs \cup P |->
                        IF p \in P THEN NewCount(p) ELSE s.pairs[p]],
           !.pending = s.pending + Cardinality(P)]

EdgesDeleted(s, E) ==
    LET pairs == {s.edges[e] : e \in E}
        NewCount(p) == At(s.base, p, At(s.pairs, p, 0)) - Cardinality(Between(s, p[1], p[2]) \cap E)
    IN  [s EXCEPT
           !.edges = Only(s.edges, DOMAIN s.edges \ E),
           !.base = [p \in DOMAIN s.base \cup (pairs \cap DOMAIN s.pairs) |->
                        At(s.base, p, At(s.pairs, p, 0))],
           !.pairs = [p \in {q \in DOMAIN s.pairs \cup pairs : q \in pairs => NewCount(q) > 0} |->
                        IF p \in pairs THEN NewCount(p) ELSE s.pairs[p]],
           !.pending = s.pending - Cardinality(E)]

Emptied(s) ==
    [s EXCEPT !.labels = Nothing, !.edges = Nothing, !.counted = 0, !.pairs = Nothing,
              !.base = Nothing, !.pending = 0]

VerticesDeleted(s, V) ==
    [s EXCEPT !.labels = Only(s.labels, DOMAIN s.labels \ V)]

\* DeleteVertexDetachBatch: all vertices at once are a purge
Detached(s, V) ==
    IF V # {} /\ DOMAIN s.labels \subseteq V THEN Emptied(s)
    ELSE VerticesDeleted(EdgesDeleted(s, Incident(s, V \cap DOMAIN s.labels)), V)

\* Wrong: the undirected pair count is read.
HasEdgeBetween(s, a, b) == {<<a, b>>, <<b, a>>} \cap DOMAIN s.pairs # {}

\* a pair count that is there is believed; without one the edges are looked up
HasDirectedEdgeBetween(s, a, b) == <<a, b>> \in DOMAIN s.pairs \/ Between(s, a, b) # {}

View(s) ==
    [labels |-> s.labels, edges |-> s.edges, counted |-> s.counted, pairs |-> s.pairs,
     base |-> Nothing, pending |-> 0]
\* Wrong: the increments replace the count.
FlushedOver(s) ==
    [labels |-> s.labels, edges |-> s.edges, pairs |-> s.pairs,
     counted |-> IF s.pending < 0 THEN 0 ELSE s.pending]

Flushed(s) ==
    [labels |-> s.labels, edges |-> s.edges, pairs |-> s.pairs,
     counted |-> IF s.counted + s.pending < 0 THEN 0 ELSE s.counted + s.pending]
Graph(s) == [labels |-> s.labels, edges |-> s.edges]

---------------------------------------------------------------------------
(* Reading *)

\* a MATCH of one part, as MatchRows shows the operator to answer it
Matches(s, row, part) ==
    LET Fits(x, v) == x \in DOMAIN row.at => row.at[x] = v
        Way(e) == CASE part.dir = "out" -> {s.edges[e]}
                    [] OTHER -> {s.edges[e], <<s.edges[e][2], s.edges[e][1]>>}
    IN  IF ~IsHop(part)
        THEN {[row EXCEPT !.at = Put(row.at, part.left.var, v)] :
                 v \in {w \in Labelled(s, part.left.label) : Fits(part.left.var, w)}}
        ELSE UNION {{[row EXCEPT !.at = Put(Put(Put(row.at, part.left.var, w[1]),
                                                part.right.var, w[2]), part.hop, e)] :
                        w \in {u \in Way(e) : /\ Fits(part.left.var, u[1])
                                              /\ Fits(part.right.var, u[2])}} :
                    e \in {d \in DOMAIN s.edges : Fits(part.hop, d)}}

---------------------------------------------------------------------------
(* Prediction: PHY_WRITE *)

NewParams(nth) ==
    [nth |-> nth, nextV |-> 0, nextMV |-> 0, nextE |-> 0, counts |-> Nothing,
     found |-> Nothing, made |-> Nothing, goneV |-> {}, goneE |-> {}]
None == <<"none">>
Named(at, x, v) == IF x = Anon THEN at ELSE Put(at, x, v)

\* the nodes a CREATE names and the row does not bind get an id at once
CreateNode(r, node) ==
    IF node.var = Anon \/ node.var \in DOMAIN r.row.at THEN r
    ELSE [r EXCEPT !.row.at = Put(r.row.at, node.var, WriteVertex(r.params.nth, r.params.nextV + 1)),
                   !.params.nextV = r.params.nextV + 1]

\* An edge gets the plain id or the n-th of its pair in this request, without
\* a look at the store; when an end was not bound before the clause, an id that
\* no edge will have.
CreateEdge(r, at, part) ==
    LET a == part.left.var
        b == part.right.var
        p == <<At(at, a, None), At(at, b, None)>>
        n == At(r.params.counts, p, 0) + 1
    IN  IF ~IsHop(part) \/ part.hop = Anon THEN r
        ELSE IF a \in DOMAIN at /\ b \in DOMAIN at
        THEN [r EXCEPT !.params.counts = Put(r.params.counts, p, n),
                       !.row.at = Put(r.row.at, part.hop,
                                      EdgeId(p[1], p[2], IF n = 1 THEN 0 ELSE n))]
        ELSE [r EXCEPT !.params.nextE = r.params.nextE + 1,
                       !.row.at = Put(r.row.at, part.hop, UnplacedEdge(r.params.nextE + 1))]

CreatePart(r, part) ==
    LET left  == CreateNode(r, part.left)
        nodes == IF IsHop(part) THEN CreateNode(left, part.right) ELSE left
    IN  CreateEdge(nodes, r.row.at, part)

\* the row and the parameters after each number of parts
CreatedAfter(r, parts) ==
    LET after[i \in 0 .. Len(parts)] == IF i = 0 THEN r ELSE CreatePart(after[i - 1], parts[i])
    IN  after

\* the vertex a MERGE of a node expects to match: looked up once for a label and
\* remembered, a miss included, unless it has been deleted since
Lookup(s, p, lab) ==
    LET fit == Labelled(s, lab) \ p.goneV
        new == IF fit = {} THEN {None} ELSE fit
    IN  IF lab \notin DOMAIN p.found THEN new
        ELSE IF p.found[lab] = None THEN {None}
        ELSE IF p.found[lab] \in p.goneV THEN new
        ELSE {p.found[lab]}

\* a miss gets an id numbered from 1 in every request, one for each name and label
MergeNode(s, r, node) ==
    LET key == <<node.var, node.label>>
        id  == At(r.params.made, key, MergeVertex(r.params.nextMV + 1))
        n   == IF key \in DOMAIN r.params.made THEN r.params.nextMV ELSE r.params.nextMV + 1
        found(v) == Put(r.params.found, node.label, v)
        Hit(v) == [r EXCEPT !.params.found = found(v), !.row.at = Named(r.row.at, node.var, v)]
        Unnamed == [r EXCEPT !.params.found = found(None)]
        Miss == [r EXCEPT !.params.found = found(None), !.params.nextMV = n,
                          !.params.made = Put(r.params.made, key, id),
                          !.row.at = Put(r.row.at, node.var, id)]
    IN  {IF v # None THEN Hit(v) ELSE IF node.var = Anon THEN Unnamed ELSE Miss :
            v \in Lookup(s, r.params, node.label)}

\* A MERGE of a named, directed hop goes on with a row for each edge there is,
\* kept apart by the name's own id; the name itself has the plain id in all.
MergeEdge(s, r, part) ==
    LET at == r.row.at
        a == At(at, part.left.var, None)
        b == At(at, part.right.var, None)
        there == IF part.dir = "out" /\ r.params.goneE = {} THEN Between(s, a, b) ELSE {}
        ids == IF there = {} THEN {EdgeId(a, b, 0)} ELSE there
    IN  IF part.hop = Anon \/ None \in {a, b} THEN {r.row}
        ELSE {[r.row EXCEPT !.at = Put(@, part.hop, EdgeId(a, b, 0)),
                            !.id = Put(@, part.hop, e)] : e \in ids}

\* Wrong: the request does not learn what the row has deleted.
TombstonesOfRow(s, r, names) ==
    [r EXCEPT !.row.gone = @ \cup ({r.row.at[x] : x \in names \cap DOMAIN r.row.at}
                                  \cap DOMAIN s.edges)]

\* the entities a DELETE names are remembered, in the row and in the request
Tombstones(s, r, names) ==
    LET ids == {r.row.at[x] : x \in names \cap DOMAIN r.row.at}
        es  == ids \cap DOMAIN s.edges
    IN  [r EXCEPT !.row.gone = r.row.gone \cup es,
                  !.params.goneE = r.params.goneE \cup es,
                  !.params.goneV = r.params.goneV \cup (ids \ es)]

\* the events of a set of rows follow one another in some order
Listings(S) == {l \in [1 .. Cardinality(S) -> S] : \A x \in S : \E i \in DOMAIN l : l[i] = x}

Event(c, part, row) == [op |-> c.op, part |-> part, at |-> row.at, gone |-> row.gone]
NoPart == Single(Anon, NoLabel)

---------------------------------------------------------------------------
(* Application *)

NewScratch == [autoV |-> 0, cache |-> Nothing, known |-> {}, gone |-> {}]

\* Wrong: the next number is not looked up.
EnsureVertexUnread(s, n, node, at) ==
    IF node.var \in DOMAIN at
    THEN {[s |-> IF at[node.var] \in DOMAIN s.labels THEN s
                 ELSE PutVertex(s, at[node.var], node.label),
           n |-> n, id |-> at[node.var]]}
    ELSE {[s |-> PutVertex(s, AutoVertex(n + 1), node.label), n |-> n + 1,
           id |-> AutoVertex(n + 1)]}

\* outcomes [s, n, id] of finding or making the vertex of a node of a CREATE: a
\* bound vertex that is gone is written again, with the labels of the pattern
EnsureVertex(s, n, node, at) ==
    IF node.var \in DOMAIN at
    THEN {[s |-> IF at[node.var] \in DOMAIN s.labels THEN s
                 ELSE PutVertex(s, at[node.var], node.label),
           n |-> n, id |-> at[node.var]]}
    ELSE {[s |-> PutVertex(s, AutoVertex(m), node.label), n |-> m, id |-> AutoVertex(m)] :
             m \in Least({k \in Num : k > n /\ AutoVertex(k) \notin DOMAIN s.labels})}

\* Wrong: every edge of the pair is given the plain id.
PlainNumber(s, a, b) == {0}

\* the first free number of the pair, where 1 is not used
CreateNumbers(s, a, b) ==
    Least({k \in {0} \cup Num : k # 1 /\ EdgeId(a, b, k) \notin DOMAIN s.edges})

EdgeCreated(l, r) ==
    {[s |-> PutEdgeNew(r.s, EdgeId(l.id, r.id, k), l.id, r.id), n |-> r.n] :
        k \in CreateNumbers(r.s, l.id, r.id)}

\* outcomes of a part of a CREATE
Created(s, n, e) ==
    LET lefts == EnsureVertex(s, n, e.part.left, e.at)
        rights(l) == EnsureVertex(l.s, l.n, e.part.right, Named(e.at, e.part.left.var, l.id))
    IN  IF ~IsHop(e.part) THEN {[s |-> l.s, n |-> l.n] : l \in lefts}
        ELSE UNION {UNION {EdgeCreated(l, r) : r \in rights(l)} : l \in lefts}

\* Wrong: the id predicted for a MERGE is not one the applier knows.
IsPredictedByCreate(id) == id[1] = "write-v"

IsPredicted(id) == id[1] \in {"write-v", "auto-mv"}

\* outcomes of a MERGE of a node.  A predicted id is taken if its vertex matches,
\* dropped if it does not, and written, without a search, if it is not there.
MergedVertex(s, sc, e) ==
    LET lab == e.part.left.label
        bound == At(e.at, e.part.left.var, None)
        id == IF IsPredicted(bound) THEN bound ELSE None
        cached == id = None /\ lab \in DOMAIN sc.cache
        Is(v, t) == [s |-> t, scratch |-> IF id = None THEN [sc EXCEPT !.cache = Put(@, lab, v)]
                                          ELSE sc]
        fit == Labelled(s, lab)
    IN  IF cached \/ id \in fit THEN {[s |-> s, scratch |-> sc]}
        ELSE IF id # None /\ id \notin DOMAIN s.labels
        THEN {Is(id, PutVertex(s, id, lab))}
        ELSE IF fit # {} THEN {Is(v, s) : v \in fit}
        ELSE {[Is(AutoVertex(k), PutVertex(s, AutoVertex(k), lab)) EXCEPT !.scratch.autoV = k] :
                 k \in Least({m \in Num : m > sc.autoV /\ AutoVertex(m) \notin DOMAIN s.labels})}

\* Wrong: a hop without direction is looked for one way.
MergedEdgeOneWay(s, gone, part, a, b) ==
    IF Between(s, a, b) \ gone # {} THEN {s}
    ELSE {PutEdgeNew(s, EdgeId(a, b, k), a, b) :
             k \in Least({m \in {0} \cup Num : EdgeId(a, b, m) \notin DOMAIN s.edges \cup gone})}

\* outcomes of a MERGE of a hop that has a name or no direction: edges that this
\* row or a row before it has among its deletions are passed over
MergedEdge(s, gone, part, a, b) ==
    LET there(x, y) == Between(s, x, y) \ gone # {}
        taken == DOMAIN s.edges \cup gone
    IN  IF there(a, b) \/ (part.dir = "any" /\ there(b, a)) THEN {s}
        ELSE {PutEdgeNew(s, EdgeId(a, b, k), a, b) :
                 k \in Least({m \in {0} \cup Num : EdgeId(a, b, m) \notin taken})}

IsSimple(part) == part.hop = Anon /\ part.dir = "out"
Ends(e) == <<At(e.at, e.part.left.var, None), At(e.at, e.part.right.var, None)>>
Placed(e) == None \notin {Ends(e)[1], Ends(e)[2]}

\* The name in a DELETE: a plain id stands for the first edge of its pair.
Resolved(s, id) ==
    IF IsPlain(id) /\ Between(s, id[2], id[3]) # {}
    THEN CHOOSE e \in Between(s, id[2], id[3]) :
            \A d \in Between(s, id[2], id[3]) : e[4] <= d[4]
    ELSE id

\* Wrong: only the first event of the batch is read.
DoomedFirst(s, es, names) ==
    {Resolved(s, es[1].at[x]) : x \in names \cap DOMAIN es[1].at}

Doomed(s, es, names) ==
    {Resolved(s, es[p[1]].at[p[2]]) :
        p \in {q \in (DOMAIN es) \X names : q[2] \in DOMAIN es[q[1]].at}}

---------------------------------------------------------------------------

Init ==
    /\ \E g \in Graphs :
          store = [labels |-> g.labels, edges |-> g.edges,
                   counted |-> Cardinality(DOMAIN g.edges),
                   pairs |-> [p \in {g.edges[e] : e \in DOMAIN g.edges} |->
                                Cardinality(Between(g, p[1], p[2]))]]
    /\ tx = View(store)
    /\ todo \in Programs
    /\ clauses = <<>> /\ clause = Match(NoPart) /\ was = Graph(store)
    /\ rows = {} /\ input = {}
    /\ params = NewParams(Len(todo)) /\ events = <<>> /\ scratch = NewScratch
    /\ mode = "idle"

Begin ==
    /\ mode = "idle" /\ todo # <<>>
    /\ clauses' = Head(todo) /\ todo' = Tail(todo)
    /\ tx' = View(store)
    /\ rows' = {} /\ input' = {} /\ events' = <<>> /\ scratch' = NewScratch
    /\ params' = NewParams(Len(todo))
    /\ clause' = Match(NoPart) /\ was' = Graph(store)
    /\ mode' = "clause"
    /\ UNCHANGED store

\* a clause that is given no rows starts from one empty row
Given == IF rows = {} THEN {EmptyRow} ELSE rows

ClauseBegins ==
    /\ mode = "clause" /\ clauses # <<>>
    /\ clause' = Head(clauses) /\ clauses' = Tail(clauses) /\ was' = Graph(tx)

ExecuteMatch ==
    /\ ClauseBegins /\ Head(clauses).op = "MATCH"
    /\ rows' = UNION {Matches(tx, row, Head(clauses).parts[1]) : row \in Given}
    /\ UNCHANGED <<store, tx, todo, input, params, events, scratch, mode>>

ExecuteWrite ==
    /\ ClauseBegins /\ Head(clauses).op # "MATCH"
    /\ input' = Given /\ rows' = {}
    /\ events' = <<>> /\ scratch' = NewScratch
    /\ mode' = "rows"
    /\ UNCHANGED <<store, tx, todo, params>>

\* the next row is done: it goes on as the rows R, with the events es
RowDone(row, R, p, es) ==
    /\ input' = input \ {row} /\ rows' = rows \cup R
    /\ params' = p /\ events' = events \o es
    /\ UNCHANGED <<store, tx, todo, clauses, clause, was, scratch, mode>>

\* CREATE: part after part, each with an event of its own
MaterializeCreate(row) ==
    /\ clause.op = "CREATE"
    /\ LET n == Len(clause.parts)
           after == CreatedAfter([row |-> row, params |-> params], clause.parts)
       IN  RowDone(row, {after[n].row}, after[n].params,
                   [i \in 1 .. n |-> Event(clause, clause.parts[i], after[i].row)])

MaterializeMerge(row) ==
    /\ clause.op = "MERGE"
    /\ LET part == clause.parts[1]
           r == [row |-> row, params |-> params]
       IN  IF IsHop(part)
           THEN \E list \in Listings(MergeEdge(tx, r, part)) :
                   RowDone(row, MergeEdge(tx, r, part), params,
                           [i \in DOMAIN list |-> Event(clause, part, list[i])])
           ELSE \E m \in MergeNode(tx, r, part.left) :
                   RowDone(row, {m.row}, m.params, <<Event(clause, part, m.row)>>)

MaterializeDelete(row) ==
    /\ Deletes(clause)
    /\ LET r == Tombstones(tx, [row |-> row, params |-> params], clause.vars)
       IN  RowDone(row, {r.row}, r.params, <<Event(clause, NoPart, r.row)>>)

MaterializeRow ==
    /\ mode = "rows"
    /\ \E row \in input :
          MaterializeCreate(row) \/ MaterializeMerge(row) \/ MaterializeDelete(row)

RowsDone ==
    /\ mode = "rows" /\ input = {}
    /\ mode' = "apply"
    /\ UNCHANGED <<store, tx, todo, clauses, clause, was, rows, input, params, events, scratch>>

\* the event at the head, with outcome t for the store
Applied(t) ==
    /\ mode = "apply" /\ events # <<>>
    /\ tx' = t /\ events' = Tail(events)
    /\ UNCHANGED <<store, todo, clauses, clause, was, rows, input, params, mode>>

ApplyCreate ==
    /\ clause.op = "CREATE"
    /\ events # <<>>
    /\ \E c \in Created(tx, scratch.autoV, Head(events)) :
          Applied(c.s) /\ scratch' = [scratch EXCEPT !.autoV = c.n]

ApplyMergeVertex ==
    /\ clause.op = "MERGE" /\ ~IsHop(clause.parts[1])
    /\ events # <<>>
    /\ \E m \in MergedVertex(tx, scratch, Head(events)) : Applied(m.s) /\ scratch' = m.scratch

\* unnamed directed hops of a type of which none was counted when the
\* transaction began: as many events as have both ends at once, no edge is looked up
IsBatch == IsSimple(clause.parts[1]) /\ tx.counted = 0

ApplyMergeBatch ==
    /\ clause.op = "MERGE" /\ IsHop(clause.parts[1]) /\ IsBatch
    /\ mode = "apply" /\ events # <<>> /\ Placed(Head(events))
    /\ \E n \in DOMAIN events :
          /\ \A i \in 1 .. n : Placed(events[i])
          /\ n < Len(events) => ~Placed(events[n + 1])
          /\ tx' = PutEdgeNewBatch(tx, {Ends(events[i]) : i \in 1 .. n})
          /\ events' = SubSeq(events, n + 1, Len(events))
    /\ UNCHANGED <<store, todo, clauses, clause, was, rows, input, params, scratch, mode>>

\* unnamed directed hops otherwise: an answer is kept for the clause
ApplyMergeSimple ==
    /\ clause.op = "MERGE" /\ IsHop(clause.parts[1]) /\ IsSimple(clause.parts[1])
    /\ tx.counted > 0 /\ events # <<>> /\ Placed(Head(events))
    /\ LET p == Ends(Head(events))
           there == p \in scratch.known \/ HasDirectedEdgeBetween(tx, p[1], p[2])
                    \/ EdgeId(p[1], p[2], 0) \in DOMAIN tx.edges
       IN  /\ Applied(IF there THEN tx ELSE PutEdgeNew(tx, EdgeId(p[1], p[2], 0), p[1], p[2]))
           /\ scratch' = [scratch EXCEPT !.known = @ \cup {p}]

ApplyMergeEdge ==
    /\ clause.op = "MERGE" /\ IsHop(clause.parts[1]) /\ ~IsSimple(clause.parts[1])
    /\ events # <<>> /\ Placed(Head(events))
    /\ LET e == Head(events)
           gone == scratch.gone \cup e.gone
       IN  \E t \in MergedEdge(tx, gone, e.part, Ends(e)[1], Ends(e)[2]) :
              Applied(t) /\ scratch' = [scratch EXCEPT !.gone = gone]

\* an end that is not bound: nothing is written
ApplyMergeNothing ==
    /\ clause.op = "MERGE" /\ IsHop(clause.parts[1])
    /\ events # <<>> /\ ~Placed(Head(events))
    /\ Applied(tx) /\ UNCHANGED scratch

\* DELETE: the events of a clause are applied together, edges before vertices; an
\* id that names no edge is treated as a vertex
DeletedEdges == Doomed(tx, events, clause.vars) \cap DOMAIN tx.edges
DeletedVertices == Doomed(tx, events, clause.vars) \ DOMAIN tx.edges
WithoutEdges == EdgesDeleted(tx, DeletedEdges)
Connected == Incident(WithoutEdges, DeletedVertices) # {}

ApplyDelete ==
    /\ mode = "apply" /\ events # <<>> /\ Deletes(clause)
    /\ clause.op = "DELETE" => ~Connected
    /\ tx' = IF clause.op = "DELETE" THEN VerticesDeleted(WithoutEdges, DeletedVertices)
             ELSE Detached(WithoutEdges, DeletedVertices)
    /\ events' = <<>>
    /\ UNCHANGED <<store, todo, clauses, clause, was, rows, input, params, scratch, mode>>

EndClause ==
    /\ mode = "apply" /\ events = <<>>
    /\ mode' = "clause"
    /\ UNCHANGED <<store, tx, todo, clauses, clause, was, rows, input, params, events, scratch>>

Commit ==
    /\ mode = "clause" /\ clauses = <<>>
    /\ store' = Flushed(tx) /\ mode' = "idle"
    /\ UNCHANGED <<tx, todo, clauses, clause, was, rows, input, params, events, scratch>>

\* a vertex with edges is not deleted: the request fails and nothing is written
Fail ==
    /\ mode = "apply" /\ events # <<>> /\ clause.op = "DELETE" /\ Connected
    /\ tx' = View(store) /\ mode' = "idle" /\ rows' = {} /\ events' = <<>>
    /\ UNCHANGED <<store, todo, clauses, clause, was, input, params, scratch>>

Next ==
    \/ Begin \/ ExecuteMatch \/ ExecuteWrite \/ MaterializeRow \/ RowsDone
    \/ ApplyCreate \/ ApplyMergeVertex \/ ApplyMergeBatch \/ ApplyMergeSimple
    \/ ApplyMergeEdge \/ ApplyMergeNothing \/ ApplyDelete
    \/ EndClause \/ Commit \/ Fail

Spec == Init /\ [][Next]_vars
---------------------------------------------------------------------------
(* What the requests of a program may be made of, where a property needs   *)
(* it: every two clauses of a request, the earlier and the later one, are  *)
(* one of the pairs R.                                                     *)

Ordered(q, R) == \A j, k \in DOMAIN q : j < k => <<q[j], q[k]>> \in R
Obeyed(R) == \A prog \in Programs : \A i \in DOMAIN prog : Ordered(prog[i], R)

MergesNode(c)   == c.op = "MERGE" /\ ~IsHop(c.parts[1])
MergesHop(c)    == c.op = "MERGE" /\ IsHop(c.parts[1])
MergesSimple(c) == MergesHop(c) /\ IsSimple(c.parts[1])
MakesHops(c)    == c.op \in {"CREATE", "MERGE"} /\ \E k \in DOMAIN c.parts : IsHop(c.parts[k])
NamesNoHop(c)   == \A k \in DOMAIN c.parts : c.parts[k].hop \in {Anon, NoHop}
DeletesHop(c)   == Deletes(c) /\ c.vars \cap HopNames # {}

\* no vertex is deleted before a relationship is merged
EndsKept == {p \in AllClauses \X AllClauses :
                Deletes(p[1]) /\ MergesHop(p[2]) => p[1].vars \subseteq HopNames}

\* a relationship is deleted by the name a MATCH gave it, and nothing that was
\* read before is deleted first
HopsMatched == {p \in AllClauses \X AllClauses :
                   DeletesHop(p[2]) => ~Deletes(p[1]) /\ (p[1].op # "MATCH" => NamesNoHop(p[1]))}

\* nothing is merged after a deletion, and no label twice
MergesApart == {p \in AllClauses \X AllClauses :
                   /\ Deletes(p[1]) => p[2].op # "MERGE"
                   /\ MergesNode(p[1]) /\ MergesNode(p[2]) =>
                         p[1].parts[1].left.label # p[2].parts[1].left.label}

\* only one clause deletes and it is the last that touches a relationship; a
\* hop without a name is merged before any other is made
CountsKept == {p \in AllClauses \X AllClauses :
                  /\ Deletes(p[1]) => ~Deletes(p[2]) /\ ~MakesHops(p[2])
                  /\ MakesHops(p[1]) => ~MergesSimple(p[2])}

\* The names a clause binds, and those a CREATE or a MERGE gives, of relationships
\* and of nodes that stand alone: the parser rejects one that is bound already, by
\* an earlier clause or an earlier part (validatePatternBindings).
PartBinds(part) ==
    ({node.var : node \in NodesOf(part)} \cup (IF IsHop(part) THEN {part.hop} ELSE {})) \ {Anon}
PartsBind(c) == UNION {PartBinds(c.parts[k]) : k \in DOMAIN c.parts}
NamesIn(c) == IF Deletes(c) THEN {} ELSE PartsBind(c)
Gives(part) == (IF IsHop(part) THEN {part.hop} ELSE {part.left.var}) \ {Anon}
GivenBy(c) == IF c.op \in {"CREATE", "MERGE"}
              THEN UNION {Gives(c.parts[k]) : k \in DOMAIN c.parts} ELSE {}
NamesNew == {p \in AllClauses \X AllClauses : NamesIn(p[1]) \cap GivenBy(p[2]) = {}}
NamesApart == \A c \in AllClauses : c.op = "CREATE" =>
                 \A j, k \in DOMAIN c.parts :
                    j < k => PartBinds(c.parts[j]) \cap Gives(c.parts[k]) = {}

\* nothing is deleted before a CREATE that names a relationship
NamesHop(c) == \E k \in DOMAIN c.parts : IsHop(c.parts[k]) /\ c.parts[k].hop # Anon
HopsFirst == {p \in AllClauses \X AllClauses :
                 Deletes(p[1]) => ~(p[2].op = "CREATE" /\ NamesHop(p[2]))}

\* the store does not begin with the ids a CREATE predicts
GraphsFresh == \A g \in Graphs : \A v \in DOMAIN g.labels : v[1] # "write-v"

\* a DETACH DELETE names vertices or relationships
DetachesApart == \A c \in AllClauses : c.op = "DETACH DELETE" =>
                    c.vars \cap HopNames = {} \/ c.vars \subseteq HopNames

---------------------------------------------------------------------------
(* Properties *)

IsGraph(g) == \A e \in DOMAIN g.edges : e = EdgeId(g.edges[e][1], g.edges[e][2], e[4])

\* Type invariant: edge ids name the ends of their edges; what a request has
\* not begun or has finished leaves nothing to apply
TypeOK ==
    /\ IsGraph(store) /\ IsGraph(tx) /\ IsGraph(was)
    /\ \A p \in DOMAIN tx.pairs : tx.pairs[p] > 0
    /\ mode \in {"idle", "clause", "rows", "apply"}
    /\ (mode # "rows" => input = {}) /\ (mode \in {"idle", "clause"} => events = <<>>)
    /\ \A row \in rows \cup input :
          DOMAIN row.id \subseteq DOMAIN row.at /\ row.gone \subseteq params.goneE

Added == DOMAIN tx.edges \ DOMAIN was.edges
AddedVertices == DOMAIN tx.labels \ DOMAIN was.labels
Done(ops) == mode = "clause" /\ clause.op \in ops

\* The edges of the graph join vertices of the graph, in programs whose requests
\* delete no vertex before they merge a relationship (EndsKept): no write of an edge
\* reads its ends (putCreatePatternEdge, applyMergeEdgeWriteEvent,
\* tryBatchApplyZeroTypeSimpleMergeEdges).  In the order left out, DETACH DELETE a and
\* then MERGE (a)-[:T]->(b), the row keeps the id of a and the edge lacks that end
NoDangling ==
    mode \in {"idle", "clause"} =>
        \A e \in DOMAIN tx.edges : {tx.edges[e][1], tx.edges[e][2]} \subseteq DOMAIN tx.labels

\* CREATE makes for every row every relationship of its pattern, and one each,
\* though all rows take their ids from one set (putCreatePatternEdge)
CreateMakesAll ==
    Done({"CREATE"}) =>
        LET hops == {i \in DOMAIN clause.parts : IsHop(clause.parts[i])}
        IN  /\ Cardinality(Added) = Cardinality(rows) * Cardinality(hops)
            /\ \A row \in rows : \A i \in hops :
                  LET a == clause.parts[i].left.var
                      b == clause.parts[i].right.var
                  IN  (a # Anon /\ b # Anon) =>
                          \E e \in Added : tx.edges[e] = <<row.at[a], row.at[b]>>

\* MERGE matches or creates: what it adds was not there before it, and it adds
\* it once for all the rows that ask for it, though each row is looked up before
\* anything is written and applied one after the other (expandWriteEventsForClause,
\* applyMergeWriteEvent)
MergeCreatesOnce ==
    Done({"MERGE"}) =>
        LET part == clause.parts[1]
            Ways(e) == IF part.dir = "any" THEN {tx.edges[e], <<tx.edges[e][2], tx.edges[e][1]>>}
                       ELSE {tx.edges[e]}
        IN  IF IsHop(part)
            THEN /\ AddedVertices = {}
                 /\ \A e \in Added : \A w \in Ways(e) :
                       Between(was, w[1], w[2]) = {} /\ Between(tx, w[1], w[2]) \ {e} = {}
            ELSE /\ Added = {}
                 /\ AddedVertices # {} => /\ Cardinality(AddedVertices) = 1
                                          /\ Labelled(was, part.left.label) = {}

\* After MERGE what was merged is there, for every row whose ends are bound: an
\* answer from a pair count, a cache or a prediction is right (HasDirectedEdgeBetween,
\* tryApplySimpleDirectedMergeEdgeFastPath)
MergedIsThere ==
    Done({"MERGE"}) =>
        LET part == clause.parts[1]
        IN  IF IsHop(part)
            THEN \A row \in rows :
                    LET a == At(row.at, part.left.var, None)
                        b == At(row.at, part.right.var, None)
                    IN  None \notin {a, b} =>
                            Between(tx, a, b) # {}
                            \/ (part.dir = "any" /\ Between(tx, b, a) # {})
            ELSE Labelled(tx, part.left.label) # {}

\* A row goes on with the entity its clause created or merged: the id predicted
\* for the row is that of a vertex with the label, or an edge of the pair, in the
\* store (materializeWriteBindings against applyWriteEventsToSink)
RowsDenote ==
    Done({"CREATE", "MERGE"}) =>
        \A row \in rows : \A i \in DOMAIN clause.parts :
            LET part == clause.parts[i]
                x == part.left.var
                Denotes(r, a, b) == Between(tx, a, b) # {} /\ row.at[r] \in Between(tx, a, b)
            IN  IF ~IsHop(part)
                THEN x # Anon => row.at[x] \in Labelled(tx, part.left.label)
                ELSE (part.hop # Anon /\ part.hop \in DOMAIN row.at
                      /\ row.at[part.hop][1] = "e") =>
                          Denotes(part.hop, row.at[x], row.at[part.right.var])

\* What the store counts is what it holds: the edges of the type, and a pair
\* count only for a pair with an edge, which is what MERGE believes
\* (flushCounterDeltas, adjustOutEndpointPairCount)
CountsBelieved ==
    mode = "idle" =>
        /\ store.counted = Cardinality(DOMAIN store.edges)
        /\ \A p \in DOMAIN store.pairs : Between(store, p[1], p[2]) # {}

Keeps(g, h) ==
    /\ \A v \in DOMAIN g.labels : v \in DOMAIN h.labels /\ h.labels[v] = g.labels[v]
    /\ \A e \in DOMAIN g.edges : e \in DOMAIN h.edges /\ h.edges[e] = g.edges[e]

\* CREATE and MERGE only add: no event, whatever id it takes, writes over a vertex
\* or an edge that is there (allocateAnonymousVertexIDForTenantWithReserved,
\* allocateCreateEdgeIDWithLookup, allocateMergeEdgeID)
WritesOnlyAdd ==
    [][mode = "apply" /\ ~Deletes(clause) => Keeps(tx, tx')]_vars

\* A clause that deletes leaves nothing of what its rows name, and takes nothing
\* else but, if it detaches, the edges of the vertices it names
\* (applyDeleteWriteEventsBatch)
DeleteTakesNamed ==
    Done({"DELETE", "DETACH DELETE"}) =>
        LET named == UNION {{row.at[x] : x \in clause.vars \cap DOMAIN row.at} : row \in rows}
            lost == {v \in DOMAIN was.labels : v \notin DOMAIN tx.labels}
            lostE == {e \in DOMAIN was.edges : e \notin DOMAIN tx.edges}
        IN  /\ named \cap (DOMAIN tx.labels \cup DOMAIN tx.edges) = {}
            /\ lost \subseteq named
            /\ lostE \subseteq named \cup Incident(was, named)
=============================================================================
