----------------------------- MODULE MatchRows -----------------------------
(***************************************************************************)
(* The runtime operator that expands MATCH and OPTIONAL MATCH: every input *)
(* row is extended through the pattern, one segment (node, hop, node) at a *)
(* time, by scans of the adjacency of the store.                           *)
(*                                                                         *)
(* Between segments the row carries what the pattern does not name: the    *)
(* vertex the last segment ended at and the last edge taken, under two     *)
(* hidden names, and made-up variables for unnamed nodes inside a chain.   *)
(* Uniqueness of relationships and joins rest on these.                    *)
(***************************************************************************)
EXTENDS CypherPattern, TLC

Cursor   == "__ve_chain_cursor"
LastEdge == "__edge.id"
MaxInner == 2                                   \* inner nodes of a chain
Conn(i)  == "__ve_conn_" \o ToString(i)
Hidden   == {Cursor, LastEdge} \cup {Conn(i) : i \in 1 .. MaxInner}
Visible(row) == Restrict(row, DOMAIN row \ Hidden)

---------------------------------------------------------------------------
(* Rows *)

IsNamed(x) == x # Anon
\* a name bound to an entity, or to the null of an optional miss
Bound(row, x) == x \in DOMAIN row /\ row[x].k \in {"id", "null"}
NoId == "no id"
IdOf(row, x) == IF Bound(row, x) /\ row[x].k = "id" THEN row[x].ids[1] ELSE NoId

\* binding x to v is refused when x is another entity already
Bindable(row, x, v) == Bound(row, x) => IdOf(row, x) = v
BindPair(row, x, v, y, w) == Bind(Bind(row, x, Id(v)), y, Id(w))
PairBindable(row, x, v, y, w) ==
    Bindable(row, x, v) /\ Bindable(Bind(row, x, Id(v)), y, w)

\* the edges a row is known to have used: the last one and those of its paths
Used(row) ==
    UNION {Range(row[x].ids) : x \in {y \in DOMAIN row : y = LastEdge \/ row[y].k = "path"}}

AppendPath(row, p, es) ==
    IF p \in DOMAIN row /\ row[p].k = "path"
    THEN Bind(row, p, PathOf(row[p].ids \o es))
    ELSE Bind(row, p, PathOf(es))

\* the names of S that are unbound become null
NullUnbound(row, S) ==
    [x \in DOMAIN row \cup S |-> IF x \in S /\ ~Bound(row, x) THEN Null ELSE row[x]]

---------------------------------------------------------------------------
(* The scans of the store *)

AdjacencyLinks(g, v, dir) ==
    {l \in {<<e, Across(g, dir, v, e)>> : e \in EdgeIds(g)} : l[2] # Nowhere}

---------------------------------------------------------------------------
(* Segments *)

\* unnamed inner nodes get a variable; one segment for each hop
Segments(part) ==
    LET n == Len(part.hops)
        At(i) == IF i > 1 /\ i <= n /\ ~IsNamed(part.nodes[i].var)
                 THEN [part.nodes[i] EXCEPT !.var = Conn(i - 1)]
                 ELSE part.nodes[i]
    IN  [i \in 1 .. n |->
            [left |-> At(i), right |-> At(i + 1), hop |-> part.hops[i], path |-> part.path]]

SegmentVars(seg) == {seg.left.var, seg.right.var, seg.hop.var} \ {Anon}

\* Wrong: the cursor is left on the edge.
TakenToEdge(row, seg, l, e, r) ==
    LET ends == BindPair(row, seg.left.var, l, seg.right.var, r)
    IN  Bind(Bind(Bind(ends, LastEdge, Id(e)), seg.hop.var, Id(e)), Cursor, Id(e))

\* the row after edge e has been taken from l (left) to r (right)
Taken(row, seg, l, e, r) ==
    LET ends == BindPair(row, seg.left.var, l, seg.right.var, r)
        edge == Bind(Bind(ends, LastEdge, Id(e)), seg.hop.var, Id(e))
        path == IF IsNamed(seg.path) THEN AppendPath(edge, seg.path, <<e>>) ELSE edge
    IN  Bind(path, Cursor, Id(r))

\* the null row of an optional miss
OptionalNullBoundRow(row, seg, leftBound, rightBound) ==
    LET edgeFree == IF Bound(row, seg.hop.var) THEN {} ELSE {seg.hop.var}
        gone == (edgeFree \cup (IF leftBound THEN {} ELSE {seg.left.var})
                          \cup (IF rightBound THEN {} ELSE {seg.right.var})) \ {Anon}
    IN  [x \in DOMAIN row \cup gone \cup {LastEdge} |->
            IF x \in gone \cup {LastEdge} THEN Null ELSE row[x]]

\* the edge is one the hop may take from this row
EdgeFits(g, row, seg, e) ==
    /\ Bound(row, seg.hop.var) => e = IdOf(row, seg.hop.var)
    /\ Typed(g, seg.hop.types, e)

\* uniqueness is enforced from the second hop on, if the segment names something
EnforceUnique(row, seg) == Cursor \in DOMAIN row /\ SegmentVars(seg) # {}

\* Wrong: an edge may be taken again.
AnyEdge(row, seg, e) == TRUE

Fresh(row, seg, e) == EnforceUnique(row, seg) => e \notin Used(row)

\* rows for the matches in S, triples <<left, edge, right>>
TakeAll(row, seg, S) ==
    LET ok == {m \in S : PairBindable(row, seg.left.var, m[1], seg.right.var, m[3])}
    IN  ListOf({Taken(row, seg, m[1], m[2], m[3]) : m \in ok})

Flip(dir) == CASE dir = "out" -> "in" [] dir = "in" -> "out" [] OTHER -> "any"

\* one end is bound: scan its adjacency.  When the anchor is the right end,
\* the null row of a failed anchor takes "anchor, peer" for "left, right".
ScanAndBind(g, row, seg, anchor, anchorLeft, peerBound, peer, optional) ==
    LET atRight == IF anchorLeft THEN seg.left.var = seg.right.var ELSE TRUE
        aNode == IF atRight THEN seg.right ELSE seg.left
        pNode == IF atRight THEN seg.left ELSE seg.right
        dir   == IF anchorLeft THEN seg.hop.dir ELSE Flip(seg.hop.dir)
        links == {k \in AdjacencyLinks(g, anchor, dir) :
                    /\ EdgeFits(g, row, seg, k[1]) /\ Fresh(row, seg, k[1])
                    /\ peer \in {NoId, k[2]}
                    /\ HasLabel(g, k[2], pNode.label)}
        out == TakeAll(row, seg, IF atRight THEN {<<k[2], k[1], anchor>> : k \in links}
                                 ELSE {<<anchor, k[1], k[2]>> : k \in links})
    IN  IF anchor = NoId \/ ~HasLabel(g, anchor, aNode.label)
        THEN IF optional THEN <<OptionalNullBoundRow(row, seg, TRUE, peerBound)>> ELSE <<>>
        ELSE IF out = <<>> /\ optional
        THEN <<OptionalNullBoundRow(row, seg, Bound(row, seg.left.var),
                                    Bound(row, seg.right.var))>>
        ELSE out

\* neither end is bound: scan every edge, both ways round when undirected
ScanUnbound(g, row, seg, optional) ==
    LET ends(e) == LET a == g.edges[e].src  b == g.edges[e].dst
                   IN  CASE seg.hop.dir = "out" -> {<<a, e, b>>}
                         [] seg.hop.dir = "in"  -> {<<b, e, a>>}
                         [] OTHER -> {<<a, e, b>>, <<b, e, a>>}
        out == TakeAll(row, seg,
                 {m \in UNION {ends(e) : e \in EdgeIds(g)} :
                    /\ EdgeFits(g, row, seg, m[2]) /\ Fresh(row, seg, m[2])
                    /\ HasLabel(g, m[1], seg.left.label)
                    /\ HasLabel(g, m[3], seg.right.label)})
    IN  IF out = <<>> /\ optional
        THEN <<OptionalNullBoundRow(row, seg, FALSE, FALSE)>> ELSE out

\* both ends of an undirected hop are bound: the edges between them, whose
\* labels are not looked at again
BoundPairRows(g, row, seg, l, r, optional) ==
    LET out == TakeAll(row, seg,
                 {<<l, e, r>> : e \in {d \in EdgeIds(g) :
                    /\ {<<g.edges[d].src, g.edges[d].dst>>} \cap {<<l, r>>, <<r, l>>} # {}
                    /\ EdgeFits(g, row, seg, d) /\ d \notin Used(row)}})
    IN  IF out = <<>> /\ optional
        THEN <<OptionalNullBoundRow(row, seg, Bound(row, seg.left.var),
                                    Bound(row, seg.right.var))>>
        ELSE out

ExpandPatternRow(g, row, seg, optional) ==
    LET byCursor == ~IsNamed(seg.left.var) /\ Cursor \in DOMAIN row
        leftBound == Bound(row, seg.left.var) \/ byCursor
        left  == IF byCursor THEN IdOf(row, Cursor) ELSE IdOf(row, seg.left.var)
        rightBound == Bound(row, seg.right.var)
        right == IdOf(row, seg.right.var)
        fromLeft  == ScanAndBind(g, row, seg, left, TRUE, rightBound, right, optional)
        fromRight == ScanAndBind(g, row, seg, right, FALSE, leftBound, left, optional)
    IN  CASE seg.hop.dir = "any" /\ leftBound /\ rightBound ->
                 BoundPairRows(g, row, seg, left, right, optional)
          [] seg.hop.dir = "in" /\ rightBound -> fromRight
          [] leftBound -> fromLeft
          [] rightBound -> fromRight
          [] OTHER -> ScanUnbound(g, row, seg, optional)
---------------------------------------------------------------------------
(* Variable-length segments *)

\* the scan asks the store for the type as written: several types name none
VarLengthEdges(g, row, hop) ==
    {e \in EdgeIds(g) : e \notin Used(row)
                          /\ (hop.types = {} \/ hop.types = {g.edges[e].type})}

\* sequences of distinct edges, the trails the depth-first walk goes through
WalkTrails(g, row, hop) ==
    LET able == VarLengthEdges(g, row, hop)
        top  == IF hop.max < Cardinality(able) THEN hop.max ELSE Cardinality(able)
    IN  UNION {{t \in [1 .. n -> able] : IsInjective(t)} : n \in hop.min .. top}

\* the bound left end if it fits, else every vertex that does; an unnamed left
\* end adds the cursor to them
StartVertices(g, row, seg) ==
    LET fits == {v \in VertexIds(g) : HasLabel(g, v, seg.left.label)}
        bound == {IdOf(row, seg.left.var)} \cap fits
        at == IF ~IsNamed(seg.left.var) THEN {IdOf(row, Cursor)} \cap fits ELSE {}
    IN  ListOf(IF bound # {} THEN bound ELSE fits) \o ListOf(at)

\* the row after the walk t from s to e; the last edge is left as it was
Walked(row, seg, s, t, e) ==
    LET ends == BindPair(row, seg.left.var, s, seg.right.var, e)
        path == IF IsNamed(seg.path) THEN AppendPath(ends, seg.path, t) ELSE ends
    IN  Bind(Bind(path, seg.hop.var, Edges(t)), Cursor, Id(e))

RowsFrom(g, row, seg, s) ==
    LET ending == {<<t, EndOf(g, seg.hop, s, t)>> : t \in WalkTrails(g, row, seg.hop)}
        good == {w \in ending :
                   /\ w[2] # Nowhere
                   /\ Bound(row, seg.right.var) => w[2] = IdOf(row, seg.right.var)
                   /\ HasLabel(g, w[2], seg.right.label)
                   /\ PairBindable(row, seg.left.var, s, seg.right.var, w[2])}
        list == ListOf(good)
    IN  [i \in 1 .. Len(list) |-> Walked(row, seg, s, list[i][1], list[i][2])]

\* a hop whose variable already holds a list of edges follows that list: read
\* forward whatever the direction and, undirected, backward
\* (the ends are turned round only by a list of two edges or more, and an empty
\* list is an index out of range in the code: no query here reaches it)
SequenceRows(g, row, seg, es, optional) ==
    LET n == Len(es)
        Src(i) == g.edges[es[i]].src
        Dst(i) == g.edges[es[i]].dst
        fits == n >= seg.hop.min /\ n <= seg.hop.max
                /\ \A i \in 1 .. n : Typed(g, seg.hop.types, es[i])
        Ok(s, e) == /\ HasLabel(g, s, seg.left.label) /\ HasLabel(g, e, seg.right.label)
                    /\ PairBindable(row, seg.left.var, s, seg.right.var, e)
        forward == /\ \A i \in 1 .. n - 1 : Dst(i) = Src(i + 1)
                   /\ Ok(Src(1), Dst(n))
        backward == /\ seg.hop.dir = "any" /\ n > 1
                    /\ \A i \in 1 .. n - 1 : Src(i) = Dst(i + 1)
                    /\ Ok(Dst(1), Src(n))
    IN  IF fits /\ forward THEN <<Walked(row, seg, Src(1), es, Dst(n))>>
        ELSE IF fits /\ backward THEN <<Walked(row, seg, Dst(1), es, Src(n))>>
        ELSE IF optional THEN <<row>> ELSE <<>>

ExpandVariableLengthPathRows(g, row, seg, optional) ==
    LET starts == StartVertices(g, row, seg)
        out == FlattenSeq([i \in 1 .. Len(starts) |-> RowsFrom(g, row, seg, starts[i])])
        null == IF Bound(row, seg.hop.var) THEN {seg.path} \ {Anon}
                ELSE {seg.hop.var, seg.path} \ {Anon}
    IN  IF seg.hop.var \in DOMAIN row
        THEN SequenceRows(g, row, seg, row[seg.hop.var].ids, optional)
        ELSE IF out = <<>> /\ optional
        THEN <<[x \in DOMAIN row \cup null |-> IF x \in null THEN Null ELSE row[x]]>>
        ELSE out

ExpandSegment(g, row, seg, optional) ==
    IF seg.hop.star THEN ExpandVariableLengthPathRows(g, row, seg, optional)
    ELSE ExpandPatternRow(g, row, seg, optional)

---------------------------------------------------------------------------
(* Vertex patterns, and whole clauses *)

\* an optional miss leaves an unbound variable out of the row
ExpandVertexPatternRow(g, row, node, path, optional) ==
    LET cands == IF Bound(row, node.var) THEN {IdOf(row, node.var)} \cap VertexIds(g)
                 ELSE VertexIds(g)
        good == ListOf({v \in cands : HasLabel(g, v, node.label)})
        Found(v) == LET r == Bind(row, node.var, Id(v))
                    IN  IF IsNamed(path) THEN Bind(r, path, PathOf(<<>>)) ELSE r
    IN  IF good = <<>> THEN (IF optional THEN <<row>> ELSE <<>>)
        ELSE [i \in 1 .. Len(good) |-> Found(good[i])]

\* each row replaced by the rows F makes of it
FlatMap(F(_), rs) == FlattenSeq([i \in 1 .. Len(rs) |-> F(rs[i])])

ExpandPart(g, rs, part, optional) ==
    IF part.hops = <<>>
    THEN FlatMap(LAMBDA r : ExpandVertexPatternRow(g, r, part.nodes[1], part.path, optional), rs)
    ELSE FoldLeft(LAMBDA acc, seg : FlatMap(LAMBDA r : ExpandSegment(g, r, seg, optional), acc),
                  rs, Segments(part))

\* the predicate is evaluated on each row (its evaluation is the reference's)
Filter(g, rs, c) == SelectSeq(rs, LAMBDA r : Satisfies(g, r, c))

\* a chain: optional is decided per input row, after the predicate
ExpandChain(g, rs, c) ==
    LET segs == Segments(c.parts[1])
        Found(r) == Filter(g, ExpandPart(g, <<r>>, c.parts[1], FALSE), c)
        names == UNION {SegmentVars(segs[i]) : i \in DOMAIN segs}
        NullRow(r) == NullUnbound(Bind(r, LastEdge, Null), names)
        missed == SelectSeq(rs, LAMBDA r : Found(r) = <<>>)
    IN  FlatMap(Found, rs) \o
        (IF c.optional THEN [i \in 1 .. Len(missed) |-> NullRow(missed[i])] ELSE <<>>)

\* one hop: a row the predicate took every match from gets a null row, one for
\* all input rows that are equal
ExpandOneHop(g, rs, c) ==
    LET seg == Segments(c.parts[1])[1]
        Expanded(r) == ExpandSegment(g, r, seg, c.optional)
        Found(r) == Filter(g, Expanded(r), c)
        NonNull(r, x) == ~IsNamed(x) \/ (x \in DOMAIN r /\ r[x] # Null)
        missed == {r \in Range(rs) : Found(r) = <<>> /\ Expanded(r) # <<>>}
        NullRow(r) == OptionalNullBoundRow(r, seg, NonNull(r, seg.left.var),
                                           NonNull(r, seg.right.var))
        list == ListOf(missed)
    IN  FlatMap(Found, rs) \o
        (IF c.optional THEN [i \in 1 .. Len(list) |-> NullRow(list[i])] ELSE <<>>)

ExpandMatch(g, rs, c) ==
    LET part == c.parts[1]
    IN  IF Len(c.parts) = 1 /\ Len(part.hops) > 1 THEN ExpandChain(g, rs, c)
        ELSE IF Len(c.parts) = 1 /\ Len(part.hops) = 1 /\ ~part.hops[1].star
        THEN ExpandOneHop(g, rs, c)
        ELSE Filter(g, FoldLeft(LAMBDA acc, p : ExpandPart(g, acc, p, c.optional),
                                rs, c.parts),
                    c)

\* a clause that is given no rows starts from one empty row; the hidden cursor
\* and last edge of the clause before are dropped
StartRows(rs) ==
    IF rs = <<>> THEN <<EmptyRow>>
    ELSE [i \in 1 .. Len(rs) |->
            Restrict(rs[i], DOMAIN rs[i] \ {Cursor, LastEdge})]

---------------------------------------------------------------------------
(* What the planner puts around the operator *)

\* The planner reads the type of an unnamed hop between two named nodes off the
\* text of a pattern: the first type, whatever follows it.
TypesRead(part) ==
    IF /\ Len(part.hops) = 1 /\ ~IsNamed(part.hops[1].var)
       /\ IsNamed(part.nodes[1].var) /\ IsNamed(part.nodes[2].var)
    THEN part.hops[1].types ELSE {}

\* a mandatory typed hop is not run at all when the statistics count no edge
KnownEmpty(g, c) ==
    /\ ~c.optional /\ Len(c.parts) = 1
    /\ TypesRead(c.parts[1]) # {}
    /\ EdgeIds(g) = {}

\* an anti-probe follows the match for each negated pattern: it drops the rows
\* between whose ends there is an edge of the type, labels not looked at
ProbeHits(g, row, part) ==
    LET l == IdOf(row, part.nodes[1].var)
        r == IdOf(row, part.nodes[2].var)
    IN  \E e \in EdgeIds(g) : \E t \in TypesRead(part) :
            g.edges[e].type = t /\ Across(g, part.hops[1].dir, l, e) = r

AntiProbe(g, rs, c) ==
    IF c.optional THEN rs
    ELSE SelectSeq(rs, LAMBDA row : \A p \in c.unless : ~ProbeHits(g, row, p))
=============================================================================
