--------------------------- MODULE CypherPattern ---------------------------
(***************************************************************************)
(* Graphs, patterns and rows, and what matching a pattern means.           *)
(*                                                                         *)
(* A clause is parsed once (EdgeMutation, VertexMutation and the pattern   *)
(* segments of internal/cypher) and evaluated row by row.  This module     *)
(* holds the data the evaluators share, and a reference definition of the  *)
(* answer: every way of walking the pattern through the graph that uses    *)
(* no relationship twice and respects what the row binds.  MatchRows is    *)
(* the evaluator of the code; ReadQuery compares the two.                  *)
(***************************************************************************)
EXTENDS Integers, Sequences, FiniteSets, SequencesExt, FiniteSetsExt, Functions

CONSTANT IdOrder      \* all ids, in the order of their bytes

Anon == ""           \* an unnamed element of a pattern
NoLabel == "-"       \* a node pattern without a label

(***************************************************************************)
(* A graph gives every vertex its labels and every edge its ends and type. *)
(***************************************************************************)
VertexIds(g) == DOMAIN g.labels
EdgeIds(g)   == DOMAIN g.edges

(***************************************************************************)
(* Patterns, the clause MATCH.  A node has a variable and at most one label; a hop has a     *)
(* variable, a direction read from left to right, a set of types (empty:   *)
(* any) and, when it is variable-length, bounds.  A part is a walk of      *)
(* nodes joined by hops; a clause is a list of parts, comma-separated.     *)
(***************************************************************************)
Node(x, lab) == [var |-> x, label |-> lab]
Hop(x, dir, types) ==
    [var |-> x, dir |-> dir, types |-> types, star |-> FALSE, min |-> 1, max |-> 1]
Star(x, dir, types, lo, hi) ==
    [var |-> x, dir |-> dir, types |-> types, star |-> TRUE, min |-> lo, max |-> hi]
Part(nodes, hops) == [path |-> Anon, nodes |-> nodes, hops |-> hops]
Path(p, nodes, hops) == [path |-> p, nodes |-> nodes, hops |-> hops]
\* The predicate: where is a label some bound variable must have, and unless the
\* parts that must have no match, WHERE NOT ((a)-[..]-(b)).
NoWhere == Node(Anon, NoLabel)
Clause(optional, parts, where) ==
    [op |-> "match", optional |-> optional, parts |-> parts, where |-> where,
     unless |-> {}]
Unless(c, parts) == [c EXCEPT !.unless = parts]

(***************************************************************************)
(* Values and rows.  A row is a function from the names it binds: an       *)
(* entity, NULL, the list a variable-length hop binds, or a path.          *)
(***************************************************************************)
Id(x)      == [k |-> "id",   ids |-> <<x>>]
Null       == [k |-> "null", ids |-> <<>>]
Edges(es)  == [k |-> "list", ids |-> es]
PathOf(es) == [k |-> "path", ids |-> es]
Number(n)  == [k |-> "int",  ids |-> [i \in 1 .. n |-> "one"]]     \* in tallies
EmptyRow   == [x \in {} |-> Null]

\* the row with value v for name x; the anonymous name binds nothing
Bind(row, x, v) ==
    IF x = Anon THEN row
    ELSE [y \in DOMAIN row \cup {x} |-> IF y = x THEN v ELSE row[y]]

(***************************************************************************)
(* Projections, the clauses WITH and RETURN: items, then ORDER BY names,   *)
(* SKIP and LIMIT, a predicate on what is left.  An item is a variable     *)
(* under a name, or a count of the rows in which a variable is not null.   *)
(* UNWIND replaces a row by one for each member of a list.                 *)
(***************************************************************************)
As(x, y)    == [of |-> x, as |-> y, agg |-> "none"]
Var(x)      == As(x, x)
Everything  == Var("*")                       \* all variables of the row
Count(x, y) == [of |-> x, as |-> y, agg |-> "count"]
CountDistinct(x, y) == [of |-> x, as |-> y, agg |-> "distinct"]
IsCount(it) == it.agg # "none"
Up(x)   == [of |-> x, desc |-> FALSE]
Down(x) == [of |-> x, desc |-> TRUE]
NoLimit == -1
AtLeast(x, n) == [of |-> x, least |-> n]      \* WHERE x >= n
NoHaving == AtLeast(Anon, 0)
With(items) ==
    [op |-> "project", items |-> items, distinct |-> FALSE, order |-> <<>>, skip |-> 0,
     skipLiteral |-> TRUE, limit |-> NoLimit, where |-> NoWhere, unless |-> {},
     having |-> NoHaving]
Unwind(x, y) == [op |-> "unwind", of |-> x, as |-> y]

PatternVars(c) ==
    UNION {({n.var : n \in Range(p.nodes)} \cup {h.var : h \in Range(p.hops)}
              \cup {p.path}) : p \in Range(c.parts)} \ {Anon}

(***************************************************************************)
(* The bag of the members of a sequence: matches have multiplicities.      *)
(***************************************************************************)
Occurrences(s, x) == Cardinality({i \in DOMAIN s : s[i] = x})

\* a listing of a set, in some order
ListOf(S) == FoldSet(LAMBDA x, list : Append(list, x), <<>>, S)

\* the kinds of values in the order ORDER BY gives them
OrderRank == [id |-> 1, list |-> 2, path |-> 3, int |-> 4, null |-> 5]

\* entities and numbers are compared with their like; lists and paths are not
\* told apart, and no query orders by them
Below(v, w) ==
    \/ OrderRank[v.k] < OrderRank[w.k]
    \/ v.k = "int" /\ w.k = "int" /\ Len(v.ids) < Len(w.ids)
    \/ /\ v.k = "id" /\ w.k = "id"
       /\ \E i, j \in DOMAIN IdOrder :
             i < j /\ IdOrder[i] = v.ids[1] /\ IdOrder[j] = w.ids[1]

\* the first of two lists of keys, by the directions of order
KeysBelow(ks, ls, order) ==
    \E j \in DOMAIN order :
        /\ \A i \in 1 .. j - 1 : ks[i] = ls[i]
        /\ IF order[j].desc THEN Below(ls[j], ks[j]) ELSE Below(ks[j], ls[j])

HasLabel(g, v, lab) == lab = NoLabel \/ lab \in g.labels[v]

---------------------------------------------------------------------------
(***************************************************************************)
(* The reference.                                                          *)
(***************************************************************************)
Nowhere == "nowhere"

\* where following edge e in direction dir leads from v
Across(g, dir, v, e) ==
    LET a == g.edges[e].src
        b == g.edges[e].dst
    IN  CASE dir \in {"out", "any"} /\ v = a -> b
          [] dir \in {"in", "any"} /\ v = b -> a
          [] OTHER -> Nowhere

Typed(g, types, e) == types = {} \/ g.edges[e].type \in types

\* sequences of distinct edges a hop may take
Trails(g, hop) ==
    LET able == {e \in EdgeIds(g) : Typed(g, hop.types, e)}
        top  == IF hop.max < Cardinality(able) THEN hop.max ELSE Cardinality(able)
    IN  UNION {{t \in [1 .. n -> able] : IsInjective(t)} : n \in hop.min .. top}

EndOf(g, hop, v, t) ==
    FoldLeft(LAMBDA u, e : IF u = Nowhere THEN Nowhere ELSE Across(g, hop.dir, u, e),
             v, t)

\* the walks of a part: the vertices its nodes take and the edges of its hops
Walks(g, part) ==
    LET Step(ws, i) ==
          UNION {{[at |-> Append(w.at, EndOf(g, part.hops[i], Last(w.at), t)),
                   by |-> Append(w.by, t)] : t \in Trails(g, part.hops[i])} : w \in ws}
    IN  {w \in FoldLeft(Step, {[at |-> <<v>>, by |-> <<>>] : v \in VertexIds(g)},
                        [i \in 1 .. Len(part.hops) |-> i]) :
            /\ \A i \in DOMAIN w.at :
                  w.at[i] # Nowhere /\ HasLabel(g, w.at[i], part.nodes[i].label)
            /\ IsInjective(FlattenSeq(w.by))}

\* one walk for each part of a clause, no relationship used twice
Solutions(g, c) ==
    LET Step(ss, i) == {Append(s, w) : s \in ss, w \in Walks(g, c.parts[i])}
        all == FoldLeft(Step, {<<>>}, [i \in 1 .. Len(c.parts) |-> i])
    IN  {s \in all :
            IsInjective(FlattenSeq([i \in 1 .. Len(s) |-> FlattenSeq(s[i].by)]))}

\* what a solution says of the variables of the clause: pairs of name and value
Claims(c, s) ==
    {cl \in UNION {
       {<<c.parts[i].nodes[j].var, Id(s[i].at[j])>> : j \in DOMAIN c.parts[i].nodes}
       \cup {<<c.parts[i].hops[j].var,
               IF c.parts[i].hops[j].star THEN Edges(s[i].by[j]) ELSE Id(s[i].by[j][1])>>
               : j \in DOMAIN c.parts[i].hops}
       \cup {<<c.parts[i].path, PathOf(FlattenSeq(s[i].by))>>}
       : i \in DOMAIN c.parts} : cl[1] # Anon}

\* the claims agree with each other and with the row
Agree(row, claims) ==
    /\ \A p, q \in claims : p[1] = q[1] => p[2] = q[2]
    /\ \A p \in claims : p[1] \in DOMAIN row => row[p[1]] = p[2]

Extend(row, claims) ==
    [x \in DOMAIN row \cup {p[1] : p \in claims} |->
        IF x \in DOMAIN row THEN row[x]
        ELSE (CHOOSE p \in claims : p[1] = x)[2]]

HasMatch(g, row, part) ==
    LET c == Clause(FALSE, <<part>>, NoWhere)
    IN  \E s \in Solutions(g, c) : Agree(row, Claims(c, s))

Satisfies(g, row, c) ==
    /\ \/ c.where.var = Anon
       \/ /\ c.where.var \in DOMAIN row
          /\ row[c.where.var].k = "id"
          /\ HasLabel(g, row[c.where.var].ids[1], c.where.label)
    /\ \A part \in c.unless : ~HasMatch(g, row, part)

\* what a clause makes of one row
RowAnswers(g, row, c) ==
    LET good == {s \in Solutions(g, c) :
                    /\ Agree(row, Claims(c, s))
                    /\ Satisfies(g, Extend(row, Claims(c, s)), c)}
        found == LET ss == ListOf(good)
                 IN  [i \in 1 .. Len(ss) |-> Extend(row, Claims(c, ss[i]))]
    IN  IF good = {} /\ c.optional
        THEN <<[x \in DOMAIN row \cup PatternVars(c) |->
                  IF x \in DOMAIN row THEN row[x] ELSE Null]>>
        ELSE found
=============================================================================
