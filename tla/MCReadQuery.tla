---------------------------- MODULE MCReadQuery ----------------------------
(***************************************************************************)
(* Instances of ReadQuery: every graph of two vertices and up to three     *)
(* edges of two types, up to the names of the edges, and queries of up to  *)
(* three clauses.                                                          *)
(***************************************************************************)
EXTENDS ReadQuery

IdsInOrder == <<"e1", "e2", "e3", "u", "v">>
EdgeNames == <<"e1", "e2", "e3">>
Kinds == {[src |-> a, dst |-> b, type |-> t] : a \in {"u", "v"}, b \in {"u", "v"},
                                               t \in {"S", "T"}}
\* a number for each kind: edges are listed in its order, so that graphs which
\* differ in the names of edges only are not repeated
Rank(k) == (IF k.src = "u" THEN 0 ELSE 4) + (IF k.dst = "u" THEN 0 ELSE 2)
           + (IF k.type = "S" THEN 0 ELSE 1)
GraphsOf(n) ==
    {[labels |-> [v \in {"u", "v"} |-> IF v = "u" THEN {"L"} ELSE {}],
      edges |-> [e \in {EdgeNames[i] : i \in 1 .. n} |->
                    ks[CHOOSE i \in 1 .. n : EdgeNames[i] = e]]] :
        ks \in {s \in [1 .. n -> Kinds] :
                  \A i \in 1 .. n - 1 : Rank(s[i]) <= Rank(s[i + 1])}}
SmallGraphs == UNION {GraphsOf(n) : n \in 0 .. 2}
               \cup {g \in GraphsOf(3) : \A e \in EdgeIds(g) : g.edges[e].type = "T"}

A == Node("a", NoLabel)
B == Node("b", NoLabel)
C == Node("c", NoLabel)
D == Node("d", NoLabel)
One(nodes, hops) == Clause(FALSE, <<Part(nodes, hops)>>, NoWhere)
Opt(nodes, hops, where) == Clause(TRUE, <<Part(nodes, hops)>>, where)
CL == Node("c", "L")
BL == Node("b", "L")

OptAB == Opt(<<A, B>>, <<Hop("r", "out", {"T"})>>, NoWhere)
OptBC == Opt(<<B, C>>, <<Hop("s", "any", {})>>, NoWhere)

\* clauses of the operator's everyday shapes, in any two of which the second
\* may find the variables of the first bound
Plain == {
    One(<<A, B>>, <<Hop("r", "out", {})>>),
    One(<<A, B>>, <<Hop("r", "in", {"T"})>>),
    One(<<B, A>>, <<Hop("s", "any", {})>>),
    One(<<BL, C>>, <<Hop("", "out", {"S", "T"})>>),
    One(<<A, A>>, <<Hop("s", "any", {})>>),
    One(<<A, B, C>>, <<Hop("", "out", {}), Hop("s", "any", {})>>),
    One(<<B, A>>, <<Star("q", "out", {}, 1, 2)>>),
    One(<<A, C>>, <<Star("", "any", {"T"}, 1, 3)>>),
    One(<<BL>>, <<>>),
    Clause(FALSE, <<Part(<<A>>, <<>>), Part(<<C, B>>, <<Hop("t", "in", {})>>)>>, NoWhere),
    Unless(One(<<A, B>>, <<Hop("r", "out", {})>>),
           {Part(<<B, A>>, <<Hop("", "out", {"T"})>>)}),
    OptAB, OptBC,
    Opt(<<A, B, C>>, <<Hop("", "out", {}), Hop("", "in", {})>>, CL)}

\* shapes that agree when they come last
LastOnly == {
    One(<<B, A>>, <<Star("z", "out", {}, 0, 2)>>),
    Clause(FALSE, <<Path("p", <<A, B, D>>, <<Hop("", "out", {}), Star("", "any", {}, 1, 1)>>)>>,
           NoWhere),
    One(<<A, Node("", NoLabel), C>>, <<Hop("", "any", {}), Hop("", "any", {})>>)}

\* a predicate on an optional hop, after clauses whose rows are all different
Named == {c \in Plain : \A i \in DOMAIN c.parts : \A j \in DOMAIN c.parts[i].hops :
                            c.parts[i].hops[j].var # ""}
\* OptBC may leave b null, the right end OptAB then starts from: README, read_query
Pairs == ({<<c, d>> : c \in Plain, d \in Plain \cup LastOnly} \ {<<OptBC, OptAB>>})
         \cup {<<c, Opt(<<B, C>>, <<Hop("s", "any", {})>>, CL)>> : c \in Named}

\* projections: each asks for something another does not
Flat == {
    [With(<<Var("a")>>) EXCEPT !.distinct = TRUE, !.order = <<Down("a")>>],
    With(<<As("a", "b"), As("b", "a")>>),
    [With(<<Everything>>) EXCEPT !.skip = 1, !.limit = 1],
    [With(<<Var("a")>>) EXCEPT !.order = <<Down("b"), Up("a")>>, !.limit = 1],
    [With(<<Var("a")>>) EXCEPT !.order = <<Up("b")>>, !.skip = 1, !.limit = 1],
    [With(<<As("b", "a"), As("a", "c")>>) EXCEPT !.order = <<Up("a")>>, !.skip = 1],
    [With(<<Var("a"), Var("b")>>) EXCEPT !.where = BL]}
Counting == {
    [With(<<Var("a"), Count("b", "n")>>) EXCEPT !.having = AtLeast("n", 2)],
    [With(<<Var("b"), Count("*", "n")>>)
        EXCEPT !.order = <<Down("n"), Up("b")>>, !.skip = 1, !.limit = 1],
    With(<<Count("*", "n"), CountDistinct("a", "m"), Count("b", "o")>>)}
Projections == Flat \cup Counting

Binding(c, S) == S \subseteq PatternVars(c)
OfAB == {c \in Plain : Binding(c, {"a", "b"})}

\* what was projected is matched again, and what was not is free
Again == {
    <<With(<<As("a", "b"), As("b", "a")>>), One(<<A, B>>, <<Hop("t", "out", {})>>)>>,
    <<[With(<<Var("a")>>) EXCEPT !.distinct = TRUE], One(<<A, B>>, <<Hop("t", "any", {})>>)>>,
    <<With(<<Var("a"), Count("b", "n")>>), OptAB>>,
    <<[With(<<Var("b")>>) EXCEPT !.order = <<Up("a")>>, !.limit = 1], OptBC>>}
Projected2 == {<<c, p>> : c \in OfAB, p \in Projections}
Projected3 == {<<c>> \o p : c \in OfAB, p \in Again}

\* a list is taken apart, and its members are matched as edges
Unwound == {<<One(<<B, A>>, <<Star("q", "out", {}, 1, 2)>>), Unwind("q", "t")>> \o rest :
               rest \in {<<One(<<C, D>>, <<Hop("t", "any", {})>>)>>,
                         <<With(<<Var("t"), Count("*", "n")>>)>>}}

Agreeing == Pairs \cup Projected2 \cup Projected3 \cup Unwound

\* three named hops
ThreeHops == {<<One(<<A, B, C, D>>,
                    <<Hop("r", "any", {}), Hop("s", "any", {}), Hop("t", "any", {})>>)>>}
=============================================================================
