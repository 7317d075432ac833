-------------------------- MODULE MCWriteStatement --------------------------
(***************************************************************************)
(* Instances of WriteStatement: graphs of a vertex labelled A and one      *)
(* labelled B, and requests of reading clauses and one or two writes.      *)
(***************************************************************************)
EXTENDS WriteStatement

U == <<"given", "u">>
V == <<"given", "v">>
W == <<"given", "w">>
LabelsOf(S) == [x \in S |-> IF x = V THEN {"B"} ELSE {"A"}]
GraphOf(S, E) == [labels |-> LabelsOf(S), edges |-> [e \in E |-> <<e[2], e[3]>>]]

Lone   == GraphOf({U}, {})
Apart  == GraphOf({U, V, W}, {})
Joined == GraphOf({U, V}, {EdgeId(U, V, 0)})
Knot   == GraphOf({U, V, W}, {EdgeId(U, V, 0), EdgeId(U, V, 2), EdgeId(V, W, 0)})
SmallGraphs == {Lone, Apart, Joined, Knot}

MA  == Match(Single("a", "A"))
MB  == Match(Single("b", "B"))
MAB == Match(Edge("a", "r", "out", "b"))

\* what a request may do to the nodes and relationships it has matched
HopWrites == {
    Create(<<Edge("a", "", "out", "b")>>), Create(<<Edge("a", "s", "out", "b")>>),
    Merge(Edge("a", "", "out", "b")), Merge(Edge("b", "", "out", "a")),
    Merge(Edge("a", "s", "out", "b")), Merge(Edge("b", "", "any", "a")),
    Merge(Edge("a", "", "out", "a"))}
NodeWrites == {
    Create(<<Single("n", "B")>>), Create(<<Single("", "A")>>),
    Create(<<Edge("a", "", "out", "")>>), Create(<<Edge("a", "", "out", "n")>>),
    Create(<<Single("n", "B"), Edge("n", "t", "out", "m")>>),
    Merge(Single("n", "A")), Merge(Single("", "A"))}
Removals == {Delete({"a"}), Detach({"a"}), Detach({"a", "b"})}

Requests1 ==
    {<<w>> : w \in NodeWrites}
    \cup {<<MA, w>> : w \in NodeWrites \cup Removals}
    \cup {<<MA, MB, w>> : w \in HopWrites}
    \cup {<<MAB, w>> : w \in HopWrites \cup Removals \cup {Delete({"r"}), Delete({"r", "b"})}}

\* two writes in a request
Requests2 ==
    {<<MA, MB, w, x>> : w \in NodeWrites, x \in HopWrites}
    \cup {<<MA, MB, w, x>> : w \in HopWrites, x \in NodeWrites \cup Removals}
    \cup {<<MAB, Delete({"r"}), w>> : w \in HopWrites \ {Merge(Edge("a", "s", "out", "b"))}}
    \cup {<<MA, Detach({"a"}), w>> : w \in NodeWrites}

\* requests that leave edges whose ids are numbered, or vertices with the ids
\* that predictions begin with
First == {<<Merge(Single("n", "A"))>>, <<Create(<<Single("", "A")>>)>>,
          <<MAB, Create(<<Edge("a", "s", "out", "b")>>)>>}

Small == {<<q>> : q \in Requests2}
         \cup {<<p, q>> : p \in Requests1, q \in Requests1}
         \cup {<<p, q>> : p \in First, q \in {r \in Requests2 : ~Deletes(r[2])}}

\* what the theorems on dangling edges, deletions and creations ask of programs;
\* these are made of such requests
ASSUME SmallObeys ==
    Programs = Small => Obeyed(EndsKept) /\ Obeyed(HopsMatched) /\ Obeyed(NamesNew)
                        /\ NamesApart /\ GraphsFresh

MergeTwoLabels == {<< <<Merge(Single("n", "A"))>>, <<Merge(Single("m", "B"))>> >>}
MergeAfterMerge ==
    {<< <<MA, MB, Create(<<Edge("a", "", "out", "b")>>), Merge(Edge("a", "", "out", "b"))>>,
        <<MAB, Delete({"r"})>>,
        <<MA, MB, Merge(Edge("a", "", "out", "b"))>> >>}
Empty == GraphOf({}, {})
NoVertices == {Empty}
TwoApart == {GraphOf({U, V}, {})}
=============================================================================
