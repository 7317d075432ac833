----------------------------- MODULE ReadQuery -----------------------------
(***************************************************************************)
(* A reading query: the engine runs the operators of its clauses one after *)
(* another, over rows that carry everything from one to the next.  Nothing *)
(* is written, and the store is one snapshot.                              *)
(***************************************************************************)
EXTENDS ProjectRows

CONSTANTS Graphs,     \* the graphs a query may run on
          Queries     \* the queries: sequences of clauses

VARIABLES graph,      \* what the transaction reads, fixed for the query
          todo,       \* the clauses still to run
          clause,     \* the clause that ran last
          rows        \* state.Rows

vars == <<graph, todo, clause, rows>>

NoClause == Clause(FALSE, <<>>, NoWhere)

Init ==
    /\ graph \in Graphs
    /\ todo \in Queries
    /\ clause = NoClause
    /\ rows = <<EmptyRow>>

\* the engine visits the operators of the next clause, of kind op
ClauseBegins(op) ==
    /\ todo # <<>> /\ Head(todo).op = op
    /\ clause' = Head(todo)
    /\ todo' = Tail(todo)
    /\ UNCHANGED graph

ExecuteExpandVariantRows ==
    /\ ClauseBegins("match")
    /\ rows' = IF KnownEmpty(graph, clause') THEN <<>>
               ELSE AntiProbe(graph, ExpandMatch(graph, StartRows(rows), clause'), clause')

\* projection, sort and pagination
ExecuteProject ==
    /\ ClauseBegins("project")
    /\ LET sorted == Sorted(Project(graph, rows, clause'), clause')
       IN  \/ rows' = Paginated(sorted, clause')
           \/ TopKAble(clause') /\ rows' = Paginated(FirstOf(sorted, TopK(clause')), clause')

ExecuteUnwind ==
    /\ ClauseBegins("unwind")
    /\ rows' = ProjectUnwind(rows, clause')

Next == ExecuteExpandVariantRows \/ ExecuteProject \/ ExecuteUnwind
Spec == Init /\ [][Next]_vars
---------------------------------------------------------------------------
(* Properties *)

\* Type invariant: a row binds names to entities of the graph, to null, to
\* numbers, to lists of edges or to paths; the hidden names hold what their
\* readers expect
TypeOK ==
    \A i \in DOMAIN rows : \A x \in DOMAIN rows[i] :
        LET v == rows[i][x]
        IN  /\ v.k \in {"id", "null", "int", "list", "path"}
            /\ v.k # "int" => Range(v.ids) \subseteq VertexIds(graph) \cup EdgeIds(graph)
            /\ x = Cursor => v.k = "id" /\ v.ids[1] \in VertexIds(graph)
            /\ x = LastEdge => Range(v.ids) \subseteq EdgeIds(graph)

\* The operators answer what the clauses mean: the rows a user can see are,
\* with their multiplicities, the rows of the reference (expandPatternRow,
\* expandVariableLengthPathRows and the orchestration above them; grouping,
\* top-K and pagination)
Table == INSTANCE QueryTable WITH
            table <- LET seen == [i \in DOMAIN rows |-> Visible(rows[i])]
                     IN  [x \in Range(seen) |-> Occurrences(seen, x)]
Answered == Table!Spec

\* After ORDER BY the rows stand in the order of the values they have under
\* the names it uses, also when another variable had such a name before the
\* projection (executeSort, its keys and both strategies)
InOrder ==
    LET Keys(row) == [j \in DOMAIN clause.order |-> row[clause.order[j].of]]
    IN  clause.op = "project" =>
            \A i, j \in DOMAIN rows :
                /\ i < j
                /\ \A o \in Range(clause.order) : o.of \in DOMAIN rows[i] \cap DOMAIN rows[j]
                => ~KeysBelow(Keys(rows[j]), Keys(rows[i]), clause.order)

\* A path uses no relationship twice: the single hops of one chain that have
\* names are bound to different edges (rowContainsEdgeID)
PathUnique ==
    clause.op = "match" =>
        \A i \in DOMAIN clause.parts : \A j, k \in DOMAIN clause.parts[i].hops :
            LET hj == clause.parts[i].hops[j]
                hk == clause.parts[i].hops[k]
            IN  j # k /\ IsNamed(hj.var) /\ IsNamed(hk.var) /\ ~hj.star /\ ~hk.star =>
                \A r \in Range(rows) :
                    IdOf(r, hj.var) # NoId => IdOf(r, hj.var) # IdOf(r, hk.var)
=============================================================================
