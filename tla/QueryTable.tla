---------------------------- MODULE QueryTable ----------------------------
(***************************************************************************)
(* What reading clauses promise: a query holds a table of rows, a bag, and *)
(* a MATCH replaces every row by the rows that matching it answers, a      *)
(* projection regroups, orders and cuts them.  Nothing is said of a MATCH  *)
(* that is given no rows (see README).                                     *)
(***************************************************************************)
EXTENDS CypherPattern, TLC

CONSTANTS Graphs,     \* the graphs a query may run on
          Queries     \* the queries: sequences of clauses

VARIABLES graph,      \* the graph, fixed for the query
          todo,       \* the clauses still to run
          table       \* the rows: how often each occurs

BagOf(rows) == [x \in Range(rows) |-> Occurrences(rows, x)]

\* every row of t replaced by the rows F answers for it
Replaced(t, F(_)) ==
    LET ans == [x \in DOMAIN t |-> F(x)]
    IN  [y \in UNION {Range(ans[x]) : x \in DOMAIN t} |->
            MapThenSumSet(LAMBDA x : t[x] * Occurrences(ans[x], y), DOMAIN t)]

Members(v, row, y) ==
    CASE v = Null     -> <<>>
      [] v.k = "list" -> [i \in DOMAIN v.ids |-> Bind(row, y, Id(v.ids[i]))]
      [] OTHER        -> <<Bind(row, y, v)>>

(***************************************************************************)
(* Projection.  Rows are grouped by their plain items when there is a      *)
(* count.  An entry is a row with the values ORDER BY compares it by: of   *)
(* its own names or, in a projection that keeps rows apart, of the names   *)
(* of the row it comes from.                                               *)
(***************************************************************************)
CellOf(row, x) == IF x \in DOMAIN row THEN row[x] ELSE Null

PlainItems(row, c) ==
    LET items == {it \in Range(c.items) : ~IsCount(it)}
        named == {it \in items : it.of # "*"}
        rest  == IF named = items THEN {} ELSE {<<x, row[x]>> : x \in DOMAIN row}
    IN  Extend(EmptyRow, {<<it.as, CellOf(row, it.of)>> : it \in named} \cup rest)

Counted(t, group, it) ==
    LET of == IF it.of = "*" THEN group ELSE {x \in group : CellOf(x, it.of) # Null}
    IN  IF it.agg = "distinct" THEN Cardinality({x[it.of] : x \in of})
        ELSE MapThenSumSet(LAMBDA x : t[x], of)

EntryOf(row, source, c) ==
    <<row, [j \in DOMAIN c.order |-> CellOf(IF c.order[j].of \in DOMAIN row THEN row
                                             ELSE source, c.order[j].of)]>>

Grouped(t, c) ==
    LET counts == {it \in Range(c.items) : IsCount(it)}
        keys == IF counts = Range(c.items) THEN {EmptyRow}
                ELSE {PlainItems(x, c) : x \in DOMAIN t}
        Group(k) == {x \in DOMAIN t : counts = Range(c.items) \/ PlainItems(x, c) = k}
        RowOf(k) == Extend(k, {<<it.as, Number(Counted(t, Group(k), it))>> : it \in counts})
    IN  [e \in {EntryOf(RowOf(k), EmptyRow, c) : k \in keys} |-> 1]

Kept(t, c) ==
    LET Entry(x) == EntryOf(PlainItems(x, c), IF c.distinct THEN EmptyRow ELSE x, c)
    IN  [e \in {Entry(x) : x \in DOMAIN t} |->
            IF c.distinct THEN 1
            ELSE MapThenSumSet(LAMBDA x : IF Entry(x) = e THEN t[x] ELSE 0, DOMAIN t)]

Entries(t, c) == IF \E it \in Range(c.items) : IsCount(it) THEN Grouped(t, c) ELSE Kept(t, c)

(***************************************************************************)
(* SKIP and LIMIT take a stretch of the entries in order.  Of entries that *)
(* compare equal any may be taken, as many as reach into the stretch.      *)
(***************************************************************************)
Size(b, S) == MapThenSumSet(LAMBDA e : b[e], S)

\* the bags of n members of S, out of bag b: n drawn, or the others left out
Draws(b, S, n) ==
    LET few == IF 2 * n <= Size(b, S) THEN n ELSE Size(b, S) - n
        More(e, bags) == {d \in {f @@ (e :> m) : f \in bags, m \in 0 .. b[e]} :
                             Size(d, DOMAIN d) <= few}
        drawn == {d \in FoldSet(More, {[e \in {} |-> 0]}, S) : Size(d, S) = few}
    IN  IF n = few THEN drawn ELSE {[e \in S |-> b[e] - d[e]] : d \in drawn}

Stretches(b, c) ==
    LET last == IF c.limit = NoLimit THEN Size(b, DOMAIN b) ELSE c.skip + c.limit
        ties == {{e \in DOMAIN b : e[2] = k} : k \in {e[2] : e \in DOMAIN b}}
        Ahead(T) == Size(b, {e \in DOMAIN b : \A f \in T : KeysBelow(e[2], f[2], c.order)})
        Low(x, y)  == IF x < y THEN x ELSE y
        High(x, y) == IF x < y THEN y ELSE x
        Reach(T) == High(0, Low(last, Ahead(T) + Size(b, T)) - High(c.skip, Ahead(T)))
        And(T, bags) == {d @@ s : d \in bags, s \in Draws(b, T, Reach(T))}
    IN  FoldSet(And, {[e \in {} |-> 0]}, ties)

Satisfied(g, row, c) ==
    /\ Satisfies(g, row, c)
    /\ c.having.of = Anon \/ Len(CellOf(row, c.having.of).ids) >= c.having.least

\* the rows of the entries s, without those the predicate refuses
RowsOf(g, s, c) ==
    [r \in {e[1] : e \in {d \in DOMAIN s : s[d] > 0 /\ Satisfied(g, d[1], c)}} |->
        Size(s, {e \in DOMAIN s : e[1] = r})]

---------------------------------------------------------------------------

Init ==
    /\ graph \in Graphs
    /\ todo \in Queries
    /\ table = BagOf(<<EmptyRow>>)

ClauseIs(op) ==
    /\ todo # <<>> /\ Head(todo).op = op
    /\ todo' = Tail(todo)
    /\ UNCHANGED graph

Match ==
    /\ ClauseIs("match")
    /\ DOMAIN table # {} =>
          table' = Replaced(table, LAMBDA x : RowAnswers(graph, x, Head(todo)))

Project ==
    /\ ClauseIs("project")
    /\ LET c == Head(todo)
       IN  \E s \in Stretches(Entries(table, c), c) : table' = RowsOf(graph, s, c)

Unwinding ==
    /\ ClauseIs("unwind")
    /\ LET c == Head(todo)
       IN  table' = Replaced(table, LAMBDA x : Members(CellOf(x, c.of), x, c.as))

Next == Match \/ Project \/ Unwinding
Spec == Init /\ [][Next]_<<graph, todo, table>>
=============================================================================
