---------------------------- MODULE ProjectRows ----------------------------
(***************************************************************************)
(* The runtime operators of WITH, RETURN and UNWIND: PHY_PROJECT with its  *)
(* grouping, PHY_SORT with its two strategies, and PHY_PAGINATION.         *)
(*                                                                         *)
(* A projection hands two lists to the sort, the new rows and the rows     *)
(* they were made of (SortSourceRows).  A name that ORDER BY uses and the  *)
(* projection drops is looked up in the second, by position.               *)
(***************************************************************************)
EXTENDS MatchRows

Value(row, x) == IF x \in DOMAIN row THEN row[x] ELSE Null

\* a variable the row does not have is taken from under the alias
ItemValue(row, it) ==
    IF it.of \in DOMAIN row THEN row[it.of] ELSE Value(row, it.as)

\* what a predicate after a projection sees: the new names before the old
WhereScope(source, row) == row @@ source

Passes(g, row, c) ==
    /\ Satisfies(g, row, c)
    /\ c.having.of # Anon => Len(Value(row, c.having.of).ids) >= c.having.least

Projection(rs, source) == [rows |-> rs, source |-> source]

\* the places of s that pass a test, and the members at some places
Places(s, Test(_)) == SelectSeq([i \in DOMAIN s |-> i], Test)
At(s, places) == [i \in DOMAIN places |-> s[places[i]]]

---------------------------------------------------------------------------
(* PHY_PROJECT *)

\* the new row; "*" is everything but the names the operators hide
Projected(row, items) ==
    FoldLeft(LAMBDA acc, it : IF it.of = "*" THEN Visible(row) @@ acc
                              ELSE Bind(acc, it.as, ItemValue(row, it)),
             EmptyRow, items)

\* DISTINCT drops a row before the predicate sees it; source keeps all rows
ProjectEach(g, rs, c) ==
    LET new == [i \in DOMAIN rs |-> Projected(rs[i], c.items)]
        first(i) == c.distinct => \A j \in 1 .. i - 1 : new[j] # new[i]
        kept == Places(rs, LAMBDA i : first(i) /\ Passes(g, WhereScope(rs[i], new[i]), c))
    IN  Projection(At(new, kept), rs)

\* Wrong: rows in which the variable is null are counted.
CountOfAll(rs, it) ==
    IF it.agg = "distinct" THEN Cardinality({Value(r, it.of) : r \in Range(rs)})
    ELSE Len(rs)

\* a count takes the rows in which the variable is there and not null
CountOf(rs, it) ==
    LET seen == IF it.of = "*" THEN rs
                ELSE SelectSeq(rs, LAMBDA r : Value(r, it.of) # Null)
    IN  IF it.agg = "distinct" THEN Cardinality({r[it.of] : r \in Range(seen)})
        ELSE Len(seen)

WithCounts(row, rs, items) ==
    FoldLeft(LAMBDA acc, it : Bind(acc, it.as, Number(CountOf(rs, it))),
             row, SelectSeq(items, IsCount))

\* a group is known by its items under both their names
GroupRow(row, items) ==
    FoldLeft(LAMBDA acc, it :
                 Bind(Bind(acc, it.as, ItemValue(row, it)), it.of, ItemValue(row, it)),
             EmptyRow, SelectSeq(items, LAMBDA it : ~IsCount(it)))

\* one row for each group, in the order of their first rows, which stand for
\* the groups in source
ProjectGroups(g, rs, c) ==
    LET key == [i \in DOMAIN rs |-> GroupRow(rs[i], c.items)]
        made == [i \in DOMAIN rs |->
                    WithCounts(key[i], At(rs, Places(rs, LAMBDA k : key[k] = key[i])), c.items)]
        kept == Places(rs, LAMBDA i : /\ \A j \in 1 .. i - 1 : key[j] # key[i]
                                      /\ Passes(g, WhereScope(rs[i], made[i]), c))
    IN  Projection(At(made, kept), At(rs, kept))

\* counts alone make one row, of no rows too; no predicate is looked at
ProjectAll(rs, c) == Projection(<<WithCounts(EmptyRow, rs, c.items)>>, rs)

Project(g, rs, c) ==
    IF \A it \in Range(c.items) : IsCount(it) THEN ProjectAll(rs, c)
    ELSE IF \E it \in Range(c.items) : IsCount(it) THEN ProjectGroups(g, rs, c)
    ELSE ProjectEach(g, rs, c)

\* UNWIND: a row for each member of a list; null makes none
ProjectUnwind(rs, c) ==
    LET Unwound(r) ==
          LET v == Value(r, c.of)
          IN  IF v.k = "list" THEN [i \in DOMAIN v.ids |-> Bind(r, c.as, Id(v.ids[i]))]
              ELSE IF v = Null THEN <<>> ELSE <<Bind(r, c.as, v)>>
    IN  FlatMap(Unwound, rs)

---------------------------------------------------------------------------
(* PHY_SORT and PHY_PAGINATION *)

\* Wrong: the row before the projection is asked first.
SortKeyOfSource(row, source, x) == IF x \in DOMAIN source THEN source[x] ELSE Value(row, x)

SortKey(row, source, x) == IF x \in DOMAIN row THEN row[x] ELSE Value(source, x)

\* a stable sort; the source is given up when it is of another length
Sorted(p, c) ==
    LET aligned == Len(p.source) = Len(p.rows)
        keys == [i \in DOMAIN p.rows |-> [j \in DOMAIN c.order |->
                    SortKey(p.rows[i], IF aligned THEN p.source[i] ELSE EmptyRow,
                            c.order[j].of)]]
        Before(i, j) == \/ KeysBelow(keys[i], keys[j], c.order)
                        \/ keys[i] = keys[j] /\ i < j
        ranked == SortSeq([i \in DOMAIN p.rows |-> i], Before)
    IN  IF c.order = <<>> THEN p.rows ELSE At(p.rows, ranked)

\* Wrong: SKIP is left to the pagination.
TopKOfLimit(c) == c.limit

\* the rows a top-K sort keeps, for the pagination after it; a SKIP that is not
\* a literal counts for nothing
TopK(c) == (IF c.skipLiteral THEN c.skip ELSE 0) + c.limit

\* whether a sort is a top-K is up to the statistics: the total of edges, read
\* before the transaction
TopKAble(c) == c.order # <<>> /\ c.limit > 0

FirstOf(rs, n) == SubSeq(rs, 1, IF n < Len(rs) THEN n ELSE Len(rs))

Paginated(rs, c) ==
    LET rest == SubSeq(rs, c.skip + 1, Len(rs))
    IN  IF c.limit = NoLimit THEN rest ELSE FirstOf(rest, c.limit)
=============================================================================
