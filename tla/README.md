# VitalEdge in TLA+

VitalEdge is a property-graph database in Go: Cypher statements come in over
gRPC, are planned into operators, and read and write a graph kept in Pebble (an
embedded ordered key-value store). This directory holds TLA+ modules for the
parts of it where a wrong interleaving or a forgotten update corrupts data, the
TLC configurations that check them on small instances, and proofs that TLAPS
checks for every instance.

## The system

| component | source | state | operations | what makes it correct |
|---|---|---|---|---|
| Graph store contract | `internal/graph/store.go` | - | the `Tx` and `GraphStore` interfaces | a transaction works on a graph of its own, published whole or not at all; every edge has its endpoints |
| Pebble transactions | `internal/graph/store/pebble/tx.go`, `store.go`, `vertex.go`, `edge.go`, `label.go` | the database; per transaction an indexed batch, `counterBase`, `counterDeltas`, `vertexCache`, `edgeMetaCache`, locks | begin, get, scan, put, patch, delete, detach delete with its purge, commit, rollback | rows of one fact stand together, counters are exact, the cache follows the batch, no dangling edges, deletes take what they were given |
| Key space | `internal/graph/keyspace/keys.go` | - | key and prefix builders | distinct facts have distinct keys, prefixes select their keys only |
| Value encodings | `property.go`, `typed_properties.go`, `typedvalue/codec.go` | - | encode, decode, ordered encodings | order of the bytes is the order of the values; decode undoes encode |
| Migration and statistics backfill | `migrations.go`, `backfillTenantStats` in `tx.go` | schema version, counters | run at open | the counters recomputed are those maintained |
| Index definitions and builds | `executor/index_ddl.go`, `executor/index_jobs.go`, `indexschema/` | catalog in memory, job records and index rows in the database | CREATE and DROP INDEX, build worker, restart | an index the planner may use has its rows; what was dropped stays dropped; a build ends |
| Query executor | `executor/executor.go`, `runtime_pipeline.go` | feedback of the fast path | run a statement, a UNION, a CALL | a statement is one transaction |
| Write operator and applier | `runtime/operators/default_handlers.go` (`PHY_WRITE`), `runtime/write_applier.go`, `runtime/engine.go` | rows with the ids predicted for them, `state.Params` for a request, recorded events, the applier's counters and caches for a clause | create, merge, set, remove, delete | what a row is bound to is what was written; nothing is written over; MERGE matches or creates, once; a deletion takes what it names |
| Operators | `runtime/operators/default_handlers.go` | rows of a pipeline, with hidden names between the segments of a chain | expand, optional expand, anti-probe, filter, project, sort, paginate | the rows are those that matching the pattern means, whichever end a scan starts from |
| Planner | `semantic`, `logical`, `physical`, `pipeline` | - | statement to plan | the plan means the statement |
| Parser | `parser`, `ast`, `grammar` | - | text to tree | - |
| Server | `cmd/vitaledge` | prepared statements | gRPC handlers, startup, tuning | parameters checked, bounds clamped |

A statement reaches the executor from the server, is planned and run by the
operators inside one `Store.Update` (or `View`) transaction; its writes pass
through the write applier to the `Tx` calls; the index worker opens transactions
of its own beside those of statements. All of them share one Pebble database.

What is hard here: read-write transactions read the **live** database through
their batch and commit with no conflict check, so every value a transaction has
read or cached may be stale by its commit; each transaction keeps counters and
vertices of its own beside the batch, which every call must keep in step with
it; and a graph fact is spread over several keys that are written and deleted
one by one.

## The modules

| module | what it is |
|---|---|
| `PropertyGraph` | the abstract specification: a graph and at most one working copy, published whole by a commit |
| `PebbleTx` | the store: the key space, the transactions with their caches, one action for each call of the store |
| `PebbleGraph` | `PebbleTx` under the refinement mapping to `PropertyGraph`: the graph the store's own readers return |
| `MCPebbleTx` | the small instances TLC checks |
| `PebbleTxProofs` | the theorems about types, rows and endpoints in `PebbleTx`, and their proofs |
| `PebbleViewProofs` | the theorems about records, cache, counters and DETACH DELETE, for one writer, and the proof that `PebbleTx` implements `PropertyGraph` |
| `IndexLifecycle` | one property index: CREATE, DROP, restarted builds, the worker and its job, writers, faults, crashes |
| `MCIndexLifecycle` | the small instances TLC checks |
| `IndexLifecycleProofs` | theorems about types and the revisions of the job in `IndexLifecycle`, and their proofs |
| `IndexCoverProofs` | theorems about what a build covers and what it leaves as it is, and their proofs |
| `CypherPattern` | graphs, patterns and rows, and the reference: what matching a clause means |
| `QueryTable` | the abstract specification of reading clauses: a bag of rows, each replaced by its answers |
| `MatchRows` | the operator that expands MATCH and OPTIONAL MATCH, with what the planner puts around it |
| `ProjectRows` | the operators of WITH, RETURN and UNWIND: projection, grouping, sorting, pagination |
| `ReadQuery` | a reading query: the operators run one after another, and what they must answer |
| `MCReadQuery` | its graphs and queries for TLC |
| `WriteStatement` | requests of MATCH, CREATE, MERGE and DELETE: prediction of ids, events, the applier, commits |
| `MCWriteStatement` | its graphs and programs for TLC |
| `WriteStatementProofs` | the theorems about types, additions and dangling edges in `WriteStatement`, and their proofs |
| `WriteClauseProofs` | the theorems about what a DELETE takes and what a MERGE adds, and their proofs |
| `WriteCountProofs` | the theorems about counts and about what a MERGE leaves there, and their proofs |
| `WriteRowProofs` | the theorems about what a CREATE makes for its rows and what their ids denote, and their proofs |

The modules meet where the code does. `WriteStatement` has a `MATCH` in one line
(`Matches`) because `ReadQuery` establishes what the operator answers for such
parts, and takes from `PebbleTx` what a transaction shows of itself to a caller:
vertices, edges, the committed count of a type, and the pair counts with the cache
they are updated from. `PebbleTx` in turn takes for granted that callers look up
the endpoints of an edge and the ids they write new; `WriteStatement` has the
callers that do.

### PebbleTx

`db` is the committed key-value map. A key is a tuple that starts with its
prefix: `<<"v", v>>` the vertex record, `"vl"`/`"lv"` the two rows of a label,
`"vp"`/`"pv"` those of a property, `"e"`, `"et"`, `"te"`, `"oa"` (`rf` in the
code), `"ia"` (`rt`) and `"od"` the six rows of an edge, and the statistics
counters, with the pair counts `"odc"` and `"udc"`. A vertex record holds a hash
of labels and properties in the code and the content itself here, since the hash
is only compared. `tx[t]` is the Go struct `tx`: `active` (`~closed`), `batch`,
`base` (`counterBase`), `delta` (`counterDeltas`), `cache` (`vertexCache`).
`calls` only bounds the model.

`Read` is `tx.get` on an indexed batch: the batch's own write or the live
database. Counters come in two sorts that the code treats differently: those
that go through `addToCounter` and are written at `flushCounterDeltas`, and
those `adjustOutEndpointPairCount`, `adjustUndirectedEndpointPairCount` and
`adjustEdgeTypeSourceDegree` write into the batch at once, from a value that
`readCounterMaybeMissing` may answer from its cache (`Tallied`).

Each call is one action that carries everything the Go function does to the
batch, the counters and the caches: `putVertexesByMeta` with its early exit for
unchanged vertices, `putEdgesByMeta`, the strict delete and its conflict,
`deleteVertexBatch` with detach and the choice between scans per vertex, one scan
of all adjacency (`DetachScanThreshold`) and the purge of the tenant, the patches
that start from the cached vertex, `Commit` with the flush. `Rollback` also
stands for the end of a transaction whose call failed, on the size of the batch
or on an I/O error, since `Store.Update` rolls back on every error. `Crash` loses
what is open and keeps what is committed: commits are synced.

Abstractions. One tenant, since every key starts with the tenant and no call
crosses tenants. Endpoints and type of an edge are functions of its id, as the
ids the write applier allocates contain them; so `edgeMetaCache` has nothing to
get wrong. One property per vertex, none on edges; the order of labels, the
property index rows, the statistics of properties and the epoch of statistics are
left out. Callers resolve endpoints in the same transaction before they create an
edge, which `EndpointsVisible` states as a guard: the store does not check it.
`PutVertexNew` and `PutEdgeNew` are only called for ids looked up and not found.
The edge locks are left out because they live in the transaction (`edgeLocks` is
a field of `tx`, not of `Store`) and so never block anyone.

A call is one step. With one writer that is exact: readers have snapshots and
nobody else commits between the reads of a call. With several writers a commit
may also fall inside a call; the model has only the interleavings at the borders
of calls. So runs with two writers refute properties and establish none.

### PropertyGraph and PebbleGraph

`PropertyGraph` has no keys, counters or caches: `graph` is a function from
vertices to contents and a set of edges, `work` is empty or one working copy.
`PebbleGraph` maps the state of `PebbleTx` to it by reading as the store's
readers do: a vertex by `GetVertex`, from the cache or else from the label and
property rows, an edge by `GetEdge`. Reading of counters is a stutter. So the
refinement says at once that every call does to what a reader sees what its name
says, that a strict delete of a connected vertex changes nothing, and that a
commit publishes exactly what the transaction saw.

### IndexLifecycle

An index has rows in the database, an entry in the catalog (in memory) and, while
it is built, a job whose states are rows of the database too. Its code exists
twice, for vertices and for edges; the module is of one index and `OnEdges` says
which. What differs is where the forward row of the index goes. For a vertex that
is `vp/../<label>/..`, beside the property itself under `vp/../__vertex__/..`; for
an edge it is `EdgePropertyKey`, the key the property of the edge is stored
under. So `PutPropertyIndex` and `DeletePropertyIndex` also write and delete
`stored` when `OnEdges`.

| variable | code |
|---|---|
| `live`, `stored` | the entities and their property rows; an entity may come to have two rows, and readers take the first (`Loaded`) |
| `rows` | the index rows |
| `recs` | the states of the job on record: the state is part of the key, so states of different revisions stand side by side |
| `catalog` | `indexschema.Catalog` has the index |
| `proc` | where the worker and each session is, with the locals of its call: the job it read, the vertex it is at, the rows it read |
| `due` | history: the entities nobody wrote since the last build was asked for |
| `used` | how much of each bound is spent |

`Newest` is what `listAllPropertyIndexBuildJobRecords` keeps of the states: the
highest revision, and of equal revisions the last in key order, which is that of
the later checkpoint and then the completed one. (The number of entities indexed
stands between those two in a key; it is left out, and could only decide between
states of one revision and one checkpoint.) The worker is `ProcessPendingJobs`,
`AddPropertyIndex`, then for each vertex `NextVertex`, `ReadVertex`, `WriteRows`
(and `WriteOneRow`, when the rows do not fit a batch), `ReplaceJobState`, and
`FinishJob` at the end; `PassLimit` is the 64 vertices after which a pass returns.
A session that calls `processPropertyBuildJobs` does the same. CREATE and a
restarted build end in `ReadRevision` and `PutJob`, two transactions in the code.
DROP is `CollectEntries`, `DeleteEntries` (or `DeleteOneEntry`), `CompleteJobs`,
`DequeueDropped`, `RemovePropertyIndex`.

A step is one transaction or one catalog call, except that the indexing of a
vertex is split into its reads and its commit, since the store checks nothing at
a commit. The lists a DROP and an enqueue make are read transactions of their
own in the code. A write of the graph is one step, at its commit; it adds no
index rows, because the write paths of the code do not. `CallFails`, and
`RevisionUnread` and `PutJobFails` for an enqueue, make a call of the store fail;
`FaultAt` names the places where a run lets that happen. `Crash` loses catalog and
processes; the start that follows fills a configured index before the worker
starts (`applyIndexMigrations`). A start that fails ends the process and is left
out. Left out too: several jobs in one pass, the synchronous CREATE, the progress
reports, the statistics of properties.

### CypherPattern, QueryTable, MatchRows, ProjectRows and ReadQuery

`ReadQuery` runs the clauses of a query: `ExecuteExpandVariantRows` for a MATCH,
`ExecuteProject` for the nodes PROJECT, SORT and PAGINATION of a WITH or RETURN, and
`ExecuteUnwind`. `rows` is `state.Rows`; a row is a function from names to values, a value an entity, null, a
list of edges or a path. The code keeps two cells for a name (`x` and `x.id`);
they are one here.

`MatchRows` is `executeExpandVariantRows` and what it calls. `ExpandMatch` chooses among the code's four shapes: a chain
(`ExpandChain`), a single hop (`ExpandOneHop`), a single variable-length hop, and a
list of parts. `ExpandPatternRow` is `expandPatternRow` with its closures
`scanAndBind` (`ScanAndBind`) and `scanUnbound` (`ScanUnbound`), and
`BoundPairRows` the undirected hop between two bound ends. Variable-length hops
are `ExpandVariableLengthPathRows`; the depth-first walk is the set of the trails
it goes through.

What a reader of the code would not expect is kept: the hidden names
`__ve_chain_cursor`, `__edge.id` and `__ve_conn_i` and when they are cleared
(`StartRows`); the anchor taken for the right end when both ends of a hop have no
name; uniqueness of relationships by the last edge and the edges of path values
only (`Used`); null rows that differ by the way a hop failed; predicates after
the null rows; equal rows sharing one null row. `KnownEmpty` and `AntiProbe` are
the two rewritings of the planner that change what the operator is given.

`ProjectRows` is `projectHandler.Execute`, `executeSort` and
`paginationHandler.Execute`. A projection leaves two lists, the new rows and
`SortSourceRows` (`Projection`), and the sort looks up in the second, by position
and only when the two have one length, what the new row lacks. Kept as in the
code: DISTINCT drops a row before the predicate, from the new list and not from the
other; counts alone make one row, of no rows too; a group is bound under its alias
and its old name (`GroupRow`); a projection drops the hidden names and UNWIND keeps
them. Whether a sort with a limit is a top-K is decided by statistics read before
the transaction, so `ExecuteProject` has both.

`QueryTable` says what a reading clause promises. A MATCH, with `RowAnswers` of
`CypherPattern`: all solutions that use no relationship twice, agree with the row
and satisfy the predicate, or one null row if there is none and the clause is
optional. A projection: entries, each a row with the values it is ordered by
(`Entries`), of which SKIP and LIMIT take a stretch; of entries that compare equal
any may be in it (`Stretches`). `Answered` states that `ReadQuery` implements it,
the table being the bag of the rows without their hidden names; `InOrder` says of
the list what the bag cannot. The reference is written from what the repository's
tests ask of the clauses, not from the operators.

Abstractions: node patterns with at most one label and no properties, predicates
`x:Label` and negated patterns, evaluated by the reference in both. Items of a
projection are variables and `count` of rows, of values or of distinct values;
predicates after it are a label, or a count of at least n; ORDER BY has names, SKIP
and LIMIT literals. Other aggregates and expressions are left out. Ids are ordered
by the constant `IdOrder`, since TLA+ has no order of strings. Directions,
labels and types are data of the pattern; parsing is left out. Nodes are found by
scan or by their binding, never by a property index.

### WriteStatement

A program is a sequence of requests, a request a sequence of clauses, each request
one `Store.Update`. A write clause goes through three phases, the values of `mode`:

| phase | code | actions |
|---|---|---|
| `rows` | `writeHandler.Execute` and `materializeWriteBindings`: for each row, predict ids, bind them, record an event | `ExecuteWrite`, `MaterializeRow` (`MaterializeCreate`, `MaterializeMerge`, `MaterializeDelete`), `RowsDone` |
| `apply` | `applyWriteEventsToSink`: event by event, or all at once | `ApplyCreate`, `ApplyMergeVertex`, `ApplyMergeBatch`, `ApplyMergeSimple`, `ApplyMergeEdge`, `ApplyMergeNothing`, `ApplyDelete`, `Fail` |
| `clause` | the visit loop of `executeInternal` | `ExecuteMatch`, `EndClause`, and `Begin`, `Commit` of the request |

The two halves know different things. `params` is what `state.Params` keeps for
the request: counters for predicted ids, the lookups and the deletions so far.
`scratch` is what the applier keeps for one clause: its counter, caches and the
deletions it has heard of. The rows keep the prediction. A MERGE of an edge is
applied in one of three ways: a batch without lookups, when no edge of the type
was counted at the begin (`IsBatch`); the fast path that believes a pair count
(`HasDirectedEdgeBetween`); or a search of the edges of the pair (`MergedEdge`).

Rows are a set and their order any order, since each row comes from a match or a
creation of its own. Ids are tuples: `EdgeId(a, b, n)` is
`tenant|a|type|b` for n = 0 and has the suffix `auto-e-n` otherwise;
`WriteVertex` is unique by the clock, so the request's number (`nth`) stands in it.
One edge type, no properties; `SET`, `REMOVE`, `ON CREATE`, `ON MATCH`, parameters
for ids and labels on the ends of a MERGE hop are left out. Nodes of a MERGE have a
label and are not bound before.

## The runs

| run | instance | result |
|---|---|---|
| `writer_graph` | 1 writer, 3 vertices, 2 edges of one type (one a loop), 6 calls | `TypeOK`, `RowsAgree`, `CountersExact`, `NoDanglingEdges`, `DetachSpares`, `ImplementsGraph` hold |
| `writer_vertex` | 1 writer, 1 vertex, 2 labels, 2 property values, 5 calls | `VertexRowsMatch`, `CacheCoherent`, `CountersExact`, `ImplementsGraph` hold |
| `skew_dangling` | 2 writers, 2 vertices, 1 edge | violates `NoDanglingEdges` |
| `index_build` | vertex index, 2 vertices, 2 values; worker and a session that creates and processes; 2 writes, 1 crash, 1 fault | `TypeOK`, `CheckpointCovers`, `BuildCovers` hold |
| `index_edges` | edge index, 3 edges at 2 sources, 2 values, a batch of one row; worker and a session that creates and processes; 1 write, 1 crash, 1 fault | `CheckpointCovers`, `BuildCovers`, `BuildFinishes`, `BuildsKeepProperties` hold |
| `index_ddl` | vertex index, 2 sessions, 2 enqueues, 1 DROP, 1 crash, 1 fault | `JobNeverRewinds`, `BuildFinishes` hold |
| `edge_drop` | edge index, 1 CREATE, 1 DROP | violates `OnlyWritesChangeProperties` |
| `read_query` | every graph of 2 vertices and up to 2 edges of 2 types, or 3 of one; queries of 2 or 3 clauses: 18 shapes of MATCH, 14 of WITH, UNWIND | `TypeOK`, `InOrder`, `Answered` hold |
| `path_reuse` | a chain of three named hops on the same graphs | violates `PathUnique` |
| `write_rows` | 4 graphs of up to 3 vertices and 3 edges; programs of 1 or 2 requests with up to two writing clauses, no vertex deleted before a relationship is merged | `TypeOK`, `NoDangling`, `CreateMakesAll`, `MergeCreatesOnce`, `MergedIsThere`, `RowsDenote`, `CountsBelieved`, `DeleteTakesNamed`, `WritesOnlyAdd` hold |
| `merge_row` | two requests, a MERGE of a node each, of different labels | violates `RowsDenote` |
| `merge_lost` | CREATE and MERGE of an edge; its deletion; another MERGE | violates `MergedIsThere` |

`writer_graph`. Three vertices let a detach delete take fewer vertices than the
threshold (2), as many, or all of the tenant; two edges, one of them a loop, give
a vertex incident edges on both sides and an edge counted in one endpoint twice.
Six calls are enough to build a graph, commit it, change it in a second
transaction and delete in a third. `writer_vertex` has no edges, which frees the
states for labels and properties; a vertex can lose, exchange and regain labels
and values inside one transaction and across several.

`index_build` and `index_edges` are about what a build covers. Two vertices give
a checkpoint between them, three edges at two sources a source whose rows do not
fit a batch of one. An entity written after the build was asked for is not
promised a row (`due`), since writers add none; but it still interferes, and a
second process works on the same job. Both runs have a single enqueue, because a
second one can be lost (see the divergences). `index_edges` asks besides that the build
harms no data: the row of an edge index is the property of the edge, so the build
writes every property it covers once more, from values read in an earlier step, and
`BuildsKeepProperties` says that nobody's property changes by that unless it was
written in between. `index_ddl` has two enqueues, and a DROP, and
asks only for what still holds then: revisions grow and a pending job is completed
in the end.

`read_query` has every first MATCH meet every second one, so that a hop is
reached with neither, either or both of its ends bound, to an entity or to null,
on graphs with loops, parallel edges and edges of both types. Three edges are
enough for a trail longer than the two hops a chain remembers. Queries in which
the code is known to answer something else (below) are not among them; in
particular `OPTIONAL MATCH (b)-[s]-(c)` followed by
`OPTIONAL MATCH (a)-[r:T]->(b)`, in which a null right end is taken for an anchor
and its null row leaves `a` unbound. Each MATCH that binds two names is followed by
each projection (`Projections`): with duplicates for DISTINCT, names exchanged, ties
across a limit, a limit below and above the rows there are, an order by what was
projected away, groups of one and of several rows and of nulls; then, in three
clauses, by a projection and another MATCH (`Again`), which finds what was projected
bound and the rest free. `Unwound` takes the edges of a variable-length hop apart.

`write_rows` has the programs of `Small`: every mix of clauses that a request of
up to three of them and a store with or without edges, parallel ones among them, tell apart, the requests
following one another on the store the last one left. Its properties are claimed of such
programs only; the conditions that make them hold in general stand below with the
theorems. That of `NoDangling` is `EndsKept`, which all programs of the run obey: in none
is a vertex deleted before a relationship is merged, the order in which the code
leaves an edge without an end (see the divergences). `MaxNumber` (6) is more than
the numbers any of them uses.

What the violations show:

* `skew_dangling`. One transaction matches both vertices and creates an edge,
  another deletes one of the vertices, which has no edge yet; both commit. The
  documents promise conflict checks; there are none. In the same way two writers
  violate `DetachSpares`: the vertex total one of them has cached is out of date,
  and the purge takes the vertices of the other.
* `edge_drop`. DROP of an edge index deletes the property of the edges. That goes
  on from the shared key and needs no interleaving.
* `path_reuse`. In `(a)-[r]-(b)-[s]-(c)-[t]-(d)` the hop `t` is compared with the
  edge of `s` alone, and takes the edge of `r` again. With a path variable the
  edges of the path are compared too.
* `merge_row`. `MERGE (n:A)` writes its vertex as `auto-mv-1`; a later request's
  `MERGE (m:B)` predicts `auto-mv-1` as well. The applier finds that vertex without
  the label and makes another, but the row, and every clause after it, goes on
  with the vertex of the other label.
* `merge_lost`. In a store without an edge of the type, a CREATE and a MERGE of the
  same edge put it twice under one id, and the pair count is two. After a DELETE
  the count is one, a later MERGE believes it, and no edge is made.

Fairness. `PebbleTx` has none: nothing is claimed to happen eventually there. In
`IndexLifecycle` the steps of the worker are weakly fair, together
(`WF_vars(Build(Worker))`): `runIndexBuildWorker` loops on a ticker and only logs
the error of a pass that failed, and it is started again after a crash. Nothing
else is fair: sessions may stop anywhere and writers need not write. Faults and
crashes are bounded, as `BuildFinishes` cannot hold under faults without end.

Deadlock is checked for `PebbleTx`. It is not for `IndexLifecycle`, where a server
with no job and no call comes to rest, as it should, once the bounds are spent, nor
for `ReadQuery` and `WriteStatement`, whose queries and programs end. These two have
no fairness either: nothing in them waits.

Bounds of `IndexLifecycle`: `MaxEnqueues`, `MaxDrops`, `MaxWrites`, `MaxCrashes`,
`MaxFaults` (how often each happens), `BatchLimit` (rows in a transaction) and
`PassLimit` (vertices in a pass), small enough that builds and DROPs exceed them.
Bounds of `WriteStatement`: `MaxNumber`. Bounds of `ReadQuery`: its graphs and queries alone (`MaxInner` is the
number of inner nodes of the longest chain).
Bounds of `PebbleTx`: `MaxCalls` (calls with reads or writes in a behaviour), `MaxBatch` (ids
in one batched call), the sets of ids, and `DetachScanThreshold`, the number of vertices
from which a detach delete scans all adjacency at once: 32 in the code (tx.go:821),
and 2 here so that both sides of it occur.

Definitions preceded by a comment that starts with "Wrong:" are deliberate
mistakes, one for each property, which break it when put in the place of the
definition that follows.

## What is proved

### The store

`PebbleTxProofs`, for all values of the constants that satisfy the assumptions
`EdgeAssumption`, `ValueAssumption` and `BoundAssumption` of `PebbleTx`:

* `TypeCorrect`: `Spec => []TypeOK`.
* `RowsAgreeAlways`: `Spec => []RowsAgree`, for any number of writers whose calls
  each read at one instant.
* `NoDangling`: with one writer and one edge type, `Spec => []NoDanglingEdges`.
  `skew_dangling` shows that the first assumption is necessary, and a divergence
  described below that the second is.

`RowsAgree` is not inductive: what a commit stores are the batches. `Inv` adds
that every open batch says the same (unwritten, written or deleted) of all rows
of a group (`TxRows`). Its proof rests on one lemma for each way a call writes
rows: the set of keys it writes is a union of whole groups (`Whole`), although
the code collects that set from different reads, which agree because the view
agrees (`ViewTogether`). `NoDangling` strengthens `Inv` once more: every open
transaction sees the endpoints of the edges it sees (`Closed`). The deletions keep
it because with a single type their scans find every incident edge
(`ScansFindAll`); the counters play no part, since a purge leaves no edge
whether or not it was due.

`PebbleViewProofs` adds, with the same assumptions on the constants and one writer:

* `VertexRowsMatchAlways`, `CountersExactAlways`, `CacheCoherentAlways`:
  `Spec => []VertexRowsMatch`, and so on.
* `DetachSparesAlways`: `Spec => DetachSpares`.

All four follow from `ViewInv`, which asks of the writer's own view what the
properties ask of committed states. `VertexOK` says that the rows of a vertex match
its record and that the cache holds that record or nothing; the two go together
because a patch writes back the labels of the cached vertex. `Exact` says of each
counter that it `Stands` at the number there is to count: the value read plus the
increment pending is that number, a base in the cache is the value the view still
reads, and where a value is there but not cached nothing is pending. The last two
parts are what the flush at commit relies on, and what the purge has to restore when
it clears bases and increments halfway through a transaction. For each call
a lemma says by how much it moves every counter (`AddedMoves`, `TalliedMoves`) and
which records it changes. `DetachSpares` needs `Exact` at the call itself: only
then does a selection that is as large as the count select everything
(`FullSelectionIsFull`).

Last in the module: with one writer and one edge type, `Spec => ImplementsGraph`
(`ImplementsGraphAlways`), the refinement of `PropertyGraph`. Under `ViewInv` what
the readers return is the graph of the records and of the edge rows
(`ReadGraphIsView`); every call is then one `Operation` on that graph (`ViewStep`),
which `OperationIsStep` maps to the operation of `PropertyGraph`. Deletions need `Closed`, and
so the single edge type: a purge drops every edge, where the abstract
operation drops the edges of the vertices it is given.

Two writers are left to TLC (`skew_dangling` refutes a property; nothing is
claimed to hold), and so are degrees and pair counts, which no property is about.

### The index

`IndexLifecycleProofs`, for all values of the constants that satisfy
`EntityAssumption` and `ParameterAssumption` of `IndexLifecycle`, so for any number
of sessions, vertices, enqueues, drops, crashes and faults:

* `TypeCorrect`: `Spec => []TypeOK`.
* `RevisionsGrow`: `Spec => JobNeverRewinds`.

`TypeOK` is not inductive: `Newest` is a `CHOOSE` over the states on record, which
has a value among them only if there is a greatest. `IInv` adds that their
revisions have a bound (`BoundedRevisions`), which every step keeps as it adds one
state at most. From it a greatest revision, then a greatest checkpoint, then a
completed state if there is one, are found as elements of sets of naturals
(`GreatestNatural`, from the well-foundedness of the naturals), which is
`NewestExists`. `RevisionsGrow` then needs only that a state is never taken off the
record without a later one put on it (`RecsGrow`).

`IndexCoverProofs`, with the assumptions `MaxEnqueues \in 0..1` and `MaxDrops = 0`
besides, so still for any number of processes, vertices, writes, faults and crashes,
any batch and any pass:

* `CheckpointNeverAhead`: `Spec => []CheckpointCovers`.
* `CompletedBuildCovers`: `Spec => []BuildCovers`.
* `BuildsKeep`: `Spec => BuildsKeepProperties`.

Both assumptions are needed: a second enqueue can be answered by the completed
state of the first, and a DROP deletes the property of edges (`edge_drop`) and
races the worker (see the divergences below).
None of the properties is inductive, since a process works from a state it read long
ago and puts its own back after others have moved on. `CInv` therefore speaks of
every state on record, not only the newest (`RecsCover`), and of the locals of every
process (`WorkCovers`): its own checkpoint is covered, nothing due stands between
that and its next vertex (`Skips`), and of the due entities it holds the rows they
should have and no other (`Holds`), for a write of the graph in between takes the entity
out of `due`. The second half of `Holds` is what `BuildsKeep` rests on: what is put
where the property is stored is the property. `Phases` says that the enqueue comes before all work, which is where
`MaxEnqueues` enters.

Only model-checked: `BuildFinishes`, as liveness is out of reach of the prover.

### Writing statements

Four modules, for any finite graphs that satisfy `GraphAssumption` (ids that say what they
join, endpoints that are there), any programs that satisfy `ProgramAssumption`
(requests of the clauses there are; names of nodes and names of hops are apart; a MATCH
names its part) and any bound on the numbers of ids (`NumberAssumption`).

For every such program:

* `WritesAdd`: `Spec => WritesOnlyAdd`. No event of a CREATE or of a MERGE removes
  or writes over a vertex or an edge that is there. It comes to this: every id
  something is written under was looked up in the same step, or is written only
  where nothing is. For each way the applier puts something there is a lemma that
  its outcome `Adds` to the store, the batch included, which looks nothing up but
  has no edge to write over other than with its own ends, as an id of a pair is
  made from its ends.
* `StatementTypes`: `Spec => []TypeOK`, from `TypeInv`, which gives every part of the
  state its shape: views, counts, rows, parameters, events, the applier's scratch.
  What a CREATE binds part by part is a recursive function on an interval, for which
  induction is done by hand, on the set of the indices it holds for (`SetInduction`,
  `AfterEachPart`).

The other properties do not hold of every program, nor should they be expected to:
the code keeps them under conditions on the order of clauses. `Ordered(q, R)` says that
every two clauses of a request, the earlier and the later one, are a pair of R, and
`Obeyed(R)` that all requests do. The conditions are stated in `WriteStatement`, before
its properties:

| theorem | property | condition | a request it excludes |
|---|---|---|---|
| `EdgesJoinVertices` | `NoDangling` | `EndsKept`: no vertex is deleted before a relationship is merged | `MATCH (a), (b) DETACH DELETE a MERGE (a)-[:T]->(b)`: the row keeps the id of `a`, and no write of an edge reads its ends |
| `DeletionsTakeNamed` | `DeleteTakesNamed` | `EndsKept`, for a purge drops dangling edges too; `HopsMatched`: a relationship is deleted by the name a MATCH gave it, before anything that was read is deleted | `MERGE (a)-[r:T]->(b) DELETE r` where only an edge with a numbered id is there: `r` is bound to the plain id |
| `MergesOnce` | `MergeCreatesOnce` | `MergesApart`: nothing is merged after a deletion, and no label twice | `DELETE r MERGE (a)-[s:T]->(b)` over parallel edges that are deleted; `MERGE (n:B) MERGE (m:B)`, which makes two vertices as the first miss is remembered |
| `CountsRight` | `CountsBelieved` | `CountsKept`: one clause deletes and it is the last that touches a relationship; a hop without a name is merged before any other is made; `DetachesApart`: a DETACH DELETE names vertices or relationships | two MERGEs of hops without names where none was counted: the second batch puts the edge again and counts it; two deletions over parallel edges |
| `MergesAreThere` | `MergedIsThere` | the same | the request of `merge_lost` |
| `CreatesMakeAll` | `CreateMakesAll` | `NamesNew`: a CREATE or a MERGE gives relationships, and nodes that stand alone, names no earlier clause binds, which the parser asks (`shouldRejectSameRoleRebinding`, pattern_validate.go:143) | `MATCH (a)-[r:T]->(b) CREATE (a)-[r:T]->(b)`, which is rejected: over parallel edges the rows would differ only in `r`, and become one |
| `CreatedDenote` | `RowsDenote`, of a CREATE | `NamesNew`; `NamesApart`: the same within one CREATE, which the parser asks as well; `HopsFirst`: nothing is deleted before a CREATE that names a relationship; `GraphsFresh`: the store does not begin with ids the requests predict, which hold the time of the request | `CREATE (a)-[s:T]->(b) DELETE s CREATE (a)-[t:T]->(b)`: `t` is bound to the second id of the pair, and the applier makes the plain one |

None of the conditions is empty: all 1785 programs of `write_rows` obey `EndsKept`,
`HopsMatched`, `NamesNew`, `NamesApart` and `GraphsFresh` (`SmallObeys`, which TLC evaluates), 1783
obey `HopsFirst` (478 of them have a CREATE that names a relationship), 1779 `MergesApart`, and 1740
`CountsKept` and `DetachesApart`. `OrderInv` carries a condition to the clauses that are
still to come.

None of the properties is inductive. What they are strengthened with:

* `WholeInv`, for `EdgesJoinVertices`: while a MERGE of a hop is still to come, every
  vertex id a row binds is that of a vertex, or one that an event which is not yet applied
  will write (`ToBeWritten`); so are the ids that lookups remember.
* `DeleteInv`, for `DeletionsTakeNamed`: until relationships are deleted, the rows' names
  for them are edges that are there (`HopsThere`), and the events of the deletion
  name what the rows name (`Corresponds`). A plain id stands for the first edge of its
  pair; `PlainIsFirst` is why that is the edge itself.
* `EnoughInv`, `FindInv`, `HopInv` and `NodeInv`, for `MergesOnce`. No count is below the
  number of edges, so none counted means none there at the begin; where none was
  counted, every pair with an edge has one with the plain id (`PlainFirst`), which a
  batch therefore finds by writing over it. Added edges are alone in their pair (`Alone`). All
  rows of a MERGE of a node that is not there are given one id (`TakenOne`), and the first
  event writes it or makes a vertex that the rest find.
* `CountInv`, `BatchInv` and `AlikeInv`, for `CountsRight`. Committed count plus increment
  is the number of edges, and no pair count is above the number of edges of its pair. It may
  be below: two edges of a pair put by one transaction are counted once. What is
  pending is computed from the base that was cached first, so the base too must not be above
  the edges, for as long as a clause that touches relationships is still to come. Before a
  batch there must be no edge (`BatchInv`), and after it none of its events left: the
  batch is the longest prefix of events with both ends, and `AlikeInv` says that all rows
  bind the same names, so that of the events of a clause all have both ends or none.
* `ThereInv`, for `MergesAreThere`: every row is answered or has an event still to be
  applied, and the pairs the clause remembers have an edge. A pair count that is
  there is right to be believed because it is positive and not above the edges (`CountInv`).
* `FiniteInv`, `NamesInv` and `MakingInv`, for `CreatesMakeAll`. Rows, vertices and edges are
  finitely many, and the names a CREATE is to give are free in its rows, so that two rows
  never become one. The edges added and the events of hops still to come are together as
  many as rows done times hops of the pattern, and every row has for every hop an edge
  between its ends or an event that will make it; a row done is made of one that is no
  longer in the input (`Origin`).
* `PastInv`, `ChainInv` and `ComingInv`, for `CreatedDenote`. Every id of a vertex that a
  CREATE predicted, wherever it is (store, rows, events, remembered lookups), is of an earlier
  request or has a number this request has taken (`PastInv`); so the id given to a
  new node is nowhere yet, and the first event that binds it is the one that makes
  it, with the label of its own part. The ids predicted for the relationships of a pair are taken
  from the first without a gap (`ChainInv`): when an event is applied that is to make an
  edge, the edges of the pair with lower numbers are there, so the applier, which takes
  the first number that is free, makes that edge unless it is there already.
  `ComingInv` then says of every row that its ids are there or have an event ahead.

Before they were proved TLC checked these invariants on the programs of `write_rows`
that obey the conditions and on several thousand more with three clauses.

Only model-checked: `RowsDenote` of the rows of a MERGE, whose ids are not new. A named MERGE
binds the plain id of its pair, or what an earlier lookup remembered; whether that is there
depends on the numbers earlier requests have deleted, and so on conditions that relate
one request to another, where `HopsFirst` speaks of one only. `ReadQuery` is only model-checked
too: its answers are folds over rows and segments, compared with folds of the reference,
which is induction over data and out of this prover's reach.

## Known divergences that no run shows

Found while modelling, from the code or with a run that is not kept. Each is the
reason why a program, a query or an assumption is as narrow as it is.

The store:

* `tenantEdgeTypes` (tx.go:901) asks the stored counters for the types to scan,
  and the counter of a type that is new in this transaction is still in
  `counterDeltas`. When some other type is known already, the strict delete of an
  endpoint sees no conflict and the detach delete misses the edge. Hence the runs
  of `PebbleTx` with one type, and the assumption of `NoDangling`.
* `adjustOutEndpointPairCount` (tx.go:2184) computes from a cached value that its
  own writes do not refresh, so that a pair count may outlive its edges; an edge
  deleted and made again in one transaction leaves a count of two. `merge_lost`
  shows the consequence another way.

The index:

* A DROP lists the rows (index_ddl.go:82), deletes those and completes the job; the
  worker, which read a vertex before the listing, commits its row after it, and the
  DROP returns with the row in place. Nor does the job stay completed: the DROP puts a
  completed state of the next revision, the worker its own next state, of the same
  revision and with a greater checkpoint (index_jobs.go:670), which is the one that
  counts. The job is pending, and the next pass puts the index back into the catalog
  and builds it. TLC finds both, after 13 steps of one CREATE and one DROP.
* An enqueue reads the last revision and writes the job in two transactions
  (index_jobs.go:115). When the worker or a DROP completes the job in between, a
  completed state stands on record with the same revision and wins: a build
  that was answered with success never runs. `BuildCovers` fails in this way with two
  enqueues, one session and one write. When the listing fails the code goes on with
  revision 1, to the same effect.
* The worker reads a vertex, a writer deletes it, the worker commits the row
  (index_jobs.go:298). Of an edge the row is the property, whose old value would
  come back.

Reading clauses:

* A clause that is given no rows starts from one empty row (default_handlers.go:363),
  so that `MATCH` after a `MATCH` without answers has answers, and a write after it
  is executed. `QueryTable` says nothing of that case.
* A bound null is an entity that no edge touches to a hop, and the null row of an
  OPTIONAL MATCH may then leave a name unbound or set one to null that was bound
  (default_handlers.go:2126); so may the miss of an optional vertex pattern.
* OPTIONAL MATCH of a vertex, or of a variable-length hop, with a predicate drops
  the row when the predicate takes all matches (:608, :400). Equal source rows of
  an optional hop share one null row (:650).
* An undirected hop between two bound ends does not look at their labels (:2338).
* Between the parts of a comma list the hidden cursor is not cleared, so an unnamed
  left end of a later part is anchored to the end of the part before; the names
  `__ve_conn_i` are kept between clauses, so unnamed inner nodes of two chains
  are joined.
* After a variable-length hop, a single hop may take an edge of it again (:2753);
  a path variable excludes its edges from every later clause (:2769).
* `[:A|B*]` is handed to the scan as one type and finds nothing (:1172). A list of
  edges bound before is followed forward whatever the direction of the hop, and an
  empty one is an index out of range (:1019).
* The predicate of `WITH ... ORDER BY ... LIMIT ... WHERE` is part of the PROJECT
  node and takes rows away before the limit counts them (logical/builder.go:114,
  default_handlers.go:3030); of counts alone it is not looked at (:2915).
* A group stays bound under the name it had (:3120): after `WITH a AS x, count(b) AS n`
  a later MATCH finds `a` bound. An item whose variable a row lacks is taken from a
  variable with the name of its alias (:3003).
* ORDER BY a variable that was projected away orders nothing when DISTINCT or a
  predicate has dropped a row (:12397).
* A top-K sort with a parameter for SKIP keeps LIMIT rows and the pagination skips
  among them (physical/builder.go:291).
* The anti-probe of a negated pattern ignores labels, properties and stars
  (physical/builder.go:432). Types are judged empty by counts taken before the
  transaction begins (:396).

Writing clauses:

* `MERGE (n:A) MERGE (m:A)` makes two vertices: the second name predicts an id of
  its own, and a predicted id is written without a search
  (write_applier.go:616).
* CREATE of a named edge between new nodes binds it to `auto-e-1`, the id of no
  edge; between matched nodes that have an edge already it binds the plain id,
  which is the older edge (default_handlers.go:14221, :14249). A named MERGE after
  a DELETE in the same request likewise binds the plain id, though the applier
  takes another; a second named CREATE, after a DELETE of the edge of the first,
  binds the second id of the pair, and the applier makes the plain one.
* A DELETE by plain id takes the first edge of the pair (write_applier.go:3556).
* An undirected MERGE after both directions were deleted makes two edges, as the
  row's deletions hide the one created again (write_applier.go:1405).
* `DETACH DELETE a` and then MERGE of an edge from `a` in one request leaves an
  edge without an endpoint: no write of an edge reads its ends. CREATE writes
  the deleted vertex again.
* A second batch of MERGE edges in a request puts edges of the first again and counts
  them twice (write_applier.go:956).
* `DETACH DELETE r, a`, and two deletions in a request over parallel edges: the second
  computes pair counts from bases the first has not refreshed (tx.go:2184), and leaves a
  count for a pair without an edge.
* Two edges of a pair put by one transaction leave a pair count that is one too low
  when the pair had edges before: a deletion of as many takes the count away from edges that
  are left, and the next MERGE has to look them up.

## Not modelled, and the plan

In this order:

1. Calls of the store split into their reads and writes, for the torn purge and
   the torn deletion of an edge under a second writer.
2. SET and REMOVE with the properties of rows; ON CREATE and ON MATCH.
3. UNION, whose parts run in transactions of their own; the access path of an
   indexed match.
4. Aggregates other than counts, and predicates over properties.

Left out for good: parsing (text to trees, no state) and the generated parser and
messages, which together are a third of the lines; the evaluation of expressions,
most of `default_handlers.go` and of `write.go`, a large library of pure functions
on values with no state to go wrong; text output of plans; metrics; the server's
table of statements; the command line and the benchmarks.
