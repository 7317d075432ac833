----------------------------- MODULE PebbleGraph -----------------------------
(***************************************************************************)
(* The store with one writer at a time implements PropertyGraph.  The      *)
(* abstract graph is the one the store's own readers return: GetVertex,    *)
(* through the cache or the rows, and GetEdge of each edge id.             *)
(***************************************************************************)
EXTENDS PebbleTx

ReadGraph(s) ==
    [ vertices |-> [v \in Vertex |->
                      IF VertexFound(s, v) THEN VertexGot(s, v).cache[v]
                                           ELSE Absent],
      edges    |-> LoadableEdges(s) ]

\* A reader of the committed state has written nothing.
CommittedGraph == ReadGraph(Idle)

WorkingCopy == {ReadGraph(tx[t]) : t \in {u \in Tx : tx[u].active}}

Graph == INSTANCE PropertyGraph WITH graph <- CommittedGraph, work <- WorkingCopy

\* The calls of a transaction are the operations of a graph, a commit
\* publishes all of them at once, and a rollback or a crash none.
ImplementsGraph == Graph!Spec

=============================================================================
