---------------------------- MODULE PropertyGraph ----------------------------
(***************************************************************************)
(* What the graph store promises a single writer: a property graph in      *)
(* which every edge has its endpoints, and transactions that work on a     *)
(* private copy of it, which a commit publishes whole and anything else    *)
(* discards.  There are no keys, rows, counters or caches here.            *)
(***************************************************************************)
EXTENDS FiniteSets

CONSTANTS
    Vertex, Edge,   \* ids
    Src, Dst,       \* functions: the endpoints of an edge id
    Content,        \* labels and properties of a vertex
    Absent          \* the content of a vertex that does not exist

VARIABLES
    graph,  \* the committed graph
    work    \* {} or {the working copy of the open transaction}

Present(g) == {v \in Vertex : g.vertices[v] # Absent}

Incident(g, V) == {e \in g.edges : {Src[e], Dst[e]} \cap V # {}}

WithoutVertices(g, V) ==
    [ vertices |-> [v \in Vertex |-> IF v \in V THEN Absent ELSE g.vertices[v]],
      edges    |-> g.edges \ Incident(g, V) ]

Init ==
    /\ graph = [vertices |-> [v \in Vertex |-> Absent], edges |-> {}]
    /\ work = {}

Begin == work = {} /\ work' = {graph} /\ UNCHANGED graph

PutVertex(v, c) ==
    \E g \in work :
        /\ work' = {[g EXCEPT !.vertices[v] = c]}
        /\ UNCHANGED graph

PutEdges(E) ==
    \E g \in work :
        /\ UNION {{Src[e], Dst[e]} : e \in E} \subseteq Present(g)
        /\ work' = {[g EXCEPT !.edges = @ \cup E]}
        /\ UNCHANGED graph

DeleteEdges(E) ==
    \E g \in work :
        /\ work' = {[g EXCEPT !.edges = @ \ E]}
        /\ UNCHANGED graph

\* Deleting vertices that still have edges is a conflict: nothing happens.
DeleteVertices(V) ==
    \E g \in work :
        /\ Incident(g, V) = {}
        /\ work' = {WithoutVertices(g, V)}
        /\ UNCHANGED graph

DetachDeleteVertices(V) ==
    \E g \in work :
        /\ work' = {WithoutVertices(g, V)}
        /\ UNCHANGED graph

Commit == work # {} /\ graph' \in work /\ work' = {}

Rollback == work # {} /\ work' = {} /\ UNCHANGED graph

Next ==
    \/ Begin \/ Commit \/ Rollback
    \/ \E v \in Vertex, c \in Content : PutVertex(v, c)
    \/ \E E \in SUBSET Edge : PutEdges(E) \/ DeleteEdges(E)
    \/ \E V \in SUBSET Vertex : DeleteVertices(V) \/ DetachDeleteVertices(V)

Spec == Init /\ [][Next]_<<graph, work>>

=============================================================================
