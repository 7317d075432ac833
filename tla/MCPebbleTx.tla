----------------------------- MODULE MCPebbleTx -----------------------------
(***************************************************************************)
(* Small instances of PebbleTx for TLC: the vertices a configuration       *)
(* names, and edge ids between v1 and v2, the first two of them.           *)
(***************************************************************************)
EXTENDS PebbleGraph, TLC

CONSTANTS v1, v2, e1, e2, K1, K2

\* e1 leads from v1 to v2; e2, if there, is a loop of v1 of the last type.
MCSrc  == [e \in Edge |-> v1]
MCDst  == [e \in Edge |-> IF e = e1 THEN v2 ELSE v1]
MCType == [e \in Edge |-> IF e = e2 /\ K2 \in Kind THEN K2 ELSE K1]

Writers == Permutations(Tx)
=============================================================================
