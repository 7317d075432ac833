-------------------------- MODULE MCIndexLifecycle --------------------------
(***************************************************************************)
(* Small instances of IndexLifecycle for TLC: vertices a, b and c in key   *)
(* order, or edges of which a and b leave the first vertex and c the       *)
(* second.                                                                 *)
(***************************************************************************)
EXTENDS IndexLifecycle

CONSTANTS a, b, c

MCHome == [e \in Entity |-> IF e = a THEN 1
                            ELSE IF e = b THEN (IF OnEdges THEN 1 ELSE 2)
                            ELSE (IF OnEdges THEN 2 ELSE 3)]
=============================================================================
