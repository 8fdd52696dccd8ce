----------------------------- MODULE MCProjection -----------------------------
(* TLC instance of Projection: two processes with different reducers.      *)
EXTENDS Projection

MCReducerOf == [p \in Openers |-> IF p = "p1" THEN "r1" ELSE "r2"]
===============================================================================
