------------------------------ MODULE MCStore ------------------------------
(***************************************************************************)
(* An instance of Store for TLC: a task of two nodes and one of one, and   *)
(* two maps, one of which has a line that the database refuses.            *)
(***************************************************************************)
EXTENDS Store

NodesOf == [t \in Task |-> IF t = "long" THEN 2 ELSE 1]
=============================================================================
