------------------------------ MODULE MCFleet ------------------------------
(***************************************************************************)
(* Instances of Fleet for TLC.                                             *)
(*                                                                         *)
(*    1 === 2 === 3    a corridor that is driven both ways, with a         *)
(*          ^          way in from 4; the group is station 3 with the      *)
(*          4          line into it, or two stations.                      *)
(***************************************************************************)
EXTENDS Fleet, TLC

CONSTANTS g1

Points == 1..4
LineEnds == (12 :> <<1, 2>>) @@ (21 :> <<2, 1>>) @@ (23 :> <<2, 3>>)
            @@ (32 :> <<3, 2>>) @@ (42 :> <<4, 2>>)
Lengths == [l \in {12, 21, 23, 32, 42} |-> 1]
Spots == [s \in Points |-> s]
Kinds == [s \in Points |-> "plain"]
Rows == (91 :> 1) @@ (92 :> 2)
Homes == (91 :> 1) @@ (92 :> 4)
LastStation == g1 :> {3, 23}
Junction == g1 :> {2, 1}
=============================================================================
