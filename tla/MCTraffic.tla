----------------------------- MODULE MCTraffic -----------------------------
(***************************************************************************)
(* Instances of Traffic for TLC: a junction at station 2, which vehicles   *)
(* reach from 1 and from 4 and leave for 3.                                *)
(*                                                                         *)
(*    1 --- 2 --- 3        block b1: station 2 and the lines into it;      *)
(*          |              block b2: station 3 and the line 2 - 3.         *)
(*          4                                                              *)
(***************************************************************************)
EXTENDS Traffic, TLC

CONSTANTS v1, v2, b1, b2

Stations == 1..4
Lines == {12, 42, 23, 21}
LineEnds == (12 :> <<1, 2>>) @@ (42 :> <<4, 2>>) @@ (23 :> <<2, 3>>)
            @@ (21 :> <<2, 1>>)
Spirits == Stations \cup Lines
Blocks == [s \in Spirits |->
    CASE s \in {2, 12, 42} -> <<b1>>
      [] s = 3 -> <<b2>>
      [] s = 23 -> <<b1, b2>>
      [] OTHER -> <<>>]
Ways == {<<1, 2, 3>>, <<2, 3>>, <<4, 2>>, <<4, 2, 1>>, <<2, 1>>}
Homes == (v1 :> 1) @@ (v2 :> 4)
=============================================================================
