------------------------------ MODULE MCPaths ------------------------------
(***************************************************************************)
(* An instance of PathSearch for TLC.                                      *)
(*                                                                         *)
(*    1 === 2 === 3 -- 6    5 is a loading point, which may only be        *)
(*     \  /  \ /            entered at an end of a path, on the short      *)
(*       5     4            way from 1 to 2; 1, 4 and 6 are halt           *)
(*                          stations, and no line leaves 6.                *)
(***************************************************************************)
EXTENDS PathSearch, TLC

CONSTANTS g1

Points == 1..6
LineEnds == (12 :> <<1, 2>>) @@ (21 :> <<2, 1>>) @@ (23 :> <<2, 3>>)
            @@ (32 :> <<3, 2>>) @@ (15 :> <<1, 5>>) @@ (52 :> <<5, 2>>)
            @@ (24 :> <<2, 4>>) @@ (43 :> <<4, 3>>) @@ (36 :> <<3, 6>>)
Lengths == (12 :> 4) @@ (21 :> 4) @@ (23 :> 5) @@ (32 :> 2)
           @@ (15 :> 1) @@ (52 :> 1) @@ (24 :> 1) @@ (43 :> 3) @@ (36 :> 2)
\* Every station is at a place of its own.
Spots == [s \in Points |-> s]
Kinds == <<"halt", "plain", "plain", "halt", "load", "halt">>
Groups == g1 :> {4, 24}

\* Vehicle 1 asks; vehicle 2 has one of some lines, station 4 or the group, or
\* nothing.  While the map is being changed there is nothing to search.
MCInit ==
    /\ lineOcc \in {[l \in Line |-> IF l = k THEN {2} ELSE {}] :
                        k \in {0, 21, 23, 43}}
    /\ stationOcc \in {[s \in Station |-> IF s = k THEN 2 ELSE 0] :
                           k \in {0, 4}}
    /\ groupOcc \in [Group -> {NoEntry, [owner |-> 2, spirits |-> {4}]}]
    /\ Cardinality({g \in Group : groupOcc[g] # NoEntry})
        + Cardinality({l \in Line : lineOcc[l] # {}})
        + Cardinality({s \in Station : stationOcc[s] # 0}) <= 1
    /\ agv = 1
    /\ SearchInit
    /\ modifying => from = 1

MCSpec == MCInit /\ [][SearchNext]_pathVars /\ WF_pathVars(SearchNext)
=============================================================================
