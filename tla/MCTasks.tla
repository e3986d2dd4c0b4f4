------------------------------ MODULE MCTasks ------------------------------
(***************************************************************************)
(* Instances of TaskManager for TLC.  The map is a line of three stations  *)
(* 1 - 2 - 3, each joined to the next in both directions.                  *)
(***************************************************************************)
EXTENDS TaskManager, TLC

CONSTANTS a1, a2, t1, t2

LineStations == 1..3
LineLines == {<<1, 2>>, <<2, 1>>, <<2, 3>>, <<3, 2>>}
LineRoute == [r \in LineStations \X LineStations |->
    CASE r[1] < r[2] -> [i \in 1..(r[2] - r[1]) |-> r[1] + i]
      [] r[1] > r[2] -> [i \in 1..(r[1] - r[2]) |-> r[1] - i]
      [] r[1] = r[2] -> <<>>]

\* Two vehicles and two tasks nobody cancels: t1 may use any vehicle, is run
\* twice and has a node without station; t2 asks for a1 and matters more.
SteadyHome == (a1 :> 1) @@ (a2 :> 3)
SteadyNodes == (t1 :> <<2, 0, 3>>) @@ (t2 :> <<2, 1>>)
SteadyPriority == (t1 :> 0) @@ (t2 :> 1)
SteadyAssigned == (t1 :> NoAgv) @@ (t2 :> a1)
SteadyRuns == (t1 :> 2) @@ (t2 :> 1)

\* One vehicle, a congested map with a halt station, and two tasks that are
\* both cancelled at any time: t1 for any vehicle, t2 for a1.
CancelHome == (a1 :> 2)
CancelNodes == (t1 :> <<1>>) @@ (t2 :> <<1>>)
CancelPriority == (t1 :> 0) @@ (t2 :> 0)
CancelAssigned == (t1 :> NoAgv) @@ (t2 :> a1)
CancelRuns == (t1 :> 1) @@ (t2 :> 1)

\* One task of two nodes, for any vehicle.
TwoNodes == (t1 :> <<1, 2>>)
OnePriority == (t1 :> 0)
OneAssigned == (t1 :> NoAgv)
OneRuns == (t1 :> 1)
=============================================================================
