----------------------------- MODULE PathSearch -----------------------------
(***************************************************************************)
(* How the map looks for a path (mapmap/mapmanager.cpp): getBestPath with  *)
(* getPath, a search over lines in the order of their distance from the    *)
(* start, and getNearestHaltStation, which runs such a search without      *)
(* regard to other vehicles from every free halt station.                  *)
(*                                                                         *)
(* A step is one round of a loop.  The distributor is the only thread that *)
(* searches, and nobody else occupies anything: the occupancy stands still *)
(* here.  getBestPath never turns round (CAN_CHANGE_DIRECTION is false).   *)
(***************************************************************************)
EXTENDS MapOccupancy, Sequences

VARIABLES
    goal,           \* "path": getBestPath; "halt": getNearestHaltStation
    agv, from, to,  \* for whom, where it starts, aimStation
    modifying,      \* mapModifying
    phase,
    color, dist, father,    \* lineDistanceColors
    Q,              \* the lines in the multimap; their key is dist
    index,          \* the line the answer is traced back to
    distance, result,       \* the answer
    halts, halt, nearest    \* halts to come; the nearest so far, how far

searchVars == <<color, dist, father, Q, index, distance, result>>
askVars == <<goal, agv, to, modifying>>
haltVars == <<halts, halt, nearest>>
pathVars == <<mapVars, askVars, from, phase, searchVars, haltVars>>

HaltStations == {s \in Station : Kind[s] = "halt"}

\* The state before a call, whoever occupies what.
SearchInit ==
    /\ goal \in {"path", "halt"}
    /\ agv \in Agv /\ from \in Station /\ to \in Station
    /\ modifying \in BOOLEAN
    /\ goal = "halt" => ~modifying /\ from = to     \* neither is looked at
    /\ phase = IF goal = "path" THEN "ask" ELSE "pick"
    /\ color = [l \in Line |-> "white"]
    /\ dist = [l \in Line |-> Infinity]
    /\ father = [l \in Line |-> 0]
    /\ Q = {} /\ index = 0
    /\ distance = Infinity /\ result = <<>>
    /\ halts = HaltStations /\ halt = 0 /\ nearest = Infinity

-----------------------------------------------------------------------------
(* getPath *)

\* The lines a path may take.  A search from a halt station takes any.
Allowed ==
    LET uturn == UturnPoints(from, to)
    IN  {l \in Line : goal = "halt" \/ Passable(l, agv, uturn)}

\* getBestPath and getPath give up: the map is being changed, or the start or
\* the end belongs to another vehicle.
Open == goal = "halt" \/ ( /\ ~modifying
                           /\ StationFree(from, agv) /\ StationFree(to, agv))

Refuse ==
    /\ phase = "ask" /\ ~Open
    /\ phase' = "done"
    /\ distance' = Infinity /\ result' = <<>>
    /\ UNCHANGED <<mapVars, askVars, from, color, dist, father, Q, index,
                   haltVars>>

There ==
    /\ phase = "ask" /\ Open /\ from = to
    /\ phase' = "done"
    /\ distance' = 0 /\ result' = <<>>
    /\ UNCHANGED <<mapVars, askVars, from, color, dist, father, Q, index,
                   haltVars>>

\* Lines out of the end that another vehicle will come along.
Blocked == {l \in Line : /\ goal = "path" /\ Start(l) = to
                         /\ OthersAmong(lineOcc[l], agv)}

Enter ==
    LET first == {l \in Allowed : Start(l) = from} \ Blocked
    IN  /\ phase = "ask" /\ Open /\ from # to
        /\ phase' = "search"
        /\ color' = [l \in Line |-> IF l \in Blocked THEN "black"
                                    ELSE IF l \in first THEN "gray"
                                    ELSE "white"]
        /\ dist' = [l \in Line |-> IF l \in first THEN Length[l] ELSE Infinity]
        /\ father' = [l \in Line |-> 0]
        /\ Q' = first
        /\ UNCHANGED <<mapVars, askVars, from, index, distance, result,
                       haltVars>>

\* The lines that line l, when its distance is final, makes shorter.
Improved(l) ==
    {m \in Adjacent(l) \cap Allowed :
        \/ color[m] = "white"
        \/ color[m] = "gray" /\ dist[m] > dist[l] + Length[m]}

\* Broken variant: Q is never purged of the line.
KeepInQueue(l, ms) == Q' = Q \cup ms
Requeue(l, ms) == Q' = (Q \cup ms) \ {l}

\* Q.begin(): a line with the least distance.
IsFront(l) == l \in Q /\ \A m \in Q : dist[l] <= dist[m]

Relax(l) ==
    LET ms == Improved(l)
    IN  /\ phase = "search" /\ IsFront(l)
        /\ color' = [m \in Line |-> IF m = l THEN "black"
                                    ELSE IF m \in ms THEN "gray" ELSE color[m]]
        /\ dist' = [m \in Line |-> IF m \in ms THEN dist[l] + Length[m]
                                   ELSE dist[m]]
        /\ father' = [m \in Line |-> IF m \in ms THEN l ELSE father[m]]
        /\ Requeue(l, ms)
        /\ UNCHANGED <<mapVars, askVars, from, phase, index, distance, result,
                       haltVars>>

\* The nearest of the lines into the end; broken variant: any of them.
IsReached(l, into) == l \in into
IsNearest(l, into) == l \in into /\ \A m \in into : dist[l] <= dist[m]

\* The answer ends with that line, or there is none: index is 0.
Choose ==
    LET into == {l \in Line : End(l) = to /\ dist[l] < Infinity}
    IN  /\ phase = "search" /\ Q = {}
        /\ phase' = "trace" /\ result' = <<>>
        /\ IF into = {}
             THEN index' = 0 /\ distance' = Infinity
             ELSE \E l \in into : /\ IsNearest(l, into)
                                   /\ index' = l /\ distance' = dist[l]
        /\ UNCHANGED <<mapVars, askVars, from, color, dist, father, Q,
                       haltVars>>

Trace ==
    /\ phase = "trace" /\ index # 0
    /\ result' = <<index>> \o result
    /\ index' = father[index]
    /\ UNCHANGED <<mapVars, askVars, from, phase, color, dist, father, Q,
                   distance, haltVars>>

Traced ==
    /\ phase = "trace" /\ index = 0
    /\ phase' = "done"
    /\ UNCHANGED <<mapVars, askVars, from, searchVars, haltVars>>

-----------------------------------------------------------------------------
(* getNearestHaltStation *)

\* A halt station that belongs to another vehicle is passed over.  One in a
\* group of type HALT_GROUP that another vehicle owns is not: the "continue"
\* for it goes on with the next group.
SkipHalt(h) ==
    /\ phase = "pick" /\ h \in halts /\ ~StationFree(h, agv)
    /\ halts' = halts \ {h}
    /\ UNCHANGED <<mapVars, askVars, from, phase, searchVars, halt, nearest>>

TryHalt(h) ==
    /\ phase = "pick" /\ h \in halts /\ StationFree(h, agv)
    /\ phase' = "ask" /\ from' = h
    /\ halts' = halts \ {h}
    /\ UNCHANGED <<mapVars, askVars, searchVars, halt, nearest>>

\* Broken variant: the last halt station wins.
Latest == TRUE
IsCloser == distance < nearest

KeepHalt ==
    /\ phase = "done" /\ goal = "halt"
    /\ phase' = "pick"
    /\ IF IsCloser THEN halt' = from /\ nearest' = distance
                   ELSE UNCHANGED <<halt, nearest>>
    /\ UNCHANGED <<mapVars, askVars, from, searchVars, halts>>

Found ==
    /\ phase = "pick" /\ halts = {}
    /\ phase' = "found"
    /\ UNCHANGED <<mapVars, askVars, from, searchVars, haltVars>>

-----------------------------------------------------------------------------

SearchNext ==
    \/ Refuse \/ There \/ Enter \/ Choose \/ Trace \/ Traced
    \/ \E l \in Line : Relax(l)
    \/ \E h \in halts : SkipHalt(h) \/ TryHalt(h)
    \/ KeepHalt \/ Found

\* The search waits for nobody.
SearchSpec == SearchInit /\ [][SearchNext]_pathVars /\ WF_pathVars(SearchNext)

-----------------------------------------------------------------------------
(* Properties *)

\* The lines in the multimap are the gray ones, each with the distance by its
\* father, and no line that is done is farther than one that is not: so what
\* is black never has to be looked at again (mapmanager.cpp:1078-1124).
Labelled(l) == color[l] # "white" /\ l \notin Blocked
FrontierExact ==
    phase \in {"search", "trace"} =>
        /\ Q = {l \in Line : color[l] = "gray"}
        /\ \A l \in Line : Labelled(l) =>
             IF father[l] = 0
               THEN Start(l) = from /\ dist[l] = Length[l]
               ELSE /\ l \in Adjacent(father[l])
                    /\ color[father[l]] = "black"
                    /\ Labelled(father[l])
                    /\ dist[l] = dist[father[l]] + Length[l]
        /\ \A l \in Line, m \in Q :
             Labelled(l) /\ color[l] = "black" => dist[l] <= dist[m]

\* The question of each search and what it answers.  The lines it may take
\* include those out of the end, which the code blackens: no shortest path
\* takes one.
Search == INSTANCE ShortestRoute WITH
    MaxHops <- Cardinality(Station) - 1,
    question <- [from |-> from, to |-> to, open |-> Open,
                 lines |-> Allowed],
    answer <- IF phase \in {"done", "pick", "found"}
              THEN [distance |-> distance, lines |-> result]
              ELSE [distance |-> Infinity, lines |-> <<0>>]

\* DISTANCE_INFINITY is INT_MAX: no path of the map is that long.
ASSUME RoadsAssumption ==
    \A s, e \in Station : \A p \in Search!PathsOver(Line, s, e) :
        Search!LengthOf(p) < Infinity

\* Each search ends, and answers a shortest path over the lines it may take:
\* "最优路径", the best path (mapmanager.cpp:665).
AnswersShortest == Search!Spec

\* How far it is from halt station h to the aim if nobody is in the way.
HowFar(h) ==
    (CHOOSE a \in Search!Answers([from |-> h, to |-> to, lines |-> Line,
                                  open |-> TRUE]) : TRUE).distance

\* The halt station found is one that no other vehicle has and from which the
\* aim can be reached, and there is no nearer one: "距离 目标点位 最近的躲避点"
\* (mapmanager.cpp:785).
FoundHalts == {h \in HaltStations : StationFree(h, agv) /\ HowFar(h) < Infinity}
NearestHalt ==
    phase = "found" =>
        /\ (halt = 0) <=> (FoundHalts = {})
        /\ halt # 0 => /\ halt \in FoundHalts
                       /\ \A h \in FoundHalts : HowFar(halt) <= HowFar(h)
=============================================================================
