------------------------------ MODULE Traffic ------------------------------
(***************************************************************************)
(* Vehicles of the default build that drive through the blocks of the map: *)
(* excutePath and goStation (virtualrosagv.cpp) with onArriveStation and   *)
(* onLeaveStation (agv.cpp), on top of BlockManager.                       *)
(*                                                                         *)
(* A trip is one call of excutePath by the thread that executes a task.    *)
(* TaskManager says which trips there are; here a vehicle without a trip   *)
(* may be given any route from where it is.  Lifts (callMapChange) and     *)
(* lines shorter than one move are left out.                               *)
(***************************************************************************)
EXTENDS BlockManager

CONSTANTS
    Station, Line,  \* the ids of both: different numbers above 0
    Ends,           \* line -> the stations it goes from and to
    Routes,         \* paths the search may answer, with their first station
    Home,           \* where each vehicle starts
    MaxTrips,       \* bound: how many trips a vehicle makes
    Cancellable     \* vehicles whose trips may be cancelled

ASSUME MapAssumption ==
    /\ Spirit = Station \cup Line /\ Station \cap Line = {}
    /\ Spirit \subseteq Nat \ {0}
    /\ Ends \in [Line -> Station \X Station]
    /\ \A k, l \in Line : Ends[k] = Ends[l] => k = l
    /\ Home \in [Agv -> Station]
    /\ MaxTrips \in Nat /\ Cancellable \subseteq Agv

\* MapManager::getMapPathByStartEnd.
Joined(s, t) == \E l \in Line : Ends[l] = <<s, t>>
LineOf(s, t) == CHOOSE l \in Line : Ends[l] = <<s, t>>

\* A shortest path follows lines and visits no station twice.
ASSUME RoutesAssumption ==
    /\ Routes \subseteq Seq(Station)
    /\ \A r \in Routes :
         /\ Len(r) >= 2
         /\ \A i \in 1..(Len(r) - 1) : Joined(r[i], r[i + 1])
         /\ \A i, j \in DOMAIN r : r[i] = r[j] => i = j

VARIABLES
    now, last, next,    \* nowStation, lastStation, nextStation
    route,              \* excutespaths and excutestations: stations in order
    pos,                \* the station of route that goStation is called for
    pc,                 \* where the thread that drives the vehicle is
    paused, stopped,    \* isPaused, isStop
    cancelled,          \* isCancel of the vehicle's task
    trips, past         \* trips begun; history: what has become of them

agvVars == <<now, last, next, route, pos, pc, paused, stopped, cancelled, trips,
             past>>
vars == <<blockVars, agvVars>>

\* setPosition enters the station through onArriveStation.  This finds that
\* nowStation is the station already, takes it for the one the vehicle comes
\* from, and frees the block it has just occupied: at the start nobody
\* occupies anything.
Init ==
    /\ BlockInit /\ spirit = Home
    /\ now = Home /\ last = Home /\ next = [v \in Agv |-> 0]
    /\ route = [v \in Agv |-> <<Home[v]>>]
    /\ pos = [v \in Agv |-> 2]
    /\ pc = [v \in Agv |-> "idle"]
    /\ paused = [v \in Agv |-> FALSE]
    /\ stopped = [v \in Agv |-> FALSE]
    /\ cancelled = [v \in Agv |-> FALSE]
    /\ trips = [v \in Agv |-> 0]
    /\ past = [v \in Agv |-> "new"]

-----------------------------------------------------------------------------

From(v) == IF now[v] # 0 THEN now[v] ELSE last[v]
Dest(v) == route[v][pos[v]]
Road(v) == LineOf(From(v), Dest(v))

\* The line from here to nextStation, if there is one.
HasAhead(v) == Joined(now[v], next[v])
Ahead(v) == LineOf(now[v], next[v])
Goto(v, from, to) == pc[v] = from /\ pc' = [pc EXCEPT ![v] = to]
Answered(v) == phase[v] \in {"yes", "no"}

\* excutePath is called with a new path for a vehicle that has none.
Begin(v) ==
    /\ trips[v] < MaxTrips
    /\ Goto(v, "idle", "wait")
    /\ \E r \in Routes : r[1] = From(v) /\ route' = [route EXCEPT ![v] = r]
    /\ pos' = [pos EXCEPT ![v] = 2]
    /\ stopped' = [stopped EXCEPT ![v] = FALSE]
    /\ cancelled' = [cancelled EXCEPT ![v] = FALSE]
    /\ trips' = [trips EXCEPT ![v] = @ + 1]
    /\ UNCHANGED <<blockVars, now, last, next, paused, past>>

\* The vehicle's task is cancelled and the vehicle stopped (cancelTask).
Cancel(v) ==
    /\ v \in Cancellable /\ pc[v] # "idle" /\ ~cancelled[v]
    /\ cancelled' = [cancelled EXCEPT ![v] = TRUE]
    /\ stopped' = [stopped EXCEPT ![v] = TRUE]
    /\ past' = [past EXCEPT ![v] = "cancelled"]
    /\ UNCHANGED <<blockVars, now, last, next, route, pos, pc, paused, trips>>

\* The loop over the stations is left.
Over(v) == cancelled[v] \/ pos[v] > Len(route[v])

End(v) ==
    /\ Over(v)
    /\ Goto(v, "wait", "idle")
    /\ past' = [past EXCEPT ![v] = IF @ = "new" THEN "driven" ELSE @]
    /\ UNCHANGED <<blockVars, now, last, next, route, pos, paused, stopped,
                   cancelled, trips>>

\* goStation's loop: ask for the blocks of the line, then of its end.  If one
\* is refused, sleep and ask for both again; what was granted is kept.
AskLine(v) ==
    /\ ~Over(v)
    /\ Goto(v, "wait", "line") /\ TryAdd(v, Road(v))
    /\ UNCHANGED <<now, last, next, route, pos, paused, stopped, cancelled,
                   trips, past>>

AskEnd(v) ==
    /\ phase[v] = "yes"
    /\ Goto(v, "line", "end") /\ TryAdd(v, Dest(v))
    /\ UNCHANGED <<now, last, next, route, pos, paused, stopped, cancelled,
                   trips, past>>

\* Broken variant: the answer to the second question is not looked at.
GoAnyway(v) == TRUE
CanGo(v) == phase[v] = "yes"

Busy(v) ==
    /\ \/ phase[v] = "no" /\ Goto(v, "line", "wait")
       \/ Answered(v) /\ ~CanGo(v) /\ Goto(v, "end", "wait")
    /\ UNCHANGED <<blockVars, now, last, next, route, pos, paused, stopped,
                   cancelled, trips, past>>

Ready(v) ==
    /\ Answered(v) /\ CanGo(v)
    /\ Goto(v, "end", "ready")
    /\ UNCHANGED <<blockVars, now, last, next, route, pos, paused, stopped,
                   cancelled, trips, past>>

\* goStation returns to the loop of excutePath; broken variant: both count.
SkipStation(v) == pos' = [pos EXCEPT ![v] = @ + 2]
NextStation(v) == pos' = [pos EXCEPT ![v] = @ + 1]

\* The moving loop, or the test before it, sees that the vehicle is stopped.
GiveUp(v) ==
    /\ pc[v] \in {"ready", "moving"} /\ stopped[v]
    /\ pc' = [pc EXCEPT ![v] = "wait"]
    /\ NextStation(v)
    /\ UNCHANGED <<blockVars, now, last, next, route, paused, stopped,
                   cancelled, trips, past>>

Free2Move(v) == ~stopped[v] /\ ~paused[v]

\* The first move, of a vehicle that was stopped between stations.
MoveOn(v) ==
    /\ Free2Move(v) /\ now[v] = 0
    /\ Goto(v, "ready", "moving")
    /\ UNCHANGED <<blockVars, now, last, next, route, pos, paused, stopped,
                   cancelled, trips, past>>

\* The first move from a station, onLeaveStation: free its blocks, ...
Leave(v) ==
    /\ Free2Move(v) /\ now[v] # 0
    /\ Goto(v, "ready", "leaving") /\ Free(v, {now[v]})
    /\ UNCHANGED <<now, last, next, route, pos, paused, stopped, cancelled,
                   trips, past>>

\* ... ask for those of the line to nextStation, if there is such a line, ...
AskAhead(v) ==
    /\ HasAhead(v)
    /\ Goto(v, "leaving", "leave") /\ TryAdd(v, Ahead(v))
    /\ UNCHANGED <<now, last, next, route, pos, paused, stopped, cancelled,
                   trips, past>>

\* ... and be between stations, paused if it was refused.  The search for the
\* new nextStation compares with a nowStation that is 0 by now: it finds none.
Left(v) ==
    /\ \/ Goto(v, "leaving", "moving") /\ ~HasAhead(v)
          /\ UNCHANGED paused
       \/ Goto(v, "leave", "moving") /\ Answered(v)
          /\ paused' = [paused EXCEPT ![v] = @ \/ phase[v] = "no"]
    /\ now' = [now EXCEPT ![v] = 0]
    /\ last' = [last EXCEPT ![v] = now[v]]
    /\ next' = [next EXCEPT ![v] = 0]
    /\ UNCHANGED <<blockVars, route, pos, stopped, cancelled, trips, past>>

\* The vehicle is there, onArriveStation: ask for the station once more, ...
Arrive(v) ==
    /\ Free2Move(v)
    /\ Goto(v, "moving", "arrive") /\ TryAdd(v, Dest(v))
    /\ UNCHANGED <<now, last, next, route, pos, paused, stopped, cancelled,
                   trips, past>>

\* The station after the one the vehicle is at, in excutestations.
Following(v) == IF pos[v] < Len(route[v]) THEN route[v][pos[v] + 1] ELSE 0

\* The stations and lines behind the vehicle; broken variant: no lines.
StationsBehind(v) == {route[v][i] : i \in 1..(pos[v] - 1)}
Behind(v) == StationsBehind(v) \cup
             {LineOf(route[v][i], route[v][i + 1]) : i \in 1..(pos[v] - 1)}

\* ... be there, free everything behind, ...
Arrived(v) ==
    /\ Answered(v)
    /\ Goto(v, "arrive", "arrived") /\ Free(v, Behind(v))
    /\ now' = [now EXCEPT ![v] = Dest(v)]
    /\ last' = [last EXCEPT ![v] = Dest(v)]
    /\ next' = [next EXCEPT ![v] = Following(v)]
    /\ UNCHANGED <<route, pos, paused, stopped, cancelled, trips, past>>

\* ... look at the blocks of the next line, ...
LookAhead(v) ==
    /\ phase[v] = "yes" /\ HasAhead(v)
    /\ Goto(v, "arrived", "look") /\ Look(v, Ahead(v))
    /\ UNCHANGED <<now, last, next, route, pos, paused, stopped, cancelled,
                   trips, past>>

\* ... and pause if they or the station itself are refused.
GoOn(v) ==
    /\ Answered(v)
    /\ \/ Goto(v, "arrived", "wait") /\ (phase[v] = "no" \/ ~HasAhead(v))
       \/ Goto(v, "look", "wait")
    /\ paused' = [paused EXCEPT ![v] = @ \/ phase[v] = "no"]
    /\ NextStation(v)
    /\ UNCHANGED <<blockVars, now, last, next, route, stopped, cancelled, trips,
                   past>>

\* A step inside one of BlockManager's calls.
Inside(v) == Walk(v) /\ UNCHANGED agvVars

-----------------------------------------------------------------------------

Drive(v) ==
    \/ End(v) \/ AskLine(v) \/ AskEnd(v) \/ Busy(v) \/ Ready(v) \/ GiveUp(v)
    \/ MoveOn(v) \/ Leave(v) \/ AskAhead(v) \/ Left(v) \/ Arrive(v)
    \/ Arrived(v) \/ LookAhead(v) \/ GoOn(v) \/ Inside(v)

Next == \E v \in Agv : Begin(v) \/ Cancel(v) \/ Drive(v)

Spec == Init /\ [][Next]_vars

\* The thread that executes a path is run by the operating system; it polls
\* for the blocks every 500 ms.  Nobody has to begin or to cancel a trip.
FairSpec == Spec /\ \A v \in Agv : WF_vars(Drive(v))

-----------------------------------------------------------------------------
(* Properties *)

Steps == {"idle", "wait", "line", "end", "ready", "leaving", "leave", "moving",
          "arrive", "arrived", "look"}

\* Every variable has its type, and a vehicle on its way goes to a station of
\* its route (virtualrosagv.cpp:74-119).
TypeOK ==
    /\ BlockTypeOK
    /\ now \in [Agv -> Station \cup {0}]
    /\ last \in [Agv -> Station] /\ next \in [Agv -> Station \cup {0}]
    /\ route \in [Agv -> Seq(Station)]
    /\ pos \in [Agv -> Nat]
    /\ \A v \in Agv :
         /\ pos[v] \in 2..(Len(route[v]) + 1)
         /\ pc[v] \notin {"idle", "wait"} => pos[v] \in DOMAIN route[v]
    /\ pc \in [Agv -> Steps]
    /\ paused \in [Agv -> BOOLEAN] /\ stopped \in [Agv -> BOOLEAN]
    /\ cancelled \in [Agv -> BOOLEAN]
    /\ trips \in [Agv -> 0..MaxTrips]
    /\ past \in [Agv -> {"new", "driven", "cancelled"}]

\* From before it leaves a station until it has arrived at the next one, a
\* vehicle occupies the blocks of the line and of the line's end, whatever the
\* other vehicles free and whoever is cancelled (virtualrosagv.cpp:211-231).
Underway(v) == pc[v] \in {"ready", "leaving", "leave", "moving", "arrive"}
HoldsItsRoad ==
    \A v \in Agv : Underway(v) => Holds(v, Road(v)) /\ Holds(v, Dest(v))

\* A vehicle that was never cancelled keeps no block but those of the station
\* it stands at when its path is done: "之前的道路占用全部释放" (agv.cpp:122:
\* everything occupied on the lines before is released).
NothingKept ==
    \A v \in Agv : past[v] = "driven" /\ pc[v] = "idle" =>
        /\ Holds(v, now[v])
        /\ \A o \in occ : o[2] = v => o[3] = now[v]

\* A trip that does not come to an end is that of a vehicle which is paused
\* for ever, or which for ever wants a block that another vehicle occupies.
Hindered(v) ==
    /\ pc[v] \in {"wait", "line", "end"} /\ ~Over(v)
    /\ \E s \in {Road(v), Dest(v)} : \E b \in Elements(BlocksOf[s]) :
          \E w \in Agv \ {v} : Occupies(w, b)
TripsEnd ==
    \A v \in Agv :
        \/ []<>(pc[v] = "idle")
        \/ <>[](paused[v])
        \/ <>[](Hindered(v))
=============================================================================
