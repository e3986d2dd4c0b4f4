------------------------------- MODULE Fleet -------------------------------
(***************************************************************************)
(* Who occupies the map while vehicles of the default build are sent from  *)
(* station to station: the part of TaskManager::distributeTask that looks  *)
(* for a path and occupies it, Agv::onLeaveStation and onArriveStation,    *)
(* which give it up, VirtualRosAgv::cancelTask, which does not, a new map, *)
(* a lift that is stopped, and a crash, after which AgvManager::init puts  *)
(* the vehicles back where the database last saw them.                     *)
(*                                                                         *)
(* TaskManager says which vehicle is sent where; here any idle one may be  *)
(* sent anywhere.  Blocks, which make vehicles wait for each other on the  *)
(* way, are in Traffic.                                                    *)
(***************************************************************************)
EXTENDS MapOccupancy, Sequences

CONSTANTS
    Operator,       \* INT_MAX, which occupies the lines of a stopped lift
    Row,            \* vehicle -> its row in the table agv_agv
    Home,           \* vehicle -> the station it is at in the beginning
    Cancellable,    \* vehicles whose tasks may be cancelled
    MaxTrips,       \* bound: trips of each vehicle
    MaxUpsets       \* bound: new maps, stopped lifts and crashes

Vehicle == Agv \ {Operator}

ASSUME FleetAssumption ==
    /\ Operator \in Agv
    /\ Row \in [Vehicle -> Nat]
    /\ \A v, w \in Vehicle : Row[v] = Row[w] => v = w
    /\ Home \in [Vehicle -> Station]
    /\ \A v, w \in Vehicle : Home[v] = Home[w] => v = w
    /\ MaxTrips \in Nat /\ MaxUpsets \in Nat
    /\ Cancellable \subseteq Vehicle

VARIABLES
    now, last,      \* nowStation, lastStation; nextStation plays no part
    saved,          \* both, as in the database
    path, pos,      \* excutespaths, and which of its lines comes next
    pc,             \* where the thread that drives the vehicle is
    toFree,         \* what onArriveStation has still to free
    cancelled,      \* isStop and isCancel of the vehicle's task
    plan,           \* what distributeTask is about to occupy, for whom
    past,           \* history: "spoilt" if a cancel or a map took from it
    trips, upsets   \* counted for the bounds

agvVars == <<now, last, saved, path, pos, pc, toFree, cancelled>>
boundVars == <<trips, upsets>>
vars == <<mapVars, agvVars, plan, past, boundVars>>

NoPlan == [agv |-> 0, aim |-> 0, path |-> <<>>, lines |-> <<>>]

From(v) == IF now[v] # 0 THEN now[v] ELSE last[v]

-----------------------------------------------------------------------------
(* Occupying and freeing *)

\* An element joins or leaves the list of a group; the vehicle that does this
\* becomes the group's owner unless the list is empty.
Joins(g, e, v) == [owner |-> v, spirits |-> groupOcc[g].spirits \cup {e}]
Leaves(g, e, v) ==
    LET rest == groupOcc[g].spirits \ {e}
    IN  IF rest = {} THEN NoEntry ELSE [owner |-> v, spirits |-> rest]

JoinGroups(e, v) ==
    groupOcc' = [g \in Group |-> IF g \in GroupsOf(e) THEN Joins(g, e, v)
                                 ELSE groupOcc[g]]
LeaveGroups(e, v) ==
    groupOcc' = [g \in Group |-> IF g \in GroupsOf(e) THEN Leaves(g, e, v)
                                 ELSE groupOcc[g]]

AddOccuStation(s, v) ==
    /\ stationOcc' = [stationOcc EXCEPT ![s] = v]
    /\ JoinGroups(s, v) /\ UNCHANGED lineOcc

AddOccuLine(l, v) ==
    /\ lineOcc' = [lineOcc EXCEPT ![l] = @ \cup {v}]
    /\ JoinGroups(l, v) /\ UNCHANGED stationOcc

\* Broken variant: the station is freed whoever it belongs to.
FreeAnyStation(s, v) ==
    /\ stationOcc' = [stationOcc EXCEPT ![s] = 0]
    /\ LeaveGroups(s, v) /\ UNCHANGED lineOcc

FreeStation(s, v) ==
    /\ stationOcc' = [stationOcc EXCEPT ![s] = IF @ = v THEN 0 ELSE @]
    /\ LeaveGroups(s, v) /\ UNCHANGED lineOcc

FreeLine(l, v) ==
    /\ lineOcc' = [lineOcc EXCEPT ![l] = @ \ {v}]
    /\ LeaveGroups(l, v) /\ UNCHANGED stationOcc

\* AgvManager::init calls setPosition for each vehicle in the order of its
\* row.  A vehicle that was between two stations occupies nothing: its
\* nextStation was 0.  The last row that touches a group owns it.
LastRow(vs) == CHOOSE v \in vs : \A w \in vs : Row[w] <= Row[v]
StationsOf(where) ==
    LET at(s) == {v \in Vehicle : where[v].now = s}
    IN  [s \in Station |-> IF at(s) = {} THEN 0 ELSE LastRow(at(s))]
GroupsTaken(where) ==
    LET in(g) == {v \in Vehicle : g \in GroupsOf(where[v].now)}
    IN  [g \in Group |-> IF in(g) = {} THEN NoEntry
                         ELSE [owner |-> LastRow(in(g)),
                               spirits |-> {where[v].now : v \in in(g)}]]

AtHome == [v \in Vehicle |-> [now |-> Home[v], last |-> Home[v]]]

\* The program has started with every vehicle at its home.
Init ==
    /\ saved = AtHome /\ now = Home /\ last = Home
    /\ lineOcc = [l \in Line |-> {}]
    /\ stationOcc = StationsOf(AtHome) /\ groupOcc = GroupsTaken(AtHome)
    /\ path = [v \in Vehicle |-> <<>>] /\ pos = [v \in Vehicle |-> 1]
    /\ pc = [v \in Vehicle |-> "idle"]
    /\ toFree = [v \in Vehicle |-> <<>>]
    /\ cancelled = [v \in Vehicle |-> FALSE]
    /\ plan = NoPlan
    /\ past = [v \in Vehicle |-> "clean"]
    /\ trips = [v \in Vehicle |-> 0] /\ upsets = 0

-----------------------------------------------------------------------------
(* The distributor: distributeTask *)

Route == INSTANCE ShortestRoute WITH MaxHops <- Cardinality(Station) - 1,
                                     question <- 0, answer <- 0

\* getBestPath for vehicle v; PathSearch shows that these are the paths.
BestPaths(v, aim) ==
    LET uturn == UturnPoints(From(v), aim)
        lines == {l \in Line : Passable(l, v, uturn)}
    IN  IF StationFree(From(v), v) /\ StationFree(aim, v)
        THEN Route!Shortest(Route!PathsOver(lines, From(v), aim)) ELSE {}

\* status == AGV_STATUS_IDLE
Idle(v) == pc[v] = "idle"

\* A path for a vehicle that is idle.
Plan(v, aim) ==
    /\ plan = NoPlan /\ Idle(v) /\ trips[v] < MaxTrips
    /\ From(v) # aim
    /\ \E p \in BestPaths(v, aim) :
         plan' = [agv |-> v, aim |-> aim, path |-> p, lines |-> p]
    /\ trips' = [trips EXCEPT ![v] = @ + 1]
    /\ UNCHANGED <<mapVars, agvVars, past, upsets>>

OccupyAim ==
    /\ plan.aim # 0
    /\ AddOccuStation(plan.aim, plan.agv)
    /\ plan' = [plan EXCEPT !.aim = 0]
    /\ UNCHANGED <<agvVars, past, boundVars>>

OccupyLine ==
    /\ plan.aim = 0 /\ plan.lines # <<>>
    /\ AddOccuLine(Head(plan.lines), plan.agv)
    /\ plan' = [plan EXCEPT !.lines = Tail(@)]
    /\ UNCHANGED <<agvVars, past, boundVars>>

\* excuteTask: the vehicle's status is TASKING, a thread of the pool drives it.
Dispatch ==
    /\ plan # NoPlan /\ plan.aim = 0 /\ plan.lines = <<>>
    /\ pc' = [pc EXCEPT ![plan.agv] = "ready"]
    /\ path' = [path EXCEPT ![plan.agv] = plan.path]
    /\ pos' = [pos EXCEPT ![plan.agv] = 1]
    /\ cancelled' = [cancelled EXCEPT ![plan.agv] = FALSE]
    /\ plan' = NoPlan
    /\ UNCHANGED <<mapVars, now, last, saved, toFree, past, boundVars>>

-----------------------------------------------------------------------------
(* A vehicle: excutePath, goStation, onLeaveStation, onArriveStation *)

Goto(v, a, b) == pc[v] = a /\ pc' = [pc EXCEPT ![v] = b]
Over(v) == cancelled[v] \/ pos[v] > Len(path[v])
Road(v) == path[v][pos[v]]

\* onLeaveStation, up to the update of the database.
Leave(v) ==
    /\ ~Over(v) /\ now[v] # 0
    /\ Goto(v, "ready", "left")
    /\ FreeStation(now[v], v)
    /\ last' = [last EXCEPT ![v] = now[v]]
    /\ now' = [now EXCEPT ![v] = 0]
    /\ UNCHANGED <<saved, path, pos, toFree, cancelled, plan, past, boundVars>>

\* A vehicle that is between two stations when its path begins leaves none.
GoOn(v) ==
    /\ ~Over(v) /\ now[v] = 0
    /\ Goto(v, "ready", "moving")
    /\ UNCHANGED <<mapVars, now, last, saved, path, pos, toFree, cancelled,
                   plan, past, boundVars>>

\* The update of the database in onLeaveStation and in onArriveStation.
Record(v) ==
    /\ \/ Goto(v, "left", "moving")
       \/ toFree[v] = <<>> /\ Goto(v, "freeing", "arrived")
    /\ saved' = [saved EXCEPT ![v] = [now |-> now[v], last |-> last[v]]]
    /\ UNCHANGED <<mapVars, now, last, path, pos, toFree, cancelled, plan,
                   past, boundVars>>

\* What onArriveStation frees at the end of line n of the path: every line so
\* far and every station on them but the last.  Broken variants: the stations
\* only, all but the last line.
BehindStations(p, n) == [k \in 1..n |-> Start(p[k])]
BehindLastLine(p, n) == [k \in 1..n |-> IF k < n THEN p[k] ELSE Start(p[k])]
Behind(p, n) ==
    [k \in 1..(2 * n) |-> IF k % 2 = 1 THEN Start(p[(k + 1) \div 2])
                          ELSE p[k \div 2]]

Arrive(v) ==
    /\ Goto(v, "moving", "freeing")
    /\ now' = [now EXCEPT ![v] = End(Road(v))]
    /\ toFree' = [toFree EXCEPT ![v] = Behind(path[v], pos[v])]
    /\ UNCHANGED <<mapVars, last, saved, path, pos, cancelled, plan, past,
                   boundVars>>

FreeNext(v) ==
    LET e == Head(toFree[v])
    IN  /\ pc[v] = "freeing" /\ toFree[v] # <<>>
        /\ IF e \in Station THEN FreeStation(e, v) ELSE FreeLine(e, v)
        /\ toFree' = [toFree EXCEPT ![v] = Tail(@)]
        /\ UNCHANGED <<now, last, saved, path, pos, pc, cancelled, plan, past,
                       boundVars>>

\* goStation returns to the loop over the stations.
NextStation(v) ==
    /\ Goto(v, "arrived", "ready")
    /\ last' = [last EXCEPT ![v] = now[v]]
    /\ pos' = [pos EXCEPT ![v] = @ + 1]
    /\ UNCHANGED <<mapVars, now, saved, path, toFree, cancelled, plan, past,
                   boundVars>>

\* The path is over, or goStation sees that the vehicle is stopped.
Finish(v) ==
    /\ \/ Over(v) /\ Goto(v, "ready", "idle")
       \/ cancelled[v] /\ Goto(v, "moving", "idle")
    /\ UNCHANGED <<mapVars, now, last, saved, path, pos, toFree, cancelled,
                   plan, past, boundVars>>

\* VirtualRosAgv::cancelTask: what the path has occupied stays occupied.
Cancel(v) ==
    /\ v \in Cancellable /\ pc[v] # "idle" /\ ~cancelled[v]
    /\ cancelled' = [cancelled EXCEPT ![v] = TRUE]
    /\ past' = [past EXCEPT ![v] = "spoilt"]
    /\ UNCHANGED <<mapVars, now, last, saved, path, pos, pc, toFree, plan,
                   boundVars>>

-----------------------------------------------------------------------------
(* Upsets *)

Upset == upsets < MaxUpsets /\ upsets' = upsets + 1

\* interSetMap, with the map there is.  That no task is being done is asked
\* before the map is cleared, and nothing keeps the distributor from sending
\* vehicles meanwhile: at any moment a map may be cleared for which the question
\* was asked earlier, when all was idle.  Groups keep their owners.
SetMap ==
    /\ Upset
    /\ lineOcc' = [l \in Line |-> {}]
    /\ stationOcc' = [s \in Station |-> 0]
    /\ past' = [v \in Vehicle |-> "spoilt"]
    /\ UNCHANGED <<groupOcc, agvVars, plan, trips>>

\* addOccuGroup: a lift is stopped unless some line of it is occupied.
StopLift(g) ==
    /\ Upset /\ \A l \in Line \cap Spirits[g] : lineOcc[l] = {}
    /\ lineOcc' = [l \in Line |-> IF l \in Spirits[g] THEN {Operator}
                                  ELSE lineOcc[l]]
    /\ UNCHANGED <<stationOcc, groupOcc, agvVars, plan, past, trips>>

\* freeGroup.
StartLift(g) ==
    /\ \E l \in Line \cap Spirits[g] : Operator \in lineOcc[l]
    /\ lineOcc' = [l \in Line |-> IF l \in Spirits[g]
                                  THEN lineOcc[l] \ {Operator}
                                  ELSE lineOcc[l]]
    /\ UNCHANGED <<stationOcc, groupOcc, agvVars, plan, past, boundVars>>

\* The program stops and is started again: the tasks are gone.  A vehicle that
\* was saved at the same station as another does not get it back.
Restart ==
    /\ Upset
    /\ lineOcc' = [l \in Line |-> {}]
    /\ stationOcc' = StationsOf(saved) /\ groupOcc' = GroupsTaken(saved)
    /\ now' = [v \in Vehicle |-> saved[v].now]
    /\ last' = [v \in Vehicle |-> IF saved[v].now # 0 THEN saved[v].now
                                  ELSE saved[v].last]
    /\ saved' = [v \in Vehicle |-> [now |-> now'[v], last |-> last'[v]]]
    /\ path' = [v \in Vehicle |-> <<>>] /\ pos' = [v \in Vehicle |-> 1]
    /\ pc' = [v \in Vehicle |-> "idle"]
    /\ toFree' = [v \in Vehicle |-> <<>>]
    /\ cancelled' = [v \in Vehicle |-> FALSE]
    /\ plan' = NoPlan
    /\ past' = [v \in Vehicle |->
            IF \E w \in Vehicle \ {v} : now'[w] # 0 /\ now'[w] = now'[v]
            THEN "spoilt" ELSE "clean"]
    /\ UNCHANGED trips

-----------------------------------------------------------------------------

Drive(v) == \/ Leave(v) \/ GoOn(v) \/ Record(v) \/ Arrive(v) \/ FreeNext(v)
            \/ NextStation(v) \/ Finish(v)
Distribute == \/ \E v \in Vehicle, s \in Station : Plan(v, s)
              \/ OccupyAim \/ OccupyLine \/ Dispatch

Next ==
    \/ Distribute
    \/ \E v \in Vehicle : Drive(v) \/ Cancel(v)
    \/ SetMap \/ Restart
    \/ \E g \in Group : StopLift(g) \/ StartLift(g)

\* The distributor finishes what it has begun, and a vehicle's thread drives
\* on; Traffic is about vehicles that wait for each other.
Fairness ==
    /\ WF_vars(OccupyAim \/ OccupyLine \/ Dispatch)
    /\ \A v \in Vehicle : WF_vars(Drive(v))

Spec == Init /\ [][Next]_vars /\ Fairness

-----------------------------------------------------------------------------
(* Properties *)

\* The occupancy keeps what Reservations promises, whatever the vehicles, the
\* operator and a crash do between the search for a path and the occupation
\* of its lines (mapmanager.cpp:119-232): "线路的反向占用" (142).
Reserved == INSTANCE Reservations WITH
    None <- 0, Opposite <- Reverse, owner <- stationOcc,
    users <- [l \in Line |-> lineOcc[l] \ {Operator}]
Promise == Reserved!Spec

\* So a line and its opposite are never recorded as occupied by two vehicles,
\* whoever is cancelled and whenever the program restarts: what pathPassable
\* asks of the opposite lines (mapmanager.cpp:692-712) still holds when the
\* lines are occupied.  This is about the records: after a new map, or a cancel
\* or a crash on the way, a vehicle may be on a line it is not recorded on.
NoHeadOn ==
    \A l \in Line : \A k \in Reverse(l) : \A v, w \in Vehicle :
        v \in lineOcc[l] /\ w \in lineOcc[k] => v = w

Ahead(v) == {path[v][i] : i \in pos[v]..Len(path[v])}
Clean(v) == past[v] = "clean"

\* The lines of its path that a vehicle is on or has still to drive; one that a
\* crash has left between two stations has no path.
ToDrive(v) ==
    IF pc[v] = "idle" THEN {}
    ELSE IF pc[v] \in {"freeing", "arrived"}
         THEN {path[v][i] : i \in (pos[v] + 1)..Len(path[v])} ELSE Ahead(v)

\* Two vehicles never drive against each other: none that is on its way has
\* still to drive a line whose opposite another one is on or has to drive, from
\* which a cancel or a new map took nothing either (mapmanager.cpp:692-712,
\* agv.cpp:77-122).
NobodyMeets ==
    \A v, w \in Vehicle : v # w /\ Clean(v) /\ Clean(w) =>
        \A l \in ToDrive(v) : ToDrive(w) \cap Reverse(l) = {}

\* A vehicle on its way occupies every line it has still to drive and the
\* station it is going to, so that no path of another comes against it
\* (agv.cpp:77-122 frees only what is behind it).
HoldsWhatItNeeds ==
    \A v \in Vehicle :
        Clean(v) /\ pc[v] \notin {"idle", "freeing", "arrived"} =>
            /\ \A l \in Ahead(v) : v \in lineOcc[l]
            /\ stationOcc[End(path[v][Len(path[v])])] = v

\* A vehicle that has no task occupies no line and only the station it is at:
\* what its path occupied has been freed on the way, "之前的道路占用全部释放"
\* (agv.cpp:122).  And it does occupy that station, after a crash too, so that
\* nobody is sent there (agv.cpp:38-52).
NothingKept ==
    \A v \in Vehicle : Clean(v) /\ pc[v] = "idle" =>
        /\ now[v] # 0 => stationOcc[now[v]] = v
        /\ plan.agv # v =>
             /\ \A l \in Line : v \notin lineOcc[l]
             /\ \A s \in Station : stationOcc[s] = v => s = now[v]

\* A line a vehicle occupies becomes free again unless its task is cancelled.
LinesFreed ==
    \A v \in Vehicle, l \in Line :
        (v \in lineOcc[l] /\ Clean(v)) ~> (v \notin lineOcc[l] \/ ~Clean(v))
=============================================================================
