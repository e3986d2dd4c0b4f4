---------------------------- MODULE TaskManager ----------------------------
(***************************************************************************)
(* The life of a transport task in the dispatcher (taskmanager.cpp) on the *)
(* vehicles of the default build (virtualrosagv.cpp) and the thread pool   *)
(* that runs everything (utils/threadpool.h).                              *)
(*                                                                         *)
(* Actors: one distributor thread, which scans toDistributeTasks while it  *)
(* holds toDisMtx; the slots of the pool, each running one job at a time;  *)
(* and the clients, whose create and cancel requests become jobs of the    *)
(* same pool.  A job "run" executes one node of a task on its vehicle.     *)
(*                                                                         *)
(* Every access to a list is one step because it happens under the list's  *)
(* mutex.  Only the distributor holds toDisMtx across steps, so "toDisMtx  *)
(* is free" is ~scanning.  One call of distributeTask is one step.         *)
(*                                                                         *)
(* The map is abstract: Route gives the line search's answer, and when     *)
(* Congested holds the occupancy of the map may hide any route.            *)
(***************************************************************************)
EXTENDS Naturals, Sequences, FiniteSets

CONSTANTS
    Task, Agv, Slot,    \* tasks, vehicles, free threads of g_threadPool
    NoTask, NoAgv,      \* nullptr, and excuteAgv = 0
    Station,            \* the stations of the map: numbers above 0
    Line,               \* the lines of the map: pairs of stations
    Route,              \* getBestPath: pair of stations -> stations to visit
    Halt,               \* stations of type Map_Point_Type_HALT
    Congested,          \* may other occupants of the map hide a route?
    Home,               \* where each vehicle starts
    MaxPriority,        \* priorities are 0..MaxPriority
    Priority,           \* task -> priority
    Nodes,              \* task -> its aim stations, in order; 0 = no station
    Assigned,           \* task -> the vehicle its creator asked for, or NoAgv
    RunTimes,           \* task -> how many times it is to be run
    MayFail,            \* tasks whose things may return result() = false
    Cancellable         \* tasks some client asks to cancel (once each)

Aim == Station \cup {0}

\* An entry of task->nodes: an aim station, and the number of the node among
\* those its creator gave, or 0 for a node that distributeTask pushed in front.
Node == [station : Aim, id : Nat]
Job == [op : {"create", "run", "cancel"}, task : Task]

ASSUME StationAssumption == Station \subseteq Nat \ {0} /\ Halt \subseteq Station
ASSUME RouteAssumption ==
    /\ Line \subseteq Station \X Station
    /\ Route \in [Station \X Station -> Seq(Station)]

\* Stations that follow lines, up to the one that was asked for (getPath walks
\* back from it; PathSearch models the search).
Leads(r, s) ==
    /\ r # <<>> /\ r[Len(r)] = s
    /\ \A i \in 1..(Len(r) - 1) : <<r[i], r[i + 1]>> \in Line
ASSUME RoutesLead == \A s, e \in Station : Route[<<s, e>>] # <<>> =>
    Leads(Route[<<s, e>>], e) /\ <<s, Route[<<s, e>>][1]>> \in Line
ASSUME TaskAssumption ==
    /\ NoTask \notin Task
    /\ Priority \in [Task -> 0..MaxPriority]
    /\ Nodes \in [Task -> Seq(Aim)]
    /\ RunTimes \in [Task -> Nat]
    /\ Assigned \in [Task -> Agv \cup {NoAgv}]
    /\ Cancellable \subseteq Task /\ MayFail \subseteq Task
ASSUME AgvAssumption == NoAgv \notin Agv /\ Home \in [Agv -> Station]
ASSUME PriorityAssumption == MaxPriority \in Nat
ASSUME CongestedAssumption == Congested \in BOOLEAN

VARIABLES
    \* TaskManager
    toDistribute,   \* priority -> queue of tasks
    doing, done,    \* doingTask and doneTask
    broken,         \* doingTask.erase(end()) hit an empty vector: crashed
    scanning,       \* the distributor holds toDisMtx
    scanPrio, scanPos,  \* its two iterators
    \* AgvTask
    agvOf, nodes, index, path, runs, isCancel, status,
    \* Agv
    currentTask, agvStatus, isStop, now, last,
    \* ThreadPool: the queue, and per thread its step, task and stations left
    jobs, pc, cur, todo,
    \* the clients: tasks created, cancel requests sent
    submitted, asked,
    \* history: the things executed for each task
    served

taskVars == <<agvOf, nodes, index, path, runs, isCancel, status>>
agvVars == <<currentTask, agvStatus, isStop, now, last>>
poolVars == <<jobs, pc, cur, todo>>
listVars == <<toDistribute, doing, done, broken>>
scanVars == <<scanning, scanPrio, scanPos>>
clientVars == <<submitted, asked>>
vars == <<listVars, scanVars, taskVars, agvVars, poolVars, clientVars, served>>

RangeOf(s) == {s[i] : i \in DOMAIN s}
EraseAt(s, i) == SubSeq(s, 1, i - 1) \o SubSeq(s, i + 1, Len(s))

\* std::find: the first position of x in s.
Find(s, x) == CHOOSE i \in DOMAIN s : s[i] = x /\ \A j \in 1..(i - 1) : s[j] # x

Init ==
    /\ toDistribute = [p \in 0..MaxPriority |-> <<>>]
    /\ doing = <<>> /\ done = <<>> /\ broken = FALSE
    /\ scanning = FALSE /\ scanPrio = MaxPriority /\ scanPos = 1
    /\ agvOf = Assigned
    /\ nodes = [t \in Task |-> [i \in 1..Len(Nodes[t]) |->
                                   [station |-> Nodes[t][i], id |-> i]]]
    /\ index = [t \in Task |-> 0]
    /\ path = [t \in Task |-> <<>>]
    /\ runs = RunTimes
    /\ isCancel = [t \in Task |-> FALSE]
    /\ status = [t \in Task |-> "unexcute"]
    /\ currentTask = [a \in Agv |-> NoTask]
    /\ agvStatus = [a \in Agv |-> "idle"]
    /\ isStop = [a \in Agv |-> FALSE]
    /\ now = Home /\ last = Home
    /\ jobs = <<>>
    /\ pc = [w \in Slot |-> "idle"]
    /\ cur = [w \in Slot |-> NoTask]
    /\ todo = [w \in Slot |-> <<>>]
    /\ submitted = {} /\ asked = {}
    /\ served = [t \in Task |-> <<>>]

-----------------------------------------------------------------------------
(* Clients and the thread pool *)

\* A client's create request reaches the server and becomes a job.
RequestCreate(t) ==
    /\ t \notin submitted
    /\ submitted' = submitted \cup {t}
    /\ jobs' = Append(jobs, [op |-> "create", task |-> t])
    /\ UNCHANGED <<listVars, scanVars, taskVars, agvVars, pc, cur, todo,
                   asked, served>>

\* addTask has given t its id, which a client has to name to cancel it.
HasId(t) ==
    /\ t \in submitted
    /\ \A i \in DOMAIN jobs : jobs[i] # [op |-> "create", task |-> t]
    /\ \A w \in Slot : ~(pc[w] = "add" /\ cur[w] = t)

\* A client asks to cancel a task that exists.
RequestCancel(t) ==
    /\ t \in Cancellable \ asked /\ HasId(t)
    /\ asked' = asked \cup {t}
    /\ jobs' = Append(jobs, [op |-> "cancel", task |-> t])
    /\ UNCHANGED <<listVars, scanVars, taskVars, agvVars, pc, cur, todo,
                   submitted, served>>

\* processOneMsg's table, and excuteTask's lambda.
FirstStep(op) ==
    CASE op = "create" -> "add"
      [] op = "run" -> "start"
      [] op = "cancel" -> "cancelQueued"

\* A free thread of the pool takes the oldest job.
TakeJob(w) ==
    /\ pc[w] = "idle" /\ jobs # <<>>
    /\ jobs' = Tail(jobs)
    /\ pc' = [pc EXCEPT ![w] = FirstStep(Head(jobs).op)]
    /\ cur' = [cur EXCEPT ![w] = Head(jobs).task]
    /\ UNCHANGED <<listVars, scanVars, taskVars, agvVars, todo, clientVars,
                   served>>

\* Thread w goes from one step of its job to another.
Goto(w, from, to) == pc[w] = from /\ pc' = [pc EXCEPT ![w] = to]

\* addTask: push_back on the queue of the task's priority, under toDisMtx.
Add(t) ==
    /\ ~scanning
    /\ toDistribute' = [toDistribute EXCEPT ![Priority[t]] = Append(@, t)]
    /\ UNCHANGED <<doing, done, broken>>

\* The create handler, after the task object has been built.
AddNew(w) ==
    /\ Goto(w, "add", "idle")
    /\ Add(cur[w])
    /\ UNCHANGED <<scanVars, taskVars, agvVars, jobs, cur, todo, clientVars,
                   served>>

-----------------------------------------------------------------------------
(* The distributor thread: init's loop and distributeTask *)

\* begin() of a queue; broken variant: one before it.
FrontMinusOne == 0
Front == 1

ScanStart ==
    /\ ~scanning
    /\ scanning' = TRUE /\ scanPrio' = MaxPriority /\ scanPos' = Front
    /\ UNCHANGED <<listVars, taskVars, agvVars, poolVars, clientVars, served>>

\* The queue of one priority is exhausted: the next lower one, or unlock.
ScanNext ==
    /\ scanning
    /\ scanPos \notin DOMAIN toDistribute[scanPrio]
    /\ scanPos' = Front
    /\ scanPrio' = IF scanPrio = 0 THEN MaxPriority ELSE scanPrio - 1
    /\ scanning' = (scanPrio # 0)
    /\ UNCHANGED <<listVars, taskVars, agvVars, poolVars, clientVars, served>>

\* distributeTask is being called for t.
At(t) ==
    /\ scanning
    /\ scanPos \in DOMAIN toDistribute[scanPrio]
    /\ toDistribute[scanPrio][scanPos] = t

\* Broken variants: a task that was dispatched stays in the queue; the scan
\* never moves past a task it could not place.
KeepScanned ==
    scanPos' = scanPos + 1 /\ UNCHANGED <<toDistribute, scanning, scanPrio>>
PassOverNothing == UNCHANGED scanVars

\* distributeTask returned true: pos = erase(pos).  It returned false: ++pos.
EraseScanned ==
    /\ toDistribute' = [toDistribute EXCEPT ![scanPrio] = EraseAt(@, scanPos)]
    /\ UNCHANGED scanVars
PassOver == scanPos' = scanPos + 1 /\ UNCHANGED <<scanning, scanPrio>>

\* Broken variant: off by one, the last node counts as done.
CompletedEarly(t) == index[t] + 1 >= Len(nodes[t])

Completed(t) == index[t] >= Len(nodes[t])
NodeOf(t) == nodes[t][index[t] + 1]

\* finishTask: the vehicle is let go and the task is done.
Finish(t) ==
    /\ At(t) /\ Completed(t) /\ runs[t] <= 1
    /\ IF agvOf[t] = NoAgv
         THEN UNCHANGED <<currentTask, agvStatus>>
         ELSE /\ currentTask' = [currentTask EXCEPT ![agvOf[t]] = NoTask]
              /\ agvStatus' = [agvStatus EXCEPT ![agvOf[t]] = "idle"]
    /\ done' = Append(done, t)
    /\ status' = [status EXCEPT ![t] = "done"]
    /\ EraseScanned
    /\ UNCHANGED <<doing, broken, agvOf, nodes, index, path, runs, isCancel,
                   isStop, now, last, poolVars, clientVars, served>>

\* setDoingIndex(0).
Restart(t) == index' = [index EXCEPT ![t] = 0]

\* One run is over and others are to follow: start again at the first node.
RunAgain(t) ==
    /\ At(t) /\ Completed(t) /\ runs[t] > 1
    /\ Restart(t)
    /\ runs' = [runs EXCEPT ![t] = @ - 1]
    /\ PassOver
    /\ UNCHANGED <<listVars, agvOf, nodes, path, isCancel, status, agvVars,
                   poolVars, clientVars, served>>

\* excuteTask: into doingTask, and a job for the pool.
Excute(t) ==
    /\ doing' = Append(doing, t)
    /\ jobs' = Append(jobs, [op |-> "run", task |-> t])
    /\ UNCHANGED <<done, broken, pc, cur, todo>>

\* A node without a station: its things can be done where the vehicle is.
ExcuteInPlace(t) ==
    /\ At(t) /\ ~Completed(t) /\ NodeOf(t).station = 0
    /\ agvOf[t] # NoAgv /\ currentTask[agvOf[t]] = t
    /\ EraseScanned /\ Excute(t)
    /\ UNCHANGED <<taskVars, agvVars, clientVars, served>>

\* Where the path search starts: nowStation, or lastStation between stations.
From(a) == IF now[a] # 0 THEN now[a] ELSE last[a]

\* getBestPath's answer to a station; empty when the vehicle stands there.
RouteTo(a, s) == IF s = 0 THEN <<>> ELSE Route[<<From(a), s>>]

\* Broken variant: the test of the vehicle's status is missing.
IdleUnchecked(a) == agvStatus[a] \in {"idle", "tasking"}
Idle(a) == agvStatus[a] = "idle"

\* setAgv; broken variant: forgotten.
SetAgvForgotten(t, a) == UNCHANGED agvOf
SetAgv(t, a) == agvOf' = [agvOf EXCEPT ![t] = a]

\* The code after a route was found: occupy, setTask, setPath, setAgv,
\* onTaskStart, excuteTask.
Take(t, a, route) ==
    /\ route # <<>>
    /\ currentTask' = [currentTask EXCEPT ![a] = t]
    /\ agvStatus' = [agvStatus EXCEPT ![a] = "tasking"]
    /\ SetAgv(t, a)
    /\ path' = [path EXCEPT ![t] = route]
    /\ EraseScanned /\ Excute(t)
    /\ UNCHANGED <<index, runs, isCancel, status, isStop, now, last,
                   clientVars, served>>

\* task->push_frontNode of a node without things, to halt station h.
PushHalt(t, h) ==
    nodes' = [nodes EXCEPT ![t] = <<[station |-> h, id |-> 0]>> \o @]

\* May the search for an idle vehicle, or for t's own vehicle, come up empty?
NoIdleRoute(t) ==
    Congested \/ \A a \in Agv : Idle(a) => RouteTo(a, NodeOf(t).station) = <<>>
NoOwnRoute(t) ==
    Congested \/ RouteTo(agvOf[t], NodeOf(t).station) = <<>>

\* t has no vehicle yet, and gets an idle one that has a route to its node.
AssignIdle(t, a) ==
    /\ At(t) /\ ~Completed(t) /\ agvOf[t] = NoAgv
    /\ Idle(a)
    /\ Take(t, a, RouteTo(a, NodeOf(t).station))
    /\ UNCHANGED nodes

\* None has one: an idle vehicle is sent to a halt station to wait.  One that
\* is between stations is only considered after another (haltStation = -1).
AssignHalt(t, a, h) ==
    /\ At(t) /\ ~Completed(t) /\ agvOf[t] = NoAgv
    /\ NoIdleRoute(t)
    /\ Idle(a)
    /\ now[a] # 0 \/ \E b \in Agv \ {a} : Idle(b) /\ now[b] # 0
    /\ Take(t, a, RouteTo(a, h))
    /\ PushHalt(t, h)

\* Broken variant: a task takes its vehicle from the task that has it.
OwnAgvUnchecked(t) ==
    /\ agvOf[t] # NoAgv
    /\ ~(NodeOf(t).station = 0 /\ currentTask[agvOf[t]] = t)

\* The vehicle t was given before, or by its creator, may be used.
OwnAgv(t) ==
    /\ agvOf[t] # NoAgv
    /\ ~(NodeOf(t).station = 0 /\ currentTask[agvOf[t]] = t)
    /\ currentTask[agvOf[t]] = t \/ Idle(agvOf[t])

Continue(t) ==
    /\ At(t) /\ ~Completed(t) /\ OwnAgv(t)
    /\ Take(t, agvOf[t], RouteTo(agvOf[t], NodeOf(t).station))
    /\ UNCHANGED nodes

ContinueHalt(t, h) ==
    /\ At(t) /\ ~Completed(t) /\ OwnAgv(t) /\ NoOwnRoute(t)
    /\ now[agvOf[t]] \notin Halt
    /\ Take(t, agvOf[t], RouteTo(agvOf[t], h))
    /\ PushHalt(t, h)

\* No vehicle, or no way to the node nor to a halt station: try again later.
Postpone(t) ==
    /\ At(t) /\ ~Completed(t)
    /\ IF agvOf[t] = NoAgv
         THEN /\ NoIdleRoute(t)
              /\ Congested \/ \A a \in Agv, h \in Halt :
                                 Idle(a) => RouteTo(a, h) = <<>> \/ now[a] = 0
         ELSE /\ ~(NodeOf(t).station = 0 /\ currentTask[agvOf[t]] = t)
              /\ OwnAgv(t) =>
                   /\ NoOwnRoute(t)
                   /\ \/ Congested
                      \/ now[agvOf[t]] \in Halt
                      \/ \A h \in Halt : RouteTo(agvOf[t], h) = <<>>
    /\ PassOver
    /\ UNCHANGED <<listVars, taskVars, agvVars, poolVars, clientVars, served>>

-----------------------------------------------------------------------------
(* A job "run": the lambda of excuteTask, on a VirtualRosAgv *)

\* Reads the node and, when it has a station, enters excutePath.
Start(w) ==
    LET t == cur[w]
        a == agvOf[t]
        drives == NodeOf(t).station # 0
    IN  /\ Goto(w, "start", IF drives THEN "drive" ELSE "things")
        /\ status' = [status EXCEPT ![t] = "excuting"]
        /\ todo' = [todo EXCEPT ![w] = IF drives THEN path[t] ELSE <<>>]
        /\ isStop' = IF drives THEN [isStop EXCEPT ![a] = FALSE] ELSE isStop
        /\ UNCHANGED <<listVars, scanVars, agvOf, nodes, index, path, runs,
                       isCancel, currentTask, agvStatus, now, last, jobs, cur,
                       clientVars, served>>

Vehicle(w) == agvOf[cur[w]]

\* The vehicle's task, whichever it is, has been cancelled.
VehicleCancelled(a) == currentTask[a] # NoTask /\ isCancel[currentTask[a]]

\* excutePath's loop ends.
PathOver(w) == todo[w] = <<>> \/ VehicleCancelled(Vehicle(w))

\* excutePath's loop: leave it, or call goStation for the next station.
Drive(w) ==
    /\ pc[w] = "drive"
    /\ IF PathOver(w)
         THEN Goto(w, "drive", "things") /\ UNCHANGED todo
         ELSE IF <<From(Vehicle(w)), Head(todo[w])>> \in Line
         THEN Goto(w, "drive", "wait") /\ UNCHANGED todo
         ELSE UNCHANGED pc /\ todo' = [todo EXCEPT ![w] = Tail(@)]
    /\ UNCHANGED <<listVars, scanVars, taskVars, agvVars, jobs, cur,
                   clientVars, served>>

\* goStation returns to the loop of excutePath.
EndStation(w) ==
    /\ pc' = [pc EXCEPT ![w] = "drive"]
    /\ todo' = [todo EXCEPT ![w] = Tail(@)]

\* goStation gives up waiting for the blocks ahead when it sees that the
\* vehicle has no task or a cancelled one; the moving loop ends on isStop.
GiveUp(w) ==
    /\ \/ /\ pc[w] = "wait"
          /\ \/ currentTask[Vehicle(w)] = NoTask
             \/ VehicleCancelled(Vehicle(w))
             \/ isStop[Vehicle(w)]
       \/ pc[w] = "moving" /\ isStop[Vehicle(w)]
    /\ EndStation(w)
    /\ UNCHANGED <<listVars, scanVars, taskVars, agvVars, jobs, cur,
                   clientVars, served>>

\* The blocks ahead are free: the first move leaves the station.
Depart(w) ==
    LET a == Vehicle(w)
    IN  /\ Goto(w, "wait", "moving")
        /\ currentTask[a] # NoTask /\ ~VehicleCancelled(a) /\ ~isStop[a]
        /\ last' = [last EXCEPT ![a] = From(a)]
        /\ now' = [now EXCEPT ![a] = 0]
        /\ UNCHANGED <<listVars, scanVars, taskVars, currentTask, agvStatus,
                       isStop, jobs, cur, todo, clientVars, served>>

\* The vehicle reaches the station this worker drives it to.
Arrive(w) ==
    LET a == Vehicle(w)
    IN  /\ pc[w] = "moving" /\ ~isStop[a]
        /\ now' = [now EXCEPT ![a] = Head(todo[w])]
        /\ last' = [last EXCEPT ![a] = Head(todo[w])]
        /\ EndStation(w)
        /\ UNCHANGED <<listVars, scanVars, taskVars, currentTask, agvStatus,
                       isStop, jobs, cur, clientVars, served>>

\* The things of the node, unless the task is cancelled or has none.  Whether
\* result() is false makes no difference to what follows: it ends this loop.
DoThings(w) ==
    LET t == cur[w]
        n == NodeOf(t)
    IN  /\ Goto(w, "things", "advance")
        /\ IF isCancel[t] \/ n.id = 0
             THEN UNCHANGED served
             ELSE \E ok \in {TRUE} \cup {t \notin MayFail} :
                    served' = [served EXCEPT ![t] = Append(@,
                       [node |-> n.id, at |-> now[Vehicle(w)], ok |-> ok])]
        /\ UNCHANGED <<listVars, scanVars, taskVars, agvVars, jobs, cur, todo,
                       clientVars>>

\* Is the task handed back to the distributor?  Broken variant: not after its
\* last node.
HandsBackUnlessLast(t) == ~isCancel[t] /\ index[t] + 1 < Len(nodes[t])
HandsBack(t) == ~isCancel[t]

\* setPath({}), setDoingIndex(+1), and the test of getIsCancel.
Advance(w) ==
    LET t == cur[w]
    IN  /\ Goto(w, "advance", IF HandsBack(t) THEN "erase" ELSE "idle")
        /\ path' = [path EXCEPT ![t] = <<>>]
        /\ index' = [index EXCEPT ![t] = @ + 1]
        /\ UNCHANGED <<listVars, scanVars, agvOf, nodes, runs, isCancel,
                       status, agvVars, jobs, cur, todo, clientVars, served>>

\* Broken variant: the newest entry is erased, not the task's own.
DoingPosNewest(t) == Len(doing)

\* doingTask.erase(find(task)).  A cancel handler may have erased the task
\* since the test: erase(end()) then drops the last entry, and on an empty
\* vector destroys what lies before its storage.
DoingPos(t) == IF t \in RangeOf(doing) THEN Find(doing, t) ELSE Len(doing)

EraseDoing(w) ==
    /\ Goto(w, "erase", "readd")
    /\ doing' = IF doing = <<>> THEN doing
                ELSE EraseAt(doing, DoingPos(cur[w]))
    /\ broken' = (doing = <<>>)
    /\ UNCHANGED <<toDistribute, done, scanVars, taskVars, agvVars, jobs, cur,
                   todo, clientVars, served>>

ReAdd(w) ==
    /\ Goto(w, "readd", "idle")
    /\ Add(cur[w])
    /\ UNCHANGED <<scanVars, taskVars, agvVars, jobs, cur, todo, clientVars,
                   served>>

-----------------------------------------------------------------------------
(* A job "cancel": cancelTask *)

\* Erase the task from the queue it waits in, under toDisMtx.  The code erases
\* every match, and there is at most one (OneHolder below).
CancelQueued(w) ==
    LET q == toDistribute[Priority[cur[w]]]
        found == cur[w] \in RangeOf(q)
    IN  /\ ~scanning
        /\ Goto(w, "cancelQueued", IF found THEN "cancelMark" ELSE "cancelDoing")
        /\ toDistribute' = IF found
             THEN [toDistribute EXCEPT ![Priority[cur[w]]] =
                     EraseAt(q, Find(q, cur[w]))]
             ELSE toDistribute
        /\ UNCHANGED <<doing, done, broken, scanVars, taskVars, agvVars, jobs,
                       cur, todo, clientVars, served>>

\* Otherwise from doingTask.  In neither list: nothing more is done.
CancelDoing(w) ==
    LET found == cur[w] \in RangeOf(doing)
    IN  /\ Goto(w, "cancelDoing", IF found THEN "cancelMark" ELSE "idle")
        /\ doing' = IF found THEN EraseAt(doing, Find(doing, cur[w])) ELSE doing
        /\ UNCHANGED <<toDistribute, done, broken, scanVars, taskVars, agvVars,
                       jobs, cur, todo, clientVars, served>>

\* task->cancel(), saveTask.
CancelMark(w) ==
    /\ Goto(w, "cancelMark", "cancelAgv")
    /\ isCancel' = [isCancel EXCEPT ![cur[w]] = TRUE]
    /\ UNCHANGED <<listVars, scanVars, agvOf, nodes, index, path, runs, status,
                   agvVars, jobs, cur, todo, clientVars, served>>

\* agv->cancelTask(): cancels the task the vehicle has, and stops it.
CancelAgv(w) ==
    LET a == Vehicle(w)
    IN  /\ Goto(w, "cancelAgv", "cancelRelease")
        /\ IF a = NoAgv
             THEN UNCHANGED <<isCancel, isStop>>
             ELSE /\ isStop' = [isStop EXCEPT ![a] = TRUE]
                  /\ isCancel' = IF currentTask[a] = NoTask THEN isCancel
                                 ELSE [isCancel EXCEPT ![currentTask[a]] = TRUE]
        /\ UNCHANGED <<listVars, scanVars, agvOf, nodes, index, path, runs,
                       status, currentTask, agvStatus, now, last, jobs, cur,
                       todo, clientVars, served>>

\* cancelTask returns; broken variant: it hands the task back first.
ReturnHandingBack == "readd"
Return == "idle"

\* agv->setTask(nullptr), agv->status = IDLE, task->setStatus(CANCEL).
CancelRelease(w) ==
    LET a == Vehicle(w)
    IN  /\ Goto(w, "cancelRelease", Return)
        /\ IF a = NoAgv
             THEN UNCHANGED <<currentTask, agvStatus>>
             ELSE /\ currentTask' = [currentTask EXCEPT ![a] = NoTask]
                  /\ agvStatus' = [agvStatus EXCEPT ![a] = "idle"]
        /\ status' = [status EXCEPT ![cur[w]] = "cancel"]
        /\ UNCHANGED <<listVars, scanVars, agvOf, nodes, index, path, runs,
                       isCancel, isStop, now, last, jobs, cur, todo,
                       clientVars, served>>

-----------------------------------------------------------------------------

Client == \E t \in Task : RequestCreate(t) \/ RequestCancel(t)

DistributeTask(t) ==
    \/ Finish(t) \/ RunAgain(t) \/ ExcuteInPlace(t)
    \/ Continue(t) \/ Postpone(t)
    \/ \E a \in Agv : AssignIdle(t, a)
    \/ \E a \in Agv, h \in Halt : AssignHalt(t, a, h)
    \/ \E h \in Halt : ContinueHalt(t, h)

Distributor == ScanStart \/ ScanNext \/ \E t \in Task : DistributeTask(t)

RunStep(w) ==
    \/ Start(w) \/ Drive(w) \/ GiveUp(w) \/ Depart(w) \/ Arrive(w)
    \/ DoThings(w) \/ Advance(w) \/ EraseDoing(w) \/ ReAdd(w)

CancelStep(w) ==
    \/ CancelQueued(w) \/ CancelDoing(w) \/ CancelMark(w) \/ CancelAgv(w)
    \/ CancelRelease(w)

Thread(w) == TakeJob(w) \/ AddNew(w) \/ RunStep(w) \/ CancelStep(w)

\* A crashed dispatcher does nothing more.
Next ==
    /\ ~broken
    /\ Client \/ Distributor \/ \E w \in Slot : Thread(w)

Spec == Init /\ [][Next]_vars

\* The operating system runs every thread, and the pool's FIFO wakes one
\* thread per job.  addTask competes with the distributor for toDisMtx, which
\* is free for 20 ms after each scan: strong fairness for the waiting steps.
Fairness ==
    /\ WF_vars(~broken /\ Distributor)
    /\ \A w \in Slot :
         /\ WF_vars(~broken /\ Thread(w))
         /\ SF_vars(~broken /\ (AddNew(w) \/ ReAdd(w) \/ CancelQueued(w)))

FairSpec == Spec /\ Fairness

-----------------------------------------------------------------------------
(* Properties *)

RunSteps == {"start", "drive", "wait", "moving", "things", "advance", "erase"}
HoldSteps == RunSteps \cup {"add", "readd"}
CancelSteps == {"cancelQueued", "cancelDoing", "cancelMark", "cancelAgv",
                "cancelRelease"}

\* Every variable stays in its type: tasks in the lists, jobs in the pool,
\* a scan position from 1 on (taskmanager.h:69-85, agv.h:104-124).
TypeOK ==
    /\ toDistribute \in [0..MaxPriority -> Seq(Task)]
    /\ doing \in Seq(Task) /\ done \in Seq(Task) /\ broken \in BOOLEAN
    /\ scanning \in BOOLEAN /\ scanPrio \in 0..MaxPriority
    /\ scanPos \in Nat \ {0}
    /\ agvOf \in [Task -> Agv \cup {NoAgv}]
    /\ nodes \in [Task -> Seq(Node)]
    /\ index \in [Task -> Nat]
    /\ path \in [Task -> Seq(Station)]
    /\ runs \in [Task -> Nat]
    /\ isCancel \in [Task -> BOOLEAN]
    /\ status \in [Task -> {"unexcute", "excuting", "done", "cancel"}]
    /\ currentTask \in [Agv -> Task \cup {NoTask}]
    /\ agvStatus \in [Agv -> {"idle", "tasking"}]
    /\ isStop \in [Agv -> BOOLEAN]
    /\ now \in [Agv -> Aim] /\ last \in [Agv -> Station]
    /\ jobs \in Seq(Job)
    /\ pc \in [Slot -> {"idle"} \cup HoldSteps \cup CancelSteps]
    /\ cur \in [Slot -> Task \cup {NoTask}]
    /\ todo \in [Slot -> Seq(Station)]
    /\ submitted \in SUBSET Task /\ asked \in SUBSET Task
    /\ served \in [Task -> Seq([node : Nat, at : Aim, ok : BOOLEAN])]

\* Who holds a task: a queue of toDistributeTasks, a create or run job in the
\* pool, a thread that has it in hand, or doneTask.
Carries(i, t) == jobs[i].op # "cancel" /\ jobs[i].task = t
InHand(w, t) == pc[w] \in HoldSteps /\ cur[w] = t
InQueue(t) == \E p \in 0..MaxPriority : t \in RangeOf(toDistribute[p])
InPool(t) == \E i \in DOMAIN jobs : Carries(i, t)
InSlot(t) == \E w \in Slot : InHand(w, t)
Held(t) == InQueue(t) \/ InPool(t) \/ InSlot(t)

\* A task has at most one holder, whatever is cancelled and whenever: it is
\* never queued twice, never executed by two threads, never queued while it is
\* executed, and never touched again once it is done.  This is what lets every
\* list erase the first match only (taskmanager.cpp:366, 517, 538, 608, 661).
QueuesDistinct ==
    /\ \A p \in 0..MaxPriority : \A i, j \in DOMAIN toDistribute[p] :
         toDistribute[p][i] = toDistribute[p][j] => i = j
    /\ \A p \in 0..MaxPriority : \A i \in DOMAIN toDistribute[p] :
         Priority[toDistribute[p][i]] = p
PoolDistinct ==
    \A t \in Task : \A i, j \in DOMAIN jobs :
        Carries(i, t) /\ Carries(j, t) => i = j
SlotsDistinct ==
    \A t \in Task : \A v, w \in Slot : InHand(v, t) /\ InHand(w, t) => v = w
DoneDistinct == \A i, j \in DOMAIN done : done[i] = done[j] => i = j
HoldersDisjoint ==
    \A t \in Task :
        /\ InQueue(t) => ~InPool(t) /\ ~InSlot(t)
        /\ InPool(t) => ~InSlot(t)
        /\ t \in RangeOf(done) => ~Held(t)
OneHolder == /\ QueuesDistinct /\ PoolDistinct /\ SlotsDistinct
             /\ DoneDistinct /\ HoldersDisjoint

\* A task that was created and is in nobody's hands any more never comes back:
\* in particular one cancelled while it was queued is never executed
\* (taskmanager.cpp:509-526), and a finished one is never run again.
GoneForGood == [][\A t \in submitted : ~Held(t) => ~Held(t)']_vars

\* No task gets lost: one that is neither held nor done has been cancelled, or
\* the handler that took it out of its list is about to mark it.
NoLostTask ==
    \A t \in submitted :
        \/ Held(t) \/ t \in RangeOf(done) \/ isCancel[t]
        \/ \E w \in Slot : pc[w] = "cancelMark" /\ cur[w] = t

\* A vehicle works for a task only if the task was given to that vehicle
\* (taskmanager.cpp:148-150, 263, 314-316).
VehicleAgrees ==
    \A a \in Agv : currentTask[a] # NoTask => agvOf[currentTask[a]] = a

\* No two threads drive or operate the same vehicle.
Operating(w) == pc[w] \in {"drive", "wait", "moving", "things"}
OneDriver ==
    \A v, w \in Slot :
        Operating(v) /\ Operating(w) /\ Vehicle(v) = Vehicle(w) => v = w

\* From its first node to its last a task keeps its vehicle, also while it
\* waits in the queue between two nodes.
HeldUntilDone ==
    \A t \in Task : status[t] = "excuting" =>
        /\ agvOf[t] # NoAgv
        /\ currentTask[agvOf[t]] = t /\ agvStatus[agvOf[t]] = "tasking"

\* doingTask lists exactly the tasks being executed, each once: it is what
\* clients are shown (interListDoing) and where cancelTask looks.
Running(t) ==
    \/ \E i \in DOMAIN jobs : jobs[i] = [op |-> "run", task |-> t]
    \/ \E w \in Slot : pc[w] \in RunSteps /\ cur[w] = t
DoingExact ==
    /\ RangeOf(doing) = {t \in Task : Running(t)}
    /\ \A i, j \in DOMAIN doing : doing[i] = doing[j] => i = j

\* The nodes of a task are served in order, each with the vehicle at the
\* station of the node (taskmanager.cpp:636-642), and when the task is done
\* every node was served in each of its runs.
ServedInOrder ==
    \A t \in Task :
        /\ \A i \in DOMAIN served[t] :
              /\ served[t][i].node = ((i - 1) % Len(Nodes[t])) + 1
              /\ Nodes[t][served[t][i].node] \in {0, served[t][i].at}
        /\ t \in RangeOf(done) => Len(served[t]) = Len(Nodes[t]) * RunTimes[t]

\* cancelTask cancels "a task", the one it was asked to (taskmanager.cpp:504).
OnlyAskedCancelled == \A t \in Task : isCancel[t] => t \in asked

\* Every task a client creates is eventually done.
EventuallyDone == \A t \in Task : t \in submitted ~> t \in RangeOf(done)
=============================================================================
