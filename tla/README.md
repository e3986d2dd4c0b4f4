# A verification development for AgvDispatch

AgvDispatch is a server that gives transport tasks to automated guided vehicles
and drives them through a map of stations and lines. This directory models the
parts of it where threads, vehicles and connections meet: TLA+ modules,
configurations that check them with TLC on small instances, and TLAPS proofs for
all instances. Source references are relative to the repository; `PROJECT.json`
gives the lines each definition models, the runs, the mutants that show each
property can fail, the hazards of the code and the theorems.

1. [Inventory](#1-inventory)
2. [What is modelled](#2-what-is-modelled)
3. [Runs](#3-runs)
4. [Disagreements between code and comments, and other findings](#4-disagreements-between-code-and-comments-and-other-findings)
5. [Proofs](#5-proofs)
6. [What is not modelled, and the plan](#6-what-is-not-modelled-and-the-plan)

Tasks, blocks and occupancy are read for the build the sources select:
`AGV_PROJECT_QINGDAO` (`common.cpp:8`), whose vehicles are `VirtualRosAgv`
(`agvmanager.cpp:110-120`). `Forklift`, `Elevator` and `Charging` are about the
same server built for Dongyao, with real forklifts, lifts and charge machines.

## 1. Inventory

All threads come from one pool of 30 (`common.cpp:4`, `utils/threadpool.h`). The
distributor (`taskmanager.cpp:355`), three publishers (`msgprocess.cpp:318-320`)
and the user log (`userlogmanager.cpp:22`) never give theirs back; each request
of a client (`msgprocess.cpp:353`) and each execution of a task's node
(`taskmanager.cpp:599`) is a job of the same FIFO. Sessions, connections to
devices, resends and messages to lifts have threads of their own.

| Component | State | Operations | Meets | What is hard | Correct when |
|---|---|---|---|---|---|
| TaskManager (`taskmanager.*`, `agvtask*.h`) | queue of waiting tasks per priority (`toDisMtx`), `doingTask` (`doingTaskMtx`), `doneTask`; per task its nodes, index, path, vehicle, runs, cancel flag, status | `addTask`, `distributeTask`, `excuteTask` and its job, `finishTask`, `cancelTask`, `saveTask`, queries | Agv, MapManager, pool, database | a task moves between lists under different mutexes while clients cancel it; the vehicle's and the task's idea of each other are separate variables | a task has one holder, is not lost, has one vehicle, is served in order and where it should be, and is done in the end |
| ThreadPool | FIFO of jobs | `enqueue`, worker loop | everything | one slow job keeps a thread | every job is run once |
| Agv, VirtualRosAgv (`agv.*`, `virtualrosagv.*`) | task, status, `isStop`, `isPaused`, `nowStation`, `lastStation`, `nextStation`, the route | `setPosition`, `onArriveStation`, `onLeaveStation`, `excutePath`, `goStation`, `cancelTask`, `pause`, `resume` | TaskManager, MapManager, BlockManager | written by its own thread, the distributor and cancel handlers without any lock | one thread drives it, along its route, with the road ahead occupied and the road behind given back |
| BlockManager (`mapmap/blockmanager.*`) | per block and vehicle the stations and lines it is occupied for | `tryAddBlockOccu`, `freeBlockOccu`, `blockPassable`, `clear` | every vehicle's thread | `UNIQUE_LCK(m);` locks nothing (`common.h:37`) | no block holds two vehicles |
| MapManager: occupancy (`mapmap/mapmanager.*`) | who occupies each station, line and group | `addOccuStation`, `addOccuLine`, `freeStation`, `freeLine`, group calls | distributor, vehicles, clients | freed piece by piece by callbacks; one owner field per group, written by many | a station has one owner, who frees it; no two vehicles come against each other |
| MapManager: path search | colours, distances, fathers and the queue of one search | `getBestPath`, `getPath`, `getNearestHaltStation` | distributor, occupancy | bookkeeping in four places | an answered path is a shortest passable one |
| MapManager: storage | ten tables, the map in memory | `interSetMap`, `save`, `loadFromDb` | clients, task saving, crashes | one connection, one transaction for everybody | a map that was set is the one in use and the one loaded |
| AgvManager | the vehicles, their rows | add, delete, modify, stop, look up | all | unlocked look-up, ids by `max(id)` | the table and the memory agree |
| MsgProcess | lists of subscribers | dispatch, subscribe, publish | sessions, all managers | handlers run concurrently; publishers never restart | a subscriber hears what is published until it leaves |
| Network (`network/*`, `qyhbuffer.cpp`) | sessions, receive buffers | accept, read, frame, send, close | MsgProcess, vehicles | the registry has no lock; messages arrive in any pieces | every message is handed on once, whole, in order |
| UserManager | rows; the user and role of each session | login, logout, add, remove, modify | sessions, database | the role is a copy made at login; statements are put together from what clients send | removed users are out |
| UserLogManager | queue of log lines | push; drain | database | | |
| DyForklift (`Dongyao/dyforklift.*`) | unacknowledged and unfinished commands, connection, pause flags | `send`, `resend`, `onRead`, `excutePath`, `goStation`, cancel | vehicles over TCP | lost and late answers, resends, reconnects | the thread goes on when the vehicle has done what it was told |
| Charge machine (`Dongyao/charge/*`, `dyforkliftthingcharge.cpp`) | last report, connection | start and stop a charge, read | machine over TCP, DyForklift | stale reports, several clients | the fork is not moved while the machine is on |
| Elevator (`device/elevator/*`) | one slot for answers, one flag for sending threads | request, wait, hold the door, leave | lift over TCP, forklifts | answers to anybody overwrite each other | enter and leave at the right floor, one vehicle at a time |
| AtForklift, rosAgv, Qunchuang, geometry, encodings, vendored code | | | | | other customers' builds, without state, or third-party |

The way of a task: a client's request becomes a job, which builds the task and
adds it to a queue. The distributor scans the queues by priority, finds a vehicle
and a path for the next node, and starts a job. The job drives the vehicle there,
does the node's things, and hands the task back to its queue. After the last node
the distributor finishes the task, or starts its next run. A cancel request looks
for the task in its queue, then among the executed ones.

While it drives, a vehicle occupies the blocks of its line and of the line's end
before it leaves a station, asks for the station's blocks again when it arrives,
frees what is behind it and looks at the next line. The stations and lines of the
whole path are occupied by the distributor before it starts, and given back on
the way.

## 2. What is modelled

| Module | Models |
|---|---|
| `TaskManager` | the life of a task: clients, pool, distributor, the job that executes a node, the job that cancels |
| `BlockManager` | the blocks, one step per unlocked access; its specification `BlockSpec` lets every vehicle ask and free as it likes |
| `Traffic` | `BlockManager` with vehicles that drive: `excutePath`, `goStation`, `onArriveStation`, `onLeaveStation` |
| `MapOccupancy` | the map as a graph, and the calls that occupy, free and ask for stations, lines and groups |
| `Reservations` | abstract: stations with one owner, lines never used both ways |
| `Fleet` | `MapOccupancy` with the distributor, several vehicles, cancels, new maps, stopped lifts and crashes; implements `Reservations` |
| `ShortestRoute` | abstract: the answer to a question for a path |
| `PathSearch` | `MapOccupancy` with `getBestPath`, `getPath` and `getNearestHaltStation`, one step per round of a loop; implements `ShortestRoute` |
| `Orders` | abstract: orders are given one after another, each when the one before was carried out |
| `Forklift` | `DyForklift` with its session, its resending thread and a vehicle behind a connection that fails; implements `Orders` |
| `LiftPath` | the five functions that cut a path over a lift into parts |
| `Cabin` | abstract: who may enter and leave a cabin |
| `Elevator` | `goElevator` of several forklifts, the client of the lift, its slot and sending threads, and the lift; implements `Cabin` |
| `Framing` | the reading loop of a session with `packageProcess`, `ProtocolProcess`, and the task maker's `msgProcess`, byte by byte |
| `Archive` | abstract: what is saved can be read back |
| `Store` | `saveTask`, `interSetMap`, `save` and the start over one shared connection; implements `Archive` |
| `ChargeCycle` | abstract: fork and machine take turns |
| `Charging` | the charging thing, `chargemachine`, `Device` and `TcpClient` with machine and vehicle; implements `ChargeCycle` |
| `Registry`, `Clients` | vehicles in table and memory; sessions, users, subscriptions, publishers and every interleaving of the handlers |
| `MC*` | small instances for TLC |
| `*Proofs` | the proofs |

`Fleet`, `PathSearch` extend `MapOccupancy`; `Traffic` extends `BlockManager`;
`Elevator` extends `LiftPath`; `Clients` extends `Registry`. Where a part of the
system lies outside the repository (a vehicle, a lift, a machine, a database, a
connection, the WMS) it is modelled by what the code relies on, and its
definitions are marked external in `PROJECT.json`.

### TaskManager

| Code | Model |
|---|---|
| `toDistributeTasks`, `doingTask`, `doneTask` | `toDistribute`, `doing`, `done`: sequences |
| `toDisMtx`, held by the distributor during a scan | `scanning`; other steps on a queue require `~scanning` |
| the two iterators of the scan (`taskmanager.cpp:355-376`) | `scanPrio`, `scanPos` |
| one call of `distributeTask` | one step: `Finish`, `RunAgain`, `ExcuteInPlace`, `AssignIdle`, `AssignHalt`, `Continue`, `ContinueHalt`, `Postpone` |
| fields of `AgvTask` | `agvOf`, `nodes`, `index`, `path`, `runs`, `isCancel`, `status` |
| fields of `Agv` | `currentTask`, `agvStatus`, `isStop`, `now`, `last` |
| the pool's queue; a thread, its job, where it is | `jobs`; `cur`, `pc`, and `todo` (stations left of a path) |
| the job of `excuteTask` (600-665) | `Start`, `Drive`, `GiveUp`, `Depart`, `Arrive`, `DoThings`, `Advance`, `EraseDoing`, `ReAdd` |
| `cancelTask` (504-563) | `CancelQueued`, `CancelDoing`, `CancelMark`, `CancelAgv`, `CancelRelease` |

Each access to a list is one step, since it happens under that list's mutex.
Fields of tasks and vehicles have no lock, so the steps of a job are split where
another thread can see the difference. Some points of detail:

- `distributeTask` is one step although it takes the mutexes of other lists
  inside. It holds `toDisMtx`; what it reads of a vehicle can be changed meanwhile
  only by a cancel handler and by the vehicle's own thread. A cancel that releases
  a vehicle during the call has the same result as one before or after it, except
  where fields would be torn, which is not modelled.
- `CancelRelease` merges the three assignments at the end of `cancelTask`.
- `doingTask.erase(end())` (661) is undefined. The model takes what libstdc++
  does: the last entry is dropped, and on an empty vector the program is broken
  (`broken`) and takes no more steps.
- The branch of `excuteTask` for an index beyond the nodes (604-611) cannot be
  reached: `distributeTask` tests the index and nobody else advances it meanwhile
  (a consequence of `OneHolder`, and part of the proved type invariant's argument).
- The path search is the constant `Route`, and when `Congested` holds, the
  occupancy of the map may hide any route at any time. `Depart`, the moment the
  blocks ahead are free, is a step of the environment; `Traffic` has the blocks.
- Clients can only cancel a task whose id they know (`HasId`).
- Errors of a vehicle (`errorCode`, `ERROR`, `HANDING`) are set by nothing in this
  build; vehicles are not deleted; `Store` has the database.

### BlockManager and Traffic

A block's map from vehicle to list of spirits (stations and lines) is the relation
`occ` of triples <<block, vehicle, spirit>>. A thread in `tryAddBlockOccu` is in
phase `check` (walking the blocks in `blockPassable`), then `add` (walking them
again in `addOccu`); `left` is what remains of the walk; then it has its answer,
`yes` or `no`. `blockPassable` alone is phase `look`. Because the declared locks
lock nothing, the walks interleave block by block. `freeBlockOccu` is one step per
call site: it touches the caller's entries only. What a race does to the
containers themselves is undefined and left out: entries exist already, and are
read and written whole.

`overlapped` is a history variable: the pairs of vehicles that were between entry
and exit of `tryAddBlockOccu` at one time.

| Code | Model |
|---|---|
| `excutePath` called, its loop left (`virtualrosagv.cpp:44-122`) | `Begin`, `End` |
| `cancelTask` (124-130) and the handler that calls it | `Cancel` |
| `goStation`: ask for line and end, sleep and try again (211-231) | `AskLine`, `AskEnd`, `Busy`, `Ready` |
| its moving loop, `isStop`, `isPaused` (233-296) | `GiveUp`, `MoveOn`, and the guards `Free2Move` |
| `onLeaveStation` (`agv.cpp:192-274`) | `Leave`, `AskAhead`, `Left` |
| `onArriveStation` (64-190) | `Arrive`, `Arrived`, `LookAhead`, `GoOn` |

Assumptions about the map are `MapAssumption` and `RoutesAssumption`: ids of
stations and lines differ, two stations are joined by at most one line each way,
and a route follows lines and visits no station twice. Lines are longer than one
move of the simulated vehicle, and no route uses a lift. A vehicle's next trip
begins after its thread has returned from the last one. (`TaskManager` shows that
this fails after a cancel: the two threads are its subject, not `Traffic`'s.)

### MapOccupancy, Reservations and Fleet

| Code | Model |
|---|---|
| `line_occuagvs`, `station_occuagv`, `group_occuagv` | `lineOcc`, `stationOcc`, `groupOcc` |
| `addOccuStation`, `addOccuLine`, `freeStation`, `freeLine`, the group calls (`mapmanager.cpp:119-232`, `2027-2087`) | one operator each: one call touches each entry once |
| `distributeTask`: search, then occupy the aim and each line (`taskmanager.cpp:98-154`) | `Distribute`, with `OccupyAim`, `OccupyLine`, `Dispatch` as steps of their own, since vehicles and clients act in between |
| `onLeaveStation`, `onArriveStation` (`agv.cpp:64-274`) | `Leave`, `Arrive`, and one step per thing freed |
| `VirtualRosAgv::cancelTask` | `Cancel`: the loop ends, nothing is freed |
| `interSetMap` as far as occupancy goes, `interStopLift`, a crash with `AgvManager::init` | `SetMap`, `StopLift`, `StartLift`, `Restart` |

The search itself is `PathSearch`; `Fleet` uses any passable path that it could
answer. A vehicle's next trip begins after its thread has returned. Cancels, new
maps, stopped lifts and crashes are limited by `Cancellable` and `MaxUpsets`,
trips by `MaxTrips`.

`Reservations` promises that a station is taken only when it is free and given
up only by its owner, and that nobody begins to use a line while another uses the
opposite one. It follows for every map that no line and its opposite are recorded
as occupied by two vehicles (`NoHeadOn`). Where vehicles drive is another matter:
`SetMap` may clear the records at any moment, since `hasTaskDoing` is asked before
and the distributor goes on meanwhile, and then a vehicle drives lines it is not
recorded on. For vehicles whose tasks no cancel and no new map touched, what they
have still to drive is recorded, and so none of them drives against another
(`NobodyMeets`, section 5). A vehicle that a crash left between two
stations occupies nothing, and no property says where it is.

### PathSearch and ShortestRoute

One round of a loop is a step. `lineDistanceColors` is `color`, `dist`, `father`;
the `multimap` is the set `Q`, its key is `dist`. The branch that makes a gray
line shorter (1092-1110) is modelled and never taken: a line's distance is its
father's plus its own length, and fathers come in the order of their distance. Lines out of the end are blackened from the start (1040-1050), lines
that `pathPassable` refuses are skipped. `getNearestHaltStation` repeats the
search from each free halt station without regard to others. The occupancy stands
still during a search: the distributor is the only thread that searches and nobody
else occupies anything; what is freed meanwhile makes an answer longer than it
need be, never wrong. `ShortestRoute` enumerates all routes without a cycle.

### Forklift and Orders

| Code | Model |
|---|---|
| sessions of the vehicle, `m_qTcp` (`tcpsession.cpp:101-138`, `246-261`) | `links`, `tcp`; `Connect`, `StartReport`, `Disconnected`, `AcceptFails` |
| `m_unRecvSend`, `m_unFinishCmd` | `unRecv`, `unFinish` (by type of command) |
| `send`, `resend`, and the thread of `init` that sends again | `Send`, `Register`, `SendFails`, `Resend` |
| `onRead`: positions, acknowledgements, reports (157-312), `arrve` | `FirstHeard`, `Ready`, `Leave`, `Arrive`, `ReadAnswer` |
| `goStation`: wait for the block, send, wait for the report, pause, resume (666-797) | `TryStart`, `Skip`, `Advance`, `PauseSeen`, `Resume`, `GiveUp` |
| `cancelTask`, `onTaskCanceled` | `AskCancel`, `ClearTask` |

Sending and remembering are two steps (`send` writes first), as are setting
`sendPause` and sending the pause, since the other thread reads in between. The
vehicle acknowledges each command, carries out an order it has not had before,
and reports it when finished. Left out: the answer to `startReport`; a command is
not sent again while it or its answer is under way (the resend waits for seconds);
halts are acknowledged and finished together; leaving and arriving are read from
separate reports; the end of the program by an uncaught exception; turns and error
reports.

`Orders` promises the thread what the comment at `agv.h:35` says of `excutePath`:
it goes on when the vehicle has carried the order out, in order, unless it is
given up.

### LiftPath, Elevator and Cabin

`LiftPath` has the five loops that cut a path into what is before, into, in, out
of and after the lift (`dyforklift.cpp:916-1165`). `Elevator` runs `goElevator`
(494-663) for several vehicles. `ctx_` is one slot (`param`, `err`, `handled`):
`OnRead` overwrites it, `Hears` takes from it what `waitfor`'s predicate accepts.
`senders` are the threads of `StartSendThread`, which end by the common flag
`sendCmd`. Parts of the ride on one floor are single steps (they are `Forklift`'s
subject), and so is `setInitPos`.

The lift is external: it serves one vehicle at a time, asks who wants in, waits
for the first acknowledgement, rides, and keeps the door open while it hears the
vehicle's repeated message. Its questions may be given up. Assumed of time: the
timeouts (seconds to minutes) are longer than a message takes, so a wait times out
only when no message for it is on its way; and a sending thread repeats while the
lift listens. Upsets are a lost connection, an unreadable message, two messages in
one read (the slot then shows the second only), and a question given up. Each
vehicle makes one trip.

`Cabin` promises: in at the own floor when nobody is in, out at the floor wanted.

### Framing

A session reads a stream cut at any byte: `Read` takes any number of bytes up to
the buffer's length, then `Process` runs one round of `packageProcess`
(`tcpsession.cpp:198-242`), `ProtocolProcess` (143-196) or the task maker's
`msgProcess` (`dytaskmaker.cpp:33-76`). `QyhBuffer`'s `find`, `removeFront` and
`getInt32` are modelled with what they return at the ends of the buffer. JSON is
a byte that says whether the parser accepts it. What came is compared with what
was handed on after each read.

A stream is a sequence of parts: packets or frames (`IsMarked`), with a body or an
empty or refused one, with the right length or not; and junk (`IsJunk`), which
carries no message and nothing that a parser could take for the beginning of a
packet, or for the end of a frame that was begun. `Firsts` gives the bytes and the
messages of the first parts, `Came` the messages that have wholly come. A packet is
incomplete only when its length is above zero (217, 233: `json_len>0`): when even
the four bytes of the length are not there, the length is -1 and the loop goes on
(`PartOfHead`).

### Store and Archive

One connection for all threads. A statement outside a transaction is durable at
once; inside one it belongs to whoever opened it. `disk` is what is committed,
`seen` what the connection sees. `saveTask` is `Begin` or `BeginFails`, one
`InsertRow` per row, `CommitTask`; `save` of the map deletes each table outside
its transaction (`DeleteTable`), then `BeginMap`, `InsertTable`, `CommitMap`, or
`SaveFails`. `Crash` loses what is not committed and starts again with the ids and
the map it finds. Assumed: one client at a time sets a map, at most one finished
task is being saved at a time (the distributor does it), a cancelled task is saved
once, `agv_group` has the column `groupType`, and the only text that SQL refuses
is a name in a map. `Archive` promises that what `saveTask` saved is read back
whole and alone, also after a crash, and that a map that was set with success is
the one in use and the one loaded.

### Charging and ChargeCycle

`beforeDoing`, `doing` and `afterDoing` of the charging thing with
`chargemachine`, its `Device` and its `TcpClient`s. Each run makes one more client
and leaves the old ones running, all with the same callbacks; `realStatus` is what
the last report of any of them said, and begins with whatever memory holds.
`torn` says that half a report is in the buffer. Assumed of the machine: it
accepts several connections, answers a command with its status, and a command is
answered or lost with its connection before the next one is sent, a second or a
minute later. Without that, a stale report of an old connection together with a
lost stop command lets the fork be lowered while the machine is on.
`ChargeCycle` promises the order of fork, readiness and machine.

### Clients and Registry

A session is its socket, its reader, its place in the registry, and the user and
role it got at login. A request is a job of the pool; its steps are its accesses
to the database, the registry and the lists, so any two requests interleave there,
also two of one session. `Publish` is one round of a publisher. A send to a TCP
session throws when its socket is closed or the client is gone; the exception
leaves the handler or ends the publisher. `Agendas` groups requests that touch the
same data, because all of them at once are too many for TLC; requests of different
groups share no variable but the sessions. A request is recorded in `asks` with
the client it is from, so that a handler reads its own (`Asked`). `Registry`
begins with no vehicle or one; an id of a deleted row is never given again.

The statements that write users may be refused (`Delete`, `AddUser`, `ModifyUser`,
`ChangePassword`). They are put together from what the client sends:
`interChangePassword` (`usermanager.cpp:172`) and `interModify` (427) write it
without quotes, so that a password may also set other fields of the row.
`ChangePassword` therefore leaves the row alone or gives it any name and role that
is in the request; what else such a text could do, to ids, to other rows or in the
quoted texts of `interLogin` and `interAdd`, is not modelled. No property says
anything about roles or names, since the code does not bound them. A round of
positions is left out while no vehicle is in memory (`Positions`, `AnyAgv`,
`msgprocess.cpp:189-190`); the publisher of tasks is taken to have tasks (245).

`removed`, `raced`, `atOnce`, `late` and `muddled` are history variables that name
the overlaps the code does not guard against, so that the properties say exactly
what holds without them.

## 3. Runs

| Run | Instance | Distinct states | Shows |
|---|---|---|---|
| `steady` | 2 vehicles, 2 threads, 2 tasks of 3 and 2 nodes; one is run twice and has a node without a station, the other asks for a vehicle and has priority; nobody cancels | 52 414 | `TypeOK`; two threads never operate one vehicle (`OneDriver`); a task keeps its vehicle from first to last node, also while it queues behind a task of higher priority (`HeldUntilDone`); `doingTask` is exact (`DoingExact`); nodes are served in order and where they should be (`ServedInOrder`); every task is done in the end (`EventuallyDone`) |
| `cancel` | 1 vehicle, 2 threads, 2 tasks both cancelled at any moment, congested map with a halt station | 374 820 | a task has one holder (`OneHolder`), is not lost (`NoLostTask`), does not come back (`GoneForGood`); a vehicle works only for a task that was given this vehicle (`VehicleAgrees`) |
| `cancel_other` | as `cancel`, smaller | violation | cancelling one task cancels another (section 4) |
| `traffic` | 2 vehicles, 2 trips each over 5 routes through a junction, 2 blocks; one vehicle's trips are cancelled at any moment | 44 255 | `TypeOK`; blocks are shared only through overlapping calls (`SharedOnlyByOverlap`); a vehicle under way holds its line and the line's end (`HoldsItsRoad`); one never cancelled keeps nothing when its path is done (`NothingKept`); a trip ends unless the vehicle is paused or hindered for ever (`TripsEnd`) |
| `fleet` | 2 vehicles, 2 trips each on 4 stations and 5 lines, three of them opposite pairs, a group; one vehicle's task cancelled; one new map, stopped lift or crash | 170 173 | `Fleet` implements `Reservations` (`Promise`); a vehicle on its way holds all it has still to drive (`HoldsWhatItNeeds`) and keeps nothing afterwards (`NothingKept`); lines become free (`LinesFreed`) |
| `paths` | 6 stations, 9 lines, three halts, one loading point, one other vehicle with a line, station or group | 7 783 | the queue and the labels agree (`FrontierExact`); answers are shortest (`AnswersShortest`: `PathSearch` implements `ShortestRoute`, so each search also ends); the halt found is the nearest (`NearestHalt`) |
| `forklift` | path of 2 lines in 2 blocks and a fork order; 2 connections, one of: a lost connection, a cancel, another vehicle in a block | 190 923 | `Promise` (implements `Orders`); nobody waits for a report that cannot come (`NoVainWait`); orders arrive (`OrderArrives`); the thread ends (`TaskEnds`) |
| `lift` | 2 vehicles, one up, one down; one upset; 2 tries instead of 10 | 174 990 | `Promise` (implements `Cabin`); the door is held while a vehicle leaves (`DoorHeld`); rides end where they should (`EndsAtItsEnd`) and they end (`RideEnds`) |
| `frames` | 6 streams of 3 to 5 parts for three kinds of session, cut anywhere | 1 071 | what came is handed on at once, in order, once (`HandsOnWhatCame`); all of it is (`HandedOnUnlessHeadIsCut`) |
| `store` | a task of 2 nodes and one of 1, 2 maps (one with a refused name), set twice, one crash | 79 563 | `Promise` (implements `Archive`) |
| `charging` | 3 charges, 3 upsets (connection lost or refused, report cut, cancel) | 139 108 | `Promise` (implements `ChargeCycle`); a charge ends (`ChargeEnds`) |
| `clients` | 2 sessions, by TCP and websocket, 2 requests of one group | 284 080 | removed users are out (`RemovedAreOut`); nobody is on a list twice or after leaving (`ListsFit`); whoever was told that it has subscribed is on the list and registered (`ToldAreListed`); vehicles in memory are those in the table (`RegistryFits`); subscribers hear what is published (`KeepsPublishing`) |

Bounds. Two threads suffice for any two jobs to interleave, and the hazards of
the task lists are between two parties: two jobs, or a job and the distributor.
Two tasks suffice for one to be confused with another, and three nodes for a
first, a middle and a last one; a second run reuses the index. `cancel` needs one
vehicle that both tasks want. In `traffic` both vehicles reach the junction from
different sides, one block spans a station and three lines, the other a line and
its end, and one line is in two blocks: grants can fail at the first and at the
second block, for the line and for the station. Two trips make what the first
leaves behind matter, in `traffic` and in `fleet`; in `fleet` two vehicles suffice
since every promise is about a pair. `paths` has detours that are shorter, one
of them over a point that may only end a path, a dead end, stations that cannot
be reached, and two ways over which a line can be entered. In `forklift` one upset already meets every step of the exchange;
two connections are the last one and the one before. `frames` has every kind of
part next to every other that its parser distinguishes. `store` needs a task with
more than one node for a half-saved one, two maps for a mixture. In `charging` a
third client exists while two old ones run. `clients` has two requests because its
races are between two. Upsets, trips, tries, wires, connections, settings, crashes,
runs and requests are bounded by the constants named so; nothing else is.
Every property has a mutant of a mapped definition that the same run rejects, so
no property holds for lack of cases.

Deadlock. The distributor polls for ever, so `steady` checks that nothing stops,
and `Framing` that a session is always either reading, processing or at the end.
`CHECK_DEADLOCK FALSE` stands where the system really may stop or where all that
the bounds allow has been done: in `cancel` the erase of an entry that is not there
may crash the program (`broken`), in `traffic` all vehicles may be paused, and in
the others all trips, searches, orders, rides, tasks, charges and requests end.

Fairness. The operating system runs the distributor and each thread of the pool,
so each takes a step if it can for ever: weak fairness for `Distributor` and each
`Thread(w)`, and for each vehicle's `Drive(v)`; in the other modules for each
thread that polls or blocks on a socket (`Driver`, `Session`, `Resend`, the
search, the readers and handlers). No client has to ask, no vehicle to begin a
trip, nothing has to fail and nothing has to be cancelled.

- `addTask` and the queue part of `cancelTask` compete for `toDisMtx` with a
  distributor that unlocks it for 20 ms in each round and polls for ever: strong
  fairness for these steps. `std::mutex` promises no fairness; the assumption is
  that a waiting thread gets a mutex that is free for 20 ms again and again.
- A forklift, a machine and a lift do what they have been told (weak fairness),
  and a forklift's connection is kept long enough for what is written to arrive:
  `OrderArrives` and `TaskEnds` say so themselves (`[]<>Whole`).
- A vehicle waiting for the lift hears each question that stays in the slot (weak
  fairness), and answers one that is asked again and again; a wait that may time
  out again and again does (strong fairness for `Asked` and `TimedOut`): waits are
  bounded by `wait_for`, and the lift repeats its questions.

What the liveness properties leave open, on purpose: `EventuallyDone` is checked
where no other vehicle is in the way and no task's station is where its vehicle
stands. `TripsEnd` excuses a vehicle that is paused for ever or wants for ever a
block that another one occupies, since both do happen (below). `LinesFreed`
excuses cancelled tasks, `TaskEnds` lost reports, `RideEnds` a lift that did not
hear that a vehicle has left, `ChargeEnds` orders that could not be sent,
`KeepsPublishing` a client that is gone while a publisher sends to it and positions
while there are no vehicles, and `HandedOnUnlessHeadIsCut` a head that is cut: each
of these ends it for ever in the code as well, but for the vehicles, which may be
added.

## 4. Disagreements between code and comments, and other findings

`cancel_other` states what a comment says, and TLC refutes it by the shortest
trace: cancelling one task (`taskmanager.cpp:504`) cancels whatever task its
vehicle is executing. A task that waits for the vehicle its creator named carries
that vehicle's id without having it.

The models show further disagreements. No run is kept for them, since each is
part of the modelled behaviour, and the properties say what holds in spite of it:

- A vehicle should pause when a block already holds another vehicle
  (`agv.cpp:161-162`). Two vehicles that ask at the same time both get it
  (`blockmanager.cpp:128-131`).
- The node to a halt station is pushed in front of the list (`agvtask.h:69`,
  `taskmanager.cpp:307`), where a task that has already served nodes does not
  look; the node served before is executed again, at the halt station.
- "nodes behind this cannot excute anymore" (`taskmanager.cpp:631`), but they are
  (657).
- "一个区块 区块内只能有一个车" (`mapmap/mapgroup.h:7`: a group holds one vehicle
  only): `freeStation` and `freeLine` (`mapmanager.cpp:176-194`) purge the group's
  list whoever owns it, so a vehicle that frees behind itself takes the group from
  the one that came after it.
- `excutePath` should return when it has been carried out (`agv.h:35`). The loop
  of `goStation` is left early when a paused vehicle may not resume
  (`dyforklift.cpp:790`), and a failed or cancelled send ends the order. `Orders`
  counts these as given up.
- "包不完整，继续接收" (`tcpsession.cpp:234`: the packet is incomplete, go on
  receiving): when the end of a read cuts the head of a packet, `getInt32` returns
  -1 (213), and the loop neither reads nor ends: the session's thread spins.

### Tasks and vehicles

- A cancel while a task is on its way back from `doingTask` to its queue (662-663)
  finds it in neither list and has no effect.
- A task cancelled between the test of its flag (658) and its return to the queue
  (663) is handed back cancelled. The distributor gives it its vehicle again, none
  of its things is done, and it goes on to hold the vehicle: nobody frees it.
- After a cancel the vehicle is idle while its old thread may still be in the 500 ms
  sleep of its moving loop. A new task's `excutePath` resets `isStop`, and two
  threads drive one vehicle. (`OneDriver` is therefore a property of `steady` only.)
- A task whose next node is where its vehicle stands gets an empty path, which is
  also the answer for "no way": it is postponed, or sent to a halt station.
- A client may create a task that names a vehicle and has no nodes
  (`qingdaotaskmaker.cpp:147-187` adds nodes only if there are any). The first scan
  finishes it, and `finishTask` (569-591) makes the vehicle it names idle, also when
  another task has it between two nodes; the load on it then belongs to nobody.
  (Found by the proof of `HeldUntilDone`; in `steady` every task has a node.)
- A vehicle that pauses because of the next block is never resumed in this build,
  and keeps its thread and its blocks.
- A vehicle keeps the block of its line while it waits for that of the line's end:
  two can wait for each other for ever.
- A vehicle stopped at an intermediate station keeps its `nextStation`; on its next
  departure it occupies the blocks of a line it does not take, and nothing frees
  them. (`NothingKept` is therefore stated for vehicles never cancelled.)
- After `setPosition` a vehicle stands on blocks it does not occupy.
- `onLeaveStation` looks for the next line with a `nowStation` it has already set
  to 0, and finds none.

### Map

- `VirtualRosAgv::cancelTask` frees nothing (124-130): the lines and stations of a
  cancelled path stay occupied until the vehicle's next path happens to pass them.
- A new map (`interSetMap`) clears the occupancy of stations and lines under
  vehicles, and keeps the owners of groups.
- `interStopLift` occupies lines for an operator without looking who is on them,
  and freeing and stopping race with the distributor's search.
- A typing error tests `LOAD` where `UNLOAD` is meant (`mapmanager.cpp:1017`,
  `1027`). The `continue` for a halt in another's group (812) goes on with the next
  group instead of the next halt. The `locked` flag that clients set is read by no
  search.

### Forklifts

- CLEAR, sent when the program first hears a vehicle, is sent again until it is
  acknowledged, and may then clear a later order (`dyforklift.cpp:161-168`, 41-57).
- A resume can overtake the pause it follows, since the flags are set at other
  moments than the commands are sent (1167-1185, 306).
- A report is never repeated: one lost with its connection leaves the thread
  waiting until the task is cancelled.
- A reader that notices late that its connection is gone resets `m_qTcp` of the
  next connection.
- A write that throws in `startReport` ends the loop that accepts vehicles
  (`acceptor.cpp:17-35`); in the thread of a task it hangs the task.
- A vehicle that reconnects during a task is set to NOTREADY and then IDLE, and
  may get another task.
- A paused vehicle resumes without asking for the block, since `nextStation` is 0.
- The loop of `goStation` that waits for a report does not look at the cancel flag.

### Lifts

- After ten refusals `goElevator` returns without having driven (572-576), and the
  task goes on as if it had.
- The vehicle's last word to the lift, LeftEleACK, is sent once.
- `goElevator` drives one way into a cabin and one out of it (502-506): what
  follows the first ride goes to `goSameFloorPath`, also if it takes another lift
  (987-1034), and of a path that ends in a cabin `goStation` gets no line (622).
- One vehicle's `StartSendThread` revives the thread another has just told to end:
  the flag is common to all.

### Database

- `hasTaskDoing` (`taskmanager.cpp:50`) is true when both lists are non-empty, and
  the first one is so for ever after the first task: a map may be set while tasks
  wait, or while a task is between two nodes.
- If the map is set while someone's transaction is open, its deletes join that
  transaction, its own begin fails, the client is told so and the memory is
  cleared; the other's commit then makes the deletes durable.
- A statement that throws leaves the transaction open for ever: every later save
  fails, and what is written later is lost at the next start.
- A crash between the deletes leaves part of a map; two clients that set a map at
  the same time can leave parts of both.
- The `agv_group` that `checkTable` creates (`mapmanager.cpp:35`) lacks the column
  `groupType`, which `save` (394) and `loadFromDb` (569) use.

### Charging

- The status before the first report is unset memory; if it happens to read full,
  the charge ends at once. After a report of half its length the buffer stays out
  of step for ever.
- If the task is cancelled while the vehicle is not connected, an order is not
  sent: the thread waits for it for ever, or starts the machine without a vehicle.
  No loop looks at the cancel flag.
- Each charge leaks a client; when an old one loses its connection it clears
  `connected` for all. The result of `chargeControl` is ignored, and `bresult` is
  true even when `doing` has returned early.

### Clients

- `TcpSession::send` throws when the socket is closed or the client is gone. The
  publishers have no `try`: one such subscriber ends publishing for everybody for
  ever. A subscriber that logs out by TCP is enough: its socket is closed at once,
  but the session stays registered until its reader wakes. In a handler the
  exception skips the rest, as the kick of a removed user (`usermanager.cpp:323-328`).
- Subscribing is find and then push, so two requests at once put a session on a
  list twice; a subscription handled after the session was removed stays.
- A login that has read its row before the user is removed, and sets the id after
  the kick, stays logged in. A demoted user keeps its role until it logs in again.
- User names are not unique: a second user of the same name locks both out.
  `interModify` may change a user of a higher role.
- `interModify` and `interChangePassword` put what the client sends into SQL without
  quotes: they fail for most words, and other fields of the row, the role among
  them, can be set with a new password. `interLogin` and `interAdd` put it between
  quotes as it is. Whether anybody may rise above the role that was given is
  therefore up to the clients, and not a property of this code.
- `interAdd` takes `max(id)` for the id of its row: two adds at once answer one id
  twice, and two vehicles share it. It writes `agvType` -1, which is the virtual
  vehicle's type (`common.h:31`), so any vehicle added is loaded as one at the next
  start. `interModify` of an unknown vehicle dereferences null, and the condition
  of `interStop` is inverted (`agv==nullptr &&`).
- One task of the WMS is taken per read (`dytaskmaker.cpp:78-82`): a second one
  waits in the buffer until the WMS sends again.
- Sends on one TCP session are not serialised and a partial `write_some` repeats
  the whole piece, so packets of a handler and a publisher can mix.

## 5. Proofs

TLC checks instances; the following hold for every value of the constants that
satisfies the `ASSUME`s of the modules, which say what the map, the tasks and the
requests look like: any number of tasks, vehicles, threads, stations, blocks and
clients, any nodes, priorities and routes, and cancels at any moment.

| Theorem | Says |
|---|---|
| `TaskManagerProofs!TypeCorrect` | `Spec => []TypeOK` |
| `TaskManagerProofs!OneHolderAlways` | `Spec => []OneHolder` |
| `TaskManagerProofs!GoneForGoodAlways` | `Spec => GoneForGood`, an action property |
| `TaskManagerProofs!NoLostTaskAlways` | `Spec => []NoLostTask` |
| `TaskManagerProofs!VehicleAgreesAlways` | `Spec => []VehicleAgrees` |
| `TaskManagerProofs!DoingExactAlways` | `Spec => [](asked = {} => DoingExact)` |
| `TaskManagerProofs!NoCrashBeforeCancel` | `Spec => [](asked = {} => ~broken)` |
| `TaskManagerProofs!HeldUntilDoneAlways` | `Spec => [](Undisturbed => HeldUntilDone)` |
| `TaskManagerProofs!OneDriverAlways` | `Spec => [](Undisturbed => OneDriver)` |
| `TaskManagerProofs!ServedInOrderAlways` | `Spec => [](Direct => ServedInOrder)` |
| `TrafficProofs!BlockTypeCorrect` | `BlockSpec => []BlockTypeOK` |
| `TrafficProofs!SharedOnlyByOverlapAlways` | `BlockSpec => []SharedOnlyByOverlap` |
| `TrafficProofs!TrafficTypeCorrect` | `Spec => []TypeOK` |
| `TrafficProofs!TrafficImplementsBlocks` | `Spec => BlockSpec` |
| `TrafficProofs!DriversShareOnlyByOverlap` | `Spec => []SharedOnlyByOverlap` |
| `TrafficProofs!HoldsItsRoadAlways` | `Spec => []HoldsItsRoad` |
| `TrafficProofs!NothingKeptAlways` | `Spec => []NothingKept` |
| `MapProofs!FleetTypeCorrect` | `Spec => []FleetTypeOK` |
| `MapProofs!PromiseKept` | `Spec => Promise`: `Fleet` implements `Reservations` |
| `MapProofs!NoHeadOnAlways` | `Spec => []NoHeadOn`, about the records of occupation |
| `MapProofs!NobodyMeetsAlways` | `Spec => []NobodyMeets`, about what vehicles have to drive |
| `MapProofs!HoldsWhatItNeedsAlways` | `Spec => []HoldsWhatItNeeds` |
| `MapProofs!NothingKeptAlways` | `Spec => []NothingKept` |
| `MapProofs!SearchTypeCorrect` | `SearchSpec => []SearchTypeOK` |
| `MapProofs!FrontierExactAlways` | `SearchSpec => []FrontierExact` |
| `MapProofs!AnswersAreShortest` | `SearchSpec => Search!Safety`: the safety half of `ShortestRoute` |
| `MapProofs!EndedAreShortest` | `SearchSpec /\ []<>Ended => AnswersShortest` |
| `MapProofs!NearestHaltAlways` | `SearchSpec => []NearestHalt` |
| `MapProofs!SearchServesFleet` | `SearchSpec => []SearchServes`: what a search answers is what `Fleet` assumes of it |
| `ForkliftProofs!ForkliftTypeCorrect` | `Spec => []ForkliftTypeOK` |
| `ForkliftProofs!NoVainWaitAlways` | `Spec => []NoVainWait` |
| `ForkliftProofs!PromiseKept` | `Spec => Promise`: `Forklift` implements `Orders` |
| `NetworkProofs!ClientsTypeCorrect` | `Spec => []Types` |
| `NetworkProofs!RemovedAreOutAlways` | `Spec => []RemovedAreOut` |
| `NetworkProofs!ListsFitAlways` | `Spec => []ListsFit` |
| `NetworkProofs!ToldAreListedAlways` | `Spec => []ToldAreListed` |
| `NetworkProofs!RegistryFitsAlways` | `Spec => []RegistryFits` |
| `NetworkProofs!FramingTypeCorrect` | `FramesSpec => []FramingTypes` |
| `NetworkProofs!HandsOnWhatCameAlways` | `FramesSpec => []HandsOnWhatCame` |
| `StoreProofs!StoreTypeCorrect` | `Spec => []StoreTypeOK` |
| `StoreProofs!PromiseKept` | `Spec => Promise`: `Store` implements `Archive` |
| `ChargingProofs!ChargingTypeCorrect` | `Spec => []ChargingTypeOK` |
| `ChargingProofs!PromiseKept` | `Spec => Promise`: `Charging` implements `ChargeCycle` |
| `ElevatorProofs!ElevatorTypeCorrect` | `Spec => []ElevatorTypeOK` |
| `ElevatorProofs!DoorHeldAlways` | `Spec => []DoorHeld` |
| `ElevatorProofs!EndsAtItsEndAlways` | `Spec => []EndsAtItsEnd` |
| `ElevatorProofs!PromiseKept` | `Spec => Promise`: `Elevator` implements `Cabin` |

Assumptions. Besides types, they ask that there are finitely many vehicles,
stations and clients; that a route leads along lines of the map to the station
that was asked for (`RoutesLead`: `getPath` collects lines and follows their
fathers back, which `PathSearch` models); that no path without a cycle is as long as
`DISTANCE_INFINITY`, which is `INT_MAX` (`RoadsAssumption`: the sums of `getPath`
are ints and compared with it); that a path over a lift is connected, leaves a
cabin once and does not end in one (`PathsAssumption`: `goElevator` drives one way
in and one way out, `dyforklift.cpp:502-506`); and that a request has the fields its
handler reads (`AgendasAssumption`: the handlers look for them first and answer
`RETURN_MSG_ERROR_CODE_PARAMS` without any effect, as `usermanager.cpp:403-409`); and
that a stream consists of packets or frames with junk between them that cannot be
taken for one (`PartsAssumption`: the parsers look for `MSG_MSG_HEAD`, `*` and `#`
and have no escape for them; every frame of a vehicle has a body). TLC evaluates
each of them.

**Tasks.** The type invariant alone is not inductive: that a thread reads a node
that exists, on a vehicle that exists, needs the facts that let it start. Its
strengthening has four parts: the types; that every task has one holder, and none
before it is submitted (`HolderInv`); that a task which is being executed has a
vehicle and an index within its nodes (`ExecInv`); and the type of what was served.
The holders are what makes the second part stable: nobody else advances the index
of a task in hand, because a task in a queue, job or thread is in no other.
`OneHolder` is five conjuncts, and every action is shown to move at most one
holder of one task. `GoneForGood` follows from the same invariant: the only steps
that give a task a holder take it from another, or are its creation. `NoLostTask`
adds that the handler which took a task out of its list has it in `cur` until it
is marked. `VehicleAgrees` is inductive with the types.

**Tasks nobody disturbs.** The run `steady` checks four invariants without
cancels, because the code breaks them with one (section 4). The theorems say so in
the state: they are about every behaviour of the full specification, up to the
moment at which something named happens. For `DoingExact` it is the first cancel
request (`asked = {}`). For `HeldUntilDone` and `OneDriver` it is also the
submission of a task that names a vehicle and has no node (`Undisturbed`): the
proof failed there, and TLC shows why (section 4). For `ServedInOrder` it is
besides a task with a number of runs below one, or a detour to a halt station
(`Direct`): both are disagreements already listed.
The invariants build on each other:

- `QuietInv`: no cancel handler is under way, and no task or vehicle is marked.
- `TaskingInv`, `DoneInv`, `NodesInv` and `BegunInv` tie the status of a vehicle
  to its task, and that of a task to the lists and the index.
- `EngagedInv`: a task that has begun is the task of the vehicle it names. This
  gives `HeldUntilDone` at once. `OneDriver` follows: two threads that drive one
  vehicle execute the task this vehicle has, and `OneHolder` excludes that.
- `GivenInv`, `StandInv` and `OnTheWayInv` follow a vehicle along its path: from
  where it stands, the rest of the path leads to the node's station (`Reaches`).
- `CountInv`: what was served is as many whole runs as are over, and the nodes
  before the index, and one more while a thread is about to advance the index.

**Blocks.** `SharedOnlyByOverlap` is about states in which two walks have ended.
The invariant follows the walks: every block that a vehicle has found passable in
its present call is occupied by another one only if their calls overlapped. When
the walk turns to adding, this covers all its blocks, so an addition creates a
shared block only between vehicles already recorded. The proof is about any use of
the blocks, `BlockSpec`; `Traffic` then inherits it by implementing `BlockSpec`,
and the theorem says what a repair needs: a lock around `tryAddBlockOccu`.

**Driving.** That a vehicle asks for lines that exist rests on where it is on its
route: at, or just out of, the station before the one it is sent to (`OnWay`). This
is true only because a vehicle is stopped exactly when its trip is cancelled, and
a cancelled trip asks for nothing more. `HoldsItsRoad` follows the two calls of
`tryAddBlockOccu` (`Granting`), and uses that the station a vehicle leaves is
neither its destination nor its line, so freeing it frees nothing of the road.
`NothingKept` needs what a vehicle may occupy at each step of its thread (`Mine`),
and that `nextStation`, for whose line `onLeaveStation` asks, is the station the
vehicle is sent to, or none (`Calm`): exactly what a cancel destroys.

**Occupancy.** `NoHeadOn`, that a line and its opposite are never recorded as used by
two vehicles, follows from the refinement: `HeadOnNext` shows that no step which
`Reservations` allows breaks it, as a line is taken only when its opposites are
used by nobody else, and being opposite is mutual. `PromiseKept` shows that the
vehicles of `Fleet` take lines and stations only so, step by step: its invariant `PlanInv` says that between the
search, which looked at the opposites, and the moment a line is occupied, nobody
else has occupied them, which is true because only the distributor occupies, for
one vehicle at a time, and all the callbacks only free. `HoldsWhatItNeeds` and
`NothingKept` share `HoldInv`, one invariant of what each vehicle holds: what is
ahead of it in its path, its goal, where it is, and nothing else. Its hard step is
`BehindIsNotAhead`: what `onArriveStation` frees is never a line the vehicle has
still to drive. That rests on the paths being simple (`Simple`), which is proved
of every path the search may answer (`PathsOverAre`), and on where the vehicle is
in its path (`WayInv`). `NobodyMeets` needs both halves: `NoHeadOn` says that the
records hold no line both ways, and `HoldInv` that what a vehicle has still to drive
is recorded, unless a cancel or a new map took from it (`past`). A restart rests on
`LastRowIsOne`: of the vehicles whose rows name one station, the last one loaded
gets it.

**Search.** `FrontierInv` is the invariant of the search over lines. Each labelled
line has the distance by its father (`Tree`), no finished line is farther than one
in the multimap (`Ordered`), colours and multimap agree (`Marked`), a line out of
the start is reached by no other (`Firsts`), and what is next to a finished line has
been reached, by it or nearer (`Closed`). `FrontierExact` is three of these. That
the answer is shortest needs an argument which a search over stations does without:
getAdj forbids to go straight back, so a nearer way into a station does not help
every line out of it. `FatherNearest` shows that it never matters: on the way back
from the nearest line into the end, each line is the nearest into its own end.
Otherwise a nearer one could not go on to the next, as that would be straight back,
but then the next line's end was reached before. So the distances along what is
traced back fall, no station is met twice (`TracedPath`), and by induction along any
other path its length is no less (`LowerBound`). The lines out of the end that
getPath blackens do not count, because such a path would be back at its end.
`NearestHalt` follows with `HaltInv`: of the stations whose search is over, the one
kept is the nearest, and all answers to one question have one distance (`FarIs`).
`SearchServesFleet` joins the two models of the map: `Fleet` drives on any of its
`BestPaths`, and what a finished search answers is one of them, or nothing when
there is none (`SamePaths`: both enumerate the same paths).
That each search ends is left to TLC, so `EndedAreShortest` has it as a hypothesis.

**Forklifts.** `NoVainWait` is a fact about where a command is between its sending
and its report. `OutInv` says what the thread is about to send, and which order it
is at. `OrderInv` holds whatever is lost or cancelled: an order was written before
the vehicle began it, begun before it was carried out, and a report on its way is
of an order that was carried out, once. `CalmInv` adds, unless an order was given
up or the task cancelled, that all orders before this one are carried out, that
the vehicle is at this one or at none, and that a report on its way is of this order
while somebody waits for it: an early report of the next order cannot be taken for
this one's. `PromiseKept` follows from these two, whatever was lost. `CleanInv` is
for behaviours in which nothing went wrong (`spoilt = {}`): an order that the
vehicle has not begun is unacknowledged, so that it will be sent again, one that
it has begun is in work or carried out, and then its report is on the way back.
The step that needs most is `ReadAnswer`: an acknowledgement is forgotten only
after the vehicle has begun the order, and a halt's is always followed by its
report (`Followed`). Commands are matched by their type in `unFinish` but by
themselves in `unRecv`, so all this is about the order at hand, of which there is
one of each type at a time.

**Clients.** `Types` includes that a request goes only through the steps of its own
handler (`StepsFit`). `RemovedAreOut` needs that whoever has no connection is
nobody, and that nobody's id 0 is never removed (`SessionInv`). `ListsFit` needs
that a client outside `atOnce` has one request about lists at a time, so that what
the search of a list found still holds when the entry is added (`PushNew`), and
that a request that outlives its session is recorded in `late`. `ToldAreListed` is
the other direction, that nobody is missing: what the search found or the push added
is still there when the answer is sent (`FoundListed`), because an erase takes out
an entry of its own client only (`EraseFirstKeeps`) and that client has no other
request about lists under way; and whoever was told and counts on it has no request
under way that takes it off that list (`Cancels`) and is read, so registered
(`HereInv`). `RegistryFits` is
about the end of all requests; its invariant (`Balance`) says what each request in
between stands for: a row without an object is one that an add has inserted and
will add, an object without a row is one that a removal will take. Where the ids
of two adds are exchanged the balance is lost, and `muddled` says so.

**Framing.** The thread does not know where a part begins; the invariant does. After
`c` bytes and `k` parts have been taken out, the buffer is the stream from there to
what was read (`Holds`), every packet or frame behind part `k` is still whole
(`Stands`), and what was handed on are the messages of the first `k` parts (`At`).
That a parser finds just the next packet or frame in such a buffer is the body of
the proof: `PacketFound` and `PacketTaken` for packets; `FrameFound`, `AfterLastStarIs`
and `FrameTaken` for frames, where a frame that was given up in front of a whole one
is cut away by its missing end; and `HashBeforeStar` for junk. When the thread goes
back to read, no message may have been left behind: `json_len` is the length of the
packet at the front, and the rest of it has not come (`ClientWaits`); for a
forklift no frame that has wholly come is left (`Quiet`: the loop stops at 12 bytes,
less than any frame with a body); and for the WMS at most
one task comes with a read (`Wms`), unless `crowded` says otherwise, and then only
the order is promised. The induction is over the parts (`FirstsType`, `Monotone`,
`MessagesBetween`). The proof found a guard of the model that was too weak:
`PartOfPacket` could be taken with a length of -1 when a read ended inside the head
of a packet, so that the model waited where the code's loop goes on.

**Store.** What is committed is whole because of who inserts: while a transaction is
open, only the task or map that opened it does (`OwnerInv`), though everybody writes
over the same connection. It is a fact about all callers of `saveTask` and
`interSetMap` together, and it survives the transaction that a failed `save` leaves
open, because then nobody owns it and nobody can begin. `IdInv` keeps the ids below
the counters, also across a crash: after one, the counters are read from what is
committed, and the tasks whose ids could be given again are gone with the memory.
`WholeInv` says that what is committed points only to what is committed, so a node
with a new id cannot pick up somebody's things. `RowsInv` says what the owner has
inserted so far, and which of its nodes each thing points to; at the commit this is
the whole task (`OwnRead`), and nobody else's rows are read back differently
(`OthersRead`). `MapInv` follows the map: once it was set with success, memory and
all tables hold it, until the next client asks.

**Charging.** What is hard is that clients of earlier charges still read reports of
the machine into the one `realData` the thread looks at. `CycleInv` says what may be
on its way, at each place of the thread: before the start the machine is idle and
nothing that is on its way, in either direction, says otherwise (`AtRest`); after it
nothing says "idle", and who says "full" is right (`Started`); after "full" was
heard the machine stays full (`HeardFull`) until it is told to stop; and until it
says "idle" nothing on its way starts it (`Stopping`). A new command is sent only
when all earlier ones were answered or lost with their connections (`Settled`), so
these are four phases and not a mixture of them, whichever client hears the machine.
The exception is `excused`: an order that was never sent, or the "full" that unset
memory happens to hold. It never becomes empty again (`ExcusedForGood`), and
`ChargeCycle` promises nothing more then.

**Lift.** What is hard is that messages are heard late: the slot and the wire still
hold questions to a vehicle, or to everybody, when the lift has gone on. `LiftInv`
says for each vehicle what stays true of them. `Has`: from `enter` to `out` the lift
serves this vehicle, so at most one is in these places. `True`: what a vehicle has
confirmed it has done, an `IntoEleENQ` heard by one still outside means that the
lift waits for it now, and a `LeftEleENQ` that the lift has come to its floor; an
old one can be there only when the vehicle is past the place where it would act on
it. `ConfirmEleInfo` is safe because it compares the whole message. `AgvWaitArrive` does
not: it is safe because the lift, as it is modelled, asks by name to leave, while
its other questions may be to whoever is concerned. `AtFloor` ties
the phase to where the cabin is, and with these each step is one of `Cabin` or
none. `Holds`: the flag of the sending threads is reset only by a vehicle that enters
or leaves, and while one leaves there is no other such (`RiderKeepsOthers`).
`EndsAtItsEnd` is a fact about how the path is cut: `LeavesAtTheEnd` shows that the
last of the five parts ends where the path does, and that when it is empty the line
out of the cabin was the last.

Induction. The library's induction theorems cannot be instantiated by the
installed provers. Where a proof needs induction over the natural numbers it uses
`SetInduction`, the principle for a set in place of a predicate, which follows from
the least element of a well-founded set (`MapProofs`; `LeastOf` in `NetworkProofs`
and `ForkliftProofs`). With it `PathsOverAre` is proved: what the recursive
function of `ShortestRoute` enumerates are the paths that visit no station twice,
all of them and no others; and `LengthIsSum`, what the length of a path is.

Only model-checked:

- That every search ends, and the temporal property `HandedOnUnlessHeadIsCut`.
- Liveness under fairness, and ENABLED: out of TLAPS's reach.

Type invariants are stated where they are proved (`TaskManager`, `Traffic`,
`BlockManager`, `Fleet`, `Forklift`, `Clients`, `Store`, `PathSearch`, `Charging`,
`Elevator`);
elsewhere the refinements and invariants of the runs say more. No module here has a recursive operator.

## 6. What is not modelled, and the plan

Not modelled, and why:

- `AtForklift` (`Anting/`): a near copy of `DyForklift`, whose control `Forklift`
  has. Read beside it, it differs in that `pausedFlag` is compared with
  `msg.substr(0,7)` and never set, so that a paused vehicle does not resume;
  `excutespaths` is not cleared; and a report is matched by its type only.
- `rosAgv`, `realagv` and `qunchuang/`: other builds, mostly conversions of
  messages. `chipmounter.cpp:48` waits on a condition variable without a predicate
  while the reader notifies without the mutex, so a wake-up can be lost; in that
  build `Device::start` is never called.
- `UserLogManager`: logging.
- Read-only queries, lists and the requests that lock parts of the map
  (`interTraffic*`), whose flag nothing reads.
- Turns (`CAN_CHANGE_DIRECTION` is false in every build), positions within a line,
  floating-point geometry, formatting and parsing of requests, passwords, the
  history of charges.
- The status publisher, whose sending is commented out (`msgprocess.cpp:216-220`).
- Container corruption by data races: it has no outcomes to enumerate. Where a race
  on a container has one (an erase of `end()`, a duplicate entry) it is modelled.
- Vendored code (`sqlite3/`, `utils/Log/`).

Every safety property of the runs is now stated by a theorem, with the hypotheses
section 5 names. What is left is breadth: the vehicle's turns and errors in
`Forklift`, `AtForklift` as a second instance of it, and `TcpSession::send` with
its partial writes.
