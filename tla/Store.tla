------------------------------- MODULE Store -------------------------------
(***************************************************************************)
(* What the program keeps in its database and how it gets there.  All      *)
(* threads share one connection, g_db: a statement is executed at once     *)
(* unless a transaction is open, then it belongs to that transaction,      *)
(* whoever opened it; a second "begin" is refused.  Nobody ever rolls back *)
(* (taskmanager.cpp:475-500, mapmanager.cpp:324-402).                      *)
(*                                                                         *)
(* Tasks are saved by the distributor, one at a time, when they are done,  *)
(* and by the thread of each request that cancels one.  One client at a    *)
(* time sets the map.  The program may crash at any moment; what is not    *)
(* committed is lost, and the counters of ids are read from the database.  *)
(*                                                                         *)
(* A table of the map holds the part of one map or nothing; backgrounds    *)
(* and blocks are stored as groups are.  Every node has one thing to do.   *)
(* The database is one whose agv_group has the column groupType.           *)
(***************************************************************************)
EXTENDS Integers, Sequences, FiniteSets

CONSTANTS
    Task, Nodes,    \* tasks and how many nodes each has
    Map, NoMap,     \* maps, and a table without rows
    Quoted,         \* maps with a ' in the name of a line
    MaxSettings,    \* bound: how often a map is set
    MaxCrashes      \* bound: crashes

ASSUME StoreAssumption ==
    /\ Nodes \in [Task -> Nat]
    /\ NoMap \notin Map /\ Quoted \subseteq Map
    /\ MaxSettings \in Nat /\ MaxCrashes \in Nat

MapTable == {"station", "line", "floor", "group"}
Empty == [x \in MapTable |-> NoMap]
All(m) == [x \in MapTable |-> m]

VARIABLES
    disk, seen, open,   \* what is committed, what the connection sees, and
                        \* whether a transaction is open
    task_id, node_id, thing_id,     \* counters of TaskManager
    state, id,          \* of each task: where it is, its id (0: none yet)
    pos, node,          \* of each task being saved: rows inserted (-1: before
                        \* "begin"), the id of its last node
    saved,              \* tasks for which saveTask answered true
    memory, told,       \* MapManager: g_onemap; the last answer to a client
    setter,             \* interSetMap: [map, at]
    settings, crashes

dbVars == <<disk, seen, open>>
idVars == <<task_id, node_id, thing_id>>
taskVars == <<state, id, pos, node, saved>>
mapVars == <<memory, told, setter, settings>>
vars == <<dbVars, idVars, taskVars, mapVars, crashes>>

NoSetter == [map |-> NoMap, at |-> 0]

Init ==
    /\ disk = [rows |-> {}, map |-> Empty] /\ seen = disk /\ open = FALSE
    /\ task_id = 1 /\ node_id = 1 /\ thing_id = 1
    /\ state = [t \in Task |-> "new"] /\ id = [t \in Task |-> 0]
    /\ pos = [t \in Task |-> -1] /\ node = [t \in Task |-> 0]
    /\ saved = {}
    /\ memory = Empty /\ told = NoMap /\ setter = NoSetter
    /\ settings = 0 /\ crashes = 0

(***************************************************************************)
(* The connection                                                          *)
(***************************************************************************)
Exec(content) ==
    /\ seen' = content
    /\ disk' = IF open THEN disk ELSE content
    /\ UNCHANGED open
BeginTransaction == ~open /\ open' = TRUE /\ UNCHANGED <<disk, seen>>
Commit == open' = FALSE /\ disk' = seen /\ UNCHANGED seen

(***************************************************************************)
(* Tasks, as far as saving them needs                                      *)
(***************************************************************************)
Tasks(s) == {t \in Task : state[t] = s}
GoesTo(t, s) == state' = [state EXCEPT ![t] = s]

\* addTask; the distributor is not in the middle of its scan (toDisMtx).
Add(t) ==
    /\ state[t] = "new" /\ Tasks("finishing") = {}
    /\ task_id' = task_id + 1 /\ id' = [id EXCEPT ![t] = task_id + 1]
    /\ GoesTo(t, "queued")
    /\ UNCHANGED <<dbVars, node_id, thing_id, pos, node, saved, mapVars, crashes>>

\* A node is executed, and then the task is handed back.
Execute(t) ==
    /\ state[t] = "queued" /\ Tasks("finishing") = {}
    /\ GoesTo(t, "doing")
    /\ UNCHANGED <<dbVars, idVars, id, pos, node, saved, mapVars, crashes>>
HandBack(t) ==
    /\ state[t] = "doing" /\ Tasks("finishing") = {}
    /\ GoesTo(t, "queued")
    /\ UNCHANGED <<dbVars, idVars, id, pos, node, saved, mapVars, crashes>>

\* The distributor finds that all nodes are done; a client cancels the task.
\* Either calls saveTask.
Finish(t) ==
    /\ state[t] = "queued" /\ Tasks("finishing") = {}
    /\ GoesTo(t, "finishing")
    /\ UNCHANGED <<dbVars, idVars, id, pos, node, saved, mapVars, crashes>>
Cancel(t) ==
    /\ state[t] \in {"queued", "doing"} /\ Tasks("finishing") = {}
    /\ GoesTo(t, "cancelling")
    /\ UNCHANGED <<dbVars, idVars, id, pos, node, saved, mapVars, crashes>>

Saving(t) == state[t] \in {"finishing", "cancelling"}
Rows(t) == 1 + 2 * Nodes[t]

Begin(t) ==
    /\ Saving(t) /\ pos[t] = -1
    /\ BeginTransaction
    /\ pos' = [pos EXCEPT ![t] = 0]
    /\ UNCHANGED <<idVars, state, id, node, saved, mapVars, crashes>>

\* "begin transaction" throws, saveTask answers false and nobody looks.
BeginFails(t) ==
    /\ Saving(t) /\ pos[t] = -1 /\ open
    /\ GoesTo(t, "over")
    /\ UNCHANGED <<dbVars, idVars, id, pos, node, saved, mapVars, crashes>>

Row(table, i, of, t) == [table |-> table, id |-> i, of |-> of, task |-> t, nth |-> pos[t]]
Insert(row) == Exec([seen EXCEPT !.rows = @ \cup {row}])
InsertTask(t) ==
    /\ pos[t] = 0
    /\ Insert(Row("task", id[t], 0, t))
    /\ UNCHANGED <<idVars, node>>
InsertNode(t) ==
    /\ pos[t] \in 1..(Rows(t) - 1) /\ pos[t] % 2 = 1
    /\ node_id' = node_id + 1 /\ node' = [node EXCEPT ![t] = node_id + 1]
    /\ Insert(Row("node", node_id + 1, id[t], t))
    /\ UNCHANGED <<task_id, thing_id>>
InsertThing(t) ==
    /\ pos[t] \in 1..(Rows(t) - 1) /\ pos[t] % 2 = 0
    /\ thing_id' = thing_id + 1
    /\ Insert(Row("thing", thing_id + 1, node[t], t))
    /\ UNCHANGED <<task_id, node_id, node>>
InsertRow(t) ==
    /\ Saving(t)
    /\ InsertTask(t) \/ InsertNode(t) \/ InsertThing(t)
    /\ pos' = [pos EXCEPT ![t] = @ + 1]
    /\ UNCHANGED <<state, id, saved, mapVars, crashes>>

CommitTask(t) ==
    /\ Saving(t) /\ pos[t] = Rows(t)
    /\ Commit
    /\ saved' = saved \cup {t}
    /\ GoesTo(t, "over")
    /\ UNCHANGED <<idVars, id, pos, node, mapVars, crashes>>

(***************************************************************************)
(* interSetMap and save                                                    *)
(***************************************************************************)
\* The tables in the order in which they are emptied: by interSetMap, and by
\* save again, which does not forget the floors.
Deleted == <<"station", "line", "group", "station", "line", "floor", "group">>
ByHandler == 3
Inserted == <<"station", "line", "floor", "group">>
AtBegin == Len(Deleted) + 1
AtCommit == AtBegin + Len(Inserted) + 1

Setting(at) == setter.map # NoMap /\ setter.at = at
OnTo(at) == setter' = [setter EXCEPT !.at = at]

\* hasTaskDoing: a task that waits for its next node is not seen.
HasTaskDoing == Tasks("doing") # {}
SetMap(m) ==
    /\ setter = NoSetter /\ settings < MaxSettings
    /\ ~HasTaskDoing
    /\ settings' = settings + 1
    /\ memory' = Empty /\ told' = NoMap
    /\ setter' = [map |-> m, at |-> 1]
    /\ UNCHANGED <<dbVars, idVars, taskVars, crashes>>

\* After its own deletes the handler parses the request into g_onemap.
DeleteTable ==
    /\ \E at \in 1..Len(Deleted) :
         /\ Setting(at) /\ OnTo(at + 1)
         /\ Exec([seen EXCEPT !.map[Deleted[at]] = NoMap])
         /\ memory' = IF at = ByHandler THEN All(setter.map) ELSE memory
    /\ UNCHANGED <<idVars, taskVars, told, settings, crashes>>

BeginMap ==
    /\ Setting(AtBegin) /\ OnTo(AtBegin + 1)
    /\ BeginTransaction
    /\ UNCHANGED <<idVars, taskVars, memory, told, settings, crashes>>

InsertTable ==
    /\ \E n \in 1..Len(Inserted) :
         /\ Setting(AtBegin + n) /\ OnTo(AtBegin + n + 1)
         /\ Inserted[n] = "line" => setter.map \notin Quoted
         /\ Exec([seen EXCEPT !.map[Inserted[n]] = setter.map])
    /\ UNCHANGED <<idVars, taskVars, memory, told, settings, crashes>>

CommitMap ==
    /\ Setting(AtCommit)
    /\ Commit
    /\ told' = setter.map /\ setter' = NoSetter
    /\ UNCHANGED <<idVars, taskVars, memory, settings, crashes>>

\* "begin" or an insert throws: save answers false, the map in memory is
\* cleared.  The transaction, if it was this one's, stays open.
Refused ==
    \/ Setting(AtBegin) /\ open
    \/ Setting(AtBegin + 2) /\ setter.map \in Quoted
SaveFails ==
    /\ Refused
    /\ memory' = Empty /\ setter' = NoSetter
    /\ UNCHANGED <<dbVars, idVars, taskVars, told, settings, crashes>>

(***************************************************************************)
(* The program crashes and is started again (main.cpp:186-199).            *)
(***************************************************************************)
Ids(table) == {r.id : r \in {q \in disk.rows : q.table = table}}
\* "select max(id)" of an empty table throws, and those after it are not made.
\* Broken variant: the counters start anew.
ReadNoIds == task_id' = 1 /\ node_id' = 1 /\ thing_id' = 1
Largest(ids) == CHOOSE i \in ids : \A j \in ids : i >= j
ReadIds ==
    /\ task_id' = IF Ids("task") = {} THEN 1 ELSE Largest(Ids("task"))
    /\ node_id' = IF Ids("node") = {} THEN 1 ELSE Largest(Ids("node"))
    /\ thing_id' = IF Ids("node") = {} \/ Ids("thing") = {} THEN 1 ELSE Largest(Ids("thing"))

Crash ==
    /\ crashes < MaxCrashes /\ crashes' = crashes + 1
    /\ open' = FALSE /\ seen' = disk /\ UNCHANGED disk
    /\ ReadIds
    /\ state' = [t \in Task |-> IF state[t] = "new" THEN "new" ELSE "over"]
    /\ memory' = disk.map
    /\ setter' = NoSetter
    /\ UNCHANGED <<id, pos, node, saved, told, settings>>

Next ==
    \/ \E t \in Task :
         \/ Add(t) \/ Execute(t) \/ HandBack(t) \/ Finish(t) \/ Cancel(t)
         \/ Begin(t) \/ BeginFails(t) \/ InsertRow(t) \/ CommitTask(t)
    \/ \E m \in Map : SetMap(m)
    \/ DeleteTable \/ BeginMap \/ InsertTable \/ CommitMap \/ SaveFails
    \/ Crash

Spec == Init /\ [][Next]_vars

-----------------------------------------------------------------------------
(***************************************************************************)
(* Properties                                                              *)
(***************************************************************************)
\* What is read back by an id: the rows with that id, their nodes, their things.
Named(table, of) == {r \in disk.rows : r.table = table /\ r.of \in of}
ReadBack(i) ==
    LET nodes == Named("node", {i}) IN
    [tasks  |-> {r.task : r \in {q \in Named("task", {0}) : q.id = i}},
     nodes  |-> {<<r.task, r.nth>> : r \in nodes},
     things |-> {<<r.task, r.nth>> : r \in Named("thing", {r.id : r \in nodes})}]
WholeTask(t) ==
    [tasks  |-> {t},
     nodes  |-> {<<t, 2 * n - 1>> : n \in 1..Nodes[t]},
     things |-> {<<t, 2 * n>> : n \in 1..Nodes[t]}]
InUse(map) == IF \E m \in Map : map = All(m) THEN map["line"] ELSE NoMap

\* The database implements Archive: tasks for which saveTask answered true are
\* read back whole, by an id no other has had, whatever else was being written
\* and whenever the program crashed (taskmanager.cpp:331-350, 455-502); a map
\* set with success is the one in use and the one loaded from then on
\* (mapmanager.cpp:1446, 1611-1616).
Contract == INSTANCE Archive WITH
    Whole   <- WholeTask,
    history <- [i \in Ids("task") |-> ReadBack(i)],
    stored  <- InUse(disk.map),
    used    <- InUse(memory)
Promise == Contract!Spec
=============================================================================
