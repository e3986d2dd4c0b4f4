---------------------------- MODULE StoreProofs ----------------------------
(***************************************************************************)
(* Store implements Archive: what saveTask or interSetMap has answered is  *)
(* in the database for good, for any tasks, maps, faults and crashes.      *)
(***************************************************************************)
EXTENDS Store, TLAPS, WellFoundedInduction

-----------------------------------------------------------------------------
(* Types *)

States == {"new", "queued", "doing", "finishing", "cancelling", "over"}
Table == {"task", "node", "thing"}
RowSet == [table : Table, id : Nat, of : Nat, task : Task, nth : Nat]
Content == [rows : SUBSET RowSet, map : [MapTable -> Map \cup {NoMap}]]

StoreTypeOK ==
    /\ disk \in Content /\ seen \in Content /\ open \in BOOLEAN
    /\ task_id \in Nat /\ node_id \in Nat /\ thing_id \in Nat
    /\ state \in [Task -> States] /\ id \in [Task -> Nat]
    /\ pos \in [Task -> Int] /\ node \in [Task -> Nat]
    /\ saved \in SUBSET Task
    /\ memory \in [MapTable -> Map \cup {NoMap}] /\ told \in Map \cup {NoMap}
    /\ setter \in [map : Map, at : 1..AtCommit] \cup {NoSetter}

-----------------------------------------------------------------------------
(* Who has opened the transaction: the only one that inserts meanwhile *)

Owns(t) == Saving(t) /\ pos[t] >= 0
SetterOwns == setter # NoSetter /\ setter.at > AtBegin
OwnerInv ==
    /\ \A t \in Task : state[t] \in {"new", "queued", "doing"} => pos[t] = -1
    /\ \A t \in Task : pos[t] >= -1
    /\ \A t \in Task : Owns(t) => open /\ ~SetterOwns
    /\ \A t, u \in Task : Owns(t) /\ Owns(u) => t = u
    /\ SetterOwns => open
    /\ ~open => seen = disk
    /\ (\A t \in Task : ~Owns(t)) => seen.rows = disk.rows

\* The ids in the database are below the counters.
CountersInv ==
    /\ disk.rows \subseteq seen.rows
    /\ \A r \in seen.rows :
         \/ r.table = "task" /\ r.id <= task_id
         \/ r.table = "node" /\ r.id <= node_id
         \/ r.table = "thing" /\ r.id <= thing_id

\* Until it is over a task has an id of its own, which is not used yet.
Live(t) == state[t] \notin {"new", "over"}
IdInv ==
    /\ CountersInv
    /\ \A t \in Task : Live(t) => id[t] <= task_id /\ id[t] \notin Ids("task")
    /\ \A t, u \in Task : Live(t) /\ Live(u) /\ id[t] = id[u] => t = u
    /\ \A t \in saved : state[t] = "over"

\* Nothing that is committed points to what is not.
WholeInv ==
    \A r \in disk.rows :
        /\ r.table = "task" => r.of = 0
        /\ r.table = "node" => r.of \in Ids("task")
        /\ r.table = "thing" => r.of \in Ids("node")

\* The rows a task has inserted so far.
TableOf(n) == IF n = 0 THEN "task" ELSE IF n % 2 = 1 THEN "node" ELSE "thing"
NewNode(t, q, n) == /\ q \in seen.rows /\ q.table = "node" /\ q.task = t /\ q.nth = n
                    /\ q.of = id[t] /\ q.id \notin Ids("node")
Mine(t, r) ==
    /\ r.task = t /\ r.nth < pos[t] /\ r.table = TableOf(r.nth)
    /\ r.table = "task" => r.id = id[t] /\ r.of = 0
    /\ r.table = "node" => r.of = id[t] /\ r.id \notin Ids("node")
    /\ r.table = "thing" => \E q \in seen.rows : NewNode(t, q, r.nth - 1) /\ q.id = r.of
OwnRows(t) ==
    /\ pos[t] <= Rows(t)
    /\ \A r \in seen.rows : r \in disk.rows \/ Mine(t, r)
    /\ \A n \in 0..(pos[t] - 1) : \E r \in seen.rows :
         r \notin disk.rows /\ Mine(t, r) /\ r.nth = n
    /\ pos[t] >= 1 /\ pos[t] % 2 = 0 =>
         \E q \in seen.rows : NewNode(t, q, pos[t] - 1) /\ q.id = node[t]
RowsInv == \A t \in Task : Owns(t) => OwnRows(t)

(* The map *)
MapInv ==
    /\ told \in Map => /\ setter = NoSetter
                       /\ seen.map = All(told) /\ disk.map = All(told) /\ memory = All(told)
    /\ setter # NoSetter /\ setter.at > ByHandler => memory = All(setter.map)
    /\ SetterOwns => \A n \in 1..Len(Inserted) :
         setter.at > AtBegin + n => seen.map[Inserted[n]] = setter.map

StoreInv == StoreTypeOK /\ OwnerInv /\ IdInv /\ WholeInv /\ RowsInv /\ MapInv

-----------------------------------------------------------------------------
(* Lemmas about numbers and rows *)

\* A set of numbers below some number has a largest, which the code gets by
\* "select max(id)".
LEMMA LargestIs ==
    ASSUME NEW S \in SUBSET Nat, NEW n \in Nat, \A i \in S : i <= n, S # {}
    PROVE  Largest(S) \in S /\ \A i \in S : i <= Largest(S)
<1> DEFINE B == {b \in Nat : \A i \in S : i <= b}
           R == OpToRel(<, Nat)
<1>1. PICK m \in B : \A b \in B : ~(<<b, m>> \in R)
  <2>1. IsWellFoundedOn(R, Nat)
    BY NatLessThanWellFounded
  <2>2. n \in B
    OBVIOUS
  <2> HIDE DEF R
  <2> QED
    BY <2>1, <2>2, WFMin
<1>2. m \in S
  <2> SUFFICES ASSUME m \notin S PROVE FALSE
    OBVIOUS
  <2>1. PICK i : i \in S
    OBVIOUS
  <2>2. i <= m /\ i # m /\ i \in Nat /\ m \in Nat
    BY <2>1
  <2>3. m - 1 \in Nat /\ m - 1 < m
    BY <2>2
  <2>4. \A j \in S : j <= m /\ j # m /\ j \in Nat
    OBVIOUS
  <2>5. \A j \in S : j <= m - 1
    BY <2>2, <2>4
  <2>6. m - 1 \in B
    BY <2>3, <2>5
  <2>7. <<m - 1, m>> \in R
    BY <2>2, <2>3 DEF OpToRel
  <2> QED
    BY <1>1, <2>6, <2>7
<1>3. \E i \in S : \A j \in S : i >= j
  BY <1>2
<1> QED
  BY <1>3 DEF Largest

LEMMA EmptyMap == Empty \in [MapTable -> Map \cup {NoMap}]
BY DEF Empty

LEMMA AllMap == ASSUME NEW m \in Map PROVE All(m) \in [MapTable -> Map \cup {NoMap}]
BY DEF All

LEMMA Sizes ==
    /\ AtBegin = 8 /\ AtCommit = 13 /\ ByHandler = 3 /\ Len(Deleted) = 7 /\ Len(Inserted) = 4
    /\ \A i \in 1..7 : Deleted[i] \in MapTable
    /\ \A i \in 1..4 : Inserted[i] \in MapTable
<1>1. Len(Deleted) = 7 /\ Len(Inserted) = 4
  BY DEF Deleted, Inserted
<1>2. \A i \in 1..7 : Deleted[i] \in MapTable
  BY DEF Deleted, MapTable
<1>3. \A i \in 1..4 : Inserted[i] \in MapTable
  BY DEF Inserted, MapTable
<1> QED
  BY <1>1, <1>2, <1>3 DEF AtBegin, AtCommit, ByHandler

LEMMA RowsOf == \A t \in Task : Rows(t) \in Nat /\ Rows(t) >= 1 /\ Nodes[t] \in Nat
BY StoreAssumption DEF Rows

-----------------------------------------------------------------------------
(* Type correctness *)

LEMMA NewRow ==
    ASSUME StoreTypeOK, NEW t \in Task, pos[t] >= 0, NEW table \in Table,
           NEW i \in Nat, NEW of \in Nat
    PROVE  Row(table, i, of, t) \in RowSet
BY DEF StoreTypeOK, Row, RowSet

LEMMA ExecTypes ==
    ASSUME StoreTypeOK, NEW content \in Content, Exec(content)
    PROVE  seen' \in Content /\ disk' \in Content /\ open' \in BOOLEAN
BY DEF StoreTypeOK, Exec

\* What an insertion is, whichever table it is for.
Inserts(t, row) ==
    /\ row.task = t /\ row.nth = pos[t] /\ row.table = TableOf(pos[t])
    /\ row.table = "task" => row.id = id[t] /\ row.of = 0
                             /\ UNCHANGED <<node_id, thing_id, node>>
    /\ row.table = "node" => row.id = node_id + 1 /\ row.of = id[t]
                             /\ node' = [node EXCEPT ![t] = node_id + 1]
                             /\ node_id' = node_id + 1 /\ UNCHANGED thing_id
    /\ row.table = "thing" => row.id = thing_id + 1 /\ row.of = node[t]
                              /\ thing_id' = thing_id + 1 /\ UNCHANGED <<node_id, node>>
    /\ Exec([seen EXCEPT !.rows = @ \cup {row}])
    /\ UNCHANGED task_id
    /\ pos[t] \in 0..(Rows(t) - 1)

LEMMA InsertIs ==
    ASSUME StoreTypeOK, NEW t \in Task, InsertRow(t)
    PROVE  \E row \in RowSet : Inserts(t, row)
<1>0. t \in Task /\ id[t] \in Nat /\ node[t] \in Nat /\ node_id + 1 \in Nat
      /\ thing_id + 1 \in Nat /\ pos[t] \in Int /\ Rows(t) \in Nat /\ Rows(t) >= 1
  BY RowsOf DEF StoreTypeOK
<1>1. CASE InsertTask(t)
  <2>1. pos[t] = 0
    BY <1>1 DEF InsertTask
  <2>2. Row("task", id[t], 0, t) \in RowSet
    BY <1>0, <2>1, NewRow DEF Table
  <2> WITNESS Row("task", id[t], 0, t) \in RowSet
  <2> QED
    BY <1>0, <1>1, <2>1 DEF Inserts, InsertTask, Insert, Row, TableOf, idVars
<1>2. CASE InsertNode(t)
  <2>1. pos[t] >= 1 /\ pos[t] % 2 = 1 /\ pos[t] \in 0..(Rows(t) - 1)
    BY <1>0, <1>2 DEF InsertNode
  <2>2. Row("node", node_id + 1, id[t], t) \in RowSet
    BY <1>0, <2>1, NewRow DEF Table
  <2> WITNESS Row("node", node_id + 1, id[t], t) \in RowSet
  <2> QED
    BY <1>0, <1>2, <2>1 DEF Inserts, InsertNode, Insert, Row, TableOf
<1>3. CASE InsertThing(t)
  <2>1. pos[t] >= 1 /\ pos[t] % 2 = 0 /\ pos[t] \in 0..(Rows(t) - 1)
    BY <1>0, <1>3 DEF InsertThing
  <2>2. Row("thing", thing_id + 1, node[t], t) \in RowSet
    BY <1>0, <2>1, NewRow DEF Table
  <2> WITNESS Row("thing", thing_id + 1, node[t], t) \in RowSet
  <2> QED
    BY <1>0, <1>3, <2>1 DEF Inserts, InsertThing, Insert, Row, TableOf
<1> QED
  BY <1>1, <1>2, <1>3 DEF InsertRow

LEMMA TypesInit == Init => StoreTypeOK
<1> SUFFICES ASSUME Init PROVE StoreTypeOK
  OBVIOUS
<1>1. [rows |-> {}, map |-> Empty] \in Content
  BY EmptyMap DEF Content
<1>2. disk \in Content /\ seen \in Content /\ open \in BOOLEAN
  BY <1>1 DEF Init
<1>3. memory \in [MapTable -> Map \cup {NoMap}] /\ told \in Map \cup {NoMap}
      /\ setter \in [map : Map, at : 1..AtCommit] \cup {NoSetter}
  BY EmptyMap DEF Init
<1> QED
  BY <1>2, <1>3 DEF Init, StoreTypeOK, States

LEMMA IdsAre ==
    ASSUME StoreTypeOK, NEW table
    PROVE  Ids(table) \in SUBSET Nat
BY DEF StoreTypeOK, Ids, Content, RowSet

LEMMA CountersRead ==
    ASSUME StoreTypeOK, CountersInv, ReadIds
    PROVE  /\ task_id' \in Nat /\ node_id' \in Nat /\ thing_id' \in Nat
           /\ \A i \in Ids("task") : i <= task_id'
           /\ \A i \in Ids("node") : i <= node_id'
           /\ Ids("node") # {} => \A i \in Ids("thing") : i <= thing_id'
<1>1. /\ Ids("task") \in SUBSET Nat /\ Ids("node") \in SUBSET Nat /\ Ids("thing") \in SUBSET Nat
      /\ task_id \in Nat /\ node_id \in Nat /\ thing_id \in Nat
  BY IdsAre DEF StoreTypeOK
<1>2. /\ \A i \in Ids("task") : i <= task_id
      /\ \A i \in Ids("node") : i <= node_id
      /\ \A i \in Ids("thing") : i <= thing_id
  BY DEF CountersInv, Ids
<1>3. Ids("task") # {} => Largest(Ids("task")) \in Ids("task") /\ \A i \in Ids("task") : i <= Largest(Ids("task"))
  BY <1>1, <1>2, LargestIs
<1>4. Ids("node") # {} => Largest(Ids("node")) \in Ids("node") /\ \A i \in Ids("node") : i <= Largest(Ids("node"))
  BY <1>1, <1>2, LargestIs
<1>5. Ids("thing") # {} => Largest(Ids("thing")) \in Ids("thing") /\ \A i \in Ids("thing") : i <= Largest(Ids("thing"))
  BY <1>1, <1>2, LargestIs
<1> QED
  BY <1>1, <1>3, <1>4, <1>5 DEF ReadIds

LEMMA TypesNext == StoreTypeOK /\ CountersInv /\ OwnerInv /\ [Next]_vars => StoreTypeOK'
<1> SUFFICES ASSUME StoreTypeOK, CountersInv, OwnerInv, [Next]_vars PROVE StoreTypeOK'
  OBVIOUS
<1> USE DEF dbVars, idVars, taskVars, mapVars
<1>1. ASSUME NEW t \in Task, Add(t) PROVE StoreTypeOK'
  BY <1>1 DEF Add, GoesTo, StoreTypeOK, States
<1>2. ASSUME NEW t \in Task, Execute(t) \/ HandBack(t) \/ Finish(t) \/ Cancel(t) \/ BeginFails(t)
      PROVE  StoreTypeOK'
  BY <1>2 DEF Execute, HandBack, Finish, Cancel, BeginFails, GoesTo, StoreTypeOK, States
<1>3. ASSUME NEW t \in Task, Begin(t) PROVE StoreTypeOK'
  BY <1>3 DEF Begin, BeginTransaction, StoreTypeOK
<1>4. ASSUME NEW t \in Task, InsertRow(t) PROVE StoreTypeOK'
  <2>0. PICK row \in RowSet : Inserts(t, row)
    BY <1>4, InsertIs
  <2>1. /\ Exec([seen EXCEPT !.rows = @ \cup {row}])
        /\ UNCHANGED task_id
        /\ node_id' \in Nat /\ thing_id' \in Nat /\ node' \in [Task -> Nat]
    <3>1. /\ node_id + 1 \in Nat /\ thing_id + 1 \in Nat
          /\ node_id \in Nat /\ thing_id \in Nat /\ node \in [Task -> Nat]
      BY DEF StoreTypeOK
    <3>2. row.table \in Table
      BY DEF RowSet
    <3> QED
      BY <2>0, <3>1, <3>2 DEF Inserts, Table
  <2>2. [seen EXCEPT !.rows = @ \cup {row}] \in Content
    BY DEF StoreTypeOK, Content
  <2>3. seen' \in Content /\ disk' \in Content /\ open' \in BOOLEAN
    BY <2>1, <2>2, ExecTypes
  <2>4. pos' \in [Task -> Int]
    BY <1>4 DEF InsertRow, StoreTypeOK
  <2> QED
    BY <1>4, <2>1, <2>3, <2>4 DEF InsertRow, StoreTypeOK
<1>5. ASSUME NEW t \in Task, CommitTask(t) PROVE StoreTypeOK'
  BY <1>5 DEF CommitTask, Commit, GoesTo, StoreTypeOK, States
<1>6. ASSUME NEW m \in Map, SetMap(m) PROVE StoreTypeOK'
  <2>1. setter' \in [map : Map, at : 1..AtCommit]
    BY <1>6, Sizes DEF SetMap
  <2> QED
    BY <1>6, <2>1, EmptyMap DEF SetMap, StoreTypeOK
<1>7. ASSUME NEW at \in 1..12, Setting(at), OnTo(at + 1)
      PROVE  /\ setter \in [map : Map, at : 1..AtCommit]
             /\ setter' \in [map : Map, at : 1..AtCommit]
             /\ setter'.map = setter.map /\ setter'.at = at + 1 /\ setter.at = at
  <2>1. setter # NoSetter
    BY <1>7 DEF Setting, NoSetter
  <2>2. at + 1 \in 1..13
    OBVIOUS
  <2> QED
    BY <1>7, <2>1, <2>2, Sizes DEF StoreTypeOK, Setting, OnTo
<1>8. ASSUME DeleteTable PROVE StoreTypeOK'
  <2>1. PICK at \in 1..7 :
          /\ Setting(at) /\ OnTo(at + 1)
          /\ Exec([seen EXCEPT !.map[Deleted[at]] = NoMap])
          /\ memory' = IF at = ByHandler THEN All(setter.map) ELSE memory
    BY <1>8, Sizes DEF DeleteTable
  <2>2. Deleted[at] \in MapTable /\ at \in 1..12
    BY Sizes
  <2>3. [seen EXCEPT !.map[Deleted[at]] = NoMap] \in Content
    BY <2>2 DEF StoreTypeOK, Content
  <2>4. seen' \in Content /\ disk' \in Content /\ open' \in BOOLEAN
    BY <2>1, <2>3, ExecTypes
  <2>5. setter.map \in Map /\ setter' \in [map : Map, at : 1..AtCommit]
    BY <1>7, <2>1, <2>2
  <2>6. memory' \in [MapTable -> Map \cup {NoMap}]
    BY <2>1, <2>5, AllMap DEF StoreTypeOK
  <2> QED
    BY <1>8, <2>4, <2>5, <2>6 DEF DeleteTable, StoreTypeOK
<1>9. ASSUME BeginMap PROVE StoreTypeOK'
  <2>1. setter' \in [map : Map, at : 1..AtCommit]
    BY <1>7, <1>9, Sizes DEF BeginMap
  <2> QED
    BY <1>9, <2>1 DEF BeginMap, BeginTransaction, StoreTypeOK
<1>10. ASSUME InsertTable PROVE StoreTypeOK'
  <2>1. PICK n \in 1..4 :
          /\ Setting(8 + n) /\ OnTo(8 + n + 1)
          /\ Exec([seen EXCEPT !.map[Inserted[n]] = setter.map])
    BY <1>10, Sizes DEF InsertTable
  <2>2. Inserted[n] \in MapTable /\ 8 + n \in 1..12
    BY Sizes
  <2>3. setter.map \in Map /\ setter' \in [map : Map, at : 1..AtCommit]
    BY <1>7, <2>1, <2>2
  <2>4. [seen EXCEPT !.map[Inserted[n]] = setter.map] \in Content
    BY <2>2, <2>3 DEF StoreTypeOK, Content
  <2>5. seen' \in Content /\ disk' \in Content /\ open' \in BOOLEAN
    BY <2>1, <2>4, ExecTypes
  <2> QED
    BY <1>10, <2>3, <2>5 DEF InsertTable, StoreTypeOK
<1>11. ASSUME CommitMap PROVE StoreTypeOK'
  <2>1. setter.map \in Map
    BY <1>11 DEF CommitMap, Setting, StoreTypeOK, NoSetter
  <2> QED
    BY <1>11, <2>1 DEF CommitMap, Commit, StoreTypeOK
<1>12. ASSUME SaveFails PROVE StoreTypeOK'
  BY <1>12, EmptyMap DEF SaveFails, StoreTypeOK
<1>13. ASSUME Crash PROVE StoreTypeOK'
  <2>1. task_id' \in Nat /\ node_id' \in Nat /\ thing_id' \in Nat
    BY <1>13, CountersRead DEF Crash
  <2>2. state' \in [Task -> States]
    BY <1>13 DEF Crash, States
  <2> QED
    BY <1>13, <2>1, <2>2 DEF Crash, StoreTypeOK, Content
<1>14. CASE UNCHANGED vars
  BY <1>14 DEF vars, StoreTypeOK
<1> QED
  BY <1>1, <1>2, <1>3, <1>4, <1>5, <1>6, <1>8, <1>9, <1>10, <1>11, <1>12, <1>13, <1>14
     DEF Next

-----------------------------------------------------------------------------
(* The transaction and its owner *)

SameRows == seen'.rows = seen.rows /\ disk'.rows = disk.rows

\* A statement about the map touches no rows of tasks.
LEMMA ExecMap ==
    ASSUME StoreTypeOK, OwnerInv, NEW x \in MapTable, NEW y \in Map \cup {NoMap},
           Exec([seen EXCEPT !.map[x] = y])
    PROVE  /\ SameRows /\ open' = open /\ (open => disk' = disk)
           /\ (~open => seen' = disk')
           /\ seen'.map = [seen.map EXCEPT ![x] = y]
<1>1. seen \in Content
  BY DEF StoreTypeOK
<1>2. DEFINE new == [seen EXCEPT !.map[x] = y]
<1>3. new.rows = seen.rows /\ new.map = [seen.map EXCEPT ![x] = y]
  BY <1>1 DEF Content
<1>4. seen' = new /\ disk' = (IF open THEN disk ELSE new) /\ open' = open
  BY DEF Exec
<1> QED
  BY <1>3, <1>4 DEF SameRows, OwnerInv

\* A statement that inserts a row of a task.
LEMMA ExecRow ==
    ASSUME StoreTypeOK, open, NEW row \in RowSet,
           Exec([seen EXCEPT !.rows = @ \cup {row}])
    PROVE  /\ open' = open /\ disk' = disk
           /\ seen'.rows = seen.rows \cup {row} /\ seen'.map = seen.map
<1>1. seen \in Content
  BY DEF StoreTypeOK
<1> QED
  BY <1>1 DEF Exec, Content

\* Which step of interSetMap is done.
LEMMA SettingIs ==
    ASSUME StoreTypeOK, NEW at \in 1..13, Setting(at)
    PROVE  /\ setter # NoSetter /\ setter.at = at /\ setter.map \in Map
           /\ SetterOwns <=> at > 8
<1>1. setter # NoSetter
  BY DEF Setting, NoSetter
<1> QED
  BY <1>1, Sizes DEF StoreTypeOK, Setting, SetterOwns

LEMMA OnToIs ==
    ASSUME StoreTypeOK, NEW at \in 1..12, Setting(at), OnTo(at + 1)
    PROVE  /\ setter' # NoSetter /\ setter'.at = at + 1 /\ setter'.map = setter.map
           /\ SetterOwns' <=> at + 1 > 8
<1>1. setter # NoSetter /\ setter.at = at /\ setter.map \in Map
  BY SettingIs
<1>2. setter'.at = at + 1 /\ setter'.map = setter.map
  BY <1>1 DEF OnTo, StoreTypeOK
<1>3. setter' # NoSetter
  BY <1>1, <1>2, StoreAssumption DEF NoSetter
<1> QED
  BY <1>2, <1>3, Sizes DEF SetterOwns

\* Steps of tasks that do not save, and those that do not get to.
LEMMA OwnerTask ==
    ASSUME StoreTypeOK, OwnerInv, NEW t \in Task, NEW s \in States,
           GoesTo(t, s), UNCHANGED <<pos, dbVars, setter>>, pos[t] = -1
    PROVE  OwnerInv' /\ \A u \in Task : Owns(u)' <=> Owns(u)
<1>1. \A u \in Task : pos'[u] = pos[u] /\ (u # t => state'[u] = state[u])
  BY DEF GoesTo, StoreTypeOK
<1>2. ~Owns(t) /\ ~Owns(t)'
  BY <1>1 DEF Owns
<1>3. \A u \in Task : Owns(u)' <=> Owns(u)
  BY <1>1, <1>2 DEF Owns, Saving
<1>4. SetterOwns' <=> SetterOwns
  BY DEF SetterOwns
<1>5. \A u \in Task : state'[u] \in {"new", "queued", "doing"} => pos'[u] = -1
  BY <1>1 DEF OwnerInv
<1> QED
  BY <1>1, <1>3, <1>4, <1>5 DEF OwnerInv, dbVars

\* Steps of the one who sets the map.
LEMMA OwnerMap ==
    ASSUME StoreTypeOK, OwnerInv, UNCHANGED <<state, pos>>, SameRows, open' = open,
           ~open => seen' = disk', SetterOwns' => SetterOwns
    PROVE  OwnerInv' /\ \A u \in Task : Owns(u)' <=> Owns(u)
<1>1. \A u \in Task : Owns(u)' <=> Owns(u)
  BY DEF Owns, Saving
<1> QED
  BY <1>1 DEF OwnerInv, SameRows

LEMMA OwnerNext ==
    ASSUME StoreTypeOK, OwnerInv, [Next]_vars
    PROVE  OwnerInv'
<1> USE DEF dbVars, idVars, taskVars, mapVars
<1>1. ASSUME NEW t \in Task,
             Add(t) \/ Execute(t) \/ HandBack(t) \/ Finish(t) \/ Cancel(t) \/ BeginFails(t)
      PROVE  OwnerInv'
  <2>1. pos[t] = -1 /\ UNCHANGED <<pos, dbVars, setter>>
    BY <1>1 DEF Add, Execute, HandBack, Finish, Cancel, BeginFails, OwnerInv
  <2>2. \E s \in States : GoesTo(t, s)
    BY <1>1 DEF Add, Execute, HandBack, Finish, Cancel, BeginFails, States
  <2> QED
    BY <2>1, <2>2, OwnerTask
<1>2. ASSUME NEW t \in Task, Begin(t) PROVE OwnerInv'
  <2>1. /\ ~open /\ open' /\ UNCHANGED <<disk, seen, state, setter>>
        /\ pos' = [pos EXCEPT ![t] = 0] /\ Saving(t)
    BY <1>2 DEF Begin, BeginTransaction
  <2>2. pos'[t] = 0 /\ \A u \in Task : u # t => pos'[u] = pos[u]
    BY <2>1 DEF StoreTypeOK
  <2>3. \A u \in Task : ~Owns(u)
    BY <2>1 DEF OwnerInv
  <2>4. \A u \in Task : Owns(u)' <=> u = t
    BY <2>1, <2>2, <2>3 DEF Owns, Saving
  <2>5. ~SetterOwns /\ ~SetterOwns'
    BY <2>1 DEF OwnerInv, SetterOwns
  <2>6. \A u \in Task : state'[u] \in {"new", "queued", "doing"} => pos'[u] = -1
    BY <2>1, <2>2 DEF OwnerInv, Saving
  <2>7. \A u \in Task : pos'[u] >= -1
    BY <2>1, <2>2 DEF OwnerInv
  <2> QED
    BY <2>1, <2>4, <2>5, <2>6, <2>7 DEF OwnerInv
<1>3. ASSUME NEW t \in Task, InsertRow(t) PROVE OwnerInv'
  <2>1. PICK row \in RowSet : Inserts(t, row)
    BY <1>3, InsertIs
  <2>2. Owns(t) /\ open /\ pos[t] \in Nat /\ pos'[t] = pos[t] + 1
        /\ \A u \in Task : u # t => pos'[u] = pos[u]
    BY <1>3, <2>1, RowsOf DEF Inserts, Owns, OwnerInv, InsertRow, StoreTypeOK
  <2>3. open' /\ UNCHANGED <<state, setter>>
    BY <1>3, <2>1, <2>2, ExecRow DEF Inserts, InsertRow
  <2>4. \A u \in Task : Owns(u)' <=> Owns(u)
    BY <2>2, <2>3 DEF Owns, Saving
  <2>5. \A u \in Task : state'[u] \in {"new", "queued", "doing"} => pos'[u] = -1
    BY <2>2, <2>3 DEF OwnerInv, Owns, Saving
  <2>6. SetterOwns' <=> SetterOwns
    BY <2>3 DEF SetterOwns
  <2>7. \A u \in Task : pos'[u] >= -1
    BY <2>2 DEF OwnerInv
  <2> QED
    BY <2>2, <2>3, <2>4, <2>5, <2>6, <2>7 DEF OwnerInv
<1>4. ASSUME NEW t \in Task, CommitTask(t) PROVE OwnerInv'
  <2>1. /\ Saving(t) /\ pos[t] = Rows(t) /\ ~open' /\ seen' = seen /\ disk' = seen
        /\ state' = [state EXCEPT ![t] = "over"] /\ UNCHANGED <<pos, setter>>
    BY <1>4 DEF CommitTask, Commit, GoesTo
  <2>2. Owns(t)
    BY <2>1, RowsOf DEF Owns
  <2>3. state'[t] = "over" /\ \A u \in Task : u # t => state'[u] = state[u]
    BY <2>1 DEF StoreTypeOK
  <2>4. \A u \in Task : ~Owns(u)'
    BY <2>1, <2>2, <2>3 DEF OwnerInv, Owns, Saving
  <2>5. ~SetterOwns'
    BY <2>1, <2>2 DEF OwnerInv, SetterOwns
  <2>6. \A u \in Task : state'[u] \in {"new", "queued", "doing"} => pos'[u] = -1
    BY <2>1, <2>3 DEF OwnerInv
  <2> QED
    BY <2>1, <2>4, <2>5, <2>6 DEF OwnerInv
<1>5. ASSUME NEW m \in Map, SetMap(m) PROVE OwnerInv'
  <2>1. setter'.at = 1 /\ UNCHANGED <<state, pos, disk, seen, open>>
    BY <1>5 DEF SetMap
  <2>2. ~SetterOwns'
    BY <2>1, Sizes DEF SetterOwns
  <2> QED
    BY <2>1, <2>2, OwnerMap DEF SameRows, OwnerInv
<1>6. ASSUME DeleteTable PROVE OwnerInv'
  <2>1. PICK at \in 1..7 :
          Setting(at) /\ OnTo(at + 1) /\ Exec([seen EXCEPT !.map[Deleted[at]] = NoMap])
    BY <1>6, Sizes DEF DeleteTable
  <2>2. at \in 1..12 /\ ~(at + 1 > 8) /\ Deleted[at] \in MapTable
    BY Sizes
  <2>3. ~SetterOwns'
    BY <2>1, <2>2, OnToIs
  <2>4. SameRows /\ open' = open /\ (~open => seen' = disk')
    BY <2>1, <2>2, ExecMap
  <2> QED
    BY <1>6, <2>3, <2>4, OwnerMap DEF DeleteTable
<1>7. ASSUME BeginMap PROVE OwnerInv'
  <2>1. /\ ~open /\ open' /\ UNCHANGED <<disk, seen, state, pos>>
    BY <1>7 DEF BeginMap, BeginTransaction
  <2>2. \A u \in Task : ~Owns(u) /\ ~Owns(u)'
    BY <2>1 DEF OwnerInv, Owns, Saving
  <2> QED
    BY <2>1, <2>2 DEF OwnerInv
<1>8. ASSUME InsertTable PROVE OwnerInv'
  <2>1. PICK n \in 1..4 :
          /\ Setting(8 + n) /\ OnTo(8 + n + 1)
          /\ Exec([seen EXCEPT !.map[Inserted[n]] = setter.map])
    BY <1>8, Sizes DEF InsertTable
  <2>2. 8 + n \in 1..13 /\ 8 + n > 8 /\ Inserted[n] \in MapTable
    BY Sizes
  <2>3. SetterOwns /\ setter.map \in Map
    BY <2>1, <2>2, SettingIs
  <2>4. SameRows /\ open' = open /\ (~open => seen' = disk')
    BY <2>1, <2>2, <2>3, ExecMap
  <2> QED
    BY <1>8, <2>3, <2>4, OwnerMap DEF InsertTable
<1>9. ASSUME CommitMap PROVE OwnerInv'
  <2>1. /\ ~open' /\ seen' = seen /\ disk' = seen /\ setter' = NoSetter
        /\ UNCHANGED <<state, pos>> /\ Setting(13)
    BY <1>9, Sizes DEF CommitMap, Commit
  <2>2. SetterOwns
    BY <2>1, SettingIs
  <2>3. \A u \in Task : ~Owns(u) /\ ~Owns(u)'
    BY <2>1, <2>2 DEF OwnerInv, Owns, Saving
  <2> QED
    BY <2>1, <2>3 DEF OwnerInv, SetterOwns
<1>10. ASSUME SaveFails PROVE OwnerInv'
  <2>1. ~SetterOwns' /\ UNCHANGED <<disk, seen, open, state, pos>>
    BY <1>10 DEF SaveFails, SetterOwns
  <2> QED
    BY <2>1, OwnerMap DEF SameRows, OwnerInv
<1>11. ASSUME Crash PROVE OwnerInv'
  <2>1. /\ ~open' /\ seen' = disk' /\ setter' = NoSetter /\ UNCHANGED pos
        /\ \A u \in Task : state'[u] = IF state[u] = "new" THEN "new" ELSE "over"
    BY <1>11 DEF Crash
  <2>2. \A u \in Task : ~Owns(u)'
    BY <2>1 DEF Owns, Saving
  <2> QED
    BY <2>1, <2>2 DEF OwnerInv, SetterOwns
<1>12. CASE UNCHANGED vars
  BY <1>12 DEF vars, OwnerInv, Owns, Saving, SetterOwns
<1> QED
  BY <1>1, <1>2, <1>3, <1>4, <1>5, <1>6, <1>7, <1>8, <1>9, <1>10, <1>11, <1>12
     DEF Next

-----------------------------------------------------------------------------
(* Ids and rows *)

ContentInv == IdInv /\ WholeInv /\ RowsInv

LEMMA OwnRowsKept ==
    ASSUME NEW t \in Task, OwnRows(t), SameRows,
           pos'[t] = pos[t], node'[t] = node[t], id'[t] = id[t]
    PROVE  OwnRows(t)'
<1>1. \A table : Ids(table)' = Ids(table)
  BY DEF SameRows, Ids
<1>2. \A q, n : NewNode(t, q, n)' <=> NewNode(t, q, n)
  BY <1>1 DEF NewNode, SameRows
<1>3. \A r : Mine(t, r)' <=> Mine(t, r)
  BY <1>1, <1>2 DEF Mine, SameRows
<1>4. pos'[t] <= Rows(t)'
  BY DEF OwnRows, Rows
<1>5. \A r \in seen'.rows : r \in disk'.rows \/ Mine(t, r)'
  BY <1>3 DEF OwnRows, SameRows
<1>6. \A n \in 0..(pos'[t] - 1) : \E r \in seen'.rows :
         r \notin disk'.rows /\ Mine(t, r)' /\ r.nth = n
  BY <1>3 DEF OwnRows, SameRows
<1>7. ASSUME pos'[t] >= 1, pos'[t] % 2 = 0
      PROVE  \E q \in seen'.rows : NewNode(t, q, pos[t] - 1)' /\ q.id = node'[t]
  <2>1. PICK q \in seen.rows : NewNode(t, q, pos[t] - 1) /\ q.id = node[t]
    BY <1>7 DEF OwnRows
  <2> QED
    BY <2>1, <1>1 DEF NewNode, SameRows
<1> QED
  BY <1>4, <1>5, <1>6, <1>7 DEF OwnRows

\* Steps that insert nothing, commit nothing and create no task.
LEMMA ContentKept ==
    ASSUME ContentInv, SameRows, UNCHANGED <<task_id, node_id, thing_id, id, node, saved>>,
           \A u \in Task : Owns(u)' => Owns(u) /\ pos'[u] = pos[u],
           \A u \in Task : Live(u)' => Live(u),
           \A u \in Task : state[u] = "over" => state'[u] = "over",
           saved \subseteq Task
    PROVE  ContentInv'
<1>1. \A table : Ids(table)' = Ids(table)
  BY DEF SameRows, Ids
<1>2. IdInv'
  BY <1>1 DEF ContentInv, IdInv, CountersInv, SameRows
<1>3. WholeInv'
  BY <1>1 DEF ContentInv, WholeInv, SameRows
<1>4. RowsInv'
  BY OwnRowsKept DEF ContentInv, RowsInv
<1> QED
  BY <1>2, <1>3, <1>4 DEF ContentInv

LEMMA ContentAdd ==
    ASSUME StoreTypeOK, OwnerInv, ContentInv, NEW t \in Task, Add(t)
    PROVE  ContentInv'
<1>1. /\ UNCHANGED <<disk, seen, open, node_id, thing_id, pos, node, saved, setter>>
      /\ task_id' = task_id + 1 /\ task_id \in Nat
      /\ id' = [id EXCEPT ![t] = task_id + 1] /\ state[t] = "new"
      /\ state' = [state EXCEPT ![t] = "queued"]
  BY DEF Add, GoesTo, dbVars, mapVars, StoreTypeOK
<1>2. /\ id'[t] = task_id + 1 /\ state'[t] = "queued"
      /\ \A u \in Task : u # t => id'[u] = id[u] /\ state'[u] = state[u]
  BY <1>1 DEF StoreTypeOK
<1>3. \A table : Ids(table)' = Ids(table)
  BY <1>1 DEF Ids
<1>4. CountersInv'
  <2>1. ASSUME NEW r \in seen.rows PROVE r.id \in Nat
    BY DEF StoreTypeOK, Content, RowSet
  <2> QED
    BY <1>1, <2>1 DEF ContentInv, IdInv, CountersInv
<1>5. task_id + 1 \notin Ids("task")
  <2>1. \A r \in disk.rows : r.table = "task" => r.id <= task_id /\ r.id \in Nat
    BY DEF ContentInv, IdInv, CountersInv, StoreTypeOK, Content, RowSet
  <2> QED
    BY <1>1, <2>1 DEF Ids
<1>6. \A u \in Task : Live(u)' => id'[u] <= task_id' /\ id'[u] \notin Ids("task")
  <2>1. \A u \in Task : u # t /\ Live(u)' => Live(u) /\ id[u] <= task_id /\ id[u] \in Nat
    BY <1>2 DEF ContentInv, IdInv, Live, StoreTypeOK
  <2> QED
    BY <1>1, <1>2, <1>5, <2>1 DEF ContentInv, IdInv
<1>7. \A u, v \in Task : Live(u)' /\ Live(v)' /\ id'[u] = id'[v] => u = v
  <2>1. \A u \in Task : u # t /\ Live(u)' =>
          Live(u) /\ id'[u] = id[u] /\ id[u] <= task_id /\ id[u] \in Nat
    BY <1>2 DEF ContentInv, IdInv, Live, StoreTypeOK
  <2>2. \A u \in Task : u # t /\ Live(u)' => id'[u] # id'[t]
    BY <1>1, <1>2, <2>1
  <2> QED
    BY <2>1, <2>2 DEF ContentInv, IdInv
<1>8. \A u \in saved : state'[u] = "over"
  BY <1>1, <1>2 DEF ContentInv, IdInv, StoreTypeOK
<1>9. IdInv'
  BY <1>1, <1>3, <1>4, <1>6, <1>7, <1>8 DEF IdInv
<1>10. WholeInv'
  BY <1>1, <1>3 DEF ContentInv, WholeInv
<1>11. \A u \in Task : Owns(u)' => Owns(u) /\ u # t
  BY <1>1, <1>2 DEF Owns, Saving
<1>12. RowsInv'
  BY <1>1, <1>2, <1>11, OwnRowsKept DEF ContentInv, RowsInv, SameRows
<1> QED
  BY <1>9, <1>10, <1>12 DEF ContentInv

\* A task begins with what is committed.
LEMMA ContentBegin ==
    ASSUME StoreTypeOK, OwnerInv, ContentInv, NEW t \in Task, Begin(t)
    PROVE  ContentInv'
<1>1. /\ ~open /\ UNCHANGED <<disk, seen, idVars, state, id, node, saved>>
      /\ pos' = [pos EXCEPT ![t] = 0] /\ Saving(t)
  BY DEF Begin, BeginTransaction, idVars
<1>2. seen = disk /\ \A u \in Task : ~Owns(u)
  BY <1>1 DEF OwnerInv
<1>3. \A table : Ids(table)' = Ids(table)
  BY <1>1 DEF Ids
<1>4. pos'[t] = 0 /\ \A u \in Task : Owns(u)' => u = t
  BY <1>1, <1>2 DEF Owns, Saving, StoreTypeOK
<1>5. IdInv' /\ WholeInv'
  BY <1>1, <1>3 DEF ContentInv, IdInv, CountersInv, WholeInv, Live, idVars
<1>6. RowsInv'
  BY <1>1, <1>2, <1>4, RowsOf DEF RowsInv, OwnRows, Rows
<1> QED
  BY <1>5, <1>6 DEF ContentInv

\* The row it inserts is new, and belongs to the others.
LEMMA NewOwnRow ==
    ASSUME StoreTypeOK, ContentInv, NEW t \in Task, Owns(t), OwnRows(t),
           NEW row \in RowSet, Inserts(t, row), pos[t] \in Nat,
           disk' = disk, seen'.rows = seen.rows \cup {row},
           pos' = [pos EXCEPT ![t] = @ + 1], UNCHANGED id
    PROVE  OwnRows(t)'
<1>1. /\ row.task = t /\ row.nth = pos[t] /\ row.table = TableOf(pos[t])
      /\ row.table \in Table /\ pos'[t] = pos[t] + 1 /\ row \in seen'.rows
  BY DEF Inserts, RowSet, StoreTypeOK
<1>2. \A table : Ids(table)' = Ids(table)
  BY DEF Ids
<1>3. ASSUME NEW r \in disk.rows
      PROVE  /\ r.table = "task" => r.id # id[t]
             /\ r.table = "node" => r.id # node_id + 1
             /\ r.table = "thing" => r.id # thing_id + 1
  <2>1. r.id \in Nat /\ node_id \in Nat /\ thing_id \in Nat
    BY DEF StoreTypeOK, Content, RowSet
  <2>2. /\ r.table = "node" => r.id <= node_id
        /\ r.table = "thing" => r.id <= thing_id
    BY DEF ContentInv, IdInv, CountersInv
  <2>3. id[t] \notin Ids("task")
    BY DEF ContentInv, IdInv, Live, Owns, Saving
  <2> QED
    BY <2>1, <2>2, <2>3 DEF Ids
<1>4. /\ row.table = "task" => row.id = id[t] /\ row.of = 0
      /\ row.table = "node" => row.id = node_id + 1 /\ row.of = id[t]
                               /\ node' = [node EXCEPT ![t] = node_id + 1]
      /\ row.table = "thing" => row.id = thing_id + 1 /\ row.of = node[t]
  BY DEF Inserts
<1>5. row \notin disk.rows
  BY <1>1, <1>3, <1>4 DEF Table
<1>6. row.table = "node" => row.id \notin Ids("node")
  BY <1>3, <1>4 DEF Ids
<1>7. \A q, n : NewNode(t, q, n) => NewNode(t, q, n)'
  BY <1>2 DEF NewNode
<1>8. ASSUME NEW r, Mine(t, r), r \in RowSet PROVE Mine(t, r)'
  <2>1. r.nth < pos'[t]
    BY <1>1, <1>8 DEF Mine, RowSet
  <2> QED
    BY <1>2, <1>7, <1>8, <2>1 DEF Mine
<1>9. row.table = "thing" => \E q \in seen.rows : NewNode(t, q, pos[t] - 1) /\ q.id = node[t]
  <2>1. row.table = "thing" => pos[t] >= 1 /\ pos[t] % 2 = 0
    BY <1>1 DEF TableOf
  <2> QED
    BY <2>1 DEF OwnRows
<1>10. Mine(t, row)'
  <2>1. row.table = "thing" => \E q \in seen'.rows : NewNode(t, q, row.nth - 1)' /\ q.id = row.of
    BY <1>1, <1>4, <1>7, <1>9
  <2>2. row.nth < pos'[t] /\ row.table = TableOf(row.nth)
    BY <1>1
  <2> QED
    BY <1>1, <1>2, <1>4, <1>6, <2>1, <2>2 DEF Mine
<1>11. seen.rows \subseteq RowSet
  BY DEF StoreTypeOK, Content
<1>12. pos'[t] <= Rows(t)'
  BY <1>1, RowsOf DEF Inserts, Rows
<1>13. \A r \in seen'.rows : r \in disk'.rows \/ Mine(t, r)'
  BY <1>8, <1>10, <1>11 DEF OwnRows
<1>14. ASSUME NEW n \in 0..(pos'[t] - 1)
       PROVE  \E r \in seen'.rows : r \notin disk'.rows /\ Mine(t, r)' /\ r.nth = n
  <2>1. CASE n = pos[t]
    BY <1>1, <1>5, <1>10, <2>1
  <2>2. CASE n # pos[t]
    <3>1. n \in 0..(pos[t] - 1)
      BY <1>1, <2>2
    <3>2. PICK r \in seen.rows : r \notin disk.rows /\ Mine(t, r) /\ r.nth = n
      BY <3>1 DEF OwnRows
    <3> QED
      BY <1>8, <1>11, <3>2
  <2> QED
    BY <2>1, <2>2
<1>15. ASSUME pos'[t] >= 1, pos'[t] % 2 = 0
       PROVE  /\ row.table = "node" /\ row.id = node'[t] /\ row.nth = pos'[t] - 1
              /\ row.of = id'[t] /\ row.id \notin Ids("node")'
  <2>1. row.table = "node"
    BY <1>1, <1>15 DEF TableOf
  <2>2. node'[t] = node_id + 1
    BY <1>4, <2>1 DEF StoreTypeOK
  <2> QED
    BY <1>1, <1>2, <1>4, <1>6, <2>1, <2>2
<1>16. pos'[t] >= 1 /\ pos'[t] % 2 = 0 =>
         \E q \in seen'.rows : NewNode(t, q, pos[t] - 1)' /\ q.id = node'[t]
  BY <1>1, <1>15 DEF NewNode
<1> QED
  BY <1>12, <1>13, <1>14, <1>16 DEF OwnRows

\* A task inserts one more row of its own.
LEMMA ContentInsert ==
    ASSUME StoreTypeOK, OwnerInv, ContentInv, NEW t \in Task, InsertRow(t)
    PROVE  ContentInv'
<1>1. PICK row \in RowSet : Inserts(t, row)
  BY InsertIs
<1>2. /\ Owns(t) /\ open /\ pos[t] \in Nat /\ pos'[t] = pos[t] + 1
      /\ UNCHANGED <<state, id, saved, task_id>> /\ id[t] \in Nat /\ node[t] \in Nat
      /\ node_id \in Nat /\ thing_id \in Nat
  BY <1>1, RowsOf DEF Inserts, Owns, OwnerInv, InsertRow, StoreTypeOK
<1>3. disk' = disk /\ seen'.rows = seen.rows \cup {row}
  BY <1>1, <1>2, ExecRow DEF Inserts
<1>4. \A table : Ids(table)' = Ids(table)
  BY <1>3 DEF Ids
<1>5. /\ row.task = t /\ row.nth = pos[t] /\ row.table = TableOf(pos[t])
      /\ row.table \in Table
  BY <1>1 DEF Inserts, RowSet
<1>6. /\ node_id' \in Nat /\ node_id <= node_id' /\ thing_id' \in Nat /\ thing_id <= thing_id'
      /\ row.table = "node" => row.id = node_id + 1 /\ row.id <= node_id'
      /\ row.table = "thing" => row.id <= thing_id'
      /\ row.table = "task" => row.id = id[t]
  BY <1>1, <1>2, <1>5 DEF Inserts, Table
<1>7. id[t] <= task_id /\ id[t] \notin Ids("task")
  BY <1>2 DEF ContentInv, IdInv, Owns, Saving, Live
<1>8. CountersInv'
  <2>1. disk'.rows \subseteq seen'.rows
    BY <1>3 DEF ContentInv, IdInv, CountersInv
  <2>2. ASSUME NEW r \in seen.rows
        PROVE  \/ r.table = "task" /\ r.id <= task_id'
               \/ r.table = "node" /\ r.id <= node_id'
               \/ r.table = "thing" /\ r.id <= thing_id'
    <3>1. r.id \in Nat
      BY DEF StoreTypeOK, Content, RowSet
    <3> QED
      BY <1>2, <1>6, <3>1 DEF ContentInv, IdInv, CountersInv
  <2>3. \/ row.table = "task" /\ row.id <= task_id'
        \/ row.table = "node" /\ row.id <= node_id'
        \/ row.table = "thing" /\ row.id <= thing_id'
    BY <1>2, <1>5, <1>6, <1>7 DEF Table
  <2> QED
    BY <1>3, <2>1, <2>2, <2>3 DEF CountersInv
<1>9. IdInv'
  BY <1>2, <1>4, <1>8 DEF ContentInv, IdInv, Live
<1>10. WholeInv'
  BY <1>3, <1>4 DEF ContentInv, WholeInv
<1>11. \A u \in Task : Owns(u)' => u = t
  <2>1. \A u \in Task : u # t => pos'[u] = pos[u]
    BY DEF InsertRow, StoreTypeOK
  <2> QED
    BY <1>2, <2>1 DEF OwnerInv, Owns, Saving
<1>12. OwnRows(t)'
  BY <1>1, <1>2, <1>3, NewOwnRow DEF InsertRow, ContentInv, RowsInv
<1>13. RowsInv'
  BY <1>11, <1>12 DEF RowsInv
<1> QED
  BY <1>9, <1>10, <1>13 DEF ContentInv

\* What a task has inserted when it commits.
LEMMA AllInserted ==
    ASSUME NEW t \in Task, OwnRows(t), pos[t] = Rows(t)
    PROVE  \A n \in 0..(2 * Nodes[t]) : \E r \in seen.rows :
             r \notin disk.rows /\ Mine(t, r) /\ r.nth = n
<1>1. Rows(t) - 1 = 2 * Nodes[t]
  BY RowsOf DEF Rows
<1> QED
  BY <1>1 DEF OwnRows

LEMMA ContentCommit ==
    ASSUME StoreTypeOK, OwnerInv, ContentInv, NEW t \in Task, CommitTask(t)
    PROVE  ContentInv'
<1>1. /\ Saving(t) /\ pos[t] = Rows(t) /\ seen' = seen /\ disk' = seen
      /\ UNCHANGED <<task_id, node_id, thing_id, id, pos, node>>
      /\ state' = [state EXCEPT ![t] = "over"] /\ saved' = saved \cup {t}
  BY DEF CommitTask, Commit, GoesTo, idVars
<1>2. Owns(t) /\ OwnRows(t)
  BY <1>1, RowsOf DEF Owns, ContentInv, RowsInv
<1>3. state'[t] = "over" /\ \A u \in Task : u # t => state'[u] = state[u]
  BY <1>1 DEF StoreTypeOK
<1>4. \A r \in seen.rows : r \in disk.rows \/ Mine(t, r)
  BY <1>2 DEF OwnRows
<1>5. \A table : Ids(table) \subseteq Ids(table)'
  BY <1>1 DEF ContentInv, IdInv, CountersInv, Ids
<1>6. ASSUME NEW u \in Task, Live(u)' PROVE id'[u] <= task_id' /\ id'[u] \notin Ids("task")'
  <2>1. u # t /\ Live(u) /\ Live(t) /\ id'[u] = id[u] /\ id[u] # id[t]
    BY <1>1, <1>2, <1>3, <1>6 DEF Live, ContentInv, IdInv, Owns, Saving
  <2>2. id[u] <= task_id /\ id[u] \notin Ids("task")
    BY <2>1 DEF ContentInv, IdInv
  <2>3. ASSUME NEW r \in seen.rows, r.table = "task" PROVE r.id # id[u]
    <3>1. CASE r \in disk.rows
      BY <2>2, <2>3, <3>1 DEF Ids
    <3>2. CASE Mine(t, r)
      BY <2>1, <2>3, <3>2 DEF Mine
    <3> QED
      BY <1>4, <3>1, <3>2
  <2> QED
    BY <1>1, <2>1, <2>2, <2>3 DEF Ids
<1>7. \A u, v \in Task : Live(u)' /\ Live(v)' /\ id'[u] = id'[v] => u = v
  BY <1>1, <1>3 DEF Live, ContentInv, IdInv
<1>8. \A u \in saved' : state'[u] = "over"
  BY <1>1, <1>3 DEF ContentInv, IdInv, StoreTypeOK
<1>9. CountersInv'
  BY <1>1 DEF ContentInv, IdInv, CountersInv
<1>10. IdInv'
  BY <1>6, <1>7, <1>8, <1>9 DEF IdInv
<1>11. id[t] \in Ids("task")'
  <2>1. PICK r \in seen.rows : Mine(t, r) /\ r.nth = 0
    BY <1>1, <1>2, AllInserted, RowsOf
  <2> QED
    BY <1>1, <2>1 DEF Mine, TableOf, Ids
<1>12. ASSUME NEW r \in seen.rows
       PROVE  /\ r.table = "task" => r.of = 0
              /\ r.table = "node" => r.of \in Ids("task")'
              /\ r.table = "thing" => r.of \in Ids("node")'
  <2>1. CASE r \in disk.rows
    BY <1>5, <2>1 DEF ContentInv, WholeInv
  <2>2. CASE Mine(t, r)
    <3>1. r.table = "thing" => \E q \in seen.rows : q.table = "node" /\ q.id = r.of
      BY <2>2 DEF Mine, NewNode
    <3>2. r.table = "thing" => r.of \in Ids("node")'
      BY <1>1, <3>1 DEF Ids
    <3> QED
      BY <1>11, <2>2, <3>2 DEF Mine
  <2> QED
    BY <1>4, <2>1, <2>2
<1>13. WholeInv'
  BY <1>1, <1>12 DEF WholeInv
<1>14. \A u \in Task : ~Owns(u)'
  BY <1>1, <1>2, <1>3 DEF OwnerInv, Owns, Saving
<1> QED
  BY <1>10, <1>13, <1>14 DEF ContentInv, RowsInv

\* After a crash there is what is committed, and nobody goes on.
LEMMA ContentCrash ==
    ASSUME StoreTypeOK, OwnerInv, ContentInv, Crash
    PROVE  ContentInv'
<1>1. /\ disk' = disk /\ seen' = disk /\ UNCHANGED <<id, pos, node, saved>>
      /\ \A u \in Task : state'[u] = IF state[u] = "new" THEN "new" ELSE "over"
      /\ ReadIds
  BY DEF Crash
<1>2. \A table : Ids(table)' = Ids(table)
  BY <1>1 DEF Ids
<1>3. CountersInv
  BY DEF ContentInv, IdInv
<1>4. /\ \A i \in Ids("task") : i <= task_id'
      /\ \A i \in Ids("node") : i <= node_id'
      /\ Ids("node") # {} => \A i \in Ids("thing") : i <= thing_id'
  BY <1>1, <1>3, CountersRead
<1>5. ASSUME NEW r \in disk.rows
      PROVE  \/ r.table = "task" /\ r.id <= task_id'
             \/ r.table = "node" /\ r.id <= node_id'
             \/ r.table = "thing" /\ r.id <= thing_id'
  <2>1. r.table \in Table
    BY DEF StoreTypeOK, Content, RowSet
  <2>2. r.table = "thing" => Ids("node") # {}
    BY DEF ContentInv, WholeInv
  <2>3. r.id \in Ids(r.table)
    BY DEF Ids
  <2> QED
    BY <1>4, <2>1, <2>2, <2>3 DEF Table
<1>6. CountersInv'
  BY <1>1, <1>5 DEF CountersInv
<1>7. \A u \in Task : ~Live(u)' /\ ~Owns(u)'
  BY <1>1 DEF Live, Owns, Saving
<1>8. \A u \in saved' : state'[u] = "over"
  BY <1>1 DEF ContentInv, IdInv, StoreTypeOK
<1> QED
  BY <1>1, <1>2, <1>6, <1>7, <1>8 DEF ContentInv, IdInv, WholeInv, RowsInv

LEMMA ContentNext ==
    ASSUME StoreTypeOK, OwnerInv, ContentInv, [Next]_vars
    PROVE  ContentInv'
<1> USE DEF dbVars, idVars, taskVars, mapVars
<1>0. saved \subseteq Task
  BY DEF StoreTypeOK
<1>1. ASSUME NEW t \in Task, Execute(t) \/ HandBack(t) \/ Finish(t) \/ Cancel(t) \/ BeginFails(t)
      PROVE  ContentInv'
  <2>1. pos[t] = -1 /\ UNCHANGED <<pos, disk, seen, open, setter>> /\ Live(t)
        /\ UNCHANGED <<task_id, node_id, thing_id, id, node, saved>>
    BY <1>1 DEF Execute, HandBack, Finish, Cancel, BeginFails, OwnerInv, Live, Saving
  <2>2. PICK s \in States : GoesTo(t, s)
    BY <1>1 DEF Execute, HandBack, Finish, Cancel, BeginFails, States
  <2>3. \A u \in Task : Owns(u)' => Owns(u)
    BY <2>1, <2>2, OwnerTask
  <2>4. \A u \in Task : u # t => state'[u] = state[u]
    BY <2>2 DEF GoesTo, StoreTypeOK
  <2>5. \A u \in Task : Live(u)' => Live(u)
    BY <2>1, <2>4 DEF Live
  <2>6. \A u \in Task : state[u] = "over" => state'[u] = "over"
    BY <2>1, <2>4 DEF Live
  <2> QED
    BY <1>0, <2>1, <2>3, <2>5, <2>6, ContentKept DEF SameRows
<1>2. ASSUME SameRows, UNCHANGED <<state, task_id, node_id, thing_id, id, pos, node, saved>>
      PROVE  ContentInv'
  <2>1. \A u \in Task : (Owns(u)' <=> Owns(u)) /\ (Live(u)' <=> Live(u))
    BY <1>2 DEF Owns, Saving, Live
  <2> QED
    BY <1>0, <1>2, <2>1, ContentKept
<1>3. ASSUME NEW m \in Map, SetMap(m) PROVE ContentInv'
  BY <1>2, <1>3 DEF SetMap, SameRows
<1>4. ASSUME DeleteTable PROVE ContentInv'
  <2>1. PICK at \in 1..7 : Exec([seen EXCEPT !.map[Deleted[at]] = NoMap])
    BY <1>4, Sizes DEF DeleteTable
  <2>2. SameRows
    BY <2>1, ExecMap, Sizes
  <2> QED
    BY <1>2, <1>4, <2>2 DEF DeleteTable
<1>5. ASSUME BeginMap PROVE ContentInv'
  BY <1>2, <1>5 DEF BeginMap, BeginTransaction, SameRows
<1>6. ASSUME InsertTable PROVE ContentInv'
  <2>1. PICK n \in 1..4 :
          Setting(8 + n) /\ Exec([seen EXCEPT !.map[Inserted[n]] = setter.map])
    BY <1>6, Sizes DEF InsertTable
  <2>2. setter.map \in Map
    BY <2>1, SettingIs
  <2>3. SameRows
    BY <2>1, <2>2, ExecMap, Sizes
  <2> QED
    BY <1>2, <1>6, <2>3 DEF InsertTable
<1>7. ASSUME CommitMap PROVE ContentInv'
  <2>1. Setting(13) /\ seen' = seen /\ disk' = seen
    BY <1>7, Sizes DEF CommitMap, Commit
  <2>2. SetterOwns
    BY <2>1, SettingIs
  <2>3. seen.rows = disk.rows
    BY <2>2 DEF OwnerInv
  <2> QED
    BY <1>2, <1>7, <2>1, <2>3 DEF CommitMap, SameRows
<1>8. ASSUME SaveFails PROVE ContentInv'
  BY <1>2, <1>8 DEF SaveFails, SameRows
<1>9. CASE UNCHANGED vars
  BY <1>2, <1>9 DEF vars, SameRows
<1> QED
  BY <1>1, <1>3, <1>4, <1>5, <1>6, <1>7, <1>8, <1>9, ContentAdd, ContentBegin,
     ContentInsert, ContentCommit, ContentCrash DEF Next

-----------------------------------------------------------------------------
(* The map in the database and the one in use *)

LEMMA MapKept ==
    ASSUME MapInv, UNCHANGED <<memory, told, setter>>, seen'.map = seen.map,
           disk'.map \in {disk.map, seen.map}
    PROVE  MapInv'
BY DEF MapInv, SetterOwns

\* Nothing is told while a map is being set.
LEMMA Untold == ASSUME MapInv, setter # NoSetter PROVE told \notin Map
BY DEF MapInv

\* With all its tables in the database there is the whole map.
LEMMA WholeMap ==
    ASSUME StoreTypeOK, MapInv, Setting(13)
    PROVE  seen.map = All(setter.map) /\ memory = All(setter.map) /\ setter.map \in Map
<1>1. SetterOwns /\ setter # NoSetter /\ setter.at = 13 /\ setter.map \in Map
  BY SettingIs
<1>2. \A n \in 1..4 : seen.map[Inserted[n]] = setter.map
  BY <1>1, Sizes DEF MapInv
<1>3. \A x \in MapTable : \E n \in 1..4 : x = Inserted[n]
  <2>1. Inserted[1] = "station" /\ Inserted[2] = "line" /\ Inserted[3] = "floor"
        /\ Inserted[4] = "group"
    BY DEF Inserted
  <2> QED
    BY <2>1 DEF MapTable
<1>4. \A x \in MapTable : seen.map[x] = setter.map
  BY <1>2, <1>3
<1>5. seen.map \in [MapTable -> Map \cup {NoMap}]
  BY DEF StoreTypeOK, Content
<1>6. seen.map = All(setter.map)
  BY <1>4, <1>5 DEF All
<1>7. memory = All(setter.map)
  BY <1>1, Sizes DEF MapInv
<1> QED
  BY <1>1, <1>6, <1>7

LEMMA MapNext ==
    ASSUME StoreTypeOK, OwnerInv, MapInv, [Next]_vars
    PROVE  MapInv'
<1> USE DEF dbVars, idVars, taskVars, mapVars
<1>1. ASSUME NEW t \in Task,
             \/ Add(t) \/ Execute(t) \/ HandBack(t) \/ Finish(t) \/ Cancel(t)
             \/ BeginFails(t) \/ Begin(t) \/ CommitTask(t)
      PROVE  MapInv'
  <2>1. seen' = seen /\ disk' \in {disk, seen} /\ UNCHANGED <<memory, told, setter>>
    BY <1>1 DEF Add, Execute, HandBack, Finish, Cancel, BeginFails, Begin,
                BeginTransaction, CommitTask, Commit
  <2> QED
    BY <2>1, MapKept
<1>2. ASSUME NEW t \in Task, InsertRow(t) PROVE MapInv'
  <2>1. PICK row \in RowSet : Inserts(t, row)
    BY <1>2, InsertIs
  <2>2. open
    BY <1>2, <2>1, RowsOf DEF Inserts, Owns, OwnerInv, InsertRow
  <2>3. disk' = disk /\ seen'.map = seen.map
    BY <2>1, <2>2, ExecRow DEF Inserts
  <2> QED
    BY <1>2, <2>3, MapKept DEF InsertRow
<1>3. ASSUME NEW m \in Map, SetMap(m) PROVE MapInv'
  <2>1. told' \notin Map /\ setter'.at = 1
    BY <1>3, StoreAssumption DEF SetMap
  <2> QED
    BY <2>1, Sizes DEF MapInv, SetterOwns
<1>4. ASSUME DeleteTable PROVE MapInv'
  <2>1. PICK at \in 1..7 :
          /\ Setting(at) /\ OnTo(at + 1)
          /\ memory' = IF at = 3 THEN All(setter.map) ELSE memory
    BY <1>4, Sizes DEF DeleteTable
  <2>2. at \in 1..12 /\ at \in 1..13 /\ ~(at + 1 > 8)
    OBVIOUS
  <2>3. setter # NoSetter /\ setter.at = at
    BY <2>1, <2>2, SettingIs
  <2>4. setter'.at = at + 1 /\ setter'.map = setter.map /\ ~SetterOwns'
    BY <2>1, <2>2, OnToIs
  <2>5. told' \notin Map
    BY <1>4, <2>3, Untold DEF DeleteTable
  <2>6. at + 1 > 3 => memory' = All(setter'.map)
    BY <2>1, <2>3, <2>4, Sizes DEF MapInv
  <2> QED
    BY <2>4, <2>5, <2>6, Sizes DEF MapInv
<1>5. ASSUME BeginMap PROVE MapInv'
  <2>1. Setting(8) /\ OnTo(9) /\ UNCHANGED <<seen, disk, memory, told>>
    BY <1>5, Sizes DEF BeginMap, BeginTransaction
  <2>2. setter # NoSetter /\ setter.at = 8
    BY <2>1, SettingIs
  <2>3. setter'.at = 9 /\ setter'.map = setter.map
    BY <2>1, OnToIs
  <2>4. told' \notin Map
    BY <2>1, <2>2, Untold
  <2>5. memory' = All(setter'.map)
    BY <2>1, <2>2, <2>3, Sizes DEF MapInv
  <2>6. \A n \in 1..4 : ~(setter'.at > 8 + n)
    BY <2>3
  <2> QED
    BY <2>4, <2>5, <2>6, Sizes DEF MapInv
<1>6. ASSUME InsertTable PROVE MapInv'
  <2>1. PICK n \in 1..4 :
          /\ Setting(8 + n) /\ OnTo(8 + n + 1)
          /\ Exec([seen EXCEPT !.map[Inserted[n]] = setter.map])
    BY <1>6, Sizes DEF InsertTable
  <2>2. 8 + n \in 1..12 /\ 8 + n \in 1..13 /\ Inserted[n] \in MapTable
    BY Sizes
  <2>3. setter # NoSetter /\ setter.at = 8 + n /\ setter.map \in Map /\ SetterOwns
    BY <2>1, <2>2, SettingIs
  <2>4. setter'.at = 8 + n + 1 /\ setter'.map = setter.map
    BY <2>1, <2>2, OnToIs
  <2>5. seen'.map = [seen.map EXCEPT ![Inserted[n]] = setter.map]
        /\ seen.map \in [MapTable -> Map \cup {NoMap}]
    BY <2>1, <2>2, <2>3, ExecMap DEF StoreTypeOK, Content
  <2>6. told' \notin Map
    BY <1>6, <2>3, Untold DEF InsertTable
  <2>7. memory' = All(setter'.map)
    BY <1>6, <2>3, <2>4, Sizes DEF MapInv, InsertTable
  <2>8. ASSUME NEW k \in 1..4, setter'.at > 8 + k
        PROVE  seen'.map[Inserted[k]] = setter'.map
    <3>1. CASE k = n
      BY <2>2, <2>4, <2>5, <3>1
    <3>2. CASE k # n
      <4>1. setter.at > 8 + k /\ Inserted[k] \in MapTable
        BY <2>3, <2>4, <2>8, <3>2, Sizes
      <4>2. seen.map[Inserted[k]] = setter.map
        BY <2>3, <4>1, Sizes DEF MapInv
      <4> QED
        BY <2>4, <2>5, <4>1, <4>2
    <3> QED
      BY <3>1, <3>2
  <2> QED
    BY <2>6, <2>7, <2>8, Sizes DEF MapInv
<1>7. ASSUME CommitMap PROVE MapInv'
  <2>1. /\ Setting(13) /\ seen' = seen /\ disk' = seen /\ told' = setter.map
        /\ setter' = NoSetter /\ memory' = memory
    BY <1>7, Sizes DEF CommitMap, Commit
  <2>2. seen.map = All(setter.map) /\ memory = All(setter.map)
    BY <2>1, WholeMap
  <2> QED
    BY <2>1, <2>2 DEF MapInv, SetterOwns
<1>8. ASSUME SaveFails PROVE MapInv'
  <2>1. setter # NoSetter
    BY <1>8, Sizes, SettingIs DEF SaveFails, Refused
  <2> QED
    BY <1>8, <2>1, Untold DEF SaveFails, MapInv, SetterOwns
<1>9. ASSUME Crash PROVE MapInv'
  BY <1>9 DEF Crash, MapInv, SetterOwns
<1>10. CASE UNCHANGED vars
  BY <1>10, MapKept DEF vars
<1> QED
  BY <1>1, <1>2, <1>3, <1>4, <1>5, <1>6, <1>7, <1>8, <1>9, <1>10 DEF Next

-----------------------------------------------------------------------------
(* The invariant *)

LEMMA InvInit == Init => StoreInv
<1> SUFFICES ASSUME Init PROVE StoreInv
  OBVIOUS
<1>1. StoreTypeOK
  BY TypesInit
<1>2. /\ disk.rows = {} /\ seen = disk /\ open = FALSE /\ saved = {}
      /\ \A t \in Task : state[t] = "new" /\ pos[t] = -1
      /\ setter = NoSetter /\ told = NoMap
  BY DEF Init
<1>3. \A t \in Task : ~Owns(t) /\ ~Live(t)
  BY <1>2 DEF Owns, Saving, Live
<1>4. OwnerInv
  BY <1>2, <1>3 DEF OwnerInv, SetterOwns
<1>5. IdInv /\ WholeInv /\ RowsInv
  BY <1>2, <1>3 DEF IdInv, CountersInv, WholeInv, RowsInv
<1>6. MapInv
  BY <1>2, StoreAssumption DEF MapInv, SetterOwns
<1> QED
  BY <1>1, <1>4, <1>5, <1>6 DEF StoreInv

LEMMA InvNext == StoreInv /\ [Next]_vars => StoreInv'
<1> SUFFICES ASSUME StoreInv, [Next]_vars PROVE StoreInv'
  OBVIOUS
<1>1. StoreTypeOK /\ OwnerInv /\ ContentInv /\ MapInv /\ CountersInv
  BY DEF StoreInv, ContentInv, IdInv
<1>2. StoreTypeOK' /\ OwnerInv' /\ ContentInv' /\ MapInv'
  BY <1>1, TypesNext, OwnerNext, ContentNext, MapNext
<1> QED
  BY <1>2 DEF StoreInv, ContentInv

-----------------------------------------------------------------------------
(* Store implements Archive *)

Hist == [i \in Ids("task") |-> ReadBack(i)]

LEMMA SameHist == ASSUME disk'.rows = disk.rows PROVE Hist' = Hist
<1>1. Ids("task")' = Ids("task")
  BY DEF Ids
<1>2. \A i : ReadBack(i)' = ReadBack(i)
  BY DEF ReadBack, Named
<1> QED
  BY <1>1, <1>2 DEF Hist

\* The rows of t with odd numbers are its nodes, those with even ones its things.
LEMMA OddNumbers ==
    ASSUME NEW k \in Nat, NEW N \in Nat
    PROVE  /\ k \in 1..(2 * N) /\ k % 2 = 1 => \E n \in 1..N : k = 2 * n - 1
           /\ k \in 1..(2 * N) /\ k % 2 = 0 => \E n \in 1..N : k = 2 * n
           /\ \A n \in 1..N : /\ 2 * n - 1 \in 1..(2 * N) /\ (2 * n - 1) % 2 = 1
                              /\ 2 * n \in 1..(2 * N) /\ (2 * n) % 2 = 0
<1>1. ASSUME k \in 1..(2 * N), k % 2 = 1 PROVE \E n \in 1..N : k = 2 * n - 1
  <2>1. (k + 1) \div 2 \in 1..N /\ k = 2 * ((k + 1) \div 2) - 1
    BY <1>1
  <2> QED
    BY <2>1
<1>2. ASSUME k \in 1..(2 * N), k % 2 = 0 PROVE \E n \in 1..N : k = 2 * n
  <2>1. k \div 2 \in 1..N /\ k = 2 * (k \div 2)
    BY <1>2
  <2> QED
    BY <2>1
<1>3. ASSUME NEW n \in 1..N
      PROVE  /\ 2 * n - 1 \in 1..(2 * N) /\ (2 * n - 1) % 2 = 1
             /\ 2 * n \in 1..(2 * N) /\ (2 * n) % 2 = 0
  OBVIOUS
<1> QED
  BY <1>1, <1>2, <1>3

LEMMA InitPromise == Init => Contract!Init
BY StoreAssumption DEF Init, Contract!Init, Ids

-----------------------------------------------------------------------------
(* What is read back, of the rows that a commit leaves *)

Picked(rows, table, of) == {r \in rows : r.table = table /\ r.of \in of}
TasksIn(rows, i) == {r.task : r \in {q \in Picked(rows, "task", {0}) : q.id = i}}
Places(rs) == {<<r.task, r.nth>> : r \in rs}
NodesIn(rows, i) == Picked(rows, "node", {i})
ThingsIn(rows, i) == Picked(rows, "thing", {r.id : r \in NodesIn(rows, i)})
ReadFrom(rows, i) == [tasks  |-> TasksIn(rows, i),
                      nodes  |-> Places(NodesIn(rows, i)),
                      things |-> Places(ThingsIn(rows, i))]

LEMMA ReadIs ==
    ASSUME NEW i
    PROVE  ReadBack(i) = ReadFrom(disk.rows, i) /\ ReadBack(i)' = ReadFrom(disk'.rows, i)
<1>1. ReadBack(i) = ReadFrom(disk.rows, i)
  BY DEF ReadBack, ReadFrom, Named, Picked, TasksIn, NodesIn, ThingsIn, Places
<1>2. ReadBack(i)' = ReadFrom(disk'.rows, i)
  BY DEF ReadBack, ReadFrom, Named, Picked, TasksIn, NodesIn, ThingsIn, Places
<1> QED
  BY <1>1, <1>2

\* Its own rows, when all are there, and the others: what separates them.
LEMMA Apart ==
    ASSUME StoreTypeOK, ContentInv, NEW t \in Task, Saving(t), pos[t] = Rows(t)
    PROVE  /\ OwnRows(t) /\ id[t] \notin Ids("task") /\ t \notin saved
           /\ disk.rows \subseteq seen.rows
           /\ \A r \in seen.rows : r \in disk.rows \/ Mine(t, r)
           /\ \A r \in disk.rows : /\ r.table = "task" => r.id \in Ids("task") /\ r.of = 0
                                   /\ r.table = "node" => r.id \in Ids("node")
                                                          /\ r.of \in Ids("task")
                                   /\ r.table = "thing" => r.of \in Ids("node")
<1>1. Owns(t)
  BY RowsOf DEF Owns
<1>2. OwnRows(t)
  BY <1>1 DEF ContentInv, RowsInv
<1>3. id[t] \notin Ids("task") /\ t \notin saved
  BY DEF ContentInv, IdInv, Live, Saving
<1>4. disk.rows \subseteq seen.rows
  BY DEF ContentInv, IdInv, CountersInv
<1>5. \A r \in disk.rows : r.table = "task" \/ r.table = "node" => r.id \in Ids(r.table)
  BY DEF Ids
<1> QED
  BY <1>2, <1>3, <1>4, <1>5 DEF OwnRows, ContentInv, WholeInv

LEMMA IdsCommitted ==
    ASSUME StoreTypeOK, ContentInv, NEW t \in Task, Saving(t), pos[t] = Rows(t),
           disk' = seen
    PROVE  Ids("task")' = Ids("task") \cup {id[t]}
<1>1. Ids("task")' = {r.id : r \in {q \in seen.rows : q.table = "task"}}
  BY DEF Ids
<1>2. \A r \in seen.rows : r.table = "task" => r.id \in Ids("task") \cup {id[t]}
  BY Apart DEF Mine
<1>3. PICK r \in seen.rows : Mine(t, r) /\ r.nth = 0
  <2>1. 0 \in 0..(pos[t] - 1)
    BY RowsOf
  <2> QED
    BY <2>1, Apart DEF OwnRows
<1>4. r.table = "task" /\ r.id = id[t]
  BY <1>3 DEF Mine, TableOf
<1>5. \A q \in disk.rows : q \in seen.rows
  BY Apart
<1>6. Ids("task") = {q.id : q \in {p \in disk.rows : p.table = "task"}}
  BY DEF Ids
<1> QED
  BY <1>1, <1>2, <1>4, <1>5, <1>6

LEMMA OthersRead ==
    ASSUME StoreTypeOK, ContentInv, NEW t \in Task, Saving(t), pos[t] = Rows(t),
           NEW i \in Ids("task")
    PROVE  ReadFrom(seen.rows, i) = ReadFrom(disk.rows, i)
<1>1. i # id[t]
  BY Apart
<1>2. TasksIn(seen.rows, i) = TasksIn(disk.rows, i)
  <2>1. {q \in Picked(seen.rows, "task", {0}) : q.id = i}
          = {q \in Picked(disk.rows, "task", {0}) : q.id = i}
    BY <1>1, Apart DEF Mine, Picked
  <2> QED
    BY <2>1 DEF TasksIn
<1>3. NodesIn(seen.rows, i) = NodesIn(disk.rows, i)
  BY <1>1, Apart DEF Mine, Picked, NodesIn
<1>4. \A r \in NodesIn(disk.rows, i) : r.id \in Ids("node")
  BY Apart DEF NodesIn, Picked
<1>5. ASSUME NEW r \in seen.rows, r.table = "thing", Mine(t, r)
      PROVE  r.of \notin {q.id : q \in NodesIn(disk.rows, i)}
  <2>1. r.of \notin Ids("node")
    BY <1>5 DEF Mine, NewNode
  <2> QED
    BY <2>1, <1>4
<1>6. ThingsIn(seen.rows, i) = ThingsIn(disk.rows, i)
  <2> DEFINE of == {q.id : q \in NodesIn(disk.rows, i)}
  <2> HIDE DEF of
  <2>1. \A r \in seen.rows : r.table = "thing" /\ Mine(t, r) => r.of \notin of
    BY <1>5 DEF of
  <2>2. Picked(seen.rows, "thing", of) = Picked(disk.rows, "thing", of)
    BY <2>1, Apart DEF Picked
  <2> QED
    BY <1>3, <2>2 DEF ThingsIn, of
<1> QED
  BY <1>2, <1>3, <1>6 DEF ReadFrom

LEMMA OwnRead ==
    ASSUME StoreTypeOK, ContentInv, NEW t \in Task, Saving(t), pos[t] = Rows(t)
    PROVE  ReadFrom(seen.rows, id[t]) = WholeTask(t)
<1> DEFINE own == {r \in seen.rows : Mine(t, r)}
<1>1. Nodes[t] \in Nat /\ pos[t] = 1 + 2 * Nodes[t]
  BY RowsOf DEF Rows
<1>2. ASSUME NEW n \in 0..(2 * Nodes[t]) PROVE \E r \in own : r.nth = n
  <2>1. n \in 0..(pos[t] - 1)
    BY <1>1
  <2> QED
    BY <2>1, Apart DEF OwnRows
<1>3. ASSUME NEW r \in own
      PROVE  /\ r.task = t /\ r.nth \in 0..(2 * Nodes[t]) /\ r.table = TableOf(r.nth)
             /\ r.table = "task" => r.id = id[t] /\ r.of = 0
             /\ r.table = "node" => r.of = id[t]
             /\ r.table = "thing" => \E q \in seen.rows : NewNode(t, q, r.nth - 1) /\ q.id = r.of
  <2>1. r.nth \in Nat
    BY DEF StoreTypeOK, Content, RowSet
  <2> QED
    BY <2>1, <1>1 DEF Mine
<1>4. TasksIn(seen.rows, id[t]) = {t}
  <2> DEFINE rs == {q \in Picked(seen.rows, "task", {0}) : q.id = id[t]}
  <2>1. \A r \in rs : r \in own
    BY Apart DEF Picked
  <2>2. PICK r \in own : r.nth = 0
    BY <1>1, <1>2
  <2>3. r \in rs
    BY <2>2, <1>3 DEF TableOf, Picked
  <2>4. \A q \in rs : q.task = t
    BY <2>1, <1>3
  <2> QED
    BY <2>3, <2>4 DEF TasksIn
<1>5. NodesIn(seen.rows, id[t]) = {r \in own : r.table = "node"}
  BY Apart, <1>3 DEF NodesIn, Picked
<1>6. ThingsIn(seen.rows, id[t]) = {r \in own : r.table = "thing"}
  <2> DEFINE of == {q.id : q \in NodesIn(seen.rows, id[t])}
  <2>1. \A q \in NodesIn(seen.rows, id[t]) : q.id \notin Ids("node")
    BY <1>5 DEF Mine
  <2>2. \A r \in disk.rows : r.table = "thing" => r.of \notin of
    BY <2>1, Apart
  <2>3. ASSUME NEW r \in own, r.table = "thing" PROVE r.of \in of
    <3>1. PICK q \in seen.rows : NewNode(t, q, r.nth - 1) /\ q.id = r.of
      BY <1>3, <2>3
    <3>2. q \in NodesIn(seen.rows, id[t])
      BY <3>1 DEF NewNode, NodesIn, Picked
    <3> QED
      BY <3>1, <3>2
  <2>4. ThingsIn(seen.rows, id[t]) = Picked(seen.rows, "thing", of)
    BY DEF ThingsIn
  <2> HIDE DEF of
  <2>5. \A r \in seen.rows : r \notin disk.rows => r \in own
    BY Apart
  <2> QED
    BY <2>2, <2>3, <2>4, <2>5 DEF Picked
<1>7. Places({r \in own : r.table = "node"}) = {<<t, 2 * n - 1>> : n \in 1..Nodes[t]}
  <2>1. ASSUME NEW r \in own, r.table = "node"
        PROVE  \E n \in 1..Nodes[t] : <<r.task, r.nth>> = <<t, 2 * n - 1>>
    <3>1. r.nth % 2 = 1 /\ r.nth \in 1..(2 * Nodes[t]) /\ r.nth \in Nat /\ r.task = t
      BY <1>1, <1>3, <2>1 DEF TableOf
    <3>2. \E n \in 1..Nodes[t] : r.nth = 2 * n - 1
      BY <3>1, <1>1, OddNumbers
    <3> QED
      BY <3>1, <3>2
  <2>2. ASSUME NEW n \in 1..Nodes[t]
        PROVE  \E r \in own : r.table = "node" /\ <<r.task, r.nth>> = <<t, 2 * n - 1>>
    <3>1. 2 * n - 1 \in 1..(2 * Nodes[t]) /\ (2 * n - 1) % 2 = 1
      BY <1>1, OddNumbers
    <3>2. PICK r \in own : r.nth = 2 * n - 1
      BY <1>1, <1>2, <3>1
    <3>3. r.table = "node"
      BY <1>1, <1>3, <3>1, <3>2 DEF TableOf
    <3> QED
      BY <1>3, <3>2, <3>3
  <2> HIDE DEF own
  <2> QED
    BY <2>1, <2>2 DEF Places
<1>8. Places({r \in own : r.table = "thing"}) = {<<t, 2 * n>> : n \in 1..Nodes[t]}
  <2>1. ASSUME NEW r \in own, r.table = "thing"
        PROVE  \E n \in 1..Nodes[t] : <<r.task, r.nth>> = <<t, 2 * n>>
    <3>1. r.nth % 2 = 0 /\ r.nth \in 1..(2 * Nodes[t]) /\ r.nth \in Nat /\ r.task = t
      BY <1>1, <1>3, <2>1 DEF TableOf
    <3>2. \E n \in 1..Nodes[t] : r.nth = 2 * n
      BY <3>1, <1>1, OddNumbers
    <3> QED
      BY <3>1, <3>2
  <2>2. ASSUME NEW n \in 1..Nodes[t]
        PROVE  \E r \in own : r.table = "thing" /\ <<r.task, r.nth>> = <<t, 2 * n>>
    <3>1. 2 * n \in 1..(2 * Nodes[t]) /\ (2 * n) % 2 = 0
      BY <1>1, OddNumbers
    <3>2. PICK r \in own : r.nth = 2 * n
      BY <1>1, <1>2, <3>1
    <3>3. r.table = "thing"
      BY <1>1, <1>3, <3>1, <3>2 DEF TableOf
    <3> QED
      BY <1>3, <3>2, <3>3
  <2> HIDE DEF own
  <2> QED
    BY <2>1, <2>2 DEF Places
<1> HIDE DEF own
<1> QED
  BY <1>4, <1>5, <1>6, <1>7, <1>8 DEF ReadFrom, WholeTask

-----------------------------------------------------------------------------
(* Every step is one of Archive's, or none *)

LEMMA MapRead == ASSUME NEW m \in Map PROVE InUse(All(m)) = m
<1>1. All(m)["line"] = m
  BY DEF All, MapTable
<1> QED
  BY <1>1 DEF InUse

\* Nothing changes that the contract is about.
LEMMA StepQuiet ==
    ASSUME UNCHANGED <<disk, memory, saved, told>>
    PROVE  UNCHANGED Contract!vars
<1>1. Hist' = Hist
  BY SameHist
<1>2. InUse(disk.map)' = InUse(disk.map) /\ InUse(memory)' = InUse(memory)
  BY DEF InUse
<1> QED
  BY <1>1, <1>2 DEF Contract!vars, Hist

\* No map is promised, and no task is committed.
LEMMA StepChange ==
    ASSUME told \notin Map, told' \notin Map, disk'.rows = disk.rows, saved' = saved
    PROVE  Contract!Next
<1>1. Hist' = Hist
  BY SameHist
<1> QED
  BY <1>1 DEF Contract!Next, Contract!Change, Hist

LEMMA StepAsk ==
    ASSUME told' \notin Map, disk'.rows = disk.rows, saved' = saved
    PROVE  Contract!Next
<1>1. Hist' = Hist
  BY SameHist
<1> QED
  BY <1>1 DEF Contract!Next, Contract!Ask, Hist

LEMMA StepCommitMap ==
    ASSUME StoreInv, CommitMap
    PROVE  Contract!Next
<1>1. /\ Setting(AtCommit) /\ disk' = seen /\ told' = setter.map
      /\ memory' = memory /\ saved' = saved
  BY DEF CommitMap, Commit, taskVars
<1>2. /\ seen.map = All(setter.map) /\ memory = All(setter.map) /\ setter.map \in Map
      /\ SetterOwns /\ setter # NoSetter
  BY <1>1, WholeMap, SettingIs, Sizes DEF StoreInv
<1>3. disk'.rows = disk.rows
  BY <1>1, <1>2 DEF StoreInv, OwnerInv
<1>4. Hist' = Hist
  BY <1>3, SameHist
<1>5. told \notin Map
  BY <1>2, Untold DEF StoreInv
<1>6. InUse(disk.map)' = setter.map /\ InUse(memory)' = setter.map
  <2>1. disk'.map = All(setter.map) /\ memory' = All(setter.map)
    BY <1>1, <1>2
  <2>2. InUse(disk.map)' = InUse(All(setter.map)) /\ InUse(memory)' = InUse(All(setter.map))
    BY <2>1 DEF InUse
  <2> QED
    BY <1>2, <2>2, MapRead
<1>7. Contract!Set(setter.map)
  BY <1>1, <1>4, <1>5, <1>6 DEF Contract!Set, Hist
<1> QED
  BY <1>2, <1>7 DEF Contract!Next

LEMMA StepCommitTask ==
    ASSUME StoreInv, NEW t \in Task, CommitTask(t)
    PROVE  Contract!Next
<1>1. /\ Saving(t) /\ pos[t] = Rows(t) /\ disk' = seen
      /\ saved' = saved \cup {t} /\ UNCHANGED <<memory, told>>
  BY DEF CommitTask, Commit, mapVars
<1>2. StoreTypeOK /\ ContentInv
  BY DEF StoreInv, ContentInv
<1>3. t \notin saved /\ id[t] \notin Ids("task")
  BY <1>1, <1>2, Apart
<1>4. Ids("task")' = Ids("task") \cup {id[t]}
  BY <1>1, <1>2, IdsCommitted
<1>5. \A i \in Ids("task") : ReadBack(i)' = ReadBack(i)
  BY <1>1, <1>2, ReadIs, OthersRead
<1>6. \A i : i = id[t] => ReadBack(i)' = WholeTask(t)
  BY <1>1, <1>2, ReadIs, OwnRead
<1>7. Hist' = [i \in Ids("task") \cup {id[t]} |-> ReadBack(i)']
  BY <1>4 DEF Hist
<1>8. DOMAIN Hist = Ids("task") /\ DOMAIN Hist' = Ids("task") \cup {id[t]}
  BY <1>7 DEF Hist
<1>9. Hist' = [k \in DOMAIN Hist \cup {id[t]} |->
                  IF k = id[t] THEN WholeTask(t) ELSE Hist[k]]
  BY <1>3, <1>5, <1>6, <1>7, <1>8 DEF Hist
<1>10. ASSUME told \in Map PROVE InUse(disk.map)' = InUse(disk.map)
  BY <1>1, <1>10 DEF StoreInv, MapInv, InUse
<1>11. InUse(memory)' = InUse(memory)
  BY <1>1 DEF InUse
<1>12. Contract!Save(t)
  <2>1. id[t] \in DOMAIN Hist' \ DOMAIN Hist
    BY <1>3, <1>8
  <2> QED
    BY <1>1, <1>3, <1>9, <1>10, <1>11, <2>1 DEF Contract!Save, Hist
<1> QED
  BY <1>12 DEF Contract!Next

LEMMA StepCrash ==
    ASSUME StoreInv, Crash
    PROVE  Contract!Next \/ UNCHANGED Contract!vars
<1>1. disk' = disk /\ memory' = disk.map /\ UNCHANGED <<saved, told>>
  BY DEF Crash
<1>2. CASE told \in Map
  BY <1>1, <1>2, StepQuiet DEF StoreInv, MapInv
<1>3. CASE told \notin Map
  BY <1>1, <1>3, StepChange
<1> QED
  BY <1>2, <1>3

LEMMA StepNext ==
    StoreInv /\ [Next]_vars => [Contract!Next]_Contract!vars
<1> SUFFICES ASSUME StoreInv, [Next]_vars
             PROVE  Contract!Next \/ UNCHANGED Contract!vars
  OBVIOUS
<1> USE DEF dbVars, idVars, taskVars, mapVars
<1>1. ASSUME NEW t \in Task,
             \/ Add(t) \/ Execute(t) \/ HandBack(t) \/ Finish(t) \/ Cancel(t)
             \/ Begin(t) \/ BeginFails(t)
      PROVE  UNCHANGED Contract!vars
  BY <1>1, StepQuiet
     DEF Add, Execute, HandBack, Finish, Cancel, Begin, BeginTransaction, BeginFails
<1>2. ASSUME NEW t \in Task, InsertRow(t) PROVE UNCHANGED Contract!vars
  <2>1. open
    BY <1>2, RowsOf DEF InsertRow, InsertTask, InsertNode, InsertThing, StoreInv, OwnerInv, Owns
  <2>2. disk' = disk
    BY <1>2, <2>1 DEF InsertRow, InsertTask, InsertNode, InsertThing, Insert, Exec
  <2> QED
    BY <1>2, <2>2, StepQuiet DEF InsertRow
<1>3. ASSUME NEW m \in Map, SetMap(m) PROVE Contract!Next
  BY <1>3, StepAsk, StoreAssumption DEF SetMap
<1>4. ASSUME DeleteTable \/ InsertTable \/ SaveFails PROVE Contract!Next
  <2>1. setter # NoSetter
    <3>1. \A at : Setting(at) => setter # NoSetter
      BY DEF Setting, NoSetter
    <3>2. DeleteTable => \E at \in 1..Len(Deleted) : Setting(at)
      BY DEF DeleteTable
    <3>3. InsertTable => \E at : Setting(at)
      BY DEF InsertTable
    <3>4. SaveFails => \E at : Setting(at)
      BY DEF SaveFails, Refused
    <3> QED
      BY <1>4, <3>1, <3>2, <3>3, <3>4
  <2>2. UNCHANGED <<told, saved>>
    BY <1>4 DEF DeleteTable, InsertTable, SaveFails
  <2>3. ASSUME DeleteTable PROVE disk'.rows = disk.rows
    <3>1. PICK at \in 1..7 : Exec([seen EXCEPT !.map[Deleted[at]] = NoMap])
      BY <2>3, Sizes DEF DeleteTable
    <3> QED
      BY <3>1, ExecMap, Sizes DEF StoreInv, SameRows
  <2>4. ASSUME InsertTable PROVE disk'.rows = disk.rows
    <3>1. PICK n \in 1..4 : /\ Setting(8 + n)
                            /\ Exec([seen EXCEPT !.map[Inserted[n]] = setter.map])
      BY <2>4, Sizes DEF InsertTable
    <3>2. setter.map \in Map
      BY <3>1, SettingIs DEF StoreInv
    <3> QED
      BY <3>1, <3>2, ExecMap, Sizes DEF StoreInv, SameRows
  <2>5. SaveFails => disk'.rows = disk.rows
    BY DEF SaveFails
  <2>6. told \notin Map
    BY <2>1, Untold DEF StoreInv
  <2> QED
    BY <1>4, <2>2, <2>3, <2>4, <2>5, <2>6, StepChange
<1>5. ASSUME BeginMap PROVE UNCHANGED Contract!vars
  BY <1>5, StepQuiet DEF BeginMap, BeginTransaction
<1>6. ASSUME UNCHANGED vars PROVE UNCHANGED Contract!vars
  BY <1>6, StepQuiet DEF vars
<1> QED
  BY <1>1, <1>2, <1>3, <1>4, <1>5, <1>6, StepCommitTask, StepCommitMap, StepCrash DEF Next

-----------------------------------------------------------------------------
(* The theorems *)

LEMMA InvAlways == Spec => []StoreInv
<1>1. Init => StoreInv
  BY InvInit
<1>2. StoreInv /\ [Next]_vars => StoreInv'
  BY InvNext
<1> QED
  BY <1>1, <1>2, PTL DEF Spec

\* The database, the transaction, the ids, the tasks and the map have their
\* types (taskmanager.cpp:455-502, mapmanager.cpp:324-402).
THEOREM StoreTypeCorrect == Spec => []StoreTypeOK
<1>1. StoreInv => StoreTypeOK
  BY DEF StoreInv
<1> QED
  BY <1>1, InvAlways, PTL

\* Whatever others write meanwhile and whenever the program crashes, a task that
\* saveTask has answered true for can be read back whole by an id of its own,
\* and a map that was set with success is the one in use and the one loaded
\* after a crash (taskmanager.cpp:331-350, 455-502; mapmanager.cpp:1446, 1611-1616).
THEOREM PromiseKept == Spec => Promise
<1>1. Init => Contract!Init
  BY InitPromise
<1>2. StoreInv /\ [Next]_vars => [Contract!Next]_Contract!vars
  BY StepNext
<1> QED
  BY <1>1, <1>2, InvAlways, PTL DEF Spec, Promise, Contract!Spec
=============================================================================
