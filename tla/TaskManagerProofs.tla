------------------------- MODULE TaskManagerProofs -------------------------
(***************************************************************************)
(* Proofs about TaskManager, for any tasks, vehicles, threads, map, node   *)
(* lists, priorities and cancel requests.                                  *)
(***************************************************************************)
EXTENDS TaskManager, SequenceTheorems, WellFoundedInduction, TLAPS

-----------------------------------------------------------------------------
(* Sequences *)

\* Erasing position i keeps what is before it and moves the rest down by one.
LEMMA EraseAtElements ==
    ASSUME NEW S, NEW s \in Seq(S), NEW i \in DOMAIN s
    PROVE  /\ EraseAt(s, i) \in Seq(S)
           /\ Len(EraseAt(s, i)) = Len(s) - 1
           /\ \A k \in 1..(Len(s) - 1) :
                EraseAt(s, i)[k] = IF k < i THEN s[k] ELSE s[k + 1]
<1> DEFINE front == SubSeq(s, 1, i - 1)
           back == SubSeq(s, i + 1, Len(s))
<1>1. Len(s) \in Nat /\ DOMAIN s = 1..Len(s) /\ i \in 1..Len(s)
  OBVIOUS
<1>2. /\ front \in Seq(S) /\ Len(front) = i - 1
      /\ \A k \in 1..(i - 1) : front[k] = s[k]
  BY <1>1
<1>3. /\ back \in Seq(S) /\ Len(back) = Len(s) - i
      /\ \A k \in 1..(Len(s) - i) : back[k] = s[i + k]
  BY <1>1
<1>4. /\ front \o back \in Seq(S)
      /\ Len(front \o back) = Len(front) + Len(back)
      /\ \A k \in 1..(Len(front) + Len(back)) :
           (front \o back)[k] = IF k <= Len(front) THEN front[k]
                                ELSE back[k - Len(front)]
  BY <1>2, <1>3, ConcatProperties
<1> HIDE DEF front, back
<1>5. EraseAt(s, i) = front \o back
  BY DEF EraseAt, front, back
<1>6. \A k \in 1..(Len(s) - 1) :
        (front \o back)[k] = IF k < i THEN s[k] ELSE s[k + 1]
  <2> TAKE k \in 1..(Len(s) - 1)
  <2>1. CASE k < i
    BY <2>1, <1>1, <1>2, <1>3, <1>4
  <2>2. CASE ~(k < i)
    <3>1. k - (i - 1) \in 1..(Len(s) - i)
      BY <2>2, <1>1
    <3>2. back[k - (i - 1)] = s[i + (k - (i - 1))]
      BY <3>1, <1>3
    <3>3. i + (k - (i - 1)) = k + 1
      BY <1>1
    <3>4. k \in 1..(Len(front) + Len(back)) /\ ~(k <= Len(front))
      BY <2>2, <1>1, <1>2, <1>3
    <3>5. (front \o back)[k] = back[k - Len(front)]
      BY <3>4, <1>4
    <3>6. (front \o back)[k] = s[k + 1]
      BY <3>2, <3>3, <3>5, <1>2
    <3> QED  BY <2>2, <3>6
  <2> QED  BY <2>1, <2>2
<1>7. Len(front \o back) = Len(s) - 1
  BY <1>1, <1>2, <1>3, <1>4
<1> QED  BY <1>4, <1>5, <1>6, <1>7

\* What erasing keeps: the elements other than the one erased, once each.
LEMMA EraseAtRange ==
    ASSUME NEW S, NEW s \in Seq(S), NEW i \in DOMAIN s
    PROVE  /\ RangeOf(EraseAt(s, i)) \subseteq RangeOf(s)
           /\ \A j \in DOMAIN s : j # i => s[j] \in RangeOf(EraseAt(s, i))
<1> DEFINE e == EraseAt(s, i)
<1>1. Len(s) \in Nat /\ DOMAIN s = 1..Len(s) /\ i \in 1..Len(s)
  OBVIOUS
<1>2. /\ e \in Seq(S) /\ Len(e) = Len(s) - 1 /\ DOMAIN e = 1..(Len(s) - 1)
      /\ \A k \in 1..(Len(s) - 1) : e[k] = IF k < i THEN s[k] ELSE s[k + 1]
  <2>1. e \in Seq(S) => DOMAIN e = 1..Len(e)
    OBVIOUS
  <2> QED  BY <2>1, EraseAtElements
<1> HIDE DEF e
<1>3. RangeOf(e) \subseteq RangeOf(s)
  BY <1>1, <1>2 DEF RangeOf
<1>4. ASSUME NEW j \in DOMAIN s, j # i  PROVE  s[j] \in RangeOf(e)
  <2>1. CASE j < i
    BY <2>1, <1>1, <1>2 DEF RangeOf
  <2>2. CASE j > i
    <3>1. j - 1 \in 1..(Len(s) - 1) /\ ~(j - 1 < i) /\ (j - 1) + 1 = j
      BY <2>2, <1>1
    <3>2. e[j - 1] = s[j]
      BY <3>1, <1>2
    <3> QED  BY <3>1, <3>2, <1>2 DEF RangeOf
  <2> QED  BY <2>1, <2>2, <1>1, <1>4
<1> QED  BY <1>3, <1>4 DEF e

\* Each element occurs once.
Distinct(s) == \A i, j \in DOMAIN s : s[i] = s[j] => i = j

\* Erasing an element of a sequence without repetitions removes it for good
\* and leaves no repetitions.
LEMMA EraseAtDistinct ==
    ASSUME NEW S, NEW s \in Seq(S), NEW i \in DOMAIN s, Distinct(s)
    PROVE  /\ Distinct(EraseAt(s, i))
           /\ s[i] \notin RangeOf(EraseAt(s, i))
           /\ RangeOf(EraseAt(s, i)) = RangeOf(s) \ {s[i]}
<1> DEFINE e == EraseAt(s, i)
           old(k) == IF k < i THEN k ELSE k + 1
<1>1. Len(s) \in Nat /\ DOMAIN s = 1..Len(s) /\ i \in 1..Len(s)
  OBVIOUS
<1>2. /\ e \in Seq(S) /\ DOMAIN e = 1..(Len(s) - 1)
      /\ \A k \in 1..(Len(s) - 1) : e[k] = s[old(k)]
  <2>1. e \in Seq(S) => DOMAIN e = 1..Len(e)
    OBVIOUS
  <2> QED  BY <2>1, <1>1, EraseAtElements
<1>3. /\ \A k \in 1..(Len(s) - 1) : old(k) \in 1..Len(s) /\ old(k) # i
      /\ \A k, l \in 1..(Len(s) - 1) : old(k) = old(l) => k = l
  BY <1>1
<1> HIDE DEF e, old
<1>4. Distinct(e)
  BY <1>1, <1>2, <1>3 DEF Distinct
<1>5. s[i] \notin RangeOf(e)
  BY <1>1, <1>2, <1>3 DEF Distinct, RangeOf
<1>6. RangeOf(e) = RangeOf(s) \ {s[i]}
  BY <1>5, EraseAtRange DEF RangeOf, e
<1> QED  BY <1>4, <1>5, <1>6 DEF e

\* push_back of an element that is not there leaves no repetitions.
LEMMA AppendRange ==
    ASSUME NEW S, NEW s \in Seq(S), NEW x \in S
    PROVE  /\ Append(s, x) \in Seq(S)
           /\ RangeOf(Append(s, x)) = RangeOf(s) \cup {x}
           /\ Distinct(s) /\ x \notin RangeOf(s) => Distinct(Append(s, x))
<1> DEFINE a == Append(s, x)
<1>1. Len(s) \in Nat /\ DOMAIN s = 1..Len(s)
  OBVIOUS
<1>2. /\ a \in Seq(S) /\ DOMAIN a = 1..(Len(s) + 1)
      /\ \A k \in 1..Len(s) : a[k] = s[k]
      /\ a[Len(s) + 1] = x
  <2>1. a \in Seq(S) => DOMAIN a = 1..Len(a)
    OBVIOUS
  <2> QED  BY <2>1, AppendProperties
<1> HIDE DEF a
<1>3. RangeOf(a) = RangeOf(s) \cup {x}
  <2>1. RangeOf(a) \subseteq RangeOf(s) \cup {x}
    BY <1>1, <1>2 DEF RangeOf
  <2>2. RangeOf(s) \cup {x} \subseteq RangeOf(a)
    BY <1>1, <1>2 DEF RangeOf
  <2> QED  BY <2>1, <2>2
<1>4. Distinct(s) /\ x \notin RangeOf(s) => Distinct(a)
  BY <1>1, <1>2 DEF Distinct, RangeOf
<1> QED  BY <1>2, <1>3, <1>4 DEF a

\* std::find of an element that is there stops at its first position.
LEMMA FindFirst ==
    ASSUME NEW S, NEW s \in Seq(S), NEW x \in RangeOf(s)
    PROVE  Find(s, x) \in DOMAIN s /\ s[Find(s, x)] = x
<1> DEFINE T == {i \in DOMAIN s : s[i] = x}
           Less == {p \in Nat \X Nat : p[1] < p[2]}
<1>1. T # {} /\ T \subseteq Nat
  BY DEF RangeOf
<1>2. IsWellFoundedOn(Less, Nat)
  <2>1. Less = OpToRel(<, Nat)
    BY DEF OpToRel
  <2> QED  BY <2>1, NatLessThanWellFounded
<1> HIDE DEF T, Less
<1>3. PICK i \in T : \A j \in T : <<j, i>> \notin Less
  BY <1>1, <1>2, WFMin
<1>4. \A j \in T : ~(j < i)
  BY <1>1, <1>3 DEF Less
<1>5. i \in DOMAIN s /\ s[i] = x /\ \A j \in 1..(i - 1) : s[j] # x
  <2>1. i \in 1..Len(s) /\ s[i] = x /\ Len(s) \in Nat
    BY <1>3 DEF T
  <2>2. ASSUME NEW j \in 1..(i - 1), s[j] = x  PROVE FALSE
    <3>1. j \in T /\ j < i
      BY <2>1, <2>2 DEF T
    <3> QED  BY <3>1, <1>4
  <2> QED  BY <2>1, <2>2
<1> QED  BY <1>5 DEF Find

-----------------------------------------------------------------------------
(* Types.  All of TypeOK but "served", which needs to know that a thread's *)
(* node index stays in bounds while other threads run.                     *)

ListTypes ==
    /\ toDistribute \in [0..MaxPriority -> Seq(Task)]
    /\ doing \in Seq(Task) /\ done \in Seq(Task) /\ broken \in BOOLEAN
    /\ scanning \in BOOLEAN /\ scanPrio \in 0..MaxPriority
    /\ scanPos \in Nat \ {0}
TaskTypes ==
    /\ agvOf \in [Task -> Agv \cup {NoAgv}]
    /\ nodes \in [Task -> Seq(Node)]
    /\ index \in [Task -> Nat]
    /\ path \in [Task -> Seq(Station)]
    /\ runs \in [Task -> Nat]
    /\ isCancel \in [Task -> BOOLEAN]
    /\ status \in [Task -> {"unexcute", "excuting", "done", "cancel"}]
AgvTypes ==
    /\ currentTask \in [Agv -> Task \cup {NoTask}]
    /\ agvStatus \in [Agv -> {"idle", "tasking"}]
    /\ isStop \in [Agv -> BOOLEAN]
    /\ now \in [Agv -> Aim] /\ last \in [Agv -> Station]
PoolTypes ==
    /\ jobs \in Seq(Job)
    /\ pc \in [Slot -> {"idle"} \cup HoldSteps \cup CancelSteps]
    /\ cur \in [Slot -> Task \cup {NoTask}]
    /\ todo \in [Slot -> Seq(Station)]
ClientTypes == submitted \in SUBSET Task /\ asked \in SUBSET Task
ServedType == served \in [Task -> Seq([node : Nat, at : Aim, ok : BOOLEAN])]

\* A busy thread has a task, and a moving one a station to go to.
SlotHasTask == \A w \in Slot : pc[w] # "idle" => cur[w] \in Task
HasStation == \A w \in Slot : pc[w] \in {"wait", "moving"} => todo[w] # <<>>

Types == /\ ListTypes /\ TaskTypes /\ AgvTypes /\ PoolTypes /\ ClientTypes
         /\ SlotHasTask /\ HasStation

LEMMA InitTypes == Init => Types
<1> SUFFICES ASSUME Init PROVE Types
  OBVIOUS
<1>1. nodes \in [Task -> Seq(Node)]
  <2> SUFFICES ASSUME NEW t \in Task
               PROVE  [i \in 1..Len(Nodes[t]) |->
                         [station |-> Nodes[t][i], id |-> i]] \in Seq(Node)
    BY DEF Init
  <2>1. Len(Nodes[t]) \in Nat /\ \A i \in 1..Len(Nodes[t]) : Nodes[t][i] \in Aim
    BY TaskAssumption
  <2> QED  BY <2>1, IsASeq DEF Node
<1>2. ListTypes
  <2>1. <<>> \in Seq(Task)
    OBVIOUS
  <2>2. toDistribute \in [0..MaxPriority -> Seq(Task)]
    BY <2>1 DEF Init
  <2>3. doing \in Seq(Task) /\ done \in Seq(Task)
    BY <2>1 DEF Init
  <2>4. broken \in BOOLEAN /\ scanning \in BOOLEAN
    BY DEF Init
  <2>5. scanPrio = MaxPriority /\ scanPos = 1
    BY DEF Init
  <2>6. scanPrio \in 0..MaxPriority /\ scanPos \in Nat \ {0}
    BY <2>5, PriorityAssumption
  <2> QED  BY <2>2, <2>3, <2>4, <2>6 DEF ListTypes
<1>6. ClientTypes
  BY DEF Init, ClientTypes
<1>3. TaskTypes
  BY <1>1, TaskAssumption DEF Init, TaskTypes
<1>4. AgvTypes
  BY AgvAssumption DEF Init, AgvTypes, Aim
<1>5. PoolTypes /\ SlotHasTask /\ HasStation
  BY DEF Init, PoolTypes, SlotHasTask, HasStation
<1> QED  BY <1>2, <1>3, <1>4, <1>5, <1>6 DEF Types

\* Where a route starts is a station, and what it visits are stations.
LEMMA RouteTypes ==
    ASSUME AgvTypes, NEW a \in Agv, NEW s \in Aim
    PROVE  From(a) \in Station /\ RouteTo(a, s) \in Seq(Station)
<1>1. From(a) \in Station
  BY StationAssumption DEF AgvTypes, From, Aim
<1>2. s # 0 => s \in Station
  BY DEF Aim
<1>3. <<>> \in Seq(Station)
  OBVIOUS
<1> QED  BY <1>1, <1>2, <1>3, RouteAssumption DEF RouteTo

\* The node a task is at is one of its nodes, if it is not completed.
LEMMA NodeTypes ==
    ASSUME TaskTypes, NEW t \in Task, ~Completed(t)
    PROVE  NodeOf(t) \in Node /\ NodeOf(t).station \in Aim /\ NodeOf(t).id \in Nat
<1>1. nodes[t] \in Seq(Node) /\ index[t] \in Nat
  BY DEF TaskTypes
<1>2. Len(nodes[t]) \in Nat /\ index[t] + 1 \in 1..Len(nodes[t])
  BY <1>1 DEF Completed
<1>3. NodeOf(t) \in Node
  BY <1>1, <1>2 DEF NodeOf
<1> QED  BY <1>3 DEF Node

\* Adding a task to its queue, and erasing the scanned one, keep the types.
LEMMA AddTypes ==
    ASSUME ListTypes, NEW t \in Task, Add(t)
    PROVE  toDistribute' \in [0..MaxPriority -> Seq(Task)]
<1>1. Priority[t] \in 0..MaxPriority
  BY TaskAssumption
<1>2. toDistribute[Priority[t]] \in Seq(Task)
  BY <1>1 DEF ListTypes
<1>3. Append(toDistribute[Priority[t]], t) \in Seq(Task)
  BY <1>2
<1> QED  BY <1>1, <1>3 DEF ListTypes, Add

LEMMA EraseScannedTypes ==
    ASSUME ListTypes, NEW t \in Task, At(t), EraseScanned
    PROVE  toDistribute' \in [0..MaxPriority -> Seq(Task)]
<1>1. toDistribute[scanPrio] \in Seq(Task)
  BY DEF ListTypes
<1>2. EraseAt(toDistribute[scanPrio], scanPos) \in Seq(Task)
  BY <1>1, EraseAtElements DEF At
<1> QED  BY <1>2 DEF ListTypes, EraseScanned

\* excuteTask's job and entry of doingTask.
LEMMA ExcuteTypes ==
    ASSUME ListTypes, PoolTypes, NEW t \in Task, Excute(t)
    PROVE  doing' \in Seq(Task) /\ jobs' \in Seq(Job)
<1>1. [op |-> "run", task |-> t] \in Job
  BY DEF Job
<1>2. doing \in Seq(Task) /\ jobs \in Seq(Job)
  BY DEF ListTypes, PoolTypes
<1>3. Append(doing, t) \in Seq(Task) /\ Append(jobs, [op |-> "run", task |-> t]) \in Seq(Job)
  BY <1>1, <1>2
<1> QED  BY <1>3 DEF Excute

\* What distributeTask does when it has found a route for t and vehicle a.
LEMMA TakeTypes ==
    ASSUME Types, NEW t \in Task, NEW a \in Agv, NEW r \in Seq(Station),
           At(t), Take(t, a, r), nodes' \in [Task -> Seq(Node)]
    PROVE  Types'
<1>1. toDistribute' \in [0..MaxPriority -> Seq(Task)]
  BY EraseScannedTypes DEF Types, Take
<1>2. doing' \in Seq(Task) /\ jobs' \in Seq(Job)
  BY ExcuteTypes DEF Types, Take
<1>3. UNCHANGED <<done, broken, scanning, scanPrio, scanPos, index, runs,
                  isCancel, status, isStop, now, last, pc, cur, todo, submitted,
                  asked>>
  BY DEF Take, Excute, EraseScanned, scanVars, clientVars
<1>4. ListTypes'
  BY <1>1, <1>2, <1>3 DEF Types, ListTypes
<1>5. TaskTypes'
  <2>1. agvOf' \in [Task -> Agv \cup {NoAgv}] /\ path' \in [Task -> Seq(Station)]
    BY DEF Types, TaskTypes, Take, SetAgv
  <2> QED  BY <2>1, <1>3 DEF Types, TaskTypes
<1>6. AgvTypes'
  <2>1. /\ currentTask' \in [Agv -> Task \cup {NoTask}]
        /\ agvStatus' \in [Agv -> {"idle", "tasking"}]
    BY DEF Types, AgvTypes, Take
  <2> QED  BY <2>1, <1>3 DEF Types, AgvTypes
<1>7. PoolTypes' /\ SlotHasTask' /\ HasStation' /\ ClientTypes'
  BY <1>2, <1>3 DEF Types, PoolTypes, SlotHasTask, HasStation, ClientTypes
<1> QED  BY <1>4, <1>5, <1>6, <1>7 DEF Types

\* A halt node in front keeps the types of the nodes.
LEMMA PushHaltTypes ==
    ASSUME TaskTypes, NEW t \in Task, NEW h \in Halt, PushHalt(t, h)
    PROVE  nodes' \in [Task -> Seq(Node)]
<1>1. [station |-> h, id |-> 0] \in Node
  BY StationAssumption DEF Node, Aim
<1>2. nodes[t] \in Seq(Node)
  BY DEF TaskTypes
<1>3. <<[station |-> h, id |-> 0]>> \in Seq(Node)
  BY <1>1
<1>4. <<[station |-> h, id |-> 0]>> \o nodes[t] \in Seq(Node)
  BY <1>2, <1>3, ConcatProperties
<1> QED  BY <1>4 DEF TaskTypes, PushHalt

LEMMA ClientTypesNext == Types /\ Client => Types'
<1> SUFFICES ASSUME Types, NEW t \in Task, RequestCreate(t) \/ RequestCancel(t)
             PROVE  Types'
  BY DEF Client
<1>1. UNCHANGED <<listVars, scanVars, taskVars, agvVars, pc, cur, todo>>
  BY DEF RequestCreate, RequestCancel
<1>2. ListTypes' /\ TaskTypes' /\ AgvTypes' /\ SlotHasTask' /\ HasStation'
  BY <1>1 DEF Types, ListTypes, TaskTypes, AgvTypes, SlotHasTask, HasStation,
    listVars, scanVars, taskVars, agvVars
<1>3. jobs' \in Seq(Job)
  <2>1. [op |-> "create", task |-> t] \in Job /\ [op |-> "cancel", task |-> t] \in Job
    BY DEF Job
  <2>2. jobs \in Seq(Job)
    BY DEF Types, PoolTypes
  <2> QED  BY <2>1, <2>2 DEF RequestCreate, RequestCancel
<1>4. PoolTypes'
  BY <1>1, <1>3 DEF Types, PoolTypes
<1>5. ClientTypes'
  BY DEF Types, ClientTypes, RequestCreate, RequestCancel
<1> QED  BY <1>2, <1>4, <1>5 DEF Types

LEMMA DistributorTypesNext == Types /\ Distributor => Types'
<1> SUFFICES ASSUME Types, Distributor PROVE Types'
  OBVIOUS
<1>1. CASE ScanStart \/ ScanNext
  <2>1. UNCHANGED <<listVars, taskVars, agvVars, poolVars, clientVars>>
    BY <1>1 DEF ScanStart, ScanNext
  <2>2. scanning' \in BOOLEAN
    BY <1>1 DEF ScanStart, ScanNext
  <2>3. scanPrio' \in 0..MaxPriority
    BY <1>1, PriorityAssumption DEF ScanStart, ScanNext, Types, ListTypes
  <2>4. scanPos' \in Nat \ {0}
    <3>1. scanPos' = 1
      BY <1>1 DEF ScanStart, ScanNext, Front
    <3> QED  BY <3>1
  <2> QED  BY <2>1, <2>2, <2>3, <2>4 DEF Types, ListTypes, TaskTypes, AgvTypes,
             PoolTypes, ClientTypes, SlotHasTask, HasStation, listVars, taskVars,
             agvVars, poolVars, clientVars
<1>2. CASE \E t \in Task : DistributeTask(t)
  <2> PICK t \in Task : DistributeTask(t)
    BY <1>2
  <2>1. CASE Finish(t)
    <3>1. toDistribute' \in [0..MaxPriority -> Seq(Task)]
      BY <2>1, EraseScannedTypes DEF Types, Finish
    <3>2. done' \in Seq(Task)
      BY <2>1 DEF Types, ListTypes, Finish
    <3>3. /\ currentTask' \in [Agv -> Task \cup {NoTask}]
          /\ agvStatus' \in [Agv -> {"idle", "tasking"}]
      BY <2>1 DEF Types, AgvTypes, Finish
    <3>4. status' \in [Task -> {"unexcute", "excuting", "done", "cancel"}]
      BY <2>1 DEF Types, TaskTypes, Finish
    <3>5. ListTypes'
      BY <2>1, <3>1, <3>2 DEF Types, ListTypes, Finish, EraseScanned, scanVars
    <3>6. TaskTypes' /\ AgvTypes'
      BY <2>1, <3>3, <3>4 DEF Types, TaskTypes, AgvTypes, Finish
    <3> QED  BY <2>1, <3>5, <3>6 DEF Types, PoolTypes, ClientTypes, SlotHasTask,
               HasStation, Finish, poolVars, clientVars
  <2>2. CASE RunAgain(t) \/ Postpone(t)
    <3>1. scanPos' \in Nat \ {0} /\ UNCHANGED <<scanning, scanPrio>>
      <4>1. scanPos' = scanPos + 1 /\ UNCHANGED <<scanning, scanPrio>>
        BY <2>2 DEF RunAgain, Postpone, PassOver
      <4> QED  BY <4>1 DEF Types, ListTypes
    <3>2. index' \in [Task -> Nat] /\ runs' \in [Task -> Nat]
      <4>1. CASE RunAgain(t)
        <5>1. runs[t] - 1 \in Nat
          BY <4>1 DEF RunAgain, Types, TaskTypes
        <5> QED  BY <4>1, <5>1 DEF RunAgain, Restart, Types, TaskTypes
      <4>2. CASE Postpone(t)
        BY <4>2 DEF Postpone, Types, TaskTypes, taskVars
      <4> QED  BY <2>2, <4>1, <4>2
    <3>3. UNCHANGED <<listVars, agvOf, nodes, path, isCancel, status, agvVars,
                      poolVars, clientVars>>
      BY <2>2 DEF RunAgain, Postpone, taskVars
    <3>4. ListTypes' /\ TaskTypes' /\ AgvTypes'
      BY <3>1, <3>2, <3>3 DEF Types, ListTypes, TaskTypes, AgvTypes, listVars, agvVars
    <3> QED  BY <3>3, <3>4 DEF Types, PoolTypes, ClientTypes, SlotHasTask,
               HasStation, poolVars, clientVars
  <2>3. CASE ExcuteInPlace(t)
    <3>1. toDistribute' \in [0..MaxPriority -> Seq(Task)]
      BY <2>3, EraseScannedTypes DEF Types, ExcuteInPlace
    <3>2. doing' \in Seq(Task) /\ jobs' \in Seq(Job)
      BY <2>3, ExcuteTypes DEF Types, ExcuteInPlace
    <3>3. UNCHANGED <<taskVars, agvVars, clientVars, done, broken, scanVars, pc,
                      cur, todo>>
      BY <2>3 DEF ExcuteInPlace, Excute, EraseScanned
    <3>4. ListTypes' /\ TaskTypes' /\ AgvTypes'
      BY <3>1, <3>2, <3>3 DEF Types, ListTypes, TaskTypes, AgvTypes, taskVars,
        agvVars, scanVars
    <3> QED  BY <3>2, <3>3, <3>4 DEF Types, PoolTypes, ClientTypes, SlotHasTask,
               HasStation, clientVars
  <2>4. CASE Continue(t)
    <3>1. agvOf[t] \in Agv /\ NodeOf(t).station \in Aim
      BY <2>4, NodeTypes DEF Continue, OwnAgv, Types, TaskTypes
    <3>2. RouteTo(agvOf[t], NodeOf(t).station) \in Seq(Station)
      BY <3>1, RouteTypes DEF Types
    <3>3. nodes' \in [Task -> Seq(Node)]
      BY <2>4 DEF Continue, Types, TaskTypes
    <3> QED  BY <2>4, <3>1, <3>2, <3>3, TakeTypes DEF Continue
  <2>5. ASSUME NEW a \in Agv, AssignIdle(t, a)  PROVE Types'
    <3>1. NodeOf(t).station \in Aim
      BY <2>5, NodeTypes DEF AssignIdle, Types
    <3>2. RouteTo(a, NodeOf(t).station) \in Seq(Station)
      BY <3>1, RouteTypes DEF Types
    <3>3. nodes' \in [Task -> Seq(Node)]
      BY <2>5 DEF AssignIdle, Types, TaskTypes
    <3> QED  BY <2>5, <3>2, <3>3, TakeTypes DEF AssignIdle
  <2>6. ASSUME NEW a \in Agv, NEW h \in Halt, AssignHalt(t, a, h)  PROVE Types'
    <3>1. RouteTo(a, h) \in Seq(Station)
      BY RouteTypes, StationAssumption DEF Types, Aim
    <3>2. nodes' \in [Task -> Seq(Node)]
      BY <2>6, PushHaltTypes DEF AssignHalt, Types
    <3> QED  BY <2>6, <3>1, <3>2, TakeTypes DEF AssignHalt
  <2>7. ASSUME NEW h \in Halt, ContinueHalt(t, h)  PROVE Types'
    <3>1. agvOf[t] \in Agv
      BY <2>7 DEF ContinueHalt, OwnAgv, Types, TaskTypes
    <3>2. RouteTo(agvOf[t], h) \in Seq(Station)
      BY <3>1, RouteTypes, StationAssumption DEF Types, Aim
    <3>3. nodes' \in [Task -> Seq(Node)]
      BY <2>7, PushHaltTypes DEF ContinueHalt, Types
    <3> QED  BY <2>7, <3>1, <3>2, <3>3, TakeTypes DEF ContinueHalt
  <2> QED  BY <2>1, <2>2, <2>3, <2>4, <2>5, <2>6, <2>7 DEF DistributeTask
<1> QED  BY <1>1, <1>2 DEF Distributor

\* A step of thread w that moves its pc within the known steps, to a step that
\* needs a task only if w has one, and a station only if w has one left.
LEMMA GotoTypes ==
    ASSUME PoolTypes, SlotHasTask, HasStation, NEW w \in Slot,
           NEW from, NEW to \in {"idle"} \cup HoldSteps \cup CancelSteps,
           Goto(w, from, to), UNCHANGED cur,
           to # "idle" => from # "idle",
           \A v \in Slot \ {w} : todo'[v] = todo[v],
           to \in {"wait", "moving"} => todo'[w] # <<>>
    PROVE  /\ pc' \in [Slot -> {"idle"} \cup HoldSteps \cup CancelSteps]
           /\ SlotHasTask' /\ HasStation'
<1>1. pc[w] = from /\ pc' = [pc EXCEPT ![w] = to]
  BY DEF Goto
<1>2. pc \in [Slot -> {"idle"} \cup HoldSteps \cup CancelSteps]
  BY DEF PoolTypes
<1>3. /\ pc' \in [Slot -> {"idle"} \cup HoldSteps \cup CancelSteps]
      /\ pc'[w] = to /\ \A v \in Slot \ {w} : pc'[v] = pc[v]
  BY <1>1, <1>2
<1>4. SlotHasTask'
  BY <1>1, <1>3 DEF SlotHasTask
<1>5. HasStation'
  BY <1>3 DEF HasStation
<1> QED  BY <1>3, <1>4, <1>5

LEMMA TakeJobTypes ==
    ASSUME Types, NEW w \in Slot, TakeJob(w)
    PROVE  Types'
<1>1. jobs \in Seq(Job) /\ jobs # <<>>
  BY DEF Types, PoolTypes, TakeJob
<1>2. Head(jobs) \in Job /\ Tail(jobs) \in Seq(Job)
  BY <1>1, HeadTailProperties
<1>3. Head(jobs).task \in Task /\ Head(jobs).op \in {"create", "run", "cancel"}
  BY <1>2 DEF Job
<1>4. FirstStep(Head(jobs).op) \in {"add", "start", "cancelQueued"}
  BY <1>3 DEF FirstStep
<1>5. PoolTypes'
  BY <1>2, <1>3, <1>4 DEF Types, PoolTypes, TakeJob, HoldSteps, RunSteps, CancelSteps
<1>6. SlotHasTask' /\ HasStation'
  BY <1>3, <1>4 DEF Types, PoolTypes, SlotHasTask, HasStation, TakeJob
<1> QED  BY <1>5, <1>6 DEF Types, ListTypes, TaskTypes, AgvTypes, ClientTypes,
           TakeJob, listVars, scanVars, taskVars, agvVars, clientVars

LEMMA ReAddTypes ==
    ASSUME Types, NEW w \in Slot, AddNew(w) \/ ReAdd(w)
    PROVE  Types'
<1>1. /\ Goto(w, "add", "idle") \/ Goto(w, "readd", "idle")
      /\ Add(cur[w])
      /\ UNCHANGED <<scanVars, taskVars, agvVars, jobs, cur, todo, clientVars>>
  BY DEF AddNew, ReAdd
<1>2. cur[w] \in Task
  BY <1>1 DEF Types, SlotHasTask, Goto
<1>3. toDistribute' \in [0..MaxPriority -> Seq(Task)]
  BY <1>1, <1>2, AddTypes DEF Types
<1>4. ListTypes'
  BY <1>1, <1>3 DEF Types, ListTypes, Add, scanVars
<1>5. /\ pc' \in [Slot -> {"idle"} \cup HoldSteps \cup CancelSteps]
      /\ SlotHasTask' /\ HasStation'
  BY <1>1, GotoTypes DEF Types, HoldSteps, CancelSteps
<1> QED  BY <1>1, <1>4, <1>5 DEF Types, TaskTypes, AgvTypes, PoolTypes,
           ClientTypes, taskVars, agvVars, clientVars

LEMMA RunTypesNext ==
    ASSUME Types, NEW w \in Slot, RunStep(w)
    PROVE  Types'
<1>1. CASE Start(w)
  <2>1. cur[w] \in Task
    BY <1>1 DEF Start, Goto, Types, SlotHasTask
  <2>2. status' \in [Task -> {"unexcute", "excuting", "done", "cancel"}]
    BY <1>1, <2>1 DEF Start, Types, TaskTypes
  <2>3. isStop' \in [Agv -> BOOLEAN]
    BY <1>1 DEF Start, Types, AgvTypes
  <2>4. todo' \in [Slot -> Seq(Station)] /\ \A v \in Slot \ {w} : todo'[v] = todo[v]
    BY <1>1, <2>1 DEF Start, Types, PoolTypes, TaskTypes
  <2>5. Goto(w, "start", "drive") \/ Goto(w, "start", "things")
    BY <1>1 DEF Start
  <2>6. /\ pc' \in [Slot -> {"idle"} \cup HoldSteps \cup CancelSteps]
        /\ SlotHasTask' /\ HasStation'
    <3>1. UNCHANGED cur
      BY <1>1 DEF Start
    <3>2. {"drive", "things"} \subseteq {"idle"} \cup HoldSteps \cup CancelSteps
      BY DEF HoldSteps, RunSteps
    <3> QED  BY <2>4, <2>5, <3>1, <3>2, GotoTypes DEF Types
  <2>7. UNCHANGED <<listVars, scanVars, agvOf, nodes, index, path, runs, isCancel,
                    currentTask, agvStatus, now, last, jobs, cur, clientVars>>
    BY <1>1 DEF Start
  <2>8. ListTypes' /\ ClientTypes' /\ PoolTypes'
    BY <2>4, <2>6, <2>7 DEF Types, ListTypes, ClientTypes, PoolTypes, listVars,
      scanVars, clientVars
  <2>9. TaskTypes' /\ AgvTypes'
    BY <2>2, <2>3, <2>7 DEF Types, TaskTypes, AgvTypes
  <2> QED  BY <2>6, <2>8, <2>9 DEF Types
<1>2. CASE Drive(w) \/ GiveUp(w)
  <2>1. UNCHANGED <<listVars, scanVars, taskVars, agvVars, jobs, cur, clientVars>>
    BY <1>2 DEF Drive, GiveUp
  <2>2. todo[w] \in Seq(Station)
    BY DEF Types, PoolTypes
  <2>3. \/ Goto(w, "drive", "things") /\ UNCHANGED todo
        \/ Goto(w, "drive", "wait") /\ UNCHANGED todo /\ todo[w] # <<>>
        \/ /\ UNCHANGED pc /\ pc[w] = "drive" /\ todo[w] # <<>>
           /\ todo' = [todo EXCEPT ![w] = Tail(@)]
        \/ /\ Goto(w, pc[w], "drive") /\ pc[w] \in {"wait", "moving"}
           /\ todo[w] # <<>> /\ todo' = [todo EXCEPT ![w] = Tail(@)]
    <3>1. CASE Drive(w)
      BY <3>1 DEF Drive, PathOver
    <3>2. CASE GiveUp(w)
      <4>1. pc[w] \in {"wait", "moving"}
        BY <3>2 DEF GiveUp
      <4>2. todo[w] # <<>>
        BY <4>1 DEF Types, HasStation
      <4> QED  BY <3>2, <4>1, <4>2 DEF GiveUp, EndStation, Goto
    <3> QED  BY <1>2, <3>1, <3>2
  <2>4. todo' \in [Slot -> Seq(Station)] /\ \A v \in Slot \ {w} : todo'[v] = todo[v]
    <3>1. todo[w] # <<>> => Tail(todo[w]) \in Seq(Station)
      BY <2>2, HeadTailProperties
    <3> QED  BY <2>3, <3>1 DEF Types, PoolTypes
  <2>5. /\ pc' \in [Slot -> {"idle"} \cup HoldSteps \cup CancelSteps]
        /\ SlotHasTask' /\ HasStation'
    <3>1. {"drive", "wait", "things"} \subseteq {"idle"} \cup HoldSteps \cup CancelSteps
      BY DEF HoldSteps, RunSteps
    <3>2. PoolTypes /\ SlotHasTask /\ HasStation /\ UNCHANGED cur
      BY <2>1 DEF Types
    <3>3. CASE Goto(w, "drive", "things") /\ UNCHANGED todo
      BY <3>1, <3>2, <3>3, GotoTypes
    <3>4. CASE Goto(w, "drive", "wait") /\ UNCHANGED todo /\ todo[w] # <<>>
      BY <3>1, <3>2, <3>4, GotoTypes
    <3>5. CASE UNCHANGED pc /\ pc[w] = "drive"
      BY <2>4, <3>2, <3>5 DEF PoolTypes, SlotHasTask, HasStation
    <3>6. CASE Goto(w, pc[w], "drive") /\ pc[w] \in {"wait", "moving"}
      BY <2>4, <3>1, <3>2, <3>6, GotoTypes
    <3> QED  BY <2>3, <3>3, <3>4, <3>5, <3>6
  <2> QED  BY <2>1, <2>4, <2>5 DEF Types, ListTypes, TaskTypes, AgvTypes,
             PoolTypes, ClientTypes, listVars, scanVars, taskVars, agvVars,
             clientVars
<1>3. CASE Depart(w) \/ Arrive(w)
  <2>1. UNCHANGED <<listVars, scanVars, taskVars, currentTask, agvStatus, isStop,
                    jobs, cur, clientVars>>
    BY <1>3 DEF Depart, Arrive
  <2>2. pc[w] \in {"wait", "moving"} /\ todo[w] \in Seq(Station) /\ todo[w] # <<>>
    BY <1>3 DEF Depart, Arrive, Goto, Types, PoolTypes, HasStation
  <2>3. Head(todo[w]) \in Station /\ Tail(todo[w]) \in Seq(Station)
    BY <2>2, HeadTailProperties
  <2>4. \A a \in Agv : From(a) \in Station
    BY StationAssumption DEF Types, AgvTypes, From, Aim
  <2>5. now' \in [Agv -> Aim] /\ last' \in [Agv -> Station]
    <3>1. CASE Depart(w)
      BY <3>1, <2>4 DEF Depart, Types, AgvTypes, Aim
    <3>2. CASE Arrive(w)
      BY <3>2, <2>3 DEF Arrive, Types, AgvTypes, Aim
    <3> QED  BY <1>3, <3>1, <3>2
  <2>6. /\ todo' \in [Slot -> Seq(Station)] /\ \A v \in Slot \ {w} : todo'[v] = todo[v]
        /\ \/ Goto(w, "wait", "moving") /\ todo'[w] = todo[w]
           \/ Goto(w, "moving", "drive")
    <3>1. CASE Depart(w)
      BY <3>1 DEF Depart, Types, PoolTypes
    <3>2. CASE Arrive(w)
      BY <3>2, <2>3 DEF Arrive, EndStation, Goto, Types, PoolTypes
    <3> QED  BY <1>3, <3>1, <3>2
  <2>7. /\ pc' \in [Slot -> {"idle"} \cup HoldSteps \cup CancelSteps]
        /\ SlotHasTask' /\ HasStation'
    <3>1. {"drive", "moving"} \subseteq {"idle"} \cup HoldSteps \cup CancelSteps
      BY DEF HoldSteps, RunSteps
    <3>2. PoolTypes /\ SlotHasTask /\ HasStation /\ UNCHANGED cur
      BY <2>1 DEF Types
    <3>3. CASE Goto(w, "wait", "moving") /\ todo'[w] = todo[w]
      BY <2>2, <2>6, <3>1, <3>2, <3>3, GotoTypes
    <3>4. CASE Goto(w, "moving", "drive")
      BY <2>6, <3>1, <3>2, <3>4, GotoTypes
    <3> QED  BY <2>6, <3>3, <3>4
  <2> QED  BY <2>1, <2>5, <2>6, <2>7 DEF Types, ListTypes, TaskTypes, AgvTypes,
             PoolTypes, ClientTypes, listVars, scanVars, taskVars, clientVars
<1>4. CASE DoThings(w) \/ Advance(w) \/ EraseDoing(w)
  <2>1. UNCHANGED <<toDistribute, done, scanVars, agvOf, nodes, runs, isCancel,
                    status, agvVars, jobs, cur, todo, clientVars>>
    BY <1>4 DEF DoThings, Advance, EraseDoing, listVars, taskVars
  <2>2. \/ Goto(w, "things", "advance") \/ Goto(w, "advance", "erase")
        \/ Goto(w, "advance", "idle") \/ Goto(w, "erase", "readd")
    BY <1>4 DEF DoThings, Advance, EraseDoing
  <2>3. /\ pc' \in [Slot -> {"idle"} \cup HoldSteps \cup CancelSteps]
        /\ SlotHasTask' /\ HasStation'
    <3>1. {"advance", "erase", "idle", "readd"}
            \subseteq {"idle"} \cup HoldSteps \cup CancelSteps
      BY DEF HoldSteps, RunSteps
    <3> QED  BY <2>1, <2>2, <3>1, GotoTypes DEF Types
  <2>4. cur[w] \in Task
    BY <2>2 DEF Goto, Types, SlotHasTask
  <2>5. path' \in [Task -> Seq(Station)] /\ index' \in [Task -> Nat]
    <3>1. CASE Advance(w)
      <4>1. index[cur[w]] + 1 \in Nat /\ <<>> \in Seq(Station)
        BY <2>4 DEF Types, TaskTypes
      <4> QED  BY <3>1, <4>1 DEF Advance, Types, TaskTypes
    <3>2. CASE DoThings(w) \/ EraseDoing(w)
      BY <3>2 DEF DoThings, EraseDoing, taskVars, Types, TaskTypes
    <3> QED  BY <1>4, <3>1, <3>2
  <2>6. doing' \in Seq(Task) /\ broken' \in BOOLEAN
    <3>1. CASE EraseDoing(w)
      <4>1. doing \in Seq(Task)
        BY DEF Types, ListTypes
      <4>2. CASE doing = <<>>
        BY <3>1, <4>1, <4>2 DEF EraseDoing
      <4>3. CASE doing # <<>>
        <5>1. Len(doing) \in DOMAIN doing
          BY <4>1, <4>3
        <5>2. cur[w] \in RangeOf(doing) => Find(doing, cur[w]) \in DOMAIN doing
          BY <4>1, FindFirst
        <5>3. DoingPos(cur[w]) \in DOMAIN doing
          BY <5>1, <5>2 DEF DoingPos
        <5> QED  BY <3>1, <4>1, <4>3, <5>3, EraseAtElements DEF EraseDoing
      <4> QED  BY <4>2, <4>3
    <3>2. CASE DoThings(w) \/ Advance(w)
      BY <3>2 DEF DoThings, Advance, listVars, Types, ListTypes
    <3> QED  BY <1>4, <3>1, <3>2
  <2> QED  BY <2>1, <2>3, <2>5, <2>6 DEF Types, ListTypes, TaskTypes, AgvTypes,
             PoolTypes, ClientTypes, scanVars, agvVars, clientVars
<1>5. CASE ReAdd(w)
  BY <1>5, ReAddTypes
<1> QED  BY <1>1, <1>2, <1>3, <1>4, <1>5 DEF RunStep

LEMMA CancelTypesNext ==
    ASSUME Types, NEW w \in Slot, CancelStep(w)
    PROVE  Types'
<1>1. /\ \E from \in CancelSteps, to \in {"idle", "cancelMark", "cancelDoing",
                                          "cancelAgv", "cancelRelease"} :
            Goto(w, from, to)
      /\ UNCHANGED <<done, broken, scanVars, agvOf, nodes, index, path, runs, now,
                     last, jobs, cur, todo, clientVars>>
  <2>1. CASE CancelQueued(w)
    BY <2>1 DEF CancelQueued, CancelSteps, taskVars, agvVars
  <2>2. CASE CancelDoing(w)
    BY <2>2 DEF CancelDoing, CancelSteps, taskVars, agvVars
  <2>3. CASE CancelMark(w)
    BY <2>3 DEF CancelMark, CancelSteps, listVars, agvVars
  <2>4. CASE CancelAgv(w)
    BY <2>4 DEF CancelAgv, CancelSteps, listVars
  <2>5. CASE CancelRelease(w)
    BY <2>5 DEF CancelRelease, Return, CancelSteps, listVars
  <2> QED  BY <2>1, <2>2, <2>3, <2>4, <2>5 DEF CancelStep
<1>2. cur[w] \in Task
  BY <1>1 DEF Goto, CancelSteps, Types, SlotHasTask
<1>3. /\ pc' \in [Slot -> {"idle"} \cup HoldSteps \cup CancelSteps]
      /\ SlotHasTask' /\ HasStation'
  <2>1. PICK from \in CancelSteps, to \in {"idle", "cancelMark", "cancelDoing",
                                           "cancelAgv", "cancelRelease"} :
               Goto(w, from, to)
    BY <1>1
  <2>2. from # "idle" /\ to \notin {"wait", "moving"}
        /\ to \in {"idle"} \cup HoldSteps \cup CancelSteps
    BY DEF CancelSteps
  <2> QED  BY <1>1, <2>1, <2>2, GotoTypes DEF Types
<1>4. toDistribute' \in [0..MaxPriority -> Seq(Task)]
  <2>1. CASE CancelQueued(w)
    <3> DEFINE q == toDistribute[Priority[cur[w]]]
    <3>1. Priority[cur[w]] \in 0..MaxPriority /\ q \in Seq(Task)
      BY <1>2, TaskAssumption DEF Types, ListTypes
    <3>2. cur[w] \in RangeOf(q) => EraseAt(q, Find(q, cur[w])) \in Seq(Task)
      BY <3>1, FindFirst, EraseAtElements
    <3> QED  BY <2>1, <3>1, <3>2 DEF CancelQueued, Types, ListTypes
  <2>2. CASE ~CancelQueued(w)
    BY <2>2 DEF CancelStep, CancelDoing, CancelMark, CancelAgv, CancelRelease,
      listVars, Types, ListTypes
  <2> QED  BY <2>1, <2>2
<1>5. doing' \in Seq(Task)
  <2>1. CASE CancelDoing(w)
    <3>1. doing \in Seq(Task)
      BY DEF Types, ListTypes
    <3>2. cur[w] \in RangeOf(doing) => EraseAt(doing, Find(doing, cur[w])) \in Seq(Task)
      BY <3>1, FindFirst, EraseAtElements
    <3> QED  BY <2>1, <3>1, <3>2 DEF CancelDoing
  <2>2. CASE ~CancelDoing(w)
    BY <2>2 DEF CancelStep, CancelQueued, CancelMark, CancelAgv, CancelRelease,
      listVars, Types, ListTypes
  <2> QED  BY <2>1, <2>2
<1>6. isCancel' \in [Task -> BOOLEAN]
  <2>1. \/ UNCHANGED isCancel
        \/ \E t \in Task \cup {NoTask} : isCancel' = [isCancel EXCEPT ![t] = TRUE]
    <3>1. CASE CancelMark(w)
      BY <3>1, <1>2 DEF CancelMark
    <3>2. CASE CancelAgv(w)
      <4>1. Vehicle(w) = NoAgv \/ Vehicle(w) \in Agv
        BY <1>2 DEF Vehicle, Types, TaskTypes
      <4>2. Vehicle(w) \in Agv => currentTask[Vehicle(w)] \in Task \cup {NoTask}
        BY DEF Types, AgvTypes
      <4> QED  BY <3>2, <4>1, <4>2 DEF CancelAgv
    <3>3. CASE CancelQueued(w) \/ CancelDoing(w) \/ CancelRelease(w)
      BY <3>3 DEF CancelQueued, CancelDoing, CancelRelease, taskVars
    <3> QED  BY <3>1, <3>2, <3>3 DEF CancelStep
  <2>2. isCancel \in [Task -> BOOLEAN]
    BY DEF Types, TaskTypes
  <2> QED  BY <2>1, <2>2
<1>7. status' \in [Task -> {"unexcute", "excuting", "done", "cancel"}]
  BY DEF CancelStep, CancelQueued, CancelDoing, CancelMark, CancelAgv,
    CancelRelease, taskVars, Types, TaskTypes
<1>8. isStop' \in [Agv -> BOOLEAN]
  BY DEF CancelStep, CancelQueued, CancelDoing, CancelMark, CancelAgv,
    CancelRelease, agvVars, Types, AgvTypes
<1>9. /\ currentTask' \in [Agv -> Task \cup {NoTask}]
      /\ agvStatus' \in [Agv -> {"idle", "tasking"}]
  BY DEF CancelStep, CancelQueued, CancelDoing, CancelMark, CancelAgv,
    CancelRelease, agvVars, Types, AgvTypes
<1>10. ListTypes' /\ ClientTypes' /\ PoolTypes'
  BY <1>1, <1>3, <1>4, <1>5 DEF Types, ListTypes, ClientTypes, PoolTypes, scanVars,
    clientVars
<1>11. TaskTypes' /\ AgvTypes'
  BY <1>1, <1>6, <1>7, <1>8, <1>9 DEF Types, TaskTypes, AgvTypes
<1> QED  BY <1>3, <1>10, <1>11 DEF Types

\* Types is inductive.
LEMMA TypesNext == Types /\ [Next]_vars => Types'
<1> SUFFICES ASSUME Types, [Next]_vars PROVE Types'
  OBVIOUS
<1>1. CASE UNCHANGED vars
  BY <1>1 DEF vars, listVars, scanVars, taskVars, agvVars, poolVars, clientVars,
    Types, ListTypes, TaskTypes, AgvTypes, PoolTypes, ClientTypes, SlotHasTask,
    HasStation
<1>2. ASSUME NEW w \in Slot, Thread(w)  PROVE Types'
  BY <1>2, TakeJobTypes, ReAddTypes, RunTypesNext, CancelTypesNext DEF Thread
<1> QED  BY <1>1, <1>2, ClientTypesNext, DistributorTypesNext DEF Next

-----------------------------------------------------------------------------
(* One holder per task.  The invariant is OneHolder and the fact that a    *)
(* task nobody has created yet has no holder.                              *)

Fresh == \A t \in Task : t \notin submitted => ~Held(t) /\ t \notin RangeOf(done)
HolderInv == OneHolder /\ Fresh

\* A task is only ever in the queue of its own priority.
LEMMA QueueOfPriority ==
    ASSUME QueuesDistinct, NEW t \in Task
    PROVE  InQueue(t) <=> t \in RangeOf(toDistribute[Priority[t]])
<1>1. Priority[t] \in 0..MaxPriority
  BY TaskAssumption
<1>2. ASSUME NEW p \in 0..MaxPriority, t \in RangeOf(toDistribute[p])
      PROVE  p = Priority[t]
  BY <1>2 DEF QueuesDistinct, RangeOf
<1> QED  BY <1>1, <1>2 DEF InQueue

\* Erasing a task from its queue takes it out of all queues, and it alone.
LEMMA QueueErase ==
    ASSUME ListTypes, QueuesDistinct, NEW p \in 0..MaxPriority,
           NEW i \in DOMAIN toDistribute[p], NEW t \in Task,
           toDistribute[p][i] = t,
           toDistribute' = [toDistribute EXCEPT ![p] = EraseAt(@, i)]
    PROVE  /\ QueuesDistinct'
           /\ InQueue(t) /\ ~InQueue(t)'
           /\ \A u \in Task : u # t => (InQueue(u)' <=> InQueue(u))
<1> DEFINE q == toDistribute[p]
           e == EraseAt(q, i)
<1>1. q \in Seq(Task) /\ Distinct(q)
  BY DEF ListTypes, QueuesDistinct, Distinct
<1>2. e \in Seq(Task) /\ Distinct(e) /\ RangeOf(e) = RangeOf(q) \ {t}
  BY <1>1, EraseAtElements, EraseAtDistinct
<1>3. /\ toDistribute'[p] = e
      /\ \A r \in 0..MaxPriority : r # p => toDistribute'[r] = toDistribute[r]
  BY DEF ListTypes
<1>4. Priority[t] = p /\ t \in RangeOf(q)
  BY <1>1 DEF QueuesDistinct, RangeOf
<1>5. \A k \in DOMAIN e : Priority[e[k]] = p
  <2>1. \A x \in RangeOf(q) : Priority[x] = p
    BY DEF QueuesDistinct, RangeOf
  <2> QED  BY <2>1, <1>2 DEF RangeOf
<1> HIDE DEF e
<1>6. QueuesDistinct'
  <2>1. ASSUME NEW r \in 0..MaxPriority
        PROVE  /\ \A k, l \in DOMAIN toDistribute'[r] :
                    toDistribute'[r][k] = toDistribute'[r][l] => k = l
               /\ \A k \in DOMAIN toDistribute'[r] : Priority[toDistribute'[r][k]] = r
    <3>1. CASE r = p
      BY <3>1, <1>2, <1>3, <1>5 DEF Distinct
    <3>2. CASE r # p
      BY <3>2, <1>3 DEF QueuesDistinct
    <3> QED  BY <3>1, <3>2
  <2> QED  BY <2>1 DEF QueuesDistinct
<1>7. InQueue(t) /\ ~InQueue(t)'
  <2>1. t \notin RangeOf(toDistribute'[p])
    BY <1>2, <1>3
  <2>2. ASSUME NEW r \in 0..MaxPriority, t \in RangeOf(toDistribute'[r])
        PROVE  r = p
    BY <2>2, <1>4, <1>6 DEF QueuesDistinct, RangeOf
  <2> QED  BY <2>1, <2>2, <1>4 DEF InQueue, RangeOf
<1>8. ASSUME NEW u \in Task, u # t  PROVE InQueue(u)' <=> InQueue(u)
  <2>1. \A r \in 0..MaxPriority :
          u \in RangeOf(toDistribute'[r]) <=> u \in RangeOf(toDistribute[r])
    BY <1>2, <1>3, <1>8
  <2> QED  BY <2>1 DEF InQueue, RangeOf
<1> QED  BY <1>6, <1>7, <1>8

\* Adding a task that is in no queue puts it in one, once.
LEMMA QueueAdd ==
    ASSUME ListTypes, QueuesDistinct, NEW t \in Task, ~InQueue(t), Add(t)
    PROVE  /\ QueuesDistinct'
           /\ \A u \in Task : InQueue(u)' <=> InQueue(u) \/ u = t
<1> DEFINE p == Priority[t]
           q == toDistribute[p]
           e == Append(q, t)
<1>1. p \in 0..MaxPriority
  BY TaskAssumption
<1>2. q \in Seq(Task) /\ Distinct(q) /\ t \notin RangeOf(q)
  BY <1>1 DEF ListTypes, QueuesDistinct, Distinct, InQueue
<1>3. e \in Seq(Task) /\ Distinct(e) /\ RangeOf(e) = RangeOf(q) \cup {t}
  BY <1>2, AppendRange
<1>4. /\ toDistribute'[p] = e
      /\ \A r \in 0..MaxPriority : r # p => toDistribute'[r] = toDistribute[r]
  BY <1>1 DEF ListTypes, Add
<1>5. \A k \in DOMAIN e : Priority[e[k]] = p
  <2>1. \A x \in RangeOf(q) \cup {t} : Priority[x] = p
    BY <1>1 DEF QueuesDistinct, RangeOf
  <2> QED  BY <2>1, <1>3 DEF RangeOf
<1> HIDE DEF e
<1>6. QueuesDistinct'
  <2>1. ASSUME NEW r \in 0..MaxPriority
        PROVE  /\ \A k, l \in DOMAIN toDistribute'[r] :
                    toDistribute'[r][k] = toDistribute'[r][l] => k = l
               /\ \A k \in DOMAIN toDistribute'[r] : Priority[toDistribute'[r][k]] = r
    <3>1. CASE r = p
      BY <3>1, <1>3, <1>4, <1>5 DEF Distinct
    <3>2. CASE r # p
      BY <3>2, <1>4 DEF QueuesDistinct
    <3> QED  BY <3>1, <3>2
  <2> QED  BY <2>1 DEF QueuesDistinct
<1>7. ASSUME NEW u \in Task  PROVE InQueue(u)' <=> InQueue(u) \/ u = t
  <2>1. RangeOf(toDistribute'[p]) = RangeOf(toDistribute[p]) \cup {t}
    BY <1>3, <1>4
  <2>2. \A r \in 0..MaxPriority : r # p =>
          RangeOf(toDistribute'[r]) = RangeOf(toDistribute[r])
    BY <1>4
  <2> HIDE DEF p
  <2>3. InQueue(u)' <=> \E r \in 0..MaxPriority : u \in RangeOf(toDistribute'[r])
    BY DEF InQueue, RangeOf
  <2> QED  BY <1>1, <2>1, <2>2, <2>3 DEF InQueue
<1> QED  BY <1>6, <1>7

\* The pool's queue of jobs.  A cancel job carries nothing.
LEMMA PoolAppend ==
    ASSUME PoolTypes, PoolDistinct, NEW j \in Job, jobs' = Append(jobs, j),
           j.op # "cancel" => ~InPool(j.task)
    PROVE  /\ PoolDistinct'
           /\ \A u \in Task :
                InPool(u)' <=> InPool(u) \/ (j.op # "cancel" /\ u = j.task)
<1> PICK n \in Nat : n = Len(jobs)
  BY DEF PoolTypes
<1>1. /\ DOMAIN jobs = 1..n /\ DOMAIN jobs' = 1..(n + 1)
      /\ \A k \in 1..n : jobs'[k] = jobs[k]
      /\ jobs'[n + 1] = j
  BY DEF PoolTypes
<1>2. /\ \A k \in 1..n, u \in Task : Carries(k, u)' <=> Carries(k, u)
      /\ \A u \in Task : Carries(n + 1, u)' <=> j.op # "cancel" /\ u = j.task
  BY <1>1 DEF Carries
<1>3. \A u \in Task : InPool(u)' <=> InPool(u) \/ (j.op # "cancel" /\ u = j.task)
  BY <1>1, <1>2 DEF InPool
<1>4. PoolDistinct'
  <2> SUFFICES ASSUME NEW u \in Task, NEW k \in DOMAIN jobs', NEW l \in DOMAIN jobs',
                      Carries(k, u)', Carries(l, u)'
               PROVE  k = l
    BY DEF PoolDistinct
  <2>1. CASE k \in 1..n /\ l \in 1..n
    BY <2>1, <1>1, <1>2 DEF PoolDistinct
  <2>2. CASE k \in 1..n /\ l = n + 1
    BY <2>2, <1>1, <1>2 DEF InPool
  <2>3. CASE k = n + 1 /\ l \in 1..n
    BY <2>3, <1>1, <1>2 DEF InPool
  <2>4. CASE k = n + 1 /\ l = n + 1
    BY <2>4
  <2> QED  BY <2>1, <2>2, <2>3, <2>4, <1>1
<1> QED  BY <1>3, <1>4

LEMMA PoolTail ==
    ASSUME PoolTypes, PoolDistinct, jobs # <<>>, jobs' = Tail(jobs)
    PROVE  /\ PoolDistinct'
           /\ \A u \in Task : InPool(u)' =>
                InPool(u) /\ ~(Head(jobs).op # "cancel" /\ u = Head(jobs).task)
           /\ Head(jobs).op # "cancel" => InPool(Head(jobs).task)
<1>1. /\ jobs \in Seq(Job) /\ Len(jobs) \in Nat \ {0} /\ DOMAIN jobs = 1..Len(jobs)
      /\ Head(jobs) = jobs[1]
  BY DEF PoolTypes
<1>2. /\ DOMAIN jobs' = 1..(Len(jobs) - 1)
      /\ \A k \in 1..(Len(jobs) - 1) : jobs'[k] = jobs[k + 1]
  <2>1. /\ Tail(jobs) \in Seq(Job) /\ Len(Tail(jobs)) = Len(jobs) - 1
        /\ \A k \in 1..Len(Tail(jobs)) : Tail(jobs)[k] = jobs[k + 1]
    BY <1>1, HeadTailProperties
  <2>2. DOMAIN Tail(jobs) = 1..Len(Tail(jobs))
    BY <2>1
  <2> QED  BY <2>1, <2>2
<1>3. \A k \in 1..(Len(jobs) - 1), u \in Task :
        /\ Carries(k, u)' <=> Carries(k + 1, u)
        /\ k + 1 \in DOMAIN jobs /\ k + 1 # 1
  BY <1>1, <1>2 DEF Carries
<1>4. Head(jobs).op # "cancel" => Carries(1, Head(jobs).task)
  BY <1>1 DEF Carries
<1>5. 1 \in DOMAIN jobs
  BY <1>1
<1>6. PoolDistinct'
  <2> SUFFICES ASSUME NEW u \in Task, NEW k \in DOMAIN jobs', NEW l \in DOMAIN jobs',
                      Carries(k, u)', Carries(l, u)'
               PROVE  k = l
    BY DEF PoolDistinct
  <2>1. k + 1 = l + 1
    BY <1>2, <1>3 DEF PoolDistinct
  <2> QED  BY <2>1, <1>1, <1>2
<1>7. ASSUME NEW u \in Task, InPool(u)'
      PROVE  InPool(u) /\ ~(Head(jobs).op # "cancel" /\ u = Head(jobs).task)
  <2>1. PICK k \in DOMAIN jobs' : Carries(k, u)'
    BY <1>7 DEF InPool
  <2>2. Carries(k + 1, u) /\ k + 1 \in DOMAIN jobs /\ k + 1 # 1
    BY <2>1, <1>2, <1>3
  <2> QED  BY <2>2, <1>4, <1>5 DEF InPool, PoolDistinct
<1> QED  BY <1>4, <1>5, <1>6, <1>7 DEF InPool

\* What each step is shown to do: preserve the invariant, and not bring back
\* a task that had no holder.
NoneReturns == \A t \in Task : t \in submitted /\ ~Held(t) => ~Held(t)'
HolderStep == HolderInv' /\ NoneReturns

\* A step that moves at most one task t from holder to holder.
LEMMA HolderMove ==
    ASSUME HolderInv, NEW t \in Task,
           QueuesDistinct', PoolDistinct', SlotsDistinct', DoneDistinct',
           submitted \subseteq submitted',
           \A u \in Task \ {t} :
             /\ InQueue(u)' => InQueue(u)
             /\ InPool(u)' => InPool(u)
             /\ InSlot(u)' => InSlot(u)
             /\ u \in RangeOf(done') => u \in RangeOf(done),
           /\ InQueue(t)' => ~InPool(t)' /\ ~InSlot(t)'
           /\ InPool(t)' => ~InSlot(t)'
           /\ t \in RangeOf(done') => ~InQueue(t)' /\ ~InPool(t)' /\ ~InSlot(t)'
           /\ t \in submitted'
              \/ (~InQueue(t)' /\ ~InPool(t)' /\ ~InSlot(t)' /\ t \notin RangeOf(done')),
           \/ t \notin submitted \/ InQueue(t) \/ InPool(t) \/ InSlot(t)
           \/ ~InQueue(t)' /\ ~InPool(t)' /\ ~InSlot(t)'
    PROVE  HolderStep
<1>1. HoldersDisjoint /\ Fresh
  BY DEF HolderInv, OneHolder
<1>2. \A u \in Task :
        /\ InQueue(u)' => ~InPool(u)' /\ ~InSlot(u)'
        /\ InPool(u)' => ~InSlot(u)'
        /\ u \in RangeOf(done') => ~InQueue(u)' /\ ~InPool(u)' /\ ~InSlot(u)'
  BY <1>1 DEF HoldersDisjoint, Held
<1>3. \A u \in Task : u \notin submitted' =>
        ~InQueue(u)' /\ ~InPool(u)' /\ ~InSlot(u)' /\ u \notin RangeOf(done')
  BY <1>1 DEF Fresh, Held
<1>4. RangeOf(done)' = RangeOf(done')
  BY DEF RangeOf
<1>5. HoldersDisjoint' /\ Fresh'
  BY <1>2, <1>3, <1>4 DEF HoldersDisjoint, Fresh, Held
<1>6. NoneReturns
  BY DEF NoneReturns, Held
<1> QED  BY <1>5, <1>6 DEF HolderStep, HolderInv, OneHolder

\* A step that leaves lists and jobs alone and gives no thread a task.
LEMMA HolderFrame ==
    ASSUME HolderInv, UNCHANGED <<toDistribute, jobs, done, submitted>>,
           \A w \in Slot : pc'[w] \in HoldSteps =>
              pc[w] \in HoldSteps /\ cur'[w] = cur[w]
    PROVE  HolderStep
<1>1. QueuesDistinct' /\ PoolDistinct' /\ DoneDistinct'
  BY DEF HolderInv, OneHolder, QueuesDistinct, PoolDistinct, DoneDistinct, Carries
<1>2. \A w \in Slot, u \in Task : InHand(w, u)' => InHand(w, u)
  BY DEF InHand
<1>3. SlotsDistinct'
  BY <1>2 DEF HolderInv, OneHolder, SlotsDistinct
<1>4. \A u \in Task : /\ InQueue(u)' <=> InQueue(u)
                      /\ InPool(u)' <=> InPool(u)
                      /\ InSlot(u)' => InSlot(u)
                      /\ u \in RangeOf(done') <=> u \in RangeOf(done)
  BY <1>2 DEF InQueue, InPool, InSlot, Carries, RangeOf
<1>5. HoldersDisjoint'
  <2>1. RangeOf(done)' = RangeOf(done)
    BY DEF RangeOf
  <2> QED  BY <1>4, <2>1 DEF HolderInv, OneHolder, HoldersDisjoint, Held
<1>6. Fresh'
  <2>1. RangeOf(done)' = RangeOf(done)
    BY DEF RangeOf
  <2> QED  BY <1>4, <2>1 DEF HolderInv, Fresh, Held
<1>7. NoneReturns
  BY <1>4 DEF NoneReturns, Held
<1> QED  BY <1>1, <1>3, <1>5, <1>6, <1>7 DEF HolderStep, HolderInv, OneHolder

LEMMA HolderClient == Types /\ HolderInv /\ Client => HolderStep
<1> SUFFICES ASSUME Types, HolderInv, NEW t \in Task,
                    RequestCreate(t) \/ RequestCancel(t)
             PROVE  HolderStep
  BY DEF Client
<1>1. UNCHANGED <<toDistribute, done, pc, cur>> /\ submitted \subseteq submitted'
  BY DEF RequestCreate, RequestCancel, listVars
<1>2. QueuesDistinct' /\ SlotsDistinct' /\ DoneDistinct'
  BY <1>1 DEF HolderInv, OneHolder, QueuesDistinct, SlotsDistinct, DoneDistinct, InHand
<1>3. \A u \in Task : /\ InQueue(u)' <=> InQueue(u)
                      /\ InSlot(u)' <=> InSlot(u)
                      /\ u \in RangeOf(done') <=> u \in RangeOf(done)
  BY <1>1 DEF InQueue, InSlot, InHand, RangeOf
<1>4. PoolTypes /\ PoolDistinct /\ HoldersDisjoint /\ Fresh
  BY DEF Types, HolderInv, OneHolder
<1>5. CASE RequestCreate(t)
  <2>1. ~InQueue(t) /\ ~InPool(t) /\ ~InSlot(t) /\ t \notin RangeOf(done)
    BY <1>4, <1>5 DEF RequestCreate, Fresh, Held
  <2>2. /\ [op |-> "create", task |-> t] \in Job
        /\ [op |-> "create", task |-> t].op = "create"
        /\ [op |-> "create", task |-> t].task = t
    BY DEF Job
  <2>3. PoolDistinct' /\ \A u \in Task : InPool(u)' <=> InPool(u) \/ u = t
    BY <1>4, <1>5, <2>1, <2>2, PoolAppend DEF RequestCreate
  <2>4. t \in submitted' /\ t \notin submitted
    BY <1>5 DEF RequestCreate
  <2> QED  BY <1>1, <1>2, <1>3, <2>1, <2>3, <2>4, HolderMove
<1>6. CASE RequestCancel(t)
  <2>1. /\ [op |-> "cancel", task |-> t] \in Job
        /\ [op |-> "cancel", task |-> t].op = "cancel"
    BY DEF Job
  <2>2. PoolDistinct' /\ \A u \in Task : InPool(u)' <=> InPool(u)
    BY <1>4, <1>6, <2>1, PoolAppend DEF RequestCancel
  <2>3. t \in submitted'
    BY <1>6 DEF RequestCancel, HasId
  <2> QED  BY <1>1, <1>2, <1>3, <1>4, <2>2, <2>3, HolderMove DEF HoldersDisjoint, Held
<1> QED  BY <1>5, <1>6

LEMMA HolderTakeJob ==
    ASSUME Types, HolderInv, NEW w \in Slot, TakeJob(w)
    PROVE  HolderStep
<1> DEFINE j == Head(jobs)
<1>1. PoolTypes /\ PoolDistinct /\ SlotsDistinct /\ HoldersDisjoint /\ Fresh
  BY DEF Types, HolderInv, OneHolder
<1>2. /\ jobs # <<>> /\ jobs' = Tail(jobs) /\ pc[w] = "idle"
      /\ UNCHANGED <<toDistribute, done, submitted>>
  BY DEF TakeJob, listVars, clientVars
<1>3. j \in Job /\ j.op \in {"create", "run", "cancel"} /\ j.task \in Task
  <2>1. j \in Job
    BY <1>1, <1>2, HeadTailProperties DEF PoolTypes
  <2> QED  BY <2>1 DEF Job
<1>4. /\ PoolDistinct'
      /\ \A u \in Task : InPool(u)' => InPool(u) /\ ~(j.op # "cancel" /\ u = j.task)
      /\ j.op # "cancel" => InPool(j.task)
  BY <1>1, <1>2, PoolTail
<1>5. PICK t \in Task : t = j.task
  BY <1>3
<1>6. /\ pc'[w] \in HoldSteps <=> j.op # "cancel"
      /\ cur'[w] = t
      /\ \A v \in Slot \ {w} : pc'[v] = pc[v] /\ cur'[v] = cur[v]
  <2>1. /\ pc'[w] = FirstStep(j.op) /\ cur'[w] = t
        /\ \A v \in Slot \ {w} : pc'[v] = pc[v] /\ cur'[v] = cur[v]
    BY <1>1, <1>5 DEF TakeJob, PoolTypes
  <2> QED  BY <2>1, <1>3 DEF FirstStep, HoldSteps, RunSteps
<1> HIDE DEF j
<1>7. /\ \A u \in Task : InHand(w, u)' <=> j.op # "cancel" /\ u = t
      /\ \A v \in Slot \ {w}, u \in Task : InHand(v, u)' <=> InHand(v, u)
  BY <1>6 DEF InHand
<1>8. \A u \in Task \ {t} : InSlot(u)' => InSlot(u)
  BY <1>7 DEF InSlot
<1>9. j.op = "cancel" => (InSlot(t)' => InSlot(t))
  BY <1>7 DEF InSlot
<1>10. j.op # "cancel" => ~InSlot(t) /\ ~InQueue(t) /\ t \notin RangeOf(done)
  BY <1>1, <1>4, <1>5 DEF HoldersDisjoint, Held
<1>11. SlotsDistinct'
  <2> SUFFICES ASSUME NEW u \in Task, NEW v \in Slot, NEW x \in Slot,
                      InHand(v, u)', InHand(x, u)'
               PROVE  v = x
    BY DEF SlotsDistinct
  <2>1. CASE v # w /\ x # w
    BY <2>1, <1>1, <1>7 DEF SlotsDistinct
  <2>2. CASE (v = w /\ x # w) \/ (v # w /\ x = w)
    BY <2>2, <1>7, <1>10 DEF InSlot
  <2> QED  BY <2>1, <2>2
<1>12. \A u \in Task : /\ InQueue(u)' <=> InQueue(u)
                       /\ u \in RangeOf(done') <=> u \in RangeOf(done)
  BY <1>2 DEF InQueue, RangeOf
<1>13. QueuesDistinct' /\ DoneDistinct'
  BY <1>2 DEF HolderInv, OneHolder, QueuesDistinct, DoneDistinct
<1>14. InPool(t)' => InPool(t) /\ j.op = "cancel"
  BY <1>4, <1>5
<1>15. t \in submitted
       \/ (~InQueue(t)' /\ ~InPool(t)' /\ ~InSlot(t)' /\ t \notin RangeOf(done'))
  <2>1. CASE t \notin submitted
    BY <2>1, <1>1, <1>4, <1>5, <1>9, <1>12, <1>14 DEF Fresh, Held
  <2> QED  BY <2>1
<1>16. /\ InQueue(t)' => ~InPool(t)' /\ ~InSlot(t)'
       /\ InPool(t)' => ~InSlot(t)'
       /\ t \in RangeOf(done') => ~InQueue(t)' /\ ~InPool(t)' /\ ~InSlot(t)'
  BY <1>1, <1>9, <1>10, <1>12, <1>14 DEF HoldersDisjoint, Held
<1>17. \/ InPool(t) \/ InQueue(t) \/ InSlot(t)
       \/ ~InQueue(t)' /\ ~InPool(t)' /\ ~InSlot(t)'
  BY <1>4, <1>5, <1>9, <1>12
<1> QED  BY <1>2, <1>4, <1>8, <1>11, <1>12, <1>13, <1>15, <1>16, <1>17, HolderMove

LEMMA HolderAdd ==
    ASSUME Types, HolderInv, NEW w \in Slot, AddNew(w) \/ ReAdd(w)
    PROVE  HolderStep
<1>1. /\ pc[w] \in {"add", "readd"} /\ pc' = [pc EXCEPT ![w] = "idle"]
      /\ Add(cur[w]) /\ UNCHANGED <<jobs, cur, done, submitted>>
  BY DEF AddNew, ReAdd, Goto, Add, clientVars
<1>2. PICK t \in Task : t = cur[w]
  BY <1>1 DEF Types, SlotHasTask
<1>3. ListTypes /\ PoolTypes /\ QueuesDistinct /\ SlotsDistinct /\ HoldersDisjoint /\ Fresh
  BY DEF Types, HolderInv, OneHolder
<1>4. InHand(w, t) /\ InSlot(t)
  BY <1>1, <1>2 DEF InHand, InSlot, HoldSteps
<1>5. ~InQueue(t) /\ ~InPool(t) /\ t \notin RangeOf(done) /\ t \in submitted
  BY <1>3, <1>4 DEF HoldersDisjoint, Fresh, Held
<1>6. QueuesDistinct' /\ \A u \in Task : InQueue(u)' <=> InQueue(u) \/ u = t
  BY <1>1, <1>2, <1>3, <1>5, QueueAdd
<1>7. /\ \A u \in Task : ~InHand(w, u)'
      /\ \A v \in Slot \ {w}, u \in Task : InHand(v, u)' <=> InHand(v, u)
  <2>1. pc'[w] = "idle" /\ \A v \in Slot \ {w} : pc'[v] = pc[v]
    BY <1>1, <1>3 DEF PoolTypes
  <2> QED  BY <1>1, <2>1 DEF InHand, HoldSteps, RunSteps
<1>8. SlotsDistinct' /\ ~InSlot(t)' /\ \A u \in Task : InSlot(u)' => InSlot(u)
  BY <1>3, <1>4, <1>7 DEF SlotsDistinct, InSlot
<1>9. \A u \in Task : /\ InPool(u)' <=> InPool(u)
                      /\ u \in RangeOf(done') <=> u \in RangeOf(done)
  BY <1>1 DEF InPool, Carries, RangeOf
<1>10. PoolDistinct' /\ DoneDistinct'
  BY <1>1 DEF HolderInv, OneHolder, PoolDistinct, DoneDistinct, Carries
<1> QED  BY <1>1, <1>4, <1>5, <1>6, <1>8, <1>9, <1>10, HolderMove

LEMMA HolderFinish ==
    ASSUME Types, HolderInv, NEW t \in Task, Finish(t)
    PROVE  HolderStep
<1>1. /\ At(t) /\ EraseScanned /\ done' = Append(done, t)
      /\ UNCHANGED <<jobs, pc, cur, submitted>>
  BY DEF Finish, poolVars, clientVars
<1>2. ListTypes /\ QueuesDistinct /\ HoldersDisjoint /\ Fresh /\ DoneDistinct
  BY DEF Types, HolderInv, OneHolder
<1>3. scanPrio \in 0..MaxPriority /\ done \in Seq(Task)
  BY <1>2 DEF ListTypes
<1>4. /\ QueuesDistinct' /\ InQueue(t) /\ ~InQueue(t)'
      /\ \A u \in Task : u # t => (InQueue(u)' <=> InQueue(u))
  BY <1>1, <1>2, <1>3, QueueErase DEF At, EraseScanned
<1>5. ~InPool(t) /\ ~InSlot(t) /\ t \notin RangeOf(done) /\ t \in submitted
  BY <1>2, <1>4 DEF HoldersDisjoint, Fresh, Held
<1>6. RangeOf(done') = RangeOf(done) \cup {t} /\ DoneDistinct'
  BY <1>1, <1>2, <1>3, <1>5, AppendRange DEF DoneDistinct, Distinct
<1>7. \A u \in Task : (InPool(u)' <=> InPool(u)) /\ (InSlot(u)' <=> InSlot(u))
  BY <1>1 DEF InPool, Carries, InSlot, InHand
<1>8. PoolDistinct' /\ SlotsDistinct'
  BY <1>1 DEF HolderInv, OneHolder, PoolDistinct, SlotsDistinct, Carries, InHand
<1> QED  BY <1>1, <1>4, <1>5, <1>6, <1>7, <1>8, HolderMove

LEMMA HolderExcute ==
    ASSUME Types, HolderInv, NEW t \in Task, At(t), EraseScanned, Excute(t),
           UNCHANGED submitted
    PROVE  HolderStep
<1> DEFINE j == [op |-> "run", task |-> t]
<1>1. j \in Job /\ j.op = "run" /\ j.task = t
  BY DEF Job
<1>2. jobs' = Append(jobs, j) /\ UNCHANGED <<done, pc, cur>>
  BY DEF Excute
<1>3. ListTypes /\ PoolTypes /\ QueuesDistinct /\ PoolDistinct /\ HoldersDisjoint /\ Fresh
  BY DEF Types, HolderInv, OneHolder
<1>4. scanPrio \in 0..MaxPriority
  BY <1>3 DEF ListTypes
<1>5. /\ QueuesDistinct' /\ InQueue(t) /\ ~InQueue(t)'
      /\ \A u \in Task : u # t => (InQueue(u)' <=> InQueue(u))
  BY <1>3, <1>4, QueueErase DEF At, EraseScanned
<1>6. ~InPool(t) /\ ~InSlot(t) /\ t \notin RangeOf(done) /\ t \in submitted
  BY <1>3, <1>5 DEF HoldersDisjoint, Fresh, Held
<1> HIDE DEF j
<1>7. PoolDistinct' /\ \A u \in Task : InPool(u)' <=> InPool(u) \/ u = t
  BY <1>1, <1>2, <1>3, <1>6, PoolAppend
<1>8. \A u \in Task : /\ InSlot(u)' <=> InSlot(u)
                      /\ u \in RangeOf(done') <=> u \in RangeOf(done)
  BY <1>2 DEF InSlot, InHand, RangeOf
<1>9. SlotsDistinct' /\ DoneDistinct'
  BY <1>2 DEF HolderInv, OneHolder, SlotsDistinct, DoneDistinct, InHand
<1> QED  BY <1>5, <1>6, <1>7, <1>8, <1>9, HolderMove

LEMMA HolderDistributor == Types /\ HolderInv /\ Distributor => HolderStep
<1> SUFFICES ASSUME Types, HolderInv, Distributor PROVE HolderStep
  OBVIOUS
<1>1. CASE ScanStart \/ ScanNext
  BY <1>1, HolderFrame DEF ScanStart, ScanNext, listVars, poolVars, clientVars
<1>2. ASSUME NEW t \in Task, DistributeTask(t)  PROVE HolderStep
  <2>1. CASE Finish(t)
    BY <2>1, HolderFinish
  <2>2. CASE RunAgain(t) \/ Postpone(t)
    BY <2>2, HolderFrame DEF RunAgain, Postpone, listVars, poolVars, clientVars
  <2>3. CASE ExcuteInPlace(t)
    BY <2>3, HolderExcute DEF ExcuteInPlace, clientVars
  <2>4. CASE Continue(t)
    BY <2>4, HolderExcute DEF Continue, Take, clientVars
  <2>5. ASSUME NEW a \in Agv, AssignIdle(t, a)  PROVE HolderStep
    BY <2>5, HolderExcute DEF AssignIdle, Take, clientVars
  <2>6. ASSUME NEW a \in Agv, NEW h \in Halt, AssignHalt(t, a, h)  PROVE HolderStep
    BY <2>6, HolderExcute DEF AssignHalt, Take, clientVars
  <2>7. ASSUME NEW h \in Halt, ContinueHalt(t, h)  PROVE HolderStep
    BY <2>7, HolderExcute DEF ContinueHalt, Take, clientVars
  <2> QED  BY <1>2, <2>1, <2>2, <2>3, <2>4, <2>5, <2>6, <2>7 DEF DistributeTask
<1> QED  BY <1>1, <1>2 DEF Distributor

\* The steps of a run job but the last only move the thread's pc, and the
\* same holds of a cancel job but its first.
LEMMA HolderRunStep ==
    ASSUME Types, HolderInv, NEW w \in Slot, RunStep(w), ~ReAdd(w)
    PROVE  HolderStep
<1>1. UNCHANGED <<toDistribute, jobs, done, submitted, cur>>
  BY DEF RunStep, Start, Drive, GiveUp, Depart, Arrive, DoThings, Advance,
    EraseDoing, listVars, clientVars
<1>2. pc[w] \in HoldSteps
  BY DEF RunStep, Start, Drive, GiveUp, Depart, Arrive, DoThings, Advance,
    EraseDoing, ReAdd, Goto, HoldSteps, RunSteps
<1>3. \A v \in Slot \ {w} : pc'[v] = pc[v]
  BY DEF RunStep, Start, Drive, GiveUp, Depart, Arrive, DoThings, Advance,
    EraseDoing, EndStation, Goto, Types, PoolTypes
<1> QED  BY <1>1, <1>2, <1>3, HolderFrame

LEMMA HolderCancelStep ==
    ASSUME Types, HolderInv, NEW w \in Slot, CancelStep(w)
    PROVE  HolderStep
<1>1. /\ UNCHANGED <<jobs, cur, done, submitted>>
      /\ \A v \in Slot : pc'[v] \in HoldSteps <=> pc[v] \in HoldSteps
  <2>1. UNCHANGED <<jobs, cur, done, submitted>>
    BY DEF CancelStep, CancelQueued, CancelDoing, CancelMark, CancelAgv,
      CancelRelease, listVars, clientVars
  <2>2. \E to \in {"idle", "cancelMark", "cancelDoing", "cancelAgv", "cancelRelease"} :
           pc[w] \in CancelSteps /\ pc' = [pc EXCEPT ![w] = to]
    BY DEF CancelStep, CancelQueued, CancelDoing, CancelMark, CancelAgv,
      CancelRelease, Return, Goto, CancelSteps
  <2> QED  BY <2>1, <2>2 DEF Types, PoolTypes, HoldSteps, RunSteps, CancelSteps
<1>2. CASE CancelQueued(w) /\ cur[w] \in RangeOf(toDistribute[Priority[cur[w]]])
  <2>1. PICK t \in Task : t = cur[w]
    BY <1>2 DEF CancelQueued, Goto, Types, SlotHasTask
  <2> DEFINE p == Priority[t]
             i == Find(toDistribute[p], t)
  <2>2. p \in 0..MaxPriority
    BY TaskAssumption
  <2>3. ListTypes /\ QueuesDistinct /\ HoldersDisjoint /\ Fresh
    BY DEF Types, HolderInv, OneHolder
  <2>4. i \in DOMAIN toDistribute[p] /\ toDistribute[p][i] = t
    BY <1>2, <2>1, <2>2, <2>3, FindFirst DEF ListTypes
  <2>5. toDistribute' = [toDistribute EXCEPT ![p] = EraseAt(@, i)]
    BY <1>2, <2>1 DEF CancelQueued
  <2> HIDE DEF p, i
  <2>6. /\ QueuesDistinct' /\ InQueue(t) /\ ~InQueue(t)'
        /\ \A u \in Task : u # t => (InQueue(u)' <=> InQueue(u))
    BY <2>2, <2>3, <2>4, <2>5, QueueErase
  <2>7. ~InPool(t) /\ ~InSlot(t) /\ t \notin RangeOf(done) /\ t \in submitted
    BY <2>3, <2>6 DEF HoldersDisjoint, Fresh, Held
  <2>8. \A u \in Task : /\ InPool(u)' <=> InPool(u)
                        /\ InSlot(u)' <=> InSlot(u)
                        /\ u \in RangeOf(done') <=> u \in RangeOf(done)
    BY <1>1 DEF InPool, Carries, InSlot, InHand, RangeOf
  <2>9. PoolDistinct' /\ SlotsDistinct' /\ DoneDistinct'
    BY <1>1 DEF HolderInv, OneHolder, PoolDistinct, SlotsDistinct, DoneDistinct,
      Carries, InHand
  <2> QED  BY <1>1, <2>6, <2>7, <2>8, <2>9, HolderMove
<1>3. CASE ~(CancelQueued(w) /\ cur[w] \in RangeOf(toDistribute[Priority[cur[w]]]))
  <2>1. UNCHANGED toDistribute
    BY <1>3 DEF CancelStep, CancelQueued, CancelDoing, CancelMark, CancelAgv,
      CancelRelease, listVars
  <2> QED  BY <1>1, <2>1, HolderFrame
<1> QED  BY <1>2, <1>3

LEMMA HolderInit == Init => HolderInv
<1> SUFFICES ASSUME Init PROVE HolderInv
  OBVIOUS
<1>1. \A t \in Task : ~InQueue(t) /\ ~InPool(t) /\ ~InSlot(t) /\ t \notin RangeOf(done)
  BY DEF Init, InQueue, InPool, InSlot, InHand, RangeOf, HoldSteps, RunSteps
<1>2. QueuesDistinct /\ PoolDistinct /\ DoneDistinct
  BY DEF Init, QueuesDistinct, PoolDistinct, DoneDistinct
<1>3. SlotsDistinct
  BY <1>1 DEF SlotsDistinct, InSlot
<1> QED  BY <1>1, <1>2, <1>3 DEF HolderInv, OneHolder, HoldersDisjoint, Fresh, Held

LEMMA HolderNext == Types /\ HolderInv /\ [Next]_vars => HolderStep
<1> SUFFICES ASSUME Types, HolderInv, [Next]_vars PROVE HolderStep
  OBVIOUS
<1>1. CASE UNCHANGED vars
  BY <1>1, HolderFrame DEF vars, listVars, poolVars, clientVars
<1>2. ASSUME NEW w \in Slot, Thread(w)  PROVE HolderStep
  BY <1>2, HolderTakeJob, HolderAdd, HolderRunStep, HolderCancelStep DEF Thread
<1> QED  BY <1>1, <1>2, HolderClient, HolderDistributor DEF Next

\* A task has at most one holder, for any number of tasks, vehicles and
\* threads and whatever is cancelled at whatever moment
\* (taskmanager.cpp:353-408, 504-690).
THEOREM OneHolderAlways == Spec => []OneHolder
<1>1. Init => Types /\ HolderInv
  BY InitTypes, HolderInit
<1>2. Types /\ HolderInv /\ [Next]_vars => (Types /\ HolderInv)'
  BY TypesNext, HolderNext DEF HolderStep
<1>3. Types /\ HolderInv => OneHolder
  BY DEF HolderInv
<1> QED  BY <1>1, <1>2, <1>3, PTL DEF Spec

\* A created task that nobody holds is never held again: it is done, or it was
\* cancelled while it waited (taskmanager.cpp:366, 517, 569-591).
THEOREM GoneForGoodAlways == Spec => GoneForGood
<1>1. Init => Types /\ HolderInv
  BY InitTypes, HolderInit
<1>2. Types /\ HolderInv /\ [Next]_vars => (Types /\ HolderInv)'
  BY TypesNext, HolderNext DEF HolderStep
<1>3. Types /\ HolderInv /\ [Next]_vars
        => [\A t \in submitted : ~Held(t) => ~Held(t)']_vars
  <2> SUFFICES ASSUME Types, HolderInv, [Next]_vars, NEW t \in submitted, ~Held(t)
               PROVE  ~Held(t)'
    OBVIOUS
  <2>1. t \in Task
    BY DEF Types, ClientTypes
  <2> QED  BY <2>1, HolderNext DEF HolderStep, NoneReturns
<1> QED  BY <1>1, <1>2, <1>3, PTL DEF Spec, GoneForGood

-----------------------------------------------------------------------------
(* Execution.  A task that is being executed has a vehicle and a node      *)
(* left: this needs OneHolder, for the index of a task is written by the   *)
(* distributor and by whichever thread executes it.                        *)

Early == RunSteps \ {"erase"}
RunJob(t) == \E i \in DOMAIN jobs : jobs[i].op = "run" /\ jobs[i].task = t
Executing(t) == RunJob(t) \/ \E w \in Slot : pc[w] \in Early /\ cur[w] = t
ExecInv == \A t \in Task : Executing(t) => agvOf[t] # NoAgv /\ ~Completed(t)

\* Who executes a task holds it.
LEMMA ExecutingHeld ==
    ASSUME NEW t \in Task, Executing(t)
    PROVE  InPool(t) \/ InSlot(t)
BY DEF Executing, RunJob, InPool, Carries, InSlot, InHand, Early, HoldSteps

\* A step that starts no execution and changes no index or list of nodes.
LEMMA ExecFrame ==
    ASSUME ExecInv, UNCHANGED <<index, nodes>>,
           \A t \in Task : Executing(t)' => Executing(t),
           \A t \in Task : agvOf[t] # NoAgv => agvOf'[t] # NoAgv
    PROVE  ExecInv'
BY DEF ExecInv, Completed

LEMMA ExecClient == Types /\ ExecInv /\ Client => ExecInv'
<1> SUFFICES ASSUME Types, ExecInv, NEW t \in Task,
                    RequestCreate(t) \/ RequestCancel(t)
             PROVE  ExecInv'
  BY DEF Client
<1>1. UNCHANGED <<index, nodes, agvOf, pc, cur>>
  BY DEF RequestCreate, RequestCancel, taskVars
<1>2. PICK op \in {"create", "cancel"} : jobs' = Append(jobs, [op |-> op, task |-> t])
  BY DEF RequestCreate, RequestCancel
<1>3. /\ DOMAIN jobs' = DOMAIN jobs \cup {Len(jobs) + 1}
      /\ \A i \in DOMAIN jobs : jobs'[i] = jobs[i]
      /\ jobs'[Len(jobs) + 1].op # "run"
  <2>1. jobs \in Seq(Job) /\ [op |-> op, task |-> t] \in Job
    BY <1>2 DEF Types, PoolTypes, Job
  <2> QED  BY <1>2, <2>1
<1>4. \A u \in Task : RunJob(u)' => RunJob(u)
  BY <1>3 DEF RunJob
<1> QED  BY <1>1, <1>4, ExecFrame DEF Executing

LEMMA ExecTakeJob ==
    ASSUME Types, ExecInv, NEW w \in Slot, TakeJob(w)
    PROVE  ExecInv'
<1>1. UNCHANGED <<index, nodes, agvOf>>
  BY DEF TakeJob, taskVars
<1>2. jobs \in Seq(Job) /\ jobs # <<>> /\ jobs' = Tail(jobs)
  BY DEF TakeJob, Types, PoolTypes
<1>3. \A i \in DOMAIN jobs' : i + 1 \in DOMAIN jobs /\ jobs'[i] = jobs[i + 1]
  <2>1. /\ Tail(jobs) \in Seq(Job) /\ Len(Tail(jobs)) = Len(jobs) - 1
        /\ \A k \in 1..Len(Tail(jobs)) : Tail(jobs)[k] = jobs[k + 1]
    BY <1>2, HeadTailProperties
  <2>2. DOMAIN Tail(jobs) = 1..(Len(jobs) - 1) /\ DOMAIN jobs = 1..Len(jobs)
    BY <1>2, <2>1
  <2> QED  BY <1>2, <2>1, <2>2
<1>4. \A u \in Task : RunJob(u)' => RunJob(u)
  BY <1>3 DEF RunJob
<1>5. 1 \in DOMAIN jobs /\ Head(jobs) = jobs[1] /\ Head(jobs) \in Job
  BY <1>2
<1>6. /\ pc'[w] = FirstStep(jobs[1].op) /\ cur'[w] = jobs[1].task
      /\ \A v \in Slot \ {w} : pc'[v] = pc[v] /\ cur'[v] = cur[v]
  BY <1>5 DEF TakeJob, Types, PoolTypes
<1>7. jobs[1].op \in {"create", "run", "cancel"}
  BY <1>5 DEF Job
<1>8. pc'[w] \in Early => RunJob(cur'[w])
  BY <1>5, <1>6, <1>7 DEF FirstStep, Early, RunSteps, RunJob
<1>9. \A u \in Task : Executing(u)' => Executing(u)
  BY <1>4, <1>6, <1>8 DEF Executing
<1> QED  BY <1>1, <1>9, ExecFrame

\* A step of excuteTask, which makes t the only task that starts to execute.
LEMMA ExecExcute ==
    ASSUME Types, ExecInv, NEW t \in Task, Excute(t), UNCHANGED index,
           agvOf'[t] # NoAgv, ~(index[t] >= Len(nodes'[t])),
           \A u \in Task \ {t} : agvOf'[u] = agvOf[u] /\ nodes'[u] = nodes[u]
    PROVE  ExecInv'
<1>1. /\ DOMAIN jobs' = DOMAIN jobs \cup {Len(jobs) + 1}
      /\ \A i \in DOMAIN jobs : jobs'[i] = jobs[i]
      /\ jobs'[Len(jobs) + 1].task = t
  <2>1. jobs \in Seq(Job) /\ [op |-> "run", task |-> t] \in Job
    BY DEF Types, PoolTypes, Job
  <2> QED  BY <2>1 DEF Excute
<1>2. \A u \in Task \ {t} : RunJob(u)' => RunJob(u)
  BY <1>1 DEF RunJob
<1>3. \A u \in Task \ {t} : Executing(u)' => Executing(u)
  BY <1>2 DEF Executing, Excute
<1> QED  BY <1>3 DEF ExecInv, Completed

LEMMA ExecDistributor == Types /\ HolderInv /\ ExecInv /\ Distributor => ExecInv'
<1> SUFFICES ASSUME Types, HolderInv, ExecInv, Distributor PROVE ExecInv'
  OBVIOUS
<1>1. CASE ScanStart \/ ScanNext
  BY <1>1, ExecFrame DEF ScanStart, ScanNext, taskVars, poolVars, Executing, RunJob
<1>2. ASSUME NEW t \in Task, DistributeTask(t)  PROVE ExecInv'
  <2>1. CASE Finish(t) \/ Postpone(t)
    BY <2>1, ExecFrame DEF Finish, Postpone, taskVars, poolVars, Executing, RunJob
  <2>2. CASE RunAgain(t)
    <3>1. ~Executing(t)
      <4>1. InQueue(t)
        BY <2>2 DEF RunAgain, At, InQueue, RangeOf, Types, ListTypes
      <4> QED  BY <4>1, ExecutingHeld DEF HolderInv, OneHolder, HoldersDisjoint
    <3>2. UNCHANGED <<agvOf, nodes, jobs, pc, cur>>
      BY <2>2 DEF RunAgain, poolVars
    <3>3. \A u \in Task \ {t} : index'[u] = index[u]
      BY <2>2 DEF RunAgain, Restart, Types, TaskTypes
    <3>4. \A u \in Task : Executing(u)' <=> Executing(u)
      BY <3>2 DEF Executing, RunJob
    <3> QED  BY <3>1, <3>2, <3>3, <3>4 DEF ExecInv, Completed
  <2>3. CASE ExcuteInPlace(t)
    BY <2>3, ExecExcute DEF ExcuteInPlace, taskVars, Completed
  <2>4. ASSUME NEW a \in Agv, NEW r, Take(t, a, r), ~Completed(t),
               UNCHANGED nodes \/ \E h \in Halt : PushHalt(t, h)
        PROVE  ExecInv'
    <3>1. Excute(t) /\ UNCHANGED index /\ agvOf' = [agvOf EXCEPT ![t] = a]
      BY <2>4 DEF Take, SetAgv
    <3>2. agvOf'[t] # NoAgv /\ \A u \in Task \ {t} : agvOf'[u] = agvOf[u]
      BY <3>1, AgvAssumption DEF Types, TaskTypes
    <3>3. nodes[t] \in Seq(Node) /\ index[t] \in Nat
      BY DEF Types, TaskTypes
    <3>4. /\ ~(index[t] >= Len(nodes'[t]))
          /\ \A u \in Task \ {t} : nodes'[u] = nodes[u]
      <4>1. CASE UNCHANGED nodes
        BY <2>4, <4>1 DEF Completed
      <4>2. ASSUME NEW h \in Halt, PushHalt(t, h)
            PROVE  /\ Len(nodes'[t]) = Len(nodes[t]) + 1
                   /\ \A u \in Task \ {t} : nodes'[u] = nodes[u]
        <5>1. nodes'[t] = <<[station |-> h, id |-> 0]>> \o nodes[t]
              /\ \A u \in Task \ {t} : nodes'[u] = nodes[u]
          BY <4>2 DEF PushHalt, Types, TaskTypes
        <5>2. <<[station |-> h, id |-> 0]>> \in Seq(Node)
          BY StationAssumption DEF Node, Aim
        <5> QED  BY <3>3, <5>1, <5>2, ConcatProperties
      <4>3. Len(nodes[t]) \in Nat
        BY <3>3
      <4> QED  BY <2>4, <3>3, <4>1, <4>2, <4>3 DEF Completed
    <3> QED  BY <3>1, <3>2, <3>4, ExecExcute
  <2>5. CASE Continue(t)
    BY <2>5, <2>4 DEF Continue, OwnAgv, Types, TaskTypes
  <2>6. ASSUME NEW a \in Agv, AssignIdle(t, a)  PROVE ExecInv'
    BY <2>6, <2>4 DEF AssignIdle
  <2>7. ASSUME NEW a \in Agv, NEW h \in Halt, AssignHalt(t, a, h)  PROVE ExecInv'
    BY <2>7, <2>4 DEF AssignHalt
  <2>8. ASSUME NEW h \in Halt, ContinueHalt(t, h)  PROVE ExecInv'
    <3>1. agvOf[t] \in Agv
      BY <2>8 DEF ContinueHalt, OwnAgv, Types, TaskTypes
    <3> QED  BY <3>1, <2>8, <2>4 DEF ContinueHalt
  <2> QED  BY <1>2, <2>1, <2>2, <2>3, <2>5, <2>6, <2>7, <2>8 DEF DistributeTask
<1> QED  BY <1>1, <1>2 DEF Distributor

LEMMA ExecThread ==
    ASSUME Types, HolderInv, ExecInv, NEW w \in Slot, Thread(w)
    PROVE  ExecInv'
<1>1. CASE TakeJob(w)
  BY <1>1, ExecTakeJob
<1>2. CASE Advance(w)
  <2>1. pc[w] = "advance" /\ pc'[w] \in {"erase", "idle"}
        /\ \A v \in Slot \ {w} : pc'[v] = pc[v]
    BY <1>2 DEF Advance, Goto, Types, PoolTypes
  <2>2. PICK t \in Task : t = cur[w]
    BY <2>1 DEF Types, SlotHasTask
  <2>3. UNCHANGED <<jobs, cur, agvOf, nodes>>
        /\ \A u \in Task \ {t} : index'[u] = index[u]
    BY <1>2, <2>2 DEF Advance, Types, TaskTypes
  <2>4. InHand(w, t)
    BY <2>1, <2>2 DEF InHand, HoldSteps, RunSteps
  <2>5. ~InPool(t) /\ \A v \in Slot \ {w} : ~InHand(v, t)
    BY <2>4 DEF HolderInv, OneHolder, HoldersDisjoint, SlotsDistinct, InSlot
  <2>6. ~Executing(t)'
    <3>1. ~RunJob(t)'
      BY <2>3, <2>5 DEF RunJob, InPool, Carries
    <3>2. \A v \in Slot \ {w} : ~(pc'[v] \in Early /\ cur'[v] = t)
      BY <2>1, <2>3, <2>5 DEF InHand, Early, HoldSteps
    <3>3. pc'[w] \notin Early
      BY <2>1 DEF Early, RunSteps
    <3> QED  BY <3>1, <3>2, <3>3 DEF Executing
  <2>7. \A u \in Task : Executing(u)' => Executing(u)
    <3>1. pc'[w] \notin Early
      BY <2>1 DEF Early, RunSteps
    <3>2. \A v \in Slot : pc'[v] \in Early => pc[v] \in Early
      BY <2>1, <3>1
    <3> QED  BY <2>3, <3>2 DEF Executing, RunJob
  <2> QED  BY <2>3, <2>6, <2>7 DEF ExecInv, Completed
<1>3. CASE ~TakeJob(w) /\ ~Advance(w)
  <2>1. UNCHANGED <<jobs, cur, agvOf, nodes, index>>
    BY <1>3 DEF Thread, AddNew, RunStep, Start, Drive, GiveUp, Depart, Arrive,
      DoThings, EraseDoing, ReAdd, CancelStep, CancelQueued, CancelDoing,
      CancelMark, CancelAgv, CancelRelease, taskVars
  <2>2. pc'[w] \in Early => pc[w] \in Early
    BY <1>3 DEF Thread, AddNew, RunStep, Start, Drive, GiveUp, Depart, Arrive,
      DoThings, EraseDoing, ReAdd, CancelStep, CancelQueued, CancelDoing,
      CancelMark, CancelAgv, CancelRelease, Return, EndStation, Goto, Early,
      RunSteps, Types, PoolTypes
  <2>3. \A v \in Slot \ {w} : pc'[v] = pc[v]
    BY <1>3 DEF Thread, AddNew, RunStep, Start, Drive, GiveUp, Depart, Arrive,
      DoThings, EraseDoing, ReAdd, CancelStep, CancelQueued, CancelDoing,
      CancelMark, CancelAgv, CancelRelease, EndStation, Goto, Types, PoolTypes
  <2>4. \A u \in Task : Executing(u)' => Executing(u)
    BY <2>1, <2>2, <2>3 DEF Executing, RunJob
  <2> QED  BY <2>1, <2>4, ExecFrame
<1> QED  BY <1>1, <1>2, <1>3

LEMMA ExecInit == Init => ExecInv
BY DEF Init, ExecInv, Executing, RunJob, Early, RunSteps

LEMMA ExecNext == Types /\ HolderInv /\ ExecInv /\ [Next]_vars => ExecInv'
<1> SUFFICES ASSUME Types, HolderInv, ExecInv, [Next]_vars PROVE ExecInv'
  OBVIOUS
<1>1. CASE UNCHANGED vars
  BY <1>1, ExecFrame DEF vars, taskVars, poolVars, Executing, RunJob
<1> QED  BY <1>1, ExecClient, ExecDistributor, ExecThread DEF Next

\* Only DoThings appends to "served", a node that exists at a known place.
LEMMA ServedTypeNext == Types /\ ExecInv /\ ServedType /\ [Next]_vars => ServedType'
<1> SUFFICES ASSUME Types, ExecInv, ServedType, [Next]_vars PROVE ServedType'
  OBVIOUS
<1>1. ASSUME NEW w \in Slot, DoThings(w)  PROVE ServedType'
  <2>1. PICK t \in Task : t = cur[w]
    BY <1>1 DEF DoThings, Goto, Types, SlotHasTask
  <2>2. Executing(t)
    BY <1>1, <2>1 DEF DoThings, Goto, Executing, Early, RunSteps
  <2>3. agvOf[t] \in Agv /\ ~Completed(t)
    BY <2>2 DEF ExecInv, Types, TaskTypes
  <2>4. NodeOf(t).id \in Nat /\ now[agvOf[t]] \in Aim
    BY <2>3, NodeTypes DEF Types, AgvTypes
  <2>5. CASE UNCHANGED served
    BY <2>5 DEF ServedType
  <2>6. ASSUME NEW ok \in BOOLEAN,
               served' = [served EXCEPT ![t] = Append(@,
                  [node |-> NodeOf(t).id, at |-> now[agvOf[t]], ok |-> ok])]
        PROVE  ServedType'
    <3>1. [node |-> NodeOf(t).id, at |-> now[agvOf[t]], ok |-> ok]
            \in [node : Nat, at : Aim, ok : BOOLEAN]
      BY <2>4
    <3> DEFINE R == [node : Nat, at : Aim, ok : BOOLEAN]
               r == [node |-> NodeOf(t).id, at |-> now[agvOf[t]], ok |-> ok]
    <3>2. served \in [Task -> Seq(R)] /\ r \in R
      BY <3>1 DEF ServedType
    <3> HIDE DEF R, r
    <3>3. Append(served[t], r) \in Seq(R)
      BY <3>2
    <3>4. served' = [served EXCEPT ![t] = Append(@, r)]
      BY <2>6 DEF r
    <3>5. served' \in [Task -> Seq(R)]
      BY <3>2, <3>3, <3>4
    <3> QED  BY <3>5 DEF R, ServedType
  <2>7. {TRUE} \cup {t \notin MayFail} \subseteq BOOLEAN
    OBVIOUS
  <2> QED  BY <1>1, <2>1, <2>5, <2>6, <2>7 DEF DoThings, Vehicle
<1>2. CASE UNCHANGED served
  BY <1>2 DEF ServedType
<1>3. ASSUME Client \/ Distributor  PROVE UNCHANGED served
  <2>1. ASSUME NEW t \in Task, DistributeTask(t)  PROVE UNCHANGED served
    <3>1. CASE Finish(t) \/ RunAgain(t) \/ Postpone(t) \/ ExcuteInPlace(t)
      BY <3>1 DEF Finish, RunAgain, Postpone, ExcuteInPlace
    <3>2. CASE Continue(t) \/ \E a \in Agv : AssignIdle(t, a)
      BY <3>2 DEF Continue, AssignIdle, Take
    <3>3. CASE \/ \E a \in Agv, h \in Halt : AssignHalt(t, a, h)
               \/ \E h \in Halt : ContinueHalt(t, h)
      BY <3>3 DEF AssignHalt, ContinueHalt, Take
    <3> QED  BY <2>1, <3>1, <3>2, <3>3 DEF DistributeTask
  <2>2. ASSUME Client \/ ScanStart \/ ScanNext  PROVE UNCHANGED served
    BY <2>2 DEF Client, RequestCreate, RequestCancel, ScanStart, ScanNext
  <2> QED  BY <1>3, <2>1, <2>2 DEF Distributor
<1>4. ASSUME NEW w \in Slot, Thread(w), ~DoThings(w)  PROVE UNCHANGED served
  BY <1>4 DEF Thread, TakeJob, AddNew, RunStep, Start, Drive, GiveUp, Depart, Arrive,
    Advance, EraseDoing, ReAdd, CancelStep, CancelQueued, CancelDoing, CancelMark,
    CancelAgv, CancelRelease
<1> QED  BY <1>1, <1>2, <1>3, <1>4 DEF Next, vars

\* Every variable keeps its type (taskmanager.h:69-85, agv.h:104-124): in
\* particular excuteTask never reads a node past the end of the list nor
\* serves a node without a vehicle (taskmanager.cpp:600-653).
THEOREM TypeCorrect == Spec => []TypeOK
<1> DEFINE Inv == Types /\ HolderInv /\ ExecInv /\ ServedType
<1>1. Init => Inv
  <2>1. Init => ServedType
    BY DEF Init, ServedType
  <2> QED  BY <2>1, InitTypes, HolderInit, ExecInit
<1>2. Inv /\ [Next]_vars => Inv'
  BY TypesNext, HolderNext, ExecNext, ServedTypeNext DEF HolderStep
<1>3. Inv => TypeOK
  BY DEF Types, ListTypes, TaskTypes, AgvTypes, PoolTypes, ClientTypes, ServedType, TypeOK
<1> HIDE DEF Inv
<1> QED  BY <1>1, <1>2, <1>3, PTL DEF Spec

-----------------------------------------------------------------------------
(* No task is lost. *)

Marked(t) == \E w \in Slot : pc[w] = "cancelMark" /\ cur[w] = t
Accounted(t) == Held(t) \/ t \in RangeOf(done) \/ isCancel[t] \/ Marked(t)
AccountInv == \A t \in submitted : Accounted(t)

\* What no step undoes.
LEMMA Lasting ==
    ASSUME Types, Next
    PROVE  /\ \A t \in Task : isCancel[t] => isCancel'[t]
           /\ \A t \in Task : t \in RangeOf(done) => t \in RangeOf(done')
<1>1. ASSUME NEW t \in Task, isCancel[t]  PROVE isCancel'[t]
  <2>1. isCancel \in [Task -> BOOLEAN]
    BY DEF Types, TaskTypes
  <2>2. UNCHANGED isCancel \/ \E u : isCancel' = [isCancel EXCEPT ![u] = TRUE]
    <3>1. ASSUME Client \/ Distributor  PROVE UNCHANGED isCancel
      <4>1. ASSUME NEW x \in Task, DistributeTask(x)  PROVE UNCHANGED isCancel
        <5>1. CASE Finish(x) \/ RunAgain(x) \/ Postpone(x) \/ ExcuteInPlace(x)
          BY <5>1 DEF Finish, RunAgain, Postpone, ExcuteInPlace, taskVars
        <5>2. CASE Continue(x) \/ \E a \in Agv : AssignIdle(x, a)
          BY <5>2 DEF Continue, AssignIdle, Take
        <5>3. CASE \/ \E a \in Agv, h \in Halt : AssignHalt(x, a, h)
                   \/ \E h \in Halt : ContinueHalt(x, h)
          BY <5>3 DEF AssignHalt, ContinueHalt, Take
        <5> QED  BY <4>1, <5>1, <5>2, <5>3 DEF DistributeTask
      <4>2. ASSUME Client \/ ScanStart \/ ScanNext  PROVE UNCHANGED isCancel
        BY <4>2 DEF Client, RequestCreate, RequestCancel, ScanStart, ScanNext, taskVars
      <4> QED  BY <3>1, <4>1, <4>2 DEF Distributor
    <3>2. ASSUME NEW w \in Slot, TakeJob(w) \/ AddNew(w) \/ RunStep(w)
          PROVE  UNCHANGED isCancel
      BY <3>2 DEF TakeJob, AddNew, RunStep, Start, Drive, GiveUp, Depart, Arrive,
        DoThings, Advance, EraseDoing, ReAdd, taskVars
    <3>3. ASSUME NEW w \in Slot, CancelStep(w)
          PROVE  UNCHANGED isCancel \/ \E u : isCancel' = [isCancel EXCEPT ![u] = TRUE]
      <4>1. CASE CancelMark(w)
        BY <4>1 DEF CancelMark
      <4>2. CASE CancelAgv(w)
        BY <4>2 DEF CancelAgv
      <4>3. CASE CancelQueued(w) \/ CancelDoing(w) \/ CancelRelease(w)
        BY <4>3 DEF CancelQueued, CancelDoing, CancelRelease, taskVars
      <4> QED  BY <3>3, <4>1, <4>2, <4>3 DEF CancelStep
    <3> QED  BY <3>1, <3>2, <3>3 DEF Next, Thread
  <2> QED  BY <1>1, <2>1, <2>2
<1>2. RangeOf(done) \subseteq RangeOf(done')
  <2>1. UNCHANGED done \/ \E t \in Task : done' = Append(done, t)
    <3>1. ASSUME Client \/ Distributor
          PROVE  UNCHANGED done \/ \E t \in Task : done' = Append(done, t)
      <4>1. ASSUME NEW t \in Task, DistributeTask(t)
            PROVE  UNCHANGED done \/ done' = Append(done, t)
        <5>1. CASE Finish(t)
          BY <5>1 DEF Finish
        <5>2. CASE RunAgain(t) \/ Postpone(t)
          BY <5>2 DEF RunAgain, Postpone, listVars
        <5>3. CASE ExcuteInPlace(t) \/ Continue(t) \/ \E a \in Agv : AssignIdle(t, a)
          BY <5>3 DEF ExcuteInPlace, Continue, AssignIdle, Take, Excute
        <5>4. CASE \/ \E a \in Agv, h \in Halt : AssignHalt(t, a, h)
                   \/ \E h \in Halt : ContinueHalt(t, h)
          BY <5>4 DEF AssignHalt, ContinueHalt, Take, Excute
        <5> QED  BY <4>1, <5>1, <5>2, <5>3, <5>4 DEF DistributeTask
      <4>2. ASSUME Client \/ ScanStart \/ ScanNext  PROVE UNCHANGED done
        BY <4>2 DEF Client, RequestCreate, RequestCancel, ScanStart, ScanNext, listVars
      <4> QED  BY <3>1, <4>1, <4>2 DEF Distributor
    <3>2. ASSUME NEW w \in Slot, Thread(w)  PROVE UNCHANGED done
      BY <3>2 DEF Thread, TakeJob, AddNew, RunStep, Start, Drive, GiveUp, Depart,
        Arrive, DoThings, Advance, EraseDoing, ReAdd, Add, CancelStep, CancelQueued,
        CancelDoing, CancelMark, CancelAgv, CancelRelease, listVars
    <3> QED  BY <3>1, <3>2 DEF Next
  <2>2. done \in Seq(Task)
    BY DEF Types, ListTypes
  <2>3. ASSUME NEW t \in Task  PROVE RangeOf(done) \subseteq RangeOf(Append(done, t))
    BY <2>2, AppendRange
  <2> QED  BY <2>1, <2>3
<1> QED  BY <1>1, <1>2

\* A step that takes nothing from a list or from a thread's hands.
LEMMA AccountFrame ==
    ASSUME Types, Next, AccountInv, UNCHANGED <<toDistribute, jobs, submitted>>,
           \A w \in Slot : pc[w] \in HoldSteps \cup {"cancelMark"} =>
              /\ cur'[w] = cur[w]
              /\ \/ pc[w] # "cancelMark" /\ pc'[w] \in HoldSteps
                 \/ pc[w] = "cancelMark" /\ pc'[w] = "cancelMark"
                 \/ isCancel'[cur[w]]
    PROVE  AccountInv'
<1> SUFFICES ASSUME NEW t \in submitted PROVE Accounted(t)'
  BY DEF AccountInv
<1>1. t \in Task /\ Accounted(t)
  BY DEF Types, ClientTypes, AccountInv
<1>2. InQueue(t) => InQueue(t)'
  BY DEF InQueue, RangeOf
<1>3. InPool(t) => InPool(t)'
  BY DEF InPool, Carries
<1>4. InSlot(t) => InSlot(t)' \/ isCancel'[t]
  BY DEF InSlot, InHand, HoldSteps, RunSteps
<1>5. Marked(t) => Marked(t)' \/ isCancel'[t]
  BY DEF Marked
<1>6. RangeOf(done)' = RangeOf(done')
  BY DEF RangeOf
<1> QED  BY <1>1, <1>2, <1>3, <1>4, <1>5, <1>6, Lasting DEF Accounted, Held

\* A step that moves one task t, which it leaves accounted for.
LEMMA AccountMove ==
    ASSUME Types, Next, AccountInv, NEW t \in Task, Accounted(t)',
           submitted' \subseteq submitted \cup {t},
           \A u \in Task \ {t} : /\ InQueue(u) => InQueue(u)'
                                 /\ InPool(u) => InPool(u)'
                                 /\ InSlot(u) => InSlot(u)'
                                 /\ Marked(u) => Marked(u)'
    PROVE  AccountInv'
<1> SUFFICES ASSUME NEW u \in submitted', u # t PROVE Accounted(u)'
  BY DEF AccountInv
<1>1. u \in Task /\ Accounted(u)
  BY DEF Types, ClientTypes, AccountInv
<1>2. RangeOf(done)' = RangeOf(done')
  BY DEF RangeOf
<1> QED  BY <1>1, <1>2, Lasting DEF Accounted, Held

LEMMA AccountClient ==
    ASSUME Types, HolderInv, AccountInv, Next, NEW t \in Task,
           RequestCreate(t) \/ RequestCancel(t)
    PROVE  AccountInv'
<1>1. UNCHANGED <<toDistribute, pc, cur>> /\ PoolTypes /\ PoolDistinct
  BY DEF RequestCreate, RequestCancel, listVars, Types, HolderInv, OneHolder
<1>2. \A u \in Task : /\ InQueue(u)' <=> InQueue(u)
                      /\ InSlot(u)' <=> InSlot(u)
                      /\ Marked(u)' <=> Marked(u)
  BY <1>1 DEF InQueue, InSlot, InHand, Marked, RangeOf
<1>3. CASE RequestCreate(t)
  <2> DEFINE j == [op |-> "create", task |-> t]
  <2>1. j \in Job /\ j.op = "create" /\ j.task = t
    BY DEF Job
  <2>2. ~InPool(t) /\ jobs' = Append(jobs, j)
    BY <1>3 DEF RequestCreate, HolderInv, Fresh, Held
  <2> HIDE DEF j
  <2>3. \A u \in Task : InPool(u)' <=> InPool(u) \/ u = t
    BY <1>1, <2>1, <2>2, PoolAppend
  <2>4. Accounted(t)' /\ submitted' \subseteq submitted \cup {t}
    BY <1>3, <2>3 DEF RequestCreate, Accounted, Held
  <2> QED  BY <1>2, <2>3, <2>4, AccountMove
<1>4. CASE RequestCancel(t)
  <2> DEFINE j == [op |-> "cancel", task |-> t]
  <2>1. j \in Job /\ j.op = "cancel" /\ jobs' = Append(jobs, j)
    BY <1>4 DEF Job, RequestCancel
  <2> HIDE DEF j
  <2>2. \A u \in Task : InPool(u)' <=> InPool(u)
    BY <1>1, <2>1, PoolAppend
  <2>3. t \in submitted /\ submitted' = submitted
    BY <1>4 DEF RequestCancel, HasId
  <2>4. RangeOf(done)' = RangeOf(done')
    BY DEF RangeOf
  <2>5. Accounted(t)'
    BY <1>2, <2>2, <2>3, <2>4, Lasting DEF AccountInv, Accounted, Held
  <2> QED  BY <1>2, <2>2, <2>3, <2>5, AccountMove
<1> QED  BY <1>3, <1>4

\* The head of the pool's queue is the only job that leaves it.
LEMMA PoolTailKeeps ==
    ASSUME PoolTypes, jobs # <<>>, jobs' = Tail(jobs), NEW u \in Task, InPool(u)
    PROVE  InPool(u)' \/ (Head(jobs).op # "cancel" /\ u = Head(jobs).task)
<1>1. /\ jobs \in Seq(Job) /\ Len(jobs) \in Nat \ {0} /\ DOMAIN jobs = 1..Len(jobs)
      /\ Head(jobs) = jobs[1]
  BY DEF PoolTypes
<1>2. /\ Tail(jobs) \in Seq(Job) /\ Len(Tail(jobs)) = Len(jobs) - 1
      /\ \A k \in 1..Len(Tail(jobs)) : Tail(jobs)[k] = jobs[k + 1]
  BY <1>1, HeadTailProperties
<1>3. PICK i \in 1..Len(jobs) : Carries(i, u)
  BY <1>1 DEF InPool
<1>4. CASE i = 1
  BY <1>1, <1>3, <1>4 DEF Carries
<1>5. CASE i # 1
  <2>1. PICK k \in Nat : k = i - 1
    BY <1>1, <1>3, <1>5
  <2>2. k \in 1..Len(Tail(jobs)) /\ i = k + 1
    BY <1>1, <1>2, <1>3, <1>5, <2>1
  <2>3. jobs'[k] = jobs[i] /\ k \in DOMAIN jobs'
    BY <1>2, <2>2
  <2>4. Carries(k, u)'
    BY <1>3, <2>3 DEF Carries
  <2> QED  BY <2>3, <2>4 DEF InPool
<1> QED  BY <1>4, <1>5

LEMMA AccountTakeJob ==
    ASSUME Types, AccountInv, Next, NEW w \in Slot, TakeJob(w)
    PROVE  AccountInv'
<1> DEFINE j == Head(jobs)
<1>1. /\ jobs # <<>> /\ jobs' = Tail(jobs) /\ pc[w] = "idle"
      /\ UNCHANGED <<toDistribute, submitted>> /\ PoolTypes
  BY DEF TakeJob, listVars, clientVars, Types
<1>2. j \in Job /\ j.op \in {"create", "run", "cancel"} /\ j.task \in Task
  <2>1. j \in Job
    BY <1>1, HeadTailProperties DEF PoolTypes
  <2> QED  BY <2>1 DEF Job
<1>3. PICK t \in Task : t = j.task
  BY <1>2
<1>4. /\ pc'[w] = FirstStep(j.op) /\ cur'[w] = t
      /\ \A v \in Slot \ {w} : pc'[v] = pc[v] /\ cur'[v] = cur[v]
  BY <1>1, <1>3 DEF TakeJob, PoolTypes
<1>5. \A u \in Task : InPool(u) => InPool(u)' \/ (j.op # "cancel" /\ u = t)
  BY <1>1, <1>3, PoolTailKeeps
<1> HIDE DEF j
<1>6. \A u \in Task : (InSlot(u) => InSlot(u)') /\ (Marked(u) => Marked(u)')
  BY <1>1, <1>4 DEF InSlot, InHand, HoldSteps, RunSteps, Marked
<1>7. \A u \in Task : InQueue(u) => InQueue(u)'
  BY <1>1 DEF InQueue, RangeOf
<1>8. j.op # "cancel" => InSlot(t)'
  BY <1>2, <1>4 DEF FirstStep, InSlot, InHand, HoldSteps, RunSteps
<1>9. RangeOf(done)' = RangeOf(done')
  BY DEF RangeOf
<1>10. \A u \in Task : Held(u) => Held(u)'
  BY <1>5, <1>6, <1>7, <1>8 DEF Held
<1> SUFFICES ASSUME NEW u \in submitted PROVE Accounted(u)'
  BY <1>1 DEF AccountInv
<1> QED  BY <1>6, <1>9, <1>10, Lasting DEF AccountInv, Accounted, Types, ClientTypes

LEMMA AccountAdd ==
    ASSUME Types, HolderInv, AccountInv, Next, NEW w \in Slot, AddNew(w) \/ ReAdd(w)
    PROVE  AccountInv'
<1>1. /\ pc[w] \in {"add", "readd"} /\ pc' = [pc EXCEPT ![w] = "idle"]
      /\ Add(cur[w]) /\ UNCHANGED <<jobs, cur, submitted>>
  BY DEF AddNew, ReAdd, Goto, clientVars
<1>2. PICK t \in Task : t = cur[w]
  BY <1>1 DEF Types, SlotHasTask
<1>3. ListTypes /\ PoolTypes /\ QueuesDistinct /\ HoldersDisjoint
  BY DEF Types, HolderInv, OneHolder
<1>4. InSlot(t)
  BY <1>1, <1>2 DEF InHand, InSlot, HoldSteps
<1>5. \A u \in Task : InQueue(u)' <=> InQueue(u) \/ u = t
  BY <1>1, <1>2, <1>3, <1>4, QueueAdd DEF HoldersDisjoint
<1>6. \A v \in Slot : pc'[v] = pc[v] \/ (v = w /\ pc[v] # "cancelMark")
  BY <1>1, <1>3 DEF PoolTypes
<1>7. \A u \in Task \ {t} : (InSlot(u) => InSlot(u)') /\ (Marked(u) => Marked(u)')
  BY <1>1, <1>2, <1>6 DEF InSlot, InHand, Marked
<1>8. \A u \in Task : InPool(u)' <=> InPool(u)
  BY <1>1 DEF InPool, Carries
<1>9. Accounted(t)'
  BY <1>5 DEF Accounted, Held
<1> QED  BY <1>1, <1>5, <1>7, <1>8, <1>9, AccountMove

LEMMA AccountDistributor ==
    ASSUME Types, HolderInv, AccountInv, Next, Distributor
    PROVE  AccountInv'
<1>1. ListTypes /\ PoolTypes /\ QueuesDistinct /\ PoolDistinct /\ HoldersDisjoint
  BY DEF Types, HolderInv, OneHolder
<1>2. CASE UNCHANGED <<toDistribute, poolVars, clientVars>>
  BY <1>2, AccountFrame DEF poolVars, clientVars
<1>3. ASSUME NEW t \in Task, At(t), EraseScanned, UNCHANGED <<pc, cur, clientVars>>,
             (t \in RangeOf(done') /\ UNCHANGED jobs) \/ Excute(t)
      PROVE  AccountInv'
  <2>1. /\ InQueue(t)
        /\ \A u \in Task : u # t => (InQueue(u)' <=> InQueue(u))
    BY <1>1, <1>3, QueueErase DEF At, EraseScanned, ListTypes
  <2>2. \A u \in Task : InSlot(u)' <=> InSlot(u)
    BY <1>3 DEF InSlot, InHand
  <2>3. \A u \in Task : Marked(u)' <=> Marked(u)
    BY <1>3 DEF Marked
  <2>4. UNCHANGED jobs => \A u \in Task : InPool(u)' <=> InPool(u)
    BY DEF InPool, Carries
  <2>5. Excute(t) => \A u \in Task : InPool(u)' <=> InPool(u) \/ u = t
    <3> DEFINE j == [op |-> "run", task |-> t]
    <3>1. j \in Job /\ j.op = "run" /\ j.task = t
      BY DEF Job
    <3>2. Excute(t) => jobs' = Append(jobs, j)
      BY DEF Excute
    <3>3. ~InPool(t)
      BY <1>1, <2>1 DEF HoldersDisjoint
    <3> HIDE DEF j
    <3> QED  BY <1>1, <3>1, <3>2, <3>3, PoolAppend
  <2>6. RangeOf(done)' = RangeOf(done')
    BY DEF RangeOf
  <2>7. Accounted(t)'
    BY <1>3, <2>5, <2>6 DEF Accounted, Held
  <2>8. \A u \in Task \ {t} : InPool(u) => InPool(u)'
    BY <1>3, <2>4, <2>5
  <2> QED  BY <1>3, <2>1, <2>2, <2>3, <2>7, <2>8, AccountMove DEF clientVars
<1>4. CASE ScanStart \/ ScanNext
  BY <1>2, <1>4 DEF ScanStart, ScanNext, listVars
<1>5. ASSUME NEW t \in Task, DistributeTask(t)  PROVE AccountInv'
  <2>1. CASE Finish(t)
    <3>1. t \in RangeOf(done')
      BY <1>1, <2>1, AppendRange DEF Finish, ListTypes
    <3> QED  BY <1>3, <2>1, <3>1 DEF Finish, poolVars
  <2>2. CASE RunAgain(t) \/ Postpone(t)
    BY <1>2, <2>2 DEF RunAgain, Postpone, listVars
  <2>3. CASE ExcuteInPlace(t)
    BY <1>3, <2>3 DEF ExcuteInPlace, Excute
  <2>4. ASSUME NEW a, NEW r, At(t), Take(t, a, r)  PROVE AccountInv'
    BY <1>3, <2>4 DEF Take, Excute
  <2> QED  BY <1>5, <2>1, <2>2, <2>3, <2>4
           DEF DistributeTask, Continue, AssignIdle, AssignHalt, ContinueHalt
<1> QED  BY <1>4, <1>5 DEF Distributor

\* A run job keeps its task in hand, and lets go of it only when cancelled.
LEMMA AccountRunStep ==
    ASSUME Types, AccountInv, Next, NEW w \in Slot, RunStep(w), ~ReAdd(w)
    PROVE  AccountInv'
<1>1. UNCHANGED <<toDistribute, jobs, submitted, cur>>
  BY DEF RunStep, Start, Drive, GiveUp, Depart, Arrive, DoThings, Advance,
    EraseDoing, listVars, clientVars
<1>2. \A v \in Slot \ {w} : pc'[v] = pc[v]
  BY DEF RunStep, Start, Drive, GiveUp, Depart, Arrive, DoThings, Advance,
    EraseDoing, EndStation, Goto, Types, PoolTypes
<1>3. pc[w] # "cancelMark"
  BY DEF RunStep, Start, Drive, GiveUp, Depart, Arrive, DoThings, Advance,
    EraseDoing, ReAdd, Goto
<1>4. pc'[w] \in HoldSteps \/ isCancel'[cur[w]]
  <2>1. CASE Advance(w)
    <3>1. pc' = [pc EXCEPT ![w] = IF HandsBack(cur[w]) THEN "erase" ELSE "idle"]
          /\ UNCHANGED isCancel
      BY <2>1 DEF Advance, Goto
    <3> QED  BY <3>1 DEF HandsBack, HoldSteps, RunSteps, Types, PoolTypes
  <2>2. CASE ~Advance(w)
    BY <2>2 DEF RunStep, Start, Drive, GiveUp, Depart, Arrive, DoThings,
      EraseDoing, EndStation, Goto, Types, PoolTypes, HoldSteps, RunSteps
  <2> QED  BY <2>1, <2>2
<1> QED  BY <1>1, <1>2, <1>3, <1>4, AccountFrame DEF HoldSteps, RunSteps

\* A cancel job marks the task it takes out of its queue.
LEMMA AccountCancelStep ==
    ASSUME Types, HolderInv, AccountInv, Next, NEW w \in Slot, CancelStep(w)
    PROVE  AccountInv'
<1>1. UNCHANGED <<jobs, cur, submitted>>
  BY DEF CancelStep, CancelQueued, CancelDoing, CancelMark, CancelAgv,
    CancelRelease, listVars, clientVars
<1>2. /\ \A v \in Slot \ {w} : pc'[v] = pc[v]
      /\ pc[w] \in CancelSteps
      /\ pc[w] = "cancelMark" => CancelMark(w)
  BY DEF CancelStep, CancelQueued, CancelDoing, CancelMark, CancelAgv,
    CancelRelease, Goto, CancelSteps, Types, PoolTypes
<1>3. pc[w] \notin HoldSteps
  BY <1>2 DEF CancelSteps, HoldSteps, RunSteps
<1>4. CASE CancelQueued(w) /\ cur[w] \in RangeOf(toDistribute[Priority[cur[w]]])
  <2>1. PICK t \in Task : t = cur[w]
    BY <1>4 DEF CancelQueued, Goto, Types, SlotHasTask
  <2> DEFINE p == Priority[t]
             i == Find(toDistribute[p], t)
  <2>2. p \in 0..MaxPriority /\ ListTypes /\ QueuesDistinct
    BY TaskAssumption DEF Types, HolderInv, OneHolder
  <2>3. i \in DOMAIN toDistribute[p] /\ toDistribute[p][i] = t
    BY <1>4, <2>1, <2>2, FindFirst DEF ListTypes
  <2>4. toDistribute' = [toDistribute EXCEPT ![p] = EraseAt(@, i)]
    BY <1>4, <2>1 DEF CancelQueued
  <2> HIDE DEF p, i
  <2>5. \A u \in Task : u # t => (InQueue(u)' <=> InQueue(u))
    BY <2>2, <2>3, <2>4, QueueErase
  <2>6. \A u \in Task : /\ InPool(u)' <=> InPool(u)
                        /\ InSlot(u) => InSlot(u)'
    BY <1>1, <1>2, <1>3 DEF InPool, Carries, InSlot, InHand
  <2>7. pc[w] = "cancelQueued" /\ pc'[w] = "cancelMark"
    BY <1>4 DEF CancelQueued, Goto, Types, PoolTypes
  <2>8. Marked(t)' /\ \A u \in Task : Marked(u) => Marked(u)'
    BY <1>1, <1>2, <2>1, <2>7 DEF Marked
  <2> QED  BY <1>1, <2>5, <2>6, <2>8, AccountMove DEF Accounted
<1>5. CASE ~(CancelQueued(w) /\ cur[w] \in RangeOf(toDistribute[Priority[cur[w]]]))
  <2>1. UNCHANGED toDistribute
    BY <1>5 DEF CancelStep, CancelQueued, CancelDoing, CancelMark, CancelAgv,
      CancelRelease, listVars
  <2>2. pc[w] = "cancelMark" => isCancel'[cur[w]]
    BY <1>2 DEF CancelMark, Types, TaskTypes, SlotHasTask
  <2> QED  BY <1>1, <1>2, <1>3, <2>1, <2>2, AccountFrame DEF HoldSteps, RunSteps
<1> QED  BY <1>4, <1>5

LEMMA AccountNext == Types /\ HolderInv /\ AccountInv /\ [Next]_vars => AccountInv'
<1> SUFFICES ASSUME Types, HolderInv, AccountInv, [Next]_vars PROVE AccountInv'
  OBVIOUS
<1>1. CASE UNCHANGED vars
  BY <1>1 DEF vars, listVars, taskVars, poolVars, clientVars, AccountInv, Accounted,
    Held, InQueue, InPool, InSlot, InHand, Carries, Marked, RangeOf
<1>2. CASE Next
  <2>1. ASSUME Client  PROVE AccountInv'
    BY <1>2, <2>1, AccountClient DEF Client
  <2>2. ASSUME NEW w \in Slot, Thread(w)  PROVE AccountInv'
    BY <1>2, <2>2, AccountTakeJob, AccountAdd, AccountRunStep, AccountCancelStep
       DEF Thread
  <2> QED  BY <1>2, <2>1, <2>2, AccountDistributor DEF Next
<1> QED  BY <1>1, <1>2

\* A task somebody created is waiting, in the pool, in a thread's hands or
\* done, unless it has been cancelled: no interleaving of the distributor, the
\* pool and the cancel handlers drops one (taskmanager.cpp:355-408, 504-690).
THEOREM NoLostTaskAlways == Spec => []NoLostTask
<1>1. Init => Types /\ HolderInv /\ AccountInv
  BY InitTypes, HolderInit DEF Init, AccountInv
<1>2. Types /\ HolderInv /\ AccountInv /\ [Next]_vars
        => (Types /\ HolderInv /\ AccountInv)'
  BY TypesNext, HolderNext, AccountNext DEF HolderStep
<1>3. AccountInv => NoLostTask
  BY DEF AccountInv, Accounted, Marked, NoLostTask
<1> QED  BY <1>1, <1>2, <1>3, PTL DEF Spec

-----------------------------------------------------------------------------
(* Vehicles and tasks point at each other. *)

\* distributeTask gives vehicle a to task t, which had no vehicle or had a.
LEMMA AgreesTake ==
    ASSUME Types, VehicleAgrees, NEW t \in Task, NEW a \in Agv,
           agvOf[t] \in {NoAgv, a}, NEW route, Take(t, a, route)
    PROVE  VehicleAgrees'
<1>1. /\ currentTask \in [Agv -> Task \cup {NoTask}]
      /\ agvOf \in [Task -> Agv \cup {NoAgv}]
  BY DEF Types, TaskTypes, AgvTypes
<1>2. /\ currentTask' = [currentTask EXCEPT ![a] = t]
      /\ agvOf' = [agvOf EXCEPT ![t] = a]
  BY DEF Take, SetAgv
<1> SUFFICES ASSUME NEW b \in Agv, currentTask'[b] # NoTask
             PROVE  agvOf'[currentTask'[b]] = b
  BY DEF VehicleAgrees
<1>3. CASE b = a
  BY <1>1, <1>2, <1>3
<1>4. CASE b # a
  <2>1. currentTask'[b] = currentTask[b] /\ currentTask[b] \in Task
    BY <1>1, <1>2, <1>4
  <2>2. agvOf[currentTask[b]] = b
    BY <2>1, TaskAssumption DEF VehicleAgrees
  <2>3. currentTask[b] # t
    BY <1>4, <2>2, AgvAssumption
  <2> QED  BY <1>1, <1>2, <2>1, <2>2, <2>3
<1> QED  BY <1>3, <1>4

LEMMA AgreesNext == Types /\ VehicleAgrees /\ [Next]_vars => VehicleAgrees'
<1> SUFFICES ASSUME Types, VehicleAgrees, [Next]_vars PROVE VehicleAgrees'
  OBVIOUS
<1>1. /\ currentTask \in [Agv -> Task \cup {NoTask}]
      /\ agvOf \in [Task -> Agv \cup {NoAgv}]
  BY DEF Types, TaskTypes, AgvTypes
<1>2. ASSUME NEW a, UNCHANGED agvOf,
             UNCHANGED currentTask \/ currentTask' = [currentTask EXCEPT ![a] = NoTask]
      PROVE  VehicleAgrees'
  BY <1>1, <1>2 DEF VehicleAgrees
<1>3. CASE UNCHANGED vars
  BY <1>2, <1>3 DEF vars, taskVars, agvVars
<1>4. CASE Client
  BY <1>2, <1>4 DEF Client, RequestCreate, RequestCancel, taskVars, agvVars
<1>5. ASSUME NEW t \in Task, DistributeTask(t)  PROVE VehicleAgrees'
  <2>1. CASE Finish(t)
    <3>1. CASE agvOf[t] = NoAgv
      BY <1>2, <2>1, <3>1 DEF Finish
    <3>2. CASE agvOf[t] # NoAgv
      <4>1. /\ currentTask' = [currentTask EXCEPT ![agvOf[t]] = NoTask]
            /\ UNCHANGED agvOf
        BY <2>1, <3>2 DEF Finish
      <4> QED  BY <1>2, <4>1
    <3> QED  BY <3>1, <3>2
  <2>2. CASE RunAgain(t) \/ ExcuteInPlace(t) \/ Postpone(t)
    BY <1>2, <2>2 DEF RunAgain, ExcuteInPlace, Postpone, taskVars, agvVars
  <2>3. CASE Continue(t) \/ \E h \in Halt : ContinueHalt(t, h)
    <3>1. agvOf[t] \in Agv /\ \E r : Take(t, agvOf[t], r)
      BY <1>1, <2>3 DEF Continue, ContinueHalt, OwnAgv
    <3>2. PICK a \in Agv : a = agvOf[t]
      BY <3>1
    <3>3. PICK r : Take(t, a, r)
      BY <3>1, <3>2
    <3> QED  BY <3>2, <3>3, AgreesTake
  <2>4. ASSUME NEW a \in Agv, NEW r, agvOf[t] = NoAgv, Take(t, a, r)
        PROVE  VehicleAgrees'
    BY <2>4, AgreesTake
  <2> QED  BY <1>5, <2>1, <2>2, <2>3, <2>4 DEF DistributeTask, AssignIdle, AssignHalt
<1>6. CASE ScanStart \/ ScanNext
  BY <1>2, <1>6 DEF ScanStart, ScanNext, taskVars, agvVars
<1>7. ASSUME NEW w \in Slot, TakeJob(w) \/ AddNew(w) \/ RunStep(w)
      PROVE  VehicleAgrees'
  BY <1>2, <1>7 DEF TakeJob, AddNew, RunStep, Start, Drive, GiveUp, Depart, Arrive,
    DoThings, Advance, EraseDoing, ReAdd, taskVars, agvVars
<1>8. ASSUME NEW w \in Slot, CancelStep(w)  PROVE VehicleAgrees'
  <2>1. CASE CancelRelease(w)
    <3>1. UNCHANGED agvOf
          /\ \/ UNCHANGED currentTask
             \/ currentTask' = [currentTask EXCEPT ![Vehicle(w)] = NoTask]
      BY <2>1 DEF CancelRelease
    <3> QED  BY <1>2, <3>1
  <2>2. CASE ~CancelRelease(w)
    BY <1>2, <1>8, <2>2 DEF CancelStep, CancelQueued, CancelDoing, CancelMark,
      CancelAgv, taskVars, agvVars
  <2> QED  BY <2>1, <2>2
<1> QED  BY <1>3, <1>4, <1>5, <1>6, <1>7, <1>8 DEF Next, Distributor, Thread

\* A vehicle works for a task only if that task was given this vehicle: two
\* vehicles never work for one task, whatever is cancelled or assigned in
\* between (taskmanager.cpp:139-154, 252-276, 540-565).
THEOREM VehicleAgreesAlways == Spec => []VehicleAgrees
<1>1. Init => Types /\ VehicleAgrees
  BY InitTypes DEF Init, VehicleAgrees
<1>2. Types /\ VehicleAgrees /\ [Next]_vars => (Types /\ VehicleAgrees)'
  BY TypesNext, AgreesNext
<1> QED  BY <1>1, <1>2, PTL DEF Spec

-----------------------------------------------------------------------------
(* Before the first cancel request.  A cancel request may put a vehicle or *)
(* an entry of doingTask in hands other than the task's own; until there   *)
(* is one, no step of the cancel handler is taken and no task is marked.   *)

Quiet ==
    /\ \A i \in DOMAIN jobs : jobs[i].op # "cancel"
    /\ \A w \in Slot : pc[w] \notin CancelSteps
    /\ \A t \in Task : ~isCancel[t]
QuietInv == asked = {} => Quiet

\* What a step that is not a cancel request leaves behind, when it is quiet.
LEMMA QuietFrame ==
    ASSUME Quiet, UNCHANGED isCancel,
           \A i \in DOMAIN jobs' : jobs'[i].op # "cancel",
           \A w \in Slot : pc'[w] \notin CancelSteps
    PROVE  Quiet'
BY DEF Quiet

LEMMA AskedGrows == [Next]_vars => asked \subseteq asked'
<1> SUFFICES ASSUME [Next]_vars PROVE asked \subseteq asked'
  OBVIOUS
<1>1. CASE UNCHANGED vars
  BY <1>1 DEF vars, clientVars
<1>2. CASE Client
  BY <1>2 DEF Client, RequestCreate, RequestCancel
<1>3. CASE ScanStart \/ ScanNext
  BY <1>3 DEF ScanStart, ScanNext, clientVars
<1>4. ASSUME NEW t \in Task, DistributeTask(t)  PROVE asked \subseteq asked'
  BY <1>4 DEF DistributeTask, Finish, RunAgain, ExcuteInPlace, Continue, Postpone,
    AssignIdle, AssignHalt, ContinueHalt, Take, clientVars
<1>5. ASSUME NEW w \in Slot, Thread(w)  PROVE asked \subseteq asked'
  BY <1>5 DEF Thread, TakeJob, AddNew, RunStep, Start, Drive, GiveUp, Depart, Arrive,
    DoThings, Advance, EraseDoing, ReAdd, CancelStep, CancelQueued, CancelDoing,
    CancelMark, CancelAgv, CancelRelease, clientVars
<1> QED  BY <1>1, <1>2, <1>3, <1>4, <1>5 DEF Next, Distributor

\* A step that is quiet before and after it is a create request, a step of the
\* distributor, or a thread's step of a create or run job.
QuietNext ==
    \/ \E t \in Task : RequestCreate(t)
    \/ Distributor
    \/ \E w \in Slot : TakeJob(w) \/ AddNew(w) \/ RunStep(w)

LEMMA QuietSteps ==
    ASSUME Types, QuietInv, [Next]_vars, asked' = {}
    PROVE  asked = {} /\ Quiet /\ (QuietNext \/ UNCHANGED vars)
<1>1. asked = {} /\ Quiet
  BY AskedGrows DEF QuietInv
<1>2. ASSUME NEW t \in Task  PROVE ~RequestCancel(t)
  BY DEF RequestCancel
<1>3. ASSUME NEW w \in Slot  PROVE ~CancelStep(w)
  <2>1. pc[w] \notin CancelSteps
    BY <1>1 DEF Quiet
  <2> QED  BY <2>1 DEF CancelSteps, CancelStep, CancelQueued, CancelDoing, CancelMark,
             CancelAgv, CancelRelease, Goto
<1> QED  BY <1>1, <1>2, <1>3 DEF Next, QuietNext, Client, Thread

\* The new jobs of a step that pushes one at the back, or takes the front.
LEMMA JobsAppend ==
    ASSUME PoolTypes, NEW j \in Job, jobs' = Append(jobs, j)
    PROVE  /\ DOMAIN jobs' = DOMAIN jobs \cup {Len(jobs) + 1}
           /\ \A i \in DOMAIN jobs : jobs'[i] = jobs[i]
           /\ jobs'[Len(jobs) + 1] = j
<1>1. jobs \in Seq(Job)
  BY DEF PoolTypes
<1> QED  BY <1>1

LEMMA JobsTail ==
    ASSUME PoolTypes, jobs # <<>>, jobs' = Tail(jobs)
    PROVE  /\ 1 \in DOMAIN jobs /\ Head(jobs) = jobs[1] /\ Head(jobs) \in Job
           /\ \A i \in DOMAIN jobs' : i + 1 \in DOMAIN jobs /\ jobs'[i] = jobs[i + 1]
           /\ \A i \in DOMAIN jobs : i # 1 => i - 1 \in DOMAIN jobs' /\ jobs'[i - 1] = jobs[i]
<1>1. jobs \in Seq(Job) /\ Len(jobs) \in Nat
  BY DEF PoolTypes
<1>2. /\ Tail(jobs) \in Seq(Job) /\ Len(Tail(jobs)) = Len(jobs) - 1
      /\ \A k \in 1..Len(Tail(jobs)) : Tail(jobs)[k] = jobs[k + 1]
  BY <1>1, HeadTailProperties
<1>3. DOMAIN Tail(jobs) = 1..(Len(jobs) - 1) /\ DOMAIN jobs = 1..Len(jobs)
  BY <1>1, <1>2
<1>4. 1 \in DOMAIN jobs /\ Head(jobs) = jobs[1] /\ Head(jobs) \in Job
  BY <1>1
<1>5. \A i \in DOMAIN jobs' : i + 1 \in DOMAIN jobs /\ jobs'[i] = jobs[i + 1]
  BY <1>1, <1>2, <1>3
<1>6. ASSUME NEW i \in DOMAIN jobs, i # 1
      PROVE  i - 1 \in DOMAIN jobs' /\ jobs'[i - 1] = jobs[i]
  <2>1. i - 1 \in 1..(Len(jobs) - 1) /\ (i - 1) + 1 = i
    BY <1>1, <1>3, <1>6
  <2> QED  BY <2>1, <1>2, <1>3
<1> QED  BY <1>4, <1>5, <1>6

\* What the distributor does to the pool: nothing, or one more run job.
LEMMA DistributorPool ==
    ASSUME Distributor
    PROVE  \/ UNCHANGED <<jobs, doing, pc, cur>>
           \/ \E t \in Task : At(t) /\ EraseScanned /\ Excute(t)
<1>1. CASE ScanStart \/ ScanNext
  BY <1>1 DEF ScanStart, ScanNext, listVars, poolVars
<1>2. ASSUME NEW t \in Task, DistributeTask(t)
      PROVE  \/ UNCHANGED <<jobs, doing, pc, cur>>
             \/ At(t) /\ EraseScanned /\ Excute(t)
  <2>1. CASE Finish(t) \/ RunAgain(t) \/ Postpone(t)
    BY <2>1 DEF Finish, RunAgain, Postpone, listVars, poolVars
  <2>2. CASE ExcuteInPlace(t)
    BY <2>2 DEF ExcuteInPlace
  <2>3. CASE Continue(t) \/ \E h \in Halt : ContinueHalt(t, h)
    BY <2>3 DEF Continue, ContinueHalt, Take
  <2>4. CASE \/ \E a \in Agv : AssignIdle(t, a)
             \/ \E a \in Agv, h \in Halt : AssignHalt(t, a, h)
    BY <2>4 DEF AssignIdle, AssignHalt, Take
  <2> QED  BY <1>2, <2>1, <2>2, <2>3, <2>4 DEF DistributeTask
<1> QED  BY <1>1, <1>2 DEF Distributor

LEMMA QuietNextInv == Types /\ QuietInv /\ [Next]_vars => QuietInv'
<1> SUFFICES ASSUME Types, QuietInv, [Next]_vars, asked' = {}
             PROVE  Quiet'
  BY DEF QuietInv
<1>1. Quiet /\ (QuietNext \/ UNCHANGED vars)
  BY QuietSteps
<1>2. PoolTypes
  BY DEF Types
<1>3. CASE UNCHANGED vars
  BY <1>1, <1>3, QuietFrame DEF vars, taskVars, poolVars, Quiet
<1>4. ASSUME NEW t \in Task, RequestCreate(t)  PROVE Quiet'
  <2>1. /\ [op |-> "create", task |-> t] \in Job
        /\ [op |-> "create", task |-> t].op # "cancel"
    BY DEF Job
  <2>2. \A i \in DOMAIN jobs' : jobs'[i].op # "cancel"
    <3>1. jobs' = Append(jobs, [op |-> "create", task |-> t])
      BY <1>4 DEF RequestCreate
    <3>2. PICK j \in Job : j.op # "cancel" /\ jobs' = Append(jobs, j)
      BY <2>1, <3>1
    <3>3. /\ DOMAIN jobs' = DOMAIN jobs \cup {Len(jobs) + 1}
          /\ \A i \in DOMAIN jobs : jobs'[i] = jobs[i]
          /\ jobs'[Len(jobs) + 1] = j
      BY <1>2, <3>2, JobsAppend
    <3> QED  BY <1>1, <3>2, <3>3 DEF Quiet
  <2> QED  BY <1>1, <1>4, <2>2, QuietFrame DEF RequestCreate, taskVars, Quiet
<1>5. CASE Distributor
  <2>1. UNCHANGED <<isCancel, pc>>
    <3>1. CASE ScanStart \/ ScanNext
      BY <3>1 DEF ScanStart, ScanNext, taskVars, poolVars
    <3>2. ASSUME NEW t \in Task, DistributeTask(t)  PROVE UNCHANGED <<isCancel, pc>>
      <4>1. CASE Finish(t) \/ RunAgain(t) \/ ExcuteInPlace(t) \/ Postpone(t)
        BY <4>1 DEF Finish, RunAgain, ExcuteInPlace, Postpone, Excute, taskVars, poolVars
      <4>2. CASE \/ Continue(t) \/ (\E a \in Agv : AssignIdle(t, a))
                 \/ (\E a \in Agv, h \in Halt : AssignHalt(t, a, h))
                 \/ (\E h \in Halt : ContinueHalt(t, h))
        BY <4>2 DEF Continue, AssignIdle, AssignHalt, ContinueHalt, Take, Excute
      <4> QED  BY <3>2, <4>1, <4>2 DEF DistributeTask
    <3> QED  BY <1>5, <3>1, <3>2 DEF Distributor
  <2>2. CASE UNCHANGED jobs
    BY <1>1, <2>1, <2>2, QuietFrame DEF Quiet
  <2>3. ASSUME NEW t \in Task, Excute(t)  PROVE Quiet'
    <3>1. /\ [op |-> "run", task |-> t] \in Job
          /\ [op |-> "run", task |-> t].op # "cancel"
      BY DEF Job
    <3>2. \A i \in DOMAIN jobs' : jobs'[i].op # "cancel"
      BY <1>1, <1>2, <2>3, <3>1, JobsAppend DEF Excute, Quiet
    <3> QED  BY <1>1, <2>1, <3>2, QuietFrame DEF Quiet
  <2> QED  BY <1>5, <2>2, <2>3, DistributorPool
<1>6. ASSUME NEW w \in Slot, TakeJob(w)  PROVE Quiet'
  <2>1. jobs # <<>> /\ jobs' = Tail(jobs) /\ UNCHANGED isCancel
    BY <1>6 DEF TakeJob, taskVars
  <2>2. \A i \in DOMAIN jobs' : jobs'[i].op # "cancel"
    BY <1>1, <1>2, <2>1, JobsTail DEF Quiet
  <2>3. Head(jobs).op \in {"create", "run"}
    BY <1>1, <1>2, <2>1, JobsTail DEF Quiet, Job
  <2>4. pc' = [pc EXCEPT ![w] = FirstStep(Head(jobs).op)]
    BY <1>6 DEF TakeJob
  <2>5. FirstStep(Head(jobs).op) \in {"add", "start"}
    BY <2>3 DEF FirstStep
  <2>6. \A v \in Slot : pc'[v] \notin CancelSteps
    BY <1>1, <1>2, <2>4, <2>5 DEF Quiet, PoolTypes, CancelSteps
  <2> QED  BY <1>1, <2>1, <2>2, <2>6, QuietFrame
<1>7. ASSUME NEW w \in Slot, AddNew(w) \/ RunStep(w)  PROVE Quiet'
  <2>1. UNCHANGED <<isCancel, jobs>>
    BY <1>7 DEF AddNew, RunStep, Start, Drive, GiveUp, Depart, Arrive, DoThings,
      Advance, EraseDoing, ReAdd, taskVars
  <2>2. \/ UNCHANGED pc
        \/ \E to \in {"idle"} \cup RunSteps \cup {"readd"} : pc' = [pc EXCEPT ![w] = to]
    BY <1>7 DEF AddNew, RunStep, Start, Drive, GiveUp, Depart, Arrive, DoThings,
      Advance, EraseDoing, ReAdd, EndStation, Goto, RunSteps
  <2>3. \A v \in Slot : pc'[v] \notin CancelSteps
    BY <1>1, <1>2, <2>2 DEF Quiet, PoolTypes, CancelSteps, RunSteps
  <2> QED  BY <1>1, <2>1, <2>3, QuietFrame DEF Quiet
<1> QED  BY <1>1, <1>3, <1>4, <1>5, <1>6, <1>7 DEF QuietNext

-----------------------------------------------------------------------------
(* doingTask before the first cancel request: it lists what is executed.   *)

DoingInv == asked = {} => DoingExact

\* A run job in the pool is known by its two fields.
LEMMA RunningJob ==
    ASSUME PoolTypes, NEW t \in Task
    PROVE  Running(t) <=> RunJob(t) \/ \E w \in Slot : pc[w] \in RunSteps /\ cur[w] = t
<1>1. \A i \in DOMAIN jobs :
        jobs[i] = [op |-> "run", task |-> t] <=> jobs[i].op = "run" /\ jobs[i].task = t
  <2>1. \A j \in Job :
          j = [op |-> "run", task |-> t] <=> j.op = "run" /\ j.task = t
    BY DEF Job
  <2>2. \A i \in DOMAIN jobs : jobs[i] \in Job
    BY DEF PoolTypes
  <2> QED  BY <2>1, <2>2
<1> QED  BY <1>1 DEF Running, RunJob

\* Who runs a task holds it.
LEMMA RunningHeld ==
    ASSUME PoolTypes, NEW t \in Task, Running(t)
    PROVE  InPool(t) \/ InSlot(t)
BY RunningJob DEF RunJob, InPool, Carries, InSlot, InHand, HoldSteps

\* Who is being executed changes at excuteTask and at the end of its lambda.
LEMMA RunningExcute ==
    ASSUME PoolTypes, NEW t \in Task, Excute(t)
    PROVE  \A u \in Task : Running(u)' <=> Running(u) \/ u = t
<1>1. UNCHANGED <<pc, cur>> /\ jobs' = Append(jobs, [op |-> "run", task |-> t])
  BY DEF Excute
<1>2. [op |-> "run", task |-> t] \in Job
  BY DEF Job
<1> TAKE u \in Task
<1>3. (\E i \in DOMAIN jobs' : jobs'[i] = [op |-> "run", task |-> u])
        <=> (\E i \in DOMAIN jobs : jobs[i] = [op |-> "run", task |-> u]) \/ u = t
  <2>1. [op |-> "run", task |-> t] = [op |-> "run", task |-> u] <=> u = t
    OBVIOUS
  <2> QED  BY <1>1, <1>2, <2>1, JobsAppend
<1> QED  BY <1>1, <1>3 DEF Running

LEMMA RunningCreate ==
    ASSUME PoolTypes, NEW t \in Task, RequestCreate(t)
    PROVE  \A u \in Task : Running(u)' <=> Running(u)
<1>1. UNCHANGED <<pc, cur>> /\ jobs' = Append(jobs, [op |-> "create", task |-> t])
  BY DEF RequestCreate
<1>2. [op |-> "create", task |-> t] \in Job
  BY DEF Job
<1>3. \A u \in Task : [op |-> "create", task |-> t] # [op |-> "run", task |-> u]
  <2>1. \A u \in Task : [op |-> "run", task |-> u].op = "run"
    OBVIOUS
  <2>2. [op |-> "create", task |-> t].op = "create"
    OBVIOUS
  <2> QED  BY <2>1, <2>2
<1>4. \A u \in Task : (\E i \in DOMAIN jobs' : jobs'[i] = [op |-> "run", task |-> u])
                     <=> \E i \in DOMAIN jobs : jobs[i] = [op |-> "run", task |-> u]
  BY <1>1, <1>2, <1>3, JobsAppend
<1> QED  BY <1>1, <1>4 DEF Running

\* A thread takes a run job over from the pool, or goes on with it.
LEMMA RunningTakeJob ==
    ASSUME Types, NEW w \in Slot, TakeJob(w)
    PROVE  \A u \in Task : Running(u)' <=> Running(u)
<1>1. jobs # <<>> /\ jobs' = Tail(jobs) /\ pc[w] = "idle"
  BY DEF TakeJob
<1>2. /\ 1 \in DOMAIN jobs /\ Head(jobs) = jobs[1] /\ jobs[1] \in Job
      /\ \A i \in DOMAIN jobs' : i + 1 \in DOMAIN jobs /\ jobs'[i] = jobs[i + 1]
      /\ \A i \in DOMAIN jobs : i # 1 => i - 1 \in DOMAIN jobs' /\ jobs'[i - 1] = jobs[i]
  BY <1>1, JobsTail DEF Types
<1>3. /\ pc'[w] = FirstStep(jobs[1].op) /\ cur'[w] = jobs[1].task
      /\ \A v \in Slot \ {w} : pc'[v] = pc[v] /\ cur'[v] = cur[v]
  BY <1>2 DEF TakeJob, Types, PoolTypes
<1>4. jobs[1].op \in {"create", "run", "cancel"}
  BY <1>2 DEF Job
<1>5. /\ pc'[w] \in RunSteps <=> jobs[1].op = "run"
      /\ pc[w] \notin RunSteps
  BY <1>1, <1>3, <1>4 DEF FirstStep, RunSteps
<1>6. ASSUME NEW u \in Task  PROVE Running(u)' <=> Running(u)
  <2>1. jobs[1] = [op |-> "run", task |-> u] <=> pc'[w] \in RunSteps /\ cur'[w] = u
    BY <1>2, <1>3, <1>5 DEF Job
  <2>2. (\E i \in DOMAIN jobs : jobs[i] = [op |-> "run", task |-> u])
          <=> \/ jobs[1] = [op |-> "run", task |-> u]
              \/ \E i \in DOMAIN jobs' : jobs'[i] = [op |-> "run", task |-> u]
    BY <1>2
  <2>3. (\E v \in Slot : pc'[v] \in RunSteps /\ cur'[v] = u)
          <=> \/ pc'[w] \in RunSteps /\ cur'[w] = u
              \/ \E v \in Slot : pc[v] \in RunSteps /\ cur[v] = u
    BY <1>3, <1>5
  <2> QED  BY <2>1, <2>2, <2>3 DEF Running
<1> QED  BY <1>6

LEMMA RunningThread ==
    ASSUME Types, Quiet, NEW w \in Slot, AddNew(w) \/ RunStep(w), ~EraseDoing(w)
    PROVE  \A u \in Task : Running(u)' <=> Running(u)
<1>1. UNCHANGED <<jobs, cur>>
  BY DEF AddNew, RunStep, Start, Drive, GiveUp, Depart, Arrive, DoThings, Advance,
    ReAdd
<1>2. pc'[w] \in RunSteps <=> pc[w] \in RunSteps
  <2>1. CASE Advance(w)
    <3>1. pc[w] = "advance" /\ cur[w] \in Task
      BY <2>1 DEF Advance, Goto, Types, SlotHasTask
    <3>2. HandsBack(cur[w])
      BY <3>1 DEF HandsBack, Quiet
    <3> QED  BY <2>1, <3>1, <3>2 DEF Advance, Goto, RunSteps, Types, PoolTypes
  <2>2. CASE ~Advance(w)
    BY <2>2 DEF AddNew, RunStep, Start, Drive, GiveUp, Depart, Arrive, DoThings,
      ReAdd, EndStation, Goto, RunSteps, Types, PoolTypes
  <2> QED  BY <2>1, <2>2
<1>3. \A v \in Slot \ {w} : pc'[v] = pc[v]
  BY DEF AddNew, RunStep, Start, Drive, GiveUp, Depart, Arrive, DoThings,
    Advance, ReAdd, EndStation, Goto, Types, PoolTypes
<1> QED  BY <1>1, <1>2, <1>3 DEF Running

\* A step that changes neither doingTask nor who is being executed.
LEMMA DoingFrame ==
    ASSUME DoingExact, UNCHANGED doing, \A t \in Task : Running(t)' <=> Running(t)
    PROVE  DoingExact'
<1>1. RangeOf(doing)' = RangeOf(doing)
  BY DEF RangeOf
<1> QED  BY <1>1 DEF DoingExact

\* excuteTask: the task of the distributor's scan, which nobody executes yet,
\* enters doingTask and the pool.
LEMMA DoingExcute ==
    ASSUME Types, HolderInv, DoingExact, NEW t \in Task, At(t), Excute(t)
    PROVE  DoingExact'
<1>1. InQueue(t)
  BY DEF At, InQueue, RangeOf, Types, ListTypes
<1>2. ~Running(t)
  BY <1>1, RunningHeld DEF HolderInv, OneHolder, HoldersDisjoint, Types
<1>3. doing \in Seq(Task) /\ Distinct(doing) /\ t \notin RangeOf(doing)
  BY <1>2 DEF Types, ListTypes, DoingExact, Distinct
<1>4. RangeOf(doing') = RangeOf(doing) \cup {t} /\ Distinct(doing')
  BY <1>3, AppendRange DEF Excute
<1>6. \A u \in Task : Running(u)' <=> Running(u) \/ u = t
  BY RunningExcute DEF Types
<1>7. RangeOf(doing)' = {u \in Task : Running(u)'}
  <2>1. RangeOf(doing)' = RangeOf(doing')
    BY DEF RangeOf
  <2> QED  BY <1>4, <1>6, <2>1 DEF DoingExact
<1> QED  BY <1>4, <1>7 DEF DoingExact, Distinct

\* The end of the lambda: the thread erases its own task and runs no other.
LEMMA DoingErase ==
    ASSUME Types, HolderInv, DoingExact, NEW w \in Slot, EraseDoing(w)
    PROVE  DoingExact' /\ doing # <<>>
<1>1. PICK t \in Task : t = cur[w]
  BY DEF EraseDoing, Goto, Types, SlotHasTask
<1>2. /\ pc[w] = "erase" /\ pc'[w] = "readd" /\ \A v \in Slot \ {w} : pc'[v] = pc[v]
      /\ UNCHANGED <<jobs, cur>>
  BY DEF EraseDoing, Goto, Types, PoolTypes
<1>3. Running(t) /\ t \in RangeOf(doing)
  BY <1>1, <1>2 DEF Running, RunSteps, DoingExact
<1>4. doing \in Seq(Task) /\ Distinct(doing) /\ doing # <<>>
  BY <1>3 DEF Types, ListTypes, DoingExact, Distinct, RangeOf
<1>5. PICK i \in DOMAIN doing : i = Find(doing, t) /\ doing[i] = t
  BY <1>3, <1>4, FindFirst
<1>6. doing' = EraseAt(doing, i)
  BY <1>1, <1>3, <1>4, <1>5 DEF EraseDoing, DoingPos
<1>7. Distinct(doing') /\ RangeOf(doing') = RangeOf(doing) \ {t}
  BY <1>4, <1>5, <1>6, EraseAtDistinct
<1>8. InHand(w, t) /\ InSlot(t)
  BY <1>1, <1>2 DEF InHand, InSlot, HoldSteps, RunSteps
<1>9. ~RunJob(t) /\ \A v \in Slot \ {w} : ~InHand(v, t)
  BY <1>8 DEF HolderInv, OneHolder, HoldersDisjoint, SlotsDistinct, RunJob, InPool,
    Carries
<1>10. ASSUME NEW u \in Task  PROVE Running(u)' <=> Running(u) /\ u # t
  <2>1. CASE u = t
    <3>1. ~RunJob(t)'
      BY <1>2, <1>9 DEF RunJob
    <3>2. \A v \in Slot : ~(pc'[v] \in RunSteps /\ cur'[v] = t)
      BY <1>1, <1>2, <1>9 DEF InHand, RunSteps, HoldSteps
    <3>3. ~Running(t)'
      BY <3>1, <3>2, <1>2 DEF Running, RunJob
    <3> QED  BY <2>1, <3>3
  <2>2. CASE u # t
    BY <1>1, <1>2, <2>2 DEF Running
  <2> QED  BY <2>1, <2>2
<1>11. RangeOf(doing)' = {u \in Task : Running(u)'}
  <2>1. RangeOf(doing)' = RangeOf(doing')
    BY DEF RangeOf
  <2> QED  BY <1>7, <1>10, <2>1 DEF DoingExact
<1> QED  BY <1>4, <1>7, <1>11 DEF DoingExact, Distinct

LEMMA DoingThread ==
    ASSUME Types, HolderInv, Quiet, DoingExact, NEW w \in Slot,
           TakeJob(w) \/ AddNew(w) \/ RunStep(w)
    PROVE  DoingExact'
<1>1. CASE TakeJob(w)
  BY <1>1, RunningTakeJob, DoingFrame DEF TakeJob, listVars
<1>2. CASE EraseDoing(w)
  BY <1>2, DoingErase
<1>3. CASE ~TakeJob(w) /\ ~EraseDoing(w)
  <2>1. UNCHANGED doing
    BY <1>3 DEF AddNew, RunStep, Start, Drive, GiveUp, Depart, Arrive, DoThings,
      Advance, ReAdd, Add, listVars
  <2> QED  BY <1>3, <2>1, RunningThread, DoingFrame
<1> QED  BY <1>1, <1>2, <1>3

LEMMA DoingNext ==
    Types /\ HolderInv /\ QuietInv /\ DoingInv /\ [Next]_vars => DoingInv'
<1> SUFFICES ASSUME Types, HolderInv, QuietInv, DoingInv, [Next]_vars, asked' = {}
             PROVE  DoingExact'
  BY DEF DoingInv
<1>1. DoingExact /\ Quiet /\ (QuietNext \/ UNCHANGED vars)
  BY QuietSteps DEF DoingInv
<1>2. CASE UNCHANGED vars
  BY <1>1, <1>2, DoingFrame DEF vars, listVars, poolVars, Running
<1>3. ASSUME NEW t \in Task, RequestCreate(t)  PROVE DoingExact'
  BY <1>1, <1>3, RunningCreate, DoingFrame DEF RequestCreate, listVars, Types
<1>4. CASE Distributor
  <2>1. CASE UNCHANGED <<jobs, doing, pc, cur>>
    BY <1>1, <2>1, DoingFrame DEF Running
  <2>2. ASSUME NEW t \in Task, At(t), Excute(t)  PROVE DoingExact'
    BY <1>1, <2>2, DoingExcute
  <2> QED  BY <1>4, <2>1, <2>2, DistributorPool
<1>5. ASSUME NEW w \in Slot, TakeJob(w) \/ AddNew(w) \/ RunStep(w)  PROVE DoingExact'
  BY <1>1, <1>5, DoingThread
<1> QED  BY <1>1, <1>2, <1>3, <1>4, <1>5 DEF QuietNext

LEMMA QuietInit == Init => QuietInv /\ DoingInv
<1> SUFFICES ASSUME Init PROVE Quiet /\ DoingExact
  BY DEF QuietInv, DoingInv
<1>1. Quiet
  BY DEF Init, Quiet, CancelSteps
<1>2. \A t \in Task : ~Running(t)
  BY DEF Init, Running, RunSteps
<1>3. RangeOf(doing) = {} /\ DOMAIN doing = {}
  BY DEF Init, RangeOf
<1> QED  BY <1>1, <1>2, <1>3 DEF DoingExact

\* Until a client first asks to cancel a task, doingTask lists exactly the
\* tasks being executed, each once, however many there are and however the
\* threads interleave; so the find in the lambda of excuteTask always succeeds
\* (taskmanager.cpp:600-668).
THEOREM DoingExactAlways == Spec => [](asked = {} => DoingExact)
<1> DEFINE Inv == Types /\ HolderInv /\ QuietInv /\ DoingInv
<1>1. Init => Inv
  BY InitTypes, HolderInit, QuietInit
<1>2. Inv /\ [Next]_vars => Inv'
  BY TypesNext, HolderNext, QuietNextInv, DoingNext DEF HolderStep
<1>3. Inv => (asked = {} => DoingExact)
  BY DEF DoingInv
<1> QED  BY <1>1, <1>2, <1>3, PTL DEF Spec

\* erase(end()) on an empty doingTask is the one step that crashes.
LEMMA CrashStep ==
    ASSUME Types, ~broken, [Next]_vars, broken'
    PROVE  \E w \in Slot : EraseDoing(w) /\ doing = <<>>
<1>1. broken' # broken
  OBVIOUS
<1>2. ~Client /\ ~UNCHANGED vars /\ ~ScanStart /\ ~ScanNext
  BY <1>1 DEF Client, RequestCreate, RequestCancel, ScanStart, ScanNext, vars, listVars
<1>3. ASSUME NEW t \in Task  PROVE ~DistributeTask(t)
  BY <1>1 DEF DistributeTask, Finish, RunAgain, ExcuteInPlace, Continue, Postpone,
    AssignIdle, AssignHalt, ContinueHalt, Take, Excute, listVars
<1>4. PICK w \in Slot : Thread(w)
  BY <1>2, <1>3 DEF Next, Distributor
<1>5. EraseDoing(w)
  BY <1>1, <1>4 DEF Thread, TakeJob, AddNew, RunStep, Start, Drive, GiveUp, Depart,
    Arrive, DoThings, Advance, ReAdd, Add, CancelStep, CancelQueued, CancelDoing,
    CancelMark, CancelAgv, CancelRelease, listVars
<1>6. doing = <<>>
  BY <1>5 DEF EraseDoing
<1> QED  BY <1>5, <1>6

\* Without cancel requests the dispatcher never erases from an empty
\* doingTask (taskmanager.cpp:660-662).
THEOREM NoCrashBeforeCancel == Spec => [](asked = {} => ~broken)
<1> DEFINE Inv == Types /\ HolderInv /\ QuietInv /\ DoingInv
           Whole == asked = {} => ~broken
<1>1. Init => Inv /\ Whole
  BY InitTypes, HolderInit, QuietInit DEF Init
<1>2. Inv /\ [Next]_vars => Inv'
  BY TypesNext, HolderNext, QuietNextInv, DoingNext DEF HolderStep
<1>3. Inv /\ Whole /\ [Next]_vars => Whole'
  <2> SUFFICES ASSUME Inv, Whole, [Next]_vars, asked' = {}, broken'  PROVE FALSE
    OBVIOUS
  <2>1. asked = {}
    BY AskedGrows
  <2>2. PICK w \in Slot : EraseDoing(w) /\ doing = <<>>
    BY <2>1, CrashStep
  <2> QED  BY <2>1, <2>2, DoingErase DEF DoingInv
<1> QED  BY <1>1, <1>2, <1>3, PTL DEF Spec

-----------------------------------------------------------------------------
(* A task keeps its vehicle from its first node to its last.               *)

\* Nobody has asked to cancel a task, and no client has created a task that
\* names a vehicle and has no nodes: the first scan finishes such a task, and
\* finishTask releases the vehicle it names, whoever is using it.
Undisturbed ==
    /\ asked = {}
    /\ \A t \in submitted : Nodes[t] = <<>> => Assigned[t] = NoAgv

\* A vehicle is in state TASKING exactly while it has a task.
TaskingInv == \A a \in Agv : currentTask[a] # NoTask <=> agvStatus[a] = "tasking"

DoneInv == \A t \in Task : status[t] = "done" => t \in RangeOf(done)

\* A task created without nodes stays so, and is given no vehicle.
NodesInv ==
    \A t \in Task :
        /\ Nodes[t] # <<>> => nodes[t] # <<>>
        /\ Nodes[t] = <<>> => nodes[t] = <<>> /\ agvOf[t] = Assigned[t]

\* A task some node of which was begun is "excuting" until it is done.
BegunSteps == {"drive", "wait", "moving", "things", "advance"}
Begun(t) == index[t] > 0 \/ \E w \in Slot : pc[w] \in BegunSteps /\ cur[w] = t
BegunInv == asked = {} =>
    \A t \in Task : Begun(t) => status[t] \in {"excuting", "done"}

Needs(t) == status[t] = "excuting" \/ Running(t)
Engaged(t) == agvOf[t] \in Agv /\ currentTask[agvOf[t]] = t
EngagedInv == Undisturbed => \A t \in Task : Needs(t) => Engaged(t)

LEMMA TaskingNext == Types /\ TaskingInv /\ [Next]_vars => TaskingInv'
<1> SUFFICES ASSUME Types, TaskingInv, [Next]_vars PROVE TaskingInv'
  OBVIOUS
<1>1. /\ currentTask \in [Agv -> Task \cup {NoTask}]
      /\ agvStatus \in [Agv -> {"idle", "tasking"}]
  BY DEF Types, AgvTypes
<1>2. ASSUME UNCHANGED <<currentTask, agvStatus>>  PROVE TaskingInv'
  BY <1>2 DEF TaskingInv
<1>3. ASSUME NEW a, currentTask' = [currentTask EXCEPT ![a] = NoTask],
             agvStatus' = [agvStatus EXCEPT ![a] = "idle"]
      PROVE  TaskingInv'
  BY <1>1, <1>3 DEF TaskingInv
<1>4. ASSUME NEW t \in Task, NEW a, NEW r, Take(t, a, r)  PROVE TaskingInv'
  <2>1. /\ currentTask' = [currentTask EXCEPT ![a] = t]
        /\ agvStatus' = [agvStatus EXCEPT ![a] = "tasking"]
    BY <1>4 DEF Take
  <2> QED  BY <1>1, <2>1, TaskAssumption DEF TaskingInv
<1>5. CASE UNCHANGED vars
  BY <1>2, <1>5 DEF vars, agvVars
<1>6. CASE Client \/ ScanStart \/ ScanNext
  BY <1>2, <1>6 DEF Client, RequestCreate, RequestCancel, ScanStart, ScanNext, agvVars
<1>7. ASSUME NEW t \in Task, DistributeTask(t)  PROVE TaskingInv'
  <2>1. CASE Finish(t)
    BY <1>2, <1>3, <2>1 DEF Finish
  <2>2. CASE RunAgain(t) \/ ExcuteInPlace(t) \/ Postpone(t)
    BY <1>2, <2>2 DEF RunAgain, ExcuteInPlace, Postpone, agvVars
  <2>3. CASE Continue(t) \/ \E h \in Halt : ContinueHalt(t, h)
    BY <1>4, <2>3 DEF Continue, ContinueHalt
  <2>4. CASE \/ \E a \in Agv : AssignIdle(t, a)
             \/ \E a \in Agv, h \in Halt : AssignHalt(t, a, h)
    BY <1>4, <2>4 DEF AssignIdle, AssignHalt
  <2> QED  BY <1>7, <2>1, <2>2, <2>3, <2>4 DEF DistributeTask
<1>8. ASSUME NEW w \in Slot, TakeJob(w) \/ AddNew(w) \/ RunStep(w)
      PROVE  TaskingInv'
  BY <1>2, <1>8 DEF TakeJob, AddNew, RunStep, Start, Drive, GiveUp, Depart, Arrive,
    DoThings, Advance, EraseDoing, ReAdd, agvVars
<1>9. ASSUME NEW w \in Slot, CancelStep(w)  PROVE TaskingInv'
  <2>1. CASE CancelRelease(w)
    BY <1>2, <1>3, <2>1 DEF CancelRelease
  <2>2. CASE ~CancelRelease(w)
    BY <1>2, <1>9, <2>2 DEF CancelStep, CancelQueued, CancelDoing, CancelMark,
      CancelAgv, agvVars
  <2> QED  BY <2>1, <2>2
<1> QED  BY <1>5, <1>6, <1>7, <1>8, <1>9 DEF Next, Distributor, Thread

LEMMA DoneNext == Types /\ DoneInv /\ [Next]_vars => DoneInv'
<1> SUFFICES ASSUME Types, DoneInv, [Next]_vars PROVE DoneInv'
  OBVIOUS
<1>1. /\ status \in [Task -> {"unexcute", "excuting", "done", "cancel"}]
      /\ done \in Seq(Task)
  BY DEF Types, ListTypes, TaskTypes
<1>2. ASSUME UNCHANGED done, \A t \in Task : status'[t] = "done" => status[t] = "done"
      PROVE  DoneInv'
  BY <1>2 DEF DoneInv, RangeOf
<1>3. CASE UNCHANGED vars
  BY <1>2, <1>3 DEF vars, listVars, taskVars
<1>4. CASE Client \/ ScanStart \/ ScanNext
  BY <1>2, <1>4 DEF Client, RequestCreate, RequestCancel, ScanStart, ScanNext,
    listVars, taskVars
<1>5. ASSUME NEW t \in Task, DistributeTask(t)  PROVE DoneInv'
  <2>1. CASE Finish(t)
    <3>1. done' = Append(done, t) /\ status' = [status EXCEPT ![t] = "done"]
      BY <2>1 DEF Finish
    <3>2. RangeOf(done') = RangeOf(done) \cup {t}
      BY <1>1, <3>1, AppendRange
    <3>3. RangeOf(done)' = RangeOf(done')
      BY DEF RangeOf
    <3> QED  BY <1>1, <3>1, <3>2, <3>3 DEF DoneInv
  <2>2. CASE ~Finish(t)
    <3>1. UNCHANGED <<done, status>>
      BY <1>5, <2>2 DEF DistributeTask, RunAgain, ExcuteInPlace, Continue, Postpone,
        AssignIdle, AssignHalt, ContinueHalt, Take, Excute, listVars, taskVars
    <3> QED  BY <1>2, <3>1
  <2> QED  BY <2>1, <2>2
<1>6. ASSUME NEW w \in Slot, Thread(w)  PROVE DoneInv'
  <2>1. UNCHANGED done
    BY <1>6 DEF Thread, TakeJob, AddNew, RunStep, Start, Drive, GiveUp, Depart, Arrive,
      DoThings, Advance, EraseDoing, ReAdd, Add, CancelStep, CancelQueued, CancelDoing,
      CancelMark, CancelAgv, CancelRelease, listVars
  <2>2. \/ UNCHANGED status
        \/ \E x \in {"excuting", "cancel"} : status' = [status EXCEPT ![cur[w]] = x]
    BY <1>6 DEF Thread, TakeJob, AddNew, RunStep, Start, Drive, GiveUp, Depart, Arrive,
      DoThings, Advance, EraseDoing, ReAdd, CancelStep, CancelQueued, CancelDoing,
      CancelMark, CancelAgv, CancelRelease, taskVars
  <2>3. \A t \in Task : status'[t] = "done" => status[t] = "done"
    BY <1>1, <2>2
  <2> QED  BY <1>2, <2>1, <2>3
<1> QED  BY <1>3, <1>4, <1>5, <1>6 DEF Next, Distributor

LEMMA NodesNext == Types /\ NodesInv /\ [Next]_vars => NodesInv'
<1> SUFFICES ASSUME Types, NodesInv, [Next]_vars PROVE NodesInv'
  OBVIOUS
<1>1. /\ nodes \in [Task -> Seq(Node)] /\ index \in [Task -> Nat]
      /\ agvOf \in [Task -> Agv \cup {NoAgv}]
  BY DEF Types, TaskTypes
<1>2. ASSUME UNCHANGED <<nodes, agvOf>>  PROVE NodesInv'
  BY <1>2 DEF NodesInv
<1>3. ASSUME NEW t \in Task, NEW a, NEW r, Take(t, a, r), ~Completed(t),
             UNCHANGED nodes \/ \E h \in Halt : PushHalt(t, h)
      PROVE  NodesInv'
  <2>1. Nodes[t] # <<>>
    <3>1. nodes[t] # <<>>
      BY <1>1, <1>3 DEF Completed
    <3> QED  BY <3>1 DEF NodesInv
  <2>2. agvOf' = [agvOf EXCEPT ![t] = a]
    BY <1>3 DEF Take, SetAgv
  <2>3. nodes'[t] # <<>> /\ \A u \in Task \ {t} : nodes'[u] = nodes[u]
    <3>1. CASE UNCHANGED nodes
      BY <2>1, <3>1 DEF NodesInv
    <3>2. ASSUME NEW h \in Halt, PushHalt(t, h)
          PROVE  nodes'[t] # <<>> /\ \A u \in Task \ {t} : nodes'[u] = nodes[u]
      <4>1. nodes'[t] = <<[station |-> h, id |-> 0]>> \o nodes[t]
            /\ \A u \in Task \ {t} : nodes'[u] = nodes[u]
        BY <1>1, <3>2 DEF PushHalt
      <4>2. <<[station |-> h, id |-> 0]>> \in Seq(Node)
        BY StationAssumption DEF Node, Aim
      <4>3. Len(nodes'[t]) = 1 + Len(nodes[t]) /\ Len(nodes[t]) \in Nat
        BY <1>1, <4>1, <4>2, ConcatProperties
      <4>4. Len(<<>>) = 0
        OBVIOUS
      <4>5. nodes'[t] # <<>>
        BY <4>3, <4>4
      <4> QED  BY <4>1, <4>5
    <3> QED  BY <1>3, <3>1, <3>2
  <2>4. \A u \in Task \ {t} : agvOf'[u] = agvOf[u]
    BY <1>1, <2>2
  <2> QED  BY <2>1, <2>3, <2>4 DEF NodesInv
<1>4. CASE UNCHANGED vars
  BY <1>2, <1>4 DEF vars, taskVars
<1>5. CASE Client \/ ScanStart \/ ScanNext
  BY <1>2, <1>5 DEF Client, RequestCreate, RequestCancel, ScanStart, ScanNext, taskVars
<1>6. ASSUME NEW t \in Task, DistributeTask(t)  PROVE NodesInv'
  <2>1. CASE Finish(t) \/ RunAgain(t) \/ ExcuteInPlace(t) \/ Postpone(t)
    BY <1>2, <2>1 DEF Finish, RunAgain, ExcuteInPlace, Postpone, taskVars
  <2>2. CASE Continue(t) \/ \E h \in Halt : ContinueHalt(t, h)
    BY <1>3, <2>2 DEF Continue, ContinueHalt
  <2>3. CASE \/ \E a \in Agv : AssignIdle(t, a)
             \/ \E a \in Agv, h \in Halt : AssignHalt(t, a, h)
    BY <1>3, <2>3 DEF AssignIdle, AssignHalt
  <2> QED  BY <1>6, <2>1, <2>2, <2>3 DEF DistributeTask
<1>7. ASSUME NEW w \in Slot, Thread(w)  PROVE NodesInv'
  BY <1>2, <1>7 DEF Thread, TakeJob, AddNew, RunStep, Start, Drive, GiveUp, Depart,
    Arrive, DoThings, Advance, EraseDoing, ReAdd, CancelStep, CancelQueued, CancelDoing,
    CancelMark, CancelAgv, CancelRelease, taskVars
<1> QED  BY <1>4, <1>5, <1>6, <1>7 DEF Next, Distributor

LEMMA BegunNext == Types /\ QuietInv /\ BegunInv /\ [Next]_vars => BegunInv'
<1> SUFFICES ASSUME Types, QuietInv, BegunInv, [Next]_vars, asked' = {},
                    NEW t \in Task, Begun(t)'
             PROVE  status'[t] \in {"excuting", "done"}
  BY DEF BegunInv
<1>1. asked = {} /\ (QuietNext \/ UNCHANGED vars)
  BY QuietSteps
<1>2. Begun(t) => status[t] \in {"excuting", "done"}
  BY <1>1 DEF BegunInv
<1>3. /\ status \in [Task -> {"unexcute", "excuting", "done", "cancel"}]
      /\ index \in [Task -> Nat]
      /\ pc \in [Slot -> {"idle"} \cup HoldSteps \cup CancelSteps]
  BY DEF Types, TaskTypes, PoolTypes
<1>4. CASE UNCHANGED vars
  BY <1>2, <1>4 DEF vars, taskVars, poolVars, Begun
<1>5. CASE \E u \in Task : RequestCreate(u)
  BY <1>2, <1>5 DEF RequestCreate, taskVars, Begun
<1>6. CASE ScanStart \/ ScanNext
  BY <1>2, <1>6 DEF ScanStart, ScanNext, taskVars, poolVars, Begun
<1>7. ASSUME NEW u \in Task, DistributeTask(u)
      PROVE  status'[t] \in {"excuting", "done"}
  <2>1. UNCHANGED <<pc, cur>>
    BY <1>7 DEF DistributeTask, Finish, RunAgain, ExcuteInPlace, Continue, Postpone,
      AssignIdle, AssignHalt, ContinueHalt, Take, Excute, poolVars
  <2>2. UNCHANGED index \/ index' = [index EXCEPT ![u] = 0]
    BY <1>7 DEF DistributeTask, Finish, RunAgain, Restart, ExcuteInPlace, Continue,
      Postpone, AssignIdle, AssignHalt, ContinueHalt, Take, taskVars
  <2>3. UNCHANGED status \/ status' = [status EXCEPT ![u] = "done"]
    BY <1>7 DEF DistributeTask, Finish, RunAgain, ExcuteInPlace, Continue, Postpone,
      AssignIdle, AssignHalt, ContinueHalt, Take, taskVars
  <2>4. Begun(t)
    BY <1>3, <2>1, <2>2 DEF Begun
  <2> QED  BY <1>2, <1>3, <2>3, <2>4
<1>8. ASSUME NEW w \in Slot, TakeJob(w) \/ AddNew(w)
      PROVE  status'[t] \in {"excuting", "done"}
  <2>1. pc'[w] \notin BegunSteps /\ UNCHANGED <<index, status>>
        /\ \A v \in Slot \ {w} : pc'[v] = pc[v] /\ cur'[v] = cur[v]
    <3>1. CASE TakeJob(w)
      <4>1. jobs # <<>> /\ jobs' = Tail(jobs)
        BY <3>1 DEF TakeJob
      <4>2. Head(jobs).op \in {"create", "run", "cancel"}
        BY <4>1, JobsTail DEF Types, Job
      <4>3. pc' = [pc EXCEPT ![w] = FirstStep(Head(jobs).op)]
            /\ cur' = [cur EXCEPT ![w] = Head(jobs).task]
            /\ UNCHANGED <<index, status>>
        BY <3>1 DEF TakeJob, taskVars
      <4>4. FirstStep(Head(jobs).op) \in {"add", "start", "cancelQueued"}
        BY <4>2 DEF FirstStep
      <4> QED  BY <1>3, <4>3, <4>4 DEF BegunSteps, Types, PoolTypes
    <3>2. CASE AddNew(w)
      BY <1>3, <3>2 DEF AddNew, Goto, BegunSteps, taskVars
    <3> QED  BY <1>8, <3>1, <3>2
  <2>2. Begun(t)
    BY <2>1 DEF Begun
  <2> QED  BY <1>2, <2>1, <2>2
<1>9. ASSUME NEW w \in Slot, RunStep(w)
      PROVE  status'[t] \in {"excuting", "done"}
  <2>1. /\ UNCHANGED cur /\ \A v \in Slot \ {w} : pc'[v] = pc[v]
        /\ cur[w] \in Task
    BY <1>3, <1>9 DEF RunStep, Start, Drive, GiveUp, Depart, Arrive, DoThings, Advance,
      EraseDoing, ReAdd, EndStation, Goto, Types, SlotHasTask
  <2>2. CASE Start(w)
    <3>1. status' = [status EXCEPT ![cur[w]] = "excuting"] /\ UNCHANGED index
      BY <2>2 DEF Start
    <3>2. Begun(t) \/ t = cur[w]
      BY <2>1, <3>1 DEF Begun
    <3> QED  BY <1>2, <1>3, <3>1, <3>2
  <2>3. CASE Advance(w)
    <3>1. pc[w] = "advance" /\ pc'[w] \notin BegunSteps /\ UNCHANGED status
          /\ \A u \in Task : u # cur[w] => index'[u] = index[u]
      BY <1>3, <2>3 DEF Advance, Goto, BegunSteps
    <3>2. Begun(cur[w])
      BY <2>1, <3>1 DEF Begun, BegunSteps
    <3>3. Begun(t)
      BY <2>1, <3>1, <3>2 DEF Begun
    <3> QED  BY <1>2, <3>1, <3>3
  <2>4. CASE ~Start(w) /\ ~Advance(w)
    <3>1. UNCHANGED <<index, status>>
      BY <1>9, <2>4 DEF RunStep, Drive, GiveUp, Depart, Arrive, DoThings, EraseDoing,
        ReAdd, taskVars
    <3>2. pc'[w] \in BegunSteps => pc[w] \in BegunSteps
      BY <1>3, <1>9, <2>4 DEF RunStep, Drive, GiveUp, Depart, Arrive, DoThings,
        EraseDoing, ReAdd, EndStation, Goto, BegunSteps
    <3>3. Begun(t)
      BY <2>1, <3>1, <3>2 DEF Begun
    <3> QED  BY <1>2, <3>1, <3>3
  <2> QED  BY <2>2, <2>3, <2>4
<1> QED  BY <1>1, <1>4, <1>5, <1>6, <1>7, <1>8, <1>9 DEF QuietNext, Distributor

\* A step that gives no task a new need and moves no vehicle between tasks.
LEMMA EngagedFrame ==
    ASSUME \A t \in Task : Needs(t) => Engaged(t),
           UNCHANGED <<agvOf, currentTask>>, \A t \in Task : Needs(t)' => Needs(t)
    PROVE  \A t \in Task : (Needs(t) => Engaged(t))'
BY DEF Engaged

\* A vehicle goes to task t, which has it already, or it is free.
LEMMA EngagedTake ==
    ASSUME Types, TaskingInv, \A t \in Task : Needs(t) => Engaged(t),
           NEW t \in Task, NEW a \in Agv, NEW r, Take(t, a, r),
           currentTask[a] = t \/ Idle(a)
    PROVE  \A u \in Task : (Needs(u) => Engaged(u))'
<1>1. /\ currentTask' = [currentTask EXCEPT ![a] = t]
      /\ agvOf' = [agvOf EXCEPT ![t] = a]
      /\ UNCHANGED status /\ Excute(t)
  BY DEF Take, SetAgv
<1>2. /\ currentTask \in [Agv -> Task \cup {NoTask}]
      /\ agvOf \in [Task -> Agv \cup {NoAgv}]
  BY DEF Types, TaskTypes, AgvTypes
<1>3. currentTask[a] \in {t, NoTask}
  BY <1>2 DEF TaskingInv, Idle
<1> SUFFICES ASSUME NEW u \in Task, Needs(u)'  PROVE Engaged(u)'
  OBVIOUS
<1>4. CASE u = t
  BY <1>1, <1>2, <1>4 DEF Engaged
<1>5. CASE u # t
  <2>1. Running(u)' <=> Running(u)
    BY <1>1, <1>5, RunningExcute DEF Types
  <2>2. Engaged(u)
    BY <1>1, <2>1 DEF Needs
  <2>3. agvOf[u] # a /\ agvOf'[u] = agvOf[u]
    BY <1>1, <1>2, <1>3, <1>5, <2>2, TaskAssumption DEF Engaged
  <2> QED  BY <1>1, <1>2, <2>2, <2>3 DEF Engaged
<1> QED  BY <1>4, <1>5

\* finishTask releases the vehicle of t only: t was begun and has it.
LEMMA EngagedFinish ==
    ASSUME Types, HolderInv, DoneInv, NodesInv, BegunInv, Undisturbed,
           \A t \in Task : Needs(t) => Engaged(t), NEW t \in Task, Finish(t)
    PROVE  \A u \in Task : (Needs(u) => Engaged(u))'
<1>1. /\ currentTask \in [Agv -> Task \cup {NoTask}]
      /\ agvOf \in [Task -> Agv \cup {NoAgv}] /\ NoAgv \notin Agv
      /\ status \in [Task -> {"unexcute", "excuting", "done", "cancel"}]
      /\ nodes[t] \in Seq(Node) /\ index[t] \in Nat
  BY AgvAssumption DEF Types, TaskTypes, AgvTypes
<1>2. /\ At(t) /\ Completed(t) /\ status' = [status EXCEPT ![t] = "done"]
      /\ UNCHANGED <<agvOf, jobs, pc, cur>>
  BY DEF Finish, poolVars
<1>3. InQueue(t)
  BY <1>2 DEF At, InQueue, RangeOf, Types, ListTypes
<1>4. t \in submitted /\ t \notin RangeOf(done) /\ ~Running(t)
  BY <1>3, RunningHeld DEF HolderInv, OneHolder, HoldersDisjoint, Fresh, Held, Types
<1>5. \A u \in Task : Running(u)' <=> Running(u)
  BY <1>2 DEF Running
<1>6. ~Needs(t)' /\ \A u \in Task \ {t} : Needs(u)' <=> Needs(u)
  <2>1. status'[t] = "done" /\ \A u \in Task \ {t} : status'[u] = status[u]
    BY <1>1, <1>2
  <2> QED  BY <1>4, <1>5, <2>1 DEF Needs
<1>7. CASE agvOf[t] = NoAgv
  <2>1. UNCHANGED currentTask
    BY <1>7 DEF Finish
  <2>2. \A u \in Task : Needs(u)' => Needs(u)
    BY <1>6
  <2> QED  BY <1>2, <2>1, <2>2, EngagedFrame
<1>8. CASE agvOf[t] # NoAgv
  <2>1. Nodes[t] # <<>>
    BY <1>4, <1>8 DEF NodesInv, Undisturbed
  <2>2. index[t] > 0
    <3>1. nodes[t] # <<>>
      BY <2>1 DEF NodesInv
    <3> QED  BY <1>1, <1>2, <3>1 DEF Completed
  <2>3. status[t] \in {"excuting", "done"}
    BY <2>2 DEF BegunInv, Begun, Undisturbed
  <2>4. Engaged(t)
    BY <1>4, <2>3 DEF DoneInv, Needs
  <2>5. currentTask' = [currentTask EXCEPT ![agvOf[t]] = NoTask]
    BY <1>8 DEF Finish
  <2> SUFFICES ASSUME NEW u \in Task, Needs(u)'  PROVE Engaged(u)'
    OBVIOUS
  <2>6. u # t /\ Engaged(u)
    BY <1>6
  <2>7. agvOf[u] # agvOf[t]
    BY <2>4, <2>6 DEF Engaged
  <2> QED  BY <1>1, <1>2, <2>5, <2>6, <2>7 DEF Engaged
<1> QED  BY <1>7, <1>8

LEMMA EngagedDistributor ==
    ASSUME Types, HolderInv, TaskingInv, DoneInv, NodesInv, BegunInv, Undisturbed,
           \A t \in Task : Needs(t) => Engaged(t), Distributor
    PROVE  \A u \in Task : (Needs(u) => Engaged(u))'
<1> DEFINE Goal == \A u \in Task : (Needs(u) => Engaged(u))'
<1>1. CASE ScanStart \/ ScanNext
  BY <1>1, EngagedFrame DEF ScanStart, ScanNext, taskVars, agvVars, poolVars, Needs,
    Running
<1>2. ASSUME NEW t \in Task, DistributeTask(t)  PROVE Goal
  <2>1. CASE Finish(t)
    BY <2>1, EngagedFinish
  <2>2. CASE RunAgain(t) \/ Postpone(t)
    BY <2>2, EngagedFrame DEF RunAgain, Postpone, taskVars, agvVars, poolVars, Needs,
      Running
  <2>3. CASE ExcuteInPlace(t)
    <3>1. /\ Excute(t) /\ UNCHANGED <<agvOf, currentTask, status>>
          /\ agvOf[t] # NoAgv /\ currentTask[agvOf[t]] = t
      BY <2>3 DEF ExcuteInPlace, taskVars, agvVars
    <3>2. agvOf[t] \in Agv
      BY <3>1 DEF Types, TaskTypes
    <3>3. Engaged(t)
      BY <3>1, <3>2 DEF Engaged
    <3>4. \A u \in Task : Running(u)' <=> Running(u) \/ u = t
      BY <3>1, RunningExcute DEF Types
    <3>5. \A u \in Task : Needs(u)' => Engaged(u)
      BY <3>1, <3>3, <3>4 DEF Needs
    <3> QED  BY <3>1, <3>5 DEF Engaged
  <2>4. CASE Continue(t) \/ \E h \in Halt : ContinueHalt(t, h)
    <3>1. /\ agvOf[t] \in Agv /\ \E r : Take(t, agvOf[t], r)
          /\ currentTask[agvOf[t]] = t \/ Idle(agvOf[t])
      BY <2>4 DEF Continue, ContinueHalt, OwnAgv, Types, TaskTypes
    <3>2. PICK a \in Agv : a = agvOf[t]
      BY <3>1
    <3>3. PICK r : Take(t, a, r)
      BY <3>1, <3>2
    <3> QED  BY <3>1, <3>2, <3>3, EngagedTake
  <2>5. CASE \/ \E a \in Agv : AssignIdle(t, a)
             \/ \E a \in Agv, h \in Halt : AssignHalt(t, a, h)
    <3>1. PICK a \in Agv : AssignIdle(t, a) \/ \E h \in Halt : AssignHalt(t, a, h)
      BY <2>5
    <3>2. Idle(a) /\ \E r : Take(t, a, r)
      BY <3>1 DEF AssignIdle, AssignHalt
    <3>3. PICK r : Take(t, a, r)
      BY <3>2
    <3> QED  BY <3>2, <3>3, EngagedTake
  <2> QED  BY <1>2, <2>1, <2>2, <2>3, <2>4, <2>5 DEF DistributeTask
<1> QED  BY <1>1, <1>2 DEF Distributor

LEMMA EngagedThread ==
    ASSUME Types, HolderInv, Quiet, \A t \in Task : Needs(t) => Engaged(t),
           NEW w \in Slot, TakeJob(w) \/ AddNew(w) \/ RunStep(w)
    PROVE  \A u \in Task : (Needs(u) => Engaged(u))'
<1>1. UNCHANGED <<agvOf, currentTask>>
  BY DEF TakeJob, AddNew, RunStep, Start, Drive, GiveUp, Depart, Arrive, DoThings,
    Advance, EraseDoing, ReAdd, taskVars, agvVars
<1>2. \A u \in Task : Running(u)' => Running(u)
  <2>1. CASE TakeJob(w)
    BY <2>1, RunningTakeJob
  <2>2. CASE EraseDoing(w)
    <3>1. /\ UNCHANGED <<jobs, cur>> /\ pc'[w] = "readd"
          /\ \A v \in Slot \ {w} : pc'[v] = pc[v]
      BY <2>2 DEF EraseDoing, Goto, Types, PoolTypes
    <3> QED  BY <3>1 DEF Running, RunSteps
  <2>3. CASE ~TakeJob(w) /\ ~EraseDoing(w)
    BY <2>3, RunningThread
  <2> QED  BY <2>1, <2>2, <2>3
<1>3. \A u \in Task : Needs(u)' => Needs(u)
  <2>1. CASE Start(w)
    <3>1. PICK t \in Task : t = cur[w]
      BY <2>1 DEF Start, Goto, Types, SlotHasTask
    <3>2. Running(t) /\ status' = [status EXCEPT ![t] = "excuting"]
      BY <2>1, <3>1 DEF Start, Goto, Running, RunSteps
    <3>3. \A u \in Task \ {t} : status'[u] = status[u]
      BY <3>2 DEF Types, TaskTypes
    <3> QED  BY <1>2, <3>2, <3>3 DEF Needs
  <2>2. CASE ~Start(w)
    <3>1. UNCHANGED status
      BY <2>2 DEF TakeJob, AddNew, RunStep, Drive, GiveUp, Depart, Arrive, DoThings,
        Advance, EraseDoing, ReAdd, taskVars
    <3> QED  BY <1>2, <3>1 DEF Needs
  <2> QED  BY <2>1, <2>2
<1> QED  BY <1>1, <1>3, EngagedFrame

DriveInv == /\ Types /\ HolderInv /\ QuietInv
            /\ TaskingInv /\ DoneInv /\ NodesInv /\ BegunInv

LEMMA EngagedNext == DriveInv /\ EngagedInv /\ [Next]_vars => EngagedInv'
<1> SUFFICES ASSUME DriveInv, EngagedInv, [Next]_vars, Undisturbed'
             PROVE  \A t \in Task : (Needs(t) => Engaged(t))'
  BY DEF EngagedInv
<1>1. Types /\ HolderInv /\ TaskingInv /\ DoneInv /\ NodesInv /\ BegunInv
  BY DEF DriveInv
<1>2. asked = {} /\ Quiet /\ (QuietNext \/ UNCHANGED vars)
  BY QuietSteps DEF DriveInv, Undisturbed
<1>3. submitted \subseteq submitted'
  <2>1. CASE UNCHANGED vars
    BY <2>1 DEF vars, clientVars
  <2>2. CASE (\E t \in Task : RequestCreate(t)) \/ ScanStart \/ ScanNext
    BY <2>2 DEF RequestCreate, ScanStart, ScanNext, clientVars
  <2>3. ASSUME NEW t \in Task, DistributeTask(t)  PROVE UNCHANGED submitted
    BY <2>3 DEF DistributeTask, Finish, RunAgain, ExcuteInPlace, Continue, Postpone,
      AssignIdle, AssignHalt, ContinueHalt, Take, clientVars
  <2>4. ASSUME NEW w \in Slot, TakeJob(w) \/ AddNew(w) \/ RunStep(w)
        PROVE  UNCHANGED submitted
    BY <2>4 DEF TakeJob, AddNew, RunStep, Start, Drive, GiveUp, Depart, Arrive,
      DoThings, Advance, EraseDoing, ReAdd, clientVars
  <2> QED  BY <1>2, <2>1, <2>2, <2>3, <2>4 DEF QuietNext, Distributor
<1>4. Undisturbed /\ \A t \in Task : Needs(t) => Engaged(t)
  BY <1>2, <1>3 DEF Undisturbed, EngagedInv
<1>5. CASE UNCHANGED vars
  BY <1>4, <1>5, EngagedFrame DEF vars, taskVars, agvVars, poolVars, Needs, Running
<1>6. ASSUME NEW t \in Task, RequestCreate(t)
      PROVE  \A u \in Task : (Needs(u) => Engaged(u))'
  <2>1. UNCHANGED <<agvOf, currentTask, status>>
    BY <1>6 DEF RequestCreate, taskVars, agvVars
  <2>2. \A u \in Task : Needs(u)' => Needs(u)
    BY <1>1, <1>6, <2>1, RunningCreate DEF Needs, Types
  <2> QED  BY <1>4, <2>1, <2>2, EngagedFrame
<1>7. CASE Distributor
  BY <1>1, <1>4, <1>7, EngagedDistributor
<1>8. ASSUME NEW w \in Slot, TakeJob(w) \/ AddNew(w) \/ RunStep(w)
      PROVE  \A u \in Task : (Needs(u) => Engaged(u))'
  BY <1>1, <1>2, <1>4, <1>8, EngagedThread
<1> QED  BY <1>2, <1>5, <1>6, <1>7, <1>8 DEF QuietNext

LEMMA DriveInit == Init => DriveInv /\ EngagedInv
<1> SUFFICES ASSUME Init PROVE DriveInv /\ EngagedInv
  OBVIOUS
<1>1. Types /\ HolderInv /\ QuietInv
  BY InitTypes, HolderInit, QuietInit
<1>2. TaskingInv /\ DoneInv
  BY DEF Init, TaskingInv, DoneInv
<1>3. NodesInv
  <2> SUFFICES ASSUME NEW t \in Task
               PROVE  /\ Nodes[t] # <<>> => nodes[t] # <<>>
                      /\ Nodes[t] = <<>> => nodes[t] = <<>> /\ agvOf[t] = Assigned[t]
    BY DEF NodesInv
  <2>1. nodes[t] = [i \in 1..Len(Nodes[t]) |-> [station |-> Nodes[t][i], id |-> i]]
        /\ agvOf[t] = Assigned[t]
    BY DEF Init
  <2>2. Nodes[t] \in Seq(Aim) /\ nodes[t] \in Seq(Node)
    BY <1>1, TaskAssumption DEF Types, TaskTypes
  <2>3. DOMAIN nodes[t] = DOMAIN Nodes[t]
    BY <2>1, <2>2
  <2> QED  BY <2>1, <2>2, <2>3
<1>4. BegunInv
  BY DEF Init, BegunInv, Begun, BegunSteps
<1>5. EngagedInv
  BY DEF Init, EngagedInv, Needs, Running, RunSteps
<1> QED  BY <1>1, <1>2, <1>3, <1>4, <1>5 DEF DriveInv

LEMMA DriveNext == DriveInv /\ EngagedInv /\ [Next]_vars => (DriveInv /\ EngagedInv)'
BY TypesNext, HolderNext, QuietNextInv, TaskingNext, DoneNext, NodesNext, BegunNext,
  EngagedNext DEF DriveInv, HolderStep

\* From its first node to its last a task keeps its vehicle, whatever the
\* other tasks and vehicles do, also while it waits in the queue between two
\* nodes; until a client asks to cancel a task, or creates one that names a
\* vehicle and has no nodes (taskmanager.cpp:136-150, 252-335, 353-408).
THEOREM HeldUntilDoneAlways == Spec => [](Undisturbed => HeldUntilDone)
<1>1. DriveInv /\ EngagedInv => (Undisturbed => HeldUntilDone)
  <2> SUFFICES ASSUME DriveInv, EngagedInv, Undisturbed, NEW t \in Task,
                      status[t] = "excuting"
               PROVE  /\ agvOf[t] # NoAgv
                      /\ currentTask[agvOf[t]] = t /\ agvStatus[agvOf[t]] = "tasking"
    BY DEF HeldUntilDone
  <2>1. agvOf[t] \in Agv /\ currentTask[agvOf[t]] = t
    BY DEF EngagedInv, Needs, Engaged
  <2> QED  BY <2>1, AgvAssumption, TaskAssumption DEF DriveInv, TaskingInv
<1> QED  BY <1>1, DriveInit, DriveNext, PTL DEF Spec

\* No two threads drive or operate one vehicle, under the same condition, for
\* any number of threads, tasks and vehicles (taskmanager.cpp:252-335, 600-668;
\* virtualrosagv.cpp:44-88 moves the vehicle without any lock of its own).
THEOREM OneDriverAlways == Spec => [](Undisturbed => OneDriver)
<1>1. DriveInv /\ EngagedInv => (Undisturbed => OneDriver)
  <2> SUFFICES ASSUME DriveInv, EngagedInv, Undisturbed, NEW v \in Slot, NEW w \in Slot,
                      Operating(v), Operating(w), Vehicle(v) = Vehicle(w)
               PROVE  v = w
    BY DEF OneDriver
  <2>1. /\ pc[v] \in RunSteps /\ pc[w] \in RunSteps
        /\ cur[v] \in Task /\ cur[w] \in Task
    BY DEF Operating, RunSteps, DriveInv, Types, SlotHasTask
  <2>2. Running(cur[v]) /\ Running(cur[w])
    BY <2>1 DEF Running
  <2>3. Engaged(cur[v]) /\ Engaged(cur[w])
    BY <2>1, <2>2 DEF EngagedInv, Needs
  <2>4. cur[v] = cur[w]
    BY <2>3 DEF Engaged, Vehicle
  <2>5. InHand(v, cur[v]) /\ InHand(w, cur[v])
    BY <2>1, <2>4 DEF InHand, HoldSteps
  <2> QED  BY <2>1, <2>5 DEF DriveInv, HolderInv, OneHolder, SlotsDistinct
<1> QED  BY <1>1, DriveInit, DriveNext, PTL DEF Spec

-----------------------------------------------------------------------------
(* The nodes of a task are served in order, each at its station.           *)

\* Until a client disturbs the vehicles or asks for no runs at all, and until
\* distributeTask first pushes a halt node in front of a task's nodes.
Direct ==
    /\ Undisturbed
    /\ \A t \in submitted : RunTimes[t] >= 1
    /\ \A t \in Task : \A i \in DOMAIN nodes[t] : nodes[t][i].id # 0

Given(t) ==
    [i \in 1..Len(Nodes[t]) |-> [station |-> Nodes[t][i], id |-> i]]
GivenInv == Direct => \A t \in Task : nodes[t] = Given(t)

\* A vehicle is never stopped, and it is between stations only while a thread
\* moves it.
GoInv == asked = {} => \A a \in Agv : ~isStop[a]
StandInv == Direct =>
    \A a \in Agv : now[a] = 0 => \E w \in Slot : pc[w] = "moving" /\ Vehicle(w) = a

\* Vehicle a stands where r leads to s.
Reaches(a, r, s) ==
    /\ now[a] # 0
    /\ IF r = <<>> THEN now[a] = s ELSE Leads(r, s) /\ <<now[a], r[1]>> \in Line

\* A task whose execution is about to start has a way to its node; a thread
\* that drives has one left, and is at the station when it does the things.
Aimed(t) == NodeOf(t).station
Waiting(t) == RunJob(t) \/ \E w \in Slot : pc[w] = "start" /\ cur[w] = t
TaskWay(t) ==
    Waiting(t) /\ Aimed(t) # 0 => Reaches(agvOf[t], path[t], Aimed(t))
SlotWay(w) ==
    /\ pc[w] \in {"drive", "wait"} =>
         Aimed(cur[w]) # 0 /\ Reaches(Vehicle(w), todo[w], Aimed(cur[w]))
    /\ pc[w] = "moving" =>
         Aimed(cur[w]) # 0 /\ Leads(todo[w], Aimed(cur[w]))
    /\ pc[w] = "things" => Aimed(cur[w]) \in {0, now[Vehicle(w)]}
OnTheWay == (\A t \in Task : TaskWay(t)) /\ (\A w \in Slot : SlotWay(w))
OnTheWayInv == Direct => OnTheWay

StageInv == DriveInv /\ EngagedInv /\ ExecInv

-----------------------------------------------------------------------------

\* A task in a queue is in no job and no hands; one in hand is in no others.
LEMMA QueueAlone ==
    ASSUME Types, HolderInv, NEW t \in Task, At(t)
    PROVE  ~RunJob(t) /\ (\A w \in Slot : pc[w] \in HoldSteps => cur[w] # t)
           /\ t \in submitted /\ t \notin RangeOf(done)
<1>1. InQueue(t)
  BY DEF At, InQueue, RangeOf, Types, ListTypes
<1>2. ~InPool(t) /\ ~InSlot(t) /\ t \notin RangeOf(done) /\ t \in submitted
  BY <1>1 DEF HolderInv, OneHolder, HoldersDisjoint, Fresh, Held
<1> QED  BY <1>2 DEF InPool, Carries, RunJob, InSlot, InHand

LEMMA HandAlone ==
    ASSUME Types, HolderInv, NEW w \in Slot, pc[w] \in RunSteps
    PROVE  /\ cur[w] \in Task /\ Running(cur[w]) /\ cur[w] \notin RangeOf(done)
           /\ ~RunJob(cur[w])
           /\ \A v \in Slot \ {w} : pc[v] \in HoldSteps => cur[v] # cur[w]
<1>1. PICK t \in Task : t = cur[w]
  BY DEF Types, SlotHasTask, RunSteps
<1>2. InHand(w, t) /\ InSlot(t)
  BY <1>1 DEF InHand, InSlot, HoldSteps
<1>3. ~InPool(t) /\ t \notin RangeOf(done) /\ \A v \in Slot \ {w} : ~InHand(v, t)
  BY <1>2 DEF HolderInv, OneHolder, HoldersDisjoint, SlotsDistinct, Held
<1> QED  BY <1>1, <1>3 DEF InPool, Carries, RunJob, InHand, Running

\* One vehicle executes one task.
LEMMA SoleTask ==
    ASSUME EngagedInv, Undisturbed, NEW t \in Task, NEW u \in Task,
           Running(t), Running(u), agvOf[t] = agvOf[u]
    PROVE  t = u
BY DEF EngagedInv, Needs, Engaged

LEMMA WaitingRuns ==
    ASSUME PoolTypes, NEW t \in Task, Waiting(t)
    PROVE  Running(t) /\ Executing(t)
BY RunningJob DEF Waiting, RunSteps, Executing, Early

\* A halt node in front has no number.
LEMMA HaltNode ==
    ASSUME TaskTypes, NEW t \in Task, NEW h \in Halt, PushHalt(t, h)
    PROVE  1 \in DOMAIN nodes'[t] /\ nodes'[t][1].id = 0
<1> DEFINE n == [station |-> h, id |-> 0]
<1>1. nodes[t] \in Seq(Node) /\ nodes'[t] = <<n>> \o nodes[t]
  BY DEF TaskTypes, PushHalt
<1>2. n \in Node /\ n.id = 0
  BY StationAssumption DEF Node, Aim
<1> HIDE DEF n
<1>3. <<n>> \in Seq(Node) /\ Len(<<n>>) = 1 /\ <<n>>[1] = n
  BY <1>2
<1>4. /\ Len(<<n>> \o nodes[t]) = 1 + Len(nodes[t])
      /\ \A k \in 1..(1 + Len(nodes[t])) :
           (<<n>> \o nodes[t])[k] = IF k <= 1 THEN <<n>>[k] ELSE nodes[t][k - 1]
      /\ <<n>> \o nodes[t] \in Seq(Node)
  BY <1>1, <1>3, ConcatProperties
<1>5. Len(nodes[t]) \in Nat
  BY <1>1
<1>6. 1 \in 1..(1 + Len(nodes[t]))
  BY <1>5
<1>7. DOMAIN nodes'[t] = 1..(1 + Len(nodes[t]))
  <2>1. <<n>> \o nodes[t] \in Seq(Node) => DOMAIN (<<n>> \o nodes[t]) = 1..Len(<<n>> \o nodes[t])
    OBVIOUS
  <2> QED  BY <1>1, <1>4, <2>1
<1>8. nodes'[t][1] = n
  BY <1>1, <1>3, <1>4, <1>6
<1> QED  BY <1>2, <1>6, <1>7, <1>8

\* The steps of distributeTask, when no halt node is pushed.
DirectDistribute(t) ==
    \/ Finish(t) \/ RunAgain(t) \/ ExcuteInPlace(t) \/ Continue(t) \/ Postpone(t)
    \/ \E a \in Agv : AssignIdle(t, a)
DirectNext ==
    \/ \E t \in Task : RequestCreate(t)
    \/ ScanStart \/ ScanNext \/ \E t \in Task : DirectDistribute(t)
    \/ \E w \in Slot : TakeJob(w) \/ AddNew(w) \/ RunStep(w)

LEMMA DirectSteps ==
    ASSUME StageInv, [Next]_vars, Direct'
    PROVE  /\ Direct /\ Quiet /\ Undisturbed' /\ UNCHANGED nodes
           /\ DirectNext \/ UNCHANGED vars
<1>1. asked = {} /\ Quiet /\ (QuietNext \/ UNCHANGED vars)
  BY QuietSteps DEF StageInv, DriveInv, Direct, Undisturbed
<1>2. TaskTypes
  BY DEF StageInv, DriveInv, Types
<1>3. ASSUME NEW t \in Task, NEW h \in Halt  PROVE ~PushHalt(t, h)
  BY <1>2, HaltNode DEF Direct
<1>4. DirectNext \/ UNCHANGED vars
  BY <1>1, <1>3 DEF QuietNext, Distributor, DistributeTask, DirectNext,
    DirectDistribute, AssignHalt, ContinueHalt
<1>5. submitted \subseteq submitted' /\ UNCHANGED nodes
  <2>1. CASE UNCHANGED vars
    BY <2>1 DEF vars, clientVars, taskVars
  <2>2. CASE (\E t \in Task : RequestCreate(t)) \/ ScanStart \/ ScanNext
    BY <2>2 DEF RequestCreate, ScanStart, ScanNext, clientVars, taskVars
  <2>3. ASSUME NEW t \in Task, DirectDistribute(t)  PROVE UNCHANGED <<submitted, nodes>>
    BY <2>3 DEF DirectDistribute, Finish, RunAgain, ExcuteInPlace, Continue, Postpone,
      AssignIdle, Take, clientVars, taskVars
  <2>4. ASSUME NEW w \in Slot, TakeJob(w) \/ AddNew(w) \/ RunStep(w)
        PROVE  UNCHANGED <<submitted, nodes>>
    BY <2>4 DEF TakeJob, AddNew, RunStep, Start, Drive, GiveUp, Depart, Arrive,
      DoThings, Advance, EraseDoing, ReAdd, clientVars, taskVars
  <2> QED  BY <1>4, <2>1, <2>2, <2>3, <2>4 DEF DirectNext
<1>6. Direct
  BY <1>1, <1>5 DEF Direct, Undisturbed
<1> QED  BY <1>1, <1>4, <1>5, <1>6 DEF Direct

\* A thread's step leaves the other threads where they are.
LEMMA OthersWait ==
    ASSUME Types, NEW w \in Slot, TakeJob(w) \/ AddNew(w) \/ RunStep(w)
    PROVE  /\ UNCHANGED agvOf
           /\ \A v \in Slot \ {w} : pc'[v] = pc[v] /\ cur'[v] = cur[v] /\ todo'[v] = todo[v]
<1>1. UNCHANGED agvOf
  BY DEF TakeJob, AddNew, RunStep, Start, Drive, GiveUp, Depart, Arrive, DoThings,
    Advance, EraseDoing, ReAdd, taskVars
<1>2. UNCHANGED cur \/ \E t : cur' = [cur EXCEPT ![w] = t]
  BY DEF TakeJob, AddNew, RunStep, Start, Drive, GiveUp, Depart, Arrive, DoThings,
    Advance, EraseDoing, ReAdd
<1>3. UNCHANGED pc \/ \E to : pc' = [pc EXCEPT ![w] = to]
  BY DEF TakeJob, AddNew, RunStep, Start, Drive, GiveUp, Depart, Arrive, DoThings,
    Advance, EraseDoing, ReAdd, EndStation, Goto
<1>4. UNCHANGED todo \/ \E r : todo' = [todo EXCEPT ![w] = r]
  BY DEF TakeJob, AddNew, RunStep, Start, Drive, GiveUp, Depart, Arrive, DoThings,
    Advance, EraseDoing, ReAdd, EndStation
<1> QED  BY <1>1, <1>2, <1>3, <1>4 DEF Types, PoolTypes

LEMMA GivenNext == StageInv /\ GivenInv /\ [Next]_vars => GivenInv'
BY DirectSteps DEF GivenInv, Given

\* Only a cancel stops a vehicle.
LEMMA GoNext == Types /\ QuietInv /\ GoInv /\ [Next]_vars => GoInv'
<1> SUFFICES ASSUME Types, QuietInv, GoInv, [Next]_vars, asked' = {}
             PROVE  \A a \in Agv : ~isStop'[a]
  BY DEF GoInv
<1>1. asked = {} /\ (QuietNext \/ UNCHANGED vars)
  BY QuietSteps
<1>2. isStop \in [Agv -> BOOLEAN] /\ \A a \in Agv : ~isStop[a]
  BY <1>1 DEF Types, AgvTypes, GoInv
<1>3. UNCHANGED isStop \/ \E a \in Agv \cup {NoAgv} : isStop' = [isStop EXCEPT ![a] = FALSE]
  <2>1. CASE UNCHANGED vars
    BY <2>1 DEF vars, agvVars
  <2>2. CASE (\E t \in Task : RequestCreate(t)) \/ ScanStart \/ ScanNext
    BY <2>2 DEF RequestCreate, ScanStart, ScanNext, agvVars
  <2>3. ASSUME NEW t \in Task, DistributeTask(t)  PROVE UNCHANGED isStop
    BY <2>3 DEF DistributeTask, Finish, RunAgain, ExcuteInPlace, Continue, Postpone,
      AssignIdle, AssignHalt, ContinueHalt, Take, agvVars
  <2>4. ASSUME NEW w \in Slot, Start(w)
        PROVE  UNCHANGED isStop
               \/ \E a \in Agv \cup {NoAgv} : isStop' = [isStop EXCEPT ![a] = FALSE]
    <3>1. cur[w] \in Task
      BY <2>4 DEF Start, Goto, Types, SlotHasTask
    <3>2. agvOf[cur[w]] \in Agv \cup {NoAgv}
      BY <3>1 DEF Types, TaskTypes
    <3> QED  BY <2>4, <3>2 DEF Start
  <2>5. ASSUME NEW w \in Slot, TakeJob(w) \/ AddNew(w) \/ RunStep(w), ~Start(w)
        PROVE  UNCHANGED isStop
    BY <2>5 DEF TakeJob, AddNew, RunStep, Drive, GiveUp, Depart, Arrive, DoThings,
      Advance, EraseDoing, ReAdd, agvVars
  <2> QED  BY <1>1, <2>1, <2>2, <2>3, <2>4, <2>5 DEF QuietNext, Distributor
<1> QED  BY <1>2, <1>3

\* A thread that drives a vehicle keeps on; nobody gives its task another one.
LEMMA StandFrame ==
    ASSUME \A a \in Agv : now[a] = 0 => \E w \in Slot : pc[w] = "moving" /\ Vehicle(w) = a,
           UNCHANGED now,
           \A w \in Slot : pc[w] = "moving" =>
              pc'[w] = "moving" /\ cur'[w] = cur[w] /\ agvOf'[cur[w]] = agvOf[cur[w]]
    PROVE  \A a \in Agv : now'[a] = 0 =>
              \E w \in Slot : pc'[w] = "moving" /\ Vehicle(w)' = a
BY DEF Vehicle

\* While nobody disturbs them, a thread never gives up a station.
LEMMA NoGiveUp ==
    ASSUME StageInv, GoInv, Direct, Quiet, NEW w \in Slot
    PROVE  ~GiveUp(w) /\ (pc[w] = "drive" => ~VehicleCancelled(Vehicle(w)))
<1>1. CASE pc[w] \in {"drive", "wait", "moving"}
  <2>1. pc[w] \in RunSteps /\ Types /\ HolderInv
    BY <1>1 DEF RunSteps, StageInv, DriveInv
  <2>2. PICK t \in Task : t = cur[w] /\ Running(t)
    BY <2>1, HandAlone
  <2>3. agvOf[t] \in Agv /\ currentTask[agvOf[t]] = t
    BY <2>2 DEF StageInv, EngagedInv, Needs, Engaged, Direct
  <2>4. ~isStop[agvOf[t]] /\ t # NoTask /\ ~isCancel[t]
    BY <2>3, TaskAssumption DEF GoInv, Direct, Undisturbed, Quiet
  <2> QED  BY <2>2, <2>3, <2>4 DEF GiveUp, Vehicle, VehicleCancelled
<1>2. CASE pc[w] \notin {"drive", "wait", "moving"}
  BY <1>2 DEF GiveUp
<1> QED  BY <1>1, <1>2

LEMMA StandNext == StageInv /\ GoInv /\ StandInv /\ [Next]_vars => StandInv'
<1> SUFFICES ASSUME StageInv, GoInv, StandInv, [Next]_vars, Direct'
             PROVE  \A a \in Agv : now'[a] = 0 =>
                       \E w \in Slot : pc'[w] = "moving" /\ Vehicle(w)' = a
  BY DEF StandInv
<1> DEFINE Goal == \A a \in Agv : now'[a] = 0 =>
                      \E w \in Slot : pc'[w] = "moving" /\ Vehicle(w)' = a
<1>1. Direct /\ Quiet /\ (DirectNext \/ UNCHANGED vars)
  BY DirectSteps
<1>2. /\ Types /\ HolderInv
      /\ \A a \in Agv : now[a] = 0 => \E w \in Slot : pc[w] = "moving" /\ Vehicle(w) = a
  BY <1>1 DEF StageInv, DriveInv, StandInv
<1>3. /\ now \in [Agv -> Aim] /\ agvOf \in [Task -> Agv \cup {NoAgv}]
      /\ pc \in [Slot -> {"idle"} \cup HoldSteps \cup CancelSteps]
  BY <1>2 DEF Types, AgvTypes, TaskTypes, PoolTypes
<1>4. CASE UNCHANGED vars
  BY <1>2, <1>4, StandFrame DEF vars, taskVars, agvVars, poolVars
<1>5. CASE (\E t \in Task : RequestCreate(t)) \/ ScanStart \/ ScanNext
  BY <1>2, <1>5, StandFrame DEF RequestCreate, ScanStart, ScanNext, taskVars, agvVars,
    poolVars
<1>6. ASSUME NEW t \in Task, DirectDistribute(t)  PROVE Goal
  <2>1. At(t) /\ UNCHANGED <<now, pc, cur>>
    BY <1>6 DEF DirectDistribute, Finish, RunAgain, ExcuteInPlace, Continue, Postpone,
      AssignIdle, Take, Excute, agvVars, poolVars
  <2>2. UNCHANGED agvOf \/ \E a \in Agv : agvOf' = [agvOf EXCEPT ![t] = a]
    <3>1. CASE Continue(t)
      BY <3>1, <1>3 DEF Continue, OwnAgv, Take, SetAgv
    <3>2. CASE ~Continue(t)
      BY <1>6, <3>2 DEF DirectDistribute, Finish, RunAgain, ExcuteInPlace, Postpone,
        AssignIdle, Take, SetAgv, taskVars
    <3> QED  BY <3>1, <3>2
  <2>3. \A w \in Slot : pc[w] = "moving" => cur[w] # t
    BY <1>2, <2>1, QueueAlone DEF HoldSteps, RunSteps
  <2>4. \A w \in Slot : pc[w] = "moving" => agvOf'[cur[w]] = agvOf[cur[w]]
    BY <1>2, <1>3, <2>2, <2>3 DEF Types, SlotHasTask
  <2> QED  BY <1>2, <2>1, <2>4, StandFrame
<1>7. ASSUME NEW w \in Slot, TakeJob(w) \/ AddNew(w) \/ RunStep(w)  PROVE Goal
  <2>1. UNCHANGED agvOf /\ \A v \in Slot \ {w} : pc'[v] = pc[v] /\ cur'[v] = cur[v]
    BY <1>2, <1>7, OthersWait
  <2>2. CASE Depart(w)
    <3>1. /\ pc'[w] = "moving" /\ UNCHANGED cur
          /\ now' = [now EXCEPT ![Vehicle(w)] = 0] /\ pc[w] = "wait"
      BY <1>3, <2>2 DEF Depart, Goto
    <3>2. Vehicle(w)' = Vehicle(w)
      BY <2>1, <3>1 DEF Vehicle
    <3> TAKE a \in Agv
    <3>3. CASE a = Vehicle(w)
      BY <3>1, <3>2, <3>3
    <3>4. CASE a # Vehicle(w)
      <4>1. now'[a] = now[a]
        BY <1>3, <3>1, <3>4
      <4>2. \A v \in Slot : pc[v] = "moving" => pc'[v] = "moving" /\ Vehicle(v)' = Vehicle(v)
        BY <2>1, <3>1 DEF Vehicle
      <4> QED  BY <1>2, <4>1, <4>2
    <3> QED  BY <3>3, <3>4
  <2>3. CASE Arrive(w)
    <3>1. /\ now' = [now EXCEPT ![Vehicle(w)] = Head(todo[w])]
          /\ pc[w] = "moving" /\ UNCHANGED cur
      BY <2>3 DEF Arrive
    <3>2. Head(todo[w]) # 0
      <4>1. todo[w] \in Seq(Station) /\ todo[w] # <<>>
        BY <1>2, <3>1 DEF Types, PoolTypes, HasStation
      <4>2. Head(todo[w]) \in Station
        BY <4>1
      <4> QED  BY <4>2, StationAssumption
    <3> TAKE a \in Agv
    <3>3. CASE a = Vehicle(w)
      BY <1>3, <3>1, <3>2, <3>3
    <3>4. CASE a # Vehicle(w)
      <4>1. now'[a] = now[a]
        BY <1>3, <3>1, <3>4
      <4>2. \A v \in Slot : v # w /\ pc[v] = "moving" =>
              pc'[v] = "moving" /\ Vehicle(v)' = Vehicle(v)
        BY <2>1, <3>1 DEF Vehicle
      <4> QED  BY <1>2, <3>4, <4>1, <4>2
    <3> QED  BY <3>3, <3>4
  <2>4. CASE ~Depart(w) /\ ~Arrive(w)
    <3>1. UNCHANGED now
      BY <1>7, <2>4 DEF TakeJob, AddNew, RunStep, Start, Drive, GiveUp, DoThings, Advance,
        EraseDoing, ReAdd, agvVars
    <3>2. ~GiveUp(w)
      BY <1>1, NoGiveUp
    <3>3. pc[w] # "moving"
      BY <1>7, <2>4, <3>2 DEF TakeJob, AddNew, RunStep, Start, Drive, DoThings, Advance,
        EraseDoing, ReAdd, Goto
    <3>4. \A v \in Slot : pc[v] = "moving" => pc'[v] = "moving" /\ cur'[v] = cur[v]
      BY <2>1, <3>3
    <3> QED  BY <1>2, <2>1, <3>1, <3>4, StandFrame
  <2> QED  BY <2>2, <2>3, <2>4
<1> QED  BY <1>1, <1>4, <1>5, <1>6, <1>7 DEF DirectNext

\* What a task, or a thread, that a step does not touch keeps.
TaskSame(u) ==
    /\ Waiting(u) /\ path'[u] = path[u] /\ index'[u] = index[u]
    /\ agvOf'[u] = agvOf[u] /\ now'[agvOf[u]] = now[agvOf[u]]
SlotSame(v) ==
    /\ pc'[v] = pc[v]
    /\ Operating(v) =>
         /\ cur'[v] = cur[v] /\ todo'[v] = todo[v] /\ index'[cur[v]] = index[cur[v]]
         /\ agvOf'[cur[v]] = agvOf[cur[v]] /\ now'[Vehicle(v)] = now[Vehicle(v)]

LEMMA WayFrame ==
    ASSUME OnTheWay, UNCHANGED nodes,
           \A u \in Task : Waiting(u)' => TaskSame(u) \/ TaskWay(u)',
           \A v \in Slot : SlotSame(v) \/ SlotWay(v)'
    PROVE  OnTheWay'
<1>1. ASSUME NEW u \in Task  PROVE TaskWay(u)'
  <2>1. CASE TaskSame(u)
    <3>1. TaskWay(u)
      BY DEF OnTheWay
    <3>2. Aimed(u)' = Aimed(u)
      BY <2>1 DEF TaskSame, Aimed, NodeOf
    <3>3. \A r, x : Reaches(agvOf[u], r, x) <=> Reaches(agvOf[u], r, x)'
      BY <2>1 DEF TaskSame, Reaches, Leads
    <3> QED  BY <2>1, <3>1, <3>2, <3>3 DEF TaskSame, TaskWay, Reaches, Leads
  <2>2. CASE ~TaskSame(u)
    BY <2>2 DEF TaskWay
  <2> QED  BY <2>1, <2>2
<1>2. ASSUME NEW v \in Slot  PROVE SlotWay(v)'
  <2>1. CASE SlotSame(v) /\ Operating(v)
    <3>1. SlotWay(v)
      BY DEF OnTheWay
    <3>2. Aimed(cur[v])' = Aimed(cur[v])
      BY <2>1 DEF SlotSame, Aimed, NodeOf
    <3>3. Vehicle(v)' = Vehicle(v)
      BY <2>1 DEF SlotSame, Vehicle
    <3>4. pc'[v] = pc[v] /\ todo'[v] = todo[v] /\ now'[Vehicle(v)'] = now[Vehicle(v)]
      BY <2>1, <3>3 DEF SlotSame
    <3> QED  BY <3>1, <3>2, <3>3, <3>4 DEF SlotWay, Reaches, Leads
  <2>2. CASE SlotSame(v) /\ ~Operating(v)
    BY <2>2 DEF SlotSame, SlotWay, Operating
  <2>3. CASE ~SlotSame(v)
    BY <2>3
  <2> QED  BY <2>1, <2>2, <2>3
<1> QED  BY <1>1, <1>2 DEF OnTheWay

\* excuteTask makes no other task wait; nor does a thread's step, or a request.
LEMMA WaitingExcute ==
    ASSUME Types, NEW t \in Task, Excute(t)
    PROVE  \A u \in Task \ {t} : Waiting(u)' => Waiting(u)
<1>1. UNCHANGED <<pc, cur>> /\ jobs' = Append(jobs, [op |-> "run", task |-> t])
      /\ [op |-> "run", task |-> t] \in Job
  BY DEF Excute, Job
<1>2. /\ DOMAIN jobs' = DOMAIN jobs \cup {Len(jobs) + 1}
      /\ \A i \in DOMAIN jobs : jobs'[i] = jobs[i]
      /\ jobs'[Len(jobs) + 1].task = t
  BY <1>1, JobsAppend DEF Types
<1>3. \A u \in Task \ {t} : RunJob(u)' => RunJob(u)
  BY <1>2 DEF RunJob
<1> QED  BY <1>1, <1>3 DEF Waiting

LEMMA WaitingThread ==
    ASSUME Types, NEW w \in Slot, TakeJob(w) \/ AddNew(w) \/ RunStep(w)
    PROVE  \A u \in Task : Waiting(u)' => Waiting(u)
<1>1. \A v \in Slot \ {w} : pc'[v] = pc[v] /\ cur'[v] = cur[v]
  BY OthersWait
<1>2. CASE TakeJob(w)
  <2>1. jobs # <<>> /\ jobs' = Tail(jobs)
    BY <1>2 DEF TakeJob
  <2>2. /\ 1 \in DOMAIN jobs /\ Head(jobs) = jobs[1] /\ jobs[1] \in Job
        /\ \A i \in DOMAIN jobs' : i + 1 \in DOMAIN jobs /\ jobs'[i] = jobs[i + 1]
    BY <2>1, JobsTail DEF Types
  <2>3. pc'[w] = FirstStep(jobs[1].op) /\ cur'[w] = jobs[1].task
    BY <1>2, <2>2 DEF TakeJob, Types, PoolTypes
  <2>4. jobs[1].op \in {"create", "run", "cancel"}
    BY <2>2 DEF Job
  <2>5. pc'[w] = "start" => RunJob(cur'[w])
    BY <2>2, <2>3, <2>4 DEF FirstStep, RunJob
  <2>6. \A u \in Task : RunJob(u)' => RunJob(u)
    BY <2>2 DEF RunJob
  <2> QED  BY <1>1, <2>5, <2>6 DEF Waiting
<1>3. CASE AddNew(w) \/ RunStep(w)
  <2>1. UNCHANGED jobs
    BY <1>3 DEF AddNew, RunStep, Start, Drive, GiveUp, Depart, Arrive, DoThings, Advance,
      EraseDoing, ReAdd
  <2>2. pc'[w] # "start"
    BY <1>3 DEF AddNew, RunStep, Start, Drive, GiveUp, Depart, Arrive, DoThings, Advance,
      EraseDoing, ReAdd, EndStation, Goto, Types, PoolTypes
  <2> QED  BY <1>1, <2>1, <2>2 DEF Waiting, RunJob
<1> QED  BY <1>2, <1>3

\* distributeTask gives t a route for its vehicle, which stands at a station.
LEMMA WayTake ==
    ASSUME StageInv, StandInv, OnTheWay, Direct, UNCHANGED nodes,
           NEW t \in Task, NEW a \in Agv, At(t), ~Completed(t),
           currentTask[a] = t \/ Idle(a), Take(t, a, RouteTo(a, Aimed(t)))
    PROVE  OnTheWay'
<1>1. Types /\ HolderInv /\ TaskingInv /\ Undisturbed
  BY DEF StageInv, DriveInv, Direct
<1>2. /\ path' = [path EXCEPT ![t] = RouteTo(a, Aimed(t))]
      /\ agvOf' = [agvOf EXCEPT ![t] = a]
      /\ RouteTo(a, Aimed(t)) # <<>>
      /\ UNCHANGED <<index, now, pc, cur, todo>> /\ Excute(t)
  BY DEF Take, SetAgv, Excute
<1>3. /\ path \in [Task -> Seq(Station)] /\ agvOf \in [Task -> Agv \cup {NoAgv}]
      /\ now \in [Agv -> Aim] /\ Aimed(t) \in Aim
  BY <1>1, NodeTypes DEF Types, TaskTypes, AgvTypes, Aimed
<1>4. now[a] # 0
  <2> SUFFICES ASSUME now[a] = 0 PROVE FALSE
    OBVIOUS
  <2>1. PICK w \in Slot : pc[w] = "moving" /\ Vehicle(w) = a
    BY DEF StandInv
  <2>2. PICK u \in Task : u = cur[w] /\ Running(u)
    BY <1>1, <2>1, HandAlone DEF RunSteps
  <2>3. currentTask[a] = u
    BY <1>1, <2>1, <2>2 DEF StageInv, EngagedInv, Needs, Engaged, Vehicle
  <2>4. u # t
    BY <1>1, <2>1, <2>2, QueueAlone DEF HoldSteps, RunSteps
  <2> QED  BY <1>1, <2>3, <2>4, TaskAssumption DEF TaskingInv, Idle
<1>5. Reaches(a, RouteTo(a, Aimed(t)), Aimed(t))
  <2>1. Aimed(t) # 0 /\ RouteTo(a, Aimed(t)) = Route[<<now[a], Aimed(t)>>]
    BY <1>2, <1>4 DEF RouteTo, From
  <2>2. now[a] \in Station /\ Aimed(t) \in Station
    BY <1>3, <1>4, <2>1 DEF Aim
  <2> QED  BY <1>2, <1>4, <2>1, <2>2, RoutesLead DEF Reaches
<1>6. TaskWay(t)'
  <2>1. Aimed(t)' = Aimed(t) /\ agvOf'[t] = a /\ path'[t] = RouteTo(a, Aimed(t))
    BY <1>2, <1>3 DEF Aimed, NodeOf
  <2>2. now'[a] = now[a]
    BY <1>2
  <2> QED  BY <1>5, <2>1, <2>2 DEF TaskWay, Reaches, Leads
<1>7. \A u \in Task \ {t} : Waiting(u)' => TaskSame(u)
  <2>1. \A u \in Task \ {t} : path'[u] = path[u] /\ agvOf'[u] = agvOf[u]
    BY <1>2, <1>3
  <2> QED  BY <1>1, <1>2, <2>1, WaitingExcute DEF TaskSame
<1>8. \A v \in Slot : SlotSame(v)
  <2>1. \A v \in Slot : Operating(v) => cur[v] # t /\ cur[v] \in Task
    BY <1>1, QueueAlone DEF Operating, HoldSteps, RunSteps, Types, SlotHasTask
  <2>2. \A v \in Slot : Operating(v) => agvOf'[cur[v]] = agvOf[cur[v]]
    BY <1>2, <1>3, <2>1
  <2> QED  BY <1>2, <2>2 DEF SlotSame
<1> QED  BY <1>6, <1>7, <1>8, WayFrame

LEMMA WayDistribute ==
    ASSUME StageInv, StandInv, OnTheWay, Direct, UNCHANGED nodes,
           NEW t \in Task, DirectDistribute(t)
    PROVE  OnTheWay'
<1>1. Types /\ HolderInv /\ TaskingInv /\ Undisturbed
  BY DEF StageInv, DriveInv, Direct
<1>2. CASE Finish(t) \/ RunAgain(t) \/ Postpone(t)
  <2>1. /\ At(t) /\ UNCHANGED <<path, agvOf, now, jobs, pc, cur, todo>>
        /\ \A u \in Task \ {t} : index'[u] = index[u]
    <3>1. At(t) /\ UNCHANGED <<path, agvOf, now, jobs, pc, cur, todo>>
      BY <1>2 DEF Finish, RunAgain, Postpone, taskVars, agvVars, poolVars
    <3>2. UNCHANGED index \/ index' = [index EXCEPT ![t] = 0]
      BY <1>2 DEF Finish, RunAgain, Restart, Postpone, taskVars
    <3> QED  BY <1>1, <3>1, <3>2 DEF Types, TaskTypes
  <2>2. \A u \in Task : Waiting(u)' => Waiting(u)
    BY <2>1 DEF Waiting, RunJob
  <2>3. ~Waiting(t) /\ \A v \in Slot : Operating(v) => cur[v] # t /\ cur[v] \in Task
    BY <1>1, <2>1, QueueAlone DEF Waiting, Operating, HoldSteps, RunSteps, Types,
      SlotHasTask
  <2>4. \A u \in Task : Waiting(u)' => TaskSame(u)
    BY <2>1, <2>2, <2>3 DEF TaskSame
  <2>5. \A v \in Slot : SlotSame(v)
    BY <2>1, <2>3 DEF SlotSame
  <2> QED  BY <2>4, <2>5, WayFrame
<1>3. CASE ExcuteInPlace(t)
  <2>1. /\ At(t) /\ Excute(t) /\ UNCHANGED <<path, agvOf, index, now, pc, cur, todo>>
        /\ Aimed(t) = 0
    BY <1>3 DEF ExcuteInPlace, Excute, taskVars, agvVars, Aimed
  <2>2. TaskWay(t)'
    BY <2>1 DEF TaskWay, Aimed, NodeOf
  <2>3. \A u \in Task \ {t} : Waiting(u)' => TaskSame(u)
    BY <1>1, <2>1, WaitingExcute DEF TaskSame
  <2>4. \A v \in Slot : SlotSame(v)
    BY <2>1 DEF SlotSame
  <2> QED  BY <2>2, <2>3, <2>4, WayFrame
<1>4. CASE Continue(t)
  <2>1. PICK a \in Agv : a = agvOf[t]
    BY <1>1, <1>4 DEF Continue, OwnAgv, Types, TaskTypes
  <2>2. /\ At(t) /\ ~Completed(t) /\ Take(t, a, RouteTo(a, Aimed(t)))
        /\ currentTask[a] = t \/ Idle(a)
    BY <1>4, <2>1 DEF Continue, OwnAgv, Aimed
  <2> QED  BY <2>2, WayTake
<1>5. ASSUME NEW a \in Agv, AssignIdle(t, a)  PROVE OnTheWay'
  BY <1>5, WayTake DEF AssignIdle, Aimed
<1> QED  BY <1>2, <1>3, <1>4, <1>5 DEF DirectDistribute

\* A thread's step of a run job touches its own task and vehicle only.
LEMMA WayOthers ==
    ASSUME StageInv, Direct, OnTheWay, UNCHANGED nodes, NEW w \in Slot, RunStep(w),
           pc[w] \in RunSteps, SlotWay(w)'
    PROVE  OnTheWay'
<1>1. Types /\ HolderInv /\ Undisturbed /\ EngagedInv
  BY DEF StageInv, DriveInv, Direct
<1>2. PICK t \in Task : t = cur[w] /\ Running(t) /\ ~RunJob(t)
        /\ \A v \in Slot \ {w} : pc[v] \in HoldSteps => cur[v] # t
  BY <1>1, HandAlone
<1>3. PICK a \in Agv : a = agvOf[t]
  BY <1>1, <1>2 DEF EngagedInv, Needs, Engaged
<1>4. /\ \A u \in Task \ {t} : path'[u] = path[u] /\ index'[u] = index[u]
      /\ \A b \in Agv \ {a} : now'[b] = now[b]
  <2>1. /\ UNCHANGED path \/ path' = [path EXCEPT ![t] = <<>>]
        /\ UNCHANGED index \/ index' = [index EXCEPT ![t] = @ + 1]
    BY <1>2 DEF RunStep, Start, Drive, GiveUp, Depart, Arrive, DoThings, Advance,
      EraseDoing, ReAdd, taskVars
  <2>2. UNCHANGED now \/ \E x : now' = [now EXCEPT ![a] = x]
    BY <1>2, <1>3 DEF RunStep, Start, Drive, GiveUp, Depart, Arrive, DoThings, Advance,
      EraseDoing, ReAdd, agvVars, Vehicle
  <2> QED  BY <1>1, <2>1, <2>2 DEF Types, TaskTypes, AgvTypes
<1>5. UNCHANGED <<agvOf, cur, jobs>>
      /\ \A v \in Slot \ {w} : pc'[v] = pc[v] /\ todo'[v] = todo[v]
  <2>1. UNCHANGED <<cur, jobs>>
    BY DEF RunStep, Start, Drive, GiveUp, Depart, Arrive, DoThings, Advance, EraseDoing,
      ReAdd
  <2> QED  BY <1>1, <2>1, OthersWait
<1>6. ~Waiting(t)'
  <2>1. pc'[w] # "start"
    BY <1>1 DEF RunStep, Start, Drive, GiveUp, Depart, Arrive, DoThings, Advance,
      EraseDoing, ReAdd, EndStation, Goto, Types, PoolTypes
  <2>2. \A v \in Slot \ {w} : ~(pc'[v] = "start" /\ cur'[v] = t)
    BY <1>2, <1>5 DEF HoldSteps, RunSteps
  <2>3. ~RunJob(t)'
    BY <1>2, <1>5 DEF RunJob
  <2> QED  BY <2>1, <2>2, <2>3 DEF Waiting
<1>7. ASSUME NEW u \in Task, Waiting(u)'  PROVE TaskSame(u)
  <2>1. Waiting(u) /\ u # t
    BY <1>1, <1>6, <1>7, WaitingThread
  <2>2. Running(u)
    BY <1>1, <2>1, WaitingRuns DEF Types
  <2>3. agvOf[u] \in Agv \ {a}
    BY <1>1, <1>2, <1>3, <2>1, <2>2, SoleTask DEF EngagedInv, Needs, Engaged
  <2> QED  BY <1>4, <1>5, <2>1, <2>3 DEF TaskSame
<1>8. ASSUME NEW v \in Slot \ {w}  PROVE SlotSame(v)
  <2>1. CASE Operating(v)
    <3>1. pc[v] \in RunSteps /\ pc[v] \in HoldSteps
      BY <2>1 DEF Operating, RunSteps, HoldSteps
    <3>2. PICK u \in Task : u = cur[v] /\ Running(u)
      BY <1>1, <3>1, HandAlone
    <3>3. u # t
      BY <1>2, <3>1, <3>2
    <3>4. agvOf[u] \in Agv \ {a}
      BY <1>1, <1>2, <1>3, <3>2, <3>3, SoleTask DEF EngagedInv, Needs, Engaged
    <3>5. Vehicle(v) = agvOf[u]
      BY <3>2 DEF Vehicle
    <3>6. now'[Vehicle(v)] = now[Vehicle(v)] /\ index'[cur[v]] = index[cur[v]]
      BY <1>4, <3>2, <3>3, <3>4, <3>5
    <3> QED  BY <1>5, <3>6 DEF SlotSame
  <2>2. CASE ~Operating(v)
    BY <1>5, <2>2 DEF SlotSame
  <2> QED  BY <2>1, <2>2
<1> QED  BY <1>7, <1>8, WayFrame

\* What is left of a route after its first station.
LEMMA LeadsTail ==
    ASSUME NEW r \in Seq(Station), NEW s, Leads(r, s)
    PROVE  /\ Head(r) = r[1] /\ Head(r) \in Station /\ Tail(r) \in Seq(Station)
           /\ Tail(r) = <<>> => Head(r) = s
           /\ Tail(r) # <<>> => Leads(Tail(r), s) /\ <<Head(r), Tail(r)[1]>> \in Line
<1>1. r # <<>> /\ Len(r) \in Nat \ {0} /\ r[Len(r)] = s
      /\ \A i \in 1..(Len(r) - 1) : <<r[i], r[i + 1]>> \in Line
  BY DEF Leads
<1>2. /\ Head(r) = r[1] /\ Head(r) \in Station
      /\ Tail(r) \in Seq(Station) /\ Len(Tail(r)) = Len(r) - 1
      /\ \A i \in 1..Len(Tail(r)) : Tail(r)[i] = r[i + 1]
  BY <1>1, HeadTailProperties
<1>3. ASSUME Tail(r) = <<>>  PROVE Head(r) = s
  <2>1. Len(<<>>) = 0
    OBVIOUS
  <2>2. Len(r) = 1
    <3>1. Len(Tail(r)) = 0
      BY <1>3, <2>1
    <3>2. Len(Tail(r)) = Len(r) - 1 /\ Len(r) \in Nat
      BY <1>1, <1>2
    <3> QED  BY <3>1, <3>2
  <2>3. r[1] = s
    BY <1>1, <2>2
  <2> QED  BY <1>2, <2>3
<1>4. ASSUME Tail(r) # <<>>
      PROVE  Leads(Tail(r), s) /\ <<Head(r), Tail(r)[1]>> \in Line
  <2>1. Len(Tail(r)) \in Nat \ {0}
    BY <1>2, <1>4
  <2>2. 1 \in 1..Len(Tail(r)) /\ Len(Tail(r)) \in 1..Len(Tail(r)) /\ 1 \in 1..(Len(r) - 1)
    BY <1>2, <2>1
  <2>3. Tail(r)[Len(Tail(r))] = s
    <3>1. Len(Tail(r)) + 1 = Len(r)
      BY <1>1, <1>2
    <3> QED  BY <1>1, <1>2, <2>2, <3>1
  <2>4. <<Head(r), Tail(r)[1]>> \in Line
    <3>1. Tail(r)[1] = r[1 + 1]
      BY <1>2, <2>2
    <3> QED  BY <1>1, <1>2, <2>2, <3>1
  <2>5. ASSUME NEW i \in 1..(Len(Tail(r)) - 1)
        PROVE  <<Tail(r)[i], Tail(r)[i + 1]>> \in Line
    <3>1. /\ i \in 1..Len(Tail(r)) /\ i + 1 \in 1..Len(Tail(r))
          /\ i + 1 \in 1..(Len(r) - 1)
      BY <1>1, <1>2, <2>1
    <3>2. Tail(r)[i] = r[i + 1] /\ Tail(r)[i + 1] = r[(i + 1) + 1]
      BY <1>2, <3>1
    <3> QED  BY <1>1, <3>1, <3>2
  <2> QED  BY <1>4, <2>3, <2>4, <2>5 DEF Leads
<1> QED  BY <1>2, <1>3, <1>4

\* A thread that drives is on its way when its vehicle stands at the right place.
LEMMA DrivesOn ==
    ASSUME NEW w \in Slot, NEW a, NEW r, NEW s,
           Vehicle(w)' = a, todo'[w] = r, Aimed(cur[w])' = s, s # 0,
           pc'[w] \in {"drive", "wait"}, now'[a] # 0,
           r = <<>> => now'[a] = s,
           r # <<>> => Leads(r, s) /\ <<now'[a], r[1]>> \in Line
    PROVE  SlotWay(w)'
BY DEF SlotWay, Reaches, Leads

LEMMA WayRunStep ==
    ASSUME StageInv, GoInv, Direct, Quiet, OnTheWay, UNCHANGED nodes, NEW w \in Slot,
           RunStep(w), pc[w] \in RunSteps
    PROVE  SlotWay(w)'
<1>1. Types /\ HolderInv /\ Undisturbed /\ EngagedInv
  BY DEF StageInv, DriveInv, Direct
<1>2. PICK t \in Task : t = cur[w] /\ Running(t)
  BY <1>1, HandAlone
<1>3. PICK a \in Agv : a = agvOf[t] /\ a = Vehicle(w)
  BY <1>1, <1>2 DEF EngagedInv, Needs, Engaged, Vehicle
<1>4. UNCHANGED <<agvOf, cur>>
  BY DEF RunStep, Start, Drive, GiveUp, Depart, Arrive, DoThings, Advance, EraseDoing,
    ReAdd, taskVars
<1>5. Vehicle(w)' = a /\ cur'[w] = t
  BY <1>2, <1>3, <1>4 DEF Vehicle
<1>6. /\ pc \in [Slot -> {"idle"} \cup HoldSteps \cup CancelSteps]
      /\ todo \in [Slot -> Seq(Station)] /\ now \in [Agv -> Aim]
  BY <1>1 DEF Types, PoolTypes, AgvTypes
<1>7. SlotWay(w)
  BY DEF OnTheWay
<1>8. CASE Start(w)
  <2>1. /\ pc[w] = "start" /\ UNCHANGED <<index, now>>
        /\ pc'[w] = (IF Aimed(t) # 0 THEN "drive" ELSE "things")
        /\ todo'[w] = IF Aimed(t) # 0 THEN path[t] ELSE <<>>
    BY <1>2, <1>6, <1>8 DEF Start, Goto, Aimed
  <2>2. Waiting(t) /\ TaskWay(t)
    BY <1>2, <2>1 DEF Waiting, OnTheWay
  <2>3. Aimed(t)' = Aimed(t)
    BY <2>1 DEF Aimed, NodeOf
  <2>4. CASE Aimed(t) # 0
    <3>1. Reaches(a, path[t], Aimed(t))
      BY <1>3, <2>2, <2>4 DEF TaskWay
    <3>2. PICK r, s : r \in Seq(Station) /\ r = path[t] /\ s = Aimed(t)
      BY <1>1 DEF Types, TaskTypes
    <3>3. pc'[w] = "drive" /\ todo'[w] = r /\ Aimed(cur[w])' = s
      BY <1>5, <2>1, <2>3, <2>4, <3>2 DEF Aimed, NodeOf
    <3>4. /\ now[a] # 0 /\ (r = <<>> => now[a] = s)
          /\ r # <<>> => Leads(r, s) /\ <<now[a], r[1]>> \in Line
      BY <3>1, <3>2 DEF Reaches
    <3> QED  BY <1>5, <2>1, <2>4, <3>2, <3>3, <3>4, DrivesOn
  <2>5. CASE Aimed(t) = 0
    <3>1. pc'[w] = "things"
      BY <2>1, <2>5
    <3> QED  BY <1>5, <2>3, <2>5, <3>1 DEF SlotWay
  <2> QED  BY <2>4, <2>5
<1>9. CASE Drive(w)
  <2>1. /\ pc[w] = "drive" /\ UNCHANGED <<index, now>> /\ ~VehicleCancelled(a)
    BY <1>3, <1>9, NoGiveUp DEF Drive, taskVars, agvVars
  <2>2. Aimed(t) # 0 /\ Reaches(a, todo[w], Aimed(t)) /\ Aimed(t)' = Aimed(t)
    BY <1>2, <1>3, <1>7, <2>1 DEF SlotWay, Aimed, NodeOf
  <2>3. CASE todo[w] = <<>>
    <3>1. pc'[w] = "things"
      BY <1>6, <1>9, <2>3 DEF Drive, Goto, PathOver
    <3>2. now'[a] = Aimed(t)
      BY <2>1, <2>2, <2>3 DEF Reaches
    <3> QED  BY <1>5, <2>2, <3>1, <3>2 DEF SlotWay
  <2>4. CASE todo[w] # <<>>
    <3>1. /\ Leads(todo[w], Aimed(t)) /\ now[a] # 0
          /\ <<From(a), Head(todo[w])>> \in Line
      <4>1. Head(todo[w]) = todo[w][1]
        BY <1>6, <2>4
      <4> QED  BY <2>2, <2>4, <4>1 DEF Reaches, From
    <3>2. pc'[w] = "wait" /\ UNCHANGED todo
      BY <1>3, <1>6, <1>9, <2>1, <2>4, <3>1 DEF Drive, Goto, PathOver
    <3>3. PICK r, s : r \in Seq(Station) /\ r = todo[w] /\ s = Aimed(t)
      BY <1>6
    <3>4. todo'[w] = r /\ Aimed(cur[w])' = s
      BY <1>5, <2>2, <3>2, <3>3 DEF Aimed, NodeOf
    <3>5. now[a] # 0 /\ r # <<>> /\ Leads(r, s) /\ <<now[a], r[1]>> \in Line
      BY <2>2, <2>4, <3>3 DEF Reaches
    <3> QED  BY <1>5, <2>1, <2>2, <3>2, <3>3, <3>4, <3>5, DrivesOn
  <2> QED  BY <2>3, <2>4
<1>10. CASE Depart(w)
  <2>1. /\ pc[w] = "wait" /\ pc'[w] = "moving" /\ UNCHANGED <<index, todo>>
        /\ todo[w] # <<>>
    BY <1>1, <1>6, <1>10 DEF Depart, Goto, taskVars, Types, HasStation
  <2>2. Aimed(t) # 0 /\ Leads(todo[w], Aimed(t)) /\ Aimed(t)' = Aimed(t)
    BY <1>2, <1>3, <1>7, <2>1 DEF SlotWay, Reaches, Aimed, NodeOf
  <2> QED  BY <1>5, <2>1, <2>2 DEF SlotWay, Leads
<1>11. CASE Arrive(w)
  <2>1. /\ pc[w] = "moving" /\ pc'[w] = "drive" /\ UNCHANGED index
        /\ now' = [now EXCEPT ![a] = Head(todo[w])]
        /\ todo' = [todo EXCEPT ![w] = Tail(@)]
    BY <1>3, <1>6, <1>11 DEF Arrive, EndStation, taskVars
  <2>2. Aimed(t) # 0 /\ Leads(todo[w], Aimed(t)) /\ Aimed(t)' = Aimed(t)
    BY <1>2, <1>7, <2>1 DEF SlotWay, Aimed, NodeOf
  <2>3. todo'[w] = Tail(todo[w]) /\ now'[a] = Head(todo[w])
    BY <1>6, <2>1
  <2>4. /\ Head(todo[w]) # 0 /\ Tail(todo[w]) \in Seq(Station)
        /\ Tail(todo[w]) = <<>> => Head(todo[w]) = Aimed(t)
        /\ Tail(todo[w]) # <<>> =>
             Leads(Tail(todo[w]), Aimed(t)) /\ <<Head(todo[w]), Tail(todo[w])[1]>> \in Line
    BY <1>6, <2>2, LeadsTail, StationAssumption
  <2>5. PICK r, s : r \in Seq(Station) /\ r = Tail(todo[w]) /\ s = Aimed(t)
    BY <2>4
  <2>6. todo'[w] = r /\ Aimed(cur[w])' = s /\ now'[a] # 0
    BY <1>5, <2>2, <2>3, <2>4, <2>5 DEF Aimed, NodeOf
  <2>7. /\ r = <<>> => now'[a] = s
        /\ r # <<>> => Leads(r, s) /\ <<now'[a], r[1]>> \in Line
    BY <2>3, <2>4, <2>5
  <2> QED  BY <1>5, <2>1, <2>2, <2>5, <2>6, <2>7, DrivesOn
<1>12. CASE DoThings(w) \/ Advance(w) \/ EraseDoing(w) \/ ReAdd(w)
  <2>1. pc'[w] \in {"advance", "erase", "idle", "readd"}
    BY <1>6, <1>12 DEF DoThings, Advance, EraseDoing, ReAdd, Goto
  <2> QED  BY <2>1 DEF SlotWay
<1>13. ~GiveUp(w)
  BY NoGiveUp
<1> QED  BY <1>8, <1>9, <1>10, <1>11, <1>12, <1>13 DEF RunStep

LEMMA WayNext ==
    ASSUME StageInv, GoInv, StandInv, OnTheWayInv, [Next]_vars
    PROVE  OnTheWayInv'
<1> SUFFICES ASSUME Direct' PROVE OnTheWay'
  BY DEF OnTheWayInv
<1>1. Direct /\ Quiet /\ (DirectNext \/ UNCHANGED vars) /\ UNCHANGED nodes
  BY DirectSteps
<1>2. OnTheWay /\ Types
  BY <1>1 DEF OnTheWayInv, StageInv, DriveInv
<1>3. CASE UNCHANGED vars
  BY <1>2, <1>3, WayFrame DEF vars, taskVars, agvVars, poolVars, TaskSame, SlotSame,
    Waiting, RunJob
<1>4. ASSUME NEW t \in Task, RequestCreate(t)  PROVE OnTheWay'
  <2>1. /\ jobs' = Append(jobs, [op |-> "create", task |-> t])
        /\ [op |-> "create", task |-> t] \in Job
        /\ [op |-> "create", task |-> t].op = "create"
        /\ UNCHANGED <<path, index, agvOf, now, pc, cur, todo>>
    BY <1>4 DEF RequestCreate, taskVars, agvVars, Job
  <2>2. \A u \in Task : RunJob(u)' => RunJob(u)
    BY <1>2, <2>1, JobsAppend DEF RunJob, Types
  <2>3. \A u \in Task : Waiting(u)' => Waiting(u)
    BY <2>1, <2>2 DEF Waiting
  <2> QED  BY <1>1, <1>2, <2>1, <2>3, WayFrame DEF TaskSame, SlotSame
<1>5. CASE ScanStart \/ ScanNext
  <2>1. UNCHANGED <<path, index, agvOf, now, jobs, pc, cur, todo>>
    BY <1>5 DEF ScanStart, ScanNext, taskVars, agvVars, poolVars
  <2> QED  BY <1>1, <1>2, <2>1, WayFrame DEF TaskSame, SlotSame, Waiting, RunJob
<1>6. ASSUME NEW t \in Task, DirectDistribute(t)  PROVE OnTheWay'
  BY <1>1, <1>2, <1>6, WayDistribute DEF StandInv
<1>7. ASSUME NEW w \in Slot, RunStep(w), ~ReAdd(w)  PROVE OnTheWay'
  <2>1. pc[w] \in RunSteps
    BY <1>7 DEF RunStep, Start, Drive, GiveUp, Depart, Arrive, DoThings, Advance,
      EraseDoing, Goto, RunSteps
  <2> QED  BY <1>1, <1>2, <1>7, <2>1, WayRunStep, WayOthers
<1>8. ASSUME NEW w \in Slot, TakeJob(w) \/ AddNew(w) \/ ReAdd(w)  PROVE OnTheWay'
  <2>1. UNCHANGED <<path, index, agvOf, now, todo>>
    BY <1>8 DEF TakeJob, AddNew, ReAdd, taskVars, agvVars
  <2>2. TakeJob(w) \/ AddNew(w) \/ RunStep(w)
    BY <1>8 DEF RunStep
  <2>3. \A v \in Slot \ {w} : pc'[v] = pc[v] /\ cur'[v] = cur[v]
    BY <1>2, <2>2, OthersWait
  <2>4. \A u \in Task : Waiting(u)' => Waiting(u)
    BY <1>2, <2>2, WaitingThread
  <2>5. pc'[w] \notin {"drive", "wait", "moving", "things"}
    <3>1. CASE TakeJob(w)
      <4>1. jobs # <<>> /\ jobs' = Tail(jobs)
        BY <3>1 DEF TakeJob
      <4>2. Head(jobs).op \in {"create", "run", "cancel"}
        BY <1>2, <4>1, JobsTail DEF Types, Job
      <4>3. pc'[w] = FirstStep(Head(jobs).op)
        BY <1>2, <3>1 DEF TakeJob, Types, PoolTypes
      <4> QED  BY <4>2, <4>3 DEF FirstStep
    <3>2. CASE AddNew(w) \/ ReAdd(w)
      BY <1>2, <3>2 DEF AddNew, ReAdd, Goto, Types, PoolTypes
    <3> QED  BY <1>8, <3>1, <3>2
  <2>6. SlotWay(w)'
    BY <2>5 DEF SlotWay
  <2> QED  BY <1>1, <1>2, <2>1, <2>3, <2>4, <2>6, WayFrame DEF TaskSame, SlotSame
<1> QED  BY <1>1, <1>3, <1>4, <1>5, <1>6, <1>7, <1>8 DEF DirectNext

-----------------------------------------------------------------------------

\* The account of a task's nodes: those of the runs that are over, those of
\* this run, and one whose things are done but which is not counted yet.
Advancing(t) == \E w \in Slot : pc[w] = "advance" /\ cur[w] = t
InOrder(t) ==
    \A i \in DOMAIN served[t] :
        /\ served[t][i].node = ((i - 1) % Len(Nodes[t])) + 1
        /\ Nodes[t][served[t][i].node] \in {0, served[t][i].at}
Tally(t) ==
    /\ index[t] <= Len(Nodes[t])
    /\ runs[t] <= RunTimes[t] /\ (RunTimes[t] >= 1 => runs[t] >= 1)
    /\ Len(served[t]) = Len(Nodes[t]) * (RunTimes[t] - runs[t]) + index[t]
                        + (IF Advancing(t) THEN 1 ELSE 0)
    /\ t \in RangeOf(done) => Len(served[t]) = Len(Nodes[t]) * RunTimes[t]
    /\ InOrder(t)
CountInv == Direct => \A t \in Task : Tally(t)

LEMMA TallyFrame ==
    ASSUME NEW t \in Task, Tally(t), index'[t] = index[t], runs'[t] = runs[t],
           served'[t] = served[t], Advancing(t)' <=> Advancing(t),
           t \in RangeOf(done') => t \in RangeOf(done)
    PROVE  Tally(t)'
BY DEF Tally, InOrder, RangeOf

LEMMA Lengths ==
    ASSUME NEW t \in Task, GivenInv, Direct
    PROVE  /\ Len(Nodes[t]) \in Nat /\ RunTimes[t] \in Nat
           /\ Len(nodes[t]) = Len(Nodes[t])
           /\ \A i \in 1..Len(Nodes[t]) :
                nodes[t][i].station = Nodes[t][i] /\ nodes[t][i].id = i
<1>1. Nodes[t] \in Seq(Aim) /\ RunTimes[t] \in Nat
  BY TaskAssumption
<1>2. Len(Nodes[t]) \in Nat /\ nodes[t] = Given(t)
  BY <1>1 DEF GivenInv
<1> QED  BY <1>1, <1>2 DEF Given

\* After k whole runs of L nodes and i nodes of the next, the next is node i + 1.
LEMMA NextInTurn ==
    ASSUME NEW L \in Nat, NEW k \in Nat, NEW i \in Nat, i < L
    PROVE  (L * k + i) % L = i
OBVIOUS

LEMMA OneRunMore ==
    ASSUME NEW L \in Nat, NEW R \in Nat, NEW r \in Nat
    PROVE  L * (R - r) + L = L * (R - (r - 1)) /\ L * (R - 1) + L = L * R
OBVIOUS

LEMMA TallyDistribute ==
    ASSUME StageInv, GivenInv, Direct, NEW t \in Task, DirectDistribute(t),
           \A u \in Task : Tally(u), NEW u \in Task
    PROVE  Tally(u)'
<1>1. Types /\ HolderInv
  BY DEF StageInv, DriveInv
<1>2. At(t) /\ UNCHANGED <<pc, cur, served>>
  BY DEF DirectDistribute, Finish, RunAgain, ExcuteInPlace, Continue, Postpone,
    AssignIdle, Take, Excute, poolVars
<1>3. Advancing(u)' <=> Advancing(u)
  BY <1>2 DEF Advancing
<1>4. ~Advancing(t) /\ t \notin RangeOf(done) /\ t \in submitted
  BY <1>1, <1>2, QueueAlone DEF Advancing, HoldSteps, RunSteps
<1>5. RunTimes[t] >= 1 /\ runs[t] \in Nat /\ index[t] \in Nat
  BY <1>1, <1>4 DEF Direct, Types, TaskTypes
<1>6. Tally(t) /\ Tally(u)
  OBVIOUS
<1>7. CASE Finish(t)
  <2>1. index[t] >= Len(nodes[t]) /\ runs[t] <= 1 /\ done' = Append(done, t)
        /\ UNCHANGED <<index, runs>>
    BY <1>7 DEF Finish, Completed
  <2>2. RangeOf(done') \subseteq RangeOf(done) \cup {t}
    BY <1>1, <2>1 DEF Types, ListTypes, RangeOf
  <2>3. CASE u = t
    <3>1. index[t] = Len(Nodes[t]) /\ runs[t] = 1
      BY <1>5, <1>6, <2>1, Lengths DEF Tally
    <3>2. Len(served[t]) = Len(Nodes[t]) * (RunTimes[t] - 1) + Len(Nodes[t])
      <4>1. Len(served[t]) = Len(Nodes[t]) * (RunTimes[t] - runs[t]) + index[t] + 0
        BY <1>4, <1>6 DEF Tally
      <4>2. \A x \in Int : x + 0 = x
        OBVIOUS
      <4>3. Len(Nodes[t]) * (RunTimes[t] - 1) + Len(Nodes[t]) \in Int
        BY Lengths
      <4> QED  BY <3>1, <4>1, <4>2, <4>3
    <3>3. Len(served[t]) = Len(Nodes[t]) * RunTimes[t]
      BY <3>2, Lengths, OneRunMore
    <3> QED  BY <1>2, <1>3, <1>6, <2>1, <2>3, <3>3 DEF Tally, InOrder
  <2>4. CASE u # t
    BY <1>2, <1>3, <1>6, <2>1, <2>2, <2>4, TallyFrame
  <2> QED  BY <2>3, <2>4
<1>8. CASE RunAgain(t)
  <2>1. /\ index[t] >= Len(nodes[t]) /\ runs[t] > 1 /\ UNCHANGED done
        /\ index' = [index EXCEPT ![t] = 0] /\ runs' = [runs EXCEPT ![t] = @ - 1]
    BY <1>8 DEF RunAgain, Completed, Restart, listVars
  <2>2. index \in [Task -> Nat] /\ runs \in [Task -> Nat]
    BY <1>1 DEF Types, TaskTypes
  <2>3. CASE u = t
    <3>0. Len(Nodes[t]) \in Nat /\ RunTimes[t] \in Nat /\ Len(nodes[t]) = Len(Nodes[t])
      BY Lengths
    <3>1. index[t] = Len(Nodes[t]) /\ index'[t] = 0 /\ runs'[t] = runs[t] - 1
      <4>1. index[t] <= Len(Nodes[t])
        BY <1>6 DEF Tally
      <4> QED  BY <1>5, <2>1, <2>2, <3>0, <4>1
    <3>2. Len(served[t]) = Len(Nodes[t]) * (RunTimes[t] - runs[t]) + Len(Nodes[t]) + 0
      BY <1>4, <1>6, <3>1 DEF Tally
    <3>3. Len(served[t]) = Len(Nodes[t]) * (RunTimes[t] - (runs[t] - 1)) + 0 + 0
      <4>1. /\ Len(Nodes[t]) * (RunTimes[t] - runs[t]) + Len(Nodes[t]) \in Int
            /\ Len(Nodes[t]) * (RunTimes[t] - (runs[t] - 1)) \in Int
        <5>1. RunTimes[t] - runs[t] \in Int /\ RunTimes[t] - (runs[t] - 1) \in Int
          BY <1>5, <3>0
        <5> QED  BY <3>0, <5>1
      <4>2. Len(Nodes[t]) * (RunTimes[t] - runs[t]) + Len(Nodes[t])
              = Len(Nodes[t]) * (RunTimes[t] - (runs[t] - 1))
        BY <1>5, <3>0, OneRunMore
      <4>3. \A x \in Int : x + 0 = x
        OBVIOUS
      <4> QED  BY <3>2, <4>1, <4>2, <4>3
    <3>4. runs'[t] <= RunTimes[t] /\ runs'[t] >= 1 /\ index'[t] <= Len(Nodes[t])
      BY <1>5, <1>6, <2>1, <3>1, Lengths DEF Tally
    <3>5. ~Advancing(t)' /\ t \notin RangeOf(done') /\ served'[t] = served[t]
      BY <1>2, <1>3, <1>4, <2>1, <2>3
    <3>6. Len(served'[t]) = Len(Nodes[t]) * (RunTimes[t] - runs'[t]) + index'[t] + 0
      BY <3>1, <3>3, <3>5
    <3>7. InOrder(t)'
      BY <1>6, <3>5 DEF Tally, InOrder
    <3> QED  BY <2>3, <3>4, <3>5, <3>6, <3>7 DEF Tally, RangeOf
  <2>4. CASE u # t
    BY <1>2, <1>3, <1>6, <2>1, <2>2, <2>4, TallyFrame
  <2> QED  BY <2>3, <2>4
<1>9. CASE ~Finish(t) /\ ~RunAgain(t)
  <2>1. UNCHANGED <<index, runs, done>>
    BY <1>9 DEF DirectDistribute, ExcuteInPlace, Continue, Postpone, AssignIdle, Take,
      Excute, taskVars, listVars
  <2> QED  BY <1>2, <1>3, <1>6, <2>1, TallyFrame
<1> QED  BY <1>7, <1>8, <1>9

\* A thread's step leaves the account of the other tasks alone.
LEMMA TallyOthers ==
    ASSUME Types, NEW w \in Slot, TakeJob(w) \/ AddNew(w) \/ RunStep(w),
           NEW u \in Task, Tally(u),
           pc[w] # "advance" \/ cur[w] # u, pc'[w] # "advance" \/ cur'[w] # u,
           index'[u] = index[u], served'[u] = served[u], UNCHANGED <<runs, done>>
    PROVE  Tally(u)'
<1>1. \A v \in Slot \ {w} : pc'[v] = pc[v] /\ cur'[v] = cur[v]
  BY OthersWait
<1>2. Advancing(u)' <=> Advancing(u)
  BY <1>1 DEF Advancing
<1> QED  BY <1>2, TallyFrame

LEMMA TallyThings ==
    ASSUME StageInv, GivenInv, Direct, Quiet, OnTheWay, ServedType, NEW w \in Slot,
           DoThings(w), \A u \in Task : Tally(u), NEW u \in Task
    PROVE  Tally(u)'
<1>1. Types /\ HolderInv /\ ExecInv
  BY DEF StageInv, DriveInv
<1>2. /\ pc[w] = "things" /\ pc' = [pc EXCEPT ![w] = "advance"]
      /\ UNCHANGED <<index, runs, done, cur>>
  BY DEF DoThings, Goto, taskVars, listVars
<1>3. PICK t \in Task : /\ t = cur[w] /\ t \notin RangeOf(done)
                        /\ \A v \in Slot \ {w} : pc[v] \in HoldSteps => cur[v] # t
  BY <1>1, <1>2, HandAlone DEF RunSteps
<1>4. pc \in [Slot -> {"idle"} \cup HoldSteps \cup CancelSteps] /\ index[t] \in Nat
      /\ runs[t] \in Nat
  BY <1>1 DEF Types, PoolTypes, TaskTypes
<1>5. /\ ~isCancel[t] /\ index[t] < Len(Nodes[t]) /\ index[t] + 1 \in 1..Len(Nodes[t])
  <2>1. ~Completed(t)
    BY <1>1, <1>2, <1>3 DEF ExecInv, Executing, Early, RunSteps
  <2>2. index[t] < Len(Nodes[t])
    BY <1>4, <2>1, Lengths DEF Completed
  <2> QED  BY <1>4, <2>2, Lengths DEF Quiet
<1>6. NodeOf(t).id = index[t] + 1 /\ NodeOf(t).station = Nodes[t][index[t] + 1]
  BY <1>5, Lengths DEF NodeOf
<1>7. NodeOf(t).station \in {0, now[Vehicle(w)]}
  BY <1>2, <1>3 DEF OnTheWay, SlotWay, Aimed
<1>8. PICK ok \in BOOLEAN : served' = [served EXCEPT ![t] = Append(@,
                  [node |-> NodeOf(t).id, at |-> now[Vehicle(w)], ok |-> ok])]
  <2>1. ~(isCancel[cur[w]] \/ NodeOf(cur[w]).id = 0)
    BY <1>3, <1>4, <1>5, <1>6
  <2>2. \E ok \in {TRUE} \cup {cur[w] \notin MayFail} :
           served' = [served EXCEPT ![cur[w]] = Append(@,
              [node |-> NodeOf(cur[w]).id, at |-> now[Vehicle(w)], ok |-> ok])]
    BY <2>1 DEF DoThings
  <2>3. ({TRUE} \cup {cur[w] \notin MayFail}) \subseteq BOOLEAN
    OBVIOUS
  <2> QED  BY <1>3, <2>2, <2>3
<1>9. CASE u # t
  <2>1. served'[u] = served[u]
    BY <1>8, <1>9 DEF ServedType
  <2> QED  BY <1>1, <1>2, <1>3, <1>9, <2>1, TallyOthers DEF RunStep
<1>10. CASE u = t
  <2> DEFINE e == [node |-> NodeOf(t).id, at |-> now[Vehicle(w)], ok |-> ok]
  <2>0. e \in [node : Nat, at : Aim, ok : BOOLEAN]
    <3>1. Running(t) /\ now \in [Agv -> Aim]
      BY <1>1, <1>2, <1>3 DEF Running, RunSteps, Types, AgvTypes
    <3>2. Vehicle(w) \in Agv
      BY <1>3, <3>1 DEF StageInv, EngagedInv, Needs, Engaged, Direct, Vehicle
    <3> QED  BY <1>4, <1>6, <3>1, <3>2
  <2>1. e.node = index[t] + 1 /\ e.at = now[Vehicle(w)]
    BY <1>6
  <2>2. served'[t] = Append(served[t], e)
    BY <1>8 DEF ServedType
  <2> HIDE DEF e
  <2>3. /\ Len(served[t]) \in Nat /\ DOMAIN served[t] = 1..Len(served[t])
        /\ DOMAIN served'[t] = 1..(Len(served[t]) + 1)
        /\ Len(served'[t]) = Len(served[t]) + 1
        /\ served'[t][Len(served[t]) + 1] = e
        /\ \A i \in 1..Len(served[t]) : served'[t][i] = served[t][i]
    <3>1. served[t] \in Seq([node : Nat, at : Aim, ok : BOOLEAN])
      BY DEF ServedType
    <3> QED  BY <2>0, <2>2, <3>1
  <2>4. /\ Tally(t) /\ ~Advancing(t) /\ Advancing(t)'
    BY <1>2, <1>3, <1>4 DEF Advancing, HoldSteps, RunSteps
  <2>5. Len(served[t]) = Len(Nodes[t]) * (RunTimes[t] - runs[t]) + index[t]
    <3>1. Len(served[t]) = Len(Nodes[t]) * (RunTimes[t] - runs[t]) + index[t] + 0
      BY <2>4 DEF Tally
    <3>2. Len(Nodes[t]) * (RunTimes[t] - runs[t]) + index[t] \in Int
      <4>1. Len(Nodes[t]) \in Nat /\ RunTimes[t] \in Nat
        BY Lengths
      <4> QED  BY <1>4, <4>1
    <3> QED  BY <3>1, <3>2
  <2>6. Len(served'[t]) = Len(Nodes[t]) * (RunTimes[t] - runs'[t]) + index'[t] + 1
    BY <1>2, <2>3, <2>5
  <2>7. RunTimes[t] - runs[t] \in Nat
    BY <1>4, <2>4, Lengths DEF Tally
  <2>8. Len(served[t]) % Len(Nodes[t]) = index[t]
    <3>1. Len(Nodes[t]) \in Nat
      BY Lengths
    <3>2. (Len(Nodes[t]) * (RunTimes[t] - runs[t]) + index[t]) % Len(Nodes[t]) = index[t]
      BY <1>4, <1>5, <2>7, <3>1, NextInTurn
    <3> QED  BY <2>5, <3>2
  <2>9. InOrder(t)'
    <3> SUFFICES ASSUME NEW i \in 1..(Len(served[t]) + 1)
                 PROVE  /\ served'[t][i].node = ((i - 1) % Len(Nodes[t])) + 1
                        /\ Nodes[t][served'[t][i].node] \in {0, served'[t][i].at}
      BY <2>3 DEF InOrder
    <3>1. CASE i \in 1..Len(served[t])
      BY <2>3, <2>4, <3>1 DEF Tally, InOrder
    <3>2. CASE i = Len(served[t]) + 1
      <4>1. i - 1 = Len(served[t])
        BY <2>3, <3>2
      <4> QED  BY <1>6, <1>7, <2>1, <2>3, <2>8, <3>2, <4>1
    <3> QED  BY <2>3, <3>1, <3>2
  <2>10. t \notin RangeOf(done')
    BY <1>2, <1>3
  <2> QED  BY <1>2, <1>10, <2>4, <2>6, <2>9, <2>10 DEF Tally, RangeOf
<1> QED  BY <1>9, <1>10

LEMMA TallyAdvance ==
    ASSUME StageInv, GivenInv, Direct, ServedType, NEW w \in Slot,
           Advance(w), \A u \in Task : Tally(u), NEW u \in Task
    PROVE  Tally(u)'
<1>1. Types /\ HolderInv /\ ExecInv
  BY DEF StageInv, DriveInv
<1>2. PICK to \in {"erase", "idle"} : /\ pc[w] = "advance" /\ pc' = [pc EXCEPT ![w] = to]
      /\ index' = [index EXCEPT ![cur[w]] = @ + 1]
      /\ UNCHANGED <<runs, done, cur, served>>
  BY DEF Advance, Goto, taskVars, listVars
<1>3. PICK t \in Task : /\ t = cur[w] /\ t \notin RangeOf(done)
                        /\ \A v \in Slot \ {w} : pc[v] \in HoldSteps => cur[v] # t
  BY <1>1, <1>2, HandAlone DEF RunSteps
<1>4. pc \in [Slot -> {"idle"} \cup HoldSteps \cup CancelSteps] /\ index \in [Task -> Nat]
      /\ runs[t] \in Nat
  BY <1>1 DEF Types, PoolTypes, TaskTypes
<1>5. pc'[w] # "advance"
  BY <1>2, <1>4
<1>6. CASE u # t
  <2>1. index'[u] = index[u] /\ served'[u] = served[u]
    BY <1>2, <1>3, <1>4, <1>6
  <2> QED  BY <1>1, <1>2, <1>3, <1>5, <1>6, <2>1, TallyOthers DEF RunStep
<1>7. CASE u = t
  <2>1. Tally(t) /\ Advancing(t)
    BY <1>2, <1>3 DEF Advancing
  <2>2. ~Advancing(t)'
    BY <1>2, <1>3, <1>4, <1>5 DEF Advancing, HoldSteps, RunSteps
  <2>3. index'[t] = index[t] + 1 /\ index[t] \in Nat
    BY <1>2, <1>3, <1>4
  <2>4. index'[t] <= Len(Nodes[t])
    <3>1. ~Completed(t)
      BY <1>1, <1>2, <1>3 DEF ExecInv, Executing, Early, RunSteps
    <3> QED  BY <2>3, <3>1, Lengths DEF Completed
  <2>5. Len(served[t]) = Len(Nodes[t]) * (RunTimes[t] - runs[t]) + index[t] + 1
    BY <2>1 DEF Tally
  <2>6. Len(served[t]) = Len(Nodes[t]) * (RunTimes[t] - runs[t]) + (index[t] + 1) + 0
    <3>1. Len(Nodes[t]) * (RunTimes[t] - runs[t]) \in Int
      BY <1>4, Lengths
    <3>2. \A x \in Int : x + index[t] + 1 = x + (index[t] + 1) + 0
      BY <2>3
    <3> QED  BY <2>5, <3>1, <3>2
  <2>7. t \notin RangeOf(done') /\ InOrder(t)'
    BY <1>2, <1>3, <2>1 DEF Tally, InOrder
  <2> QED  BY <1>2, <1>7, <2>1, <2>2, <2>3, <2>4, <2>6, <2>7 DEF Tally, RangeOf
<1> QED  BY <1>6, <1>7

LEMMA CountNext ==
    ASSUME StageInv, ServedType, GivenInv, GoInv, OnTheWayInv, CountInv, [Next]_vars
    PROVE  CountInv'
<1> SUFFICES ASSUME Direct', NEW u \in Task PROVE Tally(u)'
  BY DEF CountInv
<1>1. Direct /\ Quiet /\ (DirectNext \/ UNCHANGED vars) /\ UNCHANGED nodes
  BY DirectSteps
<1>2. OnTheWay /\ Types /\ \A t \in Task : Tally(t)
  BY <1>1 DEF OnTheWayInv, StageInv, DriveInv, CountInv
<1>3. CASE \/ UNCHANGED vars \/ (\E t \in Task : RequestCreate(t))
           \/ ScanStart \/ ScanNext
  <2>1. UNCHANGED <<index, runs, served, done, pc, cur>>
    BY <1>3 DEF RequestCreate, ScanStart, ScanNext, vars, taskVars, listVars, poolVars
  <2>2. Advancing(u)' <=> Advancing(u)
    BY <2>1 DEF Advancing
  <2> QED  BY <1>2, <2>1, <2>2, TallyFrame
<1>4. ASSUME NEW t \in Task, DirectDistribute(t)  PROVE Tally(u)'
  BY <1>1, <1>2, <1>4, TallyDistribute
<1>5. ASSUME NEW w \in Slot, TakeJob(w) \/ AddNew(w) \/ RunStep(w),
             ~DoThings(w), ~Advance(w)
      PROVE  Tally(u)'
  <2>1. UNCHANGED <<index, runs, served, done>>
    BY <1>5 DEF TakeJob, AddNew, RunStep, Start, Drive, GiveUp, Depart, Arrive,
      EraseDoing, ReAdd, Add, taskVars, listVars
  <2>2. pc[w] # "advance"
    BY <1>5 DEF TakeJob, AddNew, RunStep, Start, Drive, GiveUp, Depart, Arrive,
      EraseDoing, ReAdd, Goto
  <2>3. pc'[w] # "advance"
    <3>1. CASE TakeJob(w)
      <4>1. jobs # <<>>
        BY <3>1 DEF TakeJob
      <4>2. Head(jobs).op \in {"create", "run", "cancel"}
        <5>1. jobs \in Seq(Job)
          BY <1>2 DEF Types, PoolTypes
        <5>2. Head(jobs) \in Job
          BY <4>1, <5>1
        <5> QED  BY <5>2 DEF Job
      <4>3. pc'[w] = FirstStep(Head(jobs).op)
        BY <1>2, <3>1 DEF TakeJob, Types, PoolTypes
      <4> QED  BY <4>2, <4>3 DEF FirstStep
    <3>2. CASE Drive(w)
      BY <1>2, <2>2, <3>2 DEF Drive, Goto, Types, PoolTypes
    <3>3. CASE ~TakeJob(w) /\ ~Drive(w)
      BY <1>2, <1>5, <3>3 DEF AddNew, RunStep, Start, GiveUp, Depart, Arrive, EndStation,
        EraseDoing, ReAdd, Goto, Types, PoolTypes
    <3> QED  BY <3>1, <3>2, <3>3
  <2> QED  BY <1>2, <1>5, <2>1, <2>2, <2>3, TallyOthers
<1>6. ASSUME NEW w \in Slot, DoThings(w)  PROVE Tally(u)'
  BY <1>1, <1>2, <1>6, TallyThings
<1>7. ASSUME NEW w \in Slot, Advance(w)  PROVE Tally(u)'
  BY <1>1, <1>2, <1>7, TallyAdvance
<1> QED  BY <1>1, <1>3, <1>4, <1>5, <1>6, <1>7 DEF DirectNext

-----------------------------------------------------------------------------

OrderInv == /\ StageInv /\ ServedType /\ GivenInv /\ GoInv
            /\ StandInv /\ OnTheWayInv /\ CountInv

LEMMA OrderInit == Init => OrderInv
<1> SUFFICES ASSUME Init PROVE OrderInv
  OBVIOUS
<1>1. StageInv /\ ServedType
  BY DriveInit, ExecInit DEF StageInv, Init, ServedType
<1>2. GivenInv /\ GoInv
  BY DEF Init, GivenInv, Given, GoInv
<1>3. StandInv
  <2>1. \A a \in Agv : now[a] \in Station
    BY AgvAssumption DEF Init
  <2> QED  BY <2>1, StationAssumption DEF StandInv
<1>4. OnTheWayInv
  <2>1. (\A w \in Slot : pc[w] = "idle") /\ DOMAIN jobs = {}
    BY DEF Init
  <2> QED  BY <2>1 DEF OnTheWayInv, OnTheWay, TaskWay, SlotWay, Waiting, RunJob
<1>5. CountInv
  <2> SUFFICES ASSUME NEW t \in Task PROVE Tally(t)
    BY DEF CountInv
  <2>1. Nodes[t] \in Seq(Aim) /\ RunTimes[t] \in Nat /\ Len(Nodes[t]) \in Nat
    BY TaskAssumption
  <2>2. /\ index[t] = 0 /\ runs[t] = RunTimes[t] /\ served[t] = <<>> /\ done = <<>>
        /\ ~Advancing(t)
    BY DEF Init, Advancing
  <2>3. Len(Nodes[t]) * (RunTimes[t] - RunTimes[t]) + 0 + 0 = 0 /\ Len(<<>>) = 0
    BY <2>1
  <2>4. InOrder(t) /\ t \notin RangeOf(done)
    BY <2>2 DEF InOrder, RangeOf
  <2> QED  BY <2>1, <2>2, <2>3, <2>4 DEF Tally
<1> QED  BY <1>1, <1>2, <1>3, <1>4, <1>5 DEF OrderInv

LEMMA StageNext == StageInv /\ [Next]_vars => StageInv'
BY DriveNext, ExecNext DEF StageInv, DriveInv

\* The nodes of a task are served in order, each with the vehicle standing at
\* its station, and a task is done when every node was served in each of its
\* runs: for any tasks, vehicles, threads and map, until a client disturbs the
\* vehicles or asks for no run at all, and until distributeTask pushes a halt
\* node (taskmanager.cpp:129-408, 600-668; virtualrosagv.cpp:44-88).
THEOREM ServedInOrderAlways ==
    Spec => [](Direct => ServedInOrder)
<1>1. OrderInv /\ [Next]_vars => OrderInv'
  <2> SUFFICES ASSUME OrderInv, [Next]_vars PROVE OrderInv'
    OBVIOUS
  <2>1. StageInv' /\ ServedType'
    BY StageNext, ServedTypeNext DEF OrderInv, StageInv, DriveInv
  <2>2. GivenInv' /\ GoInv' /\ StandInv'
    BY GivenNext, GoNext, StandNext DEF OrderInv, StageInv, DriveInv
  <2>3. OnTheWayInv'
    BY WayNext DEF OrderInv
  <2>4. CountInv'
    BY CountNext DEF OrderInv
  <2> QED  BY <2>1, <2>2, <2>3, <2>4 DEF OrderInv
<1>2. OrderInv => (Direct => ServedInOrder)
  BY DEF OrderInv, CountInv, Tally, InOrder, ServedInOrder
<1> QED  BY <1>1, <1>2, OrderInit, PTL DEF Spec
=============================================================================
