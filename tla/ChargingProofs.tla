--------------------------- MODULE ChargingProofs ---------------------------
(***************************************************************************)
(* A vehicle and its charge machine keep to ChargeCycle, for any number of *)
(* charges and of connections lost, refused or left running.               *)
(***************************************************************************)
EXTENDS Charging, TLAPS

-----------------------------------------------------------------------------
(* Types *)

Pcs == {"over", "check", "raise", "raising", "starting", "charging", "full?", "end",
        "ending", "stopping", "idle?", "lower", "lowering"}

ChargingTypeOK ==
    /\ pc \in Pcs /\ run \in Nat /\ bresult \in BOOLEAN
    /\ connected \in BOOLEAN /\ realStatus \in Status \cup Unset /\ torn \in BOOLEAN
    /\ link \in [Client -> {"none", "connecting", "up", "broken"}]
    /\ command \in [Client -> {Nothing, "start", "stop"}]
    /\ report \in [Client -> Status \cup {Nothing}]
    /\ machine \in Status
    /\ fork \in {"down", "up"} /\ ready \in BOOLEAN
    /\ order \in {Nothing, "up", "start", "end", "down"}
    /\ cancelled \in BOOLEAN /\ upsets \in Nat
    /\ excused \in SUBSET {"not sent", "never told"}

-----------------------------------------------------------------------------
(* What the thread may rely on *)

\* What is on its way to the machine, and from it.
Commands(cs) == \A k \in Client : command[k] \in cs \cup {Nothing}
Reports(ss) == \A k \in Client : report[k] \in ss \cup {Nothing}

\* The machine is idle, and nothing that has been or will be heard of it says
\* anything else.
AtRest ==
    /\ machine = "idle" /\ Commands({"stop"}) /\ Reports({"idle"})
    /\ realStatus \notin {"charging", "full"}
\* The machine has been started: what it is said to be full it is.
Started ==
    /\ Commands({"start"}) /\ Reports({"charging", "full"})
    /\ realStatus = "full" => machine = "full"
    /\ \A k \in Client : report[k] = "full" => machine = "full"
\* It was heard to be full, and nobody has told it to stop.
HeardFull == Started /\ machine = "full" /\ realStatus \in {"charging", "full"}
\* It is told to stop, until it says that it is idle.
Stopping ==
    /\ Commands({"stop"}) /\ Reports({"idle"})
    /\ machine \in {"idle", "full"}
    /\ IsIdle(realStatus) => machine = "idle"
    /\ \A k \in Client : report[k] = "idle" => machine = "idle"

CycleInv ==
    excused = {} =>
        /\ pc \in {"over", "check", "raise", "lower"} =>
               AtRest /\ ~ready /\ order = Nothing
        /\ pc = "raising" => AtRest /\ ~ready /\ (order = "up" \/ (order = Nothing /\ fork = "up"))
        /\ pc = "lowering" => AtRest /\ ~ready /\ order \in {Nothing, "down"}
        /\ pc = "starting" =>
               AtRest /\ fork = "up" /\ (order = "start" \/ (order = Nothing /\ ready))
        /\ pc \in {"charging", "full?"} => Started /\ fork = "up" /\ ready /\ order = Nothing
        /\ pc = "end" => order = Nothing /\ ((AtRest /\ ~ready) \/ HeardFull)
        /\ pc = "ending" =>
               /\ order = "end" \/ (order = Nothing /\ ~ready)
               /\ (AtRest /\ ~ready) \/ HeardFull
        /\ pc \in {"stopping", "idle?"} => Stopping /\ ~ready /\ order = Nothing

-----------------------------------------------------------------------------
(* Types are kept *)

LEMMA ClientsAre == MaxRuns \in Nat /\ Client = 1..MaxRuns
BY ChargingAssumption DEF Client

LEMMA ChargingTypesInit == Init => ChargingTypeOK
<1> SUFFICES ASSUME Init PROVE ChargingTypeOK
  OBVIOUS
<1>1. pc \in Pcs /\ run \in Nat /\ machine \in Status /\ realStatus \in Status \cup Unset /\ upsets \in Nat
  BY DEF Init, Pcs, Status
<1>2. /\ link \in [Client -> {"none", "connecting", "up", "broken"}]
      /\ command \in [Client -> {Nothing, "start", "stop"}]
      /\ report \in [Client -> Status \cup {Nothing}]
  BY DEF Init
<1>3. bresult \in BOOLEAN /\ connected \in BOOLEAN /\ torn \in BOOLEAN /\ ready \in BOOLEAN /\ cancelled \in BOOLEAN
  BY DEF Init
<1>4. fork \in {"down", "up"} /\ order \in {Nothing, "up", "start", "end", "down"}
  BY DEF Init
<1>5. excused \in SUBSET {"not sent", "never told"}
  BY DEF Init
<1> QED
  BY <1>1, <1>2, <1>3, <1>4, <1>5 DEF ChargingTypeOK

LEMMA ChargingTypesNext == ChargingTypeOK /\ [Next]_vars => ChargingTypeOK'
<1> SUFFICES ASSUME ChargingTypeOK, [Next]_vars PROVE ChargingTypeOK'
  OBVIOUS
<1>0. /\ Upset => upsets' \in Nat
      /\ run' = run + 1 => run' \in Nat
  <2>1. upsets \in Nat /\ run \in Nat
    BY DEF ChargingTypeOK
  <2> QED
    BY <2>1 DEF Upset
<1> USE DEF ChargingTypeOK, threadVars, clientVars, wireVars, carVars, upsetVars
<1>1. ASSUME NEW k \in Client, Connect(k) \/ ConnectFails(k) \/ Notice(k) PROVE ChargingTypeOK'
  <2>1. connected' \in BOOLEAN
    BY <1>1 DEF Connect, ConnectFails, Notice
  <2>2. link' \in [Client -> {"none", "connecting", "up", "broken"}] /\ upsets' \in Nat
    BY <1>0, <1>1 DEF Connect, ConnectFails, Notice, Again
  <2> QED
    BY <1>1, <2>1, <2>2 DEF Connect, ConnectFails, Notice
<1>2. ASSUME NEW k \in Client, Break(k) PROVE ChargingTypeOK'
  <2>1. torn' \in BOOLEAN
    BY <1>2 DEF Break
  <2> QED
    BY <1>0, <1>2, <2>1 DEF Break
<1>3. ASSUME NEW k \in Client, Read(k) PROVE ChargingTypeOK'
  BY <1>3 DEF Read
<1>4. ASSUME NEW k \in Client, Take(k) PROVE ChargingTypeOK'
  <2>1. command[k] \in {"start", "stop"}
    BY <1>4 DEF Take
  <2>2. machine' \in Status
    BY <1>4, <2>1 DEF Take, Told, Status
  <2> QED
    BY <1>4, <2>2 DEF Take
<1>5. ASSUME Fill PROVE ChargingTypeOK'
  BY <1>5 DEF Fill, Status
<1>6. ASSUME CarryOut PROVE ChargingTypeOK'
  <2>1. ready' \in BOOLEAN
    BY <1>6 DEF CarryOut
  <2>2. fork' \in {"down", "up"} /\ order' = Nothing
    BY <1>6 DEF CarryOut
  <2> QED
    BY <1>6, <2>1, <2>2 DEF CarryOut
<1>7. ASSUME Cancel PROVE ChargingTypeOK'
  <2>1. cancelled' \in BOOLEAN
    BY <1>7 DEF Cancel
  <2> QED
    BY <1>0, <1>7, <2>1 DEF Cancel
<1>8. ASSUME BeforeDoing PROVE ChargingTypeOK'
  <2>1. link' \in [Client -> {"none", "connecting", "up", "broken"}]
    BY <1>8 DEF BeforeDoing
  <2>2. run' \in Nat /\ bresult' \in BOOLEAN /\ pc' \in Pcs
    BY <1>0, <1>8 DEF BeforeDoing, Goto, Pcs
  <2> QED
    BY <1>8, <2>1, <2>2 DEF BeforeDoing
<1>9. ASSUME CheckConnection \/ TestIdle \/ AfterDoing PROVE ChargingTypeOK'
  <2>1. pc' \in Pcs /\ bresult' \in BOOLEAN
    <3>1. CASE CheckConnection
      BY <3>1 DEF CheckConnection, Pcs
    <3>2. CASE TestIdle
      BY <3>2 DEF TestIdle, Pcs
    <3>3. CASE AfterDoing
      BY <3>3 DEF AfterDoing, Goto, Pcs
    <3> QED
      BY <1>9, <3>1, <3>2, <3>3
  <2>2. UNCHANGED <<run, clientVars, wireVars, machine, carVars, upsetVars, excused>>
    BY <1>9 DEF CheckConnection, TestIdle, AfterDoing
  <2> QED
    BY <2>1, <2>2
<1>9a. ASSUME TestFull PROVE ChargingTypeOK'
  <2>1. pc' \in Pcs
    BY <1>9a DEF TestFull, Pcs
  <2>2. excused' \in SUBSET {"not sent", "never told"}
    BY <1>9a DEF TestFull
  <2>3. UNCHANGED <<run, bresult, clientVars, wireVars, machine, carVars, upsetVars>>
    BY <1>9a DEF TestFull
  <2> QED
    BY <2>1, <2>2, <2>3
<1>10. ASSUME Raise \/ Lower PROVE ChargingTypeOK'
  <2>1. pc' \in Pcs
    BY <1>10 DEF Raise, Lower, Goto, Pcs
  <2>2. order' \in {Nothing, "up", "start", "end", "down"}
    BY <1>10 DEF Raise, Lower, Give, NotSent
  <2>3. UNCHANGED <<run, bresult, clientVars, wireVars, machine, fork, ready, upsetVars, excused>>
    BY <1>10 DEF Raise, Lower, Give, NotSent
  <2> QED
    BY <2>1, <2>2, <2>3
<1>11. ASSUME StartCharge \/ EndCharge PROVE ChargingTypeOK'
  BY <1>11 DEF StartCharge, EndCharge, Goto, Give, NotSent, Pcs
<1>12. ASSUME NEW a \in Pcs, NEW b \in Pcs, TellStart(a, b) \/ TellStop(a, b) PROVE ChargingTypeOK'
  <2>1. command' \in [Client -> {Nothing, "start", "stop"}]
    BY <1>12 DEF TellStart, TellStop, ChargeControl, Send
  <2> QED
    BY <1>12, <2>1 DEF TellStart, TellStop, Goto
<1>13. ASSUME UNCHANGED vars PROVE ChargingTypeOK'
  BY <1>13 DEF vars
<1>14. {"starting", "charging", "full?", "ending", "stopping", "idle?"} \subseteq Pcs
  BY DEF Pcs
<1> QED
  BY <1>1, <1>2, <1>3, <1>4, <1>5, <1>6, <1>7, <1>8, <1>9, <1>9a, <1>10, <1>11, <1>12, <1>13, <1>14
  DEF Next, Thread

-----------------------------------------------------------------------------
(* The invariant is kept *)

\* What was excused stays so.
LEMMA ExcusedForGood == ChargingTypeOK /\ [Next]_vars => excused \subseteq excused'
<1> SUFFICES ASSUME [Next]_vars PROVE excused \subseteq excused'
  OBVIOUS
<1> USE DEF Connect, ConnectFails, Notice, Break, Read, Take, Fill, CarryOut, Cancel,
            BeforeDoing, CheckConnection, TestIdle, AfterDoing, TestFull, Raise, Lower,
            StartCharge, EndCharge, Give, NotSent, TellStart, TellStop, vars
<1> QED
  BY DEF Next, Thread

\* Connections and clients only take away what is on its way.
LEMMA WireSteps ==
    ASSUME ChargingTypeOK, CycleInv,
           UNCHANGED <<pc, machine, realStatus, fork, ready, order, excused>>,
           \A k \in Client : command'[k] \in {command[k], Nothing},
           \A k \in Client : report'[k] \in {report[k], Nothing}
    PROVE  CycleInv'
<1>0. Nothing \notin {"idle", "charging", "full", "start", "stop"}
  BY DEF Nothing
<1>1. \A cs : Commands(cs) => Commands(cs)'
  BY DEF Commands
<1>2. \A ss : Reports(ss) => Reports(ss)'
  BY DEF Reports
<1>3. \A k \in Client, s \in {"idle", "charging", "full"} : report'[k] = s => report[k] = s
  BY <1>0
<1>4. (AtRest => AtRest') /\ (Started => Started') /\ (Stopping => Stopping')
  BY <1>1, <1>2, <1>3 DEF AtRest, Started, Stopping
<1>5. HeardFull => HeardFull'
  BY <1>4 DEF HeardFull
<1> QED
  BY <1>4, <1>5 DEF CycleInv

LEMMA ReadStep ==
    ASSUME ChargingTypeOK, CycleInv, NEW k \in Client, Read(k)
    PROVE  CycleInv'
<1>1. /\ UNCHANGED <<pc, machine, fork, ready, order, excused, command>>
      /\ report[k] \in Status /\ report' = [report EXCEPT ![k] = Nothing]
      /\ realStatus' \in {realStatus, report[k]}
  BY DEF Read, threadVars, carVars, ChargingTypeOK
<1>2. \A j \in Client : report'[j] \in {report[j], Nothing}
  BY <1>1 DEF ChargingTypeOK
<1>3. \A cs : Commands(cs) => Commands(cs)'
  BY <1>1 DEF Commands
<1>4. \A ss : Reports(ss) => Reports(ss)' /\ report[k] \in ss
  BY <1>1, <1>2 DEF Reports, Status, Nothing
<1>5. \A j \in Client, s \in Status : report'[j] = s => report[j] = s
  BY <1>2 DEF Status, Nothing
<1>6. AtRest => AtRest'
  <2>1. AtRest => report[k] = "idle"
    BY <1>4 DEF AtRest
  <2> QED
    BY <1>1, <1>3, <1>4, <2>1 DEF AtRest
<1>7. (Started => Started') /\ (HeardFull => HeardFull')
  <2>1. Started => report[k] \in {"charging", "full"}
    BY <1>4 DEF Started
  <2>2. Started => Started'
    BY <1>1, <1>3, <1>4, <1>5 DEF Started, Status
  <2> QED
    BY <1>1, <2>1, <2>2 DEF HeardFull
<1>8. Stopping => Stopping'
  <2>1. Stopping => report[k] = "idle" /\ machine = "idle"
    BY <1>4 DEF Stopping
  <2> QED
    BY <1>1, <1>3, <1>4, <1>5, <2>1 DEF Stopping, Status
<1> QED
  BY <1>1, <1>6, <1>7, <1>8 DEF CycleInv

LEMMA TakeStep ==
    ASSUME ChargingTypeOK, CycleInv, NEW k \in Client, Take(k)
    PROVE  CycleInv'
<1>1. /\ UNCHANGED <<pc, realStatus, fork, ready, order, excused>>
      /\ command[k] \in {"start", "stop"} /\ command' = [command EXCEPT ![k] = Nothing]
      /\ report' = [report EXCEPT ![k] = machine']
  BY DEF Take, threadVars, clientVars, carVars, ChargingTypeOK
<1>2. /\ command[k] = "stop" => machine' = "idle"
      /\ command[k] = "start" => machine' = IF machine = "full" THEN "full" ELSE "charging"
  BY DEF Take, Told
<1>3. \A cs : Commands(cs) => Commands(cs)' /\ command[k] \in cs
  BY <1>1 DEF Commands, Nothing, ChargingTypeOK
<1>4. \A j \in Client : report'[j] = IF j = k THEN machine' ELSE report[j]
  BY <1>1 DEF ChargingTypeOK
<1>5. \A ss : Reports(ss) /\ machine' \in ss => Reports(ss)'
  BY <1>4 DEF Reports
<1>6. AtRest => AtRest'
  <2>1. AtRest => command[k] = "stop"
    BY <1>3 DEF AtRest
  <2> QED
    BY <1>1, <1>2, <1>3, <1>5, <2>1 DEF AtRest
<1>7. (Started => Started') /\ (HeardFull => HeardFull')
  <2>1. Started => command[k] = "start"
    BY <1>3 DEF Started
  <2>2. Started => machine' \in {"charging", "full"} /\ (machine = "full" => machine' = "full")
    BY <1>2, <2>1
  <2>3. Started => Started'
    BY <1>1, <1>3, <1>4, <1>5, <2>2 DEF Started
  <2> QED
    BY <1>1, <2>2, <2>3 DEF HeardFull
<1>8. Stopping => Stopping'
  <2>1. Stopping => command[k] = "stop"
    BY <1>3 DEF Stopping
  <2> QED
    BY <1>1, <1>2, <1>3, <1>4, <1>5, <2>1 DEF Stopping
<1> QED
  BY <1>1, <1>6, <1>7, <1>8 DEF CycleInv

LEMMA FillStep == ASSUME ChargingTypeOK, CycleInv, Fill PROVE CycleInv'
<1>1. /\ UNCHANGED <<pc, realStatus, fork, ready, order, excused, command>>
      /\ machine = "charging" /\ machine' = "full"
      /\ \A k \in Client : report'[k] \in {report[k], "full"}
  BY DEF Fill, threadVars, clientVars, carVars
<1>2. ~AtRest /\ ~HeardFull /\ ~Stopping
  BY <1>1 DEF AtRest, HeardFull, Stopping
<1>3. Commands({"start"}) => Commands({"start"})'
  BY <1>1 DEF Commands
<1>4. Reports({"charging", "full"}) => Reports({"charging", "full"})'
  BY <1>1 DEF Reports
<1>5. Started => Started'
  BY <1>1, <1>3, <1>4 DEF Started
<1> QED
  BY <1>1, <1>2, <1>5 DEF CycleInv, ChargingTypeOK, Pcs

LEMMA CarryOutStep == ASSUME ChargingTypeOK, CycleInv, CarryOut PROVE CycleInv'
<1>1. /\ UNCHANGED <<pc, machine, realStatus, command, report, excused>>
      /\ order # Nothing /\ order' = Nothing
      /\ fork' = IF order \in {"up", "down"} THEN order ELSE fork
      /\ ready' = IF order \in {"start", "end"} THEN order = "start" ELSE ready
  BY DEF CarryOut, threadVars, clientVars, wireVars
<1>2. /\ AtRest => AtRest'
      /\ HeardFull => HeardFull'
  BY <1>1 DEF AtRest, HeardFull, Started, Commands, Reports
<1> QED
  BY <1>1, <1>2 DEF CycleInv, ChargingTypeOK, Nothing, Pcs

\* What a command changes when it is sent.
LEMMA Controlled ==
    ASSUME ChargingTypeOK, NEW c, ChargeControl(c)
    PROVE  /\ \A k \in Client : report[k] = Nothing
           /\ \A k \in Client : command'[k] \in {Nothing, c}
<1>1. /\ \A k \in Client : command[k] = Nothing /\ report[k] = Nothing
      /\ \/ command' = command
         \/ command' = [command EXCEPT ![run] = IF Up(run) THEN c ELSE command[run]]
  BY DEF ChargeControl, Send, Settled
<1>2. command \in [Client -> {Nothing, "start", "stop"}]
  BY DEF ChargingTypeOK
<1> QED
  BY <1>1, <1>2

LEMMA TellSteps ==
    ASSUME ChargingTypeOK, CycleInv, excused = {},
           \/ TellStart("starting", "charging") \/ TellStart("charging", "full?")
           \/ TellStop("ending", "stopping") \/ TellStop("stopping", "idle?")
    PROVE  CycleInv'
<1>1. /\ UNCHANGED <<machine, realStatus, report, fork, ready, order, excused>> /\ order = Nothing
      /\ Nothing \notin {"start", "end"}
  BY DEF TellStart, TellStop, clientVars, carVars, Nothing
<1>2. ASSUME NEW a \in {"starting", "charging"}, NEW b \in {"charging", "full?"}, TellStart(a, b)
      PROVE  CycleInv'
  <2>1. pc = a /\ pc' = b /\ ChargeControl("start")
    BY <1>2 DEF TellStart, Goto
  <2>2. ready /\ fork = "up" /\ (realStatus = "full" => machine = "full")
    BY <1>1, <2>1 DEF CycleInv, AtRest, Started
  <2>3. Commands({"start"})' /\ \A k \in Client : report'[k] = Nothing
    BY <1>1, <2>1, Controlled DEF Commands
  <2>4. Started'
    BY <1>1, <2>2, <2>3 DEF Started, Reports, Nothing
  <2> QED
    BY <1>1, <2>1, <2>2, <2>4 DEF CycleInv
<1>3. ASSUME NEW a \in {"ending", "stopping"}, NEW b \in {"stopping", "idle?"}, TellStop(a, b)
      PROVE  CycleInv'
  <2>1. pc = a /\ pc' = b /\ ChargeControl("stop")
    BY <1>3 DEF TellStop, Goto
  <2>2. ~ready /\ (AtRest \/ HeardFull \/ Stopping)
    BY <1>1, <2>1 DEF CycleInv
  <2>3. machine \in {"idle", "full"} /\ (IsIdle(realStatus) => machine = "idle")
    BY <2>2 DEF AtRest, HeardFull, Stopping, IsIdle
  <2>4. Commands({"stop"})' /\ \A k \in Client : report'[k] = Nothing
    BY <1>1, <2>1, Controlled DEF Commands
  <2>5. Stopping'
    BY <1>1, <2>3, <2>4 DEF Stopping, Reports, Nothing, IsIdle
  <2> QED
    BY <1>1, <2>1, <2>2, <2>5 DEF CycleInv
<1> QED
  BY <1>2, <1>3

LEMMA ThreadSteps ==
    ASSUME ChargingTypeOK, CycleInv, excused' = {}, excused = {},
           \/ BeforeDoing \/ CheckConnection \/ Raise \/ StartCharge \/ TestFull \/ EndCharge
           \/ TestIdle \/ Lower \/ AfterDoing
    PROVE  CycleInv'
<1> USE DEF threadVars, clientVars, wireVars, carVars, upsetVars
<1>1. UNCHANGED <<machine, realStatus, report, command, fork, ready>>
  BY DEF BeforeDoing, CheckConnection, Raise, StartCharge, TestFull, EndCharge, TestIdle, Lower,
         AfterDoing, Give, NotSent
<1>2. /\ AtRest => AtRest'
      /\ Started => Started'
      /\ HeardFull => HeardFull'
      /\ Stopping => Stopping'
  BY <1>1 DEF AtRest, HeardFull, Started, Stopping, Commands, Reports
<1>3. CASE BeforeDoing
  <2>1. pc = "over" /\ pc' = "check" /\ order' = order
    BY <1>3 DEF BeforeDoing, Goto
  <2> QED
    BY <1>1, <1>2, <2>1 DEF CycleInv
<1>4. CASE CheckConnection
  <2>1. pc = "check" /\ pc' \in {"raise", "end"} /\ order' = order
    BY <1>4 DEF CheckConnection
  <2> QED
    BY <1>1, <1>2, <2>1 DEF CycleInv
<1>5. CASE Raise
  <2>1. pc = "raise" /\ (\/ pc' = "raising" /\ order' = "up"
                         \/ pc' = "end" /\ order' = order)
    BY <1>5 DEF Raise, Goto, Give, NotSent
  <2> QED
    BY <1>1, <1>2, <2>1 DEF CycleInv
<1>6. CASE StartCharge
  <2>1. pc = "raising" /\ pc' = "starting" /\ order = Nothing /\ order' = "start"
    BY <1>6 DEF StartCharge, Give
  <2>2. AtRest' /\ fork = "up"
    BY <1>2, <2>1 DEF CycleInv, Nothing
  <2> QED
    BY <1>1, <2>1, <2>2 DEF CycleInv
<1>7. CASE TestFull
  <2>1. /\ pc = "full?" /\ pc' = IF IsFull(realStatus) THEN "end" ELSE "charging"
        /\ order' = order /\ realStatus # "unset full"
    BY <1>7 DEF TestFull
  <2>2. Started /\ fork = "up" /\ ready /\ order = Nothing
    BY <2>1 DEF CycleInv
  <2>3. IsFull(realStatus) => HeardFull
    BY <2>1, <2>2 DEF HeardFull, Started, IsFull
  <2> QED
    BY <1>1, <1>2, <2>1, <2>2, <2>3 DEF CycleInv
<1>8. CASE EndCharge
  <2>1. pc = "end" /\ pc' = "ending" /\ order' = "end"
    BY <1>8 DEF EndCharge, Goto, Give
  <2>2. (AtRest /\ ~ready) \/ HeardFull
    BY <2>1 DEF CycleInv
  <2> QED
    BY <1>1, <1>2, <2>1, <2>2 DEF CycleInv
<1>9. CASE TestIdle
  <2>1. /\ pc = "idle?" /\ pc' = IF IsIdle(realStatus) THEN "lower" ELSE "stopping"
        /\ order' = order
    BY <1>9 DEF TestIdle, Stopped
  <2>2. Stopping /\ ~ready /\ order = Nothing
    BY <2>1 DEF CycleInv
  <2>3. IsIdle(realStatus) => AtRest
    BY <2>2 DEF AtRest, Stopping, IsIdle
  <2> QED
    BY <1>1, <1>2, <2>1, <2>2, <2>3 DEF CycleInv
<1>10. CASE Lower
  <2>1. pc = "lower" /\ (\/ pc' = "lowering" /\ order' = "down"
                         \/ pc' = "over" /\ order' = order)
    BY <1>10 DEF Lower, Goto, Give, NotSent
  <2> QED
    BY <1>1, <1>2, <2>1 DEF CycleInv
<1>11. CASE AfterDoing
  <2>1. pc = "lowering" /\ pc' = "over" /\ order = Nothing /\ order' = order
    BY <1>11 DEF AfterDoing, Goto
  <2> QED
    BY <1>1, <1>2, <2>1 DEF CycleInv
<1> QED
  BY <1>3, <1>4, <1>5, <1>6, <1>7, <1>8, <1>9, <1>10, <1>11

LEMMA CycleInvNext == ChargingTypeOK /\ CycleInv /\ [Next]_vars => CycleInv'
<1> SUFFICES ASSUME ChargingTypeOK, CycleInv, [Next]_vars, excused' = {} PROVE CycleInv'
  BY DEF CycleInv
<1>1. excused = {}
  BY ExcusedForGood
<1>2. ASSUME NEW k \in Client, Connect(k) \/ ConnectFails(k) \/ Break(k) \/ Notice(k) PROVE CycleInv'
  <2>1. /\ UNCHANGED <<pc, machine, realStatus, fork, ready, order, excused>>
        /\ command' \in {command, [command EXCEPT ![k] = Nothing]}
        /\ report' \in {report, [report EXCEPT ![k] = Nothing]}
    BY <1>2 DEF Connect, ConnectFails, Break, Notice, threadVars, clientVars, wireVars, carVars
  <2> QED
    BY <2>1, WireSteps DEF ChargingTypeOK
<1>3. ASSUME Cancel \/ UNCHANGED vars PROVE CycleInv'
  <2>1. UNCHANGED <<pc, machine, realStatus, fork, ready, order, excused, command, report>>
    BY <1>3 DEF Cancel, vars, threadVars, clientVars, wireVars, carVars
  <2> QED
    BY <2>1, WireSteps
<1> QED
  BY <1>1, <1>2, <1>3, ReadStep, TakeStep, FillStep, CarryOutStep, TellSteps, ThreadSteps
  DEF Next, Thread

-----------------------------------------------------------------------------
(* Charging implements ChargeCycle *)

ChargingInv == ChargingTypeOK /\ CycleInv

LEMMA ChargingInvInit == Init => ChargingInv
<1> SUFFICES ASSUME Init PROVE CycleInv
  BY ChargingTypesInit DEF ChargingInv
<1> QED
  BY DEF Init, CycleInv, AtRest, Commands, Reports, Unset

LEMMA CycleStep == ChargingInv /\ [Next]_vars => [Cycle!Next]_(Cycle!vars)
<1> SUFFICES ASSUME ChargingInv, [Next]_vars PROVE Cycle!Next \/ UNCHANGED Cycle!vars
  OBVIOUS
<1> USE DEF threadVars, clientVars, wireVars, carVars, upsetVars
<1>1. excused # {} => excused' # {}
  BY ExcusedForGood DEF ChargingInv
<1>2. CASE excused # {}
  BY <1>1, <1>2 DEF Cycle!Next
<1>3. ASSUME UNCHANGED <<fork, ready, machine>> PROVE Cycle!Next \/ UNCHANGED Cycle!vars
  BY <1>1, <1>3 DEF Cycle!Next, Cycle!vars
<1>4. ASSUME excused = {}, NEW k \in Client, Take(k) PROVE Cycle!Next \/ UNCHANGED Cycle!vars
  <2>1. /\ command[k] \in {"start", "stop"} /\ UNCHANGED <<fork, ready, excused>>
        /\ command[k] = "stop" => machine' = "idle"
        /\ command[k] = "start" => machine' = IF machine = "full" THEN "full" ELSE "charging"
    BY <1>4 DEF Take, Told, ChargingInv, ChargingTypeOK
  <2>2. command[k] = "stop" => AtRest \/ (Stopping /\ ~ready)
    BY <1>4 DEF ChargingInv, ChargingTypeOK, CycleInv, Started, HeardFull, Commands, Pcs, Nothing
  <2>3. command[k] = "start" => (Started /\ ready) \/ machine = "full"
    BY <1>4 DEF ChargingInv, ChargingTypeOK, CycleInv, AtRest, HeardFull, Stopping, Commands, Pcs, Nothing
  <2>4. machine \in {"idle", "charging", "full"}
    BY DEF ChargingInv, ChargingTypeOK, Status
  <2>5. CASE machine' = machine
    BY <1>3, <2>1, <2>5
  <2>6. CASE machine' # machine
    <3>1. \/ machine = "idle" /\ machine' = "charging" /\ ready
          \/ machine' = "idle" /\ ~ready
      BY <2>1, <2>2, <2>3, <2>4, <2>6 DEF AtRest
    <3> QED
      BY <2>1, <3>1 DEF Cycle!Next, Cycle!Switch, Cycle!SwitchOff
  <2> QED
    BY <2>5, <2>6
<1>5. ASSUME Fill PROVE Cycle!Next
  BY <1>5 DEF Fill, Cycle!Next, Cycle!Fill
<1>6. ASSUME excused = {}, CarryOut PROVE Cycle!Next \/ UNCHANGED Cycle!vars
  <2>1. /\ order \in {"up", "start", "end", "down"} /\ UNCHANGED <<machine, excused>>
        /\ order \in {"up", "down"} => fork' = order /\ ready' = ready
        /\ order \in {"start", "end"} => fork' = fork /\ ready' = (order = "start")
    BY <1>6 DEF CarryOut, ChargingInv, ChargingTypeOK
  <2>2. /\ order = "up" => AtRest /\ ~ready
        /\ order = "down" => AtRest /\ ~ready
        /\ order = "start" => AtRest /\ fork = "up"
        /\ order = "end" => (AtRest /\ ~ready) \/ HeardFull
    BY <1>6, <2>1 DEF ChargingInv, ChargingTypeOK, CycleInv, Pcs, Nothing
  <2>3. CASE order = "up"
    BY <2>1, <2>2, <2>3 DEF AtRest, Cycle!Next, Cycle!Raise
  <2>4. CASE order = "down"
    BY <2>1, <2>2, <2>4 DEF AtRest, Cycle!Next, Cycle!Lower
  <2>5. CASE order = "start"
    BY <2>1, <2>2, <2>5 DEF AtRest, Cycle!Next, Cycle!GetReady
  <2>6. CASE order = "end"
    <3>1. CASE HeardFull
      BY <2>1, <2>6, <3>1 DEF HeardFull, Cycle!Next, Cycle!GoOff
    <3>2. CASE AtRest /\ ~ready
      <4>1. ready' = ready
        BY <2>1, <2>6, <3>2 DEF ChargingInv, ChargingTypeOK
      <4> QED
        BY <1>3, <2>1, <2>6, <4>1
    <3> QED
      BY <2>2, <2>6, <3>1, <3>2
  <2> QED
    BY <2>1, <2>3, <2>4, <2>5, <2>6
<1>7. ASSUME BeforeDoing \/ Thread \/ Cancel PROVE UNCHANGED <<fork, ready, machine>>
  BY <1>7 DEF BeforeDoing, Thread, Cancel, CheckConnection, Raise, StartCharge, TestFull,
     EndCharge, TestIdle, Lower, AfterDoing, Give, NotSent, TellStart, TellStop
<1>8. ASSUME NEW k \in Client, Connect(k) \/ ConnectFails(k) \/ Break(k) \/ Notice(k) \/ Read(k)
      PROVE  UNCHANGED <<fork, ready, machine>>
  BY <1>8 DEF Connect, ConnectFails, Break, Notice, Read
<1>9. UNCHANGED vars => UNCHANGED <<fork, ready, machine>>
  BY DEF vars
<1> QED
  BY <1>2, <1>3, <1>4, <1>5, <1>6, <1>7, <1>8, <1>9 DEF Next

LEMMA ChargingInvAlways == Spec => []ChargingInv
<1>1. ChargingInv /\ [Next]_vars => ChargingInv'
  BY ChargingTypesNext, CycleInvNext DEF ChargingInv
<1> QED
  BY ChargingInvInit, <1>1, PTL DEF Spec

\* Every variable of the charge keeps its type.
THEOREM ChargingTypeCorrect == Spec => []ChargingTypeOK
<1>1. ChargingInv => ChargingTypeOK
  BY DEF ChargingInv
<1> QED
  BY <1>1, ChargingInvAlways, PTL

\* The vehicle is at the machine exactly as ChargeCycle says, for any number of
\* charges, clients left running, and connections lost or refused: no status
\* of an earlier charge and no old client makes the thread take the machine
\* for full or idle when it is not (dyforkliftthingcharge.cpp:31-120).
THEOREM PromiseKept == Spec => Promise
<1>1. Init => Cycle!Init
  BY DEF Init, Cycle!Init
<1> QED
  BY <1>1, CycleStep, ChargingInvAlways, PTL DEF Spec, Promise, Cycle!Spec
=============================================================================
