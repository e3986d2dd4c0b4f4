------------------------------ MODULE Charging ------------------------------
(***************************************************************************)
(* A forklift that charges its battery: DyForkliftThingCharge with its     *)
(* chargemachine, the Device and the TcpClient under it.  The thread of    *)
(* the task gives orders to the vehicle and commands to the machine; a     *)
(* thread of the client connects to the machine, again and again, and      *)
(* reads what it reports into realData.  Each time the thing is done anew, *)
(* init makes one more client and leaves the old ones running: all of them *)
(* call the same onConnect, onDisconnect and onRead.                       *)
(*                                                                         *)
(* Neither the machine nor the vehicle is part of the repository.  The     *)
(* machine answers a command with a report of its status, and reports when *)
(* the battery is full.  The vehicle carries its orders out, see Orders.   *)
(* A command is answered, or lost with its connection, before the next one *)
(* is sent, a second or a minute later.                                    *)
(***************************************************************************)
EXTENDS Naturals, FiniteSets

CONSTANTS
    MaxRuns,        \* bound: how often the thing is done
    MaxUpsets       \* bound: connections lost or refused, and the cancel

ASSUME ChargingAssumption == MaxRuns \in Nat /\ MaxUpsets \in Nat

Client == 1..MaxRuns
\* CHARGE_IDLE, CHARGE_ING, CHARGE_FULL, and what memory may hold before the
\* first report.
Status == {"idle", "charging", "full"}
Unset == {"unset idle", "unset charging", "unset full"}
IsFull(s) == s \in {"full", "unset full"}
IsIdle(s) == s \in {"idle", "unset idle"}
Nothing == "nothing"

VARIABLES
    pc,             \* where the thread of the task is
    run,            \* how often the thing was begun; tcpClient is the last one
    bresult,
    connected,
    realStatus,     \* realData.charge_status
    torn,           \* what is in the buffer does not begin with a head
    link,           \* socket of each client: none, connecting, up, broken
    command,        \* on its way to the machine
    report,         \* on its way from the machine
    machine,        \* its status
    fork, ready,    \* the vehicle: its fork; it is ready to be charged
    order,          \* the order that it has still to finish
    cancelled, upsets,
    excused         \* history: what has gone wrong that the code does not see

threadVars == <<pc, run, bresult>>
clientVars == <<connected, realStatus, torn>>
wireVars == <<link, command, report>>
carVars == <<fork, ready, order>>
upsetVars == <<cancelled, upsets>>
vars == <<threadVars, clientVars, wireVars, machine, carVars, upsetVars, excused>>

\* The constructor without parameters leaves realData as it finds it.
Init ==
    /\ pc = "over" /\ run = 0 /\ bresult = FALSE
    /\ connected = FALSE /\ realStatus \in Unset /\ torn = FALSE
    /\ link = [k \in Client |-> "none"]
    /\ command = [k \in Client |-> Nothing] /\ report = [k \in Client |-> Nothing]
    /\ machine = "idle"
    /\ fork = "down" /\ ready = FALSE /\ order = Nothing
    /\ cancelled = FALSE /\ upsets = 0 /\ excused = {}

Upset == upsets < MaxUpsets /\ upsets' = upsets + 1
Up(k) == link[k] = "up"
Settled == \A k \in Client : command[k] = Nothing /\ report[k] = Nothing

-----------------------------------------------------------------------------
(* TcpClient::threadProcess, chargemachine::onConnect, onDisconnect, onRead *)

Connect(k) ==
    /\ link[k] = "connecting"
    /\ link' = [link EXCEPT ![k] = "up"] /\ connected' = TRUE
    /\ UNCHANGED <<threadVars, realStatus, torn, command, report, machine,
                   carVars, upsetVars, excused>>

ConnectFails(k) ==
    /\ link[k] = "connecting" /\ Upset
    /\ connected' = FALSE
    /\ UNCHANGED <<threadVars, realStatus, torn, wireVars, machine, carVars,
                   cancelled, excused>>

\* The connection is gone with what was on its way, or after a part of it.
Break(k) ==
    /\ Up(k) /\ Upset
    /\ link' = [link EXCEPT ![k] = "broken"]
    /\ command' = [command EXCEPT ![k] = Nothing]
    /\ report' = [report EXCEPT ![k] = Nothing]
    /\ torn' \in IF report[k] = Nothing THEN {torn} ELSE {torn, TRUE}
    /\ UNCHANGED <<threadVars, connected, realStatus, machine, carVars,
                   cancelled, excused>>

\* read_some fails; the client connects again (broken variant: it ends).
NeverAgain(k) == link' = [link EXCEPT ![k] = "none"]
Again(k) == link' = [link EXCEPT ![k] = "connecting"]
Notice(k) ==
    /\ link[k] = "broken" /\ connected' = FALSE
    /\ Again(k)
    /\ UNCHANGED <<threadVars, realStatus, torn, command, report, machine,
                   carVars, upsetVars, excused>>

\* onRead: the buffer is never cleared.  After half a report the lengths and
\* check sums are those of other bytes, until they happen to fit again.  Two
\* threads that append to the buffer at once may spoil it too.
Racing(k) == \E j \in Client \ {k} : report[j] # Nothing
Read(k) ==
    /\ Up(k) /\ report[k] # Nothing
    /\ report' = [report EXCEPT ![k] = Nothing]
    /\ \/ ~torn /\ realStatus' = report[k] /\ UNCHANGED torn
       \/ (torn \/ Racing(k)) /\ torn' \in BOOLEAN /\ UNCHANGED realStatus
    /\ UNCHANGED <<threadVars, connected, link, command, machine, carVars,
                   upsetVars, excused>>

-----------------------------------------------------------------------------
(* The machine and the vehicle *)

Told(c) == CASE c = "start" -> IF machine = "full" THEN "full" ELSE "charging"
             [] c = "stop" -> "idle"

Take(k) ==
    /\ command[k] # Nothing
    /\ machine' = Told(command[k])
    /\ report' = [report EXCEPT ![k] = machine']
    /\ command' = [command EXCEPT ![k] = Nothing]
    /\ UNCHANGED <<threadVars, clientVars, link, carVars, upsetVars, excused>>

Fill ==
    /\ machine = "charging" /\ ready
    /\ machine' = "full"
    /\ report' = [k \in Client |-> IF Up(k) /\ report[k] = Nothing THEN "full"
                                   ELSE report[k]]
    /\ UNCHANGED <<threadVars, clientVars, link, command, carVars, upsetVars,
                   excused>>

CarryOut ==
    /\ order # Nothing /\ order' = Nothing
    /\ fork' = IF order \in {"up", "down"} THEN order ELSE fork
    /\ ready' = IF order \in {"start", "end"} THEN order = "start" ELSE ready
    /\ UNCHANGED <<threadVars, clientVars, wireVars, machine, upsetVars, excused>>

\* The task is cancelled, which the thing never asks for.
Cancel ==
    /\ ~cancelled /\ Upset /\ cancelled' = TRUE
    /\ UNCHANGED <<threadVars, clientVars, wireVars, machine, carVars, excused>>

-----------------------------------------------------------------------------
(* chargemachine::checkConnection, chargeControl, sendCommand *)

\* sendToServer of the newest client: to a socket that is not connected
\* nothing is sent, and nobody looks at the result.
Send(c) ==
    command' = [command EXCEPT ![run] = IF Up(run) THEN c ELSE @]

\* checkConnection waits up to nine seconds for connected.  Whether chargeControl
\* is then notified or times out makes no difference to those who call it.
ChargeControl(c) ==
    /\ Settled
    /\ IF connected THEN Send(c) ELSE UNCHANGED command

-----------------------------------------------------------------------------
(* DyForkliftThingCharge: beforeDoing, doing, afterDoing *)

Goto(a, b) == pc = a /\ pc' = b

BeforeDoing ==
    /\ Goto("over", "check") /\ run < MaxRuns
    /\ run' = run + 1 /\ bresult' = FALSE
    /\ link' = [link EXCEPT ![run'] = "connecting"]
    /\ UNCHANGED <<clientVars, command, report, machine, carVars, upsetVars,
                   excused>>

CheckConnection ==
    /\ pc = "check" /\ pc' = IF connected THEN "raise" ELSE "end"
    /\ UNCHANGED <<run, bresult, clientVars, wireVars, machine, carVars,
                   upsetVars, excused>>

\* DyForklift::fork and charge: resend tries until the order is sent, or the
\* task is cancelled and the vehicle not connected.
Give(o) ==
    /\ order' = o
    /\ UNCHANGED <<clientVars, wireVars, machine, fork, ready, upsetVars, excused>>
NotSent ==
    cancelled /\ UNCHANGED <<clientVars, wireVars, machine, carVars, upsetVars>>

Raise ==
    /\ \/ Goto("raise", "raising") /\ Give("up")
       \/ Goto("raise", "end") /\ NotSent /\ UNCHANGED excused
    /\ UNCHANGED <<run, bresult>>

StartCharge ==
    /\ pc = "raising" /\ order = Nothing /\ pc' = "starting"
    /\ Give("start") \/ (NotSent /\ excused' = excused \cup {"not sent"})
    /\ UNCHANGED <<run, bresult>>

\* The machine is told to start, and again every minute until it is full.
TellStart(a, b) ==
    /\ Goto(a, b) /\ order = Nothing /\ ChargeControl("start")
    /\ UNCHANGED <<run, bresult, clientVars, link, report, machine, carVars,
                   upsetVars, excused>>

TestFull ==
    /\ pc = "full?" /\ pc' = IF IsFull(realStatus) THEN "end" ELSE "charging"
    /\ excused' = IF realStatus = "unset full" THEN excused \cup {"never told"}
                  ELSE excused
    /\ UNCHANGED <<run, bresult, clientVars, wireVars, machine, carVars,
                   upsetVars>>

\* afterDoing, whatever came of doing.
EndCharge ==
    /\ Goto("end", "ending")
    /\ Give("end") \/ (NotSent /\ excused' = excused \cup {"not sent"})
    /\ UNCHANGED <<run, bresult>>

TellStop(a, b) ==
    /\ Goto(a, b) /\ order = Nothing /\ ChargeControl("stop")
    /\ UNCHANGED <<run, bresult, clientVars, link, report, machine, carVars,
                   upsetVars, excused>>

\* Broken variant: the machine is not asked whether it has stopped.
StoppedAtOnce == TRUE
Stopped == IsIdle(realStatus)
TestIdle ==
    /\ pc = "idle?" /\ pc' = IF Stopped THEN "lower" ELSE "stopping"
    /\ UNCHANGED <<run, bresult, clientVars, wireVars, machine, carVars,
                   upsetVars, excused>>

Lower ==
    /\ \/ Goto("lower", "lowering") /\ Give("down")
       \/ Goto("lower", "over") /\ NotSent /\ UNCHANGED excused
    /\ UNCHANGED <<run, bresult>>

AfterDoing ==
    /\ Goto("lowering", "over") /\ order = Nothing /\ bresult' = TRUE
    /\ UNCHANGED <<run, clientVars, wireVars, machine, carVars, upsetVars, excused>>

Thread ==
    \/ CheckConnection \/ Raise \/ StartCharge
    \/ TellStart("starting", "charging") \/ TellStart("charging", "full?")
    \/ TestFull \/ EndCharge
    \/ TellStop("ending", "stopping") \/ TellStop("stopping", "idle?")
    \/ TestIdle \/ Lower \/ AfterDoing

Next ==
    \/ BeforeDoing \/ Thread \/ Fill \/ CarryOut \/ Cancel
    \/ \E k \in Client : Connect(k) \/ ConnectFails(k) \/ Break(k) \/ Notice(k)
                         \/ Read(k) \/ Take(k)

\* The threads of the task and of the clients run, the machine and the vehicle
\* do what they are told, and the machine can be reached.
Fairness ==
    /\ WF_vars(Thread) /\ WF_vars(Fill) /\ WF_vars(CarryOut)
    /\ \A k \in Client : WF_vars(Connect(k)) /\ WF_vars(Notice(k))
                         /\ WF_vars(Read(k)) /\ WF_vars(Take(k))

Spec == Init /\ [][Next]_vars /\ Fairness

-----------------------------------------------------------------------------
(* Properties *)

\* The vehicle and the machine go through a charge as ChargeCycle says,
\* whatever connections are lost or refused, whichever of several clients hears
\* the machine, and from whatever realData begins with; unless an order could
\* not be sent, or the program took the "full" of unset memory for that of the
\* machine (dyforkliftthingcharge.cpp:31-120).
Cycle == INSTANCE ChargeCycle WITH excused <- excused # {}
Promise == Cycle!Spec

\* A charge that is begun ends, unless an order could not be sent or the buffer
\* stays out of step for ever after half a report: there is no other stale
\* status or lost answer that the loops of doing and afterDoing would wait on
\* for ever (dyforkliftthingcharge.cpp:66-74, 95-101).
ChargeEnds ==
    []<>~torn => (pc # "over" ~> (pc = "over" \/ "not sent" \in excused))
=============================================================================
