------------------------------ MODULE Elevator ------------------------------
(***************************************************************************)
(* Forklifts that take a lift: DyForklift::goElevator with the client of   *)
(* the lift's control, device/elevator/elevator.cpp.  The client keeps the *)
(* last message it has read in one place; a thread that waits for a        *)
(* message looks at that place only.  While a vehicle enters or leaves, a  *)
(* further thread repeats a message every five seconds; all such threads   *)
(* end by the same flag.  Rides on one floor are those of Forklift: here   *)
(* each is one step.                                                       *)
(*                                                                         *)
(* The lift is not part of the repository: it serves one vehicle at a      *)
(* time, the first one that acknowledges its question.                     *)
(***************************************************************************)
EXTENDS LiftPath, FiniteSets

CONSTANTS
    Agv,
    Paths,          \* the path of each vehicle
    Floor,          \* point -> floor
    MaxTries,       \* try_times, 10 in the code
    MaxWire,        \* bound: messages on their way
    MaxUpsets       \* bound: see Upset

Everybody == 0      \* the robot number of a message for whoever is concerned
InCabin == 0        \* where a vehicle is that has entered

ASSUME ElevatorAssumption ==
    /\ Agv \subseteq Nat \ {Everybody} /\ DOMAIN Paths = Agv
    /\ MaxTries \in Nat \ {0} /\ MaxWire \in Nat /\ MaxUpsets \in Nat
    /\ \A v \in Agv :
          /\ NeedsElevator(Paths[v])
          /\ EnterElevator(Paths[v]) # <<>> /\ InElevator(Paths[v]) # <<>>
          /\ OutElevator(Paths[v]) # <<>>
          /\ \A i \in 1..Len(Paths[v]) :
                {Start(Paths[v][i]), End(Paths[v][i])} \subseteq DOMAIN Floor

\* A path is connected, takes the lift once, and ends outside of it: goElevator
\* knows one way into the lift and one out of it (dyforklift.cpp:502-506, 631).
\* Points have ids, and 0 is none.
ASSUME PathsAssumption ==
    /\ 0 \notin DOMAIN Floor
    /\ \A v \in Agv :
          /\ Paths[v] \in Seq((DOMAIN Floor) \X (DOMAIN Floor))
          /\ \A i \in 1..Len(Paths[v]) - 1 : End(Paths[v][i]) = Start(Paths[v][i + 1])
          /\ \A i, j \in 1..Len(Paths[v]) :
                OutOf(Paths[v][i]) /\ OutOf(Paths[v][j]) => i = j
          /\ ~EndsInside(Paths[v][Len(Paths[v])])

VARIABLES
    connected, resetFlag,
    param, err, handled,    \* of ctx_: the last message, or an error instead
    sendCmd, senders,       \* send_cmd; what threads repeat
    pc, tries, now,   \* of each vehicle's thread; nowStation
    place,                  \* where each vehicle is
    toLift, fromLift,       \* messages on their way
    cabin, phase, served, calls,    \* the lift
    spoilt, upsets          \* history

clientVars == <<connected, resetFlag>>
slotVars == <<param, err, handled>>
senderVars == <<sendCmd, senders>>
riderVars == <<pc, tries, now, place>>
liftVars == <<cabin, phase, served, calls>>
vars == <<clientVars, slotVars, senderVars, riderVars, toLift, fromLift,
          liftVars, spoilt, upsets>>

\* Where each part of a trip ends; where there is no such part, where the one
\* before it does.
EndOf(lines, before) == IF lines = <<>> THEN before ELSE End(lines[Len(lines)])
Route(lines) ==
    LET lift == EndOf(ToElevator(lines), Start(lines[1]))
        enter == EndOf(EnterElevator(lines), lift)
        ride == EndOf(InElevator(lines), enter)
        out == EndOf(OutElevator(lines), ride)
    IN  [lift |-> lift, enter |-> enter, ride |-> ride, out |-> out,
         leave |-> EndOf(LeaveElevator(lines), out),
         end |-> EndOf(lines, 0),
         from |-> Floor[Start(lines[1])], to |-> Floor[ride]]
Its == [v \in Agv |-> Route(Paths[v])]
FromFloor(v) == Its[v].from
ToFloor(v) == Its[v].to
AllFloors == Range(Floor)

Message(cmd, src, dst, agv) == [cmd |-> cmd, src |-> src, dst |-> dst, agv |-> agv]
Say(v, cmd) == Message(cmd, FromFloor(v), ToFloor(v), v)
Call(v) == Message("CallEleENQ", 0, FromFloor(v), v)
OPEN == 1           \* dst of TakeEleENQ: the door is open

Init ==
    /\ connected = FALSE /\ resetFlag = FALSE
    /\ param = Message("TestEleCmd", 0, 0, 0) /\ err = FALSE /\ handled = FALSE
    /\ sendCmd = FALSE /\ senders = {}
    /\ pc = [v \in Agv |-> "away"] /\ tries = [v \in Agv |-> 0]
    /\ now = [v \in Agv |-> Start(Paths[v][1])] /\ place = now
    /\ toLift = <<>> /\ fromLift = <<>>
    /\ cabin \in AllFloors /\ phase = "idle" /\ served = 0 /\ calls = {}
    /\ spoilt = {} /\ upsets = 0

\* Bound: connections lost, messages read together or in two pieces, questions
\* the lift gives up.
Upset == upsets < MaxUpsets /\ upsets' = upsets + 1

-----------------------------------------------------------------------------
(* Elevator: notify, onRead, what request and waitfor wait for *)

\* A message is lost if there is no connection.
Room == Len(toLift) < MaxWire
Notify(m) == toLift' = IF connected THEN Append(toLift, m) ELSE toLift

\* The first connection resets the lift.
OnConnect ==
    /\ ~connected /\ connected' = TRUE /\ resetFlag' = TRUE
    /\ toLift' = IF resetFlag THEN <<>>
                 ELSE <<Message("InitEleENQ", 0, 0, Everybody)>>
    /\ UNCHANGED <<slotVars, senderVars, riderVars, fromLift, liftVars, spoilt,
                   upsets>>

OnDisconnect ==
    /\ connected /\ Upset /\ connected' = FALSE
    /\ toLift' = <<>> /\ fromLift' = <<>>
    /\ spoilt' = IF \E i \in 1..Len(toLift) : toLift[i].cmd = "LeftEleACK"
                 THEN spoilt \cup {"left unheard"} ELSE spoilt
    /\ UNCHANGED <<resetFlag, slotVars, senderVars, riderVars, liftVars>>

\* The message is there, for this vehicle or for whoever comes first; broken
\* variant: only if it names the vehicle.
ThereByName(v, cmd) == ~err /\ param.cmd = cmd /\ param.agv = v
There(v, cmd) ==
    /\ ~err /\ param.cmd = cmd
    /\ param.agv = v \/ (param.agv = Everybody /\ ~handled)
Takes == handled' = IF param.agv = Everybody THEN TRUE ELSE handled

Awaited(v) == CASE pc[v] = "called" -> "CallEleACK"
                [] pc[v] = "ask" -> "TakeEleENQ"
                [] pc[v] = "confirm" -> "IntoEleENQ"
                [] pc[v] = "ride" -> "LeftEleENQ"
                [] pc[v] = "left" -> "LeftEleSet"
                [] OTHER -> ""
Wakes(v) == There(v, Awaited(v))

\* What is read at once holds one or more messages; the first is taken.  It
\* replaces the one before, even one that somebody waits for.
OnRead(n) ==
    /\ n <= Len(fromLift)
    /\ IF n > 1 \/ \E v \in Agv : Wakes(v) THEN Upset ELSE UNCHANGED upsets
    /\ param' = fromLift[1] /\ err' = FALSE
    /\ handled' = FALSE
    /\ fromLift' = SubSeq(fromLift, n + 1, Len(fromLift))
    /\ UNCHANGED <<clientVars, senderVars, riderVars, toLift, liftVars, spoilt>>

\* A message that is read in two pieces is an error, twice.
OnReadError ==
    /\ fromLift # <<>> /\ Upset
    /\ err' = TRUE /\ fromLift' = Tail(fromLift)
    /\ UNCHANGED <<clientVars, param, handled, senderVars, riderVars, toLift,
                   liftVars, spoilt>>

-----------------------------------------------------------------------------
(* The threads that repeat a message: StartSendThread, StopSendThread *)

OnItsWay(m) == \E i \in 1..Len(toLift) : toLift[i] = m

\* Broken variant: the flag is not set again.
StartOnly(m) == Room /\ Notify(m) /\ senders' = senders \cup {m} /\ UNCHANGED sendCmd
StartSendThread(m) ==
    /\ Room /\ Notify(m)
    /\ sendCmd' = TRUE /\ senders' = senders \cup {m}
StopSendThread == sendCmd' = FALSE /\ UNCHANGED senders

SendAgain(m) ==
    /\ m \in senders /\ sendCmd
    /\ connected => ~OnItsWay(m) /\ Room
    /\ Notify(m)
    /\ UNCHANGED <<clientVars, slotVars, senderVars, riderVars, fromLift,
                   liftVars, spoilt, upsets>>

EndSending(m) ==
    /\ m \in senders /\ ~sendCmd
    /\ senders' = senders \ {m}
    /\ UNCHANGED <<clientVars, slotVars, sendCmd, riderVars, toLift, fromLift,
                   liftVars, spoilt, upsets>>

-----------------------------------------------------------------------------
(* DyForklift::goElevator *)

Step(v, a, b) == pc[v] = a /\ pc' = [pc EXCEPT ![v] = b]
Goes(v, p) == now' = [now EXCEPT ![v] = p]

\* goSameFloorPath to the lift.
ToLift(v) ==
    /\ Step(v, "away", "call")
    /\ Goes(v, Its[v].lift) /\ place' = [place EXCEPT ![v] = Its[v].lift]
    /\ UNCHANGED <<clientVars, slotVars, senderVars, tries, toLift,
                   fromLift, liftVars, spoilt, upsets>>

\* RequestTakeElevator; -1, and a new call, if there is no connection.
CallEle(v) ==
    /\ connected /\ Room /\ Step(v, "call", "called") /\ Notify(Call(v))
    /\ UNCHANGED <<clientVars, slotVars, senderVars, tries, now, place,
                   fromLift, liftVars, spoilt, upsets>>

Called(v) ==
    /\ There(v, "CallEleACK") /\ Takes
    /\ Step(v, "called", IF connected THEN "ask" ELSE "call")
    /\ UNCHANGED <<clientVars, param, err, senderVars, tries, now, place,
                   toLift, fromLift, liftVars, spoilt, upsets>>

Asked(v) ==
    /\ There(v, "TakeEleENQ") /\ Takes
    /\ LET yes == param.src = FromFloor(v) /\ param.dst = OPEN
       IN  Step(v, "ask", IF yes THEN "take" ELSE "call")
    /\ tries' = [tries EXCEPT ![v] = MaxTries]
    /\ UNCHANGED <<clientVars, param, err, senderVars, now, place, toLift,
                   fromLift, liftVars, spoilt, upsets>>

TakeEleAck(v) ==
    /\ Room /\ Step(v, "take", "confirm") /\ Notify(Say(v, "TakeEleACK"))
    /\ tries' = [tries EXCEPT ![v] = @ - 1]
    /\ UNCHANGED <<clientVars, slotVars, senderVars, now, place,
                   fromLift, liftVars, spoilt, upsets>>

\* ConfirmEleInfo compares the whole message with what is expected; broken
\* variant: it does not.
ConfirmsAnyway(v) == TRUE
Confirms(v) == param = Say(v, "IntoEleENQ")

\* The path has not been driven when the thread returns without the lift.
GivesUp(v) == tries[v] = 0
NotConfirmed(v) ==
    /\ Step(v, "confirm", IF GivesUp(v) THEN "over" ELSE "take")
    /\ spoilt' = IF GivesUp(v) THEN spoilt \cup {"given up"} ELSE spoilt
    /\ UNCHANGED senderVars

ConfirmEleInfo(v) ==
    /\ There(v, "IntoEleENQ") /\ Takes
    /\ \/ /\ Confirms(v) /\ Step(v, "confirm", "enter")
          /\ StartSendThread(Say(v, "TakeEleACK"))
          /\ tries' = [tries EXCEPT ![v] = 0] /\ UNCHANGED spoilt
       \/ /\ ~Confirms(v) /\ NotConfirmed(v)
          /\ UNCHANGED <<tries, toLift>>
    /\ UNCHANGED <<clientVars, param, err, now, place, fromLift, liftVars,
                   upsets>>

\* goStation into the lift, with FORKLIFT_MOVEELE.
Enter(v) ==
    /\ Step(v, "enter", "in") /\ Goes(v, Its[v].enter)
    /\ place' = [place EXCEPT ![v] = InCabin]
    /\ StopSendThread
    /\ UNCHANGED <<clientVars, slotVars, tries, toLift, fromLift,
                   liftVars, spoilt, upsets>>

AgvEnterConfirm(v) ==
    /\ Room /\ Step(v, "in", "ride") /\ Notify(Say(v, "IntoEleACK"))
    /\ UNCHANGED <<clientVars, slotVars, senderVars, tries, now, place,
                   fromLift, liftVars, spoilt, upsets>>

\* AgvWaitArrive, setInitPos.
WaitArrive(v) ==
    /\ There(v, "LeftEleENQ") /\ Takes
    /\ Step(v, "ride", "leave") /\ Goes(v, Its[v].ride)
    /\ StartSendThread(Say(v, "LeftEleCMD"))
    /\ UNCHANGED <<clientVars, param, err, tries, place, fromLift,
                   liftVars, spoilt, upsets>>

\* goStation out of the lift.
Leave(v) ==
    /\ Step(v, "leave", "out") /\ Goes(v, Its[v].out)
    /\ place' = [place EXCEPT ![v] = now'[v]]
    /\ StopSendThread
    /\ UNCHANGED <<clientVars, slotVars, tries, toLift, fromLift,
                   liftVars, spoilt, upsets>>

\* AgvLeft; what it returns is ignored.
AgvLeft(v) ==
    /\ Room /\ Step(v, "out", "left") /\ Notify(Say(v, "LeftEleACK"))
    /\ spoilt' = IF connected THEN spoilt ELSE spoilt \cup {"left unheard"}
    /\ UNCHANGED <<clientVars, slotVars, senderVars, tries, now, place,
                   fromLift, liftVars, upsets>>

\* goSameFloorPath from the lift.
FromLift(v, b) ==
    /\ Step(v, "left", b)
    /\ Goes(v, Its[v].leave) /\ place' = [place EXCEPT ![v] = Its[v].leave]
    /\ UNCHANGED <<clientVars, param, err, senderVars, tries, toLift,
                   fromLift, liftVars, spoilt, upsets>>
LeftSet(v) == There(v, "LeftEleSet") /\ Takes /\ FromLift(v, "over")

\* Five, ten or thirty seconds have passed: longer than messages are on their
\* way, or an idle lift is.
Waiting == {v \in calls : \/ phase = "idle"
                           \/ (phase = "asking" /\ FromFloor(v) = cabin)}
Quiet == toLift = <<>> /\ fromLift = <<>> /\ Waiting = {}
Timeout(v, cmd) == ~There(v, cmd) /\ (connected => Quiet)

TimedOut(v) ==
    \/ /\ \/ Timeout(v, "CallEleACK") /\ Step(v, "called", "call")
          \/ Timeout(v, "TakeEleENQ") /\ Step(v, "ask", "call")
          \/ Timeout(v, "LeftEleENQ") /\ Step(v, "ride", "in")
       /\ UNCHANGED <<senderVars, spoilt, now, place, handled>>
       /\ UNCHANGED <<clientVars, param, err, tries, toLift, fromLift,
                      liftVars, upsets>>
    \/ /\ Timeout(v, "IntoEleENQ") /\ NotConfirmed(v)
       /\ UNCHANGED <<clientVars, slotVars, tries, now, place, toLift,
                      fromLift, liftVars, upsets>>
    \/ /\ Timeout(v, "LeftEleSet") /\ FromLift(v, "over")
       /\ UNCHANGED handled

-----------------------------------------------------------------------------
(* The lift *)

Answer(ms) == fromLift' = fromLift \o ms
SomeName(v) == {v, Everybody}

\* What it does with a message.
OnCall(m) ==
    /\ m.cmd = "CallEleENQ" /\ calls' = calls \cup {m.agv}
    /\ Answer(<<Message("CallEleACK", 0, m.dst, m.agv)>>)
    /\ UNCHANGED <<cabin, phase, served>>

OnTake(m) ==
    /\ m.cmd = "TakeEleACK"
    /\ \/ /\ \/ phase = "asking" /\ cabin = m.src
             \/ phase = "taken" /\ served = m.agv
          /\ phase' = "taken" /\ served' = m.agv
          /\ \E n \in SomeName(m.agv) :
                Answer(<<Message("IntoEleENQ", m.src, m.dst, n)>>)
       \/ /\ ~(phase = "asking" /\ cabin = m.src)
          /\ ~(phase = "taken" /\ served = m.agv)
          /\ UNCHANGED <<phase, served, fromLift>>
    /\ UNCHANGED <<cabin, calls>>

OnInto(m) ==
    /\ m.cmd = "IntoEleACK" /\ served = m.agv
    /\ IF phase = "arrived" THEN Answer(<<Say(served, "LeftEleENQ")>>)
       ELSE UNCHANGED fromLift
    /\ phase' = IF phase = "taken" THEN "riding" ELSE phase
    /\ UNCHANGED <<cabin, served, calls>>

OnLeft(m) ==
    /\ m.cmd = "LeftEleACK" /\ served = m.agv
    /\ phase' = "idle" /\ served' = 0
    /\ Answer(<<Message("LeftEleSet", m.src, m.dst, m.agv)>>)
    /\ UNCHANGED <<cabin, calls>>

Else(m) ==
    /\ \/ m.cmd \in {"InitEleENQ", "LeftEleCMD"}
       \/ m.cmd \in {"IntoEleACK", "LeftEleACK"} /\ served # m.agv
    /\ UNCHANGED <<liftVars, fromLift>>

LiftHears ==
    /\ toLift # <<>> /\ Len(fromLift) < MaxWire
    /\ toLift' = Tail(toLift)
    /\ LET m == Head(toLift)
       IN  OnCall(m) \/ OnTake(m) \/ OnInto(m) \/ OnLeft(m) \/ Else(m)
    /\ UNCHANGED <<clientVars, slotVars, senderVars, riderVars, spoilt, upsets>>

\* It comes to a floor where it has been called, opens its door and asks.
LiftAsks ==
    /\ connected /\ Len(fromLift) < MaxWire
    /\ \E v \in Waiting : \E n \in {v, Everybody} :
          /\ cabin' = FromFloor(v) /\ calls' = calls \ {v}
          /\ Answer(<<Message("TakeEleENQ", cabin', OPEN, n)>>)
    /\ phase' = "asking"
    /\ UNCHANGED <<clientVars, slotVars, senderVars, riderVars, toLift, served,
                   spoilt, upsets>>

LiftRides ==
    /\ phase = "riding" /\ Len(fromLift) < MaxWire
    /\ phase' = "arrived" /\ cabin' = ToFloor(served)
    /\ fromLift' = IF connected THEN Append(fromLift, Say(served, "LeftEleENQ"))
                   ELSE fromLift
    /\ UNCHANGED <<clientVars, slotVars, senderVars, riderVars, toLift, served,
                   calls, spoilt, upsets>>

\* It is patient with a vehicle that is there.
AtItsDoor(v) == /\ FromFloor(v) = cabin
                /\ pc[v] \in {"call", "called", "ask", "take", "confirm"}
LiftGivesUp ==
    /\ phase = "asking" /\ phase' = "idle"
    /\ IF \E v \in Agv : AtItsDoor(v) THEN Upset ELSE UNCHANGED upsets
    /\ UNCHANGED <<clientVars, slotVars, senderVars, riderVars, toLift, fromLift,
                   cabin, served, calls, spoilt>>

-----------------------------------------------------------------------------

Hears(v) == \/ Called(v) \/ Asked(v) \/ ConfirmEleInfo(v) \/ WaitArrive(v)
            \/ LeftSet(v)
Does(v) == \/ ToLift(v) \/ CallEle(v) \/ TakeEleAck(v) \/ Enter(v)
           \/ AgvEnterConfirm(v) \/ Leave(v) \/ AgvLeft(v)

Next ==
    \/ OnConnect \/ OnDisconnect \/ OnReadError
    \/ \E n \in 1..MaxWire : OnRead(n)
    \/ \E m \in senders : SendAgain(m) \/ EndSending(m)
    \/ \E v \in Agv : Hears(v) \/ Does(v) \/ TimedOut(v)
    \/ LiftHears \/ LiftAsks \/ LiftRides \/ LiftGivesUp

Fairness ==
    /\ WF_vars(OnConnect) /\ WF_vars(OnRead(1)) 
    /\ \A v \in Agv :
          /\ WF_vars(Hears(v) \/ Does(v))
          /\ SF_vars(Asked(v)) /\ SF_vars(TimedOut(v))
    /\ WF_vars(LiftHears) /\ WF_vars(LiftAsks) /\ WF_vars(LiftRides)
    /\ WF_vars(LiftGivesUp)

Spec == Init /\ [][Next]_vars /\ Fairness

-----------------------------------------------------------------------------
(* Properties *)

\* A vehicle enters the cabin only at its own floor and when nobody is in it,
\* and leaves it at the floor it wants to go to, whatever messages are lost,
\* repeated, or meant for another vehicle (dyforklift.cpp:554-640).
Riders == {v \in Agv : place[v] = InCabin}
Contract == INSTANCE Cabin WITH
    Floors <- AllFloors, aboard <- Riders,
    from <- [v \in Agv |-> FromFloor(v)], to <- [v \in Agv |-> ToFloor(v)]
Promise == Contract!Spec

\* As long as a vehicle leaves the cabin, a thread repeats LeftEleCMD for it,
\* though other vehicles set and reset the flag all those threads end by
\* (elevator.cpp:367-401, dyforklift.cpp:609-619).
DoorHeld ==
    \A v \in Agv : pc[v] = "leave" => sendCmd /\ Say(v, "LeftEleCMD") \in senders

\* When goElevator returns, the vehicle is at the end of its path and the
\* program knows it, unless the lift has not let it in (dyforklift.cpp:574-578).
EndsAtItsEnd ==
    \A v \in Agv : pc[v] = "over" /\ "given up" \notin spoilt =>
        now[v] = Its[v].end /\ place[v] = Its[v].end

\* A vehicle that calls the lift ends its ride, unless one has given the lift
\* up or the lift has not heard that a vehicle has left: what is lost before
\* is asked for again.
RideEnds ==
    \A v \in Agv : pc[v] = "call" ~> (pc[v] = "over" \/ spoilt # {})
=============================================================================
