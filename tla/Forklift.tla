----------------------------- MODULE Forklift -----------------------------
(***************************************************************************)
(* A vehicle of the Dongyao build (Dongyao/dyforklift.cpp) and the thread  *)
(* that drives it: excutePath sends one order (MOVE) for each leg of the   *)
(* path, the fork thing sends one more, and both wait until the vehicle    *)
(* has reported that it has finished.  Commands are remembered until they  *)
(* are acknowledged and are sent again until then; reports are not         *)
(* repeated.  The vehicle connects to the program and may lose the         *)
(* connection (network/tcpsession.cpp).  Where the next part of the path   *)
(* is in a block of another vehicle, the vehicle is told to pause.         *)
(*                                                                         *)
(* A path is a row of stations 1, 3, 5, ... with the lines 2, 4, ...       *)
(* between them.  The vehicle itself is not part of the repository: it     *)
(* acknowledges every command, carries out an order it has not had before, *)
(* and reports each one that it has finished.                              *)
(***************************************************************************)
EXTENDS Integers, Sequences, FiniteSets, SequencesExt

CONSTANTS
    Lines,          \* lines of the path
    Backward,       \* those driven backwards: their speed is negative
    Blocks,         \* sets of stations and lines
    MaxLinks,       \* bound: connections of the vehicle
    MaxWire,        \* bound: commands on their way
    MaxUpsets       \* bound: see Upset

ASSUME ForkliftAssumption ==
    /\ Lines \in Nat \ {0} /\ MaxLinks \in Nat /\ MaxWire \in Nat \ {0}
    /\ MaxUpsets \in Nat
    /\ Backward \subseteq 1..Lines /\ UNION Blocks \subseteq 1..(2 * Lines + 1)

Link == 1..MaxLinks
Place == 1..(2 * Lines + 1)
LastPlace == 2 * Lines + 1
Guarded == UNION Blocks
Absent == {}
Gone == {0}

\* goSameFloorPath: a leg ends where the direction changes.
LegEnds == {i \in 1..Lines : i = Lines \/ (i \in Backward) # (i + 1 \in Backward)}
Legs == Cardinality(LegEnds)
EndOf(k) == Min({i \in LegEnds : Cardinality({j \in LegEnds : j <= i}) >= k})
Fork == Legs + 1
Order == 1..Fork
Target(k) == 2 * EndOf(k) + 1
FirstLine(k) == IF k = 1 THEN 2 ELSE 2 * EndOf(k - 1) + 2

\* The commands: an order, or FORKLIFT_MOVE_NOLASER with its argument.
RESUME == 0
PAUSE == 1
CLEAR == 2
Halt(what) == [type |-> "halt", arg |-> what]
Command(k) == [type |-> IF k = Fork THEN "fork" ELSE "move", arg |-> k]
Commands == {Command(k) : k \in Order}
            \cup {Halt(w) : w \in {RESUME, PAUSE, CLEAR}}
IsOrder(c) == c.type \in {"move", "fork"}
Ack(c) == [what |-> "ack", of |-> c]
Done(c) == [what |-> "finish", of |-> c]
NoCommand == [type |-> "none", arg |-> 0]

VARIABLES
    links,          \* connections: none; attaching until their reader runs, or
                    \* unheard if gone by then; up; down, gone but not noticed;
                    \* m_qTcp reset once (closing) or twice (closed)
    tcp,            \* m_qTcp, 0 for nullptr
    accepting,      \* the loop that accepts connections runs
    status, now, next,          \* of the Agv: status, nowStation, nextStation
    firstConnect, sendPause, pauseFlag,
    unRecv, unFinish,           \* m_unRecvSend; types in m_unFinishCmd
    reader,         \* of each connection: it reads, or is about to pause the
                    \* vehicle ("stopping"), or in pause()
    driver, order, out,     \* the thread: where, which order, what it sends
    cancel,         \* "no"; "asked": isCancel; "done": the task is forgotten
    mine, others,   \* what the vehicle occupies of the blocks; the block of
                    \* another vehicle, see Other
    wire, back,     \* commands to, answers from the vehicle
    place, job, paused,     \* the vehicle
    begun, carried, \* history: orders it has taken, carried out
    spoilt          \* history: what has gone wrong

linkVars == <<links, tcp, accepting>>
agvVars == <<status, now, next>>
flagVars == <<firstConnect, sendPause, pauseFlag>>
sentVars == <<unRecv, unFinish>>
driverVars == <<driver, order, out>>
blockVars == <<mine, others>>
wireVars == <<wire, back>>
carVars == <<place, job, paused, begun, carried>>
vars == <<linkVars, agvVars, flagVars, sentVars, reader, driverVars,
          cancel, blockVars, wireVars, carVars, spoilt>>

\* The program has started; the vehicle is at the first station.
Init ==
    /\ links = [s \in Link |-> "none"] /\ tcp = 0
    /\ accepting = TRUE
    /\ status = "unconnect" /\ now = 0 /\ next = 0
    /\ firstConnect = TRUE /\ sendPause = FALSE /\ pauseFlag = FALSE
    /\ unRecv = {} /\ unFinish = {} /\ reader = [s \in Link |-> "reading"]
    /\ driver = "idle" /\ order = 0 /\ out = NoCommand /\ cancel = "no"
    /\ mine = {} /\ others = Absent
    /\ wire = <<>> /\ back = <<>>
    /\ place = 1 /\ job = 0 /\ paused = FALSE /\ begun = {} /\ carried = {}
    /\ spoilt = {}

\* Bound: connections lost, cancels and a visit of another vehicle to a block.
Lost == {s \in Link : links[s] \notin {"none", "attaching", "up"}}
Upset == Cardinality(Lost) + (IF cancel = "no" THEN 0 ELSE 1)
         + (IF others = Absent THEN 0 ELSE 1) < MaxUpsets

-----------------------------------------------------------------------------
(* Sending: send, resend, TcpSession::doSend *)

Whole == tcp # 0 /\ links[tcp] \in {"attaching", "up"}

\* boost::asio::write waits while the connection takes no more.  What is
\* written to a connection that is gone is lost, unless write throws.
Writable == tcp # 0 /\ (Whole => Len(wire) < MaxWire)
Write(c) == wire' = IF Whole THEN Append(wire, c) ELSE wire
Throws == tcp # 0 /\ ~Whole

\* send remembers the command after it has been written; broken variant: only
\* to know that it is not finished.
RememberUnfinished(c) ==
    /\ unFinish' = unFinish \cup {c.type}
    /\ UNCHANGED unRecv
Remember(c) ==
    /\ unRecv' = unRecv \cup {c}
    /\ unFinish' = unFinish \cup {c.type}

WriteAndRemember(c) == Writable /\ Write(c) /\ Remember(c)

\* The thread that sends again what has not been acknowledged for more than
\* MAX_WAITTIMES seconds; broken variant: nothing is sent again.
NeverAgain(c) == FALSE
UnderWay(c) == \/ \E i \in 1..Len(wire) : wire[i] = c
               \/ \E i \in 1..Len(back) : back[i].of = c
Again(c) == c \in unRecv /\ Writable /\ ~UnderWay(c)

Resend(c) ==
    /\ Again(c) /\ Write(c)
    /\ UNCHANGED <<linkVars, agvVars, flagVars, sentVars, reader,
                   driverVars, cancel, blockVars, back, carVars, spoilt>>

-----------------------------------------------------------------------------
(* The connection: TcpSession::attach and start, Acceptor::doAccept *)

\* The vehicle connects; it does so again when the connection is gone.
Connect(s) ==
    /\ accepting /\ links[s] = "none" /\ (s > 1 => links[s - 1] # "none")
    /\ \A t \in Link : links[t] \notin {"attaching", "up", "unheard"}
    /\ links' = [links EXCEPT ![s] = "attaching"] /\ tcp' = s
    /\ status' = "notready" /\ now' = 0 /\ next' = 0
    /\ UNCHANGED <<accepting, flagVars, sentVars, reader, driverVars,
                   cancel, blockVars, wireVars, carVars, spoilt>>

\* startReport, whose answer is left out; then a thread reads.  A reader of the
\* connection before may have reset m_qTcp: then resend waits as long as there
\* is a task.
StartReport(s) ==
    /\ links[s] \in {"attaching", "unheard"}
    /\ tcp # 0 \/ driver = "idle" \/ cancel # "no"
    /\ links' = [links EXCEPT ![s] = IF @ = "unheard" THEN "down" ELSE "up"]
    /\ UNCHANGED <<tcp, accepting, agvVars, flagVars, sentVars, reader,
                   driverVars, cancel, blockVars, wireVars, carVars, spoilt>>

\* The exception of write leaves the loop that accepts connections.
AcceptFails(s) ==
    /\ links[s] = "unheard" /\ Throws
    /\ links' = [links EXCEPT ![s] = "closed"] /\ accepting' = FALSE
    /\ UNCHANGED <<tcp, agvVars, flagVars, sentVars, reader,
                   driverVars, cancel, blockVars, wireVars, carVars, spoilt>>

\* The connection is gone, with what was on its way.
Drop(s) ==
    /\ Upset /\ links[s] \in {"attaching", "up"}
    /\ links' = [links EXCEPT ![s] = IF @ = "up" THEN "down" ELSE "unheard"]
    /\ wire' = <<>> /\ back' = <<>>
    /\ spoilt' = IF \E i \in 1..Len(back) : back[i].what = "finish"
                 THEN spoilt \cup {"report lost"} ELSE spoilt
    /\ UNCHANGED <<tcp, accepting, agvVars, flagVars, sentVars, reader,
                   driverVars, cancel, blockVars, carVars>>

\* The reader notices, and resets m_qTcp before and after it has removed the
\* session; another connection may be there already.
Disconnected(s) ==
    /\ \/ links[s] = "down" /\ reader[s] = "reading"
          /\ links' = [links EXCEPT ![s] = "closing"]
       \/ links[s] = "closing" /\ links' = [links EXCEPT ![s] = "closed"]
    /\ tcp' = 0 /\ status' = "unconnect"
    /\ UNCHANGED <<accepting, now, next, flagVars, sentVars, reader,
                   driverVars, cancel, blockVars, wireVars, carVars, spoilt>>

-----------------------------------------------------------------------------
(* Reading: onRead, arrve, Agv::onLeaveStation, Agv::onArriveStation *)

Hears(s) == links[s] = "up" /\ reader[s] = "reading"
Reads(s) == Hears(s) /\ ~firstConnect

\* The first thing the program ever hears of the vehicle makes it send CLEAR.
FirstHeard(s) ==
    /\ Hears(s) /\ firstConnect
    /\ firstConnect' = FALSE
    /\ \/ WriteAndRemember(Halt(CLEAR))
       \/ tcp = 0 /\ UNCHANGED <<wire, sentVars>>
    /\ UNCHANGED <<linkVars, agvVars, sendPause, pauseFlag, reader,
                   driverVars, cancel, blockVars, back, carVars, spoilt>>

IsStation(p) == p % 2 = 1
HasPath == driver # "idle"
CurrentEnd == IF HasPath THEN Target(IF order < Fork THEN order ELSE Legs)
              ELSE 0
Passable(p) == \A b \in Blocks : p \in b => others # b
Held(ps) == mine \cup (ps \cap Guarded)

StopIf(s, stop) ==
    reader' = [reader EXCEPT ![s] = IF stop THEN "stopping" ELSE @]

\* onArriveStation when nowStation is now0: block and pause.
Arrived(s, p, now0) ==
    LET behind == IF HasPath THEN 1..(p - 1) ELSE {}
        added == IF Passable(p) THEN Held({p}) ELSE mine
    IN  /\ now' = p
        /\ next' = IF ~HasPath THEN next ELSE IF p < LastPlace THEN p + 2 ELSE 0
        /\ mine' = added \ ({now0} \cup behind)
        /\ StopIf(s, \/ ~Passable(p)
                     \/ HasPath /\ p < LastPlace /\ ~Passable(p + 1))

\* A position from a vehicle that has just connected.
Ready(s) ==
    /\ Reads(s) /\ status = "notready"
    /\ \E p \in Place : /\ IsStation(p) /\ place - 1 <= p /\ p <= place + 1
                        /\ Arrived(s, p, p)
    /\ status' = "idle"
    /\ UNCHANGED <<linkVars, flagVars, sentVars, driverVars, cancel, others,
                   wireVars, carVars, spoilt>>

\* A position away from the station the vehicle was at.
Leave(s) ==
    LET blocked == next # 0 /\ ~Passable(now + 1)
    IN  /\ Reads(s) /\ status # "notready" /\ now # 0 /\ place # now
        /\ mine' = IF next = 0 \/ blocked THEN mine \ {now}
                   ELSE Held({now + 1}) \ {now}
        /\ now' = 0 /\ next' = 0
        /\ StopIf(s, blocked)
        /\ UNCHANGED <<linkVars, status, flagVars, sentVars, driverVars, cancel,
                       others, wireVars, carVars, spoilt>>

\* A position at a station of the path, not beyond the end of this leg.
Arrive(s) ==
    /\ Reads(s) /\ status # "notready"
    /\ IsStation(place) /\ place <= CurrentEnd /\ now = 0
    /\ Arrived(s, place, 0)
    /\ UNCHANGED <<linkVars, status, flagVars, sentVars, driverVars, cancel,
                   others, wireVars, carVars, spoilt>>

\* pause() sets sendPause, then sends.
Pause(s) ==
    /\ reader[s] = "stopping"
    /\ reader' = [reader EXCEPT ![s] = "pausing"] /\ sendPause' = TRUE
    /\ UNCHANGED <<linkVars, agvVars, firstConnect, pauseFlag, sentVars,
                   driverVars, cancel, blockVars, wireVars, carVars, spoilt>>

SendPause(s) ==
    /\ reader[s] = "pausing" /\ reader' = [reader EXCEPT ![s] = "reading"]
    /\ \/ WriteAndRemember(Halt(PAUSE))
       \/ /\ tcp = 0 /\ (driver = "idle" \/ cancel # "no")
          /\ UNCHANGED <<wire, sentVars>>
    /\ UNCHANGED <<linkVars, agvVars, flagVars, driverVars, cancel,
                   blockVars, back, carVars, spoilt>>

\* The acknowledgement of a command, or FORKLIFT_FINISH; one follows the other
\* if the command is done at once.
ReadAnswer(s) ==
    /\ Reads(s) /\ back # <<>>
    /\ LET a == Head(back)
           finish == a.what = "finish"
           ack == a.what = "ack" \/ a.of.type = "halt"
       IN  /\ unFinish' = unFinish \ (IF finish THEN {a.of.type} ELSE {})
           /\ unRecv' = unRecv \ (IF ack THEN {a.of} ELSE {})
           /\ pauseFlag' = IF a.of.type = "halt" THEN sendPause ELSE pauseFlag
           /\ spoilt' = IF finish /\ driver = "register" /\ out.type = a.of.type
                        THEN spoilt \cup {"report early"} ELSE spoilt
    /\ back' = Tail(back)
    /\ UNCHANGED <<linkVars, agvVars, firstConnect, sendPause, reader,
                   driverVars, cancel, blockVars, wire, carVars>>

-----------------------------------------------------------------------------
(* The thread that drives: excutePath, goSameFloorPath, goStation, the fork *)

Moving == order \in 1..Legs
Goto(a, b) == driver = a /\ driver' = b
StartOrder(k) ==
    IF k > Fork \/ (k = Fork /\ cancel # "no") THEN
        driver' = "over" /\ UNCHANGED <<order, out>>
    ELSE /\ driver' = IF k = Fork THEN "send" ELSE "block"
         /\ order' = k /\ out' = Command(k)

\* The distributor gives the vehicle a task.
GiveTask ==
    /\ driver = "idle" /\ status = "idle" /\ now = 1
    /\ StartOrder(1) /\ status' = "tasking"
    /\ UNCHANGED <<linkVars, now, next, flagVars, sentVars, reader,
                   cancel, blockVars, wireVars, carVars, spoilt>>

\* The leg waits for the block of its first line and of that line's end.
CanStart(k) == Passable(FirstLine(k)) /\ Passable(FirstLine(k) + 1)

TryStart ==
    /\ Goto("block", "send") /\ cancel = "no" /\ CanStart(order)
    /\ mine' = Held({FirstLine(order), FirstLine(order) + 1})
    /\ UNCHANGED <<linkVars, agvVars, flagVars, sentVars, reader,
                   order, out, cancel, others, wireVars, carVars, spoilt>>

Skip ==
    /\ driver = "block" /\ cancel # "no"
    /\ StartOrder(order + 1)
    /\ UNCHANGED <<linkVars, agvVars, flagVars, sentVars, reader,
                   cancel, blockVars, wireVars, carVars, spoilt>>

\* resend: the command is written.  It waits for a connection, or until the
\* task is cancelled; an exception is caught by excuteTask.
Send ==
    /\ Goto("send", "register") /\ Writable /\ Write(out)
    /\ UNCHANGED <<linkVars, agvVars, flagVars, sentVars, reader,
                   order, out, cancel, blockVars, back, carVars, spoilt>>

SendFails ==
    /\ \/ Throws /\ Goto("send", "dead")
       \/ tcp = 0 /\ cancel # "no" /\ Goto("send", "wait")
    /\ UNCHANGED <<linkVars, agvVars, flagVars, sentVars, reader,
                   order, out, cancel, blockVars, wireVars, carVars, spoilt>>

Register ==
    /\ Goto("register", "wait") /\ Remember(out)
    /\ UNCHANGED <<linkVars, agvVars, flagVars, reader, order, out,
                   cancel, blockVars, wireVars, carVars, spoilt>>

\* isFinish(), for the fork of its type; broken variant: it is not asked.
FinishedAlways == TRUE
IsFinish == IF Moving THEN unFinish = {} ELSE "fork" \notin unFinish

\* The wait of a leg heeds a pause first; broken variant: it does not.
NeverSeen == FALSE
PauseSeen == driver = "wait" /\ Moving /\ (sendPause \/ pauseFlag)

Advance ==
    /\ driver = "wait" /\ (Moving => now = Target(order)) /\ IsFinish
    /\ PauseSeen => now # 0 /\ ~Passable(now)
    /\ StartOrder(order + 1)
    /\ UNCHANGED <<linkVars, agvVars, flagVars, sentVars, reader,
                   cancel, blockVars, wireVars, carVars, spoilt>>

\* While the vehicle is paused: do the block of the place it is at and that of
\* the line after it let it go on?  Away from stations nothing is asked, as
\* nextStation is 0 there.  A resume may overtake the pause it is to end.
Resume ==
    /\ PauseSeen /\ ~UnderWay(Halt(RESUME))
    /\ now # 0 => Passable(now) /\ (now < LastPlace => Passable(now + 1))
    /\ mine' = IF now = 0 THEN mine ELSE Held({now})
    /\ sendPause' = FALSE
    /\ driver' = "send" /\ out' = Halt(RESUME)
    /\ spoilt' = IF \E s \in Link : reader[s] = "pausing"
                 THEN spoilt \cup {"overtaken"} ELSE spoilt
    /\ UNCHANGED <<linkVars, agvVars, firstConnect, pauseFlag, sentVars,
                   reader, order, cancel, others, wireVars, carVars>>

\* "break" leaves the loop that waits for the end of the leg.
GiveUp ==
    /\ PauseSeen /\ now # 0 /\ now < LastPlace
    /\ Passable(now) /\ ~Passable(now + 1)
    /\ mine' = Held({now})
    /\ spoilt' = spoilt \cup {"given up"}
    /\ StartOrder(order + 1)
    /\ UNCHANGED <<linkVars, agvVars, flagVars, sentVars, reader,
                   cancel, others, wireVars, carVars>>

-----------------------------------------------------------------------------
(* TaskManager::cancelTask, DyForklift::onTaskCanceled *)

AskCancel ==
    /\ Upset /\ cancel = "no" /\ driver \notin {"idle", "over"}
    /\ cancel' = "asked" /\ spoilt' = spoilt \cup {"cancelled"}
    /\ UNCHANGED <<linkVars, agvVars, flagVars, sentVars, reader,
                   driverVars, blockVars, wireVars, carVars>>

\* CLEAR is sent, once; the blocks stay occupied; the task is forgotten.
ClearTask ==
    /\ cancel = "asked" /\ cancel' = "done"
    /\ \/ WriteAndRemember(Halt(CLEAR))
       \/ tcp = 0 /\ UNCHANGED <<wire, sentVars>>
    /\ status' = "idle"
    /\ UNCHANGED <<linkVars, now, next, flagVars, reader, driverVars,
                   blockVars, back, carVars, spoilt>>

-----------------------------------------------------------------------------
(* The vehicle, and another vehicle that uses the block *)

Take ==
    /\ Whole /\ wire # <<>> /\ wire' = Tail(wire)
    /\ LET c == Head(wire)
       IN  /\ back' = back \o IF c.type = "halt" THEN <<Ack(c), Done(c)>>
                              ELSE <<Ack(c)>>
           /\ paused' = IF c.type = "halt" THEN c.arg = PAUSE ELSE paused
           /\ job' = IF c = Halt(CLEAR) THEN 0
                     ELSE IF IsOrder(c) /\ c.arg \notin begun THEN c.arg
                     ELSE job
           /\ begun' = IF IsOrder(c) THEN begun \cup {c.arg} ELSE begun
           /\ spoilt' = IF c = Halt(CLEAR) /\ job # 0
                        THEN spoilt \cup {"cleared"} ELSE spoilt
    /\ UNCHANGED <<linkVars, agvVars, flagVars, sentVars, reader,
                   driverVars, cancel, blockVars, place, carried>>

Drive ==
    /\ job \in 1..Legs /\ ~paused /\ place < Target(job)
    /\ place' = place + 1
    /\ UNCHANGED <<linkVars, agvVars, flagVars, sentVars, reader,
                   driverVars, cancel, blockVars, wireVars, job, paused, begun,
                   carried, spoilt>>

Complete ==
    /\ job # 0 /\ (job # Fork => ~paused /\ place >= Target(job))
    /\ job' = 0 /\ carried' = carried \cup {job}
    /\ IF Whole THEN back' = Append(back, Done(Command(job)))
                     /\ UNCHANGED spoilt
       ELSE spoilt' = spoilt \cup {"report lost"} /\ UNCHANGED back
    /\ UNCHANGED <<linkVars, agvVars, flagVars, sentVars, reader,
                   driverVars, cancel, blockVars, wire, place, paused, begun>>

\* It comes once, and leaves the block again.
Other ==
    /\ \/ /\ Upset /\ others = Absent
          /\ \E b \in Blocks : mine \cap b = {} /\ others' = b
       \/ others \in Blocks /\ others' = Gone
    /\ UNCHANGED <<linkVars, agvVars, flagVars, sentVars, reader,
                   driverVars, cancel, mine, wireVars, carVars, spoilt>>

-----------------------------------------------------------------------------

Session(s) == \/ Connect(s) \/ StartReport(s) \/ AcceptFails(s)
              \/ Disconnected(s) \/ FirstHeard(s) \/ Ready(s) \/ Leave(s)
              \/ Arrive(s) \/ Pause(s) \/ SendPause(s) \/ ReadAnswer(s)
Driver == \/ TryStart \/ Skip \/ Send \/ SendFails \/ Register
          \/ Advance \/ Resume \/ GiveUp
Car == Take \/ Drive \/ Complete

Next ==
    \/ \E s \in Link : Session(s) \/ Drop(s)
    \/ \E c \in Commands : Resend(c)
    \/ GiveTask \/ Driver
    \/ AskCancel \/ ClearTask \/ Car \/ Other

\* Threads run on.  The vehicle does what it is told and connects again; the
\* other one leaves the block.
Fairness ==
    /\ WF_vars(Driver)
    /\ \A s \in Link : WF_vars(Session(s))
    /\ \A c \in Commands : WF_vars(Resend(c))
    /\ WF_vars(Take) /\ WF_vars((Drive \/ Complete))
    /\ WF_vars(others \in Blocks /\ Other)

Spec == Init /\ [][Next]_vars /\ Fairness

-----------------------------------------------------------------------------
(* Properties *)

\* The thread goes on to the next order only when the vehicle has carried this
\* one out, whatever is lost, sent again or finished late, unless the order is
\* given up: "阻塞的函数,知道执行完成后才可以返回" (agv.h:35).
Unsent == driver \in {"block", "send"} /\ out # Halt(RESUME)
Contract == INSTANCE Orders WITH
    Orders <- Fork, carried <- carried,
    given <- IF Unsent THEN order - 1 ELSE order,
    passed <- IF driver \in {"idle", "over"} THEN order ELSE order - 1,
    upset <- spoilt \cap {"given up", "cancelled"} # {}
Promise == Contract!Spec

\* Nobody waits for a report that cannot come: as long as no report has been
\* lost or was too early, every command the vehicle has not reported finished
\* is on its way, will be sent again, is being carried out, or its report is
\* on its way back (dyforklift.cpp:867-878).
Expected(t) ==
    \/ \E c \in unRecv : c.type = t
    \/ \E i \in 1..Len(wire) : wire[i].type = t
    \/ job # 0 /\ Command(job).type = t
    \/ \E i \in 1..Len(back) : back[i] = Done(back[i].of) /\ back[i].of.type = t
NoVainWait == spoilt = {} => \A t \in unFinish : Expected(t)

\* An order reaches the vehicle, over a later connection if need be, as long
\* as the program gets a connection again.
OrderArrives ==
    []<>Whole => \A k \in Order :
        (driver = "wait" /\ order = k) ~> (k \in begun \/ cancel # "no")

\* The thread ends unless a report is lost, the task cancelled or the write of
\* an order fails: pauses end, and what was not acknowledged is sent again.
TaskEnds ==
    []<>Whole =>
        (driver = "block" ~> (driver \in {"over", "dead"} \/ spoilt # {}))
=============================================================================
