----------------------------- MODULE ChargeCycle -----------------------------
(***************************************************************************)
(* What is promised of a vehicle at a charge machine: it raises its fork,  *)
(* gets ready, and only then the machine is started; it goes off only when *)
(* the battery is full, and lowers its fork only when the machine is idle  *)
(* again.                                                                  *)
(***************************************************************************)
VARIABLES
    fork,       \* of the vehicle: "down", "up"
    ready,      \* the vehicle is ready to be charged
    machine,    \* "idle", "charging", "full"
    excused     \* from now on nothing is promised

vars == <<fork, ready, machine, excused>>

Init == fork = "down" /\ ready = FALSE /\ machine = "idle" /\ excused = FALSE

Raise ==
    /\ ~ready /\ machine = "idle"
    /\ fork' = "up" /\ UNCHANGED <<ready, machine>>
GetReady ==
    /\ fork = "up" /\ machine = "idle"
    /\ ready' = TRUE /\ UNCHANGED <<fork, machine>>
Switch ==
    /\ ready /\ machine = "idle"
    /\ machine' = "charging" /\ UNCHANGED <<fork, ready>>
Fill ==
    /\ ready /\ machine = "charging"
    /\ machine' = "full" /\ UNCHANGED <<fork, ready>>
GoOff ==
    /\ machine = "full"
    /\ ready' = FALSE /\ UNCHANGED <<fork, machine>>
SwitchOff ==
    /\ ~ready
    /\ machine' = "idle" /\ UNCHANGED <<fork, ready>>
Lower ==
    /\ ~ready /\ machine = "idle"
    /\ fork' = "down" /\ UNCHANGED <<ready, machine>>

Next ==
    \/ /\ Raise \/ GetReady \/ Switch \/ Fill \/ GoOff \/ SwitchOff \/ Lower
       /\ excused' \in BOOLEAN
    \/ excused' = TRUE /\ UNCHANGED <<fork, ready, machine>>
    \/ excused /\ excused'

Spec == Init /\ [][Next]_vars
=============================================================================
