------------------------------- MODULE Cabin -------------------------------
(***************************************************************************)
(* What is promised of vehicles that take a lift: a vehicle enters the     *)
(* cabin at its own floor, when nobody else is in it, and leaves it at the *)
(* floor it wants to go to.                                                *)
(***************************************************************************)
CONSTANTS Agv, Floors

VARIABLES
    cabin,      \* the floor the cabin is at
    aboard,     \* the vehicles in it
    from, to    \* of each vehicle: the floors of its trip

vars == <<cabin, aboard, from, to>>

Init == /\ cabin \in Floors /\ aboard = {}
        /\ from \in [Agv -> Floors] /\ to \in [Agv -> Floors]

Enter(v) ==
    /\ aboard = {} /\ cabin = from[v]
    /\ aboard' = {v}
    /\ UNCHANGED <<cabin, from, to>>

Exit(v) ==
    /\ v \in aboard /\ cabin = to[v]
    /\ aboard' = aboard \ {v}
    /\ UNCHANGED <<cabin, from, to>>

Ride ==
    /\ cabin' \in Floors
    /\ UNCHANGED <<aboard, from, to>>

\* A vehicle that is not in the cabin wants to go somewhere else.
Plan(v) ==
    /\ v \notin aboard
    /\ from' \in [Agv -> Floors] /\ to' \in [Agv -> Floors]
    /\ \A w \in Agv \ {v} : from'[w] = from[w] /\ to'[w] = to[w]
    /\ UNCHANGED <<cabin, aboard>>

Next == Ride \/ \E v \in Agv : Enter(v) \/ Exit(v) \/ Plan(v)

Spec == Init /\ [][Next]_vars
=============================================================================
