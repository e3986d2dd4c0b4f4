------------------------------- MODULE Orders -------------------------------
(***************************************************************************)
(* What a thread that drives a vehicle may rely on: it gives one order     *)
(* after another and goes on when the vehicle has carried the order out,   *)
(* unless the order has been given up.                                     *)
(***************************************************************************)
EXTENDS Naturals

CONSTANTS Orders        \* how many orders there are

VARIABLES
    given,      \* orders given so far: 1, 2, ..., given
    carried,    \* those the vehicle has carried out
    passed,     \* those the thread has left behind
    upset       \* an order has been given up

vars == <<given, carried, passed, upset>>

Init == given = 0 /\ carried = {} /\ passed = 0 /\ upset = FALSE

Give ==
    /\ given = passed /\ given < Orders
    /\ given' = given + 1
    /\ UNCHANGED <<carried, passed, upset>>

CarryOut(k) ==
    /\ k \in 1..given
    /\ carried' = carried \cup {k}
    /\ UNCHANGED <<given, passed, upset>>

GoOn ==
    /\ passed < given
    /\ given \in carried \/ upset
    /\ passed' = given
    /\ UNCHANGED <<given, carried, upset>>

\* From then on nothing is promised of the orders that follow.
GiveUp ==
    /\ upset' = TRUE
    /\ given' \in 0..Orders /\ passed' \in 0..Orders
    /\ UNCHANGED carried

Next == Give \/ GoOn \/ GiveUp \/ \E k \in 1..Orders : CarryOut(k)

Spec == Init /\ [][Next]_vars
=============================================================================
