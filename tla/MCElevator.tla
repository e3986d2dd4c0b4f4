----------------------------- MODULE MCElevator -----------------------------
(***************************************************************************)
(* Instances of Elevator for TLC: two floors, 1 - 2 - (3) with the cabin   *)
(* at point 3 on the first, (4) - 5 - 6 with the cabin at 4 on the second; *)
(* one vehicle goes up while another comes down.                           *)
(***************************************************************************)
EXTENDS Elevator, TLC

Floors == <<1, 1, 1, 2, 2, 2>>
Up == <<<<1, 2>>, <<2, 3>>, <<3, 4>>, <<4, 5>>, <<5, 6>>>>
Down == <<<<5, 4>>, <<4, 3>>, <<3, 2>>>>
UpAndDown == <<Up, Down>>
=============================================================================
