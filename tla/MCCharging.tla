----------------------------- MODULE MCCharging -----------------------------
(* A thing that is done three times; up to three upsets. *)
EXTENDS Charging
=============================================================================
