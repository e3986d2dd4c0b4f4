---------------------------- MODULE MCForklift ----------------------------
(***************************************************************************)
(* An instance of Forklift for TLC: a path 1 -2- 3 -4- 5, each line in a   *)
(* block of its own, driven in one leg.                                    *)
(***************************************************************************)
EXTENDS Forklift, TLC
=============================================================================
