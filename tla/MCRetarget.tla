---------------------------- MODULE MCRetarget ----------------------------
(***************************************************************************)
(* Model checking of Retarget.                                             *)
(***************************************************************************)
EXTENDS Retarget

MCStamps == 0..7
=============================================================================
