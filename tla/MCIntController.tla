-------------------------- MODULE MCIntController --------------------------
(***************************************************************************)
(* IntController for TLC, with the machine's one device, the timer.        *)
(***************************************************************************)
EXTENDS IntController
=============================================================================
