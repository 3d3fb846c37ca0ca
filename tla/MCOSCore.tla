----------------------------- MODULE MCOSCore -----------------------------
(***************************************************************************)
(* OSCore for TLC.  The constants are in the .cfg files.                   *)
(***************************************************************************)
EXTENDS OSCore
=============================================================================
