------------------------------ MODULE MCPaging ------------------------------
(***************************************************************************)
(* Paging for TLC.  The constants are in the .cfg files.                   *)
(***************************************************************************)
EXTENDS Paging
=============================================================================
