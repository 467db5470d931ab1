------------------------- MODULE MCServiceRegistry -------------------------
(***************************************************************************)
(* Instance of ServiceRegistry for TLC: one row, that of an instance that  *)
(* may come back under its id and share its address, and the scheduled     *)
(* health check.                                                           *)
(***************************************************************************)
EXTENDS ServiceRegistry

CONSTANTS i1, scheduled
=============================================================================
