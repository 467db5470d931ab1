------------------------- MODULE MCServiceOperation -------------------------
(***************************************************************************)
(* Instance of ServiceOperation for TLC: one operation whose request is    *)
(* repeated, and an older one, left PENDING by a process that has died,    *)
(* that competes for the tracker's batch.                                  *)
(***************************************************************************)
EXTENDS ServiceOperation, TLC

CONSTANTS o1, o2, first, again

MCOpOf == first :> o1 @@ again :> o1
MCEarlier == <<o2>>
=============================================================================
