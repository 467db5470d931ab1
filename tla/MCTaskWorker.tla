---------------------------- MODULE MCTaskWorker ----------------------------
(***************************************************************************)
(* Instance of TaskWorker for TLC: a start, a stop and a restart call, the *)
(* first and the last with the same serial number, and the limits of       *)
(* conf/settings.py.                                                       *)
(***************************************************************************)
EXTENDS TaskWorker, TLC

CONSTANTS start, stop, again, s1, s2

MCRequests == {start, stop, again}
MCSerials == {s1, s2}
MCSerialOf == start :> s1 @@ stop :> s2 @@ again :> s1
MCCommandTimeout == start :> 300 @@ stop :> 60 @@ again :> 120
=============================================================================
