--------------------------- MODULE TaskStatusView ---------------------------
(***************************************************************************)
(* What controllersrv promises to a client that knows only serial numbers: *)
(* GET /task/status reports one status per serial, and that status moves   *)
(* along pending -> running -> success | failed | timeout.  Nothing is     *)
(* persisted, so a restart forgets every serial.                           *)
(*                                                                         *)
(* The queue, the retries, the subprocesses and the timers of the worker   *)
(* are hidden here; TaskWorker implements this specification.              *)
(***************************************************************************)
CONSTANT Serials

Outcomes == {"success", "failed", "timeout"}
Answers == {"unknown", "pending", "running"} \cup Outcomes

VARIABLE view    \* view[s]: the answer to a status query for serial s

TypeOK == view \in [Serials -> Answers]

Init == view = [s \in Serials |-> "unknown"]

\* A submission is accepted unless a task with the same serial is unfinished.
Accept(s) ==
  /\ view[s] \notin {"pending", "running"}
  /\ view' = [view EXCEPT ![s] = "pending"]

\* One task at a time is executed.
Begin(s) ==
  /\ view[s] = "pending"
  /\ \A t \in Serials : view[t] # "running"
  /\ view' = [view EXCEPT ![s] = "running"]

Finish(s, outcome) ==
  /\ view[s] = "running"
  /\ view' = [view EXCEPT ![s] = outcome]

\* The hourly cleanup drops finished tasks only.
Forget(S) ==
  /\ \A s \in S : view[s] \in Outcomes
  /\ view' = [s \in Serials |-> IF s \in S THEN "unknown" ELSE view[s]]

Restart == view' = [s \in Serials |-> "unknown"]

Next ==
  \/ \E s \in Serials : Accept(s) \/ Begin(s)
  \/ \E s \in Serials, outcome \in Outcomes : Finish(s, outcome)
  \/ \E S \in SUBSET Serials : Forget(S)
  \/ Restart

Spec == Init /\ [][Next]_view
=============================================================================
