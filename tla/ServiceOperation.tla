-------------------------- MODULE ServiceOperation --------------------------
(***************************************************************************)
(* infrasrv's record of start, stop and restart operations:                *)
(*   application/service_management_app.py     execute_service_management  *)
(*   application/service_operation_tracker.py  run_once, every 10 seconds  *)
(*   infrastructure/db/operate/service_operation_op.py  service_operation  *)
(*                                                                         *)
(* Three writers share one row per operation: the call that executes it,   *)
(* the tracker that polls controllersrv, and the tracker's ten-minute      *)
(* limit.  None of their updates has a condition.  controllersrv itself is *)
(* TaskStatusView, with the operation id as serial number; requests to it  *)
(* and answers from it may be late or lost.                                *)
(***************************************************************************)
EXTENDS Integers, FiniteSets, Sequences, SequencesExt

CONSTANTS
  Ops,        \* operation ids
  Calls,      \* requests of clients to execute an operation
  OpOf,       \* OpOf[c]: its operation id; a client may repeat a request
  Earlier,    \* rows left PENDING by calls that died with an earlier process
  BatchSize,  \* _POLL_BATCH_SIZE
  MaxFaults   \* bound on crashes of infrasrv and controllersrv and on failed ticks

ASSUME ServiceOperationAssumption ==
  /\ OpOf \in [Calls -> Ops]
  /\ Earlier \in Seq(Ops) /\ IsInjective(Earlier)
  /\ BatchSize \in Nat \ {0}
  /\ MaxFaults \in Nat

VARIABLES
  status,     \* status[o] of the row; "none" while there is no row
  started,    \* the rows with a started_at
  created,    \* operation ids in the order of created_time
  old,        \* operations created more than ten minutes ago
  call,       \* call[c]: where execute_service_management is suspended
  net,        \* net[c]: its request to controllersrv, or the answer
  view,       \* controllersrv: what a status query answers (TaskStatusView)
  done,       \* the operations a task has been executed for with success
  tracker,    \* the tick in progress: phase, operations to do, polled status
  faults

row == <<status, started, created>>
controllersrv == <<view, done>>
vars == <<row, old, call, net, controllersrv, tracker, faults>>

Controllersrv == INSTANCE TaskStatusView WITH Serials <- Ops

Final == {"success", "failed", "timeout"}
Statuses == {"none", "pending", "running"} \cup Final
Unfinished == {"pending", "running"}            \* _ACTIVE_STATUS_VALUES
Waiting == [phase |-> "idle", todo |-> {}, got |-> "none"]

TypeOK ==
  /\ status \in [Ops -> Statuses]
  /\ started \subseteq Ops
  /\ created \in Seq(Ops)
  /\ old \subseteq Ops
  /\ call \in [Calls -> {"idle", "create", "send", "sent", "accepted", "failed",
                         "recorded", "given_up", "unrecorded",
                         "refused", "dead"}]
  /\ net \in [Calls -> {"none", "request", "accepted", "rejected"}]
  /\ Controllersrv!TypeOK
  /\ done \subseteq Ops
  /\ tracker \in [phase : {"idle", "poll", "stale"}, todo : SUBSET Ops, got : Statuses]
  /\ faults \in 0..MaxFaults

Init ==
  /\ status = [o \in Ops |-> IF o \in ToSet(Earlier) THEN "pending" ELSE "none"]
  /\ started = {}
  /\ created = Earlier
  /\ old = {}
  /\ call = [c \in Calls |-> "idle"]
  /\ net = [c \in Calls |-> "none"]
  /\ Controllersrv!Init
  /\ done = {}
  /\ tracker = Waiting
  /\ faults = 0

-----------------------------------------------------------------------------
(* execute_service_management                                               *)

Goes(c, from, to) ==
  /\ call[c] = from
  /\ call' = [call EXCEPT ![c] = to]
  /\ UNCHANGED <<old, controllersrv, tracker, faults>>

\* MUTANT of Look: an operation that is PENDING counts as not yet sent.
Look_PendingIsNew(c) ==
  /\ LET o == OpOf[c]
     IN  Goes(c, "idle", CASE status[o] = "none" -> "create"
                           [] status[o] = "pending" -> "send"
                           [] OTHER -> "refused")
  /\ UNCHANGED <<row, net>>

\* An operation that is past PENDING, or has been started, is answered from its row.
Look(c) ==
  /\ LET o == OpOf[c]
     IN  Goes(c, "idle", CASE status[o] = "none" -> "create"
                           [] status[o] = "pending" /\ o \notin started -> "send"
                           [] OTHER -> "refused")
  /\ UNCHANGED <<row, net>>

\* INSERT ... ON CONFLICT DO NOTHING.
Create(c) ==
  /\ Goes(c, "create", "send")
  /\ IF status[OpOf[c]] = "none"
       THEN /\ status' = [status EXCEPT ![OpOf[c]] = "pending"]
            /\ created' = Append(created, OpOf[c])
       ELSE UNCHANGED <<status, created>>
  /\ UNCHANGED <<started, net>>

CreateFails(c) == Goes(c, "create", "refused") /\ UNCHANGED <<row, net>>

Send(c) ==
  /\ Goes(c, "send", "sent")
  /\ net' = [net EXCEPT ![c] = "request"]
  /\ UNCHANGED row

Receive(c) ==
  /\ net[c] \in {"accepted", "rejected"}
  /\ Goes(c, "sent", IF net[c] = "accepted" THEN "accepted" ELSE "failed")
  /\ net' = [net EXCEPT ![c] = "none"]
  /\ UNCHANGED row

\* The client turns a timeout or a broken connection into a response with
\* success=False, so the retry loop around the call ends after the first attempt.
\* The request may still arrive.
GiveUp(c) == Goes(c, "sent", "failed") /\ UNCHANGED <<row, net>>

\* MUTANT of Record: what controllersrv has accepted is taken as done.
Record_AcceptedIsDone(c) ==
  /\ \/ Goes(c, "accepted", "recorded") /\ status' = [status EXCEPT ![OpOf[c]] = "success"]
     \/ Goes(c, "failed", "given_up") /\ status' = [status EXCEPT ![OpOf[c]] = "failed"]
  /\ started' = started \cup {OpOf[c]}
  /\ UNCHANGED <<created, net>>

\* The update has no condition on the status the row has by now.
Record(c) ==
  /\ \/ Goes(c, "accepted", "recorded") /\ status' = [status EXCEPT ![OpOf[c]] = "running"]
     \/ Goes(c, "failed", "given_up") /\ status' = [status EXCEPT ![OpOf[c]] = "failed"]
  /\ started' = started \cup {OpOf[c]}
  /\ UNCHANGED <<created, net>>

\* An error of the database is logged and the call goes on.
RecordFails(c) ==
  /\ Goes(c, "accepted", "unrecorded") \/ Goes(c, "failed", "unrecorded")
  /\ UNCHANGED <<row, net>>

CallStep(c) ==
  \/ Look(c) \/ Create(c) \/ CreateFails(c) \/ Send(c)
  \/ Receive(c) \/ GiveUp(c) \/ Record(c) \/ RecordFails(c)

-----------------------------------------------------------------------------
(* controllersrv                                                            *)

ControllersrvOnly == UNCHANGED <<row, old, call, tracker, faults>>

\* A request arrives, perhaps after its sender has given up.
Arrive(c) ==
  /\ net[c] = "request"
  /\ net' = [net EXCEPT ![c] = "accepted"]
  /\ Controllersrv!Accept(OpOf[c])
  /\ ControllersrvOnly /\ UNCHANGED done

\* Duplicate serial, queue full or validation error.
Reject(c) ==
  /\ net[c] = "request"
  /\ net' = [net EXCEPT ![c] = "rejected"]
  /\ ControllersrvOnly /\ UNCHANGED controllersrv

TaskBegins(o) ==
  /\ Controllersrv!Begin(o)
  /\ ControllersrvOnly /\ UNCHANGED <<net, done>>

TaskFinishes(o, outcome) ==
  /\ Controllersrv!Finish(o, outcome)
  /\ done' = IF outcome = "success" THEN done \cup {o} ELSE done
  /\ ControllersrvOnly /\ UNCHANGED net

Forgets ==
  /\ \E o \in Ops : Controllersrv!Forget({o})
  /\ ControllersrvOnly /\ UNCHANGED <<net, done>>

-----------------------------------------------------------------------------
(* ServiceOperationTrackerApp                                               *)

TrackerOnly == UNCHANGED <<old, call, net, controllersrv, faults>>

CreatedBefore(p, o) ==
  \E i, j \in DOMAIN created : i < j /\ created[i] = p /\ created[j] = o

\* The oldest of the unfinished operations of one age, as many as fit.
Batch(ages) ==
  LET due == {o \in ages : status[o] \in Unfinished}
  IN  {o \in due : Cardinality({p \in due : CreatedBefore(p, o)}) < BatchSize}

\* The oldest operation of the batch that has not been dealt with.
IsNext(o) == o \in tracker.todo /\ \A p \in tracker.todo : ~CreatedBefore(p, o)

\* operation_tracker_task skips a tick while the previous one is in progress.
Tick ==
  /\ tracker.phase = "idle"
  /\ tracker' = [phase |-> "poll", todo |-> Batch(Ops \ old), got |-> "none"]
  /\ TrackerOnly /\ UNCHANGED row

Polling(o) == tracker.phase = "poll" /\ IsNext(o)

\* MUTANT of Ask: a serial that is not known counts as a failure.
Ask_UnknownIsFailed(o) ==
  /\ Polling(o) /\ tracker.got = "none"
  /\ tracker' = [tracker EXCEPT !.got = IF view[o] = "unknown" THEN "failed" ELSE view[o]]
  /\ TrackerOnly /\ UNCHANGED row

\* The answer is saved in a transaction of its own.
Ask(o) ==
  /\ Polling(o) /\ tracker.got = "none" /\ view[o] # "unknown"
  /\ tracker' = [tracker EXCEPT !.got = view[o]]
  /\ TrackerOnly /\ UNCHANGED row

\* The serial is not known, or the query has failed: the operation is skipped.
AskFails(o) ==
  /\ Polling(o) /\ tracker.got = "none"
  /\ tracker' = [tracker EXCEPT !.todo = @ \ {o}]
  /\ TrackerOnly /\ UNCHANGED row

\* Whatever has been polled is written; only a task that has begun has a started_at.
Save(o) ==
  /\ Polling(o) /\ tracker.got # "none"
  /\ status' = [status EXCEPT ![o] = tracker.got]
  /\ started' = IF tracker.got = "pending" THEN started ELSE started \cup {o}
  /\ tracker' = [tracker EXCEPT !.todo = @ \ {o}, !.got = "none"]
  /\ TrackerOnly /\ UNCHANGED created

\* MUTANT of LookForStale: operations that were never recorded as running are left out.
LookForStale_StartedOnly ==
  /\ tracker.phase = "poll" /\ tracker.todo = {}
  /\ tracker' = [tracker EXCEPT !.phase = "stale", !.todo = Batch(old \cap started)]
  /\ TrackerOnly /\ UNCHANGED row

LookForStale ==
  /\ tracker.phase = "poll" /\ tracker.todo = {}
  /\ tracker' = [tracker EXCEPT !.phase = "stale", !.todo = Batch(old)]
  /\ TrackerOnly /\ UNCHANGED row

TimeOut(o) ==
  /\ tracker.phase = "stale" /\ IsNext(o)
  /\ status' = [status EXCEPT ![o] = "timeout"]
  /\ tracker' = [tracker EXCEPT !.todo = @ \ {o}]
  /\ TrackerOnly /\ UNCHANGED <<started, created>>

TickEnds ==
  /\ tracker.phase = "stale" /\ tracker.todo = {}
  /\ tracker' = Waiting
  /\ TrackerOnly /\ UNCHANGED row

TrackerStep ==
  \/ Tick \/ LookForStale \/ TickEnds
  \/ \E o \in Ops : Ask(o) \/ AskFails(o) \/ Save(o) \/ TimeOut(o)

-----------------------------------------------------------------------------
(* Time and faults                                                          *)

InProgress(c) == call[c] \in {"create", "send", "sent", "accepted", "failed"}

\* Ten minutes have passed since o was created.
Age(o) ==
  /\ status[o] # "none" /\ o \notin old
  /\ old' = old \cup {o}
  /\ UNCHANGED <<row, call, net, controllersrv, tracker, faults>>

\* An exception in a tick ends it: the rest of the batch waits for the next one.
TickFails ==
  /\ tracker # Waiting
  /\ faults < MaxFaults
  /\ faults' = faults + 1
  /\ tracker' = Waiting
  /\ UNCHANGED <<row, old, call, net, controllersrv>>

\* controllersrv restarts: its tasks are gone, their outcomes are not.
ControllersrvRestarts ==
  /\ faults < MaxFaults
  /\ faults' = faults + 1
  /\ Controllersrv!Restart
  /\ UNCHANGED <<row, old, call, net, done, tracker>>

\* infrasrv restarts: its calls are gone, its rows and the requests it sent are not.
Crash ==
  /\ faults < MaxFaults
  /\ faults' = faults + 1
  /\ call' = [c \in Calls |-> IF InProgress(c) THEN "dead" ELSE call[c]]
  /\ tracker' = Waiting
  /\ UNCHANGED <<row, old, net, controllersrv>>

Next ==
  \/ \E c \in Calls : CallStep(c) \/ Arrive(c) \/ Reject(c)
  \/ \E o \in Ops : TaskBegins(o) \/ Age(o) \/ \E outcome \in Final : TaskFinishes(o, outcome)
  \/ Forgets
  \/ TrackerStep
  \/ TickFails \/ Crash \/ ControllersrvRestarts

Spec == Init /\ [][Next]_vars

\* The scheduler ticks, a call that has been received goes on, time passes.
\* Nothing is assumed of the network and of controllersrv.
FairSpec ==
  /\ Spec
  /\ \A c \in Calls : WF_vars(CallStep(c))
  /\ \A o \in Ops : WF_vars(Age(o))
  /\ WF_vars(TrackerStep)

-----------------------------------------------------------------------------
(* Properties                                                               *)

OperationStatus == INSTANCE OperationStatusView WITH
  status <- [o \in Ops |-> IF status[o] \in Unfinished THEN "unfinished" ELSE status[o]]

\* A client that polls an operation sees what OperationStatusView promises: no row
\* disappears, and SUCCESS is never read of an operation that has not been performed,
\* whichever of the writers wrote last (execute_service_management, _sync_operation).
Implements == OperationStatus!Spec

\* An operation is recorded as SUCCESS only if controllersrv has executed a task for
\* it with success, whatever is lost, repeated or written over in between
\* (execute_service_management, _sync_operation).
SuccessIsReal == \A o \in Ops : status[o] = "success" => o \in done

\* An operation that only one call has sent, and that is known to be accepted, is not
\* given up before its time: while its task is unfinished and younger than the
\* tracker's window, its row is one the tracker polls, whatever the tracker was doing
\* when the call recorded it (execute_service_management, run_once).
TrackedToTheEnd ==
  \A c \in Calls :
    LET o == OpOf[c]
    IN  /\ call[c] \in {"accepted", "recorded"}
        /\ \A d \in Calls \ {c} : OpOf[d] = o => call[d] \in {"idle", "refused"}
        /\ view[o] \in Unfinished
        /\ o \notin old
        => status[o] \in Unfinished

\* Once a call has recorded what became of its request, a request that comes in later
\* for the same operation is not sent to controllersrv, even if a status polled
\* earlier has put the row back to PENDING (execute_service_management).
NotSentAgain ==
  [][\A c, d \in Calls :
       /\ call[c] = "idle" /\ call'[c] \in {"create", "send"}
       /\ call[d] \in {"recorded", "given_up"}
       => OpOf[c] # OpOf[d]]_vars

\* Every operation ends up in a final status and keeps it: calls, polls and the
\* ten-minute limit stop overwriting each other (run_once).
OperationSettles == \A o \in Ops : <>[](status[o] \in Final \cup {"none"})
=============================================================================
