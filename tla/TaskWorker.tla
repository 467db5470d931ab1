----------------------------- MODULE TaskWorker -----------------------------
(***************************************************************************)
(* controllersrv's in-memory task queue and its single worker:             *)
(*   domain/task/task_queue.py   _queue, _tasks, _active_serial_numbers    *)
(*   domain/task/task_worker.py  _work_loop, _execute_task, _run_command   *)
(*                                                                         *)
(* One asyncio event loop runs the HTTP handlers, the work loop and the    *)
(* cleanup loop, so an action is the code between two awaits that can      *)
(* really suspend.  The queue's lock is never held across such an await:   *)
(* a critical section is one step.  The commands are operating system      *)
(* processes and exit on their own.                                        *)
(*                                                                         *)
(* A request stands for the Task object one HTTP call creates; several     *)
(* requests may carry the same serial number.                              *)
(***************************************************************************)
EXTENDS Integers, Sequences

CONSTANTS
  Requests,        \* start / stop / restart calls, one Task object each
  Serials,         \* serial numbers
  SerialOf,        \* SerialOf[r]: the serial number r carries
  NoTask,          \* Python's None
  QueueMax,        \* TASK_QUEUE_MAX_SIZE
  MaxRetries,      \* MAX_RETRIES
  RetryDelay,      \* RETRY_DELAY, seconds
  CommandTimeout,  \* CommandTimeout[r]: TIMEOUT_CONFIG of r's operation
  GracePeriod,     \* seconds between terminate() and kill()
  TaskMaxTime,     \* TASK_MAX_EXECUTION_TIME, seconds
  MaxRestarts      \* bound on the restarts of the process that are explored

ASSUME TaskWorkerAssumption ==
  /\ SerialOf \in [Requests -> Serials]
  /\ NoTask \notin Requests
  /\ QueueMax \in Nat \ {0}
  /\ MaxRetries \in Nat \ {0}
  /\ RetryDelay \in Nat
  /\ CommandTimeout \in [Requests -> Nat]
  /\ GracePeriod \in Nat
  /\ TaskMaxTime \in Nat
  /\ MaxRestarts \in Nat

\* The limits of conf/settings.py leave room for every attempt of a task.
ASSUME RetryBudget ==
  \A r \in Requests :
    MaxRetries * (CommandTimeout[r] + GracePeriod + RetryDelay) < TaskMaxTime

VARIABLES
  queue,      \* asyncio.Queue of tasks
  tasks,      \* _tasks: serial -> the task registered under it
  active,     \* _active_serial_numbers
  status,     \* task.status; "none" before the task is accepted
  response,   \* what create_operation_task answered to the request
  running,    \* worker._running
  pc,         \* where the work loop is suspended
  cur,        \* the task the work loop has taken
  attempt,    \* attempt number in _execute_with_retry
  elapsed,    \* the longest the finished attempts of cur can have taken
  exit,       \* exit code of the current command, once it has exited
  alive,      \* <<task, attempt>> of every command process still running
  restarts    \* restarts so far

ledger == <<queue, tasks, active, status, response>>
worker == <<pc, cur, attempt, elapsed, exit>>
vars == <<ledger, worker, running, alive, restarts>>

Outcomes == {"success", "failed", "timeout"}
Statuses == {"none", "pending", "running"} \cup Outcomes
Waiting == {"command", "grace", "killed"}                 \* for the command's exit
Executing == {"spawn", "backoff"} \cup Waiting            \* inside _execute_task
Child == <<cur, attempt>>                                 \* the command of this attempt
Queued == {queue[i] : i \in 1..Len(queue)}

TypeOK ==
  /\ queue \in Seq(Requests) /\ Len(queue) <= QueueMax
  /\ tasks \in [Serials -> Requests \cup {NoTask}]
  /\ active \subseteq Serials
  /\ status \in [Requests -> Statuses]
  /\ response \in [Requests -> {"none", "accepted", "duplicate", "full"}]
  /\ running \in BOOLEAN
  /\ pc \in {"off", "poll", "taken"} \cup Executing
  /\ cur \in Requests \cup {NoTask}
  /\ attempt \in 0..MaxRetries
  /\ elapsed \in Nat
  /\ exit \in {"none", "zero", "nonzero"}
  /\ alive \subseteq Requests \X (1..MaxRetries)
  /\ restarts \in 0..MaxRestarts

\* initialize_controllersrv has started the worker before requests are served.
Init ==
  /\ queue = <<>>
  /\ tasks = [s \in Serials |-> NoTask]
  /\ active = {}
  /\ status = [r \in Requests |-> "none"]
  /\ response = [r \in Requests |-> "none"]
  /\ running = TRUE
  /\ pc = "poll"
  /\ cur = NoTask
  /\ attempt = 0
  /\ elapsed = 0
  /\ exit = "none"
  /\ alive = {}
  /\ restarts = 0

-----------------------------------------------------------------------------
(* The HTTP side: create_operation_task and enqueue                         *)

Respond(r, answer) ==
  /\ response[r] = "none"
  /\ response' = [response EXCEPT ![r] = answer]
  /\ UNCHANGED <<worker, running, alive, restarts>>

RejectDuplicate(r) ==
  /\ SerialOf[r] \in active
  /\ Respond(r, "duplicate")
  /\ UNCHANGED <<queue, tasks, active, status>>

RejectFull(r) ==
  /\ SerialOf[r] \notin active
  /\ Len(queue) >= QueueMax
  /\ Respond(r, "full")
  /\ UNCHANGED <<queue, tasks, active, status>>

Register(r) ==
  /\ Respond(r, "accepted")
  /\ queue' = Append(queue, r)
  /\ tasks' = [tasks EXCEPT ![SerialOf[r]] = r]
  /\ active' = active \cup {SerialOf[r]}
  /\ status' = [status EXCEPT ![r] = "pending"]

\* MUTANT of Enqueue: the duplicate check is missing.
Enqueue_NoDuplicateCheck(r) == Len(queue) < QueueMax /\ Register(r)

Enqueue(r) ==
  /\ SerialOf[r] \notin active
  /\ Len(queue) < QueueMax
  /\ Register(r)

-----------------------------------------------------------------------------
(* The work loop                                                            *)

\* Mutant: a task that timed out keeps its serial.
SetStatus_TimeoutHoldsSerial(r, st) ==
  LET registered == tasks[SerialOf[r]]
  IN  /\ status' = [q \in Requests |-> IF q \in {r, registered} THEN st ELSE status[q]]
      /\ active' = IF registered # NoTask /\ st \in {"success", "failed"}
                     THEN active \ {SerialOf[r]} ELSE active
      /\ UNCHANGED <<queue, tasks, response>>

\* task.mark_*() on the worker's own object, then update_task_status, which
\* looks the serial up again and releases it once the registered task is finished.
SetStatus(r, st) ==
  LET registered == tasks[SerialOf[r]]
  IN  /\ status' = [q \in Requests |-> IF q \in {r, registered} THEN st ELSE status[q]]
      /\ active' = IF registered # NoTask /\ st \in Outcomes
                     THEN active \ {SerialOf[r]} ELSE active
      /\ UNCHANGED <<queue, tasks, response>>

\* _execute_task is over; `while self._running` decides whether the loop goes on.
Conclude(outcome) ==
  /\ SetStatus(cur, outcome)
  /\ cur' = NoTask
  /\ pc' = IF running THEN "poll" ELSE "off"
  /\ UNCHANGED <<attempt, elapsed, exit>>

\* dequeue() gets an item.  Until Python 3.12 wait_for hands it over through an
\* inner task, so the loop can be suspended between taking it and marking it.
Dequeue ==
  /\ running /\ pc = "poll" /\ queue # <<>>
  /\ cur' = Head(queue)
  /\ queue' = Tail(queue)
  /\ pc' = "taken"
  /\ UNCHANGED <<tasks, active, status, response, attempt, elapsed, exit,
                 running, alive, restarts>>

MarkRunning ==
  /\ pc = "taken"
  /\ SetStatus(cur, "running")
  /\ pc' = "spawn"
  /\ attempt' = 1
  /\ elapsed' = 0
  /\ exit' = "none"
  /\ UNCHANGED <<cur, running, alive, restarts>>

Spawn ==
  /\ pc = "spawn"
  /\ alive' = alive \cup {Child}
  /\ exit' = "none"
  /\ pc' = "command"
  /\ UNCHANGED <<ledger, cur, attempt, elapsed, running, restarts>>

\* Mutant: one attempt more than MAX_RETRIES.
AttemptFails_OneMore(spent) ==
  \/ /\ attempt <= MaxRetries
     /\ pc' = "backoff"
     /\ elapsed' = elapsed + spent
     /\ UNCHANGED <<ledger, cur, attempt, exit>>
  \/ /\ attempt > MaxRetries
     /\ Conclude("failed")

\* The attempt raised after at most `spent` seconds: back off and try again, or
\* give the task up after the last attempt.
AttemptFails(spent) ==
  \/ /\ attempt < MaxRetries
     /\ pc' = "backoff"
     /\ elapsed' = elapsed + spent
     /\ UNCHANGED <<ledger, cur, attempt, exit>>
  \/ /\ attempt >= MaxRetries
     /\ Conclude("failed")

SpawnFails ==
  /\ pc = "spawn"
  /\ AttemptFails(0)
  /\ UNCHANGED <<running, alive, restarts>>

CommandSucceeds ==
  /\ pc = "command" /\ exit = "zero"
  /\ Conclude("success")
  /\ UNCHANGED <<running, alive, restarts>>

CommandFails ==
  /\ pc = "command" /\ exit = "nonzero"
  /\ AttemptFails(CommandTimeout[cur])
  /\ UNCHANGED <<running, alive, restarts>>

\* Mutant: the timeout leaves the command running.
CommandTimesOut_NoKill ==
  /\ pc = "command"
  /\ AttemptFails(CommandTimeout[cur])
  /\ UNCHANGED <<running, alive, restarts>>

\* The per-command timeout; the command may have exited in the same instant.
CommandTimesOut ==
  /\ pc = "command"
  /\ pc' = "grace"
  /\ UNCHANGED <<ledger, cur, attempt, elapsed, exit, running, alive, restarts>>

GraceExpires ==
  /\ pc = "grace" /\ exit = "none"
  /\ pc' = "killed"
  /\ UNCHANGED <<ledger, cur, attempt, elapsed, exit, running, alive, restarts>>

\* The command is gone after terminate() or kill(): the attempt has timed out,
\* whatever its exit code.
CommandReaped ==
  /\ pc \in {"grace", "killed"} /\ exit # "none"
  /\ AttemptFails(CommandTimeout[cur] + GracePeriod)
  /\ UNCHANGED <<running, alive, restarts>>

BackoffEnds ==
  /\ pc = "backoff"
  /\ pc' = "spawn"
  /\ attempt' = attempt + 1
  /\ elapsed' = elapsed + RetryDelay
  /\ UNCHANGED <<ledger, cur, exit, running, alive, restarts>>

\* The time cur may have been executing when the loop resumes from pc.  A killed
\* command is reaped at once or, if it cannot die, not before TaskMaxTime.
LongestSoFar ==
  CASE pc = "spawn"   -> elapsed
    [] pc = "backoff" -> elapsed + RetryDelay
    [] pc = "command" -> elapsed + CommandTimeout[cur]
    [] pc = "grace"   -> elapsed + CommandTimeout[cur] + GracePeriod
    [] pc = "killed"  -> TaskMaxTime

\* Mutant: the total time is looked at between the attempts only.
TotalTimeout_BetweenAttempts ==
  /\ pc \in {"spawn", "backoff"}
  /\ LongestSoFar >= TaskMaxTime
  /\ Conclude("timeout")
  /\ UNCHANGED <<running, alive, restarts>>

\* wait_for(_execute_with_retry(task), TASK_MAX_EXECUTION_TIME) expires.  The
\* CancelledError passes `except Exception` in _run_command: nothing is killed.
TotalTimeout ==
  /\ pc \in Executing
  /\ pc = "killed" => exit = "none"
  /\ LongestSoFar >= TaskMaxTime
  /\ Conclude("timeout")
  /\ UNCHANGED <<running, alive, restarts>>

-----------------------------------------------------------------------------
(* The environment: processes, cleanup, shutdown, restart                   *)

ProcessExits(p, code) ==
  /\ p \in alive
  /\ alive' = alive \ {p}
  /\ exit' = IF p = Child THEN code ELSE exit
  /\ UNCHANGED <<ledger, pc, cur, attempt, elapsed, running, restarts>>

\* Mutant: cleanup looks at the age only.
Cleanup_AnyOldTask(S) ==
  /\ running
  /\ S # {}
  /\ \A s \in S : tasks[s] # NoTask
  /\ tasks' = [s \in Serials |-> IF s \in S THEN NoTask ELSE tasks[s]]
  /\ active' = active \ S
  /\ UNCHANGED <<queue, status, response, worker, running, alive, restarts>>

\* cleanup_old_tasks drops the finished tasks that are old enough: any of them.
Cleanup(S) ==
  /\ running
  /\ S # {}
  /\ \A s \in S : tasks[s] # NoTask /\ status[tasks[s]] \in Outcomes
  /\ tasks' = [s \in Serials |-> IF s \in S THEN NoTask ELSE tasks[s]]
  /\ active' = active \ S
  /\ UNCHANGED <<queue, status, response, worker, running, alive, restarts>>

\* stop(): an idle loop ends at once (dequeue turns the cancellation into None).
Stop ==
  /\ running
  /\ running' = FALSE
  /\ pc' = IF pc = "poll" THEN "off" ELSE pc
  /\ UNCHANGED <<ledger, cur, attempt, elapsed, exit, alive, restarts>>

\* The cancellation reaches a loop that executes a task.  It is a BaseException:
\* no handler marks the task, releases the serial or kills the command.  Before
\* Python 3.12 wait_for may first return a result that was already there.
Interrupt ==
  /\ ~running /\ pc \in Executing
  /\ pc' = "off"
  /\ cur' = NoTask
  /\ UNCHANGED <<ledger, attempt, elapsed, exit, running, alive, restarts>>

\* The process ends (after stop(), or killed at any point) and a new one starts:
\* its memory is gone, the commands it had spawned are not.
Restart ==
  /\ restarts < MaxRestarts
  /\ restarts' = restarts + 1
  /\ queue' = <<>>
  /\ tasks' = [s \in Serials |-> NoTask]
  /\ active' = {}
  /\ running' = TRUE
  /\ pc' = "poll"
  /\ cur' = NoTask
  /\ attempt' = 0
  /\ elapsed' = 0
  /\ exit' = "none"
  /\ UNCHANGED <<status, response, alive>>

WorkLoop ==
  \/ Dequeue \/ MarkRunning
  \/ Spawn \/ SpawnFails
  \/ CommandSucceeds \/ CommandFails
  \/ CommandTimesOut \/ GraceExpires \/ CommandReaped
  \/ BackoffEnds \/ TotalTimeout

Next ==
  \/ \E r \in Requests : RejectDuplicate(r) \/ RejectFull(r) \/ Enqueue(r)
  \/ WorkLoop
  \/ \E p \in alive, code \in {"zero", "nonzero"} : ProcessExits(p, code)
  \/ \E S \in SUBSET Serials : Cleanup(S)
  \/ Stop \/ Interrupt \/ Restart

Spec == Init /\ [][Next]_vars

\* The event loop keeps running the work loop and its timers fire.  Nothing is
\* assumed of the commands: they may run for ever, even after SIGKILL.
FairSpec == Spec /\ WF_vars(WorkLoop)

-----------------------------------------------------------------------------
(* Properties                                                               *)

\* A task waiting in the queue, and the task the loop holds, is unfinished, is
\* the one registered under its serial and keeps that serial active; no task is
\* held twice.  So a status query answers for the task that will really run, and
\* a second task with the same serial cannot enter (enqueue, update_task_status).
LedgerAgrees ==
  /\ \A i \in 1..Len(queue) :
       /\ status[queue[i]] = "pending"
       /\ tasks[SerialOf[queue[i]]] = queue[i]
       /\ SerialOf[queue[i]] \in active
       /\ queue[i] # cur
       /\ \A j \in 1..Len(queue) : i # j => SerialOf[queue[i]] # SerialOf[queue[j]]
  /\ cur # NoTask =>
       /\ status[cur] = IF pc = "taken" THEN "pending" ELSE "running"
       /\ tasks[SerialOf[cur]] = cur
       /\ SerialOf[cur] \in active

\* While the worker runs, every active serial belongs to a task that is queued or
\* being executed: no outcome, retry or timeout leaves a serial blocked for ever
\* with nothing left to release it (_execute_task, cleanup_old_tasks).
NoSerialLeak ==
  running => \A s \in active : tasks[s] # NoTask /\ tasks[s] \in Queued \cup {cur}

\* A command outlives its attempt only if its task was interrupted or ran into
\* the total timeout.  A task reported success or failed has no process left, and
\* the attempts of one task never run side by side (_run_command's cleanup).
NoStrayCommand ==
  \A p \in alive :
    /\ status[p[1]] \in {"running", "timeout"}
    /\ p[1] = cur => p[2] = attempt /\ pc \in Waiting /\ exit = "none"

\* With the configured limits a task is marked timeout only when a killed command
\* does not die: the retries, graces and delays together fit into TaskMaxTime
\* (conf/settings.py, _execute_with_retry).
TimeoutMeansUnkillable ==
  [][\A r \in Requests :
       status[r] # "timeout" /\ status'[r] = "timeout"
         => r = cur /\ pc = "killed" /\ Child \in alive]_vars

\* An accepted task reaches an outcome, whatever its commands do, unless stop() is
\* called or a restart forgets it: hanging commands end in a timer (_work_loop).
AcceptedFinishes ==
  \A r \in Requests :
    response[r] = "accepted"
      ~> \/ status[r] \in Outcomes \/ ~running
         \/ restarts > 0 /\ tasks[SerialOf[r]] # r

\* What GET /task/status answers for each serial.
TaskView == [s \in Serials |-> IF tasks[s] = NoTask THEN "unknown" ELSE status[tasks[s]]]

StatusView == INSTANCE TaskStatusView WITH view <- TaskView

\* The worker keeps the promise TaskStatusView makes to the clients of the status
\* API: one task runs at a time, outcomes are final until the serial is forgotten.
Implements == StatusView!Spec
=============================================================================
