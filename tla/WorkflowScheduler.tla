-------------------------- MODULE WorkflowScheduler --------------------------
(***************************************************************************)
(* The scans of infrasrv that trigger workflows, interface/schedule:       *)
(*   scheduler.py           a scan when infrasrv starts, the next one a    *)
(*                          minute after each                              *)
(*   workflow_scheduler.py  which definitions are due, and their trigger   *)
(* and Celery beat's, which runs the same scan:                            *)
(*   conf/config.py         a message every five seconds                   *)
(*   workflow_tasks.py      the task of a worker that takes one            *)
(*                                                                         *)
(* A scan takes time, so scans drift against the minutes that cron         *)
(* expressions name, and there is no record of what has been triggered:    *)
(* a time is due in its own minute and in the next, for every scan that    *)
(* starts then.  Messages of beat do not expire and wait for a worker that *)
(* also executes the nodes of workflows, so they may be taken at any time, *)
(* many at once.                                                           *)
(*                                                                         *)
(* Scans are triggers of WorkflowDefinition, whose definition may be       *)
(* changed, switched off or deleted while a scan looks at it.  Cron        *)
(* expressions have five fields; with a sixth for seconds the window is    *)
(* one second long.                                                        *)
(***************************************************************************)
EXTENDS WorkflowDefinition

CONSTANTS
  Scheduler,    \* infrasrv's own scan; the other triggers are workers that take beat's messages
  Minute,       \* ticks of the clock in a minute
  MaxDrift,     \* ticks from the start of a scan to its end, and to the wake-up after it:
                \* less than a minute
  Horizon,      \* bound on the clock
  Fires         \* the times the cron expression names

ASSUME SchedulerAssumption ==
  /\ Scheduler \in Triggers
  /\ {"is_active", "flag"} \subseteq Columns
  /\ Minute \in Nat \ {0} /\ MaxDrift \in 0..(Minute - 1) /\ Horizon \in Nat
  /\ \A f \in Fires : f \in Nat /\ f % Minute = 0

VARIABLES
  now,
  phase,        \* phase[t]: where the scan is
  start,        \* start[t]: the time it has read; infrasrv's own keeps it until the next
  end,          \* when infrasrv's own scan has last ended
  onSince,      \* history: since when definition and scheduler have been on
  attempts      \* history: how often infrasrv's own scans have triggered each time

scans == <<phase, start, end>>
clock == <<now, scans, onSince, attempts>>

Phases == {"waiting", "list", "check", "trigger"}
IsScheduled == definition.columns["is_active"] = "on" /\ definition.columns["flag"] = "kept"
Scanning(t) == phase[t] # "waiting"

SchedulerTypeOK ==
  /\ now \in 0..Horizon
  /\ phase \in [Triggers -> Phases]
  /\ start \in [Triggers -> 0..Horizon]
  /\ end \in -Minute..Horizon
  /\ onSince \in -1..Horizon
  /\ attempts \in [Fires -> Nat]
  /\ \A t \in Triggers : phase[t] = "trigger" <=> seen[t] # NoRow

SchedulerInit ==
  /\ Init
  /\ now = 0
  /\ phase = [t \in Triggers |-> "waiting"]
  /\ start = [t \in Triggers |-> 0]
  /\ end = -Minute
  /\ onSince = IF IsScheduled THEN 0 ELSE -1
  /\ attempts = [f \in Fires |-> 0]

-----------------------------------------------------------------------------
(* scan_and_trigger_workflows                                               *)

ClockOnly == UNCHANGED vars
Past == <<onSince, attempts>>

\* A worker reads the clock when it takes the message, not when beat has sent it; after
\* an exception it takes the message again.
StartScan(t) ==
  /\ ~Scanning(t)
  /\ t = Scheduler => now >= end + Minute
  /\ phase' = [phase EXCEPT ![t] = "list"]
  /\ start' = [start EXCEPT ![t] = now]
  /\ ClockOnly /\ UNCHANGED <<now, end, Past>>

EndScan(t) ==
  /\ phase' = [phase EXCEPT ![t] = "waiting"]
  /\ IF t = Scheduler
       THEN end' = now /\ UNCHANGED start
       ELSE start' = [start EXCEPT ![t] = 0] /\ UNCHANGED end

\* get_scheduled_workflows
List(t) ==
  /\ phase[t] = "list"
  /\ IF IsScheduled
       THEN phase' = [phase EXCEPT ![t] = "check"] /\ UNCHANGED <<start, end>>
       ELSE EndScan(t)
  /\ ClockOnly /\ UNCHANGED <<now, Past>>

\* _normalize_base_time
BaseTime(t) == start[t] - (start[t] % Minute)

\* croniter's get_prev from a second after the base time.
PreviousFires(base) == {f \in Fires : f <= base /\ \A g \in Fires : g <= base => g <= f}

\* MUTANTS of Due: without the tolerance; with one that is a minute longer.
Due_Exactly(t) == {f \in PreviousFires(BaseTime(t)) : f = BaseTime(t)}
Due_Longer(t) == {f \in PreviousFires(BaseTime(t)) : BaseTime(t) - f <= 2 * Minute}

\* _cron_due; both ends of the tolerance count.
Due(t) == {f \in PreviousFires(BaseTime(t)) : BaseTime(t) - f <= Minute}

Skip(t) ==
  /\ phase[t] = "check" /\ Due(t) = {}
  /\ EndScan(t)
  /\ ClockOnly /\ UNCHANGED <<now, Past>>

\* trigger_workflow reads the definition again.
Fire(t) ==
  /\ phase[t] = "check" /\ Due(t) # {}
  /\ Look(t)
  /\ phase' = [phase EXCEPT ![t] = "trigger"]
  /\ attempts' = [f \in Fires |-> IF t = Scheduler /\ f \in Due(t) THEN attempts[f] + 1
                                                               ELSE attempts[f]]
  /\ UNCHANGED <<now, start, end, onSince>>

Trigger(t) ==
  /\ phase[t] = "trigger"
  /\ CreateRun(t)
  /\ EndScan(t)
  /\ UNCHANGED <<now, Past>>

\* An exception of the trigger is logged; only the tolerance gives the time another try.
TriggerRaises(t) ==
  /\ phase[t] = "trigger"
  /\ TriggerFails(t)
  /\ EndScan(t)
  /\ UNCHANGED <<now, Past>>

\* Time passes as long as the scans keep up with it.
Tick ==
  /\ now < Horizon
  /\ \A t \in Triggers : Scanning(t) => now - start[t] < MaxDrift
  /\ ~Scanning(Scheduler) => now - start[Scheduler] < Minute + MaxDrift
  /\ now' = now + 1
  /\ ClockOnly /\ UNCHANGED <<scans, Past>>

-----------------------------------------------------------------------------

\* Others change the definition meanwhile; what a trigger of theirs does is what a
\* scan's does, and it changes nothing here.
Others ==
  /\ \/ \E q \in Requests : RequestStep(q)
     \/ Expire
  /\ onSince' = IF ~IsScheduled' THEN -1 ELSE IF IsScheduled THEN onSince ELSE now
  /\ UNCHANGED <<now, scans, attempts>>

\* After a restart, which is the worker's too, infrasrv's own scan comes at once.
Restart ==
  /\ Crash
  /\ phase' = [t \in Triggers |-> "waiting"]
  /\ start' = [t \in Triggers |-> IF t = Scheduler THEN now ELSE 0]
  /\ end' = now - Minute
  /\ onSince' = IF IsScheduled THEN now ELSE -1
  /\ UNCHANGED <<now, attempts>>

ScanStep(t) ==
  StartScan(t) \/ List(t) \/ Skip(t) \/ Fire(t) \/ Trigger(t) \/ TriggerRaises(t)

SchedulerNext == (\E t \in Triggers : ScanStep(t)) \/ Tick \/ Others \/ Restart

SchedulerSpec == SchedulerInit /\ [][SchedulerNext]_<<vars, clock>>

-----------------------------------------------------------------------------
(* Properties                                                               *)

\* However infrasrv's own scans drift, they miss a time that the cron expression names
\* only if the next minute is another one, which they trigger instead; provided that
\* definition and scheduler have been on since before (_cron_due).
NoTimeMissed ==
  \A f \in Fires :
    onSince \in 0..f /\ now > f + Minute + 2 * MaxDrift =>
      \E g \in Fires \cap {f, f + Minute} : attempts[g] > 0

\* Infrasrv's own scans trigger a time twice at the most, and once more after a restart.
TwiceAtMost == \A f \in Fires : attempts[f] <= 2 + faults

\* How often beat's scans do, nothing limits; but however late a worker takes a message,
\* and however many of them, no scan triggers the workflow but in the minute of a time
\* that the expression names, in the next one or a scan's duration later.
OnlyAroundATime ==
  \A t \in Triggers :
    phase[t] # "trigger" /\ phase'[t] = "trigger" =>
      \E f \in Fires : now \in f..(f + 2 * Minute - 1 + MaxDrift)

\* So the triggers of one time are bounded in number as far as they are infrasrv's own,
\* and in time (_cron_due, scan_scheduled_task).
TriggersAreBounded == []TwiceAtMost /\ [][OnlyAroundATime]_<<vars, clock>>
=============================================================================
