-------------------------- MODULE ServiceRegistry --------------------------
(***************************************************************************)
(* The table of service instances and everyone who writes it:              *)
(*   public/web/server.py                     an instance registers every  *)
(*                                            30 s, deregisters at its end *)
(*   infrasrv domain/registry                 register, deregister and the *)
(*                                            cleanup, every five minutes  *)
(*   infrasrv domain/health_check             the probes, every 30 s       *)
(*   infrasrv service_operation_tracker.py    fast offline after a stop    *)
(*                                                                         *)
(* Every write is a transaction of its own; what it is based on was read   *)
(* in an earlier one.  Requests to infrasrv may be late or lost.  Nothing  *)
(* in this code keeps instance ids apart in time or addresses in space: a  *)
(* process may come back under its id, and the replicas of a service share *)
(* its network alias and port.                                             *)
(***************************************************************************)
EXTENDS Integers, FiniteSets

CONSTANTS
  Instances,   \* instance ids
  Checkers,    \* runs of the health check: the scheduled one and the API's
  NoInstance,
  Threshold,   \* CONSECUTIVE_FAILURE_THRESHOLD
  Retries,     \* HEALTH_CHECK_RETRY_COUNT
  MaxFaults    \* bound on the actions marked with Fault

ASSUME RegistryAssumption ==
  /\ NoInstance \notin Instances
  /\ Threshold \in Nat \ {0} /\ Retries \in Nat /\ MaxFaults \in Nat

VARIABLES
  proc,        \* proc[i]: the process
  deaf,        \* running instances whose health path does not answer
  heirs,       \* instances at whose host and port another one answers (too)
  stopped,     \* instances that a STOP or RESTART has ended, before the tracker knows
  registers,   \* instances with a registration on its way
  leaves,      \* instances for which deregister has been called
  row,         \* row[i] of service_instance_tbl: "deleted" is flag=1, status DOWN
  failures,    \* failures[i]: consecutive_failures, counted up to Threshold
  unhealthy,   \* rows with health_status unhealthy
  old,         \* rows whose last_heartbeat (when UP) or update_time (when DOWN) is
               \* more than 90 seconds ago
  marked,      \* calls of deregister between their two transactions
  cleaner,     \* the cleanup in progress
  checker,     \* checker[c]: the health check in progress
  faults,
  twins        \* history: instances that have come back under their id, or have run
               \* behind one address with another

process == <<proc, deaf, heirs, stopped, twins>>
table == <<row, failures, unhealthy, old>>
vars == <<process, registers, leaves, table, marked, cleaner, checker, faults>>

Rows == {"absent", "up", "down", "deleted"}
Present(i) == row[i] # "absent"
Listed(i) == row[i] \in {"up", "down"}              \* flag = 0
Resting == [soft |-> {}, hard |-> {}]
Idle == [todo |-> {}, failing |-> {}, inst |-> NoInstance, step |-> "idle", tries |-> 0]

Checks ==
  [todo : SUBSET Instances, failing : SUBSET Instances, inst : Instances \cup {NoInstance},
   step : {"idle", "probe", "mismatch", "reset", "healthy", "increment", "degraded", "unhealthy"},
   tries : 0..Retries]

TypeOK ==
  /\ proc \in [Instances -> {"new", "running", "gone"}]
  /\ deaf \subseteq {i \in Instances : proc[i] = "running"}
  /\ heirs \subseteq {i \in Instances : proc[i] = "gone"} \cup twins
  /\ stopped \cup twins \subseteq Instances
  /\ registers \subseteq Instances /\ leaves \subseteq Instances /\ marked \subseteq Instances
  /\ row \in [Instances -> Rows]
  /\ failures \in [Instances -> 0..Threshold]
  /\ unhealthy \cup old \subseteq {i \in Instances : Present(i)}
  /\ cleaner \in [soft : SUBSET Instances, hard : SUBSET Instances]
  /\ checker \in [Checkers -> Checks]
  /\ faults \in 0..MaxFaults

Init ==
  /\ proc = [i \in Instances |-> "new"]
  /\ deaf = {} /\ heirs = {} /\ stopped = {} /\ twins = {} /\ registers = {} /\ leaves = {} /\ marked = {}
  /\ row = [i \in Instances |-> "absent"]
  /\ failures = [i \in Instances |-> 0]
  /\ unhealthy = {} /\ old = {}
  /\ cleaner = Resting
  /\ checker = [c \in Checkers |-> Idle]
  /\ faults = 0

Fault == faults < MaxFaults /\ faults' = faults + 1

-----------------------------------------------------------------------------
(* Writes                                                                   *)

\* MUTANTS of Upsert: a new registration forgets the failures; a row that was deleted
\* keeps its flag.
Upsert_ResetFailures(i) ==
  /\ row' = [row EXCEPT ![i] = "up"]
  /\ failures' = [failures EXCEPT ![i] = 0]
  /\ unhealthy' = unhealthy \ {i}
  /\ old' = old \ {i}
Upsert_KeepFlag(i) ==
  /\ row' = [row EXCEPT ![i] = IF @ = "deleted" THEN @ ELSE "up"]
  /\ unhealthy' = unhealthy \ {i}
  /\ old' = old \ {i}
  /\ UNCHANGED failures

\* upsert_instance: consecutive_failures of an existing row stays.
Upsert(i) ==
  /\ row' = [row EXCEPT ![i] = "up"]
  /\ unhealthy' = unhealthy \ {i}
  /\ old' = old \ {i}
  /\ UNCHANGED failures

\* soft_delete_instance: whatever the row has become since the caller read it.
SoftDelete(i) ==
  /\ row' = [row EXCEPT ![i] = IF Present(i) THEN "deleted" ELSE "absent"]
  /\ old' = old \ {i}
  /\ UNCHANGED <<failures, unhealthy>>

\* An update of a DOWN row moves its update_time.
Touched(i) == old' = IF row[i] = "down" THEN old \ {i} ELSE old

-----------------------------------------------------------------------------
(* The instance (AppServer)                                                 *)

ClientOnly == UNCHANGED <<table, marked, cleaner, checker>>

Start(i) ==
  /\ proc[i] \in {"new", "gone"}
  /\ proc' = [proc EXCEPT ![i] = "running"]
  /\ twins' = IF proc[i] = "gone" THEN twins \cup {i} ELSE twins
  /\ ClientOnly /\ UNCHANGED <<deaf, heirs, stopped, registers, leaves, faults>>

Keepalive(i) ==
  /\ proc[i] = "running" /\ i \notin registers
  /\ registers' = registers \cup {i}
  /\ ClientOnly /\ UNCHANGED <<process, leaves, faults>>

\* The process may have ended because of an operation on the service.
Ends(i) ==
  /\ proc[i] = "running"
  /\ proc' = [proc EXCEPT ![i] = "gone"]
  /\ deaf' = deaf \ {i}
  /\ stopped' \in {stopped, stopped \cup {i}}
  /\ UNCHANGED <<heirs, twins>>

\* on_shutdown: the keepalive is cancelled, although its last request may be on its
\* way, and the instance is deregistered.
Stop(i) ==
  /\ Ends(i)
  /\ leaves' = leaves \cup {i}
  /\ ClientOnly /\ UNCHANGED <<registers, faults>>

Kill(i) ==
  /\ Ends(i)
  /\ ClientOnly /\ UNCHANGED <<registers, leaves, faults>>

\* The network or the load keeps probes from being answered, for a while.
Hearing(i) ==
  /\ proc[i] = "running"
  /\ deaf' = IF i \in deaf THEN deaf \ {i} ELSE deaf \cup {i}
  /\ ClientOnly /\ UNCHANGED <<proc, heirs, stopped, twins, registers, leaves, faults>>

\* Another instance starts or ends that has the same address: a successor, or a replica of
\* the service behind the same alias.
Inherit(i) ==
  /\ proc[i] # "new"
  /\ heirs' = IF i \in heirs THEN heirs \ {i} ELSE heirs \cup {i}
  /\ twins' = IF proc[i] = "running" THEN twins \cup {i} ELSE twins
  /\ ClientOnly /\ UNCHANGED <<proc, deaf, stopped, registers, leaves, faults>>

LoseRegistration(i) ==
  /\ i \in registers /\ registers' = registers \ {i}
  /\ Fault
  /\ ClientOnly /\ UNCHANGED <<process, leaves>>

LoseDeregistration(i) ==
  /\ i \in leaves /\ leaves' = leaves \ {i}
  /\ Fault
  /\ ClientOnly /\ UNCHANGED <<process, registers>>

-----------------------------------------------------------------------------
(* ServiceRegistry                                                          *)

HandlerOnly == UNCHANGED <<process, cleaner, checker, faults>>

Register(i) ==
  /\ i \in registers /\ registers' = registers \ {i}
  /\ Upsert(i)
  /\ HandlerOnly /\ UNCHANGED <<leaves, marked>>

\* The first transaction of deregister: mark_instance_status.
MarkDown(i) ==
  /\ i \in leaves /\ leaves' = leaves \ {i}
  /\ marked' = marked \cup {i}
  /\ row' = [row EXCEPT ![i] = IF @ = "up" THEN "down" ELSE @]
  /\ old' = old \ {i}
  /\ HandlerOnly /\ UNCHANGED <<registers, failures, unhealthy>>

\* The second one.
Deregister(i) ==
  /\ i \in marked /\ marked' = marked \ {i}
  /\ SoftDelete(i)
  /\ HandlerOnly /\ UNCHANGED <<registers, leaves>>

ByOperation == UNCHANGED <<proc, deaf, heirs, twins, registers, table, marked, cleaner, checker,
                           faults>>

\* MUTANT of FastOffline: the operation need not have succeeded.
FastOffline_Early(i) ==
  /\ row[i] = "up" /\ leaves' = leaves \cup {i}
  /\ UNCHANGED stopped /\ ByOperation

\* _handle_post_sync_cleanup: an operation that has ended i has succeeded.  Whether i has
\* come back since is not asked.
FastOffline(i) ==
  /\ i \in stopped /\ stopped' = stopped \ {i}
  /\ leaves' = IF row[i] = "up" THEN leaves \cup {i} ELSE leaves
  /\ ByOperation

CleanerOnly == UNCHANGED <<process, registers, leaves, marked, checker>>

\* MUTANTS of Look: a row that is UP is always stale, or never.
Look_Everything ==
  /\ cleaner = Resting
  /\ cleaner' = [soft |-> {i \in Instances : row[i] = "up"}, hard |-> {i \in old : row[i] = "down"}]
  /\ CleanerOnly /\ UNCHANGED <<table, faults>>
Look_UpIsAlive ==
  /\ cleaner = Resting
  /\ cleaner' = [soft |-> {}, hard |-> {i \in old : row[i] = "down"}]
  /\ CleanerOnly /\ UNCHANGED <<table, faults>>

\* cleanup_dead_instances reads the rows with flag = 0.
Look ==
  /\ cleaner = Resting
  /\ cleaner' = [soft |-> {i \in old : row[i] = "up"},
                  hard |-> {i \in old : row[i] = "down"}]
  /\ CleanerOnly /\ UNCHANGED <<table, faults>>

DeleteStale(i) ==
  /\ i \in cleaner.soft
  /\ cleaner' = [cleaner EXCEPT !.soft = @ \ {i}]
  /\ SoftDelete(i)
  /\ CleanerOnly /\ UNCHANGED faults

\* An error is logged and the instance left out.
DeleteStaleFails(i) ==
  /\ i \in cleaner.soft
  /\ cleaner' = [cleaner EXCEPT !.soft = @ \ {i}]
  /\ Fault
  /\ CleanerOnly /\ UNCHANGED table

\* hard_delete_instances_by_ids, one statement, whatever the rows have become.
DeleteDown ==
  /\ cleaner.hard # {} /\ cleaner.soft = {}
  /\ cleaner' = Resting
  /\ row' = [i \in Instances |-> IF i \in cleaner.hard THEN "absent" ELSE row[i]]
  /\ failures' = [i \in Instances |-> IF i \in cleaner.hard THEN 0 ELSE failures[i]]
  /\ unhealthy' = unhealthy \ cleaner.hard
  /\ old' = old \ cleaner.hard
  /\ CleanerOnly /\ UNCHANGED faults

DeleteDownFails ==
  /\ cleaner.hard # {} /\ cleaner.soft = {}
  /\ cleaner' = Resting
  /\ Fault
  /\ CleanerOnly /\ UNCHANGED table

CleanerStep ==
  \/ Look \/ DeleteDown \/ DeleteDownFails
  \/ \E i \in Instances : DeleteStale(i) \/ DeleteStaleFails(i)

-----------------------------------------------------------------------------
(* HealthCheckDomain                                                        *)

CheckerOnly == UNCHANGED <<process, registers, leaves, marked, cleaner>>
Checking(c, i, step) == checker[c].inst = i /\ checker[c].step = step

Goes(c, step) == checker' = [checker EXCEPT ![c].step = step]

\* The attempts are over; what was listed of the instance is not needed any more.
Concludes(c, step) ==
  checker' = [checker EXCEPT ![c] =
    [@ EXCEPT !.step = step, !.tries = 0, !.failing = checker[c].failing \ {checker[c].inst}]]

\* The check of one instance is over; after the last one so is the round.
Done(c) ==
  checker' = [checker EXCEPT ![c] =
    IF @.todo = {} THEN Idle ELSE [@ EXCEPT !.inst = NoInstance, !.step = "idle", !.tries = 0]]

\* health_check_all_instances: what was read of an instance is used when its turn comes.
List(c) ==
  /\ checker[c] = Idle
  /\ checker' = [checker EXCEPT ![c].todo = {i \in Instances : row[i] = "up"},
                                ![c].failing = {i \in Instances : row[i] = "up" /\ failures[i] > 0}]
  /\ CheckerOnly /\ UNCHANGED <<table, faults>>

Begin(c, i) ==
  /\ checker[c].step = "idle" /\ i \in checker[c].todo
  /\ checker' = [checker EXCEPT ![c].todo = @ \ {i}, ![c].inst = i, ![c].step = "probe"]
  /\ CheckerOnly /\ UNCHANGED <<table, faults>>

\* An operation on the service has run in the last five minutes, or the service is
\* expected to be down; the stop that is then requested has no route in controllersrv.
Exempt(c, i) ==
  /\ checker[c].step = "idle" /\ i \in checker[c].todo
  /\ Fault
  /\ checker' = [checker EXCEPT ![c] =
       IF @.todo = {i} THEN Idle ELSE [@ EXCEPT !.todo = checker[c].todo \ {i}]]
  /\ CheckerOnly /\ UNCHANGED table

\* The attempt has failed: another one, or the check has failed.
TryAgain(c) ==
  IF checker[c].tries < Retries
    THEN checker' = [checker EXCEPT ![c].step = "probe", ![c].tries = @ + 1]
    ELSE Concludes(c, "increment")

Answers(i) == proc[i] = "running" /\ i \notin deaf

\* One HTTP request to the address in the row: the instance or another one answers, or
\* nobody does.
Probe(c, i) ==
  /\ Checking(c, i, "probe")
  /\ \/ Answers(i) /\ Concludes(c, IF i \in checker[c].failing THEN "reset" ELSE "healthy")
     \/ i \in heirs /\ Goes(c, "mismatch")
     \/ ~Answers(i) /\ (i \in heirs => i \in deaf) /\ TryAgain(c)
  /\ CheckerOnly /\ UNCHANGED <<table, faults>>

\* Another instance has answered: _handle_instance_id_mismatch.
Mismatch(c, i) ==
  /\ Checking(c, i, "mismatch")
  /\ SoftDelete(i)
  /\ TryAgain(c)
  /\ CheckerOnly /\ UNCHANGED faults

Reset(c, i) ==
  /\ Checking(c, i, "reset")
  /\ Goes(c, "healthy")
  /\ failures' = IF Listed(i) THEN [failures EXCEPT ![i] = 0] ELSE failures
  /\ Touched(i)
  /\ CheckerOnly /\ UNCHANGED <<row, unhealthy, faults>>

\* The health status and the heartbeat, of a row that is not deleted.
Healthy(c, i) ==
  /\ Checking(c, i, "healthy")
  /\ Done(c)
  /\ IF Listed(i)
       THEN unhealthy' = unhealthy \ {i} /\ old' = old \ {i}
       ELSE UNCHANGED <<unhealthy, old>>
  /\ CheckerOnly /\ UNCHANGED <<row, failures, faults>>

Increment(c, i) ==
  /\ Checking(c, i, "increment")
  /\ IF Listed(i)
       THEN LET n == IF failures[i] < Threshold THEN failures[i] + 1 ELSE Threshold
            IN  /\ failures' = [failures EXCEPT ![i] = n]
                /\ Goes(c, IF n >= Threshold THEN "unhealthy" ELSE "degraded")
       ELSE UNCHANGED failures /\ Done(c)
  /\ Touched(i)
  /\ CheckerOnly /\ UNCHANGED <<row, unhealthy, faults>>

\* The restart that is requested with UNHEALTHY has no route in controllersrv.
Judge(c, i) ==
  /\ checker[c].inst = i /\ checker[c].step \in {"degraded", "unhealthy"}
  /\ Done(c)
  /\ IF Listed(i)
       THEN unhealthy' = IF checker[c].step = "unhealthy" THEN unhealthy \cup {i} ELSE unhealthy \ {i}
       ELSE UNCHANGED unhealthy
  /\ Touched(i)
  /\ CheckerOnly /\ UNCHANGED <<row, failures, faults>>

CheckerStep(c) ==
  \/ List(c)
  \/ \E i \in Instances :
       \/ Begin(c, i) \/ Exempt(c, i) \/ Probe(c, i) \/ Mismatch(c, i)
       \/ Reset(c, i) \/ Healthy(c, i) \/ Increment(c, i) \/ Judge(c, i)

-----------------------------------------------------------------------------
(* Time and faults                                                          *)

\* 90 seconds have passed since the row was written.  While the instance runs, that
\* takes three registrations that fail.
Age(i) ==
  /\ Listed(i) /\ i \notin old
  /\ old' = old \cup {i}
  /\ IF proc[i] = "running" THEN Fault ELSE UNCHANGED faults
  /\ UNCHANGED <<process, registers, leaves, row, failures, unhealthy, marked, cleaner,
                 checker>>

\* infrasrv restarts.
Crash ==
  /\ Fault
  /\ marked' = {} /\ cleaner' = Resting
  /\ checker' = [c \in Checkers |-> Idle]
  /\ UNCHANGED <<process, registers, leaves, table>>

Next ==
  \/ \E i \in Instances :
       \/ Start(i) \/ Keepalive(i) \/ Stop(i) \/ Kill(i) \/ Hearing(i) \/ Inherit(i)
       \/ LoseRegistration(i) \/ LoseDeregistration(i)
       \/ Register(i) \/ MarkDown(i) \/ Deregister(i) \/ FastOffline(i) \/ Age(i)
  \/ CleanerStep
  \/ \E c \in Checkers : CheckerStep(c)
  \/ Crash

Spec == Init /\ [][Next]_vars

\* An instance goes on registering, a request that is not lost arrives, time passes for
\* a row nobody refreshes, and the scheduler runs its jobs.
FairSpec ==
  /\ Spec
  /\ \A i \in Instances :
       /\ WF_vars(Keepalive(i)) /\ WF_vars(Register(i))
       /\ WF_vars(proc[i] = "gone" /\ Age(i))
  /\ WF_vars(CleanerStep)
  /\ \A c \in Checkers : WF_vars(CheckerStep(c))

-----------------------------------------------------------------------------
(* Properties                                                               *)

\* A registered instance that has its id and its address for itself stays listed while it
\* runs, as long as requests arrive and nothing restarts: neither a deregistration, nor a
\* check that has found a successor, nor a cleanup is about it (cleanup_dead_instances,
\* _handle_instance_id_mismatch, _handle_post_sync_cleanup).  A replica behind the same
\* alias or a restart under the same id takes it off the list.
StaysListed ==
  faults = 0 =>
    \A i \in Instances \ twins : proc[i] = "running" => row[i] \in {"absent", "up"}

\* With faults, such an instance leaves the list only through a cleanup that has found its
\* heartbeat to be out of date, and its row and failures are kept for its return
\* (soft_delete_instance, hard_delete_instances_by_ids).
DelistedOnlyWhenStale ==
  [][\A i \in Instances \ twins : proc[i] = "running" =>
       /\ row[i] = "up" /\ row'[i] # "up" => i \in cleaner.soft
       /\ Present(i) => row'[i] \in {"up", "deleted"}]_vars

\* Whoever deletes its row, from an outdated reading, as a former life's or because a
\* replica has answered, a running instance is listed again (upsert_instance,
\* _registry_keepalive_loop).
LiveIsListed == \A i \in Instances : proc[i] = "running" ~> row[i] = "up" \/ proc[i] = "gone"

\* An instance that has ended for good disappears from the list and stays away, also if it
\* was killed, its deregistration is lost, or its last registration arrives after it
\* (cleanup_dead_instances).
DeadIsDelisted == \A i \in Instances : <>[](proc[i] = "gone") => <>[](row[i] # "up")

\* An instance that registers on time but does not answer any more is marked as
\* unhealthy, however often it registers in between, unless another one answers for it
\* (_check_single_instance).
DeafIsNoticed ==
  \A i \in Instances :
    <>[](proc[i] = "running" /\ i \in deaf /\ i \notin heirs) => []<>(i \in unhealthy)
=============================================================================
