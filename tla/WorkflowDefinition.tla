------------------------- MODULE WorkflowDefinition -------------------------
(***************************************************************************)
(* One workflow definition of infrasrv, its versions and the runs that are *)
(* started from it:                                                        *)
(*   domain/workflow/workflow_domain.py        the Redis lock              *)
(*   infrastructure/db/operate/workflow_op.py  the transactions            *)
(*   application/workflow/workflow_app.py      trigger_workflow            *)
(*                                                                         *)
(* A change reads the row, writes it with the next version number and adds *)
(* a snapshot under that number, in one transaction under a lock.  The     *)
(* lock expires after five minutes whether or not its holder has finished; *)
(* what then keeps two changes apart is the unique index of the snapshots. *)
(***************************************************************************)
EXTENDS Integers, FiniteSets

CONSTANTS
  Columns, Unsaved, Original, Requests, Wanted,   \* see VersionedDefinition
  Values,       \* what a column may hold
  Triggers,     \* callers of trigger_workflow
  Nobody, NoRow,
  MaxFaults     \* bound on crashes, on triggers that fail and on locks that expire
                \* under their holder

ASSUME DefinitionAssumption ==
  /\ Unsaved \subseteq Columns
  /\ Original \in [Columns -> Values]
  /\ \A q \in Requests :
       IF "target" \in DOMAIN Wanted[q] THEN Wanted[q].target \in Nat
         ELSE \E C \in SUBSET Columns : Wanted[q].sets \in [C -> Values]
  /\ Nobody \notin Requests
  /\ NoRow \notin [version : Nat, columns : [Columns -> Values]]
  /\ MaxFaults \in Nat

VARIABLES
  definition,   \* the row: version and columns
  snapshots,    \* workflow_definition_version_tbl
  lock,         \* holder of workflow_update:{id} in Redis, Nobody if free
  pc,           \* pc[q]: where the request is; it waits for the lock, or to be made
  read,         \* read[q]: the row its transaction has read
  seen,         \* seen[t]: the definition trigger_workflow has read
  runs,         \* definition_version and definition_snapshot of the runs
  overrun,      \* history: a lock has expired under its holder
  faults

row == <<definition, snapshots>>
change == <<lock, pc, read>>
trigger == <<seen, runs>>
vars == <<row, change, trigger, overrun, faults>>

\* get_workflow_version
VersionColumns(n) == (CHOOSE s \in snapshots : s.version = n).columns

Versioned == INSTANCE VersionedDefinition WITH
  version <- definition.version,
  columns <- definition.columns,
  history <- [n \in 1..definition.version |-> VersionColumns(n)]

Rows == [version : Nat \ {0}, columns : [Columns -> Values]]
Snapshots == [version : Nat \ {0}, columns : [Columns \ Unsaved -> Values]]
InTransaction == {"locked", "read"}
Unreleased == InTransaction \cup {"done", "missing", "conflict"}

TypeOK ==
  /\ definition \in Rows
  /\ snapshots \subseteq Snapshots
  /\ lock \in Requests \cup {Nobody}
  /\ pc \in [Requests -> {"waiting", "answered", "refused", "error", "dead"} \cup Unreleased]
  /\ read \in [Requests -> Rows \cup {NoRow}]
  /\ seen \in [Triggers -> Rows \cup {NoRow}]
  /\ runs \subseteq Snapshots
  /\ overrun \in BOOLEAN
  /\ faults \in 0..MaxFaults

SnapshotOf(r) == [version |-> r.version, columns |-> Versioned!Saved(r.columns)]

\* create_workflow_definition
Init ==
  /\ definition = [version |-> 1, columns |-> Original]
  /\ snapshots = {SnapshotOf(definition)}
  /\ lock = Nobody
  /\ pc = [q \in Requests |-> "waiting"]
  /\ read = [q \in Requests |-> NoRow]
  /\ seen = [t \in Triggers |-> NoRow]
  /\ runs = {}
  /\ overrun = FALSE
  /\ faults = 0

-----------------------------------------------------------------------------
(* update_workflow_definition, rollback_workflow_definition                 *)

Goes(q, from, to) ==
  /\ pc[q] = from
  /\ pc' = [pc EXCEPT ![q] = to]
  /\ UNCHANGED <<trigger, overrun, faults>>

\* MUTANT of Acquire: the lock is only waited for, not required.
Acquire_WithoutLock(q) ==
  /\ Goes(q, "waiting", "locked")
  /\ lock' = q
  /\ UNCHANGED <<row, read>>

Acquire(q) ==
  /\ lock = Nobody
  /\ Goes(q, "waiting", "locked")
  /\ lock' = q
  /\ UNCHANGED <<row, read>>

\* Others have had the lock for the whole blocking_timeout: 409.
Refuse(q) ==
  /\ lock # Nobody
  /\ Goes(q, "waiting", "refused")
  /\ UNCHANGED <<row, lock, read>>

Exists(n) == \E s \in snapshots : s.version = n

\* A rollback reads its target first; snapshots are never changed.
Read(q) ==
  /\ IF Versioned!IsRollback(q) /\ ~Exists(Wanted[q].target)
       THEN Goes(q, "locked", "missing") /\ UNCHANGED read
       ELSE Goes(q, "locked", "read") /\ read' = [read EXCEPT ![q] = definition]
  /\ UNCHANGED <<row, lock>>

\* What the request writes into the row.
Assigned(q) ==
  IF Versioned!IsRollback(q)
    THEN VersionColumns(Wanted[q].target)
    ELSE Wanted[q].sets

\* MUTANT of Commit: the snapshot table has no unique index.
Commit_NoIndex(q) ==
  /\ Goes(q, "read", "done")
  /\ definition' = [version |-> read[q].version + 1,
                    columns |-> Versioned!Merge(definition.columns, Assigned(q))]
  /\ snapshots' = snapshots \cup {SnapshotOf(definition')}
  /\ UNCHANGED <<lock, read>>

\* UPDATE, INSERT and COMMIT: the row lock keeps others out from the first to the last.
\* The version is computed from the row that was read, the other columns are those the
\* row has by now; of the object that RETURNING yields the session may still know the
\* columns as they were read.
Commit(q) ==
  /\ Goes(q, "read", "done")
  /\ ~Exists(read[q].version + 1)
  /\ definition' = [version |-> read[q].version + 1,
                    columns |-> Versioned!Merge(definition.columns, Assigned(q))]
  /\ \E known \in {definition.columns, read[q].columns} :
       snapshots' = snapshots \cup
         {SnapshotOf([definition' EXCEPT !.columns = Versioned!Merge(known, Assigned(q))])}
  /\ UNCHANGED <<lock, read>>

\* The unique index (workflow_id, version) aborts the transaction.
Conflict(q) ==
  /\ Goes(q, "read", "conflict")
  /\ Exists(read[q].version + 1)
  /\ UNCHANGED <<row, lock, read>>

\* lock.locked() is a coroutine and always true, so the lock is released in any case;
\* if it is not the request's any more that raises, and the answer is an error although
\* the change may have been made.
Release(q) ==
  /\ pc[q] \in {"done", "missing", "conflict"}
  /\ Goes(q, pc[q], IF lock # q \/ pc[q] = "conflict" THEN "error"
                    ELSE IF pc[q] = "missing" THEN "refused" ELSE "answered")
  /\ lock' = IF lock = q THEN Nobody ELSE lock
  /\ UNCHANGED <<row, read>>

RequestStep(q) ==
  Acquire(q) \/ Refuse(q) \/ Read(q) \/ Commit(q) \/ Conflict(q) \/ Release(q)

-----------------------------------------------------------------------------
(* trigger_workflow                                                         *)

\* The definition is read whether or not it is active or deleted.
Look(t) ==
  /\ seen[t] = NoRow
  /\ seen' = [seen EXCEPT ![t] = definition]
  /\ UNCHANGED <<row, change, runs, overrun, faults>>

\* MUTANT of CreateRun: the version number is read again.
CreateRun_NumberNow(t) ==
  /\ seen[t] # NoRow
  /\ runs' = runs \cup {SnapshotOf([seen[t] EXCEPT !.version = definition.version])}
  /\ seen' = [seen EXCEPT ![t] = NoRow]
  /\ UNCHANGED <<row, change, overrun, faults>>

\* All nodes of the run are executed from this snapshot.
CreateRun(t) ==
  /\ seen[t] # NoRow
  /\ runs' = runs \cup {SnapshotOf(seen[t])}
  /\ seen' = [seen EXCEPT ![t] = NoRow]
  /\ UNCHANGED <<row, change, overrun, faults>>

\* An exception before the run is committed.
TriggerFails(t) ==
  /\ seen[t] # NoRow
  /\ faults < MaxFaults /\ faults' = faults + 1
  /\ seen' = [seen EXCEPT ![t] = NoRow]
  /\ UNCHANGED <<row, change, runs, overrun>>

TriggerStep(t) == Look(t) \/ CreateRun(t) \/ TriggerFails(t)

-----------------------------------------------------------------------------
(* Faults                                                                   *)

Holds(q) == lock = q /\ pc[q] \in Unreleased

\* LOCK_EXPIRE_SECONDS after it was acquired.
Expire ==
  /\ lock # Nobody
  /\ lock' = Nobody
  /\ IF \E q \in Requests : Holds(q)
       THEN overrun' = TRUE /\ faults < MaxFaults /\ faults' = faults + 1
       ELSE UNCHANGED <<overrun, faults>>
  /\ UNCHANGED <<row, pc, read, trigger>>

\* infrasrv restarts; PostgreSQL aborts its transactions, Redis keeps the lock.
Crash ==
  /\ faults < MaxFaults
  /\ faults' = faults + 1
  /\ pc' = [q \in Requests |-> IF pc[q] \in Unreleased THEN "dead" ELSE pc[q]]
  /\ seen' = [t \in Triggers |-> NoRow]
  /\ UNCHANGED <<row, lock, read, runs, overrun>>

Next ==
  \/ \E q \in Requests : RequestStep(q)
  \/ \E t \in Triggers : TriggerStep(t)
  \/ Expire \/ Crash

Spec == Init /\ [][Next]_vars

-----------------------------------------------------------------------------
(* Properties                                                               *)

\* Changes are made one after the other, each to what the one before has left, and each
\* under a number of its own, even if the lock expires while its holder is still writing
\* and the next one starts (update_workflow_definition, rollback_workflow_definition).
Implements == Versioned!Spec

\* What a run is started with can be looked up as the version it names, although the
\* definition may have been changed between its reading and the run's creation
\* (trigger_workflow).
RunMatchesVersion == runs \subseteq snapshots

\* A change is only turned down for another one's sake if a lock has expired under its
\* holder: otherwise the lock alone keeps them apart (_acquire_workflow_lock).
ConflictNeedsOverrun == (\E q \in Requests : pc[q] \in {"conflict", "error"}) => overrun
=============================================================================
