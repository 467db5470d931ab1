----------------------- MODULE WorkflowSchedulerProofs -----------------------
(***************************************************************************)
(* Proofs about WorkflowDefinition, for all columns, requests and triggers *)
(* and any number of crashes and expired locks, and about                  *)
(* WorkflowScheduler, for all cron times, drifts and clocks.               *)
(*                                                                         *)
(* The snapshots are a chain without gaps that ends at the row.  A change  *)
(* whose number is free has read the last row, so it continues the chain.  *)
(*                                                                         *)
(* What the scheduler does to the definition is what any trigger may do,   *)
(* so the theorems about WorkflowDefinition hold of it.  A time is due in  *)
(* a window of two minutes, and two scans start at least a minute apart    *)
(* unless a restart comes between them.                                    *)
(***************************************************************************)
EXTENDS WorkflowScheduler, TLAPS

USE DefinitionAssumption

\* Every version up to the row's has one snapshot, the last one is of the row itself.
Chain ==
  /\ \A s1, s2 \in snapshots : s1.version = s2.version => s1 = s2
  /\ \A n \in 1..definition.version : Exists(n)
  /\ \A s \in snapshots : s.version <= definition.version
  /\ SnapshotOf(definition) \in snapshots

\* A transaction has read the row or one that was there before; its target exists.
ReadsAreOld ==
  \A q \in Requests : pc[q] = "read" =>
    /\ read[q] \in Rows
    /\ read[q].version <= definition.version
    /\ read[q].version = definition.version => read[q] = definition
    /\ Versioned!IsRollback(q) => Exists(Wanted[q].target)

SeenIsVersion == \A t \in Triggers : seen[t] # NoRow => SnapshotOf(seen[t]) \in snapshots

\* The inductive invariant.
IInv == TypeOK /\ Chain /\ ReadsAreOld /\ SeenIsVersion /\ RunMatchesVersion

-----------------------------------------------------------------------------
(* Helpers                                                                  *)

\* A row is no NoRow, and its snapshot is a snapshot.
LEMMA RowsAreRows ==
  /\ NoRow \notin Rows
  /\ \A r \in Rows : SnapshotOf(r) \in Snapshots /\ SnapshotOf(r).version = r.version
<1>1. Rows \subseteq [version : Nat, columns : [Columns -> Values]]
  BY DEF Rows
<1>2. \A r \in Rows : SnapshotOf(r) \in Snapshots
  BY DEF Rows, Snapshots, SnapshotOf, Versioned!Saved
<1> QED BY <1>1, <1>2 DEF SnapshotOf

\* Writing values of some columns into a row yields a row's columns.
LEMMA MergeType ==
  ASSUME NEW cols \in [Columns -> Values], NEW C \in SUBSET Columns, NEW v \in [C -> Values]
  PROVE  Versioned!Merge(cols, v) \in [Columns -> Values]
BY DEF Versioned!Merge

\* Looking a version up finds the snapshot that has its number.
LEMMA VersionFound ==
  ASSUME Chain, NEW s \in snapshots
  PROVE  VersionColumns(s.version) = s.columns
<1>1. (CHOOSE x \in snapshots : x.version = s.version) = s
  BY DEF Chain
<1> QED BY <1>1 DEF VersionColumns

\* What a request assigns is a value for each of some columns.
LEMMA AssignedType ==
  ASSUME TypeOK, Chain, NEW q \in Requests,
         Versioned!IsRollback(q) => Exists(Wanted[q].target)
  PROVE  \E C \in SUBSET Columns : Assigned(q) \in [C -> Values]
<1>1. CASE Versioned!IsRollback(q)
  <2>1. PICK s \in snapshots : s.version = Wanted[q].target
    BY <1>1 DEF Exists
  <2>2. Assigned(q) = s.columns
    BY <1>1, <2>1, VersionFound DEF Assigned
  <2>3. s.columns \in [Columns \ Unsaved -> Values]
    BY DEF TypeOK, Snapshots
  <2> QED BY <2>2, <2>3
<1>2. CASE ~Versioned!IsRollback(q)
  BY <1>2 DEF Assigned, Versioned!IsRollback
<1> QED BY <1>1, <1>2

\* If the next number is free, the row that was read is the row.
LEMMA FreeNumberIsNext ==
  ASSUME IInv, NEW q \in Requests, pc[q] = "read", ~Exists(read[q].version + 1)
  PROVE  read[q] = definition
<1>1. read[q].version \in Nat /\ definition.version \in Nat
  BY DEF IInv, TypeOK, ReadsAreOld, Rows
<1>2. ~(read[q].version + 1 \in 1..definition.version)
  BY DEF IInv, Chain
<1>3. read[q].version <= definition.version
  BY DEF IInv, ReadsAreOld
<1>4. read[q].version = definition.version
  BY <1>1, <1>2, <1>3
<1> QED BY <1>4 DEF IInv, ReadsAreOld

\* So a commit adds one row and the snapshot of it.
LEMMA CommitAppends ==
  ASSUME IInv, NEW q \in Requests, Commit(q)
  PROVE  /\ definition' \in Rows
         /\ definition' = [version |-> definition.version + 1,
                           columns |-> Versioned!Merge(definition.columns, Assigned(q))]
         /\ snapshots' = snapshots \cup {SnapshotOf(definition')}
         /\ ~Exists(definition.version + 1)
         /\ Versioned!IsRollback(q) => Exists(Wanted[q].target)
<1>1. pc[q] = "read" /\ ~Exists(read[q].version + 1)
  BY DEF Commit, Goes
<1>2. read[q] = definition
  BY <1>1, FreeNumberIsNext
<1>3. definition' = [version |-> definition.version + 1,
                     columns |-> Versioned!Merge(definition.columns, Assigned(q))]
  BY <1>2 DEF Commit
<1>4. snapshots' = snapshots \cup {SnapshotOf(definition')}
  <2>1. PICK known \in {definition.columns, read[q].columns} : snapshots' = snapshots \cup
          {SnapshotOf([definition' EXCEPT !.columns = Versioned!Merge(known, Assigned(q))])}
    BY DEF Commit
  <2>2. known = definition.columns
    BY <1>2
  <2>3. [definition' EXCEPT !.columns = Versioned!Merge(known, Assigned(q))] = definition'
    BY <1>3, <2>2
  <2> QED BY <2>1, <2>3
<1>5. Versioned!IsRollback(q) => Exists(Wanted[q].target)
  BY <1>1 DEF IInv, ReadsAreOld
<1>6. Versioned!Merge(definition.columns, Assigned(q)) \in [Columns -> Values]
  BY <1>5, AssignedType, MergeType DEF IInv, TypeOK, Rows
<1>7. definition' \in Rows
  BY <1>3, <1>6 DEF IInv, TypeOK, Rows
<1> QED BY <1>1, <1>2, <1>3, <1>4, <1>5, <1>7

-----------------------------------------------------------------------------
(* The invariant                                                            *)

LEMMA InitIInv == Init => IInv
<1> SUFFICES ASSUME Init PROVE IInv
  OBVIOUS
<1>1. definition \in Rows /\ definition.version = 1
  BY DEF Init, Rows
<1>2. snapshots = {SnapshotOf(definition)} /\ SnapshotOf(definition) \in Snapshots
  BY <1>1, RowsAreRows DEF Init
<1>3. TypeOK
  <2>1. definition \in Rows /\ snapshots \subseteq Snapshots /\ lock \in Requests \cup {Nobody}
    BY <1>1, <1>2 DEF Init
  <2>2. pc \in [Requests -> {"waiting"}] /\ read \in [Requests -> Rows \cup {NoRow}]
    BY DEF Init
  <2>3. seen \in [Triggers -> Rows \cup {NoRow}] /\ runs \subseteq Snapshots
    BY DEF Init
  <2>4. overrun \in BOOLEAN
    BY Zenon DEF Init
  <2>5. faults \in 0..MaxFaults
    BY DEF Init
  <2> QED BY <2>1, <2>2, <2>3, <2>4, <2>5 DEF TypeOK
<1>4. Chain
  BY <1>1, <1>2, RowsAreRows DEF Chain, Exists
<1>5. ReadsAreOld /\ SeenIsVersion /\ RunMatchesVersion
  BY DEF Init, ReadsAreOld, SeenIsVersion, RunMatchesVersion
<1> QED BY <1>3, <1>4, <1>5 DEF IInv

\* Steps that change neither row nor snapshots keep the chain.
LEMMA ChainStays ==
  ASSUME IInv, UNCHANGED row
  PROVE  Chain' /\ \A n : Exists(n)' = Exists(n)
BY DEF IInv, Chain, row, Exists, SnapshotOf, Versioned!Saved

LEMMA CommitIInv ==
  ASSUME IInv, NEW q \in Requests, Commit(q)
  PROVE  IInv'
<1>1. /\ definition' \in Rows
      /\ definition'.version = definition.version + 1
      /\ snapshots' = snapshots \cup {SnapshotOf(definition')}
      /\ ~Exists(definition.version + 1)
  BY CommitAppends
<1>2. SnapshotOf(definition') \in Snapshots /\ SnapshotOf(definition').version = definition.version + 1
  BY <1>1, RowsAreRows
<1>3. definition.version \in Nat \ {0}
  BY DEF IInv, TypeOK, Rows
<1>4. TypeOK'
  BY <1>1, <1>2 DEF IInv, TypeOK, Commit, Goes, trigger, Unreleased, InTransaction
<1>5. Chain'
  <2>1. \A s1, s2 \in snapshots' : s1.version = s2.version => s1 = s2
    BY <1>1, <1>2 DEF IInv, Chain, Exists
  <2>2. \A n \in 1..definition'.version : Exists(n)'
    BY <1>1, <1>2, <1>3 DEF IInv, Chain, Exists
  <2>3. \A s \in snapshots' : s.version <= definition'.version
    BY <1>1, <1>2, <1>3 DEF IInv, Chain, TypeOK, Snapshots
  <2>4. SnapshotOf(definition)' \in snapshots'
    BY <1>1 DEF SnapshotOf, Versioned!Saved
  <2> QED BY <2>1, <2>2, <2>3, <2>4 DEF Chain
<1>6. ReadsAreOld'
  <2> SUFFICES ASSUME NEW p \in Requests, pc'[p] = "read"
               PROVE  /\ read'[p] \in Rows
                      /\ read'[p].version <= definition'.version
                      /\ read'[p].version = definition'.version => read'[p] = definition'
                      /\ Versioned!IsRollback(p) => Exists(Wanted[p].target)'
    BY DEF ReadsAreOld, Versioned!IsRollback
  <2>1. pc[p] = "read" /\ read' = read
    BY DEF Commit, Goes, IInv, TypeOK
  <2>2. /\ read[p] \in Rows /\ read[p].version <= definition.version
        /\ Versioned!IsRollback(p) => Exists(Wanted[p].target)
    BY <2>1 DEF IInv, ReadsAreOld
  <2>3. read[p].version \in Nat /\ read[p].version < definition'.version
    BY <1>1, <1>3, <2>2 DEF Rows
  <2> QED BY <1>1, <1>3, <2>1, <2>2, <2>3 DEF Exists
<1>7. SeenIsVersion' /\ RunMatchesVersion'
  BY <1>1 DEF IInv, SeenIsVersion, RunMatchesVersion, Commit, Goes, trigger, SnapshotOf, Versioned!Saved
<1> QED BY <1>4, <1>5, <1>6, <1>7 DEF IInv

\* The other steps of a request.
LEMMA RequestIInv ==
  ASSUME IInv, NEW q \in Requests,
         Acquire(q) \/ Refuse(q) \/ Read(q) \/ Conflict(q) \/ Release(q)
  PROVE  IInv'
<1>1. UNCHANGED <<row, trigger>>
  BY DEF Acquire, Refuse, Read, Conflict, Release, Goes
<1>2. Chain' /\ \A n : Exists(n)' = Exists(n)
  BY <1>1, ChainStays
<1>3. TypeOK'
  <2>1. CASE Acquire(q)
    BY <2>1 DEF IInv, TypeOK, Acquire, Goes, row, trigger, Unreleased, InTransaction
  <2>2. CASE Refuse(q) \/ Conflict(q)
    BY <2>2 DEF IInv, TypeOK, Refuse, Conflict, Goes, row, trigger, Unreleased, InTransaction
  <2>3. CASE Read(q)
    BY <2>3 DEF IInv, TypeOK, Read, Goes, row, trigger, Unreleased, InTransaction
  <2>4. CASE Release(q)
    BY <2>4 DEF IInv, TypeOK, Release, Goes, row, trigger, Unreleased, InTransaction
  <2> QED BY <2>1, <2>2, <2>3, <2>4
<1>4. ReadsAreOld'
  <2> SUFFICES ASSUME NEW p \in Requests, pc'[p] = "read"
               PROVE  /\ read'[p] \in Rows
                      /\ read'[p].version <= definition.version
                      /\ read'[p].version = definition.version => read'[p] = definition
                      /\ Versioned!IsRollback(p) => Exists(Wanted[p].target)
    BY <1>1, <1>2 DEF ReadsAreOld, row, Versioned!IsRollback
  <2>1. CASE Read(q) /\ p = q
    <3>1. read'[q] = definition /\ (Versioned!IsRollback(q) => Exists(Wanted[q].target))
      BY <2>1 DEF Read, Goes, IInv, TypeOK
    <3>2. definition \in Rows /\ definition.version \in Nat
      BY DEF IInv, TypeOK, Rows
    <3> QED BY <2>1, <3>1, <3>2
  <2>2. CASE ~(Read(q) /\ p = q)
    <3>1. pc[p] = "read" /\ read'[p] = read[p]
      BY <2>2 DEF Acquire, Refuse, Read, Conflict, Release, Goes, IInv, TypeOK
    <3> QED BY <3>1 DEF IInv, ReadsAreOld
  <2> QED BY <2>1, <2>2
<1>5. SeenIsVersion' /\ RunMatchesVersion'
  BY <1>1 DEF IInv, SeenIsVersion, RunMatchesVersion, row, trigger, SnapshotOf, Versioned!Saved
<1> QED BY <1>2, <1>3, <1>4, <1>5 DEF IInv

\* What a trigger reads is the last version, and it stays one.
LEMMA TriggerIInv ==
  ASSUME IInv, NEW t \in Triggers, TriggerStep(t)
  PROVE  IInv'
<1>1. UNCHANGED <<row, change>>
  BY DEF TriggerStep, Look, CreateRun, TriggerFails
<1>2. Chain' /\ \A n : Exists(n)' = Exists(n)
  BY <1>1, ChainStays
<1>3. ReadsAreOld'
  BY <1>1, <1>2 DEF IInv, ReadsAreOld, row, change, Versioned!IsRollback
<1>4. /\ \A r \in Rows : SnapshotOf(r)' = SnapshotOf(r)
      /\ SnapshotOf(NoRow)' = SnapshotOf(NoRow)
  BY DEF SnapshotOf, Versioned!Saved
<1>5. TypeOK' /\ SeenIsVersion' /\ RunMatchesVersion'
  <2>1. CASE Look(t)
    <3>1. seen' = [seen EXCEPT ![t] = definition] /\ UNCHANGED <<runs, overrun, faults>>
      BY <2>1 DEF Look
    <3>2. definition \in Rows /\ SnapshotOf(definition) \in snapshots
      BY DEF IInv, TypeOK, Chain
    <3>3. TypeOK'
      BY <1>1, <3>1, <3>2 DEF IInv, TypeOK, row, change
    <3>4. SeenIsVersion'
      BY <1>1, <3>1, <3>2 DEF IInv, TypeOK, SeenIsVersion, row, SnapshotOf, Versioned!Saved
    <3> QED BY <1>1, <3>1, <3>3, <3>4 DEF IInv, RunMatchesVersion, row
  <2>2. CASE CreateRun(t)
    <3>1. /\ seen' = [seen EXCEPT ![t] = NoRow] /\ UNCHANGED <<overrun, faults>>
          /\ runs' = runs \cup {SnapshotOf(seen[t])} /\ seen[t] # NoRow
      BY <2>2 DEF CreateRun
    <3>2. SnapshotOf(seen[t]) \in snapshots
      BY <3>1 DEF IInv, SeenIsVersion
    <3>3. TypeOK'
      BY <1>1, <3>1, <3>2 DEF IInv, TypeOK, row, change
    <3>4. SeenIsVersion'
      BY <1>1, <3>1 DEF IInv, TypeOK, SeenIsVersion, row, SnapshotOf, Versioned!Saved
    <3> QED BY <1>1, <3>1, <3>2, <3>3, <3>4 DEF IInv, RunMatchesVersion, row
  <2>3. CASE TriggerFails(t)
    <3>1. /\ seen' = [seen EXCEPT ![t] = NoRow] /\ UNCHANGED <<runs, overrun>>
          /\ faults < MaxFaults /\ faults' = faults + 1
      BY <2>3 DEF TriggerFails
    <3>2. TypeOK'
      BY <1>1, <3>1 DEF IInv, TypeOK, row, change
    <3>3. SeenIsVersion'
      BY <1>1, <3>1 DEF IInv, TypeOK, SeenIsVersion, row, SnapshotOf, Versioned!Saved
    <3> QED BY <1>1, <3>1, <3>2, <3>3 DEF IInv, RunMatchesVersion, row
  <2> QED BY <2>1, <2>2, <2>3 DEF TriggerStep
<1> QED BY <1>2, <1>3, <1>5 DEF IInv

\* An expired lock or a crash leaves row, snapshots and what was read alone.
LEMMA FaultIInv ==
  ASSUME IInv, Expire \/ Crash
  PROVE  IInv'
<1>1. UNCHANGED <<row, read, runs>>
  BY DEF Expire, Crash, trigger
<1>2. Chain' /\ \A n : Exists(n)' = Exists(n)
  BY <1>1, ChainStays
<1>3. TypeOK'
  <2>1. CASE Expire
    <3>1. overrun' \in BOOLEAN
      BY <2>1, Zenon DEF IInv, TypeOK, Expire
    <3>2. faults' \in 0..MaxFaults
      BY <2>1 DEF IInv, TypeOK, Expire
    <3>3. /\ lock' = Nobody /\ UNCHANGED <<pc, read>>
          /\ UNCHANGED <<definition, snapshots, seen, runs>>
      BY <2>1 DEF Expire, row, trigger
    <3> QED BY <3>1, <3>2, <3>3 DEF IInv, TypeOK
  <2>2. CASE Crash
    BY <2>2 DEF IInv, TypeOK, Crash, row
  <2> QED BY <2>1, <2>2
<1>4. \A q \in Requests : pc'[q] = "read" => pc[q] = "read"
  BY DEF Expire, Crash, IInv, TypeOK, Unreleased, InTransaction
<1>5. ReadsAreOld'
  BY <1>1, <1>2, <1>4 DEF IInv, ReadsAreOld, row, Versioned!IsRollback
<1>6. SeenIsVersion' /\ RunMatchesVersion'
  BY <1>1 DEF IInv, SeenIsVersion, RunMatchesVersion, row, trigger, Expire, Crash, SnapshotOf, Versioned!Saved
<1> QED BY <1>2, <1>3, <1>5, <1>6 DEF IInv

LEMMA NextIInv == IInv /\ [Next]_vars => IInv'
<1> SUFFICES ASSUME IInv, [Next]_vars PROVE IInv'
  OBVIOUS
<1>1. ASSUME NEW q \in Requests, RequestStep(q) PROVE IInv'
  BY <1>1, CommitIInv, RequestIInv DEF RequestStep
<1>2. ASSUME NEW t \in Triggers, TriggerStep(t) PROVE IInv'
  BY <1>2, TriggerIInv
<1>3. CASE Expire \/ Crash
  BY <1>3, FaultIInv
<1>4. CASE UNCHANGED vars
  <2>1. UNCHANGED <<row, change, trigger, overrun, faults>>
    BY <1>4 DEF vars
  <2>2. Chain' /\ \A n : Exists(n)' = Exists(n)
    BY <2>1, ChainStays
  <2>3. TypeOK' /\ ReadsAreOld'
    BY <2>1, <2>2 DEF IInv, TypeOK, ReadsAreOld, row, change, trigger, Versioned!IsRollback
  <2>4. SeenIsVersion' /\ RunMatchesVersion'
    BY <2>1 DEF IInv, SeenIsVersion, RunMatchesVersion, row, trigger, SnapshotOf, Versioned!Saved
  <2> QED BY <2>2, <2>3, <2>4 DEF IInv
<1> QED BY <1>1, <1>2, <1>3, <1>4 DEF Next

LEMMA Invariance == Spec => []IInv
BY InitIInv, NextIInv, PTL DEF Spec

-----------------------------------------------------------------------------
(* The lock                                                                 *)

\* As long as no lock has expired under its holder, the holder is alone, and it has read
\* the row that it is going to write.
Alone ==
  ~overrun =>
    /\ ConflictNeedsOverrun
    /\ \A q \in Requests : pc[q] \in Unreleased => lock = q
    /\ \A q \in Requests : pc[q] = "read" => read[q] = definition

LEMMA InitAlone == Init => Alone
BY DEF Init, Alone, ConflictNeedsOverrun, Unreleased, InTransaction

LEMMA RequestAlone ==
  ASSUME IInv, Alone, NEW q \in Requests, RequestStep(q), ~overrun'
  PROVE  Alone'
<1>1. ~overrun /\ UNCHANGED <<overrun, trigger>>
  BY DEF RequestStep, Acquire, Refuse, Read, Commit, Conflict, Release, Goes
<1>2. \A p \in Requests : p # q => pc'[p] = pc[p] /\ read'[p] = read[p]
  BY DEF IInv, TypeOK, RequestStep, Acquire, Refuse, Read, Commit, Conflict, Release, Goes
<1>3. \A p \in Requests : pc[p] \in Unreleased => lock = p
  BY <1>1 DEF Alone
<1>4. \A p \in Requests : pc[p] \notin {"conflict", "error"}
  BY <1>1 DEF Alone, ConflictNeedsOverrun
<1>5. \A p \in Requests : pc[p] = "read" => read[p] = definition
  BY <1>1 DEF Alone
<1>6. CASE Acquire(q) \/ Refuse(q)
  <2>1. UNCHANGED <<definition, read>> /\ pc'[q] \in {"locked", "refused"}
    BY <1>6 DEF Acquire, Refuse, Goes, IInv, TypeOK, row
  <2>2. \A p \in Requests : pc'[p] \in Unreleased => lock' = p
    BY <1>2, <1>3, <1>6, <2>1 DEF Acquire, Refuse, Goes, Unreleased, InTransaction, IInv, TypeOK
  <2> QED BY <1>2, <1>4, <1>5, <2>1, <2>2 DEF Alone, ConflictNeedsOverrun
<1>7. CASE Read(q)
  <2>1. pc[q] = "locked" /\ lock = q /\ UNCHANGED <<definition, lock>>
    BY <1>3, <1>7 DEF Read, Goes, Unreleased, InTransaction, row
  <2>2. pc'[q] = "missing" \/ (pc'[q] = "read" /\ read'[q] = definition)
    <3>1. q \in DOMAIN pc /\ q \in DOMAIN read
      BY DEF IInv, TypeOK
    <3>2. CASE Versioned!IsRollback(q) /\ ~Exists(Wanted[q].target)
      BY <1>7, <3>1, <3>2 DEF Read, Goes
    <3>3. CASE ~(Versioned!IsRollback(q) /\ ~Exists(Wanted[q].target))
      BY <1>7, <3>1, <3>3 DEF Read, Goes
    <3> QED BY <3>2, <3>3
  <2> QED BY <1>2, <1>3, <1>4, <1>5, <2>1, <2>2 DEF Alone, ConflictNeedsOverrun
<1>8. CASE Commit(q)
  <2>1. pc[q] = "read" /\ pc'[q] = "done" /\ lock = q /\ lock' = lock
    BY <1>3, <1>8 DEF Commit, Goes, Unreleased, InTransaction, IInv, TypeOK
  <2>2. \A p \in Requests : pc'[p] # "read"
    BY <1>2, <1>3, <2>1 DEF Unreleased, InTransaction
  <2> QED BY <1>2, <1>3, <1>4, <2>1, <2>2 DEF Alone, ConflictNeedsOverrun
<1>9. CASE Conflict(q)
  <2>1. read[q] = definition /\ Exists(definition.version + 1)
    BY <1>5, <1>9 DEF Conflict, Goes
  <2>2. PICK s \in snapshots : s.version = definition.version + 1
    BY <2>1 DEF Exists
  <2>3. definition.version + 1 <= definition.version /\ definition.version \in Nat
    BY <2>2 DEF IInv, Chain, TypeOK, Rows
  <2> QED BY <2>3
<1>10. CASE Release(q)
  <2>1. lock = q /\ UNCHANGED <<definition, read>>
    BY <1>3, <1>10 DEF Release, Unreleased, InTransaction, row
  <2>2. pc'[q] \in {"refused", "answered"}
    BY <1>4, <1>10, <2>1 DEF Release, Goes, IInv, TypeOK
  <2>3. \A p \in Requests : pc'[p] \in Unreleased => lock' = p
    BY <1>2, <1>3, <2>1, <2>2 DEF Unreleased, InTransaction
  <2> QED BY <1>2, <1>4, <1>5, <2>1, <2>2, <2>3 DEF Alone, ConflictNeedsOverrun
<1> QED BY <1>6, <1>7, <1>8, <1>9, <1>10 DEF RequestStep

LEMMA NextAlone == IInv /\ Alone /\ [Next]_vars => Alone'
<1> SUFFICES ASSUME IInv, Alone, [Next]_vars, ~overrun' PROVE Alone'
  BY DEF Alone
<1>1. ASSUME NEW q \in Requests, RequestStep(q) PROVE Alone'
  BY <1>1, RequestAlone
<1>2. ASSUME NEW t \in Triggers, TriggerStep(t) PROVE Alone'
  BY <1>2 DEF TriggerStep, Look, CreateRun, TriggerFails, Alone, ConflictNeedsOverrun, row, change
<1>3. CASE Expire
  <2>1. ~overrun /\ \A q \in Requests : ~Holds(q)
    BY <1>3 DEF Expire, IInv, TypeOK
  <2>2. \A q \in Requests : pc[q] \notin Unreleased
    BY <2>1 DEF Alone, Holds
  <2> QED BY <1>3, <2>1, <2>2 DEF Expire, Alone, ConflictNeedsOverrun, Unreleased, InTransaction, row
<1>4. CASE Crash
  <2>1. ~overrun /\ \A q \in Requests : pc'[q] \notin Unreleased
    BY <1>4 DEF Crash, IInv, TypeOK, Unreleased, InTransaction
  <2>2. \A q \in Requests : pc'[q] \notin {"conflict", "error"}
    BY <1>4, <2>1 DEF Crash, IInv, TypeOK, Alone, ConflictNeedsOverrun, Unreleased
  <2> QED BY <2>1, <2>2 DEF Alone, ConflictNeedsOverrun, Unreleased, InTransaction
<1>5. CASE UNCHANGED vars
  BY <1>5 DEF vars, row, change, Alone, ConflictNeedsOverrun
<1> QED BY <1>1, <1>2, <1>3, <1>4, <1>5 DEF Next

-----------------------------------------------------------------------------
(* Refinement                                                               *)

History == [n \in 1..definition.version |-> VersionColumns(n)]

LEMMA VersionsStay ==
  ASSUME IInv, NEW q \in Requests, Commit(q), NEW s \in snapshots
  PROVE  VersionColumns(s.version)' = VersionColumns(s.version)
<1>1. Chain' /\ s \in snapshots'
  BY CommitIInv DEF IInv, Commit
<1>2. (CHOOSE x \in snapshots' : x.version = s.version) = s
  BY <1>1 DEF Chain
<1>3. VersionColumns(s.version)' = s.columns
  BY <1>2 DEF VersionColumns
<1>4. VersionColumns(s.version) = s.columns
  BY VersionFound DEF IInv
<1> QED BY <1>3, <1>4

LEMMA CommitRefines ==
  ASSUME IInv, NEW q \in Requests, Commit(q)
  PROVE  Versioned!Apply(q)
<1>0. PICK n : n = definition.version + 1
  OBVIOUS
<1>c. PICK cols : cols = Versioned!Merge(definition.columns, Assigned(q))
  OBVIOUS
<1>1. /\ definition' = [version |-> n, columns |-> cols]
      /\ snapshots' = snapshots \cup {SnapshotOf(definition')}
      /\ Versioned!IsRollback(q) => Exists(Wanted[q].target)
  BY <1>0, <1>c, CommitAppends
<1>2. definition.version \in Nat \ {0}
  BY DEF IInv, TypeOK, Rows
<1>3. Versioned!IsRollback(q) => Wanted[q].target \in 1..definition.version
  <2> SUFFICES ASSUME Versioned!IsRollback(q) PROVE Wanted[q].target \in 1..definition.version
    OBVIOUS
  <2>1. PICK s \in snapshots : s.version = Wanted[q].target
    BY <1>1 DEF Exists
  <2>2. s.version \in Nat \ {0} /\ s.version <= definition.version
    BY DEF IInv, Chain, TypeOK, Snapshots
  <2> QED BY <1>2, <2>1, <2>2
<1>4. Assigned(q) = IF Versioned!IsRollback(q) THEN History[Wanted[q].target] ELSE Wanted[q].sets
  BY <1>3 DEF Assigned, History
<1>5. definition'.version = n /\ definition'.columns = cols
  BY <1>1
<1>6. VersionColumns(n)' = Versioned!Saved(cols)
  <2>1. SnapshotOf(definition') \in snapshots' /\ Chain'
    BY <1>1, CommitIInv DEF IInv
  <2>2. SnapshotOf(definition').version = n /\ SnapshotOf(definition').columns = Versioned!Saved(cols)
    BY <1>5 DEF SnapshotOf
  <2>3. (CHOOSE x \in snapshots' : x.version = n) = SnapshotOf(definition')
    BY <2>1, <2>2 DEF Chain
  <2> QED BY <2>2, <2>3 DEF VersionColumns
<1>7. \A k \in 1..definition.version : VersionColumns(k)' = VersionColumns(k)
  BY VersionsStay DEF IInv, Chain, Exists
<1>8. History' = [k \in 1..n |-> IF k = n THEN Versioned!Saved(cols) ELSE History[k]]
  <2>1. History' = [k \in 1..n |-> VersionColumns(k)']
    BY <1>5 DEF History
  <2>2. \A k \in 1..n : VersionColumns(k)' = IF k = n THEN Versioned!Saved(cols) ELSE History[k]
    BY <1>0, <1>2, <1>6, <1>7 DEF History
  <2> QED BY <2>1, <2>2
<1> QED BY <1>0, <1>c, <1>3, <1>4, <1>5, <1>8 DEF Versioned!Apply, History

LEMMA StepRefines ==
  ASSUME IInv, [Next]_vars
  PROVE  [Versioned!Next]_<<definition.version, definition.columns, History>>
<1>1. ASSUME NEW q \in Requests, Commit(q) PROVE Versioned!Next
  BY <1>1, CommitRefines DEF Versioned!Next
<1>2. (\E q \in Requests : Commit(q)) \/ UNCHANGED <<definition, snapshots>>
  BY DEF Next, vars, row, RequestStep, Acquire, Refuse, Read, Conflict, Release, TriggerStep, Look,
     CreateRun, TriggerFails, Expire, Crash
<1>3. CASE UNCHANGED <<definition, snapshots>>
  BY <1>3 DEF History, VersionColumns
<1> QED BY <1>1, <1>2, <1>3

-----------------------------------------------------------------------------
(* Theorems                                                                 *)

\* Rows, snapshots, lock, requests and triggers have the values the code can give them.
THEOREM Typing == Spec => []TypeOK
BY Invariance, PTL DEF IInv

\* What a run is started with can be looked up as the version it names (trigger_workflow).
THEOREM RunsAreVersions == Spec => []RunMatchesVersion
BY Invariance, PTL DEF IInv

\* A change is only turned down for another one's sake if a lock has expired under its
\* holder (_acquire_workflow_lock).
THEOREM LockKeepsApart == Spec => []ConflictNeedsOverrun
<1>1. Spec => []Alone
  BY InitAlone, NextAlone, Invariance, PTL DEF Spec
<1>2. Alone => ConflictNeedsOverrun
  BY DEF Alone, ConflictNeedsOverrun
<1> QED BY <1>1, <1>2, PTL

\* Definition and version table implement VersionedDefinition, whether or not the lock
\* has kept the changes apart (update_workflow_definition, rollback_workflow_definition).
THEOREM Refinement == Spec => Implements
<1>1. Init => Versioned!Init
  <2> SUFFICES ASSUME Init PROVE Versioned!Init
    OBVIOUS
  <2>1. definition.version = 1 /\ definition.columns = Original
    BY DEF Init
  <2>2. snapshots = {[version |-> 1, columns |-> Versioned!Saved(Original)]}
    BY DEF Init, SnapshotOf
  <2>3. VersionColumns(1) = Versioned!Saved(Original)
    <3>1. PICK first : first = [version |-> 1, columns |-> Versioned!Saved(Original)]
      OBVIOUS
    <3>2. first.version = 1 /\ first.columns = Versioned!Saved(Original)
      BY <3>1
    <3>3. (CHOOSE s \in snapshots : s.version = 1) = first
      BY <2>2, <3>1, <3>2
    <3> QED BY <3>2, <3>3 DEF VersionColumns
  <2>4. 1..definition.version = {1}
    BY <2>1
  <2>5. [n \in 1..definition.version |-> VersionColumns(n)] = [n \in {1} |-> Versioned!Saved(Original)]
    BY <2>3, <2>4
  <2> QED BY <2>1, <2>5 DEF Versioned!Init
<1>2. IInv /\ [Next]_vars =>
        [Versioned!Next]_<<definition.version, definition.columns, [n \in 1..definition.version |-> VersionColumns(n)]>>
  BY StepRefines DEF History
<1> QED BY <1>1, <1>2, Invariance, PTL DEF Spec, Implements, Versioned!Spec

-----------------------------------------------------------------------------
(* The scheduler                                                            *)

USE SchedulerAssumption

\* The earliest moment at which a scan of infrasrv's own that has not fired yet can have
\* started.
Earliest ==
  CASE phase[Scheduler] = "waiting" -> end + Minute
    [] phase[Scheduler] = "trigger" -> start[Scheduler] + Minute
    [] OTHER -> start[Scheduler]

\* Every attempt that no restart excuses has moved the next scan towards the end of the
\* two minutes in which f is due.
Used(f) ==
  /\ attempts[f] >= 1 + faults => Earliest >= f + Minute
  /\ attempts[f] >= 2 + faults => Earliest >= f + 2 * Minute /\ now >= f + Minute
  /\ attempts[f] <= 2 + faults

\* A scan in progress has started less than a minute ago.
InProgress ==
  \A t \in Triggers : Scanning(t) => start[t] <= now /\ now - start[t] <= MaxDrift

SchedulerIInv ==
  /\ SchedulerTypeOK
  /\ InProgress
  /\ \A f \in Fires : Used(f)

-----------------------------------------------------------------------------
(* The definition                                                           *)

\* Each step of a scan is one of the definition or leaves it alone.
LEMMA SchedulerStepRefines ==
  ASSUME [SchedulerNext]_<<vars, clock>>
  PROVE  [Next]_vars
<1>1. ASSUME NEW t \in Triggers, ScanStep(t) PROVE [Next]_vars
  BY <1>1 DEF ScanStep, StartScan, List, Skip, Fire, Trigger, TriggerRaises, ClockOnly,
     Next, TriggerStep
<1>2. CASE Tick \/ Others \/ Restart \/ UNCHANGED <<vars, clock>>
  BY <1>2 DEF Tick, ClockOnly, Others, Restart, Next
<1> QED BY <1>1, <1>2 DEF SchedulerNext

\* Whatever is true of a definition and its triggers is true under the scans.
THEOREM SchedulerIsTrigger == SchedulerSpec => Spec
<1>1. SchedulerInit => Init
  BY DEF SchedulerInit
<1>2. [SchedulerNext]_<<vars, clock>> => [Next]_vars
  BY SchedulerStepRefines
<1> QED BY <1>1, <1>2, PTL DEF SchedulerSpec, Spec

\* A run that a scan starts can be looked up as the version it names.
THEOREM ScheduledRunsAreVersions == SchedulerSpec => []RunMatchesVersion
BY SchedulerIsTrigger, RunsAreVersions, PTL

\* Changes are kept apart by the lock as long as it is held.
THEOREM ScheduledLockKeepsApart == SchedulerSpec => []ConflictNeedsOverrun
BY SchedulerIsTrigger, LockKeepsApart, PTL

\* The definition under the scans is a VersionedDefinition.
THEOREM ScheduledRefinement == SchedulerSpec => Implements
BY SchedulerIsTrigger, Refinement, PTL

-----------------------------------------------------------------------------
(* The clock and the scans                                                  *)

\* The start of a minute lies less than a minute back.
LEMMA MinuteStarts ==
  ASSUME NEW n \in Nat
  PROVE  /\ n - (n % Minute) \in Int
         /\ n - (n % Minute) <= n
         /\ n < n - (n % Minute) + Minute
OBVIOUS

\* A time is due to a scan that starts within two minutes of it.
LEMMA DueWindow ==
  ASSUME NEW t \in Triggers, start[t] \in Nat, NEW f \in Due(t)
  PROVE  f \in Fires /\ f <= start[t] /\ start[t] < f + 2 * Minute
<1>1. f \in Fires /\ f \in Nat /\ f <= BaseTime(t) /\ BaseTime(t) - f <= Minute
  BY DEF Due, PreviousFires
<1> QED BY <1>1, MinuteStarts DEF BaseTime

\* A row has been read exactly while the scan triggers.
LEMMA RowIsSeen ==
  ASSUME TypeOK
  PROVE  definition # NoRow
BY RowsAreRows DEF TypeOK

\* What the steps of a scan do to it, and that they leave the other ones alone.
LEMMA ScanSteps ==
  ASSUME TypeOK, SchedulerTypeOK, NEW t \in Triggers, ScanStep(t)
  PROVE  /\ UNCHANGED <<definition, now, onSince>>
         /\ faults' \in {faults, faults + 1}
         /\ \A u \in Triggers \ {t} : phase'[u] = phase[u] /\ start'[u] = start[u]
         /\ t # Scheduler => UNCHANGED <<end, attempts>>
         /\ ~Fire(t) => UNCHANGED attempts
         /\ \/ /\ StartScan(t) /\ phase'[t] = "list" /\ start'[t] = now /\ end' = end
            \/ /\ List(t) /\ IsScheduled
               /\ phase'[t] = "check" /\ start'[t] = start[t] /\ end' = end
            \/ /\ Fire(t) /\ phase'[t] = "trigger" /\ start'[t] = start[t] /\ end' = end
            \/ /\ (List(t) /\ ~IsScheduled) \/ Skip(t) \/ Trigger(t) \/ TriggerRaises(t)
               /\ phase'[t] = "waiting"
               /\ IF t = Scheduler THEN start'[t] = start[t] /\ end' = now
                                   ELSE start'[t] = 0 /\ end' = end
<1> USE DEF SchedulerTypeOK, ClockOnly, vars, row, trigger, Past
<1>1. CASE StartScan(t)
  BY <1>1 DEF StartScan, Fire, Scanning
<1>2. CASE List(t) /\ IsScheduled
  BY <1>2 DEF List, Fire
<1>3. CASE List(t) /\ ~IsScheduled
  BY <1>3 DEF List, Fire, EndScan
<1>4. CASE Skip(t)
  BY <1>4 DEF Skip, Fire, EndScan
<1>5. CASE Fire(t)
  BY <1>5 DEF Fire, Look
<1>6. CASE Trigger(t)
  BY <1>6 DEF Trigger, Fire, EndScan, CreateRun
<1>7. CASE TriggerRaises(t)
  BY <1>7 DEF TriggerRaises, Fire, EndScan, TriggerFails
<1> QED BY <1>1, <1>2, <1>3, <1>4, <1>5, <1>6, <1>7 DEF ScanStep

LEMMA InitScheduler == SchedulerInit => SchedulerIInv
<1> SUFFICES ASSUME SchedulerInit PROVE SchedulerIInv
  OBVIOUS
<1>1. SchedulerTypeOK
  BY DEF SchedulerInit, SchedulerTypeOK, Init, Phases
<1>2. \A f \in Fires : Used(f)
  BY DEF SchedulerInit, Init, Used
<1> QED BY <1>1, <1>2 DEF SchedulerIInv, SchedulerInit, InProgress, Scanning

\* The types under the steps of a scan.
LEMMA ScanTypes ==
  ASSUME TypeOK, SchedulerTypeOK, NEW t \in Triggers, ScanStep(t)
  PROVE  SchedulerTypeOK'
<1>1. /\ now \in 0..Horizon /\ phase \in [Triggers -> Phases] /\ start \in [Triggers -> 0..Horizon]
      /\ end \in -Minute..Horizon /\ Horizon \in Nat /\ Minute \in Nat
      /\ 0 \in 0..Horizon /\ now \in -Minute..Horizon
      /\ attempts \in [Fires -> Nat] /\ DOMAIN seen = Triggers
      /\ \A u \in Triggers : phase[u] = "trigger" <=> seen[u] # NoRow
  BY DEF SchedulerTypeOK, TypeOK
<1>2. UNCHANGED <<now, onSince>>
  BY ScanSteps
<1>3. /\ phase' \in [Triggers -> Phases] /\ start' \in [Triggers -> 0..Horizon]
      /\ end' \in -Minute..Horizon
  BY <1>1 DEF ScanStep, StartScan, List, Skip, Fire, Trigger, TriggerRaises, EndScan, Phases
<1>4. attempts' \in [Fires -> Nat]
  <2>1. CASE Fire(t)
    BY <1>1, <2>1 DEF Fire
  <2> QED BY <1>1, <2>1, ScanSteps
<1>5. \A u \in Triggers : phase'[u] = "trigger" <=> seen'[u] # NoRow
  <2>1. CASE StartScan(t) \/ List(t) \/ Skip(t)
    <3>1. seen' = seen /\ phase[t] # "trigger"
      BY <2>1 DEF StartScan, List, Skip, ClockOnly, vars, trigger, Scanning
    <3>2. phase'[t] # "trigger" /\ \A u \in Triggers \ {t} : phase'[u] = phase[u]
      BY <1>1, <2>1 DEF StartScan, List, Skip, EndScan
    <3> QED BY <1>1, <3>1, <3>2
  <2>2. CASE Fire(t)
    BY <1>1, <2>2, RowIsSeen DEF Fire, Look
  <2>3. CASE Trigger(t) \/ TriggerRaises(t)
    BY <1>1, <2>3 DEF Trigger, TriggerRaises, CreateRun, TriggerFails, EndScan
  <2> QED BY <2>1, <2>2, <2>3 DEF ScanStep
<1> QED BY <1>1, <1>2, <1>3, <1>4, <1>5 DEF SchedulerTypeOK

LEMMA NextScheduler ==
  ASSUME TypeOK, SchedulerIInv, [SchedulerNext]_<<vars, clock>>
  PROVE  SchedulerIInv'
<1>1. /\ now \in Nat /\ now \in 0..Horizon /\ end \in Int /\ start \in [Triggers -> 0..Horizon]
      /\ \A t \in Triggers : start[t] \in Nat /\ phase[t] \in Phases
      /\ attempts \in [Fires -> Nat] /\ onSince \in -1..Horizon /\ faults \in Nat
      /\ Horizon \in Nat /\ Minute \in Nat /\ Minute > 0 /\ MaxDrift \in Nat
      /\ SchedulerTypeOK /\ InProgress
      /\ \A f \in Fires : f \in Nat /\ Used(f)
  BY DEF SchedulerIInv, SchedulerTypeOK, TypeOK
<1>2. ASSUME NEW t \in Triggers, ScanStep(t) PROVE SchedulerIInv'
  <2>1. SchedulerTypeOK'
    BY <1>1, <1>2, ScanTypes
  <2>2. UNCHANGED now
    BY <1>1, <1>2, ScanSteps
  <2>3. InProgress'
    <3> SUFFICES ASSUME NEW u \in Triggers, phase'[u] # "waiting"
                 PROVE  start'[u] <= now /\ now - start'[u] <= MaxDrift
      BY <2>2 DEF InProgress, Scanning
    <3>1. CASE u # t
      BY <1>1, <1>2, <3>1, ScanSteps DEF InProgress, Scanning
    <3>2. CASE u = t /\ StartScan(t)
      BY <1>1, <3>2 DEF StartScan
    <3>3. CASE u = t /\ ~StartScan(t)
      <4>1. start'[t] = start[t]
        BY <1>1, <1>2, <3>3, ScanSteps
      <4>2. Scanning(t)
        BY <1>2, <3>3 DEF ScanStep, List, Skip, Fire, Trigger, TriggerRaises, Scanning
      <4> QED BY <1>1, <3>3, <4>1, <4>2 DEF InProgress
    <3> QED BY <3>1, <3>2, <3>3
  <2>4. ASSUME NEW f \in Fires PROVE Used(f)'
    <3>1. faults' \in {faults, faults + 1} /\ attempts[f] \in Nat /\ Used(f) /\ f \in Nat
      BY <1>1, <1>2, ScanSteps
    <3>2. CASE t # Scheduler
      <4>1. phase'[Scheduler] = phase[Scheduler] /\ start'[Scheduler] = start[Scheduler]
            /\ UNCHANGED <<end, attempts>>
        BY <1>1, <1>2, <3>2, ScanSteps
      <4>2. Earliest' = Earliest
        BY <4>1 DEF Earliest
      <4>3. Earliest \in Int
        BY <1>1 DEF Earliest
      <4> QED BY <1>1, <2>2, <3>1, <4>1, <4>2, <4>3 DEF Used
    <3>3. CASE t = Scheduler /\ Fire(t)
      <4>1. phase[t] = "check" /\ phase'[t] = "trigger" /\ start'[t] = start[t]
            /\ UNCHANGED faults
        BY <1>1, <1>2, <3>3, ScanSteps DEF Fire, Look, StartScan, List, Skip, Trigger, TriggerRaises,
           Scanning
      <4>2. Earliest = start[t] /\ Earliest' = start[t] + Minute /\ start[t] <= now
        BY <1>1, <3>3, <4>1 DEF Earliest, InProgress, Scanning
      <4>3. CASE f \in Due(t)
        <5>1. attempts'[f] = attempts[f] + 1
          BY <3>3, <4>3 DEF Fire
        <5>2. f <= start[t] /\ start[t] < f + 2 * Minute
          BY <1>1, <4>3, DueWindow
        <5> QED BY <1>1, <2>2, <3>1, <4>1, <4>2, <5>1, <5>2 DEF Used
      <4>4. CASE f \notin Due(t)
        <5>1. attempts'[f] = attempts[f]
          BY <3>3, <4>4 DEF Fire
        <5> QED BY <1>1, <2>2, <3>1, <4>1, <4>2, <5>1 DEF Used
      <4> QED BY <4>3, <4>4
    <3>4. CASE t = Scheduler /\ ~Fire(t)
      <4>1. UNCHANGED attempts
        BY <1>1, <1>2, <3>4, ScanSteps
      <4>2. Earliest \in Int /\ Earliest' \in Int /\ Earliest' >= Earliest
        <5>1. CASE StartScan(t)
          <6>1. phase[t] = "waiting" /\ now >= end + Minute
            BY <3>4, <5>1 DEF StartScan, Scanning
          <6>2. phase'[t] = "list" /\ start'[t] = now
            BY <1>1, <5>1 DEF StartScan, SchedulerTypeOK
          <6> QED BY <1>1, <3>4, <6>1, <6>2 DEF Earliest
        <5>2. CASE List(t) /\ IsScheduled
          <6>1. phase[t] = "list" /\ phase'[t] = "check" /\ start'[t] = start[t]
            BY <1>1, <5>2 DEF List, SchedulerTypeOK
          <6> QED BY <1>1, <3>4, <6>1 DEF Earliest
        <5>3. CASE (List(t) /\ ~IsScheduled) \/ Skip(t) \/ Trigger(t) \/ TriggerRaises(t)
          <6>1. phase[t] \in {"list", "check", "trigger"} /\ phase'[t] = "waiting" /\ end' = now
            BY <1>1, <3>4, <5>3
            DEF List, Skip, Trigger, TriggerRaises, EndScan, SchedulerTypeOK
          <6>2. start[t] <= now
            BY <1>1, <6>1 DEF InProgress, Scanning
          <6> QED BY <1>1, <3>4, <6>1, <6>2 DEF Earliest
        <5> QED BY <1>2, <3>4, <5>1, <5>2, <5>3 DEF ScanStep
      <4> QED BY <1>1, <2>2, <3>1, <4>1, <4>2 DEF Used
    <3> QED BY <3>2, <3>3, <3>4
  <2> QED BY <2>1, <2>3, <2>4 DEF SchedulerIInv
<1>3. CASE Tick
  <2>1. UNCHANGED <<seen, faults, scans, onSince, attempts>> /\ now' = now + 1 /\ now < Horizon
        /\ \A t \in Triggers : Scanning(t) => now - start[t] < MaxDrift
    BY <1>3 DEF Tick, ClockOnly, vars, trigger, Past
  <2>2. SchedulerTypeOK'
    BY <1>1, <2>1 DEF SchedulerTypeOK, scans
  <2>3. InProgress'
    BY <1>1, <2>1 DEF InProgress, scans, Scanning
  <2>4. \A f \in Fires : Used(f)'
    BY <1>1, <2>1 DEF Used, Earliest, scans
  <2> QED BY <2>2, <2>3, <2>4 DEF SchedulerIInv
<1>4. CASE Others
  <2>1. UNCHANGED <<now, scans, attempts, seen>> /\ onSince' \in {-1, onSince, now}
    BY <1>4 DEF Others, RequestStep, Acquire, Refuse, Read, Commit, Conflict, Release, Goes, Expire,
       trigger
  <2>2. faults' \in {faults, faults + 1}
    BY <1>4 DEF Others, RequestStep, Acquire, Refuse, Read, Commit, Conflict, Release, Goes, Expire
  <2>3. SchedulerTypeOK'
    BY <1>1, <2>1 DEF SchedulerTypeOK, scans
  <2>4. InProgress'
    BY <1>1, <2>1 DEF InProgress, scans, Scanning
  <2>5. Earliest' = Earliest /\ Earliest \in Int
    BY <1>1, <2>1 DEF Earliest, scans
  <2>6. \A f \in Fires : Used(f)'
    BY <1>1, <2>1, <2>2, <2>5 DEF Used
  <2> QED BY <2>3, <2>4, <2>6 DEF SchedulerIInv
<1>5. CASE Restart
  <2>1. /\ UNCHANGED <<now, attempts>> /\ onSince' \in {-1, now} /\ faults' = faults + 1
        /\ phase' = [t \in Triggers |-> "waiting"]
        /\ start' = [t \in Triggers |-> IF t = Scheduler THEN now ELSE 0]
        /\ end' = now - Minute
        /\ seen' = [t \in Triggers |-> NoRow]
    BY <1>5 DEF Restart, Crash
  <2>2. SchedulerTypeOK'
    BY <1>1, <2>1 DEF SchedulerTypeOK, Phases
  <2>3. Earliest' = now
    BY <1>1, <2>1 DEF Earliest
  <2>4. ASSUME NEW f \in Fires PROVE Used(f)'
    <3>1. Used(f) /\ f \in Nat /\ attempts[f] \in Nat
      BY <1>1
    <3> QED BY <1>1, <2>1, <2>3, <3>1 DEF Used
  <2>5. InProgress'
    BY <2>1 DEF InProgress, Scanning
  <2> QED BY <2>2, <2>4, <2>5 DEF SchedulerIInv
<1>6. CASE UNCHANGED <<vars, clock>>
  BY <1>6
  DEF vars, clock, scans, trigger, SchedulerIInv, SchedulerTypeOK, Used, Earliest, InProgress, Scanning
<1> QED BY <1>2, <1>3, <1>4, <1>5, <1>6 DEF SchedulerNext

LEMMA SchedulerInvariance == SchedulerSpec => [](TypeOK /\ SchedulerIInv)
<1>1. SchedulerSpec => []TypeOK
  BY SchedulerIsTrigger, Typing, PTL
<1>2. SchedulerInit => SchedulerIInv
  BY InitScheduler
<1>3. TypeOK /\ SchedulerIInv /\ [SchedulerNext]_<<vars, clock>> => SchedulerIInv'
  BY NextScheduler
<1> QED BY <1>1, <1>2, <1>3, PTL DEF SchedulerSpec

\* Types of clock and scans; a scan has read a definition exactly while it triggers.
THEOREM SchedulerTyping == SchedulerSpec => []SchedulerTypeOK
<1>1. SchedulerIInv => SchedulerTypeOK
  BY DEF SchedulerIInv
<1> QED BY <1>1, SchedulerInvariance, PTL

\* A scan triggers a time only if it has started in the time's own minute or in the next,
\* and it triggers before its duration is over.
LEMMA FiresAround ==
  ASSUME TypeOK, SchedulerIInv, [SchedulerNext]_<<vars, clock>>
  PROVE  OnlyAroundATime
<1> SUFFICES ASSUME NEW t \in Triggers, phase[t] # "trigger", phase'[t] = "trigger"
             PROVE  \E f \in Fires : now \in f..(f + 2 * Minute - 1 + MaxDrift)
  BY DEF OnlyAroundATime
<1>1. SchedulerTypeOK /\ now \in Nat /\ start[t] \in Nat /\ Minute \in Nat /\ MaxDrift \in Nat
  BY DEF SchedulerIInv, SchedulerTypeOK
<1>2. Fire(t)
  <2>1. CASE ScanStep(t)
    BY <1>1, <2>1, ScanSteps
  <2>2. ASSUME NEW u \in Triggers, ScanStep(u), u # t PROVE FALSE
    BY <1>1, <2>2, ScanSteps
  <2>3. CASE Tick \/ Others \/ Restart \/ UNCHANGED <<vars, clock>>
    BY <2>3 DEF Tick, Others, Restart, scans, clock
  <2> QED BY <2>1, <2>2, <2>3, <1>1, ScanSteps DEF SchedulerNext, ScanStep
<1>3. PICK f \in Due(t) : TRUE
  BY <1>2 DEF Fire
<1>4. f \in Fires /\ f \in Nat /\ f <= start[t] /\ start[t] < f + 2 * Minute
  BY <1>1, <1>3, DueWindow
<1>5. start[t] <= now /\ now - start[t] <= MaxDrift
  BY <1>2 DEF Fire, SchedulerIInv, InProgress, Scanning
<1>6. now \in f..(f + 2 * Minute - 1 + MaxDrift)
  BY <1>1, <1>4, <1>5
<1> QED BY <1>4, <1>6

\* However many messages of beat wait and however late a worker takes them, no scan
\* triggers a workflow away from the times its expression names; infrasrv's own scans do
\* so at most twice, plus once for each restart and each other fault (_cron_due).
THEOREM BoundedTriggers == SchedulerSpec => TriggersAreBounded
<1>1. SchedulerIInv => TwiceAtMost
  BY DEF SchedulerIInv, Used, TwiceAtMost
<1>2. TypeOK /\ SchedulerIInv /\ [SchedulerNext]_<<vars, clock>> => [OnlyAroundATime]_<<vars, clock>>
  BY FiresAround
<1> QED BY <1>1, <1>2, SchedulerInvariance, PTL DEF SchedulerSpec, TriggersAreBounded

-----------------------------------------------------------------------------
(* No time is missed                                                        *)

Attempted(f) == \E g \in Fires \cap {f, f + Minute} : attempts[g] > 0

\* What keeps f from being missed: while it has not been attempted, the last scan of
\* infrasrv's own that is over started at f or before, and the one in progress started
\* soon enough to find f due.
InTime(f) ==
  /\ phase[Scheduler] = "trigger" /\ start[Scheduler] \in f..(f + 2 * Minute - 1) => Attempted(f)
  /\ onSince \in 0..f /\ ~Attempted(f) =>
       start[Scheduler] <= (IF Scanning(Scheduler) THEN f + Minute + MaxDrift ELSE f)

Punctual ==
  /\ start[Scheduler] <= now
  /\ ~Scanning(Scheduler) => now - start[Scheduler] <= Minute + MaxDrift
  /\ onSince >= 0 => IsScheduled
  /\ \A f \in Fires : InTime(f)

\* Two multiples of a minute that are less than two minutes apart are equal or
\* neighbours; those less than one apart are equal.
LEMMA Multiples ==
  ASSUME NEW f \in Nat, NEW b \in Nat, f % Minute = 0, b % Minute = 0,
         f <= b, b < f + 2 * Minute
  PROVE  b \in {f, f + Minute}
<1> DEFINE m == f \div Minute
           n == b \div Minute
<1>1. m \in Nat /\ n \in Nat /\ f = Minute * m /\ b = Minute * n
  OBVIOUS
<1> HIDE DEF m, n
<1>2. m <= n
  BY <1>1
<1>3. n < m + 2
  BY <1>1
<1>4. n = m \/ n = m + 1
  BY <1>1, <1>2, <1>3
<1> QED BY <1>1, <1>4

\* The last full minute is a multiple of a minute.
LEMMA BaseIsMinute ==
  ASSUME NEW t \in Triggers, start[t] \in Nat
  PROVE  /\ BaseTime(t) \in Nat /\ BaseTime(t) % Minute = 0
         /\ BaseTime(t) <= start[t] /\ start[t] < BaseTime(t) + Minute
<1> DEFINE q == start[t] \div Minute
           r == start[t] % Minute
<1>1. q \in Nat /\ r \in 0..(Minute - 1) /\ start[t] = Minute * q + r
  OBVIOUS
<1>2. BaseTime(t) = Minute * q
  BY <1>1 DEF BaseTime
<1> HIDE DEF q, r
<1>3. Minute * q \in Nat
  BY <1>1
<1>4. (Minute * q) % Minute = 0
  <2> DEFINE d == (Minute * q) \div Minute
             e == (Minute * q) % Minute
  <2>1. d \in Int /\ e \in 0..(Minute - 1) /\ Minute * q = Minute * d + e
    BY <1>3
  <2> HIDE DEF d, e
  <2>2. Minute * (q - d) = e
    BY <1>1, <2>1
  <2>3. q - d = 0
    <3>1. CASE q - d >= 1
      BY <1>1, <2>1, <2>2, <3>1
    <3>2. CASE q - d <= -1
      BY <1>1, <2>1, <2>2, <3>2
    <3> QED BY <1>1, <2>1, <3>1, <3>2
  <2>4. e = 0
    BY <1>1, <2>1, <2>2, <2>3
  <2> QED BY <2>4 DEF e
<1> QED BY <1>1, <1>2, <1>3, <1>4

\* A scan that starts in time finds f due, or the next minute's time if there is one.
LEMMA DueFound ==
  ASSUME NEW t \in Triggers, start[t] \in Nat, NEW f \in Fires, start[t] \in f..(f + 2 * Minute - 1)
  PROVE  \E g \in Fires \cap {f, f + Minute} : g \in Due(t)
<1>1. f \in Nat /\ f % Minute = 0 /\ \A g \in Fires : g \in Nat /\ g % Minute = 0
  OBVIOUS
<1>2. BaseTime(t) \in Nat /\ BaseTime(t) % Minute = 0 /\ start[t] < BaseTime(t) + Minute
      /\ BaseTime(t) <= start[t]
  BY BaseIsMinute
<1>3. BaseTime(t) < f + 2 * Minute
  BY <1>1, <1>2
<1>4. f <= BaseTime(t)
  <2>1. CASE BaseTime(t) < f
    <3>1. f < BaseTime(t) + 2 * Minute
      BY <1>1, <1>2
    <3>2. f = BaseTime(t) + Minute
      BY <1>1, <1>2, <2>1, <3>1, Multiples
    <3> QED BY <1>1, <1>2, <3>2
  <2> QED BY <1>1, <1>2, <2>1
<1>5. BaseTime(t) \in {f, f + Minute}
  BY <1>1, <1>2, <1>3, <1>4, Multiples
<1>6. CASE BaseTime(t) \in Fires
  <2>1. BaseTime(t) \in Due(t)
    BY <1>2, <1>6 DEF Due, PreviousFires
  <2> QED BY <1>5, <1>6, <2>1
<1>7. CASE BaseTime(t) \notin Fires
  <2>1. BaseTime(t) = f + Minute
    BY <1>5, <1>7
  <2>2. ASSUME NEW g \in Fires, g <= BaseTime(t), ~(g <= f) PROVE FALSE
    <3>1. g \in {f, f + Minute}
      BY <1>1, <2>1, <2>2, Multiples
    <3> QED BY <1>1, <1>7, <2>1, <2>2, <3>1
  <2>3. f \in Due(t)
    BY <1>1, <2>1, <2>2 DEF Due, PreviousFires
  <2> QED BY <2>3
<1> QED BY <1>6, <1>7

LEMMA InitPunctual == SchedulerInit => Punctual
BY DEF SchedulerInit, Punctual, InTime, Scanning

\* The steps of infrasrv's own scan.
LEMMA OwnScanPunctual ==
  ASSUME TypeOK, SchedulerIInv, Punctual, ScanStep(Scheduler)
  PROVE  Punctual'
<1> DEFINE s == start[Scheduler]
           p == phase[Scheduler]
<1>1. /\ now \in Nat /\ s \in Nat /\ p \in Phases /\ attempts \in [Fires -> Nat] /\ onSince \in Int
      /\ Minute \in Nat /\ MaxDrift \in Nat /\ MaxDrift < Minute
      /\ SchedulerTypeOK /\ \A f \in Fires : f \in Nat /\ InTime(f)
  BY DEF SchedulerIInv, SchedulerTypeOK, Punctual
<1>2. s <= now /\ (onSince >= 0 => IsScheduled) /\ (p # "waiting" => now - s <= MaxDrift)
  BY DEF Punctual, SchedulerIInv, InProgress, Scanning
<1>3. UNCHANGED <<definition, now, onSince>>
  BY <1>1, ScanSteps
<1>4. (IsScheduled' <=> IsScheduled) /\ (~Fire(Scheduler) => UNCHANGED attempts)
  BY <1>1, <1>3, ScanSteps DEF IsScheduled
<1>5. CASE StartScan(Scheduler)
  <2>1. phase'[Scheduler] = "list" /\ start'[Scheduler] = now /\ p = "waiting" /\ UNCHANGED attempts
    BY <1>1, <1>5 DEF StartScan, SchedulerTypeOK, Scanning, Past
  <2>2. now - s <= Minute + MaxDrift
    BY <2>1 DEF Punctual, Scanning
  <2>3. ASSUME NEW f \in Fires PROVE InTime(f)'
    BY <1>1, <1>2, <1>3, <2>1, <2>2 DEF InTime, Attempted, Scanning
  <2> QED BY <1>1, <1>2, <1>3, <1>4, <2>1, <2>3 DEF Punctual, Scanning
<1>6. CASE List(Scheduler) /\ IsScheduled
  <2>1. phase'[Scheduler] = "check" /\ start'[Scheduler] = s /\ p = "list" /\ UNCHANGED attempts
    BY <1>1, <1>6 DEF List, SchedulerTypeOK, Past
  <2>2. ASSUME NEW f \in Fires PROVE InTime(f)'
    BY <1>1, <1>2, <1>3, <2>1 DEF InTime, Attempted, Scanning
  <2> QED BY <1>1, <1>2, <1>3, <1>4, <2>1, <2>2 DEF Punctual, Scanning
<1>7. CASE \/ List(Scheduler) /\ ~IsScheduled
           \/ Skip(Scheduler) \/ Trigger(Scheduler) \/ TriggerRaises(Scheduler)
  <2>1. /\ phase'[Scheduler] = "waiting" /\ start'[Scheduler] = s /\ p # "waiting"
        /\ UNCHANGED attempts
    BY <1>1, <1>7
    DEF List, Skip, Trigger, TriggerRaises, CreateRun, TriggerFails, EndScan, SchedulerTypeOK, Past
  <2>2. ASSUME NEW f \in Fires PROVE InTime(f)'
    <3>1. InTime(f) /\ f \in Nat
      BY <1>1
    <3>2. ASSUME onSince \in 0..f, ~Attempted(f) PROVE s <= f
      <4>1. s <= f + Minute + MaxDrift
        BY <2>1, <3>1, <3>2 DEF InTime, Scanning
      <4>2. CASE s > f
        <5>1. s \in f..(f + 2 * Minute - 1)
          BY <1>1, <4>1, <4>2
        <5>2. CASE Skip(Scheduler)
          BY <3>1, <5>1, <5>2, <1>1, SchedulerAssumption, DueFound DEF Skip
        <5>3. CASE Trigger(Scheduler) \/ TriggerRaises(Scheduler)
          BY <3>1, <3>2, <5>1, <5>3 DEF Trigger, TriggerRaises, InTime
        <5>4. CASE ~IsScheduled
          BY <1>1, <1>2, <3>2, <5>4
        <5> QED BY <1>7, <5>2, <5>3, <5>4
      <4> QED BY <1>1, <3>1, <4>2
    <3> QED BY <1>1, <1>3, <2>1, <3>1, <3>2 DEF InTime, Attempted, Scanning
  <2>3. now - s <= Minute + MaxDrift
    BY <1>1, <1>2, <2>1
  <2> QED BY <1>1, <1>2, <1>3, <1>4, <2>1, <2>2, <2>3 DEF Punctual, Scanning
<1>8. CASE Fire(Scheduler)
  <2>1. /\ p = "check" /\ phase'[Scheduler] = "trigger" /\ start'[Scheduler] = s
        /\ attempts' = [f \in Fires |-> IF f \in Due(Scheduler) THEN attempts[f] + 1 ELSE attempts[f]]
    BY <1>1, <1>8 DEF Fire, SchedulerTypeOK
  <2>2. ASSUME NEW f \in Fires PROVE InTime(f)'
    <3>1. InTime(f) /\ f \in Nat
      BY <1>1
    <3>2. \A g \in Fires : attempts'[g] >= attempts[g] /\ attempts'[g] \in Nat
      BY <1>1, <2>1
    <3>3. Attempted(f) => Attempted(f)'
      BY <1>1, <3>2 DEF Attempted
    <3>4. ASSUME s \in f..(f + 2 * Minute - 1) PROVE Attempted(f)'
      <4>1. PICK g \in Fires \cap {f, f + Minute} : g \in Due(Scheduler)
        BY <1>1, <3>4, SchedulerAssumption, DueFound
      <4>2. attempts'[g] > 0
        BY <1>1, <2>1, <4>1
      <4> QED BY <4>1, <4>2 DEF Attempted
    <3> QED BY <1>3, <2>1, <3>1, <3>3, <3>4 DEF InTime, Scanning
  <2> QED BY <1>1, <1>2, <1>3, <1>4, <2>1, <2>2 DEF Punctual, Scanning
<1> QED BY <1>5, <1>6, <1>7, <1>8 DEF ScanStep

LEMMA NextPunctual ==
  ASSUME TypeOK, SchedulerIInv, Punctual, [SchedulerNext]_<<vars, clock>>
  PROVE  Punctual'
<1>1. /\ now \in Nat /\ start[Scheduler] \in Nat /\ onSince \in Int /\ Minute \in Nat
      /\ MaxDrift \in Nat /\ SchedulerTypeOK /\ start[Scheduler] <= now
      /\ (onSince >= 0 => IsScheduled)
      /\ \A f \in Fires : f \in Nat /\ InTime(f)
  BY DEF SchedulerIInv, SchedulerTypeOK, Punctual
<1>2. CASE ScanStep(Scheduler)
  BY <1>2, OwnScanPunctual
<1>3. ASSUME NEW t \in Triggers, ScanStep(t), t # Scheduler PROVE Punctual'
  <2>1. /\ UNCHANGED <<definition, now, onSince, attempts>>
        /\ phase'[Scheduler] = phase[Scheduler] /\ start'[Scheduler] = start[Scheduler]
    BY <1>1, <1>3, ScanSteps
  <2> QED BY <2>1 DEF Punctual, InTime, Attempted, Scanning, IsScheduled
<1>4. CASE Tick
  <2>1. UNCHANGED <<definition, scans, onSince, attempts>> /\ now' = now + 1
        /\ (~Scanning(Scheduler) => now - start[Scheduler] < Minute + MaxDrift)
    BY <1>4 DEF Tick, ClockOnly, vars, row, Past
  <2> QED BY <1>1, <2>1 DEF Punctual, InTime, Attempted, Scanning, IsScheduled, scans
<1>5. CASE Others
  <2>1. UNCHANGED <<now, scans, attempts>>
        /\ onSince' = IF ~IsScheduled' THEN -1 ELSE IF IsScheduled THEN onSince ELSE now
    BY <1>5 DEF Others
  <2>2. ASSUME NEW f \in Fires PROVE InTime(f)'
    <3>1. InTime(f) /\ f \in Nat /\ onSince' \in {-1, onSince, now}
      BY <1>1, <2>1
    <3>2. Attempted(f)' <=> Attempted(f)
      BY <2>1 DEF Attempted
    <3>3. phase[Scheduler] = "trigger" /\ start[Scheduler] \in f..(f + 2 * Minute - 1)
            => Attempted(f)'
      BY <3>1, <3>2 DEF InTime
    <3>4. ASSUME onSince' \in 0..f, ~Attempted(f)'
          PROVE  start[Scheduler] <= (IF Scanning(Scheduler) THEN f + Minute + MaxDrift ELSE f)
      <4>1. CASE onSince' = onSince
        BY <3>1, <3>2, <3>4, <4>1 DEF InTime
      <4>2. CASE onSince' = now
        BY <1>1, <3>1, <3>4, <4>2
      <4> QED BY <3>1, <3>4, <4>1, <4>2
    <3> QED BY <2>1, <3>3, <3>4 DEF InTime, Scanning, scans
  <2>3. onSince' >= 0 => IsScheduled'
    BY <2>1
  <2> QED BY <1>1, <2>1, <2>2, <2>3 DEF Punctual, Scanning, scans
<1>6. CASE Restart
  <2>1. /\ UNCHANGED <<definition, now, attempts>>
        /\ onSince' = IF IsScheduled THEN now ELSE -1
        /\ phase'[Scheduler] = "waiting" /\ start'[Scheduler] = now
    BY <1>6, SchedulerAssumption DEF Restart, Crash, row
  <2> QED BY <1>1, <2>1 DEF Punctual, InTime, Attempted, Scanning, IsScheduled
<1>7. CASE UNCHANGED <<vars, clock>>
  BY <1>7 DEF vars, clock, scans, row, Punctual, InTime, Attempted, Scanning, IsScheduled
<1> QED BY <1>2, <1>3, <1>4, <1>5, <1>6, <1>7 DEF SchedulerNext

\* As long as a scan and the wake-up after it take less than a minute each, a time that
\* the cron expression names is only missed for the sake of the next minute's.
THEOREM NoTimeIsMissed == SchedulerSpec => []NoTimeMissed
<1>1. SchedulerInit => Punctual
  BY InitPunctual
<1>2. TypeOK /\ SchedulerIInv /\ Punctual /\ [SchedulerNext]_<<vars, clock>> => Punctual'
  BY NextPunctual
<1>3. SchedulerIInv /\ Punctual => NoTimeMissed
  <2>1. ASSUME SchedulerIInv, Punctual, NEW f \in Fires,
               onSince \in 0..f, now > f + Minute + 2 * MaxDrift
        PROVE  Attempted(f)
    <3> DEFINE s == start[Scheduler]
    <3>1. /\ now \in Nat /\ s \in Nat /\ f \in Nat /\ Minute \in Nat /\ MaxDrift \in Nat
      BY <2>1 DEF SchedulerIInv, SchedulerTypeOK
    <3>2. now - s <= (IF Scanning(Scheduler) THEN MaxDrift ELSE Minute + MaxDrift)
      BY <2>1 DEF Punctual, SchedulerIInv, InProgress
    <3>3. ~Attempted(f) => s <= (IF Scanning(Scheduler) THEN f + Minute + MaxDrift ELSE f)
      BY <2>1 DEF Punctual, InTime
    <3> QED BY <2>1, <3>1, <3>2, <3>3
  <2> QED BY <2>1 DEF NoTimeMissed, Attempted
<1> QED BY <1>1, <1>2, <1>3, SchedulerInvariance, PTL DEF SchedulerSpec
=============================================================================
