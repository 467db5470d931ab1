----------------------- MODULE ServiceRegistryProofs -----------------------
(***************************************************************************)
(* Proofs about ServiceRegistry, for all instances, checkers, thresholds   *)
(* and numbers of retries and faults.                                      *)
(*                                                                         *)
(* Whatever takes a row off the list is about an instance that has ended   *)
(* or shares its id or its address, except for a cleanup that has found a  *)
(* heartbeat out of date.                                                  *)
(***************************************************************************)
EXTENDS ServiceRegistry, TLAPS

USE RegistryAssumption

\* The invariant in three parts: processes and requests, the table, infrasrv's work.
ClientType ==
  /\ proc \in [Instances -> {"new", "running", "gone"}]
  /\ deaf \subseteq {i \in Instances : proc[i] = "running"}
  /\ heirs \subseteq {i \in Instances : proc[i] = "gone"} \cup twins
  /\ stopped \cup twins \subseteq Instances
  /\ registers \subseteq Instances /\ leaves \subseteq Instances /\ marked \subseteq Instances

TableType ==
  /\ row \in [Instances -> Rows]
  /\ failures \in [Instances -> 0..Threshold]
  /\ unhealthy \cup old \subseteq {i \in Instances : Present(i)}

WorkType ==
  /\ cleaner \in [soft : SUBSET Instances, hard : SUBSET Instances]
  /\ checker \in [Checkers -> Checks]
  /\ faults \in 0..MaxFaults

LEMMA Parts ==
  /\ TypeOK <=> ClientType /\ TableType /\ WorkType
  /\ (ClientType /\ TableType /\ WorkType)' => TypeOK'
BY DEF TypeOK, ClientType, TableType, WorkType, Present

LEMMA InitTypes == Init => TypeOK
<1> SUFFICES ASSUME Init PROVE TypeOK
  OBVIOUS
<1>1. ClientType
  BY DEF Init, ClientType
<1>2. TableType
  BY DEF Init, TableType, Rows
<1>3. Idle \in Checks
  BY DEF Idle, Checks
<1>4. WorkType
  BY <1>3 DEF Init, WorkType, Resting
<1> QED BY <1>1, <1>2, <1>4, Parts

-----------------------------------------------------------------------------
(* The table                                                                *)

\* Each write of a row keeps the table's types.
LEMMA UpsertType ==
  ASSUME TableType, NEW i \in Instances, Upsert(i)
  PROVE  TableType'
<1>1. row' \in [Instances -> Rows] /\ UNCHANGED failures
  BY DEF TableType, Upsert, Rows
<1>2. ASSUME NEW j \in (unhealthy \cup old)' PROVE j \in Instances /\ row'[j] # "absent"
  BY <1>2 DEF TableType, Upsert, Present
<1> QED BY <1>1, <1>2 DEF TableType, Present

LEMMA SoftDeleteType ==
  ASSUME TableType, NEW i \in Instances, SoftDelete(i)
  PROVE  TableType'
<1>1. row' \in [Instances -> Rows] /\ UNCHANGED failures
  BY DEF TableType, SoftDelete, Rows
<1>2. ASSUME NEW j \in (unhealthy \cup old)' PROVE j \in Instances /\ row'[j] # "absent"
  BY <1>2 DEF TableType, SoftDelete, Present
<1> QED BY <1>1, <1>2 DEF TableType, Present

\* So do the updates that leave the rows as they are and touch only rows that exist.
LEMMA UpdateType ==
  ASSUME TableType, UNCHANGED row, failures' \in [Instances -> 0..Threshold],
         (unhealthy \cup old)' \subseteq {i \in Instances : Present(i)}
  PROVE  TableType'
BY DEF TableType, Present

-----------------------------------------------------------------------------
(* The work in progress                                                     *)

\* A record whose fields are replaced one by one stays a check.
LEMMA ConcludedType ==
  ASSUME NEW r \in Checks, NEW s \in {"reset", "healthy", "increment"}, NEW i
  PROVE  [r EXCEPT !.step = s, !.tries = 0, !.failing = r.failing \ {i}] \in Checks
<1>1. r.failing \ {i} \subseteq Instances /\ 0 \in 0..Retries
  BY DEF Checks
<1> QED BY <1>1 DEF Checks

LEMMA EndedType ==
  ASSUME NEW r \in Checks
  PROVE  [r EXCEPT !.inst = NoInstance, !.step = "idle", !.tries = 0] \in Checks
<1>1. 0 \in 0..Retries
  OBVIOUS
<1> QED BY <1>1 DEF Checks

LEMMA CheckType ==
  ASSUME WorkType, NEW c \in Checkers
  PROVE  /\ checker[c].todo \subseteq Instances /\ checker[c].failing \subseteq Instances
         /\ checker[c].tries \in 0..Retries
         /\ Idle \in Checks
BY DEF WorkType, Checks, Idle

LEMMA GoesType ==
  ASSUME WorkType, NEW c \in Checkers,
         NEW s \in {"idle", "probe", "mismatch", "reset", "healthy", "increment", "degraded",
                    "unhealthy"},
         Goes(c, s)
  PROVE  checker' \in [Checkers -> Checks]
BY DEF WorkType, Goes, Checks

LEMMA ConcludesType ==
  ASSUME WorkType, NEW c \in Checkers, NEW s \in {"reset", "healthy", "increment"},
         Concludes(c, s)
  PROVE  checker' \in [Checkers -> Checks]
<1>1. checker[c] \in Checks
  BY DEF WorkType
<1> DEFINE r == [checker[c] EXCEPT !.step = s, !.tries = 0,
                                   !.failing = checker[c].failing \ {checker[c].inst}]
<1>2. r \in Checks
  BY <1>1, ConcludedType
<1>3. checker' = [checker EXCEPT ![c] = r]
  BY DEF Concludes
<1> HIDE DEF r
<1> QED BY <1>2, <1>3 DEF WorkType

LEMMA TryAgainType ==
  ASSUME WorkType, NEW c \in Checkers, TryAgain(c)
  PROVE  checker' \in [Checkers -> Checks]
<1>1. CASE checker[c].tries < Retries
  <2>1. checker[c].tries + 1 \in 0..Retries
    BY <1>1, CheckType
  <2> QED BY <1>1, <2>1 DEF WorkType, TryAgain, Checks
<1>2. CASE ~(checker[c].tries < Retries)
  BY <1>2, ConcludesType DEF TryAgain
<1> QED BY <1>1, <1>2

LEMMA DoneType ==
  ASSUME WorkType, NEW c \in Checkers, Done(c)
  PROVE  checker' \in [Checkers -> Checks]
<1>1. checker[c] \in Checks
  BY DEF WorkType
<1>2. [checker[c] EXCEPT !.inst = NoInstance, !.step = "idle", !.tries = 0] \in Checks
  BY <1>1, EndedType
<1> QED BY <1>2, CheckType DEF WorkType, Done

LEMMA FaultType == WorkType /\ Fault => faults' \in 0..MaxFaults
BY DEF WorkType, Fault

-----------------------------------------------------------------------------
(* The steps                                                                *)

LEMMA InstanceTypes ==
  ASSUME TypeOK, NEW i \in Instances,
         \/ Start(i) \/ Keepalive(i) \/ Stop(i) \/ Kill(i) \/ Hearing(i) \/ Inherit(i)
         \/ LoseRegistration(i) \/ LoseDeregistration(i)
  PROVE  TypeOK'
<1>1. ClientType /\ TableType /\ WorkType
  BY Parts
<1>2. TableType'
  BY <1>1 DEF Start, Keepalive, Stop, Kill, Hearing, Inherit, LoseRegistration,
     LoseDeregistration, ClientOnly, table, TableType, Present
<1>3. UNCHANGED <<cleaner, checker>> /\ (UNCHANGED faults \/ Fault)
  BY DEF Start, Keepalive, Stop, Kill, Ends, Hearing, Inherit, LoseRegistration,
     LoseDeregistration, ClientOnly
<1>4. WorkType'
  BY <1>1, <1>3, FaultType DEF WorkType
<1>5. ClientType'
  <2>1. CASE Start(i)
    BY <1>1, <2>1 DEF ClientType, Start, ClientOnly
  <2>2. CASE Stop(i) \/ Kill(i)
    BY <1>1, <2>2 DEF ClientType, Stop, Kill, Ends, ClientOnly
  <2>3. CASE Hearing(i) \/ Inherit(i)
    BY <1>1, <2>3 DEF ClientType, Hearing, Inherit, ClientOnly
  <2>4. CASE Keepalive(i) \/ LoseRegistration(i) \/ LoseDeregistration(i)
    BY <1>1, <2>4 DEF ClientType, Keepalive, LoseRegistration, LoseDeregistration, ClientOnly,
       process
  <2> QED BY <2>1, <2>2, <2>3, <2>4
<1> QED BY <1>2, <1>4, <1>5, Parts

LEMMA RegistryTypes ==
  ASSUME TypeOK, NEW i \in Instances,
         Register(i) \/ MarkDown(i) \/ Deregister(i) \/ FastOffline(i) \/ Age(i)
  PROVE  TypeOK'
<1>1. ClientType /\ TableType /\ WorkType
  BY Parts
<1>2. UNCHANGED <<cleaner, checker>> /\ (UNCHANGED faults \/ Fault)
  BY DEF Register, MarkDown, Deregister, FastOffline, ByOperation, Age, HandlerOnly
<1>3. WorkType'
  BY <1>1, <1>2, FaultType DEF WorkType
<1>4. ClientType'
  BY <1>1 DEF ClientType, Register, MarkDown, Deregister, FastOffline, ByOperation, Age, HandlerOnly,
     process
<1>5. TableType'
  <2>1. CASE Register(i)
    BY <1>1, <2>1, UpsertType DEF Register
  <2>2. CASE MarkDown(i)
    <3>1. row' \in [Instances -> Rows] /\ UNCHANGED failures
      BY <1>1, <2>2 DEF MarkDown, TableType, Rows
    <3>2. ASSUME NEW j \in (unhealthy \cup old)' PROVE j \in Instances /\ row'[j] # "absent"
      BY <1>1, <2>2, <3>2 DEF MarkDown, TableType, Present
    <3> QED BY <1>1, <3>1, <3>2 DEF TableType, Present
  <2>3. CASE Deregister(i)
    BY <1>1, <2>3, SoftDeleteType DEF Deregister
  <2>4. CASE FastOffline(i)
    BY <1>1, <2>4 DEF FastOffline, ByOperation, table, TableType, Present
  <2>5. CASE Age(i)
    BY <1>1, <2>5 DEF Age, TableType, Present, Listed
  <2> QED BY <2>1, <2>2, <2>3, <2>4, <2>5
<1> QED BY <1>3, <1>4, <1>5, Parts

LEMMA CleanerTypes ==
  ASSUME TypeOK, CleanerStep
  PROVE  TypeOK'
<1>1. ClientType /\ TableType /\ WorkType
  BY Parts
<1>2. ClientType'
  BY <1>1 DEF CleanerStep, Look, DeleteDown, DeleteDownFails, DeleteStale, DeleteStaleFails,
     CleanerOnly, process, ClientType
<1>3. CASE Look
  <2>1. old \subseteq Instances
    BY <1>1 DEF TableType
  <2>2. WorkType'
    BY <1>1, <1>3, <2>1 DEF Look, CleanerOnly, WorkType
  <2>3. TableType'
    BY <1>1, <1>3 DEF Look, TableType, table, Present
  <2> QED BY <1>2, <2>2, <2>3, Parts
<1>4. CASE DeleteDown
  <2>1. WorkType'
    BY <1>1, <1>4 DEF DeleteDown, CleanerOnly, WorkType, Resting
  <2>2. row' \in [Instances -> Rows] /\ failures' \in [Instances -> 0..Threshold]
    BY <1>1, <1>4 DEF DeleteDown, TableType, Rows
  <2>3. ASSUME NEW j \in (unhealthy \cup old)' PROVE j \in Instances /\ row'[j] # "absent"
    BY <1>1, <1>4, <2>3 DEF DeleteDown, TableType, Present
  <2> QED BY <1>2, <2>1, <2>2, <2>3, Parts DEF TableType, Present
<1>5. CASE DeleteDownFails
  <2>1. WorkType'
    BY <1>1, <1>5, FaultType DEF DeleteDownFails, CleanerOnly, WorkType, Resting
  <2>2. TableType'
    BY <1>1, <1>5 DEF DeleteDownFails, TableType, table, Present
  <2> QED BY <1>2, <2>1, <2>2, Parts
<1>6. ASSUME NEW i \in Instances, DeleteStale(i) PROVE TypeOK'
  <2>1. TableType'
    BY <1>1, <1>6, SoftDeleteType DEF DeleteStale
  <2>2. WorkType'
    BY <1>1, <1>6 DEF DeleteStale, CleanerOnly, WorkType
  <2> QED BY <1>2, <2>1, <2>2, Parts
<1>7. ASSUME NEW i \in Instances, DeleteStaleFails(i) PROVE TypeOK'
  <2>1. TableType'
    BY <1>1, <1>7 DEF DeleteStaleFails, TableType, table, Present
  <2>2. faults' \in 0..MaxFaults
    BY <1>1, <1>7, FaultType DEF DeleteStaleFails
  <2>3. WorkType'
    BY <1>1, <1>7, <2>2 DEF DeleteStaleFails, CleanerOnly, WorkType
  <2> QED BY <1>2, <2>1, <2>3, Parts
<1> QED BY <1>3, <1>4, <1>5, <1>6, <1>7 DEF CleanerStep

LEMMA CheckerTypes ==
  ASSUME TypeOK, NEW c \in Checkers, CheckerStep(c)
  PROVE  TypeOK'
<1>1. ClientType /\ TableType /\ WorkType
  BY Parts
<1>2. ClientType' /\ UNCHANGED cleaner
  BY <1>1 DEF CheckerStep, List, Begin, Exempt, Probe, Mismatch, Reset, Healthy, Increment, Judge,
     CheckerOnly, process, ClientType
<1>3. SUFFICES TableType' /\ checker' \in [Checkers -> Checks] /\ faults' \in 0..MaxFaults
  BY <1>1, <1>2, Parts DEF WorkType
<1>4. checker[c] \in Checks /\ faults \in 0..MaxFaults
  BY <1>1 DEF WorkType
<1>5. CASE List(c)
  <2>1. checker' \in [Checkers -> Checks]
    BY <1>1, <1>4, <1>5 DEF List, WorkType, Checks
  <2> QED BY <1>1, <1>4, <1>5, <2>1 DEF List, TableType, table, Present
<1>6. CASE \E i \in Instances : Begin(c, i) \/ Exempt(c, i) \/ Probe(c, i)
  <2> PICK i \in Instances : Begin(c, i) \/ Exempt(c, i) \/ Probe(c, i)
    BY <1>6
  <2>1. TableType'
    BY <1>1 DEF Begin, Exempt, Probe, TableType, table, Present
  <2>2. CASE Begin(c, i)
    BY <1>1, <1>4, <2>1, <2>2 DEF Begin, WorkType, Checks
  <2>3. CASE Exempt(c, i)
    <3>1. [checker[c] EXCEPT !.todo = checker[c].todo \ {i}] \in Checks
      BY <1>4 DEF Checks
    <3>2. checker' \in [Checkers -> Checks]
      BY <1>1, <2>3, <3>1, CheckType DEF Exempt, WorkType
    <3> QED BY <1>1, <2>1, <2>3, <3>2, FaultType DEF Exempt
  <2>4. CASE Probe(c, i)
    <3>1. checker' \in [Checkers -> Checks]
      <4> DEFINE s == IF i \in checker[c].failing THEN "reset" ELSE "healthy"
      <4>1. s \in {"reset", "healthy"}
        OBVIOUS
      <4>2. Concludes(c, s) \/ Goes(c, "mismatch") \/ TryAgain(c)
        BY <2>4 DEF Probe
      <4> HIDE DEF s
      <4> QED BY <1>1, <4>1, <4>2, ConcludesType, GoesType, TryAgainType
    <3> QED BY <1>4, <2>1, <2>4, <3>1 DEF Probe
  <2> QED BY <2>2, <2>3, <2>4
<1>7. CASE \E i \in Instances : Mismatch(c, i) \/ Reset(c, i) \/ Healthy(c, i)
  <2> PICK i \in Instances : Mismatch(c, i) \/ Reset(c, i) \/ Healthy(c, i)
    BY <1>7
  <2>1. CASE Mismatch(c, i)
    BY <1>1, <1>4, <2>1, SoftDeleteType, TryAgainType DEF Mismatch
  <2>2. CASE Reset(c, i)
    <3>1. failures' \in [Instances -> 0..Threshold]
      BY <1>1, <2>2 DEF Reset, TableType
    <3>2. TableType'
      BY <1>1, <2>2, <3>1 DEF Reset, Touched, TableType, Present
    <3> QED BY <1>1, <1>4, <2>2, <3>2, GoesType DEF Reset
  <2>3. CASE Healthy(c, i)
    <3>1. TableType'
      BY <1>1, <2>3 DEF Healthy, TableType, Present
    <3> QED BY <1>1, <1>4, <2>3, <3>1, DoneType DEF Healthy
  <2> QED BY <2>1, <2>2, <2>3
<1>8. CASE \E i \in Instances : Increment(c, i)
  <2> PICK i \in Instances : Increment(c, i)
    BY <1>8
  <2> DEFINE n == IF failures[i] < Threshold THEN failures[i] + 1 ELSE Threshold
  <2>1. n \in 0..Threshold
    BY <1>1 DEF TableType
  <2>2. failures' \in [Instances -> 0..Threshold]
    BY <1>1, <2>1 DEF Increment, TableType
  <2>3. TableType'
    BY <1>1, <2>2 DEF Increment, Touched, TableType, Present
  <2>4. checker' \in [Checkers -> Checks]
    BY <1>1, GoesType, DoneType DEF Increment
  <2> QED BY <1>4, <2>3, <2>4 DEF Increment
<1>9. CASE \E i \in Instances : Judge(c, i)
  <2> PICK i \in Instances : Judge(c, i)
    BY <1>9
  <2>1. TableType'
    BY <1>1 DEF Judge, Touched, TableType, Present, Listed
  <2> QED BY <1>1, <1>4, <2>1, DoneType DEF Judge
<1> QED BY <1>5, <1>6, <1>7, <1>8, <1>9 DEF CheckerStep

LEMMA CrashTypes ==
  ASSUME TypeOK, Crash
  PROVE  TypeOK'
<1>1. ClientType /\ TableType /\ WorkType
  BY Parts
<1>2. ClientType'
  BY <1>1 DEF Crash, ClientType, process
<1>3. TableType'
  BY <1>1 DEF Crash, TableType, table, Present
<1>4. Idle \in Checks
  BY DEF Idle, Checks
<1>5. WorkType'
  BY <1>1, <1>4, FaultType DEF Crash, WorkType, Resting
<1> QED BY <1>2, <1>3, <1>5, Parts

LEMMA TypesStay == TypeOK /\ [Next]_vars => TypeOK'
<1> SUFFICES ASSUME TypeOK, [Next]_vars PROVE TypeOK'
  OBVIOUS
<1>1. CASE Next
  BY <1>1, InstanceTypes, RegistryTypes, CleanerTypes, CheckerTypes, CrashTypes DEF Next
<1>2. CASE UNCHANGED vars
  BY <1>2 DEF vars, process, table, TypeOK, Present
<1> QED BY <1>1, <1>2

\* Processes, requests, rows, the cleanup and the checks keep their types; only rows that
\* exist are old or unhealthy, only running instances deaf, and another one answers for
\* those only that have ended or are twins.
THEOREM Typing == Spec => []TypeOK
BY InitTypes, TypesStay, PTL DEF Spec
-----------------------------------------------------------------------------
(* Who is taken off the list                                                *)

\* The instances that may be taken off the list: all but those that run, have never ended
\* and have had their address for themselves.
Removable == {i \in Instances : proc[i] = "gone"} \cup twins

\* Whatever takes a row off the list, other than a stale heartbeat, is about one of them.
Left ==
  /\ stopped \cup leaves \cup marked \cup cleaner.hard \subseteq Removable
  /\ \A i \in Instances : row[i] = "down" => i \in Removable
  /\ \A c \in Checkers : checker[c].step = "mismatch" => checker[c].inst \in Removable

Started == \A i \in Instances : i \in registers \/ Present(i) => proc[i] # "new"

\* Without faults the heartbeat of an instance is stale only after its end.
Fresh ==
  faults = 0 => /\ old \cup cleaner.soft \subseteq Removable
                /\ \A i \in Instances : row[i] = "deleted" => i \in Removable

\* The inductive invariant.
IInv == TypeOK /\ Left /\ Started /\ Fresh

LEMMA InitIInv == Init => IInv
BY InitTypes DEF Init, IInv, Left, Started, Fresh, Removable, Present, Resting, Idle

\* After a fault nothing is claimed.
LEMMA FaultEndsFresh == TypeOK /\ Fault => Fresh'
BY DEF TypeOK, Fault, Fresh

\* A step of a process or of the network: the table and infrasrv's work stay.
LEMMA InstanceLeft ==
  ASSUME IInv, NEW i \in Instances,
         \/ Start(i) \/ Keepalive(i) \/ Stop(i) \/ Kill(i) \/ Hearing(i) \/ Inherit(i)
         \/ LoseRegistration(i) \/ LoseDeregistration(i)
  PROVE  (Left /\ Started /\ Fresh)' /\ UNCHANGED row
<1>0. TypeOK /\ Left /\ Started /\ Fresh
  BY DEF IInv
<1>1. UNCHANGED <<row, old, marked, cleaner, checker>>
  BY DEF Start, Keepalive, Stop, Kill, Hearing, Inherit, LoseRegistration, LoseDeregistration,
     ClientOnly, table
<1>2. /\ \A j \in Instances : proc[j] = "gone" => proc'[j] = "gone" \/ j \in twins'
      /\ twins \subseteq twins'
      /\ \A j \in Instances : proc[j] # "new" => proc'[j] # "new"
      /\ \A j \in leaves' : j \in leaves \/ (j \in Instances /\ proc'[j] = "gone")
      /\ \A j \in stopped' : j \in stopped \/ (j \in Instances /\ proc'[j] = "gone")
      /\ \A j \in registers' : j \in registers \/ proc'[j] # "new"
      /\ UNCHANGED faults \/ Fault
  <2>1. CASE Start(i) \/ Inherit(i) \/ Hearing(i)
    BY <1>0, <2>1 DEF TypeOK, Start, Inherit, Hearing
  <2>2. CASE Stop(i) \/ Kill(i)
    BY <1>0, <2>2 DEF TypeOK, Stop, Kill, Ends
  <2>3. CASE Keepalive(i) \/ LoseRegistration(i) \/ LoseDeregistration(i)
    BY <1>0, <2>3 DEF TypeOK, Keepalive, LoseRegistration, LoseDeregistration, process
  <2> QED BY <2>1, <2>2, <2>3
<1>3. Removable \subseteq Removable'
  BY <1>2 DEF Removable
<1>4. Left'
  <2>1. (stopped \cup leaves \cup marked \cup cleaner.hard)' \subseteq Removable'
    BY <1>1, <1>2, <1>3 DEF IInv, Left, Removable
  <2>2. \A j \in Instances : row'[j] = "down" => j \in Removable'
    BY <1>1, <1>3 DEF IInv, Left
  <2>3. \A c \in Checkers : checker'[c].step = "mismatch" => checker'[c].inst \in Removable'
    BY <1>1, <1>3 DEF IInv, Left
  <2> QED BY <2>1, <2>2, <2>3 DEF Left
<1>5. Started'
  BY <1>1, <1>2 DEF IInv, Started, Present
<1>6. Fresh'
  <2>1. CASE Fault
    BY <2>1, FaultEndsFresh DEF IInv
  <2>2. CASE UNCHANGED faults
    BY <1>1, <1>3, <2>2 DEF IInv, Fresh
  <2> QED BY <1>2, <2>1, <2>2
<1> QED BY <1>1, <1>4, <1>5, <1>6

\* The rest of the steps leave the processes alone.
LEMMA RegistryLeft ==
  ASSUME IInv, NEW i \in Instances,
         Register(i) \/ MarkDown(i) \/ Deregister(i) \/ FastOffline(i) \/ Age(i)
  PROVE  (Left /\ Started /\ Fresh)'
<1>1. UNCHANGED <<proc, cleaner, checker>> /\ Removable' = Removable
  BY DEF Register, MarkDown, Deregister, FastOffline, ByOperation, Age, HandlerOnly, process, Removable
<1>2. /\ leaves' \subseteq leaves \cup stopped /\ stopped' \subseteq stopped
      /\ marked' \subseteq marked \cup leaves /\ registers' \subseteq registers
  BY DEF Register, MarkDown, Deregister, FastOffline, ByOperation, Age, HandlerOnly, process
<1>3. \A j \in Instances :
        /\ row'[j] = "down" => row[j] = "down" \/ j \in leaves
        /\ row'[j] = "deleted" => row[j] = "deleted" \/ j \in marked
        /\ row'[j] # "absent" => row[j] # "absent" \/ j \in registers
  BY DEF IInv, TypeOK, Register, Upsert, MarkDown, Deregister, SoftDelete, FastOffline, ByOperation,
     Age, HandlerOnly, table, Present
<1>4. Left'
  BY <1>1, <1>2, <1>3 DEF IInv, Left
<1>5. Started'
  BY <1>1, <1>2, <1>3 DEF IInv, Started, Present
<1>6. Fresh'
  <2>1. CASE Age(i)
    <3>1. CASE Fault
      BY <3>1, FaultEndsFresh DEF IInv
    <3>2. CASE proc[i] # "running"
      <4>1. i \in Removable
        BY <2>1, <3>2 DEF IInv, TypeOK, Age, Listed, Started, Present, Removable
      <4> QED BY <1>1, <2>1, <3>2, <4>1 DEF IInv, Fresh, Age
    <3> QED BY <2>1, <3>1, <3>2 DEF Age
  <2>2. CASE Register(i) \/ MarkDown(i) \/ Deregister(i) \/ FastOffline(i)
    <3>1. old' \subseteq old /\ UNCHANGED faults
      BY <2>2 DEF Register, Upsert, MarkDown, Deregister, SoftDelete, FastOffline, ByOperation,
         HandlerOnly, table
    <3> QED BY <1>1, <1>3, <3>1 DEF IInv, Left, Fresh
  <2> QED BY <2>1, <2>2
<1> QED BY <1>4, <1>5, <1>6

LEMMA CleanerLeft ==
  ASSUME IInv, CleanerStep
  PROVE  /\ (Left /\ Started /\ Fresh)'
         /\ \A j \in Instances : row'[j] # row[j] => \/ j \in cleaner.soft /\ row'[j] = "deleted"
                                                     \/ j \in cleaner.hard
<1>1. UNCHANGED <<proc, stopped, registers, leaves, marked, checker>> /\ Removable' = Removable
  BY DEF CleanerStep, Look, DeleteDown, DeleteDownFails, DeleteStale, DeleteStaleFails,
     CleanerOnly, process, Removable
<1>2. /\ \A j \in Instances : row'[j] # row[j] => \/ j \in cleaner.soft /\ row'[j] = "deleted"
                                                  \/ j \in cleaner.hard
      /\ \A j \in Instances : row'[j] = "down" => row[j] = "down"
      /\ \A j \in Instances : row'[j] # "absent" => row[j] # "absent"
      /\ old' \subseteq old
      /\ UNCHANGED faults \/ Fault
      /\ cleaner'.hard \subseteq cleaner.hard \cup {j \in Instances : row[j] = "down"}
      /\ cleaner'.soft \subseteq cleaner.soft \cup old
  <2>1. CASE Look
    BY <2>1 DEF IInv, TypeOK, Look, table
  <2>2. CASE DeleteDown
    BY <2>2 DEF IInv, TypeOK, DeleteDown, Resting
  <2>3. CASE DeleteDownFails
    BY <2>3 DEF DeleteDownFails, Resting, table
  <2>4. CASE \E i \in Instances : DeleteStale(i)
    BY <2>4 DEF IInv, TypeOK, DeleteStale, SoftDelete, Present
  <2>5. CASE \E i \in Instances : DeleteStaleFails(i)
    BY <2>5 DEF IInv, TypeOK, DeleteStaleFails, table
  <2> QED BY <2>1, <2>2, <2>3, <2>4, <2>5 DEF CleanerStep
<1>3. Left'
  BY <1>1, <1>2 DEF IInv, Left
<1>4. Started'
  BY <1>1, <1>2 DEF IInv, Started, Present
<1>5. Fresh'
  <2>1. CASE Fault
    BY <2>1, FaultEndsFresh DEF IInv
  <2>2. CASE UNCHANGED faults
    BY <1>1, <1>2, <2>2 DEF IInv, Left, Fresh
  <2> QED BY <1>2, <2>1, <2>2
<1> QED BY <1>2, <1>3, <1>4, <1>5

\* The step a check comes to.
LEMMA StepAfter ==
  ASSUME TypeOK, NEW c \in Checkers
  PROVE  /\ \A s : Goes(c, s) \/ Concludes(c, s) => checker'[c].step = s
         /\ Done(c) => checker'[c].step = "idle"
         /\ TryAgain(c) => checker'[c].step \in {"probe", "increment"}
<1>1. checker \in [Checkers -> Checks] /\ checker[c] \in Checks
  BY DEF TypeOK
<1>2. ASSUME NEW s, Goes(c, s) PROVE checker'[c].step = s
  BY <1>1, <1>2 DEF Goes, Checks
<1>3. ASSUME NEW s, Concludes(c, s) PROVE checker'[c].step = s
  <2> DEFINE r == [checker[c] EXCEPT !.step = s, !.tries = 0,
                                     !.failing = checker[c].failing \ {checker[c].inst}]
  <2>1. r.step = s
    BY <1>1 DEF Checks
  <2>2. checker' = [checker EXCEPT ![c] = r]
    BY <1>3 DEF Concludes
  <2> HIDE DEF r
  <2> QED BY <1>1, <2>1, <2>2
<1>4. ASSUME Done(c) PROVE checker'[c].step = "idle"
  <2> DEFINE r == [checker[c] EXCEPT !.inst = NoInstance, !.step = "idle", !.tries = 0]
  <2>1. r.step = "idle" /\ Idle.step = "idle"
    BY <1>1 DEF Checks, Idle
  <2>2. checker' = [checker EXCEPT ![c] = IF checker[c].todo = {} THEN Idle ELSE r]
    BY <1>4 DEF Done
  <2> HIDE DEF r
  <2> QED BY <1>1, <2>1, <2>2
<1>5. ASSUME TryAgain(c) PROVE checker'[c].step \in {"probe", "increment"}
  <2>1. CASE checker[c].tries < Retries
    BY <1>1, <1>5, <2>1 DEF TryAgain, Checks
  <2>2. CASE ~(checker[c].tries < Retries)
    BY <1>3, <1>5, <2>2 DEF TryAgain
  <2> QED BY <2>1, <2>2
<1> QED BY <1>2, <1>3, <1>4, <1>5

\* A check comes to a mismatch by a probe that a successor or a replica has answered.
LEMMA CheckerLeft ==
  ASSUME IInv, NEW c \in Checkers, CheckerStep(c)
  PROVE  /\ (Left /\ Started /\ Fresh)'
         /\ \A j \in Instances : row'[j] # row[j] => j \in Removable
<1>1. /\ UNCHANGED <<proc, stopped, registers, leaves, marked, cleaner>> /\ Removable' = Removable
  BY DEF CheckerStep, List, Begin, Exempt, Probe, Mismatch, Reset, Healthy, Increment, Judge,
     CheckerOnly, process, Removable
<1>2. \A d \in Checkers : checker'[d].step = "mismatch" => checker'[d].inst \in Removable
  <2>1. \A d \in Checkers : d # c => checker'[d] = checker[d]
    BY DEF IInv, TypeOK, CheckerStep, List, Begin, Exempt, Probe, Mismatch, Reset, Healthy, Increment,
       Judge, TryAgain, Goes, Concludes, Done
  <2>2. checker'[c].step = "mismatch" => checker'[c].inst \in Removable
    <3>1. checker[c] \in Checks
      BY DEF IInv, TypeOK
    <3>2. CASE \E i \in Instances : Probe(c, i) /\ Goes(c, "mismatch") /\ i \in heirs
      <4> PICK i \in Instances : Probe(c, i) /\ Goes(c, "mismatch") /\ i \in heirs
        BY <3>2
      <4>1. checker'[c].inst = i
        BY <3>1 DEF IInv, TypeOK, Probe, Checking, Goes, Checks
      <4> QED BY <4>1 DEF IInv, TypeOK, Removable
    <3>3. CASE checker'[c].step # "mismatch"
      BY <3>3
    <3>4. \/ \E i \in Instances : Probe(c, i) /\ Goes(c, "mismatch") /\ i \in heirs
          \/ checker'[c].step # "mismatch"
      <4>1. CASE List(c)
        BY <3>1, <4>1 DEF IInv, TypeOK, List, Idle, Checks
      <4>2. CASE \E i \in Instances : Begin(c, i) \/ Exempt(c, i)
        BY <3>1, <4>2 DEF IInv, TypeOK, Begin, Exempt, Idle, Checks
      <4>3. ASSUME NEW i \in Instances, Probe(c, i)
            PROVE  (Goes(c, "mismatch") /\ i \in heirs) \/ checker'[c].step # "mismatch"
        <5> DEFINE s == IF i \in checker[c].failing THEN "reset" ELSE "healthy"
        <5>1. s # "mismatch"
          OBVIOUS
        <5>2. Concludes(c, s) \/ (Goes(c, "mismatch") /\ i \in heirs) \/ TryAgain(c)
          BY <4>3 DEF Probe
        <5> HIDE DEF s
        <5> QED BY <5>1, <5>2, StepAfter DEF IInv
      <4>4. CASE \E i \in Instances : Mismatch(c, i)
        BY <4>4, StepAfter DEF IInv, Mismatch
      <4>5. CASE \E i \in Instances : Reset(c, i) \/ Healthy(c, i) \/ Judge(c, i) \/ Increment(c, i)
        BY <4>5, StepAfter DEF IInv, Reset, Healthy, Judge, Increment
      <4> QED BY <4>1, <4>2, <4>3, <4>4, <4>5 DEF CheckerStep
    <3> QED BY <3>2, <3>3, <3>4
  <2> QED BY <1>1, <2>1, <2>2 DEF IInv, Left
<1>3. /\ \A j \in Instances : row'[j] # row[j] => j \in Removable /\ row'[j] = "deleted"
      /\ \A j \in Instances : row'[j] # "absent" => row[j] # "absent"
  <2>1. CASE \E i \in Instances : Mismatch(c, i)
    <3> PICK i \in Instances : Mismatch(c, i)
      BY <2>1
    <3>1. i \in Removable
      BY DEF IInv, Left, Mismatch, Checking
    <3> QED BY <3>1 DEF IInv, TypeOK, Mismatch, SoftDelete, Present
  <2>2. CASE UNCHANGED row
    BY <2>2
  <2> QED BY <2>1, <2>2 DEF CheckerStep, List, Begin, Exempt, Probe, Reset, Healthy, Increment, Judge,
          table
<1>4. old' \subseteq old /\ (UNCHANGED faults \/ Fault)
  BY DEF CheckerStep, List, Begin, Exempt, Probe, Mismatch, SoftDelete, Reset, Healthy, Increment,
     Judge, Touched, table
<1>5. Left'
  BY <1>1, <1>2, <1>3 DEF IInv, Left
<1>6. Started'
  BY <1>1, <1>3 DEF IInv, Started, Present
<1>7. Fresh'
  <2>1. CASE Fault
    BY <2>1, FaultEndsFresh DEF IInv
  <2>2. CASE UNCHANGED faults
    BY <1>1, <1>3, <1>4, <2>2 DEF IInv, Fresh
  <2> QED BY <1>4, <2>1, <2>2
<1> QED BY <1>3, <1>5, <1>6, <1>7

LEMMA CrashLeft ==
  ASSUME IInv, Crash
  PROVE  (Left /\ Started /\ Fresh)' /\ UNCHANGED row
<1>1. Fresh'
  BY FaultEndsFresh DEF IInv, Crash
<1>2. Left' /\ Started' /\ UNCHANGED row
  BY DEF IInv, Left, Started, Crash, Resting, Idle, Removable, Present, process, table
<1> QED BY <1>1, <1>2

THEOREM Invariance == Spec => []IInv
<1>1. Init => IInv
  BY InitIInv
<1>2. IInv /\ [Next]_vars => IInv'
  <2> SUFFICES ASSUME IInv, [Next]_vars PROVE IInv'
    OBVIOUS
  <2>1. TypeOK'
    BY TypesStay DEF IInv
  <2>2. (Left /\ Started /\ Fresh)'
    <3>1. CASE Next
      BY <3>1, InstanceLeft, RegistryLeft, CleanerLeft, CheckerLeft, CrashLeft DEF Next
    <3>2. CASE UNCHANGED vars
      BY <3>2 DEF vars, process, table, IInv, Left, Started, Fresh, Removable, Present
    <3> QED BY <3>1, <3>2
  <2> QED BY <2>1, <2>2 DEF IInv
<1> QED BY <1>1, <1>2, PTL DEF Spec

\* A registered instance that has its id and its address for itself stays listed while it
\* runs, as long as requests arrive and nothing restarts, however checks, cleanups and
\* deregistrations of others overlap, and whatever shares an id or an address among these.
THEOREM StaysOnTheList == Spec => []StaysListed
<1>1. IInv => StaysListed
  <2> SUFFICES ASSUME IInv, faults = 0, NEW i \in Instances \ twins, proc[i] = "running"
               PROVE  row[i] \in {"absent", "up"}
    BY DEF StaysListed
  <2>1. i \notin Removable /\ row[i] \in Rows
    BY DEF IInv, TypeOK, Removable
  <2> QED BY <2>1 DEF IInv, Left, Fresh, Rows
<1> QED BY <1>1, Invariance, PTL

\* Whatever is lost or restarts: only a cleanup that has found its heartbeat to be out of date
\* takes a running instance off the list that has its id and its address for itself, and
\* none deletes its row.
THEOREM OnlyStaleIsDelisted == Spec => DelistedOnlyWhenStale
<1>1. ASSUME IInv, [Next]_vars, NEW i \in Instances \ twins, proc[i] = "running"
      PROVE  /\ row[i] = "up" /\ row'[i] # "up" => i \in cleaner.soft
             /\ Present(i) => row'[i] \in {"up", "deleted"}
  <2>1. i \notin leaves \cup marked \cup cleaner.hard /\ i \notin Removable /\ row[i] # "down"
    BY <1>1 DEF IInv, Left, Removable
  <2>2. row[i] \in Rows
    BY <1>1 DEF IInv, TypeOK
  <2>3. \/ row'[i] = row[i] \/ row'[i] = "up"
        \/ i \in cleaner.soft /\ row'[i] = "deleted"
    <3>1. CASE \E j \in Instances : Register(j)
      BY <1>1, <3>1 DEF IInv, TypeOK, Register, Upsert
    <3>2. CASE \E j \in Instances : MarkDown(j) \/ Deregister(j) \/ FastOffline(j) \/ Age(j)
      BY <1>1, <2>1, <3>2 DEF IInv, TypeOK, MarkDown, Deregister, SoftDelete, FastOffline, ByOperation,
         Age, table
    <3>3. CASE CleanerStep
      BY <1>1, <2>1, <3>3, CleanerLeft
    <3>4. CASE \E c \in Checkers : CheckerStep(c)
      BY <1>1, <2>1, <3>4, CheckerLeft
    <3>5. CASE UNCHANGED vars
      BY <3>5 DEF vars, table
    <3> QED BY <1>1, <3>1, <3>2, <3>3, <3>4, <3>5, InstanceLeft, CrashLeft DEF Next
  <2> QED BY <2>1, <2>2, <2>3 DEF Present, Rows
<1>2. IInv /\ [Next]_vars =>
        [\A i \in Instances \ twins : proc[i] = "running" =>
           /\ row[i] = "up" /\ row'[i] # "up" => i \in cleaner.soft
           /\ Present(i) => row'[i] \in {"up", "deleted"}]_vars
  BY <1>1
<1> QED BY <1>2, Invariance, PTL DEF Spec, DelistedOnlyWhenStale
=============================================================================
