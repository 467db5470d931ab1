-------------------------- MODULE WorkflowRunProofs --------------------------
(***************************************************************************)
(* Proofs about WorkflowRun, for all workers, callbacks and caps.          *)
(*                                                                         *)
(* For all graphs and any number of workers that die, nothing is executed  *)
(* that no finished node has led to, and no run succeeds without an END.   *)
(* Where no JOIN waits for a JOIN or for a callback, a row that is open    *)
(* belongs to a job that is queued or in hand: a JOIN that waits for such  *)
(* a row is never the last one at work, even if its decision is out of     *)
(* date when it is carried out.  A node that can only be reached in one    *)
(* way is executed once and its result stays, as long as no worker dies.   *)
(* In a graph that runs one node after the other, with loops, this holds   *)
(* for every node in every round, the context loses nothing, and a loop    *)
(* runs the rounds that its condition and its cap say.                     *)
(***************************************************************************)
EXTENDS WorkflowRun, TLAPS, WellFoundedInduction

-----------------------------------------------------------------------------
(* Invariants for every graph                                               *)

At(w, i) == Busy(w) /\ Here(w) = i
\* What the orchestrator knows of the node n when it has been executed.
Follows(n, status, next) ==
  /\ status \in {"SUCCESS", "FAILURE", "SUSPENDED"}
  /\ Successors(n, next)
  /\ \A x \in next \cap Nodes : n \in Sources[x]
  /\ status = "SUSPENDED" => IsAsync(n) /\ next = Config[n].next
  /\ Config[n].kind = "END" => (status = "SUCCESS" => Config[n].ok)
  /\ status = "FAILURE" => Config[n].kind = "END" /\ ~Config[n].ok

Shape(r) ==
  /\ r.pc # "failing" => r.node \in Nodes
  /\ r.pc \in {"save", "dispatch"} => Follows(r.node, r.status, r.next)
  /\ r.pc = "dispatch" => r.status # "FAILURE"
  /\ r.pc = "ending" => Config[r.node].kind = "END" /\ Config[r.node].ok

JobShape == \A w \in Workers : Busy(w) => Shape(job[w])

\* A job that executes has a row, and rows stay.
Executing == {"running", "save", "dispatch", "ending"}
Begun ==
  /\ \A w \in Workers : Busy(w) /\ job[w].pc \in Executing => attempts[Here(w)] > 0
  /\ \A i \in Nodes \X Indexes : attempts[i] > 0 => instance[i] # "none"

\* A callback is about an async node that has been executed.
CallbackShape ==
  \A c \in Callers : callback[c].pc # "idle" =>
    /\ callback[c].at \in Nodes \X Indexes
    /\ attempts[callback[c].at] > 0 /\ IsAsync(callback[c].at[1])

AtWork(n, k) ==
  \/ queue[<<n, k>>] > 0
  \/ n \in Nodes /\ attempts[<<n, k>>] > 0
  \/ \E w \in Workers : At(w, <<n, k>>)

HasSource(n, k) == \E p \in Sources[n], m \in 1..k : attempts[<<p, m>>] > 0

\* Nothing is sent, in hand or executed but what a node before it has led to.
Sourced == \A n \in Nodes \ Entry, k \in Indexes : AtWork(n, k) => HasSource(n, k)

\* A run that has not been triggered has done nothing.
Quiet == run = "PENDING" => \A n \in Ids, k \in Indexes : ~AtWork(n, k)

\* The inductive invariant.
IInv == TypeOK /\ JobShape /\ Begun /\ CallbackShape /\ Sourced /\ Quiet /\ SuccessHasEnd

-----------------------------------------------------------------------------
(* No wake-up is lost                                                       *)

\* Graphs in which every JOIN waits for nodes that finish by themselves: the row of a
\* JOIN may be reopened by a job that will wait, that of an async ACTION is open until it
\* is called back.  A JOIN of mode ANY is dispatched by the nodes it looks up, if any.
Wakeable ==
  /\ \A n \in OfKind("ACTION") : Config[n].async => Config[n].next # {}
  /\ \A n \in OfKind("JOIN") : \A u \in Upstream(n) : Config[u].kind # "JOIN" /\ ~IsAsync(u)
  /\ \A n \in OfKind("JOIN") : Config[n].mode = "ANY" =>
       n \notin Entry /\ (Upstream(n) = {} \/ Sources[n] \subseteq Upstream(n))

\* A JOIN that has looked already and will just end.
Doomed(w) ==
  /\ job[w].pc \in {"read", "running"} /\ Config[job[w].node].kind = "JOIN"
  /\ ~Ready(job[w].node, job[w].seen)

Live == (\E j \in Jobs : queue[j] > 0) \/ (\E w \in Workers : Busy(w) /\ ~Doomed(w))

\* The job that will close the row i, or fail the run.
Handling(w) ==
  \/ job[w].pc \in {"loaded", "read", "running", "failing"}
  \/ job[w].pc = "save" /\ job[w].status = "FAILURE"

Handled(i) == queue[i] > 0 \/ \E w \in Workers : At(w, i) /\ Handling(w)

OpenRowsHandled ==
  \A n \in Nodes, k \in Indexes :
    Config[n].kind # "JOIN" /\ ~IsAsync(n) /\ instance[<<n, k>>] \notin {"none", "SUCCESS"}
      => Handled(<<n, k>>)

WakeInv == (run \in {"PENDING", "RUNNING"} => OpenRowsHandled) /\ (run = "RUNNING" => Live)

-----------------------------------------------------------------------------
(* Nodes that are executed once                                             *)

\* Only one node dispatches n, and itself is such a node, or n is an entry.  An
\* async node dispatches twice (when it is suspended and when it is called back), a
\* LOOP is dispatched every round.
Single(S) ==
  /\ S \subseteq Nodes
  /\ \A n \in S : Config[n].kind # "LOOP"
  /\ \A n \in S : \A p \in Sources[n] :
       n \notin Entry /\ p \in S /\ ~IsAsync(p) /\ Sources[n] = {p}

\* The row i has a result that nobody will change but a callback.
Settled(i) == attempts[i] > 0 /\ instance[i] \in {"SUCCESS", "SUSPENDED"}

\* How far the only job of the row i is.
Stage(w, i) ==
  /\ job[w].pc \in {"loaded", "read"} => attempts[i] = 0
  /\ job[w].pc = "running" => instance[i] = "RUNNING"
  /\ job[w].pc \in {"save", "dispatch"} /\ job[w].status # "FAILURE" => Settled(i)

\* There is at most one job for i, and it is executed once.
One(i) ==
  /\ queue[i] \in {0, 1} /\ attempts[i] \in {0, 1}
  /\ queue[i] > 0 => attempts[i] = 0 /\ \A w \in Workers : ~At(w, i)
  /\ \A w, v \in Workers : At(w, i) /\ At(v, i) => w = v
  /\ \A w \in Workers : At(w, i) => Stage(w, i)

\* The node that has dispatched <<n, k>> has ended.
SourceLeft(n, k) ==
  \A p \in Sources[n] : attempts[<<p, k>>] > 0 /\ \A w \in Workers : ~At(w, <<p, k>>)

OnceInv(S) ==
  \A n \in S, k \in Indexes : One(<<n, k>>) /\ (AtWork(n, k) => SourceLeft(n, k))

\* A callback that is being handled has found the row suspended, and its result is there.
CallbackInv(S) ==
  \A c \in Callers : callback[c].pc \in {"checked", "stored", "accepted"} /\ callback[c].at[1] \in S =>
    Settled(callback[c].at) /\ (callback[c].pc # "checked" => instance[callback[c].at] = "SUCCESS")

\* What nodes of S have led to, they have led to with a result.
ResultInv(S) ==
  \A n \in Nodes \ Entry, k \in Indexes : Sources[n] \subseteq S /\ AtWork(n, k) =>
    \E p \in Sources[n], m \in 1..k : Settled(<<p, m>>)

-----------------------------------------------------------------------------
(* Graphs in which one node is executed after the other                     *)

\* The job is the only one.
Alone ==
  /\ \A i \in Jobs : queue[i] \in {0, 1}
  /\ \A i, j \in Jobs : queue[i] > 0 /\ queue[j] > 0 => i = j
  /\ \A i \in Jobs, w \in Workers : ~(queue[i] > 0 /\ Busy(w))
  /\ \A v, w \in Workers : Busy(v) /\ Busy(w) => v = w

\* What has been executed is behind the node n in round k, or is n in round k.
Behind(rank, n, k) ==
  \A m \in Nodes, j \in Indexes : attempts[<<m, j>>] > 0 => j < k \/ (j = k /\ rank[m] < rank[n])
UpTo(rank, n, k) ==
  \A m \in Nodes, j \in Indexes : attempts[<<m, j>>] > 0 =>
    j < k \/ (j = k /\ rank[m] < rank[n]) \/ <<m, j>> = <<n, k>>

SeqInv(rank) ==
  /\ Alone
  /\ \A i \in Nodes \X Indexes : attempts[i] \in {0, 1}
  /\ \A n \in Nodes, k \in Indexes : queue[<<n, k>>] > 0 => Behind(rank, n, k)
  /\ \A w \in Workers : job[w].pc \in {"loaded", "read"} => Behind(rank, job[w].node, job[w].k)
  /\ \A w \in Workers : job[w].pc \in {"running", "save", "dispatch"} => UpTo(rank, job[w].node, job[w].k)

\* What the orchestrator of the only job knows of rows and context.
Knows(w) ==
  /\ job[w].pc = "running" => instance[Here(w)] = "RUNNING"
  /\ job[w].pc = "save" => instance[Here(w)] = job[w].status
  /\ job[w].pc = "dispatch" => instance[Here(w)] = "SUCCESS"
  /\ job[w].pc \in {"loaded", "read", "running", "save"} => job[w].ctx = context

\* A node that is SUCCESS is so in the context, or its orchestrator is about to write it there.
Recorded(n, k) ==
  /\ Config[n].kind = "END" => Config[n].ok
  /\ context[n] = "SUCCESS" \/ \E w \in Workers : job[w].pc = "save" /\ Here(w) = <<n, k>>

Preceded(n, k) == \E p \in Sources[n], m \in 1..k : instance[<<p, m>>] = "SUCCESS"

SeqResults ==
  /\ \A i \in Nodes \X Indexes : attempts[i] = 0 => instance[i] = "none"
  /\ \A w \in Workers : Knows(w)
  /\ \A n \in Nodes, k \in Indexes : instance[<<n, k>>] = "SUCCESS" => Recorded(n, k)
  /\ \A n \in Nodes \ Entry, k \in Indexes : AtWork(n, k) => Preceded(n, k)

-----------------------------------------------------------------------------
(* How far a loop is                                                        *)

Holds(l, k) == Config[l].met[k] = {TRUE}
Inside(l) == (BodyOf(l) \cup Config[l].body) \cap Nodes

\* The loop l is entered from F, whose nodes run before any loop, so in round 1: a loop_index
\* belongs to the job, which would carry it from one loop into the next.  Its body begins with
\* one node, is left by the loop only and has no loop in it.  With one round to go, the
\* condition does not hold from the start.
PlainLoop(l, F) ==
  /\ \E b \in Nodes : Config[l].body = {b} /\ Sources[b] = {l}
  /\ \A n \in Inside(l) :
       /\ n \notin Entry /\ Config[n].kind # "LOOP"
       /\ Sources[n] \subseteq Inside(l) \cup {l} /\ Controllers(n) \subseteq {l}
       /\ \A next \in SUBSET Ids : Successors(n, next) => next \cap Nodes \subseteq Inside(l)
  /\ ExitsOf(l) \cap Inside(l) = {}
  /\ Sources[l] \ Inside(l) \subseteq F /\ F \cap Inside(l) = {}
  /\ Config[l].max > 1 \/ ~Holds(l, 0)

PlainLoops(F) ==
  /\ \A f \in F : f \in Nodes /\ Config[f].kind # "LOOP" /\ Sources[f] \subseteq F
  /\ \A l \in OfKind("LOOP") : PlainLoop(l, F)

Fixed(l) == \A k \in 0..MaxIndex : Config[l].met[k] \in {{TRUE}, {FALSE}}
\* The condition has not held in the rounds up to k, of which the last one does not count.
GoesOn(l, k) == \A j \in 1..k : j < Config[l].max => ~Holds(l, j)

Entered(l) == \E k \in Indexes : attempts[<<l, k>>] > 0
Left(l) == \E k \in Indexes : \E x \in ExitsOf(l) \cap Nodes : attempts[<<x, k>>] > 0
Done(l) == Rounds(l) = 1..Planned(l)

\* The job is about to ask the loop, about to begin the round, or in it.
AtLoop(l, k) == Rounds(l) = 1..k - 1 /\ k <= Config[l].max /\ GoesOn(l, k - 1) /\ ~Left(l)
Begins(l, k) == Rounds(l) = 1..k - 1 /\ k <= Config[l].max /\ GoesOn(l, k) /\ ~Left(l) /\ Entered(l)
InRound(l, k) == Rounds(l) = 1..k /\ k <= Config[l].max /\ GoesOn(l, k) /\ ~Left(l) /\ Entered(l)

\* What holds when the job is at n in round k: before its row is written, and then.
Before(l, n, k) ==
  /\ n = l => AtLoop(l, k)
  /\ n \in Config[l].body => Begins(l, k)
  /\ n \in Inside(l) \ Config[l].body => InRound(l, k)
  /\ n \notin Inside(l) \cup {l} /\ Entered(l) => Done(l)
During(l, n, k) ==
  /\ n = l => AtLoop(l, k)
  /\ n \in Inside(l) => InRound(l, k)
  /\ n \notin Inside(l) \cup {l} /\ Entered(l) => Done(l)
After(l, n, k, next) ==
  /\ n = l => (next = Config[l].body /\ Begins(l, k)) \/ (next = ExitsOf(l) /\ Done(l))
  /\ n \in Inside(l) => InRound(l, k)
  /\ n \notin Inside(l) \cup {l} /\ Entered(l) => Done(l)

LoopInv(l) ==
  /\ \A n \in Nodes, k \in Indexes : queue[<<n, k>>] > 0 => Before(l, n, k)
  /\ \A w \in Workers : job[w].pc \in {"loaded", "read"} => Before(l, job[w].node, job[w].k)
  /\ \A w \in Workers : job[w].pc = "running" => During(l, job[w].node, job[w].k)
  /\ \A w \in Workers :
       job[w].pc \in {"save", "dispatch"} => After(l, job[w].node, job[w].k, job[w].next)
  /\ Rounds(l) # {} => Entered(l)
  /\ Entered(l) /\ Left(l) => Done(l)

\* Before a loop the job is in round 1.
FirstRound(F) == \A f \in F, k \in Indexes : AtWork(f, k) => k = 1

-----------------------------------------------------------------------------
(* The graph                                                                *)

LEMMA NodeFacts ==
  /\ MaxIndex \in Nat \ {0} /\ AttemptCap \in Nat \ {0} /\ MaxFaults \in Nat
  /\ Nodes \subseteq Ids /\ Entry \subseteq Ids
  /\ \A n \in Nodes :
       /\ Config[n].kind \in {"ACTION", "LOGIC", "FORK", "JOIN", "LOOP", "END"}
       /\ Config[n].next \subseteq Ids
BY WorkflowAssumption

LEMMA IndexFacts ==
  /\ MaxIndex \in Nat /\ 1 \in Indexes /\ Indexes \subseteq Nat
  /\ \A k : k \in Indexes <=> k \in Nat /\ 1 <= k /\ k <= MaxIndex
BY NodeFacts DEF Indexes

LEMMA KindFacts ==
  /\ \A n \in OfKind("ACTION") : Config[n].async \in BOOLEAN
  /\ \A n \in OfKind("LOGIC") : Config[n].yes \subseteq Ids /\ Config[n].no \subseteq Ids
  /\ \A n \in OfKind("FORK") : Config[n].branches \subseteq Ids
  /\ \A n \in OfKind("JOIN") : Config[n].mode \in {"ALL", "ANY"}
  /\ \A n \in OfKind("END") : Config[n].ok \in BOOLEAN /\ Config[n].next = {}
BY WorkflowAssumption

LEMMA LoopFacts ==
  ASSUME NEW l \in OfKind("LOOP")
  PROVE  /\ l \in Nodes /\ Config[l].body \subseteq Ids
         /\ ExitsOf(l) \subseteq Ids /\ ExitsOf(l) # {} /\ Config[l].max \in Indexes
BY WorkflowAssumption DEF ExitsOf, OfKind

LEMMA SourceFacts ==
  ASSUME NEW p \in Nodes, NEW n \in Nodes
  PROVE  /\ n \in Config[p].next => p \in Sources[n]
         /\ Config[p].kind = "LOGIC" /\ n \in Config[p].yes \cup Config[p].no => p \in Sources[n]
         /\ Config[p].kind = "FORK" /\ n \in Config[p].branches => p \in Sources[n]
         /\ Config[p].kind = "LOOP" /\ n \in Config[p].body \cup ExitsOf(p) => p \in Sources[n]
BY DEF Sources, OfKind

LEMMA LoopSources ==
  ASSUME NEW p \in Nodes, NEW l \in Controllers(p)
  PROVE  /\ l \in OfKind("LOOP") /\ p \in Sources[l]
         /\ \A x \in ExitsOf(l) \cap Nodes : p \in Sources[x]
BY DEF Sources, OfKind, Controllers

LEMMA SourcesAreNodes ==
  ASSUME NEW n \in Nodes
  PROVE  Sources[n] \subseteq Nodes
BY DEF Sources, OfKind

-----------------------------------------------------------------------------
(* The queue and the jobs in hand                                           *)

\* Sending puts one message more for every id into the queue.
LEMMA SentValue ==
  ASSUME TypeOK, NEW next \in SUBSET Ids, NEW k \in Indexes
  PROVE  /\ Sent(next, k) \in [Jobs -> Nat]
         /\ \A n \in Ids, m \in Indexes :
              /\ n \in next /\ m = k => Sent(next, k)[<<n, m>>] = queue[<<n, m>>] + 1
              /\ ~(n \in next /\ m = k) => Sent(next, k)[<<n, m>>] = queue[<<n, m>>]
<1>1. queue \in [Jobs -> Nat]
  BY DEF TypeOK
<1>2. Sent(next, k) \in [Jobs -> Nat]
  BY <1>1 DEF Sent
<1>3. ASSUME NEW n \in Ids, NEW m \in Indexes
      PROVE  /\ n \in next /\ m = k => Sent(next, k)[<<n, m>>] = queue[<<n, m>>] + 1
             /\ ~(n \in next /\ m = k) => Sent(next, k)[<<n, m>>] = queue[<<n, m>>]
  <2>1. <<n, m>> \in Jobs
    BY <1>3 DEF Jobs
  <2>2. Sent(next, k)[<<n, m>>] =
          IF <<n, m>> \in next \X {k} THEN queue[<<n, m>>] + 1 ELSE queue[<<n, m>>]
    BY <2>1 DEF Sent
  <2>3. <<n, m>> \in next \X {k} <=> n \in next /\ m = k
    OBVIOUS
  <2> QED BY <2>2, <2>3
<1> QED BY <1>2, <1>3


LEMMA JobFacts ==
  ASSUME TypeOK, NEW w \in Workers, Busy(w) \/ job[w].pc # "idle"
  PROVE  /\ Busy(w) /\ job[w] \in JobStates
         /\ job[w].node \in Ids /\ job[w].k \in Indexes /\ Here(w) \in Jobs
         /\ job[w].pc \in Steps
BY DEF TypeOK, Busy, Idle, JobStates, Here, Jobs

\* What a job in hand looks like after a step: another step of the same job, or none.
Others(w) == \A v \in Workers : v # w => job'[v] = job[v]
Goes(w, pc) ==
  /\ Others(w)
  /\ job'[w] \in JobStates /\ job'[w].pc = pc
  /\ job'[w].node = job[w].node /\ job'[w].k = job[w].k /\ job'[w].ctx = job[w].ctx
Keeps(w) == job'[w].status = job[w].status /\ job'[w].next = job[w].next
Ends(w) == Others(w) /\ job'[w] = Idle
JobType == job' \in [Workers -> {Idle} \cup JobStates]

LEMMA JobEnds ==
  ASSUME TypeOK, NEW w \in Workers, job' = [job EXCEPT ![w] = Idle]
  PROVE  JobType /\ Ends(w)
BY DEF TypeOK, JobType, Ends, Others

\* A job that goes on is where it was; one that ends is nowhere; the others stay.
LEMMA GoesAt ==
  ASSUME TypeOK, NEW w \in Workers, Busy(w), NEW pc, Goes(w, pc)
  PROVE  /\ Busy(w)' /\ Here(w)' = Here(w)
         /\ \A v \in Workers : v # w => (Busy(v)' <=> Busy(v)) /\ job'[v] = job[v] /\ Here(v)' = Here(v)
         /\ \A v \in Workers : \A i : At(v, i)' <=> At(v, i)
BY DEF Goes, Others, At, Busy, Here, JobStates, Steps, Idle

LEMMA EndsAt ==
  ASSUME NEW w \in Workers, Ends(w)
  PROVE  /\ ~Busy(w)'
         /\ \A v \in Workers : v # w => (Busy(v)' <=> Busy(v)) /\ job'[v] = job[v] /\ Here(v)' = Here(v)
         /\ \A v \in Workers : \A i : At(v, i)' <=> v # w /\ At(v, i)
BY DEF Ends, Others, At, Busy, Here

-----------------------------------------------------------------------------
(* The latest row of a node                                                 *)

LEMMA NatOrder == IsWellFoundedOn({p \in Nat \X Nat : p[1] < p[2]}, Nat)
BY NatLessThanWellFounded DEF OpToRel

\* A set of indexes that is not empty has its maximum in it.
LEMMA MaxIn ==
  ASSUME NEW S \in SUBSET Indexes, S # {}
  PROVE  Max(S) \in S
<1> DEFINE Less == {p \in Nat \X Nat : p[1] < p[2]}
           T == {n \in Nat : MaxIndex - n \in S}
<1>1. MaxIndex \in Nat /\ \A k \in S : k \in Nat /\ k <= MaxIndex
  BY IndexFacts
<1>2. \A k \in S : MaxIndex - k \in T
  BY <1>1
<1>3. T \subseteq Nat /\ T # {}
  BY <1>2
<1>4. PICK x \in T : \A y \in T : ~ (<<y, x>> \in Less)
  BY <1>3, NatOrder, WFMin
<1>5. MaxIndex - x \in S /\ \A k \in S : MaxIndex - x >= k
  <2>1. x \in Nat /\ MaxIndex - x \in S
    OBVIOUS
  <2>2. ASSUME NEW k \in S PROVE MaxIndex - x >= k
    <3>1. MaxIndex - k \in Nat /\ <<MaxIndex - k, x>> \notin Less
      BY <1>2, <1>4
    <3>2. ~(MaxIndex - k < x)
      BY <2>1, <3>1 DEF Less
    <3> QED BY <1>1, <2>1, <3>2
  <2> QED BY <2>1, <2>2
<1> HIDE DEF T, Less
<1>6. PICK k \in S : \A m \in S : k >= m
  BY <1>5
<1> QED BY <1>6 DEF Max

\* The latest row is one of the node's rows, if there is one.
LEMMA LatestRow ==
  ASSUME TypeOK, NEW n \in Nodes
  PROVE  /\ Latest(n) \in NodeStatuses
         /\ Latest(n) # "none" => \E k \in Indexes : instance[<<n, k>>] = Latest(n)
         /\ \A k \in Indexes : instance[<<n, k>>] # "none" => Latest(n) # "none"
<1> DEFINE rows == {k \in Indexes : instance[<<n, k>>] # "none"}
<1>1. CASE rows = {}
  BY <1>1 DEF Latest, NodeStatuses
<1>2. CASE rows # {}
  <2>1. Max(rows) \in rows
    BY <1>2, MaxIn
  <2>2. Latest(n) = instance[<<n, Max(rows)>>]
    BY <1>2 DEF Latest
  <2>3. instance[<<n, Max(rows)>>] \in NodeStatuses
    BY <2>1 DEF TypeOK
  <2> QED BY <2>1, <2>2, <2>3
<1> QED BY <1>1, <1>2

-----------------------------------------------------------------------------
(* What each step changes                                                   *)

LEMMA TakeEffect ==
  ASSUME TypeOK, NEW w \in Workers, NEW j \in Jobs, Take(w, j)
  PROVE  /\ ~Busy(w) /\ Others(w) /\ JobType
         /\ job'[w] \in JobStates /\ Busy(w)' /\ Here(w)' = j
         /\ job'[w].pc = IF j[1] \in Nodes THEN "loaded" ELSE "failing"
         /\ job'[w].node = j[1] /\ job'[w].ctx = context
<1>1. j[1] \in Ids /\ j[2] \in Indexes /\ j = <<j[1], j[2]>>
  BY DEF Jobs
<1> DEFINE r == [pc |-> IF j[1] \in Nodes THEN "loaded" ELSE "failing", node |-> j[1], k |-> j[2],
                 ctx |-> context, seen |-> Nothing, status |-> "none", next |-> {}]
<1>2. r \in JobStates
  BY <1>1 DEF TypeOK, JobStates, Steps, NodeStatuses, Nothing
<1>3. job' = [job EXCEPT ![w] = r] /\ ~Busy(w)
  BY DEF Take
<1>4. r.pc = (IF j[1] \in Nodes THEN "loaded" ELSE "failing") /\ r.node = j[1] /\ r.k = j[2] /\ r.ctx = context
  OBVIOUS
<1> HIDE DEF r
<1>5. Others(w) /\ JobType /\ job'[w] = r
  BY <1>2, <1>3 DEF TypeOK, Others, JobType
<1>6. Busy(w)'
  BY <1>2, <1>5 DEF Busy, Idle, JobStates
<1> QED BY <1>1, <1>2, <1>3, <1>4, <1>5, <1>6 DEF Here

LEMMA ReceivedEffect ==
  ASSUME TypeOK, NEW j \in Jobs, Received(j)
  PROVE  /\ queue[j] > 0 /\ queue' \in [Jobs -> Nat] /\ queue'[j] = queue[j] - 1
         /\ \A i \in Jobs : i # j => queue'[i] = queue[i]
BY DEF Received, TypeOK

\* A node that is being executed is a node, and so is the place of its row.
LEMMA HereRow ==
  ASSUME TypeOK, JobShape, NEW w \in Workers, job[w].pc \in Steps \ {"failing"}
  PROVE  /\ Busy(w) /\ job[w].node \in Nodes /\ job[w].k \in Indexes
         /\ Here(w) \in Nodes \X Indexes
<1>1. Busy(w) /\ job[w].k \in Indexes
  BY JobFacts DEF Steps
<1> QED BY <1>1 DEF JobShape, Shape, Here

LEMMA ReadEffect ==
  ASSUME TypeOK, JobShape, NEW w \in Workers, ReadInstances(w)
  PROVE  /\ JobType /\ Goes(w, "read") /\ Keeps(w)
         /\ Config[job[w].node].kind = "JOIN" =>
              \A u \in Upstream(job[w].node) : job'[w].seen[u] = Latest(u)
<1>1. Busy(w) /\ job[w] \in JobStates /\ job[w].node \in Nodes
  BY JobFacts, HereRow DEF ReadInstances, Steps
<1> DEFINE n == job[w].node
           used == IF n \in OfKind("JOIN") THEN Upstream(n) ELSE {}
           seen == [u \in Nodes |-> IF u \in used THEN Latest(u) ELSE "none"]
           r == [job[w] EXCEPT !.pc = "read", !.seen = seen]
<1>2. seen \in [Nodes -> NodeStatuses]
  BY LatestRow DEF NodeStatuses
<1>3. n \in OfKind("JOIN") => \A u \in Upstream(n) : seen[u] = Latest(u)
  BY DEF Upstream
<1>4. job' = [job EXCEPT ![w] = r]
  BY <1>1 DEF ReadInstances
<1> HIDE DEF seen
<1>5. /\ r \in JobStates /\ r.pc = "read" /\ r.seen = seen
      /\ r.node = n /\ r.k = job[w].k /\ r.ctx = job[w].ctx
      /\ r.status = job[w].status /\ r.next = job[w].next
  BY <1>1, <1>2 DEF JobStates, Steps
<1> HIDE DEF r
<1>6. JobType /\ Others(w) /\ job'[w] = r
  BY <1>4, <1>5 DEF TypeOK, JobType, Others
<1>7. n \in OfKind("JOIN") <=> Config[n].kind = "JOIN"
  BY <1>1 DEF OfKind
<1> QED BY <1>3, <1>5, <1>6, <1>7 DEF Goes, Keeps

LEMMA UpsertEffect ==
  ASSUME TypeOK, JobShape, NEW w \in Workers, Upsert(w)
  PROVE  /\ JobType /\ Goes(w, "running") /\ Keeps(w) /\ job'[w].seen = job[w].seen
         /\ Here(w) \in Nodes \X Indexes
         /\ instance' = [instance EXCEPT ![Here(w)] = "RUNNING"]
         /\ instance' \in [Nodes \X Indexes -> NodeStatuses]
         /\ attempts' \in [Nodes \X Indexes -> 0..AttemptCap]
         /\ attempts'[Here(w)] > 0
         /\ attempts[Here(w)] = 0 => attempts'[Here(w)] = 1
         /\ \A i \in Nodes \X Indexes : i # Here(w) => attempts'[i] = attempts[i]
<1>1. Busy(w) /\ job[w] \in JobStates /\ Here(w) \in Nodes \X Indexes
  BY JobFacts, HereRow DEF Upsert, Steps
<1> DEFINE r == [job[w] EXCEPT !.pc = "running"]
<1>2. job' = [job EXCEPT ![w] = r]
  BY <1>1 DEF Upsert
<1>3. /\ r \in JobStates /\ r.pc = "running" /\ r.seen = job[w].seen
      /\ r.node = job[w].node /\ r.k = job[w].k /\ r.ctx = job[w].ctx
      /\ r.status = job[w].status /\ r.next = job[w].next
  BY <1>1 DEF JobStates, Steps
<1> HIDE DEF r
<1>4. JobType /\ Others(w) /\ job'[w] = r
  BY <1>2, <1>3 DEF TypeOK, JobType, Others
<1>5. /\ instance' = [instance EXCEPT ![Here(w)] = "RUNNING"]
      /\ instance' \in [Nodes \X Indexes -> NodeStatuses]
  BY <1>1 DEF Upsert, TypeOK, NodeStatuses
<1>6. /\ attempts[Here(w)] \in 0..AttemptCap
      /\ attempts' = [attempts EXCEPT ![Here(w)] =
           IF attempts[Here(w)] < AttemptCap THEN attempts[Here(w)] + 1 ELSE attempts[Here(w)]]
  BY <1>1 DEF Upsert, TypeOK
<1>7. /\ attempts'[Here(w)] = IF attempts[Here(w)] < AttemptCap THEN attempts[Here(w)] + 1
                                                               ELSE attempts[Here(w)]
      /\ \A i \in Nodes \X Indexes : i # Here(w) => attempts'[i] = attempts[i]
      /\ attempts' \in [Nodes \X Indexes -> 0..AttemptCap]
  BY <1>1, <1>6, NodeFacts DEF TypeOK
<1>8. attempts'[Here(w)] > 0 /\ (attempts[Here(w)] = 0 => attempts'[Here(w)] = 1)
  BY <1>6, <1>7, NodeFacts
<1> QED BY <1>1, <1>3, <1>4, <1>5, <1>7, <1>8 DEF Goes, Keeps

LEMMA FinishEffect ==
  ASSUME TypeOK, JobShape, NEW w \in Workers, job[w].pc = "running",
         NEW status \in NodeStatuses, NEW next \in SUBSET Ids, Finish(w, status, next)
  PROVE  /\ JobType /\ Goes(w, "save") /\ job'[w].status = status /\ job'[w].next = next
         /\ Here(w) \in Nodes \X Indexes
         /\ instance' = [instance EXCEPT ![Here(w)] = status]
         /\ instance' \in [Nodes \X Indexes -> NodeStatuses]
<1>1. Busy(w) /\ job[w] \in JobStates /\ Here(w) \in Nodes \X Indexes
  BY JobFacts, HereRow DEF Steps
<1> DEFINE r == [job[w] EXCEPT !.pc = "save", !.seen = Nothing, !.status = status, !.next = next]
<1>2. job' = [job EXCEPT ![w] = r]
  BY <1>1 DEF Finish
<1>3. /\ r \in JobStates /\ r.pc = "save" /\ r.status = status /\ r.next = next
      /\ r.node = job[w].node /\ r.k = job[w].k /\ r.ctx = job[w].ctx
  BY <1>1 DEF JobStates, Steps, Nothing, NodeStatuses
<1> HIDE DEF r
<1>4. JobType /\ Others(w) /\ job'[w] = r
  BY <1>2, <1>3 DEF TypeOK, JobType, Others
<1>5. /\ instance' = [instance EXCEPT ![Here(w)] = status]
      /\ instance' \in [Nodes \X Indexes -> NodeStatuses]
  BY <1>1 DEF Finish, TypeOK
<1> QED BY <1>1, <1>3, <1>4, <1>5 DEF Goes

LEMMA RaiseEffect ==
  ASSUME TypeOK, JobShape, NEW w \in Workers, Raise(w)
  PROVE  /\ JobType /\ Goes(w, "failing") /\ job[w].pc = "running"
         /\ Here(w) \in Nodes \X Indexes
         /\ instance' = [instance EXCEPT ![Here(w)] = "FAILURE"]
         /\ instance' \in [Nodes \X Indexes -> NodeStatuses]
<1>1. Busy(w) /\ job[w] \in JobStates /\ Here(w) \in Nodes \X Indexes
  BY JobFacts, HereRow DEF Raise, Steps
<1> DEFINE r == [job[w] EXCEPT !.pc = "failing", !.seen = Nothing]
<1>2. job' = [job EXCEPT ![w] = r]
  BY <1>1 DEF Raise
<1>3. /\ r \in JobStates /\ r.pc = "failing"
      /\ r.node = job[w].node /\ r.k = job[w].k /\ r.ctx = job[w].ctx
  BY <1>1 DEF JobStates, Steps, Nothing, NodeStatuses
<1> HIDE DEF r
<1>4. JobType /\ Others(w) /\ job'[w] = r
  BY <1>2, <1>3 DEF TypeOK, JobType, Others
<1>5. /\ instance' = [instance EXCEPT ![Here(w)] = "FAILURE"]
      /\ instance' \in [Nodes \X Indexes -> NodeStatuses] /\ job[w].pc = "running"
  BY <1>1 DEF Raise, TypeOK, NodeStatuses
<1> QED BY <1>1, <1>3, <1>4, <1>5 DEF Goes

\* A step of the job in w that only moves it on.
LEMMA PcEffect ==
  ASSUME TypeOK, NEW w \in Workers, job[w].pc \in Steps, NEW pc \in Steps,
         job' = [job EXCEPT ![w].pc = pc]
  PROVE  JobType /\ Goes(w, pc) /\ Keeps(w)
<1>1. Busy(w) /\ job[w] \in JobStates
  BY JobFacts DEF Steps
<1> DEFINE r == [job[w] EXCEPT !.pc = pc]
<1>2. job' = [job EXCEPT ![w] = r]
  BY <1>1
<1>3. /\ r \in JobStates /\ r.pc = pc
      /\ r.node = job[w].node /\ r.k = job[w].k /\ r.ctx = job[w].ctx
      /\ r.status = job[w].status /\ r.next = job[w].next
  BY <1>1 DEF JobStates
<1> HIDE DEF r
<1>4. JobType /\ Others(w) /\ job'[w] = r
  BY <1>2, <1>3 DEF TypeOK, JobType, Others
<1> QED BY <1>3, <1>4 DEF Goes, Keeps

LEMMA SaveEffect ==
  ASSUME TypeOK, JobShape, NEW w \in Workers, SaveContext(w)
  PROVE  /\ JobType /\ Keeps(w) /\ job[w].pc = "save"
         /\ Goes(w, IF job[w].status = "FAILURE" THEN "failing" ELSE "dispatch")
         /\ context' \in [Nodes -> NodeStatuses]
<1>1. Busy(w) /\ job[w] \in JobStates /\ job[w].node \in Nodes
  BY JobFacts, HereRow DEF SaveContext, Steps
<1>2. /\ job[w].pc = "save"
      /\ job' = [job EXCEPT ![w].pc = IF job[w].status = "FAILURE" THEN "failing" ELSE "dispatch"]
  BY DEF SaveContext
<1>3. JobType /\ Keeps(w) /\ Goes(w, IF job[w].status = "FAILURE" THEN "failing" ELSE "dispatch")
  BY <1>2, PcEffect DEF Steps
<1>4. context' \in [Nodes -> NodeStatuses]
  BY <1>1 DEF SaveContext, JobStates
<1> QED BY <1>2, <1>3, <1>4

\* What a LOOP decides in round k.
Chooses(l, k, next) ==
  \E met \in Config[l].met[k], metBefore \in Config[l].met[k - 1] :
    next = IF LoopExits(l, k, met, metBefore) \/ Config[l].body = {} THEN ExitsOf(l) ELSE Config[l].body

\* What a node hands on when it has been executed: its result and its successors.
Produces(w) ==
  \E status \in NodeStatuses, next \in SUBSET Ids :
    /\ job[w].pc = "running" /\ Follows(job[w].node, status, next)
    /\ Config[job[w].node].kind = "JOIN" => Ready(job[w].node, job[w].seen)
    /\ Config[job[w].node].kind = "LOOP" => Chooses(job[w].node, job[w].k, next)
    /\ Finish(w, status, next)

LEMMA Producing ==
  ASSUME TypeOK, JobShape, NEW w \in Workers,
         Action(w) \/ Logic(w) \/ Fork(w) \/ Join(w) \/ Loop(w) \/ End(w)
  PROVE  Produces(w)
<1>1. job[w].pc = "running" /\ job[w].node \in Nodes /\ job[w].k \in Indexes
  BY HereRow DEF Steps, Action, Logic, Fork, Join, Loop, End, Processing
<1> DEFINE n == job[w].node
<1>2. n \in Nodes /\ Config[n].next \in SUBSET Ids
  BY <1>1, NodeFacts
<1>3. \A x \in Config[n].next \cap Nodes : n \in Sources[x]
  BY <1>2, SourceFacts
<1> HIDE DEF n
<1>4. CASE Action(w)
  <2>1. Config[n].kind = "ACTION" /\ Config[n].async \in BOOLEAN
    BY <1>2, <1>4, KindFacts DEF Action, Processing, OfKind, n
  <2>2. Finish(w, IF Config[n].async THEN "SUSPENDED" ELSE "SUCCESS", Config[n].next)
    BY <1>4 DEF Action, n
  <2>3. CASE Config[n].async
    <3>1. Follows(n, "SUSPENDED", Config[n].next)
      BY <1>3, <2>1, <2>3 DEF Follows, Successors, IsAsync
    <3> QED BY <1>1, <1>2, <2>1, <2>2, <2>3, <3>1 DEF Produces, n, NodeStatuses
  <2>4. CASE ~Config[n].async
    <3>1. Follows(n, "SUCCESS", Config[n].next)
      BY <1>3, <2>1 DEF Follows, Successors
    <3> QED BY <1>1, <1>2, <2>1, <2>2, <2>4, <3>1 DEF Produces, n, NodeStatuses
  <2> QED BY <2>3, <2>4
<1>5. CASE Logic(w)
  <2>1. Config[n].kind = "LOGIC"
    BY <1>5 DEF Logic, Processing, n
  <2>2. PICK next \in {Config[n].yes, Config[n].no} : Finish(w, "SUCCESS", next)
    BY <1>5 DEF Logic, n
  <2>3. next \in SUBSET Ids /\ \A x \in next \cap Nodes : n \in Sources[x]
    BY <1>2, <2>1, KindFacts, SourceFacts DEF OfKind
  <2>4. Follows(n, "SUCCESS", next)
    BY <2>1, <2>3 DEF Follows, Successors
  <2> QED BY <1>1, <2>1, <2>2, <2>3, <2>4 DEF Produces, n, NodeStatuses
<1>6. CASE Fork(w)
  <2>1. Config[n].kind = "FORK" /\ Finish(w, "SUCCESS", Config[n].branches)
    BY <1>6 DEF Fork, Processing, n
  <2>2. Config[n].branches \in SUBSET Ids /\ \A x \in Config[n].branches \cap Nodes : n \in Sources[x]
    BY <1>2, <2>1, KindFacts, SourceFacts DEF OfKind
  <2>3. Follows(n, "SUCCESS", Config[n].branches)
    BY <2>1, <2>2 DEF Follows, Successors
  <2> QED BY <1>1, <2>1, <2>2, <2>3 DEF Produces, n, NodeStatuses
<1>7. CASE Join(w)
  <2>1. /\ Config[n].kind = "JOIN" /\ Ready(n, job[w].seen)
        /\ Finish(w, "SUCCESS", Config[n].next)
    BY <1>7 DEF Join, Processing, n
  <2>2. Follows(n, "SUCCESS", Config[n].next)
    BY <1>3, <2>1 DEF Follows, Successors
  <2> QED BY <1>1, <1>2, <2>1, <2>2 DEF Produces, n, NodeStatuses
<1>8. CASE Loop(w)
  <2>1. Config[n].kind = "LOOP" /\ n \in OfKind("LOOP")
    BY <1>2, <1>8 DEF Loop, Processing, OfKind, n
  <2>2. PICK next \in {Config[n].body, ExitsOf(n)} :
          Chooses(n, job[w].k, next) /\ Finish(w, "SUCCESS", next)
    BY <1>8 DEF Loop, Chooses, n
  <2>3. next \in SUBSET Ids /\ \A x \in next \cap Nodes : n \in Sources[x]
    BY <1>2, <2>1, LoopFacts, SourceFacts
  <2>4. Follows(n, "SUCCESS", next)
    BY <2>1, <2>3 DEF Follows, Successors
  <2> QED BY <1>1, <2>1, <2>2, <2>3, <2>4 DEF Produces, n, NodeStatuses
<1>9. CASE End(w)
  <2>1. Config[n].kind = "END" /\ Config[n].ok \in BOOLEAN
    BY <1>2, <1>9, KindFacts DEF End, Processing, OfKind, n
  <2>2. Finish(w, IF Config[n].ok THEN "SUCCESS" ELSE "FAILURE", {})
    BY <1>9 DEF End, n
  <2>3. Follows(n, IF Config[n].ok THEN "SUCCESS" ELSE "FAILURE", {})
    BY <2>1 DEF Follows, Successors
  <2>4. (IF Config[n].ok THEN "SUCCESS" ELSE "FAILURE") \in NodeStatuses
    BY DEF NodeStatuses
  <2> QED BY <1>1, <2>1, <2>2, <2>3, <2>4 DEF Produces, n
<1> QED BY <1>4, <1>5, <1>6, <1>7, <1>8, <1>9, Zenon

\* The tail of a loop body goes back to the loop or on behind it.
Reenters(r, next, k) ==
  /\ r.next = {} /\ Config[r.node].kind # "END"
  /\ \E l \in Controllers(r.node) :
       IF r.k >= Config[l].max THEN k = r.k /\ next = ExitsOf(l) ELSE k = r.k + 1 /\ next = {l}

\* The job in w ends and sends others.
Sends(w, next, k) ==
  /\ job[w].pc = "dispatch" /\ next # {}
  /\ (k = job[w].k /\ next = job[w].next) \/ Reenters(job[w], next, k)
  /\ k \in {job[w].k, job[w].k + 1}
  /\ \A x \in next \cap Nodes :
       job[w].node \in Sources[x] /\ (k # job[w].k => Config[x].kind = "LOOP")
  /\ Leave(w, Sent(next, k))

LEMMA Sending ==
  ASSUME TypeOK, JobShape, NEW w \in Workers, Dispatch(w) \/ LoopReentry(w)
  PROVE  \E next \in SUBSET Ids, k \in Indexes : Sends(w, next, k)
<1>1. job[w].pc = "dispatch" /\ job[w].node \in Nodes /\ job[w].k \in Indexes
  BY HereRow DEF Dispatch, LoopReentry, DeadEnd, Steps
<1>2. Follows(job[w].node, job[w].status, job[w].next) /\ job[w].next \in SUBSET Ids
  BY <1>1, JobFacts DEF JobShape, Shape, JobStates
<1>3. CASE Dispatch(w)
  <2>1. Sends(w, job[w].next, job[w].k)
    BY <1>1, <1>2, <1>3 DEF Sends, Dispatch, Follows
  <2> QED BY <1>1, <1>2, <2>1
<1>4. CASE LoopReentry(w)
  <2>1. PICK l \in Controllers(job[w].node) :
          Leave(w, IF job[w].k >= Config[l].max THEN Sent(ExitsOf(l), job[w].k)
                                                ELSE Sent({l}, job[w].k + 1))
    BY <1>4 DEF LoopReentry
  <2>2. l \in OfKind("LOOP") /\ job[w].node \in Sources[l]
        /\ \A x \in ExitsOf(l) \cap Nodes : job[w].node \in Sources[x]
    BY <1>1, LoopSources
  <2>3. l \in Nodes /\ Config[l].kind = "LOOP"
    BY <2>2 DEF OfKind
  <2>4. /\ Config[l].max \in Indexes /\ ExitsOf(l) # {}
        /\ ExitsOf(l) \in SUBSET Ids /\ {l} \in SUBSET Ids
    BY <2>2, <2>3, LoopFacts, NodeFacts
  <2>5. CASE job[w].k >= Config[l].max
    <3>1. Reenters(job[w], ExitsOf(l), job[w].k)
      BY <1>4, <2>5 DEF Reenters, LoopReentry, DeadEnd
    <3>2. Sends(w, ExitsOf(l), job[w].k)
      BY <1>1, <2>1, <2>2, <2>4, <2>5, <3>1 DEF Sends
    <3> QED BY <1>1, <2>4, <3>2
  <2>6. CASE ~(job[w].k >= Config[l].max)
    <3>1. job[w].k + 1 \in Indexes
      BY <1>1, <2>4, <2>6, NodeFacts DEF Indexes
    <3>2. Reenters(job[w], {l}, job[w].k + 1)
      BY <1>4, <2>6 DEF Reenters, LoopReentry, DeadEnd
    <3>3. Sends(w, {l}, job[w].k + 1)
      BY <1>1, <2>1, <2>2, <2>3, <2>6, <3>2 DEF Sends
    <3> QED BY <2>4, <3>1, <3>3
  <2> QED BY <2>5, <2>6
<1> QED BY <1>3, <1>4

\* The job in w ends without sending anything.
Waits(w) == JoinWaits(w) \/ Suspend(w)
Rests(w) == EndReached(w) \/ NoDownstream(w)

WorkerCase(w) ==
  \/ \E j \in Jobs : Take(w, j) \/ Discard(w, j)
  \/ ReadInstances(w) \/ Upsert(w) \/ Produces(w) \/ Raise(w) \/ SaveContext(w)
  \/ Waits(w) \/ Rests(w) \/ SetRun(w)
  \/ \E next \in SUBSET Ids, k \in Indexes : Sends(w, next, k)
  \/ \E sent \in Partial(w) : Redeliver(w, sent)

CallbackCase(c) ==
  CallbackStore(c) \/ CallbackDispatch(c) \/ \E i \in Nodes \X Indexes : CallbackRead(c, i)

LEMMA StepCases ==
  ASSUME TypeOK, JobShape, Next
  PROVE  Trigger \/ (\E w \in Workers : WorkerCase(w)) \/ (\E c \in Callers : CallbackCase(c))
<1>1. CASE Trigger
  BY <1>1
<1>2. ASSUME NEW w \in Workers, WorkerStep(w) PROVE WorkerCase(w)
  <2>1. CASE Action(w) \/ Logic(w) \/ Fork(w) \/ Join(w) \/ Loop(w) \/ End(w)
    BY <2>1, Producing DEF WorkerCase
  <2>2. CASE Dispatch(w) \/ LoopReentry(w)
    BY <2>2, Sending DEF WorkerCase
  <2>3. CASE \E j \in Jobs : Take(w, j) \/ Discard(w, j)
    BY <2>3 DEF WorkerCase
  <2>4. CASE ReadInstances(w) \/ Upsert(w) \/ Raise(w) \/ SaveContext(w)
    BY <2>4 DEF WorkerCase
  <2>5. CASE JoinWaits(w) \/ Suspend(w) \/ EndReached(w) \/ NoDownstream(w) \/ SetRun(w)
    BY <2>5 DEF WorkerCase, Waits, Rests
  <2> QED BY <1>2, <2>1, <2>2, <2>3, <2>4, <2>5 DEF WorkerStep
<1>3. ASSUME NEW w \in Workers, NEW sent \in Partial(w), Redeliver(w, sent) PROVE WorkerCase(w)
  BY <1>3 DEF WorkerCase
<1>4. ASSUME NEW c \in Callers, CallbackStep(c) \/ \E i \in Nodes \X Indexes : CallbackRead(c, i)
      PROVE  CallbackCase(c)
  BY <1>4 DEF CallbackStep, CallbackCase
<1> QED BY <1>1, <1>2, <1>3, <1>4 DEF Next

-----------------------------------------------------------------------------
(* Types                                                                    *)

\* The queue after the message of a lost worker was delivered again.
LEMMA RedeliverEffect ==
  ASSUME TypeOK, NEW w \in Workers, NEW sent \in Partial(w), Redeliver(w, sent)
  PROVE  /\ Busy(w) /\ JobType /\ Ends(w) /\ Here(w) \in Jobs
         /\ queue' \in [Jobs -> Nat]
         /\ faults < MaxFaults /\ faults' = faults + 1
         /\ queue'[Here(w)] > 0
         /\ \A n \in Ids, k \in Indexes : queue'[<<n, k>>] > 0 =>
              queue[<<n, k>>] > 0 \/ <<n, k>> = Here(w) \/ (n \in sent /\ k = job[w].k)
         /\ \A i \in Jobs : queue[i] > 0 => queue'[i] > 0
         /\ sent # {} => job[w].pc = "dispatch" /\ sent \subseteq job[w].next
         /\ UNCHANGED <<run, context, instance, attempts, callback>>
<1>1. Busy(w) /\ faults < MaxFaults /\ faults' = faults + 1 /\ job' = [job EXCEPT ![w] = Idle]
  BY DEF Redeliver, Dies
<1>2. job[w].k \in Indexes /\ Here(w) \in Jobs
  BY <1>1, JobFacts
<1>10. sent \in SUBSET Ids /\ (sent # {} => job[w].pc = "dispatch" /\ sent \subseteq job[w].next)
  BY <1>1, JobFacts DEF Partial, JobStates
<1>11. UNCHANGED <<run, context, instance, attempts, callback>>
  BY DEF Redeliver, Dies
<1> DEFINE q == Sent(sent, job[w].k)
<1>3. q \in [Jobs -> Nat] /\ \A n \in Ids, m \in Indexes :
        /\ n \in sent /\ m = job[w].k => q[<<n, m>>] = queue[<<n, m>>] + 1
        /\ ~(n \in sent /\ m = job[w].k) => q[<<n, m>>] = queue[<<n, m>>]
  BY <1>2, <1>10, SentValue
<1>4. queue' = [q EXCEPT ![Here(w)] = q[Here(w)] + 1]
  BY DEF Redeliver
<1> HIDE DEF q
<1>5. /\ queue' \in [Jobs -> Nat] /\ queue'[Here(w)] > 0
      /\ \A i \in Jobs : i # Here(w) => queue'[i] = q[i]
  BY <1>2, <1>3, <1>4
<1>6. queue \in [Jobs -> Nat]
  BY DEF TypeOK
<1>7. \A n \in Ids, k \in Indexes : <<n, k>> \in Jobs
  BY DEF Jobs
<1>8. ASSUME NEW n \in Ids, NEW k \in Indexes, queue'[<<n, k>>] > 0
      PROVE  queue[<<n, k>>] > 0 \/ <<n, k>> = Here(w) \/ (n \in sent /\ k = job[w].k)
  BY <1>3, <1>5, <1>7, <1>8
<1>9. ASSUME NEW i \in Jobs, queue[i] > 0 PROVE queue'[i] > 0
  <2>1. PICK n \in Ids, k \in Indexes : i = <<n, k>>
    BY DEF Jobs
  <2>2. q[i] \in {queue[i], queue[i] + 1}
    BY <1>3, <2>1
  <2>3. q[i] > 0
    BY <1>6, <1>9, <2>2
  <2> QED BY <1>5, <2>3
<1> QED BY <1>1, <1>2, <1>5, <1>8, <1>9, <1>10, <1>11, JobEnds

LEMMA SendsEffect ==
  ASSUME TypeOK, NEW w \in Workers, NEW next \in SUBSET Ids, NEW k \in Indexes, Sends(w, next, k)
  PROVE  /\ Busy(w) /\ JobType /\ Ends(w) /\ queue' \in [Jobs -> Nat]
         /\ \A n \in Ids, m \in Indexes :
              /\ n \in next /\ m = k => queue'[<<n, m>>] = queue[<<n, m>>] + 1
              /\ ~(n \in next /\ m = k) => queue'[<<n, m>>] = queue[<<n, m>>]
         /\ UNCHANGED <<run, context, instance, attempts, callback, faults>>
<1>1. job[w].pc = "dispatch" /\ queue' = Sent(next, k) /\ job' = [job EXCEPT ![w] = Idle]
  BY DEF Sends, Leave
<1>2. Busy(w)
  BY <1>1, JobFacts
<1>3. UNCHANGED <<run, context, instance, attempts, callback, faults>>
  BY DEF Sends, Leave
<1>4. JobType /\ Ends(w)
  BY <1>1, JobEnds
<1> HIDE DEF Sends
<1> QED BY <1>1, <1>2, <1>3, <1>4, SentValue

LEMMA WaitsEffect ==
  ASSUME TypeOK, NEW w \in Workers, Waits(w)
  PROVE  /\ Busy(w) /\ JobType /\ Ends(w)
         /\ UNCHANGED <<run, context, instance, attempts, queue, callback, faults>>
         /\ \/ /\ job[w].pc = "running" /\ Config[job[w].node].kind = "JOIN"
               /\ ~Ready(job[w].node, job[w].seen)
            \/ job[w].pc = "dispatch" /\ job[w].status = "SUSPENDED" /\ job[w].next = {}
<1>1. /\ job' = [job EXCEPT ![w] = Idle] /\ job[w].pc # "idle"
      /\ \/ /\ job[w].pc = "running" /\ Config[job[w].node].kind = "JOIN"
            /\ ~Ready(job[w].node, job[w].seen)
         \/ job[w].pc = "dispatch" /\ job[w].status = "SUSPENDED" /\ job[w].next = {}
  BY DEF Waits, JoinWaits, Suspend, Leave, Processing
<1>2. UNCHANGED <<run, context, instance, attempts, queue, callback, faults>>
  BY DEF Waits, JoinWaits, Suspend, Leave
<1> QED BY <1>1, <1>2, JobEnds, JobFacts

LEMMA RestsEffect ==
  ASSUME TypeOK, JobShape, NEW w \in Workers, Rests(w)
  PROVE  /\ JobType /\ Keeps(w) /\ job[w].pc = "dispatch"
         /\ \/ Goes(w, "failing")
            \/ Goes(w, "ending") /\ Config[job[w].node].kind = "END" /\ Config[job[w].node].ok
         /\ UNCHANGED <<run, context, instance, attempts, queue, callback, faults>>
<1>1. job[w].pc = "dispatch" /\ UNCHANGED <<run, context, instance, attempts, queue, callback, faults>>
  BY DEF Rests, EndReached, NoDownstream, DeadEnd, Continue
<1>2. CASE EndReached(w)
  <2>1. job' = [job EXCEPT ![w].pc = "ending"] /\ Config[job[w].node].kind = "END"
    BY <1>2 DEF EndReached, Continue
  <2>2. Follows(job[w].node, job[w].status, job[w].next) /\ job[w].status # "FAILURE"
    BY <1>1, JobFacts DEF JobShape, Shape
  <2>3. Config[job[w].node].ok
    BY <2>1, <2>2 DEF Follows, IsAsync
  <2> QED BY <1>1, <2>1, <2>3, PcEffect DEF Steps
<1>3. CASE NoDownstream(w)
  <2>1. job' = [job EXCEPT ![w].pc = "failing"]
    BY <1>3 DEF NoDownstream, Continue
  <2> QED BY <1>1, <2>1, PcEffect DEF Steps
<1> QED BY <1>2, <1>3 DEF Rests

LEMMA SetRunEffect ==
  ASSUME TypeOK, NEW w \in Workers, SetRun(w)
  PROVE  /\ Busy(w) /\ JobType /\ Ends(w)
         /\ run' \in {"SUCCESS", "FAILURE"} /\ (run' = "SUCCESS" => job[w].pc = "ending")
         /\ UNCHANGED <<context, instance, attempts, queue, callback, faults>>
<1>1. job' = [job EXCEPT ![w] = Idle] /\ job[w].pc \in {"ending", "failing"}
  BY DEF SetRun
<1> QED BY <1>1, JobEnds, JobFacts DEF SetRun

\* What callbacks do to rows and queue.
LEMMA CallbackEffect ==
  ASSUME TypeOK, CallbackShape, NEW c \in Callers, CallbackCase(c)
  PROVE  /\ UNCHANGED <<run, context, attempts, job, faults>>
         /\ \A d \in Callers : d # c => callback'[d] = callback[d]
         /\ callback'[c].at \in Nodes \X Indexes /\ IsAsync(callback'[c].at[1])
         /\ attempts[callback'[c].at] > 0
         /\ callback' \in [Callers -> [pc : {"idle", "checked", "stored", "accepted", "ignored"},
                                       at : (Nodes \X Indexes) \cup {<<>>}]]
<1>1. UNCHANGED <<run, context, attempts, job, faults>>
  BY DEF CallbackCase, CallbackStore, CallbackDispatch, CallbackRead
<1>2. callback[c] \in [pc : {"idle", "checked", "stored", "accepted", "ignored"},
                       at : (Nodes \X Indexes) \cup {<<>>}]
  BY DEF TypeOK
<1>3. ASSUME NEW i \in Nodes \X Indexes, CallbackRead(c, i)
      PROVE  /\ \A d \in Callers : d # c => callback'[d] = callback[d]
             /\ callback'[c].at = i /\ callback'[c].pc \in {"checked", "ignored"}
             /\ IsAsync(i[1]) /\ attempts[i] > 0
  BY <1>3 DEF CallbackRead, IsAsync, TypeOK
<1>4. ASSUME CallbackStore(c) \/ CallbackDispatch(c)
      PROVE  /\ \A d \in Callers : d # c => callback'[d] = callback[d]
             /\ callback'[c].at = callback[c].at /\ callback'[c].pc \in {"stored", "accepted"}
             /\ callback[c].pc # "idle"
  BY <1>4, <1>2 DEF CallbackStore, CallbackDispatch, TypeOK
<1>5. callback' \in [Callers -> [pc : {"idle", "checked", "stored", "accepted", "ignored"},
                                 at : (Nodes \X Indexes) \cup {<<>>}]]
  BY <1>2 DEF CallbackCase, CallbackStore, CallbackDispatch, CallbackRead, TypeOK
<1>6. CASE \E i \in Nodes \X Indexes : CallbackRead(c, i)
  BY <1>1, <1>3, <1>5, <1>6
<1>7. CASE CallbackStore(c) \/ CallbackDispatch(c)
  <2>1. /\ callback[c].at \in Nodes \X Indexes
        /\ attempts[callback[c].at] > 0 /\ IsAsync(callback[c].at[1])
    BY <1>4, <1>7 DEF CallbackShape
  <2> QED BY <1>1, <1>4, <1>5, <1>7, <2>1
<1> QED BY <1>6, <1>7 DEF CallbackCase

LEMMA TypeStep ==
  ASSUME TypeOK, JobShape, CallbackShape, [Next]_vars
  PROVE  TypeOK'
<1>1. CASE UNCHANGED vars
  BY <1>1 DEF vars, TypeOK
<1>2. CASE Trigger
  <2>1. Entry \in SUBSET Ids /\ 1 \in Indexes
    BY NodeFacts DEF Indexes
  <2>2. queue' \in [Jobs -> Nat] /\ run' \in RunStatuses
    BY <1>2, <2>1, SentValue DEF Trigger, RunStatuses
  <2> QED BY <1>2, <2>2 DEF Trigger, TypeOK
<1>3. ASSUME NEW w \in Workers, WorkerCase(w) PROVE TypeOK'
  <2>1. ASSUME NEW j \in Jobs, Take(w, j) \/ Discard(w, j) PROVE TypeOK'
    <3>1. /\ queue' \in [Jobs -> Nat]
          /\ UNCHANGED <<run, context, instance, attempts, callback, faults>>
      BY <2>1, ReceivedEffect DEF Take, Discard, Received
    <3>2. JobType
      BY <2>1, TakeEffect DEF Discard, JobType, TypeOK
    <3> QED BY <3>1, <3>2 DEF TypeOK, JobType
  <2>2. CASE ReadInstances(w)
    BY <2>2, ReadEffect DEF ReadInstances, TypeOK, JobType
  <2>3. CASE Upsert(w)
    BY <2>3, UpsertEffect DEF Upsert, TypeOK, JobType
  <2>4. CASE Produces(w)
    <3>1. PICK status \in NodeStatuses, next \in SUBSET Ids :
            job[w].pc = "running" /\ Finish(w, status, next)
      BY <2>4 DEF Produces
    <3>2. JobType /\ instance' \in [Nodes \X Indexes -> NodeStatuses]
      BY <3>1, FinishEffect
    <3> QED BY <3>1, <3>2 DEF Finish, TypeOK, JobType
  <2>5. CASE Raise(w)
    BY <2>5, RaiseEffect DEF Raise, TypeOK, JobType
  <2>6. CASE SaveContext(w)
    BY <2>6, SaveEffect DEF SaveContext, TypeOK, JobType
  <2>7. CASE Waits(w)
    BY <2>7, WaitsEffect DEF TypeOK, JobType
  <2>8. CASE Rests(w)
    BY <2>8, RestsEffect DEF TypeOK, JobType
  <2>9. CASE SetRun(w)
    BY <2>9, SetRunEffect DEF TypeOK, JobType, RunStatuses, Terminal
  <2>10. ASSUME NEW next \in SUBSET Ids, NEW k \in Indexes, Sends(w, next, k) PROVE TypeOK'
    BY <2>10, SendsEffect DEF TypeOK, JobType
  <2>11. ASSUME NEW sent \in Partial(w), Redeliver(w, sent) PROVE TypeOK'
    <3>1. JobType /\ queue' \in [Jobs -> Nat] /\ faults < MaxFaults /\ faults' = faults + 1
      BY <2>11, RedeliverEffect
    <3>2. UNCHANGED <<run, context, instance, attempts, callback>>
      BY <2>11, RedeliverEffect
    <3>3. faults' \in 0..MaxFaults
      BY <3>1, NodeFacts DEF TypeOK
    <3> QED BY <3>1, <3>2, <3>3 DEF TypeOK, JobType
  <2> QED BY <1>3, <2>1, <2>2, <2>3, <2>4, <2>5, <2>6, <2>7, <2>8, <2>9, <2>10, <2>11 DEF WorkerCase
<1>4. ASSUME NEW c \in Callers, CallbackCase(c) PROVE TypeOK'
  <2>1. /\ UNCHANGED <<run, context, attempts, job, faults>>
        /\ callback' \in [Callers -> [pc : {"idle", "checked", "stored", "accepted", "ignored"},
                                      at : (Nodes \X Indexes) \cup {<<>>}]]
    BY <1>4, CallbackEffect
  <2>2. instance' \in [Nodes \X Indexes -> NodeStatuses]
    BY <1>4 DEF CallbackCase, CallbackStore, CallbackDispatch, CallbackRead, TypeOK, NodeStatuses
  <2>3. queue' \in [Jobs -> Nat]
    <3>1. CASE CallbackDispatch(c)
      <4>1. callback[c].at \in Nodes \X Indexes
        BY <3>1 DEF CallbackDispatch, CallbackShape
      <4>2. Config[callback[c].at[1]].next \in SUBSET Ids /\ callback[c].at[2] \in Indexes
        BY <4>1, NodeFacts
      <4> QED BY <3>1, <4>2, SentValue DEF CallbackDispatch
    <3>2. CASE ~CallbackDispatch(c)
      BY <1>4, <3>2 DEF CallbackCase, CallbackStore, CallbackRead, TypeOK
    <3> QED BY <3>1, <3>2
  <2> QED BY <2>1, <2>2, <2>3 DEF TypeOK
<1> QED BY <1>1, <1>2, <1>3, <1>4, StepCases

-----------------------------------------------------------------------------
(* Shapes                                                                   *)

\* A step of w alone keeps the shape of the other jobs.
LEMMA ShapeOfOne ==
  ASSUME JobShape, NEW w \in Workers, Others(w), Busy(w)' => Shape(job'[w])
  PROVE  JobShape'
BY DEF JobShape, Others, Busy

LEMMA ShapeStep ==
  ASSUME TypeOK, JobShape, CallbackShape, [Next]_vars
  PROVE  JobShape'
<1>1. CASE UNCHANGED job
  BY <1>1 DEF JobShape, Busy
<1>2. ASSUME NEW w \in Workers, WorkerCase(w) PROVE JobShape'
  <2>1. ASSUME NEW j \in Jobs, Take(w, j) PROVE JobShape'
    <3>1. /\ Others(w) /\ job'[w].node = j[1]
          /\ job'[w].pc = IF j[1] \in Nodes THEN "loaded" ELSE "failing"
      BY <2>1, TakeEffect
    <3>2. Shape(job'[w])
      BY <3>1 DEF Shape
    <3> QED BY <3>1, <3>2, ShapeOfOne
  <2>2. ASSUME NEW j \in Jobs, Discard(w, j) PROVE JobShape'
    BY <1>1, <2>2 DEF Discard
  <2>3. CASE ReadInstances(w) \/ Upsert(w)
    <3>1. Goes(w, "read") \/ Goes(w, "running")
      BY <2>3, ReadEffect, UpsertEffect
    <3>2. job[w].node \in Nodes
      BY <2>3, HereRow DEF ReadInstances, Upsert, Steps
    <3>3. Shape(job'[w])
      BY <3>1, <3>2 DEF Shape, Goes
    <3> QED BY <3>1, <3>3, ShapeOfOne DEF Goes
  <2>4. CASE Produces(w)
    <3>1. PICK status \in NodeStatuses, next \in SUBSET Ids :
            /\ job[w].pc = "running" /\ Follows(job[w].node, status, next)
            /\ Finish(w, status, next)
      BY <2>4 DEF Produces
    <3>2. Goes(w, "save") /\ job'[w].status = status /\ job'[w].next = next /\ job[w].node \in Nodes
      BY <3>1, FinishEffect, HereRow DEF Steps
    <3>3. Shape(job'[w])
      BY <3>1, <3>2 DEF Shape, Goes
    <3> QED BY <3>2, <3>3, ShapeOfOne DEF Goes
  <2>5. CASE Raise(w)
    <3>1. Goes(w, "failing")
      BY <2>5, RaiseEffect
    <3>2. Shape(job'[w])
      BY <3>1 DEF Shape, Goes
    <3> QED BY <3>1, <3>2, ShapeOfOne DEF Goes
  <2>6. CASE SaveContext(w)
    <3>1. Keeps(w) /\ job[w].pc = "save"
          /\ Goes(w, IF job[w].status = "FAILURE" THEN "failing" ELSE "dispatch")
      BY <2>6, SaveEffect
    <3>2. Shape(job[w])
      BY <3>1, JobFacts DEF JobShape
    <3>3. Shape(job'[w])
      BY <3>1, <3>2 DEF Shape, Goes, Keeps
    <3> QED BY <3>1, <3>3, ShapeOfOne DEF Goes
  <2>7. CASE Rests(w)
    <3>1. /\ job[w].pc = "dispatch"
          /\ \/ Goes(w, "failing")
             \/ Goes(w, "ending") /\ Config[job[w].node].kind = "END" /\ Config[job[w].node].ok
      BY <2>7, RestsEffect
    <3>2. job[w].node \in Nodes
      BY <3>1, HereRow DEF Steps
    <3>3. Shape(job'[w])
      BY <3>1, <3>2 DEF Shape, Goes
    <3> QED BY <3>1, <3>3, ShapeOfOne DEF Goes
  <2>8. CASE Ends(w)
    BY <2>8, ShapeOfOne DEF Ends, Busy
  <2> QED BY <1>2, <2>1, <2>2, <2>3, <2>4, <2>5, <2>6, <2>7, <2>8, WaitsEffect, SetRunEffect, SendsEffect,
             RedeliverEffect DEF WorkerCase
<1>3. ASSUME NEW c \in Callers, CallbackCase(c) PROVE JobShape'
  BY <1>1, <1>3, CallbackEffect
<1> QED BY <1>1, <1>2, <1>3, StepCases DEF Trigger, vars

-----------------------------------------------------------------------------
(* What there is to do comes from what has been done                        *)

\* A row that exists stays.
LEMMA RowsStay ==
  ASSUME TypeOK, JobShape, CallbackShape, [Next]_vars, NEW i \in Nodes \X Indexes, attempts[i] > 0
  PROVE  attempts'[i] > 0
<1>1. CASE UNCHANGED attempts
  BY <1>1
<1>2. ASSUME NEW w \in Workers, WorkerCase(w) PROVE attempts'[i] > 0
  <2>1. CASE Upsert(w)
    BY <2>1, UpsertEffect
  <2>2. CASE ~Upsert(w)
    BY <1>1, <1>2, <2>2, WaitsEffect, RestsEffect, SendsEffect, RedeliverEffect, SetRunEffect
       DEF WorkerCase, Take, Discard, Received, ReadInstances, Produces, Finish, Raise, SaveContext
  <2> QED BY <2>1, <2>2
<1>3. ASSUME NEW c \in Callers, CallbackCase(c) PROVE attempts'[i] > 0
  BY <1>3, CallbackEffect
<1> QED BY <1>1, <1>2, <1>3, StepCases DEF Trigger, vars

\* The steps that send a message for n in round k.
SentByJob(n, k) ==
  \E w \in Workers, next \in SUBSET Ids : n \in next /\ Sends(w, next, k)
SentAgain(n, k) ==
  \E w \in Workers : \E sent \in Partial(w) : Redeliver(w, sent) /\ n \in sent /\ k = job[w].k
SentByCallback(n, k) ==
  \E c \in Callers :
    CallbackDispatch(c) /\ n \in Config[callback[c].at[1]].next /\ k = callback[c].at[2]

LEMMA WorkIsSent ==
  ASSUME TypeOK, JobShape, CallbackShape, [Next]_vars,
         NEW n \in Ids, NEW k \in Indexes, AtWork(n, k)'
  PROVE  \/ AtWork(n, k) \/ (Trigger /\ n \in Entry)
         \/ SentByJob(n, k) \/ SentAgain(n, k) \/ SentByCallback(n, k)
<1> DEFINE Goal == \/ AtWork(n, k) \/ (Trigger /\ n \in Entry)
                   \/ SentByJob(n, k) \/ SentAgain(n, k) \/ SentByCallback(n, k)
<1>0. <<n, k>> \in Jobs
  BY DEF Jobs
<1>1. CASE UNCHANGED <<queue, attempts, job>>
  BY <1>1 DEF AtWork, At, Busy, Here
<1>2. CASE Trigger
  <2>1. Entry \in SUBSET Ids /\ 1 \in Indexes
    BY NodeFacts DEF Indexes
  <2>2. queue'[<<n, k>>] > 0 => queue[<<n, k>>] > 0 \/ n \in Entry
    BY <1>2, <2>1, SentValue DEF Trigger
  <2>3. AtWork(n, k) \/ n \in Entry
    BY <1>2, <2>2 DEF Trigger, AtWork, At, Busy, Here
  <2> QED BY <1>2, <2>3
<1>3. ASSUME NEW w \in Workers, WorkerCase(w) PROVE Goal
  <2>1. ASSUME NEW j \in Jobs, Take(w, j) PROVE Goal
    <3>1. queue[j] > 0 /\ \A i \in Jobs : i # j => queue'[i] = queue[i]
      BY <2>1, ReceivedEffect DEF Take
    <3>2. Others(w) /\ Here(w)' = j /\ UNCHANGED attempts
      BY <2>1, TakeEffect DEF Take, Received
    <3>3. \A v \in Workers : At(v, <<n, k>>)' => At(v, <<n, k>>) \/ <<n, k>> = j
      BY <3>2 DEF At, Busy, Here, Others
    <3> QED BY <1>0, <3>1, <3>2, <3>3 DEF AtWork
  <2>2. ASSUME NEW j \in Jobs, Discard(w, j) PROVE Goal
    <3>1. queue[j] > 0 /\ \A i \in Jobs : i # j => queue'[i] = queue[i]
      BY <2>2, ReceivedEffect DEF Discard
    <3> QED BY <1>0, <2>2, <3>1 DEF AtWork, Discard, Received, At, Busy, Here
  <2>3. ASSUME NEW pc, Goes(w, pc), Busy(w), UNCHANGED queue, UNCHANGED attempts PROVE Goal
    BY <2>3, GoesAt DEF AtWork
  <2>4. CASE Upsert(w)
    <3>1. /\ Busy(w) /\ Goes(w, "running")
          /\ \A i \in Nodes \X Indexes : i # Here(w) => attempts'[i] = attempts[i]
      BY <2>4, UpsertEffect, HereRow DEF Upsert, Steps
    <3>2. UNCHANGED queue
      BY <2>4 DEF Upsert
    <3>3. At(w, Here(w))
      BY <3>1 DEF At
    <3> QED BY <3>1, <3>2, <3>3, GoesAt DEF AtWork
  <2>5. CASE ReadInstances(w)
    BY <2>3, <2>5, ReadEffect, HereRow DEF ReadInstances, Steps
  <2>6. CASE Produces(w)
    BY <2>3, <2>6, FinishEffect, HereRow DEF Produces, Finish, Steps
  <2>7. CASE Raise(w)
    BY <2>3, <2>7, RaiseEffect, HereRow DEF Raise, Steps
  <2>8. CASE SaveContext(w)
    BY <2>3, <2>8, SaveEffect, HereRow DEF SaveContext, Steps
  <2>9. CASE Rests(w)
    <3>1. Busy(w)
      BY <2>9, RestsEffect, JobFacts
    <3> QED BY <2>3, <2>9, <3>1, RestsEffect
  <2>10. ASSUME Ends(w), UNCHANGED queue, UNCHANGED attempts PROVE Goal
    BY <2>10, EndsAt DEF AtWork
  <2>11. CASE Waits(w) \/ SetRun(w)
    BY <2>10, <2>11, WaitsEffect, SetRunEffect
  <2>12. ASSUME NEW next \in SUBSET Ids, NEW m \in Indexes, Sends(w, next, m) PROVE Goal
    <3>1. /\ Ends(w) /\ UNCHANGED attempts
          /\ queue'[<<n, k>>] = queue[<<n, k>>] \/ (n \in next /\ m = k)
      BY <2>12, SendsEffect
    <3>2. AtWork(n, k) \/ (n \in next /\ m = k)
      BY <3>1, EndsAt DEF AtWork
    <3> QED BY <2>12, <3>2 DEF SentByJob
  <2>13. ASSUME NEW sent \in Partial(w), Redeliver(w, sent) PROVE Goal
    <3>1. /\ Busy(w) /\ Ends(w) /\ UNCHANGED attempts
          /\ queue'[<<n, k>>] > 0 =>
               queue[<<n, k>>] > 0 \/ <<n, k>> = Here(w) \/ (n \in sent /\ k = job[w].k)
          /\ sent # {} => job[w].pc = "dispatch" /\ sent \subseteq job[w].next
      BY <2>13, RedeliverEffect
    <3>2. AtWork(n, k) \/ (n \in sent /\ k = job[w].k)
      BY <3>1, EndsAt DEF AtWork, At
    <3> QED BY <2>13, <3>2 DEF SentAgain
  <2> QED BY <1>3, <2>1, <2>2, <2>4, <2>5, <2>6, <2>7, <2>8, <2>9, <2>11, <2>12, <2>13 DEF WorkerCase
<1>4. ASSUME NEW c \in Callers, CallbackCase(c) PROVE Goal
  <2>1. UNCHANGED <<attempts, job>>
    BY <1>4, CallbackEffect
  <2>2. CASE ~CallbackDispatch(c)
    BY <1>1, <1>4, <2>1, <2>2 DEF CallbackCase, CallbackStore, CallbackRead
  <2>3. CASE CallbackDispatch(c)
    <3> DEFINE p == callback[c].at[1]
               m == callback[c].at[2]
    <3>1. p \in Nodes /\ m \in Indexes /\ attempts[<<p, m>>] > 0
      BY <2>3 DEF CallbackDispatch, CallbackShape
    <3>2. queue'= Sent(Config[p].next, m)
      BY <2>3 DEF CallbackDispatch
    <3>3. Config[p].next \in SUBSET Ids
      BY <3>1, NodeFacts
    <3> HIDE DEF p, m
    <3>4. queue'[<<n, k>>] = queue[<<n, k>>] \/ (n \in Config[p].next /\ k = m)
      BY <3>1, <3>2, <3>3, SentValue
    <3>5. AtWork(n, k) \/ (n \in Config[p].next /\ k = m)
      BY <2>1, <3>4 DEF AtWork, At, Busy, Here
    <3> QED BY <2>3, <3>5 DEF SentByCallback, p, m
  <2> QED BY <2>2, <2>3
<1> QED BY <1>1, <1>2, <1>3, <1>4, StepCases DEF vars

\* Something executed has led to n in round k.
Led(n, k) ==
  \E p \in Nodes, m \in Indexes :
    attempts[<<p, m>>] > 0 /\ (n \in Nodes => p \in Sources[n] /\ m \in 1..k)

LEMMA WorkArises ==
  ASSUME TypeOK, JobShape, Begun, CallbackShape, [Next]_vars,
         NEW n \in Ids, NEW k \in Indexes, AtWork(n, k)'
  PROVE  AtWork(n, k) \/ (run = "PENDING" /\ run' = "RUNNING" /\ n \in Entry) \/ Led(n, k)
<1>1. ASSUME SentByJob(n, k) PROVE Led(n, k)
  <2>1. PICK w \in Workers, next \in SUBSET Ids : n \in next /\ Sends(w, next, k)
    BY <1>1 DEF SentByJob
  <2>2. /\ job[w].pc = "dispatch" /\ k \in {job[w].k, job[w].k + 1}
        /\ n \in Nodes => job[w].node \in Sources[n]
    BY <2>1 DEF Sends
  <2>3. Busy(w) /\ job[w].node \in Nodes /\ job[w].k \in Indexes
    BY <2>2, HereRow DEF Steps
  <2>4. attempts[<<job[w].node, job[w].k>>] > 0
    BY <2>2, <2>3 DEF Begun, Executing, Here
  <2>5. job[w].k \in 1..k
    BY <2>2, <2>3, NodeFacts DEF Indexes
  <2> QED BY <2>2, <2>3, <2>4, <2>5 DEF Led
<1>2. ASSUME SentAgain(n, k) PROVE Led(n, k)
  <2>0. PICK w \in Workers :
          \E sent \in Partial(w) : Redeliver(w, sent) /\ n \in sent /\ k = job[w].k
    BY <1>2 DEF SentAgain
  <2>1. PICK sent \in Partial(w) : Redeliver(w, sent) /\ n \in sent /\ k = job[w].k
    BY <2>0
  <2>2. Busy(w) /\ job[w].pc = "dispatch" /\ n \in job[w].next
    BY <2>1, RedeliverEffect
  <2>3. job[w].node \in Nodes /\ job[w].k \in Indexes
    BY <2>2, HereRow DEF Steps
  <2>4. attempts[<<job[w].node, job[w].k>>] > 0
    BY <2>2 DEF Begun, Executing, Here
  <2>5. n \in Nodes => job[w].node \in Sources[n]
    BY <2>2 DEF JobShape, Shape, Follows
  <2>6. job[w].k \in 1..k
    BY <2>1, <2>3, NodeFacts DEF Indexes
  <2> QED BY <2>3, <2>4, <2>5, <2>6 DEF Led
<1>3. ASSUME SentByCallback(n, k) PROVE Led(n, k)
  <2>1. PICK c \in Callers :
          CallbackDispatch(c) /\ n \in Config[callback[c].at[1]].next /\ k = callback[c].at[2]
    BY <1>3 DEF SentByCallback
  <2> DEFINE p == callback[c].at[1]
             m == callback[c].at[2]
  <2>2. p \in Nodes /\ m \in Indexes /\ attempts[<<p, m>>] > 0
    BY <2>1 DEF CallbackDispatch, CallbackShape
  <2>3. n \in Config[p].next /\ k = m
    BY <2>1
  <2> HIDE DEF p, m
  <2>4. n \in Nodes => p \in Sources[n]
    BY <2>2, <2>3, SourceFacts
  <2>5. m \in 1..k
    BY <2>2, <2>3, NodeFacts DEF Indexes
  <2> QED BY <2>2, <2>4, <2>5 DEF Led
<1> QED BY <1>1, <1>2, <1>3, WorkIsSent DEF Trigger

LEMMA SourcedStep ==
  ASSUME TypeOK, JobShape, Begun, CallbackShape, Sourced, [Next]_vars
  PROVE  Sourced'
<1> SUFFICES ASSUME NEW n \in Nodes \ Entry, NEW k \in Indexes, AtWork(n, k)' PROVE HasSource(n, k)'
  BY DEF Sourced
<1>1. n \in Ids
  BY NodeFacts
<1>2. AtWork(n, k) \/ Led(n, k)
  BY <1>1, WorkArises
<1>3. HasSource(n, k)
  BY <1>2 DEF Sourced, Led, HasSource
<1>4. PICK p \in Sources[n], m \in 1..k : attempts[<<p, m>>] > 0
  BY <1>3 DEF HasSource
<1>5. p \in Nodes /\ m \in Indexes
  BY <1>4, SourcesAreNodes, NodeFacts DEF Indexes
<1>6. attempts'[<<p, m>>] > 0
  BY <1>4, <1>5, RowsStay
<1> QED BY <1>4, <1>6 DEF HasSource

LEMMA QuietStep ==
  ASSUME TypeOK, JobShape, Begun, CallbackShape, Quiet, [Next]_vars
  PROVE  Quiet'
<1> SUFFICES ASSUME run' = "PENDING", NEW n \in Ids, NEW k \in Indexes, AtWork(n, k)' PROVE FALSE
  BY DEF Quiet
<1>1. AtWork(n, k) \/ Led(n, k)
  BY WorkArises
<1>2. run = "PENDING"
  <2>1. ASSUME NEW w \in Workers, WorkerCase(w) PROVE run' = run \/ run' # "PENDING"
    BY <2>1, WaitsEffect, RestsEffect, SetRunEffect, SendsEffect, RedeliverEffect
       DEF WorkerCase, Take, Discard, Received, ReadInstances, Upsert, Produces, Finish, Raise, SaveContext
  <2> QED BY <2>1, StepCases, CallbackEffect DEF Trigger, vars
<1>3. Led(n, k) => \E p \in Ids, m \in Indexes : AtWork(p, m)
  BY NodeFacts DEF Led, AtWork
<1> QED BY <1>1, <1>2, <1>3 DEF Quiet

\* Which rows exist, and what is in them.
LEMMA BegunStep ==
  ASSUME TypeOK, JobShape, Begun, CallbackShape, [Next]_vars
  PROVE  Begun'
<1>1. CASE UNCHANGED <<instance, attempts, job>>
  BY <1>1 DEF Begun, Busy, Here
<1>2. ASSUME NEW w \in Workers, WorkerCase(w) PROVE Begun'
  <2>1. ASSUME NEW j \in Jobs, Take(w, j) PROVE Begun'
    <3>1. /\ Others(w) /\ job'[w].pc \in {"loaded", "failing"}
          /\ UNCHANGED <<instance, attempts>>
      BY <2>1, TakeEffect DEF Take, Received
    <3> QED BY <3>1 DEF Begun, Others, Busy, Here, Executing
  <2>2. CASE Ends(w) /\ UNCHANGED <<instance, attempts>>
    BY <2>2 DEF Ends, Others, Begun, Busy, Here
  <2>3. CASE ReadInstances(w)
    BY <2>3, ReadEffect DEF ReadInstances, Goes, Others, Begun, Busy, Here, Executing
  <2>4. CASE Upsert(w)
    <3>1. /\ Goes(w, "running") /\ Busy(w) /\ Here(w) \in Nodes \X Indexes
          /\ instance' = [instance EXCEPT ![Here(w)] = "RUNNING"]
          /\ attempts'[Here(w)] > 0
          /\ \A i \in Nodes \X Indexes : i # Here(w) => attempts'[i] = attempts[i]
      BY <2>4, UpsertEffect, HereRow DEF Upsert, Steps
    <3>2. ASSUME NEW v \in Workers, Busy(v)', job'[v].pc \in Executing PROVE attempts'[Here(v)'] > 0
      <4>1. CASE v = w
        BY <3>1, <4>1, GoesAt
      <4>2. CASE v # w
        <5>1. Busy(v) /\ job[v].pc \in Executing /\ Here(v)' = Here(v)
          BY <3>1, <3>2, <4>2, GoesAt
        <5>2. Here(v) \in Nodes \X Indexes /\ attempts[Here(v)] > 0
          BY <5>1, HereRow DEF Begun, Executing, Steps
        <5> QED BY <3>1, <5>1, <5>2
      <4> QED BY <4>1, <4>2
    <3>3. ASSUME NEW i \in Nodes \X Indexes, attempts'[i] > 0 PROVE instance'[i] # "none"
      BY <3>1, <3>3 DEF Begun, TypeOK
    <3> QED BY <3>2, <3>3 DEF Begun
  <2>5. ASSUME NEW status \in {"SUCCESS", "SUSPENDED", "FAILURE"}, NEW pc, Goes(w, pc),
               job[w].pc \in Executing, Busy(w), UNCHANGED attempts,
               instance' = instance \/ instance' = [instance EXCEPT ![Here(w)] = status]
        PROVE  Begun'
    <3>1. ASSUME NEW v \in Workers, Busy(v)', job'[v].pc \in Executing PROVE attempts'[Here(v)'] > 0
      <4>1. Here(v)' = Here(v) /\ Busy(v) /\ job[v].pc \in Executing
        BY <2>5, <3>1, GoesAt
      <4> QED BY <2>5, <4>1 DEF Begun
    <3>2. ASSUME NEW i \in Nodes \X Indexes, attempts'[i] > 0 PROVE instance'[i] # "none"
      BY <2>5, <3>2 DEF Begun, TypeOK
    <3> QED BY <3>1, <3>2 DEF Begun
  <2>6. CASE Produces(w)
    <3>1. PICK status \in NodeStatuses, next \in SUBSET Ids :
            /\ job[w].pc = "running" /\ Follows(job[w].node, status, next)
            /\ Finish(w, status, next)
      BY <2>6 DEF Produces
    <3>2. /\ Goes(w, "save") /\ instance' = [instance EXCEPT ![Here(w)] = status]
          /\ UNCHANGED attempts /\ Busy(w)
      BY <3>1, FinishEffect, HereRow DEF Finish, Steps
    <3> QED BY <2>5, <3>1, <3>2 DEF Follows, Executing
  <2>7. CASE Raise(w)
    <3>1. /\ Goes(w, "failing") /\ instance' = [instance EXCEPT ![Here(w)] = "FAILURE"]
          /\ UNCHANGED attempts /\ Busy(w) /\ job[w].pc = "running"
      BY <2>7, RaiseEffect, HereRow DEF Raise, Steps
    <3> QED BY <2>5, <3>1 DEF Executing
  <2>8. CASE SaveContext(w)
    <3>1. /\ Goes(w, IF job[w].status = "FAILURE" THEN "failing" ELSE "dispatch")
          /\ job[w].pc = "save" /\ Busy(w) /\ UNCHANGED <<instance, attempts>>
      BY <2>8, SaveEffect, JobFacts DEF SaveContext
    <3> QED BY <2>5, <3>1 DEF Executing
  <2>9. CASE Rests(w)
    <3>1. /\ Goes(w, "failing") \/ Goes(w, "ending")
          /\ job[w].pc = "dispatch" /\ Busy(w) /\ UNCHANGED <<instance, attempts>>
      BY <2>9, RestsEffect, JobFacts
    <3> QED BY <2>5, <3>1 DEF Executing
  <2>10. CASE \E j \in Jobs : Discard(w, j)
    BY <1>1, <2>10 DEF Discard, Received
  <2> QED BY <1>2, <2>1, <2>2, <2>3, <2>4, <2>6, <2>7, <2>8, <2>9, <2>10,
             WaitsEffect, SetRunEffect, SendsEffect, RedeliverEffect DEF WorkerCase
<1>3. ASSUME NEW c \in Callers, CallbackCase(c) PROVE Begun'
  <2>1. UNCHANGED <<attempts, job>>
    BY <1>3, CallbackEffect
  <2>2. \A i \in Nodes \X Indexes : instance[i] # "none" => instance'[i] # "none"
    BY <1>3 DEF CallbackCase, CallbackStore, CallbackDispatch, CallbackRead, TypeOK
  <2> QED BY <2>1, <2>2 DEF Begun, Busy, Here
<1> QED BY <1>1, <1>2, <1>3, StepCases DEF Trigger, vars

LEMMA CallbackShapeStep ==
  ASSUME TypeOK, JobShape, CallbackShape, [Next]_vars
  PROVE  CallbackShape'
<1>1. CASE UNCHANGED callback
  BY <1>1, RowsStay DEF CallbackShape
<1>2. ASSUME NEW w \in Workers, WorkerCase(w) PROVE UNCHANGED callback
  BY <1>2, WaitsEffect, RestsEffect, SetRunEffect, SendsEffect, RedeliverEffect
     DEF WorkerCase, Take, Discard, Received, ReadInstances, Upsert, Produces, Finish, Raise, SaveContext
<1>3. ASSUME NEW c \in Callers, CallbackCase(c) PROVE CallbackShape'
  <2>1. /\ UNCHANGED attempts
        /\ \A d \in Callers : d # c => callback'[d] = callback[d]
        /\ callback'[c].at \in Nodes \X Indexes /\ IsAsync(callback'[c].at[1])
        /\ attempts[callback'[c].at] > 0
    BY <1>3, CallbackEffect
  <2> QED BY <2>1 DEF CallbackShape
<1> QED BY <1>1, <1>2, <1>3, StepCases DEF Trigger, vars

\* The run becomes SUCCESS only when an END that is configured so has a row.
LEMMA SuccessStep ==
  ASSUME TypeOK, JobShape, Begun, CallbackShape, SuccessHasEnd, [Next]_vars
  PROVE  SuccessHasEnd'
<1> SUFFICES ASSUME run' = "SUCCESS"
             PROVE  \E n \in OfKind("END"), k \in Indexes : Config[n].ok /\ attempts'[<<n, k>>] > 0
  BY DEF SuccessHasEnd
<1>1. \E n \in OfKind("END"), k \in Indexes : Config[n].ok /\ attempts[<<n, k>>] > 0
  <2>1. CASE run = "SUCCESS"
    BY <2>1 DEF SuccessHasEnd
  <2>2. CASE run # "SUCCESS"
    <3>1. PICK w \in Workers : SetRun(w)
      <4>1. ASSUME NEW w \in Workers, WorkerCase(w), ~SetRun(w) PROVE UNCHANGED run
        BY <4>1, WaitsEffect, RestsEffect, SendsEffect, RedeliverEffect
           DEF WorkerCase, Take, Discard, Received, ReadInstances, Upsert, Produces, Finish, Raise, SaveContext
      <4> QED BY <2>2, <4>1, StepCases, CallbackEffect DEF Trigger, vars
    <3>2. job[w].pc = "ending"
      BY <3>1, SetRunEffect
    <3>3. /\ job[w].node \in Nodes /\ job[w].k \in Indexes
          /\ Config[job[w].node].kind = "END" /\ Config[job[w].node].ok
      BY <3>2, HereRow DEF JobShape, Shape, Steps
    <3>4. attempts[<<job[w].node, job[w].k>>] > 0
      BY <3>2, HereRow DEF Begun, Executing, Here, Steps
    <3> QED BY <3>3, <3>4 DEF OfKind
  <2> QED BY <2>1, <2>2
<1>2. PICK n \in OfKind("END"), k \in Indexes : Config[n].ok /\ attempts[<<n, k>>] > 0
  BY <1>1
<1>3. attempts'[<<n, k>>] > 0
  BY <1>2, RowsStay DEF OfKind
<1> QED BY <1>2, <1>3

-----------------------------------------------------------------------------
(* The theorems for every graph                                             *)

LEMMA InitIInv == Init => IInv
<1> SUFFICES ASSUME Init PROVE IInv
  OBVIOUS
<1>1. TypeOK
  <2>1. run \in RunStatuses /\ context \in [Nodes -> NodeStatuses] /\ queue \in [Jobs -> Nat]
    BY DEF Init, RunStatuses, NodeStatuses, Nothing
  <2>2. /\ instance \in [Nodes \X Indexes -> NodeStatuses]
        /\ attempts \in [Nodes \X Indexes -> 0..AttemptCap]
        /\ faults \in 0..MaxFaults
    BY NodeFacts DEF Init, NodeStatuses
  <2>3. job \in [Workers -> {Idle} \cup JobStates]
    BY DEF Init
  <2>4. callback \in [Callers -> [pc : {"idle", "checked", "stored", "accepted", "ignored"},
                                  at : (Nodes \X Indexes) \cup {<<>>}]]
    BY DEF Init
  <2> QED BY <2>1, <2>2, <2>3, <2>4 DEF TypeOK
<1>2. \A w \in Workers : ~Busy(w)
  BY DEF Init, Busy
<1>3. \A n \in Ids, k \in Indexes : ~AtWork(n, k)
  BY <1>2 DEF AtWork, At, Init, Jobs
<1>4. JobShape /\ Begun /\ CallbackShape /\ SuccessHasEnd
  BY <1>2 DEF JobShape, Begun, CallbackShape, SuccessHasEnd, Init
<1> QED BY <1>1, <1>3, <1>4, NodeFacts DEF IInv, Quiet, Sourced

LEMMA NextIInv == IInv /\ [Next]_vars => IInv'
BY TypeStep, ShapeStep, BegunStep, CallbackShapeStep, SourcedStep, QuietStep, SuccessStep DEF IInv

\* The inductive invariant, for every graph and whatever workers die.
THEOREM Invariance == Spec => []IInv
BY InitIInv, NextIInv, PTL DEF Spec

\* The types of the rows, of the queue and of what workers and callbacks have in hand.
THEOREM Typing == Spec => []TypeOK
<1>1. IInv => TypeOK
  BY DEF IInv
<1> QED BY <1>1, Invariance, PTL

\* No run succeeds without an END node that is configured so and has been executed,
\* whatever the graph is and whatever workers die (EndNodeHandler and the END
\* verdict of the orchestrator).
THEOREM SuccessIsReached == Spec => []SuccessHasEnd
<1>1. IInv => SuccessHasEnd
  BY DEF IInv
<1> QED BY <1>1, Invariance, PTL

\* Nothing is executed but the entries and what an executed node leads to in the same
\* round or an earlier one, whatever is delivered again.
Reached ==
  \A n \in Nodes \ Entry, k \in Indexes : attempts[<<n, k>>] > 0 => HasSource(n, k)

THEOREM ReachedOnly == Spec => []Reached
<1>1. IInv => Reached
  BY DEF IInv, Sourced, AtWork, Reached
<1> QED BY <1>1, Invariance, PTL

-----------------------------------------------------------------------------
(* No wake-up is lost                                                       *)

\* Only the trigger starts a run and only a verdict ends it.
LEMMA RunChange ==
  ASSUME TypeOK, JobShape, CallbackShape, [Next]_vars, ~(\E w \in Workers : SetRun(w)), ~Trigger
  PROVE  run' = run
<1>1. ASSUME NEW w \in Workers, WorkerCase(w), ~SetRun(w) PROVE run' = run
  BY <1>1, WaitsEffect, RestsEffect, SendsEffect, RedeliverEffect
     DEF WorkerCase, Take, Discard, Received, ReadInstances, Upsert, Produces, Finish, Raise, SaveContext
<1> QED BY <1>1, StepCases, CallbackEffect DEF vars

\* A JOIN that does not find what it waits for finds a node that is not finished.
LEMMA SomebodyHandles ==
  ASSUME IInv, Wakeable, OpenRowsHandled, NEW n \in OfKind("JOIN"), NEW k \in Indexes, AtWork(n, k),
         NEW seen, \A u \in Upstream(n) : seen[u] = Latest(u), ~Ready(n, seen)
  PROVE  \E u \in Nodes, m \in Indexes : Config[u].kind # "JOIN" /\ Handled(<<u, m>>)
<1>1. n \in Nodes /\ Config[n].mode \in {"ALL", "ANY"}
  BY KindFacts DEF OfKind
<1>2. \E u \in Upstream(n) : seen[u] \notin {"none", "SUCCESS"}
  <2>1. CASE Config[n].mode = "ALL"
    BY <2>1 DEF Ready
  <2>2. CASE Config[n].mode = "ANY"
    <3>1. n \notin Entry /\ Sources[n] \subseteq Upstream(n)
      BY <2>2 DEF Wakeable, Ready
    <3>2. PICK p \in Sources[n], m \in 1..k : attempts[<<p, m>>] > 0
      BY <1>1, <3>1 DEF IInv, Sourced, HasSource
    <3>3. p \in Nodes /\ m \in Indexes
      BY <1>1, <3>2, SourcesAreNodes, NodeFacts DEF Indexes
    <3>4. instance[<<p, m>>] # "none"
      BY <3>2, <3>3 DEF IInv, Begun
    <3>5. p \in Upstream(n) /\ seen[p] # "none"
      BY <3>1, <3>3, <3>4, LatestRow DEF IInv
    <3> QED BY <2>2, <3>5 DEF Ready
  <2> QED BY <1>1, <2>1, <2>2
<1>3. PICK u \in Upstream(n) : Latest(u) \notin {"none", "SUCCESS"}
  BY <1>2
<1>4. u \in Nodes /\ Config[u].kind # "JOIN" /\ ~IsAsync(u)
  BY <1>3 DEF Wakeable, Upstream
<1>5. PICK m \in Indexes : instance[<<u, m>>] = Latest(u)
  BY <1>3, <1>4, LatestRow DEF IInv
<1> QED BY <1>3, <1>4, <1>5 DEF OpenRowsHandled

\* Who handles a row goes on to do so, unless it is w that ends its part.
LEMMA HandledStays ==
  ASSUME NEW w \in Workers, Others(w), NEW i, Handled(i), queue[i] > 0 => queue'[i] > 0,
         At(w, i) /\ Handling(w) => Handled(i)'
  PROVE  Handled(i)'
BY DEF Handled, Others, At, Handling, Busy, Here

LEMMA OpenRowsStep ==
  ASSUME IInv, OpenRowsHandled, run \in {"PENDING", "RUNNING"}, [Next]_vars,
         ~(\E w \in Workers : SetRun(w))
  PROVE  OpenRowsHandled'
<1> SUFFICES ASSUME NEW n \in Nodes, NEW k \in Indexes, Config[n].kind # "JOIN", ~IsAsync(n),
                    instance'[<<n, k>>] \notin {"none", "SUCCESS"}
             PROVE  Handled(<<n, k>>)'
  BY DEF OpenRowsHandled
<1> DEFINE i == <<n, k>>
<1>0. /\ i \in Nodes \X Indexes /\ i \in Jobs /\ i[1] = n
      /\ TypeOK /\ JobShape /\ CallbackShape
  BY NodeFacts DEF Jobs, IInv
<1>1. ASSUME instance'[i] = instance[i] PROVE Handled(i)
  BY <1>1 DEF OpenRowsHandled
<1> HIDE DEF i
<1>2. CASE UNCHANGED <<instance, job>> /\ (queue[i] > 0 => queue'[i] > 0)
  <2>1. Handled(i)
    BY <1>1, <1>2
  <2> QED BY <1>2, <2>1 DEF Handled, Handling, At, Busy, Here, i
<1>3. CASE Trigger
  <2>1. Entry \in SUBSET Ids /\ 1 \in Indexes /\ n \in Ids
    BY NodeFacts DEF Indexes
  <2>2. queue'[i] \in {queue[i], queue[i] + 1}
    BY <1>0, <1>3, <2>1, SentValue DEF Trigger, i
  <2>3. queue[i] \in Nat
    BY <1>0 DEF TypeOK
  <2> QED BY <1>2, <1>3, <2>2, <2>3 DEF Trigger
<1>4. ASSUME NEW w \in Workers, WorkerCase(w) PROVE Handled(i)'
  <2>1. ASSUME NEW j \in Jobs, Take(w, j) PROVE Handled(i)'
    <3>1. /\ ~Busy(w) /\ Others(w) /\ Busy(w)' /\ Here(w)' = j
          /\ job'[w].pc \in {"loaded", "failing"}
      BY <1>0, <2>1, TakeEffect
    <3>2. i # j => queue'[i] = queue[i]
      BY <1>0, <2>1, ReceivedEffect DEF Take
    <3>3. Handled(i)
      BY <1>1, <2>1 DEF Take, Received
    <3>4. CASE i = j
      BY <3>1, <3>4 DEF Handled, At, Handling
    <3>5. CASE i # j
      BY <3>1, <3>2, <3>3, <3>5, HandledStays DEF At
    <3> QED BY <3>4, <3>5
  <2>2. ASSUME NEW j \in Jobs, Discard(w, j) PROVE FALSE
    BY <2>2 DEF Discard, Stopped
  <2>3. ASSUME NEW pc, Goes(w, pc), Busy(w), UNCHANGED queue, i # Here(w) \/ UNCHANGED instance,
               \A j \in Nodes \X Indexes : j # Here(w) => instance'[j] = instance[j],
               i = Here(w) /\ Handling(w) => Handling(w)'
        PROVE  Handled(i)'
    <3>1. Handled(i)
      BY <1>0, <1>1, <2>3
    <3>2. At(w, i)' <=> At(w, i)
      BY <1>0, <2>3, GoesAt
    <3> QED BY <2>3, <3>1, <3>2, HandledStays DEF Goes, Handled, At
  <2>4. ASSUME NEW pc, Goes(w, pc), Busy(w), Handling(w)', i = Here(w) PROVE Handled(i)'
    <3>1. At(w, i)'
      BY <1>0, <2>4, GoesAt DEF At
    <3> QED BY <2>4, <3>1 DEF Handled
  <2>5. CASE ReadInstances(w)
    <3>1. Goes(w, "read") /\ Busy(w) /\ UNCHANGED <<queue, instance>>
      BY <1>0, <2>5, ReadEffect, HereRow DEF ReadInstances, Steps
    <3>2. Handling(w)'
      BY <3>1 DEF Goes, Handling
    <3> QED BY <2>3, <3>1, <3>2
  <2>6. CASE Upsert(w)
    <3>1. /\ Goes(w, "running") /\ Busy(w) /\ UNCHANGED queue /\ Here(w) \in Nodes \X Indexes
          /\ instance' = [instance EXCEPT ![Here(w)] = "RUNNING"]
      BY <1>0, <2>6, UpsertEffect, HereRow DEF Upsert, Steps
    <3>2. \A j \in Nodes \X Indexes : j # Here(w) => instance'[j] = instance[j]
      BY <1>0, <3>1 DEF TypeOK
    <3>3. Handling(w)'
      BY <3>1 DEF Goes, Handling
    <3> QED BY <2>3, <2>4, <3>1, <3>2, <3>3
  <2>7. CASE Produces(w)
    <3>1. PICK status \in NodeStatuses, next \in SUBSET Ids :
            /\ job[w].pc = "running" /\ Follows(job[w].node, status, next)
            /\ Finish(w, status, next)
      BY <2>7 DEF Produces
    <3>2. /\ Goes(w, "save") /\ Busy(w) /\ UNCHANGED queue /\ Here(w) \in Nodes \X Indexes
          /\ instance' = [instance EXCEPT ![Here(w)] = status] /\ job'[w].status = status
      BY <1>0, <3>1, FinishEffect, HereRow DEF Finish, Steps
    <3>3. /\ instance'[Here(w)] = status
          /\ \A j \in Nodes \X Indexes : j # Here(w) => instance'[j] = instance[j]
      BY <1>0, <3>2 DEF TypeOK
    <3>4. CASE i = Here(w)
      <4>1. job[w].node = n /\ status = "FAILURE"
        BY <1>0, <3>1, <3>3, <3>4 DEF Follows, i, Here
      <4>2. Handling(w)'
        BY <3>2, <4>1 DEF Goes, Handling
      <4> QED BY <2>4, <3>2, <3>4, <4>2
    <3> QED BY <2>3, <3>2, <3>3, <3>4
  <2>8. CASE Raise(w)
    <3>1. /\ Goes(w, "failing") /\ Busy(w) /\ UNCHANGED queue /\ Here(w) \in Nodes \X Indexes
          /\ instance' = [instance EXCEPT ![Here(w)] = "FAILURE"]
      BY <1>0, <2>8, RaiseEffect, HereRow DEF Raise, Steps
    <3>2. \A j \in Nodes \X Indexes : j # Here(w) => instance'[j] = instance[j]
      BY <1>0, <3>1 DEF TypeOK
    <3>3. Handling(w)'
      BY <3>1 DEF Goes, Handling
    <3> QED BY <2>3, <2>4, <3>1, <3>2, <3>3
  <2>9. CASE SaveContext(w)
    <3>1. /\ Goes(w, IF job[w].status = "FAILURE" THEN "failing" ELSE "dispatch")
          /\ job[w].pc = "save" /\ Busy(w) /\ UNCHANGED <<queue, instance>>
      BY <1>0, <2>9, SaveEffect, JobFacts DEF SaveContext
    <3>2. Handling(w) => Handling(w)'
      BY <3>1 DEF Goes, Handling
    <3> QED BY <2>3, <3>1, <3>2
  <2>10. CASE Rests(w)
    <3>1. /\ Goes(w, "failing") \/ Goes(w, "ending")
          /\ job[w].pc = "dispatch" /\ Busy(w) /\ UNCHANGED <<queue, instance>>
      BY <1>0, <2>10, RestsEffect, JobFacts
    <3>2. ~Handling(w)
      BY <3>1 DEF Handling
    <3> QED BY <2>3, <3>1, <3>2
  <2>11. ASSUME Ends(w), UNCHANGED instance, queue[i] > 0 => queue'[i] > 0,
                At(w, i) /\ Handling(w) => queue'[i] > 0
         PROVE  Handled(i)'
    BY <1>1, <2>11, HandledStays DEF Ends, Handled
  <2>12. CASE Waits(w)
    <3>1. /\ Busy(w) /\ Ends(w) /\ UNCHANGED <<instance, queue>>
          /\ \/ job[w].pc = "running" /\ Config[job[w].node].kind = "JOIN"
             \/ job[w].pc = "dispatch"
      BY <1>0, <2>12, WaitsEffect
    <3>2. ~(At(w, i) /\ Handling(w))
      BY <3>1 DEF At, Handling, Here, i
    <3> QED BY <2>11, <3>1, <3>2
  <2>13. ASSUME NEW next \in SUBSET Ids, NEW m \in Indexes, Sends(w, next, m) PROVE Handled(i)'
    <3>1. /\ Ends(w) /\ UNCHANGED instance
          /\ \A x \in Ids, y \in Indexes : queue'[<<x, y>>] \in {queue[<<x, y>>], queue[<<x, y>>] + 1}
      BY <1>0, <2>13, SendsEffect
    <3>2. queue'[i] \in {queue[i], queue[i] + 1} /\ queue[i] \in Nat
      BY <1>0, <3>1, NodeFacts DEF i, TypeOK
    <3>3. ~Handling(w)
      BY <2>13 DEF Sends, Handling
    <3> QED BY <2>11, <3>1, <3>2, <3>3
  <2>14. ASSUME NEW sent \in Partial(w), Redeliver(w, sent) PROVE Handled(i)'
    <3>1. /\ Ends(w) /\ UNCHANGED instance /\ queue'[Here(w)] > 0
          /\ \A j \in Jobs : queue[j] > 0 => queue'[j] > 0
      BY <1>0, <2>14, RedeliverEffect
    <3> QED BY <1>0, <2>11, <3>1 DEF At
  <2> QED BY <1>4, <2>1, <2>2, <2>5, <2>6, <2>7, <2>8, <2>9, <2>10, <2>12, <2>13, <2>14 DEF WorkerCase
<1>5. ASSUME NEW c \in Callers, CallbackCase(c) PROVE Handled(i)'
  <2>1. UNCHANGED job
    BY <1>0, <1>5, CallbackEffect
  <2>2. instance'[i] = instance[i]
    <3>1. CASE CallbackStore(c)
      <4>1. callback[c].at \in Nodes \X Indexes /\ IsAsync(callback[c].at[1])
        BY <1>0, <3>1 DEF CallbackStore, CallbackShape
      <4>2. callback[c].at # i
        BY <1>0, <4>1
      <4> QED BY <1>0, <3>1, <4>2 DEF CallbackStore, TypeOK
    <3> QED BY <1>5, <3>1 DEF CallbackCase, CallbackDispatch, CallbackRead
  <2>3. queue[i] > 0 => queue'[i] > 0
    <3>1. CASE CallbackDispatch(c)
      <4> DEFINE p == callback[c].at[1]
                 m == callback[c].at[2]
      <4>1. p \in Nodes /\ m \in Indexes
        BY <1>0, <3>1 DEF CallbackDispatch, CallbackShape
      <4>2. queue' = Sent(Config[p].next, m) /\ Config[p].next \in SUBSET Ids
        BY <3>1, <4>1, NodeFacts DEF CallbackDispatch
      <4> HIDE DEF p, m
      <4>3. queue'[i] \in {queue[i], queue[i] + 1}
        <5>1. n \in Ids /\ TypeOK /\ Config[p].next \in SUBSET Ids /\ m \in Indexes
          BY <1>0, <4>1, <4>2, NodeFacts
        <5>2. \/ Sent(Config[p].next, m)[<<n, k>>] = queue[<<n, k>>] + 1
              \/ Sent(Config[p].next, m)[<<n, k>>] = queue[<<n, k>>]
          BY <5>1, SentValue
        <5> QED BY <4>2, <5>2 DEF i
      <4>4. queue[i] \in Nat
        BY <1>0 DEF TypeOK
      <4> QED BY <4>3, <4>4
    <3> QED BY <1>5, <3>1 DEF CallbackCase, CallbackStore, CallbackRead
  <2> QED BY <1>1, <2>1, <2>2, <2>3 DEF Handled, Handling, At, Busy, Here
<1>6. CASE UNCHANGED vars
  BY <1>2, <1>6 DEF vars
<1> QED BY <1>0, <1>3, <1>4, <1>5, <1>6, StepCases DEF i

\* A job that has work to do keeps the run live, as long as it is not w that loses it.
LEMMA LiveStays ==
  ASSUME NEW w \in Workers, Others(w), Live, \A j \in Jobs : queue[j] > 0 => queue'[j] > 0,
         (Busy(w) /\ ~Doomed(w)) => Live'
  PROVE  Live'
<1>1. CASE \E j \in Jobs : queue[j] > 0
  BY <1>1 DEF Live
<1>2. ASSUME NEW v \in Workers, Busy(v) /\ ~Doomed(v), v # w PROVE Live'
  <2>1. Busy(v)' /\ ~Doomed(v)'
    BY <1>2 DEF Others, Busy, Doomed
  <2> QED BY <2>1 DEF Live
<1> QED BY <1>1, <1>2 DEF Live

LEMMA LiveStep ==
  ASSUME IInv, Wakeable, OpenRowsHandled, Live, run = "RUNNING", [Next]_vars,
         ~(\E w \in Workers : SetRun(w))
  PROVE  Live'
<1>0. TypeOK /\ JobShape /\ CallbackShape /\ queue \in [Jobs -> Nat]
  BY DEF IInv, TypeOK
<1>1. CASE UNCHANGED vars
  BY <1>1 DEF vars, Live, Busy, Doomed
<1>2. ASSUME NEW w \in Workers, WorkerCase(w) PROVE Live'
  <2>1. ASSUME Busy(w)', ~(job'[w].pc \in {"read", "running"}) PROVE Live'
    BY <2>1 DEF Live, Doomed
  <2>2. ASSUME NEW pc, Goes(w, pc), Busy(w), pc \notin {"read", "running"} PROVE Live'
    BY <1>0, <2>1, <2>2, GoesAt DEF Goes
  <2>3. ASSUME NEW j \in Jobs, Take(w, j) \/ Discard(w, j) PROVE Live'
    BY <1>0, <2>1, <2>3, TakeEffect DEF Discard, Stopped
  <2>4. CASE ReadInstances(w)
    <3>1. /\ Goes(w, "read") /\ Busy(w) /\ Others(w) /\ UNCHANGED queue
          /\ job[w].node \in Nodes /\ job[w].k \in Indexes
      BY <1>0, <2>4, ReadEffect, HereRow DEF ReadInstances, Steps, Goes
    <3>2. Busy(w)' /\ job'[w].node = job[w].node
      BY <1>0, <3>1, GoesAt DEF Goes
    <3>3. CASE Doomed(w)'
      <4>1. Config[job[w].node].kind = "JOIN" /\ ~Ready(job[w].node, job'[w].seen)
        BY <3>2, <3>3 DEF Doomed
      <4>2. \A u \in Upstream(job[w].node) : job'[w].seen[u] = Latest(u)
        BY <1>0, <2>4, <4>1, ReadEffect
      <4>3. AtWork(job[w].node, job[w].k) /\ job[w].node \in OfKind("JOIN")
        BY <3>1, <4>1 DEF AtWork, At, Here, OfKind
      <4>4. PICK u \in Nodes, m \in Indexes : Config[u].kind # "JOIN" /\ Handled(<<u, m>>)
        BY <3>1, <4>1, <4>2, <4>3, SomebodyHandles
      <4>5. CASE queue[<<u, m>>] > 0
        <5>1. <<u, m>> \in Jobs
          BY NodeFacts DEF Jobs
        <5> QED BY <3>1, <4>5, <5>1 DEF Live
      <4>6. ASSUME NEW v \in Workers, At(v, <<u, m>>) PROVE Live'
        <5>1. Busy(v) /\ job[v].node = u
          BY <4>6 DEF At, Here
        <5>2. v # w
          BY <4>1, <4>4, <5>1
        <5>3. Busy(v)' /\ ~Doomed(v)'
          BY <3>1, <4>4, <5>1, <5>2 DEF Others, Busy, Doomed
        <5> QED BY <5>3 DEF Live
      <4> QED BY <4>4, <4>5, <4>6 DEF Handled
    <3>4. CASE ~Doomed(w)'
      BY <3>2, <3>4 DEF Live
    <3> QED BY <3>3, <3>4
  <2>5. CASE Upsert(w)
    <3>1. /\ Goes(w, "running") /\ Others(w) /\ Busy(w) /\ job'[w].seen = job[w].seen
          /\ UNCHANGED queue /\ job[w].pc = "read"
      BY <1>0, <2>5, UpsertEffect, HereRow DEF Upsert, Steps, Goes
    <3>2. Busy(w)' /\ (Doomed(w)' => Doomed(w))
      BY <1>0, <3>1, GoesAt DEF Goes, Doomed
    <3>3. ~Doomed(w) => Live'
      BY <3>2 DEF Live
    <3> QED BY <3>1, <3>3, LiveStays
  <2>6. CASE Produces(w)
    <3>1. PICK status \in NodeStatuses, next \in SUBSET Ids :
            job[w].pc = "running" /\ Finish(w, status, next)
      BY <2>6 DEF Produces
    <3>2. Goes(w, "save") /\ Busy(w)
      BY <1>0, <3>1, FinishEffect, HereRow DEF Steps
    <3> QED BY <2>2, <3>2
  <2>7. CASE Raise(w)
    <3>1. Goes(w, "failing") /\ Busy(w)
      BY <1>0, <2>7, RaiseEffect, JobFacts
    <3> QED BY <2>2, <3>1
  <2>8. CASE SaveContext(w)
    <3>1. /\ Goes(w, IF job[w].status = "FAILURE" THEN "failing" ELSE "dispatch")
          /\ Busy(w)
      BY <1>0, <2>8, SaveEffect, JobFacts
    <3> QED BY <2>2, <3>1
  <2>9. CASE Rests(w)
    <3>1. (Goes(w, "failing") \/ Goes(w, "ending")) /\ Busy(w)
      BY <1>0, <2>9, RestsEffect, JobFacts
    <3> QED BY <2>2, <3>1
  <2>10. CASE Waits(w)
    <3>1. /\ Busy(w) /\ Ends(w) /\ Others(w) /\ UNCHANGED queue
          /\ \/ /\ job[w].pc = "running" /\ Config[job[w].node].kind = "JOIN"
                /\ ~Ready(job[w].node, job[w].seen)
             \/ job[w].pc = "dispatch" /\ job[w].status = "SUSPENDED" /\ job[w].next = {}
      BY <1>0, <2>10, WaitsEffect DEF Ends
    <3>2. Doomed(w)
      <4>1. CASE job[w].pc = "dispatch" /\ job[w].status = "SUSPENDED" /\ job[w].next = {}
        <5>1. job[w].node \in Nodes /\ Follows(job[w].node, job[w].status, job[w].next)
          BY <1>0, <3>1, <4>1 DEF JobShape, Shape
        <5>2. IsAsync(job[w].node) /\ Config[job[w].node].next = {}
          BY <4>1, <5>1 DEF Follows
        <5> QED BY <5>1, <5>2 DEF Wakeable, IsAsync, OfKind
      <4> QED BY <3>1, <4>1 DEF Doomed
    <3> QED BY <3>1, <3>2, LiveStays
  <2>11. ASSUME NEW next \in SUBSET Ids, NEW m \in Indexes, Sends(w, next, m) PROVE Live'
    <3>1. PICK x \in next : x \in Ids
      BY <2>11 DEF Sends
    <3>2. queue'[<<x, m>>] = queue[<<x, m>>] + 1
      BY <1>0, <2>11, <3>1, SendsEffect
    <3>3. <<x, m>> \in Jobs
      BY <3>1 DEF Jobs
    <3>4. queue'[<<x, m>>] > 0
      BY <1>0, <3>2, <3>3
    <3> QED BY <3>3, <3>4 DEF Live
  <2>12. ASSUME NEW sent \in Partial(w), Redeliver(w, sent) PROVE Live'
    BY <1>0, <2>12, RedeliverEffect DEF Live
  <2>13. ~SetRun(w)
    OBVIOUS
  <2> QED BY <1>2, <2>3, <2>4, <2>5, <2>6, <2>7, <2>8, <2>9, <2>10, <2>11, <2>12, <2>13 DEF WorkerCase
<1>3. ASSUME NEW c \in Callers, CallbackCase(c) PROVE Live'
  <2>1. UNCHANGED job
    BY <1>0, <1>3, CallbackEffect
  <2>2. ASSUME NEW n \in Ids, NEW k \in Indexes, queue[<<n, k>>] > 0 PROVE queue'[<<n, k>>] > 0
    <3>0. <<n, k>> \in Jobs
      BY DEF Jobs
    <3>1. CASE CallbackDispatch(c)
      <4> DEFINE p == callback[c].at[1]
                 m == callback[c].at[2]
      <4>1. p \in Nodes /\ m \in Indexes
        BY <1>0, <3>1 DEF CallbackDispatch, CallbackShape
      <4>2. queue' = Sent(Config[p].next, m)
        BY <3>1 DEF CallbackDispatch
      <4>3. Config[p].next \in SUBSET Ids
        BY <4>1, NodeFacts
      <4> HIDE DEF p, m
      <4>4. Sent(Config[p].next, m)[<<n, k>>] \in {queue[<<n, k>>], queue[<<n, k>>] + 1}
        BY <1>0, <4>1, <4>3, SentValue
      <4>5. queue[<<n, k>>] \in Nat
        BY <1>0, <3>0
      <4> QED BY <2>2, <4>2, <4>4, <4>5
    <3> QED BY <1>3, <2>2, <3>1 DEF CallbackCase, CallbackStore, CallbackRead
  <2>3. \A j \in Jobs : queue[j] > 0 => queue'[j] > 0
    BY <2>2 DEF Jobs
  <2> QED BY <2>1, <2>3 DEF Live, Busy, Doomed
<1> QED BY <1>0, <1>1, <1>2, <1>3, StepCases DEF Trigger

LEMMA WakeStep ==
  ASSUME Wakeable, IInv, WakeInv, [Next]_vars
  PROVE  WakeInv'
<1>0. TypeOK /\ JobShape /\ CallbackShape
  BY DEF IInv
<1>1. CASE \E w \in Workers : SetRun(w)
  BY <1>0, <1>1, SetRunEffect DEF WakeInv
<1>2. CASE ~(\E w \in Workers : SetRun(w)) /\ ~Trigger
  <2>1. run' = run
    BY <1>0, <1>2, RunChange
  <2> QED BY <1>2, <2>1, OpenRowsStep, LiveStep DEF WakeInv
<1>3. CASE ~(\E w \in Workers : SetRun(w)) /\ Trigger
  <2>1. OpenRowsHandled'
    BY <1>3, OpenRowsStep DEF WakeInv, Trigger
  <2>2. Live'
    <3>1. PICK x \in Entry : x \in Ids
      BY <1>3, NodeFacts DEF Trigger
    <3>2. Entry \in SUBSET Ids /\ 1 \in Indexes
      BY NodeFacts DEF Indexes
    <3>3. queue'[<<x, 1>>] = queue[<<x, 1>>] + 1
      BY <1>0, <1>3, <3>1, <3>2, SentValue DEF Trigger
    <3>4. <<x, 1>> \in Jobs
      BY <3>1, <3>2 DEF Jobs
    <3>5. queue'[<<x, 1>>] > 0
      BY <1>0, <3>3, <3>4 DEF TypeOK
    <3> QED BY <3>4, <3>5 DEF Live
  <2> QED BY <2>1, <2>2 DEF WakeInv
<1> QED BY <1>1, <1>2, <1>3

\* In every graph whose JOINs wait for nodes that finish by themselves, a run that is
\* RUNNING has a job that is queued or in hand, however many workers die: no JOIN is
\* left waiting for a wake-up that has already been (JoinNodeHandler, PENDING path).
THEOREM NoLostWakeUp ==
  ASSUME Wakeable
  PROVE  Spec => []WorkRemains
<1>1. Init => WakeInv
  BY DEF Init, WakeInv, OpenRowsHandled
<1>2. WakeInv /\ IInv /\ [Next]_vars => WakeInv'
  BY WakeStep
<1>3. WakeInv => WorkRemains
  BY DEF WakeInv, Live, WorkRemains
<1> QED BY <1>1, <1>2, <1>3, Invariance, PTL DEF Spec

-----------------------------------------------------------------------------
(* Nodes that are executed once                                             *)

\* A message for such a node is only sent when nothing is known of it yet, by a job of
\* its only source that ends with it.
LEMMA SentOnce ==
  ASSUME IInv, NEW S, Single(S), OnceInv(S), NEW n \in S, NEW k \in Indexes,
         NEW w \in Workers, NEW next \in SUBSET Ids, NEW m \in Indexes, Sends(w, next, m),
         n \in next, m = k
  PROVE  /\ ~AtWork(n, k)
         /\ job[w].k = k /\ Busy(w) /\ job[w].node \in S /\ attempts[Here(w)] > 0
         /\ Sources[n] = {job[w].node}
<1>1. /\ job[w].pc = "dispatch" /\ n \in Nodes /\ Config[n].kind # "LOOP"
      /\ job[w].node \in Sources[n] /\ m = job[w].k
  BY DEF Sends, Single
<1>2. Busy(w)
  BY <1>1, HereRow DEF IInv, Steps
<1>3. job[w].node \in S /\ Sources[n] = {job[w].node}
  BY <1>1 DEF Single
<1>4. attempts[Here(w)] > 0
  BY <1>1, <1>2 DEF IInv, Begun, Executing
<1>5. At(w, <<job[w].node, k>>)
  BY <1>1, <1>2 DEF At, Here
<1>6. ~AtWork(n, k)
  BY <1>1, <1>5 DEF OnceInv, SourceLeft
<1> QED BY <1>1, <1>2, <1>3, <1>4, <1>6

\* A callback sends nothing to such a node.
LEMMA CallbackSends ==
  ASSUME IInv, NEW S, Single(S), NEW n \in S, NEW k \in Indexes, NEW c \in Callers, CallbackDispatch(c)
  PROVE  queue'[<<n, k>>] = queue[<<n, k>>]
<1> DEFINE p == callback[c].at[1]
           m == callback[c].at[2]
<1>1. p \in Nodes /\ m \in Indexes /\ IsAsync(p)
  BY DEF CallbackDispatch, CallbackShape, IInv
<1>2. queue' = Sent(Config[p].next, m)
  BY DEF CallbackDispatch
<1>3. TypeOK /\ Config[p].next \in SUBSET Ids
  BY <1>1, NodeFacts DEF IInv
<1> HIDE DEF p, m
<1>4. n \in Nodes /\ n \in Ids
  BY NodeFacts DEF Single
<1>5. n \notin Config[p].next
  BY <1>1, <1>4, SourceFacts DEF Single
<1> QED BY <1>1, <1>2, <1>3, <1>4, <1>5, SentValue

\* A settled row of such a node is not written but by callbacks.
LEMMA SettledStays ==
  ASSUME IInv, NEW S, Single(S), OnceInv(S), [Next]_vars,
         NEW n \in S, NEW k \in Indexes, Settled(<<n, k>>)
  PROVE  Settled(<<n, k>>)' /\ (instance[<<n, k>>] = "SUCCESS" => instance'[<<n, k>>] = "SUCCESS")
<1> DEFINE i == <<n, k>>
<1>0. /\ TypeOK /\ JobShape /\ CallbackShape /\ i \in Nodes \X Indexes
      /\ One(i) /\ attempts[i] > 0 /\ instance[i] \in {"SUCCESS", "SUSPENDED"}
  BY DEF IInv, Single, OnceInv, Settled
<1> HIDE DEF i
<1>1. attempts'[i] > 0
  BY <1>0, RowsStay
<1>2. CASE UNCHANGED instance
  BY <1>0, <1>1, <1>2 DEF Settled, i
<1>3. ASSUME NEW w \in Workers, WorkerCase(w)
      PROVE  instance'[i] = instance[i]
  <2>1. CASE Upsert(w)
    <3>1. Busy(w) /\ job[w].pc = "read" /\ instance' = [instance EXCEPT ![Here(w)] = "RUNNING"]
      BY <1>0, <2>1, UpsertEffect, HereRow DEF Upsert, Steps
    <3>2. Here(w) # i
      BY <1>0, <3>1 DEF One, Stage, At
    <3> QED BY <1>0, <3>1, <3>2 DEF TypeOK
  <2>2. CASE Produces(w)
    <3>1. PICK status \in NodeStatuses, next \in SUBSET Ids :
            job[w].pc = "running" /\ Finish(w, status, next)
      BY <2>2 DEF Produces
    <3>2. Busy(w) /\ instance' = [instance EXCEPT ![Here(w)] = status]
      BY <1>0, <3>1, FinishEffect, HereRow DEF Steps
    <3>3. Here(w) # i
      BY <1>0, <3>1, <3>2 DEF One, Stage, At
    <3> QED BY <1>0, <3>2, <3>3 DEF TypeOK
  <2>3. CASE Raise(w)
    <3>1. Busy(w) /\ job[w].pc = "running" /\ instance' = [instance EXCEPT ![Here(w)] = "FAILURE"]
      BY <1>0, <2>3, RaiseEffect, JobFacts
    <3>2. Here(w) # i
      BY <1>0, <3>1 DEF One, Stage, At
    <3> QED BY <1>0, <3>1, <3>2 DEF TypeOK
  <2> QED BY <1>0, <1>3, <2>1, <2>2, <2>3, WaitsEffect, RestsEffect, SetRunEffect, SendsEffect, RedeliverEffect
         DEF WorkerCase, Take, Discard, Received, ReadInstances, SaveContext
<1>4. ASSUME NEW c \in Callers, CallbackCase(c)
      PROVE  instance'[i] = instance[i] \/ instance'[i] = "SUCCESS"
  BY <1>0, <1>4 DEF CallbackCase, CallbackStore, CallbackDispatch, CallbackRead, TypeOK
<1>5. instance'[i] = instance[i] \/ instance'[i] = "SUCCESS"
  BY <1>0, <1>3, <1>4, StepCases DEF Trigger, vars
<1> QED BY <1>0, <1>1, <1>5 DEF Settled, i

\* A step of w that does not reach the row i, or that moves the job of i on.
LEMMA OneKept ==
  ASSUME NEW w \in Workers, NEW i, One(i), Others(w), At(w, i)' => At(w, i) /\ Stage(w, i)',
         queue'[i] = queue[i], attempts'[i] = attempts[i], instance'[i] = instance[i]
  PROVE  One(i)'
BY DEF One, Stage, Settled, Others, At, Busy, Here

\* A step that does not change jobs.
LEMMA OneKeptByOthers ==
  ASSUME NEW i, One(i), UNCHANGED job, attempts'[i] = attempts[i], queue'[i] = queue[i],
         instance'[i] = instance[i]
  PROVE  One(i)'
BY DEF One, Stage, Settled, At, Busy, Here

LEMMA OneStep ==
  ASSUME IInv, NEW S, Single(S), faults' = 0, OnceInv(S), CallbackInv(S), [Next]_vars,
         NEW n \in S, NEW k \in Indexes
  PROVE  One(<<n, k>>)'
<1> DEFINE i == <<n, k>>
<1>0. /\ TypeOK /\ JobShape /\ CallbackShape /\ Begun
      /\ i \in Nodes \X Indexes /\ i \in Jobs /\ i[1] = n
      /\ n \in Ids /\ n \in Nodes /\ One(i)
  BY NodeFacts DEF IInv, Single, OnceInv, Jobs
<1> HIDE DEF i
<1> SUFFICES One(i)'
  BY DEF i
<1>1. CASE UNCHANGED vars
  BY <1>0, <1>1, OneKeptByOthers DEF vars
<1>2. CASE Trigger
  <2>1. Entry \in SUBSET Ids /\ 1 \in Indexes
    BY NodeFacts DEF Indexes
  <2>2. \A m \in Ids, l \in Indexes : ~AtWork(m, l)
    BY <1>2 DEF Trigger, IInv, Quiet
  <2>3. /\ queue[i] = 0 /\ attempts[i] = 0
        /\ \A w \in Workers : ~At(w, i)
    BY <1>0, <2>2 DEF AtWork, i, TypeOK
  <2>4. queue'[i] \in {queue[i], queue[i] + 1}
    <3>1. \/ Sent(Entry, 1)[<<n, k>>] = queue[<<n, k>>] + 1
          \/ Sent(Entry, 1)[<<n, k>>] = queue[<<n, k>>]
      BY <1>0, <2>1, SentValue
    <3> QED BY <1>2, <3>1 DEF Trigger, i
  <2>5. \A w \in Workers : ~At(w, i)'
    BY <1>2, <2>3 DEF Trigger, At, Busy, Here
  <2> QED BY <1>2, <2>3, <2>4, <2>5 DEF Trigger, One
<1>3. ASSUME NEW w \in Workers, WorkerCase(w) PROVE One(i)'
  <2>1. ASSUME NEW j \in Jobs, Take(w, j) PROVE One(i)'
    <3>1. /\ ~Busy(w) /\ Others(w) /\ Here(w)' = j /\ Busy(w)'
          /\ job'[w].pc = (IF j[1] \in Nodes THEN "loaded" ELSE "failing")
          /\ UNCHANGED <<attempts, instance>>
          /\ queue[j] > 0 /\ queue'[j] = queue[j] - 1
          /\ \A l \in Jobs : l # j => queue'[l] = queue[l]
      BY <1>0, <2>1, TakeEffect, ReceivedEffect DEF Take, Received
    <3>2. CASE i = j
      <4>1. /\ queue[i] = 1 /\ attempts[i] = 0
            /\ \A v \in Workers : ~At(v, i)
        BY <1>0, <3>1, <3>2 DEF One
      <4>2. queue'[i] = 0 /\ attempts'[i] = 0 /\ job'[w].pc = "loaded"
        BY <1>0, <3>1, <3>2, <4>1
      <4>3. \A v \in Workers : At(v, i)' => v = w
        BY <3>1, <4>1 DEF At, Others, Busy, Here
      <4>4. Stage(w, i)'
        BY <4>2 DEF Stage
      <4> QED BY <4>2, <4>3, <4>4 DEF One
    <3>3. CASE i # j
      BY <1>0, <3>1, <3>3, OneKept DEF At
    <3> QED BY <3>2, <3>3
  <2>2. ASSUME NEW j \in Jobs, Discard(w, j) PROVE One(i)'
    <3>1. /\ queue[j] > 0 /\ queue'[j] = queue[j] - 1
          /\ \A l \in Jobs : l # j => queue'[l] = queue[l]
          /\ UNCHANGED <<job, attempts, instance>>
      BY <1>0, <2>2, ReceivedEffect DEF Discard, Received
    <3>2. CASE i = j
      <4>1. queue'[i] = 0
        BY <1>0, <3>1, <3>2 DEF One
      <4> QED BY <1>0, <3>1, <4>1 DEF One, Stage, Settled, At, Busy, Here
    <3>3. CASE i # j
      BY <1>0, <3>1, <3>3, OneKeptByOthers
    <3> QED BY <3>2, <3>3
  <2>3. CASE ReadInstances(w)
    <3>1. /\ Goes(w, "read") /\ Busy(w) /\ UNCHANGED <<queue, attempts, instance>>
          /\ job[w].pc = "loaded"
      BY <1>0, <2>3, ReadEffect, HereRow DEF ReadInstances, Steps
    <3>2. At(w, i)' => At(w, i)
      BY <1>0, <3>1, GoesAt
    <3>3. At(w, i) => Stage(w, i)'
      BY <1>0, <3>1 DEF One, Stage, Goes
    <3> QED BY <1>0, <3>1, <3>2, <3>3, OneKept DEF Goes
  <2>4. CASE Upsert(w)
    <3>1. /\ Goes(w, "running") /\ Busy(w) /\ Here(w) \in Nodes \X Indexes
          /\ UNCHANGED queue /\ job[w].pc = "read"
          /\ instance' = [instance EXCEPT ![Here(w)] = "RUNNING"]
          /\ attempts[Here(w)] = 0 => attempts'[Here(w)] = 1
          /\ \A j \in Nodes \X Indexes : j # Here(w) => attempts'[j] = attempts[j]
      BY <1>0, <2>4, UpsertEffect, HereRow DEF Upsert, Steps
    <3>2. \A v \in Workers : At(v, i)' <=> At(v, i)
      BY <1>0, <3>1, GoesAt
    <3>3. CASE i = Here(w)
      <4>1. At(w, i) /\ attempts[i] = 0 /\ queue[i] = 0
            /\ \A v \in Workers : At(v, i) => v = w
        BY <1>0, <3>1, <3>3 DEF At, One, Stage
      <4>2. attempts'[i] = 1 /\ queue'[i] = 0 /\ instance'[i] = "RUNNING"
        BY <1>0, <3>1, <3>3, <4>1 DEF TypeOK
      <4>3. Stage(w, i)'
        BY <3>1, <4>2 DEF Stage, Goes
      <4> QED BY <3>2, <4>1, <4>2, <4>3 DEF One
    <3>4. CASE i # Here(w)
      <4>1. instance'[i] = instance[i] /\ attempts'[i] = attempts[i]
        BY <1>0, <3>1, <3>4 DEF TypeOK
      <4> QED BY <1>0, <3>1, <3>2, <3>4, <4>1, OneKept DEF Goes, At
    <3> QED BY <3>3, <3>4
  <2>5. ASSUME NEW status, NEW pc, Goes(w, pc), Busy(w), Here(w) \in Nodes \X Indexes,
               UNCHANGED <<queue, attempts>>, job[w].pc = "running",
               instance' = [instance EXCEPT ![Here(w)] = status],
               i = Here(w) => Stage(w, i)'
        PROVE  One(i)'
    <3>1. \A v \in Workers : At(v, i)' <=> At(v, i)
      BY <1>0, <2>5, GoesAt
    <3>2. CASE i = Here(w)
      <4>1. At(w, i) /\ queue[i] = 0 /\ \A v \in Workers : At(v, i) => v = w
        BY <1>0, <2>5, <3>2 DEF At, One
      <4> QED BY <1>0, <2>5, <3>1, <3>2, <4>1 DEF One
    <3>3. CASE i # Here(w)
      <4>1. instance'[i] = instance[i]
        BY <1>0, <2>5, <3>3 DEF TypeOK
      <4> QED BY <1>0, <2>5, <3>1, <3>3, <4>1, OneKept DEF Goes, At
    <3> QED BY <3>2, <3>3
  <2>6. CASE Produces(w)
    <3>1. PICK status \in NodeStatuses, next \in SUBSET Ids :
            /\ job[w].pc = "running" /\ Follows(job[w].node, status, next)
            /\ Finish(w, status, next)
      BY <2>6 DEF Produces
    <3>2. /\ Goes(w, "save") /\ Busy(w) /\ Here(w) \in Nodes \X Indexes
          /\ UNCHANGED <<queue, attempts>> /\ job'[w].status = status
          /\ instance' = [instance EXCEPT ![Here(w)] = status]
      BY <1>0, <3>1, FinishEffect, HereRow DEF Finish, Steps
    <3>3. ASSUME i = Here(w) PROVE Stage(w, i)'
      <4>1. instance'[i] = status /\ attempts'[i] > 0
        BY <1>0, <3>1, <3>2, <3>3 DEF TypeOK, Begun, Executing
      <4> QED BY <3>1, <3>2, <4>1 DEF Stage, Goes, Settled, Follows
    <3> QED BY <2>5, <3>1, <3>2, <3>3
  <2>7. CASE Raise(w)
    <3>1. /\ Goes(w, "failing") /\ Busy(w) /\ Here(w) \in Nodes \X Indexes
          /\ UNCHANGED <<queue, attempts>> /\ job[w].pc = "running"
          /\ instance' = [instance EXCEPT ![Here(w)] = "FAILURE"]
      BY <1>0, <2>7, RaiseEffect, JobFacts DEF Raise
    <3>2. Stage(w, i)'
      BY <3>1 DEF Stage, Goes
    <3> QED BY <2>5, <3>1, <3>2
  <2>8. CASE SaveContext(w)
    <3>1. /\ Goes(w, IF job[w].status = "FAILURE" THEN "failing" ELSE "dispatch") /\ Keeps(w)
          /\ job[w].pc = "save" /\ Busy(w) /\ UNCHANGED <<queue, attempts, instance>>
      BY <1>0, <2>8, SaveEffect, JobFacts DEF SaveContext
    <3>2. At(w, i)' => At(w, i)
      BY <1>0, <3>1, GoesAt
    <3>3. At(w, i) => Stage(w, i)'
      BY <1>0, <3>1 DEF One, Stage, Goes, Keeps, Settled
    <3> QED BY <1>0, <3>1, <3>2, <3>3, OneKept DEF Goes
  <2>9. CASE Rests(w)
    <3>1. /\ Goes(w, "failing") \/ Goes(w, "ending")
          /\ Busy(w) /\ UNCHANGED <<queue, attempts, instance>>
      BY <1>0, <2>9, RestsEffect, JobFacts
    <3>2. At(w, i)' => At(w, i)
      BY <1>0, <3>1, GoesAt
    <3>3. Stage(w, i)'
      BY <3>1 DEF Stage, Goes
    <3> QED BY <1>0, <3>1, <3>2, <3>3, OneKept DEF Goes
  <2>10. ASSUME Ends(w), UNCHANGED <<attempts, instance>>, queue'[i] = queue[i] PROVE One(i)'
    BY <1>0, <2>10, EndsAt, OneKept DEF Ends
  <2>11. CASE Waits(w) \/ SetRun(w)
    BY <1>0, <2>10, <2>11, WaitsEffect, SetRunEffect
  <2>12. ASSUME NEW next \in SUBSET Ids, NEW m \in Indexes, Sends(w, next, m) PROVE One(i)'
    <3>1. /\ Ends(w) /\ UNCHANGED <<attempts, instance>>
          /\ n \in next /\ m = k => queue'[i] = queue[i] + 1
          /\ ~(n \in next /\ m = k) => queue'[i] = queue[i]
      BY <1>0, <2>12, SendsEffect DEF i
    <3>2. CASE n \in next /\ m = k
      <4>1. ~AtWork(n, k)
        BY <2>12, <3>2, SentOnce
      <4>2. queue[i] = 0 /\ attempts[i] = 0 /\ \A v \in Workers : ~At(v, i)
        <5>1. queue[i] \in {0, 1} /\ attempts[i] \in {0, 1}
          BY <1>0 DEF One
        <5>2. ~(queue[i] > 0) /\ ~(attempts[i] > 0) /\ \A v \in Workers : ~At(v, i)
          BY <1>0, <4>1 DEF AtWork, i
        <5> QED BY <5>1, <5>2
      <4>3. \A v \in Workers : ~At(v, i)'
        BY <3>1, <4>2, EndsAt
      <4> QED BY <3>1, <3>2, <4>2, <4>3 DEF One
    <3> QED BY <2>10, <3>1, <3>2
  <2>13. ASSUME NEW sent \in Partial(w), Redeliver(w, sent) PROVE FALSE
    BY <1>0, <2>13, RedeliverEffect DEF TypeOK
  <2> QED BY <1>3, <2>1, <2>2, <2>3, <2>4, <2>6, <2>7, <2>8, <2>9, <2>11, <2>12, <2>13 DEF WorkerCase
<1>4. ASSUME NEW c \in Callers, CallbackCase(c) PROVE One(i)'
  <2>1. UNCHANGED <<attempts, job>>
    BY <1>0, <1>4, CallbackEffect
  <2>2. CASE CallbackDispatch(c)
    <3>1. queue'[i] = queue[i] /\ UNCHANGED instance
      BY <2>2, CallbackSends DEF CallbackDispatch, i
    <3> QED BY <1>0, <2>1, <3>1, OneKeptByOthers
  <2>3. CASE CallbackStore(c)
    <3>1. /\ callback[c].at \in Nodes \X Indexes /\ UNCHANGED queue
          /\ instance' = [instance EXCEPT ![callback[c].at] = "SUCCESS"]
      BY <1>0, <2>3 DEF CallbackStore, CallbackShape
    <3>2. CASE callback[c].at = i
      <4>1. Settled(i)
        BY <1>0, <2>3, <3>2 DEF CallbackInv, CallbackStore
      <4>2. Settled(i)' /\ instance[i] # "RUNNING"
        BY <1>0, <2>1, <3>1, <3>2, <4>1 DEF Settled, TypeOK
      <4>3. ASSUME NEW v \in Workers, At(v, i) PROVE Stage(v, i)'
        BY <1>0, <2>1, <4>2, <4>3 DEF One, Stage
      <4> QED BY <1>0, <2>1, <3>1, <4>3 DEF One, At, Busy, Here
    <3>3. CASE callback[c].at # i
      <4>1. instance'[i] = instance[i]
        BY <1>0, <3>1, <3>3 DEF TypeOK
      <4> QED BY <1>0, <2>1, <3>1, <4>1, OneKeptByOthers
    <3> QED BY <3>2, <3>3
  <2>4. CASE \E j \in Nodes \X Indexes : CallbackRead(c, j)
    BY <1>0, <2>1, <2>4, OneKeptByOthers DEF CallbackRead
  <2> QED BY <1>4, <2>2, <2>3, <2>4 DEF CallbackCase
<1> QED BY <1>0, <1>1, <1>2, <1>3, <1>4, StepCases

\* A job comes into a worker's hands from the queue.
LEMMA TakenFromQueue ==
  ASSUME TypeOK, JobShape, CallbackShape, [Next]_vars, NEW i \in Jobs, NEW v \in Workers, At(v, i)'
  PROVE  At(v, i) \/ queue[i] > 0
<1>1. CASE UNCHANGED job
  BY <1>1 DEF At, Busy, Here
<1>2. ASSUME NEW w \in Workers, WorkerCase(w) PROVE At(v, i) \/ queue[i] > 0
  <2>1. ASSUME NEW j \in Jobs, Take(w, j) PROVE At(v, i) \/ queue[i] > 0
    <3>1. Others(w) /\ Here(w)' = j /\ queue[j] > 0
      BY <2>1, TakeEffect, ReceivedEffect DEF Take
    <3> QED BY <3>1 DEF Others, At, Busy, Here
  <2>2. ASSUME NEW pc, Goes(w, pc), Busy(w) PROVE At(v, i)
    BY <2>2, GoesAt
  <2>3. CASE Ends(w)
    BY <2>3, EndsAt
  <2>4. CASE \E j \in Jobs : Discard(w, j)
    BY <1>1, <2>4 DEF Discard
  <2>5. CASE ReadInstances(w)
    BY <2>2, <2>5, ReadEffect, HereRow DEF ReadInstances, Steps
  <2>6. CASE Upsert(w)
    BY <2>2, <2>6, UpsertEffect, HereRow DEF Upsert, Steps
  <2>7. CASE Produces(w)
    BY <2>2, <2>7, FinishEffect, HereRow DEF Produces, Steps
  <2>8. CASE Raise(w)
    BY <2>2, <2>8, RaiseEffect, JobFacts
  <2>9. CASE SaveContext(w)
    BY <2>2, <2>9, SaveEffect, JobFacts
  <2>10. CASE Rests(w)
    BY <2>2, <2>10, RestsEffect, JobFacts
  <2> QED BY <1>2, <2>1, <2>3, <2>4, <2>5, <2>6, <2>7, <2>8, <2>9, <2>10,
             WaitsEffect, SetRunEffect, SendsEffect, RedeliverEffect DEF WorkerCase
<1> QED BY <1>1, <1>2, StepCases, CallbackEffect DEF Trigger, vars

\* Without faults nothing is sent but by the trigger, by a job that ends, or by a callback.
LEMMA NobodyDies ==
  ASSUME TypeOK, NEW n, NEW k, SentAgain(n, k)
  PROVE  faults' # 0
BY RedeliverEffect DEF SentAgain, TypeOK

LEMMA FaultsStay ==
  ASSUME TypeOK, JobShape, CallbackShape, [Next]_vars, faults' = 0
  PROVE  faults = 0
<1>1. ASSUME NEW w \in Workers, WorkerCase(w) PROVE faults = 0
  <2>1. ASSUME NEW sent \in Partial(w), Redeliver(w, sent) PROVE faults = 0
    BY <2>1, RedeliverEffect DEF TypeOK
  <2> QED BY <1>1, <2>1, WaitsEffect, RestsEffect, SetRunEffect, SendsEffect
         DEF WorkerCase, Take, Discard, Received, ReadInstances, Upsert, Produces, Finish, Raise, SaveContext
<1> QED BY <1>1, StepCases, CallbackEffect DEF Trigger, vars

LEMMA SourceLeftStep ==
  ASSUME IInv, NEW S, Single(S), faults' = 0, OnceInv(S), [Next]_vars,
         NEW n \in S, NEW k \in Indexes, AtWork(n, k)'
  PROVE  SourceLeft(n, k)'
<1> SUFFICES ASSUME NEW p \in Sources[n]
             PROVE  attempts'[<<p, k>>] > 0 /\ \A v \in Workers : ~At(v, <<p, k>>)'
  BY DEF SourceLeft
<1>0. /\ TypeOK /\ JobShape /\ CallbackShape
      /\ n \in Nodes /\ n \in Ids /\ n \notin Entry
      /\ p \in S /\ p \in Nodes /\ ~IsAsync(p) /\ Sources[n] = {p}
      /\ <<p, k>> \in Jobs /\ <<p, k>> \in Nodes \X Indexes /\ One(<<p, k>>)
  BY NodeFacts DEF IInv, Single, OnceInv, Jobs
<1>1. CASE AtWork(n, k)
  <2>1. attempts[<<p, k>>] > 0 /\ \A v \in Workers : ~At(v, <<p, k>>)
    BY <1>1 DEF OnceInv, SourceLeft
  <2>2. ~(queue[<<p, k>>] > 0)
    BY <1>0, <2>1 DEF One
  <2> QED BY <1>0, <2>1, <2>2, RowsStay, TakenFromQueue
<1>2. CASE SentByJob(n, k)
  <2>1. PICK w \in Workers, next \in SUBSET Ids : n \in next /\ Sends(w, next, k)
    BY <1>2 DEF SentByJob
  <2>2. job[w].k = k /\ Busy(w) /\ attempts[Here(w)] > 0 /\ Sources[n] = {job[w].node}
    BY <2>1, SentOnce
  <2>3. Here(w) = <<p, k>> /\ At(w, <<p, k>>)
    BY <1>0, <2>2 DEF Here, At
  <2>4. Ends(w) /\ UNCHANGED attempts
    BY <1>0, <2>1, SendsEffect
  <2>5. \A v \in Workers : At(v, <<p, k>>) => v = w
    BY <1>0, <2>3 DEF One
  <2> QED BY <2>2, <2>3, <2>4, <2>5, EndsAt
<1>3. CASE SentByCallback(n, k)
  <2>1. PICK c \in Callers : CallbackDispatch(c) /\ n \in Config[callback[c].at[1]].next
    BY <1>3 DEF SentByCallback
  <2>2. callback[c].at[1] \in Nodes /\ IsAsync(callback[c].at[1])
    BY <1>0, <2>1 DEF CallbackDispatch, CallbackShape
  <2>3. callback[c].at[1] \in Sources[n]
    BY <1>0, <2>1, <2>2, SourceFacts
  <2> QED BY <1>0, <2>2, <2>3
<1> QED BY <1>0, <1>1, <1>2, <1>3, WorkIsSent, NobodyDies

LEMMA CallbackInvStep ==
  ASSUME IInv, NEW S, Single(S), OnceInv(S), CallbackInv(S), [Next]_vars
  PROVE  CallbackInv(S)'
<1> SUFFICES ASSUME NEW c \in Callers, callback'[c].pc \in {"checked", "stored", "accepted"},
                    callback'[c].at[1] \in S
             PROVE  /\ Settled(callback[c].at)'
                    /\ callback'[c].pc # "checked" => instance'[callback'[c].at] = "SUCCESS"
  BY DEF CallbackInv
<1>0. TypeOK /\ JobShape /\ CallbackShape
  BY DEF IInv
<1>1. CASE callback'[c] = callback[c]
  <2>1. callback[c].at \in Nodes \X Indexes /\ Settled(callback[c].at)
        /\ (callback[c].pc # "checked" => instance[callback[c].at] = "SUCCESS")
    BY <1>0, <1>1 DEF CallbackShape, CallbackInv
  <2>2. PICK n \in S, k \in Indexes : callback[c].at = <<n, k>>
    BY <1>1, <2>1
  <2> QED BY <1>1, <2>1, <2>2, SettledStays
<1>2. ASSUME NEW i \in Nodes \X Indexes, CallbackRead(c, i)
      PROVE  Settled(i)' /\ callback'[c].at = i /\ callback'[c].pc = "checked"
  <2>1. callback'[c] = [pc |-> IF instance[i] = "SUSPENDED" THEN "checked" ELSE "ignored", at |-> i]
    BY <1>0, <1>2 DEF CallbackRead, TypeOK
  <2>2. instance[i] = "SUSPENDED" /\ attempts[i] > 0 /\ UNCHANGED <<instance, attempts>>
    BY <1>2, <2>1 DEF CallbackRead
  <2> QED BY <2>1, <2>2 DEF Settled
<1>3. CASE CallbackStore(c)
  <2>1. /\ callback[c].at \in Nodes \X Indexes /\ attempts[callback[c].at] > 0
        /\ callback'[c].at = callback[c].at
        /\ instance' = [instance EXCEPT ![callback[c].at] = "SUCCESS"] /\ UNCHANGED attempts
    BY <1>0, <1>3 DEF CallbackStore, CallbackShape, TypeOK
  <2>2. instance'[callback[c].at] = "SUCCESS"
    BY <1>0, <2>1 DEF TypeOK
  <2> QED BY <2>1, <2>2 DEF Settled
<1>4. CASE CallbackDispatch(c)
  <2>1. /\ callback'[c].at = callback[c].at /\ callback[c].pc = "stored"
        /\ UNCHANGED <<instance, attempts>>
    BY <1>0, <1>4 DEF CallbackDispatch, TypeOK
  <2>2. Settled(callback[c].at) /\ instance[callback[c].at] = "SUCCESS"
    BY <2>1 DEF CallbackInv
  <2> QED BY <2>1, <2>2 DEF Settled
<1>5. ASSUME NEW d \in Callers, CallbackCase(d), d # c PROVE callback'[c] = callback[c]
  BY <1>0, <1>5, CallbackEffect
<1>6. ASSUME NEW w \in Workers, WorkerCase(w) PROVE callback' = callback
  BY <1>0, <1>6, WaitsEffect, RestsEffect, SetRunEffect, SendsEffect, RedeliverEffect
     DEF WorkerCase, Take, Discard, Received, ReadInstances, Upsert, Produces, Finish, Raise, SaveContext
<1>7. CASE CallbackCase(c)
  <2>1. ASSUME NEW i \in Nodes \X Indexes, CallbackRead(c, i)
        PROVE  Settled(callback[c].at)' /\ callback'[c].pc = "checked"
    <3>1. Settled(i)' /\ callback'[c].at = i /\ callback'[c].pc = "checked"
      BY <1>2, <2>1, Zenon
    <3> QED BY <3>1 DEF Settled
  <2> QED BY <1>3, <1>4, <1>7, <2>1 DEF CallbackCase
<1> QED BY <1>0, <1>1, <1>5, <1>6, <1>7, StepCases DEF Trigger, vars

LEMMA ResultInvStep ==
  ASSUME IInv, NEW S, Single(S), faults' = 0, OnceInv(S), CallbackInv(S), ResultInv(S), [Next]_vars
  PROVE  ResultInv(S)'
<1> SUFFICES ASSUME NEW n \in Nodes \ Entry, NEW k \in Indexes, Sources[n] \subseteq S, AtWork(n, k)'
             PROVE  \E p \in Sources[n], m \in 1..k : Settled(<<p, m>>)'
  BY DEF ResultInv
<1>0. TypeOK /\ JobShape /\ CallbackShape /\ n \in Ids
  BY NodeFacts DEF IInv
<1>1. \E p \in Sources[n], m \in 1..k : Settled(<<p, m>>)
  <2>1. CASE AtWork(n, k)
    BY <2>1 DEF ResultInv
  <2>2. CASE SentByJob(n, k)
    <3>1. PICK w \in Workers, next \in SUBSET Ids : n \in next /\ Sends(w, next, k)
      BY <2>2 DEF SentByJob
    <3>2. job[w].pc = "dispatch" /\ job[w].node \in Sources[n] /\ k \in {job[w].k, job[w].k + 1}
      BY <3>1 DEF Sends
    <3>3. Busy(w) /\ job[w].k \in Indexes /\ job[w].status # "FAILURE"
      BY <1>0, <3>2, HereRow DEF JobShape, Shape, Steps
    <3>4. One(<<job[w].node, job[w].k>>) /\ At(w, <<job[w].node, job[w].k>>)
      BY <3>2, <3>3 DEF OnceInv, At, Here
    <3>5. Settled(<<job[w].node, job[w].k>>)
      BY <3>2, <3>3, <3>4 DEF One, Stage
    <3>6. job[w].k \in 1..k
      BY <3>2, <3>3, NodeFacts DEF Indexes
    <3> QED BY <3>2, <3>5, <3>6
  <2>3. CASE SentByCallback(n, k)
    <3>1. PICK c \in Callers :
            CallbackDispatch(c) /\ n \in Config[callback[c].at[1]].next /\ k = callback[c].at[2]
      BY <2>3 DEF SentByCallback
    <3>2. callback[c].pc = "stored" /\ callback[c].at \in Nodes \X Indexes
      BY <1>0, <3>1 DEF CallbackDispatch, CallbackShape
    <3>3. callback[c].at[1] \in Sources[n]
      BY <3>1, <3>2, SourceFacts
    <3>4. Settled(callback[c].at) /\ callback[c].at = <<callback[c].at[1], k>>
      BY <3>1, <3>2, <3>3 DEF CallbackInv
    <3>5. k \in 1..k
      BY NodeFacts DEF Indexes
    <3> QED BY <3>3, <3>4, <3>5
  <2> QED BY <1>0, <2>1, <2>2, <2>3, WorkIsSent, NobodyDies
<1>2. PICK p \in Sources[n], m \in 1..k : Settled(<<p, m>>)
  BY <1>1
<1>3. p \in S /\ m \in Indexes
  BY <1>2, NodeFacts DEF Indexes
<1>4. Settled(<<p, m>>)'
  BY <1>2, <1>3, SettledStays
<1> QED BY <1>2, <1>4

\* As long as no worker has died.
SafeInv(S) == faults = 0 => OnceInv(S) /\ CallbackInv(S) /\ ResultInv(S)

LEMMA SafeInvariance ==
  ASSUME NEW S, Single(S)
  PROVE  Spec => [](IInv /\ SafeInv(S))
<1>1. Init => SafeInv(S)
  <2> SUFFICES ASSUME Init PROVE OnceInv(S) /\ CallbackInv(S) /\ ResultInv(S)
    BY DEF SafeInv
  <2>1. \A w \in Workers : \A i : ~At(w, i)
    BY DEF Init, At, Busy
  <2>2. \A n \in Nodes, k \in Indexes : queue[<<n, k>>] = 0 /\ attempts[<<n, k>>] = 0
    BY NodeFacts DEF Init, Jobs
  <2>3. \A n \in Nodes, k \in Indexes : One(<<n, k>>) /\ ~AtWork(n, k)
    <3> TAKE n \in Nodes, k \in Indexes
    <3>1. queue[<<n, k>>] = 0 /\ attempts[<<n, k>>] = 0 /\ \A w \in Workers : ~At(w, <<n, k>>)
      BY <2>1, <2>2
    <3>2. One(<<n, k>>)
      BY <3>1 DEF One
    <3>3. ~AtWork(n, k)
      BY <3>1 DEF AtWork
    <3> QED BY <3>2, <3>3
  <2>4. CallbackInv(S)
    BY DEF Init, CallbackInv
  <2> QED BY <2>3, <2>4 DEF OnceInv, ResultInv, Single
<1>2. IInv /\ SafeInv(S) /\ [Next]_vars => SafeInv(S)'
  <2> SUFFICES ASSUME IInv, SafeInv(S), [Next]_vars, faults' = 0
               PROVE  OnceInv(S)' /\ CallbackInv(S)' /\ ResultInv(S)'
    BY DEF SafeInv
  <2>1. OnceInv(S) /\ CallbackInv(S) /\ ResultInv(S)
    BY FaultsStay DEF IInv, SafeInv
  <2>2. OnceInv(S)'
    BY <2>1, OneStep, SourceLeftStep DEF OnceInv
  <2> QED BY <2>1, <2>2, CallbackInvStep, ResultInvStep
<1> QED BY <1>1, <1>2, Invariance, PTL DEF Spec

\* In a graph in which every node has one way to be reached, and no loop, no node is
\* executed twice until a worker dies: no step dispatches a successor twice.
THEOREM OnceEach ==
  ASSUME NEW S, Single(S), \A n \in Nodes : n \in S
  PROVE  Spec => [](faults = 0 => NoRepetition)
<1>1. SafeInv(S) => (faults = 0 => NoRepetition)
  BY DEF SafeInv, OnceInv, One, NoRepetition
<1>2. Spec => []SafeInv(S)
  BY SafeInvariance, PTL
<1> QED BY <1>1, <1>2, PTL

\* A node starts after a node before it has its result, if what is before it has one way
\* to be reached: what is executed again reopens its row.
THEOREM ResultFirst ==
  ASSUME NEW S, Single(S), \A n \in Nodes \ Entry : Sources[n] \subseteq S
  PROVE  Spec => [](faults = 0 => StartsAfterSource)
<1>1. SafeInv(S) => (faults = 0 => StartsAfterSource)
  BY DEF SafeInv, ResultInv, StartsAfterSource, AtWork, Settled
<1>2. Spec => []SafeInv(S)
  BY SafeInvariance, PTL
<1> QED BY <1>1, <1>2, PTL

\* The result of a callback that was accepted stays, if the async nodes have one way to be
\* reached: the orchestrator that suspended the node writes its row no more.
THEOREM CallbackStays ==
  ASSUME NEW S, Single(S), \A n \in Nodes : IsAsync(n) => n \in S
  PROVE  Spec => [](faults = 0 => AcceptedStays)
<1>1. IInv /\ SafeInv(S) => (faults = 0 => AcceptedStays)
  <2> SUFFICES ASSUME IInv, SafeInv(S), faults = 0, NEW c \in Callers,
                      callback[c].pc \in {"stored", "accepted"}
               PROVE  instance[callback[c].at] = "SUCCESS"
    BY DEF AcceptedStays
  <2>1. callback[c].at \in Nodes \X Indexes /\ IsAsync(callback[c].at[1])
    BY DEF IInv, CallbackShape
  <2>2. callback[c].at[1] \in S
    BY <2>1
  <2> QED BY <2>2 DEF SafeInv, CallbackInv
<1>2. Spec => [](IInv /\ SafeInv(S))
  BY SafeInvariance
<1> QED BY <1>1, <1>2, PTL

-----------------------------------------------------------------------------
(* One node after the other                                                 *)

\* While a job is alone in hand, nothing is queued and no other is in hand.
LEMMA OnlyOne ==
  ASSUME TypeOK, Alone, NEW w \in Workers, Busy(w)
  PROVE  /\ \A i \in Jobs : queue[i] = 0
         /\ \A v \in Workers : v # w => job[v].pc = "idle" /\ ~Busy(v)
<1>1. \A i \in Jobs : queue[i] = 0
  BY DEF Alone
<1>2. \A v \in Workers : v # w => ~Busy(v)
  BY DEF Alone
<1> QED BY <1>1, <1>2 DEF Busy, Idle

\* The job in w goes on.
LEMMA SeqGoes ==
  ASSUME TypeOK, NEW rank, SeqInv(rank), NEW w \in Workers, Busy(w), NEW pc, Goes(w, pc), queue' = queue,
         \A i \in Nodes \X Indexes : attempts'[i] \in {0, 1},
         pc \in {"loaded", "read"} => Behind(rank, job[w].node, job[w].k)',
         pc \in {"running", "save", "dispatch"} => UpTo(rank, job[w].node, job[w].k)'
  PROVE  SeqInv(rank)'
<1>1. /\ \A i \in Jobs : queue[i] = 0
      /\ \A v \in Workers : v # w => job[v].pc = "idle" /\ ~Busy(v)
  BY OnlyOne DEF SeqInv
<1>2. job'[w].pc = pc /\ \A v \in Workers : v # w => job'[v].pc = "idle" /\ ~Busy(v)'
  BY <1>1 DEF Goes, Others, Busy
<1>3. Alone'
  BY <1>1, <1>2 DEF Alone
<1>4. \A n \in Nodes, k \in Indexes : queue'[<<n, k>>] = 0
  BY <1>1, NodeFacts DEF Jobs
<1> QED BY <1>2, <1>3, <1>4 DEF SeqInv

\* The job in w ends and leaves the jobs in D.
LEMMA SeqEnds ==
  ASSUME TypeOK, NEW rank, SeqInv(rank), NEW w \in Workers, Busy(w), Ends(w), attempts' = attempts,
         NEW D \in SUBSET Jobs, \A i, j \in D : i = j,
         \A i \in Jobs : queue'[i] = IF i \in D THEN queue[i] + 1 ELSE queue[i],
         \A n \in Nodes, k \in Indexes : <<n, k>> \in D => Behind(rank, n, k)
  PROVE  SeqInv(rank)'
<1>1. /\ \A i \in Jobs : queue[i] = 0
      /\ \A v \in Workers : v # w => job[v].pc = "idle" /\ ~Busy(v)
  BY OnlyOne DEF SeqInv
<1>2. \A v \in Workers : job'[v].pc = "idle" /\ ~Busy(v)'
  BY <1>1 DEF Ends, Others, Busy, Idle
<1>3. \A i \in Jobs : queue'[i] \in {0, 1} /\ (queue'[i] > 0 => i \in D)
  BY <1>1
<1>4. Alone'
  BY <1>2, <1>3 DEF Alone
<1>5. ASSUME NEW n \in Nodes, NEW k \in Indexes, queue'[<<n, k>>] > 0 PROVE Behind(rank, n, k)'
  <2>1. <<n, k>> \in Jobs
    BY NodeFacts DEF Jobs
  <2>2. Behind(rank, n, k)
    BY <1>3, <1>5, <2>1
  <2> QED BY <2>2 DEF Behind
<1>6. \A i \in Nodes \X Indexes : attempts'[i] \in {0, 1}
  BY DEF SeqInv
<1> QED BY <1>2, <1>4, <1>5, <1>6 DEF SeqInv

\* What a node hands the job on to, the definition names.
LEMMA HandsOnNamed ==
  ASSUME NEW n \in Nodes, NEW next, HandsOn(n, next)
  PROVE  next \in Named
<1>1. CASE Successors(n, next)
  <2>1. Config[n].kind = "END" => Config[n].next = {}
    BY WorkflowAssumption DEF OfKind
  <2>2. CASE Config[n].kind \in {"ACTION", "JOIN", "END"}
    BY <1>1, <2>1, <2>2 DEF Successors, Named
  <2>3. CASE Config[n].kind = "LOGIC"
    BY <1>1, <2>3 DEF Successors, Named, OfKind
  <2>4. CASE Config[n].kind = "FORK"
    BY <1>1, <2>4 DEF Successors, Named, OfKind
  <2>5. CASE Config[n].kind = "LOOP"
    BY <1>1, <2>5 DEF Successors, Named, OfKind
  <2> QED BY <1>1, <2>2, <2>3, <2>4, <2>5 DEF Successors
<1>2. CASE LeavesLoop(n, next)
  BY <1>2 DEF LeavesLoop, Controllers, Named
<1> QED BY <1>1, <1>2 DEF HandsOn

\* What a job is handed on to is further on than everything executed.
LEMMA SentAhead ==
  ASSUME TypeOK, JobShape, NEW rank, Sequential(rank), SeqInv(rank), NEW w \in Workers,
         NEW next \in SUBSET Ids, NEW k \in Indexes, Sends(w, next, k)
  PROVE  /\ \A x, y \in next : x = y
         /\ \A x \in next \cap Nodes : Behind(rank, x, k)
<1>1. /\ job[w].pc = "dispatch" /\ k \in {job[w].k, job[w].k + 1}
      /\ (k = job[w].k /\ next = job[w].next) \/ Reenters(job[w], next, k)
  BY DEF Sends
<1>2. /\ job[w].node \in Nodes /\ job[w].k \in Indexes /\ UpTo(rank, job[w].node, job[w].k)
      /\ Successors(job[w].node, job[w].next)
  BY <1>1, HereRow DEF SeqInv, Steps, JobShape, Shape, Follows
<1>3. job[w].k \in Nat /\ \A j \in Indexes : j \in Nat
  BY <1>2, NodeFacts DEF Indexes
<1>4. CASE k = job[w].k
  <2>1. (\A x, y \in next : x = y) /\ \A x \in next \cap Nodes : rank[job[w].node] < rank[x]
    <3>1. Successors(job[w].node, next) \/ LeavesLoop(job[w].node, next)
      BY <1>1, <1>2, <1>3, <1>4 DEF Reenters, LeavesLoop
    <3>2. next \in Named /\ HandsOn(job[w].node, next)
      BY <1>2, <3>1, HandsOnNamed DEF HandsOn
    <3> QED BY <1>2, <3>2 DEF Sequential
  <2>2. ASSUME NEW x \in next \cap Nodes, NEW m \in Nodes, NEW j \in Indexes, attempts[<<m, j>>] > 0
        PROVE  j < k \/ (j = k /\ rank[m] < rank[x])
    <3>1. rank[job[w].node] < rank[x]
      BY <2>1
    <3>2. rank[m] \in Nat /\ rank[x] \in Nat /\ rank[job[w].node] \in Nat
      BY <1>2 DEF Sequential
    <3>3. j < k \/ (j = k /\ rank[m] < rank[job[w].node]) \/ (m = job[w].node /\ j = k)
      BY <1>2, <1>4, <2>2 DEF UpTo
    <3> QED BY <3>1, <3>2, <3>3
  <2> QED BY <2>1, <2>2 DEF Behind
<1>5. CASE k # job[w].k
  <2>1. \A x, y \in next : x = y
    BY <1>1, <1>5 DEF Reenters
  <2>2. \A m \in Nodes, j \in Indexes : attempts[<<m, j>>] > 0 => j < job[w].k + 1
    BY <1>2, <1>3 DEF UpTo
  <2> QED BY <1>1, <1>5, <2>1, <2>2 DEF Behind
<1> QED BY <1>4, <1>5

\* The row of a node that is about to be executed is new.
LEMMA FreshRow ==
  ASSUME TypeOK, JobShape, NEW rank, Sequential(rank), SeqInv(rank), NEW w \in Workers, job[w].pc = "read"
  PROVE  attempts[Here(w)] = 0
<1> SUFFICES ASSUME attempts[Here(w)] # 0 PROVE FALSE
  OBVIOUS
<1>1. /\ job[w].node \in Nodes /\ job[w].k \in Indexes /\ Here(w) \in Nodes \X Indexes
      /\ Behind(rank, job[w].node, job[w].k)
  BY HereRow DEF SeqInv, Steps
<1>2. attempts[<<job[w].node, job[w].k>>] > 0
  BY <1>1 DEF Here, SeqInv
<1>3. job[w].k < job[w].k \/ rank[job[w].node] < rank[job[w].node]
  BY <1>1, <1>2 DEF Behind
<1>4. job[w].k \in Nat /\ rank[job[w].node] \in Nat
  BY <1>1, NodeFacts DEF Sequential, Indexes
<1> QED BY <1>3, <1>4

\* Nobody is called back.
LEMMA NoCallbacks ==
  ASSUME TypeOK, CallbackShape, NEW rank, Sequential(rank), NEW c \in Callers, CallbackCase(c)
  PROVE  FALSE
<1>1. callback'[c].at[1] \in Nodes /\ IsAsync(callback'[c].at[1])
  BY CallbackEffect
<1> QED BY <1>1 DEF Sequential

LEMMA SeqStep ==
  ASSUME IInv, NEW rank, Sequential(rank), SeqInv(rank), [Next]_vars, faults' = 0
  PROVE  SeqInv(rank)'
<1>0. /\ TypeOK /\ JobShape /\ CallbackShape
      /\ Alone /\ \A i \in Nodes \X Indexes : attempts[i] \in {0, 1}
  BY DEF IInv, SeqInv
<1>1. CASE UNCHANGED vars
  <2>1. UNCHANGED <<queue, job, attempts>>
    BY <1>1 DEF vars
  <2>2. Alone'
    BY <1>0, <2>1 DEF Alone, Busy
  <2> QED BY <2>1, <2>2 DEF SeqInv, Behind, UpTo
<1>2. CASE Trigger
  <2>1. /\ run = "PENDING" /\ queue' = Sent(Entry, 1) /\ UNCHANGED <<attempts, job>>
        /\ Entry \in SUBSET Ids /\ 1 \in Indexes
    BY <1>2, NodeFacts DEF Trigger, Indexes
  <2>2. \A n \in Ids, k \in Indexes : ~AtWork(n, k)
    BY <2>1 DEF IInv, Quiet
  <2>3. \A w \in Workers : ~Busy(w)' /\ job'[w].pc = "idle"
    <3> TAKE w \in Workers
    <3>1. ~Busy(w)
      <4> SUFFICES ASSUME Busy(w) PROVE FALSE
        OBVIOUS
      <4>1. job[w].node \in Ids /\ job[w].k \in Indexes
        BY <1>0, JobFacts
      <4> QED BY <2>2, <4>1 DEF AtWork, At, Here
    <3> QED BY <2>1, <3>1 DEF Busy, Idle
  <2>4. \A n \in Ids, k \in Indexes : queue[<<n, k>>] = 0
    <3> TAKE n \in Ids, k \in Indexes
    <3>1. queue[<<n, k>>] \in Nat
      BY <1>0 DEF TypeOK, Jobs
    <3> QED BY <2>2, <3>1 DEF AtWork
  <2>5. \A n \in Ids, k \in Indexes :
          queue'[<<n, k>>] \in {0, 1} /\ (queue'[<<n, k>>] > 0 => n \in Entry /\ k = 1)
    <3> TAKE n \in Ids, k \in Indexes
    <3>1. /\ n \in Entry /\ k = 1 => Sent(Entry, 1)[<<n, k>>] = queue[<<n, k>>] + 1
          /\ ~(n \in Entry /\ k = 1) => Sent(Entry, 1)[<<n, k>>] = queue[<<n, k>>]
      BY <1>0, <2>1, SentValue
    <3>2. queue[<<n, k>>] = 0 /\ queue' = Sent(Entry, 1)
      BY <2>1, <2>4
    <3> QED BY <3>1, <3>2
  <2>6. \A x, y \in Entry : x = y
    BY DEF Sequential
  <2>7. Alone'
    BY <2>3, <2>5, <2>6 DEF Alone, Jobs
  <2>8. \A n \in Nodes, k \in Indexes : ~(attempts'[<<n, k>>] > 0)
    BY <2>1, <2>2, NodeFacts DEF AtWork
  <2> QED BY <1>0, <2>1, <2>3, <2>7, <2>8 DEF SeqInv, Behind
<1>3. ASSUME NEW w \in Workers, WorkerCase(w) PROVE SeqInv(rank)'
  <2>1. ASSUME NEW j \in Jobs, Take(w, j) PROVE SeqInv(rank)'
    <3>1. /\ ~Busy(w) /\ Others(w) /\ Here(w)' = j /\ job'[w].node = j[1]
          /\ job'[w].pc = IF j[1] \in Nodes THEN "loaded" ELSE "failing"
      BY <1>0, <2>1, TakeEffect
    <3>2. /\ queue[j] > 0 /\ queue'[j] = queue[j] - 1 /\ attempts' = attempts
          /\ \A i \in Jobs : i # j => queue'[i] = queue[i]
      BY <1>0, <2>1, ReceivedEffect DEF Take, Received
    <3>3. \A i \in Jobs : queue'[i] = 0
      BY <1>0, <3>2 DEF Alone
    <3>4. \A v \in Workers : v # w => ~Busy(v)' /\ job'[v].pc = "idle"
      BY <1>0, <3>1, <3>2 DEF Alone, Others, Busy, Idle
    <3>5. Alone'
      BY <3>3, <3>4 DEF Alone
    <3>6. ASSUME j[1] \in Nodes PROVE Behind(rank, job[w].node, job[w].k)'
      <4>1. j = <<j[1], j[2]>> /\ j[2] \in Indexes /\ job'[w].k = j[2]
        BY <3>1 DEF Here, Jobs
      <4>2. Behind(rank, j[1], j[2])
        BY <3>2, <3>6, <4>1 DEF SeqInv
      <4> QED BY <3>1, <3>2, <4>1, <4>2 DEF Behind
    <3>7. \A n \in Nodes, k \in Indexes : queue'[<<n, k>>] = 0
      BY <3>3, NodeFacts DEF Jobs
    <3> QED BY <1>0, <3>1, <3>2, <3>4, <3>5, <3>6, <3>7 DEF SeqInv
  <2>2. ASSUME NEW j \in Jobs, Discard(w, j) PROVE SeqInv(rank)'
    <3>1. /\ UNCHANGED <<job, attempts>> /\ queue[j] > 0 /\ queue'[j] = queue[j] - 1
          /\ \A i \in Jobs : i # j => queue'[i] = queue[i]
      BY <1>0, <2>2, ReceivedEffect DEF Discard, Received
    <3>2. \A i \in Jobs : queue'[i] = 0
      BY <1>0, <3>1 DEF Alone
    <3>3. Alone'
      BY <1>0, <3>1, <3>2 DEF Alone, Busy
    <3>4. \A n \in Nodes, k \in Indexes : queue'[<<n, k>>] = 0
      BY <3>2, NodeFacts DEF Jobs
    <3>5. \A n, k : (Behind(rank, n, k) => Behind(rank, n, k)') /\ (UpTo(rank, n, k) => UpTo(rank, n, k)')
      BY <3>1 DEF Behind, UpTo
    <3> QED BY <1>0, <3>1, <3>3, <3>4, <3>5 DEF SeqInv
  <2>3. ASSUME NEW pc, Goes(w, pc), Busy(w), UNCHANGED <<queue, attempts>>,
               pc \in {"loaded", "read"} => job[w].pc = "loaded",
               pc \in {"running", "save", "dispatch"} => job[w].pc \in {"running", "save"}
        PROVE  SeqInv(rank)'
    <3>1. pc \in {"loaded", "read"} => Behind(rank, job[w].node, job[w].k)'
      BY <2>3 DEF SeqInv, Goes, Behind
    <3>2. pc \in {"running", "save", "dispatch"} => UpTo(rank, job[w].node, job[w].k)'
      BY <2>3 DEF SeqInv, Goes, UpTo
    <3> QED BY <1>0, <2>3, <3>1, <3>2, SeqGoes
  <2>4. CASE ReadInstances(w)
    BY <1>0, <2>3, <2>4, ReadEffect, HereRow DEF ReadInstances, Steps
  <2>5. CASE Upsert(w)
    <3>1. /\ Goes(w, "running") /\ queue' = queue /\ job[w].pc = "read"
          /\ attempts[Here(w)] = 0 => attempts'[Here(w)] = 1
          /\ \A i \in Nodes \X Indexes : i # Here(w) => attempts'[i] = attempts[i]
      BY <1>0, <2>5, UpsertEffect DEF Upsert
    <3>2. /\ Busy(w) /\ job[w].node \in Nodes /\ job[w].k \in Indexes /\ Here(w) \in Nodes \X Indexes
          /\ Behind(rank, job[w].node, job[w].k)
      BY <1>0, <3>1, HereRow DEF SeqInv, Steps
    <3>3. attempts[Here(w)] = 0
      BY <1>0, <3>1, FreshRow
    <3>4. \A i \in Nodes \X Indexes : attempts'[i] \in {0, 1}
      BY <1>0, <3>1, <3>3
    <3>5. UpTo(rank, job[w].node, job[w].k)'
      <4> SUFFICES ASSUME NEW m \in Nodes, NEW j \in Indexes, attempts'[<<m, j>>] > 0
                   PROVE  \/ j < job[w].k \/ (j = job[w].k /\ rank[m] < rank[job[w].node])
                          \/ <<m, j>> = <<job[w].node, job[w].k>>
        BY <3>1 DEF UpTo, Goes
      <4>1. CASE <<m, j>> = Here(w)
        BY <4>1 DEF Here
      <4>2. CASE <<m, j>> # Here(w)
        BY <3>1, <3>2, <4>2 DEF Behind
      <4> QED BY <4>1, <4>2
    <3> QED BY <1>0, <3>1, <3>2, <3>4, <3>5, SeqGoes
  <2>6. CASE Produces(w)
    <3>1. PICK status \in NodeStatuses, next \in SUBSET Ids :
            job[w].pc = "running" /\ Finish(w, status, next)
      BY <2>6 DEF Produces
    <3>2. Goes(w, "save") /\ UNCHANGED <<queue, attempts>>
      BY <1>0, <3>1, FinishEffect DEF Finish
    <3> QED BY <1>0, <2>3, <3>1, <3>2, JobFacts
  <2>7. CASE Raise(w)
    <3>1. Goes(w, "failing") /\ job[w].pc = "running" /\ UNCHANGED <<queue, attempts>>
      BY <1>0, <2>7, RaiseEffect DEF Raise
    <3> QED BY <1>0, <2>3, <3>1, JobFacts
  <2>8. CASE SaveContext(w)
    <3>1. /\ job[w].pc = "save" /\ UNCHANGED <<queue, attempts>>
          /\ Goes(w, IF job[w].status = "FAILURE" THEN "failing" ELSE "dispatch")
      BY <1>0, <2>8, SaveEffect DEF SaveContext
    <3> QED BY <1>0, <2>3, <3>1, JobFacts
  <2>9. CASE Rests(w)
    <3>1. /\ job[w].pc = "dispatch" /\ UNCHANGED <<queue, attempts>>
          /\ Goes(w, "failing") \/ Goes(w, "ending")
      BY <1>0, <2>9, RestsEffect
    <3>2. Busy(w)
      BY <1>0, <3>1, JobFacts
    <3> QED BY <2>3, <3>1, <3>2
  <2>10. CASE Waits(w) \/ SetRun(w)
    <3>1. Busy(w) /\ Ends(w) /\ UNCHANGED <<queue, attempts>>
      BY <1>0, <2>10, WaitsEffect, SetRunEffect
    <3> DEFINE D == {}
    <3>2. D \in SUBSET Jobs /\ \A i : i \notin D
      OBVIOUS
    <3> HIDE DEF D
    <3> QED BY <1>0, <3>1, <3>2, SeqEnds
  <2>11. ASSUME NEW next \in SUBSET Ids, NEW k \in Indexes, Sends(w, next, k) PROVE SeqInv(rank)'
    <3>1. /\ Busy(w) /\ Ends(w) /\ attempts' = attempts
          /\ \A n \in Ids, m \in Indexes :
               /\ n \in next /\ m = k => queue'[<<n, m>>] = queue[<<n, m>>] + 1
               /\ ~(n \in next /\ m = k) => queue'[<<n, m>>] = queue[<<n, m>>]
      BY <1>0, <2>11, SendsEffect
    <3>2. (\A x, y \in next : x = y) /\ \A x \in next \cap Nodes : Behind(rank, x, k)
      BY <1>0, <2>11, SentAhead
    <3> DEFINE D == next \X {k}
    <3>3. /\ D \in SUBSET Jobs /\ \A i, j \in D : i = j
          /\ \A n, m : <<n, m>> \in D <=> n \in next /\ m = k
      BY <3>2 DEF Jobs
    <3> HIDE DEF D
    <3>4. \A i \in Jobs : queue'[i] = IF i \in D THEN queue[i] + 1 ELSE queue[i]
      BY <3>1, <3>3 DEF Jobs
    <3>5. \A n \in Nodes, m \in Indexes : <<n, m>> \in D => Behind(rank, n, m)
      BY <3>2, <3>3
    <3> QED BY <1>0, <3>1, <3>3, <3>4, <3>5, SeqEnds
  <2>12. ASSUME NEW sent \in Partial(w), Redeliver(w, sent) PROVE FALSE
    BY <1>0, <2>12, RedeliverEffect DEF TypeOK
  <2> QED BY <1>3, <2>1, <2>2, <2>4, <2>5, <2>6, <2>7, <2>8, <2>9, <2>10, <2>11, <2>12 DEF WorkerCase
<1>4. ASSUME NEW c \in Callers, CallbackCase(c) PROVE FALSE
  BY <1>0, <1>4, NoCallbacks
<1> QED BY <1>0, <1>1, <1>2, <1>3, <1>4, StepCases

LEMMA SeqInvariance ==
  ASSUME NEW rank, Sequential(rank)
  PROVE  Spec => [](IInv /\ (faults = 0 => SeqInv(rank)))
<1>1. Init => SeqInv(rank)
  <2> SUFFICES ASSUME Init PROVE SeqInv(rank)
    OBVIOUS
  <2>1. /\ \A i \in Jobs : queue[i] = 0
        /\ \A w \in Workers : ~Busy(w) /\ job[w].pc = "idle"
        /\ \A i \in Nodes \X Indexes : attempts[i] = 0
    BY DEF Init, Busy, Idle
  <2>2. \A n \in Nodes, k \in Indexes : queue[<<n, k>>] = 0
    BY <2>1, NodeFacts DEF Jobs
  <2>3. Alone
    BY <2>1 DEF Alone
  <2> QED BY <2>1, <2>2, <2>3 DEF SeqInv
<1>2. IInv /\ (faults = 0 => SeqInv(rank)) /\ [Next]_vars => (faults = 0 => SeqInv(rank))'
  BY SeqStep, FaultsStay DEF IInv
<1> QED BY <1>1, <1>2, Invariance, PTL DEF Spec

\* In a graph with such an order every job is further on than what has been executed.
LEMMA OnceInOrder ==
  ASSUME NEW rank, Sequential(rank)
  PROVE  Spec => [](faults = 0 => NoRepetition)
<1>1. SeqInv(rank) => NoRepetition
  BY DEF SeqInv, NoRepetition
<1> QED BY <1>1, SeqInvariance, PTL

\* In a graph in which one node is executed after the other, with loops in loops, no node
\* is executed twice in one round until a worker dies (LoopNodeHandler, loop re-entry of a
\* tail).
THEOREM OnceInSequence == Spec => []ExecutedOnce
<1>1. ASSUME OneByOne PROVE Spec => []ExecutedOnce
  <2>1. (faults = 0 => NoRepetition) => ExecutedOnce
    BY DEF ExecutedOnce
  <2>2. Spec => [](faults = 0 => NoRepetition)
    BY <1>1, OnceInOrder DEF OneByOne
  <2> QED BY <2>1, <2>2, PTL
<1>2. ASSUME ~OneByOne PROVE Spec => []ExecutedOnce
  <2>1. ExecutedOnce
    BY <1>2 DEF ExecutedOnce
  <2> QED BY <2>1, PTL
<1> QED BY <1>1, <1>2

-----------------------------------------------------------------------------
(* What the only job finds                                                  *)

\* Nobody else is about to write the context.
LEMMA InContext ==
  ASSUME TypeOK, Alone, SeqResults, NEW w \in Workers,
         Busy(w) => job[w].pc # "save", ~Busy(w) => \A v \in Workers : ~Busy(v),
         NEW n \in Nodes, NEW k \in Indexes, instance[<<n, k>>] = "SUCCESS"
  PROVE  context[n] = "SUCCESS" /\ (Config[n].kind = "END" => Config[n].ok)
<1>1. \A v \in Workers : job[v].pc # "save"
  BY OnlyOne DEF Busy, Idle
<1>2. Recorded(n, k)
  BY DEF SeqResults
<1> QED BY <1>1, <1>2 DEF Recorded

\* The orchestrators at work after a step of w are those before it, or w.
LEMMA KnowsAlone ==
  ASSUME TypeOK, Alone, NEW w \in Workers, Busy(w) \/ \A v \in Workers : ~Busy(v),
         Others(w), Knows(w)'
  PROVE  \A v \in Workers : Knows(v)'
<1>1. \A v \in Workers : v # w => job[v].pc = "idle"
  BY OnlyOne DEF Busy, Idle
<1>2. \A v \in Workers : v # w => job'[v].pc = "idle"
  BY <1>1 DEF Others
<1> QED BY <1>2 DEF Knows

\* Results, once there, stay.
ResultsStay ==
  \A i \in Nodes \X Indexes : instance[i] = "SUCCESS" => instance'[i] = "SUCCESS"
RowsRecorded ==
  \A n \in Nodes, k \in Indexes : instance[<<n, k>>] = "SUCCESS" => Recorded(n, k)
RowsBegun == \A i \in Nodes \X Indexes : attempts[i] = 0 => instance[i] = "none"

\* A step that changes neither rows nor context, of a job that is not about to write it.
LEMMA SameResults ==
  ASSUME TypeOK, Alone, SeqResults, NEW w \in Workers, Others(w), Knows(w)',
         Busy(w) => job[w].pc # "save", ~Busy(w) => \A v \in Workers : ~Busy(v),
         UNCHANGED <<instance, attempts, context>>
  PROVE  RowsBegun' /\ (\A v \in Workers : Knows(v)') /\ RowsRecorded' /\ ResultsStay
<1>1. \A n \in Nodes, k \in Indexes : instance'[<<n, k>>] = "SUCCESS" => Recorded(n, k)'
  BY InContext DEF Recorded
<1> QED BY <1>1, KnowsAlone DEF SeqResults, RowsBegun, RowsRecorded, ResultsStay

\* A step that writes the row of the job, which has no result yet.
LEMMA OneResult ==
  ASSUME TypeOK, Alone, SeqResults, NEW w \in Workers, Others(w), Busy(w), Knows(w)',
         job[w].pc # "save", Here(w) \in Nodes \X Indexes, instance[Here(w)] # "SUCCESS",
         NEW status, instance' = [instance EXCEPT ![Here(w)] = status],
         \A i \in Nodes \X Indexes : i # Here(w) => attempts'[i] = attempts[i],
         attempts'[Here(w)] # 0, context' = context,
         status = "SUCCESS" =>
           /\ job'[w].pc = "save" /\ Here(w)' = Here(w)
           /\ Config[job[w].node].kind = "END" => Config[job[w].node].ok
  PROVE  RowsBegun' /\ (\A v \in Workers : Knows(v)') /\ RowsRecorded' /\ ResultsStay
<1>1. \A i \in Nodes \X Indexes : instance'[i] = IF i = Here(w) THEN status ELSE instance[i]
  BY DEF TypeOK
<1>2. RowsBegun'
  BY <1>1 DEF SeqResults, RowsBegun
<1>3. \A v \in Workers : Knows(v)'
  BY KnowsAlone
<1>4. ASSUME NEW n \in Nodes, NEW k \in Indexes, instance'[<<n, k>>] = "SUCCESS" PROVE Recorded(n, k)'
  <2>1. <<n, k>> \in Nodes \X Indexes
    OBVIOUS
  <2>2. CASE <<n, k>> = Here(w)
    <3>1. status = "SUCCESS" /\ n = job[w].node
      BY <1>1, <1>4, <2>1, <2>2 DEF Here
    <3> QED BY <2>2, <3>1 DEF Recorded
  <2>3. CASE <<n, k>> # Here(w)
    <3>1. context[n] = "SUCCESS" /\ (Config[n].kind = "END" => Config[n].ok)
      BY <1>1, <1>4, <2>1, <2>3, InContext
    <3> QED BY <3>1 DEF Recorded
  <2> QED BY <2>2, <2>3
<1>5. ResultsStay
  BY <1>1 DEF ResultsStay
<1> QED BY <1>2, <1>3, <1>4, <1>5 DEF RowsRecorded

LEMMA ResultsStep ==
  ASSUME IInv, NEW rank, Sequential(rank), SeqInv(rank), SeqResults, [Next]_vars, faults' = 0
  PROVE  RowsBegun' /\ (\A v \in Workers : Knows(v)') /\ RowsRecorded' /\ ResultsStay
<1> DEFINE Goal == RowsBegun' /\ (\A v \in Workers : Knows(v)') /\ RowsRecorded' /\ ResultsStay
<1>0. TypeOK /\ JobShape /\ CallbackShape /\ Alone
  BY DEF IInv, SeqInv
<1>1. ASSUME UNCHANGED <<instance, attempts, context, job>> PROVE Goal
  BY <1>1 DEF SeqResults, Knows, Recorded, Here, RowsBegun, RowsRecorded, ResultsStay
<1>2. ASSUME NEW w \in Workers, WorkerCase(w) PROVE Goal
  <2>1. ASSUME NEW j \in Jobs, Take(w, j) PROVE Goal
    <3>1. /\ ~Busy(w) /\ Others(w) /\ job'[w].ctx = context
          /\ job'[w].pc = IF j[1] \in Nodes THEN "loaded" ELSE "failing"
      BY <1>0, <2>1, TakeEffect
    <3>2. queue[j] > 0 /\ UNCHANGED <<instance, attempts, context>>
      BY <2>1 DEF Take, Received
    <3>3. \A v \in Workers : ~Busy(v)
      BY <1>0, <3>2 DEF Alone
    <3>4. Knows(w)'
      BY <3>1, <3>2 DEF Knows
    <3> QED BY <1>0, <3>1, <3>2, <3>3, <3>4, SameResults
  <2>2. ASSUME NEW j \in Jobs, Discard(w, j) PROVE Goal
    BY <1>1, <2>2 DEF Discard, Received
  <2>3. CASE ReadInstances(w)
    <3>1. Goes(w, "read") /\ job[w].pc = "loaded" /\ UNCHANGED <<instance, attempts, context>> /\ Busy(w)
      BY <1>0, <2>3, ReadEffect, HereRow DEF ReadInstances, Steps
    <3>2. Knows(w)'
      BY <3>1 DEF Knows, Goes, SeqResults
    <3> QED BY <1>0, <3>1, <3>2, SameResults DEF Goes
  <2>4. CASE Upsert(w)
    <3>0. job[w].pc = "read" /\ context' = context /\ Busy(w)
      BY <1>0, <2>4, HereRow DEF Upsert, Steps
    <3>1. /\ Goes(w, "running")
          /\ Here(w) \in Nodes \X Indexes /\ instance' = [instance EXCEPT ![Here(w)] = "RUNNING"]
          /\ attempts'[Here(w)] # 0
          /\ \A i \in Nodes \X Indexes : i # Here(w) => attempts'[i] = attempts[i]
      BY <1>0, <2>4, UpsertEffect
    <3>2. instance[Here(w)] = "none"
      BY <1>0, <3>0, <3>1, FreshRow DEF SeqResults
    <3>3. Here(w)' = Here(w) /\ job'[w].pc = "running" /\ job'[w].ctx = context
      BY <3>0, <3>1 DEF Here, Goes, SeqResults, Knows
    <3>4. Knows(w)'
      BY <1>0, <3>0, <3>1, <3>3 DEF Knows, TypeOK
    <3> QED BY <1>0, <3>0, <3>1, <3>2, <3>4, OneResult DEF Goes
  <2>5. CASE Produces(w)
    <3>1. PICK status \in NodeStatuses, next \in SUBSET Ids :
            job[w].pc = "running" /\ Follows(job[w].node, status, next) /\ Finish(w, status, next)
      BY <2>5 DEF Produces
    <3>2. /\ Goes(w, "save") /\ job'[w].status = status /\ UNCHANGED <<attempts, context>> /\ Busy(w)
          /\ Here(w) \in Nodes \X Indexes /\ instance' = [instance EXCEPT ![Here(w)] = status]
      BY <1>0, <3>1, FinishEffect, JobFacts DEF Finish
    <3>3. attempts'[Here(w)] # 0 /\ instance[Here(w)] = "RUNNING"
      BY <3>1, <3>2 DEF IInv, Begun, Executing, SeqResults, Knows
    <3>4. Here(w)' = Here(w) /\ job'[w].pc = "save" /\ job'[w].ctx = context
      BY <3>1, <3>2 DEF Here, Goes, SeqResults, Knows
    <3>5. Knows(w)'
      BY <1>0, <3>2, <3>4 DEF Knows, TypeOK
    <3>6. status = "SUCCESS" => (Config[job[w].node].kind = "END" => Config[job[w].node].ok)
      BY <3>1 DEF Follows
    <3> QED BY <1>0, <3>1, <3>2, <3>3, <3>4, <3>5, <3>6, OneResult DEF Goes
  <2>6. CASE Raise(w)
    <3>1. /\ Goes(w, "failing") /\ job[w].pc = "running" /\ UNCHANGED <<attempts, context>> /\ Busy(w)
          /\ Here(w) \in Nodes \X Indexes /\ instance' = [instance EXCEPT ![Here(w)] = "FAILURE"]
      BY <1>0, <2>6, RaiseEffect, JobFacts DEF Raise
    <3>2. attempts'[Here(w)] # 0 /\ instance[Here(w)] = "RUNNING"
      BY <3>1 DEF IInv, Begun, Executing, SeqResults, Knows
    <3>3. Knows(w)'
      BY <3>1 DEF Knows, Goes
    <3> QED BY <1>0, <3>1, <3>2, <3>3, OneResult DEF Goes
  <2>7. CASE SaveContext(w)
    <3>1. /\ job[w].pc = "save" /\ Goes(w, IF job[w].status = "FAILURE" THEN "failing" ELSE "dispatch")
          /\ UNCHANGED <<instance, attempts>> /\ context' = [job[w].ctx EXCEPT ![job[w].node] = job[w].status]
      BY <1>0, <2>7, SaveEffect DEF SaveContext
    <3>2. /\ Busy(w) /\ job[w].node \in Nodes /\ Here(w) \in Nodes \X Indexes
          /\ job[w].ctx = context /\ instance[Here(w)] = job[w].status
          /\ Follows(job[w].node, job[w].status, job[w].next)
      BY <1>0, <3>1, HereRow DEF Steps, SeqResults, Knows, JobShape, Shape
    <3>3. /\ job[w].status = "SUCCESS" \/ (job[w].status = "FAILURE" /\ Config[job[w].node].kind = "END"
                                            /\ ~Config[job[w].node].ok)
      BY <3>2 DEF Follows, Sequential
    <3>4. \A n \in Nodes : context'[n] = IF n = job[w].node THEN job[w].status ELSE context[n]
      BY <1>0, <3>1, <3>2 DEF TypeOK
    <3>5. Knows(w)'
      BY <3>1, <3>2, <3>3 DEF Knows, Goes, Here
    <3>6. \A v \in Workers : Knows(v)'
      BY <1>0, <3>1, <3>2, <3>5, KnowsAlone DEF Goes
    <3>7. ASSUME NEW n \in Nodes, NEW k \in Indexes, instance'[<<n, k>>] = "SUCCESS"
          PROVE  Recorded(n, k)'
      <4>1. Recorded(n, k)
        BY <3>1, <3>7 DEF SeqResults
      <4>2. CASE n = job[w].node
        BY <3>3, <3>4, <4>1, <4>2 DEF Recorded
      <4>3. CASE n # job[w].node
        <5>1. \A v \in Workers : ~(job[v].pc = "save" /\ Here(v) = <<n, k>>)
          BY <1>0, <3>2, <4>3, OnlyOne DEF Here
        <5> QED BY <3>4, <4>1, <4>3, <5>1 DEF Recorded
      <4> QED BY <4>2, <4>3
    <3> QED BY <3>1, <3>6, <3>7 DEF SeqResults, RowsBegun, RowsRecorded, ResultsStay
  <2>8. CASE Rests(w)
    <3>1. /\ job[w].pc = "dispatch" /\ UNCHANGED <<instance, attempts, context>>
          /\ Goes(w, "failing") \/ Goes(w, "ending")
      BY <1>0, <2>8, RestsEffect
    <3>2. Knows(w)'
      BY <3>1 DEF Knows, Goes
    <3>3. Busy(w) /\ Others(w)
      BY <1>0, <3>1, JobFacts DEF Goes
    <3> QED BY <1>0, <3>1, <3>2, <3>3, SameResults
  <2>9. ASSUME Ends(w), Busy(w), job[w].pc # "save", UNCHANGED <<instance, attempts, context>> PROVE Goal
    <3>1. Knows(w)'
      BY <2>9 DEF Knows, Ends, Idle
    <3> QED BY <1>0, <2>9, <3>1, SameResults DEF Ends
  <2>10. CASE Waits(w)
    BY <1>0, <2>9, <2>10, WaitsEffect
  <2>11. CASE SetRun(w)
    BY <1>0, <2>9, <2>11, SetRunEffect DEF SetRun
  <2>12. ASSUME NEW next \in SUBSET Ids, NEW k \in Indexes, Sends(w, next, k) PROVE Goal
    BY <1>0, <2>9, <2>12, SendsEffect DEF Sends
  <2>13. ASSUME NEW sent \in Partial(w), Redeliver(w, sent) PROVE FALSE
    BY <1>0, <2>13, RedeliverEffect DEF TypeOK
  <2> HIDE DEF Goal
  <2> QED BY <1>2, <2>1, <2>2, <2>3, <2>4, <2>5, <2>6, <2>7, <2>8, <2>10, <2>11, <2>12, <2>13 DEF WorkerCase
<1>3. ASSUME NEW c \in Callers, CallbackCase(c) PROVE FALSE
  BY <1>0, <1>3, NoCallbacks
<1>4. CASE UNCHANGED vars
  BY <1>1, <1>4 DEF vars
<1>5. CASE Trigger
  BY <1>1, <1>5 DEF Trigger
<1> QED BY <1>0, <1>2, <1>3, <1>4, <1>5, StepCases

LEMMA SeqResultsStep ==
  ASSUME IInv, NEW rank, Sequential(rank), SeqInv(rank), SeqResults, [Next]_vars, faults' = 0
  PROVE  SeqResults'
<1>0. TypeOK /\ JobShape /\ CallbackShape
  BY DEF IInv
<1>1. RowsBegun' /\ (\A v \in Workers : Knows(v)') /\ RowsRecorded' /\ ResultsStay
  BY ResultsStep
<1>2. ASSUME NEW n \in Nodes \ Entry, NEW k \in Indexes, AtWork(n, k)' PROVE Preceded(n, k)'
  <2>0. n \in Ids /\ \A m \in 1..k : m \in Indexes
    BY NodeFacts DEF Indexes
  <2>1. Preceded(n, k)
    <3>1. CASE AtWork(n, k)
      BY <3>1 DEF SeqResults
    <3>2. CASE SentByJob(n, k)
      <4>1. PICK w \in Workers, next \in SUBSET Ids : n \in next /\ Sends(w, next, k)
        BY <3>2 DEF SentByJob
      <4>2. job[w].pc = "dispatch" /\ job[w].node \in Sources[n] /\ k \in {job[w].k, job[w].k + 1}
        BY <4>1 DEF Sends
      <4>3. job[w].k \in Indexes /\ instance[<<job[w].node, job[w].k>>] = "SUCCESS"
        BY <1>0, <4>2, HereRow DEF SeqResults, Knows, Here, Steps
      <4>4. job[w].k \in 1..k
        BY <4>2, <4>3, NodeFacts DEF Indexes
      <4> QED BY <4>2, <4>3, <4>4 DEF Preceded
    <3>3. CASE SentByCallback(n, k)
      BY <1>0, <3>3, NoCallbacks DEF SentByCallback, CallbackCase
    <3> QED BY <1>0, <1>2, <2>0, <3>1, <3>2, <3>3, WorkIsSent, NobodyDies
  <2>2. PICK p \in Sources[n], m \in 1..k : instance[<<p, m>>] = "SUCCESS"
    BY <2>1 DEF Preceded
  <2>3. p \in Nodes /\ m \in Indexes
    BY <2>0, SourcesAreNodes
  <2> QED BY <1>1, <2>2, <2>3 DEF ResultsStay, Preceded
<1> QED BY <1>1, <1>2 DEF SeqResults, RowsBegun, RowsRecorded

LEMMA SeqResultsInvariance ==
  ASSUME NEW rank, Sequential(rank)
  PROVE  Spec => [](IInv /\ (faults = 0 => SeqInv(rank) /\ SeqResults))
<1>1. Init => SeqResults
  <2> SUFFICES ASSUME Init PROVE SeqResults
    OBVIOUS
  <2>1. /\ \A n \in Nodes, k \in Indexes : queue[<<n, k>>] = 0 /\ attempts[<<n, k>>] = 0
        /\ \A i \in Nodes \X Indexes : instance[i] = "none"
        /\ \A w \in Workers : ~Busy(w) /\ job[w].pc = "idle"
    BY NodeFacts DEF Init, Busy, Idle, Jobs
  <2>2. \A n \in Nodes, k \in Indexes : ~AtWork(n, k)
    <3> TAKE n \in Nodes, k \in Indexes
    <3>1. queue[<<n, k>>] = 0 /\ attempts[<<n, k>>] = 0 /\ \A w \in Workers : ~At(w, <<n, k>>)
      BY <2>1 DEF At
    <3> QED BY <3>1 DEF AtWork
  <2> QED BY <2>1, <2>2 DEF SeqResults, Knows
<1>2. IInv /\ (faults = 0 => SeqInv(rank) /\ SeqResults) /\ [Next]_vars
        => (faults = 0 => SeqResults)'
  <2> SUFFICES ASSUME IInv, faults = 0 => SeqInv(rank) /\ SeqResults, [Next]_vars, faults' = 0
               PROVE  SeqResults'
    OBVIOUS
  <2>1. SeqInv(rank) /\ SeqResults
    BY FaultsStay DEF IInv
  <2> QED BY <2>1, SeqResultsStep
<1> QED BY <1>1, <1>2, SeqInvariance, PTL DEF Spec

\* In a graph in which one node is executed after the other, each starts after a node that
\* leads to it has its result, in the same round or an earlier one, until a worker dies.
THEOREM ResultFirstInSequence ==
  ASSUME NEW rank, Sequential(rank)
  PROVE  Spec => [](faults = 0 => StartsAfterSource)
<1>1. (faults = 0 => SeqInv(rank) /\ SeqResults) => (faults = 0 => StartsAfterSource)
  BY DEF SeqResults, Preceded, StartsAfterSource, AtWork
<1>2. Spec => [](faults = 0 => SeqInv(rank) /\ SeqResults)
  BY SeqResultsInvariance, PTL
<1> QED BY <1>1, <1>2, PTL

\* An orchestrator that executes a node has the results of all nodes before it in its snapshot
\* of the context, and no result is missing when nobody is at work.
ContextComplete ==
  /\ \A w \in Workers, n \in Nodes, k \in Indexes :
       job[w].pc \in {"loaded", "read", "running"} /\ instance[<<n, k>>] = "SUCCESS"
         => job[w].ctx[n] = "SUCCESS"
  /\ OutputsAccumulate

\* What the documentation says of the context (it accumulates every node's output) is true where
\* one node is executed after the other: there nobody writes back an older snapshot.
THEOREM OutputsInSequence ==
  ASSUME NEW rank, Sequential(rank)
  PROVE  Spec => [](faults = 0 => ContextComplete)
<1>1. TypeOK /\ SeqInv(rank) /\ SeqResults => ContextComplete
  <2> SUFFICES ASSUME TypeOK, SeqInv(rank), SeqResults PROVE ContextComplete
    OBVIOUS
  <2>0. Alone
    BY DEF SeqInv
  <2>1. ASSUME NEW w \in Workers, NEW n \in Nodes, NEW k \in Indexes,
               job[w].pc \in {"loaded", "read", "running"}, instance[<<n, k>>] = "SUCCESS"
        PROVE  job[w].ctx[n] = "SUCCESS"
    <3>1. Busy(w) /\ job[w].ctx = context
      BY <2>1, JobFacts DEF SeqResults, Knows
    <3> QED BY <2>0, <2>1, <3>1, InContext
  <2>2. OutputsAccumulate
    <3> SUFFICES ASSUME \A w \in Workers : ~Busy(w), NEW n \in Nodes, NEW k \in Indexes,
                        instance[<<n, k>>] = "SUCCESS"
                 PROVE  context[n] = "SUCCESS"
      BY DEF OutputsAccumulate
    <3>1. Recorded(n, k)
      BY DEF SeqResults
    <3> QED BY <3>1 DEF Recorded, Busy, Idle
  <2> QED BY <2>1, <2>2 DEF ContextComplete
<1>2. Spec => [](TypeOK /\ (faults = 0 => SeqInv(rank) /\ SeqResults))
  BY SeqResultsInvariance, PTL DEF IInv
<1> QED BY <1>1, <1>2, PTL

-----------------------------------------------------------------------------
(* Rounds of a loop                                                         *)

\* What is said of a loop is said of the rows.
LEMMA SameRounds ==
  ASSUME attempts' = attempts, NEW l
  PROVE  /\ Rounds(l)' = Rounds(l) /\ (Entered(l)' <=> Entered(l)) /\ (Left(l)' <=> Left(l))
         /\ \A n, k : (Before(l, n, k)' <=> Before(l, n, k)) /\ (During(l, n, k)' <=> During(l, n, k))
         /\ \A n, k, next : After(l, n, k, next)' <=> After(l, n, k, next)
<1>1. Rounds(l)' = Rounds(l) /\ (Entered(l)' <=> Entered(l)) /\ (Left(l)' <=> Left(l))
  BY DEF Rounds, Entered, Left
<1>2. /\ (Done(l)' <=> Done(l))
      /\ \A k : (AtLoop(l, k)' <=> AtLoop(l, k)) /\ (Begins(l, k)' <=> Begins(l, k))
                /\ (InRound(l, k)' <=> InRound(l, k))
  BY <1>1 DEF Done, AtLoop, Begins, InRound
<1>3. \A n, k : (Before(l, n, k)' <=> Before(l, n, k)) /\ (During(l, n, k)' <=> During(l, n, k))
  BY <1>1, <1>2 DEF Before, During
<1>4. \A n, k, next : After(l, n, k, next)' <=> After(l, n, k, next)
  BY <1>1, <1>2 DEF After
<1> QED BY <1>1, <1>3, <1>4

\* The least element of a set of indexes, if one knows it.
LEMMA MinIs ==
  ASSUME NEW S \in SUBSET Indexes, NEW k \in S, \A j \in S : k <= j
  PROVE  Min(S) = k
<1>1. \E m \in S : \A j \in S : m <= j
  OBVIOUS
<1>2. Min(S) \in S /\ \A j \in S : Min(S) <= j
  BY <1>1 DEF Min
<1>3. Min(S) \in Nat /\ k \in Nat
  BY <1>2, IndexFacts
<1>4. Min(S) <= k /\ k <= Min(S)
  BY <1>2
<1> QED BY <1>3, <1>4

\* The condition holds for the first time in round k, or never before the last one.
LEMMA PlanIs ==
  ASSUME NEW l \in OfKind("LOOP"), NEW k \in Indexes
  PROVE  /\ k < Config[l].max /\ GoesOn(l, k - 1) /\ Holds(l, k) => Planned(l) = k - 1
         /\ k = Config[l].max /\ GoesOn(l, k) => Planned(l) = Config[l].max
<1> DEFINE max == Config[l].max
           holds == {j \in 1..max - 1 : Holds(l, j)}
<1>1. Planned(l) = IF holds = {} THEN max ELSE Min(holds) - 1
  BY Zenon DEF Planned, Holds
<1>2. max \in Indexes
  BY LoopFacts
<1> HIDE DEF max
<1>3. max \in Nat /\ 1 <= max /\ max <= MaxIndex /\ k \in Nat /\ k >= 1 /\ MaxIndex \in Nat
  BY <1>2, IndexFacts
<1>4. holds \in SUBSET Indexes
  <2>1. ASSUME NEW j \in 1..max - 1 PROVE j \in Indexes
    BY <1>3, IndexFacts
  <2> QED BY <2>1
<1>5. ASSUME k < max, GoesOn(l, k - 1), Holds(l, k) PROVE Planned(l) = k - 1
  <2>1. k \in holds
    BY <1>3, <1>5
  <2>2. ASSUME NEW j \in holds PROVE k <= j
    <3>1. j \in Nat /\ j >= 1 /\ j < max /\ Holds(l, j)
      BY <1>3
    <3>2. ~(j \in 1..k - 1)
      BY <1>5, <3>1 DEF GoesOn, max
    <3> QED BY <1>3, <3>1, <3>2
  <2> HIDE DEF holds
  <2> QED BY <1>1, <1>4, <2>1, <2>2, MinIs
<1>6. ASSUME k = max, GoesOn(l, k) PROVE holds = {}
  <2> SUFFICES ASSUME NEW j \in 1..max - 1, Holds(l, j) PROVE FALSE
    OBVIOUS
  <2>1. j \in 1..k /\ j < max
    BY <1>3, <1>6
  <2> QED BY <1>6, <2>1 DEF GoesOn, max
<1> QED BY <1>1, <1>5, <1>6 DEF max

\* A condition that has one value only.
LEMMA OneValue ==
  ASSUME NEW S \in {{TRUE}, {FALSE}}, NEW x \in S
  PROVE  x <=> S = {TRUE}
<1>1. {FALSE} # {TRUE}
  <2>1. TRUE \in {TRUE} /\ TRUE \notin {FALSE}
    BY Zenon
  <2> QED BY <2>1, Zenon
<1>2. CASE S = {TRUE}
  <2>1. x = TRUE
    BY <1>2, Zenon
  <2> QED BY <1>2, <2>1, Zenon
<1>3. CASE S = {FALSE}
  <2>1. x = FALSE
    BY <1>3, Zenon
  <2> QED BY <1>1, <1>3, <2>1, Zenon
<1> QED BY <1>2, <1>3, Zenon

\* What a loop with a fixed condition decides.
LEMMA LoopDecides ==
  ASSUME NEW l \in OfKind("LOOP"), Fixed(l), NEW k \in Indexes, NEW next, Config[l].body # {},
         Chooses(l, k, next)
  PROVE  \/ /\ next = ExitsOf(l)
            /\ k > Config[l].max \/ (Holds(l, k) /\ (k = Config[l].max => Holds(l, k - 1)))
         \/ /\ next = Config[l].body
            /\ Holds(l, k) => k = Config[l].max
<1>1. PICK met \in Config[l].met[k], metBefore \in Config[l].met[k - 1] :
        next = IF LoopExits(l, k, met, metBefore) THEN ExitsOf(l) ELSE Config[l].body
  BY DEF Chooses
<1>2. k \in 0..MaxIndex /\ k - 1 \in 0..MaxIndex
  BY IndexFacts
<1>3. Config[l].met[k] \in {{TRUE}, {FALSE}} /\ Config[l].met[k - 1] \in {{TRUE}, {FALSE}}
  BY <1>2 DEF Fixed
<1>4. (met <=> Holds(l, k)) /\ (metBefore <=> Holds(l, k - 1))
  BY <1>1, <1>3, OneValue, Zenon DEF Holds
<1> QED BY <1>1, <1>4 DEF LoopExits

\* A loop that goes on has rounds left, one that is left has had those that were planned.
LEMMA LoopChooses ==
  ASSUME NEW l \in OfKind("LOOP"), NEW F, PlainLoop(l, F), Fixed(l),
         NEW k \in Indexes, NEW next, AtLoop(l, k), Entered(l), Chooses(l, k, next)
  PROVE  (next = Config[l].body /\ Begins(l, k)) \/ (next = ExitsOf(l) /\ Done(l))
<1> DEFINE max == Config[l].max
<1>1. max \in Indexes
  BY LoopFacts
<1>2. k <= max /\ Rounds(l) = 1..k - 1 /\ GoesOn(l, k - 1) /\ ~Left(l) /\ Config[l].body # {}
  BY DEF AtLoop, PlainLoop
<1>3. \/ next = ExitsOf(l) /\ (k > max \/ (Holds(l, k) /\ (k = max => Holds(l, k - 1))))
      \/ next = Config[l].body /\ (Holds(l, k) => k = max)
  BY <1>2, LoopDecides
<1>4. max > 1 \/ ~Holds(l, 0)
  BY DEF PlainLoop
<1>5. GoesOn(l, k - 1) <=> \A j \in 1..k - 1 : j < max => ~Holds(l, j)
  BY DEF GoesOn
<1>6. GoesOn(l, k) <=> \A j \in 1..k : j < max => ~Holds(l, j)
  BY DEF GoesOn
<1> HIDE DEF max
<1>7. max \in Nat /\ 1 <= max /\ k \in Nat /\ 1 <= k
  BY <1>1, IndexFacts
<1>8. CASE Holds(l, k) /\ (k = max => Holds(l, k - 1)) /\ next = ExitsOf(l)
  <2>1. k # max
    <3> SUFFICES ASSUME k = max PROVE FALSE
      OBVIOUS
    <3>1. k > 1
      BY <1>4, <1>7, <1>8
    <3>2. k - 1 \in 1..k - 1 /\ k - 1 < max
      BY <1>7, <3>1
    <3> QED BY <1>2, <1>5, <1>8, <3>2
  <2>2. k < max
    BY <1>2, <1>7, <2>1
  <2>3. Planned(l) = k - 1
    BY <1>2, <1>8, <2>2, PlanIs DEF max
  <2> QED BY <1>2, <1>8, <2>3 DEF Done
<1>9. CASE next = Config[l].body /\ (Holds(l, k) => k = max)
  <2>1. ASSUME NEW j \in 1..k, j < max PROVE ~Holds(l, j)
    BY <1>2, <1>5, <1>7, <1>9, <2>1
  <2>2. GoesOn(l, k) 
    BY <1>6, <2>1
  <2> QED BY <1>2, <1>9, <2>2 DEF Begins, max
<1>10. ~(k > max)
  BY <1>2, <1>7
<1> QED BY <1>3, <1>8, <1>9, <1>10

\* The job in w goes on.
LEMMA LoopGoes ==
  ASSUME TypeOK, Alone, NEW w \in Workers, Busy(w), NEW pc, Goes(w, pc), queue' = queue, NEW l,
         pc \in {"loaded", "read"} => Before(l, job[w].node, job[w].k)',
         pc = "running" => During(l, job[w].node, job[w].k)',
         pc \in {"save", "dispatch"} => After(l, job[w].node, job[w].k, job[w].next)',
         (Rounds(l) # {} => Entered(l))', (Entered(l) /\ Left(l) => Done(l))'
  PROVE  LoopInv(l)'
<1>1. /\ \A i \in Jobs : queue[i] = 0
      /\ \A v \in Workers : v # w => job[v].pc = "idle" /\ ~Busy(v)
  BY OnlyOne
<1>2. job'[w].pc = pc /\ \A v \in Workers : v # w => job'[v].pc = "idle"
  BY <1>1 DEF Goes, Others
<1>3. \A n \in Nodes, k \in Indexes : queue'[<<n, k>>] = 0
  BY <1>1, NodeFacts DEF Jobs
<1> QED BY <1>2, <1>3 DEF LoopInv

\* The job in w ends and leaves the jobs in D.
LEMMA LoopEnds ==
  ASSUME TypeOK, Alone, NEW w \in Workers, Busy(w), Ends(w), attempts' = attempts, NEW l, LoopInv(l),
         NEW D \in SUBSET Jobs,
         \A i \in Jobs : queue'[i] = IF i \in D THEN queue[i] + 1 ELSE queue[i],
         \A n \in Nodes, k \in Indexes : <<n, k>> \in D => Before(l, n, k)
  PROVE  LoopInv(l)'
<1>1. /\ \A i \in Jobs : queue[i] = 0
      /\ \A v \in Workers : v # w => job[v].pc = "idle" /\ ~Busy(v)
  BY OnlyOne
<1>2. \A v \in Workers : job'[v].pc = "idle"
  BY <1>1 DEF Ends, Others, Idle
<1>3. \A i \in Jobs : queue'[i] > 0 => i \in D
  BY <1>1
<1>4. ASSUME NEW n \in Nodes, NEW k \in Indexes, queue'[<<n, k>>] > 0 PROVE Before(l, n, k)'
  <2>1. <<n, k>> \in Jobs
    BY NodeFacts DEF Jobs
  <2>2. Before(l, n, k)
    BY <1>3, <1>4, <2>1
  <2> QED BY <2>2, SameRounds
<1>5. (Rounds(l) # {} => Entered(l))' /\ (Entered(l) /\ Left(l) => Done(l))'
  BY SameRounds DEF LoopInv, Done
<1> QED BY <1>2, <1>4, <1>5 DEF LoopInv

\* What the hypotheses say of the loop itself.
LEMMA LoopGraph ==
  ASSUME NEW rank, Sequential(rank), NEW F, NEW l \in OfKind("LOOP"), PlainLoop(l, F)
  PROVE  /\ l \in Nodes /\ l \notin Inside(l) /\ l \notin ExitsOf(l) /\ ExitsOf(l) # {}
         /\ \A x \in ExitsOf(l) \cap Nodes : x \notin Inside(l) /\ rank[l] < rank[x]
         /\ \E b \in Inside(l) : Config[l].body = {b} /\ Sources[b] = {l}
<1>1. l \in Nodes /\ Config[l].kind = "LOOP" /\ ExitsOf(l) # {} /\ ExitsOf(l) \in SUBSET Ids
  BY LoopFacts DEF OfKind
<1>2. l \notin Inside(l)
  BY <1>1 DEF PlainLoop
<1>3. HandsOn(l, ExitsOf(l)) /\ ExitsOf(l) \in Named
  BY <1>1, HandsOnNamed DEF Successors, HandsOn
<1>4. \A x \in ExitsOf(l) \cap Nodes : rank[l] < rank[x]
  BY <1>1, <1>3 DEF Sequential
<1>5. l \notin ExitsOf(l)
  <2>1. rank[l] \in Nat
    BY <1>1 DEF Sequential
  <2>2. ~(rank[l] < rank[l])
    BY <2>1
  <2> QED BY <1>1, <1>4, <2>2
<1>6. \E b \in Inside(l) : Config[l].body = {b} /\ Sources[b] = {l}
  BY DEF PlainLoop, Inside
<1>7. \A x \in ExitsOf(l) \cap Nodes : x \notin Inside(l)
  BY DEF PlainLoop
<1> QED BY <1>1, <1>2, <1>4, <1>5, <1>6, <1>7

LEMMA FirstRoundStep ==
  ASSUME IInv, NEW rank, Sequential(rank), NEW F, PlainLoops(F), FirstRound(F), [Next]_vars, faults' = 0
  PROVE  FirstRound(F)'
<1> SUFFICES ASSUME NEW f \in F, NEW k \in Indexes, AtWork(f, k)' PROVE k = 1
  BY DEF FirstRound
<1>0. /\ TypeOK /\ JobShape /\ CallbackShape
      /\ f \in Nodes /\ f \in Ids /\ Config[f].kind # "LOOP" /\ Sources[f] \subseteq F
  BY NodeFacts DEF IInv, PlainLoops
<1>1. CASE AtWork(f, k)
  BY <1>1 DEF FirstRound
<1>2. CASE Trigger
  <2>1. ~AtWork(f, k) /\ queue' = Sent(Entry, 1) /\ UNCHANGED <<attempts, job>>
    BY <1>0, <1>2 DEF IInv, Quiet, Trigger
  <2>2. queue'[<<f, k>>] > 0 /\ ~(queue[<<f, k>>] > 0)
    BY <1>2, <2>1 DEF AtWork, At, Busy, Here
  <2>3. Entry \in SUBSET Ids /\ 1 \in Indexes
    BY NodeFacts, IndexFacts
  <2> QED BY <1>0, <2>1, <2>2, <2>3, SentValue
<1>3. CASE SentByJob(f, k)
  <2>1. PICK w \in Workers, next \in SUBSET Ids : f \in next /\ Sends(w, next, k)
    BY <1>3 DEF SentByJob
  <2>2. /\ job[w].pc = "dispatch" /\ job[w].node \in Sources[f]
        /\ k # job[w].k => Config[f].kind = "LOOP"
    BY <1>0, <2>1 DEF Sends
  <2>3. Busy(w) /\ job[w].k \in Indexes
    BY <1>0, <2>2, HereRow DEF Steps
  <2>4. AtWork(job[w].node, job[w].k) /\ job[w].node \in F
    BY <1>0, <2>2, <2>3 DEF AtWork, At, Here
  <2> QED BY <1>0, <2>2, <2>3, <2>4 DEF FirstRound
<1>4. CASE SentByCallback(f, k)
  BY <1>0, <1>4, NoCallbacks DEF SentByCallback, CallbackCase
<1> QED BY <1>0, <1>1, <1>2, <1>3, <1>4, WorkIsSent, NobodyDies

\* A loop that is entered has done nothing yet.
LEMMA EntersLoop ==
  ASSUME TypeOK, NEW rank, Sequential(rank), NEW F, NEW l \in OfKind("LOOP"), PlainLoop(l, F),
         LoopInv(l), Behind(rank, l, 1)
  PROVE  Before(l, l, 1)
<1>1. \A m \in Nodes, j \in Indexes : attempts[<<m, j>>] > 0 => j = 1 /\ rank[m] < rank[l]
  BY IndexFacts DEF Behind
<1>2. /\ l \in Nodes /\ l \notin Inside(l) /\ \A x \in ExitsOf(l) \cap Nodes : rank[l] < rank[x]
      /\ \A m \in Nodes : rank[m] \in Nat
  BY LoopGraph DEF Sequential
<1>3. ~Entered(l)
  <2> SUFFICES ASSUME NEW k \in Indexes, attempts[<<l, k>>] > 0 PROVE FALSE
    BY DEF Entered
  <2>1. rank[l] < rank[l] /\ rank[l] \in Nat
    BY <1>1, <1>2
  <2> QED BY <2>1
<1>4. ~Left(l)
  <2> SUFFICES ASSUME NEW k \in Indexes, NEW x \in ExitsOf(l) \cap Nodes, attempts[<<x, k>>] > 0
               PROVE  FALSE
    BY DEF Left
  <2>1. rank[x] < rank[l] /\ rank[l] < rank[x] /\ rank[l] \in Nat /\ rank[x] \in Nat
    BY <1>1, <1>2
  <2> QED BY <2>1
<1>5. Rounds(l) = 1..1 - 1
  BY <1>3 DEF LoopInv
<1>6. 1 <= Config[l].max
  BY LoopFacts, IndexFacts
<1>7. GoesOn(l, 1 - 1)
  BY DEF GoesOn
<1>8. AtLoop(l, 1)
  BY <1>4, <1>5, <1>6, <1>7 DEF AtLoop
<1>9. l \notin Config[l].body
  BY LoopGraph
<1> QED BY <1>2, <1>8, <1>9 DEF Before

\* What a job is handed on to is where the loop's rounds say.
LEMMA SentBefore ==
  ASSUME TypeOK, JobShape, NEW rank, Sequential(rank), SeqInv(rank),
         NEW F, PlainLoops(F), FirstRound(F), NEW l \in OfKind("LOOP"), LoopInv(l),
         NEW w \in Workers, NEW next \in SUBSET Ids, NEW k \in Indexes, Sends(w, next, k),
         NEW x \in next \cap Nodes
  PROVE  Before(l, x, k)
<1> DEFINE p == job[w].node
           m == job[w].k
<1>0. PlainLoop(l, F)
  BY DEF PlainLoops
<1>1. /\ job[w].pc = "dispatch" /\ p \in Sources[x]
      /\ (k = m /\ next = job[w].next) \/ Reenters(job[w], next, k)
  BY DEF Sends
<1>2. /\ p \in Nodes /\ m \in Indexes /\ Busy(w) /\ After(l, p, m, job[w].next)
      /\ Successors(p, job[w].next) /\ job[w].next \in SUBSET Ids
  BY <1>1, HereRow, JobFacts DEF Steps, LoopInv, JobShape, Shape, Follows, JobStates
<1>3. /\ l \in Nodes /\ l \notin Inside(l) /\ l \notin ExitsOf(l) /\ ExitsOf(l) # {}
      /\ \A y \in ExitsOf(l) \cap Nodes : y \notin Inside(l)
  BY <1>0, LoopGraph
<1>4. PICK b \in Inside(l) : Config[l].body = {b} /\ Sources[b] = {l}
  BY <1>0, LoopGraph
<1>5. ASSUME x \in ExitsOf(l), Done(l) PROVE Before(l, x, k)
  BY <1>3, <1>4, <1>5 DEF Before
<1>6. CASE p = l
  <2>1. job[w].next # {} /\ ~Reenters(job[w], next, k)
    BY <1>2, <1>3, <1>4, <1>6 DEF After, Reenters
  <2>2. k = m /\ ((next = {b} /\ Begins(l, k)) \/ (next = ExitsOf(l) /\ Done(l)))
    BY <1>1, <1>2, <1>4, <1>6, <2>1 DEF After
  <2>3. CASE next = {b} /\ Begins(l, k)
    <3>1. x = b
      BY <2>3
    <3> QED BY <1>3, <1>4, <2>3, <3>1 DEF Before
  <2> QED BY <1>5, <2>2, <2>3
<1>7. CASE p \in Inside(l)
  <2>1. /\ InRound(l, m) /\ p # l /\ Controllers(p) \subseteq {l}
        /\ Successors(p, job[w].next) => job[w].next \cap Nodes \subseteq Inside(l)
    BY <1>0, <1>2, <1>3, <1>7 DEF After, PlainLoop
  <2>2. CASE k = m /\ next = job[w].next
    <3>1. x \in Inside(l) /\ x # b
      BY <1>1, <1>2, <1>4, <2>1, <2>2
    <3> QED BY <1>3, <1>4, <2>1, <2>2, <3>1 DEF Before
  <2>3. CASE Reenters(job[w], next, k)
    <3>1. IF m >= Config[l].max THEN k = m /\ next = ExitsOf(l) ELSE k = m + 1 /\ next = {l}
      BY <2>1, <2>3 DEF Reenters
    <3>2. /\ Rounds(l) = 1..m /\ m <= Config[l].max /\ GoesOn(l, m) /\ ~Left(l)
          /\ m \in Nat /\ Config[l].max \in Nat
      BY <1>2, <2>1, LoopFacts, IndexFacts DEF InRound
    <3>3. CASE m >= Config[l].max
      <4>1. m = Config[l].max
        BY <3>2, <3>3
      <4>2. Planned(l) = m
        BY <1>2, <3>2, <4>1, PlanIs
      <4> QED BY <1>5, <3>1, <3>2, <3>3, <4>2 DEF Done
    <3>4. CASE ~(m >= Config[l].max)
      <4>1. x = l /\ k = m + 1
        BY <3>1, <3>4
      <4>2. k - 1 = m /\ k <= Config[l].max
        BY <3>2, <3>4, <4>1
      <4>3. AtLoop(l, k)
        BY <3>2, <4>2 DEF AtLoop
      <4> QED BY <1>3, <1>4, <4>1, <4>3 DEF Before
    <3> QED BY <3>3, <3>4
  <2> QED BY <1>1, <2>2, <2>3
<1>8. CASE p \notin Inside(l) \cup {l}
  <2>1. x \notin Inside(l)
    BY <1>0, <1>1, <1>8 DEF PlainLoop
  <2>2. CASE x = l
    <3>1. p \in F /\ AtWork(p, m)
      BY <1>0, <1>1, <1>2, <1>8, <2>2 DEF PlainLoop, AtWork, At, Here
    <3>2. m = 1
      BY <1>2, <3>1 DEF FirstRound
    <3>3. l \notin Controllers(p)
      BY <1>2, <1>8 DEF Controllers, Inside
    <3>4. k = m
      BY <1>1, <2>2, <3>3 DEF Reenters
    <3>5. Behind(rank, l, 1)
      BY <2>2, <3>2, <3>4, SentAhead
    <3> QED BY <1>0, <2>2, <3>2, <3>4, <3>5, EntersLoop
  <2>3. CASE x # l
    BY <1>2, <1>4, <1>8, <2>1, <2>3 DEF After, Before
  <2> QED BY <2>2, <2>3
<1> QED BY <1>6, <1>7, <1>8

\* What a job that begins does to the rounds of a loop.
LEMMA UpsertRounds ==
  ASSUME TypeOK, JobShape, NEW w \in Workers, Upsert(w), NEW l \in Nodes
  PROVE  /\ job[w].node \notin Config[l].body => Rounds(l)' = Rounds(l)
         /\ job[w].node \in Config[l].body => Rounds(l)' = Rounds(l) \cup {job[w].k}
         /\ Entered(l)' <=> Entered(l) \/ job[w].node = l
         /\ Left(l)' <=> Left(l) \/ job[w].node \in ExitsOf(l)
<1>1. job[w].node \in Nodes /\ job[w].k \in Indexes /\ Here(w) = <<job[w].node, job[w].k>>
  BY HereRow DEF Upsert, Steps, Here
<1>2. \A i \in Nodes \X Indexes : attempts'[i] > 0 <=> attempts[i] > 0 \/ i = Here(w)
  <2> TAKE i \in Nodes \X Indexes
  <2>1. i # Here(w) => attempts'[i] = attempts[i]
    BY UpsertEffect
  <2>2. attempts'[Here(w)] > 0
    BY UpsertEffect
  <2> QED BY <2>1, <2>2
<1>3. \A n \in Nodes, k \in Indexes :
        attempts'[<<n, k>>] > 0 <=> attempts[<<n, k>>] > 0 \/ (n = job[w].node /\ k = job[w].k)
  <2> TAKE n \in Nodes, k \in Indexes
  <2>1. <<n, k>> = Here(w) <=> n = job[w].node /\ k = job[w].k
    BY <1>1
  <2> QED BY <1>2, <2>1
<1>4. job[w].node \notin Config[l].body => Rounds(l)' = Rounds(l)
  BY <1>1, <1>3 DEF Rounds
<1>5. job[w].node \in Config[l].body => Rounds(l)' = Rounds(l) \cup {job[w].k}
  BY <1>1, <1>3 DEF Rounds
<1>6. Entered(l)' <=> Entered(l) \/ job[w].node = l
  BY <1>1, <1>3 DEF Entered
<1>7. Left(l)' <=> Left(l) \/ job[w].node \in ExitsOf(l)
  BY <1>1, <1>3 DEF Left
<1> QED BY <1>4, <1>5, <1>6, <1>7

\* What is said of the rounds when the row of <<n, k>> has been written.
LEMMA RoundsThen ==
  ASSUME TypeOK, NEW rank, Sequential(rank), NEW F, NEW l \in OfKind("LOOP"), PlainLoop(l, F),
         LoopInv(l), NEW n \in Nodes, NEW k \in Indexes, Before(l, n, k),
         n \notin Config[l].body => Rounds(l)' = Rounds(l),
         n \in Config[l].body => Rounds(l)' = Rounds(l) \cup {k},
         Entered(l)' <=> Entered(l) \/ n = l,
         Left(l)' <=> Left(l) \/ n \in ExitsOf(l)
  PROVE  During(l, n, k)' /\ (Rounds(l) # {} => Entered(l))' /\ (Entered(l) /\ Left(l) => Done(l))'
<1>1. /\ l \in Nodes /\ l \notin Inside(l) /\ l \notin ExitsOf(l)
      /\ \A y \in ExitsOf(l) \cap Nodes : y \notin Inside(l)
  BY LoopGraph
<1>2. PICK b \in Inside(l) : Config[l].body = {b}
  BY LoopGraph
<1>3. k \in Nat /\ 1 <= k
  BY IndexFacts
<1>4. CASE n = l
  <2>1. AtLoop(l, k)
    BY <1>4 DEF Before
  <2>2. Rounds(l)' = Rounds(l) /\ ~Left(l)' /\ Entered(l)'
    BY <1>1, <1>2, <1>4, <2>1 DEF AtLoop
  <2>3. AtLoop(l, k)'
    BY <2>1, <2>2 DEF AtLoop
  <2> QED BY <1>1, <1>4, <2>2, <2>3 DEF During
<1>5. CASE n = b
  <2>1. Begins(l, k) /\ n \in Inside(l) /\ n \notin ExitsOf(l) /\ n # l
    BY <1>1, <1>2, <1>5 DEF Before
  <2>2. 1..k = (1..k - 1) \cup {k}
    BY <1>3
  <2>3. Rounds(l)' = 1..k /\ ~Left(l)' /\ Entered(l)'
    BY <1>2, <1>5, <2>1, <2>2 DEF Begins
  <2>4. InRound(l, k)'
    BY <2>1, <2>3 DEF InRound, Begins
  <2> QED BY <2>1, <2>3, <2>4 DEF During
<1>6. CASE n \in Inside(l) /\ n # b
  <2>1. InRound(l, k) /\ n # l /\ n \notin ExitsOf(l)
    BY <1>1, <1>2, <1>6 DEF Before
  <2>2. Rounds(l)' = Rounds(l) /\ ~Left(l)' /\ Entered(l)'
    BY <1>2, <1>6, <2>1 DEF InRound
  <2>3. InRound(l, k)'
    BY <2>1, <2>2 DEF InRound
  <2> QED BY <1>6, <2>1, <2>2, <2>3 DEF During
<1>7. CASE n \notin Inside(l) \cup {l}
  <2>1. Rounds(l)' = Rounds(l) /\ (Entered(l)' <=> Entered(l)) /\ (Entered(l) => Done(l))
    BY <1>2, <1>7 DEF Before
  <2>2. Done(l)' <=> Done(l)
    BY <2>1 DEF Done
  <2> QED BY <1>7, <2>1, <2>2 DEF During, LoopInv
<1> QED BY <1>2, <1>4, <1>5, <1>6, <1>7

LEMMA LoopBegins ==
  ASSUME TypeOK, JobShape, NEW rank, Sequential(rank), NEW F, NEW l \in OfKind("LOOP"), PlainLoop(l, F),
         LoopInv(l), NEW w \in Workers, Upsert(w)
  PROVE  /\ During(l, job[w].node, job[w].k)'
         /\ (Rounds(l) # {} => Entered(l))' /\ (Entered(l) /\ Left(l) => Done(l))'
<1>1. job[w].node \in Nodes /\ job[w].k \in Indexes /\ Before(l, job[w].node, job[w].k)
  BY HereRow DEF Upsert, Steps, LoopInv
<1>2. PICK n \in Nodes, k \in Indexes : n = job[w].node /\ k = job[w].k
  BY <1>1
<1>3. job'[w].node = n /\ job'[w].k = k
  BY <1>2, UpsertEffect DEF Goes
<1>4. /\ n \notin Config[l].body => Rounds(l)' = Rounds(l)
      /\ n \in Config[l].body => Rounds(l)' = Rounds(l) \cup {k}
      /\ Entered(l)' <=> Entered(l) \/ n = l
      /\ Left(l)' <=> Left(l) \/ n \in ExitsOf(l)
  BY <1>2, UpsertRounds DEF OfKind
<1>5. During(l, n, k)' /\ (Rounds(l) # {} => Entered(l))' /\ (Entered(l) /\ Left(l) => Done(l))'
  BY <1>1, <1>2, <1>4, RoundsThen
<1> QED BY <1>3, <1>5

\* The job in w goes on and no row is begun.
LEMMA LoopStays ==
  ASSUME TypeOK, Alone, NEW w \in Workers, Busy(w), NEW pc, Goes(w, pc), UNCHANGED <<queue, attempts>>,
         NEW l, LoopInv(l),
         NEW n, n = job[w].node, NEW k, k = job[w].k, NEW next, next = job'[w].next,
         pc \in {"loaded", "read"} => Before(l, n, k),
         pc = "running" => During(l, n, k),
         pc \in {"save", "dispatch"} => After(l, n, k, next)
  PROVE  LoopInv(l)'
<1>1. /\ Before(l, n, k)' <=> Before(l, n, k)
      /\ During(l, n, k)' <=> During(l, n, k)
      /\ After(l, n, k, next)' <=> After(l, n, k, next)
      /\ Rounds(l)' = Rounds(l) /\ (Entered(l)' <=> Entered(l)) /\ (Left(l)' <=> Left(l))
  BY SameRounds
<1>2. n = job'[w].node /\ k = job'[w].k
  BY DEF Goes
<1>3. (Rounds(l) # {} => Entered(l))' /\ (Entered(l) /\ Left(l) => Done(l))'
  BY <1>1 DEF LoopInv, Done
<1>4. pc \in {"loaded", "read"} => Before(l, job[w].node, job[w].k)'
  BY <1>1, <1>2
<1>5. pc = "running" => During(l, job[w].node, job[w].k)'
  BY <1>1, <1>2
<1>6. pc \in {"save", "dispatch"} => After(l, job[w].node, job[w].k, job[w].next)'
  BY <1>1, <1>2
<1> QED BY <1>3, <1>4, <1>5, <1>6, LoopGoes

\* Nothing is in hand when the run is triggered, and nothing has been executed.
LEMMA LoopTriggered ==
  ASSUME IInv, NEW rank, Sequential(rank), NEW F, NEW l \in OfKind("LOOP"), PlainLoop(l, F), LoopInv(l),
         Trigger
  PROVE  LoopInv(l)'
<1>1. /\ run = "PENDING" /\ queue' = Sent(Entry, 1) /\ UNCHANGED <<attempts, job>>
      /\ Entry \in SUBSET Ids /\ 1 \in Indexes /\ TypeOK
  BY NodeFacts, IndexFacts DEF Trigger, IInv
<1>2. \A n \in Ids, k \in Indexes : ~AtWork(n, k)
  BY <1>1 DEF IInv, Quiet
<1>3. \A n \in Nodes, k \in Indexes : ~(attempts[<<n, k>>] > 0) /\ ~(queue[<<n, k>>] > 0)
  BY <1>2, NodeFacts DEF AtWork
<1>4. Behind(rank, l, 1)
  BY <1>3 DEF Behind
<1>5. Before(l, l, 1)
  BY <1>1, <1>4, EntersLoop
<1>6. ~Entered(l) /\ l \in Nodes /\ Config[l].body \subseteq Inside(l) /\ \A n \in Inside(l) : n \notin Entry
  <2>1. l \in Nodes /\ Config[l].body \subseteq Inside(l)
    BY LoopGraph
  <2>2. \A n \in Inside(l) : n \notin Entry
    BY DEF PlainLoop
  <2> QED BY <1>3, <2>1, <2>2 DEF Entered
<1>7. ASSUME NEW n \in Nodes, NEW k \in Indexes, queue'[<<n, k>>] > 0 PROVE Before(l, n, k)'
  <2>1. n \in Entry /\ k = 1
    <3>1. ~(n \in Entry /\ k = 1) => Sent(Entry, 1)[<<n, k>>] = queue[<<n, k>>]
      BY <1>1, NodeFacts, SentValue
    <3> QED BY <1>1, <1>3, <1>7, <3>1
  <2>2. Before(l, n, k)
    BY <1>5, <1>6, <2>1 DEF Before
  <2> QED BY <1>1, <2>2, SameRounds
<1>8. \A n, k : (Before(l, n, k)' <=> Before(l, n, k)) /\ (During(l, n, k)' <=> During(l, n, k))
  BY <1>1, SameRounds
<1>9. \A n, k, next : After(l, n, k, next)' <=> After(l, n, k, next)
  BY <1>1, SameRounds
<1>10. (Rounds(l) # {} => Entered(l))' /\ (Entered(l) /\ Left(l) => Done(l))'
  BY <1>1, SameRounds DEF LoopInv, Done
<1>11. \A w \in Workers : job[w].pc = "idle"
  <2> TAKE w \in Workers
  <2> SUFFICES ASSUME job[w].pc # "idle" PROVE FALSE
    OBVIOUS
  <2>1. job[w].node \in Ids /\ job[w].k \in Indexes /\ Busy(w)
    BY <1>1, JobFacts
  <2> QED BY <1>2, <2>1 DEF AtWork, At, Here
<1> QED BY <1>1, <1>7, <1>10, <1>11 DEF LoopInv

LEMMA LoopStep ==
  ASSUME IInv, NEW rank, Sequential(rank), SeqInv(rank), NEW F, PlainLoops(F), FirstRound(F),
         NEW l \in OfKind("LOOP"), Fixed(l), LoopInv(l), [Next]_vars, faults' = 0
  PROVE  LoopInv(l)'
<1>0. TypeOK /\ JobShape /\ Begun /\ CallbackShape /\ Alone /\ PlainLoop(l, F)
  BY DEF IInv, SeqInv, PlainLoops
<1>1. CASE UNCHANGED vars
  <2>1. UNCHANGED <<queue, job, attempts>>
    BY <1>1 DEF vars
  <2>2. /\ \A n, k : (Before(l, n, k)' <=> Before(l, n, k)) /\ (During(l, n, k)' <=> During(l, n, k))
        /\ \A n, k, next : After(l, n, k, next)' <=> After(l, n, k, next)
        /\ (Rounds(l) # {} => Entered(l))' /\ (Entered(l) /\ Left(l) => Done(l))'
    BY <2>1, SameRounds DEF LoopInv, Done
  <2> QED BY <2>1, <2>2 DEF LoopInv
<1>2. CASE Trigger
  BY <1>0, <1>2, LoopTriggered
<1>3. ASSUME NEW w \in Workers, WorkerCase(w) PROVE LoopInv(l)'
  <2>0. PICK n, k : n = job[w].node /\ k = job[w].k
    OBVIOUS
  <2>1. ASSUME NEW j \in Jobs, Take(w, j) PROVE LoopInv(l)'
    <3>1. /\ ~Busy(w) /\ Others(w) /\ Here(w)' = j /\ job'[w].node = j[1]
          /\ job'[w].pc = IF j[1] \in Nodes THEN "loaded" ELSE "failing"
      BY <1>0, <2>1, TakeEffect
    <3>2. /\ queue[j] > 0 /\ queue'[j] = queue[j] - 1 /\ attempts' = attempts
          /\ \A i \in Jobs : i # j => queue'[i] = queue[i]
      BY <1>0, <2>1, ReceivedEffect DEF Take, Received
    <3>3. \A i \in Jobs : queue'[i] = 0
      BY <1>0, <3>2 DEF Alone
    <3>4. \A v \in Workers : v # w => job'[v].pc = "idle"
      BY <1>0, <3>1, <3>2 DEF Alone, Others, Busy, Idle
    <3>5. PICK x, m : j = <<x, m>> /\ m \in Indexes /\ job'[w].node = x /\ job'[w].k = m
      BY <3>1 DEF Here, Jobs
    <3>6. x \in Nodes => Before(l, x, m)'
      BY <3>2, <3>5, SameRounds DEF LoopInv
    <3>7. (Rounds(l) # {} => Entered(l))' /\ (Entered(l) /\ Left(l) => Done(l))'
      BY <3>2, SameRounds DEF LoopInv, Done
    <3>8. \A y \in Nodes, i \in Indexes : queue'[<<y, i>>] = 0
      BY <3>3, NodeFacts DEF Jobs
    <3>9. job'[w].pc = IF x \in Nodes THEN "loaded" ELSE "failing"
      BY <3>1, <3>5
    <3> QED BY <3>4, <3>5, <3>6, <3>7, <3>8, <3>9 DEF LoopInv
  <2>2. ASSUME NEW j \in Jobs, Discard(w, j) PROVE LoopInv(l)'
    <3>1. /\ UNCHANGED <<job, attempts>> /\ queue[j] > 0 /\ queue'[j] = queue[j] - 1
          /\ \A i \in Jobs : i # j => queue'[i] = queue[i]
      BY <1>0, <2>2, ReceivedEffect DEF Discard, Received
    <3>2. \A v \in Workers : job'[v].pc = "idle"
      BY <1>0, <3>1 DEF Alone, Busy, Idle
    <3>3. \A y \in Nodes, i \in Indexes : queue'[<<y, i>>] = 0
      BY <1>0, <3>1, NodeFacts DEF Alone, Jobs
    <3>4. (Rounds(l) # {} => Entered(l))' /\ (Entered(l) /\ Left(l) => Done(l))'
      BY <3>1, SameRounds DEF LoopInv, Done
    <3> QED BY <3>2, <3>3, <3>4 DEF LoopInv
  <2>3. CASE ReadInstances(w)
    <3>1. /\ Goes(w, "read") /\ UNCHANGED <<queue, attempts>> /\ job[w].pc = "loaded"
      BY <1>0, <2>3, ReadEffect DEF ReadInstances
    <3>2. Busy(w) /\ Before(l, n, k)
      BY <1>0, <2>0, <3>1, JobFacts DEF LoopInv
    <3> QED BY <1>0, <2>0, <3>1, <3>2, LoopStays
  <2>4. CASE Upsert(w)
    <3>1. Goes(w, "running") /\ queue' = queue /\ job[w].pc = "read"
      BY <1>0, <2>4, UpsertEffect DEF Upsert
    <3>2. Busy(w)
      BY <1>0, <3>1, JobFacts
    <3>3. /\ During(l, job[w].node, job[w].k)'
          /\ (Rounds(l) # {} => Entered(l))' /\ (Entered(l) /\ Left(l) => Done(l))'
      BY <1>0, <2>4, LoopBegins
    <3> QED BY <1>0, <3>1, <3>2, <3>3, LoopGoes
  <2>5. CASE Produces(w)
    <3>1. PICK status \in NodeStatuses, next \in SUBSET Ids :
            /\ job[w].pc = "running" /\ Finish(w, status, next)
            /\ Config[job[w].node].kind = "LOOP" => Chooses(job[w].node, job[w].k, next)
      BY <2>5 DEF Produces
    <3>2. Goes(w, "save") /\ next = job'[w].next
      BY <1>0, <3>1, FinishEffect
    <3>3. UNCHANGED <<queue, attempts>>
      BY <3>1 DEF Finish
    <3>4. Busy(w) /\ During(l, n, k) /\ n \in Nodes /\ k \in Indexes /\ attempts[<<n, k>>] > 0
      BY <1>0, <2>0, <3>1, JobFacts, HereRow DEF LoopInv, Steps, Begun, Executing, Here
    <3>5. n = l => AtLoop(l, k) /\ Entered(l) /\ Chooses(l, k, next)
      BY <2>0, <3>1, <3>4 DEF During, Entered, OfKind
    <3>6. n = l => (next = Config[l].body /\ Begins(l, k)) \/ (next = ExitsOf(l) /\ Done(l))
      BY <1>0, <3>4, <3>5, LoopChooses
    <3>7. After(l, n, k, next)
      BY <3>4, <3>6 DEF During, After
    <3> QED BY <1>0, <2>0, <3>2, <3>3, <3>4, <3>7, LoopStays
  <2>6. CASE Raise(w)
    <3>1. Goes(w, "failing") /\ job[w].pc = "running" /\ UNCHANGED <<queue, attempts>>
      BY <1>0, <2>6, RaiseEffect DEF Raise
    <3>2. Busy(w)
      BY <1>0, <3>1, JobFacts
    <3> QED BY <1>0, <2>0, <3>1, <3>2, LoopStays
  <2>7. CASE SaveContext(w)
    <3>1. /\ job[w].pc = "save" /\ UNCHANGED <<queue, attempts>> /\ Keeps(w)
          /\ Goes(w, IF job[w].status = "FAILURE" THEN "failing" ELSE "dispatch")
      BY <1>0, <2>7, SaveEffect DEF SaveContext
    <3>2. Busy(w) /\ After(l, n, k, job[w].next)
      BY <1>0, <2>0, <3>1, JobFacts DEF LoopInv
    <3>3. PICK next : next = job[w].next /\ next = job'[w].next
      BY <3>1 DEF Keeps
    <3> QED BY <1>0, <2>0, <3>1, <3>2, <3>3, LoopStays
  <2>8. CASE Rests(w)
    <3>1. /\ job[w].pc = "dispatch" /\ UNCHANGED <<queue, attempts>>
          /\ Goes(w, "failing") \/ Goes(w, "ending")
      BY <1>0, <2>8, RestsEffect
    <3>2. Busy(w)
      BY <1>0, <3>1, JobFacts
    <3> QED BY <1>0, <2>0, <3>1, <3>2, LoopStays
  <2>9. CASE Waits(w) \/ SetRun(w)
    <3>1. Busy(w) /\ Ends(w) /\ UNCHANGED <<queue, attempts>>
      BY <1>0, <2>9, WaitsEffect, SetRunEffect
    <3> DEFINE D == {}
    <3>2. D \in SUBSET Jobs /\ \A i : i \notin D
      OBVIOUS
    <3> HIDE DEF D
    <3> QED BY <1>0, <3>1, <3>2, LoopEnds
  <2>10. ASSUME NEW next \in SUBSET Ids, NEW m \in Indexes, Sends(w, next, m) PROVE LoopInv(l)'
    <3>1. /\ Busy(w) /\ Ends(w) /\ attempts' = attempts
          /\ \A x \in Ids, i \in Indexes :
               /\ x \in next /\ i = m => queue'[<<x, i>>] = queue[<<x, i>>] + 1
               /\ ~(x \in next /\ i = m) => queue'[<<x, i>>] = queue[<<x, i>>]
      BY <1>0, <2>10, SendsEffect
    <3>2. \A x \in next \cap Nodes : Before(l, x, m)
      BY <1>0, <2>10, SentBefore
    <3> DEFINE D == next \X {m}
    <3>3. /\ D \in SUBSET Jobs
          /\ \A x, i : <<x, i>> \in D <=> x \in next /\ i = m
      BY DEF Jobs
    <3> HIDE DEF D
    <3>4. \A i \in Jobs : queue'[i] = IF i \in D THEN queue[i] + 1 ELSE queue[i]
      BY <3>1, <3>3 DEF Jobs
    <3>5. \A x \in Nodes, i \in Indexes : <<x, i>> \in D => Before(l, x, i)
      BY <3>2, <3>3
    <3> QED BY <1>0, <3>1, <3>3, <3>4, <3>5, LoopEnds
  <2>11. ASSUME NEW sent \in Partial(w), Redeliver(w, sent) PROVE FALSE
    BY <1>0, <2>11, RedeliverEffect DEF TypeOK
  <2> QED BY <1>3, <2>1, <2>2, <2>3, <2>4, <2>5, <2>6, <2>7, <2>8, <2>9, <2>10, <2>11 DEF WorkerCase
<1>4. ASSUME NEW c \in Callers, CallbackCase(c) PROVE FALSE
  BY <1>0, <1>4, NoCallbacks
<1> QED BY <1>0, <1>1, <1>2, <1>3, <1>4, StepCases

LoopsInv(F) == FirstRound(F) /\ \A l \in OfKind("LOOP") : Fixed(l) => LoopInv(l)

LEMMA LoopsInvariance ==
  ASSUME NEW rank, Sequential(rank), NEW F, PlainLoops(F)
  PROVE  Spec => [](IInv /\ (faults = 0 => SeqInv(rank) /\ LoopsInv(F)))
<1>1. Init => LoopsInv(F)
  <2> SUFFICES ASSUME Init PROVE LoopsInv(F)
    OBVIOUS
  <2>1. /\ \A i \in Jobs : queue[i] = 0
        /\ \A w \in Workers : ~Busy(w) /\ job[w].pc = "idle"
        /\ \A i \in Nodes \X Indexes : attempts[i] = 0
    BY DEF Init, Busy, Idle
  <2>2. \A n \in Nodes, k \in Indexes : queue[<<n, k>>] = 0 /\ attempts[<<n, k>>] = 0
    BY <2>1, NodeFacts DEF Jobs
  <2>3. FirstRound(F)
    BY <2>1, <2>2, NodeFacts DEF FirstRound, AtWork, At, PlainLoops
  <2>4. ASSUME NEW l \in OfKind("LOOP") PROVE LoopInv(l)
    <3>1. \A n \in Nodes, k \in Indexes : ~(attempts[<<n, k>>] > 0)
      <4> TAKE n \in Nodes, k \in Indexes
      <4>1. attempts[<<n, k>>] = 0
        BY <2>2
      <4> QED BY <4>1
    <3>2. Rounds(l) = {} /\ ~Entered(l)
      BY <3>1 DEF Rounds, Entered, OfKind
    <3> QED BY <2>1, <2>2, <3>2 DEF LoopInv
  <2> QED BY <2>3, <2>4 DEF LoopsInv
<1>2. IInv /\ (faults = 0 => SeqInv(rank) /\ LoopsInv(F)) /\ [Next]_vars => (faults = 0 => LoopsInv(F))'
  <2> SUFFICES ASSUME IInv, faults = 0 => SeqInv(rank) /\ LoopsInv(F), [Next]_vars, faults' = 0
               PROVE  LoopsInv(F)'
    OBVIOUS
  <2>1. SeqInv(rank) /\ LoopsInv(F)
    BY FaultsStay DEF IInv
  <2>2. FirstRound(F)'
    BY <2>1, FirstRoundStep DEF LoopsInv
  <2>3. ASSUME NEW l \in OfKind("LOOP"), Fixed(l) PROVE LoopInv(l)'
    BY <2>1, <2>3, LoopStep DEF LoopsInv
  <2> QED BY <2>2, <2>3 DEF LoopsInv
<1>3. Spec => [](IInv /\ (faults = 0 => SeqInv(rank)))
  BY SeqInvariance
<1> QED BY <1>1, <1>2, <1>3, PTL DEF Spec

\* In a graph in which one node is executed after the other and no loop leads into a loop, a
\* loop with a fixed condition that has been left has run the rounds that its condition and its
\* cap say, neither one more nor one less, until a worker dies (LoopNodeHandler with its
\* guard of the boundary round, loop re-entry of a tail).
THEOREM RoundsInPlan ==
  ASSUME NEW rank, Sequential(rank), NEW F, PlainLoops(F)
  PROVE  Spec => [](faults = 0 => LoopRunsAsPlanned)
<1>1. LoopsInv(F) => LoopRunsAsPlanned
  BY DEF LoopsInv, LoopInv, LoopRunsAsPlanned, Fixed, Entered, Left, Done
<1>2. Spec => [](faults = 0 => LoopsInv(F))
  BY LoopsInvariance, PTL
<1> QED BY <1>1, <1>2, PTL
=============================================================================
