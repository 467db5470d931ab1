--------------------------- MODULE MCWorkflowRun ---------------------------
(***************************************************************************)
(* Small workflow definitions for TLC.  Each graph has the shape that one  *)
(* part of the engine is about; a .cfg picks one of them as Config.        *)
(***************************************************************************)
EXTENDS WorkflowRun, TLC

CONSTANTS w1, w2, c1, c2

ActionNode(next) == [kind |-> "ACTION", next |-> next, async |-> FALSE]
AsyncNode(next) == [kind |-> "ACTION", next |-> next, async |-> TRUE]
LogicNode(yes, no) == [kind |-> "LOGIC", next |-> {}, yes |-> yes, no |-> no]
ForkNode(branches) == [kind |-> "FORK", next |-> {}, branches |-> branches]
JoinNode(mode, next) == [kind |-> "JOIN", next |-> next, mode |-> mode]
LoopNode(body, exit, max, met) ==
  [kind |-> "LOOP", next |-> {}, body |-> body, exit |-> exit, max |-> max, met |-> met]
EndNode(ok) == [kind |-> "END", next |-> {}, ok |-> ok]

Never == [k \in 0..MaxIndex |-> {FALSE}]
From(first) == [k \in 0..MaxIndex |-> {k >= first}]

\* The edges the editor draws: one for every reference from one node to another.
Drawn(cfg) ==
  [n \in DOMAIN cfg |->
     cfg[n].next \cup
       CASE cfg[n].kind = "LOGIC" -> cfg[n].yes \cup cfg[n].no
         [] cfg[n].kind = "FORK"  -> cfg[n].branches
         [] cfg[n].kind = "LOOP"  -> cfg[n].body \cup cfg[n].exit
         [] OTHER -> {}]

\* START -> (a, b) -> join -> end
JoinAll ==
  "a" :> ActionNode({"join"}) @@ "b" :> ActionNode({"join"})
    @@ "join" :> JoinNode("ALL", {"end"}) @@ "end" :> EndNode(TRUE)

\* Parallel branches: into a JOIN of mode ANY that ends nowhere, to an END that
\* fails, over an async ACTION to an END that succeeds, to an async ACTION that ends
\* nowhere, and to an id that does not exist.
Branches ==
  "fork" :> ForkNode({"a", "if"}) @@ "a" :> ActionNode({"any"}) @@ "any" :> JoinNode("ANY", {})
    @@ "if" :> LogicNode({"stop", "b"}, {"else"}) @@ "stop" :> EndNode(FALSE)
    @@ "else" :> LogicNode({"call"}, {"leaf", "gone"})
    @@ "call" :> AsyncNode({"end"}) @@ "end" :> EndNode(TRUE)
    @@ "b" :> ActionNode({"any"}) @@ "leaf" :> AsyncNode({})

\* Three loops to choose from.  Their conditions hold never, in the last round, and
\* from the second round on; the first two have a body of two nodes whose tail omits
\* the back edge.
Loops ==
  "if" :> LogicNode({"never"}, {"else"}) @@ "else" :> LogicNode({"last"}, {"early"})
    @@ "never" :> LoopNode({"n1"}, {"end"}, 3, Never)
    @@ "n1" :> ActionNode({"n2"}) @@ "n2" :> ActionNode({})
    @@ "last" :> LoopNode({"l1"}, {"end"}, 3, From(3))
    @@ "l1" :> ActionNode({"l2"}) @@ "l2" :> ActionNode({})
    @@ "early" :> LoopNode({"e1"}, {"end"}, 3, From(2)) @@ "e1" :> ActionNode({})
    @@ "end" :> EndNode(TRUE)

MCIds == DOMAIN Config \cup {"gone"}
MCEdges == Drawn(Config)
\* Workers and callers have no names in the code.
Symmetry == Permutations({w1, w2}) \cup Permutations({c1, c2})

FirstBranches == {"a", "b"}
FirstFork == {"fork"}
FirstIf == {"if"}
=============================================================================
