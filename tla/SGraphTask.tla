---------------------------- MODULE SGraphTask -----------------------------
(***************************************************************************)
(* A main thread that builds a KUPL static graph (kupl_sgraph_add_node,    *)
(* kupl_sgraph_add_dep), submits it as a task of a dynamic graph, waits in *)
(* kupl_graph_wait, destroys both and, after Loop submissions, reports     *)
(* what the graph computed; and the executor threads that run its nodes.   *)
(* This is the shape of kupl/mt/graph, kupl/mt/graph_lambda,               *)
(* kupl/general/mt_gemm_fp64 and the graph version of                      *)
(* kupl/general/local_dependency.  The graph itself, the cells its         *)
(* functions touch and what they compute are parameters.                   *)
(*                                                                         *)
(* KUPL is external: of its scheduler the programs rely on a node being    *)
(* run once per submission, after its predecessors, on at most Workers     *)
(* cores at a time, and on kupl_graph_wait covering every node.  A node    *)
(* function is not atomic: Start takes its operands, End stores its        *)
(* results, and other nodes may run in between.                            *)
(***************************************************************************)
EXTENDS Integers, FiniteSets

CONSTANTS
  Node, Dep, Cell, Reads, Writes, Eval(_, _), InitMem, Loop,
  Workers,    \* executors, one per core of the taskset
  Before      \* pairs <<a, b>> of nodes that the dependencies put in order

ASSUME GraphAssumption ==
  /\ Dep \subseteq Node \X Node
  /\ Reads \in [Node -> SUBSET Cell]
  /\ Writes \in [Node -> SUBSET Cell]
  /\ DOMAIN InitMem = Cell
  /\ Loop \in Nat \ {0}
  /\ Workers \in Nat \ {0}

VARIABLES
  pc,         \* the main thread: "build", "wait", "returned" or "destroyed"
  status,     \* node -> "waiting", "running" or "done"
  operands,   \* node -> what its function read when it started
  mem, round, report

vars == <<pc, status, operands, mem, round, report>>

NoReport == [reported |-> FALSE]
Report(m) == [reported |-> TRUE, memory |-> m]

InState(s) == {n \in Node : status[n] = s}

Atomic == INSTANCE AtomicGraph WITH done <- InState("done")

Init ==
  /\ pc = "build"
  /\ status = [n \in Node |-> "waiting"]
  /\ operands = [n \in Node |-> <<>>]
  /\ mem = InitMem
  /\ round = 1
  /\ report = NoReport

-----------------------------------------------------------------------------
(* The main thread.                                                        *)

Submit ==
  /\ pc = "build"
  /\ pc' = "wait"
  /\ UNCHANGED <<status, operands, mem, round, report>>

\* Mutant: main does not call kupl_graph_wait.
WaitReturnsAtOnce ==
  /\ pc = "wait"
  /\ pc' = "returned"
  /\ UNCHANGED <<status, operands, mem, round, report>>

WaitReturns ==
  /\ pc = "wait"
  /\ InState("done") = Node
  /\ pc' = "returned"
  /\ UNCHANGED <<status, operands, mem, round, report>>

(* The dynamic and the static graph go, and with the return of the         *)
(* function the args arrays that lived on its stack.                       *)
Destroy ==
  /\ pc = "returned"
  /\ pc' = "destroyed"
  /\ UNCHANGED <<status, operands, mem, round, report>>

\* Mutant: the loop over test() has no end.
NextTestForEver ==
  /\ pc = "destroyed"
  /\ round' = round + 1
  /\ pc' = "build"
  /\ status' = [n \in Node |-> "waiting"]
  /\ UNCHANGED <<operands, mem, report>>

NextTest ==
  /\ pc = "destroyed"
  /\ round < Loop
  /\ round' = round + 1
  /\ pc' = "build"
  /\ status' = [n \in Node |-> "waiting"]
  /\ UNCHANGED <<operands, mem, report>>

(* Some programs print before they destroy the graph, the others after.    *)
ReportResult ==
  /\ pc \in {"returned", "destroyed"}
  /\ round = Loop
  /\ report = NoReport
  /\ report' = Report(mem)
  /\ UNCHANGED <<pc, status, operands, mem, round>>

-----------------------------------------------------------------------------
(* The executors.                                                          *)

Submitted == pc \in {"wait", "returned"}

Ready(n) == \A a \in Node : <<a, n>> \in Dep => status[a] = "done"

Start(n) ==
  /\ Submitted
  /\ status[n] = "waiting"
  /\ Ready(n)
  /\ Cardinality(InState("running")) < Workers
  /\ status' = [status EXCEPT ![n] = "running"]
  /\ operands' = [operands EXCEPT ![n] = Atomic!Operands(n, mem)]
  /\ UNCHANGED <<pc, mem, round, report>>

End(n) ==
  /\ status[n] = "running"
  /\ mem' = Atomic!Store(n, operands[n], mem)
  /\ status' = [status EXCEPT ![n] = "done"]
  /\ UNCHANGED <<pc, operands, round, report>>

-----------------------------------------------------------------------------
Main == Submit \/ WaitReturns \/ Destroy \/ NextTest \/ ReportResult

Next == Main \/ \E n \in Node : Start(n) \/ End(n)

(* The main thread is never blocked for ever by anything but its own wait, *)
(* an idle executor takes a ready node, and node functions return.         *)
Fairness ==
  /\ WF_vars(Main)
  /\ WF_vars(\E n \in Node : Start(n))
  /\ \A n \in Node : WF_vars(End(n))

Spec == Init /\ [][Next]_vars
FairSpec == Spec /\ Fairness

-----------------------------------------------------------------------------
TypeOK ==
  /\ pc \in {"build", "wait", "returned", "destroyed"}
  /\ status \in [Node -> {"waiting", "running", "done"}]
  /\ operands = [n \in Node |-> operands[n]]
  /\ DOMAIN mem = Cell
  /\ round \in 1 .. Loop
  /\ report # NoReport => round = Loop

Conflict(a, b) ==
  /\ a # b
  /\ \/ Writes[a] \cap (Reads[b] \cup Writes[b]) # {}
     \/ Writes[b] \cap Reads[a] # {}

(* What the graph has to provide for the properties below: Before is made  *)
(* of dependencies, and it orders every two conflicting nodes.             *)
BeforeFromDeps ==
  \A p \in Before :
    /\ p \in Node \X Node
    /\ \/ p \in Dep
       \/ \E c \in Node : <<c, p[2]>> \in Dep /\ <<p[1], c>> \in Before

ConflictsOrdered ==
  \A a, b \in Node : Conflict(a, b) => <<a, b>> \in Before \/ <<b, a>> \in Before

(* No two node functions that touch a common cell, one of them writing it, *)
(* are ever between start and end at the same time.                        *)
RaceFree ==
  \A a, b \in InState("running") : ~Conflict(a, b)

(* A node has not started before the nodes the program wants ahead of it   *)
(* have ended, those it depends on only through others included.           *)
OrderKept ==
  \A p \in Before : status[p[2]] # "waiting" => status[p[1]] = "done"

(* A node has not started before the nodes it directly depends on have     *)
(* ended.                                                                  *)
DepsKept ==
  \A p \in Dep : status[p[2]] # "waiting" => status[p[1]] = "done"

(* While a node function is between start and end the main thread is still *)
(* in kupl_graph_wait: the graphs exist, and so do the args on the stack.  *)
ArgsOutliveTasks ==
  InState("running") # {} => pc = "wait"

(* A node function stores results of operands that are still current.      *)
OperandsCurrent ==
  \A n \in InState("running") : operands[n] = Atomic!Operands(n, mem)

(* While main is in kupl_graph_wait a node runs or an idle executor has a  *)
(* node that is ready, until all nodes have ended.                         *)
NoDeadlock ==
  pc = "wait" =>
    \/ InState("done") = Node
    \/ InState("running") # {}
    \/ \E n \in InState("waiting") : Ready(n) /\ Cardinality(InState("running")) < Workers

(* Where the main thread is says how far the nodes are.                    *)
MainFollowsNodes ==
  /\ pc = "build" => InState("waiting") = Node
  /\ pc \in {"returned", "destroyed"} => InState("done") = Node

(* The inductive invariant behind the properties above.                    *)
Inductive == TypeOK /\ MainFollowsNodes /\ OrderKept /\ DepsKept /\ OperandsCurrent

(* The graph implements the indivisible graph of AtomicGraph.              *)
ImplementsAtomic == Atomic!Spec

(* The program comes to its end: kupl_graph_wait always returns.           *)
Terminates == <>(report # NoReport /\ pc = "destroyed")
=============================================================================
