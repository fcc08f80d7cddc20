---------------------------- MODULE AtomicGraph ----------------------------
(***************************************************************************)
(* What a static-graph program promises: every node function of the graph  *)
(* happens in one indivisible step, once per submission and only after the *)
(* nodes it depends on, and the program reports the memory that the whole  *)
(* graph leaves behind.  SGraphTask and ParallelFors, where a function     *)
(* takes its operands at one moment and stores its results at a later one, *)
(* are shown to implement this.                                            *)
(***************************************************************************)
EXTENDS Integers

CONSTANTS
  Node,       \* the nodes of the graph
  Dep,        \* pairs <<a, b>>: b starts after a
  Cell,       \* the memory cells the node functions share
  Reads,      \* node -> the cells its function takes operands from
  Writes,     \* node -> the cells its function stores to
  Eval(_, _), \* node, operands -> what the function stores
  InitMem,    \* the memory before the first submission
  Loop        \* how many times the program submits the graph

VARIABLES
  mem,        \* the shared memory
  done,       \* the nodes that ran since the last submission
  round,      \* the submission under way, counted from 1
  report      \* what the program reports, NoReport before

vars == <<mem, done, round, report>>

NoReport == [reported |-> FALSE]
Report(m) == [reported |-> TRUE, memory |-> m]

Operands(n, m) == [c \in Reads[n] |-> m[c]]

Store(n, in, m) ==
  [c \in Cell |-> IF c \in Writes[n] THEN Eval(n, in)[c] ELSE m[c]]

Predecessors(n) == {a \in Node : <<a, n>> \in Dep}

Init ==
  /\ mem = InitMem
  /\ done = {}
  /\ round = 1
  /\ report = NoReport

Run(n) ==
  /\ n \notin done
  /\ Predecessors(n) \subseteq done
  /\ mem' = Store(n, Operands(n, mem), mem)
  /\ done' = done \cup {n}
  /\ UNCHANGED <<round, report>>

NextRound ==
  /\ done = Node
  /\ round < Loop
  /\ round' = round + 1
  /\ done' = {}
  /\ UNCHANGED <<mem, report>>

Finish ==
  /\ done = Node
  /\ round = Loop
  /\ report = NoReport
  /\ report' = Report(mem)
  /\ UNCHANGED <<mem, done, round>>

Next == (\E n \in Node : Run(n)) \/ NextRound \/ Finish

Spec == Init /\ [][Next]_vars
=============================================================================
