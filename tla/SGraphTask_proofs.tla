------------------------- MODULE SGraphTask_proofs -------------------------
(***************************************************************************)
(* For every graph: that the nodes start in the order the dependencies     *)
(* give; and for every graph whose conflicting nodes are ordered, that no  *)
(* two node functions race and that the program implements AtomicGraph.    *)
(* Then the programs that submit a static graph: mt/graph and              *)
(* mt/graph_lambda (ExprProgram), mt_gemm_fp64 (GemmProgram) and the graph *)
(* version of local_dependency (LDProgram).  For every size and every      *)
(* number of executors: that their dependencies order every two nodes that *)
(* share memory, which is all the first part asks of a graph, and that     *)
(* they compute what they are to.                                          *)
(***************************************************************************)
EXTENDS ExprGraph, MCGemm, MCLocalDependency, FiniteSetTheorems, WellFoundedInduction, TLAPS

(* One step keeps every variable's type.                                   *)
LEMMA TypingStep == TypeOK /\ [Next]_vars => TypeOK'
<1> SUFFICES ASSUME TypeOK, [Next]_vars PROVE TypeOK'
  OBVIOUS
<1> USE GraphAssumption DEF TypeOK
<1>1. CASE Submit
  BY <1>1 DEF Submit
<1>2. CASE WaitReturns
  BY <1>2 DEF WaitReturns
<1>3. CASE Destroy
  BY <1>3 DEF Destroy
<1>4. CASE NextTest
  BY <1>4 DEF NextTest
<1>5. CASE ReportResult
  BY <1>5 DEF ReportResult
<1>6. ASSUME NEW n \in Node, Start(n) PROVE TypeOK'
  BY <1>6 DEF Start
<1>7. ASSUME NEW n \in Node, End(n) PROVE TypeOK'
  BY <1>7 DEF End, Atomic!Store
<1>8. CASE UNCHANGED vars
  BY <1>8 DEF vars
<1>9. QED
  BY <1>1, <1>2, <1>3, <1>4, <1>5, <1>6, <1>7, <1>8 DEF Next, Main

(* Every variable of the graph program keeps its type.                     *)
THEOREM Typing == Spec => []TypeOK
<1>1. Init => TypeOK
  BY GraphAssumption DEF Init, TypeOK, NoReport
<1>2. QED
  BY <1>1, TypingStep, PTL DEF Spec

-----------------------------------------------------------------------------
(* In a state of the invariant, two conflicting nodes do not both run: the *)
(* one that Before puts second has not started until the first has ended.  *)
LEMMA OrderExcludesRaces ==
  ASSUME ConflictsOrdered, TypeOK, OrderKept
  PROVE  RaceFree
BY DEF ConflictsOrdered, TypeOK, OrderKept, RaceFree, InState

(* Before the submission no node has started.                              *)
LEMMA InductiveInit == ASSUME BeforeFromDeps, Init PROVE Inductive
BY GraphAssumption DEF BeforeFromDeps, Init, Inductive, TypeOK, MainFollowsNodes, OrderKept, DepsKept,
   OperandsCurrent, InState, NoReport

(* A step keeps the invariant.  The two steps with something to show are   *)
(* Start, whose guard on the direct predecessors gives the order of all    *)
(* of Before, and End, which must leave the operands of running nodes      *)
(* alone.                                                                  *)
LEMMA InductiveStep ==
  ASSUME BeforeFromDeps, ConflictsOrdered, Inductive, [Next]_vars
  PROVE  Inductive'
<1> USE GraphAssumption
<1>t. TypeOK /\ TypeOK'
  BY TypingStep DEF Inductive
<1>1. CASE Submit
  BY <1>1, <1>t DEF Submit, Inductive, TypeOK, MainFollowsNodes, OrderKept, DepsKept,
     OperandsCurrent, InState, Atomic!Operands
<1>2. CASE WaitReturns
  BY <1>2, <1>t DEF WaitReturns, Inductive, TypeOK, MainFollowsNodes, OrderKept, DepsKept,
     OperandsCurrent, InState, Atomic!Operands
<1>3. CASE Destroy
  BY <1>3, <1>t DEF Destroy, Inductive, TypeOK, MainFollowsNodes, OrderKept, DepsKept,
     OperandsCurrent, InState, Atomic!Operands
<1>4. CASE NextTest
  BY <1>4, <1>t DEF NextTest, Inductive, TypeOK, MainFollowsNodes, OrderKept, DepsKept,
     OperandsCurrent, InState, BeforeFromDeps
<1>5. CASE ReportResult
  BY <1>5, <1>t DEF ReportResult, Inductive, TypeOK, MainFollowsNodes, OrderKept, DepsKept,
     OperandsCurrent, InState, Atomic!Operands
<1>6. ASSUME NEW n \in Node, Start(n) PROVE Inductive'
  <2>1. /\ status[n] = "waiting"
        /\ status' = [status EXCEPT ![n] = "running"]
        /\ operands' = [operands EXCEPT ![n] = Atomic!Operands(n, mem)]
        /\ UNCHANGED <<pc, mem>>
        /\ pc \in {"wait", "returned"}
    BY <1>6 DEF Start, Submitted
  <2>2. MainFollowsNodes'
    BY <2>1, <1>t DEF Inductive, MainFollowsNodes, InState, TypeOK
  <2>3. DepsKept'
    BY <1>6, <2>1, <1>t DEF Inductive, DepsKept, TypeOK, Start, Ready
  <2>4. OrderKept'
    <3> SUFFICES ASSUME NEW p \in Before, status'[p[2]] # "waiting"
                 PROVE  status'[p[1]] = "done"
      BY DEF OrderKept
    <3>1. CASE p[2] # n
      BY <3>1, <2>1, <1>t DEF Inductive, OrderKept, TypeOK, BeforeFromDeps
    <3>2. CASE p[2] = n /\ p \in Dep
      BY <3>2, <2>1, <2>3, <1>t DEF TypeOK, DepsKept
    <3>3. CASE p[2] = n /\ p \notin Dep
      <4>1. PICK c \in Node : <<c, n>> \in Dep /\ <<p[1], c>> \in Before
        BY <3>3 DEF BeforeFromDeps
      <4>2. status[c] = "done"
        BY <1>6, <4>1 DEF Start, Ready
      <4>3. status[p[1]] = "done"
        BY <4>1, <4>2 DEF Inductive, OrderKept
      <4>4. QED
        BY <4>3, <2>1, <1>t DEF TypeOK, BeforeFromDeps
    <3>4. QED
      BY <3>1, <3>2, <3>3
  <2>5. OperandsCurrent'
    BY <2>1, <1>t DEF Inductive, OperandsCurrent, InState, TypeOK, Atomic!Operands
  <2>6. QED
    BY <2>2, <2>3, <2>4, <2>5, <1>t DEF Inductive
<1>7. ASSUME NEW n \in Node, End(n) PROVE Inductive'
  <2>1. /\ status[n] = "running"
        /\ status' = [status EXCEPT ![n] = "done"]
        /\ mem' = Atomic!Store(n, operands[n], mem)
        /\ UNCHANGED <<pc, operands>>
    BY <1>7 DEF End
  <2>2. MainFollowsNodes'
    BY <2>1, <1>t DEF Inductive, MainFollowsNodes, InState, TypeOK
  <2>3. DepsKept' /\ OrderKept'
    BY <2>1, <1>t DEF Inductive, DepsKept, OrderKept, TypeOK, BeforeFromDeps
  <2>4. OperandsCurrent'
    <3> SUFFICES ASSUME NEW m \in Node, status'[m] = "running"
                 PROVE  operands'[m] = Atomic!Operands(m, mem)'
      BY DEF OperandsCurrent, InState
    <3>1. m # n /\ status[m] = "running"
      BY <2>1, <1>t DEF TypeOK
    <3>2. RaceFree
      BY <1>t, OrderExcludesRaces DEF Inductive
    <3>3. Writes[n] \cap Reads[m] = {}
      BY <3>1, <3>2, <2>1 DEF RaceFree, Conflict, InState
    <3>4. \A c \in Reads[m] : mem'[c] = mem[c]
      BY <3>3, <2>1 DEF Atomic!Store
    <3>5. Atomic!Operands(m, mem)' = Atomic!Operands(m, mem)
      BY <3>4 DEF Atomic!Operands
    <3>6. operands[m] = Atomic!Operands(m, mem)
      BY <3>1 DEF Inductive, OperandsCurrent, InState
    <3>7. QED
      BY <3>5, <3>6, <2>1
  <2>5. QED
    BY <2>2, <2>3, <2>4, <1>t DEF Inductive
<1>8. CASE UNCHANGED vars
  BY <1>8, <1>t DEF vars, Inductive, TypeOK, MainFollowsNodes, OrderKept, DepsKept,
     OperandsCurrent, InState, Atomic!Operands
<1>9. QED
  BY <1>1, <1>2, <1>3, <1>4, <1>5, <1>6, <1>7, <1>8 DEF Next, Main

-----------------------------------------------------------------------------
(* In every graph whose conflicting nodes are ordered by dependencies,     *)
(* nodes keep that order, work on current operands and end before          *)
(* kupl_graph_wait.                                                        *)
THEOREM Invariance ==
  ASSUME BeforeFromDeps, ConflictsOrdered
  PROVE  Spec => []Inductive
<1>1. Init => Inductive
  BY InductiveInit
<1>2. Inductive /\ [Next]_vars => Inductive'
  BY InductiveStep
<1>3. QED
  BY <1>1, <1>2, PTL DEF Spec

(* No two node functions that touch a common cell, one of them writing it, *)
(* run at the same time, whatever the graph, the number of its nodes and   *)
(* of executors, as long as the order the dependencies generate covers     *)
(* every conflict.                                                         *)
THEOREM NoRaces ==
  ASSUME BeforeFromDeps, ConflictsOrdered
  PROVE  Spec => []RaceFree
<1>1. Inductive => RaceFree
  BY OrderExcludesRaces DEF Inductive
<1>2. QED
  BY <1>1, Invariance, PTL

(* Nodes are ordered by their direct and by their indirect dependencies.   *)
THEOREM Order ==
  ASSUME BeforeFromDeps, ConflictsOrdered
  PROVE  Spec => []OrderKept
BY Invariance, PTL DEF Inductive

(* A node function never stores results of operands that another one has   *)
(* changed since they were taken.                                          *)
THEOREM OperandsStayCurrent ==
  ASSUME BeforeFromDeps, ConflictsOrdered
  PROVE  Spec => []OperandsCurrent
BY Invariance, PTL DEF Inductive

(* No node function runs once the args on the stack of the function that   *)
(* submitted the graph are gone.                                           *)
THEOREM ArgsLive ==
  ASSUME BeforeFromDeps, ConflictsOrdered
  PROVE  Spec => []ArgsOutliveTasks
<1>1. Inductive => ArgsOutliveTasks
  BY DEF Inductive, TypeOK, MainFollowsNodes, ArgsOutliveTasks, InState
<1>2. QED
  BY <1>1, Invariance, PTL

-----------------------------------------------------------------------------
(* Every step of the graph program is a step of the indivisible graph, or  *)
(* one that the indivisible graph does not see.                            *)
LEMMA StepSimulation ==
  ASSUME Inductive, Inductive', [Next]_vars
  PROVE  [Atomic!Next]_(Atomic!vars)
<1> USE GraphAssumption DEF Inductive, TypeOK
<1>1. CASE Submit
  BY <1>1 DEF Submit, Atomic!vars, InState
<1>2. CASE WaitReturns
  BY <1>2 DEF WaitReturns, Atomic!vars, InState
<1>3. CASE Destroy
  BY <1>3 DEF Destroy, Atomic!vars, InState
<1>4. CASE NextTest
  <2>1. Atomic!NextRound
    BY <1>4 DEF NextTest, Atomic!NextRound, MainFollowsNodes, InState
  <2>2. QED
    BY <2>1 DEF Atomic!Next
<1>5. CASE ReportResult
  <2>1. Atomic!Finish
    BY <1>5 DEF ReportResult, Atomic!Finish, MainFollowsNodes, InState, Report, Atomic!Report,
       NoReport, Atomic!NoReport
  <2>2. QED
    BY <2>1 DEF Atomic!Next
<1>6. ASSUME NEW n \in Node, Start(n) PROVE UNCHANGED Atomic!vars
  BY <1>6 DEF Start, Atomic!vars, InState
<1>7. ASSUME NEW n \in Node, End(n) PROVE Atomic!Run(n)
  <2>1. operands[n] = Atomic!Operands(n, mem)
    BY <1>7 DEF End, OperandsCurrent, InState
  <2>2. Atomic!Predecessors(n) \subseteq InState("done")
    BY <1>7 DEF End, DepsKept, Atomic!Predecessors, InState
  <2>3. InState("done")' = InState("done") \cup {n} /\ n \notin InState("done")
    BY <1>7 DEF End, InState
  <2>4. QED
    BY <1>7, <2>1, <2>2, <2>3 DEF End, Atomic!Run
<1>8. CASE UNCHANGED vars
  BY <1>8 DEF vars, Atomic!vars, InState
<1>9. QED
  BY <1>1, <1>2, <1>3, <1>4, <1>5, <1>6, <1>7, <1>8 DEF Next, Main, Atomic!Next

(* Although node functions overlap, the memory and the report are those of *)
(* a run in which each function happened at once, at the moment it ended.  *)
THEOREM Implementation ==
  ASSUME BeforeFromDeps, ConflictsOrdered
  PROVE  Spec => ImplementsAtomic
<1>1. Init => Atomic!Init
  BY DEF Init, Atomic!Init, InState, NoReport, Atomic!NoReport
<1>2. Inductive /\ Inductive' /\ [Next]_vars => [Atomic!Next]_(Atomic!vars)
  BY StepSimulation
<1>3. QED
  BY <1>1, <1>2, Invariance, PTL DEF Spec, ImplementsAtomic, Atomic!Spec

-----------------------------------------------------------------------------
(* Graphs without a cycle: their nodes have stages, and a dependency leads *)
(* to a later one.                                                         *)
Staged(stage) ==
  /\ stage \in [Node -> Nat]
  /\ \A d \in Dep : stage[d[1]] < stage[d[2]]

(* A set of numbers has a least one.                                       *)
LEMMA LeastOne ==
  ASSUME NEW S \in SUBSET Nat, S # {}
  PROVE  \E x \in S : \A y \in S : x <= y
<1>1. PICK x \in S : \A y \in S : <<y, x>> \notin OpToRel(<, Nat)
  BY NatLessThanWellFounded, WFMin, Zenon
<1>2. \A y \in S : ~(y < x)
  BY <1>1 DEF OpToRel
<1> QED
  BY <1>2

(* Of the nodes that wait one of the first stage is ready, unless a node   *)
(* it depends on runs.                                                     *)
LEMMA FirstIsReady ==
  ASSUME NEW stage, Staged(stage), TypeOK, InState("running") = {}, InState("waiting") # {}
  PROVE  \E n \in InState("waiting") : Ready(n)
<1> DEFINE S == {stage[n] : n \in InState("waiting")}
<1>1. PICK x \in S : \A y \in S : x <= y
  <2>1. S \in SUBSET Nat /\ S # {}
    BY DEF Staged, InState
  <2> QED
    BY <2>1, LeastOne
<1>2. PICK n \in InState("waiting") : stage[n] = x
  OBVIOUS
<1>3. ASSUME NEW a \in Node, <<a, n>> \in Dep PROVE status[a] = "done"
  <2>1. stage[a] < stage[n] /\ stage[a] \in Nat /\ stage[n] \in Nat
    BY <1>3 DEF Staged, InState
  <2>2. a \notin InState("waiting")
    BY <1>1, <1>2, <2>1
  <2> QED
    BY <2>2 DEF TypeOK, InState
<1> QED
  BY <1>3 DEF Ready

(* kupl_graph_wait waits for no node that the scheduler cannot come to, in *)
(* any graph without a cycle and with any number of executors but none.    *)
THEOREM NodesGoOn ==
  ASSUME NEW stage, Staged(stage)
  PROVE  Spec => []NoDeadlock
<1>1. TypeOK => NoDeadlock
  <2> SUFFICES ASSUME TypeOK, InState("running") = {}, InState("done") # Node
               PROVE  \E n \in InState("waiting") : Ready(n) /\ Cardinality(InState("running")) < Workers
    BY DEF NoDeadlock
  <2>1. InState("waiting") # {}
    BY DEF TypeOK, InState
  <2>2. Cardinality(InState("running")) = 0
    BY FS_EmptySet
  <2> QED
    BY <2>1, <2>2, FirstIsReady, GraphAssumption
<1> QED
  BY <1>1, Typing, PTL

-----------------------------------------------------------------------------
(* mt/graph and mt/graph_lambda.                                           *)

(* SGraphTask runs the main of mt/graph or graph_lambda.                   *)
ExprProgram ==
  /\ Node = ExprNode /\ Dep = ExprDep /\ Cell = ExprCell
  /\ Reads = ExprReads /\ Writes = ExprWrites /\ \A n, in : Eval(n, in) = ExprEval(n, in)
  /\ InitMem = ExprInitMem /\ Before = ExprDep /\ Loop = 1

(* The three nodes are three.                                              *)
LEMMA ExprNodesDiffer == Axb # Cxd /\ Axb # Fpg /\ Cxd # Fpg
BY DEF Axb, Cxd, Fpg

(* The order the properties speak of is that of the dependencies.          *)
LEMMA ExprBeforeFromDeps == ASSUME ExprProgram PROVE BeforeFromDeps
BY DEF ExprProgram, BeforeFromDeps, ExprDep, ExprNode

(* The nodes that share F or G are linked by a dependency.                 *)
LEMMA ExprConflictsOrdered == ASSUME ExprProgram PROVE ConflictsOrdered
<1> USE DEF ExprProgram
<1>1. /\ ExprReads[Axb] = {"A", "B"} /\ ExprReads[Cxd] = {"C", "D"} /\ ExprReads[Fpg] = {"F", "G"}
      /\ ExprWrites[Axb] = {"F"} /\ ExprWrites[Cxd] = {"G"} /\ ExprWrites[Fpg] = {"E"}
  BY ExprNodesDiffer DEF ExprReads, ExprWrites, ExprNode
<1> QED
  BY <1>1 DEF ConflictsOrdered, Conflict, ExprNode, ExprDep

-----------------------------------------------------------------------------
(* What the nodes that have ended have stored.                             *)
ExprComputed ==
  /\ mem["A"] = 1 /\ mem["B"] = 2 /\ mem["C"] = 3 /\ mem["D"] = 4
  /\ status[Axb] = "done" => mem["F"] = 2
  /\ status[Cxd] = "done" => mem["G"] = 12
  /\ status[Fpg] = "done" => mem["E"] = 14

(* main prints 14.                                                         *)
PrintedRight == report # NoReport => report.memory["E"] = 14

(* Before the submission nothing has been computed or printed.             *)
LEMMA ExprComputedInit == ASSUME ExprProgram, Init PROVE ExprComputed /\ PrintedRight
<1> USE DEF ExprProgram
<1>1. mem = ExprInitMem /\ \A x \in ExprNode : status[x] = "waiting"
  BY DEF Init
<1>2. report = NoReport
  BY DEF Init
<1> QED
  BY <1>1, <1>2 DEF ExprComputed, PrintedRight, ExprInitMem, ExprNode

(* A node stores the right value, as its operands are current, and no      *)
(* other node overwrites it.                                               *)
LEMMA ExprComputedStep ==
  ASSUME ExprProgram, Inductive, ExprComputed, PrintedRight, [Next]_vars
  PROVE  ExprComputed' /\ PrintedRight'
<1> USE DEF ExprProgram
<1> USE DEF Inductive, TypeOK
<1>1. ASSUME NEW x \in ExprNode, Start(x) PROVE ExprComputed' /\ PrintedRight'
  BY <1>1 DEF Start, ExprComputed, PrintedRight, ExprNode
<1>2. ASSUME NEW x \in ExprNode, End(x) PROVE ExprComputed' /\ PrintedRight'
  <2>1. /\ status[x] = "running"
        /\ status' = [status EXCEPT ![x] = "done"]
        /\ mem' = Atomic!Store(x, operands[x], mem)
        /\ report' = report
    BY <1>2 DEF End
  <2>2. operands[x] = Atomic!Operands(x, mem)
    BY <2>1 DEF OperandsCurrent, InState
  <2>3. \A c \in ExprCell :
          mem'[c] = IF c \in ExprWrites[x] THEN ExprEval(x, operands[x])[c] ELSE mem[c]
    BY <2>1 DEF Atomic!Store
  <2>4. ExprComputed'
    <3>1. CASE x = Axb
      <4>1. ExprWrites[x] = {"F"} /\ ExprReads[x] = {"A", "B"}
        BY <3>1, ExprNodesDiffer DEF ExprWrites, ExprReads, ExprNode
      <4>2. operands[x].A = 1 /\ operands[x].B = 2
        BY <2>2, <4>1 DEF Atomic!Operands, ExprComputed
      <4>3. ExprEval(x, operands[x])["F"] = 2
        BY <3>1, <4>2, ExprNodesDiffer DEF ExprEval
      <4> QED
        BY <2>1, <2>3, <3>1, <4>1, <4>3, ExprNodesDiffer DEF ExprComputed, ExprNode, ExprCell
    <3>2. CASE x = Cxd
      <4>1. ExprWrites[x] = {"G"} /\ ExprReads[x] = {"C", "D"}
        BY <3>2, ExprNodesDiffer DEF ExprWrites, ExprReads, ExprNode
      <4>2. operands[x].C = 3 /\ operands[x].D = 4
        BY <2>2, <4>1 DEF Atomic!Operands, ExprComputed
      <4>3. ExprEval(x, operands[x])["G"] = 12
        BY <3>2, <4>2, ExprNodesDiffer DEF ExprEval
      <4> QED
        BY <2>1, <2>3, <3>2, <4>1, <4>3, ExprNodesDiffer DEF ExprComputed, ExprNode, ExprCell
    <3>3. CASE x = Fpg
      <4>1. ExprWrites[x] = {"E"} /\ ExprReads[x] = {"F", "G"}
        BY <3>3, ExprNodesDiffer DEF ExprWrites, ExprReads, ExprNode
      <4>2. status[Axb] = "done" /\ status[Cxd] = "done"
        BY <2>1, <3>3 DEF DepsKept, ExprDep
      <4>3. operands[x].F = 2 /\ operands[x].G = 12
        BY <2>2, <4>1, <4>2 DEF Atomic!Operands, ExprComputed
      <4>4. ExprEval(x, operands[x])["E"] = 14
        BY <3>3, <4>3, ExprNodesDiffer DEF ExprEval
      <4> QED
        BY <2>1, <2>3, <3>3, <4>1, <4>4, ExprNodesDiffer DEF ExprComputed, ExprNode, ExprCell
    <3> QED
      BY <3>1, <3>2, <3>3 DEF ExprNode
  <2> QED
    BY <2>1, <2>4 DEF PrintedRight
<1>3. CASE Main
  <2>1. CASE Submit \/ WaitReturns \/ Destroy
    BY <2>1 DEF Submit, WaitReturns, Destroy, ExprComputed, PrintedRight
  <2>2. CASE NextTest
    BY <2>2 DEF NextTest
  <2>3. CASE ReportResult
    <3>1. status[Fpg] = "done"
      BY <2>3 DEF ReportResult, MainFollowsNodes, InState, ExprNode
    <3> QED
      BY <2>3, <3>1 DEF ReportResult, Report, ExprComputed, PrintedRight
  <2> QED
    BY <1>3, <2>1, <2>2, <2>3 DEF Main
<1>4. CASE UNCHANGED vars
  BY <1>4 DEF vars, ExprComputed, PrintedRight
<1> QED
  BY <1>1, <1>2, <1>3, <1>4 DEF Next

-----------------------------------------------------------------------------
(* F and G are never written while fun_fpg reads them.                     *)
THEOREM ExprNoRaces ==
  ASSUME ExprProgram PROVE Spec => []RaceFree
BY ExprBeforeFromDeps, ExprConflictsOrdered, NoRaces

(* main prints 14, the value of A * B + C * D, however the nodes are       *)
(* scheduled.                                                              *)
THEOREM ExprPrintsFourteen ==
  ASSUME ExprProgram PROVE Spec => []PrintedRight
<1>1. Init => ExprComputed /\ PrintedRight
  BY ExprComputedInit
<1>2. Inductive /\ ExprComputed /\ PrintedRight /\ [Next]_vars
        => ExprComputed' /\ PrintedRight'
  BY ExprComputedStep
<1>3. Spec => []Inductive
  BY ExprBeforeFromDeps, ExprConflictsOrdered, Invariance
<1> QED
  BY <1>1, <1>2, <1>3, PTL DEF Spec

-----------------------------------------------------------------------------
(* mt_gemm_fp64.                                                           *)

(* SGraphTask runs gemm_kupl_way.                                          *)
GemmProgram ==
  /\ Node = GemmNode /\ Dep = GemmDep /\ Cell = GemmCell
  /\ Reads = GemmReads /\ Writes = GemmWrites /\ \A n, in : Eval(n, in) = GemmEval(n, in)
  /\ InitMem = GemmInitMem /\ Before = GemmBefore /\ Loop = 1

(* Two tiles in different places of a matrix have different slots.         *)
LEMMA SlotsDiffer ==
  ASSUME NEW w \in Nat \ {0}, NEW a \in Nat, NEW b \in Nat,
         NEW x \in 0 .. w - 1, NEW y \in 0 .. w - 1,
         a * w + x = b * w + y
  PROVE  a = b /\ x = y
<1>1. ASSUME NEW p \in Nat, NEW q \in Nat, NEW r \in 0 .. w - 1, NEW s \in 0 .. w - 1, p < q
      PROVE  p * w + r < q * w + s
  <2>1. \E d \in Nat : q = p + 1 + d
    <3>1. q - p - 1 \in Nat /\ q = p + 1 + (q - p - 1)
      BY <1>1
    <3>2. QED
      BY <3>1
  <2>2. PICK d \in Nat : q = p + 1 + d
    BY <2>1
  <2>3. q * w = p * w + w + d * w
    BY <2>2
  <2>4. d * w >= 0
    OBVIOUS
  <2>5. QED
    BY <2>3, <2>4
<1>2. a = b
  BY <1>1
<1>3. QED
  BY <1>2

(* How the nodes are told apart.                                           *)
LEMMA GemmNodes ==
  /\ Pack # Unpack
  /\ \A x \in MmaNode :
       /\ x # Pack /\ x # Unpack
       /\ x[2] \in MTile /\ x[3] \in NTile /\ x[4] \in KTile
       /\ x = Mma(x[2], x[3], x[4])
  /\ \A m \in MTile, n \in NTile, k \in KTile :
       /\ Mma(m, n, k) \in MmaNode
       /\ Mma(m, n, k)[2] = m /\ Mma(m, n, k)[3] = n /\ Mma(m, n, k)[4] = k
<1>1. Pack[1] = "pack" /\ Unpack[1] = "unpack"
  BY DEF Pack, Unpack
<1>2. ASSUME NEW m \in MTile, NEW n \in NTile, NEW k \in KTile
      PROVE  /\ Mma(m, n, k)[1] = "mma"
             /\ Mma(m, n, k)[2] = m /\ Mma(m, n, k)[3] = n /\ Mma(m, n, k)[4] = k
             /\ Mma(m, n, k) \in MmaNode
  BY DEF Mma, MmaNode
<1>3. \A x \in MmaNode : \E m \in MTile, n \in NTile, k \in KTile : x = Mma(m, n, k)
  BY DEF MmaNode
<1>4. ASSUME NEW x \in MmaNode
      PROVE  /\ x # Pack /\ x # Unpack
             /\ x[2] \in MTile /\ x[3] \in NTile /\ x[4] \in KTile
             /\ x = Mma(x[2], x[3], x[4])
  <2>1. PICK m \in MTile, n \in NTile, k \in KTile : x = Mma(m, n, k)
    BY <1>3
  <2>2. x[1] = "mma" /\ x[2] = m /\ x[3] = n /\ x[4] = k
    BY <1>2, <2>1
  <2>3. QED
    BY <1>1, <2>1, <2>2
<1>5. QED
  BY <1>1, <1>2, <1>4

(* The order meant by the graph follows from its dependencies: products    *)
(* of one tile of C hang together through the chain over k.                *)
LEMMA GemmBeforeFromDeps == ASSUME GemmProgram PROVE BeforeFromDeps
<1> USE DEF GemmProgram
<1> SUFFICES ASSUME NEW p \in GemmBefore
             PROVE  /\ p \in GemmNode \X GemmNode
                    /\ \/ p \in GemmDep
                       \/ \E c \in GemmNode :
                            <<c, p[2]>> \in GemmDep /\ <<p[1], c>> \in GemmBefore
  BY DEF BeforeFromDeps
<1>1. 0 \in MTile /\ 0 \in NTile /\ 0 \in KTile /\ KT - 1 \in KTile
  BY TilesAssumption DEF MTile, NTile, KTile
<1>2. \A m \in MTile, n \in NTile :
        <<Pack, Mma(m, n, 0)>> \in GemmDep /\ <<Mma(m, n, KT - 1), Unpack>> \in GemmDep
  BY DEF GemmDep
<1>3. \A m \in MTile, n \in NTile, k \in KTile :
        k # 0 => k - 1 \in KTile /\ <<Mma(m, n, k - 1), Mma(m, n, k)>> \in GemmDep
  BY TilesAssumption DEF GemmDep, KTile
<1>4. CASE p = <<Pack, Unpack>>
  <2>1. <<Pack, Mma(0, 0, KT - 1)>> \in GemmBefore
    BY <1>1, GemmNodes DEF GemmBefore
  <2>2. QED
    BY <1>1, <1>2, <1>4, <2>1, GemmNodes DEF GemmNode
<1>5. ASSUME NEW x \in MmaNode, p = <<Pack, x>>
      PROVE  /\ p \in GemmNode \X GemmNode
             /\ \/ p \in GemmDep
                \/ \E c \in GemmNode :
                     <<c, p[2]>> \in GemmDep /\ <<p[1], c>> \in GemmBefore
  <2>1. CASE x[4] = 0
    <3>1. x = Mma(x[2], x[3], 0)
      BY <2>1, GemmNodes
    <3>2. <<Pack, x>> \in GemmDep
      BY <1>2, <3>1, GemmNodes
    <3>3. QED
      BY <1>5, <3>2 DEF GemmNode
  <2>2. CASE x[4] # 0
    <3> DEFINE c == Mma(x[2], x[3], x[4] - 1)
    <3>1. c \in MmaNode /\ <<c, x>> \in GemmDep
      BY <1>3, <2>2, GemmNodes
    <3>2. <<Pack, c>> \in GemmBefore
      BY <3>1 DEF GemmBefore
    <3>3. QED
      BY <1>5, <3>1, <3>2 DEF GemmNode
  <2>3. QED
    BY <2>1, <2>2
<1>6. ASSUME NEW x \in MmaNode, p = <<x, Unpack>>
      PROVE  /\ p \in GemmNode \X GemmNode
             /\ \/ p \in GemmDep
                \/ \E c \in GemmNode :
                     <<c, p[2]>> \in GemmDep /\ <<p[1], c>> \in GemmBefore
  <2>1. CASE x[4] = KT - 1
    <3>1. x = Mma(x[2], x[3], KT - 1)
      BY <2>1, GemmNodes
    <3>2. <<x, Unpack>> \in GemmDep
      BY <1>2, <3>1, GemmNodes
    <3>3. QED
      BY <1>6, <3>2 DEF GemmNode
  <2>2. CASE x[4] # KT - 1
    <3> DEFINE c == Mma(x[2], x[3], KT - 1)
    <3>1. c \in MmaNode /\ <<c, Unpack>> \in GemmDep
      BY <1>1, <1>2, GemmNodes
    <3>2. c[2] = x[2] /\ c[3] = x[3] /\ x[4] < c[4]
      BY <1>1, <2>2, GemmNodes, TilesAssumption DEF KTile
    <3>3. <<x, c>> \in GemmBefore
      BY <3>1, <3>2 DEF GemmBefore
    <3>4. QED
      BY <1>6, <3>1, <3>3 DEF GemmNode
  <2>3. QED
    BY <2>1, <2>2
<1>7. ASSUME NEW x \in MmaNode, NEW y \in MmaNode, p = <<x, y>>,
             x[2] = y[2], x[3] = y[3], x[4] < y[4]
      PROVE  /\ p \in GemmNode \X GemmNode
             /\ \/ p \in GemmDep
                \/ \E c \in GemmNode :
                     <<c, p[2]>> \in GemmDep /\ <<p[1], c>> \in GemmBefore
  <2> DEFINE c == Mma(y[2], y[3], y[4] - 1)
  <2>1. y[4] # 0 /\ y[4] - 1 \in KTile
    BY <1>7, GemmNodes, TilesAssumption DEF KTile
  <2>2. c \in MmaNode /\ <<c, y>> \in GemmDep
    BY <1>3, <2>1, GemmNodes
  <2>3. c[2] = y[2] /\ c[3] = y[3] /\ c[4] = y[4] - 1
    BY <2>1, GemmNodes
  <2>4. CASE x[4] = y[4] - 1
    BY <1>7, <2>2, <2>4, GemmNodes DEF GemmNode
  <2>5. CASE x[4] # y[4] - 1
    <3>1. x[4] < c[4]
      BY <1>7, <2>3, <2>5, GemmNodes, TilesAssumption DEF KTile
    <3>2. <<x, c>> \in GemmBefore
      BY <1>7, <2>2, <2>3, <3>1 DEF GemmBefore
    <3>3. QED
      BY <1>7, <2>2, <3>2 DEF GemmNode
  <2>6. QED
    BY <2>4, <2>5
<1>8. QED
  BY <1>4, <1>5, <1>6, <1>7 DEF GemmBefore

(* A tile in a matrix that is w tiles wide and p tiles high has a place in *)
(* it, and every place has a tile.                                         *)
LEMMA Places ==
  ASSUME NEW w \in Nat \ {0}, NEW p \in Nat \ {0}
  PROVE  /\ \A a \in 0 .. p - 1, x \in 0 .. w - 1 : a * w + x \in 0 .. p * w - 1
         /\ \A i \in 0 .. p * w - 1 :
              \E a \in 0 .. p - 1, x \in 0 .. w - 1 : i = a * w + x
<1>1. ASSUME NEW a \in Nat, NEW b \in Nat, a < b PROVE a * w + w <= b * w
  <2>1. b - a - 1 \in Nat /\ b = a + 1 + (b - a - 1)
    BY <1>1
  <2>2. PICK d \in Nat : b = a + 1 + d
    BY <2>1
  <2>3. b * w = a * w + w + d * w /\ d * w >= 0
    BY <2>2
  <2> QED
    BY <2>3
<1>2. ASSUME NEW a \in 0 .. p - 1, NEW x \in 0 .. w - 1 PROVE a * w + x \in 0 .. p * w - 1
  <2>1. a * w + w <= p * w /\ a * w >= 0 /\ a * w \in Int /\ p * w \in Int
    BY <1>1
  <2> QED
    BY <2>1
<1>3. ASSUME NEW i \in 0 .. p * w - 1
      PROVE  \E a \in 0 .. p - 1, x \in 0 .. w - 1 : i = a * w + x
  <2> DEFINE a == i \div w
             x == i % w
  <2>1. a \in Int /\ x \in 0 .. w - 1 /\ i = w * a + x
    OBVIOUS
  <2> HIDE DEF a, x
  <2>2. i = a * w + x
    BY <2>1
  <2>3. a >= 0
    <3>1. SUFFICES ASSUME a < 0 PROVE FALSE
      BY <2>1
    <3>2. -a - 1 \in Nat /\ a = -(1 + (-a - 1))
      BY <2>1, <3>1
    <3>3. PICK d \in Nat : a = -(1 + d)
      BY <3>2
    <3>4. a * w = -w - d * w /\ d * w >= 0
      BY <3>3
    <3> QED
      BY <2>1, <2>2, <3>4
  <2>4. a < p
    <3>1. SUFFICES ASSUME p <= a PROVE FALSE
      BY <2>1
    <3>2. p * w <= a * w
      BY <1>1, <2>1, <3>1
    <3> QED
      BY <2>1, <2>2, <3>2
  <2> QED
    BY <2>1, <2>2, <2>3, <2>4
<1> QED
  BY <1>2, <1>3

(* The offset of a tile, as each of pack, mma and unpack computes it, is   *)
(* that of its place among the slots.                                      *)
LEMMA Offsets ==
  /\ \A m \in MTile, k \in KTile :
       /\ SlotA(m, k) = <<"A", (k * MT + m) * (MMA_M * MMA_K)>>
       /\ PackA(m, k) = <<"A", (k * MT + m) * (MMA_M * MMA_K)>>
  /\ \A k \in KTile, n \in NTile :
       /\ SlotB(k, n) = <<"B", (k * NT + n) * (MMA_K * MMA_N)>>
       /\ PackB(k, n) = <<"B", (k * NT + n) * (MMA_K * MMA_N)>>
  /\ \A m \in MTile, n \in NTile :
       /\ SlotC(m, n) = <<"C", (m * NT + n) * (MMA_M * MMA_N)>>
       /\ PackC(m, n) = <<"C", (m * NT + n) * (MMA_M * MMA_N)>>
       /\ UnpackC(m, n) = <<"C", (m * NT + n) * (MMA_M * MMA_N)>>
<1>1. ASSUME NEW a \in Int, NEW b \in Int, NEW w \in Int, NEW u \in Int, NEW v \in Int
      PROVE  /\ (a * v) * (w * u) + (b * u) * v = (a * w + b) * (u * v)
             /\ (a * v) * (w * u) + (b * u) * v = (a * w + b) * (v * u)
  OBVIOUS
<1>2. /\ MT \in Int /\ NT \in Int /\ MMA_M \in Int /\ MMA_N \in Int /\ MMA_K \in Int
      /\ MTile \subseteq Int /\ NTile \subseteq Int /\ KTile \subseteq Int
  BY TilesAssumption DEF MTile, NTile, KTile
<1>3. ASSUME NEW m \in MTile, NEW k \in KTile
      PROVE  (k * MMA_K) * Rows + (m * MMA_M) * MMA_K = (k * MT + m) * (MMA_M * MMA_K)
  <2>1. k \in Int /\ m \in Int
    BY <1>2
  <2> QED
    BY <1>1, <1>2, <2>1 DEF Rows
<1>4. ASSUME NEW k \in KTile, NEW n \in NTile
      PROVE  (k * MMA_K) * Columns + (n * MMA_N) * MMA_K = (k * NT + n) * (MMA_K * MMA_N)
  <2>1. k \in Int /\ n \in Int
    BY <1>2
  <2> QED
    BY <1>1, <1>2, <2>1 DEF Columns
<1>5. ASSUME NEW m \in MTile, NEW n \in NTile
      PROVE  (m * MMA_M) * Columns + (n * MMA_N) * MMA_M = (m * NT + n) * (MMA_M * MMA_N)
  <2>1. m \in Int /\ n \in Int
    BY <1>2
  <2> QED
    BY <1>1, <1>2, <2>1 DEF Columns
<1> QED
  BY <1>3, <1>4, <1>5 DEF SlotA, SlotB, SlotC, PackA, PackB, PackC, UnpackC

(* Slots of different arrays or different places are different, and each   *)
(* slot of an array is the place of a tile.                                *)
LEMMA Slots ==
  /\ \A m, p \in MTile, k, q \in KTile : SlotA(m, k) = SlotA(p, q) => m = p /\ k = q
  /\ \A n, p \in NTile, k, q \in KTile : SlotB(k, n) = SlotB(q, p) => n = p /\ k = q
  /\ \A m, p \in MTile, n, q \in NTile : SlotC(m, n) = SlotC(p, q) => m = p /\ n = q
  /\ \A m \in MTile, k \in KTile : SlotA(m, k) \in SlotsA
  /\ \A k \in KTile, n \in NTile : SlotB(k, n) \in SlotsB
  /\ \A m \in MTile, n \in NTile : SlotC(m, n) \in SlotsC
  /\ \A c \in SlotsC : \E m \in MTile, n \in NTile : c = SlotC(m, n)
  /\ SlotsA \cap SlotsB = {} /\ SlotsA \cap SlotsC = {} /\ SlotsB \cap SlotsC = {}
<1>1. ASSUME NEW w \in Nat \ {0}, NEW u \in Nat \ {0},
             NEW a \in Nat, NEW b \in Nat, NEW x \in 0 .. w - 1, NEW y \in 0 .. w - 1,
             (a * w + x) * u = (b * w + y) * u
      PROVE  a = b /\ x = y
  <2> DEFINE i == a * w + x
             j == b * w + y
  <2>1. i \in Nat /\ j \in Nat
    <3>1. a * w \in Nat /\ b * w \in Nat
      OBVIOUS
    <3> QED
      BY <3>1
  <2>2. i * u + 0 = j * u + 0
    BY <1>1
  <2> HIDE DEF i, j
  <2>3. i = j
    BY <2>1, <2>2, SlotsDiffer
  <2> USE DEF i, j
  <2> QED
    BY <2>3, SlotsDiffer
<1>2. /\ MMA_M * MMA_K \in Nat \ {0} /\ MMA_K * MMA_N \in Nat \ {0}
      /\ MMA_M * MMA_N \in Nat \ {0}
  <2>1. ASSUME NEW u \in Nat \ {0}, NEW v \in Nat \ {0} PROVE u * v \in Nat \ {0}
    OBVIOUS
  <2> QED
    BY <2>1, TilesAssumption
<1>3. /\ MT \in Nat \ {0} /\ NT \in Nat \ {0} /\ KT \in Nat \ {0}
      /\ MTile \subseteq Nat /\ KTile \subseteq Nat
  BY TilesAssumption DEF MTile, KTile
<1>4. ASSUME NEW m \in MTile, NEW p \in MTile, NEW k \in KTile, NEW q \in KTile,
             SlotA(m, k) = SlotA(p, q)
      PROVE  m = p /\ k = q
  <2>1. (k * MT + m) * (MMA_M * MMA_K) = (q * MT + p) * (MMA_M * MMA_K)
    BY <1>4, Offsets
  <2> QED
    BY <1>1, <1>2, <1>3, <2>1 DEF MTile
<1>5. ASSUME NEW n \in NTile, NEW p \in NTile, NEW k \in KTile, NEW q \in KTile,
             SlotB(k, n) = SlotB(q, p)
      PROVE  n = p /\ k = q
  <2>1. (k * NT + n) * (MMA_K * MMA_N) = (q * NT + p) * (MMA_K * MMA_N)
    BY <1>5, Offsets
  <2> QED
    BY <1>1, <1>2, <1>3, <2>1 DEF NTile
<1>6. ASSUME NEW m \in MTile, NEW p \in MTile, NEW n \in NTile, NEW q \in NTile,
             SlotC(m, n) = SlotC(p, q)
      PROVE  m = p /\ n = q
  <2>1. (m * NT + n) * (MMA_M * MMA_N) = (p * NT + q) * (MMA_M * MMA_N)
    BY <1>6, Offsets
  <2> QED
    BY <1>1, <1>2, <1>3, <2>1 DEF NTile
<1>7. ASSUME NEW m \in MTile, NEW k \in KTile PROVE SlotA(m, k) \in SlotsA
  <2>1. k * MT + m \in 0 .. KT * MT - 1 /\ KT * MT = MT * KT
    BY <1>3, Places DEF MTile, KTile
  <2> QED
    BY <2>1, Offsets DEF SlotsA
<1>8. ASSUME NEW k \in KTile, NEW n \in NTile PROVE SlotB(k, n) \in SlotsB
  <2>1. k * NT + n \in 0 .. KT * NT - 1
    BY <1>3, Places DEF NTile, KTile
  <2> QED
    BY <2>1, Offsets DEF SlotsB
<1>9. ASSUME NEW m \in MTile, NEW n \in NTile PROVE SlotC(m, n) \in SlotsC
  <2>1. m * NT + n \in 0 .. MT * NT - 1
    BY <1>3, Places DEF NTile, MTile
  <2> QED
    BY <2>1, Offsets DEF SlotsC
<1>10. ASSUME NEW c \in SlotsC PROVE \E m \in MTile, n \in NTile : c = SlotC(m, n)
  <2>1. PICK i \in 0 .. MT * NT - 1 : c = <<"C", i * (MMA_M * MMA_N)>>
    BY DEF SlotsC
  <2>2. PICK m \in MTile, n \in NTile : i = m * NT + n
    BY <1>3, Places DEF NTile, MTile
  <2> QED
    BY <2>1, <2>2, Offsets
<1>11. SlotsA \cap SlotsB = {} /\ SlotsA \cap SlotsC = {} /\ SlotsB \cap SlotsC = {}
  BY DEF SlotsA, SlotsB, SlotsC
<1> QED
  BY <1>4, <1>5, <1>6, <1>7, <1>8, <1>9, <1>10, <1>11

(* Two products for different tiles of C have no slot in common that one   *)
(* of them writes.                                                         *)
LEMMA SameTile ==
  ASSUME NEW x \in MmaNode, NEW y \in MmaNode, SlotC(x[2], x[3]) \in GemmReads[y]
  PROVE  x[2] = y[2] /\ x[3] = y[3]
<1>1. y # Pack /\ y # Unpack /\ y \in GemmNode
  BY GemmNodes DEF GemmNode
<1>2. SlotC(x[2], x[3]) \in {SlotA(y[2], y[4]), SlotB(y[4], y[3]), SlotC(y[2], y[3])}
  BY <1>1 DEF GemmReads
<1>3. SlotC(x[2], x[3]) = SlotC(y[2], y[3])
  BY <1>2 DEF SlotA, SlotB, SlotC
<1>4. QED
  BY <1>3, GemmNodes, Slots

(* The order meant by the graph covers every conflict.                     *)
LEMMA GemmConflictsOrdered == ASSUME GemmProgram PROVE ConflictsOrdered
<1> USE DEF GemmProgram
<1> SUFFICES ASSUME NEW x \in GemmNode, NEW y \in GemmNode, Conflict(x, y)
             PROVE  <<x, y>> \in GemmBefore \/ <<y, x>> \in GemmBefore
  BY DEF ConflictsOrdered
<1>1. x # y
  BY DEF Conflict
<1>2. CASE x \in {Pack, Unpack} \/ y \in {Pack, Unpack}
  BY <1>1, <1>2 DEF GemmNode, GemmBefore
<1>3. CASE x \in MmaNode /\ y \in MmaNode
  <2>1. GemmWrites[x] = {SlotC(x[2], x[3])} /\ GemmWrites[y] = {SlotC(y[2], y[3])}
    BY <1>3, GemmNodes DEF GemmWrites
  <2>2. GemmWrites[y] \subseteq GemmReads[y]
    BY <1>3, GemmNodes DEF GemmWrites, GemmReads
  <2>3. SlotC(x[2], x[3]) \in GemmReads[y] \/ SlotC(y[2], y[3]) \in GemmReads[x]
    BY <2>1, <2>2 DEF Conflict
  <2>4. x[2] = y[2] /\ x[3] = y[3]
    BY <1>3, <2>3, SameTile
  <2>5. x[4] # y[4]
    BY <1>1, <1>3, <2>4, GemmNodes
  <2>6. x[4] < y[4] \/ y[4] < x[4]
    BY <1>3, <2>5, GemmNodes, TilesAssumption DEF KTile
  <2>7. QED
    BY <1>3, <2>4, <2>6 DEF GemmBefore
<1>4. QED
  BY <1>2, <1>3 DEF GemmNode

-----------------------------------------------------------------------------
(* pack_matrix_data puts into a slot the tile that an mma node looks for   *)
(* there, and unpack takes it for the same tile of C.                      *)
LEMMA Packed ==
  /\ \A m \in MTile, k \in KTile : PackedTile(SlotA(m, k)) = <<m, k>>
  /\ \A k \in KTile, n \in NTile : PackedTile(SlotB(k, n)) = <<k, n>>
  /\ \A m \in MTile, n \in NTile :
       PackedTile(SlotC(m, n)) = <<m, n>> /\ UnpackedTile(SlotC(m, n)) = <<m, n>>
<1>1. ASSUME NEW m \in MTile, NEW k \in KTile PROVE PackedTile(SlotA(m, k)) = <<m, k>>
  <2>1. SlotA(m, k) \in SlotsA
    BY Slots
  <2>2. \A t \in MTile \X KTile : PackA(t[1], t[2]) = SlotA(m, k) => t = <<m, k>>
    BY Slots, Offsets
  <2>3. <<m, k>> \in MTile \X KTile /\ PackA(<<m, k>>[1], <<m, k>>[2]) = SlotA(m, k)
    BY Offsets
  <2>4. PackedTile(SlotA(m, k)) = CHOOSE t \in MTile \X KTile : PackA(t[1], t[2]) = SlotA(m, k)
    BY <2>1, Slots DEF PackedTile
  <2> QED
    BY <2>2, <2>3, <2>4
<1>2. ASSUME NEW k \in KTile, NEW n \in NTile PROVE PackedTile(SlotB(k, n)) = <<k, n>>
  <2>1. SlotB(k, n) \in SlotsB /\ SlotB(k, n) \notin SlotsA
    BY Slots
  <2>2. \A t \in KTile \X NTile : PackB(t[1], t[2]) = SlotB(k, n) => t = <<k, n>>
    BY Slots, Offsets
  <2>3. <<k, n>> \in KTile \X NTile /\ PackB(<<k, n>>[1], <<k, n>>[2]) = SlotB(k, n)
    BY Offsets
  <2>4. PackedTile(SlotB(k, n)) = CHOOSE t \in KTile \X NTile : PackB(t[1], t[2]) = SlotB(k, n)
    BY <2>1, Slots DEF PackedTile
  <2> QED
    BY <2>2, <2>3, <2>4
<1>3. ASSUME NEW m \in MTile, NEW n \in NTile
      PROVE  PackedTile(SlotC(m, n)) = <<m, n>> /\ UnpackedTile(SlotC(m, n)) = <<m, n>>
  <2>1. SlotC(m, n) \in SlotsC /\ SlotC(m, n) \notin SlotsA /\ SlotC(m, n) \notin SlotsB
    BY Slots
  <2>2. \A t \in MTile \X NTile :
          /\ PackC(t[1], t[2]) = SlotC(m, n) => t = <<m, n>>
          /\ UnpackC(t[1], t[2]) = SlotC(m, n) => t = <<m, n>>
    BY Slots, Offsets
  <2>3. /\ <<m, n>> \in MTile \X NTile
        /\ PackC(<<m, n>>[1], <<m, n>>[2]) = SlotC(m, n)
        /\ UnpackC(<<m, n>>[1], <<m, n>>[2]) = SlotC(m, n)
    BY Offsets
  <2>4. PackedTile(SlotC(m, n)) = <<m, n>>
    <3>1. PackedTile(SlotC(m, n)) = CHOOSE t \in MTile \X NTile : PackC(t[1], t[2]) = SlotC(m, n)
      BY <2>1 DEF PackedTile
    <3> QED
      BY <2>2, <2>3, <3>1
  <2>5. UnpackedTile(SlotC(m, n)) = <<m, n>>
    BY <2>2, <2>3 DEF UnpackedTile
  <2> QED
    BY <2>4, <2>5
<1> QED
  BY <1>1, <1>2, <1>3

(* What a slot of C holds between pack and unpack: the products whose      *)
(* nodes have ended.                                                       *)
TimesAdded(m, n) == [k \in KTile |-> IF status[Mma(m, n, k)] = "done" THEN 1 ELSE 0]

SumTile(m, n) ==
  [tile |-> IF status[Unpack] = "done" THEN NoTile ELSE <<m, n>>,
   spoilt |-> FALSE,
   times |-> TimesAdded(m, n)]

(* What the nodes that have ended have stored.                             *)
GemmComputed ==
  /\ status[Pack] # "done" => mem = GemmInitMem
  /\ status[Pack] = "done" =>
       /\ \A c \in SlotsA \cup SlotsB : mem[c] = PackedTile(c)
       /\ \A m \in MTile, n \in NTile : mem[SlotC(m, n)] = SumTile(m, n)

(* Before the submission the matrices are as main left them.               *)
LEMMA GemmComputedInit == ASSUME GemmProgram, Init PROVE GemmComputed /\ EveryProductOnce
BY DEF GemmProgram, Init, NoReport, GemmComputed, EveryProductOnce, GemmNode

(* Where a node that runs finds the others.                                *)
LEMMA GemmAround ==
  ASSUME GemmProgram, Inductive
  PROVE  /\ status[Pack] = "running" =>
              status[Unpack] = "waiting" /\ \A x \in MmaNode : status[x] = "waiting"
         /\ \A x \in MmaNode :
              status[x] = "running" => status[Pack] = "done" /\ status[Unpack] = "waiting"
         /\ status[Unpack] = "running" =>
              status[Pack] = "done" /\ \A x \in MmaNode : status[x] = "done"
<1> USE DEF GemmProgram
<1>1. /\ <<Pack, Unpack>> \in GemmBefore
      /\ \A x \in MmaNode : <<Pack, x>> \in GemmBefore /\ <<x, Unpack>> \in GemmBefore
  BY DEF GemmBefore
<1>2. /\ status[Unpack] # "waiting" => status[Pack] = "done"
      /\ \A x \in MmaNode :
           /\ status[x] # "waiting" => status[Pack] = "done"
           /\ status[Unpack] # "waiting" => status[x] = "done"
  BY <1>1 DEF Inductive, OrderKept
<1> QED
  BY <1>2

(* pack makes tiles of all three matrices.                                 *)
LEMMA PackStep == ASSUME GemmProgram, Inductive, GemmComputed, End(Pack) PROVE GemmComputed'
<1> USE DEF GemmProgram
<1>1. /\ status[Pack] = "running"
      /\ status' = [status EXCEPT ![Pack] = "done"]
      /\ mem' = Atomic!Store(Pack, operands[Pack], mem)
      /\ operands[Pack] = Atomic!Operands(Pack, mem)
  BY DEF End, Inductive, OperandsCurrent, InState, GemmNode
<1>2. GemmReads[Pack] = GemmCell /\ GemmWrites[Pack] = GemmCell
  BY GemmNodes DEF GemmReads, GemmWrites, GemmNode
<1>3. \A c \in GemmCell : operands[Pack][c] = GemmInitMem[c]
  BY <1>1, <1>2 DEF Atomic!Operands, GemmComputed
<1>4. \A c \in GemmCell :
        mem'[c] = IF c \in SlotsC
                  THEN [operands[Pack][c] EXCEPT !.tile = PackedTile(c)]
                  ELSE PackedTile(c)
  <2>1. GemmEval(Pack, operands[Pack]) =
          [c \in GemmCell |-> IF c \in SlotsC
                              THEN [operands[Pack][c] EXCEPT !.tile = PackedTile(c)]
                              ELSE PackedTile(c)]
    BY GemmNodes DEF GemmEval
  <2>2. mem' = [c \in GemmCell |-> GemmEval(Pack, operands[Pack])[c]]
    BY <1>1, <1>2 DEF Atomic!Store
  <2> QED
    BY <2>1, <2>2
<1>5. /\ status[Unpack] = "waiting" /\ status'[Unpack] = "waiting" /\ status'[Pack] = "done"
      /\ \A x \in MmaNode : status'[x] = "waiting"
  BY <1>1, GemmAround, GemmNodes DEF Inductive, TypeOK, GemmNode
<1>6. ASSUME NEW c \in SlotsA \cup SlotsB PROVE mem'[c] = PackedTile(c)
  BY <1>4, Slots DEF GemmCell
<1>7. ASSUME NEW m \in MTile, NEW n \in NTile PROVE mem'[SlotC(m, n)] = SumTile(m, n)'
  <2>1. SlotC(m, n) \in SlotsC /\ SlotC(m, n) \in GemmCell
    BY Slots DEF GemmCell
  <2>2. mem'[SlotC(m, n)] = [Untouched EXCEPT !.tile = <<m, n>>]
    BY <1>3, <1>4, <2>1, Packed DEF GemmInitMem
  <2>3. TimesAdded(m, n)' = [k \in KTile |-> 0]
    BY <1>5, GemmNodes DEF TimesAdded
  <2> QED
    BY <1>5, <2>2, <2>3 DEF SumTile, Untouched
<1> QED
  BY <1>5, <1>6, <1>7 DEF GemmComputed

(* A product is added to its tile of C, once, and of the right operands.   *)
LEMMA MmaStep ==
  ASSUME GemmProgram, Inductive, GemmComputed, NEW x \in MmaNode, End(x)
  PROVE  GemmComputed'
<1> USE DEF GemmProgram
<1> DEFINE m == x[2]
           n == x[3]
           k == x[4]
<1>1. /\ status[x] = "running"
      /\ status' = [status EXCEPT ![x] = "done"]
      /\ mem' = Atomic!Store(x, operands[x], mem)
      /\ operands[x] = Atomic!Operands(x, mem)
      /\ status \in [GemmNode -> {"waiting", "running", "done"}]
  BY DEF End, Inductive, OperandsCurrent, InState, GemmNode, TypeOK
<1>2. /\ m \in MTile /\ n \in NTile /\ k \in KTile /\ x = Mma(m, n, k)
      /\ x # Pack /\ x # Unpack /\ x \in GemmNode
  BY GemmNodes DEF GemmNode
<1>3. GemmReads[x] = {SlotA(m, k), SlotB(k, n), SlotC(m, n)} /\ GemmWrites[x] = {SlotC(m, n)}
  BY <1>2 DEF GemmReads, GemmWrites
<1> HIDE DEF m, n, k
<1>4. status[Pack] = "done" /\ status[Unpack] = "waiting"
  BY <1>1, GemmAround
<1>5. /\ \A c \in SlotsA \cup SlotsB : mem[c] = PackedTile(c)
      /\ \A p \in MTile, q \in NTile : mem[SlotC(p, q)] = SumTile(p, q)
  BY <1>4 DEF GemmComputed
<1>6. SlotA(m, k) \in SlotsA /\ SlotB(k, n) \in SlotsB /\ SlotC(m, n) \in SlotsC
  BY <1>2, Slots
<1>7. /\ operands[x][SlotA(m, k)] = <<m, k>> /\ operands[x][SlotB(k, n)] = <<k, n>>
      /\ operands[x][SlotC(m, n)] = SumTile(m, n)
  BY <1>1, <1>2, <1>3, <1>5, <1>6, Packed DEF Atomic!Operands
<1>8. SameK(m, n, k, operands[x])
  <2>1. SumTile(m, n).tile = <<m, n>>
    BY <1>4 DEF SumTile
  <2> QED
    BY <1>7, <2>1 DEF SameK
<1>9. GemmEval(x, operands[x])[SlotC(m, n)] = [SumTile(m, n) EXCEPT !.times[k] = @ + 1]
  <2>1. GemmEval(x, operands[x]) =
          [c \in {SlotC(x[2], x[3])} |-> MultiplyAdd(x[2], x[3], x[4], operands[x])]
    BY <1>2 DEF GemmEval
  <2> QED
    BY <1>7, <1>8, <2>1 DEF MultiplyAdd, m, n, k
<1>10. \A c \in GemmCell :
         mem'[c] = IF c = SlotC(m, n) THEN GemmEval(x, operands[x])[c] ELSE mem[c]
  BY <1>1, <1>3 DEF Atomic!Store
<1>11. status'[Pack] = "done" /\ status'[Unpack] = "waiting"
  BY <1>1, <1>2, <1>4
<1>12. ASSUME NEW c \in SlotsA \cup SlotsB PROVE mem'[c] = PackedTile(c)
  BY <1>5, <1>6, <1>10, Slots DEF GemmCell
<1>13. ASSUME NEW p \in MTile, NEW q \in NTile PROVE mem'[SlotC(p, q)] = SumTile(p, q)'
  <2>1. SlotC(p, q) \in GemmCell
    BY Slots DEF GemmCell
  <2>2. CASE p = m /\ q = n
    <3>1. mem'[SlotC(m, n)] = [SumTile(m, n) EXCEPT !.times[k] = @ + 1]
      BY <1>9, <1>10, <2>1, <2>2
    <3>2. \A l \in KTile : Mma(m, n, l) \in GemmNode /\ (Mma(m, n, l) = x => l = k)
      BY <1>2, GemmNodes DEF GemmNode
    <3>3. \A l \in KTile :
            TimesAdded(m, n)'[l] = IF l = k THEN 1 ELSE TimesAdded(m, n)[l]
      BY <1>1, <1>2, <3>2 DEF TimesAdded
    <3>4. TimesAdded(m, n)[k] = 0
      BY <1>1, <1>2 DEF TimesAdded
    <3>5. TimesAdded(m, n)' = [TimesAdded(m, n) EXCEPT ![k] = @ + 1]
      <4> DEFINE t == TimesAdded(m, n)
                 u == TimesAdded(m, n)'
      <4>1. t = [l \in KTile |-> t[l]] /\ u = [l \in KTile |-> u[l]]
        BY DEF TimesAdded
      <4>2. \A l \in KTile : u[l] = IF l = k THEN 1 ELSE t[l]
        BY <3>3
      <4>3. t[k] = 0
        BY <3>4
      <4> HIDE DEF t, u
      <4>4. u = [t EXCEPT ![k] = @ + 1]
        BY <4>1, <4>2, <4>3
      <4> QED
        BY <4>4 DEF t, u
    <3> QED
      BY <1>4, <1>11, <2>2, <3>1, <3>5 DEF SumTile
  <2>3. CASE p # m \/ q # n
    <3>1. SlotC(p, q) # SlotC(m, n)
      BY <1>2, <2>3, Slots
    <3>2. \A l \in KTile : Mma(p, q, l) \in GemmNode /\ Mma(p, q, l) # x
      BY <1>2, <2>3, GemmNodes DEF GemmNode
    <3>3. TimesAdded(p, q)' = TimesAdded(p, q)
      BY <1>1, <3>2 DEF TimesAdded
    <3>4. mem'[SlotC(p, q)] = SumTile(p, q)
      BY <1>5, <1>10, <2>1, <3>1
    <3> QED
      BY <1>4, <1>11, <3>3, <3>4 DEF SumTile
  <2> QED
    BY <2>2, <2>3
<1> QED
  BY <1>11, <1>12, <1>13 DEF GemmComputed

(* unpack finds in a slot of C the tile that belongs to it.                *)
LEMMA RowsOfTile ==
  ASSUME NEW c, NEW added, NEW held,
         held = [tile |-> UnpackedTile(c), spoilt |-> FALSE, times |-> added]
  PROVE  ToRows(c, held) = [tile |-> NoTile, spoilt |-> FALSE, times |-> added]
<1> SUFFICES ASSUME NEW rows, rows = ToRows(c, held)
             PROVE  rows = [tile |-> NoTile, spoilt |-> FALSE, times |-> added]
  OBVIOUS
<1>1. held.spoilt = FALSE /\ held.tile = UnpackedTile(c)
  OBVIOUS
<1>2. (held.spoilt \/ held.tile # UnpackedTile(c)) = FALSE
  BY <1>1, Zenon
<1>3. rows = [held EXCEPT !.tile = NoTile, !.spoilt = FALSE]
  BY <1>2, Zenon DEF ToRows
<1> QED
  BY <1>3

(* unpack puts C back in row order, with every product in it.              *)
LEMMA UnpackStep == ASSUME GemmProgram, Inductive, GemmComputed, End(Unpack) PROVE GemmComputed'
<1> USE DEF GemmProgram
<1>1. /\ status[Unpack] = "running"
      /\ status' = [status EXCEPT ![Unpack] = "done"]
      /\ mem' = Atomic!Store(Unpack, operands[Unpack], mem)
      /\ operands[Unpack] = Atomic!Operands(Unpack, mem)
  BY DEF End, Inductive, OperandsCurrent, InState, GemmNode
<1>2. GemmReads[Unpack] = SlotsC /\ GemmWrites[Unpack] = SlotsC
  BY GemmNodes DEF GemmReads, GemmWrites, GemmNode
<1>3. status[Pack] = "done" /\ status'[Pack] = "done" /\ status'[Unpack] = "done"
  BY <1>1, GemmAround, GemmNodes DEF Inductive, TypeOK, GemmNode
<1>4. \A x \in MmaNode : status'[x] = status[x]
  BY <1>1, GemmNodes DEF Inductive, TypeOK, GemmNode
<1>5. GemmEval(Unpack, operands[Unpack]) = [c \in SlotsC |-> ToRows(c, operands[Unpack][c])]
  BY GemmNodes DEF GemmEval
<1>6. \A c \in GemmCell :
        mem'[c] = IF c \in SlotsC THEN ToRows(c, mem[c]) ELSE mem[c]
  BY <1>1, <1>2, <1>5 DEF Atomic!Store, Atomic!Operands
<1>7. ASSUME NEW c \in SlotsA \cup SlotsB PROVE mem'[c] = PackedTile(c)
  BY <1>3, <1>6, Slots DEF GemmCell, GemmComputed
<1>8. ASSUME NEW m \in MTile, NEW n \in NTile PROVE mem'[SlotC(m, n)] = SumTile(m, n)'
  <2>1. SlotC(m, n) \in SlotsC /\ SlotC(m, n) \in GemmCell
    BY Slots DEF GemmCell
  <2>2. mem'[SlotC(m, n)] = ToRows(SlotC(m, n), SumTile(m, n))
    BY <1>3, <1>6, <2>1 DEF GemmComputed
  <2>3. ToRows(SlotC(m, n), SumTile(m, n)) =
          [tile |-> NoTile, spoilt |-> FALSE, times |-> TimesAdded(m, n)]
    <3>1. SumTile(m, n) =
            [tile |-> UnpackedTile(SlotC(m, n)), spoilt |-> FALSE, times |-> TimesAdded(m, n)]
      BY <1>1, Packed DEF SumTile
    <3> QED
      BY <3>1, RowsOfTile
  <2>4. TimesAdded(m, n)' = TimesAdded(m, n)
    BY <1>4, GemmNodes DEF TimesAdded
  <2> QED
    BY <1>3, <2>2, <2>3, <2>4 DEF SumTile
<1> QED
  BY <1>3, <1>7, <1>8 DEF GemmComputed

(* The other steps store nothing, and the report finds every node ended.   *)
LEMMA GemmComputedStep ==
  ASSUME GemmProgram, Inductive, GemmComputed, EveryProductOnce, [Next]_vars
  PROVE  GemmComputed' /\ EveryProductOnce'
<1> USE DEF GemmProgram
<1>1. ASSUME NEW x \in GemmNode, Start(x) PROVE GemmComputed' /\ EveryProductOnce'
  <2>1. \A y \in GemmNode : (status'[y] = "done") = (status[y] = "done")
    BY <1>1 DEF Start, Inductive, TypeOK
  <2>2. \A m \in MTile, n \in NTile : SumTile(m, n)' = SumTile(m, n)
    BY <2>1, GemmNodes DEF SumTile, TimesAdded, GemmNode
  <2>3. (status'[Pack] = "done") = (status[Pack] = "done") /\ mem' = mem /\ report' = report
    BY <1>1, <2>1 DEF Start, GemmNode
  <2> QED
    BY <2>2, <2>3 DEF GemmComputed, EveryProductOnce
<1>2. ASSUME NEW x \in GemmNode, End(x) PROVE GemmComputed' /\ EveryProductOnce'
  <2>1. report' = report
    BY <1>2 DEF End
  <2>2. GemmComputed'
    BY <1>2, PackStep, MmaStep, UnpackStep DEF GemmNode
  <2> QED
    BY <2>1, <2>2 DEF EveryProductOnce
<1>3. CASE Submit \/ WaitReturns \/ Destroy \/ UNCHANGED vars
  BY <1>3 DEF Submit, WaitReturns, Destroy, vars, GemmComputed,
     EveryProductOnce, SumTile, TimesAdded
<1>4. CASE NextTest
  BY <1>4 DEF NextTest, Inductive, TypeOK
<1>5. CASE ReportResult
  <2>1. /\ \A x \in GemmNode : status[x] = "done"
        /\ report' = Report(mem) /\ UNCHANGED <<status, mem>>
    BY <1>5 DEF ReportResult, Inductive, MainFollowsNodes, InState
  <2>2. ASSUME NEW m \in MTile, NEW n \in NTile PROVE mem[SlotC(m, n)] = Product
    <3>1. TimesAdded(m, n) = [k \in KTile |-> 1]
      BY <2>1, GemmNodes DEF TimesAdded, GemmNode
    <3> QED
      BY <2>1, <3>1 DEF GemmComputed, SumTile, Product, GemmNode
  <2>3. EveryProductOnce'
    BY <2>1, <2>2, Slots DEF EveryProductOnce, Report
  <2> QED
    BY <2>1, <2>3 DEF GemmComputed, SumTile, TimesAdded
<1> QED
  BY <1>1, <1>2, <1>3, <1>4, <1>5 DEF Next, Main

-----------------------------------------------------------------------------
(* No two nodes of gemm_kupl_way that share a slot of A, B or C, one of    *)
(* them writing it, run at the same time: the products of one tile of C    *)
(* never overlap, and none overlaps pack or unpack.                        *)
THEOREM GemmNoRaces ==
  ASSUME GemmProgram PROVE Spec => []RaceFree
BY GemmBeforeFromDeps, GemmConflictsOrdered, NoRaces

(* gemm_kupl_way reports what it would if its nodes were indivisible.      *)
THEOREM GemmImplementation ==
  ASSUME GemmProgram PROVE Spec => ImplementsAtomic
BY GemmBeforeFromDeps, GemmConflictsOrdered, Implementation

(* The graph of gemm_kupl_way has no cycle, for every number of tiles: the *)
(* chains over k lead from pack to unpack.                                 *)
THEOREM GemmGoesOn ==
  ASSUME GemmProgram PROVE Spec => []NoDeadlock
<1> DEFINE stage ==
      [x \in GemmNode |-> IF x = Pack THEN 0 ELSE IF x = Unpack THEN KT + 1 ELSE x[4] + 1]
<1>1. stage[Pack] = 0 /\ stage[Unpack] = KT + 1 /\ KT \in Nat
  BY GemmNodes, TilesAssumption DEF GemmNode
<1>2. \A m \in MTile, n \in NTile, k \in KTile : stage[Mma(m, n, k)] = k + 1
  BY GemmNodes DEF GemmNode
<1>3. stage \in [GemmNode -> Nat]
  <2>1. \A x \in MmaNode : x[4] + 1 \in Nat
    BY GemmNodes, TilesAssumption DEF KTile
  <2> QED
    BY <1>1, <2>1 DEF GemmNode
<1> HIDE DEF stage
<1>4. ASSUME NEW d \in GemmDep PROVE stage[d[1]] < stage[d[2]]
  <2>1. \/ \E m \in MTile, n \in NTile : d = <<Pack, Mma(m, n, 0)>>
        \/ \E m \in MTile, n \in NTile : d = <<Mma(m, n, KT - 1), Unpack>>
        \/ \E m \in MTile, n \in NTile, k \in KTile \ {0} : d = <<Mma(m, n, k - 1), Mma(m, n, k)>>
    BY DEF GemmDep
  <2>2. 0 \in KTile /\ KT - 1 \in KTile /\ \A k \in KTile \ {0} : k \in Nat /\ k - 1 \in KTile
    BY TilesAssumption DEF KTile
  <2>3. CASE \E m \in MTile, n \in NTile : d = <<Pack, Mma(m, n, 0)>>
    BY <1>1, <1>2, <2>2, <2>3
  <2>4. CASE \E m \in MTile, n \in NTile : d = <<Mma(m, n, KT - 1), Unpack>>
    <3>1. PICK m \in MTile, n \in NTile : d = <<Mma(m, n, KT - 1), Unpack>>
      BY <2>4
    <3>2. stage[Mma(m, n, KT - 1)] = KT - 1 + 1
      BY <1>2, <2>2
    <3> QED
      BY <1>1, <3>1, <3>2
  <2>5. CASE \E m \in MTile, n \in NTile, k \in KTile \ {0} : d = <<Mma(m, n, k - 1), Mma(m, n, k)>>
    BY <1>2, <2>2, <2>5
  <2> QED
    BY <2>1, <2>3, <2>4, <2>5
<1>5. Staged(stage)
  BY <1>3, <1>4 DEF Staged, GemmProgram
<1> QED
  BY <1>5, NodesGoOn

(* gemm_kupl_way hands back C = C + A * B, every product added once to its *)
(* tile, for every number of tiles and of executors.                       *)
THEOREM GemmEveryProductOnce ==
  ASSUME GemmProgram PROVE Spec => []EveryProductOnce
<1>1. Init => GemmComputed /\ EveryProductOnce
  BY GemmComputedInit
<1>2. Inductive /\ GemmComputed /\ EveryProductOnce /\ [Next]_vars
        => GemmComputed' /\ EveryProductOnce'
  BY GemmComputedStep
<1>3. Spec => []Inductive
  BY GemmBeforeFromDeps, GemmConflictsOrdered, Invariance
<1> QED
  BY <1>1, <1>2, <1>3, PTL DEF Spec

-----------------------------------------------------------------------------
(* The graph version of local_dependency.                                  *)

(* SGraphTask runs the graph version of local_dependency.                  *)
LDProgram ==
  /\ Node = LDNode /\ Dep = LDDep /\ Cell = LDCell
  /\ Reads = LDReads /\ Writes = LDWrites /\ \A n, in : Eval(n, in) = LDEval(n, in)
  /\ InitMem = LDInitMem /\ Before = LDDep

(* A node is one of the two functions on one of the segments.              *)
LEMMA LDNodes ==
  /\ \A x \in LDNode : x[2] \in Id /\ (x = AxbFunc(x[2]) \/ x = DFunc(x[2]))
  /\ \A id \in Id : AxbFunc(id) \in LDNode /\ DFunc(id) \in LDNode
BY DEF LDNode, AxbFunc, DFunc

(* The order the properties speak of is that of the dependencies.          *)
LEMMA LDBeforeFromDeps == ASSUME LDProgram PROVE BeforeFromDeps
BY LDNodes DEF LDProgram, BeforeFromDeps, LDDep

(* Dividing keeps the order.                                               *)
LEMMA DivMonotone ==
  ASSUME NEW x \in Nat, NEW y \in Nat, NEW w \in Nat \ {0}, x <= y
  PROVE  x \div w <= y \div w
<1> DEFINE p == x \div w
           q == y \div w
<1>1. p \in Nat /\ q \in Nat /\ p * w <= x /\ y < q * w + w
  BY SMT
<1> HIDE DEF p, q
<1>2. SUFFICES ASSUME q < p PROVE FALSE
  BY <1>1 DEF p, q
<1>3. PICK d \in Nat : p = q + 1 + d
  <2>1. p - q - 1 \in Nat /\ p = q + 1 + (p - q - 1)
    BY <1>1, <1>2
  <2> QED
    BY <2>1
<1>4. p * w = q * w + w + d * w /\ d * w >= 0
  BY <1>1, <1>3
<1> QED
  BY <1>1, <1>4

(* A range cut into parts the way local_dependency cuts d: no element is   *)
(* in two parts.                                                           *)
LEMMA PartsDisjoint ==
  ASSUME NEW size \in Nat \ {0}, NEW parts \in Nat \ {0},
         NEW a \in Nat, NEW b \in Nat, a < b, NEW i \in Nat,
         i < ((a + 1) * size) \div parts
  PROVE  ~((b * size) \div parts <= i)
<1>1. PICK d \in Nat : b = a + 1 + d
  <2>1. b - a - 1 \in Nat /\ b = a + 1 + (b - a - 1)
    OBVIOUS
  <2> QED
    BY <2>1
<1> DEFINE u == (a + 1) * size
           v == b * size
           w == d * size
<1>2. u \in Nat /\ v \in Nat /\ w \in Nat /\ v = u + w
  BY <1>1
<1>3. i < u \div parts
  OBVIOUS
<1> SUFFICES ~(v \div parts <= i)
  OBVIOUS
<1> HIDE DEF u, v, w
<1>4. u <= v
  BY <1>2
<1>5. u \div parts <= v \div parts
  BY <1>2, <1>4, DivMonotone
<1>6. u \div parts \in Int /\ v \div parts \in Int
  BY <1>2
<1> QED
  BY <1>3, <1>5, <1>6

(* And every element is in one.                                            *)
LEMMA PartsCover ==
  ASSUME NEW size \in Nat \ {0}, NEW parts \in Nat \ {0}, NEW i \in 0 .. size - 1
  PROVE  \E a \in 0 .. parts - 1 :
           (a * size) \div parts <= i /\ i < ((a + 1) * size) \div parts
<1> DEFINE x == (i + 1) * parts - 1
           a == x \div size
<1>1. x \in Nat /\ x + 1 = (i + 1) * parts
  BY SMT
<1>2. a \in Nat /\ a * size <= x /\ x < a * size + size
  <2> HIDE DEF x
  <2> QED
    BY <1>1, SMT
<1> HIDE DEF x, a
<1>3. (a + 1) * size = a * size + size /\ (i + 1) * parts = i * parts + parts
  BY <1>2
<1>4. (a * size) \div parts <= i
  <2> DEFINE u == a * size
             q == u \div parts
  <2>1. u \in Nat /\ u < i * parts + parts
    BY <1>1, <1>2, <1>3
  <2>2. q \in Nat /\ q * parts <= u
    <3> HIDE DEF u
    <3> QED
      BY <2>1, SMT
  <2> HIDE DEF u, q
  <2>3. SUFFICES ASSUME i < q PROVE FALSE
    BY <2>2 DEF q, u
  <2>4. PICK d \in Nat : q = i + 1 + d
    <3>1. q - i - 1 \in Nat /\ q = i + 1 + (q - i - 1)
      BY <2>2, <2>3
    <3> QED
      BY <3>1
  <2>5. q * parts = i * parts + parts + d * parts /\ d * parts >= 0
    BY <2>2, <2>4
  <2> QED
    BY <2>1, <2>2, <2>5
<1>5. i < ((a + 1) * size) \div parts
  <2> DEFINE u == (a + 1) * size
             q == u \div parts
  <2>1. u \in Nat /\ u >= i * parts + parts
    BY <1>1, <1>2, <1>3
  <2>2. q \in Nat /\ u < q * parts + parts
    <3> HIDE DEF u
    <3> QED
      BY <2>1, SMT
  <2> HIDE DEF u, q
  <2>3. SUFFICES ASSUME q <= i PROVE FALSE
    BY <2>2 DEF q, u
  <2>4. PICK d \in Nat : i = q + d
    <3>1. i - q \in Nat /\ i = q + (i - q)
      BY <2>2, <2>3
    <3> QED
      BY <3>1
  <2>5. i * parts = q * parts + d * parts /\ d * parts >= 0
    BY <2>2, <2>4
  <2> QED
    BY <2>1, <2>2, <2>5
<1>6. a < parts
  <2>1. SUFFICES ASSUME parts <= a PROVE FALSE
    BY <1>2
  <2>2. PICK d \in Nat : a = parts + d
    <3>1. a - parts \in Nat /\ a = parts + (a - parts)
      BY <1>2, <2>1
    <3> QED
      BY <3>1
  <2>3. PICK e \in Nat : size = i + 1 + e
    <3>1. size - i - 1 \in Nat /\ size = i + 1 + (size - i - 1)
      OBVIOUS
    <3> QED
      BY <3>1
  <2>4. a * size = parts * size + d * size /\ d * size >= 0
    BY <2>2
  <2>5. parts * size = (i + 1) * parts + e * parts /\ e * parts >= 0
    BY <2>3
  <2> QED
    BY <1>1, <1>2, <2>4, <2>5
<1>7. a \in 0 .. parts - 1
  BY <1>2, <1>6
<1> QED
  BY <1>4, <1>5, <1>7, Zenon

(* An element of d is in one segment only, and in one it is.               *)
LEMMA SegmentsDisjoint ==
  ASSUME NEW a \in Id, NEW b \in Id, a # b
  PROVE  Segment(a) \cap Segment(b) = {}
<1>1. ASSUME NEW e \in Id, NEW f \in Id, e < f PROVE Segment(e) \cap Segment(f) = {}
  BY <1>1, PartsDisjoint, SegmentsAssumption DEF Id, Segment, Index
<1>2. a < b \/ b < a
  BY DEF Id
<1> QED
  BY <1>1, <1>2

LEMMA SegmentsCover == \A i \in Index : \E id \in Id : i \in Segment(id)
BY PartsCover, SegmentsAssumption DEF Id, Segment, Index

(* Only the two nodes of one segment share elements, and they are linked.  *)
LEMMA LDConflictsOrdered == ASSUME LDProgram PROVE ConflictsOrdered
<1> USE DEF LDProgram
<1> SUFFICES ASSUME NEW x \in LDNode, NEW y \in LDNode, Conflict(x, y)
             PROVE  <<x, y>> \in LDDep \/ <<y, x>> \in LDDep
  BY DEF ConflictsOrdered
<1>1. x # y /\ Segment(x[2]) \cap Segment(y[2]) # {}
  BY DEF Conflict, LDReads, LDWrites
<1>2. x[2] = y[2]
  BY <1>1, LDNodes, SegmentsDisjoint
<1> QED
  BY <1>1, <1>2, LDNodes DEF LDDep

-----------------------------------------------------------------------------
(* How often a node has ended, the submissions before this one included.   *)
Ended(x) == round - 1 + (IF status[x] = "done" THEN 1 ELSE 0)

(* What the nodes that have ended have added to d.                         *)
LDComputed ==
  \A id \in Id : \A i \in Segment(id) :
    mem[i] = Ended(AxbFunc(id)) * (i * i) + Ended(DFunc(id)) * ((N - i) * (N - i))

(* Before the first submission nothing has been added.                     *)
LEMMA LDComputedInit == ASSUME LDProgram, Init PROVE LDComputed /\ ComputesCorrectly
<1> USE DEF LDProgram
<1>1. report = NoReport
  BY DEF Init, NoReport
<1> SUFFICES ASSUME NEW id \in Id, NEW i \in Segment(id)
             PROVE  mem[i] = Ended(AxbFunc(id)) * (i * i) + Ended(DFunc(id)) * ((N - i) * (N - i))
  BY <1>1 DEF LDComputed, ComputesCorrectly
<1>2. i \in Index /\ mem[i] = 0 /\ i \in Nat
  BY SegmentsAssumption DEF Init, LDInitMem, LDCell, Segment, Index
<1>3. Ended(AxbFunc(id)) = 0 /\ Ended(DFunc(id)) = 0
  BY LDNodes DEF Init, Ended
<1>4. N - i \in Int /\ i * i \in Int /\ (N - i) * (N - i) \in Int
  BY <1>2, SegmentsAssumption
<1> QED
  BY <1>2, <1>3, <1>4

(* A node adds its term to every element of its segment once: it works on  *)
(* current values, and no other node of the segment runs meanwhile.        *)
LEMMA LDEndStep ==
  ASSUME LDProgram, Inductive, LDComputed, NEW x \in LDNode, End(x)
  PROVE  LDComputed'
<1> USE DEF LDProgram
<1> USE SegmentsAssumption DEF Inductive, TypeOK
<1>1. /\ status[x] = "running"
      /\ status' = [status EXCEPT ![x] = "done"]
      /\ mem' = Atomic!Store(x, operands[x], mem)
      /\ round' = round /\ round \in Nat
  BY DEF End
<1>2. operands[x] = Atomic!Operands(x, mem)
  BY <1>1 DEF OperandsCurrent, InState
<1>3. \A i \in Segment(x[2]) : operands[x][i] = mem[i]
  BY <1>2 DEF Atomic!Operands, LDReads, LDWrites
<1>4. \A i \in Index :
        mem'[i] = IF i \in Segment(x[2]) THEN LDEval(x, operands[x])[i] ELSE mem[i]
  BY <1>1 DEF Atomic!Store, LDWrites, LDCell
<1> SUFFICES ASSUME NEW id \in Id, NEW i \in Segment(id)
             PROVE  mem'[i] = Ended(AxbFunc(id))' * (i * i) + Ended(DFunc(id))' * ((N - i) * (N - i))
  BY DEF LDComputed
<1>5. mem[i] = Ended(AxbFunc(id)) * (i * i) + Ended(DFunc(id)) * ((N - i) * (N - i))
  BY DEF LDComputed
<1>6. i \in Index /\ i \in Nat /\ N - i \in Int
  BY DEF Segment, Index
<1> DEFINE p == i * i
           q == (N - i) * (N - i)
<1>7. p \in Int /\ q \in Int
  BY <1>6
<1>8. AxbFunc(id) # DFunc(id) /\ AxbFunc(id) \in LDNode /\ DFunc(id) \in LDNode
  BY LDNodes DEF AxbFunc, DFunc
<1>9. CASE x[2] # id
  <2>1. i \notin Segment(x[2])
    BY <1>9, LDNodes, SegmentsDisjoint
  <2>2. x # AxbFunc(id) /\ x # DFunc(id)
    BY <1>9 DEF AxbFunc, DFunc
  <2>3. Ended(AxbFunc(id))' = Ended(AxbFunc(id)) /\ Ended(DFunc(id))' = Ended(DFunc(id))
    BY <1>1, <1>8, <2>2 DEF Ended
  <2> QED
    BY <1>4, <1>5, <1>6, <2>1, <2>3
<1>10. CASE x = AxbFunc(id)
  <2>1. LDEval(x, operands[x])[i] = mem[i] + i * (i * 1)
    BY <1>3, <1>10 DEF LDEval, AxbFunc
  <2>2. mem'[i] = mem[i] + p
    BY <1>4, <1>6, <1>10, <2>1 DEF AxbFunc
  <2>3. /\ Ended(AxbFunc(id))' = Ended(AxbFunc(id)) + 1 /\ Ended(DFunc(id))' = Ended(DFunc(id))
        /\ Ended(AxbFunc(id)) \in Int /\ Ended(DFunc(id)) \in Int
    BY <1>1, <1>8, <1>10 DEF Ended
  <2>4. mem[i] = Ended(AxbFunc(id)) * p + Ended(DFunc(id)) * q
    BY <1>5
  <2> HIDE DEF p, q
  <2>5. mem'[i] = (Ended(AxbFunc(id)) + 1) * p + Ended(DFunc(id)) * q
    BY <1>7, <2>2, <2>3, <2>4
  <2> QED
    BY <2>3, <2>5 DEF p, q
<1>11. CASE x = DFunc(id)
  <2>1. LDEval(x, operands[x])[i] = mem[i] + (N - i) * (N - i)
    BY <1>3, <1>11 DEF LDEval, DFunc
  <2>2. mem'[i] = mem[i] + q
    BY <1>4, <1>6, <1>11, <2>1 DEF DFunc
  <2>3. /\ Ended(AxbFunc(id))' = Ended(AxbFunc(id)) /\ Ended(DFunc(id))' = Ended(DFunc(id)) + 1
        /\ Ended(AxbFunc(id)) \in Int /\ Ended(DFunc(id)) \in Int
    BY <1>1, <1>8, <1>11 DEF Ended
  <2>4. mem[i] = Ended(AxbFunc(id)) * p + Ended(DFunc(id)) * q
    BY <1>5
  <2> HIDE DEF p, q
  <2>5. mem'[i] = Ended(AxbFunc(id)) * p + (Ended(DFunc(id)) + 1) * q
    BY <1>7, <2>2, <2>3, <2>4
  <2> QED
    BY <2>3, <2>5 DEF p, q
<1> QED
  BY <1>9, <1>10, <1>11, LDNodes

(* The other steps add nothing; the next test() finds both nodes of every  *)
(* segment ended once more, and the report finds them ended Loop times.    *)
LEMMA LDComputedStep ==
  ASSUME LDProgram, Inductive, LDComputed, ComputesCorrectly,
         [Next]_vars
  PROVE  LDComputed' /\ ComputesCorrectly'
<1> USE GraphAssumption DEF LDProgram
<1> USE DEF Inductive, TypeOK
<1>1. ASSUME NEW x \in LDNode, Start(x) PROVE LDComputed' /\ ComputesCorrectly'
  <2>1. \A y \in LDNode : (status'[y] = "done") = (status[y] = "done")
    BY <1>1 DEF Start
  <2>2. \A id \in Id : Ended(AxbFunc(id))' = Ended(AxbFunc(id)) /\ Ended(DFunc(id))' = Ended(DFunc(id))
    BY <1>1, <2>1, LDNodes DEF Start, Ended
  <2> QED
    BY <1>1, <2>2 DEF Start, LDComputed, ComputesCorrectly
<1>2. ASSUME NEW x \in LDNode, End(x) PROVE LDComputed' /\ ComputesCorrectly'
  <2>1. report' = report
    BY <1>2 DEF End
  <2> QED
    BY <1>2, <2>1, LDEndStep DEF ComputesCorrectly
<1>3. CASE Submit \/ WaitReturns \/ Destroy \/ UNCHANGED vars
  BY <1>3 DEF Submit, WaitReturns, Destroy, vars,
     LDComputed, ComputesCorrectly, Ended
<1>4. CASE NextTest
  <2>1. \A y \in LDNode : status[y] = "done" /\ status'[y] = "waiting"
    BY <1>4 DEF NextTest, MainFollowsNodes, InState
  <2>2. round' = round + 1 /\ round \in Int
    BY <1>4 DEF NextTest
  <2>3. \A y \in LDNode : Ended(y)' = Ended(y)
    BY <2>1, <2>2 DEF Ended
  <2> QED
    BY <1>4, <2>3, LDNodes DEF NextTest, LDComputed, ComputesCorrectly
<1>5. CASE ReportResult
  <2>1. \A y \in LDNode : status[y] = "done"
    BY <1>5 DEF ReportResult, MainFollowsNodes, InState
  <2>2. round = Loop /\ report' = Report(mem) /\ UNCHANGED <<status, mem, round>>
    BY <1>5 DEF ReportResult
  <2>3. ASSUME NEW i \in Index PROVE mem[i] = Loop * Expected(i)
    <3>1. PICK id \in Id : i \in Segment(id)
      BY SegmentsCover
    <3>2. Ended(AxbFunc(id)) = Loop /\ Ended(DFunc(id)) = Loop
      BY <2>1, <2>2, LDNodes DEF Ended
    <3> DEFINE p == i * i
               q == (N - i) * (N - i)
    <3>3. mem[i] = Loop * p + Loop * q
      BY <3>1, <3>2 DEF LDComputed
    <3>4. p \in Int /\ q \in Int /\ Expected(i) = q + p
      BY SegmentsAssumption DEF Expected, Index
    <3> HIDE DEF p, q
    <3> QED
      BY <3>3, <3>4
  <2>4. ComputesCorrectly'
    BY <2>2, <2>3 DEF ComputesCorrectly, Report
  <2> QED
    BY <2>2, <2>4 DEF LDComputed, Ended
<1> QED
  BY <1>1, <1>2, <1>3, <1>4, <1>5 DEF Next, Main

-----------------------------------------------------------------------------
(* No two node functions that work on the same segment of d ever overlap:  *)
(* no "d[i] +=" loses an addition.                                         *)
THEOREM LocalDependencyNoRaces ==
  ASSUME LDProgram PROVE Spec => []RaceFree
BY LDBeforeFromDeps, LDConflictsOrdered, NoRaces

(* The nums array and the graphs outlive every node function that uses     *)
(* them.                                                                   *)
THEOREM LocalDependencyArgsLive ==
  ASSUME LDProgram PROVE Spec => []ArgsOutliveTasks
BY LDBeforeFromDeps, LDConflictsOrdered, ArgsLive

(* main reports what it would if axb_func and d_func were indivisible.     *)
THEOREM LocalDependencyImplementation ==
  ASSUME LDProgram PROVE Spec => ImplementsAtomic
BY LDBeforeFromDeps, LDConflictsOrdered, Implementation

(* main prints "compute correctly", for every array length, number of      *)
(* segments, LOOP and number of executors.                                 *)
THEOREM LocalDependencyComputesCorrectly ==
  ASSUME LDProgram PROVE Spec => []ComputesCorrectly
<1>1. Init => LDComputed /\ ComputesCorrectly
  BY LDComputedInit
<1>2. Inductive /\ LDComputed /\ ComputesCorrectly /\ [Next]_vars
        => LDComputed' /\ ComputesCorrectly'
  BY LDComputedStep
<1>3. Spec => []Inductive
  BY LDBeforeFromDeps, LDConflictsOrdered, Invariance
<1> QED
  BY <1>1, <1>2, <1>3, PTL DEF Spec
=============================================================================
