------------------------ MODULE EgroupScaling_proofs ------------------------
(***************************************************************************)
(* Proofs about EgroupScaling for every group size and every number of     *)
(* loops.                                                                  *)
(***************************************************************************)
EXTENDS EgroupScaling, TLAPS

(* The groups a and b are created with cut the executors in two.           *)
LEMMA InitialGroups ==
  /\ Initial \in [Node -> SUBSET Executor]
  /\ Initial["a"] \cup Initial["b"] = Executor
  /\ Initial["a"] \cap Initial["b"] = {}
  /\ Initial["c"] = Executor
  /\ egroup_create(0, 0) = {}
<1> GroupSize \in Nat \ {0}
  BY ScalingAssumption
<1>1. /\ Initial["a"] = 0 .. GroupSize - 1
      /\ Initial["b"] = GroupSize .. 2 * GroupSize - 1
      /\ Initial["c"] = 0 .. 2 * GroupSize - 1
      /\ Initial = [n \in Node |-> Initial[n]]
  BY SMT DEF Initial, egroup_create, Node
<1>2. \A n \in Node : Initial[n] \subseteq Executor
  BY <1>1, SMT DEF Node, Executor
<1>3. Initial \in [Node -> SUBSET Executor]
  BY <1>1, <1>2
<1>4. egroup_create(0, 0) = {}
  BY SMT DEF egroup_create
<1> QED
  BY <1>1, <1>3, <1>4, SMT DEF Executor

(* The groups that main creates part the executors between a and b.        *)
LEMMA InductiveInit == Init => Inductive
<1> SUFFICES ASSUME Init PROVE Inductive
  OBVIOUS
<1> USE InitialGroups, ScalingAssumption DEF Init
<1>1. TypeOK
  BY DEF TypeOK, Node
<1>2. NodesFollowDep /\ LoopsLeft /\ UsingWithinGroup
  BY DEF NodesFollowDep, LoopsLeft, UsingWithinGroup, Dep, Node
<1>3. ExecutorsPartitioned
  BY DEF ExecutorsPartitioned, Holding, Node
<1> QED
  BY <1>1, <1>2, <1>3 DEF Inductive

(* A step of the main thread leaves nodes and groups alone.                *)
LEMMA MainStep == Inductive /\ Main => Inductive'
<1> SUFFICES ASSUME Inductive, Main PROVE Inductive'
  OBVIOUS
<1> USE DEF Inductive
<1>1. UNCHANGED <<pc, left, group, g_egroup, using>>
  BY DEF Main, Submit, WaitReturns, Destroy
<1>2. TypeOK'
  BY <1>1 DEF TypeOK, Main, Submit, WaitReturns, Destroy
<1>3. NodesFollowDep'
  BY <1>1 DEF NodesFollowDep, TypeOK, Main, Submit, WaitReturns, Destroy
<1>4. LoopsLeft' /\ UsingWithinGroup' /\ ExecutorsPartitioned'
  BY <1>1 DEF LoopsLeft, UsingWithinGroup, ExecutorsPartitioned, Holding
<1> QED
  BY <1>2, <1>3, <1>4

(* A node function runs only while main waits.                             *)
LEMMA NodeStepsWhileWaiting ==
  ASSUME Inductive, NEW n \in Node, NodeStep(n)
  PROVE  main = "wait" /\ main' = "wait"
  BY DEF Inductive, NodesFollowDep, NodeStep, Start, Borrow, StartLoop, LoopReturns, Return,
         Reset, ResetGlobal

(* A step keeps every variable's type.                                     *)
LEMMA StepTypeOK ==
  ASSUME Inductive, NEW n \in Node, NodeStep(n)
  PROVE  TypeOK'
<1> USE InitialGroups DEF Inductive, TypeOK, Node
<1>1. CASE Start(n)
  BY <1>1 DEF Start
<1>2. CASE Borrow(n)
  BY <1>2 DEF Borrow
<1>3. CASE StartLoop(n)
  BY <1>3 DEF StartLoop, LoopsLeft
<1>4. CASE LoopReturns(n)
  BY <1>4 DEF LoopReturns, AfterLoop
<1>5. CASE Return(n)
  BY <1>5 DEF Return
<1>6. CASE Reset(n)
  BY <1>6 DEF Reset
<1>7. CASE ResetGlobal(n)
  BY <1>7 DEF ResetGlobal
<1> QED
  BY <1>1, <1>2, <1>3, <1>4, <1>5, <1>6, <1>7 DEF NodeStep

(* A step keeps c behind a and b, and main behind all three.               *)
LEMMA StepNodesFollowDep ==
  ASSUME Inductive, NEW n \in Node, NodeStep(n)
  PROVE  NodesFollowDep'
<1> USE NodeStepsWhileWaiting DEF Inductive, TypeOK, Node, NodesFollowDep, Dep
<1>1. CASE Start(n)
  BY <1>1 DEF Start
<1>2. CASE Borrow(n)
  BY <1>2 DEF Borrow
<1>3. CASE StartLoop(n)
  BY <1>3 DEF StartLoop
<1>4. CASE LoopReturns(n)
  BY <1>4 DEF LoopReturns, AfterLoop
<1>5. CASE Return(n)
  BY <1>5 DEF Return
<1>6. CASE Reset(n)
  BY <1>6 DEF Reset
<1>7. CASE ResetGlobal(n)
  BY <1>7 DEF ResetGlobal
<1> QED
  BY <1>1, <1>2, <1>3, <1>4, <1>5, <1>6, <1>7 DEF NodeStep

(* A step keeps parallel fors within the group of their node, and the      *)
(* count of those still to come positive where one is about to start.      *)
LEMMA StepLoops ==
  ASSUME Inductive, NEW n \in Node, NodeStep(n)
  PROVE  LoopsLeft' /\ UsingWithinGroup'
<1> USE DEF Inductive, TypeOK, Node, LoopsLeft, UsingWithinGroup
<1>1. CASE Start(n)
  BY <1>1 DEF Start
<1>2. CASE Borrow(n)
  BY <1>2 DEF Borrow
<1>3. CASE StartLoop(n)
  BY <1>3 DEF StartLoop
<1>4. CASE LoopReturns(n)
  BY <1>4 DEF LoopReturns, AfterLoop
<1>5. CASE Return(n)
  BY <1>5 DEF Return
<1>6. CASE Reset(n)
  BY <1>6 DEF Reset
<1>7. CASE ResetGlobal(n)
  BY <1>7 DEF ResetGlobal
<1> QED
  BY <1>1, <1>2, <1>3, <1>4, <1>5, <1>6, <1>7 DEF NodeStep

(* A step, a borrow or a return above all, keeps every executor in one     *)
(* place.                                                                  *)
LEMMA StepPartition ==
  ASSUME Inductive, NEW n \in Node, NodeStep(n)
  PROVE  ExecutorsPartitioned'
<1> SUFFICES ASSUME pc'["c"] = "waiting"
             PROVE  /\ \A x \in Executor : x \in g_egroup' \/ \E m \in Holding' : x \in group'[m]
                    /\ \A m \in Holding' : group'[m] \cap g_egroup' = {}
                    /\ \A k, m \in Holding' : k # m => group'[k] \cap group'[m] = {}
  BY DEF ExecutorsPartitioned
<1>0. n # "c" /\ pc["c"] = "waiting"
  BY DEF Inductive, TypeOK, NodesFollowDep, NodeStep, Start, Borrow, StartLoop, LoopReturns,
         AfterLoop, Return, Reset, ResetGlobal, Node
<1> USE <1>0 DEF Inductive, TypeOK, ExecutorsPartitioned, Node, Holding
<1>1. CASE Start(n)
  BY <1>1 DEF Start
<1>2. CASE Borrow(n)
  BY <1>2 DEF Borrow
<1>3. CASE StartLoop(n)
  BY <1>3 DEF StartLoop
<1>4. CASE LoopReturns(n)
  BY <1>4 DEF LoopReturns, AfterLoop
<1>5. CASE Return(n)
  BY <1>5 DEF Return
<1>6. CASE Reset(n)
  BY <1>6 DEF Reset
<1>7. CASE ResetGlobal(n)
  BY <1>7 DEF ResetGlobal, NodesFollowDep
<1> QED
  BY <1>1, <1>2, <1>3, <1>4, <1>5, <1>6, <1>7 DEF NodeStep

(* A step keeps the whole invariant.                                       *)
LEMMA InductiveStep == Inductive /\ [Next]_vars => Inductive'
<1> SUFFICES ASSUME Inductive, [Next]_vars PROVE Inductive'
  OBVIOUS
<1>1. CASE Main
  BY <1>1, MainStep
<1>2. CASE \E n \in Node : NodeStep(n)
  BY <1>2, StepTypeOK, StepNodesFollowDep, StepLoops, StepPartition DEF Inductive
<1>3. CASE UNCHANGED vars
  BY <1>3 DEF vars, Inductive, TypeOK, NodesFollowDep, LoopsLeft, UsingWithinGroup,
              ExecutorsPartitioned, Holding
<1> QED
  BY <1>1, <1>2, <1>3 DEF Next

(* However often a and b borrow, loop, return and reset, the strengthened  *)
(* invariant of the node functions holds.                                  *)
THEOREM Invariance == Spec => []Inductive
<1>1. Init => Inductive
  BY InductiveInit
<1>2. Inductive /\ [Next]_vars => Inductive'
  BY InductiveStep
<1> QED
  BY <1>1, <1>2, PTL DEF Spec

(* Borrowing and returning neither lose nor duplicate an executor before c *)
(* starts.                                                                 *)
THEOREM Partition == Spec => []ExecutorsPartitioned
<1>1. Inductive => ExecutorsPartitioned
  BY DEF Inductive
<1> QED
  BY <1>1, Invariance, PTL

(* No executor is ever in the parallel fors of two nodes: a and b hold     *)
(* disjoint groups, and c runs when a and b have ended.                    *)
THEOREM Disjoint == Spec => []LoopsDisjoint
<1>1. Inductive => LoopsDisjoint
  <2> SUFFICES ASSUME Inductive, NEW m \in Node, NEW n \in Node, m # n
               PROVE  using[m] \cap using[n] = {}
    BY DEF LoopsDisjoint
  <2> USE DEF Inductive, UsingWithinGroup
  <2>1. CASE pc[m] # "looping" \/ pc[n] # "looping"
    BY <2>1
  <2>2. CASE pc[m] = "looping" /\ pc[n] = "looping"
    <3>1. pc["c"] = "waiting" /\ m # "c" /\ n # "c"
      BY <2>2 DEF NodesFollowDep, Dep, Node
    <3> QED
      BY <2>2, <3>1 DEF ExecutorsPartitioned, Holding, Node
  <2> QED
    BY <2>1, <2>2
<1> QED
  BY <1>1, Invariance, PTL

(* main destroys the groups when no parallel for is left that runs on      *)
(* them.                                                                   *)
THEOREM GroupsOutlive == Spec => []GroupsOutliveLoops
<1>1. Inductive => GroupsOutliveLoops
  BY DEF Inductive, NodesFollowDep, UsingWithinGroup, GroupsOutliveLoops
<1> QED
  BY <1>1, Invariance, PTL

(* A node that borrows after the other has returned gets every executor.   *)
THEOREM TakesAll == Spec => BorrowTakesAll
<1> DEFINE All == \A n \in {"a", "b"} :
                    pc[n] = "borrow" /\ pc'[n] = "loop" /\ Holding = {n} => group'[n] = Executor
<1>1. Inductive /\ [Next]_vars => [All]_vars
  <2> SUFFICES ASSUME Inductive, Next, NEW n \in {"a", "b"},
                      pc[n] = "borrow", pc'[n] = "loop", Holding = {n}
               PROVE  group'[n] = Executor
    BY DEF All
  <2> USE DEF Inductive
  <2>1. PICK m \in Node : NodeStep(m)
    BY DEF Next, Main, Submit, WaitReturns, Destroy
  <2>2. Borrow(n)
    BY <2>1 DEF NodeStep, Start, Borrow, StartLoop, LoopReturns, AfterLoop, Return, Reset,
                ResetGlobal, TypeOK, NodesFollowDep, Node
  <2>3. pc["c"] = "waiting"
    BY <2>2 DEF Borrow, NodesFollowDep, Dep, Node
  <2>4. Executor \subseteq g_egroup \cup group[n]
    BY <2>3 DEF ExecutorsPartitioned
  <2> QED
    BY <2>2, <2>4 DEF Borrow, TypeOK, Node
<1> QED
  BY <1>1, Invariance, PTL DEF Spec, BorrowTakesAll
=============================================================================
