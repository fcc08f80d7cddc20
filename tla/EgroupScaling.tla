--------------------------- MODULE EgroupScaling ---------------------------
(***************************************************************************)
(* kupl/general/dynamic_parallelism_scaling: the nodes a, b and c of a     *)
(* static graph run parallel fors on executor groups of their own; c       *)
(* follows a and b.  A node that is through with its loops returns its     *)
(* executors to the group g_egroup, and a and b borrow from g_egroup       *)
(* before each loop, so that the one that takes longer goes on with the    *)
(* executors of both.                                                      *)
(*                                                                         *)
(* KUPL is external: kupl_egroup_borrow(to, from) and                      *)
(* kupl_egroup_return(to, from) move all executors of one group to         *)
(* another in one step, kupl_egroup_reset puts a group back to what it was *)
(* created with, and a parallel for runs on the executors its group has    *)
(* when the loop starts.                                                   *)
(***************************************************************************)
EXTENDS Integers, FiniteSets

CONSTANTS
  GroupSize,   \* executors of egroup_a and of egroup_b, 8 in the program
  Loops        \* node -> how many parallel fors it runs, 100, 10 and 10

ASSUME ScalingAssumption ==
  /\ GroupSize \in Nat \ {0}
  /\ Loops \in [{"a", "b", "c"} -> Nat \ {0}]

VARIABLES
  main,      \* the main thread: "submit", "wait", "returned" or "destroyed"
  pc,        \* node -> where its function is
  left,      \* node -> the parallel fors it still has to start
  group,     \* node -> the executors in its group
  g_egroup,
  using      \* node -> the executors of the parallel for it is in

vars == <<main, pc, left, group, g_egroup, using>>

-----------------------------------------------------------------------------
Node == {"a", "b", "c"}

\* Mutant: c does not wait for a.
DepOnlyB == {<<"b", "c">>}

Dep == {<<"a", "c">>, <<"b", "c">>}

egroup_create(startEid, executorsNum) == startEid .. startEid + executorsNum - 1

Initial ==
  [a |-> egroup_create(0, GroupSize), b |-> egroup_create(GroupSize, GroupSize),
   c |-> egroup_create(0, 2 * GroupSize)]

Executor == 0 .. 2 * GroupSize - 1

Init ==
  /\ main = "submit"
  /\ pc = [n \in Node |-> "waiting"]
  /\ left = Loops
  /\ group = Initial
  /\ g_egroup = egroup_create(0, 0)
  /\ using = [n \in Node |-> {}]

-----------------------------------------------------------------------------
(* The main thread.                                                        *)

Submit ==
  /\ main = "submit"
  /\ main' = "wait"
  /\ UNCHANGED <<pc, left, group, g_egroup, using>>

\* Mutant: main does not wait for node c.
WaitReturnsEarly ==
  /\ main = "wait"
  /\ pc["a"] = "done" /\ pc["b"] = "done"
  /\ main' = "returned"
  /\ UNCHANGED <<pc, left, group, g_egroup, using>>

WaitReturns ==
  /\ main = "wait"
  /\ \A n \in Node : pc[n] = "done"
  /\ main' = "returned"
  /\ UNCHANGED <<pc, left, group, g_egroup, using>>

Destroy ==
  /\ main = "returned"
  /\ main' = "destroyed"
  /\ UNCHANGED <<pc, left, group, g_egroup, using>>

-----------------------------------------------------------------------------
(* The node functions.  a and b: borrow, loop, ..., return, reset; c:      *)
(* reset g_egroup, loop, ...                                               *)

Start(n) ==
  /\ main = "wait"
  /\ pc[n] = "waiting"
  /\ \A p \in Dep : p[2] = n => pc[p[1]] = "done"
  /\ pc' = [pc EXCEPT ![n] = IF n = "c" THEN "reset_g" ELSE "borrow"]
  /\ UNCHANGED <<main, left, group, g_egroup, using>>

\* Mutant: the executors are borrowed but stay in g_egroup as well.
BorrowCopies(n) ==
  /\ pc[n] = "borrow"
  /\ group' = [group EXCEPT ![n] = @ \cup g_egroup]
  /\ pc' = [pc EXCEPT ![n] = "loop"]
  /\ UNCHANGED <<main, left, g_egroup, using>>

Borrow(n) ==
  /\ pc[n] = "borrow"
  /\ group' = [group EXCEPT ![n] = @ \cup g_egroup]
  /\ g_egroup' = {}
  /\ pc' = [pc EXCEPT ![n] = "loop"]
  /\ UNCHANGED <<main, left, using>>

StartLoop(n) ==
  /\ pc[n] = "loop"
  /\ using' = [using EXCEPT ![n] = group[n]]
  /\ left' = [left EXCEPT ![n] = @ - 1]
  /\ pc' = [pc EXCEPT ![n] = "looping"]
  /\ UNCHANGED <<main, group, g_egroup>>

AfterLoop(n) ==
  CASE n = "c" /\ left[n] > 0 -> "loop"
    [] n = "c" /\ left[n] = 0 -> "done"
    [] n # "c" /\ left[n] > 0 -> "borrow"
    [] n # "c" /\ left[n] = 0 -> "return"

LoopReturns(n) ==
  /\ pc[n] = "looping"
  /\ using' = [using EXCEPT ![n] = {}]
  /\ pc' = [pc EXCEPT ![n] = AfterLoop(n)]
  /\ UNCHANGED <<main, left, group, g_egroup>>

\* Mutant: the reset comes without a return.
ReturnForgotten(n) ==
  /\ pc[n] = "return"
  /\ pc' = [pc EXCEPT ![n] = "reset"]
  /\ UNCHANGED <<main, left, group, g_egroup, using>>

Return(n) ==
  /\ pc[n] = "return"
  /\ g_egroup' = g_egroup \cup group[n]
  /\ group' = [group EXCEPT ![n] = {}]
  /\ pc' = [pc EXCEPT ![n] = "reset"]
  /\ UNCHANGED <<main, left, using>>

Reset(n) ==
  /\ pc[n] = "reset"
  /\ group' = [group EXCEPT ![n] = Initial[n]]
  /\ pc' = [pc EXCEPT ![n] = "done"]
  /\ UNCHANGED <<main, left, g_egroup, using>>

ResetGlobal(n) ==
  /\ pc[n] = "reset_g"
  /\ g_egroup' = egroup_create(0, 0)
  /\ pc' = [pc EXCEPT ![n] = "loop"]
  /\ UNCHANGED <<main, left, group, using>>

NodeStep(n) ==
  Start(n) \/ Borrow(n) \/ StartLoop(n) \/ LoopReturns(n) \/ Return(n) \/ Reset(n) \/ ResetGlobal(n)

Main == Submit \/ WaitReturns \/ Destroy

Next == Main \/ \E n \in Node : NodeStep(n)

Spec == Init /\ [][Next]_vars

-----------------------------------------------------------------------------
TypeOK ==
  /\ main \in {"submit", "wait", "returned", "destroyed"}
  /\ pc \in [Node -> {"waiting", "reset_g", "borrow", "loop", "looping", "return", "reset", "done"}]
  /\ left \in [Node -> Nat]
  /\ group \in [Node -> SUBSET Executor]
  /\ g_egroup \subseteq Executor
  /\ using \in [Node -> SUBSET Executor]

(* No executor is in the parallel fors of two nodes at once, however       *)
(* groups were borrowed, returned and reset before.                        *)
LoopsDisjoint ==
  \A m, n \in Node : m # n => using[m] \cap using[n] = {}

(* While node b or node a is at work it holds its executors until it       *)
(* returns them.                                                           *)
Holding == {n \in {"a", "b"} : pc[n] \notin {"reset", "done"}}

(* Until c starts, every executor is in g_egroup or in the group of        *)
(* exactly one of the nodes that still hold theirs: borrowing and          *)
(* returning neither lose nor duplicate an executor.                       *)
ExecutorsPartitioned ==
  pc["c"] = "waiting" =>
    /\ \A x \in Executor : x \in g_egroup \/ \E n \in Holding : x \in group[n]
    /\ \A n \in Holding : group[n] \cap g_egroup = {}
    /\ \A m, n \in Holding : m # n => group[m] \cap group[n] = {}

(* "a can take all threads once b has returned its own" (and the reverse): *)
(* a loop for which a node borrowed after the other had returned runs on   *)
(* every executor.                                                         *)
BorrowTakesAll ==
  [][\A n \in {"a", "b"} : pc[n] = "borrow" /\ pc'[n] = "loop" /\ Holding = {n}
        => group'[n] = Executor]_vars

(* No parallel for is running once main destroys the groups.               *)
GroupsOutliveLoops ==
  main \in {"returned", "destroyed"} => \A n \in Node : using[n] = {}

-----------------------------------------------------------------------------
(* The inductive invariant behind LoopsDisjoint.                           *)
NodesFollowDep ==
  /\ \A p \in Dep : pc[p[2]] # "waiting" => pc[p[1]] = "done"
  /\ pc["c"] \notin {"borrow", "return", "reset"}
  /\ pc["a"] # "reset_g" /\ pc["b"] # "reset_g"
  /\ main # "wait" => \A n \in Node : pc[n] \in {"waiting", "done"}
  /\ main \in {"returned", "destroyed"} => \A n \in Node : pc[n] = "done"

UsingWithinGroup ==
  \A n \in Node : using[n] = IF pc[n] = "looping" THEN group[n] ELSE {}

LoopsLeft ==
  \A n \in Node : pc[n] \in {"waiting", "reset_g", "borrow", "loop"} => left[n] > 0

Inductive ==
  TypeOK /\ NodesFollowDep /\ LoopsLeft /\ UsingWithinGroup /\ ExecutorsPartitioned
=============================================================================
