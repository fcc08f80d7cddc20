-------------------------- MODULE LocalDependency --------------------------
(***************************************************************************)
(* The computation of kupl/general/local_dependency: the array d, cut into *)
(* one segment per executor, gets d[i] += a[i] * b[i] (i times) and then   *)
(* d[i] += c[i] (N - i times), the second on a segment after the first on  *)
(* the same segment.  Both functions read, add to and store every element  *)
(* of their segment of d.  The inputs are those of main: a[i] = i,         *)
(* b[i] = 1, c[i] = N - i, d[i] = 0.  The graph version makes the order a  *)
(* dependency per segment, the parallel-for version runs one loop after    *)
(* the other.                                                              *)
(***************************************************************************)
EXTENDS Integers

CONSTANTS
  N,    \* elements
  Ids   \* num_executors, and so the number of segments

ASSUME SegmentsAssumption == N \in Nat \ {0} /\ Ids \in Nat \ {0}

Id == 0 .. Ids - 1
Index == 0 .. N - 1

AxbFunc(id) == <<"axb_func", id>>
DFunc(id) == <<"d_func", id>>

LDNode == {AxbFunc(id) : id \in Id} \cup {DFunc(id) : id \in Id}

\* Mutant: kupl_sgraph_add_dep is not called.
LDDepNone == {}

LDDep == {<<AxbFunc(id), DFunc(id)>> : id \in Id}

LDCell == Index

\* Mutant: segments of equal length N / Ids, the remainder forgotten.
SegmentEqual(id) == {i \in Index : id * (N \div Ids) <= i /\ i < (id + 1) * (N \div Ids)}

Segment(id) == {i \in Index : (id * N) \div Ids <= i /\ i < ((id + 1) * N) \div Ids}

LDWrites == [x \in LDNode |-> Segment(x[2])]
LDReads == LDWrites

LDInitMem == [i \in LDCell |-> 0]

LDEval(x, in) ==
  [i \in Segment(x[2]) |->
     IF x[1] = "axb_func" THEN in[i] + i * (i * 1) ELSE in[i] + (N - i) * (N - i)]

(* What main compares d[i] / LOOP with.                                    *)
Expected(i) == (N - i) * (N - i) + i * i
=============================================================================
