-------------------------- MODULE ParallelPrograms -------------------------
(***************************************************************************)
(* The programs for ParallelFors: general/local_dependency in its          *)
(* parallel-for version, general/parallel, mt/parallel_for_1d, of which    *)
(* mt/parallel_for_1d_lambda is a copy with a lambda for a body, and       *)
(* mt/parallel_for_3d.  All loops have the static policy.                  *)
(***************************************************************************)
EXTENDS Integers, Sequences, LocalDependency

CONSTANTS
  LOOP,                  \* calls of test() in local_dependency
  Workers,               \* executors that serve its loops
  NumThreads,            \* kupl_get_num_executors() in the other programs
  HEIGHT, LENGTH, WIDTH  \* of the arrays of parallel_for_3d

ASSUME ThreadsAssumption ==
  {LOOP, Workers, NumThreads, HEIGHT, LENGTH, WIDTH} \subseteq Nat \ {0}

(* The share of thread t in a range of the given size under the static     *)
(* policy; a thread without a share does not run the body.                 *)
Share(t, size) ==
  {i \in 0 .. size - 1 :
     (t * size) \div NumThreads <= i /\ i < ((t + 1) * size) \div NumThreads}

Chunks(name, size) == {<<name, t>> : t \in {u \in 0 .. NumThreads - 1 : Share(u, size) # {}}}

-----------------------------------------------------------------------------
(* local_dependency: LOOP calls of test(), each with an egroup of its own. *)

TestScript(n) == <<
  <<"parallel_for", n, {<<"axb_func", id, n>> : id \in Id}>>,
  <<"parallel_for", n, {<<"d_func", id, n>> : id \in Id}>>,
  <<"destroy", n>> >>

LDScript ==
  [s \in 1 .. 3 * LOOP |-> TestScript((s - 1) \div 3)[((s - 1) % 3) + 1]] \o << <<"report">> >>

LDAccess == [c \in {"axb_func", "d_func"} \X Id \X (0 .. LOOP - 1) |-> Segment(c[2])]

-----------------------------------------------------------------------------
(* parallel: a range of one index per thread, and a barrier in the body.   *)

\* Mutant: the upper bound of the range is one too small.
RangeUpperShort == NumThreads - 1

RangeUpper == NumThreads

ParallelScript == <<
  <<"parallel_for", "egroup", Chunks("barrier", RangeUpper)>>,
  <<"destroy", "egroup">> >>

ParallelAccess == [c \in Chunks("barrier", RangeUpper) |-> {}]

-----------------------------------------------------------------------------
(* parallel_for_1d: C[i] = A[i] + B[i].                                    *)

A1D == <<1, 2, 3, 4, 6, 8, 9, 17, 18, 20, 32, 67, 83, 128>>
B1D == <<1, 2, 3, 4, 5, 6, 7, 8, 10, 11, 16, 17, 23, 24>>
Upper1D == 14
Chunks1D == Chunks("1d", Upper1D)

Script1D == << <<"parallel_for", "eg", Chunks1D>>, <<"report">>, <<"destroy", "eg">> >>
Writes1D == [c \in Chunks1D |-> Share(c[2], Upper1D)]
Eval1D(c) == [i \in Share(c[2], Upper1D) |-> A1D[i + 1] + B1D[i + 1]]
Init1D == [i \in 0 .. Upper1D - 1 |-> 0]

-----------------------------------------------------------------------------
(* parallel_for_3d: C[i][j][k] = A[i][j][k] + B[i][j][k], cut by pages.    *)

Chunks3D == Chunks("3d", HEIGHT)

(* nd_range of the chunk of thread t: columns, rows and pages.             *)
NdRange(t) == [d \in 0 .. 2 |->
  CASE d = 0 -> 0 .. WIDTH - 1 [] d = 1 -> 0 .. LENGTH - 1 [] d = 2 -> Share(t, HEIGHT)]

Box(t) == NdRange(t)[2] \X NdRange(t)[1] \X NdRange(t)[0]

Script3D == << <<"parallel_for", "eg", Chunks3D>>, <<"report">>, <<"destroy", "eg">> >>
Writes3D == [c \in Chunks3D |-> Box(c[2])]
Init3D == [x \in (0 .. HEIGHT - 1) \X (0 .. LENGTH - 1) \X (0 .. WIDTH - 1) |-> 0]
Index3D(x) == x[1] + x[2] + x[3]
Eval3D(c) == [x \in Box(c[2]) |-> Index3D(x) + Index3D(x)]

-----------------------------------------------------------------------------
NoReads(writes) == [c \in DOMAIN writes |-> {}]

ParallelPrograms == [
  local_dependency |->
    [script |-> LDScript, executors |-> Workers, barrier |-> FALSE,
     reads |-> LDAccess, writes |-> LDAccess, init |-> LDInitMem,
     prints |-> [i \in Index |-> LOOP * Expected(i)]],
  parallel |->
    [script |-> ParallelScript, executors |-> NumThreads, barrier |-> TRUE,
     reads |-> ParallelAccess, writes |-> ParallelAccess, init |-> <<>>, prints |-> <<>>],
  parallel_for_1d |->
    [script |-> Script1D, executors |-> NumThreads, barrier |-> FALSE,
     reads |-> NoReads(Writes1D), writes |-> Writes1D, init |-> Init1D,
     prints |-> [i \in DOMAIN Init1D |-> A1D[i + 1] + B1D[i + 1]]],
  parallel_for_3d |->
    [script |-> Script3D, executors |-> NumThreads, barrier |-> FALSE,
     reads |-> NoReads(Writes3D), writes |-> Writes3D, init |-> Init3D,
     prints |-> [x \in DOMAIN Init3D |-> 2 * Index3D(x)]]]

ChunkEval(c, in) ==
  CASE c[1] \in {"axb_func", "d_func"} -> LDEval(c, in)
    [] c[1] = "barrier" -> in
    [] c[1] = "1d" -> Eval1D(c)
    [] c[1] = "3d" -> Eval3D(c)
=============================================================================
