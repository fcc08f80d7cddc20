--------------------------- MODULE ZgemmRestrain ---------------------------
(***************************************************************************)
(* kupl/general/zgemm_restrain: r[m] is to be the sum over n of the square *)
(* of (A * B)[m][n], without keeping A * B.  The rows are cut into one     *)
(* range per thread; a thread walks its rows, all columns and all of K in  *)
(* blocks, has the library compute a block of A * B over the minL terms of *)
(* this ls into c, and adds the squares of c to r.  The matrices are those *)
(* of main: A[i] = i in its real parts, B = 1.  The KUPL version starts    *)
(* threadNum threads, the OMP version as many as there are nonempty row    *)
(* ranges.                                                                 *)
(***************************************************************************)
EXTENDS Integers, FiniteSets, FiniteSetsExt

CONSTANTS
  MaxM, MaxN, MaxK, MaxThreads,  \* bounds on the command line arguments
  GEMM_P, GEMM_Q, GEMM_R, GEMM_UNROLL_N

ASSUME SizesAssumption ==
  /\ {MaxM, MaxN, MaxK, MaxThreads} \subseteq Nat \ {0}
  /\ {GEMM_P, GEMM_Q, GEMM_R, GEMM_UNROLL_N} \subseteq Nat \ {0}

VARIABLES
  args,      \* the command line: M, N, K, threads, and which version runs
  todo,      \* thread -> the blocks it has not computed yet
  loaded,    \* thread -> what it read from r for its block, NoRows between blocks
  r,
  added      \* how often a term (m, n, l) has gone into r

vars == <<args, todo, loaded, r, added>>

Row == 0 .. args.M - 1
Column == 0 .. args.N - 1
Term == 0 .. args.K - 1
NoRows == <<>>

-----------------------------------------------------------------------------
(* GetMThreadsRegions, GEMM_PREFERRED_SIZE being 1: Left(m, n)[p] rows are *)
(* left when p of n threads have theirs.                                   *)

Width(m, parts) == (m + parts - 1) \div parts

Left(m, n) ==
  LET f[p \in 0 .. n] ==
        IF p = 0 THEN m
        ELSE IF f[p - 1] > 0 THEN Max({0, f[p - 1] - Width(f[p - 1], n - (p - 1))}) ELSE 0
  IN f

RangeM(m, n) == [p \in 0 .. n |-> m - Left(m, n)[p]]

NumParts(m, n) == Cardinality({p \in 0 .. n - 1 : Left(m, n)[p] > 0})

Threads(a) == 0 .. (IF a.version = "kupl" THEN a.threads ELSE NumParts(a.M, a.threads)) - 1

-----------------------------------------------------------------------------
(* The loop nest of one thread.  The columns are walked in two loops: from *)
(* column tid * GEMM_UNROLL_N of the panel to its end, then the ones       *)
(* before, so that threads start at different places.                      *)

Steps(from, to, by) == {x \in from .. to - 1 : (x - from) % by = 0}

Least(x, y) == IF x < y THEN x ELSE y

\* Mutant: the rows of a block are clipped at the end of the matrix only.
MinIToM(a, tid, is) == Least(a.M - is, GEMM_P)

MinI(a, tid, is) == Least(RangeM(a.M, a.threads)[tid + 1] - is, GEMM_P)

MinL(a, ls) == Least(a.K - ls, GEMM_Q)

PanelEnd(a, js) == Least(js + GEMM_R, a.N)

SecondLoopEnd(a, tid, js) == Least(js + tid * GEMM_UNROLL_N, PanelEnd(a, js))

\* Mutant: the columns before the starting point are forgotten.
ColumnStepsFirstLoop(a, tid, js) ==
  {[half |-> 1, jjs |-> jjs, end |-> PanelEnd(a, js)] :
     jjs \in Steps(js + tid * GEMM_UNROLL_N, PanelEnd(a, js), GEMM_UNROLL_N)}

(* The first columns of the blocks of one panel, with the loop they are in *)
(* and where that loop ends.                                               *)
ColumnSteps(a, tid, js) ==
  LET start == js + tid * GEMM_UNROLL_N
  IN {[half |-> 1, jjs |-> jjs, end |-> PanelEnd(a, js)] :
        jjs \in Steps(start, PanelEnd(a, js), GEMM_UNROLL_N)}
       \cup
     {[half |-> 2, jjs |-> jjs, end |-> SecondLoopEnd(a, tid, js)] :
        jjs \in Steps(js, SecondLoopEnd(a, tid, js), GEMM_UNROLL_N)}

Blocks(a, tid) ==
  LET rangeM == RangeM(a.M, a.threads)
      Panel(ls, is, js) ==
        {[ls |-> ls, minL |-> MinL(a, ls), is |-> is, minI |-> MinI(a, tid, is), js |-> js,
          half |-> c.half, jjs |-> c.jjs, minjj |-> Least(c.end - c.jjs, GEMM_UNROLL_N)] :
           c \in ColumnSteps(a, tid, js)}
  IN UNION {Panel(x[1], x[2], x[3]) :
              x \in Steps(0, a.K, GEMM_Q)
                      \X Steps(rangeM[tid], rangeM[tid + 1], GEMM_P)
                      \X Steps(0, a.N, GEMM_R)}

(* The order of the nest: ls, is, js, first or second loop, jjs.           *)
NoLater(x, y) ==
  \/ x.ls < y.ls
  \/ x.ls = y.ls /\ \/ x.is < y.is
                    \/ x.is = y.is /\ \/ x.js < y.js
                                      \/ x.js = y.js /\ \/ x.half < y.half
                                                        \/ x.half = y.half /\ x.jjs <= y.jjs

Current(t) == CHOOSE x \in todo[t] : \A y \in todo[t] : NoLater(x, y)

RowsOf(x) == x.is .. x.is + x.minI - 1
ColumnsOf(x) == x.jjs .. x.jjs + x.minjj - 1

\* Mutant: every block of K is taken to be full.
TermsOfFullBlock(x) == x.ls .. x.ls + GEMM_Q - 1

TermsOf(x) == x.ls .. x.ls + x.minL - 1

(* Entry (m, n) of A * B over some of its terms; column-major, two doubles *)
(* per entry of A.                                                         *)
Entry(m, n, terms) == MapThenSumSet(LAMBDA l : 2 * (m + l * args.M), terms)

SumOfSquares(m, columns, terms) ==
  MapThenSumSet(LAMBDA n : Entry(m, n, terms) * Entry(m, n, terms), columns)

-----------------------------------------------------------------------------
(* The command lines the program can work with: main's guard on nthreads   *)
(* (<= 0 and > MAX_CPU_CORES) holds of no number, and 0 threads, or more   *)
(* than there are buffers, is undefined.                                   *)
Init ==
  /\ args \in [M : 1 .. MaxM, N : 1 .. MaxN, K : 1 .. MaxK, threads : 1 .. MaxThreads,
               version : {"kupl", "omp"}]
  /\ todo = [t \in Threads(args) |-> Blocks(args, t)]
  /\ loaded = [t \in Threads(args) |-> NoRows]
  /\ r = [m \in Row |-> 0]
  /\ added = [x \in Row \X Column \X Term |-> 0]

(* r[mcount] += ... is a load and a store.                                 *)
LoadRows(t) ==
  /\ todo[t] # {}
  /\ loaded[t] = NoRows
  /\ loaded' = [loaded EXCEPT ![t] = [m \in RowsOf(Current(t)) |-> r[m]]]
  /\ UNCHANGED <<args, todo, r, added>>

AddBlock(t) ==
  LET x == Current(t)
      terms == RowsOf(x) \X ColumnsOf(x) \X TermsOf(x)
  IN /\ loaded[t] # NoRows
     /\ r' = [m \in Row |->
                IF m \in RowsOf(x)
                THEN loaded[t][m] + SumOfSquares(m, ColumnsOf(x), TermsOf(x))
                ELSE r[m]]
     /\ added' = [y \in DOMAIN added |-> IF y \in terms THEN added[y] + 1 ELSE added[y]]
     /\ todo' = [todo EXCEPT ![t] = @ \ {x}]
     /\ loaded' = [loaded EXCEPT ![t] = NoRows]
     /\ UNCHANGED args

Next == \E t \in DOMAIN todo : LoadRows(t) \/ AddBlock(t)

Spec == Init /\ [][Next]_vars

-----------------------------------------------------------------------------
Finished == \A t \in DOMAIN todo : todo[t] = {}

(* Two threads never hold values of the same row of r.                     *)
RowsNotShared ==
  \A t, u \in DOMAIN loaded : t # u => DOMAIN loaded[t] \cap DOMAIN loaded[u] = {}

(* Row ranges, column loops and blocks of K together cover every product   *)
(* A[m][l] * B[l][n] exactly once, however many threads there are.         *)
EveryTermOnce ==
  /\ \A x \in DOMAIN added : added[x] <= 1
  /\ Finished => \A x \in DOMAIN added : added[x] = 1

Reference(m) == SumOfSquares(m, Column, Term)

(* As long as K fits into one block the result is the one that main        *)
(* computes for comparison.                                                *)
RightForOneBlock ==
  Finished /\ args.K <= GEMM_Q => \A m \in Row : r[m] = Reference(m)

(* What the comparison in main expects for every K.                        *)
CheckSuccess ==
  Finished => \A m \in Row : r[m] = Reference(m)
=============================================================================
