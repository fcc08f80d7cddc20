----------------------------- MODULE ArmKernels -----------------------------
(***************************************************************************)
(* The kernels of arm-intrinsic on column-major matrices: C = A * B on the *)
(* matrix unit (fp64_gemm, fp32_gemm, bf16_gemm, int8_gemm), and           *)
(* y += A * x on vector registers (fp64_gemv, fp32_gemv, int8_gemv,        *)
(* bf16_gemv).  A kernel walks C in tiles, sums products over k in the     *)
(* accumulators ZA, with loops that take several k at a time and loops for *)
(* what is left, and stores the tile.  Lanes behind the edge of a matrix   *)
(* are masked.  int8_gemm has one loop and pads the last block of k with   *)
(* zeros.  For a gemv y is a matrix of one column, N is 1 and K the number *)
(* of columns of A; its tile is two vector registers below each other.     *)
(*                                                                         *)
(* Elements of A and B go by their addresses.  An entry of ZA or of C is   *)
(* the set of products added up in it, <<address in A, address in B>>, and *)
(* whether one was added twice.                                            *)
(***************************************************************************)
EXTENDS Integers, Sequences

CONSTANTS
  Kernels,                          \* the kernels that may run
  Svl,                              \* elements in a vector register
  RowCounts, ColumnCounts, Depths   \* M, N and K on the command line

VARIABLES
  args,      \* the kernel and M, N, K
  i, j,      \* the first row and column of the tile
  loop, k,   \* which of the loops over k, and its variable
  za, C

vars == <<args, i, j, loop, k, za, C>>

-----------------------------------------------------------------------------
(* How many k each of the loops of a kernel takes at a time.  bf16_gemv    *)
(* comes twice, once for each thing the conversion to float may do.        *)
Unroll == [
  fp64 |-> <<4, 2, 1>>, fp32 |-> <<8, 4, 1>>, bf16 |-> <<4, 2, 1>>, int8 |-> <<4>>,
  fp64_gemv |-> <<4, 1>>, fp32_gemv |-> <<8, 1>>, int8_gemv |-> <<8, 1>>,
  bf16_gemv_even |-> <<8, 1>>, bf16_gemv_low |-> <<8, 1>>]

Gemv == {"fp64_gemv", "fp32_gemv", "int8_gemv", "bf16_gemv_even", "bf16_gemv_low"}

ASSUME KernelAssumption ==
  /\ Kernels \subseteq DOMAIN Unroll
  /\ Svl \in Nat \ {0}
  /\ RowCounts \cup ColumnCounts \cup Depths \subseteq Nat \ {0}

BLOCK == 4
Height ==
  CASE args.kernel = "int8" -> BLOCK
    [] args.kernel \in Gemv -> 2 * Svl
    [] OTHER -> Svl
Width ==
  CASE args.kernel = "int8" -> BLOCK
    [] args.kernel \in Gemv -> 1
    [] OTHER -> Svl

Limit(x, side, size) == IF x + side <= size THEN side ELSE size - x

(* The active lanes of a predicate for what is left of the rows, which may *)
(* be less than nothing.                                                   *)
Whilelt(remaining) == 0 .. (IF remaining < Svl THEN remaining ELSE Svl) - 1

TileRows ==
  IF args.kernel \in Gemv
  THEN Whilelt(args.M - i) \cup {Svl + r : r \in Whilelt(args.M - (i + Svl))}
  ELSE 0 .. Limit(i, Height, args.M) - 1
TileColumns == 0 .. Limit(j, Width, args.N) - 1

Zero == [products |-> {}, twice |-> FALSE]
ZeroTile == [e \in (0 .. Height - 1) \X (0 .. Width - 1) |-> Zero]

Sum(x, y) ==
  [products |-> x.products \cup y.products,
   twice |-> x.twice \/ y.twice \/ x.products \cap y.products # {}]

(* The rows of the tile that lane r gets its element of A from.  bf16_gemv *)
(* loads 16-bit elements under a predicate for 32-bit ones, which has      *)
(* every second lane active; the conversion takes lane r of 32 bits from   *)
(* the even lane 2r or from lane r, and gets zero if that was not loaded.  *)
RowsLoaded(r) ==
  CASE args.kernel = "bf16_gemv_even" -> {r + (r % Svl)}
    [] args.kernel = "bf16_gemv_low" -> IF (r % Svl) % 2 = 0 THEN {r} ELSE {}
    [] OTHER -> {r}

(* Products of row i + r of A and column j + c of B; lda = M, ldb = K.     *)
Products(r, c, ks) ==
  [products |-> UNION {{<<i + s + x * args.M, x + (j + c) * args.K>> : x \in ks} : s \in RowsLoaded(r)},
   twice |-> FALSE]

(* The k of one step; behind K there are zeros if they are padded.         *)
Taken == {x \in k .. k + Unroll[args.kernel][loop] - 1 : args.kernel = "int8" => x < args.K}

(* One outer product per k in ks, in the lanes that are not masked.        *)
Mopa(ks) ==
  [e \in DOMAIN za |->
     IF e \in TileRows \X TileColumns THEN Sum(za[e], Products(e[1], e[2], ks)) ELSE za[e]]

-----------------------------------------------------------------------------
Init ==
  /\ args \in [kernel : Kernels, M : RowCounts, N : ColumnCounts \cup {1}, K : Depths]
  /\ args.kernel \in Gemv => args.N = 1
  /\ i = 0 /\ j = 0
  /\ loop = 1 /\ k = 0
  /\ za = ZeroTile
  /\ C = [x \in 0 .. args.M * args.N - 1 |-> Zero]

Step == Unroll[args.kernel][loop]
InTile == i < args.M /\ loop <= Len(Unroll[args.kernel])

\* Mutant: the loop stops one step early when K is a multiple of the step.
FitsStrictly ==
  IF args.kernel = "int8" THEN k < args.K
  ELSE IF args.kernel \in Gemv THEN k + Step < args.K - (args.K % Step)
  ELSE k + Step < args.K

Fits ==
  IF args.kernel = "int8" THEN k < args.K
  ELSE IF args.kernel \in Gemv THEN k < args.K - (args.K % Step)
  ELSE k + Step - 1 < args.K

Accumulate ==
  /\ InTile
  /\ Fits
  /\ za' = Mopa(Taken)
  /\ k' = k + Step
  /\ UNCHANGED <<args, i, j, loop, C>>

NextLoop ==
  /\ InTile
  /\ ~Fits
  /\ loop' = loop + 1
  /\ UNCHANGED <<args, i, j, k, za, C>>

(* int8 and the gemv kernels add the tile to C, the others store it;       *)
(* ldc = M.                                                                *)
Stored ==
  LET Address(e) == i + e[1] + (j + e[2]) * args.M
      tile == TileRows \X TileColumns
  IN [x \in DOMAIN C |->
        IF \E e \in tile : Address(e) = x
        THEN LET value == za[CHOOSE e \in tile : Address(e) = x]
             IN IF args.kernel \in Gemv \cup {"int8"} THEN Sum(C[x], value) ELSE value
        ELSE C[x]]

\* Mutant: a tile narrower than the vector is not entered.
NextTileFullOnly ==
  IF j + 2 * Width <= args.N
  THEN i' = i /\ j' = j + Width
  ELSE i' = i + Height /\ j' = 0

NextTile ==
  IF j + Width < args.N
  THEN i' = i /\ j' = j + Width
  ELSE i' = i + Height /\ j' = 0

StoreTile ==
  /\ i < args.M
  /\ loop > Len(Unroll[args.kernel])
  /\ C' = Stored
  /\ NextTile
  /\ za' = ZeroTile
  /\ loop' = 1 /\ k' = 0
  /\ UNCHANGED args

Next == Accumulate \/ NextLoop \/ StoreTile

Spec == Init /\ [][Next]_vars

-----------------------------------------------------------------------------
(* What the check in main computes for C[m + n * M].                       *)
Complete(m, n) ==
  [products |-> {<<m + x * args.M, x + n * args.K>> : x \in 0 .. args.K - 1}, twice |-> FALSE]

(* An element of C that has been stored is the whole sum: no loop over k   *)
(* leaves a product out or adds it twice, no masked lane gets in, and no   *)
(* later tile spoils the element.                                          *)
StoredIsComplete ==
  \A x \in DOMAIN C : C[x] # Zero => C[x] = Complete(x % args.M, x \div args.M)

(* When the kernel returns every element has been stored, whatever the     *)
(* remainder of M and N by the size of a tile.                             *)
AllStored ==
  i >= args.M => \A x \in DOMAIN C : C[x] # Zero

-----------------------------------------------------------------------------
(* The inductive invariant behind both; it needs a vector of A whose lanes *)
(* hold the rows they stand for.                                           *)
WholeLoads == Kernels \cap {"bf16_gemv_even", "bf16_gemv_low"} = {}

TypeOK ==
  /\ args \in [kernel : Kernels, M : RowCounts, N : ColumnCounts \cup {1}, K : Depths]
  /\ args.kernel \in Gemv => args.N = 1
  /\ i \in Nat /\ j \in 0 .. args.N - 1
  /\ loop \in 1 .. Len(Unroll[args.kernel]) + 1 /\ k \in Nat
  /\ DOMAIN za = DOMAIN ZeroTile
  /\ DOMAIN C = 0 .. args.M * args.N - 1

(* ZA holds the products up to k, a multiple of the step in the first loop *)
(* of a gemv; behind the loops k has reached K.                            *)
TileSoFar ==
  /\ args.kernel \in Gemv /\ loop = 1 => k % Step = 0
  /\ loop > Len(Unroll[args.kernel]) => k >= args.K
  /\ i < args.M =>
       \A e \in DOMAIN za :
         za[e] = IF e \in TileRows \X TileColumns
                 THEN Products(e[1], e[2], {x \in 0 .. k - 1 : x < args.K})
                 ELSE Zero

Passed(m, n) == m < i \/ (m < i + Height /\ n < j)

(* The tiles passed are complete, the others untouched.                    *)
CSoFar ==
  \A x \in DOMAIN C :
    C[x] = IF Passed(x % args.M, x \div args.M)
           THEN Complete(x % args.M, x \div args.M)
           ELSE Zero

Inductive == TypeOK /\ TileSoFar /\ CSoFar
=============================================================================
