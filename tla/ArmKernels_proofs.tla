------------------------- MODULE ArmKernels_proofs -------------------------
(***************************************************************************)
(* The kernels but bf16_gemv compute every element of C completely, for    *)
(* every length of the vector registers and every M, N and K: the tiles    *)
(* passed are complete, and ZA holds the products of the tile up to k.     *)
(* Then PackedGemm: the programs that pack find every word where they put  *)
(* it, and their results are right, for every size of matrix and panel.    *)
(***************************************************************************)
EXTENDS ArmKernels, PackedGemm, TLAPS

(* An address of a column-major matrix tells its row and column.           *)
LEMMA RowAndColumn ==
  ASSUME NEW m \in Nat, NEW n \in Nat, NEW ld \in Nat \ {0}, m < ld
  PROVE  (m + n * ld) % ld = m /\ (m + n * ld) \div ld = n
<1> DEFINE a == m + n * ld
           q == a \div ld
           p == a % ld
<1>1. a \in Nat
  <2>1. n * ld \in Nat
    OBVIOUS
  <2>2. QED
    BY <2>1
<1>2. q \in Nat /\ p \in 0 .. ld - 1 /\ a = q * ld + p
  BY <1>1
<1> HIDE DEF q, p
<1>3. ASSUME NEW x \in Nat, NEW y \in Nat, NEW r \in 0 .. ld - 1, NEW s \in 0 .. ld - 1, x < y
      PROVE  x * ld + r < y * ld + s
  <2>1. PICK d \in Nat : y = x + 1 + d
    <3>1. y - x - 1 \in Nat /\ y = x + 1 + (y - x - 1)
      BY <1>3
    <3>2. QED
      BY <3>1
  <2>2. y * ld = x * ld + ld + d * ld
    BY <2>1
  <2>3. x * ld \in Nat /\ y * ld \in Nat /\ d * ld \in Nat
    BY <2>1
  <2>4. r < ld /\ s >= 0
    OBVIOUS
  <2>5. QED
    BY <2>2, <2>3, <2>4
<1>4. q = n
  BY <1>2, <1>3
<1>5. QED
  BY <1>2, <1>4 DEF q, p

(* Different k have different addresses in A.                              *)
LEMMA AddressesDiffer ==
  ASSUME NEW x \in Nat, NEW y \in Nat, NEW m \in Nat, NEW ld \in Nat \ {0},
         m + x * ld = m + y * ld
  PROVE  x = y
<1>1. x * ld = y * ld
  <2>1. x * ld \in Nat /\ y * ld \in Nat
    OBVIOUS
  <2>2. QED
    BY <2>1
<1>2. (0 + x * ld) \div ld = x /\ (0 + y * ld) \div ld = y
  BY RowAndColumn
<1>3. QED
  BY <1>1, <1>2

(* The lanes of a tile that are not masked are those within the matrix.    *)
LEMMA TileWithin ==
  ASSUME TypeOK
  PROVE  /\ Height \in Nat \ {0} /\ Width \in Nat \ {0}
         /\ args.M \in Nat \ {0} /\ args.N \in Nat \ {0} /\ args.K \in Nat \ {0}
         /\ TileRows = {r \in 0 .. Height - 1 : i + r < args.M}
         /\ TileColumns = {c \in 0 .. Width - 1 : j + c < args.N}
<1>1. /\ Svl \in Nat \ {0}
      /\ Height \in Nat \ {0} /\ Width \in Nat \ {0}
      /\ args.M \in Nat \ {0} /\ args.N \in Nat \ {0} /\ args.K \in Nat \ {0}
  BY KernelAssumption DEF TypeOK, Height, Width, BLOCK
<1>2. i \in Nat /\ j \in Nat
  BY <1>1 DEF TypeOK
<1>3. ASSUME NEW x \in Nat, NEW side \in Nat, NEW size \in Nat
      PROVE  0 .. Limit(x, side, size) - 1 = {r \in 0 .. side - 1 : x + r < size}
  BY DEF Limit
<1>4. TileColumns = {c \in 0 .. Width - 1 : j + c < args.N}
  BY <1>1, <1>2, <1>3 DEF TileColumns
<1>5. TileRows = {r \in 0 .. Height - 1 : i + r < args.M}
  <2>1. CASE args.kernel \in Gemv
    <3>1. Height = 2 * Svl
      BY <2>1 DEF Height, Gemv
    <3>2. ASSUME NEW r
          PROVE  r \in TileRows <=> r \in 0 .. 2 * Svl - 1 /\ i + r < args.M
      <4>1. r \in Whilelt(args.M - i) <=> r \in 0 .. Svl - 1 /\ i + r < args.M
        BY <1>1, <1>2 DEF Whilelt
      <4>2. (\E s \in Whilelt(args.M - (i + Svl)) : r = Svl + s)
              <=> r \in Svl .. 2 * Svl - 1 /\ i + r < args.M
        <5>1. ASSUME NEW s \in Whilelt(args.M - (i + Svl)), r = Svl + s
              PROVE  r \in Svl .. 2 * Svl - 1 /\ i + r < args.M
          BY <1>1, <1>2, <5>1 DEF Whilelt
        <5>2. ASSUME r \in Svl .. 2 * Svl - 1, i + r < args.M
              PROVE  r - Svl \in Whilelt(args.M - (i + Svl)) /\ r = Svl + (r - Svl)
          BY <1>1, <1>2, <5>2 DEF Whilelt
        <5>3. QED
          BY <5>1, <5>2
      <4>3. r \in TileRows
              <=> r \in Whilelt(args.M - i) \/ \E s \in Whilelt(args.M - (i + Svl)) : r = Svl + s
        BY <2>1 DEF TileRows
      <4>4. QED
        BY <1>1, <4>1, <4>2, <4>3
    <3>3. QED
      BY <3>1, <3>2
  <2>2. CASE args.kernel \notin Gemv
    BY <1>1, <1>2, <1>3, <2>2 DEF TileRows
  <2>3. QED
    BY <2>1, <2>2
<1>6. QED
  BY <1>1, <1>4, <1>5

(* What the loops of the kernels have in common.                           *)
LEMMA Unrolled ==
  ASSUME NEW kernel \in DOMAIN Unroll
  PROVE  /\ Len(Unroll[kernel]) \in Nat \ {0}
         /\ \A l \in 1 .. Len(Unroll[kernel]) :
              /\ Unroll[kernel][l] \in {8, 4, 2, 1}
              /\ kernel \in Gemv => (l = 1 /\ Unroll[kernel][l] \in {8, 4}) \/ Unroll[kernel][l] = 1
              /\ kernel # "int8" /\ l = Len(Unroll[kernel]) => Unroll[kernel][l] = 1
<1>1. CASE kernel = "fp64"
  BY <1>1 DEF Unroll, Gemv
<1>2. CASE kernel = "fp32"
  BY <1>2 DEF Unroll, Gemv
<1>3. CASE kernel = "bf16"
  BY <1>3 DEF Unroll, Gemv
<1>4. CASE kernel = "int8"
  BY <1>4 DEF Unroll, Gemv
<1>5. CASE kernel = "fp64_gemv"
  BY <1>5 DEF Unroll, Gemv
<1>6. CASE kernel = "fp32_gemv"
  BY <1>6 DEF Unroll, Gemv
<1>7. CASE kernel = "int8_gemv"
  BY <1>7 DEF Unroll, Gemv
<1>8. CASE kernel = "bf16_gemv_even"
  BY <1>8 DEF Unroll, Gemv
<1>9. CASE kernel = "bf16_gemv_low"
  BY <1>9 DEF Unroll, Gemv
<1>10. QED
  BY <1>1, <1>2, <1>3, <1>4, <1>5, <1>6, <1>7, <1>8, <1>9 DEF Unroll

(* What the steps need to know of the sizes.                               *)
LEMMA Sizes ==
  ASSUME TypeOK
  PROVE  /\ Height \in Nat \ {0} /\ Width \in Nat \ {0}
         /\ args.M \in Nat \ {0} /\ args.N \in Nat \ {0} /\ args.K \in Nat \ {0}
         /\ Len(Unroll[args.kernel]) \in Nat \ {0}
         /\ \A e \in TileRows \X TileColumns :
              /\ e \in DOMAIN za
              /\ e[1] \in Nat /\ e[2] \in Nat
              /\ e[1] < Height /\ e[2] < Width
              /\ i + e[1] < args.M /\ j + e[2] < args.N
<1>1. Len(Unroll[args.kernel]) \in Nat \ {0}
  BY Unrolled, KernelAssumption DEF TypeOK
<1>2. ASSUME NEW e \in TileRows \X TileColumns
      PROVE  /\ e \in DOMAIN za
             /\ e[1] \in Nat /\ e[2] \in Nat
             /\ e[1] < Height /\ e[2] < Width
             /\ i + e[1] < args.M /\ j + e[2] < args.N
  <2>1. /\ e[1] \in {r \in 0 .. Height - 1 : i + r < args.M}
        /\ e[2] \in {c \in 0 .. Width - 1 : j + c < args.N}
        /\ e = <<e[1], e[2]>>
    BY TileWithin
  <2>2. e \in DOMAIN za
    BY <2>1 DEF TypeOK, ZeroTile
  <2>3. QED
    BY <2>1, <2>2, TileWithin
<1>3. QED
  BY <1>1, <1>2, TileWithin

(* A step of a loop takes the next k, behind K none but int8's padding; a  *)
(* loop ends no earlier than at its last whole step, the last one at K.    *)
LEMMA Loops ==
  ASSUME TypeOK, TileSoFar, loop \in 1 .. Len(Unroll[args.kernel])
  PROVE  /\ Step \in Nat \ {0}
         /\ Fits => Taken = {x \in k .. k + Step - 1 : x < args.K}
         /\ k % Step = 0 => (k + Step) % Step = 0
         /\ ~Fits /\ loop = Len(Unroll[args.kernel]) => k >= args.K
<1>1. args.K \in Nat \ {0} /\ k \in Nat
  BY Sizes DEF TypeOK
<1>2. /\ Step \in {8, 4, 2, 1}
      /\ args.kernel \in Gemv => (loop = 1 /\ Step \in {8, 4}) \/ Step = 1
      /\ args.kernel # "int8" /\ loop = Len(Unroll[args.kernel]) => Step = 1
      /\ Taken = {x \in k .. k + Step - 1 : args.kernel = "int8" => x < args.K}
  BY Unrolled, KernelAssumption DEF TypeOK, Step, Taken
<1>3. k % Step = 0 => (k + Step) % Step = 0
  <2>1. CASE Step = 8
    BY <1>1, <2>1
  <2>2. CASE Step = 4
    BY <1>1, <2>2
  <2>3. CASE Step = 2
    BY <1>1, <2>3
  <2>4. CASE Step = 1
    BY <1>1, <2>4
  <2>5. QED
    BY <1>2, <2>1, <2>2, <2>3, <2>4
<1>4. CASE args.kernel = "int8"
  BY <1>1, <1>2, <1>3, <1>4 DEF Fits
<1>5. CASE args.kernel # "int8" /\ args.kernel \notin Gemv
  BY <1>1, <1>2, <1>3, <1>5 DEF Fits
<1>6. CASE args.kernel # "int8" /\ args.kernel \in Gemv
  <2>1. loop = 1 => k % Step = 0
    BY <1>6 DEF TileSoFar
  <2>2. Fits <=> k < args.K - (args.K % Step)
    BY <1>6 DEF Fits
  <2>3. Taken = k .. k + Step - 1
    BY <1>2, <1>6
  <2>4. CASE Step = 1
    BY <1>1, <1>3, <2>2, <2>3, <2>4
  <2>5. CASE Step \in {8, 4} /\ loop = 1
    <3>1. ASSUME NEW x \in Nat, NEW y \in Nat, x % 8 = 0, x < y - (y % 8) PROVE x + 8 <= y
      BY <3>1
    <3>2. ASSUME NEW x \in Nat, NEW y \in Nat, x % 4 = 0, x < y - (y % 4) PROVE x + 4 <= y
      BY <3>2
    <3>3. Fits => k + Step <= args.K
      BY <1>1, <2>1, <2>2, <2>5, <3>1, <3>2
    <3>4. loop # Len(Unroll[args.kernel])
      BY <1>2, <1>6, <2>5
    <3>5. QED
      BY <1>1, <1>3, <2>3, <2>5, <3>3, <3>4
  <2>6. QED
    BY <1>2, <1>6, <2>4, <2>5
<1>7. QED
  BY <1>4, <1>5, <1>6

(* The kernel starts at the first tile with nothing stored.                *)
LEMMA InductiveInit == Init => Inductive
<1> SUFFICES ASSUME Init PROVE Inductive
  OBVIOUS
<1>1. TypeOK
  <2>1. args.N \in Nat \ {0}
    BY KernelAssumption DEF Init
  <2>2. Len(Unroll[args.kernel]) \in Nat
    BY Unrolled, KernelAssumption DEF Init
  <2>3. QED
    BY <2>1, <2>2 DEF Init, TypeOK, ZeroTile
<1>2. TileSoFar
  <2>1. {x \in 0 .. k - 1 : x < args.K} = {}
    BY DEF Init
  <2>2. \A r, c : Products(r, c, {}) = Zero
    BY DEF Products, Zero
  <2>3. \A e \in DOMAIN za : za[e] = Zero
    BY DEF Init, ZeroTile
  <2>4. ~(loop > Len(Unroll[args.kernel]))
    BY <1>1, Sizes DEF Init
  <2>5. k % Step = 0
    <3>1. Step \in Nat \ {0}
      BY <1>1, Unrolled, KernelAssumption DEF Init, TypeOK, Step
    <3>2. QED
      BY <3>1 DEF Init
  <2>6. QED
    BY <2>1, <2>2, <2>3, <2>4, <2>5 DEF TileSoFar
<1>3. CSoFar
  <2>1. ASSUME NEW x \in DOMAIN C
        PROVE  ~Passed(x % args.M, x \div args.M)
    <3>1. x \in Nat
      BY DEF Init
    <3>2. args.M \in Nat \ {0}
      BY <1>1, Sizes
    <3>3. x % args.M \in Nat /\ x \div args.M \in Nat
      BY <3>1, <3>2
    <3>4. QED
      BY <3>3 DEF Init, Passed
  <2>2. QED
    BY <2>1 DEF Init, CSoFar
<1>4. QED
  BY <1>1, <1>2, <1>3 DEF Inductive

(* With whole loads lane r holds row i + r.                                *)
LEMMA ProductsOfRow ==
  ASSUME WholeLoads, TypeOK, NEW r \in Nat, NEW c \in Nat, NEW S
  PROVE  Products(r, c, S)
           = [products |-> {<<i + r + x * args.M, x + (j + c) * args.K>> : x \in S},
              twice |-> FALSE]
<1>1. RowsLoaded(r) = {r}
  BY DEF TypeOK, WholeLoads, RowsLoaded
<1>2. QED
  BY <1>1 DEF Products

(* The tile stays where it is.                                             *)
LEMMA SameTile ==
  ASSUME args' = args, i' = i, j' = j
  PROVE  /\ Height' = Height /\ Width' = Width
         /\ ZeroTile' = ZeroTile
         /\ TileRows' = TileRows /\ TileColumns' = TileColumns
<1>1. Height' = Height /\ Width' = Width
  BY DEF Height, Width
<1>2. TileRows' = TileRows /\ TileColumns' = TileColumns
  BY <1>1 DEF TileRows, TileColumns, Limit, Whilelt
<1>3. QED
  BY <1>1, <1>2 DEF ZeroTile

(* The sum up to k and the sum of the next k is the sum of both, none of   *)
(* them twice.                                                             *)
LEMMA SumOfProducts ==
  ASSUME WholeLoads, TypeOK, NEW r \in Nat, NEW c \in Nat,
         NEW S \in SUBSET Nat, NEW T \in SUBSET Nat, S \cap T = {}
  PROVE  Sum(Products(r, c, S), Products(r, c, T)) = Products(r, c, S \cup T)
<1> DEFINE P(x) == <<i + r + x * args.M, x + (j + c) * args.K>>
<1>1. args.M \in Nat \ {0} /\ i + r \in Nat
  BY Sizes DEF TypeOK
<1>2. ASSUME NEW x \in S, NEW y \in T, P(x) = P(y) PROVE FALSE
  <2>1. (i + r) + x * args.M = (i + r) + y * args.M
    BY <1>2
  <2>2. x = y
    <3>1. x \in Nat /\ y \in Nat
      OBVIOUS
    <3>2. QED
      BY <1>1, <2>1, <3>1, AddressesDiffer
  <2>3. QED
    BY <2>2
<1>3. {P(x) : x \in S} \cap {P(x) : x \in T} = {}
  BY <1>2
<1>4. {P(x) : x \in S} \cup {P(x) : x \in T} = {P(x) : x \in S \cup T}
  OBVIOUS
<1>5. \A U : Products(r, c, U) = [products |-> {P(x) : x \in U}, twice |-> FALSE]
  BY ProductsOfRow DEF P
<1> HIDE DEF P
<1> DEFINE X == {P(x) : x \in S}
           Y == {P(x) : x \in T}
           Z == {P(x) : x \in S \cup T}
<1>6. /\ Products(r, c, S) = [products |-> X, twice |-> FALSE]
      /\ Products(r, c, T) = [products |-> Y, twice |-> FALSE]
      /\ Products(r, c, S \cup T) = [products |-> Z, twice |-> FALSE]
      /\ X \cap Y = {} /\ X \cup Y = Z
  BY <1>3, <1>4, <1>5
<1> HIDE DEF X, Y, Z
<1>7. (FALSE \/ FALSE \/ X \cap Y # {}) = FALSE
  BY <1>6
<1>8. Sum(Products(r, c, S), Products(r, c, T))
        = [products |-> X \cup Y, twice |-> (FALSE \/ FALSE \/ X \cap Y # {})]
  <2> DEFINE a == Products(r, c, S)
             b == Products(r, c, T)
  <2>1. a.products = X /\ b.products = Y /\ a.twice = FALSE /\ b.twice = FALSE
    BY <1>6
  <2> HIDE DEF a, b
  <2>2. Sum(a, b) = [products |-> X \cup Y, twice |-> (FALSE \/ FALSE \/ X \cap Y # {})]
    BY <2>1, Zenon DEF Sum
  <2>3. QED
    BY <2>2 DEF a, b
<1>9. QED
  BY <1>6, <1>7, <1>8, Zenon

(* A step of a loop over k.                                                *)
LEMMA AccumulateStep ==
  ASSUME WholeLoads, Inductive, Accumulate
  PROVE  Inductive'
<1> DEFINE before == {x \in 0 .. k - 1 : x < args.K}
           step == {x \in k .. k + Step - 1 : x < args.K}
           after == {x \in 0 .. k + Step - 1 : x < args.K}
<1>1. TypeOK /\ TileSoFar /\ CSoFar
  BY DEF Inductive
<1>2. /\ i < args.M
      /\ loop \in 1 .. Len(Unroll[args.kernel])
      /\ Step \in Nat \ {0} /\ k \in Nat /\ args.K \in Nat /\ Taken = step
  BY <1>1, Sizes, Loops DEF Accumulate, InTile, TypeOK
<1>3. UNCHANGED <<args, i, j, loop, C>> /\ k' = k + Step /\ za' = Mopa(step)
  BY <1>2 DEF Accumulate
<1>4. TypeOK'
  <2>1. DOMAIN za' = DOMAIN za /\ DOMAIN ZeroTile' = DOMAIN ZeroTile
    BY <1>3, SameTile DEF Mopa
  <2>2. k' \in Nat
    BY <1>2, <1>3
  <2>3. QED
    BY <1>1, <1>3, <2>1, <2>2 DEF TypeOK
<1>5. TileSoFar'
  <2>1. before \cap step = {} /\ before \cup step = after
    BY <1>2
  <2>2. before \in SUBSET Nat /\ step \in SUBSET Nat
    BY <1>2
  <2> HIDE DEF before, step
  <2>3. ASSUME NEW e \in DOMAIN za
        PROVE  za'[e] = IF e \in TileRows \X TileColumns
                        THEN Products(e[1], e[2], after) ELSE Zero
    <3>1. CASE e \in TileRows \X TileColumns
      <4>1. za[e] = Products(e[1], e[2], before)
        BY <1>1, <1>2, <3>1 DEF TileSoFar, before
      <4>2. e[1] \in Nat /\ e[2] \in Nat
        BY <1>1, <3>1, Sizes
      <4>3. Sum(za[e], Products(e[1], e[2], step)) = Products(e[1], e[2], after)
        BY <1>1, <2>1, <2>2, <4>1, <4>2, SumOfProducts
      <4>4. QED
        BY <1>3, <3>1, <4>3 DEF Mopa
    <3>2. CASE e \notin TileRows \X TileColumns
      BY <1>1, <1>2, <1>3, <3>2 DEF TileSoFar, Mopa
    <3>3. QED
      BY <3>1, <3>2
  <2>4. DOMAIN za' = DOMAIN za
    BY <1>3 DEF Mopa
  <2>5. TileRows' = TileRows /\ TileColumns' = TileColumns
    BY <1>3, SameTile
  <2>6. after = {x \in 0 .. k' - 1 : x < args'.K}
    <3>1. args' = args /\ k' - 1 = k + Step - 1
      BY <1>2, <1>3
    <3>2. QED
      BY <3>1
  <2>7. ~(loop' > Len(Unroll[args'.kernel]))
    BY <1>1, <1>2, <1>3, Sizes
  <2>8. args'.kernel \in Gemv /\ loop' = 1 => k' % Step' = 0
    <3>1. Step' = Step
      BY <1>3 DEF Step
    <3>2. QED
      BY <1>1, <1>2, <1>3, <3>1, Loops DEF TileSoFar
  <2> HIDE DEF after
  <2>9. QED
    BY <2>3, <2>4, <2>5, <2>6, <2>7, <2>8, <1>3 DEF TileSoFar, Products, RowsLoaded
<1>6. CSoFar'
  BY <1>1, <1>3, SameTile DEF CSoFar, Passed, Complete
<1>7. QED
  BY <1>4, <1>5, <1>6 DEF Inductive

(* On to the next loop over k; behind the last one k has reached K.        *)
LEMMA NextLoopStep ==
  ASSUME Inductive, NextLoop
  PROVE  Inductive'
<1>1. TypeOK /\ TileSoFar /\ CSoFar
  BY DEF Inductive
<1>2. UNCHANGED <<args, i, j, k, za, C>> /\ loop' = loop + 1
  BY DEF NextLoop
<1>3. loop \in 1 .. Len(Unroll[args.kernel]) /\ Len(Unroll[args.kernel]) \in Nat
  BY <1>1, Sizes DEF NextLoop, InTile, TypeOK
<1>4. TypeOK'
  BY <1>1, <1>2, <1>3, SameTile DEF TypeOK
<1>5. TileSoFar'
  <2>1. loop = Len(Unroll[args.kernel]) => k >= args.K
    <3>1. k \in Nat /\ args.K \in Nat
      BY <1>1, Sizes DEF TypeOK
    <3>2. ~Fits
      BY DEF NextLoop
    <3>3. QED
      BY <1>1, <1>3, <3>2, Loops
  <2>2. loop' > Len(Unroll[args'.kernel]) => k' >= args'.K
    BY <1>2, <1>3, <2>1
  <2>3. loop' # 1
    BY <1>2, <1>3
  <2>4. QED
    BY <1>1, <1>2, <2>2, <2>3, SameTile DEF TileSoFar, Zero, Products, RowsLoaded
<1>6. CSoFar'
  BY <1>1, <1>2, SameTile DEF CSoFar, Passed, Complete
<1>7. QED
  BY <1>4, <1>5, <1>6 DEF Inductive

(* The place of an address of C in the matrix.                             *)
LEMMA Place ==
  ASSUME TypeOK, NEW x \in DOMAIN C
  PROVE  /\ x % args.M \in 0 .. args.M - 1
         /\ x \div args.M \in 0 .. args.N - 1
         /\ x = (x % args.M) + (x \div args.M) * args.M
<1>1. args.M \in Nat \ {0} /\ args.N \in Nat \ {0}
  BY Sizes
<1>2. x \in Nat /\ x < args.M * args.N
  <2>1. args.M * args.N \in Nat
    BY <1>1
  <2>2. x \in 0 .. args.M * args.N - 1
    BY DEF TypeOK
  <2>3. QED
    BY <2>1, <2>2
<1> DEFINE M == args.M
           N == args.N
           q == x \div M
           p == x % M
<1>3. M \in Nat \ {0} /\ N \in Nat \ {0} /\ x < M * N
  BY <1>1, <1>2
<1> HIDE DEF M, N
<1>4. q \in Nat /\ p \in 0 .. M - 1 /\ x = p + q * M
  BY <1>2, <1>3
<1> HIDE DEF q, p
<1>5. q < N
  <2>1. SUFFICES ASSUME q >= N PROVE FALSE
    BY <1>3, <1>4
  <2>2. PICK d \in Nat : q = N + d
    <3>1. q - N \in Nat /\ q = N + (q - N)
      BY <1>3, <1>4, <2>1
    <3>2. QED
      BY <3>1
  <2>3. q * M = M * N + d * M
    BY <1>3, <2>2
  <2>4. d * M \in Nat /\ M * N \in Nat /\ q * M \in Nat
    BY <1>3, <1>4, <2>2
  <2>5. QED
    BY <1>2, <1>3, <1>4, <2>3, <2>4
<1>6. q \in 0 .. N - 1
  BY <1>3, <1>4, <1>5
<1>7. QED
  BY <1>4, <1>6 DEF q, p, M, N

(* What is stored at x: the whole sum within the tile, the old C outside.  *)
LEMMA StoredElement ==
  ASSUME WholeLoads, Inductive, StoreTile, NEW x \in DOMAIN C,
         NEW m, NEW n, m = x % args.M, n = x \div args.M
  PROVE  Stored[x] = IF i <= m /\ m < i + Height /\ j <= n /\ n < j + Width
                     THEN Complete(m, n)
                     ELSE C[x]
<1> DEFINE Address(e) == i + e[1] + (j + e[2]) * args.M
           tile == TileRows \X TileColumns
<1>1. TypeOK /\ TileSoFar /\ CSoFar
  BY DEF Inductive
<1>2. /\ m \in 0 .. args.M - 1 /\ n \in 0 .. args.N - 1 /\ x = m + n * args.M
      /\ args.M \in Nat \ {0} /\ args.N \in Nat \ {0} /\ args.K \in Nat
      /\ Height \in Nat \ {0} /\ Width \in Nat \ {0}
      /\ i \in Nat /\ j \in Nat /\ k \in Nat /\ k >= args.K /\ i < args.M
  <2>1. k >= args.K /\ i < args.M
    BY <1>1 DEF TileSoFar, StoreTile
  <2>2. i \in Nat /\ j \in Nat /\ k \in Nat
    BY <1>1, Sizes DEF TypeOK
  <2>3. QED
    BY <1>1, <2>1, <2>2, Sizes, Place
<1>3. ASSUME NEW e \in tile
      PROVE  Address(e) = x <=> i + e[1] = m /\ j + e[2] = n
  <2>1. e[1] \in Nat /\ e[2] \in Nat /\ i + e[1] < args.M
    BY <1>1, Sizes
  <2>2. i + e[1] \in Nat /\ j + e[2] \in Nat
    BY <1>2, <2>1
  <2>3. (i + e[1] + (j + e[2]) * args.M) % args.M = i + e[1]
        /\ (i + e[1] + (j + e[2]) * args.M) \div args.M = j + e[2]
    BY <1>2, <2>1, <2>2, RowAndColumn
  <2>4. Address(e) = x => i + e[1] = m /\ j + e[2] = n
    BY <2>3
  <2>5. i + e[1] = m /\ j + e[2] = n => Address(e) = x
    <3>1. i + e[1] = m /\ j + e[2] = n => i + e[1] + (j + e[2]) * args.M = m + n * args.M
      BY ONLY TRUE
    <3>2. QED
      BY <1>2, <3>1
  <2>6. QED
    BY <2>4, <2>5
<1>4. CASE i <= m /\ m < i + Height /\ j <= n /\ n < j + Width
  <2>1. <<m - i, n - j>> \in tile
    <3>1. m - i \in 0 .. Height - 1 /\ i + (m - i) < args.M
      BY <1>2, <1>4
    <3>2. n - j \in 0 .. Width - 1 /\ j + (n - j) < args.N
      BY <1>2, <1>4
    <3>3. QED
      BY <1>1, <3>1, <3>2, TileWithin
  <2>2. i + (m - i) = m /\ j + (n - j) = n
    BY <1>2
  <2>3. Address(<<m - i, n - j>>) = x
    BY <1>3, <2>1, <2>2
  <2> DEFINE e == CHOOSE f \in tile : Address(f) = x
  <2>4. e \in tile /\ Address(e) = x
    BY <2>1, <2>3
  <2> HIDE DEF e
  <2>5. i + e[1] = m /\ j + e[2] = n
    BY <1>3, <2>4
  <2>6. za[e] = Complete(m, n)
    <3>1. e \in DOMAIN za
      BY <1>1, <2>4, Sizes
    <3>2. za[e] = Products(e[1], e[2], {y \in 0 .. k - 1 : y < args.K})
      BY <1>1, <1>2, <2>4, <3>1 DEF TileSoFar
    <3>3. {y \in 0 .. k - 1 : y < args.K} = 0 .. args.K - 1
      BY <1>2
    <3>4. za[e] = [products |-> {<<m + y * args.M, y + n * args.K>> : y \in 0 .. args.K - 1},
                   twice |-> FALSE]
      <4>1. e[1] \in Nat /\ e[2] \in Nat
        BY <1>1, <2>4, Sizes
      <4>2. Products(e[1], e[2], 0 .. args.K - 1)
              = [products |-> {<<i + e[1] + y * args.M, y + (j + e[2]) * args.K>> : y \in 0 .. args.K - 1},
                 twice |-> FALSE]
        BY <1>1, <4>1, ProductsOfRow
      <4>3. QED
        BY <2>5, <3>2, <3>3, <4>2
    <3>5. QED
      BY <3>4 DEF Complete
  <2>7. Stored[x] = IF args.kernel \in Gemv \cup {"int8"} THEN Sum(C[x], za[e]) ELSE za[e]
    BY <2>1, <2>3 DEF Stored, e
  <2>8. C[x] = Zero
    <3>1. ~Passed(m, n)
      BY <1>2, <1>4 DEF Passed
    <3>2. QED
      BY <1>1, <3>1 DEF CSoFar
  <2>9. Sum(Zero, Complete(m, n)) = Complete(m, n)
    <3> DEFINE c == Complete(m, n)
               S == {<<m + y * args.M, y + n * args.K>> : y \in 0 .. args.K - 1}
    <3>1. c = [products |-> S, twice |-> FALSE]
      BY DEF Complete
    <3> HIDE DEF c, S
    <3>2. /\ Zero.products = {} /\ Zero.twice = FALSE
          /\ c.products = S /\ c.twice = FALSE
      BY <3>1 DEF Zero
    <3>3. Sum(Zero, c) = [products |-> {} \cup S, twice |-> (FALSE \/ FALSE \/ {} \cap S # {})]
      BY <3>2, Zenon DEF Sum
    <3>4. (FALSE \/ FALSE \/ {} \cap S # {}) = FALSE /\ {} \cup S = S
      OBVIOUS
    <3>5. Sum(Zero, c) = c
      BY <3>1, <3>3, <3>4, Zenon
    <3>6. QED
      BY <3>5 DEF c
  <2>10. QED
    BY <1>4, <2>6, <2>7, <2>8, <2>9
<1>5. CASE ~(i <= m /\ m < i + Height /\ j <= n /\ n < j + Width)
  <2>1. ASSUME NEW e \in tile PROVE Address(e) # x
    <3>1. e[1] \in Nat /\ e[2] \in Nat /\ e[1] < Height /\ e[2] < Width
      BY <1>1, Sizes
    <3>2. ~(i + e[1] = m /\ j + e[2] = n)
      BY <1>2, <1>5, <3>1
    <3>3. QED
      BY <1>3, <3>2
  <2>2. QED
    BY <1>5, <2>1 DEF Stored
<1>6. QED
  BY <1>4, <1>5

(* The tile is stored and the kernel goes on to the next one.              *)
LEMMA StoreTileStep ==
  ASSUME WholeLoads, Inductive, StoreTile
  PROVE  Inductive'
<1>1. TypeOK /\ TileSoFar /\ CSoFar
  BY DEF Inductive
<1>2. /\ args' = args /\ C' = Stored /\ za' = ZeroTile /\ loop' = 1 /\ k' = 0
      /\ Height' = Height /\ Width' = Width
  BY DEF StoreTile, Height, Width
<1>3. /\ i \in Nat /\ j \in 0 .. args.N - 1
      /\ Height \in Nat \ {0} /\ Width \in Nat \ {0}
      /\ args.M \in Nat \ {0} /\ args.N \in Nat \ {0} /\ args.K \in Nat \ {0}
      /\ Len(Unroll[args.kernel]) \in Nat \ {0}
  BY <1>1, Sizes DEF TypeOK
<1>4. \/ j + Width < args.N /\ i' = i /\ j' = j + Width
      \/ args.N <= j + Width /\ i' = i + Height /\ j' = 0
  BY <1>3 DEF StoreTile, NextTile
<1>5. TypeOK'
  <2>1. i' \in Nat /\ j' \in 0 .. args.N - 1
    BY <1>3, <1>4
  <2>2. DOMAIN za' = DOMAIN ZeroTile' /\ DOMAIN C' = DOMAIN C
    BY <1>2 DEF ZeroTile, Stored
  <2>3. loop' \in 1 .. Len(Unroll[args'.kernel]) + 1 /\ k' \in Nat
    BY <1>2, <1>3
  <2>4. QED
    BY <1>1, <1>2, <2>1, <2>2, <2>3 DEF TypeOK
<1>6. TileSoFar'
  <2>1. {x \in 0 .. k' - 1 : x < args'.K} = {}
    BY <1>2
  <2>2. \A r, c : Products(r, c, {})' = Zero
    BY DEF Products, Zero
  <2>3. \A e \in DOMAIN za' : za'[e] = Zero
    BY <1>2 DEF ZeroTile
  <2>4. ~(loop' > Len(Unroll[args'.kernel]))
    BY <1>2, <1>3
  <2>5. k' % Step' = 0
    <3>1. Unroll[args.kernel][1] \in {8, 4, 2, 1} /\ Step' = Unroll[args.kernel][1]
      BY <1>1, <1>2, <1>3, Unrolled, KernelAssumption DEF TypeOK, Step
    <3>2. QED
      BY <1>2, <3>1
  <2>6. QED
    BY <2>1, <2>2, <2>3, <2>4, <2>5 DEF TileSoFar, Zero
<1>7. CSoFar'
  <2>1. ASSUME NEW x \in DOMAIN C, NEW m, NEW n, m = x % args.M, n = x \div args.M
        PROVE  Stored[x] = IF Passed(m, n)' THEN Complete(m, n) ELSE Zero
    <3>1. m \in 0 .. args.M - 1 /\ n \in 0 .. args.N - 1
      BY <1>1, <2>1, Place
    <3>2. Passed(m, n)' <=> Passed(m, n) \/ (i <= m /\ m < i + Height /\ j <= n /\ n < j + Width)
      BY <1>2, <1>3, <1>4, <3>1 DEF Passed
    <3>3. C[x] = IF Passed(m, n) THEN Complete(m, n) ELSE Zero
      BY <1>1, <2>1 DEF CSoFar
    <3>4. Stored[x] = IF i <= m /\ m < i + Height /\ j <= n /\ n < j + Width
                      THEN Complete(m, n) ELSE C[x]
      BY <2>1, StoredElement
    <3>5. QED
      BY <3>2, <3>3, <3>4
  <2>2. DOMAIN C' = DOMAIN C
    BY <1>2 DEF Stored
  <2>3. \A m, n : Complete(m, n)' = Complete(m, n)
    BY <1>2 DEF Complete
  <2>4. QED
    BY <1>2, <2>1, <2>2, <2>3 DEF CSoFar
<1>8. QED
  BY <1>5, <1>6, <1>7 DEF Inductive

(* The inductive invariant: in every state of a kernel the tiles passed    *)
(* are complete and ZA holds the products of the current tile up to k, if  *)
(* the vectors of A hold the rows their lanes stand for.                   *)
THEOREM Invariance == ASSUME WholeLoads PROVE Spec => []Inductive
<1>1. Init => Inductive
  BY InductiveInit
<1>2. Inductive /\ [Next]_vars => Inductive'
  <2> SUFFICES ASSUME Inductive, [Next]_vars PROVE Inductive'
    OBVIOUS
  <2>1. CASE Accumulate
    BY <2>1, AccumulateStep
  <2>2. CASE NextLoop
    BY <2>2, NextLoopStep
  <2>3. CASE StoreTile
    BY <2>3, StoreTileStep
  <2>4. CASE UNCHANGED vars
    <3>1. UNCHANGED <<args, i, j, loop, k, za, C>>
      BY <2>4 DEF vars
    <3>2. TypeOK'
      BY <3>1, SameTile DEF Inductive, TypeOK
    <3>3. TileSoFar'
      <4>1. Step' = Step
        BY <3>1 DEF Step
      <4>2. QED
        BY <3>1, <4>1, SameTile DEF Inductive, TileSoFar, Zero, Products, RowsLoaded
    <3>4. CSoFar'
      BY <3>1, SameTile DEF Inductive, CSoFar, Passed, Complete
    <3>5. QED
      BY <3>2, <3>3, <3>4 DEF Inductive
  <2>5. QED
    BY <2>1, <2>2, <2>3, <2>4 DEF Next
<1>3. QED
  BY <1>1, <1>2, PTL DEF Spec

(* An element of C that has been stored is the whole sum over k, with no   *)
(* product left out or added twice, for all M, N, K and vector lengths.    *)
THEOREM StoredComplete == ASSUME WholeLoads PROVE Spec => []StoredIsComplete
<1>1. Inductive => StoredIsComplete
  BY DEF Inductive, CSoFar, StoredIsComplete
<1>2. QED
  BY <1>1, Invariance, PTL

(* When a kernel has passed the last row, no element of C is left out.     *)
THEOREM NoElementLeftOut == ASSUME WholeLoads PROVE Spec => []AllStored
<1>1. Inductive => AllStored
  <2> SUFFICES ASSUME Inductive, i >= args.M, NEW x \in DOMAIN C PROVE C[x] # Zero
    BY DEF AllStored
  <2> DEFINE m == x % args.M
             n == x \div args.M
  <2>1. TypeOK /\ CSoFar
    BY DEF Inductive
  <2>2. m \in 0 .. args.M - 1 /\ args.M \in Nat /\ args.K \in Nat \ {0} /\ i \in Nat
    BY <2>1, Place, Sizes DEF TypeOK
  <2>3. C[x] = Complete(m, n)
    <3> HIDE DEF n
    <3>1. Passed(m, n)
      BY <2>2 DEF Passed
    <3>2. QED
      BY <2>1, <3>1 DEF CSoFar, n
  <2>4. <<m + 0 * args.M, 0 + n * args.K>> \in Complete(m, n).products
    <3>1. 0 \in 0 .. args.K - 1
      BY <2>2
    <3> HIDE DEF m, n
    <3>2. QED
      BY <3>1 DEF Complete
  <2>5. QED
    BY <2>3, <2>4 DEF Zero
<1>2. QED
  BY <1>1, Invariance, PTL

-----------------------------------------------------------------------------
(* PackedGemm.  First the addresses: a matrix is packed in panels of h     *)
(* rows, the last of which may have fewer.                                 *)

(* Quotient and remainder are determined.                                  *)
LEMMA OneQuotient ==
  ASSUME NEW by \in Nat \ {0}, NEW p \in Nat, NEW q \in Nat,
         NEW rest \in 0 .. by - 1, NEW s \in 0 .. by - 1, p * by + rest = q * by + s
  PROVE  p = q /\ rest = s
<1>1. ASSUME NEW x \in Nat, NEW y \in Nat, NEW e \in 0 .. by - 1, NEW f \in 0 .. by - 1, x < y
      PROVE  x * by + e < y * by + f
  <2>1. PICK d \in Nat : y = x + 1 + d
    <3>1. y - x - 1 \in Nat /\ y = x + 1 + (y - x - 1)
      BY <1>1
    <3> QED
      BY <3>1
  <2>2. y * by = x * by + by + d * by
    BY <2>1
  <2>3. x * by \in Nat /\ y * by \in Nat /\ d * by \in Nat
    BY <2>1
  <2>4. e < by /\ f >= 0
    OBVIOUS
  <2> QED
    BY <2>2, <2>3, <2>4
<1>2. p = q
  BY <1>1
<1>3. p * by \in Nat
  OBVIOUS
<1> QED
  BY <1>2, <1>3

(* The first row of the panel of a row, for panels of h rows.              *)
Start(row, h) == row - (row % h)
Smaller(x, y) == IF x < y THEN x ELSE y

(* The address of word w of a row of a matrix of so many rows with K words *)
(* each, packed in panels of h rows.                                       *)
At(rows, h, K, row, w) ==
  Start(row, h) * K + w * Smaller(rows - Start(row, h), h) + (row - Start(row, h))

(* The first row of a panel is the multiple of h before its rows.          *)
LEMMA StartIs ==
  ASSUME NEW h \in Nat \ {0}, NEW row \in Nat
  PROVE  /\ \E q \in Nat : Start(row, h) = q * h /\ q * h \in Nat /\ q * h <= row /\ row < q * h + h
         /\ \A q \in Nat : q * h <= row /\ row < q * h + h => Start(row, h) = q * h
<1> DEFINE p == row \div h
           rest == row % h
<1>1. p \in Nat /\ rest \in 0 .. h - 1 /\ row = p * h + rest
  OBVIOUS
<1>2. Start(row, h) = row - rest
  BY DEF Start
<1> HIDE DEF p, rest
<1>3. p * h \in Nat
  BY <1>1
<1>4. Start(row, h) = p * h
  BY <1>1, <1>2, <1>3
<1>5. ASSUME NEW q \in Nat, q * h <= row, row < q * h + h PROVE Start(row, h) = q * h
  <2>1. q * h \in Nat
    OBVIOUS
  <2>2. row - q * h \in 0 .. h - 1 /\ q * h + (row - q * h) = p * h + rest
    BY <1>1, <1>3, <1>5, <2>1
  <2>3. q = p
    BY <1>1, <2>2, OneQuotient
  <2> QED
    BY <1>4, <2>3
<1>6. p * h <= row /\ row < p * h + h
  BY <1>1, <1>3
<1> QED
  BY <1>1, <1>3, <1>4, <1>5, <1>6

(* A word lies in its panel: behind the panels before it, and within it    *)
(* behind the words with smaller k.                                        *)
LEMMA WithinPanel ==
  ASSUME NEW rows \in Nat \ {0}, NEW h \in Nat \ {0}, NEW K \in Nat \ {0},
         NEW row \in 0 .. rows - 1, NEW w \in 0 .. K - 1,
         NEW q \in Nat, NEW p \in Nat, p = q * h, p = Start(row, h)
  PROVE  LET height == Smaller(rows - p, h)
             y == w * height + (row - p)
         IN /\ height \in Nat \ {0} /\ row - p \in 0 .. height - 1
            /\ y \in 0 .. height * K - 1
            /\ y \in 0 .. h * K - 1
            /\ At(rows, h, K, row, w) = q * (h * K) + y
<1> DEFINE height == Smaller(rows - p, h)
           y == w * height + (row - p)
<1>1. p <= row /\ row < p + h
  BY StartIs
<1>2. height \in Nat \ {0} /\ row - p \in 0 .. height - 1 /\ height <= h
  BY <1>1 DEF Smaller
<1>3. At(rows, h, K, row, w) = p * K + w * height + (row - p)
  BY DEF At
<1> HIDE DEF height
<1>4. w * height \in Nat /\ w * height + height <= height * K
  <2>1. PICK d \in Nat : K = w + 1 + d
    <3>1. K - w - 1 \in Nat /\ K = w + 1 + (K - w - 1)
      OBVIOUS
    <3> QED
      BY <3>1
  <2>2. height * K = w * height + height + d * height
    BY <1>2, <2>1
  <2>3. w * height \in Nat /\ d * height \in Nat
    BY <1>2, <2>1
  <2> QED
    BY <1>2, <2>2, <2>3
<1>5. height * K \in Nat /\ h * K \in Nat /\ height * K <= h * K
  <2>1. PICK d \in Nat : h = height + d
    <3>1. h - height \in Nat /\ h = height + (h - height)
      BY <1>2
    <3> QED
      BY <3>1
  <2>2. h * K = height * K + d * K
    BY <1>2, <2>1
  <2>3. height * K \in Nat /\ d * K \in Nat
    BY <1>2, <2>1
  <2> QED
    BY <2>2, <2>3
<1>6. p * K = q * (h * K)
  BY <1>1
<1>7. y \in 0 .. height * K - 1 /\ y \in 0 .. h * K - 1
  BY <1>2, <1>4, <1>5
<1>8. At(rows, h, K, row, w) = q * (h * K) + y
  <2> DEFINE a == p * K
             b == w * height
  <2>1. a \in Nat /\ b \in Nat /\ row - p \in Int
    BY <1>4
  <2>2. At(rows, h, K, row, w) = a + b + (row - p)
    BY <1>3
  <2> HIDE DEF a, b
  <2>3. At(rows, h, K, row, w) = a + (b + (row - p))
    BY <2>1, <2>2
  <2> QED
    BY <1>6, <2>3 DEF a, b
<1> QED
  BY <1>2, <1>7, <1>8 DEF height

(* Two words do not lie at the same address.                               *)
LEMMA AddressesApart ==
  ASSUME NEW rows \in Nat \ {0}, NEW h \in Nat \ {0}, NEW K \in Nat \ {0},
         NEW row \in 0 .. rows - 1, NEW w \in 0 .. K - 1,
         NEW s \in 0 .. rows - 1, NEW l \in 0 .. K - 1,
         At(rows, h, K, row, w) = At(rows, h, K, s, l)
  PROVE  row = s /\ w = l
<1>0. row \in Nat /\ s \in Nat
  OBVIOUS
<1>1. PICK q \in Nat : Start(row, h) = q * h /\ q * h \in Nat
  BY <1>0, StartIs
<1>2. PICK z \in Nat : Start(s, h) = z * h /\ z * h \in Nat
  BY <1>0, StartIs
<1> DEFINE p == q * h
           o == z * h
           hp == Smaller(rows - p, h)
           ho == Smaller(rows - o, h)
           yp == w * hp + (row - p)
           yo == l * ho + (s - o)
<1>3. /\ hp \in Nat \ {0} /\ row - p \in 0 .. hp - 1 /\ yp \in 0 .. h * K - 1
      /\ At(rows, h, K, row, w) = q * (h * K) + yp
  BY <1>1, WithinPanel
<1>4. /\ ho \in Nat \ {0} /\ s - o \in 0 .. ho - 1 /\ yo \in 0 .. h * K - 1
      /\ At(rows, h, K, s, l) = z * (h * K) + yo
  BY <1>2, WithinPanel
<1> HIDE DEF yp, yo
<1>5. h * K \in Nat \ {0}
  OBVIOUS
<1> DEFINE by == h * K
<1>6. q = z /\ yp = yo
  <2>1. by \in Nat \ {0} /\ yp \in 0 .. by - 1 /\ yo \in 0 .. by - 1
    BY <1>3, <1>4, <1>5
  <2>2. q * by + yp = z * by + yo
    BY <1>3, <1>4
  <2> HIDE DEF by
  <2> QED
    BY <2>1, <2>2, OneQuotient
<1>7. w * hp + (row - p) = l * hp + (s - p) /\ s - p \in 0 .. hp - 1
  BY <1>4, <1>6 DEF yp, yo
<1>8. w = l /\ row - p = s - p
  BY <1>3, <1>7, OneQuotient
<1> QED
  BY <1>1, <1>8

(* Every address of the buffer is that of a word.                          *)
LEMMA AddressesCover ==
  ASSUME NEW rows \in Nat \ {0}, NEW h \in Nat \ {0}, NEW K \in Nat \ {0},
         NEW x \in 0 .. rows * K - 1
  PROVE  \E row \in 0 .. rows - 1 : \E w \in 0 .. K - 1 : At(rows, h, K, row, w) = x
<1> DEFINE size == h * K
           q == x \div size
           y == x % size
           p == q * h
           height == Smaller(rows - p, h)
<1>1. size \in Nat \ {0} /\ rows * K \in Nat
  OBVIOUS
<1> HIDE DEF size
<1>2. q \in Nat /\ y \in 0 .. size - 1 /\ x = q * size + y
  BY <1>1
<1> HIDE DEF q, y
<1>3. p \in Nat /\ p * K = q * size /\ p * K \in Nat
  <2>1. p \in Nat
    BY <1>2
  <2>2. p * K = q * size
    BY <1>2 DEF size
  <2> QED
    BY <2>1, <2>2
<1> HIDE DEF p
<1>4. p < rows
  <2> SUFFICES ASSUME rows <= p PROVE FALSE
    BY <1>3
  <2>1. PICK d \in Nat : p = rows + d
    <3>1. p - rows \in Nat /\ p = rows + (p - rows)
      BY <1>3
    <3> QED
      BY <3>1
  <2>2. p * K = rows * K + d * K /\ d * K \in Nat
    BY <2>1
  <2> QED
    BY <1>1, <1>2, <1>3, <2>2
<1>5. height \in Nat \ {0} /\ height * K \in Nat
  BY <1>3, <1>4 DEF Smaller
<1>6. y < height * K
  <2>1. CASE rows - p < h
    <3>1. height = rows - p
      BY <2>1 DEF Smaller
    <3>2. height * K = rows * K - p * K
      BY <1>3, <3>1
    <3> QED
      BY <1>1, <1>2, <1>3, <3>2
  <2>2. CASE ~(rows - p < h)
    <3>1. height = h
      BY <2>2 DEF Smaller
    <3> QED
      BY <1>1, <1>2, <3>1 DEF size
  <2> QED
    BY <2>1, <2>2
<1> HIDE DEF height
<1> DEFINE w == y \div height
           rest == y % height
<1>7. w \in Nat /\ rest \in 0 .. height - 1 /\ y = w * height + rest
  BY <1>1, <1>2, <1>5
<1> HIDE DEF w, rest
<1>8. w < K
  <2> SUFFICES ASSUME K <= w PROVE FALSE
    BY <1>7
  <2>1. PICK d \in Nat : w = K + d
    <3>1. w - K \in Nat /\ w = K + (w - K)
      BY <1>7
    <3> QED
      BY <3>1
  <2>2. w * height = height * K + d * height /\ d * height \in Nat
    BY <1>5, <2>1
  <2> QED
    BY <1>5, <1>6, <1>7, <2>2
<1> DEFINE row == p + rest
<1>9. height <= rows - p /\ height <= h
  BY <1>3, <1>4 DEF height, Smaller
<1>10. row \in 0 .. rows - 1 /\ row \in Nat /\ p <= row /\ row < p + h /\ row - p = rest
  BY <1>3, <1>5, <1>7, <1>9
<1> HIDE DEF row
<1>11. Start(row, h) = p
  BY <1>2, <1>10, StartIs DEF p
<1>12. At(rows, h, K, row, w) = p * K + w * height + rest
  BY <1>10, <1>11 DEF At, height
<1>13. w * height \in Nat
  BY <1>5, <1>7
<1>14. At(rows, h, K, row, w) = x
  BY <1>2, <1>3, <1>7, <1>12, <1>13
<1> QED
  BY <1>7, <1>8, <1>10, <1>14

(* Every word has an address in the buffer.                                *)
LEMMA AddressesWithin ==
  ASSUME NEW rows \in Nat \ {0}, NEW h \in Nat \ {0}, NEW K \in Nat \ {0},
         NEW row \in 0 .. rows - 1, NEW w \in 0 .. K - 1
  PROVE  At(rows, h, K, row, w) \in 0 .. rows * K - 1
<1>0. row \in Nat
  OBVIOUS
<1>1. PICK q \in Nat : Start(row, h) = q * h /\ q * h \in Nat /\ q * h <= row
  BY <1>0, StartIs
<1> DEFINE p == q * h
           height == Smaller(rows - p, h)
           y == w * height + (row - p)
<1>2. /\ height \in Nat \ {0} /\ y \in 0 .. height * K - 1
      /\ At(rows, h, K, row, w) = q * (h * K) + y
  BY <1>1, WithinPanel
<1>3. q * (h * K) = p * K
  OBVIOUS
<1>4. p \in Nat /\ p < rows
  BY <1>1
<1> HIDE DEF y, p
<1>5. height <= rows - p
  BY <1>4 DEF Smaller
<1> HIDE DEF height
<1>6. PICK d \in Nat : rows = p + height + d
  <2>1. rows - p - height \in Nat /\ rows = p + height + (rows - p - height)
    BY <1>2, <1>4, <1>5
  <2> QED
    BY <2>1
<1>7. rows * K = p * K + height * K + d * K
  BY <1>2, <1>4, <1>6
<1>8. p * K \in Nat /\ height * K \in Nat /\ d * K \in Nat
  BY <1>2, <1>4, <1>6
<1> QED
  BY <1>2, <1>3, <1>7, <1>8

(* The layouts written by hand have the strides of the packing loops.      *)
LEMMA RunSizes ==
  ASSUME run \in Runs
  PROVE  /\ run.M \in Nat \ {0} /\ run.N \in Nat \ {0} /\ run.K \in Nat \ {0}
         /\ Side \in Nat \ {0}
         /\ ~Igemmbdq => /\ Layout["a"] = run.M /\ Layout["b"] = run.N /\ Layout.c = run.N
                         /\ Layout.atoms = run.K
<1>1. CASE run \in [program : Programs \cap {"igemmbdq"}, M : LineCounts, N : LineCounts,
                    K : WordCounts]
  BY <1>1, SizeAssumption DEF Igemmbdq
<1>2. CASE run \in {[program |-> p, M |-> Layouts[p].M, N |-> Layouts[p].N, K |-> Layouts[p].K]
                      : p \in Programs \ {"igemmbdq"}}
  <2>1. PICK p \in Programs \ {"igemmbdq"} :
          run = [program |-> p, M |-> Layouts[p].M, N |-> Layouts[p].N, K |-> Layouts[p].K]
    BY <1>2
  <2>2. p \in {"mma_int8", "mma_bf16", "mma_fp64", "copy_int8"}
    BY LayoutsAssumption DEF Layouts
  <2>3. /\ Layouts[p].M \in Nat \ {0} /\ Layouts[p].N \in Nat \ {0} /\ Layouts[p].K \in Nat \ {0}
        /\ Layouts[p].a = Layouts[p].M /\ Layouts[p].b = Layouts[p].N
        /\ Layouts[p].c = Layouts[p].N /\ Layouts[p].atoms = Layouts[p].K
    BY <2>2 DEF Layouts
  <2>4. Layout = Layouts[p] /\ Layout["a"] = Layout.a /\ Layout["b"] = Layout.b
    BY <2>1 DEF Layout
  <2> QED
    BY <2>1, <2>3, <2>4, SizeAssumption
<1> QED
  BY <1>1, <1>2 DEF Runs

-----------------------------------------------------------------------------
(* The inductive invariant: how far the loops are; the words packed so far *)
(* lie at their addresses; the sums of the tile have the words before ki;  *)
(* the tiles passed are stored.                                            *)

Copies == run.program = "copy_int8"
PanelHeight(matrix) == IF Igemmbdq THEN Side ELSE Rows(matrix)
BlockHeight == IF Igemmbdq THEN Side ELSE 1
BlockWidth == IF Igemmbdq THEN Side ELSE run.K

AddressOf(matrix, row, w) == At(Rows(matrix), PanelHeight(matrix), run.K, row, w)

Multiple(x, h) == x \in Nat /\ \E q \in Nat : x = q * h

Position ==
  /\ run \in Runs
  /\ phase \in (IF Copies THEN {"a", "done"} ELSE {"a", "b", "gemm", "done"})
  /\ phase \in {"a", "b"} =>
       /\ Multiple(mi, BlockHeight) /\ mi < Rows(phase)
       /\ Multiple(ni, BlockWidth) /\ ni < run.K
       /\ ki = 0
  /\ phase = "gemm" =>
       /\ Multiple(mi, PanelHeight("a")) /\ mi < run.M
       /\ Multiple(ni, PanelHeight("b")) /\ ni < run.N
       /\ ki \in 0 .. run.K

PackedSoFar(matrix, row, w) ==
  \/ phase \notin {"a", matrix}
  \/ phase = matrix /\ (row < mi \/ (row < mi + BlockHeight /\ w < ni))

Matrices == IF Copies THEN {"a"} ELSE {"a", "b"}

WordsPacked ==
  /\ DOMAIN packed = {"a", "b"}
  /\ \A matrix \in {"a", "b"} : DOMAIN packed[matrix] = 0 .. Rows(matrix) * run.K - 1
  /\ \A matrix \in Matrices :
       \A row \in 0 .. Rows(matrix) - 1 : \A w \in 0 .. run.K - 1 :
         PackedSoFar(matrix, row, w) => packed[matrix][AddressOf(matrix, row, w)] = <<row, w>>

TileSums ==
  /\ phase \in {"a", "b"} => sums = ZeroSums
  /\ phase = "gemm" =>
       /\ DOMAIN sums = DOMAIN ZeroSums
       /\ \A e \in Tile : sums[e] = IF ki = 0 THEN Empty ELSE <<mi + e[1], ni + e[2], ki>>

TilePassed(row, column) ==
  \/ phase = "done"
  \/ phase = "gemm" /\ (row < mi \/ (row < mi + PanelHeight("a") /\ column < ni))

RightElement(row, column) ==
  [sum |-> <<row, column, run.K>>, scales |-> IF Igemmbdq THEN <<column, row>> ELSE <<>>]

TilesStored ==
  ~Copies =>
    \A row \in 0 .. run.M - 1 : \A column \in 0 .. run.N - 1 :
      TilePassed(row, column) => /\ row * run.N + column \in DOMAIN output
                             /\ output[row * run.N + column] = RightElement(row, column)

PackedInv == Position /\ WordsPacked /\ TileSums /\ TilesStored

-----------------------------------------------------------------------------
(* The multiples of h, of which 0 is the only one below h.                 *)
LEMMA Multiples ==
  ASSUME NEW h \in Nat \ {0}, NEW x, Multiple(x, h)
  PROVE  /\ Multiple(x + h, h) /\ Multiple(0, h)
         /\ x < h => x = 0
<1>1. PICK q \in Nat : x = q * h
  BY DEF Multiple
<1>2. x + h = (q + 1) * h /\ x \in Nat
  BY <1>1 DEF Multiple
<1>3. Multiple(x + h, h)
  BY <1>2 DEF Multiple
<1>4. 0 = 0 * h
  OBVIOUS
<1>5. ASSUME x < h PROVE x = 0
  <2> SUFFICES ASSUME q >= 1 PROVE FALSE
    BY <1>1
  <2>1. PICK d \in Nat : q = 1 + d
    <3>1. q - 1 \in Nat /\ q = 1 + (q - 1)
      OBVIOUS
    <3> QED
      BY <3>1
  <2>2. x = h + d * h /\ d * h \in Nat
    BY <1>1, <2>1
  <2> QED
    BY <1>5, <2>2
<1> QED
  BY <1>3, <1>4, <1>5 DEF Multiple

LEMMA RowsArePositive ==
  ASSUME run \in Runs
  PROVE  /\ \A matrix : Rows(matrix) \in Nat \ {0} /\ PanelHeight(matrix) \in Nat \ {0}
         /\ BlockHeight \in Nat \ {0} /\ BlockWidth \in Nat \ {0}
BY RunSizes DEF Rows, PanelHeight, BlockHeight, BlockWidth

(* A block has the words of some rows and k of the matrix.                 *)
LEMMA BlockIs ==
  ASSUME Position, phase \in {"a", "b"}
  PROVE  /\ Block \subseteq (0 .. Rows(phase) - 1) \X (0 .. run.K - 1)
         /\ \A row \in 0 .. Rows(phase) - 1 : \A w \in 0 .. run.K - 1 :
              <<row, w>> \in Block <=> /\ mi <= row /\ row < mi + BlockHeight
                                       /\ ni <= w /\ w < ni + BlockWidth
<1> DEFINE rows == Rows(phase)
<1>1. /\ rows \in Nat \ {0} /\ run.K \in Nat \ {0} /\ Side \in Nat \ {0}
      /\ BlockHeight \in Nat \ {0} /\ BlockWidth \in Nat \ {0}
  BY RunSizes, RowsArePositive DEF Position
<1>2. /\ mi \in Nat /\ mi < rows /\ ni \in Nat /\ ni < run.K
      /\ Multiple(ni, BlockWidth)
  BY DEF Position, Multiple
<1>3. CASE Igemmbdq
  <2>1. BlockHeight = Side /\ BlockWidth = Side
    BY <1>3 DEF BlockHeight, BlockWidth
  <2>2. Block = (mi .. mi + Panel(mi, rows) - 1) \X (ni .. ni + Panel(ni, run.K) - 1)
    BY <1>3 DEF Block
  <2> QED
    BY <1>1, <1>2, <2>1, <2>2 DEF Panel
<1>4. CASE ~Igemmbdq
  <2>1. BlockHeight = 1 /\ BlockWidth = run.K
    BY <1>4 DEF BlockHeight, BlockWidth
  <2>2. ni = 0
    BY <1>1, <1>2, <2>1, Multiples
  <2>3. Block = {mi} \X (0 .. run.K - 1)
    BY <1>4 DEF Block
  <2> QED
    BY <1>1, <1>2, <2>1, <2>2, <2>3
<1> QED
  BY <1>3, <1>4

(* Without panels the words of all rows for one k lie next to each other.  *)
LEMMA AddressWithoutPanels ==
  ASSUME run \in Runs, ~Igemmbdq, NEW matrix,
         NEW row \in 0 .. Rows(matrix) - 1, NEW w \in 0 .. run.K - 1
  PROVE  /\ AddressOf(matrix, row, w) = w * Rows(matrix) + row
         /\ AddressOf(matrix, row, w) = row + w * Rows(matrix)
<1> DEFINE rows == Rows(matrix)
<1>1. rows \in Nat \ {0} /\ run.K \in Nat \ {0}
  BY RunSizes, RowsArePositive
<1>2. PanelHeight(matrix) = rows
  BY DEF PanelHeight
<1>3. row \in 0 .. rows - 1
  OBVIOUS
<1> HIDE DEF rows
<1>4. Start(row, rows) = 0
  BY <1>1, <1>3 DEF Start
<1>5. AddressOf(matrix, row, w) = 0 * run.K + w * Smaller(rows - 0, rows) + (row - 0)
  BY <1>2, <1>4 DEF AddressOf, At, rows
<1>6. Smaller(rows - 0, rows) = rows /\ 0 * run.K = 0 /\ row - 0 = row /\ row \in Int
  BY <1>1, <1>3 DEF Smaller
<1> DEFINE p == w * rows
<1>7. AddressOf(matrix, row, w) = 0 + p + row
  BY <1>5, <1>6
<1>8. p \in Int
  BY <1>1
<1> HIDE DEF p
<1>9. AddressOf(matrix, row, w) = p + row /\ p + row = row + p
  BY <1>6, <1>7, <1>8
<1> QED
  BY <1>9 DEF p, rows

(* The packing puts the words of a block at their addresses.               *)
LEMMA PackedAtItsAddress ==
  ASSUME Position, phase \in {"a", "b"}, NEW e \in Block
  PROVE  PackedAt(phase, e[1], e[2]) = AddressOf(phase, e[1], e[2])
<1> DEFINE rows == Rows(phase)
           row == e[1]
           w == e[2]
<1>1. /\ rows \in Nat \ {0} /\ run.K \in Nat \ {0} /\ Side \in Nat \ {0}
      /\ BlockHeight \in Nat \ {0}
  BY RunSizes, RowsArePositive DEF Position
<1>2. /\ row \in 0 .. rows - 1 /\ w \in 0 .. run.K - 1 /\ e = <<row, w>>
  BY BlockIs
<1>3. mi <= row /\ row < mi + BlockHeight
  <2>1. <<row, w>> \in Block
    BY <1>2
  <2> QED
    BY <1>2, <2>1, BlockIs
<1>4. mi \in Nat /\ Multiple(mi, BlockHeight)
  BY DEF Position, Multiple
<1> HIDE DEF row, w, rows
<1>5. CASE Igemmbdq
  <2>1. BlockHeight = Side /\ PanelHeight(phase) = Side
    BY <1>5 DEF BlockHeight, PanelHeight
  <2>2. Start(row, Side) = mi
    <3>1. PICK q \in Nat : mi = q * Side
      BY <1>4, <2>1 DEF Multiple
    <3>2. row \in Nat /\ q * Side <= row /\ row < q * Side + Side
      BY <1>2, <1>3, <2>1, <3>1
    <3>3. Start(row, Side) = q * Side
      BY <1>1, <3>2, StartIs
    <3> QED
      BY <3>1, <3>3
  <2>3. Panel(mi, rows) = Smaller(rows - mi, Side)
    BY DEF Panel, Smaller
  <2>4. PackedAt(phase, row, w) = (mi * run.K) + w * Panel(mi, rows) + (row - mi)
    BY <1>5 DEF PackedAt, Igemmbdq, rows
  <2>5. AddressOf(phase, row, w) = mi * run.K + w * Smaller(rows - mi, Side) + (row - mi)
    BY <2>1, <2>2 DEF AddressOf, At, rows
  <2> QED
    BY <2>3, <2>4, <2>5 DEF row, w
<1>6. CASE ~Igemmbdq
  <2>1. /\ AddressOf(phase, row, w) = w * rows + row
        /\ AddressOf(phase, row, w) = row + w * rows
    BY <1>2, <1>6, AddressWithoutPanels DEF Position, rows
  <2>2. CASE Copies
    <3>1. phase = "a" /\ rows = run.M
      BY <2>2 DEF Position, Rows, rows
    <3>2. PackedAt(phase, row, w) = row + w * Layout.a
      BY <1>6, <2>2 DEF PackedAt, Copies
    <3>3. Layout.a = rows
      BY <1>6, <3>1, RunSizes DEF Position
    <3>4. PackedAt(phase, row, w) = row + w * rows
      BY <3>2, <3>3
    <3> QED
      BY <2>1, <3>4 DEF row, w
  <2>3. CASE ~Copies
    <3>1. PackedAt(phase, row, w) = w * rows + row
      BY <1>6, <2>3 DEF PackedAt, Copies, rows
    <3> QED
      BY <2>1, <3>1 DEF row, w
  <2> QED
    BY <2>2, <2>3
<1> QED
  BY <1>5, <1>6

(* What depends on the program and its sizes only.                         *)
LEMMA SameRun ==
  ASSUME run' = run
  PROVE  /\ (Copies' <=> Copies) /\ (Igemmbdq' <=> Igemmbdq) /\ Matrices' = Matrices
         /\ BlockHeight' = BlockHeight /\ BlockWidth' = BlockWidth /\ ZeroSums' = ZeroSums
         /\ \A matrix : Rows(matrix)' = Rows(matrix) /\ PanelHeight(matrix)' = PanelHeight(matrix)
         /\ \A matrix, row, w : AddressOf(matrix, row, w)' = AddressOf(matrix, row, w)
         /\ \A row, column : RightElement(row, column)' = RightElement(row, column)
BY DEF Copies, Igemmbdq, Matrices, BlockHeight, BlockWidth, ZeroSums, Rows, PanelHeight, AddressOf,
       RightElement

(* The loops of the packing: the next block of these rows, the next rows,  *)
(* or the end.                                                             *)
BlockAfter ==
  \/ ni + BlockWidth < run.K /\ ni' = ni + BlockWidth /\ mi' = mi /\ phase' = phase
  \/ /\ ~(ni + BlockWidth < run.K) /\ ni' = 0
     /\ mi + BlockHeight < Rows(phase) /\ mi' = mi + BlockHeight /\ phase' = phase
  \/ /\ ~(ni + BlockWidth < run.K) /\ ni' = 0
     /\ ~(mi + BlockHeight < Rows(phase)) /\ mi' = 0 /\ phase' = AfterPacking

LEMMA PackingGoesOn == NextBlock => BlockAfter
BY DEF NextBlock, BlockAfter, BlockHeight, BlockWidth

(* A block packed leaves the loops at the next block or the next phase.    *)
LEMMA PackPosition == ASSUME Position, Pack PROVE Position'
<1>1. /\ run' = run /\ ki' = ki /\ phase \in {"a", "b"} /\ run \in Runs
      /\ BlockAfter
  BY PackingGoesOn DEF Pack, Position
<1>2. /\ BlockHeight \in Nat \ {0} /\ BlockWidth \in Nat \ {0}
      /\ \A matrix : Rows(matrix) \in Nat \ {0} /\ PanelHeight(matrix) \in Nat \ {0}
  BY <1>1, RowsArePositive
<1>3. /\ Multiple(mi, BlockHeight) /\ mi < Rows(phase) /\ Multiple(ni, BlockWidth) /\ ni < run.K
      /\ ki = 0 /\ (Copies => phase = "a")
  BY <1>1 DEF Position
<1>4. /\ Multiple(mi + BlockHeight, BlockHeight) /\ Multiple(ni + BlockWidth, BlockWidth)
      /\ Multiple(0, BlockHeight) /\ Multiple(0, BlockWidth)
      /\ Multiple(0, PanelHeight("a")) /\ Multiple(0, PanelHeight("b"))
  <2>1. \A h \in Nat \ {0} : Multiple(0, h)
    BY DEF Multiple
  <2> QED
    BY <1>2, <1>3, <2>1, Multiples
<1>5. /\ run.K \in Nat \ {0} /\ run.M \in Nat \ {0} /\ run.N \in Nat \ {0}
  BY <1>1, RunSizes
<1> SUFFICES /\ phase' \in (IF Copies THEN {"a", "done"} ELSE {"a", "b", "gemm", "done"})
             /\ phase' \in {"a", "b"} =>
                  /\ Multiple(mi', BlockHeight) /\ mi' < Rows(phase')
                  /\ Multiple(ni', BlockWidth) /\ ni' < run.K
                  /\ ki' = 0
             /\ phase' = "gemm" =>
                  /\ Multiple(mi', PanelHeight("a")) /\ mi' < run.M
                  /\ Multiple(ni', PanelHeight("b")) /\ ni' < run.N
                  /\ ki' \in 0 .. run.K
  BY <1>1 DEF Position, Copies, Multiple, BlockHeight, BlockWidth, Rows, PanelHeight, Igemmbdq
<1>6. CASE ni + BlockWidth < run.K /\ ni' = ni + BlockWidth /\ mi' = mi /\ phase' = phase
  BY <1>1, <1>3, <1>4, <1>6
<1>7. CASE ni' = 0 /\ mi + BlockHeight < Rows(phase) /\ mi' = mi + BlockHeight /\ phase' = phase
  BY <1>1, <1>3, <1>4, <1>5, <1>7
<1>8. CASE ni' = 0 /\ mi' = 0 /\ phase' = AfterPacking
  <2>1. phase' \in (IF Copies THEN {"done"} ELSE {"b", "gemm"})
    BY <1>1, <1>3, <1>8 DEF AfterPacking, Copies
  <2>2. 0 < Rows(phase') /\ 0 < run.K /\ 0 < run.M /\ 0 < run.N /\ ki' \in 0 .. run.K
    BY <1>1, <1>2, <1>3, <1>5
  <2> QED
    BY <1>1, <1>3, <1>4, <1>8, <2>1, <2>2
<1> QED
  BY <1>1, <1>6, <1>7, <1>8 DEF BlockAfter

(* Packing a block puts its words in place and no other out of place.      *)
LEMMA PackWords == ASSUME Position, WordsPacked, Pack PROVE WordsPacked'
<1> DEFINE rows == Rows(phase)
           Addr(e) == AddressOf(phase, e[1], e[2])
           stored == [x \in {Addr(e) : e \in Block} |-> CHOOSE e \in Block : Addr(e) = x]
<1>1. /\ run' = run /\ phase \in {"a", "b"} /\ run \in Runs /\ BlockAfter
      /\ (Copies => phase = "a")
  BY PackingGoesOn DEF Pack, Position
<1>2. packed' = [packed EXCEPT ![phase] = Overwrite(@, stored)]
  <2> DEFINE address == [e \in Block |-> PackedAt(phase, e[1], e[2])]
             there == [x \in {address[e] : e \in Block} |-> CHOOSE e \in Block : address[e] = x]
  <2>1. packed' = [packed EXCEPT ![phase] = Overwrite(@, there)]
    BY DEF Pack
  <2>2. \A e \in Block : address[e] = Addr(e)
    BY <1>1, PackedAtItsAddress
  <2> HIDE DEF address, Addr
  <2>3. there = stored
    <3>1. {address[e] : e \in Block} = {Addr(e) : e \in Block}
      BY <2>2
    <3>2. ASSUME NEW x
          PROVE (CHOOSE e \in Block : address[e] = x) = CHOOSE e \in Block : Addr(e) = x
      BY <2>2
    <3> QED
      BY <3>1, <3>2
  <2> QED
    BY <2>1, <2>3
<1>3. /\ rows \in Nat \ {0} /\ PanelHeight(phase) \in Nat \ {0} /\ run.K \in Nat \ {0}
      /\ BlockHeight \in Nat \ {0} /\ BlockWidth \in Nat \ {0}
  BY <1>1, RunSizes, RowsArePositive
<1>4. /\ DOMAIN packed = {"a", "b"}
      /\ \A matrix \in {"a", "b"} : DOMAIN packed[matrix] = 0 .. Rows(matrix) * run.K - 1
      /\ \A matrix \in Matrices :
           \A row \in 0 .. Rows(matrix) - 1 : \A w \in 0 .. run.K - 1 :
             PackedSoFar(matrix, row, w) => packed[matrix][AddressOf(matrix, row, w)] = <<row, w>>
  BY DEF WordsPacked
<1>5. /\ Block \subseteq (0 .. rows - 1) \X (0 .. run.K - 1)
      /\ \A row \in 0 .. rows - 1 : \A w \in 0 .. run.K - 1 :
           <<row, w>> \in Block <=> /\ mi <= row /\ row < mi + BlockHeight
                                    /\ ni <= w /\ w < ni + BlockWidth
  BY <1>1, BlockIs
<1>6. ASSUME NEW row \in 0 .. rows - 1, NEW w \in 0 .. run.K - 1
      PROVE  /\ AddressOf(phase, row, w) \in 0 .. rows * run.K - 1
             /\ \A s \in 0 .. rows - 1 : \A l \in 0 .. run.K - 1 :
                  AddressOf(phase, row, w) = AddressOf(phase, s, l) => row = s /\ w = l
  <2>1. AddressOf(phase, row, w) = At(rows, PanelHeight(phase), run.K, row, w)
    BY DEF AddressOf
  <2>2. ASSUME NEW s \in 0 .. rows - 1, NEW l \in 0 .. run.K - 1,
               AddressOf(phase, row, w) = AddressOf(phase, s, l)
        PROVE  row = s /\ w = l
    <3> DEFINE h == PanelHeight(phase)
               K == run.K
    <3>1. At(rows, h, K, row, w) = At(rows, h, K, s, l)
      BY <2>2 DEF AddressOf
    <3>2. /\ rows \in Nat \ {0} /\ h \in Nat \ {0} /\ K \in Nat \ {0}
          /\ row \in 0 .. rows - 1 /\ w \in 0 .. K - 1 /\ s \in 0 .. rows - 1 /\ l \in 0 .. K - 1
      BY <1>3
    <3> HIDE DEF rows, h, K
    <3> QED
      BY <3>1, <3>2, AddressesApart
  <2>3. AddressOf(phase, row, w) \in 0 .. rows * run.K - 1
    <3> HIDE DEF rows
    <3> QED
      BY <1>3, <2>1, AddressesWithin
  <2> QED
    BY <2>2, <2>3
<1>7. /\ DOMAIN packed' = {"a", "b"}
      /\ packed'[phase] = Overwrite(packed[phase], stored)
      /\ \A matrix \in {"a", "b"} : matrix # phase => packed'[matrix] = packed[matrix]
  BY <1>1, <1>2, <1>4
<1>8. DOMAIN stored = {Addr(e) : e \in Block}
  OBVIOUS
<1>9. \A e \in Block : Addr(e) \in 0 .. rows * run.K - 1
  BY <1>5, <1>6
<1>10. DOMAIN packed'[phase] = 0 .. rows * run.K - 1
  <2>1. DOMAIN stored \subseteq DOMAIN packed[phase]
    BY <1>1, <1>4, <1>8, <1>9
  <2> HIDE DEF stored
  <2> QED
    BY <1>1, <1>4, <1>7, <2>1 DEF Overwrite
<1>11. ASSUME NEW row \in 0 .. rows - 1, NEW w \in 0 .. run.K - 1
       PROVE  /\ <<row, w>> \in Block => packed'[phase][AddressOf(phase, row, w)] = <<row, w>>
              /\ <<row, w>> \notin Block =>
                   packed'[phase][AddressOf(phase, row, w)] = packed[phase][AddressOf(phase, row, w)]
  <2> DEFINE x == AddressOf(phase, row, w)
  <2>1. \A e \in Block : Addr(e) = x => e = <<row, w>>
    <3> SUFFICES ASSUME NEW e \in Block, Addr(e) = x PROVE e = <<row, w>>
      OBVIOUS
    <3>1. e[1] \in 0 .. rows - 1 /\ e[2] \in 0 .. run.K - 1 /\ e = <<e[1], e[2]>>
      BY <1>5
    <3>2. row = e[1] /\ w = e[2]
      BY <1>6, <3>1
    <3> QED
      BY <3>1, <3>2
  <2>2. Addr(<<row, w>>) = x
    OBVIOUS
  <2>3. x \in DOMAIN packed[phase]
    BY <1>1, <1>4, <1>6
  <2> HIDE DEF x, Addr
  <2>4. CASE <<row, w>> \in Block
    <3>1. (CHOOSE e \in Block : Addr(e) = x) = <<row, w>>
      BY <2>1, <2>2, <2>4
    <3>2. x \in DOMAIN stored /\ stored[x] = <<row, w>>
      BY <2>2, <2>4, <3>1
    <3> HIDE DEF stored
    <3> QED
      BY <1>7, <2>4, <3>2 DEF Overwrite, x
  <2>5. CASE <<row, w>> \notin Block
    <3>1. x \notin DOMAIN stored
      BY <2>1, <2>5
    <3> HIDE DEF stored
    <3> QED
      BY <1>7, <2>3, <2>5, <3>1 DEF Overwrite, x
  <2> QED
    BY <2>4, <2>5
<1>12. ASSUME NEW row \in 0 .. rows - 1, NEW w \in 0 .. run.K - 1, NEW matrix, matrix = phase,
              PackedSoFar(matrix, row, w)', <<row, w>> \notin Block
       PROVE  PackedSoFar(matrix, row, w)
  <2>1. mi \in Nat /\ ni \in Nat /\ mi < rows /\ ni < run.K /\ row \in Int /\ w \in Int
    BY <1>1 DEF Position, Multiple
  <2>2. ~(mi <= row /\ row < mi + BlockHeight /\ ni <= w /\ w < ni + BlockWidth)
    BY <1>5, <1>12
  <2> HIDE DEF rows
  <2> SUFFICES row < mi \/ (row < mi + BlockHeight /\ w < ni)
    BY <1>12 DEF PackedSoFar
  <2>3. CASE ni + BlockWidth < run.K /\ ni' = ni + BlockWidth /\ mi' = mi /\ phase' = phase
    <3>1. row < mi \/ (row < mi + BlockHeight /\ w < ni + BlockWidth)
      BY <1>1, <1>12, <2>3, SameRun DEF PackedSoFar
    <3> QED
      BY <1>3, <2>1, <2>2, <3>1
  <2>4. CASE /\ ~(ni + BlockWidth < run.K) /\ ni' = 0
             /\ mi + BlockHeight < rows /\ mi' = mi + BlockHeight /\ phase' = phase
    <3>1. row < mi + BlockHeight
      <4>1. row < mi' \/ w < 0
        BY <1>1, <1>12, <2>4, SameRun DEF PackedSoFar
      <4> QED
        BY <2>4, <4>1
    <3> QED
      BY <1>3, <2>1, <2>2, <2>4, <3>1
  <2>5. CASE /\ ~(ni + BlockWidth < run.K) /\ ~(mi + BlockHeight < rows)
    BY <1>3, <2>1, <2>2, <2>5
  <2> QED
    BY <1>1, <2>3, <2>4, <2>5 DEF BlockAfter, rows
<1>13. ASSUME NEW matrix \in Matrices, matrix # phase,
              NEW row \in 0 .. Rows(matrix) - 1, NEW w \in 0 .. run.K - 1,
              PackedSoFar(matrix, row, w)'
       PROVE  PackedSoFar(matrix, row, w)
  <2>1. CASE phase = "b"
    BY <1>13, <2>1 DEF PackedSoFar, Matrices
  <2>2. CASE phase = "a"
    <3>1. matrix = "b" /\ ~Copies
      BY <1>13, <2>2 DEF Matrices
    <3>2. phase' = "a" \/ (phase' = "b" /\ mi' = 0 /\ ni' = 0)
      BY <1>1, <2>2, <3>1 DEF BlockAfter, AfterPacking, Copies
    <3>3. phase' = "b" /\ (row < mi' \/ w < ni')
      BY <1>13, <3>1, <3>2 DEF PackedSoFar
    <3> QED
      BY <3>2, <3>3
  <2> QED
    BY <1>1, <2>1, <2>2
<1> HIDE DEF stored
<1> SUFFICES ASSUME NEW matrix \in Matrices, NEW row \in 0 .. Rows(matrix) - 1,
                    NEW w \in 0 .. run.K - 1, PackedSoFar(matrix, row, w)'
             PROVE  packed'[matrix][AddressOf(matrix, row, w)] = <<row, w>>
  <2>1. \A matrix \in {"a", "b"} : DOMAIN packed'[matrix] = 0 .. Rows(matrix) * run.K - 1
    BY <1>1, <1>4, <1>7, <1>10
  <2> QED
    BY <1>1, <1>7, <2>1, SameRun DEF WordsPacked
<1>14. matrix \in {"a", "b"}
  BY DEF Matrices
<1>15. CASE matrix = phase
  <2>1. row \in 0 .. rows - 1 /\ PackedSoFar(matrix, row, w)'
    BY <1>15
  <2>2. CASE <<row, w>> \in Block
    BY <1>11, <1>15, <2>1, <2>2
  <2>3. CASE <<row, w>> \notin Block
    <3>1. PackedSoFar(matrix, row, w)
      BY <1>12, <1>15, <2>1, <2>3
    <3>2. packed[phase][AddressOf(phase, row, w)] = <<row, w>>
      BY <1>4, <1>15, <3>1
    <3> QED
      BY <1>11, <1>15, <2>1, <2>3, <3>2
  <2> QED
    BY <2>2, <2>3
<1>16. CASE matrix # phase
  BY <1>4, <1>7, <1>13, <1>14, <1>16
<1> QED
  BY <1>15, <1>16

First(matrix) == IF matrix = "a" THEN mi ELSE ni

(* The rows of a panel that are rows of the matrix.                        *)
LEMMA PanelRows ==
  ASSUME Position, phase = "gemm", NEW matrix \in {"a", "b"},
         NEW r \in 0 .. Smaller(Rows(matrix) - First(matrix), PanelHeight(matrix)) - 1
  PROVE  /\ First(matrix) \in Nat /\ First(matrix) + r \in 0 .. Rows(matrix) - 1
         /\ Start(First(matrix) + r, PanelHeight(matrix)) = First(matrix)
<1> DEFINE p == First(matrix)
           rows == Rows(matrix)
           h == PanelHeight(matrix)
<1>1. rows \in Nat \ {0} /\ h \in Nat \ {0}
  BY RowsArePositive DEF Position
<1>2. Multiple(p, h) /\ p < rows
  BY DEF Position, First, Rows
<1> HIDE DEF p, rows, h
<1>3. PICK q \in Nat : p = q * h
  BY <1>2 DEF Multiple
<1>4. p \in Nat
  BY <1>2 DEF Multiple
<1>5. r \in 0 .. Smaller(rows - p, h) - 1
  BY DEF p, rows, h
<1>6. r \in Nat /\ r < h /\ p + r \in 0 .. rows - 1
  BY <1>1, <1>2, <1>4, <1>5 DEF Smaller
<1>7. p + r \in Nat /\ q * h <= p + r /\ p + r < q * h + h
  BY <1>1, <1>3, <1>4, <1>6
<1>8. Start(p + r, h) = q * h
  BY <1>1, <1>7, StartIs
<1> QED
  BY <1>3, <1>4, <1>6, <1>8 DEF p, rows, h

(* The multiplication looks for a word at its address.                     *)
LEMMA ReadAtItsAddress ==
  ASSUME Position, phase = "gemm", NEW matrix \in {"a", "b"}, NEW w \in 0 .. run.K - 1,
         NEW r \in 0 .. Smaller(Rows(matrix) - First(matrix), PanelHeight(matrix)) - 1
  PROVE  ReadAt(matrix, r, w) = AddressOf(matrix, First(matrix) + r, w)
<1> DEFINE p == First(matrix)
           rows == Rows(matrix)
<1>1. /\ p \in Nat /\ p + r \in 0 .. rows - 1
      /\ Start(p + r, PanelHeight(matrix)) = p
  BY PanelRows
<1>2. r \in Int /\ run.K \in Nat \ {0} /\ rows \in Nat \ {0} /\ run \in Runs /\ ~Copies
  BY RunSizes, RowsArePositive DEF Position
<1>3. CASE Igemmbdq
  <2>1. PanelHeight(matrix) = Side
    BY <1>3 DEF PanelHeight
  <2>2. Panel(p, rows) = Smaller(rows - p, Side)
    BY DEF Panel, Smaller
  <2>3. ReadAt(matrix, r, w) = (p * run.K) + w * Panel(p, rows) + r
    BY <1>3 DEF ReadAt, First, Igemmbdq
  <2>4. AddressOf(matrix, p + r, w) = p * run.K + w * Smaller(rows - p, Side) + ((p + r) - p)
    BY <1>1, <2>1 DEF AddressOf, At
  <2> HIDE DEF p, rows
  <2>5. (p + r) - p = r
    BY <1>1, <1>2
  <2> QED
    BY <2>2, <2>3, <2>4, <2>5 DEF p
<1>4. CASE ~Igemmbdq
  <2>1. PanelHeight(matrix) = rows
    BY <1>4 DEF PanelHeight
  <2>2. p = 0
    <3>1. Multiple(p, rows) /\ p < rows
      BY <2>1 DEF Position, First, Rows
    <3> HIDE DEF p, rows
    <3> QED
      BY <1>2, <3>1, Multiples
  <2>3. ReadAt(matrix, r, w) = r + w * Layout[matrix]
    BY <1>2, <1>4 DEF ReadAt, Copies
  <2>4. Layout[matrix] = rows
    BY <1>2, <1>4, RunSizes DEF Rows
  <2>5. r \in 0 .. rows - 1 /\ p + r = r
    BY <1>1, <1>2, <2>2
  <2>6. AddressOf(matrix, r, w) = r + w * rows
    BY <1>2, <1>4, <2>5, AddressWithoutPanels
  <2> HIDE DEF rows
  <2>7. AddressOf(matrix, p + r, w) = r + w * rows
    BY <2>5, <2>6
  <2> QED
    BY <2>3, <2>4, <2>7 DEF p
<1> QED
  BY <1>3, <1>4

(* What the multiplication loads is the word it is looking for.            *)
LEMMA WordFound ==
  ASSUME Position, WordsPacked, phase = "gemm", NEW matrix \in {"a", "b"}, ki < run.K,
         NEW r \in 0 .. Smaller(Rows(matrix) - First(matrix), PanelHeight(matrix)) - 1
  PROVE  Word(matrix, r) = <<First(matrix) + r, ki>>
<1> DEFINE row == First(matrix) + r
           x == AddressOf(matrix, row, ki)
<1>1. /\ ki \in 0 .. run.K - 1 /\ ki \in Nat /\ row \in 0 .. Rows(matrix) - 1 /\ ~Copies
      /\ run \in Runs
  <2>1. ki \in 0 .. run.K /\ run.K \in Nat /\ run \in Runs /\ ~Copies
    BY RunSizes DEF Position
  <2> QED
    BY <2>1, PanelRows
<1>2. ReadAt(matrix, r, ki) = x
  BY <1>1, ReadAtItsAddress
<1>3. x \in 0 .. Rows(matrix) * run.K - 1
  <2>1. /\ Rows(matrix) \in Nat \ {0} /\ PanelHeight(matrix) \in Nat \ {0}
        /\ run.K \in Nat \ {0}
    BY <1>1, RunSizes, RowsArePositive
  <2> HIDE DEF row
  <2> QED
    BY <1>1, <2>1, AddressesWithin DEF AddressOf
<1>4. /\ DOMAIN packed[matrix] = 0 .. Rows(matrix) * run.K - 1
      /\ packed[matrix][x] = <<row, ki>>
  BY <1>1 DEF WordsPacked, Matrices, PackedSoFar
<1> HIDE DEF row, x
<1>5. Word(matrix, r) = <<row, ki>>
  BY <1>2, <1>3, <1>4 DEF Word
<1> QED
  BY <1>5 DEF row

(* A tile has the rows and columns of two panels.                          *)
LEMMA TileIs ==
  ASSUME Position, phase = "gemm", DOMAIN sums = DOMAIN ZeroSums
  PROVE  /\ Tile = (0 .. Smaller(run.M - mi, PanelHeight("a")) - 1)
                     \X (0 .. Smaller(run.N - ni, PanelHeight("b")) - 1)
         /\ Tile \subseteq DOMAIN sums
<1>1. /\ run.M \in Nat \ {0} /\ run.N \in Nat \ {0} /\ Side \in Nat \ {0}
      /\ Multiple(mi, PanelHeight("a")) /\ mi < run.M
      /\ Multiple(ni, PanelHeight("b")) /\ ni < run.N
      /\ mi \in Nat /\ ni \in Nat
  BY RunSizes DEF Position, Multiple
<1>2. CASE Igemmbdq
  <2>1. PanelHeight("a") = Side /\ PanelHeight("b") = Side
    BY <1>2 DEF PanelHeight
  <2>2. Tile = (0 .. Panel(mi, run.M) - 1) \X (0 .. Panel(ni, run.N) - 1)
    BY <1>2 DEF Tile
  <2>3. /\ Panel(mi, run.M) = Smaller(run.M - mi, Side)
        /\ Panel(ni, run.N) = Smaller(run.N - ni, Side)
        /\ Panel(mi, run.M) \in Int /\ Panel(mi, run.M) <= Side
        /\ Panel(ni, run.N) \in Int /\ Panel(ni, run.N) <= Side
    BY <1>1 DEF Panel, Smaller
  <2>4. DOMAIN sums = (0 .. Side - 1) \X (0 .. Side - 1)
    BY <1>2 DEF ZeroSums
  <2> QED
    BY <1>1, <2>1, <2>2, <2>3, <2>4
<1>3. CASE ~Igemmbdq
  <2>1. PanelHeight("a") = run.M /\ PanelHeight("b") = run.N
    BY <1>3 DEF PanelHeight, Rows
  <2>2. mi = 0 /\ ni = 0
    BY <1>1, <2>1, Multiples
  <2>3. Tile = (0 .. run.M - 1) \X (0 .. run.N - 1) /\ Tile = DOMAIN sums
    BY <1>3 DEF Tile, ZeroSums
  <2>4. Smaller(run.M - 0, run.M) = run.M /\ Smaller(run.N - 0, run.N) = run.N
    BY <1>1 DEF Smaller
  <2> QED
    BY <2>1, <2>2, <2>3, <2>4
<1> QED
  BY <1>2, <1>3

(* One outer product adds the words ki to every sum of the tile.           *)
LEMMA MopaKeeps == ASSUME PackedInv, MopaWords PROVE PackedInv'
<1>1. Position /\ WordsPacked /\ TileSums /\ TilesStored
  BY DEF PackedInv
<1>2. /\ phase = "gemm" /\ ki < Steps /\ ki' = ki + 1
      /\ run' = run /\ phase' = phase /\ mi' = mi /\ ni' = ni /\ packed' = packed /\ output' = output
      /\ sums' = [e \in DOMAIN sums |-> IF e \in Tile
                                        THEN Plus(sums[e], Word("a", e[1]), Word("b", e[2]))
                                        ELSE sums[e]]
  BY DEF MopaWords
<1>3. /\ run \in Runs /\ ki \in 0 .. run.K /\ run.K \in Nat \ {0} /\ mi \in Nat /\ ni \in Nat
      /\ ~Copies
  BY <1>1, <1>2, RunSizes DEF Position, Multiple
<1>4. Steps = run.K
  BY <1>3, RunSizes DEF Steps
<1>5. ki' \in 0 .. run.K /\ ki + 1 # 0
  BY <1>2, <1>3, <1>4
<1>6. Position'
  BY <1>1, <1>2, <1>5, SameRun DEF Position
<1>7. WordsPacked'
  BY <1>1, <1>2, SameRun DEF WordsPacked, PackedSoFar
<1>8. DOMAIN sums = DOMAIN ZeroSums
  BY <1>1, <1>2 DEF TileSums
<1>9. /\ Tile = (0 .. Smaller(run.M - mi, PanelHeight("a")) - 1)
                  \X (0 .. Smaller(run.N - ni, PanelHeight("b")) - 1)
      /\ Tile \subseteq DOMAIN sums
  BY <1>1, <1>2, <1>8, TileIs
<1>10. ASSUME NEW e \in Tile PROVE sums'[e] = <<mi + e[1], ni + e[2], ki'>>
  <2> DEFINE e1 == e[1]
             e2 == e[2]
             a == <<mi + e1, ki>>
             b == <<ni + e2, ki>>
  <2>1. /\ e1 \in 0 .. Smaller(run.M - mi, PanelHeight("a")) - 1
        /\ e2 \in 0 .. Smaller(run.N - ni, PanelHeight("b")) - 1
    BY <1>9
  <2>2. Rows("a") = run.M /\ Rows("b") = run.N /\ First("a") = mi /\ First("b") = ni
    BY DEF Rows, First
  <2> HIDE DEF e1, e2
  <2>3. Word("a", e1) = a
    BY <1>1, <1>2, <1>4, <2>1, <2>2, WordFound
  <2>4. Word("b", e2) = b
    BY <1>1, <1>2, <1>4, <2>1, <2>2, WordFound
  <2>5. sums'[e] = Plus(sums[e], a, b)
    BY <1>2, <1>9, <2>3, <2>4 DEF e1, e2
  <2>6. sums[e] = IF ki = 0 THEN Empty ELSE <<mi + e1, ni + e2, ki>>
    BY <1>1, <1>2 DEF TileSums, e1, e2
  <2>7. e1 \in Nat /\ ki \in Nat
    BY <1>3, <2>1
  <2>8. a # NoWord
    BY <1>3, <2>7 DEF NoWord
  <2>9. sums'[e] = <<mi + e1, ni + e2, ki + 1>>
    BY <2>5, <2>6, <2>8 DEF Plus
  <2> QED
    BY <1>2, <2>9 DEF e1, e2
<1>11. TileSums'
  <2>1. DOMAIN sums' = DOMAIN sums /\ Tile' = Tile
    BY <1>2 DEF Tile, Igemmbdq, Panel
  <2>2. ki' # 0
    BY <1>2, <1>5
  <2> QED
    BY <1>2, <1>8, <1>10, <2>1, <2>2, SameRun DEF TileSums
<1>12. TilesStored'
  BY <1>1, <1>2, SameRun DEF TilesStored, TilePassed
<1> QED
  BY <1>6, <1>7, <1>11, <1>12 DEF PackedInv

(* A tile begins with empty sums.                                          *)
LEMMA TileBegins ==
  ASSUME Position', run' = run, phase' \in {"a", "b", "gemm", "done"}, sums' = ZeroSums, ki' = 0
  PROVE  TileSums'
<1>1. sums' = ZeroSums'
  BY SameRun
<1>2. ASSUME phase' = "gemm", NEW e \in Tile' PROVE sums'[e] = Empty
  <2>1. CASE Igemmbdq
    <3>1. Igemmbdq'
      BY <2>1, SameRun
    <3>2. e \in (0 .. Panel(mi, run.M)' - 1) \X (0 .. Panel(ni, run.N)' - 1)
      BY <1>2, <3>1 DEF Tile, Panel
    <3>3. mi' \in Nat /\ ni' \in Nat /\ mi' < run'.M /\ ni' < run'.N
      BY <1>2 DEF Position, Multiple
    <3>4. run.M \in Nat /\ run.N \in Nat /\ Side \in Nat
      <4>1. run \in Runs
        BY DEF Position, Runs
      <4> QED
        BY <4>1, RunSizes
    <3>5. /\ Panel(mi, run.M)' \in Int /\ Panel(mi, run.M)' <= Side
          /\ Panel(ni, run.N)' \in Int /\ Panel(ni, run.N)' <= Side
      BY <3>3, <3>4, run' = run DEF Panel
    <3>6. e \in (0 .. Side - 1) \X (0 .. Side - 1)
      BY <3>2, <3>4, <3>5
    <3> QED
      BY <2>1, <3>6 DEF ZeroSums
  <2>2. CASE ~Igemmbdq
    <3>1. e \in DOMAIN sums'
      BY <1>2, <2>2, SameRun DEF Tile
    <3> QED
      BY <2>2, <3>1 DEF ZeroSums
  <2> QED
    BY <2>1, <2>2
<1> QED
  BY <1>1, <1>2 DEF TileSums

LEMMA PackKeeps == ASSUME PackedInv, Pack PROVE PackedInv'
<1>1. Position /\ WordsPacked /\ TileSums /\ TilesStored
  BY DEF PackedInv
<1>2. /\ run' = run /\ phase \in {"a", "b"} /\ ki' = ki /\ sums' = sums /\ output' = output /\ BlockAfter
  BY PackingGoesOn DEF Pack
<1>3. Position'
  BY <1>1, PackPosition
<1>4. WordsPacked'
  BY <1>1, PackWords
<1>5. TileSums'
  <2>1. sums' = ZeroSums /\ ki' = 0
    BY <1>1, <1>2 DEF TileSums, Position
  <2>2. phase' \in {"a", "b", "gemm", "done"}
    BY <1>3 DEF Position
  <2> QED
    BY <1>2, <1>3, <2>1, <2>2, TileBegins
<1>6. TilesStored'
  <2>1. ASSUME ~Copies, NEW row \in 0 .. run.M - 1, NEW column \in 0 .. run.N - 1
        PROVE  ~TilePassed(row, column)'
    <3>1. phase' # "done" /\ (phase' = "gemm" => mi' = 0 /\ ni' = 0)
      BY <1>2, <2>1 DEF BlockAfter, AfterPacking, Copies
    <3> QED
      BY <3>1 DEF TilePassed
  <2> QED
    BY <1>2, <2>1, SameRun DEF TilesStored
<1> QED
  BY <1>3, <1>4, <1>5, <1>6 DEF PackedInv

(* The loops over tiles: the next columns, the next rows, or the end.      *)
TileAfter ==
  LET height == PanelHeight("a")
      width == PanelHeight("b")
  IN \/ ni + width < run.N /\ ni' = ni + width /\ mi' = mi /\ phase' = "gemm"
     \/ /\ ~(ni + width < run.N)
        /\ mi + height < run.M /\ ni' = 0 /\ mi' = mi + height /\ phase' = "gemm"
     \/ ~(ni + width < run.N) /\ ~(mi + height < run.M) /\ phase' = "done"

LEMMA TilesGoOn == ASSUME Position, Save PROVE TileAfter
<1>1. phase = "gemm" /\ NextPackedTile
  BY DEF Save
<1>2. /\ run.M \in Nat \ {0} /\ run.N \in Nat \ {0}
      /\ Multiple(mi, PanelHeight("a")) /\ mi < run.M
      /\ Multiple(ni, PanelHeight("b")) /\ ni < run.N
  BY <1>1, RunSizes DEF Position
<1>3. CASE Igemmbdq
  BY <1>1, <1>3 DEF NextPackedTile, TileAfter, PanelHeight
<1>4. CASE ~Igemmbdq
  <2>1. PanelHeight("a") = run.M /\ PanelHeight("b") = run.N
    BY <1>4 DEF PanelHeight, Rows
  <2>2. mi = 0 /\ ni = 0
    BY <1>2, <2>1, Multiples
  <2>3. phase' = "done"
    BY <1>1, <1>4 DEF NextPackedTile
  <2> QED
    BY <1>2, <2>1, <2>2, <2>3 DEF TileAfter
<1> QED
  BY <1>3, <1>4

LEMMA SavePosition == ASSUME Position, Save PROVE Position'
<1>1. /\ run' = run /\ ki' = 0 /\ phase = "gemm" /\ run \in Runs /\ TileAfter
  BY TilesGoOn DEF Save, Position
<1>2. /\ PanelHeight("a") \in Nat \ {0} /\ PanelHeight("b") \in Nat \ {0}
      /\ run.M \in Nat \ {0} /\ run.N \in Nat \ {0} /\ run.K \in Nat \ {0}
  BY <1>1, RunSizes, RowsArePositive
<1>3. /\ Multiple(mi, PanelHeight("a")) /\ mi < run.M /\ Multiple(ni, PanelHeight("b"))
      /\ ni < run.N /\ ~Copies
  BY <1>1 DEF Position
<1>4. /\ Multiple(mi + PanelHeight("a"), PanelHeight("a"))
      /\ Multiple(ni + PanelHeight("b"), PanelHeight("b")) /\ Multiple(0, PanelHeight("b"))
  BY <1>2, <1>3, Multiples
<1> SUFFICES /\ phase' \in {"gemm", "done"}
             /\ phase' = "gemm" =>
                  /\ Multiple(mi', PanelHeight("a")) /\ mi' < run.M
                  /\ Multiple(ni', PanelHeight("b")) /\ ni' < run.N
                  /\ ki' \in 0 .. run.K
  BY <1>1, <1>3 DEF Position, Copies, Multiple, Rows, PanelHeight, Igemmbdq
<1>5. 0 < run.N /\ ki' \in 0 .. run.K
  BY <1>1, <1>2
<1> QED
  BY <1>1, <1>3, <1>4, <1>5 DEF TileAfter

(* Storing a tile stores the right elements and overwrites no other.       *)
LEMMA SaveTiles == ASSUME PackedInv, Save PROVE TilesStored'
<1> DEFINE N == run.N
           height == PanelHeight("a")
           width == PanelHeight("b")
           stored == [x \in {StoredAt(e) : e \in Tile} |->
                        Scaled(CHOOSE e \in Tile : StoredAt(e) = x)]
<1>1. Position /\ TileSums /\ TilesStored /\ phase = "gemm" /\ ki = Steps
  BY DEF PackedInv, Save
<1>2. run' = run /\ output' = Overwrite(output, stored)
  BY DEF Save
<1>3. /\ run.M \in Nat \ {0} /\ N \in Nat \ {0} /\ run.K \in Nat \ {0} /\ run \in Runs /\ ~Copies
      /\ height \in Nat \ {0} /\ width \in Nat \ {0}
      /\ mi \in Nat /\ ni \in Nat /\ mi < run.M /\ ni < N
  BY <1>1, RunSizes, RowsArePositive DEF Position, Multiple
<1>4. Tile = (0 .. Smaller(run.M - mi, height) - 1) \X (0 .. Smaller(N - ni, width) - 1)
  BY <1>1, TileIs DEF TileSums
<1>5. ki = run.K
  BY <1>1, <1>3, RunSizes DEF Steps
<1>6. TileAfter
  BY <1>1, TilesGoOn
<1>7. ASSUME NEW e \in Tile
      PROVE  /\ e[1] \in Nat /\ e[2] \in Nat /\ mi + e[1] \in 0 .. run.M - 1
             /\ ni + e[2] \in 0 .. N - 1 /\ e = <<e[1], e[2]>>
             /\ StoredAt(e) = (mi + e[1]) * N + (ni + e[2])
             /\ Scaled(e) = RightElement(mi + e[1], ni + e[2])
  <2> DEFINE e1 == e[1]
             e2 == e[2]
  <2>1. e1 \in 0 .. Smaller(run.M - mi, height) - 1 /\ e2 \in 0 .. Smaller(N - ni, width) - 1
    BY <1>4
  <2>2. e = <<e1, e2>>
    BY <1>4
  <2> HIDE DEF e1, e2, height, width, N
  <2>3. e1 \in Nat /\ e2 \in Nat /\ mi + e1 \in 0 .. run.M - 1 /\ ni + e2 \in 0 .. N - 1
    BY <1>3, <2>1 DEF Smaller
  <2>4. StoredAt(e) = (mi + e1) * N + (ni + e2)
    <3>1. CASE Igemmbdq
      <4>1. StoredAt(e) = (mi + e1) * N + ni + e2
        BY <3>1 DEF StoredAt, e1, e2, N
      <4> DEFINE p == (mi + e1) * N
      <4>2. p \in Int
        BY <1>3, <2>3
      <4>3. StoredAt(e) = p + ni + e2
        BY <4>1
      <4> HIDE DEF p
      <4>4. StoredAt(e) = p + (ni + e2)
        BY <1>3, <2>3, <4>2, <4>3
      <4> QED
        BY <4>4 DEF p
    <3>2. CASE ~Igemmbdq
      <4>1. mi = 0 /\ ni = 0
        <5>1. height = run.M /\ width = N
          BY <3>2 DEF PanelHeight, Rows, height, width, N
        <5>2. Multiple(mi, height) /\ Multiple(ni, width)
          BY <1>1 DEF Position, height, width
        <5> QED
          BY <1>3, <5>1, <5>2, Multiples
      <4>2. StoredAt(e) = e1 * Layout.c + e2
        BY <3>2 DEF StoredAt, e1, e2
      <4>3. Layout.c = N
        BY <1>3, <3>2, RunSizes DEF N
      <4>4. mi + e1 = e1 /\ ni + e2 = e2
        BY <2>3, <4>1
      <4> QED
        BY <4>2, <4>3, <4>4
    <3> QED
      BY <3>1, <3>2
  <2>5. sums[e] = <<mi + e1, ni + e2, run.K>>
    BY <1>1, <1>3, <1>5 DEF TileSums, e1, e2
  <2>6. Scaled(e) = RightElement(mi + e1, ni + e2)
    BY <2>5 DEF Scaled, RightElement, e1, e2
  <2> QED
    BY <2>2, <2>3, <2>4, <2>6 DEF e1, e2
<1>8. ASSUME NEW row \in 0 .. run.M - 1, NEW column \in 0 .. N - 1, NEW e \in Tile,
             StoredAt(e) = row * N + column
      PROVE  row = mi + e[1] /\ column = ni + e[2]
  <2>1. (mi + e[1]) * N + (ni + e[2]) = row * N + column
    BY <1>7, <1>8
  <2>2. /\ mi + e[1] \in Nat /\ ni + e[2] \in 0 .. N - 1 /\ row \in Nat
    BY <1>3, <1>7
  <2> HIDE DEF N
  <2>3. mi + e[1] = row /\ ni + e[2] = column
    BY <1>3, <2>1, <2>2, OneQuotient
  <2> QED
    BY <2>3
<1> SUFFICES ASSUME NEW row \in 0 .. run'.M - 1, NEW column \in 0 .. run'.N - 1,
                    TilePassed(row, column)'
             PROVE  /\ row * run'.N + column \in DOMAIN output'
                    /\ output'[row * run'.N + column] = RightElement(row, column)'
  BY DEF TilesStored
<1> /\ row \in 0 .. run.M - 1 /\ column \in 0 .. N - 1
    /\ run'.N = N /\ RightElement(row, column)' = RightElement(row, column)
  BY <1>2, SameRun
<1> DEFINE x == row * N + column
           d == <<row - mi, column - ni>>
<1>9. CASE d \in Tile
  <2>1. mi + d[1] = row /\ ni + d[2] = column
    BY <1>3
  <2>2. StoredAt(d) = x /\ Scaled(d) = RightElement(row, column)
    BY <1>7, <1>9, <2>1
  <2>3. ASSUME NEW e \in Tile, StoredAt(e) = x PROVE e = d
    <3>1. row = mi + e[1] /\ column = ni + e[2]
      BY <1>8, <2>3
    <3>2. e[1] \in Nat /\ e[2] \in Nat /\ e = <<e[1], e[2]>>
      BY <1>7
    <3>3. e[1] = row - mi /\ e[2] = column - ni
      BY <1>3, <3>1, <3>2
    <3> QED
      BY <3>2, <3>3
  <2> HIDE DEF x, d
  <2>4. (CHOOSE e \in Tile : StoredAt(e) = x) = d
    BY <1>9, <2>2, <2>3
  <2>5. x \in DOMAIN stored /\ stored[x] = RightElement(row, column)
    BY <1>9, <2>2, <2>4
  <2> HIDE DEF stored
  <2>6. x \in DOMAIN output' /\ output'[x] = RightElement(row, column)
    BY <1>2, <2>5 DEF Overwrite
  <2> QED
    BY <2>6 DEF x
<1>10. CASE d \notin Tile
  <2>1. TilePassed(row, column)
    <3> SUFFICES row < mi \/ (row < mi + height /\ column < ni)
      BY <1>1 DEF TilePassed
    <3>1. ~(/\ row - mi \in 0 .. Smaller(run.M - mi, height) - 1
            /\ column - ni \in 0 .. Smaller(N - ni, width) - 1)
      BY <1>4, <1>10
    <3>2. \/ ni + width < N /\ (row < mi \/ (row < mi + height /\ column < ni + width))
          \/ ~(ni + width < N) /\ (row < mi + height \/ ~(mi + height < run.M))
      <4>1. phase' = "gemm" => row < mi' \/ (row < mi' + height /\ column < ni')
        BY <1>2, SameRun DEF TilePassed
      <4> HIDE DEF height, width
      <4>2. \/ ni + width < N /\ ni' = ni + width /\ mi' = mi /\ phase' = "gemm"
            \/ /\ ~(ni + width < N) /\ mi + height < run.M /\ ni' = 0 /\ mi' = mi + height
               /\ phase' = "gemm"
            \/ ~(ni + width < N) /\ ~(mi + height < run.M) /\ phase' = "done"
        BY <1>6 DEF TileAfter, height, width
      <4> QED
        BY <1>3, <4>1, <4>2
    <3> HIDE DEF height, width, N, d
    <3>3. row \in Int /\ column \in Int /\ row < run.M /\ column < N /\ 0 <= row /\ 0 <= column
      BY <1>3
    <3> QED
      BY <1>3, <3>1, <3>2, <3>3 DEF Smaller
  <2>2. x \in DOMAIN output /\ output[x] = RightElement(row, column)
    BY <1>1, <1>3, <2>1 DEF TilesStored
  <2>3. x \notin DOMAIN stored
    <3> SUFFICES ASSUME NEW e \in Tile, StoredAt(e) = x PROVE FALSE
      OBVIOUS
    <3>1. row = mi + e[1] /\ column = ni + e[2] /\ e = <<e[1], e[2]>>
      BY <1>7, <1>8
    <3>2. e[1] = row - mi /\ e[2] = column - ni
      BY <1>3, <1>7, <3>1
    <3> QED
      BY <1>10, <3>1, <3>2
  <2> HIDE DEF stored, x
  <2>4. x \in DOMAIN output' /\ output'[x] = output[x]
    BY <1>2, <2>2, <2>3 DEF Overwrite
  <2> QED
    BY <2>2, <2>4 DEF x
<1> QED
  BY <1>9, <1>10

LEMMA SaveKeeps == ASSUME PackedInv, Save PROVE PackedInv'
<1>1. Position /\ WordsPacked
  BY DEF PackedInv
<1>2. /\ run' = run /\ phase = "gemm" /\ phase' \in {"gemm", "done"} /\ packed' = packed
      /\ sums' = ZeroSums /\ ki' = 0
  BY <1>1, TilesGoOn DEF Save, TileAfter
<1>3. Position'
  BY <1>1, SavePosition
<1>4. WordsPacked'
  <2>1. \A matrix \in {"a", "b"} : \A row, w : PackedSoFar(matrix, row, w)
    BY <1>2 DEF PackedSoFar
  <2>2. Matrices \subseteq {"a", "b"}
    BY DEF Matrices
  <2>3. ASSUME NEW matrix \in Matrices', NEW row \in 0 .. Rows(matrix)' - 1,
               NEW w \in 0 .. run'.K - 1
        PROVE  packed'[matrix][AddressOf(matrix, row, w)'] = <<row, w>>
    <3>1. /\ matrix \in Matrices /\ row \in 0 .. Rows(matrix) - 1 /\ w \in 0 .. run.K - 1
          /\ AddressOf(matrix, row, w)' = AddressOf(matrix, row, w)
      BY <1>2, SameRun
    <3>2. packed[matrix][AddressOf(matrix, row, w)] = <<row, w>>
      BY <1>1, <2>1, <2>2, <3>1 DEF WordsPacked
    <3> QED
      BY <1>2, <3>1, <3>2
  <2>4. /\ DOMAIN packed' = {"a", "b"}
        /\ \A matrix \in {"a", "b"} : DOMAIN packed'[matrix] = 0 .. Rows(matrix)' * run'.K - 1
    BY <1>1, <1>2, SameRun DEF WordsPacked
  <2> QED
    BY <2>3, <2>4 DEF WordsPacked
<1>5. TileSums'
  BY <1>2, <1>3, TileBegins
<1>6. TilesStored'
  BY SaveTiles
<1> QED
  BY <1>3, <1>4, <1>5, <1>6 DEF PackedInv

LEMMA PackedInvInit == PackedInit => PackedInv
<1> SUFFICES ASSUME PackedInit PROVE PackedInv
  OBVIOUS
<1>1. /\ run \in Runs /\ phase = "a" /\ mi = 0 /\ ni = 0 /\ ki = 0 /\ sums = ZeroSums
      /\ packed = [a |-> [x \in 0 .. run.M * run.K - 1 |-> NoWord],
                   b |-> [x \in 0 .. run.N * run.K - 1 |-> NoWord]]
  BY DEF PackedInit
<1>2. /\ Rows("a") \in Nat \ {0} /\ run.K \in Nat \ {0}
      /\ BlockHeight \in Nat \ {0} /\ BlockWidth \in Nat \ {0}
  BY <1>1, RunSizes, RowsArePositive
<1>3. Position
  <2>1. \A h \in Nat : Multiple(0, h)
    BY DEF Multiple
  <2> QED
    BY <1>1, <1>2, <2>1 DEF Position
<1>4. WordsPacked
  <2>1. \A matrix \in {"a", "b"} : DOMAIN packed[matrix] = 0 .. Rows(matrix) * run.K - 1
    BY <1>1 DEF Rows
  <2>2. ASSUME NEW matrix \in Matrices, NEW row \in 0 .. Rows(matrix) - 1, NEW w \in 0 .. run.K - 1
        PROVE  ~PackedSoFar(matrix, row, w)
    BY <1>1 DEF PackedSoFar, Matrices
  <2> QED
    BY <1>1, <2>1, <2>2 DEF WordsPacked
<1>5. TileSums /\ TilesStored
  BY <1>1 DEF TileSums, TilesStored, TilePassed
<1> QED
  BY <1>3, <1>4, <1>5 DEF PackedInv

(* The invariant holds for every program, size of matrix and panel.        *)
THEOREM PackedInvariance == PackedSpec => []PackedInv
<1>1. PackedInv /\ [PackedNext]_packedVars => PackedInv'
  <2> SUFFICES ASSUME PackedInv, [PackedNext]_packedVars PROVE PackedInv'
    OBVIOUS
  <2>1. CASE Pack
    BY <2>1, PackKeeps
  <2>2. CASE MopaWords
    BY <2>2, MopaKeeps
  <2>3. CASE Save
    BY <2>3, SaveKeeps
  <2>4. CASE UNCHANGED packedVars
    <3>1. /\ run' = run /\ phase' = phase /\ mi' = mi /\ ni' = ni /\ ki' = ki
          /\ packed' = packed /\ sums' = sums /\ output' = output
      BY <2>4 DEF packedVars
    <3>2. Position' /\ WordsPacked' /\ TilesStored'
      BY <3>1, SameRun DEF PackedInv, Position, WordsPacked, PackedSoFar, TilesStored, TilePassed
    <3>3. TileSums'
      <4>1. Tile' = Tile
        BY <3>1, SameRun DEF Tile, Panel
      <4> QED
        BY <3>1, <4>1, SameRun DEF PackedInv, TileSums
    <3> QED
      BY <3>2, <3>3 DEF PackedInv
  <2> QED
    BY <2>1, <2>2, <2>3, <2>4 DEF PackedNext
<1> QED
  BY <1>1, PackedInvInit, PTL DEF PackedSpec

(* For every size of the matrices and of the panels of igemmbdq, and for   *)
(* the tensor programs: a packed matrix fills its buffer with every word,  *)
(* the last panel and the last block of a row being smaller or not.        *)
THEOREM BuffersWhole == PackedSpec => []PackedWhole
<1>1. PackedInv => PackedWhole
  <2> SUFFICES ASSUME PackedInv, NEW matrix \in {"a", "b"}, phase \notin {"a", matrix},
                      matrix = "b" => ~Copies
               PROVE  /\ DOMAIN packed[matrix] = 0 .. Rows(matrix) * run.K - 1
                      /\ {packed[matrix][x] : x \in DOMAIN packed[matrix]}
                           = (0 .. Rows(matrix) - 1) \X (0 .. run.K - 1)
    BY DEF PackedWhole, Copies
  <2>1. /\ run \in Runs /\ matrix \in Matrices
        /\ DOMAIN packed[matrix] = 0 .. Rows(matrix) * run.K - 1
    BY DEF PackedInv, Position, WordsPacked, Matrices
  <2>2. /\ Rows(matrix) \in Nat \ {0} /\ PanelHeight(matrix) \in Nat \ {0}
        /\ run.K \in Nat \ {0}
    BY <2>1, RunSizes, RowsArePositive
  <2>3. ASSUME NEW row \in 0 .. Rows(matrix) - 1, NEW w \in 0 .. run.K - 1
        PROVE  /\ AddressOf(matrix, row, w) \in DOMAIN packed[matrix]
               /\ packed[matrix][AddressOf(matrix, row, w)] = <<row, w>>
    <3>1. AddressOf(matrix, row, w) \in 0 .. Rows(matrix) * run.K - 1
      BY <2>2, AddressesWithin DEF AddressOf
    <3> QED
      BY <2>1, <3>1 DEF PackedInv, WordsPacked, PackedSoFar
  <2>4. ASSUME NEW x \in DOMAIN packed[matrix]
        PROVE  \E row \in 0 .. Rows(matrix) - 1 : \E w \in 0 .. run.K - 1 :
                 AddressOf(matrix, row, w) = x
    <3>1. x \in 0 .. Rows(matrix) * run.K - 1
      BY <2>1
    <3> DEFINE rows == Rows(matrix)
               h == PanelHeight(matrix)
               K == run.K
    <3>2. /\ rows \in Nat \ {0} /\ h \in Nat \ {0} /\ K \in Nat \ {0}
          /\ x \in 0 .. rows * K - 1
      BY <2>2, <3>1
    <3> HIDE DEF rows, h, K
    <3>3. \A z \in 0 .. rows * K - 1 :
            \E row \in 0 .. rows - 1 : \E w \in 0 .. K - 1 : At(rows, h, K, row, w) = z
      BY <3>2, AddressesCover
    <3> QED
      BY <3>2, <3>3 DEF AddressOf, rows, h, K
  <2>5. ASSUME NEW x \in DOMAIN packed[matrix]
        PROVE  packed[matrix][x] \in (0 .. Rows(matrix) - 1) \X (0 .. run.K - 1)
    <3>1. PICK row \in 0 .. Rows(matrix) - 1 : \E w \in 0 .. run.K - 1 :
                 AddressOf(matrix, row, w) = x
      BY <2>4
    <3>2. PICK w \in 0 .. run.K - 1 : AddressOf(matrix, row, w) = x
      BY <3>1
    <3>3. packed[matrix][AddressOf(matrix, row, w)] = <<row, w>>
      BY <2>3
    <3> QED
      BY <3>2, <3>3
  <2>6. ASSUME NEW v \in (0 .. Rows(matrix) - 1) \X (0 .. run.K - 1)
        PROVE  v \in {packed[matrix][x] : x \in DOMAIN packed[matrix]}
    <3>1. v[1] \in 0 .. Rows(matrix) - 1 /\ v[2] \in 0 .. run.K - 1 /\ v = <<v[1], v[2]>>
      OBVIOUS
    <3> QED
      BY <2>3, <3>1
  <2> QED
    BY <2>1, <2>5, <2>6
<1> QED
  BY <1>1, PackedInvariance, PTL

(* For the same sizes: the multiplication finds every word where it was    *)
(* packed, so that at the end every element is the whole sum of its row    *)
(* and column, scaled for both, and copy_int8 prints what it has copied.   *)
THEOREM ProductRight == PackedSpec => []ResultRight
<1>1. PackedInv => ResultRight
  <2> SUFFICES ASSUME PackedInv, phase = "done" PROVE ResultRight
    BY DEF ResultRight
  <2>1. run \in Runs
    BY DEF PackedInv, Position
  <2>2. CASE Copies
    <3>1. ASSUME NEW row \in 0 .. run.M - 1, NEW w \in 0 .. run.K - 1
          PROVE  packed.a[ReadAt("a", row, w)] = <<row, w>>
      <4>1. ~Igemmbdq /\ Rows("a") = run.M
        BY <2>2 DEF Copies, Igemmbdq, Rows
      <4>2. ReadAt("a", row, w) = w * run.M + row
        BY <2>2, <4>1 DEF ReadAt, Copies
      <4>3. AddressOf("a", row, w) = w * run.M + row
        BY <2>1, <4>1, AddressWithoutPanels
      <4>4. packed["a"][AddressOf("a", row, w)] = <<row, w>>
        BY <2>2, <4>1 DEF PackedInv, WordsPacked, PackedSoFar, Matrices
      <4> QED
        BY <4>2, <4>3, <4>4
    <3> QED
      BY <2>2, <3>1 DEF ResultRight, Copies
  <2>3. CASE ~Copies
    BY <2>3 DEF PackedInv, TilesStored, TilePassed, RightElement, ResultRight, Copies
  <2> QED
    BY <2>2, <2>3
<1> QED
  BY <1>1, PackedInvariance, PTL
=============================================================================
