----------------------------- MODULE PackedGemm -----------------------------
(***************************************************************************)
(* The programs that multiply packed matrices: igemmbdq, and mma_int8,     *)
(* mma_bf16 and mma_fp64 on the tensors of KUPL; copy_int8 packs one       *)
(* matrix and prints it.  What an instruction takes of a row at a time is  *)
(* a word: four int8, two bf16 or one double; K counts words.  A matrix is *)
(* packed so that the words of several rows for the same k lie next to     *)
(* each other: of panels of Side rows in igemmbdq, of all rows elsewhere.  *)
(* The multiplication then finds the words again, by the addresses its     *)
(* loops compute or by the strides written into the layout of a tensor.    *)
(*                                                                         *)
(* A word is <<row, k>>, of A or of the transpose of B.  A sum             *)
(* <<row, column, n>> has the products of the first n words of both.       *)
(***************************************************************************)
EXTENDS Integers

CONSTANTS
  Programs,              \* those that may run
  Side,                  \* words in a vector register; 16 in igemmbdq
  LineCounts, WordCounts \* M and N, and K in words, on the command line of igemmbdq

VARIABLES
  run,       \* the program and M, N, K
  phase,     \* "a", "b": packing that matrix; "gemm"; "done"
  mi, ni,    \* first row and word of the block packed, first row and column of the tile
  ki,
  packed,    \* address -> word, of either matrix
  sums,      \* ZA, or the tile of sums of a tensor operation
  output

packedVars == <<run, phase, mi, ni, ki, packed, sums, output>>

ASSUME SizeAssumption ==
  /\ Side \in Nat \ {0}
  /\ LineCounts \cup WordCounts \subseteq Nat \ {0}

(* The sizes, the strides of the layouts in words, and the atoms along k.  *)
Layouts == [
  mma_int8  |-> [M |-> 16, N |-> 64, K |-> 144, a |-> 16, b |-> 64, c |-> 64, atoms |-> 144],
  mma_bf16  |-> [M |-> 16, N |-> 64, K |-> 288, a |-> 16, b |-> 64, c |-> 64, atoms |-> 288],
  mma_fp64  |-> [M |-> 32, N |-> 16, K |-> 512, a |-> 32, b |-> 16, c |-> 16, atoms |-> 512],
  copy_int8 |-> [M |-> 16, N |-> 1, K |-> 144, a |-> 16, b |-> 1, c |-> 1, atoms |-> 144]]

ASSUME LayoutsAssumption == Programs \subseteq DOMAIN Layouts \cup {"igemmbdq"}

Igemmbdq == run.program = "igemmbdq"
Layout == Layouts[run.program]

Rows(matrix) == IF matrix = "a" THEN run.M ELSE run.N
Panel(x, size) == IF size - x < Side THEN size - x ELSE Side

NoWord == <<-1, -1>>
Empty == <<-1, -1, 0>>
WrongSum == <<-1, -1, -1>>
Old == [sum |-> WrongSum, scales |-> <<>>]

ZeroSums ==
  IF Igemmbdq
  THEN [e \in (0 .. Side - 1) \X (0 .. Side - 1) |-> Empty]
  ELSE [e \in (0 .. run.M - 1) \X (0 .. run.N - 1) |-> Empty]

Runs ==
  {[program |-> p, M |-> Layouts[p].M, N |-> Layouts[p].N, K |-> Layouts[p].K]
     : p \in Programs \ {"igemmbdq"}}
  \cup [program : Programs \cap {"igemmbdq"}, M : LineCounts, N : LineCounts, K : WordCounts]

PackedInit ==
  /\ run \in Runs
  /\ phase = "a" /\ mi = 0 /\ ni = 0 /\ ki = 0
  /\ packed = [a |-> [x \in 0 .. run.M * run.K - 1 |-> NoWord],
               b |-> [x \in 0 .. run.N * run.K - 1 |-> NoWord]]
  /\ sums = ZeroSums
  /\ output = [x \in 0 .. run.M * run.N - 1 |-> Old]

-----------------------------------------------------------------------------
\* Mutant: the words of the last panel lie as far apart as those of a full one.
PackedAtFullPanel(matrix, row, k) ==
  CASE Igemmbdq -> (mi * run.K) + k * Side + (row - mi)
    [] run.program = "copy_int8" -> row + k * Layout.a
    [] OTHER -> k * Rows(matrix) + row

(* Where a word is put.  copy_int8 goes by the layout of the destination.  *)
PackedAt(matrix, row, k) ==
  CASE Igemmbdq -> (mi * run.K) + k * Panel(mi, Rows(matrix)) + (row - mi)
    [] run.program = "copy_int8" -> row + k * Layout.a
    [] OTHER -> k * Rows(matrix) + row

(* What is stored at addresses, those behind the end of the buffer too.    *)
Overwrite(old, stored) ==
  [x \in DOMAIN old \cup DOMAIN stored |-> IF x \in DOMAIN stored THEN stored[x] ELSE old[x]]

(* The words packed at a time: a block that goes through ZA, or a row.     *)
Block ==
  IF Igemmbdq
  THEN (mi .. mi + Panel(mi, Rows(phase)) - 1) \X (ni .. ni + Panel(ni, run.K) - 1)
  ELSE {mi} \X (0 .. run.K - 1)

AfterPacking ==
  IF run.program = "copy_int8" THEN "done" ELSE IF phase = "a" THEN "b" ELSE "gemm"

NextBlock ==
  LET height == IF Igemmbdq THEN Side ELSE 1
      width == IF Igemmbdq THEN Side ELSE run.K
  IN IF ni + width < run.K
     THEN ni' = ni + width /\ UNCHANGED <<mi, phase>>
     ELSE /\ ni' = 0
          /\ IF mi + height < Rows(phase)
             THEN mi' = mi + height /\ phase' = phase
             ELSE mi' = 0 /\ phase' = AfterPacking

Pack ==
  /\ phase \in {"a", "b"}
  /\ LET address == [e \in Block |-> PackedAt(phase, e[1], e[2])]
         stored == [x \in {address[e] : e \in Block} |-> CHOOSE e \in Block : address[e] = x]
     IN packed' = [packed EXCEPT ![phase] = Overwrite(@, stored)]
  /\ NextBlock
  /\ UNCHANGED <<run, ki, sums, output>>

-----------------------------------------------------------------------------
\* Mutant: the words of the last panel are looked for as if it were a full one.
ReadAtFullPanel(matrix, r, k) ==
  LET first == IF matrix = "a" THEN mi ELSE ni
  IN CASE Igemmbdq -> (first * run.K) + k * Side + r
       [] run.program = "copy_int8" -> k * run.M + r
       [] OTHER -> r + k * Layout[matrix]

(* Where the word k of row r of the tile is looked for; copy_int8 prints.  *)
ReadAt(matrix, r, k) ==
  LET first == IF matrix = "a" THEN mi ELSE ni
  IN CASE Igemmbdq -> (first * run.K) + k * Panel(first, Rows(matrix)) + r
       [] run.program = "copy_int8" -> k * run.M + r
       [] OTHER -> r + k * Layout[matrix]

(* Behind the buffer there is no word of the matrix.                       *)
Word(matrix, r) ==
  LET x == ReadAt(matrix, r, ki)
  IN IF x \in DOMAIN packed[matrix] THEN packed[matrix][x] ELSE NoWord

Tile ==
  IF Igemmbdq
  THEN (0 .. Panel(mi, run.M) - 1) \X (0 .. Panel(ni, run.N) - 1)
  ELSE DOMAIN sums

Plus(sum, a, b) ==
  IF a # NoWord /\ a[2] = b[2] /\ sum = (IF a[2] = 0 THEN Empty ELSE <<a[1], b[1], a[2]>>)
  THEN <<a[1], b[1], a[2] + 1>>
  ELSE WrongSum

Steps == IF Igemmbdq THEN run.K ELSE Layout.atoms

(* One outer product of words, of which the tensor operation has atoms.    *)
MopaWords ==
  /\ phase = "gemm"
  /\ ki < Steps
  /\ sums' = [e \in DOMAIN sums |->
              IF e \in Tile
              THEN Plus(sums[e], Word("a", e[1]), Word("b", e[2]))
              ELSE sums[e]]
  /\ ki' = ki + 1
  /\ UNCHANGED <<run, phase, mi, ni, packed, output>>

(* igemmbdq multiplies a sum by the scales of its column and its row.      *)
StoredAt(e) == IF Igemmbdq THEN (mi + e[1]) * run.N + ni + e[2] ELSE e[1] * Layout.c + e[2]
Scaled(e) ==
  [sum |-> sums[e], scales |-> IF Igemmbdq THEN <<ni + e[2], mi + e[1]>> ELSE <<>>]

NextPackedTile ==
  IF ~Igemmbdq THEN phase' = "done" /\ UNCHANGED <<mi, ni>>
  ELSE IF ni + Side < run.N THEN ni' = ni + Side /\ UNCHANGED <<mi, phase>>
  ELSE /\ ni' = 0 /\ mi' = mi + Side
       /\ phase' = IF mi + Side < run.M THEN phase ELSE "done"

Save ==
  /\ phase = "gemm"
  /\ ki = Steps
  /\ LET stored == [x \in {StoredAt(e) : e \in Tile} |->
                      Scaled(CHOOSE e \in Tile : StoredAt(e) = x)]
     IN output' = Overwrite(output, stored)
  /\ NextPackedTile
  /\ sums' = ZeroSums /\ ki' = 0
  /\ UNCHANGED <<run, packed>>

PackedNext == Pack \/ MopaWords \/ Save

PackedSpec == PackedInit /\ [][PackedNext]_packedVars

-----------------------------------------------------------------------------
(* A packed matrix fills its buffer, no more, and has every word once: the *)
(* last panel and the last block of a row may be smaller than the others.  *)
(* It is looked at between tiles; the loop over ki only reads.             *)
PackedWhole ==
  \A matrix \in {"a", "b"} :
    phase \notin {"a", matrix} /\ ki = 0 /\ (matrix = "b" => run.program # "copy_int8") =>
      LET words == (0 .. Rows(matrix) - 1) \X (0 .. run.K - 1)
      IN /\ DOMAIN packed[matrix] = 0 .. Rows(matrix) * run.K - 1
         /\ {packed[matrix][x] : x \in DOMAIN packed[matrix]} = words

(* What is checked or printed at the end is the product, each element      *)
(* scaled for its row and column: the multiplication finds every word      *)
(* where the packing has put it.  copy_int8 prints the matrix it copied.   *)
ResultRight ==
  phase = "done" =>
    IF run.program = "copy_int8"
    THEN \A row \in 0 .. run.M - 1, k \in 0 .. run.K - 1 : packed.a[ReadAt("a", row, k)] = <<row, k>>
    ELSE \A row \in 0 .. run.M - 1, column \in 0 .. run.N - 1 :
           output[row * run.N + column] =
             [sum |-> <<row, column, run.K>>, scales |-> IF Igemmbdq THEN <<column, row>> ELSE <<>>]
=============================================================================
