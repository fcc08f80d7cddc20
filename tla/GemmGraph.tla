----------------------------- MODULE GemmGraph -----------------------------
(***************************************************************************)
(* The graph that gemm_kupl_way builds for C = C + A * B.  A pack node     *)
(* rewrites the three matrices tile by tile, one mma node per tile product *)
(* C[m][n] += A[m][k] * B[k][n] works on packed tiles, and an unpack node  *)
(* puts C back in row order.  Indices count tiles; offsets into the arrays *)
(* count elements, as in the code.  Pack, the products and unpack compute  *)
(* the offset of a tile each for themselves.                               *)
(***************************************************************************)
EXTENDS Integers

CONSTANTS
  MMA_M, MMA_N, MMA_K,  \* the size of a tile, in elements
  MT, NT, KT            \* M / MMA_M, N / MMA_N, K / MMA_K

ASSUME TilesAssumption ==
  /\ MMA_M \in Nat \ {0} /\ MMA_N \in Nat \ {0} /\ MMA_K \in Nat \ {0}
  /\ MT \in Nat \ {0} /\ NT \in Nat \ {0} /\ KT \in Nat \ {0}

\* M and N of the code.
Rows == MT * MMA_M
Columns == NT * MMA_N

MTile == 0 .. MT - 1
NTile == 0 .. NT - 1
KTile == 0 .. KT - 1

-----------------------------------------------------------------------------
(* Nodes and dependencies.                                                 *)

Pack == <<"pack">>
Unpack == <<"unpack">>
Mma(m, n, k) == <<"mma", m, n, k>>
MmaNode == {Mma(m, n, k) : m \in MTile, n \in NTile, k \in KTile}

GemmNode == {Pack, Unpack} \cup MmaNode

\* Mutant: the products of a tile of C are not chained.
GemmDepNoChain ==
  UNION {{<<Pack, x>>, <<x, Unpack>>} : x \in MmaNode}

\* Mutant: unpack waits for the first product of each tile, not for the last.
GemmDepUnpackEarly ==
  LET first == {<<Pack, Mma(m, n, 0)>> : m \in MTile, n \in NTile}
      last == {<<Mma(m, n, 0), Unpack>> : m \in MTile, n \in NTile}
      chain == {<<Mma(m, n, k - 1), Mma(m, n, k)>> :
                  m \in MTile, n \in NTile, k \in KTile \ {0}}
  IN first \cup last \cup chain

\* Mutant: the chain is closed to a ring, as the test sec_pos != 0 is missing.
GemmDepRing ==
  GemmDepUnpackEarly
    \cup {<<Mma(m, n, KT - 1), Mma(m, n, 0)>> : m \in MTile, n \in NTile}

GemmDep ==
  LET first == {<<Pack, Mma(m, n, 0)>> : m \in MTile, n \in NTile}
      last == {<<Mma(m, n, KT - 1), Unpack>> : m \in MTile, n \in NTile}
      chain == {<<Mma(m, n, k - 1), Mma(m, n, k)>> :
                  m \in MTile, n \in NTile, k \in KTile \ {0}}
  IN first \cup last \cup chain

(* What the dependencies are there for: pack, the products of one tile of  *)
(* C in the order of k, unpack.                                            *)
GemmBefore ==
  {<<Pack, Unpack>>}
    \cup {<<Pack, x>> : x \in MmaNode}
    \cup {<<x, Unpack>> : x \in MmaNode}
    \cup {p \in MmaNode \X MmaNode :
            p[1][2] = p[2][2] /\ p[1][3] = p[2][3] /\ p[1][4] < p[2][4]}

-----------------------------------------------------------------------------
(* Memory: the arrays data_a, data_b and data_c, cut into slots of the     *)
(* size of a tile; a slot is named by the offset it begins at.             *)

SlotsA == {<<"A", i * (MMA_M * MMA_K)>> : i \in 0 .. MT * KT - 1}
SlotsB == {<<"B", i * (MMA_K * MMA_N)>> : i \in 0 .. KT * NT - 1}
SlotsC == {<<"C", i * (MMA_M * MMA_N)>> : i \in 0 .. MT * NT - 1}
GemmCell == SlotsA \cup SlotsB \cup SlotsC

(* Where a product finds its operands, where pack puts the tiles, and      *)
(* where unpack finds those of C.                                          *)
SlotA(m, k) == <<"A", (k * MMA_K) * Rows + (m * MMA_M) * MMA_K>>
SlotB(k, n) == <<"B", (k * MMA_K) * Columns + (n * MMA_N) * MMA_K>>
SlotC(m, n) == <<"C", (m * MMA_M) * Columns + (n * MMA_N) * MMA_M>>

PackA(m, k) == <<"A", (k * MMA_K) * Rows + (m * MMA_M) * MMA_K>>

\* Mutant: the tiles of B are stored column by column.
PackBColumns(k, n) == <<"B", (n * MMA_N) * (KT * MMA_K) + (k * MMA_K) * MMA_N>>

PackB(k, n) == <<"B", (k * MMA_K) * Columns + (n * MMA_N) * MMA_K>>
PackC(m, n) == <<"C", (m * MMA_M) * Columns + (n * MMA_N) * MMA_M>>

UnpackC(m, n) == <<"C", (m * MMA_M) * Columns + (n * MMA_N) * MMA_M>>

GemmReads == [x \in GemmNode |->
  CASE x = Pack -> GemmCell
    [] x = Unpack -> SlotsC
    [] x \in MmaNode -> {SlotA(x[2], x[4]), SlotB(x[4], x[3]), SlotC(x[2], x[3])}]

GemmWrites == [x \in GemmNode |->
  CASE x = Pack -> GemmCell
    [] x = Unpack -> SlotsC
    [] x \in MmaNode -> {SlotC(x[2], x[3])}]

(* A slot of A or B holds the tile pack_matrix_data put there; before that *)
(* the matrix is in row order and the slot holds no tile.  A slot of C     *)
(* holds a tile too, or still (again) rows; how many times each product    *)
(* A[m][k] * B[k][n] was added to it; and whether anything else was done.  *)
NoTile == <<>>
Untouched == [tile |-> NoTile, spoilt |-> FALSE, times |-> [k \in KTile |-> 0]]

GemmInitMem == [c \in GemmCell |-> IF c \in SlotsC THEN Untouched ELSE NoTile]

PackedTile(c) ==
  CASE c \in SlotsA -> CHOOSE t \in MTile \X KTile : PackA(t[1], t[2]) = c
    [] c \in SlotsB -> CHOOSE t \in KTile \X NTile : PackB(t[1], t[2]) = c
    [] c \in SlotsC -> CHOOSE t \in MTile \X NTile : PackC(t[1], t[2]) = c

(* The tile of C to whose place in the rows unpack copies a slot.          *)
UnpackedTile(c) == CHOOSE t \in MTile \X NTile : UnpackC(t[1], t[2]) = c

SameK(m, n, k, in) ==
  /\ in[SlotA(m, k)] = <<m, k>>
  /\ in[SlotB(k, n)] = <<k, n>>
  /\ in[SlotC(m, n)].tile = <<m, n>>

MultiplyAdd(m, n, k, in) ==
  LET c == in[SlotC(m, n)]
  IN IF SameK(m, n, k, in)
     THEN [c EXCEPT !.times[k] = @ + 1]
     ELSE [c EXCEPT !.spoilt = TRUE]

ToRows(c, held) ==
  [held EXCEPT !.tile = NoTile, !.spoilt = @ \/ held.tile # UnpackedTile(c)]

GemmEval(x, in) ==
  CASE x = Pack -> [c \in GemmCell |->
                      IF c \in SlotsC
                      THEN [in[c] EXCEPT !.tile = PackedTile(c)]
                      ELSE PackedTile(c)]
    [] x = Unpack -> [c \in SlotsC |-> ToRows(c, in[c])]
    [] x \in MmaNode -> [c \in {SlotC(x[2], x[3])} |-> MultiplyAdd(x[2], x[3], x[4], in)]

(* C in row order with every product in it once.                           *)
Product == [tile |-> NoTile, spoilt |-> FALSE, times |-> [k \in KTile |-> 1]]
=============================================================================
