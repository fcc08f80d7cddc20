------------------------------- MODULE MCGemm -------------------------------
(* mt_gemm_fp64 with two tiles in each direction.                          *)
EXTENDS SGraphTask, GemmGraph

(* Every tile of C that gemm_kupl_way hands back is in row order and has   *)
(* every product over k added to it exactly once, made of packed operands. *)
EveryProductOnce ==
  report # NoReport => \A c \in SlotsC : report.memory[c] = Product
=============================================================================
