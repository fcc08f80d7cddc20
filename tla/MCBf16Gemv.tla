----------------------------- MODULE MCBf16Gemv -----------------------------
(***************************************************************************)
(* bf16_gemv with the matrices of its main: the element of A in row m is   *)
(* m % 127, the one of x for column n is n % 127.  The numbers are small   *)
(* enough for bf16 and float to hold them and their sums exactly.          *)
(***************************************************************************)
EXTENDS ArmKernels, FiniteSetsExt

Bf16Gemv == {"bf16_gemv_even", "bf16_gemv_low"}

Value(p) == ((p[1] % args.M) % 127) * (p[2] % 127)
Y(m) == MapThenSumSet(Value, C[m].products)
YCorrect(m) == MapThenSumSet(LAMBDA n : (m % 127) * (n % 127), 0 .. args.K - 1)

(* Behind the last element of A there may be anything: such a row is left  *)
(* out here.                                                               *)
LoadedFromA(m) == \A p \in C[m].products : p[1] < args.M * args.K

(* The check of bf16_gemv finds every element of y within epsilon of the   *)
(* one computed in float, "All results are correct".                       *)
CheckPasses ==
  i >= args.M => \A m \in DOMAIN C : LoadedFromA(m) => Y(m) = YCorrect(m)
=============================================================================
