---------------------------- MODULE MCArmKernels ----------------------------
(* Vector registers of two elements, and every kernel but bf16_gemv.       *)
EXTENDS ArmKernels

SoundKernels == DOMAIN Unroll \ {"bf16_gemv_even", "bf16_gemv_low"}
=============================================================================
