-------------------------- MODULE MCMemcpyOverlap --------------------------
(* compute_memcpy_overlap with four chunks of six elements.                *)
EXTENDS MemcpyOverlap
=============================================================================
