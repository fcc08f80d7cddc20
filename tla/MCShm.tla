------------------------------- MODULE MCShm --------------------------------
(* Three ranks, so that two copy at the same time; two elements.           *)
EXTENDS ShmWindow
=============================================================================
