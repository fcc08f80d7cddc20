---------------------------- MODULE MCPackedGemm ----------------------------
(* igemmbdq with panels of two rows; the tensor programs in their size.    *)
EXTENDS PackedGemm

AllPrograms == DOMAIN Layouts \cup {"igemmbdq"}
=============================================================================
