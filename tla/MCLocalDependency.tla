------------------------- MODULE MCLocalDependency -------------------------
(* mt_kupl_graph_version with three segments of unequal length, LOOP = 2.  *)
EXTENDS SGraphTask, LocalDependency

(* The check at the end of main prints "compute correctly": no addition to *)
(* d was lost, doubled or left out in any of the LOOP submissions.         *)
ComputesCorrectly ==
  report # NoReport => \A i \in Index : report.memory[i] = Loop * Expected(i)
=============================================================================
