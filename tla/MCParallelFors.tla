--------------------------- MODULE MCParallelFors ---------------------------
(* The programs of ParallelPrograms: local_dependency with LOOP = 2, four  *)
(* chunks per loop and three executors, the others with five executors.    *)
EXTENDS ParallelFors, ParallelPrograms
=============================================================================
