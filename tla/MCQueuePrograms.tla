-------------------------- MODULE MCQueuePrograms --------------------------
(* The four queue programs, with arrays of two blocks, kernels of three    *)
(* slices and nine executors for four queues.                              *)
EXTENDS QueueEvents, QueuePrograms
=============================================================================
