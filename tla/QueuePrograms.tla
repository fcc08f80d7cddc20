--------------------------- MODULE QueuePrograms ---------------------------
(***************************************************************************)
(* The programs for QueueEvents: mt/queue_event_dependency (its data are   *)
(* in ExprGraph), memory/memcpy_async, mt/queue_submit and                 *)
(* general/kernel_parallelism_queue.                                       *)
(***************************************************************************)
EXTENDS Integers, Sequences, ExprGraph

CONSTANTS
  Blocks,        \* pieces in which memcpy_async copies and computes its arrays
  GroupSize,     \* executors in each egroup of queue_submit
  NumExecutors   \* executors kernel_parallelism_queue shares out

ASSUME QueueProgramsAssumption == {Blocks, GroupSize, NumExecutors} \subseteq Nat

-----------------------------------------------------------------------------
(* memcpy_async: src is copied to dst on q1 while task_compute fills c on  *)
(* q2; main waits for q2 and for the event of the copy, not for q1.        *)

\* Mutant: main waits for the event of the copy but not for q2.
CopyScriptNoQueueWait == <<
  <<"memcpy_async", "q1", "memcpy", "event">>,
  <<"queue_submit", "q2", "task_compute">>,
  <<"event_wait", "event">>,
  <<"print">> >>

CopyScript == <<
  <<"memcpy_async", "q1", "memcpy", "event">>,
  <<"queue_submit", "q2", "task_compute">>,
  <<"queue_wait", "q2">>,
  <<"event_wait", "event">>,
  <<"destroy", "q2">>,
  <<"destroy", "q1">>,
  <<"destroy", "event">>,
  <<"print">>,
  <<"destroy", "src">>,
  <<"destroy", "dst">> >>

Block == 1 .. Blocks
CopyPart == {"memcpy", "task_compute"} \X Block
CopyCell == {"src", "dst", "c"} \X Block
CopyUses == [memcpy |-> {"src", "dst"}, task_compute |-> {}]
CopyReads == [p \in CopyPart |-> IF p[1] = "memcpy" THEN {<<"src", p[2]>>} ELSE {}]
CopyWrites == [p \in CopyPart |-> {<<IF p[1] = "memcpy" THEN "dst" ELSE "c", p[2]>>}]
CopyEval(p, in) ==
  [x \in CopyWrites[p] |-> IF p[1] = "memcpy" THEN in[<<"src", p[2]>>] ELSE p[2]]
CopyInitMem == [x \in CopyCell |-> IF x[1] = "src" THEN x[2] ELSE 0]

-----------------------------------------------------------------------------
(* queue_submit: two kernels, each a range of loop_size = GroupSize        *)
(* indices with one executor of its egroup for each index, sum a slice of  *)
(* their array per index into an atomic.  A sum is represented by how      *)
(* often each slice was added to it.                                       *)

SumScript == <<
  <<"queue_submit", "q1", "kernel1">>,
  <<"queue_submit", "q2", "kernel2">>,
  <<"queue_wait", "q1">>,
  <<"queue_wait", "q2">>,
  <<"print">>,
  <<"destroy", "egroup1">>,
  <<"destroy", "egroup2">>,
  <<"destroy", "q1">>,
  <<"destroy", "q2">>,
  <<"destroy", "frame">> >>

Slice == 0 .. GroupSize - 1
SumPart == {"kernel1", "kernel2"} \X Slice
SumOf(p) == IF p[1] = "kernel1" THEN "sum1" ELSE "sum2"
SumUses == [kernel1 |-> {"egroup1", "frame"}, kernel2 |-> {"egroup2", "frame"}]
SumEid == [p \in SumPart |-> IF p[1] = "kernel1" THEN p[2] ELSE GroupSize + p[2]]
SumCell == {"sum1", "sum2"}

\* Mutant: int instead of std::atomic<int>.
SumAtomicNone == {}

SumAtomic == SumCell
SumAccess == [p \in SumPart |-> {SumOf(p)}]
SumEval(p, in) == [x \in SumAccess[p] |-> [in[x] EXCEPT ![p[2]] = @ + 1]]
SumInitMem == [x \in SumCell |-> [k \in Slice |-> 0]]

-----------------------------------------------------------------------------
(* kernel_parallelism_queue: four queues, each with a parallel-for over a  *)
(* quarter of the executors.  loop_func touches no memory.                 *)

KernelQueues == <<"q0", "q1", "q2", "q3">>
KernelQueue == {KernelQueues[k] : k \in 1 .. 4}
EgroupOf == [q0 |-> "egroup0", q1 |-> "egroup1", q2 |-> "egroup2", q3 |-> "egroup3"]

SubmitAll == [k \in 1 .. 4 |-> <<"queue_submit", KernelQueues[k], KernelQueues[k]>>]
WaitAll == [k \in 1 .. 4 |-> <<"queue_wait", KernelQueues[k]>>]
DestroyAll ==
  [k \in 1 .. 4 |-> <<"destroy", EgroupOf[KernelQueues[k]]>>]
    \o [k \in 1 .. 4 |-> <<"destroy", KernelQueues[k]>>]

KernelScript == SubmitAll \o WaitAll \o DestroyAll

ExecutorsPerQueue == NumExecutors \div 4

\* Mutant: an egroup holds one executor more than asked for.
EgroupOneMore(startEid, executorsNum) == startEid .. startEid + executorsNum

Egroup(startEid, executorsNum) == startEid .. startEid + executorsNum - 1

(* The task of a queue goes by the name of the queue.                      *)
KernelPart ==
  UNION {{KernelQueues[k]} \X Egroup(ExecutorsPerQueue * (k - 1), ExecutorsPerQueue) : k \in 1 .. 4}
KernelEid == [p \in KernelPart |-> p[2]]
KernelUses == [q \in KernelQueue |-> {EgroupOf[q]}]
NoAccess == [p \in KernelPart |-> {}]

-----------------------------------------------------------------------------
NoOwnExecutor(parts) == [p \in parts |-> -1]

QueuePrograms == [
  queue_event_dependency |->
    [queues |-> {"q1", "q2"}, events |-> {"event"}, script |-> ExprScript,
     reads |-> ExprReads, writes |-> ExprWrites, init |-> ExprInitMem, atomic |-> {},
     dep |-> ExprDep, uses |-> ExprUses, eid |-> NoOwnExecutor(ExprNode),
     prints |-> [E |-> 1 * 2 + 3 * 4]],
  memcpy_async |->
    [queues |-> {"q1", "q2"}, events |-> {"event"}, script |-> CopyScript,
     reads |-> CopyReads, writes |-> CopyWrites, init |-> CopyInitMem, atomic |-> {},
     dep |-> {}, uses |-> CopyUses, eid |-> NoOwnExecutor(CopyPart),
     prints |-> [x \in {"dst", "c"} \X Block |-> x[2]]],
  queue_submit |->
    [queues |-> {"q1", "q2"}, events |-> {}, script |-> SumScript,
     reads |-> SumAccess, writes |-> SumAccess, init |-> SumInitMem, atomic |-> SumAtomic,
     dep |-> {}, uses |-> SumUses, eid |-> SumEid,
     prints |-> [x \in SumCell |-> [k \in Slice |-> 1]]],
  kernel_parallelism_queue |->
    [queues |-> KernelQueue, events |-> {}, script |-> KernelScript,
     reads |-> NoAccess, writes |-> NoAccess, init |-> <<>>, atomic |-> {},
     dep |-> {}, uses |-> KernelUses, eid |-> KernelEid, prints |-> <<>>]]

TaskEval(p, in) ==
  CASE p \in ExprNode -> ExprEval(p, in)
    [] p \in CopyPart -> CopyEval(p, in)
    [] p \in SumPart -> SumEval(p, in)
    [] p \in KernelPart -> in
=============================================================================
