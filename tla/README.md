# TLA+ models of hpckit-sample

The repository is a collection of sample programs for an HPC kit.  `src/kupl`
holds programs that use the KUPL library (static graphs, queues, events,
parallel fors, executor groups, asynchronous copies, matrix units);
`src/examples/arm-intrinsic` holds matrix and vector kernels written with SVE
and SME intrinsics.  KUPL itself is not in the repository.  What the samples
contribute, and what is modelled here, is how they *order* work: which
dependencies, events, waits and partitions keep concurrent pieces of a
computation apart, and whether those are enough for the result the program
prints.

## Inventory

| Component (`src/...`) | State | Operations | Interaction and hard behaviour | Correct when | Modelled by |
|---|---|---|---|---|---|
| `kupl/mt/graph`, `kupl/mt/graph_lambda` | A..G on main's stack, static graph of three nodes | add node, add dep, submit, wait, destroy, print | nodes run on any executors, in any order the dependencies allow | F, G are stored before they are read; 14 is printed | `SGraphTask`, `ExprGraph` |
| `kupl/general/mt_gemm_fp64` | matrices A, B, C, rewritten in place from rows to tiles and back; graph of pack, products, unpack | pack, one multiply-add per tile product, unpack | a product is linked to pack and to unpack only through its chain over k; products of different tiles overlap | no lost accumulation, every product added once, to packed tiles, C back in rows; the wait returns | `SGraphTask`, `GemmGraph` |
| `kupl/general/local_dependency`, graph version | `d`, `nums[]` on the stack of `test()`, one graph per call, LOOP calls | `axb_func`, `d_func`, `test`, final check | many segments at once; args live on a frame that goes away | `d[i] = LOOP * expected`; args outlive the nodes | `SGraphTask`, `LocalDependency` |
| same, parallel-for version | `d`, an egroup per call | two parallel fors, egroup create and destroy | the return of the first loop is the only barrier | same result; egroup outlives its chunks | `ParallelFors`, `ParallelPrograms`, `LocalDependency` |
| `kupl/general/compute_memcpy_overlap` | `src`, `dst`, one event | asynchronous copy, event wait, compute a chunk, check | copy of chunk i+1 beside computation on chunk i; one event reused for all | a chunk is copied before it is doubled; no wait is answered by an older copy | `MemcpyOverlap` |
| `kupl/mt/queue_event_dependency` | two queues, one event, args on the stack | submit, record, wait for event, wait for queue, destroy | order across queues only through the event; q2 destroyed after a wait for q1 only | 14 printed; nothing destroyed while used; the wait returns | `QueueEvents`, `ExprGraph` |
| `kupl/memory/memcpy_async` | src, dst, c, two queues, one event | copy with event on q1, task on q2, waits, checks, frees | q1 is never waited for | both checks print 1; nothing freed while used | `QueueEvents`, `QueuePrograms` |
| `kupl/mt/queue_submit` | two arrays, two atomic sums, two egroups | two kernels, waits, print | slices added to one variable side by side | every slice once; no executor serves both kernels | `QueueEvents`, `QueuePrograms` |
| `kupl/general/kernel_parallelism_queue` | four queues, four egroups | four parallel fors submitted to queues | egroups cut out of all executors, remainder unused | egroups disjoint; destroyed after use | `QueueEvents`, `QueuePrograms` |
| `kupl/general/dynamic_parallelism_scaling` | `g_egroup` and one group per node | borrow, loop, return, reset in nodes a, b, c | borrow, return and reset of a and b interleave freely | executors neither lost nor shared | `EgroupScaling` |
| `kupl/general/zgemm_restrain` (KUPL and OMP) | A, B, r, buffers per thread | row partition, six-deep loop nest, accumulation of squares | every thread starts at another column; more threads than rows | every product once; rows of r belong to one thread; the check passes | `ZgemmRestrain` |
| `kupl/general/parallel`, `kupl/mt/parallel_for_1d`, `_1d_lambda`, `_3d` | arrays, an egroup with a barrier | one parallel for, its body, print, destroy | static shares of a range, in 3d of its last dimension; a barrier inside a loop body | every element in one share; the result printed right; no executor left at the barrier | `ParallelFors`, `ParallelPrograms` |
| `kupl/memory/shm` | a window of one part per MPI rank | create, allocate, fill, barrier, copy, check, free | one barrier between the stores of rank 0 and the copies; rank 0 goes on to free while others copy | copies read what was stored, from memory that is still there; no rank waits for ever | `ShmWindow` |
| `kupl/memory/{hbw,memcpy,memcpy2d,memcpy_between_numa_nodes}` | arrays | library call, comparison | none: sequential | - | not modelled |
| `kupl/mma/*` | packed A and B, a tile of sums | pack (or copy between layouts), multiply by tensor operations, store, check | strides of layouts written by hand must agree with the packing loops | every word found where it was packed; C is the product | `PackedGemm` |
| `examples/arm-intrinsic/*_gemm` | A, B, C, the matrix unit ZA | zero ZA, add outer products over k, store a tile | edges of M and N against a vector length the machine decides; remainders of K after unrolled loops | every element of C stored, with every product once | `ArmKernels` |
| `examples/arm-intrinsic/*_gemv` | A, x, y, two vector registers of sums | multiply-add over unrolled columns, tail, write back | a second register that may be wholly or partly masked; predicates for other element sizes than those loaded | every element of y is the whole sum; the check of main passes | `ArmKernels`, `MCBf16Gemv` |
| `examples/arm-intrinsic/igemmbdq` | int8 A and B, packed panels, ZA, scales, C | pack through ZA, multiply tile by tile, scale, store | panels and blocks at the edge are smaller, and so are their strides | every word packed once and found again; every element scaled for its row and column | `PackedGemm` |

Components, hazards (each with its source line) and the correspondence of every
definition to source lines are in `PROJECT.json`.

## Modules

- **`AtomicGraph`** - the abstract specification: every node function happens in
  one indivisible step, once per submission, after its predecessors, and the
  program reports the memory the whole graph leaves behind.
- **`SGraphTask`** - a main thread that submits a static graph, waits, destroys,
  repeats and reports; executors for which a node function is *two* steps: `Start`
  takes the operands, `End` stores the results, others run in between.  The graph
  (`Node`, `Dep`), the memory cells (`Cell`, `Reads`, `Writes`) and the functions
  (`Eval`) are parameters.  `pc`, `round` are main's place and the index of its
  loop; `status` what KUPL knows of each node; `mem` the shared arrays.  Taking all
  operands at the start is the least favourable moment for the value read; a store
  in between by another node makes the result stale, and `OperandsCurrent` says it
  never is.
- **`GemmGraph`, `LocalDependency`, `ExprGraph`** - the parameters: the graph of
  `gemm_kupl_way` over tile slots, the segments of `test()`, and the three-node
  expression (with the call sequence of `queue_event_dependency`).  In `GemmGraph`
  an array is cut into slots of the size of a tile, named by their offsets.  The code
  computes the offset of a tile three times over, and so does the model: `PackA`, `PackB`,
  `PackC` where pack stores it, `SlotA`, `SlotB`, `SlotC` where a product finds it
  (`data_b + k * N + n * MMA_K`), `UnpackC` where unpack takes it.  Where two of them
  differ, a product meets a tile of another k, or rows get a tile of another place, which
  `MultiplyAdd` and `ToRows` record as spoilt.
- **`ParallelFors`** - main as a script of calls: `kupl_parallel_for` on an egroup,
  destroy, report; chunks in two steps as above, and between them, in a body that has a
  barrier, `ArriveAtBarrier` and `BarrierOpens`.  Its refinement of `AtomicGraph` takes
  as `Dep` "all chunks of earlier loops": the return of a loop made explicit.
  **`ParallelPrograms`** is the table of programs: `local_dependency`, `parallel`,
  `parallel_for_1d` (and the lambda version, which has the same loop) and
  `parallel_for_3d`.  `Share` is the static policy: KUPL's, so external.
- **`MemcpyOverlap`** - main, `task_compute` element by element, copies that store
  element by element at any time, and one event with the chunk it stands for.
- **`QueueEvents`** - main as a script of calls, queues served first in first out,
  events, tasks made of parts (chunks) that read their operands one by one.
  **`QueuePrograms`** is the table of the four programs: scripts, resources, data and
  what is to be printed.
- **`EgroupScaling`** - the functions of nodes a, b and c, one action per call of
  borrow, parallel for, return and reset, over sets of executor numbers.
- **`ZgemmRestrain`** - `GetMThreadsRegions`, the loop nest of one thread as an
  ordered set of blocks, and the non-atomic `r[m] +=`.
- **`ArmKernels`** - one kernel, gemm or gemv: the tile (`i`, `j`), the loop over k that
  runs and its `k`, the accumulators ZA and C.  The kernels differ in the steps of their
  loops (`Unroll`), in the size and the mask of a tile (`TileRows`), and in whether a
  tile is added to C.  A gemv is the case of one column whose tile is two vector
  registers below each other.  An entry of ZA or C is the set of products in it, each
  named by the addresses it was read from, so that a wrong row, column or leading
  dimension shows.  `bf16_gemv` appears twice: its loads leave every second 16-bit lane
  unset, and the conversion, an instruction outside the repository, is taken either to
  convert the even lanes (what the architecture says) or the low ones.
  **`MCBf16Gemv`** adds the numbers `main` puts into A and x.
- **`PackedGemm`** - programs that pack before they multiply: `igemmbdq`, the three
  `mma_*` and `copy_int8`.  `PackedAt` is the address the packing stores a word at,
  `ReadAt` the one the multiplication (or the printing) computes for it; they come from
  different functions of the source, and nothing but the arithmetic ties them together.
- **`ShmWindow`** - every rank at its place in its script of calls; collective calls
  counted, the loop of rank 0 and the copies element by element.
- **`*_proofs`** - theorems; **`MC*`** - instances for TLC and the property that
  speaks of one instance's result.

A composition is made by EXTENDS of a machine (`SGraphTask`, `ParallelFors`,
`QueueEvents`) and the data of a program or a table of programs, with the machine's
parameters replaced in the cfg; where it is a table, a behaviour runs one of its
programs.  A proof module makes the same composition, with the parameters given by a hypothesis.  Definitions
headed "Mutant" are plausible mistakes; each property is shown to fail when one of
them takes the place of the definition it is made from.

### What is taken of KUPL

KUPL is external, so these are assumptions: a node runs once per submission, after
its predecessors, on one of at most `Workers` executors; `kupl_graph_wait`,
`kupl_queue_wait` and `kupl_parallel_for` return when everything they cover has
ended; a queue runs its items in order; an event handed to a copy or recorded on a
queue is armed anew and completes with the work before it; borrow and return move
all executors of a group in one step; a barrier opens when all executors of the
egroup are there; the static policy gives thread t the indices from
`t * size / threads` up to `(t + 1) * size / threads`.  The order of the dimensions in
`KUPL_3D_RANGE_INIT` is read off the names the body of `parallel_for_3d` gives to the
parts of its range; were it another, no property here would show it.  Nothing else is assumed of the order in which executors act.

Of MPI: collective calls match by their order, and return when all ranks have entered.
`kupl_shm_win_free` is taken to be collective, as KUPL is handed MPI's barrier when the
communicator is created; if it were not, rank 0 would free what the others copy (the
mutant `CollectiveNotFree`), so the program rests on it.

## Runs

TLC's own deadlock check is off: every program ends, and then has no step.  In its place
stands `NoDeadlock` in the five modules where something waits: as long as the program
has not ended, or main waits, someone can go on.  "Can go on" spells out the guards of the
actions.  It is proved (see below); `queue_programs` also checks it, and every run that
checks `Terminates`, that the end is reached, would find it violated.  Type invariants
are proved too, and that of `SGraphTask` is checked in `local_dependency_graph`.

| Run | Question | Bounds, and why they are enough |
|---|---|---|
| `gemm` | Do the chained dependencies keep pack, products and unpack apart, and is every product added once? | The real sizes, which are 2x2x2 tiles, on 3 executors: two chains beside each other, a first and a last product per chain, shared tiles of A and B.  Any number and size of tiles: proved. |
| `local_dependency_graph` | Are updates of d lost, and do the args outlive the nodes? | N = 4 over 3 segments (unequal lengths), 3 executors, two calls of `test()` so that state left by the first meets the second.  Any N, segments and calls: proved. |
| `parallel_fors` | Is the return of a loop barrier enough, is every element in one share, does everyone leave the barrier? | `local_dependency`: 6 elements, 4 chunks for 3 executors, two calls of `test()`.  The others on 5 threads: 1d in its real size of 14, not a multiple of 5; 3d with 4x2x2, so one thread has no share.  Any size: proved. |
| `memcpy_overlap` | Is one event for all copies enough? | 4 chunks of 6 elements: a first, two middle and a last round, every interleaving of copy and computation within a chunk.  Any length: proved. |
| `queue_programs` | Do events and waits order the queues, is nothing destroyed or freed while used, are sums complete, egroups apart, results right? | Each of the four programs in its full script: arrays of 2 blocks, so that copy and task can each be half done; 3 slices per kernel instead of 10; 9 executors for 4 queues, two per queue and a remainder.  Any sizes: proved. |
| `zgemm` | Do ranges, columns and K blocks cover every product once? | All M, K, threads in 1..3, N in 1..4, both versions, with blocks of 2x3x2 and unroll 2: each dimension below, at and above its block, more threads than rows.  All three properties for any sizes: proved. |
| `zgemm_check` | Does the program's own comparison pass for every K? | Same bounds.  It does not, see below. |
| `arm_kernels` | Does every kernel store every element, with all its products once? | Vectors of 2 elements; M, N, K that are smaller than, a multiple of and no multiple of a tile (2, and 4 for int8 and gemv) and of the loops' steps (8, 4, 2).  All sizes: proved. |
| `bf16_gemv_check` | Does the check in `main` of bf16_gemv pass? | Vectors of 4, so that two of four lanes are loaded; 1, 3 and 8 rows, one of them a single lane.  It does not, see below. |
| `packed_gemm` | Is every word found where it was packed? | `igemmbdq` with panels of 2 instead of 16 and sizes below, at and above a panel, odd and even; the tensor programs in their real sizes.  Any size of panel and matrix: proved. |
| `shm` | Is one barrier enough, and does no rank get stuck? | 3 ranks, so two that copy at different speeds; 2 elements, so that a copy can be half done.  Any number: proved. |
| `egroup_scaling` | Is an executor ever lost or in two loops? | 6, 3 and 2 loops, groups of 2: a and b end in either order.  Any numbers: proved. |

`ImplementsAtomic` (runs `gemm`, `parallel_fors`, `queue_programs`) is
the refinement: with `done` mapped to the ended nodes, every step of the detailed
program is a step of `AtomicGraph` or a stutter.  Queues and events, loops and static
graphs are thus three implementations of one promise.

**Fairness** appears in `FairSpec` only: main is never held up for ever but by its own
waits, an idle executor takes a ready node (or serves its queue), and node functions
and copies, which are loops of fixed length, return.  KUPL's executors are pinned
threads that poll for work, and nothing in the programs blocks within a task, which is
what this asks of them.  `ParallelFors` asks that main goes on and that some executor
does while one can, `ShmWindow` that every rank, a process of its own, goes on until it
has to wait for the others.  No fairness among ready nodes or chunks is assumed.

### Findings

`zgemm_check`: `kernel_with_kupl` adds `real * real - imag * imag` to `r[m]` once per
block of at most `GEMM_Q` (384) terms of K, so for larger K the squares of partial
sums are added up, not the square of the sum.  The comparison with `cblas_zgemm` in
`main` then prints a failure.  `RightForOneBlock` shows that the result is right up to
one block, and the makefile's own command lines stay there (K <= 256).

`bf16_gemv_check`: `bf16gemv.c` loads vectors of 16-bit elements under predicates made
by `svwhilelt_b32`, for 32-bit elements.  Such a predicate is active in every second
16-bit lane, so half of a vector of A is not loaded; `svcvt_f32_bf16` does not put the
others where the sums expect them.  The comparison in `main` (bf16gemv.c:198-233), which
is to print "All results are correct within epsilon", fails as soon as A has several rows
and columns, whichever lanes the conversion takes.  `int8_gemv` has a load that widens, and is right.

## Proofs

All are for every value of the constants, under the named assumptions of the modules
(`GraphAssumption`, `TilesAssumption`, `SegmentsAssumption`, `ChunksAssumption`,
`ScalingAssumption`, `KernelAssumption`, `ProgramsAssumption`, `ThreadsAssumption`,
`QueueProgramsAssumption`, `SizesAssumption` of `ShmWindow` and of `ZgemmRestrain`,
`SizeAssumption` and `LayoutsAssumption` of `PackedGemm`): sizes are positive (those of the queue
programs may be zero), the length is a multiple of the number of chunks, reads and writes
are cells, a chunk belongs to one loop, a program that runs is one that is modelled.

- **`SGraphTask_proofs`**, for every graph.  `Typing` needs no more than the
  assumptions.  The rest holds of a graph with `BeforeFromDeps` (the order asked for
  is generated by dependencies) and `ConflictsOrdered` (it orders every two nodes that
  share a written cell).  `RaceFree` alone is not inductive: to know that the node
  that starts next to a running one does not conflict with it, one needs `OrderKept`
  for indirect predecessors, which follows from `DepsKept` for direct ones; that the
  results stored are those of an indivisible execution needs `OperandsCurrent`; and
  `ArgsOutliveTasks` needs `MainFollowsNodes`.  Their conjunction is `Inductive`.
  `Implementation` is the refinement of `AtomicGraph`: `End` is the abstract `Run`
  because operands are still current.
  The second part takes a program (`ExprProgram`, `GemmProgram`, `LDProgram`: what the
  parameters are) and shows that its graph meets those two
  conditions for any number of tiles, segments and executors; the theorems of the first
  part apply.  The arithmetic is in `Offsets`, `Places` and `Slots` (each of the three
  computations of an offset leads to the same place, different tiles have different ones,
  and every slot is the place of a tile; `Packed` is what follows of pack and unpack) and
  in `DivMonotone` and its followers (the segments `id * N / num_executors` do not
  overlap, and every index is in one).  Then the results, which need more: an invariant
  that says what the ended nodes have left in memory, and that the last call of the
  program finds them all ended.  `ExprPrintsFourteen`: the values of F and G.
  `GemmEveryProductOnce`: a tile of C holds the products of the ended nodes of its chain
  over k, each from the packed tile it should read.  `LocalDependencyComputesCorrectly`:
  an element of d has been added to by the segments that hold it and have ended, in this
  call and the calls before.
- **`MemcpyOverlap_proofs`**: `EventFollowsMain` (where main is says which copy the
  event stands for) and `Frontier` (below j elements are doubled, up to the progress
  of the latest copy they are copied, behind it zero) are inductive together, and
  give `ResultRight`, `ComputeAfterCopy`, `EventNotReused` and `NothingAfterDestroy`.
- **`EgroupScaling_proofs`**: `ExecutorsPartitioned` needs that loops run within their
  node's group and that c starts last (`NodesFollowDep`, `UsingWithinGroup`,
  `LoopsLeft`); `LoopsDisjoint` and the action property `BorrowTakesAll` follow.
  `GroupsOutliveLoops` rests on `NodesFollowDep`: main goes on when c, the last node, is done.
- **`ArmKernels_proofs`**, for every kernel but `bf16_gemv` (`WholeLoads`): `Inductive`
  says of C that the tiles passed are complete and the others untouched (`CSoFar`), and
  of ZA that it holds the products of the current tile up to k, and that k has reached K
  when the loops are left (`TileSoFar`).  For the gemv loops, whose bound is
  `K - K % step`, this needs that k is a multiple of the step in the first loop.  The
  arithmetic is in `RowAndColumn` (an address tells its row and column) and `Place`;
  `StoredElement` says what one store does.  `StoredIsComplete` and `AllStored` follow.
  The module also proves `PackedGemm`, whose specification has names of its own so that
  both can be extended: `BuffersWhole` (`PackedWhole`) and `ProductRight` (`ResultRight`).
  Both rest on one map, `At`, from words to addresses: no two words share an address
  (`AddressesApart`), every word has one in the buffer and every address a word
  (`AddressesWithin`, `AddressesCover`), a smaller last panel included.  `PackedAt` and
  `ReadAt` are both shown to be that map (`PackedAtItsAddress`, `ReadAtItsAddress`; for the
  tensor programs it needs that the strides in the layouts are the numbers of rows,
  `RunSizes`).  The invariant `PackedInv` then says where the loops are (`Position`), which
  words are in place (`WordsPacked`), that the sums of the tile have the words before ki
  (`TileSums`), and that the tiles passed are right (`TilesStored`).
- **`ParallelFors_proofs`**, first for every table of programs with three conditions:
  chunks of the same loop do not conflict (`LoopsConflictFree`), an egroup is destroyed
  after its loops (`DestroyLast`), the result is reported once and last
  (`ReportedOnce`).  `RaceFree` is not inductive: that two running chunks are of one loop
  needs `LoopsFollowMain` (loops before main's place have ended, those after it have not
  begun).  `DestroyedPast` and `ReportPast` tie what has been destroyed and reported to
  calls main has passed, and with `OperandsCurrent` their conjunction is `Inductive`.
  `LoopsImplementation` is the refinement.  Then `ProgramsConflictFree` and
  `ProgramsInOrder` show that the four programs meet the conditions, for any sizes, from
  the arithmetic of `SGraphTask_proofs`, since a static share is cut as a segment
  is; `ProgramsNoRaces`, `ProgramsEgroupsOutlive` and `ProgramsImplementation` follow.
  `ProgramsResultRight` adds that the shares also cover the range.
- **`QueueEvents_proofs`**, again first for every table of scripts, with conditions that
  can be read off a script: an item is submitted once (`ItemsOnce`); of two parts that
  conflict one comes before the other in a queue, or is joined to it by an event or a wait
  (`ConflictsOrdered`); so are those the abstract graph orders (`DepOrdered`); what is
  destroyed, and what is printed, has been waited for (`DestroyAfterWait`,
  `PrintAfterWait`); parts that may overlap have different executors (`OwnExecutors`).
  `RaceFree` alone says nothing of the items that are yet to start, so the invariant
  follows the order from the script to memory: main's place says what each queue holds
  (`QueuesInOrder`), a part has begun or ended according to the place of its item in the
  queue (`PartsFollowQueues`), an event is complete when what came before its item has
  ended (`EventsFollowQueues`), what main waited for has ended (`MainPast`), and operands
  are current (`OperandsCurrent`).  `QueuesPreventRaces`, `WaitsProtectResources`,
  `ExecutorsKept` and the refinement `QueuesImplementation` follow, and `ProgramConditions`
  shows that the four programs meet the conditions for any number of blocks, slices and
  executors.  `ProgramsResultRight` then reads the printed value off the refinement: an
  invariant of the abstract graph says what the ended parts have left in each cell.
- **`ShmWindow_proofs`**: a rank leaves a collective call only when all have entered it.
  The invariant therefore ties counts to places: a rank has entered the collective calls
  before its place, and every other rank has entered as many (`InStep`); what a rank has
  passed its loop or its copy with is stored (`Stored`); who has freed its part has
  returned from the collective call that follows the copies (`FreedPast`).
  `CopySucceeds` and `WindowOutlivesCopies` follow by counting.

- **`ZgemmRestrain_proofs`**: `RowsOfOneThread`, `TermsOnce` and `RightInOneBlock`.  The invariant says that
  a thread has a subset of its blocks left (`BlocksLeft`), holds rows of its next block
  or none (`RowsLoaded`), and that a product has been added iff the block it is in, of
  whatever thread, has been computed (`AddedSoFar`).  What that needs is arithmetic of
  the code.  `GetMThreadsRegions` is a recursion (`LeftSolves`): a thread more leaves
  fewer rows or as many, the last none (`LeftFalls`), so a row is in the range of one
  started thread (`RowHasThread`, `RowHasOneThread`, `ThreadsHaveRanges` for the OMP
  version).  A loop with a step covers its range in disjoint pieces (`StepsCover`,
  `StepsApart`); the two loops over columns cover a panel once wherever the thread starts
  (`ColumnsCover`, `ColumnsApart`); together, every product is in one block of one thread
  (`BlocksCover`, `BlocksApart`).  For the result the invariant is joined by `SumsSoFar`:
  while K fits into one block, an entry of r is the sum of squares over the columns added
  so far, and what a thread has loaded is still there when it stores.  That a block's sum
  may be added to it is a fact about sums over finite sets (`SumsAdd`): `MapThenSumSet`
  takes elements out in some order, so that every order gives the same sum is proved by
  induction over the size of the set (`PartsInduction`, `SumsTakeOut`).

**Deadlock freedom** (`NoDeadlock`) is proved along one argument: of all that wait, the one
that is first in some order waits for nothing that waits.  In a static graph the order is
a stage of the nodes, by which dependencies ascend (`Staged`; `NodesGoOn`), and
`GemmGoesOn` gives the graph of `gemm_kupl_way` its stages; the mutant that closes the chain
to a ring has none.  Of queues, the one whose head main submitted first goes on
(`OldestGoesOn`): it is no wait for an event that is not complete, since the record of that
event was submitted earlier still (`WaitsAnswered`, a condition that can be read off a script).
`TasksUnfinished` (a task that is on its queue has a part that has not ended) and
`EventsComplete` (an event whose record has left its queue is complete) join the
invariant.  `ProgramsGoOn` asks that no task is empty: with fewer executors than queues,
`kernel_parallelism_queue` submits parallel fors to empty groups, and what KUPL does
with these is not in the repository.  Of ranks, one that has entered the fewest
collective calls is not waiting (`WaitsForOneBehind`).  At a barrier the number decides: the body
is run once by each executor (`BarriersFit`), so that all chunks have arrived when none can
go on (`LoopsTogether`).  In `MemcpyOverlap` it is `EventFollowsMain`: where main waits, the event
stands for the copy that main waits for (`WaitsGoOn`).

Only model-checked: termination (`Terminates`, since liveness is beyond the prover;
`NoDeadlock` is the part of it that is an invariant), and the two runs that show a failing check, whose counterexamples are of fixed size.

## Abstractions and what is left out

Clock readings and printing of progress are left out.  Node functions touch whole
tiles or segments; in `GemmGraph` the element order in a tile and the layouts of the
matrix unit are one "tile".  In `ZgemmRestrain` packing and the complex product are the
KML library's, and buffers are not modelled.  There is one of them for each of 38 threads,
and `main` checks neither that there are no more nor that there is one: its guard
`nthreads <= 0 && nthreads > MAX_CPU_CORES` holds of no number.  A command line with 0
threads, which divides by 0 in `GetMThreadsRegions`, or with more than 38, which indexes
past the buffers, is outside of the model and of its theorems.  In `ArmKernels` arithmetic is the set of
products: rounding and the width of the int32 sums are left out, as is what a masked lane
loads.  In `PackedGemm` a word is what an instruction takes of a row at a time (four
int8, two bf16, one double): K is counted in words, which the programs' sizes are
multiples of, and the order within a word is the same on both sides.  `igemmbdq` loads
a whole vector of scales and drops the lanes behind n, so only the lanes kept are
modelled.  Failure of an allocation or of a KUPL call is not modelled: the programs do
not look at the results.

### Not modelled

- `reduce`, the split of work among threads and the macro kernel of `igemmbdq`: `main`
  runs one thread and one block of K, and cannot reach them.
- `f32_to_bf16`: the comment in `bf16gemv.c:139` promises rounding to nearest, the code
  cuts a half off; the inputs of `main` are small whole numbers that bf16 holds exactly,
  so nothing the program does depends on it.  In `bf16_gemm` the check reads the same
  converted values as the kernel.
- `kupl/memory/{memcpy,memcpy2d,hbw,memcpy_between_numa_nodes}`: one library call after
  another and a comparison, with no state of their own beyond the arrays.
- Build files and readmes.

`PROJECT.json` gives the reason for every component, and lists the hazards that no
property covers.

## Plan

Written, in this order: `AtomicGraph`, `SGraphTask` and its three graphs with their
proofs; `MemcpyOverlap` with its proofs; `ParallelFors`; `QueueEvents` with four programs;
`ZgemmRestrain`; `EgroupScaling` and `ArmKernels` with their proofs; `ParallelPrograms`
and `ParallelFors_proofs`; `ShmWindow`; `PackedGemm`; the results of the graph programs
and parallel fors, `QueueEvents_proofs`, `ShmWindow_proofs`, `ZgemmRestrain_proofs` and
the theorems about `PackedGemm`.  What would be next:

1. Liveness as far as the prover reaches.  That a step is possible is proved
   (`NoDeadlock`); what is missing is a number that every step makes smaller, for each
   component that waits.
