---------------------------- MODULE ParallelFors ---------------------------
(***************************************************************************)
(* A main thread that runs kupl_parallel_for loops on egroups one after    *)
(* the other, destroys the egroups and reports.  Programs is a table of    *)
(* such programs, and a behaviour runs one of them.  KUPL is external: a   *)
(* loop is cut into chunks that the executors of its egroup run side by    *)
(* side, one at a time each; kupl_parallel_for returns when every chunk    *)
(* has ended; a barrier of the egroup holds an executor until all          *)
(* executors of the egroup have reached it.  As in SGraphTask a chunk      *)
(* takes its operands when it starts and stores when it ends.              *)
(***************************************************************************)
EXTENDS Integers, FiniteSets, Sequences

CONSTANTS
  Programs,    \* name -> the program, a record of
               \*   script: the calls of main in program order,
               \*     <<"parallel_for", egroup, chunks>>, <<"destroy", egroup>> or <<"report">>
               \*   executors: how many an egroup has
               \*   barrier: does the loop body call kupl_egroup_barrier
               \*   reads, writes: chunk -> cells
               \*   init: the memory before the first loop, by cell
               \*   prints: what main is to report, by cell
  Eval(_, _)   \* chunk, operands -> what the chunk stores

LoopsOf(p) == {s \in 1 .. Len(p.script) : p.script[s][1] = "parallel_for"}

ASSUME ProgramsAssumption ==
  \A n \in DOMAIN Programs :
    LET p == Programs[n] IN
      /\ p.script \in Seq({p.script[s] : s \in DOMAIN p.script})
      /\ \A s \in DOMAIN p.script : p.script[s][1] \in {"parallel_for", "destroy", "report"}
      /\ p.executors \in Nat \ {0}
      /\ p.barrier \in BOOLEAN
      /\ p.reads \in [DOMAIN p.reads -> SUBSET DOMAIN p.init]
      /\ p.writes \in [DOMAIN p.reads -> SUBSET DOMAIN p.init]
      /\ UNION {p.script[s][3] : s \in LoopsOf(p)} = DOMAIN p.reads
      /\ \A s, t \in LoopsOf(p) : s # t => p.script[s][3] \cap p.script[t][3] = {}

(* What the proofs ask of a program: that chunks of the same loop have no  *)
(* cell in common that one of them writes, and that an egroup is destroyed *)
(* after its loops, and the result reported after all, once.               *)
LoopsConflictFree ==
  \A n \in DOMAIN Programs : \A s \in LoopsOf(Programs[n]) :
    LET p == Programs[n] IN
      \A c, d \in p.script[s][3] :
        c # d => p.writes[c] \cap (p.reads[d] \cup p.writes[d]) = {}

DestroyLast ==
  \A n \in DOMAIN Programs : \A s \in LoopsOf(Programs[n]) :
    LET p == Programs[n] IN
      \A t \in 1 .. Len(p.script) :
        p.script[t][1] = "destroy" /\ p.script[t][2] = p.script[s][2] => s < t

ReportedOnce ==
  \A n \in DOMAIN Programs :
    LET p == Programs[n] IN
      \A t \in 1 .. Len(p.script) : p.script[t][1] = "report" =>
        /\ \A s \in LoopsOf(p) : s < t
        /\ \A u \in 1 .. Len(p.script) : p.script[u][1] = "report" => u = t

(* And that a barrier is reached by as many chunks as wait for each other. *)
BarriersFit ==
  \A n \in DOMAIN Programs : \A s \in LoopsOf(Programs[n]) :
    LET p == Programs[n] IN
      p.barrier => IsFiniteSet(p.script[s][3]) /\ Cardinality(p.script[s][3]) = p.executors

VARIABLES
  program,    \* the name of the program
  at,         \* the call main is at
  status,     \* chunk -> "absent", "waiting", "running", at the barrier "arrived",
              \* behind it "past", or "done"
  operands, mem,
  destroyed,  \* egroups
  report

vars == <<program, at, status, operands, mem, destroyed, report>>

Script == Programs[program].script
Executors == Programs[program].executors
Barrier == Programs[program].barrier
Reads == Programs[program].reads
Writes == Programs[program].writes
Chunk == DOMAIN Reads
Cell == DOMAIN Programs[program].init

InState(s) == {c \in Chunk : status[c] = s}
Running == InState("running") \cup InState("arrived") \cup InState("past")

(* Every chunk of a loop before every chunk of a later loop.               *)
ProgramOrder(p) ==
  UNION {p.script[pair[1]][3] \X p.script[pair[2]][3] : pair \in
           {st \in LoopsOf(p) \X LoopsOf(p) : st[1] < st[2]}}

NoReport == [reported |-> FALSE]

(* Program n as a graph of indivisible chunks; it has not begun if another *)
(* program runs.                                                           *)
Atomic(n) == INSTANCE AtomicGraph WITH
  Node <- DOMAIN Programs[n].reads, Dep <- ProgramOrder(Programs[n]),
  Cell <- DOMAIN Programs[n].init, Reads <- Programs[n].reads, Writes <- Programs[n].writes,
  InitMem <- Programs[n].init, Loop <- 1, round <- 1,
  mem <- IF n = program THEN mem ELSE Programs[n].init,
  done <- IF n = program THEN InState("done") ELSE {},
  report <- IF n = program THEN report ELSE NoReport

Init ==
  /\ program \in DOMAIN Programs
  /\ at = 1
  /\ status = [c \in Chunk |-> "absent"]
  /\ operands = [c \in Chunk |-> <<>>]
  /\ mem = Programs[program].init
  /\ destroyed = {}
  /\ report = NoReport

-----------------------------------------------------------------------------
(* The calls of main.                                                      *)

Call == Script[at]

Calls(name) == at <= Len(Script) /\ Call[1] = name

EnterLoop ==
  /\ Calls("parallel_for")
  /\ Call[3] \subseteq InState("absent")
  /\ status' = [c \in Chunk |-> IF c \in Call[3] THEN "waiting" ELSE status[c]]
  /\ UNCHANGED <<program, at, operands, mem, destroyed, report>>

\* Mutant: the loop returns when its last chunk has been taken, not ended.
LoopReturnsWhenTaken ==
  /\ Calls("parallel_for")
  /\ Call[3] \cap (InState("absent") \cup InState("waiting")) = {}
  /\ at' = at + 1
  /\ UNCHANGED <<program, status, operands, mem, destroyed, report>>

LoopReturns ==
  /\ Calls("parallel_for")
  /\ Call[3] \subseteq InState("done")
  /\ at' = at + 1
  /\ UNCHANGED <<program, status, operands, mem, destroyed, report>>

EgroupDestroy ==
  /\ Calls("destroy")
  /\ at' = at + 1
  /\ destroyed' = destroyed \cup {Call[2]}
  /\ UNCHANGED <<program, status, operands, mem, report>>

ReportResult ==
  /\ Calls("report")
  /\ at' = at + 1
  /\ report' = [reported |-> TRUE, memory |-> mem]
  /\ UNCHANGED <<program, status, operands, mem, destroyed>>

Main == EnterLoop \/ LoopReturns \/ EgroupDestroy \/ ReportResult

-----------------------------------------------------------------------------
(* The executors.                                                          *)

Start(c) ==
  /\ status[c] = "waiting"
  /\ Cardinality(Running) < Executors
  /\ status' = [status EXCEPT ![c] = "running"]
  /\ operands' = [operands EXCEPT ![c] = [x \in Reads[c] |-> mem[x]]]
  /\ UNCHANGED <<program, at, mem, destroyed, report>>

ArriveAtBarrier(c) ==
  /\ Barrier
  /\ status[c] = "running"
  /\ status' = [status EXCEPT ![c] = "arrived"]
  /\ UNCHANGED <<program, at, operands, mem, destroyed, report>>

BarrierOpens ==
  /\ Cardinality(InState("arrived")) = Executors
  /\ status' = [c \in Chunk |-> IF c \in InState("arrived") THEN "past" ELSE status[c]]
  /\ UNCHANGED <<program, at, operands, mem, destroyed, report>>

End(c) ==
  /\ status[c] = IF Barrier THEN "past" ELSE "running"
  /\ status' = [status EXCEPT ![c] = "done"]
  /\ mem' = [x \in Cell |-> IF x \in Writes[c] THEN Eval(c, operands[c])[x] ELSE mem[x]]
  /\ UNCHANGED <<program, at, operands, destroyed, report>>

Serve == BarrierOpens \/ \E c \in Chunk : Start(c) \/ ArriveAtBarrier(c) \/ End(c)

-----------------------------------------------------------------------------
Next == Main \/ Serve

Spec == Init /\ [][Next]_vars
(* Main goes on, and so do the executors while one of them can.            *)
FairSpec == Spec /\ WF_vars(Main) /\ WF_vars(Serve)

-----------------------------------------------------------------------------
TypeOK ==
  /\ program \in DOMAIN Programs
  /\ at \in 1 .. Len(Script) + 1
  /\ status \in [Chunk -> {"absent", "waiting", "running", "arrived", "past", "done"}]
  /\ DOMAIN operands = Chunk
  /\ DOMAIN mem = Cell

(* Chunks that run at the same time share no cell that one of them writes. *)
RaceFree ==
  \A c, d \in Running : c # d => Writes[c] \cap (Reads[d] \cup Writes[d]) = {}

(* An egroup that is destroyed has nothing left to run.                    *)
EgroupOutlivesChunks ==
  \A s \in LoopsOf(Programs[program]) :
    Script[s][2] \in destroyed => Script[s][3] \subseteq InState("done")

(* Main is where its loops are: those before its place have ended, those   *)
(* after it have not been entered.                                         *)
LoopsFollowMain ==
  \A s \in LoopsOf(Programs[program]) :
    /\ s < at => Script[s][3] \subseteq InState("done")
    /\ s > at => Script[s][3] \subseteq InState("absent")

(* A chunk that runs took values that are still in memory.                 *)
OperandsCurrent ==
  \A c \in Running : operands[c] = [x \in Reads[c] |-> mem[x]]

(* Main has passed the call that destroyed an egroup.                      *)
DestroyedPast ==
  \A e \in destroyed : \E t \in 1 .. Len(Script) :
    t < at /\ Script[t][1] = "destroy" /\ Script[t][2] = e

(* And the one that reported.                                              *)
ReportPast ==
  report # NoReport => \E t \in 1 .. Len(Script) : t < at /\ Script[t][1] = "report"

(* A loop is entered as a whole, and left behind its barrier as a whole.   *)
LoopsTogether ==
  /\ at \in LoopsOf(Programs[program]) =>
       LET L == Script[at][3] IN
         /\ L \subseteq InState("absent") \/ L \cap InState("absent") = {}
         /\ Barrier =>
              \/ L \cap (InState("past") \cup InState("done")) = {}
              \/ L \subseteq InState("past") \cup InState("done")
  /\ ~Barrier => InState("arrived") \cup InState("past") = {}

Inductive == TypeOK /\ LoopsFollowMain /\ DestroyedPast /\ ReportPast /\ OperandsCurrent

(* What main reports is what the loops were to compute: every element was  *)
(* in one chunk of each loop, and no update was lost.                      *)
ResultRight ==
  report # NoReport =>
    \A x \in DOMAIN Programs[program].prints : report.memory[x] = Programs[program].prints[x]

(* The loops implement the indivisible graph in which every chunk depends  *)
(* on all chunks of the earlier loops.                                     *)
ImplementsAtomic ==
  /\ \A n \in DOMAIN Programs : Atomic(n)!Init
  /\ [][\A n \in DOMAIN Programs : [Atomic(n)!Next]_(Atomic(n)!vars)]_vars

(* Somebody can go on: main, which waits only for a loop it has entered,   *)
(* an executor that takes a chunk, reaches the barrier or ends a chunk, or *)
(* all executors at the barrier.                                           *)
GoesOn ==
  \/ Calls("destroy") \/ Calls("report")
  \/ /\ Calls("parallel_for")
     /\ Call[3] \subseteq InState("absent") \/ Call[3] \subseteq InState("done")
  \/ InState("waiting") # {} /\ Cardinality(Running) < Executors
  \/ InState("running") # {}
  \/ Barrier /\ InState("past") # {}
  \/ Cardinality(InState("arrived")) = Executors

(* As long as main has not ended, the executors do not all stand at a      *)
(* barrier that one more chunk would have to reach, and no chunk stands at *)
(* one that the others have left.                                          *)
NoDeadlock == at <= Len(Script) => GoesOn

(* No loop waits for ever, and no executor at a barrier.                   *)
Terminates == <>(at > Len(Script))
=============================================================================
