------------------------ MODULE ParallelFors_proofs ------------------------
(***************************************************************************)
(* For every table of programs whose loops have chunks that do not         *)
(* conflict: that the return of a loop is all the order its chunks and     *)
(* those of the later loops need, and that no egroup is destroyed under    *)
(* its chunks; and that the programs of ParallelPrograms are such,         *)
(* whatever their sizes.                                                   *)
(***************************************************************************)
EXTENDS ParallelFors, ParallelPrograms, SequenceTheorems, FiniteSetTheorems, TLAPS

(* A chunk is in a loop, and in one only.                                  *)
LEMMA LoopOfChunk ==
  ASSUME program \in DOMAIN Programs
  PROVE  /\ LoopsOf(Programs[program]) = {s \in 1 .. Len(Script) : Script[s][1] = "parallel_for"}
         /\ Len(Script) \in Nat
         /\ \A c \in Chunk : \E s \in LoopsOf(Programs[program]) : c \in Script[s][3]
         /\ \A s \in LoopsOf(Programs[program]) : Script[s][3] \subseteq Chunk
         /\ \A s, t \in LoopsOf(Programs[program]) :
              s # t => Script[s][3] \cap Script[t][3] = {}
<1>1. Len(Script) \in Nat
  BY ProgramsAssumption DEF Script
<1>2. LoopsOf(Programs[program]) = {s \in 1 .. Len(Script) : Script[s][1] = "parallel_for"}
  BY DEF LoopsOf, Script
<1>3. UNION {Script[s][3] : s \in LoopsOf(Programs[program])} = Chunk
  BY ProgramsAssumption DEF Script, Chunk, Reads
<1>4. \A s, t \in LoopsOf(Programs[program]) : s # t => Script[s][3] \cap Script[t][3] = {}
  BY ProgramsAssumption DEF Script
<1>5. QED
  BY <1>1, <1>2, <1>3, <1>4

(* A chunk that has been entered and has not ended is of the loop main is  *)
(* in.                                                                     *)
LEMMA InTheLoopOfMain ==
  ASSUME TypeOK, LoopsFollowMain, NEW c \in Chunk, status[c] \notin {"absent", "done"}
  PROVE  at \in LoopsOf(Programs[program]) /\ c \in Script[at][3]
<1>1. PICK s \in LoopsOf(Programs[program]) : c \in Script[s][3]
  BY LoopOfChunk DEF TypeOK
<1>2. s \in Nat /\ at \in Nat
  BY LoopOfChunk DEF TypeOK
<1>3. ~(s < at) /\ ~(s > at)
  BY <1>1 DEF LoopsFollowMain, InState
<1>4. QED
  BY <1>1, <1>2, <1>3

(* Chunks that run are of one loop, so they do not conflict.               *)
LEMMA NoRaceInALoop ==
  ASSUME LoopsConflictFree, TypeOK, LoopsFollowMain
  PROVE  RaceFree
<1> SUFFICES ASSUME NEW c \in Running, NEW d \in Running, c # d
             PROVE  Writes[c] \cap (Reads[d] \cup Writes[d]) = {}
  BY DEF RaceFree
<1>1. at \in LoopsOf(Programs[program]) /\ c \in Script[at][3] /\ d \in Script[at][3]
  BY InTheLoopOfMain DEF Running, InState
<1>2. QED
  BY <1>1 DEF LoopsConflictFree, TypeOK, Script, Reads, Writes

(* In the beginning nothing has been entered or destroyed.                 *)
LEMMA InductiveInit == ASSUME Init PROVE Inductive
<1>1. TypeOK
  BY LoopOfChunk DEF Init, TypeOK, Cell
<1>2. LoopsFollowMain
  <2>1. \A s \in LoopsOf(Programs[program]) : ~(s < at) /\ Script[s][3] \subseteq Chunk
    BY <1>1, LoopOfChunk DEF Init, TypeOK
  <2>2. QED
    BY <2>1 DEF Init, LoopsFollowMain, InState
<1>3. DestroyedPast /\ ReportPast /\ OperandsCurrent
  BY DEF Init, DestroyedPast, ReportPast, OperandsCurrent, Running, InState
<1>4. QED
  BY <1>1, <1>2, <1>3 DEF Inductive

(* The program, and so its script, chunks and cells, stay what they are.   *)
LEMMA SameProgram ==
  ASSUME [Next]_vars
  PROVE  /\ program' = program /\ Script' = Script /\ Chunk' = Chunk
         /\ Cell' = Cell /\ Reads' = Reads /\ Writes' = Writes
<1>1. program' = program
  BY DEF Next, Main, Serve, EnterLoop, LoopReturns, EgroupDestroy, ReportResult,
     Start, ArriveAtBarrier, BarrierOpens, End, vars
<1>2. QED
  BY <1>1 DEF Script, Chunk, Cell, Reads, Writes

(* One step keeps every variable's type.                                   *)
LEMMA TypingStep == ASSUME TypeOK, [Next]_vars PROVE TypeOK'
<1> USE SameProgram DEF TypeOK
<1>l. Len(Script) \in Nat
  BY LoopOfChunk
<1>1. CASE EnterLoop
  BY <1>1 DEF EnterLoop
<1>2. CASE LoopReturns
  BY <1>2, <1>l DEF LoopReturns, Calls
<1>3. CASE EgroupDestroy
  BY <1>3, <1>l DEF EgroupDestroy, Calls
<1>4. CASE ReportResult
  BY <1>4, <1>l DEF ReportResult, Calls
<1>5. ASSUME NEW c \in Chunk, Start(c) PROVE TypeOK'
  BY <1>5 DEF Start
<1>6. ASSUME NEW c \in Chunk, ArriveAtBarrier(c) PROVE TypeOK'
  BY <1>6 DEF ArriveAtBarrier
<1>7. CASE BarrierOpens
  BY <1>7 DEF BarrierOpens
<1>8. ASSUME NEW c \in Chunk, End(c) PROVE TypeOK'
  BY <1>8 DEF End
<1>9. CASE UNCHANGED vars
  BY <1>9 DEF vars
<1>10. QED
  BY <1>1, <1>2, <1>3, <1>4, <1>5, <1>6, <1>7, <1>8, <1>9 DEF Next, Main, Serve

(* Main moves on from a loop that has ended, or from a call that is no     *)
(* loop; a chunk moves on in the loop main is in.                          *)
LEMMA FollowingStep ==
  ASSUME TypeOK, LoopsFollowMain, [Next]_vars PROVE LoopsFollowMain'
<1> SUFFICES ASSUME NEW s \in LoopsOf(Programs[program])
             PROVE  /\ s < at' => Script[s][3] \subseteq InState("done")'
                    /\ s > at' => Script[s][3] \subseteq InState("absent")'
  BY SameProgram DEF LoopsFollowMain
<1>t. /\ at \in Nat /\ s \in Nat /\ Len(Script) \in Nat
      /\ Script[s][3] \subseteq Chunk /\ Script[s][1] = "parallel_for"
      /\ s < at => \A c \in Script[s][3] : status[c] = "done"
      /\ s > at => \A c \in Script[s][3] : status[c] = "absent"
  BY LoopOfChunk DEF TypeOK, LoopsFollowMain, InState
<1> SUFFICES ASSUME NEW c \in Script[s][3]
             PROVE  (s < at' => status'[c] = "done") /\ (s > at' => status'[c] = "absent")
  BY <1>t, SameProgram DEF InState
<1>1. CASE EnterLoop
  <2>1. s # at => Script[s][3] \cap Script[at][3] = {}
    BY <1>1, LoopOfChunk DEF EnterLoop, Calls, Call, TypeOK
  <2>2. QED
    BY <1>1, <1>t, <2>1 DEF EnterLoop, Call
<1>2. CASE LoopReturns
  BY <1>2, <1>t DEF LoopReturns, Call, InState
<1>3. CASE EgroupDestroy
  BY <1>3, <1>t DEF EgroupDestroy, Calls, Call
<1>4. CASE ReportResult
  BY <1>4, <1>t DEF ReportResult, Calls, Call
<1>5. ASSUME NEW d \in Chunk, Start(d) \/ ArriveAtBarrier(d) \/ End(d)
      PROVE  (s < at' => status'[c] = "done") /\ (s > at' => status'[c] = "absent")
  <2>1. /\ status[d] \notin {"absent", "done"}
        /\ at' = at
        /\ \E v : status' = [status EXCEPT ![d] = v]
    BY <1>5 DEF Start, ArriveAtBarrier, End
  <2>2. s # at => d \notin Script[s][3]
    BY <1>t, <2>1
  <2>3. QED
    BY <1>t, <2>1, <2>2 DEF TypeOK
<1>6. CASE BarrierOpens
  BY <1>6, <1>t DEF BarrierOpens, InState
<1>7. CASE UNCHANGED vars
  BY <1>7, <1>t DEF vars
<1>8. \/ EnterLoop \/ LoopReturns \/ EgroupDestroy \/ ReportResult
      \/ \E d \in Chunk : Start(d) \/ ArriveAtBarrier(d) \/ End(d)
      \/ BarrierOpens \/ UNCHANGED vars
  BY DEF Next, Main, Serve
<1>9. QED
  BY <1>1, <1>2, <1>3, <1>4, <1>5, <1>6, <1>7, <1>8

(* Main passes the call that destroys an egroup when it makes it.          *)
LEMMA DestroyedStep ==
  ASSUME TypeOK, DestroyedPast, [Next]_vars PROVE DestroyedPast'
<1> SUFFICES ASSUME NEW e \in destroyed'
             PROVE  \E t \in 1 .. Len(Script) :
                      t < at' /\ Script[t][1] = "destroy" /\ Script[t][2] = e
  BY SameProgram DEF DestroyedPast
<1>t. Len(Script) \in Nat /\ at \in 1 .. Len(Script) + 1
  BY LoopOfChunk DEF TypeOK
<1>1. CASE EgroupDestroy /\ e \notin destroyed
  BY <1>1, <1>t DEF EgroupDestroy, Calls, Call
<1>2. CASE e \in destroyed
  <2>1. at' \in {at, at + 1}
    BY DEF Next, Main, Serve, EnterLoop, LoopReturns, EgroupDestroy, ReportResult,
       Start, ArriveAtBarrier, BarrierOpens, End, vars
  <2>2. QED
    BY <1>2, <1>t, <2>1 DEF DestroyedPast
<1>3. QED
  BY <1>1, <1>2 DEF Next, Main, Serve, EnterLoop, LoopReturns, ReportResult,
     Start, ArriveAtBarrier, BarrierOpens, End, vars

(* Main passes the call that reports when it makes it.                     *)
LEMMA ReportedStep ==
  ASSUME TypeOK, ReportPast, [Next]_vars PROVE ReportPast'
<1>t. Len(Script) \in Nat /\ at \in 1 .. Len(Script) + 1
  BY LoopOfChunk DEF TypeOK
<1>1. CASE ReportResult
  BY <1>1, <1>t, SameProgram DEF ReportResult, Calls, Call, ReportPast
<1>2. CASE UNCHANGED report
  <2>1. at' \in {at, at + 1}
    BY DEF Next, Main, Serve, EnterLoop, LoopReturns, EgroupDestroy, ReportResult,
       Start, ArriveAtBarrier, BarrierOpens, End, vars
  <2>2. QED
    BY <1>2, <1>t, <2>1, SameProgram DEF ReportPast
<1>3. QED
  BY <1>1, <1>2 DEF Next, Main, Serve, EnterLoop, LoopReturns, EgroupDestroy,
     Start, ArriveAtBarrier, BarrierOpens, End, vars

(* A chunk that ends stores nothing that another running chunk has taken.  *)
LEMMA OperandsStep ==
  ASSUME TypeOK, RaceFree, OperandsCurrent, [Next]_vars PROVE OperandsCurrent'
<1> SUFFICES ASSUME NEW c \in Chunk, status'[c] \in {"running", "arrived", "past"}
             PROVE  operands'[c] = [x \in Reads[c] |-> mem'[x]]
  BY SameProgram DEF OperandsCurrent, Running, InState
<1>t. status[c] \in {"running", "arrived", "past"} => operands[c] = [x \in Reads[c] |-> mem[x]]
  BY DEF OperandsCurrent, Running, InState
<1>1. CASE EnterLoop
  BY <1>1, <1>t DEF EnterLoop, TypeOK
<1>2. CASE LoopReturns \/ EgroupDestroy \/ ReportResult \/ UNCHANGED vars
  BY <1>2, <1>t DEF LoopReturns, EgroupDestroy, ReportResult, vars
<1>3. ASSUME NEW d \in Chunk, Start(d) PROVE operands'[c] = [x \in Reads[c] |-> mem'[x]]
  BY <1>3, <1>t DEF Start, TypeOK
<1>4. ASSUME NEW d \in Chunk, ArriveAtBarrier(d)
      PROVE  operands'[c] = [x \in Reads[c] |-> mem'[x]]
  BY <1>4, <1>t DEF ArriveAtBarrier, TypeOK
<1>5. CASE BarrierOpens
  BY <1>5, <1>t DEF BarrierOpens, TypeOK, InState
<1>6. ASSUME NEW d \in Chunk, End(d) PROVE operands'[c] = [x \in Reads[c] |-> mem'[x]]
  <2>1. c # d /\ status[c] \in {"running", "arrived", "past"} /\ d \in Running /\ c \in Running
    BY <1>6 DEF End, TypeOK, Running, InState
  <2>2. Writes[d] \cap Reads[c] = {}
    BY <2>1 DEF RaceFree
  <2>3. Reads[c] \subseteq Cell
    BY ProgramsAssumption DEF TypeOK, Reads, Chunk, Cell
  <2>4. \A x \in Reads[c] : mem'[x] = mem[x]
    BY <1>6, <2>2, <2>3 DEF End
  <2>5. QED
    BY <1>6, <1>t, <2>1, <2>4 DEF End
<1>7. QED
  BY <1>1, <1>2, <1>3, <1>4, <1>5, <1>6 DEF Next, Main, Serve

-----------------------------------------------------------------------------
(* Whatever the programs, main is where its loops are, chunks work on      *)
(* current operands, and only what main has passed is destroyed.           *)
THEOREM Invariance == ASSUME LoopsConflictFree PROVE Spec => []Inductive
<1>1. Init => Inductive
  BY InductiveInit
<1>2. Inductive /\ [Next]_vars => Inductive'
  BY TypingStep, FollowingStep, DestroyedStep, ReportedStep, OperandsStep, NoRaceInALoop DEF Inductive
<1>3. QED
  BY <1>1, <1>2, PTL DEF Spec

(* No two chunks that touch a common cell, one of them writing it, run at  *)
(* the same time, in loops of chunks that do not conflict.                 *)
THEOREM LoopsNoRaces == ASSUME LoopsConflictFree PROVE Spec => []RaceFree
<1>1. Inductive => RaceFree
  BY NoRaceInALoop DEF Inductive
<1>2. QED
  BY <1>1, Invariance, PTL

(* A destroyed egroup has nothing left to run.                             *)
THEOREM EgroupsOutlive ==
  ASSUME LoopsConflictFree, DestroyLast PROVE Spec => []EgroupOutlivesChunks
<1>1. ASSUME Inductive, NEW s \in LoopsOf(Programs[program]), Script[s][2] \in destroyed
      PROVE  Script[s][3] \subseteq InState("done")
  <2>1. PICK t \in 1 .. Len(Script) :
          t < at /\ Script[t][1] = "destroy" /\ Script[t][2] = Script[s][2]
    BY <1>1 DEF Inductive, DestroyedPast
  <2>2. s < t
    BY <1>1, <2>1 DEF Inductive, TypeOK, DestroyLast, Script
  <2>3. s \in Nat /\ t \in Nat /\ at \in Nat
    BY <1>1, LoopOfChunk DEF Inductive, TypeOK
  <2>4. QED
    BY <1>1, <2>1, <2>2, <2>3 DEF Inductive, LoopsFollowMain
<1>2. Inductive => EgroupOutlivesChunks
  BY <1>1 DEF EgroupOutlivesChunks
<1>3. QED
  BY <1>2, Invariance, PTL

-----------------------------------------------------------------------------
(* Every step is a step of the indivisible graph of the program that runs, *)
(* or one that no graph sees.                                              *)
LEMMA StepSimulation ==
  ASSUME ReportedOnce, Inductive, [Next]_vars, NEW n \in DOMAIN Programs
  PROVE  [Atomic(n)!Next]_(Atomic(n)!vars)
<1>1. CASE n # program
  BY <1>1, SameProgram DEF Atomic!vars
<1>2. CASE n = program
  <2> USE <1>2
  <2>v. UNCHANGED <<InState("done"), mem, report>> => UNCHANGED Atomic(n)!vars
    BY SameProgram DEF Atomic!vars
  <2>t. TypeOK
    BY DEF Inductive
  <2>1. CASE EnterLoop \/ LoopReturns \/ EgroupDestroy \/ BarrierOpens \/ UNCHANGED vars
    BY <2>1, <2>v, <2>t, SameProgram DEF EnterLoop, LoopReturns, EgroupDestroy, BarrierOpens,
       vars, InState, TypeOK
  <2>2. ASSUME NEW c \in Chunk, Start(c) \/ ArriveAtBarrier(c)
        PROVE  UNCHANGED Atomic(n)!vars
    BY <2>2, <2>v, <2>t, SameProgram DEF Start, ArriveAtBarrier, InState, TypeOK
  <2>3. ASSUME NEW c \in Chunk, End(c) PROVE Atomic(n)!Run(c)
    <3>1. operands[c] = [x \in Reads[c] |-> mem[x]] /\ status[c] \notin {"absent", "done"}
      BY <2>3 DEF End, Inductive, OperandsCurrent, Running, InState
    <3>2. c \notin InState("done") /\ InState("done")' = InState("done") \cup {c}
      BY <2>3, <2>t, <3>1, SameProgram DEF End, InState, TypeOK
    <3>3. ASSUME NEW d \in Chunk, <<d, c>> \in ProgramOrder(Programs[n])
          PROVE  d \in InState("done")
      <4>1. PICK s \in LoopsOf(Programs[n]), t \in LoopsOf(Programs[n]) :
              s < t /\ d \in Script[s][3] /\ c \in Script[t][3]
        BY <3>3 DEF ProgramOrder, Script
      <4>2. at \in LoopsOf(Programs[n]) /\ c \in Script[at][3]
        BY <3>1, InTheLoopOfMain DEF Inductive
      <4>3. t = at
        BY <4>1, <4>2, <2>t, LoopOfChunk DEF TypeOK
      <4>4. QED
        BY <4>1, <4>3 DEF Inductive, LoopsFollowMain
    <3>4. Atomic(n)!Predecessors(c) \subseteq InState("done")
      BY <3>3 DEF Atomic!Predecessors, Chunk, Reads
    <3>5. mem' = Atomic(n)!Store(c, Atomic(n)!Operands(c, mem), mem)
      BY <2>3, <3>1 DEF End, Atomic!Store, Atomic!Operands, Reads, Writes, Cell
    <3>6. report' = report
      BY <2>3 DEF End
    <3>7. QED
      BY <3>2, <3>4, <3>5, <3>6, SameProgram DEF Atomic!Run
  <2>4. ASSUME ReportResult PROVE Atomic(n)!Finish
    <3>1. at \in 1 .. Len(Script) /\ Script[at][1] = "report"
      BY <2>4, <2>t, LoopOfChunk DEF ReportResult, Calls, Call, TypeOK
    <3>2. /\ \A s \in LoopsOf(Programs[program]) : s < at
          /\ \A u \in 1 .. Len(Script) : Script[u][1] = "report" => u = at
      BY <3>1, <2>t DEF ReportedOnce, TypeOK, Script
    <3>3. InState("done") = Chunk
      BY <3>2, <2>t, LoopOfChunk DEF Inductive, LoopsFollowMain, InState
    <3>4. report = NoReport
      BY <3>1, <3>2 DEF Inductive, ReportPast
    <3>5. report' = Atomic(n)!Report(mem) /\ mem' = mem /\ status' = status
      BY <2>4 DEF ReportResult, Atomic!Report
    <3>6. QED
      BY <3>3, <3>4, <3>5, SameProgram
      DEF Atomic!Finish, Atomic!NoReport, NoReport, InState, Chunk, Reads
  <2>5. QED
    BY <2>1, <2>2, <2>3, <2>4 DEF Next, Main, Serve, Atomic!Next, Chunk, Reads
<1>3. QED
  BY <1>1, <1>2

(* Although chunks overlap, memory and report are those of a run in which  *)
(* each chunk happened at once, after all chunks of the earlier loops.     *)
THEOREM LoopsImplementation ==
  ASSUME LoopsConflictFree, ReportedOnce
  PROVE  Spec => ImplementsAtomic
<1>1. Init => \A n \in DOMAIN Programs : Atomic(n)!Init
  BY DEF Init, Atomic!Init, InState, NoReport, Atomic!NoReport
<1>2. Inductive /\ [Next]_vars
        => [\A n \in DOMAIN Programs : [Atomic(n)!Next]_(Atomic(n)!vars)]_vars
  BY StepSimulation
<1>3. QED
  BY <1>1, <1>2, Invariance, PTL DEF Spec, ImplementsAtomic

-----------------------------------------------------------------------------
(* The loops and their barriers.                                           *)

(* A loop is entered at once, and one that has a barrier is opened at      *)
(* once, since it has as many chunks as the barrier counts.                *)
LEMMA TogetherStep ==
  ASSUME BarriersFit, TypeOK, LoopsFollowMain, LoopsTogether, [Next]_vars
  PROVE  LoopsTogether'
<1> DEFINE L == Script[at][3]
<1>t. /\ at \in Nat /\ Len(Script) \in Nat
      /\ at \in LoopsOf(Programs[program]) => L \subseteq Chunk
  BY LoopOfChunk DEF TypeOK
<1>b. /\ at \in LoopsOf(Programs[program]) /\ Barrier =>
           IsFiniteSet(L) /\ Cardinality(L) = Executors
      /\ Executors \in Nat \ {0}
  BY ProgramsAssumption DEF TypeOK, BarriersFit, Barrier, Executors, Script
<1>s. /\ program' = program /\ Script' = Script /\ Chunk' = Chunk /\ Barrier' = Barrier
      /\ LoopsOf(Programs[program])' = LoopsOf(Programs[program])
  BY SameProgram DEF Barrier
<1>1. ASSUME at' = at + 1, status' = status PROVE LoopsTogether'
  <2>1. at + 1 \in LoopsOf(Programs[program]) => Script[at + 1][3] \subseteq InState("absent")
    BY <1>t DEF LoopsFollowMain
  <2>2. \A v : InState(v)' = InState(v)
    BY <1>1, <1>s DEF InState
  <2>3. InState("absent") \cap (InState("past") \cup InState("done")) = {}
    BY DEF InState
  <2> QED
    BY <1>1, <1>s, <2>1, <2>2, <2>3 DEF LoopsTogether
<1>2. CASE EnterLoop
  <2>1. at \in LoopsOf(Programs[program]) /\ at' = at
    BY <1>2, <1>t, LoopOfChunk DEF EnterLoop, Calls, Call, TypeOK
  <2>2. /\ \A c \in L : status'[c] = "waiting"
        /\ \A c \in Chunk : status'[c] = "waiting" \/ status'[c] = status[c]
    BY <1>2, <1>t, <2>1 DEF EnterLoop, Call
  <2> QED
    BY <1>s, <2>1, <2>2 DEF LoopsTogether, InState
<1>3. CASE LoopReturns \/ EgroupDestroy \/ ReportResult
  BY <1>1, <1>3 DEF LoopReturns, EgroupDestroy, ReportResult
<1>4. ASSUME NEW c \in Chunk, Start(c) \/ ArriveAtBarrier(c) \/ End(c) PROVE LoopsTogether'
  <2>1. /\ at' = at /\ status[c] # "absent" /\ status'[c] # "absent"
        /\ \A d \in Chunk \ {c} : status'[d] = status[d]
        /\ status'[c] \in {"arrived", "past"} => Barrier
        /\ Barrier => (status[c] \in {"past", "done"} <=> status'[c] \in {"past", "done"})
    BY <1>4 DEF Start, ArriveAtBarrier, End, TypeOK
  <2>2. \A d \in Chunk :
          /\ status'[d] = "absent" <=> status[d] = "absent"
          /\ Barrier => (status'[d] \in {"past", "done"} <=> status[d] \in {"past", "done"})
          /\ ~Barrier => (status'[d] \in {"arrived", "past"} => status[d] \in {"arrived", "past"})
    BY <2>1
  <2>3. /\ InState("absent")' = InState("absent")
        /\ Barrier => (InState("past") \cup InState("done"))' = InState("past") \cup InState("done")
        /\ ~Barrier => (InState("arrived") \cup InState("past"))'
                          \subseteq InState("arrived") \cup InState("past")
    BY <1>s, <2>2 DEF InState
  <2> QED
    BY <1>s, <2>1, <2>3 DEF LoopsTogether
<1>5. CASE BarrierOpens
  <2>1. /\ at' = at
        /\ \A c \in Chunk : status'[c] = IF status[c] = "arrived" THEN "past" ELSE status[c]
    BY <1>5 DEF BarrierOpens, InState
  <2>2. PICK c \in Chunk : status[c] = "arrived"
    BY <1>5, <1>b, FS_EmptySet DEF BarrierOpens, InState
  <2>3. Barrier /\ at \in LoopsOf(Programs[program])
    BY <2>2, InTheLoopOfMain DEF LoopsTogether, InState
  <2>4. InState("arrived") \subseteq L
    BY InTheLoopOfMain DEF InState
  <2>5. InState("arrived") = L
    BY <1>5, <1>b, <2>3, <2>4, FS_Subset DEF BarrierOpens
  <2>6. L \subseteq InState("past")' /\ L \cap InState("absent")' = {}
    BY <1>s, <1>t, <2>1, <2>3, <2>5 DEF InState
  <2> QED
    BY <1>s, <2>1, <2>3, <2>6 DEF LoopsTogether
<1>6. CASE UNCHANGED vars
  BY <1>6, <1>s DEF vars, LoopsTogether, InState
<1> QED
  BY <1>2, <1>3, <1>4, <1>5, <1>6 DEF Next, Main, Serve

(* While main waits for a loop a chunk of it is left that can go on: if    *)
(* all that are left stand at the barrier they are the whole loop, and if  *)
(* some have not come there an executor is free to bring one.              *)
LEMMA LoopGoesOn ==
  ASSUME BarriersFit, TypeOK, LoopsFollowMain, LoopsTogether,
         at \in LoopsOf(Programs[program]), ~GoesOn
  PROVE  FALSE
<1> DEFINE L == Script[at][3]
<1>b. /\ Barrier => IsFiniteSet(L) /\ Cardinality(L) = Executors
      /\ Executors \in Nat \ {0} /\ Barrier \in BOOLEAN
  BY ProgramsAssumption DEF TypeOK, BarriersFit, Barrier, Executors, Script
<1>1. at \in 1 .. Len(Script) /\ Script[at][1] = "parallel_for" /\ L \subseteq Chunk
  BY LoopOfChunk DEF TypeOK
<1>2. ~(L \subseteq InState("absent")) /\ ~(L \subseteq InState("done"))
  BY <1>1, LoopOfChunk DEF GoesOn, Calls, Call, TypeOK
<1>3. L \cap InState("absent") = {}
  BY <1>2 DEF LoopsTogether
<1>4. /\ InState("running") = {} /\ InState("past") = {}
      /\ Cardinality(InState("arrived")) # Executors
      /\ InState("waiting") # {} => ~(Cardinality(Running) < Executors)
  BY DEF GoesOn, LoopsTogether
<1>5. Running = InState("arrived")
  BY <1>4 DEF Running
<1>6. InState("arrived") \subseteq L /\ InState("waiting") \subseteq L
  BY InTheLoopOfMain DEF InState
<1>7. CASE Barrier
  <2>1. L \cap InState("done") = {}
    BY <1>2, <1>4, <1>7 DEF LoopsTogether
  <2>2. L = InState("arrived") \cup InState("waiting")
    BY <1>1, <1>3, <1>4, <1>6, <2>1 DEF InState, TypeOK
  <2>3. /\ IsFiniteSet(InState("arrived")) /\ Cardinality(InState("arrived")) <= Executors
        /\ Cardinality(InState("arrived")) \in Nat
    BY <1>b, <1>6, <1>7, FS_Subset, FS_CardinalityType
  <2>4. InState("waiting") # {}
    BY <1>b, <1>4, <1>7, <2>2
  <2> QED
    BY <1>b, <1>4, <1>5, <2>3, <2>4
<1>8. CASE ~Barrier
  <2>1. InState("arrived") = {}
    BY <1>8 DEF LoopsTogether
  <2>2. InState("waiting") # {}
    BY <1>1, <1>2, <1>3, <1>4, <2>1 DEF InState, TypeOK
  <2>3. Cardinality(Running) = 0
    BY <1>5, <2>1, FS_EmptySet
  <2> QED
    BY <1>b, <1>4, <2>2, <2>3
<1> QED
  BY <1>7, <1>8

(* Programs whose barriers fit their loops do not wait for ever, whatever  *)
(* the chunks do.                                                          *)
THEOREM LoopsGoOn == ASSUME BarriersFit PROVE Spec => []NoDeadlock
<1> DEFINE IInv == TypeOK /\ LoopsFollowMain /\ LoopsTogether
<1>1. Init => IInv
  <2> SUFFICES ASSUME Init PROVE IInv
    OBVIOUS
  <2>1. TypeOK /\ LoopsFollowMain
    BY InductiveInit DEF Inductive
  <2>2. \A c \in Chunk : status[c] = "absent"
    BY DEF Init
  <2>3. at \in LoopsOf(Programs[program]) => Script[at][3] \subseteq Chunk
    BY <2>1, LoopOfChunk DEF TypeOK
  <2> QED
    BY <2>1, <2>2, <2>3 DEF LoopsTogether, InState
<1>2. IInv /\ [Next]_vars => IInv'
  BY TypingStep, FollowingStep, TogetherStep
<1>3. IInv => NoDeadlock
  <2> SUFFICES ASSUME IInv, at <= Len(Script), ~GoesOn PROVE FALSE
    BY DEF NoDeadlock
  <2>1. at \in 1 .. Len(Script)
    BY LoopOfChunk DEF TypeOK
  <2>2. Script[at][1] \in {"parallel_for", "destroy", "report"}
    <3>1. /\ Script \in Seq({Script[s] : s \in DOMAIN Script})
          /\ \A s \in DOMAIN Script : Script[s][1] \in {"parallel_for", "destroy", "report"}
      BY ProgramsAssumption DEF TypeOK, Script
    <3>2. DOMAIN Script = 1 .. Len(Script)
      BY <3>1
    <3> QED
      BY <2>1, <3>1, <3>2
  <2>3. Script[at][1] = "parallel_for"
    BY <2>2 DEF GoesOn, Calls, Call
  <2>4. at \in LoopsOf(Programs[program])
    BY <2>1, <2>3, LoopOfChunk DEF TypeOK
  <2> QED
    BY <2>4, LoopGoesOn
<1>4. QED
  BY <1>1, <1>2, <1>3, PTL DEF Spec

-----------------------------------------------------------------------------
(* The programs.  A share of a range is cut as a segment of                *)
(* local_dependency is, of which SGraphTask_proofs shows that every        *)
(* element of the range is in exactly one; the graph, a parameter there,   *)
(* does not matter here.                                                   *)
NoAccess == [c \in {} |-> {}]

Graphs == INSTANCE SGraphTask_proofs
            WITH Node <- {}, Dep <- {}, Cell <- {}, Reads <- NoAccess, Writes <- NoAccess,
                 Eval <- LDEval, InitMem <- NoAccess, Before <- {},
                 MMA_M <- LOOP, MMA_N <- LOOP, MMA_K <- LOOP,
                 MT <- LOOP, NT <- LOOP, KT <- LOOP, N <- N, Ids <- Ids, Loop <- LOOP,
                 Workers <- Workers, pc <- at, status <- status, operands <- operands,
                 mem <- mem, round <- at, report <- report

LEMMA GraphsAssumptions ==
  Graphs!TilesAssumption /\ Graphs!SegmentsAssumption /\ Graphs!GraphAssumption
BY ThreadsAssumption, SegmentsAssumption
DEF Graphs!TilesAssumption, Graphs!SegmentsAssumption, Graphs!GraphAssumption, NoAccess

(* An index is in the share of one thread, and of one only.                *)
LEMMA SharesDisjoint ==
  ASSUME NEW size \in Nat \ {0},
         NEW a \in 0 .. NumThreads - 1, NEW b \in 0 .. NumThreads - 1, a # b
  PROVE  Share(a, size) \cap Share(b, size) = {}
<1>1. ASSUME NEW e \in 0 .. NumThreads - 1, NEW f \in 0 .. NumThreads - 1, e < f
      PROVE  Share(e, size) \cap Share(f, size) = {}
  <2>1. NumThreads \in Nat \ {0} /\ e \in Nat /\ f \in Nat
    BY ThreadsAssumption
  <2>2. ASSUME NEW i \in Nat, i < ((e + 1) * size) \div NumThreads
        PROVE  ~((f * size) \div NumThreads <= i)
    BY <1>1, <2>1, <2>2, GraphsAssumptions, Graphs!PartsDisjoint, Zenon
  <2> QED
    BY <2>2 DEF Share
<1>2. a < b \/ b < a
  OBVIOUS
<1>3. QED
  BY <1>1, <1>2

LEMMA SharesCover ==
  ASSUME NEW size \in Nat \ {0}, NEW i \in 0 .. size - 1
  PROVE  \E t \in 0 .. NumThreads - 1 : i \in Share(t, size)
BY GraphsAssumptions, Graphs!PartsCover, ThreadsAssumption DEF Share

LEMMA IdsDisjoint ==
  ASSUME NEW a \in Id, NEW b \in Id, a # b PROVE Segment(a) \cap Segment(b) = {}
<1>1. Graphs!Segment(a) \cap Graphs!Segment(b) = {}
  BY GraphsAssumptions, Graphs!SegmentsDisjoint DEF Id, Graphs!Id
<1>2. QED
  BY <1>1 DEF Segment, Graphs!Segment, Index, Graphs!Index

LEMMA IdsCover == \A i \in Index : \E id \in Id : i \in Segment(id)
BY GraphsAssumptions, Graphs!SegmentsCover
DEF Segment, Graphs!Segment, Index, Graphs!Index, Id, Graphs!Id

(* The calls of local_dependency: three per test(), and the report.        *)
LEMMA LDCalls ==
  /\ Len(LDScript) = 3 * LOOP + 1
  /\ LDScript[3 * LOOP + 1] = <<"report">>
  /\ \A s \in 1 .. 3 * LOOP :
       LET n == (s - 1) \div 3 IN
         \/ (s - 1) % 3 = 0 /\ LDScript[s] = <<"parallel_for", n, {<<"axb_func", id, n>> : id \in Id}>>
         \/ (s - 1) % 3 = 1 /\ LDScript[s] = <<"parallel_for", n, {<<"d_func", id, n>> : id \in Id}>>
         \/ (s - 1) % 3 = 2 /\ LDScript[s] = <<"destroy", n>>
<1> DEFINE calls == [s \in 1 .. 3 * LOOP |-> TestScript((s - 1) \div 3)[((s - 1) % 3) + 1]]
<1>1. 3 * LOOP \in Nat
  BY ThreadsAssumption
<1>2. LDScript = calls \o << <<"report">> >>
  BY DEF LDScript
<1>3. \A s \in 1 .. 3 * LOOP : calls[s] = TestScript((s - 1) \div 3)[((s - 1) % 3) + 1]
  OBVIOUS
<1>4. /\ Len(LDScript) = 3 * LOOP + 1 /\ LDScript[3 * LOOP + 1] = <<"report">>
      /\ \A s \in 1 .. 3 * LOOP : LDScript[s] = calls[s]
  <2> DEFINE all == {calls[s] : s \in 1 .. 3 * LOOP} \cup {<<"report">>}
             length == 3 * LOOP
  <2>1. calls \in [1 .. length -> all]
    OBVIOUS
  <2>2. <<"report">> \in all
    OBVIOUS
  <2> HIDE DEF calls, all, length
  <2>3. calls \in Seq(all) /\ Len(calls) = length
    BY <1>1, <2>1 DEF length
  <2>4. << <<"report">> >> \in Seq(all) /\ Len(<< <<"report">> >>) = 1
    BY <2>2
  <2>5. QED
    BY <1>1, <1>2, <2>3, <2>4, ConcatProperties DEF length
<1>5. ASSUME NEW s \in 1 .. 3 * LOOP
      PROVE  /\ LDScript[s] = TestScript((s - 1) \div 3)[((s - 1) % 3) + 1]
             /\ (s - 1) % 3 \in {0, 1, 2}
  <2>1. LDScript[s] = TestScript((s - 1) \div 3)[((s - 1) % 3) + 1]
    <3> HIDE DEF calls
    <3>1. QED
      BY <1>3, <1>4, Zenon
  <2>2. s - 1 \in Int
    BY <1>1
  <2>3. (s - 1) % 3 \in {0, 1, 2}
    BY <2>2
  <2>4. QED
    BY <2>1, <2>3
<1>6. ASSUME NEW n
      PROVE  /\ TestScript(n)[0 + 1] = <<"parallel_for", n, {<<"axb_func", id, n>> : id \in Id}>>
             /\ TestScript(n)[1 + 1] = <<"parallel_for", n, {<<"d_func", id, n>> : id \in Id}>>
             /\ TestScript(n)[2 + 1] = <<"destroy", n>>
  BY DEF TestScript
<1>7. QED
  BY <1>4, <1>5, <1>6

(* The loops of test() are those calls that are no destroy.                *)
LEMMA LDLoops ==
  ASSUME NEW s \in 1 .. Len(LDScript), LDScript[s][1] = "parallel_for"
  PROVE  /\ s \in 1 .. 3 * LOOP
         /\ LDScript[s][2] = (s - 1) \div 3
         /\ (s - 1) \div 3 \in 0 .. LOOP - 1
         /\ (s - 1) % 3 \in {0, 1}
         /\ \E f \in {"axb_func", "d_func"} :
              LDScript[s][3] = {<<f, id, (s - 1) \div 3>> : id \in Id}
<1>1. LOOP \in Nat \ {0}
  BY ThreadsAssumption
<1>2. s \in 1 .. 3 * LOOP
  BY <1>1, LDCalls
<1>3. (s - 1) \div 3 \in 0 .. LOOP - 1
  BY <1>1, <1>2
<1>4. CASE (s - 1) % 3 = 0
  BY <1>2, <1>3, <1>4, LDCalls
<1>5. CASE (s - 1) % 3 = 1
  BY <1>2, <1>3, <1>5, LDCalls
<1>6. CASE (s - 1) % 3 = 2
  BY <1>2, <1>6, LDCalls
<1>7. QED
  BY <1>2, <1>4, <1>5, <1>6, LDCalls

LEMMA ProgramsConflictFree == ASSUME Programs = ParallelPrograms PROVE LoopsConflictFree
<1> SUFFICES ASSUME NEW n \in DOMAIN ParallelPrograms, NEW p, p = ParallelPrograms[n],
                    NEW s \in LoopsOf(p), NEW c \in p.script[s][3], NEW d \in p.script[s][3],
                    c # d
             PROVE  p.writes[c] \cap (p.reads[d] \cup p.writes[d]) = {}
  BY DEF LoopsConflictFree
<1>1. CASE n = "local_dependency"
  <2>1. p.script = LDScript /\ p.reads = LDAccess /\ p.writes = LDAccess
    BY <1>1 DEF ParallelPrograms
  <2>2. s \in 1 .. Len(LDScript) /\ LDScript[s][1] = "parallel_for"
    BY <2>1 DEF LoopsOf
  <2>3. PICK f \in {"axb_func", "d_func"}, m \in 0 .. LOOP - 1 :
          LDScript[s][3] = {<<f, id, m>> : id \in Id}
    BY <2>2, LDLoops
  <2>4. PICK a \in Id, b \in Id : c = <<f, a, m>> /\ d = <<f, b, m>>
    BY <2>1, <2>3
  <2>5. LDAccess[c] = Segment(a) /\ LDAccess[d] = Segment(b)
    BY <2>4 DEF LDAccess
  <2>6. QED
    BY <2>1, <2>4, <2>5, IdsDisjoint
<1>2. CASE n = "parallel"
  <2>1. /\ p.script = ParallelScript /\ p.reads = ParallelAccess /\ p.writes = ParallelAccess
    BY <1>2 DEF ParallelPrograms
  <2>2. c \in Chunks("barrier", RangeUpper)
    BY <2>1 DEF LoopsOf, ParallelScript
  <2>3. QED
    BY <2>1, <2>2 DEF ParallelAccess
<1>3. CASE n = "parallel_for_1d"
  <2>1. p.script = Script1D /\ p.reads = NoReads(Writes1D) /\ p.writes = Writes1D
    BY <1>3 DEF ParallelPrograms
  <2>2. c \in Chunks1D /\ d \in Chunks1D
    BY <2>1 DEF LoopsOf, Script1D
  <2>3. PICK t \in 0 .. NumThreads - 1, u \in 0 .. NumThreads - 1 : c = <<"1d", t>> /\ d = <<"1d", u>>
    BY <2>2 DEF Chunks1D, Chunks
  <2>4. Writes1D[c] = Share(t, Upper1D) /\ Writes1D[d] = Share(u, Upper1D)
    BY <2>2, <2>3 DEF Writes1D
  <2>5. NoReads(Writes1D)[d] = {}
    BY <2>2 DEF NoReads, Writes1D
  <2>6. QED
    BY <2>1, <2>3, <2>4, <2>5, SharesDisjoint DEF Upper1D
<1>4. CASE n = "parallel_for_3d"
  <2>1. p.script = Script3D /\ p.reads = NoReads(Writes3D) /\ p.writes = Writes3D
    BY <1>4 DEF ParallelPrograms
  <2>2. c \in Chunks3D /\ d \in Chunks3D
    BY <2>1 DEF LoopsOf, Script3D
  <2>3. PICK t \in 0 .. NumThreads - 1, u \in 0 .. NumThreads - 1 : c = <<"3d", t>> /\ d = <<"3d", u>>
    BY <2>2 DEF Chunks3D, Chunks
  <2>4. Writes3D[c] = Box(t) /\ Writes3D[d] = Box(u)
    BY <2>2, <2>3 DEF Writes3D
  <2>5. NoReads(Writes3D)[d] = {}
    BY <2>2 DEF NoReads, Writes3D
  <2>6. Share(t, HEIGHT) \cap Share(u, HEIGHT) = {}
    BY <2>3, SharesDisjoint, ThreadsAssumption
  <2>7. NdRange(t)[2] = Share(t, HEIGHT) /\ NdRange(u)[2] = Share(u, HEIGHT)
    BY DEF NdRange
  <2>8. Box(t) \cap Box(u) = {}
    BY <2>6, <2>7 DEF Box
  <2>9. QED
    BY <2>1, <2>4, <2>5, <2>8
<1>5. QED
  BY <1>1, <1>2, <1>3, <1>4 DEF ParallelPrograms

LEMMA ProgramsInOrder ==
  ASSUME Programs = ParallelPrograms PROVE DestroyLast /\ ReportedOnce
<1> SUFFICES ASSUME NEW n \in DOMAIN ParallelPrograms, NEW p, p = ParallelPrograms[n],
                    NEW t \in 1 .. Len(p.script)
             PROVE  /\ \A s \in LoopsOf(p) :
                         p.script[t][1] = "destroy" /\ p.script[t][2] = p.script[s][2] => s < t
                    /\ p.script[t][1] = "report" =>
                         /\ \A s \in LoopsOf(p) : s < t
                         /\ \A u \in 1 .. Len(p.script) : p.script[u][1] = "report" => u = t
  BY DEF DestroyLast, ReportedOnce
<1>1. CASE n = "local_dependency"
  <2>1. p.script = LDScript
    BY <1>1 DEF ParallelPrograms
  <2>2. LOOP \in Nat \ {0} /\ t \in 1 .. 3 * LOOP + 1
    BY <2>1, ThreadsAssumption, LDCalls
  <2>3. ASSUME NEW s \in LoopsOf(p), LDScript[t][1] = "destroy", LDScript[t][2] = LDScript[s][2]
        PROVE  s < t
    <3>1. t \in 1 .. 3 * LOOP
      BY <2>2, <2>3, LDCalls
    <3>2. (t - 1) % 3 = 2 /\ LDScript[t][2] = (t - 1) \div 3
      BY <2>3, <3>1, LDCalls
    <3>3. s \in 1 .. 3 * LOOP /\ LDScript[s][2] = (s - 1) \div 3 /\ (s - 1) % 3 \in {0, 1}
      BY <2>1, LDLoops DEF LoopsOf
    <3>4. (t - 1) \div 3 = (s - 1) \div 3 /\ s \in Nat /\ t \in Nat
      <4>1. (t - 1) \div 3 = (s - 1) \div 3
        BY <2>3, <3>2, <3>3, Zenon
      <4>2. s \in Nat /\ t \in Nat
        BY <2>2, <3>1, <3>3
      <4>3. QED
        BY <4>1, <4>2
    <3>5. t - 1 = 3 * ((t - 1) \div 3) + 2
      BY <3>2, <3>4
    <3>6. s - 1 <= 3 * ((s - 1) \div 3) + 1
      BY <3>3, <3>4
    <3>7. (s - 1) \div 3 \in Int
      BY <3>4
    <3>8. QED
      BY <3>4, <3>5, <3>6, <3>7
  <2>4. ASSUME NEW u \in 1 .. Len(LDScript), LDScript[u][1] = "report"
        PROVE  u = 3 * LOOP + 1
    <3>1. u \in 1 .. 3 * LOOP => LDScript[u][1] # "report"
      BY LDCalls
    <3>2. QED
      BY <2>2, <2>4, <3>1, LDCalls
  <2>5. \A s \in LoopsOf(p) : s \in 1 .. 3 * LOOP
    BY <2>1, LDLoops DEF LoopsOf
  <2>6. QED
    BY <2>1, <2>2, <2>3, <2>4, <2>5
<1>2. CASE n = "parallel"
  <2>1. p.script = ParallelScript
    BY <1>2 DEF ParallelPrograms
  <2>2. /\ Len(p.script) = 2 /\ p.script[1][1] = "parallel_for"
        /\ p.script[2][1] = "destroy"
    BY <2>1 DEF ParallelScript
  <2>3. LoopsOf(p) = {1}
    BY <2>2 DEF LoopsOf
  <2>4. QED
    BY <2>2, <2>3
<1>3. CASE n = "parallel_for_1d"
  <2>1. p.script = Script1D
    BY <1>3 DEF ParallelPrograms
  <2>2. /\ Len(p.script) = 3 /\ p.script[1][1] = "parallel_for"
        /\ p.script[2][1] = "report" /\ p.script[3][1] = "destroy"
    BY <2>1 DEF Script1D
  <2>3. LoopsOf(p) = {1}
    BY <2>2 DEF LoopsOf
  <2>4. QED
    BY <2>2, <2>3
<1>4. CASE n = "parallel_for_3d"
  <2>1. p.script = Script3D
    BY <1>4 DEF ParallelPrograms
  <2>2. /\ Len(p.script) = 3 /\ p.script[1][1] = "parallel_for"
        /\ p.script[2][1] = "report" /\ p.script[3][1] = "destroy"
    BY <2>1 DEF Script3D
  <2>3. LoopsOf(p) = {1}
    BY <2>2 DEF LoopsOf
  <2>4. QED
    BY <2>2, <2>3
<1>5. QED
  BY <1>1, <1>2, <1>3, <1>4 DEF ParallelPrograms

-----------------------------------------------------------------------------
(* What the chunks that have ended have stored.                            *)

(* The call of test() main is in, and how often f has ended on a segment,  *)
(* the earlier calls of test() included.                                   *)
Test == (at - 1) \div 3

EndedOf(f, id) ==
  Test + (IF at <= 3 * LOOP /\ status[<<f, id, Test>>] = "done" THEN 1 ELSE 0)

LDComputed ==
  program = "local_dependency" /\ at <= 3 * LOOP + 1 =>
    \A id \in Id : \A i \in Segment(id) :
      mem[i] = EndedOf("axb_func", id) * (i * i) + EndedOf("d_func", id) * ((N - i) * (N - i))

SharesComputed ==
  program \in {"parallel_for_1d", "parallel_for_3d"} =>
    \A c \in InState("done") : \A x \in Writes[c] : mem[x] = Programs[program].prints[x]

(* What is what in local_dependency.                                       *)
LEMMA LDProgram ==
  ASSUME Programs = ParallelPrograms, TypeOK, program = "local_dependency"
  PROVE  /\ Script = LDScript /\ Len(Script) = 3 * LOOP + 1 /\ Barrier = FALSE
         /\ Chunk = {"axb_func", "d_func"} \X Id \X (0 .. LOOP - 1)
         /\ Cell = Index
         /\ Reads = LDAccess /\ Writes = LDAccess
         /\ \A c \in Chunk : LDAccess[c] = Segment(c[2])
         /\ at \in Nat /\ Test \in Nat /\ LOOP \in Nat \ {0}
         /\ at <= 3 * LOOP => Test \in 0 .. LOOP - 1
<1>1. ParallelPrograms[program] =
        [script |-> LDScript, executors |-> Workers, barrier |-> FALSE,
         reads |-> LDAccess, writes |-> LDAccess, init |-> LDInitMem,
         prints |-> [i \in Index |-> LOOP * Expected(i)]]
  BY DEF ParallelPrograms
<1>2. /\ Script = LDScript /\ Barrier = FALSE /\ Reads = LDAccess /\ Writes = LDAccess
      /\ Cell = DOMAIN LDInitMem
  BY <1>1 DEF Script, Barrier, Reads, Writes, Cell
<1>3. Cell = Index
  BY <1>2 DEF LDInitMem, LDCell
<1>4. /\ Chunk = {"axb_func", "d_func"} \X Id \X (0 .. LOOP - 1)
      /\ \A c \in Chunk : LDAccess[c] = Segment(c[2])
  BY <1>2 DEF Chunk, LDAccess
<1>5. LOOP \in Nat \ {0} /\ at \in 1 .. 3 * LOOP + 2
  <2>1. LOOP \in Nat \ {0}
    BY ThreadsAssumption
  <2>2. at \in 1 .. Len(Script) + 1
    BY DEF TypeOK
  <2> QED
    BY <1>2, <2>1, <2>2, LDCalls
<1>6. at \in Nat /\ Test \in Nat /\ (at <= 3 * LOOP => Test \in 0 .. LOOP - 1)
  BY <1>5 DEF Test
<1> QED
  BY <1>2, <1>3, <1>4, <1>5, <1>6, LDCalls

(* When main destroys an egroup of local_dependency both functions have    *)
(* ended on every segment in this call of test(), and neither has in the   *)
(* next.                                                                   *)
LEMMA LDTestEnds ==
  ASSUME Programs = ParallelPrograms, Inductive, program = "local_dependency",
         Calls("destroy"), NEW f \in {"axb_func", "d_func"}, NEW id \in Id
  PROVE  /\ at = 3 * Test + 3 /\ at <= 3 * LOOP
         /\ status[<<f, id, Test>>] = "done"
         /\ at + 1 <= 3 * LOOP => status[<<f, id, Test + 1>>] # "done"
<1> DEFINE n == Test
<1>0. TypeOK /\ LoopsFollowMain
  BY DEF Inductive
<1>1. /\ Script = LDScript /\ at \in Nat /\ n \in Nat /\ LOOP \in Nat \ {0} /\ at >= 1
      /\ at <= Len(LDScript) /\ LDScript[at][1] = "destroy"
      /\ Chunk = {"axb_func", "d_func"} \X Id \X (0 .. LOOP - 1)
  <2>1. /\ Script = LDScript /\ at \in Nat /\ n \in Nat /\ LOOP \in Nat \ {0}
        /\ Chunk = {"axb_func", "d_func"} \X Id \X (0 .. LOOP - 1)
    <3> HIDE DEF n
    <3> QED
      BY <1>0, LDProgram DEF n
  <2>2. at <= Len(LDScript) /\ LDScript[at][1] = "destroy"
    BY <2>1, Zenon DEF Calls, Call
  <2>3. at \in 1 .. Len(Script) + 1 /\ Len(Script) \in Nat
    BY <1>0, LoopOfChunk DEF TypeOK
  <2>4. at >= 1
    BY <2>3
  <2> QED
    BY <2>1, <2>2, <2>4
<1>2. at \in 1 .. 3 * LOOP
  BY <1>1, LDCalls
<1>3. (at - 1) % 3 = 2
  BY <1>1, <1>2, LDCalls
<1>4. at = 3 * n + 3 /\ n <= LOOP - 1
  BY <1>1, <1>2, <1>3 DEF Test
<1> HIDE DEF n
<1> DEFINE offset == IF f = "axb_func" THEN 0 ELSE 1
<1>5. offset \in {0, 1}
  OBVIOUS
<1>6. ASSUME NEW m \in Nat, m <= LOOP - 1
      PROVE  /\ 3 * m + offset + 1 \in LoopsOf(Programs[program])
             /\ LDScript[3 * m + offset + 1][3] = {<<f, j, m>> : j \in Id}
  <2> DEFINE s == 3 * m + offset + 1
  <2>1. s \in 1 .. 3 * LOOP /\ (s - 1) \div 3 = m /\ (s - 1) % 3 = offset
    <3> HIDE DEF offset
    <3> QED
      BY <1>1, <1>5, <1>6
  <2> HIDE DEF s
  <2>2. LDScript[s] = <<"parallel_for", m, {<<f, j, m>> : j \in Id}>>
    <3>1. CASE f = "axb_func"
      BY <2>1, <3>1, LDCalls
    <3>2. CASE f = "d_func"
      BY <2>1, <3>2, LDCalls
    <3> QED
      BY <3>1, <3>2
  <2>3. s \in 1 .. Len(LDScript)
    BY <1>1, <2>1, LDCalls
  <2>4. s \in LoopsOf(Programs[program])
    BY <1>0, <1>1, <2>2, <2>3, LoopOfChunk DEF TypeOK
  <2> QED
    BY <2>2, <2>4 DEF s
<1>7. status[<<f, id, n>>] = "done"
  <2>1. 3 * n + offset + 1 < at
    BY <1>1, <1>4, <1>5
  <2>2. <<f, id, n>> \in LDScript[3 * n + offset + 1][3]
    BY <1>1, <1>4, <1>6
  <2> QED
    BY <1>0, <1>1, <1>4, <1>6, <2>1, <2>2 DEF LoopsFollowMain, InState
<1>8. at + 1 <= 3 * LOOP => status[<<f, id, n + 1>>] # "done"
  <2> SUFFICES ASSUME at + 1 <= 3 * LOOP PROVE status[<<f, id, n + 1>>] # "done"
    OBVIOUS
  <2>1. n + 1 \in Nat /\ n + 1 <= LOOP - 1 /\ 3 * (n + 1) + offset + 1 > at
    BY <1>1, <1>4, <1>5
  <2>2. <<f, id, n + 1>> \in LDScript[3 * (n + 1) + offset + 1][3]
    BY <1>6, <2>1
  <2> QED
    BY <1>0, <1>1, <1>6, <2>1, <2>2 DEF LoopsFollowMain, InState
<1> QED
  BY <1>2, <1>4, <1>7, <1>8 DEF n

(* Main and the start of a chunk leave the sums as they are; the number of *)
(* calls of test() that are through is counted at the destroy.             *)
LEMMA LDOtherStep ==
  ASSUME Programs = ParallelPrograms, Inductive, LDComputed, [Next]_vars,
         program = "local_dependency", mem' = mem,
         \A c \in Chunk : (status'[c] = "done") = (status[c] = "done")
  PROVE  LDComputed'
<1>1. /\ Script = LDScript /\ Len(Script) = 3 * LOOP + 1 /\ at \in Nat /\ Test \in Nat
      /\ LOOP \in Nat \ {0} /\ program' = program
      /\ Chunk = {"axb_func", "d_func"} \X Id \X (0 .. LOOP - 1)
      /\ at <= 3 * LOOP => Test \in 0 .. LOOP - 1
  BY LDProgram, SameProgram DEF Inductive
<1> SUFFICES ASSUME at' <= 3 * LOOP + 1,
                    NEW f \in {"axb_func", "d_func"}, NEW id \in Id
             PROVE  at <= 3 * LOOP + 1 /\ EndedOf(f, id)' = EndedOf(f, id)
  BY <1>1 DEF LDComputed
<1>2. CASE at' = at
  <2>1. Test' = Test
    BY <1>2 DEF Test
  <2>2. at <= 3 * LOOP => <<f, id, Test>> \in Chunk
    BY <1>1
  <2> QED
    BY <1>2, <2>1, <2>2 DEF EndedOf
<1>3. CASE LoopReturns
  <2>1. at \in 1 .. Len(LDScript) /\ LDScript[at][1] = "parallel_for" /\ at' = at + 1
    BY <1>1, <1>3 DEF LoopReturns, Calls, Call, Inductive, TypeOK
  <2>2. at \in 1 .. 3 * LOOP /\ (at - 1) % 3 \in {0, 1}
    BY <2>1, LDLoops
  <2>3. Test' = Test /\ at + 1 <= 3 * LOOP
    <3>1. CASE (at - 1) % 3 = 0
      <4>1. at - 1 = 3 * ((at - 1) \div 3) /\ at <= 3 * LOOP
        BY <1>1, <2>2, <3>1
      <4>2. at = 3 * Test + 1 /\ at + 1 <= 3 * LOOP
        BY <1>1, <4>1 DEF Test
      <4>3. Test' = at \div 3
        BY <1>1, <2>1 DEF Test
      <4> QED
        BY <1>1, <4>2, <4>3
    <3>2. CASE (at - 1) % 3 = 1
      <4>1. at - 1 = 3 * ((at - 1) \div 3) + 1 /\ at <= 3 * LOOP
        BY <1>1, <2>2, <3>2
      <4>2. at = 3 * Test + 2 /\ at + 1 <= 3 * LOOP
        BY <1>1, <4>1 DEF Test
      <4>3. Test' = at \div 3
        BY <1>1, <2>1 DEF Test
      <4> QED
        BY <1>1, <4>2, <4>3
    <3> QED
      BY <2>2, <3>1, <3>2
  <2>4. at <= 3 * LOOP /\ at' <= 3 * LOOP
    BY <1>1, <2>1, <2>2, <2>3
  <2>5. status' = status
    BY <1>3 DEF LoopReturns
  <2> QED
    BY <1>1, <2>3, <2>4, <2>5 DEF EndedOf
<1>4. CASE EgroupDestroy
  <2>1. /\ at = 3 * Test + 3 /\ at <= 3 * LOOP /\ at' = at + 1 /\ status' = status
        /\ status[<<f, id, Test>>] = "done"
        /\ at + 1 <= 3 * LOOP => status[<<f, id, Test + 1>>] # "done"
    BY <1>4, LDTestEnds DEF EgroupDestroy
  <2>2. Test' = Test + 1
    <3>1. Test' = (3 * Test + 3) \div 3
      BY <1>1, <2>1 DEF Test
    <3> QED
      BY <1>1, <3>1
  <2> QED
    BY <1>1, <2>1, <2>2 DEF EndedOf
<1>5. CASE ReportResult
  <2>1. at \in 1 .. Len(LDScript) /\ LDScript[at][1] = "report" /\ at' = at + 1
    BY <1>1, <1>5 DEF ReportResult, Calls, Call, Inductive, TypeOK
  <2>2. at \in 1 .. 3 * LOOP => LDScript[at][1] # "report"
    BY LDCalls
  <2> QED
    BY <1>1, <2>1, <2>2
<1>6. at' = at \/ LoopReturns \/ EgroupDestroy \/ ReportResult
  BY DEF Next, Main, Serve, EnterLoop, Start, ArriveAtBarrier, BarrierOpens, End, vars
<1> QED
  BY <1>2, <1>3, <1>4, <1>5, <1>6

(* A chunk that ends adds its term to every element of its segment.        *)
LEMMA LDEndStep ==
  ASSUME Programs = ParallelPrograms, \A x, in : Eval(x, in) = ChunkEval(x, in),
         Inductive, LDComputed, program = "local_dependency", NEW c \in Chunk, End(c)
  PROVE  LDComputed'
<1> USE SegmentsAssumption
<1>0. TypeOK /\ LoopsFollowMain /\ OperandsCurrent
  BY DEF Inductive
<1>1. /\ Script = LDScript /\ Cell = Index /\ Barrier = FALSE
      /\ Reads = LDAccess /\ Writes = LDAccess /\ \A d \in Chunk : LDAccess[d] = Segment(d[2])
      /\ at \in Nat /\ Test \in Nat /\ LOOP \in Nat \ {0}
      /\ Chunk = {"axb_func", "d_func"} \X Id \X (0 .. LOOP - 1)
  BY <1>0, LDProgram
<1>2. /\ status[c] = "running" /\ status' = [status EXCEPT ![c] = "done"]
      /\ mem' = [x \in Index |-> IF x \in Segment(c[2]) THEN ChunkEval(c, operands[c])[x] ELSE mem[x]]
      /\ at' = at /\ Test' = Test /\ program' = program
  BY <1>1 DEF End, Test
<1>3. operands[c] = [x \in Segment(c[2]) |-> mem[x]]
  BY <1>0, <1>1, <1>2 DEF OperandsCurrent, Running, InState
<1>4. at \in LoopsOf(Programs[program]) /\ c \in Script[at][3]
  BY <1>0, <1>2, InTheLoopOfMain
<1>5. at \in 1 .. Len(LDScript) /\ LDScript[at][1] = "parallel_for"
  BY <1>0, <1>1, <1>4, LoopOfChunk DEF TypeOK
<1>6. PICK f \in {"axb_func", "d_func"} :
        at \in 1 .. 3 * LOOP /\ Test \in 0 .. LOOP - 1
          /\ LDScript[at][3] = {<<f, j, Test>> : j \in Id}
  BY <1>5, LDLoops DEF Test
<1>7. PICK a \in Id : c = <<f, a, Test>>
  BY <1>1, <1>4, <1>6
<1> SUFFICES ASSUME NEW id \in Id, NEW i \in Segment(id)
             PROVE  mem'[i] = EndedOf("axb_func", id)' * (i * i)
                                + EndedOf("d_func", id)' * ((N - i) * (N - i))
  BY DEF LDComputed
<1>8. mem[i] = EndedOf("axb_func", id) * (i * i) + EndedOf("d_func", id) * ((N - i) * (N - i))
  BY <1>1, <1>6 DEF LDComputed
<1>9. i \in Index /\ i \in Nat /\ N - i \in Int
  BY DEF Segment, Index
<1> DEFINE p == i * i
           q == (N - i) * (N - i)
           u == EndedOf("axb_func", id)
           v == EndedOf("d_func", id)
<1>10. p \in Int /\ q \in Int /\ u \in Int /\ v \in Int /\ mem[i] = u * p + v * q
  BY <1>1, <1>8, <1>9 DEF EndedOf
<1>11. /\ <<"axb_func", id, Test>> \in Chunk /\ <<"d_func", id, Test>> \in Chunk
       /\ status \in [Chunk -> {"absent", "waiting", "running", "arrived", "past", "done"}]
  BY <1>0, <1>1, <1>6 DEF TypeOK
<1>12. CASE a # id
  <2>1. i \notin Segment(a)
    BY <1>12, IdsDisjoint
  <2>2. mem'[i] = mem[i]
    BY <1>2, <1>7, <1>9, <2>1
  <2>3. u' = u /\ v' = v
    BY <1>2, <1>7, <1>11, <1>12 DEF EndedOf
  <2> QED
    BY <1>8, <2>2, <2>3
<1>13. CASE a = id /\ f = "axb_func"
  <2>1. ChunkEval(c, operands[c])[i] = mem[i] + i * (i * 1)
    BY <1>3, <1>7, <1>13 DEF ChunkEval, LDEval
  <2>2. mem'[i] = mem[i] + p
    BY <1>2, <1>7, <1>9, <1>13, <2>1
  <2>3. u' = u + 1 /\ v' = v
    BY <1>1, <1>2, <1>6, <1>7, <1>11, <1>13 DEF EndedOf
  <2> HIDE DEF p, q, u, v
  <2>4. mem'[i] = u' * p + v' * q
    BY <1>10, <2>2, <2>3
  <2> QED
    BY <2>4 DEF p, q, u, v
<1>14. CASE a = id /\ f = "d_func"
  <2>1. ChunkEval(c, operands[c])[i] = mem[i] + (N - i) * (N - i)
    BY <1>3, <1>7, <1>14 DEF ChunkEval, LDEval
  <2>2. mem'[i] = mem[i] + q
    BY <1>2, <1>7, <1>9, <1>14, <2>1
  <2>3. u' = u /\ v' = v + 1
    BY <1>1, <1>2, <1>6, <1>7, <1>11, <1>14 DEF EndedOf
  <2> HIDE DEF p, q, u, v
  <2>4. mem'[i] = u' * p + v' * q
    BY <1>10, <2>2, <2>3
  <2> QED
    BY <2>4 DEF p, q, u, v
<1> QED
  BY <1>12, <1>13, <1>14

(* The programs with one loop of shares: what a chunk stores is printed,   *)
(* and every cell is one chunk's.                                          *)
LEMMA SharesProgram ==
  ASSUME Programs = ParallelPrograms, program \in {"parallel_for_1d", "parallel_for_3d"}
  PROVE  /\ Len(Script) = 3 /\ Script[1][1] = "parallel_for" /\ Script[1][3] = Chunk
         /\ Script[2][1] = "report" /\ Script[3][1] = "destroy"
         /\ \A c \in Chunk : Writes[c] \subseteq Cell
         /\ \A c \in Chunk : \A in : \A x \in Writes[c] :
              ChunkEval(c, in)[x] = Programs[program].prints[x]
         /\ \A x \in DOMAIN Programs[program].prints : \E c \in Chunk : x \in Writes[c]
<1> DEFINE prints == Programs[program].prints
<1>1. CASE program = "parallel_for_1d"
  <2>1. Programs[program] =
          [script |-> Script1D, executors |-> NumThreads, barrier |-> FALSE,
           reads |-> NoReads(Writes1D), writes |-> Writes1D, init |-> Init1D,
           prints |-> [i \in DOMAIN Init1D |-> A1D[i + 1] + B1D[i + 1]]]
    BY <1>1 DEF ParallelPrograms
  <2>2. /\ Script = Script1D /\ Chunk = Chunks1D /\ Writes = Writes1D
        /\ Cell = 0 .. Upper1D - 1
        /\ prints = [i \in 0 .. Upper1D - 1 |-> A1D[i + 1] + B1D[i + 1]]
    BY <2>1 DEF Script, Chunk, Reads, Writes, Cell, NoReads, Writes1D, Init1D
  <2>3. ASSUME NEW c \in Chunk
        PROVE  /\ c[1] = "1d" /\ Writes[c] = Share(c[2], Upper1D)
               /\ Writes[c] \subseteq 0 .. Upper1D - 1
    BY <2>2, <2>3 DEF Chunks1D, Chunks, Writes1D, Share
  <2>4. ASSUME NEW c \in Chunk, NEW in, NEW x \in Writes[c]
        PROVE  ChunkEval(c, in)[x] = prints[x]
    <3>1. ChunkEval(c, in) = Eval1D(c)
      BY <2>3 DEF ChunkEval
    <3> QED
      BY <2>2, <2>3, <3>1 DEF Eval1D
  <2>5. ASSUME NEW x \in 0 .. Upper1D - 1 PROVE \E c \in Chunk : x \in Writes[c]
    <3>1. PICK t \in 0 .. NumThreads - 1 : x \in Share(t, Upper1D)
      BY SharesCover DEF Upper1D
    <3>2. <<"1d", t>> \in Chunk
      BY <2>2, <3>1 DEF Chunks1D, Chunks
    <3> QED
      BY <2>3, <3>1, <3>2
  <2> QED
    BY <2>2, <2>3, <2>4, <2>5 DEF Script1D
<1>2. CASE program = "parallel_for_3d"
  <2> DEFINE box == (0 .. HEIGHT - 1) \X (0 .. LENGTH - 1) \X (0 .. WIDTH - 1)
  <2>1. Programs[program] =
          [script |-> Script3D, executors |-> NumThreads, barrier |-> FALSE,
           reads |-> NoReads(Writes3D), writes |-> Writes3D, init |-> Init3D,
           prints |-> [x \in DOMAIN Init3D |-> 2 * Index3D(x)]]
    BY <1>2 DEF ParallelPrograms
  <2>2. /\ Script = Script3D /\ Chunk = Chunks3D /\ Writes = Writes3D
        /\ Cell = box /\ prints = [x \in box |-> 2 * Index3D(x)]
    BY <2>1 DEF Script, Chunk, Reads, Writes, Cell, NoReads, Writes3D, Init3D
  <2>3. ASSUME NEW t
        PROVE  Box(t) = Share(t, HEIGHT) \X (0 .. LENGTH - 1) \X (0 .. WIDTH - 1)
    BY DEF Box, NdRange
  <2>4. ASSUME NEW c \in Chunk
        PROVE  c[1] = "3d" /\ Writes[c] = Box(c[2]) /\ Writes[c] \subseteq box
    <3>1. c[1] = "3d" /\ Writes[c] = Box(c[2])
      BY <2>2, <2>4 DEF Chunks3D, Chunks, Writes3D
    <3>2. Share(c[2], HEIGHT) \subseteq 0 .. HEIGHT - 1
      BY DEF Share
    <3> QED
      BY <2>3, <3>1, <3>2
  <2>5. ASSUME NEW c \in Chunk, NEW in, NEW x \in Writes[c]
        PROVE  ChunkEval(c, in)[x] = prints[x]
    <3>1. ChunkEval(c, in) = Eval3D(c)
      BY <2>4 DEF ChunkEval
    <3>2. x \in box /\ ChunkEval(c, in)[x] = Index3D(x) + Index3D(x)
      BY <2>4, <3>1 DEF Eval3D
    <3>3. Index3D(x) \in Int
      BY <3>2, ThreadsAssumption DEF Index3D
    <3> QED
      BY <2>2, <3>2, <3>3
  <2>6. ASSUME NEW x \in box PROVE \E c \in Chunk : x \in Writes[c]
    <3>1. PICK t \in 0 .. NumThreads - 1 : x[1] \in Share(t, HEIGHT)
      BY SharesCover, ThreadsAssumption
    <3>2. <<"3d", t>> \in Chunk
      BY <2>2, <3>1 DEF Chunks3D, Chunks
    <3>3. x \in Box(t)
      BY <2>3, <3>1
    <3> QED
      BY <2>4, <3>2, <3>3
  <2> QED
    BY <2>2, <2>4, <2>5, <2>6 DEF Script3D
<1> QED
  BY <1>1, <1>2

(* A chunk that ends stores what is to be printed, and leaves the other    *)
(* chunks' cells.                                                          *)
LEMMA SharesStep ==
  ASSUME Programs = ParallelPrograms, \A x, in : Eval(x, in) = ChunkEval(x, in),
         Inductive, SharesComputed, [Next]_vars
  PROVE  SharesComputed'
<1> SUFFICES ASSUME program \in {"parallel_for_1d", "parallel_for_3d"},
                    NEW d \in Chunk, status'[d] = "done", NEW x \in Writes[d]
             PROVE  mem'[x] = Programs[program].prints[x]
  BY SameProgram DEF SharesComputed, InState
<1>0. TypeOK
  BY DEF Inductive
<1>1. status[d] = "done" => mem[x] = Programs[program].prints[x]
  BY DEF SharesComputed, InState
<1>2. ASSUME NEW c \in Chunk, End(c) PROVE mem'[x] = Programs[program].prints[x]
  <2>1. x \in Cell
    BY SharesProgram
  <2>2. CASE c = d
    BY <1>2, <2>1, <2>2, SharesProgram DEF End
  <2>3. CASE c # d
    <3>1. x \notin Writes[c]
      <4>1. 1 \in LoopsOf(Programs[program]) /\ Script[1][3] = Chunk
        BY <1>0, SharesProgram, LoopOfChunk DEF TypeOK
      <4> QED
        BY <1>0, <2>3, <4>1, ProgramsConflictFree DEF LoopsConflictFree, TypeOK, Writes, Script
    <3>2. status[d] = "done"
      BY <1>0, <1>2, <2>3 DEF End, TypeOK
    <3> QED
      BY <1>1, <1>2, <2>1, <3>1, <3>2 DEF End
  <2> QED
    BY <2>2, <2>3
<1>3. CASE mem' = mem /\ (status'[d] = "done" => status[d] = "done")
  BY <1>1, <1>3
<1>4. \/ mem' = mem /\ (status'[d] = "done" => status[d] = "done")
      \/ \E c \in Chunk : End(c)
  BY <1>0 DEF Next, Main, Serve, EnterLoop, LoopReturns, EgroupDestroy, ReportResult,
     Start, ArriveAtBarrier, BarrierOpens, InState, TypeOK, vars
<1> QED
  BY <1>2, <1>3, <1>4

(* When main reports, all that was to be computed has been.                *)
LEMMA ReportRight ==
  ASSUME Programs = ParallelPrograms, Inductive, LDComputed, SharesComputed, ReportResult,
         NEW x \in DOMAIN Programs[program].prints
  PROVE  mem[x] = Programs[program].prints[x]
<1>0. TypeOK /\ LoopsFollowMain /\ at \in 1 .. Len(Script) /\ Script[at][1] = "report"
  BY LoopOfChunk DEF Inductive, TypeOK, ReportResult, Calls, Call
<1>1. CASE program = "local_dependency"
  <2>1. /\ Script = LDScript /\ Len(Script) = 3 * LOOP + 1 /\ LOOP \in Nat \ {0} /\ at \in Nat
        /\ Programs[program].prints = [i \in Index |-> LOOP * Expected(i)]
    BY <1>0, <1>1, LDProgram DEF ParallelPrograms
  <2>2. at = 3 * LOOP + 1
    BY <1>0, <2>1, LDCalls
  <2>3. Test = LOOP
    BY <2>1, <2>2 DEF Test
  <2>4. x \in Index /\ Programs[program].prints[x] = LOOP * Expected(x)
    BY <2>1
  <2>5. PICK id \in Id : x \in Segment(id)
    BY <2>4, IdsCover
  <2>6. \A f \in {"axb_func", "d_func"} : EndedOf(f, id) = LOOP
    BY <2>1, <2>2, <2>3 DEF EndedOf
  <2>7. mem[x] = LOOP * (x * x) + LOOP * ((N - x) * (N - x))
    BY <1>1, <2>1, <2>2, <2>5, <2>6 DEF LDComputed
  <2>8. Expected(x) = x * x + (N - x) * (N - x)
    BY <2>4, SegmentsAssumption DEF Expected, Index
  <2>9. x * x \in Int /\ (N - x) * (N - x) \in Int
    BY <2>4, SegmentsAssumption DEF Index
  <2> QED
    BY <2>1, <2>4, <2>7, <2>8, <2>9
<1>2. CASE program = "parallel"
  BY <1>2 DEF ParallelPrograms
<1>3. CASE program \in {"parallel_for_1d", "parallel_for_3d"}
  <2>1. 1 \in LoopsOf(Programs[program]) /\ 1 < at /\ Script[1][3] = Chunk
    BY <1>0, <1>3, SharesProgram, LoopOfChunk DEF TypeOK
  <2>2. PICK c \in Chunk : x \in Writes[c]
    BY <1>3, SharesProgram
  <2> QED
    BY <1>0, <1>3, <2>1, <2>2 DEF LoopsFollowMain, SharesComputed
<1> QED
  BY <1>0, <1>1, <1>2, <1>3 DEF TypeOK, ParallelPrograms

(* What the programs print is what their loops were to compute, with any   *)
(* sizes and any executors: each element was in one chunk of each loop,    *)
(* and no update was lost.                                                 *)
THEOREM ProgramsResultRight ==
  ASSUME Programs = ParallelPrograms, \A x, in : Eval(x, in) = ChunkEval(x, in)
  PROVE  Spec => []ResultRight
<1> DEFINE Computed == LDComputed /\ SharesComputed /\ ResultRight
<1>1. Init => Computed
  <2> SUFFICES ASSUME Init PROVE Computed
    OBVIOUS
  <2>0. Inductive
    BY InductiveInit
  <2>1. LDComputed
    <3> SUFFICES ASSUME program = "local_dependency", NEW id \in Id, NEW i \in Segment(id)
                 PROVE  mem[i] = EndedOf("axb_func", id) * (i * i)
                                   + EndedOf("d_func", id) * ((N - i) * (N - i))
      BY DEF LDComputed
    <3>1. at = 1 /\ Test = 0
      BY DEF Init, Test
    <3>2. i \in Index /\ i \in Int /\ N - i \in Int
      BY SegmentsAssumption DEF Segment, Index
    <3>3. mem[i] = 0
      BY <3>2 DEF Init, ParallelPrograms, LDInitMem, LDCell
    <3>4. \A f \in {"axb_func", "d_func"} : EndedOf(f, id) = 0
      <4> SUFFICES ASSUME NEW f \in {"axb_func", "d_func"} PROVE EndedOf(f, id) = 0
        OBVIOUS
      <4>1. <<f, id, 0>> \in Chunk
        BY <2>0, <3>1, LDProgram, ThreadsAssumption DEF Inductive
      <4>2. status[<<f, id, 0>>] = "absent"
        BY <4>1 DEF Init
      <4> QED
        BY <3>1, <4>2 DEF EndedOf
    <3>5. i * i \in Int /\ (N - i) * (N - i) \in Int
      BY <3>2
    <3> QED
      BY <3>3, <3>4, <3>5
  <2>2. SharesComputed /\ ResultRight
    BY DEF Init, SharesComputed, ResultRight, InState
  <2> QED
    BY <2>1, <2>2
<1>2. Inductive /\ Computed /\ [Next]_vars => Computed'
  <2> SUFFICES ASSUME Inductive, Computed, [Next]_vars PROVE Computed'
    OBVIOUS
  <2>1. LDComputed'
    <3>1. CASE program # "local_dependency"
      BY <3>1, SameProgram DEF LDComputed
    <3>2. CASE program = "local_dependency" /\ \E c \in Chunk : End(c)
      BY <3>2, LDEndStep
    <3>3. CASE program = "local_dependency" /\ ~ \E c \in Chunk : End(c)
      <4>1. mem' = mem /\ \A c \in Chunk : (status'[c] = "done") = (status[c] = "done")
        BY <3>3 DEF Next, Main, Serve, EnterLoop, LoopReturns, EgroupDestroy, ReportResult,
           Start, ArriveAtBarrier, BarrierOpens, InState, Inductive, TypeOK, vars
      <4> QED
        BY <3>3, <4>1, LDOtherStep
    <3> QED
      BY <3>1, <3>2, <3>3
  <2>2. SharesComputed'
    BY SharesStep
  <2>3. ResultRight'
    <3>1. CASE ReportResult
      <4>1. /\ report'.memory = mem /\ program' = program
        BY <3>1 DEF ReportResult
      <4> QED
        BY <3>1, <4>1, ReportRight DEF ResultRight
    <3>2. CASE UNCHANGED report
      BY <3>2, SameProgram DEF ResultRight
    <3> QED
      BY <3>1, <3>2 DEF Next, Main, Serve, EnterLoop, LoopReturns, EgroupDestroy,
         Start, ArriveAtBarrier, BarrierOpens, End, vars
  <2> QED
    BY <2>1, <2>2, <2>3
<1>3. LoopsConflictFree
  BY ProgramsConflictFree
<1>4. Spec => []Inductive
  BY <1>3, Invariance
<1>5. Computed => ResultRight
  OBVIOUS
<1> QED
  BY <1>1, <1>2, <1>4, <1>5, PTL DEF Spec

(* In no program do chunks race, with any sizes and any executors.         *)
THEOREM ProgramsNoRaces ==
  ASSUME Programs = ParallelPrograms PROVE Spec => []RaceFree
BY ProgramsConflictFree, LoopsNoRaces

(* No program destroys an egroup under a loop.                             *)
THEOREM ProgramsEgroupsOutlive ==
  ASSUME Programs = ParallelPrograms PROVE Spec => []EgroupOutlivesChunks
BY ProgramsConflictFree, ProgramsInOrder, EgroupsOutlive

(* A share of a range of as many indices as threads is one index, so every *)
(* thread has its chunk.                                                   *)
LEMMA OneIndexEach ==
  /\ Chunks("barrier", RangeUpper) = {<<"barrier", t>> : t \in 0 .. NumThreads - 1}
  /\ IsFiniteSet(Chunks("barrier", RangeUpper))
  /\ Cardinality(Chunks("barrier", RangeUpper)) = NumThreads
<1>1. NumThreads \in Nat \ {0}
  BY ThreadsAssumption
<1>2. ASSUME NEW t \in 0 .. NumThreads - 1 PROVE t \in Share(t, NumThreads)
  <2>1. (t * NumThreads) \div NumThreads = t /\ ((t + 1) * NumThreads) \div NumThreads = t + 1
    BY <1>1
  <2> QED
    BY <1>1, <2>1 DEF Share
<1>3. Chunks("barrier", RangeUpper) = {<<"barrier", t>> : t \in 0 .. NumThreads - 1}
  BY <1>2 DEF Chunks, RangeUpper
<1>4. ExistsBijection(0 .. NumThreads - 1, Chunks("barrier", RangeUpper))
  <2> DEFINE Thread == 0 .. NumThreads - 1
             C == Chunks("barrier", RangeUpper)
             f == [t \in Thread |-> <<"barrier", t>>]
  <2>1. f \in [Thread -> C] /\ \A t \in Thread : f[t] = <<"barrier", t>>
    BY <1>3
  <2>2. \A c \in C : \E t \in Thread : c = <<"barrier", t>>
    BY <1>3
  <2> HIDE DEF Thread, C, f
  <2>3. f \in Surjection(Thread, C)
    BY <2>1, <2>2 DEF Surjection
  <2>4. ASSUME NEW a \in Thread, NEW b \in Thread, f[a] = f[b] PROVE a = b
    BY <2>1, <2>4
  <2>5. DOMAIN f = Thread
    BY <2>1
  <2>6. IsInjective(f)
    BY <2>4, <2>5 DEF IsInjective
  <2>7. f \in Injection(Thread, C)
    BY <2>1, <2>6 DEF Injection
  <2> QED
    BY <2>3, <2>7 DEF Bijection, ExistsBijection, Thread, C
<1>5. IsFiniteSet(0 .. NumThreads - 1) /\ Cardinality(0 .. NumThreads - 1) = NumThreads
  BY <1>1, FS_Interval
<1> QED
  BY <1>3, <1>4, <1>5, FS_Bijection

(* In no program does main wait for ever, with any number of threads and   *)
(* executors; in parallel all threads get through the barrier.             *)
THEOREM ProgramsGoOn ==
  ASSUME Programs = ParallelPrograms PROVE Spec => []NoDeadlock
<1>1. BarriersFit
  <2> SUFFICES ASSUME NEW n \in DOMAIN ParallelPrograms, NEW p, p = ParallelPrograms[n],
                      NEW s \in LoopsOf(p), p.barrier
               PROVE  IsFiniteSet(p.script[s][3]) /\ Cardinality(p.script[s][3]) = p.executors
    BY DEF BarriersFit
  <2>1. p.script = ParallelScript /\ p.executors = NumThreads
    BY DEF ParallelPrograms
  <2>2. p.script[s][3] = Chunks("barrier", RangeUpper)
    BY <2>1 DEF LoopsOf, ParallelScript
  <2> QED
    BY <2>1, <2>2, OneIndexEach
<1> QED
  BY <1>1, LoopsGoOn

(* What the programs report is what indivisible chunks would have left.    *)
THEOREM ProgramsImplementation ==
  ASSUME Programs = ParallelPrograms PROVE Spec => ImplementsAtomic
BY ProgramsConflictFree, ProgramsInOrder, LoopsImplementation
=============================================================================
