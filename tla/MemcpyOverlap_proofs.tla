------------------------ MODULE MemcpyOverlap_proofs ------------------------
(***************************************************************************)
(* For every length and every number of chunks: computing a chunk never    *)
(* meets its copy, the one event never stands for two copies, and every    *)
(* element is copied and then doubled, once each.                          *)
(***************************************************************************)
EXTENDS MemcpyOverlap, TLAPS

(* len / loop is a natural number.                                         *)
LEMMA ChunkLenNat == ChunkLen \in Nat
BY ChunksAssumption DEF ChunkLen

(* The elements of a chunk are elements of the array.                      *)
LEMMA ChunkBounds ==
  ASSUME NEW k \in Chunk
  PROVE  /\ ChunkLen * k \in Nat
         /\ ChunkLen * (k + 1) = ChunkLen * k + ChunkLen
         /\ ChunkLen * (k + 1) <= Len
         /\ k = Loop - 1 => ChunkLen * (k + 1) = Len
<1> DEFINE c == ChunkLen
<1>1. c \in Nat /\ Len = c * Loop /\ Loop \in Nat /\ k \in Nat /\ k <= Loop - 1
  BY ChunksAssumption, ChunkLenNat DEF Chunk
<1> HIDE DEF c
<1>2. c * (k + 1) = c * k + c /\ c * k \in Nat
  BY <1>1
<1>3. PICK d \in Nat : Loop = k + 1 + d
  <2>1. Loop - k - 1 \in Nat /\ Loop = k + 1 + (Loop - k - 1)
    BY <1>1
  <2>2. QED
    BY <2>1
<1>4. Len = c * (k + 1) + c * d /\ c * d >= 0
  BY <1>1, <1>3
<1>5. k = Loop - 1 => d = 0
  BY <1>1, <1>3
<1>6. QED
  BY <1>1, <1>2, <1>4, <1>5 DEF c

(* main starts before every copy, at the first chunk.                      *)
LEMMA InductiveInit == Init => Inductive
<1> SUFFICES ASSUME Init PROVE Inductive
  OBVIOUS
<1>1. TypeOK
  BY ChunksAssumption, ChunkLenNat DEF Init, TypeOK, NoChunk, Index, Chunk
<1>2. EventFollowsMain
  BY ChunksAssumption DEF Init, EventFollowsMain, NoChunk, Chunk
<1>3. Frontier
  BY DEF Init, Frontier, Index, NoChunk
<1>4. QED
  BY <1>1, <1>2, <1>3 DEF Inductive, Init, ResultRight

(* The steps of main.                                                      *)
LEMMA MainStep == Inductive /\ Main => Inductive'
<1> SUFFICES ASSUME Inductive, Main PROVE Inductive'
  OBVIOUS
<1> USE ChunksAssumption, ChunkLenNat DEF Inductive
<1> HIDE DEF ChunkLen
<1>1. CASE FirstCopy
  <2>1. 0 \in Chunk /\ 0 \in 0 .. ChunkLen /\ ChunkLen * 0 = 0
    BY DEF Chunk
  <2>2. TypeOK'
    BY <1>1, <2>1 DEF FirstCopy, MemcpyAsync, TypeOK
  <2>3. EventFollowsMain'
    <3>1. i = 0 /\ j = 0 /\ active = {} /\ event.chunk = NoChunk
      BY <1>1 DEF FirstCopy, EventFollowsMain
    <3>2. /\ pc' = "wait" /\ i' = 0 /\ j' = 0 /\ active' = {0}
          /\ copied' = [copied EXCEPT ![0] = 0]
          /\ event' = [chunk |-> 0, complete |-> FALSE]
      BY <1>1, <3>1 DEF FirstCopy, MemcpyAsync
    <3>3. CopyState'
      BY <3>2 DEF CopyState
    <3>4. \A k \in Chunk : copied[k] = 0
      BY <3>1 DEF EventFollowsMain, Chunk, NoChunk
    <3>5. \A k \in Chunk : copied'[k] = 0
      BY <3>2, <3>4 DEF TypeOK
    <3>6. QED
      BY <2>1, <3>2, <3>3, <3>5 DEF EventFollowsMain
  <2>4. Frontier'
    BY <1>1, <2>1 DEF FirstCopy, MemcpyAsync, TypeOK, EventFollowsMain, Frontier, NoChunk, Index
  <2>5. QED
    BY <1>1, <2>2, <2>3, <2>4 DEF FirstCopy, ResultRight
<1>2. CASE EventWait
  BY <1>2 DEF EventWait, TypeOK, EventFollowsMain, CopyState, Frontier, ResultRight
<1>3. CASE NextCopy
  <2>1. i \in Chunk /\ event.chunk = i /\ copied[i] = ChunkLen /\ event.complete /\ active = {}
    BY <1>3 DEF NextCopy, TypeOK, EventFollowsMain, Chunk
  <2>2. /\ ChunkLen * i \in Nat /\ ChunkLen * (i + 1) = ChunkLen * i + ChunkLen
        /\ ChunkLen * (i + 1) <= Len
    BY <2>1, ChunkBounds
  <2>3. j = ChunkLen * i /\ j' = j
    BY <1>3 DEF NextCopy, EventFollowsMain
  <2>4. CASE i < Loop - 1
    <3>1. i + 1 \in Chunk
      BY <2>1, <2>4 DEF Chunk
    <3>2. /\ active' = {i + 1} /\ copied' = [copied EXCEPT ![i + 1] = 0]
          /\ event' = [chunk |-> i + 1, complete |-> FALSE]
      BY <1>3, <2>1, <2>4 DEF NextCopy, MemcpyAsync
    <3>3. TypeOK'
      BY <1>3, <2>3, <3>1, <3>2 DEF NextCopy, TypeOK
    <3>4. EventFollowsMain'
      BY <1>3, <2>1, <2>2, <2>3, <2>4, <3>1, <3>2
      DEF NextCopy, TypeOK, EventFollowsMain, CopyState, Chunk
    <3>5. copied[i] = ChunkLen /\ copied'[i + 1] = 0 /\ event'.chunk = i + 1
      BY <2>1, <3>1, <3>2 DEF TypeOK
    <3>6. Frontier'
      BY <1>3, <2>1, <2>2, <2>3, <3>5 DEF NextCopy, Frontier, NoChunk, Chunk, Index
    <3>7. QED
      BY <1>3, <3>3, <3>4, <3>6 DEF NextCopy, ResultRight
  <2>5. CASE ~(i < Loop - 1)
    <3>1. UNCHANGED <<active, copied, event, dst, i, j, result>> /\ pc' = "compute"
      BY <1>3, <2>3, <2>5 DEF NextCopy
    <3>2. i = Loop - 1
      BY <2>1, <2>5 DEF Chunk
    <3>3. TypeOK' /\ Frontier' /\ ResultRight'
      BY <3>1 DEF TypeOK, Frontier, ResultRight
    <3>4. EventFollowsMain'
      BY <1>3, <2>1, <2>2, <2>3, <3>1, <3>2 DEF EventFollowsMain, CopyState, Chunk
    <3>5. QED
      BY <3>3, <3>4
  <2>6. QED
    BY <2>4, <2>5
<1>4. CASE ComputeElement
  <2>1. i \in Chunk /\ copied[i] = ChunkLen /\ ChunkLen * i <= j /\ j < ChunkLen * (i + 1)
    BY <1>4 DEF ComputeElement, TypeOK, EventFollowsMain, Chunk
  <2>2. /\ ChunkLen * i \in Nat /\ ChunkLen * (i + 1) = ChunkLen * i + ChunkLen
        /\ ChunkLen * (i + 1) <= Len
    BY <2>1, ChunkBounds
  <2>3. j \in Index
    <3>1. j \in 0 .. Len
      BY DEF TypeOK
    <3>2. j < ChunkLen * i + ChunkLen /\ ChunkLen * i + ChunkLen <= Len
      BY <2>1, <2>2
    <3>3. j < Len
      BY <2>2, <3>1, <3>2
    <3>4. QED
      BY <3>1, <3>3 DEF Index
  <2>4. TypeOK'
    BY <1>4, <2>3 DEF ComputeElement, TypeOK, Index
  <2>5. EventFollowsMain'
    BY <1>4, <2>1, <2>2 DEF ComputeElement, TypeOK, EventFollowsMain, CopyState
  <2>6. \/ event.chunk = i
        \/ event.chunk = i + 1 /\ i + 1 \in Chunk
    BY <1>4, <2>1 DEF ComputeElement, EventFollowsMain, Chunk
  <2>7. j < ChunkLen * event.chunk + copied[event.chunk] /\ event.chunk # NoChunk
    <3>1. CASE event.chunk = i
      <4>1. j < ChunkLen * i + ChunkLen
        BY <2>1, <2>2
      <4>2. QED
        BY <2>1, <3>1, <4>1 DEF NoChunk, Chunk
    <3>2. CASE event.chunk = i + 1 /\ i + 1 \in Chunk
      <4>1. copied[i + 1] \in 0 .. ChunkLen
        BY <3>2 DEF TypeOK
      <4>2. j < ChunkLen * (i + 1) + copied[i + 1]
        <5>1. j \in Int /\ ChunkLen * (i + 1) \in Int
          BY <2>2 DEF TypeOK
        <5>2. QED
          BY <2>1, <4>1, <5>1
      <4>3. QED
        BY <3>2, <4>2 DEF NoChunk, Chunk
    <3>3. QED
      BY <2>6, <3>1, <3>2
  <2>8. dst[j] = Src(j)
    BY <2>3, <2>7 DEF Frontier, TypeOK
  <2>9. Frontier'
    BY <1>4, <2>3, <2>8 DEF ComputeElement, Frontier, TypeOK, Index
  <2>10. QED
    BY <1>4, <2>4, <2>5, <2>9 DEF ComputeElement, ResultRight
<1>5. CASE ComputeReturns
  <2>1. i \in Chunk /\ j = ChunkLen * (i + 1)
    BY <1>5, ChunkBounds DEF ComputeReturns, TypeOK, EventFollowsMain, Chunk
  <2>2. i = Loop - 1 => j = Len
    BY <2>1, ChunkBounds
  <2>3. TypeOK' /\ Frontier' /\ ResultRight'
    BY <1>5, <2>1 DEF ComputeReturns, TypeOK, Frontier, ResultRight, Chunk
  <2>4. EventFollowsMain'
    BY <1>5, <2>1, <2>2 DEF ComputeReturns, EventFollowsMain, CopyState, Chunk
  <2>5. QED
    BY <2>3, <2>4
<1>6. CASE ArrayCheck
  <2>1. \A x \in Index : dst[x] = Src(x) * 2
    BY <1>6 DEF ArrayCheck, TypeOK, EventFollowsMain, Frontier, Index
  <2>2. result' = "right"
    BY <1>6, <2>1 DEF ArrayCheck, Src
  <2>3. TypeOK' /\ EventFollowsMain' /\ Frontier'
    BY <1>6, <2>2 DEF ArrayCheck, TypeOK, EventFollowsMain, Frontier
  <2>4. QED
    BY <2>2, <2>3 DEF ResultRight
<1>7. CASE EventDestroy
  BY <1>7 DEF EventDestroy, TypeOK, EventFollowsMain, CopyState, Frontier, ResultRight
<1>8. QED
  BY <1>1, <1>2, <1>3, <1>4, <1>5, <1>6, <1>7 DEF Main

(* The steps of the copies.                                                *)
LEMMA CopyStep == Inductive /\ Copy => Inductive'
<1> SUFFICES ASSUME Inductive, NEW k \in Chunk, CopyElement(k) \/ CopyEnds(k)
             PROVE  Inductive'
  BY DEF Copy
<1> USE ChunksAssumption, ChunkLenNat DEF Inductive
<1> HIDE DEF ChunkLen
<1>1. k \in active
  BY DEF CopyElement, CopyEnds
<1>2. /\ pc \in {"wait", "compute"} /\ event.chunk = k /\ ~event.complete
      /\ active = {k} /\ k # NoChunk
  BY <1>1 DEF TypeOK, EventFollowsMain, CopyState, Chunk, NoChunk
<1>3. CASE CopyElement(k)
  <2> DEFINE x == ChunkLen * k + copied[k]
  <2>1. copied[k] \in Nat /\ copied[k] < ChunkLen
    BY <1>3 DEF CopyElement, TypeOK
  <2>2. x \in Index /\ ChunkLen * k \in Nat
    BY <2>1, ChunkBounds DEF Index
  <2>3. /\ dst' = [dst EXCEPT ![x] = Src(x)]
        /\ copied' = [copied EXCEPT ![k] = @ + 1]
        /\ UNCHANGED <<pc, i, j, active, event, result>>
    BY <1>3 DEF CopyElement
  <2>4. copied'[k] = copied[k] + 1
    BY <2>3 DEF TypeOK
  <2>5. TypeOK'
    BY <2>1, <2>2, <2>3 DEF TypeOK, Src, Index
  <2>6. EventFollowsMain'
    BY <1>2, <2>1, <2>3 DEF TypeOK, EventFollowsMain, CopyState
  <2>7. j <= x
    <3>1. CASE pc = "wait"
      BY <1>2, <2>1, <2>2, <3>1 DEF EventFollowsMain
    <3>2. CASE pc = "compute"
      BY <1>2, <2>1, <2>2, <3>2 DEF EventFollowsMain, TypeOK
    <3>3. QED
      BY <1>2, <3>1, <3>2
  <2>8. Frontier'
    <3> SUFFICES ASSUME NEW y \in Index
                 PROVE  dst'[y] = IF y < j THEN Src(y) * 2
                                  ELSE IF y < x + 1 THEN Src(y) ELSE 0
      BY <1>2, <2>3, <2>4, <2>1, <2>2 DEF Frontier, Index
    <3>1. dst[y] = IF y < j THEN Src(y) * 2 ELSE IF y < x THEN Src(y) ELSE 0
      BY <1>2 DEF Frontier
    <3>2. CASE y = x
      BY <2>2, <2>3, <2>7, <3>2 DEF TypeOK, Index
    <3>3. CASE y # x
      BY <2>2, <2>3, <3>1, <3>3 DEF TypeOK, Index
    <3>4. QED
      BY <3>2, <3>3
  <2>9. QED
    BY <2>3, <2>5, <2>6, <2>8 DEF ResultRight
<1>4. CASE CopyEnds(k)
  <2>1. /\ copied[k] = ChunkLen /\ active' = {} /\ event' = [event EXCEPT !.complete = TRUE]
        /\ UNCHANGED <<pc, i, j, dst, copied, result>>
    BY <1>2, <1>4 DEF CopyEnds, TypeOK
  <2>2. event'.chunk = event.chunk /\ event'.complete
    BY <2>1 DEF TypeOK
  <2>3. TypeOK'
    BY <2>1 DEF TypeOK
  <2>4. EventFollowsMain'
    BY <1>2, <2>1, <2>2 DEF EventFollowsMain, CopyState
  <2>5. Frontier' /\ ResultRight'
    BY <2>1, <2>2 DEF Frontier, ResultRight
  <2>6. QED
    BY <2>3, <2>4, <2>5
<1>5. QED
  BY <1>3, <1>4

(* Throughout the program main, the event and the frontier of the copies   *)
(* stay in step, for every length of the arrays and number of chunks.      *)
THEOREM Invariance == Spec => []Inductive
<1>1. Inductive /\ UNCHANGED vars => Inductive'
  BY DEF Inductive, TypeOK, EventFollowsMain, CopyState, Frontier, ResultRight, vars
<1>2. Inductive /\ [Next]_vars => Inductive'
  BY <1>1, MainStep, CopyStep DEF Next
<1>3. QED
  BY <1>2, InductiveInit, PTL DEF Spec

-----------------------------------------------------------------------------
(* The check at the end of main finds every element copied and doubled.    *)
THEOREM Right == Spec => []ResultRight
BY Invariance, PTL DEF Inductive

(* task_compute works on a chunk only when its copy has ended.             *)
THEOREM ComputeWaits == Spec => []ComputeAfterCopy
<1>1. Inductive => ComputeAfterCopy
  BY ChunksAssumption
  DEF Inductive, TypeOK, EventFollowsMain, CopyState, ComputeAfterCopy, Chunk
<1>2. QED
  BY <1>1, Invariance, PTL

(* The event is never armed again under a copy that is still going on.     *)
THEOREM OneCopyPerEvent == Spec => []EventNotReused
<1>1. Inductive => EventNotReused
  BY DEF Inductive, TypeOK, EventFollowsMain, CopyState, EventNotReused
<1>2. QED
  BY <1>1, Invariance, PTL

(* When main destroys the event, no copy is left that would signal it.     *)
THEOREM NoCopyAfterDestroy == Spec => []NothingAfterDestroy
<1>1. Inductive => NothingAfterDestroy
  BY DEF Inductive, EventFollowsMain, NothingAfterDestroy
<1>2. QED
  BY <1>1, Invariance, PTL

(* No kupl_event_wait waits for ever for a copy that was not issued, has   *)
(* ended without completing the event, or completed an earlier arming.     *)
THEOREM WaitsGoOn == Spec => []NoDeadlock
<1>1. Inductive => NoDeadlock
  BY DEF Inductive, EventFollowsMain, CopyState, NoDeadlock
<1> QED
  BY <1>1, Invariance, PTL
=============================================================================
