--------------------------- MODULE MemcpyOverlap ---------------------------
(***************************************************************************)
(* kupl/general/compute_memcpy_overlap: main copies src to dst chunk by    *)
(* chunk with kupl_memcpy_async and doubles dst chunk by chunk, the copy   *)
(* of the next chunk going on while it doubles this one.  One event object *)
(* serves every copy in turn.  KUPL is external: an asynchronous copy      *)
(* stores its elements one by one at any later time, a copy handed an      *)
(* event arms it again, and the event is complete when the copy it was     *)
(* armed with last has ended; kupl_event_wait blocks until then.           *)
(***************************************************************************)
EXTENDS Integers

CONSTANTS
  Len,   \* elements of src and dst
  Loop   \* chunks

ChunkLen == Len \div Loop

ASSUME ChunksAssumption ==
  /\ Len \in Nat \ {0}
  /\ Loop \in Nat \ {0}
  /\ Len = ChunkLen * Loop

Index == 0 .. Len - 1
Chunk == 0 .. Loop - 1
NoChunk == -1

VARIABLES
  pc,        \* main: "start", "wait", "issue", "compute", "check", "destroy", "end"
  i,         \* the chunk main is at
  j,         \* the element task_compute is at
  dst,
  active,    \* the chunks whose copy has been issued and not ended
  copied,    \* chunk -> how many of its elements the copy has stored
  event,     \* the chunk whose copy armed the event last, and whether it completed
  result     \* what array_check returned

vars == <<pc, i, j, dst, active, copied, event, result>>

Src(x) == x + 1

Init ==
  /\ pc = "start"
  /\ i = 0
  /\ j = 0
  /\ dst = [x \in Index |-> 0]
  /\ active = {}
  /\ copied = [k \in Chunk |-> 0]
  /\ event = [chunk |-> NoChunk, complete |-> FALSE]
  /\ result = "none"

-----------------------------------------------------------------------------
MemcpyAsync(k) ==
  /\ active' = active \cup {k}
  /\ copied' = [copied EXCEPT ![k] = 0]
  /\ event' = [chunk |-> k, complete |-> FALSE]

\* Mutant: no copy is issued before the loop.
FirstCopyMissing ==
  /\ pc = "start"
  /\ pc' = "wait"
  /\ UNCHANGED <<i, j, dst, active, copied, event, result>>

FirstCopy ==
  /\ pc = "start"
  /\ MemcpyAsync(0)
  /\ pc' = "wait"
  /\ UNCHANGED <<i, j, dst, result>>

\* Mutant: the wait of the last round is left out.
EventWaitNotLast ==
  /\ pc = "wait"
  /\ event.complete \/ i = Loop - 1
  /\ pc' = "issue"
  /\ UNCHANGED <<i, j, dst, active, copied, event, result>>

\* Mutant: the next copy is issued before the wait for this one.
EventWaitLate ==
  /\ pc = "wait"
  /\ pc' = "issue"
  /\ UNCHANGED <<i, j, dst, active, copied, event, result>>

EventWait ==
  /\ pc = "wait"
  /\ event.complete
  /\ pc' = "issue"
  /\ UNCHANGED <<i, j, dst, active, copied, event, result>>

NextCopy ==
  /\ pc = "issue"
  /\ IF i < Loop - 1
     THEN MemcpyAsync(i + 1)
     ELSE UNCHANGED <<active, copied, event>>
  /\ pc' = "compute"
  /\ j' = ChunkLen * i
  /\ UNCHANGED <<i, dst, result>>

ComputeElement ==
  /\ pc = "compute"
  /\ j < ChunkLen * (i + 1)
  /\ dst' = [dst EXCEPT ![j] = @ * 2]
  /\ j' = j + 1
  /\ UNCHANGED <<pc, i, active, copied, event, result>>

ComputeReturns ==
  /\ pc = "compute"
  /\ j >= ChunkLen * (i + 1)
  /\ i' = i + 1
  /\ pc' = IF i + 1 < Loop THEN "wait" ELSE "check"
  /\ UNCHANGED <<j, dst, active, copied, event, result>>

ArrayCheck ==
  /\ pc = "check"
  /\ result' = IF \A x \in Index : dst[x] = (x + 1) * 2 THEN "right" ELSE "wrong"
  /\ pc' = "destroy"
  /\ UNCHANGED <<i, j, dst, active, copied, event>>

EventDestroy ==
  /\ pc = "destroy"
  /\ pc' = "end"
  /\ UNCHANGED <<i, j, dst, active, copied, event, result>>

-----------------------------------------------------------------------------
(* The copies.                                                             *)

CopyElement(k) ==
  /\ k \in active
  /\ copied[k] < ChunkLen
  /\ dst' = [dst EXCEPT ![ChunkLen * k + copied[k]] = Src(ChunkLen * k + copied[k])]
  /\ copied' = [copied EXCEPT ![k] = @ + 1]
  /\ UNCHANGED <<pc, i, j, active, event, result>>

CopyEnds(k) ==
  /\ k \in active
  /\ copied[k] = ChunkLen
  /\ active' = active \ {k}
  /\ event' = [event EXCEPT !.complete = @ \/ event.chunk = k]
  /\ UNCHANGED <<pc, i, j, dst, copied, result>>

-----------------------------------------------------------------------------
Main ==
  \/ FirstCopy \/ EventWait \/ NextCopy \/ ComputeElement \/ ComputeReturns
  \/ ArrayCheck \/ EventDestroy

Copy == \E k \in Chunk : CopyElement(k) \/ CopyEnds(k)

Next == Main \/ Copy

Spec == Init /\ [][Next]_vars
FairSpec == Spec /\ WF_vars(Main) /\ WF_vars(Copy)

-----------------------------------------------------------------------------
TypeOK ==
  /\ pc \in {"start", "wait", "issue", "compute", "check", "destroy", "end"}
  /\ i \in 0 .. Loop
  /\ j \in 0 .. Len
  /\ dst \in [Index -> Nat]
  /\ active \subseteq Chunk
  /\ copied \in [Chunk -> 0 .. ChunkLen]
  /\ event \in [chunk : Chunk \cup {NoChunk}, complete : BOOLEAN]
  /\ result \in {"none", "right", "wrong"}

(* While task_compute works on a chunk no copy stores to that chunk: the   *)
(* event wait before it was for the copy of that very chunk, although the  *)
(* event has been used for other copies before and is armed again since.   *)
ComputeAfterCopy ==
  pc = "compute" => i \notin active /\ copied[i] = ChunkLen

(* At most one copy is under way, so the single event is never armed anew  *)
(* while a copy it stands for is still going on.                           *)
EventNotReused ==
  \A k \in active : event = [chunk |-> k, complete |-> FALSE]

(* Every element is copied before it is doubled, and doubled once.         *)
ResultRight == result # "wrong"

(* No copy is left to signal the event once it is destroyed.               *)
NothingAfterDestroy == pc = "end" => active = {}

(* Main waits for an event that is complete or that the copy it was armed  *)
(* for, and still under way, is going to complete.                         *)
NoDeadlock == pc = "wait" => event.complete \/ event.chunk \in active

(* main ends: every kupl_event_wait is answered.                           *)
Terminates == <>(pc = "end")

(* Copies and computation reach the end of the array side by side.         *)
Frontier ==
  \A x \in Index :
    dst[x] = IF x < j THEN Src(x) * 2
             ELSE IF event.chunk # NoChunk
                       /\ x < ChunkLen * event.chunk + copied[event.chunk]
                  THEN Src(x)
                  ELSE 0

CopyState ==
  \/ event.complete /\ active = {} /\ copied[event.chunk] = ChunkLen
  \/ ~event.complete /\ active = {event.chunk}

(* Where main is says which chunk the event stands for.                    *)
EventFollowsMain ==
  /\ pc = "start" => i = 0 /\ j = 0 /\ active = {} /\ event.chunk = NoChunk
  /\ pc = "wait" => i < Loop /\ event.chunk = i /\ j = ChunkLen * i /\ CopyState
  /\ pc = "issue" => /\ i < Loop /\ event.chunk = i /\ j = ChunkLen * i
                     /\ active = {} /\ event.complete /\ copied[i] = ChunkLen
  /\ pc = "compute" =>
       /\ i < Loop /\ ChunkLen * i <= j /\ j <= ChunkLen * (i + 1)
       /\ copied[i] = ChunkLen /\ CopyState
       /\ event.chunk = IF i < Loop - 1 THEN i + 1 ELSE i
       /\ i = Loop - 1 => event.complete
  /\ pc \in {"check", "destroy", "end"} => active = {} /\ j = Len
  /\ \A k \in Chunk : k > event.chunk => copied[k] = 0

Inductive == TypeOK /\ EventFollowsMain /\ Frontier /\ ResultRight
=============================================================================
