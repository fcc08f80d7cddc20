---------------------------- MODULE QueueEvents ----------------------------
(***************************************************************************)
(* A main thread that submits work to KUPL queues, links queues by events, *)
(* waits and destroys what it created, and the executors that serve the    *)
(* queues.  What main does is its Script, the calls in program order; what *)
(* a task does is a set of parts (one for a plain function, one per chunk  *)
(* for a kernel or a parallel-for submitted to an egroup).  Programs is a  *)
(* table of such programs, and a behaviour runs one of them.               *)
(*                                                                         *)
(* KUPL is external.  The programs rely on this: a queue runs its items in *)
(* the order of submission, one after the other, the parts of one item     *)
(* side by side, and the queues independently of each other; an event      *)
(* recorded on a queue completes when the items submitted before it have   *)
(* ended; a queue told to wait for an event holds back its later items.    *)
(***************************************************************************)
EXTENDS Integers, Sequences, SequencesExt

CONSTANTS
  Programs,    \* name -> the program, a record of
               \*   queues, events: what main creates
               \*   script: the calls of main, tuples that begin with the name of the call
               \*   reads, writes: part -> cells; a part is a tuple that begins with its task
               \*   init: the memory before main submits, by cell
               \*   atomic: the cells accessed as std::atomic
               \*   dep: the order of parts that queues and events are to bring about
               \*   uses: task -> what it needs: its egroup, memory, args
               \*   eid: part -> its executor, AnyExecutor when it has none of its own
               \*   prints: what main is to print, by cell
  Eval(_, _)   \* part, operands -> what the part stores

AnyExecutor == -1

ASSUME ProgramsAssumption ==
  \A n \in DOMAIN Programs :
    LET p == Programs[n] IN
      /\ p.script \in Seq({p.script[s] : s \in DOMAIN p.script})
      /\ p.reads \in [DOMAIN p.reads -> SUBSET DOMAIN p.init]
      /\ p.writes \in [DOMAIN p.reads -> SUBSET DOMAIN p.init]
      /\ p.atomic \subseteq DOMAIN p.init
      /\ DOMAIN p.eid = DOMAIN p.reads

VARIABLES
  program,     \* the name of the program
  at,          \* the call main is at
  queue,       \* queue -> the items submitted to it that have not ended
  complete,    \* the events that are complete
  started, ended,  \* parts
  operands, mem,
  destroyed,   \* what main has destroyed or freed
  report

vars == <<program, at, queue, complete, started, ended, operands, mem, destroyed, report>>

Script == Programs[program].script
Queue == Programs[program].queues
Event == Programs[program].events
Reads == Programs[program].reads
Writes == Programs[program].writes
Part == DOMAIN Reads
Cell == DOMAIN Programs[program].init
AtomicCell == Programs[program].atomic
Uses == Programs[program].uses
Eid == Programs[program].eid

Running == started \ ended

NoReport == [reported |-> FALSE]

(* Program n as a graph of indivisible parts; it has not begun if another  *)
(* program runs.                                                           *)
Atomic(n) == INSTANCE AtomicGraph WITH
  Node <- DOMAIN Programs[n].reads, Dep <- Programs[n].dep, Cell <- DOMAIN Programs[n].init,
  Reads <- Programs[n].reads, Writes <- Programs[n].writes, InitMem <- Programs[n].init,
  Loop <- 1, round <- 1,
  mem <- IF n = program THEN mem ELSE Programs[n].init,
  done <- IF n = program THEN ended ELSE {},
  report <- IF n = program THEN report ELSE NoReport

Init ==
  /\ program \in DOMAIN Programs
  /\ at = 1
  /\ queue = [q \in Queue |-> <<>>]
  /\ complete = {}
  /\ started = {}
  /\ ended = {}
  /\ operands = [p \in Part |-> <<>>]
  /\ mem = Programs[program].init
  /\ destroyed = {}
  /\ report = NoReport

-----------------------------------------------------------------------------
(* The calls of main.                                                      *)

Call == Script[at]

Calls(name) == at <= Len(Script) /\ Call[1] = name /\ at' = at + 1

Executors == <<program, started, ended, operands, mem>>

QueueSubmit ==
  /\ Calls("queue_submit")
  /\ queue' = [queue EXCEPT ![Call[2]] = Append(@, <<"task", Call[3]>>)]
  /\ UNCHANGED <<complete, destroyed, report, Executors>>

MemcpyAsync ==
  /\ Calls("memcpy_async")
  /\ queue' = [queue EXCEPT ![Call[2]] = @ \o << <<"task", Call[3]>>, <<"record", Call[4]>> >>]
  /\ complete' = complete \ {Call[4]}
  /\ UNCHANGED <<destroyed, report, Executors>>

EventRecord ==
  /\ Calls("event_record")
  /\ queue' = [queue EXCEPT ![Call[3]] = Append(@, <<"record", Call[2]>>)]
  /\ complete' = complete \ {Call[2]}
  /\ UNCHANGED <<destroyed, report, Executors>>

QueueWaitEvent ==
  /\ Calls("queue_wait_event")
  /\ queue' = [queue EXCEPT ![Call[2]] = Append(@, <<"await", Call[3]>>)]
  /\ UNCHANGED <<complete, destroyed, report, Executors>>

QueueWait ==
  /\ Calls("queue_wait")
  /\ queue[Call[2]] = <<>>
  /\ UNCHANGED <<queue, complete, destroyed, report, Executors>>

EventWait ==
  /\ Calls("event_wait")
  /\ Call[2] \in complete
  /\ UNCHANGED <<queue, complete, destroyed, report, Executors>>

PrintResult ==
  /\ Calls("print")
  /\ report' = [reported |-> TRUE, memory |-> mem]
  /\ UNCHANGED <<queue, complete, destroyed, Executors>>

Destroy ==
  /\ Calls("destroy")
  /\ destroyed' = destroyed \cup {Call[2]}
  /\ UNCHANGED <<queue, complete, report, Executors>>

Main ==
  \/ QueueSubmit \/ MemcpyAsync \/ EventRecord \/ QueueWaitEvent
  \/ QueueWait \/ EventWait \/ PrintResult \/ Destroy

-----------------------------------------------------------------------------
(* The executors, at the head of each queue.                               *)

MainThread == <<program, at, destroyed, report>>

AtHead(q, item) == queue[q] # <<>> /\ Head(queue[q]) = item

Pop(q) == queue' = [queue EXCEPT ![q] = Tail(@)]

Start(q, p) ==
  /\ AtHead(q, <<"task", p[1]>>)
  /\ p \notin started
  /\ started' = started \cup {p}
  /\ UNCHANGED <<queue, complete, ended, operands, mem, MainThread>>

(* The operands are read one by one.                                       *)
Load(p, c) ==
  /\ p \in Running
  /\ c \in (Reads[p] \ AtomicCell) \ DOMAIN operands[p]
  /\ operands' = [operands EXCEPT ![p] =
       [d \in DOMAIN @ \cup {c} |-> IF d = c THEN mem[c] ELSE @[d]]]
  /\ UNCHANGED <<queue, complete, started, ended, mem, MainThread>>

(* An atomic += reads and stores its cell in one step.                     *)
Current(p) ==
  [c \in DOMAIN operands[p] \cup (Reads[p] \cap AtomicCell) |->
     IF c \in AtomicCell THEN mem[c] ELSE operands[p][c]]

(* Memory after p has stored its results.                                  *)
Store(p) ==
  [c \in Cell |-> IF c \in Writes[p] THEN Eval(p, Current(p))[c] ELSE mem[c]]

\* Mutant: a task counts as ended when its first part has.
EndFirst(q, p) ==
  /\ AtHead(q, <<"task", p[1]>>)
  /\ p \in Running
  /\ DOMAIN Current(p) = Reads[p]
  /\ ended' = ended \cup {r \in Part : r[1] = p[1]}
  /\ mem' = Store(p)
  /\ Pop(q)
  /\ UNCHANGED <<complete, started, operands, MainThread>>

End(q, p) ==
  /\ AtHead(q, <<"task", p[1]>>)
  /\ p \in Running
  /\ DOMAIN Current(p) = Reads[p]
  /\ ended' = ended \cup {p}
  /\ mem' = Store(p)
  /\ IF \A r \in Part : r[1] = p[1] => r \in ended'
     THEN Pop(q)
     ELSE UNCHANGED queue
  /\ UNCHANGED <<complete, started, operands, MainThread>>

CompleteEvent(q, e) ==
  /\ AtHead(q, <<"record", e>>)
  /\ complete' = complete \cup {e}
  /\ Pop(q)
  /\ UNCHANGED <<Executors, MainThread>>

EventArrives(q, e) ==
  /\ AtHead(q, <<"await", e>>)
  /\ e \in complete
  /\ Pop(q)
  /\ UNCHANGED <<complete, Executors, MainThread>>

Serve(q) ==
  \/ \E p \in Part : Start(q, p) \/ End(q, p)
  \/ \E e \in Event : CompleteEvent(q, e) \/ EventArrives(q, e)

LoadOperand == \E p \in Part : \E c \in Reads[p] : Load(p, c)

Next == Main \/ LoadOperand \/ \E q \in Queue : Serve(q)

Spec == Init /\ [][Next]_vars

QueueName == UNION {Programs[n].queues : n \in DOMAIN Programs}

(* Main goes on, every queue is served, and a task that started goes on.   *)
FairSpec ==
  Spec /\ WF_vars(Main) /\ WF_vars(LoadOperand)
  /\ \A q \in QueueName : WF_vars(q \in Queue /\ Serve(q))

-----------------------------------------------------------------------------
TypeOK ==
  /\ program \in DOMAIN Programs
  /\ at \in 1 .. Len(Script) + 1
  /\ DOMAIN queue = Queue
  /\ complete \subseteq Event
  /\ started \subseteq Part
  /\ ended \subseteq started
  /\ DOMAIN mem = Cell

(* Parts that run at the same time touch no common cell that one of them   *)
(* writes, unless both access it atomically.                               *)
RaceFree ==
  \A a, b \in Running :
    a # b => (Writes[a] \cap (Reads[b] \cup Writes[b])) \ AtomicCell = {}

(* Nothing is destroyed or freed while an item still on a queue needs it:  *)
(* queues, events, egroups, buffers, and at the return of main the args.   *)
ResourcesOutliveUse ==
  \A q \in Queue : \A item \in ToSet(queue[q]) :
    destroyed \cap ({q} \cup IF item[1] = "task" THEN Uses[item[2]] ELSE {item[2]}) = {}

(* An executor of an egroup runs one part at a time, whichever queues the  *)
(* parts come from.                                                        *)
ExecutorsNotShared ==
  \A a, b \in Running : a # b /\ Eid[a] # AnyExecutor => Eid[a] # Eid[b]

(* What main prints, or finds right in its own checks, is what it should   *)
(* be: every addition made, every element copied, 1 * 2 + 3 * 4.           *)
ResultRight ==
  report # NoReport =>
    \A c \in DOMAIN Programs[program].prints : report.memory[c] = Programs[program].prints[c]

(* Each program implements the graph of its parts ordered by dep.          *)
ImplementsAtomic ==
  /\ \A n \in DOMAIN Programs : Atomic(n)!Init
  /\ [][\A n \in DOMAIN Programs : [Atomic(n)!Next]_(Atomic(n)!vars)]_vars

(* Main waits only for queues that are not empty and events that are not   *)
(* complete, and a queue for such an event; a task whose parts have not    *)
(* all ended has one to start, to load an operand of or to end.            *)
MainGoesOn ==
  \/ Call[1] \in {"queue_submit", "memcpy_async", "event_record", "queue_wait_event", "print", "destroy"}
  \/ Call[1] = "queue_wait" /\ queue[Call[2]] = <<>>
  \/ Call[1] = "event_wait" /\ Call[2] \in complete

QueueGoesOn(q) ==
  \/ \E p \in Part \ ended : AtHead(q, <<"task", p[1]>>)
  \/ \E e \in Event : AtHead(q, <<"record", e>>)
  \/ \E e \in complete : AtHead(q, <<"await", e>>)

(* Main and the queues never all wait for one another: what a queue or     *)
(* main waits for is still to come from a queue that can go on.            *)
NoDeadlock == at <= Len(Script) => MainGoesOn \/ \E q \in Queue : QueueGoesOn(q)

(* Every wait of main and of a queue is answered.                          *)
Terminates == <>(at > Len(Script))
=============================================================================
