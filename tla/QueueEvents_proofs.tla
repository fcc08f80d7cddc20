------------------------- MODULE QueueEvents_proofs -------------------------
(***************************************************************************)
(* For every table of programs whose scripts and data keep the conditions  *)
(* below: that queues and events bring about the order the programs count  *)
(* on; and that the programs of QueuePrograms keep the conditions, with    *)
(* any number of blocks, executors in a group and executors shared out.    *)
(***************************************************************************)
EXTENDS QueueEvents, QueuePrograms, SequenceTheorems, WellFoundedInduction, TLAPS

-----------------------------------------------------------------------------
(* The items of a program.  A call puts its items on one queue; the one    *)
(* that puts a task and a record there does it in this order.              *)
ItemsOf(call) ==
  IF call[1] = "queue_submit" THEN {<<"task", call[3]>>}
  ELSE IF call[1] = "memcpy_async" THEN {<<"task", call[3]>>, <<"record", call[4]>>}
  ELSE IF call[1] = "event_record" THEN {<<"record", call[2]>>}
  ELSE IF call[1] = "queue_wait_event" THEN {<<"await", call[3]>>}
  ELSE {}

QueueOf(call) == IF call[1] = "event_record" THEN call[3] ELSE call[2]

Calling(p) == 1 .. Len(p.script)

Item(p) == UNION {ItemsOf(p.script[s]) : s \in Calling(p)}

(* The call an item comes from, its queue and its place in the order of    *)
(* submission.                                                             *)
Origin(p, x) == CHOOSE s \in Calling(p) : x \in ItemsOf(p.script[s])
On(p, x) == QueueOf(p.script[Origin(p, x)])
Rank(p, x) == 2 * Origin(p, x) + IF x[1] = "task" THEN 0 ELSE 1

Earlier(p, x, y) == On(p, x) = On(p, y) /\ Rank(p, x) < Rank(p, y)
NotLater(p, x, y) == x = y \/ Earlier(p, x, y)

(* What is to be before y because its queue waits for an event.            *)
Awaited(p, e) == {<<"record", e>>, <<"await", e>>} \subseteq Item(p)
BeforeEvent(p, x, e) == Awaited(p, e) /\ NotLater(p, x, <<"record", e>>)

(* x has left its queue before y is at the head of its own.                *)
Precedes(p, x, y) ==
  \/ Earlier(p, x, y)
  \/ \E e \in p.events : BeforeEvent(p, x, e) /\ Earlier(p, <<"await", e>>, y)

(* x has left its queue when y has.                                        *)
GoneWith(p, x, y) ==
  \/ NotLater(p, x, y)
  \/ \E e \in p.events : BeforeEvent(p, x, e) /\ NotLater(p, <<"await", e>>, y)

(* Main has waited for x before it makes call t.                           *)
WaitedFor(p, x, t) ==
  \E w \in Calling(p) :
    /\ w < t
    /\ \/ /\ p.script[w][1] = "queue_wait"
          /\ \E y \in Item(p) :
               On(p, y) = p.script[w][2] /\ Origin(p, y) < w /\ GoneWith(p, x, y)
       \/ /\ p.script[w][1] = "event_wait"
          /\ GoneWith(p, x, <<"record", p.script[w][2]>>)

Needs(p, x) == {On(p, x)} \cup IF x[1] = "task" THEN p.uses[x[2]] ELSE {x[2]}

Sorted(p, s) == \A i, j \in 1 .. Len(s) : i < j => Rank(p, s[i]) < Rank(p, s[j])

TaskOf(part) == <<"task", part[1]>>

-----------------------------------------------------------------------------
(* What the proofs ask of a program: that main puts an item on a queue     *)
(* once, and the task of every part;                                       *)
OnceIn(p) ==
  /\ \A s, t \in Calling(p) : s # t => ItemsOf(p.script[s]) \cap ItemsOf(p.script[t]) = {}
  /\ \A x \in Item(p) : On(p, x) \in p.queues
  /\ \A a \in DOMAIN p.reads : TaskOf(a) \in Item(p)

(* that of two parts that conflict queues and events put one before the    *)
(* other;                                                                  *)
ConflictsOrderedIn(p) ==
  \A a, b \in DOMAIN p.reads :
    a # b /\ (p.writes[a] \cap (p.reads[b] \cup p.writes[b])) \ p.atomic # {}
      => Precedes(p, TaskOf(a), TaskOf(b)) \/ Precedes(p, TaskOf(b), TaskOf(a))

(* and likewise of two of which one is to come after the other;            *)
DepOrderedIn(p) == \A d \in p.dep : Precedes(p, TaskOf(d[1]), TaskOf(d[2]))

(* that main destroys what it has waited for,                              *)
DestroyAfterWaitIn(p) ==
  \A t \in Calling(p) : \A x \in Item(p) :
    p.script[t][1] = "destroy" /\ p.script[t][2] \in Needs(p, x) => WaitedFor(p, x, t)

(* and prints, once, when it has waited for all;                           *)
PrintAfterWaitIn(p) ==
  \A t \in Calling(p) : p.script[t][1] = "print" =>
    /\ \A x \in Item(p) : x[1] = "task" => WaitedFor(p, x, t)
    /\ \A u \in Calling(p) : p.script[u][1] = "print" => u = t

(* and that the parts with an executor of their own do not share it.       *)
OwnExecutorsIn(p) ==
  \A a, b \in DOMAIN p.reads : a # b /\ p.eid[a] # AnyExecutor => p.eid[a] # p.eid[b]

(* Where nothing is to wait for ever: that every task has a part, that an  *)
(* event is recorded by an earlier call than those that wait for it, and   *)
(* that main waits for its queues.                                         *)
WaitsAnsweredIn(p) ==
  /\ \A s \in Calling(p) :
       LET c == p.script[s] IN
         \/ c[1] \in {"queue_submit", "memcpy_async", "event_record", "queue_wait_event", "print", "destroy"}
         \/ c[1] = "queue_wait" /\ c[2] \in p.queues
         \/ c[1] = "event_wait" /\ <<"record", c[2]>> \in Item(p) /\ Origin(p, <<"record", c[2]>>) < s
  /\ \A x \in Item(p) :
       \/ x[1] = "task" /\ \E a \in DOMAIN p.reads : TaskOf(a) = x
       \/ \E e \in p.events : x = <<"record", e>>
       \/ \E e \in p.events : /\ x = <<"await", e>> /\ <<"record", e>> \in Item(p)
                              /\ Origin(p, <<"record", e>>) < Origin(p, x)

ItemsOnce == \A n \in DOMAIN Programs : OnceIn(Programs[n])
ConflictsOrdered == \A n \in DOMAIN Programs : ConflictsOrderedIn(Programs[n])
DepOrdered == \A n \in DOMAIN Programs : DepOrderedIn(Programs[n])
DestroyAfterWait == \A n \in DOMAIN Programs : DestroyAfterWaitIn(Programs[n])
PrintAfterWait == \A n \in DOMAIN Programs : PrintAfterWaitIn(Programs[n])
OwnExecutors == \A n \in DOMAIN Programs : OwnExecutorsIn(Programs[n])
WaitsAnswered == \A n \in DOMAIN Programs : WaitsAnsweredIn(Programs[n])

-----------------------------------------------------------------------------
P == Programs[program]

(* An item is submitted when main has passed its call, and gone when it    *)
(* has left its queue.                                                     *)
Submitted(x) == Origin(P, x) < at
Gone(x) == Submitted(x) /\ x \notin ToSet(queue[On(P, x)])

(* A queue holds submitted items in their order, and has let them go in    *)
(* their order.                                                            *)
QueuesInOrder ==
  /\ \A q \in Queue :
       /\ queue[q] \in Seq(Item(P))
       /\ \A x \in ToSet(queue[q]) : On(P, x) = q /\ Submitted(x)
       /\ Sorted(P, queue[q])
  /\ \A x, y \in Item(P) : Gone(y) /\ Earlier(P, x, y) => Gone(x)

(* A part runs when the task is at the head of its queue, and the queue    *)
(* lets the task go when all parts have ended.                             *)
PartsFollowQueues ==
  /\ \A a \in started :
       LET q == On(P, TaskOf(a)) IN
         /\ Submitted(TaskOf(a))
         /\ TaskOf(a) \in ToSet(queue[q]) => Head(queue[q]) = TaskOf(a)
  /\ \A a \in Part : Gone(TaskOf(a)) => a \in ended

(* An event is complete, and what waits for it gone, after its record.     *)
EventsFollowQueues ==
  /\ \A e \in complete : <<"record", e>> \in Item(P) /\ Gone(<<"record", e>>)
  /\ \A e \in Event : <<"await", e>> \in Item(P) /\ Gone(<<"await", e>>)
       => <<"record", e>> \in Item(P) /\ Gone(<<"record", e>>)

(* Main knows gone what it has waited for, and has destroyed and printed   *)
(* by a call.                                                              *)
MainPast ==
  /\ \A x \in Item(P) : WaitedFor(P, x, at) => Gone(x)
  /\ \A y \in destroyed :
       \E t \in Calling(P) : t < at /\ Script[t][1] = "destroy" /\ Script[t][2] = y
  /\ report # NoReport => \E t \in Calling(P) : t < at /\ Script[t][1] = "print"

(* A part that runs took values that are still in memory.                  *)
OperandsCurrent ==
  \A a \in Part :
    /\ DOMAIN operands[a] \subseteq Reads[a] \ AtomicCell
    /\ a \notin started => DOMAIN operands[a] = {}
    /\ a \in Running => \A c \in DOMAIN operands[a] : operands[a][c] = mem[c]

Inductive ==
  /\ TypeOK /\ DOMAIN operands = Part
  /\ QueuesInOrder /\ PartsFollowQueues /\ EventsFollowQueues /\ MainPast /\ OperandsCurrent
-----------------------------------------------------------------------------
(* Sequences at their two ends.                                            *)
LEMMA AppendSeq ==
  ASSUME NEW S, NEW s \in Seq(S), NEW x \in S, NEW t, t = Append(s, x)
  PROVE  /\ t \in Seq(S) /\ Len(s) \in Nat /\ Len(t) = Len(s) + 1
         /\ \A i \in 1 .. Len(s) : t[i] = s[i]
         /\ t[Len(s) + 1] = x
         /\ t # <<>> /\ s # <<>> => Head(t) = Head(s)
<1>1. /\ t \in Seq(S) /\ Len(s) \in Nat /\ Len(t) = Len(s) + 1
      /\ \A i \in 1 .. Len(s) : t[i] = s[i]
      /\ t[Len(s) + 1] = x
  OBVIOUS
<1>4. t # <<>> /\ s # <<>> => Head(t) = Head(s)
  BY <1>1
<1> QED
  BY <1>1, <1>4

LEMMA AppendSet ==
  ASSUME NEW S, NEW s \in Seq(S), NEW x \in S, NEW t \in Seq(S), Len(t) = Len(s) + 1,
         \A i \in 1 .. Len(s) : t[i] = s[i], t[Len(s) + 1] = x
  PROVE  ToSet(t) = ToSet(s) \cup {x}
<1>1. Len(s) \in Nat
  OBVIOUS
<1>2. DOMAIN s = 1 .. Len(s) /\ DOMAIN t = 1 .. Len(s) + 1
  BY <1>1
<1>3. ASSUME NEW i \in DOMAIN t PROVE t[i] \in ToSet(s) \cup {x}
  BY <1>1, <1>2 DEF ToSet
<1>4. ASSUME NEW i \in DOMAIN s PROVE s[i] \in ToSet(t)
  BY <1>1, <1>2 DEF ToSet
<1>5. x \in ToSet(t)
  BY <1>1, <1>2 DEF ToSet
<1> QED
  BY <1>3, <1>4, <1>5 DEF ToSet

LEMMA TailSeq ==
  ASSUME NEW S, NEW s \in Seq(S), s # <<>>, NEW t, t = Tail(s)
  PROVE  /\ t \in Seq(S) /\ Len(s) \in Nat \ {0} /\ Len(t) = Len(s) - 1
         /\ \A i \in 1 .. Len(t) : t[i] = s[i + 1]
         /\ Head(s) = s[1] /\ Head(s) \in S
         /\ ToSet(s) = ToSet(t) \cup {Head(s)}
<1>1. /\ t \in Seq(S) /\ Len(s) \in Nat \ {0} /\ Len(t) = Len(s) - 1
      /\ \A i \in 1 .. Len(t) : t[i] = s[i + 1]
      /\ Head(s) = s[1] /\ s[1] \in S
  OBVIOUS
<1>2. DOMAIN s = 1 .. Len(s) /\ DOMAIN t = 1 .. Len(s) - 1
  BY <1>1
<1>3. ASSUME NEW i \in DOMAIN s PROVE s[i] \in ToSet(t) \cup {s[1]}
  <2>1. i = 1 \/ (i - 1 \in DOMAIN t /\ t[i - 1] = s[i])
    BY <1>1, <1>2
  <2> QED
    BY <2>1 DEF ToSet
<1>4. ASSUME NEW i \in DOMAIN t PROVE t[i] \in ToSet(s)
  <2>1. i + 1 \in DOMAIN s /\ t[i] = s[i + 1]
    BY <1>1, <1>2
  <2> QED
    BY <2>1 DEF ToSet
<1>5. s[1] \in ToSet(s)
  BY <1>1, <1>2 DEF ToSet
<1> QED
  BY <1>1, <1>3, <1>4, <1>5 DEF ToSet

(* A call and the items it puts on a queue.                                *)
LEMMA Origins ==
  ASSUME NEW p, OnceIn(p), Len(p.script) \in Nat
  PROVE  /\ \A s \in Calling(p) : \A x \in ItemsOf(p.script[s]) :
              x \in Item(p) /\ Origin(p, x) = s /\ On(p, x) = QueueOf(p.script[s])
         /\ \A x \in Item(p) :
              /\ Origin(p, x) \in Calling(p) /\ x \in ItemsOf(p.script[Origin(p, x)])
              /\ On(p, x) \in p.queues /\ Rank(p, x) \in Nat /\ Origin(p, x) \in Nat
         /\ \A x, y \in Item(p) :
              /\ Rank(p, x) <= Rank(p, y) => Origin(p, x) <= Origin(p, y)
              /\ Origin(p, x) < Origin(p, y) => Rank(p, x) < Rank(p, y)
         /\ \A a \in DOMAIN p.reads : TaskOf(a) \in Item(p)
<1>1. Len(p.script) \in Nat
  OBVIOUS
<1>2. ASSUME NEW s \in Calling(p), NEW x \in ItemsOf(p.script[s])
      PROVE  x \in Item(p) /\ Origin(p, x) = s
  <2>1. \A t \in Calling(p) : x \in ItemsOf(p.script[t]) => t = s
    BY DEF OnceIn
  <2> QED
    BY <2>1 DEF Item, Origin
<1>3. ASSUME NEW x \in Item(p)
      PROVE  /\ Origin(p, x) \in Calling(p) /\ x \in ItemsOf(p.script[Origin(p, x)])
             /\ On(p, x) \in p.queues /\ Rank(p, x) \in Nat /\ Origin(p, x) \in Nat
  <2>1. PICK s \in Calling(p) : x \in ItemsOf(p.script[s])
    BY DEF Item
  <2>2. Origin(p, x) = s
    BY <1>2, <2>1
  <2>3. s \in Nat
    BY <1>1 DEF Calling
  <2>4. On(p, x) \in p.queues
    BY DEF OnceIn
  <2> QED
    BY <2>1, <2>2, <2>3, <2>4 DEF Rank
<1>4. ASSUME NEW x \in Item(p), NEW y \in Item(p)
      PROVE  /\ Rank(p, x) <= Rank(p, y) => Origin(p, x) <= Origin(p, y)
             /\ Origin(p, x) < Origin(p, y) => Rank(p, x) < Rank(p, y)
  <2>1. Origin(p, x) \in Nat /\ Origin(p, y) \in Nat
    BY <1>3
  <2>2. ASSUME NEW z \in Item(p)
        PROVE  Rank(p, z) = 2 * Origin(p, z) \/ Rank(p, z) = 2 * Origin(p, z) + 1
    BY <1>3 DEF Rank
  <2> QED
    BY <2>1, <2>2
<1>5. \A a \in DOMAIN p.reads : TaskOf(a) \in Item(p)
  BY DEF OnceIn
<1> QED
  BY <1>1, <1>2, <1>3, <1>4, <1>5 DEF On
(* A queue to which main has added items, in the order of their ranks.     *)
Extends(p, t, s, added) ==
  /\ t \in Seq(Item(p)) /\ Sorted(p, t)
  /\ ToSet(t) = ToSet(s) \cup added
  /\ s # <<>> => t # <<>> /\ Head(t) = Head(s)

(* Adding an item of a higher rank, two items, and letting the first go.   *)
LEMMA AppendItem ==
  ASSUME NEW p, NEW s \in Seq(Item(p)), Sorted(p, s), NEW x \in Item(p),
         \A y \in ToSet(s) : Rank(p, y) < Rank(p, x)
  PROVE  Extends(p, Append(s, x), s, {x})
<1>0. PICK t : t = Append(s, x)
  OBVIOUS
<1>1. /\ t \in Seq(Item(p)) /\ Len(s) \in Nat /\ Len(t) = Len(s) + 1
      /\ \A i \in 1 .. Len(s) : t[i] = s[i]
      /\ t[Len(s) + 1] = x
      /\ t # <<>> /\ s # <<>> => Head(t) = Head(s)
  BY <1>0, AppendSeq
<1>2. \A i \in 1 .. Len(s) : Rank(p, s[i]) < Rank(p, x)
  BY DEF ToSet
<1>3. ASSUME NEW i \in 1 .. Len(t), NEW j \in 1 .. Len(t), i < j
      PROVE  Rank(p, t[i]) < Rank(p, t[j])
  <2>1. CASE j = Len(s) + 1
    BY <1>1, <1>2, <1>3, <2>1
  <2>2. CASE j \in 1 .. Len(s)
    <3>1. i \in 1 .. Len(s)
      BY <1>1, <1>3, <2>2
    <3> QED
      BY <1>1, <1>3, <2>2, <3>1 DEF Sorted
  <2> QED
    BY <1>1, <2>1, <2>2
<1>4. ToSet(t) = ToSet(s) \cup {x}
  BY <1>1, AppendSet
<1>5. t # <<>>
  BY <1>1
<1>6. Extends(p, t, s, {x})
  BY <1>1, <1>3, <1>4, <1>5 DEF Extends, Sorted
<1> QED
  BY <1>0, <1>6, Zenon

LEMMA AppendItems ==
  ASSUME NEW p, NEW s \in Seq(Item(p)), Sorted(p, s), NEW x \in Item(p), NEW y \in Item(p),
         \A z \in ToSet(s) : Rank(p, z) < Rank(p, x) /\ Rank(p, z) < Rank(p, y),
         Rank(p, x) < Rank(p, y)
  PROVE  Extends(p, s \o <<x, y>>, s, {x, y})
<1>1. PICK t : t = Append(s, x)
  OBVIOUS
<1>2. Extends(p, t, s, {x})
  BY <1>1, AppendItem
<1>3. t \in Seq(Item(p)) /\ Sorted(p, t) /\ ToSet(t) = ToSet(s) \cup {x}
  BY <1>2 DEF Extends
<1>4. \A z \in ToSet(t) : Rank(p, z) < Rank(p, y)
  BY <1>3
<1>5. Extends(p, Append(t, y), t, {y})
  BY <1>3, <1>4, AppendItem
<1>6. Extends(p, Append(t, y), s, {x, y})
  <2>1. PICK u : u = Append(t, y)
    OBVIOUS
  <2>2. t # <<>>
    BY <1>1
  <2> QED
    BY <1>2, <1>5, <2>1, <2>2 DEF Extends
<1>7. Append(t, y) = s \o <<x, y>>
  BY <1>1
<1> QED
  BY <1>6, <1>7, Zenon

LEMMA TailSorted ==
  ASSUME NEW p, NEW s \in Seq(Item(p)), Sorted(p, s), s # <<>>, NEW t, t = Tail(s),
         \A x \in Item(p) : Rank(p, x) \in Nat
  PROVE  /\ Sorted(p, t) /\ Head(s) \in ToSet(s) /\ ToSet(t) = ToSet(s) \ {Head(s)}
         /\ \A x \in ToSet(s) : x = Head(s) \/ Rank(p, Head(s)) < Rank(p, x)
<1>1. /\ Len(s) \in Nat \ {0} /\ Len(t) = Len(s) - 1
      /\ \A i \in 1 .. Len(t) : t[i] = s[i + 1]
      /\ Head(s) = s[1] /\ Head(s) \in Item(p)
      /\ ToSet(s) = ToSet(t) \cup {Head(s)}
      /\ t \in Seq(Item(p))
  <2>1. /\ Len(s) \in Nat \ {0} /\ Len(t) = Len(s) - 1
        /\ \A i \in 1 .. Len(t) : t[i] = s[i + 1]
        /\ Head(s) = s[1] /\ Head(s) \in Item(p)
        /\ t \in Seq(Item(p))
    OBVIOUS
  <2>2. ToSet(s) = ToSet(t) \cup {Head(s)}
    BY TailSeq, Zenon
  <2> QED
    BY <2>1, <2>2
<1>2. DOMAIN t = 1 .. Len(t)
  BY <1>1
<1>3. ASSUME NEW i \in 1 .. Len(t), NEW j \in 1 .. Len(t), i < j
      PROVE  Rank(p, t[i]) < Rank(p, t[j])
  <2>1. /\ i + 1 \in 1 .. Len(s) /\ j + 1 \in 1 .. Len(s) /\ i + 1 < j + 1
        /\ t[i] = s[i + 1] /\ t[j] = s[j + 1]
    BY <1>1, <1>3
  <2> QED
    BY <2>1 DEF Sorted
<1>4. ASSUME NEW x \in ToSet(t) PROVE Rank(p, Head(s)) < Rank(p, x)
  <2>1. PICK i \in 1 .. Len(t) : x = t[i]
    BY <1>2 DEF ToSet
  <2>2. 1 \in 1 .. Len(s) /\ i + 1 \in 1 .. Len(s) /\ 1 < i + 1 /\ x = s[i + 1]
    BY <1>1, <2>1
  <2> QED
    BY <1>1, <2>2 DEF Sorted
<1>5. Head(s) \notin ToSet(t)
  <2>1. Rank(p, Head(s)) \in Nat
    BY <1>1
  <2> QED
    BY <1>4, <2>1
<1> QED
  BY <1>1, <1>3, <1>4, <1>5 DEF Sorted

-----------------------------------------------------------------------------
(* The program that runs, and so its items, stay what they are.            *)
LEMMA SameProgram ==
  ASSUME [Next]_vars
  PROVE  /\ program' = program /\ P' = P /\ Script' = Script /\ Queue' = Queue /\ Event' = Event
         /\ Part' = Part /\ Reads' = Reads /\ Writes' = Writes /\ Cell' = Cell
         /\ AtomicCell' = AtomicCell /\ Uses' = Uses /\ Eid' = Eid
<1>1. program' = program
  BY DEF Next, Main, QueueSubmit, MemcpyAsync, EventRecord, QueueWaitEvent, QueueWait, EventWait,
     PrintResult, Destroy, Executors, LoadOperand, Load, Serve, Start, End, CompleteEvent,
     EventArrives, MainThread, vars
<1> QED
  BY <1>1 DEF P, Script, Queue, Event, Part, Reads, Writes, Cell, AtomicCell, Uses, Eid

LEMMA ItemsOfP ==
  ASSUME ItemsOnce, TypeOK
  PROVE  /\ Script = P.script /\ Queue = P.queues /\ Event = P.events /\ Reads = P.reads
         /\ Writes = P.writes /\ Part = DOMAIN P.reads /\ Len(Script) \in Nat
         /\ at \in Nat /\ at >= 1 /\ Calling(P) = 1 .. Len(Script)
         /\ \A s \in Calling(P) : \A x \in ItemsOf(Script[s]) :
              x \in Item(P) /\ Origin(P, x) = s /\ On(P, x) = QueueOf(Script[s])
         /\ \A x \in Item(P) :
              /\ Origin(P, x) \in Calling(P) /\ x \in ItemsOf(Script[Origin(P, x)])
              /\ On(P, x) \in Queue /\ Rank(P, x) \in Nat /\ Origin(P, x) \in Nat
         /\ \A x, y \in Item(P) :
              /\ Rank(P, x) <= Rank(P, y) => Origin(P, x) <= Origin(P, y)
              /\ Origin(P, x) < Origin(P, y) => Rank(P, x) < Rank(P, y)
         /\ \A a \in Part : TaskOf(a) \in Item(P)
<1>1. program \in DOMAIN Programs /\ P = Programs[program]
  BY DEF TypeOK, P
<1>2. /\ Script = P.script /\ Queue = P.queues /\ Event = P.events /\ Reads = P.reads
      /\ Writes = P.writes /\ Part = DOMAIN P.reads
  BY DEF Script, Queue, Event, Reads, Writes, Part, P
<1>3. Len(P.script) \in Nat /\ OnceIn(P)
  BY <1>1, ProgramsAssumption DEF ItemsOnce
<1>4. at \in Nat /\ at >= 1
  BY <1>2, <1>3 DEF TypeOK
<1> QED
  BY <1>1, <1>2, <1>3, <1>4, Origins DEF Calling

(* What a call of main does to the queues: it adds its items to the queue  *)
(* it is for.                                                              *)
AddedTo(call, q) == {x \in ItemsOf(call) : On(P, x) = q}

LEMMA MainQueues ==
  ASSUME ItemsOnce, TypeOK, QueuesInOrder, Main
  PROVE  /\ at \in Calling(P) /\ at' = at + 1 /\ DOMAIN queue' = Queue
         /\ \A q \in Queue : Extends(P, queue'[q], queue[q], AddedTo(Script[at], q))
<1> DEFINE call == Script[at]
<1>1. at \in Calling(P) /\ at' = at + 1
  BY ItemsOfP DEF Main, QueueSubmit, MemcpyAsync, EventRecord, QueueWaitEvent, QueueWait, EventWait,
     PrintResult, Destroy, Calls
<1>2. \A x \in ItemsOf(call) : x \in Item(P) /\ Origin(P, x) = at /\ On(P, x) = QueueOf(call)
  BY <1>1, ItemsOfP
<1>3. DOMAIN queue = Queue
  BY DEF TypeOK
<1>4. \A q \in Queue : queue[q] \in Seq(Item(P)) /\ Sorted(P, queue[q])
  BY DEF QueuesInOrder
<1>5. ASSUME NEW q \in Queue, NEW x \in ItemsOf(call)
      PROVE  \A y \in ToSet(queue[q]) : Rank(P, y) < Rank(P, x)
  <2>1. \A y \in ToSet(queue[q]) : y \in Item(P) /\ Origin(P, y) < at
    BY DEF QueuesInOrder, Submitted, ToSet
  <2> QED
    BY <1>2, <2>1, ItemsOfP
<1>6. ASSUME NEW q \in Queue PROVE AddedTo(call, q) = IF q = QueueOf(call) THEN ItemsOf(call) ELSE {}
  BY <1>2 DEF AddedTo
<1>7. \A q \in Queue : Extends(P, queue[q], queue[q], {})
  BY <1>4 DEF Extends
<1>8. ASSUME NEW q, q = QueueOf(call), NEW t, queue' = [queue EXCEPT ![q] = t],
             ItemsOf(call) # {}, Extends(P, t, queue[q], ItemsOf(call))
      PROVE  DOMAIN queue' = Queue /\ \A r \in Queue : Extends(P, queue'[r], queue[r], AddedTo(call, r))
  <2>1. q \in Queue
    BY <1>2, <1>8, ItemsOfP
  <2>2. DOMAIN queue' = Queue /\ queue'[q] = t /\ \A r \in Queue \ {q} : queue'[r] = queue[r]
    BY <1>3, <1>8, <2>1
  <2> HIDE DEF call
  <2> QED
    BY <1>6, <1>7, <1>8, <2>2
<1>9. ASSUME NEW q, q = QueueOf(call), NEW x, ItemsOf(call) = {x},
             queue' = [queue EXCEPT ![q] = Append(@, x)]
      PROVE  DOMAIN queue' = Queue /\ \A r \in Queue : Extends(P, queue'[r], queue[r], AddedTo(call, r))
  <2>1. q \in Queue /\ x \in Item(P)
    BY <1>2, <1>9, ItemsOfP
  <2>2. queue[q] \in Seq(Item(P)) /\ Sorted(P, queue[q])
        /\ \A y \in ToSet(queue[q]) : Rank(P, y) < Rank(P, x)
    BY <1>4, <1>5, <1>9, <2>1
  <2>3. Extends(P, Append(queue[q], x), queue[q], {x})
    BY <2>1, <2>2, AppendItem
  <2> QED
    BY <1>8, <1>9, <2>3
<1>10. CASE MemcpyAsync
  <2> DEFINE q == call[2]
             x == <<"task", call[3]>>
             y == <<"record", call[4]>>
  <2>1. /\ call[1] = "memcpy_async" /\ ItemsOf(call) = {x, y} /\ QueueOf(call) = q
        /\ queue' = [queue EXCEPT ![q] = @ \o <<x, y>>]
    BY <1>10 DEF MemcpyAsync, Calls, Call, ItemsOf, QueueOf
  <2>2. q \in Queue /\ x \in Item(P) /\ y \in Item(P) /\ Rank(P, x) < Rank(P, y)
    <3>1. q \in Queue /\ x \in Item(P) /\ y \in Item(P)
      BY <1>2, <2>1, ItemsOfP
    <3>2. Origin(P, x) = at /\ Origin(P, y) = at /\ at \in Nat
      BY <1>2, <2>1, ItemsOfP
    <3> QED
      BY <3>1, <3>2 DEF Rank
  <2> HIDE DEF q, x, y
  <2>3. queue[q] \in Seq(Item(P)) /\ Sorted(P, queue[q])
        /\ \A z \in ToSet(queue[q]) : Rank(P, z) < Rank(P, x) /\ Rank(P, z) < Rank(P, y)
    BY <1>4, <1>5, <2>1, <2>2
  <2>4. Extends(P, queue[q] \o <<x, y>>, queue[q], ItemsOf(call))
    BY <2>1, <2>2, <2>3, AppendItems
  <2>5. ItemsOf(call) # {}
    BY <2>1
  <2> QED
    BY <1>1, <1>8, <2>1, <2>4, <2>5
<1>11. CASE QueueSubmit \/ EventRecord \/ QueueWaitEvent
  <2>1. \E q, x : q = QueueOf(call) /\ ItemsOf(call) = {x}
                     /\ queue' = [queue EXCEPT ![q] = Append(@, x)]
    BY <1>11 DEF QueueSubmit, EventRecord, QueueWaitEvent, Calls, Call, ItemsOf, QueueOf
  <2> QED
    BY <1>1, <1>9, <2>1
<1>12. CASE QueueWait \/ EventWait \/ PrintResult \/ Destroy
  <2>1. UNCHANGED queue /\ ItemsOf(call) = {}
    BY <1>12 DEF QueueWait, EventWait, PrintResult, Destroy, Calls, Call, ItemsOf
  <2> QED
    BY <1>1, <1>3, <1>6, <1>7, <2>1
<1> QED
  BY <1>10, <1>11, <1>12 DEF Main
(* The head of a queue, and what is left when it has gone.                 *)
LEMMA PoppedQueue ==
  ASSUME ItemsOnce, TypeOK, QueuesInOrder, NEW q \in Queue, queue[q] # <<>>,
         NEW h, h = Head(queue[q])
  PROVE  /\ h \in Item(P) /\ On(P, h) = q /\ Submitted(h) /\ h \in ToSet(queue[q])
         /\ \A x \in ToSet(queue[q]) : x = h \/ Rank(P, h) < Rank(P, x)
         /\ Pop(q) => /\ DOMAIN queue' = Queue
                      /\ queue'[q] \in Seq(Item(P)) /\ Sorted(P, queue'[q])
                      /\ ToSet(queue'[q]) = ToSet(queue[q]) \ {h}
                      /\ \A r \in Queue \ {q} : queue'[r] = queue[r]
<1>1. PICK s : s = queue[q]
  OBVIOUS
<1>2. s \in Seq(Item(P))
  BY <1>1 DEF QueuesInOrder
<1>3. Sorted(P, s)
  BY <1>1 DEF QueuesInOrder
<1>4. \A x \in Item(P) : Rank(P, x) \in Nat
  BY ItemsOfP
<1>5. PICK t : t = Tail(s)
  OBVIOUS
<1>6. /\ Sorted(P, t) /\ Head(s) \in ToSet(s) /\ ToSet(t) = ToSet(s) \ {Head(s)}
      /\ \A x \in ToSet(s) : x = Head(s) \/ Rank(P, Head(s)) < Rank(P, x)
  BY <1>1, <1>2, <1>3, <1>4, <1>5, TailSorted
<1>7. t \in Seq(Item(P)) /\ Head(s) \in Item(P)
  BY <1>1, <1>2, <1>5
<1>8. On(P, h) = q /\ Submitted(h)
  BY <1>1, <1>6 DEF QueuesInOrder
<1>9. ASSUME Pop(q)
      PROVE  DOMAIN queue' = Queue /\ queue'[q] = t /\ \A r \in Queue \ {q} : queue'[r] = queue[r]
  <2>1. DOMAIN queue = Queue
    BY DEF TypeOK
  <2> QED
    BY <1>1, <1>5, <1>9, <2>1 DEF Pop
<1> QED
  BY <1>1, <1>6, <1>7, <1>8, <1>9

LEMMA HeadIsNext ==
  ASSUME ItemsOnce, TypeOK, QueuesInOrder, NEW q \in Queue, queue[q] # <<>>,
         NEW x \in Item(P), Earlier(P, x, Head(queue[q]))
  PROVE  Gone(x)
<1>1. PICK h : h = Head(queue[q])
  OBVIOUS
<1>2. /\ h \in Item(P) /\ On(P, h) = q /\ Submitted(h)
      /\ \A y \in ToSet(queue[q]) : y = h \/ Rank(P, h) < Rank(P, y)
  BY <1>1, PoppedQueue
<1>3. /\ Rank(P, x) \in Nat /\ Rank(P, h) \in Nat /\ Origin(P, x) \in Nat /\ Origin(P, h) \in Nat
      /\ Rank(P, x) <= Rank(P, h) => Origin(P, x) <= Origin(P, h)
      /\ at \in Nat
  BY <1>2, ItemsOfP
<1>4. On(P, x) = q /\ Rank(P, x) < Rank(P, h)
  BY <1>1, <1>2 DEF Earlier
<1>5. Submitted(x)
  BY <1>2, <1>3, <1>4 DEF Submitted
<1>6. x \notin ToSet(queue[q])
  BY <1>2, <1>3, <1>4
<1> QED
  BY <1>4, <1>5, <1>6 DEF Gone

(* A call of main lets no item go, and an item that leaves a queue goes.   *)
LEMMA MainGone ==
  ASSUME ItemsOnce, TypeOK, QueuesInOrder, Main, [Next]_vars, NEW x \in Item(P)
  PROVE  Gone(x)' <=> Gone(x)
<1>1. /\ at' = at + 1 /\ at \in Nat /\ Origin(P, x) \in Nat /\ On(P, x) \in Queue /\ at \in Calling(P)
      /\ Origin(P, x) = at => x \in ItemsOf(Script[at])
      /\ x \in ItemsOf(Script[at]) => Origin(P, x) = at
  BY MainQueues, ItemsOfP
<1>2. ToSet(queue'[On(P, x)]) = ToSet(queue[On(P, x)]) \cup AddedTo(Script[at], On(P, x))
  BY <1>1, MainQueues DEF Extends
<1>3. P' = P
  BY SameProgram
<1>4. x \in AddedTo(Script[at], On(P, x)) <=> Origin(P, x) = at
  BY <1>1 DEF AddedTo
<1>5. Gone(x)' <=> Origin(P, x) < at + 1 /\ x \notin ToSet(queue'[On(P, x)])
  BY <1>1, <1>3 DEF Gone, Submitted
<1> QED
  BY <1>1, <1>2, <1>4, <1>5 DEF Gone, Submitted

LEMMA PopGone ==
  ASSUME ItemsOnce, TypeOK, QueuesInOrder, [Next]_vars, NEW q \in Queue, queue[q] # <<>>,
         Pop(q), at' = at, NEW x \in Item(P)
  PROVE  Gone(x)' <=> Gone(x) \/ x = Head(queue[q])
<1>1. PICK h : h = Head(queue[q])
  OBVIOUS
<1>2. /\ On(P, h) = q /\ Submitted(h) /\ h \in ToSet(queue[q])
      /\ ToSet(queue'[q]) = ToSet(queue[q]) \ {h} /\ \A r \in Queue \ {q} : queue'[r] = queue[r]
  BY <1>1, PoppedQueue
<1>3. P' = P /\ On(P, x) \in Queue
  BY SameProgram, ItemsOfP
<1>4. Gone(x)' <=> Submitted(x) /\ x \notin ToSet(queue'[On(P, x)])
  BY <1>3 DEF Gone, Submitted
<1>5. CASE On(P, x) = q
  BY <1>1, <1>2, <1>4, <1>5 DEF Gone
<1>6. CASE On(P, x) # q
  BY <1>1, <1>2, <1>3, <1>4, <1>6 DEF Gone
<1> QED
  BY <1>5, <1>6

LEMMA StayGone ==
  ASSUME [Next]_vars, UNCHANGED <<queue, at>>, NEW x
  PROVE  Gone(x)' <=> Gone(x)
<1>1. P' = P
  BY SameProgram
<1> QED
  BY <1>1 DEF Gone, Submitted

(* Every step is a call of main, lets the head of one queue go, or leaves  *)
(* the queues alone.                                                       *)
LEMMA StepKinds ==
  ASSUME [Next]_vars
  PROVE  \/ Main
         \/ \E q \in Queue : queue[q] # <<>> /\ Pop(q) /\ at' = at
         \/ UNCHANGED <<queue, at>>
<1>1. ASSUME NEW q \in Queue, Serve(q)
      PROVE  queue[q] # <<>> /\ at' = at /\ (Pop(q) \/ UNCHANGED queue)
  BY <1>1 DEF Serve, Start, End, CompleteEvent, EventArrives, AtHead, Executors, MainThread
<1>2. LoadOperand => UNCHANGED <<queue, at>>
  BY DEF LoadOperand, Load, MainThread
<1>3. UNCHANGED vars => UNCHANGED <<queue, at>>
  BY DEF vars
<1> QED
  BY <1>1, <1>2, <1>3 DEF Next

LEMMA GoneKept ==
  ASSUME ItemsOnce, TypeOK, QueuesInOrder, [Next]_vars, NEW x \in Item(P)
  PROVE  Gone(x) => Gone(x)'
BY StepKinds, MainGone, PopGone, StayGone

LEMMA QueuesStep ==
  ASSUME ItemsOnce, TypeOK, QueuesInOrder, [Next]_vars
  PROVE  QueuesInOrder' /\ DOMAIN queue' = Queue
<1>1. P' = P /\ Queue' = Queue
  BY SameProgram
<1>2. at \in Nat
  BY ItemsOfP
<1>3. ASSUME NEW q \in Queue
      PROVE  /\ queue'[q] \in Seq(Item(P)) /\ Sorted(P, queue'[q])
             /\ \A x \in ToSet(queue'[q]) : On(P, x) = q /\ Origin(P, x) < at'
             /\ DOMAIN queue' = Queue
  <2>1. \A x \in ToSet(queue[q]) : On(P, x) = q /\ Origin(P, x) < at /\ x \in Item(P)
    BY DEF QueuesInOrder, Submitted, ToSet
  <2>2. CASE Main
    <3>1. /\ at' = at + 1 /\ at \in Calling(P) /\ DOMAIN queue' = Queue
          /\ Extends(P, queue'[q], queue[q], AddedTo(Script[at], q))
      BY <2>2, MainQueues
    <3>2. \A x \in AddedTo(Script[at], q) : On(P, x) = q /\ Origin(P, x) = at
      BY <3>1, ItemsOfP DEF AddedTo
    <3>3. \A x \in ToSet(queue[q]) : On(P, x) = q /\ Origin(P, x) < at + 1
      BY <1>2, <2>1, ItemsOfP
    <3> QED
      BY <1>2, <3>1, <3>2, <3>3 DEF Extends
  <2>3. CASE \E r \in Queue : queue[r] # <<>> /\ Pop(r) /\ at' = at
    <3>1. PICK r \in Queue : queue[r] # <<>> /\ Pop(r) /\ at' = at
      BY <2>3
    <3>2. /\ DOMAIN queue' = Queue
          /\ queue'[r] \in Seq(Item(P)) /\ Sorted(P, queue'[r])
          /\ ToSet(queue'[r]) = ToSet(queue[r]) \ {Head(queue[r])}
          /\ \A z \in Queue \ {r} : queue'[z] = queue[z]
      BY <3>1, PoppedQueue
    <3>3. CASE q = r
      BY <2>1, <3>1, <3>2, <3>3
    <3>4. CASE q # r
      <4>1. queue[q] \in Seq(Item(P)) /\ Sorted(P, queue[q]) /\ queue'[q] = queue[q]
        BY <3>2, <3>4 DEF QueuesInOrder
      <4> QED
        BY <2>1, <3>1, <3>2, <4>1
    <3> QED
      BY <3>3, <3>4
  <2>4. CASE UNCHANGED <<queue, at>>
    <3>1. queue[q] \in Seq(Item(P)) /\ Sorted(P, queue[q]) /\ DOMAIN queue = Queue
      BY DEF QueuesInOrder, TypeOK
    <3> QED
      BY <2>1, <2>4, <3>1
  <2> QED
    BY <2>2, <2>3, <2>4, StepKinds
<1>4. ASSUME NEW x \in Item(P), NEW y \in Item(P), Gone(y)', Earlier(P, x, y)
      PROVE  Gone(x)'
  <2>1. CASE Gone(y)
    <3>1. Gone(x)
      BY <1>4, <2>1 DEF QueuesInOrder
    <3> QED
      BY <3>1, GoneKept
  <2>2. CASE ~Gone(y)
    <3>1. PICK q \in Queue : queue[q] # <<>> /\ Pop(q) /\ at' = at
      BY <1>4, <2>2, StepKinds, MainGone, StayGone
    <3>2. y = Head(queue[q])
      BY <1>4, <2>2, <3>1, PopGone
    <3>3. Gone(x)
      BY <1>4, <3>1, <3>2, HeadIsNext
    <3> QED
      BY <3>3, GoneKept
  <2> QED
    BY <2>1, <2>2
<1>5. DOMAIN queue' = Queue
  BY <1>3, StepKinds, MainQueues, PoppedQueue DEF TypeOK
<1> QED
  BY <1>1, <1>3, <1>4, <1>5 DEF QueuesInOrder, Submitted

-----------------------------------------------------------------------------
(* What is gone when an item is gone, or at the head of its queue.         *)
LEMMA RecordGone ==
  ASSUME QueuesInOrder, EventsFollowQueues, TypeOK, ItemsOnce, NEW x \in Item(P), NEW e \in Event,
         BeforeEvent(P, x, e), Gone(<<"await", e>>)
  PROVE  Gone(x)
<1>1. {<<"record", e>>, <<"await", e>>} \subseteq Item(P) /\ NotLater(P, x, <<"record", e>>)
  BY DEF BeforeEvent, Awaited
<1>2. Gone(<<"record", e>>)
  BY <1>1 DEF EventsFollowQueues
<1> QED
  BY <1>1, <1>2 DEF NotLater, QueuesInOrder

LEMMA GoneWithGone ==
  ASSUME QueuesInOrder, EventsFollowQueues, TypeOK, ItemsOnce,
         NEW x \in Item(P), NEW y \in Item(P), Gone(y), GoneWith(P, x, y)
  PROVE  Gone(x)
<1>1. CASE NotLater(P, x, y)
  BY <1>1 DEF NotLater, QueuesInOrder
<1>2. CASE \E e \in P.events : BeforeEvent(P, x, e) /\ NotLater(P, <<"await", e>>, y)
  <2>1. PICK e \in Event : BeforeEvent(P, x, e) /\ NotLater(P, <<"await", e>>, y)
    BY <1>2, ItemsOfP
  <2>2. <<"await", e>> \in Item(P)
    BY <2>1 DEF BeforeEvent, Awaited
  <2>3. Gone(<<"await", e>>)
    BY <2>1, <2>2 DEF NotLater, QueuesInOrder
  <2> QED
    BY <2>1, <2>3, RecordGone
<1> QED
  BY <1>1, <1>2 DEF GoneWith

LEMMA PrecedesGone ==
  ASSUME QueuesInOrder, EventsFollowQueues, TypeOK, ItemsOnce, NEW x \in Item(P),
         NEW q \in Queue, queue[q] # <<>>, Precedes(P, x, Head(queue[q]))
  PROVE  Gone(x)
<1>1. CASE Earlier(P, x, Head(queue[q]))
  BY <1>1, HeadIsNext
<1>2. CASE \E e \in P.events : BeforeEvent(P, x, e) /\ Earlier(P, <<"await", e>>, Head(queue[q]))
  <2>1. PICK e \in Event : BeforeEvent(P, x, e) /\ Earlier(P, <<"await", e>>, Head(queue[q]))
    BY <1>2, ItemsOfP
  <2>2. <<"await", e>> \in Item(P)
    BY <2>1 DEF BeforeEvent, Awaited
  <2>3. Gone(<<"await", e>>)
    BY <2>1, <2>2, HeadIsNext
  <2> QED
    BY <2>1, <2>3, RecordGone
<1> QED
  BY <1>1, <1>2 DEF Precedes

(* The task of a part that runs is at the head of its queue, so what       *)
(* precedes it has ended.                                                  *)
LEMMA RunningAtHead ==
  ASSUME QueuesInOrder, PartsFollowQueues, TypeOK, ItemsOnce, NEW a \in Running
  PROVE  LET q == On(P, TaskOf(a)) IN
           a \in Part /\ q \in Queue /\ queue[q] # <<>> /\ Head(queue[q]) = TaskOf(a)
<1>1. a \in Part /\ a \in started /\ a \notin ended
  BY DEF Running, TypeOK
<1>2. TaskOf(a) \in Item(P) /\ On(P, TaskOf(a)) \in Queue
  BY <1>1, ItemsOfP
<1>3. TaskOf(a) \in ToSet(queue[On(P, TaskOf(a))])
  BY <1>1 DEF PartsFollowQueues, Gone
<1>4. queue[On(P, TaskOf(a))] # <<>>
  BY <1>3 DEF ToSet
<1> QED
  BY <1>1, <1>2, <1>3, <1>4 DEF PartsFollowQueues

LEMMA PrecededEnded ==
  ASSUME QueuesInOrder, PartsFollowQueues, EventsFollowQueues, TypeOK, ItemsOnce,
         NEW b \in Running, NEW a \in Part, Precedes(P, TaskOf(a), TaskOf(b))
  PROVE  a \in ended
<1>1. PICK q \in Queue : queue[q] # <<>> /\ Head(queue[q]) = TaskOf(b)
  BY RunningAtHead
<1>2. TaskOf(a) \in Item(P)
  BY ItemsOfP
<1>3. Gone(TaskOf(a))
  BY <1>1, <1>2, PrecedesGone
<1> QED
  BY <1>3 DEF PartsFollowQueues

LEMMA NoRace ==
  ASSUME QueuesInOrder, PartsFollowQueues, EventsFollowQueues, TypeOK, ItemsOnce, ConflictsOrdered
  PROVE  RaceFree
<1> SUFFICES ASSUME NEW a \in Running, NEW b \in Running, a # b,
                    (Writes[a] \cap (Reads[b] \cup Writes[b])) \ AtomicCell # {}
             PROVE  FALSE
  BY DEF RaceFree
<1>1. a \in Part /\ b \in Part /\ a \notin ended /\ b \notin ended /\ program \in DOMAIN Programs
  BY DEF Running, TypeOK
<1>2. Precedes(P, TaskOf(a), TaskOf(b)) \/ Precedes(P, TaskOf(b), TaskOf(a))
  BY <1>1 DEF ConflictsOrdered, ConflictsOrderedIn, P, Part, Reads, Writes, AtomicCell
<1> QED
  BY <1>1, <1>2, PrecededEnded

-----------------------------------------------------------------------------
(* Every step keeps the parts of the invariant.                            *)
LEMMA TypesStep ==
  ASSUME ItemsOnce, TypeOK, QueuesInOrder, [Next]_vars, DOMAIN operands = Part
  PROVE  TypeOK' /\ DOMAIN operands' = Part
<1>1. /\ program' = program /\ Script' = Script /\ Queue' = Queue /\ Event' = Event
      /\ Part' = Part /\ Cell' = Cell
  BY SameProgram
<1>2. at \in 1 .. Len(Script) + 1 /\ Len(Script) \in Nat /\ at \in Nat
  BY ItemsOfP DEF TypeOK
<1>3. at' \in 1 .. Len(Script) + 1
  <2>1. Main => at' = at + 1 /\ at \in 1 .. Len(Script)
    BY MainQueues, ItemsOfP
  <2> QED
    BY <1>2, <2>1, StepKinds
<1>4. DOMAIN queue' = Queue
  BY QueuesStep
<1>5. complete' \subseteq Event /\ started' \subseteq Part /\ ended' \subseteq started'
      /\ DOMAIN mem' = Cell /\ DOMAIN operands' = Part
  <2>1. CASE Main
    BY <2>1 DEF TypeOK, Main, QueueSubmit, MemcpyAsync, EventRecord, QueueWaitEvent, QueueWait,
       EventWait, PrintResult, Destroy, Executors
  <2>2. CASE LoadOperand
    BY <2>2 DEF TypeOK, LoadOperand, Load
  <2>3. CASE \E q \in Queue : Serve(q)
    <3>1. PICK q \in Queue : Serve(q)
      BY <2>3
    <3>2. ASSUME NEW e \in Event, CompleteEvent(q, e) \/ EventArrives(q, e)
          PROVE  /\ complete' \subseteq Event /\ started' \subseteq Part /\ ended' \subseteq started'
                 /\ DOMAIN mem' = Cell /\ DOMAIN operands' = Part
      BY <3>2 DEF TypeOK, CompleteEvent, EventArrives, Executors
    <3>3. ASSUME NEW p \in Part, Start(q, p) \/ End(q, p)
          PROVE  /\ complete' \subseteq Event /\ started' \subseteq Part /\ ended' \subseteq started'
                 /\ DOMAIN mem' = Cell /\ DOMAIN operands' = Part
      <4>1. DOMAIN mem' = Cell
        BY <3>3 DEF TypeOK, Start, End, Store
      <4> QED
        BY <3>3, <4>1 DEF TypeOK, Start, End, Running
    <3> QED
      BY <3>1, <3>2, <3>3 DEF Serve
  <2>4. CASE UNCHANGED vars
    BY <2>4 DEF TypeOK, vars
  <2> QED
    BY <2>1, <2>2, <2>3, <2>4 DEF Next
<1> QED
  BY <1>1, <1>3, <1>4, <1>5 DEF TypeOK

(* What a step does to the parts and events: it starts or ends a part at   *)
(* the head of a queue, or completes an event there.                       *)
LEMMA StepEffects ==
  ASSUME ItemsOnce, TypeOK, QueuesInOrder, [Next]_vars
  PROVE  /\ started \subseteq started' /\ ended \subseteq ended'
         /\ \A a \in started' \ started : \E q \in Queue :
              queue[q] # <<>> /\ Head(queue[q]) = TaskOf(a) /\ UNCHANGED <<queue, at>>
         /\ \A a \in Part, q \in Queue :
              queue[q] # <<>> /\ Head(queue[q]) = TaskOf(a) /\ Pop(q) /\ at' = at => a \in ended'
         /\ \A e \in complete' \ complete : \E q \in Queue :
              queue[q] # <<>> /\ Head(queue[q]) = <<"record", e>> /\ Pop(q) /\ at' = at
         /\ \A e \in Event, q \in Queue :
              queue[q] # <<>> /\ Head(queue[q]) = <<"await", e>> /\ Pop(q) /\ at' = at => e \in complete
<1>0. at \in Nat
  BY ItemsOfP
<1>1. \A q \in Queue : queue[q] # <<>> /\ Pop(q) => queue' # queue
                          /\ \A r \in Queue : Pop(r) => r = q
  <2> SUFFICES ASSUME NEW q \in Queue, queue[q] # <<>>, Pop(q)
               PROVE  queue'[q] # queue[q] /\ \A r \in Queue \ {q} : queue'[r] = queue[r]
    <3>1. \A r \in Queue : Pop(r) => \A z \in Queue \ {r} : queue'[z] = queue[z]
      BY DEF Pop, TypeOK
    <3> QED
      BY <3>1
  <2> QED
    BY PoppedQueue
<1>2. CASE Main
  <2>1. at' = at + 1
    BY <1>2, MainQueues
  <2>2. started' = started /\ ended' = ended /\ complete' \subseteq complete
    BY <1>2 DEF Main, QueueSubmit, MemcpyAsync, EventRecord, QueueWaitEvent, QueueWait,
       EventWait, PrintResult, Destroy, Executors
  <2> QED
    BY <1>0, <2>1, <2>2
<1>3. CASE LoadOperand \/ UNCHANGED vars
  <2>1. UNCHANGED <<queue, complete, started, ended>>
    BY <1>3 DEF LoadOperand, Load, vars
  <2> QED
    BY <1>1, <2>1
<1>4. CASE \E q \in Queue : Serve(q)
  <2>1. PICK q \in Queue : Serve(q)
    BY <1>4
  <2>2. ASSUME NEW p \in Part, Start(q, p)
        PROVE  /\ started' = started \cup {p} /\ UNCHANGED <<queue, at, complete, ended>>
               /\ queue[q] # <<>> /\ Head(queue[q]) = TaskOf(p)
    BY <2>2 DEF Start, AtHead, TaskOf, MainThread
  <2>3. ASSUME NEW p \in Part, End(q, p)
        PROVE  /\ UNCHANGED <<at, complete, started>> /\ ended' = ended \cup {p}
               /\ queue[q] # <<>> /\ Head(queue[q]) = TaskOf(p)
               /\ UNCHANGED queue \/ (Pop(q) /\ \A r \in Part : r[1] = p[1] => r \in ended')
    BY <2>3 DEF End, AtHead, TaskOf, MainThread
  <2>4. ASSUME NEW e \in Event, CompleteEvent(q, e)
        PROVE  /\ UNCHANGED <<at, started, ended>> /\ complete' = complete \cup {e}
               /\ queue[q] # <<>> /\ Head(queue[q]) = <<"record", e>> /\ Pop(q)
    BY <2>4 DEF CompleteEvent, AtHead, MainThread, Executors
  <2>5. ASSUME NEW e \in Event, EventArrives(q, e)
        PROVE  /\ UNCHANGED <<at, started, ended, complete>> /\ e \in complete
               /\ queue[q] # <<>> /\ Head(queue[q]) = <<"await", e>> /\ Pop(q)
    BY <2>5 DEF EventArrives, AtHead, MainThread, Executors
  <2>6. \A x, y : <<"record", x>> # <<"task", y>> /\ <<"await", x>> # <<"task", y>>
                   /\ <<"await", x>> # <<"record", y>> /\ (<<"task", x>> = <<"task", y>> => x = y)
                   /\ (<<"await", x>> = <<"await", y>> => x = y)
    OBVIOUS
  <2> QED
    BY <1>1, <2>1, <2>2, <2>3, <2>4, <2>5, <2>6 DEF Serve, TaskOf
<1> QED
  BY <1>2, <1>3, <1>4 DEF Next

LEMMA PartsStep ==
  ASSUME ItemsOnce, TypeOK, QueuesInOrder, PartsFollowQueues, [Next]_vars
  PROVE  PartsFollowQueues'
<1>1. P' = P /\ Part' = Part
  BY SameProgram
<1>2. ASSUME NEW a \in started', TaskOf(a) \in Item(P)
      PROVE  LET q == On(P, TaskOf(a)) IN
               /\ Submitted(TaskOf(a))'
               /\ TaskOf(a) \in ToSet(queue'[q]) => Head(queue'[q]) = TaskOf(a)
  <2> DEFINE x == TaskOf(a)
             q == On(P, x)
  <2>1. q \in Queue /\ x \in Item(P) /\ at \in Nat /\ Origin(P, x) \in Nat
    BY <1>2, ItemsOfP
  <2>2. CASE a \in started
    <3>1. /\ Origin(P, x) < at
          /\ x \in ToSet(queue[q]) => Head(queue[q]) = x
      BY <2>2 DEF PartsFollowQueues, Submitted
    <3>2. x \in ToSet(queue[q]) => queue[q] # <<>>
      BY DEF ToSet
    <3> HIDE DEF x, q
    <3>3. CASE Main
      <4>1. /\ at' = at + 1
            /\ ToSet(queue'[q]) = ToSet(queue[q]) \cup AddedTo(Script[at], q)
            /\ queue[q] # <<>> => Head(queue'[q]) = Head(queue[q])
        BY <2>1, <3>3, MainQueues DEF Extends
      <4>2. x \notin AddedTo(Script[at], q)
        BY <2>1, <3>1, <3>3, MainQueues, ItemsOfP DEF AddedTo
      <4> QED
        BY <1>1, <2>1, <3>1, <3>2, <4>1, <4>2 DEF x, q, Submitted
    <3>4. CASE \E r \in Queue : queue[r] # <<>> /\ Pop(r) /\ at' = at
      <4>1. PICK r \in Queue : queue[r] # <<>> /\ Pop(r) /\ at' = at
        BY <3>4
      <4>2. /\ ToSet(queue'[r]) = ToSet(queue[r]) \ {Head(queue[r])}
            /\ \A z \in Queue \ {r} : queue'[z] = queue[z]
        BY <4>1, PoppedQueue
      <4> QED
        BY <1>1, <2>1, <3>1, <4>1, <4>2 DEF x, q, Submitted
    <3>5. CASE UNCHANGED <<queue, at>>
      BY <1>1, <3>1, <3>5 DEF x, q, Submitted
    <3> QED
      BY <3>3, <3>4, <3>5, StepKinds
  <2>3. CASE a \notin started
    <3>1. PICK r \in Queue : queue[r] # <<>> /\ Head(queue[r]) = x /\ UNCHANGED <<queue, at>>
      BY <2>3, StepEffects
    <3>2. Submitted(x) /\ q = r
      BY <3>1, PoppedQueue
    <3> QED
      BY <1>1, <3>1, <3>2 DEF Submitted
  <2> QED
    BY <2>2, <2>3
<1>3. ASSUME NEW a \in Part, Gone(TaskOf(a))'
      PROVE  a \in ended'
  <2>1. TaskOf(a) \in Item(P)
    BY ItemsOfP
  <2>2. CASE Gone(TaskOf(a))
    BY <2>2, StepEffects DEF PartsFollowQueues
  <2>3. CASE ~Gone(TaskOf(a))
    <3>1. PICK q \in Queue : queue[q] # <<>> /\ Pop(q) /\ at' = at
      BY <1>3, <2>1, <2>3, StepKinds, MainGone, StayGone
    <3>2. Head(queue[q]) = TaskOf(a)
      BY <1>3, <2>1, <2>3, <3>1, PopGone
    <3> QED
      BY <3>1, <3>2, StepEffects
  <2> QED
    BY <2>2, <2>3
<1>4. \A a \in started' : TaskOf(a) \in Item(P)
  <2>1. \A a \in started : TaskOf(a) \in Item(P)
    BY ItemsOfP DEF TypeOK
  <2>2. \A q \in Queue : queue[q] # <<>> => Head(queue[q]) \in Item(P)
    BY PoppedQueue
  <2> QED
    BY <2>1, <2>2, StepEffects
<1> QED
  BY <1>1, <1>2, <1>3, <1>4 DEF PartsFollowQueues

LEMMA EventsStep ==
  ASSUME ItemsOnce, TypeOK, QueuesInOrder, EventsFollowQueues, [Next]_vars
  PROVE  EventsFollowQueues'
<1>1. P' = P /\ Event' = Event
  BY SameProgram
<1>2. ASSUME NEW e \in complete'
      PROVE  <<"record", e>> \in Item(P) /\ Gone(<<"record", e>>)'
  <2>1. CASE e \in complete
    BY <2>1, GoneKept DEF EventsFollowQueues
  <2>2. CASE e \notin complete
    <3>1. PICK q \in Queue : queue[q] # <<>> /\ Head(queue[q]) = <<"record", e>> /\ Pop(q) /\ at' = at
      BY <2>2, StepEffects
    <3>2. <<"record", e>> \in Item(P)
      BY <3>1, PoppedQueue
    <3> QED
      BY <3>1, <3>2, PopGone
  <2> QED
    BY <2>1, <2>2
<1>3. ASSUME NEW e \in Event, <<"await", e>> \in Item(P), Gone(<<"await", e>>)'
      PROVE  <<"record", e>> \in Item(P) /\ Gone(<<"record", e>>)'
  <2>1. CASE Gone(<<"await", e>>)
    BY <1>3, <2>1, GoneKept DEF EventsFollowQueues
  <2>2. CASE ~Gone(<<"await", e>>)
    <3>1. PICK q \in Queue : queue[q] # <<>> /\ Pop(q) /\ at' = at
      BY <1>3, <2>2, StepKinds, MainGone, StayGone
    <3>2. Head(queue[q]) = <<"await", e>>
      BY <1>3, <2>2, <3>1, PopGone
    <3>3. e \in complete
      BY <3>1, <3>2, StepEffects
    <3> QED
      BY <3>3, GoneKept DEF EventsFollowQueues
  <2> QED
    BY <2>1, <2>2
<1> QED
  BY <1>1, <1>2, <1>3 DEF EventsFollowQueues

LEMMA MainPastStep ==
  ASSUME ItemsOnce, TypeOK, QueuesInOrder, EventsFollowQueues, MainPast, [Next]_vars
  PROVE  MainPast'
<1>1. /\ P' = P /\ Script' = Script /\ Script = P.script /\ Calling(P) = 1 .. Len(Script)
      /\ Len(Script) \in Nat /\ at \in Nat
  BY SameProgram, ItemsOfP
<1>2. CASE Main
  <2>1. at' = at + 1 /\ at \in Calling(P)
    BY <1>2, MainQueues
  <2>2. ASSUME NEW x \in Item(P), WaitedFor(P, x, at + 1)
        PROVE  Gone(x)
    <3>1. PICK w \in Calling(P) :
            /\ w < at + 1
            /\ \/ /\ P.script[w][1] = "queue_wait"
                  /\ \E y \in Item(P) :
                       On(P, y) = P.script[w][2] /\ Origin(P, y) < w /\ GoneWith(P, x, y)
               \/ /\ P.script[w][1] = "event_wait"
                  /\ GoneWith(P, x, <<"record", P.script[w][2]>>)
      BY <2>2 DEF WaitedFor
    <3>2. CASE w < at
      <4>1. WaitedFor(P, x, at)
        BY <3>1, <3>2 DEF WaitedFor
      <4> QED
        BY <4>1 DEF MainPast
    <3>3. CASE w = at /\ Script[at][1] = "queue_wait"
      <4>1. queue[Script[at][2]] = <<>>
        BY <1>2, <3>3 DEF Main, QueueSubmit, MemcpyAsync, EventRecord, QueueWaitEvent, QueueWait,
           EventWait, PrintResult, Destroy, Calls, Call
      <4>2. PICK y \in Item(P) : On(P, y) = Script[at][2] /\ Origin(P, y) < at /\ GoneWith(P, x, y)
        BY <1>1, <3>1, <3>3
      <4>3. Gone(y)
        BY <4>1, <4>2 DEF Gone, Submitted, ToSet
      <4> QED
        BY <4>2, <4>3, GoneWithGone
    <3>4. CASE w = at /\ Script[at][1] = "event_wait"
      <4>1. Script[at][2] \in complete
        BY <1>2, <3>4 DEF Main, QueueSubmit, MemcpyAsync, EventRecord, QueueWaitEvent, QueueWait,
           EventWait, PrintResult, Destroy, Calls, Call
      <4>2. <<"record", Script[at][2]>> \in Item(P) /\ Gone(<<"record", Script[at][2]>>)
        BY <4>1 DEF EventsFollowQueues
      <4>3. GoneWith(P, x, <<"record", Script[at][2]>>)
        BY <1>1, <3>1, <3>4
      <4> QED
        BY <4>2, <4>3, GoneWithGone
    <3>5. w \in Nat
      BY <1>1
    <3> QED
      BY <1>1, <3>1, <3>2, <3>3, <3>4, <3>5
  <2>3. ASSUME NEW y \in destroyed'
        PROVE  \E t \in Calling(P) : t < at + 1 /\ Script[t][1] = "destroy" /\ Script[t][2] = y
    <3>1. y \in destroyed \/ (Script[at][1] = "destroy" /\ Script[at][2] = y)
      BY <1>2, <2>3 DEF Main, QueueSubmit, MemcpyAsync, EventRecord, QueueWaitEvent, QueueWait,
         EventWait, PrintResult, Destroy, Calls, Call
    <3>2. CASE y \in destroyed
      <4>1. PICK t \in Calling(P) : t < at /\ Script[t][1] = "destroy" /\ Script[t][2] = y
        BY <3>2 DEF MainPast
      <4>2. t < at + 1
        BY <1>1, <4>1
      <4> QED
        BY <4>1, <4>2
    <3> QED
      BY <1>1, <2>1, <3>1, <3>2
  <2>4. ASSUME report' # NoReport
        PROVE  \E t \in Calling(P) : t < at + 1 /\ Script[t][1] = "print"
    <3>1. report # NoReport \/ Script[at][1] = "print"
      BY <1>2, <2>4 DEF Main, QueueSubmit, MemcpyAsync, EventRecord, QueueWaitEvent, QueueWait,
         EventWait, PrintResult, Destroy, Calls, Call
    <3>2. CASE report # NoReport
      <4>1. PICK t \in Calling(P) : t < at /\ Script[t][1] = "print"
        BY <3>2 DEF MainPast
      <4>2. t < at + 1
        BY <1>1, <4>1
      <4> QED
        BY <4>1, <4>2
    <3> QED
      BY <1>1, <2>1, <3>1, <3>2
  <2>5. NoReport' = NoReport
    BY DEF NoReport
  <2> QED
    BY <1>1, <2>1, <2>2, <2>3, <2>4, <2>5, GoneKept DEF MainPast
<1>3. CASE UNCHANGED <<at, destroyed, report>>
  <2>1. NoReport' = NoReport
    BY DEF NoReport
  <2> QED
    BY <1>1, <1>3, <2>1, GoneKept DEF MainPast
<1>4. Main \/ UNCHANGED <<at, destroyed, report>>
  BY DEF Next, LoadOperand, Load, Serve, Start, End, CompleteEvent, EventArrives, MainThread, vars
<1> QED
  BY <1>2, <1>3, <1>4

(* Values taken by a part that runs stay in memory: the part that stores   *)
(* runs at the same time.                                                  *)
LEMMA OperandsStep ==
  ASSUME TypeOK, DOMAIN operands = Part, OperandsCurrent, RaceFree, [Next]_vars
  PROVE  OperandsCurrent'
<1>1. /\ Part' = Part /\ Reads' = Reads /\ AtomicCell' = AtomicCell
  BY SameProgram
<1>2. CASE UNCHANGED <<operands, mem, ended>> /\ started \subseteq started'
  <2>1. ASSUME NEW a \in Part
        PROVE  /\ DOMAIN operands'[a] \subseteq Reads[a] \ AtomicCell
               /\ a \notin started' => DOMAIN operands'[a] = {}
               /\ a \in started' \ ended' => \A c \in DOMAIN operands'[a] : operands'[a][c] = mem'[c]
    BY <1>2 DEF OperandsCurrent, Running
  <2> QED
    BY <1>1, <2>1 DEF OperandsCurrent, Running
<1>3. CASE LoadOperand
  <2>1. PICK p \in Part : \E d \in Reads[p] : Load(p, d)
    BY <1>3 DEF LoadOperand
  <2>0. PICK d \in Reads[p] : Load(p, d)
    BY <2>1
  <2>2. /\ p \in Running /\ d \in Reads[p] \ AtomicCell
        /\ operands'[p] = [c \in DOMAIN operands[p] \cup {d} |-> IF c = d THEN mem[d] ELSE operands[p][c]]
        /\ \A a \in Part \ {p} : operands'[a] = operands[a]
        /\ UNCHANGED <<started, ended, mem>>
    BY <2>0 DEF Load
  <2>3. DOMAIN operands'[p] = DOMAIN operands[p] \cup {d}
    BY <2>2
  <2>4. \A c \in DOMAIN operands'[p] : operands'[p][c] = mem[c]
    BY <2>2, <2>3 DEF OperandsCurrent
  <2>5. ASSUME NEW a \in Part
        PROVE  /\ DOMAIN operands'[a] \subseteq Reads[a] \ AtomicCell
               /\ a \notin started' => DOMAIN operands'[a] = {}
               /\ a \in started' \ ended' => \A c \in DOMAIN operands'[a] : operands'[a][c] = mem'[c]
    <3>1. CASE a = p
      BY <2>2, <2>3, <2>4, <3>1 DEF OperandsCurrent, Running
    <3>2. CASE a # p
      BY <2>2, <3>2 DEF OperandsCurrent, Running
    <3> QED
      BY <3>1, <3>2
  <2> QED
    BY <1>1, <2>5 DEF OperandsCurrent, Running
<1>4. CASE \E q \in Queue, p \in Part : End(q, p)
  <2>1. PICK q \in Queue, p \in Part : End(q, p)
    BY <1>4
  <2>2. p \in Running /\ ended' = ended \cup {p} /\ UNCHANGED <<started, operands>>
    BY <2>1 DEF End
  <2>3. \A c \in Cell \ Writes[p] : mem'[c] = mem[c]
    BY <2>1 DEF End, Store
  <2>4. \A a \in Part : Reads[a] \subseteq Cell
    BY ProgramsAssumption DEF TypeOK, Part, Reads, Cell
  <2>5. ASSUME NEW a \in Part, a \in started' \ ended', NEW c \in DOMAIN operands[a]
        PROVE  operands[a][c] = mem'[c]
    <3>1. a \in Running /\ a # p
      BY <2>2, <2>5 DEF Running
    <3>2. c \in Reads[a] \ AtomicCell
      BY <2>5 DEF OperandsCurrent
    <3>3. c \notin Writes[p]
      BY <2>2, <3>1, <3>2 DEF RaceFree
    <3>4. operands[a][c] = mem[c]
      BY <2>5, <3>1 DEF OperandsCurrent
    <3> QED
      BY <2>3, <2>4, <3>2, <3>3, <3>4
  <2> QED
    BY <1>1, <2>2, <2>5 DEF OperandsCurrent, Running
<1>5. \/ UNCHANGED <<operands, mem, ended>> /\ started \subseteq started'
      \/ LoadOperand
      \/ \E q \in Queue, p \in Part : End(q, p)
  <2>1. Main => UNCHANGED <<operands, mem, ended, started>>
    BY DEF Main, QueueSubmit, MemcpyAsync, EventRecord, QueueWaitEvent, QueueWait,
       EventWait, PrintResult, Destroy, Executors
  <2>2. ASSUME NEW q \in Queue, Serve(q)
        PROVE  \/ UNCHANGED <<operands, mem, ended>> /\ started \subseteq started'
               \/ \E p \in Part : End(q, p)
    BY <2>2 DEF Serve, Start, CompleteEvent, EventArrives, Executors
  <2> QED
    BY <2>1, <2>2 DEF Next, vars
<1> QED
  BY <1>2, <1>3, <1>4, <1>5

-----------------------------------------------------------------------------
THEOREM Invariance ==
  ASSUME ItemsOnce, ConflictsOrdered
  PROVE  Spec => []Inductive
<1>1. Init => Inductive
  <2> SUFFICES ASSUME Init PROVE Inductive
    OBVIOUS
  <2>1. program \in DOMAIN Programs /\ P = Programs[program] /\ Script = P.script
    BY DEF Init, P, Script
  <2>2. Len(Script) \in Nat
    BY <2>1, ProgramsAssumption
  <2>3. TypeOK /\ DOMAIN operands = Part
    BY <2>1, <2>2 DEF Init, TypeOK, Cell
  <2>4. at = 1 /\ (\A q \in Queue : queue[q] = <<>>) /\ complete = {} /\ started = {} /\ destroyed = {}
        /\ report = NoReport /\ \A a \in Part : operands[a] = <<>>
    BY DEF Init
  <2>5. \A x \in Item(P) : ~Submitted(x)
    BY <2>3, <2>4, ItemsOfP DEF Submitted
  <2>6. \A x \in Item(P) : ~Gone(x)
    BY <2>5 DEF Gone
  <2>7. QueuesInOrder
    <3>1. ASSUME NEW q \in Queue
          PROVE  queue[q] \in Seq(Item(P)) /\ ToSet(queue[q]) = {} /\ Sorted(P, queue[q])
      <4>1. queue[q] = <<>>
        BY <2>4
      <4>2. queue[q] \in Seq(Item(P)) /\ Len(queue[q]) = 0 /\ DOMAIN queue[q] = {}
        BY <4>1
      <4>3. ToSet(queue[q]) = {}
        BY <4>2 DEF ToSet
      <4>4. Sorted(P, queue[q])
        BY <4>2, \A i \in 1 .. 0 : FALSE DEF Sorted
      <4> QED
        BY <4>2, <4>3, <4>4
    <3> QED
      BY <2>6, <3>1 DEF QueuesInOrder
  <2>8. PartsFollowQueues
    BY <2>3, <2>4, <2>6, ItemsOfP DEF PartsFollowQueues
  <2>9. EventsFollowQueues
    BY <2>4, <2>6 DEF EventsFollowQueues
  <2>10. MainPast
    <3>1. \A x \in Item(P) : ~WaitedFor(P, x, 1)
      <4>1. \A w \in Calling(P) : ~(w < 1)
        BY <2>1, <2>2 DEF Calling
      <4> QED
        BY <4>1, Zenon DEF WaitedFor
    <3> QED
      BY <2>4, <3>1 DEF MainPast
  <2>11. OperandsCurrent
    BY <2>4 DEF OperandsCurrent, Running
  <2> QED
    BY <2>3, <2>7, <2>8, <2>9, <2>10, <2>11 DEF Inductive
<1>2. Inductive /\ [Next]_vars => Inductive'
  <2> SUFFICES ASSUME Inductive, [Next]_vars PROVE Inductive'
    OBVIOUS
  <2>1. RaceFree
    BY NoRace DEF Inductive
  <2>2. /\ TypeOK /\ DOMAIN operands = Part
        /\ QueuesInOrder /\ PartsFollowQueues /\ EventsFollowQueues /\ MainPast /\ OperandsCurrent
    BY DEF Inductive
  <2>3. TypeOK' /\ DOMAIN operands' = Part /\ QueuesInOrder'
    BY <2>2, TypesStep, QueuesStep
  <2>4. PartsFollowQueues' /\ EventsFollowQueues' /\ MainPast'
    BY <2>2, PartsStep, EventsStep, MainPastStep
  <2>5. OperandsCurrent' /\ Part' = Part
    BY <2>1, <2>2, OperandsStep, SameProgram
  <2> QED
    BY <2>3, <2>4, <2>5 DEF Inductive
<1> QED
  BY <1>1, <1>2, PTL DEF Spec

(* The state of any such program has its type.                             *)
THEOREM TypeCorrect ==
  ASSUME ItemsOnce, ConflictsOrdered
  PROVE  Spec => []TypeOK
<1>1. Inductive => TypeOK
  BY DEF Inductive
<1> QED
  BY <1>1, Invariance, PTL

(* If queues and events order the parts that conflict, no two parts race.  *)
THEOREM QueuesPreventRaces ==
  ASSUME ItemsOnce, ConflictsOrdered
  PROVE  Spec => []RaceFree
<1>1. Inductive => RaceFree
  BY NoRace DEF Inductive
<1> QED
  BY <1>1, Invariance, PTL

(* If main destroys only what it has waited for, nothing is destroyed      *)
(* while an item on a queue needs it.                                      *)
THEOREM WaitsProtectResources ==
  ASSUME ItemsOnce, ConflictsOrdered, DestroyAfterWait
  PROVE  Spec => []ResourcesOutliveUse
<1>1. ASSUME Inductive PROVE ResourcesOutliveUse
  <2>0. TypeOK /\ QueuesInOrder /\ MainPast
    BY <1>1 DEF Inductive
  <2> SUFFICES ASSUME NEW q \in Queue, NEW x \in ToSet(queue[q]),
                      NEW y \in destroyed,
                      y \in {q} \cup IF x[1] = "task" THEN Uses[x[2]] ELSE {x[2]}
               PROVE  FALSE
    BY DEF ResourcesOutliveUse
  <2>1. x \in Item(P) /\ On(P, x) = q
    BY <2>0 DEF QueuesInOrder, ToSet
  <2>2. y \in Needs(P, x)
    BY <2>1 DEF Needs, Uses, P
  <2>3. PICK t \in Calling(P) : t < at /\ P.script[t][1] = "destroy" /\ P.script[t][2] = y
    BY <2>0, ItemsOfP DEF MainPast
  <2>4. WaitedFor(P, x, t)
    BY <2>0, <2>1, <2>2, <2>3 DEF DestroyAfterWait, DestroyAfterWaitIn, P, TypeOK
  <2>5. \A w \in Calling(P) : w < t => w < at
    BY <2>0, <2>3, ItemsOfP
  <2>6. WaitedFor(P, x, at)
    BY <2>4, <2>5 DEF WaitedFor
  <2>7. Gone(x)
    BY <2>0, <2>1, <2>6 DEF MainPast
  <2> QED
    BY <2>1, <2>7 DEF Gone
<1> QED
  BY <1>1, Invariance, PTL

-----------------------------------------------------------------------------
(* A part that ends stores what its function gives for the memory of that  *)
(* moment.                                                                 *)
LEMMA CurrentOperands ==
  ASSUME TypeOK, DOMAIN operands = Part, OperandsCurrent, NEW a \in Running, DOMAIN Current(a) = Reads[a]
  PROVE  a \in Part /\ Current(a) = [c \in Reads[a] |-> mem[c]]
<1>1. a \in Part
  BY DEF Running, TypeOK
<1>2. /\ DOMAIN operands[a] \subseteq Reads[a] \ AtomicCell
      /\ \A c \in DOMAIN operands[a] : operands[a][c] = mem[c]
  BY <1>1 DEF OperandsCurrent
<1>3. DOMAIN operands[a] \cup (Reads[a] \cap AtomicCell) = Reads[a]
  BY DEF Current
<1> QED
  BY <1>1, <1>2, <1>3 DEF Current

(* When main prints, it has waited for all parts, and prints for the first *)
(* time.                                                                   *)
LEMMA PrintedAtEnd ==
  ASSUME ItemsOnce, PrintAfterWait, Inductive, PrintResult
  PROVE  ended = Part /\ report = NoReport
<1>1. /\ TypeOK /\ QueuesInOrder /\ PartsFollowQueues /\ MainPast
      /\ program \in DOMAIN Programs /\ P = Programs[program]
  BY DEF Inductive, TypeOK, P
<1>2. at \in Calling(P) /\ Script[at][1] = "print" /\ Script = P.script
  BY <1>1, ItemsOfP DEF PrintResult, Calls, Call
<1>3. /\ \A x \in Item(P) : x[1] = "task" => WaitedFor(P, x, at)
      /\ \A u \in Calling(P) : P.script[u][1] = "print" => u = at
  BY <1>1, <1>2 DEF PrintAfterWait, PrintAfterWaitIn
<1>4. ASSUME NEW a \in Part PROVE a \in ended
  <2>1. TaskOf(a) \in Item(P) /\ TaskOf(a)[1] = "task"
    BY <1>1, ItemsOfP DEF TaskOf
  <2>2. Gone(TaskOf(a))
    BY <1>1, <1>3, <2>1 DEF MainPast
  <2> QED
    BY <1>1, <2>2 DEF PartsFollowQueues
<1>5. report = NoReport
  <2>1. at \in Nat
    BY <1>1, ItemsOfP
  <2> QED
    BY <1>1, <1>2, <1>3, <2>1 DEF MainPast
<1> QED
  BY <1>1, <1>4, <1>5 DEF TypeOK

(* Every step is a step of the indivisible graph of the program that runs, *)
(* or one that no graph sees.                                              *)
LEMMA StepSimulation ==
  ASSUME ItemsOnce, DepOrdered, PrintAfterWait, Inductive, [Next]_vars, NEW n \in DOMAIN Programs
  PROVE  [Atomic(n)!Next]_(Atomic(n)!vars)
<1>1. CASE n # program
  BY <1>1, SameProgram DEF Atomic!vars
<1>2. CASE n = program
  <2> USE <1>2
  <2>v. UNCHANGED <<ended, mem, report>> => UNCHANGED Atomic(n)!vars
    BY SameProgram DEF Atomic!vars
  <2>t. /\ TypeOK /\ DOMAIN operands = Part
        /\ QueuesInOrder /\ PartsFollowQueues /\ EventsFollowQueues /\ MainPast /\ OperandsCurrent
    BY DEF Inductive
  <2>1. CASE QueueSubmit \/ MemcpyAsync \/ EventRecord \/ QueueWaitEvent \/ QueueWait \/ EventWait \/ Destroy
    BY <2>1, <2>v DEF QueueSubmit, MemcpyAsync, EventRecord, QueueWaitEvent, QueueWait, EventWait,
       Destroy, Executors
  <2>2. CASE LoadOperand \/ UNCHANGED vars
    BY <2>2, <2>v DEF LoadOperand, Load, MainThread, vars
  <2>3. ASSUME NEW q \in Queue, NEW a \in Part, Start(q, a) PROVE UNCHANGED Atomic(n)!vars
    BY <2>3, <2>v DEF Start, MainThread
  <2>4. ASSUME NEW q \in Queue, NEW e \in Event, CompleteEvent(q, e) \/ EventArrives(q, e)
        PROVE  UNCHANGED Atomic(n)!vars
    BY <2>4, <2>v DEF CompleteEvent, EventArrives, Executors, MainThread
  <2>5. ASSUME NEW q \in Queue, NEW a \in Part, End(q, a) PROVE Atomic(n)!Run(a)
    <3>1. a \in Running /\ DOMAIN Current(a) = Reads[a] /\ report' = report
      BY <2>5 DEF End, MainThread
    <3>2. a \notin ended /\ ended' = ended \cup {a}
      BY <2>5, <3>1 DEF End, Running
    <3>3. Current(a) = [c \in Reads[a] |-> mem[c]]
      BY <2>t, <3>1, CurrentOperands
    <3>4. Atomic(n)!Predecessors(a) \subseteq ended
      <4>1. ASSUME NEW b \in Part, <<b, a>> \in Programs[n].dep PROVE b \in ended
        <5>1. Precedes(P, TaskOf(b), TaskOf(a))
          BY <4>1 DEF DepOrdered, DepOrderedIn, P
        <5> QED
          BY <2>t, <3>1, <5>1, PrecededEnded
      <4> QED
        BY <4>1 DEF Atomic!Predecessors, Part, Reads
    <3>5. mem' = Atomic(n)!Store(a, Atomic(n)!Operands(a, mem), mem)
      BY <2>5, <3>3 DEF End, Store, Atomic!Store, Atomic!Operands, Reads, Writes, Cell
    <3> QED
      BY <3>1, <3>2, <3>4, <3>5, SameProgram DEF Atomic!Run
  <2>6. CASE PrintResult
    <3>1. ended = Part /\ report = NoReport
      BY <2>6, PrintedAtEnd
    <3>2. report' = Atomic(n)!Report(mem) /\ UNCHANGED <<mem, ended>>
      BY <2>6 DEF PrintResult, Executors, Atomic!Report
    <3> QED
      BY <3>1, <3>2, SameProgram DEF Atomic!Next, Atomic!Finish, Atomic!NoReport, NoReport, Part, Reads
  <2> QED
    BY <2>1, <2>2, <2>3, <2>4, <2>5, <2>6 DEF Next, Main, Serve, Atomic!Next, Part, Reads
<1> QED
  BY <1>1, <1>2

(* Although parts overlap and queues run on their own, memory and report   *)
(* are those of a run in which each part happened at once, after the parts *)
(* it depends on.                                                          *)
THEOREM QueuesImplementation ==
  ASSUME ItemsOnce, ConflictsOrdered, DepOrdered, PrintAfterWait
  PROVE  Spec => ImplementsAtomic
<1>1. Init => \A n \in DOMAIN Programs : Atomic(n)!Init
  BY DEF Init, Atomic!Init, NoReport, Atomic!NoReport
<1>2. Inductive /\ [Next]_vars
        => [\A n \in DOMAIN Programs : [Atomic(n)!Next]_(Atomic(n)!vars)]_vars
  BY StepSimulation
<1>3. QED
  BY <1>1, <1>2, Invariance, PTL DEF Spec, ImplementsAtomic

(* Parts that run are different, so if they own different executors, no    *)
(* executor runs two.                                                      *)
THEOREM ExecutorsKept ==
  ASSUME ItemsOnce, ConflictsOrdered, OwnExecutors
  PROVE  Spec => []ExecutorsNotShared
<1>1. TypeOK => ExecutorsNotShared
  BY DEF TypeOK, ExecutorsNotShared, OwnExecutors, OwnExecutorsIn, Running, Eid, Part, Reads
<1> QED
  BY <1>1, TypeCorrect, PTL

-----------------------------------------------------------------------------
(* What is waited for comes.                                               *)

(* A task that has not left its queue has a part that has not ended.       *)
TasksUnfinished ==
  \A x \in Item(P) : x[1] = "task" /\ ~Gone(x) => \E a \in Part \ ended : TaskOf(a) = x

(* An event whose record has left its queue is complete: only another call *)
(* that records it would arm it again.                                     *)
EventsComplete ==
  \A e \in Event : <<"record", e>> \in Item(P) /\ Gone(<<"record", e>>) => e \in complete

LEMMA TasksUnfinishedStep ==
  ASSUME ItemsOnce, TypeOK, QueuesInOrder, TasksUnfinished, [Next]_vars
  PROVE  TasksUnfinished'
<1>1. P' = P /\ Part' = Part
  BY SameProgram
<1> SUFFICES ASSUME NEW x \in Item(P), x[1] = "task", ~Gone(x)'
             PROVE  \E a \in Part \ ended' : TaskOf(a) = x
  BY <1>1 DEF TasksUnfinished
<1>2. ~Gone(x)
  BY GoneKept
<1>3. PICK a \in Part \ ended : TaskOf(a) = x
  BY <1>2 DEF TasksUnfinished
<1>4. CASE ended' = ended
  BY <1>3, <1>4
<1>5. ASSUME NEW q \in Queue, NEW p \in Part, End(q, p)
      PROVE  \E r \in Part \ ended' : TaskOf(r) = x
  <2>1. /\ queue[q] # <<>> /\ Head(queue[q]) = TaskOf(p) /\ ended' = ended \cup {p} /\ at' = at
        /\ (\A r \in Part : r[1] = p[1] => r \in ended') => Pop(q)
    BY <1>5 DEF End, AtHead, TaskOf, MainThread
  <2>2. CASE TaskOf(p) # x
    BY <1>3, <2>1, <2>2
  <2>3. CASE TaskOf(p) = x
    <3>1. ~Pop(q)
      BY <2>1, <2>3, PopGone
    <3>2. PICK r \in Part : r[1] = p[1] /\ r \notin ended'
      BY <2>1, <3>1
    <3> QED
      BY <2>3, <3>2 DEF TaskOf
  <2> QED
    BY <2>2, <2>3
<1>6. ended' = ended \/ \E q \in Queue : \E p \in Part : End(q, p)
  BY DEF Next, Main, QueueSubmit, MemcpyAsync, EventRecord, QueueWaitEvent, QueueWait, EventWait,
     PrintResult, Destroy, Executors, LoadOperand, Load, Serve, Start, CompleteEvent,
     EventArrives, vars
<1> QED
  BY <1>4, <1>5, <1>6

LEMMA EventsCompleteStep ==
  ASSUME ItemsOnce, TypeOK, QueuesInOrder, EventsComplete, [Next]_vars
  PROVE  EventsComplete'
<1>1. P' = P /\ Event' = Event
  BY SameProgram
<1> SUFFICES ASSUME NEW e \in Event, <<"record", e>> \in Item(P), Gone(<<"record", e>>)'
             PROVE  e \in complete'
  BY <1>1 DEF EventsComplete
<1> DEFINE x == <<"record", e>>
<1>2. CASE Main
  <2>1. Gone(x) /\ e \in complete
    BY <1>2, MainGone DEF EventsComplete
  <2>2. x \notin ItemsOf(Script[at])
    <3>1. Origin(P, x) < at /\ at \in Calling(P) /\ at \in Nat
      BY <1>2, <2>1, MainQueues, ItemsOfP DEF Gone, Submitted
    <3> QED
      BY <3>1, ItemsOfP
  <2>3. \/ complete' = complete
        \/ \E f : complete' = complete \ {f} /\ <<"record", f>> \in ItemsOf(Script[at])
    <3>1. CASE MemcpyAsync
      BY <3>1 DEF MemcpyAsync, Calls, Call, ItemsOf
    <3>2. CASE EventRecord
      BY <3>2 DEF EventRecord, Calls, Call, ItemsOf
    <3> QED
      BY <1>2, <3>1, <3>2 DEF Main, QueueSubmit, QueueWaitEvent, QueueWait, EventWait, PrintResult, Destroy
  <2> QED
    BY <2>1, <2>2, <2>3
<1>3. CASE ~Main
  <2>1. complete \subseteq complete'
    BY <1>3 DEF Next, LoadOperand, Load, Serve, Start, End, CompleteEvent, EventArrives, vars
  <2>2. CASE Gone(x)
    BY <2>1, <2>2 DEF EventsComplete
  <2>3. CASE ~Gone(x)
    <3>1. PICK q \in Queue : Serve(q) /\ queue' # queue /\ at' = at
      <4>1. ~UNCHANGED <<queue, at>>
        BY <2>3, StayGone
      <4>2. UNCHANGED vars \/ LoadOperand => UNCHANGED <<queue, at>>
        BY DEF LoadOperand, Load, MainThread, vars
      <4>3. \A q \in Queue : Serve(q) => at' = at
        BY DEF Serve, Start, End, CompleteEvent, EventArrives, Executors, MainThread
      <4> QED
        BY <1>3, <4>1, <4>2, <4>3 DEF Next
    <3>2. queue[q] # <<>> /\ Pop(q)
      BY <3>1 DEF Serve, Start, End, CompleteEvent, EventArrives, AtHead
    <3>3. Head(queue[q]) = x
      BY <2>3, <3>1, <3>2, PopGone
    <3>4. \A f : \A y : <<"task", y>> # x /\ <<"await", y>> # x /\ (<<"record", f>> = x => f = e)
      OBVIOUS
    <3>5. CompleteEvent(q, e)
      BY <3>1, <3>3, <3>4 DEF Serve, Start, End, CompleteEvent, EventArrives, AtHead
    <3> QED
      BY <3>5 DEF CompleteEvent
  <2> QED
    BY <2>2, <2>3
<1> QED
  BY <1>2, <1>3

(* What is submitted and not gone is on its queue, which goes on if its    *)
(* head can.                                                               *)
LEMMA StillQueued ==
  ASSUME ItemsOnce, TypeOK, QueuesInOrder, NEW x \in Item(P), Submitted(x), ~Gone(x)
  PROVE  /\ On(P, x) \in Queue /\ queue[On(P, x)] # <<>>
         /\ Rank(P, Head(queue[On(P, x)])) <= Rank(P, x)
<1>1. PICK q : q = On(P, x)
  OBVIOUS
<1>2. q \in Queue /\ x \in ToSet(queue[q]) /\ Rank(P, x) \in Nat
  BY <1>1, ItemsOfP DEF Gone
<1>3. queue[q] # <<>>
  <2>1. ToSet(<<>>) = {}
    BY DEF ToSet
  <2> QED
    BY <1>2, <2>1
<1>4. /\ Head(queue[q]) \in Item(P)
      /\ x = Head(queue[q]) \/ Rank(P, Head(queue[q])) < Rank(P, x)
  BY <1>2, <1>3, PoppedQueue
<1>5. Rank(P, Head(queue[q])) \in Nat
  BY <1>4, ItemsOfP
<1> QED
  BY <1>1, <1>2, <1>3, <1>4, <1>5

(* A set of numbers has a least one.                                       *)
LEMMA LeastOne ==
  ASSUME NEW S \in SUBSET Nat, S # {}
  PROVE  \E x \in S : \A y \in S : x <= y
<1>1. PICK x \in S : \A y \in S : <<y, x>> \notin OpToRel(<, Nat)
  BY NatLessThanWellFounded, WFMin, Zenon
<1>2. \A y \in S : ~(y < x)
  BY <1>1 DEF OpToRel
<1> QED
  BY <1>2

(* The queue whose head was submitted first goes on: the event that its    *)
(* head would wait for is recorded by an earlier call, so that the head of *)
(* yet another queue would have been submitted before.                     *)
LEMMA OldestGoesOn ==
  ASSUME ItemsOnce, WaitsAnswered, TypeOK, QueuesInOrder, TasksUnfinished, EventsComplete,
         NEW z \in Queue, queue[z] # <<>>
  PROVE  \E q \in Queue : QueueGoesOn(q)
<1> DEFINE busy == {q \in Queue : queue[q] # <<>>}
           heads == {Rank(P, Head(queue[q])) : q \in busy}
<1>1. PICK q \in busy : \A r \in busy : Rank(P, Head(queue[q])) <= Rank(P, Head(queue[r]))
  <2>1. heads \in SUBSET Nat /\ heads # {}
    BY PoppedQueue, ItemsOfP
  <2>2. PICK m \in heads : \A n \in heads : m <= n
    BY <2>1, LeastOne
  <2> QED
    BY <2>2
<1>2. PICK h : h = Head(queue[q])
  OBVIOUS
<1>3. h \in Item(P) /\ On(P, h) = q /\ Submitted(h) /\ h \in ToSet(queue[q])
  BY <1>2, PoppedQueue
<1>4. ~Gone(h) /\ Rank(P, h) \in Nat /\ Origin(P, h) \in Nat /\ at \in Nat
  BY <1>3, ItemsOfP DEF Gone
<1>5. WaitsAnsweredIn(P) /\ P.events = Event /\ DOMAIN P.reads = Part
  BY ItemsOfP DEF WaitsAnswered, TypeOK, P
<1>6. \/ h[1] = "task"
      \/ \E e \in Event : h = <<"record", e>>
      \/ \E e \in Event : /\ h = <<"await", e>> /\ <<"record", e>> \in Item(P)
                           /\ Origin(P, <<"record", e>>) < Origin(P, h)
  BY <1>3, <1>5, Zenon DEF WaitsAnsweredIn
<1>7. CASE h[1] = "task"
  <2>1. PICK a \in Part \ ended : TaskOf(a) = h
    BY <1>3, <1>4, <1>7 DEF TasksUnfinished
  <2> QED
    BY <1>2, <2>1 DEF QueueGoesOn, AtHead, TaskOf
<1>8. CASE \E e \in Event : h = <<"record", e>>
  BY <1>2, <1>8 DEF QueueGoesOn, AtHead
<1>9. ASSUME NEW e \in Event, h = <<"await", e>>, <<"record", e>> \in Item(P),
             Origin(P, <<"record", e>>) < Origin(P, h)
      PROVE  QueueGoesOn(q)
  <2>1. PICK x : x = <<"record", e>>
    OBVIOUS
  <2>2. /\ x \in Item(P) /\ Origin(P, x) < Origin(P, h) /\ Origin(P, x) \in Nat
        /\ Rank(P, x) < Rank(P, h) /\ Rank(P, x) \in Nat
    BY <1>3, <1>9, <2>1, ItemsOfP
  <2>3. Submitted(x)
    BY <1>3, <1>4, <2>2 DEF Submitted
  <2>4. CASE ~Gone(x)
    <3>1. PICK r : r = On(P, x)
      OBVIOUS
    <3>2. r \in busy /\ Rank(P, Head(queue[r])) <= Rank(P, x)
      BY <2>2, <2>3, <2>4, <3>1, StillQueued
    <3>3. Rank(P, h) <= Rank(P, Head(queue[r])) /\ Rank(P, Head(queue[r])) \in Nat
      BY <1>1, <1>2, <3>2, PoppedQueue, ItemsOfP
    <3> QED
      BY <1>4, <2>2, <3>2, <3>3
  <2>5. CASE Gone(x)
    <3>1. e \in complete
      BY <2>1, <2>2, <2>5 DEF EventsComplete
    <3> QED
      BY <1>2, <1>9, <3>1 DEF QueueGoesOn, AtHead
  <2> QED
    BY <2>4, <2>5
<1> QED
  BY <1>6, <1>7, <1>8, <1>9

(* As long as main has calls to make, main or a queue goes on.             *)
THEOREM QueuesGoOn ==
  ASSUME ItemsOnce, ConflictsOrdered, WaitsAnswered
  PROVE  Spec => []NoDeadlock
<1> DEFINE IInv == Inductive /\ TasksUnfinished /\ EventsComplete
<1>1. Init => TasksUnfinished /\ EventsComplete
  <2> SUFFICES ASSUME Init PROVE TasksUnfinished /\ EventsComplete
    OBVIOUS
  <2>1. program \in DOMAIN Programs /\ P = Programs[program] /\ Script = P.script
    BY DEF Init, P, Script
  <2>2. TypeOK
    BY <2>1, ProgramsAssumption DEF Init, TypeOK, Cell
  <2>3. \A x \in Item(P) : ~Gone(x)
    BY <2>2, ItemsOfP DEF Init, Gone, Submitted
  <2>4. WaitsAnsweredIn(P) /\ DOMAIN P.reads = Part
    BY <2>1, <2>2, ItemsOfP DEF WaitsAnswered
  <2>5. ASSUME NEW x \in Item(P), x[1] = "task" PROVE \E a \in Part : TaskOf(a) = x
    <3>1. \A e : <<"record", e>>[1] # "task" /\ <<"await", e>>[1] # "task"
      OBVIOUS
    <3> QED
      BY <2>4, <2>5, <3>1, Zenon DEF WaitsAnsweredIn
  <2> QED
    BY <2>3, <2>5 DEF Init, TasksUnfinished, EventsComplete
<1>2. Inductive /\ TasksUnfinished /\ EventsComplete /\ [Next]_vars
        => (TasksUnfinished /\ EventsComplete)'
  BY TasksUnfinishedStep, EventsCompleteStep DEF Inductive
<1>3. Inductive /\ TasksUnfinished /\ EventsComplete => NoDeadlock
  <2> SUFFICES ASSUME TypeOK, QueuesInOrder, TasksUnfinished, EventsComplete,
                      at <= Len(Script), ~MainGoesOn
               PROVE  \E q \in Queue : QueueGoesOn(q)
    BY DEF NoDeadlock, Inductive
  <2>1. at \in Calling(P) /\ Call = P.script[at] /\ WaitsAnsweredIn(P)
        /\ P.queues = Queue /\ P.events = Event
    BY ItemsOfP DEF Call, WaitsAnswered, TypeOK, P
  <2>2. \/ Call[1] = "queue_wait" /\ Call[2] \in Queue /\ queue[Call[2]] # <<>>
        \/ /\ Call[1] = "event_wait" /\ <<"record", Call[2]>> \in Item(P)
           /\ Origin(P, <<"record", Call[2]>>) < at /\ Call[2] \notin complete
    BY <2>1 DEF WaitsAnsweredIn, MainGoesOn
  <2>3. \E q \in Queue : queue[q] # <<>>
    <3>1. ASSUME <<"record", Call[2]>> \in Item(P), Origin(P, <<"record", Call[2]>>) < at,
                 Call[2] \notin complete
          PROVE  \E q \in Queue : queue[q] # <<>>
      <4>1. Call[2] \in Event
        <5>1. \A e : <<"record", Call[2]>> # <<"await", e>> /\ <<"record", Call[2]>>[1] # "task"
                       /\ (<<"record", Call[2]>> = <<"record", e>> => e = Call[2])
          OBVIOUS
        <5> QED
          BY <2>1, <3>1, <5>1, Zenon DEF WaitsAnsweredIn
      <4>2. ~Gone(<<"record", Call[2]>>)
        BY <3>1, <4>1 DEF EventsComplete
      <4> QED
        BY <3>1, <4>2, StillQueued DEF Submitted
    <3> QED
      BY <2>2, <3>1
  <2> QED
    BY <2>3, OldestGoesOn
<1> QED
  BY <1>1, <1>2, <1>3, Invariance, PTL DEF Spec

-----------------------------------------------------------------------------
(* The programs.  Which call puts which items on which queue says all that *)
(* the conditions ask of a script.                                         *)
T(task) == <<"task", task>>
Rec == <<"record", "event">>
Aw == <<"await", "event">>

ExprP == QueuePrograms.queue_event_dependency
CopyP == QueuePrograms.memcpy_async
SumP == QueuePrograms.queue_submit
KernelP == QueuePrograms.kernel_parallelism_queue

LEMMA ExprCalls ==
  ASSUME NEW p, p = ExprP
  PROVE  /\ Len(p.script) = 11 /\ Calling(p) = 1 .. 11
         /\ ItemsOf(p.script[1]) = {T("axb")} /\ QueueOf(p.script[1]) = "q1"
         /\ ItemsOf(p.script[2]) = {T("cxd")} /\ QueueOf(p.script[2]) = "q2"
         /\ ItemsOf(p.script[3]) = {Rec} /\ QueueOf(p.script[3]) = "q2"
         /\ ItemsOf(p.script[4]) = {Aw} /\ QueueOf(p.script[4]) = "q1"
         /\ ItemsOf(p.script[5]) = {T("fpg")} /\ QueueOf(p.script[5]) = "q1"
         /\ p.script[6] = <<"queue_wait", "q1">> /\ p.script[7] = <<"print">>
         /\ \A s \in 6 .. 11 : ItemsOf(p.script[s]) = {}
         /\ \A s \in 8 .. 11 : p.script[s][1] = "destroy" 
         /\ \A s \in 1 .. 6 : p.script[s][1] \notin {"destroy", "print"}
<1>1. p.script = ExprScript
  BY DEF ExprP, QueuePrograms
<1>2. /\ Len(p.script) = 11
      /\ p.script[1] = <<"queue_submit", "q1", "axb">>
      /\ p.script[2] = <<"queue_submit", "q2", "cxd">>
      /\ p.script[3] = <<"event_record", "event", "q2">>
      /\ p.script[4] = <<"queue_wait_event", "q1", "event">>
      /\ p.script[5] = <<"queue_submit", "q1", "fpg">>
      /\ p.script[6] = <<"queue_wait", "q1">>
      /\ p.script[7] = <<"print">>
      /\ p.script[8] = <<"destroy", "event">>
      /\ p.script[9] = <<"destroy", "q2">>
      /\ p.script[10] = <<"destroy", "q1">>
      /\ p.script[11] = <<"destroy", "args">>
  BY <1>1 DEF ExprScript
<1>3. /\ ItemsOf(p.script[1]) = {T("axb")} /\ QueueOf(p.script[1]) = "q1"
      /\ ItemsOf(p.script[2]) = {T("cxd")} /\ QueueOf(p.script[2]) = "q2"
  BY <1>2 DEF ItemsOf, QueueOf, T
<1>4. /\ ItemsOf(p.script[3]) = {Rec} /\ QueueOf(p.script[3]) = "q2"
      /\ ItemsOf(p.script[4]) = {Aw} /\ QueueOf(p.script[4]) = "q1"
      /\ ItemsOf(p.script[5]) = {T("fpg")} /\ QueueOf(p.script[5]) = "q1"
  BY <1>2 DEF ItemsOf, QueueOf, T, Rec, Aw
<1>5. ASSUME NEW s \in 6 .. 11 PROVE ItemsOf(p.script[s]) = {}
  <2>1. p.script[s][1] \in {"queue_wait", "print", "destroy"}
    BY <1>2
  <2> QED
    BY <2>1 DEF ItemsOf
<1>6. \A s \in 8 .. 11 : p.script[s][1] = "destroy"
  BY <1>2
<1>7. \A s \in 1 .. 6 : p.script[s][1] \notin {"destroy", "print"}
  BY <1>2
<1>8. Calling(p) = 1 .. 11
  BY <1>2 DEF Calling
<1> QED
  BY <1>2, <1>3, <1>4, <1>5, <1>6, <1>7, <1>8

LEMMA DifferentItems ==
  /\ \A x, y : T(x) = T(y) => x = y
  /\ \A x : T(x)[1] = "task" /\ T(x)[2] = x /\ T(x) # Rec /\ T(x) # Aw
  /\ Rec # Aw /\ Rec[1] = "record" /\ Rec[2] = "event" /\ Aw[1] = "await" /\ Aw[2] = "event"
BY DEF T, Rec, Aw

LEMMA OriginIs ==
  ASSUME NEW p, \A s, t \in Calling(p) : s # t => ItemsOf(p.script[s]) \cap ItemsOf(p.script[t]) = {},
         NEW s \in Calling(p), NEW x \in ItemsOf(p.script[s])
  PROVE  x \in Item(p) /\ Origin(p, x) = s /\ On(p, x) = QueueOf(p.script[s])
<1>1. \A t \in Calling(p) : x \in ItemsOf(p.script[t]) => t = s
  OBVIOUS
<1>2. Origin(p, x) = s
  BY <1>1 DEF Origin
<1> QED
  BY <1>2 DEF Item, On

LEMMA ExprPlaces ==
  ASSUME NEW p, p = ExprP
  PROVE  /\ OnceIn(p) /\ Len(p.script) \in Nat
         /\ Item(p) = {T("axb"), T("cxd"), T("fpg"), Rec, Aw}
         /\ Origin(p, T("axb")) = 1 /\ On(p, T("axb")) = "q1" /\ Rank(p, T("axb")) = 2
         /\ Origin(p, T("cxd")) = 2 /\ On(p, T("cxd")) = "q2" /\ Rank(p, T("cxd")) = 4
         /\ Origin(p, Rec) = 3 /\ On(p, Rec) = "q2" /\ Rank(p, Rec) = 7
         /\ Origin(p, Aw) = 4 /\ On(p, Aw) = "q1" /\ Rank(p, Aw) = 9
         /\ Origin(p, T("fpg")) = 5 /\ On(p, T("fpg")) = "q1" /\ Rank(p, T("fpg")) = 10
<1>1. /\ Len(p.script) = 11 /\ Calling(p) = 1 .. 11
      /\ ItemsOf(p.script[1]) = {T("axb")} /\ QueueOf(p.script[1]) = "q1"
      /\ ItemsOf(p.script[2]) = {T("cxd")} /\ QueueOf(p.script[2]) = "q2"
      /\ ItemsOf(p.script[3]) = {Rec} /\ QueueOf(p.script[3]) = "q2"
      /\ ItemsOf(p.script[4]) = {Aw} /\ QueueOf(p.script[4]) = "q1"
      /\ ItemsOf(p.script[5]) = {T("fpg")} /\ QueueOf(p.script[5]) = "q1"
      /\ \A s \in 6 .. 11 : ItemsOf(p.script[s]) = {}
  BY ExprCalls
<1>2. \A s \in Calling(p) : \A x \in ItemsOf(p.script[s]) :
        \/ s = 1 /\ x = T("axb")
        \/ s = 2 /\ x = T("cxd")
        \/ s = 3 /\ x = Rec
        \/ s = 4 /\ x = Aw
        \/ s = 5 /\ x = T("fpg")
  BY <1>1
<1>3. \A s, t \in Calling(p) : s # t => ItemsOf(p.script[s]) \cap ItemsOf(p.script[t]) = {}
  BY <1>2, DifferentItems
<1>4. Item(p) = {T("axb"), T("cxd"), T("fpg"), Rec, Aw}
  <2>1. \A x \in Item(p) : x \in {T("axb"), T("cxd"), T("fpg"), Rec, Aw}
    BY <1>2 DEF Item
  <2>2. \A x \in {T("axb"), T("cxd"), T("fpg"), Rec, Aw} : \E s \in Calling(p) : x \in ItemsOf(p.script[s])
    BY <1>1
  <2> QED
    BY <2>1, <2>2 DEF Item
<1>5. /\ Origin(p, T("axb")) = 1 /\ Origin(p, T("cxd")) = 2 /\ Origin(p, Rec) = 3
      /\ Origin(p, Aw) = 4 /\ Origin(p, T("fpg")) = 5
  <2>1. ASSUME NEW s \in Calling(p), NEW x \in ItemsOf(p.script[s]) PROVE Origin(p, x) = s
    BY <1>3, OriginIs
  <2>2. /\ 1 \in Calling(p) /\ 2 \in Calling(p) /\ 3 \in Calling(p) /\ 4 \in Calling(p) /\ 5 \in Calling(p)
    BY <1>1
  <2> QED
    BY <1>1, <2>1, <2>2
<1>6. /\ On(p, T("axb")) = "q1" /\ On(p, T("cxd")) = "q2" /\ On(p, Rec) = "q2"
      /\ On(p, Aw) = "q1" /\ On(p, T("fpg")) = "q1"
  BY <1>1, <1>5 DEF On
<1>7. /\ Rank(p, T("axb")) = 2 /\ Rank(p, T("cxd")) = 4 /\ Rank(p, Rec) = 7
      /\ Rank(p, Aw) = 9 /\ Rank(p, T("fpg")) = 10
  BY <1>5, DifferentItems DEF Rank
<1>8. \A x \in Item(p) : On(p, x) \in p.queues
  BY <1>4, <1>6 DEF ExprP, QueuePrograms
<1>9. \A a \in DOMAIN p.reads : TaskOf(a) \in Item(p)
  <2>1. DOMAIN p.reads = {Axb, Cxd, Fpg}
    BY DEF ExprP, QueuePrograms, ExprReads, ExprNode
  <2>2. TaskOf(Axb) = T("axb") /\ TaskOf(Cxd) = T("cxd") /\ TaskOf(Fpg) = T("fpg")
    BY DEF TaskOf, T, Axb, Cxd, Fpg
  <2> QED
    BY <1>4, <2>1, <2>2
<1> QED
  BY <1>1, <1>3, <1>4, <1>5, <1>6, <1>7, <1>8, <1>9 DEF OnceIn

LEMMA ExprConditions ==
  ASSUME NEW p, p = ExprP
  PROVE  /\ OnceIn(p) /\ ConflictsOrderedIn(p) /\ DepOrderedIn(p) /\ DestroyAfterWaitIn(p)
         /\ PrintAfterWaitIn(p) /\ OwnExecutorsIn(p)
<1>1. /\ p.events = {"event"} /\ p.atomic = {} /\ p.dep = {<<Axb, Fpg>>, <<Cxd, Fpg>>}
      /\ DOMAIN p.reads = {Axb, Cxd, Fpg}
      /\ p.reads[Axb] = {"A", "B"} /\ p.reads[Cxd] = {"C", "D"} /\ p.reads[Fpg] = {"F", "G"}
      /\ p.writes[Axb] = {"F"} /\ p.writes[Cxd] = {"G"} /\ p.writes[Fpg] = {"E"}
      /\ \A a \in DOMAIN p.reads : p.eid[a] = AnyExecutor
  <2>1. Axb # Cxd /\ Axb # Fpg /\ Cxd # Fpg
    BY DEF Axb, Cxd, Fpg
  <2> QED
    BY <2>1 DEF ExprP, QueuePrograms, ExprReads, ExprWrites, ExprNode, ExprDep, NoOwnExecutor, AnyExecutor
<1>2. TaskOf(Axb) = T("axb") /\ TaskOf(Cxd) = T("cxd") /\ TaskOf(Fpg) = T("fpg")
  BY DEF TaskOf, T, Axb, Cxd, Fpg
<1>3. Precedes(p, T("axb"), T("fpg")) /\ NotLater(p, T("axb"), T("fpg")) /\ NotLater(p, Aw, T("fpg"))
  BY ExprPlaces DEF Precedes, Earlier, NotLater
<1>4. BeforeEvent(p, T("cxd"), "event") /\ BeforeEvent(p, Rec, "event")
  BY ExprPlaces DEF BeforeEvent, Awaited, NotLater, Earlier, Rec, Aw
<1>5. Precedes(p, T("cxd"), T("fpg"))
  <2>1. Earlier(p, Aw, T("fpg"))
    BY ExprPlaces DEF Earlier
  <2> QED
    BY <1>1, <1>4, <2>1 DEF Precedes, Aw
<1>6. \A x \in Item(p) : GoneWith(p, x, T("fpg"))
  <2>1. GoneWith(p, T("axb"), T("fpg")) /\ GoneWith(p, T("fpg"), T("fpg")) /\ GoneWith(p, Aw, T("fpg"))
    BY <1>3 DEF GoneWith, NotLater
  <2>2. GoneWith(p, T("cxd"), T("fpg")) /\ GoneWith(p, Rec, T("fpg"))
    BY <1>1, <1>3, <1>4 DEF GoneWith, Aw
  <2> QED
    BY <2>1, <2>2, ExprPlaces
<1>7. ASSUME NEW x \in Item(p), NEW t \in 7 .. 11 PROVE WaitedFor(p, x, t)
  <2>1. 6 \in Calling(p) /\ p.script[6][1] = "queue_wait" /\ p.script[6][2] = "q1"
    BY ExprCalls
  <2>2. T("fpg") \in Item(p) /\ On(p, T("fpg")) = "q1" /\ Origin(p, T("fpg")) < 6
    BY ExprPlaces
  <2> QED
    BY <1>6, <2>1, <2>2 DEF WaitedFor
<1>8. ConflictsOrderedIn(p)
  BY <1>1, <1>2, <1>3, <1>5 DEF ConflictsOrderedIn
<1>9. DepOrderedIn(p)
  BY <1>1, <1>2, <1>3, <1>5 DEF DepOrderedIn
<1>10. /\ \A t \in Calling(p) : p.script[t][1] = "destroy" => t \in 7 .. 11
       /\ \A t \in Calling(p) : p.script[t][1] = "print" => t = 7
  BY ExprCalls
<1>11. DestroyAfterWaitIn(p)
  BY <1>7, <1>10 DEF DestroyAfterWaitIn
<1>12. PrintAfterWaitIn(p)
  BY <1>7, <1>10 DEF PrintAfterWaitIn
<1> QED
  BY <1>1, <1>8, <1>9, <1>11, <1>12, ExprPlaces DEF OwnExecutorsIn

LEMMA CopyCalls ==
  ASSUME NEW p, p = CopyP
  PROVE  /\ Len(p.script) = 10 /\ Calling(p) = 1 .. 10
         /\ ItemsOf(p.script[1]) = {T("memcpy"), Rec} /\ QueueOf(p.script[1]) = "q1"
         /\ ItemsOf(p.script[2]) = {T("task_compute")} /\ QueueOf(p.script[2]) = "q2"
         /\ \A s \in 3 .. 10 : ItemsOf(p.script[s]) = {}
         /\ p.script[3] = <<"queue_wait", "q2">> /\ p.script[4] = <<"event_wait", "event">>
         /\ \A s \in 1 .. 4 : p.script[s][1] \notin {"destroy", "print"}
         /\ \A s \in 1 .. 10 : p.script[s][1] = "print" => s = 8
<1>1. p.script = CopyScript
  BY DEF CopyP, QueuePrograms
<1>2. /\ Len(p.script) = 10
      /\ p.script[1] = <<"memcpy_async", "q1", "memcpy", "event">>
      /\ p.script[2] = <<"queue_submit", "q2", "task_compute">>
      /\ p.script[3] = <<"queue_wait", "q2">>
      /\ p.script[4] = <<"event_wait", "event">>
      /\ p.script[5] = <<"destroy", "q2">>
      /\ p.script[6] = <<"destroy", "q1">>
      /\ p.script[7] = <<"destroy", "event">>
      /\ p.script[8] = <<"print">>
      /\ p.script[9] = <<"destroy", "src">>
      /\ p.script[10] = <<"destroy", "dst">>
  BY <1>1 DEF CopyScript
<1>3. /\ ItemsOf(p.script[1]) = {T("memcpy"), Rec} /\ QueueOf(p.script[1]) = "q1"
      /\ ItemsOf(p.script[2]) = {T("task_compute")} /\ QueueOf(p.script[2]) = "q2"
  BY <1>2 DEF ItemsOf, QueueOf, T, Rec
<1>4. ASSUME NEW s \in 3 .. 10 PROVE ItemsOf(p.script[s]) = {}
  <2>1. p.script[s][1] \in {"queue_wait", "event_wait", "print", "destroy"}
    BY <1>2
  <2> QED
    BY <2>1 DEF ItemsOf
<1>5. \A s \in 1 .. 4 : p.script[s][1] \notin {"destroy", "print"}
  BY <1>2
<1>6. \A s \in 1 .. 10 : p.script[s][1] = "print" => s = 8
  BY <1>2
<1>7. Calling(p) = 1 .. 10
  BY <1>2 DEF Calling
<1> QED
  BY <1>2, <1>3, <1>4, <1>5, <1>6, <1>7

LEMMA CopyPlaces ==
  ASSUME NEW p, p = CopyP
  PROVE  /\ OnceIn(p) /\ Len(p.script) \in Nat
         /\ Item(p) = {T("memcpy"), Rec, T("task_compute")}
         /\ Origin(p, T("memcpy")) = 1 /\ On(p, T("memcpy")) = "q1" /\ Rank(p, T("memcpy")) = 2
         /\ Origin(p, Rec) = 1 /\ On(p, Rec) = "q1" /\ Rank(p, Rec) = 3
         /\ Origin(p, T("task_compute")) = 2 /\ On(p, T("task_compute")) = "q2"
<1>1. /\ Len(p.script) = 10 /\ Calling(p) = 1 .. 10
      /\ ItemsOf(p.script[1]) = {T("memcpy"), Rec} /\ QueueOf(p.script[1]) = "q1"
      /\ ItemsOf(p.script[2]) = {T("task_compute")} /\ QueueOf(p.script[2]) = "q2"
      /\ \A s \in 3 .. 10 : ItemsOf(p.script[s]) = {}
  BY CopyCalls
<1>2. \A s \in Calling(p) : \A x \in ItemsOf(p.script[s]) :
        \/ s = 1 /\ x = T("memcpy")
        \/ s = 1 /\ x = Rec
        \/ s = 2 /\ x = T("task_compute")
  BY <1>1
<1>3. \A s, t \in Calling(p) : s # t => ItemsOf(p.script[s]) \cap ItemsOf(p.script[t]) = {}
  BY <1>2, DifferentItems
<1>4. Item(p) = {T("memcpy"), Rec, T("task_compute")}
  <2>1. \A x \in {T("memcpy"), Rec, T("task_compute")} : \E s \in Calling(p) : x \in ItemsOf(p.script[s])
    BY <1>1
  <2> QED
    BY <1>2, <2>1 DEF Item
<1>5. /\ Origin(p, T("memcpy")) = 1 /\ On(p, T("memcpy")) = "q1"
      /\ Origin(p, Rec) = 1 /\ On(p, Rec) = "q1"
      /\ Origin(p, T("task_compute")) = 2 /\ On(p, T("task_compute")) = "q2"
  <2>1. ASSUME NEW s \in Calling(p), NEW x \in ItemsOf(p.script[s])
        PROVE  Origin(p, x) = s /\ On(p, x) = QueueOf(p.script[s])
    BY <1>3, OriginIs
  <2>2. 1 \in Calling(p) /\ 2 \in Calling(p)
    BY <1>1
  <2> QED
    BY <1>1, <2>1, <2>2
<1>6. Rank(p, T("memcpy")) = 2 /\ Rank(p, Rec) = 3
  BY <1>5, DifferentItems DEF Rank
<1>7. \A x \in Item(p) : On(p, x) \in p.queues
  BY <1>4, <1>5 DEF CopyP, QueuePrograms
<1>8. \A a \in DOMAIN p.reads : TaskOf(a) \in Item(p)
  <2>1. \A a \in DOMAIN p.reads : a[1] = "memcpy" \/ a[1] = "task_compute"
    BY DEF CopyP, QueuePrograms, CopyReads, CopyPart
  <2> QED
    BY <1>4, <2>1 DEF TaskOf, T
<1> QED
  BY <1>1, <1>3, <1>4, <1>5, <1>6, <1>7, <1>8 DEF OnceIn

LEMMA CopyConditions ==
  ASSUME NEW p, p = CopyP
  PROVE  /\ OnceIn(p) /\ ConflictsOrderedIn(p) /\ DepOrderedIn(p) /\ DestroyAfterWaitIn(p)
         /\ PrintAfterWaitIn(p) /\ OwnExecutorsIn(p)
<1>1. /\ p.dep = {} /\ DOMAIN p.reads = CopyPart
      /\ p.uses = CopyUses /\ p.reads = CopyReads /\ p.writes = CopyWrites
      /\ \A a \in DOMAIN p.reads : p.eid[a] = AnyExecutor
  BY DEF CopyP, QueuePrograms, CopyReads, NoOwnExecutor, AnyExecutor
<1>2. ConflictsOrderedIn(p)
  <2>1. ASSUME NEW a \in CopyPart, NEW b \in CopyPart, a # b
        PROVE  p.writes[a] \cap (p.reads[b] \cup p.writes[b]) = {}
    <3>1. /\ a[1] \in {"memcpy", "task_compute"} /\ b[1] \in {"memcpy", "task_compute"}
          /\ a[1] # b[1] \/ a[2] # b[2]
      BY <2>1 DEF CopyPart
    <3>2. /\ p.writes[a] = {<<IF a[1] = "memcpy" THEN "dst" ELSE "c", a[2]>>}
          /\ p.writes[b] = {<<IF b[1] = "memcpy" THEN "dst" ELSE "c", b[2]>>}
          /\ p.reads[b] = IF b[1] = "memcpy" THEN {<<"src", b[2]>>} ELSE {}
      BY <1>1 DEF CopyReads, CopyWrites
    <3> QED
      BY <3>1, <3>2
  <2> QED
    BY <1>1, <2>1 DEF ConflictsOrderedIn
<1>3. WaitedFor(p, T("task_compute"), 5)
  <2>1. GoneWith(p, T("task_compute"), T("task_compute"))
    BY DEF GoneWith, NotLater
  <2>2. 3 \in Calling(p) /\ p.script[3][1] = "queue_wait" /\ p.script[3][2] = "q2"
    BY CopyCalls
  <2> QED
    BY <2>1, <2>2, CopyPlaces DEF WaitedFor
<1>4. WaitedFor(p, T("memcpy"), 5) /\ WaitedFor(p, Rec, 5)
  <2>1. GoneWith(p, T("memcpy"), Rec) /\ GoneWith(p, Rec, Rec)
    BY CopyPlaces DEF GoneWith, NotLater, Earlier
  <2>2. 4 \in Calling(p) /\ p.script[4][1] = "event_wait" /\ <<"record", p.script[4][2]>> = Rec
    BY CopyCalls DEF Rec
  <2> QED
    BY <2>1, <2>2 DEF WaitedFor
<1>5. ASSUME NEW x \in Item(p), NEW t \in 5 .. 10 PROVE WaitedFor(p, x, t)
  <2>1. WaitedFor(p, x, 5)
    BY <1>3, <1>4, CopyPlaces
  <2>2. \A w \in Calling(p) : w < 5 => w < t
    BY CopyCalls
  <2> QED
    BY <2>1, <2>2 DEF WaitedFor
<1>6. /\ \A t \in Calling(p) : p.script[t][1] = "destroy" => t \in 5 .. 10
      /\ \A t \in Calling(p) : p.script[t][1] = "print" => t = 8
  BY CopyCalls
<1>7. DestroyAfterWaitIn(p)
  BY <1>5, <1>6 DEF DestroyAfterWaitIn
<1>8. PrintAfterWaitIn(p)
  BY <1>5, <1>6 DEF PrintAfterWaitIn
<1> QED
  BY <1>1, <1>2, <1>7, <1>8, CopyPlaces DEF OwnExecutorsIn, DepOrderedIn

LEMMA SumCalls ==
  ASSUME NEW p, p = SumP
  PROVE  /\ Len(p.script) = 10 /\ Calling(p) = 1 .. 10
         /\ ItemsOf(p.script[1]) = {T("kernel1")} /\ QueueOf(p.script[1]) = "q1"
         /\ ItemsOf(p.script[2]) = {T("kernel2")} /\ QueueOf(p.script[2]) = "q2"
         /\ \A s \in 3 .. 10 : ItemsOf(p.script[s]) = {}
         /\ p.script[3] = <<"queue_wait", "q1">> /\ p.script[4] = <<"queue_wait", "q2">>
         /\ \A s \in 1 .. 4 : p.script[s][1] \notin {"destroy", "print"}
         /\ \A s \in 1 .. 10 : p.script[s][1] = "print" => s = 5
<1>1. p.script = SumScript
  BY DEF SumP, QueuePrograms
<1>2. /\ Len(p.script) = 10
      /\ p.script[1] = <<"queue_submit", "q1", "kernel1">>
      /\ p.script[2] = <<"queue_submit", "q2", "kernel2">>
      /\ p.script[3] = <<"queue_wait", "q1">>
      /\ p.script[4] = <<"queue_wait", "q2">>
      /\ p.script[5] = <<"print">>
      /\ \A s \in 6 .. 10 : p.script[s][1] = "destroy"
  BY <1>1 DEF SumScript
<1>3. /\ ItemsOf(p.script[1]) = {T("kernel1")} /\ QueueOf(p.script[1]) = "q1"
      /\ ItemsOf(p.script[2]) = {T("kernel2")} /\ QueueOf(p.script[2]) = "q2"
  BY <1>2 DEF ItemsOf, QueueOf, T
<1>4. ASSUME NEW s \in 3 .. 10 PROVE ItemsOf(p.script[s]) = {}
  <2>1. p.script[s][1] \in {"queue_wait", "print", "destroy"}
    BY <1>2
  <2> QED
    BY <2>1 DEF ItemsOf
<1>5. \A s \in 1 .. 4 : p.script[s][1] \notin {"destroy", "print"}
  BY <1>2
<1>6. \A s \in 1 .. 10 : p.script[s][1] = "print" => s = 5
  BY <1>2
<1>7. Calling(p) = 1 .. 10
  BY <1>2 DEF Calling
<1> QED
  BY <1>2, <1>3, <1>4, <1>5, <1>6, <1>7

LEMMA SumPlaces ==
  ASSUME NEW p, p = SumP
  PROVE  /\ OnceIn(p) /\ Len(p.script) \in Nat
         /\ Item(p) = {T("kernel1"), T("kernel2")}
         /\ Origin(p, T("kernel1")) = 1 /\ On(p, T("kernel1")) = "q1"
         /\ Origin(p, T("kernel2")) = 2 /\ On(p, T("kernel2")) = "q2"
<1>1. /\ Len(p.script) = 10 /\ Calling(p) = 1 .. 10
      /\ ItemsOf(p.script[1]) = {T("kernel1")} /\ QueueOf(p.script[1]) = "q1"
      /\ ItemsOf(p.script[2]) = {T("kernel2")} /\ QueueOf(p.script[2]) = "q2"
      /\ \A s \in 3 .. 10 : ItemsOf(p.script[s]) = {}
  BY SumCalls
<1>2. \A s \in Calling(p) : \A x \in ItemsOf(p.script[s]) :
        \/ s = 1 /\ x = T("kernel1")
        \/ s = 2 /\ x = T("kernel2")
  BY <1>1
<1>3. \A s, t \in Calling(p) : s # t => ItemsOf(p.script[s]) \cap ItemsOf(p.script[t]) = {}
  BY <1>2, DifferentItems
<1>4. Item(p) = {T("kernel1"), T("kernel2")}
  <2>1. \A x \in {T("kernel1"), T("kernel2")} : \E s \in Calling(p) : x \in ItemsOf(p.script[s])
    BY <1>1
  <2> QED
    BY <1>2, <2>1 DEF Item
<1>5. /\ Origin(p, T("kernel1")) = 1 /\ On(p, T("kernel1")) = "q1"
      /\ Origin(p, T("kernel2")) = 2 /\ On(p, T("kernel2")) = "q2"
  <2>1. ASSUME NEW s \in Calling(p), NEW x \in ItemsOf(p.script[s])
        PROVE  Origin(p, x) = s /\ On(p, x) = QueueOf(p.script[s])
    BY <1>3, OriginIs
  <2>2. 1 \in Calling(p) /\ 2 \in Calling(p)
    BY <1>1
  <2> QED
    BY <1>1, <2>1, <2>2
<1>6. \A x \in Item(p) : On(p, x) \in p.queues
  BY <1>4, <1>5 DEF SumP, QueuePrograms
<1>7. \A a \in DOMAIN p.reads : TaskOf(a) \in Item(p)
  <2>1. \A a \in DOMAIN p.reads : a[1] = "kernel1" \/ a[1] = "kernel2"
    BY DEF SumP, QueuePrograms, SumAccess, SumPart
  <2> QED
    BY <1>4, <2>1 DEF TaskOf, T
<1> QED
  BY <1>1, <1>3, <1>4, <1>5, <1>6, <1>7 DEF OnceIn

LEMMA SumConditions ==
  ASSUME NEW p, p = SumP
  PROVE  /\ OnceIn(p) /\ ConflictsOrderedIn(p) /\ DepOrderedIn(p) /\ DestroyAfterWaitIn(p)
         /\ PrintAfterWaitIn(p) /\ OwnExecutorsIn(p)
<1>1. /\ p.dep = {} /\ DOMAIN p.reads = SumPart /\ p.eid = SumEid
      /\ p.writes = SumAccess /\ p.atomic = SumCell
  BY DEF SumP, QueuePrograms, SumAccess, SumAtomic
<1>2. ConflictsOrderedIn(p)
  <2>1. \A a \in SumPart : p.writes[a] \subseteq p.atomic
    BY <1>1 DEF SumAccess, SumCell, SumOf
  <2> QED
    BY <1>1, <2>1 DEF ConflictsOrderedIn
<1>3. WaitedFor(p, T("kernel1"), 5) /\ WaitedFor(p, T("kernel2"), 5)
  <2>1. GoneWith(p, T("kernel1"), T("kernel1")) /\ GoneWith(p, T("kernel2"), T("kernel2"))
    BY DEF GoneWith, NotLater
  <2>2. /\ 3 \in Calling(p) /\ p.script[3][1] = "queue_wait" /\ p.script[3][2] = "q1"
        /\ 4 \in Calling(p) /\ p.script[4][1] = "queue_wait" /\ p.script[4][2] = "q2"
    BY SumCalls
  <2>3. WaitedFor(p, T("kernel1"), 5)
    BY <2>1, <2>2, SumPlaces DEF WaitedFor
  <2>4. WaitedFor(p, T("kernel2"), 5)
    BY <2>1, <2>2, SumPlaces DEF WaitedFor
  <2> QED
    BY <2>3, <2>4
<1>4. ASSUME NEW x \in Item(p), NEW t \in 5 .. 10 PROVE WaitedFor(p, x, t)
  <2>1. WaitedFor(p, x, 5)
    BY <1>3, SumPlaces
  <2>2. \A w \in Calling(p) : w < 5 => w < t
    BY SumCalls
  <2> QED
    BY <2>1, <2>2 DEF WaitedFor
<1>5. /\ \A t \in Calling(p) : p.script[t][1] = "destroy" => t \in 5 .. 10
      /\ \A t \in Calling(p) : p.script[t][1] = "print" => t = 5
  BY SumCalls
<1>6. DestroyAfterWaitIn(p)
  BY <1>4, <1>5 DEF DestroyAfterWaitIn
<1>7. PrintAfterWaitIn(p)
  BY <1>4, <1>5 DEF PrintAfterWaitIn
<1>8. OwnExecutorsIn(p)
  <2>1. ASSUME NEW a \in SumPart, NEW b \in SumPart, a # b PROVE SumEid[a] # SumEid[b]
    <3>1. /\ a[1] \in {"kernel1", "kernel2"} /\ b[1] \in {"kernel1", "kernel2"}
          /\ a[2] \in 0 .. GroupSize - 1 /\ b[2] \in 0 .. GroupSize - 1
          /\ a[1] # b[1] \/ a[2] # b[2]
      BY <2>1 DEF SumPart, Slice
    <3>2. /\ SumEid[a] = IF a[1] = "kernel1" THEN a[2] ELSE GroupSize + a[2]
          /\ SumEid[b] = IF b[1] = "kernel1" THEN b[2] ELSE GroupSize + b[2]
      BY DEF SumEid
    <3> QED
      BY <3>1, <3>2, QueueProgramsAssumption
  <2> QED
    BY <1>1, <2>1 DEF OwnExecutorsIn
<1> QED
  BY <1>1, <1>2, <1>6, <1>7, <1>8, SumPlaces DEF DepOrderedIn

LEMMA Fours ==
  ASSUME NEW S, NEW t, t \in [1 .. 4 -> S]
  PROVE  t \in Seq(S) /\ Len(t) = 4
<1>1. t \in Seq(S)
  BY SeqDef
<1>2. Len(t) \in Nat /\ DOMAIN t = 1 .. Len(t)
  BY <1>1, LenProperties
<1>3. 1 .. 4 = 1 .. Len(t)
  BY <1>2
<1> QED
  BY <1>1, <1>2, <1>3

(* u is s, of m elements, followed by t, of n.                             *)
Joins(S, u, s, m, t, n) ==
  /\ u \in Seq(S) /\ Len(u) = m + n
  /\ \A i \in 1 .. m : u[i] = s[i]
  /\ \A i \in 1 .. n : u[m + i] = t[i]

LEMMA Joined ==
  ASSUME NEW S, NEW s, s \in Seq(S), NEW t, t \in Seq(S), NEW m, m \in Nat, NEW n, n \in Nat,
         Len(s) = m, Len(t) = n, NEW u, u = s \o t
  PROVE  Joins(S, u, s, m, t, n)
<1>1. /\ s \o t \in Seq(S) /\ Len(s \o t) = Len(s) + Len(t)
      /\ \A i \in 1 .. Len(s) + Len(t) :
           (s \o t)[i] = IF i <= Len(s) THEN s[i] ELSE t[i - Len(s)]
  BY ConcatProperties, Zenon
<1>2. /\ u \in Seq(S) /\ Len(u) = Len(s) + Len(t)
      /\ \A i \in 1 .. Len(s) + Len(t) : u[i] = IF i <= Len(s) THEN s[i] ELSE t[i - Len(s)]
  BY <1>1, Zenon
<1>3. /\ u \in Seq(S) /\ Len(u) = m + n
      /\ \A i \in 1 .. m + n : u[i] = IF i <= m THEN s[i] ELSE t[i - m]
  BY <1>2, Zenon
<1> QED
  BY <1>3 DEF Joins

LEMMA KernelCalls ==
  ASSUME NEW p, p = KernelP
  PROVE  /\ Len(p.script) = 16 /\ Calling(p) = 1 .. 16
         /\ \A k \in 1 .. 4 :
              /\ p.script[k][1] = "queue_submit"
              /\ ItemsOf(p.script[k]) = {T(KernelQueues[k])} /\ QueueOf(p.script[k]) = KernelQueues[k]
              /\ p.script[4 + k] = <<"queue_wait", KernelQueues[k]>>
              /\ p.script[8 + k] = <<"destroy", EgroupOf[KernelQueues[k]]>>
              /\ p.script[12 + k] = <<"destroy", KernelQueues[k]>>
         /\ \A s \in 1 .. 8 : p.script[s][1] \notin {"destroy", "print"}
         /\ \A s \in 5 .. 16 : ItemsOf(p.script[s]) = {} /\ p.script[s][1] # "print"
<1> DEFINE a == SubmitAll
           b == WaitAll
           c == [k \in 1 .. 4 |-> <<"destroy", EgroupOf[KernelQueues[k]]>>]
           d == [k \in 1 .. 4 |-> <<"destroy", KernelQueues[k]>>]
           S == {a[k] : k \in 1 .. 4} \cup {b[k] : k \in 1 .. 4}
                  \cup {c[k] : k \in 1 .. 4} \cup {d[k] : k \in 1 .. 4}
<1>1. p.script = (a \o b) \o (c \o d)
  BY DEF KernelP, QueuePrograms, KernelScript, DestroyAll
<1>2. /\ a \in [1 .. 4 -> S] /\ b \in [1 .. 4 -> S] /\ c \in [1 .. 4 -> S] /\ d \in [1 .. 4 -> S]
      /\ \A k \in 1 .. 4 :
           /\ a[k] = <<"queue_submit", KernelQueues[k], KernelQueues[k]>>
           /\ b[k] = <<"queue_wait", KernelQueues[k]>>
           /\ c[k] = <<"destroy", EgroupOf[KernelQueues[k]]>>
           /\ d[k] = <<"destroy", KernelQueues[k]>>
  BY DEF SubmitAll, WaitAll
<1> HIDE DEF a, b, c, d, S
<1>3. /\ a \in Seq(S) /\ b \in Seq(S) /\ c \in Seq(S) /\ d \in Seq(S)
      /\ Len(a) = 4 /\ Len(b) = 4 /\ Len(c) = 4 /\ Len(d) = 4
  BY <1>2, Fours, Zenon
<1>4. PICK u : u = a \o b
  OBVIOUS
<1>5. PICK v : v = c \o d
  OBVIOUS
<1>6. Joins(S, u, a, 4, b, 4)
  BY <1>3, <1>4, Joined, 4 \in Nat, Zenon
<1>7. Joins(S, v, c, 4, d, 4)
  BY <1>3, <1>5, Joined, 4 \in Nat, Zenon
<1>8. p.script = u \o v
  BY <1>1, <1>4, <1>5, Zenon
<1>9. Joins(S, p.script, u, 8, v, 8)
  <2>1. u \in Seq(S) /\ v \in Seq(S) /\ Len(u) = 8 /\ Len(v) = 8
    BY <1>6, <1>7 DEF Joins
  <2> QED
    BY <1>8, <2>1, Joined, 8 \in Nat, Zenon
<1>10. ASSUME NEW k \in 1 .. 4
       PROVE  /\ p.script[k] = <<"queue_submit", KernelQueues[k], KernelQueues[k]>>
              /\ p.script[4 + k] = <<"queue_wait", KernelQueues[k]>>
              /\ p.script[8 + k] = <<"destroy", EgroupOf[KernelQueues[k]]>>
              /\ p.script[12 + k] = <<"destroy", KernelQueues[k]>>
  <2>1. p.script[k] = a[k] /\ p.script[4 + k] = b[k] /\ p.script[8 + k] = c[k] /\ p.script[8 + (4 + k)] = d[k]
    <3>1. u[k] = a[k] /\ u[4 + k] = b[k] /\ v[k] = c[k] /\ v[4 + k] = d[k]
      BY <1>6, <1>7 DEF Joins
    <3>2. k \in 1 .. 8 /\ 4 + k \in 1 .. 8
      OBVIOUS
    <3>3. \A i \in 1 .. 8 : p.script[i] = u[i] /\ p.script[8 + i] = v[i]
      BY <1>9 DEF Joins
    <3>4. p.script[k] = u[k] /\ p.script[8 + k] = v[k]
      BY <3>2, <3>3
    <3>5. p.script[4 + k] = u[4 + k] /\ p.script[8 + (4 + k)] = v[4 + k]
      BY <3>2, <3>3
    <3> QED
      BY <3>1, <3>4, <3>5
  <2> QED
    BY <1>2, <2>1
<1>11. \A k \in 1 .. 4 : /\ ItemsOf(p.script[k]) = {T(KernelQueues[k])}
                        /\ QueueOf(p.script[k]) = KernelQueues[k]
  BY <1>10 DEF ItemsOf, QueueOf, T
<1>12. ASSUME NEW s \in 1 .. 16
       PROVE  /\ s \in 1 .. 8 => p.script[s][1] \notin {"destroy", "print"}
              /\ s \in 5 .. 16 => p.script[s][1] \in {"queue_wait", "destroy"}
  <2>1. \E k \in 1 .. 4 : s \in {k, 4 + k, 8 + k, 12 + k}
    OBVIOUS
  <2>2. PICK k \in 1 .. 4 : s \in {k, 4 + k, 8 + k, 12 + k}
    BY <2>1
  <2>3. /\ p.script[k][1] = "queue_submit" /\ p.script[4 + k][1] = "queue_wait"
        /\ p.script[8 + k][1] = "destroy" /\ p.script[12 + k][1] = "destroy"
    BY <1>10
  <2> QED
    BY <2>2, <2>3
<1>13. \A s \in 5 .. 16 : ItemsOf(p.script[s]) = {} /\ p.script[s][1] # "print"
  <2>1. \A s \in 5 .. 16 : p.script[s][1] \in {"queue_wait", "destroy"}
    BY <1>12
  <2> QED
    BY <2>1 DEF ItemsOf
<1>14. \A s \in 1 .. 8 : p.script[s][1] \notin {"destroy", "print"}
  BY <1>12
<1>15. Len(p.script) = 16 /\ Calling(p) = 1 .. 16
  BY <1>9 DEF Joins, Calling
<1> QED
  BY <1>10, <1>11, <1>13, <1>14, <1>15

LEMMA KernelPlaces ==
  ASSUME NEW p, p = KernelP
  PROVE  /\ OnceIn(p) /\ Len(p.script) \in Nat
         /\ Item(p) = {T(KernelQueues[k]) : k \in 1 .. 4}
         /\ \A k \in 1 .. 4 :
              Origin(p, T(KernelQueues[k])) = k /\ On(p, T(KernelQueues[k])) = KernelQueues[k]
<1>1. /\ Len(p.script) = 16 /\ Calling(p) = 1 .. 16
      /\ \A k \in 1 .. 4 :
           ItemsOf(p.script[k]) = {T(KernelQueues[k])} /\ QueueOf(p.script[k]) = KernelQueues[k]
      /\ \A s \in 5 .. 16 : ItemsOf(p.script[s]) = {}
  BY KernelCalls
<1>2. \A s \in Calling(p) : \A x \in ItemsOf(p.script[s]) : s \in 1 .. 4 /\ x = T(KernelQueues[s])
  BY <1>1
<1>3. \A j, k \in 1 .. 4 : j # k => KernelQueues[j] # KernelQueues[k]
  BY DEF KernelQueues
<1>4. \A s, t \in Calling(p) : s # t => ItemsOf(p.script[s]) \cap ItemsOf(p.script[t]) = {}
  BY <1>2, <1>3, DifferentItems
<1>5. Item(p) = {T(KernelQueues[k]) : k \in 1 .. 4}
  <2>1. \A k \in 1 .. 4 : k \in Calling(p) /\ T(KernelQueues[k]) \in ItemsOf(p.script[k])
    BY <1>1
  <2> QED
    BY <1>2, <2>1 DEF Item
<1>6. ASSUME NEW k \in 1 .. 4
      PROVE  Origin(p, T(KernelQueues[k])) = k /\ On(p, T(KernelQueues[k])) = KernelQueues[k]
  <2>1. k \in Calling(p) /\ T(KernelQueues[k]) \in ItemsOf(p.script[k]) /\ QueueOf(p.script[k]) = KernelQueues[k]
    BY <1>1
  <2> QED
    BY <1>4, <2>1, OriginIs
<1>7. \A x \in Item(p) : On(p, x) \in p.queues
  BY <1>5, <1>6 DEF KernelP, QueuePrograms, KernelQueue
<1>8. \A a \in DOMAIN p.reads : TaskOf(a) \in Item(p)
  <2>1. \A a \in DOMAIN p.reads : \E k \in 1 .. 4 : a[1] = KernelQueues[k]
    BY DEF KernelP, QueuePrograms, NoAccess, KernelPart
  <2> QED
    BY <1>5, <2>1 DEF TaskOf, T
<1> QED
  BY <1>1, <1>4, <1>5, <1>6, <1>7, <1>8 DEF OnceIn

(* The executors of a queue are a range that starts after the ranges of    *)
(* the queues before it.                                                   *)
LEMMA KernelExecutors ==
  ASSUME NEW a \in KernelPart, NEW b \in KernelPart, a # b
  PROVE  KernelEid[a] # KernelEid[b]
<1>1. NumExecutors \in Nat
  BY QueueProgramsAssumption
<1> DEFINE E == ExecutorsPerQueue
<1>2. E \in Nat
  BY <1>1 DEF ExecutorsPerQueue
<1>3. PICK j \in 1 .. 4 : a \in {KernelQueues[j]} \X Egroup(E * (j - 1), E)
  BY DEF KernelPart
<1>4. PICK k \in 1 .. 4 : b \in {KernelQueues[k]} \X Egroup(E * (k - 1), E)
  BY DEF KernelPart
<1>5. /\ a = <<KernelQueues[j], a[2]>> /\ a[2] \in E * (j - 1) .. E * (j - 1) + E - 1
      /\ b = <<KernelQueues[k], b[2]>> /\ b[2] \in E * (k - 1) .. E * (k - 1) + E - 1
  BY <1>3, <1>4 DEF Egroup
<1> HIDE DEF E
<1>6. E * (1 - 1) = 0 /\ E * (2 - 1) = E /\ E * (3 - 1) = E + E /\ E * (4 - 1) = E + E + E
  BY <1>2
<1>7. ASSUME a[2] = b[2] PROVE j = k
  <2>1. \A i \in 1 .. 4 : i = 1 \/ i = 2 \/ i = 3 \/ i = 4
    OBVIOUS
  <2> QED
    BY <1>2, <1>5, <1>6, <1>7, <2>1
<1>8. a[2] # b[2]
  BY <1>5, <1>7
<1> QED
  BY <1>8 DEF KernelEid

LEMMA KernelConditions ==
  ASSUME NEW p, p = KernelP
  PROVE  /\ OnceIn(p) /\ ConflictsOrderedIn(p) /\ DepOrderedIn(p) /\ DestroyAfterWaitIn(p)
         /\ PrintAfterWaitIn(p) /\ OwnExecutorsIn(p)
<1>1. /\ p.dep = {} /\ DOMAIN p.reads = KernelPart /\ p.eid = KernelEid
      /\ \A a \in DOMAIN p.reads : p.writes[a] = {}
  BY DEF KernelP, QueuePrograms, NoAccess
<1>2. ASSUME NEW x \in Item(p), NEW t \in 9 .. 16 PROVE WaitedFor(p, x, t)
  <2>1. PICK k \in 1 .. 4 : x = T(KernelQueues[k])
    BY KernelPlaces
  <2>2. GoneWith(p, x, x)
    BY DEF GoneWith, NotLater
  <2>3. /\ 4 + k \in Calling(p) /\ 4 + k < t
        /\ p.script[4 + k][1] = "queue_wait" /\ p.script[4 + k][2] = KernelQueues[k]
    BY KernelCalls
  <2>4. On(p, x) = KernelQueues[k] /\ Origin(p, x) < 4 + k
    BY <2>1, KernelPlaces
  <2> QED
    BY <2>2, <2>3, <2>4 DEF WaitedFor
<1>3. \A t \in Calling(p) : /\ p.script[t][1] = "destroy" => t \in 9 .. 16
                           /\ p.script[t][1] # "print"
  <2>1. /\ Calling(p) = 1 .. 16
        /\ \A s \in 1 .. 8 : p.script[s][1] \notin {"destroy", "print"}
        /\ \A s \in 5 .. 16 : p.script[s][1] # "print"
    BY KernelCalls
  <2> QED
    BY <2>1
<1>4. DestroyAfterWaitIn(p)
  BY <1>2, <1>3 DEF DestroyAfterWaitIn
<1>5. PrintAfterWaitIn(p)
  BY <1>3 DEF PrintAfterWaitIn
<1>6. OwnExecutorsIn(p)
  BY <1>1, KernelExecutors DEF OwnExecutorsIn
<1> QED
  BY <1>1, <1>4, <1>5, <1>6, KernelPlaces DEF ConflictsOrderedIn, DepOrderedIn

(* The four programs keep all conditions.                                  *)
LEMMA ProgramConditions ==
  ASSUME Programs = QueuePrograms
  PROVE  /\ ItemsOnce /\ ConflictsOrdered /\ DepOrdered /\ DestroyAfterWait
         /\ PrintAfterWait /\ OwnExecutors
<1>1. \A n \in DOMAIN Programs : Programs[n] \in {ExprP, CopyP, SumP, KernelP}
  BY DEF QueuePrograms, ExprP, CopyP, SumP, KernelP
<1>2. ASSUME NEW n \in DOMAIN Programs
      PROVE  LET p == Programs[n] IN
               /\ OnceIn(p) /\ ConflictsOrderedIn(p) /\ DepOrderedIn(p) /\ DestroyAfterWaitIn(p)
               /\ PrintAfterWaitIn(p) /\ OwnExecutorsIn(p)
  BY <1>1, ExprConditions, CopyConditions, SumConditions, KernelConditions
<1> QED
  BY <1>2 DEF ItemsOnce, ConflictsOrdered, DepOrdered, DestroyAfterWait, PrintAfterWait, OwnExecutors

(* No two parts of any of the four programs race.                          *)
THEOREM ProgramsRaceFree ==
  ASSUME Programs = QueuePrograms
  PROVE  Spec => []RaceFree
BY ProgramConditions, QueuesPreventRaces

(* None of the four destroys or frees what an item on a queue still needs, *)
(* memcpy_async included, which waits for an event and never for q1.       *)
THEOREM ProgramsResources ==
  ASSUME Programs = QueuePrograms
  PROVE  Spec => []ResourcesOutliveUse
BY ProgramConditions, WaitsProtectResources

(* No executor runs two parts: the egroups are disjoint for every number   *)
(* of executors and every size.                                            *)
THEOREM ProgramsExecutors ==
  ASSUME Programs = QueuePrograms
  PROVE  Spec => []ExecutorsNotShared
BY ProgramConditions, ExecutorsKept

(* Each of the four is its graph of indivisible parts; for                 *)
(* queue_event_dependency this is E = A * B + C * D in the order that the  *)
(* event on q2 brings about.                                               *)
THEOREM ProgramsImplementation ==
  ASSUME Programs = QueuePrograms
  PROVE  Spec => ImplementsAtomic
BY ProgramConditions, QueuesImplementation

(* What the four wait for comes.                                           *)
NeverWaits == {"queue_submit", "memcpy_async", "event_record", "queue_wait_event", "print", "destroy"}

LEMMA ExprAnswered ==
  ASSUME NEW p, p = ExprP
  PROVE  WaitsAnsweredIn(p)
<1>1. p.script = ExprScript /\ p.queues = {"q1", "q2"} /\ p.events = {"event"}
      /\ DOMAIN p.reads = {Axb, Cxd, Fpg}
  BY DEF ExprP, QueuePrograms, ExprReads, ExprNode
<1>2. \A s \in Calling(p) : p.script[s][1] \in NeverWaits \/ p.script[s] = <<"queue_wait", "q1">>
  BY <1>1 DEF ExprScript, Calling, NeverWaits
<1>3. TaskOf(Axb) = T("axb") /\ TaskOf(Cxd) = T("cxd") /\ TaskOf(Fpg) = T("fpg")
  BY DEF TaskOf, T, Axb, Cxd, Fpg
<1>4. \A x \in {T("axb"), T("cxd"), T("fpg")} : x[1] = "task" /\ \E a \in DOMAIN p.reads : TaskOf(a) = x
  BY <1>1, <1>3, DifferentItems
<1>5. Rec \in Item(p) /\ Origin(p, Rec) < Origin(p, Aw)
  BY ExprPlaces
<1>6. ASSUME NEW x \in Item(p)
      PROVE  \/ x[1] = "task" /\ \E a \in DOMAIN p.reads : TaskOf(a) = x
             \/ \E e \in p.events : x = <<"record", e>>
             \/ \E e \in p.events : /\ x = <<"await", e>> /\ <<"record", e>> \in Item(p)
                                    /\ Origin(p, <<"record", e>>) < Origin(p, x)
  <2>1. x \in {T("axb"), T("cxd"), T("fpg")} \/ x = Rec \/ x = Aw
    BY ExprPlaces
  <2> QED
    BY <1>1, <1>4, <1>5, <2>1 DEF Rec, Aw
<1> QED
  BY <1>1, <1>2, <1>6 DEF WaitsAnsweredIn, NeverWaits

LEMMA CopyAnswered ==
  ASSUME Blocks # 0, NEW p, p = CopyP
  PROVE  WaitsAnsweredIn(p)
<1>1. p.script = CopyScript /\ p.queues = {"q1", "q2"} /\ p.events = {"event"}
      /\ DOMAIN p.reads = CopyPart
  BY DEF CopyP, QueuePrograms, CopyReads
<1>2. \A s \in Calling(p) : \/ p.script[s][1] \in NeverWaits
                            \/ p.script[s] = <<"queue_wait", "q2">>
                            \/ s = 4 /\ p.script[s] = <<"event_wait", "event">>
  BY <1>1 DEF CopyScript, Calling, NeverWaits
<1>3. 1 \in Block
  BY QueueProgramsAssumption DEF Block
<1>4. /\ <<"memcpy", 1>> \in CopyPart /\ TaskOf(<<"memcpy", 1>>) = T("memcpy")
      /\ <<"task_compute", 1>> \in CopyPart /\ TaskOf(<<"task_compute", 1>>) = T("task_compute")
  BY <1>3 DEF CopyPart, TaskOf, T
<1>5. \A x \in {T("memcpy"), T("task_compute")} : x[1] = "task" /\ \E a \in DOMAIN p.reads : TaskOf(a) = x
  BY <1>1, <1>4, DifferentItems
<1>6. Rec \in Item(p) /\ Origin(p, Rec) = 1
  BY CopyPlaces
<1>7. ASSUME NEW x \in Item(p)
      PROVE  \/ x[1] = "task" /\ \E a \in DOMAIN p.reads : TaskOf(a) = x
             \/ \E e \in p.events : x = <<"record", e>>
  <2>1. x \in {T("memcpy"), T("task_compute")} \/ x = Rec
    BY CopyPlaces
  <2> QED
    BY <1>1, <1>5, <2>1 DEF Rec
<1>8. ASSUME NEW s \in Calling(p)
      PROVE  \/ p.script[s][1] \in NeverWaits
             \/ p.script[s][1] = "queue_wait" /\ p.script[s][2] \in p.queues
             \/ /\ p.script[s][1] = "event_wait" /\ <<"record", p.script[s][2]>> \in Item(p)
                /\ Origin(p, <<"record", p.script[s][2]>>) < s
  BY <1>1, <1>2, <1>6 DEF Rec
<1> QED
  BY <1>7, <1>8, Zenon DEF WaitsAnsweredIn, NeverWaits

LEMMA SumAnswered ==
  ASSUME GroupSize # 0, NEW p, p = SumP
  PROVE  WaitsAnsweredIn(p)
<1>1. p.script = SumScript /\ p.queues = {"q1", "q2"} /\ DOMAIN p.reads = SumPart
  BY DEF SumP, QueuePrograms, SumAccess
<1>2. \A s \in Calling(p) : \/ p.script[s][1] \in NeverWaits
                            \/ p.script[s] = <<"queue_wait", "q1">>
                            \/ p.script[s] = <<"queue_wait", "q2">>
  BY <1>1 DEF SumScript, Calling, NeverWaits
<1>3. 0 \in Slice
  BY QueueProgramsAssumption DEF Slice
<1>4. /\ <<"kernel1", 0>> \in SumPart /\ TaskOf(<<"kernel1", 0>>) = T("kernel1")
      /\ <<"kernel2", 0>> \in SumPart /\ TaskOf(<<"kernel2", 0>>) = T("kernel2")
  BY <1>3 DEF SumPart, TaskOf, T
<1>5. \A x \in Item(p) : x[1] = "task" /\ \E a \in DOMAIN p.reads : TaskOf(a) = x
  BY <1>1, <1>4, SumPlaces, DifferentItems
<1>6. ASSUME NEW s \in Calling(p)
      PROVE  \/ p.script[s][1] \in NeverWaits
             \/ p.script[s][1] = "queue_wait" /\ p.script[s][2] \in p.queues
  BY <1>1, <1>2
<1> QED
  BY <1>5, <1>6, Zenon DEF WaitsAnsweredIn, NeverWaits

LEMMA KernelAnswered ==
  ASSUME NumExecutors >= 4, NEW p, p = KernelP
  PROVE  WaitsAnsweredIn(p)
<1>1. p.queues = KernelQueue /\ DOMAIN p.reads = KernelPart
  BY DEF KernelP, QueuePrograms, NoAccess
<1>2. ASSUME NEW s \in Calling(p)
      PROVE  \/ p.script[s][1] \in NeverWaits
             \/ p.script[s][1] = "queue_wait" /\ p.script[s][2] \in p.queues
  <2>1. s \in 1 .. 16
    BY KernelCalls
  <2>2. PICK k \in 1 .. 4 : s \in {k, 4 + k, 8 + k, 12 + k}
    BY <2>1
  <2>3. /\ p.script[k][1] = "queue_submit"
        /\ p.script[4 + k] = <<"queue_wait", KernelQueues[k]>>
        /\ p.script[8 + k][1] = "destroy" /\ p.script[12 + k][1] = "destroy"
    BY KernelCalls
  <2>4. KernelQueues[k] \in p.queues
    BY <1>1 DEF KernelQueue
  <2> QED
    BY <2>2, <2>3, <2>4 DEF NeverWaits
<1>3. ASSUME NEW x \in Item(p)
      PROVE  x[1] = "task" /\ \E a \in DOMAIN p.reads : TaskOf(a) = x
  <2>1. PICK k \in 1 .. 4 : x = T(KernelQueues[k])
    BY KernelPlaces
  <2> DEFINE E == ExecutorsPerQueue
             i == E * (k - 1)
  <2>2. E \in Nat /\ E >= 1
    BY QueueProgramsAssumption DEF ExecutorsPerQueue
  <2> HIDE DEF E
  <2>3. i \in i .. i + E - 1
    <3>1. i \in Int
      BY <2>2
    <3> HIDE DEF i
    <3> QED
      BY <2>2, <3>1
  <2>4. <<KernelQueues[k], i>> \in KernelPart
    BY <2>3 DEF KernelPart, Egroup, E
  <2>5. TaskOf(<<KernelQueues[k], i>>) = x
    BY <2>1 DEF TaskOf, T
  <2> QED
    BY <1>1, <2>1, <2>4, <2>5, DifferentItems, Zenon
<1> QED
  BY <1>2, <1>3, Zenon DEF WaitsAnsweredIn, NeverWaits

(* In none of the four do main and the queues wait for one another, if     *)
(* every task has a part: an array a block, a group an executor, and       *)
(* kernel_parallelism_queue an executor for each of its queues.            *)
THEOREM ProgramsGoOn ==
  ASSUME Programs = QueuePrograms, Blocks # 0, GroupSize # 0, NumExecutors >= 4
  PROVE  Spec => []NoDeadlock
<1>1. \A n \in DOMAIN Programs : Programs[n] \in {ExprP, CopyP, SumP, KernelP}
  BY DEF QueuePrograms, ExprP, CopyP, SumP, KernelP
<1>2. WaitsAnswered
  BY <1>1, ExprAnswered, CopyAnswered, SumAnswered, KernelAnswered DEF WaitsAnswered
<1> QED
  BY <1>2, ProgramConditions, QueuesGoOn

-----------------------------------------------------------------------------
(* What memory holds when which parts have ended.                          *)
ExprComputed ==
  /\ mem["A"] = 1 /\ mem["B"] = 2 /\ mem["C"] = 3 /\ mem["D"] = 4
  /\ Axb \in ended => mem["F"] = 2
  /\ Cxd \in ended => mem["G"] = 12
  /\ Fpg \in ended => mem["E"] = 14

CopyComputed ==
  \A b \in Block :
    /\ mem[<<"src", b>>] = b
    /\ <<"memcpy", b>> \in ended => mem[<<"dst", b>>] = b
    /\ <<"task_compute", b>> \in ended => mem[<<"c", b>>] = b

(* Every slice is in its sum once when its part has ended, and not before. *)
SumComputed ==
  /\ mem["sum1"] = [k \in Slice |-> IF <<"kernel1", k>> \in ended THEN 1 ELSE 0]
  /\ mem["sum2"] = [k \in Slice |-> IF <<"kernel2", k>> \in ended THEN 1 ELSE 0]

Computed ==
  /\ program = "queue_event_dependency" => ExprComputed
  /\ program = "memcpy_async" => CopyComputed
  /\ program = "queue_submit" => SumComputed

LEMMA EndStep ==
  ASSUME Inductive, NEW q \in Queue, NEW a \in Part, End(q, a)
  PROVE  /\ a \in Running /\ a \notin ended /\ ended' = ended \cup {a}
         /\ \A c \in Cell : mem'[c] = IF c \in Writes[a]
                                     THEN Eval(a, [d \in Reads[a] |-> mem[d]])[c] ELSE mem[c]
<1>1. /\ a \in Running /\ ended' = ended \cup {a} /\ DOMAIN Current(a) = Reads[a]
      /\ mem' = Store(a)
  BY DEF End
<1>2. Current(a) = [d \in Reads[a] |-> mem[d]]
  BY <1>1, CurrentOperands DEF Inductive
<1> QED
  BY <1>1, <1>2 DEF Store, Running

(* The parts of the programs differ, so that each has one function.        *)
LEMMA EvalOf ==
  ASSUME NEW a, NEW in
  PROVE  /\ a \in ExprNode => TaskEval(a, in) = ExprEval(a, in)
         /\ a \in CopyPart => TaskEval(a, in) = CopyEval(a, in)
         /\ a \in SumPart => TaskEval(a, in) = SumEval(a, in)
<1>1. a \in ExprNode => a[1] \in {"axb", "cxd", "fpg"}
  BY DEF ExprNode, Axb, Cxd, Fpg
<1>2. a \in CopyPart => a[1] \in {"memcpy", "task_compute"}
  BY DEF CopyPart
<1>3. a \in SumPart => a[1] \in {"kernel1", "kernel2"}
  BY DEF SumPart
<1>4. a \in KernelPart => a[1] \in {"q0", "q1", "q2", "q3"}
  BY DEF KernelPart, KernelQueues
<1> QED
  BY <1>1, <1>2, <1>3, <1>4 DEF TaskEval

LEMMA ExprEnd ==
  ASSUME Programs = QueuePrograms, \A a, in : Eval(a, in) = TaskEval(a, in),
         Inductive, program = "queue_event_dependency", ExprComputed,
         NEW q \in Queue, NEW a \in Part, End(q, a)
  PROVE  ExprComputed'
<1>1. P = ExprP
  BY DEF P, ExprP, QueuePrograms
<1>2. Axb # Cxd /\ Axb # Fpg /\ Cxd # Fpg /\ Axb \in ExprNode /\ Cxd \in ExprNode /\ Fpg \in ExprNode
  BY DEF Axb, Cxd, Fpg, ExprNode
<1>3. /\ Part = ExprNode /\ Cell = ExprCell
      /\ Reads = ExprReads /\ Writes = ExprWrites
  BY <1>1 DEF P, Part, Reads, Writes, Cell, ExprP, QueuePrograms, ExprReads, ExprInitMem, ExprCell
<1>4. /\ a \in Running /\ ended' = ended \cup {a}
      /\ \A c \in Cell : mem'[c] = IF c \in Writes[a]
                                  THEN ExprEval(a, [d \in Reads[a] |-> mem[d]])[c] ELSE mem[c]
  <2>1. Eval(a, [d \in Reads[a] |-> mem[d]]) = ExprEval(a, [d \in Reads[a] |-> mem[d]])
    BY <1>3, EvalOf
  <2> QED
    BY <2>1, EndStep
<1>5. \A c \in {"A", "B", "C", "D", "E", "F", "G"} : c \in Cell
  BY <1>3 DEF ExprCell
<1>6. CASE a = Axb
  <2>1. Writes[a] = {"F"} /\ Reads[a] = {"A", "B"}
    BY <1>2, <1>3, <1>6 DEF ExprReads, ExprWrites
  <2>2. ExprEval(a, [d \in Reads[a] |-> mem[d]])["F"] = mem["A"] * mem["B"]
    BY <1>2, <1>6, <2>1 DEF ExprEval
  <2>3. mem'["F"] = 2
    BY <1>4, <1>5, <2>1, <2>2 DEF ExprComputed
  <2> QED
    BY <1>2, <1>4, <1>5, <1>6, <2>1, <2>3 DEF ExprComputed
<1>7. CASE a = Cxd
  <2>1. Writes[a] = {"G"} /\ Reads[a] = {"C", "D"}
    BY <1>2, <1>3, <1>7 DEF ExprReads, ExprWrites
  <2>2. ExprEval(a, [d \in Reads[a] |-> mem[d]])["G"] = mem["C"] * mem["D"]
    BY <1>2, <1>7, <2>1 DEF ExprEval
  <2>3. mem'["G"] = 12
    BY <1>4, <1>5, <2>1, <2>2 DEF ExprComputed
  <2> QED
    BY <1>2, <1>4, <1>5, <1>7, <2>1, <2>3 DEF ExprComputed
<1>8. CASE a = Fpg
  <2>1. Writes[a] = {"E"} /\ Reads[a] = {"F", "G"}
    BY <1>2, <1>3, <1>8 DEF ExprReads, ExprWrites
  <2>2. ExprEval(a, [d \in Reads[a] |-> mem[d]])["E"] = mem["F"] + mem["G"]
    BY <1>2, <1>8, <2>1 DEF ExprEval
  <2>3. Axb \in ended /\ Cxd \in ended
    <3>1. <<Axb, Fpg>> \in P.dep /\ <<Cxd, Fpg>> \in P.dep
      BY <1>1 DEF ExprP, QueuePrograms, ExprDep
    <3>2. Precedes(P, TaskOf(Axb), TaskOf(Fpg)) /\ Precedes(P, TaskOf(Cxd), TaskOf(Fpg))
      BY <1>1, <3>1, ExprConditions DEF DepOrderedIn
    <3>3. Axb \in Part /\ Cxd \in Part
      BY <1>2, <1>3
    <3> QED
      BY <1>4, <1>8, <3>2, <3>3, PrecededEnded, ProgramConditions DEF Inductive
  <2>4. mem'["E"] = 14
    BY <1>4, <1>5, <2>1, <2>2, <2>3 DEF ExprComputed
  <2> QED
    BY <1>2, <1>4, <1>5, <1>8, <2>1, <2>4 DEF ExprComputed
<1> QED
  BY <1>3, <1>6, <1>7, <1>8 DEF ExprNode

LEMMA CopyEnd ==
  ASSUME Programs = QueuePrograms, \A a, in : Eval(a, in) = TaskEval(a, in),
         Inductive, program = "memcpy_async", CopyComputed,
         NEW q \in Queue, NEW a \in Part, End(q, a)
  PROVE  CopyComputed'
<1>1. P = CopyP
  BY DEF P, CopyP, QueuePrograms
<1>2. /\ Part = CopyPart /\ Cell = CopyCell
      /\ Reads = CopyReads /\ Writes = CopyWrites
  BY <1>1 DEF P, Part, Reads, Writes, Cell, CopyP, QueuePrograms, CopyReads, CopyInitMem
<1>3. PICK b \in Block : a = <<"memcpy", b>> \/ a = <<"task_compute", b>>
  BY <1>2 DEF CopyPart
<1>5. /\ a \in Running /\ ended' = ended \cup {a}
      /\ \A c \in Cell : mem'[c] = IF c \in Writes[a]
                                  THEN CopyEval(a, [d \in Reads[a] |-> mem[d]])[c] ELSE mem[c]
  <2>1. Eval(a, [d \in Reads[a] |-> mem[d]]) = CopyEval(a, [d \in Reads[a] |-> mem[d]])
    BY <1>2, EvalOf
  <2> QED
    BY <2>1, EndStep
<1>6. \A d \in Block : <<"src", d>> \in Cell /\ <<"dst", d>> \in Cell /\ <<"c", d>> \in Cell
  BY <1>2 DEF CopyCell
<1>7. CASE a = <<"memcpy", b>>
  <2>1. Writes[a] = {<<"dst", b>>} /\ Reads[a] = {<<"src", b>>}
    BY <1>2, <1>7 DEF CopyReads, CopyWrites
  <2>2. CopyEval(a, [d \in Reads[a] |-> mem[d]])[<<"dst", b>>] = mem[<<"src", b>>]
    BY <1>2, <1>7, <2>1 DEF CopyEval
  <2>3. mem'[<<"dst", b>>] = b
    BY <1>5, <1>6, <2>1, <2>2 DEF CopyComputed
  <2>4. \A c \in Cell : c # <<"dst", b>> => mem'[c] = mem[c]
    BY <1>5, <2>1
  <2> QED
    BY <1>5, <1>6, <1>7, <2>3, <2>4 DEF CopyComputed
<1>8. CASE a = <<"task_compute", b>>
  <2>1. Writes[a] = {<<"c", b>>}
    BY <1>2, <1>8 DEF CopyWrites
  <2>2. CopyEval(a, [d \in Reads[a] |-> mem[d]])[<<"c", b>>] = b
    BY <1>2, <1>8, <2>1 DEF CopyEval
  <2>3. mem'[<<"c", b>>] = b
    BY <1>5, <1>6, <2>1, <2>2
  <2>4. \A c \in Cell : c # <<"c", b>> => mem'[c] = mem[c]
    BY <1>5, <2>1
  <2> QED
    BY <1>5, <1>6, <1>8, <2>3, <2>4 DEF CopyComputed
<1> QED
  BY <1>3, <1>7, <1>8

LEMMA SliceAdded ==
  ASSUME NEW kernel, NEW k \in Slice, NEW done, <<kernel, k>> \notin done,
         NEW sum, sum = [i \in Slice |-> IF <<kernel, i>> \in done THEN 1 ELSE 0]
  PROVE  [sum EXCEPT ![k] = @ + 1]
           = [i \in Slice |-> IF <<kernel, i>> \in done \cup {<<kernel, k>>} THEN 1 ELSE 0]
<1>1. sum[k] = 0 /\ DOMAIN sum = Slice
  OBVIOUS
<1> DEFINE more == [sum EXCEPT ![k] = 1]
           right == [i \in Slice |-> IF <<kernel, i>> \in done \cup {<<kernel, k>>} THEN 1 ELSE 0]
<1>2. DOMAIN more = Slice /\ DOMAIN right = Slice
  BY <1>1
<1>3. ASSUME NEW i \in Slice PROVE more[i] = right[i]
  <2>1. CASE i = k
    BY <1>1, <2>1
  <2>2. CASE i # k
    BY <1>1, <2>2
  <2> QED
    BY <2>1, <2>2
<1>4. more = [i \in Slice |-> more[i]] /\ right = [i \in Slice |-> right[i]]
  BY <1>1
<1> HIDE DEF more, right
<1>5. more = right
  BY <1>3, <1>4
<1> QED
  BY <1>1, <1>5 DEF more, right

LEMMA SumEnd ==
  ASSUME Programs = QueuePrograms, \A a, in : Eval(a, in) = TaskEval(a, in),
         Inductive, program = "queue_submit", SumComputed,
         NEW q \in Queue, NEW a \in Part, End(q, a)
  PROVE  SumComputed'
<1>1. P = SumP
  BY DEF P, SumP, QueuePrograms
<1>2. /\ Part = SumPart /\ Cell = SumCell
      /\ Reads = SumAccess /\ Writes = SumAccess
  BY <1>1 DEF P, Part, Reads, Writes, Cell, SumP, QueuePrograms, SumAccess, SumInitMem
<1>3. PICK k \in Slice : a = <<"kernel1", k>> \/ a = <<"kernel2", k>>
  BY <1>2 DEF SumPart
<1>4. a \in SumPart
  BY <1>2
<1>5. /\ a \notin ended /\ ended' = ended \cup {a}
      /\ \A c \in Cell : mem'[c] = IF c \in Writes[a]
                                  THEN SumEval(a, [d \in Reads[a] |-> mem[d]])[c] ELSE mem[c]
  <2>1. Eval(a, [d \in Reads[a] |-> mem[d]]) = SumEval(a, [d \in Reads[a] |-> mem[d]])
    BY <1>4, EvalOf
  <2> QED
    BY <2>1, EndStep
<1>6. "sum1" \in Cell /\ "sum2" \in Cell
  BY <1>2 DEF SumCell
<1>7. CASE a = <<"kernel1", k>>
  <2>1. Writes[a] = {"sum1"} /\ Reads[a] = {"sum1"} /\ a[2] = k
    BY <1>2, <1>4, <1>7 DEF SumAccess, SumOf
  <2>2. SumEval(a, [d \in Reads[a] |-> mem[d]])["sum1"] = [mem["sum1"] EXCEPT ![k] = @ + 1]
    BY <1>2, <2>1 DEF SumEval
  <2>3. mem'["sum1"] = [mem["sum1"] EXCEPT ![k] = @ + 1] /\ mem'["sum2"] = mem["sum2"]
    BY <1>5, <1>6, <2>1, <2>2
  <2>4. mem'["sum1"] = [i \in Slice |-> IF <<"kernel1", i>> \in ended' THEN 1 ELSE 0]
    BY <1>5, <1>7, <2>3, SliceAdded DEF SumComputed
  <2>5. mem'["sum2"] = [i \in Slice |-> IF <<"kernel2", i>> \in ended' THEN 1 ELSE 0]
    BY <1>5, <1>7, <2>3 DEF SumComputed
  <2> QED
    BY <2>4, <2>5 DEF SumComputed, Slice
<1>8. CASE a = <<"kernel2", k>>
  <2>1. Writes[a] = {"sum2"} /\ Reads[a] = {"sum2"} /\ a[2] = k
    BY <1>2, <1>4, <1>8 DEF SumAccess, SumOf
  <2>2. SumEval(a, [d \in Reads[a] |-> mem[d]])["sum2"] = [mem["sum2"] EXCEPT ![k] = @ + 1]
    BY <1>2, <2>1 DEF SumEval
  <2>3. mem'["sum2"] = [mem["sum2"] EXCEPT ![k] = @ + 1] /\ mem'["sum1"] = mem["sum1"]
    BY <1>5, <1>6, <2>1, <2>2
  <2>4. mem'["sum2"] = [i \in Slice |-> IF <<"kernel2", i>> \in ended' THEN 1 ELSE 0]
    BY <1>5, <1>8, <2>3, SliceAdded DEF SumComputed
  <2>5. mem'["sum1"] = [i \in Slice |-> IF <<"kernel1", i>> \in ended' THEN 1 ELSE 0]
    BY <1>5, <1>8, <2>3 DEF SumComputed
  <2> QED
    BY <2>4, <2>5 DEF SumComputed, Slice
<1> QED
  BY <1>3, <1>7, <1>8

(* When every part has ended, memory is what main is to print.             *)
LEMMA ComputedAtEnd ==
  ASSUME Programs = QueuePrograms, Computed, program \in DOMAIN Programs, ended = Part,
         NEW c \in DOMAIN Programs[program].prints
  PROVE  mem[c] = Programs[program].prints[c]
<1>1. program \in {"queue_event_dependency", "memcpy_async", "queue_submit", "kernel_parallelism_queue"}
  BY DEF QueuePrograms
<1>2. CASE program = "queue_event_dependency"
  <2>1. Part = ExprNode /\ Programs[program].prints = [E |-> 1 * 2 + 3 * 4]
    BY <1>2 DEF Part, Reads, QueuePrograms, ExprReads
  <2>2. c = "E" /\ Programs[program].prints[c] = 14 /\ Fpg \in ended
    BY <2>1 DEF ExprNode
  <2> QED
    BY <1>2, <2>2 DEF Computed, ExprComputed
<1>3. CASE program = "memcpy_async"
  <2>1. Part = CopyPart /\ Programs[program].prints = [x \in {"dst", "c"} \X Block |-> x[2]]
    BY <1>3 DEF Part, Reads, QueuePrograms, CopyReads
  <2>2. PICK b \in Block : c = <<"dst", b>> \/ c = <<"c", b>>
    BY <2>1
  <2>3. <<"memcpy", b>> \in ended /\ <<"task_compute", b>> \in ended
    BY <2>1 DEF CopyPart
  <2>4. Programs[program].prints[c] = b
    BY <2>1, <2>2
  <2> QED
    BY <1>3, <2>2, <2>3, <2>4 DEF Computed, CopyComputed
<1>4. CASE program = "queue_submit"
  <2>1. Part = SumPart /\ Programs[program].prints = [x \in SumCell |-> [k \in Slice |-> 1]]
    BY <1>4 DEF Part, Reads, QueuePrograms, SumAccess
  <2>2. \A k \in Slice : <<"kernel1", k>> \in ended /\ <<"kernel2", k>> \in ended
    BY <2>1 DEF SumPart
  <2>3. mem["sum1"] = [k \in Slice |-> 1] /\ mem["sum2"] = [k \in Slice |-> 1]
    BY <1>4, <2>2 DEF Computed, SumComputed
  <2> QED
    BY <2>1, <2>3 DEF SumCell
<1>5. CASE program = "kernel_parallelism_queue"
  <2>1. Programs[program].prints = <<>>
    BY <1>5 DEF QueuePrograms
  <2> QED
    BY <2>1
<1> QED
  BY <1>1, <1>2, <1>3, <1>4, <1>5

(* E is 14, every element is copied and computed, every slice is added to  *)
(* its sum once, however queues and executors interleave.                  *)
THEOREM ProgramsResultRight ==
  ASSUME Programs = QueuePrograms, \A a, in : Eval(a, in) = TaskEval(a, in)
  PROVE  Spec => []ResultRight
<1>1. Init => Computed /\ ResultRight
  <2> SUFFICES ASSUME Init PROVE Computed /\ ResultRight
    OBVIOUS
  <2>1. ended = {} /\ mem = Programs[program].init /\ report = NoReport
    BY DEF Init
  <2>2. program = "queue_event_dependency" => ExprComputed
    BY <2>1 DEF ExprComputed, QueuePrograms, ExprInitMem
  <2>3. program = "memcpy_async" => CopyComputed
    <3>1. CASE program = "memcpy_async"
      <4>1. mem = CopyInitMem
        BY <2>1, <3>1 DEF QueuePrograms
      <4>2. \A b \in Block : mem[<<"src", b>>] = b
        BY <4>1 DEF CopyInitMem, CopyCell
      <4> QED
        BY <2>1, <4>2 DEF CopyComputed
    <3> QED
      BY <3>1
  <2>4. program = "queue_submit" => SumComputed
    <3>1. CASE program = "queue_submit"
      <4>1. mem = SumInitMem
        BY <2>1, <3>1 DEF QueuePrograms
      <4> QED
        BY <2>1, <4>1 DEF SumInitMem, SumCell, SumComputed
    <3> QED
      BY <3>1
  <2> QED
    BY <2>1, <2>2, <2>3, <2>4 DEF Computed, ResultRight
<1>2. Inductive /\ Computed /\ ResultRight /\ [Next]_vars => Computed' /\ ResultRight'
  <2> SUFFICES ASSUME Inductive, Computed, ResultRight, [Next]_vars PROVE Computed' /\ ResultRight'
    OBVIOUS
  <2>1. program' = program /\ program \in DOMAIN Programs
    BY SameProgram DEF Inductive, TypeOK
  <2>2. Computed'
    <3>1. CASE UNCHANGED <<mem, ended>>
      <4>1. ExprComputed' = ExprComputed /\ CopyComputed' = CopyComputed /\ SumComputed' = SumComputed
        BY <3>1 DEF ExprComputed, CopyComputed, SumComputed
      <4> QED
        BY <2>1, <4>1 DEF Computed
    <3>2. CASE \E q \in Queue, a \in Part : End(q, a)
      BY <2>1, <3>2, ExprEnd, CopyEnd, SumEnd DEF Computed
    <3>3. UNCHANGED <<mem, ended>> \/ \E q \in Queue, a \in Part : End(q, a)
      <4>1. Main => UNCHANGED <<mem, ended>>
        BY DEF Main, QueueSubmit, MemcpyAsync, EventRecord, QueueWaitEvent, QueueWait,
           EventWait, PrintResult, Destroy, Executors
      <4>2. ASSUME NEW q \in Queue, Serve(q)
            PROVE  UNCHANGED <<mem, ended>> \/ \E a \in Part : End(q, a)
        BY <4>2 DEF Serve, Start, CompleteEvent, EventArrives, Executors
      <4>3. LoadOperand => UNCHANGED <<mem, ended>>
        BY DEF LoadOperand, Load
      <4> QED
        BY <4>1, <4>2, <4>3 DEF Next, vars
    <3> QED
      BY <3>1, <3>2, <3>3
  <2>3. ResultRight'
    <3>1. CASE UNCHANGED report
      BY <2>1, <3>1 DEF ResultRight, NoReport
    <3>2. CASE PrintResult
      <4>1. ended = Part
        BY <3>2, PrintedAtEnd, ProgramConditions
      <4>2. report'.memory = mem
        BY <3>2 DEF PrintResult
      <4> QED
        BY <2>1, <4>1, <4>2, ComputedAtEnd DEF ResultRight
    <3>3. UNCHANGED report \/ PrintResult
      BY DEF Next, Main, QueueSubmit, MemcpyAsync, EventRecord, QueueWaitEvent, QueueWait, EventWait,
         Destroy, LoadOperand, Load, Serve, Start, End, CompleteEvent, EventArrives, MainThread, vars
    <3> QED
      BY <3>1, <3>2, <3>3
  <2> QED
    BY <2>2, <2>3
<1>3. Spec => []Inductive
  BY Invariance, ProgramConditions
<1> QED
  BY <1>1, <1>2, <1>3, PTL DEF Spec
=============================================================================
