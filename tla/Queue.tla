------------------------------- MODULE Queue --------------------------------
(***************************************************************************)
(* One queue (queue.c) shared by tasks and interrupts: the ring buffer,    *)
(* the blocking send, receive and peek with their retry loops, and the     *)
(* lock that keeps interrupts off the event lists while a task blocks. Any *)
(* task that is not blocked may run unless another one has suspended the   *)
(* scheduler, so every assignment of priorities is covered.                *)
(***************************************************************************)
EXTENDS Integers, Sequences, FiniteSets

CONSTANTS
  Tasks,
  NoTask,
  Values,      \* messages that are told apart
  Lengths      \* uxLength of the queues considered

ASSUME QueueAssumption ==
  /\ IsFiniteSet(Tasks) /\ NoTask \notin Tasks
  /\ Values # {}
  /\ Lengths \subseteq Nat \ {0}

VARIABLES
  q,         \* the Queue_t
  sched,     \* the task that has suspended the scheduler, or NoTask
  pc,        \* where each task is in its call; "out" outside
  op,        \* the function each task is in
  ticks,     \* xTicksToWait of its call, once it has found out that it must wait
  expired,   \* the block time of the task's call has passed
  pvBuffer   \* what the last read, of whichever task or interrupt, copied out

vars == <<q, sched, pc, op, ticks, expired, pvBuffer>>

queueUNLOCKED == -1
queueLOCKED_UNMODIFIED == 0

\* xQueueGenericSend to either end, and with queueOVERWRITE, which is asserted to be
\* used on queues of length 1 only; xQueueReceive, xQueuePeek.
Sends == {"send", "overwrite"}
Reads == {"receive", "peek"}

Positions(o) == IF o = "send" THEN {"back", "front"} ELSE {"overwrite"}

-----------------------------------------------------------------------------
\* The buffer: pcReadFrom is one behind the next message to be read.
Forward(s, i) == IF i + 1 >= s.uxLength THEN 0 ELSE i + 1
Back(s, i) == IF i = 0 THEN s.uxLength - 1 ELSE i - 1

\* Seeded fault: sending to the front writes where the next read would be.
prvCopyDataToQueueFrontLate(s, v, position) ==
  IF position = "back"
  THEN [s EXCEPT !.storage[s.pcWriteTo] = v,
                 !.pcWriteTo = Forward(s, @),
                 !.uxMessagesWaiting = @ + 1]
  ELSE [s EXCEPT !.storage[Back(s, s.pcReadFrom)] = v,
                 !.pcReadFrom = Back(s, @),
                 !.uxMessagesWaiting =
                   IF position = "overwrite" /\ @ > 0 THEN @ ELSE @ + 1]

prvCopyDataToQueue(s, v, position) ==
  IF position = "back"
  THEN [s EXCEPT !.storage[s.pcWriteTo] = v,
                 !.pcWriteTo = Forward(s, @),
                 !.uxMessagesWaiting = @ + 1]
  ELSE [s EXCEPT !.storage[s.pcReadFrom] = v,
                 !.pcReadFrom = Back(s, @),
                 !.uxMessagesWaiting =
                   IF position = "overwrite" /\ @ > 0 THEN @ ELSE @ + 1]

\* prvCopyDataFromQueue: what it copies, and the queue after a receive.
NextMessage(s) == s.storage[Forward(s, s.pcReadFrom)]

Received(s) == [s EXCEPT !.pcReadFrom = Forward(s, @), !.uxMessagesWaiting = @ - 1]

HasRoom(s, o) == s.uxMessagesWaiting < s.uxLength \/ o = "overwrite"

\* xTaskRemoveFromEventList n times: which of the waiting tasks are woken depends on
\* their priorities.
Wake(waiting, n) ==
  {waiting \ woken : woken \in
     {w \in SUBSET waiting :
        Cardinality(w) = IF n < Cardinality(waiting) THEN n ELSE Cardinality(waiting)}}

\* The queues that result when up to n waiting receivers, or senders, are woken.
WakeReceivers(s, n) == {[s EXCEPT !.toReceive = w] : w \in Wake(s.toReceive, n)}
WakeSenders(s, n) == {[s EXCEPT !.toSend = w] : w \in Wake(s.toSend, n)}

\* Seeded fault: the count is not capped.
IncrementUncapped(lock) == lock + 1

\* prvIncrementQueueTxLock, prvIncrementQueueRxLock
Increment(lock) == IF lock < Cardinality(Tasks) THEN lock + 1 ELSE lock

-----------------------------------------------------------------------------
\* xQueueGenericReset of a new queue
Init ==
  /\ \E n \in Lengths, garbage \in Values :
       q = [storage |-> [i \in 0 .. n - 1 |-> garbage],
            uxLength |-> n, uxMessagesWaiting |-> 0,
            pcWriteTo |-> 0, pcReadFrom |-> n - 1,
            cRxLock |-> queueUNLOCKED, cTxLock |-> queueUNLOCKED,
            toSend |-> {}, toReceive |-> {}]
  /\ sched = NoTask
  /\ pc = [t \in Tasks |-> "out"]
  /\ op = [t \in Tasks |-> "none"]
  /\ ticks = [t \in Tasks |-> "none"]
  /\ expired = [t \in Tasks |-> FALSE]
  /\ pvBuffer \in Values

\* t can run: nobody has suspended the scheduler and t is not blocked, or t has.
Runs(t) == IF sched = NoTask THEN t \notin q.toSend \cup q.toReceive ELSE sched = t

At(t, from) == pc[t] = from /\ Runs(t)

GoTo(t, to) == pc' = [pc EXCEPT ![t] = to] /\ UNCHANGED <<op, ticks, expired>>

Return(t) ==
  /\ pc' = [pc EXCEPT ![t] = "out"]
  /\ op' = [op EXCEPT ![t] = "none"]
  /\ ticks' = [ticks EXCEPT ![t] = "none"]
  /\ expired' = [expired EXCEPT ![t] = FALSE]

\* A task calls one of the functions.
Call(t, o) ==
  /\ At(t, "out") /\ sched = NoTask
  /\ o = "overwrite" => q.uxLength = 1
  /\ op' = [op EXCEPT ![t] = o]
  /\ pc' = [pc EXCEPT ![t] = "try"]
  /\ UNCHANGED <<q, sched, ticks, expired, pvBuffer>>

\* Neither room nor message. A call without a block time, or whose block time has
\* been found to have passed, returns; the first time (xEntryTimeSet) the others
\* start their time, "some" ticks or portMAX_DELAY.
Fails(t) ==
  /\ \/ ticks[t] \in {"none", "zero"} /\ Return(t)
     \/ /\ ticks[t] = "none"
        /\ ticks' \in {[ticks EXCEPT ![t] = x] : x \in {"some", "max"}}
        /\ pc' = [pc EXCEPT ![t] = "suspend"]
        /\ UNCHANGED <<op, expired>>
     \/ ticks[t] \in {"some", "max"} /\ GoTo(t, "suspend")
  /\ UNCHANGED <<q, pvBuffer>>

\* The critical section at the head of the loop of xQueueGenericSend; the item is
\* only read here ...
TrySend(t) ==
  /\ At(t, "try") /\ op[t] \in Sends
  /\ \/ /\ HasRoom(q, op[t])
        /\ \E v \in Values, position \in Positions(op[t]) :
             q' \in WakeReceivers(prvCopyDataToQueue(q, v, position), 1)
        /\ Return(t)
        /\ UNCHANGED pvBuffer
     \/ ~HasRoom(q, op[t]) /\ Fails(t)
  /\ UNCHANGED sched

\* ... of xQueueReceive ...
TryReceive(t) ==
  /\ At(t, "try") /\ op[t] = "receive"
  /\ \/ /\ q.uxMessagesWaiting > 0
        /\ pvBuffer' = NextMessage(q)
        /\ q' \in WakeSenders(Received(q), 1)
        /\ Return(t)
     \/ q.uxMessagesWaiting = 0 /\ Fails(t)
  /\ UNCHANGED sched

\* ... and of xQueuePeek: the message stays, so another waiting task is woken.
TryPeek(t) ==
  /\ At(t, "try") /\ op[t] = "peek"
  /\ \/ /\ q.uxMessagesWaiting > 0
        /\ pvBuffer' = NextMessage(q)
        /\ q' \in WakeReceivers(q, 1)
        /\ Return(t)
     \/ q.uxMessagesWaiting = 0 /\ Fails(t)
  /\ UNCHANGED sched

\* Seeded fault: the queue is not locked.
SuspendNoLock(t) ==
  /\ At(t, "suspend")
  /\ sched' = t
  /\ GoTo(t, "check")
  /\ UNCHANGED <<q, pvBuffer>>

\* prvLockQueue keeps the count of a lock that is already held.
Locking(lock) == IF lock = queueUNLOCKED THEN queueLOCKED_UNMODIFIED ELSE lock

\* vTaskSuspendAll, prvLockQueue
SuspendAndLock(t) ==
  /\ At(t, "suspend")
  /\ sched' = t
  /\ q' = [q EXCEPT !.cRxLock = Locking(@), !.cTxLock = Locking(@)]
  /\ GoTo(t, "check")
  /\ UNCHANGED pvBuffer

\* xTaskCheckForTimeOut, which sets xTicksToWait to 0 if the time has passed, then
\* prvIsQueueFull or prvIsQueueEmpty.
CheckAndTest(t) ==
  /\ At(t, "check")
  /\ LET blocked == IF op[t] \in Reads THEN q.uxMessagesWaiting = 0
                                       ELSE q.uxMessagesWaiting = q.uxLength
     IN  pc' = [pc EXCEPT ![t] = IF ~expired[t] /\ blocked THEN "place" ELSE "unlockTx"]
  /\ ticks' = [ticks EXCEPT ![t] = IF expired[t] THEN "zero" ELSE @]
  /\ UNCHANGED <<q, sched, op, expired, pvBuffer>>

\* vTaskPlaceOnEventList
Place(t) ==
  /\ At(t, "place")
  /\ q' = IF op[t] \in Reads THEN [q EXCEPT !.toReceive = @ \cup {t}]
                                   ELSE [q EXCEPT !.toSend = @ \cup {t}]
  /\ GoTo(t, "unlockTx")
  /\ UNCHANGED <<sched, pvBuffer>>

\* The two critical sections of prvUnlockQueue.
UnlockTx(t) ==
  /\ At(t, "unlockTx")
  /\ \E s \in WakeReceivers(q, q.cTxLock) : q' = [s EXCEPT !.cTxLock = queueUNLOCKED]
  /\ GoTo(t, "unlockRx")
  /\ UNCHANGED <<sched, pvBuffer>>

UnlockRx(t) ==
  /\ At(t, "unlockRx")
  /\ \E s \in WakeSenders(q, q.cRxLock) : q' = [s EXCEPT !.cRxLock = queueUNLOCKED]
  /\ GoTo(t, "resume")
  /\ UNCHANGED <<sched, pvBuffer>>

\* xTaskResumeAll. A send whose time has passed returns errQUEUE_FULL without another
\* look; otherwise the loop starts again, once the task is woken if it was placed.
Resume(t) ==
  /\ At(t, "resume")
  /\ sched' = NoTask
  /\ \/ ~expired[t] /\ GoTo(t, "try")
     \/ expired[t] /\ op[t] \in Reads /\ GoTo(t, "recheck")
     \/ expired[t] /\ op[t] \in Sends /\ Return(t)
  /\ UNCHANGED <<q, pvBuffer>>

\* A read whose time has passed looks once more.
Recheck(t) ==
  /\ At(t, "recheck")
  /\ \/ q.uxMessagesWaiting = 0 /\ Return(t)
     \/ q.uxMessagesWaiting # 0 /\ GoTo(t, "try")
  /\ UNCHANGED <<q, sched, pvBuffer>>

Step(t) ==
  \/ TrySend(t) \/ TryReceive(t) \/ TryPeek(t)
  \/ SuspendAndLock(t) \/ CheckAndTest(t) \/ Place(t)
  \/ UnlockTx(t) \/ UnlockRx(t) \/ Resume(t) \/ Recheck(t)

-----------------------------------------------------------------------------
\* The tick at which the block time of t's call has passed: xTaskIncrementTick takes
\* t off the event list. Ticks are pended while the scheduler is suspended.
Elapse(t) ==
  /\ sched = NoTask
  /\ ticks[t] = "some" /\ ~expired[t]
  /\ expired' = [expired EXCEPT ![t] = TRUE]
  /\ q' = [q EXCEPT !.toSend = @ \ {t}, !.toReceive = @ \ {t}]
  /\ UNCHANGED <<sched, pc, op, ticks, pvBuffer>>

\* xQueueGenericSendFromISR: with the queue locked, the message is only counted.
SendFromISR(o, position, v) ==
  /\ o = "overwrite" => q.uxLength = 1
  /\ position \in Positions(o)
  /\ HasRoom(q, o)
  /\ LET s == prvCopyDataToQueue(q, v, position)
     IN  IF q.cTxLock = queueUNLOCKED
         THEN q' \in WakeReceivers(s, 1)
         ELSE q' = [s EXCEPT !.cTxLock = Increment(@)]
  /\ UNCHANGED <<sched, pc, op, ticks, expired, pvBuffer>>

\* Seeded fault: the reader's space is not counted while the queue is locked.
ReceiveFromISRNoCount ==
  /\ q.uxMessagesWaiting > 0
  /\ pvBuffer' = NextMessage(q)
  /\ IF q.cRxLock = queueUNLOCKED
     THEN q' \in WakeSenders(Received(q), 1)
     ELSE q' = Received(q)
  /\ UNCHANGED <<sched, pc, op, ticks, expired>>

\* xQueueReceiveFromISR
ReceiveFromISR ==
  /\ q.uxMessagesWaiting > 0
  /\ pvBuffer' = NextMessage(q)
  /\ IF q.cRxLock = queueUNLOCKED
     THEN q' \in WakeSenders(Received(q), 1)
     ELSE q' = [Received(q) EXCEPT !.cRxLock = Increment(@)]
  /\ UNCHANGED <<sched, pc, op, ticks, expired>>

\* xQueuePeekFromISR
PeekFromISR ==
  /\ q.uxMessagesWaiting > 0
  /\ pvBuffer' = NextMessage(q)
  /\ UNCHANGED <<q, sched, pc, op, ticks, expired>>

Next ==
  \/ \E t \in Tasks : Step(t) \/ Elapse(t) \/ \E o \in Sends \cup Reads : Call(t, o)
  \/ \E o \in Sends, v \in Values : \E position \in Positions(o) : SendFromISR(o, position, v)
  \/ ReceiveFromISR \/ PeekFromISR

Spec == Init /\ [][Next]_vars

-----------------------------------------------------------------------------
\* A queue of length n. The lock counts stop at the number of tasks.
Queue_t(n) ==
  [storage : [0 .. n - 1 -> Values], uxLength : {n}, uxMessagesWaiting : 0 .. n,
   pcWriteTo : 0 .. n - 1, pcReadFrom : 0 .. n - 1,
   cRxLock : queueUNLOCKED .. Cardinality(Tasks), cTxLock : queueUNLOCKED .. Cardinality(Tasks),
   toSend : SUBSET Tasks, toReceive : SUBSET Tasks]

\* Every variable keeps its type; the pointers stay in the buffer.
QueueTypeOK ==
  /\ \E n \in Lengths : q \in Queue_t(n)
  /\ sched \in Tasks \cup {NoTask}
  /\ pc \in [Tasks -> {"out", "try", "suspend", "check", "place",
                       "unlockTx", "unlockRx", "resume", "recheck"}]
  /\ op \in [Tasks -> Sends \cup Reads \cup {"none"}]
  /\ ticks \in [Tasks -> {"none", "some", "max", "zero"}]
  /\ expired \in [Tasks -> BOOLEAN]
  /\ pvBuffer \in Values

\* The messages in the order they will be read.
Messages ==
  [i \in 1 .. q.uxMessagesWaiting |-> q.storage[(q.pcReadFrom + i) % q.uxLength]]

\* The queue is a bounded FIFO: whatever tasks and interrupts do between the
\* critical sections, each message is added whole and handed to one reader in
\* order, through every wrap of the two pointers.
Fifo == INSTANCE BoundedQueue WITH uxLength <- q.uxLength, items <- Messages

ImplementsFifo == Fifo!Spec

\* Tasks that will look at the queue next, whatever happens.
WillTry(ops) ==
  {t \in Tasks : /\ op[t] \in ops
                 /\ t \notin q.toSend \cup q.toReceive
                 /\ pc[t] = "try" \/ (pc[t] \in {"unlockRx", "resume"} /\ ~expired[t])}

\* The wake-ups prvUnlockQueue still owes.
Owed(lock) == IF lock > 0 THEN lock ELSE 0

\* No lost wake-up: while a task waits for a message, there are no more messages
\* than tasks that will look for one and wake-ups the unlocking still owes - unless
\* it owes one to every waiting task -, although the messages come from interrupts
\* at any point of a task's way to sleep and the count of them is capped.
NoLostMessage ==
  q.toReceive # {} =>
    \/ q.uxMessagesWaiting <= Cardinality(WillTry(Reads)) + Owed(q.cTxLock)
    \/ Cardinality(q.toReceive) <= q.cTxLock

\* The same for room and the tasks that wait for it.
NoLostRoom ==
  q.toSend # {} =>
    \/ q.uxLength - q.uxMessagesWaiting <= Cardinality(WillTry(Sends)) + Owed(q.cRxLock)
    \/ Cardinality(q.toSend) <= q.cRxLock
=============================================================================
