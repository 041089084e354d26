----------------------------- MODULE Scheduler ------------------------------
(***************************************************************************)
(* The task scheduler (tasks.c over list.c) on one core with preemption    *)
(* and time slicing: delays, suspension, event lists, the tick, and what   *)
(* an interrupt may do while a task is inside the kernel. A kernel         *)
(* function is an operator on the kernel's state k; a critical section is  *)
(* one step, and between two of them the tick and other interrupts fall.   *)
(***************************************************************************)
EXTENDS Integers, Sequences, FiniteSets

CONSTANTS
  Tasks,       \* the tasks, Idle among them
  Idle,
  End,         \* the end marker of a list
  configMAX_PRIORITIES,
  Priorities,  \* the assignments of uxPriority to the tasks that are considered
  W,           \* values of TickType_t: 2^32
  Delays,      \* block times the tasks ask for; W - 1 is portMAX_DELAY
  MaxPended,   \* bound on xPendedTicks
  MaxNesting   \* bound on uxSchedulerSuspended

ASSUME SchedulerAssumption ==
  /\ IsFiniteSet(Tasks) /\ Idle \in Tasks /\ End \notin Tasks
  /\ configMAX_PRIORITIES \in Nat \ {0}
  /\ Priorities \subseteq {f \in [Tasks -> 0 .. configMAX_PRIORITIES - 1] : f[Idle] = 0}
  /\ W \in Nat /\ W > 1
  /\ Delays \subseteq 1 .. W - 1
  /\ MaxPended \in Nat /\ MaxNesting \in Nat \ {0}

VARIABLES
  k,       \* the kernel's state
  pc,      \* where each task is: in its own code ("run") or in a kernel function
  uptime   \* history: the tick interrupts taken, modulo W

vars == <<k, pc, uptime>>

Levels == 0 .. configMAX_PRIORITIES - 1

portMAX_DELAY == W - 1

\* The elements of a list.
In(s) == {s[i] : i \in DOMAIN s}

Highest(S) == CHOOSE p \in S : \A q \in S : q <= p

\* The elements of a list at the positions P, in their order.
Subsequence(s, P) ==
  [n \in 1 .. Cardinality(P) |->
     s[CHOOSE i \in P : Cardinality({j \in P : j <= i}) = n]]

Without(s, t) == Subsequence(s, {i \in DOMAIN s : s[i] # t})

\* The delayed lists and the event lists are sorted; their items carry a value.
Item(t, v) == [owner |-> t, value |-> v]

Owners(s) == {s[i].owner : i \in DOMAIN s}

Drop(s, ts) == Subsequence(s, {i \in DOMAIN s : s[i].owner \notin ts})

\* The tasks of a list that have priority p.
OfPriority(ts, prio, p) == Subsequence(ts, {i \in DOMAIN ts : prio[ts[i]] = p})

-----------------------------------------------------------------------------
\* A ready list is a ring that holds the end marker too; the sequence starts where
\* pxIndex points, so listINSERT_END, which inserts before pxIndex, appends.
Rotate(ring) == Append(Tail(ring), Head(ring))

\* Seeded faults: the end marker is taken for an item; the index does not advance.
NextEntryNoMarker(ring) == Rotate(ring)
NextEntryStays(ring) == IF Head(ring) = End THEN Rotate(ring) ELSE ring

\* listGET_OWNER_OF_NEXT_ENTRY
NextEntry(ring) ==
  LET next == Rotate(ring) IN IF Head(next) = End THEN Rotate(next) ELSE next

\* uxListRemove: pxIndex steps back when it points to the item.
RemoveFromRing(ring, t) ==
  IF Head(ring) = t
  THEN <<ring[Len(ring)]>> \o SubSeq(ring, 2, Len(ring) - 1)
  ELSE Without(ring, t)

\* vListInsert: behind the items whose value is not greater.
vListInsert(s, item) ==
  LET n == Cardinality({i \in DOMAIN s : s[i].value <= item.value})
  IN  SubSeq(s, 1, n) \o <<item>> \o SubSeq(s, n + 1, Len(s))

\* prvAddTaskToReadyList for the tasks of a list, in its order.
AddToReadyLists(s, ts) ==
  [s EXCEPT
    !.ready = [p \in Levels |-> @[p] \o OfPriority(ts, s.uxPriority, p)],
    !.top = Highest({@} \cup {s.uxPriority[t] : t \in In(ts)})]

RemoveStateItem(s, t) ==
  [s EXCEPT
    !.ready[s.uxPriority[t]] = IF t \in In(@) THEN RemoveFromRing(@, t) ELSE @,
    !.delayed = Drop(@, {t}), !.overflow = Drop(@, {t}),
    !.suspended = @ \ {t},
    !.left[t] = 0]

RemoveEventItem(s, t) ==
  [s EXCEPT !.events = Drop(@, {t}), !.pending = Without(@, t)]

prvTaskIsTaskSuspended(s, t) ==
  /\ t \in s.suspended
  /\ t \notin In(s.pending)
  /\ t \notin Owners(s.events)

prvResetNextTaskUnblockTime(s) ==
  [s EXCEPT !.xNextTaskUnblockTime =
     IF s.delayed = <<>> THEN portMAX_DELAY ELSE Head(s.delayed).value]

\* prvAddCurrentTaskToDelayedList. left is history: the ticks still to be counted
\* before the block time is over.
prvAddCurrentTaskToDelayedList(s, ticks, canBlockIndefinitely) ==
  LET t == s.pxCurrentTCB
      u == RemoveStateItem(s, t)
      timeToWake == (s.xTickCount + ticks) % W
      v == [u EXCEPT !.left[t] = ticks]
  IN  IF ticks = portMAX_DELAY /\ canBlockIndefinitely
      THEN [u EXCEPT !.suspended = @ \cup {t}]
      ELSE IF timeToWake < s.xTickCount
      THEN [v EXCEPT !.overflow = vListInsert(@, Item(t, timeToWake))]
      ELSE [v EXCEPT
             !.delayed = vListInsert(@, Item(t, timeToWake)),
             !.xNextTaskUnblockTime = IF timeToWake < @ THEN timeToWake ELSE @]

\* vTaskSwitchContext with taskSELECT_HIGHEST_PRIORITY_TASK.
vTaskSwitchContext(s) ==
  IF s.uxSchedulerSuspended # 0
  THEN [s EXCEPT !.xYieldPending = TRUE]
  ELSE LET p == CHOOSE p \in Levels :
                  /\ p <= s.top /\ Len(s.ready[p]) > 1
                  /\ \A q \in Levels : p < q /\ q <= s.top => Len(s.ready[q]) = 1
           ring == NextEntry(s.ready[p])
       IN  [s EXCEPT !.xYieldPending = FALSE, !.ready[p] = ring, !.top = p,
                     !.pxCurrentTCB = Head(ring)]

SwitchIf(s, b) == IF b THEN vTaskSwitchContext(s) ELSE s

-----------------------------------------------------------------------------
\* Seeded fault: xNextTaskUnblockTime is kept when the lists change places.
AdvanceTickNoReset(s) ==
  LET tick == (s.xTickCount + 1) % W
      aged == [s EXCEPT !.xTickCount = tick,
                        !.left = [t \in Tasks |-> IF @[t] > 0 THEN @[t] - 1 ELSE 0]]
  IN  IF tick # 0 THEN aged
      ELSE [aged EXCEPT !.delayed = s.overflow, !.overflow = s.delayed]

\* The part of xTaskIncrementTick that moves the clock and the delayed lists.
AdvanceTick(s) ==
  LET tick == (s.xTickCount + 1) % W
      aged == [s EXCEPT !.xTickCount = tick,
                        !.left = [t \in Tasks |-> IF @[t] > 0 THEN @[t] - 1 ELSE 0]]
  IN  IF tick # 0 THEN aged
      ELSE prvResetNextTaskUnblockTime(
             [aged EXCEPT !.delayed = s.overflow, !.overflow = s.delayed])

\* How many tasks at the head of the delayed list have their time.
Expired(s) ==
  IF s.xTickCount < s.xNextTaskUnblockTime THEN 0
  ELSE CHOOSE n \in 0 .. Len(s.delayed) :
         /\ \A i \in 1 .. n : s.delayed[i].value <= s.xTickCount
         /\ n < Len(s.delayed) => s.delayed[n + 1].value > s.xTickCount

\* The loop over the delayed list; a task woken by time leaves its event list.
Unblock(s) ==
  LET n == Expired(s)
      woken == [i \in 1 .. n |-> s.delayed[i].owner]
      rest == [s EXCEPT !.delayed = SubSeq(@, n + 1, Len(@)),
                        !.events = Drop(@, In(woken))]
  IN  IF s.xTickCount < s.xNextTaskUnblockTime THEN s
      ELSE AddToReadyLists(prvResetNextTaskUnblockTime(rest), woken)

\* xTaskIncrementTick: the new state, and whether a switch is required.
xTaskIncrementTick(s) ==
  LET clock == AdvanceTick(s)
      u == Unblock(clock)
      mine == s.uxPriority[s.pxCurrentTCB]
  IN  IF s.uxSchedulerSuspended # 0
      THEN [state |-> [s EXCEPT !.xPendedTicks = @ + 1], switch |-> FALSE]
      ELSE [state |-> u,
            switch |-> \/ \E i \in 1 .. Expired(clock) : s.uxPriority[clock.delayed[i].owner] > mine
                       \/ Len(u.ready[mine]) > 2
                       \/ s.xYieldPending]

\* Seeded fault: several pended ticks are counted as one.
ReplayOnce(s) ==
  IF s.xPendedTicks = 0 THEN s
  ELSE LET i == xTaskIncrementTick(s)
       IN  [i.state EXCEPT !.xPendedTicks = 0, !.xYieldPending = @ \/ i.switch]

\* A pended tick, counted late.
LateTick(s) ==
  LET i == xTaskIncrementTick(s) IN [i.state EXCEPT !.xYieldPending = @ \/ i.switch]

\* The replay of the ticks that were pended.
Replay(s) ==
  LET r[n \in 0 .. s.xPendedTicks] == IF n = 0 THEN s ELSE LateTick(r[n - 1])
  IN  [r[s.xPendedTicks] EXCEPT !.xPendedTicks = 0]

\* Seeded faults: the state items stay where they were; the list is not looked at.
DrainPendingKeepsState(s) ==
  IF s.pending = <<>> THEN s
  ELSE AddToReadyLists([s EXCEPT !.pending = <<>>], s.pending)
DrainPendingNever(s) == s

\* Tasks that interrupts readied go to the ready lists.
DrainPending(s) ==
  LET ts == s.pending
      moved == [s EXCEPT
        !.pending = <<>>,
        !.delayed = Drop(@, In(ts)), !.overflow = Drop(@, In(ts)),
        !.suspended = @ \ In(ts),
        !.left = [t \in Tasks |-> IF t \in In(ts) THEN 0 ELSE @[t]],
        !.xYieldPending =
          @ \/ \E t \in In(ts) : s.uxPriority[t] > s.uxPriority[s.pxCurrentTCB]]
  IN  IF ts = <<>> THEN s
      ELSE prvResetNextTaskUnblockTime(AddToReadyLists(moved, ts))

\* xTaskResumeAll up to its yield; the caller yields if xYieldPending is set.
ResumedAll(s) ==
  LET u == [s EXCEPT !.uxSchedulerSuspended = @ - 1]
  IN  IF u.uxSchedulerSuspended # 0 THEN u ELSE Replay(DrainPending(u))

\* xTaskRemoveFromEventList
xTaskRemoveFromEventList(s) ==
  LET t == Head(s.events).owner
      u == [s EXCEPT !.events = Tail(@)]
      v == IF s.uxSchedulerSuspended = 0
           THEN AddToReadyLists(RemoveStateItem(u, t), <<t>>)
           ELSE [u EXCEPT !.pending = Append(@, t)]
  IN  [v EXCEPT !.xYieldPending = @ \/ s.uxPriority[t] > s.uxPriority[s.pxCurrentTCB]]

-----------------------------------------------------------------------------
\* The tasks have been created in some order; the last one of the highest priority
\* is entered first, and every pxIndex is still at the end marker.
Init ==
  \E created \in [1 .. Cardinality(Tasks) -> Tasks], prio \in Priorities :
    LET highest == Highest({prio[t] : t \in Tasks})
        ready == [p \in Levels |-> <<End>> \o OfPriority(created, prio, p)]
        first == ready[highest]
    IN  /\ In(created) = Tasks
        /\ k = [uxPriority |-> prio, ready |-> ready, top |-> highest,
                delayed |-> <<>>, overflow |-> <<>>, suspended |-> {},
                events |-> <<>>, pending |-> <<>>,
                left |-> [t \in Tasks |-> 0],
                xTickCount |-> 0, xNextTaskUnblockTime |-> portMAX_DELAY,
                xPendedTicks |-> 0, uxSchedulerSuspended |-> 0,
                xYieldPending |-> FALSE, pxCurrentTCB |-> first[Len(first)]]
        /\ pc = [t \in Tasks |-> "run"]
        /\ uptime = 0

Points == {"run", "block", "blocked", "yield", "reset", "resetSelf"}

\* The running task is at control point from and goes on to to.
Goes(from, to) ==
  /\ pc[k.pxCurrentTCB] = from
  /\ pc' = [pc EXCEPT ![k.pxCurrentTCB] = to]
  /\ UNCHANGED uptime

Running == k.uxSchedulerSuspended = 0

\* A section of a task with the scheduler suspended.
vTaskSuspendAll ==
  /\ Goes("run", "run")
  /\ k.uxSchedulerSuspended < MaxNesting
  /\ k' = [k EXCEPT !.uxSchedulerSuspended = @ + 1]

\* Seeded fault: the yield that became due in the section is forgotten.
xTaskResumeAllNoYield ==
  /\ Goes("run", "run")
  /\ ~Running
  /\ k' = [ResumedAll(k) EXCEPT !.xYieldPending = FALSE]

xTaskResumeAll ==
  /\ Goes("run", "run")
  /\ ~Running
  /\ LET s == ResumedAll(k)
     IN  k' = SwitchIf(s, s.uxSchedulerSuspended = 0 /\ s.xYieldPending)

\* vTaskDelay, and the blocking path of the queue functions: suspend the scheduler.
BeginBlock ==
  /\ Goes("run", "block")
  /\ Running /\ k.pxCurrentTCB # Idle
  /\ k' = [k EXCEPT !.uxSchedulerSuspended = 1]

vTaskDelay(ticks) ==
  /\ Goes("block", "blocked")
  /\ k' = prvAddCurrentTaskToDelayedList(k, ticks, FALSE)

vTaskPlaceOnEventList(ticks) ==
  /\ Goes("block", "blocked")
  /\ LET t == k.pxCurrentTCB
     IN  k' = prvAddCurrentTaskToDelayedList(
                [k EXCEPT !.events = vListInsert(@, Item(t, -k.uxPriority[t]))], ticks, TRUE)

\* ... then resume it, and yield unless xTaskResumeAll has.
EndBlock ==
  LET s == ResumedAll(k)
  IN  /\ Goes("blocked", IF s.xYieldPending THEN "run" ELSE "yield")
      /\ k' = SwitchIf(s, s.xYieldPending)

portYIELD ==
  /\ \/ Goes("yield", "run")
     \/ Running /\ Goes("run", "run")
  /\ k' = vTaskSwitchContext(k)

\* vTaskSuspend: the first critical section; the second only corrects
\* xNextTaskUnblockTime, and a task that suspended itself then yields, which is
\* asserted not to happen with the scheduler suspended.
vTaskSuspend(t) ==
  /\ Goes("run", IF t = k.pxCurrentTCB THEN "resetSelf" ELSE "reset")
  /\ t # Idle
  /\ t = k.pxCurrentTCB => Running
  /\ k' = [RemoveEventItem(RemoveStateItem(k, t), t) EXCEPT !.suspended = @ \cup {t}]

SuspendReset ==
  /\ Goes("reset", "run") \/ Goes("resetSelf", "yield")
  /\ k' = prvResetNextTaskUnblockTime(k)

vTaskResume(t) ==
  /\ Goes("run", "run")
  /\ t # k.pxCurrentTCB
  /\ prvTaskIsTaskSuspended(k, t)
  /\ k' = SwitchIf(AddToReadyLists(RemoveStateItem(k, t), <<t>>),
                   k.uxPriority[k.pxCurrentTCB] < k.uxPriority[t])

\* A queue function makes the event happen in a critical section and yields if a
\* task of a higher priority was woken.
Signal ==
  /\ Goes("run", "run")
  /\ k.events # <<>>
  /\ k' = SwitchIf(xTaskRemoveFromEventList(k),
                   k.uxPriority[Head(k.events).owner] > k.uxPriority[k.pxCurrentTCB])

-----------------------------------------------------------------------------
\* The tick interrupt: the port switches if xTaskIncrementTick says so.
TickInterrupt ==
  /\ k.xPendedTicks < MaxPended
  /\ LET i == xTaskIncrementTick(k) IN k' = SwitchIf(i.state, i.switch)
  /\ uptime' = (uptime + 1) % W
  /\ UNCHANGED pc

\* An interrupt makes the event happen; it may or may not ask for the switch with
\* portYIELD_FROM_ISR.
SignalFromISR ==
  /\ k.events # <<>>
  /\ LET s == xTaskRemoveFromEventList(k)
     IN  \/ k' = s
         \/ /\ k.uxPriority[Head(k.events).owner] > k.uxPriority[k.pxCurrentTCB]
            /\ k' = vTaskSwitchContext(s)
  /\ UNCHANGED <<pc, uptime>>

xTaskResumeFromISR(t) ==
  /\ prvTaskIsTaskSuspended(k, t)
  /\ IF Running
     THEN LET higher == k.uxPriority[t] > k.uxPriority[k.pxCurrentTCB]
              s == [AddToReadyLists(RemoveStateItem(k, t), <<t>>) EXCEPT
                     !.xYieldPending = @ \/ higher]
          IN  k' = s \/ (higher /\ k' = vTaskSwitchContext(s))
     ELSE k' = [k EXCEPT !.pending = Append(@, t)]
  /\ UNCHANGED <<pc, uptime>>

Next ==
  \/ vTaskSuspendAll \/ xTaskResumeAll
  \/ BeginBlock
  \/ \E ticks \in Delays : vTaskDelay(ticks) \/ vTaskPlaceOnEventList(ticks)
  \/ EndBlock \/ portYIELD
  \/ \E t \in Tasks : vTaskSuspend(t) \/ vTaskResume(t)
  \/ SuspendReset
  \/ Signal
  \/ TickInterrupt
  \/ SignalFromISR
  \/ \E t \in Tasks : xTaskResumeFromISR(t)

\* The steps that must go on: only TickInterrupt changes uptime, and only the
\* running task leaves a point inside a kernel function.
Ticks ==
  /\ k.xPendedTicks < MaxPended
  /\ uptime' = (uptime + 1) % W

LeavesPoint ==
  /\ pc[k.pxCurrentTCB] # "run"
  /\ \E to \in Points : pc' = [pc EXCEPT ![k.pxCurrentTCB] = to]

\* The tick interrupt keeps coming, the running task does not stop inside a kernel
\* function, and it resumes the scheduler it suspended, however its sections nest.
Fairness ==
  /\ WF_uptime(Ticks)
  /\ WF_pc(LeavesPoint)
  /\ []<>Running

Spec == Init /\ [][Next]_vars /\ Fairness

-----------------------------------------------------------------------------
ReadyTasks == (UNION {In(k.ready[p]) : p \in Levels}) \ {End}

Asleep == Owners(k.delayed) \cup Owners(k.overflow)

\* Every variable keeps its type; every ready list holds its end marker.
TypeOK ==
  /\ k.uxPriority \in Priorities
  /\ k.ready \in [Levels -> Seq(Tasks \cup {End})]
  /\ \A p \in Levels : End \in In(k.ready[p])
  /\ k.top \in Levels
  /\ k.delayed \in Seq([owner : Tasks, value : 0 .. W - 1])
  /\ k.overflow \in Seq([owner : Tasks, value : 0 .. W - 1])
  /\ k.events \in Seq([owner : Tasks, value : Int]) /\ k.pending \in Seq(Tasks)
  /\ k.suspended \subseteq Tasks
  /\ k.left \in [Tasks -> 0 .. W - 1]
  /\ k.xTickCount \in 0 .. W - 1 /\ k.xNextTaskUnblockTime \in 0 .. W - 1
  /\ k.xPendedTicks \in 0 .. MaxPended
  /\ k.uxSchedulerSuspended \in 0 .. MaxNesting
  /\ k.xYieldPending \in BOOLEAN /\ k.pxCurrentTCB \in Tasks
  /\ pc \in [Tasks -> Points]
  /\ uptime \in 0 .. W - 1

\* A task is in a delayed list exactly as long as ticks of its block time are left:
\* it neither oversleeps nor wakes early, whatever the wrap of xTickCount, the two
\* lists, a stale xNextTaskUnblockTime, pended ticks and wake-ups by others do.
SleepsExactly ==
  \A t \in Tasks : t \in Asleep <=> k.left[t] > 0

\* Each task's state item is in exactly one list, and a task whose event item an
\* interrupt moved to xPendingReadyList is blocked and will be moved.
OneList ==
  \A t \in Tasks :
    /\ LET lists == <<ReadyTasks, Owners(k.delayed), Owners(k.overflow), k.suspended>>
       IN  \E i \in 1 .. 4 : \A j \in 1 .. 4 : t \in lists[j] <=> j = i
    /\ t \in In(k.pending) => t \notin ReadyTasks /\ ~Running

\* In its own code, with the scheduler running, the current task is ready and no
\* ready task has a higher priority, unless a yield is already pending.
HighestRuns ==
  Running /\ pc[k.pxCurrentTCB] = "run" /\ ~k.xYieldPending =>
    /\ k.pxCurrentTCB \in ReadyTasks
    /\ \A t \in ReadyTasks : k.uxPriority[t] <= k.uxPriority[k.pxCurrentTCB]

\* No tick interrupt is lost: those not in xTickCount yet are in xPendedTicks.
NoTickLost == (k.xTickCount + k.xPendedTicks) % W = uptime

\* A task that sleeps, or that an interrupt readied while the scheduler was
\* suspended, becomes ready (or is suspended by another task).
EventuallyAwake ==
  \A t \in Tasks \ {Idle} :
    t \in Asleep \cup In(k.pending) ~> t \notin Asleep \cup In(k.pending)

\* Round robin: a ready task runs unless it stops being ready or a task of a
\* higher priority is ready.
GetsItsTurn ==
  \A t \in Tasks \ {Idle} :
    t \in ReadyTasks ~>
      \/ k.pxCurrentTCB = t
      \/ t \notin ReadyTasks
      \/ \E h \in ReadyTasks : k.uxPriority[h] > k.uxPriority[t]
=============================================================================
