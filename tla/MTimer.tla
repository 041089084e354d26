------------------------------- MODULE MTimer -------------------------------
(***************************************************************************)
(* The tick source of the RV32 port: the core-local timer (mtime, the      *)
(* compare register and the pending bit it drives) and the code that reads *)
(* and writes its 64-bit registers one word at a time, while mtime runs.   *)
(***************************************************************************)
EXTENDS Integers

CONSTANTS
  W,           \* values of a word: 2^32
  Increment,   \* uxTimerIncrementsForOneTick
  Steps,       \* by how much mtime may advance at once
  MaxTime      \* bound on mtime

\* The port assumes that one tick's increment fits in a word; the last times the
\* model reaches do not wrap 64 bits.
ASSUME MTimerAssumption ==
  /\ W \in Nat /\ Increment \in Nat /\ 0 < Increment /\ Increment < W
  /\ Steps \subseteq Nat \ {0}
  /\ MaxTime \in Nat /\ MaxTime + 2 * Increment < W * W

VARIABLES
  mtime,         \* the running counter
  mtimecmp,      \* the compare register, [lo, hi]
  mtip,          \* the timer's pending bit
  ullNextTime,   \* [lo, hi]
  pc,            \* where the set-up or the tick handler is; "task" outside both
  time,          \* [lo, hi]: ulCurrentTimeLow, ulCurrentTimeHigh
  readAt,        \* history: mtime when the low word was read
  ticks          \* calls of xTaskIncrementTick

vars == <<mtime, mtimecmp, mtip, ullNextTime, pc, time, readAt, ticks>>

Value(words) == words.hi * W + words.lo

Words(v) == [lo |-> v % W, hi |-> (v \div W) % W]

Pending(now, cmp) == now >= Value(cmp)

-----------------------------------------------------------------------------
\* The compare register is 0 at reset, so the bit is pending before set-up.
Init ==
  /\ mtime \in 0 .. MaxTime
  /\ mtimecmp = Words(0)
  /\ mtip = TRUE
  /\ ullNextTime = Words(0)
  /\ pc = "readHigh"
  /\ time = Words(0)
  /\ readAt = 0
  /\ ticks = 0

\* clint_t::tick, at any moment.
Tick(d) ==
  /\ mtime + d <= MaxTime
  /\ mtime' = mtime + d
  /\ mtip' = Pending(mtime', mtimecmp)
  /\ UNCHANGED <<mtimecmp, ullNextTime, pc, time, readAt, ticks>>

\* A word of the compare register is written: the bit follows at once.
StoreCompare(cmp) ==
  /\ mtimecmp' = cmp
  /\ mtip' = Pending(mtime, cmp)
  /\ UNCHANGED <<mtime, time, readAt, ticks>>

\* vPortSetupTimerInterrupt: high word, low word, high word again.
ReadHigh ==
  /\ pc = "readHigh"
  /\ time' = [time EXCEPT !.hi = Words(mtime).hi]
  /\ pc' = "readLow"
  /\ UNCHANGED <<mtime, mtimecmp, mtip, ullNextTime, readAt, ticks>>

ReadLow ==
  /\ pc = "readLow"
  /\ time' = [time EXCEPT !.lo = Words(mtime).lo]
  /\ readAt' = mtime
  /\ pc' = "checkHigh"
  /\ UNCHANGED <<mtime, mtimecmp, mtip, ullNextTime, ticks>>

\* Seeded fault: the high word is not read again.
CheckHighNever ==
  /\ pc = "checkHigh"
  /\ pc' = "firstWord"
  /\ ullNextTime' = Words(Value(time) + Increment)
  /\ UNCHANGED <<mtime, mtimecmp, mtip, time, readAt, ticks>>

CheckHigh ==
  /\ pc = "checkHigh"
  /\ \/ /\ Words(mtime).hi # time.hi
        /\ pc' = "readHigh"
        /\ UNCHANGED ullNextTime
     \/ /\ Words(mtime).hi = time.hi
        /\ pc' = "firstWord"
        /\ ullNextTime' = Words(Value(time) + Increment)
  /\ UNCHANGED <<mtime, mtimecmp, mtip, time, readAt, ticks>>

\* The 64-bit store of the first compare value is two word stores in an order the
\* compiler chooses; interrupts are off.
StoreFirstWord ==
  /\ pc = "firstWord"
  /\ \/ StoreCompare([mtimecmp EXCEPT !.lo = ullNextTime.lo])
     \/ StoreCompare([mtimecmp EXCEPT !.hi = ullNextTime.hi])
  /\ pc' = "secondWord"
  /\ UNCHANGED ullNextTime

StoreSecondWord ==
  /\ pc = "secondWord"
  /\ StoreCompare(ullNextTime)
  /\ ullNextTime' = Words(Value(ullNextTime) + Increment)
  /\ pc' = "task"

-----------------------------------------------------------------------------
\* The interrupt is taken, as late as critical sections make it.
TimerInterrupt ==
  /\ pc = "task" /\ mtip
  /\ pc' = "guardLow"
  /\ UNCHANGED <<mtime, mtimecmp, mtip, ullNextTime, time, readAt, ticks>>

\* Seeded fault: the new low word is stored in place of -1.
GuardLowNew ==
  /\ pc = "guardLow"
  /\ StoreCompare([mtimecmp EXCEPT !.lo = ullNextTime.lo])
  /\ pc' = "storeHigh"
  /\ UNCHANGED ullNextTime

\* portUPDATE_MTIMER_COMPARE_REGISTER: -1 to the low word, then the high word,
\* then the low word.
GuardLow ==
  /\ pc = "guardLow"
  /\ StoreCompare([mtimecmp EXCEPT !.lo = W - 1])
  /\ pc' = "storeHigh"
  /\ UNCHANGED ullNextTime

StoreHigh ==
  /\ pc = "storeHigh"
  /\ StoreCompare([mtimecmp EXCEPT !.hi = ullNextTime.hi])
  /\ pc' = "storeLow"
  /\ UNCHANGED ullNextTime

StoreLow ==
  /\ pc = "storeLow"
  /\ StoreCompare([mtimecmp EXCEPT !.lo = ullNextTime.lo])
  /\ pc' = "advance"
  /\ UNCHANGED ullNextTime

\* Seeded fault: the sum of the low words is not cut to a word.
SumWide(words) == [lo |-> words.lo + Increment, hi |-> words.hi]

\* Seeded fault: the carry is lost when the sum of the low words wraps.
SumNoCarry(words) == [lo |-> (words.lo + Increment) % W, hi |-> words.hi]

\* add, sltu, add: the carry into the high word is found by comparing.
Sum(words) ==
  LET lo == (words.lo + Increment) % W
  IN  [lo |-> lo, hi |-> (words.hi + (IF lo < words.lo THEN 1 ELSE 0)) % W]

\* Seeded fault: the next compare value is taken from the present time.
AdvanceFromNow ==
  /\ pc = "advance"
  /\ ullNextTime' = Words(mtime + 2 * Increment)
  /\ ticks' = ticks + 1
  /\ pc' = "task"
  /\ UNCHANGED <<mtime, mtimecmp, mtip, time, readAt>>

\* The rest of the update, xTaskIncrementTick, and the return to a task.
Advance ==
  /\ pc = "advance"
  /\ ullNextTime' = Sum(ullNextTime)
  /\ ticks' = ticks + 1
  /\ pc' = "task"
  /\ UNCHANGED <<mtime, mtimecmp, mtip, time, readAt>>

Handler == GuardLow \/ StoreHigh \/ StoreLow \/ Advance

Next ==
  \/ \E d \in Steps : Tick(d)
  \/ ReadHigh \/ ReadLow \/ CheckHigh \/ StoreFirstWord \/ StoreSecondWord
  \/ TimerInterrupt
  \/ Handler

\* The bit stays pending until the compare register is written and every critical
\* section ends, so a pending interrupt is taken; the handler does not stop.
Fairness == WF_vars(TimerInterrupt) /\ WF_vars(Handler)

Spec == Init /\ [][Next]_vars /\ Fairness

-----------------------------------------------------------------------------
Setup == {"readHigh", "readLow", "checkHigh", "firstWord", "secondWord"}
Updating == {"guardLow", "storeHigh", "storeLow", "advance"}

Pairs == [lo : 0 .. W - 1, hi : 0 .. W - 1]

\* Every variable keeps its type: both halves of every pair are words.
TypeOK ==
  /\ mtime \in Nat /\ readAt \in Nat /\ ticks \in Nat
  /\ mtimecmp \in Pairs /\ ullNextTime \in Pairs /\ time \in Pairs
  /\ mtip \in BOOLEAN
  /\ pc \in Setup \cup Updating \cup {"task"}

\* The time vPortSetupTimerInterrupt works with is one mtime really had, although
\* it is read in two words between which the low word may wrap.
ReadNotTorn ==
  pc \notin {"readHigh", "readLow", "checkHigh"} => Value(time) = readAt

\* Neither early nor lost: the n-th tick is handled no sooner than n periods after
\* the time read at set-up, and when the handler is out, the compare register
\* holds the end of the next period and ullNextTime the one after it - carries
\* into the high word and interrupts taken many periods late included.
TicksOnTime ==
  pc \notin Setup =>
    /\ readAt + ticks * Increment <= mtime
    /\ pc = "task" => /\ Value(mtimecmp) = readAt + (ticks + 1) * Increment
                      /\ Value(ullNextTime) = readAt + (ticks + 2) * Increment

\* While the handler writes the compare register word by word, the register never
\* holds a time before the one that has just passed: no bit for a tick that is
\* not due appears in between, as the comments on the three stores claim.
CompareNeverBelow ==
  pc \in Updating => Value(mtimecmp) >= readAt + (ticks + 1) * Increment

\* Every period that ends gets its own tick, however late the interrupts are:
\* periods that passed in a critical section are made up one by one.
CatchesUp ==
  \A n \in 1 .. MaxTime \div Increment :
    (pc \notin Setup /\ mtime >= readAt + n * Increment) ~> (ticks >= n)
=============================================================================
