---------------------------- MODULE MTimerProof -----------------------------
(***************************************************************************)
(* The safety properties of MTimer for every width of a word, every tick   *)
(* period that fits in one and every pace of mtime. Arithmetic on words is *)
(* settled in lemmas; the invariant then speaks of values and due times    *)
(* only.                                                                   *)
(***************************************************************************)
EXTENDS MTimer, TLAPS

\* When the n-th period after the time r read at set-up ends.
Due(r, n) == r + n * Increment

\* Facts of multiplication the word lemmas need.
LEMMA Factor ==
  ASSUME NEW w \in Nat, NEW a \in Nat, NEW b \in Nat, a * w < b * w
  PROVE  a < b
<1>1. SUFFICES ASSUME b <= a PROVE FALSE
  BY SMT
<1>2. PICK d \in Nat : a = b + d
  <2>1. a - b \in Nat BY <1>1, SMT
  <2>2. a = b + (a - b) BY SMT
  <2> QED BY <2>1, <2>2
<1>3. a * w = b * w + d * w
  BY <1>2, SMT
<1>4. d * w \in Nat /\ b * w \in Nat
  BY <1>2, SMT
<1> QED BY <1>3, <1>4, SMT

LEMMA SmallMod ==
  ASSUME NEW w \in Nat, NEW a \in Nat, a < w
  PROVE  a % w = a
BY SMT

LEMMA WrapMod ==
  ASSUME NEW w \in Nat, NEW b \in Nat, b < w
  PROVE  (b + w) % w = b
BY SMT

\* A value below 2^64 is split into words without loss.
LEMMA WordsValue ==
  ASSUME NEW v \in Nat, v < W * W
  PROVE  /\ Words(v) \in Pairs
         /\ Value(Words(v)) = v
         /\ Words(v).hi = v \div W
         /\ Words(v).lo = v % W
<1> DEFINE h == v \div W
           l == v % W
<1>0. W \in Nat /\ 0 < W
  BY MTimerAssumption, SMT
<1>1. h \in Nat /\ l \in 0 .. W - 1 /\ v = h * W + l
  BY <1>0, Z3
<1> HIDE DEF h, l
<1>2. h * W < W * W
  <2>1. h * W \in Nat BY <1>0, <1>1, SMT
  <2> QED BY <1>0, <1>1, <2>1, SMT
<1>3. h < W
  BY <1>0, <1>1, <1>2, Factor
<1>4. h % W = h
  BY <1>0, <1>1, <1>3, SmallMod
<1>5. Words(v) = [lo |-> l, hi |-> h]
  BY <1>4 DEF Words, h, l
<1> QED
  BY <1>0, <1>1, <1>3, <1>5, SMT DEF Value, Pairs, h, l

LEMMA ValueNat ==
  ASSUME NEW p \in Pairs
  PROVE  /\ Value(p) \in Nat
         /\ p.hi * W \in Nat
         /\ p.lo \in Nat /\ p.hi \in Nat /\ p.lo < W /\ p.hi < W
<1>0. W \in Nat /\ 0 < W
  BY MTimerAssumption, SMT
<1>1. p.lo \in Nat /\ p.hi \in Nat /\ p.lo < W /\ p.hi < W
  BY <1>0, SMT DEF Pairs
<1>2. p.hi * W \in Nat
  BY <1>0, <1>1, SMT
<1> QED BY <1>1, <1>2, SMT DEF Value

\* The carry of portUPDATE_MTIMER_COMPARE_REGISTER, found by comparing the new low
\* word with the old one, is the carry of the 64-bit addition.
LEMMA SumValue ==
  ASSUME NEW p \in Pairs, Value(p) + Increment < W * W
  PROVE  Sum(p) \in Pairs /\ Value(Sum(p)) = Value(p) + Increment
<1>0. /\ W \in Nat /\ 0 < W
      /\ Increment \in Nat /\ 0 < Increment /\ Increment < W
  BY MTimerAssumption, SMT
<1>1. /\ p.lo \in Nat /\ p.hi \in Nat /\ p.lo < W /\ p.hi < W
      /\ p.hi * W \in Nat /\ Value(p) \in Nat
  BY ValueNat
<1>2. CASE p.lo + Increment < W
  <2>1. (p.lo + Increment) % W = p.lo + Increment
    <3>1. p.lo + Increment \in Nat BY <1>0, <1>1, SMT
    <3> QED BY <1>0, <1>2, <3>1, SmallMod
  <2>2. (p.hi + 0) % W = p.hi
    BY <1>0, <1>1, SmallMod, SMT
  <2>3. Sum(p) = [lo |-> p.lo + Increment, hi |-> p.hi]
    BY <1>0, <1>1, <2>1, <2>2, SMT DEF Sum
  <2> QED
    BY <1>0, <1>1, <1>2, <2>3, SMT DEF Value, Pairs
<1>3. CASE ~(p.lo + Increment < W)
  <2>1. (p.lo + Increment) % W = p.lo + Increment - W
    <3> DEFINE b == p.lo + Increment - W
    <3>1. b \in Nat /\ b < W /\ p.lo + Increment = b + W
      BY <1>0, <1>1, <1>3, SMT
    <3> HIDE DEF b
    <3>2. (b + W) % W = b
      BY <1>0, <3>1, WrapMod
    <3>3. (p.lo + Increment) % W = b
      BY <3>1, <3>2
    <3> QED BY <3>3 DEF b
  <2>2. p.lo + Increment - W < p.lo
    BY <1>0, <1>1, SMT
  <2>3. (p.hi + 1) * W = p.hi * W + W
    BY <1>0, <1>1, SMT
  <2>4. (p.hi + 1) * W < W * W
    BY <1>0, <1>1, <1>3, <2>3, SMT DEF Value
  <2>5. p.hi + 1 < W
    BY <1>0, <1>1, <2>4, Factor
  <2>6. (p.hi + 1) % W = p.hi + 1
    <3>1. p.hi + 1 \in Nat BY <1>1, SMT
    <3> QED BY <1>0, <2>5, <3>1, SmallMod
  <2>7. Sum(p) = [lo |-> p.lo + Increment - W, hi |-> p.hi + 1]
    BY <1>0, <1>1, <2>1, <2>2, <2>6, SMT DEF Sum
  <2> QED
    BY <1>0, <1>1, <1>3, <2>2, <2>3, <2>5, <2>7, SMT DEF Value, Pairs
<1> QED BY <1>2, <1>3

LEMMA DueNext ==
  ASSUME NEW r \in Nat, NEW n \in Nat
  PROVE  /\ Due(r, n) \in Nat
         /\ Due(r, n + 1) = Due(r, n) + Increment
         /\ Due(r, n + 2) = Due(r, n) + 2 * Increment
<1>1. Increment \in Nat
  BY MTimerAssumption
<1>2. n * Increment \in Nat
  BY <1>1, SMT
<1>3. (n + 1) * Increment = n * Increment + Increment
  BY <1>1, SMT
<1>4. (n + 2) * Increment = n * Increment + 2 * Increment
  BY <1>1, SMT
<1> QED BY <1>1, <1>2, <1>3, <1>4, SMT DEF Due

-----------------------------------------------------------------------------
\* The bit is a function of the two registers, and mtime stays in its bound.
BitInv ==
  /\ mtip = Pending(mtime, mtimecmp)
  /\ mtime <= MaxTime
  /\ readAt <= mtime

\* What the set-up knows at each point: the high word it holds is not ahead of the
\* counter, so an equal second reading proves that it did not change in between.
SetupInv ==
  /\ pc \in Setup => ticks = 0
  /\ pc = "readLow" => time.hi <= mtime \div W
  /\ pc = "checkHigh" => time.hi <= readAt \div W /\ time.lo = readAt % W
  /\ pc \in {"firstWord", "secondWord"} => Value(ullNextTime) = Due(readAt, 1)

\* What the tick handler knows at each point.
TickInv ==
  /\ pc \notin Setup => /\ Due(readAt, ticks) <= mtime
                        /\ Value(ullNextTime) = Due(readAt, ticks + 2)
  /\ pc \in {"task", "guardLow"} => Value(mtimecmp) = Due(readAt, ticks + 1)
  /\ pc \in Updating => Due(readAt, ticks + 1) <= mtime
  /\ pc = "storeHigh" => mtimecmp.lo = W - 1 /\ Due(readAt, ticks + 1) <= Value(mtimecmp)
  /\ pc = "storeLow" => mtimecmp.hi = ullNextTime.hi /\ mtimecmp.lo = W - 1
  /\ pc = "advance" => mtimecmp = ullNextTime

IInv == TypeOK /\ BitInv /\ SetupInv /\ TickInv /\ ReadNotTorn

\* Any pair that agrees in the high word and has the largest low word is not below.
LEMMA GuardValue ==
  ASSUME NEW p \in Pairs
  PROVE  /\ [p EXCEPT !.lo = W - 1] \in Pairs
         /\ Value(p) <= Value([p EXCEPT !.lo = W - 1])
<1>1. /\ p.lo \in Nat /\ p.hi \in Nat /\ p.lo < W /\ p.hi < W /\ p.hi * W \in Nat
      /\ W \in Nat /\ 0 < W
  BY ValueNat, MTimerAssumption, SMT
<1>2. /\ [p EXCEPT !.lo = W - 1].hi = p.hi
      /\ [p EXCEPT !.lo = W - 1].lo = W - 1
  BY DEF Pairs
<1> QED BY <1>1, <1>2, SMT DEF Value, Pairs

\* Constants, in the form the steps use.
LEMMA Constants ==
  /\ W \in Nat /\ 0 < W
  /\ Increment \in Nat /\ 0 < Increment
  /\ MaxTime \in Nat /\ MaxTime + 2 * Increment < W * W
BY MTimerAssumption, SMT

\* Division is monotonic.
LEMMA DivMonotonic ==
  ASSUME NEW a \in Nat, NEW b \in Nat, a <= b
  PROVE  a \div W <= b \div W /\ a \div W \in Nat
<1>1. W \in Nat /\ 0 < W
  BY Constants
<1> DEFINE h == a \div W
           k == b \div W
<1>2. /\ h \in Nat /\ k \in Nat
      /\ h * W <= a /\ b < k * W + W
  BY <1>1, Z3
<1> HIDE DEF h, k
<1>3. (k + 1) * W = k * W + W
  BY <1>1, <1>2, SMT
<1>4. h * W < (k + 1) * W
  <2>1. h * W \in Nat /\ k * W \in Nat BY <1>1, <1>2, SMT
  <2> QED BY <1>1, <1>2, <1>3, <2>1, SMT
<1>5. k + 1 \in Nat BY <1>2, SMT
<1>6. h < k + 1
  BY <1>1, <1>2, <1>4, <1>5, Factor
<1>7. h <= k /\ h \in Nat BY <1>2, <1>6, SMT
<1> QED BY <1>7 DEF h, k

-----------------------------------------------------------------------------
LEMMA InitInv == Init => IInv
<1> SUFFICES ASSUME Init PROVE IInv
  OBVIOUS
<1>0. /\ W \in Nat /\ 0 < W /\ MaxTime \in Nat /\ 0 < W * W
  <2>1. W \in Nat /\ 0 < W /\ MaxTime \in Nat BY Constants
  <2> QED BY <2>1, SMT
<1>1. Words(0) \in Pairs /\ Value(Words(0)) = 0
  BY <1>0, WordsValue
<1>2. mtime \in Nat /\ mtime <= MaxTime
  BY <1>0, SMT DEF Init
<1>3. TypeOK
  BY <1>1, <1>2 DEF Init, TypeOK, Setup
<1>4. Pending(mtime, mtimecmp)
  BY <1>1, <1>2, SMT DEF Init, Pending
<1>5. BitInv
  <2>1. mtip = Pending(mtime, mtimecmp) BY <1>4 DEF Init, Pending
  <2> QED BY <1>2, <2>1, SMT DEF Init, BitInv
<1>6. SetupInv /\ TickInv /\ ReadNotTorn
  BY DEF Init, SetupInv, TickInv, ReadNotTorn, Setup, Updating
<1> QED BY <1>3, <1>5, <1>6 DEF IInv

\* Facts every step uses.
LEMMA Basics ==
  ASSUME IInv
  PROVE  /\ mtime \in Nat /\ readAt \in Nat /\ ticks \in Nat
         /\ readAt <= mtime /\ mtime <= MaxTime
         /\ mtime < W * W /\ readAt < W * W
         /\ Due(readAt, ticks) \in Nat
         /\ Due(readAt, ticks + 1) = Due(readAt, ticks) + Increment
         /\ Due(readAt, ticks + 2) = Due(readAt, ticks) + 2 * Increment
         /\ Due(readAt, 0) = readAt
         /\ Due(readAt, 1) = readAt + Increment
         /\ Due(readAt, 2) = readAt + 2 * Increment
<1>1. mtime \in Nat /\ readAt \in Nat /\ ticks \in Nat
  BY DEF IInv, TypeOK
<1>2. readAt <= mtime /\ mtime <= MaxTime
  BY DEF IInv, BitInv
<1>3. mtime < W * W /\ readAt < W * W
  <2>1. W * W \in Nat BY Constants, SMT
  <2> QED BY <1>1, <1>2, <2>1, Constants, SMT
<1>4. /\ Due(readAt, 0) = readAt
      /\ Due(readAt, 1) = readAt + Increment
      /\ Due(readAt, 2) = readAt + 2 * Increment
  BY <1>1, Constants, SMT DEF Due
<1> QED BY <1>1, <1>2, <1>3, <1>4, DueNext

\* The bit after a store to the compare register, and what the store leaves alone.
LEMMA StoreBit ==
  ASSUME IInv, NEW cmp \in Pairs, StoreCompare(cmp)
  PROVE  /\ BitInv'
         /\ mtimecmp' \in Pairs /\ mtip' \in BOOLEAN
         /\ UNCHANGED <<mtime, time, readAt, ticks>>
BY DEF StoreCompare, IInv, BitInv, Pending

LEMMA TickStep ==
  ASSUME IInv, NEW d \in Steps, Tick(d)
  PROVE  IInv'
<1>1. d \in Nat
  BY MTimerAssumption
<1>2. /\ mtime' = mtime + d /\ mtime' <= MaxTime
      /\ mtip' = Pending(mtime', mtimecmp)
      /\ UNCHANGED <<mtimecmp, ullNextTime, pc, time, readAt, ticks>>
  BY DEF Tick
<1>3. mtime \in Nat /\ mtime' \in Nat /\ mtime <= mtime'
  BY <1>1, <1>2, Basics, SMT
<1>4. TypeOK'
  BY <1>2, <1>3 DEF IInv, TypeOK, Pending
<1>5. BitInv'
  <2>1. readAt' <= mtime' BY <1>2, <1>3, Basics, SMT
  <2> QED BY <1>2, <2>1 DEF BitInv
<1>6. SetupInv'
  <2>1. mtime \div W <= mtime' \div W /\ mtime \div W \in Nat
    BY <1>3, DivMonotonic
  <2>2. mtime' \div W \in Nat
    BY <1>3, DivMonotonic
  <2>3. pc = "readLow" => time.hi <= mtime' \div W
    <3>1. time.hi \in Nat BY ValueNat DEF IInv, TypeOK
    <3> QED BY <2>1, <2>2, <3>1, SMT DEF IInv, SetupInv
  <2> QED BY <1>2, <2>3 DEF IInv, SetupInv
<1>7. TickInv'
  <2>1. pc \notin Setup => Due(readAt, ticks) <= mtime'
    BY <1>3, Basics, SMT DEF IInv, TickInv
  <2>2. pc \in Updating => Due(readAt, ticks + 1) <= mtime'
    BY <1>3, Basics, Constants, SMT DEF IInv, TickInv
  <2> QED BY <1>2, <2>1, <2>2 DEF IInv, TickInv
<1>8. ReadNotTorn'
  BY <1>2 DEF IInv, ReadNotTorn
<1> QED BY <1>4, <1>5, <1>6, <1>7, <1>8 DEF IInv

LEMMA ReadHighStep ==
  ASSUME IInv, ReadHigh
  PROVE  IInv'
<1>1. Words(mtime) \in Pairs /\ Words(mtime).hi = mtime \div W
  BY Basics, WordsValue
<1>2. time' \in Pairs /\ time'.hi = mtime \div W
  BY <1>1 DEF IInv, TypeOK, ReadHigh, Pairs
<1>3. mtime \div W \in Nat /\ mtime \div W <= mtime \div W
  <2>1. mtime \in Nat /\ mtime <= mtime BY Basics, SMT
  <2> QED BY <2>1, DivMonotonic
<1>4. TypeOK'
  BY <1>2 DEF IInv, TypeOK, ReadHigh, Setup
<1>5. BitInv' /\ TickInv' /\ ReadNotTorn'
  BY DEF IInv, BitInv, TickInv, ReadNotTorn, ReadHigh, Setup, Updating
<1>6. SetupInv'
  BY <1>2, <1>3 DEF IInv, SetupInv, ReadHigh, Setup
<1> QED BY <1>4, <1>5, <1>6 DEF IInv

LEMMA ReadLowStep ==
  ASSUME IInv, ReadLow
  PROVE  IInv'
<1>1. Words(mtime) \in Pairs /\ Words(mtime).lo = mtime % W
  BY Basics, WordsValue
<1>2. time' \in Pairs /\ time'.hi = time.hi /\ time'.lo = mtime % W
  BY <1>1 DEF IInv, TypeOK, ReadLow, Pairs
<1>3. mtime \in Nat /\ mtime <= mtime
  BY Basics, SMT
<1>4. TypeOK'
  BY <1>2, <1>3 DEF IInv, TypeOK, ReadLow, Setup
<1>5. BitInv' /\ TickInv' /\ ReadNotTorn'
  BY <1>3 DEF IInv, BitInv, TickInv, ReadNotTorn, ReadLow, Setup, Updating
<1>6. SetupInv'
  BY <1>2 DEF IInv, SetupInv, ReadLow, Setup
<1> QED BY <1>4, <1>5, <1>6 DEF IInv

\* Equal readings of the high word bracket the reading of the low word.
LEMMA CheckHighStep ==
  ASSUME IInv, CheckHigh
  PROVE  IInv'
<1>0. /\ pc = "checkHigh" /\ ticks = 0 /\ time \in Pairs
      /\ time.hi <= readAt \div W /\ time.lo = readAt % W
      /\ UNCHANGED <<mtime, mtimecmp, mtip, time, readAt, ticks>>
  BY DEF CheckHigh, IInv, SetupInv, TypeOK, Setup
<1>1. CASE /\ Words(mtime).hi # time.hi
           /\ pc' = "readHigh"
           /\ UNCHANGED ullNextTime
  BY <1>0, <1>1 DEF IInv, TypeOK, BitInv, SetupInv, TickInv, ReadNotTorn, Setup, Updating
<1>2. CASE /\ Words(mtime).hi = time.hi
           /\ pc' = "firstWord"
           /\ ullNextTime' = Words(Value(time) + Increment)
  <2>1. Words(mtime).hi = mtime \div W
    BY Basics, WordsValue
  <2>2. readAt \div W <= mtime \div W /\ readAt \div W \in Nat
    BY Basics, DivMonotonic
  <2>3. time.hi = readAt \div W
    <3>1. time.hi \in Nat BY <1>0, ValueNat
    <3> QED BY <1>0, <1>2, <2>1, <2>2, <3>1, SMT
  <2>4. Value(time) = readAt
    <3>1. /\ Value(Words(readAt)) = readAt
          /\ Words(readAt).hi = time.hi /\ Words(readAt).lo = time.lo
      BY <1>0, <2>3, Basics, WordsValue
    <3> QED BY <3>1 DEF Value
  <2>5. readAt + Increment \in Nat /\ readAt + Increment < W * W
    <3>1. W * W \in Nat BY Constants, SMT
    <3> QED BY <3>1, Basics, Constants, SMT
  <2>6. ullNextTime' \in Pairs /\ Value(ullNextTime') = readAt + Increment
    BY <1>2, <2>4, <2>5, WordsValue
  <2>7. Value(ullNextTime') = Due(readAt, 1)
    BY <2>6, Basics
  <2>8. TypeOK'
    BY <1>0, <1>2, <2>6 DEF IInv, TypeOK, Setup
  <2>9. BitInv' /\ TickInv' /\ SetupInv' /\ ReadNotTorn'
    BY <1>0, <1>2, <2>4, <2>7 DEF IInv, BitInv, TickInv, SetupInv, ReadNotTorn, Setup, Updating
  <2> QED BY <2>8, <2>9 DEF IInv
<1> QED BY <1>1, <1>2 DEF CheckHigh

LEMMA StoreFirstWordStep ==
  ASSUME IInv, StoreFirstWord
  PROVE  IInv'
<1>1. /\ [mtimecmp EXCEPT !.lo = ullNextTime.lo] \in Pairs
      /\ [mtimecmp EXCEPT !.hi = ullNextTime.hi] \in Pairs
  BY DEF IInv, TypeOK, Pairs
<1>2. /\ BitInv' /\ mtimecmp' \in Pairs /\ mtip' \in BOOLEAN
      /\ UNCHANGED <<mtime, time, readAt, ticks>>
  BY <1>1, StoreBit DEF StoreFirstWord
<1>3. pc = "firstWord" /\ pc' = "secondWord" /\ ullNextTime' = ullNextTime
  BY DEF StoreFirstWord
<1>4. TypeOK'
  BY <1>2, <1>3 DEF IInv, TypeOK, Setup
<1>5. TickInv' /\ SetupInv' /\ ReadNotTorn'
  BY <1>2, <1>3 DEF IInv, TickInv, SetupInv, ReadNotTorn, Setup, Updating
<1> QED BY <1>2, <1>4, <1>5 DEF IInv

LEMMA StoreSecondWordStep ==
  ASSUME IInv, StoreSecondWord
  PROVE  IInv'
<1>0. /\ pc = "secondWord" /\ pc' = "task" /\ ticks = 0
      /\ ullNextTime \in Pairs /\ Value(ullNextTime) = Due(readAt, 1)
      /\ ullNextTime' = Words(Value(ullNextTime) + Increment)
      /\ mtimecmp' = ullNextTime
  BY DEF StoreSecondWord, StoreCompare, IInv, SetupInv, TypeOK, Setup
<1>1. /\ BitInv' /\ mtimecmp' \in Pairs /\ mtip' \in BOOLEAN
      /\ UNCHANGED <<mtime, time, readAt, ticks>>
  BY <1>0, StoreBit DEF StoreSecondWord
<1>2. /\ Value(ullNextTime) + Increment = Due(readAt, 2)
      /\ Due(readAt, 2) \in Nat /\ Due(readAt, 2) < W * W
  <2>1. W * W \in Nat BY Constants, SMT
  <2> QED BY <1>0, <2>1, Basics, Constants, SMT
<1>3. ullNextTime' \in Pairs /\ Value(ullNextTime') = Due(readAt, 2)
  BY <1>0, <1>2, WordsValue
<1>4. TypeOK'
  BY <1>0, <1>1, <1>3 DEF IInv, TypeOK
<1>5. SetupInv' /\ ReadNotTorn'
  BY <1>0, <1>1 DEF IInv, SetupInv, ReadNotTorn, Setup
<1>6. TickInv'
  <2>1. ticks' + 1 = 1 /\ ticks' + 2 = 2
    BY <1>0, <1>1, SMT
  <2>2. Due(readAt', ticks') <= mtime'
    BY <1>0, <1>1, Basics
  <2> QED BY <1>0, <1>1, <1>3, <2>1, <2>2 DEF TickInv, Updating
<1> QED BY <1>1, <1>4, <1>5, <1>6 DEF IInv

-----------------------------------------------------------------------------
\* The interrupt comes only when the compare value has passed.
LEMMA TimerInterruptStep ==
  ASSUME IInv, TimerInterrupt
  PROVE  IInv'
<1>0. /\ pc = "task" /\ pc' = "guardLow" /\ mtip
      /\ UNCHANGED <<mtime, mtimecmp, mtip, ullNextTime, time, readAt, ticks>>
  BY DEF TimerInterrupt
<1>1. Due(readAt, ticks + 1) <= mtime
  <2>1. Pending(mtime, mtimecmp) /\ Value(mtimecmp) = Due(readAt, ticks + 1)
    BY <1>0 DEF IInv, BitInv, TickInv
  <2> QED BY <2>1, Basics, Constants, SMT DEF Pending
<1>2. TypeOK' /\ BitInv' /\ SetupInv' /\ ReadNotTorn'
  BY <1>0 DEF IInv, TypeOK, BitInv, SetupInv, ReadNotTorn, Setup, Updating
<1>3. TickInv'
  BY <1>0, <1>1 DEF IInv, TickInv, Setup, Updating
<1> QED BY <1>2, <1>3 DEF IInv

LEMMA GuardLowStep ==
  ASSUME IInv, GuardLow
  PROVE  IInv'
<1>0. /\ pc = "guardLow" /\ pc' = "storeHigh" /\ ullNextTime' = ullNextTime
      /\ mtimecmp \in Pairs /\ mtimecmp' = [mtimecmp EXCEPT !.lo = W - 1]
  BY DEF GuardLow, StoreCompare, IInv, TypeOK
<1>1. mtimecmp' \in Pairs /\ Value(mtimecmp) <= Value(mtimecmp')
  BY <1>0, GuardValue
<1>2. /\ BitInv' /\ mtip' \in BOOLEAN
      /\ UNCHANGED <<mtime, time, readAt, ticks>>
  BY <1>0, <1>1, StoreBit DEF GuardLow
<1>3. TypeOK' /\ SetupInv' /\ ReadNotTorn'
  BY <1>0, <1>1, <1>2 DEF IInv, TypeOK, SetupInv, ReadNotTorn, Setup, Updating
<1>4. Value(mtimecmp) = Due(readAt, ticks + 1)
  BY <1>0 DEF IInv, TickInv
<1>5. TickInv'
  BY <1>0, <1>1, <1>2, <1>4 DEF IInv, TickInv, Setup, Updating
<1> QED BY <1>2, <1>3, <1>5 DEF IInv

LEMMA StoreHighStep ==
  ASSUME IInv, StoreHigh
  PROVE  IInv'
<1>0. /\ pc = "storeHigh" /\ pc' = "storeLow" /\ ullNextTime' = ullNextTime
      /\ mtimecmp \in Pairs /\ ullNextTime \in Pairs
      /\ mtimecmp' = [mtimecmp EXCEPT !.hi = ullNextTime.hi]
      /\ mtimecmp.lo = W - 1
  BY DEF StoreHigh, StoreCompare, IInv, TypeOK, TickInv
<1>1. /\ mtimecmp' \in Pairs
      /\ mtimecmp'.hi = ullNextTime.hi /\ mtimecmp'.lo = W - 1
  BY <1>0 DEF Pairs
<1>2. /\ BitInv' /\ mtip' \in BOOLEAN
      /\ UNCHANGED <<mtime, time, readAt, ticks>>
  BY <1>0, <1>1, StoreBit DEF StoreHigh
<1>3. TypeOK' /\ SetupInv' /\ ReadNotTorn'
  BY <1>0, <1>1, <1>2 DEF IInv, TypeOK, SetupInv, ReadNotTorn, Setup, Updating
<1>4. TickInv'
  BY <1>0, <1>1, <1>2 DEF IInv, TickInv, Setup, Updating
<1> QED BY <1>2, <1>3, <1>4 DEF IInv

LEMMA StoreLowStep ==
  ASSUME IInv, StoreLow
  PROVE  IInv'
<1>0. /\ pc = "storeLow" /\ pc' = "advance" /\ ullNextTime' = ullNextTime
      /\ mtimecmp \in Pairs /\ ullNextTime \in Pairs
      /\ mtimecmp' = [mtimecmp EXCEPT !.lo = ullNextTime.lo]
      /\ mtimecmp.hi = ullNextTime.hi
  BY DEF StoreLow, StoreCompare, IInv, TypeOK, TickInv
<1>1. mtimecmp' = ullNextTime
  BY <1>0 DEF Pairs
<1>2. /\ BitInv' /\ mtip' \in BOOLEAN
      /\ UNCHANGED <<mtime, time, readAt, ticks>>
  BY <1>0, <1>1, StoreBit DEF StoreLow
<1>3. TypeOK' /\ SetupInv' /\ ReadNotTorn'
  BY <1>0, <1>1, <1>2 DEF IInv, TypeOK, SetupInv, ReadNotTorn, Setup, Updating
<1>4. TickInv'
  BY <1>0, <1>1, <1>2 DEF IInv, TickInv, Setup, Updating
<1> QED BY <1>2, <1>3, <1>4 DEF IInv

LEMMA AdvanceStep ==
  ASSUME IInv, Advance
  PROVE  IInv'
<1>0. /\ pc = "advance" /\ pc' = "task" /\ ullNextTime' = Sum(ullNextTime)
      /\ ticks' = ticks + 1 /\ ullNextTime \in Pairs
      /\ UNCHANGED <<mtime, mtimecmp, mtip, time, readAt>>
  BY DEF Advance, IInv, TypeOK
<1>1. /\ Value(ullNextTime) = Due(readAt, ticks + 2)
      /\ Due(readAt, ticks + 1) <= mtime
      /\ mtimecmp = ullNextTime
  BY <1>0 DEF IInv, TickInv, Setup, Updating
<1>2. Value(ullNextTime) + Increment < W * W
  <2>1. W * W \in Nat BY Constants, SMT
  <2> QED BY <1>1, <2>1, Basics, Constants, SMT
<1>3. /\ ullNextTime' \in Pairs
      /\ Value(ullNextTime') = Due(readAt, ticks + 2) + Increment
  BY <1>0, <1>1, <1>2, SumValue
<1>4. ticks + 1 \in Nat /\ ticks + 1 + 1 = ticks + 2 /\ ticks + 1 + 2 = ticks + 2 + 1
      /\ ticks + 2 \in Nat
  BY Basics, SMT
<1>5. Due(readAt, ticks + 2 + 1) = Due(readAt, ticks + 2) + Increment
  BY <1>4, Basics, DueNext
<1>6. TypeOK' /\ BitInv' /\ SetupInv' /\ ReadNotTorn'
  BY <1>0, <1>3, <1>4 DEF IInv, TypeOK, BitInv, SetupInv, ReadNotTorn, Setup, Updating
<1>7. TickInv'
  BY <1>0, <1>1, <1>3, <1>4, <1>5 DEF TickInv, Setup, Updating
<1> QED BY <1>6, <1>7 DEF IInv

LEMMA Invariance == Spec => []IInv
<1>1. IInv /\ [Next]_vars => IInv'
  <2> SUFFICES ASSUME IInv, [Next]_vars PROVE IInv'
    OBVIOUS
  <2>1. CASE UNCHANGED vars
    BY <2>1 DEF vars, IInv, TypeOK, BitInv, SetupInv, TickInv, ReadNotTorn
  <2>2. CASE Next
    BY <2>2, TickStep, ReadHighStep, ReadLowStep, CheckHighStep, StoreFirstWordStep,
       StoreSecondWordStep, TimerInterruptStep, GuardLowStep, StoreHighStep,
       StoreLowStep, AdvanceStep DEF Next, Handler
  <2> QED BY <2>1, <2>2
<1> QED BY <1>1, InitInv, PTL DEF Spec

\* The two halves of every 64-bit value stay words, for every W.
THEOREM TypeCorrect == Spec => []TypeOK
<1>1. IInv => TypeOK
  BY DEF IInv
<1> QED BY <1>1, Invariance, PTL

\* vPortSetupTimerInterrupt never works with a torn reading of mtime.
THEOREM SetupReading == Spec => []ReadNotTorn
<1>1. IInv => ReadNotTorn
  BY DEF IInv
<1> QED BY <1>1, Invariance, PTL

\* The ticks of freertos_risc_v_mtimer_interrupt_handler are neither early nor lost.
THEOREM OnTime == Spec => []TicksOnTime
<1>1. IInv => TicksOnTime
  BY DEF IInv, TickInv, TicksOnTime, Due, Setup
<1> QED BY <1>1, Invariance, PTL

\* The three stores of portUPDATE_MTIMER_COMPARE_REGISTER raise no early bit.
THEOREM NeverBelow == Spec => []CompareNeverBelow
<1>1. IInv => CompareNeverBelow
  <2> SUFFICES ASSUME IInv, pc \in Updating
               PROVE  Value(mtimecmp) >= Due(readAt, ticks + 1)
    BY DEF CompareNeverBelow, Due
  <2> SUFFICES Due(readAt, ticks + 1) <= Value(mtimecmp)
    <3>1. Value(mtimecmp) \in Nat BY ValueNat DEF IInv, TypeOK
    <3>2. Due(readAt, ticks + 1) \in Nat BY Basics, Constants, SMT
    <3> QED BY <3>1, <3>2, SMT
  <2>0. /\ Value(ullNextTime) = Due(readAt, ticks + 2)
        /\ mtimecmp \in Pairs /\ ullNextTime \in Pairs
    BY DEF IInv, TypeOK, TickInv, Setup, Updating
  <2>1. CASE pc = "guardLow"
    <3>1. Value(mtimecmp) = Due(readAt, ticks + 1) BY <2>1 DEF IInv, TickInv
    <3> QED BY <3>1, Basics, Constants, SMT
  <2>2. CASE pc = "storeHigh"
    BY <2>2 DEF IInv, TickInv
  <2>3. CASE pc = "storeLow"
    <3>1. mtimecmp = [ullNextTime EXCEPT !.lo = W - 1]
      BY <2>0, <2>3 DEF IInv, TickInv, Pairs
    <3>2. Value(ullNextTime) <= Value(mtimecmp)
      BY <2>0, <3>1, GuardValue
    <3>3. Value(mtimecmp) \in Nat
      BY <2>0, ValueNat
    <3> QED BY <2>0, <3>2, <3>3, Basics, Constants, SMT
  <2>4. CASE pc = "advance"
    BY <2>0, <2>4, Basics, Constants, SMT DEF IInv, TickInv
  <2> QED BY <2>1, <2>2, <2>3, <2>4 DEF Updating
<1> QED BY <1>1, Invariance, PTL
=============================================================================
