----------------------------- MODULE QueueProof -----------------------------
(***************************************************************************)
(* The properties of Queue for every number of tasks and every length of   *)
(* the queue: the buffer is a bounded FIFO, and no wake-up is lost.        *)
(***************************************************************************)
EXTENDS Queue, FiniteSetTheorems, SequenceTheorems, TLAPS

-----------------------------------------------------------------------------
\* The ring buffer.

LEMMA LengthsNat ==
  ASSUME NEW n \in Lengths
  PROVE  n \in Nat /\ 0 < n
BY QueueAssumption, SMT

LEMMA TaskCount ==
  /\ Cardinality(Tasks) \in Nat
  /\ \A S : S \subseteq Tasks =>
       IsFiniteSet(S) /\ Cardinality(S) \in Nat /\ Cardinality(S) <= Cardinality(Tasks)
<1>1. IsFiniteSet(Tasks)
  BY QueueAssumption
<1> QED BY <1>1, FS_CardinalityType, FS_Subset

\* The fields of a queue.
LEMMA Fields ==
  ASSUME NEW n \in Lengths, NEW s \in Queue_t(n)
  PROVE  /\ n \in Nat /\ 0 < n /\ s.uxLength = n
         /\ s.storage \in [0 .. n - 1 -> Values]
         /\ s.uxMessagesWaiting \in Nat /\ s.uxMessagesWaiting <= n
         /\ s.pcWriteTo \in Nat /\ s.pcWriteTo < n
         /\ s.pcReadFrom \in Nat /\ s.pcReadFrom < n
         /\ s.cRxLock \in Int /\ -1 <= s.cRxLock /\ s.cRxLock <= Cardinality(Tasks)
         /\ s.cTxLock \in Int /\ -1 <= s.cTxLock /\ s.cTxLock <= Cardinality(Tasks)
         /\ s.toSend \subseteq Tasks /\ s.toReceive \subseteq Tasks
<1>1. n \in Nat /\ 0 < n
  BY LengthsNat
<1>2. Cardinality(Tasks) \in Nat
  BY TaskCount
<1>3. /\ s.uxLength = n /\ s.storage \in [0 .. n - 1 -> Values]
      /\ s.uxMessagesWaiting \in 0 .. n /\ s.pcWriteTo \in 0 .. n - 1 /\ s.pcReadFrom \in 0 .. n - 1
      /\ s.cRxLock \in -1 .. Cardinality(Tasks) /\ s.cTxLock \in -1 .. Cardinality(Tasks)
      /\ s.toSend \subseteq Tasks /\ s.toReceive \subseteq Tasks
  BY DEF Queue_t, queueUNLOCKED
<1> QED BY <1>1, <1>2, <1>3, SMT

\* The distance from the read pointer to the write pointer is the number of
\* messages, up to turns of the ring.
Ring(s) ==
  \/ s.pcWriteTo = s.pcReadFrom + 1 + s.uxMessagesWaiting
  \/ s.pcWriteTo + s.uxLength = s.pcReadFrom + 1 + s.uxMessagesWaiting
  \/ s.pcWriteTo + s.uxLength + s.uxLength = s.pcReadFrom + 1 + s.uxMessagesWaiting

SameLists(s, u) ==
  /\ u.cRxLock = s.cRxLock /\ u.cTxLock = s.cTxLock
  /\ u.toSend = s.toSend /\ u.toReceive = s.toReceive

SameBuffer(s, u) ==
  /\ u.uxLength = s.uxLength /\ u.storage = s.storage
  /\ u.uxMessagesWaiting = s.uxMessagesWaiting
  /\ u.pcWriteTo = s.pcWriteTo /\ u.pcReadFrom = s.pcReadFrom

LEMMA CopyTo ==
  ASSUME NEW n \in Lengths, NEW s \in Queue_t(n), NEW v \in Values,
         NEW position \in {"back", "front", "overwrite"},
         s.uxMessagesWaiting < n \/ position = "overwrite", position = "overwrite" => n = 1
  PROVE  /\ prvCopyDataToQueue(s, v, position) \in Queue_t(n)
         /\ SameLists(s, prvCopyDataToQueue(s, v, position))
         /\ \/ prvCopyDataToQueue(s, v, position).uxMessagesWaiting = s.uxMessagesWaiting + 1
            \/ /\ s.uxMessagesWaiting = 1 /\ n = 1
               /\ prvCopyDataToQueue(s, v, position).uxMessagesWaiting = 1
         /\ Ring(s) => Ring(prvCopyDataToQueue(s, v, position))
<1> DEFINE u == prvCopyDataToQueue(s, v, position)
<1>0. /\ n \in Nat /\ 0 < n /\ s.uxLength = n
      /\ s.uxMessagesWaiting \in Nat /\ s.uxMessagesWaiting <= n
      /\ s.pcWriteTo \in Nat /\ s.pcWriteTo < n
      /\ s.pcReadFrom \in Nat /\ s.pcReadFrom < n
  BY Fields
<1>1. CASE position = "back"
  <2>1. u = [s EXCEPT !.storage = [s.storage EXCEPT ![s.pcWriteTo] = v],
                      !.pcWriteTo = Forward(s, s.pcWriteTo),
                      !.uxMessagesWaiting = s.uxMessagesWaiting + 1]
    BY <1>1 DEF prvCopyDataToQueue, Queue_t
  <2>2. Forward(s, s.pcWriteTo) \in 0 .. n - 1
    BY <1>0, SMT DEF Forward
  <2>3. s.uxMessagesWaiting + 1 \in 0 .. n
    BY <1>0, <1>1, SMT
  <2> HIDE DEF u
  <2>4. u \in Queue_t(n) /\ SameLists(s, u)
    BY <2>1, <2>2, <2>3 DEF Queue_t, SameLists
  <2>5. /\ u.uxMessagesWaiting = s.uxMessagesWaiting + 1
        /\ u.pcWriteTo = Forward(s, s.pcWriteTo) /\ u.pcReadFrom = s.pcReadFrom
        /\ u.uxLength = s.uxLength
    BY <2>1 DEF Queue_t
  <2>6. Ring(s) => Ring(u)
    BY <1>0, <1>1, <2>5, SMT DEF Ring, Forward
  <2> QED BY <2>4, <2>5, <2>6 DEF u
<1>2. CASE position # "back"
  <2> DEFINE c == IF position = "overwrite" /\ s.uxMessagesWaiting > 0
                  THEN s.uxMessagesWaiting ELSE s.uxMessagesWaiting + 1
  <2>1. u = [s EXCEPT !.storage = [s.storage EXCEPT ![s.pcReadFrom] = v],
                      !.pcReadFrom = Back(s, s.pcReadFrom),
                      !.uxMessagesWaiting = c]
    BY <1>2 DEF prvCopyDataToQueue, Queue_t
  <2>2. Back(s, s.pcReadFrom) \in 0 .. n - 1
    BY <1>0, SMT DEF Back
  <2>3. /\ c \in 0 .. n
        /\ c = s.uxMessagesWaiting + 1 \/ (s.uxMessagesWaiting = 1 /\ n = 1 /\ c = 1)
    BY <1>0, SMT
  <2> HIDE DEF u, c
  <2>4. u \in Queue_t(n) /\ SameLists(s, u)
    BY <2>1, <2>2, <2>3 DEF Queue_t, SameLists
  <2>5. /\ u.uxMessagesWaiting = c
        /\ u.pcWriteTo = s.pcWriteTo /\ u.pcReadFrom = Back(s, s.pcReadFrom)
        /\ u.uxLength = s.uxLength
    BY <2>1 DEF Queue_t
  <2>6. Ring(s) => Ring(u)
    <3>1. CASE c = s.uxMessagesWaiting + 1
      BY <1>0, <2>3, <2>5, <3>1, SMT DEF Ring, Back
    <3>2. CASE s.uxMessagesWaiting = 1 /\ n = 1 /\ c = 1
      BY <1>0, <2>5, <3>2, SMT DEF Ring, Back
    <3> QED BY <2>3, <3>1, <3>2
  <2> QED BY <2>3, <2>4, <2>5, <2>6 DEF u
<1> QED BY <1>1, <1>2

LEMMA CopyFrom ==
  ASSUME NEW n \in Lengths, NEW s \in Queue_t(n), s.uxMessagesWaiting > 0
  PROVE  /\ Received(s) \in Queue_t(n)
         /\ SameLists(s, Received(s))
         /\ Received(s).uxMessagesWaiting = s.uxMessagesWaiting - 1
         /\ NextMessage(s) \in Values
         /\ Ring(s) => Ring(Received(s))
<1> DEFINE u == Received(s)
<1>0. /\ n \in Nat /\ 0 < n /\ s.uxLength = n /\ s.storage \in [0 .. n - 1 -> Values]
      /\ s.uxMessagesWaiting \in Nat /\ s.uxMessagesWaiting <= n
      /\ s.pcWriteTo \in Nat /\ s.pcWriteTo < n
      /\ s.pcReadFrom \in Nat /\ s.pcReadFrom < n
  BY Fields
<1>1. u = [s EXCEPT !.pcReadFrom = Forward(s, s.pcReadFrom),
                    !.uxMessagesWaiting = s.uxMessagesWaiting - 1]
  BY DEF Received, Queue_t
<1>2. Forward(s, s.pcReadFrom) \in 0 .. n - 1 /\ s.uxMessagesWaiting - 1 \in 0 .. n
  BY <1>0, SMT DEF Forward
<1> HIDE DEF u
<1>3. u \in Queue_t(n) /\ SameLists(s, u)
  BY <1>1, <1>2 DEF Queue_t, SameLists
<1>4. /\ u.uxMessagesWaiting = s.uxMessagesWaiting - 1
      /\ u.pcWriteTo = s.pcWriteTo /\ u.pcReadFrom = Forward(s, s.pcReadFrom)
      /\ u.uxLength = s.uxLength
  BY <1>1 DEF Queue_t
<1>5. Ring(s) => Ring(u)
  <2>1. CASE s.pcReadFrom + 1 >= n
    <3>1. u.pcReadFrom = 0 /\ s.pcReadFrom = n - 1
      BY <1>0, <1>4, <2>1, SMT DEF Forward
    <3> QED BY <1>0, <1>4, <3>1, SMT DEF Ring
  <2>2. CASE ~(s.pcReadFrom + 1 >= n)
    <3>1. u.pcReadFrom = s.pcReadFrom + 1
      BY <1>0, <1>4, <2>2, SMT DEF Forward
    <3>2. u.pcReadFrom + 1 + u.uxMessagesWaiting = s.pcReadFrom + 1 + s.uxMessagesWaiting
      BY <1>0, <1>4, <3>1, SMT
    <3> QED BY <1>4, <3>2 DEF Ring
  <2> QED BY <2>1, <2>2
<1>6. NextMessage(s) \in Values
  BY <1>0, <1>2 DEF NextMessage
<1> QED BY <1>3, <1>4, <1>5, <1>6 DEF u

\* Waking takes tasks off one list and changes nothing else. It wakes k of them, or
\* all if there are fewer.
LEMMA WokenOf ==
  ASSUME NEW W, W \subseteq Tasks, NEW k \in Nat, NEW r \in Wake(W, k)
  PROVE  /\ r \subseteq W /\ r \subseteq Tasks
         /\ r = {} \/ Cardinality(W \ r) = k
<1>1. PICK x \in SUBSET W :
        /\ r = W \ x
        /\ Cardinality(x) = IF k < Cardinality(W) THEN k ELSE Cardinality(W)
  BY DEF Wake
<1>2. W \ r = x
  BY <1>1
<1>3. IsFiniteSet(W) /\ Cardinality(W) \in Nat
  BY TaskCount
<1>4. CASE k < Cardinality(W)
  BY <1>1, <1>2, <1>4
<1>5. CASE ~(k < Cardinality(W))
  <2>1. Cardinality(x) = Cardinality(W) BY <1>1, <1>5
  <2>2. x = W BY <1>1, <1>3, <2>1, FS_Subset
  <2> QED BY <1>1, <2>2
<1> QED BY <1>4, <1>5

LEMMA WokenReceivers ==
  ASSUME NEW n \in Lengths, NEW s \in Queue_t(n), NEW k \in Nat, NEW u \in WakeReceivers(s, k)
  PROVE  /\ u \in Queue_t(n) /\ SameBuffer(s, u)
         /\ u.cRxLock = s.cRxLock /\ u.cTxLock = s.cTxLock /\ u.toSend = s.toSend
         /\ u.toReceive \subseteq s.toReceive
         /\ u.toReceive = {} \/ Cardinality(s.toReceive \ u.toReceive) = k
<1>1. PICK r \in Wake(s.toReceive, k) : u = [s EXCEPT !.toReceive = r]
  BY DEF WakeReceivers
<1>2. s.toReceive \subseteq Tasks
  BY Fields
<1>3. r \subseteq s.toReceive /\ r \subseteq Tasks
      /\ (r = {} \/ Cardinality(s.toReceive \ r) = k)
  BY <1>1, <1>2, WokenOf
<1>4. u \in Queue_t(n) /\ u.toReceive = r
  BY <1>1, <1>3 DEF Queue_t
<1>5. /\ SameBuffer(s, u)
      /\ u.cRxLock = s.cRxLock /\ u.cTxLock = s.cTxLock /\ u.toSend = s.toSend
  BY <1>1 DEF Queue_t, SameBuffer
<1> QED BY <1>3, <1>4, <1>5

LEMMA WokenSenders ==
  ASSUME NEW n \in Lengths, NEW s \in Queue_t(n), NEW k \in Nat, NEW u \in WakeSenders(s, k)
  PROVE  /\ u \in Queue_t(n) /\ SameBuffer(s, u)
         /\ u.cRxLock = s.cRxLock /\ u.cTxLock = s.cTxLock /\ u.toReceive = s.toReceive
         /\ u.toSend \subseteq s.toSend
         /\ u.toSend = {} \/ Cardinality(s.toSend \ u.toSend) = k
<1>1. PICK r \in Wake(s.toSend, k) : u = [s EXCEPT !.toSend = r]
  BY DEF WakeSenders
<1>2. s.toSend \subseteq Tasks
  BY Fields
<1>3. r \subseteq s.toSend /\ r \subseteq Tasks
      /\ (r = {} \/ Cardinality(s.toSend \ r) = k)
  BY <1>1, <1>2, WokenOf
<1>4. u \in Queue_t(n) /\ u.toSend = r
  BY <1>1, <1>3 DEF Queue_t
<1>5. /\ SameBuffer(s, u)
      /\ u.cRxLock = s.cRxLock /\ u.cTxLock = s.cTxLock /\ u.toReceive = s.toReceive
  BY <1>1 DEF Queue_t, SameBuffer
<1> QED BY <1>3, <1>4, <1>5

LEMMA OneOfReceivers ==
  ASSUME NEW n \in Lengths, NEW s \in Queue_t(n), NEW u \in WakeReceivers(s, 1)
  PROVE  /\ u \in Queue_t(n) /\ SameBuffer(s, u)
         /\ u.cRxLock = s.cRxLock /\ u.cTxLock = s.cTxLock /\ u.toSend = s.toSend
         /\ u.toReceive \subseteq s.toReceive
         /\ u.toReceive = {} \/ Cardinality(s.toReceive \ u.toReceive) = 1
BY WokenReceivers

LEMMA OneOfSenders ==
  ASSUME NEW n \in Lengths, NEW s \in Queue_t(n), NEW u \in WakeSenders(s, 1)
  PROVE  /\ u \in Queue_t(n) /\ SameBuffer(s, u)
         /\ u.cRxLock = s.cRxLock /\ u.cTxLock = s.cTxLock /\ u.toReceive = s.toReceive
         /\ u.toSend \subseteq s.toSend
         /\ u.toSend = {} \/ Cardinality(s.toSend \ u.toSend) = 1
BY WokenSenders

-----------------------------------------------------------------------------
\* The buffer read as a sequence.

MessagesOf(s) ==
  [i \in 1 .. s.uxMessagesWaiting |-> s.storage[(s.pcReadFrom + i) % s.uxLength]]

LEMMA Turn ==
  ASSUME NEW n \in Nat, 0 < n, NEW a \in Nat, a < n + n
  PROVE  a % n = IF a < n THEN a ELSE a - n
<1>1. CASE a < n
  BY <1>1, SMT
<1>2. CASE ~(a < n)
  <2> DEFINE b == a - n
  <2>1. b \in Nat /\ b < n /\ a = b + n
    BY <1>2, SMT
  <2> HIDE DEF b
  <2>2. (b + n) % n = b
    BY <2>1, SMT
  <2>3. a % n = b
    BY <2>1, <2>2
  <2> QED BY <1>2, <2>3 DEF b
<1> QED BY <1>1, <1>2

LEMMA FunctionIsSeq ==
  ASSUME NEW S, NEW k \in Nat, NEW f \in [1 .. k -> S]
  PROVE  f \in Seq(S) /\ Len(f) = k
<1>1. f \in Seq(S)
  BY SeqDef
<1>2. Len(f) \in Nat /\ DOMAIN f = 1 .. Len(f)
  BY <1>1, LenProperties
<1>3. 1 .. Len(f) = 1 .. k
  BY <1>2
<1>4. \A a, b \in Nat : 1 .. a = 1 .. b => a = b
  <2> SUFFICES ASSUME NEW a \in Nat, NEW b \in Nat, 1 .. a = 1 .. b PROVE a = b
    OBVIOUS
  <2>1. a = 0 \/ a \in 1 .. b BY SMT
  <2>2. b = 0 \/ b \in 1 .. a BY SMT
  <2> QED BY <2>1, <2>2, SMT
<1> QED BY <1>1, <1>2, <1>3, <1>4

LEMMA MessagesSeq ==
  ASSUME NEW n \in Lengths, NEW s \in Queue_t(n)
  PROVE  /\ MessagesOf(s) \in Seq(Values)
         /\ Len(MessagesOf(s)) = s.uxMessagesWaiting
         /\ \A i \in 1 .. s.uxMessagesWaiting :
              MessagesOf(s)[i] = s.storage[(s.pcReadFrom + i) % n]
         /\ \A i \in 1 .. s.uxMessagesWaiting : (s.pcReadFrom + i) % n \in 0 .. n - 1
<1>0. /\ n \in Nat /\ 0 < n /\ s.uxLength = n /\ s.storage \in [0 .. n - 1 -> Values]
      /\ s.uxMessagesWaiting \in Nat /\ s.uxMessagesWaiting <= n
      /\ s.pcReadFrom \in Nat /\ s.pcReadFrom < n
  BY Fields
<1>1. ASSUME NEW i \in 1 .. s.uxMessagesWaiting PROVE (s.pcReadFrom + i) % n \in 0 .. n - 1
  <2> DEFINE a == s.pcReadFrom + i
  <2>1. a \in Nat /\ a < n + n
    BY <1>0, SMT
  <2> HIDE DEF a
  <2>2. a % n = IF a < n THEN a ELSE a - n
    BY <1>0, <2>1, Turn
  <2>3. a % n \in 0 .. n - 1
    BY <1>0, <2>1, <2>2, SMT
  <2> QED BY <2>3 DEF a
<1>2. MessagesOf(s) \in [1 .. s.uxMessagesWaiting -> Values]
  BY <1>0, <1>1 DEF MessagesOf
<1>3. MessagesOf(s) \in Seq(Values) /\ Len(MessagesOf(s)) = s.uxMessagesWaiting
  BY <1>0, <1>2, FunctionIsSeq
<1> QED BY <1>0, <1>1, <1>3 DEF MessagesOf

\* The i-th index after r on a ring of n, without the modulus.
Wrapped(r, i, n) == IF r + i < n THEN r + i ELSE r + i - n

LEMMA Wraps ==
  ASSUME NEW n \in Nat, NEW r \in Nat, NEW i \in Nat, 0 < n, r < n, i <= n
  PROVE  (r + i) % n = Wrapped(r, i, n) /\ Wrapped(r, i, n) \in 0 .. n - 1
<1> DEFINE a == r + i
<1>1. a \in Nat /\ a < n + n
  BY SMT
<1> HIDE DEF a
<1>2. a % n = IF a < n THEN a ELSE a - n
  BY <1>1, Turn
<1>3. (r + i) % n = Wrapped(r, i, n)
  BY <1>2 DEF a, Wrapped
<1>4. Wrapped(r, i, n) \in 0 .. n - 1
  BY SMT DEF Wrapped
<1> QED BY <1>3, <1>4

\* The write pointer is the index after the last message, and no other.
LEMMA WriteSlot ==
  ASSUME NEW n \in Nat, NEW r \in Nat, NEW p \in Nat, NEW w \in Nat,
         r < n, p < n, w < n,
         p = r + 1 + w \/ p + n = r + 1 + w \/ p + n + n = r + 1 + w
  PROVE  /\ Wrapped(r, w + 1, n) = p
         /\ \A i \in 1 .. w : Wrapped(r, i, n) # p
<1>1. Wrapped(r, w + 1, n) = p
  BY SMT DEF Wrapped
<1>2. ASSUME NEW i \in Nat, 1 <= i, i <= w PROVE Wrapped(r, i, n) # p
  BY <1>2, SMT DEF Wrapped
<1> QED BY <1>1, <1>2

\* Moving the read pointer back and forth.
LEMMA ReadSlot ==
  ASSUME NEW n \in Nat, NEW r \in Nat, 0 < n, r < n
  PROVE  /\ Wrapped(IF r = 0 THEN n - 1 ELSE r - 1, 1, n) = r
         /\ Wrapped(r, 1, n) = IF r + 1 >= n THEN 0 ELSE r + 1
         /\ \A i \in Nat : 1 <= i /\ i < n =>
              /\ Wrapped(IF r = 0 THEN n - 1 ELSE r - 1, i + 1, n) = Wrapped(r, i, n)
              /\ Wrapped(IF r + 1 >= n THEN 0 ELSE r + 1, i, n) = Wrapped(r, i + 1, n)
              /\ Wrapped(r, i, n) # r
<1>1. Wrapped(IF r = 0 THEN n - 1 ELSE r - 1, 1, n) = r
  BY SMT DEF Wrapped
<1>2. Wrapped(r, 1, n) = IF r + 1 >= n THEN 0 ELSE r + 1
  BY SMT DEF Wrapped
<1>3. ASSUME NEW i \in Nat, 1 <= i, i < n
      PROVE  /\ Wrapped(IF r = 0 THEN n - 1 ELSE r - 1, i + 1, n) = Wrapped(r, i, n)
             /\ Wrapped(IF r + 1 >= n THEN 0 ELSE r + 1, i, n) = Wrapped(r, i + 1, n)
             /\ Wrapped(r, i, n) # r
  <2>1. CASE r = 0 BY <1>3, <2>1, SMT DEF Wrapped
  <2>2. CASE r # 0 BY <1>3, <2>2, SMT DEF Wrapped
  <2> QED BY <2>1, <2>2
<1> QED BY <1>1, <1>2, <1>3

\* The message of position i.
LEMMA Slot ==
  ASSUME NEW n \in Lengths, NEW s \in Queue_t(n), NEW i \in 1 .. s.uxMessagesWaiting
  PROVE  /\ MessagesOf(s)[i] = s.storage[Wrapped(s.pcReadFrom, i, n)]
         /\ Wrapped(s.pcReadFrom, i, n) \in 0 .. n - 1
<1>0. /\ n \in Nat /\ 0 < n
      /\ s.uxMessagesWaiting \in Nat /\ s.uxMessagesWaiting <= n
      /\ s.pcReadFrom \in Nat /\ s.pcReadFrom < n
  BY Fields
<1>1. i \in Nat /\ i <= n
  BY <1>0, SMT
<1>2. (s.pcReadFrom + i) % n = Wrapped(s.pcReadFrom, i, n) /\ Wrapped(s.pcReadFrom, i, n) \in 0 .. n - 1
  BY <1>0, <1>1, Wraps
<1>3. MessagesOf(s)[i] = s.storage[(s.pcReadFrom + i) % n]
  BY MessagesSeq
<1> QED BY <1>2, <1>3

LEMMA ToBack ==
  ASSUME NEW n \in Lengths, NEW s \in Queue_t(n), NEW v \in Values,
         s.uxMessagesWaiting < n, Ring(s)
  PROVE  MessagesOf(prvCopyDataToQueue(s, v, "back")) = Append(MessagesOf(s), v)
<1> DEFINE u == prvCopyDataToQueue(s, v, "back")
           w == s.uxMessagesWaiting
           a == MessagesOf(s)
           b == MessagesOf(u)
<1>0. /\ n \in Nat /\ 0 < n /\ s.uxLength = n /\ s.storage \in [0 .. n - 1 -> Values]
      /\ w \in Nat /\ w < n
      /\ s.pcWriteTo \in Nat /\ s.pcWriteTo < n
      /\ s.pcReadFrom \in Nat /\ s.pcReadFrom < n
  BY Fields
<1>1. /\ u.storage = [s.storage EXCEPT ![s.pcWriteTo] = v]
      /\ u.pcReadFrom = s.pcReadFrom /\ u.uxMessagesWaiting = w + 1
  BY DEF prvCopyDataToQueue, Queue_t
<1>2. u \in Queue_t(n)
  BY CopyTo
<1> HIDE DEF u
<1>3. /\ a \in Seq(Values) /\ Len(a) = w /\ b \in Seq(Values) /\ Len(b) = w + 1
  BY <1>1, <1>2, MessagesSeq
<1>S. /\ \A i \in 1 .. w + 1 : /\ b[i] = u.storage[Wrapped(s.pcReadFrom, i, n)]
                               /\ Wrapped(s.pcReadFrom, i, n) \in 0 .. n - 1
      /\ \A i \in 1 .. w : a[i] = s.storage[Wrapped(s.pcReadFrom, i, n)]
  <2>1. \A i \in 1 .. u.uxMessagesWaiting : /\ b[i] = u.storage[Wrapped(u.pcReadFrom, i, n)]
                                            /\ Wrapped(u.pcReadFrom, i, n) \in 0 .. n - 1
    BY <1>2, Slot
  <2> QED BY <1>1, <2>1, Slot
<1>W. /\ Wrapped(s.pcReadFrom, w + 1, n) = s.pcWriteTo
      /\ \A i \in 1 .. w : Wrapped(s.pcReadFrom, i, n) # s.pcWriteTo
  <2>1. \/ s.pcWriteTo = s.pcReadFrom + 1 + w
        \/ s.pcWriteTo + n = s.pcReadFrom + 1 + w
        \/ s.pcWriteTo + n + n = s.pcReadFrom + 1 + w
    BY <1>0 DEF Ring
  <2> HIDE DEF w
  <2> QED BY <1>0, <2>1, WriteSlot
<1> HIDE DEF a, b, w
<1>4. /\ Append(a, v) \in Seq(Values) /\ Len(Append(a, v)) = w + 1
      /\ \A i \in 1 .. w : Append(a, v)[i] = a[i]
      /\ Append(a, v)[w + 1] = v
  BY <1>3, AppendProperties
<1>5. ASSUME NEW i \in 1 .. w + 1 PROVE b[i] = Append(a, v)[i]
  <2> DEFINE x == Wrapped(s.pcReadFrom, i, n)
  <2>1. b[i] = u.storage[x] /\ x \in 0 .. n - 1
    BY <1>S
  <2>2. CASE i \in 1 .. w
    <3>1. a[i] = s.storage[x] /\ x # s.pcWriteTo
      BY <1>S, <1>W, <2>2
    <3> HIDE DEF x
    <3> QED BY <1>0, <1>1, <1>4, <2>1, <2>2, <3>1
  <2>3. CASE i = w + 1
    <3>1. x = s.pcWriteTo
      BY <1>W, <2>3
    <3> HIDE DEF x
    <3> QED BY <1>0, <1>1, <1>4, <2>1, <2>3, <3>1
  <2>4. i \in 1 .. w \/ i = w + 1
    BY <1>0, SMT
  <2> QED BY <2>2, <2>3, <2>4
<1>6. b = Append(a, v)
  BY <1>3, <1>4, <1>5, SeqEqual
<1> QED BY <1>6 DEF a, b, u

\* A message sent to the front is where the next read looks; the others stay behind it.
LEMMA ToFront ==
  ASSUME NEW n \in Lengths, NEW s \in Queue_t(n), NEW v \in Values, s.uxMessagesWaiting < n
  PROVE  MessagesOf(prvCopyDataToQueue(s, v, "front")) = <<v>> \o MessagesOf(s)
<1> DEFINE u == prvCopyDataToQueue(s, v, "front")
           w == s.uxMessagesWaiting
           r == s.pcReadFrom
           a == MessagesOf(s)
           b == MessagesOf(u)
           c == <<v>> \o a
<1>0. /\ n \in Nat /\ 0 < n /\ s.uxLength = n /\ s.storage \in [0 .. n - 1 -> Values]
      /\ w \in Nat /\ w < n /\ r \in Nat /\ r < n
  BY Fields
<1>1. /\ u.storage = [s.storage EXCEPT ![r] = v]
      /\ u.pcReadFrom = (IF r = 0 THEN n - 1 ELSE r - 1) /\ u.uxMessagesWaiting = w + 1
  BY <1>0 DEF prvCopyDataToQueue, Queue_t, Back
<1>2. u \in Queue_t(n)
  BY CopyTo
<1> HIDE DEF u
<1>3. /\ a \in Seq(Values) /\ Len(a) = w /\ b \in Seq(Values) /\ Len(b) = w + 1
  BY <1>1, <1>2, MessagesSeq
<1>S. /\ \A i \in 1 .. w + 1 :
           b[i] = u.storage[Wrapped(IF r = 0 THEN n - 1 ELSE r - 1, i, n)]
      /\ \A i \in 1 .. w : a[i] = s.storage[Wrapped(r, i, n)] /\ Wrapped(r, i, n) \in 0 .. n - 1
  <2>1. \A i \in 1 .. u.uxMessagesWaiting : b[i] = u.storage[Wrapped(u.pcReadFrom, i, n)]
    BY <1>2, Slot
  <2>2. \A i \in 1 .. w + 1 : b[i] = u.storage[Wrapped(u.pcReadFrom, i, n)]
    BY <1>1, <2>1
  <2> QED BY <1>1, <2>2, Slot
<1> HIDE DEF a, b, w, r
<1>4. /\ c \in Seq(Values) /\ Len(c) = w + 1
      /\ \A i \in 1 .. w + 1 : c[i] = IF i <= 1 THEN v ELSE a[i - 1]
  <2>1. <<v>> \in Seq(Values) /\ Len(<<v>>) = 1 /\ <<v>>[1] = v
    OBVIOUS
  <2>2. /\ c \in Seq(Values) /\ Len(c) = 1 + w
        /\ \A i \in 1 .. 1 + w : c[i] = IF i <= 1 THEN <<v>>[i] ELSE a[i - 1]
    BY <1>3, <2>1, ConcatProperties
  <2> HIDE DEF c
  <2>3. 1 + w = w + 1
    BY <1>0, SMT
  <2>4. \A i \in 1 .. w + 1 : i <= 1 => i = 1
    BY <1>0, SMT
  <2> QED BY <2>1, <2>2, <2>3, <2>4
<1> HIDE DEF c
<1>5. ASSUME NEW i \in 1 .. w + 1 PROVE b[i] = c[i]
  <2>1. CASE i = 1
    <3>1. b[1] = u.storage[r]
      BY <1>0, <1>S, <2>1, ReadSlot
    <3>2. r \in 0 .. n - 1
      BY <1>0, SMT
    <3> QED BY <1>0, <1>1, <1>4, <2>1, <3>1, <3>2
  <2>2. CASE i # 1
    <3> DEFINE j == i - 1
    <3>1. j \in Nat /\ 1 <= j /\ j < n /\ i = j + 1 /\ j \in 1 .. w /\ ~(i <= 1)
      BY <1>0, <2>2, SMT
    <3>2. c[i] = a[j]
      BY <1>4, <3>1
    <3> HIDE DEF j
    <3>3. /\ Wrapped(IF r = 0 THEN n - 1 ELSE r - 1, i, n) = Wrapped(r, j, n)
          /\ Wrapped(r, j, n) # r
      BY <1>0, <3>1, ReadSlot
    <3>4. /\ b[i] = u.storage[Wrapped(r, j, n)]
          /\ a[j] = s.storage[Wrapped(r, j, n)] /\ Wrapped(r, j, n) \in 0 .. n - 1
      BY <1>S, <3>1, <3>3
    <3> QED BY <1>0, <1>1, <3>2, <3>3, <3>4
  <2> QED BY <2>1, <2>2
<1>6. b = c
  BY <1>3, <1>4, <1>5, SeqEqual
<1> QED BY <1>6 DEF a, b, c, u

\* A queue of length 1 that is overwritten holds the new message.
LEMMA OverTheOld ==
  ASSUME NEW n \in Lengths, NEW s \in Queue_t(n), NEW v \in Values, n = 1
  PROVE  MessagesOf(prvCopyDataToQueue(s, v, "overwrite")) = <<v>>
<1> DEFINE u == prvCopyDataToQueue(s, v, "overwrite")
           b == MessagesOf(u)
<1>0. /\ s.uxLength = 1 /\ s.storage \in [0 .. 0 -> Values]
      /\ s.uxMessagesWaiting \in {0, 1} /\ s.pcReadFrom = 0
  <2>1. /\ s.uxLength = n /\ s.storage \in [0 .. n - 1 -> Values]
        /\ s.uxMessagesWaiting \in Nat /\ s.uxMessagesWaiting <= n
        /\ s.pcReadFrom \in Nat /\ s.pcReadFrom < n
    BY Fields
  <2> QED BY <2>1, SMT
<1>1. /\ u.storage = [s.storage EXCEPT ![0] = v]
      /\ u.pcReadFrom = 0 /\ u.uxMessagesWaiting = 1
  BY <1>0, SMT DEF prvCopyDataToQueue, Queue_t, Back
<1>2. u \in Queue_t(n)
  BY CopyTo
<1> HIDE DEF u
<1>3. b \in Seq(Values) /\ Len(b) = 1
  BY <1>1, <1>2, MessagesSeq
<1>4. b[1] = u.storage[Wrapped(0, 1, 1)]
  <2>1. 1 \in 1 .. u.uxMessagesWaiting
    BY <1>1
  <2>2. b[1] = u.storage[Wrapped(u.pcReadFrom, 1, n)]
    BY <1>2, <2>1, Slot
  <2> QED BY <1>1, <2>2
<1>5. Wrapped(0, 1, 1) = 0
  BY SMT DEF Wrapped
<1>6. b[1] = v
  BY <1>0, <1>1, <1>4, <1>5
<1> HIDE DEF b
<1>7. b = <<v>>
  <2>1. <<v>> \in Seq(Values) /\ Len(<<v>>) = 1 /\ <<v>>[1] = v
    OBVIOUS
  <2>2. \A i \in 1 .. Len(b) : b[i] = <<v>>[i]
    BY <1>3, <1>6, <2>1
  <2> QED BY <1>3, <2>1, <2>2, SeqEqual
<1> QED BY <1>7 DEF b, u

\* A reader gets the head of the queue, and a receive leaves the tail.
LEMMA FromHead ==
  ASSUME NEW n \in Lengths, NEW s \in Queue_t(n), s.uxMessagesWaiting > 0
  PROVE  /\ MessagesOf(s) # <<>>
         /\ NextMessage(s) = Head(MessagesOf(s))
         /\ MessagesOf(Received(s)) = Tail(MessagesOf(s))
<1> DEFINE u == Received(s)
           w == s.uxMessagesWaiting
           r == s.pcReadFrom
           a == MessagesOf(s)
           b == MessagesOf(u)
<1>0. /\ n \in Nat /\ 0 < n /\ s.uxLength = n /\ s.storage \in [0 .. n - 1 -> Values]
      /\ w \in Nat /\ w > 0 /\ w <= n /\ r \in Nat /\ r < n
  BY Fields
<1>1. /\ u.storage = s.storage
      /\ u.pcReadFrom = (IF r + 1 >= n THEN 0 ELSE r + 1) /\ u.uxMessagesWaiting = w - 1
  BY <1>0 DEF Received, Queue_t, Forward
<1>2. u \in Queue_t(n)
  BY CopyFrom
<1>N. NextMessage(s) = s.storage[IF r + 1 >= n THEN 0 ELSE r + 1]
  BY <1>0 DEF NextMessage, Forward
<1> HIDE DEF u
<1>3. /\ a \in Seq(Values) /\ Len(a) = w /\ b \in Seq(Values) /\ Len(b) = w - 1
  BY <1>1, <1>2, MessagesSeq
<1>S. /\ \A i \in 1 .. w - 1 : b[i] = s.storage[Wrapped(IF r + 1 >= n THEN 0 ELSE r + 1, i, n)]
      /\ \A i \in 1 .. w : a[i] = s.storage[Wrapped(r, i, n)]
  <2>1. \A i \in 1 .. u.uxMessagesWaiting : b[i] = u.storage[Wrapped(u.pcReadFrom, i, n)]
    BY <1>2, Slot
  <2>2. \A i \in 1 .. w - 1 : b[i] = u.storage[Wrapped(u.pcReadFrom, i, n)]
    BY <1>1, <2>1
  <2> QED BY <1>1, <2>2, Slot
<1> HIDE DEF a, b, w, r
<1>4. a # <<>>
  BY <1>0, <1>3, SMT
<1>5. NextMessage(s) = Head(a)
  <2>1. 1 \in 1 .. w
    BY <1>0, SMT
  <2>2. a[1] = s.storage[IF r + 1 >= n THEN 0 ELSE r + 1]
    BY <1>0, <1>S, <2>1, ReadSlot
  <2>3. Head(a) = a[1]
    BY <1>3, <1>4
  <2> QED BY <1>N, <2>2, <2>3
<1>6. /\ Tail(a) \in Seq(Values) /\ Len(Tail(a)) = w - 1
      /\ \A i \in 1 .. w - 1 : Tail(a)[i] = a[i + 1]
  BY <1>3, <1>4, HeadTailProperties
<1>7. ASSUME NEW i \in 1 .. w - 1 PROVE b[i] = Tail(a)[i]
  <2>1. i \in Nat /\ 1 <= i /\ i < n /\ i + 1 \in 1 .. w
    BY <1>0, SMT
  <2>2. a[i + 1] = s.storage[Wrapped(r, i + 1, n)]
    BY <1>S, <2>1
  <2>3. Wrapped(IF r + 1 >= n THEN 0 ELSE r + 1, i, n) = Wrapped(r, i + 1, n)
    BY <1>0, <2>1, ReadSlot
  <2>4. b[i] = s.storage[Wrapped(IF r + 1 >= n THEN 0 ELSE r + 1, i, n)]
    BY <1>S
  <2> QED BY <1>6, <2>2, <2>3, <2>4
<1>8. b = Tail(a)
  BY <1>3, <1>6, <1>7, SeqEqual
<1> QED BY <1>4, <1>5, <1>8 DEF a, b, u

\* Nothing but the lists or the locks changes.
LEMMA Kept ==
  ASSUME NEW s, NEW u, SameBuffer(s, u)
  PROVE  MessagesOf(u) = MessagesOf(s) /\ (Ring(s) => Ring(u))
BY DEF SameBuffer, MessagesOf, Ring

\* A step of a queue of length n.
GoodStep(n, s, u, pv, pvNew) ==
  /\ u \in Queue_t(n) /\ Ring(u) /\ pvNew \in Values
  /\ \/ /\ pvNew = pv
        /\ \/ MessagesOf(u) = MessagesOf(s)
           \/ \E v \in Values :
                \/ Len(MessagesOf(s)) < n /\ MessagesOf(u) = Append(MessagesOf(s), v)
                \/ Len(MessagesOf(s)) < n /\ MessagesOf(u) = <<v>> \o MessagesOf(s)
                \/ n = 1 /\ MessagesOf(u) = <<v>>
     \/ /\ MessagesOf(s) # <<>> /\ pvNew = Head(MessagesOf(s))
        /\ MessagesOf(u) \in {MessagesOf(s), Tail(MessagesOf(s))}

LEMMA SendStep ==
  ASSUME NEW n \in Lengths, NEW s \in Queue_t(n), Ring(s), NEW v \in Values,
         NEW o \in Sends, NEW position \in Positions(o), HasRoom(s, o),
         o = "overwrite" => n = 1, NEW u \in Queue_t(n),
         SameBuffer(prvCopyDataToQueue(s, v, position), u), NEW pv \in Values
  PROVE  /\ GoodStep(n, s, u, pv, pv)
         /\ \/ s.uxMessagesWaiting < n /\ u.uxMessagesWaiting = s.uxMessagesWaiting + 1
            \/ s.uxMessagesWaiting = n /\ u.uxMessagesWaiting = n
<1> DEFINE c == prvCopyDataToQueue(s, v, position)
<1>0. n \in Nat /\ s.uxLength = n /\ s.uxMessagesWaiting \in Nat /\ s.uxMessagesWaiting <= n
  BY Fields
<1>1. /\ position \in {"back", "front", "overwrite"}
      /\ position = "overwrite" => n = 1
      /\ s.uxMessagesWaiting < n \/ position = "overwrite"
  BY <1>0 DEF Sends, Positions, HasRoom
<1>2. /\ c \in Queue_t(n) /\ Ring(c)
      /\ \/ c.uxMessagesWaiting = s.uxMessagesWaiting + 1
         \/ s.uxMessagesWaiting = 1 /\ n = 1 /\ c.uxMessagesWaiting = 1
  BY <1>1, CopyTo
<1>3. Ring(u) /\ MessagesOf(u) = MessagesOf(c) /\ u.uxMessagesWaiting = c.uxMessagesWaiting
  BY <1>2, Kept DEF SameBuffer
<1>4. Len(MessagesOf(s)) = s.uxMessagesWaiting
  BY MessagesSeq
<1>5. ASSUME position = "back" PROVE GoodStep(n, s, u, pv, pv)
  <2>1. s.uxMessagesWaiting < n
    BY <1>1, <1>5
  <2>2. MessagesOf(u) = Append(MessagesOf(s), v)
    BY <1>3, <1>5, <2>1, ToBack
  <2> QED BY <1>3, <1>4, <2>1, <2>2 DEF GoodStep
<1>6. ASSUME position = "front" PROVE GoodStep(n, s, u, pv, pv)
  <2>1. s.uxMessagesWaiting < n
    BY <1>1, <1>6
  <2>2. MessagesOf(u) = <<v>> \o MessagesOf(s)
    BY <1>3, <1>6, <2>1, ToFront
  <2> QED BY <1>3, <1>4, <2>1, <2>2 DEF GoodStep
<1>7. ASSUME position = "overwrite" PROVE GoodStep(n, s, u, pv, pv)
  <2>1. n = 1
    BY <1>1, <1>7
  <2>2. MessagesOf(u) = <<v>>
    BY <1>3, <1>7, <2>1, OverTheOld
  <2> QED BY <1>3, <2>1, <2>2 DEF GoodStep
<1>8. u.uxMessagesWaiting \in Nat /\ u.uxMessagesWaiting <= n
  BY Fields
<1> HIDE DEF c
<1>9. \/ s.uxMessagesWaiting < n /\ u.uxMessagesWaiting = s.uxMessagesWaiting + 1
      \/ s.uxMessagesWaiting = n /\ u.uxMessagesWaiting = n
  BY <1>0, <1>2, <1>3, <1>8, SMT
<1> QED BY <1>1, <1>5, <1>6, <1>7, <1>9

LEMMA ReceiveStep ==
  ASSUME NEW n \in Lengths, NEW s \in Queue_t(n), Ring(s), s.uxMessagesWaiting > 0,
         NEW u \in Queue_t(n), SameBuffer(Received(s), u), NEW pv
  PROVE  GoodStep(n, s, u, pv, NextMessage(s))
<1>1. Ring(Received(s)) /\ NextMessage(s) \in Values
  BY CopyFrom
<1>2. Ring(u) /\ MessagesOf(u) = MessagesOf(Received(s))
  BY <1>1, Kept
<1> QED BY <1>1, <1>2, FromHead DEF GoodStep

LEMMA PeekStep ==
  ASSUME NEW n \in Lengths, NEW s \in Queue_t(n), Ring(s), s.uxMessagesWaiting > 0,
         NEW u \in Queue_t(n), SameBuffer(s, u), NEW pv
  PROVE  GoodStep(n, s, u, pv, NextMessage(s))
<1>1. NextMessage(s) \in Values
  BY CopyFrom
<1>2. Ring(u) /\ MessagesOf(u) = MessagesOf(s)
  BY Kept
<1> QED BY <1>1, <1>2, FromHead DEF GoodStep

LEMMA QuietStep ==
  ASSUME NEW n \in Lengths, NEW s \in Queue_t(n), Ring(s),
         NEW u \in Queue_t(n), SameBuffer(s, u), NEW pv \in Values
  PROVE  GoodStep(n, s, u, pv, pv)
<1>1. Ring(u) /\ MessagesOf(u) = MessagesOf(s)
  BY Kept
<1> QED BY <1>1 DEF GoodStep

-----------------------------------------------------------------------------
\* The invariant: the queue is locked exactly while a task has suspended the
\* scheduler, between prvLockQueue and the two halves of prvUnlockQueue.

Locked == {"check", "place", "unlockTx", "unlockRx", "resume"}

LockInv ==
  /\ \A t \in Tasks : pc[t] \in Locked <=> sched = t
  /\ sched = NoTask => q.cTxLock = -1 /\ q.cRxLock = -1
  /\ \A t \in Tasks :
       /\ pc[t] \in {"check", "place", "unlockTx"} => q.cTxLock >= 0
       /\ pc[t] \in {"unlockRx", "resume"} => q.cTxLock = -1
       /\ pc[t] \in {"check", "place", "unlockTx", "unlockRx"} => q.cRxLock >= 0
       /\ pc[t] = "resume" => q.cRxLock = -1

OpInv ==
  \A t \in Tasks : /\ op[t] = "overwrite" => q.uxLength = 1
                   /\ pc[t] # "out" => op[t] \in Sends \cup Reads

BufferInv == QueueTypeOK /\ Ring(q) /\ LockInv /\ OpInv

\* A send of v with function o to a position of a queue of length n that has room.
Sending(n, o, v, position) ==
  /\ q \in Queue_t(n) /\ Ring(q) /\ pvBuffer \in Values
  /\ o \in Sends /\ v \in Values /\ position \in Positions(o)
  /\ o = "overwrite" => n = 1
  /\ HasRoom(q, o)

\* What a send or a receive does to the queue, and the fields that it leaves alone.
LEMMA SendFacts ==
  ASSUME NEW n \in Lengths, NEW o, NEW v, NEW position, Sending(n, o, v, position), NEW c,
         c = prvCopyDataToQueue(q, v, position)
  PROVE  /\ c \in Queue_t(n) /\ SameLists(q, c)
         /\ \A u \in Queue_t(n) : SameBuffer(c, u) =>
              /\ GoodStep(n, q, u, pvBuffer, pvBuffer)
              /\ \/ q.uxMessagesWaiting < n /\ u.uxMessagesWaiting = q.uxMessagesWaiting + 1
                 \/ q.uxMessagesWaiting = n /\ u.uxMessagesWaiting = n
<1> USE DEF Sending
<1>0. q.uxLength = n /\ q.uxMessagesWaiting \in Nat /\ n \in Nat
  BY Fields
<1>1. /\ position \in {"back", "front", "overwrite"}
      /\ position = "overwrite" => n = 1
      /\ q.uxMessagesWaiting < n \/ position = "overwrite"
  BY <1>0 DEF Sends, Positions, HasRoom
<1>2. c \in Queue_t(n) /\ SameLists(q, c)
  BY <1>1, CopyTo
<1>3. ASSUME NEW u \in Queue_t(n), SameBuffer(c, u)
      PROVE  /\ GoodStep(n, q, u, pvBuffer, pvBuffer)
             /\ \/ q.uxMessagesWaiting < n /\ u.uxMessagesWaiting = q.uxMessagesWaiting + 1
                \/ q.uxMessagesWaiting = n /\ u.uxMessagesWaiting = n
  BY <1>3, SendStep
<1> QED BY <1>2, <1>3

LEMMA SendEffect ==
  ASSUME NEW n \in Lengths, NEW o, NEW v, NEW position, Sending(n, o, v, position),
         q' \in WakeReceivers(prvCopyDataToQueue(q, v, position), 1)
  PROVE  /\ GoodStep(n, q, q', pvBuffer, pvBuffer)
         /\ q'.cRxLock = q.cRxLock /\ q'.cTxLock = q.cTxLock /\ q'.toSend = q.toSend
         /\ q'.toReceive \subseteq q.toReceive
         /\ q'.toReceive = {} \/ Cardinality(q.toReceive \ q'.toReceive) = 1
         /\ \/ q.uxMessagesWaiting < n /\ q'.uxMessagesWaiting = q.uxMessagesWaiting + 1
            \/ q.uxMessagesWaiting = n /\ q'.uxMessagesWaiting = n
<1>1. PICK c : c = prvCopyDataToQueue(q, v, position)
  OBVIOUS
<1>2. /\ c \in Queue_t(n) /\ SameLists(q, c)
      /\ \A w \in Queue_t(n) : SameBuffer(c, w) =>
           /\ GoodStep(n, q, w, pvBuffer, pvBuffer)
           /\ \/ q.uxMessagesWaiting < n /\ w.uxMessagesWaiting = q.uxMessagesWaiting + 1
              \/ q.uxMessagesWaiting = n /\ w.uxMessagesWaiting = n
  BY <1>1, SendFacts
<1>3. q' \in WakeReceivers(c, 1)
  BY <1>1
<1>4. /\ q' \in Queue_t(n) /\ SameBuffer(c, q')
      /\ q'.cRxLock = c.cRxLock /\ q'.cTxLock = c.cTxLock /\ q'.toSend = c.toSend
      /\ q'.toReceive \subseteq c.toReceive
      /\ q'.toReceive = {} \/ Cardinality(c.toReceive \ q'.toReceive) = 1
  BY ONLY n \in Lengths, <1>2, <1>3, OneOfReceivers
<1> QED BY <1>2, <1>4 DEF SameLists

LEMMA SendCounted ==
  ASSUME NEW n \in Lengths, NEW o, NEW v, NEW position, Sending(n, o, v, position),
         q' = [prvCopyDataToQueue(q, v, position) EXCEPT !.cTxLock = Increment(@)]
  PROVE  /\ GoodStep(n, q, q', pvBuffer, pvBuffer)
         /\ q'.cTxLock = Increment(q.cTxLock) /\ q'.cRxLock = q.cRxLock
         /\ q'.toSend = q.toSend /\ q'.toReceive = q.toReceive
         /\ \/ q.uxMessagesWaiting < n /\ q'.uxMessagesWaiting = q.uxMessagesWaiting + 1
            \/ q.uxMessagesWaiting = n /\ q'.uxMessagesWaiting = n
<1>1. PICK c : c = prvCopyDataToQueue(q, v, position)
  OBVIOUS
<1>2. /\ c \in Queue_t(n) /\ SameLists(q, c)
      /\ \A w \in Queue_t(n) : SameBuffer(c, w) =>
           /\ GoodStep(n, q, w, pvBuffer, pvBuffer)
           /\ \/ q.uxMessagesWaiting < n /\ w.uxMessagesWaiting = q.uxMessagesWaiting + 1
              \/ q.uxMessagesWaiting = n /\ w.uxMessagesWaiting = n
  BY <1>1, SendFacts
<1>3. q' = [c EXCEPT !.cTxLock = Increment(c.cTxLock)]
  BY <1>1, <1>2 DEF Queue_t
<1>4. c.cTxLock \in Int /\ -1 <= c.cTxLock /\ c.cTxLock <= Cardinality(Tasks)
  BY <1>2, Fields
<1>5. Increment(c.cTxLock) \in queueUNLOCKED .. Cardinality(Tasks)
  BY <1>4, TaskCount, SMT DEF Increment, queueUNLOCKED
<1>6. q' \in Queue_t(n) /\ SameBuffer(c, q')
  BY <1>2, <1>3, <1>5 DEF Queue_t, SameBuffer
<1>7. /\ q'.cTxLock = Increment(c.cTxLock) /\ q'.cRxLock = c.cRxLock
      /\ q'.toSend = c.toSend /\ q'.toReceive = c.toReceive
  BY <1>2, <1>3 DEF Queue_t
<1> QED BY <1>2, <1>6, <1>7 DEF SameLists

LEMMA ReceiveEffect ==
  ASSUME NEW n \in Lengths, q \in Queue_t(n), Ring(q), q.uxMessagesWaiting > 0,
         q' \in WakeSenders(Received(q), 1)
  PROVE  /\ GoodStep(n, q, q', pvBuffer, NextMessage(q))
         /\ q'.cRxLock = q.cRxLock /\ q'.cTxLock = q.cTxLock /\ q'.toReceive = q.toReceive
         /\ q'.toSend \subseteq q.toSend
         /\ q'.toSend = {} \/ Cardinality(q.toSend \ q'.toSend) = 1
         /\ q'.uxMessagesWaiting = q.uxMessagesWaiting - 1
<1>1. PICK c : c = Received(q)
  OBVIOUS
<1>2. c \in Queue_t(n) /\ SameLists(q, c) /\ c.uxMessagesWaiting = q.uxMessagesWaiting - 1
  BY <1>1, CopyFrom
<1>3. q' \in WakeSenders(c, 1)
  BY <1>1
<1>4. /\ q' \in Queue_t(n) /\ SameBuffer(c, q')
      /\ q'.cRxLock = c.cRxLock /\ q'.cTxLock = c.cTxLock /\ q'.toReceive = c.toReceive
      /\ q'.toSend \subseteq c.toSend
      /\ q'.toSend = {} \/ Cardinality(c.toSend \ q'.toSend) = 1
  BY ONLY n \in Lengths, <1>2, <1>3, OneOfSenders
<1>5. GoodStep(n, q, q', pvBuffer, NextMessage(q))
  BY <1>1, <1>4, ReceiveStep
<1> QED BY <1>2, <1>4, <1>5 DEF SameLists, SameBuffer

LEMMA ReceiveCounted ==
  ASSUME NEW n \in Lengths, q \in Queue_t(n), Ring(q), q.uxMessagesWaiting > 0,
         q' = [Received(q) EXCEPT !.cRxLock = Increment(@)]
  PROVE  /\ GoodStep(n, q, q', pvBuffer, NextMessage(q))
         /\ q'.cRxLock = Increment(q.cRxLock) /\ q'.cTxLock = q.cTxLock
         /\ q'.toSend = q.toSend /\ q'.toReceive = q.toReceive
         /\ q'.uxMessagesWaiting = q.uxMessagesWaiting - 1
<1>1. PICK c : c = Received(q)
  OBVIOUS
<1>2. c \in Queue_t(n) /\ SameLists(q, c) /\ c.uxMessagesWaiting = q.uxMessagesWaiting - 1
  BY <1>1, CopyFrom
<1>3. q' = [c EXCEPT !.cRxLock = Increment(c.cRxLock)]
  BY <1>1, <1>2 DEF Queue_t
<1>4. c.cRxLock \in Int /\ -1 <= c.cRxLock /\ c.cRxLock <= Cardinality(Tasks)
  BY <1>2, Fields
<1>5. Increment(c.cRxLock) \in queueUNLOCKED .. Cardinality(Tasks)
  BY <1>4, TaskCount, SMT DEF Increment, queueUNLOCKED
<1>6. q' \in Queue_t(n) /\ SameBuffer(c, q')
  BY <1>2, <1>3, <1>5 DEF Queue_t, SameBuffer
<1>7. /\ q'.cRxLock = Increment(c.cRxLock) /\ q'.cTxLock = c.cTxLock
      /\ q'.toSend = c.toSend /\ q'.toReceive = c.toReceive
  BY <1>2, <1>3 DEF Queue_t
<1>8. GoodStep(n, q, q', pvBuffer, NextMessage(q))
  BY <1>1, <1>6, ReceiveStep
<1> QED BY <1>2, <1>6, <1>7, <1>8 DEF SameLists, SameBuffer

\* Who runs: outside the locked part nobody has suspended the scheduler.
LEMMA WhoRuns ==
  ASSUME BufferInv, NEW t \in Tasks, NEW x, At(t, x)
  PROVE  /\ pc[t] = x
         /\ x \in Locked => sched = t
         /\ x \notin Locked => /\ sched = NoTask /\ t \notin q.toSend \cup q.toReceive
                               /\ q.cTxLock = -1 /\ q.cRxLock = -1
<1>1. t # NoTask
  BY QueueAssumption
<1> QED BY <1>1 DEF At, Runs, BufferInv, LockInv

\* The control part of a step that leaves the locks alone and keeps t outside or
\* inside the locked part.
LEMMA ControlStays ==
  ASSUME BufferInv, NEW n \in Lengths, q \in Queue_t(n), q' \in Queue_t(n), Ring(q'),
         pvBuffer' \in Values, sched' = sched, q'.cTxLock = q.cTxLock, q'.cRxLock = q.cRxLock,
         NEW t \in Tasks, sched = NoTask, pc[t] \notin Locked,
         GoTo(t, "try") \/ GoTo(t, "suspend") \/ Return(t)
           \/ (/\ \E x \in {"some", "max"} : ticks' = [ticks EXCEPT ![t] = x]
               /\ pc' = [pc EXCEPT ![t] = "suspend"]
               /\ UNCHANGED <<op, expired>>),
         pc[t] # "out"
  PROVE  BufferInv'
<1>0. q.uxLength = n /\ q'.uxLength = n
  BY DEF Queue_t
<1>1. QueueTypeOK'
  BY DEF BufferInv, QueueTypeOK, GoTo, Return, Sends, Reads
<1>2. \E x \in {"try", "suspend", "out"} : pc' = [pc EXCEPT ![t] = x]
  BY DEF GoTo, Return
<1>3. LockInv'
  BY <1>2 DEF BufferInv, LockInv, Locked, QueueTypeOK
<1>4. OpInv'
  BY <1>0 DEF BufferInv, OpInv, GoTo, Return, QueueTypeOK
<1> QED BY <1>1, <1>3, <1>4 DEF BufferInv

LEMMA FailsStep ==
  ASSUME BufferInv, NEW n \in Lengths, q \in Queue_t(n), NEW t \in Tasks,
         sched = NoTask, pc[t] = "try", Fails(t), sched' = sched
  PROVE  GoodStep(n, q, q', pvBuffer, pvBuffer') /\ BufferInv'
<1>1. q' = q /\ pvBuffer' = pvBuffer /\ Ring(q) /\ pvBuffer \in Values
  BY DEF Fails, BufferInv, QueueTypeOK
<1>2. GoodStep(n, q, q', pvBuffer, pvBuffer')
  BY <1>1, QuietStep DEF SameBuffer
<1>3. pc[t] \notin Locked /\ pc[t] # "out"
  BY DEF Locked
<1>4. CASE Return(t) \/ GoTo(t, "suspend")
  BY <1>1, <1>2, <1>3, <1>4, ControlStays
<1>5. CASE /\ ticks' \in {[ticks EXCEPT ![t] = x] : x \in {"some", "max"}}
           /\ pc' = [pc EXCEPT ![t] = "suspend"]
           /\ UNCHANGED <<op, expired>>
  BY <1>1, <1>2, <1>3, <1>5, ControlStays
<1> QED BY <1>4, <1>5 DEF Fails

\* Every step keeps the invariant and is a step of the FIFO, or none.
LEMMA BufferNext ==
  ASSUME BufferInv, NEW n \in Lengths, q \in Queue_t(n), [Next]_vars
  PROVE  GoodStep(n, q, q', pvBuffer, pvBuffer') /\ BufferInv'
<1> USE DEF BufferInv
<1>0. /\ Ring(q) /\ pvBuffer \in Values /\ q.uxLength = n /\ QueueTypeOK
      /\ q.cTxLock \in Int /\ -1 <= q.cTxLock /\ q.cRxLock \in Int /\ -1 <= q.cRxLock
  BY Fields DEF QueueTypeOK
<1>Q. ASSUME q' \in Queue_t(n), SameBuffer(q, q'), pvBuffer' = pvBuffer
      PROVE  GoodStep(n, q, q', pvBuffer, pvBuffer') /\ Ring(q') /\ pvBuffer' \in Values
  BY <1>0, <1>Q, QuietStep, Kept
<1>1. ASSUME NEW t \in Tasks, TrySend(t) PROVE GoodStep(n, q, q', pvBuffer, pvBuffer') /\ BufferInv'
  <2>1. pc[t] = "try" /\ sched = NoTask /\ op[t] \in Sends /\ sched' = sched
    BY <1>1, WhoRuns DEF TrySend, Locked
  <2>2. CASE HasRoom(q, op[t])
    <3>1. PICK v \in Values, position \in Positions(op[t]) :
            q' \in WakeReceivers(prvCopyDataToQueue(q, v, position), 1)
      BY <1>1, <2>2 DEF TrySend
    <3>2. op[t] = "overwrite" => n = 1
      BY <1>0 DEF OpInv
    <3>3. /\ GoodStep(n, q, q', pvBuffer, pvBuffer)
          /\ q'.cRxLock = q.cRxLock /\ q'.cTxLock = q.cTxLock
      <4>1. Sending(n, op[t], v, position)
        BY <1>0, <2>1, <2>2, <3>1, <3>2 DEF Sending
      <4> QED BY ONLY n \in Lengths, <3>1, <4>1, SendEffect
    <3>4. pvBuffer' = pvBuffer /\ Return(t)
      BY <1>1, <2>2 DEF TrySend
    <3>5. BufferInv'
      BY <1>0, <2>1, <3>3, <3>4, ControlStays DEF GoodStep, Locked
    <3> QED BY <3>3, <3>4, <3>5
  <2>3. CASE ~HasRoom(q, op[t])
    BY <1>1, <2>1, <2>3, FailsStep DEF TrySend
  <2> QED BY <2>2, <2>3
<1>2. ASSUME NEW t \in Tasks, TryReceive(t) PROVE GoodStep(n, q, q', pvBuffer, pvBuffer') /\ BufferInv'
  <2>1. pc[t] = "try" /\ sched = NoTask /\ sched' = sched
    BY <1>2, WhoRuns DEF TryReceive, Locked
  <2>2. CASE q.uxMessagesWaiting > 0 /\ pvBuffer' = NextMessage(q)
             /\ q' \in WakeSenders(Received(q), 1) /\ Return(t)
    <3>1. /\ GoodStep(n, q, q', pvBuffer, pvBuffer')
          /\ q'.cRxLock = q.cRxLock /\ q'.cTxLock = q.cTxLock
      BY <1>0, <2>2, ReceiveEffect
    <3>2. BufferInv'
      BY <1>0, <2>1, <2>2, <3>1, ControlStays DEF GoodStep, Locked
    <3> QED BY <3>1, <3>2
  <2>3. CASE Fails(t)
    BY <2>1, <2>3, FailsStep
  <2> QED BY <1>2, <2>2, <2>3 DEF TryReceive
<1>3. ASSUME NEW t \in Tasks, TryPeek(t) PROVE GoodStep(n, q, q', pvBuffer, pvBuffer') /\ BufferInv'
  <2>1. pc[t] = "try" /\ sched = NoTask /\ sched' = sched
    BY <1>3, WhoRuns DEF TryPeek, Locked
  <2>2. CASE q.uxMessagesWaiting > 0 /\ pvBuffer' = NextMessage(q)
             /\ q' \in WakeReceivers(q, 1) /\ Return(t)
    <3>1. /\ q' \in Queue_t(n) /\ SameBuffer(q, q')
          /\ q'.cRxLock = q.cRxLock /\ q'.cTxLock = q.cTxLock
      BY <2>2, OneOfReceivers
    <3>2. GoodStep(n, q, q', pvBuffer, pvBuffer')
      BY <1>0, <2>2, <3>1, PeekStep
    <3>3. BufferInv'
      BY <1>0, <2>1, <2>2, <3>1, <3>2, ControlStays DEF GoodStep, Locked
    <3> QED BY <3>2, <3>3
  <2>3. CASE Fails(t)
    BY <2>1, <2>3, FailsStep
  <2> QED BY <1>3, <2>2, <2>3 DEF TryPeek
<1>4. ASSUME NEW t \in Tasks, SuspendAndLock(t) PROVE GoodStep(n, q, q', pvBuffer, pvBuffer') /\ BufferInv'
  <2>1. pc[t] = "suspend" /\ sched = NoTask /\ q.cTxLock = -1 /\ q.cRxLock = -1
    BY <1>4, WhoRuns DEF SuspendAndLock, Locked
  <2>2. q' = [q EXCEPT !.cRxLock = 0, !.cTxLock = 0] /\ pvBuffer' = pvBuffer /\ sched' = t
    BY <1>4, <2>1 DEF SuspendAndLock, Locking, queueUNLOCKED, queueLOCKED_UNMODIFIED
  <2>3. 0 \in queueUNLOCKED .. Cardinality(Tasks)
    BY TaskCount, SMT DEF queueUNLOCKED
  <2>4. q' \in Queue_t(n) /\ SameBuffer(q, q') /\ q'.cRxLock = 0 /\ q'.cTxLock = 0
    BY <2>2, <2>3 DEF Queue_t, SameBuffer
  <2>5. QueueTypeOK' /\ OpInv'
    BY <1>4, <1>0, <1>Q, <2>1, <2>2, <2>4 DEF QueueTypeOK, OpInv, SuspendAndLock, GoTo, SameBuffer
  <2>6. LockInv'
    BY <1>4, <1>0, <2>1, <2>2, <2>4, QueueAssumption DEF QueueTypeOK, LockInv, SuspendAndLock, GoTo, Locked
  <2> QED BY <1>Q, <2>2, <2>4, <2>5, <2>6
<1>5. ASSUME NEW t \in Tasks, CheckAndTest(t) PROVE GoodStep(n, q, q', pvBuffer, pvBuffer') /\ BufferInv'
  <2>1. pc[t] = "check" /\ sched = t /\ q' = q /\ sched' = sched /\ pvBuffer' = pvBuffer
    BY <1>5, WhoRuns DEF CheckAndTest, Locked
  <2>2. /\ \E x \in {"place", "unlockTx"} : pc' = [pc EXCEPT ![t] = x]
        /\ ticks' = [ticks EXCEPT ![t] = IF expired[t] THEN "zero" ELSE @]
        /\ op' = op /\ expired' = expired
    BY <1>5 DEF CheckAndTest
  <2>3. QueueTypeOK' /\ OpInv' /\ LockInv'
    BY <1>0, <2>1, <2>2 DEF QueueTypeOK, OpInv, LockInv, Locked
  <2> QED BY <1>0, <1>Q, <2>1, <2>3 DEF SameBuffer
<1>6. ASSUME NEW t \in Tasks, Place(t) PROVE GoodStep(n, q, q', pvBuffer, pvBuffer') /\ BufferInv'
  <2>1. pc[t] = "place" /\ sched = t /\ sched' = sched /\ pvBuffer' = pvBuffer
    BY <1>6, WhoRuns DEF Place, Locked
  <2>2. /\ q' \in Queue_t(n) /\ SameBuffer(q, q')
        /\ q'.cRxLock = q.cRxLock /\ q'.cTxLock = q.cTxLock
    BY <1>6 DEF Place, Queue_t, SameBuffer
  <2>3. QueueTypeOK' /\ OpInv'
    BY <1>6, <1>0, <2>1, <2>2 DEF QueueTypeOK, OpInv, GoTo, Place, SameBuffer
  <2>4. LockInv'
    BY <1>6, <1>0, <2>1, <2>2 DEF QueueTypeOK, LockInv, GoTo, Locked, Place
  <2> QED BY <1>Q, <2>1, <2>2, <2>3, <2>4
<1>7. ASSUME NEW t \in Tasks, UnlockTx(t) PROVE GoodStep(n, q, q', pvBuffer, pvBuffer') /\ BufferInv'
  <2>1. pc[t] = "unlockTx" /\ sched = t /\ sched' = sched /\ pvBuffer' = pvBuffer
    BY <1>7, WhoRuns DEF UnlockTx, Locked
  <2>2. PICK s \in WakeReceivers(q, q.cTxLock) : q' = [s EXCEPT !.cTxLock = -1]
    BY <1>7 DEF UnlockTx, queueUNLOCKED
  <2>3. q.cTxLock \in Nat
    BY <1>0, <2>1, SMT DEF LockInv
  <2>4. s \in Queue_t(n) /\ SameBuffer(q, s) /\ s.cRxLock = q.cRxLock
    BY <2>2, <2>3, WokenReceivers
  <2>5. -1 \in queueUNLOCKED .. Cardinality(Tasks)
    BY TaskCount, SMT DEF queueUNLOCKED
  <2>6. /\ q' \in Queue_t(n) /\ SameBuffer(q, q')
        /\ q'.cRxLock = q.cRxLock /\ q'.cTxLock = -1
    BY <2>2, <2>4, <2>5 DEF Queue_t, SameBuffer
  <2>7. QueueTypeOK' /\ OpInv'
    BY <1>7, <1>0, <2>1, <2>6 DEF QueueTypeOK, OpInv, GoTo, UnlockTx, SameBuffer
  <2>8. LockInv'
    BY <1>7, <1>0, <2>1, <2>6, QueueAssumption DEF QueueTypeOK, LockInv, GoTo, Locked, UnlockTx
  <2> QED BY <1>Q, <2>1, <2>6, <2>7, <2>8
<1>8. ASSUME NEW t \in Tasks, UnlockRx(t) PROVE GoodStep(n, q, q', pvBuffer, pvBuffer') /\ BufferInv'
  <2>1. pc[t] = "unlockRx" /\ sched = t /\ sched' = sched /\ pvBuffer' = pvBuffer
    BY <1>8, WhoRuns DEF UnlockRx, Locked
  <2>2. PICK s \in WakeSenders(q, q.cRxLock) : q' = [s EXCEPT !.cRxLock = -1]
    BY <1>8 DEF UnlockRx, queueUNLOCKED
  <2>3. q.cRxLock \in Nat
    BY <1>0, <2>1, SMT DEF LockInv
  <2>4. s \in Queue_t(n) /\ SameBuffer(q, s) /\ s.cTxLock = q.cTxLock
    BY <2>2, <2>3, WokenSenders
  <2>5. -1 \in queueUNLOCKED .. Cardinality(Tasks)
    BY TaskCount, SMT DEF queueUNLOCKED
  <2>6. /\ q' \in Queue_t(n) /\ SameBuffer(q, q')
        /\ q'.cTxLock = q.cTxLock /\ q'.cRxLock = -1
    BY <2>2, <2>4, <2>5 DEF Queue_t, SameBuffer
  <2>7. QueueTypeOK' /\ OpInv'
    BY <1>8, <1>0, <2>1, <2>6 DEF QueueTypeOK, OpInv, GoTo, UnlockRx, SameBuffer
  <2>8. LockInv'
    BY <1>8, <1>0, <2>1, <2>6, QueueAssumption DEF QueueTypeOK, LockInv, GoTo, Locked, UnlockRx
  <2> QED BY <1>Q, <2>1, <2>6, <2>7, <2>8
<1>9. ASSUME NEW t \in Tasks, Resume(t) PROVE GoodStep(n, q, q', pvBuffer, pvBuffer') /\ BufferInv'
  <2>1. pc[t] = "resume" /\ sched = t /\ sched' = NoTask /\ q' = q /\ pvBuffer' = pvBuffer
    BY <1>9, WhoRuns DEF Resume, Locked
  <2>2. GoTo(t, "try") \/ GoTo(t, "recheck") \/ Return(t)
    BY <1>9 DEF Resume
  <2>3. QueueTypeOK' /\ OpInv'
    BY <1>0, <2>1, <2>2 DEF QueueTypeOK, OpInv, GoTo, Return
  <2>4. \E x \in {"try", "recheck", "out"} : pc' = [pc EXCEPT ![t] = x]
    BY <2>2 DEF GoTo, Return
  <2>5. LockInv'
    BY <1>0, <2>1, <2>4, QueueAssumption DEF QueueTypeOK, LockInv, Locked
  <2> QED BY <1>0, <1>Q, <2>1, <2>3, <2>5 DEF SameBuffer
<1>10. ASSUME NEW t \in Tasks, Recheck(t) PROVE GoodStep(n, q, q', pvBuffer, pvBuffer') /\ BufferInv'
  <2>1. /\ pc[t] = "recheck" /\ sched = NoTask /\ sched' = sched /\ q' = q /\ pvBuffer' = pvBuffer
        /\ GoTo(t, "try") \/ Return(t)
    BY <1>10, WhoRuns DEF Recheck, Locked
  <2>2. BufferInv'
    BY <1>0, <2>1, ControlStays DEF Locked
  <2> QED BY <1>0, <1>Q, <2>1, <2>2 DEF SameBuffer
<1>11. ASSUME NEW t \in Tasks, Elapse(t) PROVE GoodStep(n, q, q', pvBuffer, pvBuffer') /\ BufferInv'
  <2>1. /\ q' \in Queue_t(n) /\ SameBuffer(q, q')
        /\ q'.cTxLock = q.cTxLock /\ q'.cRxLock = q.cRxLock
    BY <1>11 DEF Elapse, Queue_t, SameBuffer
  <2>2. QueueTypeOK' /\ OpInv' /\ LockInv'
    BY <1>11, <1>0, <2>1 DEF QueueTypeOK, OpInv, LockInv, Elapse, SameBuffer
  <2> QED BY <1>11, <1>Q, <2>1, <2>2 DEF Elapse
<1>12. ASSUME NEW t \in Tasks, NEW o \in Sends \cup Reads, Call(t, o)
       PROVE  GoodStep(n, q, q', pvBuffer, pvBuffer') /\ BufferInv'
  <2>1. pc[t] = "out" /\ sched = NoTask /\ sched' = sched /\ q' = q /\ pvBuffer' = pvBuffer
    BY <1>12, WhoRuns DEF Call, Locked, At
  <2>2. QueueTypeOK' /\ OpInv' /\ LockInv'
    BY <1>12, <1>0, <2>1 DEF QueueTypeOK, OpInv, LockInv, Call, Locked
  <2> QED BY <1>0, <1>Q, <2>1, <2>2 DEF SameBuffer
<1>13. ASSUME NEW o \in Sends, NEW v \in Values, NEW position \in Positions(o),
              SendFromISR(o, position, v)
       PROVE  GoodStep(n, q, q', pvBuffer, pvBuffer') /\ BufferInv'
  <2>1. pvBuffer' = pvBuffer /\ HasRoom(q, o) /\ (o = "overwrite" => n = 1)
        /\ UNCHANGED <<sched, pc, op, ticks, expired>>
    BY <1>13, <1>0 DEF SendFromISR
  <2>S. Sending(n, o, v, position)
    BY <1>0, <2>1 DEF Sending
  <2>2. CASE q' \in WakeReceivers(prvCopyDataToQueue(q, v, position), 1)
    <3>1. /\ GoodStep(n, q, q', pvBuffer, pvBuffer)
          /\ q'.cRxLock = q.cRxLock /\ q'.cTxLock = q.cTxLock
      BY ONLY n \in Lengths, <2>2, <2>S, SendEffect
    <3>2. q' \in Queue_t(n) /\ q'.uxLength = n /\ Ring(q')
      BY <3>1 DEF GoodStep, Queue_t
    <3>3. QueueTypeOK' /\ OpInv' /\ LockInv'
      BY <1>0, <2>1, <3>1, <3>2 DEF QueueTypeOK, OpInv, LockInv
    <3> QED BY <2>1, <3>1, <3>2, <3>3
  <2>3. CASE /\ q.cTxLock # -1
             /\ q' = [prvCopyDataToQueue(q, v, position) EXCEPT !.cTxLock = Increment(@)]
    <3>1. /\ GoodStep(n, q, q', pvBuffer, pvBuffer)
          /\ q'.cTxLock = Increment(q.cTxLock) /\ q'.cRxLock = q.cRxLock
      BY ONLY n \in Lengths, <2>3, <2>S, SendCounted
    <3>2. q' \in Queue_t(n) /\ q'.uxLength = n /\ Ring(q')
      BY <3>1 DEF GoodStep, Queue_t
    <3>3. q'.cRxLock = q.cRxLock /\ q'.cTxLock = Increment(q.cTxLock)
      BY <3>1
    <3>4. q'.cTxLock >= 0
      BY <1>0, <2>3, <3>3, TaskCount, SMT DEF Increment
    <3>5. QueueTypeOK' /\ OpInv'
      BY <1>0, <2>1, <3>2 DEF QueueTypeOK, OpInv
    <3>6. LockInv'
      BY <2>1, <2>3, <3>3, <3>4 DEF LockInv
    <3> QED BY <2>1, <3>1, <3>2, <3>5, <3>6
  <2> QED BY <1>13, <2>2, <2>3 DEF SendFromISR, queueUNLOCKED
<1>14. ASSUME ReceiveFromISR PROVE GoodStep(n, q, q', pvBuffer, pvBuffer') /\ BufferInv'
  <2>1. /\ q.uxMessagesWaiting > 0 /\ pvBuffer' = NextMessage(q)
        /\ UNCHANGED <<sched, pc, op, ticks, expired>>
    BY <1>14 DEF ReceiveFromISR
  <2>2. CASE q' \in WakeSenders(Received(q), 1)
    <3>1. /\ GoodStep(n, q, q', pvBuffer, pvBuffer')
          /\ q'.cRxLock = q.cRxLock /\ q'.cTxLock = q.cTxLock
      BY <1>0, <2>1, <2>2, ReceiveEffect
    <3>2. q' \in Queue_t(n) /\ q'.uxLength = n /\ Ring(q') /\ pvBuffer' \in Values
      BY <3>1 DEF GoodStep, Queue_t
    <3>3. QueueTypeOK' /\ OpInv' /\ LockInv'
      BY <1>0, <2>1, <3>1, <3>2 DEF QueueTypeOK, OpInv, LockInv
    <3> QED BY <3>1, <3>2, <3>3
  <2>3. CASE q.cRxLock # -1 /\ q' = [Received(q) EXCEPT !.cRxLock = Increment(@)]
    <3>1. /\ GoodStep(n, q, q', pvBuffer, pvBuffer')
          /\ q'.cRxLock = Increment(q.cRxLock) /\ q'.cTxLock = q.cTxLock
      BY <1>0, <2>1, <2>3, ReceiveCounted
    <3>2. q' \in Queue_t(n) /\ q'.uxLength = n /\ Ring(q') /\ pvBuffer' \in Values
      BY <3>1 DEF GoodStep, Queue_t
    <3>3. q'.cTxLock = q.cTxLock /\ q'.cRxLock = Increment(q.cRxLock)
      BY <3>1
    <3>4. q'.cRxLock >= 0
      BY <1>0, <2>3, <3>3, TaskCount, SMT DEF Increment
    <3>5. QueueTypeOK' /\ OpInv'
      BY <1>0, <2>1, <3>2 DEF QueueTypeOK, OpInv
    <3>6. LockInv'
      BY <2>1, <2>3, <3>3, <3>4 DEF LockInv
    <3> QED BY <3>1, <3>2, <3>5, <3>6
  <2> QED BY <1>14, <2>2, <2>3 DEF ReceiveFromISR, queueUNLOCKED
<1>15. ASSUME PeekFromISR PROVE GoodStep(n, q, q', pvBuffer, pvBuffer') /\ BufferInv'
  <2>1. /\ q.uxMessagesWaiting > 0 /\ pvBuffer' = NextMessage(q) /\ q' = q
        /\ UNCHANGED <<sched, pc, op, ticks, expired>>
    BY <1>15 DEF PeekFromISR
  <2>2. GoodStep(n, q, q', pvBuffer, pvBuffer')
    BY <1>0, <2>1, PeekStep DEF SameBuffer
  <2>3. pvBuffer' \in Values
    BY <2>2 DEF GoodStep
  <2>4. QueueTypeOK' /\ OpInv' /\ LockInv'
    BY <1>0, <2>1, <2>3 DEF QueueTypeOK, OpInv, LockInv
  <2> QED BY <1>0, <2>1, <2>2, <2>4
<1>16. ASSUME UNCHANGED vars PROVE GoodStep(n, q, q', pvBuffer, pvBuffer') /\ BufferInv'
  <2>1. q' = q /\ pvBuffer' = pvBuffer /\ UNCHANGED <<sched, pc, op, ticks, expired>>
    BY <1>16 DEF vars
  <2>2. QueueTypeOK' /\ OpInv' /\ LockInv'
    BY <1>0, <2>1 DEF QueueTypeOK, OpInv, LockInv
  <2> QED BY <1>0, <1>Q, <2>1, <2>2 DEF SameBuffer
<1> QED
  BY <1>1, <1>2, <1>3, <1>4, <1>5, <1>6, <1>7, <1>8, <1>9, <1>10, <1>11, <1>12, <1>13,
     <1>14, <1>15, <1>16 DEF Next, Step

LEMMA BufferInit ==
  ASSUME Init
  PROVE  BufferInv /\ Fifo!Init
<1>1. PICK n \in Lengths, garbage \in Values :
        q = [storage |-> [i \in 0 .. n - 1 |-> garbage],
             uxLength |-> n, uxMessagesWaiting |-> 0,
             pcWriteTo |-> 0, pcReadFrom |-> n - 1,
             cRxLock |-> queueUNLOCKED, cTxLock |-> queueUNLOCKED,
             toSend |-> {}, toReceive |-> {}]
  BY DEF Init
<1>2. n \in Nat /\ 0 < n
  BY LengthsNat
<1>3. /\ 0 \in 0 .. n /\ 0 \in 0 .. n - 1 /\ n - 1 \in 0 .. n - 1
      /\ queueUNLOCKED \in queueUNLOCKED .. Cardinality(Tasks)
  BY <1>2, TaskCount, SMT DEF queueUNLOCKED
<1>4. q \in Queue_t(n)
  BY <1>1, <1>3 DEF Queue_t
<1>5. /\ q.uxLength = n /\ q.uxMessagesWaiting = 0 /\ q.pcWriteTo = 0 /\ q.pcReadFrom = n - 1
      /\ q.cTxLock = -1 /\ q.cRxLock = -1
  BY <1>1 DEF queueUNLOCKED
<1>6. Ring(q)
  BY <1>2, <1>5, SMT DEF Ring
<1>7. QueueTypeOK
  BY <1>4 DEF QueueTypeOK, Init
<1>8. LockInv /\ OpInv
  BY <1>5, QueueAssumption DEF LockInv, OpInv, Locked, Init
<1>9. Fifo!Init
  <2>1. Messages = MessagesOf(q)
    BY DEF Messages, MessagesOf
  <2>2. Messages \in Seq(Values) /\ Len(Messages) = 0
    BY <1>4, <1>5, <2>1, MessagesSeq
  <2>3. Messages = <<>>
    BY <2>2, EmptySeq
  <2> QED BY <1>2, <1>5, <1>7, <2>3 DEF Fifo!Init, QueueTypeOK
<1> QED BY <1>6, <1>7, <1>8, <1>9 DEF BufferInv

LEMMA FifoStep ==
  ASSUME BufferInv, [Next]_vars
  PROVE  BufferInv' /\ [Fifo!Next]_(Fifo!qvars)
<1>1. PICK n \in Lengths : q \in Queue_t(n)
  BY DEF BufferInv, QueueTypeOK
<1>2. GoodStep(n, q, q', pvBuffer, pvBuffer') /\ BufferInv'
  BY <1>1, BufferNext
<1>3. Messages = MessagesOf(q) /\ Messages' = MessagesOf(q')
  BY DEF Messages, MessagesOf
<1>4. q.uxLength = n /\ q'.uxLength = n
  BY <1>1, <1>2 DEF GoodStep, Queue_t
<1>5. [Fifo!Next]_(Fifo!qvars)
  <2> USE DEF Fifo!Next, Fifo!qvars
  <2>1. CASE pvBuffer' = pvBuffer /\ MessagesOf(q') = MessagesOf(q)
    BY <1>3, <1>4, <2>1
  <2>2. ASSUME pvBuffer' = pvBuffer, NEW v \in Values,
               Len(MessagesOf(q)) < n, MessagesOf(q') = Append(MessagesOf(q), v)
        PROVE  Fifo!Next
    BY <1>3, <1>4, <2>2 DEF Fifo!SendToBack
  <2>3. ASSUME pvBuffer' = pvBuffer, NEW v \in Values,
               Len(MessagesOf(q)) < n, MessagesOf(q') = <<v>> \o MessagesOf(q)
        PROVE  Fifo!Next
    BY <1>3, <1>4, <2>3 DEF Fifo!SendToFront
  <2>4. ASSUME pvBuffer' = pvBuffer, NEW v \in Values, n = 1, MessagesOf(q') = <<v>>
        PROVE  Fifo!Next
    BY <1>3, <1>4, <2>4 DEF Fifo!Overwrite
  <2>5. CASE MessagesOf(q) # <<>> /\ pvBuffer' = Head(MessagesOf(q))
             /\ MessagesOf(q') = MessagesOf(q)
    BY <1>3, <1>4, <2>5 DEF Fifo!Peek
  <2>6. CASE MessagesOf(q) # <<>> /\ pvBuffer' = Head(MessagesOf(q))
             /\ MessagesOf(q') = Tail(MessagesOf(q))
    BY <1>3, <1>4, <2>6 DEF Fifo!Receive
  <2> QED BY <1>2, <2>1, <2>2, <2>3, <2>4, <2>5, <2>6 DEF GoodStep
<1> QED BY <1>2, <1>5

\* The pointers stay in the buffer, the lock counts stop at the number of tasks, and
\* every variable keeps its type, for every length and every number of tasks.
THEOREM TypeCorrect == Spec => []QueueTypeOK
<1>1. Init => BufferInv
  BY BufferInit
<1>2. BufferInv /\ [Next]_vars => BufferInv'
  BY FifoStep
<1>3. BufferInv => QueueTypeOK
  BY DEF BufferInv
<1> QED BY <1>1, <1>2, <1>3, PTL DEF Spec

\* The ring buffer, with its critical sections, its lock and its interrupts,
\* implements the bounded FIFO: nothing is lost, duplicated or reordered.
THEOREM Refinement == Spec => ImplementsFifo
<1>1. Init => BufferInv /\ Fifo!Init
  BY BufferInit
<1>2. BufferInv /\ [Next]_vars => BufferInv' /\ [Fifo!Next]_(Fifo!qvars)
  BY FifoStep
<1> QED BY <1>1, <1>2, PTL DEF Spec, ImplementsFifo, Fifo!Spec

-----------------------------------------------------------------------------
\* No lost wake-up. A waiting task is on the list of its operation, has not timed
\* out, and is asleep or on the way there; a task about to be placed on a list found
\* nothing to do when it looked, and all that came since has been counted.

WaitInv ==
  /\ \A t \in q.toReceive :
       /\ op[t] \in Reads /\ expired[t] = FALSE
       /\ pc[t] \in {"unlockTx", "unlockRx", "resume", "try"}
  /\ \A t \in q.toSend :
       /\ op[t] \in Sends /\ expired[t] = FALSE
       /\ pc[t] \in {"unlockTx", "unlockRx", "resume", "try"}

PlaceInv ==
  \A t \in Tasks : pc[t] = "place" =>
    /\ expired[t] = FALSE
    /\ op[t] \in Reads =>
         q.uxMessagesWaiting <= q.cTxLock \/ Cardinality(Tasks) <= q.cTxLock
    /\ op[t] \in Sends =>
         q.uxLength - q.uxMessagesWaiting <= q.cRxLock \/ Cardinality(Tasks) <= q.cRxLock

\* The common form of NoLostMessage and NoLostRoom.
Covered(items, waiting, tries, lock) ==
  waiting # {} => \/ items <= Cardinality(tries) + Owed(lock)
                  \/ Cardinality(waiting) <= lock

LostInv == WaitInv /\ PlaceInv /\ NoLostMessage /\ NoLostRoom

IInv == BufferInv /\ LostInv

LEMMA SubsetCount ==
  ASSUME NEW A, NEW B, A \subseteq B, B \subseteq Tasks
  PROVE  /\ Cardinality(A) \in Nat /\ Cardinality(B) \in Nat
         /\ Cardinality(A) <= Cardinality(B)
<1>1. IsFiniteSet(B)
  BY TaskCount
<1>2. IsFiniteSet(A) /\ Cardinality(A) <= Cardinality(B)
  BY <1>1, FS_Subset
<1> QED BY <1>1, <1>2, FS_CardinalityType

LEMMA DisjointCount ==
  ASSUME NEW A, NEW B, NEW C, A \cup B \subseteq C, C \subseteq Tasks, A \cap B = {}
  PROVE  /\ Cardinality(A) \in Nat /\ Cardinality(B) \in Nat /\ Cardinality(C) \in Nat
         /\ Cardinality(A) + Cardinality(B) <= Cardinality(C)
<1>1. A \subseteq Tasks /\ B \subseteq Tasks
  OBVIOUS
<1>2. IsFiniteSet(A) /\ IsFiniteSet(B) /\ Cardinality(A) \in Nat /\ Cardinality(B) \in Nat
  BY <1>1, TaskCount
<1>3. Cardinality(A \cup B) = Cardinality(A) + Cardinality(B) - Cardinality(A \cap B)
  BY <1>2, FS_Union
<1>4. Cardinality(A \cap B) = 0
  BY FS_EmptySet
<1>5. Cardinality(A \cup B) <= Cardinality(C) /\ Cardinality(C) \in Nat
  BY SubsetCount
<1> QED BY <1>2, <1>3, <1>4, <1>5, SMT

LEMMA WithoutCount ==
  ASSUME NEW A, A \subseteq Tasks, NEW t
  PROVE  /\ Cardinality(A) \in Nat /\ Cardinality(A \ {t}) \in Nat
         /\ Cardinality(A) <= Cardinality(A \ {t}) + 1
<1>1. IsFiniteSet(A)
  BY TaskCount
<1>2. CASE t \in A
  <2>1. Cardinality(A \ {t}) = Cardinality(A) - 1
    BY <1>1, <1>2, FS_RemoveElement
  <2>2. Cardinality(A) \in Nat /\ Cardinality(A \ {t}) \in Nat
    BY <1>1, FS_RemoveElement, FS_CardinalityType
  <2> QED BY <2>1, <2>2, SMT
<1>3. CASE t \notin A
  <2>1. A \ {t} = A
    BY <1>3
  <2> QED BY <1>1, <2>1, FS_CardinalityType, SMT
<1> QED BY <1>2, <1>3

\* No more items, no more waiting tasks, no fewer tasks that look or wake-ups owed.
LEMMA CoveredStill ==
  ASSUME NEW i \in Int, NEW j \in Int, NEW w, NEW x, NEW T, NEW V, NEW l \in Int, NEW m \in Int,
         w \subseteq Tasks, V \subseteq Tasks, x \subseteq w, T \subseteq V,
         j <= i, l <= m, Covered(i, w, T, l)
  PROVE  Covered(j, x, V, m)
<1>1. /\ Cardinality(T) \in Nat /\ Cardinality(V) \in Nat /\ Cardinality(T) <= Cardinality(V)
      /\ Cardinality(w) \in Nat /\ Cardinality(x) \in Nat /\ Cardinality(x) <= Cardinality(w)
  BY SubsetCount
<1>2. Owed(l) \in Nat /\ Owed(m) \in Nat /\ Owed(l) <= Owed(m)
  BY SMT DEF Owed
<1>3. ASSUME x # {} PROVE w # {}
  BY <1>3
<1> QED BY <1>1, <1>2, <1>3, SMT DEF Covered

\* Nothing there.
LEMMA CoveredNone ==
  ASSUME NEW j \in Int, j <= 0, NEW x, NEW V, V \subseteq Tasks, NEW m \in Int
  PROVE  Covered(j, x, V, m)
<1>1. Cardinality(V) \in Nat /\ Owed(m) \in Nat
  BY TaskCount, SMT DEF Owed
<1> QED BY <1>1, SMT DEF Covered

\* One item is taken by one of the tasks that look.
LEMMA CoveredTaken ==
  ASSUME NEW i \in Int, NEW w, NEW x, NEW T, NEW V, NEW l \in Int, NEW t,
         w \subseteq Tasks, T \subseteq Tasks, V \subseteq Tasks, x \subseteq w,
         T \ {t} \subseteq V, Covered(i, w, T, l)
  PROVE  Covered(i - 1, x, V, l)
<1>1. /\ Cardinality(V) \in Nat /\ Cardinality(T \ {t}) <= Cardinality(V)
      /\ Cardinality(w) \in Nat /\ Cardinality(x) \in Nat /\ Cardinality(x) <= Cardinality(w)
  BY SubsetCount
<1>2. /\ Cardinality(T) \in Nat /\ Cardinality(T \ {t}) \in Nat
      /\ Cardinality(T) <= Cardinality(T \ {t}) + 1
  BY WithoutCount
<1>3. Owed(l) \in Nat
  BY SMT DEF Owed
<1>4. ASSUME x # {} PROVE w # {}
  BY <1>4
<1> QED BY <1>1, <1>2, <1>3, <1>4, SMT DEF Covered

\* One item comes and one waiting task is woken.
LEMMA CoveredWoken ==
  ASSUME NEW i \in Int, NEW j \in Int, NEW w, NEW x, NEW T, NEW V, j <= i + 1,
         w \subseteq Tasks, T \subseteq Tasks, V \subseteq Tasks, x \subseteq w, T \cap w = {},
         x = {} \/ Cardinality(w \ x) = 1, T \cup (w \ x) \subseteq V, Covered(i, w, T, -1)
  PROVE  Covered(j, x, V, -1)
<1>1. /\ Cardinality(T) \in Nat /\ Cardinality(w \ x) \in Nat /\ Cardinality(V) \in Nat
      /\ Cardinality(T) + Cardinality(w \ x) <= Cardinality(V)
  <2>1. T \cap (w \ x) = {}
    OBVIOUS
  <2> QED BY <2>1, DisjointCount
<1>2. Cardinality(w) \in Nat
  BY TaskCount
<1>3. Owed(-1) = 0
  BY SMT DEF Owed
<1>4. ASSUME x # {} PROVE w # {}
  BY <1>4
<1> QED BY <1>1, <1>2, <1>3, <1>4, SMT DEF Covered

\* A task that looked leaves and wakes another one.
LEMMA CoveredHanded ==
  ASSUME NEW i \in Int, NEW w, NEW x, NEW T, NEW V, NEW t,
         w \subseteq Tasks, T \subseteq Tasks, V \subseteq Tasks, x \subseteq w, T \cap w = {},
         x = {} \/ Cardinality(w \ x) = 1, (T \ {t}) \cup (w \ x) \subseteq V,
         Covered(i, w, T, -1)
  PROVE  Covered(i, x, V, -1)
<1>1. /\ Cardinality(T \ {t}) \in Nat /\ Cardinality(w \ x) \in Nat /\ Cardinality(V) \in Nat
      /\ Cardinality(T \ {t}) + Cardinality(w \ x) <= Cardinality(V)
  <2>1. (T \ {t}) \cap (w \ x) = {}
    OBVIOUS
  <2> QED BY <2>1, DisjointCount
<1>2. Cardinality(T) \in Nat /\ Cardinality(T) <= Cardinality(T \ {t}) + 1
  BY WithoutCount
<1>3. Cardinality(w) \in Nat
  BY TaskCount
<1>4. Owed(-1) = 0
  BY SMT DEF Owed
<1>5. ASSUME x # {} PROVE w # {}
  BY <1>5
<1> QED BY <1>1, <1>2, <1>3, <1>4, <1>5, SMT DEF Covered

\* An item is counted while the queue is locked.
LEMMA CoveredCounted ==
  ASSUME NEW i \in Int, NEW j \in Int, NEW w, NEW T, NEW l \in Int, j <= i + 1, 0 <= l,
         l <= Cardinality(Tasks), w \subseteq Tasks, T \subseteq Tasks, Covered(i, w, T, l)
  PROVE  Covered(j, w, T, Increment(l))
<1>1. /\ Cardinality(T) \in Nat /\ Cardinality(w) \in Nat /\ Cardinality(Tasks) \in Nat
      /\ Cardinality(w) <= Cardinality(Tasks)
  BY TaskCount
<1>2. \/ Increment(l) = l + 1
      \/ Increment(l) = l /\ l = Cardinality(Tasks)
  BY <1>1, SMT DEF Increment
<1>3. CASE Increment(l) = l + 1
  <2>1. Owed(l) = l /\ Owed(l + 1) = l + 1
    BY SMT DEF Owed
  <2> QED BY <1>1, <1>3, <2>1, SMT DEF Covered
<1>4. CASE Increment(l) = l /\ l = Cardinality(Tasks)
  BY <1>1, <1>4 DEF Covered
<1> QED BY <1>2, <1>3, <1>4

\* The wake-ups that are owed are made.
LEMMA CoveredUnlocked ==
  ASSUME NEW i \in Int, NEW w, NEW x, NEW T, NEW V, NEW l \in Int, 0 <= l,
         w \subseteq Tasks, T \subseteq Tasks, V \subseteq Tasks, x \subseteq w, T \cap w = {},
         x = {} \/ Cardinality(w \ x) = l, T \cup (w \ x) \subseteq V, Covered(i, w, T, l)
  PROVE  Covered(i, x, V, -1)
<1>1. /\ Cardinality(T) \in Nat /\ Cardinality(w \ x) \in Nat /\ Cardinality(V) \in Nat
      /\ Cardinality(T) + Cardinality(w \ x) <= Cardinality(V)
  <2>1. T \cap (w \ x) = {}
    OBVIOUS
  <2> QED BY <2>1, DisjointCount
<1>2. ASSUME x # {} PROVE w # {} /\ ~(Cardinality(w) <= Cardinality(w \ x))
  <2>1. w # {} /\ w \ x # w
    BY <1>2
  <2>2. IsFiniteSet(w) /\ Cardinality(w) \in Nat
    BY TaskCount
  <2>3. Cardinality(w \ x) <= Cardinality(w) /\ (Cardinality(w \ x) = Cardinality(w) => w \ x = w)
    BY <2>2, FS_Subset
  <2> QED BY <1>1, <2>1, <2>2, <2>3, SMT
<1>3. Owed(-1) = 0 /\ Owed(l) = l
  BY SMT DEF Owed
<1> QED BY <1>1, <1>2, <1>3, SMT DEF Covered

\* A task is placed on the list.
LEMMA CoveredPlaced ==
  ASSUME NEW i \in Int, NEW x, NEW T, NEW l \in Int, 0 <= l, x \subseteq Tasks, T \subseteq Tasks,
         i <= l \/ Cardinality(Tasks) <= l
  PROVE  Covered(i, x, T, l)
<1>1. /\ Cardinality(T) \in Nat /\ Cardinality(x) \in Nat /\ Cardinality(Tasks) \in Nat
      /\ Cardinality(x) <= Cardinality(Tasks)
  BY TaskCount
<1>2. Owed(l) = l
  BY SMT DEF Owed
<1> QED BY <1>1, <1>2, SMT DEF Covered

LEMMA Forms ==
  /\ NoLostMessage <=> Covered(q.uxMessagesWaiting, q.toReceive, WillTry(Reads), q.cTxLock)
  /\ NoLostRoom <=> Covered(q.uxLength - q.uxMessagesWaiting, q.toSend, WillTry(Sends), q.cRxLock)
  /\ NoLostMessage' <=> Covered(q'.uxMessagesWaiting, q'.toReceive, WillTry(Reads)', q'.cTxLock)
  /\ NoLostRoom' <=>
       Covered(q'.uxLength - q'.uxMessagesWaiting, q'.toSend, WillTry(Sends)', q'.cRxLock)
BY DEF NoLostMessage, NoLostRoom, Covered

LEMMA TriesAre ==
  /\ WillTry(Reads) \subseteq Tasks /\ WillTry(Reads) \cap q.toReceive = {}
  /\ WillTry(Sends) \subseteq Tasks /\ WillTry(Sends) \cap q.toSend = {}
  /\ WillTry(Reads)' \subseteq Tasks /\ WillTry(Sends)' \subseteq Tasks
BY DEF WillTry

\* Only the tasks of X move.
Others(X) ==
  \A x \in Tasks \ X : pc'[x] = pc[x] /\ op'[x] = op[x] /\ expired'[x] = expired[x]

LEMMA Tries ==
  ASSUME NEW X, Others(X), WaitInv, q.toSend \subseteq Tasks, q.toReceive \subseteq Tasks,
         q'.toSend \subseteq q.toSend, q'.toReceive \subseteq q.toReceive
  PROVE  /\ WillTry(Reads) \ X \subseteq WillTry(Reads)'
         /\ WillTry(Sends) \ X \subseteq WillTry(Sends)'
         /\ \A x \in q.toReceive \ q'.toReceive :
              x \notin X /\ pc[x] # "unlockTx" => x \in WillTry(Reads)'
         /\ \A x \in q.toSend \ q'.toSend :
              x \notin X /\ pc[x] # "unlockTx" => x \in WillTry(Sends)'
         /\ X \cap (q'.toSend \cup q'.toReceive) = {} => WaitInv'
<1>1. WillTry(Reads) \ X \subseteq WillTry(Reads)' /\ WillTry(Sends) \ X \subseteq WillTry(Sends)'
  BY DEF Others, WillTry
<1>2. Reads \cap Sends = {}
  BY DEF Reads, Sends
<1>3. ASSUME NEW x \in q.toReceive \ q'.toReceive, x \notin X, pc[x] # "unlockTx"
      PROVE  x \in WillTry(Reads)'
  <2>1. /\ x \in Tasks /\ x \notin q.toSend
        /\ op[x] \in Reads /\ expired[x] = FALSE /\ pc[x] \in {"unlockRx", "resume", "try"}
    BY <1>2, <1>3 DEF WaitInv
  <2> QED BY <1>3, <2>1 DEF Others, WillTry
<1>4. ASSUME NEW x \in q.toSend \ q'.toSend, x \notin X, pc[x] # "unlockTx"
      PROVE  x \in WillTry(Sends)'
  <2>1. /\ x \in Tasks /\ x \notin q.toReceive
        /\ op[x] \in Sends /\ expired[x] = FALSE /\ pc[x] \in {"unlockRx", "resume", "try"}
    BY <1>2, <1>4 DEF WaitInv
  <2> QED BY <1>4, <2>1 DEF Others, WillTry
<1>5. X \cap (q'.toSend \cup q'.toReceive) = {} => WaitInv'
  BY DEF WaitInv, Others
<1> QED BY <1>1, <1>3, <1>4, <1>5

LEMMA ReturnMoves ==
  ASSUME QueueTypeOK, NEW t \in Tasks, Return(t)
  PROVE  Others({t})
BY DEF QueueTypeOK, Return, Others

LEMMA NobodyPlaces ==
  ASSUME BufferInv', sched' = NoTask
  PROVE  PlaceInv'
<1>1. \A t \in Tasks : pc'[t] # "place"
  BY QueueAssumption DEF BufferInv, LockInv, Locked
<1> QED BY <1>1 DEF PlaceInv

\* What the fields of the queue are before and after a step.
LEMMA Numbers ==
  ASSUME NEW n \in Lengths, NEW s \in Queue_t(n)
  PROVE  /\ s.uxLength = n /\ n \in Nat /\ 0 < n
         /\ s.uxMessagesWaiting \in Nat /\ s.uxMessagesWaiting \in Int /\ s.uxMessagesWaiting <= n
         /\ s.uxLength - s.uxMessagesWaiting \in Int
         /\ s.cTxLock \in Int /\ s.cRxLock \in Int
         /\ s.toSend \subseteq Tasks /\ s.toReceive \subseteq Tasks
<1>1. /\ s.uxLength = n /\ n \in Nat /\ 0 < n
      /\ s.uxMessagesWaiting \in Nat /\ s.uxMessagesWaiting <= n
      /\ s.cTxLock \in Int /\ s.cRxLock \in Int
      /\ s.toSend \subseteq Tasks /\ s.toReceive \subseteq Tasks
  BY Fields
<1>2. s.uxLength - s.uxMessagesWaiting \in Int /\ s.uxMessagesWaiting \in Int
  BY <1>1, SMT
<1> QED BY <1>1, <1>2

\* A step in which nothing comes or goes and nobody is woken: the tasks that look
\* stay, the lists can only shrink.
LEMMA CoveredQuiet ==
  ASSUME IInv, BufferInv', NEW n \in Lengths, q \in Queue_t(n), q' \in Queue_t(n),
         q'.uxMessagesWaiting = q.uxMessagesWaiting,
         q'.toSend \subseteq q.toSend, q'.toReceive \subseteq q.toReceive,
         q.cTxLock <= q'.cTxLock, q.cRxLock <= q'.cRxLock,
         WillTry(Reads) \subseteq WillTry(Reads)', WillTry(Sends) \subseteq WillTry(Sends)'
  PROVE  NoLostMessage' /\ NoLostRoom'
<1> DEFINE i == q.uxMessagesWaiting
           r == q.uxLength - q.uxMessagesWaiting
<1>1. /\ i \in Int /\ r \in Int /\ q.cTxLock \in Int /\ q.cRxLock \in Int
      /\ q.toSend \subseteq Tasks /\ q.toReceive \subseteq Tasks
  BY Numbers
<1>2. /\ q'.cTxLock \in Int /\ q'.cRxLock \in Int /\ q'.uxLength = q.uxLength
      /\ q'.uxMessagesWaiting = i /\ q'.uxLength - q'.uxMessagesWaiting = r
  BY Numbers
<1>3. /\ Covered(i, q.toReceive, WillTry(Reads), q.cTxLock)
      /\ Covered(r, q.toSend, WillTry(Sends), q.cRxLock)
  BY Forms DEF IInv, LostInv
<1> HIDE DEF i, r
<1>4. i <= i /\ r <= r
  BY <1>1, SMT
<1>5. Covered(i, q'.toReceive, WillTry(Reads)', q'.cTxLock)
  BY <1>1, <1>2, <1>3, <1>4, TriesAre, CoveredStill
<1>6. Covered(r, q'.toSend, WillTry(Sends)', q'.cRxLock)
  BY <1>1, <1>2, <1>3, <1>4, TriesAre, CoveredStill
<1> QED BY <1>2, <1>5, <1>6, Forms

\* A message comes while the queue is not locked for it: a receiver is woken.
LEMMA CoveredSend ==
  ASSUME IInv, NEW n \in Lengths, q \in Queue_t(n), q' \in Queue_t(n), NEW X, Others(X), NEW t,
         q.cTxLock = -1, q'.cTxLock = -1, q'.cRxLock = q.cRxLock,
         q'.toSend = q.toSend, q'.toReceive \subseteq q.toReceive,
         q'.toReceive = {} \/ Cardinality(q.toReceive \ q'.toReceive) = 1,
         \/ q.uxMessagesWaiting < n /\ q'.uxMessagesWaiting = q.uxMessagesWaiting + 1
         \/ q.uxMessagesWaiting = n /\ q'.uxMessagesWaiting = n,
         X \cap (WillTry(Reads) \cup q.toReceive) = {}, X \subseteq {t},
         \A x \in q.toReceive : pc[x] # "unlockTx"
  PROVE  NoLostMessage' /\ NoLostRoom'
<1> DEFINE i == q.uxMessagesWaiting
           j == q'.uxMessagesWaiting
           r == q.uxLength - q.uxMessagesWaiting
           k == q'.uxLength - q'.uxMessagesWaiting
<1>1. /\ q.uxLength = n /\ n \in Nat /\ i \in Int /\ r \in Int /\ q.cRxLock \in Int
      /\ q.toSend \subseteq Tasks /\ q.toReceive \subseteq Tasks
  BY Numbers
<1>2. q'.uxLength = n /\ j \in Int /\ k \in Int
  BY Numbers
<1>3. /\ Covered(i, q.toReceive, WillTry(Reads), -1)
      /\ Covered(r, q.toSend, WillTry(Sends), q.cRxLock)
  BY Forms DEF IInv, LostInv
<1>4. /\ WillTry(Reads) \ X \subseteq WillTry(Reads)' /\ WillTry(Sends) \ X \subseteq WillTry(Sends)'
      /\ \A x \in q.toReceive \ q'.toReceive :
           x \notin X /\ pc[x] # "unlockTx" => x \in WillTry(Reads)'
  BY <1>1, Tries DEF IInv, LostInv
<1>5. WillTry(Reads) \cup (q.toReceive \ q'.toReceive) \subseteq WillTry(Reads)'
  BY <1>4
<1>6. WillTry(Sends) \ {t} \subseteq WillTry(Sends)'
  BY <1>4
<1>7. j <= i + 1 /\ (k = r - 1 \/ k <= 0)
  BY <1>1, <1>2, SMT
<1> HIDE DEF i, j, r, k
<1>8. Covered(j, q'.toReceive, WillTry(Reads)', -1)
  BY <1>1, <1>2, <1>3, <1>5, <1>7, TriesAre, CoveredWoken
<1>9. CASE k = r - 1
  <2>0. q.toSend \subseteq q.toSend
    OBVIOUS
  <2>1. Covered(r - 1, q.toSend, WillTry(Sends)', q.cRxLock)
    BY <1>1, <1>3, <1>6, <2>0, TriesAre, CoveredTaken
  <2> QED BY <1>8, <1>9, <2>1, Forms DEF j, k
<1>10. CASE k <= 0
  <2>1. Covered(k, q'.toSend, WillTry(Sends)', q.cRxLock)
    BY <1>1, <1>2, <1>10, TriesAre, CoveredNone
  <2> QED BY <1>8, <2>1, Forms DEF j, k
<1> QED BY <1>7, <1>9, <1>10

\* A message is taken while the queue is not locked for it: a sender is woken.
LEMMA CoveredReceive ==
  ASSUME IInv, NEW n \in Lengths, q \in Queue_t(n), q' \in Queue_t(n), NEW X, Others(X), NEW t,
         q.cRxLock = -1, q'.cRxLock = -1, q'.cTxLock = q.cTxLock,
         q'.toReceive = q.toReceive, q'.toSend \subseteq q.toSend,
         q'.toSend = {} \/ Cardinality(q.toSend \ q'.toSend) = 1,
         q'.uxMessagesWaiting = q.uxMessagesWaiting - 1,
         X \cap (WillTry(Sends) \cup q.toSend) = {}, X \subseteq {t},
         \A x \in q.toSend : pc[x] # "unlockTx"
  PROVE  NoLostMessage' /\ NoLostRoom'
<1> DEFINE i == q.uxMessagesWaiting
           j == q'.uxMessagesWaiting
           r == q.uxLength - q.uxMessagesWaiting
           k == q'.uxLength - q'.uxMessagesWaiting
<1>1. /\ q.uxLength = n /\ n \in Nat /\ i \in Int /\ r \in Int /\ q.cTxLock \in Int
      /\ q.toSend \subseteq Tasks /\ q.toReceive \subseteq Tasks
  BY Numbers
<1>2. q'.uxLength = n /\ j \in Int /\ k \in Int
  BY Numbers
<1>3. /\ Covered(i, q.toReceive, WillTry(Reads), q.cTxLock)
      /\ Covered(r, q.toSend, WillTry(Sends), -1)
  BY Forms DEF IInv, LostInv
<1>4. /\ WillTry(Reads) \ X \subseteq WillTry(Reads)' /\ WillTry(Sends) \ X \subseteq WillTry(Sends)'
      /\ \A x \in q.toSend \ q'.toSend :
           x \notin X /\ pc[x] # "unlockTx" => x \in WillTry(Sends)'
  BY <1>1, Tries DEF IInv, LostInv
<1>5. WillTry(Sends) \cup (q.toSend \ q'.toSend) \subseteq WillTry(Sends)'
  BY <1>4
<1>6. WillTry(Reads) \ {t} \subseteq WillTry(Reads)'
  BY <1>4
<1>7. k <= r + 1 /\ j = i - 1
  BY <1>1, <1>2, SMT
<1> HIDE DEF i, j, r, k
<1>8. Covered(k, q'.toSend, WillTry(Sends)', -1)
  BY <1>1, <1>2, <1>3, <1>5, <1>7, TriesAre, CoveredWoken
<1>9. Covered(i - 1, q'.toReceive, WillTry(Reads)', q.cTxLock)
  BY <1>1, <1>3, <1>6, TriesAre, CoveredTaken
<1> QED BY <1>7, <1>8, <1>9, Forms DEF j, k

\* An interrupt's message, or the room it makes, is counted while the queue is locked.
LEMMA CoveredByISR ==
  ASSUME IInv, NEW n \in Lengths, q \in Queue_t(n), q' \in Queue_t(n),
         UNCHANGED <<pc, op, expired>>, q'.toSend = q.toSend, q'.toReceive = q.toReceive,
         \/ /\ q.cTxLock >= 0 /\ q'.cTxLock = Increment(q.cTxLock) /\ q'.cRxLock = q.cRxLock
            /\ \/ q'.uxMessagesWaiting = q.uxMessagesWaiting + 1
               \/ q'.uxMessagesWaiting = q.uxMessagesWaiting
         \/ /\ q.cRxLock >= 0 /\ q'.cRxLock = Increment(q.cRxLock) /\ q'.cTxLock = q.cTxLock
            /\ q'.uxMessagesWaiting = q.uxMessagesWaiting - 1
  PROVE  NoLostMessage' /\ NoLostRoom' /\ PlaceInv'
<1> DEFINE i == q.uxMessagesWaiting
           j == q'.uxMessagesWaiting
           r == q.uxLength - q.uxMessagesWaiting
           k == q'.uxLength - q'.uxMessagesWaiting
           l == q.cTxLock
           m == q.cRxLock
<1>1. /\ q.uxLength = n /\ n \in Nat /\ i \in Int /\ r \in Int /\ l \in Int /\ m \in Int
      /\ q.toSend \subseteq Tasks /\ q.toReceive \subseteq Tasks
      /\ l <= Cardinality(Tasks) /\ m <= Cardinality(Tasks) /\ Cardinality(Tasks) \in Nat
  BY Numbers, Fields, TaskCount
<1>2. q'.uxLength = n /\ j \in Int /\ k \in Int
  BY Numbers
<1>3. /\ Covered(i, q.toReceive, WillTry(Reads), l)
      /\ Covered(r, q.toSend, WillTry(Sends), m)
  BY Forms DEF IInv, LostInv
<1>4. WillTry(Reads)' = WillTry(Reads) /\ WillTry(Sends)' = WillTry(Sends)
  BY DEF WillTry
<1>P. \A t \in Tasks : pc[t] = "place" =>
        /\ expired[t] = FALSE
        /\ op[t] \in Reads => i <= l \/ Cardinality(Tasks) <= l
        /\ op[t] \in Sends => r <= m \/ Cardinality(Tasks) <= m
  BY DEF IInv, LostInv, PlaceInv
<1>5. CASE /\ l >= 0 /\ q'.cTxLock = Increment(l) /\ q'.cRxLock = m
           /\ j = i + 1 \/ j = i
  <2>1. j <= i + 1 /\ k <= r /\ m <= m
    BY <1>1, <1>2, <1>5, SMT
  <2>2. \/ Increment(l) = l + 1
        \/ Increment(l) = l /\ Cardinality(Tasks) <= l
    BY <1>1, SMT DEF Increment
  <2> HIDE DEF i, j, r, k, l, m
  <2>3. Covered(j, q.toReceive, WillTry(Reads), Increment(l))
    BY <1>1, <1>2, <1>3, <1>5, <2>1, TriesAre, CoveredCounted
  <2>4. Covered(k, q.toSend, WillTry(Sends), m)
    BY <1>1, <1>2, <1>3, <2>1, TriesAre, CoveredStill
  <2>5. NoLostMessage' /\ NoLostRoom'
    BY <1>4, <1>5, <2>3, <2>4, Forms DEF j, k
  <2>6. \A t \in Tasks : pc[t] = "place" =>
          /\ expired[t] = FALSE
          /\ op[t] \in Reads => j <= Increment(l) \/ Cardinality(Tasks) <= Increment(l)
          /\ op[t] \in Sends => k <= m \/ Cardinality(Tasks) <= m
    <3>1. i <= l \/ Cardinality(Tasks) <= l => j <= Increment(l) \/ Cardinality(Tasks) <= Increment(l)
      BY <1>1, <1>2, <2>1, <2>2, SMT
    <3>2. r <= m \/ Cardinality(Tasks) <= m => k <= m \/ Cardinality(Tasks) <= m
      BY <1>1, <1>2, <2>1, SMT
    <3> QED BY <1>P, <3>1, <3>2
  <2>7. PlaceInv'
    BY <1>5, <2>6 DEF PlaceInv, j, k
  <2> QED BY <2>5, <2>7
<1>6. CASE /\ m >= 0 /\ q'.cRxLock = Increment(m) /\ q'.cTxLock = l
           /\ j = i - 1
  <2>1. k <= r + 1 /\ j <= i /\ l <= l
    BY <1>1, <1>2, <1>6, SMT
  <2>2. \/ Increment(m) = m + 1
        \/ Increment(m) = m /\ Cardinality(Tasks) <= m
    BY <1>1, SMT DEF Increment
  <2> HIDE DEF i, j, r, k, l, m
  <2>3. Covered(k, q.toSend, WillTry(Sends), Increment(m))
    BY <1>1, <1>2, <1>3, <1>6, <2>1, TriesAre, CoveredCounted
  <2>4. Covered(j, q.toReceive, WillTry(Reads), l)
    BY <1>1, <1>2, <1>3, <2>1, TriesAre, CoveredStill
  <2>5. NoLostMessage' /\ NoLostRoom'
    BY <1>4, <1>6, <2>3, <2>4, Forms DEF j, k
  <2>6. \A t \in Tasks : pc[t] = "place" =>
          /\ expired[t] = FALSE
          /\ op[t] \in Reads => j <= l \/ Cardinality(Tasks) <= l
          /\ op[t] \in Sends => k <= Increment(m) \/ Cardinality(Tasks) <= Increment(m)
    <3>1. i <= l \/ Cardinality(Tasks) <= l => j <= l \/ Cardinality(Tasks) <= l
      BY <1>1, <1>2, <2>1, SMT
    <3>2. r <= m \/ Cardinality(Tasks) <= m => k <= Increment(m) \/ Cardinality(Tasks) <= Increment(m)
      BY <1>1, <1>2, <2>1, <2>2, SMT
    <3> QED BY <1>P, <3>1, <3>2
  <2>7. PlaceInv'
    BY <1>6, <2>6 DEF PlaceInv, j, k
  <2> QED BY <2>5, <2>7
<1> QED BY <1>5, <1>6

\* The steps of a call that neither wake a task nor put one on a list.
LEMMA LostQuiet ==
  ASSUME IInv, BufferInv', NEW n \in Lengths, q \in Queue_t(n), q' \in Queue_t(n), NEW t \in Tasks,
         q'.uxMessagesWaiting = q.uxMessagesWaiting, q'.toSend = q.toSend, q'.toReceive = q.toReceive,
         q.cTxLock <= q'.cTxLock, q.cRxLock <= q'.cRxLock,
         Others({t}), t \notin WillTry(Reads), t \notin WillTry(Sends),
         t \notin q.toSend \cup q.toReceive
  PROVE  NoLostMessage' /\ NoLostRoom' /\ WaitInv'
<1>1. q.toSend \subseteq Tasks /\ q.toReceive \subseteq Tasks
  BY Numbers
<1>2. /\ WillTry(Reads) \subseteq WillTry(Reads)' /\ WillTry(Sends) \subseteq WillTry(Sends)'
      /\ WaitInv'
  BY <1>1, Tries DEF IInv, LostInv
<1> QED BY <1>2, CoveredQuiet

\* A call that finds neither room nor message gives up or goes on to wait.
LEMMA LostFails ==
  ASSUME IInv, BufferInv', NEW n \in Lengths, q \in Queue_t(n), NEW t \in Tasks,
         pc[t] = "try", sched = NoTask, sched' = sched, Fails(t),
         \/ op[t] \in Reads /\ q.uxMessagesWaiting = 0
         \/ op[t] \in Sends /\ q.uxMessagesWaiting = n,
         t \notin q.toSend \cup q.toReceive
  PROVE  LostInv'
<1>0. q' = q /\ PlaceInv'
  BY NobodyPlaces DEF Fails
<1>1. Others({t})
  BY DEF Fails, GoTo, Return, Others, QueueTypeOK, IInv, BufferInv
<1>2. /\ q.toSend \subseteq Tasks /\ q.toReceive \subseteq Tasks /\ q.uxLength = n /\ n \in Nat
      /\ q.uxMessagesWaiting \in Int /\ q.uxLength - q.uxMessagesWaiting \in Int
      /\ q.cTxLock \in Int /\ q.cRxLock \in Int
  BY Numbers
<1>3. /\ WillTry(Reads) \ {t} \subseteq WillTry(Reads)' /\ WillTry(Sends) \ {t} \subseteq WillTry(Sends)'
      /\ WaitInv'
  BY <1>0, <1>1, <1>2, Tries DEF IInv, LostInv
<1>4. Reads \cap Sends = {}
  BY DEF Reads, Sends
<1>5. /\ Covered(q.uxMessagesWaiting, q.toReceive, WillTry(Reads), q.cTxLock)
      /\ Covered(q.uxLength - q.uxMessagesWaiting, q.toSend, WillTry(Sends), q.cRxLock)
  BY Forms DEF IInv, LostInv
<1> DEFINE i == q.uxMessagesWaiting
           r == q.uxLength - q.uxMessagesWaiting
<1>6. CASE op[t] \in Reads /\ i = 0
  <2>1. WillTry(Sends) \subseteq WillTry(Sends)'
    BY <1>3, <1>4, <1>6 DEF WillTry
  <2>2. r <= r /\ q.cRxLock <= q.cRxLock /\ i <= 0
    BY <1>2, <1>6, SMT
  <2> HIDE DEF i, r
  <2>3. Covered(i, q.toReceive, WillTry(Reads)', q.cTxLock)
    BY <1>2, <2>2, TriesAre, CoveredNone DEF i
  <2>4. q.toSend \subseteq q.toSend
    OBVIOUS
  <2>5. Covered(r, q.toSend, WillTry(Sends)', q.cRxLock)
    BY <1>2, <1>5, <2>1, <2>2, <2>4, TriesAre, CoveredStill DEF r
  <2> QED BY <1>0, <1>3, <2>3, <2>5, Forms DEF i, r, LostInv
<1>7. CASE op[t] \in Sends /\ i = n
  <2>1. WillTry(Reads) \subseteq WillTry(Reads)'
    BY <1>3, <1>4, <1>7 DEF WillTry
  <2>2. i <= i /\ q.cTxLock <= q.cTxLock /\ r <= 0
    BY <1>2, <1>7, SMT
  <2> HIDE DEF i, r
  <2>3. Covered(r, q.toSend, WillTry(Sends)', q.cRxLock)
    BY <1>2, <2>2, TriesAre, CoveredNone DEF r
  <2>4. q.toReceive \subseteq q.toReceive
    OBVIOUS
  <2>5. Covered(i, q.toReceive, WillTry(Reads)', q.cTxLock)
    BY <1>2, <1>5, <2>1, <2>2, <2>4, TriesAre, CoveredStill DEF i
  <2> QED BY <1>0, <1>3, <2>3, <2>5, Forms DEF i, r, LostInv
<1> QED BY <1>6, <1>7

\* The head of the loop.
LEMMA LostTry ==
  ASSUME IInv, BufferInv', NEW n \in Lengths, q \in Queue_t(n), q' \in Queue_t(n), NEW t \in Tasks,
         TrySend(t) \/ TryReceive(t) \/ TryPeek(t)
  PROVE  LostInv'
<1> USE DEF IInv
<1>0. /\ pc[t] = "try" /\ sched = NoTask /\ sched' = sched /\ t \notin q.toSend \cup q.toReceive
      /\ q.cTxLock = -1 /\ q.cRxLock = -1
  BY WhoRuns DEF TrySend, TryReceive, TryPeek, Locked
<1>1. PlaceInv'
  BY <1>0, NobodyPlaces
<1>2. /\ Ring(q) /\ pvBuffer \in Values /\ QueueTypeOK
      /\ q.uxLength = n /\ n \in Nat /\ q.uxMessagesWaiting \in Nat /\ q.uxMessagesWaiting <= n
      /\ q.toSend \subseteq Tasks /\ q.toReceive \subseteq Tasks
  BY Fields DEF BufferInv, QueueTypeOK
<1>3. Reads \cap Sends = {}
  BY DEF Reads, Sends
<1>4. \A x \in q.toSend \cup q.toReceive : pc[x] = "try"
  <2>1. \A x \in Tasks : pc[x] \notin Locked
    BY <1>0, QueueAssumption DEF BufferInv, LockInv
  <2> QED BY <1>2, <2>1 DEF LostInv, WaitInv, Locked
<1>5. CASE TrySend(t)
  <2>1. CASE HasRoom(q, op[t])
    <3>1. PICK v \in Values, position \in Positions(op[t]) :
            q' \in WakeReceivers(prvCopyDataToQueue(q, v, position), 1)
      BY <1>5, <2>1 DEF TrySend
    <3>2. op[t] \in Sends /\ (op[t] = "overwrite" => n = 1)
      BY <1>2, <1>5 DEF BufferInv, OpInv, TrySend
    <3>3. /\ q'.cRxLock = q.cRxLock /\ q'.cTxLock = q.cTxLock /\ q'.toSend = q.toSend
          /\ q'.toReceive \subseteq q.toReceive
          /\ q'.toReceive = {} \/ Cardinality(q.toReceive \ q'.toReceive) = 1
          /\ \/ q.uxMessagesWaiting < n /\ q'.uxMessagesWaiting = q.uxMessagesWaiting + 1
             \/ q.uxMessagesWaiting = n /\ q'.uxMessagesWaiting = n
      <4>1. Sending(n, op[t], v, position)
        BY <1>2, <2>1, <3>1, <3>2 DEF Sending
      <4> QED BY ONLY n \in Lengths, <3>1, <4>1, SendEffect
    <3>4. Others({t})
      BY <1>2, <1>5, <2>1, ReturnMoves DEF TrySend
    <3>5. WaitInv'
      BY <1>0, <1>2, <3>3, <3>4, Tries DEF LostInv
    <3>6. {t} \cap (WillTry(Reads) \cup q.toReceive) = {} /\ {t} \subseteq {t}
      BY <1>0, <1>3, <3>2 DEF WillTry
    <3>7. \A x \in q.toReceive : pc[x] # "unlockTx"
      BY <1>4
    <3>8. NoLostMessage' /\ NoLostRoom'
      BY <1>0, <3>3, <3>4, <3>6, <3>7, CoveredSend
    <3> QED BY <1>1, <3>5, <3>8 DEF LostInv
  <2>2. CASE ~HasRoom(q, op[t])
    <3>1. Fails(t) /\ op[t] \in Sends
      BY <1>5, <2>2 DEF TrySend
    <3>2. q.uxMessagesWaiting = n
      BY <1>2, <2>2, SMT DEF HasRoom
    <3> QED BY <1>0, <3>1, <3>2, LostFails
  <2> QED BY <2>1, <2>2
<1>6. CASE TryReceive(t)
  <2>0. op[t] = "receive" /\ op[t] \in Reads
    BY <1>6 DEF TryReceive, Reads
  <2>1. CASE q.uxMessagesWaiting > 0 /\ q' \in WakeSenders(Received(q), 1) /\ Return(t)
    <3>1. /\ q'.cRxLock = q.cRxLock /\ q'.cTxLock = q.cTxLock /\ q'.toReceive = q.toReceive
          /\ q'.toSend \subseteq q.toSend
          /\ q'.toSend = {} \/ Cardinality(q.toSend \ q'.toSend) = 1
          /\ q'.uxMessagesWaiting = q.uxMessagesWaiting - 1
      BY <1>2, <2>1, ReceiveEffect
    <3>2. Others({t})
      BY <1>2, <2>1, ReturnMoves
    <3>3. WaitInv'
      BY <1>0, <1>2, <3>1, <3>2, Tries DEF LostInv
    <3>4. {t} \cap (WillTry(Sends) \cup q.toSend) = {} /\ {t} \subseteq {t}
      BY <1>0, <1>3, <2>0 DEF WillTry
    <3>5. \A x \in q.toSend : pc[x] # "unlockTx"
      BY <1>4
    <3>6. NoLostMessage' /\ NoLostRoom'
      BY <1>0, <3>1, <3>2, <3>4, <3>5, CoveredReceive
    <3> QED BY <1>1, <3>3, <3>6 DEF LostInv
  <2>2. CASE q.uxMessagesWaiting = 0 /\ Fails(t)
    BY <1>0, <2>0, <2>2, LostFails
  <2> QED BY <1>6, <2>1, <2>2 DEF TryReceive
<1>7. CASE TryPeek(t)
  <2>0. op[t] = "peek" /\ op[t] \in Reads
    BY <1>7 DEF TryPeek, Reads
  <2>1. CASE q.uxMessagesWaiting > 0 /\ q' \in WakeReceivers(q, 1) /\ Return(t)
    <3>1. /\ SameBuffer(q, q')
          /\ q'.cRxLock = q.cRxLock /\ q'.cTxLock = q.cTxLock /\ q'.toSend = q.toSend
          /\ q'.toReceive \subseteq q.toReceive
          /\ q'.toReceive = {} \/ Cardinality(q.toReceive \ q'.toReceive) = 1
      BY <2>1, OneOfReceivers
    <3>2. Others({t})
      BY <1>2, <2>1, ReturnMoves
    <3>3. /\ WaitInv'
          /\ WillTry(Reads) \ {t} \subseteq WillTry(Reads)'
          /\ WillTry(Sends) \ {t} \subseteq WillTry(Sends)'
          /\ \A x \in q.toReceive \ q'.toReceive :
               x \notin {t} /\ pc[x] # "unlockTx" => x \in WillTry(Reads)'
      BY <1>0, <1>2, <3>1, <3>2, Tries DEF LostInv
    <3>4. (WillTry(Reads) \ {t}) \cup (q.toReceive \ q'.toReceive) \subseteq WillTry(Reads)'
      BY <1>0, <1>4, <3>3
    <3>5. WillTry(Sends) \subseteq WillTry(Sends)'
      BY <1>3, <2>0, <3>3 DEF WillTry
    <3> DEFINE i == q.uxMessagesWaiting
               r == q.uxLength - q.uxMessagesWaiting
    <3>6. /\ q'.uxMessagesWaiting = i /\ q'.uxLength - q'.uxMessagesWaiting = r
          /\ i \in Int /\ r \in Int /\ r <= r
      BY <1>2, <3>1, SMT DEF SameBuffer
    <3>7. /\ Covered(i, q.toReceive, WillTry(Reads), -1)
          /\ Covered(r, q.toSend, WillTry(Sends), -1)
      BY <1>0, Forms DEF LostInv
    <3> HIDE DEF i, r
    <3>8. Covered(i, q'.toReceive, WillTry(Reads)', -1)
      <4> DEFINE w == q.toReceive
                 x == q'.toReceive
                 T == WillTry(Reads)
                 V == WillTry(Reads)'
      <4>1. /\ w \subseteq Tasks /\ T \subseteq Tasks /\ V \subseteq Tasks /\ x \subseteq w
            /\ T \cap w = {} /\ (x = {} \/ Cardinality(w \ x) = 1)
            /\ (T \ {t}) \cup (w \ x) \subseteq V /\ Covered(i, w, T, -1)
        BY <1>2, <3>1, <3>4, <3>7, TriesAre
      <4> HIDE DEF w, x, T, V
      <4>2. Covered(i, x, V, -1)
        BY <3>6, <4>1, CoveredHanded
      <4> QED BY <4>2 DEF x, V
    <3>9. q.toSend \subseteq q.toSend /\ -1 <= -1 /\ -1 \in Int
      OBVIOUS
    <3>10. Covered(r, q.toSend, WillTry(Sends)', -1)
      BY <1>2, <3>5, <3>6, <3>7, <3>9, TriesAre, CoveredStill
    <3> QED BY <1>0, <1>1, <3>1, <3>3, <3>6, <3>8, <3>10, Forms DEF LostInv
  <2>2. CASE q.uxMessagesWaiting = 0 /\ Fails(t)
    BY <1>0, <2>0, <2>2, LostFails
  <2> QED BY <1>7, <2>1, <2>2 DEF TryPeek
<1> QED BY <1>5, <1>6, <1>7

LEMMA NobodyElsePlaces ==
  ASSUME BufferInv', NEW t \in Tasks, sched' = t, pc'[t] # "place"
  PROVE  PlaceInv'
<1>1. \A x \in Tasks : pc'[x] # "place"
  BY DEF BufferInv, LockInv, Locked
<1> QED BY <1>1 DEF PlaceInv

\* From the lock to the list.
LEMMA LostPlace ==
  ASSUME IInv, BufferInv', NEW n \in Lengths, q \in Queue_t(n), q' \in Queue_t(n), NEW t \in Tasks,
         SuspendAndLock(t) \/ CheckAndTest(t) \/ Place(t)
  PROVE  LostInv'
<1> USE DEF IInv
<1>0. /\ QueueTypeOK /\ q.uxLength = n /\ n \in Nat /\ q.uxMessagesWaiting \in Nat
      /\ q.cTxLock \in Int /\ q.cRxLock \in Int
      /\ q.toSend \subseteq Tasks /\ q.toReceive \subseteq Tasks
  BY Fields DEF BufferInv
<1>1. CASE SuspendAndLock(t)
  <2>1. /\ pc[t] = "suspend" /\ t \notin q.toSend \cup q.toReceive
        /\ q.cTxLock = -1 /\ q.cRxLock = -1
    BY <1>1, WhoRuns DEF SuspendAndLock, Locked
  <2>2. /\ q'.uxMessagesWaiting = q.uxMessagesWaiting /\ q'.toSend = q.toSend
        /\ q'.toReceive = q.toReceive /\ q'.cTxLock = 0 /\ q'.cRxLock = 0
        /\ sched' = t /\ pc' = [pc EXCEPT ![t] = "check"]
    BY <1>1, <2>1 DEF SuspendAndLock, Locking, queueUNLOCKED, queueLOCKED_UNMODIFIED, GoTo, Queue_t
  <2>3. Others({t})
    BY <1>0, <1>1 DEF SuspendAndLock, GoTo, Others, QueueTypeOK
  <2>4. t \notin WillTry(Reads) /\ t \notin WillTry(Sends)
    BY <2>1 DEF WillTry
  <2>5. q.cTxLock <= q'.cTxLock /\ q.cRxLock <= q'.cRxLock
    BY <2>1, <2>2, SMT
  <2>6. NoLostMessage' /\ NoLostRoom' /\ WaitInv'
    BY <2>1, <2>2, <2>3, <2>4, <2>5, LostQuiet
  <2>7. pc'[t] # "place"
    BY <1>0, <2>2 DEF QueueTypeOK
  <2>8. PlaceInv'
    BY <2>2, <2>7, NobodyElsePlaces
  <2> QED BY <2>6, <2>8 DEF LostInv
<1>2. CASE CheckAndTest(t)
  <2>1. pc[t] = "check" /\ sched = t /\ q' = q /\ sched' = sched
    BY <1>2, WhoRuns DEF CheckAndTest, Locked
  <2>2. Others({t})
    BY <1>0, <1>2 DEF CheckAndTest, GoTo, Others, QueueTypeOK
  <2>3. /\ t \notin WillTry(Reads) /\ t \notin WillTry(Sends)
        /\ t \notin q.toSend \cup q.toReceive
    BY <2>1 DEF WillTry, LostInv, WaitInv
  <2>4. q.cTxLock <= q.cTxLock /\ q.cRxLock <= q.cRxLock
    BY <1>0, SMT
  <2>5. NoLostMessage' /\ NoLostRoom' /\ WaitInv'
    BY <2>1, <2>2, <2>3, <2>4, LostQuiet
  <2>6. CASE pc'[t] # "place"
    BY <2>1, <2>5, <2>6, NobodyElsePlaces DEF LostInv
  <2>7. CASE pc'[t] = "place"
    <3>1. /\ expired[t] = FALSE /\ op' = op /\ expired' = expired
          /\ IF op[t] \in Reads THEN q.uxMessagesWaiting = 0 ELSE q.uxMessagesWaiting = q.uxLength
      BY <1>0, <1>2, <2>7 DEF CheckAndTest, GoTo, QueueTypeOK
    <3>2. \A x \in Tasks : pc'[x] = "place" => x = t
      BY <2>1 DEF BufferInv, LockInv, Locked
    <3>3. Reads \cap Sends = {}
      BY DEF Reads, Sends
    <3>4. q.cTxLock >= 0 /\ q.cRxLock >= 0
      BY <2>1 DEF BufferInv, LockInv
    <3>5. /\ op[t] \in Reads => q.uxMessagesWaiting <= q.cTxLock
          /\ op[t] \in Sends => q.uxLength - q.uxMessagesWaiting <= q.cRxLock
      <4>1. op[t] \in Reads => q.uxMessagesWaiting <= q.cTxLock
        BY <1>0, <3>1, <3>4, SMT
      <4>2. q.uxMessagesWaiting = q.uxLength => q.uxLength - q.uxMessagesWaiting <= q.cRxLock
        BY <1>0, <3>4, SMT
      <4> QED BY <3>1, <3>3, <4>1, <4>2
    <3>6. PlaceInv'
      BY <2>1, <3>1, <3>2, <3>5 DEF PlaceInv
    <3> QED BY <2>5, <3>6 DEF LostInv
  <2> QED BY <2>6, <2>7
<1>3. CASE Place(t)
  <2>1. pc[t] = "place" /\ sched = t /\ sched' = sched /\ pc' = [pc EXCEPT ![t] = "unlockTx"]
        /\ op' = op /\ expired' = expired
    BY <1>3, WhoRuns DEF Place, Locked, GoTo
  <2>2. q.cTxLock >= 0 /\ q.cRxLock >= 0
    BY <2>1 DEF BufferInv, LockInv
  <2>3. pc'[t] = "unlockTx" /\ \A x \in Tasks : x # t => pc'[x] = pc[x]
    BY <1>0, <2>1 DEF QueueTypeOK
  <2>4. PlaceInv'
    BY <2>1, <2>3, NobodyElsePlaces
  <2>5. /\ expired[t] = FALSE
        /\ op[t] \in Reads =>
             q.uxMessagesWaiting <= q.cTxLock \/ Cardinality(Tasks) <= q.cTxLock
        /\ op[t] \in Sends =>
             q.uxLength - q.uxMessagesWaiting <= q.cRxLock \/ Cardinality(Tasks) <= q.cRxLock
    BY <2>1 DEF LostInv, PlaceInv
  <2>6. op[t] \in Sends \cup Reads /\ Reads \cap Sends = {}
    BY <2>1 DEF BufferInv, OpInv, Reads, Sends
  <2>7. /\ WillTry(Reads) \subseteq WillTry(Reads)' /\ WillTry(Sends) \subseteq WillTry(Sends)'
    <3>1. /\ q'.toReceive \subseteq q.toReceive \cup {t}
          /\ q'.toSend \subseteq q.toSend \cup {t}
      BY <1>3 DEF Place, Queue_t
    <3> QED BY <2>1, <2>3, <3>1 DEF WillTry
  <2> DEFINE i == q.uxMessagesWaiting
             r == q.uxLength - q.uxMessagesWaiting
  <2>8. /\ Covered(i, q.toReceive, WillTry(Reads), q.cTxLock)
        /\ Covered(r, q.toSend, WillTry(Sends), q.cRxLock)
    BY Forms DEF LostInv
  <2>9. /\ i \in Int /\ r \in Int /\ i <= i /\ r <= r
        /\ q.cTxLock <= q.cTxLock /\ q.cRxLock <= q.cRxLock
    BY <1>0, SMT
  <2>10. CASE op[t] \in Reads
    <3>1. /\ q'.toReceive = q.toReceive \cup {t} /\ q'.toSend = q.toSend
          /\ q'.cTxLock = q.cTxLock /\ q'.cRxLock = q.cRxLock
          /\ q'.uxMessagesWaiting = i /\ q'.uxLength - q'.uxMessagesWaiting = r
      BY <1>3, <2>10 DEF Place, Queue_t
    <3>2. WaitInv'
      BY <2>1, <2>3, <2>5, <2>10, <3>1 DEF WaitInv, LostInv
    <3>3. q.toReceive \cup {t} \subseteq Tasks /\ (i <= q.cTxLock \/ Cardinality(Tasks) <= q.cTxLock)
      BY <1>0, <2>5, <2>10
    <3> HIDE DEF i, r
    <3>4. Covered(i, q.toReceive \cup {t}, WillTry(Reads)', q.cTxLock)
      BY <1>0, <2>2, <2>9, <3>3, TriesAre, CoveredPlaced
    <3>5. q.toSend \subseteq q.toSend
      OBVIOUS
    <3>6. Covered(r, q.toSend, WillTry(Sends)', q.cRxLock)
      BY <1>0, <2>7, <2>8, <2>9, <3>5, TriesAre, CoveredStill
    <3> QED BY <2>4, <3>1, <3>2, <3>4, <3>6, Forms DEF LostInv
  <2>11. CASE op[t] \notin Reads
    <3>0. op[t] \in Sends
      BY <2>6, <2>11
    <3>1. /\ q'.toSend = q.toSend \cup {t} /\ q'.toReceive = q.toReceive
          /\ q'.cTxLock = q.cTxLock /\ q'.cRxLock = q.cRxLock
          /\ q'.uxMessagesWaiting = i /\ q'.uxLength - q'.uxMessagesWaiting = r
      BY <1>3, <2>11 DEF Place, Queue_t
    <3>2. WaitInv'
      BY <2>1, <2>3, <2>5, <3>0, <3>1 DEF WaitInv, LostInv
    <3>3. q.toSend \cup {t} \subseteq Tasks /\ (r <= q.cRxLock \/ Cardinality(Tasks) <= q.cRxLock)
      BY <1>0, <2>5, <3>0
    <3> HIDE DEF i, r
    <3>4. Covered(r, q.toSend \cup {t}, WillTry(Sends)', q.cRxLock)
      BY <1>0, <2>2, <2>9, <3>3, TriesAre, CoveredPlaced
    <3>5. q.toReceive \subseteq q.toReceive
      OBVIOUS
    <3>6. Covered(i, q.toReceive, WillTry(Reads)', q.cTxLock)
      BY <1>0, <2>7, <2>8, <2>9, <3>5, TriesAre, CoveredStill
    <3> QED BY <2>4, <3>1, <3>2, <3>4, <3>6, Forms DEF LostInv
  <2> QED BY <2>10, <2>11
<1> QED BY <1>1, <1>2, <1>3

\* The two halves of prvUnlockQueue.
LEMMA LostUnlock ==
  ASSUME IInv, BufferInv', NEW n \in Lengths, q \in Queue_t(n), q' \in Queue_t(n), NEW t \in Tasks,
         UnlockTx(t) \/ UnlockRx(t)
  PROVE  LostInv'
<1> USE DEF IInv
<1> DEFINE i == q.uxMessagesWaiting
           r == q.uxLength - q.uxMessagesWaiting
<1>0. /\ QueueTypeOK /\ i \in Int /\ r \in Int /\ q.cTxLock \in Int /\ q.cRxLock \in Int
      /\ q.toSend \subseteq Tasks /\ q.toReceive \subseteq Tasks
  BY Numbers DEF BufferInv
<1>1. /\ Covered(i, q.toReceive, WillTry(Reads), q.cTxLock)
      /\ Covered(r, q.toSend, WillTry(Sends), q.cRxLock)
  BY Forms DEF LostInv
<1>2. Reads \cap Sends = {}
  BY DEF Reads, Sends
<1>3. -1 \in queueUNLOCKED .. Cardinality(Tasks)
  BY TaskCount, SMT DEF queueUNLOCKED
<1>4. i <= i /\ r <= r /\ q.cTxLock <= q.cTxLock /\ q.cRxLock <= q.cRxLock
  BY <1>0, SMT
<1>5. CASE UnlockTx(t)
  <2>1. /\ pc[t] = "unlockTx" /\ sched = t /\ sched' = sched
        /\ pc' = [pc EXCEPT ![t] = "unlockRx"] /\ op' = op /\ expired' = expired
    BY <1>5, WhoRuns DEF UnlockTx, Locked, GoTo
  <2>2. PICK s \in WakeReceivers(q, q.cTxLock) : q' = [s EXCEPT !.cTxLock = -1]
    BY <1>5 DEF UnlockTx, queueUNLOCKED
  <2>3. q.cTxLock \in Nat /\ 0 <= q.cTxLock
    BY <1>0, <2>1, SMT DEF BufferInv, LockInv
  <2>4. /\ s \in Queue_t(n) /\ SameBuffer(q, s) /\ s.cRxLock = q.cRxLock /\ s.toSend = q.toSend
        /\ s.toReceive \subseteq q.toReceive
        /\ s.toReceive = {} \/ Cardinality(q.toReceive \ s.toReceive) = q.cTxLock
    <3>1. PICK k \in Nat : k = q.cTxLock
      BY <2>3
    <3>2. s \in WakeReceivers(q, k)
      BY <2>2, <3>1
    <3>3. /\ s \in Queue_t(n) /\ SameBuffer(q, s) /\ s.cRxLock = q.cRxLock /\ s.toSend = q.toSend
          /\ s.toReceive \subseteq q.toReceive
          /\ s.toReceive = {} \/ Cardinality(q.toReceive \ s.toReceive) = k
      BY <3>2, WokenReceivers
    <3> QED BY <3>1, <3>3
  <2>5. /\ q'.cTxLock = -1 /\ q'.cRxLock = q.cRxLock /\ q'.toSend = q.toSend
        /\ q'.toReceive \subseteq q.toReceive
        /\ q'.toReceive = {} \/ Cardinality(q.toReceive \ q'.toReceive) = q.cTxLock
        /\ q'.uxMessagesWaiting = i /\ q'.uxLength - q'.uxMessagesWaiting = r
    BY <2>2, <2>4 DEF Queue_t, SameBuffer
  <2>6. pc'[t] = "unlockRx" /\ \A x \in Tasks : x # t => pc'[x] = pc[x] /\ pc[x] # "unlockTx"
    BY <1>0, <2>1 DEF QueueTypeOK, BufferInv, LockInv, Locked
  <2>7. PlaceInv'
    BY <2>1, <2>6, NobodyElsePlaces
  <2>8. WaitInv'
    BY <1>0, <2>1, <2>5, <2>6 DEF LostInv, WaitInv
  <2>9. Others({t})
    BY <2>1, <2>6 DEF Others
  <2>10. /\ WillTry(Reads) \ {t} \subseteq WillTry(Reads)' /\ WillTry(Sends) \ {t} \subseteq WillTry(Sends)'
         /\ \A x \in q.toReceive \ q'.toReceive :
              x \notin {t} /\ pc[x] # "unlockTx" => x \in WillTry(Reads)'
    BY <1>0, <2>5, <2>9, Tries DEF LostInv
  <2>11. t \in q.toReceive \ q'.toReceive => t \in WillTry(Reads)'
    BY <1>2, <2>1, <2>5, <2>6 DEF LostInv, WaitInv, WillTry
  <2>12. /\ WillTry(Reads) \cup (q.toReceive \ q'.toReceive) \subseteq WillTry(Reads)'
         /\ WillTry(Sends) \subseteq WillTry(Sends)'
    <3>1. t \notin WillTry(Reads) /\ t \notin WillTry(Sends)
      BY <2>1 DEF WillTry
    <3> QED BY <1>0, <2>6, <2>10, <2>11, <3>1
  <2> HIDE DEF i, r
  <2>13. Covered(i, q'.toReceive, WillTry(Reads)', -1)
    <3> DEFINE w == q.toReceive
               x == q'.toReceive
               T == WillTry(Reads)
               V == WillTry(Reads)'
    <3>1. /\ w \subseteq Tasks /\ T \subseteq Tasks /\ V \subseteq Tasks /\ x \subseteq w
          /\ T \cap w = {} /\ (x = {} \/ Cardinality(w \ x) = q.cTxLock)
          /\ T \cup (w \ x) \subseteq V /\ Covered(i, w, T, q.cTxLock)
      BY <1>0, <1>1, <2>5, <2>12, TriesAre
    <3> HIDE DEF w, x, T, V
    <3>2. Covered(i, x, V, -1)
      BY <1>0, <2>3, <3>1, CoveredUnlocked
    <3> QED BY <3>2 DEF x, V
  <2>14. q.toSend \subseteq q.toSend
    OBVIOUS
  <2>15. Covered(r, q.toSend, WillTry(Sends)', q.cRxLock)
    BY <1>0, <1>1, <1>4, <2>12, <2>14, TriesAre, CoveredStill
  <2> QED BY <2>5, <2>7, <2>8, <2>13, <2>15, Forms DEF LostInv
<1>6. CASE UnlockRx(t)
  <2>1. /\ pc[t] = "unlockRx" /\ sched = t /\ sched' = sched
        /\ pc' = [pc EXCEPT ![t] = "resume"] /\ op' = op /\ expired' = expired
    BY <1>6, WhoRuns DEF UnlockRx, Locked, GoTo
  <2>2. PICK s \in WakeSenders(q, q.cRxLock) : q' = [s EXCEPT !.cRxLock = -1]
    BY <1>6 DEF UnlockRx, queueUNLOCKED
  <2>3. q.cRxLock \in Nat /\ 0 <= q.cRxLock
    BY <1>0, <2>1, SMT DEF BufferInv, LockInv
  <2>4. /\ s \in Queue_t(n) /\ SameBuffer(q, s) /\ s.cTxLock = q.cTxLock /\ s.toReceive = q.toReceive
        /\ s.toSend \subseteq q.toSend
        /\ s.toSend = {} \/ Cardinality(q.toSend \ s.toSend) = q.cRxLock
    <3>1. PICK k \in Nat : k = q.cRxLock
      BY <2>3
    <3>2. s \in WakeSenders(q, k)
      BY <2>2, <3>1
    <3>3. /\ s \in Queue_t(n) /\ SameBuffer(q, s) /\ s.cTxLock = q.cTxLock /\ s.toReceive = q.toReceive
          /\ s.toSend \subseteq q.toSend
          /\ s.toSend = {} \/ Cardinality(q.toSend \ s.toSend) = k
      BY ONLY <3>2, q \in Queue_t(n), n \in Lengths, k \in Nat, WokenSenders
    <3> QED BY <3>1, <3>3
  <2>5. /\ q'.cRxLock = -1 /\ q'.cTxLock = q.cTxLock /\ q'.toReceive = q.toReceive
        /\ q'.toSend \subseteq q.toSend
        /\ q'.toSend = {} \/ Cardinality(q.toSend \ q'.toSend) = q.cRxLock
        /\ q'.uxMessagesWaiting = i /\ q'.uxLength - q'.uxMessagesWaiting = r
    BY <2>2, <2>4 DEF Queue_t, SameBuffer
  <2>6. pc'[t] = "resume" /\ \A x \in Tasks : x # t => pc'[x] = pc[x] /\ pc[x] # "unlockTx"
    BY <1>0, <2>1 DEF QueueTypeOK, BufferInv, LockInv, Locked
  <2>7. PlaceInv'
    BY <2>1, <2>6, NobodyElsePlaces
  <2>8. WaitInv'
    BY <1>0, <2>1, <2>5, <2>6 DEF LostInv, WaitInv
  <2>9. Others({t})
    BY <2>1, <2>6 DEF Others
  <2>10. \A x \in q.toSend \ q'.toSend : x \notin {t} /\ pc[x] # "unlockTx" => x \in WillTry(Sends)'
    BY <1>0, <2>5, <2>9, Tries DEF LostInv
  <2>11. t \in q.toSend \ q'.toSend => t \in WillTry(Sends)'
    BY <1>2, <2>1, <2>5, <2>6 DEF LostInv, WaitInv, WillTry
  <2>12. /\ WillTry(Sends) \cup (q.toSend \ q'.toSend) \subseteq WillTry(Sends)'
         /\ WillTry(Reads) \subseteq WillTry(Reads)'
    <3>1. WillTry(Reads) \subseteq WillTry(Reads)' /\ WillTry(Sends) \subseteq WillTry(Sends)'
      BY <2>1, <2>5, <2>6 DEF WillTry
    <3> QED BY <1>0, <2>6, <2>10, <2>11, <3>1
  <2> HIDE DEF i, r
  <2>13. Covered(r, q'.toSend, WillTry(Sends)', -1)
    <3> DEFINE w == q.toSend
               x == q'.toSend
               T == WillTry(Sends)
               V == WillTry(Sends)'
    <3>1. /\ w \subseteq Tasks /\ T \subseteq Tasks /\ V \subseteq Tasks /\ x \subseteq w
          /\ T \cap w = {} /\ (x = {} \/ Cardinality(w \ x) = q.cRxLock)
          /\ T \cup (w \ x) \subseteq V /\ Covered(r, w, T, q.cRxLock)
      BY <1>0, <1>1, <2>5, <2>12, TriesAre
    <3> HIDE DEF w, x, T, V
    <3>2. Covered(r, x, V, -1)
      BY <1>0, <2>3, <3>1, CoveredUnlocked
    <3> QED BY <3>2 DEF x, V
  <2>14. q.toReceive \subseteq q.toReceive
    OBVIOUS
  <2>15. Covered(i, q.toReceive, WillTry(Reads)', q.cTxLock)
    BY <1>0, <1>1, <1>4, <2>12, <2>14, TriesAre, CoveredStill
  <2> QED BY <2>5, <2>7, <2>8, <2>13, <2>15, Forms DEF LostInv
<1> QED BY <1>5, <1>6

\* The end of a round, and the calls and the ticks.
LEMMA LostRest ==
  ASSUME IInv, BufferInv', NEW n \in Lengths, q \in Queue_t(n), q' \in Queue_t(n), NEW t \in Tasks,
         \/ Resume(t) \/ Recheck(t) \/ Elapse(t) \/ \E o \in Sends \cup Reads : Call(t, o)
  PROVE  LostInv'
<1> USE DEF IInv
<1>0. /\ QueueTypeOK /\ q.cTxLock \in Int /\ q.cRxLock \in Int
      /\ q.toSend \subseteq Tasks /\ q.toReceive \subseteq Tasks
  BY Numbers DEF BufferInv
<1>1. q.cTxLock <= q.cTxLock /\ q.cRxLock <= q.cRxLock
  BY <1>0, SMT
<1>2. CASE Resume(t)
  <2>1. /\ pc[t] = "resume" /\ sched' = NoTask /\ q' = q
        /\ \/ expired[t] = FALSE /\ GoTo(t, "try")
           \/ expired[t] = TRUE /\ (GoTo(t, "recheck") \/ Return(t))
    BY <1>0, <1>2, WhoRuns DEF Resume, QueueTypeOK
  <2>2. Others({t})
    BY <1>0, <2>1 DEF GoTo, Return, Others, QueueTypeOK
  <2>3. expired[t] = FALSE => pc'[t] = "try" /\ op' = op /\ expired' = expired
    BY <1>0, <2>1 DEF GoTo, QueueTypeOK
  <2>4. WillTry(Reads) \subseteq WillTry(Reads)' /\ WillTry(Sends) \subseteq WillTry(Sends)'
    BY <2>1, <2>2, <2>3 DEF WillTry, Others
  <2>5. WaitInv'
    BY <1>0, <2>1, <2>2, <2>3 DEF WaitInv, LostInv, Others
  <2>6. NoLostMessage' /\ NoLostRoom'
    BY <1>1, <2>1, <2>4, CoveredQuiet
  <2> QED BY <2>1, <2>5, <2>6, NobodyPlaces DEF LostInv
<1>3. CASE Recheck(t)
  <2>1. /\ pc[t] = "recheck" /\ sched' = NoTask /\ q' = q
        /\ t \notin q.toSend \cup q.toReceive
        /\ GoTo(t, "try") \/ Return(t)
    BY <1>3, WhoRuns DEF Recheck, Locked
  <2>2. Others({t})
    BY <1>0, <2>1 DEF GoTo, Return, Others, QueueTypeOK
  <2>3. t \notin WillTry(Reads) /\ t \notin WillTry(Sends)
    BY <2>1 DEF WillTry
  <2>4. NoLostMessage' /\ NoLostRoom' /\ WaitInv'
    BY <1>1, <2>1, <2>2, <2>3, LostQuiet
  <2> QED BY <2>1, <2>4, NobodyPlaces DEF LostInv
<1>4. CASE Elapse(t)
  <2>1. /\ sched = NoTask /\ sched' = NoTask /\ pc' = pc /\ op' = op
        /\ expired' = [expired EXCEPT ![t] = TRUE]
        /\ q'.toSend = q.toSend \ {t} /\ q'.toReceive = q.toReceive \ {t}
        /\ q'.cTxLock = q.cTxLock /\ q'.cRxLock = q.cRxLock
        /\ q'.uxMessagesWaiting = q.uxMessagesWaiting
    BY <1>4 DEF Elapse, Queue_t
  <2>2. Others({t})
    BY <1>0, <2>1 DEF Others, QueueTypeOK
  <2>3. \A x \in Tasks : pc[x] \notin Locked
    BY <2>1, QueueAssumption DEF BufferInv, LockInv
  <2>4. WillTry(Reads) \subseteq WillTry(Reads)' /\ WillTry(Sends) \subseteq WillTry(Sends)'
    BY <2>1, <2>3 DEF WillTry, Locked
  <2>5. WaitInv'
    BY <1>0, <2>1, <2>2, Tries DEF LostInv
  <2>6. NoLostMessage' /\ NoLostRoom'
    BY <1>1, <2>1, <2>4, CoveredQuiet
  <2> QED BY <2>1, <2>5, <2>6, NobodyPlaces DEF LostInv
<1>5. ASSUME NEW o \in Sends \cup Reads, Call(t, o) PROVE LostInv'
  <2>1. /\ pc[t] = "out" /\ sched' = NoTask /\ q' = q
        /\ t \notin q.toSend \cup q.toReceive
        /\ pc' = [pc EXCEPT ![t] = "try"] /\ op' = [op EXCEPT ![t] = o] /\ expired' = expired
    BY <1>5, WhoRuns DEF Call, Locked
  <2>2. Others({t})
    BY <1>0, <2>1 DEF Others, QueueTypeOK
  <2>3. t \notin WillTry(Reads) /\ t \notin WillTry(Sends)
    BY <2>1 DEF WillTry
  <2>4. NoLostMessage' /\ NoLostRoom' /\ WaitInv'
    BY <1>1, <2>1, <2>2, <2>3, LostQuiet
  <2> QED BY <2>1, <2>4, NobodyPlaces DEF LostInv
<1> QED BY <1>2, <1>3, <1>4, <1>5

\* The interrupts.
LEMMA LostISR ==
  ASSUME IInv, BufferInv', NEW n \in Lengths, q \in Queue_t(n), q' \in Queue_t(n),
         \/ \E o \in Sends, v \in Values : \E position \in Positions(o) : SendFromISR(o, position, v)
         \/ ReceiveFromISR \/ PeekFromISR
  PROVE  LostInv'
<1> USE DEF IInv
<1>0. /\ Ring(q) /\ pvBuffer \in Values /\ q.uxLength = n
      /\ q.cTxLock \in Int /\ -1 <= q.cTxLock /\ q.cRxLock \in Int /\ -1 <= q.cRxLock
      /\ q.toSend \subseteq Tasks /\ q.toReceive \subseteq Tasks
      /\ UNCHANGED <<pc, op, expired>>
  BY Fields DEF BufferInv, QueueTypeOK, SendFromISR, ReceiveFromISR, PeekFromISR
<1>1. Others({})
  BY <1>0 DEF Others
<1>2. q'.toSend \subseteq q.toSend /\ q'.toReceive \subseteq q.toReceive => WaitInv'
  BY <1>0, <1>1, Tries DEF LostInv
<1>3. \A l \in Int : -1 <= l /\ l # -1 => l >= 0
  BY SMT
<1>4. ASSUME q.cTxLock = -1 \/ q.cRxLock = -1
      PROVE  \A x \in Tasks : pc[x] # "unlockTx" /\ pc[x] # "place"
  <2>1. ~(-1 >= 0)
    BY SMT
  <2> QED BY <1>4, <2>1 DEF BufferInv, LockInv
<1>5. ASSUME NEW o \in Sends, NEW v \in Values, NEW position \in Positions(o),
             SendFromISR(o, position, v)
      PROVE  LostInv'
  <2>1. HasRoom(q, o) /\ (o = "overwrite" => n = 1)
    BY <1>0, <1>5 DEF SendFromISR
  <2>S. Sending(n, o, v, position)
    BY <1>0, <2>1 DEF Sending
  <2>2. CASE q.cTxLock = -1 /\ q' \in WakeReceivers(prvCopyDataToQueue(q, v, position), 1)
    <3>1. /\ q'.cRxLock = q.cRxLock /\ q'.cTxLock = q.cTxLock /\ q'.toSend = q.toSend
          /\ q'.toReceive \subseteq q.toReceive
          /\ q'.toReceive = {} \/ Cardinality(q.toReceive \ q'.toReceive) = 1
          /\ \/ q.uxMessagesWaiting < n /\ q'.uxMessagesWaiting = q.uxMessagesWaiting + 1
             \/ q.uxMessagesWaiting = n /\ q'.uxMessagesWaiting = n
      BY ONLY n \in Lengths, <2>2, <2>S, SendEffect
    <3>2. WaitInv'
      BY <1>2, <3>1
    <3>3. PlaceInv'
      BY <1>0, <1>4, <2>2 DEF PlaceInv
    <3>4. /\ {} \cap (WillTry(Reads) \cup q.toReceive) = {} /\ {} \subseteq {NoTask}
          /\ \A x \in q.toReceive : pc[x] # "unlockTx"
      BY <1>0, <1>4, <2>2
    <3>5. NoLostMessage' /\ NoLostRoom'
      BY <1>1, <2>2, <3>1, <3>4, CoveredSend
    <3> QED BY <3>2, <3>3, <3>5 DEF LostInv
  <2>3. CASE /\ q.cTxLock # -1
             /\ q' = [prvCopyDataToQueue(q, v, position) EXCEPT !.cTxLock = Increment(@)]
    <3>2. /\ q'.cTxLock = Increment(q.cTxLock) /\ q'.cRxLock = q.cRxLock
          /\ q'.toSend = q.toSend /\ q'.toReceive = q.toReceive
          /\ \/ q.uxMessagesWaiting < n /\ q'.uxMessagesWaiting = q.uxMessagesWaiting + 1
             \/ q.uxMessagesWaiting = n /\ q'.uxMessagesWaiting = n
      BY ONLY n \in Lengths, <2>3, <2>S, SendCounted
    <3>3. q.cTxLock >= 0
      BY <1>0, <1>3, <2>3
    <3>4. NoLostMessage' /\ NoLostRoom' /\ PlaceInv'
      BY <1>0, <3>2, <3>3, CoveredByISR
    <3> QED BY <1>2, <3>2, <3>4 DEF LostInv
  <2> QED BY <1>5, <2>2, <2>3 DEF SendFromISR, queueUNLOCKED
<1>6. CASE ReceiveFromISR
  <2>1. q.uxMessagesWaiting > 0
    BY <1>6 DEF ReceiveFromISR
  <2>2. CASE q.cRxLock = -1 /\ q' \in WakeSenders(Received(q), 1)
    <3>1. /\ q'.cRxLock = q.cRxLock /\ q'.cTxLock = q.cTxLock /\ q'.toReceive = q.toReceive
          /\ q'.toSend \subseteq q.toSend
          /\ q'.toSend = {} \/ Cardinality(q.toSend \ q'.toSend) = 1
          /\ q'.uxMessagesWaiting = q.uxMessagesWaiting - 1
      BY <1>0, <2>1, <2>2, ReceiveEffect
    <3>2. WaitInv'
      BY <1>2, <3>1
    <3>3. PlaceInv'
      BY <1>0, <1>4, <2>2 DEF PlaceInv
    <3>4. /\ {} \cap (WillTry(Sends) \cup q.toSend) = {} /\ {} \subseteq {NoTask}
          /\ \A x \in q.toSend : pc[x] # "unlockTx"
      BY <1>0, <1>4, <2>2
    <3>5. NoLostMessage' /\ NoLostRoom'
      BY <1>1, <2>2, <3>1, <3>4, CoveredReceive
    <3> QED BY <3>2, <3>3, <3>5 DEF LostInv
  <2>3. CASE q.cRxLock # -1 /\ q' = [Received(q) EXCEPT !.cRxLock = Increment(@)]
    <3>2. /\ q'.cRxLock = Increment(q.cRxLock) /\ q'.cTxLock = q.cTxLock
          /\ q'.toSend = q.toSend /\ q'.toReceive = q.toReceive
          /\ q'.uxMessagesWaiting = q.uxMessagesWaiting - 1
      BY <1>0, <2>1, <2>3, ReceiveCounted
    <3>3. q.cRxLock >= 0
      BY <1>0, <1>3, <2>3
    <3>4. NoLostMessage' /\ NoLostRoom' /\ PlaceInv'
      BY <1>0, <3>2, <3>3, CoveredByISR
    <3> QED BY <1>2, <3>2, <3>4 DEF LostInv
  <2> QED BY <1>6, <2>2, <2>3 DEF ReceiveFromISR, queueUNLOCKED
<1>7. CASE PeekFromISR
  BY <1>0, <1>7 DEF PeekFromISR, LostInv, WaitInv, PlaceInv, NoLostMessage, NoLostRoom, WillTry
<1> QED BY <1>5, <1>6, <1>7

LEMMA IInvNext ==
  ASSUME IInv, [Next]_vars
  PROVE  IInv'
<1>1. PICK n \in Lengths : q \in Queue_t(n)
  BY DEF IInv, BufferInv, QueueTypeOK
<1>2. BufferInv' /\ q' \in Queue_t(n)
  BY <1>1, BufferNext DEF IInv, GoodStep
<1>3. CASE UNCHANGED vars
  BY <1>3 DEF vars, IInv, BufferInv, LostInv, QueueTypeOK, LockInv, OpInv, WaitInv, PlaceInv,
              NoLostMessage, NoLostRoom, WillTry
<1>4. ASSUME NEW t \in Tasks, Step(t) PROVE LostInv'
  BY <1>1, <1>2, <1>4, LostTry, LostPlace, LostUnlock, LostRest DEF Step
<1>5. ASSUME NEW t \in Tasks, Elapse(t) \/ \E o \in Sends \cup Reads : Call(t, o) PROVE LostInv'
  BY <1>1, <1>2, <1>5, LostRest
<1>6. CASE \/ \E o \in Sends, v \in Values : \E position \in Positions(o) : SendFromISR(o, position, v)
           \/ ReceiveFromISR \/ PeekFromISR
  BY <1>1, <1>2, <1>6, LostISR DEF IInv
<1> QED BY <1>2, <1>3, <1>4, <1>5, <1>6 DEF Next, IInv

LEMMA IInvInit == Init => IInv
<1> SUFFICES ASSUME Init PROVE IInv
  OBVIOUS
<1>1. BufferInv
  BY BufferInit
<1>2. q.toSend = {} /\ q.toReceive = {} /\ \A t \in Tasks : pc[t] = "out"
  BY DEF Init
<1>3. LostInv
  BY <1>2 DEF LostInv, WaitInv, PlaceInv, NoLostMessage, NoLostRoom
<1> QED BY <1>1, <1>3 DEF IInv

\* No wake-up for a message is lost, however the interrupts fall between a task's look
\* at the empty queue and its going to sleep.
THEOREM MessagesNotLost == Spec => []NoLostMessage
<1>1. IInv => NoLostMessage
  BY DEF IInv, LostInv
<1> QED BY <1>1, IInvInit, IInvNext, PTL DEF Spec

\* The same for the tasks that wait for room.
THEOREM RoomNotLost == Spec => []NoLostRoom
<1>1. IInv => NoLostRoom
  BY DEF IInv, LostInv
<1> QED BY <1>1, IInvInit, IInvNext, PTL DEF Spec
=============================================================================
