-------------------------- MODULE SpscTaskQueueProofs --------------------------
(***************************************************************************)
(* Proofs about SpscTaskQueue, for every set of tasks and every ring size  *)
(* the int8_t counter can serve.                                           *)
(***************************************************************************)
EXTENDS SpscTaskQueue, Sequences, TLAPS

\* What (i + 1) % kRingSize is on the slots of the ring.
LEMMA NextSlotValue ==
  ASSUME NEW i \in Slot
  PROVE  /\ NextSlot(i) \in Slot
         /\ i = kRingSize - 1 => NextSlot(i) = 0
         /\ i # kRingSize - 1 => NextSlot(i) = i + 1
  BY kRingSizeAssumption DEF Slot, NextSlot

\* int8_t arithmetic is integer arithmetic within its range.
LEMMA Int8Value ==
  ASSUME NEW n \in -128 .. 127
  PROVE  Int8(n) = n
  BY DEF Int8

-----------------------------------------------------------------------------
\* Publishing a task makes the ring one longer, removing one makes it one shorter.
LEMMA CountIncrement ==
  ASSUME NEW h \in Slot, NEW t \in Slot
  PROVE  LET count(hd, tl) == IF tl >= hd THEN tl - hd ELSE tl - hd + kRingSize
         IN  /\ count(h, t) \in 0 .. kRingSize - 1
             /\ NextSlot(t) # h <=> count(h, t) <= kRingSize - 2
             /\ t # h <=> count(h, t) >= 1
             /\ count(h, t) <= kRingSize - 2 => count(h, NextSlot(t)) = count(h, t) + 1
             /\ count(h, t) >= 1 => count(NextSlot(h), t) = count(h, t) - 1
  BY NextSlotValue, kRingSizeAssumption DEF Slot

\* The invariant holds in a new queue.
LEMMA InitIndInv == Init => IndInv
<1> SUFFICES ASSUME Init
             PROVE  IndInv
  OBVIOUS
<1>1. 0 \in Slot
  BY kRingSizeAssumption DEF Slot
<1>2. pending_ \in -128 .. 127 /\ Count = 0
  <2>1. pending_ = 0 /\ head_ = 0 /\ tail_ = 0
    BY Zenon DEF Init
  <2> QED
    BY <2>1 DEF Count
<1>3. TypeOK
  BY <1>1, <1>2, Zenon DEF Init, TypeOK, ProducerPC, ConsumerPC
<1>4. PendingAccounting /\ pending_ >= 0
  <2>1. pending_ = 0 /\ pcP = "idle" /\ pcC = "claim"
    BY Zenon DEF Init
  <2>2. ~Claimed /\ Count = 0
    BY <1>2, <2>1 DEF Claimed
  <2>3. 0 = 0 - 0 - 0 /\ 0 >= -1 /\ 0 <= kRingSize - 1 /\ 0 >= 0
    BY kRingSizeAssumption
  <2> QED
    BY <2>1, <2>2, <2>3 DEF PendingAccounting
<1> QED
  BY <1>3, <1>4, Zenon DEF Init, IndInv, PopNeverEmpty, NoLostWakeup

\* Every access to shared memory that Push, SignalForKill and Pop make keeps it.
LEMMA NextIndInv == IndInv /\ [Next]_vars => IndInv'
<1> SUFFICES ASSUME IndInv, [Next]_vars
             PROVE  IndInv'
  OBVIOUS
<1> USE kRingSizeAssumption DEF IndInv, TypeOK, PendingAccounting, Count, Claimed, PopNeverEmpty,
        NoLostWakeup, ProducerPC, ConsumerPC
<1>1. CASE \E t \in Task : Push(t)
  BY <1>1 DEF Push
<1>2. CASE SignalForKill
  BY <1>2 DEF SignalForKill
<1>3. CASE Enqueue
  BY <1>3, CountIncrement DEF Enqueue
<1>4. CASE EnqueueWrite
  BY <1>4 DEF EnqueueWrite
<1>5. CASE EnqueuePublish
  BY <1>5, CountIncrement, NextSlotValue DEF EnqueuePublish
<1>6. CASE PushAnnounce
  <2>1. pending_' = pending_ + 1
    BY <1>6, Int8Value, CountIncrement DEF PushAnnounce
  <2> QED
    BY <1>6, <2>1, CountIncrement DEF PushAnnounce
<1>7. CASE PushNotify
  BY <1>7 DEF PushNotify, WakeConsumer
<1>8. CASE KillLock
  BY <1>8 DEF KillLock
<1>9. CASE KillStore
  BY <1>9 DEF KillStore
<1>10. CASE KillNotify
  BY <1>10 DEF KillNotify, WakeConsumer
<1>11. CASE PopClaim
  BY <1>11, Int8Value DEF PopClaim
<1>12. CASE PopLock
  BY <1>12 DEF PopLock
<1>13. CASE PopPredicate
  BY <1>13 DEF PopPredicate
<1>14. CASE SpuriousWakeup
  BY <1>14 DEF SpuriousWakeup
<1>15. CASE PopCheckExit
  BY <1>15 DEF PopCheckExit
<1>16. CASE PopCheckEmpty
  BY <1>16, CountIncrement DEF PopCheckEmpty
<1>17. CASE PopRead
  BY <1>17 DEF PopRead
<1>18. CASE PopAdvance
  BY <1>18, CountIncrement, NextSlotValue DEF PopAdvance
<1>19. CASE RunTask
  BY <1>19 DEF RunTask
<1>20. CASE PopSleep
  BY <1>20 DEF PopSleep
<1>21. CASE UNCHANGED vars
  BY <1>21 DEF vars
<1> QED
  BY <1>1, <1>2, <1>3, <1>4, <1>5, <1>6, <1>7, <1>8, <1>9, <1>10, <1>11, <1>12, <1>13, <1>14,
     <1>15, <1>16, <1>17, <1>18, <1>19, <1>20, <1>21 DEF Next, ProducerStep, ConsumerStep, Terminated

\* IndInv holds throughout every behaviour of the queue.
THEOREM Invariance == Spec => []IndInv
  BY InitIndInv, NextIndInv, PTL DEF Spec

-----------------------------------------------------------------------------
\* The sanity check of Pop never fires.
THEOREM PopNeverEmptyHolds == Spec => []PopNeverEmpty
  BY Invariance, PTL DEF IndInv

\* pending_ counts exactly the announced and unclaimed tasks, and never wraps.
THEOREM PendingAccountingHolds == Spec => []PendingAccounting
  BY Invariance, PTL DEF IndInv

\* No wake-up of the consumer is lost.
THEOREM NoLostWakeupHolds == Spec => []NoLostWakeup
  BY Invariance, PTL DEF IndInv

\* Push and Pop never access the same slot of buffer_ at the same time.
THEOREM NoSlotRaceHolds == Spec => []NoSlotRace
<1>1. IndInv => NoSlotRace
  BY CountIncrement, kRingSizeAssumption
     DEF IndInv, TypeOK, PendingAccounting, Count, Claimed, NoSlotRace
<1> QED
  BY <1>1, Invariance, PTL

-----------------------------------------------------------------------------
\* (h + j) % kRingSize, for the j-th slot after slot h.
LEMMA SlotAfter ==
  ASSUME NEW h \in Slot, NEW j \in 0 .. kRingSize
  PROVE  /\ h + j < kRingSize => (h + j) % kRingSize = h + j
         /\ h + j >= kRingSize /\ h + j < 2 * kRingSize => (h + j) % kRingSize = h + j - kRingSize
  BY kRingSizeAssumption DEF Slot

\* How many tasks the ring holds and how many of them Pop has read already.
LEMMA CountType ==
  ASSUME IndInv
  PROVE  /\ head_ \in Slot /\ tail_ \in Slot
         /\ Count \in 0 .. kRingSize - 1
         /\ Read \in 0 .. 1
         /\ Read <= Count
<1>1. head_ \in Slot /\ tail_ \in Slot
  BY DEF IndInv, TypeOK
<1>2. Count \in 0 .. kRingSize - 1
  BY <1>1, CountIncrement DEF Count
<1>3. Read \in 0 .. 1
  BY DEF Read
<1>4. pcC = "advance" => Count >= 1
  BY <1>2, kRingSizeAssumption DEF IndInv, PendingAccounting, Claimed
<1> QED
  BY <1>1, <1>2, <1>3, <1>4, kRingSizeAssumption DEF Read

\* The slots that RingItems names: they lie in the ring, and the free slot that
\* Push writes is none of them.
LEMMA ItemSlots ==
  ASSUME IndInv, NEW i \in 1 .. Count - Read
  PROVE  /\ (head_ + Read + i - 1) % kRingSize \in Slot
         /\ (head_ + Read + i - 1) % kRingSize # tail_
<1> DEFINE j == Read + i - 1
<1>1. j \in 0 .. kRingSize /\ j < Count
  BY CountType, kRingSizeAssumption
<1>2. head_ + Read + i - 1 = head_ + j
  BY CountType, kRingSizeAssumption DEF Slot
<1> HIDE DEF j
<1>3. (head_ + j) % kRingSize \in Slot /\ (head_ + j) % kRingSize # tail_
  <2>1. CASE head_ + j < kRingSize
    <3>1. (head_ + j) % kRingSize = head_ + j
      BY <1>1, <2>1, CountType, SlotAfter
    <3> QED
      BY <1>1, <2>1, <3>1, CountType, kRingSizeAssumption DEF Slot, Count
  <2>2. CASE head_ + j >= kRingSize
    <3>1. (head_ + j) % kRingSize = head_ + j - kRingSize
      BY <1>1, <2>2, CountType, SlotAfter, kRingSizeAssumption DEF Slot
    <3> QED
      BY <1>1, <2>2, <3>1, CountType, kRingSizeAssumption DEF Slot, Count
  <2> QED
    BY <1>1, <2>1, <2>2, CountType, kRingSizeAssumption DEF Slot
<1> QED
  BY <1>2, <1>3

\* RingItems is a sequence of Count - Read tasks.
LEMMA RingItemsType ==
  IndInv => /\ Count - Read \in 0 .. kRingSize - 1
            /\ RingItems \in Seq(Task)
            /\ Len(RingItems) = Count - Read
<1> SUFFICES ASSUME IndInv
             PROVE  /\ Count - Read \in 0 .. kRingSize - 1
                    /\ RingItems \in Seq(Task)
                    /\ Len(RingItems) = Count - Read
  OBVIOUS
<1>1. Count - Read \in 0 .. kRingSize - 1
  BY CountType, kRingSizeAssumption
<1>2. \A i \in 1 .. Count - Read : buffer_[(head_ + Read + i - 1) % kRingSize] \in Task
  BY ItemSlots DEF IndInv, TypeOK
<1> HIDE DEF Count
<1> QED
  BY <1>1, <1>2, kRingSizeAssumption DEF RingItems

\* A new queue is an empty channel.
LEMMA InitImplementsFifo == Init => Fifo!Init
<1> SUFFICES ASSUME Init
             PROVE  Fifo!Init
  OBVIOUS
<1>1. IndInv
  BY InitIndInv
<1>2. Count = 0 /\ Read = 0
  <2>1. head_ = 0 /\ tail_ = 0 /\ pcC = "claim"
    BY Zenon DEF Init
  <2> QED
    BY <2>1 DEF Count, Read
<1>3. RingItems = <<>>
  BY <1>1, <1>2, RingItemsType
<1> QED
  BY <1>3, Zenon DEF Init, Fifo!Init

\* A step that moves neither the ring nor the consumer past or before its read
\* leaves the channel's contents alone.
LEMMA RingItemsUnchanged ==
  ASSUME UNCHANGED <<buffer_, head_, tail_>>, pcC = "advance" <=> pcC' = "advance"
  PROVE  RingItems' = RingItems
  BY DEF RingItems, Count, Read

\* Writing the free slot does not touch the tasks in the ring.
LEMMA WriteKeepsItems ==
  ASSUME IndInv, EnqueueWrite
  PROVE  RingItems' = RingItems
<1>1. Count' = Count /\ Read' = Read /\ head_' = head_
  BY DEF EnqueueWrite, Count, Read
<1>2. \A i \in 1 .. Count - Read :
        buffer_'[(head_ + Read + i - 1) % kRingSize] = buffer_[(head_ + Read + i - 1) % kRingSize]
  BY ItemSlots DEF EnqueueWrite, IndInv, TypeOK
<1> QED
  BY <1>1, <1>2 DEF RingItems

\* Storing tail_ appends the written task to the ring.
LEMMA PublishAppends ==
  ASSUME IndInv, IndInv', EnqueuePublish
  PROVE  RingItems' = Append(RingItems, input) /\ Len(RingItems) < kRingSize - 1
<1>1. /\ Read' = Read /\ head_' = head_ /\ buffer_' = buffer_
      /\ tail_' = NextSlot(tail_)
      /\ pcP = "publish"
  BY DEF EnqueuePublish, Read
<1>2. Count <= kRingSize - 2 /\ buffer_[tail_] = input
  BY <1>1 DEF IndInv
<1>3. Count' = Count + 1
  BY <1>1, <1>2, CountType, CountIncrement DEF Count
<1>4. (head_ + Count) % kRingSize = tail_
  <2>1. CASE tail_ >= head_
    <3>1. Count \in 0 .. kRingSize /\ head_ + Count = tail_ /\ tail_ < kRingSize
      BY <2>1, CountType, kRingSizeAssumption DEF Slot, Count
    <3> QED
      BY <3>1, CountType, SlotAfter
  <2>2. CASE ~(tail_ >= head_)
    <3>1. /\ Count \in 0 .. kRingSize
          /\ head_ + Count >= kRingSize
          /\ head_ + Count < 2 * kRingSize
          /\ head_ + Count - kRingSize = tail_
      BY <2>2, CountType, kRingSizeAssumption DEF Slot, Count
    <3>2. head_ \in Slot
      BY CountType
    <3> QED
      BY ONLY <3>1, <3>2, SlotAfter
  <2> QED
    BY <2>1, <2>2
<1>5. head_ + Read + (Count - Read + 1) - 1 = head_ + Count
  BY CountType, kRingSizeAssumption DEF Slot
<1>6. /\ RingItems \in Seq(Task) /\ Len(RingItems) = Count - Read
      /\ RingItems' \in Seq(Task) /\ Len(RingItems') = Count + 1 - Read
  <2>1. (RingItems \in Seq(Task) /\ Len(RingItems) = Count - Read)'
    BY RingItemsType, PTL
  <2> QED
    BY <1>1, <1>3, <2>1, RingItemsType, CountType
<1>7. \A i \in 1 .. Count - Read : RingItems'[i] = RingItems[i]
  BY <1>1, <1>3, CountType DEF RingItems
<1>8. RingItems'[Count - Read + 1] = input
  BY <1>1, <1>2, <1>3, <1>4, <1>5, CountType, kRingSizeAssumption DEF RingItems
<1>9. input \in Task
  BY DEF IndInv, TypeOK
<1> HIDE DEF RingItems, Count, Read
<1> QED
  BY <1>2, <1>6, <1>7, <1>8, <1>9, CountType, kRingSizeAssumption

\* Reading the slot of head_ takes the oldest task.
LEMMA ReadTakes ==
  ASSUME IndInv, IndInv', PopRead
  PROVE  /\ RingItems # <<>>
         /\ output' = Head(RingItems)
         /\ RingItems' = Tail(RingItems)
<1>1. /\ Read = 0 /\ Read' = 1 /\ head_' = head_ /\ buffer_' = buffer_ /\ Count' = Count
      /\ output' = buffer_[head_] /\ pcC = "read"
  BY DEF PopRead, Read, Count
<1>2. Count >= 1
  BY <1>1, CountType, kRingSizeAssumption DEF IndInv, PendingAccounting, Claimed
<1>3. (head_ + Read + 1 - 1) % kRingSize = head_
  <2>1. /\ head_ \in Slot /\ 0 \in 0 .. kRingSize /\ head_ + 0 < kRingSize
        /\ head_ + Read + 1 - 1 = head_ + 0 /\ head_ + 0 = head_
    BY <1>1, CountType, kRingSizeAssumption DEF Slot
  <2>2. (head_ + 0) % kRingSize = head_ + 0
    BY ONLY <2>1, SlotAfter
  <2> QED
    BY ONLY <2>1, <2>2
<1>4. RingItems[1] = buffer_[head_]
  <2>1. 1 \in 1 .. Count - Read
    BY <1>1, <1>2, CountType
  <2> QED
    BY <1>3, <2>1 DEF RingItems
<1>5. /\ RingItems \in Seq(Task) /\ Len(RingItems) = Count
      /\ RingItems' \in Seq(Task) /\ Len(RingItems') = Count - 1
  <2>1. (RingItems \in Seq(Task) /\ Len(RingItems) = Count - Read)'
    BY RingItemsType, PTL
  <2> QED
    BY <1>1, <2>1, RingItemsType, CountType
<1>6. \A i \in 1 .. Count - 1 : RingItems'[i] = RingItems[i + 1]
  <2> TAKE i \in 1 .. Count - 1
  <2>1. head_ + 1 + i - 1 = head_ + 0 + (i + 1) - 1
    BY CountType DEF Slot
  <2> QED
    BY <1>1, <2>1, CountType, kRingSizeAssumption DEF RingItems
<1> HIDE DEF RingItems, Count, Read
<1> QED
  BY <1>1, <1>2, <1>4, <1>5, <1>6, CountType, kRingSizeAssumption

\* Storing head_ after the read does not change what is left in the channel.
LEMMA AdvanceKeepsItems ==
  ASSUME IndInv, PopAdvance
  PROVE  RingItems' = RingItems
<1>1. /\ Read = 1 /\ Read' = 0 /\ buffer_' = buffer_ /\ tail_' = tail_
      /\ head_' = NextSlot(head_)
  BY DEF PopAdvance, Read
<1>2. Count' = Count - 1
  BY <1>1, CountType, CountIncrement DEF Count
<1>3. \A i \in 1 .. Count - 1 :
        (NextSlot(head_) + 0 + i - 1) % kRingSize = (head_ + 1 + i - 1) % kRingSize
  <2> SUFFICES ASSUME NEW i \in 1 .. Count - 1
               PROVE  (NextSlot(head_) + 0 + i - 1) % kRingSize = (head_ + 1 + i - 1) % kRingSize
    OBVIOUS
  <2>1. /\ head_ \in Slot /\ i \in 0 .. kRingSize /\ i - 1 \in 0 .. kRingSize
        /\ head_ + 1 + i - 1 = head_ + i
    BY CountType, kRingSizeAssumption DEF Slot
  <2>2. CASE head_ = kRingSize - 1
    <3>1. /\ NextSlot(head_) = 0 /\ 0 \in Slot /\ 0 + (i - 1) < kRingSize
          /\ head_ + i >= kRingSize /\ head_ + i < 2 * kRingSize
          /\ NextSlot(head_) + 0 + i - 1 = 0 + (i - 1)
          /\ head_ + i - kRingSize = 0 + (i - 1)
      BY <2>1, <2>2, NextSlotValue, CountType, kRingSizeAssumption DEF Slot
    <3>2. (0 + (i - 1)) % kRingSize = 0 + (i - 1)
      BY ONLY <2>1, <3>1, SlotAfter
    <3>3. (head_ + i) % kRingSize = head_ + i - kRingSize
      BY ONLY <2>1, <3>1, SlotAfter
    <3> QED
      BY ONLY <2>1, <3>1, <3>2, <3>3
  <2>3. CASE head_ # kRingSize - 1
    <3>1. NextSlot(head_) = head_ + 1
      BY <2>1, <2>3, NextSlotValue
    <3>2. head_ + 1 + 0 + i - 1 = head_ + 1 + i - 1
      BY <2>1 DEF Slot
    <3> QED
      BY ONLY <3>1, <3>2
  <2> QED
    BY <2>2, <2>3
<1> QED
  BY <1>1, <1>2, <1>3, CountType DEF RingItems

\* Every step of the queue is a step of the channel or leaves it unchanged.
LEMMA NextImplementsFifo ==
  ASSUME IndInv, IndInv', [Next]_vars
  PROVE  [Fifo!Next]_<<RingItems, output, exit_now_, pcC = "exited">>
<1>1. CASE EnqueueWrite
  <2>1. RingItems' = RingItems
    BY <1>1, WriteKeepsItems
  <2> QED
    BY <1>1, <2>1 DEF EnqueueWrite
<1>2. CASE EnqueuePublish
  <2>1. RingItems' = Append(RingItems, input) /\ Len(RingItems) < kRingSize - 1
    BY <1>2, PublishAppends
  <2>2. ~exit_now_ /\ input \in Task
    BY <1>2 DEF EnqueuePublish, IndInv, TypeOK
  <2>3. Fifo!Put(input)
    BY <1>2, <2>1, <2>2 DEF EnqueuePublish, Fifo!Put
  <2> QED
    BY <2>2, <2>3 DEF Fifo!Next
<1>3. CASE PopRead
  <2>1. Fifo!Take
    BY <1>3, ReadTakes DEF PopRead, Fifo!Take
  <2> QED
    BY <2>1 DEF Fifo!Next
<1>4. CASE PopAdvance
  <2>1. RingItems' = RingItems
    BY <1>4, AdvanceKeepsItems
  <2> QED
    BY <1>4, <2>1 DEF PopAdvance
<1>5. CASE KillStore
  <2>1. RingItems' = RingItems
    BY <1>5, RingItemsUnchanged DEF KillStore
  <2>2. Fifo!Close
    BY <1>5, <2>1 DEF KillStore, Fifo!Close
  <2> QED
    BY <2>2 DEF Fifo!Next
<1>6. CASE PopCheckExit
  <2>1. RingItems' = RingItems
    BY <1>6, RingItemsUnchanged DEF PopCheckExit
  <2>2. CASE exit_now_
    <3>1. Fifo!Stop
      BY <1>6, <2>1, <2>2 DEF PopCheckExit, Fifo!Stop
    <3> QED
      BY <3>1 DEF Fifo!Next
  <2>3. CASE ~exit_now_
    BY <1>6, <2>1, <2>3 DEF PopCheckExit
  <2> QED
    BY <2>2, <2>3
<1>7. CASE \/ \E t \in Task : Push(t)
           \/ SignalForKill \/ Enqueue \/ PushAnnounce \/ PushNotify \/ KillLock \/ KillNotify
           \/ PopClaim \/ PopLock \/ PopPredicate \/ PopSleep \/ PopCheckEmpty \/ RunTask \/ SpuriousWakeup
           \/ UNCHANGED vars
  <2>1. /\ UNCHANGED <<buffer_, head_, tail_, output, exit_now_>>
        /\ pcC = "advance" <=> pcC' = "advance"
        /\ pcC = "exited" <=> pcC' = "exited"
    BY <1>7 DEF Push, SignalForKill, Enqueue, PushAnnounce, PushNotify, KillLock, KillNotify,
       PopClaim, PopLock, PopPredicate, PopSleep, PopCheckEmpty, RunTask, SpuriousWakeup, WakeConsumer, vars
  <2>2. RingItems' = RingItems
    BY <2>1, RingItemsUnchanged
  <2> QED
    BY <2>1, <2>2
<1> QED
  BY <1>1, <1>2, <1>3, <1>4, <1>5, <1>6, <1>7 DEF Next, ProducerStep, ConsumerStep, Terminated

\* The queue implements the first-in first-out channel of TaskFifo: no task is
\* lost, duplicated or reordered between Push and Pop.
THEOREM ImplementsFifoHolds == Spec => ImplementsFifo
<1>1. IndInv /\ IndInv' /\ [Next]_vars => [Fifo!Next]_<<RingItems, output, exit_now_, pcC = "exited">>
  BY NextImplementsFifo
<1> QED
  BY <1>1, Invariance, InitImplementsFifo, PTL DEF Spec, ImplementsFifo, Fifo!Spec, Fifo!fifoVars

=============================================================================
