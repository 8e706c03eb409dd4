----------------------------- MODULE SpscTaskQueue -----------------------------
(***************************************************************************)
(* The single-producer single-consumer task queue of the thread pool       *)
(* (src/src/runtime/thread_pool.cc, class SpscTaskQueue).  The producer is *)
(* the thread that owns the pool: it calls Push, and at the end            *)
(* SignalForKill.  The consumer is one worker: it calls Pop until Pop      *)
(* returns false.  One action is one access to shared memory, so that      *)
(* every interleaving of the atomics, the mutex and the condition variable *)
(* is a behaviour.                                                         *)
(***************************************************************************)
EXTENDS Integers

CONSTANTS
  Task,        \* the tasks that are pushed
  kRingSize    \* slots of buffer_; the code instantiates 2

ASSUME TaskAssumption == Task # {}

\* pending_ is an int8_t and must count the kRingSize - 1 items of a full ring.
ASSUME kRingSizeAssumption == kRingSize \in Int /\ kRingSize >= 2 /\ kRingSize <= 128

VARIABLES
  buffer_, head_, tail_,
  pending_,    \* tasks announced by Push and not yet claimed by Pop; -1: the consumer sleeps
  exit_now_,
  mutex_,      \* the thread that holds mutex_, or "none"
  pcP, input,  \* producer: where it is in Push or SignalForKill, and Push's argument
  pcC, output  \* consumer: where it is in Pop, and the task Pop read

vars == <<buffer_, head_, tail_, pending_, exit_now_, mutex_, pcP, input, pcC, output>>

Slot == 0 .. kRingSize - 1

ProducerPC == {"idle", "enqueue", "write", "publish", "announce", "notify",
               "kill_lock", "kill_store", "kill_notify", "killed"}
ConsumerPC == {"claim", "lock", "predicate", "sleep", "wait", "check_exit",
               "check_empty", "read", "advance", "run", "ichecked", "exited"}

\* The arithmetic of std::atomic<int8_t>.
Int8(n) == ((n + 128) % 256) - 128

\* Mutant: the index is not wrapped.
NextSlotUnwrapped(i) == i + 1

\* (i + 1) % kRingSize
NextSlot(i) == (i + 1) % kRingSize

Init ==
  /\ buffer_ \in [Slot -> Task]       \* new Task[kRingSize]: uninitialised
  /\ head_ = 0
  /\ tail_ = 0
  /\ pending_ = 0
  /\ exit_now_ = FALSE
  /\ mutex_ = "none"
  /\ pcP = "idle"
  /\ input \in Task
  /\ pcC = "claim"
  /\ output \in Task

-----------------------------------------------------------------------------
(* The producer. *)

\* A call of Push: its argument becomes the task to enqueue.
Push(t) ==
  /\ pcP = "idle"
  /\ input' = t
  /\ pcP' = "enqueue"
  /\ UNCHANGED <<buffer_, head_, tail_, pending_, exit_now_, mutex_, pcC, output>>

\* Mutant: a full ring is not noticed.
EnqueueIntoFull ==
  /\ pcP = "enqueue"
  /\ ~exit_now_
  /\ pcP' = "write"
  /\ UNCHANGED <<buffer_, head_, tail_, pending_, exit_now_, mutex_, input, pcC, output>>

\* Enqueue's tests.  When one fails Push yields and calls Enqueue again: a
\* failed attempt changes nothing and is a stuttering step.
Enqueue ==
  /\ pcP = "enqueue"
  /\ ~exit_now_
  /\ NextSlot(tail_) # head_
  /\ pcP' = "write"
  /\ UNCHANGED <<buffer_, head_, tail_, pending_, exit_now_, mutex_, input, pcC, output>>

EnqueueWrite ==
  /\ pcP = "write"
  /\ buffer_' = [buffer_ EXCEPT ![tail_] = input]
  /\ pcP' = "publish"
  /\ UNCHANGED <<head_, tail_, pending_, exit_now_, mutex_, input, pcC, output>>

EnqueuePublish ==
  /\ pcP = "publish"
  /\ tail_' = NextSlot(tail_)
  /\ pcP' = "announce"
  /\ UNCHANGED <<buffer_, head_, pending_, exit_now_, mutex_, input, pcC, output>>

\* Mutant: the value after the addition is compared.
PushAnnounceComparesNew ==
  /\ pcP = "announce"
  /\ pending_' = Int8(pending_ + 1)
  /\ pcP' = IF pending_' = -1 THEN "notify" ELSE "idle"
  /\ UNCHANGED <<buffer_, head_, tail_, exit_now_, mutex_, input, pcC, output>>

\* pending_.fetch_add(1) == -1
PushAnnounce ==
  /\ pcP = "announce"
  /\ pending_' = Int8(pending_ + 1)
  /\ pcP' = IF pending_ = -1 THEN "notify" ELSE "idle"
  /\ UNCHANGED <<buffer_, head_, tail_, exit_now_, mutex_, input, pcC, output>>

\* A notification moves the sleeping consumer to the point where it takes
\* mutex_ again; it is lost when the consumer does not sleep.
WakeConsumer == pcC' = IF pcC = "wait" THEN "lock" ELSE pcC

\* Mutant: the notification is sent without mutex_.
PushNotifyUnlocked ==
  /\ pcP = "notify"
  /\ WakeConsumer
  /\ pcP' = "idle"
  /\ UNCHANGED <<buffer_, head_, tail_, pending_, exit_now_, mutex_, input, output>>

PushNotify ==
  /\ pcP = "notify"
  /\ mutex_ = "none"
  /\ WakeConsumer
  /\ pcP' = "idle"
  /\ UNCHANGED <<buffer_, head_, tail_, pending_, exit_now_, mutex_, input, output>>

SignalForKill ==
  /\ pcP = "idle"
  /\ pcP' = "kill_lock"
  /\ UNCHANGED <<buffer_, head_, tail_, pending_, exit_now_, mutex_, input, pcC, output>>

KillLock ==
  /\ pcP = "kill_lock"
  /\ mutex_ = "none"
  /\ mutex_' = "producer"
  /\ pcP' = "kill_store"
  /\ UNCHANGED <<buffer_, head_, tail_, pending_, exit_now_, input, pcC, output>>

\* Mutant: mutex_ is released before the notification.
KillStoreUnlocks ==
  /\ pcP = "kill_store"
  /\ exit_now_' = TRUE
  /\ mutex_' = "none"
  /\ pcP' = "kill_notify"
  /\ UNCHANGED <<buffer_, head_, tail_, pending_, input, pcC, output>>

KillStore ==
  /\ pcP = "kill_store"
  /\ exit_now_' = TRUE
  /\ pcP' = "kill_notify"
  /\ UNCHANGED <<buffer_, head_, tail_, pending_, mutex_, input, pcC, output>>

KillNotify ==
  /\ pcP = "kill_notify"
  /\ WakeConsumer
  /\ mutex_' = "none"
  /\ pcP' = "killed"
  /\ UNCHANGED <<buffer_, head_, tail_, pending_, exit_now_, input, output>>

-----------------------------------------------------------------------------
(* The consumer. *)

\* Mutant: the value after the subtraction is compared.
PopClaimComparesNew ==
  /\ pcC = "claim"
  /\ pending_' = Int8(pending_ - 1)
  /\ pcC' = IF pending_' = 0 THEN "lock" ELSE "check_exit"
  /\ UNCHANGED <<buffer_, head_, tail_, exit_now_, mutex_, pcP, input, output>>

\* The spin loop reads pending_ at most spin_count times, changes nothing and
\* may end at any value of pending_; then pending_.fetch_sub(1) == 0.
PopClaim ==
  /\ pcC = "claim"
  /\ pending_' = Int8(pending_ - 1)
  /\ pcC' = IF pending_ = 0 THEN "lock" ELSE "check_exit"
  /\ UNCHANGED <<buffer_, head_, tail_, exit_now_, mutex_, pcP, input, output>>

PopLock ==
  /\ pcC = "lock"
  /\ mutex_ = "none"
  /\ mutex_' = "consumer"
  /\ pcC' = "predicate"
  /\ UNCHANGED <<buffer_, head_, tail_, pending_, exit_now_, pcP, input, output>>

\* Mutant: a consumer that was woken claims a task again.
PopPredicateClaimsTwice ==
  /\ pcC = "predicate"
  /\ IF pending_ >= 0 \/ exit_now_ THEN pcC' = "claim" /\ mutex_' = "none"
                                  ELSE pcC' = "sleep" /\ UNCHANGED mutex_
  /\ UNCHANGED <<buffer_, head_, tail_, pending_, exit_now_, pcP, input, output>>

\* cv_.wait's predicate, with mutex_ held: when it is true the wait is over and
\* lock goes out of scope ...
PopPredicate ==
  /\ pcC = "predicate"
  /\ IF pending_ >= 0 \/ exit_now_ THEN pcC' = "check_exit" /\ mutex_' = "none"
                                  ELSE pcC' = "sleep" /\ UNCHANGED mutex_
  /\ UNCHANGED <<buffer_, head_, tail_, pending_, exit_now_, pcP, input, output>>

\* ... and when it was false the consumer releases mutex_ and sleeps in one step.
PopSleep ==
  /\ pcC = "sleep"
  /\ mutex_' = "none"
  /\ pcC' = "wait"
  /\ UNCHANGED <<buffer_, head_, tail_, pending_, exit_now_, pcP, input, output>>

SpuriousWakeup ==
  /\ pcC = "wait"
  /\ pcC' = "lock"
  /\ UNCHANGED <<buffer_, head_, tail_, pending_, exit_now_, mutex_, pcP, input, output>>

\* if (exit_now_) return false;
PopCheckExit ==
  /\ pcC = "check_exit"
  /\ pcC' = IF exit_now_ THEN "exited" ELSE "check_empty"
  /\ UNCHANGED <<buffer_, head_, tail_, pending_, exit_now_, mutex_, pcP, input, output>>

\* TVM_FFI_ICHECK(tail_ != head)
PopCheckEmpty ==
  /\ pcC = "check_empty"
  /\ pcC' = IF tail_ # head_ THEN "read" ELSE "ichecked"
  /\ UNCHANGED <<buffer_, head_, tail_, pending_, exit_now_, mutex_, pcP, input, output>>

\* Mutant: the slot after head_ is read.
PopReadNext ==
  /\ pcC = "read"
  /\ output' = buffer_[NextSlot(head_)]
  /\ pcC' = "advance"
  /\ UNCHANGED <<buffer_, head_, tail_, pending_, exit_now_, mutex_, pcP, input>>

PopRead ==
  /\ pcC = "read"
  /\ output' = buffer_[head_]
  /\ pcC' = "advance"
  /\ UNCHANGED <<buffer_, head_, tail_, pending_, exit_now_, mutex_, pcP, input>>

PopAdvance ==
  /\ pcC = "advance"
  /\ head_' = NextSlot(head_)
  /\ pcC' = "run"
  /\ UNCHANGED <<buffer_, tail_, pending_, exit_now_, mutex_, pcP, input, output>>

\* RunWorker's body: the worker runs the task and calls Pop again.
RunTask ==
  /\ pcC = "run"
  /\ pcC' = "claim"
  /\ UNCHANGED <<buffer_, head_, tail_, pending_, exit_now_, mutex_, pcP, input, output>>

\* The queue is destroyed once the worker has been joined.
Terminated == pcP = "killed" /\ pcC = "exited" /\ UNCHANGED vars

-----------------------------------------------------------------------------
ProducerStep ==
  \/ Enqueue \/ EnqueueWrite \/ EnqueuePublish \/ PushAnnounce \/ PushNotify
  \/ KillLock \/ KillStore \/ KillNotify

ConsumerStep ==
  \/ PopClaim \/ PopLock \/ PopPredicate \/ PopSleep \/ PopCheckExit \/ PopCheckEmpty
  \/ PopRead \/ PopAdvance \/ RunTask

Next ==
  \/ \E t \in Task : Push(t)
  \/ SignalForKill
  \/ ProducerStep
  \/ ConsumerStep
  \/ SpuriousWakeup
  \/ Terminated

Spec == Init /\ [][Next]_vars

\* The scheduler runs both threads; calling Push or SignalForKill is up to the
\* owner of the pool, and a wake-up without a notification is never promised.
\* The producer gets mutex_ if it is released again and again: without spurious
\* wake-ups weak fairness would do, since the consumer sleeps after it lets go.
FairSpec ==
  /\ Spec
  /\ WF_vars(ProducerStep)
  /\ WF_vars(ConsumerStep)
  /\ SF_vars(PushNotify)
  /\ SF_vars(KillLock)

-----------------------------------------------------------------------------
(* Properties. *)

\* Every variable stays in the type the class declares for it.
TypeOK ==
  /\ buffer_ \in [Slot -> Task]
  /\ head_ \in Slot
  /\ tail_ \in Slot
  /\ pending_ \in -128 .. 127
  /\ exit_now_ \in BOOLEAN
  /\ mutex_ \in {"none", "producer", "consumer"}
  /\ pcP \in ProducerPC
  /\ input \in Task
  /\ pcC \in ConsumerPC
  /\ output \in Task

\* Tasks in the ring.
Count == IF tail_ >= head_ THEN tail_ - head_ ELSE tail_ - head_ + kRingSize

\* The consumer has subtracted one from pending_ for a task it has not removed.
Claimed == pcC \notin {"claim", "run"}

\* pending_ (thread_pool.cc:252, "pending tasks in the queue") is the number of
\* tasks in the ring, less the one Push has not announced yet and the one Pop
\* has claimed: fetch_add and fetch_sub on either side of the ring updates never
\* drift apart and the int8_t never wraps.
PendingAccounting ==
  /\ pending_ = Count - (IF pcP = "announce" THEN 1 ELSE 0) - (IF Claimed THEN 1 ELSE 0)
  /\ pending_ >= -1
  /\ pending_ <= kRingSize - 1

\* The sanity check of Pop (thread_pool.cc:198) never fires: a consumer that is
\* past the wait and was not killed finds a task in the ring.
PopNeverEmpty == pcC # "ichecked"

\* buffer_ is not atomic: Push never writes a slot while Pop reads it.
NoSlotRace == pcP = "write" /\ pcC = "read" => head_ # tail_

\* No wake-up is lost: a consumer that sleeps, or has made up its mind to,
\* although there is a task for it or it was killed, still has a notification
\* coming.
NoLostWakeup ==
  pcC \in {"sleep", "wait"} => /\ pending_ >= 0 => pcP = "notify"
                               /\ exit_now_ => pcP = "kill_notify"

\* What Pop's sanity check needs, as an inductive invariant: the accounting of
\* pending_, that a claim that did not sleep (or slept and woke) leaves
\* pending_ >= 0 unless the queue was killed, and who holds mutex_.
IndInv ==
  /\ TypeOK
  /\ PendingAccounting
  /\ pcC \in {"claim", "run"} => pending_ >= 0
  /\ pcC = "check_exit" => pending_ >= 0 \/ exit_now_
  /\ pcC \in {"check_empty", "read", "advance"} => pending_ >= 0
  /\ PopNeverEmpty
  /\ pcC = "exited" => exit_now_
  /\ pcP \in {"write", "publish"} => Count <= kRingSize - 2
  /\ pcP = "publish" => buffer_[tail_] = input
  /\ exit_now_ <=> pcP \in {"kill_notify", "killed"}
  /\ mutex_ = "producer" <=> pcP \in {"kill_store", "kill_notify"}
  /\ mutex_ = "consumer" <=> pcC \in {"predicate", "sleep"}
  /\ NoLostWakeup

\* The ring as the abstract channel sees it: a task is in from the store of
\* tail_ to the read of its slot.
Read == IF pcC = "advance" THEN 1 ELSE 0

RingItems == [i \in 1 .. Count - Read |-> buffer_[(head_ + Read + i - 1) % kRingSize]]

Fifo == INSTANCE TaskFifo WITH
  Capacity <- kRingSize - 1,
  items <- RingItems,
  taken <- output,
  closed <- exit_now_,
  stopped <- pcC = "exited"

\* The ring, the counter and the condition variable together implement a
\* first-in first-out channel: no task is lost, duplicated or reordered between
\* Push and Pop.
ImplementsFifo == Fifo!Spec

\* ... whose consumer always answers: a published task is taken, and a killed
\* worker leaves Pop, whatever the interleaving with sleeping and waking.
ImplementsFairFifo == Fifo!FairSpec

\* A Push on a full ring does not spin for ever: it returns.
PushReturns == pcP = "enqueue" ~> pcP = "idle"
=============================================================================
