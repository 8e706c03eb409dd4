------------------------------- MODULE TaskFifo -------------------------------
(***************************************************************************)
(* What a SpscTaskQueue promises to the thread pool: a bounded first-in    *)
(* first-out channel from one producer to one consumer, in which a task    *)
(* that was put is taken exactly once, that can be closed once, and whose  *)
(* consumer neither sleeps while there is a task nor outlives the closing. *)
(***************************************************************************)
EXTENDS Naturals, Sequences

CONSTANTS Task, Capacity

VARIABLES
  items,    \* put and not yet taken, oldest first
  taken,    \* the task the consumer took last
  closed,   \* SignalForKill has been called
  stopped   \* Pop has returned false

fifoVars == <<items, taken, closed, stopped>>

Init ==
  /\ items = <<>>
  /\ taken \in Task
  /\ closed = FALSE
  /\ stopped = FALSE

Put(t) ==
  /\ ~closed
  /\ Len(items) < Capacity
  /\ items' = Append(items, t)
  /\ UNCHANGED <<taken, closed, stopped>>

Take ==
  /\ ~stopped
  /\ items # <<>>
  /\ taken' = Head(items)
  /\ items' = Tail(items)
  /\ UNCHANGED <<closed, stopped>>

Close ==
  /\ closed' = TRUE
  /\ UNCHANGED <<items, taken, stopped>>

Stop ==
  /\ closed
  /\ ~stopped
  /\ stopped' = TRUE
  /\ UNCHANGED <<items, taken, closed>>

Next == (\E t \in Task : Put(t)) \/ Take \/ Close \/ Stop

Spec == Init /\ [][Next]_fifoVars

\* The consumer always answers: with a task or, once closed, with the end.
FairSpec == Spec /\ WF_fifoVars(Take \/ Stop)
=============================================================================
