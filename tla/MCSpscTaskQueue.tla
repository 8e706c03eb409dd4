--------------------------- MODULE MCSpscTaskQueue ---------------------------
(* SpscTaskQueue with the ring size of the code. *)
EXTENDS SpscTaskQueue
=============================================================================
