------------------------------- MODULE MCSched -------------------------------
(* The scheduler with five slots and two lists to block on. *)
EXTENDS Sched

CONSTANTS keyboardqueue, semqueue
==============================================================================
