---------------------------- MODULE MCSemaphores ----------------------------
(* Two semaphores, four slots and two processes besides task 1 and idle, one *)
(* data page each.  An unsigned value of 2^31 or more becomes a negative     *)
(* counter; signals count up to the highest value a semaphore starts with.   *)
EXTENDS Semaphores

SomeInitValues == {-1, 1}
=============================================================================
