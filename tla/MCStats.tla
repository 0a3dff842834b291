------------------------------- MODULE MCStats -------------------------------
(* Two processes beside idle, one list to block on, and time for several    *)
(* rounds of running, blocking and waiting.                                 *)
EXTENDS Stats

CONSTANTS keyboardqueue
==============================================================================
