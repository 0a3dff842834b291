------------------------------ MODULE MCMemory ------------------------------
(* Two pages of data, pages of three bytes, and five frames after boot: for *)
(* two forks and a page of heap, or a fork and three, or five.  Taking more *)
(* fails.                                                                   *)
EXTENDS Memory

CONSTANTS keyboardqueue

SomeIncrements == {-3, 4}
=============================================================================
