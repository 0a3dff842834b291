----------------------------- MODULE MCProcesses -----------------------------
(* Processes with four slots, two data pages and frames for three forks: a  *)
(* fourth one finds a slot but only some of the frames it needs.            *)
EXTENDS Processes

CONSTANTS keyboardqueue
==============================================================================
