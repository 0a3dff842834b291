------------------------------- MODULE MCBoot -------------------------------
(* A scaled disk and memory in which tracks end inside segments and segments *)
(* inside tracks: 8 sectors to a segment, 3 to a track, a page of 2 sectors. *)
(* Three segments may be loaded, and im_size wraps after six.  The system    *)
(* sizes go through all of that; the user sizes lie around the ends of the   *)
(* code page and of the two data pages.                                      *)
EXTENDS Boot

CONSTANTS keyboardqueue

AllSysSizes == 1 .. 100 \cup 184 .. 196
AllUsrSizes == {1, 7, 8, 9, 24, 25}
==============================================================================
