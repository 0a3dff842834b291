----------------------------- MODULE MCKeyboard -----------------------------
(* Two slots besides idle and task 1, and a buffer of two keys: reads of    *)
(* one key, of as many as fit, and of more than fit.                        *)
EXTENDS Keyboard
=============================================================================
