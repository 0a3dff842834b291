------------------------------ MODULE MCOutput ------------------------------
(* Two threads, of one process or of two, on a screen of two rows of three   *)
(* columns, the last of row 0 the clock's.  A page is four bytes; the code   *)
(* is page 1 and the data page 2, page 3 belongs to the heap and page 7 is   *)
(* the last one there is.  Strings are shorter than, as long as, and longer  *)
(* than the buffer of two.                                                   *)
EXTENDS Output
a == 97
b == 98
MCAddresses == {0, 3, 10, 12, 15, 31}
MCFaces == {(2 :> 58)}
MCStrings == {<< >>, <<10>>, <<a, b>>, <<b, 10, b>>}
==============================================================================
