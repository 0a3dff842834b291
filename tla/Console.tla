------------------------------- MODULE Console -------------------------------
(***************************************************************************)
(* The text screen (io.c, devices.c).  A screen is a record: the cursor    *)
(* x, y and the character in every cell.  Nothing scrolls and nothing is   *)
(* cleared: after the last row comes the first, with its old text.         *)
(***************************************************************************)
EXTENDS Integers, Sequences, SequencesExt

CONSTANTS
  NUM_COLUMNS, NUM_ROWS,
  FirstRow,      \* where y starts
  Newline,
  ClockColumns   \* the columns of row 0 where the clock is drawn

ASSUME ConsoleAssumption ==
  /\ NUM_COLUMNS \in Nat \ {0} /\ NUM_ROWS \in Nat \ {0}
  /\ FirstRow \in 0 .. NUM_ROWS - 1
  /\ ClockColumns \subseteq 0 .. NUM_COLUMNS - 1

Rows    == 0 .. NUM_ROWS - 1
Columns == 0 .. NUM_COLUMNS - 1
Blank   == 0

BlankScreen ==
  [x |-> 0, y |-> FirstRow, cell |-> [p \in Rows \X Columns |-> Blank]]

NextRow(s) == [s EXCEPT !.x = 0, !.y = (@ + 1) % NUM_ROWS]

Put(s, ch) == [s EXCEPT !.cell[<<s.y, s.x>>] = ch, !.x = @ + 1]

(* printc *)
PrintC(s, ch) ==
  IF ch = Newline \/ s.x + 1 >= NUM_COLUMNS
  THEN NextRow(IF ch = Newline THEN s ELSE Put(s, ch))
  ELSE Put(s, ch)

(* Mutant: the row of the cursor is not put back. *)
PrintCXY_KeepsRow(s, mx, my, ch) ==
  [PrintC([s EXCEPT !.x = mx, !.y = my], ch) EXCEPT !.x = s.x]

(* printc_xy *)
PrintCXY(s, mx, my, ch) ==
  [PrintC([s EXCEPT !.x = mx, !.y = my], ch) EXCEPT !.x = s.x, !.y = s.y]

(* zeos_show_clock: it is in libzeos.a, which has no source here.  The     *)
(* time goes to its cells directly, past the cursor.                       *)
ClockCells == {0} \X ClockColumns

ShowClock(s, face) ==
  [s EXCEPT !.cell = [p \in Rows \X Columns |->
                        IF p \in ClockCells THEN face[p[2]] ELSE s.cell[p]]]

(* printk and sys_write_console *)
PrintAll(s, str) ==
  LET print[n \in 0 .. Len(str)] ==
        IF n = 0 THEN s ELSE PrintC(print[n - 1], str[n])
  IN  print[Len(str)]

-----------------------------------------------------------------------------
(* The same text on an endless roll of paper: its lines, the last one      *)
(* still being written.                                                    *)
TypedOn(lines, ch) ==
  LET written == [lines EXCEPT ![Len(lines)] = IF ch = Newline THEN @ ELSE Append(@, ch)]
  IN  IF ch = Newline \/ Len(Last(written)) = NUM_COLUMNS
      THEN Append(written, << >>) ELSE written

NewPaper == <<<< >>>>

Paper(str) ==
  LET paper[n \in 0 .. Len(str)] ==
        IF n = 0 THEN NewPaper ELSE TypedOn(paper[n - 1], str[n])
  IN  paper[Len(str)]

RowOf(i) == (FirstRow + i - 1) % NUM_ROWS

(* What has been typed at a cell: of the lines that came to its row, the   *)
(* newest that reaches its column.                                         *)
Shows(lines, r, c) ==
  LET there == {i \in 1 .. Len(lines) : RowOf(i) = r /\ Len(lines[i]) > c}
  IN  IF there = {} THEN Blank ELSE lines[Max(there)][c + 1]
==============================================================================
