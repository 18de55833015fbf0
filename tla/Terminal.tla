------------------------------ MODULE Terminal ------------------------------
(***************************************************************************)
(* The output side of console.c, on the screen, and the buffering of       *)
(* printf.c in front of it.  The state is the record of module Screen with *)
(* the fields row and col of cursorPos.                                    *)
(***************************************************************************)
EXTENDS Screen, Numbers, LineBuffer, SequencesExt

CONSTANT Character    \* what a string is made of

ASSUME TerminalAssumption ==
  /\ NUL \notin Character /\ "flush" \notin Character
  /\ Range(Digits) \cup {"%", "-"} \subseteq Character
-----------------------------------------------------------------------------
\* Mutant: the cursor stays below the last row.
MoveRow_NoClamp(t, dRow) ==
  IF t.row + dRow >= CHAR_ROWS
  THEN ScrollScreen([t EXCEPT !.row = CHAR_ROWS], CHAR_SIZE)
  ELSE [t EXCEPT !.row = IF t.row + dRow < 0 THEN 0 ELSE t.row + dRow]

MoveRow(t, dRow) ==
  IF t.row + dRow >= CHAR_ROWS
  THEN ScrollScreen([t EXCEPT !.row = CHAR_ROWS - 1], CHAR_SIZE)
  ELSE [t EXCEPT !.row = IF t.row + dRow < 0 THEN 0 ELSE t.row + dRow]

\* Behind the last column MoveCursor calls itself with (1, -col), which comes to
\* column 0 and calls no more.
MoveCursor(t, dRow, dCol) ==
  LET moved == MoveRow(t, dRow)
      to == IF t.col + dCol < 0 THEN 0 ELSE t.col + dCol
  IN IF to >= CHAR_COLS THEN [MoveRow(moved, 1) EXCEPT !.col = 0]
     ELSE [moved EXCEPT !.col = to]

\* Mutant: a backspace erases at the cursor, then moves.
PutChar_EraseFirst(t, c, color) ==
  IF c = "newline" THEN MoveCursor(t, 1, -t.col)
  ELSE IF c = "backspace"
       THEN MoveCursor(DrawCharAt(t, c, t.row, t.col, color), 0, -1)
  ELSE MoveCursor(DrawCharAt(t, c, t.row, t.col, color), 0, 1)

PutChar(t, c, color) ==
  IF c = "newline" THEN MoveCursor(t, 1, -t.col)
  ELSE IF c = "backspace"
       THEN LET moved == MoveCursor(t, 0, -1)
            IN DrawCharAt(moved, c, moved.row, moved.col, color)
  ELSE MoveCursor(DrawCharAt(t, c, t.row, t.col, color), 0, 1)

ResetCursor(t) == [t EXCEPT !.row = 0, !.col = 0]
-----------------------------------------------------------------------------
\* What waits to be put on the screen: characters with their colors, and FLUSH
\* where a PutStr ends.
FLUSH == [ch |-> "flush", color |-> {}]
Pending == [ch : Character, color : Color] \cup {FLUSH}

\* PutStr prints a string up to its NUL, then flushes.
PutStr(str, color) ==
  LET ends == {i \in DOMAIN str : str[i] = NUL}
      text == IF ends = {} THEN str
              ELSE SubSeq(str, 1, (CHOOSE i \in ends : \A j \in ends : i <= j) - 1)
  IN Append([i \in DOMAIN text |-> [ch |-> text[i], color |-> color]], FLUSH)

\* PrintfPutCh hands its buffer on when it is full, VPrintf what is left of it.
Buffered(text) ==
  LET n == CONSOLE_BUFFER_SIZE - 1
      upTo(k) == IF k * n < Len(text) THEN k * n ELSE Len(text)
  IN [k \in 1 .. Len(text) \div n + 1 |-> SubSeq(text, (k - 1) * n + 1, upTo(k))]

PrintfColor(color, fmt, args) ==
  LET strs == Buffered(VPrintFmt(fmt, args))
  IN FlattenSeq([k \in DOMAIN strs |-> PutStr(strs[k], color)])
=============================================================================
