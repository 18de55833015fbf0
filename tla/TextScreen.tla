----------------------------- MODULE TextScreen -----------------------------
(***************************************************************************)
(* What a text screen promises: a grid of cells, a cursor at which         *)
(* characters appear, and a background that comes up from below when the   *)
(* last row is left.  Nothing is ever drawn over anything.                 *)
(***************************************************************************)
EXTENDS Integers

CONSTANTS Rows, Cols, Char, Color,
          Picture(_, _, _)    \* of a character, in a color, on a background

VARIABLES cells, row, col, background
vars == <<cells, row, col, background>>

Blank(bg) == Picture(" ", bg, bg)
BlankRow(bg) == [c \in 0 .. Cols - 1 |-> Blank(bg)]
BlankGrid(bg) == [r \in 0 .. Rows - 1 |-> BlankRow(bg)]

\* The grid g with the cursor taken to the row below.
NextRow(g) ==
  /\ col' = 0
  /\ IF row + 1 < Rows
     THEN row' = row + 1 /\ cells' = g
     ELSE /\ UNCHANGED row
          /\ cells' = [r \in 0 .. Rows - 1 |->
                         IF r + 1 < Rows THEN g[r + 1] ELSE BlankRow(background)]

Write(ch, color) ==
  LET g == [cells EXCEPT ![row][col] = Picture(ch, color, background)]
  IN /\ UNCHANGED background
     /\ IF col + 1 < Cols
        THEN col' = col + 1 /\ UNCHANGED row /\ cells' = g
        ELSE NextRow(g)

Newline == NextRow(cells) /\ UNCHANGED background

Erase ==
  LET left == IF col = 0 THEN 0 ELSE col - 1
  IN /\ col' = left /\ UNCHANGED <<row, background>>
     /\ cells' = [cells EXCEPT ![row][left] = Blank(background)]

Clear(color) ==
  /\ background' = color /\ row' = 0 /\ col' = 0
  /\ cells' = BlankGrid(color)

Init == \E color \in Color :
          /\ cells = BlankGrid(color) /\ background = color
          /\ row = 0 /\ col = 0

Next == \/ \E ch \in Char, color \in Color : Write(ch, color)
        \/ Newline \/ Erase
        \/ \E color \in Color : Clear(color)

Spec == Init /\ [][Next]_vars
=============================================================================
