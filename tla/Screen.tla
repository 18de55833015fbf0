------------------------------- MODULE Screen -------------------------------
(***************************************************************************)
(* screen.c: the screen buffer, its planes one after the other, and the    *)
(* display, a copy of it.                                                  *)
(*                                                                         *)
(* A byte is the set of its pixels that are lit, a color the set of the    *)
(* planes it lights.  The state is a record sc with the fields buf         *)
(* (screenBuf), display (what the card shows) and lastClearColor.  The     *)
(* ports that select a plane are part of showing it.                       *)
(***************************************************************************)
EXTENDS Integers, Sequences

CONSTANTS VGA_WIDTH,              \* bytes of a scan line
          VGA_HEIGHT,             \* scan lines
          VGA_PLANES,
          VGA_PIXELS_PER_BYTE,
          CHAR_SIZE,              \* scan lines, and pixels, of a character
          Font                    \* the bytes of each character that is not negative

CHAR_ROWS == VGA_HEIGHT \div CHAR_SIZE
CHAR_COLS == (VGA_WIDTH * VGA_PIXELS_PER_BYTE) \div CHAR_SIZE
PlaneSize == VGA_WIDTH * VGA_HEIGHT

Pixels == 1 .. VGA_PIXELS_PER_BYTE
Planes == 0 .. VGA_PLANES - 1
Lines == 0 .. CHAR_SIZE - 1
Offsets == 0 .. VGA_PLANES * PlaneSize - 1

ASSUME ScreenAssumption ==
  /\ {VGA_WIDTH, VGA_HEIGHT, VGA_PLANES, CHAR_SIZE} \subseteq Nat \ {0}
  /\ VGA_PIXELS_PER_BYTE = CHAR_SIZE
  /\ VGA_HEIGHT % CHAR_SIZE = 0 /\ VGA_HEIGHT > CHAR_SIZE
  /\ \A c \in DOMAIN Font : Font[c] \in [Lines -> SUBSET Pixels]
  /\ "backspace" \in DOMAIN Font

Color == SUBSET Planes
PlaneColor(color, p) == IF p \in color THEN Pixels ELSE {}
-----------------------------------------------------------------------------
\* Mutant: the scan lines below are not painted.
PaintRange_Skipped(sc, start, size, color) == sc

\* Whole bytes, from the first that begins in the range; -1 \div 8 is 0 in C.
PaintRange(sc, start, size, color) ==
  LET limit == PlaneSize * VGA_PIXELS_PER_BYTE
      startByte == IF start = 0 THEN 1 ELSE (start - 1) \div VGA_PIXELS_PER_BYTE + 1
      endByte == startByte + size \div VGA_PIXELS_PER_BYTE
      painted(o) == startByte <= o % PlaneSize /\ o % PlaneSize < endByte
  IN IF start < 0 \/ start > limit \/ size < 0 \/ start + size > limit THEN sc
     ELSE [sc EXCEPT !.buf =
             [o \in Offsets |-> IF painted(o) THEN PlaneColor(color, o \div PlaneSize)
                                ELSE sc.buf[o]]]

\* The character is laid over what the bytes hold; a backspace clears them.
DrawCharAt(sc, c, row, col, color) ==
  LET start == row * CHAR_SIZE * VGA_WIDTH + col
      \* how far byte o lies after the character's first in its plane
      after(o) == (o % PlaneSize) - start
      inside(o) == after(o) \in {i * VGA_WIDTH : i \in Lines}
      drawn(o) ==
        LET p == o \div PlaneSize
            glyph == Font[c][after(o) \div VGA_WIDTH]
        IN IF c = "backspace" THEN PlaneColor(sc.lastClearColor, p)
           ELSE (sc.buf[o] \ glyph) \cup (glyph \cap PlaneColor(color, p))
  IN IF \/ c \notin DOMAIN Font
        \/ row \notin 0 .. CHAR_ROWS - 1 \/ col \notin 0 .. CHAR_COLS - 1
     THEN sc
     ELSE [sc EXCEPT !.buf = [o \in Offsets |-> IF inside(o) THEN drawn(o) ELSE sc.buf[o]]]

\* All planes are moved as one piece, so that each gets the first lines of the
\* next at its end; those are then painted.
ScrollScreen(sc, rows) ==
  LET shift == VGA_WIDTH * rows
      moved == [o \in Offsets |->
                  IF o + shift \in Offsets THEN sc.buf[o + shift] ELSE sc.buf[o]]
  IN PaintRange([sc EXCEPT !.buf = moved],
                VGA_WIDTH * VGA_PIXELS_PER_BYTE * (VGA_HEIGHT - rows),
                VGA_WIDTH * VGA_PIXELS_PER_BYTE * rows, sc.lastClearColor)

FlushBuffer(sc) == [sc EXCEPT !.display = sc.buf]

ClearScreen(sc, color) ==
  LET clear == [o \in Offsets |-> PlaneColor(color, o \div PlaneSize)]
  IN [sc EXCEPT !.buf = clear, !.display = clear, !.lastClearColor = color]
=============================================================================
