------------------------------- MODULE Kernel -------------------------------
(***************************************************************************)
(* The kernel's own thread from KernelMain on: the memory map, the command *)
(* prompt on the screen, the load of the program, and its system calls.    *)
(* It composes MemMap, Terminal (with LineBuffer) and UserSpace.           *)
(*                                                                         *)
(* What is printed at boot is cleared by MonitorRun and not put on the     *)
(* screen here, nor is what the program prints, which is the result of its *)
(* calls.  Which typed characters arrive is module Console's.              *)
(*                                                                         *)
(* State that is not read again is reset: the memory map when the monitor  *)
(* starts, the line and its color when the program does.                   *)
(***************************************************************************)
EXTENDS Terminal, UserSpace, MemMap

CONSTANTS Letters,      \* the characters typed that are not edited or split at
          Commands,     \* a sequence of records of a name, a desc and a func
          ColorNames,   \* a sequence of words and colors
          Text,         \* the formats of the messages
          Images,       \* the program headers of the images that can be linked
          USER_QUOTA    \* the quota MonitorUser gives, 10000

Loadable(image) == {h \in DOMAIN image : image[h].type = "LOAD"}
AllPages(ph) == {SegmentPages(ph)[k] : k \in DOMAIN SegmentPages(ph)}

\* The fields ELFLoad reads of struct proghdr.
ProgramHeader == [type : STRING, offset : Nat, va : Nat, filesz : Nat, memsz : Nat]

\* What the linker makes of a program: offsets congruent to addresses, segments
\* in the user half and none with a page in common.
ASSUME KernelAssumption ==
  /\ USER_QUOTA \in Nat
  /\ Images \subseteq Seq(ProgramHeader)
  /\ \A image \in Images : \A h \in Loadable(image) :
       LET ph == image[h] IN
       /\ ph.offset % PAGESIZE = ph.va % PAGESIZE
       /\ ph.filesz <= ph.memsz
       /\ MEM_USERLO <= ph.va /\ ph.va + ph.memsz <= MEM_USERHI
       /\ \A g \in Loadable(image) \ {h} : AllPages(ph) \cap AllPages(image[g]) = {}

\* The directives in a format.
Taken(fmt) == {i \in 1 .. Len(fmt) - 1 : fmt[i] = "%" /\ fmt[i + 1] \in Directives}

\* What a message takes, as Printf is called for it.
Takes(name) ==
  CASE name = "char" -> <<"c">>
    [] name \in {"color", "unknown"} -> <<"s">>
    [] name = "command" -> <<"s", "s">>
    [] name = "toomany" -> <<"d">>
    [] name = "at" -> <<"l">>
    [] name = "length" -> <<"x">>
    [] name = "type" -> <<"u">>
    [] OTHER -> <<>>

Messages == {"prompt", "char", "banner", "command", "usage", "invalid", "available", "color",
             "newline", "unknown", "toomany", "at", "length", "type"}

\* The formats fit the calls of Printf; the blank is blank; a row is full of
\* characters before the line buffer is.
ASSUME TextAssumption ==
  /\ Letters \cup {BLANK, "newline", "backspace"} \subseteq Character
  /\ \A name \in Messages :
       LET fmt == Text[name] IN
       /\ fmt \in Seq(Character)
       /\ \A i \in Taken(fmt) : fmt[i + 1] \in Range(Takes(name))
       /\ Cardinality(Taken(fmt)) <= Len(Takes(name))
  /\ \A name \in {"at", "length", "type"} :
       \E i \in Taken(Text[name]) : \A k \in DOMAIN Text[name] \ {i} : Text[name][k] # "%"
  /\ Text["char"] = <<"%", "c">>
  /\ Commands \in Seq([name : Seq(Character), desc : Seq(Character),
                       func : {"MonitorHelp", "MonitorTextColor", "MonitorUser"}])
  /\ ColorNames \in Seq([name : Seq(Character), color : Color])
  /\ MAX_ARGS < WORD
  /\ BLANK \in DOMAIN Font => Font[BLANK] = [i \in Lines |-> {}]
  /\ CHAR_COLS < CONSOLE_BUFFER_SIZE

VARIABLES phase,
          term,         \* screen and cursor
          textColor,
          out,          \* what is still to be put on the screen
          monitor,      \* buf and index
          image, load,  \* the image, and the pages of it still to be loaded
          space,        \* the memory of the program
          frame         \* the system call the kernel is in, and its results
bootVars == <<smap, page, ram, userPages>>
screenVars == <<term, textColor, out>>
userVars == <<image, load, space, frame>>
kernelVars == <<phase, bootVars, screenVars, monitor, userVars>>

Typed == Letters \cup {BLANK, "newline", "backspace"}
BLACK == {}
BLUE == {0}
BMAGENTA == Planes \ {1}
WHITE == Planes
NoCall == [nr |-> "none"]
-----------------------------------------------------------------------------
(***************************************************************************)
(* The commands, which call Printf with the formats of Text by their names.*)
(***************************************************************************)
Call(color, name, args) == [color |-> color, name |-> name, args |-> args]
Printf(call) == PrintfColor(call.color, Text[call.name], call.args)
PrintfAll(calls) == FlattenSeq([k \in DOMAIN calls |-> Printf(calls[k])])

Prompt(color) == Call(color, "prompt", <<>>)
Echo(color, ch) == Call(color, "char", <<ch>>)

\* What PhysicalMemoryInit prints of an entry of the memory map.
PrintEntry(e) == <<Printf(Call(WHITE, "at", <<e.baseAddr>>)),
                   Printf(Call(WHITE, "length", <<e.length>>)),
                   Printf(Call(WHITE, "type", <<e.type>>))>>

MonitorHelp(color) ==
  [k \in DOMAIN Commands |-> Call(color, "command", <<Commands[k].name, Commands[k].desc>>)]

\* The list that follows both messages of textcolor, four names on a line.
AvailableColors(color) ==
  LET name(k) == Call(ColorNames[k].color, "color", <<ColorNames[k].name>>)
      newline == Call(color, "newline", <<>>)
  IN <<Call(color, "available", <<>>)>>
     \o FlattenSeq([k \in DOMAIN ColorNames |->
                      IF k % 4 = 1 THEN <<newline, name(k)>> ELSE <<name(k)>>])
     \o <<newline>>

\* The color after textcolor, and its calls of Printf.
MonitorTextColor(color, argv) ==
  LET named == {k \in DOMAIN ColorNames : ColorNames[k].name = argv[2]}
      refused(name) == [color |-> color,
                        calls |-> <<Call(color, name, <<>>)>> \o AvailableColors(color)]
  IN IF Len(argv) # 2 THEN refused("usage")
     ELSE IF named = {} THEN refused("invalid")
     ELSE [color |-> ColorNames[Min(named)].color, calls |-> <<>>]

\* The function a line calls, the color after it and its calls of Printf.
RunCommand(color, buf) ==
  LET argv == Argv(buf)
      found == {k \in DOMAIN Commands : Commands[k].name = argv[1]}
      func == IF TooMany(buf) THEN "toomany"
              ELSE IF argv = <<>> THEN "none"
              ELSE IF found = {} THEN "unknown" ELSE Commands[Min(found)].func
      result == CASE func \in {"none", "MonitorUser"} -> [color |-> color, calls |-> <<>>]
                  [] func = "toomany" ->
                       [color |-> color, calls |-> <<Call(color, "toomany", <<MAX_ARGS>>)>>]
                  [] func = "unknown" ->
                       [color |-> color, calls |-> <<Call(color, "unknown", <<argv[1]>>)>>]
                  [] func = "MonitorHelp" -> [color |-> color, calls |-> MonitorHelp(color)]
                  [] func = "MonitorTextColor" -> MonitorTextColor(color, argv)
  IN [func |-> func, color |-> result.color, calls |-> result.calls]
-----------------------------------------------------------------------------
(***************************************************************************)
(* KernelMain and MonitorRun.                                              *)
(***************************************************************************)
Boot == /\ phase = "boot" /\ ClassifyPage
        /\ UNCHANGED <<phase, screenVars, monitor, userVars>>

\* Enter was pressed: the screen is cleared for the prompt.
MonitorRun ==
  /\ phase = "boot" /\ page = NUM_PHYSICAL_PAGES
  /\ phase' = "monitor"
  /\ smap' = <<>> /\ page' = 0 /\ ram' = {} /\ UNCHANGED userPages
  /\ term' = ResetCursor(ClearScreen(term, BLUE))
  /\ out' = PrintfAll(<<Call(BMAGENTA, "banner", <<>>), Prompt(textColor)>>)
  /\ monitor' = [monitor EXCEPT !.index = 0]
  /\ UNCHANGED <<textColor, userVars>>

\* One character reaches the screen, or the buffer the display.
Output ==
  /\ out # <<>>
  /\ term' = IF Head(out) = FLUSH THEN FlushBuffer(term)
             ELSE PutChar(term, Head(out).ch, Head(out).color)
  /\ out' = Tail(out)
  /\ UNCHANGED <<phase, bootVars, textColor, monitor, userVars>>

\* A character is echoed and edits the line.
Edit(ch) ==
  /\ phase = "monitor" /\ out = <<>> /\ ch # "newline"
  /\ out' = Printf(Echo(textColor, ch))
  /\ monitor' = IF ch = "backspace" THEN Erased(monitor) ELSE Entered(monitor, ch)
  /\ UNCHANGED <<phase, bootVars, term, textColor, userVars>>

\* The line is run.  MonitorUser first waits here for the echo to be printed.
Enter ==
  LET r == RunCommand(textColor, Ended(monitor))
      echo == Echo(textColor, "newline")
  IN /\ phase = "monitor" /\ out = <<>>
     /\ IF r.func = "MonitorUser"
        THEN /\ phase' = "user" /\ out' = Printf(echo)
             /\ monitor' = EmptyLine /\ textColor' = WHITE
        ELSE /\ phase' = phase /\ out' = PrintfAll(<<echo>> \o r.calls \o <<Prompt(r.color)>>)
             /\ monitor' = [buf |-> Gobble(Ended(monitor)), index |-> 0]
             /\ textColor' = r.color
     /\ UNCHANGED <<bootVars, term, userVars>>
-----------------------------------------------------------------------------
(***************************************************************************)
(* MonitorUser: CreateProcess and ELFLoad.                                 *)
(***************************************************************************)
\* The pages that can be allocated to the program are those of its quota that
\* the machine has.
MonitorUser ==
  /\ phase = "user" /\ out = <<>>
  /\ phase' = "loading"
  /\ term' = ResetCursor(ClearScreen(term, WHITE))
  /\ image' \in Images
  /\ load' = FlattenSeq([h \in DOMAIN image' |->
               [k \in DOMAIN SegmentPages(image'[h]) |->
                  [ph |-> image'[h], pg |-> SegmentPages(image'[h])[k]]]])
  /\ space' = NewSpace(IF USER_QUOTA < userPages THEN USER_QUOTA ELSE userPages)
  /\ UNCHANGED <<bootVars, textColor, out, monitor, frame>>

\* One turn of ELFLoad's inner loop.
LoadPage ==
  /\ phase = "loading" /\ load # <<>>
  /\ LET a == AllocPage(space, Head(load).pg)
     IN IF a.err
        THEN phase' = "panic" /\ space' = a.sp /\ UNCHANGED load
        ELSE /\ space' = FillPage(a.sp, Head(load).ph, Head(load).pg)
             /\ load' = Tail(load)
             /\ UNCHANGED phase
  /\ UNCHANGED <<bootVars, screenVars, monitor, image, frame>>

ForceRunProcess ==
  /\ phase = "loading" /\ load = <<>>
  /\ phase' = "program"
  /\ UNCHANGED <<bootVars, screenVars, monitor, userVars>>
-----------------------------------------------------------------------------
(***************************************************************************)
(* The program's page faults and system calls.                             *)
(***************************************************************************)
PageFaultHandler(pg) ==
  LET a == AllocPage(space, pg)
  IN /\ phase = "program" /\ frame = NoCall
     /\ ~Present(space, pg)
     /\ space' = a.sp
     /\ phase' = IF a.err THEN "panic" ELSE phase
     /\ UNCHANGED <<bootVars, screenVars, monitor, image, load, frame>>

\* The program may put anything in its registers.
Syscall(nr, va, len, ch) ==
  LET r == SyscallDispatch(space, nr, va, len, ch)
  IN /\ phase = "program" /\ frame = NoCall
     /\ space' = r.sp
     /\ frame' = [nr |-> nr, va |-> va, len |-> len, errno |-> r.errno, text |-> r.text]
     /\ UNCHANGED <<phase, bootVars, screenVars, monitor, image, load>>

Return ==
  /\ frame # NoCall
  /\ frame' = NoCall
  /\ UNCHANGED <<phase, bootVars, screenVars, monitor, image, load, space>>

KernelInit ==
  LET black == [o \in Offsets |-> PlaneColor(BLACK, o \div PlaneSize)] IN
  /\ Init
  /\ phase = "boot"
  /\ term = [buf |-> black, display |-> black, lastClearColor |-> BLACK, row |-> 0, col |-> 0]
  /\ textColor = WHITE
  /\ out = <<>>
  /\ monitor = EmptyLine
  /\ image = <<>> /\ load = <<>>
  /\ space = NewSpace(0)
  /\ frame = NoCall

Main == \/ Boot \/ MonitorRun
        \/ Output
        \/ \E ch \in Typed : Edit(ch)
        \/ Enter
        \/ MonitorUser \/ LoadPage \/ ForceRunProcess

Program == \/ \E pg \in UserWindow : PageFaultHandler(pg)
           \/ \E va \in 0 .. WORD - 1, len \in 0 .. WORD - 1 : Syscall("PUTSTR", va, len, ZERO)
           \/ \E va \in 0 .. WORD - 1 : Syscall("DISPBUF", va, 0, ZERO)
           \/ \E ch \in {ZERO, 0} : Syscall("GETCHAR", 0, 0, ch)
           \/ Syscall("OTHER", 0, 0, ZERO)
           \/ Return

KernelNext == Main \/ Program

KernelSpec == KernelInit /\ [][KernelNext]_kernelVars
-----------------------------------------------------------------------------
(***************************************************************************)
(* Properties.                                                             *)
(***************************************************************************)
\* The state keeps its types; the cursor stays on the screen and the line in its
\* buffer.
KernelTypeOK ==
  /\ phase \in {"boot", "monitor", "user", "loading", "program", "panic"}
  /\ DOMAIN term = {"buf", "display", "lastClearColor", "row", "col"}
  /\ {term.buf, term.display} \subseteq [Offsets -> SUBSET Pixels]
  /\ {textColor, term.lastClearColor} \subseteq Color
  /\ term.row \in 0 .. CHAR_ROWS - 1 /\ term.col \in 0 .. CHAR_COLS - 1
  /\ out \in Seq(Pending)
  /\ monitor.index \in Index /\ DOMAIN monitor.buf = Index
  /\ space \in Space

\* The characters of what was printed.
Chars(printed) ==
  FlattenSeq([i \in DOMAIN printed |-> IF printed[i] = FLUSH THEN <<>> ELSE <<printed[i].ch>>])

\* The digits s denote n in base, with none too many.
Denotes(s, base, n) ==
  LET value[k \in 0 .. Len(s)] ==
        IF k = 0 THEN 0
        ELSE value[k - 1] * base + (CHOOSE d \in 0 .. base - 1 : Digit(d) = s[k])
  IN /\ value[Len(s)] = n
     /\ s # <<>> /\ (Len(s) > 1 => s[1] # "0")

\* What is printed by the format of this name, with one number, is its text with the
\* digits of n where the directive is.
Shows(printed, name, base, n) ==
  LET fmt == Text[name]
      before == CHOOSE i \in DOMAIN fmt : fmt[i] = "%"
      chars == Chars(printed)
      digits == Len(chars) - (Len(fmt) - 2)
  IN /\ digits > 0
     /\ SubSeq(chars, 1, before - 1) = SubSeq(fmt, 1, before - 1)
     /\ Denotes(SubSeq(chars, before, before + digits - 1), base, n)
     /\ SubSeq(chars, before + digits, Len(chars)) = SubSeq(fmt, before + 2, Len(fmt))

\* The memory map is printed as it is, whatever its numbers: the division of 64 by
\* 32 bits, the digits, and the buffer that hands on a piece of the text at a time
\* lose nothing.  The length is printed as 32 bits.
MapPrinted ==
  phase = "boot" /\ page = 0 =>
    \A i \in DOMAIN smap :
      LET e == smap[i] IN
      /\ Shows(PrintEntry(e)[1], "at", 16, e.baseAddr)
      /\ Shows(PrintEntry(e)[2], "length", 16, e.length % WORD)
      /\ Shows(PrintEntry(e)[3], "type", 10, e.type)

\* A character in a color on a background: for each plane the lines of pixels.
Picture(ch, color, bg) ==
  [p \in Planes |-> [i \in Lines |->
     LET glyph == IF ch \in DOMAIN Font THEN Font[ch][i] ELSE {}
     IN (PlaneColor(bg, p) \ glyph) \cup (PlaneColor(color, p) \cap glyph)]]

\* What the screen buffer holds at a row and a column.
Cell(r, c) ==
  [p \in Planes |-> [i \in Lines |->
     term.buf[p * PlaneSize + (r * CHAR_SIZE + i) * VGA_WIDTH + c]]]

TS == INSTANCE TextScreen
        WITH Rows <- CHAR_ROWS, Cols <- CHAR_COLS, Char <- Letters \cup DOMAIN Font,
             cells <- [r \in 0 .. CHAR_ROWS - 1 |-> [c \in 0 .. CHAR_COLS - 1 |-> Cell(r, c)]],
             row <- term.row, col <- term.col, background <- term.lastClearColor

\* The bytes, planes and offsets make a text screen: a character covers exactly
\* its cell, in spite of being laid over what is there; the last row comes up
\* empty, in spite of the planes being moved as one piece.
ImplementsTextScreen == TS!Spec

\* When the monitor waits for a key the display shows what was printed, and as
\* long as the line has not left its row (a backspace does not go back to the
\* row above) the characters before the cursor are those of the buffer, and
\* nothing is right of it.
LineOnScreen ==
  phase = "monitor" /\ out = <<>> =>
    /\ term.display = term.buf
    /\ monitor.index <= term.col =>
         \A i \in 0 .. monitor.index - 1 :
           Cell(term.row, term.col - monitor.index + i)
             = Picture(monitor.buf[i], textColor, term.lastClearColor)
    /\ \A c \in term.col .. CHAR_COLS - 1 :
         Cell(term.row, c) = Picture(" ", textColor, term.lastClearColor)

\* The program starts with the memory its image describes: each byte of a segment
\* is the byte of the file at its offset, or zero behind the part in the file.
ImageLoaded ==
  phase = "loading" /\ load = <<>> =>
    \A h \in Loadable(image) :
      LET ph == image[h] IN
      \A i \in 0 .. ph.memsz - 1 :
        ByteAt(space, ph.va + i) = IF i < ph.filesz THEN ph.offset + i ELSE ZERO

\* A range of addresses that lies in the user half.
UserRange(va, len) == MEM_USERLO <= va /\ va + len <= MEM_USERHI
Absentees(sp, va, len) ==
  {pg \in UserWindow : ~Present(sp, pg) /\ \E a \in va .. va + len - 1 : PageOf(a) = pg}
Content(sp, va, len) == [i \in 1 .. len |-> ByteAt(sp, va + i - 1)]

\* The bytes of the pieces from va on that lie in the user half as a whole.
WholePieces(va, piece) ==
  IF va <= MEM_USERHI THEN ((MEM_USERHI - va) \div piece) * piece ELSE 0

\* The system calls that read the program's memory, a string in pieces of sysBuf
\* and a buffer in planes.  No byte the program has is changed, and it is given no
\* page but those of the bytes read.  A call that is refused has no effect.  A range
\* in the user half is accepted, and as long as pages are left its bytes are all shown.
\* Any other is refused or fails, with an exception as built: where va + len wraps to
\* a small number the test takes it for the end.  Then a string that starts in the
\* user half fails, its whole pieces there shown and mapped and nothing behind them;
\* of one that starts above, or of a buffer, at most one piece is shown, the one that
\* wraps, with no byte of the program; and with it a string of one piece, and any
\* buffer, is accepted.
CallAnswered ==
  frame = NoCall /\ frame' # NoCall /\ frame'.nr \in {"PUTSTR", "DISPBUF"} =>
    LET va == frame'.va
        len == IF frame'.nr = "PUTSTR" THEN frame'.len ELSE PLANE_BYTES * PLANE_COUNT
        piece == IF frame'.nr = "PUTSTR" THEN PAGESIZE - 1 ELSE PLANE_BYTES
        read == IF UserRange(va, len) THEN len ELSE WholePieces(va, piece)
        shown == Content(space', va, read)
    IN /\ \A pg \in UserWindow :
            space'.page[pg] # space.page[pg] =>
              space.page[pg] = Absent /\ \E a \in va .. va + read - 1 : PageOf(a) = pg
       /\ frame'.errno = "E_INVAL_ADDR" =>
            space' = space /\ frame'.text = <<>> /\ ~UserRange(va, len)
       /\ UserRange(va, len) => frame'.errno = "E_SUCC"
       /\ frame'.errno # "E_INVAL_ADDR" =>
            IF va <= MEM_USERHI
            THEN 2 * Cardinality(Absentees(space, va, read)) <= space.left =>
                   /\ Absentees(space', va, read) = {}
                   /\ frame'.nr = "DISPBUF" \/ ZERO \notin Range(shown)
                        => frame'.text = shown
            ELSE Len(frame'.text) <= piece /\ Range(frame'.text) \subseteq {KERNEL}
       /\ frame'.errno = "E_SUCC" =>
            \/ UserRange(va, len)
            \/ va + len >= WORD /\ (frame'.nr = "DISPBUF" \/ len <= piece)
CallContract == [][CallAnswered]_kernelVars
=============================================================================
