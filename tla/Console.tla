------------------------------ MODULE Console ------------------------------
(***************************************************************************)
(* The input buffer of console.c, which GetChar fills from the keyboard    *)
(* and empties, and its three readers: KernelMain, which waits for Enter,  *)
(* the line editor of MonitorRun, and the program, by SysGetChar.          *)
(*                                                                         *)
(* What the readers print, and so the cursor, is not part of this module.  *)
(* The model adds line, what the editor is expected to hold.               *)
(***************************************************************************)
EXTENDS LineBuffer, FiniteSets

CONSTANT Letters     \* characters that are not edited or split at

\* MonitorRun takes a character that is not 0.
ASSUME ConsoleAssumption == NUL \notin Letters

VARIABLES console,   \* buf, readPos and writePos
          monitor,   \* buf and index
          reader,    \* who calls GetChar
          args,      \* the arguments of the last command
          line
vars == <<console, monitor, reader, args, line>>

Typed == Letters \cup {BLANK, "newline", "backspace"}
Text == Letters \cup {BLANK, NUL}
-----------------------------------------------------------------------------
(***************************************************************************)
(* GetChar.                                                                *)
(***************************************************************************)
\* Mutant: the index wraps one place late.
Advance_Late(pos) == IF pos = CONSOLE_BUFFER_SIZE THEN 0 ELSE pos + 1

Advance(pos) == IF pos + 1 = CONSOLE_BUFFER_SIZE THEN 0 ELSE pos + 1

\* Mutant: the index moves before the character is stored.
Poll_AdvanceFirst(c) ==
  /\ console' = [console EXCEPT !.buf[Advance(console.writePos)] = c,
                                !.writePos = Advance(console.writePos)]
  /\ UNCHANGED <<monitor, reader, args, line>>

\* One turn of the polling loop, with a character.  The loop does not look at
\* readPos.
Poll(c) ==
  /\ console' = [console EXCEPT !.buf[console.writePos] = c,
                                !.writePos = Advance(console.writePos)]
  /\ UNCHANGED <<monitor, reader, args, line>>

\* The keyboard has no more, and the buffer is not empty: c is returned.
Grab(c) ==
  /\ console.readPos # console.writePos
  /\ c = console.buf[console.readPos]
  /\ console' = [console EXCEPT !.readPos = Advance(console.readPos)]
-----------------------------------------------------------------------------
(***************************************************************************)
(* The readers.                                                            *)
(***************************************************************************)
\* KernelMain drops what comes before Enter; MonitorRun then begins.
WaitForEnter ==
  \E c \in Typed :
    /\ reader = "KernelMain"
    /\ Grab(c)
    /\ IF c = "newline"
       THEN reader' = "MonitorRun" /\ monitor' = [monitor EXCEPT !.index = 0]
       ELSE UNCHANGED <<reader, monitor>>
    /\ UNCHANGED <<args, line>>

\* A command; one of them, user, does not return.
RunLine ==
  LET buf == Ended(monitor)
  IN /\ reader = "MonitorRun"
     /\ Grab("newline")
     /\ args' = Argv(buf)
     /\ \/ /\ monitor' = [buf |-> Gobble(buf), index |-> 0]
           /\ UNCHANGED reader
        \/ /\ args' # <<>>
           /\ monitor' = [buf |-> Gobble(buf), index |-> monitor.index]
           /\ reader' = "program"
     /\ line' = <<>>

EraseCharacter ==
  /\ reader = "MonitorRun"
  /\ Grab("backspace")
  /\ monitor' = Erased(monitor)
  /\ line' = IF line = <<>> THEN <<>> ELSE SubSeq(line, 1, Len(line) - 1)
  /\ UNCHANGED <<reader, args>>

EnterCharacter ==
  \E c \in Typed \ {"newline", "backspace"} :
    /\ reader = "MonitorRun"
    /\ Grab(c)
    /\ monitor' = Entered(monitor, c)
    /\ line' = IF monitor' = monitor THEN line ELSE Append(line, c)
    /\ UNCHANGED <<reader, args>>

SysGetChar ==
  /\ reader = "program"
  /\ \E c \in Typed : Grab(c)
  /\ UNCHANGED <<monitor, reader, args, line>>

Init == /\ console = [buf |-> [i \in Index |-> NUL], readPos |-> 0, writePos |-> 0]
        /\ monitor = EmptyLine
        /\ reader = "KernelMain"
        /\ args = <<>>
        /\ line = <<>>

Next == \/ \E c \in Typed : Poll(c)
        \/ WaitForEnter
        \/ RunLine \/ EraseCharacter \/ EnterCharacter
        \/ SysGetChar

Spec == Init /\ [][Next]_vars
-----------------------------------------------------------------------------
(***************************************************************************)
(* Properties.                                                             *)
(***************************************************************************)
\* The state keeps its types; the place of the terminator lies in the buffer.
TypeOK ==
  /\ console \in [buf : [Index -> Typed \cup {NUL}], readPos : Index, writePos : Index]
  /\ monitor \in [buf : [Index -> Text], index : Index]
  /\ reader \in {"KernelMain", "MonitorRun", "program"}
  /\ args \in Seq(Seq(Letters))
  /\ line \in Seq(Letters \cup {BLANK})

\* The unread part of the ring, from readPos round to writePos.
Unread ==
  LET n == (console.writePos - console.readPos) % CONSOLE_BUFFER_SIZE
  IN [k \in 1 .. n |-> console.buf[(console.readPos + k - 1) % CONSOLE_BUFFER_SIZE]]

\* The ring implements InputQueue for all its readers: first in, first out, and
\* nothing lost or doubled until it overruns.
Queue == INSTANCE InputQueue WITH Char <- Typed, Size <- CONSOLE_BUFFER_SIZE,
                                  waiting <- Unread
ImplementsInputQueue == Queue!Spec

\* The words of a line: its runs of characters that are not blank.
Runs(s) ==
  {r \in (1 .. Len(s)) \X (1 .. Len(s)) :
     /\ r[1] <= r[2]
     /\ \A k \in r[1] .. r[2] : s[k] # BLANK
     /\ r[1] = 1 \/ s[r[1] - 1] = BLANK
     /\ r[2] = Len(s) \/ s[r[2] + 1] = BLANK}

\* A command gets as arguments the words of the line that was typed, in their
\* order and each ended before the next, or none when they are too many.
ArgumentsAreWords ==
  [][RunLine =>
       LET runs == Runs(line)
           rank(r) == Cardinality({q \in runs : q[1] <= r[1]})
       IN IF Cardinality(runs) < MAX_ARGS
          THEN /\ Len(args') = Cardinality(runs)
               /\ \A r \in runs : args'[rank(r)] = SubSeq(line, r[1], r[2])
          ELSE args' = <<>>]_vars
=============================================================================
