----------------------------- MODULE LineBuffer -----------------------------
(***************************************************************************)
(* The line of monitor.c: how MonitorRun edits it, on the record m of its  *)
(* buf and index, and how RunCommand splits it into arguments.             *)
(***************************************************************************)
EXTENDS Integers, Sequences, FiniteSets

CONSTANTS CONSOLE_BUFFER_SIZE,
          MAX_ARGS

ASSUME LineBufferAssumption ==
  /\ CONSOLE_BUFFER_SIZE \in Nat /\ CONSOLE_BUFFER_SIZE > 1
  /\ MAX_ARGS \in Nat \ {0}

Index == 0 .. CONSOLE_BUFFER_SIZE - 1
NUL == "NUL"
BLANK == " "
EmptyLine == [buf |-> [i \in Index |-> NUL], index |-> 0]
-----------------------------------------------------------------------------
(***************************************************************************)
(* The editor.                                                             *)
(***************************************************************************)
Erased(m) == [m EXCEPT !.index = IF @ = 0 THEN 0 ELSE @ - 1]

\* A character that does not fit is dropped.
Entered(m, c) ==
  IF m.index < CONSOLE_BUFFER_SIZE - 1
  THEN [buf |-> [m.buf EXCEPT ![m.index] = c], index |-> m.index + 1]
  ELSE m

\* The buffer given to RunCommand.
Ended(m) == [m.buf EXCEPT ![m.index] = NUL]
-----------------------------------------------------------------------------
(***************************************************************************)
(* RunCommand's splitting: the words of the text before the first NUL.     *)
(***************************************************************************)
TextEnd(buf) == CHOOSE i \in Index : buf[i] = NUL /\ \A j \in 0 .. i - 1 : buf[j] # NUL

IsBlank(buf, i) == buf[i] = BLANK

\* Where words begin.
Starts(buf) == {i \in 0 .. TextEnd(buf) - 1 :
                  ~IsBlank(buf, i) /\ (i = 0 \/ IsBlank(buf, i - 1))}

TooMany(buf) == Cardinality(Starts(buf)) > MAX_ARGS - 1

\* Mutant: the blank after the last word is not overwritten.
Gobble_LastKept(buf) ==
  [i \in Index |->
     IF i < TextEnd(buf) /\ IsBlank(buf, i) /\ \E s \in Starts(buf) : i < s
     THEN NUL ELSE buf[i]]

\* Blanks become NULs, up to the first word too many.
Gobble(buf) ==
  LET reached(i) == Cardinality({s \in Starts(buf) : s <= i}) < MAX_ARGS
  IN [i \in Index |->
        IF i < TextEnd(buf) /\ IsBlank(buf, i) /\ reached(i) THEN NUL ELSE buf[i]]

\* The string a pointer to place i of buf stands for.
StringAt(buf, i) ==
  LET end == CHOOSE j \in i .. CONSOLE_BUFFER_SIZE - 1 :
               buf[j] = NUL /\ \A k \in i .. j - 1 : buf[k] # NUL
  IN [k \in 1 .. end - i |-> buf[i + k - 1]]

\* argv, by the strings it points to; empty if there are too many words, and
\* then no command runs.
Argv(buf) ==
  LET split == Gobble(buf)
      nth(k) == CHOOSE s \in Starts(buf) :
                  Cardinality({t \in Starts(buf) : t <= s}) = k
  IN IF TooMany(buf) THEN <<>>
     ELSE [k \in 1 .. Cardinality(Starts(buf)) |-> StringAt(split, nth(k))]
=============================================================================
