----------------------------- MODULE InputQueue -----------------------------
(***************************************************************************)
(* What the console's input buffer promises: characters come out in the    *)
(* order they came in, none is lost and none comes twice, as long as fewer *)
(* than Size are waiting.  One more, and all that waited are lost.         *)
(***************************************************************************)
EXTENDS Integers, Sequences

CONSTANTS Char, Size

VARIABLE waiting

Init == waiting = <<>>

Put(c) == waiting' = IF Len(waiting) = Size - 1 THEN <<>> ELSE Append(waiting, c)

Take == waiting # <<>> /\ waiting' = Tail(waiting)

Next == Take \/ \E c \in Char : Put(c)

Spec == Init /\ [][Next]_waiting
=============================================================================
