----------------------------- MODULE ReadyQueue -----------------------------
(***************************************************************************)
(* What the thread queue of thread.c promises: a first-in first-out queue  *)
(* of the threads that are ready, next to one thread that is current.      *)
(* alive is the set of threads that were ever started; a thread that is    *)
(* alive, not current and not ready was abandoned by ForceRunProcess.      *)
(***************************************************************************)
EXTENDS Integers, Sequences, SequencesExt

CONSTANT Thread      \* thread identifiers; 0 is the boot thread

VARIABLES ready, current, alive
vars == <<ready, current, alive>>

Init == ready = <<>> /\ current = 0 /\ alive = {0}

\* A thread that was never started joins the queue at its end.
Spawn(id) == /\ id \notin alive
             /\ alive' = alive \cup {id}
             /\ ready' = Append(ready, id)
             /\ UNCHANGED current

\* The current thread goes to the end of the queue, the first one runs.
Yield == /\ current' = Head(Append(ready, current))
         /\ ready' = Tail(Append(ready, current))
         /\ UNCHANGED alive

\* A ready thread leaves the queue, wherever it stands, and runs.  The thread
\* that was current is neither queued nor resumed.
ForceRun(id) == \E n \in DOMAIN ready :
                  /\ ready[n] = id
                  /\ current' = id
                  /\ ready' = RemoveAt(ready, n)
                  /\ UNCHANGED alive

Next == Yield \/ \E id \in Thread : Spawn(id) \/ ForceRun(id)

Spec == Init /\ [][Next]_vars
=============================================================================
