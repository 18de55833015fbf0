--------------------------- MODULE ConsoleProofs ---------------------------
(***************************************************************************)
(* The ring of console.c implements the queue of InputQueue, and the line  *)
(* of monitor.c is split into the words that were typed, for every size of *)
(* the buffers and every set of characters.                                *)
(***************************************************************************)
EXTENDS Console, SequenceTheorems, FiniteSetTheorems, WellFoundedInduction, TLAPS

N == CONSOLE_BUFFER_SIZE

LEMMA SizeFacts == N \in Nat /\ N > 1 /\ Index = 0 .. N - 1
BY LineBufferAssumption DEF N, Index

\* The remainder of a sum, or of a difference, of two places.
LEMMA Wrapped ==
  ASSUME NEW x \in Int, -N < x, x < N + N
  PROVE  x % N = IF x < 0 THEN x + N ELSE IF x < N THEN x ELSE x - N
<1> DEFINE q == x \div N
           m == x % N
<1>1. N \in Nat /\ N > 1
  BY SizeFacts
<1>2. q \in Int /\ m \in Int /\ 0 <= m /\ m < N /\ x = N * q + m
  BY <1>1
<1> HIDE DEF q, m
<1>3. q < 2
  <2>1. CASE q >= 2
    <3>1. N * q >= N * 2
      BY <2>1, <1>1, <1>2
    <3> QED
      BY <3>1, <1>1, <1>2
  <2> QED
    BY <2>1, <1>2
<1>4. q > -2
  <2>1. CASE q <= -2
    <3>1. N * q <= N * (-2)
      BY <2>1, <1>1, <1>2
    <3> QED
      BY <3>1, <1>1, <1>2
  <2> QED
    BY <2>1, <1>2
<1>5. q = -1 \/ q = 0 \/ q = 1
  BY <1>2, <1>3, <1>4
<1>6. m = IF x < 0 THEN x + N ELSE IF x < N THEN x ELSE x - N
  BY <1>1, <1>2, <1>5
<1> QED
  BY <1>6 DEF m
-----------------------------------------------------------------------------
(***************************************************************************)
(* The unread part of a ring c.                                            *)
(***************************************************************************)
Ring == [buf : [Index -> Typed \cup {NUL}], readPos : Index, writePos : Index]

\* How many characters wait, and where the k-th of them is.
Waiting(c) == IF c.writePos >= c.readPos THEN c.writePos - c.readPos
              ELSE c.writePos - c.readPos + N
Place(c, k) == IF c.readPos + k - 1 < N THEN c.readPos + k - 1
               ELSE c.readPos + k - 1 - N

LEMMA PlaceFacts ==
  ASSUME NEW c \in Ring
  PROVE  /\ c.readPos \in Nat /\ c.readPos < N /\ c.writePos \in Nat /\ c.writePos < N
         /\ Waiting(c) \in 0 .. N - 1
         /\ \A k \in 1 .. Waiting(c) : Place(c, k) \in Index /\ Place(c, k) # c.writePos
         /\ Waiting(c) = 0 <=> c.readPos = c.writePos
<1>1. /\ c.readPos \in Nat /\ c.readPos < N /\ c.writePos \in Nat /\ c.writePos < N
      /\ N \in Nat /\ N > 1
  BY SizeFacts DEF Ring
<1>2. Waiting(c) \in 0 .. N - 1 /\ (Waiting(c) = 0 <=> c.readPos = c.writePos)
  BY <1>1 DEF Waiting
<1>3. ASSUME NEW k \in 1 .. Waiting(c)
      PROVE  Place(c, k) \in 0 .. N - 1 /\ Place(c, k) # c.writePos
  BY <1>1, <1>2 DEF Waiting, Place
<1> QED
  BY <1>1, <1>2, <1>3, SizeFacts

\* Unread without the remainders.
UnreadOf(c) == [k \in 1 .. Waiting(c) |-> c.buf[Place(c, k)]]

LEMMA UnreadFacts == console \in Ring => Unread = UnreadOf(console)
<1> SUFFICES ASSUME console \in Ring PROVE Unread = UnreadOf(console)
  OBVIOUS
<1> DEFINE n == (console.writePos - console.readPos) % N
<1>1. /\ console.readPos \in Nat /\ console.readPos < N
      /\ console.writePos \in Nat /\ console.writePos < N
      /\ Waiting(console) \in 0 .. N - 1 /\ N \in Nat /\ N > 1
  BY PlaceFacts, SizeFacts
<1>2. n = Waiting(console)
  <2> DEFINE x == console.writePos - console.readPos
  <2>1. x \in Int /\ -N < x /\ x < N
    BY <1>1
  <2>2. x % N = IF x < 0 THEN x + N ELSE x
    <3> HIDE DEF x
    <3>1. x < N + N
      BY <2>1, <1>1
    <3> QED
      BY <2>1, <3>1, <1>1, Wrapped
  <2> QED
    BY <2>2, <1>1 DEF Waiting
<1>3. ASSUME NEW k \in 1 .. Waiting(console)
      PROVE  (console.readPos + k - 1) % N = Place(console, k)
  <2> DEFINE x == console.readPos + k - 1
  <2>1. x \in Int /\ 0 <= x /\ x < N + N
    BY <1>1
  <2>2. Place(console, k) = IF x < N THEN x ELSE x - N
    BY <1>1 DEF Place
  <2> HIDE DEF x
  <2>3. -N < x
    BY <2>1, <1>1
  <2>4. x % N = IF x < N THEN x ELSE x - N
    BY <2>1, <2>3, <1>1, Wrapped
  <2>5. x % N = Place(console, k)
    BY <2>2, <2>4
  <2> QED
    BY <2>5 DEF x
<1>4. Unread = [k \in 1 .. n |-> console.buf[(console.readPos + k - 1) % N]]
  BY DEF Unread, N
<1> HIDE DEF n
<1> QED
  BY <1>2, <1>3, <1>4 DEF UnreadOf

LEMMA UnreadSeq ==
  ASSUME NEW c \in Ring
  PROVE  /\ UnreadOf(c) \in Seq(Typed \cup {NUL})
         /\ Len(UnreadOf(c)) = Waiting(c) /\ Waiting(c) \in Nat
         /\ \A k \in 1 .. Waiting(c) : UnreadOf(c)[k] = c.buf[Place(c, k)]
<1>1. Waiting(c) \in Nat /\ \A k \in 1 .. Waiting(c) : Place(c, k) \in Index
  BY PlaceFacts
<1>2. c.buf \in [Index -> Typed \cup {NUL}]
  BY DEF Ring
<1>3. UnreadOf(c) \in [1 .. Waiting(c) -> Typed \cup {NUL}]
  BY <1>1, <1>2 DEF UnreadOf
<1>4. UnreadOf(c) \in Seq(Typed \cup {NUL}) /\ Len(UnreadOf(c)) = Waiting(c)
  BY <1>1, <1>3
<1> QED
  BY <1>1, <1>4 DEF UnreadOf

LEMMA AdvanceFacts ==
  ASSUME NEW p \in Index
  PROVE  Advance(p) \in Index /\ Advance(p) = IF p + 1 = N THEN 0 ELSE p + 1
BY SizeFacts DEF Advance, N

\* A character stored: one more at the end, or the ring looks empty.
LEMMA PollFacts ==
  ASSUME NEW c \in Ring, NEW e \in Typed, NEW t,
         t = [c EXCEPT !.buf[c.writePos] = e, !.writePos = Advance(c.writePos)]
  PROVE  /\ t \in Ring
         /\ UnreadOf(t) = IF Len(UnreadOf(c)) = N - 1 THEN <<>>
                          ELSE Append(UnreadOf(c), e)
<1>1. c.writePos \in Index /\ c.readPos \in Index /\ c.buf \in [Index -> Typed \cup {NUL}]
  BY DEF Ring
<1>2. /\ t \in Ring /\ t.readPos = c.readPos /\ t.writePos = Advance(c.writePos)
      /\ t.buf = [c.buf EXCEPT ![c.writePos] = e]
  BY <1>1, AdvanceFacts DEF Ring
<1>3. Waiting(t) = IF Waiting(c) = N - 1 THEN 0 ELSE Waiting(c) + 1
  BY <1>1, <1>2, AdvanceFacts, SizeFacts DEF Waiting
<1>4. Len(UnreadOf(c)) = Waiting(c)
  BY UnreadSeq
<1>5. CASE Waiting(c) = N - 1
  <2>1. UnreadOf(t) \in Seq(Typed \cup {NUL}) /\ Len(UnreadOf(t)) = 0
    BY <1>2, <1>3, <1>5, UnreadSeq
  <2>2. UnreadOf(t) = <<>>
    BY <2>1
  <2> QED
    BY <1>2, <1>4, <1>5, <2>2
<1>6. CASE Waiting(c) # N - 1
  <2> DEFINE s == Append(UnreadOf(c), e)
  <2>1. /\ s \in Seq(Typed \cup {NUL}) /\ Len(s) = Waiting(c) + 1
        /\ \A k \in 1 .. Waiting(c) : s[k] = UnreadOf(c)[k]
        /\ s[Waiting(c) + 1] = e
    BY <1>4, UnreadSeq, AppendProperties
  <2>2. /\ UnreadOf(t) \in Seq(Typed \cup {NUL}) /\ Len(UnreadOf(t)) = Waiting(c) + 1
        /\ \A k \in 1 .. Waiting(c) + 1 : UnreadOf(t)[k] = t.buf[Place(t, k)]
    BY <1>2, <1>3, <1>6, UnreadSeq
  <2>3. ASSUME NEW k \in 1 .. Waiting(c) PROVE UnreadOf(t)[k] = s[k]
    <3>1. Place(t, k) = Place(c, k)
      BY <1>2 DEF Place
    <3>2. Place(c, k) \in Index /\ Place(c, k) # c.writePos
      BY PlaceFacts
    <3>3. k \in 1 .. Waiting(c) + 1
      BY UnreadSeq
    <3>4. t.buf[Place(c, k)] = c.buf[Place(c, k)]
      BY <3>2, <1>1, <1>2
    <3> QED
      BY <3>1, <3>3, <3>4, <2>1, <2>2, UnreadSeq
  <2>4. UnreadOf(t)[Waiting(c) + 1] = e
    <3>1. Place(t, Waiting(c) + 1) = c.writePos
      BY <1>1, <1>2, <1>6, PlaceFacts, SizeFacts DEF Place, Waiting
    <3>2. Waiting(c) + 1 \in 1 .. Waiting(c) + 1
      BY UnreadSeq
    <3> QED
      BY <3>1, <3>2, <2>2, <1>1, <1>2
  <2>5. \A k \in 1 .. Waiting(c) + 1 : UnreadOf(t)[k] = s[k]
    <3>1. \A k \in 1 .. Waiting(c) + 1 : k \in 1 .. Waiting(c) \/ k = Waiting(c) + 1
      BY UnreadSeq
    <3> HIDE DEF s
    <3> QED
      BY <3>1, <2>1, <2>3, <2>4
  <2> HIDE DEF s
  <2>6. UnreadOf(t) = s
    BY <2>1, <2>2, <2>5, SeqEqual
  <2> QED
    BY <1>2, <1>4, <1>6, <2>6 DEF s
<1> QED
  BY <1>5, <1>6

\* A character taken: the first of those that waited.
LEMMA GrabFacts ==
  ASSUME NEW c \in Ring, c.readPos # c.writePos, NEW t,
         t = [c EXCEPT !.readPos = Advance(c.readPos)]
  PROVE  /\ t \in Ring
         /\ UnreadOf(c) # <<>> /\ UnreadOf(t) = Tail(UnreadOf(c))
<1>1. c.writePos \in Index /\ c.readPos \in Index
  BY DEF Ring
<1>2. /\ t \in Ring /\ t.readPos = Advance(c.readPos) /\ t.writePos = c.writePos
      /\ t.buf = c.buf
  BY <1>1, AdvanceFacts DEF Ring
<1>3. Waiting(t) = Waiting(c) - 1 /\ Waiting(c) > 0
  <2>1. /\ c.readPos \in Nat /\ c.writePos \in Nat /\ N \in Nat /\ N > 1
        /\ c.readPos < N /\ c.writePos < N
        /\ t.readPos = IF c.readPos + 1 = N THEN 0 ELSE c.readPos + 1
    BY <1>1, <1>2, AdvanceFacts, SizeFacts
  <2> QED
    BY <2>1, <1>2 DEF Waiting
<1> DEFINE u == UnreadOf(c)
           s == Tail(u)
<1>4. u \in Seq(Typed \cup {NUL}) /\ Len(u) = Waiting(c) /\ Waiting(c) \in Nat
  BY UnreadSeq
<1>5. u # <<>>
  BY <1>3, <1>4
<1>6. /\ s \in Seq(Typed \cup {NUL}) /\ Len(s) = Waiting(c) - 1
      /\ \A k \in 1 .. Waiting(c) - 1 : s[k] = u[k + 1]
  <2> HIDE DEF u
  <2> QED
    BY <1>4, <1>5, HeadTailProperties
<1>7. /\ UnreadOf(t) \in Seq(Typed \cup {NUL}) /\ Len(UnreadOf(t)) = Waiting(c) - 1
      /\ \A k \in 1 .. Waiting(c) - 1 : UnreadOf(t)[k] = c.buf[Place(t, k)]
  BY <1>2, <1>3, UnreadSeq
<1>8. ASSUME NEW k \in 1 .. Waiting(c) - 1 PROVE UnreadOf(t)[k] = s[k]
  <2>1. Place(t, k) = Place(c, k + 1)
    <3>1. /\ c.readPos \in Nat /\ N \in Nat /\ c.readPos < N
          /\ t.readPos = IF c.readPos + 1 = N THEN 0 ELSE c.readPos + 1
          /\ k \in Nat /\ 0 < k /\ k < N
      BY <1>1, <1>2, AdvanceFacts, PlaceFacts, SizeFacts
    <3> QED
      BY <3>1 DEF Place
  <2>2. k + 1 \in 1 .. Waiting(c)
    BY <1>4
  <2>3. u[k + 1] = c.buf[Place(c, k + 1)]
    BY <2>2, UnreadSeq
  <2> HIDE DEF u, s
  <2> QED
    BY <2>1, <2>3, <1>6, <1>7
<1> HIDE DEF s
<1>9. UnreadOf(t) = s
  BY <1>6, <1>7, <1>8, SeqEqual
<1> QED
  BY <1>2, <1>5, <1>9 DEF s
-----------------------------------------------------------------------------
(***************************************************************************)
(* The refinement.                                                         *)
(***************************************************************************)
RingInv == console \in Ring

LEMMA InitRing == Init => RingInv /\ Unread = <<>>
<1> SUFFICES ASSUME Init PROVE RingInv /\ Unread = <<>>
  OBVIOUS
<1>1. console = [buf |-> [i \in Index |-> NUL], readPos |-> 0, writePos |-> 0]
  BY DEF Init
<1>2. console \in Ring /\ Waiting(console) = 0
  BY <1>1, SizeFacts DEF Ring, Waiting
<1>3. UnreadOf(console) \in Seq(Typed \cup {NUL}) /\ Len(UnreadOf(console)) = 0
  BY <1>2, UnreadSeq
<1>4. UnreadOf(console) = <<>>
  BY <1>3
<1> QED
  BY <1>2, <1>4, UnreadFacts DEF RingInv

\* Unread after a step, of the ring after it.
LEMMA UnreadNext == (console \in Ring => Unread = UnreadOf(console))'
BY UnreadFacts, PTL

LEMMA RingStep == RingInv /\ [Next]_vars => RingInv' /\ [Queue!Next]_Unread
<1> SUFFICES ASSUME RingInv, [Next]_vars PROVE RingInv' /\ [Queue!Next]_Unread
  OBVIOUS
<1>1. console \in Ring /\ Unread = UnreadOf(console)
  BY UnreadFacts DEF RingInv
<1>2. ASSUME NEW e \in Typed, Poll(e) PROVE RingInv' /\ Queue!Put(e)
  <2>1. console' = [console EXCEPT !.buf[console.writePos] = e,
                                   !.writePos = Advance(console.writePos)]
    BY <1>2 DEF Poll
  <2>2. /\ console' \in Ring
        /\ UnreadOf(console') = IF Len(UnreadOf(console)) = N - 1 THEN <<>>
                                ELSE Append(UnreadOf(console), e)
    BY <1>1, <2>1, PollFacts
  <2> QED
    BY <1>1, <2>2, UnreadNext DEF RingInv, Queue!Put, N
<1>3. ASSUME NEW c, Grab(c) PROVE RingInv' /\ Queue!Take
  <2>1. console.readPos # console.writePos
        /\ console' = [console EXCEPT !.readPos = Advance(console.readPos)]
    BY <1>3 DEF Grab
  <2>2. /\ console' \in Ring /\ UnreadOf(console) # <<>>
        /\ UnreadOf(console') = Tail(UnreadOf(console))
    BY <1>1, <2>1, GrabFacts
  <2> QED
    BY <1>1, <2>2, UnreadNext DEF RingInv, Queue!Take
<1>4. CASE UNCHANGED vars
  <2>1. console' = console
    BY <1>4 DEF vars
  <2> QED
    BY <2>1 DEF RingInv, Unread
<1>5. CASE Next
  <2>1. \/ \E e \in Typed : Poll(e)
        \/ \E c : Grab(c)
    BY <1>5 DEF Next, WaitForEnter, RunLine, EraseCharacter, EnterCharacter, SysGetChar
  <2> QED
    BY <2>1, <1>2, <1>3 DEF Queue!Next
<1> QED
  BY <1>4, <1>5

\* The ring is a first in, first out queue for all its readers, for every size of
\* the buffer: nothing is lost or doubled until it overruns, and an overrun loses
\* all that waited.
THEOREM RingIsQueue == Spec => ImplementsInputQueue
<1>1. Init => RingInv /\ Queue!Init
  BY InitRing DEF Queue!Init
<1> QED
  BY <1>1, RingStep, PTL DEF Spec, ImplementsInputQueue, Queue!Spec
-----------------------------------------------------------------------------
(***************************************************************************)
(* The words of a line s: their starts, counted from 0 as in the buffer,   *)
(* correspond to its runs, counted from 1.                                 *)
(***************************************************************************)
Blanked == Letters \cup {BLANK}

WordStarts(s) == {i \in 0 .. Len(s) - 1 : s[i + 1] # BLANK /\ (i = 0 \/ s[i] = BLANK)}

LEMMA LeastNat ==
  ASSUME NEW S, S \subseteq Nat, S # {}
  PROVE  \E n \in S : \A k \in S : n <= k
<1> DEFINE less == {ss \in Nat \X Nat : ss[1] < ss[2]}
<1>1. IsWellFoundedOn(less, Nat)
  BY NatLessThanWellFounded DEF OpToRel
<1>2. PICK n \in S : \A k \in S : ~ (<<k, n>> \in less)
  <2> HIDE DEF less
  <2> QED
    BY <1>1, WFMin
<1>3. ASSUME NEW k \in S PROVE n <= k
  <2>1. n \in Nat /\ k \in Nat /\ ~ (<<k, n>> \in less)
    BY <1>2
  <2> QED
    BY <2>1
<1> QED
  BY <1>3

\* A run ends at the first blank behind its start, or with the line.
LEMMA RunFrom ==
  ASSUME NEW s \in Seq(Blanked), NEW i \in WordStarts(s)
  PROVE  \E r \in Runs(s) : r[1] - 1 = i
<1> DEFINE E == {e \in Nat : i + 1 <= e /\ e <= Len(s) /\ (e = Len(s) \/ s[e + 1] = BLANK)}
<1>1. /\ Len(s) \in Nat /\ i \in Nat /\ i + 1 <= Len(s)
      /\ s[i + 1] # BLANK /\ (i = 0 \/ s[i] = BLANK)
  BY DEF WordStarts
<1>2. Len(s) \in E
  BY <1>1
<1>3. PICK e \in E : \A k \in E : e <= k
  <2>1. E \subseteq Nat /\ E # {}
    BY <1>2
  <2> HIDE DEF E
  <2> QED
    BY <2>1, LeastNat
<1>4. e \in Nat /\ i + 1 <= e /\ e <= Len(s) /\ (e = Len(s) \/ s[e + 1] = BLANK)
  BY <1>3
<1>5. ASSUME NEW k \in i + 1 .. e PROVE s[k] # BLANK
  <2>1. CASE k = i + 1
    BY <2>1, <1>1
  <2>2. CASE k # i + 1
    <3>1. k - 1 \in Nat /\ i + 1 <= k - 1 /\ k - 1 < e /\ (k - 1) + 1 = k
      BY <2>2, <1>1, <1>4
    <3>2. k - 1 \notin E
      BY <3>1, <1>3, <1>4
    <3> QED
      BY <3>1, <3>2, <1>1, <1>4
  <2> QED
    BY <2>1, <2>2
<1> DEFINE r == <<i + 1, e>>
<1>6. r \in (1 .. Len(s)) \X (1 .. Len(s)) /\ r[1] = i + 1 /\ r[2] = e
  BY <1>1, <1>4
<1>7. (r[1] = 1 \/ s[r[1] - 1] = BLANK) /\ r[1] - 1 = i
  <2>1. (i + 1) - 1 = i /\ (i = 0 => i + 1 = 1)
    BY <1>1
  <2> QED
    BY <2>1, <1>1, <1>6
<1> HIDE DEF r
<1>8. r \in Runs(s)
  BY <1>4, <1>5, <1>6, <1>7 DEF Runs
<1> QED
  BY <1>7, <1>8

LEMMA RunFacts ==
  ASSUME NEW s \in Seq(Blanked), NEW r \in Runs(s)
  PROVE  /\ r[1] \in Nat /\ r[2] \in Nat /\ 1 <= r[1] /\ r[1] <= r[2] /\ r[2] <= Len(s)
         /\ \A k \in r[1] .. r[2] : s[k] # BLANK
         /\ r[2] = Len(s) \/ s[r[2] + 1] = BLANK
         /\ r[1] - 1 \in WordStarts(s)
<1>1. /\ r[1] \in 1 .. Len(s) /\ r[2] \in 1 .. Len(s) /\ r[1] <= r[2]
      /\ \A k \in r[1] .. r[2] : s[k] # BLANK
      /\ r[2] = Len(s) \/ s[r[2] + 1] = BLANK
      /\ r[1] = 1 \/ s[r[1] - 1] = BLANK
  BY DEF Runs
<1>2. Len(s) \in Nat
  OBVIOUS
<1>3. r[1] - 1 \in 0 .. Len(s) - 1 /\ (r[1] - 1) + 1 = r[1] /\ r[1] \in r[1] .. r[2]
  BY <1>1, <1>2
<1>4. r[1] - 1 \in WordStarts(s)
  <2> DEFINE i == r[1] - 1
  <2>1. s[i + 1] # BLANK /\ (i = 0 \/ s[i] = BLANK) /\ i \in 0 .. Len(s) - 1
    BY <1>1, <1>3
  <2> HIDE DEF i
  <2>2. i \in WordStarts(s)
    BY <2>1 DEF WordStarts
  <2> QED
    BY <2>2 DEF i
<1> QED
  BY <1>1, <1>2, <1>4

LEMMA OneRun ==
  ASSUME NEW s \in Seq(Blanked), NEW r \in Runs(s), NEW q \in Runs(s), r[1] = q[1]
  PROVE  r = q
<1>1. /\ r[1] \in Nat /\ r[2] \in Nat /\ q[1] \in Nat /\ q[2] \in Nat /\ Len(s) \in Nat
      /\ r[1] <= r[2] /\ r[2] <= Len(s) /\ q[1] <= q[2] /\ q[2] <= Len(s)
      /\ \A k \in r[1] .. r[2] : s[k] # BLANK
      /\ \A k \in q[1] .. q[2] : s[k] # BLANK
      /\ r[2] = Len(s) \/ s[r[2] + 1] = BLANK
      /\ q[2] = Len(s) \/ s[q[2] + 1] = BLANK
  BY RunFacts
<1>2. ~ (r[2] < q[2])
  <2> SUFFICES ASSUME r[2] < q[2] PROVE FALSE
    OBVIOUS
  <2>1. r[2] + 1 \in q[1] .. q[2] /\ r[2] # Len(s)
    BY <1>1
  <2> QED
    BY <2>1, <1>1
<1>3. ~ (q[2] < r[2])
  <2> SUFFICES ASSUME q[2] < r[2] PROVE FALSE
    OBVIOUS
  <2>1. q[2] + 1 \in r[1] .. r[2] /\ q[2] # Len(s)
    BY <1>1
  <2> QED
    BY <2>1, <1>1
<1>4. r[2] = q[2]
  BY <1>1, <1>2, <1>3
<1>5. r = <<r[1], r[2]>> /\ q = <<q[1], q[2]>>
  BY DEF Runs
<1> QED
  BY <1>4, <1>5

\* As many runs start in T as T has starts.
LEMMA RunsCounted ==
  ASSUME NEW s \in Seq(Blanked), NEW T, T \subseteq WordStarts(s)
  PROVE  /\ IsFiniteSet(T) /\ IsFiniteSet({r \in Runs(s) : r[1] - 1 \in T})
         /\ Cardinality({r \in Runs(s) : r[1] - 1 \in T}) = Cardinality(T)
<1> DEFINE R == {r \in Runs(s) : r[1] - 1 \in T}
           f == [i \in T |-> CHOOSE r \in R : r[1] - 1 = i]
<1>1. IsFiniteSet(T)
  <2>1. Len(s) - 1 \in Int /\ 0 \in Int
    OBVIOUS
  <2>2. IsFiniteSet(0 .. Len(s) - 1)
    BY <2>1, FS_Interval
  <2>3. T \subseteq 0 .. Len(s) - 1
    BY DEF WordStarts
  <2> QED
    BY <2>2, <2>3, FS_Subset
<1>2. ASSUME NEW i \in T PROVE f[i] \in R /\ f[i][1] - 1 = i
  <2>1. \E r \in Runs(s) : r[1] - 1 = i
    BY RunFrom
  <2>2. \E r \in R : r[1] - 1 = i
    BY <2>1
  <2> QED
    BY <2>2
<1>3. ASSUME NEW r \in R PROVE r[1] - 1 \in T /\ f[r[1] - 1] = r
  <2>1. r[1] - 1 \in T
    OBVIOUS
  <2>2. f[r[1] - 1] \in R /\ f[r[1] - 1][1] - 1 = r[1] - 1
    BY <2>1, <1>2
  <2>3. f[r[1] - 1] \in Runs(s) /\ r \in Runs(s)
    BY <2>2
  <2>4. f[r[1] - 1][1] \in Nat /\ r[1] \in Nat
    BY <2>3, RunFacts
  <2>5. f[r[1] - 1][1] = r[1]
    BY <2>2, <2>4
  <2> HIDE DEF f
  <2> QED
    BY <2>1, <2>3, <2>5, OneRun
<1>4. f \in Bijection(T, R)
  <2>1. f \in [T -> R]
    BY <1>2
  <2>2. \A i, j \in T : f[i] = f[j] => i = j
    BY <1>2
  <2>3. \A r \in R : \E i \in T : f[i] = r
    BY <1>3
  <2> HIDE DEF f, R
  <2> QED
    BY <2>1, <2>2, <2>3 DEF Bijection, Injection, Surjection, IsInjective
<1> HIDE DEF f, R
<1>5. IsFiniteSet(R) /\ Cardinality(R) = Cardinality(T)
  <2>1. ExistsBijection(T, R)
    BY <1>4 DEF ExistsBijection
  <2> QED
    BY <1>1, <2>1, FS_Bijection
<1> QED
  BY <1>1, <1>5 DEF R

\* How many elements of S there are up to x.
Rank(S, x) == Cardinality({t \in S : t <= x})

LEMMA RankFacts ==
  ASSUME NEW S, S \subseteq Nat, IsFiniteSet(S)
  PROVE  /\ \A x \in S : Rank(S, x) \in 1 .. Cardinality(S)
         /\ \A x, y \in S : Rank(S, x) = Rank(S, y) => x = y
         /\ \A k \in 1 .. Cardinality(S) : \E x \in S : Rank(S, x) = k
<1> DEFINE D(x) == {t \in S : t <= x}
<1>1. ASSUME NEW x \in S
      PROVE  /\ IsFiniteSet(D(x)) /\ Cardinality(D(x)) \in Nat /\ Cardinality(S) \in Nat
             /\ Cardinality(D(x)) <= Cardinality(S) /\ Cardinality(D(x)) # 0
  <2>1. D(x) \in SUBSET S /\ x \in D(x)
    OBVIOUS
  <2> HIDE DEF D
  <2>2. IsFiniteSet(D(x)) /\ Cardinality(D(x)) <= Cardinality(S)
    BY <2>1, FS_Subset
  <2>3. Cardinality(D(x)) \in Nat /\ Cardinality(S) \in Nat
    BY <2>2, FS_CardinalityType
  <2>4. Cardinality(D(x)) # 0
    BY <2>1, <2>2, FS_EmptySet
  <2> QED
    BY <2>2, <2>3, <2>4
<1>2. ASSUME NEW x \in S, NEW y \in S, x < y
      PROVE  Cardinality(D(x)) # Cardinality(D(y))
  <2>1. D(x) \in SUBSET D(y) /\ y \in D(y) /\ y \notin D(x)
    <3>1. \A t \in S : t \in Nat
      OBVIOUS
    <3>2. x \in Nat /\ y \in Nat /\ ~ (y <= x) /\ y <= y
      BY <1>2
    <3>3. \A t \in S : t <= x => t <= y
      BY <1>2, <3>1, <3>2
    <3> QED
      BY <3>2, <3>3
  <2>2. IsFiniteSet(D(y))
    BY <1>1
  <2> HIDE DEF D
  <2> QED
    BY <2>1, <2>2, FS_Subset
<1>3. ASSUME NEW x \in S PROVE Rank(S, x) \in 1 .. Cardinality(S)
  <2>1. Rank(S, x) = Cardinality(D(x))
    BY DEF Rank
  <2> HIDE DEF D
  <2> QED
    BY <2>1, <1>1
<1>4. ASSUME NEW x \in S, NEW y \in S, Rank(S, x) = Rank(S, y) PROVE x = y
  <2>1. Cardinality(D(x)) = Cardinality(D(y))
    BY <1>4 DEF Rank
  <2>2. x \in Nat /\ y \in Nat
    OBVIOUS
  <2> HIDE DEF D
  <2>3. ~ (x < y) /\ ~ (y < x)
    BY <2>1, <1>2
  <2> QED
    BY <2>2, <2>3
<1>5. ASSUME NEW k \in 1 .. Cardinality(S) PROVE \E x \in S : Rank(S, x) = k
  <2> DEFINE n == Cardinality(S)
             f == [x \in S |-> Rank(S, x)]
  <2>1. n \in Nat
    BY FS_CardinalityType
  <2>2. f \in Injection(S, 1 .. n)
    <3>1. f \in [S -> 1 .. n]
      BY <1>3
    <3>2. \A x, y \in S : f[x] = f[y] => x = y
      BY <1>4
    <3> HIDE DEF f, n
    <3> QED
      BY <3>1, <3>2 DEF Injection, IsInjective
  <2>3. IsFiniteSet(1 .. n) /\ Cardinality(1 .. n) = n
    <3> HIDE DEF n
    <3>1. 1 \in Int /\ n \in Int /\ 1 <= n + 1
      BY <2>1
    <3>2. IsFiniteSet(1 .. n) /\ Cardinality(1 .. n) = IF 1 > n THEN 0 ELSE n - 1 + 1
      BY <3>1, FS_Interval
    <3> QED
      BY <2>1, <3>2
  <2>4. f \in Surjection(S, 1 .. n)
    <3>1. Cardinality(S) = Cardinality(1 .. n)
      BY <2>3
    <3> HIDE DEF f, n
    <3> QED
      BY <2>2, <2>3, <3>1, FS_Injection
  <2>5. PICK x \in S : f[x] = k
    <3> HIDE DEF f
    <3> QED
      BY <2>4 DEF Surjection
  <2> QED
    BY <2>5
<1> QED
  BY <1>3, <1>4, <1>5

\* The rank of a run is that of its start.
LEMMA RunRank ==
  ASSUME NEW s \in Seq(Blanked), NEW r \in Runs(s)
  PROVE  Cardinality({q \in Runs(s) : q[1] <= r[1]}) = Rank(WordStarts(s), r[1] - 1)
<1> DEFINE T == {t \in WordStarts(s) : t <= r[1] - 1}
<1>1. Cardinality({q \in Runs(s) : q[1] - 1 \in T}) = Cardinality(T)
  <2>1. T \subseteq WordStarts(s)
    OBVIOUS
  <2> HIDE DEF T
  <2> QED
    BY <2>1, RunsCounted
<1>2. ASSUME NEW q \in Runs(s) PROVE q[1] <= r[1] <=> q[1] - 1 \in T
  <2>1. q[1] \in Nat /\ r[1] \in Nat /\ q[1] - 1 \in WordStarts(s)
    BY RunFacts
  <2> QED
    BY <2>1
<1>3. {q \in Runs(s) : q[1] <= r[1]} = {q \in Runs(s) : q[1] - 1 \in T}
  BY <1>2
<1> QED
  BY <1>1, <1>3 DEF Rank
-----------------------------------------------------------------------------
(***************************************************************************)
(* What RunCommand makes of a line: the buffer b holds s and a NUL.        *)
(***************************************************************************)
Holding(b, s) ==
  /\ b \in [Index -> Text] /\ s \in Seq(Blanked) /\ Len(s) \in Index
  /\ \A i \in 0 .. Len(s) - 1 : b[i] = s[i + 1]
  /\ b[Len(s)] = NUL

LEMMA NotNUL == BLANK # NUL /\ NUL \notin Blanked
<1>1. BLANK # NUL
  BY Zenon DEF BLANK, NUL
<1> QED
  BY <1>1, ConsoleAssumption DEF Blanked

LEMMA HoldingFacts ==
  ASSUME NEW b, NEW s, Holding(b, s)
  PROVE  /\ s \in Seq(Blanked) /\ Len(s) \in Nat /\ Len(s) < N
         /\ \A i \in 0 .. Len(s) - 1 : i \in Index /\ b[i] = s[i + 1] /\ b[i] # NUL
         /\ b[Len(s)] = NUL /\ Len(s) \in Index
<1>1. s \in Seq(Blanked) /\ Len(s) \in Nat /\ Len(s) < N /\ Len(s) \in Index /\ b[Len(s)] = NUL
  BY SizeFacts DEF Holding
<1>2. ASSUME NEW i \in 0 .. Len(s) - 1 PROVE i \in Index /\ b[i] = s[i + 1] /\ b[i] # NUL
  <2>1. i \in Index
    BY <1>1, SizeFacts
  <2>2. b[i] = s[i + 1]
    BY DEF Holding
  <2>3. i + 1 \in 1 .. Len(s)
    BY <1>1
  <2>4. s[i + 1] \in Blanked
    BY <1>1, <2>3
  <2> QED
    BY <2>1, <2>2, <2>4, NotNUL
<1> QED
  BY <1>1, <1>2

LEMMA TextEndIs == ASSUME NEW b, NEW s, Holding(b, s) PROVE TextEnd(b) = Len(s)
<1> DEFINE Ends(i) == b[i] = NUL /\ \A j \in 0 .. i - 1 : b[j] # NUL
<1>1. /\ Len(s) \in Nat /\ Len(s) \in Index /\ b[Len(s)] = NUL
      /\ \A j \in 0 .. Len(s) - 1 : b[j] # NUL
  BY HoldingFacts
<1>2. Len(s) \in Index /\ Ends(Len(s))
  BY <1>1
<1>3. ASSUME NEW i \in Index, Ends(i) PROVE i = Len(s)
  <2>1. i \in Nat
    BY SizeFacts
  <2>2. ~ (i < Len(s))
    BY <1>1, <1>3, <2>1
  <2>3. ~ (Len(s) < i)
    <3>1. Len(s) < i => Len(s) \in 0 .. i - 1
      BY <1>1, <2>1
    <3> QED
      BY <3>1, <1>1, <1>3
  <2> QED
    BY <1>1, <2>1, <2>2, <2>3
<1>4. TextEnd(b) = CHOOSE i \in Index : Ends(i)
  BY DEF TextEnd
<1> HIDE DEF Ends
<1> QED
  BY <1>2, <1>3, <1>4

LEMMA StartsAre == ASSUME NEW b, NEW s, Holding(b, s) PROVE Starts(b) = WordStarts(s)
<1>1. TextEnd(b) = Len(s) /\ Len(s) \in Nat
  BY TextEndIs, HoldingFacts
<1>2. ASSUME NEW i \in 0 .. Len(s) - 1
      PROVE  b[i] = s[i + 1] /\ (i = 0 \/ b[i - 1] = s[i])
  <2>1. b[i] = s[i + 1]
    BY HoldingFacts
  <2>2. CASE i # 0
    <3>1. i - 1 \in 0 .. Len(s) - 1 /\ (i - 1) + 1 = i
      BY <2>2, <1>1
    <3>2. b[i - 1] = s[(i - 1) + 1]
      BY <3>1, HoldingFacts
    <3> QED
      BY <2>1, <3>1, <3>2
  <2> QED
    BY <2>1, <2>2
<1>3. Starts(b) = {i \in 0 .. Len(s) - 1 : b[i] # BLANK /\ (i = 0 \/ b[i - 1] = BLANK)}
  BY <1>1 DEF Starts, IsBlank
<1> QED
  BY <1>2, <1>3 DEF WordStarts

\* When the words are not too many every blank becomes a NUL.
LEMMA GobbleIs ==
  ASSUME NEW b, NEW s, Holding(b, s)
  PROVE  /\ Gobble(b) \in [Index -> Text]
         /\ ~ TooMany(b) => \A i \in Index :
              Gobble(b)[i] = IF i < Len(s) /\ b[i] = BLANK THEN NUL ELSE b[i]
<1> DEFINE S == Starts(b)
           upTo(i) == Cardinality({t \in S : t <= i})
<1>1. Gobble(b) = [i \in Index |-> IF i < Len(s) /\ b[i] = BLANK /\ upTo(i) < MAX_ARGS
                                   THEN NUL ELSE b[i]]
  BY TextEndIs DEF Gobble, IsBlank
<1>2. \A i \in Index : b[i] \in Text
  BY DEF Holding
<1>3. NUL \in Text
  BY DEF Text
<1>4. ASSUME ~ TooMany(b), NEW i PROVE upTo(i) < MAX_ARGS
  <2>1. IsFiniteSet(S)
    <3>1. S = WordStarts(s) /\ s \in Seq(Blanked)
      BY StartsAre, HoldingFacts
    <3> HIDE DEF S
    <3> QED
      BY <3>1, RunsCounted
  <2> DEFINE T == {t \in S : t <= i}
  <2>2. T \in SUBSET S
    OBVIOUS
  <2>3. ~ (Cardinality(S) > MAX_ARGS - 1)
    BY <1>4 DEF TooMany
  <2> HIDE DEF S, T
  <2>4. IsFiniteSet(T) /\ Cardinality(T) <= Cardinality(S)
    BY <2>1, <2>2, FS_Subset
  <2>5. Cardinality(T) \in Nat /\ Cardinality(S) \in Nat /\ MAX_ARGS \in Nat
    BY <2>1, <2>4, FS_CardinalityType, LineBufferAssumption
  <2>6. Cardinality(T) < MAX_ARGS
    BY <2>3, <2>4, <2>5
  <2> QED
    BY <2>6 DEF T
<1> HIDE DEF upTo
<1>5. Gobble(b) \in [Index -> Text]
  BY <1>1, <1>2, <1>3
<1>6. ~ TooMany(b) => \A i \in Index :
              Gobble(b)[i] = IF i < Len(s) /\ b[i] = BLANK THEN NUL ELSE b[i]
  BY <1>1, <1>4
<1> QED
  BY <1>5, <1>6

LEMMA StringIs ==
  ASSUME NEW g, NEW i \in Index, NEW e \in Index, i <= e,
         g[e] = NUL, \A k \in i .. e - 1 : g[k] # NUL
  PROVE  StringAt(g, i) = [k \in 1 .. e - i |-> g[i + k - 1]]
<1> DEFINE Ends(j) == g[j] = NUL /\ \A k \in i .. j - 1 : g[k] # NUL
           end == CHOOSE j \in i .. N - 1 : Ends(j)
<1>1. e \in i .. N - 1 /\ i \in Nat /\ e \in Nat
  BY SizeFacts
<1>2. Ends(e)
  OBVIOUS
<1>3. ASSUME NEW j \in i .. N - 1, Ends(j) PROVE j = e
  <2>1. j \in Int /\ i <= j
    BY <1>1, SizeFacts
  <2>2. ~ (j < e)
    <3>1. j < e => j \in i .. e - 1
      BY <1>1, <2>1
    <3> QED
      BY <3>1, <1>3
  <2>3. ~ (e < j)
    <3>1. e < j => e \in i .. j - 1
      BY <1>1, <2>1
    <3> QED
      BY <3>1, <1>3
  <2> QED
    BY <1>1, <2>1, <2>2, <2>3
<1>4. end = e
  <2> HIDE DEF Ends
  <2> QED
    BY <1>1, <1>2, <1>3
<1>5. StringAt(g, i) = [k \in 1 .. end - i |-> g[i + k - 1]]
  BY DEF StringAt, N
<1> HIDE DEF end
<1> QED
  BY <1>4, <1>5

\* Behind the start of a word of the line is that word, and no more.
LEMMA WordIs ==
  ASSUME NEW b, NEW s, Holding(b, s), ~ TooMany(b), NEW r \in Runs(s)
  PROVE  /\ StringAt(Gobble(b), r[1] - 1) = SubSeq(s, r[1], r[2])
         /\ SubSeq(s, r[1], r[2]) \in Seq(Letters)
<1> DEFINE i == r[1] - 1
           g == Gobble(b)
           w == SubSeq(s, r[1], r[2])
<1>1. s \in Seq(Blanked) /\ Len(s) \in Nat /\ Len(s) < N /\ b[Len(s)] = NUL
  BY HoldingFacts
<1>2. /\ r[1] \in Nat /\ r[2] \in Nat /\ 1 <= r[1] /\ r[1] <= r[2] /\ r[2] <= Len(s)
      /\ \A k \in r[1] .. r[2] : s[k] # BLANK
      /\ r[2] = Len(s) \/ s[r[2] + 1] = BLANK
  BY <1>1, RunFacts
<1>3. i \in Index /\ r[2] \in Index /\ i <= r[2] /\ i \in Nat /\ i + 1 = r[1]
  BY <1>1, <1>2, SizeFacts
<1>4. \A j \in Index : g[j] = IF j < Len(s) /\ b[j] = BLANK THEN NUL ELSE b[j]
  BY GobbleIs
<1>5. g[r[2]] = NUL
  <2>1. CASE r[2] = Len(s)
    BY <2>1, <1>1, <1>3, <1>4
  <2>2. CASE r[2] # Len(s)
    <3>1. r[2] \in 0 .. Len(s) - 1 /\ r[2] < Len(s)
      BY <2>2, <1>1, <1>2
    <3>2. b[r[2]] = s[r[2] + 1]
      BY <3>1, HoldingFacts
    <3> QED
      BY <2>2, <3>1, <3>2, <1>2, <1>3, <1>4
  <2> QED
    BY <2>1, <2>2
<1>6. ASSUME NEW k \in i .. r[2] - 1
      PROVE  g[k] = s[k + 1] /\ s[k + 1] # BLANK /\ s[k + 1] \in Letters /\ g[k] # NUL
  <2>1. k \in 0 .. Len(s) - 1 /\ k + 1 \in r[1] .. r[2] /\ k + 1 \in 1 .. Len(s)
    BY <1>1, <1>2, <1>3
  <2>2. k \in Index /\ b[k] = s[k + 1] /\ b[k] # NUL
    BY <2>1, HoldingFacts
  <2>3. s[k + 1] # BLANK
    BY <2>1, <1>2
  <2>4. s[k + 1] \in Letters
    BY <2>1, <2>3, <1>1 DEF Blanked
  <2>5. g[k] = b[k]
    BY <2>2, <2>3, <1>4
  <2> QED
    BY <2>2, <2>3, <2>4, <2>5
<1>7. StringAt(g, i) = [k \in 1 .. r[2] - i |-> g[i + k - 1]]
  <2>1. \A k \in i .. r[2] - 1 : g[k] # NUL
    BY <1>6
  <2> DEFINE e == r[2]
  <2>2. i \in Index /\ e \in Index /\ i <= e /\ g[e] = NUL /\ \A k \in i .. e - 1 : g[k] # NUL
    BY <2>1, <1>3, <1>5
  <2> HIDE DEF g, i, e
  <2>3. StringAt(g, i) = [k \in 1 .. e - i |-> g[i + k - 1]]
    BY <2>2, StringIs
  <2> QED
    BY <2>3 DEF e
<1>8. ASSUME NEW k \in 1 .. r[2] - i
      PROVE  g[i + k - 1] = s[r[1] + k - 1] /\ s[r[1] + k - 1] \in Letters
  <2> DEFINE j == i + k - 1
  <2>1. j \in i .. r[2] - 1 /\ j + 1 = r[1] + k - 1
    <3>1. i \in Nat /\ r[2] \in Nat /\ r[1] \in Nat /\ i + 1 = r[1]
      BY <1>2, <1>3
    <3> HIDE DEF i
    <3>2. k \in Nat /\ 1 <= k /\ k <= r[2] - i
      BY <3>1
    <3> QED
      BY <3>1, <3>2
  <2> HIDE DEF j, g, i
  <2>2. g[j] = s[j + 1] /\ s[j + 1] \in Letters
    BY <2>1, <1>6
  <2> QED
    BY <2>1, <2>2 DEF j
<1>9. w = [k \in 1 .. r[2] - i |-> s[r[1] + k - 1]]
  <2>1. w = [k \in 1 .. r[2] - r[1] + 1 |-> s[r[1] + k - 1]]
    BY <1>1, <1>2, SubSeqProperties
  <2>2. r[2] - r[1] + 1 = r[2] - i
    BY <1>2
  <2> HIDE DEF i, w
  <2> QED
    BY <2>1, <2>2
<1>10. w \in Seq(Letters)
  <2>1. r[2] - i \in Nat
    BY <1>2, <1>3
  <2> HIDE DEF i, w, g
  <2>2. w \in [1 .. r[2] - i -> Letters]
    BY <1>8, <1>9
  <2> QED
    BY <2>1, <2>2
<1> HIDE DEF w, g, i
<1>11. StringAt(g, i) = w
  BY <1>7, <1>8, <1>9
<1> QED
  BY <1>10, <1>11 DEF w, g, i

\* What RunCommand gets.
LEMMA ArgvIs ==
  ASSUME NEW b, NEW s, Holding(b, s)
  PROVE  /\ Argv(b) \in Seq(Seq(Letters))
         /\ TooMany(b) <=> ~ (Cardinality(Runs(s)) < MAX_ARGS)
         /\ TooMany(b) => Argv(b) = <<>>
         /\ ~ TooMany(b) =>
              /\ Len(Argv(b)) = Cardinality(Runs(s))
              /\ \A r \in Runs(s) :
                   Argv(b)[Cardinality({q \in Runs(s) : q[1] <= r[1]})] = SubSeq(s, r[1], r[2])
<1> DEFINE S == Starts(b)
           nth(k) == CHOOSE t \in S : Rank(S, t) = k
           g == Gobble(b)
<1>1. s \in Seq(Blanked) /\ S = WordStarts(s)
  BY HoldingFacts, StartsAre
<1>2. IsFiniteSet(S) /\ Cardinality(Runs(s)) = Cardinality(S)
  <2>1. {r \in Runs(s) : r[1] - 1 \in WordStarts(s)} = Runs(s)
    BY <1>1, RunFacts
  <2>2. Cardinality({r \in Runs(s) : r[1] - 1 \in WordStarts(s)}) = Cardinality(WordStarts(s))
        /\ IsFiniteSet(WordStarts(s))
    BY <1>1, RunsCounted
  <2> HIDE DEF S
  <2> QED
    BY <1>1, <2>1, <2>2
<1>3. S \subseteq Nat /\ Cardinality(S) \in Nat /\ MAX_ARGS \in Nat
  <2>1. WordStarts(s) \subseteq Nat
    BY DEF WordStarts
  <2> HIDE DEF S
  <2> QED
    BY <1>1, <1>2, <2>1, FS_CardinalityType, LineBufferAssumption
<1>4. TooMany(b) <=> ~ (Cardinality(Runs(s)) < MAX_ARGS)
  <2>1. TooMany(b) <=> Cardinality(S) > MAX_ARGS - 1
    BY DEF TooMany
  <2> HIDE DEF S
  <2> QED
    BY <2>1, <1>2, <1>3
<1>5. TooMany(b) => Argv(b) = <<>>
  BY DEF Argv
<1>6. CASE ~ TooMany(b)
  <2>1. Argv(b) = [k \in 1 .. Cardinality(S) |-> StringAt(g, nth(k))]
    BY <1>6 DEF Argv, Rank
  <2>2. /\ \A x \in S : Rank(S, x) \in 1 .. Cardinality(S)
        /\ \A x, y \in S : Rank(S, x) = Rank(S, y) => x = y
        /\ \A k \in 1 .. Cardinality(S) : \E x \in S : Rank(S, x) = k
    <3> HIDE DEF S
    <3> QED
      BY <1>2, <1>3, RankFacts
  <2> HIDE DEF S, g
  <2>3. ASSUME NEW k \in 1 .. Cardinality(S) PROVE nth(k) \in S
    BY <2>2
  <2>4. ASSUME NEW t \in S PROVE nth(Rank(S, t)) = t
    BY <2>2
  <2> HIDE DEF nth
  <2>5. ASSUME NEW k \in 1 .. Cardinality(S) PROVE StringAt(g, nth(k)) \in Seq(Letters)
    <3>1. nth(k) \in WordStarts(s)
      BY <2>3, <1>1
    <3>2. PICK r \in Runs(s) : r[1] - 1 = nth(k)
      BY <3>1, <1>1, RunFrom
    <3>3. StringAt(g, r[1] - 1) \in Seq(Letters)
      BY <1>6, WordIs DEF g
    <3> QED
      BY <3>2, <3>3
  <2>6. Argv(b) \in Seq(Seq(Letters)) /\ Len(Argv(b)) = Cardinality(S)
    <3>1. Argv(b) \in [1 .. Cardinality(S) -> Seq(Letters)]
      BY <2>1, <2>5
    <3> QED
      BY <3>1, <1>3
  <2>7. ASSUME NEW r \in Runs(s)
        PROVE  Argv(b)[Cardinality({q \in Runs(s) : q[1] <= r[1]})] = SubSeq(s, r[1], r[2])
    <3> DEFINE k == Cardinality({q \in Runs(s) : q[1] <= r[1]})
    <3>1. k = Rank(S, r[1] - 1)
      BY <1>1, RunRank
    <3>2. r[1] - 1 \in S
      BY <1>1, RunFacts
    <3>3. k \in 1 .. Cardinality(S) /\ nth(k) = r[1] - 1
      <4> HIDE DEF k
      <4> QED
        BY <3>1, <3>2, <2>2, <2>4
    <3>4. StringAt(g, r[1] - 1) = SubSeq(s, r[1], r[2])
      BY <1>6, WordIs DEF g
    <3> HIDE DEF k
    <3>5. Argv(b)[k] = StringAt(g, nth(k))
      BY <3>3, <2>1
    <3>6. Argv(b)[k] = SubSeq(s, r[1], r[2])
      BY <3>3, <3>4, <3>5
    <3> QED
      BY <3>6 DEF k
  <2> QED
    BY <1>2, <1>4, <1>6, <2>6, <2>7
<1>7. CASE TooMany(b)
  <2>1. Argv(b) \in Seq(Seq(Letters))
    BY <1>5, <1>7
  <2> QED
    BY <1>4, <1>5, <1>7, <2>1
<1> QED
  BY <1>6, <1>7
-----------------------------------------------------------------------------
(***************************************************************************)
(* The line that was typed is the buffer up to the index.                  *)
(***************************************************************************)
Lines == [buf : [Index -> Text], index : Index]

\* The line s is what the editor's record m holds.
Edits(m, s) == Len(s) = m.index /\ \A i \in 0 .. Len(s) - 1 : m.buf[i] = s[i + 1]

LineInv == /\ monitor \in Lines /\ line \in Seq(Blanked)
           /\ reader \in {"KernelMain", "MonitorRun", "program"}
           /\ args \in Seq(Seq(Letters))
           /\ reader = "KernelMain" => line = <<>>
           /\ reader = "MonitorRun" => Edits(monitor, line)

LEMMA EmptyEdits == ASSUME NEW m, m.index = 0 PROVE Edits(m, <<>>)
BY DEF Edits

LEMMA EndedFacts ==
  ASSUME NEW m \in Lines, NEW s \in Seq(Blanked), Edits(m, s)
  PROVE  Holding(Ended(m), s)
<1>1. m.buf \in [Index -> Text] /\ m.index \in Index /\ Len(s) = m.index
  BY DEF Lines, Edits
<1>2. Ended(m) \in [Index -> Text] /\ Ended(m)[Len(s)] = NUL
  BY <1>1 DEF Ended, Text
<1>3. ASSUME NEW i \in 0 .. Len(s) - 1 PROVE Ended(m)[i] = s[i + 1]
  <2>1. i \in Index /\ i # m.index
    BY <1>1, SizeFacts
  <2>2. m.buf[i] = s[i + 1]
    BY DEF Edits
  <2> QED
    BY <1>1, <2>1, <2>2 DEF Ended
<1> QED
  BY <1>1, <1>2, <1>3 DEF Holding

LEMMA EnteredFacts ==
  ASSUME NEW m \in Lines, NEW s \in Seq(Blanked), Edits(m, s), NEW c \in Blanked
  PROVE  /\ Entered(m, c) \in Lines
         /\ Entered(m, c) = m \/ Edits(Entered(m, c), Append(s, c))
<1>1. m.buf \in [Index -> Text] /\ m.index \in Index /\ Len(s) = m.index /\ c \in Text
  BY DEF Lines, Edits, Blanked, Text
<1>2. CASE m.index < N - 1
  <2> DEFINE t == Entered(m, c)
  <2>1. t = [buf |-> [m.buf EXCEPT ![m.index] = c], index |-> m.index + 1]
    BY <1>2 DEF Entered, N
  <2>2. m.index \in Nat /\ m.index + 1 \in Index
    BY <1>1, <1>2, SizeFacts
  <2>3. [m.buf EXCEPT ![m.index] = c] \in [Index -> Text]
    BY <1>1
  <2>4. t \in Lines
    BY <2>1, <2>2, <2>3 DEF Lines
  <2>5. Len(Append(s, c)) = m.index + 1
    BY <1>1
  <2>6. ASSUME NEW i \in 0 .. m.index PROVE [m.buf EXCEPT ![m.index] = c][i] = Append(s, c)[i + 1]
    <3>1. i \in Index
      BY <1>1, <1>2, <2>2, SizeFacts
    <3>2. CASE i = m.index
      <4>1. Append(s, c)[Len(s) + 1] = c
        BY AppendProperties
      <4> QED
        BY <3>1, <3>2, <4>1, <1>1
    <3>3. CASE i # m.index
      <4>1. i \in 0 .. Len(s) - 1 /\ i + 1 \in 1 .. Len(s)
        BY <3>3, <1>1, <2>2
      <4>2. Append(s, c)[i + 1] = s[i + 1]
        BY <4>1, AppendProperties
      <4>3. m.buf[i] = s[i + 1]
        BY <4>1 DEF Edits
      <4> QED
        BY <3>1, <3>3, <4>2, <4>3, <1>1
    <3> QED
      BY <3>2, <3>3
  <2>7. Edits(t, Append(s, c))
    <3>1. t.index = m.index + 1 /\ t.buf = [m.buf EXCEPT ![m.index] = c]
      BY <2>1
    <3>2. (m.index + 1) - 1 = m.index
      BY <2>2
    <3> HIDE DEF t
    <3> QED
      BY <3>1, <3>2, <2>5, <2>6 DEF Edits
  <2> QED
    BY <2>4, <2>7
<1>3. CASE ~ (m.index < N - 1)
  BY <1>3 DEF Entered, N
<1> QED
  BY <1>2, <1>3

LEMMA ErasedFacts ==
  ASSUME NEW m \in Lines, NEW s \in Seq(Blanked), Edits(m, s),
         NEW t, t = IF s = <<>> THEN <<>> ELSE SubSeq(s, 1, Len(s) - 1)
  PROVE  Erased(m) \in Lines /\ t \in Seq(Blanked) /\ Edits(Erased(m), t)
<1>1. m.buf \in [Index -> Text] /\ m.index \in Index /\ Len(s) = m.index /\ m.index \in Nat
  BY SizeFacts DEF Lines, Edits
<1>2. \A i \in 0 .. Len(s) - 1 : m.buf[i] = s[i + 1]
  BY DEF Edits
<1> DEFINE k == IF m.index = 0 THEN 0 ELSE m.index - 1
<1>3. k \in Index /\ k \in Nat /\ k <= m.index
  BY <1>1, SizeFacts
<1>4. Erased(m) \in Lines /\ Erased(m).index = k /\ Erased(m).buf = m.buf
  BY <1>3 DEF Erased, Lines
<1>5. t \in Seq(Blanked) /\ Len(t) = k /\ \A i \in 1 .. k : t[i] = s[i]
  <2>1. CASE m.index = 0
    <3>1. s = <<>>
      BY <2>1, <1>1
    <3>2. t = <<>> /\ k = 0
      BY <2>1, <3>1
    <3>3. <<>> \in Seq(Blanked) /\ Len(<<>>) = 0 /\ 1 .. 0 = {}
      OBVIOUS
    <3> HIDE DEF k
    <3> QED
      BY <3>2, <3>3
  <2>2. CASE m.index # 0
    <3>1. t = SubSeq(s, 1, k) /\ k = m.index - 1
      BY <2>2, <1>1
    <3> HIDE DEF k
    <3>2. \A i \in 1 .. k : s[i] \in Blanked
      BY <1>1, <1>3
    <3>3. /\ SubSeq(s, 1, k) \in Seq(Blanked) /\ Len(SubSeq(s, 1, k)) = k
          /\ \A i \in 1 .. k : SubSeq(s, 1, k)[i] = s[i]
      BY <1>1, <1>3, <3>2, SubSeqProperties
    <3> QED
      BY <3>1, <3>3
  <2> QED
    BY <2>1, <2>2
<1> HIDE DEF k
<1>6. ASSUME NEW i \in 0 .. k - 1 PROVE m.buf[i] = t[i + 1]
  <2>1. i \in 0 .. Len(s) - 1 /\ i + 1 \in 1 .. k
    BY <1>1, <1>3
  <2> QED
    BY <2>1, <1>2, <1>5
<1>7. Edits(Erased(m), t)
  BY <1>4, <1>5, <1>6 DEF Edits
<1> QED
  BY <1>4, <1>5, <1>7

\* A command leaves a buffer for the next line.
LEMMA RunLineFacts ==
  ASSUME LineInv, RunLine
  PROVE  /\ Holding(Ended(monitor), line)
         /\ monitor' \in Lines /\ args' = Argv(Ended(monitor)) /\ line' = <<>>
         /\ (reader' = "MonitorRun" /\ monitor'.index = 0) \/ reader' = "program"
<1>1. reader = "MonitorRun" /\ monitor \in Lines /\ line \in Seq(Blanked) /\ Edits(monitor, line)
  BY DEF RunLine, LineInv
<1>2. Holding(Ended(monitor), line)
  BY <1>1, EndedFacts
<1>3. Gobble(Ended(monitor)) \in [Index -> Text]
  BY <1>2, GobbleIs
<1>4. 0 \in Index /\ monitor.index \in Index
  BY <1>1, SizeFacts DEF Lines
<1>5. args' = Argv(Ended(monitor)) /\ line' = <<>>
  BY DEF RunLine
<1>6. \/ monitor' = [buf |-> Gobble(Ended(monitor)), index |-> 0] /\ reader' = "MonitorRun"
      \/ monitor' = [buf |-> Gobble(Ended(monitor)), index |-> monitor.index] /\ reader' = "program"
  BY <1>1 DEF RunLine
<1> QED
  BY <1>2, <1>3, <1>4, <1>5, <1>6 DEF Lines

LEMMA LineInit == Init => LineInv
<1> SUFFICES ASSUME Init PROVE LineInv
  OBVIOUS
<1>1. monitor = [buf |-> [i \in Index |-> NUL], index |-> 0]
  BY DEF Init, EmptyLine
<1>2. monitor \in Lines
  BY <1>1, SizeFacts DEF Lines, Text
<1> QED
  BY <1>2 DEF Init, LineInv

LEMMA LineStep == LineInv /\ [Next]_vars => LineInv'
<1> SUFFICES ASSUME LineInv, [Next]_vars PROVE LineInv'
  OBVIOUS
<1>1. /\ monitor \in Lines /\ line \in Seq(Blanked)
      /\ reader \in {"KernelMain", "MonitorRun", "program"}
      /\ args \in Seq(Seq(Letters))
      /\ reader = "KernelMain" => line = <<>>
      /\ reader = "MonitorRun" => Edits(monitor, line)
  BY DEF LineInv
<1>2. CASE UNCHANGED <<monitor, reader, args, line>>
  BY <1>2, <1>1 DEF LineInv
<1>3. CASE WaitForEnter
  <2>1. reader = "KernelMain" /\ line = <<>> /\ line' = line /\ args' = args
    BY <1>1, <1>3 DEF WaitForEnter
  <2>2. CASE reader' = "MonitorRun" /\ monitor' = [monitor EXCEPT !.index = 0]
    <3>1. monitor' \in Lines /\ monitor'.index = 0
      BY <1>1, <2>2, SizeFacts DEF Lines
    <3>2. Edits(monitor', line')
      BY <2>1, <3>1, EmptyEdits
    <3> QED
      BY <1>1, <2>1, <2>2, <3>1, <3>2 DEF LineInv
  <2>3. CASE UNCHANGED <<reader, monitor>>
    BY <1>2, <2>1, <2>3
  <2> QED
    BY <1>3, <2>2, <2>3 DEF WaitForEnter
<1>4. CASE RunLine
  <2>1. /\ Holding(Ended(monitor), line)
        /\ monitor' \in Lines /\ args' = Argv(Ended(monitor)) /\ line' = <<>>
        /\ (reader' = "MonitorRun" /\ monitor'.index = 0) \/ reader' = "program"
    BY <1>4, RunLineFacts
  <2>2. args' \in Seq(Seq(Letters))
    BY <2>1, ArgvIs
  <2>3. line' \in Seq(Blanked) /\ (monitor'.index = 0 => Edits(monitor', line'))
    BY <2>1, EmptyEdits
  <2> QED
    BY <2>1, <2>2, <2>3 DEF LineInv
<1>5. CASE EraseCharacter
  <2>1. /\ reader = "MonitorRun" /\ reader' = reader /\ args' = args
        /\ monitor' = Erased(monitor)
        /\ line' = IF line = <<>> THEN <<>> ELSE SubSeq(line, 1, Len(line) - 1)
    BY <1>5 DEF EraseCharacter
  <2>2. Erased(monitor) \in Lines /\ line' \in Seq(Blanked) /\ Edits(Erased(monitor), line')
    BY <1>1, <2>1, ErasedFacts
  <2> QED
    BY <1>1, <2>1, <2>2 DEF LineInv
<1>6. CASE EnterCharacter
  <2>1. PICK c \in Typed \ {"newline", "backspace"} :
          /\ reader = "MonitorRun" /\ reader' = reader /\ args' = args
          /\ monitor' = Entered(monitor, c)
          /\ line' = IF monitor' = monitor THEN line ELSE Append(line, c)
    BY <1>6 DEF EnterCharacter
  <2>2. c \in Blanked
    BY DEF Typed, Blanked
  <2>3. /\ Entered(monitor, c) \in Lines
        /\ Entered(monitor, c) = monitor \/ Edits(Entered(monitor, c), Append(line, c))
    BY <1>1, <2>1, <2>2, EnteredFacts
  <2>4. line' \in Seq(Blanked)
    BY <1>1, <2>1, <2>2, AppendProperties
  <2>5. Edits(monitor', line')
    BY <1>1, <2>1, <2>3
  <2> QED
    BY <1>1, <2>1, <2>3, <2>4, <2>5 DEF LineInv
<1> QED
  BY <1>2, <1>3, <1>4, <1>5, <1>6 DEF Next, Poll, SysGetChar, vars

LEMMA LineInvHolds == Spec => []LineInv
BY LineInit, LineStep, PTL DEF Spec

\* The state keeps its types, for every size of the buffers and every limit to the
\* arguments: in particular the pointers in argv are to words without blanks.
THEOREM TypeCorrect == Spec => []TypeOK
<1>1. Init => RingInv
  BY InitRing
<1>2. RingInv /\ [Next]_vars => RingInv'
  BY RingStep
<1>3. RingInv /\ LineInv => TypeOK
  BY DEF RingInv, Ring, LineInv, Lines, Blanked, TypeOK
<1> QED
  BY <1>1, <1>2, <1>3, LineInvHolds, PTL DEF Spec

\* Every command gets the words of the line that was typed, or none when they are
\* too many, whatever was typed, erased and dropped at the end of the buffer before,
\* and whatever earlier lines left in the buffer.
THEOREM ArgumentsSafe == Spec => ArgumentsAreWords
<1> DEFINE Got == LET runs == Runs(line)
                      rank(r) == Cardinality({q \in runs : q[1] <= r[1]})
                  IN IF Cardinality(runs) < MAX_ARGS
                     THEN /\ Len(args') = Cardinality(runs)
                          /\ \A r \in runs : args'[rank(r)] = SubSeq(line, r[1], r[2])
                     ELSE args' = <<>>
<1>1. LineInv /\ RunLine => Got
  <2> SUFFICES ASSUME LineInv, RunLine PROVE Got
    OBVIOUS
  <2>1. Holding(Ended(monitor), line) /\ args' = Argv(Ended(monitor))
    BY RunLineFacts
  <2> QED
    BY <2>1, ArgvIs
<1>2. ArgumentsAreWords <=> [][RunLine => Got]_vars
  BY DEF ArgumentsAreWords
<1> HIDE DEF Got
<1>3. LineInv /\ [Next]_vars => [RunLine => Got]_vars
  BY <1>1
<1>4. Spec => [][RunLine => Got]_vars
  BY <1>3, LineInvHolds, PTL DEF Spec
<1> QED
  BY <1>2, <1>4
=============================================================================
