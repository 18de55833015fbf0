--------------------------- MODULE ThreadsProofs ---------------------------
(***************************************************************************)
(* Theorems about Threads, for every number of threads and children.  The  *)
(* linked list is a sequence of threads, each queue operation is the       *)
(* operation on that sequence, and so the list implements ReadyQueue.      *)
(***************************************************************************)
EXTENDS Threads, ContainersProofs, FunctionTheorems, SequenceTheorems

Blocks == [Proc -> TCB]

\* The null index is not a thread.
LEMMA NullIsNoThread == NULL \notin Proc
BY ContainersAssumption DEF NULL, Proc
-----------------------------------------------------------------------------
(***************************************************************************)
(* What the queue operations write, field by field.                        *)
(***************************************************************************)
\* What ThreadSpawn and ThreadYield do to the queue with a thread they make ready.
Enqueued(t, q, id) == TQEnqueue([t EXCEPT ![id].state = "READY"], q, id)

\* What ThreadYield and ForceRunProcess do to the thread they take out of it.
Running(t, id) == [t EXCEPT ![id].state = "RUN"]

\* TQEnqueue of a thread that is marked ready and is not the tail: it is linked
\* behind the tail, which is NULL when the queue is empty.
LEMMA EnqueueEffect ==
  ASSUME NEW t \in Blocks, NEW q \in ThreadQueue, NEW id \in Proc, q.tail # id
  PROVE  LET r == Enqueued(t, q, id)
         IN /\ r.tcbs \in Blocks /\ r.queue \in ThreadQueue
            /\ r.queue.head = IF q.tail = NULL THEN id ELSE q.head
            /\ r.queue.tail = id
            /\ r.tcbs[id].state = "READY"
            /\ r.tcbs[id].prev = q.tail /\ r.tcbs[id].next = NULL
            /\ \A i \in Proc \ {id} :
                 /\ r.tcbs[i].state = t[i].state
                 /\ r.tcbs[i].prev = t[i].prev
                 /\ r.tcbs[i].next = IF i = q.tail THEN id ELSE t[i].next
<1> DEFINE r == Enqueued(t, q, id)
<1>1. CASE q.tail = NULL
  <2>1. r.queue.head = id /\ r.queue.tail = id /\ r.queue \in ThreadQueue
    BY <1>1 DEF Enqueued, TQEnqueue, ThreadQueue
  <2>2. /\ r.tcbs \in Blocks
        /\ r.tcbs[id].state = "READY"
        /\ r.tcbs[id].prev = NULL /\ r.tcbs[id].next = NULL
        /\ \A i \in Proc \ {id} : r.tcbs[i] = t[i]
    <3> DEFINE b == [[t EXCEPT ![id].state = "READY"] EXCEPT
                       ![id].next = NULL, ![id].prev = NULL]
    <3>1. t[id] \in TCB
      BY DEF Blocks
    <3>2. r.tcbs = b
      BY <1>1 DEF Enqueued, TQEnqueue
    <3>3. b[id] = [state |-> "READY", prev |-> NULL, next |-> NULL]
      BY <3>1 DEF TCB, Blocks
    <3>4. [state |-> "READY", prev |-> NULL, next |-> NULL] \in TCB
      BY DEF TCB
    <3>5. \A i \in Proc \ {id} : b[i] = t[i]
      BY DEF Blocks
    <3>6. b \in Blocks
      BY <3>3, <3>4, <3>5 DEF Blocks
    <3> HIDE DEF b, r
    <3> QED
      BY <3>2, <3>3, <3>5, <3>6
  <2> HIDE DEF r
  <2> QED
    BY <1>1, <2>1, <2>2, NullIsNoThread DEF r
<1>2. CASE q.tail # NULL
  <2> DEFINE tail == q.tail
  <2>1. tail \in Proc /\ tail # id
    BY <1>2 DEF ThreadQueue
  <2>2. r.queue.head = q.head /\ r.queue.tail = id /\ r.queue \in ThreadQueue
    BY <1>2 DEF Enqueued, TQEnqueue, ThreadQueue
  <2>3. /\ r.tcbs \in Blocks
        /\ r.tcbs[id].state = "READY"
        /\ r.tcbs[id].prev = tail /\ r.tcbs[id].next = NULL
        /\ r.tcbs[tail].state = t[tail].state
        /\ r.tcbs[tail].prev = t[tail].prev /\ r.tcbs[tail].next = id
        /\ \A i \in Proc \ {id, tail} : r.tcbs[i] = t[i]
    <3> DEFINE b == [[t EXCEPT ![id].state = "READY"] EXCEPT
                       ![tail].next = id, ![id].prev = tail, ![id].next = NULL]
    <3>1. t[id] \in TCB /\ t[tail] \in TCB
      BY <2>1 DEF Blocks
    <3>2. r.tcbs = b
      BY <1>2 DEF Enqueued, TQEnqueue
    <3>3. b[id] = [state |-> "READY", prev |-> tail, next |-> NULL]
      BY <2>1, <3>1 DEF TCB, Blocks
    <3>4. b[tail] = [state |-> t[tail].state, prev |-> t[tail].prev, next |-> id]
      BY <2>1, <3>1 DEF TCB, Blocks
    <3>5. \A i \in Proc \ {id, tail} : b[i] = t[i]
      BY DEF Blocks
    <3>6. b[id] \in TCB /\ b[tail] \in TCB
      BY <2>1, <3>1, <3>3, <3>4 DEF TCB
    <3>7. b \in Blocks
      BY <2>1, <3>5, <3>6 DEF Blocks
    <3> HIDE DEF b, r
    <3> QED
      BY <3>2, <3>3, <3>4, <3>5, <3>7
  <2> HIDE DEF r
  <2> QED
    BY <1>2, <2>1, <2>2, <2>3 DEF r
<1> QED
  BY <1>1, <1>2

\* TQDequeue of a queue with a head, whose thread is then marked running.
LEMMA DequeueEffect ==
  ASSUME NEW t \in Blocks, NEW q \in ThreadQueue, q.head # NULL,
         t[q.head].next # q.head
  PROVE  LET d == TQDequeue(t, q)
             b == Running(d.tcbs, d.id)
             next == t[q.head].next
         IN /\ d.id = q.head /\ q.head \in Proc
            /\ b \in Blocks /\ d.queue \in ThreadQueue
            /\ d.queue.head = next
            /\ d.queue.tail = IF next = NULL THEN NULL ELSE q.tail
            /\ b[q.head].state = "RUN" /\ b[q.head].next = NULL
            /\ b[q.head].prev = t[q.head].prev
            /\ \A i \in Proc \ {q.head} :
                 /\ b[i].state = t[i].state
                 /\ b[i].next = t[i].next
                 /\ b[i].prev = IF i = next THEN NULL ELSE t[i].prev
<1> DEFINE d == TQDequeue(t, q)
           b == Running(d.tcbs, d.id)
           id == q.head
           next == t[id].next
<1>1. id \in Proc /\ t[id] \in TCB /\ next \in Proc \cup {NULL} /\ next # id
  BY DEF ThreadQueue, Blocks, TCB
<1>2. d.id = id
  BY DEF TQDequeue
<1>3. CASE next = NULL
  <2>1. d.queue.head = NULL /\ d.queue.tail = NULL /\ d.queue \in ThreadQueue
    BY <1>3 DEF TQDequeue, ThreadQueue
  <2>2. /\ b \in Blocks
        /\ b[id].state = "RUN" /\ b[id].prev = t[id].prev /\ b[id].next = NULL
        /\ \A i \in Proc \ {id} : b[i] = t[i]
    <3>1. b = [[t EXCEPT ![id].next = NULL] EXCEPT ![id].state = "RUN"]
      BY <1>2, <1>3 DEF TQDequeue, Running
    <3>2. b[id] = [state |-> "RUN", prev |-> t[id].prev, next |-> NULL]
      BY <3>1, <1>1 DEF TCB, Blocks
    <3>3. \A i \in Proc \ {id} : b[i] = t[i]
      BY <3>1 DEF Blocks
    <3>4. b[id] \in TCB
      BY <1>1, <3>2 DEF TCB
    <3>5. b \in Blocks
      BY <3>1, <3>3, <3>4 DEF Blocks
    <3> HIDE DEF b
    <3> QED
      BY <3>2, <3>3, <3>5
  <2> HIDE DEF b, d
  <2> QED
    BY <1>1, <1>2, <1>3, <2>1, <2>2, NullIsNoThread DEF b, d
<1>4. CASE next # NULL
  <2>0. next \in Proc /\ t[next] \in TCB
    BY <1>1, <1>4 DEF Blocks
  <2>1. d.queue.head = next /\ d.queue.tail = q.tail /\ d.queue \in ThreadQueue
    BY <1>4, <2>0 DEF TQDequeue, ThreadQueue
  <2>2. /\ b \in Blocks
        /\ b[id].state = "RUN" /\ b[id].prev = t[id].prev /\ b[id].next = NULL
        /\ b[next].state = t[next].state /\ b[next].prev = NULL
        /\ b[next].next = t[next].next
        /\ \A i \in Proc \ {id, next} : b[i] = t[i]
    <3>1. b = [[[t EXCEPT ![id].next = NULL] EXCEPT ![next].prev = NULL]
                 EXCEPT ![id].state = "RUN"]
      BY <1>2, <1>4 DEF TQDequeue, Running
    <3>2. b[id] = [state |-> "RUN", prev |-> t[id].prev, next |-> NULL]
      BY <3>1, <1>1, <2>0 DEF TCB, Blocks
    <3>3. b[next] = [state |-> t[next].state, prev |-> NULL, next |-> t[next].next]
      BY <3>1, <1>1, <2>0 DEF TCB, Blocks
    <3>4. \A i \in Proc \ {id, next} : b[i] = t[i]
      BY <3>1 DEF Blocks
    <3>5. b[id] \in TCB /\ b[next] \in TCB
      BY <3>2, <3>3, <1>1, <2>0 DEF TCB
    <3>6. b \in Blocks
      BY <3>1, <3>4, <3>5 DEF Blocks
    <3> HIDE DEF b, next
    <3> QED
      BY <3>2, <3>3, <3>4, <3>6
  <2> HIDE DEF b, d
  <2> QED
    BY <1>1, <1>2, <1>4, <2>0, <2>1, <2>2 DEF b, d
<1> QED
  BY <1>1, <1>3, <1>4

\* TQRemove of a linked thread, wherever it stands, that is then marked running.
LEMMA RemoveEffect ==
  ASSUME NEW t \in Blocks, NEW q \in ThreadQueue, NEW id \in Proc,
         t[id].prev # id, t[id].next # id,
         t[id].next # NULL => t[id].next # t[id].prev
  PROVE  LET r == TQRemove(t, q, id)
             b == Running(r.tcbs, id)
             prev == t[id].prev
             next == t[id].next
         IN /\ b \in Blocks /\ r.queue \in ThreadQueue
            /\ r.queue.head = IF prev = NULL THEN next ELSE q.head
            /\ r.queue.tail = IF next = NULL THEN prev ELSE q.tail
            /\ b[id].state = "RUN" /\ b[id].prev = NULL /\ b[id].next = NULL
            /\ \A i \in Proc \ {id} :
                 /\ b[i].state = t[i].state
                 /\ b[i].prev = IF i = next THEN prev ELSE t[i].prev
                 /\ b[i].next = IF i = prev THEN next ELSE t[i].next
<1> DEFINE r == TQRemove(t, q, id)
           b == Running(r.tcbs, id)
           prev == t[id].prev
           next == t[id].next
<1>1. /\ t[id] \in TCB
      /\ next \in Proc \cup {NULL} /\ prev \in Proc \cup {NULL}
  BY DEF Blocks, TCB
<1>2. /\ r.queue.head = IF prev = NULL THEN next ELSE q.head
      /\ r.queue.tail = IF next = NULL THEN prev ELSE q.tail
      /\ r.queue \in ThreadQueue
  BY <1>1 DEF TQRemove, ThreadQueue
<1>3. /\ b \in Blocks
      /\ b[id].state = "RUN" /\ b[id].prev = NULL /\ b[id].next = NULL
      /\ \A i \in Proc \ {id} :
           /\ b[i].state = t[i].state
           /\ b[i].prev = IF i = next THEN prev ELSE t[i].prev
           /\ b[i].next = IF i = prev THEN next ELSE t[i].next
  <2> DEFINE cut == [t EXCEPT ![id].prev = NULL, ![id].next = NULL]
             mid == IF prev = NULL THEN cut ELSE [cut EXCEPT ![prev].next = next]
             end == IF next = NULL THEN mid ELSE [mid EXCEPT ![next].prev = prev]
  <2>1. r.tcbs = end
    BY DEF TQRemove
  <2>2. /\ cut \in Blocks
        /\ cut[id].prev = NULL /\ cut[id].next = NULL
        /\ \A i \in Proc \ {id} : cut[i] = t[i]
    <3>1. cut[id] = [t[id] EXCEPT !.prev = NULL, !.next = NULL]
      BY DEF Blocks
    <3>2. [t[id] EXCEPT !.prev = NULL, !.next = NULL] \in TCB
      BY <1>1 DEF TCB
    <3>3. \A i \in Proc \ {id} : cut[i] = t[i]
      BY DEF Blocks
    <3>4. cut[id].prev = NULL /\ cut[id].next = NULL
      BY <1>1, <3>1 DEF TCB
    <3>5. cut \in Blocks
      BY <3>1, <3>2, <3>3 DEF Blocks
    <3> HIDE DEF cut
    <3> QED
      BY <3>3, <3>4, <3>5
  <2> HIDE DEF cut, r
  <2>3. /\ mid \in Blocks
        /\ mid[id] = cut[id]
        /\ \A i \in Proc : /\ mid[i].state = cut[i].state
                           /\ mid[i].prev = cut[i].prev
                           /\ mid[i].next = IF i = prev THEN next
                                            ELSE cut[i].next
    BY <1>1, <2>2, NullIsNoThread DEF Blocks, TCB
  <2> HIDE DEF mid
  <2>4. /\ end \in Blocks
        /\ end[id] = mid[id]
        /\ \A i \in Proc : /\ end[i].state = mid[i].state
                           /\ end[i].next = mid[i].next
                           /\ end[i].prev = IF i = next THEN prev
                                            ELSE mid[i].prev
    BY <1>1, <2>3, NullIsNoThread DEF Blocks, TCB
  <2> HIDE DEF end
  <2>5. /\ b \in Blocks
        /\ b[id].state = "RUN"
        /\ b[id].prev = end[id].prev /\ b[id].next = end[id].next
        /\ \A i \in Proc \ {id} : b[i] = end[i]
    BY <2>1, <2>4 DEF Blocks, TCB, Running
  <2> QED
    BY <2>2, <2>3, <2>4, <2>5
<1> HIDE DEF r, b
<1> QED
  BY <1>2, <1>3 DEF r, b
-----------------------------------------------------------------------------
(***************************************************************************)
(* The list as a sequence.                                                 *)
(***************************************************************************)
\* The neighbours of the k-th thread of a list s; the head of the queue stands
\* after place 0 and its tail before place Len(s) + 1.
Before(s, k) == IF k = 1 THEN NULL ELSE s[k - 1]
After(s, k) == IF k = Len(s) THEN NULL ELSE s[k + 1]

\* The links of t and the ends in q are those of the threads of s, in the order
\* of s: each ready thread once, and no other.
Lists(t, q, s) ==
  /\ s \in Seq(Proc)
  /\ \A j, k \in 1 .. Len(s) : s[j] = s[k] => j = k
  /\ \A i \in Proc : t[i].state = "READY" <=> \E k \in 1 .. Len(s) : s[k] = i
  /\ q.head = After(s, 0) /\ q.tail = Before(s, Len(s) + 1)
  /\ \A k \in 1 .. Len(s) : t[s[k]].prev = Before(s, k) /\ t[s[k]].next = After(s, k)
  /\ \A i \in Proc : t[i].state # "READY" => t[i].prev = NULL /\ t[i].next = NULL

\* The places of a list and their threads.
LEMMA ListFacts ==
  ASSUME NEW t, NEW q, NEW s, Lists(t, q, s)
  PROVE  /\ s \in Seq(Proc) /\ Len(s) \in Nat
         /\ \A k \in 1 .. Len(s) : /\ s[k] \in Proc /\ s[k] # NULL
                                   /\ t[s[k]].state = "READY"
         /\ \A j, k \in 1 .. Len(s) : s[j] = s[k] => j = k
<1>1. Len(s) \in Nat /\ \A k \in 1 .. Len(s) : s[k] \in Proc
  BY LenProperties DEF Lists
<1> QED
  BY <1>1, NullIsNoThread DEF Lists

\* A thread is not its own neighbour, and its two neighbours differ.
LEMMA NotItsNeighbour ==
  ASSUME NEW t, NEW q, NEW s, Lists(t, q, s), NEW k \in 1 .. Len(s)
  PROVE  /\ Before(s, k) # s[k] /\ After(s, k) # s[k]
         /\ After(s, k) # NULL => After(s, k) # Before(s, k)
BY ListFacts DEF Before, After

\* A thread that was not ready is enqueued at the end.
LEMMA EnqueueAppends ==
  ASSUME NEW t \in Blocks, NEW q \in ThreadQueue, NEW s, Lists(t, q, s),
         NEW id \in Proc, t[id].state # "READY"
  PROVE  LET r == Enqueued(t, q, id)
         IN /\ r.tcbs \in Blocks /\ r.queue \in ThreadQueue
            /\ Lists(r.tcbs, r.queue, Append(s, id))
            /\ \A i \in Proc \ {id} : r.tcbs[i].state = t[i].state
            /\ r.tcbs[id].state = "READY"
<1> DEFINE r == Enqueued(t, q, id)
           new == Append(s, id)
           n == Len(s)
<1>1. /\ n \in Nat
      /\ \A k \in 1 .. n : s[k] \in Proc /\ s[k] # NULL /\ s[k] # id
  BY ListFacts
<1>2. q.tail = Before(s, n + 1) /\ q.tail # id
  BY <1>1, NullIsNoThread DEF Lists, Before
<1>3. /\ r.tcbs \in Blocks /\ r.queue \in ThreadQueue
      /\ r.queue.head = IF q.tail = NULL THEN id ELSE q.head
      /\ r.queue.tail = id
      /\ r.tcbs[id].state = "READY"
      /\ r.tcbs[id].prev = q.tail /\ r.tcbs[id].next = NULL
      /\ \A i \in Proc \ {id} :
           /\ r.tcbs[i].state = t[i].state
           /\ r.tcbs[i].prev = t[i].prev
           /\ r.tcbs[i].next = IF i = q.tail THEN id ELSE t[i].next
  BY <1>2, EnqueueEffect
<1>4. /\ new \in Seq(Proc) /\ Len(new) = n + 1
      /\ \A k \in 1 .. n : new[k] = s[k]
      /\ new[n + 1] = id
  BY AppendProperties DEF Lists
<1> HIDE DEF r, new
<1>5. \A j, k \in 1 .. n + 1 : new[j] = new[k] => j = k
  BY <1>1, <1>4 DEF Lists
<1>6. ASSUME NEW i \in Proc
      PROVE  r.tcbs[i].state = "READY" <=> \E k \in 1 .. n + 1 : new[k] = i
  <2>1. CASE i = id
    BY <2>1, <1>1, <1>3, <1>4
  <2>2. CASE i # id
    BY <2>2, <1>1, <1>3, <1>4 DEF Lists
  <2> QED
    BY <2>1, <2>2
<1>7. q.tail = IF n = 0 THEN NULL ELSE s[n]
  BY <1>1, <1>2 DEF Before
<1>8. r.queue.head = After(new, 0)
  BY <1>1, <1>3, <1>4, <1>7 DEF Lists, After
<1>9. r.queue.tail = Before(new, n + 2)
  BY <1>1, <1>3, <1>4 DEF Before
<1>10. ASSUME NEW k \in 1 .. n + 1
       PROVE  r.tcbs[new[k]].prev = Before(new, k) /\ r.tcbs[new[k]].next = After(new, k)
  <2>1. CASE k = n + 1
    BY <2>1, <1>1, <1>3, <1>4, <1>7 DEF Before, After
  <2>2. CASE k \in 1 .. n
    <3>1. /\ new[k] = s[k] /\ s[k] \in Proc \ {id}
          /\ t[s[k]].prev = Before(s, k) /\ t[s[k]].next = After(s, k)
      BY <2>2, <1>1, <1>4 DEF Lists
    <3>2. Before(new, k) = Before(s, k)
      BY <2>2, <1>1, <1>4 DEF Before
    <3>3. CASE k = n
      <4>1. s[k] = q.tail /\ After(new, k) = id
        BY <2>2, <3>3, <1>1, <1>4, <1>7 DEF After
      <4> QED
        BY <3>1, <3>2, <4>1, <1>3
    <3>4. CASE k # n
      <4>1. s[k] # q.tail
        BY <2>2, <3>4, <1>1, <1>7 DEF Lists
      <4>2. After(new, k) = After(s, k)
        BY <2>2, <3>4, <1>1, <1>4 DEF After
      <4> QED
        BY <3>1, <3>2, <4>1, <4>2, <1>3
    <3> QED
      BY <3>3, <3>4
  <2> QED
    BY <2>1, <2>2, <1>1
<1>11. ASSUME NEW i \in Proc, r.tcbs[i].state # "READY"
       PROVE  r.tcbs[i].prev = NULL /\ r.tcbs[i].next = NULL
  <2>1. i # id /\ t[i].state # "READY" /\ t[i].prev = NULL /\ t[i].next = NULL
    BY <1>3, <1>11 DEF Lists
  <2>2. i # q.tail
    BY <2>1, <1>1, <1>7, NullIsNoThread DEF Lists
  <2> QED
    BY <2>1, <2>2, <1>3
<1>12. Lists(r.tcbs, r.queue, new)
  BY <1>1, <1>4, <1>5, <1>6, <1>8, <1>9, <1>10, <1>11 DEF Lists
<1> QED
  BY <1>3, <1>12 DEF r, new

\* s without its n-th element: RemoveAt of the community modules.
Without(s, n) == SubSeq(s, 1, n - 1) \o SubSeq(s, n + 1, Len(s))

LEMMA WithoutFacts ==
  ASSUME NEW s \in Seq(Proc), NEW n \in 1 .. Len(s)
  PROVE  /\ Without(s, n) \in Seq(Proc) /\ Len(Without(s, n)) = Len(s) - 1
         /\ \A k \in 1 .. Len(s) - 1 :
              Without(s, n)[k] = IF k < n THEN s[k] ELSE s[k + 1]
<1> DEFINE front == SubSeq(s, 1, n - 1)
           back == SubSeq(s, n + 1, Len(s))
<1>1. Len(s) \in Nat /\ \A k \in 1 .. Len(s) : s[k] \in Proc
  BY LenProperties
<1>2. /\ front \in Seq(Proc) /\ Len(front) = n - 1
      /\ \A k \in 1 .. n - 1 : front[k] = s[k]
  <2>1. \A k \in 1 .. n - 1 : s[k] \in Proc
    BY <1>1
  <2>2. 1 \in Int /\ n - 1 \in Int
    BY <1>1
  <2> QED
    BY <1>1, <2>1, <2>2, SubSeqProperties
<1>3. /\ back \in Seq(Proc) /\ Len(back) = Len(s) - n
      /\ \A k \in 1 .. Len(s) - n : back[k] = s[n + k]
  <2>1. \A k \in n + 1 .. Len(s) : s[k] \in Proc
    BY <1>1
  <2>2. n + 1 \in Int /\ Len(s) \in Int
    BY <1>1
  <2> QED
    BY <1>1, <2>1, <2>2, SubSeqProperties
<1> HIDE DEF front, back
<1>4. /\ front \o back \in Seq(Proc)
      /\ Len(front \o back) = Len(front) + Len(back)
      /\ \A k \in 1 .. Len(front) + Len(back) :
           (front \o back)[k] = IF k <= Len(front) THEN front[k]
                                ELSE back[k - Len(front)]
  BY <1>2, <1>3, ConcatProperties
<1>5. Without(s, n) = front \o back
  BY DEF Without, front, back
<1>6. Len(front) + Len(back) = Len(s) - 1
  BY <1>1, <1>2, <1>3
<1>7. ASSUME NEW k \in 1 .. Len(s) - 1
      PROVE  (front \o back)[k] = IF k < n THEN s[k] ELSE s[k + 1]
  <2>1. k \in 1 .. Len(front) + Len(back)
    BY <1>6
  <2>2. CASE k < n
    BY <2>1, <2>2, <1>1, <1>2, <1>4
  <2>3. CASE k >= n
    <3>1. k - Len(front) = k + 1 - n /\ k + 1 - n \in 1 .. Len(s) - n
      BY <2>3, <1>1, <1>2
    <3>2. back[k + 1 - n] = s[k + 1]
      BY <3>1, <1>1, <1>3
    <3> QED
      BY <2>1, <2>3, <3>1, <3>2, <1>1, <1>2, <1>4
  <2>4. k < n \/ k >= n
    BY <1>1
  <2> QED
    BY <2>2, <2>3, <2>4
<1> QED
  BY <1>4, <1>5, <1>6, <1>7

\* Without its head a list is its tail.
LEMMA WithoutHead ==
  ASSUME NEW s \in Seq(Proc), s # <<>>
  PROVE  1 \in 1 .. Len(s) /\ Head(s) = s[1] /\ Without(s, 1) = Tail(s)
<1>1. Len(s) \in Nat \ {0}
  BY LenProperties, EmptySeq
<1>2. /\ Tail(s) \in Seq(Proc) /\ Len(Tail(s)) = Len(s) - 1
      /\ \A k \in 1 .. Len(s) - 1 : Tail(s)[k] = s[k + 1]
      /\ Head(s) = s[1]
  BY <1>1, HeadTailProperties
<1>3. /\ Without(s, 1) \in Seq(Proc) /\ Len(Without(s, 1)) = Len(s) - 1
      /\ \A k \in 1 .. Len(s) - 1 : Without(s, 1)[k] = s[k + 1]
  BY <1>1, WithoutFacts
<1>4. Without(s, 1) = Tail(s)
  BY <1>1, <1>2, <1>3, SeqEqual
<1> QED
  BY <1>1, <1>2, <1>4

\* A step that unlinks the n-th thread, joins its neighbours and marks it running
\* takes it out of the list.
LEMMA UnlinkTakesOut ==
  ASSUME NEW t \in Blocks, NEW q \in ThreadQueue, NEW s, Lists(t, q, s),
         NEW n \in 1 .. Len(s), NEW b \in Blocks, NEW p \in ThreadQueue,
         p.head = IF Before(s, n) = NULL THEN After(s, n) ELSE q.head,
         p.tail = IF After(s, n) = NULL THEN Before(s, n) ELSE q.tail,
         b[s[n]].state = "RUN", b[s[n]].prev = NULL, b[s[n]].next = NULL,
         \A i \in Proc \ {s[n]} :
           /\ b[i].state = t[i].state
           /\ b[i].prev = IF i = After(s, n) THEN Before(s, n) ELSE t[i].prev
           /\ b[i].next = IF i = Before(s, n) THEN After(s, n) ELSE t[i].next
  PROVE  Lists(b, p, Without(s, n))
<1> DEFINE new == Without(s, n)
<1>1. /\ Len(s) \in Nat
      /\ \A k \in 1 .. Len(s) : s[k] \in Proc /\ s[k] # NULL
      /\ \A j, k \in 1 .. Len(s) : s[j] = s[k] => j = k
      /\ s \in Seq(Proc)
  BY ListFacts
<1>2. /\ new \in Seq(Proc) /\ Len(new) = Len(s) - 1
      /\ \A k \in 1 .. Len(s) - 1 : new[k] = IF k < n THEN s[k] ELSE s[k + 1]
  BY <1>1, WithoutFacts
<1> HIDE DEF new
<1>3. ASSUME NEW j \in 1 .. Len(new), NEW k \in 1 .. Len(new), new[j] = new[k]
      PROVE  j = k
  BY <1>1, <1>2, <1>3
<1>4. ASSUME NEW i \in Proc
      PROVE  b[i].state = "READY" <=> \E k \in 1 .. Len(new) : new[k] = i
  <2>1. CASE i = s[n]
    BY <2>1, <1>1, <1>2
  <2>2. CASE i # s[n]
    <3>1. b[i].state = "READY" <=> \E k \in 1 .. Len(s) : s[k] = i
      BY <2>2 DEF Lists
    <3>2. ASSUME NEW k \in 1 .. Len(s), s[k] = i
          PROVE  \E j \in 1 .. Len(new) : new[j] = i
      <4>1. CASE k < n
        BY <4>1, <3>2, <1>1, <1>2
      <4>2. CASE k > n
        <5>1. k - 1 \in 1 .. Len(new) /\ new[k - 1] = i
          BY <4>2, <3>2, <1>1, <1>2
        <5> QED
          BY <5>1
      <4> QED
        BY <4>1, <4>2, <3>2, <2>2, <1>1
    <3>3. ASSUME NEW k \in 1 .. Len(new), new[k] = i
          PROVE  \E j \in 1 .. Len(s) : s[j] = i
      BY <3>3, <1>1, <1>2
    <3> QED
      BY <3>1, <3>2, <3>3
  <2> QED
    BY <2>1, <2>2
<1>5. p.head = After(new, 0)
  <2>1. q.head = s[1] /\ (Before(s, n) = NULL <=> n = 1)
    BY <1>1 DEF Lists, Before, After
  <2>2. CASE n = 1
    <3>1. After(new, 0) = After(s, 1)
      BY <2>2, <1>1, <1>2 DEF After
    <3> QED
      BY <2>1, <2>2, <3>1
  <2>3. CASE n # 1
    <3>1. 1 \in 1 .. Len(s) - 1 /\ 1 < n
      BY <2>3, <1>1
    <3>2. After(new, 0) = s[1]
      BY <3>1, <1>1, <1>2 DEF After
    <3> QED
      BY <2>1, <2>3, <3>2
  <2> QED
    BY <2>2, <2>3
<1>6. p.tail = Before(new, Len(new) + 1)
  <2>1. q.tail = s[Len(s)] /\ (After(s, n) = NULL <=> n = Len(s))
    BY <1>1 DEF Lists, Before, After
  <2>2. CASE n = Len(s)
    <3>1. Before(new, Len(new) + 1) = Before(s, n)
      BY <2>2, <1>1, <1>2 DEF Before
    <3> QED
      BY <2>1, <2>2, <3>1
  <2>3. CASE n # Len(s)
    <3>1. Len(s) - 1 \in 1 .. Len(s) - 1 /\ ~(Len(s) - 1 < n)
      BY <2>3, <1>1
    <3>2. new[Len(s) - 1] = s[Len(s)]
      BY <3>1, <1>1, <1>2
    <3>3. Before(new, Len(new) + 1) = s[Len(s)]
      BY <3>1, <3>2, <1>1, <1>2 DEF Before
    <3> QED
      BY <2>1, <2>3, <3>3
  <2> QED
    BY <2>2, <2>3
<1>7. ASSUME NEW k \in 1 .. Len(new)
      PROVE  b[new[k]].prev = Before(new, k) /\ b[new[k]].next = After(new, k)
  <2>1. CASE k < n
    <3>1. /\ new[k] = s[k] /\ k \in 1 .. Len(s) /\ s[k] \in Proc \ {s[n]}
          /\ t[s[k]].prev = Before(s, k) /\ t[s[k]].next = After(s, k)
      BY <2>1, <1>1, <1>2 DEF Lists
    <3>2. s[k] # After(s, n)
      BY <2>1, <1>1 DEF After
    <3>2a. Before(new, k) = Before(s, k)
      BY <2>1, <1>1, <1>2 DEF Before
    <3>3. s[k] = Before(s, n) <=> k = n - 1
      BY <2>1, <1>1 DEF Before
    <3>4. After(new, k) = IF k = n - 1 THEN After(s, n) ELSE After(s, k)
      BY <2>1, <1>1, <1>2 DEF After
    <3> QED
      BY <3>1, <3>2, <3>2a, <3>3, <3>4
  <2>2. CASE k >= n
    <3>1. /\ new[k] = s[k + 1] /\ k + 1 \in 1 .. Len(s)
          /\ s[k + 1] \in Proc \ {s[n]}
          /\ t[s[k + 1]].prev = Before(s, k + 1)
          /\ t[s[k + 1]].next = After(s, k + 1)
      BY <2>2, <1>1, <1>2 DEF Lists
    <3>2. s[k + 1] # Before(s, n)
      BY <2>2, <3>1, <1>1 DEF Before
    <3>2a. After(new, k) = After(s, k + 1)
      BY <2>2, <1>1, <1>2 DEF After
    <3>3. s[k + 1] = After(s, n) <=> k = n
      BY <2>2, <1>1, <1>2 DEF After
    <3>4. Before(new, k) = IF k = n THEN Before(s, n) ELSE Before(s, k + 1)
      <4>1. CASE k = n
        BY <4>1, <1>1, <1>2 DEF Before
      <4>2. CASE k # n
        <5>1. k - 1 \in 1 .. Len(s) - 1 /\ ~(k - 1 < n) /\ k # 1
          BY <4>2, <2>2, <1>1, <1>2
        <5>2. new[k - 1] = s[k]
          BY <5>1, <1>1, <1>2
        <5> QED
          BY <4>2, <5>1, <5>2, <1>1, <1>2 DEF Before
      <4> QED
        BY <4>1, <4>2
    <3> QED
      BY <3>1, <3>2, <3>2a, <3>3, <3>4
  <2> QED
    BY <2>1, <2>2, <1>1, <1>2
<1>8. ASSUME NEW i \in Proc, b[i].state # "READY"
      PROVE  b[i].prev = NULL /\ b[i].next = NULL
  <2>1. CASE i # s[n]
    <3>1. t[i].state # "READY" /\ t[i].prev = NULL /\ t[i].next = NULL
      BY <2>1, <1>8 DEF Lists
    <3>2. i # After(s, n) /\ i # Before(s, n)
      BY <3>1, <1>1, NullIsNoThread DEF Lists, Before, After
    <3> QED
      BY <2>1, <3>1, <3>2
  <2> QED
    BY <2>1
<1>9. Lists(b, p, new)
  BY <1>2, <1>3, <1>4, <1>5, <1>6, <1>7, <1>8 DEF Lists
<1> QED
  BY <1>9 DEF new

\* What ThreadYield does to the queue: its head leaves it.
LEMMA DequeueTakesHead ==
  ASSUME NEW t \in Blocks, NEW q \in ThreadQueue, NEW s, Lists(t, q, s), s # <<>>
  PROVE  LET d == TQDequeue(t, q)
             b == Running(d.tcbs, d.id)
         IN /\ d.id = Head(s) /\ d.id \in Proc
            /\ b \in Blocks /\ d.queue \in ThreadQueue
            /\ Lists(b, d.queue, Tail(s))
            /\ b[d.id].state = "RUN"
            /\ \A i \in Proc \ {d.id} : b[i].state = t[i].state
            /\ t[d.id].state = "READY"
<1> DEFINE d == TQDequeue(t, q)
           b == Running(d.tcbs, d.id)
           id == q.head
           next == t[id].next
<1>1. /\ 1 \in 1 .. Len(s) /\ Head(s) = s[1] /\ Without(s, 1) = Tail(s)
  BY WithoutHead DEF Lists
<1>2. /\ Len(s) \in Nat
      /\ \A k \in 1 .. Len(s) : s[k] \in Proc /\ s[k] # NULL
      /\ \A j, k \in 1 .. Len(s) : s[j] = s[k] => j = k
  BY ListFacts
<1>3. /\ id = s[1] /\ id # NULL
      /\ t[id].prev = Before(s, 1) /\ next = After(s, 1)
      /\ Before(s, 1) = NULL
      /\ q.tail = s[Len(s)]
  <2>1. id = s[1] /\ q.tail = s[Len(s)] /\ Before(s, 1) = NULL
    BY <1>1, <1>2 DEF Lists, Before, After
  <2>2. t[s[1]].prev = Before(s, 1) /\ t[s[1]].next = After(s, 1)
    BY <1>1 DEF Lists
  <2> QED
    BY <1>1, <1>2, <2>1, <2>2
<1>4. next # id
  BY <1>1, <1>3, NotItsNeighbour
<1>5. /\ d.id = q.head /\ q.head \in Proc
      /\ b \in Blocks /\ d.queue \in ThreadQueue
      /\ d.queue.head = next
      /\ d.queue.tail = IF next = NULL THEN NULL ELSE q.tail
      /\ b[q.head].state = "RUN" /\ b[q.head].next = NULL
      /\ b[q.head].prev = t[q.head].prev
      /\ \A i \in Proc \ {q.head} :
           /\ b[i].state = t[i].state
           /\ b[i].next = t[i].next
           /\ b[i].prev = IF i = next THEN NULL ELSE t[i].prev
  BY <1>3, <1>4, DequeueEffect
<1> HIDE DEF b, d, id, next
<1>6. /\ b[s[1]].state = "RUN" /\ b[s[1]].prev = NULL /\ b[s[1]].next = NULL
      /\ \A i \in Proc \ {s[1]} :
           /\ b[i].state = t[i].state
           /\ b[i].prev = IF i = After(s, 1) THEN Before(s, 1) ELSE t[i].prev
           /\ b[i].next = IF i = Before(s, 1) THEN After(s, 1) ELSE t[i].next
  BY <1>3, <1>5, NullIsNoThread DEF id
<1>7. /\ d.queue.head = IF Before(s, 1) = NULL THEN After(s, 1) ELSE q.head
      /\ d.queue.tail = IF After(s, 1) = NULL THEN Before(s, 1) ELSE q.tail
  BY <1>3, <1>5
<1>8. Lists(b, d.queue, Without(s, 1))
  BY <1>1, <1>5, <1>6, <1>7, UnlinkTakesOut
<1>9. d.id = Head(s) /\ d.id \in Proc /\ id = d.id /\ t[d.id].state = "READY"
  <2>1. t[s[1]].state = "READY"
    BY <1>1, ListFacts
  <2> QED
    BY <2>1, <1>1, <1>3, <1>5 DEF id
<1> QED
  BY <1>1, <1>5, <1>8, <1>9 DEF b, d, id

\* What ForceRunProcess does to the queue with the thread in place n: the thread
\* is taken out of it.
LEMMA RemoveTakesOut ==
  ASSUME NEW t \in Blocks, NEW q \in ThreadQueue, NEW s, Lists(t, q, s),
         NEW n \in 1 .. Len(s)
  PROVE  LET r == TQRemove(t, q, s[n])
             b == Running(r.tcbs, s[n])
         IN /\ b \in Blocks /\ r.queue \in ThreadQueue
            /\ Lists(b, r.queue, Without(s, n))
            /\ b[s[n]].state = "RUN"
            /\ \A i \in Proc \ {s[n]} : b[i].state = t[i].state
<1> DEFINE id == s[n]
           r == TQRemove(t, q, id)
           b == Running(r.tcbs, id)
           prev == t[id].prev
           next == t[id].next
<1>1. /\ Len(s) \in Nat
      /\ \A k \in 1 .. Len(s) : s[k] \in Proc /\ s[k] # NULL
      /\ \A j, k \in 1 .. Len(s) : s[j] = s[k] => j = k
  BY ListFacts
<1>2. id \in Proc /\ prev = Before(s, n) /\ next = After(s, n)
  BY <1>1 DEF Lists
<1>3. t[id].prev # id /\ t[id].next # id /\ (t[id].next # NULL => t[id].next # t[id].prev)
  BY <1>2, NotItsNeighbour
<1> HIDE DEF id
<1>4. /\ b \in Blocks /\ r.queue \in ThreadQueue
      /\ r.queue.head = IF prev = NULL THEN next ELSE q.head
      /\ r.queue.tail = IF next = NULL THEN prev ELSE q.tail
      /\ b[id].state = "RUN" /\ b[id].prev = NULL /\ b[id].next = NULL
      /\ \A i \in Proc \ {id} :
           /\ b[i].state = t[i].state
           /\ b[i].prev = IF i = next THEN prev ELSE t[i].prev
           /\ b[i].next = IF i = prev THEN next ELSE t[i].next
  BY <1>2, <1>3, RemoveEffect
<1> HIDE DEF b, r, prev, next
<1>5. Lists(b, r.queue, Without(s, n))
  BY <1>2, <1>4, UnlinkTakesOut DEF id
<1> QED
  BY <1>4, <1>5 DEF b, r, id

\* The links and ends of a list agree with each other.
LEMMA ListIsLinked ==
  ASSUME NEW t \in Blocks, NEW q \in ThreadQueue, NEW s, Lists(t, q, s)
  PROVE  Links(t, q)
<1>1. /\ Len(s) \in Nat
      /\ \A k \in 1 .. Len(s) : s[k] \in Proc /\ s[k] # NULL /\ t[s[k]].state = "READY"
      /\ \A j, k \in 1 .. Len(s) : s[j] = s[k] => j = k
  BY ListFacts
<1>2. /\ q.head = IF Len(s) = 0 THEN NULL ELSE s[1]
      /\ q.tail = IF Len(s) = 0 THEN NULL ELSE s[Len(s)]
  BY <1>1 DEF Lists, Before, After
<1>3. ASSUME NEW i \in ReadyIn(t)
      PROVE  /\ t[i].prev = NULL <=> q.head = i
             /\ t[i].next = NULL <=> q.tail = i
             /\ t[i].next # NULL => t[i].next \in ReadyIn(t) /\ t[t[i].next].prev = i
             /\ t[i].prev # NULL => t[i].prev \in ReadyIn(t) /\ t[t[i].prev].next = i
  <2>1. PICK k \in 1 .. Len(s) : s[k] = i
    BY DEF Lists, ReadyIn
  <2>2. t[i].prev = Before(s, k) /\ t[i].next = After(s, k)
    BY <2>1 DEF Lists
  <2>3. t[i].prev = NULL <=> q.head = i
    BY <1>1, <1>2, <2>1, <2>2 DEF Before
  <2>4. t[i].next = NULL <=> q.tail = i
    BY <1>1, <1>2, <2>1, <2>2 DEF After
  <2>5. ASSUME t[i].next # NULL
        PROVE  t[i].next \in ReadyIn(t) /\ t[t[i].next].prev = i
    <3>1. k + 1 \in 1 .. Len(s) /\ t[i].next = s[k + 1]
      BY <1>1, <2>1, <2>2, <2>5 DEF After
    <3>2. t[s[k + 1]].prev = Before(s, k + 1)
      BY <3>1 DEF Lists
    <3>3. Before(s, k + 1) = s[k]
      BY <1>1, <2>1 DEF Before
    <3> QED
      BY <1>1, <2>1, <3>1, <3>2, <3>3 DEF ReadyIn
  <2>6. ASSUME t[i].prev # NULL
        PROVE  t[i].prev \in ReadyIn(t) /\ t[t[i].prev].next = i
    <3>1. k - 1 \in 1 .. Len(s) /\ t[i].prev = s[k - 1]
      BY <1>1, <2>1, <2>2, <2>6 DEF Before
    <3>2. t[s[k - 1]].next = After(s, k - 1)
      BY <3>1 DEF Lists
    <3>3. After(s, k - 1) = s[k]
      BY <1>1, <2>1, <3>1 DEF After
    <3> QED
      BY <1>1, <2>1, <3>1, <3>2, <3>3 DEF ReadyIn
  <2> QED
    BY <2>3, <2>4, <2>5, <2>6
<1>4. /\ q.head = NULL <=> q.tail = NULL
      /\ q.head # NULL => q.head \in ReadyIn(t)
      /\ q.tail # NULL => q.tail \in ReadyIn(t)
  <2>1. CASE Len(s) = 0
    BY <2>1, <1>2
  <2>2. CASE Len(s) # 0
    <3>1. 1 \in 1 .. Len(s) /\ Len(s) \in 1 .. Len(s)
      BY <2>2, <1>1
    <3>2. /\ s[1] \in ReadyIn(t) /\ s[1] # NULL
          /\ s[Len(s)] \in ReadyIn(t) /\ s[Len(s)] # NULL
      BY <3>1, <1>1 DEF ReadyIn
    <3> QED
      BY <2>2, <3>2, <1>2
  <2> QED
    BY <2>1, <2>2
<1>5. \A i \in Proc \ ReadyIn(t) : t[i].prev = NULL /\ t[i].next = NULL
  BY DEF Lists, ReadyIn
<1> QED
  BY <1>3, <1>4, <1>5 DEF Links

\* A list has at most one place for each thread.
LEMMA ListFits ==
  ASSUME NEW t, NEW q, NEW s, Lists(t, q, s)
  PROVE  /\ Len(s) = Cardinality(ReadyIn(t)) /\ Len(s) <= MAX_PROCS
         /\ ReadyIn(t) = {s[k] : k \in 1 .. Len(s)}
<1>1. /\ Len(s) \in Nat
      /\ \A k \in 1 .. Len(s) : s[k] \in Proc
      /\ \A j, k \in 1 .. Len(s) : s[j] = s[k] => j = k
  BY ListFacts
<1>2. ReadyIn(t) = {s[k] : k \in 1 .. Len(s)}
  BY <1>1 DEF Lists, ReadyIn
<1> DEFINE f == [k \in 1 .. Len(s) |-> s[k]]
<1>3. ExistsBijection(1 .. Len(s), ReadyIn(t))
  <2>1. f \in [1 .. Len(s) -> ReadyIn(t)]
    BY <1>2
  <2>2. \A j, k \in 1 .. Len(s) : f[j] = f[k] => j = k
    BY <1>1
  <2>3. \A i \in ReadyIn(t) : \E k \in 1 .. Len(s) : f[k] = i
    BY <1>2
  <2> HIDE DEF f
  <2>4. f \in Bijection(1 .. Len(s), ReadyIn(t))
    BY <2>1, <2>2, <2>3, Fun_IsBij
  <2> QED
    BY <2>4 DEF ExistsBijection
<1>4. Cardinality(ReadyIn(t)) = Len(s)
  BY <1>1, <1>3, FS_CountingElements
<1>5. IsFiniteSet(Proc) /\ Cardinality(Proc) = MAX_PROCS
  <2>1. 0 \in Int /\ MAX_PROCS - 1 \in Int /\ ~(0 > MAX_PROCS - 1)
    BY ContainersAssumption
  <2>2. IsFiniteSet(0 .. MAX_PROCS - 1) /\ Cardinality(0 .. MAX_PROCS - 1) = MAX_PROCS
    BY <2>1, ContainersAssumption, FS_Interval
  <2> QED
    BY <2>2 DEF Proc
<1>6. ReadyIn(t) \in SUBSET Proc
  BY DEF ReadyIn
<1>7. Cardinality(ReadyIn(t)) <= Cardinality(Proc)
  BY <1>5, <1>6, FS_Subset
<1> QED
  BY <1>2, <1>4, <1>5, <1>7

\* The walk from the head meets the threads of the list one after the other.
LEMMA WalkMeetsList ==
  ASSUME NEW s, Lists(tcbs, readyQueue, s)
  PROVE  Walk = [k \in 1 .. MAX_PROCS + 1 |-> IF k <= Len(s) THEN s[k] ELSE NULL]
<1> DEFINE dom == 1 .. MAX_PROCS + 1
           step(f, k) == IF k = 1 THEN readyQueue.head
                         ELSE IF f[k - 1] = NULL THEN NULL
                         ELSE tcbs[f[k - 1]].next
           w == [k \in dom |-> IF k <= Len(s) THEN s[k] ELSE NULL]
<1>1. /\ Len(s) \in Nat
      /\ \A k \in 1 .. Len(s) : s[k] \in Proc /\ s[k] # NULL
  BY ListFacts
<1>2. ASSUME NEW k \in dom PROVE w[k] = step(w, k)
  <2>1. CASE k = 1
    BY <2>1, <1>1 DEF Lists, After
  <2>2. CASE k # 1
    <3>1. k - 1 \in dom
      BY <2>2, ContainersAssumption
    <3>2. CASE k - 1 <= Len(s)
      <4>1. k - 1 \in 1 .. Len(s) /\ w[k - 1] = s[k - 1]
        BY <2>2, <3>1, <3>2, <1>1
      <4>2. tcbs[s[k - 1]].next = After(s, k - 1)
        BY <4>1 DEF Lists
      <4>3. After(s, k - 1) = w[k]
        BY <2>2, <3>1, <3>2, <1>1, ContainersAssumption DEF After
      <4> QED
        BY <2>2, <4>1, <4>2, <4>3, <1>1
    <3>3. CASE ~(k - 1 <= Len(s))
      <4>1. w[k - 1] = NULL /\ w[k] = NULL
        BY <3>1, <3>3, <1>1, ContainersAssumption
      <4> QED
        BY <2>2, <4>1
    <3> QED
      BY <3>2, <3>3
  <2> QED
    BY <2>1, <2>2
<1>3. w = [k \in dom |-> step(w, k)]
  BY <1>2
<1>4. Walk = [k \in dom |-> step(Walk, k)]
  BY <1>3 DEF Walk
<1> HIDE DEF w
<1>5. \A n \in Nat : n + 1 \in dom => Walk[n + 1] = w[n + 1]
  <2> DEFINE G == {n \in Nat : n + 1 \in dom => Walk[n + 1] = w[n + 1]}
  <2>1. 0 \in G
    BY <1>3, <1>4, ContainersAssumption
  <2>2. ASSUME NEW n \in Nat, n \in G PROVE n + 1 \in G
    <3> SUFFICES ASSUME n + 1 + 1 \in dom PROVE Walk[n + 1 + 1] = w[n + 1 + 1]
      OBVIOUS
    <3>1. n + 1 \in dom /\ Walk[n + 1] = w[n + 1]
      BY <2>2, ContainersAssumption
    <3>2. n + 1 + 1 # 1 /\ n + 1 + 1 - 1 = n + 1
      OBVIOUS
    <3> QED
      BY <3>1, <3>2, <1>3, <1>4
  <2> HIDE DEF G
  <2>3. Nat \subseteq G
    BY <2>1, <2>2, NatSetInduction
  <2> QED
    BY <2>3 DEF G
<1>6. ASSUME NEW k \in dom PROVE Walk[k] = w[k]
  <2>1. k - 1 \in Nat /\ k - 1 + 1 = k
    BY ContainersAssumption
  <2> QED
    BY <2>1, <1>5
<1>7. Walk = w
  BY <1>3, <1>4, <1>6
<1> QED
  BY <1>7 DEF w

\* So the queue that is read off the links is the list, and there is only one.
LEMMA QueueIsList == \A s : Lists(tcbs, readyQueue, s) => Queue = s
<1> SUFFICES ASSUME NEW s, Lists(tcbs, readyQueue, s) PROVE Queue = s
  OBVIOUS
<1>1. /\ s \in Seq(Proc) /\ Len(s) \in Nat /\ Len(s) <= MAX_PROCS
      /\ \A k \in 1 .. Len(s) : s[k] \in Proc /\ s[k] # NULL
  BY ListFacts, ListFits
<1>2. Walk = [k \in 1 .. MAX_PROCS + 1 |-> IF k <= Len(s) THEN s[k] ELSE NULL]
  BY WalkMeetsList
<1>3. {k \in DOMAIN Walk : Walk[k] # NULL} = 1 .. Len(s)
  <2>1. /\ DOMAIN Walk = 1 .. MAX_PROCS + 1
        /\ \A k \in 1 .. MAX_PROCS + 1 : Walk[k] = IF k <= Len(s) THEN s[k] ELSE NULL
    BY <1>2
  <2>2. \A k : k \in 1 .. Len(s) <=> k \in 1 .. MAX_PROCS + 1 /\ k <= Len(s)
    BY <1>1, ContainersAssumption
  <2>3. \A k \in 1 .. MAX_PROCS + 1 : Walk[k] # NULL <=> k <= Len(s)
    BY <1>1, <2>1, <2>2
  <2> QED
    BY <2>1, <2>2, <2>3
<1>4. Cardinality(1 .. Len(s)) = Len(s)
  <2>1. 1 \in Int /\ Len(s) \in Int
    BY <1>1
  <2>2. Cardinality(1 .. Len(s)) = IF 1 > Len(s) THEN 0 ELSE Len(s) - 1 + 1
    BY <2>1, FS_Interval
  <2> QED
    BY <1>1, <2>2
<1>5. Queue = [k \in 1 .. Len(s) |-> Walk[k]]
  BY <1>3, <1>4 DEF Queue
<1>6. \A k \in 1 .. Len(s) : Walk[k] = s[k]
  BY <1>1, <1>2, ContainersAssumption
<1>7. Queue = [k \in 1 .. Len(s) |-> s[k]]
  BY <1>5, <1>6
<1>8. s = [k \in 1 .. Len(s) |-> s[k]]
  BY <1>1
<1> QED
  BY <1>7, <1>8

-----------------------------------------------------------------------------
(***************************************************************************)
(* The inductive invariant.  The links are those of a list of threads, and *)
(* a container is in use exactly for the threads that were started, so     *)
(* that a fresh container (NextChildFresh) is the index of a thread that   *)
(* is in no list.                                                          *)
(***************************************************************************)
Listed == \E s : Lists(tcbs, readyQueue, s)

StartedIffUsed ==
  \A id \in Proc : containers[id].used <=> tcbs[id].state # "DEAD"

TypeInv == /\ tcbs \in Blocks
           /\ readyQueue \in ThreadQueue
           /\ currentID \in Proc
           /\ containers \in [Proc -> Container]

Inv == /\ TypeInv
       /\ Listed
       /\ Tree(containers)
       /\ StartedIffUsed
       /\ tcbs[currentID].state = "RUN"

\* The list of the boot thread alone is empty.
LEMMA InitList == Init => Lists(tcbs, readyQueue, <<>>)
<1> SUFFICES ASSUME Init PROVE Lists(tcbs, readyQueue, <<>>)
  OBVIOUS
<1>1. /\ \A c \in Proc : /\ tcbs[c].state # "READY"
                         /\ tcbs[c].prev = NULL /\ tcbs[c].next = NULL
      /\ readyQueue.head = NULL /\ readyQueue.tail = NULL
  BY DEF Init, ThreadInit
<1>2. <<>> \in Seq(Proc) /\ Len(<<>>) = 0
  BY EmptySeq
<1>3. After(<<>>, 0) = NULL /\ Before(<<>>, 0 + 1) = NULL
  BY <1>2 DEF After, Before
<1>4. \A k \in 1 .. 0 : FALSE
  OBVIOUS
<1> QED
  BY <1>1, <1>2, <1>3, <1>4 DEF Lists

LEMMA InitInv == Init => Inv
<1> SUFFICES ASSUME Init PROVE Inv
  OBVIOUS
<1>1. /\ containers \in [Proc -> Container] /\ Tree(containers)
      /\ containers[0].used /\ \A c \in Proc \ {0} : ~containers[c].used
  BY InitTree, ThreadsAssumption DEF Init, ThreadInit
<1>2. /\ tcbs \in Blocks /\ readyQueue \in ThreadQueue /\ currentID = 0
      /\ tcbs[0].state = "RUN" /\ \A c \in Proc \ {0} : tcbs[c].state = "DEAD"
  BY ProcFacts DEF Init, ThreadInit, Blocks, TCB, ThreadQueue
<1> QED
  BY <1>1, <1>2, InitList, ProcFacts DEF Inv, TypeInv, Listed, StartedIffUsed

\* CreateProcess puts a thread that was never started at the end of the list.
LEMMA CreateProcessList ==
  ASSUME Inv, NEW quota \in Quotas, CreateProcess(quota),
         NEW s, Lists(tcbs, readyQueue, s)
  PROVE  LET id == ChildID(containers, currentID)
         IN /\ id \in Proc /\ tcbs[id].state = "DEAD"
            /\ tcbs' \in Blocks /\ readyQueue' \in ThreadQueue
            /\ Lists(tcbs', readyQueue', Append(s, id))
            /\ tcbs'[id].state = "READY"
            /\ \A i \in Proc \ {id} : tcbs'[i].state = tcbs[i].state
<1> DEFINE id == ChildID(containers, currentID)
           r == Enqueued(tcbs, readyQueue, id)
<1>1. /\ tcbs \in Blocks /\ readyQueue \in ThreadQueue
      /\ currentID \in Proc /\ containers \in [Proc -> Container]
      /\ Tree(containers) /\ containers[currentID].used
  BY DEF Inv, TypeInv, StartedIffUsed
<1>2. /\ id \in Proc
      /\ ChildrenLeft(containers, currentID) /\ ChildInArray(containers, currentID)
      /\ tcbs' = r.tcbs /\ readyQueue' = r.queue
  BY DEF CreateProcess, ThreadSpawn, ChildInArray, Enqueued
<1>3. ~containers[id].used
  BY <1>1, <1>2, NextChildFresh
<1>4. tcbs[id].state = "DEAD"
  BY <1>2, <1>3 DEF Inv, StartedIffUsed
<1> HIDE DEF id
<1>5. /\ r.tcbs \in Blocks /\ r.queue \in ThreadQueue
      /\ Lists(r.tcbs, r.queue, Append(s, id))
      /\ \A i \in Proc \ {id} : r.tcbs[i].state = tcbs[i].state
      /\ r.tcbs[id].state = "READY"
  BY <1>1, <1>2, <1>4, EnqueueAppends
<1> HIDE DEF r
<1> QED
  BY <1>2, <1>4, <1>5 DEF id

LEMMA CreateProcessInv ==
  ASSUME Inv, NEW quota \in Quotas, CreateProcess(quota) PROVE Inv'
<1> DEFINE id == ChildID(containers, currentID)
<1>1. PICK s : Lists(tcbs, readyQueue, s)
  BY DEF Inv, Listed
<1>2. /\ id \in Proc /\ tcbs[id].state = "DEAD"
      /\ tcbs' \in Blocks /\ readyQueue' \in ThreadQueue
      /\ Lists(tcbs', readyQueue', Append(s, id))
      /\ tcbs'[id].state = "READY"
      /\ \A i \in Proc \ {id} : tcbs'[i].state = tcbs[i].state
  BY <1>1, CreateProcessList
<1>3. /\ currentID \in Proc /\ tcbs[currentID].state = "RUN"
      /\ containers \in [Proc -> Container] /\ Tree(containers)
      /\ containers[currentID].used
  BY DEF Inv, TypeInv, StartedIffUsed
<1>4. /\ quota \in Nat
      /\ ChildrenLeft(containers, currentID) /\ ChildInArray(containers, currentID)
      /\ containers' = ContainerSplit(containers, currentID, quota)
      /\ currentID' = currentID
  BY ThreadsAssumption DEF CreateProcess, ThreadSpawn
<1>5. /\ containers' \in [Proc -> Container]
      /\ id # currentID
      /\ containers'[id].used
      /\ containers'[currentID].used = containers[currentID].used
      /\ \A c \in Proc \ {currentID, id} : containers'[c] = containers[c]
  <2> DEFINE cs == ContainerSplit(containers, currentID, quota)
  <2>1. /\ cs \in [Proc -> Container]
        /\ id # currentID
        /\ cs[id].used
        /\ cs[currentID].used = containers[currentID].used
        /\ \A c \in Proc \ {currentID, id} : cs[c] = containers[c]
    <3>1. /\ containers \in [Proc -> Container] /\ currentID \in Proc
          /\ quota \in Nat /\ ChildID(containers, currentID) \in Proc
      BY <1>2, <1>3, <1>4
    <3> QED
      BY <3>1, ContainerSplitEffect
  <2>2. containers' = cs
    BY <1>4
  <2> QED
    BY <2>1, <2>2
<1>6. Tree(containers')
  BY <1>2, <1>3, <1>4, SplitKeepsTree
<1> HIDE DEF id
<1>7. StartedIffUsed'
  BY <1>2, <1>3, <1>5 DEF Inv, StartedIffUsed
<1>8. Listed'
  BY <1>2 DEF Listed
<1> QED
  BY <1>2, <1>3, <1>4, <1>5, <1>6, <1>7, <1>8 DEF Inv, TypeInv

\* ForceRunProcess takes the thread out of the list, wherever it stands.
LEMMA ForceRunList ==
  ASSUME Inv, NEW pid \in Proc, ForceRunProcess(pid),
         NEW s, Lists(tcbs, readyQueue, s)
  PROVE  \E n \in 1 .. Len(s) :
           /\ s[n] = pid
           /\ tcbs' \in Blocks /\ readyQueue' \in ThreadQueue
           /\ Lists(tcbs', readyQueue', Without(s, n))
           /\ tcbs'[pid].state = "RUN"
           /\ \A i \in Proc \ {pid} : tcbs'[i].state = tcbs[i].state
<1>1. PICK n \in 1 .. Len(s) : s[n] = pid
  BY DEF ForceRunProcess, Lists
<1> DEFINE r == TQRemove(tcbs, readyQueue, s[n])
           b == Running(r.tcbs, s[n])
<1>2. tcbs \in Blocks /\ readyQueue \in ThreadQueue
  BY DEF Inv, TypeInv
<1>3. tcbs' = b /\ readyQueue' = r.queue
  BY <1>1 DEF ForceRunProcess, Running
<1>4. /\ b \in Blocks /\ r.queue \in ThreadQueue
      /\ Lists(b, r.queue, Without(s, n))
      /\ b[s[n]].state = "RUN"
      /\ \A i \in Proc \ {s[n]} : b[i].state = tcbs[i].state
  BY <1>2, RemoveTakesOut
<1> HIDE DEF b, r
<1> QED
  BY <1>1, <1>3, <1>4

LEMMA ForceRunInv ==
  ASSUME Inv, NEW pid \in Proc, ForceRunProcess(pid) PROVE Inv'
<1>1. PICK s : Lists(tcbs, readyQueue, s)
  BY DEF Inv, Listed
<1>2. PICK n \in 1 .. Len(s) :
        /\ s[n] = pid
        /\ tcbs' \in Blocks /\ readyQueue' \in ThreadQueue
        /\ Lists(tcbs', readyQueue', Without(s, n))
        /\ tcbs'[pid].state = "RUN"
        /\ \A i \in Proc \ {pid} : tcbs'[i].state = tcbs[i].state
  BY <1>1, ForceRunList
<1>3. currentID' = pid /\ containers' = containers /\ tcbs[pid].state = "READY"
  BY DEF ForceRunProcess
<1>4. StartedIffUsed'
  BY <1>2, <1>3 DEF Inv, StartedIffUsed
<1>5. Listed'
  BY <1>2 DEF Listed
<1> QED
  BY <1>2, <1>3, <1>4, <1>5 DEF Inv, TypeInv

\* ThreadYield puts the current thread at the end of the list and makes the first
\* thread of the list, which may be the same, the current one.
LEMMA YieldList ==
  ASSUME Inv, ThreadYield, NEW s, Lists(tcbs, readyQueue, s)
  PROVE  LET all == Append(s, currentID)
         IN /\ currentID' = Head(all) /\ currentID' \in Proc
            /\ tcbs' \in Blocks /\ readyQueue' \in ThreadQueue
            /\ Lists(tcbs', readyQueue', Tail(all))
            /\ tcbs'[currentID'].state = "RUN"
            /\ \A i \in Proc \ {currentID'} :
                 tcbs'[i].state = IF i = currentID THEN "READY" ELSE tcbs[i].state
            /\ tcbs[currentID'].state # "DEAD"
<1> DEFINE all == Append(s, currentID)
           r == Enqueued(tcbs, readyQueue, currentID)
           d == TQDequeue(r.tcbs, r.queue)
           b == Running(d.tcbs, d.id)
<1>1. /\ tcbs \in Blocks /\ readyQueue \in ThreadQueue
      /\ currentID \in Proc /\ tcbs[currentID].state # "READY"
      /\ tcbs[currentID].state # "DEAD"
  BY DEF Inv, TypeInv
<1>2. /\ tcbs' = b /\ readyQueue' = d.queue /\ currentID' = d.id
  BY DEF ThreadYield, Running, Enqueued
<1>3. /\ r.tcbs \in Blocks /\ r.queue \in ThreadQueue
      /\ Lists(r.tcbs, r.queue, all)
      /\ \A i \in Proc \ {currentID} : r.tcbs[i].state = tcbs[i].state
      /\ r.tcbs[currentID].state = "READY"
  BY <1>1, EnqueueAppends
<1>4. all # <<>>
  <2>1. Len(all) = Len(s) + 1 /\ Len(s) \in Nat /\ all \in Seq(Proc)
    BY <1>1, ListFacts, AppendProperties
  <2> QED
    BY <2>1, EmptySeq
<1> HIDE DEF all, r
<1>5. /\ d.id = Head(all) /\ d.id \in Proc
      /\ b \in Blocks /\ d.queue \in ThreadQueue
      /\ Lists(b, d.queue, Tail(all))
      /\ b[d.id].state = "RUN"
      /\ \A i \in Proc \ {d.id} : b[i].state = r.tcbs[i].state
      /\ r.tcbs[d.id].state = "READY"
  BY <1>3, <1>4, DequeueTakesHead
<1> HIDE DEF d, b
<1>6. tcbs[d.id].state # "DEAD"
  BY <1>1, <1>3, <1>5
<1> QED
  BY <1>2, <1>3, <1>5, <1>6 DEF all

LEMMA YieldInv == ASSUME Inv, ThreadYield PROVE Inv'
<1>1. PICK s : Lists(tcbs, readyQueue, s)
  BY DEF Inv, Listed
<1> DEFINE all == Append(s, currentID)
<1>2. /\ currentID' = Head(all) /\ currentID' \in Proc
      /\ tcbs' \in Blocks /\ readyQueue' \in ThreadQueue
      /\ Lists(tcbs', readyQueue', Tail(all))
      /\ tcbs'[currentID'].state = "RUN"
      /\ \A i \in Proc \ {currentID'} :
           tcbs'[i].state = IF i = currentID THEN "READY" ELSE tcbs[i].state
      /\ tcbs[currentID'].state # "DEAD"
  BY <1>1, YieldList
<1> HIDE DEF all
<1>3. containers' = containers /\ tcbs[currentID].state = "RUN"
  BY DEF ThreadYield, Inv
<1>4. StartedIffUsed'
  BY <1>2, <1>3 DEF Inv, StartedIffUsed
<1>5. Listed'
  BY <1>2 DEF Listed
<1> QED
  BY <1>2, <1>3, <1>4, <1>5 DEF Inv, TypeInv

\* The inductive invariant holds in every reachable state.
THEOREM InvHolds == Spec => []Inv
<1>1. Inv /\ [Next]_vars => Inv'
  <2> SUFFICES ASSUME Inv, [Next]_vars PROVE Inv'
    OBVIOUS
  <2>1. ASSUME NEW quota \in Quotas, CreateProcess(quota) PROVE Inv'
    BY <2>1, CreateProcessInv
  <2>2. ASSUME NEW pid \in Proc, ForceRunProcess(pid) PROVE Inv'
    BY <2>2, ForceRunInv
  <2>3. CASE ThreadYield
    BY <2>3, YieldInv
  <2>4. CASE UNCHANGED vars
    BY <2>4 DEF vars, Inv, TypeInv, Listed, StartedIffUsed
  <2> QED
    BY <2>1, <2>2, <2>3, <2>4 DEF Next
<1> QED
  BY <1>1, InitInv, PTL DEF Spec

\* In any order of spawns, yields and forced runs, of any number of threads, the
\* prev and next links, the states and the ends of the queue agree.
THEOREM LinksConsistentSafe == Spec => []LinksConsistent
<1>1. Inv => LinksConsistent
  BY ListIsLinked DEF Inv, TypeInv, Listed, LinksConsistent
<1> QED
  BY <1>1, InvHolds, PTL

-----------------------------------------------------------------------------
(***************************************************************************)
(* The queue is the list: it holds the ready threads, and each operation   *)
(* on the links is that of ReadyQueue on the sequence.                     *)
(***************************************************************************)
\* QueueIsList in the state after a step.
LEMMA NextQueueIsList == \A s : Lists(tcbs', readyQueue', s) => Queue' = s
<1>1. (\A s : Lists(tcbs, readyQueue, s) => Queue = s)'
  BY QueueIsList, PTL
<1> QED
  BY <1>1

\* A walk along the links, in any order of spawns, yields and forced runs, meets
\* each ready thread exactly once and no other, the current thread least of all.
THEOREM QueueHoldsReadySafe == Spec => []QueueHoldsReady
<1>1. Inv => QueueHoldsReady
  <2> SUFFICES ASSUME Inv PROVE QueueHoldsReady
    OBVIOUS
  <2>1. PICK s : Lists(tcbs, readyQueue, s)
    BY DEF Inv, Listed
  <2>2. Queue = s /\ s \in Seq(Proc)
    BY <2>1, QueueIsList, ListFacts
  <2>3. Len(s) = Cardinality(Ready) /\ Ready = {s[k] : k \in 1 .. Len(s)}
    BY <2>1, ListFits DEF Ready
  <2>4. currentID \notin Ready
    BY DEF Inv, Ready, ReadyIn
  <2>5. DOMAIN s = 1 .. Len(s)
    BY <2>2
  <2> QED
    BY <2>2, <2>3, <2>4, <2>5 DEF QueueHoldsReady
<1> QED
  BY <1>1, InvHolds, PTL

Started == {id \in Proc : tcbs[id].state # "DEAD"}

\* The boot state is that of an empty queue.
LEMMA InitRefines == Init => AbstractQueue!Init
<1> SUFFICES ASSUME Init PROVE AbstractQueue!Init
  OBVIOUS
<1>1. Queue = <<>>
  BY InitList, QueueIsList
<1>2. currentID = 0 /\ Started = {0}
  BY ProcFacts DEF Init, ThreadInit, Started
<1> QED
  BY <1>1, <1>2 DEF AbstractQueue!Init, Started

\* CreateProcess is Spawn.
LEMMA CreateProcessRefines ==
  ASSUME Inv, NEW quota \in Quotas, CreateProcess(quota)
  PROVE  \E id \in Proc : AbstractQueue!Spawn(id)
<1>1. PICK s : Lists(tcbs, readyQueue, s)
  BY DEF Inv, Listed
<1>2. PICK id \in Proc :
      /\ tcbs[id].state = "DEAD"
      /\ tcbs' \in Blocks /\ readyQueue' \in ThreadQueue
      /\ Lists(tcbs', readyQueue', Append(s, id))
      /\ tcbs'[id].state = "READY"
      /\ \A i \in Proc \ {id} : tcbs'[i].state = tcbs[i].state
  <2> DEFINE c == ChildID(containers, currentID)
  <2>1. /\ c \in Proc /\ tcbs[c].state = "DEAD"
        /\ tcbs' \in Blocks /\ readyQueue' \in ThreadQueue
        /\ Lists(tcbs', readyQueue', Append(s, c))
        /\ tcbs'[c].state = "READY"
        /\ \A i \in Proc \ {c} : tcbs'[i].state = tcbs[i].state
    BY <1>1, CreateProcessList
  <2> HIDE DEF c
  <2> QED
    BY <2>1
<1>3. Queue = s /\ Queue' = Append(s, id)
  BY <1>1, <1>2, QueueIsList, NextQueueIsList
<1>4. id \notin Started /\ Started' = Started \cup {id}
  BY <1>2 DEF Started
<1>5. currentID' = currentID
  BY DEF CreateProcess, ThreadSpawn
<1>6. AbstractQueue!Spawn(id)
  BY <1>3, <1>4, <1>5 DEF AbstractQueue!Spawn, Started
<1> QED
  BY <1>6

\* ForceRunProcess is ForceRun.
LEMMA ForceRunRefines ==
  ASSUME Inv, NEW pid \in Proc, ForceRunProcess(pid)
  PROVE  AbstractQueue!ForceRun(pid)
<1>1. PICK s : Lists(tcbs, readyQueue, s)
  BY DEF Inv, Listed
<1>2. PICK n \in 1 .. Len(s) :
        /\ s[n] = pid
        /\ tcbs' \in Blocks /\ readyQueue' \in ThreadQueue
        /\ Lists(tcbs', readyQueue', Without(s, n))
        /\ tcbs'[pid].state = "RUN"
        /\ \A i \in Proc \ {pid} : tcbs'[i].state = tcbs[i].state
  BY <1>1, ForceRunList
<1>3. Queue = s /\ Queue' = Without(s, n) /\ s \in Seq(Proc)
  BY <1>1, <1>2, QueueIsList, NextQueueIsList, ListFacts
<1>4. currentID' = pid /\ tcbs[pid].state = "READY"
  BY DEF ForceRunProcess
<1>5. Started' = Started
  BY <1>2, <1>4 DEF Started
<1>6. n \in DOMAIN Queue /\ Queue[n] = pid
  BY <1>2, <1>3
<1>7. Queue' = AbstractQueue!RemoveAt(Queue, n)
  BY <1>3 DEF Without, AbstractQueue!RemoveAt
<1> QED
  BY <1>4, <1>5, <1>6, <1>7 DEF AbstractQueue!ForceRun, Started

\* ThreadYield is Yield.
LEMMA YieldRefines == ASSUME Inv, ThreadYield PROVE AbstractQueue!Yield
<1>1. PICK s : Lists(tcbs, readyQueue, s)
  BY DEF Inv, Listed
<1> DEFINE all == Append(s, currentID)
<1>2. /\ currentID' = Head(all) /\ currentID' \in Proc
      /\ tcbs' \in Blocks /\ readyQueue' \in ThreadQueue
      /\ Lists(tcbs', readyQueue', Tail(all))
      /\ tcbs'[currentID'].state = "RUN"
      /\ \A i \in Proc \ {currentID'} :
           tcbs'[i].state = IF i = currentID THEN "READY" ELSE tcbs[i].state
      /\ tcbs[currentID'].state # "DEAD"
  BY <1>1, YieldList
<1> HIDE DEF all
<1>3. Queue = s /\ Queue' = Tail(all)
  BY <1>1, <1>2, QueueIsList, NextQueueIsList
<1>4. tcbs[currentID].state = "RUN"
  BY DEF Inv
<1>5. Started' = Started
  BY <1>2, <1>4 DEF Started
<1> QED
  BY <1>2, <1>3, <1>5 DEF AbstractQueue!Yield, Started, all

\* The doubly linked list implements ReadyQueue: spawning is appending, yielding
\* is rotating, and forcing a thread to run is taking it out where it stands.
THEOREM QueueRefined == Spec => ImplementsReadyQueue
<1>1. Inv /\ [Next]_vars => [AbstractQueue!Next]_(AbstractQueue!vars)
  <2> SUFFICES ASSUME Inv, [Next]_vars
               PROVE  [AbstractQueue!Next]_(AbstractQueue!vars)
    OBVIOUS
  <2>1. ASSUME NEW quota \in Quotas, CreateProcess(quota)
        PROVE  AbstractQueue!Next
    BY <2>1, CreateProcessRefines DEF AbstractQueue!Next
  <2>2. ASSUME NEW pid \in Proc, ForceRunProcess(pid) PROVE AbstractQueue!Next
    BY <2>2, ForceRunRefines DEF AbstractQueue!Next
  <2>3. CASE ThreadYield
    BY <2>3, YieldRefines DEF AbstractQueue!Next
  <2>4. CASE UNCHANGED vars
    <3>1. UNCHANGED <<tcbs, readyQueue, currentID>>
      BY <2>4 DEF vars
    <3>2. PICK s : Lists(tcbs, readyQueue, s)
      BY DEF Inv, Listed
    <3>3. Queue' = Queue
      BY <3>1, <3>2, QueueIsList, NextQueueIsList
    <3> QED
      BY <3>1, <3>3 DEF AbstractQueue!vars
  <2> QED
    BY <2>1, <2>2, <2>3, <2>4 DEF Next
<1> QED
  BY <1>1, InitRefines, InvHolds, PTL
     DEF Spec, ImplementsReadyQueue, AbstractQueue!Spec

\* ThreadSpawn never writes the block of a thread that is current or queued.
THEOREM SpawnIsFreshSafe == Spec => []SpawnIsFresh
<1>1. Inv => SpawnIsFresh
  <2> SUFFICES ASSUME Inv, NEW parent \in Proc, containers[parent].used,
                      ChildrenLeft(containers, parent),
                      ChildInArray(containers, parent)
               PROVE  tcbs[ChildID(containers, parent)].state = "DEAD"
    BY DEF SpawnIsFresh
  <2>1. ~containers[ChildID(containers, parent)].used
    BY NextChildFresh DEF Inv, TypeInv
  <2> QED
    BY <2>1 DEF Inv, StartedIffUsed, ChildInArray
<1> QED
  BY <1>1, InvHolds, PTL

-----------------------------------------------------------------------------
(***************************************************************************)
(* The saved contexts.  Without ThreadYield every switch goes from the     *)
(* current thread to a ready one, whose context is its own.                *)
(***************************************************************************)
ContextsIntact == /\ cpu = currentID
                  /\ \A id \in Ready : kernelContexts[id] = id

ContextInv == /\ kernelContexts \in [Proc -> Proc \cup {Nobody}]
              /\ cpu \in Proc \cup {Nobody}
              /\ yielded \/ ContextsIntact

LEMMA SpawnKeepsContexts ==
  ASSUME Inv, ContextInv, NEW quota \in Quotas, CreateProcess(quota)
  PROVE  ContextInv'
<1> DEFINE id == ChildID(containers, currentID)
<1>1. kernelContexts \in [Proc -> Proc \cup {Nobody}]
  BY DEF ContextInv
<1>2. /\ kernelContexts' = [kernelContexts EXCEPT ![id] = id]
      /\ cpu' = cpu /\ currentID' = currentID /\ yielded' = yielded
  BY DEF CreateProcess, ThreadSpawn
<1>3. PICK s : Lists(tcbs, readyQueue, s)
  BY DEF Inv, Listed
<1>4. /\ id \in Proc /\ tcbs[id].state = "DEAD"
      /\ tcbs' \in Blocks /\ readyQueue' \in ThreadQueue
      /\ Lists(tcbs', readyQueue', Append(s, id))
      /\ tcbs'[id].state = "READY"
      /\ \A i \in Proc \ {id} : tcbs'[i].state = tcbs[i].state
  BY <1>3, CreateProcessList
<1> HIDE DEF id
<1>5. /\ kernelContexts' \in [Proc -> Proc \cup {Nobody}]
      /\ cpu' \in Proc \cup {Nobody}
  BY <1>1, <1>2, <1>4 DEF ContextInv
<1>6. ASSUME ~yielded, NEW i \in Ready' PROVE kernelContexts'[i] = i
  <2>1. i \in Proc /\ (i = id \/ i \in Ready)
    BY <1>4, <1>6 DEF Ready, ReadyIn
  <2>2. \A k \in Ready : kernelContexts[k] = k
    BY <1>6 DEF ContextInv, ContextsIntact
  <2> QED
    BY <2>1, <2>2, <1>1, <1>2, <1>4
<1>7. ~yielded => cpu' = currentID'
  BY <1>2 DEF ContextInv, ContextsIntact
<1> QED
  BY <1>2, <1>5, <1>6, <1>7 DEF ContextInv, ContextsIntact

LEMMA ForceRunKeepsContexts ==
  ASSUME Inv, ContextInv, NEW pid \in Proc, ForceRunProcess(pid)
  PROVE  ContextInv'
<1>1. /\ currentID \in Proc /\ tcbs[currentID].state = "RUN"
      /\ kernelContexts \in [Proc -> Proc \cup {Nobody}]
      /\ cpu \in Proc \cup {Nobody}
  BY DEF Inv, TypeInv, ContextInv
<1>2. /\ tcbs[pid].state = "READY"
      /\ currentID' = pid /\ yielded' = yielded
      /\ kernelContexts' = [kernelContexts EXCEPT ![currentID] = cpu]
      /\ cpu' = kernelContexts'[pid]
  BY DEF ForceRunProcess, ContextSwitch
<1>3. PICK s : Lists(tcbs, readyQueue, s)
  BY DEF Inv, Listed
<1>4. /\ tcbs'[pid].state = "RUN"
      /\ \A i \in Proc \ {pid} : tcbs'[i].state = tcbs[i].state
  BY <1>3, ForceRunList
<1>5. /\ kernelContexts' \in [Proc -> Proc \cup {Nobody}]
      /\ cpu' \in Proc \cup {Nobody}
  BY <1>1, <1>2
<1>6. ASSUME ~yielded
      PROVE  \A k \in Ready : kernelContexts[k] = k
  BY <1>6 DEF ContextInv, ContextsIntact
<1>7. ASSUME ~yielded PROVE cpu' = currentID'
  <2>1. pid # currentID /\ kernelContexts[pid] = pid
    BY <1>1, <1>2, <1>6, <1>7 DEF Ready, ReadyIn
  <2> QED
    BY <2>1, <1>1, <1>2
<1>8. ASSUME ~yielded, NEW i \in Ready' PROVE kernelContexts'[i] = i
  <2>1. i \in Proc /\ tcbs'[i].state = "READY"
    BY <1>2, <1>8 DEF Ready, ReadyIn
  <2>2. i \in Ready /\ i # currentID
    BY <2>1, <1>1, <1>4 DEF Ready, ReadyIn
  <2> QED
    BY <2>1, <2>2, <1>1, <1>2, <1>6, <1>8
<1> QED
  BY <1>2, <1>5, <1>7, <1>8 DEF ContextInv, ContextsIntact

LEMMA ContextInvHolds == Spec => []ContextInv
<1>1. Init => ContextInv
  BY ProcFacts
     DEF Init, ThreadInit, ContextInv, ContextsIntact, Ready, ReadyIn, Nobody
<1>2. Inv /\ ContextInv /\ [Next]_vars => ContextInv'
  <2> SUFFICES ASSUME Inv, ContextInv, [Next]_vars PROVE ContextInv'
    OBVIOUS
  <2>1. ASSUME NEW quota \in Quotas, CreateProcess(quota) PROVE ContextInv'
    BY <2>1, SpawnKeepsContexts
  <2>2. ASSUME NEW pid \in Proc, ForceRunProcess(pid) PROVE ContextInv'
    BY <2>2, ForceRunKeepsContexts
  <2>3. CASE ThreadYield
    <3>1. currentID' \in Proc
      BY <2>3, YieldInv DEF Inv, TypeInv
    <3>2. /\ yielded'
          /\ \/ UNCHANGED <<kernelContexts, cpu>>
             \/ /\ kernelContexts' = [kernelContexts EXCEPT ![currentID'] = cpu]
                /\ cpu' = kernelContexts'[currentID']
      BY <2>3 DEF ThreadYield, ContextSwitch
    <3> QED
      BY <3>1, <3>2 DEF ContextInv
  <2>4. CASE UNCHANGED vars
    BY <2>4 DEF vars, ContextInv, ContextsIntact, Ready, ReadyIn
  <2> QED
    BY <2>1, <2>2, <2>3, <2>4 DEF Next
<1> QED
  BY <1>1, <1>2, InvHolds, PTL DEF Spec

\* The blocks, the queue and the contexts keep their types: every link and every
\* saved context is that of a thread, or none.
THEOREM TypeCorrect == Spec => []TypeOK
<1>1. Init => yielded \in BOOLEAN
  BY DEF Init, ThreadInit
<1>2. yielded \in BOOLEAN /\ [Next]_vars => (yielded \in BOOLEAN)'
  BY DEF Next, CreateProcess, ThreadSpawn, ForceRunProcess, ThreadYield, vars
<1>3. Spec => [](yielded \in BOOLEAN)
  BY <1>1, <1>2, PTL DEF Spec
<1>4. Inv /\ ContextInv /\ yielded \in BOOLEAN => TypeOK
  BY DEF Inv, TypeInv, ContextInv, TypeOK, Blocks
<1> QED
  BY <1>3, <1>4, InvHolds, ContextInvHolds, PTL

\* As long as nothing calls ThreadYield the processor executes the thread
\* currentID names.
THEOREM CpuRunsCurrentSafe == Spec => []CpuRunsCurrentAsBuilt
<1>1. ContextInv => CpuRunsCurrentAsBuilt
  BY DEF ContextInv, ContextsIntact, CpuRunsCurrentAsBuilt, CpuRunsCurrent
<1> QED
  BY <1>1, ContextInvHolds, PTL

\* As long as nothing calls ThreadYield every ready thread finds its own context.
THEOREM ReadyContextSafe == Spec => []ReadyContextIntact
<1>1. ContextInv => ReadyContextIntact
  BY DEF ContextInv, ContextsIntact, ReadyContextIntact
<1> QED
  BY <1>1, ContextInvHolds, PTL
=============================================================================
