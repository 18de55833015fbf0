------------------------------ MODULE Threads ------------------------------
(***************************************************************************)
(* thread.c: the thread control blocks, the ready queue threaded through   *)
(* them, the current thread and the saved kernel contexts, with the        *)
(* container tree that numbers the threads.                                *)
(*                                                                         *)
(* Only threadQueues[MAX_PROCS], the ready queue, is ever used.            *)
(*                                                                         *)
(* A kernel context is modelled by the thread whose execution resumes when *)
(* it is loaded, and cpu is the thread whose execution the processor       *)
(* carries on, whatever currentID says.  The model adds yielded, which     *)
(* tells whether ThreadYield was ever called: nothing in the kernel as it  *)
(* is built calls it.                                                      *)
(***************************************************************************)
EXTENDS Containers, Sequences, FiniteSets

CONSTANTS UserPages,   \* the root's quota
          Quotas       \* the quotas CreateProcess is called with

ASSUME ThreadsAssumption == UserPages \in Nat /\ Quotas \subseteq Nat

VARIABLES tcbs,            \* tcbs[]: state, prev and next of every thread
          readyQueue,      \* threadQueues[MAX_PROCS]: head and tail
          currentID,
          kernelContexts,  \* kernelContexts[id]: the thread saved there
          cpu,             \* the thread the processor executes
          containers,      \* containers[] of mem_physical.c
          yielded
vars == <<tcbs, readyQueue, currentID, kernelContexts, cpu, containers, yielded>>

NULL == MAX_PROCS          \* the null index
Nobody == MAX_PROCS        \* a context that was never written

TCB == [state : {"READY", "RUN", "DEAD"}, prev : Proc \cup {NULL},
        next : Proc \cup {NULL}]
ThreadQueue == [head : Proc \cup {NULL}, tail : Proc \cup {NULL}]
-----------------------------------------------------------------------------
(***************************************************************************)
(* The queue operations: from the blocks t and the queue q to new ones.    *)
(***************************************************************************)
\* Mutant: the thread is put in front of the queue.
TQEnqueue_AtHead(t, q, id) ==
  IF q.head = NULL
  THEN [tcbs |-> [t EXCEPT ![id].next = NULL, ![id].prev = NULL],
        queue |-> [head |-> id, tail |-> id]]
  ELSE [tcbs |-> [t EXCEPT ![q.head].prev = id, ![id].next = q.head,
                           ![id].prev = NULL],
        queue |-> [q EXCEPT !.head = id]]

TQEnqueue(t, q, id) ==
  IF q.tail = NULL
  THEN [tcbs |-> [t EXCEPT ![id].next = NULL, ![id].prev = NULL],
        queue |-> [head |-> id, tail |-> id]]
  ELSE [tcbs |-> [t EXCEPT ![q.tail].next = id,
                           ![id].prev = q.tail, ![id].next = NULL],
        queue |-> [q EXCEPT !.tail = id]]

\* The head of the queue, NULL if it is empty, and what is left.
TQDequeue(t, q) ==
  LET head == q.head
      next == t[head].next
      cut  == [t EXCEPT ![head].next = NULL]
  IN IF head = NULL THEN [id |-> NULL, tcbs |-> t, queue |-> q]
     ELSE IF next = NULL
     THEN [id |-> head, tcbs |-> cut, queue |-> [head |-> NULL, tail |-> NULL]]
     ELSE [id |-> head, tcbs |-> [cut EXCEPT ![next].prev = NULL],
           queue |-> [q EXCEPT !.head = next]]

\* Mutant: removing the last thread does not move the tail.
TQRemove_KeepTail(t, q, id) ==
  LET prev == t[id].prev
      next == t[id].next
      cut  == [t EXCEPT ![id].prev = NULL, ![id].next = NULL]
      mid  == IF prev = NULL THEN cut ELSE [cut EXCEPT ![prev].next = next]
  IN [tcbs |-> IF next = NULL THEN mid ELSE [mid EXCEPT ![next].prev = prev],
      queue |-> [head |-> IF prev = NULL THEN next ELSE q.head,
                 tail |-> q.tail]]

TQRemove(t, q, id) ==
  LET prev == t[id].prev
      next == t[id].next
      cut  == [t EXCEPT ![id].prev = NULL, ![id].next = NULL]
      mid  == IF prev = NULL THEN cut ELSE [cut EXCEPT ![prev].next = next]
  IN [tcbs |-> IF next = NULL THEN mid ELSE [mid EXCEPT ![next].prev = prev],
      queue |-> [head |-> IF prev = NULL THEN next ELSE q.head,
                 tail |-> IF next = NULL THEN prev ELSE q.tail]]
-----------------------------------------------------------------------------
\* Once the processor has loaded a context that was never written no thread of
\* this kernel executes any more.
SomeoneRuns == cpu # Nobody

\* ContextSwitch(from, to): the running thread is saved in from, then whatever
\* to holds is loaded, to being from or not.
ContextSwitch(from, to) ==
  /\ kernelContexts' = [kernelContexts EXCEPT ![from] = cpu]
  /\ cpu' = kernelContexts'[to]

\* ThreadInit, after ContainerInit.
ThreadInit ==
  /\ tcbs = [id \in Proc |-> [state |-> IF id = 0 THEN "RUN" ELSE "DEAD",
                              prev |-> NULL, next |-> NULL]]
  /\ readyQueue = [head |-> NULL, tail |-> NULL]
  /\ currentID = 0
  /\ kernelContexts = [id \in Proc |-> Nobody]
  /\ cpu = 0
  /\ containers = ContainerInit(UserPages)
  /\ yielded = FALSE

\* Mutant: the new thread is marked ready but not put in the queue.
ThreadSpawn_Unqueued(parent, quota) ==
  LET id == ChildID(containers, parent)
  IN /\ containers' = ContainerSplit(containers, parent, quota)
     /\ kernelContexts' = [kernelContexts EXCEPT ![id] = id]
     /\ tcbs' = [tcbs EXCEPT ![id].state = "READY"]
     /\ UNCHANGED <<readyQueue, currentID, cpu, yielded>>

\* Mutant: the start context is written under the parent's index.
ThreadSpawn_ParentContext(parent, quota) ==
  LET id == ChildID(containers, parent)
      q  == TQEnqueue([tcbs EXCEPT ![id].state = "READY"], readyQueue, id)
  IN /\ containers' = ContainerSplit(containers, parent, quota)
     /\ kernelContexts' = [kernelContexts EXCEPT ![parent] = id]
     /\ tcbs' = q.tcbs
     /\ readyQueue' = q.queue
     /\ UNCHANGED <<currentID, cpu, yielded>>

\* The index comes from ContainerSplit; its saved context starts the new thread.
ThreadSpawn(parent, quota) ==
  LET id == ChildID(containers, parent)
      q  == TQEnqueue([tcbs EXCEPT ![id].state = "READY"], readyQueue, id)
  IN /\ containers' = ContainerSplit(containers, parent, quota)
     /\ kernelContexts' = [kernelContexts EXCEPT ![id] = id]
     /\ tcbs' = q.tcbs
     /\ readyQueue' = q.queue
     /\ UNCHANGED <<currentID, cpu, yielded>>

\* CreateProcess, its ELF image and its start frame left out: a child of the
\* current thread, within the limits ContainerSplit relies on.
CreateProcess(quota) ==
  /\ SomeoneRuns
  /\ QuotaAvailable(containers, currentID, quota)
  /\ ChildrenLeft(containers, currentID)
  /\ ChildInArray(containers, currentID)
  /\ ThreadSpawn(currentID, quota)

\* currentID is assigned before the switch, so the switch goes from nextID to
\* nextID.
ThreadYield ==
  LET q == TQEnqueue([tcbs EXCEPT ![currentID].state = "READY"], readyQueue,
                     currentID)
      d == TQDequeue(q.tcbs, q.queue)
  IN /\ SomeoneRuns
     /\ tcbs' = [d.tcbs EXCEPT ![d.id].state = "RUN"]
     /\ readyQueue' = d.queue
     /\ currentID' = d.id
     /\ IF d.id # currentID
        THEN ContextSwitch(d.id, d.id)
        ELSE UNCHANGED <<kernelContexts, cpu>>
     /\ yielded' = TRUE
     /\ UNCHANGED containers

\* Mutant: the switch saves the running thread under the new thread's index, the
\* order of ThreadYield.
ForceRunProcess_SwitchToSelf(pid) ==
  LET r == TQRemove(tcbs, readyQueue, pid)
  IN /\ SomeoneRuns
     /\ tcbs[pid].state = "READY"
     /\ tcbs' = [r.tcbs EXCEPT ![pid].state = "RUN"]
     /\ readyQueue' = r.queue
     /\ currentID' = pid
     /\ ContextSwitch(pid, pid)
     /\ UNCHANGED <<containers, yielded>>

\* The process to run is one that waits in the ready queue, as after
\* CreateProcess.  The thread that calls is not put back.
ForceRunProcess(pid) ==
  LET r == TQRemove(tcbs, readyQueue, pid)
  IN /\ SomeoneRuns
     /\ tcbs[pid].state = "READY"
     /\ tcbs' = [r.tcbs EXCEPT ![pid].state = "RUN"]
     /\ readyQueue' = r.queue
     /\ currentID' = pid
     /\ ContextSwitch(currentID, pid)
     /\ UNCHANGED <<containers, yielded>>

Init == ThreadInit

Next == \/ \E quota \in Quotas : CreateProcess(quota)
        \/ \E pid \in Proc : ForceRunProcess(pid)
        \/ ThreadYield

Spec == Init /\ [][Next]_vars
-----------------------------------------------------------------------------
(***************************************************************************)
(* Properties.                                                             *)
(***************************************************************************)
\* The state keeps its types.
TypeOK == /\ tcbs \in [Proc -> TCB]
          /\ readyQueue \in ThreadQueue
          /\ currentID \in Proc
          /\ kernelContexts \in [Proc -> Proc \cup {Nobody}]
          /\ cpu \in Proc \cup {Nobody}
          /\ containers \in [Proc -> Container]
          /\ yielded \in BOOLEAN

ReadyIn(t) == {id \in Proc : t[id].state = "READY"}
Ready == ReadyIn(tcbs)

Links(t, q) ==
  /\ q.head = NULL <=> q.tail = NULL
  /\ q.head # NULL => q.head \in ReadyIn(t)
  /\ q.tail # NULL => q.tail \in ReadyIn(t)
  /\ \A i \in ReadyIn(t) :
       /\ t[i].prev = NULL <=> q.head = i
       /\ t[i].next = NULL <=> q.tail = i
       /\ t[i].next # NULL => t[i].next \in ReadyIn(t) /\ t[t[i].next].prev = i
       /\ t[i].prev # NULL => t[i].prev \in ReadyIn(t) /\ t[t[i].prev].next = i
  /\ \A i \in Proc \ ReadyIn(t) : t[i].prev = NULL /\ t[i].next = NULL

\* Every pointer of the doubly linked list has its opposite, the ends of the
\* list are where the queue says, and only ready threads are linked: what
\* TQEnqueue, TQDequeue and TQRemove leave behind in any order of calls.
LinksConsistent == Links(tcbs, readyQueue)

\* The k-th thread of the list, following next from head.
Walk[k \in 1 .. MAX_PROCS + 1] ==
  IF k = 1 THEN readyQueue.head
  ELSE IF Walk[k - 1] = NULL THEN NULL ELSE tcbs[Walk[k - 1]].next

Queue == [k \in 1 .. Cardinality({k \in DOMAIN Walk : Walk[k] # NULL}) |-> Walk[k]]

\* A walk from the head meets every ready thread once and ends: no thread in
\* state READY is lost from the queue, and no thread that runs is in it.
QueueHoldsReady == /\ {Queue[k] : k \in DOMAIN Queue} = Ready
                   /\ Len(Queue) = Cardinality(Ready)
                   /\ currentID \notin Ready

\* ThreadSpawn takes its index from the container tree and writes that block
\* whatever it holds: the index is always that of a thread never started, which
\* is neither current nor linked in the queue.
SpawnIsFresh ==
  \A parent \in Proc :
    containers[parent].used /\ ChildrenLeft(containers, parent)
      /\ ChildInArray(containers, parent)
      => tcbs[ChildID(containers, parent)].state = "DEAD"

\* The linked list implements the queue of ReadyQueue.
AbstractQueue ==
  INSTANCE ReadyQueue WITH Thread <- Proc, ready <- Queue, current <- currentID,
                           alive <- {id \in Proc : tcbs[id].state # "DEAD"}
ImplementsReadyQueue == AbstractQueue!Spec

\* The processor executes the thread currentID names ("Yield to the next thread
\* in the ready queue"): after every switch the two agree.
CpuRunsCurrent == cpu = currentID

\* The kernel as it is built: as long as nothing has called ThreadYield the
\* processor executes the current thread.
CpuRunsCurrentAsBuilt == ~yielded => CpuRunsCurrent

\* A thread that waits in the ready queue finds its own context when it is
\* switched to, whatever was switched in the meantime, as long as nothing has
\* called ThreadYield.
ReadyContextIntact == ~yielded => \A id \in Ready : kernelContexts[id] = id
=============================================================================
