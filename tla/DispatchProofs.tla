--------------------------- MODULE DispatchProofs ---------------------------
(***************************************************************************)
(* Theorems about Dispatch, whatever the index of the process is.          *)
(***************************************************************************)
EXTENDS Dispatch, TLAPS

USE DEF Nothing, Tss0, IRQ_TIMER, IRQ_KBD, IRQ_SERIAL13, IRQ_SPURIOUS, T_DIVIDE,
        T_PGFLT, T_SECEV, T_IRQ0, IRQ_IDE2, T_SYSCALL, Enabled
-----------------------------------------------------------------------------
(***************************************************************************)
(* The inductive invariant.                                                *)
(***************************************************************************)
\* The place of the interrupted program while a handler runs.
Place == IF at \in HandlerPlaces THEN tf.from ELSE at

Assigned == {"assigned", "entered", "switched", "ready", "user"}
Switched == {"switched", "ready", "user"}
Monitoring == {"monitor", "created"} \cup Assigned

\* A frame is on the stack exactly while a handler runs, and it came from a
\* place where interrupts were enabled.
FrameInv == at \in HandlerPlaces => tf.from \in KernelPlaces \cup {"user"}

\* What the steps up to Place have loaded.  A handler changes cr3, so what the
\* interrupted program finds in it is stated for the places outside.
LoadedInv ==
  /\ Place \in Monitoring \cup {"filled", "loaded"} => dirsBuilt
  /\ Place \in Monitoring \cup {"loaded"} => cr3 \in Proc
  /\ Place \in Monitoring => paging
  /\ Place \in Assigned => currentID = Pid
  /\ Place \in Switched => tss = Pid
  /\ at \in {"ready", "user"} => cr3 = currentID
  /\ paging => dirsBuilt /\ cr3 \in Proc

\* The frame read by InterruptHandler is the frame of the trap it handles.
SavedInv == at = "kernelSpace" => userContexts[currentID] = tf

\* NothingLeftInService, and after the handler's body the same as outside.
ServiceInv ==
  /\ NothingLeftInService
  /\ at = "handled" => isr = {}

IInv == TypeOK /\ FrameInv /\ LoadedInv /\ SavedInv /\ HandlersRunInKernelSpace
        /\ ServiceInv
-----------------------------------------------------------------------------
\* Min of a nonempty set of enabled lines is one of them: the controller offers
\* the processor a line that is requested.
LEMMA MinLine ==
  ASSUME NEW S \in SUBSET Enabled, S # {}
  PROVE  Min(S) \in S
<1>1. \A y \in S : y \in {0, 1, 4}
  OBVIOUS
<1>2. \E x \in S : \A y \in S : x =< y
  <2>1. CASE 0 \in S
    <3>1. \A y \in S : 0 =< y
      BY <1>1
    <3> QED
      BY <2>1, <3>1
  <2>2. CASE 0 \notin S /\ 1 \in S
    <3>1. \A y \in S : 1 =< y
      BY <1>1, <2>2
    <3> QED
      BY <2>2, <3>1
  <2>3. CASE 0 \notin S /\ 1 \notin S
    <3>1. \A y \in S : y = 4
      BY <1>1, <2>3
    <3>2. 4 \in S
      BY <3>1
    <3> QED
      BY <3>1, <3>2
  <2> QED
    BY <2>1, <2>2, <2>3
<1> QED
  BY <1>2 DEF Min

\* The end of interrupt takes the only line in service out of it.
LEMMA EoiOfOne ==
  ASSUME NEW i \in Enabled, NEW S \in SUBSET {i}
  PROVE  pic_eoi(S) = {}
<1>1. CASE S = {}
  BY <1>1 DEF pic_eoi
<1>2. CASE S = {i}
  <2>1. Min(S) \in S
    BY <1>2, MinLine
  <2> QED
    BY <1>2, <2>1 DEF pic_eoi
<1> QED
  BY <1>1, <1>2

LEMMA InitInv == Init => IInv
<1> SUFFICES ASSUME Init PROVE IInv
  OBVIOUS
<1> USE DispatchAssumption DEF Init, KernelPlaces, HandlerPlaces
<1>1. NoFrame \in Frames
  BY DEF NoFrame, Frames
<1>2. TypeOK
  BY <1>1 DEF TypeOK, Proc
<1>3. FrameInv /\ SavedInv /\ HandlersRunInKernelSpace /\ ServiceInv
  BY DEF FrameInv, SavedInv, HandlersRunInKernelSpace, ServiceInv,
         NothingLeftInService, Interruptible
<1>4. LoadedInv
  BY DEF LoadedInv, Place, Monitoring, Assigned, Switched
<1> QED
  BY <1>2, <1>3, <1>4 DEF IInv
-----------------------------------------------------------------------------
(***************************************************************************)
(* One lemma per group of actions.                                         *)
(***************************************************************************)
\* What a trap from a place with interrupts enabled keeps, given what it does to
\* the interrupts in service.
LEMMA TrapInv ==
  ASSUME IInv, Interruptible, NEW vector \in Int, Trap(vector),
         irr' \subseteq Lines, isr' \subseteq Enabled,
         isr' \subseteq {vector - T_IRQ0}
  PROVE  IInv'
<1> USE DEF KernelPlaces, HandlerPlaces
<1>1. /\ at \in KernelPlaces \cup {"user"} /\ at \notin HandlerPlaces
      /\ tf' = [vector |-> vector, from |-> at]
      /\ at' = "pushed"
      /\ UNCHANGED <<currentID, userContexts, cr3, dirsBuilt, paging, tss>>
  BY DEF Interruptible, Trap
<1>2. TypeOK'
  BY <1>1 DEF IInv, TypeOK, Frames
<1>3. FrameInv' /\ Place' = Place
  BY <1>1 DEF FrameInv, Place
<1>4. LoadedInv'
  BY <1>1, <1>3 DEF IInv, LoadedInv, Monitoring, Assigned, Switched
<1>5. SavedInv' /\ HandlersRunInKernelSpace'
  BY <1>1 DEF SavedInv, HandlersRunInKernelSpace
<1>6. ServiceInv'
  BY <1>1 DEF ServiceInv, NothingLeftInService, Interruptible
<1> QED
  BY <1>2, <1>3, <1>4, <1>5, <1>6 DEF IInv

LEMMA TrapsInv ==
  ASSUME IInv,
         TakeIrq \/ TakeSpurious \/ \E vector \in UserTraps : UserTrap(vector)
  PROVE  IInv'
<1>1. isr \subseteq Enabled /\ irr \subseteq Lines
  BY DEF IInv, TypeOK
<1>2. Interruptible => isr = {}
  BY DEF IInv, ServiceInv, NothingLeftInService
<1>3. CASE TakeIrq
  <2>1. Deliverable \in SUBSET Enabled /\ Deliverable # {} /\ Interruptible
    BY <1>3 DEF TakeIrq, Deliverable
  <2>2. Min(Deliverable) \in Enabled
    BY <2>1, MinLine
  <2>3. /\ irr' = irr \ {Min(Deliverable)} /\ isr' = isr \cup {Min(Deliverable)}
        /\ Trap(T_IRQ0 + Min(Deliverable))
    BY <1>3 DEF TakeIrq
  <2> DEFINE line == Min(Deliverable)
  <2> HIDE DEF line
  <2>4. /\ line \in Enabled /\ irr' = irr \ {line} /\ isr' = isr \cup {line}
        /\ Trap(T_IRQ0 + line)
    BY <2>2, <2>3 DEF line
  <2>5. /\ T_IRQ0 + line \in Int /\ irr' \subseteq Lines
        /\ isr' \subseteq Enabled /\ isr' \subseteq {T_IRQ0 + line - T_IRQ0}
    BY <1>1, <1>2, <2>1, <2>4
  <2> QED
    BY <2>1, <2>4, <2>5, TrapInv
<1>4. CASE TakeSpurious
  <2>1. /\ Interruptible /\ Trap(T_IRQ0 + IRQ_SPURIOUS)
        /\ irr' = irr /\ isr' = isr
    BY <1>4 DEF TakeSpurious
  <2> QED
    BY <1>1, <1>2, <2>1, TrapInv
<1>5. CASE \E vector \in UserTraps : UserTrap(vector)
  <2>1. PICK vector \in UserTraps : UserTrap(vector)
    BY <1>5
  <2>2. /\ Interruptible /\ Trap(vector) /\ irr' = irr /\ isr' = isr
        /\ vector \in Int
    BY <2>1 DEF UserTrap, Interruptible, UserTraps
  <2> QED
    BY <1>1, <1>2, <2>2, TrapInv
<1> QED
  BY <1>3, <1>4, <1>5

LEMMA HandlerInv == ASSUME IInv, Handler PROVE IInv'
<1> USE DispatchAssumption DEF KernelPlaces, HandlerPlaces
<1>1. TypeOK /\ FrameInv /\ LoadedInv /\ SavedInv /\ HandlersRunInKernelSpace
      /\ ServiceInv
  BY DEF IInv
<1>2. CASE HandleTrap
  <2>1. /\ at = "pushed" /\ at' = "kernelSpace" /\ cr3' = 0
        /\ userContexts' = [userContexts EXCEPT ![currentID] = tf]
        /\ UNCHANGED <<tf, currentID, dirsBuilt, paging, tss, irr, isr>>
    BY <1>2 DEF HandleTrap
  <2>2. TypeOK'
    BY <1>1, <2>1 DEF TypeOK, Proc
  <2>3. FrameInv' /\ Place' = Place
    BY <1>1, <2>1 DEF FrameInv, Place
  <2>4. LoadedInv'
    BY <1>1, <2>1, <2>3 DEF LoadedInv, Proc
  <2>5. SavedInv' /\ HandlersRunInKernelSpace'
    BY <1>1, <2>1 DEF SavedInv, HandlersRunInKernelSpace, TypeOK
  <2>6. ServiceInv'
    BY <1>1, <2>1 DEF ServiceInv, NothingLeftInService, Interruptible
  <2> QED
    BY <2>2, <2>3, <2>4, <2>5, <2>6 DEF IInv
<1>3. CASE Handle
  <2>1. /\ at = "kernelSpace" /\ at' \in {"handled", "halted"}
        /\ UNCHANGED <<tf, currentID, userContexts, cr3, dirsBuilt, paging, tss, irr>>
    BY <1>3 DEF Handle, ExceptionHandler, InterruptHandler, SyscallDispatch
  <2>2. isr' = {}
    <3>1. isr \subseteq Enabled /\ isr \subseteq {tf.vector - T_IRQ0}
          /\ tf.vector \in Int
      BY <1>1, <2>1 DEF TypeOK, Frames, ServiceInv, NothingLeftInService
    <3>2. CASE ExceptionHandler
      BY <3>1, <3>2 DEF ExceptionHandler
    <3>3. CASE SyscallDispatch
      BY <3>1, <3>3 DEF SyscallDispatch
    <3>4. CASE InterruptHandler
      <4>1. userContexts[currentID].vector = tf.vector
        BY <1>1, <2>1 DEF SavedInv
      <4>2. CASE isr = {}
        BY <3>4, <4>2 DEF InterruptHandler, pic_eoi
      <4>3. CASE isr # {}
        <5>1. PICK i \in Enabled : isr = {i} /\ i = tf.vector - T_IRQ0
          BY <3>1, <4>3
        <5>2. pic_eoi(isr) = {}
          BY <5>1, EoiOfOne
        <5>3. userContexts[currentID].vector # T_IRQ0 + IRQ_SPURIOUS
          BY <4>1, <5>1, <3>1
        <5> QED
          BY <3>4, <5>2, <5>3 DEF InterruptHandler
      <4> QED
        BY <4>2, <4>3
    <3> QED
      BY <1>3, <3>2, <3>3, <3>4 DEF Handle
  <2>3. TypeOK'
    BY <1>1, <2>1, <2>2 DEF TypeOK
  <2>4. FrameInv' /\ (at' = "handled" => Place' = Place)
    BY <1>1, <2>1 DEF FrameInv, Place
  <2>5. LoadedInv'
    <3>1. paging' => dirsBuilt' /\ cr3' \in Proc
      BY <1>1, <2>1 DEF LoadedInv
    <3>2. CASE at' = "handled"
      BY <1>1, <2>1, <2>4, <3>1, <3>2 DEF LoadedInv
    <3>3. CASE at' = "halted"
      BY <2>1, <3>1, <3>3 DEF LoadedInv, Place, Monitoring, Assigned, Switched
    <3> QED
      BY <2>1, <3>2, <3>3
  <2>6. SavedInv' /\ HandlersRunInKernelSpace' /\ ServiceInv'
    BY <1>1, <2>1, <2>2 DEF SavedInv, HandlersRunInKernelSpace, ServiceInv,
                            NothingLeftInService
  <2> QED
    BY <2>3, <2>4, <2>5, <2>6 DEF IInv
<1>4. CASE Return
  <2>1. /\ at = "handled" /\ cr3' = currentID /\ at' = tf.from /\ tf' = NoFrame
        /\ UNCHANGED <<currentID, userContexts, dirsBuilt, paging, tss, irr, isr>>
    BY <1>4 DEF Return
  <2>2. at' \in KernelPlaces \cup {"user"} /\ at' = Place /\ Place' = Place
        /\ at' \notin HandlerPlaces
    BY <1>1, <2>1 DEF FrameInv, Place
  <2>3. TypeOK'
    BY <1>1, <2>1, <2>2 DEF TypeOK, Frames, NoFrame
  <2>4. LoadedInv'
    BY <1>1, <2>1, <2>2 DEF LoadedInv, TypeOK, Monitoring, Assigned, Switched
  <2>5. FrameInv' /\ SavedInv' /\ HandlersRunInKernelSpace' /\ ServiceInv'
    BY <1>1, <2>1, <2>2 DEF FrameInv, SavedInv, HandlersRunInKernelSpace,
                            ServiceInv, NothingLeftInService
  <2> QED
    BY <2>3, <2>4, <2>5 DEF IInv
<1> QED
  BY <1>2, <1>3, <1>4 DEF Handler

\* A step of the kernel's thread leaves the controller and the frame alone; what
\* is left to show of it is its types and LoadedInv.
LEMMA GoesInv ==
  ASSUME IInv, NEW from \in KernelPlaces,
         NEW to \in KernelPlaces \cup {"user", "lost"},
         Goes(from, to), TypeOK', LoadedInv'
  PROVE  IInv'
<1>1. /\ at = from /\ at' = to /\ at \notin HandlerPlaces /\ at' \notin HandlerPlaces
      /\ tf' = tf /\ irr' = irr /\ isr' = isr
  BY DEF Goes, KernelPlaces, HandlerPlaces
<1>2. FrameInv' /\ SavedInv' /\ HandlersRunInKernelSpace'
  BY <1>1 DEF FrameInv, SavedInv, HandlersRunInKernelSpace, HandlerPlaces
<1>3. ServiceInv'
  BY <1>1 DEF IInv, ServiceInv, NothingLeftInService, Interruptible, HandlerPlaces
<1> QED
  BY <1>2, <1>3 DEF IInv

LEMMA KernelInv ==
  ASSUME IInv, Boot \/ CreateProcess \/ StartPath
  PROVE  IInv'
<1> USE DispatchAssumption
<1>1. TypeOK /\ LoadedInv
  BY DEF IInv
<1> USE DEF Goes, TypeOK, LoadedInv, Place, KernelPlaces, HandlerPlaces, Monitoring,
            Assigned, Switched, Proc
<1>2. CASE FillDirectories
  BY <1>1, <1>2, GoesInv DEF FillDirectories
<1>3. CASE LoadDirectory
  BY <1>1, <1>3, GoesInv DEF LoadDirectory
<1>4. CASE EnablePaging
  BY <1>1, <1>4, GoesInv DEF EnablePaging
<1>5. CASE CreateProcess
  <2>1. StartFrame \in Frames
    BY DEF StartFrame, Frames
  <2>2. userContexts' \in [Proc -> Frames]
    BY <1>1, <1>5, <2>1 DEF CreateProcess
  <2> QED
    BY <1>1, <1>5, <2>2, GoesInv DEF CreateProcess
<1>6. CASE ForceRunProcess
  BY <1>1, <1>6, GoesInv DEF ForceRunProcess
<1>7. CASE ContextSwitch
  BY <1>1, <1>7, GoesInv DEF ContextSwitch
<1>8. CASE SwitchTSS
  BY <1>1, <1>8, GoesInv DEF SwitchTSS
<1>9. CASE LoadUserDirectory
  BY <1>1, <1>9, GoesInv DEF LoadUserDirectory
<1>10. CASE StartUser
  <2>1. PICK to \in {"user", "lost"} :
          /\ Goes("ready", to)
          /\ UNCHANGED <<currentID, userContexts, cr3, dirsBuilt, paging, tss>>
    BY <1>10 DEF StartUser
  <2> QED
    BY <1>1, <2>1, GoesInv
<1> QED
  BY <1>2, <1>3, <1>4, <1>5, <1>6, <1>7, <1>8, <1>9, <1>10 DEF Boot, StartPath

\* A device only adds a request.
LEMMA RaiseInv ==
  ASSUME IInv, NEW irq \in Lines, Raise(irq)
  PROVE  IInv'
BY DEF Raise, IInv, TypeOK, FrameInv, LoadedInv, Place, SavedInv,
       HandlersRunInKernelSpace, ServiceInv, NothingLeftInService, Interruptible

LEMMA StutterInv == ASSUME IInv, UNCHANGED vars PROVE IInv'
BY DEF vars, IInv, TypeOK, FrameInv, LoadedInv, Place, SavedInv,
       HandlersRunInKernelSpace, ServiceInv, NothingLeftInService, Interruptible

\* The invariant holds in every reachable state.
THEOREM InvHolds == Spec => []IInv
<1>1. Init => IInv
  BY InitInv
<1>2. IInv /\ [Next]_vars => IInv'
  <2> SUFFICES ASSUME IInv, [Next]_vars PROVE IInv'
    OBVIOUS
  <2> QED
    BY TrapsInv, HandlerInv, KernelInv, RaiseInv, StutterInv DEF Next, Cpu
<1> QED
  BY <1>1, <1>2, PTL DEF Spec
-----------------------------------------------------------------------------
\* What the processor, the controller and the tables hold keeps its types: no
\* context or directory is loaded that belongs to no process.
THEOREM TypeCorrect == Spec => []TypeOK
<1>1. IInv => TypeOK
  BY DEF IInv
<1> QED
  BY <1>1, InvHolds, PTL

\* User code runs in the address space and on the kernel stack of the current
\* process: for any sequence of interrupts, system calls and faults.
THEOREM UserSpaceSafe == Spec => []UserRunsInItsSpace
<1>1. IInv => UserRunsInItsSpace
  BY DEF IInv, LoadedInv, UserRunsInItsSpace, Place, HandlerPlaces, Monitoring,
         Assigned, Switched
<1> QED
  BY <1>1, InvHolds, PTL

\* The handlers compute with physical addresses only in the address space that
\* maps them to themselves.
THEOREM KernelSpaceSafe == Spec => []HandlersRunInKernelSpace
<1>1. IInv => HandlersRunInKernelSpace
  BY DEF IInv
<1> QED
  BY <1>1, InvHolds, PTL

\* Addresses are never translated through a directory that is not filled, though
\* interrupts come before the directories exist.
THEOREM PagingSafe == Spec => []PagingHasDirectory
<1>1. IInv => PagingHasDirectory
  BY DEF IInv, LoadedInv, PagingHasDirectory
<1> QED
  BY <1>1, InvHolds, PTL

\* No interrupt stays in service after its handler: the controller never shuts a
\* line out for good.
THEOREM ServiceSafe == Spec => []NothingLeftInService
<1>1. IInv => NothingLeftInService
  BY DEF IInv, ServiceInv
<1> QED
  BY <1>1, InvHolds, PTL
=============================================================================
