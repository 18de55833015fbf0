------------------------------ MODULE Dispatch ------------------------------
(***************************************************************************)
(* Interrupts from STI to the running user process: the interrupt          *)
(* controller, HandleTrap and its handlers (interrupt.c, trap_main.S,      *)
(* pic.c), and the way of the monitor's thread into the first process      *)
(* (kernel.c, monitor.c, thread.c).                                        *)
(*                                                                         *)
(* at is where the processor executes.  Outside a handler interrupts are   *)
(* enabled and one can come between any two steps; the gates and the cli   *)
(* of _alltraps keep them out of a handler, whose three steps can only be  *)
(* accompanied by requests raised at the controller.  tf is the frame the  *)
(* trap pushed: its vector and where it came from.                         *)
(***************************************************************************)
EXTENDS Integers, FiniteSets, FiniteSetsExt

CONSTANT Pid    \* the process CreateProcess makes: ChildID of the root

ASSUME DispatchAssumption == Pid \in Nat \ {0}

VARIABLES at,            \* where the processor executes
          tf,            \* the trap frame of the handler that runs
          currentID,
          userContexts,  \* the frames saved per process
          cr3,           \* the process whose page directory is loaded
          dirsBuilt,     \* pageDirEntries[] is filled
          paging,        \* CR0.PG
          tss,           \* the process whose TSS is loaded, Tss0 at first
          irr, isr       \* the 8259's requests and interrupts in service
vars == <<at, tf, currentID, userContexts, cr3, dirsBuilt, paging, tss, irr, isr>>

Proc == {0, Pid}
Nothing == -1
Tss0 == -1
-----------------------------------------------------------------------------
(***************************************************************************)
(* Vectors and places.                                                     *)
(***************************************************************************)
IRQ_TIMER == 0
IRQ_KBD == 1
IRQ_SERIAL24 == 3
IRQ_SERIAL13 == 4
IRQ_SPURIOUS == 7

T_DIVIDE == 0
T_PGFLT == 14
T_SECEV == 30
T_IRQ0 == 32
IRQ_IDE2 == 15
T_SYSCALL == 48

\* The lines InterruptInit enables; the others stay masked.
Enabled == {IRQ_TIMER, IRQ_KBD, IRQ_SERIAL13}

\* The lines devices raise here: the enabled ones and one that stays masked.
Lines == Enabled \cup {IRQ_SERIAL24}

\* What a user program can cause: a system call, a page fault and, for the
\* exceptions ExceptionHandler ignores, a division by zero.
UserTraps == {T_SYSCALL, T_PGFLT, T_DIVIDE}

\* InterruptInit has enabled interrupts ("boot"), VirtualMemoryInit has filled
\* the directories and loaded one, the monitor runs, it has created the process,
\* currentID is assigned, ProcessStartUser is entered, and its two calls are done.
KernelPlaces == {"boot", "filled", "loaded", "monitor", "created", "assigned",
                 "entered", "switched", "ready"}

HandlerPlaces == {"pushed", "kernelSpace", "handled"}

\* halted is the loop of DebugPanic.  lost is the processor after TrapReturn was
\* given a frame other than the one CreateProcess built: it goes on in kernel
\* mode on a stack in the middle of userContexts[], which is not modelled.
Interruptible == at \in KernelPlaces \cup {"user"}

Frames == [vector : Int, from : KernelPlaces \cup {"user", "entry", "none"}]
NoFrame == [vector |-> Nothing, from |-> "none"]
StartFrame == [vector |-> Nothing, from |-> "entry"]
-----------------------------------------------------------------------------
(***************************************************************************)
(* The interrupt controller, fully nested, edge triggered.                 *)
(***************************************************************************)
\* Mutant: every line is enabled.
Deliverable_Unmasked == {i \in irr : \A s \in isr : i < s}

\* The enabled requests of a higher priority than everything in service.
Deliverable == {i \in irr \cap Enabled : \A s \in isr : i < s}

\* A device raises its line; a request that waits already absorbs it.
Raise(irq) ==
  /\ irr' = irr \cup {irq}
  /\ UNCHANGED <<at, tf, currentID, userContexts, cr3, dirsBuilt, paging, tss, isr>>

\* The processor goes through the gate of a vector.
Trap(vector) ==
  /\ tf' = [vector |-> vector, from |-> at]
  /\ at' = "pushed"
  /\ UNCHANGED <<currentID, userContexts, cr3, dirsBuilt, paging, tss>>

\* The processor acknowledges the request of the highest priority.
TakeIrq ==
  /\ Interruptible /\ Deliverable # {}
  /\ Trap(T_IRQ0 + Min(Deliverable))
  /\ irr' = irr \ {Min(Deliverable)}
  /\ isr' = isr \cup {Min(Deliverable)}

\* A request went away before it was acknowledged: the controller answers with
\* the vector of line 7 and has nothing in service.
TakeSpurious ==
  /\ Interruptible /\ Deliverable = {}
  /\ Trap(T_IRQ0 + IRQ_SPURIOUS)
  /\ UNCHANGED <<irr, isr>>

\* The non-specific end of interrupt: the line of the highest priority leaves.
pic_eoi(inService) == IF inService = {} THEN {} ELSE inService \ {Min(inService)}
-----------------------------------------------------------------------------
(***************************************************************************)
(* HandleTrap.                                                             *)
(***************************************************************************)
\* Mutant: the kernel keeps the page directory of the process.
HandleTrap_KeepDirectory ==
  /\ at = "pushed"
  /\ at' = "kernelSpace"
  /\ userContexts' = [userContexts EXCEPT ![currentID] = tf]
  /\ UNCHANGED <<tf, currentID, cr3, dirsBuilt, paging, tss, irr, isr>>

\* Up to the choice of the handler.
HandleTrap ==
  /\ at = "pushed"
  /\ at' = "kernelSpace"
  /\ userContexts' = [userContexts EXCEPT ![currentID] = tf]
  /\ cr3' = 0
  /\ UNCHANGED <<tf, currentID, dirsBuilt, paging, tss, irr, isr>>

\* A page fault ends in DebugPanic when the page is present (PGFLT_PROT_VIOL) or
\* none can be allocated; the fault of any other vector is ignored.
ExceptionHandler ==
  /\ T_DIVIDE <= tf.vector /\ tf.vector <= T_SECEV
  /\ \/ at' = "handled"
     \/ tf.vector = T_PGFLT /\ at' = "halted"
  /\ UNCHANGED isr

\* Mutant: only the timer is acknowledged.
InterruptHandler_TimerOnly ==
  /\ T_IRQ0 + IRQ_TIMER <= tf.vector /\ tf.vector <= T_IRQ0 + IRQ_IDE2
  /\ at' = "handled"
  /\ isr' = IF userContexts[currentID].vector = T_IRQ0 + IRQ_TIMER
            THEN pic_eoi(isr) ELSE isr

\* The type is read from the saved frame of the current process, not from tf.
InterruptHandler ==
  /\ T_IRQ0 + IRQ_TIMER <= tf.vector /\ tf.vector <= T_IRQ0 + IRQ_IDE2
  /\ at' = "handled"
  /\ isr' = IF userContexts[currentID].vector = T_IRQ0 + IRQ_SPURIOUS
            THEN isr ELSE pic_eoi(isr)

\* What the system calls do to memory and console is not part of this module.
SyscallDispatch ==
  /\ tf.vector = T_SYSCALL
  /\ at' = "handled"
  /\ UNCHANGED isr

Handle ==
  /\ at = "kernelSpace"
  /\ ExceptionHandler \/ InterruptHandler \/ SyscallDispatch
  /\ UNCHANGED <<tf, currentID, userContexts, cr3, dirsBuilt, paging, tss, irr>>

\* SetPageDirectory(currentID) and TrapReturn(tf): sti keeps interrupts out
\* until iret is done.
Return ==
  /\ at = "handled"
  /\ cr3' = currentID
  /\ at' = tf.from
  /\ tf' = NoFrame
  /\ UNCHANGED <<currentID, userContexts, dirsBuilt, paging, tss, irr, isr>>
-----------------------------------------------------------------------------
(***************************************************************************)
(* The kernel's thread.  A step is taken when no request is delivered      *)
(* first.                                                                  *)
(***************************************************************************)
Goes(from, to) == /\ at = from /\ Deliverable = {}
                  /\ at' = to
                  /\ UNCHANGED <<tf, irr, isr>>

\* Mutant: the directories are left for later.
FillDirectories_Late ==
  /\ Goes("boot", "filled")
  /\ UNCHANGED <<currentID, userContexts, cr3, dirsBuilt, paging, tss>>

\* VirtualMemoryInit: the two loops, SetPageDirectory(0), EnablePaging.
FillDirectories ==
  /\ Goes("boot", "filled")
  /\ dirsBuilt' = TRUE
  /\ UNCHANGED <<currentID, userContexts, cr3, paging, tss>>

LoadDirectory ==
  /\ Goes("filled", "loaded")
  /\ cr3' = 0
  /\ UNCHANGED <<currentID, userContexts, dirsBuilt, paging, tss>>

\* EnablePaging; ThreadInit makes 0 the current thread, as it already is.
EnablePaging ==
  /\ Goes("loaded", "monitor")
  /\ paging' = TRUE
  /\ currentID' = 0
  /\ UNCHANGED <<userContexts, cr3, dirsBuilt, tss>>

\* MonitorUser: the frame the process starts with.
CreateProcess ==
  /\ Goes("monitor", "created")
  /\ userContexts' = [userContexts EXCEPT ![Pid] = StartFrame]
  /\ UNCHANGED <<currentID, cr3, dirsBuilt, paging, tss>>

\* ForceRunProcess up to ContextSwitch, which enters ProcessStartUser.
ForceRunProcess ==
  /\ Goes("created", "assigned")
  /\ currentID' = Pid
  /\ UNCHANGED <<userContexts, cr3, dirsBuilt, paging, tss>>

ContextSwitch ==
  /\ Goes("assigned", "entered")
  /\ UNCHANGED <<currentID, userContexts, cr3, dirsBuilt, paging, tss>>

\* Mutant: ProcessStartUser does not load the TSS of the process.
SwitchTSS_Skipped ==
  /\ Goes("entered", "switched")
  /\ UNCHANGED <<currentID, userContexts, cr3, dirsBuilt, paging, tss>>

SwitchTSS ==
  /\ Goes("entered", "switched")
  /\ tss' = currentID
  /\ UNCHANGED <<currentID, userContexts, cr3, dirsBuilt, paging>>

LoadUserDirectory ==
  /\ Goes("switched", "ready")
  /\ cr3' = currentID
  /\ UNCHANGED <<currentID, userContexts, dirsBuilt, paging, tss>>

\* TrapReturn(&userContexts[currentID]) at the end of ProcessStartUser.
StartUser ==
  /\ Goes("ready", IF userContexts[currentID] = StartFrame THEN "user" ELSE "lost")
  /\ UNCHANGED <<currentID, userContexts, cr3, dirsBuilt, paging, tss>>

UserTrap(vector) ==
  /\ at = "user" /\ Deliverable = {}
  /\ Trap(vector)
  /\ UNCHANGED <<irr, isr>>
-----------------------------------------------------------------------------
Init == /\ at = "boot" /\ tf = NoFrame /\ currentID = 0
        /\ userContexts = [id \in Proc |-> NoFrame]
        /\ cr3 = Nothing /\ dirsBuilt = FALSE /\ paging = FALSE
        /\ tss = Tss0 /\ irr = {} /\ isr = {}

Handler == HandleTrap \/ Handle \/ Return

StartPath == ForceRunProcess \/ ContextSwitch \/ SwitchTSS \/ LoadUserDirectory
             \/ StartUser

Boot == FillDirectories \/ LoadDirectory \/ EnablePaging

\* The steps the processor takes by itself.
Cpu == TakeIrq \/ Handler \/ Boot \/ StartPath

Next == \/ Cpu
        \/ CreateProcess
        \/ TakeSpurious
        \/ \E irq \in Lines : Raise(irq)
        \/ \E vector \in UserTraps : UserTrap(vector)

\* The processor does not stop; nothing makes the monitor's user type a command,
\* a program trap or a device raise its line.
Spec == Init /\ [][Next]_vars /\ WF_vars(Cpu)
-----------------------------------------------------------------------------
(***************************************************************************)
(* Properties.                                                             *)
(***************************************************************************)
\* The state keeps its types.
TypeOK ==
  /\ at \in KernelPlaces \cup HandlerPlaces \cup {"user", "lost", "halted"}
  /\ tf \in Frames /\ currentID \in Proc
  /\ userContexts \in [Proc -> Frames]
  /\ cr3 \in Proc \cup {Nothing} /\ tss \in Proc \cup {Tss0}
  /\ dirsBuilt \in BOOLEAN /\ paging \in BOOLEAN
  /\ irr \subseteq Lines /\ isr \subseteq Enabled

\* User code runs in the address space and with the kernel stack of the current
\* process, whatever interrupts came on the way there and since.
UserRunsInItsSpace ==
  at = "user" => /\ paging /\ currentID = Pid
                 /\ cr3 = currentID /\ tss = currentID

\* The handlers run in the identity mapped address space of thread 0, in which
\* the physical addresses the memory functions compute can be used.
HandlersRunInKernelSpace == at \in {"kernelSpace", "handled"} => cr3 = 0

\* Interrupts are enabled before the page directories exist, and every handler
\* loads one; still the processor never translates addresses through a directory
\* that is not filled.
PagingHasDirectory == paging => dirsBuilt /\ cr3 \in Proc

\* Outside a handler nothing is in service, and in one nothing but the interrupt
\* it was entered for: no line is shut out by an acknowledgement that was
\* forgotten, or left out because the type was read from another frame.
NothingLeftInService ==
  /\ Interruptible => isr = {}
  /\ at \in HandlerPlaces => isr \subseteq {tf.vector - T_IRQ0}

\* A raised line is delivered, unless lines of a higher priority never stop
\* being raised, or the kernel panicked or lost its way.
Delivered ==
  \A i \in Enabled :
    <>[](\A h \in irr \cap Enabled : h >= i)
      => [](i \in irr => <>(i \in isr \/ at \in {"lost", "halted"}))

\* "Start the user process": TrapReturn finds the frame CreateProcess built.
StartsAtEntry == at # "lost"
=============================================================================
