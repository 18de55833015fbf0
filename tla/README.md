# Storm O.S.: a verification project in TLA+

Storm O.S. is a small x86 kernel: a boot loader, a kernel with paging, quotas on
physical memory, a table of threads, interrupts through the 8259, a monitor with a
command line, and one user program that is loaded from an ELF image and uses three
system calls.  This directory holds TLA+ modules translated from the C and assembly
source, TLC configurations that check them on small instances, and theorems about
them that TLAPS proves for every value of the constants.

Line numbers below refer to files of `src/src/`.

## 1. Inventory

| part | state | operations | hard about it |
|---|---|---|---|
| page allocator (`mem_physical.c` 111-159) | `pPageInfo[]`, `lastFreedPage`, `lastAllocPage` | `PhysicalPageAlloc`, `PhysicalPageFree` | the next-fit scan and its wrap; the cached freed page |
| containers (`mem_physical.c` 22-42, 161-207) | `containers[]` | `ContainerInit`, `ContainerSplit`, `ContainerAlloc`, `ContainerFree` | quotas over a tree; child indices computed, not searched |
| memory map (`mem_physical.c` 44-109) | the BIOS map | the loops of `PhysicalMemoryInit` | 64 bit addresses in uint32 |
| virtual memory (`mem_virtual.c`) | `pageDirEntries[][]`, `pageDirIdentity[][]`, the tables in allocated pages | `VirtualMemoryInit`, `AllocPage`, `PTCopyIn`, `PTCopyOut`, `PTMemSet`, `SetPageDirectory` | one allocation of two failing; tables and data in the same pool of pages |
| threads (`thread.c`, `ctx_switch.s`) | `tcbs[]`, `threadQueues[]`, `currentID`, `kernelContexts[]`, `userContexts[]` | `ThreadInit`, `ThreadSpawn`, `ThreadYield`, `CreateProcess`, `ForceRunProcess`, `ProcessStartUser` | a doubly linked queue in arrays; when `currentID` changes relative to the switch |
| traps (`interrupt.c`, `trap_main.S`, `pic.c`) | IDT, GDT, TSS, `userContexts[]`, CR3, the 8259's registers | `HandleTrap` and its handlers, `TrapReturn`, `SwitchTSS`, `pic_eoi` | interrupts between any two instructions; forgotten or misdirected acknowledgements |
| system calls (`syscall.c`) | `sysBuf[][]` | `SysPutStr`, `SysGetChar`, `SysDisplayBuffer` | ranges in uint32; memory running out while copying |
| ELF loader (`elf.c`) | none | `ELFLoad`, `ELFEntry` | page rounding, segments that share a page |
| console and keyboard (`console.c`, `keyboard.c`) | the ring buffer, the cursor, shift state | `GetChar`, `PutChar`, `KeyboardGetData` | a buffer without a full test; escape and modifier state |
| monitor (`monitor.c`) | the line buffer | `MonitorRun`, `RunCommand`, the commands | line editing at the bounds of the buffer |
| screen and cursor (`screen.c`, `console.c` 19-95) | the screen buffer in planes, the display, the last clear colour, the cursor | `DrawCharAt`, `ScrollScreen`, `PaintRange`, `ClearScreen`, `FlushBuffer`, `PutChar`, `MoveCursor` | characters laid over what is there; planes scrolled as one block; a cursor that wraps and scrolls |
| formatted output (`printf.c`, `string.c`) | the buffer of one `Printf` | `Printf`, the directives, number conversion | 64 bit digits by 32 bit divisions; text handed on in pieces |
| 64 bit division (`types.h`) | none | `DivideAndMod64by32` | shifting up to and past the sign bit |
| boot loader, ports, processor (`boot.s`, `kernel_entry.s`, `x86.c`, `port_io.c`, `system.c`) | none | run once, or one instruction each | - |
| user program and library (`user/`) | its own memory | system calls | it is the environment |

How the parts interact.  The monitor (thread 0) creates a process: `CreateProcess`
takes an index from the container tree, loads the image through `AllocPage` and
`PTCopyOut`, and builds the frame it starts with in `userContexts[pid]`;
`ForceRunProcess` switches to it.  `AllocPage` takes the page, and the page for a table
when there is none, from `ContainerAlloc`, that is from the quota of the process.  A trap enters
`HandleTrap`, which saves the frame, goes to the identity mapped address space of thread 0,
calls a handler (page faults call `AllocPage`, system calls `PTCopyIn`), and goes
back to the address space of the current thread.  There is one processor, and
handlers run with interrupts off; the kernel's own thread runs with them on.

What is never called in the kernel as it is built: `ThreadYield`, `FreePageTable`
(hence `ContainerFree` and `PhysicalPageFree`), `UnmapPage`, `pic_reset`.  `ThreadYield` and
the frees are modelled nevertheless, because they are
exported for callers to come (`SYS_SPAWN` and `SYS_YIELD` are commented out in `syscall.c`);
history variables (`yielded`, `freed`) tell the behaviours of the kernel as built from the others.

What makes the parts correct, in short: a process never gets more than its quota, and
what it is promised exists; no page has two owners; address spaces are disjoint
and tables are never program data; the ready queue is a queue; the processor runs
the thread, the address space and the stack `currentID` names; every interrupt is
acknowledged once and every line is served; what is typed is what is read, as it was meant.

## 2. Modules

`Containers` and `PhysMem`: `mem_physical.c`.  `Containers` has no variables; its
operators compute a new `containers[]`, and `PhysMem`, `VirtMem` and `Threads` share them.
`PhysMem` keeps the file's static data in one record `pm`, each function being an
operator from the old record to the new.  Two history variables: `held`, the pages a
process was given and did not free, and `freed`, whether anything was ever freed.
The properties that frees break say so: `OwnershipAsBuilt` and the equality in `NoOvercommit` hold until the
first free.  `Split` is called as its comment asks ("Assume it is safe to allocate quota
pages"), within `MAX_CHILDREN` and within `containers[]`.

`Numbers`: the arithmetic of `types.h` and the conversions of `printf.c` at a width `WORD` that
stands for 2^32: `DivideAndMod64by32` with its two loops, `RoundUp`, `PrintNum`, the
directives of `VPrintFmt`.  The loops are recursive functions of the record (or pair) of what the loop
changes, so that they can be reasoned about.
`Layout` (extends it): pages and the user half of the address space.

`MemMap` (extends `Layout`): the loops of `PhysicalMemoryInit`, which compute the set of RAM pages
`PhysMem` starts from.

`VirtMem` (extends `PhysMem`): directories and tables.  A virtual address is the number
of its page.  `mem` gives the contents of a physical page, a table or `Junk`; a table is
read from the page the directory names, so a page that were both table and data would show.
`task` is the loop the kernel is in (`ELFLoad`'s inner loop or
`PTCopyIn`'s), one turn per action; a page fault is one action.  The pages of `pageDirIdentity` are
numbered after all physical pages.

`ReadyQueue`: the abstract queue: threads enter at the end, leave at the front, or are
taken out to be run at once.  `Threads`: `thread.c` with the linked queue.  A kernel context is represented by the
thread whose execution resumes when it is loaded, and `cpu` is the thread that really
executes.  `yielded` is a history variable: `CpuRunsCurrentAsBuilt` and
`ReadyContextIntact` hold until the first `ThreadYield`.  `Threads` implements `ReadyQueue` (`ImplementsReadyQueue`).

`Dispatch`: from `STI` in `InterruptInit` to the running program.  `at` is the place
the processor is at, `tf` the frame of the running handler.  A pending interrupt
is taken before the next step of the interrupted program; a handler is three steps (save the
frame and change the directory; the handler's body; change back and `iret`), during which only new requests
arrive.

`Keyboard`: `KeyboardGetData`, with the keyboard as its environment.  Keys stand for the kinds of keys the
tables know (modifiers with and without an escape, a toggle, a letter, a code that two keys
share).  Bytes may be read long after the key moved; `heard`, the keys down as far as the
bytes read tell, is what the flags are compared with.

`InputQueue`: the abstract input buffer, lossless until it overruns.  `Console`: `GetChar`'s ring
with its three readers (`KernelMain`, the line editor and the argument splitting of the
monitor, `SysGetChar`).  A turn of the polling loop is one action, and so is the return of a
character with all its reader does.  `line` is the edited line as the user sees it.
`Console` implements `InputQueue` (`ImplementsInputQueue`), which also says what an
overrun does: everything unread is lost.

`LineBuffer`: the line of the monitor as operators, the editor's steps and the splitting
into arguments by overwriting blanks with NULs; `Console` and `Kernel` share it.

`Screen`: `screen.c` on planes of bytes.  A byte is the set of its lit pixels, a colour the set of
planes it lights; buffer and display are one function from offsets to bytes each, so that a range
that reaches into the next plane does so in the model.  `Terminal` (extends it): the cursor,
`PutChar`, and the pieces in which `PrintfPutCh` hands text on.  What a string is made of is the constant `Character`.
`TextScreen`: the abstract screen, a grid of cells with a cursor and a background, where
nothing is ever drawn over anything.

`UserSpace` (extends `Layout`): the memory of one program to the byte, with addresses in
uint32: `PTCopyIn`, `PTCopyOut`, `PTMemSet`, `ELFLoad`'s loop body, and `SysPutStr` and
`SysDisplayBuffer` on top of them.  A byte is a place of the image file, `ZERO`, `STALE` (what a page held
before it was allocated) or `KERNEL` (read through physical page 0).  Page tables are `VirtMem`'s
business; here they only cost pages of the quota.

`Kernel` composes `MemMap`, `Terminal` (with `LineBuffer`) and `UserSpace` into the kernel's own
thread, from `KernelMain` on.  `phase` is where it is: the memory map, the command prompt,
`MonitorUser`, the load, the program, or a panic.  A command computes a list of `Printf` calls; `out` is
the characters they put out, which reach the screen one an action.  `Messages` names the formats, the constant `Text`
gives their characters, and `Takes` the arguments each is called with.  The program
(`Program`) may fault on any page and make any call with any registers.  `Kernel` refines
`TextScreen` (`ImplementsTextScreen`), a cell being the bytes of all planes at its place.
What is printed at boot is cleared by `MonitorRun` and not put on the screen, and what the
program prints is the result of its calls (`frame`).

`MC...` modules give values to the constants, and `...Proofs` modules hold theorems.

Definitions ending in a name after an underscore and commented "Mutant" are not part of the models:
each is a plausible mistake in the definition that follows it, and shows that a
property notices the mistake.

## 3. Runs

| run | question | instance |
|---|---|---|
| `PhysMem_full` | quotas, tree and scan with frees; one owner for each page and exact accounts until the first | 4 processes of 2 children each, 7 pages, three memories (full, with a hole, ending early) |
| `PhysMem_reuse` | finding: the freed page is handed out twice | same |
| `MemMap_above4g` | finding: RAM above 4 GiB aliases pages below | 5 bit addresses, pages of 4 bytes, maps of one or two entries out of 70 |
| `VirtMem_spaces` | isolation, tables, kernel map, lost pages | directories of 3 entries, 9 virtual and 9 physical pages, two processes of quota 3 or one of quota 4 |
| `VirtMem_copyin` | finding: `PTCopyIn` without a page | same |
| `Threads_queue` | the queue, its refinement, fresh indices; the processor runs `currentID` until the first yield | 5 threads |
| `Threads_yield` | finding: `ThreadYield` never leaves the old thread | 3 threads |
| `Dispatch_traps` | address space, stack, acknowledgement, delivery | three enabled lines, one masked line, spurious interrupts, three kinds of traps |
| `Dispatch_start` | finding: an interrupt destroys the start frame | same |
| `Keyboard_keys` | flags follow the keys, escapes stay in step, reboot only by the three keys | nine keys, two bytes waiting |
| `Console_input` | the ring is a queue, the line is what was typed, arguments are its words | buffers of 4 places, one letter, 2 arguments allowed |
| `Kernel_main` | RAM found exactly and printed as it is; the planes are a text screen that shows the edited line; the image is in memory byte for byte; the calls that read it accept, refuse and show what they should | 48 addresses in 12 pages of 4 bytes, 5 of them the user half; a screen of 2 rows and 3 columns in 2 planes; a line of 4 characters; 3 commands, 3 images, every argument of every call |

Bounds, all of them constants of the modules or sets of the MC modules; no
guard caps a counter.  The container tree needs a child that has children itself and a parent
with two (4 processes).  The scan of the window needs a hole and an allocation in
the middle (7 pages).  The queue needs a middle to remove from (3 waiting threads besides the current one;
5 gives more).  Two directory entries in the user half are the least for which a
quota can run out between the page and its table; a quota of 3 makes this happen for
each of two processes, and a quota of 4 is the least that completes two mappings through different tables.  The controller has two lines below and two above
another, and requests are not counted, so nothing is bounded there.
The keyboard holds two bytes, a whole escaped code or one key behind another, so that a key can move
while the code of another is half read.  The console's buffers of 4 places wrap, overrun and hold a
line with two words, which are both passed, in their order.  A line with too many words needs a larger
buffer than TLC finishes with; `ArgumentsSafe` proves that case, for every limit.
`Kernel_main`: the maps of `MemMap_above4g`, and one for each number of the double
word, so that every number is divided and printed once in base 16 and once in base 10; a width of 48, which is no
power of two, leaves the divisor's doubling its last step before the sign bit.  Two rows are the
least that scroll and keep a row, and the line is longer than a row, so that it wraps and scrolls.
The first image has a segment that ends inside a page and goes on as zeros, one that starts
inside a page, and one that is not loaded; the second has only zeros; the third fills
the user half.  The quota of 8 pages would hold all of the user half with its tables, and no machine here has
more than five user pages, so the pages run out below the quota as they do on a machine with fewer than
the 10000 pages `MonitorUser` promises: the load panics at every place it can (always with the
third image), and calls and faults find from none to three pages left.  All pairs of a start and a length in uint32 are tried for `SysPutStr`, whose pieces
are 3 bytes, so a string has up to seven of them.

Deadlock is not checked where the system really stops: all memory given away, every
process created, or a panic.

Fairness.  Only `Dispatch` states any: weak fairness of the processor's own steps
(`Cpu`), because a processor executes the next instruction or takes the
pending interrupt.  Commands typed, traps of the program and requests of devices are not fair.
`Delivered` needs that assumption and a hypothesis of its own, that lines of higher priority
stop being raised: the 8259 promises no more.

## 4. What the violations show

Each run marked "finding" checks one sentence of the source against what the code does, and
TLC prints the steps.  In the order of their weight:

- `Dispatch_start`: `ForceRunProcess` sets `currentID = pid` with interrupts on
  (thread.c:225).  A timer interrupt before the `iret` of `TrapReturn` saves the kernel's frame over
  `userContexts[pid]`, and `TrapReturn` loads that one.
- `Threads_yield`: `currentID = nextID` before `ContextSwitch(&kernelContexts[currentID], ...)`
  (thread.c:190), so the old thread goes on under the new one's name.  Not reached today.
- `PhysMem_reuse`: `PhysicalPageAlloc` hands out `lastFreedPage` without marking it
  allocated (mem_physical.c:113).  Not reached today: nothing frees.
- `VirtMem_copyin`: `PTCopyIn` copies from physical page 0 when no page is left and returns `len`
  (mem_virtual.c:262), so `E_MEM` is not reported.
- `MemMap_above4g`: memory above 4 GiB is counted as memory below (mem_physical.c:67).

Where the code departs from what one would expect but from nothing it says, the property states
the exception.  In `CallContract`: a range whose end wraps past 2^32 passes the test
(`syscall.c`:111, 156, `mem_virtual.c`:250).  A string that starts in the user half fails then, at the first piece
that leaves it (`syscall.c`:128): its whole pieces before that one stay mapped and shown, and no other page is given
to the program.  A string that starts above the user half, or a buffer, shows at most
the one piece or plane that wraps, which is read from the kernel's memory, and the program gets no page; if
the string has no other piece, and for every buffer, this is a success, because `DisplayUserBuffer` does not look at what the
copies return (`screen.c`:130).  When pages run out, the property says which pages may have been given and that nothing
the program had is changed, not what is shown: that is physical page 0 (`VirtMem_copyin`).  In `LineOnScreen`: a backspace does not go back to the row above
(`console.c`:72), so a line that left its row and was shortened can differ from the screen.
In `RamExactBelow4G`: the last page of the address space, whose end is 0, can be taken for RAM, and a
map whose RAM reaches 2^32 is left out.

Seen while modelling and outside the contracts the modules take for granted, so that no
run shows them: the ninth child of a process has the index of another's child
(mem_physical.c:168 does not test `MAX_CHILDREN`; `ChildrenLeft` is the callers' contract, which `MonitorUser`, the
only one, keeps by starting one process, so `FreshChild`, `ContainersKept` and `SpawnIsFresh` are about the children up to that limit);
`MonitorUser` dedicates 10000 pages whatever
the machine has (monitor.c:110), so on a smaller one pages run out below the quota; and the
value of `AllocPage` is not the page its comment names (mem_virtual.c:223); the
program's text is printed as a format (syscall.c:134), and no byte of the model is a `%`.

## 5. Proofs

TLAPS checks every step; nothing is assumed but the named assumptions on the constants.  Those that
are about more than types and sizes: a word is even and more than 16 wide (`WordAssumption`; 2^32 is), a screen has more than one row of
characters (`ScreenAssumption`; `ScrollScreen` with one row has nothing
to move), the display's buffer is smaller than the memory below the user half and than that above it (`UserSpaceAssumption`; it has
150 KiB, they have 1 GiB and 256 MiB), no NUL is typed (`ConsoleAssumption`), a NUL is no character of a string and the digits are (`TerminalAssumption`), the linker
makes segments in the user half that share no page and whose offsets are congruent to their addresses (`KernelAssumption`), and the formats
of the kernel's own messages fit the arguments they are called with, the picture of the blank is empty, and the line buffer of the
monitor is longer than a row (`TextAssumption`; it has 512 places, a row 80).

`ContainersProofs`: the tree invariant `Tree` (a used index other than 0 is a child index of its
used parent, and numbers below its count), from which the next child's index is
unused.  The core is that `i * MAX_CHILDREN + 1 + k` with `k < MAX_CHILDREN` determines `i` and `k`.  The module also
has what the other proofs share: induction over the naturals for a set of numbers in place of a predicate
(`NatSetInduction`, from well-foundedness), induction over the subsets of a finite set, and sums over sets,
which the community modules define by a chosen function: that the function exists, and what a sum
does when an element or a value changes (`SumsExist`, `SumAdd`, `SumChange`, `UnionAtMostSum`).

`PhysMemProofs`: the inductive invariant has the types, the tree, the permissions
(which never change), and for every process `Cardinality(held) <= usage <= quota`.
`QuotaRespected` alone is not inductive: a split must keep the parent within its
quota, which is the caller's contract, and must not fall on a container in use, which is `Tree`.
Theorems: `TypeCorrect`, `QuotaSafe`, `FreshChildSafe`, `ContainersKeptSafe`, and
`OwnershipSafe`, whose invariant says that until the first free no freed page is cached and
held pages are marked allocated.
`NothingOvercommitted` needs that every used container has a used parent and that what is given to the children and
the pages held are covered by `usage` (`GivenInv`), with frees included.
`AllocSucceeds` needs a budget over all processes (`BudgetInv`): the sum of what each holds and may still ask for is at most
the number of user pages with RAM.  With one page of quota left, some user page is then not marked, and the two scans together
look at every page of the window (`NextFitFinds`), so the promise that quota is memory is kept wherever the scan stands.

`ThreadsProofs`: a doubly linked list that only satisfies local conditions could contain
a cycle, and removal at its end would then not be local.  The invariant therefore says that there is a sequence of
threads, each ready thread once, whose neighbours the links and the two ends are (`Listed`); the lemmas
show that enqueue appends to the sequence, dequeue takes its first, and remove takes out one of it, at either end and in the middle.
Theorems: `LinksConsistentSafe`, `SpawnIsFreshSafe`; `QueueHoldsReadySafe`, that the walk along `next` is that sequence, and
`QueueRefined`, that every step of `thread.c` is a step of `ReadyQueue` or leaves the sequence alone.  From the invariant that until the first yield
the processor is with the current thread and every ready thread's context is its own,
`CpuRunsCurrentSafe` and `ReadyContextSafe`; the two invariants together give `TypeCorrect`.

`DispatchProofs`: the invariant ties what is loaded (directory, TSS, `currentID`) to the
place of the interrupted program, says that the saved frame of the current process is the
handler's own, and that in a handler nothing is in service but its interrupt.  Theorems:
`UserSpaceSafe`, `KernelSpaceSafe`, `PagingSafe`, `ServiceSafe`, `TypeCorrect`.

`KeyboardProofs`: the invariant says that what is on the way is whole keys (`Whole`, but for
a first byte that was read already) and that the flags mean what was read.  The lemmas about
the tables show which code each byte is looked up by.  Theorems: `NoStuckModifierSafe`,
`EscapeInStepSafe`, `RebootsByThreeKeysSafe`, `CapitalsAreMeantSafe`, `TypeCorrect`.

`VirtMemProofs`: the invariant `Good`, a predicate on the record `[pm, pd, mem]` and the pages given, says
that pages given are marked allocated and have one owner, that the kernel's entries are the
identity, that a process's tables are its own pages, each in one place, and that its mappings
are its own pages, each mapped once and none a table.  `Isolation` alone is not inductive: that the next page
is in no use follows from the allocator's bookkeeping, and that a table's entry is changed in one
address space only from the tables being in one place.  One lemma for each of the four changes the
functions make (a page charged, a table registered, an entry set, bytes written) shows which entries of
which process it touches; `AllocPageKeeps` puts them together in the order of `AllocPage`, its two
failures included, and each action is a step of a few lines.  Besides `Good` the invariant says
what the loops rely on (`TaskInv`: the pages `ELFLoad` still has to load are absent).  Theorems: `IsolationSafe`,
`TablesIntactSafe`, `MappingsKeptSafe`, `VMTypeCorrect`.
`AtMostOneLost` adds the budget of `PhysMemProofs` (`LossInv`): with quota left an allocation cannot fail, so the second
of `AllocPage`'s two can only fail when the first used up the quota, and no later call gets that far; `Takes`
says what a call may do to the account of its process and must leave alone in the others'.

`ConsoleProofs`: with the remainders computed (`Wrapped`), storing a character appends to the unread part or, in the
last free place, empties it, and taking one removes the first; so every step of
`Console` is a step of `InputQueue` or a stutter (`RingIsQueue`).  `LineInv` relates the buffer of the editor to the line as the user sees
it; the arguments are read from the buffer after blanks became NULs, the words from the line as it was typed, and the lemmas number both
by the places where they start (`Rank`), so that the k-th of one is the k-th of the other.
Theorems: `TypeCorrect`, and `ArgumentsSafe`, for lines with any number of blanks anywhere.

`KernelProofs`: the parts of the kernel's thread, one after the other.
The memory map: the loop invariant (the pages found so far are those the test accepts, and the
count is theirs) needs no strengthening; the work is that the comparison in uint32 says what the entry
means for every page but the last (`InsideIsCovers`).  Theorems: `RamExactSafe` of the loop alone, and `KernelRamExactSafe` of
the kernel it is part of.
The screen: `TextScreenRefined`.  That every step draws, scrolls or clears exactly what `TextScreen` says is not inductive by itself:
a character is laid over what is there, so it shows what it should only if the cell was plain.  The invariant `TermInv` says that
everything from the cursor on has the background (`Ahead`), which a newline keeps because `ScrollScreen` clears the row
that comes up.  The lemmas before it show where the bytes of a cell lie (`PlaceFacts`, `OneInPlane`: no two cells, lines or planes share a byte) and
what the loops of `screen.c` do to them; `CellsAreGrid` says that the cells of the refinement are those of the lemmas.
The load: `ImageLoadedSafe`.  The invariant (`LoadInv`) says that every page of the image is either still to be loaded or
has its bytes; a page once filled stays so because the segments share no page.  `FillPageIs` shows the three cases of `ELFLoad` (a whole page of the
file, the part of one in a cleared page, a cleared page) to leave the same function of the address; `CopyOutIs` unfolds the copy
loop, and `SegmentFacts` says that the rounded bounds give every page with a byte of the segment and none outside the user half.
The calls: `CallContractSafe`, about the two that read the program's memory.  What a call leaves alone is `Kept`: a page that was mapped stays,
with its bytes; `Given` says which pages are new.  A copy with twice as many pages left as it misses finds them all (`Enough`, `TouchAllFinds`:
each may need a table of its own).  `ReadSoFar` carries the three through the pieces of `SysPutStr` and the planes of
`DisplayUserBuffer`, one part after another (`ReadNextPart`).  What is read of a string is all of it, or its whole pieces in the user half if the
range wraps (`Readable`); a piece that is not part of that leaves the user half and fails (`PieceReadable`), and then every piece is
skipped (`PieceInv`).  From above the user half only the first piece can be copied, if it wraps (`OutsideInv`): one that follows a wrapped piece starts
below the user half, where `PTCopyIn` refuses it.  None of these addresses has a page of the program (`OutsideWord`, `CopyInOutside`).  The loops are recursive functions
or folds; the proof first shows that each exists and unfolds one turn (`LoopExists`, `LoopUnfolds`).

The numbers: `MapPrintedSafe`.  A recursive function of what a loop changes is shown to exist and to unfold by
induction over a bound on the turns left (`RecursionExists`, one lemma for the loops of `types.h`, the digits and the directives).
The invariant of the doubling loop is that the
divisor is the base times the weight, a power of two at which neither overflows; that of the halving loop is that result times base plus remainder is
the number, with the remainder below twice the divisor it is compared with next (`Dividing`); so `DivisionIsExact`.  Then the digits of `PrintNum` denote the number
(`PrintNumIs`), a format with one directive is its plain text around what the directive shows (`NumberShown`), and the buffer of `PrintfPutCh` hands on
exactly the characters it was given, in pieces that end in a flush (`BufferedFacts`, `PrintfFacts`).
The types: `KernelTypeSafe`, from `TermInv`, the invariant of the calls and `MonitorInv`.  That every command computes calls of `Printf` that
fit their formats (`RunFacts`) needs that the arguments are strings that end in a NUL inside the buffer, which the splitting overwrites.
The line: `LineOnScreenSafe`.  Echo and edit are not one step: the line in the buffer changes before its echo is drawn.  So the invariant (`LineInv`)
says that the screen shows the line as it is (`Settled`) or as it was before the key whose echo is still to come (`Echoing`), and
that what is to come ends in a flush.  `EraseShown` and `EnterShown` say that the backspace and the character drawn take the
one to the other, with the edges: a backspace in column 0, a character in the last column, a line that fills its buffer.

Only model-checked: liveness (`Delivered`), which is out of the prover's reach.  The violations of section 4 are TLC's too.

## 6. Not modelled, and the plan

Left out for good: the boot loader and the real mode code (run once, before there is a kernel
state), port and register access (one instruction each; their effects are in the actions), the pictures of
the font and the bit layout of descriptors (data), the assertions on the ELF header, and functions
nothing can reach (`pic_reset`, `UnmapPage`, `FreePageTable`).  The user program is the environment:
`Dispatch`, `VirtMem` and `Kernel` let it do anything it can, so its own code (`user/`, whose library repeats
`printf.c` and `types.h`) is not modelled.

Where a model stops: a write outside `containers[]` (an index past `MAX_PROCS`), and the
processor after it loaded a frame or a context nobody wrote (`lost`, `Nobody`): the
models name these states and go no further.  Images no linker makes (segments with a page in common,
or outside the user half) are excluded by `KernelAssumption`.

What remains, in this order:

1. The composition of `Dispatch` with `Threads` and `Kernel`: an interrupt at every step of the load and of
   a call, and liveness of the whole system.
