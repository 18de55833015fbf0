----------------------------- MODULE UserSpace -----------------------------
(***************************************************************************)
(* The memory of one program to the byte: the copy loops of mem_virtual.c, *)
(* ELFLoad, which fills it, and the system calls that read it.             *)
(*                                                                         *)
(* The space sp has the bytes of the user pages that are mapped, and how   *)
(* many pages can still be allocated to the program; module VirtMem has    *)
(* the page tables.  A byte is a place of the file it was read from, ZERO, *)
(* or one of the marks below.                                              *)
(***************************************************************************)
EXTENDS Layout, SequencesExt

CONSTANTS NUM_TABLES,                  \* entries of a page table
          PLANE_BYTES, PLANE_COUNT     \* VGA_WIDTH * VGA_HEIGHT and VGA_PLANES

\* The buffer of the display fits below the user half, and above it: 150 KiB.
ASSUME UserSpaceAssumption ==
  /\ {NUM_TABLES, PLANE_BYTES, PLANE_COUNT} \subseteq Nat \ {0}
  /\ MEM_USERLO_PI % NUM_TABLES = 0
  /\ PLANE_BYTES * PLANE_COUNT <= MEM_USERLO
  /\ MEM_USERHI + PLANE_BYTES * PLANE_COUNT < WORD

ZERO == -1      \* cleared
STALE == -2     \* what a page held before it was allocated
KERNEL == -3    \* of the kernel's half, and of page 0
Byte == Nat \cup {ZERO, STALE, KERNEL}

Absent == <<>>
Bytes == [0 .. PAGESIZE - 1 -> Byte]
Space == [page : [UserWindow -> Bytes \cup {Absent}], left : Nat]

Present(sp, pg) == pg \notin UserWindow \/ sp.page[pg] # Absent
NewSpace(quota) == [page |-> [pg \in UserWindow |-> Absent], left |-> quota]
-----------------------------------------------------------------------------
(***************************************************************************)
(* mem_virtual.c                                                           *)
(***************************************************************************)
\* A page, and one for its table if it is the first there.
AllocPage(sp, pg) ==
  LET hasTable == \E q \in UserWindow : Present(sp, q) /\ q \div NUM_TABLES = pg \div NUM_TABLES
  IN IF sp.left > (IF hasTable THEN 0 ELSE 1)
     THEN [err |-> FALSE,
           sp  |-> [page |-> [sp.page EXCEPT ![pg] = [i \in 0 .. PAGESIZE - 1 |-> STALE]],
                    left |-> sp.left - (IF hasTable THEN 1 ELSE 2)]]
     ELSE [err |-> TRUE, sp |-> [sp EXCEPT !.left = 0]]

\* The copy loops find a page absent and allocate it; the error is not looked at.
Touch(sp, pg) == IF Present(sp, pg) THEN sp ELSE AllocPage(sp, pg).sp

\* The byte at va; that of an absent page is read from page 0.
ByteAt(sp, va) ==
  IF PageOf(va) \notin UserWindow \/ ~Present(sp, PageOf(va)) THEN KERNEL
  ELSE sp.page[PageOf(va)][va % PAGESIZE]

\* A write to an absent page goes to page 0.
SetByte(sp, va, b) ==
  IF PageOf(va) \notin UserWindow \/ ~Present(sp, PageOf(va)) THEN sp
  ELSE [sp EXCEPT !.page[PageOf(va)][va % PAGESIZE] = b]

\* Mutant: the end of the range is not tested.
InRange_StartOnly(va, len) == MEM_USERLO <= va

\* The test of PTCopyIn, PTCopyOut and the system calls, in uint32.
InRange(va, len) == MEM_USERLO <= va /\ uint32(va + len) <= MEM_USERHI

\* The addresses va .. va + len - 1 in uint32, and their pages in that order.
Addrs(va, len) == [i \in 1 .. len |-> uint32(va + i - 1)]
PagesOf(va, len) ==
  IF len = 0 THEN <<>>
  ELSE [k \in 1 .. PageOf(va + len - 1) - PageOf(va) + 1 |-> PageOf(uint32((PageOf(va) + k - 1) * PAGESIZE))]
TouchAll(sp, va, len) == FoldLeft(Touch, sp, PagesOf(va, len))

\* The second test of the copies, of the kernel's side, never fails: the kernel
\* copies from and to its own memory, below the user half.
PTCopyIn(sp, va, len) ==
  IF ~InRange(va, len) THEN [sp |-> sp, bytes |-> <<>>]
  ELSE LET touched == TouchAll(sp, va, len)
       IN [sp |-> touched, bytes |-> [i \in 1 .. len |-> ByteAt(touched, Addrs(va, len)[i])]]

\* bytes is written from va on.
Written(sp, va, bytes) ==
  FoldLeft(LAMBDA s, i : SetByte(s, uint32(va + i - 1), bytes[i]),
           sp, [i \in 1 .. Len(bytes) |-> i])

PTCopyOut(sp, bytes, va) ==
  IF ~InRange(va, Len(bytes)) THEN sp
  ELSE Written(TouchAll(sp, va, Len(bytes)), va, bytes)

PTMemSet(sp, va, b, len) ==
  Written(TouchAll(sp, va, len), va, [i \in 1 .. len |-> b])
-----------------------------------------------------------------------------
(***************************************************************************)
(* elf.c.  A program header ph has type, offset, va, filesz and memsz.     *)
(***************************************************************************)
\* The pages of a segment, in the order they are loaded.
SegmentPages(ph) ==
  LET va == RoundDown(ph.va, PAGESIZE)
      eva == RoundUp(ph.va + ph.memsz, PAGESIZE)
  IN IF ph.type = "LOAD" /\ va < eva
     THEN [k \in 1 .. PageOf(eva) - PageOf(va) |-> PageOf(va) + k - 1] ELSE <<>>

\* n bytes of the file from fa on.
FileBytes(fa, n) == [i \in 1 .. n |-> fa + i - 1]

\* Mutant: the rest of the last page that comes from the file is not cleared.
FillPage_NotCleared(sp, ph, pg) ==
  LET va == pg * PAGESIZE
      zva == uint32(ph.va + ph.filesz)
      fa == RoundDown(ph.offset, PAGESIZE) + va - RoundDown(ph.va, PAGESIZE)
  IN IF va < RoundDown(zva, PAGESIZE) THEN PTCopyOut(sp, FileBytes(fa, PAGESIZE), va)
     ELSE IF va < zva /\ ph.filesz # 0 THEN PTCopyOut(sp, FileBytes(fa, zva - va), va)
     ELSE PTMemSet(sp, va, ZERO, PAGESIZE)

\* A whole page of the file, the part of one in a cleared page, or a cleared page.
FillPage(sp, ph, pg) ==
  LET va == pg * PAGESIZE
      zva == uint32(ph.va + ph.filesz)
      fa == RoundDown(ph.offset, PAGESIZE) + va - RoundDown(ph.va, PAGESIZE)
  IN IF va < RoundDown(zva, PAGESIZE) THEN PTCopyOut(sp, FileBytes(fa, PAGESIZE), va)
     ELSE IF va < zva /\ ph.filesz # 0
          THEN PTCopyOut(PTMemSet(sp, va, ZERO, PAGESIZE), FileBytes(fa, zva - va), va)
     ELSE PTMemSet(sp, va, ZERO, PAGESIZE)
-----------------------------------------------------------------------------
(***************************************************************************)
(* syscall.c.  The result of a call has the space, the errno in eax, and   *)
(* the bytes it put on the screen.                                         *)
(***************************************************************************)
\* What PrintfColor prints of a string: the bytes before a NUL.  The string is
\* printed as a format; none of the bytes here is a '%'.
Printed(bytes) ==
  LET ends == {i \in DOMAIN bytes : bytes[i] = ZERO}
  IN IF ends = {} THEN bytes ELSE SubSeq(bytes, 1, Min(ends) - 1)

\* One turn of SysPutStr's loop: the piece from pos on goes through sysBuf.
PutPiece(r, va, len, pos) ==
  LET n == IF len - pos < PAGESIZE - 1 THEN len - pos ELSE PAGESIZE - 1
      in == PTCopyIn(r.sp, uint32(va + pos), n)
  IN IF r.errno # "E_SUCC" THEN r
     ELSE IF Len(in.bytes) # n THEN [sp |-> in.sp, errno |-> "E_MEM", text |-> r.text]
     ELSE [sp |-> in.sp, errno |-> "E_SUCC", text |-> r.text \o Printed(in.bytes)]

\* The pieces have PAGESIZE - 1 bytes; those before the one that fails have been
\* printed.
PutPieces(sp, va, len) ==
  FoldLeft(LAMBDA r, pos : PutPiece(r, va, len, pos),
           [sp |-> sp, errno |-> "E_SUCC", text |-> <<>>],
           [k \in 1 .. (len + PAGESIZE - 2) \div (PAGESIZE - 1) |-> (k - 1) * (PAGESIZE - 1)])

SysPutStr(sp, va, len) ==
  IF ~InRange(va, len) THEN [sp |-> sp, errno |-> "E_INVAL_ADDR", text |-> <<>>]
  ELSE PutPieces(sp, va, len)

\* The planes are copied one by one, and no result is looked at.
DisplayPlane(r, va, p) ==
  LET in == PTCopyIn(r.sp, uint32(va + p * PLANE_BYTES), PLANE_BYTES)
  IN [sp |-> in.sp, text |-> r.text \o in.bytes]

DisplayUserBuffer(sp, va) ==
  FoldLeft(LAMBDA r, p : DisplayPlane(r, va, p),
           [sp |-> sp, text |-> <<>>], [k \in 1 .. PLANE_COUNT |-> k - 1])

SysDisplayBuffer(sp, va) ==
  IF ~InRange(va, PLANE_BYTES * PLANE_COUNT)
  THEN [sp |-> sp, errno |-> "E_INVAL_ADDR", text |-> <<>>]
  ELSE LET r == DisplayUserBuffer(sp, va)
       IN [sp |-> r.sp, errno |-> "E_SUCC", text |-> r.text]

Calls == {"PUTSTR", "GETCHAR", "DISPBUF", "OTHER"}

\* ch is what GetChar has.
SyscallDispatch(sp, nr, va, len, ch) ==
  CASE nr = "PUTSTR" -> SysPutStr(sp, va, len)
    [] nr = "DISPBUF" -> SysDisplayBuffer(sp, va)
    [] nr = "GETCHAR" -> [sp |-> sp, errno |-> "E_SUCC", text |-> <<ch>>]
    [] nr = "OTHER" -> [sp |-> sp, errno |-> "E_INVAL_CALLNR", text |-> <<>>]
=============================================================================
