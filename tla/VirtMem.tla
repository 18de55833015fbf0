------------------------------ MODULE VirtMem ------------------------------
(***************************************************************************)
(* The address spaces of mem_virtual.c on top of the page allocator, with  *)
(* the three users of AllocPage: the loop of ELFLoad, the page fault       *)
(* handler and the loop of PTCopyIn in a system call.                      *)
(*                                                                         *)
(* A virtual address is represented by the number of its page.  mem gives  *)
(* the contents of a physical page: a page table, or Junk, the bytes of a  *)
(* program, which read as a page table could mean anything.                *)
(***************************************************************************)
EXTENDS PhysMem

CONSTANT NUM_TABLES    \* entries of a page directory, and of a page table

ASSUME VirtMemAssumption ==
  /\ NUM_TABLES \in Nat \ {0}
  /\ NUM_PHYSICAL_PAGES = NUM_TABLES * NUM_TABLES
  /\ MEM_USERLO_PI % NUM_TABLES = 0
  /\ MEM_USERHI_PI % NUM_TABLES = 0

VARIABLES pd,       \* pageDirEntries[id][i]: the page of the table, or NoPage
          mem,      \* the contents of the pages
          task,     \* the loop the kernel is in
          running   \* the processes whose program is loaded
vmVars == <<pm, held, freed, pd, mem, task, running>>

VPage == 0 .. NUM_TABLES * NUM_TABLES - 1
Idx == 0 .. NUM_TABLES - 1
VA_PDE_INDEX(va) == va \div NUM_TABLES
VA_PTE_INDEX(va) == va % NUM_TABLES

\* Directory entries for the user half; the others are the kernel's.
UserDirs == MEM_USERLO_PI \div NUM_TABLES .. (MEM_USERHI_PI \div NUM_TABLES) - 1

\* pageDirIdentity[i] lies in pages of the kernel, numbered here after all others.
IdentityPage(i) == NUM_PHYSICAL_PAGES + i
IdentityPages == {IdentityPage(i) : i \in Idx}

\* The permissions: "K" is P | W without U, "R" is P | U, "RW" is P | U | W.
PTE == [page : Page, perm : {"none", "K", "R", "RW"}]
NoPTE == [page |-> 0, perm |-> "none"]
Table == [Idx -> PTE]
EmptyTable == [i \in Idx |-> NoPTE]
Junk == <<>>

Idle == [kind |-> "idle", pid |-> 0, va |-> 0, left |-> 0, perm |-> "none"]
Task == [kind : {"idle", "load", "copy", "halted"}, pid : Proc, va : Nat,
         left : Nat, perm : {"none", "R", "RW"}]
-----------------------------------------------------------------------------
(***************************************************************************)
(* The functions, on the state s = [pm, pd, mem].                          *)
(***************************************************************************)
Kernel == [pm |-> pm, pd |-> pd, mem |-> mem]

\* VirtualMemoryInit: every process has the identity map of the kernel half, and
\* process 0 has all of it.
InitialDirs ==
  [id \in Proc |-> [i \in Idx |->
     IF id # 0 /\ i \in UserDirs THEN NoPage ELSE IdentityPage(i)]]

IdentityTable(i) == [j \in Idx |-> [page |-> i * NUM_TABLES + j, perm |-> "K"]]

InitialMem ==
  [p \in Page \cup IdentityPages |->
     IF p \in Page THEN Junk ELSE IdentityTable(p - NUM_PHYSICAL_PAGES)]

\* GetPageTableEntryByVA: the entry, NoPTE if there is no table.
GetPageTableEntryByVA(s, id, va) ==
  LET table == s.pd[id][VA_PDE_INDEX(va)]
  IN IF table = NoPage \/ s.mem[table] = Junk THEN NoPTE
     ELSE s.mem[table][VA_PTE_INDEX(va)]

Present(s, id, va) == GetPageTableEntryByVA(s, id, va).perm # "none"

\* SetPageTableEntry; bytes of a program stay what they are.
SetPageTableEntry(s, id, va, pte) ==
  LET table == s.pd[id][VA_PDE_INDEX(va)]
  IN IF s.mem[table] = Junk THEN s
     ELSE [s EXCEPT !.mem[table][VA_PTE_INDEX(va)] = pte]

\* Mutant: the table is registered in the directory that is loaded.
AllocPageTable_InKernelDirectory(s, id, va) ==
  LET r == ContainerAlloc(s.pm, id)
  IN [page |-> r.page,
      s |-> IF r.page = NoPage THEN [s EXCEPT !.pm = r.pm]
            ELSE [pm  |-> r.pm,
                  pd  |-> [s.pd EXCEPT ![0][VA_PDE_INDEX(va)] = r.page],
                  mem |-> [s.mem EXCEPT ![r.page] = EmptyTable]]]

\* A page for the table, registered and cleared.
AllocPageTable(s, id, va) ==
  LET r == ContainerAlloc(s.pm, id)
  IN [page |-> r.page,
      s |-> IF r.page = NoPage THEN [s EXCEPT !.pm = r.pm]
            ELSE [pm  |-> r.pm,
                  pd  |-> [s.pd EXCEPT ![id][VA_PDE_INDEX(va)] = r.page],
                  mem |-> [s.mem EXCEPT ![r.page] = EmptyTable]]]

\* Mutant: a new table is allocated whether or not there is one.
MapPage_NewTable(s, id, va, page, perm) ==
  LET t == AllocPageTable(s, id, va)
  IN IF t.page = NoPage THEN [err |-> TRUE, page |-> NoPage, s |-> t.s]
     ELSE [err |-> FALSE, page |-> t.page,
           s |-> SetPageTableEntry(t.s, id, va, [page |-> page, perm |-> perm])]

\* The table is allocated if the directory has none.  The result's page is the
\* page of the table.
MapPage(s, id, va, page, perm) ==
  LET pde == s.pd[id][VA_PDE_INDEX(va)]
      t == IF pde # NoPage THEN [page |-> pde, s |-> s] ELSE AllocPageTable(s, id, va)
  IN IF t.page = NoPage THEN [err |-> TRUE, page |-> NoPage, s |-> t.s]
     ELSE [err |-> FALSE, page |-> t.page,
           s |-> SetPageTableEntry(t.s, id, va, [page |-> page, perm |-> perm])]

\* Mutant: the page table entry names the page after the one allocated.
AllocPage_NextPage(s, id, va, perm) ==
  LET r == ContainerAlloc(s.pm, id)
  IN IF r.page = NoPage
     THEN [err |-> TRUE, page |-> NoPage, s |-> [s EXCEPT !.pm = r.pm]]
     ELSE MapPage([s EXCEPT !.pm = r.pm], id, va, r.page + 1, perm)

\* The page first, then MapPage: when the table cannot be allocated the page
\* stays charged and in no table.
AllocPage(s, id, va, perm) ==
  LET r == ContainerAlloc(s.pm, id)
  IN IF r.page = NoPage
     THEN [err |-> TRUE, page |-> NoPage, s |-> [s EXCEPT !.pm = r.pm]]
     ELSE MapPage([s EXCEPT !.pm = r.pm], id, va, r.page, perm)
-----------------------------------------------------------------------------
(***************************************************************************)
(* The state machine.                                                      *)
(***************************************************************************)
\* The kernel's state becomes s on behalf of id.
Becomes(s, id) ==
  /\ pm' = s.pm
  /\ pd' = s.pd
  /\ held' = [held EXCEPT ![id] = @ \cup (s.pm.allocated \ pm.allocated)]

\* A program's bytes are written to a page.
Written(m, page) == [m EXCEPT ![page] = Junk]

\* CreateProcess by the monitor: the container, then ELFLoad.
CreateProcess(quota) ==
  /\ task = Idle
  /\ ChildrenLeft(pm.containers, 0) /\ ChildInArray(pm.containers, 0)
  /\ QuotaAvailable(pm.containers, 0, quota)
  /\ pm' = [pm EXCEPT !.containers = ContainerSplit(@, 0, quota)]
  /\ task' = [Idle EXCEPT !.kind = "load", !.pid = ChildID(pm.containers, 0)]
  /\ UNCHANGED <<held, pd, mem, running>>

\* ELFLoad comes to a segment of n pages, in the user half and on pages no other
\* segment has.
LoadSegment(va, n, perm) ==
  /\ task.kind = "load" /\ task.left = 0
  /\ \A v \in va .. va + n - 1 :
       VA_PDE_INDEX(v) \in UserDirs /\ ~Present(Kernel, task.pid, v)
  /\ task' = [task EXCEPT !.va = va, !.left = n, !.perm = perm]
  /\ UNCHANGED <<pm, held, pd, mem, running>>

\* One turn of ELFLoad's inner loop: AllocPage, then PTCopyOut or PTMemSet, which
\* find the page present and write to it, whatever its permissions.
LoadPage ==
  LET a == AllocPage(Kernel, task.pid, task.va, task.perm)
      pte == GetPageTableEntryByVA(a.s, task.pid, task.va)
  IN /\ task.kind = "load" /\ task.left > 0
     /\ Becomes(a.s, task.pid)
     /\ IF a.err
        THEN mem' = a.s.mem /\ task' = [task EXCEPT !.kind = "halted"]
        ELSE /\ mem' = Written(a.s.mem, pte.page)
             /\ task' = [task EXCEPT !.va = task.va + 1, !.left = task.left - 1]
     /\ UNCHANGED running

\* ELFLoad has no segment left.
Loaded ==
  /\ task.kind = "load" /\ task.left = 0
  /\ running' = running \cup {task.pid}
  /\ task' = Idle
  /\ UNCHANGED <<pm, held, pd, mem>>

\* The program writes to a page it may write to.
UserWrite(id, va) ==
  LET pte == GetPageTableEntryByVA(Kernel, id, va)
  IN /\ task = Idle /\ id \in running
     /\ pte.perm = "RW"
     /\ mem' = Written(mem, pte.page)
     /\ UNCHANGED <<pm, held, pd, task, running>>

\* PageFaultHandler, the page being absent.
PageFault(id, va) ==
  LET a == AllocPage(Kernel, id, va, "RW")
  IN /\ task = Idle /\ id \in running
     /\ ~Present(Kernel, id, va)
     /\ Becomes(a.s, id)
     /\ mem' = a.s.mem
     /\ task' = IF a.err THEN [Idle EXCEPT !.kind = "halted"] ELSE Idle
     /\ UNCHANGED running

\* PageFaultHandler, the page being present (PGFLT_PROT_VIOL).
ProtectionFault(id, va) ==
  /\ task = Idle /\ id \in running
  /\ GetPageTableEntryByVA(Kernel, id, va).perm \in {"K", "R"}
  /\ task' = [Idle EXCEPT !.kind = "halted"]
  /\ UNCHANGED <<pm, held, pd, mem, running>>

\* A system call reaches PTCopyIn with the address and length the program chose,
\* and they pass its tests.
BeginCopy(id, va, n) ==
  /\ task = Idle /\ id \in running
  /\ MEM_USERLO_PI <= va /\ va + n <= MEM_USERHI_PI
  /\ task' = [Idle EXCEPT !.kind = "copy", !.pid = id, !.va = va, !.left = n]
  /\ UNCHANGED <<pm, held, pd, mem, running>>

\* One turn of PTCopyIn's loop: an absent page is allocated, and whether it could
\* be is not asked.
CopyPage ==
  LET s == IF Present(Kernel, task.pid, task.va) THEN Kernel
           ELSE AllocPage(Kernel, task.pid, task.va, "RW").s
  IN /\ task.kind = "copy"
     /\ Becomes(s, task.pid)
     /\ mem' = s.mem
     /\ task' = IF task.left > 1
                THEN [task EXCEPT !.va = task.va + 1, !.left = task.left - 1]
                ELSE Idle
     /\ UNCHANGED running

VMInit == /\ Init
          /\ pd = InitialDirs /\ mem = InitialMem
          /\ task = Idle /\ running = {}

Create == \/ \E q \in Quotas : CreateProcess(q)
          \/ \E va \in VPage, n \in 1 .. NUM_TABLES, perm \in {"R", "RW"} :
               LoadSegment(va, n, perm)
          \/ LoadPage
          \/ Loaded

UserAccess(id, va) == UserWrite(id, va) \/ PageFault(id, va) \/ ProtectionFault(id, va)

\* Nothing frees a page.
VMNext == /\ \/ Create
             \/ \E id \in running, va \in VPage : UserAccess(id, va)
             \/ \E id \in running, va \in VPage, n \in 1 .. NUM_TABLES :
                  BeginCopy(id, va, n)
             \/ CopyPage
          /\ UNCHANGED freed

VMSpec == VMInit /\ [][VMNext]_vmVars
-----------------------------------------------------------------------------
(***************************************************************************)
(* Properties.                                                             *)
(***************************************************************************)
\* The state keeps its types.
VMTypeOK ==
  /\ TypeOK
  /\ pd \in [Proc -> [Idx -> Page \cup IdentityPages]]
  /\ mem \in [Page \cup IdentityPages -> Table \cup {Junk}]
  /\ task \in Task /\ running \subseteq Proc

\* The pages of the tables of a process, and the mappings of its user half.
Tables(id) == {pd[id][i] : i \in {i \in UserDirs : pd[id][i] # NoPage}}
UserVPages == {va \in VPage : VA_PDE_INDEX(va) \in UserDirs}
Entry(id, va) == GetPageTableEntryByVA(Kernel, id, va)
MappedAt(id) == {va \in UserVPages : Present(Kernel, id, va)}
Mapped(id) == {Entry(id, va).page : va \in MappedAt(id)}

\* Address spaces are disjoint: what a process has mapped or uses as tables are
\* pages it was given, no page is mapped twice or is a table twice, and no
\* process can reach a page table through its mappings.
Isolation ==
  \A id \in Proc \ {0} :
    /\ Mapped(id) \cup Tables(id) \subseteq held[id]
    /\ Mapped(id) \cap Tables(id) = {}
    /\ \A v, w \in MappedAt(id) : v # w => Entry(id, v).page # Entry(id, w).page
    /\ \A i, j \in UserDirs :
         i # j /\ pd[id][i] # NoPage => pd[id][i] # pd[id][j]

\* No program's bytes are ever read as a page table, neither those the page held
\* before it became one nor any written since; and the kernel half is the same
\* identity map in every address space, and all of process 0's is, however
\* many pages were mapped for the others.
TablesIntact ==
  /\ \A id \in Proc : \A i \in Idx : pd[id][i] # NoPage => mem[pd[id][i]] # Junk
  /\ \A i \in Idx : mem[IdentityPage(i)] = IdentityTable(i)
  /\ \A id \in Proc : \A i \in Idx :
       id = 0 \/ i \notin UserDirs => pd[id][i] = IdentityPage(i)

\* A mapping once made is final: no load, fault or copy of any process, nor a
\* write to any page, changes or removes a mapping of some process.
MappingsKept ==
  [][\A id \in Proc \ {0} : \A va \in MappedAt(id) : Entry(id, va)' = Entry(id, va)]_vmVars

\* Of the pages charged to a process at most one is neither mapped nor a table
\* of it, and only once its quota is used up: the page AllocPage had when there
\* was none left for the table.
AtMostOnePageLost ==
  \A id \in Proc \ {0} :
    LET lost == held[id] \ (Mapped(id) \cup Tables(id))
    IN /\ Cardinality(lost) <= 1
       /\ lost # {} => pm.containers[id].usage = pm.containers[id].quota

\* "memory failure": PTCopyIn goes on to the next page only if it has read this
\* one through a mapping of the process.
CopyReadsMapped ==
  [][CopyPage => Present(Kernel, task.pid, task.va)']_vmVars
=============================================================================
