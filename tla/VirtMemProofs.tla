--------------------------- MODULE VirtMemProofs ---------------------------
(***************************************************************************)
(* Theorems about VirtMem, for every number of processes, pages and table  *)
(* entries, every memory and every set of quotas.                          *)
(***************************************************************************)
EXTENDS VirtMem, PhysMemProofs

USE DEF NONE, NoPage
-----------------------------------------------------------------------------
(***************************************************************************)
(* Addresses.                                                              *)
(***************************************************************************)
\* A page of the address space has a place in the directory and in a table, and
\* no other page has both.
LEMMA VPageFacts ==
  /\ NUM_TABLES \in Nat /\ NUM_TABLES > 0
  /\ \A va \in VPage : /\ va \in Nat
                       /\ VA_PDE_INDEX(va) \in Idx /\ VA_PTE_INDEX(va) \in Idx
                       /\ va = VA_PDE_INDEX(va) * NUM_TABLES + VA_PTE_INDEX(va)
<1>1. NUM_TABLES \in Nat /\ NUM_TABLES > 0
  BY VirtMemAssumption
<1>2. ASSUME NEW va \in VPage
      PROVE  /\ va \in Nat
             /\ VA_PDE_INDEX(va) \in Idx /\ VA_PTE_INDEX(va) \in Idx
             /\ va = VA_PDE_INDEX(va) * NUM_TABLES + VA_PTE_INDEX(va)
  <2>1. va \in Nat /\ va < NUM_TABLES * NUM_TABLES
    <3>1. NUM_TABLES * NUM_TABLES \in Nat
      BY <1>1
    <3> QED
      BY <3>1 DEF VPage
  <2>2. /\ va \div NUM_TABLES \in Nat /\ va % NUM_TABLES \in 0 .. NUM_TABLES - 1
        /\ va = NUM_TABLES * (va \div NUM_TABLES) + (va % NUM_TABLES)
    BY <1>1, <2>1
  <2>3. va \div NUM_TABLES < NUM_TABLES
    <3> DEFINE d == va \div NUM_TABLES
    <3>1. d \in Nat /\ NUM_TABLES * d <= va
      BY <2>1, <2>2, <1>1
    <3> HIDE DEF d
    <3>2. CASE d >= NUM_TABLES
      <4>1. NUM_TABLES * d >= NUM_TABLES * NUM_TABLES
        BY <3>1, <3>2, <1>1
      <4> QED
        BY <4>1, <3>1, <2>1, <1>1
    <3> QED
      BY <3>1, <3>2, <1>1 DEF d
  <2>4. NUM_TABLES * (va \div NUM_TABLES) = (va \div NUM_TABLES) * NUM_TABLES
    BY <2>2, <1>1
  <2> QED
    BY <2>1, <2>2, <2>3, <2>4, <1>1 DEF VA_PDE_INDEX, VA_PTE_INDEX, Idx
<1> QED
  BY <1>1, <1>2

LEMMA SamePlace ==
  ASSUME NEW v \in VPage, NEW w \in VPage,
         VA_PDE_INDEX(v) = VA_PDE_INDEX(w), VA_PTE_INDEX(v) = VA_PTE_INDEX(w)
  PROVE  v = w
BY VPageFacts

\* The directory entries of the user half are entries of the directory.
LEMMA UserDirFacts == UserDirs \subseteq Idx
<1>1. /\ NUM_TABLES \in Nat /\ NUM_TABLES > 0
      /\ MEM_USERLO_PI \in Nat /\ MEM_USERHI_PI \in Nat
      /\ MEM_USERHI_PI <= NUM_TABLES * NUM_TABLES
  BY VirtMemAssumption, PhysMemAssumption
<1>2. MEM_USERLO_PI \div NUM_TABLES \in Nat
  BY <1>1
<1> DEFINE d == MEM_USERHI_PI \div NUM_TABLES
<1>3. d \in Nat /\ NUM_TABLES * d <= MEM_USERHI_PI
  BY <1>1
<1> HIDE DEF d
<1>4. d <= NUM_TABLES
  <2>1. CASE d > NUM_TABLES
    <3>1. NUM_TABLES * d > NUM_TABLES * NUM_TABLES
      BY <2>1, <1>1, <1>3
    <3> QED
      BY <3>1, <1>1, <1>3
  <2> QED
    BY <2>1, <1>1, <1>3
<1> QED
  BY <1>1, <1>2, <1>3, <1>4 DEF UserDirs, Idx, d

\* The pages of the identity map are none of the allocator's.
LEMMA IdentityFacts ==
  /\ \A i \in Idx : IdentityPage(i) \in IdentityPages /\ IdentityPage(i) \notin Page
  /\ \A i, j \in Idx : IdentityPage(i) = IdentityPage(j) => i = j
  /\ IdentityPages \cap Page = {}
  /\ NoPage \in Page /\ NoPage \notin IdentityPages
<1>1. NUM_PHYSICAL_PAGES \in Nat /\ NUM_PHYSICAL_PAGES > 0 /\ Idx \subseteq Nat
  BY PhysMemAssumption, VPageFacts DEF Idx
<1> QED
  BY <1>1 DEF IdentityPage, IdentityPages, Page, Idx

\* A page table is not the bytes of a program.
LEMMA TablesAreNotJunk == \A t \in Table : t # Junk
<1> SUFFICES ASSUME NEW t \in Table, t = <<>> PROVE FALSE
  BY DEF Junk
<1>1. 0 \in DOMAIN t
  BY VPageFacts DEF Table, Idx
<1>2. DOMAIN t = {}
  OBVIOUS
<1> QED
  BY <1>1, <1>2

LEMMA EmptyTableFacts == /\ NoPTE \in PTE /\ EmptyTable \in Table
                         /\ \A k \in Idx : EmptyTable[k].perm = "none"
<1>1. NoPTE \in PTE
  BY IdentityFacts DEF NoPTE, PTE
<1> QED
  BY <1>1 DEF EmptyTable, Table, NoPTE

\* A page number with its place in the user half is one of the address space, and
\* the pages of the user window are those.
LEMMA UserPageFacts ==
  /\ \A v \in Nat : VA_PDE_INDEX(v) \in UserDirs => v \in UserVPages
  /\ \A v \in Nat : MEM_USERLO_PI <= v /\ v < MEM_USERHI_PI => v \in UserVPages
<1>1. /\ NUM_TABLES \in Nat /\ NUM_TABLES > 0
      /\ MEM_USERLO_PI \in Nat /\ MEM_USERHI_PI \in Nat
      /\ MEM_USERLO_PI % NUM_TABLES = 0 /\ MEM_USERHI_PI % NUM_TABLES = 0
      /\ MEM_USERHI_PI <= NUM_TABLES * NUM_TABLES
  BY VirtMemAssumption, PhysMemAssumption
<1> DEFINE lo == MEM_USERLO_PI \div NUM_TABLES
           hi == MEM_USERHI_PI \div NUM_TABLES
<1>2. /\ lo \in Nat /\ hi \in Nat
      /\ NUM_TABLES * lo = MEM_USERLO_PI /\ NUM_TABLES * hi = MEM_USERHI_PI
  BY <1>1
<1>3. UserDirs = lo .. hi - 1
  BY DEF UserDirs
<1> HIDE DEF lo, hi
<1>4. ASSUME NEW v \in Nat
      PROVE  /\ VA_PDE_INDEX(v) \in UserDirs => v < MEM_USERHI_PI
             /\ MEM_USERLO_PI <= v /\ v < MEM_USERHI_PI => VA_PDE_INDEX(v) \in UserDirs
  <2> DEFINE d == v \div NUM_TABLES
  <2>1. d \in Nat /\ NUM_TABLES * d <= v /\ v < NUM_TABLES * d + NUM_TABLES
    BY <1>1
  <2>2. d = VA_PDE_INDEX(v)
    BY DEF VA_PDE_INDEX
  <2> HIDE DEF d
  <2>3. ASSUME d \in UserDirs PROVE v < MEM_USERHI_PI
    <3>1. d + 1 <= hi
      BY <2>3, <1>2, <1>3, <2>1
    <3>2. NUM_TABLES * (d + 1) <= NUM_TABLES * hi
      BY <3>1, <2>1, <1>1, <1>2
    <3>3. NUM_TABLES * (d + 1) = NUM_TABLES * d + NUM_TABLES
      BY <2>1, <1>1
    <3> QED
      BY <3>2, <3>3, <2>1, <1>1, <1>2
  <2>4. ASSUME MEM_USERLO_PI <= v, v < MEM_USERHI_PI PROVE d \in UserDirs
    <3>1. d < hi
      <4>1. CASE d >= hi
        <5>1. NUM_TABLES * d >= NUM_TABLES * hi
          BY <4>1, <2>1, <1>1, <1>2
        <5> QED
          BY <5>1, <2>4, <2>1, <1>1, <1>2
      <4> QED
        BY <4>1, <2>1, <1>2
    <3>2. lo <= d
      <4>1. CASE d + 1 <= lo
        <5>1. NUM_TABLES * (d + 1) <= NUM_TABLES * lo
          BY <4>1, <2>1, <1>1, <1>2
        <5>2. NUM_TABLES * (d + 1) = NUM_TABLES * d + NUM_TABLES
          BY <2>1, <1>1
        <5> QED
          BY <5>1, <5>2, <2>4, <2>1, <1>1, <1>2
      <4> QED
        BY <4>1, <2>1, <1>2
    <3> QED
      BY <3>1, <3>2, <1>2, <1>3, <2>1
  <2> QED
    BY <2>2, <2>3, <2>4
<1>5. NUM_TABLES * NUM_TABLES \in Nat
  BY <1>1
<1> QED
  <2>1. \A v \in Nat : v < MEM_USERHI_PI => v \in VPage
    BY <1>1, <1>5 DEF VPage
  <2> QED
    BY <2>1, <1>4 DEF UserVPages
-----------------------------------------------------------------------------
(***************************************************************************)
(* What is true of the state s = [pm, pd, mem] between any two steps, when *)
(* h are the pages each process was given.                                 *)
(***************************************************************************)
KernelState == [pm : PhysMemState,
                pd : [Proc -> [Idx -> Page \cup IdentityPages]],
                mem : [Page \cup IdentityPages -> Table \cup {Junk}]]

\* No page has two owners, and none that has one is given again.
Owned(s, h) ==
  /\ h \in [Proc -> SUBSET Page]
  /\ s.pm.lastFreedPage = NONE
  /\ \A id \in Proc : h[id] \subseteq s.pm.allocated /\ NoPage \notin h[id]
  /\ \A i, j \in Proc : i # j => h[i] \cap h[j] = {}

KernelMaps(s) ==
  /\ \A i \in Idx : s.mem[IdentityPage(i)] = IdentityTable(i)
  /\ \A id \in Proc : \A i \in Idx :
       id = 0 \/ i \notin UserDirs => s.pd[id][i] = IdentityPage(i)

UserTables(s, h) ==
  \A id \in Proc \ {0} :
    /\ \A i \in UserDirs : s.pd[id][i] # NoPage =>
         s.pd[id][i] \in h[id] /\ s.mem[s.pd[id][i]] # Junk
    /\ \A i, j \in UserDirs :
         i # j /\ s.pd[id][i] # NoPage => s.pd[id][i] # s.pd[id][j]

UserMappings(s, h) ==
  \A id \in Proc \ {0} :
    /\ \A v \in UserVPages : Present(s, id, v) =>
         /\ GetPageTableEntryByVA(s, id, v).page \in h[id]
         /\ \A i \in UserDirs : s.pd[id][i] # GetPageTableEntryByVA(s, id, v).page
    /\ \A v, w \in UserVPages :
         v # w /\ Present(s, id, v) /\ Present(s, id, w)
           => GetPageTableEntryByVA(s, id, v).page # GetPageTableEntryByVA(s, id, w).page

Good(s, h) == /\ s \in KernelState
              /\ Owned(s, h)
              /\ KernelMaps(s)
              /\ UserTables(s, h)
              /\ UserMappings(s, h)

\* The page p is id's and in no use.
Fresh(s, h, id, p) ==
  /\ p \in h[id]
  /\ \A i \in UserDirs : s.pd[id][i] # p
  /\ \A v \in UserVPages :
       Present(s, id, v) => GetPageTableEntryByVA(s, id, v).page # p

\* The directory entries that are not of the user half of a process are the
\* kernel's, and what a directory entry names is a table.
LEMMA TablesAreTables ==
  ASSUME NEW s, NEW h, Good(s, h), NEW id \in Proc, NEW i \in Idx,
         s.pd[id][i] # NoPage
  PROVE  /\ s.pd[id][i] \in Page \cup IdentityPages
         /\ s.mem[s.pd[id][i]] \in Table
         /\ id # 0 /\ i \in UserDirs => s.pd[id][i] \in h[id] /\ s.pd[id][i] \in Page
         /\ id = 0 \/ i \notin UserDirs => s.pd[id][i] \in IdentityPages
<1>1. /\ s.pd[id][i] \in Page \cup IdentityPages
      /\ s.mem[s.pd[id][i]] \in Table \cup {Junk}
      /\ h[id] \in SUBSET Page
  BY DEF Good, KernelState, Owned
<1>2. CASE id # 0 /\ i \in UserDirs
  BY <1>1, <1>2 DEF Good, UserTables
<1>3. CASE id = 0 \/ i \notin UserDirs
  <2>1. s.pd[id][i] = IdentityPage(i) /\ s.mem[IdentityPage(i)] = IdentityTable(i)
    BY <1>3 DEF Good, KernelMaps
  <2>2. IdentityTable(i) \in Table
    <3>1. ASSUME NEW j \in Idx PROVE i * NUM_TABLES + j \in Page
      <4>1. NUM_TABLES \in Nat /\ NUM_TABLES > 0 /\ i \in Nat /\ j \in Nat
            /\ i + 1 <= NUM_TABLES /\ j < NUM_TABLES
        BY VPageFacts DEF Idx
      <4>2. (i + 1) * NUM_TABLES <= NUM_TABLES * NUM_TABLES
        BY <4>1
      <4>3. (i + 1) * NUM_TABLES = i * NUM_TABLES + NUM_TABLES
        BY <4>1
      <4>4. i * NUM_TABLES \in Nat /\ NUM_TABLES * NUM_TABLES \in Nat
        BY <4>1
      <4> QED
        BY <4>1, <4>2, <4>3, <4>4, VirtMemAssumption DEF Page
    <3> QED
      BY <3>1 DEF IdentityTable, Table, PTE
  <2> QED
    BY <1>1, <1>3, <2>1, <2>2, IdentityFacts
<1> QED
  BY <1>2, <1>3

\* What an address reads: nothing without a table, the table's entry with one;
\* in the kernel half always the identity.
LEMMA EntryFacts ==
  ASSUME NEW s, NEW h, Good(s, h), NEW id \in Proc, NEW v \in VPage
  PROVE  LET i == VA_PDE_INDEX(v)
         IN /\ GetPageTableEntryByVA(s, id, v) \in PTE
            /\ s.pd[id][i] = NoPage => GetPageTableEntryByVA(s, id, v) = NoPTE
            /\ s.pd[id][i] # NoPage =>
                 GetPageTableEntryByVA(s, id, v) = s.mem[s.pd[id][i]][VA_PTE_INDEX(v)]
            /\ id = 0 \/ v \notin UserVPages =>
                 GetPageTableEntryByVA(s, id, v).perm = "K"
<1> DEFINE i == VA_PDE_INDEX(v)
           k == VA_PTE_INDEX(v)
<1>1. i \in Idx /\ k \in Idx
  BY VPageFacts
<1>2. NoPTE \in PTE
  BY EmptyTableFacts
<1>3. CASE s.pd[id][i] = NoPage
  <2>1. GetPageTableEntryByVA(s, id, v) = NoPTE
    BY <1>3 DEF GetPageTableEntryByVA
  <2>2. id # 0 /\ i \in UserDirs
    BY <1>1, <1>3, IdentityFacts DEF Good, KernelMaps
  <2> QED
    BY <2>1, <2>2, <1>2, <1>3 DEF UserVPages
<1>4. CASE s.pd[id][i] # NoPage
  <2>1. s.mem[s.pd[id][i]] \in Table
    BY <1>1, <1>4, TablesAreTables
  <2>2. GetPageTableEntryByVA(s, id, v) = s.mem[s.pd[id][i]][k]
    BY <1>4, <2>1, TablesAreNotJunk DEF GetPageTableEntryByVA
  <2>3. GetPageTableEntryByVA(s, id, v) \in PTE
    BY <1>1, <2>1, <2>2 DEF Table
  <2>4. ASSUME id = 0 \/ v \notin UserVPages
        PROVE  GetPageTableEntryByVA(s, id, v).perm = "K"
    <3>1. id = 0 \/ i \notin UserDirs
      BY <2>4 DEF UserVPages
    <3>2. s.mem[s.pd[id][i]] = IdentityTable(i)
      BY <3>1, <1>1 DEF Good, KernelMaps
    <3> QED
      BY <3>2, <2>2, <1>1 DEF IdentityTable
  <2> QED
    BY <1>4, <2>2, <2>3, <2>4
<1> QED
  BY <1>3, <1>4
-----------------------------------------------------------------------------
(***************************************************************************)
(* The changes the functions make, one at a time.                          *)
(***************************************************************************)
\* ContainerAlloc, as long as nothing was freed, adds to the allocated pages
\* exactly the one it returns.
LEMMA AllocatedByOne ==
  ASSUME NEW p \in PhysMemState, p.lastFreedPage = NONE, NEW id \in Proc
  PROVE  LET r == ContainerAlloc(p, id)
         IN /\ r.pm \in PhysMemState /\ r.pm.lastFreedPage = NONE
            /\ r.page = NoPage => r.pm.allocated = p.allocated
            /\ r.page # NoPage => /\ r.page \in Page /\ r.page \notin p.allocated
                                  /\ r.pm.allocated = p.allocated \cup {r.page}
<1> DEFINE r == ContainerAlloc(p, id)
           q == Charged(p, id)
<1>1. /\ r.pm \in PhysMemState /\ r.pm.lastFreedPage = NONE
      /\ r.page # NoPage => r.page \in Page /\ r.page \notin p.allocated
  BY ContainerAllocEffect
<1>2. CASE p.containers[id].usage = p.containers[id].quota
  <2>1. r = [page |-> NoPage, pm |-> p]
    BY <1>2 DEF ContainerAlloc
  <2> QED
    BY <1>1, <2>1
<1>3. CASE p.containers[id].usage # p.containers[id].quota
  <2>1. r = PhysicalPageAlloc(q)
    BY <1>3 DEF ContainerAlloc, Charged
  <2>2. q \in PhysMemState /\ q.allocated = p.allocated /\ q.lastFreedPage = NONE
    BY ChargedEffect DEF Charged, PhysMemState
  <2> HIDE DEF q
  <2> DEFINE n == NextFit(q)
  <2>3. /\ r.page = n
        /\ r.pm = IF n = NoPage THEN q
                  ELSE [q EXCEPT !.allocated = q.allocated \cup {n}, !.lastAllocPage = n]
    BY <2>1, <2>2 DEF PhysicalPageAlloc
  <2> HIDE DEF n
  <2>4. n # NoPage => r.pm.allocated = q.allocated \cup {n}
    BY <2>2, <2>3 DEF PhysMemState
  <2>5. n = NoPage => r.pm.allocated = q.allocated
    BY <2>3
  <2> HIDE DEF r
  <2> QED
    BY <1>1, <2>2, <2>3, <2>4, <2>5 DEF r
<1> QED
  BY <1>2, <1>3

\* The pages a process has after it was given those that p has allocated and s
\* has not.
Given(h, id, s, p) == [h EXCEPT ![id] = h[id] \cup (p.allocated \ s.pm.allocated)]

\* A page from ContainerAlloc is its owner's and in no use; nothing else changes.
LEMMA ChargeKeeps ==
  ASSUME NEW s, NEW h, Good(s, h), NEW id \in Proc \ {0}
  PROVE  LET r == ContainerAlloc(s.pm, id)
             t == [s EXCEPT !.pm = r.pm]
             g == Given(h, id, s, r.pm)
         IN /\ Good(t, g)
            /\ t.pd = s.pd /\ t.mem = s.mem /\ t.pm = r.pm
            /\ s.pm.allocated \subseteq r.pm.allocated
            /\ r.page # NoPage => Fresh(t, g, id, r.page) /\ r.page \in Page
            /\ \A i \in Proc, v \in VPage :
                 GetPageTableEntryByVA(t, i, v) = GetPageTableEntryByVA(s, i, v)
<1> DEFINE r == ContainerAlloc(s.pm, id)
           t == [s EXCEPT !.pm = r.pm]
           g == Given(h, id, s, r.pm)
<1>1. /\ s \in KernelState /\ s.pm \in PhysMemState /\ s.pm.lastFreedPage = NONE
      /\ h \in [Proc -> SUBSET Page]
  BY DEF Good, KernelState, Owned
<1>2. /\ r.pm \in PhysMemState /\ r.pm.lastFreedPage = NONE
      /\ r.page = NoPage => r.pm.allocated = s.pm.allocated
      /\ r.page # NoPage => /\ r.page \in Page /\ r.page \notin s.pm.allocated
                            /\ r.pm.allocated = s.pm.allocated \cup {r.page}
  BY <1>1, AllocatedByOne
<1> HIDE DEF r
<1>3. /\ t \in KernelState /\ t.pm = r.pm /\ t.pd = s.pd /\ t.mem = s.mem
  BY <1>1, <1>2 DEF KernelState
<1> HIDE DEF t
<1>4. /\ g \in [Proc -> SUBSET Page]
      /\ \A i \in Proc : i # id => g[i] = h[i]
      /\ g[id] = IF r.page = NoPage THEN h[id] ELSE h[id] \cup {r.page}
  BY <1>1, <1>2 DEF Given
<1> HIDE DEF g
<1>5. Owned(t, g)
  <2>1. CASE r.page = NoPage
    BY <2>1, <1>1, <1>2, <1>3, <1>4 DEF Good, Owned
  <2>2. CASE r.page # NoPage
    <3>1. \A i \in Proc : g[i] \subseteq t.pm.allocated /\ NoPage \notin g[i]
      BY <2>2, <1>2, <1>3, <1>4 DEF Good, Owned
    <3>2. \A i, j \in Proc : i # j => g[i] \cap g[j] = {}
      BY <2>2, <1>2, <1>3, <1>4 DEF Good, Owned
    <3> QED
      BY <3>1, <3>2, <1>2, <1>3, <1>4 DEF Owned
  <2> QED
    BY <2>1, <2>2
<1>6. \A i \in Proc, v \in VPage :
        /\ GetPageTableEntryByVA(t, i, v) = GetPageTableEntryByVA(s, i, v)
        /\ Present(t, i, v) = Present(s, i, v)
  BY <1>3 DEF GetPageTableEntryByVA, Present
<1>7. \A i \in Proc : h[i] \subseteq g[i]
  BY <1>4
<1>8. KernelMaps(t)
  BY <1>3 DEF Good, KernelMaps
<1>9. UserTables(t, g)
  BY <1>3, <1>7 DEF Good, UserTables
<1>10. UserVPages \subseteq VPage
  BY DEF UserVPages
<1>11. UserMappings(t, g)
  <2>1. UserMappings(s, h)
    BY DEF Good
  <2>2. ASSUME NEW i \in Proc \ {0}, NEW v \in UserVPages, Present(t, i, v)
        PROVE  /\ GetPageTableEntryByVA(t, i, v).page \in g[i]
               /\ \A j \in UserDirs : t.pd[i][j] # GetPageTableEntryByVA(t, i, v).page
    BY <2>1, <2>2, <1>3, <1>6, <1>7, <1>10 DEF UserMappings
  <2>3. ASSUME NEW i \in Proc \ {0}, NEW v \in UserVPages, NEW w \in UserVPages,
               v # w, Present(t, i, v), Present(t, i, w)
        PROVE  GetPageTableEntryByVA(t, i, v).page # GetPageTableEntryByVA(t, i, w).page
    BY <2>1, <2>3, <1>6, <1>10 DEF UserMappings
  <2> QED
    BY <2>2, <2>3 DEF UserMappings
<1>12. ASSUME r.page # NoPage PROVE Fresh(t, g, id, r.page)
  <2>1. \A i \in Proc : r.page \notin h[i]
    BY <1>12, <1>2 DEF Good, Owned
  <2>2. ASSUME NEW i \in UserDirs PROVE t.pd[id][i] # r.page
    <3>1. i \in Idx
      BY UserDirFacts
    <3>2. CASE s.pd[id][i] = NoPage
      BY <3>2, <1>12, <1>3
    <3>3. CASE s.pd[id][i] # NoPage
      BY <3>1, <3>3, <2>1, <1>3, TablesAreTables
    <3> QED
      BY <3>2, <3>3
  <2>3. ASSUME NEW v \in UserVPages, Present(s, id, v)
        PROVE  GetPageTableEntryByVA(s, id, v).page # r.page
    BY <2>1, <2>3 DEF Good, UserMappings
  <2> QED
    BY <2>2, <2>3, <1>4, <1>6, <1>10, <1>12 DEF Fresh
<1> QED
  BY <1>2, <1>3, <1>5, <1>6, <1>8, <1>9, <1>11, <1>12 DEF Good, t, g, r

\* What is written to a page that is no table of the owner is written to a page no
\* entry of any directory names.
LEMMA NotATable ==
  ASSUME NEW s, NEW h, Good(s, h), NEW id \in Proc \ {0}, NEW p \in h[id],
         \A i \in UserDirs : s.pd[id][i] # p
  PROVE  /\ p \in Page /\ p # NoPage /\ p \notin IdentityPages
         /\ \A j \in Proc, i \in Idx : s.pd[j][i] # p
<1>1. p \in Page /\ p # NoPage /\ p \notin IdentityPages
  BY IdentityFacts DEF Good, Owned
<1>2. ASSUME NEW j \in Proc, NEW i \in Idx, s.pd[j][i] = p PROVE FALSE
  <2>1. j # 0 /\ i \in UserDirs /\ p \in h[j]
    BY <1>1, <1>2, TablesAreTables
  <2>2. j = id
    BY <2>1 DEF Good, Owned
  <2> QED
    BY <1>2, <2>1, <2>2
<1> QED
  BY <1>1, <1>2

\* The entries stay in order if tables, owners and mappings are as before.
LEMMA SameMappings ==
  ASSUME NEW s, NEW h, Good(s, h), NEW t, t \in KernelState,
         t.pm.allocated = s.pm.allocated, t.pm.lastFreedPage = s.pm.lastFreedPage,
         KernelMaps(t), UserTables(t, h),
         \A i \in Proc, v \in VPage :
           GetPageTableEntryByVA(t, i, v) = GetPageTableEntryByVA(s, i, v),
         \A i \in Proc \ {0}, d \in UserDirs, v \in UserVPages :
           Present(s, i, v) => t.pd[i][d] # GetPageTableEntryByVA(s, i, v).page
  PROVE  Good(t, h)
<1>1. UserVPages \subseteq VPage
  BY DEF UserVPages
<1>2. \A i \in Proc, v \in UserVPages :
        /\ GetPageTableEntryByVA(t, i, v) = GetPageTableEntryByVA(s, i, v)
        /\ Present(t, i, v) = Present(s, i, v)
  BY <1>1 DEF Present
<1>3. UserMappings(t, h)
  <2>1. UserMappings(s, h)
    BY DEF Good
  <2>2. ASSUME NEW i \in Proc \ {0}, NEW v \in UserVPages, Present(t, i, v)
        PROVE  /\ GetPageTableEntryByVA(t, i, v).page \in h[i]
               /\ \A j \in UserDirs : t.pd[i][j] # GetPageTableEntryByVA(t, i, v).page
    BY <2>1, <2>2, <1>2 DEF UserMappings
  <2>3. ASSUME NEW i \in Proc \ {0}, NEW v \in UserVPages, NEW w \in UserVPages,
               v # w, Present(t, i, v), Present(t, i, w)
        PROVE  GetPageTableEntryByVA(t, i, v).page # GetPageTableEntryByVA(t, i, w).page
    BY <2>1, <2>3, <1>2 DEF UserMappings
  <2> QED
    BY <2>2, <2>3 DEF UserMappings
<1>4. Owned(t, h)
  BY DEF Good, Owned
<1> QED
  BY <1>3, <1>4 DEF Good

\* A program's bytes on a page that is no table change no mapping.
LEMMA WriteKeeps ==
  ASSUME NEW s, NEW h, Good(s, h), NEW id \in Proc \ {0}, NEW p \in h[id],
         \A i \in UserDirs : s.pd[id][i] # p
  PROVE  LET t == [s EXCEPT !.mem = Written(s.mem, p)]
         IN /\ Good(t, h)
            /\ t.pm = s.pm /\ t.pd = s.pd /\ t.mem = Written(s.mem, p)
            /\ \A i \in Proc, v \in VPage :
                 GetPageTableEntryByVA(t, i, v) = GetPageTableEntryByVA(s, i, v)
<1> DEFINE t == [s EXCEPT !.mem = Written(s.mem, p)]
<1>1. /\ p \in Page /\ p # NoPage /\ p \notin IdentityPages
      /\ \A j \in Proc, i \in Idx : s.pd[j][i] # p
  BY NotATable
<1>2. s \in KernelState /\ s.mem \in [Page \cup IdentityPages -> Table \cup {Junk}]
  BY DEF Good, KernelState
<1>3. /\ Written(s.mem, p) \in [Page \cup IdentityPages -> Table \cup {Junk}]
      /\ \A q \in Page \cup IdentityPages : q # p => Written(s.mem, p)[q] = s.mem[q]
  BY <1>1, <1>2 DEF Written
<1>4. /\ t \in KernelState /\ t.pm = s.pm /\ t.pd = s.pd /\ t.mem = Written(s.mem, p)
  BY <1>2, <1>3 DEF KernelState
<1> HIDE DEF t
<1>5. \A j \in Proc, i \in Idx : /\ s.pd[j][i] \in Page \cup IdentityPages
                                 /\ t.mem[s.pd[j][i]] = s.mem[s.pd[j][i]]
  BY <1>1, <1>2, <1>3, <1>4 DEF KernelState
<1>6. \A i \in Proc, v \in VPage :
        GetPageTableEntryByVA(t, i, v) = GetPageTableEntryByVA(s, i, v)
  BY <1>4, <1>5, VPageFacts DEF GetPageTableEntryByVA
<1>7. KernelMaps(t)
  BY <1>1, <1>3, <1>4, IdentityFacts DEF Good, KernelMaps
<1>8. UserTables(t, h)
  BY <1>4, <1>5, UserDirFacts DEF Good, UserTables
<1>9. Good(t, h)
  BY <1>4, <1>6, <1>7, <1>8, SameMappings DEF Good, UserMappings
<1> QED
  BY <1>4, <1>6, <1>9 DEF t

\* The page p registered and cleared.
WithTable(s, id, d, p) == [pm  |-> s.pm,
                           pd  |-> [s.pd EXCEPT ![id][d] = p],
                           mem |-> [s.mem EXCEPT ![p] = EmptyTable]]

\* A fresh page registered as an empty table maps nothing.
LEMMA TableKeeps ==
  ASSUME NEW s, NEW h, Good(s, h), NEW id \in Proc \ {0}, NEW d \in UserDirs,
         NEW p, Fresh(s, h, id, p), s.pd[id][d] = NoPage,
         NEW t, t = WithTable(s, id, d, p)
  PROVE  /\ Good(t, h)
         /\ t.pm = s.pm /\ t.pd[id][d] = p
         /\ \A i \in UserDirs : i # d => t.pd[id][i] = s.pd[id][i]
         /\ \A i \in Proc, v \in VPage :
              GetPageTableEntryByVA(t, i, v) = GetPageTableEntryByVA(s, i, v)
<1>1. /\ p \in h[id] /\ p \in Page /\ p # NoPage /\ p \notin IdentityPages
      /\ \A j \in Proc, i \in Idx : s.pd[j][i] # p
  BY NotATable DEF Fresh
<1>2. /\ s \in KernelState /\ s.pm \in PhysMemState
      /\ s.pd \in [Proc -> [Idx -> Page \cup IdentityPages]]
      /\ s.mem \in [Page \cup IdentityPages -> Table \cup {Junk}]
  BY DEF Good, KernelState
<1>3. t.pm = s.pm /\ t.pd = [s.pd EXCEPT ![id][d] = p]
      /\ t.mem = [s.mem EXCEPT ![p] = EmptyTable]
  BY DEF WithTable
<1>4. /\ t.pd \in [Proc -> [Idx -> Page \cup IdentityPages]]
      /\ t.pd[id][d] = p
      /\ \A j \in Proc, i \in Idx : j # id \/ i # d => t.pd[j][i] = s.pd[j][i]
  BY <1>1, <1>2, <1>3, UserDirFacts
<1>5. /\ t.mem \in [Page \cup IdentityPages -> Table \cup {Junk}]
      /\ t.mem[p] = EmptyTable
      /\ \A q \in Page \cup IdentityPages : q # p => t.mem[q] = s.mem[q]
  BY <1>1, <1>2, <1>3, EmptyTableFacts
<1>6. t \in KernelState
  BY <1>2, <1>4, <1>5 DEF KernelState, WithTable
<1>7. ASSUME NEW j \in Proc, NEW v \in VPage
      PROVE  GetPageTableEntryByVA(t, j, v) = GetPageTableEntryByVA(s, j, v)
  <2>1. VA_PDE_INDEX(v) \in Idx /\ VA_PTE_INDEX(v) \in Idx
    BY VPageFacts
  <2>2. CASE j = id /\ VA_PDE_INDEX(v) = d
    <3>1. GetPageTableEntryByVA(s, j, v) = NoPTE
      BY <2>2 DEF GetPageTableEntryByVA
    <3>2. GetPageTableEntryByVA(t, j, v) = EmptyTable[VA_PTE_INDEX(v)]
      BY <2>2, <1>1, <1>4, <1>5, EmptyTableFacts, TablesAreNotJunk
         DEF GetPageTableEntryByVA
    <3> QED
      BY <3>1, <3>2, <2>1 DEF EmptyTable
  <2>3. CASE j # id \/ VA_PDE_INDEX(v) # d
    <3>1. t.pd[j][VA_PDE_INDEX(v)] = s.pd[j][VA_PDE_INDEX(v)]
      BY <2>1, <2>3, <1>4
    <3>2. t.mem[s.pd[j][VA_PDE_INDEX(v)]] = s.mem[s.pd[j][VA_PDE_INDEX(v)]]
      BY <2>1, <1>1, <1>2, <1>5
    <3> QED
      BY <3>1, <3>2 DEF GetPageTableEntryByVA
  <2> QED
    BY <2>2, <2>3
<1>8. KernelMaps(t)
  <2>1. \A i \in Idx : t.mem[IdentityPage(i)] = s.mem[IdentityPage(i)]
    BY <1>1, <1>5, IdentityFacts
  <2> QED
    BY <2>1, <1>4 DEF Good, KernelMaps
<1>9. UserTables(t, h)
  <2>1. ASSUME NEW j \in Proc \ {0}, NEW i \in UserDirs, t.pd[j][i] # NoPage
        PROVE  t.pd[j][i] \in h[j] /\ t.mem[t.pd[j][i]] # Junk
    <3>1. CASE j = id /\ i = d
      BY <3>1, <1>1, <1>4, <1>5, EmptyTableFacts, TablesAreNotJunk
    <3>2. CASE j # id \/ i # d
      <4>1. t.pd[j][i] = s.pd[j][i] /\ i \in Idx
        BY <3>2, <1>4, UserDirFacts
      <4>2. s.pd[j][i] \in h[j] /\ s.mem[s.pd[j][i]] # Junk
        BY <4>1, <2>1 DEF Good, UserTables
      <4>3. t.mem[s.pd[j][i]] = s.mem[s.pd[j][i]]
        BY <4>1, <1>1, <1>2, <1>5
      <4> QED
        BY <4>1, <4>2, <4>3
    <3> QED
      BY <3>1, <3>2
  <2>2. ASSUME NEW j \in Proc \ {0}, NEW i \in UserDirs, NEW k \in UserDirs,
               i # k, t.pd[j][i] # NoPage
        PROVE  t.pd[j][i] # t.pd[j][k]
    <3>1. i \in Idx /\ k \in Idx
      BY UserDirFacts
    <3>2. s.pd[j][i] # NoPage => s.pd[j][i] # s.pd[j][k]
      BY <2>2 DEF Good, UserTables
    <3> QED
      BY <3>1, <3>2, <2>2, <1>1, <1>4
  <2> QED
    BY <2>1, <2>2 DEF UserTables
<1>10. \A i \in Proc \ {0}, j \in UserDirs, v \in UserVPages :
         Present(s, i, v) => t.pd[i][j] # GetPageTableEntryByVA(s, i, v).page
  <2> SUFFICES ASSUME NEW i \in Proc \ {0}, NEW j \in UserDirs, NEW v \in UserVPages,
                      Present(s, i, v)
               PROVE  t.pd[i][j] # GetPageTableEntryByVA(s, i, v).page
    OBVIOUS
  <2>1. CASE i = id /\ j = d
    BY <2>1, <1>4 DEF Fresh
  <2>2. CASE i # id \/ j # d
    <3>1. t.pd[i][j] = s.pd[i][j]
      BY <2>2, <1>4, UserDirFacts
    <3> QED
      BY <3>1 DEF Good, UserMappings
  <2> QED
    BY <2>1, <2>2
<1>11. Good(t, h)
  <2>1. t.pm = s.pm
    BY <1>3
  <2> QED
    BY <2>1, <1>6, <1>7, <1>8, <1>9, <1>10, SameMappings
<1> QED
  BY <1>1, <1>4, <1>7, <1>11, <1>3, UserDirFacts

\* An entry for a fresh page changes what one address of one process reads.
LEMMA EntryKeeps ==
  ASSUME NEW s, NEW h, Good(s, h), NEW id \in Proc \ {0}, NEW va \in UserVPages,
         NEW p, Fresh(s, h, id, p), NEW perm \in {"R", "RW"},
         s.pd[id][VA_PDE_INDEX(va)] # NoPage,
         NEW pte, pte = [page |-> p, perm |-> perm],
         NEW t, t = SetPageTableEntry(s, id, va, pte)
  PROVE  /\ Good(t, h)
         /\ t.pm = s.pm /\ t.pd = s.pd
         /\ GetPageTableEntryByVA(t, id, va) = pte
         /\ \A i \in Proc, v \in VPage : i # id \/ v # va =>
              GetPageTableEntryByVA(t, i, v) = GetPageTableEntryByVA(s, i, v)
<1> DEFINE d == VA_PDE_INDEX(va)
           k == VA_PTE_INDEX(va)
           T == s.pd[id][d]
           new == [s.mem[T] EXCEPT ![k] = pte]
<1>1. /\ va \in VPage /\ d \in Idx /\ k \in Idx /\ d \in UserDirs
  BY VPageFacts DEF UserVPages
<1>2. /\ s \in KernelState /\ s.pm \in PhysMemState
      /\ s.pd \in [Proc -> [Idx -> Page \cup IdentityPages]]
      /\ s.mem \in [Page \cup IdentityPages -> Table \cup {Junk}]
      /\ p \in h[id] /\ p \in Page
  BY DEF Good, KernelState, Owned, Fresh
<1>3. T \in Page \cup IdentityPages /\ s.mem[T] \in Table /\ T \in h[id] /\ T \in Page
  BY <1>1, TablesAreTables
<1>4. pte \in PTE /\ new \in Table /\ new[k] = pte
      /\ \A j \in Idx : j # k => new[j] = s.mem[T][j]
  BY <1>1, <1>2, <1>3 DEF Table, PTE
<1>5. t = [s EXCEPT !.mem = [s.mem EXCEPT ![T] = new]]
  BY <1>2, <1>3, TablesAreNotJunk DEF SetPageTableEntry, KernelState
<1> HIDE DEF new
<1>6. /\ [s.mem EXCEPT ![T] = new] \in [Page \cup IdentityPages -> Table \cup {Junk}]
      /\ [s.mem EXCEPT ![T] = new][T] = new
      /\ \A q \in Page \cup IdentityPages : q # T => [s.mem EXCEPT ![T] = new][q] = s.mem[q]
  BY <1>2, <1>3, <1>4
<1>7. /\ t \in KernelState /\ t.pm = s.pm /\ t.pd = s.pd
      /\ t.mem[T] = new
      /\ \A q \in Page \cup IdentityPages : q # T => t.mem[q] = s.mem[q]
  BY <1>2, <1>5, <1>6 DEF KernelState
\* The table is in one place of one directory.
<1>8. ASSUME NEW j \in Proc, NEW i \in Idx, j # id \/ i # d PROVE s.pd[j][i] # T
  <2> SUFFICES ASSUME s.pd[j][i] = T PROVE FALSE
    OBVIOUS
  <2>1. T \notin IdentityPages
    BY <1>3, IdentityFacts
  <2>2. j # 0 /\ i \in UserDirs /\ T \in h[j]
    BY <2>1, TablesAreTables
  <2>3. j = id
    BY <2>2, <1>3 DEF Good, Owned
  <2> QED
    BY <2>2, <2>3, <1>1, <1>8 DEF Good, UserTables
<1>9. GetPageTableEntryByVA(t, id, va) = pte
  BY <1>4, <1>7, TablesAreNotJunk DEF GetPageTableEntryByVA
<1>10. ASSUME NEW j \in Proc, NEW v \in VPage, j # id \/ v # va
       PROVE  GetPageTableEntryByVA(t, j, v) = GetPageTableEntryByVA(s, j, v)
  <2>1. VA_PDE_INDEX(v) \in Idx /\ VA_PTE_INDEX(v) \in Idx
    BY VPageFacts
  <2>2. CASE j = id /\ VA_PDE_INDEX(v) = d
    <3>1. VA_PTE_INDEX(v) # k
      BY <2>2, <1>10, <1>1, SamePlace
    <3>2. GetPageTableEntryByVA(s, j, v) = s.mem[T][VA_PTE_INDEX(v)]
      BY <2>2, <1>3, TablesAreNotJunk DEF GetPageTableEntryByVA
    <3>3. GetPageTableEntryByVA(t, j, v) = new[VA_PTE_INDEX(v)]
      BY <2>2, <1>4, <1>7, TablesAreNotJunk DEF GetPageTableEntryByVA
    <3> QED
      BY <3>1, <3>2, <3>3, <2>1, <1>4
  <2>3. CASE j # id \/ VA_PDE_INDEX(v) # d
    <3>1. /\ s.pd[j][VA_PDE_INDEX(v)] # T
          /\ s.pd[j][VA_PDE_INDEX(v)] \in Page \cup IdentityPages
      BY <2>1, <2>3, <1>2, <1>8
    <3>2. t.mem[s.pd[j][VA_PDE_INDEX(v)]] = s.mem[s.pd[j][VA_PDE_INDEX(v)]]
      BY <3>1, <1>7
    <3> QED
      BY <3>2, <1>7 DEF GetPageTableEntryByVA
  <2> QED
    BY <2>2, <2>3
<1>11. KernelMaps(t)
  <2>1. \A i \in Idx : t.mem[IdentityPage(i)] = s.mem[IdentityPage(i)]
    BY <1>3, <1>7, IdentityFacts
  <2> QED
    BY <2>1, <1>7 DEF Good, KernelMaps
<1>12. UserTables(t, h)
  <2>1. ASSUME NEW j \in Proc, NEW i \in Idx, s.mem[s.pd[j][i]] # Junk
        PROVE  t.mem[s.pd[j][i]] # Junk
    <3>1. s.pd[j][i] \in Page \cup IdentityPages
      BY <1>2
    <3> QED
      BY <2>1, <3>1, <1>4, <1>7, TablesAreNotJunk
  <2>2. UserTables(s, h)
    BY DEF Good
  <2> QED
    BY <2>1, <2>2, <1>7, UserDirFacts DEF UserTables
<1>13. Owned(t, h)
  BY <1>7 DEF Good, Owned
<1>14. UserVPages \subseteq VPage
  BY DEF UserVPages
<1>15. ASSUME NEW j \in Proc, NEW v \in UserVPages, j # id \/ v # va
       PROVE  /\ GetPageTableEntryByVA(t, j, v) = GetPageTableEntryByVA(s, j, v)
              /\ Present(t, j, v) = Present(s, j, v)
  BY <1>10, <1>14, <1>15 DEF Present
<1>16. pte.page = p
  OBVIOUS
<1>17. UserMappings(t, h)
  <2>1. UserMappings(s, h)
    BY DEF Good
  <2>2. ASSUME NEW i \in Proc \ {0}, NEW v \in UserVPages, Present(t, i, v)
        PROVE  /\ GetPageTableEntryByVA(t, i, v).page \in h[i]
               /\ \A j \in UserDirs : t.pd[i][j] # GetPageTableEntryByVA(t, i, v).page
    <3>1. CASE i = id /\ v = va
      BY <3>1, <1>2, <1>7, <1>9, <1>16 DEF Fresh
    <3>2. CASE i # id \/ v # va
      BY <3>2, <2>1, <2>2, <1>7, <1>15 DEF UserMappings
    <3> QED
      BY <3>1, <3>2
  <2>3. ASSUME NEW v \in UserVPages, v # va, Present(t, id, v)
        PROVE  GetPageTableEntryByVA(t, id, v).page # p
    BY <2>3, <1>15 DEF Fresh
  <2>4. ASSUME NEW i \in Proc \ {0}, NEW v \in UserVPages, NEW w \in UserVPages,
               v # w, Present(t, i, v), Present(t, i, w)
        PROVE  GetPageTableEntryByVA(t, i, v).page # GetPageTableEntryByVA(t, i, w).page
    <3>1. CASE i = id /\ v = va
      BY <3>1, <2>3, <2>4, <1>9, <1>16
    <3>2. CASE i = id /\ w = va
      BY <3>2, <2>3, <2>4, <1>9, <1>16
    <3>3. CASE i # id \/ (v # va /\ w # va)
      BY <3>3, <2>1, <2>4, <1>15 DEF UserMappings
    <3> QED
      BY <3>1, <3>2, <3>3
  <2> QED
    BY <2>2, <2>4 DEF UserMappings
<1>18. Good(t, h)
  BY <1>7, <1>11, <1>12, <1>13, <1>17 DEF Good
<1> QED
  BY <1>7, <1>9, <1>10, <1>18
-----------------------------------------------------------------------------
(***************************************************************************)
(* AllocPage.                                                              *)
(***************************************************************************)
\* Whatever comes of AllocPage for an absent page of a process, nothing else
\* becomes different, and if there is no error the page is there.
LEMMA AllocPageKeeps ==
  ASSUME NEW s, NEW h, Good(s, h), NEW id \in Proc \ {0}, NEW va \in UserVPages,
         ~Present(s, id, va), NEW perm \in {"R", "RW"}
  PROVE  LET a == AllocPage(s, id, va, perm)
         IN /\ Good(a.s, Given(h, id, s, a.s.pm))
            /\ ~a.err => GetPageTableEntryByVA(a.s, id, va).perm = perm
            /\ a.err \in BOOLEAN
            /\ \A i \in Proc, v \in VPage : i # id \/ v # va =>
                 GetPageTableEntryByVA(a.s, i, v) = GetPageTableEntryByVA(s, i, v)
            /\ ~a.err => GetPageTableEntryByVA(a.s, id, va).page
                           = ContainerAlloc(s.pm, id).page
<1> DEFINE r == ContainerAlloc(s.pm, id)
           s1 == [s EXCEPT !.pm = r.pm]
           h1 == Given(h, id, s, r.pm)
           d == VA_PDE_INDEX(va)
           a == AllocPage(s, id, va, perm)
           pte == [page |-> r.page, perm |-> perm]
<1>1. va \in VPage /\ d \in Idx /\ d \in UserDirs /\ id \in Proc
  BY VPageFacts DEF UserVPages
<1>2. /\ Good(s1, h1)
      /\ s1.pd = s.pd /\ s1.mem = s.mem /\ s1.pm = r.pm
      /\ s.pm.allocated \subseteq r.pm.allocated
      /\ r.page # NoPage => Fresh(s1, h1, id, r.page) /\ r.page \in Page
      /\ \A i \in Proc, v \in VPage :
           GetPageTableEntryByVA(s1, i, v) = GetPageTableEntryByVA(s, i, v)
  BY ChargeKeeps
<1>3. CASE r.page = NoPage
  <2>1. a.err = TRUE /\ a.s = s1
    BY <1>3 DEF AllocPage
  <2> QED
    BY <2>1, <1>2
<1>4. CASE r.page # NoPage /\ s1.pd[id][d] # NoPage
  <2> DEFINE t == SetPageTableEntry(s1, id, va, pte)
  <2>1. a.err = FALSE /\ a.s = t
    BY <1>4 DEF AllocPage, MapPage
  <2> HIDE DEF s1, r, h1, a, d, t, pte
  <2>2. /\ Good(t, h1) /\ t.pm = s1.pm /\ GetPageTableEntryByVA(t, id, va) = pte
        /\ \A i \in Proc, v \in VPage : i # id \/ v # va =>
             GetPageTableEntryByVA(t, i, v) = GetPageTableEntryByVA(s1, i, v)
    BY <1>2, <1>4, EntryKeeps DEF d, t, pte
  <2>3. pte.perm = perm /\ pte.page = r.page
    BY DEF pte
  <2>4. Given(h, id, s, t.pm) = h1
    BY <2>2, <1>2 DEF h1
  <2>5. Good(a.s, Given(h, id, s, a.s.pm))
    BY <2>1, <2>2, <2>4
  <2> QED
    BY <2>1, <2>2, <2>3, <2>5, <1>2 DEF a, r
<1>5. CASE r.page # NoPage /\ s1.pd[id][d] = NoPage
  <2> DEFINE q == ContainerAlloc(s1.pm, id)
             s2 == [s1 EXCEPT !.pm = q.pm]
             h2 == Given(h1, id, s1, q.pm)
             t == AllocPageTable(s1, id, va)
  <2> HIDE DEF s1, r, h1, a, pte, d
  <2>1. /\ Good(s2, h2)
        /\ s2.pd = s1.pd /\ s2.mem = s1.mem /\ s2.pm = q.pm
        /\ s1.pm.allocated \subseteq q.pm.allocated
        /\ q.page # NoPage => Fresh(s2, h2, id, q.page) /\ q.page \in Page
        /\ \A i \in Proc, v \in VPage :
             GetPageTableEntryByVA(s2, i, v) = GetPageTableEntryByVA(s1, i, v)
    BY <1>2, ChargeKeeps
  <2>2. h2 = Given(h, id, s, q.pm)
    <3>1. h \in [Proc -> SUBSET Page]
      BY DEF Good, Owned
    <3>2. h1[id] = h[id] \cup (s1.pm.allocated \ s.pm.allocated)
          /\ h1 = [h EXCEPT ![id] = h1[id]]
      BY <3>1, <1>2 DEF Given, h1
    <3>3. h2 = [h1 EXCEPT ![id] = h1[id] \cup (q.pm.allocated \ s1.pm.allocated)]
      BY DEF Given
    <3>4. h1[id] \cup (q.pm.allocated \ s1.pm.allocated)
            = h[id] \cup (q.pm.allocated \ s.pm.allocated)
      BY <3>2, <2>1, <1>2
    <3>5. h2 = [h1 EXCEPT ![id] = h[id] \cup (q.pm.allocated \ s.pm.allocated)]
      BY <3>3, <3>4
    <3> HIDE DEF q, h2
    <3> QED
      BY <3>1, <3>2, <3>5 DEF Given
  <2>3. CASE q.page = NoPage
    <3>1. t = [page |-> NoPage, s |-> s2]
      BY <2>3 DEF AllocPageTable
    <3>2. a.err = TRUE /\ a.s = s2
      BY <3>1, <1>5 DEF AllocPage, MapPage, a, s1, r, d
    <3> QED
      BY <3>2, <2>1, <2>2, <1>2 DEF a
  <2>4. CASE q.page # NoPage
    <3> DEFINE s3 == WithTable(s2, id, d, q.page)
               s4 == SetPageTableEntry(s3, id, va, pte)
    <3>1. t.page = q.page /\ t.s = s3
      BY <2>1, <2>4 DEF AllocPageTable, d, WithTable
    <3>2. a.err = FALSE /\ a.s = s4
      BY <3>1, <2>4, <1>5 DEF AllocPage, MapPage, a, s1, r, d, pte
    <3>3. s2.pd[id][d] = NoPage
      BY <2>1, <1>5
    <3> HIDE DEF s2, q, t, h2, s3, s4
    <3>4. /\ Good(s3, h2) /\ s3.pd[id][d] = q.page
          /\ \A i \in UserDirs : i # d => s3.pd[id][i] = s2.pd[id][i]
          /\ \A i \in Proc, v \in VPage :
               GetPageTableEntryByVA(s3, i, v) = GetPageTableEntryByVA(s2, i, v)
      <4>1. Good(s2, h2) /\ Fresh(s2, h2, id, q.page) /\ d \in UserDirs
        BY <2>1, <2>4, <1>1
      <4> QED
        BY <4>1, <3>3, TableKeeps DEF s3
    <3>5. s3.pm = s2.pm
      BY DEF s3, WithTable
    <3>6. Fresh(s3, h2, id, r.page)
      <4>1. r.page \in h1[id] /\ h1[id] \subseteq s1.pm.allocated
        BY <1>2, <1>5 DEF Good, Owned, Fresh
      <4>2. q.page \notin s1.pm.allocated
        BY <1>2, <2>4, AllocatedByOne DEF q, Good, KernelState, Owned
      <4>3. r.page \in h2[id]
        <5>1. h1 \in [Proc -> SUBSET Page]
          BY <1>2 DEF Good, Owned
        <5> QED
          BY <5>1, <4>1 DEF h2, Given
      <4>4. \A i \in UserDirs : s3.pd[id][i] # r.page
        BY <3>4, <4>1, <4>2, <2>1, <1>2, <1>5 DEF Fresh
      <4>5. \A v \in UserVPages : Present(s3, id, v) =>
              GetPageTableEntryByVA(s3, id, v).page # r.page
        <5>1. \A v \in UserVPages :
                GetPageTableEntryByVA(s3, id, v) = GetPageTableEntryByVA(s1, id, v)
          BY <3>4, <2>1 DEF UserVPages
        <5> QED
          BY <5>1, <1>2, <1>5 DEF Fresh, Present
      <4> QED
        BY <4>3, <4>4, <4>5 DEF Fresh
    <3>7. /\ Good(s4, h2) /\ s4.pm = s3.pm /\ GetPageTableEntryByVA(s4, id, va) = pte
          /\ \A i \in Proc, v \in VPage : i # id \/ v # va =>
               GetPageTableEntryByVA(s4, i, v) = GetPageTableEntryByVA(s3, i, v)
      BY <3>4, <3>6, <2>4, EntryKeeps DEF pte, d, s4
    <3>8. Given(h, id, s, a.s.pm) = h2
      BY <3>2, <3>5, <3>7, <2>1, <2>2
    <3>9. Good(a.s, Given(h, id, s, a.s.pm))
      BY <3>2, <3>7, <3>8
    <3>10. /\ GetPageTableEntryByVA(a.s, id, va).perm = perm
           /\ GetPageTableEntryByVA(a.s, id, va).page = r.page
      BY <3>2, <3>7 DEF pte
    <3>11. \A i \in Proc, v \in VPage : i # id \/ v # va =>
             GetPageTableEntryByVA(a.s, i, v) = GetPageTableEntryByVA(s, i, v)
      BY <3>2, <3>4, <3>7, <2>1, <1>2
    <3> QED
      BY <3>2, <3>9, <3>10, <3>11 DEF a, r
  <2> QED
    BY <2>3, <2>4
<1> QED
  BY <1>3, <1>4, <1>5
-----------------------------------------------------------------------------
(***************************************************************************)
(* The inductive invariant.                                                *)
(***************************************************************************)
\* The pages ELFLoad still has to load are absent, and the pages PTCopyIn still
\* has to copy lie in the user half.
TaskInv ==
  /\ task.kind = "load" =>
       /\ task.pid # 0
       /\ task.left > 0 => task.perm \in {"R", "RW"}
       /\ \A v \in task.va .. task.va + task.left - 1 :
            VA_PDE_INDEX(v) \in UserDirs /\ ~Present(Kernel, task.pid, v)
  /\ task.kind = "copy" =>
       /\ task.pid # 0 /\ task.left > 0
       /\ MEM_USERLO_PI <= task.va /\ task.va + task.left <= MEM_USERHI_PI

VMInv == /\ freed \in BOOLEAN
         /\ Good(Kernel, held)
         /\ task \in Task /\ running \subseteq Proc \ {0}
         /\ TaskInv

\* What MappingsKept says of one step.
Kept == \A id \in Proc \ {0}, v \in UserVPages :
          Present(Kernel, id, v) =>
            GetPageTableEntryByVA(Kernel', id, v) = GetPageTableEntryByVA(Kernel, id, v)

\* The record of the three variables.
LEMMA KernelFields ==
  /\ Kernel.pm = pm /\ Kernel.pd = pd /\ Kernel.mem = mem
  /\ \A s \in KernelState : pm' = s.pm /\ pd' = s.pd /\ mem' = s.mem => Kernel' = s
<1>1. Kernel.pm = pm /\ Kernel.pd = pd /\ Kernel.mem = mem
  BY DEF Kernel
<1>2. ASSUME NEW s \in KernelState, pm' = s.pm, pd' = s.pd, mem' = s.mem
      PROVE  Kernel' = s
  <2>1. Kernel' = [pm |-> s.pm, pd |-> s.pd, mem |-> s.mem]
    BY <1>2 DEF Kernel
  <2>2. s = [pm |-> s.pm, pd |-> s.pd, mem |-> s.mem]
    BY DEF KernelState
  <2> QED
    BY <2>1, <2>2
<1> QED
  BY <1>1, <1>2

LEMMA InitVMInv == VMInit => VMInv
<1> SUFFICES ASSUME VMInit PROVE VMInv
  OBVIOUS
<1>1. Init /\ pd = InitialDirs /\ mem = InitialMem /\ task = Idle /\ running = {}
  BY DEF VMInit
<1>2. /\ pm \in PhysMemState /\ freed \in BOOLEAN
      /\ pm.lastFreedPage = NONE /\ held = [id \in Proc |-> {}]
  <2>1. TypeOK
    BY <1>1, InitInv DEF Inv
  <2>2. freed \in BOOLEAN
    BY <2>1 DEF TypeOK
  <2>3. pm.lastFreedPage = NONE /\ held = [id \in Proc |-> {}]
    BY <1>1 DEF Init, PhysicalMemoryInit
  <2> QED
    BY <2>1, <2>2, <2>3 DEF TypeOK
<1>3. ASSUME NEW i \in Idx PROVE IdentityTable(i) \in Table
  <2>1. ASSUME NEW j \in Idx PROVE i * NUM_TABLES + j \in Page
    <3>1. NUM_TABLES \in Nat /\ NUM_TABLES > 0 /\ i \in Nat /\ j \in Nat
          /\ i + 1 <= NUM_TABLES /\ j < NUM_TABLES
      BY VPageFacts DEF Idx
    <3>2. (i + 1) * NUM_TABLES <= NUM_TABLES * NUM_TABLES
      BY <3>1
    <3>3. (i + 1) * NUM_TABLES = i * NUM_TABLES + NUM_TABLES
      BY <3>1
    <3>4. i * NUM_TABLES \in Nat /\ NUM_TABLES * NUM_TABLES \in Nat
      BY <3>1
    <3> QED
      BY <3>1, <3>2, <3>3, <3>4, VirtMemAssumption DEF Page
  <2> QED
    BY <2>1 DEF IdentityTable, Table, PTE
<1>4. ASSUME NEW i \in Idx
      PROVE  /\ IdentityPage(i) - NUM_PHYSICAL_PAGES = i
             /\ mem[IdentityPage(i)] = IdentityTable(i)
  <2>1. IdentityPage(i) - NUM_PHYSICAL_PAGES = i
    BY PhysMemAssumption, VPageFacts DEF IdentityPage, Idx
  <2> QED
    BY <1>1, <2>1, IdentityFacts DEF InitialMem
<1>5. mem \in [Page \cup IdentityPages -> Table \cup {Junk}]
  <2>1. ASSUME NEW p \in Page \cup IdentityPages
        PROVE  mem[p] \in Table \cup {Junk}
    <3>1. CASE p \in Page
      BY <3>1, <1>1 DEF InitialMem
    <3>2. CASE p \in IdentityPages
      BY <3>2, <1>3, <1>4 DEF IdentityPages
    <3> QED
      BY <3>1, <3>2
  <2>2. DOMAIN mem = Page \cup IdentityPages /\ mem = [p \in DOMAIN mem |-> mem[p]]
    BY <1>1 DEF InitialMem
  <2> QED
    BY <2>1, <2>2
<1>6. /\ pd \in [Proc -> [Idx -> Page \cup IdentityPages]]
      /\ \A id \in Proc : \A i \in Idx :
           pd[id][i] = IF id # 0 /\ i \in UserDirs THEN NoPage ELSE IdentityPage(i)
  BY <1>1, IdentityFacts DEF InitialDirs
<1>7. Kernel \in KernelState
  BY <1>2, <1>5, <1>6 DEF Kernel, KernelState
<1>8. Owned(Kernel, held)
  BY <1>2, KernelFields DEF Owned
<1>9. KernelMaps(Kernel)
  BY <1>4, <1>6, KernelFields DEF KernelMaps
<1>10. UserTables(Kernel, held)
  BY <1>6, KernelFields, UserDirFacts DEF UserTables
<1>11. ASSUME NEW id \in Proc \ {0}, NEW v \in UserVPages PROVE ~Present(Kernel, id, v)
  <2>1. VA_PDE_INDEX(v) \in UserDirs /\ VA_PDE_INDEX(v) \in Idx
    BY UserDirFacts DEF UserVPages
  <2>2. GetPageTableEntryByVA(Kernel, id, v) = NoPTE
    BY <2>1, <1>6, KernelFields DEF GetPageTableEntryByVA
  <2> QED
    BY <2>2 DEF Present, NoPTE
<1>12. UserMappings(Kernel, held)
  BY <1>11 DEF UserMappings
<1>13. task \in Task /\ TaskInv
  BY <1>1, ContainersAssumption DEF Idle, Task, TaskInv, Proc
<1> QED
  BY <1>1, <1>2, <1>7, <1>8, <1>9, <1>10, <1>12, <1>13 DEF VMInv, Good
-----------------------------------------------------------------------------
(***************************************************************************)
(* The actions, one lemma for each.                                        *)
(***************************************************************************)
LEMMA CreateProcessInv ==
  ASSUME VMInv, NEW q \in Quotas, CreateProcess(q), UNCHANGED freed
  PROVE  VMInv' /\ Kept
<1> DEFINE cs == ContainerSplit(pm.containers, 0, q)
           c == ChildID(pm.containers, 0)
<1>1. /\ Kernel \in KernelState /\ pm \in PhysMemState
      /\ pm.containers \in [Proc -> Container] /\ q \in Nat /\ 0 \in Proc
  BY PhysMemAssumption, ContainersAssumption, KernelFields
     DEF VMInv, Good, KernelState, PhysMemState, Proc
<1>2. c \in Proc /\ c # 0
  <2>1. pm.containers[0].numChildren \in Nat
    BY <1>1 DEF Container
  <2> QED
    BY <2>1, ContainersAssumption DEF CreateProcess, ChildInArray, ChildID
<1>3. cs \in [Proc -> Container]
  BY <1>1, <1>2, ContainerSplitEffect
<1> HIDE DEF cs, c
<1>4. /\ pm' = [pm EXCEPT !.containers = cs] /\ pd' = pd /\ mem' = mem /\ held' = held
      /\ task' = [Idle EXCEPT !.kind = "load", !.pid = c]
      /\ running' = running /\ freed' = freed
  BY DEF CreateProcess, cs, c
<1>5. /\ pm' \in PhysMemState /\ pm'.allocated = pm.allocated
      /\ pm'.lastFreedPage = pm.lastFreedPage
  BY <1>1, <1>3, <1>4 DEF PhysMemState
<1>6. Kernel' \in KernelState /\ Kernel'.pm = pm' /\ Kernel'.pd = pd /\ Kernel'.mem = mem
  BY <1>1, <1>4, <1>5 DEF Kernel, KernelState
<1>7. \A id \in Proc, v \in VPage :
        GetPageTableEntryByVA(Kernel', id, v) = GetPageTableEntryByVA(Kernel, id, v)
  BY <1>6, KernelFields DEF GetPageTableEntryByVA
<1>8. Good(Kernel', held)
  <2>1. KernelMaps(Kernel') /\ UserTables(Kernel', held)
    BY <1>6, KernelFields DEF VMInv, Good, KernelMaps, UserTables
  <2>2. Good(Kernel, held)
    BY DEF VMInv
  <2>3. \A i \in Proc \ {0}, d \in UserDirs, v \in UserVPages :
          Present(Kernel, i, v) => Kernel'.pd[i][d] # GetPageTableEntryByVA(Kernel, i, v).page
    BY <2>2, <1>6, KernelFields DEF Good, UserMappings
  <2> QED
    BY <2>1, <2>2, <2>3, <1>5, <1>6, <1>7, KernelFields, SameMappings
<1>9. task' \in Task /\ TaskInv'
  <2>1. /\ task' \in Task /\ task'.kind = "load" /\ task'.pid = c /\ task'.left = 0
        /\ task'.va = 0
    BY <1>2, <1>4 DEF Idle, Task
  <2> QED
    BY <2>1, <1>2 DEF TaskInv
<1>10. Kept
  BY <1>7 DEF Kept, UserVPages
<1> QED
  BY <1>4, <1>8, <1>9, <1>10 DEF VMInv

\* Steps that only change which loop the kernel is in.
LEMMA QuietInv ==
  ASSUME VMInv, UNCHANGED <<pm, held, pd, mem>>
  PROVE  Good(Kernel', held') /\ Kept /\ Kernel' = Kernel
<1>1. Kernel' = Kernel
  BY DEF Kernel
<1> QED
  BY <1>1 DEF VMInv, Kept

LEMMA LoadSegmentInv ==
  ASSUME VMInv, NEW va \in VPage, NEW n \in 1 .. NUM_TABLES, NEW perm \in {"R", "RW"},
         LoadSegment(va, n, perm), UNCHANGED freed
  PROVE  VMInv' /\ Kept
<1>1. /\ task.kind = "load" /\ task \in Task /\ task.pid # 0
      /\ \A v \in va .. va + n - 1 :
           VA_PDE_INDEX(v) \in UserDirs /\ ~Present(Kernel, task.pid, v)
      /\ task' = [task EXCEPT !.va = va, !.left = n, !.perm = perm]
  BY DEF LoadSegment, VMInv, TaskInv
<1>2. Good(Kernel', held') /\ Kept /\ Kernel' = Kernel
  BY QuietInv DEF LoadSegment
<1>3. /\ task' \in Task /\ task'.kind = "load" /\ task'.pid = task.pid
      /\ task'.va = va /\ task'.left = n /\ task'.perm = perm
  <2>1. va \in Nat /\ n \in Nat
    BY VPageFacts
  <2> QED
    BY <1>1, <2>1 DEF Task
<1>4. TaskInv'
  BY <1>1, <1>2, <1>3 DEF TaskInv
<1> QED
  BY <1>2, <1>3, <1>4 DEF VMInv, LoadSegment

LEMMA LoadedInv ==
  ASSUME VMInv, Loaded, UNCHANGED freed
  PROVE  VMInv' /\ Kept
<1>1. Good(Kernel', held') /\ Kept
  BY QuietInv DEF Loaded
<1>2. task' = Idle /\ task \in Task /\ task.pid # 0 /\ running' = running \cup {task.pid}
  BY DEF Loaded, VMInv, TaskInv
<1>3. task' \in Task /\ task'.kind = "idle" /\ task.pid \in Proc
  BY <1>2, ContainersAssumption DEF Idle, Task, Proc
<1>4. TaskInv' /\ running' \subseteq Proc \ {0}
  BY <1>2, <1>3 DEF TaskInv, VMInv
<1> QED
  BY <1>1, <1>3, <1>4 DEF VMInv

LEMMA ProtectionFaultInv ==
  ASSUME VMInv, NEW id \in running, NEW va \in VPage, ProtectionFault(id, va),
         UNCHANGED freed
  PROVE  VMInv' /\ Kept
<1>1. Good(Kernel', held') /\ Kept
  BY QuietInv DEF ProtectionFault
<1>2. task' \in Task /\ task'.kind = "halted"
  BY ContainersAssumption DEF ProtectionFault, Idle, Task, Proc
<1> QED
  BY <1>1, <1>2 DEF VMInv, TaskInv, ProtectionFault

LEMMA BeginCopyInv ==
  ASSUME VMInv, NEW id \in running, NEW va \in VPage, NEW n \in 1 .. NUM_TABLES,
         BeginCopy(id, va, n), UNCHANGED freed
  PROVE  VMInv' /\ Kept
<1>1. Good(Kernel', held') /\ Kept
  BY QuietInv DEF BeginCopy
<1>2. /\ task' = [Idle EXCEPT !.kind = "copy", !.pid = id, !.va = va, !.left = n]
      /\ MEM_USERLO_PI <= va /\ va + n <= MEM_USERHI_PI
      /\ id \in Proc \ {0} /\ va \in Nat /\ n \in Nat /\ n > 0
  BY VPageFacts DEF BeginCopy, VMInv
<1>3. /\ task' \in Task /\ task'.kind = "copy" /\ task'.pid = id
      /\ task'.va = va /\ task'.left = n
  BY <1>2 DEF Idle, Task
<1> QED
  BY <1>1, <1>2, <1>3 DEF VMInv, TaskInv, BeginCopy

\* A program's bytes on a mapped page.
LEMMA UserWriteInv ==
  ASSUME VMInv, NEW id \in running, NEW va \in VPage, UserWrite(id, va), UNCHANGED freed
  PROVE  VMInv' /\ Kept
<1> DEFINE pte == GetPageTableEntryByVA(Kernel, id, va)
           t == [Kernel EXCEPT !.mem = Written(Kernel.mem, pte.page)]
<1>1. /\ pte.perm = "RW" /\ id \in Proc \ {0} /\ Good(Kernel, held)
      /\ mem' = Written(mem, pte.page) /\ pm' = pm /\ held' = held /\ pd' = pd
      /\ task' = task /\ running' = running
  BY DEF UserWrite, VMInv
<1>2. va \in UserVPages
  BY <1>1, EntryFacts
<1>3. pte.page \in held[id] /\ \A i \in UserDirs : Kernel.pd[id][i] # pte.page
  BY <1>1, <1>2 DEF Good, UserMappings, Present
<1> HIDE DEF pte
<1>4. /\ Good(t, held)
      /\ t.pm = Kernel.pm /\ t.pd = Kernel.pd /\ t.mem = Written(Kernel.mem, pte.page)
      /\ \A i \in Proc, v \in VPage :
           GetPageTableEntryByVA(t, i, v) = GetPageTableEntryByVA(Kernel, i, v)
  BY <1>1, <1>3, WriteKeeps
<1> HIDE DEF t
<1>5. Kernel' = t
  BY <1>1, <1>4, KernelFields DEF Good
<1>6. Kept
  BY <1>4, <1>5 DEF Kept, UserVPages
<1>7. TaskInv'
  <2>1. task.kind \notin {"load", "copy"}
    BY DEF UserWrite, Idle
  <2> QED
    BY <2>1, <1>1 DEF TaskInv
<1> QED
  BY <1>1, <1>4, <1>5, <1>6, <1>7 DEF VMInv

\* AllocPage for an absent page on behalf of a process: the mappings there were
\* stay, whether or not it succeeds.
LEMMA AllocPageStep ==
  ASSUME VMInv, NEW id \in Proc \ {0}, NEW va \in UserVPages,
         ~Present(Kernel, id, va), NEW perm \in {"R", "RW"},
         NEW a, a = AllocPage(Kernel, id, va, perm), Becomes(a.s, id)
  PROVE  /\ Good(a.s, held') /\ a.err \in BOOLEAN
         /\ a.s \in KernelState /\ a.s.pm = pm' /\ a.s.pd = pd'
         /\ ~a.err => GetPageTableEntryByVA(a.s, id, va).perm = perm
         /\ \A i \in Proc, v \in VPage : i # id \/ v # va =>
              GetPageTableEntryByVA(a.s, i, v) = GetPageTableEntryByVA(Kernel, i, v)
<1>1. held' = Given(held, id, Kernel, a.s.pm) /\ a.s.pm = pm' /\ a.s.pd = pd'
  BY KernelFields DEF Becomes, Given
<1>2. Good(Kernel, held)
  BY DEF VMInv
<1>3. /\ Good(a.s, Given(held, id, Kernel, a.s.pm))
      /\ ~a.err => GetPageTableEntryByVA(a.s, id, va).perm = perm
      /\ a.err \in BOOLEAN
      /\ \A i \in Proc, v \in VPage : i # id \/ v # va =>
           GetPageTableEntryByVA(a.s, i, v) = GetPageTableEntryByVA(Kernel, i, v)
  BY <1>2, AllocPageKeeps
<1>4. a.s \in KernelState
  BY <1>3 DEF Good
<1> QED
  BY <1>1, <1>3, <1>4

\* An absent page is not one whose mapping must be kept.
LEMMA OthersKept ==
  ASSUME NEW id \in Proc \ {0}, NEW va \in UserVPages, ~Present(Kernel, id, va),
         \A i \in Proc, v \in VPage : i # id \/ v # va =>
           GetPageTableEntryByVA(Kernel', i, v) = GetPageTableEntryByVA(Kernel, i, v)
  PROVE  Kept
BY DEF Kept, UserVPages

\* One page further in the loop.
LEMMA NextTurn ==
  ASSUME NEW t \in Task, t.left > 0,
         NEW u, u = [t EXCEPT !.va = t.va + 1, !.left = t.left - 1]
  PROVE  /\ u \in Task /\ u.kind = t.kind /\ u.pid = t.pid
         /\ u.va = t.va + 1 /\ u.left = t.left - 1 /\ u.perm = t.perm
<1>1. t.va + 1 \in Nat /\ t.left - 1 \in Nat
  BY DEF Task
<1> DEFINE x == t.va + 1
           y == t.left - 1
<1>2. x \in Nat /\ y \in Nat /\ u = [t EXCEPT !.va = x, !.left = y]
  BY <1>1
<1> HIDE DEF x, y
<1>3. /\ u \in Task /\ u.kind = t.kind /\ u.pid = t.pid
      /\ u.va = x /\ u.left = y /\ u.perm = t.perm
  BY <1>2 DEF Task
<1> QED
  BY <1>3 DEF x, y

LEMMA PageFaultInv ==
  ASSUME VMInv, NEW id \in running, NEW va \in VPage, PageFault(id, va), UNCHANGED freed
  PROVE  VMInv' /\ Kept
<1> DEFINE a == AllocPage(Kernel, id, va, "RW")
<1>1. /\ task = Idle /\ ~Present(Kernel, id, va) /\ Becomes(a.s, id) /\ mem' = a.s.mem
      /\ task' = IF a.err THEN [Idle EXCEPT !.kind = "halted"] ELSE Idle
      /\ running' = running /\ freed' = freed
      /\ id \in Proc \ {0} /\ Good(Kernel, held)
  BY DEF PageFault, VMInv
<1>2. va \in UserVPages
  BY <1>1, EntryFacts DEF Present
<1> HIDE DEF a
<1>3. /\ Good(a.s, held') /\ a.s \in KernelState /\ a.s.pm = pm' /\ a.s.pd = pd'
      /\ \A i \in Proc, v \in VPage : i # id \/ v # va =>
           GetPageTableEntryByVA(a.s, i, v) = GetPageTableEntryByVA(Kernel, i, v)
  BY <1>1, <1>2, AllocPageStep DEF a
<1>4. Kernel' = a.s
  BY <1>1, <1>3, KernelFields
<1>5. Kept
  BY <1>1, <1>2, <1>3, <1>4, OthersKept
<1>6. task' \in Task /\ task'.kind \in {"idle", "halted"}
  BY <1>1, ContainersAssumption DEF Idle, Task, Proc
<1>7. TaskInv'
  BY <1>6 DEF TaskInv
<1> QED
  BY <1>1, <1>3, <1>4, <1>5, <1>6, <1>7 DEF VMInv

LEMMA CopyPageInv ==
  ASSUME VMInv, CopyPage, UNCHANGED freed
  PROVE  VMInv' /\ Kept
<1> DEFINE a == AllocPage(Kernel, task.pid, task.va, "RW")
           s == IF Present(Kernel, task.pid, task.va) THEN Kernel ELSE a.s
<1>1. /\ task.kind = "copy" /\ task \in Task /\ task.pid # 0 /\ task.left > 0
      /\ MEM_USERLO_PI <= task.va /\ task.va + task.left <= MEM_USERHI_PI
      /\ Becomes(s, task.pid) /\ mem' = s.mem
      /\ task' = IF task.left > 1
                 THEN [task EXCEPT !.va = task.va + 1, !.left = task.left - 1]
                 ELSE Idle
      /\ running' = running /\ freed' = freed /\ Good(Kernel, held)
  BY DEF CopyPage, VMInv, TaskInv
<1> HIDE DEF a
<1>2. /\ task.pid \in Proc \ {0} /\ task.va \in Nat /\ task.left \in Nat
      /\ task.va < MEM_USERHI_PI
  BY <1>1, PhysMemAssumption DEF Task
<1>3. task.va \in UserVPages
  BY <1>1, <1>2, UserPageFacts
<1>4. Good(Kernel', held') /\ Kept
  <2>1. CASE Present(Kernel, task.pid, task.va)
    <3>1. s = Kernel
      BY <2>1
    <3>2. UNCHANGED <<pm, pd, mem>>
      BY <1>1, <3>1, KernelFields DEF Becomes
    <3>3. held' = held
      <4>1. held' = Given(held, task.pid, Kernel, pm)
        BY <1>1, <3>1, KernelFields DEF Becomes, Given
      <4>2. held \in [Proc -> SUBSET Page]
        BY <1>1 DEF Good, Owned
      <4>3. Given(held, task.pid, Kernel, pm) = held
        BY <4>2, <1>2, KernelFields DEF Given
      <4> QED
        BY <4>1, <4>3
    <3> QED
      BY <3>2, <3>3, QuietInv
  <2>2. CASE ~Present(Kernel, task.pid, task.va)
    <3>1. s = a.s
      BY <2>2
    <3> HIDE DEF s
    <3>2. /\ Good(a.s, held') /\ a.s \in KernelState /\ a.s.pm = pm' /\ a.s.pd = pd'
          /\ \A i \in Proc, v \in VPage : i # task.pid \/ v # task.va =>
               GetPageTableEntryByVA(a.s, i, v) = GetPageTableEntryByVA(Kernel, i, v)
      BY <1>1, <1>2, <1>3, <2>2, <3>1, AllocPageStep DEF a
    <3>3. Kernel' = a.s
      BY <1>1, <3>1, <3>2, KernelFields
    <3> QED
      BY <1>2, <1>3, <2>2, <3>2, <3>3, OthersKept
  <2> QED
    BY <2>1, <2>2
<1>5. task' \in Task /\ TaskInv'
  <2>1. CASE task.left > 1
    <3>1. /\ task' \in Task /\ task'.kind = "copy" /\ task'.pid = task.pid
          /\ task'.va = task.va + 1 /\ task'.left = task.left - 1
      <4>1. task' = [task EXCEPT !.va = task.va + 1, !.left = task.left - 1]
        BY <1>1, <2>1
      <4> QED
        BY <4>1, <1>1, NextTurn
    <3> QED
      BY <3>1, <2>1, <1>1, <1>2, PhysMemAssumption DEF TaskInv
  <2>2. CASE ~(task.left > 1)
    <3>1. task' \in Task /\ task'.kind = "idle"
      BY <2>2, <1>1, ContainersAssumption DEF Idle, Task, Proc
    <3> QED
      BY <3>1 DEF TaskInv
  <2> QED
    BY <2>1, <2>2
<1> QED
  BY <1>1, <1>4, <1>5 DEF VMInv

LEMMA LoadPageInv ==
  ASSUME VMInv, LoadPage, UNCHANGED freed
  PROVE  VMInv' /\ Kept
<1> DEFINE id == task.pid
           va == task.va
           a == AllocPage(Kernel, id, va, task.perm)
           pte == GetPageTableEntryByVA(a.s, id, va)
           w == [a.s EXCEPT !.mem = Written(a.s.mem, pte.page)]
<1>1. /\ task.kind = "load" /\ task.left > 0 /\ task \in Task /\ id # 0
      /\ task.perm \in {"R", "RW"}
      /\ \A v \in va .. va + task.left - 1 :
           VA_PDE_INDEX(v) \in UserDirs /\ ~Present(Kernel, id, v)
      /\ running' = running /\ freed' = freed /\ Good(Kernel, held)
  BY DEF LoadPage, VMInv, TaskInv
<1>2. /\ Becomes(a.s, id)
      /\ a.err => mem' = a.s.mem /\ task' = [task EXCEPT !.kind = "halted"]
      /\ ~a.err => /\ mem' = Written(a.s.mem, pte.page)
                   /\ task' = [task EXCEPT !.va = va + 1, !.left = task.left - 1]
  BY DEF LoadPage
<1>3. id \in Proc \ {0} /\ va \in Nat /\ task.left \in Nat
  BY <1>1 DEF Task
<1>4. va \in UserVPages /\ va \in VPage /\ ~Present(Kernel, id, va)
  BY <1>1, <1>3, UserPageFacts DEF UserVPages
<1> HIDE DEF a, id, va
<1>5. /\ Good(a.s, held') /\ a.s \in KernelState /\ a.s.pm = pm' /\ a.s.pd = pd'
      /\ ~a.err => pte.perm = task.perm
      /\ a.err \in BOOLEAN
      /\ \A i \in Proc, v \in VPage : i # id \/ v # va =>
           GetPageTableEntryByVA(a.s, i, v) = GetPageTableEntryByVA(Kernel, i, v)
  BY <1>1, <1>2, <1>3, <1>4, AllocPageStep DEF a
<1>6. CASE a.err
  <2>1. Kernel' = a.s
    BY <1>2, <1>5, <1>6, KernelFields
  <2>2. Kept
    BY <1>3, <1>4, <1>5, <2>1, OthersKept
  <2>3. task' \in Task /\ task'.kind = "halted"
    BY <1>1, <1>2, <1>6 DEF Task
  <2> QED
    BY <1>1, <1>5, <2>1, <2>2, <2>3 DEF VMInv, TaskInv
<1>7. CASE ~a.err
  <2>1. pte.page \in held'[id] /\ \A i \in UserDirs : a.s.pd[id][i] # pte.page
    BY <1>1, <1>3, <1>4, <1>5, <1>7 DEF Good, UserMappings, Present
  <2> HIDE DEF pte
  <2>2. /\ Good(w, held')
        /\ w.pm = a.s.pm /\ w.pd = a.s.pd /\ w.mem = Written(a.s.mem, pte.page)
        /\ \A i \in Proc, v \in VPage :
             GetPageTableEntryByVA(w, i, v) = GetPageTableEntryByVA(a.s, i, v)
    BY <1>3, <1>5, <2>1, WriteKeeps
  <2> HIDE DEF w
  <2>3. Kernel' = w
    BY <1>2, <1>5, <1>7, <2>2, KernelFields DEF Good
  <2>4. \A i \in Proc, v \in VPage : i # id \/ v # va =>
          GetPageTableEntryByVA(Kernel', i, v) = GetPageTableEntryByVA(Kernel, i, v)
    BY <1>5, <2>2, <2>3
  <2>5. Kept
    BY <1>3, <1>4, <2>4, OthersKept
  <2>6. /\ task' \in Task /\ task'.kind = "load" /\ task'.pid = id
        /\ task'.va = va + 1 /\ task'.left = task.left - 1 /\ task'.perm = task.perm
    <3>1. task' = [task EXCEPT !.va = task.va + 1, !.left = task.left - 1]
      BY <1>2, <1>7 DEF va
    <3> QED
      BY <3>1, <1>1, NextTurn DEF id, va
  <2>7. ASSUME NEW v \in va + 1 .. (va + 1) + (task.left - 1) - 1
        PROVE  VA_PDE_INDEX(v) \in UserDirs /\ ~Present(Kernel', id, v)
    <3>1. v \in va .. va + task.left - 1 /\ v # va /\ v \in Nat
      BY <1>3
    <3>2. VA_PDE_INDEX(v) \in UserDirs /\ ~Present(Kernel, id, v)
      BY <3>1, <1>1
    <3>3. v \in VPage
      BY <3>1, <3>2, UserPageFacts DEF UserVPages
    <3> QED
      BY <3>1, <3>2, <3>3, <2>4, <1>3 DEF Present
  <2>8. TaskInv'
    BY <1>1, <2>6, <2>7 DEF TaskInv
  <2> QED
    BY <1>1, <2>2, <2>3, <2>5, <2>6, <2>8 DEF VMInv
<1> QED
  BY <1>5, <1>6, <1>7
-----------------------------------------------------------------------------
(***************************************************************************)
(* The theorems.                                                           *)
(***************************************************************************)
LEMMA VMStep == VMInv /\ VMNext => VMInv' /\ Kept
<1> SUFFICES ASSUME VMInv, VMNext PROVE VMInv' /\ Kept
  OBVIOUS
<1>1. freed' = freed
  BY DEF VMNext
<1>2. CASE Create
  <2>1. ASSUME NEW q \in Quotas, CreateProcess(q) PROVE VMInv' /\ Kept
    BY <1>1, <2>1, CreateProcessInv
  <2>2. ASSUME NEW va \in VPage, NEW n \in 1 .. NUM_TABLES, NEW perm \in {"R", "RW"},
               LoadSegment(va, n, perm)
        PROVE  VMInv' /\ Kept
    BY <1>1, <2>2, LoadSegmentInv
  <2> QED
    BY <1>1, <1>2, <2>1, <2>2, LoadPageInv, LoadedInv DEF Create
<1>3. ASSUME NEW id \in running, NEW va \in VPage, UserAccess(id, va)
      PROVE  VMInv' /\ Kept
  BY <1>1, <1>3, UserWriteInv, PageFaultInv, ProtectionFaultInv DEF UserAccess
<1>4. ASSUME NEW id \in running, NEW va \in VPage, NEW n \in 1 .. NUM_TABLES,
             BeginCopy(id, va, n)
      PROVE  VMInv' /\ Kept
  BY <1>1, <1>4, BeginCopyInv
<1>5. CASE CopyPage
  BY <1>1, <1>5, CopyPageInv
<1> QED
  BY <1>2, <1>3, <1>4, <1>5 DEF VMNext

\* The inductive invariant holds in every reachable state.
THEOREM VMInvHolds == VMSpec => []VMInv
<1>1. VMInv /\ UNCHANGED vmVars => VMInv'
  <2> SUFFICES ASSUME VMInv, UNCHANGED vmVars PROVE VMInv'
    OBVIOUS
  <2>1. /\ Good(Kernel', held') /\ Kernel' = Kernel
        /\ freed' = freed /\ task' = task /\ running' = running
    BY QuietInv DEF vmVars
  <2> QED
    BY <2>1 DEF VMInv, TaskInv
<1> QED
  BY <1>1, InitVMInv, VMStep, PTL DEF VMSpec

\* The allocator, the directories, the pages' contents and the loop the kernel is
\* in keep their types.
THEOREM VMTypeCorrect == VMSpec => []VMTypeOK
<1>1. VMInv => VMTypeOK
  BY KernelFields DEF VMInv, VMTypeOK, TypeOK, Good, KernelState, Owned
<1> QED
  BY <1>1, VMInvHolds, PTL

\* What a process has mapped or uses as tables is its own, no page twice, and no
\* process reaches a page table: on every machine, however AllocPage's two
\* allocations fall.
THEOREM IsolationSafe == VMSpec => []Isolation
<1>1. VMInv => Isolation
  <2> SUFFICES ASSUME VMInv, NEW id \in Proc \ {0}
               PROVE  /\ Mapped(id) \cup Tables(id) \subseteq held[id]
                      /\ Mapped(id) \cap Tables(id) = {}
                      /\ \A v, w \in MappedAt(id) :
                           v # w => Entry(id, v).page # Entry(id, w).page
                      /\ \A i, j \in UserDirs :
                           i # j /\ pd[id][i] # NoPage => pd[id][i] # pd[id][j]
    BY DEF Isolation
  <2>1. Good(Kernel, held) /\ Kernel.pd = pd
    BY KernelFields DEF VMInv
  <2>2. \A p \in Tables(id) : p \in held[id] /\ \E i \in UserDirs : p = Kernel.pd[id][i]
    BY <2>1 DEF Good, UserTables, Tables
  <2>3. \A p \in Mapped(id) : p \in held[id] /\ \A i \in UserDirs : p # Kernel.pd[id][i]
    BY <2>1 DEF Good, UserMappings, Mapped, MappedAt, Entry
  <2>4. \A v, w \in MappedAt(id) : v # w => Entry(id, v).page # Entry(id, w).page
    BY <2>1 DEF Good, UserMappings, MappedAt, Entry
  <2>5. \A i, j \in UserDirs : i # j /\ pd[id][i] # NoPage => pd[id][i] # pd[id][j]
    BY <2>1 DEF Good, UserTables
  <2> QED
    BY <2>2, <2>3, <2>4, <2>5
<1> QED
  BY <1>1, VMInvHolds, PTL

\* No program's bytes are read as a page table, and the identity map of the kernel
\* stays in every address space.
THEOREM TablesIntactSafe == VMSpec => []TablesIntact
<1>1. VMInv => TablesIntact
  <2> SUFFICES ASSUME VMInv PROVE TablesIntact
    OBVIOUS
  <2>1. Good(Kernel, held) /\ Kernel.pd = pd /\ Kernel.mem = mem
    BY KernelFields DEF VMInv
  <2>2. \A id \in Proc : \A i \in Idx : pd[id][i] # NoPage => mem[pd[id][i]] # Junk
    BY <2>1, TablesAreTables, TablesAreNotJunk
  <2> QED
    BY <2>1, <2>2 DEF Good, KernelMaps, TablesIntact
<1> QED
  BY <1>1, VMInvHolds, PTL

\* No step of the kernel or of a program changes or removes a mapping there is.
THEOREM MappingsKeptSafe == VMSpec => MappingsKept
<1> DEFINE A == \A id \in Proc \ {0} : \A va \in MappedAt(id) : Entry(id, va)' = Entry(id, va)
<1>1. VMInv /\ [VMNext]_vmVars => [A]_vmVars
  <2> SUFFICES ASSUME VMInv, VMNext PROVE A
    OBVIOUS
  <2>1. Kept
    BY VMStep
  <2> QED
    BY <2>1 DEF Kept, MappedAt, Entry
<1> QED
  BY <1>1, VMInvHolds, PTL DEF VMSpec, MappingsKept
-----------------------------------------------------------------------------
(***************************************************************************)
(* The pages AllocPage loses.  A step of this module may call              *)
(* ContainerAlloc twice, so the invariants of PhysMemProofs are carried    *)
(* over any number of calls for one process.                               *)
(***************************************************************************)
\* From p to q pages were given to id and charged to it, and nothing else changed.
Takes(p, q, id) ==
  /\ q \in PhysMemState /\ q.perm = p.perm /\ q.lastFreedPage = NONE
  /\ p.allocated \subseteq q.allocated
  /\ NoPage \notin q.allocated \ p.allocated
  /\ \A c \in Proc : SameButUsage(q.containers[c], p.containers[c])
  /\ \A c \in Proc \ {id} : q.containers[c].usage = p.containers[c].usage
  /\ p.containers[id].usage + Cardinality(q.allocated \ p.allocated)
       <= q.containers[id].usage
  /\ q.containers[id].usage <= q.containers[id].quota

LEMMA TakesNothing ==
  ASSUME NEW p \in PhysMemState, p.lastFreedPage = NONE, NEW id \in Proc,
         p.containers[id].usage <= p.containers[id].quota
  PROVE  Takes(p, p, id)
<1>1. p.containers[id].usage \in Nat
  BY DEF PhysMemState, Container
<1>2. p.allocated \ p.allocated = {} /\ Cardinality({}) = 0
  BY FS_EmptySet
<1>3. p.containers[id].usage + Cardinality(p.allocated \ p.allocated)
        <= p.containers[id].usage
  BY <1>1, <1>2
<1> QED
  BY <1>2, <1>3 DEF Takes, SameButUsage

LEMMA TakesOnce ==
  ASSUME NEW p \in PhysMemState, p.lastFreedPage = NONE, NEW id \in Proc,
         p.containers[id].usage <= p.containers[id].quota
  PROVE  Takes(p, ContainerAlloc(p, id).pm, id)
<1> DEFINE r == ContainerAlloc(p, id)
           N == r.pm.allocated \ p.allocated
<1>1. /\ p.containers \in [Proc -> Container]
      /\ p.containers[id].usage \in Nat /\ p.containers[id].quota \in Nat
  BY DEF PhysMemState, Container
<1>2. /\ r.pm \in PhysMemState /\ r.pm.perm = p.perm
      /\ r.page # NoPage => r.page \in Page
      /\ \/ r.page = NoPage /\ r.pm = p
         \/ /\ p.containers[id].usage # p.containers[id].quota
            /\ r.pm.containers = [p.containers EXCEPT ![id].usage = @ + 1]
  BY ContainerAllocEffect
<1>3. /\ r.pm.lastFreedPage = NONE
      /\ r.page = NoPage => r.pm.allocated = p.allocated
      /\ r.page # NoPage => r.page \notin p.allocated
      /\ r.page # NoPage => r.pm.allocated = p.allocated \cup {r.page}
  BY AllocatedByOne
<1> HIDE DEF r
<1>4. CASE r.pm = p
  BY <1>4, TakesNothing DEF r
<1>5. CASE /\ p.containers[id].usage # p.containers[id].quota
           /\ r.pm.containers = [p.containers EXCEPT ![id].usage = @ + 1]
  <2>1. /\ \A c \in Proc : SameButUsage(r.pm.containers[c], p.containers[c])
        /\ \A c \in Proc \ {id} : r.pm.containers[c].usage = p.containers[c].usage
    <3>1. \A c \in Proc : SameButUsage(r.pm.containers[c], p.containers[c])
      BY <1>1, <1>5, ChargeKeepsTheRest
    <3>2. \A c \in Proc \ {id} : r.pm.containers[c] = p.containers[c]
      BY <1>1, <1>5
    <3> QED
      BY <3>1, <3>2
  <2>2. /\ r.pm.containers[id].usage = p.containers[id].usage + 1
        /\ r.pm.containers[id].quota = p.containers[id].quota
    BY <1>1, <1>5 DEF Container
  <2>3. N = {} \/ N = {r.page}
    BY <1>3
  <2>4. Cardinality(N) \in Nat /\ Cardinality(N) <= 1
    <3>1. Cardinality({}) = 0 /\ Cardinality({r.page}) = 1
      BY FS_EmptySet, FS_Singleton
    <3>2. Cardinality(N) = 0 \/ Cardinality(N) = 1
      BY <2>3, <3>1
    <3> HIDE DEF N
    <3> QED
      BY <3>2
  <2>5. p.allocated \subseteq r.pm.allocated /\ NoPage \notin N
    BY <1>3
  <2>6. /\ p.containers[id].usage + Cardinality(N) <= r.pm.containers[id].usage
        /\ r.pm.containers[id].usage <= r.pm.containers[id].quota
    BY <2>2, <2>4, <1>1, <1>5
  <2> QED
    BY <2>1, <2>5, <2>6, <1>2, <1>3 DEF Takes, r
<1> QED
  BY <1>2, <1>4, <1>5

LEMMA TakesTwice ==
  ASSUME NEW p \in PhysMemState, NEW q, NEW r, NEW id \in Proc,
         Takes(p, q, id), Takes(q, r, id)
  PROVE  Takes(p, r, id)
<1> DEFINE M == q.allocated \ p.allocated
           N == r.allocated \ q.allocated
<1>1. q \in PhysMemState /\ r \in PhysMemState
  BY DEF Takes
<1>2. /\ p.containers[id].usage \in Nat /\ q.containers[id].usage \in Nat
      /\ r.containers[id].usage \in Nat
  BY <1>1 DEF PhysMemState, Container
<1>3. M \in SUBSET Page /\ N \in SUBSET Page
  BY <1>1 DEF PhysMemState
<1>4. p.allocated \subseteq r.allocated /\ r.allocated \ p.allocated = M \cup N
      /\ NoPage \notin M \cup N
  BY DEF Takes
<1>5. /\ p.containers[id].usage + Cardinality(M) <= q.containers[id].usage
      /\ q.containers[id].usage + Cardinality(N) <= r.containers[id].usage
  BY DEF Takes
<1>6. /\ \A c \in Proc : SameButUsage(r.containers[c], p.containers[c])
      /\ \A c \in Proc \ {id} : r.containers[c].usage = p.containers[c].usage
      /\ r.containers[id].usage <= r.containers[id].quota
      /\ r.perm = p.perm /\ r.lastFreedPage = NONE
  BY DEF Takes, SameButUsage
<1> HIDE DEF M, N
<1>7. /\ Cardinality(M) \in Nat /\ Cardinality(N) \in Nat
      /\ Cardinality(M \cup N) \in Nat
      /\ Cardinality(M \cup N) <= Cardinality(M) + Cardinality(N)
  <2>1. IsFiniteSet(M) /\ IsFiniteSet(N) /\ IsFiniteSet(M \cap N)
    BY <1>3, PageFacts, FS_Subset
  <2>2. /\ IsFiniteSet(M \cup N)
        /\ Cardinality(M \cup N) = Cardinality(M) + Cardinality(N) - Cardinality(M \cap N)
    BY <2>1, FS_Union
  <2> QED
    BY <2>1, <2>2, FS_CardinalityType
<1>8. p.containers[id].usage + Cardinality(M \cup N) <= r.containers[id].usage
  BY <1>2, <1>5, <1>7
<1> QED
  BY <1>1, <1>4, <1>6, <1>8 DEF Takes

\* The invariants of the allocator survive such calls.
LEMMA TakesKeeps ==
  ASSUME Inv, BudgetInv, NEW id \in UsedProcs, Takes(pm, pm', id),
         held' = [held EXCEPT ![id] = held[id] \cup (pm'.allocated \ pm.allocated)],
         freed' = freed
  PROVE  Inv' /\ BudgetInv' /\ UsedProcs' = UsedProcs
<1> DEFINE cs == pm.containers
           N == pm'.allocated \ pm.allocated
<1>1. /\ pm \in PhysMemState /\ pm' \in PhysMemState /\ id \in Proc /\ cs[id].used
      /\ held \in [Proc -> SUBSET Page] /\ cs \in [Proc -> Container]
      /\ cs' \in [Proc -> Container]
  BY DEF Inv, TypeOK, PhysMemState, Takes, UsedProcs
<1>2. /\ pm'.perm = pm.perm /\ pm'.lastFreedPage = NONE
      /\ pm.allocated \subseteq pm'.allocated /\ 0 \notin N
      /\ \A c \in Proc \ {id} : cs'[c].usage = cs[c].usage
      /\ cs[id].usage + Cardinality(N) <= cs'[id].usage
      /\ cs'[id].usage <= cs'[id].quota
  BY DEF Takes
<1>3. \A c \in Proc : /\ cs'[c].used = cs[c].used /\ cs'[c].quota = cs[c].quota
                      /\ cs'[c].numChildren = cs[c].numChildren
  BY DEF Takes, SameButUsage
<1>4. N \in SUBSET Page
  BY <1>1 DEF PhysMemState
<1> HIDE DEF cs, N
<1>5. /\ held' \in [Proc -> SUBSET Page] /\ held'[id] = held[id] \cup N
      /\ \A c \in Proc \ {id} : held'[c] = held[c]
  BY <1>1, <1>4 DEF N
<1>6. ASSUME NEW c \in Proc
      PROVE  /\ cs[c].usage \in Nat /\ cs[c].quota \in Nat /\ cs'[c].usage \in Nat
             /\ Cardinality(held[c]) \in Nat /\ Cardinality(held'[c]) \in Nat
             /\ Cardinality(held[c]) <= cs[c].usage /\ cs[c].usage <= cs[c].quota
             /\ Cardinality(held'[c]) - Cardinality(held[c])
                  <= cs'[c].usage - cs[c].usage
             /\ Cardinality(held'[c]) <= cs'[c].usage /\ cs'[c].usage <= cs'[c].quota
  <2>1. /\ cs[c].usage \in Nat /\ cs[c].quota \in Nat /\ cs'[c].usage \in Nat
    BY <1>1 DEF Container
  <2>2. /\ Cardinality(held[c]) \in Nat /\ IsFiniteSet(held[c])
        /\ Cardinality(held[c]) <= cs[c].usage /\ cs[c].usage <= cs[c].quota
    BY SpareFacts DEF cs
  <2>3. IsFiniteSet(held'[c]) /\ Cardinality(held'[c]) \in Nat
    <3>1. held'[c] \in SUBSET Page
      BY <1>5
    <3> QED
      BY <3>1, PageFacts, FS_CardinalityType
  <2>4. CASE c = id
    <3>1. /\ IsFiniteSet(N) /\ Cardinality(N) \in Nat
          /\ IsFiniteSet(held[c] \cap N) /\ Cardinality(held[c] \cap N) \in Nat
      BY <1>4, <2>2, PageFacts, FS_Subset, FS_CardinalityType
    <3>2. Cardinality(held[c] \cup N)
            = Cardinality(held[c]) + Cardinality(N) - Cardinality(held[c] \cap N)
      BY <3>1, <2>2, FS_Union
    <3>3. Cardinality(held'[c]) <= Cardinality(held[c]) + Cardinality(N)
      <4>1. Cardinality(held'[c]) = Cardinality(held[c] \cup N)
        BY <2>4, <1>5
      <4> QED
        BY <4>1, <3>1, <3>2, <2>2
    <3> QED
      BY <3>1, <3>3, <2>1, <2>2, <2>3, <2>4, <1>2
  <2>5. CASE c # id
    BY <2>1, <2>2, <2>3, <2>5, <1>2, <1>3, <1>5
  <2> QED
    BY <2>4, <2>5
<1>7. QuotaRespected'
  <2>1. ASSUME NEW c \in Proc
        PROVE  Cardinality(held'[c]) <= cs'[c].usage /\ cs'[c].usage <= cs'[c].quota
    BY <1>6
  <2> QED
    BY <2>1 DEF QuotaRespected, cs
<1>8. Tree(cs')
  BY <1>3 DEF Inv, Tree, IsChild, cs
<1>9. UnusedHoldsNothing'
  BY <1>1, <1>3, <1>5 DEF Inv, UnusedHoldsNothing, cs
<1>10. TypeOK'
  BY <1>1, <1>5 DEF Inv, TypeOK
<1>11. Inv'
  BY <1>7, <1>8, <1>9, <1>10 DEF Inv, cs
<1>12. UserPageSet' = UserPageSet
  BY <1>2 DEF UserPageSet
<1>13. UserPagesInWindow' /\ PageZeroUnused'
  <2>1. \A c \in Proc : 0 \notin held'[c]
    BY <1>1, <1>2, <1>5 DEF BudgetInv, PageZeroUnused
  <2> QED
    BY <2>1, <1>2, <1>12 DEF BudgetInv, PageZeroUnused, UserPagesInWindow
<1>14. AllocatedIsHeld'
  <2>1. ASSUME NEW p \in pm'.allocated \cap UserPageSet'
        PROVE  \E c \in Proc : p \in held'[c]
    <3>1. CASE p \in pm.allocated
      <4>1. PICK c \in Proc : p \in held[c]
        BY <3>1, <1>12 DEF BudgetInv, AllocatedIsHeld
      <4> QED
        BY <4>1, <1>5
    <3>2. CASE p \notin pm.allocated
      BY <3>2, <1>1, <1>5 DEF N
    <3> QED
      BY <3>1, <3>2
  <2> QED
    BY <2>1 DEF AllocatedIsHeld
<1>15. Budget'
  <2>1. ASSUME NEW c \in Proc PROVE Spare'[c] <= Spare[c]
    <3>1. /\ Spare[c] = cs[c].quota - cs[c].usage + Cardinality(held[c])
          /\ Spare'[c] = cs'[c].quota - cs'[c].usage + Cardinality(held'[c])
      BY DEF Spare, cs
    <3>2. /\ cs[c].usage \in Nat /\ cs[c].quota \in Nat /\ cs'[c].usage \in Nat
          /\ Cardinality(held[c]) \in Nat /\ Cardinality(held'[c]) \in Nat
          /\ Cardinality(held'[c]) - Cardinality(held[c]) <= cs'[c].usage - cs[c].usage
      BY <1>6
    <3>3. cs'[c].quota = cs[c].quota
      BY <1>3
    <3> QED
      BY <3>1, <3>2, <3>3
  <2> QED
    BY <2>1, <1>2, <1>11, BudgetKept DEF BudgetInv
<1>16. UsedProcs' = UsedProcs
  BY <1>3 DEF UsedProcs, cs
<1> QED
  BY <1>11, <1>12, <1>13, <1>14, <1>15, <1>16 DEF BudgetInv

\* After such calls id still finds a page if it is below its quota.
LEMMA FindsAfter ==
  ASSUME Inv, BudgetInv, NEW id \in Proc, NEW q, Takes(pm, q, id),
         q.containers[id].usage # q.containers[id].quota
  PROVE  ContainerAlloc(q, id).page # NoPage
<1> DEFINE N == q.allocated \ pm.allocated
           s == Charged(q, id)
<1>1. pm \in PhysMemState /\ q \in PhysMemState
  BY DEF Inv, TypeOK, Takes
<1>2. /\ s \in PhysMemState /\ s.allocated = q.allocated /\ s.perm = q.perm
      /\ s.lastFreedPage = q.lastFreedPage
  BY <1>1, ChargedEffect
<1>3. ContainerAlloc(q, id) = PhysicalPageAlloc(s)
  BY DEF ContainerAlloc, Charged
<1> HIDE DEF s
<1>4. N \in SUBSET Page /\ IsFiniteSet(N) /\ Cardinality(N) \in Nat
  <2>1. N \in SUBSET Page
    BY <1>1 DEF PhysMemState
  <2> QED
    BY <2>1, PageFacts, FS_CardinalityType
<1>5. Cardinality(N) < pm.containers[id].quota - pm.containers[id].usage
  <2>1. /\ pm.containers[id].usage + Cardinality(N) <= q.containers[id].usage
        /\ q.containers[id].usage <= q.containers[id].quota
        /\ q.containers[id].quota = pm.containers[id].quota
    BY DEF Takes, SameButUsage
  <2>2. /\ pm.containers[id].usage \in Nat /\ pm.containers[id].quota \in Nat
        /\ q.containers[id].usage \in Nat
    BY <1>1 DEF PhysMemState, Container
  <2> HIDE DEF N
  <2> QED
    BY <2>1, <2>2, <1>4
<1>6. PICK p \in UserPageSet \ N : \A i \in Proc : p \notin held[i]
  BY <1>4, <1>5, PageLeft DEF BudgetInv
<1>7. p \in Page /\ p \notin s.allocated /\ s.perm[p] = "USER"
  <2>1. p \notin pm.allocated
    BY <1>6 DEF BudgetInv, AllocatedIsHeld
  <2> QED
    BY <2>1, <1>2, <1>6 DEF UserPageSet, Takes
<1>8. \A x \in Page : s.perm[x] = "USER" => x \in UserWindow
  BY <1>2 DEF BudgetInv, UserPagesInWindow, UserPageSet, Takes
<1>9. NextFit(s) # NoPage
  BY <1>2, <1>7, <1>8, NextFitFinds
<1>10. s.lastFreedPage = NONE
  BY <1>2 DEF Takes
<1> QED
  BY <1>3, <1>9, <1>10 DEF PhysicalPageAlloc

\* The page p is a table of id or mapped by it.
InUse(s, id, p) ==
  \/ \E i \in UserDirs : s.pd[id][i] = p
  \/ \E v \in UserVPages :
       Present(s, id, v) /\ GetPageTableEntryByVA(s, id, v).page = p

Lost(s, h, id) == {p \in h[id] : ~InUse(s, id, p)}

Spent(s, id) == s.pm.containers[id].usage = s.pm.containers[id].quota

LostBound(s, h, id) == /\ Spent(s, id) \/ Lost(s, h, id) = {}
                       /\ \E p : Lost(s, h, id) \subseteq {p}

LEMMA SetEntryFields ==
  ASSUME NEW s \in KernelState, NEW id, NEW va, NEW pte
  PROVE  /\ SetPageTableEntry(s, id, va, pte).pm = s.pm
         /\ SetPageTableEntry(s, id, va, pte).pd = s.pd
BY DEF SetPageTableEntry, KernelState

\* What AllocPage does to the allocator and the directories: one page, and a second
\* one for the table if there is none.
LEMMA AllocPageShape ==
  ASSUME NEW s \in KernelState, NEW id \in Proc, NEW va, NEW perm,
         NEW a, a = AllocPage(s, id, va, perm),
         NEW r, r = ContainerAlloc(s.pm, id),
         NEW q, q = ContainerAlloc(r.pm, id),
         NEW d \in Idx, d = VA_PDE_INDEX(va)
  PROVE  /\ r.page = NoPage => a.err /\ a.s = [s EXCEPT !.pm = r.pm]
         /\ r.page # NoPage /\ s.pd[id][d] # NoPage =>
              ~a.err /\ a.s.pm = r.pm /\ a.s.pd = s.pd
         /\ r.page # NoPage /\ s.pd[id][d] = NoPage /\ q.page = NoPage =>
              a.err /\ a.s.pm = q.pm /\ a.s.pd = s.pd
         /\ r.page # NoPage /\ s.pd[id][d] = NoPage /\ q.page # NoPage =>
              ~a.err /\ a.s.pm = q.pm /\ a.s.pd = [s.pd EXCEPT ![id][d] = q.page]
<1> DEFINE s1 == [s EXCEPT !.pm = r.pm]
           pte == [page |-> r.page, perm |-> perm]
           t == AllocPageTable(s1, id, va)
<1>1. /\ r.pm \in PhysMemState /\ q.pm \in PhysMemState
      /\ q.page # NoPage => q.page \in Page
  BY ContainerAllocEffect DEF KernelState
<1>2. s1 \in KernelState /\ s1.pm = r.pm /\ s1.pd = s.pd /\ s1.mem = s.mem
  BY <1>1 DEF KernelState
<1>3. CASE r.page = NoPage
  BY <1>3 DEF AllocPage
<1>4. CASE r.page # NoPage /\ s.pd[id][d] # NoPage
  <2>1. a.err = FALSE /\ a.s = SetPageTableEntry(s1, id, va, pte)
    BY <1>2, <1>4 DEF AllocPage, MapPage
  <2> HIDE DEF s1, pte
  <2> QED
    BY <2>1, <1>2, <1>4, SetEntryFields
<1>5. CASE r.page # NoPage /\ s.pd[id][d] = NoPage
  <2>1. /\ a.err = (t.page = NoPage)
        /\ a.s = IF t.page = NoPage THEN t.s ELSE SetPageTableEntry(t.s, id, va, pte)
    BY <1>2, <1>5 DEF AllocPage, MapPage
  <2>2. CASE q.page = NoPage
    <3>1. t = [page |-> NoPage, s |-> [s1 EXCEPT !.pm = q.pm]]
      BY <2>2, <1>2 DEF AllocPageTable
    <3> HIDE DEF s1, pte, t
    <3>2. a.err /\ a.s = [s1 EXCEPT !.pm = q.pm]
      BY <2>1, <3>1
    <3>3. a.s.pm = q.pm /\ a.s.pd = s1.pd
      BY <3>2, <1>2 DEF KernelState
    <3> QED
      BY <3>2, <3>3, <2>2, <1>2, <1>5
  <2>3. CASE q.page # NoPage
    <3> DEFINE u == [pm  |-> q.pm,
                     pd  |-> [s.pd EXCEPT ![id][d] = q.page],
                     mem |-> [s.mem EXCEPT ![q.page] = EmptyTable]]
    <3>1. t = [page |-> q.page, s |-> u]
      BY <2>3, <1>2 DEF AllocPageTable
    <3>2. u \in KernelState
      <4>1. [s.pd EXCEPT ![id][d] = q.page] \in [Proc -> [Idx -> Page \cup IdentityPages]]
        BY <2>3, <1>1 DEF KernelState
      <4>2. [s.mem EXCEPT ![q.page] = EmptyTable]
              \in [Page \cup IdentityPages -> Table \cup {Junk}]
        BY <2>3, <1>1, EmptyTableFacts DEF KernelState
      <4> QED
        BY <4>1, <4>2, <1>1 DEF KernelState
    <3>3. u.pm = q.pm /\ u.pd = [s.pd EXCEPT ![id][d] = q.page]
      OBVIOUS
    <3> HIDE DEF s1, pte, t, u
    <3>4. ~a.err /\ a.s = SetPageTableEntry(u, id, va, pte)
      BY <2>1, <2>3, <3>1
    <3> QED
      BY <3>2, <3>3, <3>4, <2>3, <1>5, SetEntryFields
  <2> QED
    BY <2>2, <2>3, <1>5
<1> QED
  BY <1>3, <1>4, <1>5

\* When AllocPage finds every page the quota allows, it loses at most one page, and
\* only in using up the quota.
LEMMA AllocPageLoses ==
  ASSUME NEW s, NEW h, Good(s, h), NEW id \in Proc \ {0}, NEW va \in UserVPages,
         ~Present(s, id, va), NEW perm \in {"R", "RW"},
         LostBound(s, h, id),
         NEW r, r = ContainerAlloc(s.pm, id), ~Spent(s, id) => r.page # NoPage,
         r.pm.containers[id].usage # r.pm.containers[id].quota
           => ContainerAlloc(r.pm, id).page # NoPage,
         NEW a, a = AllocPage(s, id, va, perm)
  PROVE  /\ LostBound(a.s, Given(h, id, s, a.s.pm), id)
         /\ \A i \in Proc \ {id} : a.s.pd[i] = s.pd[i]
         /\ a.s.pm \in {r.pm, ContainerAlloc(r.pm, id).pm}
<1> DEFINE q == ContainerAlloc(r.pm, id)
           d == VA_PDE_INDEX(va)
           g == Given(h, id, s, a.s.pm)
<1>1. /\ s \in KernelState /\ s.pm \in PhysMemState /\ s.pm.lastFreedPage = NONE
      /\ s.pd \in [Proc -> [Idx -> Page \cup IdentityPages]]
      /\ h \in [Proc -> SUBSET Page] /\ NoPage \notin h[id] /\ id \in Proc
      /\ va \in VPage /\ d \in Idx /\ d \in UserDirs
  BY VPageFacts DEF Good, KernelState, Owned, UserVPages
<1>2. /\ r.pm \in PhysMemState /\ r.pm.lastFreedPage = NONE
      /\ r.page = NoPage => r.pm.allocated = s.pm.allocated
      /\ r.page # NoPage => /\ r.page \in Page /\ r.page \notin s.pm.allocated
                            /\ r.pm.allocated = s.pm.allocated \cup {r.page}
  BY <1>1, AllocatedByOne
<1>3. /\ q.page = NoPage => q.pm.allocated = r.pm.allocated
      /\ q.page # NoPage => /\ q.page \notin r.pm.allocated
                            /\ q.pm.allocated = r.pm.allocated \cup {q.page}
  BY <1>1, <1>2, AllocatedByOne
<1>4. /\ \A v \in VPage : v # va =>
           GetPageTableEntryByVA(a.s, id, v) = GetPageTableEntryByVA(s, id, v)
      /\ ~a.err => GetPageTableEntryByVA(a.s, id, va).perm = perm
      /\ ~a.err => GetPageTableEntryByVA(a.s, id, va).page = r.page
  BY <1>1, AllocPageKeeps
<1>5. /\ r.page = NoPage => a.err /\ a.s = [s EXCEPT !.pm = r.pm]
      /\ r.page # NoPage /\ s.pd[id][d] # NoPage =>
           ~a.err /\ a.s.pm = r.pm /\ a.s.pd = s.pd
      /\ r.page # NoPage /\ s.pd[id][d] = NoPage /\ q.page = NoPage =>
           a.err /\ a.s.pm = q.pm /\ a.s.pd = s.pd
      /\ r.page # NoPage /\ s.pd[id][d] = NoPage /\ q.page # NoPage =>
           ~a.err /\ a.s.pm = q.pm /\ a.s.pd = [s.pd EXCEPT ![id][d] = q.page]
  BY <1>1, AllocPageShape
<1> HIDE DEF q, d
<1>6. \A i \in Proc \ {id} : a.s.pd[i] = s.pd[i]
  <2>1. CASE r.page = NoPage
    BY <2>1, <1>1, <1>5 DEF KernelState
  <2>2. CASE r.page # NoPage
    BY <2>2, <1>1, <1>5
  <2> QED
    BY <2>1, <2>2
<1>7. a.s.pm \in {r.pm, q.pm}
  <2>1. CASE r.page = NoPage
    BY <2>1, <1>1, <1>5 DEF KernelState
  <2>2. CASE r.page # NoPage
    BY <2>2, <1>5
  <2> QED
    BY <2>1, <2>2
\* What was in use stays in use.
<1>8. ASSUME NEW p \in h[id], InUse(s, id, p), r.page # NoPage
      PROVE  InUse(a.s, id, p)
  <2>1. p # NoPage
    BY <1>1
  <2>2. CASE \E i \in UserDirs : s.pd[id][i] = p
    <3>1. PICK i \in UserDirs : s.pd[id][i] = p
      BY <2>2
    <3>2. i \in Idx /\ (s.pd[id][d] = NoPage => i # d)
      BY <3>1, <2>1, UserDirFacts
    <3>3. a.s.pd[id][i] = p
      BY <3>1, <3>2, <1>1, <1>5, <1>8
    <3> QED
      BY <3>3 DEF InUse
  <2>3. CASE \E v \in UserVPages :
               Present(s, id, v) /\ GetPageTableEntryByVA(s, id, v).page = p
    <3>1. PICK v \in UserVPages :
            Present(s, id, v) /\ GetPageTableEntryByVA(s, id, v).page = p
      BY <2>3
    <3>2. v # va /\ v \in VPage
      BY <3>1 DEF UserVPages
    <3>3. Present(a.s, id, v) /\ GetPageTableEntryByVA(a.s, id, v).page = p
      BY <3>1, <3>2, <1>4 DEF Present
    <3> QED
      BY <3>3 DEF InUse
  <2> QED
    BY <2>2, <2>3, <1>8 DEF InUse
<1>9. ~a.err => InUse(a.s, id, r.page)
  BY <1>4 DEF InUse, Present
<1>10. g[id] = h[id] \cup (a.s.pm.allocated \ s.pm.allocated)
  BY <1>1 DEF Given
<1> HIDE DEF g
<1>11. CASE r.page = NoPage
  <2>1. Spent(s, id) /\ r = [page |-> NoPage, pm |-> s.pm]
    BY <1>11 DEF ContainerAlloc, Spent
  <2>2. a.s = s
    BY <2>1, <1>1, <1>5, <1>11 DEF KernelState
  <2>3. g = h
    BY <2>2, <1>1 DEF g, Given
  <2> QED
    BY <2>2, <2>3, <1>6, <1>7 DEF g, q
<1>12. CASE r.page # NoPage
  <2>1. \A p \in h[id] : InUse(s, id, p)
    <3>1. ~Spent(s, id)
      BY <1>12 DEF ContainerAlloc, Spent
    <3> QED
      BY <3>1 DEF LostBound, Lost
  <2>2. \A p \in h[id] : InUse(a.s, id, p)
    BY <2>1, <1>8, <1>12
  <2>3. CASE s.pd[id][d] # NoPage
    <3>1. g[id] = h[id] \cup {r.page} /\ ~a.err
      BY <2>3, <1>2, <1>5, <1>10, <1>12
    <3>2. Lost(a.s, g, id) = {}
      BY <3>1, <2>2, <1>9 DEF Lost
    <3> QED
      BY <3>2, <1>6, <1>7 DEF LostBound, g, q
  <2>4. CASE s.pd[id][d] = NoPage /\ q.page = NoPage
    <3>1. g[id] = h[id] \cup {r.page}
      BY <2>4, <1>2, <1>3, <1>5, <1>10, <1>12
    <3>2. Lost(a.s, g, id) \subseteq {r.page}
      BY <3>1, <2>2 DEF Lost
    <3>3. Spent(a.s, id)
      <4>1. r.pm.containers[id].usage = r.pm.containers[id].quota
        BY <2>4 DEF q
      <4>2. q.pm = r.pm
        BY <4>1 DEF q, ContainerAlloc
      <4> QED
        BY <4>1, <4>2, <2>4, <1>5, <1>12 DEF Spent
    <3> QED
      BY <3>2, <3>3, <1>6, <1>7 DEF LostBound, g, q
  <2>5. CASE s.pd[id][d] = NoPage /\ q.page # NoPage
    <3>1. g[id] = h[id] \cup {r.page} \cup {q.page} /\ ~a.err
      BY <2>5, <1>1, <1>2, <1>3, <1>5, <1>10, <1>12
    <3>2. InUse(a.s, id, q.page)
      <4>1. a.s.pd[id][d] = q.page
        BY <2>5, <1>1, <1>5, <1>12
      <4> QED
        BY <4>1, <1>1 DEF InUse
    <3>3. Lost(a.s, g, id) = {}
      BY <3>1, <3>2, <2>2, <1>9 DEF Lost
    <3> QED
      BY <3>3, <1>6, <1>7 DEF LostBound, g, q
  <2> QED
    BY <2>3, <2>4, <2>5
<1> QED
  BY <1>11, <1>12

\* The kernel works for processes that exist, and the bound holds for each.
ActorsUsed == /\ 0 \in UsedProcs /\ running \subseteq UsedProcs
              /\ task.kind \in {"load", "copy"} => task.pid \in UsedProcs

LossInv == /\ Inv /\ BudgetInv
           /\ ActorsUsed
           /\ \A id \in Proc \ {0} : LostBound(Kernel, held, id)

\* The bound depends on the directory, the mappings, the pages and the charge.
LEMMA SameLost ==
  ASSUME NEW s, NEW h, NEW t, NEW g, NEW id \in Proc, LostBound(s, h, id),
         \A i \in UserDirs : t.pd[id][i] = s.pd[id][i],
         \A v \in VPage : GetPageTableEntryByVA(t, id, v) = GetPageTableEntryByVA(s, id, v),
         g[id] = h[id], Spent(t, id) = Spent(s, id)
  PROVE  LostBound(t, g, id)
<1>1. \A p : InUse(t, id, p) = InUse(s, id, p)
  BY DEF InUse, Present, UserVPages
<1>2. Lost(t, g, id) = Lost(s, h, id)
  BY <1>1 DEF Lost
<1> QED
  BY <1>2 DEF LostBound

LEMMA InitLoss == VMInit => LossInv
<1> SUFFICES ASSUME VMInit PROVE LossInv
  OBVIOUS
<1>1. Init /\ task = Idle /\ running = {}
  BY DEF VMInit
<1>2. Inv /\ BudgetInv
  BY <1>1, InitInv, InitBudget
<1>3. held = [id \in Proc |-> {}]
  BY <1>1 DEF Init
<1>4. 0 \in UsedProcs
  BY <1>1, ProcFacts DEF Init, PhysicalMemoryInit, ContainerInit, NoContainer, UsedProcs
<1>5. ActorsUsed
  BY <1>1, <1>4 DEF ActorsUsed, Idle
<1>6. ASSUME NEW id \in Proc \ {0} PROVE LostBound(Kernel, held, id)
  BY <1>3 DEF LostBound, Lost
<1> QED
  BY <1>2, <1>5, <1>6 DEF LossInv

\* The new process has no page and none is lost.
LEMMA CreateProcessLoss ==
  ASSUME VMInv, LossInv, NEW q \in Quotas, CreateProcess(q), UNCHANGED freed
  PROVE  LossInv'
<1> DEFINE cs == pm.containers
           c == ChildID(cs, 0)
<1>1. Split(0, q)
  BY DEF CreateProcess, Split, LossInv, ActorsUsed
<1>2. 0 \in Proc /\ pm \in PhysMemState /\ cs \in [Proc -> Container] /\ q \in Nat
  BY ProcFacts, PhysMemAssumption DEF LossInv, Inv, TypeOK, PhysMemState
<1>3. Inv' /\ BudgetInv'
  <2>1. Inv'
    BY <1>1, <1>2, SplitInv DEF LossInv
  <2> QED
    BY <2>1, <1>1, <1>2, SplitBudget DEF LossInv
<1>4. /\ pm' = [pm EXCEPT !.containers = ContainerSplit(cs, 0, q)]
      /\ task' = [Idle EXCEPT !.kind = "load", !.pid = c]
      /\ held' = held /\ pd' = pd /\ mem' = mem /\ running' = running
      /\ ChildrenLeft(cs, 0) /\ ChildInArray(cs, 0) /\ c \in Proc
  BY DEF CreateProcess, ChildInArray
<1>5. cs' = ContainerSplit(cs, 0, q)
  BY <1>2, <1>4 DEF PhysMemState
<1>6. ~cs[c].used
  BY <1>2, <1>4, NextChildFresh DEF LossInv, Inv
<1>7. /\ cs'[c].used /\ cs'[0].used = cs[0].used
      /\ \A i \in Proc \ {0, c} : cs'[i] = cs[i]
  BY <1>2, <1>4, <1>5, ContainerSplitEffect
<1> HIDE DEF c
<1>8. ActorsUsed'
  <2>1. UsedProcs \subseteq UsedProcs' /\ c \in UsedProcs'
    BY <1>4, <1>6, <1>7 DEF UsedProcs
  <2>2. task'.pid = c
    BY <1>4 DEF Idle
  <2> QED
    BY <2>1, <2>2, <1>4 DEF LossInv, ActorsUsed
<1>9. ASSUME NEW i \in Proc \ {0} PROVE LostBound(Kernel', held', i)
  <2>1. CASE i = c
    <3>1. held'[i] = {}
      BY <2>1, <1>4, <1>6 DEF LossInv, Inv, UnusedHoldsNothing
    <3> QED
      BY <3>1 DEF LostBound, Lost
  <2>2. CASE i # c
    <3>1. /\ Kernel'.pm = pm' /\ Kernel'.pd = Kernel.pd /\ Kernel'.mem = Kernel.mem
          /\ Kernel.pm = pm
      BY <1>4 DEF Kernel
    <3>2. Spent(Kernel', i) = Spent(Kernel, i)
      BY <2>2, <3>1, <1>7 DEF Spent
    <3>3. \A v \in VPage : GetPageTableEntryByVA(Kernel', i, v)
                             = GetPageTableEntryByVA(Kernel, i, v)
      BY <3>1 DEF GetPageTableEntryByVA
    <3>4. LostBound(Kernel, held, i)
      BY DEF LossInv
    <3> QED
      BY <3>1, <3>2, <3>3, <3>4, <1>4, SameLost
  <2> QED
    BY <2>1, <2>2
<1> QED
  BY <1>3, <1>8, <1>9 DEF LossInv

\* Every step that calls AllocPage.
LEMMA AllocPageLoss ==
  ASSUME VMInv, LossInv, NEW id \in UsedProcs \ {0}, NEW va \in UserVPages,
         ~Present(Kernel, id, va), NEW perm \in {"R", "RW"},
         NEW a, a = AllocPage(Kernel, id, va, perm), Becomes(a.s, id), freed' = freed
  PROVE  /\ Inv' /\ BudgetInv' /\ UsedProcs' = UsedProcs
         /\ \A i \in Proc \ {0} : LostBound(a.s, held', i)
<1> DEFINE r == ContainerAlloc(pm, id)
           q == ContainerAlloc(r.pm, id)
<1>1. /\ id \in Proc \ {0} /\ pm \in PhysMemState /\ pm.lastFreedPage = NONE
      /\ Good(Kernel, held) /\ Kernel.pm = pm /\ held \in [Proc -> SUBSET Page]
      /\ pm.containers[id].usage <= pm.containers[id].quota
  <2>1. Good(Kernel, held) /\ Kernel.pm = pm
    BY KernelFields DEF VMInv
  <2> QED
    BY <2>1 DEF UsedProcs, Good, KernelState, Owned, LossInv, Inv, QuotaRespected
<1>2. Takes(pm, pm, id) /\ Takes(pm, r.pm, id)
  BY <1>1, TakesNothing, TakesOnce
<1> HIDE DEF r
<1>3. Takes(r.pm, q.pm, id)
  <2>1. /\ r.pm \in PhysMemState /\ r.pm.lastFreedPage = NONE
        /\ r.pm.containers[id].usage <= r.pm.containers[id].quota
    BY <1>2 DEF Takes
  <2> QED
    BY <2>1, <1>1, TakesOnce
<1>4. Takes(pm, q.pm, id)
  BY <1>1, <1>2, <1>3, TakesTwice
<1>5. /\ ~Spent(Kernel, id) => r.page # NoPage
      /\ r.pm.containers[id].usage # r.pm.containers[id].quota => q.page # NoPage
  <2>1. ~Spent(Kernel, id) => ContainerAlloc(pm, id).page # NoPage
    BY <1>1, <1>2, FindsAfter DEF LossInv, Spent
  <2>2. r.pm.containers[id].usage # r.pm.containers[id].quota
          => ContainerAlloc(r.pm, id).page # NoPage
    BY <1>1, <1>2, FindsAfter DEF LossInv
  <2> QED
    BY <2>1, <2>2 DEF r
<1>6. /\ LostBound(a.s, Given(held, id, Kernel, a.s.pm), id)
      /\ \A i \in Proc \ {id} : a.s.pd[i] = Kernel.pd[i]
      /\ a.s.pm \in {r.pm, ContainerAlloc(r.pm, id).pm}
  <2>1. LostBound(Kernel, held, id) /\ r = ContainerAlloc(Kernel.pm, id)
    BY <1>1 DEF LossInv, r
  <2> QED
    BY <2>1, <1>1, <1>5, AllocPageLoses
<1>7. /\ Good(a.s, held') /\ a.s.pm = pm' /\ a.s.pd = pd'
      /\ \A i \in Proc, v \in VPage : i # id \/ v # va =>
           GetPageTableEntryByVA(a.s, i, v) = GetPageTableEntryByVA(Kernel, i, v)
  BY <1>1, AllocPageStep
<1>8. held' = [held EXCEPT ![id] = held[id] \cup (pm'.allocated \ pm.allocated)]
  BY <1>7 DEF Becomes
<1>9. Takes(pm, pm', id)
  BY <1>2, <1>4, <1>6, <1>7
<1>10. Inv' /\ BudgetInv' /\ UsedProcs' = UsedProcs
  BY <1>8, <1>9, TakesKeeps DEF LossInv
<1>11. ASSUME NEW i \in Proc \ {0} PROVE LostBound(a.s, held', i)
  <2>1. CASE i = id
    <3>1. held' = Given(held, id, Kernel, a.s.pm)
      BY <1>1, <1>7, <1>8 DEF Given
    <3> QED
      BY <2>1, <3>1, <1>6
  <2>2. CASE i # id
    <3>1. Spent(a.s, i) = Spent(Kernel, i)
      BY <2>2, <1>1, <1>7, <1>9 DEF Spent, Takes, SameButUsage
    <3>2. held'[i] = held[i]
      BY <2>2, <1>1, <1>8
    <3>3. LostBound(Kernel, held, i)
      BY DEF LossInv
    <3>4. \A j \in UserDirs : a.s.pd[i][j] = Kernel.pd[i][j]
      BY <2>2, <1>6
    <3>5. \A v \in VPage :
            GetPageTableEntryByVA(a.s, i, v) = GetPageTableEntryByVA(Kernel, i, v)
      BY <2>2, <1>7
    <3> QED
      BY <3>1, <3>2, <3>3, <3>4, <3>5, SameLost
  <2> QED
    BY <2>1, <2>2
<1> QED
  BY <1>10, <1>11

\* A step that changes neither the allocator nor the directories nor a mapping.
LEMMA QuietLoss ==
  ASSUME LossInv, pm' = pm, pd' = pd, held' = held, freed' = freed,
         \A i \in Proc, v \in VPage :
           GetPageTableEntryByVA(Kernel', i, v) = GetPageTableEntryByVA(Kernel, i, v)
  PROVE  /\ Inv' /\ BudgetInv' /\ UsedProcs' = UsedProcs
         /\ \A id \in Proc \ {0} : LostBound(Kernel', held', id)
<1>1. Inv'
  BY DEF LossInv, Inv, TypeOK, QuotaRespected, UnusedHoldsNothing
<1>2. BudgetInv' /\ UsedProcs' = UsedProcs
  BY DEF LossInv, BudgetInv, UserPagesInWindow, PageZeroUnused, AllocatedIsHeld,
         Budget, Spare, UserPageSet, UsedProcs
<1>3. ASSUME NEW id \in Proc \ {0} PROVE LostBound(Kernel', held', id)
  <2>1. /\ Kernel'.pm = pm /\ Kernel.pm = pm /\ Kernel'.pd = pd /\ Kernel.pd = pd
    BY DEF Kernel
  <2>2. Spent(Kernel', id) = Spent(Kernel, id)
    BY <2>1 DEF Spent
  <2>3. LostBound(Kernel, held, id)
    BY DEF LossInv
  <2> QED
    BY <2>1, <2>2, <2>3, SameLost
<1> QED
  BY <1>1, <1>2, <1>3

\* The steps that leave the kernel's state and every mapping as they are.
LEMMA StillLoss ==
  ASSUME VMInv, LossInv, UNCHANGED <<pm, held, freed, pd>>,
         \/ UNCHANGED <<mem, task, running>>
         \/ \E va \in VPage, n \in 1 .. NUM_TABLES, perm \in {"R", "RW"} :
              LoadSegment(va, n, perm)
         \/ Loaded
         \/ \E id \in running, va \in VPage : ProtectionFault(id, va)
         \/ \E id \in running, va \in VPage, n \in 1 .. NUM_TABLES :
              BeginCopy(id, va, n)
  PROVE  LossInv'
<1>1. Kernel' = Kernel
  BY DEF Kernel, LoadSegment, Loaded, ProtectionFault, BeginCopy
<1>2. /\ Inv' /\ BudgetInv' /\ UsedProcs' = UsedProcs
      /\ \A id \in Proc \ {0} : LostBound(Kernel', held', id)
  BY <1>1, QuietLoss
<1>3. task \in Task
  BY DEF VMInv
<1>4. ActorsUsed'
  <2>1. CASE UNCHANGED <<mem, task, running>>
    BY <2>1, <1>2 DEF LossInv, ActorsUsed
  <2>2. ASSUME NEW va \in VPage, NEW n \in 1 .. NUM_TABLES, NEW perm \in {"R", "RW"},
               LoadSegment(va, n, perm)
        PROVE  ActorsUsed'
    <3>1. task'.kind = task.kind /\ task'.pid = task.pid /\ running' = running
      BY <2>2, <1>3 DEF LoadSegment, Task
    <3> QED
      BY <3>1, <1>2 DEF LossInv, ActorsUsed
  <2>3. CASE Loaded
    BY <2>3, <1>2 DEF Loaded, LossInv, ActorsUsed, Idle
  <2>4. ASSUME NEW id \in running, NEW va \in VPage, ProtectionFault(id, va)
        PROVE  ActorsUsed'
    BY <2>4, <1>2 DEF ProtectionFault, LossInv, ActorsUsed, Idle
  <2>5. ASSUME NEW id \in running, NEW va \in VPage, NEW n \in 1 .. NUM_TABLES,
               BeginCopy(id, va, n)
        PROVE  ActorsUsed'
    BY <2>5, <1>2 DEF BeginCopy, LossInv, ActorsUsed, Idle
  <2> QED
    BY <2>1, <2>2, <2>3, <2>4, <2>5
<1> QED
  BY <1>2, <1>4 DEF LossInv

LEMMA UserWriteLoss ==
  ASSUME VMInv, LossInv, NEW id \in running, NEW va \in VPage, UserWrite(id, va),
         UNCHANGED freed
  PROVE  LossInv'
<1> DEFINE pte == GetPageTableEntryByVA(Kernel, id, va)
           t == [Kernel EXCEPT !.mem = Written(Kernel.mem, pte.page)]
<1>1. /\ pte.perm = "RW" /\ id \in Proc \ {0} /\ Good(Kernel, held)
      /\ mem' = Written(mem, pte.page) /\ pm' = pm /\ held' = held /\ pd' = pd
      /\ task' = task /\ running' = running
  BY DEF UserWrite, VMInv
<1>2. va \in UserVPages
  BY <1>1, EntryFacts
<1>3. pte.page \in held[id] /\ \A i \in UserDirs : Kernel.pd[id][i] # pte.page
  BY <1>1, <1>2 DEF Good, UserMappings, Present
<1> HIDE DEF pte
<1>4. /\ Good(t, held)
      /\ t.pm = Kernel.pm /\ t.pd = Kernel.pd /\ t.mem = Written(Kernel.mem, pte.page)
      /\ \A i \in Proc, v \in VPage :
           GetPageTableEntryByVA(t, i, v) = GetPageTableEntryByVA(Kernel, i, v)
  BY <1>1, <1>3, WriteKeeps
<1> HIDE DEF t
<1>5. Kernel' = t
  BY <1>1, <1>4, KernelFields DEF Good
<1>6. \A i \in Proc, v \in VPage :
        GetPageTableEntryByVA(Kernel', i, v) = GetPageTableEntryByVA(Kernel, i, v)
  BY <1>4, <1>5
<1>7. /\ Inv' /\ BudgetInv' /\ UsedProcs' = UsedProcs
      /\ \A i \in Proc \ {0} : LostBound(Kernel', held', i)
  BY <1>1, <1>6, QuietLoss
<1> QED
  BY <1>1, <1>7 DEF LossInv, ActorsUsed

LEMMA PageFaultLoss ==
  ASSUME VMInv, LossInv, NEW id \in running, NEW va \in VPage, PageFault(id, va),
         UNCHANGED freed
  PROVE  LossInv'
<1> DEFINE a == AllocPage(Kernel, id, va, "RW")
<1>1. /\ task = Idle /\ ~Present(Kernel, id, va) /\ Becomes(a.s, id) /\ mem' = a.s.mem
      /\ task' = IF a.err THEN [Idle EXCEPT !.kind = "halted"] ELSE Idle
      /\ running' = running /\ freed' = freed
      /\ id \in UsedProcs \ {0} /\ id \in Proc /\ Good(Kernel, held)
  BY DEF PageFault, VMInv, LossInv, ActorsUsed
<1>2. va \in UserVPages
  BY <1>1, EntryFacts DEF Present
<1> HIDE DEF a
<1>3. a.s \in KernelState /\ a.s.pm = pm' /\ a.s.pd = pd'
  BY <1>1, <1>2, AllocPageStep DEF a
<1>4. /\ Inv' /\ BudgetInv' /\ UsedProcs' = UsedProcs
      /\ \A i \in Proc \ {0} : LostBound(a.s, held', i)
  BY <1>1, <1>2, AllocPageLoss DEF a
<1>5. Kernel' = a.s
  BY <1>1, <1>3, KernelFields
<1>6. ActorsUsed'
  <2>1. task'.kind \notin {"load", "copy"}
    BY <1>1 DEF Idle
  <2> QED
    BY <2>1, <1>1, <1>4 DEF LossInv, ActorsUsed
<1> QED
  BY <1>4, <1>5, <1>6 DEF LossInv

LEMMA CopyPageLoss ==
  ASSUME VMInv, LossInv, CopyPage, UNCHANGED freed
  PROVE  LossInv'
<1> DEFINE a == AllocPage(Kernel, task.pid, task.va, "RW")
           s == IF Present(Kernel, task.pid, task.va) THEN Kernel ELSE a.s
<1>1. /\ task.kind = "copy" /\ task \in Task /\ task.pid # 0 /\ task.left > 0
      /\ task.pid \in UsedProcs
      /\ MEM_USERLO_PI <= task.va /\ task.va + task.left <= MEM_USERHI_PI
      /\ Becomes(s, task.pid) /\ mem' = s.mem
      /\ task' = IF task.left > 1
                 THEN [task EXCEPT !.va = task.va + 1, !.left = task.left - 1]
                 ELSE Idle
      /\ running' = running /\ freed' = freed /\ Good(Kernel, held)
  BY DEF CopyPage, VMInv, TaskInv, LossInv, ActorsUsed
<1> HIDE DEF a
<1>2. /\ task.pid \in Proc \ {0} /\ task.va \in Nat /\ task.left \in Nat
      /\ task.va < MEM_USERHI_PI
  BY <1>1, PhysMemAssumption DEF Task
<1>3. task.va \in UserVPages
  BY <1>1, <1>2, UserPageFacts
<1>4. /\ Inv' /\ BudgetInv' /\ UsedProcs' = UsedProcs
      /\ \A i \in Proc \ {0} : LostBound(Kernel', held', i)
  <2>1. CASE Present(Kernel, task.pid, task.va)
    <3>1. s = Kernel
      BY <2>1
    <3>2. UNCHANGED <<pm, pd, mem>>
      BY <1>1, <3>1, KernelFields DEF Becomes
    <3>3. held' = held
      <4>1. held' = Given(held, task.pid, Kernel, pm)
        BY <1>1, <3>1, KernelFields DEF Becomes, Given
      <4>2. held \in [Proc -> SUBSET Page]
        BY <1>1 DEF Good, Owned
      <4>3. Given(held, task.pid, Kernel, pm) = held
        BY <4>2, <1>2, KernelFields DEF Given
      <4> QED
        BY <4>1, <4>3
    <3>4. Kernel' = Kernel
      BY <3>2 DEF Kernel
    <3> QED
      BY <3>2, <3>3, <3>4, <1>1, QuietLoss
  <2>2. CASE ~Present(Kernel, task.pid, task.va)
    <3>1. s = a.s
      BY <2>2
    <3> HIDE DEF s
    <3>2. a.s \in KernelState /\ a.s.pm = pm' /\ a.s.pd = pd'
      BY <1>1, <1>2, <1>3, <2>2, <3>1, AllocPageStep DEF a
    <3>3. Kernel' = a.s
      BY <1>1, <3>1, <3>2, KernelFields
    <3>4. /\ Inv' /\ BudgetInv' /\ UsedProcs' = UsedProcs
          /\ \A i \in Proc \ {0} : LostBound(a.s, held', i)
      BY <1>1, <1>3, <2>2, <3>1, AllocPageLoss DEF a
    <3> QED
      BY <3>3, <3>4
  <2> QED
    BY <2>1, <2>2
<1>5. ActorsUsed'
  <2>1. CASE task.left > 1
    <3>1. task'.pid = task.pid
      BY <2>1, <1>1 DEF Task
    <3> QED
      BY <3>1, <1>1, <1>4 DEF LossInv, ActorsUsed
  <2>2. CASE ~(task.left > 1)
    BY <2>2, <1>1, <1>4 DEF LossInv, ActorsUsed, Idle
  <2> QED
    BY <2>1, <2>2
<1> QED
  BY <1>4, <1>5 DEF LossInv

LEMMA LoadPageLoss ==
  ASSUME VMInv, LossInv, LoadPage, UNCHANGED freed
  PROVE  LossInv'
<1> DEFINE id == task.pid
           va == task.va
           a == AllocPage(Kernel, id, va, task.perm)
           pte == GetPageTableEntryByVA(a.s, id, va)
           w == [a.s EXCEPT !.mem = Written(a.s.mem, pte.page)]
<1>1. /\ task.kind = "load" /\ task.left > 0 /\ task \in Task /\ id # 0
      /\ id \in UsedProcs /\ task.perm \in {"R", "RW"}
      /\ \A v \in va .. va + task.left - 1 :
           VA_PDE_INDEX(v) \in UserDirs /\ ~Present(Kernel, id, v)
      /\ running' = running /\ freed' = freed /\ Good(Kernel, held)
  BY DEF LoadPage, VMInv, TaskInv, LossInv, ActorsUsed
<1>2. /\ Becomes(a.s, id)
      /\ a.err => mem' = a.s.mem /\ task' = [task EXCEPT !.kind = "halted"]
      /\ ~a.err => /\ mem' = Written(a.s.mem, pte.page)
                   /\ task' = [task EXCEPT !.va = va + 1, !.left = task.left - 1]
  BY DEF LoadPage
<1>3. id \in Proc \ {0} /\ va \in Nat /\ task.left \in Nat
  BY <1>1 DEF Task
<1>4. va \in UserVPages /\ va \in VPage /\ ~Present(Kernel, id, va)
  BY <1>1, <1>3, UserPageFacts DEF UserVPages
<1>5. task'.pid = id /\ task.pid \in UsedProcs
  BY <1>1, <1>2 DEF Task, AllocPage, MapPage
<1> HIDE DEF a, id, va
<1>6. /\ Good(a.s, held') /\ a.s \in KernelState /\ a.s.pm = pm' /\ a.s.pd = pd'
      /\ ~a.err => pte.perm = task.perm
  BY <1>1, <1>2, <1>3, <1>4, AllocPageStep DEF a
<1>7. /\ Inv' /\ BudgetInv' /\ UsedProcs' = UsedProcs
      /\ \A i \in Proc \ {0} : LostBound(a.s, held', i)
  BY <1>1, <1>2, <1>4, AllocPageLoss DEF a
<1>8. \A i \in Proc \ {0} : LostBound(Kernel', held', i)
  <2>1. CASE a.err
    <3>1. Kernel' = a.s
      BY <1>2, <1>6, <2>1, KernelFields
    <3> QED
      BY <3>1, <1>7
  <2>2. CASE ~a.err
    <3>1. pte.page \in held'[id] /\ \A i \in UserDirs : a.s.pd[id][i] # pte.page
      BY <1>1, <1>3, <1>4, <1>6, <2>2 DEF Good, UserMappings, Present
    <3> HIDE DEF pte
    <3>2. /\ Good(w, held')
          /\ w.pm = a.s.pm /\ w.pd = a.s.pd /\ w.mem = Written(a.s.mem, pte.page)
          /\ \A i \in Proc, v \in VPage :
               GetPageTableEntryByVA(w, i, v) = GetPageTableEntryByVA(a.s, i, v)
      BY <1>3, <1>6, <3>1, WriteKeeps
    <3> HIDE DEF w
    <3>3. Kernel' = w
      BY <1>2, <1>6, <2>2, <3>2, KernelFields DEF Good
    <3>4. ASSUME NEW i \in Proc \ {0} PROVE LostBound(w, held', i)
      <4>1. LostBound(a.s, held', i)
        BY <1>7
      <4>2. Spent(w, i) = Spent(a.s, i)
        BY <3>2 DEF Spent
      <4> QED
        BY <4>1, <4>2, <3>2, SameLost
    <3> QED
      BY <3>3, <3>4
  <2> QED
    BY <2>1, <2>2
<1>9. ActorsUsed'
  BY <1>1, <1>5, <1>7 DEF LossInv, ActorsUsed, id
<1> QED
  BY <1>7, <1>8, <1>9 DEF LossInv

\* No process is ever refused a page below its quota, and loses at most one.
LEMMA LossInvHolds == VMSpec => []LossInv
<1>1. VMInv /\ LossInv /\ [VMNext]_vmVars => LossInv'
  <2> SUFFICES ASSUME VMInv, LossInv, [VMNext]_vmVars PROVE LossInv'
    OBVIOUS
  <2>1. CASE UNCHANGED vmVars
    BY <2>1, StillLoss DEF vmVars
  <2>2. CASE VMNext
    <3>1. freed' = freed
      BY <2>2 DEF VMNext
    <3>2. CASE Create
      <4>1. ASSUME NEW q \in Quotas, CreateProcess(q) PROVE LossInv'
        BY <3>1, <4>1, CreateProcessLoss
      <4>2. ASSUME NEW va \in VPage, NEW n \in 1 .. NUM_TABLES, NEW perm \in {"R", "RW"},
                   LoadSegment(va, n, perm)
            PROVE  LossInv'
        <5>1. UNCHANGED <<pm, held, freed, pd>>
          BY <3>1, <4>2 DEF LoadSegment
        <5> QED
          BY <5>1, <4>2, StillLoss
      <4>3. CASE LoadPage
        BY <3>1, <4>3, LoadPageLoss
      <4>4. CASE Loaded
        <5>1. UNCHANGED <<pm, held, freed, pd>>
          BY <3>1, <4>4 DEF Loaded
        <5> QED
          BY <5>1, <4>4, StillLoss
      <4> QED
        BY <3>2, <4>1, <4>2, <4>3, <4>4 DEF Create
    <3>3. ASSUME NEW id \in running, NEW va \in VPage, UserAccess(id, va)
          PROVE  LossInv'
      <4>1. CASE ProtectionFault(id, va)
        <5>1. UNCHANGED <<pm, held, freed, pd>>
          BY <3>1, <4>1 DEF ProtectionFault
        <5> QED
          BY <5>1, <4>1, StillLoss
      <4> QED
        BY <3>1, <3>3, <4>1, UserWriteLoss, PageFaultLoss DEF UserAccess
    <3>4. ASSUME NEW id \in running, NEW va \in VPage, NEW n \in 1 .. NUM_TABLES,
                 BeginCopy(id, va, n)
          PROVE  LossInv'
      <4>1. UNCHANGED <<pm, held, freed, pd>>
        BY <3>1, <3>4 DEF BeginCopy
      <4> QED
        BY <4>1, <3>4, StillLoss
    <3>5. CASE CopyPage
      BY <3>1, <3>5, CopyPageLoss
    <3> QED
      BY <2>2, <3>2, <3>3, <3>4, <3>5 DEF VMNext
  <2> QED
    BY <2>1, <2>2
<1> QED
  BY <1>1, InitLoss, VMInvHolds, PTL DEF VMSpec

\* Of the pages charged to a process at most one is in no mapping and no table of
\* its, and only when its quota is used up: whatever AllocPage's two allocations
\* come to, whoever else allocates, and wherever the scans find the pages.
THEOREM AtMostOneLost == VMSpec => []AtMostOnePageLost
<1>1. VMInv /\ LossInv => AtMostOnePageLost
  <2> SUFFICES ASSUME VMInv, LossInv, NEW id \in Proc \ {0},
                      NEW lost, lost = held[id] \ (Mapped(id) \cup Tables(id))
               PROVE  /\ Cardinality(lost) <= 1
                      /\ lost # {} => pm.containers[id].usage = pm.containers[id].quota
    BY DEF AtMostOnePageLost
  <2>1. /\ Good(Kernel, held) /\ Kernel.pm = pm /\ Kernel.pd = pd
        /\ LostBound(Kernel, held, id)
    BY KernelFields DEF VMInv, LossInv
  <2>2. NoPage \notin held[id]
    BY <2>1 DEF Good, Owned
  <2>3. lost \subseteq Lost(Kernel, held, id)
    <3>1. ASSUME NEW p \in held[id], InUse(Kernel, id, p)
          PROVE  p \in Mapped(id) \cup Tables(id)
      BY <3>1, <2>1, <2>2 DEF InUse, Mapped, MappedAt, Tables, Entry
    <3> QED
      BY <3>1 DEF Lost
  <2>4. lost # {} => pm.containers[id].usage = pm.containers[id].quota
    BY <2>1, <2>3 DEF LostBound, Spent
  <2>5. PICK p : lost \subseteq {p}
    BY <2>1, <2>3 DEF LostBound
  <2>6. lost = {} \/ lost = {p}
    BY <2>5
  <2>7. Cardinality({}) = 0 /\ Cardinality({p}) = 1
    BY FS_EmptySet, FS_Singleton
  <2>8. Cardinality(lost) = 0 \/ Cardinality(lost) = 1
    BY <2>6, <2>7
  <2> QED
    BY <2>4, <2>8
<1> QED
  BY <1>1, VMInvHolds, LossInvHolds, PTL
=============================================================================
