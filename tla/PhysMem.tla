------------------------------ MODULE PhysMem ------------------------------
(***************************************************************************)
(* The physical page allocator and the quotas of mem_physical.c.           *)
(*                                                                         *)
(* The static data of the file is one record, pm; each function is an      *)
(* operator from the old record to the new one (and its result), and each  *)
(* exported entry point an action.  Two variables are history: held[id]    *)
(* are the pages ContainerAlloc gave to id and id has not freed, and freed *)
(* tells whether any page was ever freed, which nothing in the kernel as   *)
(* it is built does.                                                       *)
(***************************************************************************)
EXTENDS Containers, FiniteSets, FiniteSetsExt

CONSTANTS NUM_PHYSICAL_PAGES,            \* length of pPageInfo[]
          MEM_USERLO_PI, MEM_USERHI_PI,  \* the user window of physical pages
          RamSets,   \* the sets of pages with RAM behind them to start from
          Quotas     \* the quotas asked for

Page == 0 .. NUM_PHYSICAL_PAGES - 1
UserWindow == MEM_USERLO_PI .. MEM_USERHI_PI - 1

ASSUME PhysMemAssumption ==
  /\ NUM_PHYSICAL_PAGES \in Nat /\ MEM_USERLO_PI \in Nat /\ MEM_USERHI_PI \in Nat
  /\ 0 < MEM_USERLO_PI
  /\ MEM_USERLO_PI <= MEM_USERHI_PI
  /\ MEM_USERHI_PI <= NUM_PHYSICAL_PAGES
  /\ RamSets \subseteq SUBSET Page
  /\ Quotas \subseteq Nat

VARIABLES pm, held, freed
vars == <<pm, held, freed>>

NONE == -1      \* lastFreedPage and lastAllocPage before the first use
NoPage == 0     \* what the allocators return on failure

\* enum PhysicalPagePerm
Perm == {"BIOS", "KERNEL", "USER"}

\* The static data of mem_physical.c; allocated is the set of pages whose
\* pPageInfo[page].allocated is 1.
PhysMemState == [allocated : SUBSET Page, perm : [Page -> Perm],
                 lastFreedPage : Page \cup {NONE},
                 lastAllocPage : Page \cup {NONE},
                 containers : [Proc -> Container]]

UserPages(ram) == ram \cap UserWindow

\* The classification of the pages, for the pages the memory map calls RAM (how
\* the map's entries are compared with the pages is module MemMap), followed by
\* ContainerInit.
PhysicalMemoryInit(ram) ==
  [allocated |-> Page \ ram,
   perm |-> [p \in Page |-> IF p \notin ram THEN "BIOS"
                            ELSE IF p \in UserWindow THEN "USER" ELSE "KERNEL"],
   lastFreedPage |-> NONE,
   lastAllocPage |-> NONE,
   containers |-> ContainerInit(Cardinality(UserPages(ram)))]
-----------------------------------------------------------------------------
(***************************************************************************)
(* The functions.  An allocator returns a record: the page index (NoPage   *)
(* on failure) and the new state.                                          *)
(***************************************************************************)
FreeUserPages(s, from, to) ==
  {p \in from .. to : p \notin s.allocated /\ s.perm[p] = "USER"}

\* One of the scan loops: the first free user page in from .. to.
Scan(s, from, to) ==
  IF FreeUserPages(s, from, to) = {} THEN NoPage
  ELSE Min(FreeUserPages(s, from, to))

\* Mutant: the scan does not come back to the pages before the last allocation.
NextFit_NoWrap(s) ==
  IF s.lastAllocPage = NONE
  THEN Scan(s, MEM_USERLO_PI, MEM_USERHI_PI - 1)
  ELSE Scan(s, s.lastAllocPage + 1, MEM_USERHI_PI - 1)

\* The page the scan loops stop at: next fit from the last allocation, then the
\* part of the window before it.
NextFit(s) ==
  IF s.lastAllocPage = NONE
  THEN Scan(s, MEM_USERLO_PI, MEM_USERHI_PI - 1)
  ELSE LET ahead == Scan(s, s.lastAllocPage + 1, MEM_USERHI_PI - 1)
       IN IF ahead # NoPage THEN ahead
          ELSE Scan(s, MEM_USERLO_PI, s.lastAllocPage)

\* Mutant: a page found by the scan is returned before it is recorded.
PhysicalPageAlloc_Unrecorded(s) ==
  [page |-> IF s.lastFreedPage # NONE THEN s.lastFreedPage ELSE NextFit(s),
   pm   |-> [s EXCEPT !.lastFreedPage = NONE]]

\* The page freed last is handed out first, and its allocated flag stays 0.
PhysicalPageAlloc(s) ==
  IF s.lastFreedPage # NONE
  THEN [page |-> s.lastFreedPage,
        pm   |-> [s EXCEPT !.lastAllocPage = s.lastFreedPage,
                           !.lastFreedPage = NONE]]
  ELSE LET page == NextFit(s)
       IN [page |-> page,
           pm   |-> IF page = NoPage THEN s
                    ELSE [s EXCEPT !.allocated = @ \cup {page},
                                   !.lastAllocPage = page]]

PhysicalPageFree(s, page) ==
  [s EXCEPT !.allocated = @ \ {page}, !.lastFreedPage = page]

\* Mutant: the test allows one page more than the quota.
ContainerAlloc_OffByOne(s, id) ==
  IF s.containers[id].usage > s.containers[id].quota
  THEN [page |-> NoPage, pm |-> s]
  ELSE PhysicalPageAlloc([s EXCEPT !.containers[id].usage = @ + 1])

\* usage is charged before the page is looked for, and stays charged when none
\* is found.
ContainerAlloc(s, id) ==
  IF s.containers[id].usage = s.containers[id].quota
  THEN [page |-> NoPage, pm |-> s]
  ELSE PhysicalPageAlloc([s EXCEPT !.containers[id].usage = @ + 1])

\* A page whose allocated flag is 0 is not freed and not credited.
ContainerFree(s, id, page) ==
  IF page \notin s.allocated THEN s
  ELSE [PhysicalPageFree(s, page) EXCEPT
          !.containers[id].usage = IF @ > 0 THEN @ - 1 ELSE @]
-----------------------------------------------------------------------------
(***************************************************************************)
(* The state machine: calls of the three container operations in any       *)
(* order.                                                                  *)
(***************************************************************************)
UsedProcs == {id \in Proc : pm.containers[id].used}

Init == /\ \E ram \in RamSets : pm = PhysicalMemoryInit(ram)
        /\ held = [id \in Proc |-> {}]
        /\ freed = FALSE

\* ContainerAlloc(id) by a process that exists.
Alloc(id) ==
  LET r == ContainerAlloc(pm, id)
  IN /\ id \in UsedProcs
     /\ pm' = r.pm
     /\ held' = IF r.page = NoPage THEN held
                ELSE [held EXCEPT ![id] = @ \cup {r.page}]
     /\ UNCHANGED freed

\* ContainerFree(id, page) of a page the process was given.
FreeOwn(id, page) ==
  /\ id \in UsedProcs
  /\ page \in held[id]
  /\ pm' = ContainerFree(pm, id, page)
  /\ held' = [held EXCEPT ![id] = @ \ {page}]
  /\ freed' = TRUE

\* ContainerSplit called as its comment asks, within MAX_CHILDREN and the array.
Split(id, quota) ==
  /\ id \in UsedProcs
  /\ QuotaAvailable(pm.containers, id, quota)
  /\ ChildrenLeft(pm.containers, id)
  /\ ChildInArray(pm.containers, id)
  /\ pm' = [pm EXCEPT !.containers = ContainerSplit(@, id, quota)]
  /\ UNCHANGED <<held, freed>>

Next == \E id \in Proc : \/ Alloc(id)
                         \/ \E q \in Quotas : Split(id, q)
                         \/ \E page \in held[id] : FreeOwn(id, page)

Spec == Init /\ [][Next]_vars
-----------------------------------------------------------------------------
(***************************************************************************)
(* Properties.                                                             *)
(***************************************************************************)
\* The state keeps its types.
TypeOK == /\ pm \in PhysMemState
          /\ held \in [Proc -> SUBSET Page]
          /\ freed \in BOOLEAN

UserPageSet == {p \in Page : pm.perm[p] = "USER"}

Children(id) == {c \in UsedProcs \ {0} : pm.containers[c].parent = id}

\* The quota of a process bounds the pages it holds: over any sequence of
\* allocations, splits and frees (including frees ContainerFree ignores) the
\* charged usage covers the pages held and never passes the quota.
QuotaRespected ==
  \A id \in Proc : /\ Cardinality(held[id]) <= pm.containers[id].usage
                   /\ pm.containers[id].usage <= pm.containers[id].quota

\* Quotas are given away only once: what a process holds and what it dedicated
\* to its children (ContainerSplit's usage += quota) never add up to more than
\* its own quota, so all processes together never need more than the machine has.
\* Until something is freed they add up to its usage exactly: nothing is charged
\* for a page that was not given.
NoOvercommit ==
  \A id \in UsedProcs :
    LET c == pm.containers
        quotas == [k \in Proc |-> c[k].quota]
        given == Cardinality(held[id]) + SumFunctionOnSet(quotas, Children(id))
    IN given <= c[id].quota /\ (freed \/ c[id].usage = given)

\* "Dedicates quota pages of memory": as long as a process is below its quota
\* ContainerAlloc finds it a page, whatever the other processes did before.
AllocSucceedsWithinQuota ==
  \A id \in UsedProcs :
    pm.containers[id].usage < pm.containers[id].quota
      => ContainerAlloc(pm, id).page # NoPage

\* The container index ContainerSplit gives a process with children left is one
\* no other process has: the index arithmetic never meets a container in use.
FreshChild ==
  \A id \in UsedProcs :
    ChildrenLeft(pm.containers, id) /\ ChildInArray(pm.containers, id)
      => ~pm.containers[ChildID(pm.containers, id)].used

\* A step never gives the container of one process to another: parent and quota
\* of a container in use are final, and its count of children only grows.
ContainersKept ==
  [][\A c \in UsedProcs :
       LET old == pm.containers[c]
           new == pm'.containers[c]
       IN /\ new.used /\ new.parent = old.parent /\ new.quota = old.quota
          /\ new.numChildren >= old.numChildren]_vars

\* Two processes never hold the same physical page, and no process holds a page
\* of the kernel, of the BIOS or without RAM.
ExclusiveOwnership ==
  /\ \A i, j \in Proc : i # j => held[i] \cap held[j] = {}
  /\ \A id \in Proc : held[id] \subseteq UserPageSet

\* As long as nothing is freed no page has two owners, and only user pages with
\* RAM have one.
OwnershipAsBuilt == ~freed => ExclusiveOwnership
=============================================================================
