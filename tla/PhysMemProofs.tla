--------------------------- MODULE PhysMemProofs ---------------------------
(***************************************************************************)
(* Theorems about PhysMem, for every number of pages, processes and        *)
(* children, every memory and every set of quotas.                         *)
(***************************************************************************)
EXTENDS PhysMem, ContainersProofs

USE DEF NONE, NoPage
-----------------------------------------------------------------------------
(***************************************************************************)
(* The scan.                                                               *)
(***************************************************************************)
\* Min of a nonempty set of naturals is a member of it: the scan loops of
\* PhysicalPageAlloc return a page they looked at.
LEMMA MinMember ==
  ASSUME NEW S \in SUBSET Nat, S # {}
  PROVE  Min(S) \in S
<1>1. PICK x \in S : \A y \in S : ~ (<<y, x>> \in LessThan)
  BY LessThanWellFounded, WFMin
<1>2. ASSUME NEW y \in S PROVE x =< y
  <2>1. x \in Nat /\ y \in Nat
    OBVIOUS
  <2>2. <<y, x>> \in Nat \X Nat
    BY <2>1
  <2>3. ~ (y < x)
    BY <1>1, <2>2 DEF LessThan
  <2> QED
    BY <2>1, <2>3
<1> QED
  BY <1>2 DEF Min

\* The scan loops return failure, or a user page of the window that is not
\* allocated.
LEMMA NextFitFree ==
  ASSUME NEW s \in PhysMemState, NextFit(s) # NoPage
  PROVE  /\ NextFit(s) \in Page
         /\ NextFit(s) \notin s.allocated
         /\ s.perm[NextFit(s)] = "USER"
<1>1. \A from, to \in Int :
        from >= 0 /\ to < NUM_PHYSICAL_PAGES /\ Scan(s, from, to) # NoPage
          => Scan(s, from, to) \in FreeUserPages(s, from, to)
  <2>1. SUFFICES ASSUME NEW from \in Int, NEW to \in Int, from >= 0,
                        Scan(s, from, to) # NoPage
                 PROVE  Scan(s, from, to) \in FreeUserPages(s, from, to)
    OBVIOUS
  <2>2. FreeUserPages(s, from, to) \in SUBSET Nat
    BY <2>1 DEF FreeUserPages
  <2>3. FreeUserPages(s, from, to) # {}
    BY <2>1 DEF Scan
  <2> QED
    BY <2>2, <2>3, MinMember DEF Scan
<1>2. s.lastAllocPage \in Int /\ -1 <= s.lastAllocPage
      /\ s.lastAllocPage < NUM_PHYSICAL_PAGES
  BY PhysMemAssumption DEF PhysMemState, Page
<1>3. \E from, to \in Int : /\ from >= 0 /\ to < NUM_PHYSICAL_PAGES
                            /\ NextFit(s) = Scan(s, from, to)
  <2>1. CASE s.lastAllocPage = NONE
    BY <2>1, PhysMemAssumption DEF NextFit
  <2>2. CASE s.lastAllocPage # NONE
    BY <2>2, <1>2, PhysMemAssumption DEF NextFit
  <2> QED
    BY <2>1, <2>2
<1>4. PICK from \in Int, to \in Int :
        /\ from >= 0 /\ to < NUM_PHYSICAL_PAGES
        /\ NextFit(s) \in FreeUserPages(s, from, to)
  BY <1>1, <1>3
<1> QED
  BY <1>4, PhysMemAssumption DEF FreeUserPages, Page
-----------------------------------------------------------------------------
(***************************************************************************)
(* The operations on a state of the right type.                            *)
(***************************************************************************)
LEMMA PageFacts == /\ Page \subseteq Nat
                   /\ \A h \in SUBSET Page : IsFiniteSet(h)
<1>1. IsFiniteSet(Page)
  BY FS_Interval, PhysMemAssumption DEF Page
<1>2. \A h \in SUBSET Page : IsFiniteSet(h)
  BY <1>1, FS_Subset
<1> QED
  BY <1>2 DEF Page

\* What PhysicalPageAlloc does: containers and permissions stay; a page it
\* returns is a page, and without a page freed last it was a free user page that
\* is now allocated.
LEMMA PhysicalPageAllocEffect ==
  ASSUME NEW s \in PhysMemState
  PROVE  LET r == PhysicalPageAlloc(s)
         IN /\ r.pm \in PhysMemState
            /\ r.pm.containers = s.containers
            /\ r.pm.perm = s.perm
            /\ r.page # NoPage => r.page \in Page
            /\ s.lastFreedPage = NONE =>
                 /\ r.pm.lastFreedPage = NONE
                 /\ s.allocated \subseteq r.pm.allocated
                 /\ r.page # NoPage =>
                      /\ r.page \in r.pm.allocated
                      /\ r.page \notin s.allocated
                      /\ s.perm[r.page] = "USER"
<1>1. CASE s.lastFreedPage # NONE
  BY <1>1 DEF PhysicalPageAlloc, PhysMemState
<1>2. CASE s.lastFreedPage = NONE /\ NextFit(s) = NoPage
  BY <1>2 DEF PhysicalPageAlloc
<1>3. CASE s.lastFreedPage = NONE /\ NextFit(s) # NoPage
  BY <1>3, NextFitFree DEF PhysicalPageAlloc, PhysMemState
<1> QED
  BY <1>1, <1>2, <1>3

\* One page more makes a set of pages at most one larger.
LEMMA AddPage ==
  ASSUME NEW h \in SUBSET Page, NEW page \in Page
  PROVE  /\ Cardinality(h) \in Nat
         /\ Cardinality(h \cup {page}) \in Nat
         /\ Cardinality(h \cup {page}) <= Cardinality(h) + 1
<1>1. IsFiniteSet(h) /\ Cardinality(h) \in Nat
  BY PageFacts, FS_CardinalityType
<1>2. Cardinality(h \cup {page})
        = IF page \in h THEN Cardinality(h) ELSE Cardinality(h) + 1
  BY <1>1, FS_AddElement
<1> QED
  BY <1>1, <1>2

\* One page less makes a set that had it exactly one smaller.
LEMMA RemovePage ==
  ASSUME NEW h \in SUBSET Page, NEW page \in h
  PROVE  /\ Cardinality(h) \in Nat
         /\ Cardinality(h \ {page}) \in Nat
         /\ Cardinality(h \ {page}) = Cardinality(h) - 1
<1>1. IsFiniteSet(h) /\ IsFiniteSet(h \ {page})
  BY PageFacts
<1> QED
  BY <1>1, FS_CardinalityType, FS_RemoveElement

\* The state with one more page charged to id.
Charged(s, id) == [s EXCEPT !.containers[id].usage = @ + 1]

LEMMA ChargedEffect ==
  ASSUME NEW s \in PhysMemState, NEW id \in Proc
  PROVE  /\ Charged(s, id) \in PhysMemState
         /\ Charged(s, id).allocated = s.allocated
         /\ Charged(s, id).perm = s.perm
         /\ Charged(s, id).lastFreedPage = s.lastFreedPage
         /\ Charged(s, id).containers
              = [s.containers EXCEPT ![id].usage = @ + 1]
<1> DEFINE cs == [s.containers EXCEPT ![id].usage = @ + 1]
<1>1. cs \in [Proc -> Container]
  BY DEF PhysMemState, Container
<1>2. Charged(s, id) = [s EXCEPT !.containers = cs]
  BY DEF Charged, PhysMemState
<1> QED
  BY <1>1, <1>2 DEF PhysMemState

\* What ContainerAlloc does: at the quota nothing; below it one page is charged,
\* and then PhysicalPageAlloc decides.
LEMMA ContainerAllocEffect ==
  ASSUME NEW s \in PhysMemState, NEW id \in Proc
  PROVE  LET r == ContainerAlloc(s, id)
         IN /\ r.pm \in PhysMemState
            /\ r.pm.perm = s.perm
            /\ r.page # NoPage => r.page \in Page
            /\ \/ r.page = NoPage /\ r.pm = s
               \/ /\ s.containers[id].usage # s.containers[id].quota
                  /\ r.pm.containers = [s.containers EXCEPT ![id].usage = @ + 1]
            /\ s.lastFreedPage = NONE =>
                 /\ r.pm.lastFreedPage = NONE
                 /\ s.allocated \subseteq r.pm.allocated
                 /\ r.page # NoPage =>
                      /\ r.page \in r.pm.allocated
                      /\ r.page \notin s.allocated
                      /\ s.perm[r.page] = "USER"
<1>1. CASE s.containers[id].usage = s.containers[id].quota
  BY <1>1 DEF ContainerAlloc
<1>2. CASE s.containers[id].usage # s.containers[id].quota
  <2>1. ContainerAlloc(s, id) = PhysicalPageAlloc(Charged(s, id))
    BY <1>2 DEF ContainerAlloc, Charged
  <2> QED
    BY <1>2, <2>1, ChargedEffect, PhysicalPageAllocEffect
<1> QED
  BY <1>1, <1>2

\* What ContainerFree does: a page that is not marked allocated changes nothing;
\* any other is credited, but usage does not fall below 0.
LEMMA ContainerFreeEffect ==
  ASSUME NEW s \in PhysMemState, NEW id \in Proc, NEW page \in Page
  PROVE  LET f == ContainerFree(s, id, page)
         IN /\ f \in PhysMemState
            /\ f.perm = s.perm
            /\ \/ f = s
               \/ f.containers =
                    [s.containers EXCEPT ![id].usage = IF @ > 0 THEN @ - 1 ELSE @]
<1> DEFINE cs == [s.containers EXCEPT ![id].usage = IF @ > 0 THEN @ - 1 ELSE @]
           g == PhysicalPageFree(s, page)
<1>1. CASE page \notin s.allocated
  BY <1>1 DEF ContainerFree
<1>2. CASE page \in s.allocated
  <2>1. cs \in [Proc -> Container]
    BY DEF PhysMemState, Container
  <2>2. g \in PhysMemState /\ g.perm = s.perm /\ g.containers = s.containers
    BY DEF PhysicalPageFree, PhysMemState
  <2>3. ContainerFree(s, id, page) = [g EXCEPT !.containers = cs]
    BY <1>2, <2>2 DEF ContainerFree, PhysMemState
  <2> HIDE DEF g, cs
  <2>4. /\ [g EXCEPT !.containers = cs] \in PhysMemState
        /\ [g EXCEPT !.containers = cs].perm = s.perm
        /\ [g EXCEPT !.containers = cs].containers = cs
    BY <2>1, <2>2 DEF PhysMemState
  <2> QED
    BY <2>3, <2>4 DEF cs
<1> QED
  BY <1>1, <1>2

-----------------------------------------------------------------------------
(***************************************************************************)
(* The inductive invariant of the whole interface.                         *)
(***************************************************************************)
UnusedHoldsNothing == \A c \in Proc : ~pm.containers[c].used => held[c] = {}

Inv == /\ TypeOK
       /\ QuotaRespected
       /\ Tree(pm.containers)
       /\ UnusedHoldsNothing

-----------------------------------------------------------------------------
(***************************************************************************)
(* Inv is inductive: one lemma for each action.                            *)
(***************************************************************************)
LEMMA InitInv == Init => Inv
<1> SUFFICES ASSUME Init PROVE Inv
  OBVIOUS
<1>1. PICK ram \in RamSets : pm = PhysicalMemoryInit(ram)
  BY DEF Init
<1>2. ram \in SUBSET Page
  BY PhysMemAssumption
<1>3. Cardinality(UserPages(ram)) \in Nat
  BY <1>2, PageFacts, FS_CardinalityType DEF UserPages
<1> DEFINE cs == ContainerInit(Cardinality(UserPages(ram)))
<1>4. /\ cs \in [Proc -> Container] /\ Tree(cs)
      /\ \A c \in Proc : cs[c].usage = 0
  BY <1>3, InitTree
<1>5. pm \in PhysMemState /\ pm.containers = cs
  BY <1>1, <1>2, <1>4 DEF PhysicalMemoryInit, PhysMemState, Perm
<1> HIDE DEF cs
<1>6. held = [id \in Proc |-> {}]
  BY DEF Init
<1>7. TypeOK
  <2>1. freed \in BOOLEAN
    BY DEF Init
  <2> QED
    BY <2>1, <1>5, <1>6 DEF TypeOK
<1>8. QuotaRespected
  <2>1. \A id \in Proc : cs[id].quota \in Nat
    BY <1>4 DEF Container
  <2> QED
    BY <2>1, <1>4, <1>5, <1>6, FS_EmptySet DEF QuotaRespected
<1>9. UnusedHoldsNothing
  BY <1>6 DEF UnusedHoldsNothing
<1> QED
  BY <1>5, <1>7, <1>4, <1>8, <1>9 DEF Inv

LEMMA AllocInv == ASSUME Inv, NEW id \in Proc, Alloc(id) PROVE Inv'
<1> DEFINE cs == pm.containers
           r == ContainerAlloc(pm, id)
<1>1. /\ pm \in PhysMemState /\ held \in [Proc -> SUBSET Page]
      /\ cs \in [Proc -> Container] /\ cs[id].used
  BY DEF Inv, TypeOK, Alloc, UsedProcs, PhysMemState
<1>2. /\ pm' = r.pm /\ r.pm \in PhysMemState
      /\ r.page # NoPage => r.page \in Page
      /\ \/ r.page = NoPage /\ pm' = pm
         \/ /\ cs[id].usage # cs[id].quota
            /\ cs' = [cs EXCEPT ![id].usage = @ + 1]
      /\ held' = IF r.page = NoPage THEN held
                 ELSE [held EXCEPT ![id] = @ \cup {r.page}]
  BY <1>1, ContainerAllocEffect DEF Alloc
<1>3. held' \in [Proc -> SUBSET Page]
  BY <1>1, <1>2
<1>4. TypeOK'
  <2>1. freed' \in BOOLEAN
    BY DEF Inv, TypeOK, Alloc
  <2> QED
    BY <2>1, <1>2, <1>3 DEF TypeOK
<1> HIDE DEF r, cs
<1>5. CASE pm' = pm /\ held' = held
  BY <1>5, <1>4 DEF Inv, QuotaRespected, UnusedHoldsNothing, TypeOK
<1>6. CASE /\ cs[id].usage # cs[id].quota
           /\ cs' = [cs EXCEPT ![id].usage = @ + 1]
  <2>1. \A c \in Proc : /\ cs'[c].quota = cs[c].quota
                        /\ cs'[c].numChildren = cs[c].numChildren
                        /\ cs'[c].used = cs[c].used
                        /\ cs'[c].usage = IF c = id THEN cs[c].usage + 1
                                          ELSE cs[c].usage
    BY <1>1, <1>6 DEF Container
  <2>2. Tree(cs')
    BY <2>1 DEF Inv, Tree, IsChild, cs
  <2>3. UnusedHoldsNothing'
    BY <2>1, <1>1, <1>2 DEF Inv, UnusedHoldsNothing, cs
  <2>4. ASSUME NEW c \in Proc
        PROVE  /\ Cardinality(held'[c]) <= cs'[c].usage
               /\ cs'[c].usage <= cs'[c].quota
    <3>1. /\ Cardinality(held[c]) <= cs[c].usage /\ cs[c].usage <= cs[c].quota
          /\ cs[c].usage \in Nat /\ cs[c].quota \in Nat
      BY <1>1 DEF Inv, QuotaRespected, Container, cs
    <3>2. held[c] \in SUBSET Page /\ Cardinality(held[c]) \in Nat
      BY <1>1, PageFacts, FS_CardinalityType
    <3>3. CASE c # id
      BY <3>1, <3>3, <2>1, <1>1, <1>2
    <3>4. CASE c = id
      <4>1. cs'[c].usage = cs[c].usage + 1 /\ cs[c].usage # cs[c].quota
            /\ cs'[c].quota = cs[c].quota
        BY <2>1, <3>4, <1>6
      <4>2. CASE r.page = NoPage
        BY <4>1, <4>2, <3>1, <3>2, <1>2
      <4>3. CASE r.page # NoPage
        <5>1. held'[c] = held[c] \cup {r.page} /\ r.page \in Page
          BY <4>3, <3>4, <1>1, <1>2
        <5> QED
          BY <5>1, <4>1, <3>1, <3>2, AddPage
      <4> QED
        BY <4>2, <4>3
    <3> QED
      BY <3>3, <3>4
  <2>5. QuotaRespected'
    BY <2>4 DEF QuotaRespected, cs
  <2> QED
    BY <1>4, <2>2, <2>3, <2>5 DEF Inv, cs
<1> QED
  BY <1>2, <1>5, <1>6

LEMMA FreeOwnInv ==
  ASSUME Inv, NEW id \in Proc, NEW page \in held[id], FreeOwn(id, page)
  PROVE  Inv'
<1> DEFINE cs == pm.containers
<1>1. /\ pm \in PhysMemState /\ held \in [Proc -> SUBSET Page]
      /\ cs \in [Proc -> Container] /\ page \in Page
  BY DEF Inv, TypeOK, PhysMemState
<1>2. /\ pm' \in PhysMemState
      /\ \/ cs' = cs
         \/ cs' = [cs EXCEPT ![id].usage = IF @ > 0 THEN @ - 1 ELSE @]
      /\ held' = [held EXCEPT ![id] = @ \ {page}]
  BY <1>1, ContainerFreeEffect DEF FreeOwn
<1>3. TypeOK'
  <2>1. freed' \in BOOLEAN
    BY DEF FreeOwn
  <2> QED
    BY <2>1, <1>1, <1>2 DEF TypeOK
<1> HIDE DEF cs
<1>4. \A c \in Proc : /\ cs'[c].quota = cs[c].quota
                      /\ cs'[c].numChildren = cs[c].numChildren
                      /\ cs'[c].used = cs[c].used
                      /\ c # id => cs'[c].usage = cs[c].usage
                      /\ \/ cs'[c].usage = cs[c].usage
                         \/ cs'[c].usage = cs[c].usage - 1 /\ cs[c].usage > 0
  BY <1>1, <1>2 DEF Container
<1>5. Tree(cs')
  BY <1>4 DEF Inv, Tree, IsChild, cs
<1>6. UnusedHoldsNothing'
  BY <1>1, <1>2, <1>4 DEF Inv, UnusedHoldsNothing, cs
<1>7. ASSUME NEW c \in Proc
      PROVE  /\ Cardinality(held'[c]) <= cs'[c].usage
             /\ cs'[c].usage <= cs'[c].quota
  <2>1. /\ Cardinality(held[c]) <= cs[c].usage /\ cs[c].usage <= cs[c].quota
        /\ cs[c].usage \in Nat /\ cs[c].quota \in Nat
    BY <1>1 DEF Inv, QuotaRespected, Container, cs
  <2>2. CASE c # id
    BY <2>1, <2>2, <1>1, <1>2, <1>4
  <2>3. CASE c = id
    <3>1. held'[c] = held[c] \ {page} /\ page \in held[c]
          /\ held[c] \in SUBSET Page
      BY <2>3, <1>1, <1>2
    <3>2. /\ Cardinality(held[c]) \in Nat
          /\ Cardinality(held'[c]) = Cardinality(held[c]) - 1
      BY <3>1, RemovePage
    <3> QED
      BY <3>2, <2>1, <1>4
  <2> QED
    BY <2>2, <2>3
<1>8. QuotaRespected'
  BY <1>7 DEF QuotaRespected, cs
<1> QED
  BY <1>3, <1>5, <1>6, <1>8 DEF Inv, cs

LEMMA SplitInv ==
  ASSUME Inv, NEW id \in Proc, NEW quota \in Quotas, Split(id, quota)
  PROVE  Inv'
<1> DEFINE cs == pm.containers
           child == ChildID(cs, id)
<1>1. /\ pm \in PhysMemState /\ held \in [Proc -> SUBSET Page]
      /\ cs \in [Proc -> Container]
      /\ Tree(cs)
  BY DEF Inv, TypeOK, PhysMemState
<1>2. /\ cs[id].used /\ ChildrenLeft(cs, id) /\ ChildInArray(cs, id)
      /\ cs[id].usage + quota <= cs[id].quota
      /\ quota \in Nat
      /\ pm' = [pm EXCEPT !.containers = ContainerSplit(cs, id, quota)]
      /\ held' = held
  BY PhysMemAssumption
     DEF Split, QuotaAvailable, UsedProcs
<1>3. cs' = ContainerSplit(cs, id, quota)
  BY <1>1, <1>2 DEF PhysMemState
<1>4. /\ cs' \in [Proc -> Container]
      /\ child # id /\ child \in Proc
      /\ cs'[child].quota = quota /\ cs'[child].usage = 0 /\ cs'[child].used
      /\ cs'[id].quota = cs[id].quota /\ cs'[id].usage = cs[id].usage + quota
      /\ cs'[id].used
      /\ \A c \in Proc \ {id, child} : cs'[c] = cs[c]
  BY <1>1, <1>2, <1>3, ContainerSplitEffect DEF ChildInArray
<1>5. ~cs[child].used
  BY <1>1, <1>2, NextChildFresh
<1>6. Tree(cs')
  BY <1>1, <1>2, <1>3, SplitKeepsTree
<1> HIDE DEF cs, child
<1>7. TypeOK'
  <2>1. freed' \in BOOLEAN
    BY DEF Inv, TypeOK, Split
  <2> QED
    BY <2>1, <1>1, <1>2, <1>3, <1>4 DEF TypeOK, PhysMemState, cs
<1>8. UnusedHoldsNothing'
  BY <1>2, <1>4 DEF Inv, UnusedHoldsNothing, cs
<1>9. ASSUME NEW c \in Proc
      PROVE  /\ Cardinality(held'[c]) <= cs'[c].usage
             /\ cs'[c].usage <= cs'[c].quota
  <2>1. /\ Cardinality(held[c]) <= cs[c].usage /\ cs[c].usage <= cs[c].quota
        /\ cs[c].usage \in Nat /\ cs[c].quota \in Nat
    BY <1>1 DEF Inv, QuotaRespected, Container, cs
  <2>2. held'[c] = held[c] /\ Cardinality(held[c]) \in Nat
    BY <1>1, <1>2, PageFacts, FS_CardinalityType
  <2>3. CASE c = child
    <3>1. held[c] = {}
      BY <2>3, <1>5 DEF Inv, UnusedHoldsNothing, cs
    <3> QED
      BY <3>1, <2>2, <2>3, <1>2, <1>4, FS_EmptySet
  <2>4. CASE c = id
    BY <2>1, <2>2, <2>4, <1>2, <1>4
  <2>5. CASE c \notin {id, child}
    BY <2>1, <2>2, <2>5, <1>4
  <2> QED
    BY <2>3, <2>4, <2>5
<1>10. QuotaRespected'
  BY <1>9 DEF QuotaRespected, cs
<1> QED
  BY <1>6, <1>7, <1>8, <1>10 DEF Inv, cs

\* The inductive invariant holds in every reachable state.
THEOREM InvHolds == Spec => []Inv
<1>1. Inv /\ [Next]_vars => Inv'
  <2> SUFFICES ASSUME Inv, [Next]_vars PROVE Inv'
    OBVIOUS
  <2>1. ASSUME NEW id \in Proc, Alloc(id) PROVE Inv'
    BY <2>1, AllocInv
  <2>2. ASSUME NEW id \in Proc, NEW q \in Quotas, Split(id, q) PROVE Inv'
    BY <2>2, SplitInv
  <2>3. ASSUME NEW id \in Proc, NEW page \in held[id], FreeOwn(id, page)
        PROVE  Inv'
    BY <2>3, FreeOwnInv
  <2>4. CASE UNCHANGED vars
    BY <2>4 DEF vars, Inv, TypeOK, QuotaRespected, UnusedHoldsNothing
  <2> QED
    BY <2>1, <2>2, <2>3, <2>4 DEF Next
<1> QED
  BY <1>1, InitInv, PTL DEF Spec

\* Every reachable state has the types of the data in mem_physical.c.
THEOREM TypeCorrect == Spec => []TypeOK
BY InvHolds, PTL DEF Inv

\* However processes allocate, split and free, none of them is charged more
\* than its quota or holds more than it is charged for (ContainerAlloc's
\* comment), on every machine.
THEOREM QuotaSafe == Spec => []QuotaRespected
BY InvHolds, PTL DEF Inv

\* The index id * MAX_CHILDREN + 1 + numChildren is unused whenever id has
\* fewer than MAX_CHILDREN children, for all values of the two constants.
THEOREM FreshChildSafe == Spec => []FreshChild
<1>1. Inv => FreshChild
  <2> SUFFICES ASSUME Inv, NEW id \in UsedProcs,
                      ChildrenLeft(pm.containers, id),
                      ChildInArray(pm.containers, id)
               PROVE  ~pm.containers[ChildID(pm.containers, id)].used
    BY DEF FreshChild
  <2>1. pm.containers \in [Proc -> Container] /\ id \in Proc
    BY DEF Inv, TypeOK, PhysMemState, UsedProcs
  <2> QED
    BY <2>1, NextChildFresh DEF Inv
<1> QED
  BY <1>1, InvHolds, PTL

SameButUsage(new, old) ==
  /\ new.used = old.used /\ new.parent = old.parent /\ new.quota = old.quota
  /\ new.numChildren = old.numChildren

\* Charging or crediting a page changes nothing else.
LEMMA ChargeKeepsTheRest ==
  ASSUME NEW cs \in [Proc -> Container], NEW id \in Proc, NEW new,
         \/ new = cs
         \/ new = [cs EXCEPT ![id].usage = @ + 1]
         \/ new = [cs EXCEPT ![id].usage = IF @ > 0 THEN @ - 1 ELSE @]
  PROVE  \A c \in Proc : SameButUsage(new[c], cs[c])
<1> SUFFICES ASSUME NEW c \in Proc PROVE SameButUsage(new[c], cs[c])
  OBVIOUS
<1>1. cs[id] \in Container
  OBVIOUS
<1>2. CASE new = cs
  BY <1>2 DEF SameButUsage
<1>3. CASE new = [cs EXCEPT ![id].usage = @ + 1]
  BY <1>1, <1>3 DEF SameButUsage, Container
<1>4. CASE new = [cs EXCEPT ![id].usage = IF @ > 0 THEN @ - 1 ELSE @]
  BY <1>1, <1>4 DEF SameButUsage, Container
<1> QED
  BY <1>2, <1>3, <1>4

\* No step of the interface overwrites a container in use.
THEOREM ContainersKeptSafe == Spec => ContainersKept
<1> DEFINE Kept ==
      \A c \in UsedProcs :
        LET old == pm.containers[c]
            new == pm'.containers[c]
        IN /\ new.used /\ new.parent = old.parent /\ new.quota = old.quota
           /\ new.numChildren >= old.numChildren
<1>1. Inv /\ [Next]_vars => [Kept]_vars
  <2> SUFFICES ASSUME Inv, Next PROVE Kept
    OBVIOUS
  <2>1. /\ pm \in PhysMemState /\ held \in [Proc -> SUBSET Page]
        /\ pm.containers \in [Proc -> Container]
        /\ UsedProcs \subseteq Proc
    BY DEF Inv, TypeOK, PhysMemState, UsedProcs
  <2>2. \A c \in Proc : pm.containers[c].numChildren \in Nat
    BY <2>1 DEF Container
  <2>3. ASSUME NEW id \in Proc, Alloc(id) PROVE Kept
    <3>1. \/ pm' = pm
          \/ pm'.containers = [pm.containers EXCEPT ![id].usage = @ + 1]
      BY <2>1, <2>3, ContainerAllocEffect DEF Alloc
    <3>2. \A c \in Proc : SameButUsage(pm'.containers[c], pm.containers[c])
      BY <3>1, <2>1, ChargeKeepsTheRest
    <3> QED
      BY <3>2, <2>1, <2>2 DEF UsedProcs, SameButUsage
  <2>4. ASSUME NEW id \in Proc, NEW page \in held[id], FreeOwn(id, page)
        PROVE  Kept
    <3>1. \/ pm' = pm
          \/ pm'.containers = [pm.containers EXCEPT
                                 ![id].usage = IF @ > 0 THEN @ - 1 ELSE @]
      <4>1. page \in Page
        BY <2>1
      <4> QED
        BY <4>1, <2>1, <2>4, ContainerFreeEffect DEF FreeOwn
    <3>2. \A c \in Proc : SameButUsage(pm'.containers[c], pm.containers[c])
      BY <3>1, <2>1, ChargeKeepsTheRest
    <3> QED
      BY <3>2, <2>1, <2>2 DEF UsedProcs, SameButUsage
  <2>5. ASSUME NEW id \in Proc, NEW q \in Quotas, Split(id, q) PROVE Kept
    <3>1. /\ pm'.containers = ContainerSplit(pm.containers, id, q)
          /\ ChildID(pm.containers, id) \in Proc
          /\ ~pm.containers[ChildID(pm.containers, id)].used
          /\ q \in Nat
      BY <2>1, <2>5, NextChildFresh, PhysMemAssumption
         DEF Split, Inv, UsedProcs, ChildInArray, PhysMemState
    <3>2. /\ \A c \in Proc \ {id, ChildID(pm.containers, id)} :
               pm'.containers[c] = pm.containers[c]
          /\ pm'.containers[id].quota = pm.containers[id].quota
          /\ pm'.containers[id].parent = pm.containers[id].parent
          /\ pm'.containers[id].numChildren = pm.containers[id].numChildren + 1
          /\ pm'.containers[id].used = pm.containers[id].used
      BY <3>1, <2>1, ContainerSplitEffect
    <3> QED
      BY <3>1, <3>2, <2>1, <2>2 DEF UsedProcs
  <2> QED
    BY <2>3, <2>4, <2>5 DEF Next
<1> QED
  BY <1>1, InvHolds, PTL DEF Spec, ContainersKept
-----------------------------------------------------------------------------
(***************************************************************************)
(* The kernel as it is built never frees.  Then no page is handed out      *)
(* twice: pages held stay allocated, and the path that skips the flag      *)
(* (lastFreedPage) is never taken.                                         *)
(***************************************************************************)
HeldIsAllocated ==
  /\ pm.lastFreedPage = NONE
  /\ \A id \in Proc : held[id] \subseteq pm.allocated

NoFreeInv == TypeOK /\ HeldIsAllocated /\ ExclusiveOwnership

OwnershipInv == freed \/ NoFreeInv

\* Until a page is freed, what is held is marked, and held once.
LEMMA OwnershipInvHolds == Spec => []OwnershipInv
<1>1. Init => OwnershipInv
  <2> SUFFICES ASSUME Init PROVE NoFreeInv
    BY DEF OwnershipInv
  <2>1. TypeOK
    BY InitInv DEF Inv
  <2>2. pm.lastFreedPage = NONE /\ held = [id \in Proc |-> {}]
    BY DEF Init, PhysicalMemoryInit
  <2> QED
    BY <2>1, <2>2 DEF OwnershipInv, NoFreeInv, HeldIsAllocated, ExclusiveOwnership
<1>2. OwnershipInv /\ [Next]_vars => OwnershipInv'
  <2>0. freed /\ [Next]_vars => freed'
    BY DEF Next, Alloc, Split, FreeOwn, vars
  <2> SUFFICES ASSUME NoFreeInv, [Next]_vars PROVE freed' \/ NoFreeInv'
    BY <2>0 DEF OwnershipInv
  <2>1. /\ pm \in PhysMemState /\ held \in [Proc -> SUBSET Page]
        /\ pm.containers \in [Proc -> Container]
    BY DEF NoFreeInv, TypeOK, PhysMemState
  <2>2. ASSUME NEW id \in Proc, Alloc(id) PROVE NoFreeInv'
    <3> DEFINE r == ContainerAlloc(pm, id)
    <3>1. /\ pm' = r.pm /\ pm' \in PhysMemState /\ pm'.perm = pm.perm
          /\ r.page # NoPage => r.page \in Page
          /\ pm'.lastFreedPage = NONE
          /\ pm.allocated \subseteq pm'.allocated
          /\ r.page # NoPage => /\ r.page \in pm'.allocated
                                /\ r.page \notin pm.allocated
                                /\ pm.perm[r.page] = "USER"
          /\ held' = IF r.page = NoPage THEN held
                     ELSE [held EXCEPT ![id] = @ \cup {r.page}]
      BY <2>1, <2>2, ContainerAllocEffect DEF Alloc, NoFreeInv, HeldIsAllocated
    <3> HIDE DEF r
    <3>2. TypeOK'
      <4>1. freed' \in BOOLEAN
        BY <2>2 DEF TypeOK, NoFreeInv, Alloc
      <4>2. held' \in [Proc -> SUBSET Page]
        BY <2>1, <3>1
      <4> QED
        BY <4>1, <4>2, <3>1 DEF TypeOK
    <3>3. HeldIsAllocated'
      BY <2>1, <3>1 DEF NoFreeInv, HeldIsAllocated
    <3>4. \A i \in Proc : held'[i] \subseteq UserPageSet'
      BY <2>1, <3>1 DEF NoFreeInv, ExclusiveOwnership, UserPageSet
    <3>5. ASSUME NEW i \in Proc, NEW j \in Proc, i # j
          PROVE  held'[i] \cap held'[j] = {}
      <4>1. CASE r.page = NoPage
        BY <3>5, <3>1, <4>1 DEF NoFreeInv, ExclusiveOwnership
      <4>2. CASE r.page # NoPage
        BY <3>5, <2>1, <3>1, <4>2
           DEF NoFreeInv, ExclusiveOwnership, HeldIsAllocated
      <4> QED
        BY <4>1, <4>2
    <3> QED
      BY <3>2, <3>3, <3>4, <3>5 DEF NoFreeInv, ExclusiveOwnership
  <2>3. ASSUME NEW id \in Proc, NEW q \in Quotas, Split(id, q)
        PROVE  NoFreeInv'
    <3> DEFINE cs == ContainerSplit(pm.containers, id, q)
    <3>1. /\ pm' = [pm EXCEPT !.containers = cs]
          /\ held' = held
          /\ cs \in [Proc -> Container]
      BY <2>1, <2>3, ContainerSplitEffect, PhysMemAssumption
         DEF Split, ChildInArray
    <3> HIDE DEF cs
    <3>2. /\ pm' \in PhysMemState /\ pm'.perm = pm.perm
          /\ pm'.allocated = pm.allocated
          /\ pm'.lastFreedPage = pm.lastFreedPage
      BY <2>1, <3>1 DEF PhysMemState
    <3>3. freed' \in BOOLEAN
      BY <2>3 DEF TypeOK, NoFreeInv, Split
    <3> QED
      BY <2>1, <3>1, <3>2, <3>3
         DEF NoFreeInv, TypeOK, HeldIsAllocated, ExclusiveOwnership, UserPageSet
  <2>4. CASE UNCHANGED vars
    BY <2>4 DEF vars, NoFreeInv, TypeOK, HeldIsAllocated, ExclusiveOwnership,
                UserPageSet
  <2>5. ASSUME NEW id \in Proc, NEW page \in held[id], FreeOwn(id, page)
        PROVE  freed'
    BY <2>5 DEF FreeOwn
  <2> QED
    BY <2>2, <2>3, <2>4, <2>5 DEF Next
<1> QED
  BY <1>1, <1>2, PTL DEF Spec

\* Two processes never hold the same page as long as nothing is freed.
THEOREM OwnershipSafe == Spec => []OwnershipAsBuilt
<1>1. OwnershipInv => OwnershipAsBuilt
  BY DEF OwnershipInv, NoFreeInv, OwnershipAsBuilt
<1> QED
  BY <1>1, OwnershipInvHolds, PTL
-----------------------------------------------------------------------------
(***************************************************************************)
(* A process below its quota gets a page.  The quotas not yet used and the *)
(* pages held never add up to more than the user pages of the machine, and *)
(* a user page that is marked allocated is held by someone: with one page  *)
(* of quota left, some user page is not marked, and the two scans together *)
(* look at every page of the window.                                       *)
(***************************************************************************)
UserPagesInWindow == UserPageSet \subseteq UserWindow

PageZeroUnused == /\ pm.lastFreedPage # 0
                  /\ \A id \in Proc : 0 \notin held[id]

AllocatedIsHeld ==
  \A p \in pm.allocated \cap UserPageSet : \E id \in Proc : p \in held[id]

\* The pages id holds and the pages it may still ask for or dedicate.
Spare == [id \in Proc |-> pm.containers[id].quota - pm.containers[id].usage
                            + Cardinality(held[id])]

Budget == SumFunctionOnSet(Spare, Proc) <= Cardinality(UserPageSet)

BudgetInv == /\ UserPagesInWindow
             /\ PageZeroUnused
             /\ AllocatedIsHeld
             /\ Budget

\* The scan loops find a page when a user page of the window is free.
LEMMA NextFitFinds ==
  ASSUME NEW s \in PhysMemState,
         \A q \in Page : s.perm[q] = "USER" => q \in UserWindow,
         NEW p \in Page, p \notin s.allocated, s.perm[p] = "USER"
  PROVE  NextFit(s) # NoPage
<1>1. ASSUME NEW from \in Int, NEW to \in Int, from >= 0,
             to < NUM_PHYSICAL_PAGES, p \in from .. to
      PROVE  Scan(s, from, to) # NoPage
  <2>1. FreeUserPages(s, from, to) \in SUBSET Nat
    BY <1>1 DEF FreeUserPages
  <2>2. p \in FreeUserPages(s, from, to)
    BY <1>1 DEF FreeUserPages
  <2>3. Scan(s, from, to) \in FreeUserPages(s, from, to)
    BY <2>1, <2>2, MinMember DEF Scan
  <2>4. Scan(s, from, to) \in Page /\ s.perm[Scan(s, from, to)] = "USER"
    BY <2>3, <1>1, PhysMemAssumption DEF FreeUserPages, Page
  <2> QED
    BY <2>4, PhysMemAssumption DEF UserWindow
<1>2. p \in UserWindow /\ p \in Nat
  BY PhysMemAssumption DEF UserWindow
<1>3. s.lastAllocPage \in Page \cup {NONE}
  BY DEF PhysMemState
<1>4. CASE s.lastAllocPage = NONE
  <2>1. p \in MEM_USERLO_PI .. MEM_USERHI_PI - 1
    BY <1>2 DEF UserWindow
  <2>2. Scan(s, MEM_USERLO_PI, MEM_USERHI_PI - 1) # NoPage
    BY <1>1, <2>1, PhysMemAssumption
  <2> QED
    BY <1>4, <2>2 DEF NextFit
<1>5. CASE s.lastAllocPage # NONE
  <2>1. s.lastAllocPage \in Nat /\ s.lastAllocPage < NUM_PHYSICAL_PAGES
    BY <1>3, <1>5, PhysMemAssumption DEF Page
  <2>2. CASE p > s.lastAllocPage
    <3>1. p \in s.lastAllocPage + 1 .. MEM_USERHI_PI - 1
      BY <1>2, <2>1, <2>2 DEF UserWindow
    <3>2. Scan(s, s.lastAllocPage + 1, MEM_USERHI_PI - 1) # NoPage
      BY <1>1, <2>1, <3>1, PhysMemAssumption
    <3> QED
      BY <1>5, <3>2 DEF NextFit
  <2>3. CASE p <= s.lastAllocPage
    <3>1. p \in MEM_USERLO_PI .. s.lastAllocPage
      BY <1>2, <2>1, <2>3 DEF UserWindow
    <3>2. Scan(s, MEM_USERLO_PI, s.lastAllocPage) # NoPage
      BY <1>1, <2>1, <3>1, PhysMemAssumption
    <3> QED
      BY <1>5, <3>2 DEF NextFit
  <2> QED
    BY <1>2, <2>1, <2>2, <2>3
<1> QED
  BY <1>4, <1>5

\* The facts about numbers that the sums need.
LEMMA SpareFacts ==
  ASSUME Inv
  PROVE  /\ IsFiniteSet(Proc)
         /\ \A id \in Proc : /\ Cardinality(held[id]) \in Nat
                             /\ IsFiniteSet(held[id])
                             /\ pm.containers[id].quota \in Nat
                             /\ pm.containers[id].usage \in Nat
                             /\ pm.containers[id].usage <= pm.containers[id].quota
                             /\ Cardinality(held[id]) <= pm.containers[id].usage
         /\ \A id \in Proc : Spare[id] \in Int /\ Spare[id] >= Cardinality(held[id])
<1>1. IsFiniteSet(Proc)
  BY ContainersAssumption, FS_Interval DEF Proc
<1>2. ASSUME NEW id \in Proc
      PROVE  /\ Cardinality(held[id]) \in Nat
             /\ IsFiniteSet(held[id])
             /\ pm.containers[id].quota \in Nat
             /\ pm.containers[id].usage \in Nat
  <2>1. held[id] \in SUBSET Page /\ pm.containers[id] \in Container
    BY DEF Inv, TypeOK, PhysMemState
  <2>2. IsFiniteSet(held[id])
    BY <2>1, PageFacts
  <2> QED
    BY <2>1, <2>2, FS_CardinalityType DEF Container
<1>3. \A id \in Proc : /\ pm.containers[id].usage <= pm.containers[id].quota
                       /\ Cardinality(held[id]) <= pm.containers[id].usage
  BY DEF Inv, QuotaRespected
<1> QED
  BY <1>1, <1>2, <1>3 DEF Spare

\* With more quota left somewhere than there are pages in N, some user page is
\* held by nobody and not in N.
LEMMA PageLeft ==
  ASSUME Inv, Budget, NEW id \in Proc, NEW N, IsFiniteSet(N),
         Cardinality(N) < pm.containers[id].quota - pm.containers[id].usage
  PROVE  \E p \in UserPageSet \ N : \A i \in Proc : p \notin held[i]
<1> DEFINE f == [i \in Proc |-> Cardinality(held[i])]
           left == pm.containers[id].quota - pm.containers[id].usage
           h == [f EXCEPT ![id] = f[id] + left]
           U == UNION {held[i] : i \in Proc}
<1>0. left \in Nat /\ Cardinality(N) \in Nat
  BY SpareFacts, FS_CardinalityType
<1>1. \A i \in Proc : /\ f[i] = Cardinality(held[i]) /\ f[i] \in Nat
                      /\ IsFiniteSet(held[i])
                      /\ h[i] = IF i = id THEN f[i] + left ELSE f[i]
                      /\ h[i] \in Nat
  <2>1. \A i \in Proc : f[i] = Cardinality(held[i]) /\ f[i] \in Nat
                        /\ IsFiniteSet(held[i])
    BY SpareFacts
  <2> HIDE DEF left
  <2> QED
    BY <2>1, <1>0
<1>2. IsFiniteSet(Proc)
  BY SpareFacts
<1>3. \A i \in Proc : h[i] <= Spare[i] /\ Spare[i] \in Int
  <2>1. \A i \in Proc : f[i] <= Spare[i] /\ Spare[i] \in Int
    BY <1>1, SpareFacts
  <2>2. f[id] + left <= Spare[id]
    BY <1>1, SpareFacts DEF Spare
  <2> HIDE DEF f, h, left
  <2> QED
    BY <1>1, <2>1, <2>2
<1> HIDE DEF f, h, U, left
<1>4. SumFunctionOnSet(h, Proc) - SumFunctionOnSet(f, Proc) = h[id] - f[id]
  BY <1>1, <1>2, SumChange
<1>5. SumFunctionOnSet(h, Proc) <= SumFunctionOnSet(Spare, Proc)
  BY <1>1, <1>2, <1>3, SumLeq
<1>6. /\ IsFiniteSet(U)
      /\ Cardinality(U) <= SumFunctionOnSet(f, Proc)
  BY <1>1, <1>2, UnionAtMostSum DEF U
<1>7. /\ SumFunctionOnSet(h, Proc) \in Int /\ SumFunctionOnSet(f, Proc) \in Int
      /\ SumFunctionOnSet(Spare, Proc) \in Int
  BY <1>1, <1>2, <1>3, SumRemove
<1>8. UserPageSet \in SUBSET Page /\ Cardinality(UserPageSet) \in Nat
  BY PageFacts, FS_CardinalityType DEF UserPageSet
<1>9. /\ IsFiniteSet(U \cup N) /\ Cardinality(U) \in Nat
      /\ Cardinality(U \cup N) \in Nat
      /\ Cardinality(U \cup N) <= Cardinality(U) + Cardinality(N)
  <2>1. IsFiniteSet(U \cup N) /\ IsFiniteSet(U \cap N)
    BY <1>6, FS_Union, FS_Subset
  <2>2. /\ Cardinality(U \cup N)
             = Cardinality(U) + Cardinality(N) - Cardinality(U \cap N)
    BY <1>6, FS_Union
  <2> QED
    BY <2>1, <2>2, <1>0, <1>6, FS_CardinalityType
<1>10. Cardinality(U \cup N) < Cardinality(UserPageSet)
  <2>1. SumFunctionOnSet(h, Proc) = SumFunctionOnSet(f, Proc) + left
    BY <1>0, <1>1, <1>4, <1>7
  <2>2. Cardinality(N) < left
    BY DEF left
  <2> QED
    BY <2>1, <2>2, <1>0, <1>5, <1>6, <1>7, <1>8, <1>9 DEF Budget
<1>11. ~ (UserPageSet \subseteq U \cup N)
  BY <1>8, <1>9, <1>10, FS_Subset
<1> QED
  BY <1>11 DEF U

\* So the allocator finds a page for a process below its quota.
LEMMA AllocFinds ==
  ASSUME Inv, BudgetInv, NEW id \in Proc,
         pm.containers[id].usage < pm.containers[id].quota
  PROVE  ContainerAlloc(pm, id).page # NoPage
<1> DEFINE s == Charged(pm, id)
<1>1. pm \in PhysMemState
  BY DEF Inv, TypeOK
<1>2. /\ s \in PhysMemState /\ s.allocated = pm.allocated /\ s.perm = pm.perm
      /\ s.lastFreedPage = pm.lastFreedPage
  BY <1>1, ChargedEffect
<1>3. ContainerAlloc(pm, id) = PhysicalPageAlloc(s)
  <2>1. pm.containers[id].usage # pm.containers[id].quota
    BY SpareFacts
  <2> QED
    BY <2>1 DEF ContainerAlloc, Charged
<1> HIDE DEF s
<1>4. CASE s.lastFreedPage # NONE
  BY <1>2, <1>3, <1>4 DEF PhysicalPageAlloc, BudgetInv, PageZeroUnused
<1>5. CASE s.lastFreedPage = NONE
  <2>0. IsFiniteSet({}) /\ Cardinality({}) < pm.containers[id].quota - pm.containers[id].usage
    BY SpareFacts, FS_EmptySet
  <2>1. PICK p \in UserPageSet : \A i \in Proc : p \notin held[i]
    BY <2>0, PageLeft DEF BudgetInv
  <2>2. p \in Page /\ p \notin s.allocated /\ s.perm[p] = "USER"
    BY <1>2, <2>1 DEF BudgetInv, AllocatedIsHeld, UserPageSet
  <2>3. \A q \in Page : s.perm[q] = "USER" => q \in UserWindow
    BY <1>2 DEF BudgetInv, UserPagesInWindow, UserPageSet
  <2>4. NextFit(s) # NoPage
    BY <1>2, <2>2, <2>3, NextFitFinds
  <2> QED
    BY <1>3, <1>5, <2>4 DEF PhysicalPageAlloc
<1> QED
  BY <1>4, <1>5

\* What the two operations do to the flags and to the page freed last.
LEMMA AllocMarks ==
  ASSUME NEW s \in PhysMemState, NEW id \in Proc
  PROVE  LET r == ContainerAlloc(s, id)
         IN /\ r.pm.allocated \subseteq s.allocated \cup {r.page}
            /\ r.page = NoPage => r.pm.allocated = s.allocated
            /\ r.pm.lastFreedPage \in {NONE, s.lastFreedPage}
<1>1. CASE s.containers[id].usage = s.containers[id].quota
  BY <1>1 DEF ContainerAlloc
<1>2. CASE s.containers[id].usage # s.containers[id].quota
  <2> DEFINE t == Charged(s, id)
  <2>1. ContainerAlloc(s, id) = PhysicalPageAlloc(t)
    BY <1>2 DEF ContainerAlloc, Charged
  <2>2. /\ t \in PhysMemState /\ t.allocated = s.allocated
        /\ t.lastFreedPage = s.lastFreedPage
    BY ChargedEffect
  <2> HIDE DEF t
  <2>3. CASE t.lastFreedPage # NONE
    <3>1. /\ PhysicalPageAlloc(t).pm.allocated = t.allocated
          /\ PhysicalPageAlloc(t).pm.lastFreedPage = NONE
      BY <2>2, <2>3 DEF PhysicalPageAlloc, PhysMemState
    <3> QED
      BY <2>1, <2>2, <3>1
  <2>4. CASE t.lastFreedPage = NONE
    BY <2>1, <2>2, <2>4 DEF PhysicalPageAlloc, PhysMemState
  <2> QED
    BY <2>3, <2>4
<1> QED
  BY <1>1, <1>2

LEMMA FreeMarks ==
  ASSUME NEW s \in PhysMemState, NEW id \in Proc, NEW page \in Page
  PROVE  LET f == ContainerFree(s, id, page)
         IN /\ f.allocated = s.allocated \ {page}
            /\ f.lastFreedPage \in {s.lastFreedPage, page}
<1>1. CASE page \notin s.allocated
  BY <1>1 DEF ContainerFree
<1>2. CASE page \in s.allocated
  BY <1>2 DEF ContainerFree, PhysicalPageFree, PhysMemState
<1> QED
  BY <1>1, <1>2

\* The terms of the budget are integers in this state and the next.
LEMMA SpareTyped == Inv => \A id \in Proc : Spare[id] \in Int
BY SpareFacts

LEMMA SpareTypedNext == Inv' => (\A id \in Proc : Spare[id] \in Int)'
BY SpareTyped, PTL

\* A step that takes from no process's rest more than it uses keeps the budget.
LEMMA BudgetKept ==
  ASSUME Inv, Inv', Budget, pm'.perm = pm.perm,
         \A id \in Proc : Spare'[id] <= Spare[id]
  PROVE  Budget'
<1>1. IsFiniteSet(Proc) /\ \A id \in Proc : Spare[id] \in Int
  BY SpareFacts
<1>2. \A id \in Proc : Spare'[id] \in Int
  BY SpareTypedNext
<1>3. SumFunctionOnSet(Spare', Proc) <= SumFunctionOnSet(Spare, Proc)
  BY <1>1, <1>2, SumLeq
<1>4. /\ SumFunctionOnSet(Spare', Proc) \in Int
      /\ SumFunctionOnSet(Spare, Proc) \in Int
  BY <1>1, <1>2, SumRemove
<1>5. UserPageSet' = UserPageSet
  BY DEF UserPageSet
<1>6. Cardinality(UserPageSet) \in Nat
  <2>1. UserPageSet \in SUBSET Page
    BY DEF UserPageSet
  <2> QED
    BY <2>1, PageFacts, FS_CardinalityType
<1> QED
  BY <1>3, <1>4, <1>5, <1>6 DEF Budget

\* ContainerInit gives the root every user page, and marks none of them.
LEMMA InitBudget == Init => BudgetInv
<1> SUFFICES ASSUME Init PROVE BudgetInv
  OBVIOUS
<1>1. PICK ram \in RamSets : pm = PhysicalMemoryInit(ram)
  BY DEF Init
<1>2. ram \in SUBSET Page
  BY PhysMemAssumption
<1>3. Inv
  BY InitInv
<1>4. held = [id \in Proc |-> {}]
  BY DEF Init
<1>5. UserPageSet = UserPages(ram)
  BY <1>1, <1>2 DEF UserPageSet, PhysicalMemoryInit, UserPages
<1>6. UserPagesInWindow
  BY <1>5 DEF UserPagesInWindow, UserPages
<1>7. PageZeroUnused
  BY <1>1, <1>4 DEF PageZeroUnused, PhysicalMemoryInit
<1>8. AllocatedIsHeld
  BY <1>1, <1>5 DEF AllocatedIsHeld, PhysicalMemoryInit, UserPages
<1>9. Budget
  <2> DEFINE n == Cardinality(UserPages(ram))
  <2>1. n \in Nat
    BY <1>2, PageFacts, FS_CardinalityType DEF UserPages
  <2>2. \A id \in Proc : /\ pm.containers[id].quota = IF id = 0 THEN n ELSE 0
                         /\ pm.containers[id].usage = 0
    BY <1>1 DEF PhysicalMemoryInit, ContainerInit, NoContainer
  <2>3. Cardinality({}) = 0
    BY FS_EmptySet
  <2> HIDE DEF n
  <2>4. \A id \in Proc : Spare[id] = IF id = 0 THEN n ELSE 0
    <3>1. \A id \in Proc : Cardinality(held[id]) = 0
      BY <1>4, <2>3
    <3> QED
      BY <3>1, <2>1, <2>2 DEF Spare
  <2>5. IsFiniteSet(Proc) /\ 0 \in Proc /\ IsFiniteSet(Proc \ {0})
    BY SpareFacts, <1>3, ProcFacts, FS_Subset
  <2>6. SumFunctionOnSet(Spare, Proc) = Spare[0] + SumFunctionOnSet(Spare, Proc \ {0})
    BY <2>1, <2>4, <2>5, SumRemove
  <2>7. SumFunctionOnSet(Spare, Proc \ {0}) = 0
    <3>1. \A id \in Proc \ {0} : Spare[id] = 0
      BY <2>4
    <3> QED
      BY <3>1, <2>5, SumZeros
  <2>8. Spare[0] = n
    BY <2>4, <2>5
  <2> QED
    BY <2>1, <2>6, <2>7, <2>8, <1>5 DEF Budget, n
<1> QED
  BY <1>6, <1>7, <1>8, <1>9 DEF BudgetInv

LEMMA AllocBudget ==
  ASSUME Inv, Inv', BudgetInv, NEW id \in Proc, Alloc(id)
  PROVE  BudgetInv'
<1> DEFINE r == ContainerAlloc(pm, id)
<1>1. pm \in PhysMemState /\ held \in [Proc -> SUBSET Page]
  BY DEF Inv, TypeOK
<1>2. /\ pm' = r.pm
      /\ held' = IF r.page = NoPage THEN held
                 ELSE [held EXCEPT ![id] = @ \cup {r.page}]
  BY DEF Alloc
<1>3. /\ r.pm.perm = pm.perm
      /\ r.page # NoPage => r.page \in Page
      /\ \/ r.page = NoPage /\ r.pm = pm
         \/ r.pm.containers = [pm.containers EXCEPT ![id].usage = @ + 1]
  BY <1>1, ContainerAllocEffect
<1>4. /\ r.pm.allocated \subseteq pm.allocated \cup {r.page}
      /\ r.page = NoPage => r.pm.allocated = pm.allocated
      /\ r.pm.lastFreedPage \in {NONE, pm.lastFreedPage}
  BY <1>1, AllocMarks
<1> HIDE DEF r
<1>5. UserPageSet' = UserPageSet
  BY <1>2, <1>3 DEF UserPageSet
<1>6. UserPagesInWindow'
  BY <1>5 DEF BudgetInv, UserPagesInWindow
<1>7. PageZeroUnused'
  BY <1>1, <1>2, <1>4 DEF BudgetInv, PageZeroUnused
<1>8. AllocatedIsHeld'
  <2>1. \A i \in Proc : held[i] \subseteq held'[i]
    BY <1>1, <1>2
  <2>2. r.page # NoPage => r.page \in held'[id]
    BY <1>1, <1>2
  <2>3. ASSUME NEW p \in pm'.allocated \cap UserPageSet'
        PROVE  \E i \in Proc : p \in held'[i]
    <3>1. CASE p \in pm.allocated
      BY <3>1, <1>5, <2>1 DEF BudgetInv, AllocatedIsHeld
    <3>2. CASE p \notin pm.allocated
      <4>1. p = r.page /\ r.page # NoPage
        BY <3>2, <1>2, <1>4
      <4> QED
        BY <4>1, <2>2
    <3> QED
      BY <3>1, <3>2
  <2> QED
    BY <2>3 DEF AllocatedIsHeld
<1>9. ASSUME NEW c \in Proc PROVE Spare'[c] <= Spare[c]
  <2> DEFINE old == pm.containers[c]
             new == pm'.containers[c]
  <2>1. /\ old.quota \in Nat /\ old.usage \in Nat
        /\ Cardinality(held[c]) \in Nat
        /\ Spare[c] = old.quota - old.usage + Cardinality(held[c])
    BY SpareFacts DEF Spare
  <2>2. Spare'[c] = new.quota - new.usage + Cardinality(held'[c])
    BY DEF Spare
  <2>3. CASE r.page = NoPage /\ r.pm = pm
    BY <2>1, <2>2, <2>3, <1>2
  <2>4. CASE c # id
    <3>1. held'[c] = held[c] /\ new = old
      BY <2>4, <1>1, <1>2, <1>3 DEF PhysMemState
    <3> QED
      BY <3>1, <2>1, <2>2
  <2>5. CASE c = id /\ r.pm.containers = [pm.containers EXCEPT ![id].usage = @ + 1]
    <3>1. new.quota = old.quota /\ new.usage = old.usage + 1
      BY <2>5, <1>1, <1>2 DEF PhysMemState, Container
    <3>2. /\ Cardinality(held'[c]) \in Nat
          /\ Cardinality(held'[c]) <= Cardinality(held[c]) + 1
      <4>1. CASE r.page = NoPage
        BY <4>1, <1>2, <2>1
      <4>2. CASE r.page # NoPage
        <5>1. held'[c] = held[c] \cup {r.page} /\ held[c] \in SUBSET Page
              /\ r.page \in Page
          BY <4>2, <2>5, <1>1, <1>2, <1>3
        <5> QED
          BY <5>1, AddPage
      <4> QED
        BY <4>1, <4>2
    <3> HIDE DEF old, new
    <3> QED
      BY <3>1, <3>2, <2>1, <2>2
  <2> QED
    BY <2>3, <2>4, <2>5, <1>3
<1>10. Budget'
  <2>1. pm'.perm = pm.perm
    BY <1>2, <1>3
  <2> QED
    BY <2>1, <1>9, BudgetKept DEF BudgetInv
<1> QED
  BY <1>6, <1>7, <1>8, <1>10 DEF BudgetInv

LEMMA FreeOwnBudget ==
  ASSUME Inv, Inv', BudgetInv, NEW id \in Proc, NEW page \in held[id],
         FreeOwn(id, page)
  PROVE  BudgetInv'
<1> DEFINE f == ContainerFree(pm, id, page)
<1>1. /\ pm \in PhysMemState /\ held \in [Proc -> SUBSET Page]
      /\ page \in Page
  BY DEF Inv, TypeOK
<1>2. pm' = f /\ held' = [held EXCEPT ![id] = @ \ {page}]
  BY DEF FreeOwn
<1>3. /\ f.perm = pm.perm
      /\ \/ f = pm
         \/ f.containers =
              [pm.containers EXCEPT ![id].usage = IF @ > 0 THEN @ - 1 ELSE @]
  BY <1>1, ContainerFreeEffect
<1>4. /\ f.allocated = pm.allocated \ {page}
      /\ f.lastFreedPage \in {pm.lastFreedPage, page}
  BY <1>1, FreeMarks
<1> HIDE DEF f
<1>5. UserPageSet' = UserPageSet
  BY <1>2, <1>3 DEF UserPageSet
<1>6. UserPagesInWindow'
  BY <1>5 DEF BudgetInv, UserPagesInWindow
<1>7. PageZeroUnused'
  <2>1. page # 0
    BY DEF BudgetInv, PageZeroUnused
  <2> QED
    BY <2>1, <1>1, <1>2, <1>4 DEF BudgetInv, PageZeroUnused
<1>8. AllocatedIsHeld'
  <2>1. ASSUME NEW p \in pm'.allocated \cap UserPageSet'
        PROVE  \E i \in Proc : p \in held'[i]
    <3>1. p \in pm.allocated \cap UserPageSet /\ p # page
      BY <1>2, <1>4, <1>5
    <3>2. PICK i \in Proc : p \in held[i]
      BY <3>1 DEF BudgetInv, AllocatedIsHeld
    <3>3. p \in held'[i]
      BY <3>1, <3>2, <1>1, <1>2
    <3> QED
      BY <3>3
  <2> QED
    BY <2>1 DEF AllocatedIsHeld
<1>9. ASSUME NEW c \in Proc PROVE Spare'[c] <= Spare[c]
  <2> DEFINE old == pm.containers[c]
             new == pm'.containers[c]
  <2>1. /\ old.quota \in Nat /\ old.usage \in Nat
        /\ Cardinality(held[c]) \in Nat
        /\ Spare[c] = old.quota - old.usage + Cardinality(held[c])
    BY SpareFacts DEF Spare
  <2>2. Spare'[c] = new.quota - new.usage + Cardinality(held'[c])
    BY DEF Spare
  <2>3. /\ new.quota = old.quota
        /\ new.usage = old.usage \/ (c = id /\ new.usage = old.usage - 1)
    BY <1>1, <1>2, <1>3 DEF PhysMemState, Container
  <2>4. CASE c # id
    <3>1. held'[c] = held[c]
      BY <2>4, <1>1, <1>2
    <3> HIDE DEF old, new
    <3> QED
      BY <3>1, <2>1, <2>2, <2>3, <2>4
  <2>5. CASE c = id
    <3>1. held'[c] = held[c] \ {page} /\ held[c] \in SUBSET Page
          /\ page \in held[c]
      BY <2>5, <1>1, <1>2
    <3>2. Cardinality(held'[c]) = Cardinality(held[c]) - 1
      BY <3>1, RemovePage
    <3> HIDE DEF old, new
    <3> QED
      BY <3>2, <2>1, <2>2, <2>3
  <2> QED
    BY <2>4, <2>5
<1>10. Budget'
  <2>1. pm'.perm = pm.perm
    BY <1>2, <1>3
  <2> QED
    BY <2>1, <1>9, BudgetKept DEF BudgetInv
<1> QED
  BY <1>6, <1>7, <1>8, <1>10 DEF BudgetInv

\* The quota given to the child is what the parent is charged for it.
LEMMA SplitBudget ==
  ASSUME Inv, Inv', BudgetInv, NEW id \in Proc, NEW quota \in Quotas,
         Split(id, quota)
  PROVE  BudgetInv'
<1> DEFINE cs == pm.containers
           child == ChildID(cs, id)
<1>1. /\ pm \in PhysMemState /\ cs \in [Proc -> Container]
      /\ quota \in Nat
  BY PhysMemAssumption DEF Inv, TypeOK, PhysMemState
<1>2. /\ pm' = [pm EXCEPT !.containers = ContainerSplit(cs, id, quota)]
      /\ held' = held /\ child \in Proc
  BY DEF Split, ChildInArray
<1>3. /\ cs' = ContainerSplit(cs, id, quota)
      /\ pm'.perm = pm.perm /\ pm'.allocated = pm.allocated
      /\ pm'.lastFreedPage = pm.lastFreedPage
  BY <1>1, <1>2 DEF PhysMemState
<1>4. /\ child # id
      /\ cs'[child].quota = quota /\ cs'[child].usage = 0
      /\ cs'[id].quota = cs[id].quota /\ cs'[id].usage = cs[id].usage + quota
      /\ \A c \in Proc \ {id, child} : cs'[c] = cs[c]
  BY <1>1, <1>2, <1>3, ContainerSplitEffect
<1> HIDE DEF child
<1>5. UserPageSet' = UserPageSet
  BY <1>3 DEF UserPageSet
<1>6. Budget'
  <2> DEFINE mid == [c \in Proc |-> IF c = id THEN Spare'[id] ELSE Spare[c]]
  <2>1. IsFiniteSet(Proc) /\ \A c \in Proc : Spare[c] \in Int
    BY SpareFacts
  <2>2. \A c \in Proc : Spare'[c] \in Int
    BY SpareTypedNext
  <2>3. \A c \in Proc : mid[c] = IF c = id THEN Spare'[id] ELSE Spare[c]
    OBVIOUS
  <2> HIDE DEF mid
  <2>4. \A c \in Proc : mid[c] \in Int
    BY <2>1, <2>2, <2>3
  <2>5. Spare'[id] = Spare[id] - quota
    <3>1. /\ Spare[id] = cs[id].quota - cs[id].usage + Cardinality(held[id])
          /\ Spare'[id] = cs'[id].quota - cs'[id].usage + Cardinality(held[id])
      BY <1>2 DEF Spare
    <3>2. /\ cs[id].quota \in Nat /\ cs[id].usage \in Nat
          /\ Cardinality(held[id]) \in Nat
      BY SpareFacts
    <3> HIDE DEF cs
    <3> QED
      BY <3>1, <3>2, <1>1, <1>4
  <2>6. Spare'[child] <= Spare[child] + quota
    <3>1. Spare'[child] = cs'[child].quota - cs'[child].usage
                            + Cardinality(held[child])
      BY <1>2 DEF Spare
    <3>2. Spare[child] >= Cardinality(held[child])
          /\ Cardinality(held[child]) \in Nat
      BY <1>2, SpareFacts
    <3> HIDE DEF cs
    <3> QED
      BY <3>1, <3>2, <2>1, <1>1, <1>2, <1>4
  <2>7. \A c \in Proc \ {id, child} : Spare'[c] = Spare[c]
    BY <1>2, <1>4 DEF Spare
  <2>8. SumFunctionOnSet(mid, Proc) - SumFunctionOnSet(Spare, Proc)
          = mid[id] - Spare[id]
    <3>1. \A c \in Proc \ {id} : mid[c] = Spare[c]
      BY <2>3
    <3> QED
      BY <3>1, <2>1, <2>4, SumChange
  <2>9. SumFunctionOnSet(Spare', Proc) - SumFunctionOnSet(mid, Proc)
          = Spare'[child] - mid[child]
    <3>1. \A c \in Proc \ {child} : Spare'[c] = mid[c]
      BY <2>3, <2>7
    <3> QED
      BY <3>1, <1>2, <2>1, <2>2, <2>4, SumChange
  <2>10. mid[id] = Spare'[id] /\ mid[child] = Spare[child]
    BY <1>2, <1>4, <2>3
  <2>11. /\ SumFunctionOnSet(Spare, Proc) \in Int
         /\ SumFunctionOnSet(Spare', Proc) \in Int
         /\ SumFunctionOnSet(mid, Proc) \in Int
    BY <2>1, <2>2, <2>4, SumRemove
  <2>12. SumFunctionOnSet(Spare', Proc) <= SumFunctionOnSet(Spare, Proc)
    BY <1>1, <1>2, <2>1, <2>2, <2>5, <2>6, <2>8, <2>9, <2>10, <2>11
  <2>13. Cardinality(UserPageSet) \in Nat
    <3>1. UserPageSet \in SUBSET Page
      BY DEF UserPageSet
    <3> QED
      BY <3>1, PageFacts, FS_CardinalityType
  <2> QED
    BY <2>11, <2>12, <2>13, <1>5 DEF BudgetInv, Budget
<1>7. UserPagesInWindow'
  BY <1>5 DEF BudgetInv, UserPagesInWindow
<1>8. PageZeroUnused'
  BY <1>2, <1>3 DEF BudgetInv, PageZeroUnused
<1>9. AllocatedIsHeld'
  BY <1>2, <1>3, <1>5 DEF BudgetInv, AllocatedIsHeld
<1> QED
  BY <1>6, <1>7, <1>8, <1>9 DEF BudgetInv

\* The quotas never promise more pages than there are.
LEMMA BudgetHolds == Spec => []BudgetInv
<1>1. Inv /\ Inv' /\ BudgetInv /\ [Next]_vars => BudgetInv'
  <2> SUFFICES ASSUME Inv, Inv', BudgetInv, [Next]_vars PROVE BudgetInv'
    OBVIOUS
  <2>1. ASSUME NEW id \in Proc, Alloc(id) PROVE BudgetInv'
    BY <2>1, AllocBudget
  <2>2. ASSUME NEW id \in Proc, NEW q \in Quotas, Split(id, q)
        PROVE  BudgetInv'
    BY <2>2, SplitBudget
  <2>3. ASSUME NEW id \in Proc, NEW page \in held[id], FreeOwn(id, page)
        PROVE  BudgetInv'
    BY <2>3, FreeOwnBudget
  <2>4. CASE UNCHANGED vars
    BY <2>4 DEF vars, BudgetInv, UserPagesInWindow, PageZeroUnused,
                AllocatedIsHeld, Budget, Spare, UserPageSet
  <2> QED
    BY <2>1, <2>2, <2>3, <2>4 DEF Next
<1> QED
  BY <1>1, InitBudget, InvHolds, PTL DEF Spec

\* ContainerSplit "dedicates quota pages of memory": whatever the processes
\* allocated, split and freed before, and wherever the last page was found, a
\* process below its quota gets a page from ContainerAlloc.
THEOREM AllocSucceeds == Spec => []AllocSucceedsWithinQuota
<1>1. Inv /\ BudgetInv => AllocSucceedsWithinQuota
  BY AllocFinds DEF AllocSucceedsWithinQuota, UsedProcs
<1> QED
  BY <1>1, InvHolds, BudgetHolds, PTL
-----------------------------------------------------------------------------
(***************************************************************************)
(* Quotas are given away once.  What a process holds and what it gave its  *)
(* children is covered by its usage, and is exactly its usage as long as   *)
(* nothing is freed, because an allocation that is charged succeeds.       *)
(***************************************************************************)
QuotaOf == [k \in Proc |-> pm.containers[k].quota]

GivenOf(id) == Cardinality(held[id]) + SumFunctionOnSet(QuotaOf, Children(id))

GivenCovered ==
  \A id \in UsedProcs : /\ GivenOf(id) <= pm.containers[id].usage
                        /\ freed \/ pm.containers[id].usage = GivenOf(id)

ParentsUsed == \A c \in UsedProcs : pm.containers[c].parent \in UsedProcs

GivenInv == ParentsUsed /\ GivenCovered

LEMMA ChildrenFacts ==
  ASSUME Inv
  PROVE  \A id \in Proc : /\ Children(id) \in SUBSET Proc
                          /\ IsFiniteSet(Children(id))
                          /\ \A k \in Children(id) : QuotaOf[k] \in Int
                          /\ SumFunctionOnSet(QuotaOf, Children(id)) \in Int
<1>1. \A k \in Proc : QuotaOf[k] \in Int
  BY SpareFacts DEF QuotaOf
<1> SUFFICES ASSUME NEW id \in Proc
             PROVE  /\ Children(id) \in SUBSET Proc
                    /\ IsFiniteSet(Children(id))
                    /\ \A k \in Children(id) : QuotaOf[k] \in Int
                    /\ SumFunctionOnSet(QuotaOf, Children(id)) \in Int
  OBVIOUS
<1>2. Children(id) \in SUBSET Proc
  BY DEF Children, UsedProcs
<1>3. IsFiniteSet(Children(id))
  BY <1>2, SpareFacts, FS_Subset
<1> QED
  BY <1>1, <1>2, <1>3, SumRemove

\* Charging and crediting leave the tree and its quotas alone, so the sum over
\* the children stays.
LEMMA GivenToChildrenKept ==
  ASSUME Inv, \A c \in Proc : SameButUsage(pm'.containers[c], pm.containers[c])
  PROVE  /\ UsedProcs' = UsedProcs
         /\ ParentsUsed => ParentsUsed'
         /\ \A id \in Proc : SumFunctionOnSet(QuotaOf', Children(id)')
                               = SumFunctionOnSet(QuotaOf, Children(id))
<1>1. UsedProcs' = UsedProcs
  BY DEF UsedProcs, SameButUsage
<1>2. ParentsUsed => ParentsUsed'
  BY <1>1 DEF ParentsUsed, SameButUsage, UsedProcs
<1>3. QuotaOf' = QuotaOf
  BY DEF QuotaOf, SameButUsage
<1>4. \A id \in Proc : Children(id)' = Children(id)
  BY <1>1 DEF Children, SameButUsage, UsedProcs
<1> QED
  BY <1>1, <1>2, <1>3, <1>4

LEMMA InitGiven == Init => GivenInv
<1> SUFFICES ASSUME Init PROVE GivenInv
  OBVIOUS
<1>1. PICK ram \in RamSets : pm = PhysicalMemoryInit(ram)
  BY DEF Init
<1>2. held = [id \in Proc |-> {}]
  BY DEF Init
<1>3. \A c \in Proc : /\ pm.containers[c].used <=> c = 0
                      /\ pm.containers[c].parent = 0
                      /\ pm.containers[c].usage = 0
  BY <1>1 DEF PhysicalMemoryInit, ContainerInit, NoContainer
<1>4. UsedProcs = {0}
  BY <1>3, ProcFacts DEF UsedProcs
<1>5. ParentsUsed
  BY <1>3, <1>4, ProcFacts DEF ParentsUsed
<1>6. Children(0) = {}
  BY <1>4 DEF Children
<1>7. GivenOf(0) = 0
  <2>1. Cardinality(held[0]) = 0
    BY <1>2, ProcFacts, FS_EmptySet
  <2>2. SumFunctionOnSet(QuotaOf, {}) = 0
    BY SumEmpty
  <2> QED
    BY <2>1, <2>2, <1>6 DEF GivenOf
<1>8. GivenCovered
  BY <1>3, <1>4, <1>7, ProcFacts DEF GivenCovered
<1> QED
  BY <1>5, <1>8 DEF GivenInv

LEMMA AllocGiven ==
  ASSUME Inv, BudgetInv, OwnershipInv, GivenInv, NEW id \in Proc, Alloc(id)
  PROVE  GivenInv'
<1> DEFINE r == ContainerAlloc(pm, id)
           S(c) == SumFunctionOnSet(QuotaOf, Children(c))
<1>1. /\ pm \in PhysMemState /\ held \in [Proc -> SUBSET Page]
      /\ pm.containers \in [Proc -> Container]
  BY DEF Inv, TypeOK, PhysMemState
<1>2. /\ pm' = r.pm /\ freed' = freed
      /\ held' = IF r.page = NoPage THEN held
                 ELSE [held EXCEPT ![id] = @ \cup {r.page}]
  BY DEF Alloc
<1>3. /\ r.page # NoPage => r.page \in Page
      /\ \/ r.page = NoPage /\ r.pm = pm
         \/ /\ pm.containers[id].usage # pm.containers[id].quota
            /\ r.pm.containers = [pm.containers EXCEPT ![id].usage = @ + 1]
      /\ pm.lastFreedPage = NONE /\ r.page # NoPage => r.page \notin pm.allocated
  BY <1>1, ContainerAllocEffect
<1>4. pm.containers[id].usage # pm.containers[id].quota => r.page # NoPage
  BY SpareFacts, AllocFinds
<1>5. ~freed /\ r.page # NoPage => r.page \notin held[id]
  BY <1>3 DEF OwnershipInv, NoFreeInv, HeldIsAllocated
<1> HIDE DEF r
<1>6. \A c \in Proc : SameButUsage(pm'.containers[c], pm.containers[c])
  <2>1. \/ pm'.containers = pm.containers
        \/ pm'.containers = [pm.containers EXCEPT ![id].usage = @ + 1]
    BY <1>2, <1>3
  <2> QED
    BY <2>1, <1>1, ChargeKeepsTheRest
<1>7. /\ UsedProcs' = UsedProcs /\ ParentsUsed'
      /\ \A c \in Proc : GivenOf(c)' = Cardinality(held'[c]) + S(c)
  BY <1>6, GivenToChildrenKept DEF GivenInv, GivenOf
<1>8. ASSUME NEW c \in UsedProcs
      PROVE  /\ GivenOf(c)' <= pm'.containers[c].usage
             /\ freed' \/ pm'.containers[c].usage = GivenOf(c)'
  <2>1. /\ c \in Proc /\ S(c) \in Int /\ Cardinality(held[c]) \in Nat
        /\ pm.containers[c].usage \in Nat /\ held[c] \in SUBSET Page
    BY <1>1, SpareFacts, ChildrenFacts DEF UsedProcs
  <2>2. /\ GivenOf(c) = Cardinality(held[c]) + S(c)
        /\ GivenOf(c) <= pm.containers[c].usage
        /\ freed \/ pm.containers[c].usage = GivenOf(c)
    BY DEF GivenInv, GivenCovered, GivenOf
  <2>3. GivenOf(c)' = Cardinality(held'[c]) + S(c)
    BY <1>7, <2>1
  <2> HIDE DEF S
  <2>4. CASE r.page = NoPage /\ r.pm = pm
    BY <2>2, <2>3, <2>4, <1>2
  <2>5. CASE c # id
    <3>1. held'[c] = held[c] /\ pm'.containers[c] = pm.containers[c]
      BY <2>1, <2>5, <1>1, <1>2, <1>3
    <3> QED
      BY <3>1, <2>2, <2>3, <1>2
  <2>6. CASE /\ c = id /\ pm.containers[id].usage # pm.containers[id].quota
             /\ r.pm.containers = [pm.containers EXCEPT ![id].usage = @ + 1]
    <3>1. pm'.containers[c].usage = pm.containers[c].usage + 1
      BY <2>6, <1>1, <1>2 DEF Container
    <3>2. /\ r.page \in Page /\ held'[c] = held[c] \cup {r.page}
          /\ freed \/ r.page \notin held[c]
      BY <2>6, <1>1, <1>2, <1>3, <1>4, <1>5
    <3>3. /\ Cardinality(held'[c]) \in Nat
          /\ Cardinality(held'[c]) <= Cardinality(held[c]) + 1
      BY <3>2, <2>1, AddPage
    <3>4. freed \/ Cardinality(held'[c]) = Cardinality(held[c]) + 1
      <4>1. IsFiniteSet(held[c])
        BY <2>1, PageFacts
      <4> QED
        BY <4>1, <3>2, FS_AddElement
    <3> QED
      BY <3>1, <3>3, <3>4, <2>1, <2>2, <2>3, <1>2
  <2> QED
    BY <2>4, <2>5, <2>6, <1>3
<1> QED
  BY <1>7, <1>8 DEF GivenInv, GivenCovered

LEMMA FreeOwnGiven ==
  ASSUME Inv, GivenInv, NEW id \in Proc, NEW page \in held[id],
         FreeOwn(id, page)
  PROVE  GivenInv'
<1> DEFINE f == ContainerFree(pm, id, page)
           S(c) == SumFunctionOnSet(QuotaOf, Children(c))
<1>1. /\ pm \in PhysMemState /\ held \in [Proc -> SUBSET Page]
      /\ pm.containers \in [Proc -> Container] /\ page \in Page
  BY DEF Inv, TypeOK, PhysMemState
<1>2. pm' = f /\ held' = [held EXCEPT ![id] = @ \ {page}] /\ freed'
  BY DEF FreeOwn
<1>3. \/ f = pm
      \/ f.containers =
           [pm.containers EXCEPT ![id].usage = IF @ > 0 THEN @ - 1 ELSE @]
  BY <1>1, ContainerFreeEffect
<1> HIDE DEF f
<1>4. \A c \in Proc : SameButUsage(pm'.containers[c], pm.containers[c])
  BY <1>1, <1>2, <1>3, ChargeKeepsTheRest
<1>5. /\ UsedProcs' = UsedProcs /\ ParentsUsed'
      /\ \A c \in Proc : GivenOf(c)' = Cardinality(held'[c]) + S(c)
  BY <1>4, GivenToChildrenKept DEF GivenInv, GivenOf
<1>6. ASSUME NEW c \in UsedProcs
      PROVE  GivenOf(c)' <= pm'.containers[c].usage
  <2>1. /\ c \in Proc /\ S(c) \in Int /\ Cardinality(held[c]) \in Nat
        /\ pm.containers[c].usage \in Nat /\ held[c] \in SUBSET Page
    BY <1>1, SpareFacts, ChildrenFacts DEF UsedProcs
  <2>2. /\ GivenOf(c) = Cardinality(held[c]) + S(c)
        /\ GivenOf(c) <= pm.containers[c].usage
    BY DEF GivenInv, GivenCovered, GivenOf
  <2>3. GivenOf(c)' = Cardinality(held'[c]) + S(c)
    BY <1>5, <2>1
  <2> HIDE DEF S
  <2>4. /\ c # id => pm'.containers[c].usage = pm.containers[c].usage
        /\ \/ pm'.containers[c].usage = pm.containers[c].usage
           \/ pm'.containers[c].usage = pm.containers[c].usage - 1
    BY <2>1, <1>1, <1>2, <1>3 DEF Container
  <2>5. CASE c # id
    BY <2>2, <2>3, <2>4, <2>5, <1>1, <1>2
  <2>6. CASE c = id
    <3>1. held'[c] = held[c] \ {page} /\ page \in held[c]
      BY <2>6, <1>1, <1>2
    <3>2. Cardinality(held'[c]) = Cardinality(held[c]) - 1
      BY <3>1, <2>1, RemovePage
    <3> QED
      BY <3>2, <2>1, <2>2, <2>3, <2>4
  <2> QED
    BY <2>5, <2>6
<1> QED
  BY <1>2, <1>5, <1>6 DEF GivenInv, GivenCovered

LEMMA SplitGiven ==
  ASSUME Inv, Inv', GivenInv, NEW id \in Proc, NEW quota \in Quotas,
         Split(id, quota)
  PROVE  GivenInv'
<1> DEFINE cs == pm.containers
           child == ChildID(cs, id)
<1>1. /\ pm \in PhysMemState /\ cs \in [Proc -> Container]
      /\ quota \in Nat
  BY PhysMemAssumption DEF Inv, TypeOK, PhysMemState
<1>2. /\ pm' = [pm EXCEPT !.containers = ContainerSplit(cs, id, quota)]
      /\ held' = held /\ freed' = freed /\ child \in Proc
      /\ cs[id].used /\ ChildrenLeft(cs, id) /\ ChildInArray(cs, id)
  BY DEF Split, ChildInArray, UsedProcs
<1>3. cs' = ContainerSplit(cs, id, quota)
  BY <1>1, <1>2 DEF PhysMemState
<1>4. ~cs[child].used
  BY <1>1, <1>2, NextChildFresh DEF Inv
<1>5. /\ child # id
      /\ cs'[child].quota = quota /\ cs'[child].usage = 0 /\ cs'[child].used
      /\ cs'[child].parent = id
      /\ cs'[id].quota = cs[id].quota /\ cs'[id].usage = cs[id].usage + quota
      /\ cs'[id].parent = cs[id].parent /\ cs'[id].used = cs[id].used
      /\ \A c \in Proc \ {id, child} : cs'[c] = cs[c]
  <2> DEFINE new == ContainerSplit(cs, id, quota)
  <2>0. child \in Proc
    BY <1>2
  <2>1. /\ child # id
        /\ /\ new[child].quota = quota /\ new[child].usage = 0
           /\ new[child].parent = id /\ new[child].numChildren = 0
           /\ new[child].used
        /\ /\ new[id].quota = cs[id].quota
           /\ new[id].usage = cs[id].usage + quota
           /\ new[id].parent = cs[id].parent
           /\ new[id].numChildren = cs[id].numChildren + 1
           /\ new[id].used = cs[id].used
        /\ \A c \in Proc \ {id, child} : new[c] = cs[c]
    BY <1>1, <2>0, ContainerSplitEffect
  <2> HIDE DEF new
  <2> QED
    BY <2>1, <1>3 DEF new
<1>6. child # 0
  BY <1>1, ChildIsNotParent, ProcFacts
<1>7. UsedProcs' = UsedProcs \cup {child} /\ UsedProcs \subseteq Proc
  BY <1>2, <1>5 DEF UsedProcs
<1> HIDE DEF child
<1>8. ParentsUsed'
  <2>1. ASSUME NEW c \in UsedProcs' PROVE cs'[c].parent \in UsedProcs'
    <3>1. CASE c = child
      BY <3>1, <1>2, <1>5, <1>7 DEF UsedProcs
    <3>2. CASE c # child
      <4>1. c \in UsedProcs /\ cs'[c].parent = cs[c].parent
        BY <3>2, <1>5, <1>7
      <4> QED
        BY <4>1, <1>7 DEF GivenInv, ParentsUsed
    <3> QED
      BY <3>1, <3>2
  <2> QED
    BY <2>1 DEF ParentsUsed
<1>9. child \notin UsedProcs
  BY <1>4 DEF UsedProcs
<1>10. /\ Children(id)' = Children(id) \cup {child}
       /\ child \notin Children(id)
       /\ \A c \in Proc \ {id} : Children(c)' = Children(c)
  <2>1. \A c \in UsedProcs : cs'[c].parent = cs[c].parent
    BY <1>5, <1>7, <1>9
  <2>2. \A c \in Proc : Children(c)'
          = {k \in UsedProcs' \ {0} : cs'[k].parent = c}
    BY DEF Children
  <2>3. \A c \in Proc : Children(c) = {k \in UsedProcs \ {0} : cs[k].parent = c}
    BY DEF Children
  <2>4. \A c \in Proc : \A k :
          k \in Children(c)' <=> k \in Children(c) \/ (k = child /\ c = id)
    BY <2>1, <2>2, <2>3, <1>5, <1>6, <1>7, <1>9
  <2>5. Children(id)' = Children(id) \cup {child}
    BY <2>4
  <2>6. \A c \in Proc \ {id} : Children(c)' = Children(c)
    BY <2>4
  <2>7. child \notin Children(id)
    BY <2>3, <1>9
  <2> QED
    BY <2>5, <2>6, <2>7
<1>11. /\ \A k \in Proc \ {child} : QuotaOf'[k] = QuotaOf[k]
       /\ QuotaOf'[child] = quota
  BY <1>2, <1>5 DEF QuotaOf
<1>12. ASSUME NEW c \in Proc
       PROVE  /\ SumFunctionOnSet(QuotaOf', Children(c))
                   = SumFunctionOnSet(QuotaOf, Children(c))
              /\ SumFunctionOnSet(QuotaOf, Children(c)) \in Int
  <2>1. /\ IsFiniteSet(Children(c)) /\ Children(c) \subseteq Proc \ {child}
        /\ \A k \in Children(c) : QuotaOf[k] \in Int
    BY <1>9, ChildrenFacts DEF Children
  <2>2. \A k \in Children(c) : QuotaOf'[k] = QuotaOf[k]
    BY <2>1, <1>11
  <2> QED
    BY <2>1, <2>2, SumSame, ChildrenFacts
<1>13. SumFunctionOnSet(QuotaOf', Children(id)')
         = SumFunctionOnSet(QuotaOf, Children(id)) + quota
  <2>1. /\ IsFiniteSet(Children(id)) /\ Children(id) \subseteq Proc \ {child}
        /\ \A k \in Children(id) : QuotaOf[k] \in Int
    BY <1>9, ChildrenFacts DEF Children
  <2>2. \A k \in Children(id) \cup {child} : QuotaOf'[k] \in Int
    BY <2>1, <1>1, <1>11
  <2>3. SumFunctionOnSet(QuotaOf', Children(id) \cup {child})
          = SumFunctionOnSet(QuotaOf', Children(id)) + QuotaOf'[child]
    BY <2>1, <2>2, <1>10, SumAdd
  <2> QED
    BY <2>3, <1>10, <1>11, <1>12
<1>14. ASSUME NEW c \in UsedProcs'
       PROVE  /\ GivenOf(c)' <= cs'[c].usage
              /\ freed' \/ cs'[c].usage = GivenOf(c)'
  <2>0. c \in Proc /\ Cardinality(held[c]) \in Nat /\ cs[c].usage \in Nat
    BY <1>2, <1>7, SpareFacts
  <2> DEFINE s == SumFunctionOnSet(QuotaOf, Children(c))
  <2>1. GivenOf(c)' = Cardinality(held[c])
                        + SumFunctionOnSet(QuotaOf', Children(c)')
    BY <1>2 DEF GivenOf
  <2>2. s \in Int
    BY <2>0, <1>12
  <2>3. c \in UsedProcs => /\ Cardinality(held[c]) + s <= cs[c].usage
                           /\ freed \/ cs[c].usage = Cardinality(held[c]) + s
    BY DEF GivenInv, GivenCovered, GivenOf
  <2>4. CASE c = id
    <3>1. GivenOf(c)' = Cardinality(held[c]) + (s + quota)
      BY <2>1, <2>4, <1>13
    <3>2. c \in UsedProcs /\ cs'[c].usage = cs[c].usage + quota
      BY <2>4, <1>2, <1>5 DEF UsedProcs
    <3> HIDE DEF s, cs
    <3> QED
      BY <3>1, <3>2, <2>0, <2>2, <2>3, <1>1, <1>2
  <2>5. CASE c = child
    <3>1. held[c] = {}
      BY <2>0, <2>5, <1>4 DEF Inv, UnusedHoldsNothing
    <3>2. Children(c) = {}
      BY <2>5, <1>9 DEF GivenInv, ParentsUsed, Children
    <3>3. Children(c)' = {}
      BY <2>0, <2>5, <3>2, <1>5, <1>10
    <3>4. GivenOf(c)' = 0
      BY <2>1, <3>1, <3>3, SumEmpty, FS_EmptySet
    <3> QED
      BY <3>4, <2>5, <1>5
  <2>6. CASE c \notin {id, child}
    <3>1. c \in UsedProcs /\ cs'[c] = cs[c]
      BY <2>0, <2>6, <1>5, <1>7
    <3>2. GivenOf(c)' = Cardinality(held[c]) + s
      BY <2>0, <2>1, <2>6, <1>10, <1>12
    <3> QED
      BY <3>1, <3>2, <2>3, <1>2
  <2> QED
    BY <2>4, <2>5, <2>6
<1> QED
  BY <1>8, <1>14 DEF GivenInv, GivenCovered

\* What was given away stays covered.
LEMMA GivenHolds == Spec => []GivenInv
<1>1. /\ Inv /\ Inv' /\ BudgetInv /\ OwnershipInv /\ GivenInv
      /\ [Next]_vars
      => GivenInv'
  <2> SUFFICES ASSUME Inv, Inv', BudgetInv, OwnershipInv, GivenInv, [Next]_vars
               PROVE  GivenInv'
    OBVIOUS
  <2>1. ASSUME NEW id \in Proc, Alloc(id) PROVE GivenInv'
    BY <2>1, AllocGiven
  <2>2. ASSUME NEW id \in Proc, NEW q \in Quotas, Split(id, q)
        PROVE  GivenInv'
    BY <2>2, SplitGiven
  <2>3. ASSUME NEW id \in Proc, NEW page \in held[id], FreeOwn(id, page)
        PROVE  GivenInv'
    BY <2>3, FreeOwnGiven
  <2>4. CASE UNCHANGED vars
    BY <2>4 DEF vars, GivenInv, ParentsUsed, GivenCovered, GivenOf, QuotaOf,
                Children, UsedProcs
  <2> QED
    BY <2>1, <2>2, <2>3, <2>4 DEF Next
<1> QED
  BY <1>1, InitGiven, InvHolds, BudgetHolds, OwnershipInvHolds, PTL DEF Spec

\* ContainerSplit dedicates each page of quota to one process only: what a
\* process holds and what it gave its children never exceed its quota, and
\* until a page is freed they are exactly what it was charged.
THEOREM NothingOvercommitted == Spec => []NoOvercommit
<1>1. Inv /\ GivenInv => NoOvercommit
  <2> SUFFICES ASSUME Inv, GivenInv, NEW id \in UsedProcs
               PROVE  /\ GivenOf(id) <= pm.containers[id].quota
                      /\ freed \/ pm.containers[id].usage = GivenOf(id)
    BY DEF NoOvercommit, GivenOf, QuotaOf
  <2>1. /\ GivenOf(id) <= pm.containers[id].usage
        /\ freed \/ pm.containers[id].usage = GivenOf(id)
    BY DEF GivenInv, GivenCovered
  <2>2. /\ Cardinality(held[id]) \in Nat
        /\ SumFunctionOnSet(QuotaOf, Children(id)) \in Int
        /\ pm.containers[id].usage \in Nat /\ pm.containers[id].quota \in Nat
        /\ pm.containers[id].usage <= pm.containers[id].quota
    BY SpareFacts, ChildrenFacts DEF UsedProcs
  <2>3. GivenOf(id) \in Int
    BY <2>2 DEF GivenOf
  <2> QED
    BY <2>1, <2>2, <2>3
<1> QED
  BY <1>1, InvHolds, GivenHolds, PTL
=============================================================================
