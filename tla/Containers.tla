----------------------------- MODULE Containers -----------------------------
(***************************************************************************)
(* The container tree of mem_physical.c: every process has a container     *)
(* that says how many physical pages it may own (quota), how many it owns  *)
(* or has given away (usage), who its parent is and how many children it   *)
(* was given.  The module has no variables: its operators compute the new  *)
(* value of the array containers[] from the old one, so that the page      *)
(* allocator (PhysMem) and the thread table (Threads) can share them.      *)
(***************************************************************************)
EXTENDS Integers

CONSTANTS MAX_PROCS,     \* thread.h: length of containers[], 64 in the source
          MAX_CHILDREN   \* mem_physical.c: children of one process, 8

ASSUME ContainersAssumption == /\ MAX_PROCS \in Nat \ {0}
                               /\ MAX_CHILDREN \in Nat \ {0}

Proc == 0 .. MAX_PROCS - 1

\* struct Container.  The int fields are unbounded here: under the contract of
\* ContainerSplit none of them can exceed the number of pages of the machine.
Container == [quota : Nat, usage : Nat, parent : Proc, numChildren : Nat,
              used : BOOLEAN]

\* A static array starts as zeros.
NoContainer == [quota |-> 0, usage |-> 0, parent |-> 0, numChildren |-> 0,
                used |-> FALSE]

\* Mutant: the root has no parent instead of being its own.
ContainerInit_NoParent(userPages) ==
  [c \in Proc |-> IF c = 0
                  THEN [NoContainer EXCEPT !.quota = userPages, !.used = TRUE,
                                           !.parent = -1]
                  ELSE NoContainer]

\* containers[] after ContainerInit(userPages): only the root is in use.
ContainerInit(userPages) ==
  [c \in Proc |-> IF c = 0
                  THEN [NoContainer EXCEPT !.quota = userPages, !.used = TRUE]
                  ELSE NoContainer]

\* Mutant: the index without the root's own place, id * MAX_CHILDREN + n.
ChildID_NoOffset(cs, id) == id * MAX_CHILDREN + cs[id].numChildren

\* The index ContainerSplit computes for the next child of id.
ChildID(cs, id) == id * MAX_CHILDREN + 1 + cs[id].numChildren

\* Mutant: the parent is not charged for the quota it dedicates.
ContainerSplit_Uncharged(cs, id, quota) ==
  LET child == [quota |-> quota, usage |-> 0, parent |-> id,
                numChildren |-> 0, used |-> TRUE]
  IN  [cs EXCEPT ![ChildID(cs, id)] = child, ![id].numChildren = @ + 1]

\* Mutant: the quota is taken out of the parent's quota.
ContainerSplit_Moved(cs, id, quota) ==
  LET child == [quota |-> quota, usage |-> 0, parent |-> id,
                numChildren |-> 0, used |-> TRUE]
  IN  [cs EXCEPT ![ChildID(cs, id)] = child, ![id].numChildren = @ + 1,
                 ![id].quota = @ - quota]

\* containers[] after ContainerSplit(id, quota).  The child is written first,
\* then the parent.
ContainerSplit(cs, id, quota) ==
  LET child == [quota |-> quota, usage |-> 0, parent |-> id,
                numChildren |-> 0, used |-> TRUE]
      written == [cs EXCEPT ![ChildID(cs, id)] = child]
      parent == written[id]
  IN  [written EXCEPT ![id] =
         [parent EXCEPT !.usage = parent.usage + quota,
                        !.numChildren = parent.numChildren + 1]]

\* What "assume it is safe to allocate quota pages" asks of the caller.
QuotaAvailable(cs, id, quota) == cs[id].usage + quota <= cs[id].quota

\* The child's index lies in containers[]: ContainerSplit does not test it, and
\* a write outside the array is not modelled.
ChildInArray(cs, id) == ChildID(cs, id) \in Proc

\* The limit MAX_CHILDREN stands for and no code tests.
ChildrenLeft(cs, id) == cs[id].numChildren < MAX_CHILDREN
=============================================================================
