------------------------------- MODULE Layout -------------------------------
(***************************************************************************)
(* The layout of the address space, mem_physical.h: the pages and the half *)
(* of them that is the programs'.  Module MemMap uses it for physical      *)
(* addresses and module UserSpace for virtual ones.                        *)
(***************************************************************************)
EXTENDS Numbers

CONSTANTS PAGESIZE,
          MEM_USERLO_PI, MEM_USERHI_PI

ASSUME LayoutAssumption ==
  /\ PAGESIZE \in Nat /\ PAGESIZE > 1 /\ WORD % PAGESIZE = 0
  /\ MEM_USERLO_PI \in Nat /\ MEM_USERHI_PI \in Nat
  /\ 0 < MEM_USERLO_PI /\ MEM_USERLO_PI < MEM_USERHI_PI
  /\ MEM_USERHI_PI < WORD \div PAGESIZE

NUM_PHYSICAL_PAGES == WORD \div PAGESIZE
MEM_USERLO == MEM_USERLO_PI * PAGESIZE
MEM_USERHI == MEM_USERHI_PI * PAGESIZE
UserWindow == MEM_USERLO_PI .. MEM_USERHI_PI - 1
PageOf(va) == va \div PAGESIZE
=============================================================================
