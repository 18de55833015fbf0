------------------------------- MODULE MemMap -------------------------------
(***************************************************************************)
(* How PhysicalMemoryInit (mem_physical.c) turns the memory map of the     *)
(* BIOS into the pages with RAM that module PhysMem starts from.  An entry *)
(* of the map has a 64 bit base and length; they are compared with the     *)
(* pages as uint32.                                                        *)
(***************************************************************************)
EXTENDS Layout, FiniteSets

CONSTANT Maps    \* the memory maps to start from

Page == 0 .. NUM_PHYSICAL_PAGES - 1

\* struct SMAP; type 1 is RAM.  The entry of zeros that ends the map is left out.
SMAP == [baseAddr : Number, length : Number, type : 0 .. WORD - 1]

ASSUME MemMapAssumption == Maps \subseteq Seq(SMAP)

VARIABLES smap,
          page,       \* the outer loop's counter
          ram,        \* pages found not to be reserved
          userPages   \* the quota of the root
vars == <<smap, page, ram, userPages>>

-----------------------------------------------------------------------------
\* Mutant: the test asks only that the page starts in the entry.
Inside_StartOnly(e, pg) ==
  LET pgStart == uint32(pg * PAGESIZE)
      start == uint32(e.baseAddr)
      end == uint32(start + uint32(e.length))
  IN pgStart >= start /\ pgStart < end

\* The comparison of a page with an entry, in uint32.
Inside(e, pg) ==
  LET pgStart == uint32(pg * PAGESIZE)
      pgEnd == uint32(pgStart + PAGESIZE)
      start == uint32(e.baseAddr)
      end == uint32(start + uint32(e.length))
  IN pgStart >= start /\ pgEnd <= end

\* The scan goes on until an entry of type 1 has the page inside.
IsRam(pg) == \E i \in DOMAIN smap : Inside(smap[i], pg) /\ smap[i].type = 1

Init == smap \in Maps /\ page = 0 /\ ram = {} /\ userPages = 0

\* One turn of the outer loop.
ClassifyPage ==
  /\ page < NUM_PHYSICAL_PAGES
  /\ page' = page + 1
  /\ ram' = IF IsRam(page) THEN ram \cup {page} ELSE ram
  /\ userPages' = IF IsRam(page) /\ page \in UserWindow
                  THEN userPages + 1 ELSE userPages
  /\ UNCHANGED smap

Next == ClassifyPage

Spec == Init /\ [][Next]_vars
-----------------------------------------------------------------------------
(***************************************************************************)
(* Properties.                                                             *)
(***************************************************************************)
Done == page = NUM_PHYSICAL_PAGES

\* The meaning of an entry, without a word size; where entries of RAM and others
\* overlap the code lets the RAM win, and so does this.
Covers(e, pg) == /\ e.baseAddr <= pg * PAGESIZE
                 /\ (pg + 1) * PAGESIZE <= e.baseAddr + e.length

TrueRam == {pg \in Page : \E i \in DOMAIN smap : Covers(smap[i], pg) /\ smap[i].type = 1}

\* All RAM of the machine ends below 4 GiB.
FitsWord == \A i \in DOMAIN smap :
              smap[i].type = 1 => smap[i].baseAddr + smap[i].length < WORD

\* On a machine whose RAM ends below 4 GiB the pages with RAM are found exactly,
\* in spite of pages and reserved entries whose end wraps to 0, with one
\* exception: the last page, whose end is 0, can be taken for RAM.  So the quota given to the
\* root is the number of pages the allocator has to give away, and the quotas
\* can promise no page that does not exist.
RamExactBelow4G ==
  Done /\ FitsWord => /\ ram \ {NUM_PHYSICAL_PAGES - 1} = TrueRam
                      /\ userPages = Cardinality(TrueRam \cap UserWindow)

\* "Page is inside this SMAP entry's range": every page of the user window that
\* is handed out as RAM is RAM.
UserRamExists == ram \cap UserWindow \subseteq TrueRam
=============================================================================
