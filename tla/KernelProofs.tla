---------------------------- MODULE KernelProofs ----------------------------
(***************************************************************************)
(* Theorems about Kernel and the modules it is composed of: the memory map *)
(* is classified exactly (for every word and page size, every window and   *)
(* every set of memory maps) and printed as it is, the 64 bit division     *)
(* being exact; the terminal implements a text screen (for every geometry  *)
(* of the screen, every font and every command) that shows the edited      *)
(* line; the program starts with the memory its image describes (for every *)
(* page size and every image), and its system calls answer as their        *)
(* contract says (for every size of a page, a word and the screen, and     *)
(* every quota).                                                           *)
(***************************************************************************)
EXTENDS Kernel, SequenceTheorems, FiniteSetTheorems, WellFoundedInduction, TLAPS
-----------------------------------------------------------------------------
(***************************************************************************)
(* The memory map, module MemMap.                                          *)
(***************************************************************************)
N == NUM_PHYSICAL_PAGES

\* The pages fill the address space.
LEMMA PagesFillMemory == N \in Nat /\ N > 1 /\ WORD = N * PAGESIZE
<1>1. WORD \in Nat /\ WORD > 1 /\ PAGESIZE \in Nat /\ PAGESIZE > 1 /\ WORD % PAGESIZE = 0
  BY WordAssumption, LayoutAssumption
<1>2. WORD = PAGESIZE * (WORD \div PAGESIZE) + (WORD % PAGESIZE)
  BY <1>1
<1>3. N \in Nat
  BY <1>1 DEF N, NUM_PHYSICAL_PAGES
<1>4. N > 1
  BY <1>3, LayoutAssumption DEF N, NUM_PHYSICAL_PAGES
<1> QED
  BY <1>1, <1>2, <1>3, <1>4 DEF N, NUM_PHYSICAL_PAGES

\* Where a page begins and ends, in uint32 too but for the end of the last page.
LEMMA PageBounds ==
  ASSUME NEW p \in Page
  PROVE  /\ p * PAGESIZE \in Nat /\ p * PAGESIZE < WORD
         /\ uint32(p * PAGESIZE) = p * PAGESIZE
         /\ (p + 1) * PAGESIZE = p * PAGESIZE + PAGESIZE
         /\ p # N - 1 => /\ p * PAGESIZE + PAGESIZE < WORD
                         /\ uint32(p * PAGESIZE + PAGESIZE) = p * PAGESIZE + PAGESIZE
         /\ p = N - 1 => p * PAGESIZE + PAGESIZE = WORD
<1>1. /\ p \in Nat /\ PAGESIZE \in Nat /\ WORD \in Nat /\ N \in Nat
      /\ PAGESIZE > 1 /\ p <= N - 1 /\ WORD = N * PAGESIZE
  BY PagesFillMemory, LayoutAssumption, WordAssumption DEF Page, N
<1>2. /\ p * PAGESIZE \in Nat
      /\ (p + 1) * PAGESIZE = p * PAGESIZE + PAGESIZE
  BY <1>1
<1>3. p * PAGESIZE + PAGESIZE <= WORD
  <2>1. (p + 1) * PAGESIZE <= N * PAGESIZE
    BY <1>1
  <2> QED
    BY <2>1, <1>1, <1>2
<1>4. p # N - 1 => p * PAGESIZE + PAGESIZE < WORD
  <2> SUFFICES ASSUME p # N - 1 PROVE p * PAGESIZE + PAGESIZE < WORD
    OBVIOUS
  <2>1. p + 1 <= N - 1
    BY <1>1
  <2>2. (p + 1) * PAGESIZE <= (N - 1) * PAGESIZE
    BY <2>1, <1>1
  <2>3. (N - 1) * PAGESIZE = N * PAGESIZE - PAGESIZE
    BY <1>1
  <2> QED
    BY <2>2, <2>3, <1>1, <1>2
<1>5. p = N - 1 => p * PAGESIZE + PAGESIZE = WORD
  BY <1>1, <1>2
<1>6. \A n \in Nat : n < WORD => uint32(n) = n
  BY <1>1 DEF uint32
<1> QED
  BY <1>1, <1>2, <1>3, <1>4, <1>5, <1>6

LEMMA NumberIsNat == Number \subseteq Nat
BY WordAssumption DEF Number, DWORD

\* On a machine whose RAM ends below the word size the test in uint32 finds what
\* the entry means, for every page but the last, which no entry covers.
LEMMA InsideIsCovers ==
  ASSUME NEW e \in SMAP, e.baseAddr + e.length < WORD, NEW p \in Page
  PROVE  /\ p # N - 1 => (Inside(e, p) <=> Covers(e, p))
         /\ p = N - 1 => ~Covers(e, p)
<1>1. e.baseAddr \in Nat /\ e.length \in Nat /\ WORD \in Nat
  BY WordAssumption, NumberIsNat DEF SMAP
<1>2. /\ uint32(e.baseAddr) = e.baseAddr
      /\ uint32(e.length) = e.length
      /\ uint32(e.baseAddr + e.length) = e.baseAddr + e.length
  BY <1>1 DEF uint32
<1>3. p # N - 1 => (Inside(e, p) <=> Covers(e, p))
  BY <1>1, <1>2, PageBounds DEF Inside, Covers
<1>4. p = N - 1 => ~Covers(e, p)
  BY <1>1, PageBounds DEF Covers
<1> QED
  BY <1>3, <1>4
-----------------------------------------------------------------------------
\* The loop has looked at the pages before page.
MapInv == /\ smap \in Maps
       /\ page \in 0 .. N
       /\ ram = {p \in Page : p < page /\ IsRam(p)}
       /\ userPages = Cardinality(ram \cap UserWindow)

LEMMA InitMap == Init => MapInv
<1> SUFFICES ASSUME Init PROVE MapInv
  OBVIOUS
<1>1. smap \in Maps /\ page = 0 /\ ram = {} /\ userPages = 0
  BY DEF Init
<1>2. {p \in Page : p < page /\ IsRam(p)} = {}
  BY <1>1, PagesFillMemory DEF Page, N
<1>3. ram \cap UserWindow = {}
  BY <1>1
<1> QED
  BY <1>1, <1>2, <1>3, PagesFillMemory, FS_EmptySet DEF MapInv

\* A turn of the loop adds the page it looks at, and counts it if it is a user's.
LEMMA NextMap == MapInv /\ [Next]_vars => MapInv'
<1> SUFFICES ASSUME MapInv, [Next]_vars PROVE MapInv'
  OBVIOUS
<1>1. CASE UNCHANGED vars
  BY <1>1 DEF vars, MapInv, IsRam
<1>2. CASE ClassifyPage
  <2>1. /\ page \in Nat /\ N \in Nat /\ page < N /\ page \in Page
        /\ page' = page + 1 /\ smap' = smap
    BY <1>2, PagesFillMemory DEF ClassifyPage, MapInv, Page, N
  <2>2. \A p : IsRam(p)' <=> IsRam(p)
    BY <2>1 DEF IsRam
  <2>3. page \notin ram /\ ram \subseteq Page
    BY <2>1 DEF MapInv
  <2>4. ram' = IF IsRam(page) THEN ram \cup {page} ELSE ram
    BY <1>2 DEF ClassifyPage
  <2>5. ram' = {p \in Page : p < page' /\ IsRam(p)'}
    <3>1. ASSUME NEW p \in Page
          PROVE  p < page' <=> p < page \/ p = page
      BY <2>1 DEF Page
    <3>2. {p \in Page : p < page' /\ IsRam(p)'}
            = {p \in Page : p < page /\ IsRam(p)} \cup {p \in {page} : IsRam(p)}
      BY <3>1, <2>1, <2>2
    <3>3. ram = {p \in Page : p < page /\ IsRam(p)}
      BY DEF MapInv
    <3> QED
      BY <3>2, <3>3, <2>4
  <2>6. userPages' = Cardinality(ram' \cap UserWindow)
    <3>1. IsFiniteSet(ram \cap UserWindow)
      <4>1. IsFiniteSet(Page)
        BY PagesFillMemory, FS_Interval DEF Page, N
      <4> QED
        BY <4>1, <2>3, FS_Subset
    <3>2. CASE IsRam(page) /\ page \in UserWindow
      <4>1. ram' \cap UserWindow = (ram \cap UserWindow) \cup {page}
        BY <3>2, <2>4
      <4>2. userPages' = userPages + 1
        BY <3>2, <1>2 DEF ClassifyPage
      <4> QED
        BY <3>1, <4>1, <4>2, <2>3, FS_AddElement DEF MapInv
    <3>3. CASE ~(IsRam(page) /\ page \in UserWindow)
      <4>1. ram' \cap UserWindow = ram \cap UserWindow
        BY <3>3, <2>4
      <4>2. userPages' = userPages
        BY <3>3, <1>2 DEF ClassifyPage
      <4> QED
        BY <4>1, <4>2 DEF MapInv
    <3> QED
      BY <3>2, <3>3
  <2>7. page' \in 0 .. N
    BY <2>1
  <2> QED
    BY <2>1, <2>5, <2>6, <2>7 DEF MapInv
<1> QED
  BY <1>1, <1>2 DEF Next

LEMMA MapExact ==
  ASSUME MapInv, Done, FitsWord
  PROVE  /\ ram \ {N - 1} = TrueRam
         /\ userPages = Cardinality(TrueRam \cap UserWindow)
<1>1. \A i \in DOMAIN smap : smap[i] \in SMAP
  BY MemMapAssumption DEF MapInv
<1>2. \A i \in DOMAIN smap :
        smap[i].type = 1 =>
          \A p \in Page : /\ p # N - 1 => (Inside(smap[i], p) <=> Covers(smap[i], p))
                          /\ p = N - 1 => ~Covers(smap[i], p)
  BY <1>1, InsideIsCovers DEF FitsWord
<1>3. ram = {p \in Page : IsRam(p)}
  <2>1. \A p \in Page : p < page
    BY PagesFillMemory DEF Done, Page, N
  <2> QED
    BY <2>1 DEF MapInv
<1>4. \A p \in Page : p \in ram \ {N - 1} <=> p \in TrueRam
  BY <1>2, <1>3 DEF IsRam, TrueRam
<1>5. ram \ {N - 1} = TrueRam
  BY <1>3, <1>4 DEF TrueRam
<1>6. N - 1 \notin UserWindow
  BY PagesFillMemory, LayoutAssumption DEF UserWindow, N, NUM_PHYSICAL_PAGES
<1>7. ram \cap UserWindow = TrueRam \cap UserWindow
  BY <1>5, <1>6
<1> QED
  BY <1>5, <1>7 DEF MapInv

\* The memory map is classified exactly on every machine whose RAM ends below the
\* word size, however its entries lie, and the root's quota is the number of its
\* user pages (the loops of PhysicalMemoryInit).
THEOREM RamExactSafe == Spec => []RamExactBelow4G
<1>1. MapInv => RamExactBelow4G
  BY MapExact DEF RamExactBelow4G, N
<1> QED
  BY <1>1, InitMap, NextMap, PTL DEF Spec

\* In the kernel the loop is followed by the monitor, which reads nothing of the map.
BootInv == /\ phase = "boot" => MapInv
           /\ phase # "boot" => page = 0

LEMMA KernelBootInv == BootInv /\ [KernelNext]_kernelVars => BootInv'
<1> SUFFICES ASSUME BootInv, [KernelNext]_kernelVars PROVE BootInv'
  OBVIOUS
<1>1. CASE UNCHANGED <<phase, bootVars>>
  <2>1. phase # "boot" => BootInv'
    BY <1>1 DEF BootInv, bootVars
  <2>2. phase = "boot" => BootInv'
    BY <1>1, NextMap DEF BootInv, bootVars, vars
  <2> QED
    BY <2>1, <2>2
<1>2. CASE Boot
  BY <1>2, NextMap DEF BootInv, Boot, Next
<1>3. CASE page = 0 /\ page' = 0 /\ phase # "boot" /\ phase' # "boot"
  BY <1>3 DEF BootInv
<1>4. CASE MonitorRun
  BY <1>4 DEF MonitorRun, BootInv
<1>5. CASE UNCHANGED kernelVars
  BY <1>1, <1>5 DEF kernelVars
<1>6. CASE Output
  BY <1>1, <1>6 DEF Output
<1>7. ASSUME NEW ch \in Typed, Edit(ch) PROVE BootInv'
  BY <1>1, <1>7 DEF Edit
<1>8. CASE Enter
  BY <1>3, <1>8 DEF Enter, BootInv, bootVars
<1>9. CASE MonitorUser
  BY <1>3, <1>9 DEF MonitorUser, BootInv, bootVars
<1>10. CASE LoadPage
  BY <1>3, <1>10 DEF LoadPage, BootInv, bootVars
<1>11. CASE ForceRunProcess
  BY <1>3, <1>11 DEF ForceRunProcess, BootInv, bootVars
<1>12. ASSUME NEW pg \in UserWindow, PageFaultHandler(pg) PROVE BootInv'
  BY <1>3, <1>12 DEF PageFaultHandler, BootInv, bootVars
<1>13. CASE \E nr, va, len, ch : Syscall(nr, va, len, ch)
  BY <1>1, <1>13 DEF Syscall
<1>14. CASE Return
  BY <1>1, <1>14 DEF Return
<1> QED
  BY <1>2, <1>4, <1>5, <1>6, <1>7, <1>8, <1>9, <1>10, <1>11, <1>12, <1>13, <1>14
  DEF KernelNext, Main, Program

\* The same of the kernel as a whole.
THEOREM KernelRamExactSafe == KernelSpec => []RamExactBelow4G
<1>1. KernelInit => BootInv
  BY InitMap DEF KernelInit, BootInv
<1>2. BootInv => RamExactBelow4G
  <2>1. phase = "boot" => (BootInv => RamExactBelow4G)
    BY MapExact DEF BootInv, RamExactBelow4G, N
  <2>2. phase # "boot" => (BootInv => RamExactBelow4G)
    BY PagesFillMemory DEF BootInv, RamExactBelow4G, Done, N
  <2> QED
    BY <2>1, <2>2
<1> QED
  BY <1>1, <1>2, KernelBootInv, PTL DEF KernelSpec
-----------------------------------------------------------------------------
(***************************************************************************)
(* Where the cells of the screen lie.                                      *)
(***************************************************************************)
W == VGA_WIDTH
ROWS == CHAR_ROWS
CS == CHAR_SIZE

LEMMA MulMono == ASSUME NEW a \in Int, NEW b \in Int, NEW n \in Nat, a <= b PROVE a * n <= b * n
<1>1. (b - a) * n \in Nat
  <2>1. b - a \in Nat
    OBVIOUS
  <2> QED
    BY <2>1
<1>2. (b - a) * n = b * n - a * n
  OBVIOUS
<1> QED
  BY <1>1, <1>2

\* A number written with a quotient and a remainder.
LEMMA Digit2 ==
  ASSUME NEW a \in Nat, NEW n \in Nat, NEW b \in 0 .. n - 1
  PROVE  /\ a * n + b \in Nat
         /\ (a * n + b) \div n = a /\ (a * n + b) % n = b
         /\ \A m \in Nat : a < m => a * n + b < m * n
<1> DEFINE x == a * n + b
           q == x \div n
           m == x % n
<1>1. a * n \in Nat /\ x \in Nat /\ n \in Nat /\ n > 0 /\ b \in Nat /\ b < n
  OBVIOUS
<1>2. q \in Int /\ m \in Int /\ 0 <= m /\ m < n /\ x = q * n + m
  <2> HIDE DEF x
  <2>1. x = n * q + m /\ n * q = q * n
    BY <1>1
  <2> QED
    BY <1>1, <2>1
<1> HIDE DEF q, m
<1>3. ~ (q < a)
  <2> SUFFICES ASSUME q < a PROVE FALSE
    OBVIOUS
  <2>1. (q + 1) * n <= a * n
    BY <1>1, <1>2, MulMono
  <2>2. (q + 1) * n = q * n + n
    BY <1>1, <1>2
  <2> QED
    BY <2>1, <2>2, <1>1, <1>2
<1>4. ~ (a < q)
  <2> SUFFICES ASSUME a < q PROVE FALSE
    OBVIOUS
  <2>1. (a + 1) * n <= q * n
    BY <1>1, <1>2, MulMono
  <2>2. (a + 1) * n = a * n + n
    BY <1>1
  <2> QED
    BY <2>1, <2>2, <1>1, <1>2
<1>5. q = a
  BY <1>2, <1>3, <1>4
<1>6. m = b
  BY <1>1, <1>2, <1>5
<1>7. ASSUME NEW k \in Nat, a < k PROVE x < k * n
  <2>1. (a + 1) * n <= k * n
    BY <1>7, <1>1, MulMono
  <2>2. (a + 1) * n = a * n + n
    BY <1>1
  <2> QED
    BY <2>1, <2>2, <1>1
<1> QED
  BY <1>1, <1>5, <1>6, <1>7 DEF q, m

LEMMA ScreenFacts ==
  /\ W \in Nat /\ W > 0 /\ CS \in Nat /\ CS > 0
  /\ ROWS \in Nat /\ ROWS > 1 /\ ROWS * CS = VGA_HEIGHT /\ CHAR_COLS = W
  /\ VGA_PLANES \in Nat /\ VGA_PLANES > 0
  /\ PlaneSize \in Nat /\ PlaneSize = VGA_HEIGHT * W
  /\ Planes = 0 .. VGA_PLANES - 1 /\ Lines = 0 .. CS - 1
  /\ Offsets = 0 .. VGA_PLANES * PlaneSize - 1
<1>1. /\ W \in Nat /\ W > 0 /\ CS \in Nat /\ CS > 0 /\ VGA_HEIGHT \in Nat /\ VGA_PLANES \in Nat
      /\ VGA_PLANES > 0 /\ VGA_PIXELS_PER_BYTE = CS /\ VGA_HEIGHT % CS = 0 /\ VGA_HEIGHT > CS
  BY ScreenAssumption DEF W, CS
<1>2. ROWS \in Nat /\ VGA_HEIGHT = CS * ROWS
  <2>1. /\ VGA_HEIGHT = CS * (VGA_HEIGHT \div CS) + (VGA_HEIGHT % CS)
        /\ VGA_HEIGHT \div CS \in Nat
    BY <1>1
  <2>2. ROWS = VGA_HEIGHT \div CS
    BY DEF ROWS, CHAR_ROWS, CS
  <2> HIDE DEF ROWS
  <2> QED
    BY <1>1, <2>1, <2>2
<1>3. CHAR_COLS = W
  <2>1. W * CS + 0 = W * CS
    BY <1>1
  <2>2. 0 \in 0 .. CS - 1
    BY <1>1
  <2>3. (W * CS) \div CS = W
    BY <1>1, <2>1, <2>2, Digit2
  <2> QED
    BY <2>3, <1>1 DEF CHAR_COLS, W, CS
<1>4. ROWS > 1 /\ ROWS * CS = VGA_HEIGHT
  <2> HIDE DEF ROWS
  <2>1. ROWS * CS = CS * ROWS
    BY <1>1, <1>2
  <2>2. ROWS = 0 \/ ROWS = 1 => CS * ROWS <= CS
    BY <1>1
  <2> QED
    BY <2>1, <2>2, <1>1, <1>2
<1>5. PlaneSize \in Nat /\ PlaneSize = VGA_HEIGHT * W
  <2>1. VGA_WIDTH * VGA_HEIGHT \in Nat /\ VGA_WIDTH * VGA_HEIGHT = VGA_HEIGHT * VGA_WIDTH
    BY <1>1 DEF W
  <2> QED
    BY <2>1 DEF PlaneSize, W
<1> QED
  BY <1>1, <1>2, <1>3, <1>4, <1>5 DEF Planes, Lines, Offsets, CS

\* The byte of line i of the cell at r and c: in its plane, and in the buffer.
InPlane(r, i, c) == (r * CS + i) * W + c
Place(p, r, i, c) == p * PlaneSize + InPlane(r, i, c)

LEMMA InPlaneFacts ==
  ASSUME NEW r \in 0 .. ROWS - 1, NEW i \in Lines, NEW c \in 0 .. W - 1
  PROVE  /\ r * CS + i \in Nat /\ r * CS + i < VGA_HEIGHT
         /\ (r * CS + i) \div CS = r /\ (r * CS + i) % CS = i
         /\ InPlane(r, i, c) \in 0 .. PlaneSize - 1
         /\ InPlane(r, i, c) \div W = r * CS + i /\ InPlane(r, i, c) % W = c
<1> DEFINE y == r * CS + i
<1>1. /\ r \in Nat /\ ROWS \in Nat /\ r < ROWS /\ i \in 0 .. CS - 1 /\ CS \in Nat /\ W \in Nat
      /\ ROWS * CS = VGA_HEIGHT /\ PlaneSize = VGA_HEIGHT * W /\ PlaneSize \in Nat
  BY ScreenFacts
<1>2. y \in Nat /\ y < VGA_HEIGHT /\ y \div CS = r /\ y % CS = i
  <2>1. y \in Nat /\ y \div CS = r /\ y % CS = i /\ y < ROWS * CS
    <3> HIDE DEF y
    <3>1. /\ r * CS + i \in Nat
          /\ (r * CS + i) \div CS = r /\ (r * CS + i) % CS = i
          /\ \A m \in Nat : r < m => r * CS + i < m * CS
      <4>1. r \in Nat /\ CS \in Nat /\ i \in 0 .. CS - 1
        BY <1>1
      <4> QED
        BY <4>1, Digit2
    <3>2. r * CS + i < ROWS * CS
      BY <3>1, <1>1
    <3> QED
      BY <3>1, <3>2 DEF y
  <2> HIDE DEF y
  <2> QED
    BY <2>1, <1>1
<1> HIDE DEF y
<1>3. VGA_HEIGHT \in Nat
  BY ScreenAssumption
<1>4. y * W + c \in Nat /\ (y * W + c) \div W = y /\ (y * W + c) % W = c /\ y * W + c < VGA_HEIGHT * W
  BY <1>1, <1>2, <1>3, Digit2
<1>5. InPlane(r, i, c) = y * W + c
  BY DEF InPlane, y
<1>6. InPlane(r, i, c) \in Nat /\ InPlane(r, i, c) < PlaneSize
  BY <1>1, <1>4, <1>5
<1>7. InPlane(r, i, c) \in 0 .. PlaneSize - 1
  BY <1>1, <1>6
<1> QED
  BY <1>2, <1>4, <1>5, <1>7 DEF y

LEMMA OneInPlane ==
  ASSUME NEW r \in 0 .. ROWS - 1, NEW i \in Lines, NEW c \in 0 .. W - 1,
         NEW s \in 0 .. ROWS - 1, NEW k \in Lines, NEW d \in 0 .. W - 1,
         InPlane(r, i, c) = InPlane(s, k, d)
  PROVE  r = s /\ i = k /\ c = d
<1>1. c = d /\ r * CS + i = s * CS + k
  BY InPlaneFacts
<1>2. (r * CS + i) \div CS = r /\ (r * CS + i) % CS = i
  BY InPlaneFacts
<1>3. (s * CS + k) \div CS = s /\ (s * CS + k) % CS = k
  BY InPlaneFacts
<1> QED
  BY <1>1, <1>2, <1>3

LEMMA PlaceFacts ==
  ASSUME NEW p \in Planes, NEW r \in 0 .. ROWS - 1, NEW i \in Lines, NEW c \in 0 .. W - 1
  PROVE  /\ Place(p, r, i, c) \in Offsets
         /\ Place(p, r, i, c) \div PlaneSize = p
         /\ Place(p, r, i, c) % PlaneSize = InPlane(r, i, c)
<1>1. /\ InPlane(r, i, c) \in 0 .. PlaneSize - 1 /\ PlaneSize \in Nat
      /\ p \in Nat /\ VGA_PLANES \in Nat /\ p < VGA_PLANES
  <2>1. InPlane(r, i, c) \in 0 .. PlaneSize - 1
    BY InPlaneFacts
  <2>2. p \in 0 .. VGA_PLANES - 1 /\ VGA_PLANES \in Nat /\ PlaneSize \in Nat
    BY ScreenFacts
  <2> QED
    BY <2>1, <2>2
<1>2. /\ Place(p, r, i, c) \in Nat /\ Place(p, r, i, c) < VGA_PLANES * PlaneSize
      /\ Place(p, r, i, c) \div PlaneSize = p
      /\ Place(p, r, i, c) % PlaneSize = InPlane(r, i, c)
  <2> DEFINE q == InPlane(r, i, c)
  <2> HIDE DEF q
  <2>1. q \in 0 .. PlaneSize - 1
    BY <1>1 DEF q
  <2>2. /\ p * PlaneSize + q \in Nat /\ p * PlaneSize + q < VGA_PLANES * PlaneSize
        /\ (p * PlaneSize + q) \div PlaneSize = p /\ (p * PlaneSize + q) % PlaneSize = q
    BY <1>1, <2>1, Digit2
  <2> QED
    BY <2>2 DEF q, Place
<1>3. VGA_PLANES * PlaneSize \in Nat
  BY <1>1
<1>4. Place(p, r, i, c) \in 0 .. VGA_PLANES * PlaneSize - 1
  BY <1>2, <1>3
<1> QED
  BY <1>2, <1>4, ScreenFacts

\* How far a byte lies behind the first of the character at row and col.
LEMMA AfterFacts ==
  ASSUME NEW r \in 0 .. ROWS - 1, NEW i \in Lines, NEW c \in 0 .. W - 1,
         NEW row \in 0 .. ROWS - 1, NEW col \in 0 .. W - 1,
         NEW after, after = InPlane(r, i, c) - (row * CS * W + col)
  PROVE  /\ after \in {k * W : k \in Lines} <=> r = row /\ c = col
         /\ r = row /\ c = col => after \div W = i
<1>1. /\ r \in Nat /\ i \in Nat /\ c \in Nat /\ row \in Nat /\ col \in Nat
      /\ CS \in Nat /\ W \in Nat /\ W > 0 /\ Lines = 0 .. CS - 1
  BY ScreenFacts
<1>2. ASSUME NEW k \in Lines
      PROVE  InPlane(row, k, col) = k * W + (row * CS * W + col)
  <2>1. k \in Nat /\ row * CS \in Nat
    BY <1>1
  <2>2. (row * CS + k) * W = row * CS * W + k * W
    BY <1>1, <2>1
  <2>3. row * CS * W \in Nat /\ k * W \in Nat
    BY <1>1, <2>1
  <2>4. row * CS * W + k * W + col = k * W + (row * CS * W + col)
    BY <1>1, <2>3
  <2> QED
    BY <2>2, <2>4 DEF InPlane
<1>3. InPlane(r, i, c) \in Nat /\ row * CS * W + col \in Nat
  <2>1. InPlane(r, i, c) \in Nat
    BY InPlaneFacts, ScreenFacts
  <2>2. row * CS \in Nat
    BY <1>1
  <2>3. row * CS * W \in Nat
    BY <2>2, <1>1
  <2> QED
    BY <2>1, <2>3, <1>1
<1> DEFINE start == row * CS * W + col
<1> HIDE DEF start
<1>4. after = InPlane(r, i, c) - start /\ start \in Nat
      /\ \A k \in Lines : InPlane(row, k, col) = k * W + start
  BY <1>2, <1>3 DEF start
<1>5. ASSUME NEW k \in Lines, after = k * W PROVE r = row /\ c = col
  <2>1. k * W \in Nat
    BY <1>1
  <2>2. InPlane(r, i, c) = k * W + start
    BY <2>1, <1>3, <1>4, <1>5
  <2>3. InPlane(r, i, c) = InPlane(row, k, col)
    BY <2>2, <1>4
  <2> QED
    BY <2>3, OneInPlane
<1>6. ASSUME r = row, c = col PROVE after = i * W
  <2>1. InPlane(r, i, c) = i * W + start
    BY <1>4, <1>6
  <2>2. i * W \in Nat
    BY <1>1
  <2> QED
    BY <2>1, <2>2, <1>4
<1>7. (i * W) \div W = i
  <2>1. 0 \in 0 .. W - 1 /\ i * W + 0 = i * W
    BY <1>1
  <2> QED
    BY <2>1, <1>1, Digit2
<1> QED
  BY <1>5, <1>6, <1>7
-----------------------------------------------------------------------------
(***************************************************************************)
(* The cells of a screen buffer, and what screen.c does to them.           *)
(***************************************************************************)
Buffers == [Offsets -> SUBSET Pixels]
Terms == [buf : Buffers, display : Buffers, lastClearColor : Color,
          row : 0 .. ROWS - 1, col : 0 .. W - 1]

CellOf(buf, r, c) == [p \in Planes |-> [i \in Lines |-> buf[Place(p, r, i, c)]]]
Plain(bg) == [p \in Planes |-> [i \in Lines |-> PlaneColor(bg, p)]]

\* The terminal u is t with another buffer.
Redrawn(t, u) ==
  /\ u \in Terms /\ u.lastClearColor = t.lastClearColor /\ u.row = t.row /\ u.col = t.col

\* The character laid over a cell.
Laid(cell, ch, color, bg) ==
  [p \in Planes |-> [i \in Lines |->
     IF ch = "backspace" THEN PlaneColor(bg, p)
     ELSE (cell[p][i] \ Font[ch][i]) \cup (Font[ch][i] \cap PlaneColor(color, p))]]

LEMMA PixelFacts == \A color, p : PlaneColor(color, p) \subseteq Pixels
BY DEF PlaneColor


\* The terminal u is t with the character laid over one cell.
Drawn(t, u, ch, row, col, color) ==
  /\ Redrawn(t, u)
  /\ \A r \in 0 .. ROWS - 1, c \in 0 .. W - 1 :
       CellOf(u.buf, r, c) =
         IF r = row /\ c = col
         THEN Laid(CellOf(t.buf, r, c), ch, color, t.lastClearColor)
         ELSE CellOf(t.buf, r, c)

LEMMA DrawFacts ==
  ASSUME NEW t \in Terms, NEW ch \in DOMAIN Font, NEW color,
         NEW row \in 0 .. ROWS - 1, NEW col \in 0 .. W - 1,
         NEW u, u = DrawCharAt(t, ch, row, col, color)
  PROVE  Drawn(t, u, ch, row, col, color)
<1> DEFINE start == row * CHAR_SIZE * VGA_WIDTH + col
           after(o) == (o % PlaneSize) - start
           inside(o) == after(o) \in {i * VGA_WIDTH : i \in Lines}
           glyph(o) == Font[ch][after(o) \div VGA_WIDTH]
           drawn(o) == IF ch = "backspace" THEN PlaneColor(t.lastClearColor, o \div PlaneSize)
                       ELSE (t.buf[o] \ glyph(o))
                              \cup (glyph(o) \cap PlaneColor(color, o \div PlaneSize))
           B == [o \in Offsets |-> IF inside(o) THEN drawn(o) ELSE t.buf[o]]
<1>1. row \in 0 .. CHAR_ROWS - 1 /\ col \in 0 .. CHAR_COLS - 1
  BY ScreenFacts DEF ROWS
<1>2. u = [t EXCEPT !.buf = B]
  BY <1>1 DEF DrawCharAt
<1>3. t.buf \in [Offsets -> SUBSET Pixels]
  BY DEF Terms, Buffers
<1>4. ASSUME NEW o \in Offsets PROVE drawn(o) \in SUBSET Pixels
  <2>1. t.buf[o] \in SUBSET Pixels
    BY <1>3
  <2> HIDE DEF glyph
  <2> QED
    BY <2>1, PixelFacts
<1> HIDE DEF drawn, inside
<1>5. B \in Buffers
  BY <1>3, <1>4 DEF Buffers
<1>6. ASSUME NEW r \in 0 .. ROWS - 1, NEW c \in 0 .. W - 1, NEW p \in Planes, NEW i \in Lines
      PROVE  B[Place(p, r, i, c)] =
               IF r = row /\ c = col
               THEN IF ch = "backspace" THEN PlaneColor(t.lastClearColor, p)
                    ELSE (t.buf[Place(p, r, i, c)] \ Font[ch][i])
                            \cup (Font[ch][i] \cap PlaneColor(color, p))
               ELSE t.buf[Place(p, r, i, c)]
  <2> DEFINE o == Place(p, r, i, c)
  <2>1. o \in Offsets /\ o \div PlaneSize = p /\ o % PlaneSize = InPlane(r, i, c)
    BY PlaceFacts
  <2> HIDE DEF o
  <2>2. after(o) = InPlane(r, i, c) - (row * CS * W + col)
    BY <2>1 DEF CS, W
  <2>3. /\ after(o) \in {k * W : k \in Lines} <=> r = row /\ c = col
        /\ r = row /\ c = col => after(o) \div W = i
    <3> DEFINE a == after(o)
    <3> HIDE DEF a
    <3>1. a = InPlane(r, i, c) - (row * CS * W + col)
      BY <2>2 DEF a
    <3>2. /\ a \in {k * W : k \in Lines} <=> r = row /\ c = col
          /\ r = row /\ c = col => a \div W = i
      BY <3>1, AfterFacts
    <3> QED
      BY <3>2 DEF a
  <2> HIDE DEF after
  <2>4. inside(o) <=> r = row /\ c = col
    BY <2>3 DEF inside, W
  <2>5. r = row /\ c = col =>
          drawn(o) = IF ch = "backspace" THEN PlaneColor(t.lastClearColor, p)
                     ELSE (t.buf[o] \ Font[ch][i]) \cup (Font[ch][i] \cap PlaneColor(color, p))
    BY <2>1, <2>3 DEF drawn, W
  <2>6. B[o] = IF inside(o) THEN drawn(o) ELSE t.buf[o]
    BY <2>1
  <2> HIDE DEF B
  <2>7. B[o] = IF r = row /\ c = col
               THEN IF ch = "backspace" THEN PlaneColor(t.lastClearColor, p)
                    ELSE (t.buf[o] \ Font[ch][i]) \cup (Font[ch][i] \cap PlaneColor(color, p))
               ELSE t.buf[o]
    BY <2>4, <2>5, <2>6
  <2> QED
    BY <2>7 DEF o
<1> HIDE DEF B
<1>7. Redrawn(t, u) /\ u.buf = B
  BY <1>2, <1>5 DEF Redrawn, Terms
<1>8. ASSUME NEW r \in 0 .. ROWS - 1, NEW c \in 0 .. W - 1
      PROVE  CellOf(u.buf, r, c) =
               IF r = row /\ c = col
               THEN Laid(CellOf(t.buf, r, c), ch, color, t.lastClearColor)
               ELSE CellOf(t.buf, r, c)
  <2>1. CASE r = row /\ c = col
    <3> DEFINE x == [p \in Planes |-> [i \in Lines |-> B[Place(p, r, i, c)]]]
    <3>1. Laid(CellOf(t.buf, r, c), ch, color, t.lastClearColor) = x
      BY <2>1, <1>6 DEF Laid, CellOf
    <3>2. CellOf(u.buf, r, c) = x
      BY <1>7 DEF CellOf
    <3> HIDE DEF x
    <3> QED
      BY <2>1, <3>1, <3>2
  <2>2. CASE ~ (r = row /\ c = col)
    <3>1. ASSUME NEW p \in Planes, NEW i \in Lines
          PROVE  B[Place(p, r, i, c)] = t.buf[Place(p, r, i, c)]
      BY <2>2, <1>6
    <3>2. CellOf(B, r, c) = CellOf(t.buf, r, c)
      BY <3>1 DEF CellOf
    <3> QED
      BY <2>2, <3>2, <1>7
  <2> QED
    BY <2>1, <2>2
<1> QED
  BY <1>7, <1>8 DEF Drawn

\* The terminal u is t with the rows moved up by one.
Scrolled(t, u) ==
  \A r \in 0 .. ROWS - 1, c \in 0 .. W - 1 :
    CellOf(u.buf, r, c) = IF r + 1 < ROWS THEN CellOf(t.buf, r + 1, c)
                          ELSE Plain(t.lastClearColor)

\* The range that is painted is the last row, in each plane.
LEMMA PaintFacts ==
  ASSUME NEW sc, NEW color
  PROVE  PaintRange(sc, VGA_WIDTH * VGA_PIXELS_PER_BYTE * (VGA_HEIGHT - CHAR_SIZE),
                    VGA_WIDTH * VGA_PIXELS_PER_BYTE * CHAR_SIZE, color)
           = [sc EXCEPT !.buf =
                [o \in Offsets |-> IF (VGA_HEIGHT - CS) * W <= o % PlaneSize /\ o % PlaneSize < PlaneSize
                                   THEN PlaneColor(color, o \div PlaneSize) ELSE sc.buf[o]]]
<1> DEFINE X == (VGA_HEIGHT - CS) * W
           Y == CS * W
           start == VGA_WIDTH * VGA_PIXELS_PER_BYTE * (VGA_HEIGHT - CHAR_SIZE)
           size == VGA_WIDTH * VGA_PIXELS_PER_BYTE * CHAR_SIZE
           limit == PlaneSize * VGA_PIXELS_PER_BYTE
           first == IF start = 0 THEN 1 ELSE (start - 1) \div VGA_PIXELS_PER_BYTE + 1
           last == first + size \div VGA_PIXELS_PER_BYTE
<1>1. /\ W \in Nat /\ W > 0 /\ CS \in Nat /\ CS > 0 /\ VGA_HEIGHT \in Nat /\ VGA_HEIGHT > CS
      /\ PlaneSize = VGA_HEIGHT * W /\ PlaneSize \in Nat /\ VGA_PIXELS_PER_BYTE = CS
      /\ VGA_WIDTH = W /\ CHAR_SIZE = CS
  BY ScreenFacts, ScreenAssumption DEF W, CS
<1>2. X \in Nat /\ X > 0 /\ Y \in Nat /\ X + Y = PlaneSize
  <2> DEFINE h == VGA_HEIGHT - CS
  <2>1. h \in Nat /\ h > 0 /\ h + CS = VGA_HEIGHT
    BY <1>1
  <2> HIDE DEF h
  <2>2. h * W \in Nat /\ h * W > 0
    BY <1>1, <2>1
  <2>3. CS * W \in Nat /\ (h + CS) * W = h * W + CS * W
    BY <1>1, <2>1
  <2> QED
    BY <1>1, <2>1, <2>2, <2>3 DEF h
<1>3. start = X * CS /\ size = Y * CS /\ limit = PlaneSize * CS
  <2> DEFINE h == VGA_HEIGHT - CS
  <2>1. h \in Nat /\ start = W * CS * h /\ size = W * CS * CS /\ limit = PlaneSize * CS
    BY <1>1
  <2> HIDE DEF h, start, size, limit
  <2>2. W * CS * h = h * W * CS /\ W * CS * CS = CS * W * CS
    BY <1>1, <2>1
  <2> QED
    BY <2>1, <2>2 DEF h
<1> HIDE DEF X, Y, start, size, limit
<1>4. start \in Nat /\ size \in Nat /\ start > 0 /\ start + size = limit
  <2>1. X * CS \in Nat /\ Y * CS \in Nat /\ X * CS > 0 /\ (X + Y) * CS = X * CS + Y * CS
    BY <1>1, <1>2
  <2> QED
    BY <2>1, <1>2, <1>3
<1>5. first = X
  <2> DEFINE x == X - 1
  <2>1. x \in Nat /\ x + 1 = X /\ CS - 1 \in 0 .. CS - 1
    BY <1>1, <1>2
  <2> HIDE DEF x
  <2>2. x * CS + (CS - 1) = X * CS - 1
    <3>1. (x + 1) * CS = x * CS + CS
      BY <1>1, <2>1
    <3>2. x * CS \in Nat
      BY <1>1, <2>1
    <3> QED
      BY <1>1, <2>1, <3>1, <3>2
  <2>3. (x * CS + (CS - 1)) \div CS = x
    BY <1>1, <2>1, Digit2
  <2>4. (start - 1) \div CS = x
    BY <1>3, <2>2, <2>3
  <2> QED
    BY <1>1, <1>4, <2>1, <2>4
<1>6. last = PlaneSize
  <2>1. 0 \in 0 .. CS - 1 /\ Y * CS + 0 = Y * CS
    BY <1>1, <1>2
  <2>2. (Y * CS + 0) \div CS = Y
    BY <1>1, <1>2, <2>1, Digit2
  <2> HIDE DEF first
  <2> QED
    BY <1>1, <1>2, <1>3, <1>5, <2>1, <2>2
<1>7. ~ (start < 0 \/ start > limit \/ size < 0 \/ start + size > limit)
  BY <1>4
<1>8. PaintRange(sc, start, size, color)
        = [sc EXCEPT !.buf =
             [o \in Offsets |-> IF first <= o % PlaneSize /\ o % PlaneSize < last
                                THEN PlaneColor(color, o \div PlaneSize) ELSE sc.buf[o]]]
  <2> HIDE DEF first, last
  <2>1. IF start < 0 \/ start > limit \/ size < 0 \/ start + size > limit THEN FALSE ELSE TRUE
    BY <1>7
  <2> QED
    BY <1>7 DEF PaintRange, limit, first, last
<1> HIDE DEF first, last
<1> QED
  BY <1>5, <1>6, <1>8 DEF X, start, size

LEMMA ScrollFacts ==
  ASSUME NEW t \in Terms, NEW u, u = ScrollScreen(t, CHAR_SIZE)
  PROVE  Redrawn(t, u) /\ Scrolled(t, u)
<1> DEFINE shift == VGA_WIDTH * CHAR_SIZE
           M == [o \in Offsets |-> IF o + shift \in Offsets THEN t.buf[o + shift] ELSE t.buf[o]]
           painted(o) == (VGA_HEIGHT - CS) * W <= o % PlaneSize /\ o % PlaneSize < PlaneSize
           B == [o \in Offsets |-> IF painted(o) THEN PlaneColor(t.lastClearColor, o \div PlaneSize)
                                   ELSE M[o]]
           sc == [t EXCEPT !.buf = M]
<1>1. t.buf \in [Offsets -> SUBSET Pixels]
  BY DEF Terms, Buffers
<1>2. M \in [Offsets -> SUBSET Pixels]
  BY <1>1
<1>3. u = PaintRange(sc, VGA_WIDTH * VGA_PIXELS_PER_BYTE * (VGA_HEIGHT - CHAR_SIZE),
                     VGA_WIDTH * VGA_PIXELS_PER_BYTE * CHAR_SIZE, sc.lastClearColor)
  BY DEF ScrollScreen
<1> HIDE DEF M
<1>4. sc \in Terms /\ sc.buf = M /\ sc.lastClearColor = t.lastClearColor
      /\ sc.row = t.row /\ sc.col = t.col
  BY <1>2 DEF Terms, Buffers
<1>5. u = [sc EXCEPT !.buf =
             [o \in Offsets |-> IF (VGA_HEIGHT - CS) * W <= o % PlaneSize /\ o % PlaneSize < PlaneSize
                                THEN PlaneColor(sc.lastClearColor, o \div PlaneSize) ELSE sc.buf[o]]]
  <2> HIDE DEF sc
  <2> QED
    BY <1>3, PaintFacts
<1>6. u = [sc EXCEPT !.buf = B]
  <2> HIDE DEF sc
  <2> QED
    BY <1>4, <1>5
<1>7. B \in Buffers
  <2> HIDE DEF painted
  <2> QED
    BY <1>2, PixelFacts DEF Buffers
<1>8. Redrawn(t, u) /\ u.buf = B
  <2> HIDE DEF sc, B
  <2> QED
    BY <1>4, <1>6, <1>7 DEF Redrawn, Terms
<1>9. /\ W \in Nat /\ W > 0 /\ CS \in Nat /\ CS > 0 /\ ROWS \in Nat /\ ROWS > 1
      /\ ROWS * CS = VGA_HEIGHT /\ VGA_HEIGHT \in Nat
  BY ScreenFacts, ScreenAssumption
<1>10. ASSUME NEW p \in Planes, NEW r \in 0 .. ROWS - 1, NEW i \in Lines, NEW c \in 0 .. W - 1
       PROVE  B[Place(p, r, i, c)] = IF r + 1 < ROWS THEN t.buf[Place(p, r + 1, i, c)]
                                     ELSE PlaneColor(t.lastClearColor, p)
  <2> DEFINE o == Place(p, r, i, c)
             y == r * CS + i
  <2>1. /\ o \in Offsets /\ o \div PlaneSize = p /\ o % PlaneSize = InPlane(r, i, c)
        /\ InPlane(r, i, c) \in 0 .. PlaneSize - 1 /\ PlaneSize \in Nat
    <3>1. o \in Offsets /\ o \div PlaneSize = p /\ o % PlaneSize = InPlane(r, i, c)
      BY PlaceFacts
    <3>2. InPlane(r, i, c) \in 0 .. PlaneSize - 1 /\ PlaneSize \in Nat
      BY InPlaneFacts, ScreenFacts
    <3> HIDE DEF o
    <3> QED
      BY <3>1, <3>2
  <2>2. r \in Nat /\ i \in Nat /\ i < CS /\ c \in Nat /\ c < W /\ p \in Nat
    BY <1>9, ScreenFacts
  <2>3. y \in Nat /\ InPlane(r, i, c) = y * W + c /\ y * W \in Nat
    <3>1. r * CS \in Nat
      BY <1>9, <2>2
    <3>2. y \in Nat
      BY <3>1, <2>2
    <3> HIDE DEF y
    <3> QED
      BY <3>2, <1>9 DEF InPlane, y
  <2>4. CASE r + 1 < ROWS
    <3>1. y + 1 <= VGA_HEIGHT - CS
      <4>1. (r + 2) * CS <= ROWS * CS
        BY <2>4, <1>9, <2>2, MulMono
      <4>2. (r + 2) * CS = r * CS + CS + CS
        BY <1>9, <2>2
      <4>3. r * CS \in Nat
        BY <1>9, <2>2
      <4> QED
        BY <4>1, <4>2, <4>3, <1>9, <2>2
    <3>2. InPlane(r, i, c) < (VGA_HEIGHT - CS) * W
      <4> DEFINE h == VGA_HEIGHT - CS
      <4>1. h \in Int /\ y + 1 <= h
        BY <3>1, <1>9
      <4> HIDE DEF h, y
      <4>2. (y + 1) * W <= h * W
        BY <4>1, <1>9, <2>3, MulMono
      <4>3. (y + 1) * W = y * W + W /\ h * W \in Int
        BY <4>1, <1>9, <2>3
      <4> QED
        BY <4>2, <4>3, <2>2, <2>3, <1>9 DEF h
    <3>3. ~ painted(o)
      <4>1. (VGA_HEIGHT - CS) * W \in Int
        BY <1>9
      <4> HIDE DEF o
      <4> QED
        BY <3>2, <4>1, <2>1
    <3>4. o + shift = Place(p, r + 1, i, c)
      <4>1. shift = CS * W
        BY <1>9 DEF W, CS
      <4>2. (r + 1) * CS + i = y + CS
        BY <1>9, <2>2
      <4>3. (y + CS) * W = y * W + CS * W
        <5> HIDE DEF y
        <5> QED
          BY <1>9, <2>3
      <4>4. InPlane(r + 1, i, c) = y * W + CS * W + c
        <5> HIDE DEF y
        <5> QED
          BY <4>2, <4>3 DEF InPlane
      <4>5. CS * W \in Nat /\ p * PlaneSize \in Nat
        BY <1>9, <2>1, <2>2
      <4> HIDE DEF shift, y
      <4> QED
        BY <4>1, <4>4, <4>5, <2>2, <2>3 DEF Place
    <3>5. Place(p, r + 1, i, c) \in Offsets
      <4>1. r + 1 \in 0 .. ROWS - 1
        BY <2>4, <2>2, <1>9
      <4> QED
        BY <4>1, PlaceFacts
    <3> HIDE DEF o, painted
    <3>6. B[o] = M[o]
      BY <2>1, <3>3
    <3>7. M[o] = t.buf[Place(p, r + 1, i, c)]
      BY <2>1, <3>4, <3>5 DEF M
    <3> HIDE DEF B
    <3> QED
      BY <2>4, <3>6, <3>7 DEF o
  <2>5. CASE ~ (r + 1 < ROWS)
    <3>1. VGA_HEIGHT - CS <= y
      <4>1. ROWS = r + 1
        BY <2>5, <1>9
      <4>2. (r + 1) * CS = r * CS + CS /\ r * CS \in Nat
        BY <1>9, <2>2
      <4> QED
        BY <4>1, <4>2, <1>9, <2>2
    <3>2. (VGA_HEIGHT - CS) * W <= InPlane(r, i, c)
      <4> DEFINE h == VGA_HEIGHT - CS
      <4>1. h \in Int /\ h <= y
        BY <3>1, <1>9
      <4> HIDE DEF h, y
      <4>2. h * W <= y * W /\ h * W \in Int
        BY <4>1, <1>9, <2>3, MulMono
      <4> QED
        BY <4>2, <2>2, <2>3 DEF h
    <3>3. painted(o)
      <4>1. InPlane(r, i, c) < PlaneSize
        BY <2>1
      <4> HIDE DEF o
      <4> QED
        BY <3>2, <4>1, <2>1
    <3> HIDE DEF o, painted
    <3>4. B[o] = PlaneColor(t.lastClearColor, p)
      BY <2>1, <3>3
    <3> HIDE DEF B
    <3> QED
      BY <2>5, <3>4 DEF o
  <2> QED
    BY <2>4, <2>5
<1> HIDE DEF B
<1>11. ASSUME NEW r \in 0 .. ROWS - 1, NEW c \in 0 .. W - 1
       PROVE  CellOf(u.buf, r, c) = IF r + 1 < ROWS THEN CellOf(t.buf, r + 1, c)
                                    ELSE Plain(t.lastClearColor)
  BY <1>8, <1>10 DEF CellOf, Plain
<1> QED
  BY <1>8, <1>11 DEF Scrolled
-----------------------------------------------------------------------------
(***************************************************************************)
(* The cursor, and the blank part of the screen that it never leaves       *)
(* behind: what is drawn is drawn on nothing.                              *)
(***************************************************************************)
Ahead(t) ==
  \A r \in 0 .. ROWS - 1, c \in 0 .. W - 1 :
    r > t.row \/ (r = t.row /\ c >= t.col) => CellOf(t.buf, r, c) = Plain(t.lastClearColor)

\* The terminal u is t with the cursor taken to the row below.
Broken(t, u) ==
  /\ u \in Terms /\ u.lastClearColor = t.lastClearColor /\ u.col = 0
  /\ IF t.row + 1 < ROWS
     THEN /\ u.row = t.row + 1
          /\ \A r \in 0 .. ROWS - 1, c \in 0 .. W - 1 :
               CellOf(u.buf, r, c) = CellOf(t.buf, r, c)
     ELSE u.row = t.row /\ Scrolled(t, u)

LEMMA TermFacts ==
  ASSUME NEW t \in Terms
  PROVE  /\ t.row \in Nat /\ t.row < ROWS /\ t.col \in Nat /\ t.col < W
         /\ ROWS \in Nat /\ W \in Nat /\ W > 0 /\ ROWS > 1
BY ScreenFacts DEF Terms

LEMMA MoveRowFacts ==
  ASSUME NEW t \in Terms, NEW u, u = [MoveRow(t, 1) EXCEPT !.col = 0]
  PROVE  Broken(t, u)
<1>1. /\ t.row \in Nat /\ t.row < ROWS /\ t.col \in Nat /\ t.col < W
      /\ ROWS \in Nat /\ W \in Nat /\ W > 0 /\ ROWS > 1
  BY TermFacts
<1>2. CASE t.row + 1 < ROWS
  <2> DEFINE m == [t EXCEPT !.row = t.row + 1]
  <2>1. MoveRow(t, 1) = m
    BY <1>1, <1>2 DEF MoveRow, ROWS
  <2>2. m \in Terms /\ m.row = t.row + 1 /\ m.buf = t.buf /\ m.lastClearColor = t.lastClearColor
    BY <1>1, <1>2 DEF Terms
  <2> HIDE DEF m
  <2>3. u \in Terms /\ u.row = m.row /\ u.buf = m.buf /\ u.lastClearColor = m.lastClearColor
        /\ u.col = 0
    BY <2>1, <2>2, <1>1 DEF Terms
  <2> QED
    BY <2>2, <2>3, <1>2 DEF Broken
<1>3. CASE ~ (t.row + 1 < ROWS)
  <2> DEFINE s == [t EXCEPT !.row = CHAR_ROWS - 1]
             m == ScrollScreen(s, CHAR_SIZE)
  <2>1. t.row = ROWS - 1 /\ t.row + 1 >= CHAR_ROWS
    BY <1>1, <1>3 DEF ROWS
  <2>2. s \in Terms /\ s.row = t.row /\ s.buf = t.buf /\ s.lastClearColor = t.lastClearColor
    BY <2>1, <1>1 DEF Terms, ROWS
  <2>3. MoveRow(t, 1) = m
    BY <2>1 DEF MoveRow
  <2> HIDE DEF s
  <2>4. Redrawn(s, m) /\ Scrolled(s, m)
    <3> DEFINE v == m
    <3> HIDE DEF v
    <3>1. v = ScrollScreen(s, CHAR_SIZE)
      BY DEF v
    <3>2. Redrawn(s, v) /\ Scrolled(s, v)
      BY <2>2, <3>1, ScrollFacts
    <3> QED
      BY <3>2 DEF v
  <2> HIDE DEF m
  <2>5. u \in Terms /\ u.row = m.row /\ u.buf = m.buf /\ u.lastClearColor = m.lastClearColor
        /\ u.col = 0
    BY <2>3, <2>4, <1>1 DEF Terms, Redrawn
  <2> QED
    BY <2>2, <2>4, <2>5, <1>3 DEF Broken, Redrawn, Scrolled
<1> QED
  BY <1>2, <1>3

\* Past the last row or not, what is ahead is blank again.
LEMMA BrokenAhead ==
  ASSUME NEW t \in Terms, NEW u, Broken(t, u),
         \A r \in 0 .. ROWS - 1, c \in 0 .. W - 1 :
           r > t.row => CellOf(t.buf, r, c) = Plain(t.lastClearColor)
  PROVE  Ahead(u)
<1>1. /\ t.row \in Nat /\ t.row < ROWS /\ ROWS \in Nat /\ ROWS > 1
      /\ u.lastClearColor = t.lastClearColor /\ u.col = 0
  BY TermFacts DEF Broken
<1>2. CASE t.row + 1 < ROWS
  <2>1. u.row = t.row + 1
        /\ \A r \in 0 .. ROWS - 1, c \in 0 .. W - 1 : CellOf(u.buf, r, c) = CellOf(t.buf, r, c)
    BY <1>2 DEF Broken
  <2>2. ASSUME NEW r \in 0 .. ROWS - 1, NEW c \in 0 .. W - 1,
               r > u.row \/ (r = u.row /\ c >= u.col)
        PROVE  CellOf(u.buf, r, c) = Plain(u.lastClearColor)
    <3>1. r > t.row
      BY <2>1, <2>2, <1>1
    <3> QED
      BY <3>1, <2>1, <1>1
  <2> QED
    BY <2>2 DEF Ahead
<1>3. CASE ~ (t.row + 1 < ROWS)
  <2>1. u.row = t.row /\ Scrolled(t, u)
    BY <1>3 DEF Broken
  <2>2. ASSUME NEW r \in 0 .. ROWS - 1, NEW c \in 0 .. W - 1,
               r > u.row \/ (r = u.row /\ c >= u.col)
        PROVE  CellOf(u.buf, r, c) = Plain(u.lastClearColor)
    <3>1. ~ (r + 1 < ROWS)
      BY <2>1, <2>2, <1>1, <1>3
    <3> QED
      BY <3>1, <2>1, <1>1 DEF Scrolled
  <2> QED
    BY <2>2 DEF Ahead
<1> QED
  BY <1>2, <1>3
-----------------------------------------------------------------------------
(***************************************************************************)
(* The grid of cells, and what PutChar does to it.                         *)
(***************************************************************************)
Grid(t) == [r \in 0 .. ROWS - 1 |-> [c \in 0 .. W - 1 |-> CellOf(t.buf, r, c)]]

LEMMA GridFacts ==
  \A t, r, c : r \in 0 .. ROWS - 1 /\ c \in 0 .. W - 1 => Grid(t)[r][c] = CellOf(t.buf, r, c)
BY DEF Grid

\* The terminal u is t with the grid g, and the cursor in the row below.
NextRowOf(t, g, u) ==
  /\ u.col = 0
  /\ IF t.row + 1 < ROWS
     THEN u.row = t.row + 1 /\ Grid(u) = g
     ELSE /\ u.row = t.row
          /\ Grid(u) = [r \in 0 .. ROWS - 1 |->
                          IF r + 1 < ROWS THEN g[r + 1]
                          ELSE [c \in 0 .. W - 1 |-> Plain(t.lastClearColor)]]

LEMMA BrokenGrid ==
  ASSUME NEW t \in Terms, NEW u, Broken(t, u)
  PROVE  NextRowOf(t, Grid(t), u)
<1>1. CASE t.row + 1 < ROWS
  <2>1. \A r \in 0 .. ROWS - 1, c \in 0 .. W - 1 : CellOf(u.buf, r, c) = CellOf(t.buf, r, c)
    BY <1>1 DEF Broken
  <2>2. Grid(u) = Grid(t)
    BY <2>1 DEF Grid
  <2> QED
    BY <1>1, <2>2 DEF Broken, NextRowOf
<1>2. CASE ~ (t.row + 1 < ROWS)
  <2> DEFINE g == Grid(t)
             h == [r \in 0 .. ROWS - 1 |->
                     IF r + 1 < ROWS THEN g[r + 1]
                     ELSE [c \in 0 .. W - 1 |-> Plain(t.lastClearColor)]]
  <2>1. Scrolled(t, u) /\ u.row = t.row /\ u.col = 0 /\ ROWS \in Nat
    BY <1>2, TermFacts DEF Broken
  <2>2. ASSUME NEW r \in 0 .. ROWS - 1
        PROVE  [c \in 0 .. W - 1 |-> CellOf(u.buf, r, c)] = h[r]
    <3>1. CASE r + 1 < ROWS
      <4>1. r + 1 \in 0 .. ROWS - 1
        BY <3>1, <2>1
      <4>2. h[r] = g[r + 1]
        BY <3>1
      <4>3. g[r + 1] = [c \in 0 .. W - 1 |-> CellOf(t.buf, r + 1, c)]
        BY <4>1 DEF Grid
      <4>4. \A c \in 0 .. W - 1 : CellOf(u.buf, r, c) = CellOf(t.buf, r + 1, c)
        BY <3>1, <2>1 DEF Scrolled
      <4> HIDE DEF h, g
      <4> QED
        BY <4>2, <4>3, <4>4
    <3>2. CASE ~ (r + 1 < ROWS)
      <4>1. h[r] = [c \in 0 .. W - 1 |-> Plain(t.lastClearColor)]
        BY <3>2
      <4>2. \A c \in 0 .. W - 1 : CellOf(u.buf, r, c) = Plain(t.lastClearColor)
        BY <3>2, <2>1 DEF Scrolled
      <4> HIDE DEF h, g
      <4> QED
        BY <4>1, <4>2
    <3> QED
      BY <3>1, <3>2
  <2>3. h = [r \in 0 .. ROWS - 1 |-> h[r]]
    OBVIOUS
  <2>4. Grid(u) = h
    <3> HIDE DEF h
    <3> QED
      BY <2>2, <2>3 DEF Grid
  <2> QED
    BY <1>2, <2>1, <2>4 DEF NextRowOf
<1> QED
  BY <1>1, <1>2

\* The grid g with the picture x in one cell.
SetCell(g, row, col, x) == [g EXCEPT ![row][col] = x]

LEMMA GridExcept ==
  ASSUME NEW t \in Terms, NEW u, NEW row \in 0 .. ROWS - 1, NEW col \in 0 .. W - 1, NEW x,
         \A r \in 0 .. ROWS - 1, c \in 0 .. W - 1 :
           CellOf(u.buf, r, c) = IF r = row /\ c = col THEN x ELSE CellOf(t.buf, r, c)
  PROVE  Grid(u) = SetCell(Grid(t), row, col, x)
<1> DEFINE g == Grid(t)
           h == [g EXCEPT ![row][col] = x]
<1>1. g = [r \in 0 .. ROWS - 1 |-> [c \in 0 .. W - 1 |-> CellOf(t.buf, r, c)]]
  BY DEF Grid
<1>2. h = [r \in 0 .. ROWS - 1 |-> IF r = row THEN [g[row] EXCEPT ![col] = x] ELSE g[r]]
  <2> HIDE DEF g
  <2> QED
    BY <1>1
<1>3. ASSUME NEW r \in 0 .. ROWS - 1
      PROVE  [c \in 0 .. W - 1 |-> CellOf(u.buf, r, c)] = h[r]
  <2> HIDE DEF g
  <2>0. g[r] = [c \in 0 .. W - 1 |-> CellOf(t.buf, r, c)]
    BY <1>1
  <2>1. CASE r = row
    <3>1. h[r] = [g[r] EXCEPT ![col] = x]
      BY <1>2, <2>1
    <3>2. [g[r] EXCEPT ![col] = x]
            = [c \in 0 .. W - 1 |-> IF c = col THEN x ELSE CellOf(t.buf, r, c)]
      BY <2>0
    <3>3. \A c \in 0 .. W - 1 :
            CellOf(u.buf, r, c) = IF c = col THEN x ELSE CellOf(t.buf, r, c)
      BY <2>1
    <3> HIDE DEF h
    <3> QED
      BY <3>1, <3>2, <3>3
  <2>2. CASE r # row
    <3>1. h[r] = g[r]
      BY <1>2, <2>2
    <3>2. \A c \in 0 .. W - 1 : CellOf(u.buf, r, c) = CellOf(t.buf, r, c)
      BY <2>2
    <3> HIDE DEF h
    <3> QED
      BY <3>1, <3>2, <2>0
  <2> QED
    BY <2>1, <2>2
<1>4. h = [r \in 0 .. ROWS - 1 |-> h[r]]
  <2> HIDE DEF g
  <2> QED
    BY <1>2
<1> HIDE DEF h
<1>5. Grid(u) = h
  BY <1>3, <1>4 DEF Grid
<1> QED
  BY <1>5 DEF h, g, SetCell

LEMMA StayFacts == ASSUME NEW t \in Terms PROVE MoveRow(t, 0) = t
<1>1. /\ t.row \in Nat /\ t.row < ROWS /\ t.col \in Nat /\ t.col < W
      /\ ROWS \in Nat /\ W \in Nat /\ W > 0 /\ ROWS > 1
  BY TermFacts
<1>2. ~ (t.row + 0 >= CHAR_ROWS) /\ (IF t.row + 0 < 0 THEN 0 ELSE t.row + 0) = t.row
  BY <1>1 DEF ROWS
<1>3. MoveRow(t, 0) = [t EXCEPT !.row = t.row]
  BY <1>2 DEF MoveRow
<1> QED
  BY <1>3 DEF Terms

\* The cursor after a character that was drawn.
LEMMA ForwardFacts ==
  ASSUME NEW d \in Terms, NEW u, u = MoveCursor(d, 0, 1)
  PROVE  IF d.col + 1 < W
         THEN Redrawn([d EXCEPT !.col = d.col + 1], u) /\ u.buf = d.buf
         ELSE Broken(d, u)
<1>1. /\ d.row \in Nat /\ d.row < ROWS /\ d.col \in Nat /\ d.col < W /\ CHAR_COLS = W
      /\ ROWS \in Nat /\ W \in Nat /\ W > 0 /\ ROWS > 1
  BY TermFacts, ScreenFacts
<1>2. (IF d.col + 1 < 0 THEN 0 ELSE d.col + 1) = d.col + 1
  BY <1>1
<1>3. u = IF d.col + 1 >= CHAR_COLS THEN [MoveRow(d, 1) EXCEPT !.col = 0]
          ELSE [d EXCEPT !.col = d.col + 1]
  BY <1>2, StayFacts DEF MoveCursor
<1>4. CASE d.col + 1 < W
  BY <1>1, <1>3, <1>4 DEF Redrawn, Terms
<1>5. CASE ~ (d.col + 1 < W)
  <2>1. u = [MoveRow(d, 1) EXCEPT !.col = 0]
    BY <1>1, <1>3, <1>5
  <2> QED
    BY <2>1, <1>5, MoveRowFacts
<1> QED
  BY <1>4, <1>5

LEMMA PlainPicture == \A ch, bg : Picture(ch, bg, bg) = Plain(bg)
BY DEF Picture, Plain

LEMMA LaidFacts ==
  ASSUME NEW ch \in DOMAIN Font, NEW color, NEW bg
  PROVE  /\ ch # "backspace" => Laid(Plain(bg), ch, color, bg) = Picture(ch, color, bg)
         /\ \A cell : ch = "backspace" => Laid(cell, ch, color, bg) = Plain(bg)
<1>1. ASSUME ch # "backspace" PROVE Laid(Plain(bg), ch, color, bg) = Picture(ch, color, bg)
  <2>1. \A p \in Planes : \A i \in Lines : Plain(bg)[p][i] = PlaneColor(bg, p)
    BY DEF Plain
  <2> QED
    BY <1>1, <2>1 DEF Laid, Picture
<1>2. \A cell : ch = "backspace" => Laid(cell, ch, color, bg) = Plain(bg)
  BY DEF Laid, Plain
<1> QED
  BY <1>1, <1>2

\* Of a color only the planes there are show.
LEMMA ShownColor ==
  \A ch, color, bg : Picture(ch, color, bg) = Picture(ch, color \cap Planes, bg)
BY DEF Picture, PlaneColor

\* The terminal u is t with the picture x at the cursor, and the cursor behind it.
WriteOf(t, u, x) ==
  LET g == SetCell(Grid(t), t.row, t.col, x)
  IN /\ u.lastClearColor = t.lastClearColor
     /\ IF t.col + 1 < W THEN u.col = t.col + 1 /\ u.row = t.row /\ Grid(u) = g
        ELSE NextRowOf(t, g, u)

LEMMA CursorCell ==
  ASSUME NEW t \in Terms, NEW x, NEW d,
         \A r \in 0 .. ROWS - 1, c \in 0 .. W - 1 :
           CellOf(d.buf, r, c) = IF r = t.row /\ c = t.col THEN x ELSE CellOf(t.buf, r, c)
  PROVE  Grid(d) = SetCell(Grid(t), t.row, t.col, x)
<1> DEFINE row == t.row
           col == t.col
<1>1. row \in 0 .. ROWS - 1 /\ col \in 0 .. W - 1
  BY DEF Terms
<1>2. \A r \in 0 .. ROWS - 1, c \in 0 .. W - 1 :
        CellOf(d.buf, r, c) = IF r = row /\ c = col THEN x ELSE CellOf(t.buf, r, c)
  OBVIOUS
<1> HIDE DEF row, col
<1>3. Grid(d) = SetCell(Grid(t), row, col, x)
  BY <1>1, <1>2, GridExcept
<1> QED
  BY <1>3 DEF row, col

LEMMA DrawnFacts ==
  ASSUME NEW t \in Terms, Ahead(t), NEW x, NEW d, Redrawn(t, d), NEW u,
         u = MoveCursor(d, 0, 1),
         \A r \in 0 .. ROWS - 1, c \in 0 .. W - 1 :
           CellOf(d.buf, r, c) = IF r = t.row /\ c = t.col THEN x ELSE CellOf(t.buf, r, c)
  PROVE  u \in Terms /\ Ahead(u) /\ WriteOf(t, u, x)
<1>1. /\ t.row \in Nat /\ t.row < ROWS /\ t.col \in Nat /\ t.col < W
      /\ ROWS \in Nat /\ W \in Nat /\ W > 0 /\ ROWS > 1
  BY TermFacts
<1>2. d \in Terms /\ d.row = t.row /\ d.col = t.col /\ d.lastClearColor = t.lastClearColor
  BY DEF Redrawn
<1> DEFINE g == SetCell(Grid(t), t.row, t.col, x)
<1>3. Grid(d) = g
  BY CursorCell
<1>4. IF d.col + 1 < W
      THEN Redrawn([d EXCEPT !.col = d.col + 1], u) /\ u.buf = d.buf
      ELSE Broken(d, u)
  BY <1>2, ForwardFacts
<1>5. ASSUME NEW r \in 0 .. ROWS - 1, NEW c \in 0 .. W - 1,
             r > t.row \/ (r = t.row /\ c > t.col)
      PROVE  CellOf(d.buf, r, c) = Plain(t.lastClearColor)
  <2>1. ~ (r = t.row /\ c = t.col) /\ (r > t.row \/ (r = t.row /\ c >= t.col))
    BY <1>1, <1>5
  <2> QED
    BY <2>1 DEF Ahead
<1> HIDE DEF g
<1>6. CASE t.col + 1 < W
  <2>1. u \in Terms /\ u.col = t.col + 1 /\ u.row = t.row /\ u.buf = d.buf
        /\ u.lastClearColor = t.lastClearColor
    <3>1. Redrawn([d EXCEPT !.col = d.col + 1], u) /\ u.buf = d.buf
      BY <1>2, <1>4, <1>6
    <3>2. [d EXCEPT !.col = d.col + 1].lastClearColor = d.lastClearColor
          /\ [d EXCEPT !.col = d.col + 1].row = d.row
          /\ [d EXCEPT !.col = d.col + 1].col = d.col + 1
      BY <1>2 DEF Terms
    <3> QED
      BY <3>1, <3>2, <1>2 DEF Redrawn
  <2>2. Grid(u) = Grid(d)
    BY <2>1 DEF Grid
  <2>3. ASSUME NEW r \in 0 .. ROWS - 1, NEW c \in 0 .. W - 1,
               r > u.row \/ (r = u.row /\ c >= u.col)
        PROVE  CellOf(u.buf, r, c) = Plain(u.lastClearColor)
    <3>1. r > t.row \/ (r = t.row /\ c > t.col)
      BY <2>1, <2>3, <1>1
    <3> QED
      BY <3>1, <2>1, <1>5
  <2>4. Ahead(u)
    BY <2>3 DEF Ahead
  <2> QED
    BY <2>1, <2>2, <2>4, <1>3, <1>6 DEF WriteOf, g
<1>7. CASE ~ (t.col + 1 < W)
  <2>1. Broken(d, u)
    BY <1>2, <1>4, <1>7
  <2>2. NextRowOf(d, Grid(d), u)
    BY <2>1, <1>2, BrokenGrid
  <2>3. NextRowOf(t, g, u)
    BY <2>2, <1>2, <1>3 DEF NextRowOf
  <2>4. u \in Terms /\ u.lastClearColor = t.lastClearColor
    BY <2>1, <1>2 DEF Broken
  <2>5. \A r \in 0 .. ROWS - 1, c \in 0 .. W - 1 :
          r > d.row => CellOf(d.buf, r, c) = Plain(d.lastClearColor)
    BY <1>2, <1>5
  <2>6. Ahead(u)
    BY <2>1, <2>5, <1>2, BrokenAhead
  <2> QED
    BY <2>3, <2>4, <2>6, <1>7 DEF WriteOf, g
<1> QED
  BY <1>6, <1>7

\* A character without a picture leaves its cell blank.
LEMMA WriteExact ==
  ASSUME NEW t \in Terms, Ahead(t), NEW ch, ch # "newline", ch # "backspace", NEW color,
         NEW u, u = PutChar(t, ch, color)
  PROVE  u \in Terms /\ Ahead(u) /\ WriteOf(t, u, Picture(ch, color, t.lastClearColor))
<1> DEFINE d == DrawCharAt(t, ch, t.row, t.col, color)
<1>1. u = MoveCursor(d, 0, 1)
  BY DEF PutChar
<1>2. t.row \in 0 .. ROWS - 1 /\ t.col \in 0 .. W - 1 /\ t.lastClearColor \in Color
  BY DEF Terms
<1>3. CellOf(t.buf, t.row, t.col) = Plain(t.lastClearColor)
  <2>1. t.row \in Nat /\ t.col \in Nat
    BY TermFacts
  <2> QED
    BY <2>1, <1>2 DEF Ahead
<1>4. CASE ch \in DOMAIN Font
  <2> DEFINE x == Picture(ch, color, t.lastClearColor)
  <2>1. /\ Redrawn(t, d)
        /\ \A r \in 0 .. ROWS - 1, c \in 0 .. W - 1 :
              CellOf(d.buf, r, c) =
                IF r = t.row /\ c = t.col
                THEN Laid(CellOf(t.buf, r, c), ch, color, t.lastClearColor)
                ELSE CellOf(t.buf, r, c)
    <3> DEFINE v == d
    <3>1. v = DrawCharAt(t, ch, t.row, t.col, color)
      OBVIOUS
    <3> HIDE DEF v, d
    <3> DEFINE row == t.row
               col == t.col
    <3>2. row \in 0 .. ROWS - 1 /\ col \in 0 .. W - 1 /\ v = DrawCharAt(t, ch, row, col, color)
      BY <3>1, <1>2
    <3> HIDE DEF row, col
    <3>3. Drawn(t, v, ch, row, col, color)
      BY <3>2, <1>4, DrawFacts
    <3> QED
      BY <3>3 DEF v, Drawn, row, col
  <2>2. Laid(Plain(t.lastClearColor), ch, color, t.lastClearColor) = x
    BY <1>4, LaidFacts
  <2> HIDE DEF x, d
  <2>3. \A r \in 0 .. ROWS - 1, c \in 0 .. W - 1 :
          CellOf(d.buf, r, c) = IF r = t.row /\ c = t.col THEN x ELSE CellOf(t.buf, r, c)
    BY <2>1, <2>2, <1>3
  <2>4. u \in Terms /\ Ahead(u) /\ WriteOf(t, u, x)
    BY <2>1, <2>3, <1>1, DrawnFacts
  <2> QED
    BY <2>4 DEF x
<1>5. CASE ch \notin DOMAIN Font
  <2> DEFINE x == Plain(t.lastClearColor)
  <2>1. d = t
    BY <1>5 DEF DrawCharAt
  <2>2. Redrawn(t, t)
    BY DEF Redrawn
  <2> HIDE DEF x, d
  <2>3. \A r \in 0 .. ROWS - 1, c \in 0 .. W - 1 :
          CellOf(t.buf, r, c) = IF r = t.row /\ c = t.col THEN x ELSE CellOf(t.buf, r, c)
    BY <1>3 DEF x
  <2>4. u \in Terms /\ Ahead(u) /\ WriteOf(t, u, x)
    BY <2>1, <2>2, <2>3, <1>1, DrawnFacts
  <2>5. x = Picture(ch, color, t.lastClearColor)
    BY <1>5 DEF x, Plain, Picture
  <2> QED
    BY <2>4, <2>5
<1> QED
  BY <1>4, <1>5

\* What is written is a picture of the font in a color of the screen.
LEMMA WriteFacts ==
  ASSUME NEW t \in Terms, Ahead(t), NEW ch, ch # "newline", ch # "backspace", NEW color,
         NEW u, u = PutChar(t, ch, color)
  PROVE  /\ u \in Terms /\ Ahead(u)
         /\ \E e \in DOMAIN Font, k \in Color : WriteOf(t, u, Picture(e, k, t.lastClearColor))
<1> DEFINE x == Picture(ch, color, t.lastClearColor)
           k == color \cap Planes
<1>1. u \in Terms /\ Ahead(u) /\ WriteOf(t, u, x)
  BY WriteExact
<1>2. CASE ch \in DOMAIN Font
  <2>1. x = Picture(ch, k, t.lastClearColor) /\ k \in Color
    BY ShownColor DEF Color
  <2> HIDE DEF x, k
  <2> QED
    BY <1>1, <1>2, <2>1
<1>3. CASE ch \notin DOMAIN Font
  <2>1. "backspace" \in DOMAIN Font /\ t.lastClearColor \in Color
    BY ScreenAssumption DEF Terms
  <2>2. x = Plain(t.lastClearColor)
    BY <1>3 DEF Plain, Picture
  <2>3. x = Picture("backspace", t.lastClearColor, t.lastClearColor)
    BY <2>2, PlainPicture
  <2> HIDE DEF x
  <2> QED
    BY <1>1, <2>1, <2>3
<1> QED
  BY <1>2, <1>3

LEMMA NewlineFacts ==
  ASSUME NEW t \in Terms, Ahead(t), NEW color, NEW u, u = PutChar(t, "newline", color)
  PROVE  /\ u \in Terms /\ Ahead(u) /\ u.lastClearColor = t.lastClearColor
         /\ NextRowOf(t, Grid(t), u)
<1>1. /\ t.row \in Nat /\ t.row < ROWS /\ t.col \in Nat /\ t.col < W /\ CHAR_COLS = W
      /\ ROWS \in Nat /\ W \in Nat /\ W > 0 /\ ROWS > 1
  BY TermFacts, ScreenFacts
<1>2. u = MoveCursor(t, 1, -t.col)
  BY DEF PutChar
<1>3. (IF t.col + (-t.col) < 0 THEN 0 ELSE t.col + (-t.col)) = 0 /\ ~ (0 >= CHAR_COLS)
  BY <1>1
<1>4. u = [MoveRow(t, 1) EXCEPT !.col = 0]
  BY <1>2, <1>3 DEF MoveCursor
<1>5. Broken(t, u)
  BY <1>4, MoveRowFacts
<1>6. \A r \in 0 .. ROWS - 1, c \in 0 .. W - 1 :
        r > t.row => CellOf(t.buf, r, c) = Plain(t.lastClearColor)
  BY DEF Ahead
<1>7. Ahead(u)
  BY <1>5, <1>6, BrokenAhead
<1> QED
  BY <1>5, <1>7, BrokenGrid DEF Broken

\* The terminal u is t with a blank at left, where the cursor is.
EraseOf(t, u, left) ==
  /\ u.lastClearColor = t.lastClearColor /\ u.row = t.row /\ u.col = left
  /\ Grid(u) = SetCell(Grid(t), t.row, left, Plain(t.lastClearColor))

LEMMA EraseFacts ==
  ASSUME NEW t \in Terms, Ahead(t), NEW color, NEW u, u = PutChar(t, "backspace", color)
  PROVE  u \in Terms /\ Ahead(u) /\ EraseOf(t, u, IF t.col = 0 THEN 0 ELSE t.col - 1)
<1>1. /\ t.row \in Nat /\ t.row < ROWS /\ t.col \in Nat /\ t.col < W /\ CHAR_COLS = W
      /\ ROWS \in Nat /\ W \in Nat /\ W > 0 /\ ROWS > 1
  BY TermFacts, ScreenFacts
<1> DEFINE left == IF t.col = 0 THEN 0 ELSE t.col - 1
           row == t.row
           m == [t EXCEPT !.col = left]
           x == Plain(t.lastClearColor)
<1>2. left \in 0 .. W - 1 /\ row \in 0 .. ROWS - 1 /\ left \in Nat
      /\ (left = t.col \/ left + 1 = t.col)
  BY <1>1
<1>3. MoveCursor(t, 0, -1) = m
  <2>1. (IF t.col + (-1) < 0 THEN 0 ELSE t.col + (-1)) = left /\ ~ (left >= CHAR_COLS)
    BY <1>1
  <2> HIDE DEF left
  <2> QED
    BY <2>1, StayFacts DEF MoveCursor
<1> HIDE DEF left
<1>4. m \in Terms /\ m.row = row /\ m.col = left /\ m.buf = t.buf
      /\ m.lastClearColor = t.lastClearColor
  BY <1>2 DEF Terms
<1> HIDE DEF m
<1>5. u = DrawCharAt(m, "backspace", m.row, m.col, color)
  BY <1>3 DEF PutChar
<1>6. u = DrawCharAt(m, "backspace", row, left, color)
  BY <1>4, <1>5
<1>7. /\ Redrawn(m, u)
      /\ \A r \in 0 .. ROWS - 1, c \in 0 .. W - 1 :
           CellOf(u.buf, r, c) =
             IF r = row /\ c = left
             THEN Laid(CellOf(m.buf, r, c), "backspace", color, m.lastClearColor)
             ELSE CellOf(m.buf, r, c)
  <2>1. "backspace" \in DOMAIN Font
    BY ScreenAssumption
  <2>2. m \in Terms /\ row \in 0 .. ROWS - 1 /\ left \in 0 .. W - 1
    BY <1>2, <1>4
  <2> HIDE DEF row, x
  <2>3. Drawn(m, u, "backspace", row, left, color)
    BY <2>1, <2>2, <1>6, DrawFacts
  <2> QED
    BY <2>3 DEF Drawn
<1>8. \A cell : Laid(cell, "backspace", color, m.lastClearColor) = x
  <2>1. "backspace" \in DOMAIN Font
    BY ScreenAssumption
  <2>2. \A cell : Laid(cell, "backspace", color, m.lastClearColor) = Plain(m.lastClearColor)
    BY <2>1, LaidFacts
  <2> QED
    BY <2>2, <1>4
<1> HIDE DEF x
<1>9. \A r \in 0 .. ROWS - 1, c \in 0 .. W - 1 :
        CellOf(u.buf, r, c) = IF r = row /\ c = left THEN x ELSE CellOf(t.buf, r, c)
  BY <1>4, <1>7, <1>8
<1>10. u \in Terms /\ u.lastClearColor = t.lastClearColor /\ u.row = row /\ u.col = left
  BY <1>4, <1>7 DEF Redrawn
<1>11. Grid(u) = SetCell(Grid(t), row, left, x)
  <2> HIDE DEF row
  <2> QED
    BY <1>2, <1>9, GridExcept
<1>12. ASSUME NEW r \in 0 .. ROWS - 1, NEW c \in 0 .. W - 1,
              r > u.row \/ (r = u.row /\ c >= u.col)
       PROVE  CellOf(u.buf, r, c) = Plain(u.lastClearColor)
  <2>1. CASE r = row /\ c = left
    BY <2>1, <1>9, <1>10 DEF x
  <2>2. CASE ~ (r = row /\ c = left)
    <3>1. r > t.row \/ (r = t.row /\ c >= t.col)
      BY <2>2, <1>1, <1>2, <1>10, <1>12
    <3>2. CellOf(t.buf, r, c) = x
      BY <3>1 DEF Ahead, x
    <3> QED
      BY <2>2, <3>2, <1>9, <1>10 DEF x
  <2> QED
    BY <2>1, <2>2
<1>13. Ahead(u)
  BY <1>12 DEF Ahead
<1>14. EraseOf(t, u, left)
  BY <1>10, <1>11 DEF EraseOf, x
<1> QED
  BY <1>10, <1>13, <1>14 DEF left

\* The terminal u is empty, with the cursor at its beginning.
ClearOf(u, color) ==
  /\ u.lastClearColor = color /\ u.row = 0 /\ u.col = 0
  /\ Grid(u) = [r \in 0 .. ROWS - 1 |-> [c \in 0 .. W - 1 |-> Plain(color)]]

LEMMA EmptyCells ==
  ASSUME NEW u, NEW color, u.buf = [o \in Offsets |-> PlaneColor(color, o \div PlaneSize)],
         u.lastClearColor = color, u.row = 0, u.col = 0
  PROVE  Ahead(u) /\ ClearOf(u, color)
<1>1. ASSUME NEW r \in 0 .. ROWS - 1, NEW c \in 0 .. W - 1
      PROVE  CellOf(u.buf, r, c) = Plain(color)
  <2>1. ASSUME NEW p \in Planes, NEW i \in Lines
        PROVE  u.buf[Place(p, r, i, c)] = PlaneColor(color, p)
    <3> DEFINE o == Place(p, r, i, c)
    <3>1. o \in Offsets /\ o \div PlaneSize = p
      BY PlaceFacts
    <3> HIDE DEF o
    <3>2. u.buf[o] = PlaneColor(color, p)
      BY <3>1
    <3> QED
      BY <3>2 DEF o
  <2> QED
    BY <2>1 DEF CellOf, Plain
<1>2. Ahead(u)
  BY <1>1 DEF Ahead
<1>3. ClearOf(u, color)
  BY <1>1 DEF ClearOf, Grid
<1> QED
  BY <1>2, <1>3

LEMMA ClearFacts ==
  ASSUME NEW t \in Terms, NEW color \in Color, NEW u, u = ResetCursor(ClearScreen(t, color))
  PROVE  u \in Terms /\ Ahead(u) /\ ClearOf(u, color)
<1> DEFINE clear == [o \in Offsets |-> PlaneColor(color, o \div PlaneSize)]
           s == [t EXCEPT !.buf = clear, !.display = clear, !.lastClearColor = color]
<1>1. clear \in Buffers
  BY PixelFacts DEF Buffers
<1>2. ClearScreen(t, color) = s
  BY DEF ClearScreen
<1> HIDE DEF clear
<1>3. s \in Terms /\ s.buf = clear /\ s.lastClearColor = color
  BY <1>1 DEF Terms
<1> HIDE DEF s
<1>4. u = [s EXCEPT !.row = 0, !.col = 0]
  BY <1>2 DEF ResetCursor
<1>5. u \in Terms /\ u.buf = clear /\ u.lastClearColor = color /\ u.row = 0 /\ u.col = 0
  <2>1. 0 \in 0 .. ROWS - 1 /\ 0 \in 0 .. W - 1
    BY ScreenFacts
  <2> QED
    BY <2>1, <1>3, <1>4 DEF Terms
<1>6. Ahead(u) /\ ClearOf(u, color)
  BY <1>5, EmptyCells DEF clear
<1> QED
  BY <1>5, <1>6

LEMMA FlushFacts ==
  ASSUME NEW t \in Terms, Ahead(t), NEW u, u = FlushBuffer(t)
  PROVE  u \in Terms /\ Ahead(u) /\ Redrawn(t, u) /\ Grid(u) = Grid(t)
<1>1. u = [t EXCEPT !.display = t.buf]
  BY DEF FlushBuffer
<1>2. Redrawn(t, u) /\ u.buf = t.buf
  BY <1>1 DEF Terms, Redrawn
<1> QED
  BY <1>2 DEF Redrawn, Ahead, Grid
-----------------------------------------------------------------------------
(***************************************************************************)
(* The terminal, seen as a text screen.                                    *)
(***************************************************************************)
LEMMA CellIs ==
  \A r \in 0 .. ROWS - 1, c \in 0 .. W - 1 : Cell(r, c) = CellOf(term.buf, r, c)
<1> SUFFICES ASSUME NEW r \in 0 .. ROWS - 1, NEW c \in 0 .. W - 1
             PROVE  Cell(r, c) = CellOf(term.buf, r, c)
  OBVIOUS
<1>1. ASSUME NEW p \in Planes, NEW i \in Lines
      PROVE  p * PlaneSize + (r * CHAR_SIZE + i) * VGA_WIDTH + c = Place(p, r, i, c)
  <2> DEFINE a == p * PlaneSize
             b == (r * CS + i) * W
  <2>1. /\ p \in Nat /\ i \in Nat /\ r \in Nat /\ c \in Nat
        /\ PlaneSize \in Nat /\ CS \in Nat /\ W \in Nat
    BY ScreenFacts
  <2>2. a \in Nat /\ b \in Nat
    BY <2>1
  <2> HIDE DEF a, b
  <2>3. a + b + c = a + (b + c)
    BY <2>1, <2>2
  <2> QED
    BY <2>3 DEF a, b, Place, InPlane, CS, W
<1> QED
  BY <1>1 DEF Cell, CellOf

Cells == [r \in 0 .. CHAR_ROWS - 1 |-> [c \in 0 .. CHAR_COLS - 1 |-> Cell(r, c)]]

LEMMA CellsAreGrid == Cells = Grid(term)
<1>1. CHAR_ROWS = ROWS /\ CHAR_COLS = W
  BY ScreenFacts DEF ROWS
<1> QED
  BY <1>1, CellIs DEF Cells, Grid

LEMMA NextCellsAreGrid == (Cells = Grid(term))'
BY CellsAreGrid, PTL

LEMMA BlankIsPlain == \A bg : TS!Blank(bg) = Plain(bg)
BY PlainPicture, Zenon DEF TS!Blank

LEMMA BlankRowIs == \A bg : TS!BlankRow(bg) = [c \in 0 .. W - 1 |-> Plain(bg)]
BY BlankIsPlain, ScreenFacts DEF TS!BlankRow

LEMMA BlankGridIs ==
  \A bg : TS!BlankGrid(bg) = [r \in 0 .. ROWS - 1 |-> [c \in 0 .. W - 1 |-> Plain(bg)]]
BY BlankRowIs DEF TS!BlankGrid, ROWS

\* The steps of the text screen, in terms of the terminal.
LEMMA NextRowMaps ==
  ASSUME NEW g, NextRowOf(term, g, term'), term'.lastClearColor = term.lastClearColor
  PROVE  TS!NextRow(g)
<1>1. Cells' = Grid(term')
  BY NextCellsAreGrid
<1>2. TS!BlankRow(term.lastClearColor) = [c \in 0 .. W - 1 |-> Plain(term.lastClearColor)]
  BY BlankRowIs
<1>3. term'.col = 0
  BY DEF NextRowOf
<1>4. CASE term.row + 1 < CHAR_ROWS
  <2>1. term'.row = term.row + 1 /\ Cells' = g
    BY <1>1, <1>4 DEF NextRowOf, ROWS
  <2> QED
    BY <1>3, <1>4, <2>1 DEF TS!NextRow, Cells
<1>5. CASE ~ (term.row + 1 < CHAR_ROWS)
  <2>1. term'.row = term.row
    BY <1>5 DEF NextRowOf, ROWS
  <2>2. Cells' = [r \in 0 .. ROWS - 1 |->
                    IF r + 1 < ROWS THEN g[r + 1] ELSE TS!BlankRow(term.lastClearColor)]
    BY <1>1, <1>2, <1>5 DEF NextRowOf, ROWS
  <2> QED
    BY <1>3, <1>5, <2>1, <2>2 DEF TS!NextRow, Cells, ROWS
<1> QED
  BY <1>4, <1>5

LEMMA WriteMaps ==
  ASSUME NEW e, NEW k, WriteOf(term, term', Picture(e, k, term.lastClearColor))
  PROVE  TS!Write(e, k)
<1> DEFINE g == SetCell(Grid(term), term.row, term.col, Picture(e, k, term.lastClearColor))
           h == [Cells EXCEPT ![term.row][term.col] = Picture(e, k, term.lastClearColor)]
<1>1. g = h
  BY CellsAreGrid DEF SetCell
<1>2. CHAR_COLS = W
  BY ScreenFacts
<1>3. term'.lastClearColor = term.lastClearColor
  BY DEF WriteOf
<1>4. CASE term.col + 1 < CHAR_COLS
  <2> HIDE DEF h
  <2>1. term'.col = term.col + 1 /\ term'.row = term.row /\ Grid(term') = g
    BY <1>2, <1>4 DEF WriteOf
  <2> HIDE DEF g
  <2>2. Cells' = h
    BY <1>1, <2>1, NextCellsAreGrid
  <2> QED
    BY <1>3, <1>4, <2>1, <2>2 DEF TS!Write, Cells, h
<1>5. CASE ~ (term.col + 1 < CHAR_COLS)
  <2>1. NextRowOf(term, g, term')
    BY <1>2, <1>5 DEF WriteOf
  <2> HIDE DEF g, h
  <2>2. TS!NextRow(g)
    BY <1>3, <2>1, NextRowMaps
  <2>3. TS!NextRow(h)
    BY <1>1, <2>2
  <2> QED
    BY <1>3, <1>5, <2>3 DEF TS!Write, Cells, h
<1> QED
  BY <1>4, <1>5

LEMMA NewlineMaps ==
  ASSUME NextRowOf(term, Grid(term), term'), term'.lastClearColor = term.lastClearColor
  PROVE  TS!Newline
<1>1. TS!NextRow(Grid(term))
  BY NextRowMaps
<1>2. TS!NextRow(Cells)
  BY <1>1, CellsAreGrid
<1> QED
  BY <1>2 DEF TS!Newline, Cells

LEMMA EraseMaps ==
  ASSUME EraseOf(term, term', IF term.col = 0 THEN 0 ELSE term.col - 1)
  PROVE  TS!Erase
<1> DEFINE left == IF term.col = 0 THEN 0 ELSE term.col - 1
           x == Plain(term.lastClearColor)
           h == [Cells EXCEPT ![term.row][left] = x]
<1>1. TS!Blank(term.lastClearColor) = x
  BY BlankIsPlain
<1> HIDE DEF x
<1>2. SetCell(Grid(term), term.row, left, x) = h
  BY CellsAreGrid DEF SetCell
<1> HIDE DEF h
<1>3. /\ term'.col = left /\ term'.row = term.row
      /\ term'.lastClearColor = term.lastClearColor
      /\ Grid(term') = SetCell(Grid(term), term.row, left, x)
  BY DEF EraseOf, x
<1> HIDE DEF left
<1>4. Cells' = h
  BY <1>2, <1>3, NextCellsAreGrid
<1> QED
  BY <1>1, <1>3, <1>4 DEF TS!Erase, Cells, h, left

LEMMA ClearMaps ==
  ASSUME NEW color, ClearOf(term', color)
  PROVE  TS!Clear(color)
<1>1. Cells' = TS!BlankGrid(color)
  BY NextCellsAreGrid, BlankGridIs DEF ClearOf
<1> QED
  BY <1>1 DEF ClearOf, TS!Clear, Cells

LEMMA StutterMaps ==
  ASSUME Redrawn(term, term'), Grid(term') = Grid(term)
  PROVE  UNCHANGED TS!vars
<1>1. Cells' = Cells
  BY CellsAreGrid, NextCellsAreGrid
<1> QED
  BY <1>1 DEF TS!vars, Cells, Redrawn
-----------------------------------------------------------------------------
\* What the cursor has not passed is blank.
TermInv == term \in Terms /\ Ahead(term)

LEMMA InitTerm == KernelInit => TermInv /\ TS!Init
<1> SUFFICES ASSUME KernelInit PROVE TermInv /\ TS!Init
  OBVIOUS
<1> DEFINE black == [o \in Offsets |-> PlaneColor(BLACK, o \div PlaneSize)]
<1>1. term = [buf |-> black, display |-> black, lastClearColor |-> BLACK, row |-> 0, col |-> 0]
  BY DEF KernelInit
<1>2. black \in Buffers /\ BLACK \in Color
  BY PixelFacts DEF Buffers, BLACK, Color
<1>3. 0 \in 0 .. ROWS - 1 /\ 0 \in 0 .. W - 1
  BY ScreenFacts
<1>4. term \in Terms /\ term.buf = black /\ term.lastClearColor = BLACK
      /\ term.row = 0 /\ term.col = 0
  <2> HIDE DEF black
  <2> QED
    BY <1>1, <1>2, <1>3 DEF Terms
<1>5. Ahead(term) /\ ClearOf(term, BLACK)
  BY <1>4, EmptyCells DEF black
<1>6. Cells = TS!BlankGrid(BLACK)
  BY <1>5, CellsAreGrid, BlankGridIs DEF ClearOf
<1> HIDE DEF black
<1>7. TS!Init
  BY <1>2, <1>4, <1>6 DEF TS!Init, Cells
<1> QED
  BY <1>4, <1>5, <1>7 DEF TermInv

\* What is waiting reaches the screen.
LEMMA OutputMaps ==
  ASSUME TermInv, Output
  PROVE  TermInv' /\ [TS!Next]_TS!vars
<1> DEFINE ch == Head(out).ch
           color == Head(out).color
<1>0. term \in Terms /\ Ahead(term)
  BY DEF TermInv
<1>1. CASE Head(out) = FLUSH
  <2>1. term' = FlushBuffer(term)
    BY <1>1 DEF Output
  <2>2. term' \in Terms /\ Ahead(term') /\ Redrawn(term, term') /\ Grid(term') = Grid(term)
    BY <1>0, <2>1, FlushFacts
  <2> QED
    BY <2>2, StutterMaps DEF TermInv
<1>2. CASE Head(out) # FLUSH
  <2>1. term' = PutChar(term, ch, color)
    BY <1>2 DEF Output
  <2> HIDE DEF ch, color
  <2>2. CASE ch = "newline"
    <3>1. /\ term' \in Terms /\ Ahead(term') /\ term'.lastClearColor = term.lastClearColor
          /\ NextRowOf(term, Grid(term), term')
      BY <1>0, <2>1, <2>2, NewlineFacts
    <3>2. TS!Newline
      BY <3>1, NewlineMaps
    <3> QED
      BY <3>1, <3>2 DEF TermInv, TS!Next
  <2>3. CASE ch = "backspace"
    <3>1. term' \in Terms /\ Ahead(term')
          /\ EraseOf(term, term', IF term.col = 0 THEN 0 ELSE term.col - 1)
      BY <1>0, <2>1, <2>3, EraseFacts
    <3>2. TS!Erase
      BY <3>1, EraseMaps
    <3> QED
      BY <3>1, <3>2 DEF TermInv, TS!Next
  <2>4. CASE ch # "newline" /\ ch # "backspace"
    <3>1. /\ term' \in Terms /\ Ahead(term')
          /\ \E e \in DOMAIN Font, k \in Color :
               WriteOf(term, term', Picture(e, k, term.lastClearColor))
      BY <1>0, <2>1, <2>4, WriteFacts
    <3>2. PICK e \in DOMAIN Font, k \in Color :
             WriteOf(term, term', Picture(e, k, term.lastClearColor))
      BY <3>1
    <3>3. TS!Write(e, k)
      BY <3>2, WriteMaps
    <3> QED
      BY <3>1, <3>3 DEF TermInv, TS!Next
  <2> QED
    BY <2>2, <2>3, <2>4
<1> QED
  BY <1>1, <1>2

LEMMA ClearStep ==
  ASSUME TermInv, NEW color \in Color, term' = ResetCursor(ClearScreen(term, color))
  PROVE  TermInv' /\ [TS!Next]_TS!vars
<1>1. term' \in Terms /\ Ahead(term') /\ ClearOf(term', color)
  BY ClearFacts DEF TermInv
<1>2. TS!Clear(color)
  BY <1>1, ClearMaps
<1> QED
  BY <1>1, <1>2 DEF TermInv, TS!Next

LEMMA SameStep ==
  ASSUME TermInv, UNCHANGED term
  PROVE  TermInv' /\ [TS!Next]_TS!vars
<1>1. Cells' = Cells
  BY CellsAreGrid, NextCellsAreGrid
<1> QED
  BY <1>1 DEF TermInv, TS!vars, Cells

LEMMA KernelMaps ==
  ASSUME TermInv, [KernelNext]_kernelVars
  PROVE  TermInv' /\ [TS!Next]_TS!vars
<1>1. CASE UNCHANGED kernelVars
  BY <1>1, SameStep DEF kernelVars, screenVars
<1>2. CASE Output
  BY <1>2, OutputMaps
<1>3. CASE MonitorRun
  <2>1. BLUE \in Color
    BY ScreenFacts DEF BLUE, Color
  <2> QED
    BY <1>3, <2>1, ClearStep DEF MonitorRun
<1>4. CASE MonitorUser
  <2>1. WHITE \in Color
    BY DEF WHITE, Color
  <2> QED
    BY <1>4, <2>1, ClearStep DEF MonitorUser
<1>5. CASE Boot
  BY <1>5, SameStep DEF Boot, screenVars
<1>6. ASSUME NEW ch \in Typed, Edit(ch) PROVE TermInv' /\ [TS!Next]_TS!vars
  BY <1>6, SameStep DEF Edit
<1>7. CASE Enter
  BY <1>7, SameStep DEF Enter
<1>8. CASE LoadPage
  BY <1>8, SameStep DEF LoadPage, screenVars
<1>9. CASE ForceRunProcess
  BY <1>9, SameStep DEF ForceRunProcess, screenVars
<1>10. CASE Program
  <2>1. UNCHANGED term
    BY <1>10 DEF Program, PageFaultHandler, Syscall, Return, screenVars
  <2> QED
    BY <2>1, SameStep
<1> QED
  BY <1>1, <1>2, <1>3, <1>4, <1>5, <1>6, <1>7, <1>8, <1>9, <1>10 DEF KernelNext, Main

\* The bytes, planes and offsets of screen.c and the cursor of console.c make a text
\* screen: a character covers exactly its cell, a scroll brings up an empty row, and
\* what a command or the program prints never touches another cell.
THEOREM TextScreenRefined == KernelSpec => ImplementsTextScreen
<1>1. KernelInit => TermInv /\ TS!Init
  BY InitTerm
<1>2. TermInv /\ [KernelNext]_kernelVars => TermInv' /\ [TS!Next]_TS!vars
  BY KernelMaps
<1> QED
  BY <1>1, <1>2, PTL DEF KernelSpec, ImplementsTextScreen, TS!Spec
-----------------------------------------------------------------------------
(***************************************************************************)
(* The load of the program: finite sets of numbers, the copy loop, what a  *)
(* page of a segment is filled with, and the pages of an image.            *)
(***************************************************************************)
LessThan == {ss \in Nat \X Nat : ss[1] < ss[2]}

\* Induction on the naturals, for a set of numbers in place of a predicate.
LEMMA NatSetInduction ==
  ASSUME NEW G, 0 \in G, \A n \in Nat : n \in G => n + 1 \in G
  PROVE  Nat \subseteq G
<1> SUFFICES ASSUME Nat \ G # {} PROVE FALSE
  OBVIOUS
<1>1. IsWellFoundedOn(LessThan, Nat)
  BY NatLessThanWellFounded DEF OpToRel, LessThan
<1>2. PICK n \in Nat \ G : \A m \in Nat \ G : ~ (<<m, n>> \in LessThan)
  BY <1>1, WFMin
<1>3. n # 0 /\ n - 1 \in Nat /\ (n - 1) + 1 = n
  BY <1>2
<1>4. n - 1 \notin G
  BY <1>2, <1>3
<1>5. <<n - 1, n>> \in LessThan
  BY <1>3 DEF LessThan
<1> QED
  BY <1>2, <1>3, <1>4, <1>5

LEMMA MaxFacts ==
  ASSUME NEW n \in Nat, NEW s \in SUBSET (1 .. n), s # {}
  PROVE  Max(s) \in s /\ \A x \in s : x <= Max(s)
<1> DEFINE G == {k \in Nat : \A t \in SUBSET (1 .. n) :
                   (t # {} /\ \A x \in t : x <= k) => \E m \in t : \A x \in t : m >= x}
<1>1. 0 \in G
  <2>1. ASSUME NEW t \in SUBSET (1 .. n), NEW x \in t, x <= 0 PROVE FALSE
    BY <2>1
  <2> QED
    BY <2>1
<1>2. ASSUME NEW k \in Nat, k \in G PROVE k + 1 \in G
  <2>1. ASSUME NEW t \in SUBSET (1 .. n), t # {}, \A x \in t : x <= k + 1
        PROVE  \E m \in t : \A x \in t : m >= x
    <3>1. CASE k + 1 \in t
      BY <3>1, <2>1
    <3>2. CASE k + 1 \notin t
      <4>1. \A x \in t : x <= k
        BY <3>2, <2>1
      <4> QED
        BY <4>1, <2>1, <1>2
    <3> QED
      BY <3>1, <3>2
  <2> QED
    BY <2>1
<1>3. n \in G
  <2> HIDE DEF G
  <2> QED
    BY <1>1, <1>2, NatSetInduction
<1>4. \E m \in s : \A x \in s : m >= x
  BY <1>3
<1> QED
  BY <1>4 DEF Max

LEMMA MaxOfInterval ==
  ASSUME NEW k \in Nat, k > 0
  PROVE  Max(1 .. k) = k
<1>1. Max(1 .. k) \in 1 .. k /\ \A x \in 1 .. k : Max(1 .. k) >= x
  <2>1. k \in 1 .. k /\ \A x \in 1 .. k : k >= x
    OBVIOUS
  <2> QED
    BY <2>1 DEF Max
<1> QED
  BY <1>1
-----------------------------------------------------------------------------
(***************************************************************************)
(* The loops of mem_virtual.c, syscall.c and screen.c that copy: the folds *)
(* of the model take one turn after the other.                             *)
(***************************************************************************)
\* One turn of a loop of mem_virtual.c, syscall.c or screen.c: its number is k,
\* and the turns before left x.
LoopTurn(a, k, x) ==
  CASE a.loop = "Written" -> SetByte(x, uint32(a.va + k - 1), a.bytes[k])
    [] a.loop = "TouchAll" -> Touch(x, a.pages[k])
    [] a.loop = "SysPutStr" -> PutPiece(x, a.va, a.len, (k - 1) * (PAGESIZE - 1))
    [] a.loop = "DisplayUserBuffer" -> DisplayPlane(x, a.va, k - 1)

TurnsTo(a, s, g) == IF s = {} THEN a.start ELSE LoopTurn(a, Max(s), g[s \ {Max(s)}])
Loops(a, n, g) == g = [s \in SUBSET (1 .. n) |-> TurnsTo(a, s, g)]

LEMMA LoopExists ==
  ASSUME NEW a, NEW n \in Nat
  PROVE  \E g : Loops(a, n, g)
<1> DEFINE S == 1 .. n
           D(k) == {s \in SUBSET S : \A x \in s : x <= k}
           G == {k \in Nat : \E g : g = [s \in D(k) |-> TurnsTo(a, s, g)]}
<1>2. 0 \in G
  <2> DEFINE g == [s \in D(0) |-> a.start]
  <2>1. \A s \in D(0) : s = {}
    OBVIOUS
  <2>2. g = [s \in D(0) |-> TurnsTo(a, s, g)]
    BY <2>1 DEF TurnsTo
  <2> QED
    BY <2>2
<1>3. ASSUME NEW k \in Nat, k \in G PROVE k + 1 \in G
  <2>1. PICK g : g = [s \in D(k) |-> TurnsTo(a, s, g)]
    BY <1>3
  <2> DEFINE h == [s \in D(k + 1) |-> TurnsTo(a, s, g)]
  <2>2. ASSUME NEW s \in D(k) PROVE s \in D(k + 1) /\ h[s] = g[s]
    <3>1. s \in D(k + 1)
      OBVIOUS
    <3>2. h[s] = TurnsTo(a, s, g)
      BY <3>1
    <3>3. g[s] = TurnsTo(a, s, g)
      <4> HIDE DEF TurnsTo
      <4> QED
       BY <2>1
    <3> QED
      BY <3>1, <3>2, <3>3
  <2>3. ASSUME NEW s \in D(k + 1) PROVE TurnsTo(a, s, g) = TurnsTo(a, s, h)
    <3>1. CASE s = {}
      BY <3>1 DEF TurnsTo
    <3>2. CASE s # {}
      <4>1. Max(s) \in s /\ \A x \in s : x <= Max(s)
        BY <3>2, MaxFacts
      <4> DEFINE m == Max(s)
      <4>2. m \in 1 .. n /\ m <= k + 1 /\ \A x \in s \ {m} : x \in 1 .. n /\ x <= m /\ x # m
        BY <4>1
      <4> HIDE DEF m
      <4>3. s \ {m} \in D(k)
        BY <4>2
      <4>4. h[s \ {m}] = g[s \ {m}]
        BY <4>3, <2>2
      <4> QED
        BY <4>4, <3>2 DEF TurnsTo, m
    <3> QED
      BY <3>1, <3>2
  <2>4. h = [s \in D(k + 1) |-> TurnsTo(a, s, h)]
    BY <2>3
  <2> HIDE DEF h
  <2>5. \E f : f = [s \in D(k + 1) |-> TurnsTo(a, s, f)]
    <3> HIDE DEF D
    <3> QED
      BY <2>4, Zenon
  <2>6. k + 1 \in Nat
    OBVIOUS
  <2> HIDE DEF D
  <2> QED
    BY <2>5, <2>6, Zenon
<1>4. n \in G
  <2> HIDE DEF G
  <2> QED
    BY <1>2, <1>3, NatSetInduction
<1>5. D(n) = SUBSET S
  OBVIOUS
<1>6. PICK g : g = [s \in D(n) |-> TurnsTo(a, s, g)]
  BY <1>4
<1> QED
  BY <1>5, <1>6 DEF Loops

\* The turns are taken one after the other.
LEMMA LoopUnfolds ==
  ASSUME NEW a, NEW n \in Nat, NEW g, Loops(a, n, g)
  PROVE  \E w : /\ w[0] = a.start /\ g[1 .. n] = w[n]
                /\ \A k \in 1 .. n : w[k] = LoopTurn(a, k, w[k - 1])
<1>3. \A s \in SUBSET (1 .. n) : g[s] = TurnsTo(a, s, g)
  <2> HIDE DEF TurnsTo
  <2> QED
    BY DEF Loops
<1> DEFINE w == [k \in 0 .. n |-> g[1 .. k]]
<1>4. w[0] = a.start
  <2>1. w[0] = g[{}]
    BY 1 .. 0 = {}
  <2> QED
    BY <2>1, <1>3 DEF TurnsTo
<1>5. w[n] = g[1 .. n]
  OBVIOUS
<1>6. ASSUME NEW k \in 1 .. n
      PROVE  w[k] = LoopTurn(a, k, w[k - 1])
  <2>1. Max(1 .. k) = k
    BY MaxOfInterval
  <2>2. (1 .. k) \ {k} = 1 .. (k - 1)
    OBVIOUS
  <2>3. 1 .. k \in SUBSET (1 .. n) /\ k \in 1 .. k
    OBVIOUS
  <2>5. g[1 .. k] = LoopTurn(a, k, g[1 .. (k - 1)])
    <3>1. g[1 .. k] = TurnsTo(a, 1 .. k, g) /\ 1 .. k # {}
      BY <1>3, <2>3
    <3> QED
      BY <3>1, <2>1, <2>2 DEF TurnsTo
  <2>6. w[k] = g[1 .. k] /\ w[k - 1] = g[1 .. (k - 1)]
    OBVIOUS
  <2> QED
    BY <2>5, <2>6
<1> HIDE DEF w
<1> QED
  BY <1>4, <1>5, <1>6
-----------------------------------------------------------------------------
\* TouchAll.
TouchTurns(sp, q, g) ==
  g = [s \in SUBSET (DOMAIN q) |->
         IF s = {} THEN sp ELSE LET x == Max(s) IN Touch(g[s \ {x}], q[x])]

TouchRun(sp, va, len, n, w) ==
  /\ w[0] = sp /\ TouchAll(sp, va, len) = w[n]
  /\ \A k \in 1 .. n : w[k] = Touch(w[k - 1], PagesOf(va, len)[k])

LEMMA TouchUnfolds ==
  ASSUME NEW sp, NEW va, NEW len, NEW n \in Nat, DOMAIN PagesOf(va, len) = 1 .. n
  PROVE  \E w : TouchRun(sp, va, len, n, w)
<1> DEFINE q == PagesOf(va, len)
           a == [loop |-> "TouchAll", start |-> sp, pages |-> q]
           g1 == CHOOSE g : TouchTurns(sp, q, g)
<1>1. TouchAll(sp, va, len) = g1[DOMAIN q]
  BY DEF TouchAll, FoldLeft, MapThenFoldSet, TouchTurns
<1>2. \A k, x : LoopTurn(a, k, x) = Touch(x, q[k])
  BY DEF LoopTurn
<1>3. a.start = sp /\ DOMAIN q = 1 .. n
  OBVIOUS
<1> HIDE DEF a, q
<1>4. ASSUME NEW g PROVE Loops(a, n, g) <=> TouchTurns(sp, q, g)
  <2>1. \A s : TurnsTo(a, s, g) = IF s = {} THEN sp ELSE LET x == Max(s) IN Touch(g[s \ {x}], q[x])
    BY <1>2, <1>3 DEF TurnsTo
  <2> QED
    BY <2>1, <1>3 DEF Loops, TouchTurns
<1>5. TouchTurns(sp, q, g1)
  <2>1. \E g : TouchTurns(sp, q, g)
    BY <1>4, LoopExists
  <2> QED
    BY <2>1
<1> HIDE DEF g1
<1>6. Loops(a, n, g1)
  BY <1>4, <1>5
<1>7. PICK w : /\ w[0] = a.start /\ g1[1 .. n] = w[n]
               /\ \A k \in 1 .. n : w[k] = LoopTurn(a, k, w[k - 1])
  BY <1>6, LoopUnfolds
<1>8. w[0] = sp /\ TouchAll(sp, va, len) = w[n]
  BY <1>1, <1>3, <1>7
<1>9. \A k \in 1 .. n : w[k] = Touch(w[k - 1], q[k])
  BY <1>2, <1>7
<1> QED
  BY <1>8, <1>9 DEF q, TouchRun

\* Written.
WrittenTurns(sp, va, bytes, q, g) ==
  g = [s \in SUBSET (DOMAIN q) |->
         IF s = {} THEN sp
         ELSE LET x == Max(s) IN SetByte(g[s \ {x}], uint32(va + q[x] - 1), bytes[q[x]])]

LEMMA WrittenUnfolds ==
  ASSUME NEW sp, NEW va, NEW bytes, NEW n \in Nat, Len(bytes) = n
  PROVE  \E w : /\ w[0] = sp /\ Written(sp, va, bytes) = w[n]
                /\ \A k \in 1 .. n : w[k] = SetByte(w[k - 1], uint32(va + k - 1), bytes[k])
<1> DEFINE q == [i \in 1 .. Len(bytes) |-> i]
           a == [loop |-> "Written", start |-> sp, va |-> va, bytes |-> bytes]
           g1 == CHOOSE g : WrittenTurns(sp, va, bytes, q, g)
<1>1. Written(sp, va, bytes) = g1[DOMAIN q]
  BY DEF Written, FoldLeft, MapThenFoldSet, WrittenTurns
<1>2. \A k, x : LoopTurn(a, k, x) = SetByte(x, uint32(va + k - 1), bytes[k])
  BY DEF LoopTurn
<1>3. a.start = sp /\ DOMAIN q = 1 .. n /\ \A k \in 1 .. n : q[k] = k
  OBVIOUS
<1> HIDE DEF a, q
<1>4. ASSUME NEW g PROVE Loops(a, n, g) <=> WrittenTurns(sp, va, bytes, q, g)
  <2>1. ASSUME NEW s \in SUBSET (1 .. n)
        PROVE  TurnsTo(a, s, g)
                 = IF s = {} THEN sp
                   ELSE LET x == Max(s) IN SetByte(g[s \ {x}], uint32(va + q[x] - 1), bytes[q[x]])
    <3>1. s # {} => q[Max(s)] = Max(s)
      BY <1>3, MaxFacts
    <3> QED
      BY <3>1, <1>2, <1>3 DEF TurnsTo
  <2> QED
    BY <2>1, <1>3 DEF Loops, WrittenTurns
<1>5. WrittenTurns(sp, va, bytes, q, g1)
  <2>1. \E g : WrittenTurns(sp, va, bytes, q, g)
    BY <1>4, LoopExists
  <2> QED
    BY <2>1
<1> HIDE DEF g1
<1>6. Loops(a, n, g1)
  BY <1>4, <1>5
<1>7. PICK w : /\ w[0] = a.start /\ g1[1 .. n] = w[n]
               /\ \A k \in 1 .. n : w[k] = LoopTurn(a, k, w[k - 1])
  BY <1>6, LoopUnfolds
<1>8. w[0] = sp /\ Written(sp, va, bytes) = w[n]
  BY <1>1, <1>3, <1>7
<1>9. \A k \in 1 .. n : w[k] = SetByte(w[k - 1], uint32(va + k - 1), bytes[k])
  BY <1>2, <1>7
<1> QED
  BY <1>8, <1>9

\* SysPutStr.
PieceTurns(sp, va, len, q, g) ==
  g = [s \in SUBSET (DOMAIN q) |->
         IF s = {} THEN sp ELSE LET x == Max(s) IN PutPiece(g[s \ {x}], va, len, q[x])]

Pieces(len) == (len + PAGESIZE - 2) \div (PAGESIZE - 1)
NoText(sp) == [sp |-> sp, errno |-> "E_SUCC", text |-> <<>>]

PieceTurn(r, va, len, k) == PutPiece(r, va, len, (k - 1) * (PAGESIZE - 1))
PiecesRun(sp, va, len, w) ==
  /\ w[0] = NoText(sp) /\ PutPieces(sp, va, len) = w[Pieces(len)]
  /\ \A k \in 1 .. Pieces(len) : w[k] = PieceTurn(w[k - 1], va, len, k)

LEMMA PiecesUnfold ==
  ASSUME NEW sp, NEW va, NEW len, Pieces(len) \in Nat
  PROVE  \E w : PiecesRun(sp, va, len, w)
<1> DEFINE n == Pieces(len)
           r0 == NoText(sp)
           q == [k \in 1 .. Pieces(len) |-> (k - 1) * (PAGESIZE - 1)]
           a == [loop |-> "SysPutStr", start |-> r0, va |-> va, len |-> len]
           g1 == CHOOSE g : PieceTurns(r0, va, len, q, g)
<1>1. PutPieces(sp, va, len) = g1[DOMAIN q]
  BY DEF PutPieces, FoldLeft, MapThenFoldSet, PieceTurns, Pieces, NoText
<1>2. \A k, x : LoopTurn(a, k, x) = PutPiece(x, va, len, (k - 1) * (PAGESIZE - 1))
  BY DEF LoopTurn
<1>3. a.start = r0 /\ DOMAIN q = 1 .. n /\ (\A k \in 1 .. n : q[k] = (k - 1) * (PAGESIZE - 1)) /\ n \in Nat
  OBVIOUS
<1> HIDE DEF a, q, r0, n
<1>4. ASSUME NEW g PROVE Loops(a, n, g) <=> PieceTurns(r0, va, len, q, g)
  <2>1. ASSUME NEW s \in SUBSET (1 .. n)
        PROVE  TurnsTo(a, s, g)
                 = IF s = {} THEN r0
                   ELSE LET x == Max(s) IN PutPiece(g[s \ {x}], va, len, q[x])
    <3>1. s # {} => q[Max(s)] = (Max(s) - 1) * (PAGESIZE - 1)
      BY <1>3, MaxFacts
    <3> QED
      BY <3>1, <1>2, <1>3 DEF TurnsTo
  <2> QED
    BY <2>1, <1>3 DEF Loops, PieceTurns
<1>5. PieceTurns(r0, va, len, q, g1)
  <2>1. \E g : PieceTurns(r0, va, len, q, g)
    BY <1>3, <1>4, LoopExists
  <2> QED
    BY <2>1
<1> HIDE DEF g1
<1>6. Loops(a, n, g1)
  BY <1>4, <1>5
<1>10. n \in Nat
  BY <1>3
<1>7. PICK w : /\ w[0] = a.start /\ g1[1 .. n] = w[n]
               /\ \A k \in 1 .. n : w[k] = LoopTurn(a, k, w[k - 1])
  BY <1>10, <1>6, LoopUnfolds
<1>8. w[0] = r0 /\ PutPieces(sp, va, len) = w[n]
  BY <1>1, <1>3, <1>7
<1>9. \A k \in 1 .. n : w[k] = PutPiece(w[k - 1], va, len, (k - 1) * (PAGESIZE - 1))
  BY <1>2, <1>7
<1> QED
  BY <1>8, <1>9 DEF r0, n, PiecesRun, PieceTurn

\* DisplayUserBuffer.
PlaneTurns(sp, va, q, g) ==
  g = [s \in SUBSET (DOMAIN q) |->
         IF s = {} THEN sp ELSE LET x == Max(s) IN DisplayPlane(g[s \ {x}], va, q[x])]

LEMMA PlanesUnfold ==
  ASSUME NEW sp, NEW va
  PROVE  \E w : /\ w[0] = [sp |-> sp, text |-> <<>>]
                /\ DisplayUserBuffer(sp, va) = w[PLANE_COUNT]
                /\ \A k \in 1 .. PLANE_COUNT : w[k] = DisplayPlane(w[k - 1], va, k - 1)
<1> DEFINE n == PLANE_COUNT
           r0 == [sp |-> sp, text |-> <<>>]
           q == [k \in 1 .. PLANE_COUNT |-> k - 1]
           a == [loop |-> "DisplayUserBuffer", start |-> r0, va |-> va]
           g1 == CHOOSE g : PlaneTurns(r0, va, q, g)
<1>1. DisplayUserBuffer(sp, va) = g1[DOMAIN q]
  BY DEF DisplayUserBuffer, FoldLeft, MapThenFoldSet, PlaneTurns
<1>2. \A k, x : LoopTurn(a, k, x) = DisplayPlane(x, va, k - 1)
  BY DEF LoopTurn
<1>3. a.start = r0 /\ DOMAIN q = 1 .. n /\ (\A k \in 1 .. n : q[k] = k - 1) /\ n \in Nat
  BY UserSpaceAssumption
<1> HIDE DEF a, q, r0, n
<1>4. ASSUME NEW g PROVE Loops(a, n, g) <=> PlaneTurns(r0, va, q, g)
  <2>1. ASSUME NEW s \in SUBSET (1 .. n)
        PROVE  TurnsTo(a, s, g)
                 = IF s = {} THEN r0
                   ELSE LET x == Max(s) IN DisplayPlane(g[s \ {x}], va, q[x])
    <3>1. s # {} => q[Max(s)] = Max(s) - 1
      BY <1>3, MaxFacts
    <3> QED
      BY <3>1, <1>2, <1>3 DEF TurnsTo
  <2> QED
    BY <2>1, <1>3 DEF Loops, PlaneTurns
<1>5. PlaneTurns(r0, va, q, g1)
  <2>1. \E g : PlaneTurns(r0, va, q, g)
    BY <1>3, <1>4, LoopExists
  <2> QED
    BY <2>1
<1> HIDE DEF g1
<1>6. Loops(a, n, g1)
  BY <1>4, <1>5
<1>7. \E w : /\ w[0] = a.start /\ g1[1 .. n] = w[n]
             /\ \A k \in 1 .. n : w[k] = LoopTurn(a, k, w[k - 1])
  BY <1>3, <1>6, LoopUnfolds
<1> QED
  BY <1>1, <1>2, <1>3, <1>7 DEF r0, n
-----------------------------------------------------------------------------
(***************************************************************************)
(* The bytes of a page of the user window.                                 *)
(***************************************************************************)
P == PAGESIZE
Place32(pg, j) == pg * P + j

LEMMA LayoutFacts ==
  /\ P \in Nat /\ P > 1 /\ WORD \in Nat
  /\ MEM_USERLO \in Nat /\ MEM_USERHI \in Nat /\ MEM_USERHI + P <= WORD
  /\ MEM_USERLO = MEM_USERLO_PI * P /\ MEM_USERHI = MEM_USERHI_PI * P
  /\ MEM_USERLO_PI \in Nat /\ MEM_USERHI_PI \in Nat
  /\ \A n \in Nat : n < WORD => uint32(n) = n
<1>1. /\ P \in Nat /\ P > 1 /\ WORD \in Nat /\ MEM_USERLO_PI \in Nat /\ MEM_USERHI_PI \in Nat
      /\ MEM_USERHI_PI + 1 <= WORD \div P
  BY LayoutAssumption, WordAssumption DEF P
<1>2. WORD = N * P /\ N \in Nat /\ N = WORD \div P
  BY PagesFillMemory DEF N, NUM_PHYSICAL_PAGES, P
<1>3. (MEM_USERHI_PI + 1) * P <= N * P
  BY <1>1, <1>2, MulMono
<1>4. (MEM_USERHI_PI + 1) * P = MEM_USERHI_PI * P + P
  BY <1>1
<1>5. MEM_USERLO_PI * P \in Nat /\ MEM_USERHI_PI * P \in Nat
  BY <1>1
<1> QED
  BY <1>1, <1>2, <1>3, <1>4, <1>5 DEF MEM_USERLO, MEM_USERHI, P, uint32

LEMMA UserPageFacts ==
  ASSUME NEW pg \in UserWindow
  PROVE  /\ pg \in Nat /\ pg * P \in Nat /\ MEM_USERLO <= pg * P
         /\ pg * P + P <= MEM_USERHI /\ pg * P + P < WORD
         /\ uint32(pg * P) = pg * P
         /\ \A j \in 0 .. P - 1 : /\ Place32(pg, j) \in Nat
                                /\ uint32(Place32(pg, j)) = Place32(pg, j)
                                /\ PageOf(Place32(pg, j)) = pg
                                /\ Place32(pg, j) % P = j
<1>1. pg \in Nat /\ MEM_USERLO_PI <= pg /\ pg + 1 <= MEM_USERHI_PI
  BY LayoutFacts DEF UserWindow
<1>2. MEM_USERLO_PI * P <= pg * P /\ (pg + 1) * P <= MEM_USERHI_PI * P
  BY <1>1, LayoutFacts, MulMono
<1>3. pg * P \in Nat /\ (pg + 1) * P = pg * P + P
  BY <1>1, LayoutFacts
<1>4. MEM_USERLO <= pg * P /\ pg * P + P <= MEM_USERHI /\ pg * P + P < WORD
  BY <1>2, <1>3, LayoutFacts
<1>5. ASSUME NEW j \in 0 .. P - 1
      PROVE  /\ Place32(pg, j) \in Nat /\ Place32(pg, j) < WORD
             /\ PageOf(Place32(pg, j)) = pg /\ Place32(pg, j) % P = j
  <2>1. Place32(pg, j) \in Nat /\ Place32(pg, j) < WORD
    BY <1>3, <1>4, LayoutFacts DEF Place32
  <2>2. P \in Nat
    BY LayoutFacts
  <2>3. (pg * P + j) \div P = pg /\ (pg * P + j) % P = j
    BY <1>1, <2>2, Digit2
  <2> QED
    BY <2>1, <2>3 DEF Place32, PageOf, P
<1>6. uint32(pg * P) = pg * P
  BY <1>3, <1>4, LayoutFacts
<1> QED
  BY <1>1, <1>3, <1>4, <1>5, <1>6, LayoutFacts

\* The space sp with other bytes in a page.
WithPage(sp, pg, bs) == [page |-> [sp.page EXCEPT ![pg] = bs], left |-> sp.left]

LEMMA WithPageFacts ==
  ASSUME NEW sp \in Space, NEW pg \in UserWindow, NEW bs \in Bytes
  PROVE  /\ WithPage(sp, pg, bs) \in Space
         /\ WithPage(sp, pg, bs).page[pg] = bs
         /\ \A q \in UserWindow : q # pg => WithPage(sp, pg, bs).page[q] = sp.page[q]
         /\ WithPage(sp, pg, bs).left = sp.left
BY DEF Space, WithPage

LEMMA WithPageTwice ==
  ASSUME NEW sp \in Space, NEW pg \in UserWindow, NEW bs, NEW cs
  PROVE  WithPage(WithPage(sp, pg, bs), pg, cs) = WithPage(sp, pg, cs)
BY DEF WithPage, Space

LEMMA WithPageSame ==
  ASSUME NEW sp \in Space, NEW pg \in UserWindow
  PROVE  WithPage(sp, pg, sp.page[pg]) = sp
BY DEF WithPage, Space

LEMMA BytesArePresent == \A bs \in Bytes : bs # Absent
<1> SUFFICES ASSUME NEW bs \in Bytes, bs = <<>> PROVE FALSE
  BY DEF Absent
<1>1. DOMAIN bs = 0 .. P - 1 /\ 0 \in 0 .. P - 1
  BY LayoutFacts DEF Bytes, P
<1>2. DOMAIN bs = {}
  OBVIOUS
<1> QED
  BY <1>1, <1>2

LEMMA SetByteIs ==
  ASSUME NEW sp \in Space, NEW pg \in UserWindow, sp.page[pg] \in Bytes,
         NEW j \in 0 .. P - 1, NEW b
  PROVE  SetByte(sp, uint32(Place32(pg, j)), b) = WithPage(sp, pg, [sp.page[pg] EXCEPT ![j] = b])
<1> DEFINE va == uint32(Place32(pg, j))
<1>1. PageOf(va) = pg /\ va % PAGESIZE = j
  BY UserPageFacts DEF P
<1>2. Present(sp, pg)
  BY BytesArePresent DEF Present
<1> HIDE DEF va
<1>3. SetByte(sp, va, b) = [sp EXCEPT !.page[pg][j] = b]
  BY <1>1, <1>2 DEF SetByte
<1>4. [sp EXCEPT !.page[pg][j] = b] = WithPage(sp, pg, [sp.page[pg] EXCEPT ![j] = b])
  BY DEF WithPage, Space
<1> QED
  BY <1>3, <1>4 DEF va
-----------------------------------------------------------------------------
(***************************************************************************)
(* A page written from its beginning.                                      *)
(***************************************************************************)
Overlay(bs, bytes, k) == [j \in 0 .. P - 1 |-> IF j < k THEN bytes[j + 1] ELSE bs[j]]

LEMMA OverlayType ==
  ASSUME NEW bs \in Bytes, NEW n \in Nat, NEW bytes \in Seq(Byte), n <= Len(bytes)
  PROVE  Overlay(bs, bytes, n) \in Bytes
<1>1. ASSUME NEW j \in 0 .. P - 1 PROVE (IF j < n THEN bytes[j + 1] ELSE bs[j]) \in Byte
  <2>1. bs[j] \in Byte
    BY DEF Bytes, P
  <2>2. j < n => j + 1 \in 1 .. Len(bytes)
    BY LayoutFacts
  <2> QED
    BY <2>1, <2>2
<1> QED
  BY <1>1 DEF Overlay, Bytes, P

LEMMA OverlayNext ==
  ASSUME NEW bs \in Bytes, NEW bytes, NEW k \in 0 .. P - 1
  PROVE  [Overlay(bs, bytes, k) EXCEPT ![k] = bytes[k + 1]] = Overlay(bs, bytes, k + 1)
<1>1. \A j \in 0 .. P - 1 : (j < k + 1 <=> j < k \/ j = k) /\ ~ (j = k /\ j < k)
  BY LayoutFacts
<1> QED
  BY <1>1 DEF Overlay

LEMMA WrittenIs ==
  ASSUME NEW sp \in Space, NEW pg \in UserWindow, sp.page[pg] \in Bytes,
         NEW n \in Nat, n <= P, NEW bytes \in Seq(Byte), Len(bytes) = n
  PROVE  Written(sp, pg * P, bytes) = WithPage(sp, pg, Overlay(sp.page[pg], bytes, n))
<1> DEFINE va == pg * P
           bs == sp.page[pg]
           to(k) == WithPage(sp, pg, Overlay(bs, bytes, k))
<1>1. PICK w : /\ w[0] = sp /\ Written(sp, va, bytes) = w[n]
               /\ \A k \in 1 .. n : w[k] = SetByte(w[k - 1], uint32(va + k - 1), bytes[k])
  <2> HIDE DEF va
  <2> QED
    BY WrittenUnfolds
<1> DEFINE G == {k \in Nat : k <= n => w[k] = to(k)}
<1>2. 0 \in G
  <2>1. \A j \in 0 .. P - 1 : ~ (j < 0)
    BY LayoutFacts
  <2>2. Overlay(bs, bytes, 0) = [j \in 0 .. P - 1 |-> bs[j]]
    BY <2>1 DEF Overlay
  <2>3. Overlay(bs, bytes, 0) = bs
    BY <2>2 DEF Bytes, P
  <2>4. to(0) = sp
    BY <2>3, WithPageSame
  <2> HIDE DEF to
  <2> QED
    BY <2>4, <1>1
<1>3. ASSUME NEW k \in Nat, k \in G PROVE k + 1 \in G
  <2> SUFFICES ASSUME k + 1 <= n PROVE w[k + 1] = to(k + 1)
    OBVIOUS
  <2> DEFINE over == Overlay(bs, bytes, k)
  <2>1. w[k] = WithPage(sp, pg, over) /\ k \in 0 .. P - 1
    BY <1>3, LayoutFacts
  <2>2. over \in Bytes
    BY OverlayType
  <2> HIDE DEF over
  <2>3. w[k] \in Space /\ w[k].page[pg] = over
    BY <2>1, <2>2, WithPageFacts
  <2>4. w[k + 1] = SetByte(w[k], uint32(Place32(pg, k)), bytes[k + 1])
    <3>1. k + 1 \in 1 .. n /\ (k + 1) - 1 = k
      OBVIOUS
    <3>2. va \in Nat
      BY UserPageFacts
    <3> HIDE DEF va
    <3>3. va + (k + 1) - 1 = va + k
      BY <3>2
    <3>4. w[k + 1] = SetByte(w[(k + 1) - 1], uint32(va + (k + 1) - 1), bytes[k + 1])
      BY <3>1, <1>1
    <3> QED
      BY <3>1, <3>3, <3>4 DEF Place32, va
  <2>5. w[k].page[pg] \in Bytes
    BY <2>2, <2>3
  <2> DEFINE v == w[k]
             b == bytes[k + 1]
             c == [over EXCEPT ![k] = b]
  <2> HIDE DEF v, b
  <2>6. SetByte(v, uint32(Place32(pg, k)), b) = WithPage(v, pg, [v.page[pg] EXCEPT ![k] = b])
    BY <2>1, <2>3, <2>5, SetByteIs DEF v
  <2>7. v.page[pg] = over
    BY <2>3 DEF v
  <2> HIDE DEF c
  <2>8. w[k + 1] = WithPage(v, pg, c)
    BY <2>4, <2>6, <2>7 DEF v, b, c
  <2>9. v = WithPage(sp, pg, over)
    BY <2>1 DEF v
  <2>10. w[k + 1] = WithPage(sp, pg, c)
    BY <2>8, <2>9, WithPageTwice
  <2>11. c = Overlay(bs, bytes, k + 1)
    BY <2>1, OverlayNext DEF c, b, over
  <2> QED
    BY <2>10, <2>11
<1>4. n \in G
  <2> HIDE DEF G
  <2> QED
    BY <1>2, <1>3, NatSetInduction
<1> QED
  BY <1>1, <1>4

\* A range in a page that is there leaves the space alone.
LEMMA TouchAllIs ==
  ASSUME NEW sp \in Space, NEW pg \in UserWindow, sp.page[pg] \in Bytes, NEW n \in 1 .. P
  PROVE  TouchAll(sp, pg * P, n) = sp
<1> DEFINE va == pg * P
           q == PagesOf(va, n)
<1>1. PageOf(va) = pg /\ PageOf(va + n - 1) = pg /\ uint32(va) = va /\ pg \in Nat /\ va \in Nat
  <2>1. 0 \in 0 .. P - 1 /\ n - 1 \in 0 .. P - 1
    BY LayoutFacts
  <2>2. va \in Nat /\ Place32(pg, 0) = va /\ Place32(pg, n - 1) = va + n - 1
    BY UserPageFacts DEF Place32
  <2> QED
    BY <2>1, <2>2, UserPageFacts
<1>2. DOMAIN q = {1} /\ q[1] = pg
  <2>1. n # 0 /\ PageOf(va + n - 1) - PageOf(va) + 1 = 1 /\ PageOf(va) + 1 - 1 = pg
    BY <1>1
  <2>2. q = [k \in 1 .. 1 |-> PageOf(uint32((PageOf(va) + k - 1) * PAGESIZE))]
    BY <2>1 DEF PagesOf
  <2> HIDE DEF q
  <2>3. DOMAIN q = {1} /\ q[1] = PageOf(uint32((PageOf(va) + 1 - 1) * PAGESIZE))
    BY <2>2
  <2> QED
    BY <2>1, <2>3, <1>1 DEF P
<1>3. Touch(sp, pg) = sp
  BY BytesArePresent DEF Touch, Present
<1>4. PICK w : TouchRun(sp, va, n, 1, w)
  <2>1. DOMAIN PagesOf(va, n) = 1 .. 1
    BY <1>2
  <2> HIDE DEF va, q
  <2> QED
    BY <2>1, TouchUnfolds
<1> HIDE DEF va
<1>5. w[1] = Touch(w[0], q[1]) /\ w[0] = sp /\ TouchAll(sp, va, n) = w[1]
  <2>1. 1 \in 1 .. 1 /\ 1 - 1 = 0
    OBVIOUS
  <2> QED
    BY <2>1, <1>4 DEF TouchRun, q
<1> QED
  BY <1>2, <1>3, <1>5 DEF va

LEMMA CopyOutIs ==
  ASSUME NEW sp \in Space, NEW pg \in UserWindow, sp.page[pg] \in Bytes, NEW n \in 1 .. P,
         NEW bytes \in Seq(Byte), Len(bytes) = n
  PROVE  PTCopyOut(sp, bytes, pg * P) = WithPage(sp, pg, Overlay(sp.page[pg], bytes, n))
<1> DEFINE va == pg * P
<1>1. InRange(va, n)
  <2>1. va \in Nat /\ MEM_USERLO <= va /\ va + P <= MEM_USERHI /\ va + P < WORD
    BY UserPageFacts
  <2> HIDE DEF va
  <2>2. va + n \in Nat /\ va + n < WORD /\ va + n <= MEM_USERHI
    BY <2>1, LayoutFacts
  <2> QED
    BY <2>1, <2>2, LayoutFacts DEF InRange
<1>2. TouchAll(sp, va, n) = sp
  BY TouchAllIs
<1>3. n \in Nat /\ n <= P
  BY LayoutFacts
<1>4. Written(sp, va, bytes) = WithPage(sp, pg, Overlay(sp.page[pg], bytes, n))
  BY <1>3, WrittenIs
<1> QED
  BY <1>1, <1>2, <1>4 DEF PTCopyOut

Zeros == [j \in 0 .. P - 1 |-> ZERO]

LEMMA MemSetIs ==
  ASSUME NEW sp \in Space, NEW pg \in UserWindow, sp.page[pg] \in Bytes
  PROVE  PTMemSet(sp, pg * P, ZERO, PAGESIZE) = WithPage(sp, pg, Zeros)
<1> DEFINE bytes == [i \in 1 .. P |-> ZERO]
<1>1. P \in Nat /\ P <= P /\ P \in 1 .. P /\ ZERO \in Byte
  BY LayoutFacts DEF Byte
<1>2. bytes \in Seq(Byte) /\ Len(bytes) = P
  BY <1>1
<1>3. \A j \in 0 .. P - 1 : j < P /\ bytes[j + 1] = ZERO
  BY <1>1
<1> HIDE DEF bytes
<1>4. TouchAll(sp, pg * P, P) = sp
  BY <1>1, TouchAllIs
<1>5. Written(sp, pg * P, bytes) = WithPage(sp, pg, Overlay(sp.page[pg], bytes, P))
  BY <1>1, <1>2, WrittenIs
<1>6. Overlay(sp.page[pg], bytes, P) = Zeros
  BY <1>3 DEF Overlay, Zeros
<1> QED
  BY <1>4, <1>5, <1>6 DEF PTMemSet, P, bytes
-----------------------------------------------------------------------------
(***************************************************************************)
(* The pages of a segment, and what ELFLoad puts in one.                   *)
(***************************************************************************)
LEMMA PageDigits ==
  ASSUME NEW a \in Nat
  PROVE  /\ PageOf(a) \in Nat /\ PageOf(a) * P \in Nat /\ a % P \in 0 .. P - 1
         /\ a = PageOf(a) * P + (a % P)
         /\ PageOf(a) * P <= a /\ a < PageOf(a) * P + P
         /\ RoundDown(a, P) = PageOf(a) * P
<1> DEFINE q == a \div P
           m == a % P
<1>1. P \in Nat /\ P > 1
  BY LayoutFacts
<1>2. q \in Nat /\ m \in Nat /\ m < P /\ a = P * q + m /\ P * q = q * P
  BY <1>1
<1> HIDE DEF q, m
<1>3. q * P \in Nat
  BY <1>1, <1>2
<1>4. PageOf(a) = q /\ a % P = m
  BY DEF PageOf, q, m, P
<1>5. RoundDown(a, P) = a - m
  BY DEF RoundDown, m
<1> DEFINE z == q * P
<1>6. a = z + m /\ z \in Nat
  BY <1>2, <1>3
<1> HIDE DEF z
<1>7. a - m = z /\ z <= a /\ a < z + P
  BY <1>1, <1>2, <1>6
<1>8. m \in 0 .. P - 1
  BY <1>1, <1>2
<1>9. PageOf(a) * P = z
  BY <1>4 DEF z
<1>10. RoundDown(a, P) = PageOf(a) * P
  BY <1>5, <1>7, <1>9
<1> QED
  BY <1>2, <1>4, <1>6, <1>7, <1>8, <1>9, <1>10

\* A smaller number is on a smaller page.
LEMMA PageLess ==
  ASSUME NEW p \in Nat, NEW q \in Nat, p * P < q * P + P
  PROVE  p <= q
<1> SUFFICES ASSUME q + 1 <= p PROVE FALSE
  OBVIOUS
<1>1. P \in Nat
  BY LayoutFacts
<1>2. (q + 1) * P <= p * P
  BY <1>1, MulMono
<1>3. (q + 1) * P = q * P + P /\ q * P \in Nat /\ p * P \in Nat
  BY <1>1
<1> QED
  BY <1>1, <1>2, <1>3

SegmentOk(ph) ==
  /\ ph \in ProgramHeader /\ ph.type = "LOAD"
  /\ ph.offset % P = ph.va % P
  /\ ph.filesz <= ph.memsz
  /\ MEM_USERLO <= ph.va /\ ph.va + ph.memsz <= MEM_USERHI

LEMMA SegmentFacts ==
  ASSUME NEW ph, SegmentOk(ph)
  PROVE  /\ AllPages(ph) = {SegmentPages(ph)[k] : k \in DOMAIN SegmentPages(ph)}
         /\ AllPages(ph) \subseteq UserWindow
         /\ \A pg \in AllPages(ph) : PageOf(ph.va) <= pg
         /\ \A i \in 0 .. ph.memsz - 1 : PageOf(ph.va + i) \in AllPages(ph)
         /\ SegmentPages(ph) \in Seq(UserWindow)
<1> DEFINE v == ph.va
           x == ph.va + ph.memsz
           lo == PageOf(v)
           hi == PageOf(x + P - 1)
<1>1. /\ v \in Nat /\ ph.memsz \in Nat /\ x \in Nat /\ MEM_USERLO <= v /\ x <= MEM_USERHI
      /\ v <= x /\ ph.type = "LOAD"
  BY DEF SegmentOk, ProgramHeader
<1>2. /\ P \in Nat /\ P > 1 /\ MEM_USERHI + P <= WORD /\ WORD \in Nat
      /\ MEM_USERLO = MEM_USERLO_PI * P /\ MEM_USERHI = MEM_USERHI_PI * P
      /\ MEM_USERLO_PI \in Nat /\ MEM_USERHI_PI \in Nat /\ MEM_USERHI \in Nat
  BY LayoutFacts
<1> DEFINE y == x + P - 1
<1>3. y \in Nat /\ y < WORD /\ y <= MEM_USERHI + P - 1
  BY <1>1, <1>2
<1> HIDE DEF v, x, y
<1>4. /\ lo \in Nat /\ lo * P \in Nat /\ lo * P <= v /\ v < lo * P + P
      /\ RoundDown(v, P) = lo * P
  BY <1>1, PageDigits
<1>5. /\ PageOf(y) \in Nat /\ PageOf(y) * P \in Nat /\ PageOf(y) * P <= y /\ y < PageOf(y) * P + P
      /\ RoundDown(y, P) = PageOf(y) * P
  BY <1>3, PageDigits
<1>6. hi = PageOf(y)
  BY DEF y
<1> HIDE DEF lo, hi
<1>7. RoundUp(x, P) = hi * P
  <2>1. uint32(y) = y
    BY <1>3, LayoutFacts
  <2> QED
    BY <2>1, <1>5, <1>6 DEF RoundUp, y
<1>8. PageOf(lo * P) = lo /\ PageOf(hi * P) = hi
  <2>1. 0 \in 0 .. P - 1
    BY <1>2
  <2>2. \A n \in Nat : (n * P + 0) \div P = n
    BY <2>1, <1>2, Digit2
  <2>3. lo \in Nat /\ hi \in Nat /\ lo * P + 0 = lo * P /\ hi * P + 0 = hi * P
    BY <1>4, <1>5, <1>6
  <2>4. (lo * P) \div P = lo /\ (hi * P) \div P = hi
    BY <2>2, <2>3
  <2> QED
    BY <2>4 DEF PageOf, P
<1>9. SegmentPages(ph) = IF lo * P < hi * P THEN [k \in 1 .. hi - lo |-> lo + k - 1] ELSE <<>>
  <2>1. RoundDown(ph.va, PAGESIZE) = lo * P /\ RoundUp(ph.va + ph.memsz, PAGESIZE) = hi * P
    BY <1>4, <1>7 DEF P, v, x
  <2> QED
    BY <2>1, <1>1, <1>8 DEF SegmentPages
<1>10. MEM_USERLO_PI <= lo
  <2>1. MEM_USERLO_PI * P < lo * P + P
    BY <1>1, <1>2, <1>4
  <2> QED
    BY <2>1, <1>2, <1>4, PageLess
<1>11. hi <= MEM_USERHI_PI
  <2>1. hi * P < MEM_USERHI_PI * P + P
    BY <1>2, <1>3, <1>5, <1>6
  <2> QED
    BY <2>1, <1>2, <1>5, <1>6, PageLess
<1>12. lo * P < hi * P <=> lo < hi
  <2>1. lo < hi => lo * P < hi * P
    <3> SUFFICES ASSUME lo + 1 <= hi PROVE lo * P < hi * P
      BY <1>4, <1>5, <1>6
    <3>1. (lo + 1) * P <= hi * P /\ (lo + 1) * P = lo * P + P
      BY <1>2, <1>4, <1>5, <1>6, MulMono
    <3> QED
      BY <3>1, <1>2, <1>4, <1>5, <1>6
  <2>2. hi <= lo => hi * P <= lo * P
    BY <1>2, <1>4, <1>5, <1>6, MulMono
  <2> QED
    BY <2>1, <2>2, <1>4, <1>5, <1>6
<1>13. AllPages(ph) = lo .. hi - 1
  <2>1. CASE lo < hi
    <3>1. SegmentPages(ph) = [k \in 1 .. hi - lo |-> lo + k - 1]
      BY <1>9, <1>12, <2>1
    <3>2. \A pg \in lo .. hi - 1 : pg - lo + 1 \in 1 .. hi - lo /\ lo + (pg - lo + 1) - 1 = pg
      BY <1>4, <1>5, <1>6
    <3>3. \A k \in 1 .. hi - lo : lo + k - 1 \in lo .. hi - 1
      BY <1>4, <1>5, <1>6
    <3>4. AllPages(ph) = {lo + k - 1 : k \in 1 .. hi - lo}
      BY <3>1 DEF AllPages
    <3> QED
      BY <3>2, <3>3, <3>4
  <2>2. CASE ~ (lo < hi)
    <3>1. SegmentPages(ph) = <<>> /\ lo .. hi - 1 = {}
      BY <1>9, <1>12, <2>2, <1>4, <1>5, <1>6
    <3> QED
      BY <3>1 DEF AllPages
  <2> QED
    BY <2>1, <2>2
<1>14. AllPages(ph) \subseteq UserWindow
  BY <1>2, <1>4, <1>5, <1>6, <1>10, <1>11, <1>13 DEF UserWindow
<1>15. ASSUME NEW i \in 0 .. ph.memsz - 1
       PROVE  PageOf(ph.va + i) \in AllPages(ph)
  <2> DEFINE a == ph.va + i
  <2>1. a \in Nat /\ v <= a /\ a + P <= y
    BY <1>1, <1>2 DEF v, x, y
  <2> HIDE DEF a
  <2>2. PageOf(a) \in Nat /\ PageOf(a) * P \in Nat /\ PageOf(a) * P <= a /\ a < PageOf(a) * P + P
    BY <2>1, PageDigits
  <2>3. lo * P < PageOf(a) * P + P
    BY <2>1, <2>2, <1>1, <1>2, <1>4
  <2>4. lo <= PageOf(a)
    BY <2>2, <2>3, <1>4, PageLess
  <2>5. (PageOf(a) + 1) * P = PageOf(a) * P + P
    BY <2>2, <1>2
  <2>6. (PageOf(a) + 1) * P < hi * P + P
    BY <2>1, <2>2, <2>5, <1>2, <1>3, <1>5, <1>6
  <2>7. PageOf(a) + 1 <= hi
    BY <2>2, <2>6, <1>5, <1>6, PageLess
  <2> QED
    BY <2>2, <2>4, <2>7, <1>4, <1>5, <1>6, <1>13 DEF a
<1>16. SegmentPages(ph) \in Seq(UserWindow)
  <2>1. CASE lo < hi
    <3>1. SegmentPages(ph) = [k \in 1 .. hi - lo |-> lo + k - 1] /\ hi - lo \in Nat
      BY <1>9, <1>12, <2>1, <1>4, <1>5, <1>6
    <3>2. \A k \in 1 .. hi - lo : lo + k - 1 \in UserWindow
      BY <1>4, <1>5, <1>6, <1>13, <1>14
    <3> QED
      BY <3>1, <3>2
  <2>2. CASE ~ (lo < hi)
    BY <2>2, <1>9, <1>12
  <2> QED
    BY <2>1, <2>2
<1>17. \A pg \in AllPages(ph) : PageOf(ph.va) <= pg
  BY <1>13, <1>4 DEF lo, v
<1> QED
  BY <1>14, <1>15, <1>16, <1>17 DEF AllPages

\* What ELFLoad leaves in page pg of a segment.
Filled(ph, pg) ==
  [j \in 0 .. P - 1 |->
     IF Place32(pg, j) < ph.va + ph.filesz /\ ph.filesz # 0
     THEN ph.offset + (Place32(pg, j) - ph.va) ELSE ZERO]

LEMMA FillPageIs ==
  ASSUME NEW ph, SegmentOk(ph), NEW pg \in AllPages(ph),
         NEW sp \in Space, sp.page[pg] \in Bytes
  PROVE  /\ FillPage(sp, ph, pg) = WithPage(sp, pg, Filled(ph, pg))
         /\ Filled(ph, pg) \in Bytes
<1> DEFINE va == pg * P
           v == ph.va
           z == ph.va + ph.filesz
           fa == RoundDown(ph.offset, PAGESIZE) + va - RoundDown(ph.va, PAGESIZE)
           base == PageOf(v) * P
           o == ph.offset
           filled == Filled(ph, pg)
<1>1. pg \in UserWindow /\ PageOf(v) <= pg
  BY SegmentFacts
<1>2. /\ v \in Nat /\ o \in Nat /\ ph.filesz \in Nat /\ ph.memsz \in Nat
      /\ ph.offset % P = ph.va % P /\ ph.filesz <= ph.memsz /\ v + ph.memsz <= MEM_USERHI
  BY DEF SegmentOk, ProgramHeader
<1>3. pg \in Nat /\ va \in Nat /\ MEM_USERLO <= va /\ va + P <= MEM_USERHI
  BY <1>1, UserPageFacts
<1>4. /\ P \in Nat /\ P > 1 /\ MEM_USERHI + P <= WORD /\ WORD \in Nat /\ MEM_USERHI \in Nat
  BY LayoutFacts
<1>5. /\ PageOf(v) \in Nat /\ base \in Nat /\ base <= v /\ v < base + P
      /\ RoundDown(v, P) = base /\ v % P \in 0 .. P - 1 /\ v = base + (v % P)
  BY <1>2, PageDigits
<1>6. base <= va
  BY <1>1, <1>3, <1>4, <1>5, MulMono
<1>7. z \in Nat /\ z <= MEM_USERHI /\ v <= z /\ uint32(ph.va + ph.filesz) = z /\ (ph.filesz = 0 <=> z = v)
  <2>1. z \in Nat /\ z <= MEM_USERHI /\ v <= z /\ z < WORD /\ (ph.filesz = 0 <=> z = v)
    BY <1>2, <1>4
  <2> QED
    BY <2>1, LayoutFacts
<1>8. /\ PageOf(o) * P \in Nat /\ o = PageOf(o) * P + (v % P)
      /\ RoundDown(o, P) = PageOf(o) * P
  BY <1>2, PageDigits
<1>9. fa = o + va - v /\ fa \in Nat
  <2> DEFINE m == v % P
             ob == PageOf(o) * P
  <2>1. m \in Nat /\ v = base + m /\ o = ob + m /\ ob \in Nat /\ base \in Nat /\ base <= va
    BY <1>4, <1>5, <1>6, <1>8
  <2>2. fa = ob + va - base
    BY <1>5, <1>8 DEF P
  <2> HIDE DEF m, ob, base, fa, va, v, o
  <2>3. va \in Nat
    BY <1>3
  <2> QED
    BY <2>1, <2>2, <2>3
<1>10. z < WORD
  BY <1>4, <1>7
<1> DEFINE rz == RoundDown(z, P)
<1>11. rz \in Nat /\ rz <= z /\ z < rz + P /\ PageOf(z) \in Nat /\ rz = PageOf(z) * P
  BY <1>7, PageDigits
<1>12. va < rz => va + P <= rz
  <2> SUFFICES ASSUME va < rz PROVE va + P <= rz
    OBVIOUS
  <2>1. ~ (PageOf(z) <= pg)
    <3> SUFFICES ASSUME PageOf(z) <= pg PROVE FALSE
      OBVIOUS
    <3>1. PageOf(z) * P <= pg * P
      BY <1>3, <1>4, <1>11, MulMono
    <3> QED
      BY <3>1, <1>3, <1>11
  <2>2. (pg + 1) * P <= PageOf(z) * P
    BY <2>1, <1>3, <1>4, <1>11, MulMono
  <2>3. (pg + 1) * P = va + P
    BY <1>3, <1>4
  <2> QED
    BY <2>2, <2>3, <1>11
<1>13. ASSUME NEW j \in 0 .. P - 1
       PROVE  /\ j \in Nat /\ j < P /\ Place32(pg, j) = va + j
              /\ filled[j] = IF va + j < z /\ z # v THEN fa + j ELSE ZERO
  <2>1. j \in Nat /\ j < P
    BY <1>4
  <2>2. Place32(pg, j) = va + j
    BY DEF Place32
  <2>3. filled[j] = IF va + j < z /\ z # v THEN o + (va + j - v) ELSE ZERO
    <3>1. filled[j] = IF Place32(pg, j) < z /\ ph.filesz # 0
                      THEN o + (Place32(pg, j) - v) ELSE ZERO
      BY DEF Filled
    <3> HIDE DEF va, v, o, fa, z, filled
    <3>2. CASE ph.filesz = 0
      BY <3>1, <3>2, <1>7
    <3>3. CASE ph.filesz # 0
      <4>1. z # v
        BY <3>3, <1>7
      <4> QED
        BY <3>1, <3>3, <4>1, <2>1, <2>2, <1>2, <1>3, <1>7
    <3> QED
      BY <3>2, <3>3
  <2> HIDE DEF va, v, o, fa, z, filled
  <2>4. o + (va + j - v) = fa + j
    BY <2>1, <1>2, <1>3, <1>9
  <2> QED
    BY <2>1, <2>2, <2>3, <2>4
<1>14. filled \in Bytes
  <2> HIDE DEF va, v, o, fa, z
  <2>1. \A j \in 0 .. P - 1 : filled[j] \in Byte
    BY <1>9, <1>13, <1>4 DEF Byte
  <2>2. filled = [j \in 0 .. P - 1 |-> filled[j]]
    BY DEF Filled
  <2> HIDE DEF filled
  <2> QED
    BY <2>1, <2>2 DEF Bytes, P
<1>15. ASSUME NEW n \in 1 .. P
       PROVE  /\ FileBytes(fa, n) \in Seq(Byte) /\ Len(FileBytes(fa, n)) = n
              /\ \A j \in 0 .. P - 1 : j < n => FileBytes(fa, n)[j + 1] = fa + j
  <2> HIDE DEF fa
  <2>1. \A i \in 1 .. n : fa + i - 1 \in Byte
    BY <1>9, <1>4 DEF Byte
  <2>2. n \in Nat
    BY <1>4
  <2>3. FileBytes(fa, n) \in Seq(Byte) /\ Len(FileBytes(fa, n)) = n
    BY <2>1, <2>2 DEF FileBytes
  <2>4. ASSUME NEW j \in 0 .. P - 1, j < n PROVE FileBytes(fa, n)[j + 1] = fa + j
    <3>1. j + 1 \in 1 .. n /\ fa + (j + 1) - 1 = fa + j
      BY <2>4, <1>4, <1>9
    <3> QED
      BY <3>1 DEF FileBytes
  <2> QED
    BY <2>3, <2>4
<1> HIDE DEF fa, va, v, z, rz, o, base, filled
<1>16. FillPage(sp, ph, pg) =
         IF va < rz THEN PTCopyOut(sp, FileBytes(fa, PAGESIZE), va)
         ELSE IF va < z /\ ph.filesz # 0
              THEN PTCopyOut(PTMemSet(sp, va, ZERO, PAGESIZE), FileBytes(fa, z - va), va)
         ELSE PTMemSet(sp, va, ZERO, PAGESIZE)
  BY <1>7 DEF FillPage, fa, va, rz, P
<1>17. ASSUME NEW bs \in Bytes, NEW s \in Space, NEW n \in 1 .. P, s.page[pg] = bs
       PROVE  PTCopyOut(s, FileBytes(fa, n), va) = WithPage(s, pg, Overlay(bs, FileBytes(fa, n), n))
  <2> DEFINE bytes == FileBytes(fa, n)
  <2>1. bytes \in Seq(Byte) /\ Len(bytes) = n
    BY <1>15
  <2>2. s.page[pg] \in Bytes
    BY <1>17
  <2> HIDE DEF bytes
  <2>3. PTCopyOut(s, bytes, pg * P) = WithPage(s, pg, Overlay(s.page[pg], bytes, n))
    BY <2>1, <2>2, <1>1, CopyOutIs
  <2> QED
    BY <2>3, <1>17 DEF bytes, va
<1>18. CASE va < rz
  <2>1. P \in 1 .. P
    BY <1>4
  <2>2. PTCopyOut(sp, FileBytes(fa, P), va) = WithPage(sp, pg, Overlay(sp.page[pg], FileBytes(fa, P), P))
    BY <2>1, <1>17
  <2>3. \A j \in 0 .. P - 1 : Overlay(sp.page[pg], FileBytes(fa, P), P)[j] = filled[j]
    <3> SUFFICES ASSUME NEW j \in 0 .. P - 1
                 PROVE  Overlay(sp.page[pg], FileBytes(fa, P), P)[j] = filled[j]
      OBVIOUS
    <3>1. va + j < z
      BY <1>12, <1>18, <1>11, <1>13, <1>3, <1>4, <1>7
    <3>2. z # v
      BY <1>18, <1>12, <1>11, <1>6, <1>5, <1>3, <1>4, <1>7
    <3>3. filled[j] = fa + j
      BY <3>1, <3>2, <1>13
    <3>4. Overlay(sp.page[pg], FileBytes(fa, P), P)[j] = FileBytes(fa, P)[j + 1]
      BY <1>13 DEF Overlay
    <3> QED
      BY <2>1, <3>3, <3>4, <1>13, <1>15
  <2>4. Overlay(sp.page[pg], FileBytes(fa, P), P) = filled
    BY <2>3 DEF Overlay, filled, Filled
  <2> QED
    BY <1>14, <1>16, <1>18, <2>2, <2>4 DEF P, filled
<1>19. PTMemSet(sp, va, ZERO, PAGESIZE) = WithPage(sp, pg, Zeros)
  BY <1>1, MemSetIs DEF va
<1>20. Zeros \in Bytes
  BY DEF Zeros, Bytes, Byte, P
<1>21. CASE ~ (va < rz) /\ va < z /\ ph.filesz # 0
  <2> DEFINE n == z - va
             s == WithPage(sp, pg, Zeros)
  <2>1. n \in 1 .. P
    BY <1>21, <1>3, <1>4, <1>7, <1>11
  <2>2. s \in Space /\ s.page[pg] = Zeros
    BY <1>1, <1>20, WithPageFacts
  <2> HIDE DEF n, s
  <2>3. PTCopyOut(s, FileBytes(fa, n), va) = WithPage(s, pg, Overlay(Zeros, FileBytes(fa, n), n))
    BY <2>1, <2>2, <1>17, <1>20
  <2>4. WithPage(s, pg, Overlay(Zeros, FileBytes(fa, n), n))
          = WithPage(sp, pg, Overlay(Zeros, FileBytes(fa, n), n))
    BY <1>1, WithPageTwice DEF s
  <2>5. \A j \in 0 .. P - 1 : Overlay(Zeros, FileBytes(fa, n), n)[j] = filled[j]
    <3> SUFFICES ASSUME NEW j \in 0 .. P - 1
                 PROVE  Overlay(Zeros, FileBytes(fa, n), n)[j] = filled[j]
      OBVIOUS
    <3>1. j < n <=> va + j < z
      BY <1>13, <1>3, <1>7 DEF n
    <3>2. z # v
      BY <1>7, <1>21
    <3>3. filled[j] = IF j < n THEN fa + j ELSE ZERO
      BY <3>1, <3>2, <1>13
    <3>4. Overlay(Zeros, FileBytes(fa, n), n)[j] = IF j < n THEN FileBytes(fa, n)[j + 1] ELSE Zeros[j]
      BY DEF Overlay
    <3>5. Zeros[j] = ZERO
      BY DEF Zeros
    <3> QED
      BY <2>1, <3>3, <3>4, <3>5, <1>15
  <2>6. Overlay(Zeros, FileBytes(fa, n), n) = filled
    BY <2>5 DEF Overlay, filled, Filled
  <2>7. FillPage(sp, ph, pg) = PTCopyOut(s, FileBytes(fa, n), va)
    BY <1>16, <1>19, <1>21 DEF s, n
  <2> QED
    BY <1>14, <2>3, <2>4, <2>6, <2>7 DEF filled
<1>22. CASE ~ (va < rz) /\ ~ (va < z /\ ph.filesz # 0)
  <2>1. \A j \in 0 .. P - 1 : filled[j] = ZERO
    BY <1>22, <1>13, <1>3, <1>7
  <2>2. filled = Zeros
    BY <2>1 DEF filled, Filled, Zeros
  <2> QED
    BY <1>14, <1>16, <1>19, <1>22, <2>2 DEF filled
<1> QED
  BY <1>18, <1>21, <1>22
-----------------------------------------------------------------------------
LEMMA AllocPageIs ==
  ASSUME NEW sp \in Space, NEW pg \in UserWindow, ~ AllocPage(sp, pg).err
  PROVE  /\ AllocPage(sp, pg).sp \in Space
         /\ AllocPage(sp, pg).sp.page[pg] \in Bytes
         /\ \A q \in UserWindow : q # pg => AllocPage(sp, pg).sp.page[q] = sp.page[q]
<1> DEFINE hasTable == \E q \in UserWindow : Present(sp, q) /\ q \div NUM_TABLES = pg \div NUM_TABLES
           stale == [i \in 0 .. PAGESIZE - 1 |-> STALE]
           left == sp.left - (IF hasTable THEN 1 ELSE 2)
           a == AllocPage(sp, pg)
<1>1. stale \in Bytes
  BY DEF Bytes, Byte
<1> HIDE DEF stale
<1>2. a = IF sp.left > (IF hasTable THEN 0 ELSE 1)
          THEN [err |-> FALSE, sp |-> [page |-> [sp.page EXCEPT ![pg] = stale], left |-> left]]
          ELSE [err |-> TRUE, sp |-> [sp EXCEPT !.left = 0]]
  BY DEF AllocPage, stale
<1> HIDE DEF hasTable, a
<1>3. ~ a.err
  BY DEF a
<1>4. sp.left > (IF hasTable THEN 0 ELSE 1)
  BY <1>2, <1>3
<1>5. left \in Nat
  <2>1. sp.left \in Nat
    BY DEF Space
  <2>2. CASE hasTable
    BY <2>1, <2>2, <1>4
  <2>3. CASE ~ hasTable
    BY <2>1, <2>3, <1>4
  <2> QED
    BY <2>2, <2>3
<1> HIDE DEF left
<1>6. a.sp = [page |-> [sp.page EXCEPT ![pg] = stale], left |-> left]
  BY <1>2, <1>4
<1>7. sp.page \in [UserWindow -> Bytes \cup {Absent}]
  BY DEF Space
<1> DEFINE pages == [sp.page EXCEPT ![pg] = stale]
<1>8. /\ pages \in [UserWindow -> Bytes \cup {Absent}] /\ pages[pg] = stale
      /\ \A q \in UserWindow : q # pg => pages[q] = sp.page[q]
  BY <1>1, <1>7
<1> HIDE DEF pages
<1>9. a.sp = [page |-> pages, left |-> left]
  BY <1>6 DEF pages
<1>10. a.sp \in Space
  BY <1>5, <1>8, <1>9 DEF Space
<1> QED
  BY <1>1, <1>8, <1>9, <1>10 DEF a

Flat(seqs, f, i) == IF i = 1 THEN seqs[i] ELSE f[i - 1] \o seqs[i]

LEMMA FlatExists ==
  ASSUME NEW n \in Nat, NEW seqs
  PROVE  \E f : f = [i \in 1 .. n |-> Flat(seqs, f, i)]
<1> DEFINE G == {k \in Nat : \E f : f = [i \in 1 .. k |-> Flat(seqs, f, i)]}
<1>1. 0 \in G
  <2> DEFINE f == [i \in 1 .. 0 |-> 0]
  <2>1. f = [i \in 1 .. 0 |-> Flat(seqs, f, i)]
    <3> HIDE DEF Flat
    <3> QED
      BY 1 .. 0 = {}
  <2> QED
    BY <2>1
<1>2. ASSUME NEW k \in Nat, k \in G PROVE k + 1 \in G
  <2>1. PICK f : f = [i \in 1 .. k |-> Flat(seqs, f, i)]
    BY <1>2
  <2> DEFINE h == [i \in 1 .. k + 1 |-> Flat(seqs, f, i)]
  <2>2. \A i \in 1 .. k : h[i] = f[i]
    <3> SUFFICES ASSUME NEW i \in 1 .. k PROVE h[i] = f[i]
      OBVIOUS
    <3>1. i \in 1 .. k + 1
      OBVIOUS
    <3>2. h[i] = Flat(seqs, f, i)
      BY <3>1
    <3>3. f[i] = Flat(seqs, f, i)
      <4> HIDE DEF Flat
      <4> QED
        BY <2>1
    <3> QED
      BY <3>2, <3>3
  <2>3. \A i \in 1 .. k + 1 : Flat(seqs, f, i) = Flat(seqs, h, i)
    <3> SUFFICES ASSUME NEW i \in 1 .. k + 1, i # 1 PROVE f[i - 1] = h[i - 1]
      BY DEF Flat
    <3>1. i - 1 \in 1 .. k
      OBVIOUS
    <3> QED
      BY <3>1, <2>2
  <2>4. h = [i \in 1 .. k + 1 |-> Flat(seqs, h, i)]
    BY <2>3
  <2> HIDE DEF h
  <2>5. \E g : g = [i \in 1 .. k + 1 |-> Flat(seqs, g, i)]
    BY <2>4, Zenon
  <2>6. k + 1 \in Nat
    OBVIOUS
  <2> QED
    BY <2>5, <2>6, Zenon
<1>3. n \in G
  <2> HIDE DEF G
  <2> QED
    BY <1>1, <1>2, NatSetInduction
<1> QED
  BY <1>3

LEMMA ConcatRange ==
  ASSUME NEW S, NEW s \in Seq(S), NEW t \in Seq(S)
  PROVE  s \o t \in Seq(S) /\ Range(s \o t) = Range(s) \cup Range(t)
<1>1. s \o t \in Seq(S) /\ Len(s \o t) = Len(s) + Len(t) /\ Len(s) \in Nat /\ Len(t) \in Nat
  OBVIOUS
<1>2. \A k \in 1 .. Len(s) + Len(t) :
        (s \o t)[k] = IF k <= Len(s) THEN s[k] ELSE t[k - Len(s)]
  OBVIOUS
<1>3. DOMAIN (s \o t) = 1 .. Len(s) + Len(t) /\ DOMAIN s = 1 .. Len(s) /\ DOMAIN t = 1 .. Len(t)
  BY <1>1
<1>4. ASSUME NEW x \in Range(s \o t) PROVE x \in Range(s) \cup Range(t)
  <2>1. PICK k \in 1 .. Len(s) + Len(t) : x = (s \o t)[k]
    BY <1>3 DEF Range
  <2>2. CASE k <= Len(s)
    BY <2>1, <2>2, <1>2, <1>3, <1>1 DEF Range
  <2>3. CASE ~ (k <= Len(s))
    <3>1. k - Len(s) \in 1 .. Len(t) /\ x = t[k - Len(s)]
      BY <2>1, <2>3, <1>2, <1>1
    <3> QED
      BY <3>1, <1>3 DEF Range
  <2> QED
    BY <2>2, <2>3
<1>5. ASSUME NEW x \in Range(s) PROVE x \in Range(s \o t)
  <2>1. PICK k \in 1 .. Len(s) : x = s[k]
    BY <1>3 DEF Range
  <2>2. k \in 1 .. Len(s) + Len(t) /\ k <= Len(s)
    BY <1>1
  <2> QED
    BY <2>1, <2>2, <1>2, <1>3 DEF Range
<1>6. ASSUME NEW x \in Range(t) PROVE x \in Range(s \o t)
  <2>1. PICK k \in 1 .. Len(t) : x = t[k]
    BY <1>3 DEF Range
  <2> DEFINE j == k + Len(s)
  <2>2. j \in 1 .. Len(s) + Len(t) /\ ~ (j <= Len(s)) /\ j - Len(s) = k
    BY <1>1
  <2> HIDE DEF j
  <2>3. (s \o t)[j] = t[k]
    BY <2>2, <1>2
  <2> QED
    BY <2>1, <2>2, <2>3, <1>3 DEF Range
<1> QED
  BY <1>1, <1>4, <1>5, <1>6

\* FlattenSeq has the elements of the sequences.
LEMMA FlattenFacts ==
  ASSUME NEW S, NEW seqs \in Seq(Seq(S))
  PROVE  /\ FlattenSeq(seqs) \in Seq(S)
         /\ Range(FlattenSeq(seqs)) = UNION {Range(seqs[h]) : h \in DOMAIN seqs}
<1> DEFINE n == Len(seqs)
           g == CHOOSE f : f = [i \in 1 .. n |-> Flat(seqs, f, i)]
           upTo(k) == UNION {Range(seqs[h]) : h \in 1 .. k}
<1>1. n \in Nat /\ DOMAIN seqs = 1 .. n /\ \A h \in 1 .. n : seqs[h] \in Seq(S)
  OBVIOUS
<1>2. CASE n = 0
  <2>1. FlattenSeq(seqs) = seqs /\ seqs = <<>>
    BY <1>2 DEF FlattenSeq
  <2> QED
    BY <2>1 DEF Range
<1>3. CASE n # 0
  <2>1. FlattenSeq(seqs) = g[n]
    BY <1>3 DEF FlattenSeq, Flat
  <2>2. g = [i \in 1 .. n |-> Flat(seqs, g, i)]
    <3> HIDE DEF n, Flat
    <3>1. \E f : f = [i \in 1 .. n |-> Flat(seqs, f, i)]
      BY <1>1, FlatExists
    <3> QED
      BY <3>1
  <2> HIDE DEF g, n
  <2>3. \A i \in 1 .. n : g[i] = Flat(seqs, g, i)
    <3> HIDE DEF Flat
    <3> QED
      BY <2>2
  <2> DEFINE G == {k \in Nat : k \in 1 .. n => g[k] \in Seq(S) /\ Range(g[k]) = upTo(k)}
  <2>4. 0 \in G
    OBVIOUS
  <2>5. ASSUME NEW k \in Nat, k \in G PROVE k + 1 \in G
    <3> SUFFICES ASSUME k + 1 \in 1 .. n
                 PROVE  g[k + 1] \in Seq(S) /\ Range(g[k + 1]) = upTo(k + 1)
      OBVIOUS
    <3>1. upTo(k + 1) = upTo(k) \cup Range(seqs[k + 1])
      <4>1. 1 .. k + 1 = (1 .. k) \cup {k + 1}
        OBVIOUS
      <4> QED
        BY <4>1
    <3>2. seqs[k + 1] \in Seq(S)
      BY <1>1
    <3>3. CASE k = 0
      <4>1. g[k + 1] = seqs[k + 1]
        BY <3>3, <2>3 DEF Flat
      <4>2. upTo(k) = {}
        BY <3>3
      <4> QED
        BY <4>1, <4>2, <3>1, <3>2
    <3>4. CASE k # 0
      <4>1. k \in 1 .. n /\ k + 1 # 1 /\ (k + 1) - 1 = k
        BY <3>4, <1>1
      <4>2. g[k + 1] = g[k] \o seqs[k + 1]
        BY <4>1, <2>3 DEF Flat
      <4>3. g[k] \in Seq(S) /\ Range(g[k]) = upTo(k)
        BY <4>1, <2>5
      <4> HIDE DEF upTo
      <4> DEFINE s == g[k]
                 t == seqs[k + 1]
      <4>4. s \in Seq(S) /\ t \in Seq(S)
        BY <4>3, <3>2
      <4> HIDE DEF s, t
      <4>5. s \o t \in Seq(S) /\ Range(s \o t) = Range(s) \cup Range(t)
        BY <4>4, ConcatRange
      <4>6. g[k + 1] = s \o t
        BY <4>2 DEF s, t
      <4>7. Range(s) = upTo(k) /\ upTo(k + 1) = upTo(k) \cup Range(t)
        BY <4>3, <3>1 DEF s, t
      <4> QED
        BY <4>5, <4>6, <4>7
    <3> QED
      BY <3>3, <3>4
  <2>6. n \in G
    <3> HIDE DEF G
    <3> QED
      BY <1>1, <2>4, <2>5, NatSetInduction
  <2>7. n \in 1 .. n
    BY <1>1, <1>3
  <2> QED
    BY <1>1, <2>1, <2>6, <2>7
<1> QED
  BY <1>2, <1>3
-----------------------------------------------------------------------------
\* The pages of an image, each with its segment.
Entries(img, h) ==
  [k \in DOMAIN SegmentPages(img[h]) |-> [ph |-> img[h], pg |-> SegmentPages(img[h])[k]]]
ImagePages(img) ==
  UNION {{[ph |-> img[h], pg |-> pg] : pg \in AllPages(img[h])} : h \in Loadable(img)}

\* Every page of the image is still to be loaded or has its bytes.
LoadInv ==
  phase = "loading" =>
    /\ image \in Images /\ space \in Space
    /\ load \in Seq(ImagePages(image))
    /\ \A h \in Loadable(image) : \A pg \in AllPages(image[h]) :
         \/ [ph |-> image[h], pg |-> pg] \in Range(load)
         \/ space.page[pg] = Filled(image[h], pg)

LEMMA ImageOk ==
  ASSUME NEW img \in Images, NEW h \in Loadable(img)
  PROVE  SegmentOk(img[h])
<1>1. img \in Seq(ProgramHeader) /\ h \in DOMAIN img /\ img[h].type = "LOAD"
  BY KernelAssumption DEF Loadable
<1>2. img[h] \in ProgramHeader
  BY <1>1
<1> QED
  BY <1>1, <1>2, KernelAssumption DEF SegmentOk, P

LEMMA SegmentsApart ==
  ASSUME NEW img \in Images, NEW g \in Loadable(img), NEW h \in Loadable(img),
         NEW pg \in AllPages(img[g]), pg \in AllPages(img[h])
  PROVE  g = h
<1>1. g # h => AllPages(img[h]) \cap AllPages(img[g]) = {}
  BY KernelAssumption
<1> QED
  BY <1>1

\* The pages MonitorUser has to load are those of the image.
LEMMA LoadFacts ==
  ASSUME NEW img \in Images
  PROVE  LET pages == FlattenSeq([h \in DOMAIN img |-> Entries(img, h)])
         IN pages \in Seq(ImagePages(img)) /\ Range(pages) = ImagePages(img)
<1> DEFINE seqs == [h \in DOMAIN img |-> Entries(img, h)]
<1>1. img \in Seq(ProgramHeader)
  BY KernelAssumption
<1>2. ASSUME NEW h \in DOMAIN img
      PROVE  /\ Entries(img, h) \in Seq(ImagePages(img))
             /\ h \in Loadable(img) =>
                  Range(Entries(img, h)) = {[ph |-> img[h], pg |-> pg] : pg \in AllPages(img[h])}
             /\ h \notin Loadable(img) => Range(Entries(img, h)) = {}
  <2>1. CASE h \in Loadable(img)
    <3> DEFINE sp == SegmentPages(img[h])
               E == {[ph |-> img[h], pg |-> pg] : pg \in AllPages(img[h])}
    <3>1. sp \in Seq(UserWindow) /\ AllPages(img[h]) = {sp[k] : k \in DOMAIN sp}
      BY <2>1, ImageOk, SegmentFacts
    <3>2. Entries(img, h) = [k \in DOMAIN sp |-> [ph |-> img[h], pg |-> sp[k]]]
      BY DEF Entries
    <3> HIDE DEF sp
    <3>3. DOMAIN sp = 1 .. Len(sp) /\ Len(sp) \in Nat
      BY <3>1
    <3>4. \A k \in 1 .. Len(sp) : [ph |-> img[h], pg |-> sp[k]] \in E
      BY <3>1, <3>3
    <3>5. Range(Entries(img, h)) = E
      BY <3>1, <3>2 DEF Range
    <3>6. E \subseteq ImagePages(img)
      BY <2>1 DEF ImagePages
    <3> HIDE DEF E
    <3>7. Entries(img, h) \in Seq(ImagePages(img))
      BY <3>2, <3>3, <3>4, <3>6
    <3> QED
      BY <2>1, <3>5, <3>7 DEF E
  <2>2. CASE h \notin Loadable(img)
    <3>1. img[h].type # "LOAD"
      BY <2>2 DEF Loadable
    <3>2. SegmentPages(img[h]) = <<>>
      BY <3>1 DEF SegmentPages
    <3>3. Entries(img, h) = <<>>
      BY <3>2 DEF Entries
    <3> QED
      BY <2>2, <3>3 DEF Range
  <2> QED
    BY <2>1, <2>2
<1>3. DOMAIN seqs = DOMAIN img /\ \A h \in DOMAIN img : seqs[h] = Entries(img, h)
  OBVIOUS
<1>4. seqs \in Seq(Seq(ImagePages(img)))
  <2>1. DOMAIN img = 1 .. Len(img) /\ Len(img) \in Nat
    BY <1>1
  <2>2. \A h \in 1 .. Len(img) : Entries(img, h) \in Seq(ImagePages(img))
    BY <1>2, <2>1
  <2>3. seqs = [h \in 1 .. Len(img) |-> Entries(img, h)]
    BY <2>1
  <2> HIDE DEF seqs
  <2> QED
    BY <2>1, <2>2, <2>3
<1>5. Loadable(img) \subseteq DOMAIN img
  BY DEF Loadable
<1>6. UNION {Range(seqs[h]) : h \in DOMAIN seqs} = ImagePages(img)
  <2>1. ASSUME NEW e \in UNION {Range(seqs[h]) : h \in DOMAIN seqs} PROVE e \in ImagePages(img)
    <3>1. PICK h \in DOMAIN img : e \in Range(Entries(img, h))
      BY <2>1, <1>3
    <3>2. h \in Loadable(img)
      BY <3>1, <1>2
    <3>3. e \in {[ph |-> img[h], pg |-> pg] : pg \in AllPages(img[h])}
      BY <3>1, <3>2, <1>2
    <3> QED
      BY <3>2, <3>3 DEF ImagePages
  <2>2. ASSUME NEW e \in ImagePages(img) PROVE e \in UNION {Range(seqs[h]) : h \in DOMAIN seqs}
    <3>1. PICK h \in Loadable(img) : e \in {[ph |-> img[h], pg |-> pg] : pg \in AllPages(img[h])}
      BY <2>2 DEF ImagePages
    <3>2. h \in DOMAIN img /\ e \in Range(Entries(img, h))
      BY <3>1, <1>2, <1>5
    <3> HIDE DEF seqs
    <3> QED
      BY <3>2, <1>3
  <2> QED
    BY <2>1, <2>2
<1> HIDE DEF seqs
<1>7. FlattenSeq(seqs) \in Seq(ImagePages(img)) /\ Range(FlattenSeq(seqs)) = ImagePages(img)
  BY <1>4, <1>6, FlattenFacts
<1> QED
  BY <1>7 DEF seqs

LEMMA HasPages ==
  \A img : \A h \in Loadable(img) : \A pg \in AllPages(img[h]) :
    [ph |-> img[h], pg |-> pg] \in ImagePages(img)
<1> SUFFICES ASSUME NEW img, NEW h \in Loadable(img), NEW pg \in AllPages(img[h])
             PROVE  [ph |-> img[h], pg |-> pg] \in ImagePages(img)
  OBVIOUS
<1>1. [ph |-> img[h], pg |-> pg] \in {[ph |-> img[h], pg |-> q] : q \in AllPages(img[h])}
  OBVIOUS
<1> QED
  BY <1>1 DEF ImagePages

LEMMA LoadStart == userPages \in Nat /\ MonitorUser => LoadInv'
<1> SUFFICES ASSUME userPages \in Nat, MonitorUser PROVE LoadInv'
  OBVIOUS
<1>1. image' \in Images
  BY DEF MonitorUser
<1>2. load' = FlattenSeq([h \in DOMAIN image' |-> Entries(image', h)])
  BY DEF MonitorUser, Entries
<1>3. load' \in Seq(ImagePages(image')) /\ Range(load') = ImagePages(image')
  BY <1>1, <1>2, LoadFacts
<1>4. space' \in Space
  <2>1. (IF USER_QUOTA < userPages THEN USER_QUOTA ELSE userPages) \in Nat
    BY KernelAssumption
  <2> QED
    BY <2>1 DEF MonitorUser, NewSpace, Space
<1>5. \A h \in Loadable(image') : \A pg \in AllPages(image'[h]) :
        [ph |-> image'[h], pg |-> pg] \in Range(load')
  BY <1>3, HasPages
<1> QED
  BY <1>1, <1>3, <1>4, <1>5 DEF LoadInv

LEMMA LoadStep == LoadInv /\ LoadPage => LoadInv'
<1> SUFFICES ASSUME LoadInv, LoadPage, phase' = "loading" PROVE LoadInv'
  BY DEF LoadInv
<1> DEFINE ph == Head(load).ph
           pg == Head(load).pg
           a == AllocPage(space, Head(load).pg)
           sp == AllocPage(space, Head(load).pg).sp
<1>1. /\ image \in Images /\ space \in Space /\ load \in Seq(ImagePages(image)) /\ load # <<>>
      /\ \A h \in Loadable(image) : \A q \in AllPages(image[h]) :
           \/ [ph |-> image[h], pg |-> q] \in Range(load)
           \/ space.page[q] = Filled(image[h], q)
  BY DEF LoadInv, LoadPage
<1>2. ~ a.err /\ space' = FillPage(sp, ph, pg) /\ load' = Tail(load) /\ image' = image
  BY DEF LoadPage
<1>3. Head(load) \in ImagePages(image) /\ Tail(load) \in Seq(ImagePages(image))
  BY <1>1
<1>4. PICK g \in Loadable(image) : ph = image[g] /\ pg \in AllPages(image[g])
                                   /\ Head(load) = [ph |-> image[g], pg |-> pg]
  BY <1>3 DEF ImagePages
<1>5. SegmentOk(image[g]) /\ pg \in UserWindow
  BY <1>1, <1>4, ImageOk, SegmentFacts
<1> HIDE DEF pg, ph
<1>6. a = AllocPage(space, pg) /\ sp = AllocPage(space, pg).sp
  BY DEF pg
<1> HIDE DEF a, sp
<1>7. /\ sp \in Space /\ sp.page[pg] \in Bytes
      /\ \A q \in UserWindow : q # pg => sp.page[q] = space.page[q]
  BY <1>1, <1>2, <1>5, <1>6, AllocPageIs
<1> DEFINE seg == image[g]
           filled == Filled(seg, pg)
<1> HIDE DEF seg, filled
<1>8. FillPage(sp, seg, pg) = WithPage(sp, pg, filled) /\ filled \in Bytes
  BY <1>4, <1>5, <1>7, FillPageIs DEF seg, filled
<1>9. space' = WithPage(sp, pg, filled)
  BY <1>2, <1>4, <1>8 DEF seg
<1>10. /\ space' \in Space /\ space'.page[pg] = filled
       /\ \A q \in UserWindow : q # pg => space'.page[q] = space.page[q]
  BY <1>5, <1>7, <1>8, <1>9, WithPageFacts
<1>11. Range(load) = {Head(load)} \cup Range(Tail(load))
  <2> DEFINE n == Len(load)
  <2>1. n \in Nat /\ n > 0 /\ DOMAIN load = 1 .. n /\ DOMAIN Tail(load) = 1 .. n - 1
        /\ Head(load) = load[1] /\ \A k \in 1 .. n - 1 : Tail(load)[k] = load[k + 1]
    BY <1>1
  <2> HIDE DEF n
  <2>2. ASSUME NEW x \in Range(load) PROVE x = Head(load) \/ x \in Range(Tail(load))
    <3>1. PICK k \in 1 .. n : x = load[k]
      BY <2>1 DEF Range
    <3>2. CASE k # 1
      <4>1. k - 1 \in 1 .. n - 1 /\ (k - 1) + 1 = k
        BY <2>1, <3>2
      <4>2. Tail(load)[k - 1] = load[(k - 1) + 1]
        BY <4>1, <2>1
      <4> QED
        BY <4>1, <4>2, <3>1, <2>1 DEF Range
    <3> QED
      BY <3>1, <3>2, <2>1
  <2>3. ASSUME NEW x \in Range(Tail(load)) PROVE x \in Range(load)
    <3>1. PICK k \in 1 .. n - 1 : x = load[k + 1]
      BY <2>1 DEF Range
    <3>2. k + 1 \in 1 .. n
      BY <2>1
    <3> QED
      BY <3>1, <3>2, <2>1 DEF Range
  <2>4. Head(load) \in Range(load)
    <3>1. 1 \in 1 .. n
      BY <2>1
    <3> QED
      BY <3>1, <2>1 DEF Range
  <2> QED
    BY <2>2, <2>3, <2>4
<1>12. ASSUME NEW h \in Loadable(image), NEW q \in AllPages(image[h])
       PROVE  \/ [ph |-> image[h], pg |-> q] \in Range(Tail(load))
              \/ space'.page[q] = Filled(image[h], q)
  <2>1. CASE q = pg
    <3>1. h = g
      BY <2>1, <1>1, <1>4, SegmentsApart
    <3> QED
      BY <2>1, <3>1, <1>10 DEF filled, seg
  <2>2. CASE q # pg
    <3>1. q \in UserWindow
      BY <1>1, ImageOk, SegmentFacts
    <3>2. space'.page[q] = space.page[q]
      BY <2>2, <3>1, <1>10
    <3>3. [ph |-> image[h], pg |-> q] # Head(load)
      BY <2>2, <1>4
    <3> QED
      BY <3>2, <3>3, <1>1, <1>11
  <2> QED
    BY <2>1, <2>2
<1> QED
  BY <1>1, <1>2, <1>3, <1>10, <1>12 DEF LoadInv

LEMMA LoadedFacts == LoadInv => ImageLoaded
<1> SUFFICES ASSUME LoadInv, phase = "loading", load = <<>>,
                    NEW h \in Loadable(image), NEW i \in 0 .. image[h].memsz - 1
             PROVE  ByteAt(space, image[h].va + i)
                      = IF i < image[h].filesz THEN image[h].offset + i ELSE ZERO
  BY DEF ImageLoaded
<1> DEFINE ph == image[h]
           a == ph.va + i
           pg == PageOf(a)
           j == a % P
<1>1. image \in Images /\ space \in Space /\ SegmentOk(ph)
  BY ImageOk DEF LoadInv
<1>2. /\ ph.va \in Nat /\ ph.memsz \in Nat /\ ph.filesz \in Nat /\ ph.offset \in Nat
  BY <1>1 DEF SegmentOk, ProgramHeader
<1>3. i \in Nat /\ a \in Nat
  BY <1>2
<1>4. pg \in AllPages(ph) /\ pg \in UserWindow
  BY <1>1, SegmentFacts
<1>5. space.page[pg] = Filled(ph, pg)
  <2>1. Range(load) = {}
    BY DEF Range
  <2> QED
    BY <1>4, <2>1 DEF LoadInv
<1>6. Present(space, pg)
  <2>1. \A k \in 0 .. P - 1 : Filled(ph, pg)[k] = Filled(ph, pg)[k]
    OBVIOUS
  <2>2. DOMAIN Filled(ph, pg) = 0 .. P - 1 /\ 0 \in 0 .. P - 1
    BY LayoutFacts DEF Filled
  <2>3. Filled(ph, pg) # <<>>
    <3> SUFFICES ASSUME Filled(ph, pg) = <<>> PROVE FALSE
      OBVIOUS
    <3>1. DOMAIN <<>> = {}
      OBVIOUS
    <3> QED
      BY <3>1, <2>2
  <2> QED
    BY <2>3, <1>5 DEF Present, Absent
<1>7. j \in 0 .. P - 1 /\ Place32(pg, j) = a
  <2> HIDE DEF a
  <2> QED
    BY <1>3, PageDigits DEF Place32
<1>8. ByteAt(space, a) = Filled(ph, pg)[j]
  <2> HIDE DEF a
  <2> QED
    BY <1>4, <1>5, <1>6 DEF ByteAt, P
<1>9. Filled(ph, pg)[j] = IF Place32(pg, j) < ph.va + ph.filesz /\ ph.filesz # 0
                          THEN ph.offset + (Place32(pg, j) - ph.va) ELSE ZERO
  <2> HIDE DEF ph, pg, j
  <2> QED
    BY <1>7 DEF Filled
<1> HIDE DEF j, pg
<1>10. Filled(ph, pg)[j] = IF i < ph.filesz THEN ph.offset + i ELSE ZERO
  <2> DEFINE x == Filled(ph, pg)[j]
             u == Place32(pg, j)
             f == ph.filesz
             o == ph.offset
             v == ph.va
  <2>1. x = IF u < v + f /\ f # 0 THEN o + (u - v) ELSE ZERO
    BY <1>9
  <2>2. u = v + i
    BY <1>7
  <2> HIDE DEF x, u, f, o, v
  <2>3. v \in Nat /\ f \in Nat /\ o \in Nat /\ i \in Nat
    BY <1>2, <1>3 DEF v, f, o
  <2>4. x = IF i < f THEN o + i ELSE ZERO
    <3>1. CASE i < f
      <4>1. u < v + f /\ f # 0 /\ u - v = i
        BY <3>1, <2>2, <2>3
      <4> QED
        BY <4>1, <3>1, <2>1
    <3>2. CASE ~ (i < f)
      <4>1. ~ (u < v + f)
        BY <3>2, <2>2, <2>3
      <4> QED
        BY <4>1, <3>2, <2>1
    <3> QED
      BY <3>1, <3>2
  <2> QED
    BY <2>4 DEF x, f, o
<1> QED
  BY <1>8, <1>10

ImageInv == userPages \in Nat /\ LoadInv

LEMMA KernelImageInv == ImageInv /\ [KernelNext]_kernelVars => ImageInv'
<1> SUFFICES ASSUME ImageInv, [KernelNext]_kernelVars PROVE ImageInv'
  OBVIOUS
<1> USE DEF ImageInv
<1>1. CASE UNCHANGED <<phase, userVars, userPages>>
  BY <1>1 DEF LoadInv, userVars
<1>2. CASE phase' # "loading" /\ UNCHANGED userPages
  BY <1>2 DEF LoadInv
<1>3. CASE Boot
  <2>1. userPages' \in Nat
    BY <1>3 DEF Boot, ClassifyPage
  <2> QED
    BY <1>3, <2>1 DEF Boot, LoadInv, userVars
<1>4. CASE MonitorRun
  BY <1>2, <1>4 DEF MonitorRun
<1>5. CASE UNCHANGED kernelVars
  BY <1>1, <1>5 DEF kernelVars, bootVars
<1>6. CASE Output
  BY <1>1, <1>6 DEF Output, bootVars
<1>7. ASSUME NEW ch \in Typed, Edit(ch) PROVE ImageInv'
  BY <1>1, <1>7 DEF Edit, bootVars
<1>8. CASE Enter
  BY <1>2, <1>8 DEF Enter, bootVars
<1>9. CASE MonitorUser
  BY <1>9, LoadStart DEF MonitorUser, bootVars
<1>10. CASE LoadPage
  BY <1>10, LoadStep DEF LoadPage, bootVars
<1>11. CASE ForceRunProcess
  BY <1>2, <1>11 DEF ForceRunProcess, bootVars
<1>12. ASSUME NEW pg \in UserWindow, PageFaultHandler(pg) PROVE ImageInv'
  BY <1>2, <1>12 DEF PageFaultHandler, bootVars
<1>13. ASSUME NEW nr, NEW va, NEW len, NEW ch, Syscall(nr, va, len, ch) PROVE ImageInv'
  BY <1>2, <1>13 DEF Syscall, bootVars
<1>14. CASE Return
  BY <1>1, <1>14 DEF Return, bootVars, LoadInv
<1> QED
  BY <1>3, <1>4, <1>5, <1>6, <1>7, <1>8, <1>9, <1>10, <1>11, <1>12, <1>13, <1>14
  DEF KernelNext, Main, Program

\* The program starts with the memory its image describes, for every size of a
\* page and every image the linker can make.
THEOREM ImageLoadedSafe == KernelSpec => []ImageLoaded
<1>1. KernelInit => ImageInv
  BY DEF KernelInit, Init, ImageInv, LoadInv
<1>2. ImageInv => ImageLoaded
  BY LoadedFacts DEF ImageInv
<1> QED
  BY <1>1, <1>2, KernelImageInv, PTL DEF KernelSpec
-----------------------------------------------------------------------------
(***************************************************************************)
(* The copy loops on a range: no page is lost or changed, and as long as   *)
(* pages can be allocated every page of the range is there afterwards.     *)
(***************************************************************************)
\* No page s has is lost or changed in t.
Kept(s, t) ==
  /\ s \in Space /\ t \in Space
  /\ \A pg \in UserWindow : s.page[pg] # Absent => t.page[pg] = s.page[pg]

\* The pages of a are there or can still be allocated, each with a table of its own.
Missing(s, a) == {pg \in a : s.page[pg] = Absent}
Enough(s, a) == 2 * Cardinality(Missing(s, a)) <= s.left

LEMMA KeptSame == \A s \in Space : Kept(s, s)
BY DEF Kept

LEMMA KeptTrans ==
  ASSUME NEW s, NEW t, NEW u, Kept(s, t), Kept(t, u)
  PROVE  Kept(s, u)
BY DEF Kept

LEMMA MissingFacts ==
  ASSUME NEW s, NEW a \in SUBSET UserWindow
  PROVE  IsFiniteSet(Missing(s, a)) /\ Cardinality(Missing(s, a)) \in Nat
<1>1. IsFiniteSet(UserWindow)
  BY LayoutFacts, FS_Interval DEF UserWindow
<1>2. Missing(s, a) \subseteq UserWindow
  BY DEF Missing
<1>3. IsFiniteSet(Missing(s, a))
  BY <1>1, <1>2, FS_Subset
<1> QED
  BY <1>3, FS_CardinalityType

\* What an allocation takes.
LEMMA AllocPageTakes ==
  ASSUME NEW s \in Space, NEW pg \in UserWindow
  PROVE  /\ AllocPage(s, pg).sp \in Space
         /\ AllocPage(s, pg).err => AllocPage(s, pg).sp.page = s.page
         /\ s.left >= 2 => /\ ~ AllocPage(s, pg).err
                           /\ AllocPage(s, pg).sp.left >= s.left - 2
<1> DEFINE hasTable == \E q \in UserWindow : Present(s, q) /\ q \div NUM_TABLES = pg \div NUM_TABLES
           stale == [i \in 0 .. PAGESIZE - 1 |-> STALE]
           left == s.left - (IF hasTable THEN 1 ELSE 2)
           pages == [s.page EXCEPT ![pg] = stale]
           a == AllocPage(s, pg)
<1>1. a = IF s.left > (IF hasTable THEN 0 ELSE 1)
          THEN [err |-> FALSE, sp |-> [page |-> pages, left |-> left]]
          ELSE [err |-> TRUE, sp |-> [s EXCEPT !.left = 0]]
  BY DEF AllocPage
<1>2. s.left \in Nat
  BY DEF Space
<1>3. left = s.left - 1 \/ left = s.left - 2
  BY <1>2
<1>4. (IF hasTable THEN 0 ELSE 1) \in 0 .. 1
  OBVIOUS
<1> HIDE DEF hasTable, a, pages, left
<1>5. [s EXCEPT !.left = 0] \in Space /\ [s EXCEPT !.left = 0].page = s.page
  BY DEF Space
<1>6. CASE s.left > (IF hasTable THEN 0 ELSE 1)
  <2>1. ~ a.err /\ a.sp.left = left
    BY <1>1, <1>6
  <2>2. a.sp \in Space
    BY <2>1, AllocPageIs DEF a
  <2> QED
    BY <2>1, <2>2, <1>2, <1>3 DEF a
<1>7. CASE ~ (s.left > (IF hasTable THEN 0 ELSE 1))
  <2>1. a.err /\ a.sp = [s EXCEPT !.left = 0]
    BY <1>1, <1>7
  <2>2. ~ (s.left >= 2)
    BY <1>2, <1>4, <1>7
  <2>3. a.sp \in Space /\ a.sp.page = s.page
    BY <2>1, <1>5
  <2> QED
    BY <2>1, <2>2, <2>3 DEF a
<1> QED
  BY <1>6, <1>7

LEMMA TouchKeeps ==
  ASSUME NEW s \in Space, NEW pg
  PROVE  Kept(s, Touch(s, pg))
<1>1. CASE Present(s, pg)
  BY <1>1, KeptSame DEF Touch
<1>2. CASE ~ Present(s, pg)
  <2>1. pg \in UserWindow /\ s.page[pg] = Absent /\ Touch(s, pg) = AllocPage(s, pg).sp
    BY <1>2 DEF Present, Touch
  <2>2. AllocPage(s, pg).sp \in Space
    BY <2>1, AllocPageTakes
  <2>3. \A q \in UserWindow : q # pg => AllocPage(s, pg).sp.page[q] = s.page[q]
    <3>1. CASE AllocPage(s, pg).err
      BY <2>1, <3>1, AllocPageTakes
    <3>2. CASE ~ AllocPage(s, pg).err
      BY <2>1, <3>2, AllocPageIs
    <3> QED
      BY <3>1, <3>2
  <2> QED
    BY <2>1, <2>2, <2>3 DEF Kept
<1> QED
  BY <1>1, <1>2

\* Only pages of a are new in t.
Given(s, t, a) == \A pg \in UserWindow : t.page[pg] # s.page[pg] => pg \in a

LEMMA GivenTrans ==
  ASSUME NEW s, NEW t, NEW u, NEW a, Given(s, t, a), Given(t, u, a)
  PROVE  Given(s, u, a)
BY DEF Given

LEMMA TouchGives ==
  ASSUME NEW s \in Space, NEW pg
  PROVE  Given(s, Touch(s, pg), {pg}) /\ (pg \notin UserWindow => Touch(s, pg) = s)
<1>1. CASE Present(s, pg)
  BY <1>1 DEF Touch, Given
<1>2. CASE ~ Present(s, pg)
  <2>1. pg \in UserWindow /\ Touch(s, pg) = AllocPage(s, pg).sp
    BY <1>2 DEF Present, Touch
  <2>2. \A q \in UserWindow : q # pg => AllocPage(s, pg).sp.page[q] = s.page[q]
    <3>1. CASE AllocPage(s, pg).err
      BY <2>1, <3>1, AllocPageTakes
    <3>2. CASE ~ AllocPage(s, pg).err
      BY <2>1, <3>2, AllocPageIs
    <3> QED
      BY <3>1, <3>2
  <2> QED
    BY <2>1, <2>2 DEF Given
<1> QED
  BY <1>1, <1>2

LEMMA TouchFinds ==
  ASSUME NEW s \in Space, NEW a \in SUBSET UserWindow, NEW pg \in a, Enough(s, a)
  PROVE  /\ Enough(Touch(s, pg), a)
         /\ Touch(s, pg).page[pg] # Absent
<1>1. CASE s.page[pg] # Absent
  BY <1>1 DEF Touch, Present
<1>2. CASE s.page[pg] = Absent
  <2> DEFINE t == AllocPage(s, pg).sp
             m == Missing(s, a)
             c == Cardinality(Missing(s, a))
             d == Cardinality(Missing(t, a))
  <2>1. Touch(s, pg) = t
    BY <1>2 DEF Touch, Present
  <2>2. pg \in m /\ IsFiniteSet(m) /\ c \in Nat
    BY <1>2, MissingFacts DEF Missing
  <2>3. Cardinality(m \ {pg}) = c - 1
    BY <2>2, FS_RemoveElement
  <2>4. c - 1 \in Nat
    <3>1. IsFiniteSet(m \ {pg})
      BY <2>2, FS_RemoveElement
    <3>2. Cardinality(m \ {pg}) \in Nat
      BY <3>1, FS_CardinalityType
    <3> QED
      BY <2>3, <3>2
  <2>5. s.left \in Nat /\ 2 * c <= s.left
    BY DEF Enough, Space
  <2> HIDE DEF c, m
  <2>6. s.left >= 2
    BY <2>2, <2>4, <2>5
  <2>7. ~ AllocPage(s, pg).err /\ t.left >= s.left - 2 /\ t \in Space
    BY <2>6, AllocPageTakes
  <2>8. t.page[pg] \in Bytes /\ \A q \in UserWindow : q # pg => t.page[q] = s.page[q]
    BY <2>7, AllocPageIs
  <2> HIDE DEF t
  <2>9. t.page[pg] # Absent
    BY <2>8, BytesArePresent
  <2>10. Missing(t, a) = m \ {pg}
    BY <2>8, <2>9 DEF Missing, m
  <2>11. d = c - 1
    BY <2>3, <2>10
  <2>12. t.left \in Nat
    BY <2>7 DEF Space
  <2> HIDE DEF d
  <2>13. 2 * d <= t.left
    BY <2>2, <2>5, <2>7, <2>11, <2>12
  <2> QED
    BY <2>1, <2>9, <2>13 DEF Enough, d
<1> QED
  BY <1>1, <1>2
-----------------------------------------------------------------------------
(***************************************************************************)
(* The pages of a range.                                                   *)
(***************************************************************************)
Span(va, len) == IF len = 0 THEN 0 ELSE PageOf(va + len - 1) - PageOf(va) + 1

LEMMA PagesOfFacts ==
  ASSUME NEW va \in Nat, NEW len \in Nat
  PROVE  /\ Span(va, len) \in Nat /\ DOMAIN PagesOf(va, len) = 1 .. Span(va, len)
         /\ \A k \in 1 .. Span(va, len) :
              PagesOf(va, len)[k] = PageOf(uint32((PageOf(va) + k - 1) * PAGESIZE))
<1>1. CASE len = 0
  <2>1. PagesOf(va, len) = <<>> /\ Span(va, len) = 0
    BY <1>1 DEF PagesOf, Span
  <2> QED
    BY <2>1
<1>2. CASE len # 0
  <2> DEFINE b == va + len - 1
             p == PageOf(va)
             q == PageOf(b)
  <2>1. b \in Nat /\ va <= b
    BY <1>2
  <2> HIDE DEF b
  <2>2. /\ p \in Nat /\ q \in Nat /\ p * P <= va /\ b < q * P + P
        /\ p * P \in Nat /\ q * P \in Nat
    BY <2>1, PageDigits
  <2>3. p * P < q * P + P
    BY <2>1, <2>2, LayoutFacts
  <2> HIDE DEF p, q
  <2>4. p <= q
    BY <2>2, <2>3, PageLess
  <2>5. Span(va, len) = q - p + 1 /\ q - p + 1 \in Nat
    BY <1>2, <2>2, <2>4 DEF Span, b, p, q
  <2>6. PagesOf(va, len) = [k \in 1 .. q - p + 1 |-> PageOf(uint32((p + k - 1) * PAGESIZE))]
    BY <1>2 DEF PagesOf, b, p, q
  <2> QED
    BY <2>5, <2>6 DEF p
<1> QED
  BY <1>1, <1>2

\* The copy loop, turn by turn.
LEMMA TouchAllTurns ==
  ASSUME NEW s, NEW va \in Nat, NEW len \in Nat
  PROVE  \E w : TouchRun(s, va, len, Span(va, len), w)
<1>1. Span(va, len) \in Nat
  BY PagesOfFacts
<1>2. DOMAIN PagesOf(va, len) = 1 .. Span(va, len)
  BY PagesOfFacts
<1> QED
  BY <1>1, <1>2, TouchUnfolds

LEMMA TouchAllKeeps ==
  ASSUME NEW s \in Space, NEW va \in Nat, NEW len \in Nat
  PROVE  Kept(s, TouchAll(s, va, len))
<1> DEFINE q == PagesOf(va, len)
           n == Span(va, len)
<1>1. n \in Nat /\ DOMAIN q = 1 .. n
  BY PagesOfFacts
<1> HIDE DEF q, n
<1>0. PICK w : TouchRun(s, va, len, n, w)
  BY TouchAllTurns DEF n
<1>2. /\ w[0] = s /\ TouchAll(s, va, len) = w[n]
      /\ \A k \in 1 .. n : w[k] = Touch(w[k - 1], q[k])
  BY <1>0 DEF TouchRun, q
<1> DEFINE G == {k \in Nat : k <= n => Kept(s, w[k])}
<1>3. 0 \in G
  BY <1>2, KeptSame
<1>4. ASSUME NEW k \in Nat, k \in G PROVE k + 1 \in G
  <2> SUFFICES ASSUME k + 1 <= n PROVE Kept(s, w[k + 1])
    OBVIOUS
  <2>1. Kept(s, w[k]) /\ w[k] \in Space
    BY <1>1, <1>4 DEF Kept
  <2>2. w[k + 1] = Touch(w[k], q[k + 1])
    <3>1. k + 1 \in 1 .. n /\ (k + 1) - 1 = k
      BY <1>1
    <3> QED
      BY <3>1, <1>2
  <2>3. Kept(w[k], w[k + 1])
    BY <2>1, <2>2, TouchKeeps
  <2> QED
    BY <2>1, <2>3, KeptTrans
<1>5. n \in G
  <2> HIDE DEF G
  <2> QED
    BY <1>1, <1>3, <1>4, NatSetInduction
<1>6. Kept(s, w[n])
  BY <1>1, <1>5
<1> QED
  BY <1>2, <1>6

LEMMA TouchAllGives ==
  ASSUME NEW s \in Space, NEW va \in Nat, NEW len \in Nat, NEW a,
         \A k \in 1 .. Span(va, len) : PagesOf(va, len)[k] \in UserWindow => PagesOf(va, len)[k] \in a
  PROVE  /\ Given(s, TouchAll(s, va, len), a)
         /\ a = {} => TouchAll(s, va, len) = s
<1> DEFINE q == PagesOf(va, len)
           n == Span(va, len)
<1>1. n \in Nat /\ DOMAIN q = 1 .. n /\ \A k \in 1 .. n : q[k] \in UserWindow => q[k] \in a
  BY PagesOfFacts
<1> HIDE DEF q, n
<1>0. PICK w : TouchRun(s, va, len, n, w)
  BY TouchAllTurns DEF n
<1>2. /\ w[0] = s /\ TouchAll(s, va, len) = w[n]
      /\ \A k \in 1 .. n : w[k] = Touch(w[k - 1], q[k])
  BY <1>0 DEF TouchRun, q
<1> DEFINE G == {k \in Nat : k <= n => /\ w[k] \in Space /\ Given(s, w[k], a)
                                       /\ a = {} => w[k] = s}
<1>3. 0 \in G
  BY <1>2 DEF Given
<1>4. ASSUME NEW k \in Nat, k \in G PROVE k + 1 \in G
  <2> SUFFICES ASSUME k + 1 <= n
               PROVE  /\ w[k + 1] \in Space /\ Given(s, w[k + 1], a)
                      /\ a = {} => w[k + 1] = s
    OBVIOUS
  <2>1. w[k] \in Space /\ Given(s, w[k], a) /\ (a = {} => w[k] = s)
    BY <1>1, <1>4
  <2>2. w[k + 1] = Touch(w[k], q[k + 1]) /\ (q[k + 1] \in UserWindow => q[k + 1] \in a)
    <3>1. k + 1 \in 1 .. n /\ (k + 1) - 1 = k
      BY <1>1
    <3> QED
      BY <3>1, <1>1, <1>2
  <2>3. Kept(w[k], w[k + 1])
    BY <2>1, <2>2, TouchKeeps
  <2>4. Given(w[k], w[k + 1], {q[k + 1]}) /\ (q[k + 1] \notin UserWindow => w[k + 1] = w[k])
    BY <2>1, <2>2, TouchGives
  <2>5. Given(w[k], w[k + 1], a)
    BY <2>2, <2>4 DEF Given
  <2>6. Given(s, w[k + 1], a)
    BY <2>1, <2>5, GivenTrans
  <2> QED
    BY <2>1, <2>2, <2>3, <2>4, <2>6 DEF Kept
<1>5. n \in G
  <2> HIDE DEF G
  <2> QED
    BY <1>1, <1>3, <1>4, NatSetInduction
<1>6. Given(s, w[n], a) /\ (a = {} => w[n] = s)
  BY <1>1, <1>5
<1> QED
  BY <1>2, <1>6

LEMMA TouchAllFinds ==
  ASSUME NEW s \in Space, NEW va \in Nat, NEW len \in Nat,
         NEW a \in SUBSET UserWindow, Enough(s, a),
         \A k \in 1 .. Span(va, len) : PagesOf(va, len)[k] \in a
  PROVE  /\ Enough(TouchAll(s, va, len), a)
         /\ \A k \in 1 .. Span(va, len) : TouchAll(s, va, len).page[PagesOf(va, len)[k]] # Absent
<1> DEFINE q == PagesOf(va, len)
           n == Span(va, len)
<1>1. n \in Nat /\ DOMAIN q = 1 .. n /\ \A k \in 1 .. n : q[k] \in a /\ q[k] \in UserWindow
  BY PagesOfFacts
<1> HIDE DEF q, n
<1>0. PICK w : TouchRun(s, va, len, n, w)
  BY TouchAllTurns DEF n
<1>2. /\ w[0] = s /\ TouchAll(s, va, len) = w[n]
      /\ \A k \in 1 .. n : w[k] = Touch(w[k - 1], q[k])
  BY <1>0 DEF TouchRun, q
<1> DEFINE G == {k \in Nat : k <= n => /\ w[k] \in Space /\ Enough(w[k], a)
                                       /\ \A i \in 1 .. k : w[k].page[q[i]] # Absent}
<1>3. 0 \in G
  BY <1>2
<1>4. ASSUME NEW k \in Nat, k \in G PROVE k + 1 \in G
  <2> SUFFICES ASSUME k + 1 <= n
               PROVE  /\ w[k + 1] \in Space /\ Enough(w[k + 1], a)
                      /\ \A i \in 1 .. k + 1 : w[k + 1].page[q[i]] # Absent
    OBVIOUS
  <2>1. /\ w[k] \in Space /\ Enough(w[k], a)
        /\ \A i \in 1 .. k : w[k].page[q[i]] # Absent
    BY <1>1, <1>4
  <2>2. w[k + 1] = Touch(w[k], q[k + 1]) /\ q[k + 1] \in a /\ k + 1 \in 1 .. n
    <3>1. k + 1 \in 1 .. n /\ (k + 1) - 1 = k
      BY <1>1
    <3> QED
      BY <3>1, <1>1, <1>2
  <2>3. Kept(w[k], w[k + 1])
    BY <2>1, <2>2, TouchKeeps
  <2>4. Enough(w[k + 1], a) /\ w[k + 1].page[q[k + 1]] # Absent
    BY <2>1, <2>2, TouchFinds
  <2>5. ASSUME NEW i \in 1 .. k + 1 PROVE w[k + 1].page[q[i]] # Absent
    <3>1. CASE i = k + 1
      BY <3>1, <2>4
    <3>2. CASE i # k + 1
      <4>1. i \in 1 .. k /\ i \in 1 .. n
        BY <3>2, <1>1
      <4> QED
        BY <4>1, <1>1, <2>1, <2>3 DEF Kept
    <3> QED
      BY <3>1, <3>2
  <2> QED
    BY <2>3, <2>4, <2>5 DEF Kept
<1>5. n \in G
  <2> HIDE DEF G
  <2> QED
    BY <1>1, <1>3, <1>4, NatSetInduction
<1> QED
  BY <1>1, <1>2, <1>5 DEF q, n

\* The pages of a range of addresses.
RangePages(va, len) == {pg \in UserWindow : \E x \in va .. va + len - 1 : PageOf(x) = pg}

LEMMA AbsenteesAre ==
  ASSUME NEW s, NEW va, NEW len
  PROVE  Absentees(s, va, len) = Missing(s, RangePages(va, len))
BY DEF Absentees, Missing, RangePages, Present

LEMMA RangeFacts ==
  ASSUME NEW va \in Nat, NEW len \in Nat, UserRange(va, len)
  PROVE  /\ RangePages(va, len) \in SUBSET UserWindow
         /\ \A k \in 1 .. Span(va, len) : PagesOf(va, len)[k] \in RangePages(va, len)
         /\ \A x \in va .. va + len - 1 :
              /\ x \in Nat /\ uint32(x) = x /\ PageOf(x) \in RangePages(va, len)
              /\ \E k \in 1 .. Span(va, len) : PagesOf(va, len)[k] = PageOf(x)
<1>1. MEM_USERLO <= va /\ va + len <= MEM_USERHI
  BY DEF UserRange
<1>2. /\ P \in Nat /\ P > 1 /\ MEM_USERHI + P <= WORD /\ WORD \in Nat /\ MEM_USERLO \in Nat
      /\ MEM_USERLO = MEM_USERLO_PI * P /\ MEM_USERHI = MEM_USERHI_PI * P
      /\ MEM_USERLO_PI \in Nat /\ MEM_USERHI_PI \in Nat /\ MEM_USERHI \in Nat
  BY LayoutFacts
<1> DEFINE b == va + len - 1
           p == PageOf(va)
<1>3. p \in Nat /\ p * P <= va /\ va < p * P + P /\ p * P \in Nat
  BY PageDigits
<1> HIDE DEF p
\* The pages of addresses in the range are in the window, and in order.
<1>4. ASSUME NEW x \in va .. va + len - 1
      PROVE  /\ x \in Nat /\ uint32(x) = x /\ PageOf(x) \in UserWindow
             /\ p <= PageOf(x) /\ PageOf(x) <= PageOf(b) /\ len # 0
             /\ PageOf(x) \in RangePages(va, len)
  <2>1. x \in Nat /\ MEM_USERLO <= x /\ x < MEM_USERHI /\ x < WORD /\ va <= x /\ x <= b /\ b \in Nat
    BY <1>1, <1>2
  <2> HIDE DEF b
  <2> DEFINE q == PageOf(x)
             r == PageOf(b)
  <2>2. q \in Nat /\ q * P \in Nat /\ q * P <= x /\ x < q * P + P
    BY <2>1, PageDigits
  <2>3. r \in Nat /\ r * P \in Nat /\ r * P <= b /\ b < r * P + P
    BY <2>1, PageDigits
  <2> HIDE DEF q, r
  <2>4. q <= r
    <3>1. q * P < r * P + P
      BY <2>1, <2>2, <2>3, <1>2
    <3> QED
      BY <3>1, <2>2, <2>3, PageLess
  <2>5. p <= q
    <3>1. p * P < q * P + P
      BY <2>1, <2>2, <1>3, <1>2
    <3> QED
      BY <3>1, <2>2, <1>3, PageLess
  <2>6. MEM_USERLO_PI <= q
    <3>1. MEM_USERLO_PI * P < q * P + P
      BY <2>1, <2>2, <1>2
    <3> QED
      BY <3>1, <2>2, <1>2, PageLess
  <2>7. q + 1 <= MEM_USERHI_PI
    <3>1. (q + 1) * P = q * P + P /\ q + 1 \in Nat
      BY <2>2, <1>2
    <3>2. (q + 1) * P < MEM_USERHI_PI * P + P
      BY <3>1, <2>1, <2>2, <1>2
    <3> QED
      BY <3>1, <3>2, <1>2, PageLess
  <2>8. q \in UserWindow
    BY <2>2, <2>6, <2>7, <1>2 DEF UserWindow
  <2>9. uint32(x) = x
    BY <2>1, LayoutFacts
  <2>10. PageOf(x) \in RangePages(va, len)
    BY <2>8 DEF RangePages, q
  <2>11. len # 0
    OBVIOUS
  <2> QED
    BY <2>1, <2>4, <2>5, <2>8, <2>9, <2>10, <2>11 DEF q, r
\* Every page between the first and the last has an address of the range.
<1>5. ASSUME NEW k \in 1 .. Span(va, len)
      PROVE  /\ p + k - 1 \in RangePages(va, len)
             /\ PagesOf(va, len)[k] = p + k - 1
  <2>1. len # 0 /\ Span(va, len) = PageOf(b) - p + 1
    BY DEF Span, p
  <2>2. b \in Nat /\ va <= b /\ b \in va .. va + len - 1 /\ va \in va .. va + len - 1
    BY <2>1
  <2> DEFINE r == PageOf(b)
             pg == p + k - 1
  <2>3. r \in Nat /\ r * P \in Nat /\ r * P <= b /\ b < r * P + P
    <3> HIDE DEF b
    <3> QED
      BY <2>2, PageDigits
  <2> HIDE DEF r
  <2>4. pg \in Nat /\ p <= pg /\ pg <= r
    BY <2>1, <2>3, <1>3 DEF r
  <2>5. pg \in RangePages(va, len)
    <3>1. CASE pg = p
      BY <3>1, <2>2, <1>4 DEF p
    <3>2. CASE pg # p
      <4>1. p + 1 <= pg
        BY <3>2, <2>4, <1>3
      <4> HIDE DEF pg
      <4>2. (p + 1) * P <= pg * P /\ pg * P <= r * P
        BY <4>1, <2>3, <2>4, <1>2, <1>3, MulMono
      <4>3. (p + 1) * P = p * P + P /\ pg * P \in Nat
        BY <2>4, <1>2, <1>3
      <4>4. pg * P \in va .. va + len - 1
        BY <4>2, <4>3, <2>2, <2>3, <1>2, <1>3
      <4>5. PageOf(pg * P) = pg
        <5>1. 0 \in 0 .. P - 1 /\ pg * P + 0 = pg * P
          BY <4>3, <1>2
        <5>2. (pg * P + 0) \div P = pg
          BY <5>1, <2>4, <1>2, Digit2
        <5> QED
          BY <5>1, <5>2 DEF PageOf, P
      <4> QED
        BY <4>4, <4>5, <1>4
    <3> QED
      BY <3>1, <3>2
  <2>6. PagesOf(va, len)[k] = PageOf(uint32(pg * PAGESIZE))
    BY PagesOfFacts DEF p
  <2> HIDE DEF pg
  <2>7. pg \in UserWindow
    BY <2>5 DEF RangePages
  <2>8. uint32(pg * P) = pg * P /\ PageOf(pg * P) = pg
    <3>1. 0 \in 0 .. P - 1 /\ Place32(pg, 0) = pg * P
      BY <2>7, <1>2, UserPageFacts DEF Place32
    <3> QED
      BY <3>1, <2>7, UserPageFacts
  <2>9. PagesOf(va, len)[k] = pg
    BY <2>6, <2>8 DEF P
  <2> QED
    BY <2>5, <2>9 DEF pg
<1>6. ASSUME NEW x \in va .. va + len - 1
      PROVE  \E k \in 1 .. Span(va, len) : PagesOf(va, len)[k] = PageOf(x)
  <2> DEFINE k == PageOf(x) - p + 1
             r == PageOf(b)
  <2>1. p <= PageOf(x) /\ PageOf(x) <= r /\ len # 0 /\ PageOf(x) \in Nat
    BY <1>4, <1>2 DEF UserWindow
  <2>2. Span(va, len) = r - p + 1
    BY <2>1 DEF Span, p
  <2>3. r \in Nat
    <3>1. b \in Nat
      BY <2>1
    <3> HIDE DEF b
    <3> QED
      BY <3>1, PageDigits
  <2> HIDE DEF r
  <2>4. k \in 1 .. Span(va, len) /\ p + k - 1 = PageOf(x)
    BY <2>1, <2>2, <2>3, <1>3
  <2> HIDE DEF k
  <2> QED
    BY <2>4, <1>5
<1>7. RangePages(va, len) \in SUBSET UserWindow
  BY DEF RangePages
<1> QED
  BY <1>4, <1>5, <1>6, <1>7
\* A sum of 32 bits wraps at most once.
LEMMA Wraps ==
  ASSUME NEW x \in Nat, WORD <= x, x < WORD + WORD
  PROVE  uint32(x) = x - WORD
<1> DEFINE j == x - WORD
<1>1. WORD \in Nat /\ j \in 0 .. WORD - 1 /\ 1 * WORD + j = x
  BY LayoutFacts
<1> HIDE DEF j
<1>2. (1 * WORD + j) % WORD = j
  BY <1>1, Digit2
<1> QED
  BY <1>1, <1>2 DEF uint32, j

\* Addresses behind the user half, and those a sum of 32 bits wraps to below it,
\* have no page of a program.
LEMMA OutsideWord ==
  ASSUME NEW x \in Nat, MEM_USERHI <= x, x < WORD + MEM_USERLO
  PROVE  uint32(x) \in Nat /\ PageOf(uint32(x)) \notin UserWindow
<1> DEFINE y == uint32(x)
           q == PageOf(y)
<1>1. /\ MEM_USERLO \in Nat /\ MEM_USERHI \in Nat /\ WORD \in Nat /\ P \in Nat
      /\ MEM_USERHI + P <= WORD /\ MEM_USERLO_PI \in Nat /\ MEM_USERHI_PI \in Nat
      /\ MEM_USERLO = MEM_USERLO_PI * P /\ MEM_USERHI = MEM_USERHI_PI * P
      /\ MEM_USERLO < MEM_USERHI
  <2>1. MEM_USERLO_PI + 1 <= MEM_USERHI_PI /\ MEM_USERLO_PI \in Nat /\ MEM_USERHI_PI \in Nat
    BY LayoutAssumption
  <2>2. P \in Nat /\ P > 1
    BY LayoutFacts
  <2>3. (MEM_USERLO_PI + 1) * P <= MEM_USERHI_PI * P
    BY <2>1, <2>2, MulMono
  <2>4. (MEM_USERLO_PI + 1) * P = MEM_USERLO_PI * P + P
    BY <2>1, <2>2
  <2> QED
    BY <2>2, <2>3, <2>4, LayoutFacts
<1>2. y \in Nat /\ (MEM_USERHI <= y \/ y < MEM_USERLO)
  <2>1. CASE x < WORD
    <3>1. y = x
      BY <2>1, LayoutFacts
    <3> QED
      BY <3>1
  <2>2. CASE WORD <= x
    <3>1. x < WORD + WORD
      BY <1>1
    <3>2. y = x - WORD
      BY <2>2, <3>1, Wraps
    <3> QED
      BY <3>2, <2>2, <1>1
  <2> QED
    BY <2>1, <2>2, <1>1
<1> HIDE DEF y
<1>3. q \in Nat /\ q * P \in Nat /\ q * P <= y /\ y < q * P + P
  BY <1>2, PageDigits
<1> HIDE DEF q
<1>4. CASE MEM_USERHI <= y
  <2>1. MEM_USERHI_PI * P < q * P + P
    BY <1>1, <1>3, <1>4, <1>2
  <2>2. MEM_USERHI_PI <= q
    BY <2>1, <1>1, <1>3, PageLess
  <2> QED
    BY <2>2, <1>1, <1>2, <1>3 DEF UserWindow, q, y
<1>5. CASE y < MEM_USERLO
  <2> SUFFICES ASSUME MEM_USERLO_PI <= q PROVE FALSE
    BY <1>2 DEF UserWindow, q, y
  <2>1. MEM_USERLO_PI * P <= q * P
    BY <1>1, <1>3, MulMono
  <2> QED
    BY <2>1, <1>1, <1>2, <1>3, <1>5
<1> QED
  BY <1>2, <1>4, <1>5
-----------------------------------------------------------------------------
(***************************************************************************)
(* What the kernel reads of the program's memory.                          *)
(***************************************************************************)
LEMMA ByteType ==
  ASSUME NEW s \in Space, NEW x \in Nat
  PROVE  ByteAt(s, x) \in Byte
<1>1. CASE PageOf(x) \notin UserWindow \/ ~ Present(s, PageOf(x))
  BY <1>1 DEF ByteAt, Byte
<1>2. CASE PageOf(x) \in UserWindow /\ Present(s, PageOf(x))
  <2>1. s.page[PageOf(x)] \in Bytes
    BY <1>2 DEF Present, Space
  <2>2. x % P \in 0 .. P - 1
    BY PageDigits
  <2>3. ByteAt(s, x) = s.page[PageOf(x)][x % P]
    BY <1>2 DEF ByteAt, P
  <2> QED
    BY <2>1, <2>2, <2>3 DEF Bytes, P
<1> QED
  BY <1>1, <1>2

\* A byte of a page that is there stays.
LEMMA ByteStays ==
  ASSUME NEW s, NEW t, Kept(s, t), NEW x, PageOf(x) \in UserWindow, s.page[PageOf(x)] # Absent
  PROVE  ByteAt(t, x) = ByteAt(s, x)
<1>1. t.page[PageOf(x)] = s.page[PageOf(x)]
  BY DEF Kept
<1> QED
  BY <1>1 DEF ByteAt, Present

LEMMA SameSeq ==
  ASSUME NEW S, NEW s \in Seq(S), NEW t \in Seq(S), Len(t) = Len(s),
         \A i \in 1 .. Len(s) : s[i] = t[i]
  PROVE  s = t
<1>1. s = [i \in 1 .. Len(s) |-> s[i]] /\ t = [i \in 1 .. Len(s) |-> t[i]]
  OBVIOUS
<1> QED
  BY <1>1

LEMMA ContentFacts ==
  ASSUME NEW s \in Space, NEW va \in Nat, NEW n \in Nat
  PROVE  /\ Content(s, va, n) \in Seq(Byte) /\ Len(Content(s, va, n)) = n
         /\ DOMAIN Content(s, va, n) = 1 .. n
         /\ \A i \in 1 .. n : Content(s, va, n)[i] = ByteAt(s, va + i - 1)
<1>1. \A i \in 1 .. n : ByteAt(s, va + i - 1) \in Byte
  <2> SUFFICES ASSUME NEW i \in 1 .. n PROVE ByteAt(s, va + i - 1) \in Byte
    OBVIOUS
  <2>1. va + i - 1 \in Nat
    OBVIOUS
  <2> QED
    BY <2>1, ByteType
<1> QED
  BY <1>1 DEF Content

LEMMA MissingShrinks ==
  ASSUME NEW s, NEW t, Kept(s, t), NEW a \in SUBSET UserWindow, Missing(s, a) = {}
  PROVE  Missing(t, a) = {}
BY DEF Kept, Missing

\* The part of a range that is there keeps its content.
LEMMA ContentStays ==
  ASSUME NEW s, NEW t, Kept(s, t), NEW va \in Nat, NEW n \in Nat, UserRange(va, n),
         Missing(s, RangePages(va, n)) = {}
  PROVE  Content(t, va, n) = Content(s, va, n)
<1>1. ASSUME NEW i \in 1 .. n PROVE ByteAt(t, va + i - 1) = ByteAt(s, va + i - 1)
  <2> DEFINE x == va + i - 1
  <2>1. x \in va .. va + n - 1
    OBVIOUS
  <2>2. PageOf(x) \in RangePages(va, n) /\ RangePages(va, n) \in SUBSET UserWindow
    BY <2>1, RangeFacts
  <2>3. PageOf(x) \in UserWindow /\ s.page[PageOf(x)] # Absent
    BY <2>2 DEF Missing
  <2> HIDE DEF x
  <2>4. ByteAt(t, x) = ByteAt(s, x)
    BY <2>3, ByteStays
  <2> QED
    BY <2>4 DEF x
<1> QED
  BY <1>1 DEF Content

\* The test of the copies accepts every range of the user half.
LEMMA UserRangeFacts ==
  ASSUME NEW va \in Nat, NEW len \in Nat, UserRange(va, len)
  PROVE  InRange(va, len) /\ va < WORD /\ uint32(va) = va /\ uint32(va + len) = va + len
<1>1. va < WORD /\ va + len < WORD /\ va + len \in Nat
  BY LayoutFacts DEF UserRange
<1>2. uint32(va) = va /\ uint32(va + len) = va + len
  BY <1>1, LayoutFacts
<1> QED
  BY <1>1, <1>2 DEF InRange, UserRange

LEMMA CopyInFacts ==
  ASSUME NEW s \in Space, NEW va \in Nat, NEW len \in Nat
  PROVE  /\ Kept(s, PTCopyIn(s, va, len).sp)
         /\ PTCopyIn(s, va, len).bytes \in Seq(Byte)
         /\ InRange(va, len) => Len(PTCopyIn(s, va, len).bytes) = len
         /\ ~ InRange(va, len) => Len(PTCopyIn(s, va, len).bytes) = 0
<1>1. CASE ~ InRange(va, len)
  <2>1. PTCopyIn(s, va, len) = [sp |-> s, bytes |-> <<>>]
    BY <1>1 DEF PTCopyIn
  <2> QED
    BY <1>1, <2>1, KeptSame
<1>2. CASE InRange(va, len)
  <2> DEFINE t == TouchAll(s, va, len)
             bytes == [i \in 1 .. len |-> ByteAt(t, Addrs(va, len)[i])]
  <2>1. PTCopyIn(s, va, len) = [sp |-> t, bytes |-> bytes]
    BY <1>2 DEF PTCopyIn
  <2>2. Kept(s, t) /\ t \in Space
    <3>1. Kept(s, t)
      BY TouchAllKeeps
    <3> QED
      BY <3>1 DEF Kept
  <2> HIDE DEF t
  <2>3. ASSUME NEW i \in 1 .. len PROVE ByteAt(t, Addrs(va, len)[i]) \in Byte
    <3> DEFINE x == va + i - 1
    <3>1. x \in Nat
      OBVIOUS
    <3> HIDE DEF x
    <3>2. uint32(x) \in Nat
      BY <3>1, WordAssumption DEF uint32
    <3>3. Addrs(va, len)[i] = uint32(x)
      BY DEF Addrs, x
    <3> QED
      BY <2>2, <3>2, <3>3, ByteType
  <2>4. bytes \in Seq(Byte) /\ Len(bytes) = len
    BY <2>3
  <2> HIDE DEF bytes
  <2> QED
    BY <1>2, <2>1, <2>2, <2>4
<1> QED
  BY <1>1, <1>2

\* A copy of a range of the user half gives the program no other page.
LEMMA CopyInGives ==
  ASSUME NEW s \in Space, NEW va \in Nat, NEW len \in Nat, UserRange(va, len)
  PROVE  Given(s, PTCopyIn(s, va, len).sp, RangePages(va, len))
<1>1. PTCopyIn(s, va, len).sp = TouchAll(s, va, len)
  BY UserRangeFacts DEF PTCopyIn
<1>2. \A k \in 1 .. Span(va, len) : PagesOf(va, len)[k] \in RangePages(va, len)
  BY RangeFacts
<1> QED
  BY <1>1, <1>2, TouchAllGives

\* A copy from behind the user half reads the kernel's memory, also where it wraps.
LEMMA CopyInOutside ==
  ASSUME NEW s \in Space, NEW va \in Nat, MEM_USERHI <= va, va < WORD,
         NEW len \in Nat, len <= MEM_USERLO
  PROVE  /\ PTCopyIn(s, va, len).sp = s
         /\ PTCopyIn(s, va, len).bytes \in Seq({KERNEL})
<1>1. /\ MEM_USERLO \in Nat /\ MEM_USERHI \in Nat /\ WORD \in Nat /\ P \in Nat
      /\ MEM_USERHI = MEM_USERHI_PI * P /\ MEM_USERHI_PI \in Nat
  BY LayoutFacts
<1>2. ASSUME NEW k \in 1 .. Span(va, len) PROVE PagesOf(va, len)[k] \notin UserWindow
  <2> DEFINE b == va + len - 1
             p == PageOf(va)
             r == PageOf(b)
             pg == p + k - 1
  <2>1. len # 0 /\ Span(va, len) = r - p + 1
    BY DEF Span
  <2>2. b \in Nat /\ b < WORD + MEM_USERLO /\ va <= b
    BY <2>1, <1>1
  <2> HIDE DEF b
  <2>3. p \in Nat /\ p * P \in Nat /\ p * P <= va /\ va < p * P + P
    BY PageDigits
  <2>4. r \in Nat /\ r * P \in Nat /\ r * P <= b
    BY <2>2, PageDigits
  <2>5. PagesOf(va, len)[k] = PageOf(uint32(pg * P))
    BY PagesOfFacts DEF P
  <2> HIDE DEF p, r
  <2>6. pg \in Nat /\ p <= pg /\ pg <= r
    BY <2>1, <2>3, <2>4
  <2>7. MEM_USERHI_PI <= p
    <3>1. MEM_USERHI_PI * P < p * P + P
      BY <2>3, <1>1
    <3> QED
      BY <3>1, <2>3, <1>1, PageLess
  <2> HIDE DEF pg
  <2>8. MEM_USERHI_PI * P <= pg * P /\ pg * P <= r * P
    BY <2>3, <2>4, <2>6, <2>7, <1>1, MulMono
  <2> DEFINE x == pg * P
  <2>9. x \in Nat
    BY <2>6, <1>1
  <2>10. MEM_USERHI <= x /\ x < WORD + MEM_USERLO
    BY <2>2, <2>4, <2>8, <2>9, <1>1
  <2> HIDE DEF x
  <2>11. PageOf(uint32(x)) \notin UserWindow
    BY <2>9, <2>10, OutsideWord
  <2> QED
    BY <2>5, <2>11 DEF x
<1>3. TouchAll(s, va, len) = s
  BY <1>2, TouchAllGives
<1>4. ASSUME NEW i \in 1 .. len PROVE ByteAt(s, Addrs(va, len)[i]) = KERNEL
  <2> DEFINE x == va + i - 1
  <2>1. x \in Nat /\ MEM_USERHI <= x /\ x < WORD + MEM_USERLO /\ Addrs(va, len)[i] = uint32(x)
    BY <1>1 DEF Addrs
  <2> HIDE DEF x
  <2>2. PageOf(uint32(x)) \notin UserWindow
    BY <2>1, OutsideWord
  <2> QED
    BY <2>1, <2>2 DEF ByteAt
<1>5. CASE InRange(va, len)
  <2> DEFINE bytes == [i \in 1 .. len |-> ByteAt(s, Addrs(va, len)[i])]
  <2>1. PTCopyIn(s, va, len) = [sp |-> s, bytes |-> bytes]
    BY <1>3, <1>5 DEF PTCopyIn
  <2>2. bytes \in Seq({KERNEL})
    BY <1>4
  <2> HIDE DEF bytes
  <2> QED
    BY <2>1, <2>2
<1>6. CASE ~ InRange(va, len)
  <2>1. PTCopyIn(s, va, len) = [sp |-> s, bytes |-> <<>>]
    BY <1>6 DEF PTCopyIn
  <2> QED
    BY <2>1
<1> QED
  BY <1>5, <1>6

\* A copy of a range of the user half, as long as its pages can be allocated.
LEMMA CopyInReads ==
  ASSUME NEW s \in Space, NEW va \in Nat, NEW len \in Nat, UserRange(va, len),
         NEW a \in SUBSET UserWindow, RangePages(va, len) \subseteq a, Enough(s, a)
  PROVE  /\ Enough(PTCopyIn(s, va, len).sp, a)
         /\ Missing(PTCopyIn(s, va, len).sp, RangePages(va, len)) = {}
         /\ PTCopyIn(s, va, len).bytes = Content(PTCopyIn(s, va, len).sp, va, len)
<1> DEFINE t == TouchAll(s, va, len)
           bytes == [i \in 1 .. len |-> ByteAt(t, Addrs(va, len)[i])]
<1>1. PTCopyIn(s, va, len) = [sp |-> t, bytes |-> bytes]
  BY UserRangeFacts DEF PTCopyIn
<1>2. /\ \A k \in 1 .. Span(va, len) : PagesOf(va, len)[k] \in RangePages(va, len)
      /\ \A x \in va .. va + len - 1 :
           /\ x \in Nat /\ uint32(x) = x
           /\ \E k \in 1 .. Span(va, len) : PagesOf(va, len)[k] = PageOf(x)
  BY RangeFacts
<1>3. \A k \in 1 .. Span(va, len) : PagesOf(va, len)[k] \in a
  BY <1>2
<1>4. /\ Enough(t, a)
      /\ \A k \in 1 .. Span(va, len) : t.page[PagesOf(va, len)[k]] # Absent
  BY <1>3, TouchAllFinds
<1> HIDE DEF t
<1>5. Missing(t, RangePages(va, len)) = {}
  <2> SUFFICES ASSUME NEW pg \in Missing(t, RangePages(va, len)) PROVE FALSE
    OBVIOUS
  <2>1. PICK x \in va .. va + len - 1 : PageOf(x) = pg
    BY DEF Missing, RangePages
  <2>2. t.page[pg] = Absent
    BY DEF Missing
  <2> QED
    BY <2>1, <2>2, <1>2, <1>4
<1>6. bytes = Content(t, va, len)
  <2>1. ASSUME NEW i \in 1 .. len PROVE Addrs(va, len)[i] = va + i - 1
    <3>1. va + i - 1 \in va .. va + len - 1
      OBVIOUS
    <3> QED
      BY <3>1, <1>2 DEF Addrs
  <2> QED
    BY <2>1 DEF Content
<1> HIDE DEF bytes
<1> QED
  BY <1>1, <1>4, <1>5, <1>6

\* The next n bytes of a range of which pos have been read.
ReadNext(s, in, va, len, pos, n) ==
  /\ Enough(in.sp, RangePages(va, len))
  /\ Missing(in.sp, RangePages(va, pos + n)) = {}
  /\ Content(in.sp, va, pos + n) = Content(s, va, pos) \o in.bytes

LEMMA CopyInNext ==
  ASSUME NEW s \in Space, NEW va \in Nat, NEW len \in Nat, UserRange(va, len),
         NEW pos \in Nat, NEW n \in Nat, pos + n <= len,
         Enough(s, RangePages(va, len)), Missing(s, RangePages(va, pos)) = {}
  PROVE  ReadNext(s, PTCopyIn(s, uint32(va + pos), n), va, len, pos, n)
<1> DEFINE b == va + pos
           all == RangePages(va, len)
           in == PTCopyIn(s, b, n)
           sp == PTCopyIn(s, b, n).sp
           bytes == PTCopyIn(s, b, n).bytes
<1>1. /\ b \in Nat /\ UserRange(b, n) /\ UserRange(va, pos) /\ UserRange(va, pos + n)
      /\ pos + n \in Nat /\ uint32(b) = b
  <2>1. MEM_USERLO \in Nat /\ MEM_USERHI \in Nat
    BY LayoutFacts
  <2>2. b \in Nat /\ UserRange(b, n) /\ UserRange(va, pos) /\ UserRange(va, pos + n) /\ pos + n \in Nat
    BY <2>1 DEF UserRange
  <2> HIDE DEF b
  <2> QED
    BY <2>2, UserRangeFacts
<1>2. all \in SUBSET UserWindow /\ RangePages(b, n) \subseteq all
  <2>1. b .. b + n - 1 \subseteq va .. va + len - 1
    OBVIOUS
  <2> QED
    BY <2>1 DEF RangePages
<1>3. RangePages(va, pos + n) \subseteq RangePages(va, pos) \cup RangePages(b, n)
  <2>1. va .. va + (pos + n) - 1 \subseteq (va .. va + pos - 1) \cup (b .. b + n - 1)
    OBVIOUS
  <2> HIDE DEF b
  <2> QED
    BY <2>1 DEF RangePages
<1>4. PTCopyIn(s, uint32(va + pos), n) = in
  BY <1>1
<1> HIDE DEF b
<1>5. Kept(s, sp) /\ bytes \in Seq(Byte)
  BY <1>1, CopyInFacts
<1> HIDE DEF all
<1>6. Enough(sp, all) /\ Missing(sp, RangePages(b, n)) = {} /\ bytes = Content(sp, b, n)
  <2>1. Enough(s, all)
    BY DEF all
  <2>2. RangePages(b, n) \subseteq all
    BY <1>2
  <2>3. all \in SUBSET UserWindow
    BY <1>2
  <2>4. UserRange(b, n) /\ b \in Nat
    BY <1>1
  <2> QED
    BY <2>1, <2>2, <2>3, <2>4, CopyInReads
<1> HIDE DEF in, sp, bytes
<1>7. sp \in Space
  BY <1>5 DEF Kept
<1>8. Missing(sp, RangePages(va, pos)) = {}
  <2>1. RangePages(va, pos) \in SUBSET UserWindow
    BY DEF RangePages
  <2> QED
    BY <2>1, <1>5, MissingShrinks
<1>9. Missing(sp, RangePages(va, pos + n)) = {}
  BY <1>3, <1>6, <1>8 DEF Missing
<1>10. Content(sp, va, pos) = Content(s, va, pos)
  BY <1>1, <1>5, ContentStays
<1>11. Content(sp, va, pos + n) = Content(sp, va, pos) \o Content(sp, b, n)
  <2> DEFINE c == Content(sp, va, pos)
             d == Content(sp, b, n)
             e == Content(sp, va, pos + n)
  <2>1. c \in Seq(Byte) /\ Len(c) = pos /\ \A i \in 1 .. pos : c[i] = ByteAt(sp, va + i - 1)
    BY <1>7, ContentFacts
  <2>2. d \in Seq(Byte) /\ Len(d) = n /\ \A i \in 1 .. n : d[i] = ByteAt(sp, b + i - 1)
    BY <1>1, <1>7, ContentFacts
  <2>3. /\ e \in Seq(Byte) /\ Len(e) = pos + n
        /\ \A i \in 1 .. pos + n : e[i] = ByteAt(sp, va + i - 1)
    <3> DEFINE m == pos + n
    <3>1. m \in Nat
      OBVIOUS
    <3> HIDE DEF m
    <3>2. /\ Content(sp, va, m) \in Seq(Byte) /\ Len(Content(sp, va, m)) = m
          /\ \A i \in 1 .. m : Content(sp, va, m)[i] = ByteAt(sp, va + i - 1)
      BY <3>1, <1>7, ContentFacts
    <3> QED
      BY <3>2 DEF m
  <2> HIDE DEF c, d, e
  <2>4. c \o d \in Seq(Byte) /\ Len(c \o d) = pos + n
    <3>1. c \in Seq(Byte) /\ d \in Seq(Byte)
      BY <2>1, <2>2
    <3>2. c \o d \in Seq(Byte) /\ Len(c \o d) = Len(c) + Len(d)
      BY <3>1
    <3> QED
      BY <3>2, <2>1, <2>2
  <2>5. ASSUME NEW i \in 1 .. pos + n PROVE e[i] = (c \o d)[i]
    <3>1. CASE i <= pos
      BY <3>1, <2>1, <2>2, <2>3
    <3>2. CASE ~ (i <= pos)
      <4>1. i - pos \in 1 .. n /\ b + (i - pos) - 1 = va + i - 1
        BY <3>2 DEF b
      <4>2. (c \o d)[i] = d[i - pos]
        BY <3>2, <2>1, <2>2
      <4>3. d[i - pos] = ByteAt(sp, b + (i - pos) - 1)
        BY <4>1, <2>2
      <4> QED
        BY <4>1, <4>2, <4>3, <2>3
    <3> QED
      BY <3>1, <3>2
  <2>6. e = c \o d
    <3> DEFINE f == c \o d
    <3>1. f \in Seq(Byte) /\ Len(f) = Len(e) /\ e \in Seq(Byte)
      BY <2>3, <2>4
    <3>2. \A i \in 1 .. Len(e) : e[i] = f[i]
      BY <2>3, <2>5
    <3> HIDE DEF f
    <3>3. e = f
      BY <3>1, <3>2, SameSeq
    <3> QED
      BY <3>3 DEF f
  <2> QED
    BY <2>6 DEF c, d, e
<1> QED
  BY <1>4, <1>6, <1>9, <1>10, <1>11 DEF all, in, sp, bytes, ReadNext
-----------------------------------------------------------------------------
(***************************************************************************)
(* SysPutStr.                                                              *)
(***************************************************************************)
\* How many bytes the first k pieces have.
BytesDone(len, k) == IF k * (P - 1) < len THEN k * (P - 1) ELSE len

LEMMA PieceCount ==
  ASSUME NEW len \in Nat
  PROVE  /\ Pieces(len) \in Nat /\ BytesDone(len, 0) = 0 /\ BytesDone(len, Pieces(len)) = len
         /\ len # 0 => Pieces(len) # 0
         /\ \A k \in 1 .. Pieces(len) : (k - 1) * (P - 1) < len
<1> DEFINE Q == P - 1
           a == len + Q - 1
           q == a \div Q
           m == a % Q
<1>1. Q \in Nat /\ Q > 0
  BY LayoutFacts
<1>2. Pieces(len) = q
  <2>1. len + PAGESIZE - 2 = a
    BY LayoutFacts DEF P
  <2> QED
    BY <2>1 DEF Pieces, P
<1> HIDE DEF Q
<1>3. a \in Nat
  BY <1>1
<1> HIDE DEF a
<1>4. q \in Nat /\ m \in Nat /\ m < Q /\ a = Q * q + m /\ Q * q = q * Q
  BY <1>1, <1>3
<1> HIDE DEF q, m
<1> DEFINE z == q * Q
<1>5. z \in Nat /\ a = z + m
  BY <1>1, <1>4
<1> HIDE DEF z
<1>6. len <= z /\ z - Q < len
  BY <1>1, <1>4, <1>5 DEF a
<1>7. BytesDone(len, 0) = 0
  <2>1. 0 * Q = 0
    BY <1>1
  <2> QED
    BY <2>1, <1>1 DEF BytesDone, Q
<1>8. BytesDone(len, q) = len
  <2>1. ~ (q * (P - 1) < len)
    BY <1>5, <1>6 DEF z, Q
  <2> QED
    BY <2>1 DEF BytesDone
<1>9. len # 0 => q # 0
  <2> SUFFICES ASSUME q = 0 PROVE len = 0
    OBVIOUS
  <2>1. z = 0
    BY <1>1 DEF z
  <2> QED
    BY <2>1, <1>6
<1>10. ASSUME NEW k \in 1 .. q PROVE (k - 1) * (P - 1) < len
  <2>1. (k - 1) * Q <= (q - 1) * Q
    BY <1>1, <1>4, MulMono
  <2>2. (q - 1) * Q = z - Q
    BY <1>1, <1>4 DEF z
  <2>3. (k - 1) * Q \in Nat
    BY <1>1, <1>4
  <2> QED
    BY <2>1, <2>2, <2>3, <1>1, <1>5, <1>6 DEF Q
<1> QED
  BY <1>2, <1>4, <1>7, <1>8, <1>9, <1>10

\* Where the k-th piece is, and how long.
At(k) == (k - 1) * (P - 1)
Size(len, k) == IF len - At(k) < P - 1 THEN len - At(k) ELSE P - 1

LEMMA PieceFacts ==
  ASSUME NEW len \in Nat, NEW k \in 1 .. Pieces(len)
  PROVE  /\ At(k) \in Nat /\ Size(len, k) \in Nat /\ 0 < Size(len, k) /\ Size(len, k) < P
         /\ At(k) + Size(len, k) <= len
         /\ BytesDone(len, k - 1) = At(k) /\ BytesDone(len, k) = At(k) + Size(len, k)
         /\ k = 1 => At(k) = 0
         /\ k = 2 => At(k) = P - 1
<1> DEFINE Q == P - 1
           pos == At(k)
           n == Size(len, k)
<1>1. Q \in Nat /\ Q > 0 /\ P = Q + 1
  BY LayoutFacts
<1> HIDE DEF Q
<1>2. k \in Nat /\ 1 <= k
  BY PieceCount
<1>3. pos = (k - 1) * Q /\ pos < len
  BY PieceCount DEF Q, At
<1>4. pos \in Nat
  BY <1>1, <1>2, <1>3
<1>5. k * Q = pos + Q
  BY <1>1, <1>2, <1>3
<1>6. n = IF len - pos < Q THEN len - pos ELSE Q
  BY DEF Size, Q
<1>7. BytesDone(len, k - 1) = pos
  BY <1>3 DEF BytesDone, Q
<1>8. BytesDone(len, k) = IF pos + Q < len THEN pos + Q ELSE len
  BY <1>5 DEF BytesDone, Q
<1>9. (k = 1 => pos = 0) /\ (k = 2 => pos = Q)
  BY <1>1, <1>3
<1> HIDE DEF pos, n
<1>10. n \in Nat /\ 0 < n /\ n <= Q /\ pos + n <= len
       /\ pos + n = IF pos + Q < len THEN pos + Q ELSE len
  BY <1>1, <1>3, <1>4, <1>6
<1> QED
  BY <1>1, <1>4, <1>7, <1>8, <1>9, <1>10 DEF pos, n, Q

LEMMA PrintedIs ==
  ASSUME NEW bytes, ZERO \notin Range(bytes)
  PROVE  Printed(bytes) = bytes
<1>1. {i \in DOMAIN bytes : bytes[i] = ZERO} = {}
  BY DEF Range
<1> QED
  BY <1>1 DEF Printed

\* A turn of SysPutStr's loop.
TurnIs(r, in, n, t) ==
  /\ r.errno # "E_SUCC" => t = r
  /\ r.errno = "E_SUCC" =>
       /\ t.sp = in.sp
       /\ Len(in.bytes) # n => t.errno = "E_MEM" /\ t.text = r.text
       /\ Len(in.bytes) = n => t.errno = "E_SUCC" /\ t.text = r.text \o Printed(in.bytes)

LEMMA PieceTurnIs ==
  ASSUME NEW r, NEW va, NEW len, NEW k
  PROVE  TurnIs(r, PTCopyIn(r.sp, uint32(va + At(k)), Size(len, k)), Size(len, k),
                PieceTurn(r, va, len, k))
BY DEF PieceTurn, PutPiece, At, Size, P, TurnIs

\* The bytes s has from va on have been read as far as done: those of m are the only
\* ones that got a page, and as long as pages were left all that were read are in text.
ReadSoFar(s, sp, text, va, m, done, any) ==
  /\ Kept(s, sp) /\ Given(s, sp, RangePages(va, m))
  /\ Enough(s, RangePages(va, m)) =>
       /\ Enough(sp, RangePages(va, m))
       /\ Missing(sp, RangePages(va, done)) = {}
       /\ any \/ ZERO \notin Range(Content(sp, va, done)) => text = Content(sp, va, done)

LEMMA NothingRead ==
  ASSUME NEW s \in Space, NEW va \in Nat, NEW m, NEW any
  PROVE  ReadSoFar(s, s, <<>>, va, m, 0, any)
<1>1. RangePages(va, 0) = {}
  <2>1. va .. va + 0 - 1 = {}
    OBVIOUS
  <2> QED
    BY <2>1 DEF RangePages
<1>2. Content(s, va, 0) = <<>>
  BY DEF Content
<1>3. Missing(s, {}) = {} /\ Given(s, s, RangePages(va, m))
  BY DEF Missing, Given
<1> QED
  BY <1>1, <1>2, <1>3, KeptSame DEF ReadSoFar

\* The next n bytes of m in the user half are read; shown is what is shown of them.
ReadOn(s, sp, text, in, va, m, done, n, any) ==
  \A shown : (any \/ ZERO \notin Range(in.bytes) => shown = in.bytes) =>
    ReadSoFar(s, in.sp, text \o shown, va, m, done + n, any)

LEMMA ReadNextPart ==
  ASSUME NEW s, NEW sp, NEW text, NEW va \in Nat, NEW m \in Nat, UserRange(va, m),
         NEW done \in Nat, NEW n \in Nat, done + n <= m, NEW any \in BOOLEAN,
         ReadSoFar(s, sp, text, va, m, done, any)
  PROVE  /\ InRange(uint32(va + done), n)
         /\ ReadOn(s, sp, text, PTCopyIn(sp, uint32(va + done), n), va, m, done, n, any)
<1> DEFINE b == va + done
           all == RangePages(va, m)
           in == PTCopyIn(sp, b, n)
           c == Content(sp, va, done)
           d == in.bytes
           e == Content(in.sp, va, done + n)
<1>1. /\ b \in Nat /\ UserRange(b, n) /\ uint32(b) = b /\ InRange(b, n)
      /\ RangePages(b, n) \subseteq all
  <2>1. MEM_USERLO \in Nat /\ MEM_USERHI \in Nat
    BY LayoutFacts
  <2>2. b \in Nat /\ UserRange(b, n)
    BY <2>1 DEF UserRange
  <2>3. b .. b + n - 1 \subseteq va .. va + m - 1
    OBVIOUS
  <2> HIDE DEF b
  <2>4. RangePages(b, n) \subseteq all
    BY <2>3 DEF RangePages
  <2> QED
    BY <2>2, <2>4, UserRangeFacts
<1>2. /\ Kept(s, sp) /\ sp \in Space /\ Given(s, sp, all)
      /\ Enough(s, all) =>
           /\ Enough(sp, all) /\ Missing(sp, RangePages(va, done)) = {}
           /\ any \/ ZERO \notin Range(c) => text = c
  BY DEF ReadSoFar, Kept
<1>3. PTCopyIn(sp, uint32(va + done), n) = in /\ InRange(uint32(va + done), n)
  BY <1>1
<1>4. ReadNext(sp, PTCopyIn(sp, uint32(va + done), n), va, m, done, n)
        \/ ~ Enough(s, all)
  BY <1>2, CopyInNext
<1>5. Enough(s, all) =>
        /\ Enough(in.sp, all) /\ Missing(in.sp, RangePages(va, done + n)) = {}
        /\ e = c \o d
  BY <1>3, <1>4 DEF ReadNext
<1> HIDE DEF b
<1>6. Kept(sp, in.sp) /\ d \in Seq(Byte)
  BY <1>1, <1>2, CopyInFacts
<1>7. Given(sp, in.sp, RangePages(b, n))
  BY <1>1, <1>2, CopyInGives
<1>8. c \in Seq(Byte)
  BY <1>2, ContentFacts
<1> HIDE DEF in, c, d, e, all
<1>9. Kept(s, in.sp) /\ Given(s, in.sp, all)
  <2>1. Given(sp, in.sp, all)
    BY <1>1, <1>7 DEF Given
  <2> QED
    BY <2>1, <1>2, <1>6, KeptTrans, GivenTrans
<1>10. ASSUME NEW shown, any \/ ZERO \notin Range(d) => shown = d, Enough(s, all),
              any \/ ZERO \notin Range(e)
       PROVE  text \o shown = e
  <2>0. e = c \o d
    BY <1>5, <1>10
  <2>1. Range(e) = Range(c) \cup Range(d)
    BY <2>0, <1>6, <1>8, ConcatRange
  <2>2. text = c /\ shown = d
    BY <2>1, <1>2, <1>10
  <2> QED
    BY <2>2, <1>5, <1>10
<1>11. ReadOn(s, sp, text, in, va, m, done, n, any)
  <2> SUFFICES ASSUME NEW shown, any \/ ZERO \notin Range(in.bytes) => shown = in.bytes
               PROVE  ReadSoFar(s, in.sp, text \o shown, va, m, done + n, any)
    BY DEF ReadOn
  <2>1. Enough(s, all) /\ (any \/ ZERO \notin Range(e)) => text \o shown = e
    BY <1>10 DEF d
  <2> QED
    BY <2>1, <1>5, <1>9 DEF ReadSoFar, all, e
<1> QED
  BY <1>3, <1>11

\* Of len bytes from va on m are read: all of them, or the pieces before the one
\* that leaves the user half, when the range wraps.
Readable(va, len, m) ==
  /\ UserRange(va, m) /\ m <= len
  /\ m # len => /\ \E c \in Nat : m = c * (P - 1)
                /\ MEM_USERHI < va + m + (P - 1) /\ WORD <= va + len

\* After k pieces: what is readable has been shown as far as it was read, and a piece
\* that is not readable has failed.
PieceInv(s, va, len, m, k, r) ==
  /\ ReadSoFar(s, r.sp, r.text, va, m, BytesDone(m, k), FALSE)
  /\ \/ r.errno = "E_SUCC" /\ BytesDone(m, k) = BytesDone(len, k)
     \/ r.errno = "E_MEM" /\ BytesDone(m, k) = m /\ m # len

LEMMA DoneStays ==
  ASSUME NEW m \in Nat, NEW k \in Nat, k # 0, BytesDone(m, k - 1) = m
  PROVE  BytesDone(m, k) = m
<1> DEFINE Q == P - 1
           x == (k - 1) * Q
<1>1. Q \in Nat
  BY LayoutFacts
<1> HIDE DEF Q
<1>2. x \in Nat /\ k * Q = x + Q
  BY <1>1
<1>3. BytesDone(m, k - 1) = (IF x < m THEN x ELSE m)
  BY DEF BytesDone, Q
<1> HIDE DEF x
<1>4. ~ (x < m)
  BY <1>2, <1>3
<1>5. ~ (k * Q < m)
  BY <1>1, <1>2, <1>4
<1> QED
  BY <1>5 DEF BytesDone, Q

\* The piece at pos is readable as a whole, or nothing behind pos is.
LEMMA PieceReadable ==
  ASSUME NEW va \in Nat, NEW len \in Nat, NEW m \in Nat, Readable(va, len, m),
         NEW k \in 1 .. Pieces(len), BytesDone(m, k - 1) = At(k)
  PROVE  \/ At(k) + Size(len, k) <= m /\ BytesDone(m, k) = At(k) + Size(len, k)
         \/ /\ m # len /\ At(k) = m /\ BytesDone(m, k) = m
            /\ ~ InRange(uint32(va + At(k)), Size(len, k))
<1> DEFINE Q == P - 1
           pos == At(k)
           n == Size(len, k)
<1>1. Q \in Nat /\ Q > 0 /\ P = Q + 1 /\ WORD \in Nat /\ MEM_USERHI \in Nat /\ MEM_USERHI + P <= WORD
  BY LayoutFacts
<1>2. /\ pos \in Nat /\ n \in Nat /\ 0 < n /\ n < P /\ pos + n <= len
      /\ BytesDone(len, k) = pos + n
  BY PieceFacts
<1>3. k \in Nat /\ 1 <= k
  BY PieceCount
<1>4. m <= len /\ va + m <= MEM_USERHI
      /\ (m # len => MEM_USERHI < va + m + Q /\ WORD <= va + len)
  BY DEF Readable, UserRange, Q
<1>5. n = IF len - pos < Q THEN len - pos ELSE Q
  BY DEF Size, Q
<1> HIDE DEF Q, n
<1>6. pos = (k - 1) * Q /\ k * Q = pos + Q
  BY <1>1, <1>3 DEF At, Q
<1> HIDE DEF pos
<1>7. pos <= m
  <2>1. BytesDone(m, k - 1) = IF pos < m THEN pos ELSE m
    BY <1>6 DEF BytesDone, Q
  <2> QED
    BY <2>1, <1>2 DEF pos
<1>8. CASE pos + n <= m
  <2>1. BytesDone(m, k) = IF pos + Q < m THEN pos + Q ELSE m
    BY <1>6 DEF BytesDone, Q
  <2>2. BytesDone(m, k) = pos + n
    BY <2>1, <1>1, <1>2, <1>4, <1>5, <1>8
  <2> QED
    BY <2>2, <1>8 DEF pos, n
<1>9. CASE ~ (pos + n <= m)
  <2>1. m # len /\ n <= Q
    BY <1>1, <1>2, <1>5, <1>9
  <2>2. PICK c \in Nat : m = c * Q
    BY <2>1 DEF Readable, Q
  <2>3. ~ (k <= c)
    <3> SUFFICES ASSUME k <= c PROVE FALSE
      OBVIOUS
    <3>1. k * Q <= c * Q
      BY <1>1, <1>3, MulMono
    <3> QED
      BY <3>1, <2>1, <2>2, <1>1, <1>2, <1>6, <1>9
  <2>4. ~ (c + 1 <= k - 1)
    <3> SUFFICES ASSUME c + 1 <= k - 1 PROVE FALSE
      OBVIOUS
    <3>1. (c + 1) * Q <= (k - 1) * Q
      BY <1>1, <1>3, MulMono
    <3>2. (c + 1) * Q = c * Q + Q
      BY <1>1
    <3> QED
      BY <3>1, <3>2, <2>2, <1>1, <1>2, <1>6, <1>7
  <2>5. c = k - 1
    BY <2>3, <2>4, <1>3
  <2>6. pos = m
    BY <2>2, <2>5, <1>6
  <2>7. BytesDone(m, k) = m
    BY <2>6, <1>1, <1>3, DoneStays DEF pos
  <2>8. ~ InRange(uint32(va + pos), n)
    <3> DEFINE x == va + pos
    <3>1. x \in Nat /\ x < WORD /\ x + n \in Nat /\ x + n < WORD /\ MEM_USERHI < x + n
      BY <2>1, <2>6, <1>1, <1>2, <1>4, <1>5
    <3> HIDE DEF x
    <3>2. uint32(x) = x /\ uint32(x + n) = x + n
      BY <3>1, LayoutFacts
    <3>3. ~ InRange(x, n)
      BY <3>1, <3>2, <1>1 DEF InRange
    <3> QED
      BY <3>2, <3>3 DEF x
  <2> QED
    BY <2>1, <2>6, <2>7, <2>8 DEF pos, n
<1> QED
  BY <1>8, <1>9

LEMMA PieceNext ==
  ASSUME NEW s, NEW va \in Nat, NEW len \in Nat, NEW m \in Nat, Readable(va, len, m),
         NEW k \in 1 .. Pieces(len), NEW r, PieceInv(s, va, len, m, k - 1, r)
  PROVE  PieceInv(s, va, len, m, k, PieceTurn(r, va, len, k))
<1> DEFINE pos == At(k)
           n == Size(len, k)
           b == uint32(va + pos)
           in == PTCopyIn(r.sp, b, n)
           t == PieceTurn(r, va, len, k)
<1>1. /\ pos \in Nat /\ n \in Nat /\ 0 < n
      /\ BytesDone(len, k - 1) = pos /\ BytesDone(len, k) = pos + n
  BY PieceFacts
<1>2. TurnIs(r, in, n, t)
  BY PieceTurnIs
<1>3. k \in Nat /\ k # 0
  BY PieceCount
<1>4. /\ ReadSoFar(s, r.sp, r.text, va, m, BytesDone(m, k - 1), FALSE)
      /\ \/ r.errno = "E_SUCC" /\ BytesDone(m, k - 1) = pos
         \/ r.errno = "E_MEM" /\ BytesDone(m, k - 1) = m /\ m # len
  BY <1>1 DEF PieceInv
<1>5. r.sp \in Space /\ b \in Nat
  BY <1>1, <1>4, WordAssumption DEF ReadSoFar, Kept, uint32
<1> HIDE DEF b
<1>6. /\ in.bytes \in Seq(Byte)
      /\ InRange(b, n) => Len(in.bytes) = n
      /\ ~ InRange(b, n) => in.sp = r.sp /\ Len(in.bytes) = 0
  <2>1. ~ InRange(b, n) => in.sp = r.sp
    BY DEF PTCopyIn
  <2> QED
    BY <2>1, <1>1, <1>5, CopyInFacts
<1> HIDE DEF in, t, n, pos
<1>7. CASE r.errno = "E_MEM"
  <2>1. t = r
    BY <1>2, <1>7 DEF TurnIs
  <2>2. BytesDone(m, k - 1) = m /\ m # len
    BY <1>4, <1>7
  <2>3. BytesDone(m, k) = m
    BY <2>2, <1>3, DoneStays
  <2> QED
    BY <2>1, <2>2, <2>3, <1>4, <1>7 DEF PieceInv, t
<1>8. CASE r.errno = "E_SUCC"
  <2>1. BytesDone(m, k - 1) = pos
    BY <1>4, <1>8
  <2>2. \/ pos + n <= m /\ BytesDone(m, k) = pos + n
        \/ m # len /\ pos = m /\ BytesDone(m, k) = m /\ ~ InRange(b, n)
    BY <2>1, PieceReadable DEF pos, n, b
  <2>3. CASE pos + n <= m /\ BytesDone(m, k) = pos + n
    <3>1. UserRange(va, m)
      BY DEF Readable
    <3>2. /\ InRange(uint32(va + pos), n)
          /\ ReadOn(s, r.sp, r.text, PTCopyIn(r.sp, uint32(va + pos), n), va, m, pos, n, FALSE)
      BY <3>1, <2>1, <2>3, <1>1, <1>4, ReadNextPart
    <3>3. InRange(b, n) /\ ReadOn(s, r.sp, r.text, in, va, m, pos, n, FALSE)
      BY <3>2 DEF in, b
    <3>4. t.sp = in.sp /\ t.errno = "E_SUCC" /\ t.text = r.text \o Printed(in.bytes)
      BY <3>3, <1>2, <1>6, <1>8 DEF TurnIs
    <3>5. ZERO \notin Range(in.bytes) => Printed(in.bytes) = in.bytes
      BY PrintedIs
    <3>6. ReadSoFar(s, t.sp, t.text, va, m, pos + n, FALSE)
      BY <3>3, <3>4, <3>5 DEF ReadOn
    <3> QED
      BY <3>4, <3>6, <2>3, <1>1 DEF PieceInv, t
  <2>4. CASE m # len /\ pos = m /\ BytesDone(m, k) = m /\ ~ InRange(b, n)
    <3>1. t.sp = r.sp /\ t.errno = "E_MEM" /\ t.text = r.text
      BY <2>4, <1>1, <1>2, <1>6, <1>8 DEF TurnIs
    <3> QED
      BY <3>1, <2>1, <2>4, <1>4 DEF PieceInv, t
  <2> QED
    BY <2>2, <2>3, <2>4
<1> QED
  BY <1>4, <1>7, <1>8

LEMMA PieceFits == P <= MEM_USERLO
<1>1. 1 <= MEM_USERLO_PI /\ MEM_USERLO_PI \in Nat
  BY LayoutAssumption
<1>2. P \in Nat
  BY LayoutFacts
<1>3. 1 * P <= MEM_USERLO_PI * P
  BY <1>1, <1>2, MulMono
<1> QED
  BY <1>2, <1>3, LayoutFacts

\* After k pieces from behind the user half: the program has got nothing, and only
\* the first piece was copied, if it wraps.
OutsideInv(s, va, len, k, r) ==
  /\ r.sp = s /\ r.text \in Seq({KERNEL}) /\ Len(r.text) <= P - 1
  /\ r.errno \in {"E_SUCC", "E_MEM"} /\ (k = 0 => r.text = <<>>)
  /\ r.errno = "E_SUCC" /\ k # 0 => k = 1 /\ WORD <= va + BytesDone(len, 1)

LEMMA KernelText ==
  ASSUME NEW bytes \in Seq({KERNEL})
  PROVE  Printed(bytes) = bytes /\ Range(bytes) \subseteq {KERNEL}
<1>1. Range(bytes) \subseteq {KERNEL}
  BY DEF Range
<1>2. ZERO \notin Range(bytes)
  BY <1>1 DEF ZERO, KERNEL
<1> QED
  BY <1>1, <1>2, PrintedIs

LEMMA OutsideNext ==
  ASSUME NEW s \in Space, NEW va \in Nat, MEM_USERHI < va, va < WORD, NEW len \in Nat,
         NEW k \in 1 .. Pieces(len), NEW r, OutsideInv(s, va, len, k - 1, r)
  PROVE  OutsideInv(s, va, len, k, PieceTurn(r, va, len, k))
<1> DEFINE pos == At(k)
           n == Size(len, k)
           b == uint32(va + pos)
           in == PTCopyIn(r.sp, b, n)
           t == PieceTurn(r, va, len, k)
<1>1. /\ pos \in Nat /\ n \in Nat /\ 0 < n /\ n < P
      /\ BytesDone(len, k - 1) = pos /\ BytesDone(len, k) = pos + n
      /\ (k = 1 => pos = 0) /\ (k = 2 => pos = P - 1)
  BY PieceFacts
<1>2. TurnIs(r, in, n, t)
  BY PieceTurnIs
<1>3. k \in Nat /\ k # 0
  BY PieceCount
<1>4. /\ MEM_USERLO \in Nat /\ MEM_USERHI \in Nat /\ WORD \in Nat /\ P \in Nat /\ P > 1
      /\ MEM_USERHI + P <= WORD /\ P <= MEM_USERLO
  BY LayoutFacts, PieceFits
<1>5. /\ r.sp = s /\ r.text \in Seq({KERNEL}) /\ Len(r.text) <= P - 1
      /\ r.errno \in {"E_SUCC", "E_MEM"} /\ (k = 1 => r.text = <<>>)
      /\ r.errno = "E_SUCC" /\ k # 1 => k = 2 /\ WORD <= va + pos
  BY <1>1, <1>3 DEF OutsideInv
<1>6. b \in Nat
  BY <1>1, WordAssumption DEF uint32
<1>7. CASE r.errno # "E_SUCC"
  <2> HIDE DEF in, t, n
  <2>1. t = r
    BY <1>2, <1>7 DEF TurnIs
  <2> QED
    BY <2>1, <1>3, <1>5, <1>7 DEF OutsideInv, t
<1>8. CASE r.errno = "E_SUCC" /\ k = 1
  <2>1. pos = 0 /\ b = va /\ r.text = <<>>
    <3>1. pos = 0 /\ va + pos = va
      BY <1>1, <1>8
    <3>2. uint32(va) = va
      BY LayoutFacts
    <3> QED
      BY <3>1, <3>2, <1>5, <1>8
  <2>2. in.sp = s /\ in.bytes \in Seq({KERNEL})
    <3>1. in = PTCopyIn(s, va, n)
      BY <2>1, <1>5
    <3> HIDE DEF in, n
    <3> QED
      BY <3>1, <1>1, <1>4, CopyInOutside
  <2>3. Len(in.bytes) = n => WORD <= va + n
    <3> SUFFICES ASSUME Len(in.bytes) = n, va + n < WORD PROVE FALSE
      BY <1>1, <1>4
    <3>1. InRange(va, n)
      <4>1. ~ InRange(va, n) => Len(in.bytes) = 0
        BY <2>1, <1>1, <1>5, CopyInFacts
      <4> HIDE DEF in, n
      <4> QED
        BY <4>1, <1>1
    <3> HIDE DEF in, n
    <3>2. uint32(va + n) = va + n
      BY <1>1, LayoutFacts
    <3> QED
      BY <3>1, <3>2, <1>1, <1>4 DEF InRange
  <2> HIDE DEF in, t, n, pos
  <2>4. CASE Len(in.bytes) = n
    <3>1. t.sp = s /\ t.errno = "E_SUCC" /\ t.text = r.text \o Printed(in.bytes)
      BY <2>2, <2>4, <1>2, <1>8 DEF TurnIs
    <3>2. t.text = in.bytes
      BY <3>1, <2>1, <2>2, KernelText
    <3>3. WORD <= va + BytesDone(len, 1)
      BY <2>1, <2>3, <2>4, <1>1, <1>8
    <3> QED
      BY <3>1, <3>2, <3>3, <2>2, <2>4, <1>1, <1>4, <1>8 DEF OutsideInv, t
  <2>5. CASE Len(in.bytes) # n
    <3>1. t.sp = s /\ t.errno = "E_MEM" /\ t.text = r.text
      BY <2>2, <2>5, <1>2, <1>8 DEF TurnIs
    <3> QED
      BY <3>1, <1>3, <1>5 DEF OutsideInv, t
  <2> QED
    BY <2>4, <2>5
<1>9. CASE r.errno = "E_SUCC" /\ k # 1
  <2>1. pos = P - 1 /\ WORD <= va + pos
    BY <1>1, <1>5, <1>9
  <2>2. b = va + pos - WORD
    <3> DEFINE x == va + pos
    <3>1. x \in Nat /\ WORD <= x /\ x < WORD + WORD
      <4> HIDE DEF pos
      <4> QED
        BY <2>1, <1>1, <1>4
    <3>2. b = uint32(x)
      OBVIOUS
    <3> HIDE DEF x, b
    <3>3. b = x - WORD
      BY <3>1, <3>2, Wraps
    <3> QED
      BY <3>3, <1>1, <1>4, <1>6 DEF x
  <2> HIDE DEF b, pos, n
  <2>3. b < MEM_USERLO
    BY <2>1, <2>2, <1>4
  <2>4. ~ InRange(b, n)
    BY <2>3, <1>4, <1>6 DEF InRange
  <2>5. in.sp = s /\ in.bytes = <<>>
    <3>1. in = [sp |-> s, bytes |-> <<>>]
      BY <2>4, <1>5 DEF PTCopyIn
    <3> HIDE DEF in
    <3> QED
      BY <3>1
  <2> HIDE DEF in, t
  <2>6. t.sp = s /\ t.errno = "E_MEM" /\ t.text = r.text
    <3>1. Len(in.bytes) # n
      BY <2>5, <1>1
    <3> QED
      BY <3>1, <2>5, <1>2, <1>9 DEF TurnIs
  <2> QED
    BY <2>6, <1>3, <1>5 DEF OutsideInv, t
<1> QED
  BY <1>7, <1>8, <1>9

\* After k pieces.
PiecesInv(s, va, len, k, r) ==
  /\ \A m \in Nat : Readable(va, len, m) => PieceInv(s, va, len, m, k, r)
  /\ MEM_USERHI < va => OutsideInv(s, va, len, k, r)

LEMMA FirstPiece ==
  ASSUME NEW s \in Space, NEW va \in Nat, NEW len \in Nat
  PROVE  PiecesInv(s, va, len, 0, NoText(s))
<1>1. NoText(s).sp = s /\ NoText(s).errno = "E_SUCC" /\ NoText(s).text = <<>>
  BY DEF NoText
<1>2. ASSUME NEW m \in Nat PROVE PieceInv(s, va, len, m, 0, NoText(s))
  <2>1. BytesDone(len, 0) = 0 /\ BytesDone(m, 0) = 0
    BY PieceCount
  <2>2. ReadSoFar(s, s, <<>>, va, m, 0, FALSE)
    BY NothingRead
  <2> QED
    BY <2>1, <2>2, <1>1 DEF PieceInv
<1>3. OutsideInv(s, va, len, 0, NoText(s))
  <2>1. P - 1 >= 0
    BY LayoutFacts
  <2> QED
    BY <2>1, <1>1 DEF OutsideInv
<1> QED
  BY <1>2, <1>3 DEF PiecesInv

LEMMA LastPiece ==
  ASSUME NEW s \in Space, NEW va \in Nat, va < WORD, NEW len \in Nat
  PROVE  PiecesInv(s, va, len, Pieces(len), PutPieces(s, va, len))
<1> DEFINE n == Pieces(len)
<1>1. n \in Nat
  BY PieceCount
<1>0. PICK w : PiecesRun(s, va, len, w)
  BY <1>1, PiecesUnfold
<1>2. /\ w[0] = NoText(s) /\ PutPieces(s, va, len) = w[n]
      /\ \A k \in 1 .. n : w[k] = PieceTurn(w[k - 1], va, len, k)
  BY <1>0 DEF PiecesRun
<1> HIDE DEF n
<1> DEFINE G == {k \in Nat : k <= n => PiecesInv(s, va, len, k, w[k])}
<1>3. 0 \in G
  BY <1>2, FirstPiece
<1>4. ASSUME NEW k \in Nat, k \in G PROVE k + 1 \in G
  <2> SUFFICES ASSUME k + 1 <= n PROVE PiecesInv(s, va, len, k + 1, w[k + 1])
    OBVIOUS
  <2> DEFINE j == k + 1
  <2>1. j \in 1 .. n /\ j - 1 = k
    BY <1>1
  <2>2. PiecesInv(s, va, len, k, w[k])
    BY <1>1, <1>4
  <2> HIDE DEF j
  <2>3. w[j] = PieceTurn(w[k], va, len, j)
    BY <2>1, <1>2
  <2>4. PiecesInv(s, va, len, j - 1, w[k])
    BY <2>1, <2>2
  <2>5. ASSUME NEW m \in Nat, Readable(va, len, m) PROVE PieceInv(s, va, len, m, j, w[j])
    <3>1. PieceInv(s, va, len, m, j - 1, w[k])
      BY <2>4, <2>5 DEF PiecesInv
    <3> QED
      BY <3>1, <2>1, <2>3, <2>5, PieceNext DEF n
  <2>6. ASSUME MEM_USERHI < va PROVE OutsideInv(s, va, len, j, w[j])
    <3>1. OutsideInv(s, va, len, j - 1, w[k])
      BY <2>4, <2>6 DEF PiecesInv
    <3> QED
      BY <3>1, <2>1, <2>3, <2>6, OutsideNext DEF n
  <2> QED
    BY <2>5, <2>6 DEF j, PiecesInv
<1>5. n \in G
  <2> HIDE DEF G
  <2> QED
    BY <1>1, <1>3, <1>4, NatSetInduction
<1>6. PiecesInv(s, va, len, n, w[n])
  BY <1>1, <1>5
<1> QED
  BY <1>2, <1>6 DEF n
-----------------------------------------------------------------------------
(***************************************************************************)
(* What a call promises.                                                   *)
(***************************************************************************)
ReadOf(va, len, piece) == IF UserRange(va, len) THEN len ELSE WholePieces(va, piece)

\* What CallContract says of the results of a call of which read bytes are read.
Outcome(s, r, nr, va, len, piece, read) ==
  /\ r.errno = "E_INVAL_ADDR" => r.sp = s /\ r.text = <<>> /\ ~ UserRange(va, len)
  /\ UserRange(va, len) => r.errno = "E_SUCC"
  /\ r.errno # "E_INVAL_ADDR" =>
       IF va <= MEM_USERHI
       THEN 2 * Cardinality(Absentees(s, va, read)) <= s.left =>
              /\ Absentees(r.sp, va, read) = {}
              /\ nr = "DISPBUF" \/ ZERO \notin Range(Content(r.sp, va, read))
                   => r.text = Content(r.sp, va, read)
       ELSE Len(r.text) <= piece /\ Range(r.text) \subseteq {KERNEL}
  /\ r.errno = "E_SUCC" =>
       \/ UserRange(va, len)
       \/ va + len >= WORD /\ (nr = "DISPBUF" \/ len <= piece)
Promise(s, r, nr, va, len, piece, read) ==
  /\ Kept(s, r.sp) /\ Given(s, r.sp, RangePages(va, read))
  /\ Outcome(s, r, nr, va, len, piece, read)
Promised(s, r, nr, va, len, piece) == Promise(s, r, nr, va, len, piece, ReadOf(va, len, piece))

LEMMA Refused ==
  ASSUME NEW s \in Space, NEW nr, NEW va \in Nat, NEW len \in Nat, NEW piece,
         ~ InRange(va, len)
  PROVE  Promised(s, [sp |-> s, errno |-> "E_INVAL_ADDR", text |-> <<>>], nr, va, len, piece)
<1>1. ~ UserRange(va, len)
  BY UserRangeFacts
<1>2. \A a : Given(s, s, a)
  BY DEF Given
<1> QED
  BY <1>1, <1>2, KeptSame DEF Promise, Promised, Outcome

\* A range that is accepted and does not lie in the user half wraps.
LEMMA AcceptedWraps ==
  ASSUME NEW va \in Nat, NEW len \in Nat, InRange(va, len), ~ UserRange(va, len)
  PROVE  WORD <= va + len
<1>1. MEM_USERLO \in Nat /\ MEM_USERHI \in Nat /\ WORD \in Nat
  BY LayoutFacts
<1> SUFFICES ASSUME va + len < WORD PROVE FALSE
  BY <1>1
<1>2. uint32(va + len) = va + len
  BY LayoutFacts
<1> QED
  BY <1>1, <1>2 DEF InRange, UserRange

\* What a string that starts in the user half shows.
LEMMA StringReadable ==
  ASSUME NEW va \in Nat, va <= MEM_USERHI, NEW len \in Nat, InRange(va, len)
  PROVE  /\ ReadOf(va, len, P - 1) \in Nat
         /\ Readable(va, len, ReadOf(va, len, P - 1))
<1>1. CASE UserRange(va, len)
  BY <1>1 DEF ReadOf, Readable
<1>2. CASE ~ UserRange(va, len)
  <2> DEFINE Q == P - 1
             x == MEM_USERHI - va
             c == x \div Q
             m == c * Q
  <2>1. /\ Q \in Nat /\ Q > 0 /\ MEM_USERLO \in Nat /\ MEM_USERHI \in Nat /\ WORD \in Nat
        /\ MEM_USERHI <= WORD
    BY LayoutFacts
  <2>2. MEM_USERLO <= va /\ WORD <= va + len
    BY <1>2, AcceptedWraps DEF InRange
  <2>3. ReadOf(va, len, P - 1) = m
    BY <1>2 DEF ReadOf, WholePieces
  <2>4. x \in Nat
    BY <2>1
  <2> HIDE DEF Q, x
  <2>5. c \in Nat /\ x % Q \in 0 .. Q - 1 /\ x = Q * c + (x % Q) /\ Q * c = m
    BY <2>1, <2>4
  <2> HIDE DEF c
  <2>6. m \in Nat
    BY <2>1, <2>5
  <2> DEFINE z == x % Q
  <2>7. x = m + z /\ z \in Nat /\ z < Q
    BY <2>1, <2>5
  <2> HIDE DEF z
  <2>8. m = c * Q
    OBVIOUS
  <2> HIDE DEF m
  <2>9. va + m <= MEM_USERHI /\ MEM_USERHI < va + m + Q
    BY <2>1, <2>6, <2>7 DEF x
  <2>10. m <= len /\ UserRange(va, m)
    BY <2>1, <2>2, <2>6, <2>9 DEF UserRange
  <2>11. Readable(va, len, m)
    BY <2>2, <2>5, <2>8, <2>9, <2>10 DEF Readable, Q
  <2> QED
    BY <2>3, <2>6, <2>11
<1> QED
  BY <1>1, <1>2

LEMMA PutStrPromised ==
  ASSUME NEW s \in Space, NEW va \in Nat, va < WORD, NEW len \in Nat
  PROVE  Promised(s, SysPutStr(s, va, len), "PUTSTR", va, len, PAGESIZE - 1)
<1> DEFINE r == SysPutStr(s, va, len)
           n == Pieces(len)
           read == ReadOf(va, len, P - 1)
<1>0. /\ MEM_USERLO \in Nat /\ MEM_USERHI \in Nat /\ WORD \in Nat /\ P \in Nat
      /\ uint32(va) = va
  BY LayoutFacts
<1>1. CASE ~ InRange(va, len)
  BY <1>1, Refused DEF SysPutStr
<1>2. ASSUME InRange(va, len)
      PROVE  PiecesInv(s, va, len, n, r)
  BY <1>2, LastPiece DEF SysPutStr
<1> HIDE DEF r
<1>3. n \in Nat /\ BytesDone(len, n) = len /\ (len # 0 => n # 0)
  BY PieceCount
<1> HIDE DEF n, read
<1>4. /\ Absentees(s, va, read) = Missing(s, RangePages(va, read))
      /\ Absentees(r.sp, va, read) = Missing(r.sp, RangePages(va, read))
  BY AbsenteesAre
<1>5. CASE InRange(va, len) /\ va <= MEM_USERHI
  <2>1. read \in Nat /\ Readable(va, len, read)
    BY <1>5, StringReadable DEF read
  <2>2. /\ ReadSoFar(s, r.sp, r.text, va, read, BytesDone(read, n), FALSE)
        /\ \/ r.errno = "E_SUCC" /\ BytesDone(read, n) = len
           \/ r.errno = "E_MEM" /\ BytesDone(read, n) = read /\ read # len
    BY <2>1, <1>2, <1>3, <1>5 DEF PiecesInv, PieceInv
  <2>3. read <= len /\ UserRange(va, read) /\ (UserRange(va, len) => read = len)
    BY <2>1 DEF Readable, ReadOf, read
  <2>4. BytesDone(read, n) <= read
    <3>1. n * (P - 1) \in Int
      BY <1>0, <1>3
    <3> QED
      BY <3>1, <2>1 DEF BytesDone
  <2>5. /\ BytesDone(read, n) = read
        /\ r.errno = "E_SUCC" => UserRange(va, len)
        /\ UserRange(va, len) => r.errno = "E_SUCC"
        /\ r.errno # "E_INVAL_ADDR"
    BY <2>1, <2>2, <2>3, <2>4
  <2>6. ReadSoFar(s, r.sp, r.text, va, read, read, FALSE)
    BY <2>2, <2>5
  <2>7. Promise(s, r, "PUTSTR", va, len, PAGESIZE - 1, read)
    BY <2>5, <2>6, <1>4, <1>5 DEF Promise, Outcome, ReadSoFar, Enough
  <2> QED
    BY <2>7 DEF Promised, r, read, P
<1>6. CASE InRange(va, len) /\ MEM_USERHI < va
  <2>1. /\ r.sp = s /\ r.text \in Seq({KERNEL}) /\ Len(r.text) <= P - 1
        /\ r.errno \in {"E_SUCC", "E_MEM"}
        /\ r.errno = "E_SUCC" /\ n # 0 => n = 1 /\ WORD <= va + BytesDone(len, 1)
    BY <1>2, <1>6 DEF PiecesInv, OutsideInv
  <2>2. ~ UserRange(va, len)
    BY <1>0, <1>6 DEF UserRange
  <2>3. n # 0
    <3>1. len = 0 => uint32(va + len) = va
      BY <1>0
    <3> QED
      BY <3>1, <1>0, <1>3, <1>6 DEF InRange
  <2>4. r.errno = "E_SUCC" => va + len >= WORD /\ len <= PAGESIZE - 1
    <3> SUFFICES ASSUME r.errno = "E_SUCC" PROVE va + len >= WORD /\ len <= PAGESIZE - 1
      OBVIOUS
    <3>1. n = 1 /\ BytesDone(len, 1) = len /\ WORD <= va + len
      BY <2>1, <2>3, <1>3
    <3>2. BytesDone(len, 1) = At(1) + Size(len, 1) /\ At(1) = 0 /\ Size(len, 1) \in Nat /\ Size(len, 1) < P
      BY <3>1, PieceFacts DEF n
    <3> QED
      BY <3>1, <3>2, <1>0 DEF P
  <2>5. Range(r.text) \subseteq {KERNEL}
    BY <2>1, KernelText
  <2>6. Kept(s, r.sp) /\ Given(s, r.sp, RangePages(va, read))
    BY <2>1, KeptSame DEF Given
  <2>7. ~ (va <= MEM_USERHI) /\ r.errno # "E_INVAL_ADDR"
    BY <2>1, <1>0, <1>6
  <2>8. Promise(s, r, "PUTSTR", va, len, PAGESIZE - 1, read)
    BY <2>1, <2>2, <2>4, <2>5, <2>6, <2>7 DEF Promise, Outcome, P
  <2> QED
    BY <2>8 DEF Promised, r, read, P
<1> QED
  BY <1>0, <1>1, <1>5, <1>6
-----------------------------------------------------------------------------
(***************************************************************************)
(* SysDisplayBuffer.                                                       *)
(***************************************************************************)
BufferBytes == PLANE_BYTES * PLANE_COUNT
PlaneTurn(r, va, k) == DisplayPlane(r, va, k - 1)
PlaneIs(r, in, t) == t.sp = in.sp /\ t.text = r.text \o in.bytes

LEMMA PlaneTurnIs ==
  ASSUME NEW r, NEW va, NEW k
  PROVE  PlaneIs(r, PTCopyIn(r.sp, uint32(va + (k - 1) * PLANE_BYTES), PLANE_BYTES), PlaneTurn(r, va, k))
BY DEF PlaneTurn, DisplayPlane, PlaneIs

LEMMA PlaneFacts ==
  /\ PLANE_BYTES \in Nat /\ PLANE_BYTES # 0 /\ PLANE_COUNT \in Nat
  /\ BufferBytes \in Nat /\ BufferBytes = PLANE_COUNT * PLANE_BYTES
  /\ BufferBytes <= MEM_USERLO /\ MEM_USERHI + BufferBytes < WORD /\ PLANE_BYTES <= BufferBytes
  /\ \A k \in 1 .. PLANE_COUNT :
       /\ (k - 1) * PLANE_BYTES \in Nat
       /\ (k - 1) * PLANE_BYTES + PLANE_BYTES = k * PLANE_BYTES
       /\ k * PLANE_BYTES <= BufferBytes
<1>1. /\ PLANE_BYTES \in Nat /\ PLANE_BYTES # 0 /\ PLANE_COUNT \in Nat /\ 1 <= PLANE_COUNT
      /\ BufferBytes <= MEM_USERLO /\ MEM_USERHI + BufferBytes < WORD
  BY UserSpaceAssumption DEF BufferBytes
<1>2. BufferBytes = PLANE_COUNT * PLANE_BYTES /\ BufferBytes \in Nat
  BY <1>1 DEF BufferBytes
<1>3. ASSUME NEW k \in 1 .. PLANE_COUNT
      PROVE  /\ (k - 1) * PLANE_BYTES \in Nat
             /\ (k - 1) * PLANE_BYTES + PLANE_BYTES = k * PLANE_BYTES
             /\ k * PLANE_BYTES <= BufferBytes
  BY <1>1, <1>2, MulMono
<1>4. 1 * PLANE_BYTES <= PLANE_COUNT * PLANE_BYTES
  BY <1>1, MulMono
<1> QED
  BY <1>1, <1>2, <1>3, <1>4

\* After k planes: a range in the user half has been read as far as that; of one
\* behind it nothing but the plane that wraps.
PlaneInv(s, va, k, r) ==
  /\ UserRange(va, BufferBytes) =>
       ReadSoFar(s, r.sp, r.text, va, BufferBytes, k * PLANE_BYTES, TRUE)
  /\ MEM_USERHI < va =>
       /\ r.sp = s /\ r.text \in Seq({KERNEL}) /\ Len(r.text) <= PLANE_BYTES
       /\ va + k * PLANE_BYTES < WORD => r.text = <<>>

LEMMA PlaneNext ==
  ASSUME NEW s \in Space, NEW va \in Nat, va < WORD,
         NEW k \in 1 .. PLANE_COUNT, NEW r, PlaneInv(s, va, k - 1, r)
  PROVE  PlaneInv(s, va, k, PlaneTurn(r, va, k))
<1> DEFINE len == BufferBytes
           pos == (k - 1) * PLANE_BYTES
           n == PLANE_BYTES
           b == uint32(va + pos)
           in == PTCopyIn(r.sp, b, n)
           t == PlaneTurn(r, va, k)
<1>1. /\ pos \in Nat /\ n \in Nat /\ n # 0 /\ pos + n <= len /\ k * PLANE_BYTES = pos + n
      /\ len \in Nat /\ len <= MEM_USERLO /\ MEM_USERHI + len < WORD
  BY PlaneFacts
<1>2. PlaneIs(r, in, t)
  BY PlaneTurnIs
<1>3. MEM_USERLO \in Nat /\ MEM_USERHI \in Nat /\ WORD \in Nat /\ MEM_USERLO < WORD
  <2>1. MEM_USERLO_PI <= MEM_USERHI_PI /\ MEM_USERLO_PI \in Nat /\ MEM_USERHI_PI \in Nat
    BY LayoutAssumption
  <2>2. MEM_USERLO_PI * P <= MEM_USERHI_PI * P
    BY <2>1, LayoutFacts, MulMono
  <2> QED
    BY <2>2, LayoutFacts
<1>4. ASSUME UserRange(va, len)
      PROVE  ReadSoFar(s, t.sp, t.text, va, len, pos + n, TRUE)
  <2>1. ReadSoFar(s, r.sp, r.text, va, len, pos, TRUE)
    BY <1>4 DEF PlaneInv
  <2> HIDE DEF pos, n, t, len
  <2>2. ReadOn(s, r.sp, r.text, PTCopyIn(r.sp, uint32(va + pos), n), va, len, pos, n, TRUE)
    BY <2>1, <1>1, <1>4, ReadNextPart
  <2>3. ReadOn(s, r.sp, r.text, in, va, len, pos, n, TRUE)
    BY <2>2
  <2> HIDE DEF in
  <2>4. ReadSoFar(s, in.sp, r.text \o in.bytes, va, len, pos + n, TRUE)
    BY <2>3 DEF ReadOn
  <2> QED
    BY <2>4, <1>2 DEF PlaneIs
<1>5. ASSUME MEM_USERHI < va
      PROVE  /\ t.sp = s /\ t.text \in Seq({KERNEL}) /\ Len(t.text) <= n
             /\ va + (pos + n) < WORD => t.text = <<>>
  <2>1. /\ r.sp = s /\ r.text \in Seq({KERNEL}) /\ Len(r.text) <= n
        /\ va + pos < WORD => r.text = <<>>
    BY <1>5 DEF PlaneInv
  <2> DEFINE x == va + pos
  <2> HIDE DEF pos, n, t, len
  <2>2. x \in Nat /\ x + n \in Nat /\ va <= x /\ b \in Nat
    BY <1>1, WordAssumption DEF uint32
  <2>3. CASE x + n < WORD
    <3>1. b = x /\ uint32(x + n) = x + n
      <4> HIDE DEF x
      <4> QED
        BY <2>2, <2>3, <1>1, <1>3, LayoutFacts DEF x
    <3>2. ~ InRange(b, n)
      BY <3>1, <2>2, <1>1, <1>3, <1>5 DEF InRange
    <3>3. in = [sp |-> s, bytes |-> <<>>]
      BY <3>2, <2>1 DEF PTCopyIn
    <3>4. r.text = <<>>
      BY <2>1, <2>2, <2>3, <1>1, <1>3
    <3> HIDE DEF in
    <3>5. t.sp = s /\ t.text = <<>>
      BY <3>3, <3>4, <1>2 DEF PlaneIs
    <3> QED
      BY <3>5, <1>1
  <2>4. CASE x < WORD /\ ~ (x + n < WORD)
    <3>1. b = x
      BY <2>2, <2>4, LayoutFacts
    <3>2. /\ in.sp = s /\ in.bytes \in Seq({KERNEL})
          /\ Len(in.bytes) = n \/ Len(in.bytes) = 0
      <4>1. in = PTCopyIn(s, x, n)
        BY <3>1, <2>1
      <4>0. MEM_USERHI <= x /\ n <= MEM_USERLO
        <5> HIDE DEF x
        <5> QED
          BY <2>2, <1>1, <1>3, <1>5
      <4> HIDE DEF in, x
      <4>2. Len(in.bytes) = n \/ Len(in.bytes) = 0
        BY <4>1, <2>2, <1>1, CopyInFacts
      <4> QED
        BY <4>0, <4>1, <4>2, <2>2, <2>4, <1>1, CopyInOutside
    <3>3. r.text = <<>>
      BY <2>1, <2>4
    <3> HIDE DEF in
    <3>4. t.sp = s /\ t.text = in.bytes
      BY <3>2, <3>3, <1>2 DEF PlaneIs
    <3>5. va + (pos + n) = x + n
      BY <1>1
    <3> HIDE DEF x
    <3> QED
      BY <3>2, <3>4, <3>5, <2>4, <1>1
  <2>5. CASE ~ (x < WORD)
    <3>1. b = x - WORD
      <4>1. WORD <= x /\ x < WORD + WORD
        BY <2>2, <2>5, <1>1, <1>3
      <4> HIDE DEF x
      <4> QED
        BY <4>1, <2>2, Wraps DEF x
    <3>2. b < MEM_USERLO
      BY <3>1, <2>2, <1>1, <1>3
    <3>3. ~ InRange(b, n)
      BY <3>2, <2>2, <1>3 DEF InRange
    <3>4. in = [sp |-> s, bytes |-> <<>>]
      BY <3>3, <2>1 DEF PTCopyIn
    <3> HIDE DEF in
    <3>5. t.sp = s /\ t.text = r.text
      BY <3>4, <2>1, <1>2 DEF PlaneIs
    <3> QED
      BY <3>5, <2>1, <2>2, <2>5, <1>1, <1>3
  <2> QED
    BY <2>3, <2>4, <2>5
<1> HIDE DEF in
<1> QED
  BY <1>1, <1>4, <1>5 DEF PlaneInv, t, len

LEMMA AllPlanes ==
  ASSUME NEW s \in Space, NEW va \in Nat, va < WORD
  PROVE  PlaneInv(s, va, PLANE_COUNT, DisplayUserBuffer(s, va))
<1> DEFINE n == PLANE_COUNT
<1>1. n \in Nat /\ PLANE_BYTES \in Nat
  BY PlaneFacts
<1>2. PICK w : /\ w[0] = [sp |-> s, text |-> <<>>] /\ DisplayUserBuffer(s, va) = w[n]
               /\ \A k \in 1 .. n : w[k] = PlaneTurn(w[k - 1], va, k)
  BY PlanesUnfold DEF PlaneTurn
<1> HIDE DEF n
<1> DEFINE G == {k \in Nat : k <= n => PlaneInv(s, va, k, w[k])}
<1>3. 0 \in G
  <2>1. 0 * PLANE_BYTES = 0
    BY <1>1
  <2>2. ReadSoFar(s, s, <<>>, va, BufferBytes, 0, TRUE)
    BY NothingRead
  <2>3. w[0].sp = s /\ w[0].text = <<>>
    BY <1>2
  <2>4. Len(w[0].text) <= PLANE_BYTES /\ w[0].text \in Seq({KERNEL})
    BY <2>3, <1>1
  <2>5. ReadSoFar(s, w[0].sp, w[0].text, va, BufferBytes, 0 * PLANE_BYTES, TRUE)
    BY <2>1, <2>2, <2>3
  <2>6. PlaneInv(s, va, 0, w[0])
    BY <2>3, <2>4, <2>5 DEF PlaneInv
  <2> QED
    BY <2>6
<1>4. ASSUME NEW k \in Nat, k \in G PROVE k + 1 \in G
  <2> SUFFICES ASSUME k + 1 <= n PROVE PlaneInv(s, va, k + 1, w[k + 1])
    OBVIOUS
  <2> DEFINE j == k + 1
  <2>1. j \in 1 .. n /\ j - 1 = k
    BY <1>1
  <2>2. PlaneInv(s, va, k, w[k])
    BY <1>1, <1>4
  <2> HIDE DEF j
  <2>3. w[j] = PlaneTurn(w[k], va, j)
    BY <2>1, <1>2
  <2>4. PlaneInv(s, va, j - 1, w[k])
    BY <2>1, <2>2
  <2>5. PlaneInv(s, va, j, w[j])
    BY <2>1, <2>3, <2>4, PlaneNext DEF n
  <2> QED
    BY <2>5 DEF j
<1>5. n \in G
  <2> HIDE DEF G
  <2> QED
    BY <1>1, <1>3, <1>4, NatSetInduction
<1>6. PlaneInv(s, va, n, w[n])
  BY <1>1, <1>5
<1> QED
  BY <1>2, <1>6 DEF n

LEMMA DisplayPromised ==
  ASSUME NEW s \in Space, NEW va \in Nat, va < WORD
  PROVE  Promised(s, SysDisplayBuffer(s, va), "DISPBUF", va, BufferBytes, PLANE_BYTES)
<1> DEFINE len == BufferBytes
           d == DisplayUserBuffer(s, va)
           r == SysDisplayBuffer(s, va)
<1>1. /\ len \in Nat /\ len = PLANE_COUNT * PLANE_BYTES /\ len = PLANE_BYTES * PLANE_COUNT
      /\ MEM_USERHI + len < WORD
  BY PlaneFacts DEF BufferBytes
<1>2. MEM_USERLO \in Nat /\ MEM_USERHI \in Nat /\ WORD \in Nat
  BY LayoutFacts
<1> HIDE DEF len
<1>3. CASE ~ InRange(va, len)
  <2>1. SysDisplayBuffer(s, va) = [sp |-> s, errno |-> "E_INVAL_ADDR", text |-> <<>>]
    BY <1>1, <1>3 DEF SysDisplayBuffer
  <2> QED
    BY <2>1, <1>1, <1>3, Refused DEF len
<1>4. CASE InRange(va, len)
  <2>1. r.sp = d.sp /\ r.errno = "E_SUCC" /\ r.text = d.text
    <3>1. r = [sp |-> d.sp, errno |-> "E_SUCC", text |-> d.text]
      BY <1>1, <1>4 DEF SysDisplayBuffer
    <3> HIDE DEF r, d
    <3> QED
      BY <3>1
  <2>2. PlaneInv(s, va, PLANE_COUNT, d)
    BY AllPlanes
  <2> HIDE DEF d, r
  <2>3. /\ UserRange(va, len) => ReadSoFar(s, r.sp, r.text, va, len, len, TRUE)
        /\ MEM_USERHI < va => /\ r.sp = s /\ r.text \in Seq({KERNEL})
                              /\ Len(r.text) <= PLANE_BYTES
    BY <2>1, <2>2, <1>1 DEF PlaneInv, len
  <2>4. CASE UserRange(va, len)
    <3>1. ReadOf(va, len, PLANE_BYTES) = len /\ va <= MEM_USERHI
      BY <2>4, <1>1, <1>2 DEF ReadOf, UserRange
    <3>2. /\ Absentees(s, va, len) = Missing(s, RangePages(va, len))
          /\ Absentees(r.sp, va, len) = Missing(r.sp, RangePages(va, len))
      BY AbsenteesAre
    <3>3. Promise(s, r, "DISPBUF", va, len, PLANE_BYTES, len)
      BY <3>1, <3>2, <2>1, <2>3, <2>4 DEF Promise, Outcome, ReadSoFar, Enough
    <3> QED
      BY <3>1, <3>3 DEF Promised, r, len
  <2>5. CASE ~ UserRange(va, len)
    <3>1. WORD <= va + len
      BY <2>5, <1>1, <1>4, AcceptedWraps
    <3>2. MEM_USERHI < va
      BY <3>1, <1>1, <1>2
    <3>3. /\ r.sp = s /\ Len(r.text) <= PLANE_BYTES
          /\ Range(r.text) \subseteq {KERNEL}
      BY <3>2, <2>3, KernelText
    <3>4. \A a : Kept(s, r.sp) /\ Given(s, r.sp, a)
      BY <3>3, KeptSame DEF Given
    <3>5. ~ (va <= MEM_USERHI) /\ va + len >= WORD
      BY <3>1, <3>2, <1>1, <1>2
    <3>6. \A read : Promise(s, r, "DISPBUF", va, len, PLANE_BYTES, read)
      BY <3>3, <3>4, <3>5, <2>1, <2>5 DEF Promise, Outcome
    <3> QED
      BY <3>6 DEF Promised, r, len
  <2> QED
    BY <2>4, <2>5
<1> QED
  BY <1>3, <1>4

\* The program's memory keeps its type.
LEMMA PutStrKeeps ==
  ASSUME NEW s \in Space, NEW va \in 0 .. WORD - 1, NEW len \in 0 .. WORD - 1
  PROVE  SysPutStr(s, va, len).sp \in Space
<1>1. va \in Nat /\ len \in Nat /\ va < WORD
  BY LayoutFacts
<1> QED
  BY <1>1, PutStrPromised DEF Promised, Promise, Kept

LEMMA DisplayKeeps ==
  ASSUME NEW s \in Space, NEW va \in 0 .. WORD - 1
  PROVE  SysDisplayBuffer(s, va).sp \in Space
<1>1. va \in Nat /\ va < WORD
  BY LayoutFacts
<1> QED
  BY <1>1, DisplayPromised DEF Promised, Promise, Kept
-----------------------------------------------------------------------------
(***************************************************************************)
(* The system calls in the kernel.                                         *)
(***************************************************************************)
CallInv == ImageInv /\ space \in Space

LEMMA InitCall == KernelInit => CallInv
<1>1. KernelInit => ImageInv
  BY DEF KernelInit, Init, ImageInv, LoadInv
<1>2. KernelInit => space \in Space
  BY DEF KernelInit, NewSpace, Space
<1> QED
  BY <1>1, <1>2 DEF CallInv

LEMMA KernelCallInv == CallInv /\ [KernelNext]_kernelVars => CallInv'
<1> SUFFICES ASSUME CallInv, [KernelNext]_kernelVars PROVE CallInv'
  OBVIOUS
<1>1. ImageInv'
  BY KernelImageInv DEF CallInv
<1>2. userPages \in Nat /\ LoadInv /\ space \in Space
  BY DEF CallInv, ImageInv
<1>3. CASE UNCHANGED userVars
  BY <1>1, <1>3 DEF CallInv, userVars
<1>4. CASE MonitorUser
  <2>1. (IF USER_QUOTA < userPages THEN USER_QUOTA ELSE userPages) \in Nat
    BY <1>2, KernelAssumption
  <2>2. space' \in Space
    BY <2>1, <1>4 DEF MonitorUser, NewSpace, Space
  <2> QED
    BY <1>1, <2>2 DEF CallInv
<1>5. CASE LoadPage
  <2>1. CASE phase' = "loading"
    BY <2>1, <1>1 DEF CallInv, ImageInv, LoadInv
  <2>2. CASE phase' # "loading"
    <3>1. phase = "loading" /\ load # <<>> /\ space' = AllocPage(space, Head(load).pg).sp
      BY <2>2, <1>5 DEF LoadPage
    <3>2. image \in Images /\ load \in Seq(ImagePages(image))
      BY <3>1, <1>2 DEF LoadInv
    <3>3. Head(load) \in ImagePages(image)
      BY <3>1, <3>2
    <3>4. PICK h \in Loadable(image) : \E pg \in AllPages(image[h]) : Head(load).pg = pg
      BY <3>3 DEF ImagePages
    <3>5. Head(load).pg \in UserWindow
      BY <3>2, <3>4, ImageOk, SegmentFacts
    <3>6. space' \in Space
      BY <3>1, <3>5, <1>2, AllocPageTakes
    <3> QED
      BY <3>6, <1>1 DEF CallInv
  <2> QED
    BY <2>1, <2>2
<1>6. ASSUME NEW pg \in UserWindow, PageFaultHandler(pg) PROVE CallInv'
  <2>1. space' = AllocPage(space, pg).sp
    BY <1>6 DEF PageFaultHandler
  <2>2. space' \in Space
    BY <2>1, <1>2, AllocPageTakes
  <2> QED
    BY <2>2, <1>1 DEF CallInv
<1>7. ASSUME NEW va \in 0 .. WORD - 1, NEW len \in 0 .. WORD - 1, Syscall("PUTSTR", va, len, ZERO)
      PROVE  CallInv'
  <2>1. space' = SysPutStr(space, va, len).sp
    BY <1>7 DEF Syscall, SyscallDispatch
  <2>2. space' \in Space
    BY <2>1, <1>2, PutStrKeeps
  <2> QED
    BY <2>2, <1>1 DEF CallInv
<1>8. ASSUME NEW va \in 0 .. WORD - 1, Syscall("DISPBUF", va, 0, ZERO) PROVE CallInv'
  <2>1. space' = SysDisplayBuffer(space, va).sp
    BY <1>8 DEF Syscall, SyscallDispatch
  <2>2. space' \in Space
    BY <2>1, <1>2, DisplayKeeps
  <2> QED
    BY <2>2, <1>1 DEF CallInv
<1>9. ASSUME NEW ch, Syscall("GETCHAR", 0, 0, ch) PROVE CallInv'
  <2>1. space' = space
    BY <1>9 DEF Syscall, SyscallDispatch
  <2> QED
    BY <2>1, <1>1 DEF CallInv
<1>10. CASE Syscall("OTHER", 0, 0, ZERO)
  <2>1. space' = space
    BY <1>10 DEF Syscall, SyscallDispatch
  <2> QED
    BY <2>1, <1>1 DEF CallInv
<1>11. CASE UNCHANGED space
  BY <1>1, <1>11 DEF CallInv
<1> QED
  <2>1. CASE Boot \/ MonitorRun \/ Output \/ Enter \/ ForceRunProcess
    BY <2>1, <1>3 DEF Boot, MonitorRun, Output, Enter, ForceRunProcess
  <2>2. ASSUME NEW ch \in Typed, Edit(ch) PROVE CallInv'
    BY <2>2, <1>3 DEF Edit
  <2>3. CASE Return
    BY <2>3, <1>11 DEF Return
  <2>4. CASE UNCHANGED kernelVars
    BY <2>4, <1>3 DEF kernelVars
  <2> QED
    BY <2>1, <2>2, <2>3, <2>4, <1>4, <1>5, <1>6, <1>7, <1>8, <1>9, <1>10
    DEF KernelNext, Main, Program

\* The promise, in the words of CallAnswered.
Answers(s, r, nr, va, len, piece, read) ==
  /\ \A pg \in UserWindow :
       r.sp.page[pg] # s.page[pg] =>
         s.page[pg] = Absent /\ \E a \in va .. va + read - 1 : PageOf(a) = pg
  /\ Outcome(s, r, nr, va, len, piece, read)

LEMMA PromiseAnswers ==
  ASSUME NEW s, NEW r, NEW nr, NEW va, NEW len, NEW piece, Promised(s, r, nr, va, len, piece)
  PROVE  Answers(s, r, nr, va, len, piece,
                 IF UserRange(va, len) THEN len ELSE WholePieces(va, piece))
<1> DEFINE read == ReadOf(va, len, piece)
<1>1. Promise(s, r, nr, va, len, piece, read)
  BY DEF Promised
<1>2. read = IF UserRange(va, len) THEN len ELSE WholePieces(va, piece)
  BY DEF ReadOf
<1> HIDE DEF read
<1>3. \A pg \in UserWindow :
        r.sp.page[pg] # s.page[pg] =>
          s.page[pg] = Absent /\ \E a \in va .. va + read - 1 : PageOf(a) = pg
  BY <1>1 DEF Promise, Kept, Given, RangePages
<1>4. Answers(s, r, nr, va, len, piece, read)
  BY <1>1, <1>3 DEF Answers, Promise
<1> QED
  BY <1>2, <1>4

LEMMA KernelCalls == CallInv /\ [KernelNext]_kernelVars => CallAnswered
<1> SUFFICES ASSUME CallInv, [KernelNext]_kernelVars,
                    frame = NoCall, frame' # NoCall, frame'.nr \in {"PUTSTR", "DISPBUF"}
             PROVE  CallAnswered
  BY DEF CallAnswered
<1>0. space \in Space
  BY DEF CallInv
<1>1. ASSUME NEW va \in 0 .. WORD - 1, NEW len \in 0 .. WORD - 1, Syscall("PUTSTR", va, len, ZERO)
      PROVE  CallAnswered
  <2> DEFINE r == SysPutStr(space, va, len)
             u == [sp |-> space', errno |-> frame'.errno, text |-> frame'.text]
  <2>1. va \in Nat /\ len \in Nat /\ va < WORD
    BY LayoutFacts
  <2>2. Promised(space, r, "PUTSTR", va, len, PAGESIZE - 1)
    BY <1>0, <2>1, PutStrPromised
  <2>3. /\ space' = r.sp
        /\ frame' = [nr |-> "PUTSTR", va |-> va, len |-> len, errno |-> r.errno, text |-> r.text]
    BY <1>1 DEF Syscall, SyscallDispatch
  <2> HIDE DEF r
  <2>4. u.sp = r.sp /\ u.errno = r.errno /\ u.text = r.text
    BY <2>3
  <2> HIDE DEF u
  <2>5. Promised(space, u, "PUTSTR", va, len, PAGESIZE - 1)
    BY <2>2, <2>4 DEF Promised, Promise, Outcome
  <2>6. Answers(space, u, "PUTSTR", va, len, PAGESIZE - 1,
                IF UserRange(va, len) THEN len ELSE WholePieces(va, PAGESIZE - 1))
    BY <2>5, PromiseAnswers
  <2>7. u.sp = space' /\ u.errno = frame'.errno /\ u.text = frame'.text
    BY DEF u
  <2>8. /\ frame'.nr = "PUTSTR" /\ frame'.va = va /\ frame'.len = len
    BY <2>3
  <2> QED
    BY <2>6, <2>7, <2>8 DEF Answers, Outcome, CallAnswered
<1>2. ASSUME NEW va \in 0 .. WORD - 1, Syscall("DISPBUF", va, 0, ZERO) PROVE CallAnswered
  <2> DEFINE r == SysDisplayBuffer(space, va)
             u == [sp |-> space', errno |-> frame'.errno, text |-> frame'.text]
  <2>1. va \in Nat /\ va < WORD
    BY LayoutFacts
  <2>2. Promised(space, r, "DISPBUF", va, BufferBytes, PLANE_BYTES)
    BY <1>0, <2>1, DisplayPromised
  <2>3. /\ space' = r.sp
        /\ frame' = [nr |-> "DISPBUF", va |-> va, len |-> 0, errno |-> r.errno, text |-> r.text]
    BY <1>2 DEF Syscall, SyscallDispatch
  <2> HIDE DEF r
  <2>4. u.sp = r.sp /\ u.errno = r.errno /\ u.text = r.text
    BY <2>3
  <2> HIDE DEF u
  <2>5. Promised(space, u, "DISPBUF", va, BufferBytes, PLANE_BYTES)
    BY <2>2, <2>4 DEF Promised, Promise, Outcome
  <2>6. Answers(space, u, "DISPBUF", va, BufferBytes, PLANE_BYTES,
                IF UserRange(va, BufferBytes) THEN BufferBytes ELSE WholePieces(va, PLANE_BYTES))
    BY <2>5, PromiseAnswers
  <2>7. u.sp = space' /\ u.errno = frame'.errno /\ u.text = frame'.text
    BY DEF u
  <2>8. /\ frame'.nr = "DISPBUF" /\ frame'.va = va
    BY <2>3
  <2> QED
    BY <2>6, <2>7, <2>8 DEF Answers, Outcome, CallAnswered, BufferBytes
<1>3. ASSUME NEW ch, Syscall("GETCHAR", 0, 0, ch) PROVE FALSE
  BY <1>3 DEF Syscall
<1>4. ~ Syscall("OTHER", 0, 0, ZERO)
  BY DEF Syscall
<1>5. frame' # frame
  OBVIOUS
<1>6. ~ (Boot \/ MonitorRun \/ Output \/ Enter \/ ForceRunProcess \/ MonitorUser \/ LoadPage)
  BY <1>5 DEF Boot, MonitorRun, Output, Enter, ForceRunProcess, MonitorUser, LoadPage, userVars
<1>7. ASSUME NEW ch \in Typed PROVE ~ Edit(ch)
  BY <1>5 DEF Edit, userVars
<1>8. ~ UNCHANGED kernelVars
  BY <1>5 DEF kernelVars, userVars
<1>9. ASSUME NEW pg \in UserWindow PROVE ~ PageFaultHandler(pg)
  BY <1>5 DEF PageFaultHandler
<1>10. ~ Return
  BY DEF Return
<1> QED
  BY <1>1, <1>2, <1>3, <1>4, <1>6, <1>7, <1>8, <1>9, <1>10 DEF KernelNext, Main, Program

\* A call that reads the program's memory changes no byte the program has and gives it
\* no page but those it reads; one that is refused has no effect; a range in the user
\* half is read to the end; any other is refused, or fails behind its whole pieces, or
\* shows the one piece that wraps: for every size of a page, a word and the screen.
THEOREM CallContractSafe == KernelSpec => CallContract
<1>1. KernelInit => CallInv
  BY InitCall
<1>2. CallInv /\ [KernelNext]_kernelVars => CallAnswered
  BY KernelCalls
<1> QED
  BY <1>1, <1>2, KernelCallInv, PTL DEF KernelSpec, CallContract
-----------------------------------------------------------------------------
(***************************************************************************)
(* The numbers printed.  A recursive function exists when the recursion    *)
(* ends: a has its domain, where it ends and with what, and otherwise of   *)
(* what it calls itself; Combined is what is made of the result.           *)
(***************************************************************************)
DigitOf(base, ch) == CHOOSE d \in 0 .. base - 1 : Digit(d) = ch

\* What is printed of the format fmt at a place and goes with an argument, and the
\* next place and argument.
FmtPiece(fmt, args, at) ==
  LET i == at[1]
  IN IF fmt[i] # "%" THEN <<fmt[i]>>
     ELSE IF i < Len(fmt) /\ fmt[i + 1] \in Directives THEN Convert(fmt[i + 1], args[at[2]])
     ELSE <<"%">>
FmtNext(fmt, at) ==
  LET i == at[1]
      j == at[2]
  IN IF fmt[i] # "%" THEN <<i + 1, j>>
     ELSE IF i < Len(fmt) /\ fmt[i + 1] \in Directives THEN <<i + 2, j + 1>>
     ELSE IF i < Len(fmt) /\ fmt[i + 1] = "%" THEN <<i + 2, j>>
     ELSE <<i + 1, j>>

Combined(a, s, x) ==
  CASE a.loop = "repeat" -> x
    [] a.loop = "PrintNum" -> Append(x, Digit(Modulo64by32(s, a.base)))
    [] a.loop = "VPrintFmt" -> FmtPiece(a.fmt, a.args, s) \o x
    [] a.loop = "Denotes" -> x * a.base + DigitOf(a.base, a.s[s])

Turned(a, s, f) == IF s \in a.ends THEN a.result[s] ELSE Combined(a, s, f[a.next[s]])
Recursion(a, f) == f = [s \in a.dom |-> Turned(a, s, f)]

LEMMA RecursionExists ==
  ASSUME NEW a, NEW m \in Nat, a.rank \in [a.dom -> 0 .. m],
         \A s \in a.dom : s \notin a.ends => a.next[s] \in a.dom /\ a.rank[a.next[s]] < a.rank[s]
  PROVE  \E f : Recursion(a, f)
<1> DEFINE G == {n \in Nat : \E f : /\ f = [s \in a.dom |-> f[s]]
                                    /\ \A s \in a.dom : a.rank[s] < n => f[s] = Turned(a, s, f)}
<1>1. 0 \in G
  <2> DEFINE f == [s \in a.dom |-> 0]
  <2>1. f = [s \in a.dom |-> f[s]]
    OBVIOUS
  <2>2. \A s \in a.dom : ~ (a.rank[s] < 0)
    OBVIOUS
  <2> HIDE DEF f, Turned
  <2> QED
    BY <2>1, <2>2
<1>2. ASSUME NEW n \in Nat, n \in G PROVE n + 1 \in G
  <2>1. PICK f : /\ f = [s \in a.dom |-> f[s]]
                 /\ \A s \in a.dom : a.rank[s] < n => f[s] = Turned(a, s, f)
    BY <1>2
  <2> DEFINE h == [s \in a.dom |-> Turned(a, s, f)]
  <2>2. h = [s \in a.dom |-> h[s]]
    <3> HIDE DEF Turned
    <3> QED
      OBVIOUS
  <2>3. ASSUME NEW s \in a.dom, a.rank[s] < n + 1 PROVE h[s] = Turned(a, s, h)
    <3>1. h[s] = Turned(a, s, f)
      BY <2>3 DEF h
    <3>2. CASE s \in a.ends
      BY <3>1, <3>2 DEF Turned
    <3>3. CASE s \notin a.ends
      <4> DEFINE t == a.next[s]
      <4>1. t \in a.dom /\ a.rank[t] < a.rank[s]
        BY <3>3
      <4>2. a.rank[t] \in 0 .. m /\ a.rank[s] \in 0 .. m
        BY <4>1
      <4>3. a.rank[t] < n
        BY <4>1, <4>2, <2>3
      <4>4. f[t] = Turned(a, t, f)
        BY <2>1, <4>1, <4>3
      <4>5. h[t] = Turned(a, t, f)
        <5> HIDE DEF Turned
        <5> QED
          BY <4>1
      <4>6. Turned(a, s, f) = Combined(a, s, f[t]) /\ Turned(a, s, h) = Combined(a, s, h[t])
        BY <3>3 DEF Turned
      <4> QED
        BY <3>1, <4>4, <4>5, <4>6
    <3> QED
      BY <3>2, <3>3
  <2> HIDE DEF h, Turned
  <2> QED
    BY <2>2, <2>3
<1>3. m + 1 \in G
  <2> HIDE DEF G
  <2> QED
    BY <1>1, <1>2, NatSetInduction
<1>4. PICK f : /\ f = [s \in a.dom |-> f[s]]
               /\ \A s \in a.dom : a.rank[s] < m + 1 => f[s] = Turned(a, s, f)
  BY <1>3
<1>5. \A s \in a.dom : a.rank[s] < m + 1
  OBVIOUS
<1>6. \A s \in a.dom : f[s] = Turned(a, s, f)
  BY <1>4, <1>5
<1>7. f = [s \in a.dom |-> Turned(a, s, f)]
  <2> HIDE DEF Turned
  <2>1. f = [s \in a.dom |-> f[s]]
    BY <1>4
  <2> QED
    BY <2>1, <1>6
<1> QED
  BY <1>7 DEF Recursion
-----------------------------------------------------------------------------
\* The powers of two.
Doubling(S) == 1 \in S /\ \A x \in S : 2 * x \in S
Powers == {d \in Nat : \A S \in SUBSET Nat : Doubling(S) => d \in S}

LEMMA PowersFacts ==
  /\ 1 \in Powers
  /\ \A d \in Powers : d \in Nat /\ 2 * d \in Powers
  /\ \A d \in Powers : d # 1 => \E c \in Powers : d = 2 * c
  /\ \A d \in Powers : d > 0
<1>1. 1 \in Powers
  BY DEF Powers, Doubling
<1>2. \A d \in Powers : d \in Nat /\ 2 * d \in Powers
  BY DEF Powers, Doubling
<1>3. \A d \in Powers : d # 1 => \E c \in Powers : d = 2 * c
  <2> DEFINE S == {d \in Nat : d = 1 \/ \E c \in Powers : d = 2 * c}
  <2>1. 1 \in S
    OBVIOUS
  <2>2. ASSUME NEW x \in S PROVE 2 * x \in S
    <3>1. x \in Powers
      BY <1>1, <1>2
    <3>2. 2 * x \in Nat
      OBVIOUS
    <3> QED
      BY <3>1, <3>2
  <2>3. Doubling(S)
    BY <2>1, <2>2 DEF Doubling
  <2>4. S \in SUBSET Nat
    OBVIOUS
  <2>5. \A d \in Powers : d \in S
    <3> HIDE DEF S
    <3> QED
      BY <2>3, <2>4 DEF Powers
  <2> QED
    BY <2>5
<1>4. \A d \in Powers : d > 0
  <2> DEFINE S == {d \in Nat : d > 0}
  <2>1. Doubling(S) /\ S \in SUBSET Nat
    BY DEF Doubling
  <2>2. \A d \in Powers : d \in S
    <3> HIDE DEF S
    <3> QED
      BY <2>1 DEF Powers
  <2> QED
    BY <2>2
<1> QED
  BY <1>1, <1>2, <1>3, <1>4

LEMMA WordFacts ==
  /\ WORD \in Nat /\ WORD > 16 /\ DWORD \in Nat /\ DWORD = WORD * WORD /\ WORD < DWORD
  /\ DWORD \div 2 \in Nat /\ DWORD = (DWORD \div 2) + (DWORD \div 2)
  /\ Number = 0 .. DWORD - 1
<1>1. WORD \in Nat /\ WORD > 16 /\ DWORD = WORD * WORD /\ WORD % 2 = 0
  BY WordAssumption DEF DWORD
<1>2. DWORD \in Nat /\ WORD < DWORD
  <2>1. 2 * WORD <= WORD * WORD
    BY <1>1, MulMono
  <2> QED
    BY <1>1, <2>1
<1>3. DWORD % 2 = 0
  <2> DEFINE k == WORD \div 2
  <2>1. WORD = 2 * k /\ k \in Nat
    BY <1>1
  <2> HIDE DEF k
  <2>2. k * WORD \in Nat /\ DWORD = (k * WORD) * 2 + 0
    BY <1>1, <2>1
  <2> QED
    BY <2>2, Digit2
<1>4. DWORD \div 2 \in Nat /\ DWORD = (DWORD \div 2) + (DWORD \div 2)
  BY <1>2, <1>3
<1> QED
  BY <1>1, <1>2, <1>4 DEF Number

LEMMA SameNumber == \A n \in Number : uint64(n) = n
<1>1. \A n \in Nat, m \in Nat : n < m => n % m = n
  OBVIOUS
<1> QED
  BY <1>1, WordFacts DEF uint64

\* The first loop of DivideAndMod64by32.
DoublingLoop(rem) ==
  [loop |-> "repeat", dom |-> [b : Number, d : Number],
   ends |-> {s \in [b : Number, d : Number] : ~ (0 < s.b /\ s.b < DWORD \div 2 /\ s.b < rem)},
   result |-> [s \in [b : Number, d : Number] |-> s],
   next |-> [s \in [b : Number, d : Number] |-> [b |-> uint64(s.b + s.b), d |-> uint64(s.d + s.d)]],
   rank |-> [s \in [b : Number, d : Number] |-> DWORD - s.b]]

DoubleTurn(rem, f, s) ==
  IF 0 < s.b /\ s.b < DWORD \div 2 /\ s.b < rem
  THEN f[[b |-> uint64(s.b + s.b), d |-> uint64(s.d + s.d)]] ELSE s

LEMMA DoublingUnfolds ==
  ASSUME NEW rem, NEW base
  PROVE  \E f : /\ \A s \in [b : Number, d : Number] : f[s] = DoubleTurn(rem, f, s)
                /\ Doubled(rem, base) = f[[b |-> base, d |-> 1]]
<1> DEFINE D == [b : Number, d : Number]
           a == DoublingLoop(rem)
           Is(f) == f = [s \in D |-> DoubleTurn(rem, f, s)]
           g == CHOOSE f : Is(f)
<1>1. Doubled(rem, base) = g[[b |-> base, d |-> 1]]
  BY DEF Doubled, DoubleTurn
<1>2. /\ a.dom = D /\ a.loop = "repeat"
      /\ \A s \in D : /\ s \notin a.ends <=> (0 < s.b /\ s.b < DWORD \div 2 /\ s.b < rem)
                      /\ a.result[s] = s
                      /\ a.next[s] = [b |-> uint64(s.b + s.b), d |-> uint64(s.d + s.d)]
                      /\ a.rank[s] = DWORD - s.b
      /\ a.rank = [s \in D |-> DWORD - s.b]
  BY DEF DoublingLoop
<1>3. a.rank \in [a.dom -> 0 .. DWORD]
  <2>1. \A s \in D : DWORD - s.b \in 0 .. DWORD
    BY WordFacts
  <2> HIDE DEF a, D
  <2> QED
    BY <1>2, <2>1
<1>4. ASSUME NEW s \in a.dom, s \notin a.ends
      PROVE  a.next[s] \in a.dom /\ a.rank[a.next[s]] < a.rank[s]
  <2>1. s \in D /\ s.b \in Number /\ s.d \in Number /\ 0 < s.b /\ s.b < DWORD \div 2
    <3> HIDE DEF a
    <3>1. s \in D
      BY <1>2, <1>4
    <3> QED
      BY <1>2, <1>4, <3>1
  <2>2. s.b + s.b \in Number /\ uint64(s.b + s.b) = s.b + s.b
    <3> DEFINE x == s.b
               y == DWORD \div 2
    <3>1. DWORD \in Nat /\ y \in Nat /\ DWORD = y + y /\ x \in 0 .. DWORD - 1 /\ x < y
      BY <2>1, WordFacts
    <3> HIDE DEF x, y
    <3>2. x + x \in 0 .. DWORD - 1
      BY <3>1
    <3> QED
      BY <3>2, WordFacts, SameNumber DEF x
  <2>3. uint64(s.d + s.d) \in Number
    <3>1. \A n \in Nat, m \in Nat : m > 0 => n % m \in 0 .. m - 1
      OBVIOUS
    <3> QED
      <4>1. DWORD \in Nat /\ DWORD > 0 /\ Number = 0 .. DWORD - 1
        BY WordFacts
      <4>2. s.d + s.d \in Nat
        BY <2>1, <4>1
      <4> QED
        BY <4>1, <4>2, <3>1 DEF uint64
  <2>4. a.next[s] \in D /\ a.next[s].b = s.b + s.b
    <3> HIDE DEF a
    <3> QED
      <4>1. a.next[s] = [b |-> s.b + s.b, d |-> uint64(s.d + s.d)]
        BY <1>2, <2>1, <2>2
      <4>2. [b |-> s.b + s.b, d |-> uint64(s.d + s.d)] \in [b : Number, d : Number]
        BY <2>2, <2>3
      <4> QED
        BY <4>1, <4>2
  <2>5. a.rank[a.next[s]] = DWORD - (s.b + s.b) /\ a.rank[s] = DWORD - s.b
    <3> HIDE DEF a, D
    <3> QED
      BY <1>2, <2>1, <2>4
  <2> QED
    BY <1>2, <2>1, <2>4, <2>5, WordFacts
<1>5. DWORD \in Nat
  BY WordFacts
<1>6. PICK h : Recursion(a, h)
  <2> HIDE DEF a
  <2> QED
    BY <1>3, <1>4, <1>5, RecursionExists
<1>7. ASSUME NEW s \in D PROVE Turned(a, s, h) = DoubleTurn(rem, h, s)
  <2> HIDE DEF a, D
  <2> QED
    BY <1>2 DEF Turned, Combined, DoubleTurn
<1>8. Is(h)
  <2> HIDE DEF a, D
  <2> QED
    BY <1>2, <1>6, <1>7 DEF Recursion
<1>9. Is(g)
  <2> HIDE DEF Is
  <2> QED
    BY <1>8
<1> HIDE DEF g
<1> QED
  BY <1>1, <1>9

\* The divisor and its multiplier are doubled alike, without overflow, until twice
\* the divisor is more than the rest.
LEMMA DoubledIs ==
  ASSUME NEW rem \in Number, NEW base \in 1 .. WORD - 1
  PROVE  LET top == Doubled(rem, base) IN
         /\ top \in [b : Number, d : Number] /\ top.d \in Powers
         /\ top.b = base * top.d /\ rem < 2 * top.b
<1> DEFINE D == [b : Number, d : Number]
           Top(t) == t \in D /\ t.d \in Powers /\ t.b = base * t.d /\ rem < 2 * t.b
<1>1. PICK f : /\ \A s \in D : f[s] = DoubleTurn(rem, f, s)
               /\ Doubled(rem, base) = f[[b |-> base, d |-> 1]]
  BY DoublingUnfolds
<1> DEFINE G == {n \in Nat : \A s \in D : /\ s.d \in Powers /\ s.b = base * s.d
                                          /\ DWORD - s.b <= n
                                          => Top(f[s])}
<1>2. 0 \in G
  BY WordFacts
<1>3. ASSUME NEW n \in Nat, n \in G PROVE n + 1 \in G
  <2>1. ASSUME NEW s \in D, s.d \in Powers, s.b = base * s.d, DWORD - s.b <= n + 1
        PROVE  Top(f[s])
    <3> DEFINE t == [b |-> uint64(s.b + s.b), d |-> uint64(s.d + s.d)]
    <3>0. s.b \in Nat /\ s.d \in Nat /\ s.b < DWORD /\ s.d < DWORD /\ base \in Nat /\ base >= 1 /\ s.d > 0
      BY <2>1, WordFacts, PowersFacts
    <3>1. s.d <= s.b
      <4>1. 1 * s.d <= base * s.d
        BY <3>0, MulMono
      <4> QED
        BY <4>1, <3>0, <2>1
    <3>2. CASE 0 < s.b /\ s.b < DWORD \div 2 /\ s.b < rem
      <4>1. s.b + s.b \in Number /\ s.d + s.d \in Number
        BY <3>0, <3>1, <3>2, WordFacts
      <4>2. t = [b |-> s.b + s.b, d |-> s.d + s.d]
        BY <4>1, SameNumber
      <4>3. t \in D /\ t.b = s.b + s.b /\ t.d = s.d + s.d
        <5> HIDE DEF t
        <5> QED
          BY <4>1, <4>2
      <4>4. t.d \in Powers
        <5>1. t.d = 2 * s.d
          BY <4>3, <3>0
        <5> QED
          BY <5>1, <2>1, PowersFacts
      <4>5. t.b = base * t.d
        <5>1. base * (s.d + s.d) = base * s.d + base * s.d
          BY <3>0
        <5> HIDE DEF t
        <5> QED
          BY <5>1, <4>3, <2>1
      <4>6. DWORD - t.b <= n
        <5> HIDE DEF t
        <5> QED
          <6>1. DWORD \in Nat
            BY WordFacts
          <6> QED
            BY <6>1, <4>3, <3>0, <3>2, <2>1
      <4>7. Top(f[t])
        <5> HIDE DEF t, Top
        <5> QED
          BY <1>3, <4>3, <4>4, <4>5, <4>6
      <4>8. f[s] = f[t]
        BY <1>1, <3>2 DEF DoubleTurn
      <4> QED
        <5> HIDE DEF t, Top
        <5> QED
          BY <4>7, <4>8
    <3>3. CASE ~ (0 < s.b /\ s.b < DWORD \div 2 /\ s.b < rem)
      <4>1. f[s] = s
        BY <1>1, <3>3 DEF DoubleTurn
      <4>2. rem < 2 * s.b
        BY <3>0, <3>1, <3>3, WordFacts
      <4> QED
        BY <4>1, <4>2, <2>1
    <3> QED
      BY <3>2, <3>3
  <2> HIDE DEF Top
  <2> QED
    BY <2>1
<1>4. DWORD \in G
  <2> HIDE DEF G
  <2> QED
    BY <1>2, <1>3, NatSetInduction, WordFacts
<1> DEFINE s == [b |-> base, d |-> 1]
<1>5. s \in D /\ s.b = base /\ s.d = 1
  BY WordFacts
<1>6. s.d \in Powers /\ s.b = base * s.d /\ DWORD - s.b <= DWORD
  <2> HIDE DEF s
  <2> QED
    BY <1>5, PowersFacts, WordFacts
<1>7. Top(f[s])
  <2> HIDE DEF Top, s
  <2> QED
    BY <1>4, <1>5, <1>6
<1> QED
  BY <1>1, <1>7
LEMMA DivMod ==
  ASSUME NEW x \in Nat, NEW m \in Nat, m > 0
  PROVE  /\ x \div m \in Nat /\ x % m \in Nat /\ x % m < m
         /\ x = m * (x \div m) + (x % m) /\ x = (x \div m) * m + (x % m)
<1> DEFINE q == x \div m
           r == x % m
<1>1. q \in Int /\ r \in Nat /\ r < m /\ x = m * q + r /\ m * q = q * m
  OBVIOUS
<1> HIDE DEF q, r
<1>2. ~ (q < 0)
  <2> SUFFICES ASSUME q < 0 PROVE FALSE
    OBVIOUS
  <2>1. (q + 1) * m <= 0 * m
    BY <1>1, MulMono
  <2>2. (q + 1) * m = q * m + m /\ 0 * m = 0
    BY <1>1
  <2> QED
    BY <2>1, <2>2, <1>1
<1> QED
  BY <1>1, <1>2 DEF q, r
-----------------------------------------------------------------------------
\* The second loop of DivideAndMod64by32.
Division == [rem : Number, res : Number, b : Number, d : Number]
Halved(s) ==
  LET half == [s EXCEPT !.b = @ \div 2, !.d = @ \div 2]
  IN IF s.rem >= s.b THEN [half EXCEPT !.rem = @ - s.b, !.res = uint64(@ + s.d)] ELSE half
HalvingLoop ==
  [loop |-> "repeat", dom |-> Division, ends |-> {s \in Division : s.d = 0},
   result |-> [s \in Division |-> [quotient |-> s.res, remainder |-> uint32(s.rem)]],
   next |-> [s \in Division |-> Halved(s)], rank |-> [s \in Division |-> s.d]]
HalveTurn(f, s) ==
  IF s.d = 0 THEN [quotient |-> s.res, remainder |-> uint32(s.rem)]
  ELSE LET half == [s EXCEPT !.b = @ \div 2, !.d = @ \div 2]
       IN IF s.rem >= s.b
          THEN f[[half EXCEPT !.rem = @ - s.b, !.res = uint64(@ + s.d)]]
          ELSE f[half]

LEMMA HalveTurnIs ==
  ASSUME NEW f, NEW s
  PROVE  HalveTurn(f, s) = IF s.d = 0 THEN [quotient |-> s.res, remainder |-> uint32(s.rem)]
                           ELSE f[Halved(s)]
<1>1. CASE s.d = 0
  BY <1>1 DEF HalveTurn
<1>2. CASE s.d # 0 /\ s.rem >= s.b
  BY <1>2 DEF HalveTurn, Halved
<1>3. CASE s.d # 0 /\ ~ (s.rem >= s.b)
  BY <1>3 DEF HalveTurn, Halved
<1> QED
  BY <1>1, <1>2, <1>3

LEMMA HalvedIs ==
  ASSUME NEW s \in Division
  PROVE  /\ Halved(s) \in Division
         /\ Halved(s).b = s.b \div 2 /\ Halved(s).d = s.d \div 2
         /\ s.rem >= s.b => Halved(s).rem = s.rem - s.b /\ Halved(s).res = uint64(s.res + s.d)
         /\ ~ (s.rem >= s.b) => Halved(s).rem = s.rem /\ Halved(s).res = s.res
<1> DEFINE rem == s.rem
           res == s.res
           b == s.b
           d == s.d
<1>1. /\ s = [rem |-> rem, res |-> res, b |-> b, d |-> d]
      /\ rem \in Number /\ res \in Number /\ b \in Number /\ d \in Number
  BY DEF Division
<1>2. DWORD \in Nat /\ DWORD > 0 /\ Number = 0 .. DWORD - 1
  BY WordFacts
<1> HIDE DEF rem, res, b, d
<1>3. b \div 2 \in Number /\ d \div 2 \in Number
  BY <1>1, <1>2
<1>4. uint64(res + d) \in Number
  <2>1. \A n \in Nat, m \in Nat : m > 0 => n % m \in 0 .. m - 1
    OBVIOUS
  <2>2. res + d \in Nat
    BY <1>1, <1>2
  <2> QED
    BY <2>1, <2>2, <1>2 DEF uint64
<1>5. CASE rem >= b
  <2>1. Halved(s) = [rem |-> rem - b, res |-> uint64(res + d), b |-> b \div 2, d |-> d \div 2]
    BY <1>1, <1>5 DEF Halved
  <2>2. rem - b \in Number
    BY <1>1, <1>2, <1>5
  <2> QED
    BY <2>1, <2>2, <1>1, <1>3, <1>4, <1>5 DEF Division, rem, b, res, d
<1>6. CASE ~ (rem >= b)
  <2>1. Halved(s) = [rem |-> rem, res |-> res, b |-> b \div 2, d |-> d \div 2]
    BY <1>1, <1>6 DEF Halved
  <2> QED
    BY <2>1, <1>1, <1>3, <1>6 DEF Division, rem, b, res, d
<1> QED
  BY <1>5, <1>6

High(n, base) == LET high == n \div WORD IN IF high >= base THEN high \div base ELSE 0
Rest(n, base) == uint64(n - uint32(High(n, base) * base) * WORD)
DivisionStart(n, base) ==
  [rem |-> Rest(n, base), res |-> High(n, base) * WORD,
   b |-> Doubled(Rest(n, base), base).b, d |-> Doubled(Rest(n, base), base).d]

LEMMA HalvingUnfolds ==
  ASSUME NEW n, NEW base
  PROVE  \E f : /\ \A s \in Division : f[s] = HalveTurn(f, s)
                /\ DivideAndMod64by32(n, base) = f[DivisionStart(n, base)]
<1> DEFINE a == HalvingLoop
           Is(f) == f = [s \in Division |-> HalveTurn(f, s)]
           g == CHOOSE f : Is(f)
<1>1. DivideAndMod64by32(n, base) = g[DivisionStart(n, base)]
  BY DEF DivideAndMod64by32, HalveTurn, Division, DivisionStart, High, Rest
<1>2. /\ a.dom = Division /\ a.loop = "repeat"
      /\ \A s \in Division : /\ s \notin a.ends <=> s.d # 0
                             /\ a.result[s] = [quotient |-> s.res, remainder |-> uint32(s.rem)]
                             /\ a.next[s] = Halved(s)
                             /\ a.rank[s] = s.d
      /\ a.rank = [s \in Division |-> s.d]
  BY DEF HalvingLoop
<1>3. a.rank \in [a.dom -> 0 .. DWORD]
  <2>1. \A s \in Division : s.d \in 0 .. DWORD
    BY WordFacts DEF Division
  <2> HIDE DEF a
  <2> QED
    BY <1>2, <2>1
<1>4. ASSUME NEW s \in a.dom, s \notin a.ends
      PROVE  a.next[s] \in a.dom /\ a.rank[a.next[s]] < a.rank[s]
  <2> HIDE DEF a
  <2>1. s \in Division /\ s.d # 0 /\ s.d \in Nat
    <3>1. s \in Division
      BY <1>2
    <3>2. s.d # 0
      BY <1>2, <1>4, <3>1
    <3>3. s.d \in Number
      BY <3>1 DEF Division
    <3>4. s.d \in Nat
      BY <3>3, WordFacts
    <3> QED
      BY <3>1, <3>2, <3>4
  <2>2. Halved(s) \in Division /\ Halved(s).d = s.d \div 2
    BY <2>1, HalvedIs
  <2>3. s.d \div 2 < s.d
    BY <2>1
  <2>4. a.next[s] = Halved(s) /\ a.rank[Halved(s)] = s.d \div 2 /\ a.rank[s] = s.d
    BY <1>2, <2>1, <2>2
  <2> QED
    BY <1>2, <2>2, <2>3, <2>4
<1>5. DWORD \in Nat
  BY WordFacts
<1>6. PICK h : Recursion(a, h)
  <2> HIDE DEF a
  <2> QED
    BY <1>3, <1>4, <1>5, RecursionExists
<1>7. ASSUME NEW s \in Division PROVE Turned(a, s, h) = HalveTurn(h, s)
  <2> HIDE DEF a
  <2>1. HalveTurn(h, s) = IF s.d = 0 THEN [quotient |-> s.res, remainder |-> uint32(s.rem)]
                          ELSE h[Halved(s)]
    BY HalveTurnIs
  <2> QED
    BY <1>2, <2>1 DEF Turned, Combined
<1>8. Is(h)
  <2> HIDE DEF a
  <2> QED
    BY <1>2, <1>6, <1>7 DEF Recursion
<1>9. Is(g)
  <2> HIDE DEF Is
  <2> QED
    BY <1>8
<1> HIDE DEF g
<1> QED
  BY <1>1, <1>9

\* What the second loop keeps: the result so far and the rest make up n, and the
\* rest is less than twice the divisor, until the divisor is base again.
Dividing(n, base, s) ==
  /\ s \in Division
  /\ s.res * base + s.rem = n
  /\ \/ s.d \in Powers /\ s.b = base * s.d /\ s.rem < 2 * s.b
     \/ s.d = 0 /\ s.rem < base

LEMMA DividingNext ==
  ASSUME NEW n \in Number, NEW base \in 1 .. WORD - 1, NEW s, Dividing(n, base, s), s.d # 0
  PROVE  Dividing(n, base, Halved(s)) /\ Halved(s).d < s.d
<1> DEFINE rem == s.rem
           res == s.res
           b == s.b
           d == s.d
           t == Halved(s)
<1>1. DWORD \in Nat /\ DWORD > 0 /\ Number = 0 .. DWORD - 1 /\ WORD \in Nat
  BY WordFacts
<1>2. /\ s \in Division
      /\ rem \in Nat /\ rem < DWORD /\ res \in Nat /\ res < DWORD /\ b \in Nat /\ d \in Nat /\ d < DWORD
      /\ res * base + rem = n /\ n \in Nat /\ n < DWORD /\ base \in Nat /\ base >= 1
  BY <1>1 DEF Dividing, Division
<1>3. d \in Powers /\ d > 0 /\ b = base * d /\ rem < 2 * b
  BY PowersFacts DEF Dividing
<1>4. /\ t \in Division /\ t.b = b \div 2 /\ t.d = d \div 2
      /\ rem >= b => t.rem = rem - b /\ t.res = uint64(res + d)
      /\ ~ (rem >= b) => t.rem = rem /\ t.res = res
  BY <1>2, HalvedIs
<1> HIDE DEF rem, res, b, d, t
<1>5. t.res * base + t.rem = n /\ t.rem < b
  <2>1. CASE rem >= b
    <3>1. (res + d) * base = res * base + b
      BY <1>2, <1>3
    <3>2. (res + d) * base <= n /\ res + d \in Nat
      BY <3>1, <2>1, <1>2
    <3>3. 1 * (res + d) <= base * (res + d)
      BY <1>2, <3>2, MulMono
    <3>4. (res + d) * base = base * (res + d)
      BY <1>2
    <3>5. res + d <= n
      BY <3>2, <3>3, <3>4, <1>2
    <3>6. uint64(res + d) = res + d
      <4>1. res + d \in Number
        BY <3>2, <3>5, <1>1, <1>2
      <4> QED
        BY <4>1, SameNumber
    <3>7. t.res * base = res * base + b /\ t.rem = rem - b
      BY <1>4, <2>1, <3>1, <3>6
    <3>8. res * base \in Nat
      BY <1>2
    <3> QED
      BY <3>7, <3>8, <1>2, <1>3
  <2>2. CASE ~ (rem >= b)
    <3>1. t.rem = rem /\ t.res = res
      BY <2>2, <1>4
    <3>2. rem < b
      BY <2>2, <1>2
    <3> QED
      BY <3>1, <3>2, <1>2
  <2> QED
    BY <2>1, <2>2
<1>6. \/ t.d \in Powers /\ t.b = base * t.d /\ t.rem < 2 * t.b
      \/ t.d = 0 /\ t.rem < base
  <2>1. CASE d = 1
    <3>1. d \div 2 = 0 /\ b = base
      BY <2>1, <1>2, <1>3
    <3> QED
      BY <3>1, <1>4, <1>5
  <2>2. CASE d # 1
    <3>1. PICK c \in Powers : d = 2 * c
      BY <2>2, <1>3, PowersFacts
    <3>2. c \in Nat
      BY PowersFacts
    <3>3. d \div 2 = c
      BY <3>1, <3>2
    <3>4. base * c \in Nat /\ b = 2 * (base * c)
      BY <1>2, <1>3, <3>1, <3>2
    <3>5. b \div 2 = base * c
      <4> DEFINE x == base * c
      <4> HIDE DEF x
      <4>1. x \in Nat /\ b = 2 * x
        BY <3>4 DEF x
      <4>2. b \div 2 = x
        BY <4>1
      <4> QED
        BY <4>2 DEF x
    <3> QED
      <4> DEFINE x == base * c
      <4>1. x \in Nat /\ b = 2 * x /\ t.b = x /\ t.d = c
        BY <3>3, <3>4, <3>5, <1>4
      <4>2. t.rem < 2 * x
        <5> HIDE DEF x
        <5> QED
          BY <4>1, <1>5
      <4>3. t.b = base * t.d
        BY <4>1
      <4>4. t.rem < 2 * t.b
        <5> HIDE DEF x
        <5> QED
          BY <4>1, <4>2
      <4> QED
        <5>1. t.d \in Powers
          BY <3>1, <4>1
        <5> HIDE DEF x
        <5> QED
          BY <5>1, <4>3, <4>4
  <2> QED
    BY <2>1, <2>2
<1>7. t.d < d
  BY <1>2, <1>3, <1>4
<1> QED
  BY <1>4, <1>5, <1>6, <1>7 DEF Dividing, t, d

LEMMA DividingStart ==
  ASSUME NEW n \in Number, NEW base \in 1 .. WORD - 1
  PROVE  Dividing(n, base, DivisionStart(n, base))
<1> DEFINE high == n \div WORD
           low == n % WORD
           h == High(n, base)
<1>1. /\ WORD \in Nat /\ WORD > 1 /\ DWORD \in Nat /\ DWORD = WORD * WORD /\ Number = 0 .. DWORD - 1
      /\ n \in Nat /\ n < DWORD /\ base \in Nat /\ base >= 1
  BY WordFacts
<1>2. high \in Nat /\ low \in Nat /\ low < WORD /\ n = WORD * high + low
  <2>1. WORD > 0
    BY <1>1
  <2> QED
    BY <2>1, <1>1, DivMod
<1> HIDE DEF high, low
<1>3. high < WORD
  <2> SUFFICES ASSUME ~ (high < WORD) PROVE FALSE
    OBVIOUS
  <2>1. WORD * WORD <= high * WORD
    BY <1>1, <1>2, MulMono
  <2>2. high * WORD = WORD * high
    BY <1>1, <1>2
  <2> QED
    BY <2>1, <2>2, <1>1, <1>2
<1>4. h \in Nat /\ h * base \in Nat /\ h * base <= high /\ h <= high
  <2>1. CASE high >= base
    <3>1. h = high \div base
      BY <2>1 DEF High, high
    <3> DEFINE k == high % base
    <3>4. h \in Nat /\ k \in Nat /\ high = base * h + k
      <4>1. base > 0
        BY <1>1
      <4> HIDE DEF h
      <4> QED
        BY <4>1, <3>1, <1>1, <1>2, DivMod
    <3> HIDE DEF h, k
    <3>5. base * h = h * base /\ h * base \in Nat
      BY <3>4, <1>1
    <3>6. h * base <= high
      BY <3>4, <3>5, <1>2
    <3>7. 1 * h <= base * h
      BY <1>1, <3>4, MulMono
    <3> QED
      BY <3>4, <3>5, <3>6, <3>7, <1>2
  <2>2. CASE ~ (high >= base)
    <3>1. h = 0
      BY <2>2 DEF High, high
    <3> QED
      BY <3>1, <1>1, <1>2
  <2> QED
    BY <2>1, <2>2
<1> HIDE DEF h
<1> DEFINE r == n - (h * base) * WORD
<1>5. uint32(h * base) = h * base
  <2>1. \A x \in Nat, m \in Nat : x < m => x % m = x
    OBVIOUS
  <2> QED
    BY <2>1, <1>1, <1>2, <1>3, <1>4 DEF uint32
<1>6. r \in Number
  <2> DEFINE p == (h * base) * WORD
  <2>1. p <= high * WORD /\ p \in Nat
    BY <1>1, <1>2, <1>4, MulMono
  <2>2. high * WORD = WORD * high
    BY <1>1, <1>2
  <2> HIDE DEF p
  <2>3. r = n - p
    BY DEF p
  <2> HIDE DEF r
  <2>4. WORD * high \in Nat
    BY <1>1, <1>2
  <2> QED
    BY <2>1, <2>2, <2>3, <2>4, <1>1, <1>2
<1>7. Rest(n, base) = r
  BY <1>5, <1>6, SameNumber DEF Rest, h
<1> DEFINE top == Doubled(r, base)
<1>8. top \in [b : Number, d : Number] /\ top.d \in Powers /\ top.b = base * top.d /\ r < 2 * top.b
  <2> HIDE DEF r
  <2> QED
    BY <1>6, DoubledIs
<1>9. h * WORD \in Number
  <2>1. h * WORD <= high * WORD /\ high * WORD = WORD * high
    BY <1>1, <1>2, <1>4, MulMono
  <2>2. h * WORD \in Nat /\ WORD * high \in Nat
    BY <1>1, <1>2, <1>4
  <2> QED
    BY <2>1, <2>2, <1>1, <1>2
<1>10. (h * WORD) * base + r = n
  <2>1. (h * WORD) * base = (h * base) * WORD
    BY <1>1, <1>4
  <2>2. (h * base) * WORD \in Nat
    BY <1>1, <1>4
  <2> DEFINE p == (h * base) * WORD
  <2> HIDE DEF p
  <2>3. p \in Nat /\ r = n - p /\ (h * WORD) * base = p
    BY <2>1, <2>2 DEF p
  <2> HIDE DEF r
  <2> QED
    BY <2>3, <1>1
<1> DEFINE s == DivisionStart(n, base)
<1>11. s = [rem |-> r, res |-> h * WORD, b |-> top.b, d |-> top.d]
  BY <1>7 DEF DivisionStart, h
<1> HIDE DEF r, top, s
<1>12. s \in Division /\ s.rem = r /\ s.res = h * WORD /\ s.b = top.b /\ s.d = top.d
  BY <1>6, <1>8, <1>9, <1>11 DEF Division
<1>13. Dividing(n, base, s)
  BY <1>8, <1>10, <1>12 DEF Dividing
<1> QED
  BY <1>13 DEF s

\* The division of 64 by 32 bits is exact for every number and every divisor.
THEOREM DivisionIsExact ==
  ASSUME NEW n \in Number, NEW base \in 1 .. WORD - 1
  PROVE  DivideAndMod64by32(n, base) = [quotient |-> n \div base, remainder |-> n % base]
<1>1. PICK f : /\ \A s \in Division : f[s] = HalveTurn(f, s)
               /\ DivideAndMod64by32(n, base) = f[DivisionStart(n, base)]
  BY HalvingUnfolds
<1> DEFINE exact == [quotient |-> n \div base, remainder |-> n % base]
           G == {k \in Nat : \A s : Dividing(n, base, s) /\ s.d <= k => f[s] = exact}
<1>2. ASSUME NEW s, Dividing(n, base, s), s.d = 0 PROVE f[s] = exact
  <2> DEFINE rem == s.rem
             res == s.res
  <2>1. /\ s \in Division /\ rem \in Nat /\ res \in Nat /\ rem < base /\ res * base + rem = n
        /\ base \in Nat /\ base < WORD /\ WORD \in Nat
    BY <1>2, WordFacts, PowersFacts DEF Dividing, Division
  <2>2. f[s] = [quotient |-> res, remainder |-> uint32(rem)]
    BY <1>1, <1>2, <2>1 DEF HalveTurn
  <2> HIDE DEF rem, res
  <2>3. n \div base = res /\ n % base = rem
    <3>1. rem \in 0 .. base - 1
      BY <2>1
    <3>2. (res * base + rem) \div base = res /\ (res * base + rem) % base = rem
      BY <2>1, <3>1, Digit2
    <3> QED
      BY <2>1, <3>2
  <2>4. uint32(rem) = rem
    <3>1. \A x \in Nat, m \in Nat : x < m => x % m = x
      OBVIOUS
    <3> QED
      BY <3>1, <2>1 DEF uint32
  <2> QED
    BY <2>2, <2>3, <2>4
<1> HIDE DEF exact
<1>3. 0 \in G
  <2>1. \A s : Dividing(n, base, s) => s.d \in Nat
    BY WordFacts DEF Dividing, Division
  <2>2. \A x \in Nat : x <= 0 => x = 0
    OBVIOUS
  <2> QED
    BY <1>2, <2>1, <2>2
<1>4. ASSUME NEW k \in Nat, k \in G PROVE k + 1 \in G
  <2>1. ASSUME NEW s, Dividing(n, base, s), s.d <= k + 1 PROVE f[s] = exact
    <3>1. CASE s.d = 0
      BY <1>2, <2>1, <3>1
    <3>2. CASE s.d # 0
      <4>1. Dividing(n, base, Halved(s)) /\ Halved(s).d < s.d
        BY <2>1, <3>2, DividingNext
      <4>2. s \in Division /\ Halved(s).d \in Nat /\ s.d \in Nat
        BY <2>1, <4>1, WordFacts DEF Dividing, Division
      <4>3. Halved(s).d <= k
        <5> DEFINE x == Halved(s).d
                   y == s.d
        <5>1. x \in Nat /\ y \in Nat /\ x < y /\ y <= k + 1
          BY <2>1, <4>1, <4>2
        <5> HIDE DEF x, y
        <5>2. x <= k
          BY <5>1
        <5> QED
          BY <5>2 DEF x
      <4>4. f[Halved(s)] = exact
        BY <1>4, <4>1, <4>3
      <4>5. f[s] = f[Halved(s)]
        BY <1>1, <3>2, <4>2, HalveTurnIs
      <4> QED
        BY <4>4, <4>5
    <3> QED
      BY <3>1, <3>2
  <2> QED
    BY <2>1
<1>5. DivisionStart(n, base).d \in Nat /\ Dividing(n, base, DivisionStart(n, base))
  <2>1. Dividing(n, base, DivisionStart(n, base))
    BY DividingStart
  <2> QED
    BY <2>1, WordFacts DEF Dividing, Division
<1>6. DivisionStart(n, base).d \in G
  <2> HIDE DEF G
  <2> QED
    BY <1>3, <1>4, <1>5, NatSetInduction
<1>7. f[DivisionStart(n, base)] = exact
  <2>1. DivisionStart(n, base).d <= DivisionStart(n, base).d
    BY <1>5
  <2> QED
    BY <1>5, <1>6, <2>1
<1> QED
  BY <1>1, <1>7 DEF exact
-----------------------------------------------------------------------------
(***************************************************************************)
(* PrintNum.                                                               *)
(***************************************************************************)
DigitChars == {Digit(d) : d \in 0 .. 15}

LEMMA DigitFacts ==
  /\ \A d \in 0 .. 15 : Digit(d) \in DigitChars /\ (d # 0 => Digit(d) # "0")
  /\ \A d \in 0 .. 15, c \in 0 .. 15 : Digit(d) = Digit(c) => d = c
  /\ \A base \in 2 .. 16, d \in 0 .. 15 : d < base => DigitOf(base, Digit(d)) = d
<1>1. /\ Digit(0) = "0" /\ Digit(1) = "1" /\ Digit(2) = "2" /\ Digit(3) = "3"
      /\ Digit(4) = "4" /\ Digit(5) = "5" /\ Digit(6) = "6" /\ Digit(7) = "7"
      /\ Digit(8) = "8" /\ Digit(9) = "9" /\ Digit(10) = "a" /\ Digit(11) = "b"
      /\ Digit(12) = "c" /\ Digit(13) = "d" /\ Digit(14) = "e" /\ Digit(15) = "f"
  BY DEF Digit, Digits
<1>2. \A d \in 0 .. 15 : \/ d = 0 \/ d = 1 \/ d = 2 \/ d = 3 \/ d = 4 \/ d = 5 \/ d = 6 \/ d = 7
                         \/ d = 8 \/ d = 9 \/ d = 10 \/ d = 11 \/ d = 12 \/ d = 13 \/ d = 14 \/ d = 15
  OBVIOUS
<1>3. \A d \in 0 .. 15 : Digit(d) \in DigitChars /\ (d # 0 => Digit(d) # "0")
  BY <1>1, <1>2 DEF DigitChars
<1>4. \A d \in 0 .. 15, c \in 0 .. 15 : Digit(d) = Digit(c) => d = c
  BY <1>1, <1>2
<1>5. ASSUME NEW base \in 2 .. 16, NEW d \in 0 .. 15, d < base
      PROVE  DigitOf(base, Digit(d)) = d
  <2>1. d \in 0 .. base - 1 /\ \A c \in 0 .. base - 1 : c \in 0 .. 15
    BY <1>5
  <2>2. \A c \in 0 .. base - 1 : Digit(c) = Digit(d) => c = d
    BY <1>4, <2>1
  <2> QED
    BY <2>1, <2>2 DEF DigitOf
<1> QED
  BY <1>3, <1>4, <1>5

\* The value of the first k digits of s.
ValueTurn(s, base, v, k) == IF k = 0 THEN 0 ELSE v[k - 1] * base + DigitOf(base, s[k])
Values(s, base, v) == v = [k \in 0 .. Len(s) |-> ValueTurn(s, base, v, k)]
ValueLoop(s, base) ==
  [loop |-> "Denotes", dom |-> 0 .. Len(s), ends |-> {0}, result |-> [k \in 0 .. Len(s) |-> 0],
   next |-> [k \in 0 .. Len(s) |-> k - 1], rank |-> [k \in 0 .. Len(s) |-> k], s |-> s, base |-> base]

LEMMA ValuesExist ==
  ASSUME NEW S, NEW s \in Seq(S), NEW base
  PROVE  \E v : Values(s, base, v)
<1> DEFINE a == ValueLoop(s, base)
           D == 0 .. Len(s)
<1>1. /\ a.dom = D /\ a.loop = "Denotes" /\ a.ends = {0} /\ a.s = s /\ a.base = base
      /\ \A k \in D : a.result[k] = 0 /\ a.next[k] = k - 1 /\ a.rank[k] = k
      /\ a.rank = [k \in D |-> k]
  BY DEF ValueLoop
<1>2. Len(s) \in Nat
  OBVIOUS
<1>3. a.rank \in [a.dom -> 0 .. Len(s)]
  <2> HIDE DEF a
  <2> QED
    BY <1>1
<1>4. ASSUME NEW k \in a.dom, k \notin a.ends
      PROVE  a.next[k] \in a.dom /\ a.rank[a.next[k]] < a.rank[k]
  <2> HIDE DEF a
  <2> QED
    BY <1>1, <1>2, <1>4
<1>5. PICK v : Recursion(a, v)
  <2> HIDE DEF a
  <2> QED
    BY <1>2, <1>3, <1>4, RecursionExists
<1>6. ASSUME NEW k \in D PROVE Turned(a, k, v) = ValueTurn(s, base, v, k)
  <2> HIDE DEF a
  <2>1. CASE k = 0
    BY <1>1, <2>1 DEF Turned, ValueTurn
  <2>2. CASE k # 0
    BY <1>1, <2>2 DEF Turned, ValueTurn, Combined
  <2> QED
    BY <2>1, <2>2
<1> QED
  <2> HIDE DEF a
  <2> QED
    BY <1>1, <1>5, <1>6 DEF Recursion, Values

\* The number the digits of s are.
Means(s, base, n) == \A v : Values(s, base, v) => v[Len(s)] = n

LEMMA MeansAppend ==
  ASSUME NEW S, NEW s \in Seq(S), NEW base \in 2 .. 16, NEW n \in Nat, Means(s, base, n),
         NEW d \in 0 .. base - 1
  PROVE  Means(Append(s, Digit(d)), base, n * base + d)
<1> DEFINE t == Append(s, Digit(d))
<1>1. Len(s) \in Nat /\ Len(t) = Len(s) + 1 /\ t[Len(s) + 1] = Digit(d)
      /\ \A k \in 1 .. Len(s) : t[k] = s[k]
  OBVIOUS
<1> HIDE DEF t
<1>2. ASSUME NEW v, Values(t, base, v) PROVE v[Len(t)] = n * base + d
  <2> DEFINE u == [k \in 0 .. Len(s) |-> v[k]]
  <2>1. \A k \in 0 .. Len(t) : v[k] = ValueTurn(t, base, v, k)
    <3> HIDE DEF ValueTurn
    <3> QED
      BY <1>2 DEF Values
  <2>2. ASSUME NEW k \in 0 .. Len(s) PROVE u[k] = ValueTurn(s, base, u, k)
    <3>1. u[k] = ValueTurn(t, base, v, k)
      BY <2>1, <1>1
    <3>2. CASE k = 0
      BY <3>1, <3>2 DEF ValueTurn
    <3>3. CASE k # 0
      <4>1. k - 1 \in 0 .. Len(s) /\ k \in 1 .. Len(s)
        BY <3>3, <1>1
      <4>2. t[k] = s[k] /\ u[k - 1] = v[k - 1]
        BY <4>1, <1>1
      <4> QED
        BY <3>1, <3>3, <4>2 DEF ValueTurn
    <3> QED
      BY <3>2, <3>3
  <2>3. Values(s, base, u)
    <3> HIDE DEF ValueTurn
    <3>1. u = [k \in 0 .. Len(s) |-> u[k]]
      OBVIOUS
    <3> HIDE DEF u
    <3> QED
      BY <2>2, <3>1 DEF Values
  <2>4. v[Len(s)] = n
    <3>1. u[Len(s)] = v[Len(s)]
      BY <1>1
    <3> HIDE DEF u
    <3> QED
      BY <2>3, <3>1 DEF Means
  <2>5. DigitOf(base, t[Len(t)]) = d
    <3>1. d \in 0 .. 15 /\ d < base
      OBVIOUS
    <3> QED
      BY <1>1, <3>1, DigitFacts
  <2>6. v[Len(t)] = v[Len(s)] * base + DigitOf(base, t[Len(t)])
    <3>1. Len(t) \in 0 .. Len(t) /\ Len(t) # 0 /\ Len(t) - 1 = Len(s)
      BY <1>1
    <3> QED
      BY <2>1, <3>1 DEF ValueTurn
  <2> QED
    BY <2>4, <2>5, <2>6
<1> QED
  BY <1>2 DEF Means, t

LEMMA MeansEmpty == \A base : Means(<<>>, base, 0)
BY DEF Means, Values, ValueTurn

LEMMA MeansDigit ==
  ASSUME NEW base \in 2 .. 16, NEW d \in 0 .. base - 1
  PROVE  Means(<<Digit(d)>>, base, d)
<1>1. <<>> \in Seq(DigitChars) /\ Append(<<>>, Digit(d)) = <<Digit(d)>> /\ 0 * base + d = d
  OBVIOUS
<1>2. Means(Append(<<>>, Digit(d)), base, 0 * base + d)
  BY <1>1, MeansEmpty, MeansAppend
<1> QED
  BY <1>1, <1>2
\* The digits of PrintNum: a recursion that ends at a number of one digit.
NumTurn(base, f, num) ==
  IF num >= base
  THEN Append(f[Divide64by32(num, base)], Digit(Modulo64by32(num, base)))
  ELSE <<Digit(Modulo64by32(num, base))>>
NumLoop(base) ==
  [loop |-> "PrintNum", dom |-> Number, ends |-> {num \in Number : ~ (num >= base)},
   result |-> [num \in Number |-> <<Digit(Modulo64by32(num, base))>>],
   next |-> [num \in Number |-> Divide64by32(num, base)], rank |-> [num \in Number |-> num],
   base |-> base]

LEMMA DividesFacts ==
  ASSUME NEW num \in Number, NEW base \in 2 .. 16
  PROVE  /\ Divide64by32(num, base) \in Number /\ Modulo64by32(num, base) \in 0 .. base - 1
         /\ num = Divide64by32(num, base) * base + Modulo64by32(num, base)
         /\ Modulo64by32(num, base) \in 0 .. 15
         /\ num >= base => Divide64by32(num, base) # 0 /\ Divide64by32(num, base) < num
         /\ ~ (num >= base) => Modulo64by32(num, base) = num
<1> DEFINE q == Divide64by32(num, base)
           r == Modulo64by32(num, base)
<1>1. base \in 1 .. WORD - 1 /\ base \in Nat /\ base > 1 /\ base <= 16
  BY WordFacts
<1>2. num \in Nat /\ DWORD \in Nat /\ num < DWORD /\ Number = 0 .. DWORD - 1
  BY WordFacts
<1>3. q = num \div base /\ r = num % base
  BY <1>1, DivisionIsExact DEF Divide64by32, Modulo64by32
<1>4. q \in Nat /\ r \in Nat /\ r < base /\ num = q * base + r
  <2> HIDE DEF q, r
  <2> QED
    BY <1>1, <1>2, <1>3, DivMod
<1> HIDE DEF q, r
<1>5. 2 * q <= base * q /\ base * q = q * base
  BY <1>1, <1>4, MulMono
<1>6. q <= num
  BY <1>1, <1>2, <1>4, <1>5
<1>7. num >= base => q # 0 /\ q < num
  BY <1>1, <1>2, <1>4, <1>5
<1>8. ~ (num >= base) => r = num
  <2> SUFFICES ASSUME num < base PROVE r = num
    BY <1>1, <1>2
  <2>1. q = 0
    <3> SUFFICES ASSUME q >= 1 PROVE FALSE
      BY <1>4
    <3>1. 1 * base <= q * base
      BY <1>1, <1>4, MulMono
    <3> QED
      BY <3>1, <1>1, <1>2, <1>4
  <2> QED
    BY <2>1, <1>1, <1>2, <1>4
<1>9. r \in 0 .. base - 1 /\ r \in 0 .. 15 /\ q \in Number
  BY <1>1, <1>2, <1>4, <1>6
<1> QED
  BY <1>4, <1>7, <1>8, <1>9 DEF q, r

LEMMA NumUnfolds ==
  ASSUME NEW n, NEW base \in 2 .. 16
  PROVE  \E f : /\ \A num \in Number : f[num] = NumTurn(base, f, num)
                /\ PrintNum(n, base) = f[n]
<1> DEFINE a == NumLoop(base)
           Is(f) == f = [num \in Number |-> NumTurn(base, f, num)]
           g == CHOOSE f : Is(f)
<1>1. PrintNum(n, base) = g[n]
  BY DEF PrintNum, NumTurn
<1>2. /\ a.dom = Number /\ a.loop = "PrintNum" /\ a.base = base
      /\ \A num \in Number : /\ num \notin a.ends <=> num >= base
                             /\ a.result[num] = <<Digit(Modulo64by32(num, base))>>
                             /\ a.next[num] = Divide64by32(num, base)
                             /\ a.rank[num] = num
      /\ a.rank = [num \in Number |-> num]
  BY DEF NumLoop
<1>3. a.rank \in [a.dom -> 0 .. DWORD]
  <2>1. \A num \in Number : num \in 0 .. DWORD
    BY WordFacts
  <2> HIDE DEF a
  <2> QED
    BY <1>2, <2>1
<1>4. ASSUME NEW num \in a.dom, num \notin a.ends
      PROVE  a.next[num] \in a.dom /\ a.rank[a.next[num]] < a.rank[num]
  <2> HIDE DEF a
  <2>1. num \in Number /\ num >= base
    BY <1>2, <1>4
  <2>2. Divide64by32(num, base) \in Number /\ Divide64by32(num, base) < num
    BY <2>1, DividesFacts
  <2> QED
    BY <1>2, <2>1, <2>2
<1>5. DWORD \in Nat
  BY WordFacts
<1>6. PICK h : Recursion(a, h)
  <2> HIDE DEF a
  <2> QED
    BY <1>3, <1>4, <1>5, RecursionExists
<1>7. ASSUME NEW num \in Number PROVE Turned(a, num, h) = NumTurn(base, h, num)
  <2> HIDE DEF a
  <2> QED
    BY <1>2 DEF Turned, Combined, NumTurn
<1>8. Is(h)
  <2> HIDE DEF a
  <2> QED
    BY <1>2, <1>6, <1>7 DEF Recursion
<1>9. Is(g)
  <2> HIDE DEF Is
  <2> QED
    BY <1>8
<1> HIDE DEF g
<1> QED
  BY <1>1, <1>9

\* The digits are those of the number, with no zero in front.
Written10(s, base, n) ==
  /\ s \in Seq(DigitChars) /\ Len(s) > 0 /\ Means(s, base, n)
  /\ IF n = 0 THEN Len(s) = 1 ELSE s[1] # "0"

LEMMA PrintNumIs ==
  ASSUME NEW n \in Number, NEW base \in 2 .. 16
  PROVE  Written10(PrintNum(n, base), base, n)
<1>1. PICK f : /\ \A num \in Number : f[num] = NumTurn(base, f, num)
               /\ PrintNum(n, base) = f[n]
  BY NumUnfolds
<1> DEFINE G == {k \in Nat : \A num \in Number : num <= k => Written10(f[num], base, num)}
<1>2. ASSUME NEW num \in Number, ~ (num >= base) PROVE Written10(f[num], base, num)
  <2>1. num \in 0 .. base - 1 /\ num \in 0 .. 15
    BY <1>2, WordFacts
  <2>2. f[num] = <<Digit(num)>>
    <3>1. Modulo64by32(num, base) = num
      BY <1>2, DividesFacts
    <3> QED
      BY <1>1, <1>2, <3>1 DEF NumTurn
  <2>3. Means(f[num], base, num)
    BY <2>1, <2>2, MeansDigit
  <2>4. Digit(num) \in DigitChars /\ (num # 0 => Digit(num) # "0")
    BY <2>1, DigitFacts
  <2> QED
    BY <2>2, <2>3, <2>4 DEF Written10
<1>3. 0 \in G
  <2>1. \A num \in Number : num <= 0 => ~ (num >= base)
    BY WordFacts
  <2> QED
    BY <1>2, <2>1
<1>4. ASSUME NEW k \in Nat, k \in G PROVE k + 1 \in G
  <2>1. ASSUME NEW num \in Number, num <= k + 1, num >= base PROVE Written10(f[num], base, num)
    <3> DEFINE q == Divide64by32(num, base)
               r == Modulo64by32(num, base)
               s == f[q]
    <3>1. /\ q \in Number /\ r \in 0 .. base - 1 /\ num = q * base + r /\ r \in 0 .. 15
          /\ q # 0 /\ q < num
      BY <2>1, DividesFacts
    <3>2. f[num] = Append(s, Digit(r))
      BY <1>1, <2>1 DEF NumTurn
    <3> HIDE DEF q, r, s
    <3>3. Written10(s, base, q)
      <4>1. q <= k
        <5>1. q \in Nat /\ num \in Nat
          BY <3>1, WordFacts
        <5> QED
          BY <5>1, <3>1, <2>1
      <4> QED
        BY <4>1, <3>1, <1>4 DEF s
    <3>4. Digit(r) \in DigitChars
      BY <3>1, DigitFacts
    <3>5. Means(f[num], base, num)
      <4>1. q \in Nat
        BY <3>1, WordFacts
      <4> QED
        BY <4>1, <3>1, <3>2, <3>3, MeansAppend DEF Written10
    <3>6. f[num] \in Seq(DigitChars) /\ Len(f[num]) = Len(s) + 1 /\ f[num][1] = s[1]
      BY <3>2, <3>3, <3>4 DEF Written10
    <3>7. num # 0 /\ Len(s) \in Nat /\ s[1] # "0"
      <4>1. num \in Nat /\ q \in Nat
        BY <3>1, WordFacts
      <4> QED
        BY <4>1, <3>1, <3>3 DEF Written10
    <3> QED
      BY <3>3, <3>5, <3>6, <3>7 DEF Written10
  <2> QED
    BY <1>2, <2>1
<1>5. n \in G
  <2>1. n \in Nat
    BY WordFacts
  <2> HIDE DEF G
  <2> QED
    BY <2>1, <1>3, <1>4, NatSetInduction
<1>6. n <= n
  BY WordFacts
<1> QED
  BY <1>1, <1>5, <1>6

Joins(a, b, c) == a \o (b \o c) = (a \o b) \o c

LEMMA Assoc ==
  ASSUME NEW T, NEW a, NEW b, NEW c, a \in Seq(T), b \in Seq(T), c \in Seq(T)
  PROVE  Joins(a, b, c)
<1> DEFINE s == a \o (b \o c)
           t == (a \o b) \o c
<1>1. a \o b \in Seq(T) /\ Len(a \o b) = Len(a) + Len(b) /\ b \o c \in Seq(T)
      /\ Len(b \o c) = Len(b) + Len(c) /\ Len(a) \in Nat /\ Len(b) \in Nat /\ Len(c) \in Nat
  OBVIOUS
<1>2. s \in Seq(T) /\ Len(s) = Len(a) + (Len(b) + Len(c)) /\ t \in Seq(T)
      /\ Len(t) = (Len(a) + Len(b)) + Len(c)
  BY <1>1
<1>3. \A i \in 1 .. Len(s) : s[i] = t[i]
  BY <1>1, <1>2
<1> HIDE DEF s, t
<1>4. Len(s) = Len(t)
  BY <1>1, <1>2
<1>5. s = t
  BY <1>2, <1>3, <1>4, SeqEqual
<1> QED
  BY <1>5 DEF Joins, s, t
-----------------------------------------------------------------------------
(***************************************************************************)
(* Sequences of sequences, one after the other.                            *)
(***************************************************************************)
\* w[k] is the first k sequences of ss, in one.
FlatRun(ss, w) ==
  /\ w[0] = <<>> /\ \A k \in 1 .. Len(ss) : w[k] = w[k - 1] \o ss[k]
  /\ FlattenSeq(ss) = w[Len(ss)]

LEMMA FlatUnfolds ==
  ASSUME NEW S, NEW ss \in Seq(Seq(S))
  PROVE  \E w : FlatRun(ss, w)
<1> DEFINE n == Len(ss)
           g == CHOOSE f : f = [i \in 1 .. n |-> Flat(ss, f, i)]
           w == [k \in 0 .. n |-> IF k = 0 THEN <<>> ELSE g[k]]
<1>1. n \in Nat /\ DOMAIN ss = 1 .. n /\ \A k \in 1 .. n : ss[k] \in Seq(S)
  OBVIOUS
<1>2. g = [i \in 1 .. n |-> Flat(ss, g, i)]
  <2> HIDE DEF n, Flat
  <2>1. \E f : f = [i \in 1 .. n |-> Flat(ss, f, i)]
    BY <1>1, FlatExists
  <2> QED
    BY <2>1
<1>3. FlattenSeq(ss) = IF n = 0 THEN <<>> ELSE g[n]
  <2>1. CASE n = 0
    <3>1. ss = <<>>
      BY <2>1
    <3> QED
      BY <2>1, <3>1 DEF FlattenSeq
  <2>2. CASE n # 0
    BY <2>2 DEF FlattenSeq, Flat
  <2> QED
    BY <2>1, <2>2
<1> HIDE DEF g, n
<1>4. \A i \in 1 .. n : g[i] = Flat(ss, g, i)
  <2> HIDE DEF Flat
  <2> QED
    BY <1>2
<1>5. ASSUME NEW k \in 1 .. n PROVE w[k] = w[k - 1] \o ss[k]
  <2>1. w[k] = g[k] /\ k \in Nat /\ k # 0
    BY <1>1
  <2>2. CASE k = 1
    <3>1. g[k] = ss[k]
      BY <1>4, <2>2 DEF Flat
    <3>2. w[k - 1] = <<>>
      BY <2>2, <1>1
    <3>3. ss[k] \in Seq(S)
      BY <1>1
    <3>4. <<>> \o ss[k] = ss[k]
      BY <3>3
    <3> QED
      BY <2>1, <3>1, <3>2, <3>4
  <2>3. CASE k # 1
    <3>1. g[k] = g[k - 1] \o ss[k]
      BY <1>4, <2>3 DEF Flat
    <3>2. w[k - 1] = g[k - 1]
      BY <2>3, <1>1
    <3> QED
      BY <2>1, <3>1, <3>2
  <2> QED
    BY <2>2, <2>3
<1>6. w[0] = <<>> /\ w[n] = IF n = 0 THEN <<>> ELSE g[n]
  BY <1>1
<1> HIDE DEF w
<1>7. FlatRun(ss, w)
  BY <1>3, <1>5, <1>6 DEF FlatRun, n
<1> QED
  BY <1>7

LEMMA FlatType ==
  ASSUME NEW S, NEW ss \in Seq(Seq(S)), NEW w, FlatRun(ss, w)
  PROVE  \A k \in 0 .. Len(ss) : w[k] \in Seq(S)
<1> DEFINE n == Len(ss)
           G == {k \in Nat : k <= n => w[k] \in Seq(S)}
<1>1. 0 \in G
  <2>1. w[0] = <<>> /\ <<>> \in Seq(S)
    BY EmptySeq DEF FlatRun
  <2> QED
    BY <2>1
<1>2. ASSUME NEW k \in Nat, k \in G PROVE k + 1 \in G
  <2> SUFFICES ASSUME k + 1 <= n PROVE w[k + 1] \in Seq(S)
    OBVIOUS
  <2>1. n \in Nat /\ k + 1 \in 1 .. n /\ (k + 1) - 1 = k /\ k <= n
    OBVIOUS
  <2>2. w[k + 1] = w[k] \o ss[k + 1]
    BY <2>1 DEF FlatRun
  <2>3. ss[k + 1] \in Seq(S)
    BY <2>1
  <2>4. w[k] \in Seq(S)
    BY <1>2, <2>1
  <2> QED
    BY <2>2, <2>3, <2>4
<1>3. Nat \subseteq G
  <2> HIDE DEF G
  <2> QED
    BY <1>1, <1>2, NatSetInduction
<1> QED
  BY <1>3

LEMMA FlatEmpty == FlattenSeq(<<>>) = <<>>
BY DEF FlattenSeq

LEMMA FlatAppend ==
  ASSUME NEW S, NEW ss \in Seq(Seq(S)), NEW x \in Seq(S)
  PROVE  /\ FlattenSeq(ss) \in Seq(S)
         /\ FlattenSeq(Append(ss, x)) = FlattenSeq(ss) \o x
<1> DEFINE n == Len(ss)
           tt == Append(ss, x)
<1>1. n \in Nat /\ tt \in Seq(Seq(S)) /\ Len(tt) = n + 1 /\ tt[n + 1] = x
      /\ \A k \in 1 .. n : tt[k] = ss[k]
  OBVIOUS
<1> HIDE DEF tt
<1>2. PICK v : FlatRun(ss, v)
  BY FlatUnfolds
<1>3. PICK w : FlatRun(tt, w)
  BY <1>1, FlatUnfolds
<1> DEFINE G == {k \in Nat : k <= n => w[k] = v[k]}
<1>4. 0 \in G
  BY <1>2, <1>3 DEF FlatRun
<1>5. ASSUME NEW k \in Nat, k \in G PROVE k + 1 \in G
  <2> SUFFICES ASSUME k + 1 <= n PROVE w[k + 1] = v[k + 1]
    OBVIOUS
  <2>1. k + 1 \in 1 .. n /\ k + 1 \in 1 .. Len(tt) /\ (k + 1) - 1 = k /\ k <= n
    BY <1>1
  <2>2. w[k + 1] = w[k] \o tt[k + 1] /\ v[k + 1] = v[k] \o ss[k + 1]
    BY <2>1, <1>2, <1>3 DEF FlatRun
  <2> QED
    BY <2>1, <2>2, <1>1, <1>5
<1>6. n \in G
  <2> HIDE DEF G
  <2> QED
    BY <1>1, <1>4, <1>5, NatSetInduction
<1>7. w[n + 1] = w[n] \o x
  <2>1. n + 1 \in 1 .. Len(tt) /\ (n + 1) - 1 = n
    BY <1>1
  <2> QED
    BY <2>1, <1>1, <1>3 DEF FlatRun
<1>8. FlattenSeq(ss) = v[n] /\ FlattenSeq(tt) = w[n + 1]
  BY <1>1, <1>2, <1>3 DEF FlatRun
<1>9. v[n] \in Seq(S)
  <2>1. n \in 0 .. n
    BY <1>1
  <2> HIDE DEF n
  <2> QED
    BY <2>1, <1>2, FlatType DEF n
<1>10. w[n] = v[n]
  BY <1>1, <1>6
<1> QED
  BY <1>7, <1>8, <1>9, <1>10 DEF tt

\* Two sequences of sequences.
LEMMA FlatConcat ==
  ASSUME NEW S, NEW ss \in Seq(Seq(S)), NEW tt \in Seq(Seq(S))
  PROVE  FlattenSeq(ss \o tt) = FlattenSeq(ss) \o FlattenSeq(tt)
<1> DEFINE n == Len(tt)
           part(k) == SubSeq(tt, 1, k)
           G == {k \in Nat : k <= n => FlattenSeq(ss \o part(k)) = FlattenSeq(ss) \o FlattenSeq(part(k))}
<1>0. FlattenSeq(ss) \in Seq(S) /\ n \in Nat
  BY FlatAppend, <<>> \in Seq(S)
<1>1. 0 \in G
  <2>1. part(0) = <<>> /\ ss \o <<>> = ss
    OBVIOUS
  <2>2. FlattenSeq(ss) \o <<>> = FlattenSeq(ss)
    BY <1>0
  <2> QED
    BY <2>1, <2>2, FlatEmpty
<1>2. ASSUME NEW k \in Nat, k \in G PROVE k + 1 \in G
  <2> SUFFICES ASSUME k + 1 <= n
               PROVE  FlattenSeq(ss \o part(k + 1)) = FlattenSeq(ss) \o FlattenSeq(part(k + 1))
    OBVIOUS
  <2> DEFINE x == tt[k + 1]
             p == part(k)
             q == FlattenSeq(ss)
  <2>1. x \in Seq(S) /\ p \in Seq(Seq(S))
    OBVIOUS
  <2>2. part(k + 1) = Append(p, x)
    OBVIOUS
  <2>3. ss \o part(k + 1) = Append(ss \o p, x) /\ ss \o p \in Seq(Seq(S))
    <3>1. part(k + 1) = p \o <<x>>
      <4> HIDE DEF x, p
      <4> QED
        BY <2>1, <2>2, AppendIsConcat
    <3>2. <<x>> \in Seq(Seq(S))
      <4> HIDE DEF x
      <4> QED
        BY <2>1
    <3> HIDE DEF x, p
    <3>3. ss \o (p \o <<x>>) = (ss \o p) \o <<x>>
      <4>1. Joins(ss, p, <<x>>)
        BY <2>1, <3>2, Assoc
      <4> QED
        BY <4>1 DEF Joins
    <3>4. ss \o p \in Seq(Seq(S))
      BY <2>1
    <3>5. Append(ss \o p, x) = (ss \o p) \o <<x>>
      BY <2>1, <3>4, AppendIsConcat
    <3> QED
      BY <3>1, <3>3, <3>4, <3>5
  <2>4. FlattenSeq(ss \o p) = q \o FlattenSeq(p)
    BY <1>2
  <2> HIDE DEF x, p, q
  <2>5. FlattenSeq(ss \o part(k + 1)) = FlattenSeq(ss \o p) \o x
    BY <2>1, <2>3, FlatAppend
  <2>6. FlattenSeq(part(k + 1)) = FlattenSeq(p) \o x /\ FlattenSeq(p) \in Seq(S)
    BY <2>1, <2>2, FlatAppend
  <2>7. (q \o FlattenSeq(p)) \o x = q \o (FlattenSeq(p) \o x)
    <3>1. q \in Seq(S)
      BY <1>0 DEF q
    <3> DEFINE y == FlattenSeq(p)
    <3>2. y \in Seq(S)
      BY <2>6
    <3> HIDE DEF y
    <3>3. x \in Seq(S)
      BY <2>1
    <3>4. q \o (y \o x) = (q \o y) \o x
      <4>1. Joins(q, y, x)
        BY <3>1, <3>2, <3>3, Assoc
      <4> QED
        BY <4>1 DEF Joins
    <3> QED
      BY <3>4 DEF y
  <2> QED
    BY <2>4, <2>5, <2>6, <2>7 DEF q
<1>3. n \in G
  <2> HIDE DEF G
  <2> QED
    BY <1>0, <1>1, <1>2, NatSetInduction
<1>4. part(n) = tt
  OBVIOUS
<1>5. FlattenSeq(ss \o part(n)) = FlattenSeq(ss) \o FlattenSeq(part(n))
  BY <1>0, <1>3
<1> QED
  BY <1>4, <1>5

\* What PrintNum writes is what MapPrinted asks for.
LEMMA DenotesNumber ==
  ASSUME NEW s, NEW base \in 2 .. 16, NEW n, Written10(s, base, n)
  PROVE  Denotes(s, base, n)
<1> DEFINE Is(f) == f = [k \in 0 .. Len(s) |-> ValueTurn(s, base, f, k)]
           value == CHOOSE f : Is(f)
<1>1. Denotes(s, base, n) <=> value[Len(s)] = n /\ s # <<>> /\ (Len(s) > 1 => s[1] # "0")
  BY DEF Denotes, ValueTurn, DigitOf
<1>2. s \in Seq(DigitChars) /\ Len(s) > 0 /\ Means(s, base, n)
  BY DEF Written10
<1>3. \E v : Is(v)
  <2>1. \E v : Values(s, base, v)
    BY <1>2, ValuesExist
  <2> QED
    BY <2>1 DEF Values
<1>4. Is(value)
  <2> HIDE DEF Is
  <2> QED
    BY <1>3
<1> HIDE DEF value
<1>5. value[Len(s)] = n
  BY <1>2, <1>4 DEF Means, Values
<1>6. s # <<>>
  BY <1>2
<1>7. Len(s) > 1 => s[1] # "0"
  <2>1. n = 0 => Len(s) = 1
    BY DEF Written10
  <2>2. n # 0 => s[1] # "0"
    BY DEF Written10
  <2>3. Len(s) \in Nat
    BY <1>2
  <2>4. CASE n = 0
    BY <2>1, <2>3, <2>4
  <2>5. CASE n # 0
    BY <2>2, <2>5
  <2> QED
    BY <2>4, <2>5
<1> QED
  BY <1>1, <1>5, <1>6, <1>7
-----------------------------------------------------------------------------
(***************************************************************************)
(* VPrintFmt.                                                              *)
(***************************************************************************)
\* A place in the format, or behind it, and the number of the next argument.
Ats(fmt) == (1 .. Len(fmt) + 1) \X Nat
FmtTurn(fmt, args, f, at) ==
  IF at[1] > Len(fmt) THEN <<>> ELSE FmtPiece(fmt, args, at) \o f[FmtNext(fmt, at)]
FmtRun(fmt, args, f) ==
  /\ \A at \in Ats(fmt) : f[at] = FmtTurn(fmt, args, f, at)
  /\ VPrintFmt(fmt, args) = f[<<1, 1>>]
FmtLoop(fmt, args) ==
  [loop |-> "VPrintFmt", dom |-> Ats(fmt), ends |-> {at \in Ats(fmt) : at[1] > Len(fmt)},
   result |-> [at \in Ats(fmt) |-> <<>>], next |-> [at \in Ats(fmt) |-> FmtNext(fmt, at)],
   rank |-> [at \in Ats(fmt) |-> Len(fmt) + 1 - at[1]], fmt |-> fmt, args |-> args]

LEMMA FmtNextFacts ==
  ASSUME NEW S, NEW fmt \in Seq(S), NEW at \in Ats(fmt), ~ (at[1] > Len(fmt))
  PROVE  /\ FmtNext(fmt, at) \in Ats(fmt)
         /\ FmtNext(fmt, at)[1] > at[1]
<1>1. at[1] \in 1 .. Len(fmt) /\ at[2] \in Nat /\ at = <<at[1], at[2]>> /\ Len(fmt) \in Nat
  BY DEF Ats
<1> DEFINE i == at[1]
           j == at[2]
<1>2. i + 1 \in 1 .. Len(fmt) + 1 /\ j + 1 \in Nat
      /\ (i < Len(fmt) => i + 2 \in 1 .. Len(fmt) + 1) /\ i + 1 > i /\ i + 2 > i
  BY <1>1
<1>3. \/ FmtNext(fmt, at) = <<i + 1, j>>
      \/ i < Len(fmt) /\ FmtNext(fmt, at) = <<i + 2, j + 1>>
      \/ i < Len(fmt) /\ FmtNext(fmt, at) = <<i + 2, j>>
  BY DEF FmtNext
<1> QED
  BY <1>1, <1>2, <1>3 DEF Ats

LEMMA FmtUnfolds ==
  ASSUME NEW S, NEW fmt \in Seq(S), NEW args
  PROVE  \E f : FmtRun(fmt, args, f)
<1> DEFINE a == FmtLoop(fmt, args)
           D == Ats(fmt)
           Is(f) == f = [at \in D |-> FmtTurn(fmt, args, f, at)]
           g == CHOOSE f : Is(f)
<1>0. Len(fmt) \in Nat
  OBVIOUS
<1>1. VPrintFmt(fmt, args) = g[<<1, 1>>]
  <2> DEFINE Old(f, at) ==
        IF at[1] > Len(fmt) THEN <<>>
        ELSE IF fmt[at[1]] # "%" THEN <<fmt[at[1]]>> \o f[<<at[1] + 1, at[2]>>]
        ELSE IF at[1] < Len(fmt) /\ fmt[at[1] + 1] \in Directives
             THEN Convert(fmt[at[1] + 1], args[at[2]]) \o f[<<at[1] + 2, at[2] + 1>>]
        ELSE IF at[1] < Len(fmt) /\ fmt[at[1] + 1] = "%" THEN <<"%">> \o f[<<at[1] + 2, at[2]>>]
        ELSE <<"%">> \o f[<<at[1] + 1, at[2]>>]
  <2>1. \A f, at : Old(f, at) = FmtTurn(fmt, args, f, at)
    BY DEF FmtTurn, FmtPiece, FmtNext
  <2>2. VPrintFmt(fmt, args) = (CHOOSE f : f = [at \in D |-> Old(f, at)])[<<1, 1>>]
    BY DEF VPrintFmt, Ats
  <2>3. \A f : (f = [at \in D |-> Old(f, at)]) <=> Is(f)
    <3> HIDE DEF Old, D
    <3>1. \A f : [at \in D |-> Old(f, at)] = [at \in D |-> FmtTurn(fmt, args, f, at)]
      BY <2>1
    <3> QED
      BY <3>1
  <2>4. (CHOOSE f : f = [at \in D |-> Old(f, at)]) = g
    <3> HIDE DEF Old, D, Is
    <3> QED
      BY <2>3
  <2> QED
    BY <2>2, <2>4
<1>2. /\ a.dom = D /\ a.loop = "VPrintFmt" /\ a.fmt = fmt /\ a.args = args
      /\ \A at \in D : /\ at \notin a.ends <=> ~ (at[1] > Len(fmt))
                       /\ a.result[at] = <<>>
                       /\ a.next[at] = FmtNext(fmt, at)
                       /\ a.rank[at] = Len(fmt) + 1 - at[1]
      /\ a.rank = [at \in D |-> Len(fmt) + 1 - at[1]]
  <2> HIDE DEF FmtNext
  <2> QED
    BY DEF FmtLoop
<1>3. a.rank \in [a.dom -> 0 .. Len(fmt)]
  <2>1. \A at \in D : Len(fmt) + 1 - at[1] \in 0 .. Len(fmt)
    BY <1>0 DEF Ats
  <2> HIDE DEF a
  <2> QED
    BY <1>2, <2>1
<1>4. ASSUME NEW at \in a.dom, at \notin a.ends
      PROVE  a.next[at] \in a.dom /\ a.rank[a.next[at]] < a.rank[at]
  <2> HIDE DEF a
  <2>1. at \in D /\ ~ (at[1] > Len(fmt))
    BY <1>2, <1>4
  <2>2. FmtNext(fmt, at) \in D /\ FmtNext(fmt, at)[1] > at[1]
    BY <2>1, FmtNextFacts
  <2>3. \A t \in D : t[1] \in Nat
    BY DEF Ats
  <2> DEFINE t == FmtNext(fmt, at)
  <2>4. a.next[at] = t /\ a.rank[t] = Len(fmt) + 1 - t[1] /\ a.rank[at] = Len(fmt) + 1 - at[1]
    BY <1>2, <2>1, <2>2
  <2> HIDE DEF t
  <2>5. t \in D /\ t[1] > at[1] /\ t[1] \in Nat /\ at[1] \in Nat
    BY <2>1, <2>2, <2>3 DEF t
  <2>6. Len(fmt) + 1 - t[1] < Len(fmt) + 1 - at[1]
    BY <1>0, <2>5
  <2> QED
    BY <1>2, <2>4, <2>5, <2>6
<1>5. PICK h : Recursion(a, h)
  <2> HIDE DEF a
  <2> QED
    BY <1>0, <1>3, <1>4, RecursionExists
<1>6. ASSUME NEW at \in D PROVE Turned(a, at, h) = FmtTurn(fmt, args, h, at)
  <2> HIDE DEF a
  <2>1. CASE at[1] > Len(fmt)
    BY <1>2, <2>1 DEF Turned, FmtTurn
  <2>2. CASE ~ (at[1] > Len(fmt))
    <3>1. at \notin a.ends /\ a.next[at] = FmtNext(fmt, at)
      BY <1>2, <2>2
    <3>2. Turned(a, at, h) = Combined(a, at, h[FmtNext(fmt, at)])
      BY <3>1 DEF Turned
    <3> QED
      BY <3>2, <1>2, <2>2 DEF Combined, FmtTurn
  <2> QED
    BY <2>1, <2>2
<1>7. Is(h)
  <2> HIDE DEF a
  <2> QED
    BY <1>2, <1>5, <1>6 DEF Recursion
<1>8. Is(g)
  <2> HIDE DEF Is
  <2> QED
    BY <1>7
<1> HIDE DEF g
<1>9. \A at \in D : g[at] = FmtTurn(fmt, args, g, at)
  <2> HIDE DEF FmtTurn, D
  <2> QED
    BY <1>8
<1>10. FmtRun(fmt, args, g)
  BY <1>1, <1>9 DEF FmtRun
<1> QED
  BY <1>10

\* The directives in a format from place i on.
Left(fmt, i) == {k \in Taken(fmt) : k >= i}

LEMMA LeftFacts ==
  ASSUME NEW S, NEW fmt \in Seq(S)
  PROVE  /\ IsFiniteSet(Taken(fmt)) /\ Taken(fmt) \subseteq 1 .. Len(fmt)
         /\ \A i \in Int, t \in Int : t > i => Cardinality(Left(fmt, t)) <= Cardinality(Left(fmt, i))
         /\ \A i \in Int, t \in Int :
              i \in Taken(fmt) /\ t > i => Cardinality(Left(fmt, t)) + 1 <= Cardinality(Left(fmt, i))
         /\ \A i \in Int : Cardinality(Left(fmt, i)) \in Nat
<1>1. Len(fmt) \in Nat /\ Taken(fmt) \subseteq 1 .. Len(fmt)
  BY DEF Taken
<1>2. IsFiniteSet(1 .. Len(fmt))
  BY <1>1, FS_Interval
<1>3. IsFiniteSet(Taken(fmt))
  BY <1>1, <1>2, FS_Subset
<1>4. ASSUME NEW i \in Int
      PROVE  IsFiniteSet(Left(fmt, i)) /\ Cardinality(Left(fmt, i)) \in Nat
  <2>1. Left(fmt, i) \subseteq Taken(fmt)
    BY DEF Left
  <2>2. IsFiniteSet(Left(fmt, i))
    BY <1>3, <2>1, FS_Subset
  <2> QED
    BY <2>2, FS_CardinalityType
<1>5. ASSUME NEW i \in Int, NEW t \in Int, t > i
      PROVE  Cardinality(Left(fmt, t)) <= Cardinality(Left(fmt, i))
  <2>1. Left(fmt, t) \subseteq Left(fmt, i)
    BY <1>1, <1>5 DEF Left
  <2> QED
    BY <1>4, <2>1, FS_Subset
<1>6. ASSUME NEW i \in Int, NEW t \in Int, i \in Taken(fmt), t > i
      PROVE  Cardinality(Left(fmt, t)) + 1 <= Cardinality(Left(fmt, i))
  <2> DEFINE L == Left(fmt, i)
             M == Left(fmt, t)
  <2>1. i \in L /\ M \subseteq L \ {i}
    BY <1>1, <1>6 DEF Left
  <2>2. IsFiniteSet(L) /\ Cardinality(L) \in Nat /\ Cardinality(M) \in Nat
    BY <1>4
  <2> HIDE DEF L, M
  <2>3. IsFiniteSet(L \ {i}) /\ Cardinality(L \ {i}) = Cardinality(L) - 1
    BY <2>1, <2>2, FS_RemoveElement
  <2>4. Cardinality(M) <= Cardinality(L \ {i})
    BY <2>1, <2>3, FS_Subset
  <2>5. Cardinality(M) + 1 <= Cardinality(L)
    BY <2>2, <2>3, <2>4
  <2> QED
    BY <2>5 DEF L, M
<1> QED
  BY <1>1, <1>3, <1>4, <1>5, <1>6

\* Each directive finds an argument that is printed in characters.
Fits(fmt, args, n) ==
  /\ \A i \in Taken(fmt), j \in 1 .. n : Convert(fmt[i + 1], args[j]) \in Seq(Character)
  /\ Cardinality(Taken(fmt)) <= n

LEMMA FmtType ==
  ASSUME NEW fmt \in Seq(Character), NEW args, NEW n \in Nat, Fits(fmt, args, n)
  PROVE  VPrintFmt(fmt, args) \in Seq(Character)
<1>1. PICK f : FmtRun(fmt, args, f)
  BY FmtUnfolds
<1> DEFINE InTime(at) == at[2] >= 1 /\ at[2] + Cardinality(Left(fmt, at[1])) <= n + 1
           G == {k \in Nat : \A at \in Ats(fmt) :
                               at[1] + k > Len(fmt) /\ InTime(at) => f[at] \in Seq(Character)}
<1>2. Len(fmt) \in Nat
  OBVIOUS
<1>3. 0 \in G
  <2>1. ASSUME NEW at \in Ats(fmt), at[1] + 0 > Len(fmt) PROVE f[at] \in Seq(Character)
    <3>1. at[1] \in Nat
      BY DEF Ats
    <3>2. at[1] > Len(fmt)
      BY <1>2, <3>1, <2>1
    <3>3. f[at] = <<>>
      BY <1>1, <3>2 DEF FmtRun, FmtTurn
    <3> QED
      BY <3>3
  <2> QED
    BY <2>1
<1>4. ASSUME NEW k \in Nat, k \in G PROVE k + 1 \in G
  <2>1. ASSUME NEW at \in Ats(fmt), at[1] + (k + 1) > Len(fmt), InTime(at), ~ (at[1] > Len(fmt))
        PROVE  f[at] \in Seq(Character)
    <3> DEFINE i == at[1]
               j == at[2]
               t == FmtNext(fmt, at)
               p == FmtPiece(fmt, args, at)
    <3>1. i \in 1 .. Len(fmt) /\ j \in Nat /\ i \in Int
      BY <2>1 DEF Ats
    <3>2. t \in Ats(fmt) /\ t[1] > i
      BY <2>1, FmtNextFacts
    <3>3. t[1] \in Int /\ t[2] \in Nat
      BY <3>2 DEF Ats
    <3>4. f[at] = p \o f[t]
      BY <1>1, <2>1 DEF FmtRun, FmtTurn
    <3>5. fmt[i] \in Character /\ "%" \in Character
      BY <3>1, TerminalAssumption
    <3>6. Cardinality(Left(fmt, i)) \in Nat /\ Cardinality(Left(fmt, t[1])) \in Nat
      BY <3>1, <3>3, LeftFacts
    <3>7. j >= 1 /\ j + Cardinality(Left(fmt, i)) <= n + 1
      BY <2>1
    <3>8. CASE fmt[i] = "%" /\ i < Len(fmt) /\ fmt[i + 1] \in Directives
      <4>1. i \in Taken(fmt)
        BY <3>1, <3>8, <1>2 DEF Taken
      <4>2. p = Convert(fmt[i + 1], args[j]) /\ t = <<i + 2, j + 1>>
        BY <3>8 DEF FmtPiece, FmtNext
      <4>3. Cardinality(Left(fmt, t[1])) + 1 <= Cardinality(Left(fmt, i))
        BY <3>1, <3>2, <3>3, <4>1, LeftFacts
      <4>4. j <= n /\ j \in 1 .. n
        BY <3>1, <3>6, <3>7, <4>3
      <4>5. p \in Seq(Character)
        BY <4>1, <4>2, <4>4 DEF Fits
      <4>6. t[2] = j + 1
        BY <4>2
      <4>7. InTime(t)
        BY <3>1, <3>6, <3>7, <4>3, <4>6
      <4> QED
        <5> HIDE DEF t, p, i, j, InTime
        <5>1. t[1] + k > Len(fmt)
          BY <2>1, <3>1, <3>2, <3>3, <1>2 DEF i
        <5>2. f[t] \in Seq(Character)
          BY <1>4, <3>2, <4>7, <5>1
        <5> QED
          BY <3>4, <4>5, <5>2
    <3>9. CASE ~ (fmt[i] = "%" /\ i < Len(fmt) /\ fmt[i + 1] \in Directives)
      <4>1. p = <<fmt[i]>> \/ p = <<"%">>
        BY <3>9 DEF FmtPiece
      <4>2. t[2] = j
        BY <3>9 DEF FmtNext
      <4>3. Cardinality(Left(fmt, t[1])) <= Cardinality(Left(fmt, i))
        BY <3>1, <3>2, <3>3, LeftFacts
      <4>4. InTime(t)
        BY <3>1, <3>6, <3>7, <4>2, <4>3
      <4> HIDE DEF t, p, i, j, InTime
      <4>5. t[1] + k > Len(fmt)
        BY <2>1, <3>1, <3>2, <3>3, <1>2 DEF i
      <4>6. f[t] \in Seq(Character)
        BY <1>4, <3>2, <4>4, <4>5
      <4>7. p \in Seq(Character)
        <5>1. CASE p = <<fmt[i]>>
          BY <3>5, <5>1
        <5>2. CASE p = <<"%">>
          BY <3>5, <5>2
        <5> QED
          BY <4>1, <5>1, <5>2
      <4> QED
        BY <3>4, <4>6, <4>7
    <3> QED
      BY <3>8, <3>9
  <2>2. ASSUME NEW at \in Ats(fmt), at[1] > Len(fmt) PROVE f[at] \in Seq(Character)
    <3>1. f[at] = <<>>
      BY <1>1, <2>2 DEF FmtRun, FmtTurn
    <3> QED
      BY <3>1
  <2> HIDE DEF InTime
  <2> QED
    BY <2>1, <2>2
<1>5. Len(fmt) \in G
  <2> HIDE DEF G
  <2> QED
    BY <1>2, <1>3, <1>4, NatSetInduction
<1>6. <<1, 1>> \in Ats(fmt) /\ 1 + Len(fmt) > Len(fmt)
  BY <1>2 DEF Ats
<1>7. Left(fmt, 1) = Taken(fmt) /\ Cardinality(Taken(fmt)) \in Nat
  <2>1. Taken(fmt) \subseteq 1 .. Len(fmt)
    BY LeftFacts
  <2>2. Left(fmt, 1) = Taken(fmt)
    BY <2>1, <1>2 DEF Left
  <2> QED
    BY <2>2, LeftFacts
<1>8. InTime(<<1, 1>>)
  BY <1>7 DEF Fits
<1>9. f[<<1, 1>>] \in Seq(Character)
  <2> DEFINE at == <<1, 1>>
  <2>1. at[1] = 1
    OBVIOUS
  <2> HIDE DEF InTime, at
  <2>2. at[1] + Len(fmt) > Len(fmt)
    BY <2>1, <1>6
  <2>3. at \in Ats(fmt) /\ InTime(at)
    BY <1>6, <1>8 DEF at
  <2>4. f[at] \in Seq(Character)
    BY <1>5, <2>2, <2>3
  <2> QED
    BY <2>4 DEF at
<1> QED
  BY <1>1, <1>9 DEF FmtRun

PlainTurn(fmt, f, k, j) == f[<<k, j>>] = <<fmt[k]>> \o f[<<k + 1, j>>]

LEMMA FmtPlain ==
  ASSUME NEW fmt \in Seq(Character), NEW args, NEW f, FmtRun(fmt, args, f),
         NEW k \in 1 .. Len(fmt), NEW j \in Nat, fmt[k] # "%"
  PROVE  PlainTurn(fmt, f, k, j)
<1> DEFINE at == <<k, j>>
<1>1. at \in Ats(fmt) /\ at[1] = k /\ at[2] = j /\ Len(fmt) \in Nat /\ ~ (k > Len(fmt))
  BY DEF Ats
<1>2. FmtPiece(fmt, args, at) = <<fmt[k]>> /\ FmtNext(fmt, at) = <<k + 1, j>>
  BY <1>1 DEF FmtPiece, FmtNext
<1>3. f[at] = FmtTurn(fmt, args, f, at)
  BY <1>1 DEF FmtRun
<1> HIDE DEF at
<1>4. f[at] = <<fmt[k]>> \o f[<<k + 1, j>>]
  BY <1>1, <1>2, <1>3 DEF FmtTurn
<1> QED
  BY <1>4 DEF at, PlainTurn

\* A format with one directive is printed with the argument in its place.
LEMMA FmtOne ==
  ASSUME NEW fmt \in Seq(Character), NEW x, NEW i \in Taken(fmt),
         \A k \in DOMAIN fmt \ {i} : fmt[k] # "%", Convert(fmt[i + 1], x) \in Seq(Character)
  PROVE  VPrintFmt(fmt, <<x>>)
           = SubSeq(fmt, 1, i - 1) \o (Convert(fmt[i + 1], x) \o SubSeq(fmt, i + 2, Len(fmt)))
<1> DEFINE n == Len(fmt)
           args == <<x>>
<1>1. PICK f : FmtRun(fmt, args, f)
  BY FmtUnfolds
<1>2. n \in Nat /\ i \in 1 .. n - 1 /\ fmt[i] = "%" /\ fmt[i + 1] \in Directives /\ DOMAIN fmt = 1 .. n
  BY DEF Taken
<1> DEFINE G == {m \in Nat : \A k \in i + 2 .. n + 1 : k + m > n => f[<<k, 2>>] = SubSeq(fmt, k, n)}
<1>3. 0 \in G
  <2> SUFFICES ASSUME NEW k \in i + 2 .. n + 1, k + 0 > n PROVE f[<<k, 2>>] = SubSeq(fmt, k, n)
    OBVIOUS
  <2>0. k > n
    BY <1>2
  <2>1. <<k, 2>> \in Ats(fmt) /\ <<k, 2>>[1] = k
    BY <1>2 DEF Ats
  <2>2. f[<<k, 2>>] = <<>>
    BY <1>1, <2>0, <2>1 DEF FmtRun, FmtTurn
  <2>3. SubSeq(fmt, k, n) = <<>>
    BY <1>2, <2>0
  <2> QED
    BY <2>2, <2>3
<1>4. ASSUME NEW m \in Nat, m \in G PROVE m + 1 \in G
  <2> SUFFICES ASSUME NEW k \in i + 2 .. n + 1, k + (m + 1) > n, ~ (k + m > n)
               PROVE  f[<<k, 2>>] = SubSeq(fmt, k, n)
    BY <1>4
  <2>1. k \in 1 .. n /\ k # i /\ k + 1 \in i + 2 .. n + 1 /\ (k + 1) + m > n /\ n \in k .. n
    BY <1>2
  <2>2. f[<<k, 2>>] = <<fmt[k]>> \o f[<<k + 1, 2>>]
    <3>1. k \in 1 .. Len(fmt) /\ 2 \in Nat
      BY <2>1
    <3>2. fmt[k] # "%"
      BY <1>2, <2>1
    <3>3. PlainTurn(fmt, f, k, 2)
      BY <1>1, <3>1, <3>2, FmtPlain
    <3> QED
      BY <3>3 DEF PlainTurn
  <2>3. f[<<k + 1, 2>>] = SubSeq(fmt, k + 1, n)
    BY <1>4, <2>1
  <2>4. SubSeq(fmt, k, n) = <<fmt[k]>> \o SubSeq(fmt, k + 1, n)
    BY <2>1, SubSeqRecursiveFirst
  <2> QED
    BY <2>2, <2>3, <2>4
<1>5. n \in G
  <2> HIDE DEF G
  <2> QED
    BY <1>2, <1>3, <1>4, NatSetInduction
<1>6. f[<<i + 2, 2>>] = SubSeq(fmt, i + 2, n)
  <2>1. i + 2 \in i + 2 .. n + 1 /\ (i + 2) + n > n
    BY <1>2
  <2> QED
    BY <1>5, <2>1
<1> DEFINE c == Convert(fmt[i + 1], x)
           rest == c \o SubSeq(fmt, i + 2, n)
<1>7. f[<<i, 1>>] = rest
  <2> DEFINE at == <<i, 1>>
  <2>1. at \in Ats(fmt) /\ at[1] = i /\ at[2] = 1 /\ ~ (i > n) /\ i < n
    BY <1>2 DEF Ats
  <2>2. args[1] = x
    OBVIOUS
  <2>3. FmtPiece(fmt, args, at) = c /\ FmtNext(fmt, at) = <<i + 2, 2>>
    BY <1>2, <2>1, <2>2 DEF FmtPiece, FmtNext
  <2>4. f[at] = FmtTurn(fmt, args, f, at)
    BY <1>1, <2>1 DEF FmtRun
  <2> HIDE DEF at, c
  <2>5. f[at] = c \o f[<<i + 2, 2>>]
    BY <2>1, <2>3, <2>4 DEF FmtTurn
  <2> QED
    BY <2>5, <1>6 DEF at
<1>8. rest \in Seq(Character)
  <2>1. \A k \in i + 2 .. n : fmt[k] \in Character
    BY <1>2
  <2>2. SubSeq(fmt, i + 2, n) \in Seq(Character)
    BY <1>2, <2>1, SubSeqProperties
  <2>3. c \in Seq(Character)
    OBVIOUS
  <2> HIDE DEF c
  <2> QED
    BY <2>2, <2>3
<1> HIDE DEF rest
<1> DEFINE H == {m \in Nat : \A k \in 1 .. i : k + m >= i => f[<<k, 1>>] = SubSeq(fmt, k, i - 1) \o rest}
<1>9. 0 \in H
  <2> SUFFICES ASSUME NEW k \in 1 .. i, k + 0 >= i
               PROVE  f[<<k, 1>>] = SubSeq(fmt, k, i - 1) \o rest
    OBVIOUS
  <2>1. k = i /\ SubSeq(fmt, i, i - 1) = <<>>
    BY <1>2
  <2>2. <<>> \o rest = rest
    BY <1>8
  <2> QED
    BY <2>1, <2>2, <1>7
<1>10. ASSUME NEW m \in Nat, m \in H PROVE m + 1 \in H
  <2>10. m + 1 \in Nat
    OBVIOUS
  <2> SUFFICES ASSUME NEW k \in 1 .. i, k + (m + 1) >= i
               PROVE  f[<<k, 1>>] = SubSeq(fmt, k, i - 1) \o rest
    BY <2>10
  <2>0. CASE k + m >= i
    BY <1>10, <2>0
  <2> SUFFICES ASSUME ~ (k + m >= i) PROVE f[<<k, 1>>] = SubSeq(fmt, k, i - 1) \o rest
    BY <2>0
  <2>1. k \in 1 .. n /\ k # i /\ k + 1 \in 1 .. i /\ (k + 1) + m >= i /\ i - 1 \in k .. n /\ i - 1 \in Int
    BY <1>2
  <2>2. f[<<k, 1>>] = <<fmt[k]>> \o f[<<k + 1, 1>>]
    <3>1. k \in 1 .. Len(fmt) /\ 1 \in Nat
      BY <2>1
    <3>2. fmt[k] # "%"
      BY <1>2, <2>1
    <3>3. PlainTurn(fmt, f, k, 1)
      BY <1>1, <3>1, <3>2, FmtPlain
    <3> QED
      BY <3>3 DEF PlainTurn
  <2>3. f[<<k + 1, 1>>] = SubSeq(fmt, k + 1, i - 1) \o rest
    BY <1>10, <2>1
  <2> DEFINE b == SubSeq(fmt, k + 1, i - 1)
             a == <<fmt[k]>>
  <2>4. SubSeq(fmt, k, i - 1) = a \o b
    BY <2>1, SubSeqRecursiveFirst
  <2>5. a \in Seq(Character)
    <3>1. fmt[k] \in Character
      BY <2>1
    <3> QED
      BY <3>1
  <2>6. b \in Seq(Character)
    <3>1. \A t \in k + 1 .. i - 1 : fmt[t] \in Character
      BY <1>2, <2>1
    <3>2. k + 1 \in Int
      OBVIOUS
    <3> QED
      BY <3>1, <3>2, <2>1, SubSeqProperties
  <2> HIDE DEF a, b
  <2>7. a \o (b \o rest) = (a \o b) \o rest
    <3>1. rest \in Seq(Character)
      BY <1>8
    <3>2. Joins(a, b, rest)
      BY <3>1, <2>5, <2>6, Assoc
    <3> QED
      BY <3>2 DEF Joins
  <2>8. f[<<k, 1>>] = a \o (b \o rest)
    BY <2>2, <2>3 DEF a, b
  <2> QED
    BY <2>4, <2>7, <2>8
<1>11. i \in H
  <2> HIDE DEF H
  <2>1. i \in Nat
    BY <1>2
  <2> QED
    BY <2>1, <1>9, <1>10, NatSetInduction
<1>12. f[<<1, 1>>] = SubSeq(fmt, 1, i - 1) \o rest
  <2>1. 1 \in 1 .. i /\ 1 + i >= i
    BY <1>2
  <2> QED
    BY <1>11, <2>1
<1> QED
  BY <1>1, <1>12 DEF FmtRun, rest
-----------------------------------------------------------------------------
(***************************************************************************)
(* PutStr, PrintfPutCh and VPrintf.                                        *)
(***************************************************************************)
Recs(str, color) == [i \in DOMAIN str |-> [ch |-> str[i], color |-> color]]

LEMMA NoFlush == \A color : \A c \in Character : [ch |-> c, color |-> color] # FLUSH
<1> SUFFICES ASSUME NEW c \in Character, NEW color, [ch |-> c, color |-> color] = FLUSH PROVE FALSE
  OBVIOUS
<1>1. c = "flush"
  <2>1. [ch |-> c, color |-> color].ch = c
    OBVIOUS
  <2>2. FLUSH.ch = "flush"
    BY DEF FLUSH
  <2> QED
    BY <2>1, <2>2
<1> QED
  BY <1>1, TerminalAssumption

LEMMA PutStrIs ==
  ASSUME NEW str \in Seq(Character), NEW color \in Color
  PROVE  /\ PutStr(str, color) = Append(Recs(str, color), FLUSH)
         /\ Recs(str, color) \in Seq(Pending) /\ Len(Recs(str, color)) = Len(str)
         /\ FLUSH \in Pending
<1>1. \A i \in DOMAIN str : str[i] \in Character /\ str[i] # NUL
  BY TerminalAssumption
<1>2. {i \in DOMAIN str : str[i] = NUL} = {}
  BY <1>1
<1>3. PutStr(str, color) = Append(Recs(str, color), FLUSH)
  BY <1>2 DEF PutStr, Recs
<1>4. FLUSH \in Pending /\ \A i \in DOMAIN str : [ch |-> str[i], color |-> color] \in Pending
  BY <1>1 DEF Pending
<1>5. Recs(str, color) \in Seq(Pending) /\ Len(Recs(str, color)) = Len(str)
  <2>1. Len(str) \in Nat /\ DOMAIN str = 1 .. Len(str)
    OBVIOUS
  <2> QED
    BY <1>4, <2>1 DEF Recs
<1> QED
  BY <1>3, <1>4, <1>5

CharOf(x) == IF x = FLUSH THEN <<>> ELSE <<x.ch>>
CharMap(p) == [i \in DOMAIN p |-> CharOf(p[i])]

LEMMA CharsAre == \A p : Chars(p) = FlattenSeq(CharMap(p))
BY DEF Chars, CharMap, CharOf

LEMMA CharMapType ==
  ASSUME NEW p \in Seq(Pending)
  PROVE  CharMap(p) \in Seq(Seq(Character)) /\ Len(CharMap(p)) = Len(p)
         /\ \A i \in 1 .. Len(p) : CharMap(p)[i] = CharOf(p[i])
<1>1. Len(p) \in Nat /\ DOMAIN p = 1 .. Len(p)
  OBVIOUS
<1>2. ASSUME NEW i \in 1 .. Len(p) PROVE CharOf(p[i]) \in Seq(Character)
  <2>1. p[i] \in Pending
    OBVIOUS
  <2>2. CASE p[i] = FLUSH
    BY <2>2 DEF CharOf
  <2>3. CASE p[i] # FLUSH
    <3>1. p[i].ch \in Character
      BY <2>1, <2>3 DEF Pending
    <3> QED
      BY <2>3, <3>1 DEF CharOf
  <2> QED
    BY <2>2, <2>3
<1> QED
  BY <1>1, <1>2 DEF CharMap

Concats(T, a, b) ==
  /\ a \o b \in Seq(T) /\ Len(a \o b) = Len(a) + Len(b)
  /\ \A i \in 1 .. Len(a) + Len(b) : (a \o b)[i] = IF i <= Len(a) THEN a[i] ELSE b[i - Len(a)]

LEMMA ConcatIs == ASSUME NEW T, NEW a, NEW b, a \in Seq(T), b \in Seq(T) PROVE Concats(T, a, b)
<1>1. a \o b \in Seq(T) /\ Len(a \o b) = Len(a) + Len(b)
  OBVIOUS
<1>2. \A i \in 1 .. Len(a) + Len(b) : (a \o b)[i] = IF i <= Len(a) THEN a[i] ELSE b[i - Len(a)]
  OBVIOUS
<1> QED
  BY <1>1, <1>2 DEF Concats

LEMMA CharsConcat ==
  ASSUME NEW a \in Seq(Pending), NEW b \in Seq(Pending)
  PROVE  Chars(a \o b) = Chars(a) \o Chars(b)
<1> DEFINE ab == a \o b
           s == CharMap(ab)
           t == CharMap(a) \o CharMap(b)
<1>1. ab \in Seq(Pending) /\ Len(ab) = Len(a) + Len(b) /\ Len(a) \in Nat /\ Len(b) \in Nat
      /\ \A i \in 1 .. Len(a) + Len(b) : ab[i] = IF i <= Len(a) THEN a[i] ELSE b[i - Len(a)]
  OBVIOUS
<1> HIDE DEF ab
<1>2. /\ CharMap(a) \in Seq(Seq(Character)) /\ Len(CharMap(a)) = Len(a)
      /\ \A i \in 1 .. Len(a) : CharMap(a)[i] = CharOf(a[i])
  BY CharMapType
<1>3. /\ CharMap(b) \in Seq(Seq(Character)) /\ Len(CharMap(b)) = Len(b)
      /\ \A i \in 1 .. Len(b) : CharMap(b)[i] = CharOf(b[i])
  BY CharMapType
<1>4. /\ s \in Seq(Seq(Character)) /\ Len(s) = Len(ab)
      /\ \A i \in 1 .. Len(ab) : s[i] = CharOf(ab[i])
  BY <1>1, CharMapType
<1>5. /\ t \in Seq(Seq(Character)) /\ Len(t) = Len(a) + Len(b)
      /\ \A i \in 1 .. Len(a) + Len(b) :
           t[i] = IF i <= Len(a) THEN CharMap(a)[i] ELSE CharMap(b)[i - Len(a)]
  <2> DEFINE c == CharMap(a)
             d == CharMap(b)
  <2>1. c \in Seq(Seq(Character)) /\ Len(c) = Len(a)
    BY <1>2
  <2>2. d \in Seq(Seq(Character)) /\ Len(d) = Len(b)
    BY <1>3
  <2> HIDE DEF c, d
  <2>3. Concats(Seq(Character), c, d)
    BY <2>1, <2>2, ConcatIs
  <2>4. c \o d = t
    BY DEF c, d
  <2> HIDE DEF t
  <2> QED
    BY <2>1, <2>2, <2>3, <2>4 DEF c, d, Concats
<1>6. ASSUME NEW i \in 1 .. Len(s) PROVE s[i] = t[i]
  <2>1. i \in 1 .. Len(a) + Len(b) /\ i \in 1 .. Len(ab)
    BY <1>1, <1>4
  <2>2. CASE i <= Len(a)
    <3>1. i \in 1 .. Len(a)
      BY <1>1, <2>1, <2>2
    <3>2. s[i] = CharOf(a[i])
      BY <1>1, <1>4, <2>1, <2>2
    <3> QED
      BY <3>1, <3>2, <1>2, <1>5, <2>1, <2>2
  <2>3. CASE ~ (i <= Len(a))
    <3>1. i - Len(a) \in 1 .. Len(b)
      BY <1>1, <2>1, <2>3
    <3>2. s[i] = CharOf(b[i - Len(a)])
      BY <1>1, <1>4, <2>1, <2>3
    <3>3. t[i] = CharMap(b)[i - Len(a)]
      BY <1>5, <2>1, <2>3
    <3> QED
      BY <3>1, <3>2, <3>3, <1>3
  <2> QED
    BY <2>2, <2>3
<1> HIDE DEF s, t
<1>7. s = t
  <2>1. Len(s) = Len(t) /\ s \in Seq(Seq(Character)) /\ t \in Seq(Seq(Character))
    BY <1>1, <1>4, <1>5
  <2> QED
    BY <2>1, <1>6, SeqEqual
<1>8. FlattenSeq(s) = FlattenSeq(CharMap(a)) \o FlattenSeq(CharMap(b))
  <2>1. FlattenSeq(t) = FlattenSeq(CharMap(a)) \o FlattenSeq(CharMap(b))
    BY <1>2, <1>3, FlatConcat DEF t
  <2> QED
    BY <1>7, <2>1
<1>9. Chars(ab) = FlattenSeq(s)
  BY CharsAre DEF s
<1>10. Chars(a) = FlattenSeq(CharMap(a)) /\ Chars(b) = FlattenSeq(CharMap(b))
  BY CharsAre
<1> QED
  BY <1>8, <1>9, <1>10 DEF ab

LEMMA CharsRecs ==
  ASSUME NEW str \in Seq(Character), NEW color \in Color
  PROVE  Chars(Recs(str, color)) = str
<1> DEFINE n == Len(str)
           m == CharMap(Recs(str, color))
<1>1. n \in Nat /\ DOMAIN str = 1 .. n /\ \A i \in 1 .. n : str[i] \in Character
  OBVIOUS
<1>2. m \in Seq(Seq(Character)) /\ Len(m) = n /\ \A i \in 1 .. n : m[i] = <<str[i]>>
  <2> DEFINE p == Recs(str, color)
  <2>1. p \in Seq(Pending) /\ Len(p) = n
    BY PutStrIs
  <2>2. ASSUME NEW i \in 1 .. n PROVE CharOf(p[i]) = <<str[i]>>
    <3>1. p[i] = [ch |-> str[i], color |-> color]
      BY <1>1 DEF Recs
    <3>2. p[i] # FLUSH /\ p[i].ch = str[i]
      BY <3>1, <1>1, NoFlush
    <3> QED
      BY <3>2 DEF CharOf
  <2> HIDE DEF p
  <2> QED
    BY <2>1, <2>2, CharMapType DEF p
<1> HIDE DEF m
<1>3. PICK w : FlatRun(m, w)
  BY <1>2, FlatUnfolds
<1> DEFINE G == {k \in Nat : k <= n => w[k] = SubSeq(str, 1, k)}
<1>4. 0 \in G
  <2>1. SubSeq(str, 1, 0) = <<>>
    OBVIOUS
  <2> QED
    BY <2>1, <1>3 DEF FlatRun
<1>5. ASSUME NEW k \in Nat, k \in G PROVE k + 1 \in G
  <2> SUFFICES ASSUME k + 1 <= n PROVE w[k + 1] = SubSeq(str, 1, k + 1)
    OBVIOUS
  <2> DEFINE j == k + 1
  <2>1. j \in 1 .. n /\ j - 1 = k /\ k <= n /\ 1 \in 1 .. n
    BY <1>1
  <2> HIDE DEF j
  <2>2. w[j] = w[k] \o <<str[j]>>
    BY <1>2, <1>3, <2>1 DEF FlatRun
  <2>3. SubSeq(str, 1, j) = SubSeq(str, 1, j - 1) \o <<str[j]>>
    <3>1. 1 \in 1 .. Len(str) /\ j \in 1 .. Len(str)
      BY <2>1
    <3> QED
      BY <3>1, SubSeqRecursiveSecond
  <2>4. w[k] = SubSeq(str, 1, k)
    BY <1>5, <2>1
  <2> QED
    BY <2>1, <2>2, <2>3, <2>4 DEF j
<1>6. n \in G
  <2> HIDE DEF G
  <2> QED
    BY <1>1, <1>4, <1>5, NatSetInduction
<1>7. SubSeq(str, 1, n) = str
  OBVIOUS
<1>8. FlattenSeq(m) = w[n]
  BY <1>2, <1>3 DEF FlatRun
<1>9. w[n] = str
  BY <1>1, <1>6, <1>7
<1> QED
  BY <1>8, <1>9, CharsAre DEF m

\* What PutStr hands to the screen.
PutStrShows(str, color, p) ==
  /\ p \in Seq(Pending) /\ Len(p) = Len(str) + 1 /\ p[Len(p)] = FLUSH
  /\ \A i \in 1 .. Len(str) : p[i] = [ch |-> str[i], color |-> color]
  /\ Chars(p) = str

LEMMA PutStrFacts ==
  ASSUME NEW str \in Seq(Character), NEW color \in Color
  PROVE  PutStrShows(str, color, PutStr(str, color))
<1> DEFINE r == Recs(str, color)
           p == PutStr(str, color)
<1>1. p = Append(r, FLUSH) /\ r \in Seq(Pending) /\ Len(r) = Len(str) /\ FLUSH \in Pending
  BY PutStrIs
<1>2. Len(str) \in Nat /\ \A i \in 1 .. Len(str) : r[i] = [ch |-> str[i], color |-> color]
  BY DEF Recs
<1>3. Chars(r) = str
  BY CharsRecs
<1> HIDE DEF r, p
<1>4. p \in Seq(Pending) /\ Len(p) = Len(str) + 1 /\ p[Len(p)] = FLUSH
      /\ \A i \in 1 .. Len(str) : p[i] = [ch |-> str[i], color |-> color]
  BY <1>1, <1>2
<1>5. p = r \o <<FLUSH>> /\ <<FLUSH>> \in Seq(Pending)
  BY <1>1, AppendIsConcat
<1>6. Chars(<<FLUSH>>) = <<>>
  <2> DEFINE f == <<FLUSH>>
             m == CharMap(f)
  <2>1. f \in Seq(Pending) /\ Len(f) = 1 /\ f[1] = FLUSH
    BY <1>5
  <2> HIDE DEF f
  <2>2. m \in Seq(Seq(Character)) /\ Len(m) = 1 /\ m[1] = <<>>
    <3>1. m \in Seq(Seq(Character)) /\ Len(m) = 1 /\ \A i \in 1 .. 1 : m[i] = CharOf(f[i])
      BY <2>1, CharMapType
    <3>2. m[1] = CharOf(f[1])
      BY <3>1
    <3>3. CharOf(FLUSH) = <<>>
      BY DEF CharOf
    <3> QED
      BY <2>1, <3>1, <3>2, <3>3
  <2> HIDE DEF m
  <2>3. PICK w : FlatRun(m, w)
    BY <2>2, FlatUnfolds
  <2>4. w[0] = <<>> /\ w[1] = w[0] \o m[1] /\ FlattenSeq(m) = w[1]
    <3>1. 1 \in 1 .. Len(m) /\ 1 - 1 = 0
      BY <2>2
    <3> QED
      BY <3>1, <2>2, <2>3 DEF FlatRun
  <2>5. FlattenSeq(m) = <<>>
    BY <2>2, <2>4
  <2> QED
    BY <2>5, CharsAre DEF m, f
<1>7. Chars(p) = str
  <2>1. Chars(r \o <<FLUSH>>) = Chars(r) \o Chars(<<FLUSH>>)
    BY <1>1, <1>5, CharsConcat
  <2>2. str \o <<>> = str
    OBVIOUS
  <2> QED
    BY <2>1, <2>2, <1>3, <1>5, <1>6
<1>8. PutStrShows(str, color, p)
  BY <1>4, <1>7 DEF PutStrShows
<1> QED
  BY <1>8 DEF p

Glued(text, a, b) == SubSeq(text, 1, a) \o SubSeq(text, a + 1, b) = SubSeq(text, 1, b)

LEMMA SubSeqGlued ==
  ASSUME NEW T, NEW text \in Seq(T), NEW a \in Nat, NEW b \in Nat, a <= b, b <= Len(text)
  PROVE  Glued(text, a, b)
<1> DEFINE u == SubSeq(text, 1, a)
           v == SubSeq(text, a + 1, b)
           s == SubSeq(text, 1, b)
<1>1. Len(text) \in Nat /\ \A i \in 1 .. Len(text) : text[i] \in T
  OBVIOUS
<1>2. u \in Seq(T) /\ Len(u) = a /\ \A i \in 1 .. a : u[i] = text[i]
  <2>1. \A i \in 1 .. a : text[i] \in T
    BY <1>1
  <2> QED
    BY <2>1, SubSeqProperties
<1>3. v \in Seq(T) /\ Len(v) = b - a /\ \A i \in 1 .. b - a : v[i] = text[a + i]
  <2>1. \A i \in a + 1 .. b : text[i] \in T
    BY <1>1
  <2>2. a + 1 \in Int /\ b \in Int
    OBVIOUS
  <2>3. v \in Seq(T) /\ Len(v) = (IF a + 1 <= b THEN b - (a + 1) + 1 ELSE 0)
        /\ \A i \in 1 .. b - (a + 1) + 1 : v[i] = text[(a + 1) + i - 1]
    BY <2>1, <2>2, SubSeqProperties
  <2> HIDE DEF v
  <2> QED
    BY <2>3
<1>4. s \in Seq(T) /\ Len(s) = b /\ \A i \in 1 .. b : s[i] = text[i]
  <2>1. \A i \in 1 .. b : text[i] \in T
    BY <1>1
  <2> QED
    BY <2>1, SubSeqProperties
<1> HIDE DEF u, v, s
<1>5. Concats(T, u, v)
  BY <1>2, <1>3, ConcatIs
<1> DEFINE t == u \o v
<1>6. t \in Seq(T) /\ Len(t) = b /\ \A i \in 1 .. b : t[i] = IF i <= a THEN u[i] ELSE v[i - a]
  BY <1>2, <1>3, <1>5 DEF Concats
<1> HIDE DEF t
<1>7. \A i \in 1 .. Len(t) : t[i] = s[i]
  <2> SUFFICES ASSUME NEW i \in 1 .. b PROVE t[i] = s[i]
    BY <1>6
  <2>1. CASE i <= a
    BY <2>1, <1>2, <1>4, <1>6
  <2>2. CASE ~ (i <= a)
    <3>1. i - a \in 1 .. b - a /\ a + (i - a) = i
      BY <2>2
    <3>2. v[i - a] = text[a + (i - a)]
      BY <3>1, <1>3
    <3> QED
      BY <2>2, <3>1, <3>2, <1>4, <1>6
  <2> QED
    BY <2>1, <2>2
<1>8. t = s
  BY <1>4, <1>6, <1>7, SeqEqual
<1> QED
  BY <1>8 DEF Glued, t, s, u, v

\* The end of the first k pieces of a text that is handed on.
Room == CONSOLE_BUFFER_SIZE - 1
UpTo(text, k) == IF k * Room < Len(text) THEN k * Room ELSE Len(text)
HandedOn(text, strs) ==
  /\ strs \in Seq(Seq(Character)) /\ Len(strs) > 0
  /\ UpTo(text, 0) = 0 /\ UpTo(text, Len(strs)) = Len(text)
  /\ \A k \in 1 .. Len(strs) :
       /\ strs[k] = SubSeq(text, UpTo(text, k - 1) + 1, UpTo(text, k))
       /\ UpTo(text, k) \in Nat /\ UpTo(text, k - 1) \in Nat
       /\ UpTo(text, k - 1) <= UpTo(text, k) /\ UpTo(text, k) <= Len(text)
       /\ Len(text) = 1 => UpTo(text, k) = 1

LEMMA BufferedFacts ==
  ASSUME NEW text \in Seq(Character)
  PROVE  HandedOn(text, Buffered(text))
<1> DEFINE n == Room
           len == Len(text)
           m == len \div n + 1
           b == Buffered(text)
<1>1. n \in Nat /\ n >= 1 /\ len \in Nat
  BY LineBufferAssumption DEF Room
<1>2. b = [k \in 1 .. m |-> SubSeq(text, (k - 1) * n + 1, UpTo(text, k))]
  BY DEF Buffered, UpTo, Room
<1> HIDE DEF n, len, b
<1>3. len \div n \in Nat /\ (len \div n) * n <= len /\ len < m * n /\ m \in Nat
  <2>0. n > 0
    BY <1>1
  <2>1. len \div n \in Nat /\ len % n \in Nat /\ len % n < n /\ len = (len \div n) * n + (len % n)
    BY <1>1, <2>0, DivMod
  <2> DEFINE q == len \div n
             r == len % n
  <2>2. q \in Nat /\ r \in Nat /\ r < n /\ len = q * n + r
    BY <2>1
  <2> HIDE DEF q, r
  <2>3. (q + 1) * n = q * n + n /\ q * n \in Nat
    BY <1>1, <2>2
  <2>4. q * n <= len /\ len < (q + 1) * n /\ q + 1 \in Nat
    BY <1>1, <2>2, <2>3
  <2> QED
    BY <2>2, <2>4 DEF q
<1> HIDE DEF m
<1>4. \A k \in Nat : UpTo(text, k) = IF k * n < len THEN k * n ELSE len
  BY DEF UpTo, n, len
<1>5. ASSUME NEW k \in 1 .. m
      PROVE  /\ (k - 1) * n \in Nat /\ k * n \in Nat /\ (k - 1) * n <= len /\ k * n = (k - 1) * n + n
             /\ UpTo(text, k - 1) = (k - 1) * n
             /\ UpTo(text, k) \in Nat /\ UpTo(text, k - 1) <= UpTo(text, k) /\ UpTo(text, k) <= len
             /\ len = 1 => UpTo(text, k) = 1
  <2>1. k \in Nat /\ k - 1 \in Nat /\ k - 1 <= len \div n /\ k >= 1
    BY <1>3 DEF m
  <2>2. (k - 1) * n <= (len \div n) * n
    BY <1>1, <1>3, <2>1, MulMono
  <2>3. (k - 1) * n \in Nat /\ k * n \in Nat /\ k * n = (k - 1) * n + n /\ (len \div n) * n \in Nat
    BY <1>1, <1>3, <2>1
  <2>4. (k - 1) * n <= len
    BY <1>1, <1>3, <2>2, <2>3
  <2> DEFINE x == (k - 1) * n
             y == k * n
  <2>5. x \in Nat /\ y \in Nat /\ y = x + n /\ x <= len
    BY <2>3, <2>4
  <2>6. UpTo(text, k - 1) = (IF x < len THEN x ELSE len) /\ UpTo(text, k) = IF y < len THEN y ELSE len
    BY <1>4, <2>1
  <2> HIDE DEF x, y
  <2>7. /\ UpTo(text, k - 1) = x
        /\ UpTo(text, k) \in Nat /\ UpTo(text, k - 1) <= UpTo(text, k) /\ UpTo(text, k) <= len
        /\ len = 1 => UpTo(text, k) = 1
    BY <1>1, <2>5, <2>6
  <2> QED
    BY <2>3, <2>4, <2>7 DEF x
<1>6. UpTo(text, 0) = 0 /\ UpTo(text, m) = len
  <2>1. 0 * n = 0 /\ m * n \in Nat
    BY <1>1, <1>3
  <2>2. UpTo(text, 0) = 0
    BY <1>1, <1>4, <2>1
  <2>3. UpTo(text, m) = len
    BY <1>1, <1>3, <1>4, <2>1
  <2> QED
    BY <2>2, <2>3
<1>7. ASSUME NEW k \in 1 .. m
      PROVE  SubSeq(text, (k - 1) * n + 1, UpTo(text, k)) \in Seq(Character)
  <2> DEFINE x == (k - 1) * n
             z == UpTo(text, k)
  <2>1. x \in Nat /\ z \in Nat /\ z <= len
    BY <1>5
  <2> HIDE DEF x, z
  <2>2. \A i \in x + 1 .. z : text[i] \in Character
    BY <2>1, <1>1 DEF len
  <2>3. x + 1 \in Int /\ z \in Int
    BY <2>1
  <2>4. SubSeq(text, x + 1, z) \in Seq(Character)
    BY <2>2, <2>3, SubSeqProperties
  <2> QED
    BY <2>4 DEF x, z
<1>8. b \in Seq(Seq(Character)) /\ Len(b) = m
  BY <1>2, <1>3, <1>7
<1>9. ASSUME NEW k \in 1 .. Len(b)
      PROVE  b[k] = SubSeq(text, UpTo(text, k - 1) + 1, UpTo(text, k))
  <2>1. k \in 1 .. m
    BY <1>8
  <2>2. b[k] = SubSeq(text, (k - 1) * n + 1, UpTo(text, k))
    BY <1>2, <2>1
  <2>3. UpTo(text, k - 1) = (k - 1) * n
    BY <1>5, <2>1
  <2> QED
    BY <2>2, <2>3
<1>10. m > 0
  BY <1>3 DEF m
<1>11. ASSUME NEW k \in 1 .. Len(b)
       PROVE  /\ UpTo(text, k) \in Nat /\ UpTo(text, k - 1) \in Nat
              /\ UpTo(text, k - 1) <= UpTo(text, k) /\ UpTo(text, k) <= len
              /\ len = 1 => UpTo(text, k) = 1
  <2>1. k \in 1 .. m
    BY <1>8
  <2>2. (k - 1) * n \in Nat /\ UpTo(text, k - 1) = (k - 1) * n
    BY <1>5, <2>1
  <2>3. UpTo(text, k - 1) \in Nat
    BY <2>2
  <2> QED
    BY <1>5, <2>1, <2>3
<1>12. HandedOn(text, b)
  BY <1>6, <1>8, <1>9, <1>10, <1>11 DEF HandedOn, len
<1> QED
  BY <1>12 DEF b

\* What Printf hands to the screen: the text, flushed at the end; of one character no
\* more than it and flushes.
PrintShows(text, color, p) ==
  /\ p \in Seq(Pending) /\ Len(p) > 0 /\ p[Len(p)] = FLUSH
  /\ Chars(p) = text
  /\ Len(text) = 1 => /\ p[1] = [ch |-> text[1], color |-> color]
                      /\ \A i \in 2 .. Len(p) : p[i] = FLUSH

\* As far as the first k pieces.
PrintedTo(text, color, k, p) ==
  /\ p \in Seq(Pending) /\ Chars(p) = SubSeq(text, 1, UpTo(text, k))
  /\ k > 0 => /\ Len(p) > 0 /\ p[Len(p)] = FLUSH
              /\ Len(text) = 1 => /\ p[1] = [ch |-> text[1], color |-> color]
                                  /\ \A i \in 2 .. Len(p) : p[i] = FLUSH

LEMMA PrintfFacts ==
  ASSUME NEW color \in Color, NEW fmt, NEW args, VPrintFmt(fmt, args) \in Seq(Character)
  PROVE  PrintShows(VPrintFmt(fmt, args), color, PrintfColor(color, fmt, args))
<1> DEFINE text == VPrintFmt(fmt, args)
           strs == Buffered(text)
           ss == [k \in DOMAIN strs |-> PutStr(strs[k], color)]
           n == Len(strs)
<1>1. HandedOn(text, strs)
  BY BufferedFacts
<1>2. PrintfColor(color, fmt, args) = FlattenSeq(ss)
  BY DEF PrintfColor
<1>14. text \in Seq(Character)
  OBVIOUS
<1> HIDE DEF text
<1>3. strs \in Seq(Seq(Character)) /\ n \in Nat /\ n > 0 /\ DOMAIN strs = 1 .. n
      /\ \A k \in 1 .. n : strs[k] \in Seq(Character)
  BY <1>1 DEF HandedOn
<1> HIDE DEF strs
<1>4. \A k \in 1 .. n : PutStrShows(strs[k], color, ss[k])
  BY <1>3, PutStrFacts
<1>5. ss \in Seq(Seq(Pending)) /\ Len(ss) = n
  BY <1>3, <1>4 DEF PutStrShows
<1> HIDE DEF ss, n
<1>6. PICK w : FlatRun(ss, w)
  BY <1>5, FlatUnfolds
<1> DEFINE G == {k \in Nat : k <= n => PrintedTo(text, color, k, w[k])}
<1>7. 0 \in G
  <2>1. w[0] = <<>> /\ <<>> \in Seq(Pending)
    BY <1>6 DEF FlatRun
  <2>2. CharMap(<<>>) = <<>>
    BY DEF CharMap
  <2>3. Chars(<<>>) = <<>>
    BY <2>2, CharsAre, FlatEmpty
  <2>4. SubSeq(text, 1, UpTo(text, 0)) = <<>>
    BY <1>1 DEF HandedOn
  <2>5. PrintedTo(text, color, 0, w[0])
    <3> DEFINE p == w[0]
    <3>1. p \in Seq(Pending) /\ Chars(p) = SubSeq(text, 1, UpTo(text, 0))
      BY <2>1, <2>3, <2>4
    <3> HIDE DEF p
    <3>2. PrintedTo(text, color, 0, p)
      BY <3>1 DEF PrintedTo
    <3> QED
      BY <3>2 DEF p
  <2> QED
    BY <2>5
<1>8. ASSUME NEW k \in Nat, k \in G PROVE k + 1 \in G
  <2> SUFFICES ASSUME k + 1 <= n PROVE PrintedTo(text, color, k + 1, w[k + 1])
    OBVIOUS
  <2> DEFINE j == k + 1
             p == w[k]
             q == ss[j]
             r == w[j]
             a == UpTo(text, k)
             b == UpTo(text, j)
  <2>1. j \in 1 .. n /\ j - 1 = k /\ k <= n /\ j \in Nat /\ j > 0
    BY <1>3
  <2>2. r = p \o q
    BY <2>1, <1>5, <1>6 DEF FlatRun
  <2>3. PrintedTo(text, color, k, p)
    BY <1>8, <2>1
  <2> HIDE DEF j, p
  <2>4. PutStrShows(strs[j], color, q)
    BY <1>4, <2>1
  <2>5. /\ strs[j] = SubSeq(text, a + 1, b) /\ a \in Nat /\ b \in Nat /\ a <= b /\ b <= Len(text)
        /\ Len(text) = 1 => b = 1
    BY <1>1, <2>1 DEF HandedOn, n
  <2> HIDE DEF q, r, a, b
  <2>6. p \in Seq(Pending) /\ q \in Seq(Pending) /\ Len(q) = Len(strs[j]) + 1 /\ q[Len(q)] = FLUSH
    BY <2>3, <2>4 DEF PrintedTo, PutStrShows
  <2>7. Chars(r) = SubSeq(text, 1, b)
    <3>1. Chars(p \o q) = Chars(p) \o Chars(q)
      BY <2>6, CharsConcat
    <3>2. Chars(p) = SubSeq(text, 1, a) /\ Chars(q) = SubSeq(text, a + 1, b)
      BY <2>3, <2>4, <2>5 DEF PrintedTo, PutStrShows, a
    <3>3. Glued(text, a, b)
      BY <1>14, <2>5, SubSeqGlued
    <3> QED
      BY <2>2, <3>1, <3>2, <3>3 DEF Glued
  <2>8. Concats(Pending, p, q)
    BY <2>6, ConcatIs
  <2>9. Len(p) \in Nat /\ Len(q) \in Nat /\ Len(strs[j]) \in Nat /\ Len(q) > 0
    <3>1. strs[j] \in Seq(Character)
      BY <1>3, <2>1
    <3>2. Len(strs[j]) \in Nat
      BY <3>1
    <3> QED
      BY <2>6, <3>2
  <2>10. r \in Seq(Pending) /\ Len(r) = Len(p) + Len(q)
         /\ \A i \in 1 .. Len(p) + Len(q) : r[i] = IF i <= Len(p) THEN p[i] ELSE q[i - Len(p)]
    BY <2>2, <2>8 DEF Concats
  <2>11. Len(r) > 0 /\ r[Len(r)] = FLUSH
    <3>1. Len(r) \in 1 .. Len(p) + Len(q) /\ ~ (Len(r) <= Len(p)) /\ Len(r) - Len(p) = Len(q) /\ Len(r) > 0
      BY <2>9, <2>10
    <3>2. r[Len(r)] = q[Len(r) - Len(p)]
      BY <2>10, <3>1
    <3> QED
      BY <2>6, <3>1, <3>2
  <2>12. ASSUME Len(text) = 1
         PROVE  r[1] = [ch |-> text[1], color |-> color] /\ \A i \in 2 .. Len(r) : r[i] = FLUSH
    <3>1. CASE k = 0
      <4>1. w[0] = <<>>
        BY <1>6 DEF FlatRun
      <4>2. p = <<>> /\ Len(p) = 0
        BY <3>1, <4>1 DEF p
      <4>3. a = 0 /\ b = 1
        BY <1>1, <2>5, <2>12, <3>1 DEF HandedOn, a
      <4>4. \A i \in 1 .. 1 : text[i] \in Character
        BY <1>14, <2>12
      <4>5. Len(strs[j]) = 1 /\ strs[j][1] = text[1]
        <5>1. strs[j] = SubSeq(text, 1, 1)
          BY <2>5, <4>3
        <5> QED
          BY <4>4, <5>1, SubSeqProperties
      <4>6. q[1] = [ch |-> text[1], color |-> color] /\ Len(q) = 2 /\ q[2] = FLUSH
        BY <2>4, <2>6, <4>5 DEF PutStrShows
      <4>7. Len(r) = 2 /\ r[1] = q[1] /\ r[2] = q[2]
        BY <2>10, <4>2, <4>6
      <4> QED
        BY <4>6, <4>7
    <3>2. CASE k > 0
      <4>1. Len(p) > 0 /\ p[1] = [ch |-> text[1], color |-> color] /\ \A i \in 2 .. Len(p) : p[i] = FLUSH
        BY <2>3, <2>12, <3>2 DEF PrintedTo
      <4>2. a = 1 /\ b = 1
        <5>1. k \in 1 .. n
          BY <1>3, <2>1, <3>2
        <5> QED
          BY <1>1, <2>5, <2>12, <5>1 DEF HandedOn, a, n
      <4>3. strs[j] = <<>>
        BY <2>5, <4>2
      <4>4. Len(q) = 1
        BY <2>6, <4>3
      <4>5. q[1] = FLUSH
        BY <2>6, <4>4
      <4>6. r[1] = p[1]
        BY <2>9, <2>10, <4>1, <4>4
      <4>7. ASSUME NEW i \in 2 .. Len(r) PROVE r[i] = FLUSH
        <5>1. i \in 1 .. Len(p) + Len(q) /\ Len(r) = Len(p) + 1
          BY <2>9, <2>10, <4>4
        <5>2. CASE i <= Len(p)
          <6>1. i \in 2 .. Len(p)
            BY <2>9, <5>2
          <6> QED
            BY <2>10, <4>1, <5>1, <5>2, <6>1
        <5>3. CASE ~ (i <= Len(p))
          <6>1. i - Len(p) = 1
            BY <2>9, <5>1, <5>3
          <6> QED
            BY <2>10, <4>5, <5>1, <5>3, <6>1
        <5> QED
          BY <5>2, <5>3
      <4> QED
        BY <4>1, <4>6, <4>7
    <3> QED
      BY <3>1, <3>2
  <2>13. PrintedTo(text, color, j, r)
    BY <2>7, <2>10, <2>11, <2>12 DEF PrintedTo, b
  <2> QED
    BY <2>13 DEF j, r
<1>9. n \in G
  <2> HIDE DEF G
  <2> QED
    BY <1>3, <1>7, <1>8, NatSetInduction
<1>10. PrintedTo(text, color, n, w[n])
  BY <1>3, <1>9
<1>11. FlattenSeq(ss) = w[n]
  BY <1>5, <1>6 DEF FlatRun
<1>12. SubSeq(text, 1, UpTo(text, n)) = text
  <2>1. UpTo(text, n) = Len(text)
    BY <1>1 DEF HandedOn, n
  <2> QED
    BY <1>14, <2>1
<1>13. PrintShows(text, color, w[n])
  BY <1>3, <1>10, <1>12 DEF PrintedTo, PrintShows
<1> QED
  BY <1>2, <1>11, <1>13 DEF text

\* A sequence in three parts.
InParts(m, a, d, c) ==
  /\ Len(m) = Len(a) + Len(d) + Len(c)
  /\ SubSeq(m, 1, Len(a)) = a
  /\ SubSeq(m, Len(a) + 1, Len(a) + Len(d)) = d
  /\ SubSeq(m, Len(a) + Len(d) + 1, Len(m)) = c

LEMMA PartsFacts ==
  ASSUME NEW T, NEW a, NEW d, NEW c, a \in Seq(T), d \in Seq(T), c \in Seq(T)
  PROVE  InParts(a \o (d \o c), a, d, c)
<1> DEFINE u == d \o c
           m == a \o u
<1>1. Concats(T, d, c)
  BY ConcatIs
<1>2. u \in Seq(T) /\ Len(u) = Len(d) + Len(c)
      /\ \A i \in 1 .. Len(d) + Len(c) : u[i] = IF i <= Len(d) THEN d[i] ELSE c[i - Len(d)]
  BY <1>1 DEF Concats
<1> HIDE DEF u
<1>3. Concats(T, a, u)
  BY <1>2, ConcatIs
<1>4. m \in Seq(T) /\ Len(m) = Len(a) + Len(u)
      /\ \A i \in 1 .. Len(a) + Len(u) : m[i] = IF i <= Len(a) THEN a[i] ELSE u[i - Len(a)]
  BY <1>3 DEF Concats
<1>5. Len(a) \in Nat /\ Len(d) \in Nat /\ Len(c) \in Nat
  OBVIOUS
<1> HIDE DEF m
<1> DEFINE la == Len(a)
           ld == Len(d)
           lc == Len(c)
<1>6. Len(m) = la + ld + lc /\ la \in Nat /\ ld \in Nat /\ lc \in Nat
  BY <1>2, <1>4, <1>5
<1>7. \A i \in 1 .. Len(m) : m[i] \in T
  BY <1>4
<1>8. ASSUME NEW i \in 1 .. la + ld + lc
      PROVE  m[i] = IF i <= la THEN a[i] ELSE IF i - la <= ld THEN d[i - la] ELSE c[i - la - ld]
  <2>1. m[i] = IF i <= la THEN a[i] ELSE u[i - la]
    BY <1>2, <1>4, <1>5
  <2>2. CASE i <= la
    BY <2>1, <2>2
  <2>3. CASE ~ (i <= la)
    <3>1. i - la \in 1 .. ld + lc
      BY <1>6, <2>3
    <3>2. u[i - la] = IF i - la <= ld THEN d[i - la] ELSE c[i - la - ld]
      BY <1>2, <3>1
    <3> QED
      BY <2>1, <2>3, <3>2
  <2> QED
    BY <2>2, <2>3
<1> HIDE DEF la, ld, lc
<1>9. SubSeq(m, 1, la) = a
  <2> DEFINE s == SubSeq(m, 1, la)
  <2>1. \A i \in 1 .. la : m[i] \in T
    BY <1>6, <1>7
  <2>2. s \in Seq(T) /\ Len(s) = la /\ \A i \in 1 .. la : s[i] = m[i]
    BY <1>6, <2>1, SubSeqProperties
  <2> HIDE DEF s
  <2>3. \A i \in 1 .. Len(s) : s[i] = a[i]
    BY <1>6, <1>8, <2>2
  <2>4. s = a
    BY <2>2, <2>3, SeqEqual DEF la
  <2> QED
    BY <2>4 DEF s
<1>10. SubSeq(m, la + 1, la + ld) = d
  <2> DEFINE y == la + ld
             s == SubSeq(m, la + 1, y)
  <2>1. \A i \in la + 1 .. y : m[i] \in T
    BY <1>6, <1>7
  <2>2. la + 1 \in Int /\ y \in Int /\ y = la + ld
    BY <1>6
  <2> HIDE DEF y
  <2>3. s \in Seq(T) /\ Len(s) = (IF la + 1 <= y THEN y - (la + 1) + 1 ELSE 0)
        /\ \A i \in 1 .. y - (la + 1) + 1 : s[i] = m[la + 1 + i - 1]
    BY <2>1, <2>2, SubSeqProperties
  <2> HIDE DEF s
  <2>4. Len(s) = ld /\ \A i \in 1 .. ld : s[i] = m[la + i]
    <3>1. Len(s) = ld
      BY <1>6, <2>2, <2>3
    <3>2. ASSUME NEW i \in 1 .. ld PROVE s[i] = m[la + i]
      <4>1. i \in 1 .. y - (la + 1) + 1 /\ la + 1 + i - 1 = la + i
        BY <1>6, <2>2
      <4>2. s[i] = m[la + 1 + i - 1]
        BY <2>3, <4>1
      <4> QED
        BY <4>1, <4>2
    <3> QED
      BY <3>1, <3>2
  <2>5. ASSUME NEW i \in 1 .. Len(s) PROVE s[i] = d[i]
    <3>1. i \in 1 .. ld /\ la + i \in 1 .. la + ld + lc /\ ~ (la + i <= la) /\ (la + i) - la = i /\ i <= ld
      BY <1>6, <2>4
    <3>2. s[i] = m[la + i]
      BY <2>4, <3>1
    <3>3. m[la + i] = d[(la + i) - la]
      BY <1>8, <3>1
    <3> QED
      BY <3>1, <3>2, <3>3
  <2>6. Len(s) = Len(d) /\ d \in Seq(T)
    BY <2>4 DEF ld
  <2>7. s = d
    BY <2>3, <2>5, <2>6, SeqEqual
  <2> QED
    BY <2>2, <2>7 DEF s
<1>11. SubSeq(m, la + ld + 1, Len(m)) = c
  <2> DEFINE x == la + ld
             y == x + lc
             s == SubSeq(m, x + 1, y)
  <2>1. \A i \in x + 1 .. y : m[i] \in T
    BY <1>6, <1>7
  <2>2. x + 1 \in Int /\ y \in Int /\ x \in Nat /\ y = x + lc /\ Len(m) = y
    BY <1>6
  <2> HIDE DEF y
  <2>3. s \in Seq(T) /\ Len(s) = (IF x + 1 <= y THEN y - (x + 1) + 1 ELSE 0)
        /\ \A i \in 1 .. y - (x + 1) + 1 : s[i] = m[x + 1 + i - 1]
    BY <2>1, <2>2, SubSeqProperties
  <2> HIDE DEF s
  <2>4. Len(s) = lc /\ \A i \in 1 .. lc : s[i] = m[x + i]
    <3> HIDE DEF x
    <3> QED
      BY <1>6, <2>2, <2>3
  <2>5. ASSUME NEW i \in 1 .. Len(s) PROVE s[i] = c[i]
    <3>1. i \in 1 .. lc /\ x + i \in 1 .. la + ld + lc /\ ~ (x + i <= la) /\ ~ ((x + i) - la <= ld)
          /\ (x + i) - la - ld = i
      BY <1>6, <2>4
    <3>2. s[i] = m[x + i]
      BY <2>4, <3>1
    <3>3. m[x + i] = c[(x + i) - la - ld]
      BY <1>8, <3>1
    <3> QED
      BY <3>1, <3>2, <3>3
  <2>6. Len(s) = Len(c) /\ c \in Seq(T) /\ s \in Seq(T)
    BY <2>3, <2>4 DEF lc
  <2>7. s = c
    BY <2>5, <2>6, SeqEqual
  <2> QED
    BY <2>2, <2>7 DEF s
<1>12. InParts(m, a, d, c)
  BY <1>6, <1>9, <1>10, <1>11 DEF InParts, la, ld, lc
<1> QED
  BY <1>12 DEF m, u

LEMMA DigitsAreCharacters == DigitChars \subseteq Character
<1> SUFFICES ASSUME NEW d \in 0 .. 15 PROVE Digit(d) \in Character
  BY DEF DigitChars
<1>1. d + 1 \in DOMAIN Digits
  BY DEF Digits
<1>2. Digit(d) \in Range(Digits)
  BY <1>1 DEF Digit, Range
<1> QED
  BY <1>2, TerminalAssumption

\* The three messages that print a number of an entry of the memory map.
LEMMA NumberShown ==
  ASSUME NEW name \in {"at", "length", "type"}, NEW directive, Takes(name) = <<directive>>,
         NEW x, NEW base \in 2 .. 16, NEW n, Written10(Convert(directive, x), base, n)
  PROVE  Shows(Printf(Call(WHITE, name, <<x>>)), name, base, n)
<1> DEFINE fmt == Text[name]
           printed == Printf(Call(WHITE, name, <<x>>))
           d == Convert(directive, x)
           before == CHOOSE i \in DOMAIN fmt : fmt[i] = "%"
           chars == Chars(printed)
<1>1. /\ fmt \in Seq(Character) /\ \A i \in Taken(fmt) : fmt[i + 1] = directive
      /\ \E i \in Taken(fmt) : \A k \in DOMAIN fmt \ {i} : fmt[k] # "%"
  <2>1. name \in Messages
    BY DEF Messages
  <2>2. Range(Takes(name)) = {directive}
    BY DEF Range
  <2>3. fmt \in Seq(Character) /\ \A i \in Taken(fmt) : fmt[i + 1] \in Range(Takes(name))
    BY <2>1, TextAssumption
  <2>4. \E i \in Taken(fmt) : \A k \in DOMAIN fmt \ {i} : fmt[k] # "%"
    BY TextAssumption
  <2> QED
    BY <2>2, <2>3, <2>4
<1>2. d \in Seq(Character) /\ Len(d) \in Nat /\ Len(d) > 0 /\ Denotes(d, base, n)
  <2>1. d \in Seq(DigitChars) /\ Len(d) > 0
    BY DEF Written10
  <2>2. Denotes(d, base, n)
    BY DenotesNumber
  <2>3. d \in Seq(Character)
    <3> HIDE DEF d
    <3> QED
      BY <2>1, DigitsAreCharacters
  <2> QED
    BY <2>1, <2>2, <2>3
<1> HIDE DEF fmt
<1>3. PICK i \in Taken(fmt) : \A k \in DOMAIN fmt \ {i} : fmt[k] # "%"
  BY <1>1
<1>4. i \in 1 .. Len(fmt) - 1 /\ fmt[i] = "%" /\ fmt[i + 1] = directive /\ Len(fmt) \in Nat
      /\ DOMAIN fmt = 1 .. Len(fmt)
  BY <1>1, <1>3 DEF Taken
<1>5. before = i
  BY <1>3, <1>4
<1> HIDE DEF before, d
<1> DEFINE a == SubSeq(fmt, 1, i - 1)
           c == SubSeq(fmt, i + 2, Len(fmt))
<1>6. a \in Seq(Character) /\ Len(a) = i - 1
  <2>1. \A k \in 1 .. i - 1 : fmt[k] \in Character
    BY <1>1, <1>4
  <2>2. i - 1 \in Int /\ 1 \in Int /\ i - 1 >= 0
    BY <1>4
  <2> QED
    BY <1>4, <2>1, <2>2, SubSeqProperties
<1>7. c \in Seq(Character) /\ Len(c) = Len(fmt) - i - 1
  <2>1. \A k \in i + 2 .. Len(fmt) : fmt[k] \in Character
    BY <1>1, <1>4
  <2>2. i + 2 \in Int /\ Len(fmt) \in Int
    BY <1>4
  <2>3. c \in Seq(Character) /\ Len(c) = IF i + 2 <= Len(fmt) THEN Len(fmt) - (i + 2) + 1 ELSE 0
    BY <2>1, <2>2, SubSeqProperties
  <2> HIDE DEF c
  <2> DEFINE len == Len(fmt)
  <2>4. len \in Int /\ i \in Int /\ i + 1 <= len
    BY <1>4
  <2>5. Len(c) = IF i + 2 <= len THEN len - (i + 2) + 1 ELSE 0
    BY <2>3
  <2> HIDE DEF len
  <2>6. Len(c) = len - i - 1
    BY <2>4, <2>5
  <2> QED
    BY <2>3, <2>6 DEF len
<1>8. VPrintFmt(fmt, <<x>>) = a \o (d \o c)
  <2>1. Convert(fmt[i + 1], x) \in Seq(Character)
    BY <1>2, <1>4 DEF d
  <2>2. VPrintFmt(fmt, <<x>>)
           = SubSeq(fmt, 1, i - 1) \o (Convert(fmt[i + 1], x) \o SubSeq(fmt, i + 2, Len(fmt)))
    BY <1>1, <1>3, <2>1, FmtOne
  <2> QED
    BY <2>2, <1>4 DEF d
<1> HIDE DEF a, c
<1>9. InParts(a \o (d \o c), a, d, c)
  BY <1>2, <1>6, <1>7, PartsFacts
<1>10. chars = a \o (d \o c)
  <2>1. VPrintFmt(fmt, <<x>>) \in Seq(Character)
    <3> DEFINE u == d \o c
    <3>1. u \in Seq(Character)
      BY <1>2, <1>7
    <3> HIDE DEF u
    <3>2. a \o u \in Seq(Character)
      BY <1>6, <3>1
    <3> QED
      BY <1>8, <3>2 DEF u
  <2>2. WHITE \in Color
    BY DEF WHITE, Color
  <2>3. printed = PrintfColor(WHITE, fmt, <<x>>)
    BY DEF Printf, Call, fmt
  <2>4. PrintShows(VPrintFmt(fmt, <<x>>), WHITE, PrintfColor(WHITE, fmt, <<x>>))
    BY <2>1, <2>2, PrintfFacts
  <2>5. Chars(PrintfColor(WHITE, fmt, <<x>>)) = VPrintFmt(fmt, <<x>>)
    BY <2>4 DEF PrintShows
  <2> QED
    BY <2>3, <2>5, <1>8
<1> DEFINE m == a \o (d \o c)
           digits == Len(chars) - (Len(fmt) - 2)
<1>11. Shows(printed, name, base, n) <=>
         /\ digits > 0
         /\ SubSeq(chars, 1, before - 1) = SubSeq(fmt, 1, before - 1)
         /\ Denotes(SubSeq(chars, before, before + digits - 1), base, n)
         /\ SubSeq(chars, before + digits, Len(chars)) = SubSeq(fmt, before + 2, Len(fmt))
  BY DEF Shows, fmt, before
<1> HIDE DEF printed, chars, m
<1>12. chars = m /\ Len(m) = Len(a) + Len(d) + Len(c)
       /\ SubSeq(m, 1, Len(a)) = a /\ SubSeq(m, Len(a) + 1, Len(a) + Len(d)) = d
       /\ SubSeq(m, Len(a) + Len(d) + 1, Len(m)) = c
  BY <1>9, <1>10 DEF InParts, m
<1>13. digits = Len(d)
  BY <1>2, <1>4, <1>6, <1>7, <1>12
<1> HIDE DEF digits
<1>14. before - 1 = Len(a) /\ before = Len(a) + 1 /\ before + digits - 1 = Len(a) + Len(d)
       /\ before + digits = Len(a) + Len(d) + 1
  <2>1. Len(a) \in Int /\ i \in Int /\ Len(d) \in Int
    BY <1>2, <1>4, <1>6
  <2> QED
    BY <2>1, <1>5, <1>6, <1>13
<1>15. SubSeq(chars, 1, before - 1) = SubSeq(fmt, 1, before - 1)
  BY <1>5, <1>12, <1>14 DEF a
<1>16. SubSeq(chars, before, before + digits - 1) = d
  BY <1>12, <1>14
<1>17. SubSeq(chars, before + digits, Len(chars)) = SubSeq(fmt, before + 2, Len(fmt))
  <2>1. SubSeq(m, before + digits, Len(m)) = c
    BY <1>12, <1>14
  <2> QED
    BY <2>1, <1>5, <1>12 DEF c
<1> QED
  BY <1>2, <1>11, <1>13, <1>15, <1>16, <1>17 DEF printed

\* An entry of the memory map is printed as MapPrinted asks.
EntryShown(e) ==
  /\ Shows(PrintEntry(e)[1], "at", 16, e.baseAddr)
  /\ Shows(PrintEntry(e)[2], "length", 16, e.length % WORD)
  /\ Shows(PrintEntry(e)[3], "type", 10, e.type)

LEMMA EntryFacts == ASSUME NEW e \in SMAP PROVE EntryShown(e)
<1>1. WORD \in Nat /\ WORD > 16 /\ WORD < DWORD /\ DWORD \in Nat /\ Number = 0 .. DWORD - 1
  BY WordFacts
<1>2. e.baseAddr \in Number /\ e.length \in Number /\ e.type \in 0 .. WORD - 1
  BY DEF SMAP
<1>3. 16 \in 2 .. 16 /\ 10 \in 2 .. 16
  OBVIOUS
<1>4. Shows(PrintEntry(e)[1], "at", 16, e.baseAddr)
  <2>1. Convert("l", e.baseAddr) = PrintNum(e.baseAddr, 16)
    BY <1>2, SameNumber DEF Convert
  <2>2. Written10(Convert("l", e.baseAddr), 16, e.baseAddr)
    BY <1>2, <1>3, <2>1, PrintNumIs
  <2>3. Takes("at") = <<"l">>
    BY DEF Takes
  <2>4. Shows(Printf(Call(WHITE, "at", <<e.baseAddr>>)), "at", 16, e.baseAddr)
    BY <1>3, <2>2, <2>3, NumberShown
  <2> QED
    BY <2>4 DEF PrintEntry
<1>5. Shows(PrintEntry(e)[2], "length", 16, e.length % WORD)
  <2> DEFINE n == e.length % WORD
  <2>1. n \in Number
    <3>1. e.length \in Nat
      BY <1>1, <1>2
    <3>2. WORD > 0
      BY <1>1
    <3>3. n \in Nat /\ n < WORD
      BY <1>1, <3>1, <3>2, DivMod
    <3> HIDE DEF n
    <3> QED
      BY <1>1, <3>3
  <2>2. Convert("x", e.length) = PrintNum(n, 16)
    BY DEF Convert, uint32
  <2> HIDE DEF n
  <2>3. Written10(Convert("x", e.length), 16, n)
    BY <1>3, <2>1, <2>2, PrintNumIs
  <2>4. Takes("length") = <<"x">>
    BY DEF Takes
  <2>5. Shows(Printf(Call(WHITE, "length", <<e.length>>)), "length", 16, n)
    BY <1>3, <2>3, <2>4, NumberShown
  <2> QED
    BY <2>5 DEF PrintEntry, n
<1>6. Shows(PrintEntry(e)[3], "type", 10, e.type)
  <2>1. uint32(e.type) = e.type /\ e.type \in Number
    BY <1>1, <1>2 DEF uint32
  <2>2. Convert("u", e.type) = PrintNum(e.type, 10)
    BY <2>1 DEF Convert
  <2>3. Written10(Convert("u", e.type), 10, e.type)
    BY <1>3, <2>1, <2>2, PrintNumIs
  <2>4. Takes("type") = <<"u">>
    BY DEF Takes
  <2>5. Shows(Printf(Call(WHITE, "type", <<e.type>>)), "type", 10, e.type)
    BY <1>3, <2>3, <2>4, NumberShown
  <2> QED
    BY <2>5 DEF PrintEntry
<1> QED
  BY <1>4, <1>5, <1>6 DEF EntryShown
LEMMA MapShown == smap \in Maps => MapPrinted
<1> SUFFICES ASSUME smap \in Maps PROVE \A i \in DOMAIN smap : EntryShown(smap[i])
  BY DEF MapPrinted, EntryShown
<1>1. smap \in Seq(SMAP)
  BY MemMapAssumption
<1>2. \A i \in DOMAIN smap : smap[i] \in SMAP
  BY <1>1
<1> QED
  BY <1>2, EntryFacts
-----------------------------------------------------------------------------
(***************************************************************************)
(* The calls of Printf of the monitor and its commands.                    *)
(***************************************************************************)
PrintfCalls == {c \in [color : Color, name : Messages, args : Seq(Character \cup Seq(Character) \cup Nat)] :
            VPrintFmt(Text[c.name], c.args) \in Seq(Character)}

LEMMA ConvertType ==
  /\ \A c \in Character : Convert("c", c) \in Seq(Character)
  /\ \A s \in Seq(Character) : Convert("s", s) \in Seq(Character)
  /\ Convert("d", MAX_ARGS) \in Seq(Character)
<1>1. ASSUME NEW c \in Character PROVE Convert("c", c) \in Seq(Character)
  BY DEF Convert
<1>2. ASSUME NEW s \in Seq(Character) PROVE Convert("s", s) \in Seq(Character)
  BY DEF Convert
<1>3. Convert("d", MAX_ARGS) \in Seq(Character)
  <2>1. MAX_ARGS \in Nat /\ MAX_ARGS < WORD
    BY LineBufferAssumption, TextAssumption
  <2>2. ~ (MAX_ARGS < 0) /\ MAX_ARGS \in Number /\ 10 \in 2 .. 16
    BY <2>1, WordFacts
  <2>3. Convert("d", MAX_ARGS) = PrintNum(MAX_ARGS, 10)
    BY <2>2 DEF Convert
  <2>4. PrintNum(MAX_ARGS, 10) \in Seq(DigitChars)
    BY <2>2, PrintNumIs DEF Written10
  <2> HIDE DEF DigitChars
  <2>5. PrintNum(MAX_ARGS, 10) \in Seq(Character)
    BY <2>4, DigitsAreCharacters
  <2> QED
    BY <2>3, <2>5
<1> QED
  BY <1>1, <1>2, <1>3

LEMMA CallType ==
  ASSUME NEW color \in Color, NEW name \in Messages, NEW n \in Nat, Len(Takes(name)) = n,
         NEW args \in Seq(Character \cup Seq(Character) \cup Nat),
         \A d \in Range(Takes(name)), j \in 1 .. n : Convert(d, args[j]) \in Seq(Character)
  PROVE  Call(color, name, args) \in PrintfCalls
<1>1. /\ Text[name] \in Seq(Character)
      /\ \A i \in Taken(Text[name]) : Text[name][i + 1] \in Range(Takes(name))
      /\ Cardinality(Taken(Text[name])) <= Len(Takes(name))
  BY TextAssumption
<1>2. Fits(Text[name], args, n)
  BY <1>1 DEF Fits
<1>3. VPrintFmt(Text[name], args) \in Seq(Character)
  BY <1>1, <1>2, FmtType
<1> DEFINE c == Call(color, name, args)
<1>4. c \in [color : Color, name : Messages, args : Seq(Character \cup Seq(Character) \cup Nat)]
      /\ c.name = name /\ c.args = args
  BY DEF Call
<1> HIDE DEF c
<1>5. c \in PrintfCalls
  BY <1>3, <1>4 DEF PrintfCalls
<1> QED
  BY <1>5 DEF c

PlainMessages == {"prompt", "banner", "usage", "invalid", "available", "newline"}

LEMMA MessageCalls ==
  ASSUME NEW color \in Color
  PROVE  /\ \A name \in PlainMessages : Call(color, name, <<>>) \in PrintfCalls
         /\ \A c \in Character : Call(color, "char", <<c>>) \in PrintfCalls
         /\ \A s \in Seq(Character) : Call(color, "color", <<s>>) \in PrintfCalls
                                      /\ Call(color, "unknown", <<s>>) \in PrintfCalls
         /\ \A s \in Seq(Character), t \in Seq(Character) : Call(color, "command", <<s, t>>) \in PrintfCalls
         /\ Call(color, "toomany", <<MAX_ARGS>>) \in PrintfCalls
<1> DEFINE A == Character \cup Seq(Character) \cup Nat
<1>1. ASSUME NEW name \in PlainMessages PROVE Call(color, name, <<>>) \in PrintfCalls
  <2>1. name \in Messages /\ Takes(name) = <<>>
    BY DEF PlainMessages, Messages, Takes
  <2>2. Len(Takes(name)) = 0 /\ 0 \in Nat /\ <<>> \in Seq(A) /\ 1 .. 0 = {}
    BY <2>1
  <2> HIDE DEF A
  <2>3. \A d \in Range(Takes(name)), j \in 1 .. 0 : Convert(d, <<>>[j]) \in Seq(Character)
    BY <2>2
  <2> QED
    BY <2>1, <2>2, <2>3, CallType DEF A
<1>2. ASSUME NEW name \in Messages, NEW d, Takes(name) = <<d>>, NEW x \in A,
             Convert(d, x) \in Seq(Character)
      PROVE  Call(color, name, <<x>>) \in PrintfCalls
  <2>1. Len(Takes(name)) = 1 /\ 1 \in Nat /\ <<x>> \in Seq(A)
    BY <1>2
  <2>2. Range(Takes(name)) = {d}
    BY <1>2 DEF Range
  <2>3. \A e \in Range(Takes(name)), j \in 1 .. 1 : Convert(e, <<x>>[j]) \in Seq(Character)
    BY <1>2, <2>2
  <2> QED
    BY <2>1, <2>3, CallType
<1>3. ASSUME NEW c \in Character PROVE Call(color, "char", <<c>>) \in PrintfCalls
  <2>1. "char" \in Messages /\ Takes("char") = <<"c">> /\ c \in A
    BY DEF Messages, Takes
  <2> HIDE DEF A
  <2> QED
    BY <1>2, <2>1, ConvertType
<1>4. ASSUME NEW s \in Seq(Character)
      PROVE  Call(color, "color", <<s>>) \in PrintfCalls /\ Call(color, "unknown", <<s>>) \in PrintfCalls
  <2>1. "color" \in Messages /\ Takes("color") = <<"s">> /\ s \in A
        /\ "unknown" \in Messages /\ Takes("unknown") = <<"s">>
    BY DEF Messages, Takes
  <2> HIDE DEF A
  <2> QED
    BY <1>2, <2>1, ConvertType
<1>5. Call(color, "toomany", <<MAX_ARGS>>) \in PrintfCalls
  <2>1. "toomany" \in Messages /\ Takes("toomany") = <<"d">> /\ MAX_ARGS \in A
    BY LineBufferAssumption DEF Messages, Takes
  <2> HIDE DEF A
  <2> QED
    BY <1>2, <2>1, ConvertType
<1>6. ASSUME NEW s \in Seq(Character), NEW t \in Seq(Character)
      PROVE  Call(color, "command", <<s, t>>) \in PrintfCalls
  <2>1. "command" \in Messages /\ Takes("command") = <<"s", "s">>
    BY DEF Messages, Takes
  <2>2. Len(Takes("command")) = 2 /\ 2 \in Nat /\ s \in A /\ t \in A
    BY <2>1
  <2>3. <<s, t>> \in Seq(A)
    <3> HIDE DEF A
    <3> QED
      BY <2>2
  <2>4. Range(Takes("command")) = {"s"}
    BY <2>1 DEF Range
  <2>5. \A e \in Range(Takes("command")), j \in 1 .. 2 : Convert(e, <<s, t>>[j]) \in Seq(Character)
    BY <2>4, ConvertType
  <2> HIDE DEF A
  <2> QED
    BY <2>1, <2>2, <2>3, <2>5, CallType DEF A
<1> QED
  BY <1>1, <1>3, <1>4, <1>5, <1>6

\* What a call prints ends with a flush, and so does what calls print in a row.
Printing(p) == p \in Seq(Pending) /\ Len(p) > 0 /\ p[Len(p)] = FLUSH

LEMMA PrintingCall == ASSUME NEW c \in PrintfCalls PROVE Printing(Printf(c))
<1>1. c.color \in Color /\ VPrintFmt(Text[c.name], c.args) \in Seq(Character)
  BY DEF PrintfCalls
<1>2. PrintShows(VPrintFmt(Text[c.name], c.args), c.color, PrintfColor(c.color, Text[c.name], c.args))
  BY <1>1, PrintfFacts
<1> QED
  BY <1>2 DEF PrintShows, Printing, Printf

LEMMA PrintingAll ==
  ASSUME NEW calls \in Seq(PrintfCalls), Len(calls) > 0
  PROVE  Printing(PrintfAll(calls))
<1> DEFINE n == Len(calls)
           ss == [k \in DOMAIN calls |-> Printf(calls[k])]
<1>1. n \in Nat /\ n > 0 /\ DOMAIN calls = 1 .. n /\ \A k \in 1 .. n : calls[k] \in PrintfCalls
  OBVIOUS
<1>2. \A k \in 1 .. n : Printing(Printf(calls[k]))
  BY <1>1, PrintingCall
<1>3. ss \in Seq(Seq(Pending)) /\ Len(ss) = n /\ \A k \in 1 .. n : Printing(ss[k])
  <2>1. \A k \in 1 .. n : ss[k] = Printf(calls[k])
    BY <1>1
  <2>2. \A k \in 1 .. n : Printf(calls[k]) \in Seq(Pending)
    BY <1>2 DEF Printing
  <2>3. ss = [k \in 1 .. n |-> Printf(calls[k])]
    BY <1>1
  <2> HIDE DEF n
  <2>4. ss \in Seq(Seq(Pending)) /\ Len(ss) = n
    BY <1>1, <2>2, <2>3
  <2> QED
    BY <1>2, <2>1, <2>4
<1> HIDE DEF ss, n
<1>4. PICK w : FlatRun(ss, w)
  BY <1>3, FlatUnfolds
<1>5. \A k \in 0 .. Len(ss) : w[k] \in Seq(Pending)
  BY <1>3, <1>4, FlatType
<1>6. w[n] = w[n - 1] \o ss[n] /\ FlattenSeq(ss) = w[n]
  <2>1. n \in 1 .. Len(ss) /\ Len(ss) = n
    BY <1>1, <1>3
  <2>2. \A k \in 1 .. Len(ss) : w[k] = w[k - 1] \o ss[k]
    BY <1>4 DEF FlatRun
  <2>3. FlattenSeq(ss) = w[Len(ss)]
    BY <1>4 DEF FlatRun
  <2> QED
    BY <2>1, <2>2, <2>3
<1>7. w[n - 1] \in Seq(Pending) /\ Printing(ss[n])
  BY <1>1, <1>3, <1>5
<1> DEFINE p == w[n - 1]
           q == ss[n]
           r == w[n]
<1> HIDE DEF p, q, r
<1>8. r = p \o q /\ p \in Seq(Pending) /\ Printing(q)
  BY <1>6, <1>7 DEF p, q, r
<1>9. Concats(Pending, p, q)
  BY <1>8, ConcatIs DEF Printing
<1>10. Len(p) \in Nat /\ Len(q) \in Nat /\ Len(q) > 0 /\ q[Len(q)] = FLUSH
  BY <1>8 DEF Printing
<1>11. r \in Seq(Pending) /\ Len(r) = Len(p) + Len(q)
       /\ \A i \in 1 .. Len(p) + Len(q) : r[i] = IF i <= Len(p) THEN p[i] ELSE q[i - Len(p)]
  BY <1>8, <1>9 DEF Concats
<1>12. r[Len(r)] = FLUSH /\ Len(r) > 0
  <2>1. Len(r) \in 1 .. Len(p) + Len(q) /\ ~ (Len(r) <= Len(p)) /\ Len(r) - Len(p) = Len(q) /\ Len(r) > 0
    BY <1>10, <1>11
  <2>2. r[Len(r)] = q[Len(r) - Len(p)]
    BY <1>11, <2>1
  <2> QED
    BY <1>10, <2>1, <2>2
<1>13. Printing(r)
  BY <1>11, <1>12 DEF Printing
<1> QED
  BY <1>6, <1>13 DEF PrintfAll, r, ss

LEMMA LeastFacts ==
  ASSUME NEW S \in SUBSET Nat, S # {}
  PROVE  \E m \in S : \A x \in S : m <= x
<1> DEFINE G == {k \in Nat : (\E x \in S : x <= k) => \E m \in S : \A x \in S : m <= x}
<1>1. 0 \in G
  <2> SUFFICES ASSUME NEW m \in S, m <= 0 PROVE \A x \in S : m <= x
    BY Zenon
  <2> QED
    OBVIOUS
<1>2. ASSUME NEW k \in Nat, k \in G PROVE k + 1 \in G
  <2>1. ASSUME NEW m \in S, m <= k + 1 PROVE \E l \in S : \A x \in S : l <= x
    <3>1. CASE \E x \in S : x <= k
      BY <1>2, <3>1
    <3>2. CASE ~ \E x \in S : x <= k
      <4>1. \A x \in S : m <= x
        BY <2>1, <3>2
      <4> QED
        BY <4>1
    <3> QED
      BY <3>1, <3>2
  <2> QED
    BY <2>1
<1>3. PICK y \in S : TRUE
  OBVIOUS
<1>4. y \in G
  <2>1. y \in Nat
    OBVIOUS
  <2> HIDE DEF G
  <2> QED
    BY <2>1, <1>1, <1>2, NatSetInduction
<1> QED
  BY <1>3, <1>4

LEMMA MinIs ==
  ASSUME NEW S \in SUBSET Nat, S # {}
  PROVE  Min(S) \in S /\ \A x \in S : Min(S) <= x
<1>1. \E m \in S : \A x \in S : m <= x
  BY LeastFacts
<1> QED
  BY <1>1 DEF Min

-----------------------------------------------------------------------------
(***************************************************************************)
(* The words of a line.                                                    *)
(***************************************************************************)
Texts == [Index -> Character \cup {NUL}]

LEMMA TextEndFacts ==
  ASSUME NEW buf \in Texts, NEW e \in Index, buf[e] = NUL
  PROVE  TextEnd(buf) \in Index /\ buf[TextEnd(buf)] = NUL
<1> DEFINE S == {i \in Index : buf[i] = NUL}
<1>1. S \in SUBSET Nat /\ S # {}
  BY LineBufferAssumption DEF Index
<1>2. PICK m \in S : \A x \in S : m <= x
  BY <1>1, LeastFacts
<1>3. m \in Index /\ buf[m] = NUL /\ \A j \in 0 .. m - 1 : buf[j] # NUL
  <2>1. m \in Index /\ m \in Nat /\ buf[m] = NUL
    BY <1>1, <1>2
  <2>2. ASSUME NEW j \in 0 .. m - 1, buf[j] = NUL PROVE FALSE
    <3>1. j \in Index /\ j < m
      BY <2>1, LineBufferAssumption DEF Index
    <3>2. m <= j
      BY <1>2, <2>2, <3>1
    <3> QED
      BY <2>1, <3>1, <3>2
  <2> QED
    BY <2>1, <2>2
<1> QED
  BY <1>3 DEF TextEnd

\* A string that is ended is a sequence of characters.
LEMMA StringFacts ==
  ASSUME NEW buf \in Texts, NEW i \in Index, NEW e \in Index, i <= e, buf[e] = NUL
  PROVE  StringAt(buf, i) \in Seq(Character)
<1> DEFINE S == {j \in i .. CONSOLE_BUFFER_SIZE - 1 : buf[j] = NUL}
           end == CHOOSE j \in i .. CONSOLE_BUFFER_SIZE - 1 :
                    buf[j] = NUL /\ \A k \in i .. j - 1 : buf[k] # NUL
<1>1. i \in Nat /\ e \in Nat /\ CONSOLE_BUFFER_SIZE \in Nat /\ e \in i .. CONSOLE_BUFFER_SIZE - 1
  BY LineBufferAssumption DEF Index
<1>2. S \in SUBSET Nat /\ e \in S
  BY <1>1
<1>3. PICK m \in S : \A x \in S : m <= x
  BY <1>2, LeastFacts
<1>4. m \in i .. CONSOLE_BUFFER_SIZE - 1 /\ buf[m] = NUL /\ \A k \in i .. m - 1 : buf[k] # NUL
  <2>1. m \in i .. CONSOLE_BUFFER_SIZE - 1 /\ buf[m] = NUL /\ m \in Nat
    BY <1>2, <1>3
  <2>2. ASSUME NEW k \in i .. m - 1, buf[k] = NUL PROVE FALSE
    <3>1. k \in i .. CONSOLE_BUFFER_SIZE - 1 /\ k < m /\ k \in Nat
      BY <1>1, <2>1
    <3>2. m <= k
      BY <1>3, <2>2, <3>1
    <3> QED
      BY <2>1, <3>1, <3>2
  <2> QED
    BY <2>1, <2>2
<1>5. end \in i .. CONSOLE_BUFFER_SIZE - 1 /\ buf[end] = NUL /\ \A k \in i .. end - 1 : buf[k] # NUL
  BY <1>4
<1>6. StringAt(buf, i) = [k \in 1 .. end - i |-> buf[i + k - 1]]
  BY DEF StringAt
<1> HIDE DEF end
<1>7. end - i \in Nat
  BY <1>1, <1>5
<1>8. ASSUME NEW k \in 1 .. end - i PROVE buf[i + k - 1] \in Character
  <2>1. i + k - 1 \in i .. end - 1 /\ i + k - 1 \in Index
    BY <1>1, <1>5 DEF Index
  <2>2. buf[i + k - 1] # NUL
    BY <1>5, <2>1
  <2> QED
    BY <2>1, <2>2 DEF Texts
<1> QED
  BY <1>6, <1>7, <1>8

LEMMA GobbleType ==
  ASSUME NEW buf \in Texts
  PROVE  Gobble(buf) \in Texts /\ \A i \in Index : buf[i] = NUL => Gobble(buf)[i] = NUL
<1> DEFINE reached(i) == Cardinality({s \in Starts(buf) : s <= i}) < MAX_ARGS
           x(i) == IF i < TextEnd(buf) /\ IsBlank(buf, i) /\ reached(i) THEN NUL ELSE buf[i]
<1>1. Gobble(buf) = [i \in Index |-> x(i)]
  BY DEF Gobble
<1>2. \A i \in Index : x(i) \in Character \cup {NUL} /\ (buf[i] = NUL => x(i) = NUL)
  BY DEF Texts
<1> HIDE DEF x
<1> QED
  BY <1>1, <1>2 DEF Texts

LEMMA FirstWord ==
  ASSUME NEW buf \in Texts, NEW e \in Index, buf[e] = NUL, Argv(buf) # <<>>
  PROVE  Argv(buf)[1] \in Seq(Character)
<1> DEFINE S == Starts(buf)
           split == Gobble(buf)
           nth(k) == CHOOSE s \in S : Cardinality({t \in S : t <= s}) = k
           t0 == TextEnd(buf)
           n == Cardinality(S)
<1>1. t0 \in Index /\ buf[t0] = NUL
  BY TextEndFacts
<1>2. t0 \in Nat /\ S \subseteq 0 .. t0 - 1 /\ S \in SUBSET Nat /\ \A s \in S : s \in Index /\ s <= t0
  <2>1. t0 \in Nat /\ t0 <= CONSOLE_BUFFER_SIZE - 1
    BY <1>1, LineBufferAssumption DEF Index
  <2>2. S \subseteq 0 .. t0 - 1
    BY DEF Starts
  <2> HIDE DEF S, t0
  <2> QED
    BY <2>1, <2>2, LineBufferAssumption DEF Index
<1>3. IsFiniteSet(S)
  <2>1. IsFiniteSet(0 .. t0 - 1)
    <3>1. 0 \in Int /\ t0 - 1 \in Int
      BY <1>2
    <3> QED
      BY <3>1, FS_Interval
  <2> QED
    BY <2>1, <1>2, FS_Subset
<1>4. Argv(buf) = [k \in 1 .. n |-> StringAt(split, nth(k))]
  <2>1. ~ TooMany(buf)
    BY DEF Argv
  <2> QED
    BY <2>1 DEF Argv
<1> HIDE DEF S, split, t0
<1>5. n \in Nat
  BY <1>3, FS_CardinalityType
<1>6. n # 0
  <2> SUFFICES ASSUME n = 0 PROVE FALSE
    OBVIOUS
  <2>1. 1 .. n = {}
    BY <1>5
  <2> DEFINE y(k) == StringAt(split, nth(k))
  <2>2. Argv(buf) = [k \in 1 .. n |-> y(k)]
    BY <1>4
  <2> HIDE DEF y, n
  <2>3. Argv(buf) = <<>>
    BY <2>1, <2>2
  <2> QED
    BY <2>3
<1>7. S # {}
  BY <1>3, <1>5, <1>6, FS_EmptySet
<1> DEFINE m == Min(S)
<1>8. m \in S /\ \A x \in S : m <= x
  <2>1. S \in SUBSET Nat
    BY <1>2
  <2> QED
    BY <2>1, <1>7, MinIs
<1> HIDE DEF m
<1>9. {t \in S : t <= m} = {m}
  <2>1. m \in Nat /\ m \in S
    BY <1>2, <1>8
  <2>2. ASSUME NEW t \in S, t <= m PROVE t = m
    <3>1. t \in Nat /\ m <= t
      BY <1>2, <1>8
    <3> QED
      BY <2>1, <2>2, <3>1
  <2>3. m <= m
    BY <2>1
  <2> QED
    BY <2>1, <2>2, <2>3
<1>10. Cardinality({t \in S : t <= m}) = 1
  BY <1>9, FS_Singleton
<1>11. nth(1) \in S
  BY <1>8, <1>10
<1>12. split \in Texts /\ split[t0] = NUL
  BY <1>1, GobbleType DEF split
<1> DEFINE s == nth(1)
<1>13. s \in Index /\ s <= t0
  BY <1>2, <1>11
<1> HIDE DEF nth, s
<1>14. StringAt(split, s) \in Seq(Character)
  BY <1>1, <1>12, <1>13, StringFacts
<1>15. Argv(buf)[1] = StringAt(split, nth(1))
  <2>1. 1 \in 1 .. n
    BY <1>5, <1>6
  <2> HIDE DEF n
  <2> QED
    BY <1>4, <2>1
<1> QED
  BY <1>14, <1>15 DEF s

\* What PhysicalMemoryInit prints of the memory map is the memory map, for every map,
\* width of the words and size of Printf's buffer: the digits of each number denote
\* it and no other, none is missing and none is too many.
THEOREM MapPrintedSafe == KernelSpec => []MapPrinted
<1>1. KernelInit => BootInv
  BY InitMap DEF KernelInit, BootInv
<1>2. BootInv => MapPrinted
  <2>1. phase = "boot" => (BootInv => MapPrinted)
    BY MapShown DEF BootInv, MapInv
  <2>2. phase # "boot" => MapPrinted
    BY DEF MapPrinted
  <2> QED
    BY <2>1, <2>2
<1> QED
  BY <1>1, <1>2, KernelBootInv, PTL DEF KernelSpec
-----------------------------------------------------------------------------
(***************************************************************************)
(* The commands: the color after a line, and what it prints.               *)
(***************************************************************************)
LineStates == [buf : Texts, index : Index]
Results == [color : Color, calls : Seq(PrintfCalls)]
Ran(r) == r.color \in Color /\ r.calls \in Seq(PrintfCalls)

LEMMA ResultIs ==
  ASSUME NEW color \in Color, NEW s, s \in Seq(PrintfCalls)
  PROVE  [color |-> color, calls |-> s] \in Results
BY DEF Results

LEMMA EndedFacts ==
  ASSUME NEW m \in LineStates
  PROVE  m.index \in Index /\ Ended(m) \in Texts /\ Ended(m)[m.index] = NUL
<1>1. m.buf \in Texts /\ m.index \in Index
  BY DEF LineStates
<1> QED
  BY <1>1 DEF Ended, Texts

LEMMA CommandFacts ==
  \A k \in DOMAIN Commands :
    /\ Commands[k].name \in Seq(Character) /\ Commands[k].desc \in Seq(Character)
    /\ Commands[k].func \in {"MonitorHelp", "MonitorTextColor", "MonitorUser"}
<1> SUFFICES ASSUME NEW k \in DOMAIN Commands
             PROVE  Commands[k] \in [name : Seq(Character), desc : Seq(Character),
                                     func : {"MonitorHelp", "MonitorTextColor", "MonitorUser"}]
  OBVIOUS
<1> DEFINE R == [name : Seq(Character), desc : Seq(Character),
                 func : {"MonitorHelp", "MonitorTextColor", "MonitorUser"}]
<1>1. Commands \in Seq(R)
  BY TextAssumption
<1> HIDE DEF R
<1>2. Commands[k] \in R
  BY <1>1
<1> QED
  BY <1>2 DEF R

LEMMA ColorNameFacts ==
  \A k \in DOMAIN ColorNames :
    ColorNames[k].name \in Seq(Character) /\ ColorNames[k].color \in Color
<1> SUFFICES ASSUME NEW k \in DOMAIN ColorNames
             PROVE  ColorNames[k] \in [name : Seq(Character), color : Color]
  OBVIOUS
<1> DEFINE R == [name : Seq(Character), color : Color]
<1>1. ColorNames \in Seq(R)
  BY TextAssumption
<1> HIDE DEF R
<1>2. ColorNames[k] \in R
  BY <1>1
<1> QED
  BY <1>2 DEF R

LEMMA HelpFacts == ASSUME NEW color \in Color PROVE MonitorHelp(color) \in Seq(PrintfCalls)
<1> DEFINE x(k) == Call(color, "command", <<Commands[k].name, Commands[k].desc>>)
           n == Len(Commands)
<1>1. n \in Nat /\ DOMAIN Commands = 1 .. n
  BY TextAssumption
<1>2. ASSUME NEW k \in 1 .. n PROVE x(k) \in PrintfCalls
  <2>1. Commands[k].name \in Seq(Character) /\ Commands[k].desc \in Seq(Character)
    BY <1>1, CommandFacts
  <2> QED
    BY <2>1, MessageCalls
<1>3. MonitorHelp(color) = [k \in 1 .. n |-> x(k)]
  BY <1>1 DEF MonitorHelp
<1> HIDE DEF x, n
<1> QED
  BY <1>1, <1>2, <1>3

LEMMA AvailableFacts == ASSUME NEW color \in Color PROVE AvailableColors(color) \in Seq(PrintfCalls)
<1> DEFINE name(k) == Call(ColorNames[k].color, "color", <<ColorNames[k].name>>)
           newline == Call(color, "newline", <<>>)
           first == Call(color, "available", <<>>)
           part(k) == IF k % 4 = 1 THEN <<newline, name(k)>> ELSE <<name(k)>>
           n == Len(ColorNames)
           ss == [k \in DOMAIN ColorNames |-> part(k)]
<1>1. n \in Nat /\ DOMAIN ColorNames = 1 .. n
  BY TextAssumption
<1>2. newline \in PrintfCalls /\ first \in PrintfCalls
  BY MessageCalls DEF PlainMessages
<1>3. ASSUME NEW k \in 1 .. n PROVE name(k) \in PrintfCalls
  <2>1. ColorNames[k].name \in Seq(Character) /\ ColorNames[k].color \in Color
    BY <1>1, ColorNameFacts
  <2> QED
    BY <2>1, MessageCalls
<1>4. AvailableColors(color) = <<first>> \o FlattenSeq(ss) \o <<newline>>
  BY DEF AvailableColors
<1> HIDE DEF name, newline, first
<1>5. ASSUME NEW k \in 1 .. n PROVE part(k) \in Seq(PrintfCalls)
  BY <1>2, <1>3, <1>5
<1> HIDE DEF part
<1>6. ss \in Seq(Seq(PrintfCalls))
  <2>1. ss = [k \in 1 .. n |-> part(k)]
    BY <1>1
  <2> HIDE DEF ss, n
  <2> QED
    BY <1>1, <1>5, <2>1
<1> HIDE DEF ss
<1>7. FlattenSeq(ss) \in Seq(PrintfCalls)
  <2>1. <<>> \in Seq(PrintfCalls)
    OBVIOUS
  <2> QED
    BY <1>6, <2>1, FlatAppend
<1>8. <<first>> \in Seq(PrintfCalls) /\ <<newline>> \in Seq(PrintfCalls)
  BY <1>2
<1> DEFINE mid == FlattenSeq(ss)
<1> HIDE DEF mid
<1>9. <<first>> \o mid \o <<newline>> \in Seq(PrintfCalls)
  BY <1>7, <1>8 DEF mid
<1> QED
  BY <1>4, <1>9 DEF mid

LEMMA TextColorFacts == ASSUME NEW color \in Color, NEW argv PROVE MonitorTextColor(color, argv) \in Results
<1> DEFINE named == {k \in DOMAIN ColorNames : ColorNames[k].name = argv[2]}
           refused(name) == [color |-> color,
                             calls |-> <<Call(color, name, <<>>)>> \o AvailableColors(color)]
<1>1. ASSUME NEW name \in PlainMessages PROVE refused(name) \in Results
  <2>1. <<Call(color, name, <<>>)>> \in Seq(PrintfCalls)
    <3>1. Call(color, name, <<>>) \in PrintfCalls
      BY MessageCalls
    <3> QED
      BY <3>1
  <2>2. AvailableColors(color) \in Seq(PrintfCalls)
    BY AvailableFacts
  <2>3. <<Call(color, name, <<>>)>> \o AvailableColors(color) \in Seq(PrintfCalls)
    BY <2>1, <2>2
  <2> QED
    BY <2>3 DEF Results
<1>2. CASE Len(argv) # 2
  <2>1. MonitorTextColor(color, argv) = refused("usage")
    BY <1>2 DEF MonitorTextColor
  <2> HIDE DEF refused
  <2> QED
    BY <1>1, <2>1 DEF PlainMessages
<1>3. CASE Len(argv) = 2 /\ named = {}
  <2>1. MonitorTextColor(color, argv) = refused("invalid")
    BY <1>3 DEF MonitorTextColor
  <2> HIDE DEF refused
  <2> QED
    BY <1>1, <2>1 DEF PlainMessages
<1>4. CASE Len(argv) = 2 /\ named # {}
  <2>1. MonitorTextColor(color, argv) = [color |-> ColorNames[Min(named)].color, calls |-> <<>>]
    BY <1>4 DEF MonitorTextColor
  <2>2. named \in SUBSET Nat /\ named \subseteq DOMAIN ColorNames
    <3>1. DOMAIN ColorNames \subseteq Nat
      BY TextAssumption
    <3> QED
      BY <3>1
  <2> HIDE DEF named
  <2>3. named \in SUBSET Nat
    BY <2>2
  <2>4. Min(named) \in named
    BY <2>3, <1>4, MinIs
  <2>5. ColorNames[Min(named)].color \in Color
    BY <2>2, <2>4, ColorNameFacts
  <2> DEFINE c == ColorNames[Min(named)].color
  <2> HIDE DEF c
  <2>6. [color |-> c, calls |-> <<>>] \in Results
    BY <2>5 DEF Results, c
  <2> QED
    BY <2>1, <2>6 DEF c
<1> QED
  BY <1>2, <1>3, <1>4

LEMMA RunFacts ==
  ASSUME NEW color \in Color, NEW m \in LineStates
  PROVE  Ran(RunCommand(color, Ended(m)))
<1> DEFINE buf == Ended(m)
           argv == Argv(buf)
           found == {k \in DOMAIN Commands : Commands[k].name = argv[1]}
           func == IF TooMany(buf) THEN "toomany"
                   ELSE IF argv = <<>> THEN "none"
                   ELSE IF found = {} THEN "unknown" ELSE Commands[Min(found)].func
           result == CASE func \in {"none", "MonitorUser"} -> [color |-> color, calls |-> <<>>]
                       [] func = "toomany" ->
                            [color |-> color, calls |-> <<Call(color, "toomany", <<MAX_ARGS>>)>>]
                       [] func = "unknown" ->
                            [color |-> color, calls |-> <<Call(color, "unknown", <<argv[1]>>)>>]
                       [] func = "MonitorHelp" -> [color |-> color, calls |-> MonitorHelp(color)]
                       [] func = "MonitorTextColor" -> MonitorTextColor(color, argv)
<1>1. RunCommand(color, buf) = [func |-> func, color |-> result.color, calls |-> result.calls]
  BY DEF RunCommand
<1>2. m.index \in Index /\ buf \in Texts /\ buf[m.index] = NUL
  BY EndedFacts
<1> HIDE DEF buf, argv
<1>3. func = "unknown" => argv[1] \in Seq(Character)
  <2> SUFFICES ASSUME func = "unknown" PROVE argv[1] \in Seq(Character)
    OBVIOUS
  <2>1. argv # <<>>
    <3> SUFFICES ASSUME argv = <<>> PROVE FALSE
      OBVIOUS
    <3> QED
      OBVIOUS
  <2>2. Argv(buf) # <<>>
    BY <2>1 DEF argv
  <2>3. Argv(buf)[1] \in Seq(Character)
    BY <1>2, <2>2, FirstWord
  <2> QED
    BY <2>3 DEF argv
<1>4. func \in {"toomany", "none", "unknown", "MonitorHelp", "MonitorTextColor", "MonitorUser"}
  <2>1. CASE TooMany(buf) \/ argv = <<>> \/ found = {}
    BY <2>1
  <2>2. CASE ~ (TooMany(buf) \/ argv = <<>> \/ found = {})
    <3>1. DOMAIN Commands \subseteq Nat
      BY TextAssumption
    <3>2. found \in SUBSET Nat /\ found # {} /\ found \subseteq DOMAIN Commands
      BY <2>2, <3>1
    <3>3. func = Commands[Min(found)].func
      BY <2>2
    <3> HIDE DEF found, func
    <3>4. found \in SUBSET Nat
      BY <3>2
    <3>5. Min(found) \in found
      BY <3>2, <3>4, MinIs
    <3>6. Min(found) \in DOMAIN Commands
      BY <3>2, <3>5
    <3>7. Commands[Min(found)].func \in {"MonitorHelp", "MonitorTextColor", "MonitorUser"}
      BY <3>6, CommandFacts
    <3> QED
      BY <3>3, <3>7
  <2> QED
    BY <2>1, <2>2
<1> HIDE DEF func
<1>5. result \in Results
  <2>1. CASE func \in {"none", "MonitorUser"}
    <3>1. result = [color |-> color, calls |-> <<>>]
      BY <2>1
    <3>2. <<>> \in Seq(PrintfCalls)
      OBVIOUS
    <3>3. [color |-> color, calls |-> <<>>] \in Results
      BY <3>2, ResultIs
    <3> QED
      BY <3>1, <3>3
  <2>2. CASE func = "toomany"
    <3>1. result = [color |-> color, calls |-> <<Call(color, "toomany", <<MAX_ARGS>>)>>]
      BY <2>2
    <3>2. Call(color, "toomany", <<MAX_ARGS>>) \in PrintfCalls
      BY MessageCalls
    <3>3. <<Call(color, "toomany", <<MAX_ARGS>>)>> \in Seq(PrintfCalls)
      BY <3>2
    <3>4. [color |-> color, calls |-> <<Call(color, "toomany", <<MAX_ARGS>>)>>] \in Results
      BY <3>3, ResultIs
    <3> QED
      BY <3>1, <3>4
  <2>3. CASE func = "unknown"
    <3>1. result = [color |-> color, calls |-> <<Call(color, "unknown", <<argv[1]>>)>>]
      BY <2>3
    <3>2. Call(color, "unknown", <<argv[1]>>) \in PrintfCalls
      BY <1>3, <2>3, MessageCalls
    <3>3. <<Call(color, "unknown", <<argv[1]>>)>> \in Seq(PrintfCalls)
      BY <3>2
    <3>4. [color |-> color, calls |-> <<Call(color, "unknown", <<argv[1]>>)>>] \in Results
      BY <3>3, ResultIs
    <3> QED
      BY <3>1, <3>4
  <2>4. CASE func = "MonitorHelp"
    <3>1. result = [color |-> color, calls |-> MonitorHelp(color)]
      BY <2>4
    <3>2. MonitorHelp(color) \in Seq(PrintfCalls)
      BY HelpFacts
    <3>3. [color |-> color, calls |-> MonitorHelp(color)] \in Results
      BY <3>2, ResultIs
    <3> QED
      BY <3>1, <3>3
  <2>5. CASE func = "MonitorTextColor"
    <3>1. result = MonitorTextColor(color, argv)
      BY <2>5
    <3> QED
      BY <3>1, TextColorFacts
  <2> QED
    BY <1>4, <2>1, <2>2, <2>3, <2>4, <2>5
<1> DEFINE r == result
<1> HIDE DEF r
<1>6. RunCommand(color, buf) = [func |-> func, color |-> r.color, calls |-> r.calls]
  BY <1>1 DEF r
<1>7. r \in Results
  BY <1>5 DEF r
<1>8. r.color \in Color /\ r.calls \in Seq(PrintfCalls)
  BY <1>7 DEF Results
<1>9. RunCommand(color, buf).color = r.color /\ RunCommand(color, buf).calls = r.calls
  BY <1>6
<1>10. Ran(RunCommand(color, buf))
  BY <1>8, <1>9 DEF Ran
<1> QED
  BY <1>10 DEF buf
-----------------------------------------------------------------------------
(***************************************************************************)
(* The types of the kernel's state.                                        *)
(***************************************************************************)
MonitorInv ==
  /\ phase \in {"boot", "monitor", "user", "loading", "program", "panic"}
  /\ textColor \in Color
  /\ out \in Seq(Pending)
  /\ monitor \in LineStates

LEMMA ColorFacts == {BLUE, BMAGENTA, WHITE} \subseteq Color
<1>1. BLUE \in Color
  BY ScreenFacts DEF BLUE, Color
<1>2. BMAGENTA \in Color /\ WHITE \in Color
  BY DEF BMAGENTA, WHITE, Color
<1> QED
  BY <1>1, <1>2

LEMMA EmptyLineFacts == EmptyLine \in LineStates
<1>1. 0 \in Index
  BY LineBufferAssumption DEF Index
<1>2. [i \in Index |-> NUL] \in Texts
  BY DEF Texts
<1> QED
  BY <1>1, <1>2 DEF EmptyLine, LineStates

LEMMA TypedFacts == Typed \subseteq Character
BY TextAssumption DEF Typed

\* What the editor does to a line.
LEMMA EditFacts ==
  ASSUME NEW m \in LineStates
  PROVE  /\ Erased(m) \in LineStates
         /\ \A ch \in Character : Entered(m, ch) \in LineStates
         /\ [m EXCEPT !.index = 0] \in LineStates
         /\ \A buf \in Texts : [buf |-> buf, index |-> 0] \in LineStates
<1>1. m.buf \in Texts /\ m.index \in Index /\ m = [buf |-> m.buf, index |-> m.index]
  BY DEF LineStates
<1>2. m.index \in Nat /\ m.index <= CONSOLE_BUFFER_SIZE - 1 /\ CONSOLE_BUFFER_SIZE \in Nat /\ 0 \in Index
  BY <1>1, LineBufferAssumption DEF Index
<1>3. Erased(m) \in LineStates
  <2> DEFINE i == IF m.index = 0 THEN 0 ELSE m.index - 1
  <2>1. i \in Index
    BY <1>2 DEF Index
  <2>2. Erased(m) = [m EXCEPT !.index = i]
    BY DEF Erased
  <2> HIDE DEF i
  <2>3. [m EXCEPT !.index = i] \in LineStates
    BY <2>1 DEF LineStates
  <2> QED
    BY <2>2, <2>3
<1>4. ASSUME NEW ch \in Character PROVE Entered(m, ch) \in LineStates
  <2>1. CASE m.index < CONSOLE_BUFFER_SIZE - 1
    <3>1. m.index + 1 \in Index
      BY <1>2, <2>1 DEF Index
    <3> DEFINE b == [m.buf EXCEPT ![m.index] = ch]
               i == m.index + 1
    <3>2. b \in Texts
      BY <1>1 DEF Texts
    <3>3. Entered(m, ch) = [buf |-> b, index |-> i]
      BY <2>1 DEF Entered
    <3> HIDE DEF b, i
    <3>4. [buf |-> b, index |-> i] \in LineStates
      BY <3>1, <3>2 DEF LineStates, i
    <3> QED
      BY <3>3, <3>4
  <2>2. CASE ~ (m.index < CONSOLE_BUFFER_SIZE - 1)
    BY <2>2 DEF Entered
  <2> QED
    BY <2>1, <2>2
<1>5. [m EXCEPT !.index = 0] \in LineStates
  BY <1>2 DEF LineStates
<1>6. ASSUME NEW buf \in Texts PROVE [buf |-> buf, index |-> 0] \in LineStates
  BY <1>2 DEF LineStates
<1> QED
  BY <1>3, <1>4, <1>5, <1>6

\* What an echo is: the character typed and flushes.
EchoIs(ch, color, p) ==
  /\ Printing(p) /\ p[1] = [ch |-> ch, color |-> color] /\ \A i \in 2 .. Len(p) : p[i] = FLUSH

\* What MonitorRun and Enter print.
LEMMA BannerFacts ==
  ASSUME NEW color \in Color
  PROVE  Printing(PrintfAll(<<Call(BMAGENTA, "banner", <<>>), Prompt(color)>>))
<1> DEFINE a == Call(BMAGENTA, "banner", <<>>)
           b == Prompt(color)
<1>1. a \in PrintfCalls
  BY ColorFacts, MessageCalls DEF PlainMessages
<1>2. b \in PrintfCalls
  BY MessageCalls DEF Prompt, PlainMessages
<1> HIDE DEF a, b
<1>3. <<a, b>> \in Seq(PrintfCalls) /\ Len(<<a, b>>) > 0
  BY <1>1, <1>2
<1>4. Printing(PrintfAll(<<a, b>>))
  BY <1>3, PrintingAll
<1> QED
  BY <1>4 DEF a, b

LEMMA EnterFacts ==
  ASSUME NEW color \in Color, NEW k \in Color, NEW calls, calls \in Seq(PrintfCalls)
  PROVE  Printing(PrintfAll(<<Echo(color, "newline")>> \o calls \o <<Prompt(k)>>))
<1> DEFINE a == Echo(color, "newline")
           b == Prompt(k)
<1>1. a \in PrintfCalls
  <2>1. "newline" \in Character
    BY TextAssumption
  <2> QED
    BY <2>1, MessageCalls DEF Echo
<1>2. b \in PrintfCalls
  BY MessageCalls DEF Prompt, PlainMessages
<1> HIDE DEF a, b
<1>3. <<a>> \in Seq(PrintfCalls) /\ <<b>> \in Seq(PrintfCalls) /\ Len(<<a>>) = 1 /\ Len(<<b>>) = 1
  BY <1>1, <1>2
<1>4. <<a>> \o calls \in Seq(PrintfCalls) /\ Len(<<a>> \o calls) = 1 + Len(calls) /\ Len(calls) \in Nat
  BY <1>3
<1> DEFINE s == <<a>> \o calls
           t == s \o <<b>>
<1> HIDE DEF s
<1>5. t \in Seq(PrintfCalls) /\ Len(t) = Len(s) + 1 /\ Len(s) \in Nat
  BY <1>3, <1>4 DEF s
<1> HIDE DEF t
<1>6. Len(t) > 0
  BY <1>5
<1>7. Printing(PrintfAll(t))
  BY <1>5, <1>6, PrintingAll
<1> QED
  BY <1>7 DEF a, b, s, t

LEMMA EchoFacts ==
  ASSUME NEW color \in Color, NEW ch \in Character
  PROVE  EchoIs(ch, color, Printf(Echo(color, ch)))
<1> DEFINE fmt == Text["char"]
           text == VPrintFmt(fmt, <<ch>>)
           p == PrintfColor(color, fmt, <<ch>>)
<1>1. fmt = <<"%", "c">> /\ fmt \in Seq(Character)
  BY TextAssumption DEF Messages
<1>2. Len(fmt) = 2 /\ DOMAIN fmt = {1, 2} /\ fmt[1] = "%" /\ fmt[2] = "c"
  BY <1>1
<1> HIDE DEF fmt
<1>3. 1 \in Taken(fmt) /\ \A k \in DOMAIN fmt \ {1} : fmt[k] # "%"
  BY <1>2 DEF Taken, Directives
<1>4. Convert(fmt[1 + 1], ch) = <<ch>> /\ <<ch>> \in Seq(Character)
  BY <1>2 DEF Convert
<1>5. text = SubSeq(fmt, 1, 1 - 1) \o (Convert(fmt[1 + 1], ch) \o SubSeq(fmt, 1 + 2, Len(fmt)))
  <2>1. Convert(fmt[1 + 1], ch) \in Seq(Character)
    BY <1>4
  <2> QED
    BY <1>1, <1>3, <2>1, FmtOne
<1>6. SubSeq(fmt, 1, 1 - 1) = <<>> /\ SubSeq(fmt, 1 + 2, Len(fmt)) = <<>>
  BY <1>1, <1>2
<1>7. text = <<ch>>
  <2>1. text = <<>> \o (<<ch>> \o <<>>)
    BY <1>4, <1>5, <1>6
  <2> DEFINE t == <<ch>>
  <2>2. t \in Seq(Character)
    BY <1>4
  <2> HIDE DEF text, t
  <2>3. <<>> \o (t \o <<>>) = t
    BY <2>2
  <2> QED
    BY <2>1, <2>3 DEF t
<1>8. text \in Seq(Character) /\ Len(text) = 1 /\ text[1] = ch
  <2>1. Len(<<ch>>) = 1 /\ <<ch>>[1] = ch /\ <<ch>> \in Seq(Character)
    OBVIOUS
  <2> HIDE DEF text
  <2> QED
    BY <1>7, <2>1
<1>9. PrintShows(text, color, p)
  <2>1. VPrintFmt(fmt, <<ch>>) \in Seq(Character)
    BY <1>8
  <2> QED
    BY <2>1, PrintfFacts
<1> HIDE DEF text, p
<1>10. EchoIs(ch, color, p)
  BY <1>8, <1>9 DEF PrintShows, EchoIs, Printing
<1>11. Printf(Echo(color, ch)) = p
  BY DEF Printf, Echo, Call, p, fmt
<1> QED
  BY <1>10, <1>11

LEMMA InitMonitor == KernelInit => MonitorInv
BY ColorFacts, EmptyLineFacts, EmptySeq DEF KernelInit, MonitorInv

LEMMA KernelMonitorInv == MonitorInv /\ [KernelNext]_kernelVars => MonitorInv'
<1> SUFFICES ASSUME MonitorInv, [KernelNext]_kernelVars PROVE MonitorInv'
  OBVIOUS
<1>1. textColor \in Color /\ out \in Seq(Pending) /\ monitor \in LineStates
      /\ phase \in {"boot", "monitor", "user", "loading", "program", "panic"}
  BY DEF MonitorInv
<1>2. ASSUME UNCHANGED <<textColor, out, monitor>>,
             phase' \in {"boot", "monitor", "user", "loading", "program", "panic"}
      PROVE  MonitorInv'
  BY <1>1, <1>2 DEF MonitorInv
<1>3. CASE UNCHANGED kernelVars
  BY <1>1, <1>2, <1>3 DEF kernelVars, screenVars
<1>4. CASE Boot
  BY <1>1, <1>2, <1>4 DEF Boot, screenVars
<1>5. CASE MonitorRun
  <2>1. Printing(PrintfAll(<<Call(BMAGENTA, "banner", <<>>), Prompt(textColor)>>))
    BY <1>1, BannerFacts
  <2>2. out' \in Seq(Pending)
    BY <2>1, <1>5 DEF MonitorRun, Printing
  <2>3. monitor' \in LineStates
    BY <1>1, <1>5, EditFacts DEF MonitorRun
  <2> QED
    BY <1>1, <1>5, <2>2, <2>3 DEF MonitorRun, MonitorInv
<1>6. CASE Output
  <2>1. out # <<>> /\ out' = Tail(out) /\ UNCHANGED <<phase, textColor, monitor>>
    BY <1>6 DEF Output
  <2>2. out' \in Seq(Pending)
    BY <1>1, <2>1
  <2> QED
    BY <1>1, <2>1, <2>2 DEF MonitorInv
<1>7. ASSUME NEW ch \in Typed, Edit(ch) PROVE MonitorInv'
  <2>1. ch \in Character
    BY TypedFacts
  <2>2. EchoIs(ch, textColor, Printf(Echo(textColor, ch)))
    BY <1>1, <2>1, EchoFacts
  <2>3. out' \in Seq(Pending)
    BY <2>2, <1>7 DEF Edit, EchoIs, Printing
  <2>4. monitor' \in LineStates
    <3>1. Erased(monitor) \in LineStates /\ Entered(monitor, ch) \in LineStates
      BY <1>1, <2>1, EditFacts
    <3> QED
      BY <3>1, <1>7 DEF Edit
  <2> QED
    BY <1>1, <1>7, <2>3, <2>4 DEF Edit, MonitorInv
<1>8. CASE Enter
  <2> DEFINE r == RunCommand(textColor, Ended(monitor))
  <2>1. r.color \in Color /\ r.calls \in Seq(PrintfCalls)
    <3>1. Ran(RunCommand(textColor, Ended(monitor)))
      BY <1>1, RunFacts
    <3> QED
      BY <3>1 DEF Ran
  <2>2. CASE r.func = "MonitorUser"
    <3>1. /\ phase' = "user" /\ out' = Printf(Echo(textColor, "newline"))
          /\ monitor' = EmptyLine /\ textColor' = WHITE
      BY <1>8, <2>2 DEF Enter
    <3>2. "newline" \in Character
      BY TextAssumption
    <3>3. EchoIs("newline", textColor, Printf(Echo(textColor, "newline")))
      BY <1>1, <3>2, EchoFacts
    <3>4. out' \in Seq(Pending)
      BY <3>1, <3>3 DEF EchoIs, Printing
    <3> QED
      BY <3>1, <3>4, ColorFacts, EmptyLineFacts DEF MonitorInv
  <2>3. CASE r.func # "MonitorUser"
    <3>1. /\ phase' = phase
          /\ out' = PrintfAll(<<Echo(textColor, "newline")>> \o r.calls \o <<Prompt(r.color)>>)
          /\ monitor' = [buf |-> Gobble(Ended(monitor)), index |-> 0] /\ textColor' = r.color
      BY <1>8, <2>3 DEF Enter
    <3> HIDE DEF r
    <3>2. Printing(PrintfAll(<<Echo(textColor, "newline")>> \o r.calls \o <<Prompt(r.color)>>))
      BY <1>1, <2>1, EnterFacts
    <3>3. out' \in Seq(Pending)
      BY <3>1, <3>2 DEF Printing
    <3>4. Gobble(Ended(monitor)) \in Texts
      BY <1>1, EndedFacts, GobbleType
    <3>5. monitor' \in LineStates
      BY <1>1, <3>1, <3>4, EditFacts
    <3> QED
      BY <1>1, <2>1, <3>1, <3>3, <3>5 DEF MonitorInv
  <2> QED
    BY <2>2, <2>3
<1>9. CASE MonitorUser
  BY <1>2, <1>9 DEF MonitorUser
<1>10. CASE LoadPage
  BY <1>1, <1>2, <1>10 DEF LoadPage, screenVars
<1>11. CASE ForceRunProcess
  BY <1>2, <1>11 DEF ForceRunProcess, screenVars
<1>12. CASE Program
  <2>1. UNCHANGED <<textColor, out, monitor>> /\ phase' \in {phase, "panic"}
    BY <1>12 DEF Program, PageFaultHandler, Syscall, Return, screenVars
  <2> QED
    BY <1>1, <1>2, <2>1
<1> QED
  BY <1>3, <1>4, <1>5, <1>6, <1>7, <1>8, <1>9, <1>10, <1>11, <1>12 DEF KernelNext, Main

\* The state of the kernel keeps its types in every run: the cursor stays on the
\* screen whatever is printed, typed and erased, the line in its buffer, and what is
\* still to be printed is characters in colors, whatever the line was and the command
\* it ran.
THEOREM KernelTypeSafe == KernelSpec => []KernelTypeOK
<1> DEFINE Inv == TermInv /\ CallInv /\ MonitorInv
<1>1. KernelInit => Inv
  <2> SUFFICES ASSUME KernelInit PROVE Inv
    OBVIOUS
  <2>1. TermInv
    BY InitTerm
  <2>2. CallInv
    BY InitCall
  <2>3. MonitorInv
    BY InitMonitor
  <2> QED
    BY <2>1, <2>2, <2>3
<1>2. Inv /\ [KernelNext]_kernelVars => Inv'
  BY KernelMaps, KernelCallInv, KernelMonitorInv
<1>3. Inv => KernelTypeOK
  <2> SUFFICES ASSUME Inv PROVE KernelTypeOK
    OBVIOUS
  <2>1. term \in Terms /\ space \in Space
    BY DEF TermInv, CallInv
  <2>2. DOMAIN term = {"buf", "display", "lastClearColor", "row", "col"}
        /\ {term.buf, term.display} \subseteq [Offsets -> SUBSET Pixels]
        /\ term.lastClearColor \in Color
        /\ term.row \in 0 .. CHAR_ROWS - 1 /\ term.col \in 0 .. CHAR_COLS - 1
    BY <2>1, ScreenFacts DEF Terms, Buffers, ROWS, W, CHAR_COLS
  <2>3. monitor.index \in Index /\ DOMAIN monitor.buf = Index
    BY DEF MonitorInv, LineStates, Texts
  <2> QED
    BY <2>1, <2>2, <2>3 DEF MonitorInv, KernelTypeOK
<1> QED
  BY <1>1, <1>2, <1>3, PTL DEF KernelSpec
-----------------------------------------------------------------------------
(***************************************************************************)
(* The line on the screen.                                                 *)
(***************************************************************************)
LEMMA SetCellIs ==
  ASSUME NEW t, NEW u, NEW row \in 0 .. ROWS - 1, NEW col \in 0 .. W - 1, NEW x,
         Grid(u) = SetCell(Grid(t), row, col, x)
  PROVE  \A r \in 0 .. ROWS - 1, c \in 0 .. W - 1 :
           CellOf(u.buf, r, c) = IF r = row /\ c = col THEN x ELSE CellOf(t.buf, r, c)
<1> SUFFICES ASSUME NEW r \in 0 .. ROWS - 1, NEW c \in 0 .. W - 1
             PROVE  CellOf(u.buf, r, c) = IF r = row /\ c = col THEN x ELSE CellOf(t.buf, r, c)
  OBVIOUS
<1> DEFINE g == Grid(t)
<1>1. g = [i \in 0 .. ROWS - 1 |-> [j \in 0 .. W - 1 |-> CellOf(t.buf, i, j)]]
  BY DEF Grid
<1>2. g[r][c] = CellOf(t.buf, r, c) /\ Grid(u)[r][c] = CellOf(u.buf, r, c)
  BY GridFacts
<1>3. DOMAIN g = 0 .. ROWS - 1 /\ DOMAIN g[row] = 0 .. W - 1
  BY <1>1
<1> HIDE DEF g
<1>4. Grid(u) = [g EXCEPT ![row][col] = x]
  BY DEF SetCell, g
<1>5. [g EXCEPT ![row][col] = x][r][c] = IF r = row /\ c = col THEN x ELSE g[r][c]
  BY <1>3
<1> QED
  BY <1>2, <1>4, <1>5

\* The characters of the line m are left of the cursor of t, if they have room there.
LineShown(t, m, color) ==
  m.index <= t.col =>
    \A i \in 0 .. m.index - 1 :
      CellOf(t.buf, t.row, t.col - m.index + i) = Picture(m.buf[i], color, t.lastClearColor)

LEMMA LineFacts ==
  ASSUME NEW t \in Terms, NEW m \in LineStates
  PROVE  /\ t.row \in 0 .. ROWS - 1 /\ t.col \in 0 .. W - 1 /\ t.col \in Nat /\ t.col < W /\ W \in Nat
         /\ m.index \in Nat /\ m.index < CONSOLE_BUFFER_SIZE /\ m.index \in Index
         /\ m.buf \in Texts /\ CONSOLE_BUFFER_SIZE \in Nat /\ W < CONSOLE_BUFFER_SIZE
<1>1. t.row \in 0 .. ROWS - 1 /\ t.col \in 0 .. W - 1 /\ t.col \in Nat /\ t.col < W /\ W \in Nat
  BY TermFacts DEF Terms
<1>2. m.index \in Index /\ m.buf \in Texts
  BY DEF LineStates
<1>3. m.index \in Nat /\ m.index < CONSOLE_BUFFER_SIZE /\ CONSOLE_BUFFER_SIZE \in Nat
  BY <1>2, LineBufferAssumption DEF Index
<1>4. W < CONSOLE_BUFFER_SIZE
  BY ScreenFacts, TextAssumption
<1> QED
  BY <1>1, <1>2, <1>3, <1>4

LEMMA EraseShown ==
  ASSUME NEW t \in Terms, Ahead(t), NEW m \in LineStates, NEW color, LineShown(t, m, color),
         NEW u, u = PutChar(t, "backspace", color)
  PROVE  LineShown(u, Erased(m), color)
<1>1. /\ t.row \in 0 .. ROWS - 1 /\ t.col \in 0 .. W - 1 /\ t.col \in Nat /\ t.col < W /\ W \in Nat
      /\ m.index \in Nat
  BY LineFacts
<1> DEFINE left == IF t.col = 0 THEN 0 ELSE t.col - 1
           n == Erased(m)
           row == t.row
           x == Plain(t.lastClearColor)
<1>2. EraseOf(t, u, left)
  BY EraseFacts
<1>3. left \in Nat /\ left \in 0 .. W - 1 /\ left <= t.col
  BY <1>1
<1>4. u.lastClearColor = t.lastClearColor /\ u.row = row /\ u.col = left
      /\ Grid(u) = SetCell(Grid(t), row, left, x)
  BY <1>2 DEF EraseOf
<1>5. n.index = (IF m.index = 0 THEN 0 ELSE m.index - 1) /\ n.buf = m.buf
  BY DEF Erased, LineStates
<1>6. IF t.col = 0 THEN left = 0 ELSE left = t.col - 1
  OBVIOUS
<1> HIDE DEF left, n
<1>7. row \in 0 .. ROWS - 1
  BY <1>1
<1> HIDE DEF x, row
<1>8. \A r \in 0 .. ROWS - 1, c \in 0 .. W - 1 :
        CellOf(u.buf, r, c) = IF r = row /\ c = left THEN x ELSE CellOf(t.buf, r, c)
  BY <1>3, <1>4, <1>7, SetCellIs
<1>9. ASSUME n.index <= u.col, NEW i \in 0 .. n.index - 1
      PROVE  CellOf(u.buf, u.row, u.col - n.index + i) = Picture(n.buf[i], color, u.lastClearColor)
  <2>1. m.index # 0 /\ t.col # 0 /\ left = t.col - 1 /\ n.index = m.index - 1 /\ m.index <= t.col
        /\ i \in Nat
    BY <1>1, <1>3, <1>4, <1>5, <1>6, <1>9
  <2> DEFINE c == u.col - n.index + i
  <2>2. c = t.col - m.index + i /\ c \in 0 .. W - 1 /\ c < left /\ i \in 0 .. m.index - 1
    BY <1>1, <1>4, <1>9, <2>1
  <2> HIDE DEF c
  <2>3. CellOf(u.buf, row, c) = CellOf(t.buf, row, c)
    BY <1>3, <1>7, <1>8, <2>2
  <2>4. CellOf(t.buf, t.row, t.col - m.index + i) = Picture(m.buf[i], color, t.lastClearColor)
    BY <2>1, <2>2 DEF LineShown
  <2> QED
    BY <1>4, <1>5, <2>2, <2>3, <2>4 DEF c, row
<1> QED
  BY <1>9 DEF LineShown, n

LEMMA EnterShown ==
  ASSUME NEW t \in Terms, Ahead(t), NEW m \in LineStates, NEW color, LineShown(t, m, color),
         NEW ch \in Character, ch # "newline", ch # "backspace", NEW u, u = PutChar(t, ch, color)
  PROVE  LineShown(u, Entered(m, ch), color)
<1>1. /\ t.row \in 0 .. ROWS - 1 /\ t.col \in 0 .. W - 1 /\ t.col \in Nat /\ t.col < W /\ W \in Nat
      /\ m.index \in Nat /\ m.index < CONSOLE_BUFFER_SIZE /\ m.index \in Index
      /\ m.buf \in Texts /\ CONSOLE_BUFFER_SIZE \in Nat /\ W < CONSOLE_BUFFER_SIZE
  BY LineFacts
<1> DEFINE n == Entered(m, ch)
           row == t.row
           col == t.col
           x == Picture(ch, color, t.lastClearColor)
<1>2. u \in Terms /\ WriteOf(t, u, x)
  BY WriteExact
<1>3. u.col \in Nat /\ u.col < W
  BY <1>2, TermFacts
<1>4. CASE t.col + 1 < W /\ m.index < CONSOLE_BUFFER_SIZE - 1
  <2>1. /\ u.lastClearColor = t.lastClearColor /\ u.row = row /\ u.col = col + 1
        /\ Grid(u) = SetCell(Grid(t), row, col, x)
    BY <1>2, <1>4 DEF WriteOf
  <2>2. n.index = m.index + 1 /\ n.buf = [m.buf EXCEPT ![m.index] = ch]
    BY <1>4 DEF Entered
  <2>3. \A i \in Index : n.buf[i] = IF i = m.index THEN ch ELSE m.buf[i]
    BY <1>1, <2>2 DEF Texts
  <2> HIDE DEF n
  <2>4. row \in 0 .. ROWS - 1 /\ col \in 0 .. W - 1 /\ col \in Nat
    BY <1>1
  <2> HIDE DEF row, col, x
  <2>5. \A r \in 0 .. ROWS - 1, c \in 0 .. W - 1 :
          CellOf(u.buf, r, c) = IF r = row /\ c = col THEN x ELSE CellOf(t.buf, r, c)
    BY <2>1, <2>4, SetCellIs
  <2>6. ASSUME n.index <= u.col, NEW i \in 0 .. n.index - 1
        PROVE  CellOf(u.buf, u.row, u.col - n.index + i) = Picture(n.buf[i], color, u.lastClearColor)
    <3> DEFINE c == u.col - n.index + i
    <3>1. i \in Nat /\ i <= m.index /\ m.index <= col /\ col < W /\ i \in Index
      BY <1>1, <2>1, <2>2, <2>4, <2>6 DEF Index, col
    <3>2. c = col - m.index + i /\ c \in 0 .. W - 1
      BY <1>1, <2>1, <2>2, <2>4, <3>1
    <3>3. CASE i = m.index
      <4>1. c = col
        BY <1>1, <2>4, <3>2, <3>3
      <4>2. CellOf(u.buf, row, c) = x
        BY <2>4, <2>5, <4>1
      <4> HIDE DEF c
      <4>3. n.buf[i] = ch
        BY <2>3, <3>1, <3>3
      <4> QED
        BY <2>1, <4>2, <4>3 DEF x, c
    <3>4. CASE i # m.index
      <4>1. c # col /\ i \in 0 .. m.index - 1
        BY <1>1, <2>4, <3>1, <3>2, <3>4
      <4> HIDE DEF c
      <4>2. CellOf(u.buf, row, c) = CellOf(t.buf, row, c)
        BY <2>4, <2>5, <3>2, <4>1
      <4>3. CellOf(t.buf, t.row, t.col - m.index + i) = Picture(m.buf[i], color, t.lastClearColor)
        BY <3>1, <4>1 DEF LineShown, col
      <4>4. CellOf(t.buf, row, c) = Picture(m.buf[i], color, t.lastClearColor)
        BY <3>2, <4>3 DEF row, col
      <4>5. n.buf[i] = m.buf[i]
        BY <2>3, <3>1, <3>4
      <4> QED
        BY <2>1, <4>2, <4>4, <4>5 DEF c
    <3> QED
      BY <3>3, <3>4
  <2> QED
    BY <2>6 DEF LineShown, n
<1>5. CASE ~ (t.col + 1 < W) /\ m.index < CONSOLE_BUFFER_SIZE - 1
  <2>1. u.col = 0
    BY <1>2, <1>5 DEF WriteOf, NextRowOf
  <2>2. n.index = m.index + 1
    BY <1>5 DEF Entered
  <2>3. ~ (n.index <= u.col)
    BY <1>1, <2>1, <2>2
  <2> QED
    BY <2>3 DEF LineShown
<1>6. CASE ~ (m.index < CONSOLE_BUFFER_SIZE - 1)
  <2>1. n = m
    BY <1>6 DEF Entered
  <2>2. ~ (m.index <= u.col)
    BY <1>1, <1>3, <1>6
  <2> QED
    BY <2>1, <2>2 DEF LineShown
<1> QED
  BY <1>4, <1>5, <1>6

\* What a step of the editor makes of the line m.
Edited(m, ch) == IF ch = "backspace" THEN Erased(m) ELSE Entered(m, ch)

\* What is still to be printed leaves the line that is shown as it is.
Settled == /\ LineShown(term, monitor, textColor)
           /\ monitor.index = 0 \/ \A i \in 1 .. Len(out) : out[i] = FLUSH

\* The line is shown as it was before the character whose echo is still to be printed.
Echoing ==
  \E m \in LineStates, ch \in Typed \ {"newline"} :
    LineShown(term, m, textColor) /\ EchoIs(ch, textColor, out) /\ monitor = Edited(m, ch)

Flushed == IF out = <<>> THEN term.display = term.buf ELSE out[Len(out)] = FLUSH
LineInv == phase = "monitor" => Flushed /\ (Settled \/ Echoing)

LEMMA EmptyLineShown == \A t, m, color : m.index = 0 => LineShown(t, m, color)
<1> SUFFICES ASSUME NEW t, NEW m, NEW color, m.index = 0 PROVE LineShown(t, m, color)
  OBVIOUS
<1>1. 0 .. m.index - 1 = {}
  OBVIOUS
<1> QED
  BY <1>1 DEF LineShown

\* A line begins with what is printed before it.
LEMMA NewLine == ASSUME monitor'.index = 0, Printing(out') PROVE LineInv'
<1>1. Settled'
  BY EmptyLineShown DEF Settled
<1>2. Flushed'
  <2>1. out' # <<>>
    BY DEF Printing
  <2> QED
    BY <2>1 DEF Flushed, Printing
<1> QED
  BY <1>1, <1>2 DEF LineInv

LEMMA TailFacts ==
  ASSUME NEW p \in Seq(Pending), p # <<>>
  PROVE  /\ Tail(p) \in Seq(Pending) /\ Len(Tail(p)) = Len(p) - 1 /\ Len(p) \in Nat /\ Len(p) > 0
         /\ Head(p) = p[1] /\ \A i \in 1 .. Len(p) - 1 : Tail(p)[i] = p[i + 1]
         /\ Len(p) = 1 <=> Tail(p) = <<>>
<1>1. Tail(p) \in Seq(Pending) /\ Len(Tail(p)) = Len(p) - 1 /\ Len(p) \in Nat
  OBVIOUS
<1>2. Len(p) > 0
  OBVIOUS
<1>3. Head(p) = p[1]
  OBVIOUS
<1>4. \A i \in 1 .. Len(p) - 1 : Tail(p)[i] = p[i + 1]
  OBVIOUS
<1> DEFINE q == Tail(p)
<1> HIDE DEF q
<1>5. q \in Seq(Pending) /\ Len(q) = Len(p) - 1
  BY <1>1 DEF q
<1>6. Len(q) = 0 <=> q = <<>>
  <2>1. q # <<>> => Len(q) # 0
    BY <1>5, EmptySeq
  <2>2. q = <<>> => Len(q) = 0
    BY EmptySeq
  <2> QED
    BY <2>1, <2>2
<1>7. Len(p) = 1 <=> Len(q) = 0
  BY <1>1, <1>5
<1> QED
  BY <1>1, <1>2, <1>3, <1>4, <1>6, <1>7 DEF q

LEMMA OutputLine ==
  ASSUME TermInv, MonitorInv, LineInv, Output
  PROVE  LineInv'
<1> SUFFICES ASSUME phase = "monitor" PROVE Flushed' /\ (Settled' \/ Echoing')
  BY DEF Output, LineInv
<1>1. /\ out # <<>> /\ out' = Tail(out) /\ monitor' = monitor /\ textColor' = textColor
      /\ term' = IF Head(out) = FLUSH THEN FlushBuffer(term)
                 ELSE PutChar(term, Head(out).ch, Head(out).color)
  BY DEF Output
<1>2. out \in Seq(Pending) /\ monitor \in LineStates /\ textColor \in Color
      /\ term \in Terms /\ Ahead(term)
  BY DEF MonitorInv, TermInv
<1> DEFINE n == Len(out)
<1>3. /\ out' \in Seq(Pending) /\ Len(out') = n - 1 /\ n \in Nat /\ n > 0
      /\ Head(out) = out[1] /\ \A i \in 1 .. n - 1 : out'[i] = out[i + 1]
      /\ n = 1 <=> out' = <<>>
  BY <1>1, <1>2, TailFacts
<1>4. out[n] = FLUSH /\ (Settled \/ Echoing)
  BY <1>1 DEF LineInv, Flushed
<1> HIDE DEF n
<1>5. Flushed'
  <2>1. CASE n = 1
    <3>1. term' = FlushBuffer(term) /\ out' = <<>>
      BY <1>1, <1>3, <1>4, <2>1
    <3>2. term'.display = term'.buf
      BY <1>2, <3>1 DEF FlushBuffer, Terms
    <3> QED
      BY <3>1, <3>2 DEF Flushed
  <2>2. CASE n # 1
    <3>1. out' # <<>> /\ n - 1 \in 1 .. n - 1 /\ (n - 1) + 1 = n
      BY <1>3, <2>2
    <3>2. out'[Len(out')] = FLUSH
      BY <1>3, <1>4, <3>1
    <3> QED
      BY <3>1, <3>2 DEF Flushed
  <2> QED
    BY <2>1, <2>2
<1>6. CASE monitor.index = 0
  BY <1>1, <1>5, <1>6, EmptyLineShown DEF Settled
<1>7. CASE LineShown(term, monitor, textColor) /\ \A i \in 1 .. n : out[i] = FLUSH
  <2>1. Head(out) = FLUSH
    BY <1>3, <1>7
  <2>2. term' = [term EXCEPT !.display = term.buf]
    BY <1>1, <2>1 DEF FlushBuffer
  <2>3. term'.buf = term.buf /\ term'.row = term.row /\ term'.col = term.col
        /\ term'.lastClearColor = term.lastClearColor
    BY <1>2, <2>2 DEF Terms
  <2>4. LineShown(term', monitor, textColor)
    BY <1>7, <2>3 DEF LineShown
  <2>5. ASSUME NEW i \in 1 .. Len(out') PROVE out'[i] = FLUSH
    <3>1. i \in 1 .. n - 1 /\ i + 1 \in 1 .. n
      BY <1>3
    <3> QED
      BY <1>3, <1>7, <3>1
  <2>6. Settled'
    BY <1>1, <2>4, <2>5 DEF Settled
  <2> QED
    BY <1>5, <2>6
<1>8. CASE Echoing
  <2>1. PICK m \in LineStates, ch \in Typed \ {"newline"} :
          LineShown(term, m, textColor) /\ EchoIs(ch, textColor, out) /\ monitor = Edited(m, ch)
    BY <1>8 DEF Echoing
  <2>2. ch \in Character /\ ch # "newline"
    BY TypedFacts
  <2>3. Head(out) = [ch |-> ch, color |-> textColor] /\ Head(out) # FLUSH
    <3>1. Head(out) = [ch |-> ch, color |-> textColor]
      BY <1>3, <2>1 DEF EchoIs
    <3> QED
      BY <2>2, <3>1, NoFlush
  <2>4. term' = PutChar(term, ch, textColor)
    BY <1>1, <2>3
  <2>5. LineShown(term', monitor, textColor)
    <3> DEFINE u == term'
    <3>1. u = PutChar(term, ch, textColor)
      BY <2>4
    <3> HIDE DEF u
    <3>2. CASE ch = "backspace"
      <4>1. u = PutChar(term, "backspace", textColor)
        BY <3>1, <3>2
      <4>2. LineShown(u, Erased(m), textColor)
        BY <1>2, <2>1, <4>1, EraseShown
      <4> QED
        BY <2>1, <3>2, <4>2 DEF Edited, u
    <3>3. CASE ch # "backspace"
      <4>1. LineShown(u, Entered(m, ch), textColor)
        BY <1>2, <2>1, <2>2, <3>1, <3>3, EnterShown
      <4> QED
        BY <2>1, <3>3, <4>1 DEF Edited, u
    <3> QED
      BY <3>2, <3>3
  <2>6. ASSUME NEW i \in 1 .. Len(out') PROVE out'[i] = FLUSH
    <3>1. i \in 1 .. n - 1 /\ i + 1 \in 2 .. n
      BY <1>3
    <3>2. \A k \in 2 .. n : out[k] = FLUSH
      BY <2>1 DEF EchoIs, n
    <3> QED
      BY <1>3, <3>1, <3>2
  <2>7. Settled'
    BY <1>1, <2>5, <2>6 DEF Settled
  <2> QED
    BY <1>5, <2>7
<1> QED
  BY <1>4, <1>6, <1>7, <1>8 DEF Settled, n

LEMMA EditLine ==
  ASSUME MonitorInv, LineInv, NEW ch \in Typed, Edit(ch)
  PROVE  LineInv'
<1>1. /\ phase = "monitor" /\ out = <<>> /\ ch # "newline"
      /\ out' = Printf(Echo(textColor, ch)) /\ monitor' = Edited(monitor, ch)
      /\ term' = term /\ textColor' = textColor
  BY DEF Edit, Edited
<1>2. monitor \in LineStates /\ textColor \in Color /\ ch \in Character
  BY TypedFacts DEF MonitorInv
<1>3. EchoIs(ch, textColor, out')
  BY <1>1, <1>2, EchoFacts
<1>4. LineShown(term, monitor, textColor)
  <2>1. ~ Echoing
    <3> SUFFICES ASSUME Echoing PROVE FALSE
      OBVIOUS
    <3>1. PICK c : EchoIs(c, textColor, out)
      BY DEF Echoing
    <3>2. Len(out) > 0
      BY <3>1 DEF EchoIs, Printing
    <3> QED
      BY <1>1, <3>2
  <2> QED
    BY <1>1, <2>1 DEF LineInv, Settled
<1>5. Echoing'
  <2>1. ch \in Typed \ {"newline"}
    BY <1>1
  <2>2. LineShown(term', monitor, textColor') /\ EchoIs(ch, textColor', out')
        /\ monitor' = Edited(monitor, ch)
    BY <1>1, <1>3, <1>4
  <2> QED
    BY <1>2, <2>1, <2>2 DEF Echoing, Typed
<1>6. Flushed'
  <2>1. Printing(out')
    BY <1>3 DEF EchoIs
  <2>2. out' # <<>>
    BY <2>1 DEF Printing
  <2> QED
    BY <2>1, <2>2 DEF Flushed, Printing
<1> QED
  BY <1>5, <1>6 DEF LineInv

LEMMA KernelLineInv ==
  ASSUME TermInv, MonitorInv, LineInv, [KernelNext]_kernelVars
  PROVE  LineInv'
<1>1. textColor \in Color /\ monitor \in LineStates
  BY DEF MonitorInv
<1>2. CASE UNCHANGED <<phase, term, textColor, out, monitor>>
  <2>1. Flushed => Flushed'
    BY <1>2 DEF Flushed
  <2>2. Settled => Settled'
    BY <1>2 DEF Settled
  <2>3. Echoing => Echoing'
    BY <1>2 DEF Echoing
  <2> QED
    BY <1>2, <2>1, <2>2, <2>3 DEF LineInv
<1>3. CASE phase' # "monitor"
  BY <1>3 DEF LineInv
<1>4. CASE UNCHANGED kernelVars
  BY <1>2, <1>4 DEF kernelVars, screenVars
<1>5. CASE Boot
  BY <1>2, <1>5 DEF Boot, screenVars
<1>6. CASE MonitorRun
  <2>1. Printing(PrintfAll(<<Call(BMAGENTA, "banner", <<>>), Prompt(textColor)>>))
    BY <1>1, BannerFacts
  <2>2. Printing(out')
    BY <2>1, <1>6 DEF MonitorRun
  <2>3. monitor' = [monitor EXCEPT !.index = 0]
    BY <1>6 DEF MonitorRun
  <2>4. monitor'.index = 0
    BY <1>1, <2>3 DEF LineStates
  <2> QED
    BY <2>2, <2>4, NewLine
<1>7. CASE Output
  BY <1>7, OutputLine
<1>8. ASSUME NEW ch \in Typed, Edit(ch) PROVE LineInv'
  BY <1>8, EditLine
<1>9. CASE Enter
  <2> DEFINE r == RunCommand(textColor, Ended(monitor))
  <2>1. r.color \in Color /\ r.calls \in Seq(PrintfCalls)
    <3>1. Ran(RunCommand(textColor, Ended(monitor)))
      BY <1>1, RunFacts
    <3> QED
      BY <3>1 DEF Ran
  <2>2. CASE r.func = "MonitorUser"
    BY <1>3, <1>9, <2>2 DEF Enter
  <2>3. CASE r.func # "MonitorUser"
    <3>1. /\ out' = PrintfAll(<<Echo(textColor, "newline")>> \o r.calls \o <<Prompt(r.color)>>)
          /\ monitor' = [buf |-> Gobble(Ended(monitor)), index |-> 0]
      BY <1>9, <2>3 DEF Enter
    <3> HIDE DEF r
    <3>2. Printing(PrintfAll(<<Echo(textColor, "newline")>> \o r.calls \o <<Prompt(r.color)>>))
      BY <1>1, <2>1, EnterFacts
    <3>3. Printing(out') /\ monitor'.index = 0
      BY <3>1, <3>2
    <3> QED
      BY <3>3, NewLine
  <2> QED
    BY <2>2, <2>3
<1>10. CASE MonitorUser
  BY <1>3, <1>10 DEF MonitorUser
<1>11. CASE LoadPage
  BY <1>3, <1>11 DEF LoadPage
<1>12. CASE ForceRunProcess
  BY <1>3, <1>12 DEF ForceRunProcess
<1>13. ASSUME NEW pg \in UserWindow, PageFaultHandler(pg) PROVE LineInv'
  BY <1>3, <1>13 DEF PageFaultHandler
<1>14. CASE \E nr, va, len, ch : Syscall(nr, va, len, ch)
  BY <1>2, <1>14 DEF Syscall, screenVars
<1>15. CASE Return
  BY <1>2, <1>15 DEF Return, screenVars
<1> QED
  BY <1>4, <1>5, <1>6, <1>7, <1>8, <1>9, <1>10, <1>11, <1>12, <1>13, <1>14, <1>15
  DEF KernelNext, Main, Program

LEMMA BlankShown == \A color, bg : Picture(" ", color, bg) = Plain(bg)
<1> SUFFICES ASSUME NEW color, NEW bg PROVE Picture(" ", color, bg) = Plain(bg)
  OBVIOUS
<1>1. " " \in DOMAIN Font => Font[" "] = [i \in Lines |-> {}]
  BY TextAssumption DEF BLANK
<1>2. \A i \in Lines : (IF " " \in DOMAIN Font THEN Font[" "][i] ELSE {}) = {}
  BY <1>1
<1> QED
  BY <1>2 DEF Picture, Plain

LEMMA LineIsOnScreen == TermInv /\ MonitorInv /\ LineInv => LineOnScreen
<1> SUFFICES ASSUME TermInv, MonitorInv, LineInv, phase = "monitor", out = <<>>
             PROVE  /\ term.display = term.buf
                    /\ monitor.index <= term.col =>
                         \A i \in 0 .. monitor.index - 1 :
                           Cell(term.row, term.col - monitor.index + i)
                             = Picture(monitor.buf[i], textColor, term.lastClearColor)
                    /\ \A c \in term.col .. CHAR_COLS - 1 :
                         Cell(term.row, c) = Picture(" ", textColor, term.lastClearColor)
  BY DEF LineOnScreen
<1>1. term \in Terms /\ Ahead(term) /\ monitor \in LineStates
  BY DEF TermInv, MonitorInv
<1>2. /\ term.row \in 0 .. ROWS - 1 /\ term.col \in 0 .. W - 1 /\ term.col \in Nat /\ term.col < W
      /\ W \in Nat /\ monitor.index \in Nat
  BY <1>1, LineFacts
<1>3. term.display = term.buf
  BY DEF LineInv, Flushed
<1>4. LineShown(term, monitor, textColor)
  <2>1. ~ Echoing
    <3> SUFFICES ASSUME Echoing PROVE FALSE
      OBVIOUS
    <3>1. PICK c : EchoIs(c, textColor, out)
      BY DEF Echoing
    <3>2. Len(out) > 0
      BY <3>1 DEF EchoIs, Printing
    <3> QED
      BY <3>2
  <2> QED
    BY <2>1 DEF LineInv, Settled
<1>5. ASSUME monitor.index <= term.col, NEW i \in 0 .. monitor.index - 1
      PROVE  Cell(term.row, term.col - monitor.index + i)
               = Picture(monitor.buf[i], textColor, term.lastClearColor)
  <2> DEFINE c == term.col - monitor.index + i
             r == term.row
  <2>1. c \in 0 .. W - 1 /\ r \in 0 .. ROWS - 1
    BY <1>2, <1>5
  <2>2. CellOf(term.buf, r, c) = Picture(monitor.buf[i], textColor, term.lastClearColor)
    BY <1>4, <1>5 DEF LineShown
  <2> HIDE DEF c, r
  <2>3. Cell(r, c) = CellOf(term.buf, r, c)
    BY <2>1, CellIs
  <2> QED
    BY <2>2, <2>3 DEF c, r
<1>6. ASSUME NEW c \in term.col .. CHAR_COLS - 1
      PROVE  Cell(term.row, c) = Picture(" ", textColor, term.lastClearColor)
  <2>1. c \in 0 .. W - 1 /\ c >= term.col
    BY <1>2, ScreenFacts
  <2>2. CellOf(term.buf, term.row, c) = Plain(term.lastClearColor)
    BY <1>1, <1>2, <2>1 DEF Ahead
  <2>3. Cell(term.row, c) = CellOf(term.buf, term.row, c)
    BY <1>2, <2>1, CellIs
  <2> QED
    BY <2>2, <2>3, BlankShown
<1> QED
  BY <1>3, <1>5, <1>6

\* When the monitor waits for a key the screen shows the line it has, whatever was
\* typed, erased, run and printed before, at every size of the screen and the line:
\* the characters in the buffer are those before the cursor, as long as the line has
\* not left its row, nothing is behind it, and all of it is on the display.
THEOREM LineOnScreenSafe == KernelSpec => []LineOnScreen
<1> DEFINE Inv == TermInv /\ MonitorInv /\ LineInv
<1>1. KernelInit => Inv
  <2> SUFFICES ASSUME KernelInit PROVE Inv
    OBVIOUS
  <2>1. TermInv /\ MonitorInv
    BY InitTerm, InitMonitor
  <2>2. LineInv
    BY DEF KernelInit, LineInv
  <2> QED
    BY <2>1, <2>2
<1>2. Inv /\ [KernelNext]_kernelVars => Inv'
  BY KernelMaps, KernelMonitorInv, KernelLineInv
<1>3. Inv => LineOnScreen
  BY LineIsOnScreen
<1> QED
  BY <1>1, <1>2, <1>3, PTL DEF KernelSpec
=============================================================================
