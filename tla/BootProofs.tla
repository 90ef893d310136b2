----------------------------- MODULE BootProofs -----------------------------
(***************************************************************************)
(* Proofs about page tables and boot, for every table size, layout of the  *)
(* image, set of device trees and use made of the kernel after boot.       *)
(*                                                                         *)
(* The tables of the two maps are a forest in memory.  A place function    *)
(* gives each frame that holds a table its place in the forest: the map,   *)
(* the level and the pages it translates.  As a frame has one place, no    *)
(* table is shared.  The first half of the module shows what the hardware  *)
(* makes of such a forest and what the steps of map_page do to it; the     *)
(* second half follows boot through its phases.                            *)
(***************************************************************************)
EXTENDS Boot, FiniteSetTheorems, TLAPS

----
(* Forests of tables *)

TablePage == UNION {[D -> Entry] : D \in SUBSET Slots}

\* The place of a table: v is what the page numbers it translates start with.
Place == [root : {IdRoot, KernelRoot}, level : 0 .. 3, v : Nat]

\* The place of the table that entry i of a table at place q leads to.
Below(q, i) == [root |-> q.root, level |-> q.level + 1, v |-> q.v * PtrsPerTable + i]

Valid(t, i) == i \in DOMAIN pages[t] /\ pages[t][i].valid

\* The translation that a last-level entry stands for.
Meaning(root, v, e) ==
  [root |-> root, v |-> v, frame |-> e.frame,
   write |-> e.ap \in {AP_PRIV_RW, AP_PRIV_UNPRIV_RW}, execute |-> ~e.xn,
   user |-> e.ap \in {AP_PRIV_UNPRIV_RW, AP_PRIV_UNPRIV_RO}, device |-> e.attr = DEVICE]

\* Tables are pages of memory, each in one place and no two in the same.
Placed(place) ==
  /\ DOMAIN place \subseteq Ram
  /\ \A t \in DOMAIN place : place[t] \in Place /\ pages[t] \in TablePage
  /\ \A t, u \in DOMAIN place : place[t] = place[u] => t = u
  /\ \A t \in DOMAIN place : place[t].level = 0 => t = place[t].root /\ place[t].v = 0

\* Every valid entry above the last level leads to a table one level down ...
LeadsDown(place) ==
  \A t \in DOMAIN place : place[t].level < 3 =>
    \A i \in DOMAIN pages[t] : pages[t][i].valid =>
      /\ pages[t][i].frame \in DOMAIN place /\ pages[t][i].ap = 0
      /\ place[pages[t][i].frame] = Below(place[t], i)

\* ... and every table but the roots is led to.
LedTo(place) ==
  \A u \in DOMAIN place : place[u].level > 0 =>
    \E t \in DOMAIN place : \E i \in DOMAIN pages[t] :
      /\ pages[t][i].valid /\ pages[t][i].frame = u
      /\ place[u] = Below(place[t], i)

\* The valid entries of the last level are what was asked for.
LeavesAsked(place) ==
  /\ \A t \in DOMAIN place : place[t].level = 3 =>
       \A i \in DOMAIN pages[t] : pages[t][i].valid =>
         Meaning(place[t].root, place[t].v * PtrsPerTable + i, pages[t][i]) \in asked
  /\ \A a \in asked : \E t \in DOMAIN place : \E i \in DOMAIN pages[t] :
       /\ place[t].level = 3 /\ pages[t][i].valid
       /\ a = Meaning(place[t].root, place[t].v * PtrsPerTable + i, pages[t][i])

IsForest(place) == Placed(place) /\ LeadsDown(place) /\ LedTo(place) /\ LeavesAsked(place)

\* The tables of one map.
TablesOf(place, root) == {t \in DOMAIN place : place[t].root = root}

\* What the page number v starts with, at the table of some level.
Prefix(v, level) ==
  LET P == PtrsPerTable
  IN IF level = 0 THEN 0 ELSE v \div (<<P * P * P, P * P, P>>[level])

\* Where the walk of map_page is.
Walked == [root |-> call.root, level |-> call.level, v |-> Prefix(call.v, call.level)]

----
(* The phases of boot *)

BeforePool == {"entry", "sctlr", "console", "id_region"}
WithPool == {"id_root", "id_image", "id_uart"}
WithKernelMap == {"kernel_map", "kernel_uart", "tcr", "ttbr0", "ttbr1", "m", "switch", "fixup",
                  "high_console", "high_vbar", "epd0", "clear_ttbr0", "tlbi", "free_id_map",
                  "icu_init", "icu", "handlers", "run"}
WithBanks == {"banks", "fdt", "kernel_root"} \cup WithKernelMap
ImageReserved == WithBanks \ {"banks"}
BlobReserved == WithBanks \ {"banks", "fdt"}
PoolFreed == {"icu_init", "icu", "handlers", "run"}
IdMapGone == {"free_id_map"} \cup PoolFreed
IdMapDone == ({"memory"} \cup WithBanks) \ IdMapGone
KernelMapDone == WithKernelMap \ {"kernel_map", "kernel_uart"}
MapCalls == {"id_image", "id_uart", "kernel_map", "kernel_uart", "icu", "run"}

----
(* The inductive invariant *)

\* The blob ends on the last page that reserve_fdt_pages counts, and no bank's
\* bitmap goes where it is.
BlobPlaced ==
  /\ FdtPages(tree) = Pages!NumPages(tree.offset + tree.size)
  /\ MemoryReadable(tree) => \A i \in DOMAIN Banks(tree) :
       LET b == Banks(tree)[i]
       IN Pages!Run(Pages!AlignedStart(b), Pages!BitmapPages(Pages!TotalPages(b))) \cap FdtFrames(tree) = {}

DataOK ==
  /\ tree \in Trees
  /\ pc \in WithBanks => MemoryReadable(tree) /\ mmap = Banks(tree)
  /\ mmap # <<>> => MemoryReadable(tree) /\ mmap = Banks(tree)
  /\ reg_map \in {<<>>, GicRegions(tree.nodes)}

\* map_page is called in six places, and with what each asks for.
CallOK ==
  call # Null =>
    /\ call \in Call /\ call.v \in VirtualPages /\ pc \in MapCalls
    /\ call.root = IF pc \in {"id_image", "id_uart"} THEN IdRoot ELSE KernelRoot

\* Which regions are registered.
BankChunk(i) ==
  \E k \in DOMAIN mmap :
    /\ pc = "banks" => k < bank
    /\ mem_chunks[i].mem_base = Pages!AlignedStart(mmap[k])
    /\ mem_chunks[i].total_pages = Pages!TotalPages(mmap[k])
    /\ Pages!BitmapPages(mem_chunks[i].total_pages) <= mem_chunks[i].total_pages

ChunksOK ==
  /\ pc \in BeforePool \cup {"memory"} => Pages!Active = {}
  /\ pc \in WithPool => \A i \in Pages!Active :
       /\ Pages!ChunkFrames(mem_chunks[i]) = IdMapRegion
       /\ \A j \in Pages!Active : i = j
       /\ mem_chunks[i].mem_base = IdMap
  /\ pc \in WithBanks =>
       (\A i \in Pages!Active : BankChunk(i)) /\ Pages!ChunksApart /\ Pages!Bitmaps \cap Image = {}

\* What is marked used.
UsedOK ==
  /\ pc # "halted" => Pages!Bitmaps \subseteq used
  /\ pc \in ImageReserved => Image \ IdMapRegion \subseteq used /\ Image \subseteq Pages!Managed
  /\ pc \in ImageReserved \ PoolFreed => Image \subseteq used
  /\ pc \in BlobReserved /\ BlobPlaced =>
       FdtFrames(tree) \subseteq used /\ FdtFrames(tree) \subseteq Pages!Managed
  /\ pc \in BeforePool => used = {}

\* What memory holds.
PagesOK == pages \in [Ram -> TablePage \cup {Code, Blob, Bits, Junk}]

ContentsOK ==
  /\ \A f \in Image \ (IdMapRegion \cup {KernelRoot}) : pages[f] = Code
  /\ \A f \in Pages!Bitmaps : pages[f] = Bits
  /\ BlobPlaced => FdtKept
  /\ pc \in BeforePool => pages[IdRoot] = ZeroPage
  /\ pc = "id_root" => pages[IdRoot] = ZeroPage \/ IdRoot \in used

\* The blocks handed out after boot.
HeldOK ==
  /\ pc \notin {"run", "halted"} => held = {}
  /\ \A b \in held :
       /\ b.num > 0 /\ Pages!BlockFrames(b) \subseteq used
       /\ \A f \in Pages!BlockFrames(b) : pages[f] = Junk
       /\ \E i \in Pages!Active : Pages!BlockFrames(b) \subseteq Pages!ChunkFrames(mem_chunks[i])
       /\ \A c \in held : b # c => Pages!BlockFrames(b) \cap Pages!BlockFrames(c) = {}

\* Where the tables are, and that every page marked used is accounted for.
TablesOK(place) ==
  /\ IsForest(place)
  /\ KernelRoot \in DOMAIN place /\ place[KernelRoot].level = 0
  /\ call # Null => call.table \in DOMAIN place /\ place[call.table] = Walked
  /\ pc \in {"id_image", "id_uart"} \cup IdMapDone =>
       IdRoot \in DOMAIN place /\ place[IdRoot].level = 0
  /\ TablesOf(place, IdRoot) \subseteq IdMapRegion
  /\ pc \in WithPool => TablesOf(place, IdRoot) \subseteq used
  /\ pc \in BeforePool \cup IdMapGone => TablesOf(place, IdRoot) = {}
  /\ pc \notin WithKernelMap \cup {"halted"} => TablesOf(place, KernelRoot) = {KernelRoot}
  /\ pc \in WithKernelMap \ PoolFreed => TablesOf(place, KernelRoot) \cap Image = {KernelRoot}
  /\ pc \in WithKernelMap \/ ttbr1 # Null => TablesOf(place, KernelRoot) \subseteq used
  /\ pc \in {"memory"} \cup WithBanks =>
       used \cap Pages!Managed =
         (Pages!Bitmaps \cup reserved \cup (TablesOf(place, KernelRoot) \ {KernelRoot}) \cup HeldFrames)
           \cap Pages!Managed

\* The translations the maps are built for.
IdPage(f) == Translation(Request(IdRoot, f, f, 0, RW(TRUE), NORMAL))
KernelPage(f) == Translation(Request(KernelRoot, f, f, 0, RW(f \in Image), NORMAL))
UartPage(root) == Translation(Request(root, Uart, Uart, 0, RW(FALSE), DEVICE))

\* How many turns of a loop have come to their end.
Done == IF call = Null THEN n ELSE n - 1

\* The call under way is the one for page f of the loop.
CallIs(f, perms, type) ==
  call # Null => n > 0 /\ call.v = f /\ call.p = f /\ call.perms = perms /\ call.type = type

IdProgress ==
  /\ pc = "id_image" =>
       /\ ok \/ call # Null => \A j \in 0 .. (Done - 1) : IdPage(ImageStart + j) \in asked
       /\ CallIs(ImageStart + n - 1, RW(TRUE), NORMAL)
  /\ pc \in {"id_uart"} \cup IdMapDone => \A f \in Image : IdPage(f) \in asked
  /\ pc = "id_uart" =>
       /\ ok /\ Done = 1 => UartPage(IdRoot) \in asked
       /\ CallIs(Uart, RW(FALSE), DEVICE) /\ n \in 0 .. 1
  /\ pc \in IdMapDone => UartPage(IdRoot) \in asked

KernelProgress ==
  /\ pc = "kernel_map" =>
       /\ \A k \in 1 .. (bank - 1) : k \in DOMAIN mmap =>
            \A f \in Pages!Run(mmap[k].frame, Pages!NumPages(mmap[k].size)) : KernelPage(f) \in asked
       /\ (ok \/ call # Null) /\ bank \in DOMAIN mmap =>
            \A j \in 0 .. (Done - 1) : KernelPage(mmap[bank].frame + j) \in asked
       /\ call # Null =>
            /\ bank \in DOMAIN mmap
            /\ CallIs(mmap[bank].frame + n - 1, RW(mmap[bank].frame + n - 1 \in Image), NORMAL)
  /\ pc \in {"kernel_uart"} \cup KernelMapDone \/ ttbr1 # Null =>
       \A f \in RegionFramesOf(mmap) : KernelPage(f) \in asked
  /\ pc = "kernel_uart" =>
       /\ ok /\ Done = 1 => UartPage(KernelRoot) \in asked
       /\ CallIs(Uart, RW(FALSE), DEVICE) /\ n \in 0 .. 1
  /\ pc \in KernelMapDone \/ ttbr1 # Null =>
       /\ UartPage(KernelRoot) \in asked
       /\ Pages!Managed \cup Image \subseteq RegionFramesOf(mmap)
       /\ BlobPlaced => FdtFrames(tree) \subseteq RegionFramesOf(mmap)
  /\ pc \in {"icu", "run"} /\ call # Null =>
       call.v \notin Ram /\ (call.v = Uart => call.perms.read /\ Translation(call) = UartPage(KernelRoot))

\* The registers of the MMU and the pointers across the switch.
MmuOn == {"switch", "fixup", "high_console", "high_vbar", "epd0", "clear_ttbr0", "tlbi"} \cup IdMapGone

RegistersOK ==
  /\ pc \notin MmuOn \cup {"halted"} => ~mmu.m /\ kernel_base_va = Low /\ ~mmu.tlb
  /\ pc \in MmuOn => mmu.m
  /\ pc \in {"switch", "fixup", "high_console", "high_vbar", "epd0"} => ~mmu.epd0 /\ ttbr0 = IdRoot
  /\ pc \in {"tcr", "ttbr0", "ttbr1", "m"} => mmu.mair
  /\ pc \in {"ttbr0", "ttbr1", "m"} => mmu.tcr /\ ~mmu.epd0
  /\ pc \in {"ttbr1", "m"} => ttbr0 = IdRoot
  /\ pc \in {"m"} \cup MmuOn => ttbr1 = KernelRoot
  /\ ttbr0 # Null => pc \in {"ttbr1", "m", "switch", "fixup", "high_console", "high_vbar", "epd0", "clear_ttbr0"}
  /\ ttbr1 # Null => pc \in {"m", "halted"} \cup MmuOn
  /\ mmu.tlb => pc \in MmuOn \ IdMapGone
  /\ ~mmu.m => High \notin {ptr.exec, ptr.uart0, ptr.console, ptr.vbar}
  /\ mmu.m => mmu.mair /\ mmu.tcr /\ ttbr1 = KernelRoot
  /\ mmu.m /\ Low \in {ptr.exec, ptr.uart0, ptr.console, ptr.vbar} =>
       pc \in {"switch", "fixup", "high_console", "high_vbar"}
  /\ pc \in MmuOn \ {"switch"} => ptr.exec = High
  /\ pc \in MmuOn \ {"switch", "fixup"} => kernel_base_va = High
  /\ pc \in MmuOn \ {"switch", "fixup", "high_console"} => ptr.uart0 = High /\ ptr.console = High
  /\ pc \notin {"entry", "sctlr", "halted"} => ptr.vbar # Null
  /\ pc \notin {"entry", "sctlr", "console", "halted"} => Null \notin {ptr.uart0, ptr.console}

BootInv ==
  /\ TypeOK /\ DataOK /\ CallOK /\ ChunksOK /\ UsedOK /\ PagesOK /\ ContentsOK /\ HeldOK
  /\ IdProgress /\ KernelProgress /\ RegistersOK
  /\ \E place : TablesOK(place)

----
(* Arithmetic *)

\* Division with remainder.
LEMMA Quotient ==
  ASSUME NEW a \in Nat, NEW b \in Nat \ {0}
  PROVE  /\ a \div b \in Nat /\ a % b \in 0 .. (b - 1)
         /\ a = (a \div b) * b + (a % b)
<1>1. a % b \in 0 .. (b - 1) /\ a = b * (a \div b) + (a % b) /\ a \div b \in Int
  OBVIOUS
<1>2. a \div b >= 0
  OBVIOUS
<1> QED
  BY <1>1, <1>2

\* A number has one quotient and one remainder.
LEMMA SplitUnique ==
  ASSUME NEW b \in Nat \ {0}, NEW v \in Int, NEW w \in Int, NEW i \in 0 .. (b - 1), NEW j \in 0 .. (b - 1),
         v * b + i = w * b + j
  PROVE  v = w /\ i = j
<1>1. CASE v < w
  <2>1. (w - v) * b >= b
    <3>1. w - v >= 1 BY <1>1
    <3>q. QED BY <3>1
  <2>2. (w - v) * b = i - j
    OBVIOUS
  <2>q. QED
    BY <2>1, <2>2
<1>2. CASE w < v
  <2>1. (v - w) * b >= b
    <3>1. v - w >= 1 BY <1>2
    <3>q. QED BY <3>1
  <2>2. (v - w) * b = j - i
    OBVIOUS
  <2>q. QED
    BY <2>1, <2>2
<1> QED
  BY <1>1, <1>2

\* A page number at some level has one table and one slot.
LEMMA SlotUnique ==
  \A v, w \in Nat, i, j \in Slots : v * PtrsPerTable + i = w * PtrsPerTable + j => v = w /\ i = j
<1>1. PtrsPerTable \in Nat \ {0}
  BY TableAssumption
<1>q. QED
  BY <1>1, SplitUnique DEF Slots

\* Dividing twice.
LEMMA QuotientOfQuotient ==
  ASSUME NEW a \in Nat, NEW b \in Nat \ {0}, NEW c \in Nat \ {0}
  PROVE  (a \div b) \div c = a \div (b * c)
<1> DEFINE q == a \div b
           r == a % b
           s == q \div c
           t == q % c
<1>1. q \in Nat /\ r \in 0 .. (b - 1) /\ a = q * b + r
  BY Quotient
<1>2. s \in Nat /\ t \in 0 .. (c - 1) /\ q = s * c + t
  BY <1>1, Quotient
<1> DEFINE u == t * b + r
<1>3. b * c \in Nat \ {0} /\ u \in Nat
  BY <1>1, <1>2
<1>4. u < b * c
  <2>1. t * b <= (c - 1) * b
    BY <1>2
  <2>2. (c - 1) * b = b * c - b
    OBVIOUS
  <2>q. QED BY <2>1, <2>2, <1>1
<1>5. a = s * (b * c) + u
  <2>1. q * b = s * c * b + t * b
    BY <1>1, <1>2
  <2>2. s * c * b = s * (b * c)
    BY <1>2
  <2>q. QED BY <1>1, <1>2, <2>1, <2>2
<1>6. /\ a \div (b * c) \in Nat /\ a % (b * c) \in 0 .. (b * c - 1)
      /\ a = (a \div (b * c)) * (b * c) + (a % (b * c))
  BY <1>3, Quotient
<1> HIDE DEF q, r, s, t, u
<1>7. s = a \div (b * c)
  <2> DEFINE m == b * c
             x == a \div m
             y == a % m
  <2>1. m \in Nat \ {0} /\ x \in Int /\ y \in 0 .. (m - 1) /\ s \in Int /\ u \in 0 .. (m - 1)
        /\ s * m + u = x * m + y
    <3>1. m \in Nat \ {0}
      BY <1>3
    <3>2. x \in Int /\ y \in 0 .. (m - 1)
      BY <1>6
    <3>3. s \in Int /\ u \in 0 .. (m - 1)
      BY <1>2, <1>3, <1>4
    <3>4. s * m + u = x * m + y
      BY <1>5, <1>6
    <3>q. QED BY <3>1, <3>2, <3>3, <3>4
  <2> HIDE DEF m, x, y
  <2>2. s = x
    BY <2>1, SplitUnique
  <2>q. QED BY <2>2 DEF m, x
<1> QED
  BY <1>7 DEF s, q

\* The index at each level leads from one prefix of a page number to the next,
\* and from the last one to the page number.
LEMMA PrefixStep ==
  ASSUME NEW v \in VirtualPages, NEW level \in 0 .. 3
  PROVE  /\ Index(v, level) \in Slots /\ Prefix(v, level) \in Nat
         /\ Prefix(v, level) * PtrsPerTable + Index(v, level)
              = IF level = 3 THEN v ELSE Prefix(v, level + 1)
<1> DEFINE P == PtrsPerTable
           a == v \div P
           b == a \div P
           c == b \div P
<1>1. P \in Nat \ {0} /\ v \in Nat /\ v < P * P * P * P
  BY TableAssumption DEF VirtualPages
<1>2. P * P \in Nat \ {0} /\ P * P * P \in Nat \ {0}
  BY <1>1
<1>3. /\ a \in Nat /\ v % P \in 0 .. (P - 1) /\ v = a * P + (v % P)
      /\ b \in Nat /\ a % P \in 0 .. (P - 1) /\ a = b * P + (a % P)
      /\ c \in Nat /\ b % P \in 0 .. (P - 1) /\ b = c * P + (b % P)
  <2>1. a \in Nat /\ v % P \in 0 .. (P - 1) /\ v = a * P + (v % P)
    BY <1>1, Quotient
  <2>2. b \in Nat /\ a % P \in 0 .. (P - 1) /\ a = b * P + (a % P)
    BY <1>1, <2>1, Quotient
  <2>3. c \in Nat /\ b % P \in 0 .. (P - 1) /\ b = c * P + (b % P)
    BY <1>1, <2>2, Quotient
  <2>q. QED
    BY <2>1, <2>2, <2>3
<1>4. v \div (P * P) = b
  BY <1>1, QuotientOfQuotient
<1>5. v \div (P * P * P) = c
  <2>1. (v \div (P * P)) \div P = v \div (P * P * P)
    BY ONLY <1>1, <1>2, QuotientOfQuotient
  <2>q. QED
    BY <1>4, <2>1
<1>6. c < P
  <2> SUFFICES ASSUME c >= P PROVE FALSE
    BY <1>1, <1>3
  <2>1. v >= c * (P * P * P)
    <3> DEFINE Q == P * P * P
    <3>1. Q \in Nat \ {0} /\ v \div Q = c /\ c \in Nat
      BY <1>2, <1>3, <1>5
    <3> HIDE DEF Q, c
    <3>2. v % Q \in Nat /\ v = (v \div Q) * Q + (v % Q)
      BY <1>1, <3>1, Quotient
    <3>3. v >= c * Q
      BY <3>1, <3>2
    <3>q. QED
      BY <3>3 DEF Q
  <2>2. c * (P * P * P) >= P * (P * P * P)
    BY <1>2, <1>3, <1>1
  <2>3. P * (P * P * P) = P * P * P * P
    BY <1>1
  <2>q. QED
    BY <1>1, <1>2, <1>3, <2>1, <2>2, <2>3
<1> HIDE DEF P, a, b, c
<1>7. c % P = c
  <2>1. /\ c \div P \in Nat /\ c % P \in 0 .. (P - 1) /\ c = (c \div P) * P + (c % P)
    BY <1>1, <1>3, Quotient
  <2>2. 0 * P + c = (c \div P) * P + (c % P) /\ c \in 0 .. (P - 1)
    BY <1>1, <1>3, <1>6, <2>1
  <2>q. QED
    BY <1>1, <2>1, <2>2, SplitUnique
<1>8. /\ Index(v, 0) = c % P /\ Index(v, 1) = b % P /\ Index(v, 2) = a % P /\ Index(v, 3) = v % P
      /\ Prefix(v, 0) = 0 /\ Prefix(v, 1) = c /\ Prefix(v, 2) = b /\ Prefix(v, 3) = a
  <2>1. v \div 1 = v
    BY <1>1
  <2>2. Index(v, 0) = c % P /\ Prefix(v, 1) = c
    BY <1>5 DEF Index, Prefix, P
  <2>3. Index(v, 1) = b % P /\ Prefix(v, 2) = b
    BY <1>4 DEF Index, Prefix, P
  <2>4. Index(v, 2) = a % P /\ Prefix(v, 3) = a
    BY DEF Index, Prefix, P, a
  <2>5. Index(v, 3) = v % P /\ Prefix(v, 0) = 0
    BY <2>1 DEF Index, Prefix, P
  <2>q. QED
    BY <2>2, <2>3, <2>4, <2>5
<1>9. Slots = 0 .. (P - 1)
  BY DEF Slots, P
<1>14. PtrsPerTable = P
  BY DEF P
<1>10. CASE level = 0
  <2>1. Index(v, level) = c /\ Prefix(v, level) = 0 /\ Prefix(v, level + 1) = c
    BY <1>7, <1>8, <1>10
  <2>q. QED
    BY <1>1, <1>3, <1>6, <1>9, <1>14, <1>10, <2>1
<1>11. CASE level = 1
  <2>1. Index(v, level) = b % P /\ Prefix(v, level) = c /\ Prefix(v, level + 1) = b
    BY <1>8, <1>11
  <2>2. c \in Nat /\ b % P \in 0 .. (P - 1) /\ b = c * P + (b % P)
    BY <1>3
  <2>q. QED
    BY <1>9, <1>14, <1>11, <2>1, <2>2
<1>12. CASE level = 2
  <2>1. Index(v, level) = a % P /\ Prefix(v, level) = b /\ Prefix(v, level + 1) = a
    BY <1>8, <1>12
  <2>2. b \in Nat /\ a % P \in 0 .. (P - 1) /\ a = b * P + (a % P)
    BY <1>3
  <2>q. QED
    BY <1>9, <1>14, <1>12, <2>1, <2>2
<1>13. CASE level = 3
  <2>1. Index(v, level) = v % P /\ Prefix(v, level) = a
    BY <1>8, <1>13
  <2>2. a \in Nat /\ v % P \in 0 .. (P - 1) /\ v = a * P + (v % P)
    BY <1>3
  <2>q. QED
    BY <1>9, <1>14, <1>13, <2>1, <2>2
<1> QED
  BY <1>10, <1>11, <1>12, <1>13

----
(* What the hardware makes of a forest *)

\* A page with a table holds entries, and is none of the other kinds of page.
LEMMA TablePages ==
  /\ \A x \in TablePage : /\ x \notin {Code, Blob, Bits, Junk} /\ DOMAIN x \subseteq Slots
                          /\ x = [i \in DOMAIN x |-> x[i]]
                          /\ \A i \in DOMAIN x : x[i] \in Entry
  /\ \A D \in SUBSET Slots : \A x \in [D -> Entry] : x \in TablePage
  /\ ZeroPage \in TablePage /\ DOMAIN ZeroPage = {}
<1>1. \A D \in SUBSET Slots : \A x \in [D -> Entry] : x \in TablePage
  BY DEF TablePage
<1>2. ASSUME NEW x \in TablePage
      PROVE  /\ x \notin {Code, Blob, Bits, Junk} /\ DOMAIN x \subseteq Slots
             /\ x = [i \in DOMAIN x |-> x[i]]
             /\ \A i \in DOMAIN x : x[i] \in Entry
  <2>1. PICK D \in SUBSET Slots : x \in [D -> Entry]
    BY <1>2 DEF TablePage
  <2>2. {Code, Blob, Bits, Junk} \cap [D -> Entry] = {}
    BY <2>1, TableAssumption
  <2>q. QED
    BY <2>1, <2>2
<1>3. ZeroPage \in [{} -> Entry] /\ DOMAIN ZeroPage = {}
  BY DEF ZeroPage
<1>q. QED
  BY <1>1, <1>2, <1>3

Aps(k) == IF k = 0 THEN {} ELSE {0}

\* The tables of the map with root r at level k, as the walk sees them.
NodesAt(place, r, k) ==
  {[v |-> place[t].v, table |-> t, aps |-> Aps(k)] :
     t \in {u \in DOMAIN place : place[u].root = r /\ place[u].level = k}}

\* What a walk reads from a table of the forest.
LEMMA Reading ==
  ASSUME NEW place, Placed(place), NEW t \in DOMAIN place
  PROVE  /\ IsTable(t) /\ DOMAIN pages[t] \subseteq Slots
         /\ ValidSlots(t) = {i \in DOMAIN pages[t] : pages[t][i].valid}
         /\ \A i \in DOMAIN pages[t] : EntryAt(t, i) = pages[t][i] /\ pages[t][i] \in Entry
<1>1. t \in Ram /\ pages[t] \in TablePage
  BY DEF Placed
<1>2. IsTable(t)
  BY <1>1, TablePages DEF IsTable
<1>q. QED
  BY <1>1, <1>2, TablePages DEF ValidSlots, EntryAt

\* One level of the walk.
LEMMA WalkDown ==
  ASSUME NEW place, IsForest(place), NEW r, NEW k \in 0 .. 2
  PROVE  Down(NodesAt(place, r, k)) = NodesAt(place, r, k + 1)
<1> DEFINE S == NodesAt(place, r, k)
           Step(t, i) == [v |-> place[t].v * PtrsPerTable + i, table |-> pages[t][i].frame,
                          aps |-> Aps(k) \cup {pages[t][i].ap}]
<1>1. \A t \in DOMAIN place : place[t] \in Place
  BY DEF IsForest, Placed
<1>2. ASSUME NEW t \in DOMAIN place, place[t].root = r, place[t].level = k,
             NEW i \in DOMAIN pages[t], pages[t][i].valid
      PROVE  Step(t, i) \in NodesAt(place, r, k + 1)
  <2> DEFINE u == pages[t][i].frame
  <2>1. u \in DOMAIN place /\ pages[t][i].ap = 0 /\ place[u] = Below(place[t], i)
    BY <1>2 DEF IsForest, LeadsDown
  <2>2. place[u].root = r /\ place[u].level = k + 1 /\ place[u].v = place[t].v * PtrsPerTable + i
    BY <1>2, <2>1 DEF Below
  <2>3. Aps(k) \cup {pages[t][i].ap} = Aps(k + 1)
    BY <2>1 DEF Aps
  <2>q. QED
    BY <2>1, <2>2, <2>3 DEF NodesAt
<1>3. ASSUME NEW u \in DOMAIN place, place[u].root = r, place[u].level = k + 1
      PROVE  \E t \in DOMAIN place : \E i \in DOMAIN pages[t] :
               /\ place[t].root = r /\ place[t].level = k /\ pages[t][i].valid
               /\ [v |-> place[u].v, table |-> u, aps |-> Aps(k + 1)] = Step(t, i)
  <2>1. PICK t \in DOMAIN place : \E i \in DOMAIN pages[t] :
          /\ pages[t][i].valid /\ pages[t][i].frame = u
          /\ place[u] = Below(place[t], i)
    BY <1>1, <1>3 DEF IsForest, LedTo
  <2>2. PICK i \in DOMAIN pages[t] :
          /\ pages[t][i].valid /\ pages[t][i].frame = u
          /\ place[u] = Below(place[t], i)
    BY <2>1
  <2>3. place[t].root = r /\ place[t].level + 1 = k + 1 /\ place[u].v = place[t].v * PtrsPerTable + i
    BY <1>3, <2>2 DEF Below
  <2>4. place[t].level = k
    BY <1>1, <2>3 DEF Place
  <2>5. pages[t][i].ap = 0
    BY <2>2, <2>4 DEF IsForest, LeadsDown
  <2>6. Aps(k) \cup {pages[t][i].ap} = Aps(k + 1)
    BY <2>5 DEF Aps
  <2>q. QED
    BY <2>2, <2>3, <2>4, <2>6
<1>4. ASSUME NEW t \in DOMAIN place
      PROVE  /\ ValidSlots(t) = {i \in DOMAIN pages[t] : pages[t][i].valid}
             /\ \A i \in DOMAIN pages[t] : EntryAt(t, i) = pages[t][i]
  BY <1>4, Reading DEF IsForest
<1>5. ASSUME NEW x \in Down(S) PROVE x \in NodesAt(place, r, k + 1)
  <2>1. PICK s \in S : x \in {[v     |-> s.v * PtrsPerTable + i,
                               table |-> EntryAt(s.table, i).frame,
                               aps   |-> s.aps \cup {EntryAt(s.table, i).ap}] : i \in ValidSlots(s.table)}
    BY <1>5 DEF Down
  <2>2. PICK t \in DOMAIN place : /\ place[t].root = r /\ place[t].level = k
                                  /\ s = [v |-> place[t].v, table |-> t, aps |-> Aps(k)]
    BY <2>1 DEF NodesAt
  <2>3. PICK i \in ValidSlots(t) :
          x = [v |-> place[t].v * PtrsPerTable + i, table |-> EntryAt(t, i).frame,
               aps |-> Aps(k) \cup {EntryAt(t, i).ap}]
    BY <2>1, <2>2
  <2>4. i \in DOMAIN pages[t] /\ pages[t][i].valid /\ x = Step(t, i)
    BY <1>4, <2>3
  <2>q. QED
    BY <1>2, <2>2, <2>4
<1>6. ASSUME NEW x \in NodesAt(place, r, k + 1) PROVE x \in Down(S)
  <2>1. PICK u \in DOMAIN place : /\ place[u].root = r /\ place[u].level = k + 1
                                  /\ x = [v |-> place[u].v, table |-> u, aps |-> Aps(k + 1)]
    BY <1>6 DEF NodesAt
  <2>2. PICK t \in DOMAIN place : \E i \in DOMAIN pages[t] :
               /\ place[t].root = r /\ place[t].level = k /\ pages[t][i].valid
               /\ x = Step(t, i)
    BY <1>3, <2>1
  <2>3. PICK i \in DOMAIN pages[t] :
               /\ place[t].root = r /\ place[t].level = k /\ pages[t][i].valid
               /\ x = Step(t, i)
    BY <2>2
  <2> DEFINE s == [v |-> place[t].v, table |-> t, aps |-> Aps(k)]
  <2>4. s \in S
    BY <2>3 DEF NodesAt
  <2>5. i \in ValidSlots(s.table) /\ EntryAt(s.table, i) = pages[t][i]
    BY <1>4, <2>3
  <2>6. x = [v |-> s.v * PtrsPerTable + i, table |-> EntryAt(s.table, i).frame,
             aps |-> s.aps \cup {EntryAt(s.table, i).ap}]
    BY <2>3, <2>5
  <2> HIDE DEF s, S
  <2>7. x \in {[v     |-> s.v * PtrsPerTable + j,
                table |-> EntryAt(s.table, j).frame,
                aps   |-> s.aps \cup {EntryAt(s.table, j).ap}] : j \in ValidSlots(s.table)}
    BY <2>5, <2>6
  <2>q. QED
    BY <2>4, <2>7 DEF Down
<1>q. QED
  BY <1>5, <1>6

\* The translations and the tables of a map.
LEMMA ForestMaps ==
  ASSUME NEW place, IsForest(place), NEW r \in DOMAIN place, place[r].root = r, place[r].level = 0
  PROVE  Translations(r) = Given(r) /\ Tables(r) = TablesOf(place, r)
<1>1. \A t \in DOMAIN place : place[t] \in Place
  BY DEF IsForest, Placed
<1>2. Root(r) = NodesAt(place, r, 0)
  <2>1. \A t \in DOMAIN place : place[t].root = r /\ place[t].level = 0 => t = r /\ place[t].v = 0
    BY DEF IsForest, Placed
  <2>2. NodesAt(place, r, 0) = {[v |-> place[r].v, table |-> r, aps |-> Aps(0)]}
    BY <2>1 DEF NodesAt
  <2>3. place[r].v = 0 /\ Aps(0) = {}
    BY <2>1 DEF Aps
  <2>q. QED
    BY <2>2, <2>3 DEF Root
<1>3. Down(Root(r)) = NodesAt(place, r, 1)
  BY <1>2, WalkDown
<1>4. Down(Down(Root(r))) = NodesAt(place, r, 2)
  BY <1>3, WalkDown
<1>5. Leaves(r) = NodesAt(place, r, 3)
  BY <1>4, WalkDown DEF Leaves
<1>6. Tables(r) = TablesOf(place, r)
  <2>1. Tables(r) = {s.table : s \in NodesAt(place, r, 0) \cup NodesAt(place, r, 1)
                                       \cup NodesAt(place, r, 2) \cup NodesAt(place, r, 3)}
    BY <1>2, <1>3, <1>4, <1>5 DEF Tables, Leaves
  <2>2. ASSUME NEW k \in 0 .. 3
        PROVE  {s.table : s \in NodesAt(place, r, k)}
                 = {t \in DOMAIN place : place[t].root = r /\ place[t].level = k}
    <3>1. \A t \in DOMAIN place : place[t].root = r /\ place[t].level = k =>
            /\ [v |-> place[t].v, table |-> t, aps |-> Aps(k)] \in NodesAt(place, r, k)
            /\ [v |-> place[t].v, table |-> t, aps |-> Aps(k)].table = t
      BY DEF NodesAt
    <3>2. \A s \in NodesAt(place, r, k) :
            s.table \in {t \in DOMAIN place : place[t].root = r /\ place[t].level = k}
      BY DEF NodesAt
    <3>q. QED
      BY <3>1, <3>2, Zenon
  <2>3. TablesOf(place, r) = UNION {{t \in DOMAIN place : place[t].root = r /\ place[t].level = k} : k \in 0 .. 3}
    BY <1>1 DEF TablesOf, Place
  <2>4. {s.table : s \in NodesAt(place, r, 0) \cup NodesAt(place, r, 1)
                           \cup NodesAt(place, r, 2) \cup NodesAt(place, r, 3)}
          = {s.table : s \in NodesAt(place, r, 0)} \cup {s.table : s \in NodesAt(place, r, 1)}
            \cup {s.table : s \in NodesAt(place, r, 2)} \cup {s.table : s \in NodesAt(place, r, 3)}
    BY Zenon
  <2>5. 0 .. 3 = {0, 1, 2, 3}
    OBVIOUS
  <2>6. TablesOf(place, r)
          = {s.table : s \in NodesAt(place, r, 0)} \cup {s.table : s \in NodesAt(place, r, 1)}
            \cup {s.table : s \in NodesAt(place, r, 2)} \cup {s.table : s \in NodesAt(place, r, 3)}
    BY <2>2, <2>3, <2>5
  <2>q. QED
    BY <2>1, <2>4, <2>6
<1>7. ASSUME NEW x \in Translations(r) PROVE x \in Given(r)
  <2>1. PICK s \in Leaves(r) :
          x \in {LET e == EntryAt(s.table, i) IN
                 [root |-> r, v |-> s.v * PtrsPerTable + i, frame |-> e.frame,
                  write   |-> e.ap \in {AP_PRIV_RW, AP_PRIV_UNPRIV_RW} /\ s.aps \cap {2, 3} = {},
                  execute |-> ~e.xn,
                  user    |-> e.ap \in {AP_PRIV_UNPRIV_RW, AP_PRIV_UNPRIV_RO} /\ s.aps \cap {1, 3} = {},
                  device  |-> e.attr = DEVICE] : i \in ValidSlots(s.table)}
    BY <1>7 DEF Translations
  <2>2. PICK t \in DOMAIN place : /\ place[t].root = r /\ place[t].level = 3
                                  /\ s = [v |-> place[t].v, table |-> t, aps |-> Aps(3)]
    BY <1>5, <2>1 DEF NodesAt
  <2>3. s.v = place[t].v /\ s.table = t /\ s.aps = {0}
    BY <2>2 DEF Aps
  <2>4. s.aps \cap {2, 3} = {} /\ s.aps \cap {1, 3} = {}
    BY <2>3
  <2>5. PICK i \in ValidSlots(t) : x = Meaning(r, place[t].v * PtrsPerTable + i, EntryAt(t, i))
    BY <2>1, <2>3, <2>4 DEF Meaning
  <2>6. i \in DOMAIN pages[t] /\ pages[t][i].valid /\ EntryAt(t, i) = pages[t][i]
    BY <2>5, Reading DEF IsForest
  <2>7. x \in asked
    BY <2>2, <2>5, <2>6 DEF IsForest, LeavesAsked
  <2>8. x.root = r
    BY <2>5 DEF Meaning
  <2>q. QED
    BY <2>7, <2>8 DEF Given
<1>8. ASSUME NEW x \in Given(r) PROVE x \in Translations(r)
  <2>1. x \in asked /\ x.root = r
    BY <1>8 DEF Given
  <2>2. PICK t \in DOMAIN place : \E i \in DOMAIN pages[t] :
          /\ place[t].level = 3 /\ pages[t][i].valid
          /\ x = Meaning(place[t].root, place[t].v * PtrsPerTable + i, pages[t][i])
    BY <2>1 DEF IsForest, LeavesAsked
  <2>3. PICK i \in DOMAIN pages[t] :
          /\ place[t].level = 3 /\ pages[t][i].valid
          /\ x = Meaning(place[t].root, place[t].v * PtrsPerTable + i, pages[t][i])
    BY <2>2
  <2>4. place[t].root = r
    BY <2>1, <2>3 DEF Meaning
  <2> DEFINE s == [v |-> place[t].v, table |-> t, aps |-> Aps(3)]
  <2>5. s \in Leaves(r)
    BY <1>5, <2>3, <2>4 DEF NodesAt
  <2>6. i \in ValidSlots(t) /\ EntryAt(t, i) = pages[t][i]
    BY <2>3, Reading DEF IsForest
  <2>7. s.v = place[t].v /\ s.table = t /\ s.aps = {0}
    BY DEF Aps
  <2> HIDE DEF s
  <2>8. s.aps \cap {2, 3} = {} /\ s.aps \cap {1, 3} = {}
    BY <2>7
  <2>9. x = LET e == EntryAt(s.table, i) IN
            [root |-> r, v |-> s.v * PtrsPerTable + i, frame |-> e.frame,
             write   |-> e.ap \in {AP_PRIV_RW, AP_PRIV_UNPRIV_RW} /\ s.aps \cap {2, 3} = {},
             execute |-> ~e.xn,
             user    |-> e.ap \in {AP_PRIV_UNPRIV_RW, AP_PRIV_UNPRIV_RO} /\ s.aps \cap {1, 3} = {},
             device  |-> e.attr = DEVICE]
    BY <2>3, <2>4, <2>6, <2>7, <2>8 DEF Meaning
  <2>10. x \in {LET e == EntryAt(s.table, j) IN
                [root |-> r, v |-> s.v * PtrsPerTable + j, frame |-> e.frame,
                 write   |-> e.ap \in {AP_PRIV_RW, AP_PRIV_UNPRIV_RW} /\ s.aps \cap {2, 3} = {},
                 execute |-> ~e.xn,
                 user    |-> e.ap \in {AP_PRIV_UNPRIV_RW, AP_PRIV_UNPRIV_RO} /\ s.aps \cap {1, 3} = {},
                 device  |-> e.attr = DEVICE] : j \in ValidSlots(s.table)}
    BY <2>6, <2>7, <2>9
  <2>q. QED
    BY <2>5, <2>10 DEF Translations
<1>q. QED
  BY <1>6, <1>7, <1>8

----
(* What changes a forest *)

\* A forest stays while none of its tables is written.
LEMMA KeepForest ==
  ASSUME NEW place, IsForest(place), asked' = asked,
         \A t \in DOMAIN place : pages'[t] = pages[t]
  PROVE  IsForest(place)'
<1>1. Placed(place)'
  BY DEF IsForest, Placed
<1>2. LeadsDown(place)'
  BY DEF IsForest, LeadsDown
<1>3. LedTo(place)'
  BY DEF IsForest, LedTo
<1>4. LeavesAsked(place)'
  BY DEF IsForest, LeavesAsked
<1>q. QED
  BY <1>1, <1>2, <1>3, <1>4 DEF IsForest

\* Writing an entry of a table.
LEMMA Written ==
  ASSUME DOMAIN pages = Ram, NEW t \in Ram, pages[t] \in TablePage,
         NEW i \in Slots, NEW e \in Entry, pages' = WriteEntry(pages, t, i, e)
  PROVE  /\ DOMAIN pages' = Ram /\ \A u \in Ram \ {t} : pages'[u] = pages[u]
         /\ pages'[t] \in TablePage /\ DOMAIN pages'[t] = DOMAIN pages[t] \cup {i}
         /\ pages'[t][i] = e
         /\ \A j \in DOMAIN pages[t] \ {i} : pages'[t][j] = pages[t][j]
<1> DEFINE D == DOMAIN pages[t] \cup {i}
           new == [j \in D |-> IF j = i THEN e ELSE pages[t][j]]
<1>1. DOMAIN pages' = Ram /\ pages'[t] = new /\ \A u \in Ram \ {t} : pages'[u] = pages[u]
  BY DEF WriteEntry
<1>2. D \in SUBSET Slots /\ new \in [D -> Entry]
  BY TablePages
<1>3. new \in TablePage
  BY <1>2, TablePages
<1>q. QED
  BY <1>1, <1>3

\* A new table, empty, under an entry that was not valid.
LEMMA AddTable ==
  ASSUME NEW place, IsForest(place), DOMAIN pages = Ram, asked' = asked,
         NEW t \in DOMAIN place, place[t].level < 3, NEW i \in Slots, ~Valid(t, i),
         NEW u \in Ram, u \notin DOMAIN place,
         pages' = WriteEntry(page_table_init(pages, u), t, i, TableDesc(u)),
         NEW more, more = [x \in DOMAIN place \cup {u} |-> IF x = u THEN Below(place[t], i) ELSE place[x]]
  PROVE  IsForest(more)'
<1> DEFINE P == PtrsPerTable
<1>1. /\ DOMAIN place \subseteq Ram /\ t # u
      /\ \A x \in DOMAIN place : place[x] \in Place /\ pages[x] \in TablePage
      /\ DOMAIN pages[t] \subseteq Slots
  BY TablePages DEF IsForest, Placed
<1>2. /\ DOMAIN more = DOMAIN place \cup {u} /\ more[u] = Below(place[t], i)
      /\ \A x \in DOMAIN place : more[x] = place[x]
  OBVIOUS
<1>3. /\ pages'[u] = ZeroPage /\ DOMAIN pages'[u] = {}
      /\ \A x \in DOMAIN place \ {t} : pages'[x] = pages[x]
      /\ pages'[t] \in TablePage /\ DOMAIN pages'[t] = DOMAIN pages[t] \cup {i}
      /\ pages'[t][i] = TableDesc(u)
      /\ \A j \in DOMAIN pages[t] \ {i} : pages'[t][j] = pages[t][j]
  <2> DEFINE D == DOMAIN pages[t] \cup {i}
             new == [j \in D |-> IF j = i THEN TableDesc(u) ELSE pages[t][j]]
  <2>1. /\ pages'[t] = new /\ pages'[u] = ZeroPage
        /\ \A x \in Ram \ {t, u} : pages'[x] = pages[x]
    BY <1>1 DEF WriteEntry, page_table_init
  <2>2. TableDesc(u) \in Entry
    BY TableAssumption DEF TableDesc, Entry, VirtualPages, DEVICE
  <2>3. D \in SUBSET Slots /\ new \in [D -> Entry]
    BY <1>1, <2>2, TablePages
  <2>4. new \in TablePage
    BY <2>3, TablePages
  <2>q. QED
    BY <1>1, <2>1, <2>4, TablePages
<1>4. TableDesc(u).valid /\ TableDesc(u).frame = u /\ TableDesc(u).ap = 0
  BY DEF TableDesc
<1>5. P \in Nat \ {0} /\ Slots = 0 .. (P - 1)
  BY TableAssumption DEF Slots
<1>6. more[u] \in Place /\ more[u].level > 0
  BY <1>1, <1>2, <1>5 DEF Place, Below
<1>7. \A x \in DOMAIN place : place[x] # more[u]
  <2> SUFFICES ASSUME NEW x \in DOMAIN place, place[x] = more[u] PROVE FALSE
    OBVIOUS
  <2>1. PICK y \in DOMAIN place : \E j \in DOMAIN pages[y] :
          /\ pages[y][j].valid /\ pages[y][j].frame = x /\ place[x] = Below(place[y], j)
    BY <1>6 DEF IsForest, LedTo
  <2>2. PICK j \in DOMAIN pages[y] :
          /\ pages[y][j].valid /\ pages[y][j].frame = x /\ place[x] = Below(place[y], j)
    BY <2>1
  <2>3. Below(place[y], j) = Below(place[t], i) /\ j \in Slots
    BY <1>1, <1>2, <2>2, TablePages DEF IsForest, Placed
  <2>4. /\ place[y].root = place[t].root /\ place[y].level + 1 = place[t].level + 1
        /\ place[y].v * P + j = place[t].v * P + i
    BY <2>3 DEF Below
  <2>5. place[y].v = place[t].v /\ j = i
    BY <1>1, <2>3, <2>4, SlotUnique DEF Place
  <2>6. place[y].level = place[t].level
    BY <1>1, <2>4 DEF Place
  <2>7. place[y] = place[t]
    BY <1>1, <2>4, <2>5, <2>6 DEF Place
  <2>8. y = t
    BY <2>7 DEF IsForest, Placed
  <2>q. QED
    BY <2>2, <2>5, <2>8 DEF Valid
<1>8. Placed(more)'
  <2>1. DOMAIN more \subseteq Ram
    BY <1>1, <1>2
  <2>2. \A x \in DOMAIN more : more[x] \in Place /\ pages'[x] \in TablePage
    BY <1>1, <1>2, <1>3, <1>6, TablePages
  <2>3. \A x, y \in DOMAIN more : more[x] = more[y] => x = y
    BY <1>2, <1>7 DEF IsForest, Placed
  <2>4. \A x \in DOMAIN more : more[x].level = 0 => x = more[x].root /\ more[x].v = 0
    BY <1>2, <1>6 DEF IsForest, Placed
  <2>q. QED
    BY <2>1, <2>2, <2>3, <2>4 DEF Placed
<1>9. LeadsDown(more)'
  <2> SUFFICES ASSUME NEW x \in DOMAIN more, more[x].level < 3,
                      NEW j \in DOMAIN pages'[x], pages'[x][j].valid
               PROVE  /\ pages'[x][j].frame \in DOMAIN more /\ pages'[x][j].ap = 0
                      /\ more[pages'[x][j].frame] = Below(more[x], j)
    BY DEF LeadsDown
  <2>1. CASE x = u
    BY <1>3, <2>1
  <2>2. CASE x = t /\ j = i
    BY <1>1, <1>2, <1>3, <1>4, <2>2
  <2>3. CASE x # u /\ ~(x = t /\ j = i)
    <3>1. x \in DOMAIN place /\ j \in DOMAIN pages[x] /\ pages'[x][j] = pages[x][j]
      BY <1>2, <1>3, <2>3
    <3>2. /\ pages[x][j].frame \in DOMAIN place /\ pages[x][j].ap = 0
          /\ place[pages[x][j].frame] = Below(place[x], j)
      BY <1>2, <3>1 DEF IsForest, LeadsDown
    <3>q. QED
      BY <1>2, <3>1, <3>2
  <2>q. QED
    BY <2>1, <2>2, <2>3
<1>10. LedTo(more)'
  <2> SUFFICES ASSUME NEW x \in DOMAIN more, more[x].level > 0
               PROVE  \E y \in DOMAIN more : \E j \in DOMAIN pages'[y] :
                        /\ pages'[y][j].valid /\ pages'[y][j].frame = x
                        /\ more[x] = Below(more[y], j)
    BY DEF LedTo
  <2>1. CASE x = u
    <3>1. t \in DOMAIN more /\ i \in DOMAIN pages'[t] /\ more[t] = place[t]
      BY <1>2, <1>3
    <3>q. QED
      BY <1>2, <1>3, <1>4, <2>1, <3>1
  <2>2. CASE x # u
    <3>1. x \in DOMAIN place /\ more[x] = place[x]
      BY <1>2, <2>2
    <3>2. PICK y \in DOMAIN place : \E j \in DOMAIN pages[y] :
            /\ pages[y][j].valid /\ pages[y][j].frame = x /\ place[x] = Below(place[y], j)
      BY <3>1 DEF IsForest, LedTo
    <3>3. PICK j \in DOMAIN pages[y] :
            /\ pages[y][j].valid /\ pages[y][j].frame = x /\ place[x] = Below(place[y], j)
      BY <3>2
    <3>4. ~(y = t /\ j = i)
      BY <3>3 DEF Valid
    <3>5. y \in DOMAIN more /\ j \in DOMAIN pages'[y] /\ pages'[y][j] = pages[y][j] /\ more[y] = place[y]
      BY <1>2, <1>3, <3>4
    <3>q. QED
      BY <3>1, <3>3, <3>5
  <2>q. QED
    BY <2>1, <2>2
<1>11. \A x \in DOMAIN place : place[x].level = 3 => pages'[x] = pages[x]
  BY <1>3
<1>12. LeavesAsked(more)'
  <2>1. ASSUME NEW x \in DOMAIN more, more[x].level = 3, NEW j \in DOMAIN pages'[x], pages'[x][j].valid
        PROVE  Meaning(more[x].root, more[x].v * P + j, pages'[x][j]) \in asked'
    <3>1. x # u
      BY <1>3, <2>1
    <3>2. x \in DOMAIN place /\ more[x] = place[x] /\ pages'[x] = pages[x]
      BY <1>2, <1>11, <2>1, <3>1
    <3>q. QED
      BY <2>1, <3>2 DEF IsForest, LeavesAsked
  <2>2. ASSUME NEW a \in asked'
        PROVE  \E x \in DOMAIN more : \E j \in DOMAIN pages'[x] :
                 /\ more[x].level = 3 /\ pages'[x][j].valid
                 /\ a = Meaning(more[x].root, more[x].v * P + j, pages'[x][j])
    <3>1. PICK x \in DOMAIN place : \E j \in DOMAIN pages[x] :
            /\ place[x].level = 3 /\ pages[x][j].valid
            /\ a = Meaning(place[x].root, place[x].v * P + j, pages[x][j])
      BY <2>2 DEF IsForest, LeavesAsked
    <3>2. x \in DOMAIN more /\ more[x] = place[x] /\ pages'[x] = pages[x]
      BY <1>2, <1>11, <3>1
    <3>q. QED
      BY <3>1, <3>2
  <2>q. QED
    BY <2>1, <2>2 DEF LeavesAsked
<1>q. QED
  BY <1>8, <1>9, <1>10, <1>12 DEF IsForest

\* A zero page becomes the root of the identity map.
LEMMA AddRoot ==
  ASSUME NEW place, IsForest(place), pages' = pages, asked' = asked,
         IdRoot \in Ram, IdRoot \notin DOMAIN place, pages[IdRoot] = ZeroPage,
         NEW more, more = [x \in DOMAIN place \cup {IdRoot} |->
                             IF x = IdRoot THEN [root |-> IdRoot, level |-> 0, v |-> 0] ELSE place[x]]
  PROVE  IsForest(more)'
<1>1. /\ DOMAIN more = DOMAIN place \cup {IdRoot}
      /\ more[IdRoot] = [root |-> IdRoot, level |-> 0, v |-> 0]
      /\ \A x \in DOMAIN place : more[x] = place[x]
  OBVIOUS
<1>2. ZeroPage \in TablePage /\ DOMAIN pages[IdRoot] = {}
  BY TablePages DEF ZeroPage
<1>3. more[IdRoot] \in Place /\ more[IdRoot].level = 0 /\ more[IdRoot].v = 0 /\ more[IdRoot].root = IdRoot
  BY <1>1 DEF Place
<1>4. \A x \in DOMAIN place : place[x] # more[IdRoot]
  BY <1>3 DEF IsForest, Placed
<1>5. Placed(more)'
  <2>1. \A x \in DOMAIN more : more[x] \in Place /\ pages[x] \in TablePage
    BY <1>1, <1>2, <1>3 DEF IsForest, Placed
  <2>2. \A x, y \in DOMAIN more : more[x] = more[y] => x = y
    BY <1>1, <1>4 DEF IsForest, Placed
  <2>3. \A x \in DOMAIN more : more[x].level = 0 => x = more[x].root /\ more[x].v = 0
    BY <1>1, <1>3 DEF IsForest, Placed
  <2>q. QED
    BY <1>1, <2>1, <2>2, <2>3 DEF IsForest, Placed
<1>6. LeadsDown(more)'
  BY <1>1, <1>2 DEF IsForest, LeadsDown
<1>7. LedTo(more)'
  <2>1. ASSUME NEW x \in DOMAIN more, more[x].level > 0
        PROVE  \E y \in DOMAIN more : \E j \in DOMAIN pages[y] :
                 /\ pages[y][j].valid /\ pages[y][j].frame = x
                 /\ more[x] = Below(more[y], j)
    <3>1. x \in DOMAIN place /\ more[x] = place[x]
      BY <1>1, <1>3, <2>1
    <3>q. QED
      BY <1>1, <2>1, <3>1 DEF IsForest, LedTo
  <2>q. QED
    BY ONLY <2>1, pages' = pages DEF LedTo
<1>8. LeavesAsked(more)'
  <2>1. ASSUME NEW x \in DOMAIN more, more[x].level = 3, NEW j \in DOMAIN pages[x], pages[x][j].valid
        PROVE  Meaning(more[x].root, more[x].v * PtrsPerTable + j, pages[x][j]) \in asked
    BY <1>1, <1>2, <2>1 DEF IsForest, LeavesAsked
  <2>2. ASSUME NEW a \in asked
        PROVE  \E x \in DOMAIN more : \E j \in DOMAIN pages[x] :
                 /\ more[x].level = 3 /\ pages[x][j].valid
                 /\ a = Meaning(more[x].root, more[x].v * PtrsPerTable + j, pages[x][j])
    BY <1>1 DEF IsForest, LeavesAsked
  <2>q. QED
    BY <2>1, <2>2 DEF LeavesAsked
<1>q. QED
  BY <1>5, <1>6, <1>7, <1>8 DEF IsForest

\* The identity map is given up: what is left is the kernel map.
LEMMA DropMap ==
  ASSUME NEW place, IsForest(place), pages' = pages, asked' = {a \in asked : a.root # IdRoot},
         IdRoot # KernelRoot,
         NEW left, left = [x \in TablesOf(place, KernelRoot) |-> place[x]]
  PROVE  IsForest(left)'
<1>1. /\ DOMAIN left = {x \in DOMAIN place : place[x].root = KernelRoot}
      /\ \A x \in DOMAIN left : left[x] = place[x]
  BY DEF TablesOf
<1>2. Placed(left)'
  BY <1>1 DEF IsForest, Placed
<1>3. LeadsDown(left)'
  <2> SUFFICES ASSUME NEW x \in DOMAIN left, left[x].level < 3, NEW j \in DOMAIN pages[x], pages[x][j].valid
               PROVE  /\ pages[x][j].frame \in DOMAIN left /\ pages[x][j].ap = 0
                      /\ left[pages[x][j].frame] = Below(left[x], j)
    BY DEF LeadsDown
  <2>1. /\ pages[x][j].frame \in DOMAIN place /\ pages[x][j].ap = 0
        /\ place[pages[x][j].frame] = Below(place[x], j)
    BY <1>1 DEF IsForest, LeadsDown
  <2>2. place[pages[x][j].frame].root = KernelRoot
    BY <1>1, <2>1 DEF Below
  <2>q. QED
    BY <1>1, <2>1, <2>2
<1>4. LedTo(left)'
  <2> SUFFICES ASSUME NEW x \in DOMAIN left, left[x].level > 0
               PROVE  \E y \in DOMAIN left : \E j \in DOMAIN pages[y] :
                        /\ pages[y][j].valid /\ pages[y][j].frame = x
                        /\ left[x] = Below(left[y], j)
    BY DEF LedTo
  <2>1. PICK y \in DOMAIN place : \E j \in DOMAIN pages[y] :
          /\ pages[y][j].valid /\ pages[y][j].frame = x /\ place[x] = Below(place[y], j)
    BY <1>1 DEF IsForest, LedTo
  <2>2. place[y].root = KernelRoot
    BY <1>1, <2>1 DEF Below
  <2>q. QED
    BY <1>1, <2>1, <2>2
<1>5. LeavesAsked(left)'
  <2>1. ASSUME NEW x \in DOMAIN left, left[x].level = 3, NEW j \in DOMAIN pages[x], pages[x][j].valid
        PROVE  Meaning(left[x].root, left[x].v * PtrsPerTable + j, pages[x][j]) \in asked'
    <3>1. Meaning(place[x].root, place[x].v * PtrsPerTable + j, pages[x][j]) \in asked
      BY <1>1, <2>1 DEF IsForest, LeavesAsked
    <3>2. Meaning(place[x].root, place[x].v * PtrsPerTable + j, pages[x][j]).root = KernelRoot
      BY <1>1 DEF Meaning
    <3>q. QED
      BY <1>1, <3>1, <3>2
  <2>2. ASSUME NEW a \in asked'
        PROVE  \E x \in DOMAIN left : \E j \in DOMAIN pages[x] :
                 /\ left[x].level = 3 /\ pages[x][j].valid
                 /\ a = Meaning(left[x].root, left[x].v * PtrsPerTable + j, pages[x][j])
    <3>1. a \in asked /\ a.root # IdRoot
      BY <2>2
    <3>2. PICK x \in DOMAIN place : \E j \in DOMAIN pages[x] :
            /\ place[x].level = 3 /\ pages[x][j].valid
            /\ a = Meaning(place[x].root, place[x].v * PtrsPerTable + j, pages[x][j])
      BY <3>1 DEF IsForest, LeavesAsked
    <3>3. a.root = place[x].root /\ place[x] \in Place
      BY <3>2 DEF Meaning, IsForest, Placed
    <3>4. x \in DOMAIN left
      BY <1>1, <3>1, <3>3 DEF Place
    <3>q. QED
      BY <1>1, <3>2, <3>4
  <2>q. QED
    BY <2>1, <2>2 DEF LeavesAsked
<1>q. QED
  BY <1>2, <1>3, <1>4, <1>5 DEF IsForest

\* A root with no table below it is cleared.
LEMMA ClearRoot ==
  ASSUME NEW place, IsForest(place), asked' = asked, DOMAIN pages = Ram,
         KernelRoot \in DOMAIN place, place[KernelRoot].level = 0,
         TablesOf(place, KernelRoot) = {KernelRoot}, pages' = page_table_init(pages, KernelRoot)
  PROVE  IsForest(place)'
<1>1. DOMAIN place \subseteq Ram /\ \A x \in DOMAIN place : place[x] \in Place
  BY DEF IsForest, Placed
<1>2. /\ pages'[KernelRoot] = ZeroPage /\ DOMAIN pages'[KernelRoot] = {}
      /\ \A x \in DOMAIN place \ {KernelRoot} : pages'[x] = pages[x]
      /\ ZeroPage \in TablePage
  BY <1>1, TablePages DEF page_table_init, ZeroPage
<1>3. \A i \in DOMAIN pages[KernelRoot] : ~pages[KernelRoot][i].valid
  <2> SUFFICES ASSUME NEW i \in DOMAIN pages[KernelRoot], pages[KernelRoot][i].valid PROVE FALSE
    OBVIOUS
  <2> DEFINE u == pages[KernelRoot][i].frame
  <2>1. u \in DOMAIN place /\ place[u] = Below(place[KernelRoot], i)
    BY DEF IsForest, LeadsDown
  <2>2. place[KernelRoot].root = KernelRoot
    BY DEF TablesOf
  <2>3. place[u].root = KernelRoot /\ place[u].level = 1
    BY <2>1, <2>2 DEF Below
  <2>4. u = KernelRoot
    BY <2>1, <2>3 DEF TablesOf
  <2>q. QED
    BY <2>3, <2>4
<1>4. Placed(place)'
  BY <1>2 DEF IsForest, Placed
<1>5. LeadsDown(place)'
  <2> SUFFICES ASSUME NEW x \in DOMAIN place, place[x].level < 3, NEW j \in DOMAIN pages'[x], pages'[x][j].valid
               PROVE  /\ pages'[x][j].frame \in DOMAIN place /\ pages'[x][j].ap = 0
                      /\ place[pages'[x][j].frame] = Below(place[x], j)
    BY DEF LeadsDown
  <2>1. x # KernelRoot /\ pages'[x] = pages[x]
    BY <1>2
  <2>q. QED
    BY <2>1 DEF IsForest, LeadsDown
<1>6. LedTo(place)'
  <2> SUFFICES ASSUME NEW x \in DOMAIN place, place[x].level > 0
               PROVE  \E y \in DOMAIN place : \E j \in DOMAIN pages'[y] :
                        /\ pages'[y][j].valid /\ pages'[y][j].frame = x
                        /\ place[x] = Below(place[y], j)
    BY DEF LedTo
  <2>1. PICK y \in DOMAIN place : \E j \in DOMAIN pages[y] :
          /\ pages[y][j].valid /\ pages[y][j].frame = x /\ place[x] = Below(place[y], j)
    BY DEF IsForest, LedTo
  <2>2. pages'[y] = pages[y]
    BY <1>2, <1>3, <2>1
  <2>q. QED
    BY <2>1, <2>2
<1>7. \A x \in DOMAIN place : place[x].level = 3 => pages'[x] = pages[x]
  BY <1>2
<1>8. LeavesAsked(place)'
  <2>1. ASSUME NEW x \in DOMAIN place, place[x].level = 3, NEW j \in DOMAIN pages'[x], pages'[x][j].valid
        PROVE  Meaning(place[x].root, place[x].v * PtrsPerTable + j, pages'[x][j]) \in asked
    BY <1>7, <2>1 DEF IsForest, LeavesAsked
  <2>2. ASSUME NEW a \in asked
        PROVE  \E x \in DOMAIN place : \E j \in DOMAIN pages'[x] :
                 /\ place[x].level = 3 /\ pages'[x][j].valid
                 /\ a = Meaning(place[x].root, place[x].v * PtrsPerTable + j, pages'[x][j])
    <3>1. PICK x \in DOMAIN place : \E j \in DOMAIN pages[x] :
            /\ place[x].level = 3 /\ pages[x][j].valid
            /\ a = Meaning(place[x].root, place[x].v * PtrsPerTable + j, pages[x][j])
      BY DEF IsForest, LeavesAsked
    <3>q. QED
      BY <1>7, <3>1
  <2>q. QED
    BY <2>1, <2>2 DEF LeavesAsked
<1>q. QED
  BY <1>4, <1>5, <1>6, <1>8 DEF IsForest

\* A last-level entry is written: of what was asked for, only the page it
\* translates changes.
LEMMA LeafWritten ==
  ASSUME NEW place, IsForest(place), DOMAIN pages = Ram,
         NEW t \in DOMAIN place, place[t].level = 3, NEW i \in Slots, NEW e \in Entry,
         pages' = WriteEntry(pages, t, i, e),
         NEW root, root = place[t].root, NEW v, v = place[t].v * PtrsPerTable + i,
         asked' = {a \in asked : <<a.root, a.v>> # <<root, v>>}
                  \cup (IF e.valid THEN {Meaning(root, v, e)} ELSE {})
  PROVE  IsForest(place)'
<1> DEFINE P == PtrsPerTable
<1>1. /\ t \in Ram /\ \A x \in DOMAIN place : x \in Ram /\ place[x] \in Place /\ pages[x] \in TablePage
      /\ \A x \in DOMAIN place : DOMAIN pages[x] \subseteq Slots
  BY TablePages DEF IsForest, Placed
<1>2. /\ \A u \in Ram \ {t} : pages'[u] = pages[u]
      /\ pages'[t] \in TablePage /\ DOMAIN pages'[t] = DOMAIN pages[t] \cup {i}
      /\ pages'[t][i] = e
      /\ \A j \in DOMAIN pages[t] \ {i} : pages'[t][j] = pages[t][j]
  BY <1>1, Written
<1>3. Placed(place)'
  BY <1>1, <1>2 DEF IsForest, Placed
<1>4. \A x \in DOMAIN place : place[x].level < 3 => pages'[x] = pages[x]
  BY <1>1, <1>2
<1>5. LeadsDown(place)'
  BY <1>4 DEF IsForest, LeadsDown
<1>6. LedTo(place)'
  <2> SUFFICES ASSUME NEW x \in DOMAIN place, place[x].level > 0
               PROVE  \E y \in DOMAIN place : \E j \in DOMAIN pages'[y] :
                        /\ pages'[y][j].valid /\ pages'[y][j].frame = x
                        /\ place[x] = Below(place[y], j)
    BY DEF LedTo
  <2>1. PICK y \in DOMAIN place : \E j \in DOMAIN pages[y] :
          /\ pages[y][j].valid /\ pages[y][j].frame = x /\ place[x] = Below(place[y], j)
    BY DEF IsForest, LedTo
  <2>2. place[x].level = place[y].level + 1
    BY <2>1 DEF Below
  <2>3. place[y].level < 3
    BY <1>1, <2>2 DEF Place
  <2>4. pages'[y] = pages[y]
    BY <1>4, <2>3
  <2>q. QED
    BY <2>1, <2>4
<1>7. ASSUME NEW x \in DOMAIN place, place[x].level = 3, NEW j \in DOMAIN pages[x], ~(x = t /\ j = i)
      PROVE  <<place[x].root, place[x].v * P + j>> # <<root, v>>
  <2> SUFFICES ASSUME place[x].root = root, place[x].v * P + j = v PROVE FALSE
    OBVIOUS
  <2>1. place[x].v = place[t].v /\ j = i
    BY <1>1, SlotUnique DEF Place
  <2>2. place[x] = place[t]
    BY <1>1, <1>7, <2>1 DEF Place
  <2>q. QED
    BY <1>7, <2>1, <2>2 DEF IsForest, Placed
<1>8. ASSUME NEW x \in DOMAIN place, place[x].level = 3, NEW j \in DOMAIN pages'[x], ~(x = t /\ j = i)
      PROVE  j \in DOMAIN pages[x] /\ pages'[x][j] = pages[x][j]
  BY <1>1, <1>2, <1>8
<1>9. LeavesAsked(place)'
  <2>1. ASSUME NEW x \in DOMAIN place, place[x].level = 3, NEW j \in DOMAIN pages'[x], pages'[x][j].valid
        PROVE  Meaning(place[x].root, place[x].v * P + j, pages'[x][j]) \in asked'
    <3>1. CASE x = t /\ j = i
      BY <1>2, <2>1, <3>1
    <3>2. CASE ~(x = t /\ j = i)
      <4> DEFINE a == Meaning(place[x].root, place[x].v * P + j, pages[x][j])
      <4>1. j \in DOMAIN pages[x] /\ pages'[x][j] = pages[x][j]
        BY <1>8, <2>1, <3>2
      <4>2. a \in asked
        BY <2>1, <4>1 DEF IsForest, LeavesAsked
      <4>3. a.root = place[x].root /\ a.v = place[x].v * P + j
        BY DEF Meaning
      <4>4. <<a.root, a.v>> # <<root, v>>
        BY <1>7, <2>1, <3>2, <4>1, <4>3
      <4> HIDE DEF a
      <4>5. a \in asked'
        BY <4>2, <4>4
      <4>q. QED
        BY <4>1, <4>5 DEF a
    <3>q. QED
      BY <3>1, <3>2
  <2>2. ASSUME NEW a \in asked'
        PROVE  \E x \in DOMAIN place : \E j \in DOMAIN pages'[x] :
                 /\ place[x].level = 3 /\ pages'[x][j].valid
                 /\ a = Meaning(place[x].root, place[x].v * P + j, pages'[x][j])
    <3>1. CASE a \in asked /\ <<a.root, a.v>> # <<root, v>>
      <4>1. PICK x \in DOMAIN place : \E j \in DOMAIN pages[x] :
              /\ place[x].level = 3 /\ pages[x][j].valid
              /\ a = Meaning(place[x].root, place[x].v * P + j, pages[x][j])
        BY <3>1 DEF IsForest, LeavesAsked
      <4>2. PICK j \in DOMAIN pages[x] :
              /\ place[x].level = 3 /\ pages[x][j].valid
              /\ a = Meaning(place[x].root, place[x].v * P + j, pages[x][j])
        BY <4>1
      <4>3. a.root = place[x].root /\ a.v = place[x].v * P + j
        BY <4>2 DEF Meaning
      <4>4. ~(x = t /\ j = i)
        BY <3>1, <4>3
      <4>5. j \in DOMAIN pages'[x] /\ pages'[x][j] = pages[x][j]
        BY <1>1, <1>2, <4>4
      <4>q. QED
        BY <4>2, <4>5
    <3>2. CASE e.valid /\ a = Meaning(root, v, e)
      <4>1. i \in DOMAIN pages'[t] /\ pages'[t][i] = e
        BY <1>2
      <4>q. QED
        BY <3>2, <4>1
    <3>q. QED
      BY <2>2, <3>1, <3>2
  <2>q. QED
    BY <2>1, <2>2 DEF LeavesAsked
<1>q. QED
  BY <1>3, <1>5, <1>6, <1>9 DEF IsForest

----
(* The page allocator *)

\* What is known of a region that is added.
IsRegion(r) == r.frame \in Nat /\ r.offset \in 0 .. (PageSize - 1) /\ r.size \in Nat

\* The number of pages of a number of bytes.
LEMMA NumPagesType ==
  \A b \in Nat : Pages!NumPages(b) \in Nat /\ Pages!NumPages(b) * PageSize >= b
<1> TAKE b \in Nat
<1>1. PageSize \in Nat \ {0} /\ b + PageSize - 1 \in Nat
  BY LayoutAssumption
<1> DEFINE a == b + PageSize - 1
           q == a \div PageSize
<1>2. q \in Nat /\ a % PageSize \in 0 .. (PageSize - 1) /\ a = q * PageSize + (a % PageSize)
  BY <1>1, Quotient
<1>3. q * PageSize >= b
  BY <1>1, <1>2
<1>q. QED
  BY <1>2, <1>3 DEF Pages!NumPages

\* The number of pages of a bitmap: at most one for each page, and no page but
\* for an empty region.
LEMMA BitmapPagesType ==
  \A k \in Nat : Pages!BitmapPages(k) \in Nat /\ (k > 0 => Pages!BitmapPages(k) <= k)
<1> TAKE k \in Nat
<1>1. PageSize \in Nat \ {0} /\ ByteBits \in Nat \ {0}
  BY LayoutAssumption
<1>2. ASSUME NEW x \in Nat \ {0}, NEW d \in Nat \ {0}
      PROVE  (x + d - 1) \div d \in Nat \ {0} /\ (x + d - 1) \div d <= x
  <2> DEFINE a == x + d - 1
             q == a \div d
  <2>1. a \in Nat
    BY <1>2
  <2>2. q \in Nat /\ a % d \in 0 .. (d - 1) /\ a = q * d + (a % d)
    BY <2>1, Quotient
  <2>3. q # 0
    <3> SUFFICES ASSUME q = 0 PROVE FALSE
      OBVIOUS
    <3>1. q * d = 0
      BY <1>2
    <3>q. QED
      BY <2>2, <3>1, <1>2
  <2>4. q <= x
    <3> SUFFICES ASSUME q >= x + 1 PROVE FALSE
      BY <1>2, <2>2
    <3>1. q * d >= (x + 1) * d
      BY <1>2, <2>2
    <3>2. (x + 1) * d = x * d + d /\ x * d >= x
      BY <1>2
    <3> HIDE DEF q
    <3>q. QED
      BY <1>2, <2>2, <3>1, <3>2
  <2>q. QED
    BY <2>2, <2>3, <2>4
<1> DEFINE q == (k + ByteBits - 1) \div ByteBits
<1>3. CASE k = 0
  <2>1. k + ByteBits - 1 \in Nat
    BY <1>1
  <2>2. q \in Nat
    BY <1>1, <2>1, Quotient
  <2>3. Pages!NumPages(q) \in Nat
    BY <2>2, NumPagesType
  <2>q. QED
    BY <1>3, <2>3 DEF Pages!BitmapPages
<1>4. CASE k > 0
  <2>1. q \in Nat \ {0} /\ q <= k
    BY <1>1, <1>2, <1>4
  <2> HIDE DEF q
  <2>2. Pages!NumPages(q) \in Nat \ {0} /\ Pages!NumPages(q) <= q
    BY <1>1, <1>2, <2>1 DEF Pages!NumPages
  <2>3. Pages!BitmapPages(k) = Pages!NumPages(q)
    BY DEF Pages!BitmapPages, q
  <2>q. QED
    BY <2>1, <2>2, <2>3
<1>q. QED
  BY <1>3, <1>4

\* A region starts at a page, and its pages are among those it touches.
LEMMA Geometry ==
  ASSUME NEW r, IsRegion(r)
  PROVE  /\ Pages!AlignmentShift(r) \in Nat
         /\ Pages!AlignedStart(r) \in Nat /\ Pages!TotalPages(r) \in Nat
         /\ Pages!BitmapPages(Pages!TotalPages(r)) \in Nat
         /\ Pages!NumPages(r.size) \in Nat
         /\ Pages!RegionFrames(r) \subseteq Pages!Run(r.frame, Pages!NumPages(r.size))
<1> DEFINE shift == Pages!AlignmentShift(r)
           total == Pages!TotalPages(r)
           num == Pages!NumPages(r.size)
<1>1. /\ PageSize \in Nat \ {0} /\ r.frame \in Nat /\ r.size \in Nat
      /\ r.offset \in Nat /\ r.offset < PageSize
  BY LayoutAssumption DEF IsRegion
<1>2. shift \in Nat /\ shift < PageSize + 1 /\ (r.offset # 0 => shift < PageSize)
  BY <1>1 DEF Pages!AlignmentShift
<1>3. total \in Nat /\ (total > 0 => total * PageSize + shift <= r.size)
  <2>1. CASE shift >= r.size
    BY <2>1 DEF Pages!TotalPages
  <2>2. CASE shift < r.size
    <3> DEFINE a == r.size - shift
    <3>1. a \in Nat /\ total = a \div PageSize
      BY <1>1, <1>2, <2>2 DEF Pages!TotalPages
    <3> HIDE DEF total, shift
    <3>2. total \in Nat /\ a % PageSize \in 0 .. (PageSize - 1) /\ a = total * PageSize + (a % PageSize)
      BY <1>1, <3>1, Quotient
    <3>q. QED
      BY <1>1, <1>2, <3>2
  <2>q. QED
    BY <1>1, <1>2, <2>1, <2>2
<1>4. num \in Nat /\ num * PageSize >= r.size
  BY <1>1, NumPagesType
<1>5. Pages!AlignedStart(r) \in Nat
  BY <1>1 DEF Pages!AlignedStart
<1>6. ASSUME total > 0
      PROVE  Pages!AlignedStart(r) + total <= r.frame + num
  <2>1. CASE r.offset = 0
    <3>1. shift = 0 /\ Pages!AlignedStart(r) = r.frame
      BY <2>1 DEF Pages!AlignmentShift, Pages!AlignedStart
    <3>2. total <= num
      <4> HIDE DEF total, num, shift
      <4> SUFFICES ASSUME num + 1 <= total PROVE FALSE
        BY <1>3, <1>4
      <4>1. (num + 1) * PageSize <= total * PageSize /\ (num + 1) * PageSize = num * PageSize + PageSize
        BY <1>1, <1>3, <1>4
      <4>2. total * PageSize \in Int /\ num * PageSize \in Int
        BY <1>1, <1>3, <1>4
      <4>q. QED
        BY <1>1, <1>3, <1>4, <1>6, <3>1, <4>1, <4>2
    <3>q. QED
      BY <1>1, <1>3, <1>4, <3>1, <3>2
  <2>2. CASE r.offset # 0
    <3>1. shift > 0 /\ Pages!AlignedStart(r) = r.frame + 1
      BY <1>1, <2>2 DEF Pages!AlignmentShift, Pages!AlignedStart
    <3>2. total + 1 <= num
      <4> HIDE DEF total, num, shift
      <4> SUFFICES ASSUME num <= total PROVE FALSE
        BY <1>3, <1>4
      <4>1. num * PageSize <= total * PageSize
        BY <1>1, <1>3, <1>4
      <4>2. total * PageSize \in Int /\ num * PageSize \in Int
        BY <1>1, <1>3, <1>4
      <4>q. QED
        BY <1>1, <1>2, <1>3, <1>4, <1>6, <3>1, <4>1, <4>2
    <3>q. QED
      BY <1>1, <1>3, <1>4, <3>1, <3>2
  <2>q. QED
    BY <2>1, <2>2
<1>7. r.frame <= Pages!AlignedStart(r)
  BY <1>1 DEF Pages!AlignedStart
<1> HIDE DEF total, num, shift
<1>8. Pages!Run(Pages!AlignedStart(r), total) \subseteq Pages!Run(r.frame, num)
  BY <1>1, <1>3, <1>4, <1>5, <1>6, <1>7 DEF Pages!Run
<1>9. Pages!BitmapPages(total) \in Nat
  BY <1>3, BitmapPagesType
<1>q. QED
  BY <1>2, <1>3, <1>4, <1>5, <1>8, <1>9 DEF Pages!RegionFrames, total, num, shift

\* The fields of a slot.
LEMMA SlotType ==
  ASSUME Pages!TypeOK, NEW i \in Pages!Slots
  PROVE  /\ mem_chunks[i].mem_base \in Nat /\ mem_chunks[i].total_pages \in Nat
         /\ mem_chunks[i].bitmap \in Nat /\ mem_chunks[i].initialized \in BOOLEAN
         /\ Pages!BitmapPages(mem_chunks[i].total_pages) \in Nat
  BY BitmapPagesType DEF Pages!TypeOK, Pages!Chunk

\* What is managed depends on three fields of the slots.
LEMMA SameGeometry ==
  ASSUME \A i \in Pages!Slots : /\ mem_chunks'[i].initialized = mem_chunks[i].initialized
                                /\ mem_chunks'[i].mem_base = mem_chunks[i].mem_base
                                /\ mem_chunks'[i].total_pages = mem_chunks[i].total_pages
  PROVE  /\ Pages!Active' = Pages!Active /\ Pages!Managed' = Pages!Managed
         /\ Pages!Bitmaps' = Pages!Bitmaps
         /\ \A i \in Pages!Slots : Pages!ChunkFrames(mem_chunks'[i]) = Pages!ChunkFrames(mem_chunks[i])
<1>1. Pages!Active' = Pages!Active
  BY DEF Pages!Active
<1>2. \A i \in Pages!Slots :
        /\ Pages!ChunkFrames(mem_chunks'[i]) = Pages!ChunkFrames(mem_chunks[i])
        /\ Pages!BitmapFrames(mem_chunks'[i]) = Pages!BitmapFrames(mem_chunks[i])
  BY DEF Pages!ChunkFrames, Pages!BitmapFrames
<1>3. \A i \in Pages!Active : i \in Pages!Slots
  BY DEF Pages!Active
<1>4. Pages!Managed' = Pages!Managed
  BY <1>1, <1>2, <1>3 DEF Pages!Managed
<1>5. Pages!Bitmaps' = Pages!Bitmaps
  BY <1>1, <1>2, <1>3 DEF Pages!Bitmaps
<1>q. QED
  BY <1>1, <1>2, <1>4, <1>5

\* The managed pages are those of the chunks.
LEMMA Members ==
  /\ \A f : f \in Pages!Managed <=> \E i \in Pages!Active : f \in Pages!ChunkFrames(mem_chunks[i])
  /\ \A f : f \in Pages!Bitmaps <=> \E i \in Pages!Active : f \in Pages!BitmapFrames(mem_chunks[i])
  /\ \A i \in Pages!Active : i \in Pages!Slots /\ mem_chunks[i].initialized
  BY DEF Pages!Managed, Pages!Bitmaps, Pages!Active

\* What page_alloc does: it refuses, or hands out unused pages of one chunk.
LEMMA PageAlloc ==
  ASSUME Pages!TypeOK, NEW k \in Nat, Pages!page_alloc(k)
  PROVE  /\ Pages!TypeOK' /\ UNCHANGED <<mem_chunks, kernel_base_va, reserved>>
         /\ \/ result'.frame = Null /\ used' = used
            \/ \E i \in Pages!Active :
                 /\ k > 0 /\ result'.frame \in Nat /\ result'.frame # Null
                 /\ result'.frame \in Pages!Run(result'.frame, k)
                 /\ Pages!Run(result'.frame, k) \subseteq Pages!ChunkFrames(mem_chunks[i]) \ used
                 /\ used' = used \cup Pages!Run(result'.frame, k)
<1>1. UNCHANGED <<mem_chunks, kernel_base_va, reserved>>
  BY DEF Pages!page_alloc
<1>2. CASE result' = [num |-> k, frame |-> Null] /\ UNCHANGED <<used, live>>
  <2>1. result' \in [num : Nat, frame : Nat \cup {Null}]
    BY <1>2
  <2>2. Pages!TypeOK'
    BY <1>1, <1>2, <2>1 DEF Pages!TypeOK
  <2>q. QED
    BY <1>1, <1>2, <2>2
<1>3. CASE \E i \in Pages!Slots : Pages!IsFirst(i, Pages!Roomy(k)) /\ Pages!page_alloc_chunk(k, i)
  <2>1. PICK i \in Pages!Slots : Pages!IsFirst(i, Pages!Roomy(k)) /\ Pages!page_alloc_chunk(k, i)
    BY <1>3
  <2>2. PICK f \in Pages!FreeRuns(mem_chunks[i], k) :
          /\ used' = used \cup Pages!Run(f, k)
          /\ live' = live \cup {[frame |-> f, num |-> k]}
          /\ result' = [num |-> k, frame |-> f]
    BY <2>1 DEF Pages!page_alloc_chunk
  <2>3. i \in Pages!Active
    BY <2>1 DEF Pages!IsFirst, Pages!Roomy
  <2>4. /\ f \in Pages!ChunkFrames(mem_chunks[i]) /\ k > 0
        /\ Pages!Run(f, k) \subseteq Pages!ChunkFrames(mem_chunks[i]) \ used
    BY DEF Pages!FreeRuns
  <2>5. f \in Nat
    BY <2>4, SlotType DEF Pages!ChunkFrames, Pages!Run
  <2>6. f \in Pages!Run(f, k) /\ Pages!Run(f, k) \subseteq Nat /\ f # Null
    BY <2>4, <2>5, TableAssumption DEF Pages!Run
  <2>7. result'.frame = f
    BY <2>2
  <2>8. Pages!TypeOK'
    <3>1. live' \subseteq [frame : Nat, num : Nat]
      BY <2>2, <2>5 DEF Pages!TypeOK
    <3>2. result' \in [num : Nat, frame : Nat \cup {Null}]
      BY <2>2, <2>5
    <3>q. QED
      BY <1>1, <2>2, <2>6, <3>1, <3>2 DEF Pages!TypeOK
  <2>q. QED
    BY <1>1, <2>2, <2>3, <2>4, <2>5, <2>6, <2>7, <2>8
<1>q. QED
  BY <1>2, <1>3 DEF Pages!page_alloc

\* What page_free does: it marks pages of one chunk free, all of the block if
\* it fits.
LEMMA PageFree ==
  ASSUME Pages!TypeOK, NEW a, a.frame \in Nat, a.num \in Nat, Pages!page_free(a)
  PROVE  /\ Pages!TypeOK' /\ UNCHANGED <<mem_chunks, kernel_base_va, result>>
         /\ \/ (\A i \in Pages!Active : a.frame \notin Pages!ChunkFrames(mem_chunks[i]))
               /\ UNCHANGED <<used, reserved>>
            \/ \E i \in Pages!Active : \E F \in SUBSET Pages!Run(a.frame, a.num) :
                 /\ a.frame \in Pages!ChunkFrames(mem_chunks[i])
                 /\ used' = used \ F /\ reserved' = reserved \ F
                 /\ Pages!Run(a.frame, a.num) \subseteq Pages!ChunkFrames(mem_chunks[i])
                      => F = Pages!Run(a.frame, a.num)
<1>1. UNCHANGED <<mem_chunks, kernel_base_va, result>> /\ live' \subseteq live
  BY DEF Pages!page_free
<1>2. CASE Pages!Owners(a.frame) = {} /\ UNCHANGED <<used, reserved>>
  <2>1. \A i \in Pages!Active : a.frame \notin Pages!ChunkFrames(mem_chunks[i])
    BY <1>2 DEF Pages!Owners
  <2>2. Pages!TypeOK'
    BY <1>1, <1>2 DEF Pages!TypeOK
  <2>q. QED
    BY <1>1, <1>2, <2>1, <2>2
<1>3. CASE \E i \in Pages!Slots :
             /\ Pages!IsFirst(i, Pages!Owners(a.frame))
             /\ used' = used \ Pages!FreedFrames(a, mem_chunks[i])
             /\ reserved' = reserved \ Pages!FreedFrames(a, mem_chunks[i])
  <2>1. PICK i \in Pages!Slots :
             /\ Pages!IsFirst(i, Pages!Owners(a.frame))
             /\ used' = used \ Pages!FreedFrames(a, mem_chunks[i])
             /\ reserved' = reserved \ Pages!FreedFrames(a, mem_chunks[i])
    BY <1>3
  <2>2. i \in Pages!Active /\ a.frame \in Pages!ChunkFrames(mem_chunks[i])
    BY <2>1 DEF Pages!IsFirst, Pages!Owners
  <2> DEFINE F == Pages!FreedFrames(a, mem_chunks[i])
             end == mem_chunks[i].mem_base + mem_chunks[i].total_pages
  <2>3. /\ mem_chunks[i].mem_base \in Nat /\ mem_chunks[i].total_pages \in Nat /\ end \in Nat
        /\ a.frame \in mem_chunks[i].mem_base .. (end - 1)
    BY <2>2, SlotType DEF Pages!ChunkFrames, Pages!Run
  <2>4. IF a.frame + a.num > end THEN F = Pages!Run(a.frame, end - a.frame)
                                 ELSE F = Pages!Run(a.frame, a.num)
    BY <2>3 DEF Pages!FreedFrames, Pages!Run
  <2>5. F \subseteq Pages!Run(a.frame, a.num)
    BY <2>3, <2>4 DEF Pages!Run
  <2>6. Pages!Run(a.frame, a.num) \subseteq Pages!ChunkFrames(mem_chunks[i]) => F = Pages!Run(a.frame, a.num)
    <3> SUFFICES ASSUME Pages!Run(a.frame, a.num) \subseteq Pages!ChunkFrames(mem_chunks[i]), a.frame + a.num > end
                 PROVE  FALSE
      BY <2>4
    <3>1. a.frame + a.num - 1 \in Pages!Run(a.frame, a.num)
      BY <2>3 DEF Pages!Run
    <3>2. a.frame + a.num - 1 \in Pages!Run(mem_chunks[i].mem_base, mem_chunks[i].total_pages)
      BY <3>1 DEF Pages!ChunkFrames
    <3>q. QED
      BY <2>3, <3>2 DEF Pages!Run
  <2>7. Pages!TypeOK'
    BY <1>1, <2>1 DEF Pages!TypeOK
  <2> HIDE DEF F
  <2>8. used' = used \ F /\ reserved' = reserved \ F /\ F \in SUBSET Pages!Run(a.frame, a.num)
    BY <2>1, <2>5 DEF F
  <2>q. QED
    BY <1>1, <2>2, <2>6, <2>7, <2>8
<1>q. QED
  BY <1>2, <1>3 DEF Pages!page_free

\* What reserve_page does: nothing, or it marks pages of one chunk used.
LEMMA ReservePage ==
  ASSUME Pages!TypeOK, NEW a, a.frame \in Nat, a.num \in Nat, a.offset \in Nat, Pages!reserve_page(a)
  PROVE  /\ Pages!TypeOK' /\ UNCHANGED <<mem_chunks, kernel_base_va, live, result>>
         /\ \/ ~Reservable(a) /\ UNCHANGED <<used, reserved>>
            \/ \E i \in Pages!Active :
                 /\ Pages!Run(a.frame, a.num) \subseteq Pages!ChunkFrames(mem_chunks[i])
                 /\ used' = used \cup Pages!Run(a.frame, a.num)
                 /\ reserved' = reserved \cup Pages!Run(a.frame, a.num)
<1>1. UNCHANGED <<mem_chunks, kernel_base_va, live, result>>
  BY DEF Pages!reserve_page
<1>2. CASE /\ \A i \in Pages!Slots :
                Pages!IsFirst(i, Pages!Owners(a.frame)) => ~Pages!FitsChunk(a, mem_chunks[i])
           /\ UNCHANGED <<used, reserved>>
  <2>1. ~Reservable(a)
    BY <1>2 DEF Reservable
  <2>2. Pages!TypeOK'
    BY <1>1, <1>2 DEF Pages!TypeOK
  <2>q. QED
    BY <1>1, <1>2, <2>1, <2>2
<1>3. CASE \E i \in Pages!Slots :
             /\ Pages!IsFirst(i, Pages!Owners(a.frame))
             /\ Pages!FitsChunk(a, mem_chunks[i])
             /\ used' = used \cup Pages!Run(a.frame, a.num)
             /\ reserved' = reserved \cup Pages!Run(a.frame, a.num)
  <2>1. PICK i \in Pages!Slots :
             /\ Pages!IsFirst(i, Pages!Owners(a.frame))
             /\ Pages!FitsChunk(a, mem_chunks[i])
             /\ used' = used \cup Pages!Run(a.frame, a.num)
             /\ reserved' = reserved \cup Pages!Run(a.frame, a.num)
    BY <1>3
  <2>2. i \in Pages!Active /\ a.frame \in Pages!ChunkFrames(mem_chunks[i])
    BY <2>1 DEF Pages!IsFirst, Pages!Owners
  <2>3. mem_chunks[i].mem_base \in Nat /\ mem_chunks[i].total_pages \in Nat
    BY SlotType
  <2>4. Pages!Run(a.frame, a.num) \subseteq Pages!ChunkFrames(mem_chunks[i])
    BY <2>1, <2>2, <2>3 DEF Pages!ChunkFrames, Pages!Run, Pages!FitsChunk
  <2>5. Pages!Run(a.frame, a.num) \subseteq Nat
    BY DEF Pages!Run
  <2>6. Pages!TypeOK'
    BY <1>1, <2>1, <2>5 DEF Pages!TypeOK
  <2>q. QED
    BY <1>1, <2>1, <2>2, <2>4, <2>6
<1>q. QED
  BY <1>2, <1>3 DEF Pages!reserve_page

\* What page_allocator_add_region does: the region is refused and at most one
\* slot given up, or it takes over a slot.
LEMMA AddedRegion ==
  ASSUME Pages!TypeOK, NEW r, IsRegion(r), r.check \in BOOLEAN, Pages!page_allocator_add_region(r)
  PROVE  /\ Pages!TypeOK' /\ UNCHANGED <<kernel_base_va, live, result>>
         /\ \/ /\ ~Accepted(r) /\ used' \subseteq used /\ Pages!Active' \subseteq Pages!Active
               /\ \A i \in Pages!Active' : mem_chunks'[i] = mem_chunks[i]
            \/ /\ Accepted(r) /\ Pages!TotalPages(r) # 0
               /\ Pages!BitmapPages(Pages!TotalPages(r)) <= Pages!TotalPages(r)
               /\ \E i \in Pages!Slots :
                    /\ Pages!Active' = Pages!Active \cup {i}
                    /\ \A j \in Pages!Active \ {i} : mem_chunks'[j] = mem_chunks[j]
                    /\ mem_chunks'[i].mem_base = Pages!AlignedStart(r)
                    /\ mem_chunks'[i].total_pages = Pages!TotalPages(r)
               /\ used' = (used \ Pages!RegionFrames(r))
                            \cup Pages!Run(Pages!AlignedStart(r), Pages!BitmapPages(Pages!TotalPages(r)))
               /\ reserved' = reserved \ Pages!RegionFrames(r)
<1>1. UNCHANGED <<kernel_base_va, live, result>>
  BY DEF Pages!page_allocator_add_region
<1>2. /\ Pages!AlignmentShift(r) \in Nat /\ Pages!AlignedStart(r) \in Nat /\ Pages!TotalPages(r) \in Nat
      /\ Pages!BitmapPages(Pages!TotalPages(r)) \in Nat /\ r.size \in Nat
  BY Geometry DEF IsRegion
<1>3. mem_chunks \in [Pages!Slots -> Pages!Chunk]
  BY DEF Pages!TypeOK
<1>4. CASE Pages!Candidates(r) = {} /\ UNCHANGED <<mem_chunks, used, reserved>>
  <2>1. ~Accepted(r)
    BY <1>4 DEF Accepted
  <2>2. Pages!Active' = Pages!Active
    BY <1>4 DEF Pages!Active
  <2>3. Pages!TypeOK'
    BY <1>1, <1>4 DEF Pages!TypeOK
  <2>q. QED
    BY <1>1, <1>4, <2>1, <2>2, <2>3
<1>5. ASSUME NEW i \in Pages!Slots, Pages!IsFirst(i, Pages!Candidates(r)),
             NEW c, c \in Pages!Chunk, ~c.initialized, mem_chunks' = [mem_chunks EXCEPT ![i] = c],
             used' \subseteq used, reserved' \subseteq reserved, ~Accepted(r)
      PROVE  /\ Pages!TypeOK' /\ Pages!Active' \subseteq Pages!Active
             /\ \A j \in Pages!Active' : mem_chunks'[j] = mem_chunks[j]
  <2>1. mem_chunks' \in [Pages!Slots -> Pages!Chunk] /\ mem_chunks'[i] = c
        /\ \A j \in Pages!Slots \ {i} : mem_chunks'[j] = mem_chunks[j]
    BY <1>3, <1>5
  <2>2. Pages!TypeOK'
    BY <1>1, <1>5, <2>1 DEF Pages!TypeOK
  <2>q. QED
    BY <1>5, <2>1, <2>2 DEF Pages!Active
<1>6. ASSUME NEW i \in Pages!Slots, Pages!IsFirst(i, Pages!Candidates(r)), Pages!page_init_chunk(r, i),
             ~Pages!Accept(r, i)
      PROVE  /\ ~Accepted(r) /\ used' \subseteq used /\ reserved' \subseteq reserved
             /\ \E c \in Pages!Chunk : ~c.initialized /\ mem_chunks' = [mem_chunks EXCEPT ![i] = c]
  <2> DEFINE d == Pages!Dropped(mem_chunks[i])
  <2>1. d \in Pages!Chunk /\ ~d.initialized
    BY <1>3 DEF Pages!Dropped, Pages!Chunk
  <2>2. CASE Pages!TooSmall(r, i)
    <3>1. ~Accepted(r)
      BY <1>2, <2>2 DEF Pages!TooSmall, Accepted
    <3>q. QED
      BY <2>1, <2>2, <3>1 DEF Pages!TooSmall
  <2>3. CASE Pages!OverImage(r, i)
    <3> DEFINE c == [d EXCEPT !.mem_base = Pages!AlignedStart(r)]
    <3>1. c \in Pages!Chunk /\ ~c.initialized
      BY <1>2, <2>1 DEF Pages!Chunk
    <3>2. ~Accepted(r)
      BY <2>3 DEF Pages!OverImage, Accepted
    <3>3. mem_chunks' = [mem_chunks EXCEPT ![i] = c]
      BY <2>3 DEF Pages!OverImage
    <3>4. used' = used /\ reserved' = reserved
      BY <2>3 DEF Pages!OverImage
    <3> HIDE DEF c
    <3>q. QED
      BY <3>1, <3>2, <3>3, <3>4
  <2>4. CASE Pages!Unusable(r, i)
    <3> DEFINE c == Pages!ChunkOf(r, FALSE)
    <3>1. c \in Pages!Chunk /\ ~c.initialized
      BY <1>2 DEF Pages!Chunk, Pages!ChunkOf, Pages!TypeOK
    <3>2. ~Accepted(r)
      BY <2>4 DEF Pages!Unusable, Accepted
    <3>3. mem_chunks' = [mem_chunks EXCEPT ![i] = c]
      BY <2>4 DEF Pages!Unusable
    <3>4. used' \subseteq used /\ reserved' \subseteq reserved
      BY <2>4 DEF Pages!Unusable, Pages!ZeroBitmap
    <3> HIDE DEF c
    <3>q. QED
      BY <3>1, <3>2, <3>3, <3>4
  <2>q. QED
    BY <1>6, <2>2, <2>3, <2>4 DEF Pages!page_init_chunk
<1>7. ASSUME NEW i \in Pages!Slots, Pages!IsFirst(i, Pages!Candidates(r)), Pages!Accept(r, i)
      PROVE  /\ Pages!TypeOK'
             /\ Accepted(r) /\ Pages!TotalPages(r) # 0
             /\ Pages!BitmapPages(Pages!TotalPages(r)) <= Pages!TotalPages(r)
             /\ Pages!Active' = Pages!Active \cup {i}
             /\ \A j \in Pages!Active \ {i} : mem_chunks'[j] = mem_chunks[j]
             /\ mem_chunks'[i].mem_base = Pages!AlignedStart(r)
             /\ mem_chunks'[i].total_pages = Pages!TotalPages(r)
             /\ used' = (used \ Pages!RegionFrames(r))
                          \cup Pages!Run(Pages!AlignedStart(r), Pages!BitmapPages(Pages!TotalPages(r)))
             /\ reserved' = reserved \ Pages!RegionFrames(r)
  <2> DEFINE c == Pages!ChunkOf(r, TRUE)
  <2>1. /\ c \in Pages!Chunk /\ c.initialized
        /\ c.mem_base = Pages!AlignedStart(r) /\ c.total_pages = Pages!TotalPages(r)
    BY <1>2 DEF Pages!Chunk, Pages!ChunkOf, Pages!TypeOK
  <2>2. mem_chunks' = [mem_chunks EXCEPT ![i] = c]
    BY <1>7 DEF Pages!Accept
  <2> HIDE DEF c
  <2>3. mem_chunks' \in [Pages!Slots -> Pages!Chunk] /\ mem_chunks'[i] = c
        /\ \A j \in Pages!Slots \ {i} : mem_chunks'[j] = mem_chunks[j]
    BY <1>3, <2>1, <2>2
  <2>4. Accepted(r)
    BY <1>7 DEF Pages!Accept, Accepted, Pages!IsFirst
  <2>5. /\ used' = (used \ Pages!RegionFrames(r))
                     \cup Pages!Run(Pages!AlignedStart(r), Pages!BitmapPages(Pages!TotalPages(r)))
        /\ reserved' = reserved \ Pages!RegionFrames(r)
    BY <1>7 DEF Pages!Accept, Pages!ZeroBitmap
  <2>6. Pages!Run(Pages!AlignedStart(r), Pages!BitmapPages(Pages!TotalPages(r))) \subseteq Nat
    BY <1>2 DEF Pages!Run
  <2>7. Pages!TypeOK'
    BY <1>1, <2>3, <2>5, <2>6 DEF Pages!TypeOK
  <2>8. /\ Pages!Active' = Pages!Active \cup {i}
        /\ \A j \in Pages!Active \ {i} : mem_chunks'[j] = mem_chunks[j]
    BY <2>1, <2>3 DEF Pages!Active
  <2>9. Pages!TotalPages(r) # 0 /\ Pages!BitmapPages(Pages!TotalPages(r)) <= Pages!TotalPages(r)
    BY <2>4 DEF Accepted, Pages!BitmapFits
  <2>q. QED
    BY <2>1, <2>3, <2>4, <2>5, <2>7, <2>8, <2>9
<1>8. CASE \E i \in Pages!Slots : Pages!IsFirst(i, Pages!Candidates(r)) /\ Pages!page_init_chunk(r, i)
  <2>1. PICK i \in Pages!Slots : Pages!IsFirst(i, Pages!Candidates(r)) /\ Pages!page_init_chunk(r, i)
    BY <1>8
  <2>2. CASE Pages!Accept(r, i)
    BY <1>1, <1>7, <2>1, <2>2
  <2>3. CASE ~Pages!Accept(r, i)
    BY <1>1, <1>5, <1>6, <2>1, <2>3
  <2>q. QED
    BY <2>2, <2>3
<1>q. QED
  BY <1>4, <1>8 DEF Pages!page_allocator_add_region

----
(* The image and the device tree *)

\* Where the tables of the image are.
LEMMA LayoutFacts ==
  /\ IdMapRegion \subseteq Image /\ KernelRoot \in Image /\ Image \subseteq Ram /\ Ram \subseteq Nat
  /\ IdRoot \in IdMapRegion /\ KernelRoot \notin IdMapRegion /\ IdRoot # KernelRoot
  /\ IdRoot \in Nat /\ KernelRoot \in Nat /\ IdRoot # Null /\ KernelRoot # Null
  /\ IdMapRegion = Pages!Run(IdMap, IdMapNumPages + 1)
  /\ Uart \in VirtualPages /\ Uart \notin Ram /\ Ram \subseteq VirtualPages /\ VirtualPages \subseteq Nat
<1>1. IdMap \in Nat /\ IdMapNumPages \in Nat \ {0}
  BY LayoutAssumption
<1>2. VirtualPages \subseteq Nat
  BY DEF VirtualPages
<1>3. IdRoot \in IdMapRegion /\ KernelRoot \notin IdMapRegion /\ IdRoot # KernelRoot
  BY <1>1 DEF IdRoot, KernelRoot, IdMapRegion, Pages!Run
<1>4. IdRoot \in Nat /\ KernelRoot \in Nat
  BY <1>1 DEF IdRoot, KernelRoot
<1>5. IdRoot # Null /\ KernelRoot # Null
  BY <1>4, TableAssumption
<1>6. IdMapRegion \subseteq Image /\ KernelRoot \in Image /\ Image \subseteq Ram /\ Uart \in VirtualPages \ Ram
  BY LayoutAssumption
<1>7. Ram \subseteq VirtualPages
  BY TableAssumption
<1>q. QED
  BY <1>2, <1>3, <1>4, <1>5, <1>6, <1>7 DEF IdMapRegion

\* Addresses split at the page size are regions.
LEMMA RegionsOfType ==
  ASSUME NEW map \in Seq([base : Nat, size : Nat])
  PROVE  /\ DOMAIN RegionsOf(map) = 1 .. Len(map) /\ Len(RegionsOf(map)) = Len(map)
         /\ \A i \in DOMAIN RegionsOf(map) : IsRegion(RegionsOf(map)[i])
<1> DEFINE S == [base : Nat, size : Nat]
<1>0. map \in Seq(S)
  OBVIOUS
<1>1. DOMAIN map = 1 .. Len(map) /\ Len(map) \in Nat /\ \A i \in 1 .. Len(map) : map[i] \in S
  <2> HIDE DEF S
  <2>q. QED
    BY <1>0
<1>2. RegionsOf(map) = [i \in 1 .. Len(map) |-> Region(map[i])]
  BY <1>1 DEF RegionsOf
<1>3. DOMAIN RegionsOf(map) = 1 .. Len(map) /\ Len(RegionsOf(map)) = Len(map)
  BY <1>1, <1>2
<1>4. ASSUME NEW r \in S PROVE IsRegion(Region(r))
  <2>1. r.base \in Nat /\ r.size \in Nat /\ PageSize \in Nat \ {0}
    BY LayoutAssumption
  <2>2. r.base \div PageSize \in Nat /\ r.base % PageSize \in 0 .. (PageSize - 1)
    BY <2>1, Quotient
  <2>q. QED
    BY <2>1, <2>2 DEF IsRegion, Region
<1>q. QED
  BY <1>1, <1>2, <1>3, <1>4

\* A list that is cut off is no longer than the limit.
LEMMA AtMostDomain ==
  ASSUME NEW k, NEW s
  PROVE  DOMAIN AtMost(k, s) \subseteq 1 .. k
  BY DEF AtMost

LEMMA GetMemDomain ==
  ASSUME NEW t
  PROVE  DOMAIN get_mem(t) \subseteq 1 .. MaxMemRegions
<1> DEFINE memory == SelectSeq(t, LAMBDA node : node.memory)
           all == FlattenSeq([k \in DOMAIN memory |->
                    Entries(memory[k].reg, fdt_address_cells(t[1]), fdt_size_cells(t[1]))])
           some == SelectSeq(all, LAMBDA r : r.size > 0)
<1>1. get_mem(t) = AtMost(MaxMemRegions, some)
  BY Zenon DEF get_mem
<1> HIDE DEF some
<1>q. QED
  BY <1>1, AtMostDomain

\* The pages a list of regions touches.
LEMMA RegionFramesMembers ==
  ASSUME NEW regions, NEW k \in DOMAIN regions
  PROVE  Pages!Run(regions[k].frame, Pages!NumPages(regions[k].size)) \subseteq RegionFramesOf(regions)
  BY DEF RegionFramesOf

\* The memory banks of a tree.
LEMMA BankFacts ==
  ASSUME NEW t \in Trees, MemoryReadable(t)
  PROVE  /\ DOMAIN Banks(t) = 1 .. Len(Banks(t)) /\ Len(Banks(t)) \in Nat /\ Len(Banks(t)) <= MaxMemRegions
         /\ \A i \in DOMAIN Banks(t) :
              /\ IsRegion(Banks(t)[i])
              /\ Pages!RegionFrames(Banks(t)[i]) \subseteq RegionFramesOf(Banks(t))
         /\ RegionFramesOf(Banks(t)) \subseteq Ram
         /\ \A i, j \in DOMAIN Banks(t) :
              i # j => Pages!RegionFrames(Banks(t)[i]) \cap Pages!RegionFrames(Banks(t)[j]) = {}
<1> DEFINE map == get_mem(t.nodes)
<1>1. map \in Seq([base : Nat, size : Nat]) /\ Banks(t) = RegionsOf(map)
  BY TreeAssumption DEF Banks
<1>2. DOMAIN map \subseteq 1 .. MaxMemRegions /\ MaxMemRegions \in Nat
  BY GetMemDomain, FdtAssumption
<1> HIDE DEF map
<1>3. Len(map) \in Nat /\ Len(map) <= MaxMemRegions
  <2>1. Len(map) \in Nat /\ DOMAIN map = 1 .. Len(map)
    BY <1>1
  <2>2. Len(map) > 0 => Len(map) \in DOMAIN map
    BY <2>1
  <2>q. QED
    BY <1>2, <2>1, <2>2
<1>4. /\ DOMAIN Banks(t) = 1 .. Len(map) /\ Len(Banks(t)) = Len(map)
      /\ \A i \in DOMAIN Banks(t) : IsRegion(Banks(t)[i])
  BY <1>1, RegionsOfType
<1>5. ASSUME NEW i \in DOMAIN Banks(t)
      PROVE  Pages!RegionFrames(Banks(t)[i]) \subseteq RegionFramesOf(Banks(t))
  BY <1>4, Geometry, RegionFramesMembers
<1>q. QED
  BY <1>3, <1>4, <1>5, TreeAssumption

\* A set of natural numbers that is not empty has a least element.
LEMMA LeastOne ==
  ASSUME NEW S, S \subseteq Nat, S # {}
  PROVE  \E x \in S : \A y \in S : x <= y
<1> DEFINE less == OpToRel(<, Nat)
<1>1. IsWellFoundedOn(less, Nat)
  BY NatLessThanWellFounded
<1> HIDE DEF less
<1>2. PICK x \in S : \A y \in S : ~(<<y, x>> \in less)
  BY <1>1, WFMin, Zenon
<1>3. \A y \in S : ~(y < x)
  BY <1>2 DEF less, OpToRel
<1>q. QED
  BY <1>3

\* The registers of the interrupt controller.
LEMMA GicFacts ==
  ASSUME NEW t \in Trees
  PROVE  /\ DOMAIN GicRegions(t.nodes) = 1 .. Len(GicRegions(t.nodes))
         /\ Len(GicRegions(t.nodes)) \in {0, 2}
         /\ \A i \in DOMAIN GicRegions(t.nodes) : IsRegion(GicRegions(t.nodes)[i])
         /\ RegionFramesOf(GicRegions(t.nodes)) \subseteq VirtualPages \ Ram
<1> DEFINE tr == t.nodes
           c == get_intc_node_offset(tr)
           reg == get_reg_property(tr[c])
<1>1. RegionFramesOf(GicRegions(tr)) \subseteq VirtualPages \ Ram
  BY TreeAssumption
<1>2. CASE GicRegions(tr) = <<>>
  <2>1. DOMAIN GicRegions(tr) = {} /\ Len(GicRegions(tr)) = 0
    BY <1>2
  <2>2. DOMAIN GicRegions(tr) = 1 .. Len(GicRegions(tr))
    BY <2>1
  <2> HIDE DEF tr
  <2>q. QED
    BY <1>1, <2>1, <2>2 DEF tr
<1>3. CASE GicRegions(tr) # <<>>
  <2>1. c # NotFound /\ Len(reg.regions) = 2 /\ GicRegions(tr) = RegionsOf(reg.regions)
    BY <1>3 DEF GicRegions
  <2>2. c \in DOMAIN tr
    <3> DEFINE S == {k \in DOMAIN tr : tr[k].controller}
    <3>1. c = IF S = {} THEN NotFound ELSE Min(S)
      BY Zenon DEF get_intc_node_offset, FirstNode
    <3>2. S # {} /\ c = Min(S)
      BY <2>1, <3>1
    <3>3. tr \in Seq(Node)
      BY TreeAssumption
    <3>4. S \subseteq Nat
      BY <3>3
    <3>5. \E x \in S : \A y \in S : x <= y
      BY <3>2, <3>4, LeastOne
    <3>6. Min(S) \in S
      BY <3>5 DEF Min
    <3>q. QED
      BY <3>2, <3>6
  <2>3. reg.regions \in Seq([base : Nat, size : Nat])
    BY <2>2, TreeAssumption
  <2> HIDE DEF reg, c
  <2>4. /\ DOMAIN GicRegions(tr) = 1 .. 2 /\ Len(GicRegions(tr)) = 2
        /\ \A i \in DOMAIN GicRegions(tr) : IsRegion(GicRegions(tr)[i])
    BY <2>1, <2>3, RegionsOfType
  <2>q. QED
    BY <1>1, <2>4
<1>q. QED
  BY <1>2, <1>3

----
(* Steps within a phase *)

MemoryPhases == {BeforePool, WithPool, {"memory"}, WithBanks, ImageReserved, BlobReserved, PoolFreed, {"banks"}}

TablePhases ==
  {BeforePool, WithPool, {"memory"}, WithBanks, WithKernelMap, IdMapGone, PoolFreed,
   {"id_image", "id_uart"} \cup IdMapDone}

\* Boot gives up, or goes on with memory divided up as it is.
SameMemoryPhase ==
  /\ pc # "halted" /\ (pc = "run" => pc' = "run") /\ (pc' = "id_root" => pc = "id_root")
  /\ pc' = "halted" \/ \A S \in MemoryPhases : pc' \in S <=> pc \in S

\* ... or with the maps as they are.
SameTablePhase ==
  pc # "halted" /\ (pc' = "halted" \/ \A S \in TablePhases : pc' \in S <=> pc \in S)

\* The chunks are where they were.
SameChunks ==
  \A i \in Pages!Slots : /\ mem_chunks'[i].initialized = mem_chunks[i].initialized
                         /\ mem_chunks'[i].mem_base = mem_chunks[i].mem_base
                         /\ mem_chunks'[i].total_pages = mem_chunks[i].total_pages

\* The pages whose contents matter, other than tables.
KeptPages ==
  Pages!Bitmaps \cup HeldFrames \cup (Image \ (IdMapRegion \cup {KernelRoot}))
    \cup (IF BlobPlaced THEN FdtFrames(tree) \cap Ram ELSE {})

\* None of them is a table.
LEMMA KeptIsNoTable ==
  ASSUME ContentsOK, HeldOK
  PROVE  \A f \in KeptPages : pages[f] \in {Code, Bits, Blob, Junk} /\ pages[f] \notin TablePage
<1>1. \A f \in HeldFrames : pages[f] = Junk
  BY DEF HeldFrames, HeldOK
<1>2. \A f \in KeptPages : pages[f] \in {Code, Bits, Blob, Junk}
  BY <1>1 DEF KeptPages, ContentsOK, FdtKept
<1>q. QED
  BY <1>2, TablePages

\* Once banks are registered, all managed memory lies in banks, and each chunk
\* holds its bitmap.
LEMMA ManagedFacts ==
  ASSUME Pages!TypeOK, DataOK, ChunksOK, pc \in WithBanks
  PROVE  /\ Pages!Managed \subseteq RegionFramesOf(mmap) /\ RegionFramesOf(mmap) \subseteq Ram
         /\ Pages!Bitmaps \subseteq Pages!Managed
         /\ \A i \in Pages!Active :
              /\ Pages!BitmapFrames(mem_chunks[i]) \subseteq Pages!ChunkFrames(mem_chunks[i])
              /\ Pages!ChunkFrames(mem_chunks[i]) \subseteq Pages!Managed
<1>1. tree \in Trees /\ MemoryReadable(tree) /\ mmap = Banks(tree)
  BY DEF DataOK
<1>2. /\ RegionFramesOf(mmap) \subseteq Ram
      /\ \A k \in DOMAIN mmap : Pages!RegionFrames(mmap[k]) \subseteq RegionFramesOf(mmap)
  BY <1>1, BankFacts
<1>3. ASSUME NEW i \in Pages!Active
      PROVE  /\ Pages!BitmapFrames(mem_chunks[i]) \subseteq Pages!ChunkFrames(mem_chunks[i])
             /\ Pages!ChunkFrames(mem_chunks[i]) \subseteq RegionFramesOf(mmap)
  <2>1. i \in Pages!Slots
    BY DEF Pages!Active
  <2>2. PICK k \in DOMAIN mmap :
          /\ mem_chunks[i].mem_base = Pages!AlignedStart(mmap[k])
          /\ mem_chunks[i].total_pages = Pages!TotalPages(mmap[k])
          /\ Pages!BitmapPages(mem_chunks[i].total_pages) <= mem_chunks[i].total_pages
    BY DEF ChunksOK, BankChunk
  <2>3. Pages!ChunkFrames(mem_chunks[i]) = Pages!RegionFrames(mmap[k])
    BY <2>2 DEF Pages!ChunkFrames, Pages!RegionFrames
  <2>4. Pages!BitmapFrames(mem_chunks[i]) \subseteq Pages!ChunkFrames(mem_chunks[i])
    BY <2>1, <2>2, SlotType DEF Pages!BitmapFrames, Pages!ChunkFrames, Pages!Run
  <2>q. QED
    BY <1>2, <2>3, <2>4
<1>4. Pages!Managed \subseteq RegionFramesOf(mmap) /\ Pages!Bitmaps \subseteq Pages!Managed
  BY <1>3, Members
<1>q. QED
  BY <1>2, <1>3, <1>4, Members

\* A step within a phase that takes no page back and writes none of those pages
\* keeps what is known of memory.
LEMMA MemoryKeeps ==
  ASSUME ChunksOK, UsedOK, ContentsOK, HeldOK, SameMemoryPhase, SameChunks,
         used \subseteq used', \A f \in KeptPages : pages'[f] = pages[f],
         UNCHANGED <<tree, mmap>>,
         pc' \in BeforePool \cup {"id_root"} => UNCHANGED <<used, pages>>,
         pc' = "banks" => bank' = bank
  PROVE  ChunksOK' /\ UsedOK' /\ ContentsOK'
<1>1. /\ Pages!Active' = Pages!Active /\ Pages!Managed' = Pages!Managed /\ Pages!Bitmaps' = Pages!Bitmaps
      /\ \A i \in Pages!Slots : Pages!ChunkFrames(mem_chunks'[i]) = Pages!ChunkFrames(mem_chunks[i])
  BY SameGeometry DEF SameChunks
<1>2. \A i \in Pages!Active : i \in Pages!Slots
  BY DEF Pages!Active
<1>3. pc' = "halted" \/ /\ pc' \in BeforePool <=> pc \in BeforePool
                        /\ pc' \in WithPool <=> pc \in WithPool
                        /\ pc' = "memory" <=> pc = "memory"
                        /\ pc' \in WithBanks <=> pc \in WithBanks
                        /\ pc' \in ImageReserved <=> pc \in ImageReserved
                        /\ pc' \in BlobReserved <=> pc \in BlobReserved
                        /\ pc' \in PoolFreed <=> pc \in PoolFreed
                        /\ pc' = "banks" <=> pc = "banks"
  BY DEF SameMemoryPhase, MemoryPhases
<1>4. "halted" \notin BeforePool \cup WithPool \cup {"memory", "id_root"} \cup WithBanks \cup ImageReserved
                        \cup BlobReserved
  BY DEF BeforePool, WithPool, WithBanks, ImageReserved, BlobReserved, WithKernelMap
<1>5. ChunksOK'
  <2>1. pc' \in BeforePool \cup {"memory"} => Pages!Active' = {}
    BY <1>1, <1>3, <1>4 DEF ChunksOK
  <2>2. pc' \in WithPool => \A i \in Pages!Active' :
          /\ Pages!ChunkFrames(mem_chunks'[i]) = IdMapRegion
          /\ \A j \in Pages!Active' : i = j
          /\ mem_chunks'[i].mem_base = IdMap
    BY <1>1, <1>2, <1>3, <1>4 DEF ChunksOK, SameChunks
  <2>3. ASSUME pc' \in WithBanks, NEW i \in Pages!Active' PROVE BankChunk(i)'
    BY <1>1, <1>2, <1>3, <1>4, <2>3 DEF ChunksOK, SameChunks, BankChunk
  <2>4. pc' \in WithBanks => Pages!ChunksApart' /\ Pages!Bitmaps' \cap Image = {}
    <3>1. Pages!ChunksApart => Pages!ChunksApart'
      BY <1>1, <1>2 DEF Pages!ChunksApart
    <3>q. QED
      BY <1>1, <1>3, <1>4, <3>1 DEF ChunksOK
  <2>q. QED
    BY <2>1, <2>2, <2>3, <2>4 DEF ChunksOK
<1>6. BlobPlaced' <=> BlobPlaced
  BY DEF BlobPlaced
<1>7. UsedOK'
  <2>1. pc # "halted" /\ (pc' \in BeforePool => used' = used)
    BY DEF SameMemoryPhase
  <2>q. QED
    BY <1>1, <1>3, <1>4, <1>6, <2>1 DEF UsedOK
<1>8. ContentsOK'
  <2>1. BlobPlaced /\ FdtKept => FdtKept'
    BY DEF FdtKept, KeptPages
  <2>2. \A f \in Pages!Bitmaps \cup (Image \ (IdMapRegion \cup {KernelRoot})) : pages'[f] = pages[f]
    BY DEF KeptPages
  <2>3. pc' \in BeforePool => pages'[IdRoot] = ZeroPage
    BY <1>3, <1>4 DEF ContentsOK
  <2>4. pc' = "id_root" => pages'[IdRoot] = ZeroPage \/ IdRoot \in used'
    BY <1>3, <1>4 DEF ContentsOK, SameMemoryPhase
  <2>q. QED
    BY <1>1, <1>6, <2>1, <2>2, <2>3, <2>4 DEF ContentsOK
<1>q. QED
  BY <1>5, <1>7, <1>8

\* Likewise, when the blocks handed out are the same.
LEMMA MemoryStays ==
  ASSUME ChunksOK, UsedOK, ContentsOK, HeldOK, SameMemoryPhase, SameChunks,
         used \subseteq used', \A f \in KeptPages : pages'[f] = pages[f],
         UNCHANGED <<held, tree, mmap>>,
         pc' \in BeforePool \cup {"id_root"} => UNCHANGED <<used, pages>>,
         pc' = "banks" => bank' = bank
  PROVE  ChunksOK' /\ UsedOK' /\ ContentsOK' /\ HeldOK'
<1>1. /\ Pages!Active' = Pages!Active
      /\ \A i \in Pages!Slots : Pages!ChunkFrames(mem_chunks'[i]) = Pages!ChunkFrames(mem_chunks[i])
  BY SameGeometry DEF SameChunks
<1>2. \A i \in Pages!Active : i \in Pages!Slots
  BY DEF Pages!Active
<1>3. ChunksOK' /\ UsedOK' /\ ContentsOK'
  BY MemoryKeeps
<1>4. HeldOK'
  <2>1. pc' \notin {"run", "halted"} => held' = {}
    BY DEF HeldOK, SameMemoryPhase
  <2>2. ASSUME NEW b \in held'
        PROVE  /\ b.num > 0 /\ Pages!BlockFrames(b) \subseteq used'
               /\ \A f \in Pages!BlockFrames(b) : pages'[f] = Junk
               /\ \E i \in Pages!Active' : Pages!BlockFrames(b) \subseteq Pages!ChunkFrames(mem_chunks'[i])
               /\ \A c \in held' : b # c => Pages!BlockFrames(b) \cap Pages!BlockFrames(c) = {}
    <3>1. \A f \in Pages!BlockFrames(b) : pages'[f] = pages[f]
      BY DEF KeptPages, HeldFrames
    <3>q. QED
      BY <1>1, <1>2, <3>1 DEF HeldOK
  <2>q. QED
    BY <2>1, <2>2 DEF HeldOK
<1>q. QED
  BY <1>3, <1>4

\* A step within a phase that writes no memory keeps what is known of tables.
LEMMA TablesStay ==
  ASSUME NEW place, TablesOK(place), SameTablePhase, SameChunks,
         UNCHANGED <<used, pages, asked, reserved, held>>,
         ttbr1' # Null => ttbr1 # Null \/ pc \in WithKernelMap,
         call' # Null => call'.table \in DOMAIN place /\ place[call'.table] = Walked'
  PROVE  TablesOK(place)'
<1>1. /\ Pages!Managed' = Pages!Managed /\ Pages!Bitmaps' = Pages!Bitmaps
  BY SameGeometry DEF SameChunks
<1>2. pc' = "halted" \/ /\ pc' \in BeforePool <=> pc \in BeforePool
                        /\ pc' \in WithPool <=> pc \in WithPool
                        /\ pc' = "memory" <=> pc = "memory"
                        /\ pc' \in WithBanks <=> pc \in WithBanks
                        /\ pc' \in WithKernelMap <=> pc \in WithKernelMap
                        /\ pc' \in PoolFreed <=> pc \in PoolFreed
                        /\ pc' \in IdMapGone <=> pc \in IdMapGone
                        /\ pc' \in {"id_image", "id_uart"} \cup IdMapDone <=> pc \in {"id_image", "id_uart"} \cup IdMapDone
  BY DEF SameTablePhase, TablePhases
<1>3. "halted" \notin BeforePool \cup WithPool \cup {"memory"} \cup WithBanks \cup WithKernelMap \cup IdMapGone
                        \cup {"id_image", "id_uart"} \cup IdMapDone
  BY DEF BeforePool, WithPool, WithBanks, WithKernelMap, IdMapGone, PoolFreed, IdMapDone
<1>4. IsForest(place)'
  BY KeepForest DEF TablesOK
<1>5. HeldFrames' = HeldFrames
  BY DEF HeldFrames
<1>6. pc # "halted"
  BY DEF SameTablePhase
<1>q. QED
  BY <1>1, <1>2, <1>3, <1>4, <1>5, <1>6 DEF TablesOK

----
(* The steps of map_page *)

\* Where map_page is called from.
LEMMA CallPhases ==
  /\ MapCalls \subseteq WithPool \cup WithKernelMap /\ MapCalls \cap BeforePool = {}
  /\ MapCalls \cap WithPool = {"id_image", "id_uart"}
  /\ MapCalls \cap {"id_root", "halted", "memory", "banks", "free_id_map"} = {}
  /\ WithKernelMap \subseteq BlobReserved /\ BlobReserved \subseteq ImageReserved
  /\ ImageReserved \subseteq WithBanks /\ WithPool \cap WithBanks = {} /\ PoolFreed \subseteq WithKernelMap
  /\ IdMapGone = PoolFreed \cup {"free_id_map"} /\ "halted" \notin WithPool \cup WithBanks
  BY DEF MapCalls, WithPool, WithKernelMap, BeforePool, BlobReserved, ImageReserved, WithBanks, PoolFreed,
         IdMapGone

\* What the step under way reads.
LEMMA WalkFacts ==
  ASSUME NEW place, TablesOK(place), CallOK, call # Null, NEW t, t = call.table, NEW i, i = CallIndex
  PROVE  /\ t \in DOMAIN place /\ t \in Ram /\ pages[t] \in TablePage /\ i \in Slots
         /\ place[t].level = call.level /\ place[t].root = call.root
         /\ CallEntry.valid <=> Valid(t, i)
         /\ Valid(t, i) => CallEntry = pages[t][i]
         /\ call.level < 3 =>
              Below(place[t], i) = [root |-> call.root, level |-> call.level + 1,
                                    v |-> Prefix(call.v, call.level + 1)]
         /\ call.level = 3 => place[t].v * PtrsPerTable + i = call.v
<1>1. call \in Call /\ call.v \in VirtualPages /\ call.level \in 0 .. 3
  BY DEF CallOK, Call
<1>2. t \in DOMAIN place /\ place[t] = Walked /\ IsForest(place)
  BY DEF TablesOK
<1>3. t \in Ram /\ pages[t] \in TablePage
  BY <1>2 DEF IsForest, Placed
<1>4. i \in Slots /\ Prefix(call.v, call.level) * PtrsPerTable + i
                       = IF call.level = 3 THEN call.v ELSE Prefix(call.v, call.level + 1)
  BY <1>1, PrefixStep DEF CallIndex
<1>5. /\ place[t].level = call.level /\ place[t].root = call.root
      /\ place[t].v = Prefix(call.v, call.level)
  BY <1>2 DEF Walked
<1>6. IsTable(t)
  BY <1>3, TablePages DEF IsTable
<1>7. CallEntry = IF i \in DOMAIN pages[t] THEN pages[t][i] ELSE Zero
  BY <1>6 DEF CallEntry, EntryAt
<1>8. ~Zero.valid
  BY DEF Zero
<1>9. (CallEntry.valid <=> Valid(t, i)) /\ (Valid(t, i) => CallEntry = pages[t][i])
  BY <1>7, <1>8 DEF Valid
<1>10. call.level < 3 =>
         Below(place[t], i) = [root |-> call.root, level |-> call.level + 1,
                               v |-> Prefix(call.v, call.level + 1)]
  BY <1>1, <1>4, <1>5 DEF Below
<1>11. call.level = 3 => place[t].v * PtrsPerTable + i = call.v
  BY <1>4, <1>5
<1>q. QED
  BY <1>2, <1>3, <1>4, <1>5, <1>9, <1>10, <1>11

\* A page that page_alloc may hand out holds nothing that matters.
LEMMA FreshFrame ==
  ASSUME Pages!TypeOK, DataOK, ChunksOK, UsedOK, HeldOK, NEW place, TablesOK(place),
         pc \in WithPool \cup WithKernelMap, NEW i \in Pages!Active,
         NEW u \in Pages!ChunkFrames(mem_chunks[i]) \ used
  PROVE  /\ u \in Ram /\ u \in Pages!Managed /\ u \notin KeptPages
         /\ u \notin DOMAIN place
         /\ pc \in WithPool => u \in IdMapRegion
         /\ pc \in WithKernelMap => u \notin Image \ IdMapRegion
         /\ pc \in WithKernelMap \ PoolFreed => u \notin Image
<1>1. u \in Pages!Managed /\ Pages!Bitmaps \subseteq used
  BY Members, CallPhases DEF UsedOK
<1>2. FdtFrames(tree) \cap Image = {}
  BY TreeAssumption DEF DataOK
<1>3. HeldFrames \subseteq used
  BY DEF HeldFrames, HeldOK
<1>4. \A t \in DOMAIN place : place[t].root \in {IdRoot, KernelRoot}
  BY DEF TablesOK, IsForest, Placed, Place
<1>5. CASE pc \in WithPool
  <2>1. u \in IdMapRegion
    BY <1>5 DEF ChunksOK
  <2>2. u \in Ram /\ u # KernelRoot /\ u \in Image
    BY <2>1, LayoutFacts
  <2>3. u \notin KeptPages
    BY <1>1, <1>2, <1>3, <2>1, <2>2 DEF KeptPages
  <2>4. TablesOf(place, KernelRoot) = {KernelRoot} /\ TablesOf(place, IdRoot) \subseteq used
    BY <1>5, CallPhases DEF TablesOK
  <2>5. u \notin DOMAIN place
    BY <1>4, <2>2, <2>4 DEF TablesOf
  <2>q. QED
    BY <1>1, <1>5, <2>1, <2>2, <2>3, <2>5, CallPhases
<1>6. CASE pc \in WithKernelMap
  <2>1. pc \in ImageReserved /\ pc \in BlobReserved /\ pc \in WithBanks /\ pc \notin WithPool
    BY <1>6, CallPhases
  <2>2. u \in Ram
    BY <1>1, <2>1, ManagedFacts
  <2>3. Image \ IdMapRegion \subseteq used /\ (BlobPlaced => FdtFrames(tree) \subseteq used)
    BY <2>1 DEF UsedOK
  <2>4. u \notin KeptPages
    BY <1>1, <1>3, <2>3 DEF KeptPages
  <2>5. pc \notin PoolFreed => Image \subseteq used
    BY <2>1 DEF UsedOK
  <2>6. TablesOf(place, KernelRoot) \subseteq used
    BY <1>6 DEF TablesOK
  <2>7. TablesOf(place, IdRoot) = {} \/ (TablesOf(place, IdRoot) \subseteq Image /\ pc \notin PoolFreed)
    BY <2>1, CallPhases, LayoutFacts DEF TablesOK
  <2>8. u \notin DOMAIN place
    BY <1>4, <2>5, <2>6, <2>7 DEF TablesOf
  <2>q. QED
    BY <1>1, <1>6, <2>1, <2>2, <2>3, <2>4, <2>5, <2>8
<1>q. QED
  BY <1>5, <1>6

\* A page of the right kind everywhere, and a typed call.
LEMMA TableTyped ==
  PagesOK' /\ ok' \in BOOLEAN /\ (call' # Null => call' \in Call) => TableTypeOK'
<1> SUFFICES ASSUME PagesOK', ok' \in BOOLEAN, call' # Null => call' \in Call PROVE TableTypeOK'
  OBVIOUS
<1>1. DOMAIN pages' = Ram /\ \A f \in Ram : pages'[f] \in TablePage \cup {Code, Blob, Bits, Junk}
  BY DEF PagesOK
<1>2. ASSUME NEW f \in Ram, pages'[f] \notin {Code, Blob, Bits, Junk}
      PROVE  DOMAIN pages'[f] \subseteq Slots /\ \A i \in DOMAIN pages'[f] : pages'[f][i] \in Entry
  BY <1>1, <1>2, TablePages
<1>3. call' # Null => call'.level \in 0 .. 3
  BY DEF Call
<1>q. QED
  BY <1>1, <1>2, <1>3 DEF TableTypeOK, IsTable

\* One level down, with the request as it was.
LEMMA GoDownFacts ==
  ASSUME call \in Call, call.level < 3, NEW t \in Int, GoDown(t)
  PROVE  /\ call' \in Call /\ call' # Null /\ ok' = ok
         /\ call'.root = call.root /\ call'.v = call.v /\ call'.p = call.p
         /\ call'.perms = call.perms /\ call'.type = call.type
         /\ call'.level = call.level + 1 /\ call'.table = t
<1>1. call' = [call EXCEPT !.level = @ + 1, !.table = t] /\ ok' = ok
  BY DEF GoDown
<1>2. /\ call'.root = call.root /\ call'.v = call.v /\ call'.p = call.p
      /\ call'.perms = call.perms /\ call'.type = call.type
      /\ call'.level = call.level + 1 /\ call'.table = t
  BY <1>1 DEF Call
<1>3. call' \in Call
  <2> DEFINE c == [call EXCEPT !.level = @ + 1]
  <2>1. c \in Call
    BY DEF Call
  <2>2. call' = [c EXCEPT !.table = t]
    BY <1>1
  <2> HIDE DEF c
  <2>q. QED
    BY <2>1, <2>2 DEF Call
<1>4. call' # Null
  BY <1>3, TableAssumption
<1>q. QED
  BY <1>1, <1>2, <1>3, <1>4

\* What the steps of map_page leave alone.
LEMMA MapStepFrame ==
  ASSUME TypeOK, DataOK, CallOK, RegistersOK, UNCHANGED bootVars, call # Null,
         kernel_base_va' = kernel_base_va,
         Pages!TypeOK', PagesOK', ok' \in BOOLEAN,
         call' # Null => call' \in Call /\ call'.v = call.v /\ call'.root = call.root
  PROVE  TypeOK' /\ DataOK' /\ CallOK' /\ RegistersOK' /\ SameMemoryPhase /\ SameTablePhase
<1>1. UNCHANGED <<tree, mmap, reg_map, pc, n, bank, entry, ttbr0, ttbr1, mmu, ptr, held, steps>>
  BY DEF bootVars, treeVars, machVars
<1>2. TableTypeOK'
  BY TableTyped
<1>3. TypeOK'
  BY <1>1, <1>2 DEF TypeOK
<1>4. DataOK'
  BY <1>1 DEF DataOK
<1>5. CallOK'
  BY <1>1 DEF CallOK
<1>6. RegistersOK'
  BY <1>1 DEF RegistersOK
<1>7. pc # "halted"
  BY CallPhases DEF CallOK
<1>8. SameMemoryPhase /\ SameTablePhase
  BY <1>1, <1>7 DEF SameMemoryPhase, SameTablePhase
<1>q. QED
  BY <1>3, <1>4, <1>5, <1>6, <1>8

\* A step that makes no translation makes no progress: map_page fails, or goes
\* down.
LEMMA ProgressStays ==
  ASSUME TypeOK, IdProgress, KernelProgress, call # Null, UNCHANGED bootVars, asked' = asked, SameChunks,
         \/ call' = Null /\ ok' = FALSE
         \/ /\ call' # Null /\ ok' = ok /\ call'.root = call.root /\ call'.v = call.v /\ call'.p = call.p
            /\ call'.perms = call.perms /\ call'.type = call.type
  PROVE  IdProgress' /\ KernelProgress'
<1>1. UNCHANGED <<tree, mmap, pc, n, bank, ttbr1>> /\ n \in Nat
  BY DEF bootVars, treeVars, machVars, TypeOK
<1>2. Pages!Managed' = Pages!Managed
  BY SameGeometry DEF SameChunks
<1>3. call' # Null => Done' = Done /\ Translation(call') = Translation(call)
  BY <1>1 DEF Done, Translation
<1>4. call' # Null => /\ ok' = ok /\ call'.root = call.root /\ call'.v = call.v /\ call'.p = call.p
                      /\ call'.perms = call.perms /\ call'.type = call.type
  OBVIOUS
<1>5. IdProgress'
  <2>1. CASE call' = Null /\ ok' = FALSE
    BY <1>1, <2>1 DEF IdProgress, CallIs
  <2>2. CASE call' # Null
    <3>1. pc' = "id_image" =>
            /\ ok' \/ call' # Null => \A j \in 0 .. (Done' - 1) : IdPage(ImageStart + j) \in asked'
            /\ CallIs(ImageStart + n - 1, RW(TRUE), NORMAL)'
      BY <1>1, <1>3, <1>4, <2>2 DEF IdProgress, CallIs
    <3>2. pc' = "id_uart" =>
            /\ ok' /\ Done' = 1 => UartPage(IdRoot) \in asked'
            /\ CallIs(Uart, RW(FALSE), DEVICE)' /\ n' \in 0 .. 1
      BY <1>1, <1>3, <1>4, <2>2 DEF IdProgress, CallIs
    <3>q. QED
      BY <1>1, <3>1, <3>2 DEF IdProgress
  <2>q. QED
    BY <2>1, <2>2
<1>6. BlobPlaced' <=> BlobPlaced
  BY <1>1 DEF BlobPlaced
<1>7. KernelProgress'
  <2>1. CASE call' = Null /\ ok' = FALSE
    BY <1>1, <1>2, <1>6, <2>1 DEF KernelProgress, CallIs
  <2>2. CASE call' # Null
    <3>1. pc' = "kernel_map" =>
            /\ \A k \in 1 .. (bank' - 1) : k \in DOMAIN mmap' =>
                 \A f \in Pages!Run(mmap'[k].frame, Pages!NumPages(mmap'[k].size)) : KernelPage(f) \in asked'
            /\ (ok' \/ call' # Null) /\ bank' \in DOMAIN mmap' =>
                 \A j \in 0 .. (Done' - 1) : KernelPage(mmap'[bank'].frame + j) \in asked'
            /\ call' # Null =>
                 /\ bank' \in DOMAIN mmap'
                 /\ CallIs(mmap[bank].frame + n - 1, RW(mmap[bank].frame + n - 1 \in Image), NORMAL)'
      BY <1>1, <1>3, <1>4, <2>2 DEF KernelProgress, CallIs
    <3>2. pc' = "kernel_uart" =>
            /\ ok' /\ Done' = 1 => UartPage(KernelRoot) \in asked'
            /\ CallIs(Uart, RW(FALSE), DEVICE)' /\ n' \in 0 .. 1
      BY <1>1, <1>3, <1>4, <2>2 DEF KernelProgress, CallIs
    <3>3. pc' \in {"icu", "run"} /\ call' # Null =>
            call'.v \notin Ram /\ (call'.v = Uart => call'.perms.read /\ Translation(call') = UartPage(KernelRoot))
      BY <1>1, <1>3, <1>4, <2>2 DEF KernelProgress
    <3>q. QED
      BY <1>1, <1>2, <1>6, <3>1, <3>2, <3>3 DEF KernelProgress
  <2>q. QED
    BY <2>1, <2>2
<1>q. QED
  BY <1>5, <1>7

\* They are memory, while a pool or banks are registered.
LEMMA KeptIsMemory ==
  ASSUME Pages!TypeOK, DataOK, ChunksOK, HeldOK, pc \in WithPool \cup WithBanks
  PROVE  KeptPages \subseteq Ram
<1>1. Pages!Bitmaps \subseteq Ram /\ HeldFrames \subseteq Ram
  <2>1. CASE pc \in WithPool
    <3>1. held = {}
      BY <2>1 DEF HeldOK, WithPool
    <3>2. ASSUME NEW i \in Pages!Active PROVE Pages!BitmapFrames(mem_chunks[i]) \subseteq Ram
      <4>1. i \in Pages!Slots /\ Pages!ChunkFrames(mem_chunks[i]) = IdMapRegion /\ mem_chunks[i].mem_base = IdMap
        BY <2>1 DEF ChunksOK, Pages!Active
      <4>2. Pages!BitmapFrames(mem_chunks[i]) \subseteq Pages!ChunkFrames(mem_chunks[i])
        <5>1. /\ mem_chunks[i].mem_base \in Nat /\ mem_chunks[i].total_pages \in Nat
              /\ Pages!BitmapPages(mem_chunks[i].total_pages) \in Nat
          BY <4>1, SlotType
        <5>2. mem_chunks[i].total_pages > 0
          <6>1. IdRoot \in Pages!ChunkFrames(mem_chunks[i])
            BY <4>1, LayoutFacts
          <6>q. QED
            BY <5>1, <6>1 DEF Pages!ChunkFrames, Pages!Run
        <5>3. Pages!BitmapPages(mem_chunks[i].total_pages) <= mem_chunks[i].total_pages
          BY <5>1, <5>2, BitmapPagesType
        <5>q. QED
          BY <5>1, <5>3 DEF Pages!BitmapFrames, Pages!ChunkFrames, Pages!Run
      <4>q. QED
        BY <4>1, <4>2, LayoutFacts
    <3>q. QED
      BY <3>1, <3>2, Members DEF HeldFrames
  <2>2. CASE pc \in WithBanks
    <3>1. Pages!Managed \subseteq Ram /\ Pages!Bitmaps \subseteq Ram
      BY <2>2, ManagedFacts
    <3>2. HeldFrames \subseteq Pages!Managed
      BY Members DEF HeldFrames, HeldOK
    <3>q. QED
      BY <3>1, <3>2
  <2>q. QED
    BY <2>1, <2>2
<1>q. QED
  BY <1>1, LayoutFacts DEF KeptPages

\* allocate_new_table fails: page_alloc has no page.
LEMMA AllocateFails ==
  ASSUME BootInv, call # Null, UNCHANGED bootVars, UNCHANGED <<pages, asked>>, Fail,
         Pages!TypeOK', SameChunks, UNCHANGED <<used, reserved, kernel_base_va>>
  PROVE  BootInv'
<1>0. /\ TypeOK /\ DataOK /\ CallOK /\ ChunksOK /\ UsedOK /\ PagesOK /\ ContentsOK /\ HeldOK
      /\ IdProgress /\ KernelProgress /\ RegistersOK /\ call' = Null /\ ok' = FALSE
  BY DEF BootInv, Fail
<1>1. PagesOK'
  BY <1>0 DEF PagesOK
<1>2. TypeOK' /\ DataOK' /\ CallOK' /\ RegistersOK' /\ SameMemoryPhase /\ SameTablePhase
  BY <1>0, <1>1, MapStepFrame
<1>3. IdProgress' /\ KernelProgress'
  BY <1>0, ProgressStays
<1>4. UNCHANGED <<held, tree, mmap, bank, ttbr1>>
  BY DEF bootVars, treeVars, machVars
<1>5. ChunksOK' /\ UsedOK' /\ ContentsOK' /\ HeldOK'
  BY <1>0, <1>2, <1>4, MemoryStays
<1>6. PICK place : TablesOK(place)
  BY DEF BootInv
<1>7. TablesOK(place)'
  BY <1>0, <1>2, <1>4, <1>6, TablesStay
<1>q. QED
  BY <1>0, <1>1, <1>2, <1>3, <1>5, <1>7 DEF BootInv

\* get_next_level_table follows an entry that is valid already.
LEMMA FollowStep ==
  ASSUME BootInv, FollowEntry, UNCHANGED bootVars
  PROVE  BootInv'
<1>0. /\ TypeOK /\ DataOK /\ CallOK /\ ChunksOK /\ UsedOK /\ PagesOK /\ ContentsOK /\ HeldOK
      /\ IdProgress /\ KernelProgress /\ RegistersOK /\ Pages!TypeOK
  BY DEF BootInv, TypeOK
<1>1. /\ call # Null /\ call.level < 3 /\ CallEntry.valid
      /\ UNCHANGED <<mem_chunks, used, kernel_base_va, live, reserved, result, pages, asked>>
  BY DEF FollowEntry, Walking, allocVars
<1>2. Pages!TypeOK' /\ SameChunks
  BY <1>0, <1>1 DEF Pages!TypeOK, SameChunks
<1>3. CASE Fail
  BY <1>1, <1>2, <1>3, AllocateFails
<1>4. CASE GoDown(CallEntry.frame)
  <2>1. PICK place : TablesOK(place)
    BY DEF BootInv
  <2> DEFINE t == call.table
             i == CallIndex
             u == CallEntry.frame
  <2>2. /\ t \in DOMAIN place /\ place[t].level = call.level /\ Valid(t, i) /\ CallEntry = pages[t][i]
        /\ Below(place[t], i) = [root |-> call.root, level |-> call.level + 1,
                                 v |-> Prefix(call.v, call.level + 1)]
    BY <1>0, <1>1, <2>1, WalkFacts
  <2>3. u \in DOMAIN place /\ place[u] = Below(place[t], i)
    BY <1>1, <2>1, <2>2 DEF TablesOK, IsForest, LeadsDown, Valid
  <2>4. u \in Int
    <3> HIDE DEF u, t, i
    <3>1. u \in Ram
      BY <2>1, <2>3 DEF TablesOK, IsForest, Placed
    <3>q. QED
      BY <3>1, LayoutFacts
  <2>5. call \in Call
    BY <1>0, <1>1 DEF CallOK
  <2> HIDE DEF u, t, i
  <2>6. /\ call' \in Call /\ call' # Null /\ ok' = ok
        /\ call'.root = call.root /\ call'.v = call.v /\ call'.p = call.p
        /\ call'.perms = call.perms /\ call'.type = call.type
        /\ call'.level = call.level + 1 /\ call'.table = u
    BY <1>1, <1>4, <2>4, <2>5, GoDownFacts DEF u
  <2>7. call'.table \in DOMAIN place /\ place[call'.table] = Walked'
    BY <2>2, <2>3, <2>6 DEF Walked
  <2>8. PagesOK' /\ ok' \in BOOLEAN
    BY <1>0, <1>1, <2>6 DEF PagesOK, TypeOK, TableTypeOK
  <2>9. TypeOK' /\ DataOK' /\ CallOK' /\ RegistersOK' /\ SameMemoryPhase /\ SameTablePhase
    BY <1>0, <1>1, <1>2, <2>6, <2>8, MapStepFrame
  <2>10. IdProgress' /\ KernelProgress'
    BY <1>0, <1>1, <1>2, <2>6, ProgressStays
  <2>11. UNCHANGED <<held, tree, mmap, bank, ttbr1>>
    BY DEF bootVars, treeVars, machVars
  <2>12. ChunksOK' /\ UsedOK' /\ ContentsOK' /\ HeldOK'
    BY <1>0, <1>1, <1>2, <2>9, <2>11, MemoryStays
  <2>13. TablesOK(place)'
    BY <1>1, <1>2, <2>1, <2>7, <2>9, <2>11, TablesStay
  <2>q. QED
    BY <2>8, <2>9, <2>10, <2>12, <2>13 DEF BootInv
<1>q. QED
  BY <1>3, <1>4 DEF FollowEntry

\* allocate_new_table links a new table.
LEMMA AllocateStep ==
  ASSUME BootInv, allocate_new_table, UNCHANGED bootVars
  PROVE  BootInv'
<1>0. /\ TypeOK /\ DataOK /\ CallOK /\ ChunksOK /\ UsedOK /\ PagesOK /\ ContentsOK /\ HeldOK
      /\ IdProgress /\ KernelProgress /\ RegistersOK /\ Pages!TypeOK
  BY DEF BootInv, TypeOK
<1>1. call # Null /\ call.level < 3 /\ ~CallEntry.valid /\ asked' = asked /\ Pages!page_alloc(1)
  BY DEF allocate_new_table, Walking
<1>6. PICK u, t, i : u = result'.frame /\ t = call.table /\ i = CallIndex
  OBVIOUS
<1>2. /\ Pages!TypeOK' /\ UNCHANGED <<mem_chunks, kernel_base_va, reserved>>
      /\ \/ u = Null /\ used' = used
         \/ \E k \in Pages!Active :
              /\ u \in Nat /\ u # Null /\ u \in Pages!Run(u, 1)
              /\ Pages!Run(u, 1) \subseteq Pages!ChunkFrames(mem_chunks[k]) \ used
              /\ used' = used \cup Pages!Run(u, 1)
  BY <1>0, <1>1, <1>6, PageAlloc
<1>3. SameChunks
  BY <1>2 DEF SameChunks
<1>4. CASE u = Null
  <2>1. Fail /\ pages' = pages /\ used' = used
    BY <1>2, <1>4, <1>6 DEF allocate_new_table
  <2>q. QED
    BY <1>1, <1>2, <1>3, <2>1, AllocateFails
<1>5. CASE u # Null
  <2>1. PICK place : TablesOK(place)
    BY DEF BootInv
  <2>2. /\ t \in DOMAIN place /\ t \in Ram /\ pages[t] \in TablePage /\ i \in Slots
        /\ place[t].level = call.level /\ place[t].root = call.root /\ ~Valid(t, i)
        /\ Below(place[t], i) = [root |-> call.root, level |-> call.level + 1,
                                 v |-> Prefix(call.v, call.level + 1)]
    BY <1>0, <1>1, <1>6, <2>1, WalkFacts
  <2>3. /\ pages' = WriteEntry(page_table_init(pages, u), t, i, TableDesc(u))
        /\ GoDown(u)
    BY <1>5, <1>6 DEF allocate_new_table
  <2>4. PICK k \in Pages!Active :
          /\ u \in Nat /\ u \in Pages!ChunkFrames(mem_chunks[k]) \ used /\ used' = used \cup {u}
    <3>1. u \in Nat => Pages!Run(u, 1) = {u}
      BY DEF Pages!Run
    <3>q. QED
      BY <1>2, <1>5, <3>1
  <2>5. pc \in MapCalls /\ call \in Call /\ call.root = IF pc \in {"id_image", "id_uart"} THEN IdRoot ELSE KernelRoot
    BY <1>0, <1>1 DEF CallOK
  <2>6. pc \in WithPool \cup WithKernelMap /\ (pc \in WithPool <=> pc \in {"id_image", "id_uart"})
    BY <2>5, CallPhases
  <2>7. /\ u \in Ram /\ u \in Pages!Managed /\ u \notin KeptPages
        /\ u \notin DOMAIN place
        /\ pc \in WithPool => u \in IdMapRegion
        /\ pc \in WithKernelMap \ PoolFreed => u \notin Image
    BY <1>0, <2>1, <2>4, <2>6, FreshFrame
  <2>11. PICK more : more = [x \in DOMAIN place \cup {u} |-> IF x = u THEN Below(place[t], i) ELSE place[x]]
    OBVIOUS
  <2>8. DOMAIN pages = Ram
    BY <1>0 DEF PagesOK
  <2>9. IsForest(place)
    BY <2>1 DEF TablesOK
  <2>10. /\ DOMAIN more = DOMAIN place \cup {u} /\ more[u] = Below(place[t], i)
         /\ \A x \in DOMAIN place : more[x] = place[x]
    BY <2>7, <2>11
  <2>12. IsForest(more)'
    <3>1. /\ IsForest(place) /\ DOMAIN pages = Ram /\ asked' = asked /\ t \in DOMAIN place
          /\ place[t].level < 3 /\ i \in Slots /\ ~Valid(t, i) /\ u \in Ram /\ u \notin DOMAIN place
          /\ pages' = WriteEntry(page_table_init(pages, u), t, i, TableDesc(u))
      BY <1>1, <2>2, <2>3, <2>7, <2>8, <2>9
    <3>q. QED
      BY <2>11, <3>1, AddTable
  <2>13. /\ call' \in Call /\ call' # Null /\ ok' = ok
         /\ call'.root = call.root /\ call'.v = call.v /\ call'.p = call.p
         /\ call'.perms = call.perms /\ call'.type = call.type
         /\ call'.level = call.level + 1 /\ call'.table = u
    BY <1>1, <2>3, <2>4, <2>5, GoDownFacts
  <2>14. DOMAIN pages' = Ram /\ \A f \in Ram \ {t, u} : pages'[f] = pages[f]
    BY <2>2, <2>3, <2>7, <2>8 DEF WriteEntry, page_table_init
  <2>15. pages'[t] \in TablePage /\ pages'[u] \in TablePage
    BY <2>2, <2>10, <2>12 DEF IsForest, Placed
  <2>16. PagesOK' /\ ok' \in BOOLEAN
    <3>1. pages' = [f \in Ram |-> pages'[f]]
      BY <2>3, <2>8 DEF WriteEntry, page_table_init
    <3>2. \A f \in Ram : pages'[f] \in TablePage \cup {Code, Blob, Bits, Junk}
      BY <1>0, <2>14, <2>15 DEF PagesOK
    <3>q. QED
      BY <1>0, <2>13, <3>1, <3>2 DEF PagesOK, TypeOK, TableTypeOK
  <2>17. TypeOK' /\ DataOK' /\ CallOK' /\ RegistersOK' /\ SameMemoryPhase /\ SameTablePhase
    BY <1>0, <1>1, <1>2, <2>13, <2>16, MapStepFrame
  <2>18. IdProgress' /\ KernelProgress'
    BY <1>0, <1>1, <1>3, <2>13, ProgressStays
  <2>19. UNCHANGED <<held, tree, mmap, bank, ttbr1, pc>>
    BY DEF bootVars, treeVars, machVars
  <2>20. KeptPages \subseteq Ram /\ t \notin KeptPages
    BY <1>0, <2>2, <2>6, KeptIsNoTable, KeptIsMemory, CallPhases
  <2>21. pc \notin BeforePool \cup {"id_root"}
    BY <2>5, CallPhases
  <2>22. ChunksOK' /\ UsedOK' /\ ContentsOK' /\ HeldOK'
    BY <1>0, <1>3, <2>4, <2>7, <2>14, <2>17, <2>19, <2>20, <2>21, MemoryStays
  <2>23. TablesOK(more)'
    <3>1. /\ TablesOf(more, call.root) = TablesOf(place, call.root) \cup {u}
          /\ \A r : r # call.root => TablesOf(more, r) = TablesOf(place, r)
      <4>1. more[u].root = call.root
        BY <2>2, <2>10
      <4>q. QED
        BY <2>7, <2>10, <4>1 DEF TablesOf
    <3>2. call'.table \in DOMAIN more /\ more[call'.table] = Walked'
      BY <2>2, <2>10, <2>13 DEF Walked
    <3>3. Pages!Managed' = Pages!Managed /\ Pages!Bitmaps' = Pages!Bitmaps /\ HeldFrames' = HeldFrames
      BY <1>3, <2>19, SameGeometry DEF SameChunks, HeldFrames
    <3>4. IdRoot # KernelRoot /\ KernelRoot \in Image /\ KernelRoot \notin IdMapRegion
      BY LayoutFacts
    <3>5. /\ KernelRoot \in DOMAIN more /\ more[KernelRoot].level = 0
          /\ pc \in {"id_image", "id_uart"} \cup IdMapDone => IdRoot \in DOMAIN more /\ more[IdRoot].level = 0
      BY <2>1, <2>10 DEF TablesOK
    <3>6. CASE pc \in WithPool
      <4>1. call.root = IdRoot /\ pc \notin {"memory"} \cup WithBanks /\ pc \notin IdMapGone /\ pc \notin WithKernelMap
        BY <2>5, <2>6, <3>6, CallPhases
      <4>2. TablesOf(more, IdRoot) = TablesOf(place, IdRoot) \cup {u} /\ TablesOf(more, KernelRoot) = TablesOf(place, KernelRoot)
        BY <3>1, <3>4, <4>1
      <4>q. QED
        BY <1>2, <2>1, <2>4, <2>7, <2>12, <2>13, <2>19, <2>21, <3>2, <3>3, <3>5, <3>6, <4>1, <4>2 DEF TablesOK
    <3>7. CASE pc \notin WithPool
      <4>1. call.root = KernelRoot /\ pc \in WithKernelMap
        BY <2>5, <2>6, <3>7
      <4>2. TablesOf(more, KernelRoot) = TablesOf(place, KernelRoot) \cup {u} /\ TablesOf(more, IdRoot) = TablesOf(place, IdRoot)
        BY <3>1, <3>4, <4>1
      <4>3. u # KernelRoot
        BY <2>1, <2>7 DEF TablesOK
      <4>4. pc \in {"memory"} \cup WithBanks =>
              used' \cap Pages!Managed =
               (Pages!Bitmaps \cup reserved \cup (TablesOf(more, KernelRoot) \ {KernelRoot}) \cup HeldFrames)
                 \cap Pages!Managed
        BY <2>1, <2>4, <2>7, <4>2, <4>3 DEF TablesOK
      <4>q. QED
        BY <1>2, <2>1, <2>4, <2>7, <2>12, <2>13, <2>19, <3>2, <3>3, <3>5, <3>7, <4>1, <4>2, <4>4 DEF TablesOK
    <3>q. QED
      BY <3>6, <3>7
  <2>q. QED
    BY <2>16, <2>17, <2>18, <2>22, <2>23 DEF BootInv
<1>q. QED
  BY <1>4, <1>5

\* The leaf map_page writes means what it was asked for.
LEMMA DescMeaning ==
  ASSUME call \in Call, NEW e, e = PageDesc(call.p, call.perms, call.type)
  PROVE  /\ e \in Entry /\ e.valid = call.perms.read
         /\ call.perms.read => Meaning(call.root, call.v, e) = Translation(call)
<1> DEFINE perms == call.perms
<1>1. /\ perms.read \in BOOLEAN /\ perms.write \in BOOLEAN /\ perms.execute \in BOOLEAN
      /\ perms.user_accessible \in BOOLEAN
      /\ call.p \in Int /\ call.type \in {DEVICE, NORMAL}
  BY DEF Call, Permissions
<1>2. Access(perms) = IF perms.write THEN (IF perms.user_accessible THEN 1 ELSE 0)
                                     ELSE (IF perms.user_accessible THEN 3 ELSE 2)
  BY <1>1 DEF Access, AP_PRIV_RW, AP_PRIV_UNPRIV_RW, AP_PRIV_RO, AP_PRIV_UNPRIV_RO
<1>3. /\ e = [valid |-> perms.read, frame |-> call.p, ap |-> IF perms.read THEN Access(perms) ELSE 0,
              xn |-> ~perms.execute, attr |-> call.type]
  BY DEF PageDesc
<1>4. /\ e.valid = perms.read /\ e.frame = call.p /\ e.ap = (IF perms.read THEN Access(perms) ELSE 0)
      /\ e.xn = ~perms.execute /\ e.attr = call.type
  BY <1>3
<1>5. e.ap \in 0 .. 3
  BY <1>2, <1>4
<1>6. e \in Entry
  BY <1>1, <1>3, <1>4, <1>5 DEF Entry
<1>7. ASSUME perms.read
      PROVE  Meaning(call.root, call.v, e) = Translation(call)
  <2>1. (e.ap \in {AP_PRIV_RW, AP_PRIV_UNPRIV_RW}) = perms.write
    BY <1>1, <1>2, <1>4, <1>7 DEF AP_PRIV_RW, AP_PRIV_UNPRIV_RW
  <2>2. (e.ap \in {AP_PRIV_UNPRIV_RW, AP_PRIV_UNPRIV_RO}) = perms.user_accessible
    BY <1>1, <1>2, <1>4, <1>7 DEF AP_PRIV_UNPRIV_RW, AP_PRIV_UNPRIV_RO
  <2>3. (~e.xn) = perms.execute
    BY <1>1, <1>4
  <2>4. (e.attr = DEVICE) = (call.type = DEVICE)
    BY <1>4
  <2>q. QED
    BY <1>4, <2>1, <2>2, <2>3, <2>4 DEF Meaning, Translation
<1>q. QED
  BY <1>4, <1>6, <1>7

\* What the translations of the maps are for.
LEMMA PageFields ==
  \A f : /\ IdPage(f).root = IdRoot /\ IdPage(f).v = f
         /\ KernelPage(f).root = KernelRoot /\ KernelPage(f).v = f
         /\ UartPage(f).root = f /\ UartPage(f).v = Uart
  BY DEF IdPage, KernelPage, UartPage, Translation, Request

\* Where the kernel map is under construction, TTBR1 is not set.
LEMMA CallRegisters ==
  ASSUME RegistersOK, pc \in MapCalls, pc \notin {"icu", "run"}
  PROVE  ttbr1 = Null
  BY DEF RegistersOK, MapCalls, MmuOn, IdMapGone, PoolFreed

\* The translation map_page was called for is made, and no other is lost.
LEMMA LeafProgress ==
  ASSUME TypeOK, DataOK, ChunksOK, CallOK, RegistersOK, IdProgress, KernelProgress, call # Null, call' = Null,
         UNCHANGED bootVars, SameChunks,
         asked' = {a \in asked : <<a.root, a.v>> # <<call.root, call.v>>}
                  \cup (IF call.perms.read THEN {Translation(call)} ELSE {})
  PROVE  IdProgress' /\ KernelProgress'
<1>1. UNCHANGED <<tree, mmap, pc, n, bank, ttbr1>> /\ n \in Nat
  BY DEF bootVars, treeVars, machVars, TypeOK
<1>2. Pages!Managed' = Pages!Managed
  BY SameGeometry DEF SameChunks
<1>3. BlobPlaced' <=> BlobPlaced
  BY <1>1 DEF BlobPlaced
<1>4. /\ pc \in MapCalls /\ call.root = IF pc \in {"id_image", "id_uart"} THEN IdRoot ELSE KernelRoot
      /\ IdRoot # KernelRoot /\ Image \subseteq Ram /\ Uart \notin Ram
  BY LayoutFacts DEF CallOK
<1>5. \A a \in asked : a.root # call.root \/ a.v # call.v => a \in asked'
  OBVIOUS
<1>6. call.perms.read => Translation(call) \in asked'
  OBVIOUS
<1>7. Done' = n /\ Done = n - 1
  BY <1>1 DEF Done
<1>8. \A x : RW(x).read
  BY DEF RW
<1>9. pc \in WithBanks => RegionFramesOf(mmap) \subseteq Ram
  BY ManagedFacts DEF TypeOK
<1>10. CASE pc = "id_image"
  <2>1. /\ call.v = ImageStart + n - 1 /\ n > 0 /\ Translation(call) = IdPage(call.v) /\ call.perms.read
    BY <1>4, <1>8, <1>10 DEF IdProgress, CallIs, IdPage, Translation, Request
  <2>2. \A f : IdPage(f) \in asked => IdPage(f) \in asked'
    BY <1>5, <1>6, <2>1, PageFields
  <2>3. \A j \in 0 .. (Done - 1) : IdPage(ImageStart + j) \in asked
    BY <1>10 DEF IdProgress
  <2>4. IdPage(ImageStart + (n - 1)) \in asked'
    BY <1>1, <1>6, <2>1, LayoutAssumption
  <2>5. \A j \in 0 .. (n - 1) : j \in 0 .. (n - 2) \/ j = n - 1
    BY <1>1
  <2>6. \A j \in 0 .. (n - 1) : IdPage(ImageStart + j) \in asked'
    BY <1>1, <1>7, <2>2, <2>3, <2>4, <2>5
  <2>7. IdProgress'
    BY <1>1, <1>7, <1>10, <2>6 DEF IdProgress, CallIs, IdMapDone, WithBanks, WithKernelMap
  <2>8. ttbr1 = Null
    BY <1>4, <1>10, CallRegisters
  <2>9. KernelProgress'
    BY <1>1, <1>10, <2>8 DEF KernelProgress, KernelMapDone, WithKernelMap
  <2>q. QED
    BY <2>7, <2>9
<1>11. CASE pc = "id_uart"
  <2>1. call.v = Uart /\ Translation(call) = UartPage(IdRoot) /\ call.perms.read /\ n \in 0 .. 1
    BY <1>4, <1>8, <1>11 DEF IdProgress, CallIs, UartPage, Translation, Request
  <2>2. \A f \in Image : IdPage(f) \in asked'
    <3>1. \A f \in Image : IdPage(f) \in asked
      BY <1>11 DEF IdProgress
    <3>2. \A f \in Image : f # Uart
      BY <1>4
    <3>q. QED
      BY <1>5, <2>1, <3>1, <3>2, PageFields
  <2>3. UartPage(IdRoot) \in asked'
    BY <1>6, <2>1
  <2>4. IdProgress'
    BY <1>1, <1>11, <2>1, <2>2, <2>3 DEF IdProgress, CallIs
  <2>5. ttbr1 = Null
    BY <1>4, <1>11, CallRegisters
  <2>6. KernelProgress'
    BY <1>1, <1>11, <2>5 DEF KernelProgress, KernelMapDone, WithKernelMap
  <2>q. QED
    BY <2>4, <2>6
<1>12. CASE pc \notin {"id_image", "id_uart"}
  <2>1. call.root = KernelRoot
    BY <1>4, <1>12
  <2>2. \A a \in asked : a.root = IdRoot => a \in asked'
    BY <1>4, <1>5, <2>1
  <2>3. IdProgress'
    <3>1. pc' \in IdMapDone => \A f \in Image : IdPage(f) \in asked'
      BY <1>1, <2>2, PageFields DEF IdProgress
    <3>2. pc' \in IdMapDone => UartPage(IdRoot) \in asked'
      BY <1>1, <2>2, PageFields DEF IdProgress
    <3>q. QED
      BY <1>1, <1>12, <3>1, <3>2 DEF IdProgress
  <2>4. pc \in WithBanks
    BY <1>4, <1>12 DEF MapCalls, WithBanks, WithKernelMap
  <2>5. CASE pc = "kernel_map"
    <3>1. /\ bank \in DOMAIN mmap /\ call.v = mmap[bank].frame + n - 1 /\ n > 0
          /\ Translation(call) = KernelPage(call.v) /\ call.perms.read
      BY <1>8, <2>1, <2>5 DEF KernelProgress, CallIs, KernelPage, Translation, Request
    <3>2. \A f : KernelPage(f) \in asked => KernelPage(f) \in asked'
      BY <1>5, <1>6, <3>1, PageFields
    <3>3. \A j \in 0 .. (Done - 1) : KernelPage(mmap[bank].frame + j) \in asked
      BY <2>5, <3>1 DEF KernelProgress
    <3>4. mmap[bank].frame \in Nat
      BY <2>4, <3>1, BankFacts DEF DataOK, IsRegion
    <3>5. KernelPage(mmap[bank].frame + (n - 1)) \in asked'
      BY <1>1, <1>6, <3>1, <3>4
    <3>6. \A j \in 0 .. (n - 1) : j \in 0 .. (n - 2) \/ j = n - 1
      BY <1>1
    <3>7. \A j \in 0 .. (n - 1) : KernelPage(mmap[bank].frame + j) \in asked'
      BY <1>1, <1>7, <3>2, <3>3, <3>5, <3>6
    <3>8. \A k \in 1 .. (bank - 1) : k \in DOMAIN mmap =>
            \A f \in Pages!Run(mmap[k].frame, Pages!NumPages(mmap[k].size)) : KernelPage(f) \in asked'
      BY <2>5, <3>2 DEF KernelProgress
    <3>9. ttbr1 = Null
      BY <1>4, <2>5, CallRegisters
    <3>10. KernelProgress'
      BY <1>1, <1>7, <2>5, <3>7, <3>8, <3>9 DEF KernelProgress, CallIs, KernelMapDone
    <3>q. QED
      BY <2>3, <3>10
  <2>6. CASE pc = "kernel_uart"
    <3>1. call.v = Uart /\ Translation(call) = UartPage(KernelRoot) /\ call.perms.read /\ n \in 0 .. 1
      BY <1>8, <2>1, <2>6 DEF KernelProgress, CallIs, UartPage, Translation, Request
    <3>2. \A f \in RegionFramesOf(mmap) : KernelPage(f) \in asked'
      <4>1. \A f \in RegionFramesOf(mmap) : KernelPage(f) \in asked /\ f # Uart
        BY <1>4, <1>9, <2>4, <2>6 DEF KernelProgress
      <4>q. QED
        BY <1>5, <3>1, <4>1, PageFields
    <3>3. UartPage(KernelRoot) \in asked'
      BY <1>6, <3>1
    <3>4. ttbr1 = Null
      BY <1>4, <2>6, CallRegisters
    <3>5. KernelProgress'
      BY <1>1, <2>6, <3>1, <3>2, <3>3, <3>4 DEF KernelProgress, CallIs, KernelMapDone
    <3>q. QED
      BY <2>3, <3>5
  <2>7. CASE pc \in {"icu", "run"}
    <3>1. call.v \notin Ram /\ (call.v = Uart => call.perms.read /\ Translation(call) = UartPage(KernelRoot))
      BY <2>7 DEF KernelProgress
    <3>2. \A f \in RegionFramesOf(mmap) : KernelPage(f) \in asked'
      <4>1. \A f \in RegionFramesOf(mmap) : KernelPage(f) \in asked /\ f # call.v
        BY <1>9, <2>4, <2>7, <3>1 DEF KernelProgress, KernelMapDone, WithKernelMap
      <4>q. QED
        BY <1>5, <4>1, PageFields
    <3>3. UartPage(KernelRoot) \in asked
      BY <2>7 DEF KernelProgress, KernelMapDone, WithKernelMap
    <3>4. UartPage(KernelRoot) \in asked'
      BY <1>5, <1>6, <3>1, <3>3, PageFields
    <3>5. KernelProgress'
      BY <1>1, <1>2, <1>3, <2>7, <3>2, <3>4 DEF KernelProgress, KernelMapDone, WithKernelMap
    <3>q. QED
      BY <2>3, <3>5
  <2>q. QED
    BY <1>4, <1>12, <2>5, <2>6, <2>7 DEF MapCalls
<1>q. QED
  BY <1>10, <1>11, <1>12

\* The leaf is written.
LEMMA LeafStep ==
  ASSUME BootInv, WriteLeaf, UNCHANGED bootVars
  PROVE  BootInv'
<1>0. /\ TypeOK /\ DataOK /\ CallOK /\ ChunksOK /\ UsedOK /\ PagesOK /\ ContentsOK /\ HeldOK
      /\ IdProgress /\ KernelProgress /\ RegistersOK /\ Pages!TypeOK
  BY DEF BootInv, TypeOK
<1>1. /\ call # Null /\ call.level = 3 /\ call' = Null /\ ok' = TRUE
      /\ UNCHANGED <<mem_chunks, used, kernel_base_va, live, reserved, result>>
  BY DEF WriteLeaf, allocVars
<1>2. PICK t, i, e : t = call.table /\ i = CallIndex /\ e = PageDesc(call.p, call.perms, call.type)
  OBVIOUS
<1>3. /\ pages' = WriteEntry(pages, t, i, e)
      /\ asked' = {a \in asked : <<a.root, a.v>> # <<call.root, call.v>>}
                  \cup (IF call.perms.read THEN {Translation(call)} ELSE {})
  BY <1>2 DEF WriteLeaf
<1>4. Pages!TypeOK' /\ SameChunks
  BY <1>0, <1>1 DEF Pages!TypeOK, SameChunks
<1>5. PICK place : TablesOK(place)
  BY DEF BootInv
<1>6. /\ t \in DOMAIN place /\ t \in Ram /\ pages[t] \in TablePage /\ i \in Slots
      /\ place[t].level = 3 /\ place[t].root = call.root
      /\ place[t].v * PtrsPerTable + i = call.v
  BY <1>0, <1>1, <1>2, <1>5, WalkFacts
<1>7. call \in Call /\ pc \in MapCalls
  BY <1>0, <1>1 DEF CallOK
<1>8. e \in Entry /\ e.valid = call.perms.read /\ (call.perms.read => Meaning(call.root, call.v, e) = Translation(call))
  BY <1>2, <1>7, DescMeaning
<1>9. IsForest(place) /\ DOMAIN pages = Ram
  BY <1>0, <1>5 DEF TablesOK, PagesOK
<1>10. PICK root, v : root = place[t].root /\ v = place[t].v * PtrsPerTable + i
  OBVIOUS
<1>11. asked' = {a \in asked : <<a.root, a.v>> # <<root, v>>}
                \cup (IF e.valid THEN {Meaning(root, v, e)} ELSE {})
  BY <1>3, <1>6, <1>8, <1>10
<1>12. IsForest(place)'
  BY <1>3, <1>6, <1>8, <1>9, <1>10, <1>11, LeafWritten
<1>13. /\ DOMAIN pages' = Ram /\ \A f \in Ram \ {t} : pages'[f] = pages[f]
       /\ pages'[t] \in TablePage
  BY <1>3, <1>6, <1>8, <1>9, Written
<1>14. PagesOK'
  <2>1. pages' = [f \in Ram |-> pages'[f]]
    BY <1>3, <1>9 DEF WriteEntry
  <2>2. \A f \in Ram : pages'[f] \in TablePage \cup {Code, Blob, Bits, Junk}
    BY <1>0, <1>13 DEF PagesOK
  <2>q. QED
    BY <2>1, <2>2 DEF PagesOK
<1>15. TypeOK' /\ DataOK' /\ CallOK' /\ RegistersOK' /\ SameMemoryPhase /\ SameTablePhase
  BY <1>0, <1>1, <1>4, <1>14, MapStepFrame
<1>16. IdProgress' /\ KernelProgress'
  BY <1>0, <1>1, <1>3, <1>4, LeafProgress
<1>17. UNCHANGED <<held, tree, mmap, bank, ttbr1, pc>>
  BY DEF bootVars, treeVars, machVars
<1>18. KeptPages \subseteq Ram /\ t \notin KeptPages
  BY <1>0, <1>6, <1>7, KeptIsNoTable, KeptIsMemory, CallPhases
<1>19. pc \notin BeforePool \cup {"id_root"}
  BY <1>7, CallPhases
<1>20. ChunksOK' /\ UsedOK' /\ ContentsOK' /\ HeldOK'
  BY <1>0, <1>1, <1>4, <1>13, <1>15, <1>17, <1>18, <1>19, MemoryStays
<1>21. TablesOK(place)'
  <2>1. Pages!Managed' = Pages!Managed /\ Pages!Bitmaps' = Pages!Bitmaps /\ HeldFrames' = HeldFrames
    BY <1>4, <1>17, SameGeometry DEF SameChunks, HeldFrames
  <2>q. QED
    BY <1>1, <1>5, <1>12, <1>17, <2>1 DEF TablesOK
<1>q. QED
  BY <1>14, <1>15, <1>16, <1>20, <1>21 DEF BootInv

----
(* The callers of map_page *)

\* A call that starts makes no progress yet.
LEMMA StartProgress ==
  ASSUME TypeOK, IdProgress, KernelProgress, call = Null, SameChunks,
         UNCHANGED <<tree, mmap, pc, bank, ttbr1, asked>>, pc = "run" \/ (ok /\ n' = n + 1),
         (call' = Null /\ ok' = FALSE) \/ (call' # Null /\ ok' = ok),
         pc = "id_image" => CallIs(ImageStart + n - 1, RW(TRUE), NORMAL)',
         pc = "id_uart" => CallIs(Uart, RW(FALSE), DEVICE)' /\ n = 0,
         pc = "kernel_map" =>
           /\ bank \in DOMAIN mmap
           /\ CallIs(mmap[bank].frame + n - 1, RW(mmap[bank].frame + n - 1 \in Image), NORMAL)',
         pc = "kernel_uart" => CallIs(Uart, RW(FALSE), DEVICE)' /\ n = 0,
         pc \in {"icu", "run"} /\ call' # Null =>
           call'.v \notin Ram /\ (call'.v = Uart => call'.perms.read /\ Translation(call') = UartPage(KernelRoot))
  PROVE  IdProgress' /\ KernelProgress'
<1>1. n \in Nat /\ Pages!Managed' = Pages!Managed
  BY SameGeometry DEF SameChunks, TypeOK
<1>2. Done = n /\ (call' # Null => Done' = n' - 1)
  BY DEF Done
<1>3. pc # "run" /\ call' # Null => Done' = Done /\ ok' = ok /\ ok
  BY <1>1, <1>2
<1>4. BlobPlaced' <=> BlobPlaced
  BY DEF BlobPlaced
<1>5. IdProgress'
  <2>1. pc' = "id_image" =>
          /\ ok' \/ call' # Null => \A j \in 0 .. (Done' - 1) : IdPage(ImageStart + j) \in asked'
          /\ CallIs(ImageStart + n - 1, RW(TRUE), NORMAL)'
    BY <1>3 DEF IdProgress
  <2>2. pc' = "id_uart" =>
          /\ ok' /\ Done' = 1 => UartPage(IdRoot) \in asked'
          /\ CallIs(Uart, RW(FALSE), DEVICE)' /\ n' \in 0 .. 1
    <3> SUFFICES ASSUME pc' = "id_uart"
                 PROVE  /\ ok' /\ Done' = 1 => UartPage(IdRoot) \in asked'
                        /\ CallIs(Uart, RW(FALSE), DEVICE)' /\ n' \in 0 .. 1
      OBVIOUS
    <3>1. pc = "id_uart"
      OBVIOUS
    <3>2. n = 0 /\ n' = n + 1 /\ CallIs(Uart, RW(FALSE), DEVICE)'
      BY <3>1
    <3>3. n' = 1
      BY <3>2
    <3>4. call' # Null => Done' = 0
      BY <1>2, <3>3
    <3>5. call' = Null => ok' = FALSE
      OBVIOUS
    <3>6. ~(ok' /\ Done' = 1)
      BY <3>4, <3>5
    <3>7. n' \in 0 .. 1
      BY <3>3
    <3>q. QED
      BY <3>2, <3>6, <3>7
  <2>q. QED
    BY <2>1, <2>2 DEF IdProgress
<1>6. KernelProgress'
  <2>1. pc' = "kernel_map" =>
          /\ \A k \in 1 .. (bank' - 1) : k \in DOMAIN mmap' =>
               \A f \in Pages!Run(mmap'[k].frame, Pages!NumPages(mmap'[k].size)) : KernelPage(f) \in asked'
          /\ (ok' \/ call' # Null) /\ bank' \in DOMAIN mmap' =>
               \A j \in 0 .. (Done' - 1) : KernelPage(mmap'[bank'].frame + j) \in asked'
          /\ call' # Null =>
               /\ bank' \in DOMAIN mmap'
               /\ CallIs(mmap[bank].frame + n - 1, RW(mmap[bank].frame + n - 1 \in Image), NORMAL)'
    BY <1>3 DEF KernelProgress
  <2>2. pc' = "kernel_uart" =>
          /\ ok' /\ Done' = 1 => UartPage(KernelRoot) \in asked'
          /\ CallIs(Uart, RW(FALSE), DEVICE)' /\ n' \in 0 .. 1
    <3> SUFFICES ASSUME pc' = "kernel_uart"
                 PROVE  /\ ok' /\ Done' = 1 => UartPage(KernelRoot) \in asked'
                        /\ CallIs(Uart, RW(FALSE), DEVICE)' /\ n' \in 0 .. 1
      OBVIOUS
    <3>1. pc = "kernel_uart"
      OBVIOUS
    <3>2. n = 0 /\ n' = n + 1 /\ CallIs(Uart, RW(FALSE), DEVICE)'
      BY <3>1
    <3>3. n' = 1
      BY <3>2
    <3>4. call' # Null => Done' = 0
      BY <1>2, <3>3
    <3>5. call' = Null => ok' = FALSE
      OBVIOUS
    <3>6. ~(ok' /\ Done' = 1)
      BY <3>4, <3>5
    <3>7. n' \in 0 .. 1
      BY <3>3
    <3>q. QED
      BY <3>2, <3>6, <3>7
  <2>3. pc' \in {"icu", "run"} /\ call' # Null =>
          call'.v \notin Ram /\ (call'.v = Uart => call'.perms.read /\ Translation(call') = UartPage(KernelRoot))
    OBVIOUS
  <2>q. QED
    BY <1>1, <1>4, <2>1, <2>2, <2>3 DEF KernelProgress
<1>q. QED
  BY <1>5, <1>6

\* What map_page makes of a request.
LEMMA CallMade ==
  ASSUME NEW root \in Int, NEW v \in VirtualPages, NEW p \in Int, NEW offset, NEW perms \in Permissions,
         NEW type \in {DEVICE, NORMAL}, map_page(Request(root, v, p, offset, perms, type))
  PROVE  /\ call = Null /\ UNCHANGED <<pages, asked>>
         /\ \/ call' = Null /\ ok' = FALSE
            \/ /\ call' # Null /\ ok' = ok /\ call' \in Call /\ call'.root = root /\ call'.v = v /\ call'.p = p
               /\ call'.perms = perms /\ call'.type = type /\ call'.level = 0 /\ call'.table = root
<1>1. call = Null /\ UNCHANGED <<pages, asked>>
  BY DEF map_page
<1>2. CASE offset # 0
  BY <1>1, <1>2 DEF map_page, Request
<1>3. CASE offset = 0
  <2>1. call' = [root |-> root, v |-> v, p |-> p, perms |-> perms, type |-> type,
                 level |-> 0, table |-> root] /\ ok' = ok
    BY <1>3 DEF map_page, Request
  <2>2. call' \in Call
    BY <2>1, LayoutFacts DEF Call
  <2>q. QED
    BY <1>1, <2>1, <2>2, TableAssumption
<1>q. QED
  BY <1>2, <1>3

\* A call starts at the root of the map that is being built.
LEMMA CallStarts ==
  ASSUME BootInv, pc \in MapCalls,
         NEW root, root = IF pc \in {"id_image", "id_uart"} THEN IdRoot ELSE KernelRoot,
         NEW v \in VirtualPages, NEW p \in Int, NEW offset, NEW perms \in Permissions,
         NEW type \in {DEVICE, NORMAL}, map_page(Request(root, v, p, offset, perms, type)),
         UNCHANGED <<allocVars, treeVars, pc, bank, machVars, held>>,
         n' \in Nat, steps' \in 0 .. MaxSteps, IdProgress', KernelProgress'
  PROVE  BootInv'
<1>0. /\ TypeOK /\ DataOK /\ CallOK /\ ChunksOK /\ UsedOK /\ PagesOK /\ ContentsOK /\ HeldOK
      /\ RegistersOK /\ Pages!TypeOK
  BY DEF BootInv, TypeOK
<1>1. UNCHANGED <<mem_chunks, used, kernel_base_va, live, reserved, result, tree, mmap, reg_map, pc, bank,
                  entry, ttbr0, ttbr1, mmu, ptr, held>>
  BY DEF allocVars, treeVars, machVars
<1>2. root \in Int
  BY LayoutFacts
<1>3. /\ call = Null /\ UNCHANGED <<pages, asked>>
      /\ \/ call' = Null /\ ok' = FALSE
         \/ /\ call' # Null /\ ok' = ok /\ call' \in Call /\ call'.root = root /\ call'.v = v
            /\ call'.level = 0 /\ call'.table = root
  BY <1>2, CallMade
<1>4. Pages!TypeOK' /\ SameChunks /\ PagesOK'
  BY <1>0, <1>1, <1>3 DEF Pages!TypeOK, SameChunks, PagesOK
<1>5. ok' \in BOOLEAN
  BY <1>0, <1>3 DEF TypeOK, TableTypeOK
<1>6. TableTypeOK'
  BY <1>3, <1>4, <1>5, TableTyped
<1>7. TypeOK'
  BY <1>0, <1>1, <1>4, <1>6 DEF TypeOK
<1>8. DataOK' /\ RegistersOK'
  BY <1>0, <1>1 DEF DataOK, RegistersOK
<1>9. CallOK'
  BY <1>1, <1>3 DEF CallOK
<1>10. pc # "halted"
  BY CallPhases
<1>11. SameMemoryPhase /\ SameTablePhase
  BY <1>1, <1>10 DEF SameMemoryPhase, SameTablePhase
<1>12. ChunksOK' /\ UsedOK' /\ ContentsOK' /\ HeldOK'
  BY <1>0, <1>1, <1>3, <1>4, <1>11, MemoryStays
<1>13. PICK place : TablesOK(place)
  BY DEF BootInv
<1>14. /\ root \in DOMAIN place /\ place[root].level = 0 /\ place[root] \in Place
       /\ place[root].root = root /\ place[root].v = 0
  <2>1. root \in DOMAIN place /\ place[root].level = 0
    <3>1. CASE pc \in {"id_image", "id_uart"}
      BY <1>13, <3>1 DEF TablesOK
    <3>2. CASE pc \notin {"id_image", "id_uart"}
      BY <1>13, <3>2 DEF TablesOK
    <3>q. QED
      BY <3>1, <3>2
  <2>q. QED
    BY <1>13, <2>1 DEF TablesOK, IsForest, Placed
<1>15. place[root] = [root |-> root, level |-> 0, v |-> 0]
  BY <1>14 DEF Place
<1>16. call' # Null => call'.table \in DOMAIN place /\ place[call'.table] = Walked'
  BY <1>3, <1>14, <1>15 DEF Walked, Prefix
<1>17. TablesOK(place)'
  BY <1>1, <1>3, <1>4, <1>11, <1>13, <1>16, TablesStay
<1>q. QED
  BY <1>4, <1>7, <1>8, <1>9, <1>12, <1>17 DEF BootInv

\* What boot passes to map_page.
LEMMA Arguments ==
  /\ \A v \in VirtualPages : v \in Nat /\ v \in Int
  /\ \A f \in Ram : f \in VirtualPages
  /\ IdRoot \in Int /\ KernelRoot \in Int /\ Uart \in VirtualPages
  /\ RW(TRUE) \in Permissions /\ RW(FALSE) \in Permissions
  /\ \A f : RW(f \in Image) \in Permissions
<1>1. /\ RW(TRUE) \in Permissions /\ RW(FALSE) \in Permissions
      /\ \A f : RW(f \in Image) \in Permissions
  BY DEF RW, Permissions
<1>2. \A v \in VirtualPages : v \in Nat /\ v \in Int
  BY LayoutFacts
<1>3. IdRoot \in Int /\ KernelRoot \in Int
  <2>1. IdRoot \in Nat /\ KernelRoot \in Nat
    BY LayoutFacts
  <2>q. QED
    BY <2>1
<1>q. QED
  BY <1>1, <1>2, <1>3, LayoutFacts

\* setup_kernel_id_map maps a page of the image.
LEMMA MapIdImageStep ==
  ASSUME BootInv, MapIdImage
  PROVE  BootInv'
<1>0. TypeOK /\ IdProgress /\ KernelProgress /\ n \in Nat
  BY DEF BootInv, TypeOK
<1>1. /\ pc = "id_image" /\ n < ImagePages /\ ok /\ n' = n + 1
      /\ map_page(Request(IdRoot, ImageStart + n, ImageStart + n, 0, RW(TRUE), NORMAL))
      /\ UNCHANGED <<allocVars, treeVars, pc, bank, machVars, held, steps>>
  BY DEF MapIdImage, MapNext, At
<1>2. UNCHANGED <<tree, mmap, ttbr1, mem_chunks>>
  BY <1>1 DEF treeVars, machVars, allocVars
<1>3. ImageStart + n \in VirtualPages /\ ImageStart + n \in Int /\ ImageStart \in Nat
  <2>1. ImageStart \in Nat /\ Image = Pages!Run(ImageStart, ImagePages) /\ ImagePages \in Nat
    BY LayoutAssumption DEF ImagePages
  <2>2. ImageStart + n \in Image
    BY <1>0, <1>1, <2>1 DEF Pages!Run
  <2>3. ImageStart + n \in VirtualPages
    BY <2>2, LayoutFacts
  <2>q. QED
    BY <1>0, <2>1, <2>3
<1>4. IdRoot \in Int /\ RW(TRUE) \in Permissions
  BY Arguments
<1>5. /\ call = Null /\ UNCHANGED <<pages, asked>>
      /\ \/ call' = Null /\ ok' = FALSE
         \/ /\ call' # Null /\ ok' = ok /\ call'.v = ImageStart + n /\ call'.p = ImageStart + n
            /\ call'.perms = RW(TRUE) /\ call'.type = NORMAL
  BY <1>1, <1>3, <1>4, CallMade
<1>6. CallIs(ImageStart + n - 1, RW(TRUE), NORMAL)'
  <2>1. ImageStart + n' - 1 = ImageStart + n /\ n' > 0
    BY <1>0, <1>1, <1>3
  <2>q. QED
    BY <1>5, <2>1 DEF CallIs
<1>7. IdProgress' /\ KernelProgress'
  BY <1>0, <1>1, <1>2, <1>5, <1>6, StartProgress DEF SameChunks
<1>8. n' \in Nat /\ steps' \in 0 .. MaxSteps /\ pc \in MapCalls
  BY <1>0, <1>1 DEF TypeOK, MapCalls
<1>q. QED
  BY <1>1, <1>3, <1>4, <1>7, <1>8, CallStarts

\* setup_kernel_id_map and main map the UART.
LEMMA MapUartStep ==
  ASSUME BootInv, MapIdUart \/ MapKernelUart
  PROVE  BootInv'
<1>0. TypeOK /\ IdProgress /\ KernelProgress /\ n \in Nat
  BY DEF BootInv, TypeOK
<1>1. PICK root \in {IdRoot, KernelRoot} :
        /\ pc = IF root = IdRoot THEN "id_uart" ELSE "kernel_uart"
        /\ n = 0 /\ ok /\ n' = n + 1
        /\ map_page(Request(root, Uart, Uart, 0, RW(FALSE), DEVICE))
        /\ UNCHANGED <<allocVars, treeVars, pc, bank, machVars, held, steps>>
  BY LayoutFacts DEF MapIdUart, MapKernelUart, MapNext, At
<1>2. UNCHANGED <<tree, mmap, ttbr1, mem_chunks>>
  BY <1>1 DEF treeVars, machVars, allocVars
<1>3. Uart \in VirtualPages /\ Uart \in Int /\ root \in Int /\ RW(FALSE) \in Permissions
  BY Arguments
<1>4. /\ call = Null /\ UNCHANGED <<pages, asked>>
      /\ \/ call' = Null /\ ok' = FALSE
         \/ /\ call' # Null /\ ok' = ok /\ call'.v = Uart /\ call'.p = Uart
            /\ call'.perms = RW(FALSE) /\ call'.type = DEVICE
  BY <1>1, <1>3, CallMade
<1>5. CallIs(Uart, RW(FALSE), DEVICE)'
  <2>1. n' > 0
    BY <1>1
  <2>q. QED
    BY <1>4, <2>1 DEF CallIs
<1>6. IdProgress' /\ KernelProgress'
  BY <1>0, <1>1, <1>2, <1>4, <1>5, StartProgress DEF SameChunks
<1>7. n' \in Nat /\ steps' \in 0 .. MaxSteps /\ pc \in MapCalls
  BY <1>0, <1>1 DEF TypeOK, MapCalls
<1>8. root = IF pc \in {"id_image", "id_uart"} THEN IdRoot ELSE KernelRoot
  BY <1>1
<1>q. QED
  BY <1>1, <1>3, <1>6, <1>7, <1>8, CallStarts

\* setup_kernel_map maps a page of a bank.
LEMMA MapMemStep ==
  ASSUME BootInv, map_mem_region
  PROVE  BootInv'
<1>0. TypeOK /\ DataOK /\ IdProgress /\ KernelProgress /\ n \in Nat
  BY DEF BootInv, TypeOK
<1> DEFINE f == mmap[bank].frame + n
           offset == mmap[bank].offset
<1>1. /\ pc = "kernel_map" /\ n < Pages!NumPages(mmap[bank].size) /\ ok /\ n' = n + 1 /\ bank <= Len(mmap)
      /\ map_page(Request(KernelRoot, f, f, offset, RW(f \in Image), NORMAL))
      /\ UNCHANGED <<allocVars, treeVars, pc, bank, machVars, held, steps>>
  BY DEF map_mem_region, MapNext, At, RegionPages
<1>2. UNCHANGED <<tree, mmap, ttbr1, mem_chunks>>
  BY <1>1 DEF treeVars, machVars, allocVars
<1>3. bank \in DOMAIN mmap /\ mmap[bank].frame \in Nat /\ f \in Ram
  <2>1. tree \in Trees /\ MemoryReadable(tree) /\ mmap = Banks(tree)
    BY <1>0, <1>1 DEF DataOK, WithBanks, WithKernelMap
  <2>2. bank \in DOMAIN mmap
    BY <1>0, <1>1, <2>1, BankFacts DEF TypeOK
  <2>3. IsRegion(mmap[bank]) /\ RegionFramesOf(mmap) \subseteq Ram
    BY <2>1, <2>2, BankFacts
  <2>4. Pages!NumPages(mmap[bank].size) \in Nat /\ mmap[bank].frame \in Nat
    BY <2>3, NumPagesType DEF IsRegion
  <2>5. f \in Pages!Run(mmap[bank].frame, Pages!NumPages(mmap[bank].size))
    BY <1>0, <1>1, <2>4 DEF Pages!Run
  <2>q. QED
    BY <2>2, <2>3, <2>4, <2>5, RegionFramesMembers
<1>4. f \in VirtualPages /\ f \in Int /\ KernelRoot \in Int /\ RW(f \in Image) \in Permissions
  BY <1>3, Arguments
<1>5. mmap'[bank'].frame + n' - 1 = f /\ n' > 0
  BY <1>0, <1>1, <1>2, <1>3
<1> HIDE DEF f, offset
<1>6. /\ call = Null /\ UNCHANGED <<pages, asked>>
      /\ \/ call' = Null /\ ok' = FALSE
         \/ /\ call' # Null /\ ok' = ok /\ call'.v = f /\ call'.p = f
            /\ call'.perms = RW(f \in Image) /\ call'.type = NORMAL
  BY <1>1, <1>4, CallMade
<1>7. CallIs(mmap[bank].frame + n - 1, RW(mmap[bank].frame + n - 1 \in Image), NORMAL)'
  BY <1>5, <1>6 DEF CallIs
<1>8. IdProgress' /\ KernelProgress'
  BY <1>0, <1>1, <1>2, <1>3, <1>6, <1>7, StartProgress DEF SameChunks
<1>9. n' \in Nat /\ steps' \in 0 .. MaxSteps /\ pc \in MapCalls
  BY <1>0, <1>1 DEF TypeOK, MapCalls
<1>q. QED
  <2>1. KernelRoot = IF pc \in {"id_image", "id_uart"} THEN IdRoot ELSE KernelRoot
    BY <1>1
  <2>q. QED
    BY <1>1, <1>4, <1>8, <1>9, <2>1, CallStarts

\* gicv3_init maps a page of the controller's registers.
LEMMA MapContinuousStep ==
  ASSUME BootInv, map_continuous
  PROVE  BootInv'
<1>0. TypeOK /\ DataOK /\ IdProgress /\ KernelProgress /\ n \in Nat
  BY DEF BootInv, TypeOK
<1> DEFINE f == reg_map[bank].frame + n
           offset == reg_map[bank].offset
<1>1. /\ pc = "icu" /\ n < Pages!NumPages(reg_map[bank].size) /\ ok /\ n' = n + 1 /\ bank <= Len(reg_map)
      /\ map_page(Request(KernelRoot, f, f, offset, RW(FALSE), DEVICE))
      /\ UNCHANGED <<allocVars, treeVars, pc, bank, machVars, held, steps>>
  BY DEF map_continuous, MapNext, At
<1>2. UNCHANGED <<tree, mmap, ttbr1, mem_chunks>>
  BY <1>1 DEF treeVars, machVars, allocVars
<1>3. f \in VirtualPages \ Ram
  <2>1. tree \in Trees /\ reg_map = GicRegions(tree.nodes)
    BY <1>0, <1>1 DEF DataOK, TypeOK
  <2>2. bank \in DOMAIN reg_map
    BY <1>0, <1>1, <2>1, GicFacts DEF TypeOK
  <2>3. IsRegion(reg_map[bank]) /\ RegionFramesOf(reg_map) \subseteq VirtualPages \ Ram
    BY <2>1, <2>2, GicFacts
  <2>4. Pages!NumPages(reg_map[bank].size) \in Nat /\ reg_map[bank].frame \in Nat
    BY <2>3, NumPagesType DEF IsRegion
  <2>5. f \in Pages!Run(reg_map[bank].frame, Pages!NumPages(reg_map[bank].size))
    BY <1>0, <1>1, <2>4 DEF Pages!Run
  <2>q. QED
    BY <2>2, <2>3, <2>5, RegionFramesMembers
<1>4. f \in VirtualPages /\ f \in Int /\ KernelRoot \in Int /\ RW(FALSE) \in Permissions
  BY <1>3, Arguments
<1> HIDE DEF f, offset
<1>5. /\ call = Null /\ UNCHANGED <<pages, asked>>
      /\ \/ call' = Null /\ ok' = FALSE
         \/ /\ call' # Null /\ ok' = ok /\ call'.root = KernelRoot /\ call'.v = f /\ call'.p = f
            /\ call'.perms = RW(FALSE) /\ call'.type = DEVICE
  BY <1>1, <1>4, CallMade
<1>6. call' # Null =>
        call'.v \notin Ram /\ (call'.v = Uart => call'.perms.read /\ Translation(call') = UartPage(KernelRoot))
  BY <1>3, <1>5 DEF UartPage, Translation, Request, RW
<1>7. IdProgress' /\ KernelProgress'
  BY <1>0, <1>1, <1>2, <1>5, <1>6, StartProgress DEF SameChunks
<1>8. n' \in Nat /\ steps' \in 0 .. MaxSteps /\ pc \in MapCalls
  BY <1>0, <1>1 DEF TypeOK, MapCalls
<1>q. QED
  <2>1. KernelRoot = IF pc \in {"id_image", "id_uart"} THEN IdRoot ELSE KernelRoot
    BY <1>1
  <2>q. QED
    BY <1>1, <1>4, <1>7, <1>8, <2>1, CallStarts

\* A caller maps a page after boot.
LEMMA RunMapStep ==
  ASSUME BootInv, NEW m \in Mappings, RunMap(m)
  PROVE  BootInv'
<1>0. TypeOK /\ IdProgress /\ KernelProgress /\ n \in Nat
  BY DEF BootInv, TypeOK
<1>1. /\ pc = "run" /\ steps < MaxSteps /\ steps' = steps + 1 /\ n' = n
      /\ map_page(Request(KernelRoot, m.v, m.p, m.offset, m.perms, m.type))
      /\ UNCHANGED <<allocVars, treeVars, pc, bank, machVars, held>>
  BY DEF RunMap, RunCall, At
<1>2. UNCHANGED <<tree, mmap, ttbr1, mem_chunks>>
  BY <1>1 DEF treeVars, machVars, allocVars
<1>3. /\ m.v \in VirtualPages /\ m.p \in Int /\ m.perms \in Permissions /\ m.type \in {DEVICE, NORMAL}
      /\ KernelRoot \in Int /\ m.v \notin Ram /\ m.v # Uart
  BY LayoutFacts, CallerAssumption
<1>4. /\ call = Null /\ UNCHANGED <<pages, asked>>
      /\ \/ call' = Null /\ ok' = FALSE
         \/ call' # Null /\ ok' = ok /\ call'.v = m.v
  BY <1>1, <1>3, CallMade
<1>5. IdProgress' /\ KernelProgress'
  BY <1>0, <1>1, <1>2, <1>3, <1>4, StartProgress DEF SameChunks
<1>6. n' \in Nat /\ steps' \in 0 .. MaxSteps /\ pc \in MapCalls
  BY <1>0, <1>1, CallerAssumption DEF TypeOK, MapCalls
<1>q. QED
  <2>1. KernelRoot = IF pc \in {"id_image", "id_uart"} THEN IdRoot ELSE KernelRoot
    BY <1>1
  <2>q. QED
    BY <1>1, <1>3, <1>5, <1>6, <2>1, CallStarts

----
(* Steps of boot that write no memory *)

\* Boot gives up, or goes on in the same phase.
SamePhase ==
  \/ pc' = "halted"
  \/ pc \in BeforePool /\ pc' \in BeforePool
  \/ pc \in {"id_image", "id_uart"} /\ pc' \in {"id_image", "id_uart"}
  \/ pc \in WithKernelMap \ IdMapGone /\ pc' \in WithKernelMap \ IdMapGone
  \/ pc \in PoolFreed /\ pc' \in PoolFreed

LEMMA PhaseStays ==
  ASSUME pc \notin {"halted", "run"}, SamePhase
  PROVE  SameMemoryPhase /\ SameTablePhase /\ pc' \notin {"banks", "id_root"}
<1>1. CASE pc' = "halted"
  BY <1>1 DEF SameMemoryPhase, SameTablePhase
<1>2. CASE pc' # "halted"
  <2>1. pc' \notin {"banks", "id_root"}
    BY <1>2 DEF SamePhase, BeforePool, WithKernelMap, PoolFreed
  <2>2. /\ pc \in BeforePool <=> pc' \in BeforePool
        /\ pc \in WithPool <=> pc' \in WithPool
        /\ pc \in {"memory"} <=> pc' \in {"memory"}
        /\ pc \in {"banks"} <=> pc' \in {"banks"}
        /\ pc \in {"id_image", "id_uart"} <=> pc' \in {"id_image", "id_uart"}
    BY <1>2 DEF SamePhase, BeforePool, WithPool, WithKernelMap, PoolFreed
  <2>3. /\ pc \in WithKernelMap <=> pc' \in WithKernelMap
        /\ pc \in PoolFreed <=> pc' \in PoolFreed
        /\ pc \in IdMapGone <=> pc' \in IdMapGone
    BY <1>2 DEF SamePhase, BeforePool, WithKernelMap, PoolFreed, IdMapGone
  <2>4. pc \notin {"banks", "fdt", "kernel_root"} /\ pc' \notin {"banks", "fdt", "kernel_root"}
    BY <1>2 DEF SamePhase, BeforePool, WithKernelMap, PoolFreed
  <2>5. /\ pc \in WithBanks <=> pc' \in WithBanks
        /\ pc \in ImageReserved <=> pc' \in ImageReserved
        /\ pc \in BlobReserved <=> pc' \in BlobReserved
    BY <2>3, <2>4 DEF WithBanks, ImageReserved, BlobReserved
  <2>6. pc \in IdMapDone <=> pc' \in IdMapDone
    BY <2>2, <2>3, <2>5 DEF IdMapDone
  <2>q. QED
    BY <2>1, <2>2, <2>3, <2>5, <2>6 DEF SameMemoryPhase, SameTablePhase, MemoryPhases, TablePhases
<1>q. QED
  BY <1>1, <1>2

\* Progress on the identity map, in a step that makes no translation.
LEMMA IdProgressKept ==
  ASSUME IdProgress, call' = Null, asked' = asked,
         pc' # "id_image" \/ n' = 0,
         pc' = "id_uart" => n' = 0 /\ \A f \in Image : IdPage(f) \in asked,
         pc' \in IdMapDone => \/ pc \in IdMapDone
                              \/ UartPage(IdRoot) \in asked /\ \A f \in Image : IdPage(f) \in asked
  PROVE  IdProgress'
<1>1. Done' = n'
  BY DEF Done
<1>2. "id_uart" \notin IdMapDone /\ "id_image" \notin IdMapDone
  BY DEF IdMapDone, WithBanks, WithKernelMap
<1>3. pc' \in {"id_uart"} \cup IdMapDone => \A f \in Image : IdPage(f) \in asked'
  BY DEF IdProgress
<1>4. pc' \in IdMapDone => UartPage(IdRoot) \in asked'
  BY DEF IdProgress
<1>5. pc' = "id_image" => /\ ok' \/ call' # Null => \A j \in 0 .. (Done' - 1) : IdPage(ImageStart + j) \in asked'
                          /\ CallIs(ImageStart + n - 1, RW(TRUE), NORMAL)'
  BY <1>1 DEF CallIs
<1>6. pc' = "id_uart" => /\ ok' /\ Done' = 1 => UartPage(IdRoot) \in asked'
                         /\ CallIs(Uart, RW(FALSE), DEVICE)' /\ n' \in 0 .. 1
  <2>1. CallIs(Uart, RW(FALSE), DEVICE)'
    BY DEF CallIs
  <2>2. pc' = "id_uart" => n' \in 0 .. 1 /\ Done' # 1
    BY <1>1
  <2>q. QED
    BY <2>1, <2>2
<1>q. QED
  BY <1>3, <1>4, <1>5, <1>6 DEF IdProgress

\* All banks and the UART are mapped, which is all of memory that is used.
KernelMapped ==
  /\ UartPage(KernelRoot) \in asked
  /\ \A f \in RegionFramesOf(mmap) : KernelPage(f) \in asked
  /\ Pages!Managed \cup Image \subseteq RegionFramesOf(mmap)
  /\ BlobPlaced => FdtFrames(tree) \subseteq RegionFramesOf(mmap)

\* Progress on the kernel map, likewise.
LEMMA KernelProgressKept ==
  ASSUME KernelProgress, call' = Null, UNCHANGED <<tree, mmap>>,
         \A a \in asked : a.root = KernelRoot => a \in asked',
         pc' = "kernel_map" =>
           /\ n' = 0
           /\ \/ bank' = 1
              \/ /\ pc = "kernel_map" /\ bank' = bank + 1 /\ bank \in Nat /\ bank \in DOMAIN mmap
                 /\ \A f \in Pages!Run(mmap[bank].frame, Pages!NumPages(mmap[bank].size)) : KernelPage(f) \in asked,
         pc' = "kernel_uart" => n' = 0 /\ \A f \in RegionFramesOf(mmap) : KernelPage(f) \in asked,
         pc' \in KernelMapDone \/ ttbr1' # Null =>
           Pages!Managed' \subseteq Pages!Managed /\ (pc \in KernelMapDone \/ ttbr1 # Null \/ KernelMapped)
  PROVE  KernelProgress'
<1>1. Done' = n'
  BY DEF Done
<1>2. BlobPlaced' <=> BlobPlaced
  BY DEF BlobPlaced
<1>3. UartPage(KernelRoot) \in asked => UartPage(KernelRoot) \in asked'
  BY PageFields
<1>4. \A f : KernelPage(f) \in asked => KernelPage(f) \in asked'
  BY PageFields
<1>5. pc' \in KernelMapDone \/ ttbr1' # Null => KernelMapped
  BY DEF KernelProgress, KernelMapped
<1>6. pc' \in KernelMapDone \/ ttbr1' # Null =>
        /\ UartPage(KernelRoot) \in asked'
        /\ \A f \in RegionFramesOf(mmap') : KernelPage(f) \in asked'
        /\ Pages!Managed' \cup Image \subseteq RegionFramesOf(mmap')
        /\ BlobPlaced' => FdtFrames(tree') \subseteq RegionFramesOf(mmap')
  BY <1>2, <1>3, <1>4, <1>5 DEF KernelMapped
<1>7. pc' = "kernel_uart" =>
        /\ \A f \in RegionFramesOf(mmap') : KernelPage(f) \in asked'
        /\ ok' /\ Done' = 1 => UartPage(KernelRoot) \in asked'
        /\ CallIs(Uart, RW(FALSE), DEVICE)' /\ n' \in 0 .. 1
  <2>1. CallIs(Uart, RW(FALSE), DEVICE)'
    BY DEF CallIs
  <2>2. pc' = "kernel_uart" => n' \in 0 .. 1 /\ Done' # 1
    BY <1>1
  <2>q. QED
    BY <1>4, <2>1, <2>2
<1>8. pc' = "kernel_map" =>
        /\ \A k \in 1 .. (bank' - 1) : k \in DOMAIN mmap' =>
             \A f \in Pages!Run(mmap'[k].frame, Pages!NumPages(mmap'[k].size)) : KernelPage(f) \in asked'
        /\ (ok' \/ call' # Null) /\ bank' \in DOMAIN mmap' =>
             \A j \in 0 .. (Done' - 1) : KernelPage(mmap'[bank'].frame + j) \in asked'
  <2> SUFFICES ASSUME pc' = "kernel_map"
               PROVE  /\ \A k \in 1 .. (bank' - 1) : k \in DOMAIN mmap' =>
                           \A f \in Pages!Run(mmap'[k].frame, Pages!NumPages(mmap'[k].size)) : KernelPage(f) \in asked'
                      /\ \A j \in 0 .. (Done' - 1) : KernelPage(mmap'[bank'].frame + j) \in asked'
    OBVIOUS
  <2>1. 0 .. (Done' - 1) = {}
    BY <1>1
  <2>2. CASE bank' = 1
    <3>1. 1 .. (bank' - 1) = {}
      BY <2>2
    <3>q. QED
      BY <2>1, <3>1
  <2>3. CASE /\ pc = "kernel_map" /\ bank' = bank + 1 /\ bank \in Nat /\ bank \in DOMAIN mmap
             /\ \A f \in Pages!Run(mmap[bank].frame, Pages!NumPages(mmap[bank].size)) : KernelPage(f) \in asked
    <3>1. ASSUME NEW k \in 1 .. (bank' - 1), k \in DOMAIN mmap
          PROVE  \A f \in Pages!Run(mmap[k].frame, Pages!NumPages(mmap[k].size)) : KernelPage(f) \in asked
      <4>1. k = bank \/ k \in 1 .. (bank - 1)
        BY <2>3
      <4>q. QED
        BY <2>3, <3>1, <4>1 DEF KernelProgress
    <3>q. QED
      BY <1>4, <2>1, <3>1
  <2>q. QED
    BY <2>2, <2>3
<1>q. QED
  BY <1>6, <1>7, <1>8 DEF KernelProgress

\* A step that stays in its phase, writes no memory and makes no translation.
LEMMA QuietStep ==
  ASSUME BootInv, call = Null, pc \notin {"halted", "run"}, SamePhase,
         UNCHANGED <<allocVars, pages, call, asked, tree, mmap, held, entry, steps>>,
         ok' \in BOOLEAN, pc' \in Labels, n' \in Nat, bank' \in Nat \ {0},
         reg_map' = reg_map \/ reg_map' = GicRegions(tree.nodes),
         ttbr0' \in {Null, IdRoot}, ttbr1' \in {Null, KernelRoot},
         mmu' \in [mair : BOOLEAN, tcr : BOOLEAN, epd0 : BOOLEAN, m : BOOLEAN, tlb : BOOLEAN],
         ptr' \in [exec : {Low, High}, uart0 : {Low, High, Null}, console : {Low, High, Null},
                   vbar : {Low, High, Null}],
         ttbr1' # Null => ttbr1 # Null \/ pc \in WithKernelMap,
         IdProgress', KernelProgress', RegistersOK'
  PROVE  BootInv'
<1>0. /\ TypeOK /\ DataOK /\ ChunksOK /\ UsedOK /\ PagesOK /\ ContentsOK /\ HeldOK /\ Pages!TypeOK
  BY DEF BootInv, TypeOK
<1>1. UNCHANGED <<mem_chunks, used, kernel_base_va, live, reserved, result>>
  BY DEF allocVars
<1>2. SameMemoryPhase /\ SameTablePhase /\ pc' \notin {"banks", "id_root"}
  BY PhaseStays
<1>3. Pages!TypeOK' /\ SameChunks /\ PagesOK'
  BY <1>0, <1>1 DEF Pages!TypeOK, SameChunks, PagesOK
<1>4. TableTypeOK'
  BY <1>3, TableTyped
<1>5. Len(reg_map') \in {0, 2}
  BY <1>0, GicFacts DEF TypeOK, DataOK
<1>6. TypeOK'
  BY <1>0, <1>3, <1>4, <1>5 DEF TypeOK
<1>7. DataOK'
  <2>1. pc' \in WithBanks => pc \in WithBanks
    BY <1>2, CallPhases DEF SameMemoryPhase, MemoryPhases
  <2>q. QED
    BY <1>0, <2>1 DEF DataOK
<1>8. CallOK'
  BY DEF CallOK
<1>9. ChunksOK' /\ UsedOK' /\ ContentsOK' /\ HeldOK'
  BY <1>0, <1>1, <1>2, <1>3, MemoryStays
<1>10. PICK place : TablesOK(place)
  BY DEF BootInv
<1>11. TablesOK(place)'
  BY <1>1, <1>2, <1>3, <1>10, TablesStay
<1>q. QED
  BY <1>3, <1>6, <1>7, <1>8, <1>9, <1>11 DEF BootInv

\* Likewise, with no register of the machine written.
PlainPhase ==
  \/ pc \in {"entry", "sctlr"} /\ pc' \in {"entry", "sctlr", "halted"}
  \/ /\ pc \in {"id_image", "id_uart", "kernel_map", "kernel_uart"}
     /\ \/ pc' = "halted"
        \/ pc \in {"id_image", "id_uart"} /\ pc' \in {"id_image", "id_uart"}
        \/ pc \in {"kernel_map", "kernel_uart"} /\ pc' \in {"kernel_map", "kernel_uart"}
  \/ pc \in PoolFreed /\ pc # "run" /\ pc' \in PoolFreed \cup {"halted"}

LEMMA PlainStep ==
  ASSUME BootInv, call = Null, PlainPhase,
         UNCHANGED <<allocVars, pages, call, asked, tree, mmap, machVars, held, steps>>,
         ok' \in BOOLEAN, n' = 0, bank' \in Nat \ {0},
         reg_map' = reg_map \/ reg_map' = GicRegions(tree.nodes), pc' # "id_image",
         pc' = "id_uart" => \A f \in Image : IdPage(f) \in asked,
         pc' = "kernel_map" =>
           /\ pc = "kernel_map" /\ bank' = bank + 1 /\ bank \in DOMAIN mmap
           /\ \A f \in Pages!Run(mmap[bank].frame, Pages!NumPages(mmap[bank].size)) : KernelPage(f) \in asked,
         pc' = "kernel_uart" => \A f \in RegionFramesOf(mmap) : KernelPage(f) \in asked
  PROVE  BootInv'
<1>0. TypeOK /\ IdProgress /\ KernelProgress /\ RegistersOK
  BY DEF BootInv
<1>1. UNCHANGED <<entry, ttbr0, ttbr1, mmu, ptr, mem_chunks, kernel_base_va>>
  BY DEF machVars, allocVars
<1>2. SamePhase /\ pc \notin {"halted", "run"}
  BY DEF PlainPhase, SamePhase, BeforePool, WithKernelMap, IdMapGone, PoolFreed
<1>3. RegistersOK'
  <2>1. CASE pc \in {"entry", "sctlr"} /\ pc' \in {"entry", "sctlr", "halted"}
    BY <1>0, <1>1, <2>1 DEF RegistersOK, MmuOn, IdMapGone, PoolFreed
  <2>2. CASE /\ pc \in {"id_image", "id_uart", "kernel_map", "kernel_uart"}
             /\ pc' \in {"id_image", "id_uart", "kernel_map", "kernel_uart", "halted"}
    BY <1>0, <1>1, <2>2 DEF RegistersOK, MmuOn, IdMapGone, PoolFreed
  <2>3. CASE pc \in PoolFreed /\ pc' \in PoolFreed \cup {"halted"}
    BY <1>0, <1>1, <2>3 DEF RegistersOK, MmuOn, IdMapGone, PoolFreed
  <2>q. QED
    BY <2>1, <2>2, <2>3 DEF PlainPhase
<1>4. IdProgress'
  <2>1. pc' \notin IdMapDone \/ pc \in IdMapDone
    BY DEF PlainPhase, IdMapDone, WithBanks, WithKernelMap, IdMapGone, PoolFreed
  <2>q. QED
    BY <1>0, <2>1, IdProgressKept
<1>5. KernelProgress'
  <2>1. pc' \notin KernelMapDone \/ pc \in KernelMapDone
    BY DEF PlainPhase, KernelMapDone, WithKernelMap, PoolFreed
  <2>2. Pages!Managed' = Pages!Managed
    BY <1>1, SameGeometry
  <2>3. bank \in Nat
    BY <1>0 DEF TypeOK
  <2>q. QED
    BY <1>0, <1>1, <2>1, <2>2, <2>3, KernelProgressKept
<1>6. pc' \in Labels
  BY DEF PlainPhase, Labels, PoolFreed
<1>7. /\ ttbr0' \in {Null, IdRoot} /\ ttbr1' \in {Null, KernelRoot}
      /\ mmu' \in [mair : BOOLEAN, tcr : BOOLEAN, epd0 : BOOLEAN, m : BOOLEAN, tlb : BOOLEAN]
      /\ ptr' \in [exec : {Low, High}, uart0 : {Low, High, Null}, console : {Low, High, Null},
                   vbar : {Low, High, Null}]
      /\ n' \in Nat
  BY <1>0, <1>1 DEF TypeOK
<1>q. QED
  BY <1>1, <1>2, <1>3, <1>4, <1>5, <1>6, <1>7, QuietStep

\* Every page of the image has been mapped when the loop ends.
LEMMA IdImageMappedStep ==
  ASSUME BootInv, IdImageMapped
  PROVE  BootInv'
<1>0. TypeOK /\ IdProgress
  BY DEF BootInv
<1>1. /\ pc = "id_image" /\ call = Null /\ ok /\ n = ImagePages /\ pc' = "id_uart" /\ n' = 0 /\ bank' = 1
      /\ UNCHANGED <<allocVars, tableVars, treeVars, machVars, held, steps>>
  BY DEF IdImageMapped, At, Goto
<1>2. UNCHANGED <<pages, call, ok, asked, tree, mmap, reg_map>> /\ ok' \in BOOLEAN
  BY <1>0, <1>1 DEF tableVars, treeVars, TypeOK, TableTypeOK
<1>3. ASSUME NEW f \in Image PROVE IdPage(f) \in asked
  <2>1. ImageStart \in Nat /\ Image = Pages!Run(ImageStart, ImagePages) /\ ImagePages \in Nat
    BY LayoutAssumption DEF ImagePages
  <2>2. PICK j \in 0 .. (n - 1) : f = ImageStart + j
    <3>1. f - ImageStart \in 0 .. (n - 1) /\ f = ImageStart + (f - ImageStart)
      BY <1>1, <2>1 DEF Pages!Run
    <3>q. QED
      BY <3>1
  <2>3. Done = n
    BY <1>1 DEF Done
  <2>q. QED
    BY <1>0, <1>1, <2>2, <2>3 DEF IdProgress
<1>4. PlainPhase
  BY <1>1 DEF PlainPhase
<1>q. QED
  BY <1>1, <1>2, <1>3, <1>4, PlainStep

\* Every page of a bank has been mapped when its loop ends ...
LEMMA RegionMappedStep ==
  ASSUME BootInv, RegionMapped
  PROVE  BootInv'
<1>0. TypeOK /\ DataOK /\ KernelProgress
  BY DEF BootInv
<1>1. /\ pc = "kernel_map" /\ call = Null /\ ok /\ bank <= Len(mmap) /\ n = Pages!NumPages(mmap[bank].size)
      /\ pc' = pc /\ n' = 0 /\ bank' = bank + 1
      /\ UNCHANGED <<allocVars, tableVars, treeVars, machVars, held, steps>>
  BY DEF RegionMapped, RegionPages, At
<1>2. UNCHANGED <<pages, call, ok, asked, tree, mmap, reg_map>> /\ ok' \in BOOLEAN
  BY <1>0, <1>1 DEF tableVars, treeVars, TypeOK, TableTypeOK
<1>3. bank \in DOMAIN mmap /\ mmap[bank].frame \in Nat /\ n \in Nat /\ bank' \in Nat \ {0}
  <2>1. tree \in Trees /\ MemoryReadable(tree) /\ mmap = Banks(tree)
    BY <1>0, <1>1 DEF DataOK, WithBanks, WithKernelMap
  <2>2. bank \in DOMAIN mmap /\ bank \in Nat /\ n \in Nat
    BY <1>0, <1>1, <2>1, BankFacts DEF TypeOK
  <2>3. IsRegion(mmap[bank])
    BY <2>1, <2>2, BankFacts
  <2>q. QED
    BY <1>1, <2>2, <2>3 DEF IsRegion
<1>4. ASSUME NEW f \in Pages!Run(mmap[bank].frame, Pages!NumPages(mmap[bank].size))
      PROVE  KernelPage(f) \in asked
  <2>1. PICK j \in 0 .. (n - 1) : f = mmap[bank].frame + j
    <3>1. f - mmap[bank].frame \in 0 .. (n - 1) /\ f = mmap[bank].frame + (f - mmap[bank].frame)
      BY <1>1, <1>3 DEF Pages!Run
    <3>q. QED
      BY <3>1
  <2>2. Done = n
    BY <1>1 DEF Done
  <2>q. QED
    BY <1>0, <1>1, <1>3, <2>1, <2>2 DEF KernelProgress
<1>5. PlainPhase
  BY <1>1 DEF PlainPhase
<1>q. QED
  BY <1>1, <1>2, <1>3, <1>4, <1>5, PlainStep

\* ... and every page of all banks at the end of the last.
LEMMA KernelMapDoneStep ==
  ASSUME BootInv, setup_kernel_map_done
  PROVE  BootInv'
<1>0. TypeOK /\ DataOK /\ KernelProgress
  BY DEF BootInv
<1>1. /\ pc = "kernel_map" /\ call = Null /\ ok /\ bank > Len(mmap)
      /\ pc' = "kernel_uart" /\ n' = 0 /\ bank' = 1
      /\ UNCHANGED <<allocVars, tableVars, treeVars, machVars, held, steps>>
  BY DEF setup_kernel_map_done, At, Goto
<1>2. UNCHANGED <<pages, call, ok, asked, tree, mmap, reg_map>> /\ ok' \in BOOLEAN
  BY <1>0, <1>1 DEF tableVars, treeVars, TypeOK, TableTypeOK
<1>3. ASSUME NEW f \in RegionFramesOf(mmap) PROVE KernelPage(f) \in asked
  <2>1. PICK k \in DOMAIN mmap : f \in Pages!Run(mmap[k].frame, Pages!NumPages(mmap[k].size))
    BY DEF RegionFramesOf
  <2>2. tree \in Trees /\ MemoryReadable(tree) /\ mmap = Banks(tree)
    BY <1>0, <1>1 DEF DataOK, WithBanks, WithKernelMap
  <2>3. k \in 1 .. (bank - 1)
    <3>1. DOMAIN mmap = 1 .. Len(mmap) /\ Len(mmap) \in Nat /\ bank \in Nat
      BY <1>0, <2>2, BankFacts DEF TypeOK
    <3>q. QED
      BY <1>1, <2>1, <3>1
  <2>q. QED
    BY <1>0, <1>1, <2>1, <2>3 DEF KernelProgress
<1>4. PlainPhase
  BY <1>1 DEF PlainPhase
<1>q. QED
  BY <1>1, <1>2, <1>3, <1>4, PlainStep

\* The entry, the ways to give up and the set-up of the interrupt controller.
LEMMA PlainSteps ==
  ASSUME BootInv,
         \/ primary_entry \/ MapFailed \/ icu_init \/ NextGicRegion \/ StartGic \/ pl011_register_handler
  PROVE  BootInv'
<1>0. TypeOK /\ ok \in BOOLEAN
  BY DEF BootInv, TypeOK, TableTypeOK
<1>1. CASE primary_entry
  <2>1. /\ pc = "entry" /\ call = Null /\ pc' \in {"sctlr", "halted"} /\ n' = 0 /\ bank' = 1
        /\ UNCHANGED <<allocVars, tableVars, treeVars, machVars, held, steps>>
    BY <1>1 DEF primary_entry, At, GotoIf, Goto, Halt
  <2>2. UNCHANGED <<pages, call, ok, asked, tree, mmap, reg_map>>
    BY <2>1 DEF tableVars, treeVars
  <2>3. PlainPhase
    BY <2>1 DEF PlainPhase
  <2>q. QED
    BY <1>0, <2>1, <2>2, <2>3, PlainStep
<1>2. CASE MapFailed
  <2>1. /\ pc \in {"id_image", "id_uart", "kernel_map", "kernel_uart"} /\ call = Null
        /\ pc' = "halted" /\ n' = 0 /\ bank' = 1
        /\ UNCHANGED <<allocVars, tableVars, treeVars, machVars, held, steps>>
    BY <1>2 DEF MapFailed, At, Goto, Halt
  <2>2. UNCHANGED <<pages, call, ok, asked, tree, mmap, reg_map>>
    BY <2>1 DEF tableVars, treeVars
  <2>3. PlainPhase
    BY <2>1 DEF PlainPhase
  <2>q. QED
    BY <1>0, <2>1, <2>2, <2>3, PlainStep
<1>3. CASE icu_init
  <2>1. /\ pc = "icu_init" /\ call = Null /\ pc' = "icu" /\ n' = 0 /\ bank' = 1
        /\ reg_map' = GicRegions(tree.nodes)
        /\ UNCHANGED <<allocVars, tableVars, tree, mmap, machVars, held, steps>>
    BY <1>3 DEF icu_init, At, Goto
  <2>2. UNCHANGED <<pages, call, ok, asked>>
    BY <2>1 DEF tableVars
  <2>3. PlainPhase
    BY <2>1 DEF PlainPhase, PoolFreed
  <2>q. QED
    BY <1>0, <2>1, <2>2, <2>3, PlainStep
<1>4. CASE NextGicRegion
  <2>1. /\ pc = "icu" /\ call = Null /\ pc' = "icu" /\ n' = 0 /\ bank' = bank + 1 /\ ok' = TRUE
        /\ UNCHANGED <<allocVars, pages, call, asked, treeVars, machVars, held, steps>>
    BY <1>4 DEF NextGicRegion, At
  <2>2. UNCHANGED <<tree, mmap, reg_map>> /\ bank' \in Nat \ {0}
    BY <1>0, <2>1 DEF treeVars, TypeOK
  <2>3. PlainPhase
    BY <2>1 DEF PlainPhase, PoolFreed
  <2>q. QED
    BY <2>1, <2>2, <2>3, PlainStep
<1>5. CASE StartGic \/ pl011_register_handler
  <2>1. /\ pc \in {"icu", "handlers"} /\ call = Null /\ pc' \in {"handlers", "run", "halted"}
        /\ n' = 0 /\ bank' = 1
        /\ UNCHANGED <<allocVars, tableVars, treeVars, machVars, held, steps>>
    BY <1>5 DEF StartGic, pl011_register_handler, At, GotoIf, Goto, Halt
  <2>2. UNCHANGED <<pages, call, ok, asked, tree, mmap, reg_map>>
    BY <2>1 DEF tableVars, treeVars
  <2>3. PlainPhase
    BY <2>1 DEF PlainPhase, PoolFreed
  <2>q. QED
    BY <1>0, <2>1, <2>2, <2>3, PlainStep
<1>q. QED
  BY <1>1, <1>2, <1>3, <1>4, <1>5

\* A step that writes a register of the machine or a pointer.
LEMMA MachineStep ==
  ASSUME BootInv, call = Null, pc \notin {"halted", "run"}, SamePhase,
         pc' \notin {"id_image", "id_uart", "kernel_map", "kernel_uart"}, pc' \in Labels,
         UNCHANGED <<allocVars, tableVars, treeVars, entry, held, steps>>, n' = 0, bank' = 1,
         ttbr0' \in {Null, IdRoot}, ttbr1' \in {Null, KernelRoot},
         mmu' \in [mair : BOOLEAN, tcr : BOOLEAN, epd0 : BOOLEAN, m : BOOLEAN, tlb : BOOLEAN],
         ptr' \in [exec : {Low, High}, uart0 : {Low, High, Null}, console : {Low, High, Null},
                   vbar : {Low, High, Null}],
         pc' \in KernelMapDone => pc \in KernelMapDone \/ KernelMapped,
         ttbr1' # Null => ttbr1 # Null \/ pc \in KernelMapDone,
         RegistersOK'
  PROVE  BootInv'
<1>0. TypeOK /\ IdProgress /\ KernelProgress
  BY DEF BootInv
<1>1. UNCHANGED <<pages, call, ok, asked, tree, mmap, reg_map, mem_chunks>> /\ ok' \in BOOLEAN
  BY <1>0 DEF tableVars, treeVars, allocVars, TypeOK, TableTypeOK
<1>2. IdProgress'
  <2>1. pc' \in IdMapDone => pc \in IdMapDone
    BY DEF SamePhase, BeforePool, IdMapDone, WithBanks, WithKernelMap, IdMapGone, PoolFreed
  <2>q. QED
    BY <1>0, <1>1, <2>1, IdProgressKept
<1>3. Pages!Managed' = Pages!Managed
  BY <1>1, SameGeometry
<1>4. KernelProgress'
  BY <1>0, <1>1, <1>3, KernelProgressKept
<1>5. ttbr1' # Null => ttbr1 # Null \/ pc \in WithKernelMap
  BY DEF KernelMapDone
<1>6. n' \in Nat /\ bank' \in Nat \ {0}
  OBVIOUS
<1>q. QED
  BY <1>1, <1>2, <1>4, <1>5, <1>6, QuietStep

\* The registers before the switch and the pointers are set up early.
LEMMA EarlySteps ==
  ASSUME BootInv, setup_sctlr_el1 \/ InitConsole("console", "id_region")
  PROVE  BootInv'
<1>0. TypeOK /\ RegistersOK /\ Pages!TypeOK
  BY DEF BootInv, TypeOK
<1>1. /\ ttbr0 \in {Null, IdRoot} /\ ttbr1 \in {Null, KernelRoot} /\ kernel_base_va \in {Low, High}
      /\ mmu \in [mair : BOOLEAN, tcr : BOOLEAN, epd0 : BOOLEAN, m : BOOLEAN, tlb : BOOLEAN]
      /\ ptr \in [exec : {Low, High}, uart0 : {Low, High, Null}, console : {Low, High, Null},
                  vbar : {Low, High, Null}]
  BY <1>0 DEF TypeOK, Pages!TypeOK, Low, High
<1>n. Low # Null /\ High # Null /\ Low # High
  BY TableAssumption DEF Low, High
<1>2. CASE setup_sctlr_el1
  <2>1. /\ pc = "sctlr" /\ call = Null /\ n' = 0 /\ bank' = 1
        /\ UNCHANGED <<allocVars, tableVars, treeVars, entry, ttbr0, ttbr1, held, steps>>
        /\ \/ /\ pc' = "console" /\ mmu' = [mmu EXCEPT !.m = FALSE] /\ ptr' = [ptr EXCEPT !.vbar = ptr.exec]
           \/ pc' = "halted" /\ UNCHANGED <<mmu, ptr>>
    BY <1>2 DEF setup_sctlr_el1, At, Goto, Halt
  <2>2. kernel_base_va' = kernel_base_va
    BY <2>1 DEF allocVars
  <2>3. SamePhase /\ pc' \in Labels /\ pc' \notin KernelMapDone
    BY <2>1 DEF SamePhase, BeforePool, Labels, KernelMapDone, WithKernelMap
  <2>4. /\ mmu' \in [mair : BOOLEAN, tcr : BOOLEAN, epd0 : BOOLEAN, m : BOOLEAN, tlb : BOOLEAN]
        /\ ptr' \in [exec : {Low, High}, uart0 : {Low, High, Null}, console : {Low, High, Null},
                     vbar : {Low, High, Null}]
    BY <1>1, <2>1
  <2>5. /\ mmu'.mair = mmu.mair /\ mmu'.tcr = mmu.tcr /\ mmu'.epd0 = mmu.epd0 /\ mmu'.tlb = mmu.tlb
        /\ (mmu'.m => mmu.m) /\ ptr'.exec = ptr.exec /\ ptr'.uart0 = ptr.uart0 /\ ptr'.console = ptr.console
        /\ ptr'.vbar \in {ptr.exec, ptr.vbar} /\ (pc' = "console" => ptr'.vbar = ptr.exec)
        /\ ptr.exec # Null
    BY <1>1, <1>n, <2>1
  <2>6. ~mmu.m /\ kernel_base_va = Low /\ ~mmu.tlb /\ ttbr0 = Null /\ ttbr1 = Null
    BY <1>0, <2>1 DEF RegistersOK, MmuOn, IdMapGone, PoolFreed
  <2>7. RegistersOK'
    BY <1>0, <2>1, <2>2, <2>5, <2>6 DEF RegistersOK, MmuOn, IdMapGone, PoolFreed
  <2>q. QED
    BY <1>1, <2>1, <2>3, <2>4, <2>7, MachineStep
<1>3. CASE InitConsole("console", "id_region")
  <2>1. /\ pc = "console" /\ call = Null /\ n' = 0 /\ bank' = 1 /\ pc' = "id_region"
        /\ UNCHANGED <<allocVars, tableVars, treeVars, entry, ttbr0, ttbr1, mmu, held, steps>>
        /\ ptr' = [ptr EXCEPT !.uart0 = kernel_base_va, !.console = ptr.exec]
    BY <1>3 DEF InitConsole, At, Goto
  <2>2. kernel_base_va' = kernel_base_va
    BY <2>1 DEF allocVars
  <2>3. SamePhase /\ pc' \in Labels /\ pc' \notin KernelMapDone
    BY <2>1 DEF SamePhase, BeforePool, Labels, KernelMapDone, WithKernelMap
  <2>4. /\ ptr' \in [exec : {Low, High}, uart0 : {Low, High, Null}, console : {Low, High, Null},
                     vbar : {Low, High, Null}]
        /\ ptr'.exec = ptr.exec /\ ptr'.uart0 = kernel_base_va /\ ptr'.console = ptr.exec
        /\ ptr'.vbar = ptr.vbar /\ ptr.exec # Null
    BY <1>1, <1>n, <2>1
  <2>5. ~mmu.m /\ kernel_base_va = Low /\ ~mmu.tlb /\ ttbr0 = Null /\ ttbr1 = Null
    BY <1>0, <2>1 DEF RegistersOK, MmuOn, IdMapGone, PoolFreed
  <2>6. RegistersOK'
    BY <1>0, <1>n, <2>1, <2>2, <2>4, <2>5 DEF RegistersOK, MmuOn, IdMapGone, PoolFreed
  <2>q. QED
    BY <1>1, <2>1, <2>3, <2>4, <2>6, MachineStep
<1>q. QED
  BY <1>2, <1>3

\* By the end of the kernel map's set-up all memory in use is mapped.
LEMMA MapComplete ==
  ASSUME BootInv, pc = "kernel_uart", call = Null, ok, n = 1
  PROVE  KernelMapped
<1>0. /\ TypeOK /\ DataOK /\ ChunksOK /\ UsedOK /\ KernelProgress /\ Pages!TypeOK
  BY DEF BootInv, TypeOK
<1>1. pc \in WithBanks /\ pc \in ImageReserved /\ pc \in BlobReserved
  BY DEF WithBanks, ImageReserved, BlobReserved, WithKernelMap
<1>2. Pages!Managed \subseteq RegionFramesOf(mmap)
  BY <1>0, <1>1, ManagedFacts
<1>3. Image \subseteq Pages!Managed /\ (BlobPlaced => FdtFrames(tree) \subseteq Pages!Managed)
  BY <1>0, <1>1 DEF UsedOK
<1>4. Done = 1
  BY DEF Done
<1>5. UartPage(KernelRoot) \in asked /\ \A f \in RegionFramesOf(mmap) : KernelPage(f) \in asked
  BY <1>0, <1>4 DEF KernelProgress
<1>q. QED
  BY <1>2, <1>3, <1>5 DEF KernelMapped

\* enable_mmu: by the time the MMU is on, both maps are complete.
LEMMA EnableMmuStep ==
  ASSUME BootInv, enable_mmu
  PROVE  BootInv'
<1> DEFINE M == [mair : BOOLEAN, tcr : BOOLEAN, epd0 : BOOLEAN, m : BOOLEAN, tlb : BOOLEAN]
           P == [exec : {Low, High}, uart0 : {Low, High, Null}, console : {Low, High, Null},
                 vbar : {Low, High, Null}]
<1>0. TypeOK /\ RegistersOK
  BY DEF BootInv
<1>1. ttbr0 \in {Null, IdRoot} /\ ttbr1 \in {Null, KernelRoot} /\ mmu \in M /\ ptr \in P
  BY <1>0 DEF TypeOK
<1>n. IdRoot # Null /\ KernelRoot # Null /\ Low # High
  BY LayoutFacts DEF Low, High
<1>2. /\ call = Null /\ n' = 0 /\ bank' = 1 /\ ptr' = ptr
      /\ UNCHANGED <<allocVars, tableVars, treeVars, entry, held, steps>>
  BY DEF enable_mmu, At, Goto
<1>3. kernel_base_va' = kernel_base_va
  BY <1>2 DEF allocVars
<1>4. CASE /\ pc = "kernel_uart" /\ ok /\ n = 1 /\ pc' = "tcr"
           /\ mmu' = [mmu EXCEPT !.mair = TRUE] /\ UNCHANGED <<ttbr0, ttbr1>>
  <2>1. KernelMapped
    BY <1>2, <1>4, MapComplete
  <2>2. SamePhase /\ pc' \in Labels
    BY <1>4 DEF SamePhase, WithKernelMap, IdMapGone, PoolFreed, Labels
  <2>3. /\ mmu' \in M /\ mmu'.mair = TRUE /\ mmu'.tcr = mmu.tcr /\ mmu'.epd0 = mmu.epd0
        /\ mmu'.m = mmu.m /\ mmu'.tlb = mmu.tlb
    BY <1>1, <1>4
  <2>4. RegistersOK'
    BY <1>0, <1>2, <1>3, <1>4, <2>3 DEF RegistersOK, MmuOn, IdMapGone, PoolFreed
  <2>q. QED
    BY <1>1, <1>2, <1>4, <2>1, <2>2, <2>3, <2>4, MachineStep
<1>5. CASE /\ pc = "tcr" /\ pc' = "ttbr0"
           /\ mmu' = [mmu EXCEPT !.tcr = TRUE, !.epd0 = FALSE] /\ UNCHANGED <<ttbr0, ttbr1>>
  <2>1. SamePhase /\ pc' \in Labels /\ pc \in KernelMapDone
    BY <1>5 DEF SamePhase, WithKernelMap, IdMapGone, PoolFreed, Labels, KernelMapDone
  <2>2. /\ mmu' \in M /\ mmu'.mair = mmu.mair /\ mmu'.tcr = TRUE /\ mmu'.epd0 = FALSE
        /\ mmu'.m = mmu.m /\ mmu'.tlb = mmu.tlb
    BY <1>1, <1>5
  <2>3. RegistersOK'
    BY <1>0, <1>2, <1>3, <1>5, <2>2 DEF RegistersOK, MmuOn, IdMapGone, PoolFreed
  <2>q. QED
    BY <1>1, <1>2, <1>5, <2>1, <2>2, <2>3, MachineStep
<1>6. CASE pc = "ttbr0" /\ pc' = "ttbr1" /\ ttbr0' = IdRoot /\ UNCHANGED <<mmu, ttbr1>>
  <2>1. SamePhase /\ pc' \in Labels /\ pc \in KernelMapDone
    BY <1>6 DEF SamePhase, WithKernelMap, IdMapGone, PoolFreed, Labels, KernelMapDone
  <2>2. RegistersOK'
    BY <1>0, <1>n, <1>2, <1>3, <1>6 DEF RegistersOK, MmuOn, IdMapGone, PoolFreed
  <2>q. QED
    BY <1>1, <1>2, <1>6, <2>1, <2>2, MachineStep
<1>7. CASE pc = "ttbr1" /\ pc' = "m" /\ ttbr1' = KernelRoot /\ UNCHANGED <<mmu, ttbr0>>
  <2>1. SamePhase /\ pc' \in Labels /\ pc \in KernelMapDone
    BY <1>7 DEF SamePhase, WithKernelMap, IdMapGone, PoolFreed, Labels, KernelMapDone
  <2>2. RegistersOK'
    BY <1>0, <1>n, <1>2, <1>3, <1>7 DEF RegistersOK, MmuOn, IdMapGone, PoolFreed
  <2>q. QED
    BY <1>1, <1>2, <1>7, <2>1, <2>2, MachineStep
<1>8. CASE /\ pc = "m" /\ pc' = "switch"
           /\ mmu' = [mmu EXCEPT !.m = TRUE, !.tlb = TRUE] /\ UNCHANGED <<ttbr0, ttbr1>>
  <2>1. SamePhase /\ pc' \in Labels /\ pc \in KernelMapDone
    BY <1>8 DEF SamePhase, WithKernelMap, IdMapGone, PoolFreed, Labels, KernelMapDone
  <2>2. /\ mmu' \in M /\ mmu'.mair = mmu.mair /\ mmu'.tcr = mmu.tcr /\ mmu'.epd0 = mmu.epd0
        /\ mmu'.m = TRUE /\ mmu'.tlb = TRUE
    BY <1>1, <1>8
  <2>3. RegistersOK'
    BY <1>0, <1>2, <1>3, <1>8, <2>2 DEF RegistersOK, MmuOn, IdMapGone, PoolFreed
  <2>q. QED
    BY <1>1, <1>2, <1>8, <2>1, <2>2, <2>3, MachineStep
<1>q. QED
  BY <1>4, <1>5, <1>6, <1>7, <1>8 DEF enable_mmu, At, Goto

\* The switch to high addresses and what is set again after it.
LEMMA HighSteps ==
  ASSUME BootInv, switch_to_high_va \/ InitConsole("high_console", "high_vbar") \/ SetHighVbar
  PROVE  BootInv'
<1> DEFINE P == [exec : {Low, High}, uart0 : {Low, High, Null}, console : {Low, High, Null},
                 vbar : {Low, High, Null}]
<1>0. TypeOK /\ RegistersOK /\ Pages!TypeOK
  BY DEF BootInv, TypeOK
<1>1. /\ ttbr0 \in {Null, IdRoot} /\ ttbr1 \in {Null, KernelRoot} /\ ptr \in P
      /\ kernel_base_va \in {Low, High}
      /\ mmu \in [mair : BOOLEAN, tcr : BOOLEAN, epd0 : BOOLEAN, m : BOOLEAN, tlb : BOOLEAN]
  BY <1>0 DEF TypeOK, Pages!TypeOK, Low, High
<1>n. Low # Null /\ High # Null /\ Low # High
  BY TableAssumption DEF Low, High
<1>2. /\ call = Null /\ n' = 0 /\ bank' = 1
      /\ UNCHANGED <<allocVars, tableVars, treeVars, entry, ttbr0, ttbr1, mmu, held, steps>>
  BY DEF switch_to_high_va, InitConsole, SetHighVbar, At, Goto
<1>3. kernel_base_va' = kernel_base_va
  BY <1>2 DEF allocVars
<1>4. CASE switch_to_high_va
  <2>1. pc = "switch" /\ pc' = "fixup" /\ ptr' = [ptr EXCEPT !.exec = High]
    BY <1>4 DEF switch_to_high_va, At, Goto
  <2>2. /\ ptr' \in P /\ ptr'.exec = High /\ ptr'.uart0 = ptr.uart0 /\ ptr'.console = ptr.console
        /\ ptr'.vbar = ptr.vbar
    BY <1>1, <2>1
  <2>3. SamePhase /\ pc' \in Labels /\ pc \in KernelMapDone
    BY <2>1 DEF SamePhase, WithKernelMap, IdMapGone, PoolFreed, Labels, KernelMapDone
  <2>4. RegistersOK'
    BY <1>0, <1>n, <1>2, <1>3, <2>1, <2>2 DEF RegistersOK, MmuOn, IdMapGone, PoolFreed
  <2>q. QED
    BY <1>1, <1>2, <2>1, <2>2, <2>3, <2>4, MachineStep
<1>5. CASE InitConsole("high_console", "high_vbar")
  <2>1. /\ pc = "high_console" /\ pc' = "high_vbar"
        /\ ptr' = [ptr EXCEPT !.uart0 = kernel_base_va, !.console = ptr.exec]
    BY <1>5 DEF InitConsole, At, Goto
  <2>2. /\ ptr' \in P /\ ptr'.exec = ptr.exec /\ ptr'.uart0 = kernel_base_va /\ ptr'.console = ptr.exec
        /\ ptr'.vbar = ptr.vbar
    BY <1>1, <2>1
  <2>3. SamePhase /\ pc' \in Labels /\ pc \in KernelMapDone
    BY <2>1 DEF SamePhase, WithKernelMap, IdMapGone, PoolFreed, Labels, KernelMapDone
  <2>4. RegistersOK'
    BY <1>0, <1>n, <1>2, <1>3, <2>1, <2>2 DEF RegistersOK, MmuOn, IdMapGone, PoolFreed
  <2>q. QED
    BY <1>1, <1>2, <2>1, <2>2, <2>3, <2>4, MachineStep
<1>6. CASE SetHighVbar
  <2>1. pc = "high_vbar" /\ pc' = "epd0" /\ ptr' = [ptr EXCEPT !.vbar = ptr.exec]
    BY <1>6 DEF SetHighVbar, At, Goto
  <2>2. /\ ptr' \in P /\ ptr'.exec = ptr.exec /\ ptr'.uart0 = ptr.uart0 /\ ptr'.console = ptr.console
        /\ ptr'.vbar = ptr.exec
    BY <1>1, <2>1
  <2>3. SamePhase /\ pc' \in Labels /\ pc \in KernelMapDone
    BY <2>1 DEF SamePhase, WithKernelMap, IdMapGone, PoolFreed, Labels, KernelMapDone
  <2>4. RegistersOK'
    BY <1>0, <1>n, <1>2, <1>3, <2>1, <2>2 DEF RegistersOK, MmuOn, IdMapGone, PoolFreed
  <2>q. QED
    BY <1>1, <1>2, <2>1, <2>2, <2>3, <2>4, MachineStep
<1>q. QED
  BY <1>4, <1>5, <1>6

----
(* From one phase to the next *)

\* What a step outside of map_page does not disturb.
LEMMA StepFrame ==
  ASSUME BootInv, call' = Null, UNCHANGED <<ok, tree, reg_map, machVars>>,
         Pages!TypeOK', PagesOK', pc' \in Labels, n' \in Nat, bank' \in Nat \ {0},
         held' \subseteq [frame : Ram, num : Requests], steps' \in 0 .. MaxSteps,
         mmap' = mmap \/ (mmap' = Banks(tree) /\ MemoryReadable(tree)),
         pc' \in WithBanks => MemoryReadable(tree) /\ mmap' = Banks(tree)
  PROVE  TypeOK' /\ DataOK' /\ CallOK'
<1>0. TypeOK /\ DataOK
  BY DEF BootInv
<1>1. ok' \in BOOLEAN /\ TableTypeOK'
  BY <1>0, TableTyped DEF TypeOK, TableTypeOK
<1>2. UNCHANGED <<entry, ttbr0, ttbr1, mmu, ptr>>
  BY DEF machVars
<1>3. Len(mmap') <= MaxMemRegions
  BY <1>0, BankFacts DEF TypeOK, DataOK
<1>4. TypeOK'
  BY <1>0, <1>1, <1>2, <1>3 DEF TypeOK
<1>5. DataOK'
  BY <1>0 DEF DataOK
<1>q. QED
  BY <1>4, <1>5 DEF CallOK

\* Between the console's set-up and enable_mmu no register is written.
LowPhase == {"id_region", "id_root", "id_image", "id_uart", "memory", "banks", "fdt", "kernel_root",
             "kernel_map", "kernel_uart"}

LEMMA LowRegisters ==
  ASSUME RegistersOK, UNCHANGED <<machVars, kernel_base_va>>, pc \in LowPhase, pc' \in LowPhase \cup {"halted"}
  PROVE  RegistersOK' /\ ttbr1 = Null /\ ttbr1' = Null
<1>1. UNCHANGED <<entry, ttbr0, ttbr1, mmu, ptr>>
  BY DEF machVars
<1>q. QED
  BY <1>1 DEF RegistersOK, LowPhase, MmuOn, IdMapGone, PoolFreed

\* The pool of the identity map is taken back from the allocator.
LEMMA IdUartMappedStep ==
  ASSUME BootInv, IdUartMapped
  PROVE  BootInv'
<1>0. /\ TypeOK /\ DataOK /\ ChunksOK /\ UsedOK /\ PagesOK /\ ContentsOK /\ HeldOK
      /\ IdProgress /\ KernelProgress /\ RegistersOK /\ Pages!TypeOK
  BY DEF BootInv, TypeOK
<1>1. /\ pc = "id_uart" /\ call = Null /\ ok /\ n = 1 /\ pc' = "memory" /\ n' = 0 /\ bank' = 1
      /\ Pages!page_allocator_remove_region([frame |-> IdMap, offset |-> 0])
      /\ UNCHANGED <<tableVars, treeVars, machVars, held, steps>>
  BY DEF IdUartMapped, At, Goto
<1>2. UNCHANGED <<pages, call, ok, asked, tree, mmap, reg_map, used, kernel_base_va, live, reserved, result>>
  BY <1>1 DEF tableVars, treeVars, Pages!page_allocator_remove_region
<1>3. pc \in WithPool
  BY <1>1 DEF WithPool
<1>4. Pages!Active' = {} /\ Pages!TypeOK'
  <2>1. \A i \in Pages!Active : i \in Pages!Slots /\ mem_chunks[i].mem_base = IdMap /\ \A j \in Pages!Active : i = j
    BY <1>0, <1>3, Members DEF ChunksOK
  <2>2. Pages!Holders([frame |-> IdMap, offset |-> 0]) = Pages!Active
    BY <2>1 DEF Pages!Holders
  <2>3. CASE Pages!Active = {}
    <3>1. mem_chunks' = mem_chunks
      BY <1>1, <2>2, <2>3 DEF Pages!page_allocator_remove_region, Pages!IsFirst
    <3>q. QED
      BY <1>0, <1>2, <2>3, <3>1 DEF Pages!Active, Pages!TypeOK
  <2>4. CASE Pages!Active # {}
    <3>1. PICK i \in Pages!Active : mem_chunks' = [mem_chunks EXCEPT ![i].initialized = FALSE]
      BY <1>1, <2>2, <2>4 DEF Pages!page_allocator_remove_region, Pages!IsFirst
    <3>2. mem_chunks \in [Pages!Slots -> Pages!Chunk] /\ i \in Pages!Slots
      BY <1>0, <2>1 DEF Pages!TypeOK
    <3>3. mem_chunks' \in [Pages!Slots -> Pages!Chunk]
      BY <3>1, <3>2 DEF Pages!Chunk
    <3>4. ~mem_chunks'[i].initialized /\ \A j \in Pages!Slots \ {i} : mem_chunks'[j] = mem_chunks[j]
      BY <3>1, <3>2 DEF Pages!Chunk
    <3>5. Pages!Active' = {}
      BY <2>1, <3>4 DEF Pages!Active
    <3>q. QED
      BY <1>0, <1>2, <3>3, <3>5 DEF Pages!TypeOK
  <2>q. QED
    BY <2>3, <2>4
<1>5. Pages!Managed' = {} /\ Pages!Bitmaps' = {}
  BY <1>4 DEF Pages!Managed, Pages!Bitmaps
<1>6. PagesOK'
  BY <1>0, <1>2 DEF PagesOK
<1>7. /\ pc' \in Labels /\ pc' \notin WithBanks \cup WithPool \cup BeforePool \cup ImageReserved \cup BlobReserved
      /\ pc' \in LowPhase /\ pc \in LowPhase
      /\ pc' \in IdMapDone /\ pc' \notin IdMapGone /\ pc' \notin KernelMapDone
  BY <1>1 DEF Labels, WithBanks, WithPool, WithKernelMap, BeforePool, LowPhase, ImageReserved, BlobReserved,
              IdMapDone, IdMapGone, PoolFreed, KernelMapDone
<1>8. TypeOK' /\ DataOK' /\ CallOK'
  BY <1>0, <1>1, <1>2, <1>4, <1>6, <1>7, StepFrame DEF TypeOK
<1>9. RegistersOK' /\ ttbr1 = Null /\ ttbr1' = Null
  BY <1>0, <1>1, <1>2, <1>7, LowRegisters
<1>10. IdProgress'
  <2>1. Done = 1
    BY <1>1 DEF Done
  <2>2. UartPage(IdRoot) \in asked /\ \A f \in Image : IdPage(f) \in asked
    BY <1>0, <1>1, <2>1 DEF IdProgress
  <2>q. QED
    BY <1>0, <1>1, <1>2, <2>2, IdProgressKept
<1>11. KernelProgress'
  BY <1>0, <1>1, <1>2, <1>7, <1>9, KernelProgressKept
<1>12. ChunksOK' /\ UsedOK'
  BY <1>1, <1>4, <1>5, <1>7 DEF ChunksOK, UsedOK
<1>13. ContentsOK' /\ HeldOK'
  <2>1. BlobPlaced' <=> BlobPlaced
    BY <1>2 DEF BlobPlaced
  <2>2. held = {} /\ held' = {}
    BY <1>0, <1>1 DEF HeldOK
  <2>3. BlobPlaced => FdtKept'
    BY <1>0, <1>2 DEF ContentsOK, FdtKept
  <2>q. QED
    BY <1>0, <1>1, <1>2, <1>5, <1>7, <2>1, <2>2, <2>3 DEF ContentsOK, HeldOK
<1>14. PICK place : TablesOK(place)
  BY DEF BootInv
<1>15. TablesOK(place)'
  <2>1. IsForest(place)'
    BY <1>2, <1>14, KeepForest DEF TablesOK
  <2>2. pc' \notin PoolFreed /\ pc' \notin WithKernelMap /\ pc \notin WithKernelMap
    BY <1>1 DEF PoolFreed, WithKernelMap
  <2>3. pc # "halted"
    BY <1>1
  <2>q. QED
    BY <1>1, <1>2, <1>5, <1>7, <1>9, <1>14, <2>1, <2>2, <2>3 DEF TablesOK
<1>q. QED
  BY <1>6, <1>8, <1>9, <1>10, <1>11, <1>12, <1>13, <1>15 DEF BootInv

\* get_mem and check_fdt: the banks become known.
LEMMA ReadTreeStep ==
  ASSUME BootInv, ReadTree
  PROVE  BootInv'
<1>0. /\ TypeOK /\ DataOK /\ ChunksOK /\ UsedOK /\ PagesOK /\ ContentsOK /\ HeldOK
      /\ IdProgress /\ KernelProgress /\ RegistersOK /\ Pages!TypeOK
  BY DEF BootInv, TypeOK
<1>1. /\ pc = "memory" /\ call = Null /\ n' = 0 /\ bank' = 1
      /\ \/ pc' = "banks" /\ MemoryReadable(tree)
         \/ pc' = "halted"
      /\ mmap' = IF MemoryReadable(tree) THEN Banks(tree) ELSE mmap
      /\ UNCHANGED <<allocVars, tableVars, tree, reg_map, machVars, held, steps>>
  BY DEF ReadTree, At, GotoIf, Goto, Halt
<1>2. UNCHANGED <<pages, call, ok, asked, mem_chunks, used, kernel_base_va, live, reserved, result>>
  BY <1>1 DEF tableVars, allocVars
<1>3. Pages!Active = {} /\ Pages!Active' = {}
  BY <1>0, <1>1, <1>2 DEF ChunksOK, Pages!Active
<1>4. Pages!Managed' = {} /\ Pages!Bitmaps' = {}
  BY <1>3 DEF Pages!Managed, Pages!Bitmaps
<1>5. PagesOK' /\ Pages!TypeOK'
  BY <1>0, <1>2 DEF PagesOK, Pages!TypeOK
<1>6. /\ pc' \in Labels /\ pc' \in LowPhase \cup {"halted"} /\ pc \in LowPhase
      /\ pc' \notin WithPool \cup BeforePool \cup {"memory", "id_root", "run"} \cup ImageReserved \cup BlobReserved
      /\ pc \in IdMapDone /\ pc' \notin IdMapGone \cup KernelMapDone \cup WithKernelMap
      /\ pc' \notin {"id_image", "id_uart", "kernel_map", "kernel_uart"}
      /\ pc \notin WithKernelMap
      /\ (pc' \in WithBanks => pc' = "banks")
  BY <1>1 DEF Labels, WithBanks, WithPool, WithKernelMap, BeforePool, LowPhase, ImageReserved, BlobReserved,
              IdMapDone, IdMapGone, PoolFreed, KernelMapDone
<1>7. TypeOK' /\ DataOK' /\ CallOK'
  BY <1>0, <1>1, <1>2, <1>5, <1>6, StepFrame DEF TypeOK
<1>8. RegistersOK' /\ ttbr1 = Null /\ ttbr1' = Null
  BY <1>0, <1>1, <1>2, <1>6, LowRegisters
<1>9. IdProgress'
  BY <1>0, <1>1, <1>2, <1>6, IdProgressKept
<1>10. KernelProgress'
  BY <1>1, <1>2, <1>6, <1>8 DEF KernelProgress
<1>11. ChunksOK' /\ UsedOK'
  <2>1. Pages!ChunksApart'
    BY <1>3 DEF Pages!ChunksApart
  <2>q. QED
    BY <1>3, <1>4, <1>6, <2>1 DEF ChunksOK, UsedOK
<1>12. ContentsOK' /\ HeldOK'
  <2>1. BlobPlaced' <=> BlobPlaced
    BY <1>1 DEF BlobPlaced
  <2>2. held = {} /\ held' = {}
    BY <1>0, <1>1 DEF HeldOK
  <2>3. BlobPlaced => FdtKept'
    BY <1>0, <1>1, <1>2 DEF ContentsOK, FdtKept
  <2>q. QED
    BY <1>0, <1>1, <1>2, <1>4, <1>6, <2>1, <2>2, <2>3 DEF ContentsOK, HeldOK
<1>13. PICK place : TablesOK(place)
  BY DEF BootInv
<1>14. TablesOK(place)'
  <2>1. IsForest(place)'
    BY <1>2, <1>13, KeepForest DEF TablesOK
  <2>2. pc' \notin PoolFreed
    BY <1>6 DEF IdMapGone
  <2>3. pc # "halted"
    BY <1>1
  <2>q. QED
    BY <1>1, <1>2, <1>4, <1>6, <1>8, <1>13, <2>1, <2>2, <2>3 DEF TablesOK
<1>q. QED
  BY <1>5, <1>7, <1>8, <1>9, <1>10, <1>11, <1>12, <1>14 DEF BootInv

\* The kernel's root table is cleared.
LEMMA InitKernelRootStep ==
  ASSUME BootInv, InitKernelRoot
  PROVE  BootInv'
<1>0. /\ TypeOK /\ DataOK /\ ChunksOK /\ UsedOK /\ PagesOK /\ ContentsOK /\ HeldOK
      /\ IdProgress /\ KernelProgress /\ RegistersOK /\ Pages!TypeOK
  BY DEF BootInv, TypeOK
<1>1. /\ pc = "kernel_root" /\ call = Null /\ n' = 0 /\ bank' = 1
      /\ UNCHANGED <<allocVars, call, ok, asked, treeVars, machVars, held, steps>>
      /\ \/ pc' = "kernel_map" /\ pages' = page_table_init(pages, KernelRoot)
         \/ pc' = "halted" /\ pages' = pages
  BY DEF InitKernelRoot, At, GotoIf, Goto, Halt
<1>2. UNCHANGED <<tree, mmap, reg_map, mem_chunks, used, kernel_base_va, live, reserved, result>>
  BY <1>1 DEF treeVars, allocVars
<1>3. /\ pc' \in Labels /\ pc' \in LowPhase \cup {"halted"} /\ pc \in LowPhase /\ pc \in WithBanks
      /\ pc \in IdMapDone /\ pc' \notin KernelMapDone /\ pc \in ImageReserved \ PoolFreed
      /\ pc' \notin WithPool \cup {"memory", "id_root", "id_image", "id_uart", "kernel_uart"} \cup PoolFreed \cup IdMapGone
      /\ pc \notin WithPool \cup WithKernelMap \cup PoolFreed \cup IdMapGone
      /\ (pc' = "kernel_map" => pc' \in WithBanks /\ pc' \in WithKernelMap /\ pc' \in IdMapDone)
  BY <1>1 DEF Labels, WithBanks, WithPool, WithKernelMap, LowPhase, ImageReserved,
              IdMapDone, IdMapGone, PoolFreed, KernelMapDone
<1>4. PICK place : TablesOK(place)
  BY DEF BootInv
<1>5. /\ KernelRoot \in DOMAIN place /\ place[KernelRoot].level = 0 /\ KernelRoot \in Ram
      /\ pages[KernelRoot] \in TablePage /\ TablesOf(place, KernelRoot) = {KernelRoot} /\ IsForest(place)
  BY <1>1, <1>3, <1>4 DEF TablesOK, IsForest, Placed
<1>6. DOMAIN pages = Ram /\ PagesOK' /\ \A f \in Ram \ {KernelRoot} : pages'[f] = pages[f]
  <2>1. pages \in [Ram -> TablePage \cup {Code, Blob, Bits, Junk}]
    BY <1>0 DEF PagesOK
  <2>2. ZeroPage \in TablePage
    BY TablePages
  <2>q. QED
    BY <1>1, <1>5, <2>1, <2>2 DEF PagesOK, page_table_init
<1>7. \A f \in KeptPages : pages'[f] = pages[f]
  <2>1. KernelRoot \notin KeptPages
    BY <1>0, <1>5, KeptIsNoTable
  <2>2. KeptPages \subseteq Ram
    BY <1>0, <1>3, KeptIsMemory
  <2>q. QED
    BY <1>6, <2>1, <2>2
<1>8. Pages!TypeOK' /\ SameChunks
  BY <1>0, <1>2 DEF Pages!TypeOK, SameChunks
<1>9. SameMemoryPhase
  <2>1. CASE pc' = "halted"
    BY <1>1, <2>1 DEF SameMemoryPhase
  <2>2. CASE pc' = "kernel_map"
    BY <1>1, <2>2 DEF SameMemoryPhase, MemoryPhases, BeforePool, WithPool, WithBanks, ImageReserved,
                      BlobReserved, WithKernelMap, PoolFreed
  <2>q. QED
    BY <1>1, <2>1, <2>2
<1>10. pc' \notin BeforePool \cup {"id_root", "banks"}
  BY <1>1 DEF BeforePool
<1>11. ChunksOK' /\ UsedOK' /\ ContentsOK' /\ HeldOK'
  BY <1>0, <1>1, <1>2, <1>7, <1>8, <1>9, <1>10, MemoryStays
<1>12. TypeOK' /\ DataOK' /\ CallOK'
  <2>1. MemoryReadable(tree) /\ mmap' = Banks(tree)
    BY <1>0, <1>2, <1>3 DEF DataOK
  <2>q. QED
    BY <1>0, <1>1, <1>2, <1>3, <1>6, <1>8, <2>1, StepFrame DEF TypeOK
<1>13. RegistersOK' /\ ttbr1 = Null /\ ttbr1' = Null
  BY <1>0, <1>1, <1>2, <1>3, LowRegisters
<1>14. IdProgress'
  BY <1>0, <1>1, <1>2, <1>3, IdProgressKept
<1>15. KernelProgress'
  BY <1>0, <1>1, <1>2, <1>3, <1>13, KernelProgressKept
<1>16. TablesOK(place)'
  <2>1. CASE pc' = "halted" /\ pages' = pages
    <3>1. SameTablePhase
      BY <1>1, <2>1 DEF SameTablePhase
    <3>q. QED
      BY <1>1, <1>2, <1>4, <1>8, <1>13, <2>1, <3>1, TablesStay
  <2>2. CASE pc' = "kernel_map" /\ pages' = page_table_init(pages, KernelRoot)
    <3>1. IsForest(place)'
      BY <1>1, <1>5, <1>6, <2>2, ClearRoot
    <3>2. Pages!Managed' = Pages!Managed /\ Pages!Bitmaps' = Pages!Bitmaps /\ HeldFrames' = HeldFrames
      BY <1>1, <1>8, SameGeometry DEF SameChunks, HeldFrames
    <3>3. KernelRoot \in Image /\ Image \subseteq used
      BY <1>0, <1>3, LayoutFacts DEF UsedOK
    <3>4. TablesOf(place, KernelRoot) \cap Image = {KernelRoot} /\ TablesOf(place, KernelRoot) \subseteq used'
      BY <1>2, <1>5, <3>3
    <3>q. QED
      BY <1>1, <1>2, <1>3, <1>4, <1>10, <2>2, <3>1, <3>2, <3>4 DEF TablesOK
  <2>q. QED
    BY <1>1, <2>1, <2>2
<1>q. QED
  BY <1>6, <1>11, <1>12, <1>13, <1>14, <1>15, <1>16 DEF BootInv

\* The bitmap pointers become high addresses.
LEMMA FixupStep ==
  ASSUME BootInv, FixupAllocator
  PROVE  BootInv'
<1>0. /\ TypeOK /\ DataOK /\ ChunksOK /\ UsedOK /\ PagesOK /\ ContentsOK /\ HeldOK
      /\ IdProgress /\ KernelProgress /\ RegistersOK /\ Pages!TypeOK
  BY DEF BootInv, TypeOK
<1>1. /\ pc = "fixup" /\ call = Null /\ n' = 0 /\ bank' = 1 /\ pc' = "high_console"
      /\ Pages!fixup_page_allocator
      /\ UNCHANGED <<tableVars, treeVars, machVars, held, steps>>
  BY DEF FixupAllocator, At, Goto
<1>2. UNCHANGED <<pages, call, ok, asked, tree, mmap, reg_map, used, live, reserved, result>>
  BY <1>1 DEF tableVars, treeVars, Pages!fixup_page_allocator
<1>3. SameChunks /\ Pages!TypeOK' /\ kernel_base_va' = High
  <2>1. /\ mem_chunks \in [Pages!Slots -> Pages!Chunk] /\ kernel_base_va' = 1
        /\ mem_chunks' = [i \in Pages!Slots |->
             IF mem_chunks[i].initialized
             THEN [mem_chunks[i] EXCEPT !.bitmap = @ + kernel_base_va']
             ELSE mem_chunks[i]]
    BY <1>0, <1>1 DEF Pages!TypeOK, Pages!fixup_page_allocator
  <2>2. ASSUME NEW i \in Pages!Slots
        PROVE  /\ mem_chunks'[i].initialized = mem_chunks[i].initialized
               /\ mem_chunks'[i].mem_base = mem_chunks[i].mem_base
               /\ mem_chunks'[i].total_pages = mem_chunks[i].total_pages
               /\ mem_chunks'[i] \in Pages!Chunk
    <3>1. mem_chunks[i] \in Pages!Chunk
      BY <2>1
    <3>2. \/ mem_chunks'[i] = mem_chunks[i]
          \/ mem_chunks'[i] = [mem_chunks[i] EXCEPT !.bitmap = mem_chunks[i].bitmap + 1]
      BY <2>1
    <3>q. QED
      BY <3>1, <3>2 DEF Pages!Chunk
  <2>3. mem_chunks' \in [Pages!Slots -> Pages!Chunk]
    BY <2>1, <2>2
  <2>q. QED
    BY <1>0, <1>2, <2>1, <2>2, <2>3 DEF SameChunks, Pages!TypeOK, High
<1>4. SamePhase /\ pc' \in Labels /\ pc \in KernelMapDone /\ pc \in WithBanks /\ pc \in IdMapDone
  BY <1>1 DEF SamePhase, WithKernelMap, IdMapGone, PoolFreed, Labels, KernelMapDone, WithBanks, IdMapDone
<1>5. SameMemoryPhase /\ SameTablePhase /\ pc' \notin {"banks", "id_root"} /\ pc' \notin BeforePool
  BY <1>1, <1>4, PhaseStays DEF BeforePool
<1>6. PagesOK'
  BY <1>0, <1>2 DEF PagesOK
<1>7. TypeOK' /\ DataOK' /\ CallOK'
  <2>1. MemoryReadable(tree) /\ mmap' = Banks(tree)
    BY <1>0, <1>2, <1>4 DEF DataOK
  <2>q. QED
    BY <1>0, <1>1, <1>2, <1>3, <1>4, <1>6, <2>1, StepFrame DEF TypeOK
<1>8. UNCHANGED <<entry, ttbr0, ttbr1, mmu, ptr>> /\ Low # High
  BY <1>1 DEF machVars, Low, High
<1>9. RegistersOK'
  BY <1>0, <1>1, <1>3, <1>8 DEF RegistersOK, MmuOn, IdMapGone, PoolFreed
<1>10. IdProgress'
  BY <1>0, <1>1, <1>2, <1>4, IdProgressKept
<1>11. KernelProgress'
  <2>1. Pages!Managed' = Pages!Managed
    BY <1>3, SameGeometry DEF SameChunks
  <2>q. QED
    BY <1>0, <1>1, <1>2, <1>4, <2>1, KernelProgressKept
<1>12. ChunksOK' /\ UsedOK' /\ ContentsOK' /\ HeldOK'
  BY <1>0, <1>1, <1>2, <1>3, <1>5, MemoryStays
<1>13. PICK place : TablesOK(place)
  BY DEF BootInv
<1>14. TablesOK(place)'
  BY <1>1, <1>2, <1>3, <1>5, <1>8, <1>13, TablesStay
<1>q. QED
  BY <1>6, <1>7, <1>9, <1>10, <1>11, <1>12, <1>14 DEF BootInv

\* The identity map goes: EPD0, TTBR0 and the TLB.
LEMMA DropIdMapStep ==
  ASSUME BootInv, DropIdMap
  PROVE  BootInv'
<1> DEFINE M == [mair : BOOLEAN, tcr : BOOLEAN, epd0 : BOOLEAN, m : BOOLEAN, tlb : BOOLEAN]
<1>0. /\ TypeOK /\ DataOK /\ ChunksOK /\ UsedOK /\ PagesOK /\ ContentsOK /\ HeldOK
      /\ IdProgress /\ KernelProgress /\ RegistersOK /\ Pages!TypeOK
  BY DEF BootInv, TypeOK
<1>1. /\ call = Null /\ n' = 0 /\ bank' = 1
      /\ UNCHANGED <<allocVars, pages, call, ok, treeVars, entry, ttbr1, ptr, held, steps>>
  BY DEF DropIdMap, At, Goto
<1>2. UNCHANGED <<tree, mmap, reg_map, mem_chunks, used, kernel_base_va, live, reserved, result>>
  BY <1>1 DEF treeVars, allocVars
<1>3. /\ ttbr0 \in {Null, IdRoot} /\ ttbr1 \in {Null, KernelRoot} /\ mmu \in M
      /\ ptr \in [exec : {Low, High}, uart0 : {Low, High, Null}, console : {Low, High, Null},
                  vbar : {Low, High, Null}]
  BY <1>0 DEF TypeOK
<1>n. IdRoot # Null /\ KernelRoot # Null /\ Low # High
  BY LayoutFacts DEF Low, High
<1>4. CASE /\ pc = "epd0" /\ pc' = "clear_ttbr0"
           /\ mmu' = [mmu EXCEPT !.epd0 = TRUE] /\ UNCHANGED <<ttbr0, asked>>
  <2>1. SamePhase /\ pc' \in Labels /\ pc \in KernelMapDone
    BY <1>4 DEF SamePhase, WithKernelMap, IdMapGone, PoolFreed, Labels, KernelMapDone
  <2>2. /\ mmu' \in M /\ mmu'.mair = mmu.mair /\ mmu'.tcr = mmu.tcr /\ mmu'.epd0 = TRUE
        /\ mmu'.m = mmu.m /\ mmu'.tlb = mmu.tlb
    BY <1>3, <1>4
  <2>3. RegistersOK'
    BY <1>0, <1>1, <1>2, <1>4, <2>2 DEF RegistersOK, MmuOn, IdMapGone, PoolFreed
  <2>4. UNCHANGED tableVars
    BY <1>1, <1>4 DEF tableVars
  <2>q. QED
    BY <1>1, <1>3, <1>4, <2>1, <2>2, <2>3, <2>4, MachineStep
<1>5. CASE pc = "clear_ttbr0" /\ pc' = "tlbi" /\ ttbr0' = Null /\ UNCHANGED <<mmu, asked>>
  <2>1. SamePhase /\ pc' \in Labels /\ pc \in KernelMapDone
    BY <1>5 DEF SamePhase, WithKernelMap, IdMapGone, PoolFreed, Labels, KernelMapDone
  <2>2. RegistersOK'
    BY <1>0, <1>1, <1>2, <1>5 DEF RegistersOK, MmuOn, IdMapGone, PoolFreed
  <2>3. UNCHANGED tableVars
    BY <1>1, <1>5 DEF tableVars
  <2>q. QED
    BY <1>1, <1>3, <1>5, <2>1, <2>2, <2>3, MachineStep
<1>6. CASE /\ pc = "tlbi" /\ pc' = "free_id_map" /\ mmu' = [mmu EXCEPT !.tlb = FALSE]
           /\ asked' = {t \in asked : t.root # IdRoot} /\ ttbr0' = ttbr0
  <2>1. /\ pc' \in Labels /\ pc \in KernelMapDone /\ pc \in WithBanks /\ pc' \notin IdMapDone
        /\ pc' \notin WithPool \cup {"memory", "halted", "banks", "id_root"} \cup PoolFreed /\ pc' \in IdMapGone
        /\ pc' \notin BeforePool
        /\ pc \in WithKernelMap \ PoolFreed /\ pc' \in WithKernelMap \ PoolFreed /\ pc' \in WithBanks
    BY <1>6 DEF WithKernelMap, IdMapGone, PoolFreed, Labels, KernelMapDone, WithBanks, IdMapDone, WithPool,
                BeforePool
  <2>2. /\ mmu' \in M /\ mmu'.mair = mmu.mair /\ mmu'.tcr = mmu.tcr /\ mmu'.epd0 = mmu.epd0
        /\ mmu'.m = mmu.m /\ mmu'.tlb = FALSE
    BY <1>3, <1>6
  <2>3. RegistersOK'
    BY <1>0, <1>1, <1>2, <1>6, <2>2 DEF RegistersOK, MmuOn, IdMapGone, PoolFreed
  <2>4. SameChunks /\ PagesOK' /\ Pages!TypeOK'
    BY <1>0, <1>1, <1>2 DEF SameChunks, PagesOK, Pages!TypeOK
  <2>5. TypeOK' /\ DataOK' /\ CallOK'
    <3>1. TableTypeOK'
      BY <1>0, <1>1, <2>4, TableTyped DEF TypeOK, TableTypeOK
    <3>2. TypeOK'
      BY <1>0, <1>1, <1>2, <1>6, <2>1, <2>2, <2>4, <3>1 DEF TypeOK
    <3>3. DataOK'
      BY <1>0, <1>2, <2>1 DEF DataOK
    <3>q. QED
      BY <1>1, <3>2, <3>3 DEF CallOK
  <2>6. IdProgress'
    BY <1>6, <2>1 DEF IdProgress
  <2>7. KernelProgress'
    <3>1. Pages!Managed' = Pages!Managed
      BY <2>4, SameGeometry DEF SameChunks
    <3>2. \A a \in asked : a.root = KernelRoot => a \in asked'
      BY <1>6, LayoutFacts
    <3>q. QED
      BY <1>0, <1>1, <1>2, <1>6, <2>1, <3>1, <3>2, KernelProgressKept
  <2>8. SameMemoryPhase
    BY <1>6 DEF SameMemoryPhase, MemoryPhases, BeforePool, WithPool, WithBanks, ImageReserved,
                BlobReserved, WithKernelMap, PoolFreed
  <2>9. ChunksOK' /\ UsedOK' /\ ContentsOK' /\ HeldOK'
    BY <1>0, <1>1, <1>2, <2>1, <2>4, <2>8, MemoryStays
  <2>10. PICK place : TablesOK(place)
    BY DEF BootInv
  <2> DEFINE left == [x \in TablesOf(place, KernelRoot) |-> place[x]]
  <2>11. IsForest(left)'
    BY <1>1, <1>6, <2>10, LayoutFacts, DropMap DEF TablesOK
  <2>12. /\ DOMAIN left = TablesOf(place, KernelRoot) /\ \A x \in DOMAIN left : left[x] = place[x]
         /\ TablesOf(left, KernelRoot) = TablesOf(place, KernelRoot) /\ TablesOf(left, IdRoot) = {}
    BY LayoutFacts DEF TablesOf
  <2>13. KernelRoot \in TablesOf(place, KernelRoot)
    BY <2>10 DEF TablesOK, TablesOf, IsForest, Placed
  <2>14. Pages!Managed' = Pages!Managed /\ Pages!Bitmaps' = Pages!Bitmaps /\ HeldFrames' = HeldFrames
    BY <1>1, <2>4, SameGeometry DEF SameChunks, HeldFrames
  <2> HIDE DEF left
  <2>15. TablesOK(left)'
    <3>1. KernelRoot \in DOMAIN left /\ left[KernelRoot].level = 0
      BY <2>10, <2>12, <2>13 DEF TablesOK
    <3>2. pc' \notin {"id_image", "id_uart"}
      BY <1>6
    <3>3. /\ TablesOf(left, KernelRoot) \cap Image = {KernelRoot}
          /\ TablesOf(left, KernelRoot) \subseteq used'
      BY <1>2, <2>1, <2>10, <2>12 DEF TablesOK
    <3>4. used' \cap Pages!Managed' =
            (Pages!Bitmaps' \cup reserved' \cup (TablesOf(left, KernelRoot) \ {KernelRoot}) \cup HeldFrames')
              \cap Pages!Managed'
      BY <1>2, <2>1, <2>10, <2>12, <2>14 DEF TablesOK
    <3>q. QED
      BY <1>1, <2>1, <2>11, <2>12, <3>1, <3>2, <3>3, <3>4 DEF TablesOK
  <2>q. QED
    BY <2>3, <2>4, <2>5, <2>6, <2>7, <2>9, <2>15 DEF BootInv
<1>q. QED
  BY <1>4, <1>5, <1>6 DEF DropIdMap, At, Goto

----
(* The pool, the banks and the reservations *)

\* main gives up while it sets up memory: nothing is in use yet, and what has
\* been written is no table and no page that is kept.
LEMMA HaltStep ==
  ASSUME BootInv, NEW place, TablesOK(place), pc \in LowPhase, pc' = "halted", n' = 0, bank' = 1, call' = Null,
         UNCHANGED <<ok, asked, tree, mmap, reg_map, machVars, kernel_base_va, held, steps>>,
         Pages!TypeOK', PagesOK',
         \A f \in Image \ (IdMapRegion \cup {KernelRoot}) : pages'[f] = pages[f],
         \A t \in DOMAIN place : pages'[t] = pages[t],
         BlobPlaced => \A f \in FdtFrames(tree) \cap Ram : pages'[f] = pages[f],
         \A f \in Pages!Bitmaps' : pages'[f] = Bits
  PROVE  BootInv'
<1>0. /\ TypeOK /\ DataOK /\ ContentsOK /\ HeldOK /\ IdProgress /\ KernelProgress /\ RegistersOK
  BY DEF BootInv, TypeOK
<1>1. /\ pc' \in Labels
      /\ pc' \notin BeforePool \cup WithPool \cup {"memory"} \cup WithBanks \cup ImageReserved \cup BlobReserved
                      \cup IdMapDone \cup IdMapGone \cup WithKernelMap \cup KernelMapDone
  BY DEF Labels, BeforePool, WithPool, WithBanks, ImageReserved, BlobReserved, IdMapDone, IdMapGone,
         WithKernelMap, PoolFreed, KernelMapDone
<1>2. TypeOK' /\ DataOK' /\ CallOK'
  BY <1>0, <1>1, StepFrame DEF TypeOK
<1>3. RegistersOK' /\ ttbr1 = Null /\ ttbr1' = Null
  BY <1>0, LowRegisters
<1>4. IdProgress'
  BY <1>0, <1>1, IdProgressKept
<1>5. KernelProgress'
  BY <1>0, <1>1, <1>3, KernelProgressKept
<1>6. ChunksOK' /\ UsedOK'
  BY <1>1 DEF ChunksOK, UsedOK
<1>7. held = {} /\ HeldOK'
  <2>1. pc \notin {"run", "halted"}
    BY DEF LowPhase
  <2>q. QED
    BY <1>0, <2>1 DEF HeldOK
<1>8. ContentsOK'
  <2>1. BlobPlaced' <=> BlobPlaced
    BY DEF BlobPlaced
  <2>2. BlobPlaced => FdtKept'
    BY <1>0 DEF ContentsOK, FdtKept
  <2>q. QED
    BY <1>0, <1>1, <2>1, <2>2 DEF ContentsOK
<1>9. TablesOK(place)'
  <2>1. IsForest(place)'
    BY KeepForest DEF TablesOK
  <2>q. QED
    BY <1>1, <1>3, <2>1 DEF TablesOK
<1>q. QED
  BY <1>2, <1>3, <1>4, <1>5, <1>6, <1>7, <1>8, <1>9 DEF BootInv

\* The pool is exactly the pages the linker keeps for it.
LEMMA PoolFacts ==
  /\ IsRegion(IdPool) /\ IdPool.check \in BOOLEAN
  /\ Pages!AlignedStart(IdPool) = IdMap /\ Pages!TotalPages(IdPool) = IdMapNumPages + 1
  /\ Pages!RegionFrames(IdPool) = IdMapRegion
  /\ Pages!Run(IdMap, Pages!BitmapPages(IdMapNumPages + 1)) \subseteq IdMapRegion
  /\ Pages!BitmapPages(IdMapNumPages + 1) \in Nat
<1> DEFINE N == IdMapNumPages
           size == N * PageSize + PageSize
<1>1. N \in Nat \ {0} /\ PageSize \in Nat \ {0} /\ IdMap \in Nat
  BY LayoutAssumption
<1>2. size \in Nat /\ size > 0
  BY <1>1
<1>3. IdPool.frame = IdMap /\ IdPool.offset = 0 /\ IdPool.size = size /\ IdPool.check = FALSE
  BY DEF IdPool
<1>4. size \div PageSize = N + 1
  <2>1. /\ size \div PageSize \in Nat /\ size % PageSize \in 0 .. (PageSize - 1)
        /\ size = (size \div PageSize) * PageSize + (size % PageSize)
    BY <1>1, <1>2, Quotient
  <2>2. size = (N + 1) * PageSize + 0
    BY <1>1
  <2>3. 0 \in 0 .. (PageSize - 1) /\ N + 1 \in Int
    BY <1>1
  <2> DEFINE q == size \div PageSize
             m == size % PageSize
  <2>4. q \in Int /\ m \in 0 .. (PageSize - 1) /\ (N + 1) * PageSize + 0 = q * PageSize + m
    BY <2>1, <2>2
  <2> HIDE DEF q, m, size
  <2>5. N + 1 = q
    BY <1>1, <2>3, <2>4, SplitUnique
  <2>q. QED
    BY <2>5 DEF q
<1> HIDE DEF size
<1>5. Pages!AlignmentShift(IdPool) = 0 /\ Pages!AlignedStart(IdPool) = IdMap
  BY <1>3 DEF Pages!AlignmentShift, Pages!AlignedStart
<1>6. Pages!TotalPages(IdPool) = N + 1
  BY <1>2, <1>3, <1>4, <1>5 DEF Pages!TotalPages
<1>7. Pages!RegionFrames(IdPool) = IdMapRegion
  BY <1>5, <1>6 DEF Pages!RegionFrames, IdMapRegion
<1>8. IsRegion(IdPool) /\ IdPool.check \in BOOLEAN
  <2>1. 0 \in 0 .. (PageSize - 1)
    BY <1>1
  <2>q. QED
    BY <1>1, <1>2, <1>3, <2>1 DEF IsRegion
<1>9. Pages!BitmapPages(N + 1) \in Nat /\ Pages!BitmapPages(N + 1) <= N + 1
  <2>1. N + 1 \in Nat /\ N + 1 > 0
    BY <1>1
  <2>q. QED
    BY <2>1, BitmapPagesType
<1>10. Pages!Run(IdMap, Pages!BitmapPages(N + 1)) \subseteq IdMapRegion
  BY <1>1, <1>9 DEF IdMapRegion, Pages!Run
<1>q. QED
  BY <1>5, <1>6, <1>7, <1>8, <1>9, <1>10

\* Where page_init_chunk writes.
LEMMA BitmapWritten ==
  ASSUME NEW r, IsRegion(r), PagesOK, AddRegion(r)
  PROVE  /\ PagesOK' /\ Pages!page_allocator_add_region(r)
         /\ \A f \in Ram : pages'[f] = IF f \in BitmapOf(r) THEN Bits ELSE pages[f]
         /\ BitmapOf(r) \subseteq Pages!Run(Pages!AlignedStart(r), Pages!BitmapPages(Pages!TotalPages(r)))
         /\ r.check /\ kernel_base_va = Low => BitmapOf(r) \cap Image = {}
         /\ Accepted(r) => BitmapOf(r) = Pages!Run(Pages!AlignedStart(r), Pages!BitmapPages(Pages!TotalPages(r)))
<1>1. Pages!page_allocator_add_region(r) /\ pages' = [f \in Ram |-> IF f \in BitmapOf(r) THEN Bits ELSE pages[f]]
  BY DEF AddRegion
<1>2. PagesOK'
  BY <1>1 DEF PagesOK
<1> DEFINE R == Pages!Run(Pages!AlignedStart(r), Pages!BitmapPages(Pages!TotalPages(r)))
<1>3. BitmapOf(r) = {} \/ (BitmapOf(r) = R /\ ~(r.check /\ Pages!BitmapOverlapsImage(r)))
  BY DEF BitmapOf
<1>4. r.check /\ kernel_base_va = Low => BitmapOf(r) \cap Image = {}
  BY <1>3 DEF Pages!BitmapOverlapsImage, Low
<1>q. QED
  <2>1. Accepted(r) => BitmapOf(r) = R
    <3>1. Accepted(r) /\ ~(Pages!AlignmentShift(r) >= r.size) => BitmapOf(r) = R
      BY DEF Accepted, BitmapOf
    <3>2. Pages!AlignmentShift(r) \in Nat /\ r.size \in Nat
      BY Geometry DEF IsRegion
    <3>3. Accepted(r) => ~(Pages!AlignmentShift(r) >= r.size)
      BY <3>2 DEF Accepted
    <3>q. QED
      BY <3>1, <3>3
  <2>q. QED
    BY <1>1, <1>2, <1>3, <1>4, <2>1

\* The pool is registered; its bitmap goes to its first pages.
LEMMA AddIdPoolStep ==
  ASSUME BootInv, AddIdPool
  PROVE  BootInv'
<1>0. /\ TypeOK /\ DataOK /\ ChunksOK /\ UsedOK /\ PagesOK /\ ContentsOK /\ HeldOK
      /\ IdProgress /\ KernelProgress /\ RegistersOK /\ Pages!TypeOK
  BY DEF BootInv, TypeOK
<1>1. /\ pc = "id_region" /\ call = Null /\ n' = 0 /\ bank' = 1 /\ AddRegion(IdPool)
      /\ pc' = IF Accepted(IdPool) THEN "id_root" ELSE "halted"
      /\ UNCHANGED <<call, ok, asked, treeVars, machVars, held, steps>>
  BY DEF AddIdPool, At, GotoIf, Goto, Halt
<1>2. UNCHANGED <<tree, mmap, reg_map>>
  BY <1>1 DEF treeVars
<1> DEFINE B == Pages!Run(IdMap, Pages!BitmapPages(IdMapNumPages + 1))
<1>3. /\ PagesOK' /\ Pages!page_allocator_add_region(IdPool)
      /\ \A f \in Ram : pages'[f] = IF f \in BitmapOf(IdPool) THEN Bits ELSE pages[f]
      /\ BitmapOf(IdPool) \subseteq B /\ (Accepted(IdPool) => BitmapOf(IdPool) = B)
      /\ BitmapOf(IdPool) \subseteq IdMapRegion /\ B \subseteq IdMapRegion
  <2>1. IsRegion(IdPool) /\ Pages!AlignedStart(IdPool) = IdMap /\ Pages!TotalPages(IdPool) = IdMapNumPages + 1
    BY PoolFacts
  <2>2. /\ PagesOK' /\ Pages!page_allocator_add_region(IdPool)
        /\ \A f \in Ram : pages'[f] = IF f \in BitmapOf(IdPool) THEN Bits ELSE pages[f]
        /\ BitmapOf(IdPool) \subseteq B /\ (Accepted(IdPool) => BitmapOf(IdPool) = B)
    BY <1>0, <1>1, <2>1, BitmapWritten
  <2>q. QED
    BY <2>2, PoolFacts
<1> HIDE DEF B
<1>4. pc \in BeforePool /\ pc \in LowPhase
  BY <1>1 DEF BeforePool, LowPhase
<1>5. Pages!Active = {} /\ used = {} /\ pages[IdRoot] = ZeroPage /\ held = {} /\ mmap = mmap'
  BY <1>0, <1>1, <1>2, <1>4 DEF ChunksOK, UsedOK, ContentsOK, HeldOK
<1>6. PICK place : TablesOK(place)
  BY DEF BootInv
<1>7. DOMAIN place = {KernelRoot} /\ KernelRoot \in DOMAIN place /\ place[KernelRoot].level = 0
      /\ TablesOf(place, KernelRoot) = {KernelRoot} /\ TablesOf(place, IdRoot) = {}
  <2>1. pc \notin WithKernelMap \cup {"halted"}
    BY <1>1 DEF WithKernelMap
  <2>2. TablesOf(place, KernelRoot) = {KernelRoot} /\ TablesOf(place, IdRoot) = {}
    BY <1>4, <1>6, <2>1 DEF TablesOK
  <2>3. \A t \in DOMAIN place : place[t].root \in {IdRoot, KernelRoot}
    BY <1>6 DEF TablesOK, IsForest, Placed, Place
  <2>4. DOMAIN place = {KernelRoot}
    BY <2>2, <2>3 DEF TablesOf
  <2>q. QED
    BY <1>6, <2>2, <2>4 DEF TablesOK
<1>8. \A f \in Ram \ IdMapRegion : pages'[f] = pages[f]
  BY <1>3
<1>9. /\ \A f \in Image \ (IdMapRegion \cup {KernelRoot}) : pages'[f] = pages[f]
      /\ \A t \in DOMAIN place : pages'[t] = pages[t]
      /\ \A f \in FdtFrames(tree) \cap Ram : pages'[f] = pages[f]
  <2>1. FdtFrames(tree) \cap Image = {}
    BY <1>0, TreeAssumption DEF DataOK
  <2>q. QED
    BY <1>7, <1>8, <2>1, LayoutFacts
<1>10. /\ Pages!TypeOK' /\ UNCHANGED <<kernel_base_va, live, result>>
       /\ \/ ~Accepted(IdPool) /\ Pages!Active' \subseteq Pages!Active
          \/ /\ Accepted(IdPool)
             /\ \E i \in Pages!Slots :
                  /\ Pages!Active' = Pages!Active \cup {i}
                  /\ mem_chunks'[i].mem_base = IdMap
                  /\ mem_chunks'[i].total_pages = IdMapNumPages + 1
             /\ used' = (used \ IdMapRegion) \cup B
  <2>1. /\ IsRegion(IdPool) /\ IdPool.check \in BOOLEAN
        /\ Pages!AlignedStart(IdPool) = IdMap /\ Pages!TotalPages(IdPool) = IdMapNumPages + 1
        /\ Pages!RegionFrames(IdPool) = IdMapRegion
    BY PoolFacts
  <2>q. QED
    BY <1>0, <1>3, <2>1, AddedRegion DEF B
<1>11. CASE ~Accepted(IdPool)
  <2>1. pc' = "halted" /\ Pages!Active' = {}
    BY <1>1, <1>5, <1>10, <1>11
  <2>2. Pages!Bitmaps' = {}
    BY <2>1 DEF Pages!Bitmaps
  <2>q. QED
    BY <1>1, <1>2, <1>3, <1>4, <1>6, <1>9, <1>10, <2>1, <2>2, HaltStep
<1>12. CASE Accepted(IdPool)
  <2>1. pc' = "id_root"
    BY <1>1, <1>12
  <2>2. PICK i \in Pages!Slots : /\ Pages!Active' = {i} /\ mem_chunks'[i].mem_base = IdMap
                                 /\ mem_chunks'[i].total_pages = IdMapNumPages + 1
    BY <1>5, <1>10, <1>12
  <2>3. used' = B /\ BitmapOf(IdPool) = B
    BY <1>3, <1>5, <1>10, <1>12
  <2>4. Pages!ChunkFrames(mem_chunks'[i]) = IdMapRegion /\ Pages!BitmapFrames(mem_chunks'[i]) = B
    BY <2>2 DEF Pages!ChunkFrames, Pages!BitmapFrames, IdMapRegion, B
  <2>5. Pages!Bitmaps' = B
    BY <2>2, <2>4 DEF Pages!Bitmaps
  <2>6. /\ pc' \in Labels /\ pc' \in LowPhase /\ pc' \in WithPool /\ pc' \notin IdMapGone \cup WithKernelMap
        /\ pc' \notin BeforePool \cup WithBanks \cup {"memory"} \cup ImageReserved \cup BlobReserved \cup IdMapDone
        /\ pc' \notin KernelMapDone
    BY <2>1 DEF Labels, LowPhase, WithPool, BeforePool, WithBanks, WithKernelMap, ImageReserved, BlobReserved,
                IdMapDone, KernelMapDone, IdMapGone, PoolFreed
  <2>7. TypeOK' /\ DataOK' /\ CallOK'
    BY <1>0, <1>1, <1>2, <1>3, <1>10, <2>6, StepFrame DEF TypeOK
  <2>8. RegistersOK' /\ ttbr1 = Null /\ ttbr1' = Null
    BY <1>0, <1>1, <1>4, <1>10, <2>6, LowRegisters
  <2>9. IdProgress'
    BY <1>0, <1>1, <2>1, <2>6, IdProgressKept
  <2>10. KernelProgress'
    BY <1>0, <1>1, <1>2, <2>1, <2>6, <2>8, KernelProgressKept
  <2>11. ChunksOK'
    BY <2>2, <2>4, <2>6 DEF ChunksOK
  <2>12. UsedOK'
    BY <2>3, <2>5, <2>6 DEF UsedOK
  <2>13. ContentsOK'
    <3>1. BlobPlaced' <=> BlobPlaced
      BY <1>2 DEF BlobPlaced
    <3>2. BlobPlaced => FdtKept'
      BY <1>0, <1>2, <1>9 DEF ContentsOK, FdtKept
    <3>3. \A f \in B : f \in Ram /\ pages'[f] = Bits
      BY <1>3, <2>3, LayoutFacts
    <3>4. pages'[IdRoot] = ZeroPage \/ IdRoot \in used'
      BY <1>3, <1>5, <2>3, LayoutFacts
    <3>q. QED
      BY <1>0, <1>9, <2>5, <2>6, <3>1, <3>2, <3>3, <3>4 DEF ContentsOK
  <2>14. HeldOK'
    BY <1>1, <1>5 DEF HeldOK
  <2>15. TablesOK(place)'
    <3>1. IsForest(place)'
      BY <1>1, <1>6, <1>9, KeepForest DEF TablesOK
    <3>2. pc' \notin PoolFreed /\ pc' \notin {"id_image", "id_uart", "halted"}
      BY <2>1 DEF PoolFreed
    <3>q. QED
      BY <1>1, <1>7, <2>6, <2>8, <3>1, <3>2 DEF TablesOK
  <2>q. QED
    BY <1>3, <2>7, <2>8, <2>9, <2>10, <2>11, <2>12, <2>13, <2>14, <2>15 DEF BootInv
<1>q. QED
  BY <1>11, <1>12

\* The root of the identity map is the first page of the pool.
LEMMA AllocIdRootStep ==
  ASSUME BootInv, AllocIdRoot
  PROVE  BootInv'
<1>0. /\ TypeOK /\ DataOK /\ ChunksOK /\ UsedOK /\ PagesOK /\ ContentsOK /\ HeldOK
      /\ IdProgress /\ KernelProgress /\ RegistersOK /\ Pages!TypeOK
  BY DEF BootInv, TypeOK
<1>1. /\ pc = "id_root" /\ call = Null /\ n' = 0 /\ bank' = 1 /\ Pages!page_alloc(1)
      /\ \/ pc' = "id_image" /\ result'.frame = IdRoot
         \/ pc' = "halted"
      /\ UNCHANGED <<tableVars, treeVars, machVars, held, steps>>
  BY DEF AllocIdRoot, At, GotoIf, Goto, Halt
<1>2. UNCHANGED <<pages, call, ok, asked, tree, mmap, reg_map>>
  BY <1>1 DEF tableVars, treeVars
<1>3. PICK u : u = result'.frame
  OBVIOUS
<1>4. /\ Pages!TypeOK' /\ UNCHANGED <<mem_chunks, kernel_base_va, reserved>>
      /\ \/ u = Null /\ used' = used
         \/ \E i \in Pages!Active :
              /\ u \in Nat /\ u \in Pages!Run(u, 1)
              /\ Pages!Run(u, 1) \subseteq Pages!ChunkFrames(mem_chunks[i]) \ used
              /\ used' = used \cup Pages!Run(u, 1)
  BY <1>0, <1>1, <1>3, PageAlloc
<1>5. SameChunks /\ PagesOK' /\ Pages!Bitmaps' = Pages!Bitmaps
  <2>1. SameChunks
    BY <1>4 DEF SameChunks
  <2>q. QED
    BY <1>0, <1>2, <2>1, SameGeometry DEF PagesOK, SameChunks
<1>6. PICK place : TablesOK(place)
  BY DEF BootInv
<1>7. CASE pc' = "halted"
  <2>1. pc \in LowPhase
    BY <1>1 DEF LowPhase
  <2>2. \A f \in Pages!Bitmaps' : pages'[f] = Bits
    BY <1>0, <1>2, <1>5 DEF ContentsOK
  <2>q. QED
    BY <1>1, <1>2, <1>4, <1>5, <1>6, <1>7, <2>1, <2>2, HaltStep
<1>8. CASE pc' = "id_image" /\ u = IdRoot
  <2>1. PICK i \in Pages!Active : u \in Pages!ChunkFrames(mem_chunks[i]) \ used /\ used' = used \cup {u}
    <3>1. u # Null
      BY <1>8, LayoutFacts
    <3>2. u \in Nat => Pages!Run(u, 1) = {u}
      BY DEF Pages!Run
    <3>q. QED
      BY <1>4, <3>1, <3>2
  <2>2. /\ pc \in WithPool /\ pc \in LowPhase /\ pc' \in LowPhase /\ pc' \in WithPool /\ pc' \in Labels
        /\ pc' \notin IdMapDone \cup IdMapGone \cup BeforePool \cup WithBanks \cup {"memory"} \cup WithKernelMap
        /\ pc' \notin KernelMapDone \cup PoolFreed
        /\ pc \notin WithKernelMap \cup BeforePool
    BY <1>1, <1>8 DEF WithPool, LowPhase, Labels, IdMapDone, IdMapGone, PoolFreed, BeforePool, WithBanks, WithKernelMap,
                      KernelMapDone
  <2>3. u \notin DOMAIN place /\ pages[u] = ZeroPage /\ u \in Ram /\ u \in IdMapRegion
    <3>1. u \notin DOMAIN place /\ u \in Ram /\ u \in IdMapRegion
      BY <1>0, <1>6, <2>1, <2>2, FreshFrame
    <3>2. pages[u] = ZeroPage
      BY <1>0, <1>1, <1>8, <2>1 DEF ContentsOK
    <3>q. QED
      BY <3>1, <3>2
  <2>4. SameMemoryPhase
    BY <1>1, <1>8 DEF SameMemoryPhase, MemoryPhases, BeforePool, WithPool, WithBanks, ImageReserved,
                      BlobReserved, WithKernelMap, PoolFreed
  <2>5. pc' \notin BeforePool \cup {"id_root", "banks"} /\ used \subseteq used'
    BY <1>8, <2>1, <2>2
  <2>6. ChunksOK' /\ UsedOK' /\ ContentsOK' /\ HeldOK'
    BY <1>0, <1>1, <1>2, <1>5, <2>4, <2>5, MemoryStays
  <2>7. TypeOK' /\ DataOK' /\ CallOK'
    BY <1>0, <1>1, <1>2, <1>4, <1>5, <2>2, StepFrame DEF TypeOK
  <2>8. RegistersOK' /\ ttbr1 = Null /\ ttbr1' = Null
    BY <1>0, <1>1, <1>4, <2>2, LowRegisters
  <2>9. IdProgress'
    BY <1>0, <1>1, <1>2, <1>8, <2>2, IdProgressKept
  <2>10. KernelProgress'
    BY <1>0, <1>1, <1>2, <1>8, <2>2, <2>8, KernelProgressKept
  <2>11. PICK more : more = [x \in DOMAIN place \cup {IdRoot} |->
                               IF x = IdRoot THEN [root |-> IdRoot, level |-> 0, v |-> 0] ELSE place[x]]
    OBVIOUS
  <2>12. IsForest(more)'
    BY <1>2, <1>6, <1>8, <2>3, <2>11, AddRoot DEF TablesOK
  <2>13. /\ DOMAIN more = DOMAIN place \cup {IdRoot}
         /\ more[IdRoot] = [root |-> IdRoot, level |-> 0, v |-> 0]
         /\ \A x \in DOMAIN place : more[x] = place[x]
    BY <1>8, <2>3, <2>11
  <2>14. /\ TablesOf(more, IdRoot) = TablesOf(place, IdRoot) \cup {IdRoot}
         /\ TablesOf(more, KernelRoot) = TablesOf(place, KernelRoot)
    BY <1>8, <2>3, <2>13, LayoutFacts DEF TablesOf
  <2>15. TablesOK(more)'
    <3>1. /\ TablesOf(place, IdRoot) \subseteq IdMapRegion /\ TablesOf(place, IdRoot) \subseteq used
          /\ TablesOf(place, KernelRoot) = {KernelRoot}
          /\ KernelRoot \in DOMAIN place /\ place[KernelRoot].level = 0
      <4>1. pc # "halted"
        BY <1>1
      <4>q. QED
        BY <1>6, <2>2, <4>1 DEF TablesOK
    <3>2. /\ TablesOf(more, IdRoot) \subseteq IdMapRegion /\ TablesOf(more, IdRoot) \subseteq used'
          /\ TablesOf(more, KernelRoot) = {KernelRoot}
          /\ KernelRoot \in DOMAIN more /\ more[KernelRoot].level = 0
          /\ IdRoot \in DOMAIN more /\ more[IdRoot].level = 0
      BY <1>8, <2>1, <2>3, <2>13, <2>14, <3>1
    <3>q. QED
      BY <1>1, <1>2, <2>2, <2>8, <2>12, <3>2 DEF TablesOK
  <2>q. QED
    BY <1>5, <2>6, <2>7, <2>8, <2>9, <2>10, <2>15 DEF BootInv
<1>q. QED
  BY <1>1, <1>3, <1>7, <1>8

\* A bank and the same with its flag are the same pages.
LEMMA CheckedFacts ==
  ASSUME NEW b, IsRegion(b)
  PROVE  /\ IsRegion(Checked(b)) /\ Checked(b).check = TRUE
         /\ Pages!AlignedStart(Checked(b)) = Pages!AlignedStart(b)
         /\ Pages!TotalPages(Checked(b)) = Pages!TotalPages(b)
         /\ Pages!RegionFrames(Checked(b)) = Pages!RegionFrames(b)
BY DEF Checked, IsRegion, Pages!AlignedStart, Pages!TotalPages, Pages!AlignmentShift, Pages!RegionFrames

\* Until the kernel map is built, all tables are in the image.
LEMMA TablesInImage ==
  ASSUME NEW place, TablesOK(place), pc \notin WithKernelMap \cup {"halted"}
  PROVE  DOMAIN place \subseteq Image /\ TablesOf(place, KernelRoot) = {KernelRoot}
<1>1. TablesOf(place, KernelRoot) = {KernelRoot} /\ TablesOf(place, IdRoot) \subseteq IdMapRegion
  BY DEF TablesOK
<1>2. \A t \in DOMAIN place : place[t].root \in {IdRoot, KernelRoot}
  BY DEF TablesOK, IsForest, Placed, Place
<1>q. QED
  BY <1>1, <1>2, LayoutFacts DEF TablesOf

\* setup_page_allocator registers a bank, with its bitmap on its first pages.
LEMMA AddBankStep ==
  ASSUME BootInv, AddBank
  PROVE  BootInv'
<1>0. /\ TypeOK /\ DataOK /\ ChunksOK /\ UsedOK /\ PagesOK /\ ContentsOK /\ HeldOK
      /\ IdProgress /\ KernelProgress /\ RegistersOK /\ Pages!TypeOK
  BY DEF BootInv, TypeOK
<1>1. PICK b, r : b = mmap[bank] /\ r = Checked(b)
  OBVIOUS
<1>2. /\ pc = "banks" /\ call = Null /\ bank <= Len(mmap) /\ AddRegion(r)
      /\ \/ Accepted(r) /\ bank' = bank + 1 /\ pc' = "banks" /\ n' = n
         \/ ~Accepted(r) /\ pc' = "halted" /\ n' = 0 /\ bank' = 1
      /\ UNCHANGED <<call, ok, asked, treeVars, machVars, held, steps>>
  BY <1>1 DEF AddBank, At, Goto, Halt
<1>3. UNCHANGED <<tree, mmap, reg_map>>
  BY <1>2 DEF treeVars
<1>4. /\ pc \in LowPhase /\ pc \in WithBanks /\ pc \notin WithKernelMap \cup {"halted", "run"} /\ pc \in IdMapDone
      /\ pc \notin WithPool \cup IdMapGone \cup KernelMapDone \cup ImageReserved \cup BlobReserved \cup BeforePool
  BY <1>2 DEF LowPhase, WithBanks, WithKernelMap, IdMapDone, IdMapGone, PoolFreed, WithPool, KernelMapDone,
              ImageReserved, BlobReserved, BeforePool
<1>5. tree \in Trees /\ MemoryReadable(tree) /\ mmap = Banks(tree)
  BY <1>0, <1>4 DEF DataOK
<1>6. /\ bank \in DOMAIN mmap /\ IsRegion(b) /\ bank \in Nat /\ n \in Nat
      /\ Pages!RegionFrames(b) \subseteq Ram
      /\ \A k \in DOMAIN mmap : k # bank => Pages!RegionFrames(mmap[k]) \cap Pages!RegionFrames(b) = {}
  <2>1. bank \in DOMAIN mmap /\ bank \in Nat /\ n \in Nat
    BY <1>0, <1>2, <1>5, BankFacts DEF TypeOK
  <2>q. QED
    BY <1>1, <1>5, <2>1, BankFacts
<1>7. /\ IsRegion(r) /\ r.check = TRUE
      /\ Pages!AlignedStart(r) = Pages!AlignedStart(b)
      /\ Pages!TotalPages(r) = Pages!TotalPages(b)
      /\ Pages!RegionFrames(r) = Pages!RegionFrames(b)
  BY <1>1, <1>6, CheckedFacts
<1> DEFINE B == Pages!Run(Pages!AlignedStart(b), Pages!BitmapPages(Pages!TotalPages(b)))
           R == Pages!RegionFrames(b)
<1>8. /\ PagesOK' /\ Pages!page_allocator_add_region(r)
      /\ \A f \in Ram : pages'[f] = IF f \in BitmapOf(r) THEN Bits ELSE pages[f]
      /\ BitmapOf(r) \subseteq B /\ BitmapOf(r) \cap Image = {} /\ (Accepted(r) => BitmapOf(r) = B)
  <2>1. kernel_base_va = Low
    BY <1>0, <1>2, <1>4 DEF RegistersOK, MmuOn
  <2>q. QED
    BY <1>0, <1>2, <1>7, <2>1, BitmapWritten
<1>9. BlobPlaced => BitmapOf(r) \cap FdtFrames(tree) = {}
  <2>1. BlobPlaced => B \cap FdtFrames(tree) = {}
    BY <1>1, <1>5, <1>6 DEF BlobPlaced
  <2>q. QED
    BY <1>8, <2>1
<1>10. PICK place : TablesOK(place)
  BY DEF BootInv
<1>11. DOMAIN place \subseteq Image /\ TablesOf(place, KernelRoot) = {KernelRoot}
  BY <1>4, <1>10, TablesInImage
<1>12. /\ \A f \in Image : pages'[f] = pages[f]
       /\ \A t \in DOMAIN place : pages'[t] = pages[t]
       /\ BlobPlaced => \A f \in FdtFrames(tree) \cap Ram : pages'[f] = pages[f]
  BY <1>8, <1>9, <1>11, LayoutFacts
<1> HIDE DEF B, R
<1>13. /\ Pages!TypeOK' /\ UNCHANGED <<kernel_base_va, live, result>>
       /\ \/ /\ ~Accepted(r) /\ Pages!Active' \subseteq Pages!Active
             /\ \A i \in Pages!Active' : mem_chunks'[i] = mem_chunks[i]
          \/ /\ Accepted(r) /\ Pages!BitmapPages(Pages!TotalPages(b)) <= Pages!TotalPages(b)
             /\ \E i \in Pages!Slots :
                  /\ Pages!Active' = Pages!Active \cup {i}
                  /\ \A j \in Pages!Active \ {i} : mem_chunks'[j] = mem_chunks[j]
                  /\ mem_chunks'[i].mem_base = Pages!AlignedStart(b)
                  /\ mem_chunks'[i].total_pages = Pages!TotalPages(b)
             /\ used' = (used \ R) \cup B /\ reserved' = reserved \ R
  <2>1. r.check \in BOOLEAN
    BY <1>7
  <2>q. QED
    BY <1>0, <1>7, <1>8, <2>1, AddedRegion DEF B, R
<1>14. /\ \A f \in Pages!Bitmaps : f \in Ram /\ pages[f] = Bits /\ pages'[f] = Bits
       /\ \A i \in Pages!Active : /\ Pages!BitmapFrames(mem_chunks[i]) \subseteq Pages!ChunkFrames(mem_chunks[i])
                                  /\ Pages!ChunkFrames(mem_chunks[i]) \subseteq Pages!Managed
       /\ Pages!Bitmaps \subseteq Pages!Managed
  <2>1. /\ Pages!Bitmaps \subseteq Ram /\ Pages!Bitmaps \subseteq Pages!Managed
        /\ \A i \in Pages!Active : /\ Pages!BitmapFrames(mem_chunks[i]) \subseteq Pages!ChunkFrames(mem_chunks[i])
                                   /\ Pages!ChunkFrames(mem_chunks[i]) \subseteq Pages!Managed
    BY <1>0, <1>4, ManagedFacts
  <2>2. \A f \in Pages!Bitmaps : pages[f] = Bits
    BY <1>0 DEF ContentsOK
  <2>q. QED
    BY <1>8, <2>1, <2>2
<1>15. CASE ~Accepted(r)
  <2>1. pc' = "halted" /\ n' = 0 /\ bank' = 1
    BY <1>2, <1>15
  <2>2. Pages!Bitmaps' \subseteq Pages!Bitmaps
    BY <1>13, <1>15 DEF Pages!Bitmaps
  <2>3. \A f \in Pages!Bitmaps' : pages'[f] = Bits
    BY <1>14, <2>2
  <2>q. QED
    BY <1>2, <1>3, <1>4, <1>8, <1>10, <1>12, <1>13, <2>1, <2>3, HaltStep
<1>16. CASE Accepted(r)
  <2>1. pc' = "banks" /\ n' = n /\ bank' = bank + 1 /\ BitmapOf(r) = B
    BY <1>2, <1>8, <1>16
  <2>2. PICK i \in Pages!Slots :
          /\ Pages!Active' = Pages!Active \cup {i}
          /\ \A j \in Pages!Active \ {i} : mem_chunks'[j] = mem_chunks[j]
          /\ mem_chunks'[i].mem_base = Pages!AlignedStart(b)
          /\ mem_chunks'[i].total_pages = Pages!TotalPages(b)
    BY <1>13, <1>16
  <2>3. used' = (used \ R) \cup B /\ reserved' = reserved \ R
    BY <1>13, <1>16
  <2>4. Pages!BitmapPages(Pages!TotalPages(b)) <= Pages!TotalPages(b)
    BY <1>13, <1>16
  <2>5. Pages!ChunkFrames(mem_chunks'[i]) = R /\ Pages!BitmapFrames(mem_chunks'[i]) = B
    BY <2>2 DEF Pages!ChunkFrames, Pages!BitmapFrames, Pages!RegionFrames, R, B
  <2>6. B \subseteq R
    <3>1. /\ Pages!AlignedStart(b) \in Nat /\ Pages!TotalPages(b) \in Nat
          /\ Pages!BitmapPages(Pages!TotalPages(b)) \in Nat
      BY <1>6, Geometry
    <3>q. QED
      BY <2>4, <3>1 DEF B, R, Pages!RegionFrames, Pages!Run
  <2>7. ASSUME NEW j \in Pages!Active \ {i}
        PROVE  /\ Pages!ChunkFrames(mem_chunks'[j]) = Pages!ChunkFrames(mem_chunks[j])
               /\ Pages!BitmapFrames(mem_chunks'[j]) = Pages!BitmapFrames(mem_chunks[j])
               /\ Pages!ChunkFrames(mem_chunks[j]) \cap R = {}
               /\ BankChunk(j)'
    <3>1. PICK k \in DOMAIN mmap :
            /\ k < bank /\ mem_chunks[j].mem_base = Pages!AlignedStart(mmap[k])
            /\ mem_chunks[j].total_pages = Pages!TotalPages(mmap[k])
            /\ Pages!BitmapPages(mem_chunks[j].total_pages) <= mem_chunks[j].total_pages
      BY <1>0, <1>2, <1>4 DEF ChunksOK, BankChunk
    <3>2. Pages!ChunkFrames(mem_chunks[j]) = Pages!RegionFrames(mmap[k])
      BY <3>1 DEF Pages!ChunkFrames, Pages!RegionFrames
    <3>3. k # bank /\ k < bank + 1
      <4>1. DOMAIN mmap = 1 .. Len(mmap)
        BY <1>5, BankFacts
      <4>q. QED
        BY <1>6, <3>1, <4>1
    <3>4. Pages!ChunkFrames(mem_chunks[j]) \cap R = {}
      BY <1>6, <3>2, <3>3 DEF R
    <3>5. mem_chunks'[j] = mem_chunks[j]
      BY <2>2
    <3>6. BankChunk(j)'
      BY <1>3, <2>1, <3>1, <3>3, <3>5 DEF BankChunk
    <3>q. QED
      BY <3>4, <3>5, <3>6
  <2>8. BankChunk(i)'
    <3>1. bank < bank + 1
      BY <1>6
    <3>q. QED
      BY <1>1, <1>3, <1>6, <2>1, <2>2, <2>4, <3>1 DEF BankChunk
  <2>9. \A f : f \in Pages!Managed' <=> f \in R \/ \E j \in Pages!Active \ {i} : f \in Pages!ChunkFrames(mem_chunks[j])
    BY <2>2, <2>5, <2>7 DEF Pages!Managed
  <2>10. \A f : f \in Pages!Bitmaps' <=> f \in B \/ \E j \in Pages!Active \ {i} : f \in Pages!BitmapFrames(mem_chunks[j])
    BY <2>2, <2>5, <2>7 DEF Pages!Bitmaps
  <2>11. /\ pc' \in Labels /\ pc' \in LowPhase /\ pc' \in WithBanks
         /\ pc' \notin WithKernelMap \cup {"halted", "run"} /\ pc' \in IdMapDone
         /\ pc' \notin WithPool \cup IdMapGone \cup KernelMapDone \cup ImageReserved \cup BlobReserved \cup BeforePool
    BY <1>2, <1>4, <2>1 DEF Labels
  <2>12. TypeOK' /\ DataOK' /\ CallOK'
    <3>1. n' \in Nat /\ bank' \in Nat \ {0}
      BY <1>6, <2>1
    <3>q. QED
      BY <1>0, <1>2, <1>3, <1>5, <1>8, <1>13, <2>11, <3>1, StepFrame DEF TypeOK
  <2>13. RegistersOK' /\ ttbr1 = Null /\ ttbr1' = Null
    BY <1>0, <1>2, <1>4, <1>13, <2>11, LowRegisters
  <2>14. IdProgress'
    BY <1>0, <1>2, <1>4, <2>1, <2>11, IdProgressKept
  <2>15. KernelProgress'
    BY <1>0, <1>2, <1>3, <2>1, <2>11, <2>13, KernelProgressKept
  <2>16. ChunksOK'
    <3>1. \A j \in Pages!Active' : BankChunk(j)'
      BY <2>2, <2>7, <2>8
    <3>2. Pages!ChunksApart'
      <4>1. Pages!ChunksApart
        BY <1>0, <1>4 DEF ChunksOK
      <4>2. ASSUME NEW j \in Pages!Active', NEW k \in Pages!Active', j # k
            PROVE  Pages!ChunkFrames(mem_chunks'[j]) \cap Pages!ChunkFrames(mem_chunks'[k]) = {}
        BY <2>2, <2>5, <2>7, <4>1, <4>2 DEF Pages!ChunksApart
      <4>q. QED
        BY <4>2 DEF Pages!ChunksApart
    <3>3. Pages!Bitmaps' \cap Image = {}
      <4>1. Pages!Bitmaps \cap Image = {} /\ B \cap Image = {}
        BY <1>0, <1>4, <1>8, <2>1 DEF ChunksOK
      <4>q. QED
        BY <2>10, <4>1, Members
    <3>q. QED
      BY <2>1, <2>11, <3>1, <3>2, <3>3 DEF ChunksOK
  <2>17. UsedOK'
    <3>1. Pages!Bitmaps' \subseteq used'
      <4>1. Pages!Bitmaps \subseteq used
        BY <1>0, <1>4 DEF UsedOK
      <4>2. ASSUME NEW j \in Pages!Active \ {i}, NEW f \in Pages!BitmapFrames(mem_chunks[j]) PROVE f \in used \ R
        BY <1>14, <2>7, <4>1, <4>2, Members
      <4>q. QED
        BY <2>3, <2>10, <4>2
    <3>q. QED
      BY <2>11, <3>1 DEF UsedOK
  <2>18. ContentsOK'
    <3>1. BlobPlaced' <=> BlobPlaced
      BY <1>3 DEF BlobPlaced
    <3>2. BlobPlaced => FdtKept'
      BY <1>0, <1>3, <1>12 DEF ContentsOK, FdtKept
    <3>3. \A f \in Pages!Bitmaps' : pages'[f] = Bits
      <4>1. \A f \in B : pages'[f] = Bits
        BY <1>6, <1>8, <2>1, <2>6 DEF R
      <4>q. QED
        BY <1>14, <2>10, <4>1, Members
    <3>q. QED
      BY <1>0, <1>12, <2>1, <2>11, <3>1, <3>2, <3>3 DEF ContentsOK
  <2>19. held = {} /\ held' = {} /\ HeldOK'
    BY <1>0, <1>2, <1>4 DEF HeldOK
  <2>20. TablesOK(place)'
    <3>1. IsForest(place)'
      BY <1>2, <1>10, <1>12, KeepForest DEF TablesOK
    <3>2. HeldFrames = {} /\ HeldFrames' = {}
      BY <2>19 DEF HeldFrames
    <3>3. used \cap Pages!Managed = (Pages!Bitmaps \cup reserved) \cap Pages!Managed
      BY <1>4, <1>10, <1>11, <3>2 DEF TablesOK
    <3>4. ASSUME NEW f \in Pages!Managed' PROVE f \in used' <=> f \in Pages!Bitmaps' \cup reserved'
      <4>1. CASE f \in R
        BY <1>14, <2>3, <2>7, <2>10, <4>1
      <4>2. CASE f \notin R
        <5>1. PICK j \in Pages!Active \ {i} : f \in Pages!ChunkFrames(mem_chunks[j])
          BY <2>9, <4>2
        <5>2. f \in Pages!Managed
          BY <5>1, Members
        <5>3. f \in Pages!Bitmaps <=> f \in Pages!Bitmaps'
          <6>1. Pages!ChunksApart
            BY <1>0, <1>4 DEF ChunksOK
          <6>2. \A k \in Pages!Active : f \in Pages!BitmapFrames(mem_chunks[k]) => k = j
            BY <1>14, <5>1, <6>1 DEF Pages!ChunksApart
          <6>q. QED
            BY <2>6, <2>10, <4>2, <5>1, <6>2, Members
        <5>q. QED
          BY <2>3, <2>6, <3>3, <4>2, <5>2, <5>3
      <4>q. QED
        BY <4>1, <4>2
    <3>5. used' \cap Pages!Managed' =
            (Pages!Bitmaps' \cup reserved' \cup (TablesOf(place, KernelRoot) \ {KernelRoot}) \cup HeldFrames')
              \cap Pages!Managed'
      BY <1>11, <3>2, <3>4
    <3>6. /\ KernelRoot \in DOMAIN place /\ place[KernelRoot].level = 0
          /\ IdRoot \in DOMAIN place /\ place[IdRoot].level = 0
          /\ TablesOf(place, IdRoot) \subseteq IdMapRegion
      BY <1>4, <1>10 DEF TablesOK
    <3>7. pc' \notin PoolFreed
      BY <2>11 DEF IdMapGone
    <3>q. QED
      BY <1>2, <1>11, <2>11, <2>13, <3>1, <3>5, <3>6, <3>7 DEF TablesOK
  <2>q. QED
    BY <1>8, <2>12, <2>13, <2>14, <2>15, <2>16, <2>17, <2>18, <2>19, <2>20 DEF BootInv
<1>q. QED
  BY <1>15, <1>16

\* Pages of a bank are reserved: those of the image, then those of the blob.
LEMMA ReserveStep ==
  ASSUME BootInv, NEW a, a.frame \in Nat, a.num \in Nat, a.offset \in Nat, Pages!reserve_page(a),
         call = Null, n' = 0, bank' = 1, UNCHANGED <<tableVars, treeVars, machVars, held, steps>>,
         pc \in {"banks", "fdt"},
         \/ pc' = "halted"
         \/ /\ pc = "banks" /\ pc' = "fdt" /\ Reservable(a) /\ Pages!Run(a.frame, a.num) = Image
         \/ /\ pc = "fdt" /\ pc' = "kernel_root" /\ Reservable(a)
            /\ BlobPlaced => Pages!Run(a.frame, a.num) = FdtFrames(tree)
  PROVE  BootInv'
<1>0. /\ TypeOK /\ DataOK /\ ChunksOK /\ UsedOK /\ PagesOK /\ ContentsOK /\ HeldOK
      /\ IdProgress /\ KernelProgress /\ RegistersOK /\ Pages!TypeOK
  BY DEF BootInv, TypeOK
<1>1. UNCHANGED <<pages, call, ok, asked, tree, mmap, reg_map>>
  BY DEF tableVars, treeVars
<1> DEFINE F == Pages!Run(a.frame, a.num)
<1>2. /\ Pages!TypeOK' /\ UNCHANGED <<mem_chunks, kernel_base_va, live, result>>
      /\ \/ ~Reservable(a) /\ UNCHANGED <<used, reserved>>
         \/ \E i \in Pages!Active :
              /\ F \subseteq Pages!ChunkFrames(mem_chunks[i])
              /\ used' = used \cup F /\ reserved' = reserved \cup F
  BY <1>0, ReservePage
<1>3. /\ Pages!Active' = Pages!Active /\ Pages!Managed' = Pages!Managed /\ Pages!Bitmaps' = Pages!Bitmaps
      /\ PagesOK' /\ SameChunks
  <2>1. SameChunks
    BY <1>2 DEF SameChunks
  <2>q. QED
    BY <1>0, <1>1, <2>1, SameGeometry DEF PagesOK, SameChunks
<1>4. PICK place : TablesOK(place)
  BY DEF BootInv
<1>5. pc \in LowPhase /\ pc \in WithBanks /\ pc \notin {"halted", "run"} /\ pc \in IdMapDone /\ pc \notin WithKernelMap
  BY DEF LowPhase, WithBanks, WithKernelMap, IdMapDone, IdMapGone, PoolFreed
<1>6. CASE pc' = "halted"
  <2>1. \A f \in Pages!Bitmaps' : pages'[f] = Bits
    BY <1>0, <1>1, <1>3 DEF ContentsOK
  <2>q. QED
    BY <1>1, <1>2, <1>3, <1>4, <1>5, <1>6, <2>1, HaltStep
<1>7. CASE pc' # "halted"
  <2>1. /\ Reservable(a) /\ pc' \in {"fdt", "kernel_root"}
        /\ pc' = "fdt" => F = Image
        /\ pc' = "kernel_root" => pc = "fdt" /\ (BlobPlaced => F = FdtFrames(tree))
    BY <1>7
  <2>2. PICK i \in Pages!Active :
          /\ F \subseteq Pages!ChunkFrames(mem_chunks[i])
          /\ used' = used \cup F /\ reserved' = reserved \cup F
    BY <1>2, <2>1
  <2> HIDE DEF F
  <2>3. F \subseteq Pages!Managed
    BY <2>2, Members
  <2>4. /\ pc' \in Labels /\ pc' \in LowPhase /\ pc' \in WithBanks /\ pc' \in IdMapDone /\ pc' # "banks"
        /\ pc' \notin WithKernelMap \cup {"halted", "run", "memory", "id_root"}
        /\ pc' \notin WithPool \cup IdMapGone \cup KernelMapDone \cup BeforePool
        /\ pc' \notin {"id_image", "id_uart", "kernel_map", "kernel_uart"}
        /\ (pc' \in BlobReserved => pc' = "kernel_root") /\ pc' \notin PoolFreed
    BY <2>1 DEF Labels, LowPhase, WithBanks, WithKernelMap, IdMapDone, IdMapGone, PoolFreed, WithPool, KernelMapDone,
                BeforePool, BlobReserved
  <2>5. MemoryReadable(tree) /\ mmap = Banks(tree)
    BY <1>0, <1>5 DEF DataOK
  <2>6. TypeOK' /\ DataOK' /\ CallOK'
    BY <1>0, <1>1, <1>2, <1>3, <2>4, <2>5, StepFrame DEF TypeOK
  <2>7. RegistersOK' /\ ttbr1 = Null /\ ttbr1' = Null
    BY <1>0, <1>2, <1>5, <2>4, LowRegisters
  <2>8. IdProgress'
    BY <1>0, <1>1, <1>5, <2>4, IdProgressKept
  <2>9. KernelProgress'
    BY <1>0, <1>1, <2>4, <2>7, KernelProgressKept
  <2>10. ChunksOK'
    <3>1. \A j \in Pages!Active' : BankChunk(j)'
      BY <1>0, <1>1, <1>2, <1>3, <1>5, <2>4 DEF ChunksOK, BankChunk
    <3>2. Pages!ChunksApart' /\ Pages!Bitmaps' \cap Image = {}
      BY <1>0, <1>2, <1>3, <1>5 DEF ChunksOK, Pages!ChunksApart
    <3>q. QED
      BY <2>4, <3>1, <3>2 DEF ChunksOK
  <2>11. BlobPlaced' <=> BlobPlaced
    BY <1>1 DEF BlobPlaced
  <2>12. UsedOK'
    <3>1. Pages!Bitmaps' \subseteq used'
      BY <1>0, <1>3, <1>5, <2>2 DEF UsedOK
    <3>2. Image \subseteq used' /\ Image \subseteq Pages!Managed'
      <4>1. CASE pc' = "fdt"
        BY <1>3, <2>1, <2>2, <2>3, <4>1
      <4>2. CASE pc' = "kernel_root"
        <5>1. pc \in ImageReserved \ PoolFreed
          BY <2>1, <4>2 DEF ImageReserved, WithBanks, PoolFreed
        <5>q. QED
          BY <1>0, <1>3, <2>2, <5>1 DEF UsedOK
      <4>q. QED
        BY <2>1, <4>1, <4>2
    <3>3. pc' \in BlobReserved /\ BlobPlaced' => FdtFrames(tree') \subseteq used' /\ FdtFrames(tree') \subseteq Pages!Managed'
      BY <1>1, <1>3, <2>1, <2>2, <2>3, <2>4, <2>11
    <3>q. QED
      BY <2>4, <3>1, <3>2, <3>3 DEF UsedOK
  <2>13. ContentsOK'
    <3>1. BlobPlaced => FdtKept'
      BY <1>0, <1>1 DEF ContentsOK, FdtKept
    <3>q. QED
      BY <1>0, <1>1, <1>3, <2>4, <2>11, <3>1 DEF ContentsOK
  <2>14. held = {} /\ held' = {} /\ HeldOK'
    BY <1>0, <1>5 DEF HeldOK
  <2>15. TablesOK(place)'
    <3>1. IsForest(place)'
      BY <1>1, <1>4, KeepForest DEF TablesOK
    <3>2. HeldFrames = {} /\ HeldFrames' = {}
      BY <2>14 DEF HeldFrames
    <3>3. /\ KernelRoot \in DOMAIN place /\ place[KernelRoot].level = 0
          /\ IdRoot \in DOMAIN place /\ place[IdRoot].level = 0
          /\ TablesOf(place, IdRoot) \subseteq IdMapRegion /\ TablesOf(place, KernelRoot) = {KernelRoot}
          /\ used \cap Pages!Managed =
               (Pages!Bitmaps \cup reserved \cup (TablesOf(place, KernelRoot) \ {KernelRoot}) \cup HeldFrames)
                 \cap Pages!Managed
      BY <1>4, <1>5 DEF TablesOK
    <3>4. used' \cap Pages!Managed' =
            (Pages!Bitmaps' \cup reserved' \cup (TablesOf(place, KernelRoot) \ {KernelRoot}) \cup HeldFrames')
              \cap Pages!Managed'
      BY <1>3, <2>2, <3>2, <3>3
    <3>q. QED
      BY <1>1, <2>4, <2>7, <3>1, <3>3, <3>4 DEF TablesOK
  <2>q. QED
    BY <1>3, <2>6, <2>7, <2>8, <2>9, <2>10, <2>12, <2>13, <2>14, <2>15 DEF BootInv
<1>q. QED
  BY <1>6, <1>7

\* reserve_kernel_img_pages.
LEMMA ReserveImageStep ==
  ASSUME BootInv, reserve_kernel_img_pages
  PROVE  BootInv'
<1>1. PICK a : a = [frame |-> ImageStart, offset |-> 0, num |-> ImagePages]
  OBVIOUS
<1>2. /\ pc = "banks" /\ call = Null /\ n' = 0 /\ bank' = 1 /\ Pages!reserve_page(a)
      /\ \/ pc' = "fdt" /\ Reservable(a)
         \/ pc' = "halted"
      /\ UNCHANGED <<tableVars, treeVars, machVars, held, steps>>
  BY <1>1 DEF reserve_kernel_img_pages, At, GotoIf, Goto, Halt
<1>3. a.frame = ImageStart /\ a.offset = 0 /\ a.num = ImagePages
  BY <1>1
<1>4. a.frame \in Nat /\ a.offset \in Nat /\ a.num \in Nat /\ Pages!Run(a.frame, a.num) = Image
  BY <1>3, LayoutAssumption DEF ImagePages
<1>q. QED
  BY <1>2, <1>4, ReserveStep

\* reserve_fdt_pages.
LEMMA ReserveFdtStep ==
  ASSUME BootInv, reserve_fdt_pages
  PROVE  BootInv'
<1>1. PICK a : a = [frame |-> tree.frame, offset |-> tree.offset, num |-> FdtPages(tree)]
  OBVIOUS
<1>2. /\ pc = "fdt" /\ call = Null /\ n' = 0 /\ bank' = 1 /\ Pages!reserve_page(a)
      /\ \/ pc' = "kernel_root" /\ Reservable(a)
         \/ pc' = "halted"
      /\ UNCHANGED <<tableVars, treeVars, machVars, held, steps>>
  BY <1>1 DEF reserve_fdt_pages, At, GotoIf, Goto, Halt
<1>3. a.frame = tree.frame /\ a.offset = tree.offset /\ a.num = FdtPages(tree)
  BY <1>1
<1>4. a.frame \in Nat /\ a.offset \in Nat /\ a.num \in Nat
  <2>1. tree \in Trees
    BY DEF BootInv, DataOK
  <2>2. tree.frame \in Nat /\ tree.offset \in Nat /\ tree.size \in Nat
    BY <2>1, TreeAssumption
  <2>q. QED
    BY <1>3, <2>2, NumPagesType DEF FdtPages
<1>5. BlobPlaced => Pages!Run(a.frame, a.num) = FdtFrames(tree)
  BY <1>3 DEF BlobPlaced, FdtFrames
<1>q. QED
  BY <1>2, <1>4, <1>5, ReserveStep

\* The pages of the identity map's pool become free: none of them is in use.
LEMMA FreeIdMapStep ==
  ASSUME BootInv, FreeIdMap
  PROVE  BootInv'
<1>0. /\ TypeOK /\ DataOK /\ ChunksOK /\ UsedOK /\ PagesOK /\ ContentsOK /\ HeldOK
      /\ IdProgress /\ KernelProgress /\ RegistersOK /\ Pages!TypeOK
  BY DEF BootInv, TypeOK
<1>1. PICK a : a = [frame |-> IdMap, offset |-> 0, num |-> IdMapNumPages + 1]
  OBVIOUS
<1>2. /\ pc = "free_id_map" /\ call = Null /\ n' = 0 /\ bank' = 1 /\ pc' = "icu_init" /\ Pages!page_free(a)
      /\ UNCHANGED <<tableVars, treeVars, machVars, held, steps>>
  BY <1>1 DEF FreeIdMap, At, Goto
<1>3. UNCHANGED <<pages, call, ok, asked, tree, mmap, reg_map>>
  BY <1>2 DEF tableVars, treeVars
<1>4. a.frame = IdMap /\ a.num = IdMapNumPages + 1 /\ a.frame \in Nat /\ a.num \in Nat
  BY <1>1, LayoutAssumption
<1>5. /\ Pages!TypeOK' /\ UNCHANGED <<mem_chunks, kernel_base_va, result>>
      /\ \/ UNCHANGED <<used, reserved>>
         \/ \E F \in SUBSET Pages!Run(a.frame, a.num) : used' = used \ F /\ reserved' = reserved \ F
  BY <1>0, <1>2, <1>4, PageFree
<1>6. PICK F \in SUBSET IdMapRegion : used' = used \ F /\ reserved' = reserved \ F
  <2>1. Pages!Run(a.frame, a.num) = IdMapRegion
    BY <1>4 DEF IdMapRegion
  <2>2. CASE UNCHANGED <<used, reserved>>
    <3>1. {} \in SUBSET IdMapRegion /\ used' = used \ {} /\ reserved' = reserved \ {}
      BY <2>2
    <3>q. QED
      BY <3>1
  <2>q. QED
    BY <1>5, <2>1, <2>2
<1>7. /\ Pages!Active' = Pages!Active /\ Pages!Managed' = Pages!Managed /\ Pages!Bitmaps' = Pages!Bitmaps
      /\ PagesOK' /\ SameChunks
  <2>1. SameChunks
    BY <1>5 DEF SameChunks
  <2>q. QED
    BY <1>0, <1>3, <2>1, SameGeometry DEF PagesOK, SameChunks
<1>8. /\ pc \in WithBanks /\ pc \in ImageReserved /\ pc \in BlobReserved /\ pc \in WithKernelMap /\ pc \in IdMapGone
      /\ pc \notin PoolFreed /\ pc \in KernelMapDone /\ pc \notin {"run", "halted", "banks"}
      /\ pc' \in Labels /\ pc' \in WithBanks /\ pc' \in WithKernelMap /\ pc' \in IdMapGone /\ pc' \in PoolFreed
      /\ pc' \in KernelMapDone /\ pc' \notin IdMapDone /\ pc' \notin BeforePool /\ pc' \notin WithPool
      /\ pc' \notin {"id_image", "id_uart", "kernel_map", "kernel_uart", "run", "halted", "banks", "id_root", "memory"}
  BY <1>2 DEF WithBanks, ImageReserved, BlobReserved, WithKernelMap, IdMapGone, PoolFreed, KernelMapDone, Labels,
              IdMapDone, BeforePool, WithPool
<1>9. MemoryReadable(tree) /\ mmap = Banks(tree) /\ tree \in Trees
  BY <1>0, <1>8 DEF DataOK
<1>10. TypeOK' /\ DataOK' /\ CallOK'
  BY <1>0, <1>2, <1>3, <1>5, <1>7, <1>8, <1>9, StepFrame DEF TypeOK
<1>11. UNCHANGED <<entry, ttbr0, ttbr1, mmu, ptr>>
  BY <1>2 DEF machVars
<1>12. RegistersOK'
  BY <1>0, <1>2, <1>5, <1>11 DEF RegistersOK, MmuOn, IdMapGone, PoolFreed
<1>13. IdProgress'
  BY <1>0, <1>2, <1>3, <1>8, IdProgressKept
<1>14. KernelProgress'
  BY <1>0, <1>2, <1>3, <1>7, <1>8, KernelProgressKept
<1>15. ChunksOK' /\ Pages!Bitmaps \cap Image = {}
  <2>1. \A j \in Pages!Active' : BankChunk(j)'
    BY <1>0, <1>3, <1>5, <1>7, <1>8 DEF ChunksOK, BankChunk
  <2>2. Pages!ChunksApart' /\ Pages!Bitmaps \cap Image = {}
    BY <1>0, <1>5, <1>7, <1>8 DEF ChunksOK, Pages!ChunksApart
  <2>q. QED
    BY <1>7, <1>8, <2>1, <2>2 DEF ChunksOK
<1>16. FdtFrames(tree) \cap Image = {} /\ IdMapRegion \subseteq Image /\ KernelRoot \notin IdMapRegion
  BY <1>9, TreeAssumption, LayoutFacts
<1>17. BlobPlaced' <=> BlobPlaced
  BY <1>3 DEF BlobPlaced
<1>18. UsedOK'
  <2>1. /\ Pages!Bitmaps \subseteq used /\ Image \subseteq used /\ Image \subseteq Pages!Managed
        /\ BlobPlaced => FdtFrames(tree) \subseteq used /\ FdtFrames(tree) \subseteq Pages!Managed
    BY <1>0, <1>8 DEF UsedOK
  <2>2. /\ Pages!Bitmaps' \subseteq used' /\ Image \ IdMapRegion \subseteq used' /\ Image \subseteq Pages!Managed'
        /\ BlobPlaced' => FdtFrames(tree') \subseteq used' /\ FdtFrames(tree') \subseteq Pages!Managed'
    BY <1>3, <1>6, <1>7, <1>15, <1>16, <1>17, <2>1
  <2>q. QED
    BY <1>8, <2>2 DEF UsedOK
<1>19. ContentsOK'
  <2>1. BlobPlaced => FdtKept'
    BY <1>0, <1>3 DEF ContentsOK, FdtKept
  <2>q. QED
    BY <1>0, <1>3, <1>7, <1>8, <1>17, <2>1 DEF ContentsOK
<1>20. held = {} /\ held' = {} /\ HeldOK'
  BY <1>0, <1>2, <1>8 DEF HeldOK
<1>21. PICK place : TablesOK(place)
  BY DEF BootInv
<1>22. TablesOK(place)'
  <2>1. IsForest(place)'
    BY <1>3, <1>21, KeepForest DEF TablesOK
  <2>2. HeldFrames = {} /\ HeldFrames' = {}
    BY <1>20 DEF HeldFrames
  <2>3. /\ KernelRoot \in DOMAIN place /\ place[KernelRoot].level = 0
        /\ TablesOf(place, IdRoot) = {}
        /\ TablesOf(place, KernelRoot) \cap Image = {KernelRoot} /\ TablesOf(place, KernelRoot) \subseteq used
        /\ used \cap Pages!Managed =
             (Pages!Bitmaps \cup reserved \cup (TablesOf(place, KernelRoot) \ {KernelRoot}) \cup HeldFrames)
               \cap Pages!Managed
    BY <1>8, <1>21 DEF TablesOK
  <2>4. TablesOf(place, KernelRoot) \subseteq used'
    BY <1>6, <1>16, <2>3
  <2>5. used' \cap Pages!Managed' =
          (Pages!Bitmaps' \cup reserved' \cup (TablesOf(place, KernelRoot) \ {KernelRoot}) \cup HeldFrames')
            \cap Pages!Managed'
    BY <1>6, <1>7, <1>15, <1>16, <2>2, <2>3
  <2>q. QED
    BY <1>2, <1>3, <1>8, <2>1, <2>3, <2>4, <2>5 DEF TablesOK
<1>q. QED
  BY <1>7, <1>10, <1>12, <1>13, <1>14, <1>15, <1>18, <1>19, <1>20, <1>22 DEF BootInv

----
(* After boot *)

\* What a call of the page allocator does not disturb.
LEMMA RunFrame ==
  ASSUME BootInv, pc = "run", call = Null, UNCHANGED <<call, ok, asked, treeVars, pc, n, bank, machVars>>,
         UNCHANGED <<mem_chunks, kernel_base_va>>, Pages!TypeOK', PagesOK',
         held' \subseteq [frame : Ram, num : Requests], steps' \in 0 .. MaxSteps
  PROVE  /\ TypeOK' /\ DataOK' /\ CallOK' /\ RegistersOK' /\ IdProgress' /\ KernelProgress'
         /\ SameMemoryPhase /\ SameTablePhase /\ SameChunks
<1>0. /\ TypeOK /\ DataOK /\ IdProgress /\ KernelProgress /\ RegistersOK
  BY DEF BootInv, TypeOK
<1>1. UNCHANGED <<tree, mmap, reg_map, entry, ttbr0, ttbr1, mmu, ptr>>
  BY DEF treeVars, machVars
<1>2. /\ pc \in WithBanks /\ pc \in Labels /\ pc \in KernelMapDone /\ pc \notin IdMapDone
  BY DEF WithBanks, WithKernelMap, Labels, KernelMapDone, IdMapDone, IdMapGone, PoolFreed
<1>3. MemoryReadable(tree) /\ mmap = Banks(tree)
  BY <1>0, <1>2 DEF DataOK
<1>4. TypeOK' /\ DataOK' /\ CallOK'
  BY <1>0, <1>1, <1>2, <1>3, StepFrame DEF TypeOK
<1>5. RegistersOK'
  BY <1>0, <1>1 DEF RegistersOK
<1>6. IdProgress'
  BY <1>0, <1>2, IdProgressKept
<1>7. SameMemoryPhase /\ SameTablePhase /\ SameChunks
  BY DEF SameMemoryPhase, SameTablePhase, SameChunks
<1>8. KernelProgress'
  <2>1. Pages!Managed' = Pages!Managed
    BY <1>7, SameGeometry DEF SameChunks
  <2>q. QED
    BY <1>0, <1>1, <1>2, <2>1, KernelProgressKept
<1>q. QED
  BY <1>4, <1>5, <1>6, <1>7, <1>8

\* page_alloc: a block is handed out and overwritten.
LEMMA RunAllocStep ==
  ASSUME BootInv, NEW k \in Requests, RunAlloc(k)
  PROVE  BootInv'
<1>0. /\ TypeOK /\ DataOK /\ ChunksOK /\ UsedOK /\ PagesOK /\ ContentsOK /\ HeldOK /\ Pages!TypeOK
  BY DEF BootInv, TypeOK
<1>1. PICK u, b : u = result'.frame /\ b = [frame |-> u, num |-> k]
  OBVIOUS
<1>2. /\ pc = "run" /\ call = Null /\ steps < MaxSteps /\ steps' = steps + 1 /\ Pages!page_alloc(k)
      /\ held' = held \cup (IF u = Null THEN {} ELSE {b})
      /\ pages' = [g \in Ram |-> IF u # Null /\ g \in Pages!Run(u, k) THEN Junk ELSE pages[g]]
      /\ UNCHANGED <<call, ok, asked, treeVars, pc, n, bank, machVars>>
  BY <1>1 DEF RunAlloc, RunCall, At
<1>3. UNCHANGED <<tree, mmap, reg_map, entry, ttbr0, ttbr1, mmu, ptr>>
  BY <1>2 DEF treeVars, machVars
<1>4. k \in Nat /\ steps' \in 0 .. MaxSteps /\ b.frame = u /\ b.num = k
  BY <1>0, <1>1, <1>2, CallerAssumption DEF TypeOK
<1> DEFINE R == Pages!Run(u, k)
<1>5. /\ Pages!TypeOK' /\ UNCHANGED <<mem_chunks, kernel_base_va, reserved>>
      /\ \/ u = Null /\ used' = used
         \/ \E i \in Pages!Active :
              /\ k > 0 /\ u # Null /\ u \in R
              /\ R \subseteq Pages!ChunkFrames(mem_chunks[i]) \ used
              /\ used' = used \cup R
  BY <1>0, <1>1, <1>2, <1>4, PageAlloc
<1>6. Pages!BlockFrames(b) = R
  BY <1>4 DEF Pages!BlockFrames
<1> HIDE DEF R
<1>7. /\ \A g \in Ram : pages'[g] = IF u # Null /\ g \in R THEN Junk ELSE pages[g]
      /\ PagesOK'
  <2>1. pages \in [Ram -> TablePage \cup {Code, Blob, Bits, Junk}]
    BY <1>0 DEF PagesOK
  <2>q. QED
    BY <1>2, <2>1 DEF R, PagesOK
<1>8. PICK place : TablesOK(place)
  BY DEF BootInv
<1>9. DOMAIN place \subseteq Ram
  BY <1>8 DEF TablesOK, IsForest, Placed
<1>10. pc \in WithKernelMap /\ pc \in WithBanks /\ pc \in PoolFreed
  BY <1>2 DEF WithKernelMap, WithBanks, PoolFreed
<1>11. KeptPages \subseteq Ram
  BY <1>0, <1>10, KeptIsMemory
<1>12. pc' \notin BeforePool \cup {"id_root"} /\ pc' # "banks"
  BY <1>2 DEF BeforePool
<1>13. CASE u = Null /\ used' = used
  <2>1. \A g \in Ram : pages'[g] = pages[g]
    BY <1>7, <1>13
  <2>2. held' = held /\ held' \subseteq [frame : Ram, num : Requests]
    BY <1>0, <1>2, <1>13 DEF TypeOK
  <2>3. /\ TypeOK' /\ DataOK' /\ CallOK' /\ RegistersOK' /\ IdProgress' /\ KernelProgress'
        /\ SameMemoryPhase /\ SameTablePhase /\ SameChunks
    BY <1>2, <1>4, <1>5, <1>7, <2>2, RunFrame
  <2>4. ChunksOK' /\ UsedOK' /\ ContentsOK' /\ HeldOK'
    BY <1>0, <1>3, <1>11, <1>12, <1>13, <2>1, <2>2, <2>3, MemoryStays
  <2>5. pages' = pages
    <3>1. pages \in [Ram -> TablePage \cup {Code, Blob, Bits, Junk}] /\ pages' \in [Ram -> TablePage \cup {Code, Blob, Bits, Junk}]
      BY <1>0, <1>7 DEF PagesOK
    <3>q. QED
      BY <2>1, <3>1
  <2>6. TablesOK(place)'
    BY <1>2, <1>3, <1>5, <1>8, <1>13, <2>2, <2>3, <2>5, TablesStay
  <2>q. QED
    BY <1>7, <2>3, <2>4, <2>6 DEF BootInv
<1>14. CASE u # Null
  <2>1. PICK i \in Pages!Active :
              /\ k > 0 /\ u \in R
              /\ R \subseteq Pages!ChunkFrames(mem_chunks[i]) \ used
              /\ used' = used \cup R
    BY <1>5, <1>14
  <2>2. \A f \in R : f \in Ram /\ f \in Pages!Managed /\ f \notin KeptPages /\ f \notin DOMAIN place
    BY <1>0, <1>8, <1>10, <2>1, FreshFrame
  <2>3. /\ \A f \in R : pages'[f] = Junk
        /\ \A f \in KeptPages : pages'[f] = pages[f]
        /\ \A t \in DOMAIN place : pages'[t] = pages[t]
    BY <1>7, <1>9, <1>11, <1>14, <2>2
  <2>4. held' = held \cup {b} /\ held' \subseteq [frame : Ram, num : Requests]
    <3>1. b \in [frame : Ram, num : Requests]
      BY <1>1, <2>1, <2>2
    <3>q. QED
      BY <1>0, <1>2, <1>14, <3>1 DEF TypeOK
  <2>5. /\ TypeOK' /\ DataOK' /\ CallOK' /\ RegistersOK' /\ IdProgress' /\ KernelProgress'
        /\ SameMemoryPhase /\ SameTablePhase /\ SameChunks
    BY <1>2, <1>4, <1>5, <1>7, <2>4, RunFrame
  <2>6. used \subseteq used'
    BY <2>1
  <2>7. ChunksOK' /\ UsedOK' /\ ContentsOK'
    BY <1>0, <1>3, <1>12, <2>3, <2>5, <2>6, MemoryKeeps
  <2>8. /\ Pages!Active' = Pages!Active /\ Pages!Managed' = Pages!Managed /\ Pages!Bitmaps' = Pages!Bitmaps
    BY <2>5, SameGeometry DEF SameChunks
  <2>9. HeldFrames' = HeldFrames \cup R
    BY <1>6, <2>4 DEF HeldFrames
  <2>10. HeldOK'
    <3>1. ASSUME NEW c \in held
          PROVE  /\ c.num > 0 /\ Pages!BlockFrames(c) \subseteq used
                 /\ \A f \in Pages!BlockFrames(c) : pages'[f] = Junk
                 /\ \E j \in Pages!Active : Pages!BlockFrames(c) \subseteq Pages!ChunkFrames(mem_chunks[j])
                 /\ Pages!BlockFrames(c) \cap R = {}
                 /\ \A d \in held : c # d => Pages!BlockFrames(c) \cap Pages!BlockFrames(d) = {}
      <4>1. /\ c.num > 0 /\ Pages!BlockFrames(c) \subseteq used
            /\ \A f \in Pages!BlockFrames(c) : pages[f] = Junk
            /\ \E j \in Pages!Active : Pages!BlockFrames(c) \subseteq Pages!ChunkFrames(mem_chunks[j])
            /\ \A d \in held : c # d => Pages!BlockFrames(c) \cap Pages!BlockFrames(d) = {}
        BY <1>0 DEF HeldOK
      <4>2. Pages!BlockFrames(c) \subseteq KeptPages
        BY DEF KeptPages, HeldFrames
      <4>q. QED
        BY <2>1, <2>3, <4>1, <4>2
    <3>2. ASSUME NEW c \in held'
          PROVE  /\ c.num > 0 /\ Pages!BlockFrames(c) \subseteq used'
                 /\ \A f \in Pages!BlockFrames(c) : pages'[f] = Junk
                 /\ \E j \in Pages!Active' : Pages!BlockFrames(c) \subseteq Pages!ChunkFrames(mem_chunks'[j])
                 /\ \A d \in held' : c # d => Pages!BlockFrames(c) \cap Pages!BlockFrames(d) = {}
      <4>1. CASE c = b
        BY <1>4, <1>5, <1>6, <2>1, <2>3, <2>4, <2>8, <3>1, <4>1
      <4>2. CASE c \in held
        BY <1>5, <1>6, <2>4, <2>6, <2>8, <3>1, <4>2
      <4>q. QED
        BY <2>4, <4>1, <4>2
    <3>q. QED
      BY <1>2, <3>2 DEF HeldOK
  <2>11. TablesOK(place)'
    <3>1. IsForest(place)'
      BY <1>2, <1>8, <2>3, KeepForest DEF TablesOK
    <3>2. R \subseteq Pages!Managed
      BY <2>2
    <3>3. used \cap Pages!Managed =
             (Pages!Bitmaps \cup reserved \cup (TablesOf(place, KernelRoot) \ {KernelRoot}) \cup HeldFrames)
               \cap Pages!Managed
      BY <1>8, <1>10 DEF TablesOK
    <3>4. used' \cap Pages!Managed' =
             (Pages!Bitmaps' \cup reserved' \cup (TablesOf(place, KernelRoot) \ {KernelRoot}) \cup HeldFrames')
               \cap Pages!Managed'
      BY <1>5, <2>1, <2>8, <2>9, <3>2, <3>3
    <3>q. QED
      BY <1>2, <1>3, <1>8, <1>10, <2>6, <3>1, <3>4 DEF TablesOK
  <2>q. QED
    BY <1>7, <2>5, <2>7, <2>10, <2>11 DEF BootInv
<1>q. QED
  BY <1>5, <1>13, <1>14

\* page_free: a block is taken back, and no page but its own.
LEMMA RunFreeStep ==
  ASSUME BootInv, NEW b \in held, RunFree(b)
  PROVE  BootInv'
<1>0. /\ TypeOK /\ DataOK /\ ChunksOK /\ UsedOK /\ PagesOK /\ ContentsOK /\ HeldOK /\ Pages!TypeOK
  BY DEF BootInv, TypeOK
<1>1. PICK a : a = [frame |-> b.frame, offset |-> 0, num |-> b.num]
  OBVIOUS
<1>2. /\ pc = "run" /\ call = Null /\ steps < MaxSteps /\ steps' = steps + 1 /\ Pages!page_free(a)
      /\ held' = held \ {b}
      /\ UNCHANGED <<tableVars, treeVars, pc, n, bank, machVars>>
  BY <1>1 DEF RunFree, RunCall, At
<1>3. UNCHANGED <<pages, call, ok, asked, tree, mmap, reg_map, entry, ttbr0, ttbr1, mmu, ptr>>
  BY <1>2 DEF tableVars, treeVars, machVars
<1>4. /\ b.frame \in Nat /\ b.num \in Nat /\ steps' \in 0 .. MaxSteps /\ a.frame = b.frame /\ a.num = b.num
      /\ held' \subseteq [frame : Ram, num : Requests]
  <2>1. b \in [frame : Ram, num : Requests] /\ held \subseteq [frame : Ram, num : Requests] /\ steps \in 0 .. MaxSteps
    BY <1>0 DEF TypeOK
  <2>2. b.frame \in Nat /\ b.num \in Nat
    <3>1. b.frame \in Ram /\ b.num \in Requests
      BY <2>1
    <3>q. QED
      BY <3>1, CallerAssumption, LayoutFacts
  <2>3. steps' \in 0 .. MaxSteps
    BY <1>2, <2>1, CallerAssumption
  <2>4. a.frame = b.frame /\ a.num = b.num
    BY <1>1
  <2>q. QED
    BY <1>2, <2>1, <2>2, <2>3, <2>4
<1>5. PICK i \in Pages!Active : Pages!BlockFrames(b) \subseteq Pages!ChunkFrames(mem_chunks[i])
  BY <1>0 DEF HeldOK
<1> DEFINE F == Pages!BlockFrames(b)
<1>6. /\ b.frame \in F /\ F \subseteq used /\ (\A f \in F : pages[f] = Junk)
      /\ \A c \in held : b # c => F \cap Pages!BlockFrames(c) = {}
  <2>1. b.num > 0
    BY <1>0 DEF HeldOK
  <2>2. b.frame \in F
    BY <1>4, <2>1 DEF Pages!BlockFrames, Pages!Run
  <2>q. QED
    BY <1>0, <2>2 DEF HeldOK
<1>7. pc \in WithKernelMap /\ pc \in WithBanks /\ pc \in PoolFreed /\ pc \in ImageReserved /\ pc \in BlobReserved
  BY <1>2 DEF WithKernelMap, WithBanks, PoolFreed, ImageReserved, BlobReserved
<1>8. Pages!TypeOK' /\ UNCHANGED <<mem_chunks, kernel_base_va>> /\ used' = used \ F /\ reserved' = reserved \ F
  <2>1. F = Pages!Run(a.frame, a.num)
    BY <1>4 DEF Pages!BlockFrames
  <2>2. \A j \in Pages!Active : b.frame \in Pages!ChunkFrames(mem_chunks[j]) => j = i
    BY <1>0, <1>5, <1>6, <1>7 DEF ChunksOK, Pages!ChunksApart
  <2>3. /\ Pages!TypeOK' /\ UNCHANGED <<mem_chunks, kernel_base_va>>
        /\ \/ \A j \in Pages!Active : a.frame \notin Pages!ChunkFrames(mem_chunks[j])
           \/ \E j \in Pages!Active : \E G \in SUBSET Pages!Run(a.frame, a.num) :
                 /\ a.frame \in Pages!ChunkFrames(mem_chunks[j])
                 /\ used' = used \ G /\ reserved' = reserved \ G
                 /\ Pages!Run(a.frame, a.num) \subseteq Pages!ChunkFrames(mem_chunks[j])
                      => G = Pages!Run(a.frame, a.num)
    <3>1. a.frame \in Nat /\ a.num \in Nat
      BY <1>4
    <3>q. QED
      BY <1>0, <1>2, <3>1, PageFree
  <2> HIDE DEF F
  <2>4. PICK j \in Pages!Active, G \in SUBSET Pages!Run(a.frame, a.num) :
          /\ b.frame \in Pages!ChunkFrames(mem_chunks[j])
          /\ used' = used \ G /\ reserved' = reserved \ G
          /\ F \subseteq Pages!ChunkFrames(mem_chunks[j]) => G = F
    <3>1. b.frame \in Pages!ChunkFrames(mem_chunks[i])
      BY <1>5, <1>6 DEF F
    <3>q. QED
      BY <1>4, <2>1, <2>3, <3>1
  <2>5. j = i /\ F \subseteq Pages!ChunkFrames(mem_chunks[i])
    BY <1>5, <2>2, <2>4 DEF F
  <2>q. QED
    BY <2>3, <2>4, <2>5
<1>9. F \subseteq Pages!Managed /\ F \subseteq Ram
  <2>1. F \subseteq Pages!Managed
    BY <1>5, Members
  <2>q. QED
    BY <1>0, <1>7, <2>1, ManagedFacts
<1> HIDE DEF F
<1>10. PagesOK'
  BY <1>0, <1>3 DEF PagesOK
<1>11. /\ TypeOK' /\ DataOK' /\ CallOK' /\ RegistersOK' /\ IdProgress' /\ KernelProgress'
       /\ SameMemoryPhase /\ SameTablePhase /\ SameChunks
  BY <1>2, <1>3, <1>4, <1>8, <1>10, RunFrame
<1>12. /\ Pages!Active' = Pages!Active /\ Pages!Managed' = Pages!Managed /\ Pages!Bitmaps' = Pages!Bitmaps
  BY <1>11, SameGeometry DEF SameChunks
<1>13. PICK place : TablesOK(place)
  BY DEF BootInv
<1>14. KernelRoot \in DOMAIN place /\ \A t \in DOMAIN place : pages[t] \in TablePage
  BY <1>13 DEF TablesOK, IsForest, Placed
<1>15. /\ F \cap DOMAIN place = {} /\ F \cap Pages!Bitmaps = {} /\ F \cap (Image \ IdMapRegion) = {}
       /\ BlobPlaced => F \cap FdtFrames(tree) = {}
  <2>1. Junk \notin TablePage /\ Junk \notin {Code, Bits, Blob}
    BY TablePages, TableAssumption
  <2>2. /\ \A f \in Image \ (IdMapRegion \cup {KernelRoot}) : pages[f] = Code
        /\ \A f \in Pages!Bitmaps : pages[f] = Bits
        /\ BlobPlaced => \A f \in FdtFrames(tree) \cap Ram : pages[f] = Blob
    BY <1>0 DEF ContentsOK, FdtKept
  <2>3. \A f \in F : pages[f] = Junk
    BY <1>6 DEF F
  <2>q. QED
    BY <1>9, <1>14, <2>1, <2>2, <2>3
<1>16. ChunksOK'
  <2>1. \A j \in Pages!Active' : BankChunk(j)'
    BY <1>0, <1>2, <1>3, <1>7, <1>8, <1>12 DEF ChunksOK, BankChunk
  <2>2. Pages!ChunksApart' /\ Pages!Bitmaps' \cap Image = {}
    BY <1>0, <1>7, <1>8, <1>12 DEF ChunksOK, Pages!ChunksApart
  <2>3. pc' \notin BeforePool \cup {"memory"} /\ pc' \notin WithPool
    BY <1>2 DEF BeforePool, WithPool
  <2>q. QED
    BY <2>1, <2>2, <2>3 DEF ChunksOK
<1>17. BlobPlaced' <=> BlobPlaced
  BY <1>3 DEF BlobPlaced
<1>18. UsedOK'
  <2>1. /\ Pages!Bitmaps \subseteq used /\ Image \ IdMapRegion \subseteq used /\ Image \subseteq Pages!Managed
        /\ BlobPlaced => FdtFrames(tree) \subseteq used /\ FdtFrames(tree) \subseteq Pages!Managed
    BY <1>0, <1>2, <1>7 DEF UsedOK
  <2>2. /\ Pages!Bitmaps' \subseteq used' /\ Image \ IdMapRegion \subseteq used' /\ Image \subseteq Pages!Managed'
        /\ BlobPlaced' => FdtFrames(tree') \subseteq used' /\ FdtFrames(tree') \subseteq Pages!Managed'
    BY <1>3, <1>8, <1>12, <1>15, <1>17, <2>1
  <2>3. pc' \in PoolFreed /\ pc' \notin BeforePool
    BY <1>2 DEF PoolFreed, BeforePool
  <2>q. QED
    BY <2>2, <2>3 DEF UsedOK
<1>19. ContentsOK'
  <2>1. BlobPlaced => FdtKept'
    BY <1>0, <1>3 DEF ContentsOK, FdtKept
  <2>2. pc' # "id_root" /\ pc' \notin BeforePool
    BY <1>2 DEF BeforePool
  <2>q. QED
    BY <1>0, <1>3, <1>12, <1>17, <2>1, <2>2 DEF ContentsOK
<1>20. HeldOK'
  <2>1. ASSUME NEW c \in held'
        PROVE  /\ c.num > 0 /\ Pages!BlockFrames(c) \subseteq used'
               /\ \A f \in Pages!BlockFrames(c) : pages'[f] = Junk
               /\ \E j \in Pages!Active' : Pages!BlockFrames(c) \subseteq Pages!ChunkFrames(mem_chunks'[j])
               /\ \A d \in held' : c # d => Pages!BlockFrames(c) \cap Pages!BlockFrames(d) = {}
    <3>1. c \in held /\ c # b
      BY <1>2
    <3>2. Pages!BlockFrames(c) \cap F = {}
      BY <1>6, <3>1 DEF F
    <3>q. QED
      BY <1>0, <1>2, <1>3, <1>8, <1>12, <3>1, <3>2 DEF HeldOK
  <2>q. QED
    BY <1>2, <2>1 DEF HeldOK
<1>21. HeldFrames' = HeldFrames \ F
  <2>1. \A f : f \in HeldFrames <=> \E c \in held : f \in Pages!BlockFrames(c)
    BY DEF HeldFrames
  <2>2. \A f : f \in HeldFrames' <=> \E c \in held' : f \in Pages!BlockFrames(c)
    BY DEF HeldFrames
  <2>3. \A c \in held : b # c => F \cap Pages!BlockFrames(c) = {}
    BY <1>6 DEF F
  <2>4. \A f : f \in HeldFrames' <=> f \in HeldFrames /\ f \notin F
    BY <1>2, <2>1, <2>2, <2>3 DEF F
  <2>q. QED
    BY <2>4
<1>22. TablesOK(place)'
  <2>1. IsForest(place)'
    BY <1>3, <1>13, KeepForest DEF TablesOK
  <2>2. /\ TablesOf(place, KernelRoot) \subseteq used /\ TablesOf(place, KernelRoot) \subseteq DOMAIN place
        /\ used \cap Pages!Managed =
             (Pages!Bitmaps \cup reserved \cup (TablesOf(place, KernelRoot) \ {KernelRoot}) \cup HeldFrames)
               \cap Pages!Managed
    BY <1>7, <1>13 DEF TablesOK, TablesOf
  <2>3. TablesOf(place, KernelRoot) \subseteq used'
    BY <1>8, <1>15, <2>2
  <2>4. used' \cap Pages!Managed' =
           (Pages!Bitmaps' \cup reserved' \cup (TablesOf(place, KernelRoot) \ {KernelRoot}) \cup HeldFrames')
             \cap Pages!Managed'
    BY <1>8, <1>12, <1>15, <1>21, <2>2
  <2>5. pc \notin WithPool
    BY <1>2 DEF WithPool
  <2>q. QED
    BY <1>2, <1>3, <1>7, <1>13, <2>1, <2>3, <2>4, <2>5 DEF TablesOK
<1>q. QED
  BY <1>10, <1>11, <1>16, <1>18, <1>19, <1>20, <1>22 DEF BootInv

----
(* The invariant *)

\* When boot starts, the one table there is is the kernel's root.
LEMMA InitInv ==
  ASSUME Init
  PROVE  BootInv
<1>1. /\ Pages!Init /\ tree \in Trees /\ mmap = <<>> /\ reg_map = <<>>
      /\ call = Null /\ ok = TRUE /\ asked = {} /\ pc = "entry" /\ n = 0 /\ bank = 1
      /\ entry \in EntryStates /\ ttbr0 = Null /\ ttbr1 = Null
      /\ mmu = [mair |-> FALSE, tcr |-> FALSE, epd0 |-> FALSE, m |-> FALSE, tlb |-> FALSE]
      /\ ptr = [exec |-> Low, uart0 |-> Null, console |-> Null, vbar |-> Null]
      /\ held = {} /\ steps = 0
  BY DEF Init
<1>2. \A f \in Ram : pages[f] = IF f \in Image THEN IF f \in IdMapRegion \cup {KernelRoot} THEN ZeroPage ELSE Code
                                ELSE IF f \in FdtFrames(tree) THEN Blob ELSE Junk
  BY DEF Init
<1>3. PagesOK
  <2>1. ZeroPage \in TablePage
    BY TablePages
  <2>q. QED
    BY <2>1 DEF Init, PagesOK
<1>4. /\ pc \in Labels /\ pc \in BeforePool
      /\ pc \notin WithPool \cup WithBanks \cup ImageReserved \cup BlobReserved \cup WithKernelMap \cup KernelMapDone
      /\ pc \notin IdMapDone \cup IdMapGone \cup PoolFreed \cup MmuOn
      /\ pc \notin {"id_root", "memory", "id_image", "id_uart", "kernel_map", "kernel_uart", "icu", "run", "halted"}
  BY <1>1 DEF Labels, BeforePool, WithPool, WithBanks, ImageReserved, BlobReserved, WithKernelMap, KernelMapDone,
              IdMapDone, IdMapGone, PoolFreed, MmuOn
<1>5. /\ mem_chunks = [i \in Pages!Slots |-> [mem_base |-> 0, total_pages |-> 0, bitmap |-> 0, initialized |-> FALSE]]
      /\ used = {} /\ kernel_base_va = 0 /\ live = {} /\ reserved = {}
      /\ result = [num |-> 0, frame |-> Null]
  BY <1>1 DEF Pages!Init
<1>6. Pages!TypeOK
  BY <1>5 DEF Pages!TypeOK, Pages!Chunk
<1>7. Pages!Active = {} /\ Pages!Managed = {} /\ Pages!Bitmaps = {}
  <2>1. Pages!Active = {}
    BY <1>5 DEF Pages!Active
  <2>q. QED
    BY <2>1 DEF Pages!Managed, Pages!Bitmaps
<1>8. TypeOK
  <2>1. TableTypeOK
    <3>1. DOMAIN pages = Ram /\ \A f \in Ram : pages[f] \in TablePage \cup {Code, Blob, Bits, Junk}
      BY <1>3 DEF PagesOK
    <3>q. QED
      BY <1>1, <3>1, TablePages DEF TableTypeOK, IsTable
  <2>2. Len(mmap) <= MaxMemRegions /\ Len(reg_map) \in {0, 2}
    <3>1. Len(mmap) = 0 /\ Len(reg_map) = 0
      BY <1>1
    <3>q. QED
      BY <3>1, FdtAssumption
  <2>3. /\ mmu \in [mair : BOOLEAN, tcr : BOOLEAN, epd0 : BOOLEAN, m : BOOLEAN, tlb : BOOLEAN]
        /\ ptr \in [exec : {Low, High}, uart0 : {Low, High, Null}, console : {Low, High, Null},
                    vbar : {Low, High, Null}]
    BY <1>1
  <2>4. steps \in 0 .. MaxSteps /\ n \in Nat /\ bank \in Nat \ {0}
    BY <1>1, CallerAssumption
  <2>q. QED
    BY <1>1, <1>4, <1>6, <2>1, <2>2, <2>3, <2>4 DEF TypeOK
<1>9. DataOK /\ CallOK /\ ChunksOK /\ UsedOK /\ HeldOK
  BY <1>1, <1>4, <1>5, <1>7 DEF DataOK, CallOK, ChunksOK, UsedOK, HeldOK
<1>10. ContentsOK
  <2>1. FdtKept
    <3>1. FdtFrames(tree) \cap Image = {}
      BY <1>1, TreeAssumption
    <3>q. QED
      BY <1>2, <3>1 DEF FdtKept
  <2>q. QED
    BY <1>2, <1>4, <1>7, <2>1, LayoutFacts DEF ContentsOK
<1>11. IdProgress /\ KernelProgress
  BY <1>1, <1>4 DEF IdProgress, KernelProgress
<1>12. RegistersOK
  <2>1. /\ ~mmu.m /\ ~mmu.tlb /\ kernel_base_va = Low
        /\ ptr.exec = Low /\ ptr.uart0 = Null /\ ptr.console = Null /\ ptr.vbar = Null
    BY <1>1, <1>5 DEF Low
  <2>2. High # Low /\ High # Null
    BY TableAssumption DEF High, Low
  <2>q. QED
    BY <1>1, <1>4, <2>1, <2>2 DEF RegistersOK
<1>13. PICK place : place = [x \in {KernelRoot} |-> [root |-> KernelRoot, level |-> 0, v |-> 0]]
  OBVIOUS
<1>14. /\ DOMAIN place = {KernelRoot} /\ place[KernelRoot] = [root |-> KernelRoot, level |-> 0, v |-> 0]
       /\ place[KernelRoot] \in Place /\ place[KernelRoot].level = 0 /\ place[KernelRoot].v = 0
       /\ place[KernelRoot].root = KernelRoot
  BY <1>13 DEF Place
<1>15. pages[KernelRoot] = ZeroPage /\ KernelRoot \in Ram /\ DOMAIN pages[KernelRoot] = {}
       /\ pages[KernelRoot] \in TablePage
  BY <1>2, LayoutFacts, TablePages
<1>16. IsForest(place)
  BY <1>1, <1>14, <1>15 DEF IsForest, Placed, LeadsDown, LedTo, LeavesAsked
<1>17. TablesOf(place, KernelRoot) = {KernelRoot} /\ TablesOf(place, IdRoot) = {}
  BY <1>14, LayoutFacts DEF TablesOf
<1>18. TablesOK(place)
  BY <1>1, <1>4, <1>14, <1>16, <1>17 DEF TablesOK
<1>q. QED
  BY <1>3, <1>8, <1>9, <1>10, <1>11, <1>12, <1>18 DEF BootInv

\* Nothing changes.
LEMMA StutterInv ==
  ASSUME BootInv, UNCHANGED vars
  PROVE  BootInv'
<1>1. /\ UNCHANGED <<mem_chunks, used, kernel_base_va, live, reserved, result>>
      /\ UNCHANGED <<pages, call, ok, asked, tree, mmap, reg_map, pc, n, bank>>
      /\ UNCHANGED <<entry, ttbr0, ttbr1, mmu, ptr, held, steps>>
  BY DEF vars, allocVars, tableVars, bootVars, treeVars, machVars
<1>2. SameChunks
  BY <1>1 DEF SameChunks
<1>3. Pages!Active' = Pages!Active /\ Pages!Managed' = Pages!Managed /\ Pages!Bitmaps' = Pages!Bitmaps
  BY <1>2, SameGeometry DEF SameChunks
<1>4. TypeOK'
  <2>1. Pages!TypeOK'
    BY <1>1 DEF BootInv, TypeOK, Pages!TypeOK
  <2>2. TableTypeOK'
    BY <1>1 DEF BootInv, TypeOK, TableTypeOK, IsTable
  <2>q. QED
    BY <1>1, <2>1, <2>2 DEF BootInv, TypeOK
<1>5. DataOK' /\ CallOK'
  BY <1>1 DEF BootInv, DataOK, CallOK
<1>6. ChunksOK'
  BY <1>1, <1>3 DEF BootInv, ChunksOK, BankChunk, Pages!ChunksApart
<1>7. BlobPlaced' <=> BlobPlaced
  BY <1>1 DEF BlobPlaced
<1>8. UsedOK' /\ PagesOK'
  BY <1>1, <1>3, <1>7 DEF BootInv, UsedOK, PagesOK
<1>9. ContentsOK'
  BY <1>1, <1>3, <1>7 DEF BootInv, ContentsOK, FdtKept
<1>10. HeldOK'
  BY <1>1, <1>3 DEF BootInv, HeldOK
<1>11. Done' = Done
  BY <1>1 DEF Done
<1>12. IdProgress'
  BY <1>1, <1>11 DEF BootInv, IdProgress, CallIs
<1>13. KernelProgress'
  BY <1>1, <1>3, <1>7, <1>11 DEF BootInv, KernelProgress, CallIs
<1>14. RegistersOK'
  BY <1>1 DEF BootInv, RegistersOK
<1>15. PICK place : TablesOK(place)
  BY DEF BootInv
<1>16. TablesOK(place)'
  <2>1. IsForest(place)'
    BY <1>1, <1>15, KeepForest DEF TablesOK
  <2>2. HeldFrames' = HeldFrames /\ Walked' = Walked
    BY <1>1 DEF HeldFrames, Walked
  <2>q. QED
    BY <1>1, <1>3, <1>15, <2>1, <2>2 DEF TablesOK
<1>q. QED
  BY <1>4, <1>5, <1>6, <1>8, <1>9, <1>10, <1>12, <1>13, <1>14, <1>16 DEF BootInv

\* Every step keeps the invariant.
LEMMA NextInv ==
  BootInv /\ [Next]_vars => BootInv'
<1> SUFFICES ASSUME BootInv, [Next]_vars PROVE BootInv'
  OBVIOUS
<1>1. CASE InMapPage
  BY <1>1, AllocateStep, FollowStep, LeafStep DEF InMapPage, MapPageStep
<1>2. CASE MapFailed
  BY <1>2, PlainSteps
<1>3. CASE EarlyBoot
  BY <1>3, PlainSteps, EarlySteps DEF EarlyBoot
<1>4. CASE SetupIdMap
  BY <1>4, AddIdPoolStep, AllocIdRootStep, MapIdImageStep, IdImageMappedStep, MapUartStep, IdUartMappedStep
     DEF SetupIdMap
<1>5. CASE SetupAllocator
  BY <1>5, ReadTreeStep, AddBankStep, ReserveImageStep, ReserveFdtStep DEF SetupAllocator
<1>6. CASE SetupKernelMap
  BY <1>6, InitKernelRootStep, MapMemStep, RegionMappedStep, KernelMapDoneStep, MapUartStep, EnableMmuStep
     DEF SetupKernelMap
<1>7. CASE HighHalf
  BY <1>7, HighSteps, FixupStep, DropIdMapStep, FreeIdMapStep, PlainSteps, MapContinuousStep DEF HighHalf
<1>8. CASE RunStep
  BY <1>8, RunAllocStep, RunFreeStep, RunMapStep DEF RunStep
<1>9. CASE UNCHANGED vars
  BY <1>9, StutterInv
<1>q. QED
  BY <1>1, <1>2, <1>3, <1>4, <1>5, <1>6, <1>7, <1>8, <1>9 DEF Next, BootStep

\* The invariant holds in every reachable state.
THEOREM BootInvariant == Spec => []BootInv
BY InitInv, NextInv, PTL DEF Spec

----
(* What follows from it *)

\* Above a table there is the root of its map.
LEMMA RootPresent ==
  ASSUME NEW place, IsForest(place), NEW t \in DOMAIN place
  PROVE  /\ place[t].root \in DOMAIN place
         /\ place[place[t].root].level = 0 /\ place[place[t].root].root = place[t].root
<1>1. \A u \in DOMAIN place : place[u] \in Place
  BY DEF IsForest, Placed
<1>2. ASSUME NEW u \in DOMAIN place, place[u].level = 0
      PROVE  /\ place[u].root \in DOMAIN place
             /\ place[place[u].root].level = 0 /\ place[place[u].root].root = place[u].root
  BY <1>2 DEF IsForest, Placed
<1>3. ASSUME NEW u \in DOMAIN place, place[u].level > 0
      PROVE  \E w \in DOMAIN place : place[w].root = place[u].root /\ place[w].level = place[u].level - 1
  <2>1. PICK w \in DOMAIN place : \E i : place[u] = Below(place[w], i)
    BY <1>3 DEF IsForest, LedTo
  <2>2. place[u].root = place[w].root /\ place[u].level = place[w].level + 1
    BY <2>1 DEF Below
  <2>3. place[w].level \in Int
    BY <1>1 DEF Place
  <2>q. QED
    BY <2>2, <2>3
<1>4. \A u \in DOMAIN place : place[u].level \in 0 .. 3
  BY <1>1 DEF Place
<1>5. ASSUME NEW u \in DOMAIN place, place[u].level = 1
      PROVE  /\ place[u].root \in DOMAIN place
             /\ place[place[u].root].level = 0 /\ place[place[u].root].root = place[u].root
  <2>1. PICK w \in DOMAIN place : place[w].root = place[u].root /\ place[w].level = 0
    BY <1>3, <1>5
  <2>q. QED
    BY <1>2, <2>1
<1>6. ASSUME NEW u \in DOMAIN place, place[u].level = 2
      PROVE  /\ place[u].root \in DOMAIN place
             /\ place[place[u].root].level = 0 /\ place[place[u].root].root = place[u].root
  <2>1. PICK w \in DOMAIN place : place[w].root = place[u].root /\ place[w].level = 1
    BY <1>3, <1>6
  <2>q. QED
    BY <1>5, <2>1
<1>7. ASSUME NEW u \in DOMAIN place, place[u].level = 3
      PROVE  /\ place[u].root \in DOMAIN place
             /\ place[place[u].root].level = 0 /\ place[place[u].root].root = place[u].root
  <2>1. PICK w \in DOMAIN place : place[w].root = place[u].root /\ place[w].level = 2
    BY <1>3, <1>7
  <2>q. QED
    BY <1>6, <2>1
<1>8. place[t].level \in {0, 1, 2, 3}
  BY <1>4
<1>q. QED
  BY <1>2, <1>5, <1>6, <1>7, <1>8

\* Where its root is known, the tables of a map are its part of the forest and
\* its translations those that were asked for.
LEMMA MapsKnown ==
  ASSUME BootInv, NEW place, TablesOK(place)
  PROVE  /\ Translations(KernelRoot) = Given(KernelRoot) /\ Tables(KernelRoot) = TablesOf(place, KernelRoot)
         /\ pc \in {"id_image", "id_uart"} \cup IdMapDone =>
              Translations(IdRoot) = Given(IdRoot) /\ Tables(IdRoot) = TablesOf(place, IdRoot)
         /\ \A a \in asked : Translations(a.root) = Given(a.root)
<1>1. IsForest(place) /\ KernelRoot \in DOMAIN place /\ place[KernelRoot].level = 0
  BY DEF TablesOK
<1>2. \A t \in DOMAIN place : place[t].level = 0 => place[t].root = t
  BY <1>1 DEF IsForest, Placed
<1>3. Translations(KernelRoot) = Given(KernelRoot) /\ Tables(KernelRoot) = TablesOf(place, KernelRoot)
  BY <1>1, <1>2, ForestMaps
<1>4. pc \in {"id_image", "id_uart"} \cup IdMapDone =>
        Translations(IdRoot) = Given(IdRoot) /\ Tables(IdRoot) = TablesOf(place, IdRoot)
  <2> SUFFICES ASSUME pc \in {"id_image", "id_uart"} \cup IdMapDone
               PROVE  Translations(IdRoot) = Given(IdRoot) /\ Tables(IdRoot) = TablesOf(place, IdRoot)
    OBVIOUS
  <2>1. IdRoot \in DOMAIN place /\ place[IdRoot].level = 0
    BY DEF TablesOK
  <2>q. QED
    BY <1>1, <1>2, <2>1, ForestMaps
<1>5. ASSUME NEW a \in asked PROVE Translations(a.root) = Given(a.root)
  <2>1. PICK t \in DOMAIN place : \E i : a = Meaning(place[t].root, place[t].v * PtrsPerTable + i, pages[t][i])
    BY <1>1 DEF IsForest, LeavesAsked
  <2>2. a.root = place[t].root
    BY <2>1 DEF Meaning
  <2>3. a.root \in DOMAIN place /\ place[a.root].level = 0 /\ place[a.root].root = a.root
    BY <1>1, <2>2, RootPresent
  <2>q. QED
    BY <1>1, <2>3, ForestMaps
<1>q. QED
  BY <1>3, <1>4, <1>5

\* The variables have their types.
THEOREM TypeCorrect == Spec => []TypeOK
<1>1. BootInv => TypeOK
  BY DEF BootInv
<1>q. QED
  BY <1>1, BootInvariant, PTL

\* The maps the hardware walks hold exactly what map_page was asked for.
THEOREM MapsAreExact == Spec => []MapsExact
<1>1. BootInv => MapsExact
  <2> SUFFICES ASSUME BootInv PROVE MapsExact
    OBVIOUS
  <2>1. PICK place : TablesOK(place)
    BY DEF BootInv
  <2>2. Translations(KernelRoot) = Given(KernelRoot) /\ \A a \in asked : Translations(a.root) = Given(a.root)
    BY <2>1, MapsKnown
  <2>q. QED
    BY <2>2 DEF MapsExact
<1>q. QED
  BY <1>1, BootInvariant, PTL

\* No step overwrites the image, a bitmap or the device tree, provided the
\* blob ends on the last page that reserve_fdt_pages counts and is not where
\* setup_page_allocator puts a bitmap.
THEOREM MemoryIsKept == Spec => [](BlobPlaced => MemoryKept)
<1>1. BootInv => (BlobPlaced => MemoryKept)
  BY DEF BootInv, ContentsOK, MemoryKept
<1>q. QED
  BY <1>1, BootInvariant, PTL

\* The translations of the maps in force, wherever they are in force.
LEMMA MapsInForce ==
  ASSUME BootInv
  PROVE  /\ ttbr0 # Null =>
              /\ ttbr0 = IdRoot /\ pc \in IdMapDone
              /\ \A f \in Image : IdPage(f) \in Translations(IdRoot)
              /\ UartPage(IdRoot) \in Translations(IdRoot)
         /\ ttbr1 # Null =>
              /\ ttbr1 = KernelRoot
              /\ \A f \in RegionFramesOf(mmap) : KernelPage(f) \in Translations(KernelRoot)
              /\ UartPage(KernelRoot) \in Translations(KernelRoot)
              /\ Pages!Managed \cup Image \subseteq RegionFramesOf(mmap)
              /\ BlobPlaced => FdtFrames(tree) \subseteq RegionFramesOf(mmap)
<1>0. TypeOK /\ IdProgress /\ KernelProgress /\ RegistersOK
  BY DEF BootInv
<1>1. PICK place : TablesOK(place)
  BY DEF BootInv
<1>2. /\ ttbr0 \in {Null, IdRoot} /\ ttbr1 \in {Null, KernelRoot}
  BY <1>0 DEF TypeOK
<1>3. ASSUME ttbr0 # Null
      PROVE  /\ ttbr0 = IdRoot /\ pc \in IdMapDone
             /\ \A f \in Image : IdPage(f) \in Translations(IdRoot)
             /\ UartPage(IdRoot) \in Translations(IdRoot)
  <2>1. pc \in {"ttbr1", "m", "switch", "fixup", "high_console", "high_vbar", "epd0", "clear_ttbr0"}
    BY <1>0, <1>3 DEF RegistersOK
  <2>2. pc \in IdMapDone
    BY <2>1 DEF IdMapDone, WithBanks, WithKernelMap, IdMapGone, PoolFreed
  <2>3. UartPage(IdRoot) \in asked /\ \A f \in Image : IdPage(f) \in asked
    BY <1>0, <2>2 DEF IdProgress
  <2>4. Translations(IdRoot) = Given(IdRoot)
    BY <1>1, <2>2, MapsKnown
  <2>q. QED
    BY <1>2, <1>3, <2>2, <2>3, <2>4, PageFields DEF Given
<1>4. ASSUME ttbr1 # Null
      PROVE  /\ ttbr1 = KernelRoot
             /\ \A f \in RegionFramesOf(mmap) : KernelPage(f) \in Translations(KernelRoot)
             /\ UartPage(KernelRoot) \in Translations(KernelRoot)
             /\ Pages!Managed \cup Image \subseteq RegionFramesOf(mmap)
             /\ BlobPlaced => FdtFrames(tree) \subseteq RegionFramesOf(mmap)
  <2>1. /\ \A f \in RegionFramesOf(mmap) : KernelPage(f) \in asked
        /\ UartPage(KernelRoot) \in asked
        /\ Pages!Managed \cup Image \subseteq RegionFramesOf(mmap)
        /\ BlobPlaced => FdtFrames(tree) \subseteq RegionFramesOf(mmap)
    BY <1>0, <1>4 DEF KernelProgress
  <2>2. Translations(KernelRoot) = Given(KernelRoot)
    BY <1>1, MapsKnown
  <2>q. QED
    BY <1>2, <1>4, <2>1, <2>2, PageFields DEF Given
<1>q. QED
  BY <1>3, <1>4

\* With the MMU on, everything the kernel reaches for is mapped, and only the
\* image is executable, under the same condition on the blob.
THEOREM KernelIsReachable == Spec => [](BlobPlaced => KernelReachable)
<1>1. BootInv => (BlobPlaced => KernelReachable)
  <2> SUFFICES ASSUME BootInv, BlobPlaced PROVE KernelReachable
    OBVIOUS
  <2>1. ASSUME ttbr0 # Null
        PROVE  /\ \A f \in Image : Translation(Request(ttbr0, f, f, 0, RW(TRUE), NORMAL)) \in Translations(ttbr0)
               /\ Translation(Request(ttbr0, Uart, Uart, 0, RW(FALSE), DEVICE)) \in Translations(ttbr0)
    BY <2>1, MapsInForce DEF IdPage, UartPage
  <2>2. ASSUME ttbr1 # Null
        PROVE  /\ \A f \in Pages!Managed \cup Image \cup FdtFrames(tree) :
                    Translation(Request(ttbr1, f, f, 0, RW(f \in Image), NORMAL)) \in Translations(ttbr1)
               /\ Translation(Request(ttbr1, Uart, Uart, 0, RW(FALSE), DEVICE)) \in Translations(ttbr1)
    BY <2>2, MapsInForce DEF KernelPage, UartPage
  <2>q. QED
    BY <2>1, <2>2 DEF KernelReachable
<1>q. QED
  BY <1>1, BootInvariant, PTL

\* The core, the exception vectors and the console are reached through a map
\* in force throughout: none of them is low once the identity map goes.
THEOREM PointersStayValid == Spec => []PointersValid
<1>1. BootInv => PointersValid
  <2> SUFFICES ASSUME BootInv PROVE PointersValid
    OBVIOUS
  <2>0. TypeOK /\ RegistersOK
    BY DEF BootInv
  <2>1. /\ ptr.exec \in {Low, High} /\ ptr.uart0 \in {Low, High, Null}
        /\ ptr.console \in {Low, High, Null} /\ ptr.vbar \in {Low, High, Null}
    BY <2>0 DEF TypeOK
  <2>2. Low # High
    BY DEF Low, High
  <2>3. ASSUME NEW h \in {Low, High}, h \in {ptr.exec, ptr.uart0, ptr.console, ptr.vbar}
        PROVE  Reaches(h, Image) /\ Reaches(h, {Uart})
    <3>1. CASE ~mmu.m
      <4>1. h = Low
        BY <2>0, <2>3, <3>1 DEF RegistersOK
      <4>q. QED
        BY <3>1, <4>1 DEF Reaches
    <3>2. CASE mmu.m /\ h = High
      <4>1. mmu.mair /\ mmu.tcr /\ ttbr1 = KernelRoot /\ KernelRoot # Null
        BY <2>0, <3>2, LayoutFacts DEF RegistersOK
      <4>2. /\ Image \subseteq {t.v : t \in Translations(KernelRoot)}
            /\ Uart \in {t.v : t \in Translations(KernelRoot)}
        <5>1. /\ \A f \in Image : KernelPage(f) \in Translations(KernelRoot)
              /\ UartPage(KernelRoot) \in Translations(KernelRoot)
          BY <4>1, MapsInForce
        <5>q. QED
          BY <5>1, PageFields
      <4>q. QED
        BY <3>2, <4>1, <4>2 DEF Reaches
    <3>3. CASE mmu.m /\ h = Low
      <4>1. pc \in {"switch", "fixup", "high_console", "high_vbar"}
        BY <2>0, <2>3, <3>3 DEF RegistersOK
      <4>2. mmu.mair /\ mmu.tcr /\ ~mmu.epd0 /\ ttbr0 = IdRoot /\ IdRoot # Null
        BY <2>0, <3>3, <4>1, LayoutFacts DEF RegistersOK
      <4>3. /\ Image \subseteq {t.v : t \in Translations(IdRoot)}
            /\ Uart \in {t.v : t \in Translations(IdRoot)}
        <5>1. /\ \A f \in Image : IdPage(f) \in Translations(IdRoot)
              /\ UartPage(IdRoot) \in Translations(IdRoot)
          BY <4>2, MapsInForce
        <5>q. QED
          BY <5>1, PageFields
      <4>q. QED
        BY <2>2, <3>3, <4>2, <4>3 DEF Reaches
    <3>q. QED
      BY <3>1, <3>2, <3>3
  <2>4. pc \notin {"entry", "sctlr", "console", "halted"} => Null \notin {ptr.console, ptr.vbar, ptr.uart0}
    BY <2>0 DEF RegistersOK
  <2>q. QED
    BY <2>1, <2>3, <2>4 DEF PointersValid
<1>q. QED
  BY <1>1, BootInvariant, PTL

\* Once the banks are set up, a page is marked used exactly when it holds a
\* bitmap or a table of the kernel map, is reserved or was handed out, and no
\* table the MMU walks is ever free.
THEOREM TablesAreAccounted == Spec => []TablesAccounted
<1>1. BootInv => TablesAccounted
  <2> SUFFICES ASSUME BootInv PROVE TablesAccounted
    OBVIOUS
  <2>0. TypeOK /\ RegistersOK /\ UsedOK
    BY DEF BootInv
  <2>1. PICK place : TablesOK(place)
    BY DEF BootInv
  <2>2. /\ Tables(KernelRoot) = TablesOf(place, KernelRoot)
        /\ pc \in IdMapDone => Tables(IdRoot) = TablesOf(place, IdRoot)
    BY <2>1, MapsKnown
  <2>3. ASSUME pc \notin {"entry", "sctlr", "console", "id_region", "id_root", "id_image", "id_uart",
                          "memory", "banks", "fdt", "halted"}
        PROVE  used \cap Pages!Managed =
                 (Pages!Bitmaps \cup reserved \cup Tables(KernelRoot) \cup HeldFrames) \cap Pages!Managed
    <3>1. pc \in WithBanks /\ pc \in ImageReserved
      <4>1. pc \in Labels
        BY <2>0 DEF TypeOK
      <4>q. QED
        BY <2>3, <4>1 DEF Labels, WithBanks, WithKernelMap, ImageReserved
    <3>2. KernelRoot \in used
      BY <2>0, <3>1, LayoutFacts DEF UsedOK
    <3>3. used \cap Pages!Managed =
            (Pages!Bitmaps \cup reserved \cup (TablesOf(place, KernelRoot) \ {KernelRoot}) \cup HeldFrames)
              \cap Pages!Managed
      BY <2>1, <3>1 DEF TablesOK
    <3>4. KernelRoot \in TablesOf(place, KernelRoot)
      BY <2>1 DEF TablesOK, IsForest, Placed, TablesOf
    <3>q. QED
      BY <2>2, <3>2, <3>3, <3>4
  <2>4. ASSUME ttbr0 # Null \/ mmu.tlb PROVE Tables(IdRoot) \subseteq used
    <3>1. pc \in {"ttbr1", "m", "switch", "fixup", "high_console", "high_vbar", "epd0", "clear_ttbr0", "tlbi"}
      BY <2>0, <2>4 DEF RegistersOK, MmuOn
    <3>2. pc \in IdMapDone /\ pc \in ImageReserved \ PoolFreed
      BY <3>1 DEF IdMapDone, WithBanks, WithKernelMap, IdMapGone, PoolFreed, ImageReserved
    <3>3. TablesOf(place, IdRoot) \subseteq IdMapRegion /\ IdMapRegion \subseteq Image /\ Image \subseteq used
      BY <2>0, <2>1, <3>2, LayoutFacts DEF TablesOK, UsedOK
    <3>q. QED
      BY <2>2, <3>2, <3>3
  <2>5. ASSUME ttbr1 # Null PROVE Tables(ttbr1) \subseteq used
    <3>1. ttbr1 = KernelRoot
      BY <2>0, <2>5 DEF TypeOK
    <3>2. TablesOf(place, KernelRoot) \subseteq used
      BY <2>1, <2>5 DEF TablesOK
    <3>q. QED
      BY <2>2, <3>1, <3>2
  <2>q. QED
    BY <2>3, <2>4, <2>5 DEF TablesAccounted
<1>q. QED
  BY <1>1, BootInvariant, PTL

====
