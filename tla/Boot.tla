------------------------------- MODULE Boot -------------------------------
(***************************************************************************)
(* From the entry in boot.s to the end of gicv3_init's mappings:           *)
(* kernel/main.c with utils.c and mmu.c, as a composition of the page      *)
(* allocator, the page tables and the device tree.  Irq, Timer and Kernel  *)
(* go on from there.                                                       *)
(*                                                                         *)
(* The identity map is built from a static pool inside the kernel image,   *)
(* which is registered with the page allocator for that time only; then    *)
(* the memory banks of the device tree are registered, the image and the   *)
(* device tree reserved, the kernel map built over all banks, the MMU      *)
(* switched on, and the identity map given back.  Boot is sequential: pc   *)
(* names the call main makes next, n counts the pages of a mapping loop    *)
(* and bank the elements of a list of regions.                             *)
(*                                                                         *)
(* Half-way the kernel moves from low to high addresses.  ptr is where the *)
(* pointers it keeps lead: those made before the move are low and end with *)
(* the identity map.                                                       *)
(*                                                                         *)
(* After boot anyone may allocate, free and map pages; a page handed out   *)
(* is overwritten at once.                                                 *)
(***************************************************************************)
EXTENDS PageTable, Fdt

CONSTANTS
  IdMap,          \* idmap_pg_dir_bitmap_start, a frame of Image
  IdMapNumPages,  \* ID_MAP_NUM_PAGES
  ImageStart,     \* image_start, the first frame of Image
  Uart,           \* the frame of the UART's registers
  Trees,          \* the device trees the loader may pass
  EntryStates,    \* how the loader enters: [core, el]
  Requests,       \* page counts asked for after boot
  Mappings,       \* pages mapped after boot, [v, p, offset, perms, type]
  MaxSteps        \* how many calls are made after boot, at most

VARIABLES
  tree,    \* the device tree
  mmap,    \* the memory banks main and setup_page_allocator found in it
  reg_map, \* the register regions of the GIC, once gicv3_init has found them
  pc,      \* what main does next
  n,       \* pages mapped by the loop under way
  bank,    \* the region the loop under way has come to
  entry,   \* the core and the exception level the kernel was entered on
  ttbr0,   \* root of the low map, Null until it is set and once it is cleared
  ttbr1,   \* root of the high map, Null until it is set
  mmu,     \* MAIR and TCR are set, EPD0, M, and whether the TLB may hold low translations
  ptr,     \* pc and sp, uart0, serial_console.putc, VBAR_EL1: Low, High or Null
  held,    \* blocks allocated after boot
  steps    \* calls made after boot

treeVars == <<tree, mmap, reg_map>>
machVars == <<entry, ttbr0, ttbr1, mmu, ptr>>
bootVars == <<treeVars, pc, n, bank, machVars, held, steps>>
vars == <<allocVars, tableVars, bootVars>>

----
(* The image (linker.lds, symbols.h). *)

ImagePages == Cardinality(Image)            \* NUM_PAGES(get_image_size())
IdRoot == IdMap + 1                       \* get_id_map_root
IdMapRegion == Pages!Run(IdMap, IdMapNumPages + 1)
KernelRoot == IdMap + 1 + IdMapNumPages   \* get_kernel_map_root

(* Where a pointer leads: to the low or to the high half, as kernel_base_va. *)

Low == 0
High == 1

(* The device tree: the loader passes a blob, which starts at t.offset in    *)
(* page t.frame and holds t.nodes.                                           *)

\* libfdt can read the blob, and get_mem the memory nodes.
MemoryReadable(t) == t.readable /\ ~get_mem_fails(t.nodes)

\* check_fdt asks libfdt for more than get_mem needs: a blob that can be read
\* may still have a header it rejects.
check_fdt(t) == t.header

\* A region of a memory map, its base split at the page size.
Region(r) == [frame |-> r.base \div PageSize, offset |-> r.base % PageSize, size |-> r.size]

RegionsOf(map) == [i \in DOMAIN map |-> Region(map[i])]

\* The memory banks of tree t.
Banks(t) == RegionsOf(get_mem(t.nodes))

\* The pages the blob lies on.
FdtFrames(t) ==
  Pages!Run(t.frame, Pages!NumPages(t.offset + t.size))

\* Faulty variant: a size that is no multiple of the page size is rounded down.
FdtPagesFloor(t) == t.size \div PageSize

\* num_pages of reserve_fdt_pages
FdtPages(t) == Pages!NumPages(t.size)

----
Init ==
  /\ Pages!Init
  /\ tree \in Trees /\ mmap = <<>> /\ reg_map = <<>>
  /\ pages = [f \in Ram |->
       IF f \in Image THEN IF f \in IdMapRegion \cup {KernelRoot} THEN ZeroPage ELSE Code
       ELSE IF f \in FdtFrames(tree) THEN Blob ELSE Junk]
  /\ call = Null /\ ok = TRUE /\ asked = {}
  /\ pc = "entry" /\ n = 0 /\ bank = 1
  /\ entry \in EntryStates /\ ttbr0 = Null /\ ttbr1 = Null
  /\ mmu = [mair |-> FALSE, tcr |-> FALSE, epd0 |-> FALSE, m |-> FALSE, tlb |-> FALSE]
  /\ ptr = [exec |-> Low, uart0 |-> Null, console |-> Null, vbar |-> Null]
  /\ held = {} /\ steps = 0

At(label) == pc = label /\ call = Null

Goto(label) == pc' = label /\ n' = 0 /\ bank' = 1

\* main returns 1 and primary_entry calls exit; or a panic ends in a loop.
Halt == Goto("halted")

\* On to `label' if a call succeeded; otherwise main gives up.
GotoIf(success, label) == IF success THEN Goto(label) ELSE Halt

----
(* Calls of the page allocator, with what they write and return. *)

\* page_allocator_add_region returns true.
Accepted(r) ==
  /\ Pages!Candidates(r) # {}
  /\ Pages!AlignmentShift(r) < r.size
  /\ ~(r.check /\ Pages!BitmapOverlapsImage(r))
  /\ Pages!BitmapFits(r)

\* The frames page_init_chunk writes the bitmap to; it may still refuse the
\* region afterwards.
BitmapOf(r) ==
  IF \/ Pages!Candidates(r) = {}
     \/ Pages!AlignmentShift(r) >= r.size
     \/ r.check /\ Pages!BitmapOverlapsImage(r)
  THEN {} ELSE Pages!Run(Pages!AlignedStart(r), Pages!BitmapPages(Pages!TotalPages(r)))

AddRegion(r) ==
  /\ Pages!page_allocator_add_region(r)
  /\ pages' = [f \in Ram |-> IF f \in BitmapOf(r) THEN Bits ELSE pages[f]]

\* reserve_page returns true.
Reservable(a) ==
  \E i \in Pages!Slots :
    Pages!IsFirst(i, Pages!Owners(a.frame)) /\ Pages!FitsChunk(a, mem_chunks[i])

RW(x) == [read |-> TRUE, write |-> TRUE, execute |-> x, user_accessible |-> FALSE]

----
(* primary_entry and the first lines of main. *)

\* Core 0 goes on, others exit.  BSS is cleared: the state starts as zeroes.
primary_entry ==
  /\ At("entry")
  /\ GotoIf(entry.core = 0, "sctlr")
  /\ UNCHANGED <<allocVars, tableVars, treeVars, machVars, held, steps>>

\* setup_sctlr_el1, which panics on another level than EL1, install_vectors and
\* the stack
setup_sctlr_el1 ==
  /\ At("sctlr")
  /\ IF entry.el = 1
     THEN /\ Goto("console")
          /\ mmu' = [mmu EXCEPT !.m = FALSE]
          /\ ptr' = [ptr EXCEPT !.vbar = ptr.exec]
     ELSE Halt /\ UNCHANGED <<mmu, ptr>>
  /\ UNCHANGED <<allocVars, tableVars, treeVars, entry, ttbr0, ttbr1, held, steps>>

\* pl011_init and set_kprintf_console: the registers at pa_to_va of their
\* address, the function where the code is running.
InitConsole(label, next) ==
  /\ At(label)
  /\ ptr' = [ptr EXCEPT !.uart0 = kernel_base_va, !.console = ptr.exec]
  /\ Goto(next)
  /\ UNCHANGED <<allocVars, tableVars, treeVars, entry, ttbr0, ttbr1, mmu, held, steps>>

----
(* setup_kernel_id_map. *)

\* Faulty variant: the pool is registered without the page of its bitmap.
IdPoolShort ==
  [frame |-> IdMap, offset |-> 0, size |-> IdMapNumPages * PageSize, check |-> FALSE]

IdPool ==
  [frame |-> IdMap, offset |-> 0, size |-> IdMapNumPages * PageSize + PageSize, check |-> FALSE]

AddIdPool ==
  /\ At("id_region")
  /\ AddRegion(IdPool)
  /\ GotoIf(Accepted(IdPool), "id_root")
  /\ UNCHANGED <<call, ok, asked, treeVars, machVars, held, steps>>

\* The first page of the pool must be where the linker put the root.  It is
\* not cleared: the image has it zero.
AllocIdRoot ==
  /\ At("id_root")
  /\ Pages!page_alloc(1)
  /\ GotoIf(result'.frame = IdRoot, "id_image")
  /\ UNCHANGED <<tableVars, treeVars, machVars, held, steps>>

\* One turn of a mapping loop, and what follows a map_page that failed.
MapNext(f, root, offset, perms, type) ==
  /\ ok
  /\ map_page(Request(root, f, f, offset, perms, type))
  /\ n' = n + 1
  /\ UNCHANGED <<allocVars, treeVars, pc, bank, machVars, held, steps>>

MapFailed ==
  /\ \E l \in {"id_image", "id_uart", "kernel_map", "kernel_uart"} : At(l)
  /\ ~ok
  /\ Halt
  /\ UNCHANGED <<allocVars, tableVars, treeVars, machVars, held, steps>>

MapIdImage ==
  /\ At("id_image") /\ n < ImagePages
  /\ MapNext(ImageStart + n, IdRoot, 0, RW(TRUE), NORMAL)

IdImageMapped ==
  /\ At("id_image") /\ ok /\ n = ImagePages
  /\ Goto("id_uart")
  /\ UNCHANGED <<allocVars, tableVars, treeVars, machVars, held, steps>>

MapIdUart == At("id_uart") /\ n = 0 /\ MapNext(Uart, IdRoot, 0, RW(FALSE), DEVICE)

\* The pool is unregistered; its pages stay where they are.
IdUartMapped ==
  /\ At("id_uart") /\ ok /\ n = 1
  /\ Pages!page_allocator_remove_region([frame |-> IdMap, offset |-> 0])
  /\ Goto("memory")
  /\ UNCHANGED <<tableVars, treeVars, machVars, held, steps>>

----
(* get_mem and setup_page_allocator. *)

\* main's get_mem, then setup_page_allocator's check_fdt and get_mem
ReadTree ==
  /\ At("memory")
  /\ GotoIf(MemoryReadable(tree) /\ check_fdt(tree), "banks")
  /\ mmap' = IF MemoryReadable(tree) THEN Banks(tree) ELSE mmap
  /\ UNCHANGED <<allocVars, tableVars, tree, reg_map, machVars, held, steps>>

\* A bank as setup_page_allocator passes it on: its bitmap must not overlap the
\* image.
Checked(b) == [frame |-> b.frame, offset |-> b.offset, size |-> b.size, check |-> TRUE]

AddBank ==
  /\ At("banks") /\ bank <= Len(mmap)
  /\ LET r == Checked(mmap[bank]) IN
     /\ AddRegion(r)
     /\ IF Accepted(r) THEN bank' = bank + 1 /\ UNCHANGED <<pc, n>> ELSE Halt
  /\ UNCHANGED <<call, ok, asked, treeVars, machVars, held, steps>>

reserve_kernel_img_pages ==
  /\ At("banks") /\ bank > Len(mmap)
  /\ LET a == [frame |-> ImageStart, offset |-> 0, num |-> ImagePages] IN
     Pages!reserve_page(a) /\ GotoIf(Reservable(a), "fdt")
  /\ UNCHANGED <<tableVars, treeVars, machVars, held, steps>>

reserve_fdt_pages ==
  /\ At("fdt")
  /\ LET a == [frame |-> tree.frame, offset |-> tree.offset, num |-> FdtPages(tree)] IN
     Pages!reserve_page(a) /\ GotoIf(Reservable(a), "kernel_root")
  /\ UNCHANGED <<tableVars, treeVars, machVars, held, steps>>

----
(* setup_kernel_map and the UART's page. *)

InitKernelRoot ==
  /\ At("kernel_root")
  /\ GotoIf(mmap # <<>>, "kernel_map")
  /\ pages' = IF mmap = <<>> THEN pages ELSE page_table_init(pages, KernelRoot)
  /\ UNCHANGED <<allocVars, call, ok, asked, treeVars, machVars, held, steps>>

\* Faulty variant: the loop ends when the next page would be the last.
RegionPagesButLast(r) == Pages!NumPages(r.size) - 1

\* The pages map_mem_region visits: from the base while below the end.
RegionPages(r) == Pages!NumPages(r.size)

map_mem_region ==
  /\ At("kernel_map") /\ bank <= Len(mmap) /\ n < RegionPages(mmap[bank])
  /\ LET f == mmap[bank].frame + n IN
     MapNext(f, KernelRoot, mmap[bank].offset, RW(f \in Image), NORMAL)

RegionMapped ==
  /\ At("kernel_map") /\ ok /\ bank <= Len(mmap) /\ n = RegionPages(mmap[bank])
  /\ n' = 0 /\ bank' = bank + 1
  /\ UNCHANGED <<allocVars, tableVars, treeVars, pc, machVars, held, steps>>

setup_kernel_map_done ==
  /\ At("kernel_map") /\ ok /\ bank > Len(mmap)
  /\ Goto("kernel_uart")
  /\ UNCHANGED <<allocVars, tableVars, treeVars, machVars, held, steps>>

MapKernelUart == At("kernel_uart") /\ n = 0 /\ MapNext(Uart, KernelRoot, 0, RW(FALSE), DEVICE)

\* enable_mmu: the attributes, the translation control, both roots, then M.
enable_mmu ==
  /\ call = Null
  /\ \/ At("kernel_uart") /\ ok /\ n = 1 /\ Goto("tcr")
        /\ mmu' = [mmu EXCEPT !.mair = TRUE] /\ UNCHANGED <<ttbr0, ttbr1>>
     \/ At("tcr") /\ Goto("ttbr0")
        /\ mmu' = [mmu EXCEPT !.tcr = TRUE, !.epd0 = FALSE] /\ UNCHANGED <<ttbr0, ttbr1>>
     \/ At("ttbr0") /\ Goto("ttbr1") /\ ttbr0' = IdRoot /\ UNCHANGED <<mmu, ttbr1>>
     \/ At("ttbr1") /\ Goto("m") /\ ttbr1' = KernelRoot /\ UNCHANGED <<mmu, ttbr0>>
     \/ At("m") /\ Goto("switch")
        /\ mmu' = [mmu EXCEPT !.m = TRUE, !.tlb = TRUE] /\ UNCHANGED <<ttbr0, ttbr1>>
  /\ UNCHANGED <<allocVars, tableVars, treeVars, entry, ptr, held, steps>>

----
(* high_half_main. *)

\* sp and the return address
switch_to_high_va ==
  /\ At("switch")
  /\ ptr' = [ptr EXCEPT !.exec = High]
  /\ Goto("fixup")
  /\ UNCHANGED <<allocVars, tableVars, treeVars, entry, ttbr0, ttbr1, mmu, held, steps>>

\* update_kernel_base_va, fixup_page_allocator
FixupAllocator ==
  /\ At("fixup")
  /\ Pages!fixup_page_allocator
  /\ Goto("high_console")
  /\ UNCHANGED <<tableVars, treeVars, machVars, held, steps>>

\* Faulty variant: VBAR_EL1 is left as it is.
KeepVbar ==
  /\ At("high_vbar")
  /\ Goto("epd0")
  /\ UNCHANGED <<allocVars, tableVars, treeVars, machVars, held, steps>>

SetHighVbar ==
  /\ At("high_vbar")
  /\ ptr' = [ptr EXCEPT !.vbar = ptr.exec]
  /\ Goto("epd0")
  /\ UNCHANGED <<allocVars, tableVars, treeVars, entry, ttbr0, ttbr1, mmu, held, steps>>

\* EPD0 is set, TTBR0 cleared and the TLB invalidated.
DropIdMap ==
  /\ \/ At("epd0") /\ Goto("clear_ttbr0")
        /\ mmu' = [mmu EXCEPT !.epd0 = TRUE] /\ UNCHANGED <<ttbr0, asked>>
     \/ At("clear_ttbr0") /\ Goto("tlbi")
        /\ ttbr0' = Null /\ UNCHANGED <<mmu, asked>>
     \/ At("tlbi") /\ Goto("free_id_map")
        /\ mmu' = [mmu EXCEPT !.tlb = FALSE]
        /\ asked' = {t \in asked : t.root # IdRoot}
        /\ UNCHANGED ttbr0
  /\ UNCHANGED <<allocVars, pages, call, ok, treeVars, entry, ttbr1, ptr, held, steps>>

\* Faulty variant: one page more is freed than the pool has.
FreeIdMapTooMuch ==
  /\ At("free_id_map")
  /\ Pages!page_free([frame |-> IdMap, offset |-> 0, num |-> IdMapNumPages + 2])
  /\ Goto("icu_init")
  /\ UNCHANGED <<tableVars, treeVars, machVars, held, steps>>

\* The pool and its bitmap, which are part of the image, become free pages.
FreeIdMap ==
  /\ At("free_id_map")
  /\ Pages!page_free([frame |-> IdMap, offset |-> 0, num |-> IdMapNumPages + 1])
  /\ Goto("icu_init")
  /\ UNCHANGED <<tableVars, treeVars, machVars, held, steps>>

\* icu_init wants the first interrupt controller to be a GICv3, gicv3_init two
\* regions of registers; otherwise nothing is done.
GicRegions(t) ==
  LET c == get_intc_node_offset(t)
      reg == get_reg_property(t[c])
  IN IF /\ c # NotFound /\ get_compatible_string(t[c]) = "arm,gic-v3"
        /\ reg.found /\ Len(reg.regions) = 2
     THEN RegionsOf(reg.regions) ELSE <<>>

icu_init ==
  /\ At("icu_init")
  /\ Goto("icu")
  /\ reg_map' = GicRegions(tree.nodes)
  /\ UNCHANGED <<allocVars, tableVars, tree, mmap, machVars, held, steps>>

\* map_continuous refuses a region of no size; a failure is reported and the
\* next region tried.
GicDone(r) == ~ok \/ n = Pages!NumPages(r.size)

map_continuous ==
  /\ At("icu") /\ bank <= Len(reg_map)
  /\ n < Pages!NumPages(reg_map[bank].size)
  /\ LET r == reg_map[bank] IN MapNext(r.frame + n, KernelRoot, r.offset, RW(FALSE), DEVICE)

NextGicRegion ==
  /\ At("icu") /\ bank <= Len(reg_map) /\ GicDone(reg_map[bank])
  /\ ok' = TRUE /\ n' = 0 /\ bank' = bank + 1
  /\ UNCHANGED <<allocVars, pages, call, asked, treeVars, pc, machVars, held, steps>>

RegionFramesOf(regions) ==
  UNION {Pages!Run(regions[i].frame, Pages!NumPages(regions[i].size)) : i \in DOMAIN regions}

\* gicv3_init goes on to use both regions, mapped or not: an access to a page
\* that is not mapped faults, which ends in exit.
StartGic ==
  /\ At("icu") /\ bank > Len(reg_map)
  /\ GotoIf(/\ RegionFramesOf(reg_map) \subseteq {t.v : t \in Translations(KernelRoot)}
            /\ \A i \in DOMAIN reg_map : reg_map[i].size > 0, "handlers")
  /\ UNCHANGED <<allocVars, tableVars, treeVars, machVars, held, steps>>

\* The first registration reaches for the distributor: without set-up, at
\* address zero, which faults.
pl011_register_handler ==
  /\ At("handlers")
  /\ GotoIf(reg_map # <<>>, "run")
  /\ UNCHANGED <<allocVars, tableVars, treeVars, machVars, held, steps>>

----
(* After boot. *)

RunCall == At("run") /\ steps < MaxSteps /\ steps' = steps + 1

RunAlloc(k) ==
  /\ RunCall
  /\ Pages!page_alloc(k)
  /\ LET f == result'.frame
         b == IF f = Null THEN {} ELSE {[frame |-> f, num |-> k]}
     IN /\ held' = held \cup b
        /\ pages' = [g \in Ram |-> IF f # Null /\ g \in Pages!Run(f, k) THEN Junk ELSE pages[g]]
  /\ UNCHANGED <<call, ok, asked, treeVars, pc, n, bank, machVars>>

RunFree(b) ==
  /\ RunCall
  /\ Pages!page_free([frame |-> b.frame, offset |-> 0, num |-> b.num])
  /\ held' = held \ {b}
  /\ UNCHANGED <<tableVars, treeVars, pc, n, bank, machVars>>

\* A caller of map_page goes on whatever it returns.
RunMap(m) ==
  /\ RunCall
  /\ map_page(Request(KernelRoot, m.v, m.p, m.offset, m.perms, m.type))
  /\ UNCHANGED <<allocVars, treeVars, pc, n, bank, machVars, held>>

----
InMapPage == MapPageStep /\ UNCHANGED bootVars

EarlyBoot == primary_entry \/ setup_sctlr_el1 \/ InitConsole("console", "id_region")

SetupIdMap == AddIdPool \/ AllocIdRoot \/ MapIdImage \/ IdImageMapped \/ MapIdUart \/ IdUartMapped

SetupAllocator == ReadTree \/ AddBank \/ reserve_kernel_img_pages \/ reserve_fdt_pages

SetupKernelMap ==
  \/ InitKernelRoot \/ map_mem_region \/ RegionMapped \/ setup_kernel_map_done
  \/ MapKernelUart \/ enable_mmu

HighHalf ==
  \/ switch_to_high_va \/ FixupAllocator \/ InitConsole("high_console", "high_vbar")
  \/ SetHighVbar \/ DropIdMap \/ FreeIdMap
  \/ icu_init \/ map_continuous \/ NextGicRegion \/ StartGic \/ pl011_register_handler

BootStep ==
  InMapPage \/ MapFailed \/ EarlyBoot \/ SetupIdMap \/ SetupAllocator \/ SetupKernelMap \/ HighHalf

RunStep ==
  \/ \E k \in Requests : RunAlloc(k)
  \/ \E b \in held : RunFree(b)
  \/ \E m \in Mappings : RunMap(m)

Next == BootStep \/ RunStep

\* One core runs boot with interrupts masked: it never stops between two steps.
Spec == Init /\ [][Next]_vars /\ WF_vars(BootStep)

----
(***************************************************************************)
(* The machine and its loader.  The image is one run of pages of memory,   *)
(* with the identity map's pool and the kernel's root table in it.         *)
(***************************************************************************)
ASSUME LayoutAssumption ==
  /\ MaxChunks \in Nat \ {0} /\ PageSize \in Nat \ {0} /\ ByteBits \in Nat \ {0}
  /\ IdMap \in Nat \ {0} /\ IdMapNumPages \in Nat \ {0}
  /\ Cardinality(Image) \in Nat /\ Image = Pages!Run(ImageStart, Cardinality(Image))
  /\ ImageStart \in Nat /\ IdMapRegion \cup {KernelRoot} \subseteq Image /\ Image \subseteq Ram
  /\ Uart \in VirtualPages \ Ram

\* Callers after boot map pages of their own.
ASSUME CallerAssumption ==
  /\ Requests \subseteq Nat /\ MaxSteps \in Nat
  /\ Mappings \subseteq [v : VirtualPages \ (Ram \cup {Uart}), p : Nat, offset : Nat,
                         perms : Permissions, type : {DEVICE, NORMAL}]

\* A device tree is that of a machine: banks are memory and share no page,
\* registers are elsewhere, and the blob is not in the image.
ASSUME TreeAssumption ==
  \A t \in Trees :
    /\ t.frame \in Nat /\ t.offset \in Nat /\ t.size \in Nat
    /\ FdtFrames(t) \cap Image = {}
    /\ MemoryReadable(t) =>
         /\ get_mem(t.nodes) \in Seq([base : Nat, size : Nat])
         /\ RegionFramesOf(Banks(t)) \subseteq Ram
         /\ \A i, j \in DOMAIN Banks(t) :
              i # j => Pages!RegionFrames(Banks(t)[i]) \cap Pages!RegionFrames(Banks(t)[j]) = {}
    /\ t.nodes \in Seq(Node)
    /\ \A k \in DOMAIN t.nodes : get_reg_property(t.nodes[k]).regions \in Seq([base : Nat, size : Nat])
    /\ RegionFramesOf(GicRegions(t.nodes)) \subseteq VirtualPages \ Ram

Labels ==
  {"entry", "sctlr", "console", "id_region", "id_root", "id_image", "id_uart",
   "memory", "banks", "fdt", "kernel_root", "kernel_map", "kernel_uart",
   "tcr", "ttbr0", "ttbr1", "m", "switch", "fixup", "high_console", "high_vbar",
   "epd0", "clear_ttbr0", "tlbi", "free_id_map", "icu_init", "icu", "handlers",
   "run", "halted"}

TypeOK ==
  /\ Pages!TypeOK
  /\ TableTypeOK
  /\ pc \in Labels
  /\ Len(mmap) <= MaxMemRegions /\ Len(reg_map) \in {0, 2}
  /\ n \in Nat /\ bank \in Nat \ {0}
  /\ entry \in EntryStates
  /\ ttbr0 \in {Null, IdRoot} /\ ttbr1 \in {Null, KernelRoot}
  /\ mmu \in [mair : BOOLEAN, tcr : BOOLEAN, epd0 : BOOLEAN, m : BOOLEAN, tlb : BOOLEAN]
  /\ ptr \in [exec : {Low, High}, uart0 : {Low, High, Null}, console : {Low, High, Null},
              vbar : {Low, High, Null}]
  /\ held \subseteq [frame : Ram, num : Requests]
  /\ steps \in 0 .. MaxSteps

HeldFrames == UNION {Pages!BlockFrames(b) : b \in held}

Given(root) == {t \in asked : t.root = root}

\* Each map translates exactly what map_page has returned true for, with the
\* rights and the memory type asked for, and nothing else.  It holds between
\* any two steps, after map_page has failed half-way, when tables are put in
\* pages that held something else before, and while others overwrite every
\* page they are given.
MapsExact ==
  \A root \in {KernelRoot} \cup {t.root : t \in asked} : Translations(root) = Given(root)

\* reserve_fdt_pages (utils.c) "calculates the number of pages occupied by
\* the FDT and reserves those pages in the page allocator to prevent them from
\* being allocated for other purposes": the blob is never overwritten.
FdtKept == \A f \in FdtFrames(tree) \cap Ram : pages[f] = Blob

\* No bitmap, page table or caller of page_alloc overwrites the kernel image,
\* outside of the pool of the identity map and the kernel's root table, the
\* device tree, which is read until the drivers are set up, or a bitmap.
MemoryKept ==
  /\ \A f \in Image \ (IdMapRegion \cup {KernelRoot}) : pages[f] = Code
  /\ \A f \in Pages!Bitmaps : pages[f] = Bits
  /\ FdtKept

\* With the MMU on, the code under execution and the console are mapped, and
\* once addresses are high, so is every page the allocator can hand out, its
\* bitmaps and the device tree: pa_to_va of any of them can be dereferenced.
\* Only the image is executable.
KernelReachable ==
  /\ ttbr0 # Null =>
       /\ \A f \in Image : Translation(Request(ttbr0, f, f, 0, RW(TRUE), NORMAL)) \in Translations(ttbr0)
       /\ Translation(Request(ttbr0, Uart, Uart, 0, RW(FALSE), DEVICE)) \in Translations(ttbr0)
  /\ ttbr1 # Null =>
       /\ \A f \in Pages!Managed \cup Image \cup FdtFrames(tree) :
            Translation(Request(ttbr1, f, f, 0, RW(f \in Image), NORMAL)) \in Translations(ttbr1)
       /\ Translation(Request(ttbr1, Uart, Uart, 0, RW(FALSE), DEVICE)) \in Translations(ttbr1)

\* A pointer into half h is good for the pages in S: physical before the MMU
\* is on, translated by the map in force after.
Reaches(h, S) ==
  IF mmu.m
  THEN LET root == IF h = High THEN ttbr1 ELSE IF mmu.epd0 THEN Null ELSE ttbr0
       IN mmu.mair /\ mmu.tcr /\ root # Null /\ S \subseteq {t.v : t \in Translations(root)}
  ELSE h = Low

\* The core always runs on mapped code and stack, an exception always finds
\* the vectors, and kprintf its function and the UART's registers: no pointer
\* made before the switch is left when the identity map goes.
PointersValid ==
  /\ Reaches(ptr.exec, Image)
  /\ \A p \in {ptr.console, ptr.vbar} \ {Null} : Reaches(p, Image)
  /\ \A p \in {ptr.uart0} \ {Null} : Reaches(p, {Uart})
  /\ pc \notin {"entry", "sctlr", "console", "halted"} =>
       Null \notin {ptr.console, ptr.vbar, ptr.uart0}

\* Once the banks are set up, a page is marked used exactly when it holds a
\* bitmap or a table of the kernel map, is reserved, or was handed out after
\* boot: map_page loses no page, however it ends, and the identity map's pages
\* come back.  The tables the MMU walks are never free.
TablesAccounted ==
  /\ pc \notin {"entry", "sctlr", "console", "id_region", "id_root", "id_image", "id_uart",
               "memory", "banks", "fdt", "halted"} =>
       used \cap Pages!Managed =
         (Pages!Bitmaps \cup reserved \cup Tables(KernelRoot) \cup HeldFrames) \cap Pages!Managed
  /\ ttbr0 # Null \/ mmu.tlb => Tables(IdRoot) \subseteq used
  /\ ttbr1 # Null => Tables(ttbr1) \subseteq used

----
(* When boot is to succeed. *)

\* The tables below the root that it takes to map the pages in S.
TablesFor(S) ==
  LET P == PtrsPerTable
  IN Cardinality({v \div P : v \in S}) + Cardinality({v \div (P * P) : v \in S})
     + Cardinality({v \div (P * P * P) : v \in S})

WholePages(r) == Pages!Run(r.frame, r.size \div PageSize)

\* The controller's node is a GICv3's and repeats the cell counts of the root,
\* which its registers are described in.
ControllerDescribed(t) ==
  \E c \in DOMAIN t.nodes :
    /\ t.nodes[c].controller /\ \A k \in 1 .. (c - 1) : ~t.nodes[k].controller
    /\ Len(t.nodes[c].compatible) > 0 /\ t.nodes[c].compatible[1] = "arm,gic-v3"
    /\ t.nodes[c].address_cells = t.nodes[1].address_cells
    /\ t.nodes[c].size_cells = t.nodes[1].size_cells

\* The machine is one on which every call of main succeeds, and the device tree
\* describes it.  t.banks is its memory and t.gic its controller's registers,
\* as the nodes are to say.
Sound(t) ==
  LET B == AtMost(MaxMemRegions, SelectSeq(t.banks, LAMBDA r : r.size > 0))
      bitmaps == UNION {Pages!Run(B[i].frame, Pages!BitmapPages(B[i].size \div PageSize)) : i \in DOMAIN B}
      blob == Pages!Run(t.frame, FdtPages(t))
      free == UNION {WholePages(B[i]) : i \in DOMAIN B} \ (bitmaps \cup Image \cup blob)
      mapped == RegionFramesOf(B) \cup {Uart}
  IN /\ t.readable /\ t.header /\ ~get_mem_fails(t.nodes)
     /\ Len(B) <= MaxChunks
     /\ \A i \in DOMAIN B : B[i].offset = 0 /\ B[i].frame > 0 /\ B[i].size >= PageSize
     /\ bitmaps \cap Image = {}
     /\ \E i \in DOMAIN B : Image \subseteq WholePages(B[i])
     /\ \E i \in DOMAIN B : FdtFrames(t) \subseteq WholePages(B[i])
     /\ TablesFor(Image \cup {Uart}) < IdMapNumPages
     /\ TablesFor(mapped) <= Cardinality(free)
     /\ TablesFor(mapped \cup RegionFramesOf(t.gic)) <= Cardinality(free) + IdMapNumPages + 1
     /\ ControllerDescribed(t) /\ Len(t.gic) = 2
     /\ \A i \in DOMAIN t.gic : t.gic[i].offset = 0 /\ t.gic[i].size > 0

\* Boot never hangs, and gets to its end exactly when core 0 enters it at EL1,
\* the device tree is sound and there is enough memory: the pool of the
\* identity map, the pages left between bitmaps, image and device tree, and
\* the pages the identity map gives back are enough for every table.
BootOutcome ==
  /\ (Sound(tree) /\ entry = [core |-> 0, el |-> 1]) => <>(pc = "run")
  /\ ~(Sound(tree) /\ entry = [core |-> 0, el |-> 1]) => <>(pc = "halted")
====
