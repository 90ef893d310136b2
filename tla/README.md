# kernelite: a TLA+ model of the kernel's core

kernelite is a small AArch64 kernel for QEMU's `virt` machine. It boots on one
core, builds an identity map and a higher-half map, switches to high
addresses, and then runs from interrupts: a GICv3 controller, a PL011 UART that
echoes what it receives, and the generic timer. Memory comes from a bitmap page
allocator and a page-granular heap on top of it.

This directory models those parts in TLA+, checks small instances with TLC and
proves with TLAPS, for instances of every size, the safety of the allocators, of
the page tables and boot, of the interrupt controller's driver, of the timer and of
the UART. Paths below are relative to the repository's `src/kernel/` unless they
start elsewhere.

## Inventory

| Component | State | Operations | Interacts with |
|---|---|---|---|
| Page allocator, `allocator/page_allocator.c` | table of 10 chunk descriptors; a bitmap at the start of each region | add, remove region; fixup; reserve; `page_alloc`, `page_free` | called by boot, page tables, heap; reads `kernel_base_va` |
| Address layout, `mem_layout/mem_layout.c` | `kernel_base_va`, 0 until the switch | `update_kernel_base_va`, `pa_to_va`, `va_to_pa` | everything that turns frames into pointers |
| Kernel heap, `allocator/kalloc.c` | chain of management pages; list of used descriptors threaded through them | `kmalloc`, `kfree` | page allocator |
| Page tables, `page_table/page_table.c` | table pages | `map_page`, identity map, kernel map | page allocator; boot; GIC driver |
| Boot, `main.c`, `utils/utils.c`, `../boot/boot.s` | program order; which roots the MMU walks | set-up of everything, the final `wfi` loop | all |
| MMU, `mmu/` | system registers | `enable_mmu`, switch to high addresses | page tables |
| Interrupts, `drivers/gicv3.c`, `icu/icu.c`, `exception_handling/` | controller registers, `dispatch_table`, exception state of the core | init, register, unregister, handle | devices; timer and UART drivers |
| UART, `drivers/uart.c` | device registers | init, register handler, receive handler, `putc` | interrupts, console |
| Timer, `timer/timer.c`, `drivers/arm_timer.c` | `period_ticks`, `tick_handler`, timer registers | set-up, `timer_isr` | interrupts, FDT |
| Device tree, `fdt/fdt.c` | none | queries over libfdt | boot, interrupts, timer |
| Console and strings, `utils/kprintf.c`, `utils/string.c` | console pointer | formatting, copying | all |
| Errors, `error/`, `exit/` | none | messages, halt | all |

What is hard here:

* **Allocators**: long sequences of legal calls. Regions are added, removed and
  added again; slots keep stale fields; the bitmap lives in the memory it
  describes and its pointer changes meaning at the switch to high addresses;
  management pages are unlinked from the middle of a chain through which a
  second list runs; calls fail half-way when memory is short.
* **Boot**: page tables are built from pages of an allocator that is itself being
  set up, twice, over memory that holds the kernel, the device tree and the
  tables just built; part of the image is freed at the end and used again.
* **Interrupts**: the core can take one between any two register writes of the
  main thread. Registration and removal take several writes; the controller
  takes effect late; the vector keeps return addresses in single registers.
* **Devices**: characters arrive and the counter advances while the handlers
  run, and handlers print in the middle of what main prints.
* **Device tree**: lists of cells whose layout is given elsewhere in the tree,
  by counts that may be missing or wrong and by references that may dangle.
* **The move to high addresses**: pointers made before it look valid until the
  low map goes.

There is one core, no preemption other than interrupts, nothing persistent and
no messages, so there are no crash-recovery or delivery hazards.

What makes each part correct: blocks never overlap and nothing is lost
(allocators); an enabled interrupt is fully configured and has a handler,
handlers do not interrupt each other and the controller never stays blocked
(interrupts); every character is echoed once and in order (UART); ticks neither
drift, nor come early, nor get lost, and the timer runs on the interrupt the tree
describes (timer); each call prints exactly its text, whoever interrupts it
(console); every mapping is what was asked
for and tables are private (page tables); nothing the kernel stands on is ever
handed out and no pointer outlives its map (boot); main always wakes up and runs on.

## Modules

| Module | Models | Composition |
|---|---|---|
| `PagePool` | what users of a page allocator may rely on | abstract |
| `PageAllocator` | `page_allocator.c`, one action per public function | implements `PagePool` (`ImplementsPool`) |
| `PageScan` | the two bit-by-bit loops behind `page_alloc` | justifies `Roomy` and `FreeRuns` of `PageAllocator` |
| `Kalloc` | `kalloc.c` | uses `PagePool`'s actions for its pages |
| `PageTable` | `map_page` and the tables in memory, with the hardware's walk | instantiates `PageAllocator` for `page_alloc` |
| `Fdt` | the queries of `fdt.c`, as operators over trees | |
| `Boot` | `boot.s`, `main.c`, `utils.c`, the set-up functions of `page_table.c`, `enable_mmu`, `trampoline.s` | extends `PageTable` and `Fdt`; calls `PageAllocator`'s operations |
| `Irq` | `gicv3.c`, `icu.c`, the IRQ vector, the controller and core | |
| `Uart` | receive side of `uart.c` and the device | relies on `Irq!HandlersNotInterrupted` |
| `Timer` | `arm_timer.c`, `timer.c` and the counter | extends `Fdt`; relies on `Irq!HandlersNotInterrupted` |
| `Kernel` | the end of `high_half_main`, the tick handler, `kprintf.c`, `exit.c` | extends `Uart`; relies on `Irq!HandlersNotInterrupted`, `Timer!NoTickLost`, `Boot!PointersValid` |
| `PageAllocatorProofs`, `PageScanProofs`, `KallocProofs`, `IrqProofs`, `TimerProofs`, `UartProofs` | theorems about the module of that name | each extends its module |
| `BootProofs` | theorems about `Boot` and the page tables it builds | extends `Boot` |
| `KernelProofs` | theorems about `Kernel` | extends `Kernel` and `UartProofs`, whose lemmas it applies to the receive handler's steps |
| `MC...` | instances for TLC | |

### PageAllocator

`mem_chunks` is the slot table. An address is a frame number and an offset.
`used` is the set of frames whose bit is set: bits belong to memory and not to
slots, as in the code, where two slots with one base share a bitmap and removing
a region leaves its bits. A bitmap pointer is recorded as 0 (physical) or 1
(high). `live` and `reserved` record what callers hold, `result` the last answer
of `page_alloc`.

`page_init_chunk` is split by outcome (`TooSmall`, `OverImage`, `Unusable`,
`Accept`), each with what it leaves behind in the slot: `initialized` is cleared
first, and `mem_base` is set before the overlap check. That check compares with
`&image_start`, which is a high address after the switch, and rejects nothing from
then on. `update_kernel_base_va`
and `fixup_page_allocator` are one action, as they are adjacent statements of
`high_half_main`. `Next` lets callers do what the kernel does: a region is added
when it is new, what is freed was allocated or reserved. `AnySpec` drops the
first condition.

### PageScan

`find_chunk_with_free_pages` and `page_alloc_chunk`, one bit per step, on every
table of chunks. `FirstFit` is the definition `PageAllocator` uses in their
place: the first chunk with a run, and the first run in it.

### Kalloc

Descriptors are addressed by page and index; `next_page`, `next`,
`kalloc_page_head` and `allocated` are pointers and lists are what walking them
finds. Each call is two steps because it uses the page allocator twice; nothing
runs in between, since no handler allocates. Sizes are `SizeMax`-bit
arithmetic. Blocks of other users of `page_alloc` come and go between calls, so
that the heap meets a full and fragmented allocator.

### PageTable

`pages` is the contents of memory as far as it matters: a page frame holds the
entries of a table, part of the kernel (`Code`), of the device tree (`Blob`) or
of a bitmap (`Bits`), or anything else (`Junk`). A frame that is handed out after
boot becomes `Junk` at once, and memory outside the image starts as `Junk`, so that a
page in the wrong hands, or not cleared, shows. `map_page` is a record `call` that
walks down one level per step, because each level may call `page_alloc` and
fail. `Translations` is what the MMU makes of a root: every valid entry is
followed, so that a stale one counts too. `asked` records what `map_page` has
confirmed. Virtual addresses are page numbers of the low 48 bits, which is all
`map_page` and the MMU look at; `KERNEL_BASE` selects the root and nothing else.

### Fdt

A tree is the sequence of its nodes, each with the properties the kernel looks
at; lists of cells are sequences of numbers below `Cell`. libfdt is what finds
nodes and cell counts (the external entries); everything `fdt.c` does with them
is here: which cells form a region, shifted together in 64 bits, which regions
count, where the layout of a node's interrupts comes from, and the INTID, in
32-bit arithmetic. The operators are pure; `Boot` and `Timer` run them on trees
good and bad, and `BootOutcome` and `SetupOutcome` compare the result with what
the tree was meant to say: `Boot`'s trees carry the machine they describe,
`Timer`'s reference definition (`Described`) reads the tree by sets, without a
walk.

### Boot

`pc` is the place in `boot.s`, `main` and `high_half_main`; loops keep `n` and
`bank`. An early return of any call leads to `halted` with everything left as it
is, and so does a panic. The device tree is an input: its nodes, whether libfdt
and `check_fdt` accept it, the place and size of the blob. So is the core and
exception level at the entry. The pages the linker script sets aside for tables
are zero at the start; the identity map's root is not cleared by the code and
relies on that. `enable_mmu` and the end of the low map are one step per system
register; `mmu` records which have been written and whether the TLB may still
hold low translations. `ptr` records in which half the pointers the kernel keeps
lead: the program counter and stack, the UART's registers, the console function,
`VBAR_EL1`. After boot `RunAlloc`, `RunFree` and `RunMap` stand for every user of
the exported functions; `MaxSteps` bounds their number. The model ends with the
first registration (which faults if the controller was not set up); `Irq`,
`Timer` and `Kernel` start there.

### Irq

The main thread is a program counter over the register writes of `gicv3_init`,
`gicv3_register_irq` and `gicv3_unregister_irq`. Taking an interrupt pushes an
activation of the vector, with `elr` and `spsr` as the single registers they
are; `Eret` compares the context it returns to with the one interrupted and sets
`wild` when they differ, after which nothing is known. The controller signals an
asserted, enabled Group 1 interrupt while none is active (all have priority
0xA0). `Fleeting` interrupts may be withdrawn after they were signalled, which
is how the spurious INTID comes about; a device in `Early` may assert before it
has a handler, as the UART may, since `pl011_init` precedes
`pl011_register_handler` by most of the boot.

### Uart

The receiver holds one character: the driver never enables the FIFOs. `rxris` is
raised when a character fills the empty receiver and lowered when it is read
empty or `UARTICR` is written. `Paced` says that none arrives during the handler.
`pl011_register_handler` is two steps, as `gicv3_register_irq` is: the interrupt is
enabled (`RegisterEnables`), then the dispatch table gets its entry
(`RegisterStores`). An interrupt taken in between finds no handler, prints a warning
and ends (`NoHandler`) without having lowered its line.

### Timer

Set-up and `timer_isr`, one register access per step, while the counter
advances at any moment. Set-up finds the timer's node and interrupt in the device
tree and fails at any of its checks. The interrupt reaches `timer_isr` only if
the INTID registered is the timer's.

### Kernel

What runs once boot is over: `main` from the timer's set-up to `exit`, and the
two handlers, on one core and over one transmitter. `call` has an entry for each
of the contexts that is inside `vprintf`: main, the tick handler, and the warning
that an interrupt of the UART's has no handler yet. The
entry is a record with its place in the format, its next argument and the string it goes
through; each step converts or puts one character, and the handlers can come
between any two. `buf` is per activation, as the code's local is. Texts are
sequences of characters with a letter for each run of plain text; numbers are
turned into digits by `itoa` as the code does it. Strings live in memory that may
hold anything (`Unknown`) until it is written. `OutputExact` compares what was
put with `Rendered`, which is defined from the format and positional notation; it
admits both readings of the `l` modifier, the comment's and the code's, which disagree
(see Findings), and asks that a call keep to one.
The heap is a block or a failure (`Kalloc` has the rest), the timer's set-up its
outcome (`Timer`). `wfi` ends with whichever interrupt is taken next.

## Runs

| Run | Instance | Result |
|---|---|---|
| `page_allocator` | 2 slots, 6 regions (adjacent, unaligned, over the image, at 0, too small), 5 reservations, requests of 0 to 2 pages; 634,000 states | `TypeOK`, `LiveIsolated`, `BitmapExact`, `ChunksApart`, `BitmapReachable`, `ImplementsPool` hold |
| `page_allocator_readd` | the same, re-adding allowed | `RemovedIsUnmanaged` violated |
| `page_scan` | every table of 3 chunks of up to 3 pages; requests 0, 2, 3, 4; 880,000 states | `TypeOK` (with `InBitmap`), `FirstFit`, `Terminates` hold |
| `kalloc` | 5 pages, 2 descriptors per management page, 3-bit sizes; 75,000 states | `ListExact`, `HeapExact`, `NothingLeaked`, `AtMostOneEmptyPage`, `GivesBackWhatItTook` hold |
| `boot` | 16 entries per table, 26 device trees, 3 ways to enter, a pool of 6 pages, 5 calls after boot; 22,000 states | `MapsExact`, `MemoryKept`, `KernelReachable`, `PointersValid`, `TablesAccounted`, `BootOutcome` hold |
| `boot_fdt` | a device tree that starts within a page | `FdtKept` violated |
| `irq` | one PPI, one SPI, 2 handlers, nesting to depth 2; 64,000 states | `EnabledIsConfigured`, `NoneLeftActive`, `NotBeforeInit`, `HandlersNotInterrupted`, `IdleIsConsistent`, `InterruptsAreServed` hold |
| `irq_early` | the same | `NeverUnhandled` violated |
| `irq_spurious` | the same | `MaskedUntilEret` violated |
| `kernel` | 3 characters, none arriving during the handler, transmitter of 2, 4 formats, 2 wake-ups; 589,000 states | `KernelTypeOK`, `GetcNeverWaits`, `EchoedInOrder`, `OutputExact`, `ReceiverEmptied`, `EverySleepEnds` hold |
| `uart_lost` | characters arriving at any time | `ReceivedIsEchoed` violated |
| `timer` | 20 device trees; periods of 1 and 3 counts and one too long; counter to 10; 13,000 states | `NoDrift`, `NeverEarly`, `NoTickLost`, `SetupOutcome` hold |

**Bounds.** Two slots and six regions give a full table, a re-used slot with
stale fields and two adjacent chunks; a bitmap byte of one bit makes bitmaps of
more than one page. Three chunks of three pages contain every relation between a
run, a chunk's end and the next chunk. Two descriptors per page and five pages
give chains of two management pages with the first, the last and a shared one
emptied, and page shortage at both uses of the allocator. The boot instance has the proportions of the real
machine: devices and memory under different level-1 entries, the image inside
one last-level table and memory across two, so that the identity map needs all
of its pool; the trees cover each early return, two banks, a bank that ends
within a page, memory short by one table, one and two cells, cells left over,
missing and bad counts, and controllers of every wrong kind. A cell of 7 bits
makes every address take two. Five calls suffice to use up
memory, fail in the middle of `map_page`, free and try again. Two interrupts, one of
each kind, are enough for one to arrive while the other is handled or
configured; depth 2 is the first nesting. Ten counts let a handler overrun
several periods; the timer's trees have buses and controllers that override each
other, dangling references, and INTIDs at the limits. In `kernel` the four
formats use every conversion, with zero, negative and multi-digit numbers; two
wake-ups are the first number that counts (the code has five), and a transmitter
of two is full in the middle of every number. The safety results of
`page_allocator`, `page_scan`, `kalloc`, `boot`, `irq` and `timer`, and those of
`kernel` except `OutputExact`, do not depend on these bounds: they are proved, two of
`boot`'s under a condition on where the device tree lies (see below).

**Fairness.** `PageScan` is a loop on one core: weak fairness of its step. So is
`Boot`, with interrupts masked; what happens after it is left open. In
`Irq` the core keeps executing (main's call in progress, the handler), takes an
exception that stays signalled and unmasked, and the controller completes writes
the driver polls for; whether main makes another call and what devices do is left
open. In `Uart` main runs on as long as nothing interrupts it, a raised interrupt is
taken and its activation runs, and the transmitter sends; nothing makes characters
arrive, and nothing gives main a turn between two activations of an interrupt whose
line stays up, since the core takes it again at the ERET. In `Timer` a pending
interrupt is taken, its handler runs on and main gets through set-up; the counter
may stop. In `Kernel` handlers run on and ticks keep coming and are taken. While the UART
is being set up main has weak fairness only (`StartUart`), for the reason just given,
and `ReceiverEmptied` therefore starts where the handler is stored: a character that
came before may keep main from getting there for ever (`irq_early`). After that main and the receive
interrupt get their turn again and again (strong fairness of `MainRuns` and
`ReceiveInterrupt`: ticks are a second apart, both handlers lower their lines and take
a small part of it). No character need arrive and the transmitter need not send.

`CHECK_DEADLOCK FALSE` is set where the system may stop: a finished scan, a
halted core (`main` returning 1 ends in `exit`), the last character or count of an instance.

## Proofs

`PageAllocatorProofs` proves, for every number of slots, page size, set of
regions, reservations and requests: `TypeCorrect`, `BlocksAreIsolated`,
`BitmapsAreExact`, `ChunksStayApart`, `BitmapsStayReachable`, and `Refinement`,
that the allocator implements `PagePool`. They rest on `Inductive`, the
invariant `IInv`: the five properties together with

* `ChunksAreRegions`: an initialized chunk has the base and size of one of the
  regions, and its bitmap lies inside it. Without it, removing and adding
  regions could not be related to the memory that is live.
* `LiveInRegions`: a block is not empty and lies in one region, managed or not.
  It is what keeps a block apart from a region added after the block's own
  region was removed.

None of the five is inductive alone. `BitmapExact` is needed for `LiveIsolated`
(a free bit means that nobody holds the page), `ChunksApart` for `BitmapExact`
(a page has one bit), `LiveIsolated` for `BitmapExact` again (freeing a block
clears nobody else's bits). Refinement needs, besides, that no run of free pages
crosses the border of two chunks: every chunk starts with its bitmap, whose bits
are set, so that refusing a request that no single chunk can meet is refusing one
that cannot be met.

Assumptions: page size, bits per byte and the number of slots are positive, regions and
reservations are of the form the code's parameters have, and `PHYS_ADDR_NULL`
is no frame; distinct regions share no page (`RegionsApart`: the memory banks of
one machine. The identity map's static pool, a temporary region inside a bank,
does not satisfy it; `Boot` instantiates the allocator without this assumption, and
`BootProofs` covers that case). That callers keep to `IsNew`, `MayReserve` and `MayRelease` is part
of `Next`.

`PageScanProofs` proves `PageAllocIsFirstFit` for every table and request, from
the loop invariant `LoopInv`: while a chunk is scanned, the last
`continuous_found` bits are clear, the bit before them is set or does not exist,
no run of the wanted length ends before the current bit, and no chunk before the
current one has one; in the second scan, also, `start_index` is where the run of
clear bits starts and the chunk has a run (`ScanInductive`). `ScanTypeCorrect`
follows from it: its `InBitmap` says that neither scan's index nor counter passes the
last bit of the chunk it is in, and that only bits of that chunk are set and answered.

`KallocProofs` proves, for any memory, number of descriptors per page and size
type, `TypeCorrect`, `ListIsExact`, `HeapIsExact`, `NoLeak`, `OneEmptyPage` and the
action property `HeapGivesBack`. The invariant `HeapInv` has these parts:

* `Chains`: the management pages and the used descriptors are each a row of
  distinct nodes from the head to a null pointer. The list runs through
  descriptors of many pages, so a page can be given back only because this holds
  of both chains and the page is on one and none of its descriptors on the other.
* `CallOK`: the descriptor a call has found is still there at its second step, and
  its page is still on the chain.
* `ListedExact`: the list holds the used descriptors, except for the one the call
  in progress has taken and not yet listed or unlisted.
* `PoolOK` and `Owned`: blocks are not empty and share no page, every page is free
  or in one block, and every block belongs to the chain, to a descriptor or to
  another user, and to one of them. `NothingLeaked` is its idle case.
* `OneSpare`: `AtMostOneEmptyPage` in the middle of calls too, where the
  descriptor a `kmalloc` has just taken counts as unused and the page a `kfree` is
  about to look at does not count. It is why pages left by failing
  calls do not pile up: a second page is added only when the first has no room.

Its first half is about walks. `Walk` is a recursive function; `WalkEquation`
unfolds it, and a least counterexample (the natural numbers are well-founded)
takes the place of induction. `WalkOf` says that a walk along a row of distinct nodes
visits the row; `LinkLast` and `UnlinkNth` say what appending a node and taking one
out do to the row, which is all that `kmalloc` and `kfree` do to pointers.
Assumptions (`HeapAssumption`): memory is finite, pages and descriptors have a size
and null is no address.

`IrqProofs` proves `TypeCorrect`, `EnabledConfigured`, `NoneActive`,
`NoneBeforeInit`, `HandlersAtomic` and `IdleConsistent` for any number of
interrupts and handlers and any depth of nesting, from `IrqInv`:

* `WritesInOrder` and `InitProgress`: what `gicv3_init` has written is a prefix of
  its writes, and unmasking is the last; before it, no activation exists.
* `Nesting`: only an activation that took the spurious path is ever interrupted,
  and it has only its ERET left; an INTID is active exactly while the topmost
  activation is between acknowledging and ending it. So a handler is never
  interrupted although the vector may be.
* `ConfProgress`: each register of the interrupt main is working on has the value
  that main's place in the call implies; all other interrupts are settled.

Assumptions (`IrqAssumption`): limits are positive and no handler is null. Nesting
beyond `MaxDepth` and what follows a wrong return (`wild`) are outside the model.

`TimerProofs` proves `TypeCorrect`, `DriftFree` and `TicksNotEarly` for every
device tree, frequency and period, from `TimerInv`: `SetupProgress` (what set-up
has stored, and that the period fits 32 bits), `OnGrid` (the compare value is the
start plus a whole number of periods, one more than the ticks counted except inside
the handler, where it is equal), `IntidFound` and `NeverEarly`. Assumption
(`TimerAssumption`): the 64-bit counter stays a 32-bit period away from its end,
which takes centuries at any frequency the architecture allows.

`UartProofs` proves `UartSafe`: the handler finds a character whenever it reads and
echoes what it read in order, whether or not characters arrive during it
(`Paced` is any Boolean), so what `uart_lost` loses is lost without disturbing the
order. Its `InOrder` says that what was echoed comes before what the handler holds,
which comes before what the receiver holds. `KernelProofs` carries this over to the
composed kernel (`KernelGetc`, `KernelEcho`) and adds `KernelTypeCorrect`, from
`KernelInv`: `UartInv`, `MainOK` (main sleeps only with wake-ups left) and `TickOK`
(the tick handler and the warning print exactly while they are active, and the two
interrupts exclude each other).

`BootProofs` proves `TypeCorrect`, `MapsAreExact`, `MemoryIsKept`,
`KernelIsReachable`, `PointersStayValid` and `TablesAreAccounted` for any size of a
table, layout of the image, set of device trees, entry and use of the kernel after
boot, from `BootInvariant`. Its parts:

* `TablesOK`: there is a place function that gives every frame holding a table its
  place, which is a map, a level and the page numbers it translates. `IsForest` says
  that no place is taken twice (`Placed`), that a valid entry above the last level
  leads to the place below it (`LeadsDown`), that every table but a root is led to
  (`LedTo`), and that the valid entries of the last level are exactly what was
  asked for (`LeavesAsked`). This is what `MapsExact` lacks: it speaks of the
  translations, and a new entry changes only one of them because no table is
  shared. The place is not a variable of the code, so the invariant quantifies over
  it: each step shows the next one, with a table added (`AddTable`), a root added
  (`AddRoot`) or cleared (`ClearRoot`), or a map dropped (`DropMap`). `ForestMaps`
  relates a forest to what the hardware's walk finds. `TablesOK` also has the
  place map_page's walk has come to, and says which pages are marked used.
* `ChunksOK`, `UsedOK`, `ContentsOK` and `HeldOK`: for each phase of boot, which
  regions are registered (none, the pool, none again, the banks up to `bank`), what
  is marked used, what every page holds, and the blocks handed out. The phases are
  sets of values of `pc`. With them `FreshFrame` shows that a page `page_alloc` may
  return is neither a table nor a bitmap, code, blob or somebody's block, although
  the pool is registered twice, and given back in the end.
* `IdProgress` and `KernelProgress`: how far the loops that build the two maps have
  come, including the call of `map_page` under way.
* `RegistersOK`: the order of the MMU's registers and of the pointers that are made
  anew, for each step of the switch.
* `DataOK`, `CallOK` and `PagesOK` type the rest.

Every action has its lemma, `NextInv` puts them together. Assumptions:
`TableAssumption` (a table has entries, memory has 48-bit addresses, the kinds of
pages differ), `LayoutAssumption` (what the linker script lays out: the image is one
run of pages of memory that holds the pool, its bitmap's page and the kernel's root;
the UART is not memory), `CallerAssumption` (callers after boot map pages
that are not memory nor the UART's), `TreeAssumption` (the tree describes a machine: banks are memory and share no
page, the controller's registers are not memory, and the loader did not put the blob into the
image). `MemoryIsKept` and `KernelIsReachable` have the condition `BlobPlaced`: the
blob ends on the last page that `reserve_fdt_pages` counts, and no bank has its
bitmap there. The code establishes neither. The first fails for a blob that starts
within a page, which is the finding of `boot_fdt`; the second depends on the loader, as
`setup_page_allocator` keeps bitmaps off the image only. Both hold of every
tree of the run `boot`.

Only model-checked: liveness under fairness (`Terminates`, `InterruptsAreServed`,
`ReceiverEmptied`, `EverySleepEnds`, `NoTickLost`, `SetupOutcome`, `BootOutcome`), which
this prover cannot do; and `OutputExact`, which compares two recursive definitions
over texts.

## Findings

* **`irq_spurious`.** `gicv3_handle_irq` unmasks exceptions on its spurious and
  out-of-range paths. It is called from a vector that does not save `ELR_EL1`
  and `SPSR_EL1`, so an interrupt taken before the ERET makes the outer return go
  to the wrong place. `gicv3.h` says interrupts are re-enabled on ERET, which
  would happen by itself.
* **`irq_early`.** `gicv3_register_irq` enables the interrupt before it stores
  the handler; `gicv3.h` describes the other order. A level-sensitive line that
  is already up is dispatched to an empty entry again and again. The UART's may
  be: `pl011_init` unmasks the receive interrupt in the device long before
  `pl011_register_handler` enables it in the controller, and a character received by
  then is warned about and signalled again, without end. `Uart` and `Kernel` have both
  steps; with no more than the fairness of the core, main need not get past the first.
* **`uart_lost`.** A character that arrives between the handler's read of
  `UARTDR` and its write of `UARTICR` is not echoed, and the receiver, full, no
  longer interrupts.
* **`boot_fdt`.** `reserve_fdt_pages` counts pages from the blob's size alone. A
  blob that starts within a page may end on one more page, which is then taken
  for a table of the kernel map. QEMU aligns the blob; the boot protocol does not
  ask for it.
* **`page_allocator_readd`.** Adding a region again may create a second chunk
  for it, and removing it removes one.

Smaller differences between comments and code, not checked by a run:
`page_allocator.c:33` says `total_pages` excludes the bitmap, and it includes it;
`page_allocator.h:29-30` says a region is rejected when it overlaps the image,
and only its bitmap is compared; `icu.h:52-53` says registering an INTID twice
fails, and it replaces the handler; `uart.c:44` says `pl011_putc` waits for
space, and it does not; `kalloc.c:142` says a management page goes back once it is
empty, and one that a failing `kmalloc` has just added stays (`AtMostOneEmptyPage`
shows that they do not pile up); `page_table.h:331` says `map_page` ignores the
low bits of the virtual address, and it refuses them; `main.c:133-135` says that
`high_half_main` parks in an infinite `wfi` loop and that `exit(0)` is unreachable, and
the loop ends with the fifth wake-up, of whatever kind, and `exit(0)` is called (the run
`kernel` fires `exit`); `kprintf.c:63-66` says that `%l` followed by any character is
printed as unsigned hex, and the character decides: the tick handler's `%lu` is printed
in decimal; `arm_timer.c:52-55` and `64-66`
say that `timer_isr` reloads `CNTP_TVAL_EL0`, and it adds the period to
`CNTP_CVAL_EL0`, which is why ticks do not drift; `gicv3.c:987` and `1288` say that the
enable bits of SGIs always read as one, `gicv3.c:421-425` that they are reset to zero
and written like the others, which is what `Irq` assumes; `fdt.c:223-224` says the
default controller is used if no node names one, and it is also used when the one
named does not exist.
Also without a run: `get_reg_property` goes by the node's own cell counts where
the devicetree specification says the parent's, and returns a negative error,
which is true, from a `bool`; `%zu`, used in three messages, is not a
conversion of `vprintf`; a format that ends in `%` is read past its end;
`interrupt_to_intid` does not limit PPIs to INTIDs below 32; `freq * period_ms`
wraps for absurd periods; a core other than 0 calls `exit`, which prints, before
BSS is cleared and the console set.
A device tree blob at the very start of a bank would be overwritten by that
bank's bitmap before it is reserved. After the switch `check_kernel_binary_overlap`
compares a physical region with the image's high addresses and never rejects one;
nothing adds regions then.

## Plan

1. Page allocator with its abstract specification, its scans, and their proofs
   (done). The heap over `PagePool` (done). Interrupts, UART and timer (done).
   Page tables and boot over the page allocator (done).
2. The queries of `fdt.c` under boot and the timer's set-up (done); the entry,
   the MMU's registers and the pointers across the switch in `Boot` (done); the
   running kernel with the console, both handlers and the exit (done).
3. Theorems: the heap's two chains and its blocks (done); the safety invariants of
   `Irq`, `Timer`, `Uart` and `Kernel` (done except `OutputExact`).
4. Theorems about `Boot`, with page tables as a forest in memory (done, all of its
   invariants).

## Not modelled

The values of MMU register fields and the cache maintenance of the start-up code
are constants whose meaning is the architecture's. The TLB is modelled for the low map
only: `map_page` may rewrite a live entry of the high map without invalidating it
(`page_table.c:792-831`), and the properties are about what the tables hold. `StartGic`
faults if any page of a register region was not mapped, the code only when it touches
that page. In `Irq` the writes of `GICR_IGROUPR0` and `GICR_IGRPMODR0` are one step, and an
INTID out of range takes the spurious path, which does the same. `ReadTree` reads the
memory nodes once where `main` and `setup_page_allocator` each read them, from a blob
that does not change in between. libfdt is an external library:
`Fdt` states what it finds. `gicv3_trigger_sgi`, the register readers and
`invalidate_kalloc_state` are compiled for tests only; edge-triggered interrupts
are never configured. The functions that print registers, tables, banners and
error texts change no state, and those that dump page tables are never called.
`string.c` beyond `strlen` and `memcpy` is pure code under libfdt and the tests.
The tests themselves and `tools/` are not part of the kernel.
