--------------------------- MODULE PageAllocator ---------------------------
(***************************************************************************)
(* The physical page allocator: kernel/allocator/page_allocator.c.         *)
(*                                                                         *)
(* A table of MaxChunks slots describes the memory regions under           *)
(* management.  Each region starts with the bitmap of its pages, so the    *)
(* bitmap is itself memory of the region: it outlives the slot, is zeroed  *)
(* when the region is added, and is shared by two slots with one base.     *)
(*                                                                         *)
(* Addresses.  A phy_addr is a pair of a page frame number and an offset   *)
(* below PageSize; aligned values (mem_base, what page_alloc returns) are  *)
(* frame numbers.  The set `used' holds the frames whose bitmap bit is     *)
(* set; as regions do not overlap, a frame has one bit, however many slots *)
(* point at the bitmap that holds it.                                      *)
(*                                                                         *)
(* Pointers.  A bitmap pointer is recorded by the multiple of KERNEL_BASE  *)
(* in it: 0 for the physical address, 1 for the high virtual address.      *)
(*                                                                         *)
(* live and reserved are history variables: what callers hold.             *)
(***************************************************************************)
EXTENDS Integers

CONSTANTS
  MaxChunks,    \* MAX_MEM_CHUNKS
  PageSize,     \* PAGE_SIZE
  ByteBits,     \* bits in a bitmap byte
  Regions,      \* the regions that may be added, [frame, offset, size, check]
  Image,        \* frames of the kernel image, image_start to image_end
  Requests,     \* page counts callers ask for
  Reservations, \* ranges callers reserve and release, [frame, offset, num]
  Null          \* PHYS_ADDR_NULL

ASSUME ChunkAssumption == MaxChunks \in Nat \ {0}
ASSUME SizeAssumption == PageSize \in Nat \ {0} /\ ByteBits \in Nat \ {0}
ASSUME InputAssumption ==
  /\ Regions \subseteq [frame : Nat, offset : 0 .. (PageSize - 1), size : Nat, check : BOOLEAN]
  /\ Reservations \subseteq [frame : Nat, offset : 0 .. (PageSize - 1), num : Nat]
  /\ Requests \subseteq Nat
  /\ Null \notin Nat

VARIABLES
  mem_chunks,      \* the slot table
  used,            \* frames whose bit is set in the bitmap of their region
  kernel_base_va,  \* mem_layout.c: 0 before the switch to high addresses, 1 after
  live,            \* blocks allocated and not freed, [frame, num]
  reserved,        \* frames reserved and not released
  result           \* the last page_alloc and what it returned, [num, frame]

vars == <<mem_chunks, used, kernel_base_va, live, reserved, result>>

----
Slots == 0 .. (MaxChunks - 1)

\* memory_chunk_t.  `bitmap' is the pointer's multiple of KERNEL_BASE.
Chunk == [mem_base : Nat, total_pages : Nat, bitmap : Nat, initialized : BOOLEAN]

Run(f, n) == f .. (f + n - 1)

BlockFrames(b) == Run(b.frame, b.num)

LiveFrames == UNION {BlockFrames(b) : b \in live}

\* The slot a loop over the table stops at, or the bit a scan stops at.
IsFirst(i, S) == i \in S /\ \A j \in S : i <= j

----
(* The geometry of a region (page_init_chunk). *)

\* aligned_start, as a frame number
AlignedStart(r) == IF r.offset = 0 THEN r.frame ELSE r.frame + 1

\* alignment_shift
AlignmentShift(r) == IF r.offset = 0 THEN 0 ELSE PageSize - r.offset

TotalPages(r) ==
  IF AlignmentShift(r) >= r.size THEN 0 ELSE (r.size - AlignmentShift(r)) \div PageSize

\* NUM_PAGES
NumPages(bytes) == (bytes + PageSize - 1) \div PageSize

\* bitmap_size_pages
BitmapPages(pages) == NumPages((pages + ByteBits - 1) \div ByteBits)

RegionFrames(r) == Run(AlignedStart(r), TotalPages(r))

\* Distinct regions share no page, as the memory banks of one machine do not.
ASSUME RegionsApart ==
  \A r, s \in Regions : r # s => RegionFrames(r) \cap RegionFrames(s) = {}

ChunkFrames(c) == Run(c.mem_base, c.total_pages)

BitmapFrames(c) == Run(c.mem_base, BitmapPages(c.total_pages))

Active == {i \in Slots : mem_chunks[i].initialized}

Managed == UNION {ChunkFrames(mem_chunks[i]) : i \in Active}

Bitmaps == UNION {BitmapFrames(mem_chunks[i]) : i \in Active}

----
Init ==
  /\ mem_chunks = [i \in Slots |-> [mem_base |-> 0, total_pages |-> 0,
                                    bitmap |-> 0, initialized |-> FALSE]]
  /\ used = {}
  /\ kernel_base_va = 0
  /\ live = {}
  /\ reserved = {}
  /\ result = [num |-> 0, frame |-> Null]

----
(* Adding and removing regions. *)

\* check_kernel_binary_overlap, on the bitmap's frames.  &image_start is a high
\* address after the switch and the frames' addresses are physical: the check
\* lets every region pass then.
BitmapOverlapsImage(r) ==
  kernel_base_va = 0 /\ Run(AlignedStart(r), BitmapPages(TotalPages(r))) \cap Image # {}

\* Faulty variant: the start is rounded down.
ChunkRoundedDown(r, ok) ==
  [mem_base |-> r.frame, total_pages |-> TotalPages(r),
   bitmap |-> kernel_base_va, initialized |-> ok]

\* The slot once page_init_chunk has placed the bitmap of region r.
ChunkOf(r, ok) ==
  [mem_base |-> AlignedStart(r), total_pages |-> TotalPages(r),
   bitmap |-> kernel_base_va, initialized |-> ok]

Dropped(c) == [c EXCEPT !.initialized = FALSE]

\* The bitmap is placed at the start of the region and zeroed; the frames in
\* kept are then marked used.
ZeroBitmap(r, kept) ==
  /\ used' = (used \ RegionFrames(r)) \cup kept
  /\ reserved' = reserved \ RegionFrames(r)

\* page_init_chunk on slot i, by outcome.  Whatever the outcome, the slot is
\* first marked uninitialized.  First: the region ends before its first
\* page boundary.
TooSmall(r, i) ==
  /\ AlignmentShift(r) >= r.size
  /\ mem_chunks' = [mem_chunks EXCEPT ![i] = Dropped(@)]
  /\ UNCHANGED <<used, reserved>>

\* The bitmap would overwrite the kernel image: mem_base is set already.
OverImage(r, i) ==
  /\ AlignmentShift(r) < r.size
  /\ r.check /\ BitmapOverlapsImage(r)
  /\ mem_chunks' = [mem_chunks EXCEPT ![i] = [Dropped(@) EXCEPT !.mem_base = AlignedStart(r)]]
  /\ UNCHANGED <<used, reserved>>

\* The conditions under which reserve_page_chunk takes the bitmap's pages.
BitmapFits(r) ==
  /\ AlignedStart(r) # 0
  /\ TotalPages(r) # 0
  /\ BitmapPages(TotalPages(r)) <= TotalPages(r)

\* The bitmap's pages cannot be reserved: noticed after it was zeroed.
Unusable(r, i) ==
  /\ AlignmentShift(r) < r.size
  /\ ~(r.check /\ BitmapOverlapsImage(r))
  /\ ~BitmapFits(r)
  /\ mem_chunks' = [mem_chunks EXCEPT ![i] = ChunkOf(r, FALSE)]
  /\ ZeroBitmap(r, {})

Accept(r, i) ==
  /\ AlignmentShift(r) < r.size
  /\ ~(r.check /\ BitmapOverlapsImage(r))
  /\ BitmapFits(r)
  /\ mem_chunks' = [mem_chunks EXCEPT ![i] = ChunkOf(r, TRUE)]
  /\ ZeroBitmap(r, Run(AlignedStart(r), BitmapPages(TotalPages(r))))

page_init_chunk(r, i) == TooSmall(r, i) \/ OverImage(r, i) \/ Unusable(r, i) \/ Accept(r, i)

\* The slots page_allocator_add_region accepts for r.
Candidates(r) ==
  {i \in Slots : \/ r.offset = 0 /\ mem_chunks[i].mem_base = r.frame
                 \/ ~mem_chunks[i].initialized}

page_allocator_add_region(r) ==
  /\ \/ \E i \in Slots : IsFirst(i, Candidates(r)) /\ page_init_chunk(r, i)
     \/ Candidates(r) = {} /\ UNCHANGED <<mem_chunks, used, reserved>>
  /\ UNCHANGED <<kernel_base_va, live, result>>

\* The initialized slots whose region starts at address a.
Holders(a) == {i \in Active : a.offset = 0 /\ mem_chunks[i].mem_base = a.frame}

page_allocator_remove_region(a) ==
  /\ \/ \E i \in Slots :
          /\ IsFirst(i, Holders(a))
          /\ mem_chunks' = [mem_chunks EXCEPT ![i].initialized = FALSE]
     \/ Holders(a) = {} /\ UNCHANGED mem_chunks
  /\ UNCHANGED <<used, kernel_base_va, live, reserved, result>>

\* Faulty variant: the conversion is va_to_pa.
FixupSubtracts ==
  /\ kernel_base_va = 0
  /\ kernel_base_va' = 1
  /\ mem_chunks' = [i \in Slots |->
       IF mem_chunks[i].initialized
       THEN [mem_chunks[i] EXCEPT !.bitmap = @ - kernel_base_va']
       ELSE mem_chunks[i]]
  /\ UNCHANGED <<used, live, reserved, result>>

\* Faulty variant: the loop stops one slot early.
FixupStopsEarly ==
  /\ kernel_base_va = 0
  /\ kernel_base_va' = 1
  /\ mem_chunks' = [i \in Slots |->
       IF mem_chunks[i].initialized /\ i < MaxChunks - 1
       THEN [mem_chunks[i] EXCEPT !.bitmap = @ + kernel_base_va']
       ELSE mem_chunks[i]]
  /\ UNCHANGED <<used, live, reserved, result>>

\* high_half_main: update_kernel_base_va, then fixup_page_allocator
fixup_page_allocator ==
  /\ kernel_base_va = 0
  /\ kernel_base_va' = 1
  /\ mem_chunks' = [i \in Slots |->
       IF mem_chunks[i].initialized
       THEN [mem_chunks[i] EXCEPT !.bitmap = @ + kernel_base_va']
       ELSE mem_chunks[i]]
  /\ UNCHANGED <<used, live, reserved, result>>

----
(* Reserving, allocating and freeing pages. *)

\* The initialized slots whose range holds frame f; find_chunk_for_address
\* returns the first of them.
Owners(f) == {i \in Active : f \in ChunkFrames(mem_chunks[i])}

\* reserve_page_chunk refuses a byte range that leaves the chunk.
FitsChunk(a, c) ==
  LET end == c.mem_base + c.total_pages
  IN a.frame + a.num < end \/ (a.frame + a.num = end /\ a.offset = 0)

reserve_page(a) ==
  /\ \/ \E i \in Slots :
          /\ IsFirst(i, Owners(a.frame))
          /\ FitsChunk(a, mem_chunks[i])
          /\ used' = used \cup Run(a.frame, a.num)
          /\ reserved' = reserved \cup Run(a.frame, a.num)
     \/ /\ \A i \in Slots :
             IsFirst(i, Owners(a.frame)) => ~FitsChunk(a, mem_chunks[i])
        /\ UNCHANGED <<used, reserved>>
  /\ UNCHANGED <<mem_chunks, kernel_base_va, live, result>>

\* Faulty variant: the last bit of the run is not looked at.
FreeRunsShort(c, n) == {f \in ChunkFrames(c) :
                          n > 0 /\ Run(f, n - 1) \subseteq ChunkFrames(c) \ used}

\* Faulty variant: the scan never looks at the chunk's last bit.
FreeRunsStopEarly(c, n) == {f \in ChunkFrames(c) :
   n > 0 /\ Run(f, n) \subseteq Run(c.mem_base, c.total_pages - 1) \ used}

\* Where a run of n clear bits starts in the chunk.  A request for no page
\* finds none: both scans count the bit they look at before they compare.
FreeRuns(c, n) == {f \in ChunkFrames(c) :
                     n > 0 /\ Run(f, n) \subseteq ChunkFrames(c) \ used}

\* find_chunk_with_free_pages returns the first of these slots.
Roomy(n) == {i \in Active : FreeRuns(mem_chunks[i], n) # {}}

\* page_alloc_chunk takes the first run.
page_alloc_chunk(n, i) ==
  \E f \in FreeRuns(mem_chunks[i], n) :
    /\ IsFirst(f, FreeRuns(mem_chunks[i], n))
    /\ used' = used \cup Run(f, n)
    /\ live' = live \cup {[frame |-> f, num |-> n]}
    /\ result' = [num |-> n, frame |-> f]

page_alloc(n) ==
  /\ \/ \E i \in Slots : IsFirst(i, Roomy(n)) /\ page_alloc_chunk(n, i)
     \/ /\ Roomy(n) = {}
        /\ result' = [num |-> n, frame |-> Null]
        /\ UNCHANGED <<used, live>>
  /\ UNCHANGED <<mem_chunks, kernel_base_va, reserved>>

\* Faulty variant: the cut is one page too short.
FreedFramesShort(a, c) ==
  Run(a.frame, IF a.frame + a.num >= c.mem_base + c.total_pages
               THEN c.mem_base + c.total_pages - a.frame - 1
               ELSE a.num)

\* The frames page_free_chunk marks free: a range that runs past the end of
\* the chunk is cut off there.
FreedFrames(a, c) ==
  Run(a.frame, IF a.frame + a.num > c.mem_base + c.total_pages
               THEN c.mem_base + c.total_pages - a.frame
               ELSE a.num)

page_free(a) ==
  /\ \/ \E i \in Slots :
          /\ IsFirst(i, Owners(a.frame))
          /\ used' = used \ FreedFrames(a, mem_chunks[i])
          /\ reserved' = reserved \ FreedFrames(a, mem_chunks[i])
     \/ Owners(a.frame) = {} /\ UNCHANGED <<used, reserved>>
  /\ live' = live \ {[frame |-> a.frame, num |-> a.num]}
  /\ UNCHANGED <<mem_chunks, kernel_base_va, result>>

----
(***************************************************************************)
(* What callers keep to.  A region is new when it shares no memory with a  *)
(* managed region or a live block; only memory nobody holds is reserved;   *)
(* what is freed was allocated, or reserved and is no bitmap.              *)
(***************************************************************************)
IsNew(r) ==
  /\ RegionFrames(r) \cap (Managed \cup LiveFrames) = {}
  /\ Holders(r) = {}

MayReserve(a) == Run(a.frame, a.num) \cap LiveFrames = {}

MayRelease(a) ==
  \A i \in Owners(a.frame) :
    FreedFrames(a, mem_chunks[i]) \subseteq reserved \ Bitmaps

\* The address a region is managed under.
Aligned(r) == [frame |-> AlignedStart(r), offset |-> 0]

AddNewRegion == \E r \in Regions : IsNew(r) /\ page_allocator_add_region(r)
RemoveRegion == \E r \in Regions : \E a \in {r, Aligned(r)} : page_allocator_remove_region(a)
ReservePages == \E a \in Reservations : MayReserve(a) /\ reserve_page(a)
AllocPages   == \E n \in Requests : page_alloc(n)
FreeBlock    == \E b \in live : page_free([frame |-> b.frame, offset |-> 0, num |-> b.num])
FreeReserved == \E a \in Reservations : MayRelease(a) /\ page_free(a)

Next ==
  \/ AddNewRegion
  \/ RemoveRegion
  \/ fixup_page_allocator
  \/ ReservePages
  \/ AllocPages
  \/ FreeBlock
  \/ FreeReserved

Spec == Init /\ [][Next]_vars

\* The same allocator, called without regard to what is managed already.
AddAnyRegion == \E r \in Regions : page_allocator_add_region(r)

AnyNext == AddAnyRegion \/ RemoveRegion \/ AllocPages \/ FreeBlock

AnySpec == Init /\ [][AnyNext]_vars

----
TypeOK ==
  /\ mem_chunks \in [Slots -> Chunk]
  /\ used \subseteq Nat
  /\ kernel_base_va \in {0, 1}
  /\ live \subseteq [frame : Nat, num : Nat]
  /\ reserved \subseteq Nat
  /\ result \in [num : Nat, frame : Nat \cup {Null}]

\* A block page_alloc returned is its caller's alone: it shares no page with
\* another block, with the bitmap of a managed region or with a reserved
\* range, however regions come and go in between.
LiveIsolated ==
  /\ \A b, c \in live : b # c => BlockFrames(b) \cap BlockFrames(c) = {}
  /\ LiveFrames \cap (Bitmaps \cup reserved) = {}

\* The bitmaps tell the truth: a managed page is marked used if and only if
\* it holds a bitmap, is reserved or belongs to a live block.  Nothing is
\* leaked by page_free and nothing held is forgotten.
BitmapExact ==
  used \cap Managed = (Bitmaps \cup reserved \cup LiveFrames) \cap Managed

\* No page is managed through two slots of the table, so that the first slot
\* find_chunk_for_address meets is the only one.
ChunksApart ==
  \A i, j \in Active :
    i # j => ChunkFrames(mem_chunks[i]) \cap ChunkFrames(mem_chunks[j]) = {}

\* Before and after the switch to high addresses, every managed region's
\* bitmap pointer is the one the current address map translates.
BitmapReachable == \A i \in Active : mem_chunks[i].bitmap = kernel_base_va

----
(* What makes the properties above inductive. *)

\* A managed chunk is one of the regions, and its bitmap lies inside it.
ChunksAreRegions ==
  \A i \in Active :
    /\ BitmapPages(mem_chunks[i].total_pages) <= mem_chunks[i].total_pages
    /\ mem_chunks[i].total_pages # 0
    /\ \E r \in Regions : /\ mem_chunks[i].mem_base = AlignedStart(r)
                          /\ mem_chunks[i].total_pages = TotalPages(r)

\* A live block is not empty and lies in one region, managed or not.
LiveInRegions ==
  \A b \in live :
    b.num > 0 /\ \E r \in Regions : BlockFrames(b) \subseteq RegionFrames(r)

IInv ==
  /\ TypeOK
  /\ ChunksAreRegions
  /\ LiveInRegions
  /\ ChunksApart
  /\ LiveIsolated
  /\ BitmapExact
  /\ BitmapReachable

----
\* page_alloc keeps the promise of PagePool: it hands out only free runs,
\* page_free returns exactly the block, and a request is refused only when
\* no run of free pages is long enough, region borders notwithstanding.
Pool == INSTANCE PagePool WITH managed <- Managed, free <- Managed \ used

ImplementsPool == Pool!PoolSpec

\* page_allocator.h: remove_region "Marks the region that starts at mem_start
\* as no longer managed by the allocator".
RemovedIsUnmanaged ==
  [][\A r \in Regions : page_allocator_remove_region(r) => Holders(r)' = {}]_vars
====
