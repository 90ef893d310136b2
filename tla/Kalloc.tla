------------------------------- MODULE Kalloc -------------------------------
(***************************************************************************)
(* The kernel heap: kernel/allocator/kalloc.c, on top of the page          *)
(* allocator's promise (PagePool).                                         *)
(*                                                                         *)
(* Every kmalloc takes whole pages and a descriptor.  Descriptors live in  *)
(* management pages, which are chained through next_page and are           *)
(* themselves taken from the page allocator when the chain is full and     *)
(* given back when their last descriptor is freed.  The descriptors in     *)
(* use are chained, across pages, in the list `allocated'.  Both chains    *)
(* are modelled as the pointers they are.                                  *)
(*                                                                         *)
(* A virtual page address is a frame number plus KernelBase; the address   *)
(* of a descriptor is the pair of its page and its index.  The contents of *)
(* a page that is given back are nobody's business any more, and are kept  *)
(* zero in the model; a management page is zeroed when it is taken, so     *)
(* nothing ever reads them.  Each of kmalloc                               *)
(* and kfree is two steps, one for each use of the page allocator; nothing *)
(* runs between them, for no interrupt handler allocates.                  *)
(***************************************************************************)
EXTENDS Integers, FiniteSets

CONSTANTS
  Frames,      \* the frames the page allocator manages
  KernelBase,  \* KERNEL_BASE, in pages
  PageSize,    \* PAGE_SIZE
  SizeMax,     \* SIZE_MAX
  PerPage,     \* MAX_MANAGEMENT_BLOCKS_PER_PAGE
  Sizes,       \* sizes callers ask kmalloc for
  Others,      \* page counts that users of page_alloc other than the heap ask for
  Null         \* NULL and PHYS_ADDR_NULL

ASSUME HeapAssumption ==
  /\ Frames \subseteq Nat /\ IsFiniteSet(Frames)
  /\ KernelBase \in Nat
  /\ PageSize \in Nat \ {0} /\ PerPage \in Nat \ {0}
  /\ SizeMax \in Nat /\ Sizes \subseteq 0 .. SizeMax
  /\ Others \subseteq Nat
  /\ Null \notin Nat /\ Null \notin Nat \X Nat

VARIABLES
  managed, free, live, result,  \* the page allocator, as PagePool shows it
  desc,              \* the descriptors in memory
  next_page,         \* the next_page field of every page
  kalloc_page_head,  \* first management page
  allocated,         \* first descriptor of the list
  call,              \* the call in progress
  heap,              \* history: what callers of kmalloc hold, [ptr, size]
  foreign            \* history: blocks held by other users of page_alloc

poolVars == <<managed, free, live, result>>
kallocVars == <<desc, next_page, kalloc_page_head, allocated>>
vars == <<managed, free, live, result, desc, next_page, kalloc_page_head, allocated,
          call, heap, foreign>>

pa_to_va(f) == f + KernelBase
va_to_pa(v) == v - KernelBase

Pages == {pa_to_va(f) : f \in Frames}
Indices == 0 .. (PerPage - 1)

\* allocated_block_desc_t *
DescAddrs == Pages \X Indices

Desc == [ptr : Pages \cup {Null}, size : Nat, is_used : BOOLEAN, next : DescAddrs \cup {Null}]

NoDesc == [ptr |-> Null, size |-> 0, is_used |-> FALSE, next |-> Null]

\* NUM_PAGES, in size_t arithmetic
NumPages(size) == ((size + PageSize - 1) % (SizeMax + 1)) \div PageSize

\* The page counts the page allocator is asked for.
PageRequests == {1} \cup Others \cup {NumPages(size) : size \in Sizes}

Pool == INSTANCE PagePool WITH Requests <- PageRequests

----
(* Walking a chain of pointers. *)

\* Where a walk that starts at head and follows nx is after 0 .. bound steps.
Walk(head, nx, bound) ==
  LET w[n \in 0 .. bound] ==
        IF n = 0 THEN head
        ELSE IF w[n - 1] = Null THEN Null ELSE nx[w[n - 1]]
  IN w

PageWalk == Walk(kalloc_page_head, next_page, Cardinality(Pages))

DescNext == [d \in DescAddrs |-> desc[d].next]

ListWalk == Walk(allocated, DescNext, Cardinality(DescAddrs))

On(walk) == {walk[n] : n \in DOMAIN walk} \ {Null}

Chain == On(PageWalk)

Listed == On(ListWalk)

\* The first step of the walk at a node of S.
IsFirstAt(walk, n, S) ==
  n \in DOMAIN walk /\ walk[n] \in S /\ \A m \in 0 .. (n - 1) : walk[m] \notin S

\* The last node of a chain, or Null for an empty one.
IsLast(walk, x) ==
  \/ walk[0] = Null /\ x = Null
  \/ \E n \in DOMAIN walk : n + 1 \in DOMAIN walk /\ walk[n] = x /\ x # Null /\ walk[n + 1] = Null

----
Idle == [op |-> "idle", size |-> 0, block |-> Null]

Init ==
  /\ managed = Frames /\ free = Frames /\ live = {}
  /\ result = [num |-> 0, frame |-> Null]
  /\ desc = [d \in DescAddrs |-> NoDesc]
  /\ next_page = [p \in Pages |-> Null]
  /\ kalloc_page_head = Null
  /\ allocated = Null
  /\ call = Idle
  /\ heap = {}
  /\ foreign = {}

----
(* kmalloc *)

\* Sizes kmalloc turns down at once: none, and those whose rounding up to
\* pages would overflow.
Rejected(size) == size = 0 \/ size > SizeMax - (PageSize - 1)

RejectSize ==
  /\ call = Idle
  /\ \E size \in Sizes : Rejected(size)
  /\ UNCHANGED vars

Unused == {d \in DescAddrs : ~desc[d].is_used}

\* The scan of find_free_management_block stops at descriptor d: the first
\* unused one of the first page in the chain that has one.
FirstUnused(d) ==
  \E n \in DOMAIN PageWalk :
    /\ IsFirstAt(PageWalk, n, {u[1] : u \in Unused})
    /\ d \in Unused /\ d[1] = PageWalk[n]
    /\ \A k \in 0 .. (d[2] - 1) : <<d[1], k>> \notin Unused

ChainFull == \A d \in Unused : d[1] \notin Chain

Claim(size, d) == call' = [op |-> "kmalloc", size |-> size, block |-> d]

\* find_free_management_block finds one.
FindBlock ==
  /\ call = Idle
  /\ \E size \in Sizes, d \in DescAddrs :
       /\ ~Rejected(size)
       /\ FirstUnused(d)
       /\ desc' = [desc EXCEPT ![d].is_used = TRUE]
       /\ Claim(size, d)
  /\ UNCHANGED <<poolVars, next_page, kalloc_page_head, allocated, heap, foreign>>

\* alloc_management_page: the page is zeroed.
ZeroedPage(p) == [d \in DescAddrs |-> IF d[1] = p THEN NoDesc ELSE desc[d]]

\* The new page becomes the last of the chain.
LinkPage(p) ==
  \/ /\ kalloc_page_head = Null
     /\ kalloc_page_head' = p
     /\ next_page' = [next_page EXCEPT ![p] = Null]
  \/ \E last \in Pages :
       /\ IsLast(PageWalk, last)
       /\ next_page' = [next_page EXCEPT ![p] = Null, ![last] = p]
       /\ UNCHANGED kalloc_page_head

\* The chain is empty or full: a management page is added and its first
\* descriptor taken.
GrowChain ==
  /\ call = Idle
  /\ ChainFull
  /\ Pool!Alloc(1)
  /\ \E size \in Sizes :
       LET p == pa_to_va(result'.frame) IN
       /\ ~Rejected(size)
       /\ LinkPage(p)
       /\ desc' = [ZeroedPage(p) EXCEPT ![<<p, 0>>].is_used = TRUE]
       /\ Claim(size, <<p, 0>>)
  /\ UNCHANGED <<allocated, heap, foreign>>

\* There is no page for it: kmalloc returns NULL.
GrowFails ==
  /\ call = Idle
  /\ ChainFull
  /\ \E size \in Sizes : ~Rejected(size)
  /\ Pool!Refuse(1)
  /\ UNCHANGED <<kallocVars, call, heap, foreign>>

\* Faulty variant: the descriptor keeps the next pointer of its last use.
AppendStale(d) ==
  \E last \in DescAddrs \cup {Null} :
    /\ IsLast(ListWalk, last)
    /\ desc' = LET filled == [desc EXCEPT ![d].ptr = pa_to_va(result'.frame),
                                          ![d].size = call.size]
               IN IF last = Null THEN filled ELSE [filled EXCEPT ![last].next = d]
    /\ allocated' = IF last = Null THEN d ELSE allocated

\* Faulty variant: the descriptor records the physical address.
AppendPhysical(d) ==
  \E last \in DescAddrs \cup {Null} :
    /\ IsLast(ListWalk, last)
    /\ desc' = LET filled == [desc EXCEPT ![d].ptr = result'.frame,
                                          ![d].size = call.size, ![d].next = Null]
               IN IF last = Null THEN filled ELSE [filled EXCEPT ![last].next = d]
    /\ allocated' = IF last = Null THEN d ELSE allocated

\* kmalloc fills in its descriptor and add_to_allocated_list appends it.
Append(d) ==
  \E last \in DescAddrs \cup {Null} :
    /\ IsLast(ListWalk, last)
    /\ desc' = LET filled == [desc EXCEPT ![d].ptr = pa_to_va(result'.frame),
                                          ![d].size = call.size, ![d].next = Null]
               IN IF last = Null THEN filled ELSE [filled EXCEPT ![last].next = d]
    /\ allocated' = IF last = Null THEN d ELSE allocated

TakePages ==
  /\ call.op = "kmalloc"
  /\ Pool!Alloc(NumPages(call.size))
  /\ Append(call.block)
  /\ heap' = heap \cup {[ptr |-> pa_to_va(result'.frame), size |-> call.size]}
  /\ call' = Idle
  /\ UNCHANGED <<next_page, kalloc_page_head, foreign>>

\* The pages are not to be had: the descriptor is released, kmalloc returns
\* NULL.
TakeFails ==
  /\ call.op = "kmalloc"
  /\ Pool!Refuse(NumPages(call.size))
  /\ desc' = [desc EXCEPT ![call.block].is_used = FALSE]
  /\ call' = Idle
  /\ UNCHANGED <<next_page, kalloc_page_head, allocated, heap, foreign>>

----
(* kfree *)

\* remove_from_allocated_list unlinks the n-th descriptor of the list.
Unlink(n) ==
  LET d == ListWalk[n]
      unused == [desc EXCEPT ![d].is_used = FALSE]
  IN IF n = 0
     THEN allocated' = desc[d].next /\ desc' = unused
     ELSE /\ desc' = [unused EXCEPT ![ListWalk[n - 1]].next = desc[d].next]
          /\ UNCHANGED allocated

WithPtr(ptr) == {d \in DescAddrs : desc[d].ptr = ptr}

\* Faulty variant: the size in pages is rounded down.
BlockOfFloor(d) == [frame |-> va_to_pa(desc[d].ptr), num |-> desc[d].size \div PageSize]

\* The pages kfree gives back for a descriptor.
BlockOf(d) == [frame |-> va_to_pa(desc[d].ptr), num |-> NumPages(desc[d].size)]

FreePages ==
  /\ call = Idle
  /\ \E ptr \in Pages, n \in DOMAIN ListWalk :
       LET d == ListWalk[n] IN
       /\ IsFirstAt(ListWalk, n, WithPtr(ptr))
       /\ Unlink(n)
       /\ Pool!Release(BlockOf(d))
       /\ heap' = {b \in heap : b.ptr # ptr}
       /\ call' = [op |-> "kfree", size |-> 0, block |-> d]
  /\ UNCHANGED <<next_page, kalloc_page_head, foreign>>

\* kfree of NULL, or of a pointer that is not a live block's.
FreeUnknown ==
  /\ call = Idle
  /\ \E ptr \in Pages \cup {Null} : ptr = Null \/ Listed \cap WithPtr(ptr) = {}
  /\ UNCHANGED vars

UsedIn(p) == {d \in DescAddrs : d[1] = p /\ desc[d].is_used}

\* Faulty variant: the page is cut off together with those behind it.
UnlinkPageTruncates(n) ==
  IF n = 0
  THEN kalloc_page_head' = Null /\ UNCHANGED next_page
  ELSE /\ next_page' = [next_page EXCEPT ![PageWalk[n - 1]] = Null]
       /\ UNCHANGED kalloc_page_head

\* free_management_page_if_empty takes the n-th page p out of the chain.
UnlinkPage(n) ==
  LET p == PageWalk[n] IN
  IF n = 0
  THEN /\ kalloc_page_head' = next_page[p]
       /\ next_page' = [next_page EXCEPT ![p] = Null]
  ELSE /\ next_page' = [next_page EXCEPT ![PageWalk[n - 1]] = next_page[p], ![p] = Null]
       /\ UNCHANGED kalloc_page_head

\* Faulty variant: the page is unlinked but not given back.
FreeChainPageLeaks ==
  /\ call.op = "kfree"
  /\ UsedIn(call.block[1]) = {}
  /\ \E n \in DOMAIN PageWalk :
       IsFirstAt(PageWalk, n, {call.block[1]}) /\ UnlinkPage(n)
  /\ desc' = ZeroedPage(call.block[1])
  /\ call' = Idle
  /\ UNCHANGED <<poolVars, allocated, heap, foreign>>

FreeChainPage ==
  /\ call.op = "kfree"
  /\ UsedIn(call.block[1]) = {}
  /\ \E n \in DOMAIN PageWalk :
       IsFirstAt(PageWalk, n, {call.block[1]}) /\ UnlinkPage(n)
  /\ Pool!Release([frame |-> va_to_pa(call.block[1]), num |-> 1])
  /\ desc' = ZeroedPage(call.block[1])
  /\ call' = Idle
  /\ UNCHANGED <<allocated, heap, foreign>>

\* Faulty variant: the page of every freed descriptor is kept.
KeepChainPageAlways ==
  /\ call.op = "kfree"
  /\ call' = Idle
  /\ UNCHANGED <<poolVars, kallocVars, heap, foreign>>

\* Other descriptors of the page are in use, or the page is not in the chain.
KeepChainPage ==
  /\ call.op = "kfree"
  /\ UsedIn(call.block[1]) # {} \/ call.block[1] \notin Chain
  /\ call' = Idle
  /\ UNCHANGED <<poolVars, kallocVars, heap, foreign>>

----
(* The rest of the kernel takes and returns pages of its own. *)

ForeignAlloc ==
  /\ call = Idle
  /\ \E n \in Others : Pool!Alloc(n)
  /\ foreign' = foreign \cup {[frame |-> result'.frame, num |-> result'.num]}
  /\ UNCHANGED <<kallocVars, call, heap>>

ForeignFree ==
  /\ call = Idle
  /\ \E b \in foreign : Pool!Release(b) /\ foreign' = foreign \ {b}
  /\ UNCHANGED <<kallocVars, call, heap>>

Kmalloc == RejectSize \/ FindBlock \/ GrowChain \/ GrowFails \/ TakePages \/ TakeFails
Kfree == FreePages \/ FreeUnknown \/ FreeChainPage \/ KeepChainPage

Next == Kmalloc \/ Kfree \/ ForeignAlloc \/ ForeignFree

Spec == Init /\ [][Next]_vars

----
TypeOK ==
  /\ managed = Frames /\ free \subseteq Frames
  /\ live \subseteq [frame : Frames, num : Nat]
  /\ desc \in [DescAddrs -> Desc]
  /\ next_page \in [Pages -> Pages \cup {Null}]
  /\ kalloc_page_head \in Pages \cup {Null}
  /\ allocated \in DescAddrs \cup {Null}
  /\ call \in [op : {"idle", "kmalloc", "kfree"}, size : 0 .. SizeMax,
               block : DescAddrs \cup {Null}]
  /\ heap \subseteq [ptr : Pages, size : Nat]
  /\ foreign \subseteq live

\* The descriptor a kmalloc in progress has taken and not yet listed.
InFlight == IF call.op = "kmalloc" THEN {call.block} ELSE {}

\* Both chains end, and the list holds exactly the descriptors that are in
\* use in pages of the chain: freeing a management page never leaves a
\* pointer into it behind, and no descriptor is lost with a page.
ListExact ==
  /\ \E n \in DOMAIN PageWalk : PageWalk[n] = Null
  /\ \E n \in DOMAIN ListWalk : ListWalk[n] = Null
  /\ Listed = {d \in DescAddrs : d[1] \in Chain /\ desc[d].is_used} \ InFlight

\* The list records exactly the blocks callers hold, each once and with its
\* size, and every one has pages for all of it.
HeapExact ==
  /\ {[ptr |-> desc[d].ptr, size |-> desc[d].size] : d \in Listed} = heap
  /\ \A c, d \in Listed : desc[c].ptr = desc[d].ptr => c = d
  /\ \A d \in Listed : BlockOf(d).num * PageSize >= desc[d].size

ChainBlocks == {[frame |-> va_to_pa(p), num |-> 1] : p \in Chain}
DataBlocks == {BlockOf(d) : d \in Listed}

\* No page is lost and none is shared: the blocks taken from the page
\* allocator are the management pages, the callers' blocks and the blocks of
\* other users, and no page belongs to two of them.
NothingLeaked ==
  /\ live = ChainBlocks \cup DataBlocks \cup foreign
  /\ \A a, b \in live : a # b => Pool!BlockFrames(a) \cap Pool!BlockFrames(b) = {}
  /\ ChainBlocks \cap DataBlocks = {}
  /\ (ChainBlocks \cup DataBlocks) \cap foreign = {}
  /\ free = Frames \ Pool!LiveFrames

\* Between calls at most one management page holds no live descriptor (a
\* kmalloc that failed for want of data pages may leave one): what the heap
\* keeps for bookkeeping is bounded by what callers hold.
AtMostOneEmptyPage ==
  call = Idle => \A p, q \in Chain : UsedIn(p) = {} /\ UsedIn(q) = {} => p = q

\* What kfree gives back to the page allocator is a block it was given.
GivesBackWhatItTook ==
  [][\/ \E n \in PageRequests : Pool!Alloc(n) \/ Pool!Refuse(n)
     \/ \E b \in live : Pool!Release(b)]_poolVars
====
