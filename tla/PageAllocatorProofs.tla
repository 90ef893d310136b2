------------------------ MODULE PageAllocatorProofs ------------------------
(***************************************************************************)
(* Proofs about PageAllocator, for every table size, page size, set of     *)
(* regions, reservations and requests.                                     *)
(***************************************************************************)
EXTENDS PageAllocator, TLAPS

USE ChunkAssumption, SizeAssumption, InputAssumption

----
(* The geometry of regions. *)

\* Rounding a quotient keeps it a natural number.
LEMMA DivNat == \A a \in Nat, d \in Nat \ {0} : a \div d \in Nat
  OBVIOUS

\* aligned_start and total_pages of a region are natural numbers.
LEMMA GeometryType ==
  \A r \in Regions : AlignedStart(r) \in Nat /\ TotalPages(r) \in Nat
<1> TAKE r \in Regions
<1>1. /\ r.frame \in Nat /\ r.size \in Nat
      /\ r.offset \in Nat /\ r.offset < PageSize
  OBVIOUS
<1>2. AlignmentShift(r) \in Nat
  BY <1>1 DEF AlignmentShift
<1>3. TotalPages(r) \in Nat
  BY <1>1, <1>2, DivNat DEF TotalPages
<1> QED
  BY <1>1, <1>3 DEF AlignedStart

\* The number of bitmap pages is a natural number.
LEMMA BitmapPagesType == \A p \in Nat : BitmapPages(p) \in Nat
<1> TAKE p \in Nat
<1>1. (p + ByteBits - 1) \in Nat
  OBVIOUS
<1>2. (p + ByteBits - 1) \div ByteBits \in Nat
  BY <1>1, DivNat
<1> DEFINE q == (p + ByteBits - 1) \div ByteBits
<1> HIDE DEF q
<1>3. q + PageSize - 1 \in Nat
  BY <1>2 DEF q
<1>4. NumPages(q) \in Nat
  BY <1>3, DivNat DEF NumPages
<1> QED
  BY <1>4 DEF BitmapPages, q

\* Runs and chunks consist of page frames; a chunk that is not active has no
\* influence on the managed frames.
LEMMA RunType == \A f, n \in Nat : Run(f, n) \subseteq Nat
  BY DEF Run

LEMMA SlotType ==
  ASSUME TypeOK, NEW i \in Slots
  PROVE  /\ mem_chunks[i].mem_base \in Nat /\ mem_chunks[i].total_pages \in Nat
         /\ mem_chunks[i].bitmap \in Nat /\ mem_chunks[i].initialized \in BOOLEAN
         /\ mem_chunks[i] \in Chunk
  BY DEF TypeOK, Chunk

----
(* Type correctness. *)

LEMMA TypeStep == TypeOK /\ [Next]_vars => TypeOK'
<1> SUFFICES ASSUME TypeOK, [Next]_vars PROVE TypeOK'
  OBVIOUS
<1> USE DEF TypeOK
<1>1. ASSUME NEW r \in Regions, page_allocator_add_region(r) PROVE TypeOK'
  <2>1. CASE \E i \in Slots : page_init_chunk(r, i)
    <3> PICK i \in Slots : page_init_chunk(r, i)
      BY <2>1
    <3>1. AlignedStart(r) \in Nat /\ TotalPages(r) \in Nat
      BY GeometryType
    <3>2. BitmapPages(TotalPages(r)) \in Nat
      BY <3>1, BitmapPagesType
    <3>3. Run(AlignedStart(r), BitmapPages(TotalPages(r))) \subseteq Nat
      BY <3>1, <3>2, RunType
    <3>4. mem_chunks[i] \in Chunk
      OBVIOUS
    <3>5. Dropped(mem_chunks[i]) \in Chunk
      BY <3>4 DEF Dropped, Chunk
    <3>6. \A ok \in BOOLEAN : ChunkOf(r, ok) \in Chunk
      BY <3>1 DEF ChunkOf, Chunk
    <3>7. \E c \in Chunk : mem_chunks' = [mem_chunks EXCEPT ![i] = c]
      <4>1. CASE TooSmall(r, i)
        BY <4>1, <3>5 DEF TooSmall
      <4>2. CASE OverImage(r, i)
        <5>1. [Dropped(mem_chunks[i]) EXCEPT !.mem_base = AlignedStart(r)] \in Chunk
          BY <3>1, <3>5 DEF Chunk
        <5> QED
          BY <4>2, <5>1 DEF OverImage
      <4>3. CASE Unusable(r, i)
        BY <4>3, <3>5, <3>6 DEF Unusable
      <4>4. CASE Accept(r, i)
        BY <4>4, <3>6 DEF Accept
      <4> QED
        BY <4>1, <4>2, <4>3, <4>4 DEF page_init_chunk
    <3>8. used' \subseteq Nat /\ reserved' \subseteq Nat
      BY <3>3 DEF page_init_chunk, TooSmall, OverImage, Unusable, Accept, ZeroBitmap
    <3> QED
      BY <1>1, <3>7, <3>8 DEF page_allocator_add_region
  <2>2. CASE UNCHANGED <<mem_chunks, used, reserved>>
    BY <1>1, <2>2 DEF page_allocator_add_region
  <2> QED
    BY <1>1, <2>1, <2>2 DEF page_allocator_add_region
<1>2. ASSUME NEW a, page_allocator_remove_region(a) PROVE TypeOK'
  BY <1>2 DEF page_allocator_remove_region, Chunk
<1>3. CASE fixup_page_allocator
  <2>1. mem_chunks' \in [Slots -> Chunk]
    BY <1>3 DEF fixup_page_allocator, Chunk
  <2> QED
    BY <1>3, <2>1 DEF fixup_page_allocator
<1>4. ASSUME NEW a \in Reservations, reserve_page(a) PROVE TypeOK'
  <2>1. Run(a.frame, a.num) \subseteq Nat
    BY RunType
  <2> QED
    BY <1>4, <2>1 DEF reserve_page
<1>5. ASSUME NEW n \in Requests, page_alloc(n) PROVE TypeOK'
  <2>1. CASE \E i \in Slots : page_alloc_chunk(n, i)
    <3> PICK i \in Slots : page_alloc_chunk(n, i)
      BY <2>1
    <3> PICK f \in FreeRuns(mem_chunks[i], n) :
          /\ used' = used \cup Run(f, n)
          /\ live' = live \cup {[frame |-> f, num |-> n]}
          /\ result' = [num |-> n, frame |-> f]
      BY DEF page_alloc_chunk
    <3>1. f \in Nat
      BY SlotType DEF FreeRuns, ChunkFrames, Run
    <3>2. Run(f, n) \subseteq Nat
      BY <3>1, RunType
    <3>3. n \in Nat /\ [frame |-> f, num |-> n] \in [frame : Nat, num : Nat]
      BY <3>1
    <3>4. result' \in [num : Nat, frame : Nat \cup {Null}]
      BY <3>1, <3>3
    <3>5. live' \subseteq [frame : Nat, num : Nat]
      BY <3>3
    <3> QED
      BY <1>5, <3>2, <3>4, <3>5 DEF page_alloc
  <2>2. CASE result' = [num |-> n, frame |-> Null] /\ UNCHANGED <<used, live>>
    BY <1>5, <2>2 DEF page_alloc
  <2> QED
    BY <1>5, <2>1, <2>2 DEF page_alloc
<1>6. ASSUME NEW a, page_free(a) PROVE TypeOK'
  BY <1>6 DEF page_free
<1>7. CASE UNCHANGED vars
  BY <1>7 DEF vars
<1> QED
  BY <1>1, <1>2, <1>3, <1>4, <1>5, <1>6, <1>7
     DEF Next, AddNewRegion, RemoveRegion, ReservePages, AllocPages, FreeBlock, FreeReserved

\* Every operation keeps the slot table and the bitmaps well typed.
THEOREM TypeCorrect == Spec => []TypeOK
<1>1. Init => TypeOK
  BY DEF Init, TypeOK, Chunk
<1> QED
  BY <1>1, TypeStep, PTL DEF Spec

----
(* The frames under management. *)

LEMMA Members ==
  /\ \A x : x \in Managed <=> \E i \in Active : x \in ChunkFrames(mem_chunks[i])
  /\ \A x : x \in Bitmaps <=> \E i \in Active : x \in BitmapFrames(mem_chunks[i])
  /\ \A x : x \in LiveFrames <=> \E b \in live : x \in BlockFrames(b)
  BY DEF Managed, Bitmaps, LiveFrames

\* A region's bitmap is part of the region.
LEMMA BitmapsManaged ==
  ASSUME TypeOK, ChunksAreRegions
  PROVE  /\ \A i \in Active : BitmapFrames(mem_chunks[i]) \subseteq ChunkFrames(mem_chunks[i])
         /\ Bitmaps \subseteq Managed
<1>1. ASSUME NEW i \in Active
      PROVE  BitmapFrames(mem_chunks[i]) \subseteq ChunkFrames(mem_chunks[i])
  <2>1. mem_chunks[i].mem_base \in Nat /\ mem_chunks[i].total_pages \in Nat
    BY SlotType DEF Active
  <2>2. BitmapPages(mem_chunks[i].total_pages) \in Nat
    BY <2>1, BitmapPagesType
  <2>3. BitmapPages(mem_chunks[i].total_pages) <= mem_chunks[i].total_pages
    BY DEF ChunksAreRegions
  <2> QED
    BY <2>1, <2>2, <2>3 DEF BitmapFrames, ChunkFrames, Run
<1> QED
  BY <1>1, Members

\* Operations that leave the place and size of active chunks alone.
LEMMA SameChunks ==
  ASSUME Active' = Active,
         \A i \in Active : /\ mem_chunks'[i].mem_base = mem_chunks[i].mem_base
                           /\ mem_chunks'[i].total_pages = mem_chunks[i].total_pages
  PROVE  /\ Managed' = Managed
         /\ Bitmaps' = Bitmaps
         /\ ChunksApart => ChunksApart'
         /\ ChunksAreRegions => ChunksAreRegions'
<1>1. \A i \in Active : /\ ChunkFrames(mem_chunks[i])' = ChunkFrames(mem_chunks[i])
                        /\ BitmapFrames(mem_chunks[i])' = BitmapFrames(mem_chunks[i])
  BY DEF ChunkFrames, BitmapFrames
<1>2. Managed' = Managed /\ Bitmaps' = Bitmaps
  BY <1>1 DEF Managed, Bitmaps
<1>3. ChunksApart => ChunksApart'
  BY <1>1 DEF ChunksApart
<1>4. ChunksAreRegions => ChunksAreRegions'
  BY DEF ChunksAreRegions
<1> QED
  BY <1>2, <1>3, <1>4

\* Two regions with a frame in common are the same region.
LEMMA SameRegion ==
  ASSUME NEW r \in Regions, NEW s \in Regions, NEW x,
         x \in RegionFrames(r), x \in RegionFrames(s)
  PROVE  r = s
  BY RegionsApart

----
(* One lemma per operation: it preserves the inductive invariant. *)

\* A rejected region leaves the managed regions alone: the slot it is tried
\* on is not in use, since no managed region starts where the new one does.
LEMMA AddRejected ==
  ASSUME IInv, NEW r \in Regions, IsNew(r), NEW i \in Slots, i \in Candidates(r),
         NEW c \in Chunk, c.initialized = FALSE,
         mem_chunks' = [mem_chunks EXCEPT ![i] = c],
         \/ UNCHANGED <<used, reserved>>
         \/ ZeroBitmap(r, {}),
         UNCHANGED <<kernel_base_va, live, result>>, TypeOK'
  PROVE  IInv'
<1> USE DEF IInv
<1>1. ~mem_chunks[i].initialized
  BY DEF Candidates, IsNew, Holders, Active
<1>2. Active' = Active /\ \A j \in Active : mem_chunks'[j] = mem_chunks[j]
  BY <1>1 DEF Active, TypeOK
<1>3. /\ Managed' = Managed /\ Bitmaps' = Bitmaps
      /\ ChunksApart' /\ ChunksAreRegions'
  BY <1>2, SameChunks
<1>4. LiveFrames' = LiveFrames /\ LiveInRegions'
  BY DEF LiveFrames, LiveInRegions
<1>5. reserved' \subseteq reserved
  BY DEF ZeroBitmap
<1>6. LiveIsolated'
  BY <1>3, <1>4, <1>5 DEF LiveIsolated
<1>7. \A x \in Managed : (x \in used' <=> x \in used) /\ (x \in reserved' <=> x \in reserved)
  BY DEF ZeroBitmap, IsNew
<1>8. BitmapExact'
  BY <1>3, <1>4, <1>7 DEF BitmapExact
<1>9. BitmapReachable'
  BY <1>2 DEF BitmapReachable
<1> QED
  BY <1>3, <1>4, <1>6, <1>8, <1>9

\* An accepted region becomes one more active chunk, all of it free but for
\* its bitmap.
LEMMA AddAccepted ==
  ASSUME IInv, NEW r \in Regions, IsNew(r), NEW i \in Slots, i \in Candidates(r),
         Accept(r, i), UNCHANGED <<kernel_base_va, live, result>>, TypeOK'
  PROVE  IInv'
<1> USE DEF IInv
<1> DEFINE B == Run(AlignedStart(r), BitmapPages(TotalPages(r)))
<1> HIDE DEF B
<1>1. ~mem_chunks[i].initialized
  BY DEF Candidates, IsNew, Holders, Active
<1>2. /\ mem_chunks'[i] = ChunkOf(r, TRUE)
      /\ \A j \in Slots : j # i => mem_chunks'[j] = mem_chunks[j]
  BY DEF Accept, TypeOK
<1>3. Active' = Active \cup {i} /\ i \notin Active
  BY <1>1, <1>2 DEF Active, ChunkOf
<1>4. /\ ChunkFrames(mem_chunks[i])' = RegionFrames(r)
      /\ BitmapFrames(mem_chunks[i])' = B
  BY <1>2 DEF ChunkFrames, BitmapFrames, RegionFrames, ChunkOf, B
<1>5. \A j \in Active : /\ ChunkFrames(mem_chunks[j])' = ChunkFrames(mem_chunks[j])
                        /\ BitmapFrames(mem_chunks[j])' = BitmapFrames(mem_chunks[j])
                        /\ mem_chunks'[j] = mem_chunks[j]
  <2> TAKE j \in Active
  <2>1. j \in Slots /\ j # i
    BY <1>3 DEF Active
  <2>2. mem_chunks'[j] = mem_chunks[j]
    BY <2>1, <1>2
  <2> QED
    BY <2>2 DEF ChunkFrames, BitmapFrames
<1>6. Managed' = Managed \cup RegionFrames(r) /\ Bitmaps' = Bitmaps \cup B
  BY <1>3, <1>4, <1>5 DEF Managed, Bitmaps
<1>7. Managed \cap RegionFrames(r) = {} /\ LiveFrames \cap RegionFrames(r) = {}
  BY DEF IsNew
<1>8. ChunksAreRegions'
  <2>1. ASSUME NEW j \in Active'
        PROVE  /\ BitmapPages(mem_chunks[j].total_pages)' <= mem_chunks'[j].total_pages
               /\ mem_chunks'[j].total_pages # 0
               /\ \E s \in Regions : /\ mem_chunks'[j].mem_base = AlignedStart(s)
                                     /\ mem_chunks'[j].total_pages = TotalPages(s)
    <3>1. CASE j = i
      BY <3>1, <1>2 DEF ChunkOf, Accept, BitmapFits
    <3>2. CASE j \in Active
      BY <3>2, <1>5 DEF ChunksAreRegions
    <3> QED
      BY <3>1, <3>2, <1>3
  <2> QED
    BY <2>1 DEF ChunksAreRegions
<1>9. B \subseteq RegionFrames(r)
  <2>1. AlignedStart(r) \in Nat /\ TotalPages(r) \in Nat /\ BitmapPages(TotalPages(r)) \in Nat
    BY GeometryType, BitmapPagesType
  <2>2. BitmapPages(TotalPages(r)) <= TotalPages(r)
    BY DEF Accept, BitmapFits
  <2> QED
    BY <2>1, <2>2 DEF B, RegionFrames, Run
<1>10. ChunksApart'
  <2>1. ASSUME NEW j \in Active', NEW k \in Active', j # k
        PROVE  ChunkFrames(mem_chunks[j])' \cap ChunkFrames(mem_chunks[k])' = {}
    <3>1. CASE j \in Active /\ k \in Active
      BY <2>1, <3>1, <1>5 DEF ChunksApart
    <3>2. CASE j = i /\ k \in Active
      BY <3>2, <1>4, <1>5, <1>7, Members
    <3>3. CASE k = i /\ j \in Active
      BY <3>3, <1>4, <1>5, <1>7, Members
    <3> QED
      BY <2>1, <3>1, <3>2, <3>3, <1>3
  <2> QED
    BY <2>1 DEF ChunksApart
<1>11. LiveFrames' = LiveFrames /\ LiveInRegions'
  BY DEF LiveFrames, LiveInRegions
<1>12. /\ used' = (used \ RegionFrames(r)) \cup B
       /\ reserved' = reserved \ RegionFrames(r)
  BY DEF Accept, ZeroBitmap, B
<1>13. LiveIsolated'
  BY <1>6, <1>7, <1>9, <1>11, <1>12 DEF LiveIsolated
<1>14. Bitmaps \subseteq Managed
  BY BitmapsManaged
<1>15. BitmapExact'
  BY <1>6, <1>7, <1>9, <1>11, <1>12, <1>14 DEF BitmapExact
<1>16. BitmapReachable'
  BY <1>2, <1>3, <1>5 DEF BitmapReachable, ChunkOf
<1> QED
  BY <1>8, <1>10, <1>11, <1>13, <1>15, <1>16

LEMMA AddStep ==
  ASSUME IInv, NEW r \in Regions, IsNew(r), page_allocator_add_region(r), TypeOK'
  PROVE  IInv'
<1>1. CASE \E i \in Slots : IsFirst(i, Candidates(r)) /\ page_init_chunk(r, i)
  <2> PICK i \in Slots : IsFirst(i, Candidates(r)) /\ page_init_chunk(r, i)
    BY <1>1
  <2>1. i \in Candidates(r) /\ UNCHANGED <<kernel_base_va, live, result>>
    BY DEF IsFirst, page_allocator_add_region
  <2>2. mem_chunks[i] \in Chunk
    BY DEF IInv, TypeOK
  <2>3. AlignedStart(r) \in Nat /\ TotalPages(r) \in Nat
    BY GeometryType
  <2>4. Dropped(mem_chunks[i]) \in Chunk /\ Dropped(mem_chunks[i]).initialized = FALSE
    BY <2>2 DEF Dropped, Chunk
  <2>5. CASE TooSmall(r, i)
    BY <2>1, <2>4, <2>5, AddRejected DEF TooSmall
  <2>6. CASE OverImage(r, i)
    <3> DEFINE c == [Dropped(mem_chunks[i]) EXCEPT !.mem_base = AlignedStart(r)]
    <3>1. c \in Chunk /\ c.initialized = FALSE
      BY <2>3, <2>4 DEF Chunk
    <3>2. mem_chunks' = [mem_chunks EXCEPT ![i] = c] /\ UNCHANGED <<used, reserved>>
      BY <2>6 DEF OverImage
    <3> HIDE DEF c
    <3> QED
      BY <2>1, <3>1, <3>2, AddRejected
  <2>7. CASE Unusable(r, i)
    <3>1. ChunkOf(r, FALSE) \in Chunk /\ ChunkOf(r, FALSE).initialized = FALSE
      BY <2>3 DEF ChunkOf, Chunk, IInv, TypeOK
    <3>2. mem_chunks' = [mem_chunks EXCEPT ![i] = ChunkOf(r, FALSE)] /\ ZeroBitmap(r, {})
      BY <2>7 DEF Unusable
    <3> QED
      BY <2>1, <3>1, <3>2, AddRejected
  <2>8. CASE Accept(r, i)
    BY <2>1, <2>8, AddAccepted
  <2> QED
    BY <2>5, <2>6, <2>7, <2>8 DEF page_init_chunk
<1>2. CASE UNCHANGED <<mem_chunks, used, reserved>>
  <2>1. UNCHANGED vars
    BY <1>2 DEF page_allocator_add_region, vars
  <2> QED
    BY <2>1 DEF vars, IInv, TypeOK, ChunksAreRegions, LiveInRegions, ChunksApart, LiveIsolated,
         BitmapExact, BitmapReachable, LiveFrames, Managed, Bitmaps, Active
<1> QED
  BY <1>1, <1>2 DEF page_allocator_add_region

\* Removing a region takes its chunk away and no other: chunks do not overlap.
LEMMA RemoveStep ==
  ASSUME IInv, NEW a, page_allocator_remove_region(a), TypeOK'
  PROVE  IInv'
<1> USE DEF IInv
<1>1. LiveFrames' = LiveFrames /\ LiveInRegions' /\ UNCHANGED <<used, reserved, live, kernel_base_va>>
  BY DEF LiveFrames, LiveInRegions, page_allocator_remove_region
<1>2. Active' \subseteq Active /\ \A j \in Active' : /\ mem_chunks'[j].mem_base = mem_chunks[j].mem_base
                                                 /\ mem_chunks'[j].total_pages = mem_chunks[j].total_pages
                                                 /\ mem_chunks'[j].bitmap = mem_chunks[j].bitmap
  BY DEF page_allocator_remove_region, Active, TypeOK, Chunk
<1>3. \A j \in Active' : /\ ChunkFrames(mem_chunks[j])' = ChunkFrames(mem_chunks[j])
                         /\ BitmapFrames(mem_chunks[j])' = BitmapFrames(mem_chunks[j])
  BY <1>2 DEF ChunkFrames, BitmapFrames
<1>4. \A x : x \in Managed' <=> \E j \in Active' : x \in ChunkFrames(mem_chunks[j])
  BY <1>3 DEF Managed
<1>5. \A x : x \in Bitmaps' <=> \E j \in Active' : x \in BitmapFrames(mem_chunks[j])
  BY <1>3 DEF Bitmaps
<1>6. Managed' \subseteq Managed /\ Bitmaps' \subseteq Bitmaps
  BY <1>2, <1>4, <1>5, Members
<1>7. \A x \in Managed' : x \in Bitmaps => x \in Bitmaps'
  <2> SUFFICES ASSUME NEW x \in Managed', x \in Bitmaps PROVE x \in Bitmaps'
    OBVIOUS
  <2>1. PICK j \in Active' : x \in ChunkFrames(mem_chunks[j])
    BY <1>4
  <2>2. PICK k \in Active : x \in BitmapFrames(mem_chunks[k])
    BY Members
  <2>3. x \in ChunkFrames(mem_chunks[k])
    BY <2>2, BitmapsManaged
  <2>4. k = j
    BY <2>1, <2>3, <1>2 DEF ChunksApart
  <2> QED
    BY <2>2, <2>4, <1>5
<1>8. BitmapExact'
  BY <1>1, <1>6, <1>7 DEF BitmapExact
<1>9. LiveIsolated'
  BY <1>1, <1>6 DEF LiveIsolated
<1>10. ChunksApart' /\ ChunksAreRegions' /\ BitmapReachable'
  BY <1>1, <1>2, <1>3 DEF ChunksApart, ChunksAreRegions, BitmapReachable
<1> QED
  BY <1>1, <1>8, <1>9, <1>10

\* The switch to high addresses moves every pointer in use exactly once.
LEMMA FixupStep ==
  ASSUME IInv, fixup_page_allocator, TypeOK'
  PROVE  IInv'
<1> USE DEF IInv
<1>1. /\ Active' = Active
      /\ \A i \in Active : /\ mem_chunks'[i].mem_base = mem_chunks[i].mem_base
                           /\ mem_chunks'[i].total_pages = mem_chunks[i].total_pages
                           /\ mem_chunks'[i].bitmap = mem_chunks[i].bitmap + 1
  BY DEF fixup_page_allocator, Active, TypeOK, Chunk
<1>2. /\ Managed' = Managed /\ Bitmaps' = Bitmaps
      /\ ChunksApart' /\ ChunksAreRegions'
  BY <1>1, SameChunks
<1>3. LiveFrames' = LiveFrames /\ LiveInRegions' /\ UNCHANGED <<used, reserved, live>>
  BY DEF LiveFrames, LiveInRegions, fixup_page_allocator
<1>4. BitmapReachable'
  BY <1>1 DEF BitmapReachable, fixup_page_allocator
<1> QED
  BY <1>2, <1>3, <1>4 DEF LiveIsolated, BitmapExact

LEMMA ReserveStep ==
  ASSUME IInv, NEW a \in Reservations, MayReserve(a), reserve_page(a), TypeOK'
  PROVE  IInv'
<1> USE DEF IInv
<1>1. UNCHANGED <<mem_chunks, kernel_base_va, live>>
  BY DEF reserve_page
<1>2. /\ Active' = Active /\ Managed' = Managed /\ Bitmaps' = Bitmaps
      /\ LiveFrames' = LiveFrames
  BY <1>1 DEF Active, Managed, Bitmaps, LiveFrames
<1>3. ChunksApart' /\ ChunksAreRegions' /\ BitmapReachable' /\ LiveInRegions'
  BY <1>1, <1>2 DEF ChunksApart, ChunksAreRegions, BitmapReachable, LiveInRegions
<1>4. \/ UNCHANGED <<used, reserved>>
      \/ /\ used' = used \cup Run(a.frame, a.num)
         /\ reserved' = reserved \cup Run(a.frame, a.num)
  BY DEF reserve_page
<1>5. LiveIsolated'
  BY <1>1, <1>2, <1>4 DEF LiveIsolated, MayReserve
<1>6. BitmapExact'
  BY <1>2, <1>4 DEF BitmapExact
<1> QED
  BY <1>3, <1>5, <1>6

\* Where page_alloc finds its run.
LEMMA AllocShape ==
  ASSUME TypeOK, NEW n \in Requests, NEW i \in Slots, i \in Roomy(n),
         NEW f \in FreeRuns(mem_chunks[i], n)
  PROVE  /\ i \in Active /\ n > 0 /\ f \in Nat /\ f \in Run(f, n)
         /\ Run(f, n) \subseteq ChunkFrames(mem_chunks[i]) \ used
         /\ Run(f, n) \subseteq Managed \ used
<1>1. i \in Active /\ n > 0 /\ Run(f, n) \subseteq ChunkFrames(mem_chunks[i]) \ used
  BY DEF Roomy, FreeRuns
<1>2. f \in Nat
  BY SlotType DEF FreeRuns, ChunkFrames, Run
<1>3. f \in Run(f, n)
  BY <1>1, <1>2 DEF Run
<1> QED
  BY <1>1, <1>2, <1>3, Members

LEMMA AllocStep ==
  ASSUME IInv, NEW n \in Requests, page_alloc(n), TypeOK'
  PROVE  IInv'
<1> USE DEF IInv
<1>1. UNCHANGED <<mem_chunks, kernel_base_va, reserved>>
  BY DEF page_alloc
<1>2. Active' = Active /\ Managed' = Managed /\ Bitmaps' = Bitmaps
  BY <1>1 DEF Active, Managed, Bitmaps
<1>3. ChunksApart' /\ ChunksAreRegions' /\ BitmapReachable'
  BY <1>1, <1>2 DEF ChunksApart, ChunksAreRegions, BitmapReachable
<1>4. CASE UNCHANGED <<used, live>>
  BY <1>1, <1>2, <1>3, <1>4 DEF LiveIsolated, BitmapExact, LiveInRegions, LiveFrames
<1>5. CASE \E i \in Slots : IsFirst(i, Roomy(n)) /\ page_alloc_chunk(n, i)
  <2> PICK i \in Slots : IsFirst(i, Roomy(n)) /\ page_alloc_chunk(n, i)
    BY <1>5
  <2> PICK f \in FreeRuns(mem_chunks[i], n) :
        /\ used' = used \cup Run(f, n)
        /\ live' = live \cup {[frame |-> f, num |-> n]}
    BY DEF page_alloc_chunk
  <2> DEFINE b == [frame |-> f, num |-> n]
  <2>1. /\ i \in Active /\ n > 0
        /\ Run(f, n) \subseteq ChunkFrames(mem_chunks[i]) \ used
        /\ Run(f, n) \subseteq Managed \ used
    BY AllocShape DEF IsFirst
  <2>2. b.num = n /\ BlockFrames(b) = Run(f, n)
    BY DEF BlockFrames
  <2> HIDE DEF b
  <2>3. live' = live \cup {b}
    BY DEF b
  <2>4. LiveFrames' = LiveFrames \cup Run(f, n)
    BY <2>2, <2>3 DEF LiveFrames
  <2>5. Run(f, n) \cap (Bitmaps \cup reserved \cup LiveFrames) = {}
    BY <2>1 DEF BitmapExact
  <2>6. \A c \in live : BlockFrames(c) \subseteq LiveFrames
    BY DEF LiveFrames
  <2>7. LiveIsolated'
    BY <1>1, <1>2, <2>2, <2>3, <2>4, <2>5, <2>6 DEF LiveIsolated
  <2>8. BitmapExact'
    BY <1>1, <1>2, <2>4 DEF BitmapExact
  <2>9. PICK r \in Regions : /\ mem_chunks[i].mem_base = AlignedStart(r)
                             /\ mem_chunks[i].total_pages = TotalPages(r)
    BY <2>1 DEF ChunksAreRegions
  <2>10. BlockFrames(b) \subseteq RegionFrames(r)
    BY <2>1, <2>2, <2>9 DEF ChunkFrames, RegionFrames
  <2>11. LiveInRegions'
    BY <2>1, <2>2, <2>3, <2>10 DEF LiveInRegions
  <2> QED
    BY <1>3, <2>7, <2>8, <2>11
<1> QED
  BY <1>4, <1>5 DEF page_alloc

\* A live block is freed whole: its region is one chunk, so that nothing is cut
\* off and find_chunk_for_address finds that chunk if it is managed at all.
LEMMA FreeShape ==
  ASSUME IInv, NEW b \in live
  PROVE  /\ \A i \in Owners(b.frame) : FreedFrames(b, mem_chunks[i]) = BlockFrames(b)
         /\ Owners(b.frame) = {} => BlockFrames(b) \cap Managed = {}
<1> USE DEF IInv
<1>1. b.frame \in Nat /\ b.num \in Nat /\ b.num > 0
  BY DEF TypeOK, LiveInRegions
<1>2. b.frame \in BlockFrames(b) /\ (b.frame + b.num - 1) \in BlockFrames(b)
  BY <1>1 DEF BlockFrames, Run
<1>3. PICK r \in Regions : BlockFrames(b) \subseteq RegionFrames(r)
  BY DEF LiveInRegions
<1>4. ASSUME NEW i \in Active PROVE \E s \in Regions : ChunkFrames(mem_chunks[i]) = RegionFrames(s)
  BY DEF ChunksAreRegions, ChunkFrames, RegionFrames
<1>5. ASSUME NEW i \in Owners(b.frame) PROVE FreedFrames(b, mem_chunks[i]) = BlockFrames(b)
  <2>1. i \in Active /\ b.frame \in ChunkFrames(mem_chunks[i])
    BY DEF Owners
  <2>2. ChunkFrames(mem_chunks[i]) = RegionFrames(r)
    BY <2>1, <1>2, <1>3, <1>4, SameRegion
  <2>3. (b.frame + b.num - 1) \in ChunkFrames(mem_chunks[i])
    BY <1>2, <1>3, <2>2
  <2>4. mem_chunks[i].mem_base \in Nat /\ mem_chunks[i].total_pages \in Nat
    BY <2>1, SlotType DEF Active
  <2>5. ~(b.frame + b.num > mem_chunks[i].mem_base + mem_chunks[i].total_pages)
    BY <1>1, <2>3, <2>4 DEF ChunkFrames, Run
  <2> QED
    BY <2>5 DEF FreedFrames, BlockFrames
<1>6. ASSUME Owners(b.frame) = {}, NEW x \in BlockFrames(b), x \in Managed PROVE FALSE
  <2>1. PICK i \in Active : x \in ChunkFrames(mem_chunks[i])
    BY <1>6, Members
  <2>2. ChunkFrames(mem_chunks[i]) = RegionFrames(r)
    BY <2>1, <1>3, <1>4, <1>6, SameRegion
  <2> QED
    BY <1>2, <1>3, <1>6, <2>2 DEF Owners
<1> QED
  BY <1>5, <1>6

LEMMA FreeFrame ==
  ASSUME IInv, NEW a, page_free(a), TypeOK'
  PROVE  /\ Active' = Active /\ Managed' = Managed /\ Bitmaps' = Bitmaps
         /\ ChunksApart' /\ ChunksAreRegions' /\ BitmapReachable' /\ LiveInRegions'
<1> USE DEF IInv
<1>1. UNCHANGED <<mem_chunks, kernel_base_va>> /\ live' \subseteq live
  BY DEF page_free
<1>2. Active' = Active /\ Managed' = Managed /\ Bitmaps' = Bitmaps
  BY <1>1 DEF Active, Managed, Bitmaps
<1> QED
  BY <1>1, <1>2 DEF ChunksApart, ChunksAreRegions, BitmapReachable, LiveInRegions

LEMMA FreeLiveStep ==
  ASSUME IInv, NEW a, NEW b \in live, a.frame = b.frame, a.num = b.num, page_free(a), TypeOK'
  PROVE  IInv'
<1> USE DEF IInv
<1> DEFINE F == BlockFrames(b)
<1>1. [frame |-> a.frame, num |-> a.num] = b
  BY DEF TypeOK
<1>2. live' = live \ {b}
  BY <1>1 DEF page_free
<1>3. \A c : FreedFrames(a, c) = FreedFrames(b, c)
  BY DEF FreedFrames
<1>4. \/ used' = used \ F /\ reserved' = reserved \ F
      \/ F \cap Managed = {} /\ UNCHANGED <<used, reserved>>
  BY <1>3, FreeShape DEF page_free, IsFirst
<1>5. F \subseteq LiveFrames
  BY DEF LiveFrames
<1>6. LiveFrames' = LiveFrames \ F
  <2>1. \A c \in live : c # b => BlockFrames(c) \cap F = {}
    BY DEF LiveIsolated
  <2> QED
    BY <1>2, <2>1 DEF LiveFrames
<1> HIDE DEF F
<1>7. F \cap (Bitmaps \cup reserved) = {}
  BY <1>5 DEF LiveIsolated
<1>8. reserved' = reserved
  BY <1>4, <1>7
<1>9. LiveIsolated'
  BY <1>2, <1>6, <1>8, FreeFrame DEF LiveIsolated
<1>10. BitmapExact'
  BY <1>4, <1>6, <1>7, <1>8, FreeFrame DEF BitmapExact
<1> QED
  BY <1>9, <1>10, FreeFrame

LEMMA FreeReservedStep ==
  ASSUME IInv, NEW a, [frame |-> a.frame, num |-> a.num] \notin live,
         MayRelease(a), page_free(a), TypeOK'
  PROVE  IInv'
<1> USE DEF IInv
<1>1. live' = live /\ LiveFrames' = LiveFrames
  BY DEF page_free, LiveFrames
<1>2. CASE UNCHANGED <<used, reserved>>
  BY <1>1, <1>2, FreeFrame DEF LiveIsolated, BitmapExact
<1>3. CASE \E i \in Slots : /\ IsFirst(i, Owners(a.frame))
                            /\ used' = used \ FreedFrames(a, mem_chunks[i])
                            /\ reserved' = reserved \ FreedFrames(a, mem_chunks[i])
  <2> PICK i \in Slots : /\ IsFirst(i, Owners(a.frame))
                         /\ used' = used \ FreedFrames(a, mem_chunks[i])
                         /\ reserved' = reserved \ FreedFrames(a, mem_chunks[i])
    BY <1>3
  <2> DEFINE F == FreedFrames(a, mem_chunks[i])
  <2>1. F \subseteq reserved \ Bitmaps
    BY DEF MayRelease, IsFirst
  <2> HIDE DEF F
  <2>2. used' = used \ F /\ reserved' = reserved \ F
    BY DEF F
  <2>3. F \cap LiveFrames = {}
    BY <2>1 DEF LiveIsolated
  <2>4. LiveIsolated'
    BY <1>1, <2>2, FreeFrame DEF LiveIsolated
  <2>5. BitmapExact'
    BY <1>1, <2>1, <2>2, <2>3, FreeFrame DEF BitmapExact
  <2> QED
    BY <2>4, <2>5, FreeFrame
<1> QED
  BY <1>2, <1>3 DEF page_free

LEMMA InductiveStep == IInv /\ [Next]_vars => IInv'
<1> SUFFICES ASSUME IInv, [Next]_vars PROVE IInv'
  OBVIOUS
<1>0. TypeOK'
  BY TypeStep DEF IInv
<1>1. CASE AddNewRegion
  BY <1>0, <1>1, AddStep DEF AddNewRegion
<1>2. CASE RemoveRegion
  BY <1>0, <1>2, RemoveStep DEF RemoveRegion
<1>3. CASE fixup_page_allocator
  BY <1>0, <1>3, FixupStep
<1>4. CASE ReservePages
  BY <1>0, <1>4, ReserveStep DEF ReservePages
<1>5. CASE AllocPages
  BY <1>0, <1>5, AllocStep DEF AllocPages
<1>6. CASE FreeBlock
  <2> PICK b \in live : page_free([frame |-> b.frame, offset |-> 0, num |-> b.num])
    BY <1>6 DEF FreeBlock
  <2> DEFINE a == [frame |-> b.frame, offset |-> 0, num |-> b.num]
  <2>1. a.frame = b.frame /\ a.num = b.num /\ page_free(a)
    OBVIOUS
  <2> HIDE DEF a
  <2> QED
    BY <1>0, <2>1, FreeLiveStep
<1>7. CASE FreeReserved
  <2> PICK a \in Reservations : MayRelease(a) /\ page_free(a)
    BY <1>7 DEF FreeReserved
  <2>1. CASE [frame |-> a.frame, num |-> a.num] \in live
    BY <1>0, <2>1, FreeLiveStep
  <2>2. CASE [frame |-> a.frame, num |-> a.num] \notin live
    BY <1>0, <2>2, FreeReservedStep
  <2> QED
    BY <2>1, <2>2
<1>8. CASE UNCHANGED vars
  BY <1>8 DEF vars, IInv, TypeOK, ChunksAreRegions, LiveInRegions, ChunksApart, LiveIsolated,
       BitmapExact, BitmapReachable, LiveFrames, Managed, Bitmaps, Active
<1> QED
  BY <1>1, <1>2, <1>3, <1>4, <1>5, <1>6, <1>7, <1>8 DEF Next

LEMMA InductiveInit == Init => IInv
<1> SUFFICES ASSUME Init PROVE IInv
  OBVIOUS
<1>1. TypeOK
  BY DEF Init, TypeOK, Chunk
<1>2. Active = {} /\ live = {} /\ used = {}
  BY DEF Init, Active
<1> QED
  BY <1>1, <1>2 DEF IInv, ChunksAreRegions, LiveInRegions, ChunksApart, LiveIsolated,
     BitmapExact, BitmapReachable, LiveFrames, Managed, Bitmaps

\* The invariant behind the theorems below holds in every reachable state.
THEOREM Inductive == Spec => []IInv
<1> QED
  BY InductiveInit, InductiveStep, PTL DEF Spec

\* page_alloc never hands out a page that somebody holds.
THEOREM BlocksAreIsolated == Spec => []LiveIsolated
<1>1. IInv => LiveIsolated
  BY DEF IInv
<1> QED
  BY <1>1, Inductive, PTL

\* The bitmaps neither leak a page nor forget one.
THEOREM BitmapsAreExact == Spec => []BitmapExact
<1>1. IInv => BitmapExact
  BY DEF IInv
<1> QED
  BY <1>1, Inductive, PTL

\* No page is managed twice, as long as only new regions are added.
THEOREM ChunksStayApart == Spec => []ChunksApart
<1>1. IInv => ChunksApart
  BY DEF IInv
<1> QED
  BY <1>1, Inductive, PTL

\* The bitmap pointers follow the switch to high addresses.
THEOREM BitmapsStayReachable == Spec => []BitmapReachable
<1>1. IInv => BitmapReachable
  BY DEF IInv
<1> QED
  BY <1>1, Inductive, PTL

----
(* PageAllocator implements PagePool. *)

\* A region with pages has a bitmap with pages.
LEMMA BitmapNotEmpty == \A p \in Nat : p # 0 => BitmapPages(p) >= 1
<1>1. \A a \in Nat, d \in Nat \ {0} : a >= d => a \div d >= 1
  OBVIOUS
<1> TAKE p \in Nat
<1> HAVE p # 0
<1> DEFINE q == (p + ByteBits - 1) \div ByteBits
<1>2. q \in Nat /\ q >= 1
  BY <1>1, DivNat
<1> HIDE DEF q
<1>3. NumPages(q) >= 1
  BY <1>1, <1>2 DEF NumPages
<1> QED
  BY <1>3 DEF BitmapPages, q

\* A run of free frames never crosses from one chunk into the next, because
\* the next one begins with its bitmap.
LEMMA RunsStayInside ==
  ASSUME IInv, NEW i \in Active, NEW f \in ChunkFrames(mem_chunks[i]),
         NEW n \in Nat, n > 0, Run(f, n) \subseteq Managed \ used
  PROVE  Run(f, n) \subseteq ChunkFrames(mem_chunks[i])
<1> USE DEF IInv
<1> DEFINE e == mem_chunks[i].mem_base + mem_chunks[i].total_pages
<1>1. mem_chunks[i].mem_base \in Nat /\ mem_chunks[i].total_pages \in Nat
  BY SlotType DEF Active
<1>2. f \in Nat /\ mem_chunks[i].mem_base <= f /\ f < e
  BY <1>1 DEF ChunkFrames, Run
<1>3. ASSUME e \in Run(f, n) PROVE FALSE
  <2>1. PICK j \in Active : e \in ChunkFrames(mem_chunks[j])
    BY <1>3, Members
  <2>2. mem_chunks[j].mem_base \in Nat /\ mem_chunks[j].total_pages \in Nat
    BY SlotType DEF Active
  <2>3. /\ mem_chunks[j].total_pages # 0
        /\ BitmapPages(mem_chunks[j].total_pages) \in Nat
        /\ BitmapPages(mem_chunks[j].total_pages) >= 1
    BY <2>2, BitmapPagesType, BitmapNotEmpty DEF ChunksAreRegions
  <2>4. j # i
    BY <1>1, <2>1 DEF ChunkFrames, Run
  <2>5. e - 1 \in ChunkFrames(mem_chunks[i])
    BY <1>1, <1>2 DEF ChunkFrames, Run
  <2>6. e - 1 \notin ChunkFrames(mem_chunks[j])
    BY <2>4, <2>5 DEF ChunksApart
  <2>7. e = mem_chunks[j].mem_base
    BY <1>1, <2>1, <2>2, <2>6 DEF ChunkFrames, Run
  <2>8. e \in BitmapFrames(mem_chunks[j])
    BY <1>1, <2>2, <2>3, <2>7 DEF BitmapFrames, Run
  <2>9. e \in Bitmaps /\ e \in Managed
    BY <2>8, <2>1, Members
  <2> QED
    BY <1>3, <2>9 DEF BitmapExact
<1>4. f + n - 1 < e
  BY <1>1, <1>2, <1>3 DEF Run
<1> QED
  BY <1>1, <1>2, <1>4 DEF ChunkFrames, Run

\* A step that leaves live blocks and results alone is a resize of the pool.
LEMMA ResizeStep ==
  ASSUME IInv', live' = live, result' = result
  PROVE  Pool!Resize
<1>1. Managed' \cap LiveFrames' \subseteq used'
  BY DEF IInv, BitmapExact
<1>2. LiveFrames' = Pool!LiveFrames
  BY DEF LiveFrames, Pool!LiveFrames, BlockFrames, Pool!BlockFrames, Run, Pool!Run
<1> QED
  BY <1>1, <1>2 DEF Pool!Resize

LEMMA AllocRefines ==
  ASSUME IInv, NEW n \in Requests, page_alloc(n)
  PROVE  Pool!Alloc(n) \/ Pool!Refuse(n)
<1>1. Managed' = Managed
  BY DEF page_alloc, Managed, Active
<1>2. CASE \E i \in Slots : IsFirst(i, Roomy(n)) /\ page_alloc_chunk(n, i)
  <2> PICK i \in Slots : IsFirst(i, Roomy(n)) /\ page_alloc_chunk(n, i)
    BY <1>2
  <2> PICK f \in FreeRuns(mem_chunks[i], n) :
        /\ used' = used \cup Run(f, n)
        /\ live' = live \cup {[frame |-> f, num |-> n]}
        /\ result' = [num |-> n, frame |-> f]
    BY DEF page_alloc_chunk
  <2>1. n > 0 /\ f \in Run(f, n) /\ Run(f, n) \subseteq Managed \ used
    BY AllocShape DEF IsFirst, IInv
  <2>2. Run(f, n) = Pool!Run(f, n)
    BY DEF Run, Pool!Run
  <2>3. Pool!Alloc(n)
    BY <1>1, <2>1, <2>2 DEF Pool!Alloc
  <2> QED
    BY <2>3
<1>3. CASE /\ Roomy(n) = {}
           /\ result' = [num |-> n, frame |-> Null]
           /\ UNCHANGED <<used, live>>
  <2>1. ASSUME n # 0, NEW f \in Managed \ used, Run(f, n) \subseteq Managed \ used
        PROVE  FALSE
    <3>1. PICK i \in Active : f \in ChunkFrames(mem_chunks[i])
      BY Members
    <3>2. n \in Nat /\ n > 0
      BY <2>1
    <3>3. Run(f, n) \subseteq ChunkFrames(mem_chunks[i])
      BY <2>1, <3>1, <3>2, RunsStayInside
    <3>4. f \in FreeRuns(mem_chunks[i], n)
      BY <2>1, <3>1, <3>2, <3>3 DEF FreeRuns
    <3> QED
      BY <1>3, <3>1, <3>4 DEF Roomy
  <2>2. Pool!Refuse(n)
    BY <1>1, <1>3, <2>1 DEF Pool!Refuse, Run, Pool!Run
  <2> QED
    BY <2>2
<1> QED
  BY <1>2, <1>3 DEF page_alloc

LEMMA FreeRefines ==
  ASSUME IInv, NEW a, NEW b \in live, a.frame = b.frame, a.num = b.num, page_free(a)
  PROVE  Pool!Release(b)
<1>1. Managed' = Managed /\ result' = result
  BY DEF page_free, Managed, Active
<1>2. [frame |-> a.frame, num |-> a.num] = b
  BY DEF IInv, TypeOK
<1>3. live' = live \ {b}
  BY <1>2 DEF page_free
<1>4. \A c : FreedFrames(a, c) = FreedFrames(b, c)
  BY DEF FreedFrames
<1>5. \/ used' = used \ BlockFrames(b)
      \/ BlockFrames(b) \cap Managed = {} /\ used' = used
  BY <1>4, FreeShape DEF page_free, IsFirst
<1>6. BlockFrames(b) = Pool!BlockFrames(b)
  BY DEF BlockFrames, Pool!BlockFrames, Run, Pool!Run
<1> QED
  BY <1>1, <1>3, <1>5, <1>6 DEF Pool!Release

LEMMA RefinementStep == IInv /\ [Next]_vars => [Pool!PoolNext]_(Pool!poolVars)
<1> SUFFICES ASSUME IInv, [Next]_vars PROVE [Pool!PoolNext]_(Pool!poolVars)
  OBVIOUS
<1>0. IInv'
  BY InductiveStep
<1>1. CASE AddNewRegion \/ RemoveRegion \/ fixup_page_allocator \/ ReservePages
  <2>1. live' = live /\ result' = result
    BY <1>1 DEF AddNewRegion, RemoveRegion, fixup_page_allocator, ReservePages,
         page_allocator_add_region, page_allocator_remove_region, reserve_page
  <2> QED
    BY <1>0, <2>1, ResizeStep DEF Pool!PoolNext
<1>2. CASE AllocPages
  BY <1>2, AllocRefines DEF AllocPages, Pool!PoolNext
<1>3. CASE FreeBlock
  <2> PICK b \in live : page_free([frame |-> b.frame, offset |-> 0, num |-> b.num])
    BY <1>3 DEF FreeBlock
  <2> DEFINE a == [frame |-> b.frame, offset |-> 0, num |-> b.num]
  <2>1. a.frame = b.frame /\ a.num = b.num /\ page_free(a)
    OBVIOUS
  <2> HIDE DEF a
  <2>2. Pool!Release(b)
    BY <2>1, FreeRefines
  <2> QED
    BY <2>2 DEF Pool!PoolNext
<1>4. CASE FreeReserved
  <2> PICK a \in Reservations : MayRelease(a) /\ page_free(a)
    BY <1>4 DEF FreeReserved
  <2>1. CASE [frame |-> a.frame, num |-> a.num] \in live
    <3>1. Pool!Release([frame |-> a.frame, num |-> a.num])
      BY <2>1, FreeRefines
    <3> QED
      BY <2>1, <3>1 DEF Pool!PoolNext
  <2>2. CASE [frame |-> a.frame, num |-> a.num] \notin live
    <3>1. live' = live /\ result' = result
      BY <2>2 DEF page_free
    <3> QED
      BY <1>0, <3>1, ResizeStep DEF Pool!PoolNext
  <2> QED
    BY <2>1, <2>2
<1>5. CASE UNCHANGED vars
  BY <1>5 DEF vars, Pool!poolVars, Managed, Active
<1> QED
  BY <1>1, <1>2, <1>3, <1>4, <1>5 DEF Next

\* The bitmap allocator implements the abstract pool: in particular it refuses
\* a request only when no run of free pages is long enough anywhere.
THEOREM Refinement == Spec => ImplementsPool
<1>1. Init => Pool!PoolInit
  <2> SUFFICES ASSUME Init PROVE Pool!PoolInit
    OBVIOUS
  <2>1. Active = {}
    BY DEF Init, Active
  <2> QED
    BY <2>1 DEF Init, Managed, Pool!PoolInit
<1> QED
  BY <1>1, RefinementStep, Inductive, PTL DEF Spec, ImplementsPool, Pool!PoolSpec
====
