--------------------------- MODULE PageScanProofs ---------------------------
(***************************************************************************)
(* The loops of page_alloc find the first fit, for every table, every      *)
(* bitmap and every request.  The argument is the loop invariant ScanInv,  *)
(* which both loops keep.                                                  *)
(***************************************************************************)
EXTENDS PageScan, TLAPS

USE ScanAssumption

LEMMA RunWithin ==
  ASSUME NEW a \in Nat, NEW n \in Nat, NEW t \in Nat, a + n <= t
  PROVE  a .. (a + n - 1) \subseteq 0 .. (t - 1)
  OBVIOUS

\* The invariant holds when a scan starts.
LEMMA ScanStart ==
  ASSUME NEW c \in Chunk, num_pages \in Nat
  PROVE  ScanInv(c, 0, 0)
  BY DEF ScanInv, Chunk, FreeRuns

\* A set bit ends the row of clear bits.
LEMMA ScanSet ==
  ASSUME NEW c \in Chunk, NEW j \in Nat, NEW f \in Nat, num_pages \in Nat,
         ScanInv(c, j, f), j < c.total_pages, j \in c.bitmap
  PROVE  ScanInv(c, j + 1, 0)
<1>1. c.total_pages \in Nat
  BY DEF Chunk
<1>2. ASSUME NEW s \in FreeRuns(c, num_pages) PROVE s + num_pages > j + 1
  <2>1. s \in Nat /\ s + num_pages > j /\ \A b \in s .. (s + num_pages - 1) : b \notin c.bitmap
    BY <1>1 DEF FreeRuns, ScanInv
  <2>2. s \in FreeRuns(c, num_pages) /\ num_pages > 0
    BY DEF FreeRuns
  <2>3. ~(j \in s .. (s + num_pages - 1))
    BY <2>1
  <2>4. s <= j => j \in s .. (s + num_pages - 1)
    BY <2>1
  <2> QED
    BY <2>1, <2>2, <2>3, <2>4
<1> QED
  BY <1>1, <1>2 DEF ScanInv

\* A clear bit that does not complete the run extends the row: a run that
\* ended with it would have to contain the set bit before the row.
LEMMA ScanClear ==
  ASSUME NEW c \in Chunk, NEW j \in Nat, NEW f \in Nat, num_pages \in Nat,
         ScanInv(c, j, f), j < c.total_pages, j \notin c.bitmap, f + 1 # num_pages
  PROVE  ScanInv(c, j + 1, f + 1)
<1>1. c.total_pages \in Nat /\ f <= j
  BY DEF Chunk, ScanInv
<1>2. num_pages = 0 \/ f + 1 < num_pages
  BY DEF ScanInv
<1>3. ASSUME NEW s \in FreeRuns(c, num_pages) PROVE s + num_pages > j + 1
  <2>1. /\ s \in Nat /\ num_pages > 0 /\ s + num_pages > j
        /\ \A b \in s .. (s + num_pages - 1) : b \notin c.bitmap
    BY DEF FreeRuns, ScanInv
  <2>2. CASE f < j
    <3>1. (j - f - 1) \in c.bitmap
      BY <2>2 DEF ScanInv
    <3>2. ~((j - f - 1) \in s .. (s + num_pages - 1))
      BY <2>1, <3>1
    <3> QED
      BY <1>1, <1>2, <2>1, <2>2, <3>2
  <2>3. CASE f = j
    BY <1>2, <2>1, <2>3
  <2> QED
    BY <1>1, <2>2, <2>3
<1>4. \A b \in (j + 1 - (f + 1)) .. (j + 1 - 1) : b \notin c.bitmap
  <2>1. \A b \in (j - f) .. (j - 1) : b \notin c.bitmap
    BY DEF ScanInv
  <2> QED
    BY <1>1, <2>1
<1>5. f + 1 < j + 1 => (j + 1 - (f + 1) - 1) \in c.bitmap
  <2>1. f < j => (j - f - 1) \in c.bitmap
    BY DEF ScanInv
  <2>2. j + 1 - (f + 1) - 1 = j - f - 1
    OBVIOUS
  <2> QED
    BY <2>1, <2>2
<1> QED
  BY <1>1, <1>2, <1>3, <1>4, <1>5 DEF ScanInv

\* A clear bit that completes the run: the row is the first run of the chunk.
LEMMA ScanFound ==
  ASSUME NEW c \in Chunk, NEW j \in Nat, NEW f \in Nat, num_pages \in Nat,
         ScanInv(c, j, f), j < c.total_pages, j \notin c.bitmap, f + 1 = num_pages
  PROVE  /\ (j - f) \in FreeRuns(c, num_pages)
         /\ \A s \in FreeRuns(c, num_pages) : j - f <= s
<1>1. c.total_pages \in Nat /\ f <= j
  BY DEF Chunk, ScanInv
<1>2. \A b \in (j - f) .. (j - f + num_pages - 1) : b \notin c.bitmap
  <2>1. \A b \in (j - f) .. (j - 1) : b \notin c.bitmap
    BY DEF ScanInv
  <2> QED
    BY <1>1, <2>1
<1>3. (j - f) \in FreeRuns(c, num_pages)
  BY <1>1, <1>2 DEF FreeRuns
<1>4. \A s \in FreeRuns(c, num_pages) : s \in Int /\ s + num_pages > j
  BY <1>1 DEF ScanInv, FreeRuns
<1> QED
  BY <1>1, <1>3, <1>4

\* A scan that reaches the end of the chunk has seen all of it.
LEMMA ScanEnd ==
  ASSUME NEW c \in Chunk, NEW f \in Nat, num_pages \in Nat, ScanInv(c, c.total_pages, f)
  PROVE  FreeRuns(c, num_pages) = {}
<1>1. c.total_pages \in Nat
  BY DEF Chunk
<1> QED
  BY <1>1 DEF ScanInv, FreeRuns

\* The slots the answer is chosen from do not change.
LEMMA RoomyStays ==
  ASSUME UNCHANGED <<chunks, num_pages>>
  PROVE  Roomy' = Roomy
  BY DEF Roomy, FreeRuns

\* A scan that has set nothing is in the bitmap as long as its invariant holds.
LEMMA ScanInBitmap ==
  ASSUME marked = {}, ret = Null, slot \in Slots => ScanInv(chunks[slot], i, continuous_found),
         slot \notin Slots => i = 0 /\ continuous_found = 0
  PROVE  InBitmap
  BY DEF InBitmap, ScanInv

LEMMA InitScan == Init => ScanIInv
<1> SUFFICES ASSUME Init PROVE ScanIInv
  OBVIOUS
<1>2. FirstFit
  BY DEF Init, FirstFit
<1>3. 0 < MaxChunks => ScanInv(chunks[0], 0, 0)
  <2> SUFFICES ASSUME 0 < MaxChunks PROVE ScanInv(chunks[0], 0, 0)
    OBVIOUS
  <2>1. chunks[0] \in Chunk /\ num_pages \in Nat
    BY DEF Init, Slots
  <2> QED
    BY <2>1, ScanStart
<1>4. LoopInv
  BY <1>3 DEF Init, LoopInv, Roomy, Slots
<1>5. InBitmap
  BY <1>3, ScanInBitmap DEF Init, Slots
<1>1. TypeOK
  BY <1>5 DEF Init, TypeOK
<1> QED
  BY <1>1, <1>2, <1>4 DEF ScanIInv

\* Every step of the loops keeps the invariant.
LEMMA ScanStep == ScanIInv /\ [Next]_vars => ScanIInv'
<1> SUFFICES ASSUME ScanIInv, [Next]_vars PROVE ScanIInv'
  OBVIOUS
<1>0. TypeOK /\ LoopInv /\ FirstFit
  BY DEF ScanIInv
<1>t. /\ num_pages \in Nat /\ i \in Nat /\ continuous_found \in Nat /\ slot \in Nat
      /\ \A k \in Slots : chunks[k] \in Chunk
  <2>1. num_pages \in Nat /\ i \in Nat /\ continuous_found \in Nat /\ slot \in Nat
    BY <1>0 DEF TypeOK
  <2>2. \A k \in Slots : chunks[k] \in Chunk
    BY <1>0 DEF TypeOK
  <2> QED
    BY <2>1, <2>2
<1>c. \A c \in Chunk : c.total_pages \in Nat
  BY DEF Chunk
<1>1. CASE SkipSlot
  <2>0. slot \in Slots /\ phase' = "find" /\ phase = "find"
    BY <1>0, <1>t, <1>1 DEF SkipSlot, Slots, TypeOK
  <2>2. Roomy' = Roomy
    BY <1>1, RoomyStays DEF SkipSlot
  <2>3. ScanInv(chunks[slot], i, continuous_found)
    BY <1>0, <2>0 DEF LoopInv, Slots
  <2>4. slot \notin Roomy
    <3>1. CASE ~chunks[slot].initialized
      BY <3>1 DEF Roomy
    <3>2. CASE i = chunks[slot].total_pages
      BY <1>t, <2>0, <2>3, <3>2, ScanEnd DEF Roomy
    <3> QED
      BY <1>1, <3>1, <3>2 DEF SkipSlot
  <2>5. \A k \in Roomy : k >= slot + 1
    BY <1>0, <1>t, <2>0, <2>4 DEF LoopInv, Roomy, Slots
  <2>6. slot + 1 < MaxChunks => ScanInv(chunks[slot + 1], 0, 0)
    <3>1. slot + 1 < MaxChunks => slot + 1 \in Slots
      BY <1>t DEF Slots
    <3> QED
      BY <1>t, <3>1, ScanStart
  <2>7. /\ slot' = slot + 1 /\ i' = 0 /\ continuous_found' = 0
        /\ UNCHANGED <<chunks, num_pages, ret, marked>>
    BY <1>1 DEF SkipSlot
  <2>8. slot' < MaxChunks => ScanInv(chunks[slot], i, continuous_found)'
    BY <2>6, <2>7 DEF ScanInv, FreeRuns
  <2>9. LoopInv'
    BY <1>0, <2>0, <2>2, <2>5, <2>7, <2>8 DEF LoopInv
  <2>10. InBitmap'
    <3>1. marked' = {} /\ ret' = Null
      BY <1>0, <2>0, <2>7 DEF LoopInv
    <3>2. Slots' = Slots /\ (slot' \in Slots => ScanInv(chunks[slot], i, continuous_found)')
      BY <2>8 DEF Slots
    <3> QED
      BY <2>7, <3>1, <3>2 DEF InBitmap, ScanInv
  <2>1. TypeOK'
    BY <1>0, <1>1, <2>10 DEF SkipSlot, TypeOK
  <2> QED
    BY <2>0, <2>1, <2>9 DEF ScanIInv, FirstFit
<1>2. CASE FindBit
  <2>0. slot \in Slots /\ phase = "find" /\ i < chunks[slot].total_pages
    BY <1>0, <1>t, <1>2 DEF FindBit, Slots, TypeOK
  <2>1. InBitmap' => TypeOK'
    BY <1>0, <1>2 DEF FindBit, TypeOK
  <2>b. ret = Null /\ marked = {}
    BY <1>0, <2>0 DEF LoopInv
  <2>2. Roomy' = Roomy
    BY <1>2, RoomyStays DEF FindBit
  <2>3. ScanInv(chunks[slot], i, continuous_found)
    BY <1>0, <2>0 DEF LoopInv, Slots
  <2>4. UNCHANGED <<chunks, num_pages, slot, ret, marked>>
    BY <1>2 DEF FindBit
  <2>5. CASE i \in chunks[slot].bitmap
    <3>1. ScanInv(chunks[slot], i + 1, 0)
      BY <1>t, <2>0, <2>3, <2>5, ScanSet
    <3>2. continuous_found' = 0 /\ i' = i + 1 /\ phase' = "find"
      BY <1>2, <2>5 DEF FindBit
    <3>3. ScanInv(chunks[slot], i, continuous_found)'
      BY <2>4, <3>1, <3>2 DEF ScanInv, FreeRuns
    <3>4. InBitmap'
      BY <2>0, <2>4, <2>b, <3>3 DEF InBitmap, ScanInv, Slots
    <3> QED
      BY <1>0, <2>0, <2>1, <2>2, <2>4, <3>2, <3>3, <3>4 DEF ScanIInv, LoopInv, FirstFit
  <2>6. CASE i \notin chunks[slot].bitmap /\ continuous_found + 1 # num_pages
    <3>1. ScanInv(chunks[slot], i + 1, continuous_found + 1)
      BY <1>t, <2>0, <2>3, <2>6, ScanClear
    <3>2. continuous_found' = continuous_found + 1 /\ i' = i + 1 /\ phase' = "find"
      BY <1>2, <2>0, <2>6 DEF FindBit
    <3>3. ScanInv(chunks[slot], i, continuous_found)'
      BY <2>4, <3>1, <3>2 DEF ScanInv, FreeRuns
    <3>4. InBitmap'
      BY <2>0, <2>4, <2>b, <3>3 DEF InBitmap, ScanInv, Slots
    <3> QED
      BY <1>0, <2>0, <2>1, <2>2, <2>4, <3>2, <3>3, <3>4 DEF ScanIInv, LoopInv, FirstFit
  <2>7. CASE i \notin chunks[slot].bitmap /\ continuous_found + 1 = num_pages
    <3>1. FreeRuns(chunks[slot], num_pages) # {}
      BY <1>t, <2>0, <2>3, <2>7, ScanFound
    <3>2. slot \in Roomy
      BY <1>2, <2>0, <3>1 DEF Roomy, FindBit
    <3>3. continuous_found' = 0 /\ i' = 0 /\ phase' = "alloc"
      BY <1>2, <2>7 DEF FindBit
    <3>4. ScanInv(chunks[slot], 0, 0)
      BY <1>t, <2>0, ScanStart
    <3>5. ScanInv(chunks[slot], i, continuous_found)'
      BY <2>4, <3>3, <3>4 DEF ScanInv, FreeRuns
    <3>6. InBitmap'
      BY <2>0, <2>4, <2>b, <3>5 DEF InBitmap, ScanInv, Slots
    <3> QED
      BY <1>0, <2>0, <2>1, <2>2, <2>4, <3>2, <3>3, <3>5, <3>6 DEF ScanIInv, LoopInv, FirstFit
  <2> QED
    BY <2>5, <2>6, <2>7
<1>3. CASE FindFails
  <2>0. phase = "find" /\ slot = MaxChunks /\ phase' = "done" /\ ret' = Null /\ marked' = marked
    BY <1>3 DEF FindFails, Return
  <2>1. TypeOK'
    <3>1. slot \notin Slots
      BY <2>0 DEF Slots
    <3>2. InBitmap'
      BY <1>0, <1>3, <2>0, <3>1 DEF FindFails, TypeOK, InBitmap, Slots
    <3> QED
      BY <1>0, <1>3, <3>2 DEF FindFails, Return, TypeOK
  <2>2. Roomy' = Roomy
    BY <1>3, RoomyStays DEF FindFails
  <2>3. Roomy = {} /\ marked = {}
    BY <1>0, <2>0 DEF LoopInv, Roomy, Slots
  <2> QED
    BY <2>0, <2>1, <2>2, <2>3 DEF ScanIInv, LoopInv, FirstFit
<1>4. CASE AllocBit
  <2>0. /\ slot \in Roomy /\ \A k \in Roomy : k >= slot
        /\ ret = Null /\ marked = {} /\ phase = "alloc"
        /\ ScanInv(chunks[slot], i, continuous_found)
        /\ continuous_found > 0 => start_index = i - continuous_found
    BY <1>0, <1>4 DEF AllocBit, LoopInv
  <2>1. /\ slot \in Slots /\ FreeRuns(chunks[slot], num_pages) # {}
        /\ chunks[slot] \in Chunk /\ chunks[slot].total_pages \in Nat
    BY <1>t, <1>c, <2>0 DEF Roomy
  <2>2. Roomy' = Roomy /\ UNCHANGED <<chunks, num_pages, slot>>
    BY <1>4, RoomyStays DEF AllocBit
  <2>3. num_pages # 0 /\ num_pages <= chunks[slot].total_pages /\ i # chunks[slot].total_pages
    <3>1. i # chunks[slot].total_pages
      BY <1>t, <2>0, <2>1, ScanEnd
    <3>2. num_pages # 0 /\ num_pages <= chunks[slot].total_pages
      BY <1>t, <2>1 DEF FreeRuns
    <3> QED
      BY <3>1, <3>2
  <2>a. /\ start_index' = IF i \notin chunks[slot].bitmap /\ continuous_found = 0
                          THEN i ELSE start_index
        /\ continuous_found' = IF i \in chunks[slot].bitmap THEN 0 ELSE continuous_found + 1
        /\ i' = i + 1
        /\ IF continuous_found' = num_pages
           THEN /\ marked' = start_index' .. (start_index' + num_pages - 1)
                /\ Return([slot |-> slot, index |-> start_index'])
           ELSE UNCHANGED <<phase, ret, marked>>
    <3>1. ~(num_pages = 0 \/ num_pages > chunks[slot].total_pages \/ i = chunks[slot].total_pages)
      BY <1>t, <2>1, <2>3
    <3> QED
      BY <1>4, <3>1 DEF AllocBit
  <2>4. i < chunks[slot].total_pages /\ continuous_found <= i
    BY <1>t, <2>0, <2>1, <2>3 DEF ScanInv
  <2>5. CASE i \in chunks[slot].bitmap
    <3>1. ScanInv(chunks[slot], i + 1, 0)
      BY <1>t, <2>0, <2>1, <2>4, <2>5, ScanSet
    <3>2. /\ continuous_found' = 0 /\ i' = i + 1 /\ start_index' = start_index
          /\ UNCHANGED <<phase, ret, marked>>
      BY <1>t, <2>3, <2>5, <2>a
    <3>3. ScanInv(chunks[slot], i, continuous_found)'
      BY <2>2, <3>1, <3>2 DEF ScanInv, FreeRuns
    <3>4. TypeOK'
      <4>1. InBitmap'
        BY <2>0, <2>1, <2>2, <3>2, <3>3 DEF InBitmap, ScanInv, Slots
      <4> QED
        BY <1>0, <2>2, <3>2, <4>1 DEF TypeOK
    <3> QED
      BY <2>0, <2>2, <3>2, <3>3, <3>4 DEF ScanIInv, LoopInv, FirstFit
  <2>6. CASE i \notin chunks[slot].bitmap
    <3>1. continuous_found' = continuous_found + 1 /\ i' = i + 1
      BY <2>a, <2>6
    <3>2. start_index' = i - continuous_found
      <4>1. CASE continuous_found = 0
        <5>1. start_index' = i
          BY <2>a, <2>6, <4>1
        <5> QED
          BY <1>t, <4>1, <5>1
      <4>2. CASE continuous_found # 0
        <5>1. start_index' = start_index
          BY <2>a, <4>2
        <5>2. continuous_found > 0
          BY <1>t, <4>2
        <5> QED
          BY <2>0, <5>1, <5>2
      <4> QED
        BY <4>1, <4>2
    <3>3. CASE continuous_found + 1 # num_pages
      <4>1. UNCHANGED <<phase, ret, marked>>
        BY <2>a, <3>1, <3>3
      <4>2. ScanInv(chunks[slot], i + 1, continuous_found + 1)
        BY <1>t, <2>0, <2>1, <2>4, <2>6, <3>3, ScanClear
      <4>3. ScanInv(chunks[slot], i, continuous_found)'
        BY <2>2, <3>1, <4>2 DEF ScanInv, FreeRuns
      <4>4. TypeOK'
        <5>1. InBitmap'
          BY <2>0, <2>1, <2>2, <4>1, <4>3 DEF InBitmap, ScanInv, Slots
        <5> QED
          BY <1>0, <1>t, <2>2, <2>4, <3>1, <3>2, <4>1, <5>1 DEF TypeOK
      <4>5. start_index' = i' - continuous_found'
        BY <1>t, <3>1, <3>2
      <4> QED
        BY <2>0, <2>2, <4>1, <4>3, <4>4, <4>5 DEF ScanIInv, LoopInv, FirstFit
    <3>4. CASE continuous_found + 1 = num_pages
      <4>1. /\ phase' = "done" /\ ret' = [slot |-> slot, index |-> start_index']
            /\ marked' = start_index' .. (start_index' + num_pages - 1)
        BY <2>a, <3>1, <3>4 DEF Return
      <4>2. /\ start_index' \in FreeRuns(chunks[slot], num_pages)
            /\ \A s \in FreeRuns(chunks[slot], num_pages) : start_index' <= s
        BY <1>t, <2>0, <2>1, <2>4, <2>6, <3>2, <3>4, ScanFound
      <4>3. start_index' \in Nat
        BY <1>t, <2>4, <3>2
      <4>4. TypeOK'
        <5>1. InBitmap'
          <6>1. start_index' + num_pages <= chunks[slot].total_pages /\ start_index' < chunks[slot].total_pages
            BY <1>t, <2>1, <4>2, <4>3 DEF FreeRuns
          <6>2. marked' \subseteq 0 .. (chunks[slot].total_pages - 1)
            BY <1>t, <2>1, <4>1, <4>3, <6>1, RunWithin
          <6>3. ret'.slot = slot' /\ ret'.index < chunks'[slot'].total_pages
            BY <2>2, <4>1, <6>1
          <6>4. i' <= chunks'[slot'].total_pages /\ continuous_found' <= i'
            BY <1>t, <2>1, <2>2, <2>4, <3>1
          <6> QED
            BY <2>1, <2>2, <6>2, <6>3, <6>4 DEF InBitmap, Slots
        <5>2. ret' \in [slot : Slots, index : Nat]
          BY <2>1, <4>1, <4>3
        <5>3. /\ chunks' \in [Slots -> Chunk] /\ num_pages' \in Requests /\ slot' \in 0 .. MaxChunks
              /\ phase' \in {"find", "alloc", "done"}
          BY <1>0, <2>2, <4>1 DEF TypeOK
        <5>4. i' \in Nat /\ continuous_found' \in Nat
          BY <1>t, <3>1
        <5> QED
          BY <4>3, <5>1, <5>2, <5>3, <5>4 DEF TypeOK
      <4>5. ret' # Null
        BY <1>t, <4>1, <4>3
      <4>6. FreeRuns(chunks[slot], num_pages)' = FreeRuns(chunks[slot], num_pages)
        BY <2>2 DEF FreeRuns
      <4>7. ret.slot' = slot /\ ret.index' = start_index'
        BY <4>1
      <4>8. FirstFit'
        BY <2>0, <2>2, <4>1, <4>2, <4>5, <4>6, <4>7 DEF FirstFit, FreeRuns
      <4> QED
        BY <4>1, <4>4, <4>8 DEF ScanIInv, LoopInv
    <3> QED
      BY <3>3, <3>4
  <2> QED
    BY <2>5, <2>6
<1>5. CASE UNCHANGED vars
  BY <1>0, <1>5 DEF vars, ScanIInv, TypeOK, InBitmap, LoopInv, FirstFit, ScanInv, FreeRuns, Roomy
<1> QED
  BY <1>1, <1>2, <1>3, <1>4, <1>5 DEF Next

\* The loop invariant holds throughout page_alloc's two scans.
THEOREM ScanInductive == Spec => []ScanIInv
<1> QED
  BY InitScan, ScanStep, PTL DEF Spec

\* Whatever the table, the bitmaps and the request, page_alloc returns the
\* first run of the first chunk that has one, marks exactly its bits, and
\* fails only when there is none.
THEOREM PageAllocIsFirstFit == Spec => []FirstFit
<1>1. ScanIInv => FirstFit
  BY DEF ScanIInv
<1> QED
  BY <1>1, ScanInductive, PTL

\* Neither scan leaves the bitmap of the chunk it is in, whatever the table and
\* the request: the index and the counter stay within the chunk's bits, and
\* page_alloc_chunk sets, and answers with, bits of that chunk only.
THEOREM ScanTypeCorrect == Spec => []TypeOK
<1>1. ScanIInv => TypeOK
  BY DEF ScanIInv
<1> QED
  BY <1>1, ScanInductive, PTL
====
