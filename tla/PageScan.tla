------------------------------ MODULE PageScan ------------------------------
(***************************************************************************)
(* The two bitmap scans behind page_alloc, bit by bit: first               *)
(* find_chunk_with_free_pages walks the table for a chunk with a run of    *)
(* clear bits, then page_alloc_chunk walks that chunk's bitmap again to    *)
(* take the run.  Each keeps a counter of clear bits seen in a row; only   *)
(* the second keeps the start of the run.  PageAllocator treats page_alloc *)
(* as one step that takes the first run of the first chunk that has one;   *)
(* this module shows that the loops compute just that.                     *)
(***************************************************************************)
EXTENDS Integers

CONSTANTS
  MaxChunks,   \* MAX_MEM_CHUNKS
  MaxPages,    \* bound on total_pages of a chunk
  Requests,    \* values of num_pages
  Null         \* PHYS_ADDR_NULL

ASSUME ScanAssumption ==
  /\ MaxChunks \in Nat
  /\ MaxPages \in Nat
  /\ Requests \subseteq Nat
  /\ Null \notin [slot : Nat, index : Nat]

VARIABLES
  chunks,            \* the slot table when page_alloc is called
  num_pages,         \* the request
  phase,             \* "find", "alloc" or "done"
  slot,              \* the slot looked at
  i,                 \* the bit looked at
  continuous_found,  \* clear bits in a row just before bit i
  start_index,       \* where page_alloc_chunk saw that row start
  marked,            \* bits page_alloc_chunk has set
  ret                \* the answer: slot and index of the run, or Null

vars == <<chunks, num_pages, phase, slot, i, continuous_found, start_index, marked, ret>>

Slots == 0 .. (MaxChunks - 1)

\* bitmap holds the indices of the set bits.
Chunk == {c \in [initialized : BOOLEAN, total_pages : 0 .. MaxPages,
                 bitmap : SUBSET (0 .. (MaxPages - 1))] :
            c.bitmap \subseteq 0 .. (c.total_pages - 1)}

Init ==
  /\ chunks \in [Slots -> Chunk]
  /\ num_pages \in Requests
  /\ phase = "find"
  /\ slot = 0 /\ i = 0
  /\ continuous_found = 0 /\ start_index = 0
  /\ marked = {}
  /\ ret = Null

Return(v) == phase' = "done" /\ ret' = v

\* Faulty variant: the counter survives from one chunk to the next.
SkipSlotKeepsCount ==
  /\ phase = "find" /\ slot < MaxChunks
  /\ ~chunks[slot].initialized \/ i = chunks[slot].total_pages
  /\ slot' = slot + 1 /\ i' = 0
  /\ UNCHANGED <<chunks, num_pages, phase, continuous_found, start_index, marked, ret>>

\* find_chunk_with_free_pages leaves a slot that is unused or exhausted.
SkipSlot ==
  /\ phase = "find" /\ slot < MaxChunks
  /\ ~chunks[slot].initialized \/ i = chunks[slot].total_pages
  /\ slot' = slot + 1 /\ i' = 0 /\ continuous_found' = 0
  /\ UNCHANGED <<chunks, num_pages, phase, start_index, marked, ret>>

\* Faulty variant: a set bit is not stepped over.
FindBitStuck ==
  /\ phase = "find" /\ slot < MaxChunks
  /\ chunks[slot].initialized /\ i < chunks[slot].total_pages
  /\ IF i \in chunks[slot].bitmap
     THEN continuous_found' = 0 /\ UNCHANGED <<i, phase>>
     ELSE IF continuous_found + 1 = num_pages
          THEN phase' = "alloc" /\ i' = 0 /\ continuous_found' = 0
          ELSE continuous_found' = continuous_found + 1 /\ i' = i + 1 /\ phase' = phase
  /\ UNCHANGED <<chunks, num_pages, slot, start_index, marked, ret>>

\* It looks at one bit; with the last bit of a run it returns the chunk, and
\* page_alloc_chunk starts over on it.
FindBit ==
  /\ phase = "find" /\ slot < MaxChunks
  /\ chunks[slot].initialized /\ i < chunks[slot].total_pages
  /\ IF i \in chunks[slot].bitmap
     THEN continuous_found' = 0 /\ i' = i + 1 /\ phase' = phase
     ELSE IF continuous_found + 1 = num_pages
          THEN phase' = "alloc" /\ i' = 0 /\ continuous_found' = 0
          ELSE continuous_found' = continuous_found + 1 /\ i' = i + 1 /\ phase' = phase
  /\ UNCHANGED <<chunks, num_pages, slot, start_index, marked, ret>>

FindFails ==
  /\ phase = "find" /\ slot = MaxChunks
  /\ Return(Null)
  /\ UNCHANGED <<chunks, num_pages, slot, i, continuous_found, start_index, marked>>

\* Faulty variant: the start is computed from the run's end, one too low.
AllocBitOffByOne ==
  /\ phase = "alloc"
  /\ IF num_pages = 0 \/ num_pages > chunks[slot].total_pages \/ i = chunks[slot].total_pages
     THEN /\ Return(Null)
          /\ UNCHANGED <<i, continuous_found, start_index, marked>>
     ELSE /\ continuous_found' = IF i \in chunks[slot].bitmap THEN 0 ELSE continuous_found + 1
          /\ start_index' = i - continuous_found'
          /\ i' = i + 1
          /\ IF continuous_found' = num_pages
             THEN /\ marked' = start_index' .. (start_index' + num_pages - 1)
                  /\ Return([slot |-> slot, index |-> start_index'])
             ELSE UNCHANGED <<phase, ret, marked>>
  /\ UNCHANGED <<chunks, num_pages, slot>>

\* One round of page_alloc_chunk.  Its refusals (the two checks before the
\* loop, and the loop's end) are the first branch.
AllocBit ==
  /\ phase = "alloc"
  /\ IF num_pages = 0 \/ num_pages > chunks[slot].total_pages \/ i = chunks[slot].total_pages
     THEN /\ Return(Null)
          /\ UNCHANGED <<i, continuous_found, start_index, marked>>
     ELSE /\ start_index' = IF i \notin chunks[slot].bitmap /\ continuous_found = 0
                            THEN i ELSE start_index
          /\ continuous_found' = IF i \in chunks[slot].bitmap THEN 0 ELSE continuous_found + 1
          /\ i' = i + 1
          /\ IF continuous_found' = num_pages
             THEN /\ marked' = start_index' .. (start_index' + num_pages - 1)
                  /\ Return([slot |-> slot, index |-> start_index'])
             ELSE UNCHANGED <<phase, ret, marked>>
  /\ UNCHANGED <<chunks, num_pages, slot>>

Next == SkipSlot \/ FindBit \/ FindFails \/ AllocBit

Spec == Init /\ [][Next]_vars /\ WF_vars(Next)

----
\* The reference: where a run of n clear bits starts in chunk c.
FreeRuns(c, n) ==
  {s \in 0 .. (c.total_pages - 1) :
     /\ n > 0
     /\ s + n <= c.total_pages
     /\ \A b \in s .. (s + n - 1) : b \notin c.bitmap}

Roomy == {k \in Slots : chunks[k].initialized /\ FreeRuns(chunks[k], num_pages) # {}}

\* The scans stay in the bitmap of the chunk they look at: neither index nor
\* counter passes its last bit, and only its bits are set and answered.
InBitmap ==
  IF slot \in Slots
  THEN /\ i <= chunks[slot].total_pages /\ continuous_found <= i
       /\ marked \subseteq 0 .. (chunks[slot].total_pages - 1)
       /\ ret # Null => ret.slot = slot /\ ret.index < chunks[slot].total_pages
  ELSE i = 0 /\ continuous_found = 0 /\ marked = {} /\ ret = Null

TypeOK ==
  /\ chunks \in [Slots -> Chunk]
  /\ num_pages \in Requests
  /\ phase \in {"find", "alloc", "done"}
  /\ slot \in 0 .. MaxChunks
  /\ i \in Nat /\ continuous_found \in Nat /\ start_index \in Nat
  /\ ret \in [slot : Slots, index : Nat] \cup {Null}
  /\ InBitmap

\* page_alloc answers with the first run of the first chunk that has one, and
\* marks exactly that run; it answers NULL only when no chunk has a run.  In
\* particular the second scan never misses the run the first one saw.
FirstFit ==
  phase = "done" =>
    \/ /\ ret = Null /\ marked = {}
       /\ Roomy = {}
    \/ /\ ret # Null
       /\ ret.slot \in Roomy /\ \A k \in Roomy : ret.slot <= k
       /\ ret.index \in FreeRuns(chunks[ret.slot], num_pages)
       /\ \A s \in FreeRuns(chunks[ret.slot], num_pages) : ret.index <= s
       /\ marked = ret.index .. (ret.index + num_pages - 1)

\* The scans end.
Terminates == <>(phase = "done")

----
(* The loop invariant. *)

\* Before bit j of chunk c: the last f bits are clear and the one before them
\* is set, they are fewer than asked for, and no run ends here or earlier.
ScanInv(c, j, f) ==
  /\ 0 <= f /\ f <= j /\ j <= c.total_pages
  /\ \A b \in (j - f) .. (j - 1) : b \notin c.bitmap
  /\ f < j => (j - f - 1) \in c.bitmap
  /\ num_pages = 0 \/ f < num_pages
  /\ \A s \in FreeRuns(c, num_pages) : s + num_pages > j

LoopInv ==
  /\ phase = "find" =>
       /\ ret = Null /\ marked = {}
       /\ \A k \in Roomy : k >= slot
       /\ slot < MaxChunks => ScanInv(chunks[slot], i, continuous_found)
  /\ phase = "alloc" =>
       /\ ret = Null /\ marked = {}
       /\ slot \in Roomy /\ \A k \in Roomy : k >= slot
       /\ ScanInv(chunks[slot], i, continuous_found)
       /\ continuous_found > 0 => start_index = i - continuous_found

ScanIInv == TypeOK /\ LoopInv /\ FirstFit
====
