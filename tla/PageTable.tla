----------------------------- MODULE PageTable -----------------------------
(***************************************************************************)
(* The four-level translation tables: kernel/page_table/page_table.c.      *)
(*                                                                         *)
(* Tables live in page frames taken from the page allocator one by one.    *)
(* map_page walks down, linking a new table wherever one is missing, and   *)
(* writes the leaf; each call of get_next_level_table is one step here,    *)
(* since each may call page_alloc.                                         *)
(*                                                                         *)
(* Memory.  pages[f] is what page frame f holds: the entries of a table    *)
(* (a function on the slots that are not zero), or one of Code, Blob, Bits *)
(* and Junk.  Virtual addresses are page numbers: TTBR0 and TTBR1 both     *)
(* translate 48 bits, so that KERNEL_BASE + f is page f of the high map.   *)
(*                                                                         *)
(* asked is a history variable: the translations map_page was asked for    *)
(* and said it had made.                                                   *)
(***************************************************************************)
EXTENDS Integers

CONSTANTS
  MaxChunks, PageSize, ByteBits, Image, Null, \* as in PageAllocator
  PtrsPerTable,  \* PTRS_PER_TABLE
  Ram,           \* the page frames of the machine
  Code,          \* a page of the kernel image that is no page table
  Blob,          \* a page of the device tree
  Bits,          \* a page of a bitmap of the page allocator
  Junk           \* a page with arbitrary contents

VARIABLES
  mem_chunks, used, kernel_base_va, live, reserved, result, \* PageAllocator
  pages,         \* what each page frame holds
  call,          \* the map_page under way, or Null
  ok,            \* what the last map_page returned
  asked          \* the translations asked for

allocVars == <<mem_chunks, used, kernel_base_va, live, reserved, result>>
tableVars == <<pages, call, ok, asked>>

Pages == INSTANCE PageAllocator WITH Regions <- {}, Reservations <- {}, Requests <- {}

----
(* Descriptors. *)

\* mem_type_t: the index of the attribute in MAIR_EL1
DEVICE == 0
NORMAL == 1

\* page_permissions_t
Permissions == [read : BOOLEAN, write : BOOLEAN, execute : BOOLEAN, user_accessible : BOOLEAN]

Slots == 0 .. (PtrsPerTable - 1)

\* page_table_entry_t.  ap is APTable in a table descriptor and AP[2:1] in a
\* page descriptor; xn stands for UXN and PXN, which are always set together.
\* Shareability follows from attr, and the access flag is always set.
Entry == [valid : BOOLEAN, frame : Int, ap : 0 .. 3, xn : BOOLEAN, attr : {DEVICE, NORMAL}]

Zero == [valid |-> FALSE, frame |-> 0, ap |-> 0, xn |-> FALSE, attr |-> 0]

\* set_next_level_table
TableDesc(f) == [valid |-> TRUE, frame |-> f, ap |-> 0, xn |-> FALSE, attr |-> 0]

AP_PRIV_RW == 0
AP_PRIV_UNPRIV_RW == 1
AP_PRIV_RO == 2
AP_PRIV_UNPRIV_RO == 3

\* AP[2:1] of a readable page
Access(perms) ==
  CASE perms.write /\ perms.user_accessible   -> AP_PRIV_UNPRIV_RW
    [] perms.write /\ ~perms.user_accessible  -> AP_PRIV_RW
    [] ~perms.write /\ perms.user_accessible  -> AP_PRIV_UNPRIV_RO
    [] OTHER                                  -> AP_PRIV_RO

\* The leaf map_page writes; without read permission it is left invalid.
PageDesc(p, perms, type) ==
  [valid |-> perms.read,
   frame |-> p,
   ap    |-> IF perms.read THEN Access(perms) ELSE 0,
   xn    |-> ~perms.execute,
   attr  |-> type]

\* APTable: 1 takes away EL0's access, 2 all writing, 3 both.
check_table_permissions(e, perms) ==
  /\ e.valid
  /\ perms.user_accessible => e.ap \notin {1, 3}
  /\ perms.write => e.ap # 2 /\ (~perms.user_accessible => e.ap # 3)

----
(* Tables in memory. *)

ZeroPage == [i \in {} |-> Zero]

IsTable(f) == f \in Ram /\ pages[f] \notin {Code, Blob, Bits, Junk}

\* What the walk reads from a page that is no table: some valid descriptor.
Garbage == TableDesc(-1)

EntryAt(t, i) ==
  IF ~IsTable(t) THEN Garbage
  ELSE IF i \in DOMAIN pages[t] THEN pages[t][i] ELSE Zero

WriteEntry(m, t, i, e) ==
  [m EXCEPT ![t] = [j \in DOMAIN @ \cup {i} |-> IF j = i THEN e ELSE @[j]]]

\* Faulty variant: the loop starts at entry 1, and entry 0 keeps what the page
\* held before.
page_table_init_from_1(m, t) == [m EXCEPT ![t] = [i \in {0} |-> EntryAt(t, 0)]]

page_table_init(m, t) == [m EXCEPT ![t] = ZeroPage]

\* l0_idx, l1_idx, l2_idx and l3_idx of page v
Index(v, level) ==
  LET P == PtrsPerTable
      span == <<P * P * P, P * P, P, 1>>   \* the pages an entry of each level covers
  IN (v \div span[level + 1]) % P

----
(* map_page. *)

\* What a caller passes, with v and p as page numbers and their common offset.
Request(root, v, p, offset, perms, type) ==
  [root |-> root, v |-> v, p |-> p, offset |-> offset, perms |-> perms, type |-> type]

\* A call under way: the request, and how far down the walk is.
Call == [root : Int, v : Nat, p : Int, perms : Permissions, type : {DEVICE, NORMAL},
         level : 0 .. 3, table : Int]

\* The page numbers of 48-bit addresses.
VirtualPages == 0 .. (PtrsPerTable * PtrsPerTable * PtrsPerTable * PtrsPerTable - 1)

ASSUME TableAssumption ==
  /\ PtrsPerTable \in Nat \ {0}
  /\ Ram \subseteq VirtualPages
  /\ Null \notin Int /\ Null \notin Call
  /\ \A D \in SUBSET Slots : {Code, Blob, Bits, Junk} \cap [D -> Entry] = {}
  /\ Code \notin {Blob, Bits, Junk} /\ Blob \notin {Bits, Junk} /\ Bits # Junk

\* An address that is not page aligned is refused.
map_page(r) ==
  /\ call = Null
  /\ IF r.offset # 0
     THEN ok' = FALSE /\ UNCHANGED call
     ELSE /\ call' = [root |-> r.root, v |-> r.v, p |-> r.p, perms |-> r.perms, type |-> r.type,
                      level |-> 0, table |-> r.root]
          /\ UNCHANGED ok
  /\ UNCHANGED <<pages, asked>>

CallIndex == Index(call.v, call.level)
CallEntry == EntryAt(call.table, CallIndex)

Walking == call # Null /\ call.level < 3

Fail == ok' = FALSE /\ call' = Null

GoDown(t) == call' = [call EXCEPT !.level = @ + 1, !.table = t] /\ UNCHANGED ok

\* Faulty variant: page_alloc's answer is linked before it is checked.
allocate_new_table_unchecked ==
  /\ Walking /\ ~CallEntry.valid
  /\ Pages!page_alloc(1)
  /\ LET linked == WriteEntry(pages, call.table, CallIndex, TableDesc(result'.frame)) IN
     \/ result'.frame = Null /\ Fail /\ pages' = linked
     \/ result'.frame # Null /\ GoDown(result'.frame) /\ pages' = page_table_init(linked, result'.frame)
  /\ UNCHANGED asked

\* get_next_level_table, for an entry that is not valid: allocate_new_table
\* takes a page, clears it and links it.
allocate_new_table ==
  /\ Walking /\ ~CallEntry.valid
  /\ Pages!page_alloc(1)
  /\ \/ result'.frame = Null /\ Fail /\ UNCHANGED pages
     \/ /\ result'.frame # Null
        /\ pages' = WriteEntry(page_table_init(pages, result'.frame),
                               call.table, CallIndex, TableDesc(result'.frame))
        /\ GoDown(result'.frame)
  /\ UNCHANGED asked

\* get_next_level_table, for a valid entry
FollowEntry ==
  /\ Walking /\ CallEntry.valid
  /\ IF check_table_permissions(CallEntry, call.perms) THEN GoDown(CallEntry.frame) ELSE Fail
  /\ UNCHANGED <<allocVars, pages, asked>>

\* What a translation made by request r is to be.
Translation(r) ==
  [root |-> r.root, v |-> r.v, frame |-> r.p, write |-> r.perms.write,
   execute |-> r.perms.execute, user |-> r.perms.user_accessible,
   device |-> r.type = DEVICE]

\* The end of map_page: the leaf is written whatever was there.
WriteLeaf ==
  /\ call # Null /\ call.level = 3
  /\ pages' = WriteEntry(pages, call.table, CallIndex, PageDesc(call.p, call.perms, call.type))
  /\ ok' = TRUE /\ call' = Null
  /\ asked' = {t \in asked : <<t.root, t.v>> # <<call.root, call.v>>}
              \cup (IF call.perms.read THEN {Translation(call)} ELSE {})
  /\ UNCHANGED allocVars

MapPageStep == allocate_new_table \/ FollowEntry \/ WriteLeaf

----
(***************************************************************************)
(* What the hardware makes of the tables.  The walk visits every valid     *)
(* entry; APTable bits add up on the way down, AttrIndx selects a byte of  *)
(* MAIR_EL1, which enable_mmu fills so that the index is the memory type.  *)
(***************************************************************************)
ValidSlots(t) == IF IsTable(t) THEN {i \in DOMAIN pages[t] : pages[t][i].valid} ELSE {-1}

\* From the tables at one level to those at the next.  A frame that holds no
\* table has the one slot -1: garbage in every property.
Down(S) ==
  UNION {{[v     |-> s.v * PtrsPerTable + i,
           table |-> EntryAt(s.table, i).frame,
           aps   |-> s.aps \cup {EntryAt(s.table, i).ap}] : i \in ValidSlots(s.table)} : s \in S}

Root(r) == {[v |-> 0, table |-> r, aps |-> {}]}

Leaves(r) == Down(Down(Down(Root(r))))

Translations(root) ==
  UNION {{LET e == EntryAt(s.table, i) IN
          [root |-> root, v |-> s.v * PtrsPerTable + i, frame |-> e.frame,
           write   |-> e.ap \in {AP_PRIV_RW, AP_PRIV_UNPRIV_RW} /\ s.aps \cap {2, 3} = {},
           execute |-> ~e.xn,
           user    |-> e.ap \in {AP_PRIV_UNPRIV_RW, AP_PRIV_UNPRIV_RO} /\ s.aps \cap {1, 3} = {},
           device  |-> e.attr = DEVICE] : i \in ValidSlots(s.table)} : s \in Leaves(root)}

\* The frames of the tables of a map, its root included.
Tables(r) ==
  LET one == Down(Root(r)) two == Down(one)
  IN {s.table : s \in Root(r) \cup one \cup two \cup Down(two)}

----
TableTypeOK ==
  /\ DOMAIN pages = Ram
  /\ \A f \in Ram : IsTable(f) =>
       /\ DOMAIN pages[f] \subseteq Slots
       /\ \A i \in DOMAIN pages[f] : pages[f][i] \in Entry
  /\ call # Null => call.level \in 0 .. 3
  /\ ok \in BOOLEAN
====
