------------------------------- MODULE MCBoot -------------------------------
(***************************************************************************)
(* A machine like QEMU's virt, with 16 entries to a table: the UART and    *)
(* the interrupt controller below one level-1 border, memory above it, and *)
(* the image inside one last-level table, so that the identity map takes   *)
(* the six pages it has.                                                   *)
(***************************************************************************)
EXTENDS Boot

MCImage == 258 .. 267
MCRam == 252 .. 305

Bank(f, o, s) == [frame |-> f, offset |-> o, size |-> s]

Plain ==
  [parent |-> 1, compatible |-> <<>>, memory |-> FALSE, controller |-> FALSE,
   phandle |-> Absent, interrupt_parent |-> Absent, interrupt_cells |-> Absent,
   interrupts |-> <<>>, address_cells |-> Absent, size_cells |-> Absent, reg |-> <<>>]

\* Regions as cells, the address in two, the size in s.
Address(v) == <<v \div Cell, v % Cell>>
Reg(regions, s) ==
  FlattenSeq([i \in DOMAIN regions |->
    Address(regions[i].frame * PageSize + regions[i].offset)
      \o (IF s = 2 THEN Address(regions[i].size) ELSE <<regions[i].size>>)])

RootNode(s) == [parent |-> 0, address_cells |-> 2, size_cells |-> s] @@ Plain
Memory(reg) == [memory |-> TRUE, reg |-> reg] @@ Plain
Gic(s, reg) ==
  [controller |-> TRUE, compatible |-> <<"arm,gic-v3">>, address_cells |-> 2,
   size_cells |-> s, reg |-> reg] @@ Plain

\* A machine and the tree that describes it: one memory node for each list of
\* banks, sizes of s cells, the blob behind the image.
Machine(s, memory, gic) ==
  [banks |-> FlattenSeq(memory), gic |-> gic,
   nodes |-> <<RootNode(s), Gic(s, Reg(gic, s))>>
               \o [i \in DOMAIN memory |-> Memory(Reg(memory[i], s))],
   readable |-> TRUE, header |-> TRUE, frame |-> 268, offset |-> 0, size |-> 7]

TwoRegions == <<Bank(40, 0, 4), Bank(48, 0, 6)>>

With(memory) == Machine(2, memory, TwoRegions)

\* One bank of 20 pages.
Good == With(<<<<Bank(256, 0, 80)>>>>)

\* The same with another node at offset k.
Change(k, node) == [Good EXCEPT !.nodes[k] = node]

MCTrees == {
  Good,
  \* sizes of one cell
  Machine(1, <<<<Bank(256, 0, 80)>>>>, TwoRegions),
  \* two banks, one ending within a page, beside a node without reg and an
  \* empty region
  With(<<<<>>, <<Bank(256, 0, 70), Bank(280, 0, 0)>>, <<Bank(288, 0, 18)>>>>),
  \* more banks than slots, and than the memory map holds
  With(<<<<Bank(256, 0, 80), Bank(288, 0, 16), Bank(296, 0, 16), Bank(300, 0, 16)>>>>),
  \* memory short by one table of the kernel map
  With(<<<<Bank(256, 0, 72)>>>>),
  \* an unaligned bank; a bank of less than a page; a bitmap over the image;
  \* the image in no bank; no bank at all
  With(<<<<Bank(255, 2, 84)>>>>),
  With(<<<<Bank(256, 0, 80), Bank(288, 0, 3)>>>>),
  With(<<<<Bank(256, 0, 80), Bank(290, 1, 2)>>>>),
  With(<<<<Bank(258, 0, 72)>>>>),
  With(<<<<Bank(272, 0, 64)>>>>),
  With(<<>>),
  \* cells left over, and cell counts get_mem does not take
  Change(3, Memory(<<8, 0, 0, 80, 0>>)),
  Change(1, [Good.nodes[1] EXCEPT !.address_cells = 3]),
  \* the tree in no bank, unreadable, or with a bad header
  [Good EXCEPT !.frame = 300],
  [Good EXCEPT !.readable = FALSE],
  [Good EXCEPT !.header = FALSE],
  \* one GIC region, an empty one, an unaligned one; too many; none
  Machine(2, <<<<Bank(256, 0, 76)>>>>, <<Bank(40, 0, 4)>>),
  Machine(2, <<<<Bank(256, 0, 80)>>>>, <<Bank(40, 0, 4), Bank(48, 0, 0)>>),
  Machine(2, <<<<Bank(256, 0, 80)>>>>, <<Bank(40, 1, 4), Bank(48, 0, 4)>>),
  Machine(2, <<<<Bank(256, 0, 80)>>>>, TwoRegions \o TwoRegions),
  Machine(2, <<<<Bank(256, 0, 80)>>>>, <<>>),
  \* another controller, none, a GIC without cell counts, and with bad ones
  Change(2, [Good.nodes[2] EXCEPT !.compatible = <<"arm,cortex-a15-gic", "arm,gic-v3">>]),
  Change(2, [Good.nodes[2] EXCEPT !.compatible = <<>>]),
  Change(2, [Good.nodes[2] EXCEPT !.controller = FALSE]),
  Change(2, [Good.nodes[2] EXCEPT !.address_cells = Absent, !.size_cells = Absent]),
  Change(2, [Good.nodes[2] EXCEPT !.address_cells = 0])}

\* Core 0 at EL1; another core; EL2.
MCEntryStates == {[core |-> 0, el |-> 1], [core |-> 1, el |-> 1], [core |-> 0, el |-> 2]}

\* A tree that starts in the middle of a page and ends on a third one.
MCUnaligned == {[Good EXCEPT !.offset = 2]}

Rights(r, w, x, u) == [read |-> r, write |-> w, execute |-> x, user_accessible |-> u]

Mapping(v, p, o, perms, type) == [v |-> v, p |-> p, offset |-> o, perms |-> perms, type |-> type]

\* A user page under new tables, taken away again; a page three
\* tables away from all others; an unaligned address.
MCMappings == {
  Mapping(600, 9, 0, Rights(TRUE, FALSE, FALSE, TRUE), DEVICE),
  Mapping(600, 270, 0, Rights(FALSE, FALSE, FALSE, FALSE), NORMAL),
  Mapping(5000, 40, 0, Rights(TRUE, FALSE, TRUE, FALSE), NORMAL),
  Mapping(600, 9, 1, Rights(TRUE, TRUE, FALSE, FALSE), DEVICE)}
====
