-------------------------------- MODULE Fdt --------------------------------
(***************************************************************************)
(* Queries of the device tree: kernel/fdt/fdt.c over libfdt.               *)
(*                                                                         *)
(* A tree is the sequence of its nodes in document order, the root first;  *)
(* the index of a node is its offset.  A property that is a list of cells  *)
(* is the sequence of their values, <<>> if it is missing, and one that is *)
(* a single cell is Absent if it is missing or has another length, which   *)
(* the code treats alike.                                                  *)
(***************************************************************************)
EXTENDS Integers, Sequences, SequencesExt

CONSTANTS
  Cell,           \* 2^32: a cell holds 0 .. Cell - 1
  MaxMemRegions   \* MAX_MEM_REGIONS

ASSUME FdtAssumption ==
  Cell \in Nat \ {0} /\ MaxMemRegions \in Nat

Absent == -1
NotFound == -1     \* a negative offset or result: fdt_is_error
MaxNCells == 4     \* FDT_MAX_NCELLS

Cells == 0 .. (Cell - 1)

Node ==
  [parent : Nat,               \* 0 for the root
   compatible : Seq(STRING),
   memory : BOOLEAN,           \* device_type = "memory"
   controller : BOOLEAN,       \* has "interrupt-controller"
   phandle : Cells \cup {Absent},
   interrupt_parent : Cells \cup {Absent},
   interrupt_cells : Cells \cup {Absent},
   interrupts : Seq(Cells),
   address_cells : Cells \cup {Absent},
   size_cells : Cells \cup {Absent},
   reg : Seq(Cells)]

----
(* libfdt *)

\* The first node of t that satisfies P.
FirstNode(t, P(_)) ==
  LET S == {n \in DOMAIN t : P(t[n])} IN IF S = {} THEN NotFound ELSE Min(S)

fdt_address_cells(node) ==
  IF node.address_cells = Absent THEN 2
  ELSE IF node.address_cells \in 1 .. MaxNCells THEN node.address_cells ELSE NotFound

fdt_size_cells(node) ==
  IF node.size_cells = Absent THEN 1
  ELSE IF node.size_cells \in 0 .. MaxNCells THEN node.size_cells ELSE NotFound

fdt_node_offset_by_phandle(t, phandle) == FirstNode(t, LAMBDA node : node.phandle = phandle)

----
(* Registers and memory *)

\* Cells shifted one by one into 64 bits.
Shifted(cells) == FoldLeft(LAMBDA acc, c : (acc * Cell + c) % (Cell * Cell), 0, cells)

\* The entries of a list of cells, each of a address and s size cells; cells
\* left over are not looked at.
Entries(reg, a, s) ==
  [i \in 1 .. (Len(reg) \div (a + s)) |->
     LET first == (i - 1) * (a + s) IN
     [base |-> Shifted(SubSeq(reg, first + 1, first + a)),
      size |-> Shifted(SubSeq(reg, first + a + 1, first + a + s))]]

AtMost(n, s) == [i \in (1 .. n) \cap DOMAIN s |-> s[i]]

\* get_mem takes one or two cells each, and no list with cells left over.
get_mem_fails(t) ==
  LET a == fdt_address_cells(t[1])
      s == fdt_size_cells(t[1])
  IN \/ a \notin 1 .. 2 \/ s \notin 1 .. 2
     \/ \E n \in DOMAIN t : t[n].memory /\ Len(t[n].reg) % (a + s) # 0

\* The memory map: the regions of all memory nodes in order, regions of no
\* size passed over, regions past the limit dropped.
get_mem(t) ==
  LET memory == SelectSeq(t, LAMBDA node : node.memory)
      all == FlattenSeq([n \in DOMAIN memory |->
        Entries(memory[n].reg, fdt_address_cells(t[1]), fdt_size_cells(t[1]))])
  IN AtMost(MaxMemRegions, SelectSeq(all, LAMBDA r : r.size > 0))

\* get_reg_property goes by the cell counts of the node itself.  It fails on a
\* missing property and on too many entries.  A count that is an error makes
\* the size of an entry huge and the number of entries zero.
get_reg_property(node) ==
  LET a == fdt_address_cells(node)
      s == fdt_size_cells(node)
      regs == IF a = NotFound \/ s = NotFound THEN <<>> ELSE Entries(node.reg, a, s)
  IN IF node.reg = <<>> \/ Len(regs) > MaxMemRegions
     THEN [found |-> FALSE, regions |-> AtMost(MaxMemRegions, regs)]
     ELSE [found |-> TRUE, regions |-> regs]

----
(* Nodes and interrupts *)

get_intc_node_offset(t) == FirstNode(t, LAMBDA node : node.controller)

\* The first string of the list.
get_compatible_string(node) == IF node.compatible = <<>> THEN "" ELSE node.compatible[1]

\* The nodes that have c among their strings, in order, at most len of them.
get_nodes_by_compatible(t, c, len) ==
  LET found == {n \in DOMAIN t : Contains(t[n].compatible, c)}
      Before(n) == {m \in found : m < n}
  IN AtMost(len, [k \in 1 .. Cardinality(found) |->
                    CHOOSE n \in found : Cardinality(Before(n)) = k - 1])

\* Faulty variant: only the node itself is asked.
InterruptParentOwn(t, node) ==
  LET own == IF t[node].interrupt_parent = Absent THEN NotFound
             ELSE fdt_node_offset_by_phandle(t, t[node].interrupt_parent)
  IN IF own = NotFound THEN get_intc_node_offset(t) ELSE own

\* Up from the node, the first interrupt-parent decides.  The default
\* controller stands in if there is none, or if it names no node.
InterruptParent(t, node) ==
  LET Up[n \in 0 .. Len(t)] ==
        IF n = 0 THEN NotFound
        ELSE IF t[n].interrupt_parent # Absent
             THEN fdt_node_offset_by_phandle(t, t[n].interrupt_parent)
             ELSE Up[t[n].parent]
  IN IF Up[node] = NotFound THEN get_intc_node_offset(t) ELSE Up[node]

IRQ_TYPE_SPI == 0
IRQ_TYPE_PPI == 1

\* The first len interrupts of a node, <<>> on an error.  The layout is
\* <type, number, flags> or the property is refused.
get_intr_property(t, node, len) ==
  LET cells == t[node].interrupts
      parent == InterruptParent(t, node)
  IN IF \/ parent = NotFound \/ t[parent].interrupt_cells # 3 \/ Len(cells) % 3 # 0
     THEN <<>>
     ELSE AtMost(len, [i \in 1 .. (Len(cells) \div 3) |->
            [type |-> cells[3 * i - 2], id |-> cells[3 * i - 1],
             level |-> (cells[3 * i] \div 4) % 2 = 1]])

Int32(u) == IF u >= Cell \div 2 THEN u - Cell ELSE u

\* In 32-bit arithmetic; negative results are errors.
interrupt_to_intid(intr) ==
  CASE intr.type = IRQ_TYPE_PPI -> Int32((16 + intr.id) % Cell)
    [] intr.type = IRQ_TYPE_SPI -> Int32((32 + intr.id) % Cell)
    [] OTHER -> -1
====
