------------------------------ MODULE MCTimer ------------------------------
(***************************************************************************)
(* Three counts in two milliseconds; a cell has 8 bits.  The periods asked *)
(* for are 1 and 3 counts, and 256, which is one too many.  The counter    *)
(* runs for ten counts, long enough for a handler to overrun several       *)
(* periods.                                                                *)
(***************************************************************************)
EXTENDS Timer, TLC

Plain ==
  [parent |-> 1, compatible |-> <<>>, memory |-> FALSE, controller |-> FALSE,
   phandle |-> Absent, interrupt_parent |-> Absent, interrupt_cells |-> Absent,
   interrupts |-> <<>>, address_cells |-> Absent, size_cells |-> Absent, reg |-> <<>>]

Root(parent) == [parent |-> 0, interrupt_parent |-> parent] @@ Plain
Bus(parent) == [interrupt_parent |-> parent] @@ Plain
Controller(phandle, cells) ==
  [compatible |-> <<"arm,gic-v3">>, controller |-> TRUE, phandle |-> phandle,
   interrupt_cells |-> cells] @@ Plain
TimerNode(parent, cells) ==
  [compatible |-> <<"arm,armv7-timer", "arm,armv8-timer">>, interrupts |-> cells,
   parent |-> parent] @@ Plain

\* PPIs 13, 14, 11, 10, as on QEMU's virt, and one more.
Usual == <<1, 13, 4, 1, 14, 4, 1, 11, 4, 1, 10, 4, 1, 9, 4>>

\* The second entry's type and number.
Second(type, id) == <<1, 13, 4, type, id, 1>>

Simple(cells) == <<Root(7), TimerNode(1, cells), Controller(7, 3)>>

MCTrees ==
  {Simple(c) : c \in {
     Usual, <<>>, <<1, 14, 4>>, <<1, 14, 4, 1, 14>>,
     Second(0, 0), Second(0, 33), Second(1, 14), Second(1, 48), Second(1, 130), Second(2, 14)}}
  \cup {
  \* no timer, two timers, no controller
  <<Root(7), Controller(7, 3)>>,
  Simple(Usual) \o <<TimerNode(1, Usual)>>,
  <<Root(7), TimerNode(1, Usual)>>,
  \* another controller comes first: not for this timer, also when a bus
  \* overrides the root; unless nothing or no node is named
  <<Root(7), Controller(5, 1), TimerNode(1, Usual), Controller(7, 3)>>,
  <<Root(5), Controller(5, 1), Bus(7), TimerNode(3, Usual), Controller(7, 3)>>,
  <<Root(7), Controller(5, 1), Bus(5), TimerNode(3, Usual), Controller(7, 3)>>,
  <<Root(Absent), Controller(5, 1), TimerNode(1, Usual), Controller(7, 3)>>,
  <<Root(Absent), Controller(5, 3), TimerNode(1, Usual), Controller(7, 1)>>,
  <<Root(9), Controller(5, 3), TimerNode(1, Usual), Controller(7, 1)>>,
  <<Root(7), TimerNode(1, Usual), Controller(7, Absent)>>}
====
