--------------------------- MODULE MCPageAllocator ---------------------------
(***************************************************************************)
(* Two slots for six regions: two adjacent banks (one with an unaligned    *)
(* start), a bank whose bitmap would overwrite the kernel image, a bank at *)
(* address 0, one that ends before its first page boundary and one shorter *)
(* than a page.                                                            *)
(***************************************************************************)
EXTENDS PageAllocator

MCRegions == {
  [frame |-> 1, offset |-> 0, size |-> 9,  check |-> TRUE],
  [frame |-> 4, offset |-> 1, size |-> 10, check |-> TRUE],
  [frame |-> 10, offset |-> 0, size |-> 4, check |-> TRUE],
  [frame |-> 0, offset |-> 0, size |-> 2,  check |-> FALSE],
  [frame |-> 14, offset |-> 1, size |-> 1, check |-> TRUE],
  [frame |-> 16, offset |-> 0, size |-> 1, check |-> TRUE]}

MCImage == {3, 10, 11}

\* The image's page, an unaligned range that ends at the end of its region, a
\* range that runs past it, and one that starts nowhere.
MCReservations == {
  [frame |-> 3, offset |-> 0, num |-> 1],
  [frame |-> 7, offset |-> 1, num |-> 1],
  [frame |-> 8, offset |-> 1, num |-> 1],
  [frame |-> 3, offset |-> 0, num |-> 3],
  [frame |-> 20, offset |-> 0, num |-> 1]}
====
