------------------------------ MODULE MCKalloc ------------------------------
(***************************************************************************)
(* Five pages, two descriptors to a management page: two management pages  *)
(* and three blocks fit.  Sizes are 3-bit: 0 and 7 are rejected, the       *)
(* others take one and two pages.                                          *)
(***************************************************************************)
EXTENDS Kalloc
====
