----------------------------- MODULE MCPageScan -----------------------------
(***************************************************************************)
(* Every table of three chunks with up to three pages each; requests for   *)
(* nothing, for runs of two and three, and for more than a chunk holds.    *)
(***************************************************************************)
EXTENDS PageScan
====
