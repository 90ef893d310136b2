------------------------------ MODULE MCKernel ------------------------------
(***************************************************************************)
(* The calls made while the timer is set up use every conversion.  A       *)
(* letter stands for the plain text of a format.                           *)
(***************************************************************************)
EXTENDS Kernel

MCMessage == <<"M", "\n">>

MCSetupCalls == {
  [format |-> <<"C", "%", "l", "u", "\n">>, args |-> <<[num |-> 108]>>],
  [format |-> <<"%", "d", "%", "c", "%", "%">>, args |-> <<[num |-> -3], [chr |-> "A"]>>],
  [format |-> <<"%", "p", "%", "l", "x", "%", "d">>,
   args |-> <<[num |-> 26], [num |-> 10], [num |-> 0]>>],
  [format |-> <<"%", "s", "%", "z">>, args |-> <<[ptr |-> "null"]>>]}
====
