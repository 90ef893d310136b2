------------------------------- MODULE MCUart -------------------------------
(***************************************************************************)
(* A handful of characters, which may arrive at any time, also before the  *)
(* handler is registered, and a transmitter with room for all of them.     *)
(***************************************************************************)
EXTENDS Uart
====
