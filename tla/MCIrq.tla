------------------------------- MODULE MCIrq -------------------------------
(***************************************************************************)
(* Two interrupts, a PPI (0, the timer) and an SPI (1, the UART), and one  *)
(* number out of range (2).  The UART's line may be up before its handler  *)
(* is installed, for pl011_init enables its interrupt long before          *)
(* pl011_register_handler; the timer's may fall before it is acknowledged. *)
(***************************************************************************)
EXTENDS Irq
====
