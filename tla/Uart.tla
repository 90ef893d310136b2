-------------------------------- MODULE Uart --------------------------------
(***************************************************************************)
(* Receiving characters: the PL011 driver's interrupt handler              *)
(* (drivers/uart.c) against the device.                                    *)
(*                                                                         *)
(* The device's receive FIFO is disabled, as after reset (the driver never *)
(* writes UARTLCR_H): it holds Depth = 1 character.  It raises the receive *)
(* interrupt when a character fills the empty register and lowers it when  *)
(* the register is read empty or UARTICR is written.  Characters keep      *)
(* arriving while the handler runs.  The handler is atomic to main and to  *)
(* other handlers (Irq!HandlersNotInterrupted), not to the device.         *)
(*                                                                         *)
(* pl011_register_handler is two steps, in the order of gicv3_register_irq *)
(* (Irq has its other writes): the SPI is enabled, then the dispatch table *)
(* gets its entry.  An interrupt in between finds no handler.              *)
(*                                                                         *)
(* Characters are numbered in the order they arrive.                       *)
(***************************************************************************)
EXTENDS Integers, Sequences

CONSTANTS
  Depth,     \* characters the receiver holds
  TxDepth,   \* characters the transmitter holds
  MaxChars,  \* bound on the characters that arrive
  Paced      \* no character arrives while the handler runs

ASSUME UartAssumption ==
  Depth \in Nat \ {0} /\ TxDepth \in Nat \ {0} /\ MaxChars \in Nat /\ Paced \in BOOLEAN

VARIABLES
  imsc,        \* UART_IMSC_RXIM is set
  enabled,     \* the controller forwards INTID 33
  registered,  \* dispatch_table[33] has pl011_rx_handler
  arrived,     \* characters that have arrived
  rx,          \* the receiver's contents
  rxris,       \* the raw receive interrupt
  tx,          \* the transmitter's contents
  isr,         \* where the interrupt's activation is
  chr,         \* its local chr
  echoed       \* history: the characters handed to the transmitter, in order

devVars == <<arrived, rx, rxris, tx>>
setVars == <<imsc, enabled, registered>>
vars == <<imsc, enabled, registered, arrived, rx, rxris, tx, isr, chr, echoed>>

Init ==
  /\ imsc = FALSE /\ enabled = FALSE /\ registered = FALSE
  /\ arrived = 0 /\ rx = <<>> /\ rxris = FALSE /\ tx = 0
  /\ isr = "idle" /\ chr = 0
  /\ echoed = <<>>

----
(* main: pl011_init, twice, and later pl011_register_handler *)

pl011_init ==
  /\ isr = "idle" /\ ~enabled
  /\ imsc' = TRUE
  /\ UNCHANGED <<enabled, registered, devVars, isr, chr, echoed>>

\* configure_spi ends with the enable bit; the UART's line may be up already.
RegisterEnables ==
  /\ isr = "idle" /\ imsc /\ ~enabled
  /\ enabled' = TRUE
  /\ UNCHANGED <<imsc, registered, devVars, isr, chr, echoed>>

RegisterStores ==
  /\ isr = "idle" /\ enabled /\ ~registered
  /\ registered' = TRUE
  /\ UNCHANGED <<imsc, enabled, devVars, isr, chr, echoed>>

pl011_register_handler == RegisterEnables \/ RegisterStores

----
(* The device *)

\* A character arrives; it is lost if there is no room for it.
Receive ==
  /\ arrived < MaxChars
  /\ Paced => isr = "idle"
  /\ arrived' = arrived + 1
  /\ rx' = IF Len(rx) < Depth THEN Append(rx, arrived') ELSE rx
  /\ rxris' = (rxris \/ rx = <<>>)
  /\ UNCHANGED <<setVars, tx, isr, chr, echoed>>

Transmit ==
  /\ tx > 0
  /\ tx' = tx - 1
  /\ UNCHANGED <<setVars, arrived, rx, rxris, isr, chr, echoed>>

----
(* pl011_rx_handler *)

\* The interrupt is dispatched, to the handler if there is one.
EnterIsr ==
  /\ isr = "idle" /\ rxris /\ imsc /\ enabled
  /\ isr' = IF registered THEN "getc" ELSE "warn"
  /\ UNCHANGED <<setVars, devVars, chr, echoed>>

\* gicv3_handle_irq without a handler prints a warning and ends the
\* interrupt; nothing has lowered its line.
NoHandler ==
  /\ isr = "warn"
  /\ isr' = "idle"
  /\ UNCHANGED <<setVars, devVars, chr, echoed>>

\* pl011_getc polls UART_FR until there is a character, and reads UART_DR.
pl011_getc ==
  /\ isr = "getc" /\ rx # <<>>
  /\ chr' = Head(rx) /\ rx' = Tail(rx)
  /\ rxris' = (rxris /\ Tail(rx) # <<>>)
  /\ isr' = "putc"
  /\ UNCHANGED <<setVars, arrived, tx, echoed>>

\* Faulty variant: the write is repeated while the transmitter is busy.
pl011_putc_retries ==
  /\ isr = "putc"
  /\ IF tx < TxDepth
     THEN tx' = tx + 1 /\ echoed' = Append(echoed, chr)
     ELSE UNCHANGED <<tx, echoed>>
  /\ isr' = IF tx = 0 THEN "clear" ELSE "putc"
  /\ UNCHANGED <<setVars, arrived, rx, rxris, chr>>

\* pl011_putc writes UART_DR, room or no room.
pl011_putc ==
  /\ isr = "putc"
  /\ IF tx < TxDepth
     THEN tx' = tx + 1 /\ echoed' = Append(echoed, chr)
     ELSE UNCHANGED <<tx, echoed>>
  /\ isr' = "clear"
  /\ UNCHANGED <<setVars, arrived, rx, rxris, chr>>

\* Faulty variant: the handler starts over instead of returning.
ClearAndRepeat ==
  /\ isr = "clear"
  /\ rxris' = FALSE
  /\ isr' = "getc"
  /\ UNCHANGED <<setVars, arrived, rx, tx, chr, echoed>>

\* Faulty variant: the interrupt is masked and never unmasked.
ClearAndMask ==
  /\ isr = "clear"
  /\ rxris' = FALSE
  /\ imsc' = FALSE
  /\ isr' = "idle"
  /\ UNCHANGED <<enabled, registered, arrived, rx, tx, chr, echoed>>

pl011_clear_rx_interrupt ==
  /\ isr = "clear"
  /\ rxris' = FALSE
  /\ isr' = "idle"
  /\ UNCHANGED <<setVars, arrived, rx, tx, chr, echoed>>

----
Handler == EnterIsr \/ NoHandler \/ pl011_getc \/ pl011_putc \/ pl011_clear_rx_interrupt

Next == pl011_init \/ pl011_register_handler \/ Receive \/ Transmit \/ Handler

\* main runs on while it is not interrupted, a raised interrupt is taken and
\* its activation runs on, and the transmitter sends.  Nothing makes characters
\* arrive, and nothing lets main run between two activations: an interrupt
\* whose line is still up is taken again at the ERET.
Spec ==
  /\ Init /\ [][Next]_vars
  /\ WF_vars(pl011_init) /\ WF_vars(pl011_register_handler)
  /\ WF_vars(Handler) /\ WF_vars(Transmit)

----
TypeOK ==
  /\ imsc \in BOOLEAN /\ enabled \in BOOLEAN /\ registered \in BOOLEAN /\ rxris \in BOOLEAN
  /\ registered => enabled
  /\ arrived \in 0 .. MaxChars /\ tx \in 0 .. TxDepth
  /\ rx \in Seq(1 .. MaxChars) /\ Len(rx) <= Depth
  /\ isr \in {"idle", "warn", "getc", "putc", "clear"}
  /\ chr \in 0 .. MaxChars
  /\ echoed \in Seq(1 .. MaxChars)

\* The handler never has to wait for a character: an interrupt handler that
\* polls with interrupts masked would stop the kernel.
GetcNeverWaits == isr = "getc" => rx # <<>>

\* Characters are echoed in the order of their arrival, none twice.
EchoedInOrder ==
  \A m, n \in 1 .. Len(echoed) : m < n => echoed[m] < echoed[n]

\* uart.h: "After this call, any character received on the UART will trigger
\* pl011_rx_handler which echoes it back."
ReceivedIsEchoed ==
  \A c \in 1 .. MaxChars :
    (registered /\ rx # <<>> /\ Head(rx) = c) ~> (\E n \in 1 .. Len(echoed) : echoed[n] = c)
====
