------------------------------- MODULE Kernel -------------------------------
(***************************************************************************)
(* The running kernel: the last part of high_half_main (main.c), the       *)
(* timer's tick handler and the UART's receive handler on one core, and    *)
(* kprintf (utils/kprintf.c), which main and the tick handler print with   *)
(* through the transmitter the echo uses too.                              *)
(*                                                                         *)
(* Either handler may interrupt main between two characters; neither       *)
(* interrupts the other (Irq!HandlersNotInterrupted).  An interrupt of the *)
(* UART's that comes before its handler is stored prints a warning.  A     *)
(* tick is pending some time after the last one was handled                *)
(* (Timer!NoTickLost).  Each activation of vprintf has its own locals, and *)
(* the console is set (Boot!PointersValid).                                *)
(***************************************************************************)
EXTENDS Uart, SequencesExt

CONSTANTS
  SetupCalls,        \* calls of kprintf made while the timer is set up: [format, args]
  max_num_of_ticks,  \* wake-ups main waits for
  Message,           \* "Message in kmalloced memory.\n"
  Null

ASSUME KernelAssumption == max_num_of_ticks \in Nat

VARIABLES
  pc,       \* where main is
  ticks,    \* main's local of that name
  ticking,  \* the timer is set up
  pending,  \* the timer's interrupt is pending
  tick,     \* where timer_tick_handler is
  block,    \* the bytes of the block main has allocated, or Null
  call,     \* the activations of vprintf there are, in main, the tick handler and the warning
  buf       \* and its local buf

mainVars == <<pc, ticks, ticking, block>>
kernelVars == <<mainVars, pending, tick, call, buf>>
allVars == <<vars, kernelVars>>

Contexts == {"main", "tick", "irq"}

NUL == "NUL"
Unknown == "unknown"   \* what memory holds that was never written

----
(* vprintf *)

\* The string s in memory; what follows its last byte is not known.
Byte(s, i) == IF i <= Len(s) THEN s[i] ELSE Unknown

\* The characters a pointer leads to.
Target(ptr) ==
  CASE ptr = "null" -> <<"(", "n", "u", "l", "l", ")", NUL>>
    [] ptr = "block" -> block

Digit(d) == <<"0", "1", "2", "3", "4", "5", "6", "7", "8", "9",
              "a", "b", "c", "d", "e", "f">>[d + 1]

\* The lowest digit first, until nothing is left; then the string is reversed.
itoa(num, base) ==
  LET LowFirst[k \in Nat] ==
        IF k < base THEN <<Digit(k)>> ELSE <<Digit(k % base)>> \o LowFirst[k \div base]
  IN Append(Reverse(LowFirst[num]), NUL)

\* Faulty variant: one buffer for all activations.
BufOfAll(c) == "main"

\* buf is a local.
BufOf(c) == c

\* The activation printing c has just begun.  todo is what it is to put next,
\* src and str the string it goes through after that.
Activation(c) ==
  [format |-> c.format, args |-> c.args, pos |-> 1, arg |-> 1,
   todo |-> <<>>, src |-> "none", str |-> 1, printed |-> 0, out |-> <<>>]

Between(a) == a.todo = <<>> /\ a.src = "none"

Active(c) == c \in DOMAIN call

Returned(c) == Active(c) /\ Between(call[c]) /\ call[c].pos > Len(call[c].format)

\* pos' and arg' after the conversion at pos, `l' modifier included.
Conversion(a) ==
  IF a.format[a.pos + 1] = "l" THEN a.pos + 2 ELSE a.pos + 1

\* The constant characters of a conversion, and the string it prints.
Prefix(conv, arg) ==
  CASE conv = "p" -> <<"0", "x">>
    [] conv = "c" -> <<arg.chr>>
    [] conv = "d" -> IF arg.num < 0 THEN <<"-">> ELSE <<>>
    [] conv = "%" -> <<"%">>
    [] conv \in {"x", "s", "u"} -> <<>>
    [] OTHER -> <<"%", conv>>

TakesArg(conv) == conv \in {"x", "p", "c", "s", "d", "u"}

Base(conv) == IF conv \in {"x", "p"} THEN 16 ELSE 10

Magnitude(num) == IF num < 0 THEN -num ELSE num

\* A plain character, with a carriage return before a line feed.
PlainChar(c) ==
  LET a == call[c]
      char == a.format[a.pos]
  IN /\ char # "%"
     /\ call' = [call EXCEPT ![c].pos = @ + 1,
                             ![c].todo = IF char = "\n" THEN <<"\r", "\n">> ELSE <<char>>]
     /\ UNCHANGED buf

\* A conversion: the buffer is filled before the prefix is put, not after,
\* which nothing can tell since it is the activation's own.
ConvertArg(c) ==
  LET a == call[c]
      conv == a.format[Conversion(a)]
      arg == IF TakesArg(conv) THEN a.args[a.arg] ELSE Null
      numeric == conv \in {"x", "p", "d", "u"}
  IN /\ a.format[a.pos] = "%"
     /\ call' = [call EXCEPT ![c] = [a EXCEPT
          !.pos = Conversion(a) + 1, !.arg = IF TakesArg(conv) THEN @ + 1 ELSE @,
          !.todo = Prefix(conv, arg), !.str = 1,
          !.src = IF numeric THEN "buf" ELSE IF conv = "s" THEN arg.ptr ELSE "none"]]
     /\ buf' = IF numeric
               THEN [buf EXCEPT ![BufOf(c)] = itoa(Magnitude(arg.num), Base(conv))]
               ELSE buf

\* uart0_putchar, pl011_putc: a character finds no room and is lost.
Putc == tx' = IF tx < TxDepth THEN tx + 1 ELSE tx

Put(c, char) == [call[c] EXCEPT !.printed = @ + 1, !.out = Append(@, char)]

PutConstant(c) ==
  /\ Putc
  /\ call' = [call EXCEPT ![c] = [Put(c, Head(call[c].todo)) EXCEPT !.todo = Tail(@)]]
  /\ UNCHANGED buf

\* One turn of a loop over a string.
PutFromString(c) ==
  LET a == call[c]
      char == Byte(IF a.src = "buf" THEN buf[BufOf(c)] ELSE Target(a.src), a.str)
  IN /\ IF char = NUL
        THEN call' = [call EXCEPT ![c].src = "none"] /\ UNCHANGED tx
        ELSE Putc /\ call' = [call EXCEPT ![c] = [Put(c, char) EXCEPT !.str = @ + 1]]
     /\ UNCHANGED buf

vprintf(c) ==
  /\ Active(c) /\ ~Returned(c)
  /\ \/ Between(call[c]) /\ (PlainChar(c) \/ ConvertArg(c)) /\ UNCHANGED tx
     \/ call[c].todo # <<>> /\ PutConstant(c)
     \/ call[c].todo = <<>> /\ call[c].src # "none" /\ PutFromString(c)
  /\ UNCHANGED <<setVars, arrived, rx, rxris, isr, chr, echoed, mainVars, pending, tick>>

kprintf(c, format, args) ==
  call' = [x \in DOMAIN call \cup {c} |->
             IF x = c THEN Activation([format |-> format, args |-> args]) ELSE call[x]]

KprintfReturns(c) == Returned(c) /\ call' = [x \in DOMAIN call \ {c} |-> call[x]]

----
Init0 ==
  /\ Init
  /\ pc = "start" /\ ticks = 0 /\ ticking = FALSE /\ block = Null
  /\ pending = FALSE /\ tick = "idle"
  /\ call = <<>> /\ buf = [c \in Contexts |-> <<>>]

On == pc # "exited"

\* main runs when no handler does.
Main(label) == pc = label /\ isr = "idle" /\ tick = "idle"

Step(from, to) == Main(from) /\ pc' = to

----
(* high_half_main *)

\* pl011_init with low and with high addresses, then pl011_register_handler,
\* whose second step waits as long as interrupts come.
StartUart ==
  /\ \/ Step("start", "reinit") /\ pl011_init
     \/ Step("reinit", "register") /\ pl011_init
     \/ Step("register", "store") /\ RegisterEnables
     \/ Step("store", "setup") /\ RegisterStores
  /\ UNCHANGED <<ticks, ticking, block, pending, tick, call, buf>>

\* setup_system_timer: what is printed on the way, then whether the timer
\* ticks (Timer!SetupOutcome); if not, that is only reported.
BeginSetup ==
  /\ Step("setup", "set")
  /\ \E c \in SetupCalls : kprintf("main", c.format, c.args)
  /\ UNCHANGED <<vars, ticks, ticking, block, pending, tick, buf>>

SetupDone ==
  /\ Returned("main")
  /\ \/ /\ Step("set", "loop")
        /\ ticking' = TRUE
        /\ KprintfReturns("main")
     \/ /\ Step("set", "unset")
        /\ kprintf("main", <<"E", "\n">>, <<>>)
        /\ UNCHANGED ticking
     \/ /\ Step("unset", "loop")
        /\ KprintfReturns("main")
        /\ UNCHANGED ticking
  /\ UNCHANGED <<vars, ticks, block, pending, tick, buf>>

\* Faulty variant: the loop goes round once more.
WaitOffByOne ==
  /\ ticks <= max_num_of_ticks
  /\ Step("loop", "asleep")
  /\ UNCHANGED <<vars, ticks, ticking, block, pending, tick, call, buf>>

\* wfi: main sleeps until an interrupt is pending, which is then taken.
Wait ==
  /\ ticks < max_num_of_ticks
  /\ Step("loop", "asleep")
  /\ UNCHANGED <<vars, ticks, ticking, block, pending, tick, call, buf>>

Woken ==
  /\ Step("woken", "loop")
  /\ ticks' = ticks + 1
  /\ UNCHANGED <<vars, ticking, block, pending, tick, call, buf>>

\* strlen: the bytes before the first NUL.
strlen(s) == Min({i \in DOMAIN s : s[i] = NUL}) - 1

MessageBytes == Append(Message, NUL)

\* The size asked for and copied.
MessageSize == strlen(MessageBytes) + 1

\* kmalloc gives a block with arbitrary contents, or fails.
AllocateMessage ==
  /\ ticks >= max_num_of_ticks
  /\ \/ /\ Step("loop", "copy")
        /\ block' = [i \in 1 .. MessageSize |-> Unknown]
        /\ UNCHANGED call
     \/ /\ Step("loop", "printed")
        /\ kprintf("main", <<"F", "\n">>, <<>>)
        /\ UNCHANGED block
  /\ UNCHANGED <<vars, ticks, ticking, pending, tick, buf>>

\* memcpy, and kprintf of the copy
CopyMessage ==
  /\ Step("copy", "printed")
  /\ block' = [i \in DOMAIN block |-> IF i <= MessageSize THEN MessageBytes[i] ELSE block[i]]
  /\ kprintf("main", <<"%", "s">>, <<[ptr |-> "block"]>>)
  /\ UNCHANGED <<vars, ticks, ticking, pending, tick, buf>>

\* kfree, and exit's kprintf
FreeMessage ==
  /\ Step("printed", "exit")
  /\ Returned("main")
  /\ block' = Null
  /\ kprintf("main", <<"X", "%", "u", "\n">>, <<[num |-> 0]>>)
  /\ UNCHANGED <<vars, ticks, ticking, pending, tick, buf>>

\* The semihosting call ends the machine.
exit ==
  /\ Step("exit", "exited")
  /\ KprintfReturns("main")
  /\ UNCHANGED <<vars, ticks, ticking, block, pending, tick, buf>>

MainPrints == isr = "idle" /\ tick = "idle" /\ vprintf("main")

----
(* Interrupts *)

\* An interrupt is taken, and ends main's wfi.
Interrupt == On /\ tick = "idle" /\ pc' = IF pc = "asleep" THEN "woken" ELSE pc

ReceiveInterrupt ==
  /\ Interrupt
  /\ EnterIsr
  /\ IF registered THEN UNCHANGED call
     ELSE kprintf("irq", <<"W", "%", "u", "\n">>, <<[num |-> 33]>>)
  /\ UNCHANGED <<ticks, ticking, block, pending, tick, buf>>

\* pl011_rx_handler
RxHandler ==
  /\ On /\ (pl011_getc \/ pl011_putc \/ pl011_clear_rx_interrupt)
  /\ UNCHANGED kernelVars

\* gicv3_handle_irq has warned that there is no handler.
Warned ==
  /\ On /\ KprintfReturns("irq") /\ NoHandler
  /\ UNCHANGED <<mainVars, pending, tick, buf>>

\* The counter reaches its compare value.
TimerFires ==
  /\ On /\ ticking /\ ~pending /\ tick = "idle"
  /\ pending' = TRUE
  /\ UNCHANGED <<vars, mainVars, tick, call, buf>>

TickInterrupt ==
  /\ Interrupt
  /\ pending /\ isr = "idle"
  /\ tick' = "first"
  /\ kprintf("tick", <<"T", "\n">>, <<>>)
  /\ UNCHANGED <<vars, ticks, ticking, block, pending, buf>>

\* timer_tick_handler prints a line and then the counter, and timer_isr sets
\* the next compare value.
TickHandler ==
  /\ On /\ Returned("tick")
  /\ \/ /\ tick = "first" /\ tick' = "second"
        /\ kprintf("tick", <<"C", "%", "l", "u", "\n">>, <<[num |-> 27]>>)
        /\ UNCHANGED pending
     \/ /\ tick = "second" /\ tick' = "idle"
        /\ KprintfReturns("tick")
        /\ pending' = FALSE
  /\ UNCHANGED <<vars, mainVars, buf>>

HandlerPrints == On /\ (vprintf("tick") \/ vprintf("irq"))

\* The UART's device
Device == On /\ (Receive \/ Transmit) /\ UNCHANGED kernelVars

----
MainRuns ==
  \/ BeginSetup \/ SetupDone \/ Wait \/ Woken
  \/ AllocateMessage \/ CopyMessage \/ FreeMessage \/ exit \/ MainPrints

HandlerStep == RxHandler \/ Warned \/ TickHandler \/ HandlerPrints

KernelNext ==
  StartUart \/ MainRuns \/ HandlerStep \/ ReceiveInterrupt \/ TickInterrupt \/ TimerFires \/ Device

\* A handler runs to its end.  Once the UART has its handler, interrupts leave
\* main time: ticks are a second apart and handlers take less, so that main and
\* the other interrupt get their turns again and again.  Before, a character
\* that waits interrupts main after every activation, and main may not get to
\* store the handler (Irq!NeverUnhandled): no more than weak fairness.
\* Characters need not arrive.
KernelSpec ==
  /\ Init0 /\ [][KernelNext]_allVars
  /\ WF_allVars(StartUart) /\ SF_allVars(MainRuns) /\ WF_allVars(HandlerStep)
  /\ SF_allVars(ReceiveInterrupt) /\ WF_allVars(TickInterrupt) /\ WF_allVars(TimerFires)

----
(* What a call is to print. *)

\* The numeral of v: digit k from the left stands for a multiple of
\* base^(len - k).
Numeral(v, base) ==
  LET len == CHOOSE l \in 1 .. 64 : v < base^l /\ \A k \in 1 .. (l - 1) : v >= base^k
  IN [k \in 1 .. len |-> Digit((v \div base^(len - k)) % base)]

\* What a conversion makes of its argument.  Strings are printed as they are.
Text(conv, arg) ==
  CASE conv = "u" -> Numeral(arg.num, 10)
    [] conv = "d" -> IF arg.num < 0 THEN <<"-">> \o Numeral(-arg.num, 10) ELSE Numeral(arg.num, 10)
    [] conv = "x" -> Numeral(arg.num, 16)
    [] conv = "p" -> <<"0", "x">> \o Numeral(arg.num, 16)
    [] conv = "c" -> <<arg.chr>>
    [] conv = "s" -> IF arg.ptr = "null" THEN <<"(", "n", "u", "l", "l", ")">> ELSE Message
    [] conv = "%" -> <<"%">>
    [] OTHER -> <<"%", conv>>

\* The text of a format from character i on, with the arguments from k on.
\* There are two readings of the `l' modifier: the code's, in which the
\* character that follows decides, and (hex) that of the comment on vprintf, in
\* which the argument is printed in hexadecimal, whatever follows.
Rendered(format, args, hex) ==
  LET R[i \in Nat, k \in Nat] ==
        IF i > Len(format) THEN <<>>
        ELSE IF format[i] = "\n" THEN <<"\r", "\n">> \o R[i + 1, k]
        ELSE IF format[i] # "%" THEN <<format[i]>> \o R[i + 1, k]
        ELSE LET long == format[i + 1] = "l"
                 j == IF long THEN i + 2 ELSE i + 1
                 conv == IF long /\ hex THEN "x" ELSE format[j]
             IN IF TakesArg(conv) THEN Text(conv, args[k]) \o R[j + 1, k + 1]
                ELSE Text(conv, Null) \o R[j + 1, k]
  IN R[1, 1]

----
KernelTypeOK ==
  /\ TypeOK
  /\ pc \in {"start", "reinit", "register", "store", "setup", "set", "unset", "loop", "asleep",
             "woken", "copy", "printed", "exit", "exited"}
  /\ ticks \in 0 .. max_num_of_ticks
  /\ ticking \in BOOLEAN /\ pending \in BOOLEAN
  /\ tick \in {"idle", "first", "second"}
  /\ DOMAIN call \subseteq Contexts
  /\ (Active("tick") <=> tick # "idle") /\ (Active("irq") <=> isr = "warn")
  /\ isr # "idle" => tick = "idle"

\* Whatever interrupts it, each call of kprintf hands exactly the text of its
\* format and arguments to the console, character by character, and counts
\* it right; main's last message is what it copied to the heap.  A call follows
\* one of the readings of `%l' throughout; which one is not asked here.
OutputExact ==
  \A c \in DOMAIN call :
    \E hex \in BOOLEAN :
      LET text == Rendered(call[c].format, call[c].args, hex)
      IN /\ IsPrefix(call[c].out, text)
         /\ call[c].printed = Len(call[c].out)
         /\ Returned(c) => call[c].out = text

\* Once its handler is stored, a character does not stay in the receiver, where
\* it would keep others out, as long as the kernel runs and none arrives while
\* the handler does.  It may have come at any time, also before
\* pl011_register_handler or between its two steps.
ReceiverEmptied == (registered /\ rx # <<>>) ~> (rx = <<>> \/ pc = "exited")

\* With the timer set up, every wfi of main ends, with a tick or a character,
\* and main runs on, for no handler that interrupts it stays in a poll.
EverySleepEnds == (ticking /\ pc = "asleep") ~> (pc = "loop")
====
