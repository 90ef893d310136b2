---------------------------- MODULE KernelProofs ----------------------------
(***************************************************************************)
(* The running kernel's safety properties: what UartProofs shows of the    *)
(* receive handler carries over to the whole kernel, in which the console  *)
(* of main and of the tick handler uses the same transmitter.              *)
(***************************************************************************)
EXTENDS Kernel, UartProofs

\* main counts a wake-up only if it went to sleep with some left to count.
SleepsWithinBound == pc \in {"asleep", "woken"} => ticks < max_num_of_ticks

\* The parts of KernelTypeOK that are about main and about the tick handler.
MainOK ==
  /\ pc \in {"start", "reinit", "register", "store", "setup", "set", "unset", "loop", "asleep",
             "woken", "copy", "printed", "exit", "exited"}
  /\ ticks \in 0 .. max_num_of_ticks /\ ticking \in BOOLEAN /\ SleepsWithinBound

TickOK ==
  /\ pending \in BOOLEAN /\ tick \in {"idle", "first", "second"}
  /\ DOMAIN call \subseteq Contexts
  /\ (Active("tick") <=> tick # "idle") /\ (Active("irq") <=> isr = "warn")
  /\ isr # "idle" => tick = "idle"

KernelInv == UartInv /\ MainOK /\ TickOK

----
(* kprintf and vprintf *)

\* Beginning and ending a call change only the one activation.
LEMMA KprintfDomain ==
  ASSUME NEW c, NEW format, NEW args
  PROVE  /\ kprintf(c, format, args) => DOMAIN call' = DOMAIN call \cup {c}
         /\ KprintfReturns(c) => DOMAIN call' = DOMAIN call \ {c}
BY DEF kprintf, KprintfReturns

\* A step of vprintf keeps the activations there are, and touches of the UART
\* only its transmitter, which it does not overfill.
LEMMA VprintfEffect ==
  ASSUME NEW c, TypeOK, vprintf(c)
  PROVE  /\ DOMAIN call' = DOMAIN call /\ tx' \in 0 .. TxDepth
         /\ UNCHANGED <<setVars, arrived, rx, rxris, isr, chr, echoed, mainVars, pending, tick>>
<1>1. tx \in 0 .. TxDepth /\ TxDepth \in Nat
  BY UartTypes, UartAssumption DEF TypeOK
<1>2. Putc => tx' \in 0 .. TxDepth
  BY <1>1 DEF Putc
<1>3. PlainChar(c) => DOMAIN call' = DOMAIN call
  BY DEF PlainChar
<1>4. ConvertArg(c) => DOMAIN call' = DOMAIN call
  BY DEF ConvertArg
<1>5. PutConstant(c) => DOMAIN call' = DOMAIN call /\ tx' \in 0 .. TxDepth
  BY <1>2 DEF PutConstant
<1>6. PutFromString(c) => DOMAIN call' = DOMAIN call /\ tx' \in 0 .. TxDepth
  BY <1>1, <1>2 DEF PutFromString
<1>q. QED
  BY <1>1, <1>3, <1>4, <1>5, <1>6 DEF vprintf

----
(* The steps *)

\* A step that leaves the UART alone, except for its transmitter.
LEMMA UartKept ==
  ASSUME UartInv, tx' \in 0 .. TxDepth,
         UNCHANGED <<setVars, arrived, rx, rxris, isr, chr, echoed>>
  PROVE  UartInv'
BY UartOther_Inv DEF UartInv, TypeOK, setVars

\* One that leaves it alone altogether.
LEMMA UartSame ==
  ASSUME UartInv, UNCHANGED vars
  PROVE  UartInv'
BY UartKept DEF UartInv, TypeOK, vars, setVars

\* main's own steps keep the invariant.
LEMMA HighHalfMain_Inv ==
  ASSUME KernelInv,
         \/ BeginSetup \/ SetupDone \/ Wait \/ Woken
         \/ AllocateMessage \/ CopyMessage \/ FreeMessage \/ exit
  PROVE  KernelInv'
<1>1. UartInv /\ MainOK /\ TickOK /\ isr = "idle" /\ tick = "idle" /\ UNCHANGED <<vars, pending, tick>>
  BY DEF KernelInv, BeginSetup, SetupDone, Wait, Woken, AllocateMessage, CopyMessage, FreeMessage, exit,
                     Step, Main
<1>2. UartInv' /\ isr' = "idle"
  BY <1>1, UartSame DEF vars
<1>3. MainOK'
  <2>1. CASE BeginSetup
    BY <1>1, <2>1 DEF BeginSetup, Step, Main, MainOK, SleepsWithinBound
  <2>2. CASE SetupDone
    BY <1>1, <2>2 DEF SetupDone, Step, Main, MainOK, SleepsWithinBound
  <2>3. CASE Wait
    BY <1>1, <2>3 DEF Wait, Step, Main, MainOK, SleepsWithinBound
  <2>4. CASE Woken
    BY <1>1, <2>4, KernelAssumption DEF Woken, Step, Main, MainOK, SleepsWithinBound
  <2>5. CASE AllocateMessage
    BY <1>1, <2>5 DEF AllocateMessage, Step, Main, MainOK, SleepsWithinBound
  <2>6. CASE CopyMessage \/ FreeMessage \/ exit
    BY <1>1, <2>6 DEF CopyMessage, FreeMessage, exit, Step, Main, MainOK, SleepsWithinBound
  <2>q. QED
    BY <2>1, <2>2, <2>3, <2>4, <2>5, <2>6
<1>4. TickOK'
  <2>1. DOMAIN call' \in {DOMAIN call, DOMAIN call \cup {"main"}, DOMAIN call \ {"main"}}
    BY KprintfDomain DEF BeginSetup, SetupDone, Wait, Woken, AllocateMessage, CopyMessage, FreeMessage, exit
  <2>q. QED
    BY <1>1, <1>2, <2>1 DEF TickOK, Active, Contexts
<1>q. QED
  BY <1>2, <1>3, <1>4 DEF KernelInv

\* Starting the UART keeps the invariant.
LEMMA StartUart_Inv ==
  ASSUME KernelInv, StartUart
  PROVE  KernelInv'
<1>1. UartInv /\ MainOK /\ TickOK
  BY DEF KernelInv
<1>2. /\ pl011_init \/ pl011_register_handler
      /\ isr = "idle" /\ isr' = "idle" /\ tick = "idle"
      /\ pc' \in {"reinit", "register", "store", "setup"}
      /\ UNCHANGED <<ticks, ticking, block, pending, tick, call, buf>>
  BY DEF StartUart, Step, Main, pl011_init, pl011_register_handler, RegisterEnables, RegisterStores
<1>3. UartInv'
  BY <1>1, <1>2, UartSetup_Inv
<1>4. MainOK' /\ TickOK'
  BY <1>1, <1>2 DEF MainOK, SleepsWithinBound, TickOK, Active
<1>q. QED
  BY <1>3, <1>4 DEF KernelInv

\* Printing keeps the invariant.
LEMMA Prints_Inv ==
  ASSUME KernelInv, MainPrints \/ HandlerPrints
  PROVE  KernelInv'
<1>1. UartInv /\ MainOK /\ TickOK /\ TypeOK
  BY DEF KernelInv, UartInv
<1>2. PICK c : vprintf(c)
  BY DEF MainPrints, HandlerPrints
<1>3. /\ DOMAIN call' = DOMAIN call /\ tx' \in 0 .. TxDepth
      /\ UNCHANGED <<setVars, arrived, rx, rxris, isr, chr, echoed, mainVars, pending, tick>>
  BY <1>1, <1>2, VprintfEffect
<1>4. UartInv'
  BY <1>1, <1>3, UartKept
<1>5. MainOK' /\ TickOK'
  BY <1>1, <1>3 DEF MainOK, SleepsWithinBound, TickOK, Active, mainVars
<1>q. QED
  BY <1>4, <1>5 DEF KernelInv

\* The interrupts' entries keep the invariant: neither handler is entered
\* while the other runs.
LEMMA Interrupt_Inv ==
  ASSUME KernelInv, ReceiveInterrupt \/ TickInterrupt \/ TimerFires
  PROVE  KernelInv'
<1>1. UartInv /\ MainOK /\ TickOK
  BY DEF KernelInv
<1>2. CASE ReceiveInterrupt
  <2>1. /\ EnterIsr /\ tick = "idle" /\ pc' = (IF pc = "asleep" THEN "woken" ELSE pc)
        /\ isr = "idle" /\ isr' = IF registered THEN "getc" ELSE "warn"
        /\ DOMAIN call' = IF registered THEN DOMAIN call ELSE DOMAIN call \cup {"irq"}
        /\ UNCHANGED <<ticks, ticking, block, pending, tick, buf>>
    BY <1>2, KprintfDomain DEF ReceiveInterrupt, Interrupt, EnterIsr
  <2>2. UartInv'
    BY <1>1, <2>1, UartSetup_Inv
  <2>3. MainOK'
    BY <1>1, <2>1 DEF MainOK, SleepsWithinBound
  <2>4. TickOK'
    BY <1>1, <2>1 DEF TickOK, Active, Contexts
  <2>q. QED
    BY <2>2, <2>3, <2>4 DEF KernelInv
<1>3. CASE TickInterrupt
  <2>1. /\ tick = "idle" /\ isr = "idle" /\ pc' = (IF pc = "asleep" THEN "woken" ELSE pc)
        /\ tick' = "first" /\ DOMAIN call' = DOMAIN call \cup {"tick"}
        /\ UNCHANGED <<vars, ticks, ticking, block, pending, buf>>
    BY <1>3, KprintfDomain DEF TickInterrupt, Interrupt
  <2>2. UartInv'
    BY <1>1, <2>1, UartSame
  <2>3. MainOK'
    BY <1>1, <2>1 DEF MainOK, SleepsWithinBound
  <2>4. TickOK'
    BY <1>1, <2>1 DEF TickOK, Active, vars, Contexts
  <2>q. QED
    BY <2>2, <2>3, <2>4 DEF KernelInv
<1>4. CASE TimerFires
  <2>1. pending' = TRUE /\ UNCHANGED <<vars, mainVars, tick, call, buf>>
    BY <1>4 DEF TimerFires
  <2>2. UartInv'
    BY <1>1, <2>1, UartSame
  <2>3. MainOK' /\ TickOK'
    BY <1>1, <2>1 DEF MainOK, SleepsWithinBound, TickOK, Active, vars, mainVars
  <2>q. QED
    BY <2>2, <2>3 DEF KernelInv
<1>q. QED
  BY <1>2, <1>3, <1>4

\* The handlers and the device keep the invariant.
LEMMA Handlers_Inv ==
  ASSUME KernelInv, RxHandler \/ Warned \/ TickHandler \/ Device
  PROVE  KernelInv'
<1>1. UartInv /\ MainOK /\ TickOK
  BY DEF KernelInv
<1>2. CASE RxHandler
  <2>1. /\ pl011_getc \/ pl011_putc \/ pl011_clear_rx_interrupt
        /\ isr \notin {"idle", "warn"} /\ isr' # "warn" /\ UNCHANGED kernelVars
    BY <1>2 DEF RxHandler, pl011_getc, pl011_putc, pl011_clear_rx_interrupt
  <2>2. UartInv'
    BY <1>1, <2>1, pl011_getc_Inv, pl011_putc_Inv, UartSetup_Inv
  <2>3. MainOK' /\ TickOK'
    BY <1>1, <2>1 DEF MainOK, SleepsWithinBound, TickOK, Active, kernelVars, mainVars
  <2>q. QED
    BY <2>2, <2>3 DEF KernelInv
<1>3. CASE TickHandler
  <2>1. /\ UNCHANGED <<vars, mainVars, buf>> /\ pending' \in BOOLEAN
        /\ \/ tick = "first" /\ tick' = "second" /\ DOMAIN call' = DOMAIN call \cup {"tick"}
           \/ tick = "second" /\ tick' = "idle" /\ DOMAIN call' = DOMAIN call \ {"tick"}
    BY <1>1, <1>3, KprintfDomain DEF TickHandler, TickOK
  <2>2. UartInv'
    BY <1>1, <2>1, UartSame
  <2>3. MainOK'
    BY <1>1, <2>1 DEF MainOK, SleepsWithinBound, mainVars
  <2>4. TickOK'
    BY <1>1, <2>1 DEF TickOK, Active, vars, Contexts
  <2>q. QED
    BY <2>2, <2>3, <2>4 DEF KernelInv
<1>4. CASE Warned
  <2>1. /\ NoHandler /\ isr = "warn" /\ isr' = "idle" /\ DOMAIN call' = DOMAIN call \ {"irq"}
        /\ UNCHANGED <<mainVars, pending, tick, buf>>
    BY <1>4, KprintfDomain DEF Warned, NoHandler
  <2>2. UartInv'
    BY <1>1, <2>1, UartSetup_Inv
  <2>3. MainOK'
    BY <1>1, <2>1 DEF MainOK, SleepsWithinBound, mainVars
  <2>4. TickOK'
    BY <1>1, <2>1 DEF TickOK, Active, Contexts
  <2>q. QED
    BY <2>2, <2>3, <2>4 DEF KernelInv
<1>5. CASE Device
  <2>1. (Receive \/ Transmit) /\ isr' = isr /\ UNCHANGED kernelVars
    BY <1>5 DEF Device, Receive, Transmit
  <2>2. UartInv'
    BY <1>1, <2>1, Receive_Inv, UartSetup_Inv
  <2>3. MainOK' /\ TickOK'
    BY <1>1, <2>1 DEF MainOK, SleepsWithinBound, TickOK, Active, kernelVars, mainVars
  <2>q. QED
    BY <2>2, <2>3 DEF KernelInv
<1>q. QED
  BY <1>2, <1>3, <1>4, <1>5

----
(* The theorems *)

\* KernelInv holds initially.
LEMMA KernelInitInv == Init0 => KernelInv
<1> SUFFICES ASSUME Init0 PROVE KernelInv
  OBVIOUS
<1>1. UartInv
  BY UartInitInv DEF Init0
<1>2. MainOK
  <2>1. 0 \in 0 .. max_num_of_ticks
    BY KernelAssumption
  <2>q. QED
    BY <2>1 DEF Init0, MainOK, SleepsWithinBound
<1>3. TickOK
  <2>1. DOMAIN call = {} /\ isr = "idle"
    BY DEF Init0, Init
  <2>q. QED
    BY <2>1 DEF Init0, TickOK, Active, Contexts
<1>q. QED
  BY <1>1, <1>2, <1>3 DEF KernelInv

\* Every step keeps KernelInv.
LEMMA KernelNextInv == KernelInv /\ [KernelNext]_allVars => KernelInv'
<1> SUFFICES ASSUME KernelInv, [KernelNext]_allVars PROVE KernelInv'
  OBVIOUS
<1>1. CASE UNCHANGED allVars
  <2>1. UartInv'
    BY <1>1, UartSame DEF KernelInv, allVars
  <2>2. MainOK' /\ TickOK'
    BY <1>1
       DEF KernelInv, allVars, vars, kernelVars, mainVars, MainOK, SleepsWithinBound, TickOK, Active
  <2>q. QED
    BY <2>1, <2>2 DEF KernelInv
<1>2. CASE StartUart \/ MainRuns
  BY <1>2, StartUart_Inv, HighHalfMain_Inv, Prints_Inv DEF MainRuns
<1>3. CASE HandlerStep
  BY <1>3, Handlers_Inv, Prints_Inv DEF HandlerStep
<1>4. CASE ReceiveInterrupt \/ TickInterrupt \/ TimerFires \/ Device
  BY <1>4, Interrupt_Inv, Handlers_Inv
<1>q. QED
  BY <1>1, <1>2, <1>3, <1>4 DEF KernelNext

\* The invariant holds in every reachable state.
THEOREM KernelInvariant == KernelSpec => []KernelInv
BY KernelInitInv, KernelNextInv, PTL DEF KernelSpec

\* The kernel's state is well typed: main waits for no more wake-ups than
\* max_num_of_ticks, the tick handler is printing exactly while it runs, a
\* warning is printed exactly in an interrupt without a handler, and the two
\* interrupts' activations do not overlap.
THEOREM KernelTypeCorrect == KernelSpec => []KernelTypeOK
<1>1. KernelInv => KernelTypeOK
  BY DEF KernelInv, UartInv, MainOK, TickOK, KernelTypeOK
<1>q. QED
  BY <1>1, KernelInvariant, PTL

\* pl011_rx_handler never waits in pl011_getc, whatever else the kernel does.
THEOREM KernelGetc == KernelSpec => []GetcNeverWaits
<1>1. KernelInv => GetcNeverWaits
  BY UartInvImplies DEF KernelInv
<1>q. QED
  BY <1>1, KernelInvariant, PTL

\* Characters are echoed in the order of their arrival, none twice, also
\* while main and the tick handler print.
THEOREM KernelEcho == KernelSpec => []EchoedInOrder
<1>1. KernelInv => EchoedInOrder
  BY UartInvImplies DEF KernelInv
<1>q. QED
  BY <1>1, KernelInvariant, PTL
====
