-------------------------------- MODULE Irq --------------------------------
(***************************************************************************)
(* Interrupts: the GICv3 driver (drivers/gicv3.c) behind the ICU layer     *)
(* (icu/icu.c), the EL1 vector (exception_handling/), the                  *)
(* distributor and CPU interface they program, and the core's exception    *)
(* state.                                                                  *)
(*                                                                         *)
(* There is one core.  The main thread initializes the controller and then *)
(* registers and unregisters handlers, one register write at a time; an    *)
(* interrupt may be taken between any two writes.  Taking one pushes an    *)
(* activation of the vector, whose steps run to its ERET.  ELR_EL1 and     *)
(* SPSR_EL1 are single registers that SAVE_REGS does not save: elr is the  *)
(* context they name, 0 for main and k for the k-th activation.            *)
(*                                                                         *)
(* All registered interrupts have one priority, so that the controller     *)
(* signals none while one is active.  Interrupts are level sensitive, as   *)
(* the timer's and the UART's are.                                         *)
(***************************************************************************)
EXTENDS Integers, Sequences

CONSTANTS
  FirstSpi,     \* the lowest SPI, 32
  MaxIntId,     \* MAX_INT_ID
  Handlers,     \* handlers callers register
  Early,        \* INTIDs whose device may assert before its handler is installed
  Fleeting,     \* INTIDs whose request may be withdrawn before it is acknowledged, as
                \* when the write that disables it is still on its way
  MaxDepth,     \* bound on nested activations
  Null

ASSUME IrqAssumption ==
  /\ FirstSpi \in Nat /\ MaxIntId \in Nat \ {0} /\ MaxDepth \in Nat \ {0}
  /\ Early \subseteq 0 .. (MaxIntId - 1) /\ Fleeting \subseteq 0 .. (MaxIntId - 1)
  /\ Null \notin Handlers

VARIABLES
  fdt,             \* what the device tree says of the controller
  main,            \* main thread: [pc, intid, handler]
  written,         \* controller set-up writes done by gicv3_init
  busy,            \* RWP or ChildrenAsleep is set
  conf,            \* per-INTID configuration
  dispatch_table,
  line,            \* interrupt lines the devices assert
  active,          \* INTIDs acknowledged and not ended
  masked,          \* PSTATE.DAIF: exceptions are masked
  elr, spsr,       \* ELR_EL1 (a context) and SPSR_EL1 (its mask)
  stack,           \* activations of the IRQ vector, [pc, intid]
  wild,            \* an ERET went to a context other than the interrupted one
  called           \* the last dispatch, [intid, handler]

cpuVars == <<masked, elr, spsr, stack, wild>>
gicVars == <<written, busy, conf, active>>
vars == <<fdt, main, written, busy, conf, dispatch_table, line, active,
          masked, elr, spsr, stack, wild, called>>

Intids == 0 .. (MaxIntId - 1)

\* ICC_IAR1_EL1 when nothing is pending
Spurious == 1023 + MaxIntId

Prio == 160   \* 0xA0

----
(* gicv3_init *)

\* The writes, in program order.
InitWrites == <<"mask", "gicd_ctlr", "waker", "sre", "pmr_low", "pmr_high", "bpr", "eoi_mode",
                "igrpen", "unmask">>

Steps == [pc : {"init", "idle", "halted", "group", "prio", "route", "enable", "store",
                "off", "unprio", "unroute", "ungroup", "clear"},
          intid : Intids, handler : Handlers \cup {Null}]

At(pc) == main.pc = pc /\ stack = <<>>

Goto(pc) == main' = [main EXCEPT !.pc = pc]

\* GICD_IGROUPR, GICD_IPRIORITYR, GICD_IROUTER and GICD_ISENABLER
Config == [group1 : BOOLEAN, priority : {0, Prio}, routed : BOOLEAN, enabled : BOOLEAN]

\* The redistributor's registers for SGIs and PPIs, which have no route.
PrivateConfig == [group1 : BOOLEAN, priority : {0, Prio}, routed : {FALSE}, enabled : BOOLEAN]

\* At reset.
Rest == [group1 |-> FALSE, priority |-> 0, routed |-> FALSE, enabled |-> FALSE]

Init ==
  /\ fdt \in {"good", "absent", "unmapped"}
  /\ main = [pc |-> "init", intid |-> 0, handler |-> Null]
  /\ written = {} /\ busy = FALSE
  /\ conf = [i \in Intids |-> Rest]
  /\ dispatch_table = [i \in Intids |-> Null]
  /\ line = {} /\ active = {}
  /\ masked = TRUE /\ elr = 0 /\ spsr = TRUE /\ stack = <<>> /\ wild = FALSE
  /\ called = Null

\* icu_init finds no "arm,gic-v3" node, or gicv3_init not two register
\* regions.
ControllerAbsent == fdt = "absent"

\* map_continuous fails for a register region.
RegistersUnmapped == fdt = "unmapped"

\* Set-up is given up without a trace.
InitGivesUp ==
  /\ At("init") /\ ControllerAbsent
  /\ Goto("idle")
  /\ UNCHANGED <<fdt, gicVars, dispatch_table, line, cpuVars, called>>

\* generic_handler: a fault ends in exit(1).
Halt == Goto("halted")

\* A failed mapping is only reported; the first register access faults.
InitFaults ==
  /\ At("init") /\ RegistersUnmapped
  /\ Halt
  /\ UNCHANGED <<fdt, gicVars, dispatch_table, line, cpuVars, called>>

\* The writes after which set_up_gicd_ctrl polls RWP and set_gicr_waker
\* ChildrenAsleep, until the hardware is done.
Polled == {"gicd_ctlr", "waker"}

\* Faulty variant: interrupts are unmasked without the polls.
InitWriteNoPoll ==
  /\ At("init") /\ fdt = "good"
  /\ \E n \in DOMAIN InitWrites :
       LET w == InitWrites[n] IN
       /\ w \notin written /\ \A m \in 1 .. (n - 1) : InitWrites[m] \in written
       /\ written' = written \cup {w}
       /\ masked' = (w # "unmask")
       /\ busy' = (busy \/ w \in Polled)
       /\ IF n = Len(InitWrites) THEN Goto("idle") ELSE UNCHANGED main
  /\ UNCHANGED <<fdt, conf, dispatch_table, line, active, elr, spsr, stack, wild, called>>

\* Faulty variant: the end-of-interrupt mode is left as it is.
InitWriteNoEoiMode ==
  /\ At("init") /\ fdt = "good" /\ ~busy
  /\ \E n \in DOMAIN InitWrites :
       LET w == InitWrites[n] IN
       /\ w \notin written
       /\ \A m \in 1 .. (n - 1) : InitWrites[m] \in written \cup {"eoi_mode"}
       /\ w # "eoi_mode"
       /\ written' = written \cup {w}
       /\ masked' = (w # "unmask")
       /\ busy' = (w \in Polled)
       /\ IF n = Len(InitWrites) THEN Goto("idle") ELSE UNCHANGED main
  /\ UNCHANGED <<fdt, conf, dispatch_table, line, active, elr, spsr, stack, wild, called>>

\* The next write, once a poll after the last one has succeeded.
InitWrite ==
  /\ At("init") /\ fdt = "good" /\ ~busy
  /\ \E n \in DOMAIN InitWrites :
       LET w == InitWrites[n] IN
       /\ w \notin written /\ \A m \in 1 .. (n - 1) : InitWrites[m] \in written
       /\ written' = written \cup {w}
       /\ masked' = (w # "unmask")
       /\ busy' = (w \in Polled)
       /\ IF n = Len(InitWrites) THEN Goto("idle") ELSE UNCHANGED main
  /\ UNCHANGED <<fdt, conf, dispatch_table, line, active, elr, spsr, stack, wild, called>>

----
(* gicv3_register_irq and gicv3_unregister_irq *)

\* Faulty variant: the range check lets MAX_INT_ID through.
EnterOffByOne(pc, i, h) ==
  main' = IF i > MaxIntId THEN main
          ELSE [pc |-> IF written = {} THEN "halted" ELSE pc, intid |-> i, handler |-> h]

\* Registers are reached through memap, which only a set-up controller has;
\* without, the access faults and generic_handler exits.
Enter(pc, i, h) ==
  main' = IF i >= MaxIntId THEN main
          ELSE [pc |-> IF written = {} THEN "halted" ELSE pc, intid |-> i, handler |-> h]

gicv3_register_irq ==
  /\ At("idle")
  /\ \E i \in 0 .. MaxIntId, h \in Handlers : Enter("group", i, h)
  /\ UNCHANGED <<fdt, gicVars, dispatch_table, line, cpuVars, called>>

gicv3_unregister_irq ==
  /\ At("idle")
  /\ \E i \in 0 .. MaxIntId : Enter("off", i, Null)
  /\ UNCHANGED <<fdt, gicVars, dispatch_table, line, cpuVars, called>>

IsSpi == main.intid >= FirstSpi

\* One write to a register of the interrupt main is at.
Write(pc, next, field, value) ==
  /\ At(pc)
  /\ conf' = [conf EXCEPT ![main.intid] = [@ EXCEPT ![field] = value]]
  /\ Goto(next)
  /\ UNCHANGED <<fdt, written, busy, active, dispatch_table, line, cpuVars, called>>

\* Faulty variant: the interrupt is enabled before it is routed.
configure_spi_enabled_first ==
  /\ IsSpi
  /\ \/ Write("group", "prio", "group1", TRUE)
     \/ Write("prio", "route", "priority", Prio)
     \/ Write("route", "enable", "enabled", TRUE)
     \/ Write("enable", "store", "routed", TRUE)

configure_spi ==
  /\ IsSpi
  /\ \/ Write("group", "prio", "group1", TRUE)
     \/ Write("prio", "route", "priority", Prio)
     \/ Write("route", "enable", "routed", TRUE)
     \/ Write("enable", "store", "enabled", TRUE)

configure_sgi_ppi ==
  /\ ~IsSpi
  /\ \/ Write("group", "prio", "group1", TRUE)
     \/ Write("prio", "enable", "priority", Prio)
     \/ Write("enable", "store", "enabled", TRUE)

\* Faulty variant: the group is reset, forwarding is not disabled.
unconfigure_sgi_ppi_keeps_enabled ==
  /\ ~IsSpi
  /\ \/ Write("off", "unprio", "group1", FALSE)
     \/ Write("unprio", "ungroup", "priority", 0)
     \/ Write("ungroup", "clear", "group1", FALSE)

unconfigure_sgi_ppi ==
  /\ ~IsSpi
  /\ \/ Write("off", "unprio", "enabled", FALSE)
     \/ Write("unprio", "ungroup", "priority", 0)
     \/ Write("ungroup", "clear", "group1", FALSE)

\* clear_spi_route writes the value configure_spi wrote, affinity 0.0.0.0.
unconfigure_spi ==
  /\ IsSpi
  /\ \/ Write("off", "unprio", "enabled", FALSE)
     \/ Write("unprio", "unroute", "priority", 0)
     \/ Write("unroute", "ungroup", "routed", TRUE)
     \/ Write("ungroup", "clear", "group1", FALSE)

\* The entry is two words, stored by one instruction.
StoreEntry ==
  /\ At("store") \/ At("clear")
  /\ dispatch_table' = [dispatch_table EXCEPT ![main.intid] = main.handler]
  /\ Goto("idle")
  /\ UNCHANGED <<fdt, gicVars, line, cpuVars, called>>

----
(* The hardware: devices, controller and core. *)

\* The controller presents these to the core.
Signalled ==
  {i \in line : /\ {"gicd_ctlr", "waker", "sre", "pmr_high", "igrpen"} \subseteq written
                /\ conf[i].enabled /\ conf[i].group1
                /\ active = {}}

HardwareReady ==
  /\ busy
  /\ busy' = FALSE
  /\ UNCHANGED <<fdt, main, written, conf, active, dispatch_table, line, cpuVars, called>>

\* A device asserts its line.
Assert(i) ==
  /\ i \notin line
  /\ i \in Early \/ dispatch_table[i] # Null
  /\ line' = line \cup {i}
  /\ UNCHANGED <<fdt, main, gicVars, dispatch_table, cpuVars, called>>

\* The request is withdrawn.
Deassert(i) ==
  /\ i \in line \cap Fleeting
  /\ line' = line \ {i}
  /\ UNCHANGED <<fdt, main, gicVars, dispatch_table, cpuVars, called>>

\* The core takes the exception, between two instructions of the context it
\* is in.
TakeIrq ==
  /\ Signalled # {} /\ ~masked /\ ~wild /\ main.pc # "halted"
  /\ Len(stack) < MaxDepth
  /\ stack' = Append(stack, [pc |-> "ack", intid |-> Spurious])
  /\ elr' = Len(stack) /\ spsr' = masked /\ masked' = TRUE
  /\ UNCHANGED <<fdt, main, gicVars, dispatch_table, line, wild, called>>

----
(* curr_el_curr_sp_irq: gicv3_handle_irq and the return from it. *)

Top == stack[Len(stack)]
InHandler(pc) == stack # <<>> /\ Top.pc = pc /\ ~wild
Proceed(top) == stack' = [stack EXCEPT ![Len(stack)] = top]

\* Reading ICC_IAR1_EL1.
Acknowledge ==
  /\ InHandler("ack")
  /\ \/ \E i \in Signalled :
          active' = active \cup {i} /\ Proceed([pc |-> "dispatch", intid |-> i])
     \/ /\ Signalled = {}
        /\ Proceed([pc |-> "spurious", intid |-> Spurious])
        /\ UNCHANGED active
  /\ UNCHANGED <<fdt, main, written, busy, conf, dispatch_table, line,
                 masked, elr, spsr, wild, called>>

\* The spurious path unmasks exceptions before it returns.
SpuriousPath ==
  /\ InHandler("spurious")
  /\ masked' = FALSE
  /\ Proceed([Top EXCEPT !.pc = "eret"])
  /\ UNCHANGED <<fdt, main, gicVars, dispatch_table, line, elr, spsr, wild, called>>

\* The handler runs and its device drops the line; with no handler
\* installed there is only a warning.
Dispatch ==
  /\ InHandler("dispatch")
  /\ line' = IF dispatch_table[Top.intid] = Null THEN line ELSE line \ {Top.intid}
  /\ called' = [intid |-> Top.intid, handler |-> dispatch_table[Top.intid]]
  /\ Proceed([Top EXCEPT !.pc = "eoi"])
  /\ UNCHANGED <<fdt, main, gicVars, dispatch_table, masked, elr, spsr, wild>>

\* Faulty variant: exceptions are unmasked here too.
EndOfInterruptUnmasks ==
  /\ InHandler("eoi")
  /\ active' = IF "eoi_mode" \in written THEN active \ {Top.intid} ELSE active
  /\ masked' = FALSE
  /\ Proceed([Top EXCEPT !.pc = "eret"])
  /\ UNCHANGED <<fdt, main, written, busy, conf, dispatch_table, line, elr, spsr, wild, called>>

\* Writing ICC_EOIR1_EL1: in combined mode it also deactivates.
EndOfInterrupt ==
  /\ InHandler("eoi")
  /\ active' = IF "eoi_mode" \in written THEN active \ {Top.intid} ELSE active
  /\ Proceed([Top EXCEPT !.pc = "eret"])
  /\ UNCHANGED <<fdt, main, written, busy, conf, dispatch_table, line,
                 masked, elr, spsr, wild, called>>

\* RESTORE_REGS and ERET: to the context in ELR_EL1, with the mask in
\* SPSR_EL1.  If that is not the context this activation interrupted, the
\* core runs on with another one's stack.
Eret ==
  /\ InHandler("eret")
  /\ IF elr = Len(stack) - 1
     THEN /\ stack' = SubSeq(stack, 1, Len(stack) - 1)
          /\ masked' = spsr
          /\ UNCHANGED wild
     ELSE wild' = TRUE /\ UNCHANGED <<stack, masked>>
  /\ UNCHANGED <<fdt, main, gicVars, dispatch_table, line, elr, spsr, called>>

----
MainStep ==
  \/ InitGivesUp \/ InitFaults \/ InitWrite
  \/ configure_sgi_ppi \/ configure_spi \/ unconfigure_sgi_ppi \/ unconfigure_spi
  \/ StoreEntry

HandlerStep == Acknowledge \/ SpuriousPath \/ Dispatch \/ EndOfInterrupt \/ Eret

Next ==
  \/ MainStep
  \/ gicv3_register_irq
  \/ gicv3_unregister_irq
  \/ HardwareReady
  \/ \E i \in Intids : Assert(i) \/ Deassert(i)
  \/ TakeIrq
  \/ HandlerStep

\* The core keeps executing, takes an exception that stays signalled, and the
\* controller finishes the writes the driver polls for.  Whether main calls
\* anything, and what devices do, is up to them.
Spec ==
  /\ Init /\ [][Next]_vars
  /\ WF_vars(MainStep) /\ WF_vars(HandlerStep) /\ WF_vars(TakeIrq) /\ WF_vars(HardwareReady)

----
TypeOK ==
  /\ fdt \in {"good", "absent", "unmapped"}
  /\ main \in Steps
  /\ written \subseteq {InitWrites[n] : n \in DOMAIN InitWrites}
  /\ busy \in BOOLEAN
  /\ conf \in [Intids -> Config]
  /\ \A i \in Intids : i < FirstSpi => conf[i] \in PrivateConfig
  /\ dispatch_table \in [Intids -> Handlers \cup {Null}]
  /\ line \subseteq Intids /\ active \subseteq Intids
  /\ masked \in BOOLEAN /\ elr \in 0 .. MaxDepth /\ spsr \in BOOLEAN
  /\ stack \in Seq([pc : {"ack", "spurious", "dispatch", "eoi", "eret"},
                    intid : Intids \cup {Spurious}])
  /\ Len(stack) <= MaxDepth
  /\ wild \in BOOLEAN
  /\ called \in [intid : Intids, handler : Handlers \cup {Null}] \cup {Null}

\* However interrupts interleave with registration and removal, an enabled
\* interrupt is fully configured: it is in Group 1, has the common priority
\* and, if an SPI, a route.
EnabledIsConfigured ==
  \A i \in Intids :
    conf[i].enabled => /\ conf[i].group1 /\ conf[i].priority = Prio
                       /\ i >= FirstSpi => conf[i].routed

\* When main runs, no interrupt is left active: one that were would keep
\* every other at its priority from being signalled again.
NoneLeftActive == stack = <<>> => active = {}

\* No interrupt is taken while gicv3_init is still setting up the
\* controller, or while the controller has not finished.
NotBeforeInit == stack # <<>> => main.pc # "init" /\ ~busy

\* A registered handler is never interrupted, so that handlers are atomic to
\* each other: the only activation another one may come on top of is one
\* that found nothing to acknowledge.
HandlersNotInterrupted ==
  \A k \in 1 .. (Len(stack) - 1) : stack[k].intid = Spurious

\* When main is not in the middle of a call, an enabled interrupt has a
\* handler and one without is disabled: after unregister_irq "the INTID will
\* no longer fire".
IdleIsConsistent ==
  main.pc = "idle" => \A i \in Intids : conf[i].enabled <=> dispatch_table[i] # Null

\* When an enabled interrupt is asserted, some interrupt is eventually
\* dispatched or none is left: the controller never stays blocked.  (The
\* exception is the lost return address that MaskedUntilEret is about.)
InterruptsAreServed ==
  (main.pc # "halted" /\ \E i \in line : conf[i].enabled)
    ~> \/ stack # <<>> /\ Top.pc = "eoi"
       \/ \A i \in line : ~conf[i].enabled
       \/ wild

\* gicv3.h: register_irq "Installs the given handler and private data into
\* the dispatch table for the specified INTID, then configures and enables the
\* interrupt in the GIC."  So no interrupt finds its entry empty.
NeverUnhandled == called # Null => called.handler # Null

\* gicv3.h: handle_irq is "called with IRQs already masked [...].  IRQs are
\* re-enabled on exception return (ERET)."
MaskedUntilEret == stack # <<>> => masked
====
