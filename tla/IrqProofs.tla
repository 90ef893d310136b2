----------------------------- MODULE IrqProofs -----------------------------
(***************************************************************************)
(* The interrupt properties of Irq, for every number of interrupts and     *)
(* handlers, every set of early and fleeting ones and every nesting depth. *)
(***************************************************************************)
EXTENDS Irq, SequenceTheorems, TLAPS

----
(* The inductive invariant *)

Registering == {"group", "prio", "route", "enable", "store"}
Unregistering == {"off", "unprio", "unroute", "ungroup", "clear"}

\* gicv3_init's writes are done in order; main leaves gicv3_init with
\* exceptions unmasked only after the last of them.
WritesInOrder ==
  \A n \in DOMAIN InitWrites : \A m \in 1 .. (n - 1) :
    InitWrites[n] \in written => InitWrites[m] \in written

InitProgress ==
  /\ main.pc = "init" => stack = <<>> /\ masked /\ "unmask" \notin written
  /\ stack # <<>> \/ ~masked => "unmask" \in written
  /\ busy => main.pc = "init" /\ fdt = "good"

\* The activations below the top are those that unmasked exceptions, and an
\* interrupt is active only while the top one is between its acknowledgement
\* and its end.
Nesting ==
  /\ \A k \in 1 .. (Len(stack) - 1) : stack[k].pc = "eret" /\ stack[k].intid = Spurious
  /\ stack # <<>> /\ ~masked => Top.pc = "eret" /\ Top.intid = Spurious
  /\ stack # <<>> /\ Top.pc \in {"dispatch", "eoi"} => Top.intid \in Intids
  /\ stack # <<>> /\ Top.pc \in {"ack", "spurious"} => Top.intid = Spurious
  /\ active # {} =>
       stack # <<>> /\ Top.pc \in {"dispatch", "eoi"} /\ active = {Top.intid}

\* Only the interrupt main is at may be between two states.
Settled(i) == conf[i].enabled <=> dispatch_table[i] # Null

ConfProgress ==
  /\ \A i \in Intids : i # main.intid => Settled(i)
  /\ main.pc \in {"init", "idle", "halted", "group", "off"} => Settled(main.intid)
  /\ main.pc \in {"prio", "route", "enable", "store"} => conf[main.intid].group1
  /\ main.pc \in {"route", "enable", "store"} => conf[main.intid].priority = Prio
  /\ main.pc \in {"enable", "store"} /\ IsSpi => conf[main.intid].routed
  /\ main.pc = "store" => conf[main.intid].enabled
  /\ main.pc \in {"unprio", "unroute", "ungroup", "clear"} => ~conf[main.intid].enabled
  /\ main.pc \in Registering => main.handler # Null
  /\ main.pc \in Unregistering => main.handler = Null

IrqInv ==
  /\ TypeOK /\ WritesInOrder /\ InitProgress /\ Nesting /\ ConfProgress /\ EnabledIsConfigured


----
(* Register writes *)

Updated(field, value) == [conf[main.intid] EXCEPT ![field] = value]

\* The configuration c of the interrupt main is at may be the one when main
\* comes to next.
Allowed(next, c) ==
  /\ c \in Config /\ (main.intid < FirstSpi => c \in PrivateConfig)
  /\ c.enabled => c.group1 /\ c.priority = Prio /\ (main.intid >= FirstSpi => c.routed)
  /\ next \notin {"group", "off"}
  /\ next \in {"prio", "route", "enable", "store"} => c.group1
  /\ next \in {"route", "enable", "store"} => c.priority = Prio
  /\ next \in {"enable", "store"} /\ IsSpi => c.routed
  /\ next = "store" => c.enabled
  /\ next \in {"unprio", "unroute", "ungroup", "clear"} => ~c.enabled
  /\ next \in Registering => main.handler # Null
  /\ next \in Unregistering => main.handler = Null

\* The field written has the new value and the others keep theirs.
LEMMA UpdatedFields ==
  ASSUME TypeOK, NEW b \in BOOLEAN, NEW p \in {0, Prio}
  PROVE  LET c == conf[main.intid]
             g == Updated("group1", b)
             q == Updated("priority", p)
             r == Updated("routed", b)
             e == Updated("enabled", b)
         IN /\ main.intid \in Intids /\ c \in Config /\ {g, q, r, e} \subseteq Config
            /\ main.intid < FirstSpi => c \in PrivateConfig /\ {g, q, e} \subseteq PrivateConfig
            /\ g.group1 = b /\ g.priority = c.priority /\ g.routed = c.routed /\ g.enabled = c.enabled
            /\ q.group1 = c.group1 /\ q.priority = p /\ q.routed = c.routed /\ q.enabled = c.enabled
            /\ r.group1 = c.group1 /\ r.priority = c.priority /\ r.routed = b /\ r.enabled = c.enabled
            /\ e.group1 = c.group1 /\ e.priority = c.priority /\ e.routed = c.routed /\ e.enabled = b
<1>1. main.intid \in Intids /\ conf[main.intid] \in Config
      /\ (main.intid < FirstSpi => conf[main.intid] \in PrivateConfig)
  BY DEF TypeOK, Steps
<1>q. QED
  BY <1>1 DEF Updated, Config, PrivateConfig

\* One register write changes one field of one interrupt and main's place.
LEMMA WriteEffect ==
  ASSUME TypeOK, NEW pc, NEW next, NEW field, NEW value, Write(pc, next, field, value)
  PROVE  /\ main.pc = pc /\ stack = <<>>
         /\ main' = [main EXCEPT !.pc = next]
         /\ main'.pc = next /\ main'.intid = main.intid /\ main'.handler = main.handler
         /\ main.intid \in Intids
         /\ \A i \in Intids : i # main.intid => conf'[i] = conf[i]
         /\ conf' = [conf EXCEPT ![main.intid] = Updated(field, value)]
         /\ conf'[main.intid] = Updated(field, value)
         /\ UNCHANGED <<fdt, written, busy, active, dispatch_table, line, cpuVars, called>>
BY DEF TypeOK, Steps, Write, At, Goto, Updated

\* A register write keeps the invariant if what it makes of the interrupt
\* main is at is allowed where main comes to.
LEMMA WriteStep ==
  ASSUME IrqInv, NEW pc, NEW next \in Registering \cup Unregistering, NEW field, NEW value,
         pc # "init", Write(pc, next, field, value), Allowed(next, Updated(field, value))
  PROVE  IrqInv'
<1>1. TypeOK
  BY DEF IrqInv
<1>2. /\ main.pc = pc /\ stack = <<>>
      /\ main' = [main EXCEPT !.pc = next]
      /\ main'.pc = next /\ main'.intid = main.intid /\ main'.handler = main.handler
      /\ main.intid \in Intids
      /\ \A i \in Intids : i # main.intid => conf'[i] = conf[i]
      /\ conf' = [conf EXCEPT ![main.intid] = Updated(field, value)]
      /\ conf'[main.intid] = Updated(field, value)
      /\ UNCHANGED <<fdt, written, busy, active, dispatch_table, line, cpuVars, called>>
  BY <1>1, WriteEffect
<1>3. TypeOK'
  BY <1>1, <1>2 DEF TypeOK, Steps, Registering, Unregistering, cpuVars, Allowed
<1>4. WritesInOrder'
  BY <1>2 DEF IrqInv, WritesInOrder
<1>5. InitProgress'
  BY <1>2 DEF IrqInv, InitProgress, Registering, Unregistering, cpuVars
<1>6. Nesting'
  BY <1>2 DEF IrqInv, Nesting, Top, cpuVars
<1>7. ConfProgress'
  BY <1>2 DEF IrqInv, ConfProgress, Settled, Registering, Unregistering, IsSpi, Allowed
<1>8. EnabledIsConfigured'
  BY <1>2 DEF IrqInv, EnabledIsConfigured, Allowed
<1>q. QED
  BY <1>3, <1>4, <1>5, <1>6, <1>7, <1>8 DEF IrqInv

\* Configuring an SPI keeps the invariant, write by write.
LEMMA configure_spi_Inv ==
  ASSUME IrqInv, configure_spi
  PROVE  IrqInv'
<1>1. IsSpi /\ TypeOK /\ ConfProgress /\ EnabledIsConfigured /\ main.intid \in Intids
  BY DEF configure_spi, IrqInv, TypeOK, Steps
<1>a. IsSpi <=> ~(main.intid < FirstSpi)
  BY <1>1, IrqAssumption DEF IsSpi, Intids
<1>2. CASE Write("group", "prio", "group1", TRUE)
  <2>1. main.pc = "group"
    BY <1>2 DEF Write, At
  <2>2. Allowed("prio", Updated("group1", TRUE))
    BY <1>1, <1>a, <2>1, UpdatedFields
       DEF Allowed, ConfProgress, EnabledIsConfigured, IsSpi, Registering, Unregistering
  <2>q. QED
    BY <1>2, <2>2, WriteStep DEF Registering, Unregistering
<1>3. CASE Write("prio", "route", "priority", Prio)
  <2>1. main.pc = "prio"
    BY <1>3 DEF Write, At
  <2>2. Allowed("route", Updated("priority", Prio))
    BY <1>1, <1>a, <2>1, UpdatedFields
       DEF Allowed, ConfProgress, EnabledIsConfigured, IsSpi, Registering, Unregistering
  <2>q. QED
    BY <1>3, <2>2, WriteStep DEF Registering, Unregistering
<1>4. CASE Write("route", "enable", "routed", TRUE)
  <2>1. main.pc = "route"
    BY <1>4 DEF Write, At
  <2>2. Allowed("enable", Updated("routed", TRUE))
    BY <1>1, <1>a, <2>1, UpdatedFields
       DEF Allowed, ConfProgress, EnabledIsConfigured, IsSpi, Registering, Unregistering
  <2>q. QED
    BY <1>4, <2>2, WriteStep DEF Registering, Unregistering
<1>5. CASE Write("enable", "store", "enabled", TRUE)
  <2>1. main.pc = "enable"
    BY <1>5 DEF Write, At
  <2>2. Allowed("store", Updated("enabled", TRUE))
    BY <1>1, <1>a, <2>1, UpdatedFields
       DEF Allowed, ConfProgress, EnabledIsConfigured, IsSpi, Registering, Unregistering
  <2>q. QED
    BY <1>5, <2>2, WriteStep DEF Registering, Unregistering
<1>q. QED
  BY <1>2, <1>3, <1>4, <1>5 DEF configure_spi

\* Configuring an SGI or a PPI keeps the invariant, write by write.
LEMMA configure_sgi_ppi_Inv ==
  ASSUME IrqInv, configure_sgi_ppi
  PROVE  IrqInv'
<1>1. ~IsSpi /\ TypeOK /\ ConfProgress /\ EnabledIsConfigured /\ main.intid \in Intids
  BY DEF configure_sgi_ppi, IrqInv, TypeOK, Steps
<1>a. IsSpi <=> ~(main.intid < FirstSpi)
  BY <1>1, IrqAssumption DEF IsSpi, Intids
<1>2. CASE Write("group", "prio", "group1", TRUE)
  <2>1. main.pc = "group"
    BY <1>2 DEF Write, At
  <2>2. Allowed("prio", Updated("group1", TRUE))
    BY <1>1, <1>a, <2>1, UpdatedFields
       DEF Allowed, ConfProgress, EnabledIsConfigured, IsSpi, Registering, Unregistering
  <2>q. QED
    BY <1>2, <2>2, WriteStep DEF Registering, Unregistering
<1>3. CASE Write("prio", "enable", "priority", Prio)
  <2>1. main.pc = "prio"
    BY <1>3 DEF Write, At
  <2>2. Allowed("enable", Updated("priority", Prio))
    BY <1>1, <1>a, <2>1, UpdatedFields
       DEF Allowed, ConfProgress, EnabledIsConfigured, IsSpi, Registering, Unregistering
  <2>q. QED
    BY <1>3, <2>2, WriteStep DEF Registering, Unregistering
<1>4. CASE Write("enable", "store", "enabled", TRUE)
  <2>1. main.pc = "enable"
    BY <1>4 DEF Write, At
  <2>2. Allowed("store", Updated("enabled", TRUE))
    BY <1>1, <1>a, <2>1, UpdatedFields
       DEF Allowed, ConfProgress, EnabledIsConfigured, IsSpi, Registering, Unregistering
  <2>q. QED
    BY <1>4, <2>2, WriteStep DEF Registering, Unregistering
<1>q. QED
  BY <1>2, <1>3, <1>4 DEF configure_sgi_ppi

\* Taking back the configuration of an SGI or a PPI keeps the invariant, write by write.
LEMMA unconfigure_sgi_ppi_Inv ==
  ASSUME IrqInv, unconfigure_sgi_ppi
  PROVE  IrqInv'
<1>1. ~IsSpi /\ TypeOK /\ ConfProgress /\ EnabledIsConfigured /\ main.intid \in Intids
  BY DEF unconfigure_sgi_ppi, IrqInv, TypeOK, Steps
<1>a. IsSpi <=> ~(main.intid < FirstSpi)
  BY <1>1, IrqAssumption DEF IsSpi, Intids
<1>2. CASE Write("off", "unprio", "enabled", FALSE)
  <2>1. main.pc = "off"
    BY <1>2 DEF Write, At
  <2>2. Allowed("unprio", Updated("enabled", FALSE))
    BY <1>1, <1>a, <2>1, UpdatedFields
       DEF Allowed, ConfProgress, EnabledIsConfigured, IsSpi, Registering, Unregistering
  <2>q. QED
    BY <1>2, <2>2, WriteStep DEF Registering, Unregistering
<1>3. CASE Write("unprio", "ungroup", "priority", 0)
  <2>1. main.pc = "unprio"
    BY <1>3 DEF Write, At
  <2>2. Allowed("ungroup", Updated("priority", 0))
    BY <1>1, <1>a, <2>1, UpdatedFields
       DEF Allowed, ConfProgress, EnabledIsConfigured, IsSpi, Registering, Unregistering
  <2>q. QED
    BY <1>3, <2>2, WriteStep DEF Registering, Unregistering
<1>4. CASE Write("ungroup", "clear", "group1", FALSE)
  <2>1. main.pc = "ungroup"
    BY <1>4 DEF Write, At
  <2>2. Allowed("clear", Updated("group1", FALSE))
    BY <1>1, <1>a, <2>1, UpdatedFields
       DEF Allowed, ConfProgress, EnabledIsConfigured, IsSpi, Registering, Unregistering
  <2>q. QED
    BY <1>4, <2>2, WriteStep DEF Registering, Unregistering
<1>q. QED
  BY <1>2, <1>3, <1>4 DEF unconfigure_sgi_ppi

\* Taking back the configuration of an SPI keeps the invariant, write by write.
LEMMA unconfigure_spi_Inv ==
  ASSUME IrqInv, unconfigure_spi
  PROVE  IrqInv'
<1>1. IsSpi /\ TypeOK /\ ConfProgress /\ EnabledIsConfigured /\ main.intid \in Intids
  BY DEF unconfigure_spi, IrqInv, TypeOK, Steps
<1>a. IsSpi <=> ~(main.intid < FirstSpi)
  BY <1>1, IrqAssumption DEF IsSpi, Intids
<1>2. CASE Write("off", "unprio", "enabled", FALSE)
  <2>1. main.pc = "off"
    BY <1>2 DEF Write, At
  <2>2. Allowed("unprio", Updated("enabled", FALSE))
    BY <1>1, <1>a, <2>1, UpdatedFields
       DEF Allowed, ConfProgress, EnabledIsConfigured, IsSpi, Registering, Unregistering
  <2>q. QED
    BY <1>2, <2>2, WriteStep DEF Registering, Unregistering
<1>3. CASE Write("unprio", "unroute", "priority", 0)
  <2>1. main.pc = "unprio"
    BY <1>3 DEF Write, At
  <2>2. Allowed("unroute", Updated("priority", 0))
    BY <1>1, <1>a, <2>1, UpdatedFields
       DEF Allowed, ConfProgress, EnabledIsConfigured, IsSpi, Registering, Unregistering
  <2>q. QED
    BY <1>3, <2>2, WriteStep DEF Registering, Unregistering
<1>4. CASE Write("unroute", "ungroup", "routed", TRUE)
  <2>1. main.pc = "unroute"
    BY <1>4 DEF Write, At
  <2>2. Allowed("ungroup", Updated("routed", TRUE))
    BY <1>1, <1>a, <2>1, UpdatedFields
       DEF Allowed, ConfProgress, EnabledIsConfigured, IsSpi, Registering, Unregistering
  <2>q. QED
    BY <1>4, <2>2, WriteStep DEF Registering, Unregistering
<1>5. CASE Write("ungroup", "clear", "group1", FALSE)
  <2>1. main.pc = "ungroup"
    BY <1>5 DEF Write, At
  <2>2. Allowed("clear", Updated("group1", FALSE))
    BY <1>1, <1>a, <2>1, UpdatedFields
       DEF Allowed, ConfProgress, EnabledIsConfigured, IsSpi, Registering, Unregistering
  <2>q. QED
    BY <1>5, <2>2, WriteStep DEF Registering, Unregistering
<1>q. QED
  BY <1>2, <1>3, <1>4, <1>5 DEF unconfigure_spi

----
(* Controller set-up *)

\* The set-up writes are ten different ones, of which unmasking is the last.
LEMMA InitWritesFacts ==
  /\ DOMAIN InitWrites = 1 .. 10 /\ Len(InitWrites) = 10
  /\ InitWrites[10] = "unmask" /\ InitWrites[8] = "eoi_mode"
  /\ \A m, n \in 1 .. 10 : InitWrites[m] = InitWrites[n] => m = n
  /\ "unmask" \notin Polled
BY DEF InitWrites, Polled

\* A set-up write keeps the invariant.
LEMMA InitWrite_Inv ==
  ASSUME IrqInv, InitWrite
  PROVE  IrqInv'
<1> USE DEF IrqInv
<1>1. PICK n \in 1 .. 10 :
        /\ InitWrites[n] \notin written
        /\ \A m \in 1 .. (n - 1) : InitWrites[m] \in written
        /\ written' = written \cup {InitWrites[n]}
        /\ masked' = (InitWrites[n] # "unmask")
        /\ busy' = (InitWrites[n] \in Polled)
        /\ IF n = 10 THEN Goto("idle") ELSE UNCHANGED main
  BY InitWritesFacts DEF InitWrite
<1>2. /\ main.pc = "init" /\ stack = <<>> /\ fdt = "good" /\ main \in Steps
      /\ UNCHANGED <<fdt, conf, dispatch_table, line, active, elr, spsr, stack, wild, called>>
  BY DEF InitWrite, At, TypeOK
<1>3. /\ main'.pc = IF n = 10 THEN "idle" ELSE "init"
      /\ main'.intid = main.intid /\ main'.handler = main.handler /\ main' \in Steps
  BY <1>1, <1>2 DEF Goto, Steps
<1>4. InitWrites[n] = "unmask" <=> n = 10
  BY InitWritesFacts
<1>5. TypeOK'
  BY <1>1, <1>2, <1>3, InitWritesFacts DEF TypeOK
<1>6. WritesInOrder'
  BY <1>1, InitWritesFacts DEF WritesInOrder
<1>7. InitProgress'
  BY <1>1, <1>2, <1>3, <1>4, InitWritesFacts DEF InitProgress
<1>8. Nesting'
  BY <1>2 DEF Nesting, Top
<1>9. ConfProgress'
  BY <1>2, <1>3 DEF ConfProgress, Settled, IsSpi, Registering, Unregistering
<1>10. EnabledIsConfigured'
  BY <1>2 DEF EnabledIsConfigured
<1>q. QED
  BY <1>5, <1>6, <1>7, <1>8, <1>9, <1>10

\* Giving up and faulting keep the invariant.
LEMMA InitEnds_Inv ==
  ASSUME IrqInv, InitGivesUp \/ InitFaults
  PROVE  IrqInv'
<1> USE DEF IrqInv
<1>1. /\ main.pc = "init" /\ stack = <<>> /\ fdt # "good" /\ main \in Steps
      /\ UNCHANGED <<fdt, gicVars, dispatch_table, line, cpuVars, called>>
  BY DEF InitGivesUp, InitFaults, At, ControllerAbsent, RegistersUnmapped, TypeOK
<1>2. /\ main'.pc \in {"idle", "halted"}
      /\ main'.intid = main.intid /\ main'.handler = main.handler /\ main' \in Steps
  BY <1>1 DEF InitGivesUp, InitFaults, Halt, Goto, Steps
<1>3. TypeOK'
  BY <1>1, <1>2 DEF TypeOK, gicVars, cpuVars
<1>4. WritesInOrder' /\ Nesting' /\ EnabledIsConfigured'
  BY <1>1 DEF WritesInOrder, Nesting, Top, EnabledIsConfigured, gicVars, cpuVars
<1>5. InitProgress'
  BY <1>1, <1>2 DEF InitProgress, gicVars, cpuVars
<1>6. ConfProgress'
  BY <1>1, <1>2 DEF ConfProgress, Settled, IsSpi, Registering, Unregistering, gicVars
<1>q. QED
  BY <1>3, <1>4, <1>5, <1>6

----
(* Calls of main *)

\* Entering gicv3_register_irq or gicv3_unregister_irq keeps the invariant.
LEMMA Enter_Inv ==
  ASSUME IrqInv, gicv3_register_irq \/ gicv3_unregister_irq
  PROVE  IrqInv'
<1> USE DEF IrqInv
<1>1. /\ main.pc = "idle" /\ stack = <<>> /\ main \in Steps
      /\ UNCHANGED <<fdt, gicVars, dispatch_table, line, cpuVars, called>>
  BY DEF gicv3_register_irq, gicv3_unregister_irq, At, TypeOK
<1>2. \/ main' = main
      \/ /\ main' \in Steps
         /\ \/ main'.pc = "halted"
            \/ main'.pc = "group" /\ main'.handler # Null
            \/ main'.pc = "off" /\ main'.handler = Null
  <2>1. CASE gicv3_register_irq
    BY <2>1, IrqAssumption DEF gicv3_register_irq, Enter, Steps, Intids
  <2>2. CASE gicv3_unregister_irq
    BY <2>2, IrqAssumption DEF gicv3_unregister_irq, Enter, Steps, Intids
  <2>q. QED
    BY <2>1, <2>2
<1>3. TypeOK'
  BY <1>1, <1>2 DEF TypeOK, gicVars, cpuVars
<1>4. WritesInOrder' /\ Nesting' /\ EnabledIsConfigured'
  BY <1>1 DEF WritesInOrder, Nesting, Top, EnabledIsConfigured, gicVars, cpuVars
<1>5. InitProgress'
  BY <1>1, <1>2 DEF InitProgress, gicVars, cpuVars
<1>6. ConfProgress'
  <2>1. \A i \in Intids : Settled(i)
    BY <1>1 DEF ConfProgress
  <2>2. \A i \in Intids : Settled(i)'
    BY <1>1, <2>1 DEF Settled, gicVars
  <2>3. main'.intid \in Intids
    BY <1>1, <1>2 DEF Steps
  <2>q. QED
    BY <1>1, <1>2, <2>2, <2>3 DEF ConfProgress, Registering, Unregistering
<1>q. QED
  BY <1>3, <1>4, <1>5, <1>6

\* Storing or clearing the dispatch table entry keeps the invariant: it
\* settles the interrupt main is at.
LEMMA StoreEntry_Inv ==
  ASSUME IrqInv, StoreEntry
  PROVE  IrqInv'
<1> USE DEF IrqInv
<1>1. /\ main.pc \in {"store", "clear"} /\ stack = <<>> /\ main \in Steps
      /\ dispatch_table' = [dispatch_table EXCEPT ![main.intid] = main.handler]
      /\ UNCHANGED <<fdt, gicVars, line, cpuVars, called>>
  BY DEF StoreEntry, At, TypeOK
<1>2. main'.pc = "idle" /\ main'.intid = main.intid /\ main' \in Steps
  BY <1>1 DEF StoreEntry, Goto, Steps
<1>3. TypeOK'
  BY <1>1, <1>2 DEF TypeOK, Steps, gicVars, cpuVars
<1>4. WritesInOrder' /\ Nesting' /\ EnabledIsConfigured'
  BY <1>1 DEF WritesInOrder, Nesting, Top, EnabledIsConfigured, gicVars, cpuVars
<1>5. InitProgress'
  BY <1>1, <1>2 DEF InitProgress, gicVars, cpuVars
<1>6. ConfProgress'
  <2>1. main.intid \in Intids /\ dispatch_table \in [Intids -> Handlers \cup {Null}]
    BY <1>1 DEF TypeOK, Steps
  <2>2. \A i \in Intids : i # main.intid => Settled(i)'
    BY <1>1, <2>1 DEF ConfProgress, Settled, gicVars
  <2>3. conf'[main.intid].enabled <=> main.handler # Null
    BY <1>1 DEF ConfProgress, Registering, Unregistering, gicVars
  <2>4. dispatch_table'[main.intid] = main.handler
    BY <1>1, <2>1
  <2>q. QED
    BY <1>1, <1>2, <2>2, <2>3, <2>4 DEF ConfProgress, Settled, Registering, Unregistering
<1>q. QED
  BY <1>3, <1>4, <1>5, <1>6

----
(* The hardware *)

\* Devices and the controller keep the invariant.
LEMMA Hardware_Inv ==
  ASSUME IrqInv, HardwareReady \/ \E i \in Intids : Assert(i) \/ Deassert(i)
  PROVE  IrqInv'
<1> USE DEF IrqInv
<1>1. /\ busy' \in BOOLEAN /\ (busy' => busy) /\ line' \subseteq Intids
      /\ UNCHANGED <<fdt, main, written, conf, active, dispatch_table, cpuVars, called>>
  <2>1. CASE HardwareReady
    BY <2>1 DEF HardwareReady, TypeOK
  <2>2. CASE \E i \in Intids : Assert(i) \/ Deassert(i)
    BY <2>2 DEF Assert, Deassert, TypeOK, gicVars
  <2>q. QED
    BY <2>1, <2>2
<1>2. TypeOK'
  BY <1>1 DEF TypeOK, cpuVars
<1>3. WritesInOrder' /\ Nesting' /\ EnabledIsConfigured'
  BY <1>1 DEF WritesInOrder, Nesting, Top, EnabledIsConfigured, cpuVars
<1>4. InitProgress' /\ ConfProgress'
  BY <1>1 DEF InitProgress, ConfProgress, Settled, IsSpi, cpuVars
<1>q. QED
  BY <1>2, <1>3, <1>4

----
(* The vector *)

Activations == [pc : {"ack", "spurious", "dispatch", "eoi", "eret"}, intid : Intids \cup {Spurious}]

\* The number read when nothing is pending is no interrupt's.
LEMMA SpuriousIsNone == Spurious \notin Intids /\ Spurious \in Nat
BY IrqAssumption DEF Spurious, Intids

\* A sequence without its last element.
LEMMA FrontProperties ==
  ASSUME NEW S, NEW s \in Seq(S), Len(s) # 0
  PROVE  /\ SubSeq(s, 1, Len(s) - 1) \in Seq(S)
         /\ Len(SubSeq(s, 1, Len(s) - 1)) = Len(s) - 1
         /\ \A k \in 1 .. (Len(s) - 1) : SubSeq(s, 1, Len(s) - 1)[k] = s[k]
<1> DEFINE n == Len(s) - 1
           f == SubSeq(s, 1, n)
<1>1. n \in Nat /\ \A k \in 1 .. n : s[k] \in S
  OBVIOUS
<1> HIDE DEF n
<1>2. /\ SubSeq(s, 1, n) \in Seq(S)
      /\ Len(SubSeq(s, 1, n)) = IF 1 <= n THEN n - 1 + 1 ELSE 0
      /\ \A k \in 1 .. (n - 1 + 1) : SubSeq(s, 1, n)[k] = s[1 + k - 1]
  BY <1>1, SubSeqProperties
<1> HIDE DEF f
<1>3. Len(f) = n
  BY <1>1, <1>2 DEF f
<1>4. \A k \in 1 .. n : f[k] = s[k]
  <2>1. n - 1 + 1 = n /\ \A k \in 1 .. n : 1 + k - 1 = k
    BY <1>1
  <2>q. QED
    BY <1>2, <2>1, Zenon DEF f
<1>q. QED
  BY <1>2, <1>3, <1>4 DEF n, f

\* The stack of activations and its top.
LEMMA StackFacts ==
  ASSUME TypeOK, stack # <<>>
  PROVE  /\ stack \in Seq(Activations) /\ Len(stack) \in Nat \ {0}
         /\ Top = stack[Len(stack)] /\ Top \in Activations
<1>1. stack \in Seq(Activations)
  BY DEF TypeOK, Activations
<1>q. QED
  BY <1>1 DEF Top

\* A step of an activation changes the top and no other.
LEMMA ProceedEffect ==
  ASSUME TypeOK, stack # <<>>, NEW top \in Activations, Proceed(top)
  PROVE  /\ stack' \in Seq(Activations) /\ Len(stack') = Len(stack) /\ stack' # <<>>
         /\ Top' = top
         /\ \A k \in 1 .. (Len(stack) - 1) : stack'[k] = stack[k]
BY StackFacts DEF Proceed, Top

\* Taking an interrupt keeps the invariant: exceptions are not masked, so
\* that the activation it comes on top of, if any, found nothing pending.
LEMMA TakeIrq_Inv ==
  ASSUME IrqInv, TakeIrq
  PROVE  IrqInv'
<1> USE DEF IrqInv
<1> DEFINE new == [pc |-> "ack", intid |-> Spurious]
<1>1. /\ stack' = Append(stack, new) /\ elr' = Len(stack) /\ spsr' = masked /\ masked' = TRUE
      /\ ~masked /\ active = {} /\ Len(stack) < MaxDepth
      /\ UNCHANGED <<fdt, main, gicVars, dispatch_table, line, wild, called>>
  BY DEF TakeIrq, Signalled
<1>2. stack \in Seq(Activations) /\ Len(stack) \in Nat /\ new \in Activations
  BY DEF TypeOK, Activations
<1>3. /\ stack' \in Seq(Activations) /\ Len(stack') = Len(stack) + 1 /\ stack' # <<>>
      /\ Top' = new /\ \A k \in 1 .. Len(stack) : stack'[k] = stack[k]
  BY <1>1, <1>2 DEF Top
<1>4. TypeOK'
  BY <1>1, <1>2, <1>3, IrqAssumption DEF TypeOK, Activations, gicVars
<1>5. WritesInOrder' /\ EnabledIsConfigured'
  BY <1>1 DEF WritesInOrder, EnabledIsConfigured, gicVars
<1>6. InitProgress' /\ ConfProgress'
  BY <1>1 DEF InitProgress, ConfProgress, Settled, IsSpi, gicVars
<1>7. Nesting'
  <2>1. \A k \in 1 .. Len(stack) : stack[k].pc = "eret" /\ stack[k].intid = Spurious
    <3>1. ASSUME stack # <<>>
          PROVE  stack[Len(stack)].pc = "eret" /\ stack[Len(stack)].intid = Spurious
      BY <1>1, <3>1 DEF Nesting, Top
    <3>q. QED
      BY <1>2, <3>1 DEF Nesting
  <2>2. \A k \in 1 .. (Len(stack') - 1) : stack'[k].pc = "eret" /\ stack'[k].intid = Spurious
    BY <1>2, <1>3, <2>1
  <2>q. QED
    BY <1>1, <1>3, <2>2 DEF Nesting, gicVars
<1>q. QED
  BY <1>4, <1>5, <1>6, <1>7

\* A step of the top activation keeps the invariant if what it makes of that
\* activation, the active interrupts and the mask fits together.
LEMMA HandlerStep_Inv ==
  ASSUME IrqInv, stack # <<>>, NEW top \in Activations, Proceed(top),
         UNCHANGED <<fdt, main, written, busy, conf, dispatch_table, elr, spsr, wild>>,
         line' \subseteq Intids, active' \subseteq Intids, masked' \in BOOLEAN,
         called' \in [intid : Intids, handler : Handlers \cup {Null}] \cup {Null},
         ~masked' => top.pc = "eret" /\ top.intid = Spurious,
         top.pc \in {"dispatch", "eoi"} => top.intid \in Intids,
         top.pc \in {"ack", "spurious"} => top.intid = Spurious,
         active' # {} => top.pc \in {"dispatch", "eoi"} /\ active' = {top.intid}
  PROVE  IrqInv'
<1> USE DEF IrqInv
<1>1. /\ stack' \in Seq(Activations) /\ Len(stack') = Len(stack) /\ stack' # <<>>
      /\ Top' = top
      /\ \A k \in 1 .. (Len(stack) - 1) : stack'[k] = stack[k]
  BY ProceedEffect
<1>2. TypeOK'
  BY <1>1 DEF TypeOK, Activations
<1>3. WritesInOrder' /\ EnabledIsConfigured'
  BY DEF WritesInOrder, EnabledIsConfigured
<1>4. InitProgress' /\ ConfProgress'
  BY <1>1 DEF InitProgress, ConfProgress, Settled, IsSpi
<1>5. Nesting'
  BY <1>1 DEF Nesting
<1>q. QED
  BY <1>2, <1>3, <1>4, <1>5

\* Acknowledging keeps the invariant: nothing else is active then.
LEMMA Acknowledge_Inv ==
  ASSUME IrqInv, Acknowledge
  PROVE  IrqInv'
<1>1. /\ stack # <<>> /\ Top.pc = "ack" /\ masked /\ TypeOK /\ active = {}
      /\ UNCHANGED <<fdt, main, written, busy, conf, dispatch_table, line, masked, elr, spsr, wild, called>>
  BY DEF IrqInv, Acknowledge, InHandler, Nesting
<1>2. ASSUME NEW i \in Signalled, active' = active \cup {i},
             Proceed([pc |-> "dispatch", intid |-> i])
      PROVE  IrqInv'
  <2>1. i \in Intids
    BY <1>1 DEF Signalled, TypeOK
  <2>2. [pc |-> "dispatch", intid |-> i] \in Activations
    BY <2>1 DEF Activations
  <2>q. QED
    BY <1>1, <1>2, <2>1, <2>2, HandlerStep_Inv DEF TypeOK
<1>3. ASSUME Proceed([pc |-> "spurious", intid |-> Spurious]), UNCHANGED active
      PROVE  IrqInv'
  <2>1. [pc |-> "spurious", intid |-> Spurious] \in Activations
    BY DEF Activations
  <2>q. QED
    BY <1>1, <1>3, <2>1, HandlerStep_Inv DEF TypeOK
<1>q. QED
  BY <1>2, <1>3 DEF Acknowledge

\* The spurious path keeps the invariant.
LEMMA SpuriousPath_Inv ==
  ASSUME IrqInv, SpuriousPath
  PROVE  IrqInv'
<1> DEFINE top == [Top EXCEPT !.pc = "eret"]
<1>1. /\ stack # <<>> /\ Top.pc = "spurious" /\ TypeOK /\ active = {} /\ masked' = FALSE
      /\ UNCHANGED <<fdt, main, written, busy, conf, active, dispatch_table, line, elr, spsr, wild, called>>
  BY DEF IrqInv, SpuriousPath, InHandler, Nesting, gicVars
<1>2. Top.intid = Spurious
  BY <1>1 DEF IrqInv, Nesting
<1>3. top \in Activations /\ top.pc = "eret" /\ top.intid = Spurious
  BY <1>1, <1>2, StackFacts DEF Activations
<1>4. Proceed(top)
  BY DEF SpuriousPath
<1>q. QED
  BY <1>1, <1>3, <1>4, HandlerStep_Inv DEF TypeOK

\* Dispatching keeps the invariant.
LEMMA Dispatch_Inv ==
  ASSUME IrqInv, Dispatch
  PROVE  IrqInv'
<1> DEFINE top == [Top EXCEPT !.pc = "eoi"]
<1>1. /\ stack # <<>> /\ Top.pc = "dispatch" /\ TypeOK /\ Top.intid \in Intids
      /\ masked /\ (active # {} => active = {Top.intid})
      /\ UNCHANGED <<fdt, main, written, busy, conf, active, dispatch_table, masked, elr, spsr, wild>>
  BY DEF IrqInv, Dispatch, InHandler, Nesting, gicVars
<1>2. top \in Activations /\ top.pc = "eoi" /\ top.intid = Top.intid
  BY <1>1, StackFacts DEF Activations
<1>3. line' \subseteq Intids /\ Proceed(top)
  BY <1>1 DEF Dispatch, TypeOK
<1>4. called' \in [intid : Intids, handler : Handlers \cup {Null}] \cup {Null}
  BY <1>1 DEF Dispatch, TypeOK
<1>q. QED
  BY <1>1, <1>2, <1>3, <1>4, HandlerStep_Inv DEF TypeOK

\* Ending the interrupt keeps the invariant: it deactivates it, for
\* gicv3_init has set the combined mode.
LEMMA EndOfInterrupt_Inv ==
  ASSUME IrqInv, EndOfInterrupt
  PROVE  IrqInv'
<1> DEFINE top == [Top EXCEPT !.pc = "eret"]
<1>1. /\ stack # <<>> /\ Top.pc = "eoi" /\ TypeOK /\ masked
      /\ (active # {} => active = {Top.intid})
      /\ UNCHANGED <<fdt, main, written, busy, conf, dispatch_table, line, masked, elr, spsr, wild, called>>
  BY DEF IrqInv, EndOfInterrupt, InHandler, Nesting
<1>2. top \in Activations /\ top.pc = "eret"
  BY <1>1, StackFacts DEF Activations
<1>3. "eoi_mode" \in written
  <2>1. "unmask" \in written
    BY <1>1 DEF IrqInv, InitProgress
  <2>q. QED
    BY <2>1, InitWritesFacts DEF IrqInv, WritesInOrder
<1>4. active' = {} /\ Proceed(top)
  BY <1>1, <1>3 DEF EndOfInterrupt
<1>q. QED
  BY <1>1, <1>2, <1>4, HandlerStep_Inv DEF TypeOK

\* Returning keeps the invariant: what it uncovers is an activation that is
\* itself about to return.
LEMMA Eret_Inv ==
  ASSUME IrqInv, Eret
  PROVE  IrqInv'
<1> USE DEF IrqInv
<1>1. /\ stack # <<>> /\ Top.pc = "eret" /\ TypeOK /\ active = {} /\ "unmask" \in written
      /\ main.pc # "init"
      /\ UNCHANGED <<fdt, main, written, busy, conf, active, dispatch_table, line, elr, spsr, called>>
  BY DEF Eret, InHandler, Nesting, InitProgress, gicVars
<1>2. CASE stack' = stack /\ masked' = masked /\ wild' = TRUE
  BY <1>1, <1>2
     DEF TypeOK, WritesInOrder, EnabledIsConfigured, InitProgress, ConfProgress, Settled, IsSpi,
         Nesting, Top
<1>3. CASE stack' = SubSeq(stack, 1, Len(stack) - 1) /\ masked' = spsr /\ wild' = wild
  <2>1. stack \in Seq(Activations) /\ Len(stack) \in Nat \ {0}
    BY <1>1, StackFacts
  <2>2. /\ stack' \in Seq(Activations) /\ Len(stack') = Len(stack) - 1
        /\ \A k \in 1 .. (Len(stack) - 1) : stack'[k] = stack[k]
    BY <1>3, <2>1, FrontProperties
  <2>3. TypeOK'
    BY <1>1, <1>3, <2>1, <2>2, IrqAssumption DEF TypeOK, Activations
  <2>4. WritesInOrder' /\ EnabledIsConfigured'
    BY <1>1 DEF WritesInOrder, EnabledIsConfigured
  <2>5. InitProgress' /\ ConfProgress'
    BY <1>1 DEF InitProgress, ConfProgress, Settled, IsSpi
  <2>6. \A k \in 1 .. Len(stack') : stack'[k].pc = "eret" /\ stack'[k].intid = Spurious
    BY <2>1, <2>2 DEF Nesting
  <2>7. stack' # <<>> => Top'.pc = "eret" /\ Top'.intid = Spurious
    BY <2>2, <2>6 DEF Top
  <2>8. Nesting'
    BY <1>1, <2>1, <2>2, <2>6, <2>7 DEF Nesting
  <2>q. QED
    BY <2>3, <2>4, <2>5, <2>8
<1>q. QED
  BY <1>2, <1>3 DEF Eret

----
(* The theorems *)

\* IrqInv holds initially.
LEMMA InitInv == Init => IrqInv
<1> SUFFICES ASSUME Init PROVE IrqInv
  OBVIOUS
<1>1. TypeOK
  BY IrqAssumption DEF Init, TypeOK, Steps, Config, PrivateConfig, Rest, Intids
<1>2. WritesInOrder /\ InitProgress /\ Nesting /\ EnabledIsConfigured
  BY DEF Init, WritesInOrder, InitProgress, Nesting, EnabledIsConfigured, Rest, Top
<1>3. ConfProgress
  BY IrqAssumption DEF Init, ConfProgress, Settled, Rest, Intids, Registering, Unregistering
<1>q. QED
  BY <1>1, <1>2, <1>3 DEF IrqInv

\* Every step keeps IrqInv.
LEMMA NextInv == IrqInv /\ [Next]_vars => IrqInv'
<1> SUFFICES ASSUME IrqInv, [Next]_vars PROVE IrqInv'
  OBVIOUS
<1>1. CASE UNCHANGED vars
  BY <1>1 DEF vars, IrqInv, TypeOK, WritesInOrder, InitProgress, Nesting, Top, ConfProgress, Settled,
              IsSpi, EnabledIsConfigured
<1>2. CASE MainStep
  BY <1>2, InitEnds_Inv, InitWrite_Inv, configure_sgi_ppi_Inv, configure_spi_Inv,
     unconfigure_sgi_ppi_Inv, unconfigure_spi_Inv, StoreEntry_Inv DEF MainStep
<1>3. CASE gicv3_register_irq \/ gicv3_unregister_irq
  BY <1>3, Enter_Inv
<1>4. CASE HardwareReady \/ \E i \in Intids : Assert(i) \/ Deassert(i)
  BY <1>4, Hardware_Inv
<1>5. CASE TakeIrq
  BY <1>5, TakeIrq_Inv
<1>6. CASE HandlerStep
  BY <1>6, Acknowledge_Inv, SpuriousPath_Inv, Dispatch_Inv, EndOfInterrupt_Inv, Eret_Inv
     DEF HandlerStep
<1>q. QED
  BY <1>1, <1>2, <1>3, <1>4, <1>5, <1>6 DEF Next

\* The parts of the invariant imply the properties the runs check.
LEMMA InvImplies ==
  IrqInv => /\ NoneLeftActive /\ NotBeforeInit /\ HandlersNotInterrupted /\ IdleIsConsistent
<1> SUFFICES ASSUME IrqInv
             PROVE  NoneLeftActive /\ NotBeforeInit /\ HandlersNotInterrupted /\ IdleIsConsistent
  OBVIOUS
<1>1. NoneLeftActive /\ HandlersNotInterrupted
  BY DEF IrqInv, Nesting, NoneLeftActive, HandlersNotInterrupted
<1>2. NotBeforeInit
  BY DEF IrqInv, InitProgress, NotBeforeInit
<1>3. IdleIsConsistent
  BY DEF IrqInv, ConfProgress, Settled, IdleIsConsistent
<1>q. QED
  BY <1>1, <1>2, <1>3

\* The invariant holds in every reachable state.
THEOREM IrqInvariant == Spec => []IrqInv
BY InitInv, NextInv, PTL DEF Spec

\* The states of the controller, the core and the driver are well typed;
\* private interrupts have no route.
THEOREM TypeCorrect == Spec => []TypeOK
<1>1. IrqInv => TypeOK
  BY DEF IrqInv
<1>q. QED
  BY <1>1, IrqInvariant, PTL

\* However interrupts interleave with the register writes of
\* gicv3_register_irq and gicv3_unregister_irq, an enabled interrupt is fully
\* configured.
THEOREM EnabledConfigured == Spec => []EnabledIsConfigured
<1>1. IrqInv => EnabledIsConfigured
  BY DEF IrqInv
<1>q. QED
  BY <1>1, IrqInvariant, PTL

\* gicv3_handle_irq leaves no interrupt active when main runs on.
THEOREM NoneActive == Spec => []NoneLeftActive
BY InvImplies, IrqInvariant, PTL

\* No interrupt is taken before gicv3_init is done.
THEOREM NoneBeforeInit == Spec => []NotBeforeInit
BY InvImplies, IrqInvariant, PTL

\* A registered handler is never interrupted, whatever the nesting depth.
THEOREM HandlersAtomic == Spec => []HandlersNotInterrupted
BY InvImplies, IrqInvariant, PTL

\* Between calls of main, exactly the interrupts with a handler are enabled.
THEOREM IdleConsistent == Spec => []IdleIsConsistent
BY InvImplies, IrqInvariant, PTL
====
