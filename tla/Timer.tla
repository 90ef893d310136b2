------------------------------- MODULE Timer -------------------------------
(***************************************************************************)
(* The periodic tick: timer/timer.c and drivers/arm_timer.c over the EL1   *)
(* physical timer.                                                         *)
(*                                                                         *)
(* The counter advances at any time, also between two instructions of the  *)
(* interrupt handler, which may therefore take longer than a period.  The  *)
(* handler is atomic to main and other handlers                            *)
(* (Irq!HandlersNotInterrupted).  Which interrupt is the timer's is found  *)
(* in the device tree (Fdt).                                               *)
(***************************************************************************)
EXTENDS Fdt

CONSTANTS
  Freq,       \* CNTFRQ_EL0
  PerSecond,  \* MILLISECONDS_PER_SECOND
  Periods,    \* periods asked for, in milliseconds
  Trees,      \* the device trees
  MaxIntId,   \* MAX_INT_ID of the interrupt controller
  TimerIntid, \* the INTID of the EL1 physical timer, 30
  MaxNow,     \* bound on the counter, which does not come near its last value
  Null

Word == Cell * Cell   \* 2^64
U32Max == Cell - 1    \* UINT32_MAX

ASSUME TimerAssumption ==
  /\ Freq \in Nat /\ PerSecond \in Nat \ {0}
  /\ Periods \subseteq Nat
  /\ Trees \subseteq Seq(Node)
  /\ MaxIntId \in Nat /\ TimerIntid \in 0 .. (MaxIntId - 1)
  /\ MaxNow \in 1 .. (Word - Cell)
  /\ Null \notin Nat

VARIABLES
  tree,          \* the device tree
  period_ms,     \* the period asked for
  now,           \* CNTPCT_EL0
  cval,          \* CNTP_CVAL_EL0
  ctl,           \* CNTP_CTL_EL0: [enable, imask]
  period_ticks,
  tick_handler,  \* is a handler installed?
  registered,    \* the INTID that has timer_isr, or Null
  main,          \* where set-up is
  isr,           \* where timer_isr is
  base,          \* the counter value set-up read, then history: where ticks count from
  ticks          \* history: calls of the tick handler

hwVars == <<now, cval, ctl>>
args == <<tree, period_ms>>
vars == <<args, now, cval, ctl, period_ticks, tick_handler, registered, main, isr, base, ticks>>

Init ==
  /\ tree \in Trees /\ period_ms \in Periods
  /\ now \in 0 .. 1 /\ cval = 0 /\ ctl = [enable |-> FALSE, imask |-> FALSE]
  /\ period_ticks = 0 /\ tick_handler = FALSE /\ registered = Null
  /\ main = "start" /\ isr = "idle"
  /\ base = Null /\ ticks = 0

----
(* setup_sys_timer, setup_arm64_sys_timer *)

Main(from, to) == isr = "idle" /\ main = from /\ main' = to

\* MAX_TIMERS, MAX_TIMER_INTERRUPTS and NS_PHYSICAL_TIMER_INTR_INDEX, the
\* latter counted from 1
MAX_TIMERS == 10
MAX_TIMER_INTERRUPTS == 4
NS_PHYSICAL_TIMER_INTR == 2

timer_nodes == get_nodes_by_compatible(tree, "arm,armv8-timer", MAX_TIMERS)

\* Read only when there is one timer node.
intrs == get_intr_property(tree, timer_nodes[1], MAX_TIMER_INTERRUPTS)

\* Exactly one timer node, with an entry for the non-secure physical timer.
FindTimer ==
  /\ Main("start", IF Len(timer_nodes) = 1 /\ Len(intrs) >= NS_PHYSICAL_TIMER_INTR
                   THEN "period" ELSE "failed")
  /\ UNCHANGED <<args, hwVars, period_ticks, tick_handler, registered, isr, base, ticks>>

\* In 64-bit arithmetic.
PeriodTicks(ms) == ((Freq * ms) % Word) \div PerSecond

\* Faulty variant: the range is not checked.
set_period_unchecked ==
  /\ period_ticks' = PeriodTicks(period_ms)
  /\ Main("period", "intid")
  /\ UNCHANGED <<args, hwVars, tick_handler, registered, isr, base, ticks>>

\* set_period stores the period before it checks it.
set_period ==
  /\ period_ticks' = PeriodTicks(period_ms)
  /\ Main("period", IF period_ticks' <= U32Max THEN "intid" ELSE "failed")
  /\ UNCHANGED <<args, hwVars, tick_handler, registered, isr, base, ticks>>

intid == interrupt_to_intid(intrs[NS_PHYSICAL_TIMER_INTR])

FindIntid ==
  /\ Main("intid", IF intid >= 0 THEN "handler" ELSE "failed")
  /\ UNCHANGED <<args, hwVars, period_ticks, tick_handler, registered, isr, base, ticks>>

\* setup_isr, up to the registration
InstallHandler ==
  /\ Main("handler", "register")
  /\ tick_handler' = TRUE
  /\ UNCHANGED <<args, hwVars, period_ticks, registered, isr, base, ticks>>

\* icu_register_irq refuses an INTID out of range.
RegisterIsr ==
  /\ Main("register", IF intid < MaxIntId THEN "read" ELSE "failed")
  /\ registered' = IF intid < MaxIntId THEN intid ELSE registered
  /\ UNCHANGED <<args, hwVars, period_ticks, tick_handler, isr, base, ticks>>

ReadCounter ==
  /\ Main("read", "cval")
  /\ base' = now
  /\ UNCHANGED <<args, hwVars, period_ticks, tick_handler, registered, isr, ticks>>

\* Faulty variant: the counter's value is not added.
SetCompareRelative ==
  /\ Main("cval", "ctl")
  /\ cval' = period_ticks
  /\ UNCHANGED <<args, now, ctl, period_ticks, tick_handler, registered, isr, base, ticks>>

SetCompare ==
  /\ Main("cval", "ctl")
  /\ cval' = (base + period_ticks) % Word
  /\ UNCHANGED <<args, now, ctl, period_ticks, tick_handler, registered, isr, base, ticks>>

Enable ==
  /\ Main("ctl", "running")
  /\ ctl' = [enable |-> TRUE, imask |-> FALSE]
  /\ UNCHANGED <<args, now, cval, period_ticks, tick_handler, registered, isr, base, ticks>>

----
(* The hardware *)

\* ISTATUS
ConditionMet == ctl.enable /\ now >= cval

Advance ==
  /\ now < MaxNow
  /\ now' = now + 1
  /\ UNCHANGED <<args, cval, ctl, period_ticks, tick_handler, registered, main, isr, base, ticks>>

\* The interrupt is level sensitive.  It reaches timer_isr if that is
\* registered for it.
Fire ==
  /\ isr = "idle" /\ registered = TimerIntid /\ ConditionMet /\ ~ctl.imask
  /\ isr' = "check"
  /\ UNCHANGED <<args, hwVars, period_ticks, tick_handler, registered, main, base, ticks>>

----
(* timer_isr *)

\* It reads CNTP_CTL_EL0 and masks the timer, or returns.
MaskTimer ==
  /\ isr = "check"
  /\ IF ConditionMet
     THEN ctl' = [ctl EXCEPT !.imask = TRUE] /\ isr' = "tick"
     ELSE isr' = "idle" /\ UNCHANGED ctl
  /\ UNCHANGED <<args, now, cval, period_ticks, tick_handler, registered, main, base, ticks>>

CallHandler ==
  /\ isr = "tick"
  /\ ticks' = ticks + 1
  /\ isr' = "reload"
  /\ UNCHANGED <<args, hwVars, period_ticks, tick_handler, registered, main, base>>

\* Faulty variant: the next period is counted from now.
ReloadFromNow ==
  /\ isr = "reload"
  /\ cval' = (now + period_ticks) % Word
  /\ isr' = "rearm"
  /\ UNCHANGED <<args, now, ctl, period_ticks, tick_handler, registered, main, base, ticks>>

Reload ==
  /\ isr = "reload"
  /\ cval' = (cval + period_ticks) % Word
  /\ isr' = "rearm"
  /\ UNCHANGED <<args, now, ctl, period_ticks, tick_handler, registered, main, base, ticks>>

\* Faulty variant: the timer stays masked.
RearmMasked ==
  /\ isr = "rearm"
  /\ ctl' = [ctl EXCEPT !.enable = TRUE]
  /\ isr' = "idle"
  /\ UNCHANGED <<args, now, cval, period_ticks, tick_handler, registered, main, base, ticks>>

Rearm ==
  /\ isr = "rearm"
  /\ ctl' = [enable |-> TRUE, imask |-> FALSE]
  /\ isr' = "idle"
  /\ UNCHANGED <<args, now, cval, period_ticks, tick_handler, registered, main, base, ticks>>

----
Setup ==
  \/ FindTimer \/ set_period \/ FindIntid \/ InstallHandler \/ RegisterIsr
  \/ ReadCounter \/ SetCompare \/ Enable

Isr == Fire \/ MaskTimer \/ CallHandler \/ Reload \/ Rearm

Next == Setup \/ Advance \/ Isr

\* A pending timer interrupt is taken, its handler runs on, and main gets
\* through set-up; the counter may stop.
Spec == Init /\ [][Next]_vars /\ WF_vars(Isr) /\ WF_vars(Setup)

----
TypeOK ==
  /\ now \in 0 .. MaxNow /\ cval \in 0 .. (Word - 1)
  /\ ctl \in [enable : BOOLEAN, imask : BOOLEAN]
  /\ period_ticks \in 0 .. (Word - 1)
  /\ ctl.enable => period_ticks <= U32Max
  /\ tick_handler \in BOOLEAN /\ registered \in (0 .. (MaxIntId - 1)) \cup {Null}
  /\ main \in {"start", "period", "intid", "failed", "handler", "register", "read", "cval", "ctl", "running"}
  /\ isr \in {"idle", "check", "tick", "reload", "rearm"}
  /\ base \in Nat \cup {Null} /\ ticks \in Nat

\* The ticks keep to the grid base + n * period, however late the handler
\* was called or however long it took: lateness does not add up.
NoDrift ==
  main = "running" /\ isr = "idle" => cval = base + (ticks + 1) * period_ticks

\* The n-th tick never comes before n periods are over.
NeverEarly == main = "running" => ticks * period_ticks <= now - base

\* No tick is lost: once n periods are over, the handler is called for the
\* n-th time, also when earlier calls overran their period.
NoTickLost ==
  \A n \in 1 .. MaxNow :
    (main = "running" /\ registered = TimerIntid /\ now - base >= n * period_ticks)
      ~> (ticks >= n)

----
(* What set-up is to make of the device tree. *)

\* The node and its ancestors.
Lineage(n) ==
  LET Up[k \in 0 .. Len(tree)] == IF k = 0 THEN {} ELSE {k} \cup Up[tree[k].parent] IN Up[n]

\* Node c is what the interrupts of node n refer to: the phandle given by the
\* nearest node of its lineage that gives one is c's; if that is no node's, or
\* there is none, c is the first controller of the tree.
Governs(c, n) ==
  LET givers == {k \in Lineage(n) : tree[k].interrupt_parent # Absent}
      named == {k \in DOMAIN tree : \E g \in givers :
                  /\ \A h \in givers : h <= g
                  /\ tree[k].phandle = tree[g].interrupt_parent}
      default == {k \in DOMAIN tree : tree[k].controller}
      chosen == IF named # {} THEN named ELSE default
  IN c \in chosen /\ \A k \in chosen : c <= k

\* The INTID of the second interrupt specifier, of three cells, of the only
\* timer; nothing if there is no such timer or no such INTID.
Described ==
  LET timers == {n \in DOMAIN tree : \E k \in DOMAIN tree[n].compatible :
                   tree[n].compatible[k] = "arm,armv8-timer"}
      usable == {n \in timers :
        /\ timers = {n}
        /\ \E c \in DOMAIN tree : Governs(c, n) /\ tree[c].interrupt_cells = 3
        /\ Len(tree[n].interrupts) >= 6 /\ Len(tree[n].interrupts) % 3 = 0}
      spis == {32 + tree[n].interrupts[5] : n \in {k \in usable : tree[k].interrupts[4] = 0}}
      ppis == {16 + tree[n].interrupts[5] : n \in {k \in usable : tree[k].interrupts[4] = 1}}
  IN {i \in spis \cup ppis : i < MaxIntId}

Startable == Described # {} /\ Freq * period_ms < (U32Max + 1) * PerSecond

Started ==
  /\ main = "running"
  /\ registered \in Described
  /\ period_ticks = (Freq * period_ms) \div PerSecond

\* Set-up never hangs.  It starts the timer, with its handler on the interrupt
\* the tree describes, exactly when the tree describes one and the period fits
\* in 32 bits; otherwise it leaves the timer off.
SetupOutcome ==
  /\ Startable => <>[]Started
  /\ ~Startable => <>[](main = "failed" /\ registered = Null /\ ~ctl.enable)
====
