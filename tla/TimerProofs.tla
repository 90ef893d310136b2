---------------------------- MODULE TimerProofs ----------------------------
(***************************************************************************)
(* The timer's properties, for every frequency, period, device tree and    *)
(* word size.                                                              *)
(***************************************************************************)
EXTENDS Timer, FiniteSetTheorems, SequenceTheorems, TLAPS

----
(* The inductive invariant *)

\* How many periods after base the compare value stands: the handler's call
\* has been counted and the value not yet moved on while isr is at "reload".
Due == IF isr = "reload" THEN ticks ELSE ticks + 1

\* Set-up goes on only with a period that fits in 32 bits, and the timer is
\* enabled by its last step.
SetupProgress ==
  /\ main \in {"intid", "handler", "register", "read", "cval", "ctl", "running"}
       => period_ticks <= U32Max
  /\ main \in {"cval", "ctl", "running"} => base \in 0 .. now
  /\ main # "running" => isr = "idle" /\ ticks = 0 /\ ~ctl.enable
  /\ main = "ctl" => cval = base + period_ticks

\* The compare value is on the grid, and reached before the handler is
\* called.
OnGrid ==
  /\ main = "running" => cval = base + Due * period_ticks
  /\ isr \in {"tick", "reload"} => cval <= now

\* The interrupt set-up works with is one the tree gives.
IntidFound ==
  /\ tree \in Trees /\ period_ms \in Periods
  /\ main \in {"period", "intid", "handler", "register"} => intid \in Int
  /\ main \in {"handler", "register"} => intid >= 0

TimerInv == TypeOK /\ SetupProgress /\ OnGrid /\ NeverEarly /\ IntidFound

----
(* Numbers *)

\* One more period.
LEMMA NextPeriod ==
  ASSUME NEW t \in Nat, NEW p \in Nat
  PROVE  t * p \in Nat /\ (t + 1) * p = t * p + p
OBVIOUS

\* A remainder and a quotient stay in range.
LEMMA Ranges ==
  ASSUME NEW a \in Nat, NEW b \in Nat \ {0}
  PROVE  a % b \in 0 .. (b - 1) /\ a \div b \in 0 .. a /\ (a < b => a % b = a)
OBVIOUS

\* Words and cells.
LEMMA WordFacts ==
  /\ Cell \in Nat \ {0} /\ Word \in Nat \ {0} /\ Cell <= Word
  /\ MaxNow \in Nat \ {0} /\ MaxNow + Cell <= Word /\ U32Max \in Nat /\ U32Max < Cell
<1>1. Cell \in Nat \ {0}
  BY FdtAssumption
<1>2. Word \in Nat \ {0} /\ Cell <= Word
  BY <1>1 DEF Word
<1>3. MaxNow \in 1 .. (Word - Cell)
  BY TimerAssumption
<1>q. QED
  BY <1>1, <1>2, <1>3 DEF U32Max

----
(* The device tree *)

\* The first n elements of a sequence.
LEMMA AtMostProperties ==
  ASSUME NEW S, NEW s \in Seq(S), NEW n \in Nat
  PROVE  /\ AtMost(n, s) \in Seq(S) /\ Len(AtMost(n, s)) = IF Len(s) < n THEN Len(s) ELSE n
         /\ \A k \in 1 .. Len(AtMost(n, s)) : k \in 1 .. Len(s) /\ AtMost(n, s)[k] = s[k]
<1> DEFINE m == IF Len(s) < n THEN Len(s) ELSE n
<1>1. m \in Nat /\ (1 .. n) \cap DOMAIN s = 1 .. m
  OBVIOUS
<1>2. AtMost(n, s) = [k \in 1 .. m |-> s[k]]
  BY <1>1 DEF AtMost
<1>3. \A k \in 1 .. m : k \in 1 .. Len(s) /\ s[k] \in S
  OBVIOUS
<1> HIDE DEF m
<1>4. [k \in 1 .. m |-> s[k]] \in Seq(S) /\ Len([k \in 1 .. m |-> s[k]]) = m
  BY <1>1, <1>3
<1>q. QED
  BY <1>1, <1>2, <1>3, <1>4 DEF m

\* A function on 1 .. n is a sequence.
LEMMA FunctionIsSeq ==
  ASSUME NEW n \in Nat, NEW f, f = [i \in 1 .. n |-> f[i]]
  PROVE  f \in Seq({f[i] : i \in 1 .. n}) /\ Len(f) = n
<1> DEFINE S == {f[i] : i \in 1 .. n}
<1>1. f \in [1 .. n -> S]
  <2>1. \A i \in 1 .. n : f[i] \in S
    OBVIOUS
  <2> HIDE DEF S
  <2>q. QED
    BY <2>1
<1> HIDE DEF S
<1>2. f \in Seq(S) /\ Len(f) = n
  BY <1>1
<1>q. QED
  BY <1>2 DEF S

\* The timer node, if there is exactly one, is a node of the tree.
LEMMA TimerNodeExists ==
  ASSUME tree \in Seq(Node), Len(timer_nodes) = 1
  PROVE  timer_nodes[1] \in DOMAIN tree
<1> DEFINE found == {n \in DOMAIN tree : Contains(tree[n].compatible, "arm,armv8-timer")}
<1>2. found \subseteq DOMAIN tree /\ DOMAIN tree = 1 .. Len(tree) /\ Len(tree) \in Nat
  <2>1. found \subseteq DOMAIN tree
    BY Zenon
  <2>2. DOMAIN tree = 1 .. Len(tree) /\ Len(tree) \in Nat
    BY LenProperties
  <2>q. QED
    BY <2>1, <2>2
<1> DEFINE Before(n) == {m \in found : m < n}
           Nth(k) == CHOOSE n \in found : Cardinality(Before(n)) = k - 1
           all == [k \in 1 .. Cardinality(found) |-> Nth(k)]
<1>1. timer_nodes = AtMost(MAX_TIMERS, all)
  BY DEF timer_nodes, get_nodes_by_compatible
<1> HIDE DEF found, Nth
<1>3. IsFiniteSet(found) /\ Cardinality(found) \in Nat
  <2>1. IsFiniteSet(DOMAIN tree)
    BY <1>2, FS_Interval
  <2>q. QED
    BY <1>2, <2>1, FS_Subset, FS_CardinalityType
<1> DEFINE S == {all[k] : k \in 1 .. Cardinality(found)}
<1>4. all \in Seq(S) /\ Len(all) = Cardinality(found)
  <2>1. all = [k \in 1 .. Cardinality(found) |-> all[k]]
    OBVIOUS
  <2> HIDE DEF all
  <2>q. QED
    BY <1>3, <2>1, FunctionIsSeq
<1>5. 1 \in 1 .. Cardinality(found) => all[1] = Nth(1)
  OBVIOUS
<1> HIDE DEF all, S, Before
<1>6. Len(all) = 1 /\ timer_nodes[1] = all[1]
  <2>1. MAX_TIMERS = 10
    BY DEF MAX_TIMERS
  <2>2. /\ Len(timer_nodes) = IF Len(all) < 10 THEN Len(all) ELSE 10
        /\ \A k \in 1 .. Len(timer_nodes) : timer_nodes[k] = all[k]
    BY <1>1, <1>4, <2>1, AtMostProperties
  <2>q. QED
    BY <1>3, <1>4, <2>2
<1>7. PICK x : found = {x}
  BY <1>3, <1>4, <1>6, FS_Singleton
<1>8. x \in DOMAIN tree /\ x \in Int
  BY <1>2, <1>7
<1>9. Cardinality(Before(x)) = 0
  <2>1. Before(x) = {}
    BY <1>7, <1>8 DEF Before
  <2>q. QED
    BY <2>1, FS_EmptySet
<1>10. all[1] \in found
  <2>1. 1 - 1 = 0
    OBVIOUS
  <2>2. Nth(1) \in found
    BY <1>7, <1>9, <2>1, Zenon DEF Nth
  <2>q. QED
    BY <1>4, <1>5, <1>6, <2>2
<1>q. QED
  BY <1>6, <1>7, <1>8, <1>10

\* The INTID made of an interrupt of the tree is a number.
LEMMA IntidType ==
  ASSUME tree \in Seq(Node), Len(timer_nodes) = 1, Len(intrs) >= NS_PHYSICAL_TIMER_INTR
  PROVE  intid \in Int
<1> DEFINE node == timer_nodes[1]
           cells == tree[node].interrupts
           all == [i \in 1 .. (Len(cells) \div 3) |->
                     [type |-> cells[3 * i - 2], id |-> cells[3 * i - 1],
                      level |-> (cells[3 * i] \div 4) % 2 = 1]]
           S == {all[i] : i \in 1 .. (Len(cells) \div 3)}
<1>1. cells \in Seq(Cells) /\ Len(cells) \in Nat
  <2>1. node \in DOMAIN tree
    BY TimerNodeExists
  <2>2. tree[node] \in Node
    BY <2>1
  <2>q. QED
    BY <2>2 DEF Node
<1>2. intrs = <<>> \/ intrs = AtMost(MAX_TIMER_INTERRUPTS, all)
  BY DEF intrs, get_intr_property
<1>3. intrs # <<>>
  BY DEF NS_PHYSICAL_TIMER_INTR
<1> HIDE DEF cells, node
<1>4. Len(cells) \div 3 \in Nat /\ all \in Seq(S) /\ Len(all) = Len(cells) \div 3
  <2>1. Len(cells) \div 3 \in Nat
    BY <1>1
  <2>2. all = [i \in 1 .. (Len(cells) \div 3) |-> all[i]]
    OBVIOUS
  <2> HIDE DEF all
  <2>q. QED
    BY <2>1, <2>2, FunctionIsSeq
<1> HIDE DEF all, S
<1>5. 2 \in 1 .. Len(all) /\ intrs[2] = all[2]
  <2>1. MAX_TIMER_INTERRUPTS \in Nat
    BY DEF MAX_TIMER_INTERRUPTS
  <2>2. Len(intrs) >= 2 /\ intrs = AtMost(MAX_TIMER_INTERRUPTS, all)
    BY <1>2, <1>3 DEF NS_PHYSICAL_TIMER_INTR
  <2>3. /\ Len(AtMost(MAX_TIMER_INTERRUPTS, all)) \in Nat
        /\ \A k \in 1 .. Len(AtMost(MAX_TIMER_INTERRUPTS, all)) :
              k \in 1 .. Len(all) /\ AtMost(MAX_TIMER_INTERRUPTS, all)[k] = all[k]
    BY <1>4, <2>1, AtMostProperties
  <2>q. QED
    BY <2>2, <2>3
<1>6. all[2].type = cells[4] /\ all[2].id = cells[5] /\ 5 \in 1 .. Len(cells)
  BY <1>1, <1>4, <1>5 DEF all
<1>7. intrs[2].id \in Int
  BY <1>1, <1>5, <1>6, FdtAssumption DEF Cells
<1>8. intid = interrupt_to_intid(intrs[2])
  BY DEF intid, NS_PHYSICAL_TIMER_INTR
<1>9. \A n \in Int : n % Cell \in Int
  BY FdtAssumption
<1>10. \A u \in Int : Int32(u) \in Int
  BY FdtAssumption DEF Int32
<1>q. QED
  BY <1>7, <1>8, <1>9, <1>10 DEF interrupt_to_intid

\* What is read of the tree does not change.
LEMMA TreeKept ==
  ASSUME UNCHANGED tree
  PROVE  timer_nodes' = timer_nodes /\ intrs' = intrs /\ intid' = intid
<1>1. timer_nodes' = timer_nodes
  BY DEF timer_nodes
<1>2. intrs' = intrs
  BY <1>1 DEF intrs
<1>q. QED
  BY <1>1, <1>2 DEF intid

----
(* Set-up *)

\* The steps that only find things out keep the invariant.
LEMMA Find_Inv ==
  ASSUME TimerInv, FindTimer \/ FindIntid
  PROVE  TimerInv'
<1>1. /\ isr = "idle" /\ main # "running"
      /\ UNCHANGED <<args, hwVars, period_ticks, tick_handler, registered, isr, base, ticks>>
  BY DEF FindTimer, FindIntid, Main
<1>2. CASE FindTimer
  <2>1. main = "start" /\ main' \in {"period", "failed"}
    BY <1>2 DEF FindTimer, Main
  <2>2. main' = "period" => intid \in Int
    <3>1. tree \in Seq(Node)
      BY TimerAssumption DEF TimerInv, IntidFound
    <3>q. QED
      BY <1>2, <3>1, IntidType DEF FindTimer, Main
  <2>3. TypeOK' /\ SetupProgress' /\ OnGrid' /\ NeverEarly'
    BY <1>1, <2>1 DEF TimerInv, TypeOK, SetupProgress, OnGrid, NeverEarly, hwVars
  <2>4. IntidFound'
    BY <1>1, <2>1, <2>2, TreeKept DEF TimerInv, IntidFound, args
  <2>q. QED
    BY <2>3, <2>4 DEF TimerInv
<1>3. CASE FindIntid
  <2>1. main = "intid" /\ main' = IF intid >= 0 THEN "handler" ELSE "failed"
    BY <1>3 DEF FindIntid, Main
  <2>2. TypeOK' /\ SetupProgress' /\ OnGrid' /\ NeverEarly'
    BY <1>1, <2>1 DEF TimerInv, TypeOK, SetupProgress, OnGrid, NeverEarly, hwVars
  <2>3. IntidFound'
    BY <1>1, <2>1, TreeKept DEF TimerInv, IntidFound, args
  <2>q. QED
    BY <2>2, <2>3 DEF TimerInv
<1>q. QED
  BY <1>2, <1>3

\* A period is a number of ticks less than 2^64.
LEMMA PeriodTicksType ==
  ASSUME NEW ms \in Periods
  PROVE  PeriodTicks(ms) \in 0 .. (Word - 1)
<1> DEFINE a == (Freq * ms) % Word
<1>1. Freq * ms \in Nat
  BY TimerAssumption
<1>2. a \in 0 .. (Word - 1)
  BY <1>1, WordFacts, Ranges
<1> HIDE DEF a
<1>3. a \div PerSecond \in 0 .. a
  <2>1. a \in Nat /\ PerSecond \in Nat \ {0}
    BY <1>2, WordFacts, TimerAssumption
  <2>q. QED
    BY <2>1, Ranges
<1>q. QED
  BY <1>2, <1>3, WordFacts DEF PeriodTicks, a

\* set_period keeps the invariant.
LEMMA set_period_Inv ==
  ASSUME TimerInv, set_period
  PROVE  TimerInv'
<1>1. /\ isr = "idle" /\ main = "period" /\ period_ticks' = PeriodTicks(period_ms)
      /\ main' = (IF period_ticks' <= U32Max THEN "intid" ELSE "failed")
      /\ UNCHANGED <<args, hwVars, tick_handler, registered, isr, base, ticks>>
  BY DEF set_period, Main
<1>2. period_ticks' \in 0 .. (Word - 1)
  BY <1>1, PeriodTicksType DEF TimerInv, IntidFound
<1>3. TypeOK' /\ SetupProgress' /\ OnGrid' /\ NeverEarly'
  BY <1>1, <1>2 DEF TimerInv, TypeOK, SetupProgress, OnGrid, NeverEarly, hwVars
<1>4. IntidFound'
  BY <1>1, TreeKept DEF TimerInv, IntidFound, args
<1>q. QED
  BY <1>3, <1>4 DEF TimerInv

\* Installing the handler keeps the invariant.
LEMMA Install_Inv ==
  ASSUME TimerInv, InstallHandler \/ RegisterIsr
  PROVE  TimerInv'
<1>1. /\ isr = "idle"
      /\ \/ main = "handler" /\ main' = "register"
         \/ main = "register" /\ main' \in {"read", "failed"}
      /\ UNCHANGED <<args, hwVars, period_ticks, isr, base, ticks>>
  BY DEF InstallHandler, RegisterIsr, Main
<1>2. tick_handler' \in BOOLEAN /\ registered' \in (0 .. (MaxIntId - 1)) \cup {Null}
  <2>1. CASE InstallHandler
    BY <2>1 DEF InstallHandler, TimerInv, TypeOK
  <2>2. CASE RegisterIsr
    <3>1. intid \in Int /\ intid >= 0
      BY <2>2 DEF TimerInv, IntidFound, RegisterIsr, Main
    <3>q. QED
      BY <2>2, <3>1, TimerAssumption DEF RegisterIsr, TimerInv, TypeOK
  <2>q. QED
    BY <2>1, <2>2
<1>3. TypeOK' /\ SetupProgress' /\ OnGrid' /\ NeverEarly'
  BY <1>1, <1>2 DEF TimerInv, TypeOK, SetupProgress, OnGrid, NeverEarly, hwVars
<1>4. IntidFound'
  BY <1>1, TreeKept DEF TimerInv, IntidFound, args
<1>q. QED
  BY <1>3, <1>4 DEF TimerInv

\* Starting the timer keeps the invariant: the first compare value does not
\* wrap around.
LEMMA Start_Inv ==
  ASSUME TimerInv, ReadCounter \/ SetCompare \/ Enable
  PROVE  TimerInv'
<1>1. /\ isr = "idle" /\ TypeOK
      /\ UNCHANGED <<args, now, period_ticks, tick_handler, registered, isr, ticks>>
  BY DEF ReadCounter, SetCompare, Enable, Main, TimerInv, hwVars
<1>2. IntidFound'
  BY <1>1, TreeKept DEF TimerInv, IntidFound, args, ReadCounter, SetCompare, Enable, Main
<1>3. CASE ReadCounter
  <2>1. main = "read" /\ main' = "cval" /\ base' = now /\ cval' = cval /\ ctl' = ctl
    BY <1>3 DEF ReadCounter, Main, hwVars
  <2>q. QED
    BY <1>1, <1>2, <2>1, WordFacts DEF TimerInv, TypeOK, SetupProgress, OnGrid, NeverEarly
<1>4. CASE SetCompare
  <2>1. /\ main = "cval" /\ main' = "ctl" /\ base' = base /\ ctl' = ctl
        /\ cval' = (base + period_ticks) % Word
    BY <1>4 DEF SetCompare, Main
  <2>2. base \in Nat /\ base <= MaxNow /\ period_ticks \in Nat /\ period_ticks <= U32Max
    BY <1>1, <2>1, WordFacts DEF TimerInv, TypeOK, SetupProgress
  <2>3. base + period_ticks \in Nat /\ base + period_ticks < Word
    BY <2>2, WordFacts
  <2>4. cval' = base + period_ticks
    BY <2>1, <2>3, WordFacts, Ranges
  <2>q. QED
    BY <1>1, <1>2, <2>1, <2>2, <2>3, <2>4, WordFacts
       DEF TimerInv, TypeOK, SetupProgress, OnGrid, NeverEarly
<1>5. CASE Enable
  <2>1. /\ main = "ctl" /\ main' = "running" /\ base' = base /\ cval' = cval
        /\ ctl' = [enable |-> TRUE, imask |-> FALSE]
    BY <1>5 DEF Enable, Main
  <2>2. ticks = 0 /\ period_ticks \in Nat /\ base \in Nat /\ base <= now /\ now \in Nat
    BY <1>1, <2>1, WordFacts DEF TimerInv, TypeOK, SetupProgress
  <2>3. ticks * period_ticks = 0 /\ (ticks + 1) * period_ticks = period_ticks
    BY <2>2
  <2>4. OnGrid'
    BY <1>1, <2>1, <2>3 DEF TimerInv, OnGrid, SetupProgress, Due
  <2>5. NeverEarly'
    BY <1>1, <2>1, <2>2, <2>3 DEF NeverEarly
  <2>6. TypeOK' /\ SetupProgress'
    BY <1>1, <2>1 DEF TimerInv, TypeOK, SetupProgress
  <2>q. QED
    BY <1>2, <2>4, <2>5, <2>6 DEF TimerInv
<1>q. QED
  BY <1>3, <1>4, <1>5

----
(* The running timer *)

\* The counter's advance keeps the invariant.
LEMMA Advance_Inv ==
  ASSUME TimerInv, Advance
  PROVE  TimerInv'
<1>1. /\ now < MaxNow /\ now' = now + 1 /\ TypeOK
      /\ UNCHANGED <<args, cval, ctl, period_ticks, tick_handler, registered, main, isr, base, ticks>>
  BY DEF Advance, TimerInv
<1>2. TypeOK'
  BY <1>1, WordFacts DEF TypeOK
<1>3. SetupProgress' /\ IntidFound'
  BY <1>1, TreeKept, WordFacts DEF TimerInv, SetupProgress, IntidFound, args, TypeOK
<1>4. OnGrid'
  BY <1>1, WordFacts DEF TimerInv, OnGrid, Due, TypeOK
<1>5. NeverEarly'
  <2>1. ASSUME main = "running"
        PROVE  ticks * period_ticks \in Nat /\ base \in Nat /\ now \in Nat
    BY <1>1, <2>1, WordFacts, NextPeriod DEF TimerInv, TypeOK, SetupProgress
  <2>q. QED
    BY <1>1, <2>1 DEF TimerInv, NeverEarly
<1>q. QED
  BY <1>2, <1>3, <1>4, <1>5 DEF TimerInv

\* Entering timer_isr and masking the timer keep the invariant: only a
\* reached compare value leads on to the handler.
LEMMA Mask_Inv ==
  ASSUME TimerInv, Fire \/ MaskTimer
  PROVE  TimerInv'
<1>1. /\ TypeOK /\ ctl' \in [enable : BOOLEAN, imask : BOOLEAN] /\ ctl'.enable = ctl.enable
      /\ isr \in {"idle", "check"} /\ isr' \in {"idle", "check", "tick"}
      /\ isr' # "idle" => ctl.enable
      /\ isr' = "tick" => now >= cval
      /\ UNCHANGED <<args, now, cval, period_ticks, tick_handler, registered, main, base, ticks>>
  <2>1. CASE Fire
    BY <2>1 DEF Fire, ConditionMet, TimerInv, TypeOK, hwVars
  <2>2. CASE MaskTimer
    BY <2>2 DEF MaskTimer, ConditionMet, TimerInv, TypeOK
  <2>q. QED
    BY <2>1, <2>2
<1>2. TypeOK'
  BY <1>1 DEF TypeOK
<1>3. SetupProgress' /\ IntidFound'
  BY <1>1, TreeKept DEF TimerInv, SetupProgress, IntidFound, args
<1>4. OnGrid'
  BY <1>1, WordFacts DEF TimerInv, OnGrid, Due, TypeOK
<1>5. NeverEarly'
  BY <1>1 DEF TimerInv, NeverEarly
<1>q. QED
  BY <1>2, <1>3, <1>4, <1>5 DEF TimerInv

\* Calling the handler keeps the invariant: the compare value has been
\* reached, so that the tick is not early.
LEMMA CallHandler_Inv ==
  ASSUME TimerInv, CallHandler
  PROVE  TimerInv'
<1>1. /\ TypeOK /\ isr = "tick" /\ isr' = "reload" /\ ticks' = ticks + 1 /\ main = "running"
      /\ UNCHANGED <<args, now, cval, ctl, period_ticks, tick_handler, registered, main, base>>
  BY DEF CallHandler, TimerInv, SetupProgress, hwVars
<1>2. /\ cval = base + (ticks + 1) * period_ticks /\ cval <= now
      /\ base \in Nat /\ now \in Nat /\ ticks \in Nat /\ period_ticks \in Nat
  BY <1>1, WordFacts DEF TimerInv, OnGrid, Due, SetupProgress, TypeOK
<1>3. (ticks + 1) * period_ticks \in Nat
  BY <1>2, NextPeriod
<1>4. TypeOK' /\ SetupProgress'
  BY <1>1 DEF TimerInv, TypeOK, SetupProgress
<1>5. IntidFound'
  BY <1>1, TreeKept DEF TimerInv, IntidFound, args
<1>6. OnGrid'
  BY <1>1, <1>2 DEF OnGrid, Due
<1>7. NeverEarly'
  BY <1>1, <1>2, <1>3 DEF NeverEarly
<1>q. QED
  BY <1>4, <1>5, <1>6, <1>7 DEF TimerInv

\* Setting the next compare value keeps the invariant: it does not wrap
\* around and is one period after the last.
LEMMA Reload_Inv ==
  ASSUME TimerInv, Reload
  PROVE  TimerInv'
<1>1. /\ TypeOK /\ isr = "reload" /\ isr' = "rearm" /\ cval' = (cval + period_ticks) % Word
      /\ main = "running"
      /\ UNCHANGED <<args, now, ctl, period_ticks, tick_handler, registered, main, base, ticks>>
  BY DEF Reload, TimerInv, SetupProgress
<1>2. /\ cval = base + ticks * period_ticks /\ cval <= now /\ now <= MaxNow
      /\ cval \in Nat /\ base \in Nat /\ now \in Nat /\ ticks \in Nat
      /\ period_ticks \in Nat /\ period_ticks <= U32Max
  BY <1>1, WordFacts DEF TimerInv, OnGrid, Due, SetupProgress, TypeOK
<1>3. cval + period_ticks \in Nat /\ cval + period_ticks < Word
  BY <1>2, WordFacts
<1>4. cval' = cval + period_ticks
  BY <1>1, <1>3, WordFacts, Ranges
<1>5. /\ ticks * period_ticks \in Nat
      /\ (ticks + 1) * period_ticks = ticks * period_ticks + period_ticks
  BY <1>2, NextPeriod
<1>6. cval' = base + (ticks + 1) * period_ticks
  BY <1>2, <1>4, <1>5
<1>7. TypeOK'
  BY <1>1, <1>3, <1>4, WordFacts DEF TypeOK
<1>8. SetupProgress' /\ IntidFound'
  BY <1>1, TreeKept DEF TimerInv, SetupProgress, IntidFound, args
<1>9. OnGrid'
  BY <1>1, <1>6 DEF OnGrid, Due
<1>10. NeverEarly'
  BY <1>1 DEF TimerInv, NeverEarly
<1>q. QED
  BY <1>7, <1>8, <1>9, <1>10 DEF TimerInv

\* Rearming the timer keeps the invariant.
LEMMA Rearm_Inv ==
  ASSUME TimerInv, Rearm
  PROVE  TimerInv'
<1>1. /\ TypeOK /\ isr = "rearm" /\ isr' = "idle" /\ ctl' = [enable |-> TRUE, imask |-> FALSE]
      /\ main = "running"
      /\ UNCHANGED <<args, now, cval, period_ticks, tick_handler, registered, main, base, ticks>>
  BY DEF Rearm, TimerInv, SetupProgress
<1>2. TypeOK' /\ SetupProgress'
  BY <1>1 DEF TimerInv, TypeOK, SetupProgress
<1>3. IntidFound'
  BY <1>1, TreeKept DEF TimerInv, IntidFound, args
<1>4. OnGrid' /\ NeverEarly'
  BY <1>1 DEF TimerInv, OnGrid, Due, NeverEarly
<1>q. QED
  BY <1>2, <1>3, <1>4 DEF TimerInv

----
(* The theorems *)

\* TimerInv holds initially.
LEMMA InitInv == Init => TimerInv
<1> SUFFICES ASSUME Init PROVE TimerInv
  OBVIOUS
<1>1. TypeOK
  <2>1. now \in 0 .. MaxNow /\ 0 \in 0 .. (Word - 1) /\ 0 <= U32Max
    BY WordFacts DEF Init
  <2>q. QED
    BY <2>1 DEF Init, TypeOK
<1>2. SetupProgress /\ OnGrid /\ NeverEarly /\ IntidFound
  BY DEF Init, SetupProgress, OnGrid, NeverEarly, IntidFound
<1>q. QED
  BY <1>1, <1>2 DEF TimerInv

\* Every step keeps TimerInv.
LEMMA NextInv == TimerInv /\ [Next]_vars => TimerInv'
<1> SUFFICES ASSUME TimerInv, [Next]_vars PROVE TimerInv'
  OBVIOUS
<1>1. CASE UNCHANGED vars
  <2>1. TypeOK' /\ SetupProgress' /\ OnGrid' /\ NeverEarly'
    BY <1>1 DEF TimerInv, TypeOK, SetupProgress, OnGrid, Due, NeverEarly, vars, args
  <2>2. IntidFound'
    BY <1>1, TreeKept DEF TimerInv, IntidFound, vars, args
  <2>q. QED
    BY <2>1, <2>2 DEF TimerInv
<1>2. CASE Setup
  BY <1>2, Find_Inv, set_period_Inv, Install_Inv, Start_Inv DEF Setup
<1>3. CASE Advance
  BY <1>3, Advance_Inv
<1>4. CASE Isr
  BY <1>4, Mask_Inv, CallHandler_Inv, Reload_Inv, Rearm_Inv DEF Isr
<1>q. QED
  BY <1>1, <1>2, <1>3, <1>4 DEF Next

\* The invariant holds in every reachable state.
THEOREM TimerInvariant == Spec => []TimerInv
BY InitInv, NextInv, PTL DEF Spec

\* The timer's state is well typed; in particular timer_isr is registered for
\* an INTID in range or for none, whatever the device tree says, and an
\* enabled timer has a period of 32 bits.
THEOREM TypeCorrect == Spec => []TypeOK
<1>1. TimerInv => TypeOK
  BY DEF TimerInv
<1>q. QED
  BY <1>1, TimerInvariant, PTL

\* However late timer_isr runs and however long it takes, the compare value
\* stays on the grid of periods that set-up began.
THEOREM DriftFree == Spec => []NoDrift
<1>1. TimerInv => NoDrift
  BY DEF TimerInv, OnGrid, Due, NoDrift
<1>q. QED
  BY <1>1, TimerInvariant, PTL

\* The tick handler is never called for the n-th time before n periods are
\* over.
THEOREM TicksNotEarly == Spec => []NeverEarly
<1>1. TimerInv => NeverEarly
  BY DEF TimerInv
<1>q. QED
  BY <1>1, TimerInvariant, PTL

====
