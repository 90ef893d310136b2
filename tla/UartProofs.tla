----------------------------- MODULE UartProofs -----------------------------
(***************************************************************************)
(* The receive handler's properties, for every depth of the receiver and   *)
(* of the transmitter and any number of characters, whether or not they    *)
(* arrive while the handler runs.                                          *)
(***************************************************************************)
EXTENDS Uart, SequenceTheorems, TLAPS

----
(* The inductive invariant *)

\* The interrupt is raised only for a character that is there, and stays
\* there until the handler reads it.
Waiting ==
  /\ rxris => rx # <<>>
  /\ isr = "getc" => rx # <<>>

\* The character the handler has read and not yet handed on.
Held == IF isr = "putc" THEN {chr} ELSE {}

Increasing(s) == \A i, j \in 1 .. Len(s) : i < j => s[i] < s[j]
AllBelow(s, c) == \A i \in 1 .. Len(s) : s[i] < c
AllAbove(s, c) == \A i \in 1 .. Len(s) : c < s[i]

\* What was echoed arrived before what the handler holds, and that before
\* what the receiver holds.
InOrder ==
  /\ Increasing(rx) /\ AllBelow(rx, arrived + 1) /\ AllBelow(echoed, arrived + 1)
  /\ \A m \in 1 .. Len(echoed) : AllAbove(rx, echoed[m])
  /\ \A c \in Held : c \in 1 .. arrived /\ AllAbove(rx, c) /\ AllBelow(echoed, c)

UartInv == TypeOK /\ Waiting /\ InOrder /\ EchoedInOrder

----
(* Ordered sequences *)

\* The elements of an appended sequence.
LEMMA AppendElements ==
  ASSUME NEW S, NEW s \in Seq(S), NEW c \in S
  PROVE  /\ Append(s, c) \in Seq(S) /\ Len(Append(s, c)) = Len(s) + 1
         /\ \A i \in 1 .. Len(Append(s, c)) :
              \/ i \in 1 .. Len(s) /\ Append(s, c)[i] = s[i]
              \/ i = Len(s) + 1 /\ Append(s, c)[i] = c
<1>1. /\ Append(s, c) \in Seq(S) /\ Len(Append(s, c)) = Len(s) + 1 /\ Len(s) \in Nat
      /\ \A i \in 1 .. Len(s) : Append(s, c)[i] = s[i]
      /\ Append(s, c)[Len(s) + 1] = c
  BY AppendProperties
<1>q. QED
  BY <1>1

\* Appending something larger than all keeps a sequence increasing.
LEMMA AppendIncreasing ==
  ASSUME NEW s \in Seq(Int), NEW c \in Int, Increasing(s), AllBelow(s, c)
  PROVE  Increasing(Append(s, c))
<1> DEFINE t == Append(s, c)
<1>1. /\ Len(t) = Len(s) + 1 /\ Len(s) \in Nat
      /\ \A i \in 1 .. Len(t) : \/ i \in 1 .. Len(s) /\ t[i] = s[i]
                                \/ i = Len(s) + 1 /\ t[i] = c
  BY AppendElements
<1> HIDE DEF t
<1>2. ASSUME NEW i \in 1 .. Len(t), NEW j \in 1 .. Len(t), i < j
      PROVE  t[i] < t[j]
  <2>1. i \in 1 .. Len(s) /\ t[i] = s[i]
    BY <1>1, <1>2
  <2>2. CASE j \in 1 .. Len(s) /\ t[j] = s[j]
    BY <1>2, <2>1, <2>2 DEF Increasing
  <2>3. CASE t[j] = c
    BY <2>1, <2>3 DEF AllBelow
  <2>q. QED
    BY <1>1, <2>2, <2>3
<1>q. QED
  BY <1>2 DEF t, Increasing

\* Appending keeps a bound that the new element keeps.
LEMMA AppendBounds ==
  ASSUME NEW s \in Seq(Int), NEW c \in Int, NEW b \in Int
  PROVE  /\ AllBelow(s, b) /\ c < b => AllBelow(Append(s, c), b)
         /\ AllAbove(s, b) /\ b < c => AllAbove(Append(s, c), b)
<1> DEFINE t == Append(s, c)
<1>1. /\ Len(t) = Len(s) + 1 /\ Len(s) \in Nat
      /\ \A i \in 1 .. Len(t) : \/ i \in 1 .. Len(s) /\ t[i] = s[i]
                                \/ i = Len(s) + 1 /\ t[i] = c
  BY AppendElements
<1> HIDE DEF t
<1>2. AllBelow(s, b) /\ c < b => AllBelow(t, b)
  BY <1>1 DEF AllBelow
<1>3. AllAbove(s, b) /\ b < c => AllAbove(t, b)
  BY <1>1 DEF AllAbove
<1>q. QED
  BY <1>2, <1>3 DEF t

\* The head of an increasing sequence is below its tail, which keeps the
\* bounds the sequence has.
LEMMA TailOrder ==
  ASSUME NEW s \in Seq(Int), s # <<>>, Increasing(s)
  PROVE  /\ Head(s) \in Int /\ Tail(s) \in Seq(Int) /\ Increasing(Tail(s)) /\ AllAbove(Tail(s), Head(s))
         /\ \A b \in Int : /\ AllBelow(s, b) => AllBelow(Tail(s), b) /\ Head(s) < b
                           /\ AllAbove(s, b) => AllAbove(Tail(s), b) /\ b < Head(s)
<1> DEFINE t == Tail(s)
           h == Head(s)
<1>1. /\ t \in Seq(Int) /\ Len(t) = Len(s) - 1 /\ Len(s) \in Nat \ {0} /\ h \in Int /\ h = s[1]
      /\ \A i \in 1 .. Len(t) : t[i] = s[i + 1]
  BY HeadTailProperties
<1> HIDE DEF t, h
<1>2. \A i \in 1 .. Len(t) : i + 1 \in 1 .. Len(s) /\ 1 < i + 1 /\ t[i] = s[i + 1]
  BY <1>1
<1>3. 1 \in 1 .. Len(s)
  BY <1>1
<1>4. AllAbove(t, h)
  BY <1>1, <1>2, <1>3 DEF Increasing, AllAbove
<1>5. Increasing(t)
  <2>1. ASSUME NEW i \in 1 .. Len(t), NEW j \in 1 .. Len(t), i < j
        PROVE  t[i] < t[j]
    <3>1. i + 1 < j + 1
      BY <1>1, <2>1
    <3>q. QED
      BY <1>2, <3>1 DEF Increasing
  <2>q. QED
    BY <2>1 DEF Increasing
<1>6. ASSUME NEW b \in Int
      PROVE  /\ AllBelow(s, b) => AllBelow(t, b) /\ h < b
             /\ AllAbove(s, b) => AllAbove(t, b) /\ b < h
  BY <1>1, <1>2, <1>3 DEF AllBelow, AllAbove
<1>q. QED
  BY <1>1, <1>4, <1>5, <1>6 DEF t, h

\* A higher bound is one too.
LEMMA HigherBound ==
  ASSUME NEW s \in Seq(Int), NEW b \in Int, NEW c \in Int, b <= c, AllBelow(s, b)
  PROVE  AllBelow(s, c)
<1>1. \A i \in 1 .. Len(s) : s[i] \in Int
  OBVIOUS
<1>q. QED
  BY <1>1 DEF AllBelow

----
(* The steps *)

\* The parts of the state that are sequences or numbers.
LEMMA UartTypes ==
  ASSUME TypeOK
  PROVE  /\ rx \in Seq(Int) /\ Len(rx) \in Nat /\ echoed \in Seq(Int) /\ Len(echoed) \in Nat
         /\ \A i \in 1 .. Len(rx) : rx[i] \in 1 .. MaxChars
         /\ \A m \in 1 .. Len(echoed) : echoed[m] \in 1 .. MaxChars
         /\ arrived \in Nat /\ chr \in Nat /\ tx \in Nat
         /\ MaxChars \in Nat /\ Depth \in Nat \ {0} /\ TxDepth \in Nat \ {0}
BY UartAssumption DEF TypeOK

\* Set-up, the interrupt's entry and its end keep the invariant, and so does
\* the transmitter, whatever it sends.
LEMMA UartOther_Inv ==
  ASSUME UartInv, imsc' \in BOOLEAN, enabled' \in BOOLEAN, registered' \in BOOLEAN, registered' => enabled',
         rxris' \in BOOLEAN, rxris' => rxris, tx' \in 0 .. TxDepth,
         \/ isr' = isr
         \/ isr = "idle" /\ isr' \in {"getc", "warn"} /\ rxris
         \/ isr \in {"warn", "clear"} /\ isr' = "idle",
         UNCHANGED <<arrived, rx, chr, echoed>>
  PROVE  UartInv'
<1>1. TypeOK'
  BY DEF UartInv, TypeOK
<1>2. Waiting'
  BY DEF UartInv, Waiting
<1>3. EchoedInOrder'
  BY DEF UartInv, EchoedInOrder
<1>4. InOrder'
  BY DEF UartInv, InOrder, Held
<1>q. QED
  BY <1>1, <1>2, <1>3, <1>4 DEF UartInv

\* The steps of main, of the transmitter and the interrupt's entry and end.
LEMMA UartSetup_Inv ==
  ASSUME UartInv,
         \/ pl011_init \/ pl011_register_handler \/ Transmit
         \/ EnterIsr \/ NoHandler \/ pl011_clear_rx_interrupt
  PROVE  UartInv'
<1>1. TypeOK
  BY DEF UartInv
<1>2. CASE pl011_init
  BY <1>1, <1>2, UartOther_Inv DEF pl011_init, devVars, TypeOK
<1>3. CASE pl011_register_handler
  <2>1. CASE RegisterEnables
    <3>1. imsc' = imsc /\ enabled' = TRUE /\ registered' = registered
      BY <1>1, <2>1 DEF RegisterEnables, TypeOK
    <3>2. rxris' = rxris /\ tx' = tx /\ isr' = isr /\ UNCHANGED <<arrived, rx, chr, echoed>>
      BY <2>1 DEF RegisterEnables, devVars
    <3>3. imsc' \in BOOLEAN /\ enabled' \in BOOLEAN /\ registered' \in BOOLEAN
      BY <1>1, <3>1 DEF TypeOK
    <3>4. rxris' \in BOOLEAN /\ tx' \in 0 .. TxDepth
      BY <1>1, <3>2 DEF TypeOK
    <3>q. QED
      BY <3>1, <3>2, <3>3, <3>4, UartOther_Inv
  <2>2. CASE RegisterStores
    <3>1. imsc' = imsc /\ enabled = TRUE /\ enabled' = enabled /\ registered' = TRUE
      BY <1>1, <2>2 DEF RegisterStores, TypeOK
    <3>2. rxris' = rxris /\ tx' = tx /\ isr' = isr /\ UNCHANGED <<arrived, rx, chr, echoed>>
      BY <2>2 DEF RegisterStores, devVars
    <3>3. imsc' \in BOOLEAN /\ enabled' \in BOOLEAN /\ registered' \in BOOLEAN
      BY <1>1, <3>1 DEF TypeOK
    <3>4. rxris' \in BOOLEAN /\ tx' \in 0 .. TxDepth
      BY <1>1, <3>2 DEF TypeOK
    <3>q. QED
      BY <3>1, <3>2, <3>3, <3>4, UartOther_Inv
  <2>q. QED
    BY <1>3, <2>1, <2>2 DEF pl011_register_handler
<1>4. CASE Transmit
  <2>1. tx' \in 0 .. TxDepth
    BY <1>1, <1>4, UartAssumption DEF Transmit, TypeOK
  <2>q. QED
    BY <1>1, <1>4, <2>1, UartOther_Inv DEF Transmit, setVars, TypeOK
<1>5. CASE EnterIsr
  BY <1>1, <1>5, UartOther_Inv DEF EnterIsr, setVars, devVars, TypeOK
<1>6. CASE pl011_clear_rx_interrupt
  BY <1>1, <1>6, UartOther_Inv DEF pl011_clear_rx_interrupt, setVars, TypeOK
<1>7. CASE NoHandler
  BY <1>1, <1>7, UartOther_Inv DEF NoHandler, setVars, devVars, TypeOK
<1>q. QED
  BY <1>2, <1>3, <1>4, <1>5, <1>6, <1>7

\* An arrival keeps the invariant: the new character is later than all.
LEMMA Receive_Inv ==
  ASSUME UartInv, Receive
  PROVE  UartInv'
<1>1. /\ arrived < MaxChars /\ arrived' = arrived + 1
      /\ rxris' = (rxris \/ rx = <<>>)
      /\ UNCHANGED <<imsc, enabled, registered, tx, isr, chr, echoed>> /\ TypeOK
  BY DEF Receive, UartInv, setVars
<1>2. EchoedInOrder'
  BY <1>1 DEF UartInv, EchoedInOrder
<1>3. CASE Len(rx) < Depth
  <2>1. rx' = Append(rx, arrived + 1)
    BY <1>1, <1>3 DEF Receive
  <2>2. arrived + 1 \in 1 .. MaxChars /\ rx \in Seq(1 .. MaxChars)
    BY <1>1, UartTypes DEF TypeOK
  <2>3. /\ rx' \in Seq(1 .. MaxChars) /\ Len(rx') = Len(rx) + 1 /\ rx' # <<>>
        /\ rx'[Len(rx) + 1] = arrived + 1
        /\ \A i \in 1 .. Len(rx) : rx'[i] = rx[i]
    BY <2>1, <2>2, AppendProperties
  <2>4. TypeOK'
    BY <1>1, <1>3, <2>3, UartTypes DEF TypeOK
  <2>5. Waiting'
    BY <2>3 DEF Waiting
  <2>6. InOrder'
    <3>1. /\ Increasing(rx) /\ AllBelow(rx, arrived + 1) /\ AllBelow(echoed, arrived + 1)
          /\ arrived + 1 \in Int /\ arrived + 2 \in Int
      BY <1>1, UartTypes DEF UartInv, InOrder
    <3>2. Increasing(rx') /\ AllBelow(rx', arrived + 2)
      BY <1>1, <2>1, <3>1, AppendIncreasing, AppendBounds, HigherBound, UartTypes
    <3>3. AllBelow(echoed, arrived + 2)
      BY <1>1, <3>1, HigherBound, UartTypes
    <3>4. ASSUME NEW m \in 1 .. Len(echoed)
          PROVE  AllAbove(rx', echoed[m])
      <4>1. AllAbove(rx, echoed[m]) /\ echoed[m] \in Int /\ echoed[m] < arrived + 1
        BY <1>1, UartTypes DEF UartInv, InOrder, AllBelow
      <4>q. QED
        BY <1>1, <2>1, <4>1, AppendBounds, UartTypes
    <3>5. ASSUME NEW c \in Held
          PROVE  c \in 1 .. arrived' /\ AllAbove(rx', c) /\ AllBelow(echoed, c)
      <4>1. c \in 1 .. arrived /\ AllAbove(rx, c) /\ AllBelow(echoed, c)
        BY DEF UartInv, InOrder
      <4>2. c \in Int /\ c < arrived + 1 /\ c \in 1 .. arrived'
        BY <1>1, <4>1, UartTypes
      <4>q. QED
        BY <1>1, <2>1, <4>1, <4>2, AppendBounds, UartTypes
    <3>6. Held' = Held /\ arrived' + 1 = arrived + 2
      BY <1>1, UartTypes DEF Held
    <3>q. QED
      BY <1>1, <3>2, <3>3, <3>4, <3>5, <3>6 DEF InOrder
  <2>q. QED
    BY <1>2, <2>4, <2>5, <2>6 DEF UartInv
<1>4. CASE ~(Len(rx) < Depth)
  <2>1. rx' = rx
    BY <1>4 DEF Receive
  <2>2. rx # <<>>
    BY <1>1, <1>4, UartTypes
  <2>3. TypeOK'
    BY <1>1, <2>1, UartTypes DEF TypeOK
  <2>4. Waiting'
    BY <2>1, <2>2 DEF Waiting
  <2>5. InOrder'
    <3>1. arrived' + 1 = arrived + 2 /\ arrived + 1 \in Int /\ arrived + 2 \in Int /\ Held' = Held
      BY <1>1, UartTypes DEF Held
    <3>2. AllBelow(rx, arrived + 2) /\ AllBelow(echoed, arrived + 2)
      BY <1>1, <3>1, HigherBound, UartTypes DEF UartInv, InOrder
    <3>3. \A c \in Held : c \in 1 .. arrived'
      BY <1>1, UartTypes DEF UartInv, InOrder
    <3>q. QED
      BY <1>1, <2>1, <3>1, <3>2, <3>3 DEF UartInv, InOrder
  <2>q. QED
    BY <1>2, <2>3, <2>4, <2>5 DEF UartInv
<1>q. QED
  BY <1>3, <1>4

\* Reading a character keeps the invariant.
LEMMA pl011_getc_Inv ==
  ASSUME UartInv, pl011_getc
  PROVE  UartInv'
<1>1. /\ isr = "getc" /\ rx # <<>> /\ chr' = Head(rx) /\ rx' = Tail(rx)
      /\ rxris' = (rxris /\ rx' # <<>>) /\ isr' = "putc"
      /\ UNCHANGED <<imsc, enabled, registered, arrived, tx, echoed>> /\ TypeOK
  BY DEF pl011_getc, UartInv, setVars
<1>2. rx \in Seq(1 .. MaxChars) /\ Len(rx) \in Nat \ {0}
  BY <1>1 DEF TypeOK
<1>3. chr' \in 1 .. MaxChars /\ rx' \in Seq(1 .. MaxChars) /\ Len(rx') = Len(rx) - 1
  BY <1>1, <1>2, HeadTailProperties
<1>4. TypeOK'
  BY <1>1, <1>2, <1>3, UartTypes DEF TypeOK
<1>5. Waiting' /\ EchoedInOrder'
  BY <1>1 DEF UartInv, Waiting, EchoedInOrder
<1>6. InOrder'
  <2>1. /\ Increasing(rx') /\ AllAbove(rx', chr') /\ chr' \in Int
        /\ \A b \in Int : /\ AllBelow(rx, b) => AllBelow(rx', b) /\ chr' < b
                          /\ AllAbove(rx, b) => AllAbove(rx', b) /\ b < chr'
    BY <1>1, TailOrder, UartTypes DEF UartInv, InOrder
  <2>2. AllBelow(rx', arrived + 1) /\ chr' < arrived + 1
    BY <1>1, <2>1, UartTypes DEF UartInv, InOrder
  <2>3. ASSUME NEW m \in 1 .. Len(echoed)
        PROVE  AllAbove(rx', echoed[m]) /\ echoed[m] < chr'
    BY <1>1, <2>1, UartTypes DEF UartInv, InOrder
  <2>4. Held' = {chr'} /\ chr' \in 1 .. arrived
    BY <1>1, <1>3, <2>2, UartTypes DEF Held
  <2>5. AllBelow(echoed, chr')
    BY <2>3 DEF AllBelow
  <2>q. QED
    BY <1>1, <2>1, <2>2, <2>3, <2>4, <2>5 DEF UartInv, InOrder
<1>q. QED
  BY <1>4, <1>5, <1>6 DEF UartInv

\* Echoing keeps the invariant: the character is later than those before it.
LEMMA pl011_putc_Inv ==
  ASSUME UartInv, pl011_putc
  PROVE  UartInv'
<1>1. /\ isr = "putc" /\ isr' = "clear"
      /\ UNCHANGED <<imsc, enabled, registered, arrived, rx, rxris, chr>> /\ TypeOK
  BY DEF pl011_putc, UartInv, setVars
<1>2. CASE UNCHANGED <<tx, echoed>>
  BY <1>1, <1>2 DEF UartInv, TypeOK, Waiting, InOrder, Held, EchoedInOrder
<1>3. CASE tx < TxDepth /\ tx' = tx + 1 /\ echoed' = Append(echoed, chr)
  <2>1. chr \in 1 .. arrived /\ AllAbove(rx, chr) /\ AllBelow(echoed, chr)
    BY <1>1 DEF UartInv, InOrder, Held
  <2>2. chr \in 1 .. MaxChars /\ chr \in Int /\ chr < arrived + 1 /\ arrived + 1 \in Int
    BY <1>1, <2>1, UartTypes DEF TypeOK
  <2>3. echoed' \in Seq(1 .. MaxChars)
    BY <1>1, <1>3, <2>2, AppendElements DEF TypeOK
  <2>4. TypeOK'
    BY <1>1, <1>3, <2>3, UartTypes DEF TypeOK
  <2>5. Waiting'
    BY <1>1 DEF UartInv, Waiting
  <2>6. Increasing(echoed')
    BY <1>1, <1>3, <2>1, <2>2, AppendIncreasing, UartTypes DEF UartInv, EchoedInOrder, Increasing
  <2>7. AllBelow(echoed', arrived + 1)
    BY <1>1, <1>3, <2>2, AppendBounds, UartTypes DEF UartInv, InOrder
  <2>8. \A m \in 1 .. Len(echoed') : AllAbove(rx, echoed'[m])
    <3>1. \A m \in 1 .. Len(echoed') : \/ m \in 1 .. Len(echoed) /\ echoed'[m] = echoed[m]
                                       \/ echoed'[m] = chr
      BY <1>1, <1>3, <2>2, AppendElements, UartTypes
    <3>q. QED
      BY <2>1, <3>1 DEF UartInv, InOrder
  <2>9. Held' = {}
    BY <1>1 DEF Held
  <2>10. InOrder'
    BY <1>1, <2>7, <2>8, <2>9 DEF UartInv, InOrder
  <2>q. QED
    BY <2>4, <2>5, <2>6, <2>10 DEF UartInv, EchoedInOrder, Increasing
<1>q. QED
  BY <1>2, <1>3 DEF pl011_putc

----
(* The theorems *)

\* UartInv holds initially.
LEMMA UartInitInv == Init => UartInv
<1> SUFFICES ASSUME Init PROVE UartInv
  OBVIOUS
<1>1. TypeOK
  <2>1. 0 \in 0 .. MaxChars /\ 0 \in 0 .. TxDepth /\ 0 <= Depth
    BY UartAssumption
  <2>2. <<>> \in Seq(1 .. MaxChars) /\ Len(<<>>) = 0
    OBVIOUS
  <2>q. QED
    BY <2>1, <2>2 DEF Init, TypeOK
<1>2. Len(rx) = 0 /\ Len(echoed) = 0
  BY DEF Init
<1>3. Waiting
  BY DEF Init, Waiting
<1>4. InOrder /\ EchoedInOrder
  BY <1>2 DEF Init, InOrder, Held, Increasing, AllBelow, AllAbove, EchoedInOrder
<1>q. QED
  BY <1>1, <1>3, <1>4 DEF UartInv

\* Every step keeps UartInv.
LEMMA UartNextInv == UartInv /\ [Next]_vars => UartInv'
<1> SUFFICES ASSUME UartInv, [Next]_vars PROVE UartInv'
  OBVIOUS
<1>1. CASE UNCHANGED vars
  BY <1>1, UartOther_Inv DEF vars, UartInv, TypeOK
<1>2. CASE Next
  BY <1>2, UartSetup_Inv, Receive_Inv, pl011_getc_Inv, pl011_putc_Inv DEF Next, Handler
<1>q. QED
  BY <1>1, <1>2

\* What the invariant says of the handler.
LEMMA UartInvImplies == UartInv => GetcNeverWaits /\ EchoedInOrder
BY DEF UartInv, Waiting, GetcNeverWaits

\* The driver alone, with or without characters that arrive while its handler
\* runs: pl011_getc never polls, and characters are echoed in order.
THEOREM UartSafe == Spec => [](TypeOK /\ GetcNeverWaits /\ EchoedInOrder)
<1>1. UartInv => TypeOK /\ GetcNeverWaits /\ EchoedInOrder
  BY UartInvImplies DEF UartInv
<1>q. QED
  BY <1>1, UartInitInv, UartNextInv, PTL DEF Spec
====
