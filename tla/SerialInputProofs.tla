------------------------- MODULE SerialInputProofs --------------------------
(***************************************************************************)
(* Theorems about SerialInput, for every queue size and any bytes.         *)
(***************************************************************************)
EXTENDS SerialInput, TLAPS

\* What a broadcast does to the listener: an INPUT flag that comes with no
\* pending event was there before, and an ERROR alone changes nothing but flags.
LEMMA BroadcastType ==
  ASSUME NEW l \in [registered : BOOLEAN, flags : SUBSET {INPUT, ERROR}, pending : BOOLEAN],
         NEW flag \in {INPUT, ERROR}, NEW cond \in BOOLEAN
  PROVE  LET m == BroadcastIf(cond, l, flag)
         IN  /\ m \in [registered : BOOLEAN, flags : SUBSET {INPUT, ERROR}, pending : BOOLEAN]
             /\ m.registered = l.registered
             /\ INPUT \in m.flags /\ ~m.pending => INPUT \in l.flags /\ ~l.pending
             /\ INPUT \notin l.flags /\ flag = ERROR =>
                  INPUT \notin m.flags /\ m.pending = l.pending
  BY DEF Broadcast, BroadcastIf, INPUT, ERROR

\* What a receive interrupt does to the listener.
LEMMA RxListener ==
  ASSUME TypeOK, NEW lineError \in BOOLEAN, RxInterrupt(lineError)
  PROVE  /\ el' \in [registered : BOOLEAN, flags : SUBSET {INPUT, ERROR}, pending : BOOLEAN]
         /\ INPUT \in el'.flags /\ ~el'.pending => INPUT \in el.flags /\ ~el.pending
         /\ INPUT \notin el.flags /\ iqueue # <<>> =>
              INPUT \notin el'.flags /\ el'.pending = el.pending
<1> DEFINE e1 == BroadcastIf(lineError, el, ERROR)
           e2 == BroadcastIf(iqueue = <<>>, e1, INPUT)
           e3 == BroadcastIf(Len(iqueue) = Capacity, e2, ERROR)
           L == [registered : BOOLEAN, flags : SUBSET {INPUT, ERROR}, pending : BOOLEAN]
<1>0. el' = e3
  BY DEF RxInterrupt, IncomingData, SetError, Full
<1>1. el \in L
  BY DEF TypeOK
<1>2. /\ e1 \in L
      /\ INPUT \in e1.flags /\ ~e1.pending => INPUT \in el.flags /\ ~el.pending
      /\ INPUT \notin el.flags => INPUT \notin e1.flags /\ e1.pending = el.pending
  BY <1>1, BroadcastType
<1>3. /\ e2 \in L
      /\ INPUT \in e2.flags /\ ~e2.pending => INPUT \in e1.flags /\ ~e1.pending
      /\ iqueue # <<>> => e2 = e1
  <2> HIDE DEF e1
  <2> QED
    BY <1>2, BroadcastType DEF BroadcastIf
<1>4. /\ e3 \in L
      /\ INPUT \in e3.flags /\ ~e3.pending => INPUT \in e2.flags /\ ~e2.pending
      /\ INPUT \notin e2.flags => INPUT \notin e3.flags /\ e3.pending = e2.pending
  <2> HIDE DEF e2
  <2> QED
    BY <1>3, BroadcastType
<1> HIDE DEF e1, e2, e3
<1> QED
  BY <1>0, <1>2, <1>3, <1>4

\* The types hold at the start,
LEMMA TypeInit == Init => TypeOK
  BY SizesAssumption DEF Init, TypeOK, INPUT, ERROR

\* and every step keeps them.
LEMMA TypeStep == TypeOK /\ [Next]_vars => TypeOK'
<1> SUFFICES ASSUME TypeOK, [Next]_vars PROVE TypeOK'
  OBVIOUS
<1> USE SizesAssumption
<1>1. ASSUME NEW lineError \in BOOLEAN, RxInterrupt(lineError) PROVE TypeOK'
  <2>1. el' \in [registered : BOOLEAN, flags : SUBSET {INPUT, ERROR}, pending : BOOLEAN]
    BY <1>1, RxListener
  <2>2. arrived' \in 0..MaxBytes /\ arrived + 1 \in 1..MaxBytes
    BY <1>1 DEF RxInterrupt, IncomingData, Put, Full, TypeOK
  <2>3. iqueue' \in Seq(1..MaxBytes) /\ Len(iqueue') <= Capacity
    <3>1. CASE Len(iqueue) = Capacity
      BY <1>1, <3>1 DEF RxInterrupt, IncomingData, Put, Full, TypeOK
    <3>2. CASE Len(iqueue) # Capacity
      <4>1. iqueue' = Append(iqueue, arrived + 1) /\ iqueue \in Seq(1..MaxBytes)
        BY <1>1, <3>2 DEF RxInterrupt, IncomingData, Put, Full, TypeOK
      <4>2. Len(iqueue') = Len(iqueue) + 1 /\ iqueue' \in Seq(1..MaxBytes)
        BY <4>1, <2>2
      <4>3. Len(iqueue) \in Nat /\ Len(iqueue) <= Capacity
        BY DEF TypeOK
      <4> QED
        BY <4>2, <4>3, <3>2
    <3> QED
      BY <3>1, <3>2
  <2>4. dropped' \subseteq 1..MaxBytes
    BY <1>1, <2>2 DEF RxInterrupt, IncomingData, Put, Full, TypeOK
  <2> QED
    BY <1>1, <2>1, <2>2, <2>3, <2>4 DEF RxInterrupt, IncomingData, Put, Full, TypeOK
<1>2. CASE Register
  BY <1>2 DEF Register, TypeOK
<1>3. CASE WaitAny
  BY <1>3 DEF WaitAny, TypeOK
<1>4. CASE ClearFlags
  BY <1>4 DEF ClearFlags, TypeOK
<1>5. CASE GetByte
  <2>1. CASE iqueue = <<>>
    BY <1>5, <2>1 DEF GetByte, TypeOK
  <2>2. CASE iqueue # <<>>
    <3>1. /\ iqueue \in Seq(1..MaxBytes) /\ Len(iqueue) <= Capacity
          /\ iqueue' = Tail(iqueue) /\ read' = Append(read, Head(iqueue))
          /\ read \in Seq(1..MaxBytes)
      BY <1>5, <2>2 DEF GetByte, TypeOK
    <3>2. /\ Len(iqueue) \in Nat /\ Tail(iqueue) \in Seq(1..MaxBytes)
          /\ Len(Tail(iqueue)) = Len(iqueue) - 1 /\ Head(iqueue) \in 1..MaxBytes
      <4>1. iqueue \in Seq(1..MaxBytes)
        BY <3>1
      <4>2. Len(iqueue) \in Nat /\ Len(iqueue) >= 1
        BY <4>1, <2>2
      <4>3. Head(iqueue) \in 1..MaxBytes
        BY <4>1, <4>2
      <4>4. Tail(iqueue) \in Seq(1..MaxBytes)
        BY <4>1, <2>2
      <4>5. Len(Tail(iqueue)) = Len(iqueue) - 1
        BY <4>1, <4>2, <2>2
      <4> QED
        BY <4>2, <4>3, <4>4, <4>5
    <3>3. read' \in Seq(1..MaxBytes)
      BY <3>1, <3>2
    <3>4. iqueue' \in Seq(1..MaxBytes) /\ Len(iqueue') <= Capacity
      BY <3>1, <3>2
    <3>5. pc' = "wait" /\ UNCHANGED <<arrived, dropped, el>>
      BY <1>5 DEF GetByte
    <3> QED
      BY <3>3, <3>4, <3>5 DEF TypeOK
  <2> QED
    BY <2>1, <2>2
<1>6. CASE UNCHANGED vars
  BY <1>6 DEF vars, TypeOK
<1> QED
  BY <1>1, <1>2, <1>3, <1>4, <1>5, <1>6 DEF Next, Parser

\* The queue never holds more than its capacity, and the rest of the types.
THEOREM TypeCorrect == Spec => []TypeOK
  BY TypeInit, TypeStep, PTL DEF Spec

\* Once tdParser sleeps with bytes in its queue and no event pending, it sleeps
\* for ever, whatever the line does.
THEOREM StallForEver == Spec => StallIsPermanent
<1>1. TypeOK /\ [Next]_vars /\ Stalled => Stalled'
  <2> SUFFICES ASSUME TypeOK, [Next]_vars, Stalled PROVE Stalled'
    OBVIOUS
  <2>1. ASSUME NEW lineError \in BOOLEAN, RxInterrupt(lineError) PROVE Stalled'
    <3>1. INPUT \notin el'.flags /\ el'.pending = el.pending
      BY <2>1, RxListener DEF Stalled
    <3>2. iqueue' # <<>>
      BY <2>1 DEF RxInterrupt, IncomingData, Put, Full, Stalled, TypeOK
    <3> QED
      BY <2>1, <3>1, <3>2 DEF RxInterrupt, Stalled
  <2>2. CASE Parser
    BY <2>2 DEF Parser, Register, WaitAny, ClearFlags, GetByte, Stalled
  <2>3. CASE UNCHANGED vars
    BY <2>3 DEF vars, Stalled
  <2> QED
    BY <2>1, <2>2, <2>3 DEF Next
<1>2. TypeOK /\ [Next]_vars => [Stalled => Stalled']_vars
  BY <1>1
<1> QED
  BY <1>2, TypeCorrect, PTL DEF Spec, StallIsPermanent

\* Between two clearings of the flags, INPUT is set only with the event pending.
FlagMeansPending == pc \in {"wait", "get"} /\ INPUT \in el.flags => el.pending

\* tdParser sleeps only with an empty queue, or stalled.
THEOREM SleepDichotomy == Spec => []SleepsOnlyIfEmptyOrStalled
<1>1. Init => FlagMeansPending
  BY DEF Init, FlagMeansPending
<1>2. TypeOK /\ FlagMeansPending /\ [Next]_vars => FlagMeansPending'
  <2> SUFFICES ASSUME TypeOK, FlagMeansPending, [Next]_vars PROVE FlagMeansPending'
    OBVIOUS
  <2>1. ASSUME NEW lineError \in BOOLEAN, RxInterrupt(lineError)
        PROVE  FlagMeansPending'
    <3>1. pc' = pc
      BY <2>1 DEF RxInterrupt, IncomingData, Put, Full
    <3> QED
      BY <2>1, <3>1, RxListener DEF FlagMeansPending
  <2>2. CASE Parser
    BY <2>2 DEF Parser, Register, WaitAny, ClearFlags, GetByte, FlagMeansPending, TypeOK
  <2>3. CASE UNCHANGED vars
    BY <2>3 DEF vars, FlagMeansPending
  <2> QED
    BY <2>1, <2>2, <2>3 DEF Next
<1>3. FlagMeansPending => SleepsOnlyIfEmptyOrStalled
  BY DEF FlagMeansPending, SleepsOnlyIfEmptyOrStalled, Stalled
<1> QED
  BY <1>1, <1>2, <1>3, TypeCorrect, PTL DEF Spec

\* A receive interrupt only adds to what the listener knows, and the byte that
\* finds the queue empty always raises INPUT at a registered listener.
LEMMA RxRaises ==
  ASSUME TypeOK, NEW lineError \in BOOLEAN, RxInterrupt(lineError)
  PROVE  /\ el'.registered = el.registered
         /\ INPUT \in el.flags => INPUT \in el'.flags
         /\ el.pending => el'.pending
         /\ iqueue = <<>> /\ el.registered => INPUT \in el'.flags
<1> DEFINE e1 == BroadcastIf(lineError, el, ERROR)
           e2 == BroadcastIf(iqueue = <<>>, e1, INPUT)
           e3 == BroadcastIf(Len(iqueue) = Capacity, e2, ERROR)
           L == [registered : BOOLEAN, flags : SUBSET {INPUT, ERROR}, pending : BOOLEAN]
           Adds(l, m) == /\ m \in L /\ m.registered = l.registered
                         /\ INPUT \in l.flags => INPUT \in m.flags
                         /\ l.pending => m.pending
<1>0. el' = e3
  BY DEF RxInterrupt, IncomingData, SetError, Full
<1>1. ASSUME NEW l \in L, NEW flag \in {INPUT, ERROR}, NEW cond \in BOOLEAN
      PROVE  Adds(l, BroadcastIf(cond, l, flag))
  BY DEF Broadcast, BroadcastIf, INPUT, ERROR
<1>2. Adds(el, e1)
  <2>1. el \in L
    BY DEF TypeOK
  <2> QED
    BY <2>1, <1>1
<1>3. Adds(e1, e2) /\ (iqueue = <<>> /\ e1.registered => INPUT \in e2.flags)
  <2>1. e1 \in L
    BY <1>2
  <2> HIDE DEF e1
  <2>2. Adds(e1, e2)
    BY <2>1, <1>1
  <2>3. iqueue = <<>> /\ e1.registered => INPUT \in e2.flags
    BY <2>1 DEF Broadcast, BroadcastIf
  <2> QED
    BY <2>2, <2>3
<1>4. Adds(e2, e3)
  <2>1. e2 \in L
    BY <1>3
  <2> HIDE DEF e2
  <2> QED
    BY <2>1, <1>1
<1> HIDE DEF e1, e2, e3
<1> QED
  BY <1>0, <1>2, <1>3, <1>4

\* A parser that has left its boot has its listener registered.
RegisteredAfterBoot == pc # "boot" => el.registered

\* The parser stalls only if a byte came before its listener was registered or
\* two bytes were queued as it took one: a line that leaves it time for each
\* byte never stalls it.
THEOREM StallCause == Spec => StallNeedsOverlap
<1>1. Init => RegisteredAfterBoot
  BY DEF Init, RegisteredAfterBoot
<1>2. TypeOK /\ RegisteredAfterBoot /\ [Next]_vars => RegisteredAfterBoot'
  <2> SUFFICES ASSUME TypeOK, RegisteredAfterBoot, [Next]_vars
               PROVE  RegisteredAfterBoot'
    OBVIOUS
  <2>1. ASSUME NEW lineError \in BOOLEAN, RxInterrupt(lineError)
        PROVE  RegisteredAfterBoot'
    <3>1. pc' = pc
      BY <2>1 DEF RxInterrupt
    <3> QED
      BY <2>1, <3>1, RxRaises DEF RegisteredAfterBoot
  <2>2. CASE Parser
    BY <2>2 DEF Parser, Register, WaitAny, ClearFlags, GetByte, RegisteredAfterBoot, TypeOK
  <2>3. CASE UNCHANGED vars
    BY <2>3 DEF vars, RegisteredAfterBoot
  <2> QED
    BY <2>1, <2>2, <2>3 DEF Next
<1> DEFINE Cause == pc = "boot" \/ (pc = "get" /\ Len(iqueue) > 1)
<1>3. TypeOK /\ RegisteredAfterBoot /\ [Next]_vars =>
        [~Stalled /\ Stalled' => Cause]_vars
  <2> SUFFICES ASSUME TypeOK, RegisteredAfterBoot, Next, ~Stalled, Stalled'
               PROVE  Cause
    OBVIOUS
  <2>1. ASSUME NEW lineError \in BOOLEAN, RxInterrupt(lineError) PROVE Cause
    <3>1. pc = "wait" /\ ~el'.pending /\ INPUT \notin el'.flags
      BY <2>1 DEF RxInterrupt, Stalled
    <3>2. ~el.pending /\ INPUT \notin el.flags /\ el.registered
      BY <2>1, <3>1, RxRaises DEF RegisteredAfterBoot
    <3>3. iqueue # <<>>
      BY <2>1, <3>1, <3>2, RxRaises
    <3> QED
      BY <3>1, <3>2, <3>3 DEF Stalled
  <2>2. CASE Register
    BY <2>2 DEF Register
  <2>3. CASE WaitAny \/ ClearFlags
    BY <2>3 DEF WaitAny, ClearFlags, Stalled
  <2>4. CASE GetByte
    <3>1. iqueue \in Seq(1..MaxBytes)
      BY DEF TypeOK
    <3>2. iqueue # <<>> /\ iqueue' = Tail(iqueue)
      BY <2>4, Zenon DEF GetByte, Stalled
    <3>3. iqueue' # <<>>
      BY Zenon DEF Stalled
    <3>4. Len(iqueue) > 1
      BY <3>1, <3>2, <3>3
    <3> QED
      BY <2>4, <3>4 DEF GetByte
  <2> QED
    BY <2>1, <2>2, <2>3, <2>4 DEF Next, Parser
<1> QED
  BY <1>1, <1>2, <1>3, TypeCorrect, PTL DEF Spec, StallNeedsOverlap

-----------------------------------------------------------------------------
\* What was read and what is queued, as one sequence.
Kept == read \o iqueue

KeptParts ==
  /\ Len(read) \in Nat /\ Len(iqueue) \in Nat
  /\ Len(Kept) = Len(read) + Len(iqueue)
  /\ \A i \in 1..Len(read) : Kept[i] = read[i]
  /\ \A i \in 1..Len(iqueue) : Kept[Len(read) + i] = iqueue[i]

\* Where the bytes of the two parts are in Kept.
LEMMA KeptAt == TypeOK => KeptParts
<1> SUFFICES ASSUME TypeOK PROVE KeptParts
  OBVIOUS
<1>1. read \in Seq(1..MaxBytes) /\ iqueue \in Seq(1..MaxBytes)
  BY DEF TypeOK
<1>2. Len(read) \in Nat /\ Len(iqueue) \in Nat
  BY <1>1
<1>3. Len(Kept) = Len(read) + Len(iqueue)
  BY <1>1 DEF Kept
<1>4. ASSUME NEW i \in 1..Len(read) PROVE Kept[i] = read[i]
  BY <1>1, <1>2, <1>4 DEF Kept
<1>5. ASSUME NEW i \in 1..Len(iqueue) PROVE Kept[Len(read) + i] = iqueue[i]
  BY <1>1, <1>2, <1>5 DEF Kept
<1> QED
  BY <1>2, <1>3, <1>4, <1>5 DEF KeptParts

\* Reading a byte moves it from one part to the other,
LEMMA KeptByGet ==
  ASSUME TypeOK, TypeOK', GetByte
  PROVE  Len(Kept') = Len(Kept) /\ \A i \in 1..Len(Kept) : Kept'[i] = Kept[i]
<1>a. KeptParts /\ KeptParts'
  BY KeptAt, PTL
<1>1. CASE iqueue = <<>>
  <2>1. Kept' = Kept
    BY <1>1 DEF GetByte, Kept
  <2> QED
    BY <2>1
<1>2. CASE iqueue # <<>>
  <2>1. /\ read \in Seq(1..MaxBytes) /\ iqueue \in Seq(1..MaxBytes)
        /\ iqueue' = Tail(iqueue) /\ read' = Append(read, Head(iqueue))
    BY <1>2 DEF GetByte, TypeOK
  <2>2. Len(iqueue) \in Nat /\ Len(iqueue) >= 1 /\ Len(read) \in Nat
    BY <1>2, <2>1
  <2>3. /\ Len(read') = Len(read) + 1
        /\ \A i \in 1..Len(read) : read'[i] = read[i]
        /\ read'[Len(read) + 1] = iqueue[1]
    BY <2>1, <2>2
  <2>4. /\ Len(iqueue') = Len(iqueue) - 1
        /\ \A i \in 1..(Len(iqueue) - 1) : iqueue'[i] = iqueue[i + 1]
    BY <1>2, <2>1, <2>2
  <2>5. /\ Len(Kept') = Len(read') + Len(iqueue')
        /\ \A i \in 1..Len(read') : Kept'[i] = read'[i]
        /\ \A i \in 1..Len(iqueue') : Kept'[Len(read') + i] = iqueue'[i]
    BY <1>a DEF KeptParts
  <2>6. ASSUME NEW i \in 1..Len(Kept) PROVE Kept'[i] = Kept[i]
    <3>1. i \in 1..(Len(read) + Len(iqueue))
      BY <1>a DEF KeptParts
    <3>2. CASE i <= Len(read)
      BY <2>2, <2>3, <2>5, <3>1, <3>2, <1>a DEF KeptParts
    <3>3. CASE i = Len(read) + 1
      BY <2>2, <2>3, <2>5, <3>1, <3>3, <1>a DEF KeptParts
    <3>4. CASE i > Len(read) + 1
      <4> DEFINE k == i - Len(read) - 1
      <4>1. /\ k \in 1..(Len(iqueue) - 1) /\ k + 1 \in 1..Len(iqueue)
            /\ i = (Len(read) + 1) + k /\ i = Len(read) + (k + 1)
        BY <2>2, <3>1, <3>4
      <4> HIDE DEF k
      <4>2. Kept'[i] = iqueue'[k]
        BY <2>3, <2>4, <2>5, <4>1
      <4>3. Kept[i] = iqueue[k + 1]
        BY <4>1, <1>a DEF KeptParts
      <4> QED
        BY <2>4, <4>1, <4>2, <4>3
    <3> QED
      BY <2>2, <3>1, <3>2, <3>3, <3>4
  <2>7. Len(Kept') = Len(Kept)
    BY <2>2, <2>3, <2>4, <2>5, <1>a DEF KeptParts
  <2> QED
    BY <2>6, <2>7
<1> QED
  BY <1>1, <1>2

\* and an interrupt that finds room puts the new byte behind the others.
LEMMA KeptByRx ==
  ASSUME TypeOK, TypeOK', NEW n, UNCHANGED read, iqueue' = Append(iqueue, n)
  PROVE  /\ Len(Kept') = Len(Kept) + 1 /\ Kept'[Len(Kept) + 1] = n
         /\ \A i \in 1..Len(Kept) : Kept'[i] = Kept[i]
<1>a. KeptParts /\ KeptParts'
  BY KeptAt, PTL
<1>1. iqueue \in Seq(1..MaxBytes) /\ read \in Seq(1..MaxBytes)
  BY DEF TypeOK
<1>2. /\ Len(iqueue') = Len(iqueue) + 1 /\ iqueue'[Len(iqueue) + 1] = n
      /\ \A i \in 1..Len(iqueue) : iqueue'[i] = iqueue[i]
  BY <1>1
<1>3. /\ Len(Kept') = Len(read') + Len(iqueue')
      /\ \A i \in 1..Len(read') : Kept'[i] = read'[i]
      /\ \A i \in 1..Len(iqueue') : Kept'[Len(read') + i] = iqueue'[i]
  BY <1>a DEF KeptParts
<1>4. ASSUME NEW i \in 1..Len(Kept) PROVE Kept'[i] = Kept[i]
  <2>1. CASE i <= Len(read)
    BY <1>3, <2>1, <1>a DEF KeptParts
  <2>2. CASE i > Len(read)
    <3> DEFINE k == i - Len(read)
    <3>1. k \in 1..Len(iqueue) /\ k \in 1..Len(iqueue') /\ i = Len(read) + k
      BY <1>2, <2>2, <1>a DEF KeptParts
    <3> HIDE DEF k
    <3> QED
      BY <1>2, <1>3, <3>1, <1>a DEF KeptParts
  <2> QED
    BY <2>1, <2>2, <1>a DEF KeptParts
<1>5. Len(Kept') = Len(Kept) + 1
  BY <1>2, <1>3, <1>a DEF KeptParts
<1>6. Kept'[Len(Kept) + 1] = n
  <2> DEFINE k == Len(iqueue) + 1
  <2>1. k \in 1..Len(iqueue') /\ Len(Kept) + 1 = Len(read) + k /\ iqueue'[k] = n
    BY <1>2, <1>a DEF KeptParts
  <2> HIDE DEF k
  <2> QED
    BY <1>3, <2>1
<1> QED
  BY <1>4, <1>5, <1>6

\* EveryByteOnceInOrder, spoken of Kept; and a byte not yet delivered was not
\* refused, without which the next byte could be counted twice.
Ordered == \A i, j \in 1..Len(Kept) : i < j => Kept[i] < Kept[j]
Accounted == {Kept[i] : i \in 1..Len(Kept)} = (1..arrived) \ dropped
DroppedArrived == dropped \subseteq 1..arrived

KeptInv == Ordered /\ Accounted /\ DroppedArrived

\* A step that moves no byte in or out of Kept keeps the invariant.
LEMMA KeptSame ==
  ASSUME KeptInv, UNCHANGED <<arrived, dropped>>,
         Len(Kept') = Len(Kept), \A i \in 1..Len(Kept) : Kept'[i] = Kept[i]
  PROVE  KeptInv'
<1>1. Ordered'
  BY DEF KeptInv, Ordered
<1>2. Accounted'
  <2>1. {Kept'[i] : i \in 1..Len(Kept')} = {Kept[i] : i \in 1..Len(Kept)}
    OBVIOUS
  <2> QED
    BY <2>1 DEF KeptInv, Accounted
<1>3. DroppedArrived'
  BY DEF KeptInv, DroppedArrived
<1> QED
  BY <1>1, <1>2, <1>3 DEF KeptInv

\* At the start nothing is kept and nothing has arrived.
LEMMA KeptInit == Init => KeptInv
<1> SUFFICES ASSUME Init PROVE KeptInv
  OBVIOUS
<1>1. KeptParts
  BY TypeInit, KeptAt
<1>2. Len(Kept) = 0 /\ arrived = 0 /\ dropped = {}
  BY <1>1 DEF Init, KeptParts
<1>3. 1..Len(Kept) = {} /\ 1..arrived = {}
  BY <1>2
<1> QED
  BY <1>2, <1>3 DEF KeptInv, Ordered, Accounted, DroppedArrived

\* The interrupt refuses the byte, or puts it behind all the others.
LEMMA KeptRx ==
  ASSUME TypeOK, TypeOK', KeptInv, NEW lineError \in BOOLEAN, RxInterrupt(lineError)
  PROVE  KeptInv'
<1>1. arrived \in Nat /\ arrived' = arrived + 1 /\ UNCHANGED read
  BY DEF RxInterrupt, IncomingData, Put, Full, TypeOK
<1>2. arrived + 1 \notin dropped
  BY <1>1 DEF KeptInv, DroppedArrived
<1>3. CASE Len(iqueue) = Capacity
  <2>1. dropped' = dropped \cup {arrived + 1} /\ Kept' = Kept
    BY <1>3 DEF RxInterrupt, IncomingData, Put, Full, Kept
  <2>2. (1..arrived) \ dropped = (1..arrived') \ dropped'
    BY <1>1, <2>1
  <2>3. DroppedArrived'
    BY <1>1, <2>1 DEF KeptInv, DroppedArrived
  <2> QED
    BY <2>1, <2>2, <2>3 DEF KeptInv, Ordered, Accounted
<1>4. CASE Len(iqueue) # Capacity
  <2>1. dropped' = dropped /\ iqueue' = Append(iqueue, arrived + 1)
    BY <1>4 DEF RxInterrupt, IncomingData, Put, Full
  <2>2. /\ Len(Kept') = Len(Kept) + 1 /\ Kept'[Len(Kept) + 1] = arrived + 1
        /\ \A i \in 1..Len(Kept) : Kept'[i] = Kept[i]
    BY <1>1, <2>1, KeptByRx
  <2>3. Len(Kept) \in Nat
    BY KeptAt DEF KeptParts
  <2>4. \A i \in 1..Len(Kept) : Kept[i] \in 1..arrived
    BY DEF KeptInv, Accounted
  <2>5. Ordered'
    BY <1>1, <2>2, <2>3, <2>4 DEF KeptInv, Ordered
  <2>6. {Kept'[i] : i \in 1..Len(Kept')}
          = {Kept[i] : i \in 1..Len(Kept)} \cup {arrived + 1}
    BY <2>2, <2>3
  <2>7. (1..arrived') \ dropped' = ((1..arrived) \ dropped) \cup {arrived + 1}
    BY <1>1, <1>2, <2>1
  <2>8. Accounted'
    BY <2>6, <2>7 DEF KeptInv, Accounted
  <2>9. DroppedArrived'
    BY <1>1, <2>1 DEF KeptInv, DroppedArrived
  <2> QED
    BY <2>5, <2>8, <2>9 DEF KeptInv
<1> QED
  BY <1>3, <1>4

\* No byte is lost without being refused, none is read twice, and bytes are
\* read in the order they came.
THEOREM BytesSafe == Spec => []EveryByteOnceInOrder
<1>1. TypeOK /\ TypeOK' /\ KeptInv /\ [Next]_vars => KeptInv'
  <2> SUFFICES ASSUME TypeOK, TypeOK', KeptInv, [Next]_vars PROVE KeptInv'
    OBVIOUS
  <2>1. ASSUME NEW lineError \in BOOLEAN, RxInterrupt(lineError) PROVE KeptInv'
    BY <2>1, KeptRx
  <2>2. CASE GetByte
    BY <2>2, KeptByGet, KeptSame DEF GetByte
  <2>3. CASE UNCHANGED <<arrived, iqueue, dropped, read>>
    <3>1. Kept' = Kept
      BY <2>3 DEF Kept
    <3> QED
      BY <2>3, <3>1, KeptSame
  <2>4. CASE Register \/ WaitAny \/ ClearFlags
    BY <2>3, <2>4 DEF Register, WaitAny, ClearFlags
  <2>5. CASE UNCHANGED vars
    BY <2>3, <2>5 DEF vars
  <2> QED
    BY <2>1, <2>2, <2>4, <2>5 DEF Next, Parser
<1>2. KeptInv => EveryByteOnceInOrder
  BY DEF KeptInv, Ordered, Accounted, EveryByteOnceInOrder, Kept
<1> QED
  BY <1>1, <1>2, KeptInit, TypeCorrect, PTL DEF Spec

-----------------------------------------------------------------------------
\* What the parser has still to do: the rest of this round of its loop, one
\* more for an event that is pending, and one for each byte to come.
Ahead ==
  [boot |-> 1, wait |-> 0, clear |-> 2, get |-> 1][pc] + (IF el.pending THEN 3 ELSE 0)
Work == Ahead + 3 * (MaxBytes - arrived)

WorkShrinks == [][ Work' <= Work /\ (Parser => Work' < Work) ]_vars

\* A step of the parser does some of it, and a byte adds no more than its own
\* round, as the event that is pending is one signal for many.
LEMMA WorkStep ==
  ASSUME TypeOK, TypeOK', [Next]_vars
  PROVE  /\ Work' <= Work
         /\ Parser => Work' < Work
<1> DEFINE P(e) == IF e.pending THEN 3 ELSE 0
           Q(p) == [boot |-> 1, wait |-> 0, clear |-> 2, get |-> 1][p]
<1>0. /\ P(el) \in {0, 3} /\ P(el') \in {0, 3}
      /\ Q(pc) \in 0..4
      /\ arrived \in Nat /\ MaxBytes \in Nat /\ arrived <= MaxBytes
  BY SizesAssumption DEF TypeOK
<1>1. Work = Q(pc) + P(el) + 3 * (MaxBytes - arrived)
  BY DEF Work, Ahead
<1>2. Work' = Q(pc') + P(el') + 3 * (MaxBytes - arrived')
  BY DEF Work, Ahead
<1>3. CASE Register
  <2>1. Q(pc) = 1 /\ Q(pc') = 0 /\ arrived' = arrived
    BY <1>3 DEF Register
  <2>2. el.pending' = el.pending
    BY <1>3 DEF Register, TypeOK
  <2>3. P(el') = P(el)
    BY <2>2
  <2> HIDE DEF P, Q
  <2> QED  BY <1>0, <1>1, <1>2, <2>1, <2>3
<1>4. CASE WaitAny
  <2>1. Q(pc) = 0 /\ Q(pc') = 2 /\ arrived' = arrived /\ P(el) = 3
    BY <1>4 DEF WaitAny
  <2>2. P(el') = 0
    BY <1>4 DEF WaitAny, TypeOK
  <2> HIDE DEF P, Q
  <2> QED  BY <1>0, <1>1, <1>2, <2>1, <2>2
<1>5. CASE ClearFlags
  <2>1. Q(pc) = 2 /\ Q(pc') = 1 /\ arrived' = arrived
    BY <1>5 DEF ClearFlags
  <2>2. P(el') = P(el)
    BY <1>5 DEF ClearFlags, TypeOK
  <2> HIDE DEF P, Q
  <2> QED  BY <1>0, <1>1, <1>2, <2>1, <2>2
<1>6. CASE GetByte
  <2>1. Q(pc) = 1 /\ Q(pc') = 0 /\ arrived' = arrived /\ P(el') = P(el)
    BY <1>6 DEF GetByte
  <2> HIDE DEF P, Q
  <2> QED  BY <1>0, <1>1, <1>2, <2>1
<1>7. CASE \E lineError \in BOOLEAN : RxInterrupt(lineError)
  <2>1. Q(pc') = Q(pc) /\ arrived' = arrived + 1 /\ pc' = pc
    BY <1>7 DEF RxInterrupt
  <2>2. ~Parser
    BY <1>0, <2>1 DEF Parser, Register, WaitAny, ClearFlags, GetByte
  <2> HIDE DEF P, Q
  <2> QED  BY <1>0, <1>1, <1>2, <2>1, <2>2
<1>8. CASE UNCHANGED vars
  <2>1. UNCHANGED <<pc, el, arrived>>
    BY <1>8 DEF vars
  <2>2. ~Parser
    BY <1>8 DEF vars, Parser, Register, WaitAny, ClearFlags, GetByte
  <2>3. Work' = Work
    BY <1>1, <1>2, <2>1
  <2> HIDE DEF P, Q
  <2> QED  BY <1>0, <1>1, <2>2, <2>3
<1> QED  BY <1>3, <1>4, <1>5, <1>6, <1>7, <1>8 DEF Next, Parser

WorkBounded == Work \in 0..(1 + 3 * MaxBytes)

\* The parser goes round its loop at most once for each byte that arrives: it
\* never spins on a pending event, and when no more bytes come it is at rest in
\* at most five steps (tdParser), asleep as SleepDichotomy says: DrainsOrStalls,
\* up to tdParser's going on.
THEOREM ParserDoesNotSpin == Spec => []WorkBounded /\ WorkShrinks
<1> DEFINE Natural == Work \in Nat
<1>1. TypeOK => Natural
  <2> SUFFICES ASSUME TypeOK PROVE Work \in Nat
    OBVIOUS
  <2>1. Ahead \in 0..5
    BY DEF TypeOK, Ahead
  <2>2. MaxBytes - arrived \in Nat
    BY SizesAssumption DEF TypeOK
  <2> QED  BY <2>1, <2>2 DEF Work
<1>2. Init => WorkBounded
  BY SizesAssumption DEF Init, Work, Ahead, WorkBounded
<1>3. TypeOK /\ TypeOK' /\ [Next]_vars => [Work' <= Work /\ (Parser => Work' < Work)]_vars
  BY WorkStep
<1>4. TypeOK /\ TypeOK' /\ Natural' /\ WorkBounded /\ [Next]_vars => WorkBounded'
  <2> SUFFICES ASSUME TypeOK, TypeOK', Natural', WorkBounded, [Next]_vars PROVE WorkBounded'
    OBVIOUS
  <2>1. Work' \in Nat /\ Work' <= Work /\ Work \in 0..(1 + 3 * MaxBytes)
    BY WorkStep DEF WorkBounded
  <2> QED  BY <2>1, SizesAssumption DEF WorkBounded
<1> HIDE DEF Natural
<1> QED  BY <1>1, <1>2, <1>3, <1>4, TypeCorrect, PTL DEF Spec, WorkShrinks
=============================================================================
