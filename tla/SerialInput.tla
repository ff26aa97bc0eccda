---------------------------- MODULE SerialInput ----------------------------
(***************************************************************************)
(* The receive path of the XBee serial port SD1: the USART0 receive        *)
(* interrupt, the driver's input queue, the kernel event the driver        *)
(* broadcasts, and the part of tdParser that waits for that event and      *)
(* takes bytes out of the queue.                                           *)
(*                                                                         *)
(* Bytes are numbered in the order the USART delivers them; their values   *)
(* matter to FrameParser, not here.  An interrupt handler runs to its end  *)
(* (handlers do not nest on this port), and so does each system-locked     *)
(* section of the thread; interrupts arrive between those sections.        *)
(***************************************************************************)
EXTENDS Naturals, Sequences, FiniteSets

CONSTANTS
  Capacity,   \* SERIAL_BUFFERS_SIZE, the size of SD1.iqueue
  MaxBytes    \* bound of the model: how many bytes the line delivers

ASSUME SizesAssumption == Capacity \in Nat \ {0} /\ MaxBytes \in Nat

VARIABLES
  arrived,   \* bytes the USART has delivered so far
  iqueue,    \* SD1.iqueue, oldest byte first
  dropped,   \* bytes refused because the queue was full
  read,      \* bytes chnGetTimeout returned to tdParser, in order
  el,        \* elXBeeData: is it registered, its el_flags, its thread's epending
  pc         \* what tdParser does next

vars == <<arrived, iqueue, dropped, read, el, pc>>

INPUT == "CHN_INPUT_AVAILABLE"
ERROR == "SD_ERROR"   \* SD_OVERRUN_ERROR, SD_FRAMING_ERROR and SD_PARITY_ERROR

-----------------------------------------------------------------------------
\* Slips that the properties below must notice.
BroadcastUnsignalled(l, flag) ==
  IF l.registered THEN [l EXCEPT !.flags = @ \cup {flag}] ELSE l
RxEachByte(lineError) ==     \* an event for every byte, the queue not bounded
  /\ arrived < MaxBytes
  /\ arrived' = arrived + 1
  /\ el' = IF el.registered
           THEN [el EXCEPT !.flags = @ \cup {INPUT}, !.pending = TRUE] ELSE el
  /\ iqueue' = Append(iqueue, arrived + 1)
  /\ UNCHANGED <<dropped, read, pc>>
WaitAnyKeepsEvent ==
  /\ pc = "wait" /\ el.pending
  /\ pc' = "clear"
  /\ UNCHANGED <<arrived, iqueue, dropped, read, el>>
ClearNothing ==
  /\ pc = "clear"
  /\ pc' = "get"
  /\ UNCHANGED <<arrived, iqueue, dropped, read, el>>
GetByteKeepsIt ==
  /\ pc = "get"
  /\ pc' = "wait"
  /\ read' = IF iqueue = <<>> THEN read ELSE Append(read, Head(iqueue))
  /\ Len(read) < MaxBytes
  /\ UNCHANGED <<arrived, iqueue, dropped, el>>

\* chEvtBroadcastFlagsI: the flags are accumulated, and the listener's thread
\* is signalled if the accumulated flags meet the ones it registered for.
Broadcast(l, flag) ==
  IF l.registered
  THEN [l EXCEPT !.flags = @ \cup {flag},
                 !.pending = @ \/ INPUT \in l.flags \cup {flag}]
  ELSE l

BroadcastIf(cond, l, flag) == IF cond THEN Broadcast(l, flag) ELSE l

\* set_error, called for a line error that UCSR0A reports.
SetError(lineError, l) == BroadcastIf(lineError, l, ERROR)

\* chIQPutI, for the byte numbered n.
Full == Len(iqueue) = Capacity
Put(n) ==
  /\ iqueue' = IF Full THEN iqueue ELSE Append(iqueue, n)
  /\ dropped' = IF Full THEN dropped \cup {n} ELSE dropped

\* sdIncomingDataI: the flags are broadcast for a byte that finds the queue
\* empty, and for one that finds it full.
IncomingData(l, n) ==
  /\ el' = BroadcastIf(Full, BroadcastIf(iqueue = <<>>, l, INPUT), ERROR)
  /\ Put(n)

\* The USART0 receive interrupt.
RxInterrupt(lineError) ==
  /\ arrived < MaxBytes
  /\ arrived' = arrived + 1
  /\ IncomingData(SetError(lineError, el), arrived + 1)
  /\ UNCHANGED <<read, pc>>

\* tdParser registers its listener once main has finished UIInit and created
\* the threads.  The port has been receiving since sdStart.
Register ==
  /\ pc = "boot"
  /\ el' = [el EXCEPT !.registered = TRUE, !.flags = {}]
  /\ pc' = "wait"
  /\ UNCHANGED <<arrived, iqueue, dropped, read>>

\* chEvtWaitAny returns, at once or after a sleep: the thread is blocked in
\* pc = "wait" exactly while no event is pending.
WaitAny ==
  /\ pc = "wait"
  /\ el.pending
  /\ el' = [el EXCEPT !.pending = FALSE]
  /\ pc' = "clear"
  /\ UNCHANGED <<arrived, iqueue, dropped, read>>

\* chEvtGetAndClearFlags; the flags it returns are ignored.
ClearFlags ==
  /\ pc = "clear"
  /\ el' = [el EXCEPT !.flags = {}]
  /\ pc' = "get"
  /\ UNCHANGED <<arrived, iqueue, dropped, read>>

\* chnGetTimeout(pXBEEChn, TIME_IMMEDIATE): at most one byte per wake-up.
GetByte ==
  /\ pc = "get"
  /\ pc' = "wait"
  /\ \/ /\ iqueue = <<>>          \* Q_TIMEOUT
        /\ UNCHANGED <<iqueue, read>>
     \/ /\ iqueue # <<>>
        /\ read' = Append(read, Head(iqueue))
        /\ iqueue' = Tail(iqueue)
  /\ UNCHANGED <<arrived, dropped, el>>

-----------------------------------------------------------------------------
Init ==
  /\ arrived = 0
  /\ iqueue = <<>>
  /\ dropped = {}
  /\ read = <<>>
  /\ el = [registered |-> FALSE, flags |-> {}, pending |-> FALSE]
  /\ pc = "boot"

Parser == Register \/ WaitAny \/ ClearFlags \/ GetByte

Next == Parser \/ \E lineError \in BOOLEAN : RxInterrupt(lineError)

\* Everything may happen, nothing must.
Spec == Init /\ [][Next]_vars

\* tdParser's steps are not put off for ever: the only thread of a higher
\* priority, tdUI, sleeps in every round of its loop, and tdComp, of the same
\* priority, blocks in every round of its own.  The line owes nothing.
FairSpec == Spec /\ WF_vars(Parser)

-----------------------------------------------------------------------------
TypeOK ==
  /\ arrived \in 0..MaxBytes
  /\ iqueue \in Seq(1..MaxBytes) /\ Len(iqueue) <= Capacity
  /\ dropped \subseteq 1..MaxBytes
  /\ read \in Seq(1..MaxBytes)
  /\ el \in [registered : BOOLEAN, flags : SUBSET {INPUT, ERROR}, pending : BOOLEAN]
  /\ pc \in {"boot", "wait", "clear", "get"}

\* Every byte the USART delivered is accounted for once: it was read, or it is
\* queued, or it was refused by a full queue; and bytes are read in the order
\* they came.
EveryByteOnceInOrder ==
  LET kept == read \o iqueue
  IN  /\ \A i, j \in 1..Len(kept) : i < j => kept[i] < kept[j]
      /\ {kept[i] : i \in 1..Len(kept)} = (1..arrived) \ dropped

\* tdParser waits for an event that is not pending, with bytes in its queue.
Stalled ==
  /\ pc = "wait" /\ ~el.pending
  /\ iqueue # <<>>
  /\ INPUT \notin el.flags

\* A stalled parser never recovers: whatever the line does next, with or
\* without errors, no interrupt signals the listener again, because the driver
\* signals only the byte that finds the queue empty.
StallIsPermanent == [][Stalled => Stalled']_vars

\* What it takes to stall: a byte that came before the listener was registered,
\* or two bytes in the queue as the parser takes one.  A line that leaves the
\* parser time for each byte never stalls it, with or without errors.
StallNeedsOverlap ==
  [][ ~Stalled /\ Stalled' => pc = "boot" \/ (pc = "get" /\ Len(iqueue) > 1) ]_vars

\* A sleeping parser that is not stalled has an empty queue, so the next byte
\* will wake it: there is no third way to sleep.
SleepsOnlyIfEmptyOrStalled ==
  pc = "wait" /\ ~el.pending => iqueue = <<>> \/ Stalled

\* Once the line is quiet the parser has read all that was queued, or it has
\* stalled for good; it does not spin and it does not stop half way otherwise.
DrainsOrStalls == <>[](iqueue = <<>> /\ pc = "wait") \/ <>[]Stalled

\* Every byte the queue accepted is read in the end, if none comes before the
\* listener is registered.  It does not hold: see Stalled.
EveryQueuedByteIsRead ==
  [](pc = "boot" => arrived = 0) =>
    \A n \in 1..MaxBytes :
      (arrived >= n /\ n \notin dropped) ~> (\E i \in 1..Len(read) : read[i] = n)
=============================================================================
