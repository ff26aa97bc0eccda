------------------------------ MODULE Threads -------------------------------
(***************************************************************************)
(* The program's threads on the kernel and the I2C bus: main creates       *)
(* tdUI, tdParser and tdComp in this order and then only sleeps; tdParser  *)
(* waits for bytes of the radio and posts positions; tdComp fetches them,  *)
(* with a timeout; tdUI, alone above the others, transfers and sleeps.     *)
(*                                                                         *)
(* Who runs, and when, is what the module is about: what the threads say   *)
(* to each other is in SerialInput and PeerQueue.  It begins after UIInit, *)
(* when main is the only thread.                                           *)
(***************************************************************************)
EXTENDS Kernel, I2cBus

VARIABLES
  created,      \* how many threads main has created
  initialised   \* history: xbee_init of tdParser is done

vars == <<kvars, bvars, created, initialised>>

CreationOrder == <<"tdUI", "tdParser", "tdComp">>

ASSUME ThreadsAssumption ==
  /\ Threads = {"idle", "main", "tdUI", "tdParser", "tdComp"}
  /\ Idle = "idle" /\ First = "main"
  /\ Priority["tdUI"] > Priority["main"]
  /\ Priority["tdParser"] = Priority["main"] /\ Priority["tdComp"] = Priority["main"]

Init ==
  /\ KernelInit /\ BusInit
  /\ created = 0
  /\ initialised = FALSE

Running(t) == current = t

-----------------------------------------------------------------------------
MainCreates ==
  /\ Running("main") /\ created < Len(CreationOrder)
  /\ Create(CreationOrder[created + 1])
  /\ created' = created + 1
  /\ UNCHANGED <<bvars, initialised>>

MainSleeps ==
  /\ Running("main") /\ created = Len(CreationOrder)
  /\ \E ticks \in Delays["main"] : GoSleepTimeout("sleeping", ticks)
  /\ UNCHANGED <<bvars, created, initialised>>

\* chEvtWaitAny with nothing pending; the first time, after xbee_init.
ParserWaits ==
  /\ Running("tdParser")
  /\ GoSleep("wtorevt")
  /\ initialised' = TRUE
  /\ UNCHANGED <<bvars, created>>

\* chMBPost while tdComp waits in chMBFetch.
ParserPosts ==
  /\ Running("tdParser") /\ initialised
  /\ state["tdComp"] = "wtsem"
  /\ Awaken("tdComp")
  /\ UNCHANGED <<bvars, created, initialised>>

\* The receive interrupt, while tdParser waits for its event.
ByteArrives ==
  /\ state["tdParser"] = "wtorevt"
  /\ Awaken("tdParser")
  /\ UNCHANGED <<bvars, created, initialised>>

\* chMBFetch of an empty mailbox.
CompFetches ==
  /\ Running("tdComp")
  /\ \E ticks \in Delays["tdComp"] : GoSleepTimeout("wtsem", ticks)
  /\ UNCHANGED <<bvars, created, initialised>>

\* tdUI sleeps after each transfer, and uses the bus for all it shows.
UiSleeps ==
  /\ Running("tdUI") /\ driver = "READY"
  /\ \E ticks \in Delays["tdUI"] : GoSleepTimeout("sleeping", ticks)
  /\ UNCHANGED <<bvars, created, initialised>>

UiTransmits ==
  /\ Running("tdUI")
  /\ \E o \in Transfers : Transmit(o)
  /\ GoSleep("suspended")
  /\ UNCHANGED <<created, initialised>>

UiFinishes ==
  /\ Running("tdUI") /\ ~ticking
  /\ Finish
  /\ UNCHANGED <<kvars, created, initialised>>

\* The interrupt of the bus; the one that ends a transfer resumes tdUI.
BusInterrupt ==
  /\ ~ticking
  /\ TwiInterrupt
  /\ IF waiting /\ ~waiting' THEN Awaken("tdUI") ELSE UNCHANGED kvars
  /\ UNCHANGED <<created, initialised>>

BusDies ==
  /\ Die
  /\ UNCHANGED <<kvars, created, initialised>>

TimerTicks ==
  /\ Tick \/ Expire \/ TickEnd
  /\ UNCHANGED <<bvars, created, initialised>>

Next ==
  \/ MainCreates \/ MainSleeps
  \/ ParserWaits \/ ParserPosts \/ ByteArrives
  \/ CompFetches
  \/ UiSleeps \/ UiTransmits \/ UiFinishes
  \/ BusInterrupt \/ BusDies
  \/ TimerTicks

\* The timer never stops.  Between two of its interrupts the running thread
\* gets on, and so does the bus: what is cut short again and again is done in
\* the end, hence the strong fairness.  A thread's round ends in a wait (the
\* loops of all four have one, and a round does a bounded amount of work).
\* Nothing is assumed of the bytes of the radio or of the choice to transmit.
Fairness ==
  /\ WF_vars(TimerTicks)
  /\ SF_vars(MainCreates) /\ SF_vars(MainSleeps)
  /\ SF_vars(ParserWaits) /\ SF_vars(CompFetches)
  /\ SF_vars(UiSleeps \/ UiTransmits) /\ SF_vars(UiFinishes)
  /\ SF_vars(BusInterrupt)

SafeSpec == Init /\ [][Next]_vars
Spec == SafeSpec /\ Fairness

-----------------------------------------------------------------------------
TypeOK ==
  /\ KernelTypeOK /\ OnePlace
  /\ BusTypeOK
  /\ created \in 0..Len(CreationOrder)
  /\ initialised \in BOOLEAN

\* tdComp fetches from a mailbox that tdParser has initialised: nothing but
\* the order of creation, equal priorities and "ahead of its equals" for a
\* preempted thread say so, although tdUI may preempt tdParser in xbee_init.
InitBeforeFetch == Running("tdComp") => initialised

\* Every thread gets its turn: one that is ready, sleeps or waits with a
\* timeout runs some time later, whatever the bytes and transfers.
EachGetsItsTurn ==
  \A t \in Threads \ {Idle} :
    state[t] = "ready" \/ In(timers, t) ~> Running(t)

\* A transfer ends, and tdUI goes on, unless a device holds the bus for ever:
\* then tdUI waits for ever, as the timeout it gave is not passed on.
TransferEnds == waiting ~> Running("tdUI") \/ dead
=============================================================================
