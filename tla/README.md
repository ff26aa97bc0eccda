# A formal model of the Hillary & Norgay GPS device

This directory is a TLA+ development beside the firmware in `src/main`: an ATmega
device with an XBee radio, a 4x20 display, buttons, a rotary knob, a photocell and
a compass, on ChibiOS/RT. It holds the specifications, the configurations TLC checks
them with on small instances, and proofs of theorems about them for the TLA+ proof
system (tlapm). `PROJECT.json` lists components, runs, theorems, hazards, findings,
and for every definition that models code the lines it models.

    tlc -workers 2 -config MCPeerQueue.cfg MCPeerQueue    # one run
    tlapm PeerQueueProofs.tla                              # one module of proofs

Paths below are relative to `src/main` unless they begin with `src/`.

## 1. Inventory

### The system

One microcontroller, three threads, a handful of interrupt handlers.

    radio -> USART0 interrupt -> SD1.iqueue -> tdParser --pool, mailbox--> tdComp
                    |  (event)      ^             |  '#'...'$', table parser   |
                    +---------------+             v                            v
                                            peer_message_t            params, compute()
                                                                               |
    buttons, knob, photocell --callbacks--> menu, flags, levels <--UIAlertToFriends
                                                 |                UIUpdateNearestFriendInfo
                                                 v
                                               tdUI -> I2C -> display, compass; LEDs, buzzer

`tdParser` and `tdComp` have `NORMALPRIO` and there is no time quantum
(`CH_CFG_TIME_QUANTUM` is 0); `tdUI` has `INTERACTIVEPRIO`, above both, and gives way
when it sleeps or waits for I2C (main.c:69-71). Interrupt handlers come at any point
outside a system lock, do not nest, and call the application's callbacks.

| component | state it keeps | operations | meets others through |
|---|---|---|---|
| SD1 receive path (`serial_lld.c`, `serial.c`, `chqueues.c`, `chevents.c`) | input queue of 16 bytes, event source, the listener's flags and pending events | receive interrupt, register, wait, clear flags, get a byte | interrupt against `tdParser` |
| frame preprocessing (`parserThread.c`) | `state`, `buffer[27]`, `i` | one byte: open, collect, close, abandon, ignore | bytes in, `xbeeStepParser` out |
| table parser (`parser.c`, `xbeeParser.c`) | table state, token of 16 bytes, count, four static fields | step, failure, cleanup | posts to the mailbox |
| pool and mailbox (`chmempools.c`, `chmboxes.c`, `chsem.c`) | free list, ring, two pointers, two counting semaphores | alloc, post, free; fetch with timeout, copy, free | `tdParser` against `tdComp` and the timer |
| computation (`computationThread.c`) | `params`: positions, messages, alert distance | update, `compute()` | mailbox in; panel's flags and friend out |
| panel (`UIThread.c`) | `mCurMenu`, `uiFlags`, `prev_mCurMenu`, friend's data | button callbacks, drawing, alarm | unlocked variables, three parties |
| display levels (`UIThread.c`, `LCD.c`) | contrast, brightness, and what the display was told | buttons, knob, photocell, clamp, apply, reset | interrupts against `tdUI` |
| buttons, knob, photocell drivers | last raw input, last light level | pin-change and ADC interrupts | callbacks |
| transmit path, `UISendMessage` | output queue | format, put | never called by the program |
| GPS parser, software serial port `SDS` | bit counters, table state | not started in this build (main.c:57) | `GPS_HACK` answers with a fixed position |
| I2C driver and bus mutex (`i2c_lld.c`, `i2c.c`) | transfer state, waiting thread, errors, mutex | start a transfer, one interrupt per bus status, resume | `tdUI` (display, compass) |
| compass, LEDs, buzzer, board, configuration | registers | read, write | called by `tdUI` |
| kernel: scheduler and timers (`chschd.c`, `chthreads.c`, `chvt.c`) | ready list, each thread's state, delta list of timers | create, sleep, wake, preempt, tick | underneath all threads |
| nearest friend's data (`UIThread.c`) | `g_nearestFriendInfo`, distance, what the display shows of them | store (unlocked), draw line by line | `tdComp` against `tdUI` and a bus that may fail |
| ChibiOS, the rest | | drivers and services not used here | |

Outside the device's firmware are `src/test` (programs for single devices) and
`src/complementary/stm32` (a USB shell on another board); neither is modelled.

### What is hard, and what makes each part correct

* **Receive path.** The driver broadcasts its event only for the byte that finds the
  queue empty, and the thread takes one byte for each event. Correct means: no
  byte lost unseen, repeated or reordered; and the thread never asleep while bytes wait.
  The second is false in general: the model says exactly when.
* **Frames.** State survives between bytes, between frames and in the table parser, and
  a cleanup resets only part of it; the link loses bytes and adds others. Correct means:
  what is posted is what the frame says, and damage does not spread.
* **Pool and mailbox.** Two threads and a timer, two semaphores, a ring and a free list
  that overwrites what it holds. Correct means: a FIFO channel that may refuse, and no
  object lost or shared.
* **Computation.** A sequence of messages, a flag that remembers the first alarm, and the
  own id in a message. Correct means: the closest friend is shown, isolation raises the
  alarm, and nothing else does.
* **Panel and levels.** Read-modify-write of shared words in a thread with interrupt
  handlers in between, a menu that is read three times in one round. Correct means: no
  button press is undone, the alarm sounds while it is on, and the display comes to show
  what is set.

* **Kernel.** Priorities, equal ones first come first served, a preempted thread ahead of
  its equals, timeouts that race with wake-ups. Correct means: a thread is in one place,
  none that runs is outranked, no timer early or late, nobody starved, and what the
  program rests on the order of creation for (`xbee_init` before the first fetch) holds.
* **I2C.** An interrupt that walks through a transfer, ends it in five ways, one of them a
  case without a break, while the thread waits with no timeout. Correct means: each
  end stops the hardware and resumes the thread, and `MSG_OK` is said of complete transfers.
* **Friend's screen.** Four lines printed over some 30 ms while the data may change, over a bus
  whose errors nobody looks at. Correct means: it is repaired, and the two displays of the
  direction do not contradict each other.

`PROJECT.json` has the hazards one by one, each at its line, with the properties that
cover it or the reason why none does.

## 2. Modules

| module | models | checked by | proofs |
|---|---|---|---|
| `SerialInput` | SD1 receive path up to `tdParser`'s `chnGetTimeout` | `MCSerialInput` | `SerialInputProofs` |
| `FrameParser` | the loop body of `tdParser` on a byte; `stepParser` with the XBee table | `MCFrameParser` | `FrameLineProofs` |
| `FrameLine` | composes `FrameParser` with a lossy line and the senders' format | `MCFrameLine` | `FrameLineProofs` |
| `PeerChannel` | abstract: what pool and mailbox promise | through `PeerQueue` | |
| `PeerQueue` | pool, mailbox, `parse_XbeeFinalize`, fetch and timeout of `tdComp` | `MCPeerQueue` | `PeerQueueProofs` |
| `Kernel` | ready list, sleep and wake-up, preemption, timer interrupt, delta list | through `Threads` | `ThreadsProofs` |
| `Deadlines` | abstract: what the timers promise | through `Kernel` | |
| `I2cBus` | one transfer from call to return, all bus statuses | through `Threads` | `ThreadsProofs` |
| `Threads` | composes `Kernel` and `I2cBus` with the program's threads | `MCThreads` | `ThreadsProofs` |
| `FriendPanel` | the friend's data, stored and drawn unlocked, over a bus that fails | `MCFriendPanel` | `FriendPanelProofs` |
| `Tracking` | `tdComp`'s rounds and `compute()` | `MCTracking` | `TrackingProofs` |
| `UiPanel` | `tdUI`'s loop, the buttons, `UIAlertToFriends` | `MCUiPanel` | `UiPanelProofs` |
| `LcdLevels` | contrast and brightness | `MCLcdLevels` | `LcdLevelsProofs` |

The grain of atomicity is the one the processor has where it matters: an interrupt handler
is one step, a system-locked kernel call is one step, and a thread's access to a variable
that handlers share is one step. What a thread does to data nobody else sees belongs to
the step that uses it.

### SerialInput

`RxInterrupt` is the whole handler: `SetError` (a line error broadcasts flags too), then
`IncomingData` (`sdIncomingDataI`), which broadcasts `CHN_INPUT_AVAILABLE` for an empty
queue, puts the byte, and broadcasts an overrun when `chIQPutI` refuses it. `el` is the
listener with the pending event of its thread: `Broadcast` accumulates flags and signals
only if the accumulated flags meet the mask. The parser's three calls are `WaitAny`,
`ClearFlags`, `GetByte`; `Register` is the one before. Bytes are numbered, not valued.

`Stalled` is a sleeping parser with bytes in its queue, no event pending and no flag that
says so. The module shows that this is reachable and absorbing: two bytes in the queue as
the parser takes one, or one byte before it registered, and the device is deaf for good.
`StallNeedsOverlap` is the other side: a line slow enough for the thread never stalls it.

### FrameParser and FrameLine

A byte is one of seven classes, those that `tdParser`'s tests and the table's matchers
distinguish. `Receive` has a disjunct for each branch of the loop body. `ps` is what
`stepParser` keeps between bytes: its table state, its token, the four static fields.
A field is kept as the text it was parsed from (what `atoi` and `atof` make of it is left
out), so that a posted message can be compared with its frame. `buffer` has the size of
the code, and a byte past it sets `overrun`, after which nothing is claimed.
`FrameLine` feeds it frames of `UISendMessage`'s format string. Its widths are least ones, and
the minutes, made of degrees and radians, may have five digits or a sign. `MCFrames` has
numbers of 9 digits, of 10 (the longest the table takes), of 11 (refused), two of 11
(cut by `sendbuf[29]`, the `$` with it), a sign, and empty numbers, which the table takes too.
`Formatted` is `chsnprintf` with its limit. A byte may be lost, and stray ones may come in
between; `endLost` remembers that the `$` was lost or cut off, and the next frame runs on.

The loop over the buffer is `ParseFrame`, a recursive function of the number of bytes
taken. What the sizes must be for it is `TokenAssumption` (a token holds the longest number
with its comma) and, on the link, `FramesAssumption` (a frame ends with its only `$` and has no
invalid byte) and `SendAssumption` (what `sendbuf` holds behind the `#` fits the buffer).

Assumed: `isdigit` yields 0 or 1, as gcc's built-in expansion does; parser.c:106 returns it
where `MATCH_SUCCESS` is expected. `room` stands for the outcome of the post.

### PeerChannel and PeerQueue

`PeerQueue` goes down to the two semaphores and the ring of the mailbox and to the free
list of the pool, one kernel call a step: `Post` decides on `emptysem`, writes the ring and
signals (which readies a waiting thread, `"granted"`), `Fetch` takes at once or waits,
`FetchGranted` resumes, `FetchTimeout` is the timer's `wakeup`, which must give the count
back exactly once. `PoolFree` overwrites the object with the list's link (`Garbage`), so a
copy that came too late would show. `ImplementsChannel` is `PeerChannel!Spec` under a
refinement mapping: the messages under way are the one being copied and those in the
ring, read through the pool's objects; a message counts as settled from the
parse on, but for `"fill"` and `"post"`, when it is not decided yet.

`Fetch` waits for `XbeeInit`. That this is so is not assumed: it is `InitBeforeFetch` of
`Threads`, which checks and proves it from main.c:70-71 and the kernel's ready list.

### Kernel, Deadlines and Threads

`ready` is `ch.rlist.r_queue`; `BehindEquals` and `AheadOfEquals` are the two insertions
(`chSchReadyI`, `chSchDoRescheduleAhead`), which differ in one comparison. A locked call
with the switch it ends in is one step: `GoSleep`, `GoSleepTimeout`, `Create`, `Awaken`. The
thread switched in finishes its own call, and disarms its timer if that has not gone off
(`SwitchTo`). The timer interrupt is `Tick`, one `Expire` for each timer with nothing left,
and `TickEnd`, its epilogue; `wakeup` leaves a thread alone that is ready already.
`timers` and `delta` are the delta list. `TimersKeepDeadlines` maps it to `Deadlines`,
where each timer has its own count of ticks: arming in front of another, ties, and
disarming in the middle must come out as nothing there. Differences to the code: the
delta in the header, a sentinel, is not a variable; the 16-bit tick counter does not enter
(the longest time is one second).

`Threads` gives the kernel its five threads. `ParserWaits` and `CompFetches` are the waits
in which rounds end; `ParserPosts` and `ByteArrives` are the two wake-ups between
threads; a transfer of `tdUI` is `UiTransmits`, which starts it and suspends, the interrupts
of the bus, of which the last resumes it, and `UiFinishes`. It starts after `UIInit`,
when `main` is still the only thread.

### I2cBus

`twi` is what the hardware was last told to do. Each status of `TWI_vect` is an
action; `Fail` is the four statuses that end in an error, at any point where they may
occur. `LastByteRead` carries what its missing `break` does: the wake-up with `MSG_OK`, then the
flag, a second stop and a second wake-up that finds nobody. `Transmit` does not use the
caller's timeout, as i2c_lld.c:282 does not; `Die` is a device that holds the clock.

### FriendPanel

A field of `g_nearestFriendInfo` is known by the update it is from. `StoreField` may leave a
field torn in between, in any order of fields, as C leaves that open. A line is one step
of `tdUI`, and tdComp may come before it; the direction is computed once, before line 1
(`angle`), and used on line 3 and on the LEDs. `PrintLine` has what a failed transfer can
do: nothing, a line in another place, or rubbish in two.

### Tracking

Positions are points on a line; `distance()` is used as a metric and for nothing else.
`Closest` is the inner loop of `compute()`, a recursive function over the loop counter,
with the order of comparison that decides between equals. `RoundWithMessage` and
`RoundWithTimeout` are whole rounds of `tdComp`. Messages carry ids that are indices of
`params`; the code does not check them (hazard), and behaviour beyond is undefined.

### UiPanel

`UISetFlag` in `tdComp` is a load and a store with interrupts in between; in a callback it
is atomic. `tdUI` reads `mCurMenu` for the comparison (`UiTop`), for the switch
(`UiSwitch`) and for `prev_mCurMenu` (`UiEnd`), draws line by line, and in the alarm
screen tests the flag once, at its second line. `lcd` says which screen wrote each line.
While `faulty`, any transfer may fail: `LCDPrint` then returns early, a failed `LCDSetCursor`
puts the text on another line, and `tdUI` looks at neither. `Sends` takes the worst of these, and
of the reset's: of a display that a transfer failed to, no line is known (`UNKNOWN`) until
it is written again.
`tdUI`'s own clamp of `mCurMenu` (UIThread.c:482-485) is left out: callbacks are atomic, so
it never sees a value to clamp (`TypeOK`). The compiler may merge loads that this model and
`LcdLevels` take separately; merging only removes behaviours.

### LcdLevels

The handlers change two levels, `tdUI` tests, raises, loads and applies them, and
`LCDReset` applies its own constants (40 and 8). `ByteSize` is the width of `uint8_t` and
of `char`, which is unsigned here (Makefile:167, `-funsigned-char`): `Decoded("CCW")` is -1
modulo that width. `light` is `_old_val` of the photocell, which passes on changes only.
`Told` is what the display was told by a call whose transfer may have failed. `lost` remembers
that `tdUI`'s clamp, a test and a store, has overwritten a level the photocell set in between.

## 3. Runs

All runs take about a minute or less; the largest, `line`, has 1638161 states.

| run | bounds | shows |
|---|---|---|
| `serial` | queue of 3, 7 bytes | no byte lost unseen, repeated or reordered; sleeps only with an empty queue or stalled; a stall is for ever and needs two bytes at once; otherwise the queue drains |
| `serial_stall` | 2 bytes, none before the listener is registered | *finding*: a queued byte is never read |
| `queue` | pool 4, mailbox 3, 6 messages | semaphores, ring, ownership of objects; no sleep on mail; the failing post gives its object back; implements `PeerChannel`, delivery included |
| `frames` | buffer 9, numbers shorter than 2, token 4, six classes | every frame that fits, after every other, with and without room |
| `line` | sizes of the code (27, 11, 16, 29), the six frames of section 2, one lost and two stray bytes | the buffer is overrun only behind a lost or cut off `$`, or by the strays; a frame that arrives whole is parsed as sent |
| `tracking` | 3 devices, five positions around the alert distance, both kinds of message | closest friend; first isolation raises the alarm in its round; no false alarm |
| `isolation_again` | 2 devices | *finding*: the second isolation is silent |
| `panel` | the code's five menus, unbounded | no press undone; another screen's line is left only by a failed transfer or as the alarm's fourth; the alarm sounds, goes silent; the menu that is left alone is on the display once the bus works |
| `levels` | bytes of 6 values, contrast up to 4, brightness 2 to 3 | past failed transfers, the set contrast is applied and the brightness settles |
| `knob` | the same | *finding*: counterclockwise raises the contrast |
| `threads` | the program's five threads and priorities; sleeps of 1 to 3 ticks; transfers of 2 bytes out, and of 1 out and 2 in | types and one place per thread; order of priorities; `xbee_init` before the first fetch; `MSG_OK` means done; hardware busy iff waited for; timers keep deadlines; no starvation; transfers end |
| `friend` | one update of interest, any other is `Junk`; unbounded | the two displays of the direction agree; a friend that stays is shown whole |

Why the bounds are enough. *serial*: a stall needs two bytes and an overrun four; seven
let each happen before and after the other; sizes do not enter otherwise, and the safety
part is proved for all. *queue*: six messages go round a ring of four and reuse freed
objects; more repeat the same states with larger numbers. The sizes of the code are 4 and 4,
with which a post never fails (`PostSafe`); the run has one slot less so that it does, and
all but the fairness of delivery is proved for all sizes. *frames*:
the table has five states and a frame of nine bytes holds a message with a prefix
of two, so restarting inside a frame occurs; `DegMax = 2` has numbers that are
empty, full and one too long. The end of the token is out of reach, in the code (11
against 16) as here (2 against 4), and `TypeOK` shows it; what these small sizes show is
proved for all of them. *line*: one loss and two strays give merged frames, split frames,
a lost `#` and a lost `$`, an overrun by each cause, with the real sizes; the frames go up to those that are cut; strays may be `#`, `$`, a digit or junk; for
any number of either, and frames of any contents, it is proved.
*tracking*: positions at, inside and beyond the alert distance and two friends for a
tie; the state is finite, so behaviours are of any length; any number of devices is proved. *panel*, *levels*: finite state,
no bound on the length; in *levels* only the order of the constants matters, and each
range keeps room below, between and above the limits. *threads*: delays of 1, 2 and 3 ticks
for three sleepers give every order and tie of deadlines, arming before, at and
behind another's, and disarming at each place; a transfer of one byte and one of two have
a first, a middle and a last byte in each direction. *friend*: the properties speak of one
update against all others, so one and `Junk` are enough; section 5 has all of them.

Fairness. `WF(Parser)` and `WF(CompStep)`: the only thread above sleeps 300 ms in each
round (UIThread.c:519), and the two of equal priority both block in each round of theirs, for a
byte or in `chMBFetch`. `WF(UiStep)`: the highest priority; that its I2C transfers
complete is what `TransferEnds` shows, but for a device that holds the clock line.
*threads* derives the turns of threads instead of assuming them: its own fairness is that the
timer goes on (WF), and that a running thread's next step and the next bus interrupt come in
between the ticks. These are disabled while the timer interrupt runs or another thread does,
hence SF: an interrupted computation resumes where it was, and a round
of any thread is a bounded amount of work. *friend*: WF of `tdUI`, and of `tdComp`'s stores, since
`tdUI` sleeps in every line. No fairness is
assumed of the bus, which may fail for ever (*panel*, *levels* and *friend* promise for the time
after it works), nor of interrupts: bytes, presses, light and the timeout may come or not. Where
liveness is stated, its premise says what the environment does, e.g. a menu left alone.

## 4. Findings

Each is a run whose property quotes what the repository says, and which TLC refutes.

1. `serial_stall` - `tdParser` takes one byte per event and the driver sends one event per
   empty queue. The trace: the listener is registered, a byte arrives, the parser wakes, a second
   byte arrives before the first is taken, and is left in the queue with no event for it:
   nothing wakes the parser again. `iterateChannel`, which would drain the queue on each event,
   is commented out at parserThread.c:102. A byte before the registration stalls the parser
   too; the property excludes it, as draining on events would not cure it: the queue
   would also have to be looked at once after registering.
2. `isolation_again` - `IS_SELFDETECT_PANICKING` is never cleared, so only the first
   isolation raises an alarm.
3. `knob` - the decoder's -1 is 255, greater than 0, and both ways of the knob raise the
   contrast.

Seen while modelling, with no run: a change of menu during drawing is never seen by the
comparison that clears the display, as `prev_mCurMenu` is set from the menu as it is after
drawing (UIThread.c:487, 518), so the alarm screen, which leaves line 4 alone, can show
another's fourth line (`OthersLinesGo`: any other line of another screen needs a failed transfer);
minutes computed from degrees minus whole radians (UIThread.c:452-463) have up to five digits,
about 17 degrees being enough for an 11-digit number, which `match_DegMin` refuses, or a sign, and
a frame of two such numbers loses its `$` to `sendbuf[29]`, so that two of them in a row overrun
the receiver's buffer with nothing lost on the link; the I2C driver
ignores the timeout it is given (i2c_lld.c:282; i2c.c:162 documents `MSG_TIMEOUT`), but
honouring it would fail every transfer, as the 2 ticks of the callers are 156 us at 12800 Hz,
and an address with one byte at 100 kHz takes more; a good read leaves `I2C_ACK_FAILURE` in
`errors` (i2c_lld.c:103, no `break`); the bearing is in radians and used as degrees
(computationThread.c:85, UIThread.c:280); Cancel at contrast 0 wraps to 255 and the knob passes
50, against LCD.h:52 "level can be 1 to 50"; a photocell interrupt between the clamp and
the load sends brightness 0 or 1, against LCD.h:47 and the clamp itself; the alert for a
friend (computationThread.c:102-113) is commented out, against the comment at line 91; the
peer id indexes arrays of two elements unchecked; `UISendMessage` is called by nobody.

## 5. Proofs

The theorems hold for every value of the constants that meets the named assumptions.
`SizesAssumption` (of `SerialInput` and `PeerQueue`), `TransfersAssumption`,
`TrackingAssumption`, `FrameParserAssumption` and `LevelsAssumption` give types and say that
sizes are positive and limits in their order; `KernelAssumption` that the idle thread has a priority below
all others; `ThreadsAssumption` that there are the program's five threads, with the order of priorities of
main.c (the theorems of `ThreadsProofs` are for these threads, and for all delays and transfers);
`FrameLineAssumption` that frames are texts; `TokenAssumption`, `FramesAssumption` and
`SendAssumption` are above. The runs evaluate each of them.

**SerialInputProofs.** `TypeCorrect` carries the bound of the queue. `BytesSafe`
(`EveryByteOnceInOrder`) needs `KeptInv`: what was read and what is queued, taken as one
sequence, is increasing (`Ordered`), and with the refused bytes it is all that arrived
(`Accounted`), refused bytes having arrived (`DroppedArrived`); without the last the next
byte might already be among the refused. `StallForEver` needs only the types: with
a non-empty queue an interrupt adds no `INPUT`. `SleepDichotomy` needs
`FlagMeansPending`: outside the window between the wait and the clearing, `INPUT`
stands only with its event pending. `StallCause` needs that the listener is registered once
the parser has left its boot.

**PeerQueueProofs.** The inductive invariant is `IInv`: types, the state before
`xbee_init` (`BeforeInit`), `SemaphoreConsistent`, `CountsAgree`, `ObjectOwnedOnce`.
None of them is inductive alone: that the ring does not overwrite a slot needs the counts,
the counts need to know whether a granted message is still in the ring, and that
`fullsem` is negative exactly while tdComp waits needs that the timeout and the signal
exclude each other. `Invariance` proves it once; `TypeCorrect`, `SemaphoreSafe`,
`CountsCorrect`, `ObjectsSafe`, `NoSleepOnMail` and `PostSafe` follow. `PostSafe` is a
counting argument: the objects in the ring and the one in the parser's hand are at most
the pool, so with no more objects than slots there is a slot; what it says, that the post
after an allocation does not fail, is proved and no run's property, as the run has fewer
slots. `QueueIsAChannel` is the safety part of `ImplementsChannel`: initial states map to
initial states, and each step to a step of `PeerChannel` or to none. The ring, read through the pool's
objects, is the channel's sequence; a post appends to it and a fetch takes its head because the ring
is contiguous modulo its size (from the counts), and no other step changes what it says
because nobody writes an object that is in the ring (from the ownership).

**FrameLineProofs.** Two invariants of the parser's loop, for a text of any length. `Parsed`:
the fields stored, with their commas, and the token are at every byte the end of what
was taken of the frame; a mismatch empties them, and the end of a text is empty too. `OnTrack`: inside a
well-formed frame the table state and the token are what the position says. Both are shown
by induction over the loop's counter. From them `FInv` between bytes: no `$` in the buffer, the
table parser at its start, and the last frame answered as the three properties say; no `$`
before the end of a buffer is what makes every frame end with the table at its start.
On the link, `Room` says that while its `$` is to come (`~endLost`) a buffer holds no more than
the strays and the arrived part of the frame, which gives `StaysInBounds` (`OverrunNeedsLostEnd`), and
`Whole` that the bytes of a whole frame are split, in order, between buffer and line.

**TrackingProofs.** `Closest` is `compute()`'s inner loop; its loop invariant, `IsClosest`, is
that of the comparisons so far it holds the least distance, and the first that had it.
`IInv` adds to `NearestIsNearest` that an isolation has been noticed (`selfDetected`) and
that an emergency of the device's own comes from an echo, which the two properties
of the alarm need.

**ThreadsProofs.** *The scheduler:* three lemmas on lists (insertion and removal keep a
sorted list sorted and its elements distinct; the first of it outranks the rest), from which
`IInv`: every thread in one place, timers of threads that wait or have not run since, the ready list sorted,
the idle thread always on it or running. `OnePlaceSafe` and `PrioritySafe` follow. *The
driver:* `BusInv` needs `Phases`, how many bytes are through in each state of the
hardware, since `MSG_OK` is decided far from where it is said. *The timers:* what is left of a
timer is the sum of the delta list up to it (`Left`). `Due`, the recursive function of these sums, is
shown to be the only one that meets its equations (`DueUnique`), so that each operation on
the list is judged by giving the sums after it: an insertion leaves every other sum as it was
and adds its own (`LeftInserted`), a removal leaves the others (`LeftRemoved`), a tick takes one from
each (`TickCounts`). `TimersInv` says that outside the timer interrupt no armed timer has 0 left;
without it a tick would make the first count negative. `TimersImplementDeadlines` maps each
step of the kernel to a step of `Deadlines`. *The threads:* each step is a step of
the kernel and of the bus or stutters there (`ThreadsUseTheKernel`, `ThreadsUseTheBus`), so
those results carry over (`ThreadsSafe`, `TypeCorrect`, `ThreadsKeepDeadlines`); `InitBeforeFetchSafe` needs `OrderInv`, that until
`tdParser` is done it stands before `tdComp` in the ready list: one is created before the
other, a preempted thread goes ahead of its equals, and an awakened one behind them.

**UiPanelProofs.** `ButtonsSafe` (`NoButtonIsLost`) rests on where `IS_PANICKING` is set
in `UIAlertToFriends`: last, and `asked` is set with it. `LinesOwned`
(`OthersLinesGo`) needs `DrawInv`: while a screen is drawn, the lines above the
cursor are its own or spoilt by a failed transfer. `ScreenWithinTwoRounds` is about what is on the
display: the lag is 0 only when each line is the screen's own and `Settled` holds.

**FriendPanelProofs.** `DirectionsAgreeSafe`: both displays of the direction are of the one
reading made before the first line, whatever is stored meanwhile, for every set of updates.

Recursion is used in the form of recursive functions, and induction over their argument is
an argument from the least counterexample (`Induction`, from the library's `WFMin`), as the
library's induction theorems take an operator and cannot be used.

**What is left of liveness.** Fairness and `ENABLED` are beyond the prover, and with them the
last step of every liveness property. What comes before that step is proved for all
constants: a number (a *lag*) that is bounded, that each step of the process with the fairness
makes smaller, and that no step of another makes larger while the property's premise lasts,
until the promise is kept. Fairness then gives the property, as that process can always take
a step until then. (`Work` counts the bytes to come as well, and bounds all the steps of the
parser; where it can take none, `SleepDichotomy` says how it rests.) The lags are `DisplayLag` and `BuzzIn` (`UiPanelProofs`),
`ContrastLag` and `BrightnessLag` (`LcdLevelsProofs`), `StoreLag`, then `ShowLag`
(`FriendPanelProofs`), `Work` (`SerialInputProofs`), `DeliveryIn` (`PeerQueueProofs`) and `TransferLag`
(`ThreadsProofs`); each was model-checked before it was proved. A lag is more than the
place in the loop: `Settled` (of the panel), `ContrastDone`, `BrightnessDone` and `WholeDone` also say that nothing under
way, a drawing for another screen, a reset or a clamp, will spoil what the display shows.

Model-checked only: the liveness properties themselves (`DrainsOrStalls`, the delivery in
`ImplementsChannel`, `PanelFollowsMenu`, `AlarmSounds`, `SilenceAfterCancel`, `ContrastIsApplied`,
`BrightnessSettles`, `FriendShownWhole`, `TransferEnds`, `EachGetsItsTurn`). For
`EachGetsItsTurn` there is no such number: how long a ready thread waits depends on how often
the others are woken, and the strong fairness of their rounds is what ends it. Every
invariant and every other action property or refinement of the passing runs is a theorem.

## 6. Not modelled, and why

* GPS parser and software serial: not started in this build.
* Outgoing messages: `UISendMessage` is called by nobody, so that the transmit interrupt never
  finds a byte; `UIAlertFromFriend` likewise. The senders' format is in `FrameLine`.
* Pins: the models begin at the callbacks of buttons, knob and photocell. Their interrupts
  choose a callback, and every order of callbacks is admitted, which is more than the pins do.
* Arithmetic on single numbers: `bearing()`, the compass angle, its eight directions (whose
  sectors leave gaps that read NORTH), `atoi` and `atof`; floating point throughout.
* Time: no age of positions, no sampling instants. The text on the display, but for which
  screen or friend it is of. LEDs and buzzer, beyond on and off.
* What of the kernel and the HAL this program does not call; most of `src/main/os` is that:
  drivers of other boards, the other kernel, file systems, shells. This is also why the
  share of all lines in `PROJECT.json`'s map is small.
* Behaviour after an index has left its array (a peer id above 1, the buffer after
  `overrun`): undefined in C, and the models end there.

## 7. Plan

Done: the modules of section 2 with their runs; proofs for all but `PeerChannel` and
`Deadlines`, which are themselves what is shown of others.

Left, in this order:

1. A composition of line, receive queue, mailbox and computation: a frame sent on a slow
   enough line is a position tracked. Its parts are shown one by one; the state of all
   together is too large for exhaustive checking without abstracting them first.
2. That the ready list is fair among equals, as a theorem: a ready thread is overtaken only by
   higher priorities and by a preempted thread that goes back to its place.
3. Transmit path and software serial receiver, once the program uses them.
4. The decoders of buttons and knob from pins, and the compass's directions, as tables over
   all their inputs.
