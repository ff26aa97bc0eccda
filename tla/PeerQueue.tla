----------------------------- MODULE PeerQueue -----------------------------
(***************************************************************************)
(* How a parsed peer message travels from tdParser to tdComp: the memory   *)
(* pool xbeeMemoryPool, the mailbox xbeeMailbox with its ring of pointers  *)
(* and its two counting semaphores, the end of a parse                     *)
(* (parse_XbeeFinalize) and the loop of tdComp.                            *)
(*                                                                         *)
(* Messages are numbered in the order the parser completes them.  Each     *)
(* system-locked kernel call is one step, and so is each stretch of a      *)
(* thread between two of them; the steps of the two threads and of the     *)
(* timer interrupt interleave freely.  The kernel is stricter than that    *)
(* (the threads have one priority and no time slice), so what holds here   *)
(* does not rest on it, but for the order of the first two steps.          *)
(***************************************************************************)
EXTENDS Integers, Sequences, FiniteSets

CONSTANTS
  PoolSize,      \* XBEE_FIFO_SIZE, the objects of xbeeMemoryPoolBuf
  MailboxSize,   \* XBEE_MAILBOX_SIZE
  MaxMessages    \* bound of the model: how many messages are parsed

ASSUME SizesAssumption ==
  /\ PoolSize \in Nat \ {0}
  /\ MailboxSize \in Nat \ {0}
  /\ MaxMessages \in Nat

VARIABLES
  free,      \* the pool's list of free objects, the next one to allocate last
  content,   \* what each object of the pool holds
  ring,      \* xbeeMailboxBuf
  rd, wr,    \* mb_rdptr and mb_wrptr, as indices of ring
  emptysem,  \* s_cnt of mb_emptysem
  fullsem,   \* s_cnt of mb_fullsem
  parsed,    \* messages whose parse has reached parse_XbeeFinalize
  pstate,    \* tdParser: where it is
  pbuf,      \* tdParser: p of parse_XbeeFinalize
  cstate,    \* tdComp: where it is
  cbuf,      \* tdComp: p of tdComp
  peer       \* tdComp: the message it copied last

pool == <<free, content>>
mailbox == <<ring, rd, wr, emptysem, fullsem>>
parser == <<parsed, pstate, pbuf>>
comp == <<cstate, cbuf, peer>>
vars == <<pool, mailbox, parser, comp>>

Objects == 1..PoolSize
Slots == 0..(MailboxSize - 1)
Messages == 1..MaxMessages
Garbage == 0   \* an object whose first bytes are the free list's link

-----------------------------------------------------------------------------
\* Slips that the properties below must notice.
NextSlotUnwrapped(s) == s + 1
SignalNobody == fullsem' = fullsem + 1 /\ UNCHANGED cstate
ForgetUnposted ==
  /\ pstate = "unpost"
  /\ pstate' = "parse"
  /\ UNCHANGED <<pool, mailbox, parsed, pbuf, comp>>
TakeWithoutSignal ==
  /\ cbuf' = ring[rd]
  /\ rd' = IF rd + 1 >= MailboxSize THEN 0 ELSE rd + 1
  /\ cstate' = "copy"
  /\ UNCHANGED <<emptysem, ring, wr, peer>>
TimeoutWithoutCount ==
  /\ cstate = "waiting"
  /\ cstate' = "timedout"
  /\ UNCHANGED <<pool, mailbox, parser, cbuf, peer>>
CopyAfterFree ==
  /\ cstate = "copy"
  /\ peer' = Garbage
  /\ cstate' = "free"
  /\ UNCHANGED <<pool, mailbox, parser, cbuf>>

-----------------------------------------------------------------------------
\* The ring pointers wrap by comparison with mb_top.
NextSlot(s) == IF s + 1 >= MailboxSize THEN 0 ELSE s + 1

\* chPoolAlloc and chPoolFree.  An object's link to the next free one is kept
\* in the object, so freeing it overwrites what it held.
PoolAlloc(p) ==
  /\ free # <<>>
  /\ p = free[Len(free)]
  /\ free' = SubSeq(free, 1, Len(free) - 1)
  /\ UNCHANGED content

PoolFree(p) ==
  /\ free' = Append(free, p)
  /\ content' = [content EXCEPT ![p] = Garbage]

\* xbee_init runs before tdParser first blocks, and tdParser is the first of
\* the two threads to run.
XbeeInit ==
  /\ pstate = "boot"
  /\ pstate' = "parse"
  /\ free' = [i \in 1..PoolSize |-> i]
  /\ rd' = 0 /\ wr' = 0
  /\ emptysem' = MailboxSize
  /\ fullsem' = 0
  /\ UNCHANGED <<content, ring, parsed, pbuf, comp>>

\* parse_XbeeFinalize, first part: take an object, or give the message up.
Allocate ==
  /\ pstate = "parse" /\ parsed < MaxMessages
  /\ parsed' = parsed + 1
  /\ \/ /\ free = <<>>
        /\ UNCHANGED <<pool, pstate, pbuf>>
     \/ \E p \in Objects :
          /\ PoolAlloc(p)
          /\ pbuf' = p
          /\ pstate' = "fill"
  /\ UNCHANGED <<mailbox, comp>>

\* parse_XbeeFinalize: copy the four parsed fields into the object.
Fill ==
  /\ pstate = "fill"
  /\ content' = [content EXCEPT ![pbuf] = parsed]
  /\ pstate' = "post"
  /\ UNCHANGED <<free, mailbox, parsed, pbuf, comp>>

\* chSemSignalI on mb_fullsem: the thread that waits is granted the message.
SignalFull ==
  /\ fullsem' = fullsem + 1
  /\ cstate' = IF fullsem + 1 <= 0 THEN "granted" ELSE cstate

\* chMBPost with TIME_IMMEDIATE.
Post ==
  /\ pstate = "post"
  /\ \/ /\ emptysem > 0
        /\ emptysem' = emptysem - 1
        /\ ring' = [ring EXCEPT ![wr] = pbuf]
        /\ wr' = NextSlot(wr)
        /\ SignalFull
        /\ pstate' = "parse"
        /\ UNCHANGED rd
     \/ /\ emptysem <= 0      \* MSG_TIMEOUT
        /\ pstate' = "unpost"
        /\ UNCHANGED <<mailbox, cstate>>
  /\ UNCHANGED <<pool, parsed, pbuf, cbuf, peer>>

\* The object of a message that could not be posted goes back to the pool.
FreeUnposted ==
  /\ pstate = "unpost"
  /\ PoolFree(pbuf)
  /\ pstate' = "parse"
  /\ UNCHANGED <<mailbox, parsed, pbuf, comp>>

-----------------------------------------------------------------------------
\* The part of chMBFetchS after the wait on mb_fullsem succeeded.
TakeFromRing ==
  /\ cbuf' = ring[rd]
  /\ rd' = NextSlot(rd)
  /\ emptysem' = emptysem + 1
  /\ cstate' = "copy"
  /\ UNCHANGED <<ring, wr, peer>>

\* chMBFetch with a timeout of one second.
Fetch ==
  /\ cstate = "fetch" /\ pstate # "boot"
  /\ fullsem' = fullsem - 1
  /\ \/ /\ fullsem > 0
        /\ TakeFromRing
     \/ /\ fullsem <= 0
        /\ cstate' = "waiting"
        /\ UNCHANGED <<ring, rd, wr, emptysem, cbuf, peer>>
  /\ UNCHANGED <<pool, parser>>

\* The thread that was granted a message runs again and takes it.
FetchGranted ==
  /\ cstate = "granted"
  /\ TakeFromRing
  /\ UNCHANGED <<pool, fullsem, parser>>

\* The timer interrupt finds the thread still waiting: wakeup gives the count
\* back and takes it off the semaphore's queue.  A thread that was granted a
\* message in the meantime is ready, and the interrupt does nothing to it.
FetchTimeout ==
  /\ cstate = "waiting"
  /\ fullsem' = fullsem + 1
  /\ cstate' = "timedout"
  /\ UNCHANGED <<pool, ring, rd, wr, emptysem, parser, cbuf, peer>>

\* Copy the message to the stack,
Copy ==
  /\ cstate = "copy"
  /\ peer' = content[cbuf]
  /\ cstate' = "free"
  /\ UNCHANGED <<pool, mailbox, parser, cbuf>>

\* and give its object back.
FreeCopied ==
  /\ cstate = "free"
  /\ PoolFree(cbuf)
  /\ cstate' = "update"
  /\ UNCHANGED <<mailbox, parser, cbuf, peer>>

\* Update params from the copy, if there is one, and compute (module Tracking);
\* then go round the loop.
Compute ==
  /\ cstate \in {"update", "timedout"}
  /\ cstate' = "fetch"
  /\ UNCHANGED <<pool, mailbox, parser, cbuf, peer>>

-----------------------------------------------------------------------------
Init ==
  /\ free = <<>>
  /\ content = [p \in Objects |-> Garbage]
  /\ ring = [s \in Slots |-> 1]
  /\ rd = 0 /\ wr = 0
  /\ emptysem = MailboxSize /\ fullsem = 0
  /\ parsed = 0 /\ pstate = "boot" /\ pbuf = 1
  /\ cstate = "fetch" /\ cbuf = 1 /\ peer = Garbage

ParserStep == XbeeInit \/ Allocate \/ Fill \/ Post \/ FreeUnposted
CompStep == Fetch \/ FetchGranted \/ Copy \/ FreeCopied \/ Compute
Next == ParserStep \/ CompStep \/ FetchTimeout

\* tdComp's own steps are not put off for ever: tdUI, the only thread of a
\* higher priority, sleeps in each round, and tdParser blocks for each byte.
Spec == Init /\ [][Next]_vars /\ WF_vars(CompStep)

-----------------------------------------------------------------------------
TypeOK ==
  /\ free \in Seq(Objects)
  /\ content \in [Objects -> 0..MaxMessages]
  /\ ring \in [Slots -> Objects]
  /\ rd \in Slots /\ wr \in Slots
  /\ emptysem \in 0..MailboxSize
  /\ fullsem \in -1..MailboxSize
  /\ parsed \in 0..MaxMessages
  /\ pstate \in {"boot", "parse", "fill", "post", "unpost"}
  /\ pbuf \in Objects
  /\ cstate \in {"fetch", "waiting", "granted", "timedout", "copy", "free", "update"}
  /\ cbuf \in Objects
  /\ peer \in 0..MaxMessages

\* The messages in the ring, and the slot of the i-th of them.
InRing == MailboxSize - emptysem
SlotOf(i) == IF rd + i < MailboxSize THEN rd + i ELSE rd + i - MailboxSize

One(P) == IF P THEN 1 ELSE 0

ParserHolds == pstate \in {"fill", "post", "unpost"}
CompHolds == cstate \in {"copy", "free"}

\* The kernel's own assertion on a semaphore, "inconsistent semaphore": its
\* count is negative exactly while a thread is queued on it.
SemaphoreConsistent == fullsem < 0 <=> cstate = "waiting"

\* The two semaphores and the two ring pointers tell the same story, counting
\* a message that was granted and not yet taken as no longer in mb_fullsem.
CountsAgree ==
  /\ InRing = fullsem + One(cstate \in {"granted", "waiting"})
  /\ wr = SlotOf(InRing)

\* The i-th pointer in the ring.
Queued(i) == ring[SlotOf(i)]
NothingLost == Len(free) + InRing + One(ParserHolds) + One(CompHolds) = PoolSize
FreeOnce == \A i, j \in 1..Len(free) : free[i] = free[j] => i = j
QueuedOnce == \A i, j \in 0..(InRing - 1) : Queued(i) = Queued(j) => i = j
QueuedNotFree == \A i \in 1..Len(free), j \in 0..(InRing - 1) : free[i] # Queued(j)
Unshared(p) == /\ \A i \in 1..Len(free) : free[i] # p
               /\ \A j \in 0..(InRing - 1) : Queued(j) # p

\* Every object of the pool is in one place: in the free list, in the ring,
\* with the parser or with tdComp.  None is lost, none is shared.
ObjectOwnedOnce ==
  pstate # "boot" =>
    /\ NothingLost
    /\ FreeOnce
    /\ QueuedOnce
    /\ QueuedNotFree
    /\ ParserHolds => Unshared(pbuf)
    /\ CompHolds => Unshared(cbuf)
    /\ ParserHolds /\ CompHolds => pbuf # cbuf

\* tdComp never sleeps on a mailbox that holds a message.
NeverSleepsOnMail == cstate = "waiting" => InRing = 0

\* With no more objects than mailbox slots, as in the code (4 and 4), the post
\* that follows a successful allocation cannot fail: the path that frees the
\* object again is dead code.
PostNeverFails == PoolSize <= MailboxSize => pstate # "unpost"

\* The pool and the mailbox implement the channel: messages arrive unaltered,
\* once, in order, and each accepted one arrives.
MinRoom == IF PoolSize - 1 < MailboxSize THEN PoolSize - 1 ELSE MailboxSize
UnderWay ==
  (IF cstate = "copy" THEN <<content[cbuf]>> ELSE <<>>)
    \o [i \in 1..InRing |-> content[Queued(i - 1)]]
Channel == INSTANCE PeerChannel WITH
  Room <- MinRoom,
  settled <- IF pstate \in {"fill", "post"} THEN parsed - 1 ELSE parsed,
  chan <- UnderWay,
  out <- peer
ImplementsChannel == Channel!Spec
=============================================================================
