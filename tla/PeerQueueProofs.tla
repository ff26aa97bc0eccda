-------------------------- MODULE PeerQueueProofs ---------------------------
(***************************************************************************)
(* Theorems about PeerQueue, for every size of pool and mailbox and any    *)
(* number of messages.                                                     *)
(***************************************************************************)
EXTENDS PeerQueue, SequenceTheorems, TLAPS

\* Before xbee_init the pool and the mailbox are empty and tdComp has not run.
BeforeInit == pstate = "boot" =>
  /\ free = <<>>
  /\ emptysem = MailboxSize /\ fullsem = 0
  /\ rd = 0 /\ wr = 0
  /\ cstate = "fetch"

\* The inductive invariant.
IInv == TypeOK /\ BeforeInit /\ SemaphoreConsistent /\ CountsAgree /\ ObjectOwnedOnce

\* The slots of the ring that hold messages are distinct.
LEMMA SlotOfInjective ==
  ASSUME rd \in Slots,
         NEW i \in 0..(MailboxSize - 1), NEW j \in 0..(MailboxSize - 1)
  PROVE  /\ SlotOf(i) \in Slots
         /\ SlotOf(i) = SlotOf(j) => i = j
  BY SizesAssumption DEF SlotOf, Slots

\* The invariant holds at the start.
LEMMA InitIInv == Init => IInv
<1> SUFFICES ASSUME Init PROVE IInv
  OBVIOUS
<1>1. TypeOK
  BY SizesAssumption DEF Init, TypeOK, Objects, Slots, Garbage
<1>2. BeforeInit /\ SemaphoreConsistent /\ CountsAgree
  BY SizesAssumption DEF Init, BeforeInit, SemaphoreConsistent, CountsAgree, InRing, One, SlotOf
<1>3. ObjectOwnedOnce
  BY DEF Init, ObjectOwnedOnce
<1> QED
  BY <1>1, <1>2, <1>3 DEF IInv

-----------------------------------------------------------------------------
\* The scalar part of the invariant: types, semaphores and ring pointers, and
\* the state before xbee_init.
Scalars == TypeOK /\ BeforeInit /\ SemaphoreConsistent /\ CountsAgree

\* What the scalars say of the counts at each place of tdComp.
LEMMA Counts ==
  ASSUME Scalars
  PROVE  /\ cstate = "waiting" => fullsem = -1 /\ emptysem = MailboxSize
         /\ cstate = "granted" => fullsem >= 0 /\ emptysem = MailboxSize - fullsem - 1
         /\ cstate \notin {"waiting", "granted"} =>
              fullsem >= 0 /\ emptysem = MailboxSize - fullsem
  BY SizesAssumption
  DEF Scalars, TypeOK, SemaphoreConsistent, CountsAgree, InRing, One

\* No step of the parser, of tdComp or of the timer breaks a type.
LEMMA TypeStep == Scalars /\ [Next]_vars => TypeOK'
<1> SUFFICES ASSUME Scalars, [Next]_vars PROVE TypeOK'
  OBVIOUS
<1> USE SizesAssumption DEF pool, mailbox, parser, comp
<1>0. TypeOK
  BY DEF Scalars
<1>a. emptysem \in Int /\ fullsem \in Int
  BY <1>0 DEF TypeOK
<1>1. CASE XbeeInit
  BY <1>0, <1>1 DEF TypeOK, XbeeInit, Slots, Objects
<1>2. CASE Allocate
  <2>1. CASE free = <<>>
    BY <1>0, <1>2, <2>1 DEF TypeOK, Allocate, PoolAlloc
  <2>2. CASE free # <<>>
    <3>1. /\ free' = SubSeq(free, 1, Len(free) - 1)
          /\ pbuf' \in Objects /\ pstate' = "fill"
          /\ parsed < MaxMessages /\ parsed' = parsed + 1
          /\ UNCHANGED <<content, mailbox, comp>>
      BY <1>2, <2>2 DEF Allocate, PoolAlloc
    <3>2. free' \in Seq(Objects)
      BY <1>0, <2>2, <3>1 DEF TypeOK
    <3> QED
      BY <1>0, <3>1, <3>2 DEF TypeOK
  <2> QED
    BY <2>1, <2>2
<1>3. CASE Fill
  BY <1>0, <1>3 DEF TypeOK, Fill
<1>4. CASE Post
  <2>1. CASE emptysem <= 0
    BY <1>0, <1>4, <2>1 DEF TypeOK, Post
  <2>2. CASE emptysem > 0
    <3>1. fullsem' \in -1..MailboxSize /\ emptysem' \in 0..MailboxSize
      BY <1>0, <1>4, <2>2, Counts DEF TypeOK, Post, SignalFull
    <3>2. wr' \in Slots /\ rd' = rd
      BY <1>0, <1>4, <2>2 DEF TypeOK, Post, NextSlot, Slots
    <3>3. ring' \in [Slots -> Objects]
      BY <1>0, <1>4, <2>2 DEF TypeOK, Post
    <3> QED
      BY <1>0, <1>4, <2>2, <3>1, <3>2, <3>3 DEF TypeOK, Post, SignalFull
  <2> QED
    BY <1>a, <2>1, <2>2
<1>5. CASE FreeUnposted
  BY <1>0, <1>5 DEF TypeOK, FreeUnposted, PoolFree, Garbage
<1>6. CASE Fetch
  <2>1. CASE fullsem > 0
    <3>1. emptysem' \in 0..MailboxSize /\ fullsem' \in -1..MailboxSize
      BY <1>0, <1>6, <2>1, Counts DEF TypeOK, Fetch, TakeFromRing
    <3>2. rd' \in Slots /\ wr' \in Slots /\ cbuf' \in Objects
      BY <1>0, <1>6, <2>1 DEF TypeOK, Fetch, TakeFromRing, NextSlot, Slots
    <3> QED
      BY <1>0, <1>6, <2>1, <3>1, <3>2 DEF TypeOK, Fetch, TakeFromRing
  <2>2. CASE fullsem <= 0
    <3>1. fullsem' \in -1..MailboxSize
      BY <1>0, <1>6, <2>2, Counts DEF TypeOK, Fetch
    <3> QED
      BY <1>0, <1>6, <2>2, <3>1 DEF TypeOK, Fetch
  <2> QED
    BY <1>a, <2>1, <2>2
<1>7. CASE FetchGranted
  <2>1. emptysem' \in 0..MailboxSize
    BY <1>0, <1>7, Counts DEF TypeOK, FetchGranted, TakeFromRing
  <2>2. rd' \in Slots /\ wr' \in Slots /\ cbuf' \in Objects
    BY <1>0, <1>7 DEF TypeOK, FetchGranted, TakeFromRing, NextSlot, Slots
  <2> QED
    BY <1>0, <1>7, <2>1, <2>2 DEF TypeOK, FetchGranted, TakeFromRing
<1>8. CASE FetchTimeout
  BY <1>0, <1>8, Counts DEF TypeOK, FetchTimeout
<1>9. CASE Copy
  BY <1>0, <1>9 DEF TypeOK, Copy
<1>10. CASE FreeCopied
  BY <1>0, <1>10 DEF TypeOK, FreeCopied, PoolFree, Garbage
<1>11. CASE Compute
  BY <1>0, <1>11 DEF TypeOK, Compute
<1>12. CASE UNCHANGED vars
  BY <1>0, <1>12 DEF TypeOK, vars
<1> QED
  BY <1>1, <1>2, <1>3, <1>4, <1>5, <1>6, <1>7, <1>8, <1>9, <1>10, <1>11, <1>12
  DEF Next, ParserStep, CompStep

\* Until xbee_init runs, nothing else does.
LEMMA BeforeStep == Scalars /\ [Next]_vars => BeforeInit'
<1> SUFFICES ASSUME Scalars, [Next]_vars, pstate' = "boot" PROVE BeforeInit'
  BY DEF BeforeInit
<1> USE DEF BeforeInit, pool, mailbox, parser, comp
<1>0. TypeOK /\ BeforeInit
  BY DEF Scalars
<1>1. CASE pstate # "boot"
  BY <1>0, <1>1
  DEF Next, ParserStep, CompStep, XbeeInit, Allocate, PoolAlloc, Fill, Post,
      SignalFull, FreeUnposted, Fetch, FetchGranted, FetchTimeout, Copy, FreeCopied,
      Compute, vars
<1>2. CASE pstate = "boot"
  BY <1>0, <1>2
  DEF Next, ParserStep, CompStep, XbeeInit, Allocate, PoolAlloc, Fill, Post,
      SignalFull, FreeUnposted, Fetch, FetchGranted, FetchTimeout, Copy, FreeCopied,
      Compute, vars
<1> QED
  BY <1>1, <1>2

\* Every step moves the semaphores and the ring pointers together.
LEMMA CountsStep ==
  Scalars /\ [Next]_vars => SemaphoreConsistent' /\ CountsAgree'
<1> SUFFICES ASSUME Scalars, [Next]_vars
             PROVE  SemaphoreConsistent' /\ CountsAgree'
  OBVIOUS
<1> USE SizesAssumption
    DEF SemaphoreConsistent, CountsAgree, InRing, One, pool, mailbox, parser, comp
<1>0. /\ SemaphoreConsistent /\ CountsAgree /\ BeforeInit
      /\ rd \in Slots /\ wr \in Slots
      /\ emptysem \in 0..MailboxSize /\ fullsem \in -1..MailboxSize
  BY DEF Scalars, TypeOK
<1>1. CASE XbeeInit
  BY <1>0, <1>1 DEF XbeeInit, BeforeInit, SlotOf
<1>2. CASE Post
  <2>1. CASE emptysem <= 0
    BY <1>0, <1>2, <2>1 DEF Post, SlotOf
  <2>2. CASE emptysem > 0
    <3>1. SemaphoreConsistent' /\ InRing' = fullsem' + One(cstate \in {"granted", "waiting"})'
      BY <1>0, <1>2, <2>2, Counts DEF Post, SignalFull
    <3>2. wr' = SlotOf(InRing)'
      BY <1>0, <1>2, <2>2 DEF Post, NextSlot, SlotOf, Slots
    <3> QED
      BY <3>1, <3>2
  <2> QED
    BY <1>0, <2>1, <2>2
<1>3. CASE Fetch
  <2>1. CASE fullsem > 0
    <3>1. SemaphoreConsistent' /\ InRing' = fullsem' + One(cstate \in {"granted", "waiting"})'
      BY <1>0, <1>3, <2>1, Counts DEF Fetch, TakeFromRing
    <3>2. wr' = SlotOf(InRing)'
      BY <1>0, <1>3, <2>1, Counts DEF Fetch, TakeFromRing, NextSlot, SlotOf, Slots
    <3> QED
      BY <3>1, <3>2
  <2>2. CASE fullsem <= 0
    BY <1>0, <1>3, <2>2, Counts DEF Fetch, SlotOf
  <2> QED
    BY <1>0, <2>1, <2>2
<1>4. CASE FetchGranted
  <2>1. SemaphoreConsistent' /\ InRing' = fullsem' + One(cstate \in {"granted", "waiting"})'
    BY <1>0, <1>4, Counts DEF FetchGranted, TakeFromRing
  <2>2. wr' = SlotOf(InRing)'
    BY <1>0, <1>4, Counts DEF FetchGranted, TakeFromRing, NextSlot, SlotOf, Slots
  <2> QED
    BY <2>1, <2>2
<1>5. CASE FetchTimeout
  BY <1>0, <1>5, Counts DEF FetchTimeout, SlotOf
<1>6. CASE Allocate \/ Fill \/ FreeUnposted
  BY <1>0, <1>6 DEF Allocate, Fill, FreeUnposted, SlotOf
<1>7. CASE Copy \/ FreeCopied \/ Compute
  BY <1>0, <1>7 DEF Copy, FreeCopied, Compute, SlotOf
<1>8. CASE UNCHANGED vars
  BY <1>0, <1>8 DEF vars, SlotOf
<1> QED
  BY <1>1, <1>2, <1>3, <1>4, <1>5, <1>6, <1>7, <1>8 DEF Next, ParserStep, CompStep

\* The scalar part of the invariant is inductive by itself.
LEMMA ScalarsStep == Scalars /\ [Next]_vars => Scalars'
  BY TypeStep, BeforeStep, CountsStep DEF Scalars

-----------------------------------------------------------------------------
\* An unchanged ring has unchanged messages,
LEMMA RingKept ==
  ASSUME UNCHANGED <<ring, rd, emptysem>>
  PROVE  InRing' = InRing /\ \A i : Queued(i)' = Queued(i)
  BY DEF InRing, Queued, SlotOf

\* a fetch takes the first of them and moves the others up,
LEMMA RingTaken ==
  ASSUME TypeOK, TakeFromRing
  PROVE  /\ InRing' = InRing - 1
         /\ cbuf' = Queued(0)
         /\ \A i \in 0..(InRing - 2) : Queued(i)' = Queued(i + 1)
<1>0. rd \in Slots /\ emptysem \in 0..MailboxSize
  BY DEF TypeOK
<1>1. InRing' = InRing - 1
  BY <1>0, SizesAssumption DEF TakeFromRing, InRing
<1>2. SlotOf(0) = rd
  BY <1>0, SizesAssumption DEF SlotOf, Slots
<1>3. ASSUME NEW i \in 0..(InRing - 2) PROVE SlotOf(i)' = SlotOf(i + 1)
  BY <1>0, SizesAssumption DEF TakeFromRing, InRing, SlotOf, NextSlot, Slots
<1> QED
  BY <1>1, <1>2, <1>3 DEF TakeFromRing, Queued

\* and a post puts one behind them.
LEMMA RingPosted ==
  ASSUME TypeOK, CountsAgree, emptysem > 0, emptysem' = emptysem - 1,
         ring' = [ring EXCEPT ![wr] = pbuf], rd' = rd
  PROVE  /\ InRing' = InRing + 1
         /\ \A i : i = InRing => Queued(i)' = pbuf
         /\ \A i \in 0..(InRing - 1) : Queued(i)' = Queued(i)
<1>0. /\ rd \in Slots /\ wr \in Slots /\ wr = SlotOf(InRing)
      /\ emptysem \in 0..MailboxSize
      /\ ring \in [Slots -> Objects]
  BY DEF TypeOK, CountsAgree
<1>1. InRing' = InRing + 1 /\ InRing \in 0..(MailboxSize - 1)
  BY <1>0, SizesAssumption DEF InRing
<1>2. ASSUME NEW i \in 0..InRing
      PROVE  SlotOf(i)' = SlotOf(i) /\ SlotOf(i) \in Slots
  BY <1>0, <1>1, SizesAssumption DEF SlotOf, Slots
<1>3. ASSUME NEW i \in 0..(InRing - 1) PROVE SlotOf(i) # wr
  <2>1. i \in 0..(MailboxSize - 1) /\ i # InRing
    BY <1>1, SizesAssumption
  <2> QED
    BY <1>0, <1>1, <2>1, SlotOfInjective
<1>4. ASSUME NEW i, i = InRing PROVE Queued(i)' = pbuf
  BY <1>0, <1>1, <1>2, <1>4 DEF Queued
<1>5. ASSUME NEW i \in 0..(InRing - 1) PROVE Queued(i)' = Queued(i)
  <2>1. i \in 0..InRing
    BY <1>1
  <2> QED
    BY <1>0, <1>2, <1>3, <2>1 DEF Queued
<1> QED
  BY <1>1, <1>4, <1>5

-----------------------------------------------------------------------------
\* How the free list changes at its end.
LEMMA FreePopped ==
  ASSUME TypeOK, NEW p \in Objects, PoolAlloc(p)
  PROVE  /\ Len(free) \in Nat /\ Len(free) >= 1 /\ p = free[Len(free)]
         /\ Len(free') = Len(free) - 1
         /\ \A i \in 1..(Len(free) - 1) : free'[i] = free[i]
<1>1. free \in Seq(Objects) /\ free # <<>> /\ free' = SubSeq(free, 1, Len(free) - 1)
  BY DEF TypeOK, PoolAlloc
<1>2. Len(free) \in Nat /\ Len(free) >= 1
  BY <1>1
<1>3. Len(free') = Len(free) - 1
  <2> DEFINE n == Len(free) - 1
  <2>1. n \in Nat /\ n \in 0..Len(free)
    BY <1>2
  <2>2. Len(SubSeq(free, 1, n)) = n
    <3> HIDE DEF n
    <3> QED
      BY <1>1, <2>1
  <2> QED
    BY <1>1, <2>2
<1>4. ASSUME NEW i \in 1..(Len(free) - 1) PROVE free'[i] = free[i]
  BY <1>1, <1>2
<1> QED
  BY <1>2, <1>3, <1>4 DEF PoolAlloc

\* An object that is freed is the next to be allocated.
LEMMA FreePushed ==
  ASSUME TypeOK, NEW p \in Objects, PoolFree(p)
  PROVE  /\ Len(free) \in Nat
         /\ Len(free') = Len(free) + 1
         /\ free'[Len(free) + 1] = p
         /\ \A i \in 1..Len(free) : free'[i] = free[i]
<1>1. free \in Seq(Objects) /\ free' = Append(free, p)
  BY DEF TypeOK, PoolFree
<1>2. Len(free) \in Nat
  BY <1>1
<1>3. Len(free') = Len(free) + 1
  BY <1>1
<1>4. free'[Len(free) + 1] = p
  BY <1>1, <1>2
<1>5. ASSUME NEW i \in 1..Len(free) PROVE free'[i] = free[i]
  BY <1>1, <1>2
<1> QED
  BY <1>2, <1>3, <1>4, <1>5

\* Who owns what, once the pool is loaded.
Owned ==
  /\ NothingLost /\ FreeOnce /\ QueuedOnce /\ QueuedNotFree
  /\ ParserHolds => Unshared(pbuf)
  /\ CompHolds => Unshared(cbuf)
  /\ ParserHolds /\ CompHolds => pbuf # cbuf

\* Every step after xbee_init passes objects on and never copies or drops one.
LEMMA OwnedStep == IInv /\ pstate # "boot" /\ [Next]_vars => Owned'
<1> SUFFICES ASSUME IInv, pstate # "boot", [Next]_vars PROVE Owned'
  OBVIOUS
<1>0. TypeOK /\ Scalars /\ CountsAgree /\ Owned
  BY DEF IInv, Scalars, ObjectOwnedOnce, Owned
<1>a. InRing \in 0..MailboxSize /\ Len(free) \in Nat /\ emptysem \in Int
  BY <1>0, SizesAssumption DEF TypeOK, InRing
<1> USE DEF pool, mailbox, parser, comp
<1>1. CASE XbeeInit
  BY <1>1 DEF XbeeInit
<1>2. CASE Allocate
  <2>1. InRing' = InRing /\ \A i : Queued(i)' = Queued(i)
    BY <1>2, RingKept DEF Allocate
  <2>2. ~ParserHolds /\ UNCHANGED CompHolds /\ cbuf' = cbuf
    BY <1>2 DEF Allocate, ParserHolds, CompHolds
  <2>3. CASE UNCHANGED <<pool, pstate, pbuf>>
    BY <1>0, <2>1, <2>2, <2>3
    DEF Owned, NothingLost, One, FreeOnce, QueuedOnce, QueuedNotFree, Unshared, ParserHolds
  <2>4. ASSUME NEW p \in Objects, PoolAlloc(p), pbuf' = p, pstate' = "fill"
        PROVE  Owned'
    <3>1. /\ Len(free) >= 1 /\ p = free[Len(free)]
          /\ Len(free') = Len(free) - 1
          /\ \A i \in 1..(Len(free) - 1) : free'[i] = free[i]
      BY <1>0, <2>4, FreePopped
    <3>2. ParserHolds'
      BY <2>4 DEF ParserHolds
    <3>3. NothingLost'
      BY <1>0, <1>a, <2>1, <2>2, <3>1, <3>2 DEF Owned, NothingLost, One
    <3>4. FreeOnce' /\ QueuedOnce' /\ QueuedNotFree'
      BY <1>0, <1>a, <2>1, <3>1 DEF Owned, FreeOnce, QueuedOnce, QueuedNotFree
    <3>5. Unshared(pbuf)'
      BY <1>0, <1>a, <2>1, <2>4, <3>1 DEF Owned, FreeOnce, QueuedNotFree, Unshared
    <3>6. CompHolds' => Unshared(cbuf)' /\ pbuf' # cbuf'
      BY <1>0, <1>a, <2>1, <2>2, <2>4, <3>1 DEF Owned, Unshared
    <3> QED
      BY <3>3, <3>4, <3>5, <3>6 DEF Owned
  <2> QED
    BY <1>2, <2>3, <2>4 DEF Allocate
<1>3. CASE Post
  <2>1. CASE emptysem <= 0
    <3>1. /\ InRing' = InRing /\ \A i : Queued(i)' = Queued(i)
          /\ UNCHANGED <<free, pbuf, cbuf, cstate>>
          /\ ParserHolds /\ ParserHolds' /\ CompHolds' = CompHolds
      BY <1>3, <1>a, <2>1, RingKept DEF Post, ParserHolds, CompHolds
    <3> QED
      BY <1>0, <3>1 DEF Owned, NothingLost, One, FreeOnce, QueuedOnce, QueuedNotFree,
                        Unshared
  <2>2. CASE emptysem > 0
    <3>1. /\ InRing' = InRing + 1
          /\ \A i : i = InRing => Queued(i)' = pbuf
          /\ \A i \in 0..(InRing - 1) : Queued(i)' = Queued(i)
      BY <1>0, <1>3, <2>2, RingPosted DEF Post, SignalFull, TypeOK
    <3>2. /\ UNCHANGED <<free, cbuf>> /\ CompHolds' = CompHolds
          /\ ParserHolds /\ ~ParserHolds'
      <4>1. /\ UNCHANGED <<free, cbuf>>
            /\ pstate = "post" /\ pstate' = "parse"
            /\ fullsem' = fullsem + 1
            /\ cstate' = IF fullsem + 1 <= 0 THEN "granted" ELSE cstate
        BY <1>3, <1>a, <2>2 DEF Post, SignalFull
      <4>2. fullsem + 1 <= 0 => cstate = "waiting"
        <5>1. fullsem \in Int
          BY <1>0 DEF TypeOK
        <5> QED
          BY <1>0, <5>1 DEF Scalars, SemaphoreConsistent
      <4> QED
        BY <4>1, <4>2 DEF ParserHolds, CompHolds
    <3>3. NothingLost' /\ FreeOnce'
      BY <1>0, <1>a, <3>1, <3>2 DEF Owned, NothingLost, One, FreeOnce
    <3>4. QueuedOnce' /\ QueuedNotFree'
      BY <1>0, <1>a, <3>1, <3>2 DEF Owned, QueuedOnce, QueuedNotFree, Unshared
    <3>5. CompHolds' => Unshared(cbuf)'
      BY <1>0, <1>a, <3>1, <3>2 DEF Owned, Unshared
    <3> QED
      BY <3>2, <3>3, <3>4, <3>5 DEF Owned
  <2> QED
    BY <1>a, <2>1, <2>2
<1>4. CASE FreeUnposted
  <2>1. /\ PoolFree(pbuf) /\ ParserHolds /\ ~ParserHolds'
        /\ UNCHANGED <<pbuf, cbuf, cstate>>
        /\ InRing' = InRing /\ \A i : Queued(i)' = Queued(i)
    BY <1>4, RingKept DEF FreeUnposted, ParserHolds
  <2>2. /\ Len(free') = Len(free) + 1
        /\ free'[Len(free) + 1] = pbuf
        /\ \A i \in 1..Len(free) : free'[i] = free[i]
    BY <1>0, <2>1, FreePushed DEF TypeOK
  <2>3. CompHolds' = CompHolds /\ (CompHolds => cbuf # pbuf)
    BY <1>0, <2>1 DEF Owned, CompHolds
  <2>4. NothingLost' /\ FreeOnce' /\ QueuedOnce' /\ QueuedNotFree'
    <3>1. NothingLost'
      BY <1>0, <1>a, <2>1, <2>2, <2>3 DEF Owned, NothingLost, One
    <3>2. FreeOnce'
      BY <1>0, <1>a, <2>1, <2>2 DEF Owned, FreeOnce, Unshared
    <3>3. QueuedOnce' /\ QueuedNotFree'
      BY <1>0, <1>a, <2>1, <2>2 DEF Owned, QueuedOnce, QueuedNotFree, Unshared
    <3> QED
      BY <3>1, <3>2, <3>3
  <2>5. CompHolds' => Unshared(cbuf)'
    BY <1>0, <1>a, <2>1, <2>2, <2>3 DEF Owned, Unshared
  <2> QED
    BY <2>1, <2>4, <2>5 DEF Owned
<1>5. CASE Fetch /\ fullsem <= 0
  <2>1. /\ UNCHANGED <<free, pstate, pbuf, cbuf>> /\ ~CompHolds /\ ~CompHolds'
        /\ InRing' = InRing /\ \A i : Queued(i)' = Queued(i)
    BY <1>0, <1>5, RingKept DEF Fetch, CompHolds, TypeOK
  <2> QED
    BY <1>0, <2>1 DEF Owned, NothingLost, One, FreeOnce, QueuedOnce, QueuedNotFree,
                      Unshared, ParserHolds
<1>6. CASE FetchGranted \/ (Fetch /\ fullsem > 0)
  <2>1. /\ TakeFromRing
        /\ UNCHANGED <<free, pstate, pbuf>>
        /\ ~CompHolds /\ CompHolds' /\ ParserHolds' = ParserHolds
    BY <1>0, <1>6 DEF Fetch, FetchGranted, TakeFromRing, CompHolds, ParserHolds, TypeOK
  <2>2. InRing > 0
    <3>1. fullsem \in Int /\ emptysem \in Int
      BY <1>0 DEF TypeOK
    <3>2. CASE FetchGranted
      BY <1>0, <3>1, <3>2, Counts, SizesAssumption DEF FetchGranted, InRing
    <3>3. CASE Fetch /\ fullsem > 0
      BY <1>0, <3>1, <3>3, Counts, SizesAssumption DEF Fetch, InRing
    <3> QED
      BY <1>6, <3>2, <3>3
  <2>3. /\ InRing' = InRing - 1
        /\ cbuf' = Queued(0)
        /\ \A i \in 0..(InRing - 2) : Queued(i)' = Queued(i + 1)
    BY <1>0, <2>1, RingTaken
  <2>4. NothingLost' /\ FreeOnce'
    BY <1>0, <1>a, <2>1, <2>3 DEF Owned, NothingLost, One, FreeOnce
  <2>5. QueuedOnce' /\ QueuedNotFree'
    BY <1>0, <1>a, <2>1, <2>3 DEF Owned, QueuedOnce, QueuedNotFree
  <2>6. Unshared(cbuf)'
    BY <1>0, <1>a, <2>1, <2>2, <2>3 DEF Owned, QueuedOnce, QueuedNotFree, Unshared
  <2>7. ParserHolds' => Unshared(pbuf)' /\ pbuf' # cbuf'
    BY <1>0, <1>a, <2>1, <2>2, <2>3 DEF Owned, Unshared
  <2> QED
    BY <2>1, <2>4, <2>5, <2>6, <2>7 DEF Owned
<1>7. CASE FreeCopied
  <2>1. /\ PoolFree(cbuf) /\ CompHolds /\ ~CompHolds'
        /\ UNCHANGED <<pbuf, cbuf, pstate>> /\ ParserHolds' = ParserHolds
        /\ InRing' = InRing /\ \A i : Queued(i)' = Queued(i)
    BY <1>7, RingKept DEF FreeCopied, CompHolds, ParserHolds
  <2>2. /\ Len(free') = Len(free) + 1
        /\ free'[Len(free) + 1] = cbuf
        /\ \A i \in 1..Len(free) : free'[i] = free[i]
    BY <1>0, <2>1, FreePushed DEF TypeOK
  <2>3. NothingLost'
    BY <1>0, <1>a, <2>1, <2>2 DEF Owned, NothingLost, One
  <2>4. FreeOnce'
    BY <1>0, <1>a, <2>1, <2>2 DEF Owned, FreeOnce, Unshared
  <2>5. QueuedOnce' /\ QueuedNotFree'
    BY <1>0, <1>a, <2>1, <2>2 DEF Owned, QueuedOnce, QueuedNotFree, Unshared
  <2>6. ParserHolds' => Unshared(pbuf)'
    BY <1>0, <1>a, <2>1, <2>2 DEF Owned, Unshared
  <2> QED
    BY <2>1, <2>3, <2>4, <2>5, <2>6 DEF Owned
<1>8. CASE Fill \/ FetchTimeout \/ Copy \/ Compute \/ UNCHANGED vars
  <2>1. /\ UNCHANGED <<free, pbuf, cbuf>>
        /\ ParserHolds' = ParserHolds /\ CompHolds' = CompHolds
        /\ InRing' = InRing /\ \A i : Queued(i)' = Queued(i)
    BY <1>8, RingKept
    DEF Fill, FetchTimeout, Copy, Compute, vars, ParserHolds, CompHolds
  <2> QED
    BY <1>0, <2>1 DEF Owned, NothingLost, One, FreeOnce, QueuedOnce, QueuedNotFree,
                      Unshared
<1>9. Fetch => fullsem <= 0 \/ fullsem > 0
  BY <1>0 DEF TypeOK
<1> QED
  BY <1>1, <1>2, <1>3, <1>4, <1>5, <1>6, <1>7, <1>8, <1>9
  DEF Next, ParserStep, CompStep

\* xbee_init loads the pool with every object.
LEMMA OwnedFirst == IInv /\ pstate = "boot" /\ [Next]_vars => ObjectOwnedOnce'
<1> SUFFICES ASSUME IInv, pstate = "boot", [Next]_vars, pstate' # "boot"
             PROVE  Owned'
  BY DEF ObjectOwnedOnce, Owned
<1>0. TypeOK /\ BeforeInit
  BY DEF IInv
<1>1. XbeeInit
  BY <1>0 DEF BeforeInit, Next, ParserStep, CompStep, Allocate, Fill, Post, FreeUnposted,
              Fetch, FetchGranted, FetchTimeout, Copy, FreeCopied, Compute, vars,
              pool, mailbox, parser, comp
<1>2. /\ free' = [i \in 1..PoolSize |-> i] /\ emptysem' = MailboxSize
      /\ pstate' = "parse" /\ cstate' = "fetch"
  BY <1>0, <1>1 DEF XbeeInit, BeforeInit, comp
<1>3. Len(free') = PoolSize /\ \A i \in 1..PoolSize : free'[i] = i
  BY <1>2, SizesAssumption
<1>4. InRing' = 0 /\ ~ParserHolds' /\ ~CompHolds'
  BY <1>2, SizesAssumption DEF InRing, ParserHolds, CompHolds
<1> QED
  BY <1>3, <1>4, SizesAssumption
  DEF Owned, NothingLost, One, FreeOnce, QueuedOnce, QueuedNotFree

\* The invariant is inductive.
LEMMA StepIInv == IInv /\ [Next]_vars => IInv'
<1> SUFFICES ASSUME IInv, [Next]_vars PROVE IInv'
  OBVIOUS
<1>1. Scalars'
  BY ScalarsStep DEF IInv, Scalars
<1>2. ObjectOwnedOnce'
  BY OwnedStep, OwnedFirst DEF ObjectOwnedOnce, Owned
<1> QED
  BY <1>1, <1>2 DEF IInv, Scalars

-----------------------------------------------------------------------------
\* The inductive invariant holds of every state of every behaviour.
THEOREM Invariance == Spec => []IInv
  BY InitIInv, StepIInv, PTL DEF Spec

\* Every variable of the queue keeps its type: no count passes its bounds, no
\* index leaves the ring.
THEOREM TypeCorrect == Spec => []TypeOK
<1>1. IInv => TypeOK
  BY DEF IInv
<1> QED
  BY <1>1, Invariance, PTL

\* The kernel's assertion on mb_fullsem never fails (chSemWaitTimeoutS).
THEOREM SemaphoreSafe == Spec => []SemaphoreConsistent
<1>1. IInv => SemaphoreConsistent
  BY DEF IInv
<1> QED
  BY <1>1, Invariance, PTL

\* The semaphores and the ring pointers agree on how many messages there are.
THEOREM CountsCorrect == Spec => []CountsAgree
<1>1. IInv => CountsAgree
  BY DEF IInv
<1> QED
  BY <1>1, Invariance, PTL

\* No object of the pool is ever lost or shared, whatever the sizes and the
\* interleaving of parser, tdComp and the timeout.
THEOREM ObjectsSafe == Spec => []ObjectOwnedOnce
<1>1. IInv => ObjectOwnedOnce
  BY DEF IInv
<1> QED
  BY <1>1, Invariance, PTL

\* tdComp never sleeps on a mailbox that holds a message.
THEOREM NoSleepOnMail == Spec => []NeverSleepsOnMail
<1>1. IInv => NeverSleepsOnMail
  BY Counts, SizesAssumption DEF IInv, Scalars, NeverSleepsOnMail, InRing, TypeOK
<1> QED
  BY <1>1, Invariance, PTL

\* With no more objects than slots the post after an allocation cannot fail:
\* the parser itself holds one of the objects, so the ring is not full.
LEMMA PostStep == IInv /\ PostNeverFails /\ [Next]_vars => PostNeverFails'
<1> SUFFICES ASSUME IInv, [Next]_vars, PoolSize <= MailboxSize,
                    pstate # "unpost", pstate' = "unpost"
             PROVE  FALSE
  BY DEF PostNeverFails
<1>0. TypeOK /\ ObjectOwnedOnce
  BY DEF IInv
<1>1. Post /\ emptysem <= 0
  BY DEF Next, ParserStep, CompStep, XbeeInit, Allocate, PoolAlloc, Fill, Post, SignalFull,
         FreeUnposted, Fetch, FetchGranted, FetchTimeout, Copy, FreeCopied, Compute,
         vars, pool, mailbox, parser, comp
<1>2. ParserHolds /\ pstate # "boot"
  BY <1>1 DEF Post, ParserHolds
<1>3. Len(free) + InRing + 1 + One(CompHolds) = PoolSize
  BY <1>0, <1>2 DEF ObjectOwnedOnce, NothingLost, One
<1>4. Len(free) \in Nat /\ emptysem \in 0..MailboxSize /\ One(CompHolds) >= 0
  BY <1>0 DEF TypeOK, One
<1>5. One(CompHolds) \in {0, 1}
  BY DEF One
<1> QED
  BY <1>1, <1>3, <1>4, <1>5, SizesAssumption DEF InRing

\* The post that follows a successful allocation never fails, if the pool has no
\* more objects than the mailbox slots.
THEOREM PostSafe == Spec => []PostNeverFails
<1>1. Init => PostNeverFails
  BY DEF Init, PostNeverFails
<1> QED
  BY <1>1, PostStep, Invariance, PTL DEF Spec

-----------------------------------------------------------------------------
\* The parser posts what it has filled in.
Filled == pstate = "post" => content[pbuf] = parsed

\* What UnderWay is: its length, and its messages one by one.
Contents == 0..MaxMessages
Shape ==
  /\ InRing \in 0..MailboxSize
  /\ UnderWay \in Seq(Contents)
  /\ Len(UnderWay) = InRing + (IF cstate = "copy" THEN 1 ELSE 0)
  /\ cstate = "copy" =>
       /\ UnderWay[1] = content[cbuf]
       /\ \A i \in 1..InRing : UnderWay[i + 1] = content[Queued(i - 1)]
  /\ cstate # "copy" => \A i \in 1..InRing : UnderWay[i] = content[Queued(i - 1)]

\* The messages under way have this shape in every state of the right types.
LEMMA ShapeOK == TypeOK => Shape
<1> SUFFICES ASSUME TypeOK PROVE Shape
  OBVIOUS
<1> DEFINE first == IF cstate = "copy" THEN <<content[cbuf]>> ELSE <<>>
           rest == [i \in 1..InRing |-> content[Queued(i - 1)]]
<1>1. InRing \in 0..MailboxSize /\ InRing \in Nat
  BY SizesAssumption DEF TypeOK, InRing
<1>2. ASSUME NEW i \in 1..InRing PROVE content[Queued(i - 1)] \in Contents
  <2>1. rd \in Slots /\ i - 1 \in 0..(MailboxSize - 1)
    BY <1>1, SizesAssumption DEF TypeOK
  <2>2. SlotOf(i - 1) \in Slots
    BY <2>1, SizesAssumption DEF SlotOf, Slots
  <2> QED  BY <2>2 DEF TypeOK, Queued, Contents
<1>3. /\ rest \in Seq(Contents) /\ Len(rest) = InRing
      /\ \A i \in 1..InRing : rest[i] = content[Queued(i - 1)]
  BY <1>1, <1>2
<1>4. /\ first \in Seq(Contents)
      /\ Len(first) = IF cstate = "copy" THEN 1 ELSE 0
      /\ cstate = "copy" => first[1] = content[cbuf]
  <2>1. content[cbuf] \in Contents
    BY DEF TypeOK, Contents
  <2>2. CASE cstate = "copy"
    BY <2>1, <2>2
  <2>3. CASE cstate # "copy"
    <3>1. first = <<>>
      BY <2>3
    <3> QED  BY <2>3, <3>1
  <2> QED  BY <2>2, <2>3
<1>5. UnderWay = first \o rest
  BY DEF UnderWay
<1> HIDE DEF first, rest
<1>6. /\ first \o rest \in Seq(Contents)
      /\ Len(first \o rest) = Len(first) + Len(rest)
      /\ \A i \in 1..(Len(first) + Len(rest)) :
           (first \o rest)[i] = IF i <= Len(first) THEN first[i] ELSE rest[i - Len(first)]
  BY <1>3, <1>4, ConcatProperties
<1>7. CASE cstate = "copy"
  BY <1>1, <1>3, <1>4, <1>5, <1>6, <1>7 DEF Shape
<1>8. CASE cstate # "copy"
  BY <1>1, <1>3, <1>4, <1>5, <1>6, <1>8 DEF Shape
<1> QED  BY <1>7, <1>8

\* A step that leaves the ring and the contents of its objects alone, and what
\* tdComp is copying, leaves the channel alone;
LEMMA ChannelKept ==
  ASSUME Shape, Shape', InRing' = InRing,
         (cstate = "copy")' <=> cstate = "copy",
         cstate = "copy" => content'[cbuf'] = content[cbuf],
         \A i \in 1..InRing : content'[Queued(i - 1)'] = content[Queued(i - 1)]
  PROVE  UnderWay' = UnderWay
<1>1. Len(UnderWay') = Len(UnderWay)
  BY DEF Shape
<1>2. ASSUME NEW i \in 1..Len(UnderWay) PROVE UnderWay'[i] = UnderWay[i]
  <2>1. CASE cstate # "copy"
    BY <2>1 DEF Shape
  <2>2. CASE cstate = "copy" /\ i = 1
    BY <2>2 DEF Shape
  <2>3. CASE cstate = "copy" /\ i # 1
    <3>1. i - 1 \in 1..InRing /\ (i - 1) + 1 = i
      BY <2>3 DEF Shape
    <3> QED  BY <2>3, <3>1 DEF Shape
  <2> QED  BY <2>1, <2>2, <2>3
<1>3. UnderWay \in Seq(Contents) /\ UnderWay' \in Seq(Contents)
  BY DEF Shape, Contents
<1> QED  BY <1>1, <1>2, <1>3, SeqEqual

\* so does one that takes the first message from the ring to copy it.
LEMMA ChannelTaken ==
  ASSUME Shape, Shape', InRing >= 1, InRing' = InRing - 1,
         cstate # "copy", cstate' = "copy", content' = content,
         cbuf' = Queued(0),
         \A i \in 0..(InRing - 2) : Queued(i)' = Queued(i + 1)
  PROVE  UnderWay' = UnderWay
<1>0. InRing \in Nat
  BY DEF Shape
<1>1. Len(UnderWay') = Len(UnderWay) /\ Len(UnderWay) = InRing
  BY <1>0 DEF Shape
<1>2. ASSUME NEW i \in 1..Len(UnderWay) PROVE UnderWay'[i] = UnderWay[i]
  <2>1. UnderWay[i] = content[Queued(i - 1)]
    BY <1>1 DEF Shape
  <2>2. CASE i = 1
    BY <2>1, <2>2 DEF Shape
  <2>3. CASE i # 1
    <3>1. i - 1 \in 1..InRing' /\ (i - 1) + 1 = i /\ i - 2 \in 0..(InRing - 2)
      BY <1>0, <1>1, <2>3
    <3>2. UnderWay'[i] = content[Queued((i - 1) - 1)']
      BY <3>1 DEF Shape
    <3>3. (i - 1) - 1 = i - 2 /\ (i - 2) + 1 = i - 1
      BY <1>1
    <3> QED  BY <2>1, <3>1, <3>2, <3>3
  <2> QED  BY <2>2, <2>3
<1>3. UnderWay \in Seq(Contents) /\ UnderWay' \in Seq(Contents)
  BY DEF Shape, Contents
<1> QED  BY <1>1, <1>2, <1>3, SeqEqual

\* A post appends to the channel,
LEMMA ChannelPosted ==
  ASSUME Shape, Shape', InRing' = InRing + 1, content' = content, cbuf' = cbuf,
         (cstate = "copy")' <=> cstate = "copy",
         NEW m \in Contents, \A i : i = InRing => content[Queued(i)'] = m,
         \A i \in 1..InRing : Queued(i - 1)' = Queued(i - 1)
  PROVE  UnderWay' = Append(UnderWay, m)
<1>0. InRing \in Nat /\ UnderWay \in Seq(Contents) /\ UnderWay' \in Seq(Contents)
  BY DEF Shape, Contents
<1> DEFINE longer == Append(UnderWay, m)
<1>1. /\ longer \in Seq(Contents) /\ Len(longer) = Len(UnderWay) + 1
      /\ longer[Len(UnderWay) + 1] = m
      /\ \A i \in 1..Len(UnderWay) : longer[i] = UnderWay[i]
  BY <1>0
<1> HIDE DEF longer
<1>2. Len(UnderWay') = Len(UnderWay) + 1 /\ Len(UnderWay) \in Nat
  BY <1>0 DEF Shape
<1>3. UnderWay'[Len(UnderWay) + 1] = m
  <2> PICK n \in Nat : n = InRing
    BY <1>0
  <2>1. n + 1 \in 1..InRing' /\ (n + 1) - 1 = n /\ content'[Queued(n)'] = m
    BY <1>0
  <2>2. CASE cstate = "copy"
    <3>1. UnderWay'[(n + 1) + 1] = content'[Queued((n + 1) - 1)']
      BY <2>1, <2>2 DEF Shape
    <3> QED  BY <1>2, <2>1, <2>2, <3>1 DEF Shape
  <2>3. CASE cstate # "copy"
    <3>1. UnderWay'[n + 1] = content'[Queued((n + 1) - 1)']
      BY <2>1, <2>3 DEF Shape
    <3> QED  BY <1>2, <2>1, <2>3, <3>1 DEF Shape
  <2> QED  BY <2>2, <2>3
<1>4. ASSUME NEW i \in 1..Len(UnderWay) PROVE UnderWay'[i] = UnderWay[i]
  <2>1. CASE cstate # "copy"
    BY <1>0, <2>1 DEF Shape
  <2>2. CASE cstate = "copy" /\ i = 1
    BY <1>0, <2>2 DEF Shape
  <2>3. CASE cstate = "copy" /\ i # 1
    <3>1. i - 1 \in 1..InRing /\ i - 1 \in 1..InRing' /\ (i - 1) + 1 = i
      BY <1>0, <2>3 DEF Shape
    <3> QED  BY <2>3, <3>1 DEF Shape
  <2> QED  BY <2>1, <2>2, <2>3
<1>5. ASSUME NEW i \in 1..Len(UnderWay') PROVE UnderWay'[i] = longer[i]
  BY <1>1, <1>2, <1>3, <1>4
<1>6. UnderWay' = longer
  BY <1>0, <1>1, <1>2, <1>5, SeqEqual
<1> QED  BY <1>6 DEF longer

\* and the copy takes its head.
LEMMA ChannelCopied ==
  ASSUME Shape, Shape', InRing' = InRing, content' = content,
         cstate = "copy", cstate' # "copy",
         \A i \in 1..InRing : Queued(i - 1)' = Queued(i - 1)
  PROVE  /\ UnderWay # <<>>
         /\ Head(UnderWay) = content[cbuf]
         /\ UnderWay' = Tail(UnderWay)
<1>0. /\ InRing \in Nat /\ UnderWay \in Seq(Contents) /\ UnderWay' \in Seq(Contents)
      /\ Len(UnderWay) = InRing + 1 /\ Len(UnderWay') = InRing
  BY DEF Shape, Contents
<1>1. UnderWay # <<>>
  BY <1>0
<1>2. Head(UnderWay) = content[cbuf]
  BY <1>0, <1>1 DEF Shape
<1>3. /\ Tail(UnderWay) \in Seq(Contents)
      /\ Len(Tail(UnderWay)) = InRing
      /\ \A i \in 1..InRing : Tail(UnderWay)[i] = UnderWay[i + 1]
  BY <1>0, <1>1, HeadTailProperties
<1>4. \A i \in 1..InRing : UnderWay'[i] = UnderWay[i + 1]
  BY <1>0 DEF Shape
<1>5. UnderWay' = Tail(UnderWay)
  BY <1>0, <1>3, <1>4, SeqEqual
<1> QED  BY <1>1, <1>2, <1>5

\* The messages that are under way, when none of those in an object is touched.
LEMMA ContentKept ==
  ASSUME Shape, Shape', UNCHANGED <<ring, rd, emptysem>>,
         (cstate = "copy")' <=> cstate = "copy",
         cstate = "copy" => content'[cbuf'] = content[cbuf],
         \A j \in 0..(InRing - 1) : content'[Queued(j)] = content[Queued(j)]
  PROVE  UnderWay' = UnderWay
<1>1. InRing' = InRing /\ \A i : Queued(i)' = Queued(i)
  BY RingKept
<1>2. InRing \in Nat
  BY DEF Shape
<1>3. \A i \in 1..InRing : content'[Queued(i - 1)'] = content[Queued(i - 1)]
  BY <1>1, <1>2
<1> QED  BY <1>1, <1>3, ChannelKept

\* The parser does not touch what it has filled in before it is posted.
LEMMA FilledStep == IInv /\ Filled /\ [Next]_vars => Filled'
<1> SUFFICES ASSUME IInv, Filled, [Next]_vars, pstate' = "post"
             PROVE  content'[pbuf'] = parsed'
  BY DEF Filled
<1> USE DEF pool, mailbox, parser, comp
<1>0. TypeOK /\ ObjectOwnedOnce
  BY DEF IInv
<1>1. CASE Fill
  BY <1>0, <1>1 DEF Fill, TypeOK
<1>2. CASE FreeCopied
  <2>1. /\ pstate = "post" /\ CompHolds /\ content[pbuf] = parsed
        /\ UNCHANGED <<pbuf, parsed>>
        /\ content' = [content EXCEPT ![cbuf] = Garbage]
    BY <1>2 DEF FreeCopied, PoolFree, CompHolds, Filled
  <2>2. pbuf # cbuf
    BY <1>0, <2>1 DEF ObjectOwnedOnce, ParserHolds
  <2> QED  BY <1>0, <2>1, <2>2 DEF TypeOK
<1>3. CASE XbeeInit \/ Allocate \/ Post \/ FreeUnposted
  BY <1>3 DEF XbeeInit, Allocate, Post, FreeUnposted
<1>4. CASE Fetch \/ FetchGranted \/ FetchTimeout \/ Copy \/ Compute \/ UNCHANGED vars
  BY <1>4 DEF Filled, Fetch, FetchGranted, FetchTimeout, Copy, Compute, vars
<1> QED
  BY <1>1, <1>2, <1>3, <1>4 DEF Next, ParserStep, CompStep

\* What the channel counts as settled: all but the message in the making.
Settled == IF pstate \in {"fill", "post"} THEN parsed - 1 ELSE parsed

\* A step of the queue is a step of the channel or none of its concern: a
\* message is accepted by the post that puts it in the ring, refused by the
\* allocation that finds no object or the post that finds no slot, delivered by
\* the copy.
LEMMA ChannelStep ==
  IInv /\ Filled /\ [Next]_vars /\ Shape /\ Shape' =>
    [Channel!Next]_(Channel!cvars)
<1> SUFFICES ASSUME IInv, Filled, [Next]_vars, Shape, Shape'
             PROVE  [Channel!Next]_(Channel!cvars)
  OBVIOUS
<1> USE DEF pool, mailbox, parser, comp
<1>0. TypeOK /\ Scalars /\ CountsAgree /\ ObjectOwnedOnce /\ BeforeInit
  BY DEF IInv, Scalars
<1>a. /\ InRing \in Nat /\ Len(free) \in Nat /\ emptysem \in Int /\ fullsem \in Int
      /\ parsed \in Nat /\ Len(UnderWay) = InRing + (IF cstate = "copy" THEN 1 ELSE 0)
  BY <1>0 DEF TypeOK, Shape
<1>c. \A j \in 0..(InRing - 1) : Queued(j) \in Objects
  <2> SUFFICES ASSUME NEW j \in 0..(InRing - 1) PROVE Queued(j) \in Objects
    OBVIOUS
  <2>1. rd \in Slots /\ j \in 0..(MailboxSize - 1)
    BY <1>0, <1>a, SizesAssumption DEF TypeOK, InRing
  <2>2. SlotOf(j) \in Slots
    BY <2>1, SizesAssumption DEF SlotOf, Slots
  <2> QED  BY <1>0, <2>2 DEF TypeOK, Queued
<1> DEFINE Stutters == UnderWay' = UnderWay /\ Settled' = Settled /\ peer' = peer
           Accepts == /\ UnderWay' = Append(UnderWay, Settled + 1)
                      /\ Settled' = Settled + 1 /\ peer' = peer
           Refuses == /\ Len(UnderWay) >= MinRoom
                      /\ UnderWay' = UnderWay /\ Settled' = Settled + 1 /\ peer' = peer
           Delivers == /\ UnderWay # <<>> /\ peer' = Head(UnderWay)
                       /\ UnderWay' = Tail(UnderWay) /\ Settled' = Settled
<1>b. SUFFICES Stutters \/ Accepts \/ Refuses \/ Delivers
  BY DEF Channel!Next, Channel!cvars, Channel!Accept, Channel!Refuse, Channel!Deliver, Settled
<1>1. CASE XbeeInit
  <2>1. InRing = 0 /\ pstate = "boot" /\ cstate = "fetch"
    BY <1>0, <1>1, SizesAssumption DEF XbeeInit, BeforeInit, InRing
  <2>2. InRing' = 0 /\ cstate' = "fetch"
    BY <1>1, <2>1, SizesAssumption DEF XbeeInit, InRing
  <2>3. UnderWay' = UnderWay
    BY <2>1, <2>2, ChannelKept
  <2> QED  BY <1>1, <2>3 DEF XbeeInit, Settled
<1>2. CASE Allocate
  <2>1. /\ UnderWay' = UnderWay /\ peer' = peer
        /\ pstate = "parse" /\ parsed' = parsed + 1
    <3>1. UNCHANGED <<ring, rd, emptysem, cstate, cbuf, content>>
      BY <1>2 DEF Allocate, PoolAlloc
    <3>2. UnderWay' = UnderWay
      BY <3>1, ContentKept
    <3> QED  BY <1>2, <3>2 DEF Allocate
  <2>2. CASE pstate' = "fill"
    BY <1>a, <2>1, <2>2 DEF Settled
  <2>3. CASE free = <<>> /\ pstate' = pstate
    <3>1. InRing + One(CompHolds) = PoolSize
      BY <1>0, <1>a, <2>1, <2>3 DEF ObjectOwnedOnce, NothingLost, ParserHolds, One
    <3>2. Len(UnderWay) >= PoolSize - 1
      BY <1>a, <3>1, SizesAssumption DEF One, CompHolds
    <3>3. Len(UnderWay) >= MinRoom
      BY <1>a, <3>2, SizesAssumption DEF MinRoom
    <3> QED  BY <1>a, <2>1, <2>3, <3>3 DEF Settled
  <2> QED  BY <1>2, <2>2, <2>3 DEF Allocate
<1>3. CASE Fill
  <2>1. /\ pstate = "fill" /\ pstate' = "post"
        /\ content' = [content EXCEPT ![pbuf] = parsed]
        /\ UNCHANGED <<ring, rd, emptysem, cstate, cbuf, peer, parsed>>
    BY <1>3 DEF Fill
  <2>2. /\ \A j \in 0..(InRing - 1) : Queued(j) # pbuf
        /\ cstate = "copy" => cbuf # pbuf
    BY <1>0, <2>1 DEF ObjectOwnedOnce, ParserHolds, CompHolds, Unshared
  <2>3. /\ \A j \in 0..(InRing - 1) : content'[Queued(j)] = content[Queued(j)]
        /\ cstate = "copy" => content'[cbuf'] = content[cbuf]
    BY <1>0, <1>c, <2>1, <2>2
  <2>4. UnderWay' = UnderWay
    BY <2>1, <2>3, ContentKept
  <2> QED  BY <2>1, <2>4 DEF Settled
<1>4. CASE Post
  <2>0. pstate = "post" /\ UNCHANGED <<content, parsed, cbuf, peer>>
    BY <1>4 DEF Post
  <2>1. CASE emptysem <= 0
    <3>1. pstate' = "unpost" /\ UNCHANGED <<ring, rd, emptysem, cstate>>
      BY <1>4, <1>a, <2>1 DEF Post
    <3>2. UnderWay' = UnderWay
      BY <2>0, <3>1, ContentKept
    <3>3. Len(UnderWay) >= MinRoom
      BY <1>0, <1>a, <2>1, SizesAssumption DEF MinRoom, InRing, TypeOK
    <3> QED  BY <1>a, <2>0, <3>1, <3>2, <3>3 DEF Settled
  <2>2. CASE emptysem > 0
    <3>1. /\ emptysem' = emptysem - 1 /\ rd' = rd
          /\ ring' = [ring EXCEPT ![wr] = pbuf]
          /\ pstate' = "parse"
          /\ cstate' = IF fullsem + 1 <= 0 THEN "granted" ELSE cstate
      BY <1>4, <1>a, <2>2 DEF Post, SignalFull
    <3>2. (cstate = "copy")' <=> cstate = "copy"
      <4>1. fullsem + 1 <= 0 => cstate = "waiting"
        BY <1>0, <1>a DEF Scalars, SemaphoreConsistent
      <4> QED  BY <3>1, <4>1
    <3>3. /\ InRing' = InRing + 1
          /\ \A i : i = InRing => Queued(i)' = pbuf
          /\ \A i \in 0..(InRing - 1) : Queued(i)' = Queued(i)
      BY <1>0, <2>2, <3>1, RingPosted
    <3>4. content[pbuf] = parsed /\ parsed \in Contents
      BY <1>0, <2>0 DEF Filled, TypeOK, Contents
    <3>5. /\ \A i : i = InRing => content[Queued(i)'] = parsed
          /\ \A i \in 1..InRing : Queued(i - 1)' = Queued(i - 1)
      BY <1>a, <3>3, <3>4
    <3>6. UnderWay' = Append(UnderWay, parsed)
      BY <2>0, <3>2, <3>3, <3>4, <3>5, ChannelPosted
    <3> QED  BY <1>a, <2>0, <3>1, <3>6 DEF Settled
  <2> QED  BY <1>a, <2>1, <2>2
<1>5. CASE FreeUnposted
  <2>1. /\ pstate = "unpost" /\ pstate' = "parse"
        /\ content' = [content EXCEPT ![pbuf] = Garbage]
        /\ UNCHANGED <<ring, rd, emptysem, cstate, cbuf, peer, parsed>>
    BY <1>5 DEF FreeUnposted, PoolFree
  <2>2. /\ \A j \in 0..(InRing - 1) : Queued(j) # pbuf
        /\ cstate = "copy" => cbuf # pbuf
    BY <1>0, <2>1 DEF ObjectOwnedOnce, ParserHolds, CompHolds, Unshared
  <2>3. /\ \A j \in 0..(InRing - 1) : content'[Queued(j)] = content[Queued(j)]
        /\ cstate = "copy" => content'[cbuf'] = content[cbuf]
    BY <1>0, <1>c, <2>1, <2>2
  <2>4. UnderWay' = UnderWay
    BY <2>1, <2>3, ContentKept
  <2> QED  BY <2>1, <2>4 DEF Settled
<1>6. CASE Fetch /\ fullsem <= 0
  <2>1. /\ cstate = "fetch" /\ cstate' = "waiting"
        /\ UNCHANGED <<content, ring, rd, emptysem, peer, parsed, pstate>>
    BY <1>6, <1>a DEF Fetch
  <2>2. UnderWay' = UnderWay
    BY <2>1, ContentKept
  <2> QED  BY <2>1, <2>2 DEF Settled
<1>7. CASE FetchGranted \/ (Fetch /\ fullsem > 0)
  <2>1. /\ TakeFromRing /\ cstate # "copy"
        /\ UNCHANGED <<content, peer, parsed, pstate>>
    BY <1>7, <1>a DEF Fetch, FetchGranted, TakeFromRing
  <2>2. InRing >= 1
    <3>1. CASE FetchGranted
      BY <1>0, <1>a, <3>1, Counts, SizesAssumption DEF FetchGranted, InRing
    <3>2. CASE Fetch /\ fullsem > 0
      BY <1>0, <1>a, <3>2, Counts, SizesAssumption DEF Fetch, InRing
    <3> QED  BY <1>7, <3>1, <3>2
  <2>3. /\ InRing' = InRing - 1 /\ cbuf' = Queued(0) /\ cstate' = "copy"
        /\ \A i \in 0..(InRing - 2) : Queued(i)' = Queued(i + 1)
    BY <1>0, <2>1, RingTaken DEF TakeFromRing
  <2>4. UnderWay' = UnderWay
    BY <2>1, <2>2, <2>3, ChannelTaken
  <2> QED  BY <2>1, <2>4 DEF Settled
<1>8. CASE Copy
  <2>1. /\ cstate = "copy" /\ cstate' # "copy" /\ peer' = content[cbuf]
        /\ UNCHANGED <<content, ring, rd, emptysem, parsed, pstate>>
    BY <1>8 DEF Copy
  <2>2. InRing' = InRing /\ \A i : Queued(i)' = Queued(i)
    BY <2>1, RingKept
  <2>3. UnderWay # <<>> /\ Head(UnderWay) = content[cbuf] /\ UnderWay' = Tail(UnderWay)
    BY <2>1, <2>2, ChannelCopied
  <2> QED  BY <2>1, <2>3 DEF Settled
<1>9. CASE FreeCopied
  <2>1. /\ cstate = "free" /\ cstate' = "update"
        /\ content' = [content EXCEPT ![cbuf] = Garbage]
        /\ UNCHANGED <<ring, rd, emptysem, peer, parsed, pstate>>
    BY <1>9 DEF FreeCopied, PoolFree
  <2>2. InRing = 0 \/ pstate # "boot"
    BY <1>0, <2>1 DEF BeforeInit
  <2>3. \A j \in 0..(InRing - 1) : Queued(j) # cbuf
    BY <1>0, <2>1, <2>2 DEF ObjectOwnedOnce, CompHolds, Unshared
  <2>4. \A j \in 0..(InRing - 1) : content'[Queued(j)] = content[Queued(j)]
    BY <1>0, <1>c, <2>1, <2>3
  <2>5. UnderWay' = UnderWay
    BY <2>1, <2>4, ContentKept
  <2> QED  BY <2>1, <2>5 DEF Settled
<1>10. CASE FetchTimeout \/ Compute \/ UNCHANGED vars
  <2>1. /\ UNCHANGED <<content, ring, rd, emptysem, cbuf, peer, parsed, pstate>>
        /\ (cstate = "copy")' <=> cstate = "copy"
    BY <1>10 DEF FetchTimeout, Compute, vars
  <2>2. UnderWay' = UnderWay
    BY <2>1, ContentKept
  <2> QED  BY <2>1, <2>2 DEF Settled
<1> QED
  BY <1>a, <1>1, <1>2, <1>3, <1>4, <1>5, <1>6, <1>7, <1>8, <1>9, <1>10
  DEF Next, ParserStep, CompStep

\* For every size of pool and mailbox, and under any interleaving of parser,
\* tdComp and the timeout, they implement the channel: no message that was
\* posted is lost, altered, repeated or overtaken, and one is refused only when
\* Room of them are under way.  That each is delivered is left to the runs.
THEOREM QueueIsAChannel == Spec => Channel!SafeSpec
<1>1. Init => Channel!Init /\ Filled
  <2> SUFFICES ASSUME Init PROVE Channel!Init /\ Filled
    OBVIOUS
  <2>1. TypeOK /\ InRing = 0 /\ cstate = "fetch"
    BY InitIInv, SizesAssumption DEF IInv, Init, InRing
  <2>2. Len(UnderWay) = 0 /\ UnderWay \in Seq(Contents)
    BY <2>1, ShapeOK DEF Shape
  <2>3. UnderWay = <<>>
    BY <2>2
  <2> QED  BY <2>3 DEF Init, Channel!Init, Filled, Garbage
<1>2. IInv => Shape
  BY ShapeOK DEF IInv
<1> QED
  BY <1>1, <1>2, Invariance, FilledStep, ChannelStep, PTL DEF Spec, Channel!SafeSpec

-----------------------------------------------------------------------------
\* The steps of tdComp until it delivers a message that is under way.
DeliveryIn ==
  [copy |-> 1, fetch |-> 2, granted |-> 2, update |-> 3, timedout |-> 3, free |-> 4,
   waiting |-> 5][cstate]

DeliveryBounded == UnderWay # <<>> => cstate # "waiting" /\ DeliveryIn \in 1..4
DeliveryGetsCloser ==
  [][ UnderWay # <<>> =>
        IF CompStep THEN Channel!Deliver \/ DeliveryIn' < DeliveryIn
                    ELSE DeliveryIn' = DeliveryIn ]_vars

\* With a message under way tdComp does not sleep, on the mailbox or otherwise.
LEMMA MailAwake ==
  ASSUME IInv, UnderWay # <<>>
  PROVE  InRing > 0 \/ cstate = "copy"
<1>1. Shape
  BY ShapeOK DEF IInv
<1>2. Len(UnderWay) # 0
  BY <1>1 DEF Shape
<1> QED  BY <1>1, <1>2 DEF Shape

LEMMA CompNearer ==
  ASSUME IInv, InRing > 0 \/ cstate = "copy", CompStep, ~Copy
  PROVE  DeliveryIn' < DeliveryIn
<1>1. CASE Fetch
  <2>1. cstate = "fetch" /\ InRing > 0
    BY <1>1 DEF Fetch
  <2>2. fullsem > 0
    <3>1. InRing = fullsem + One(cstate \in {"granted", "waiting"})
      BY DEF IInv, CountsAgree
    <3>2. One(cstate \in {"granted", "waiting"}) = 0
      BY <2>1 DEF One
    <3> QED  BY <2>1, <3>1, <3>2 DEF IInv, TypeOK
  <2>3. cstate' = "copy"
    <3>1. fullsem \in -1..MailboxSize /\ ~(fullsem <= 0)
      BY <2>2, SizesAssumption DEF IInv, TypeOK
    <3> QED  BY <1>1, <3>1 DEF Fetch, TakeFromRing
  <2> QED  BY <2>1, <2>3 DEF DeliveryIn
<1>2. CASE FetchGranted
  BY <1>2 DEF FetchGranted, TakeFromRing, DeliveryIn
<1>3. CASE FreeCopied
  BY <1>3 DEF FreeCopied, DeliveryIn
<1>4. CASE Compute
  BY <1>4 DEF Compute, DeliveryIn
<1> QED  BY <1>1, <1>2, <1>3, <1>4 DEF CompStep

\* The copy delivers the first message under way.
LEMMA CopyDelivers ==
  ASSUME Shape, Shape', Copy
  PROVE  Channel!Deliver
<1>1. /\ cstate = "copy" /\ cstate' # "copy" /\ peer' = content[cbuf]
      /\ UNCHANGED <<content, ring, rd, emptysem, parsed, pstate>>
  BY DEF Copy, pool, mailbox, parser
<1>2. InRing' = InRing /\ \A i : Queued(i)' = Queued(i)
  BY <1>1, RingKept
<1>3. UnderWay # <<>> /\ Head(UnderWay) = content[cbuf] /\ UnderWay' = Tail(UnderWay)
  BY <1>1, <1>2, ChannelCopied
<1> QED  BY <1>1, <1>3 DEF Channel!Deliver

\* The others leave tdComp where it is, but for a wait on an empty mailbox.
LEMMA CompLeft ==
  ASSUME [Next]_vars, ~CompStep, cstate # "waiting", IInv
  PROVE  cstate' = cstate
<1>1. fullsem >= 0
  BY DEF IInv, SemaphoreConsistent, TypeOK
<1>2. CASE Post
  BY <1>1, <1>2 DEF Post, SignalFull, IInv, TypeOK
<1>3. CASE XbeeInit \/ Allocate \/ Fill \/ FreeUnposted
  BY <1>3 DEF XbeeInit, Allocate, Fill, FreeUnposted, comp
<1>4. CASE FetchTimeout
  BY <1>4 DEF FetchTimeout
<1>5. CASE UNCHANGED vars
  BY <1>5 DEF vars, comp
<1> QED  BY <1>2, <1>3, <1>4, <1>5 DEF Next, ParserStep

\* While messages are under way, tdComp does not sleep and delivers the first of
\* them within four of its steps, and the parser and the timeout do not put it
\* off (chMBFetch, chMBPost): the delivery that QueueIsAChannel leaves open, up
\* to tdComp's going on.
THEOREM DeliveredWithinARound == Spec => []DeliveryBounded /\ DeliveryGetsCloser
<1>1. IInv => Shape
  BY ShapeOK DEF IInv
<1>2. IInv /\ UnderWay # <<>> => cstate # "waiting"
  <2> SUFFICES ASSUME IInv, UnderWay # <<>> PROVE cstate # "waiting"
    OBVIOUS
  <2>1. InRing > 0 \/ cstate = "copy"
    BY MailAwake
  <2>2. cstate = "waiting" => InRing = 0
    BY Counts, SizesAssumption DEF IInv, Scalars, InRing, TypeOK
  <2> QED  BY <2>1, <2>2
<1>3. IInv => DeliveryBounded
  BY <1>2 DEF IInv, TypeOK, DeliveryBounded, DeliveryIn
<1>4. IInv /\ Shape /\ Shape' /\ [Next]_vars =>
        [UnderWay # <<>> =>
           IF CompStep THEN Channel!Deliver \/ DeliveryIn' < DeliveryIn
                       ELSE DeliveryIn' = DeliveryIn]_vars
  <2> SUFFICES ASSUME IInv, Shape, Shape', [Next]_vars, UnderWay # <<>>
               PROVE  IF CompStep THEN Channel!Deliver \/ DeliveryIn' < DeliveryIn
                                  ELSE DeliveryIn' = DeliveryIn
    OBVIOUS
  <2>1. CASE Copy
    BY <2>1, CopyDelivers DEF CompStep
  <2>2. CASE CompStep /\ ~Copy
    BY <2>2, MailAwake, CompNearer
  <2>3. CASE ~CompStep
    <3>1. cstate' = cstate
      BY <1>2, <2>3, CompLeft
    <3> QED  BY <2>3, <3>1 DEF DeliveryIn
  <2> QED  BY <2>1, <2>2, <2>3
<1> QED
  BY <1>1, <1>3, <1>4, Invariance, PTL DEF Spec, DeliveryGetsCloser
=============================================================================
