------------------------------- MODULE Kernel -------------------------------
(***************************************************************************)
(* The part of ChibiOS/RT this program runs on: the ready list ordered by  *)
(* priority, going to sleep and waking up, preemption after an interrupt,  *)
(* and the delta list of virtual timers behind every timeout.  The build   *)
(* has no time slices (CH_CFG_TIME_QUANTUM is 0) and a periodic tick       *)
(* (CH_CFG_ST_TIMEDELTA is 0).                                             *)
(*                                                                         *)
(* A locked kernel call with the context switch it ends in is one step,    *)
(* and so is an interrupt with its epilogue, except that of the timer,     *)
(* whose loop takes a step for each timer that goes off.  The thread that  *)
(* is switched in finishes its own call: it disarms the timer of its wait. *)
(***************************************************************************)
EXTENDS Integers, Sequences, SequencesExt

CONSTANTS
  Threads,
  Idle,         \* the thread that never waits
  First,        \* the thread that chSysInit turns main() into
  Priority,     \* p_prio of each thread
  Delays        \* the times for which it sleeps, in ticks, finite and not 0

ASSUME KernelAssumption ==
  /\ Idle \in Threads /\ First \in Threads \ {Idle}
  /\ Priority \in [Threads -> Nat]
  /\ Delays \in [Threads -> SUBSET (Nat \ {0})]
  /\ \A t \in Threads \ {Idle} : Priority[Idle] < Priority[t]

VARIABLES
  state,     \* p_state of each thread
  current,   \* ch.rlist.r_current
  ready,     \* ch.rlist.r_queue, the thread to run next first
  timers,    \* ch.vtlist: the threads whose timers are armed, the next first
  delta,     \* vt_delta of each thread's timer, counted from the one before it
  ticking    \* the processor is in the timer interrupt

kvars == <<state, current, ready, timers, delta, ticking>>

Waits == {"sleeping", "suspended", "wtorevt", "wtsem"}
States == {"none", "current", "ready"} \cup Waits

-----------------------------------------------------------------------------
\* Slips that the properties below must notice.
AheadIsBehind(r, t) ==
  {InsertAt(r, i, t) : i \in {k \in 1..(Len(r) + 1) :
     /\ \A j \in 1..(k-1) : Priority[r[j]] >= Priority[t]
     /\ k <= Len(r) => Priority[r[k]] < Priority[t]}}
BehindIsAhead(r, t) ==
  {InsertAt(r, i, t) : i \in {k \in 1..(Len(r) + 1) :
     /\ \A j \in 1..(k-1) : Priority[r[j]] > Priority[t]
     /\ k <= Len(r) => Priority[r[k]] <= Priority[t]}}
ExpireEvenIfReady ==
  /\ ticking /\ timers # <<>> /\ delta[Head(timers)] = 0
  /\ timers' = Tail(timers)
  /\ \E r \in BehindIsAhead(ready, Head(timers)) : ready' = r
  /\ state' = [state EXCEPT ![Head(timers)] = "ready"]
  /\ UNCHANGED <<current, delta, ticking>>
DisarmOnly(list, dl, t) == [dl EXCEPT ![t] = 0]
NoReschedule(r, st) == ready' = r /\ state' = st /\ UNCHANGED <<current, timers, delta>>

-----------------------------------------------------------------------------
\* The ready list with t behind its equals (chSchReadyI) and ahead of them
\* (chSchDoRescheduleAhead): a set of one list.
BehindEquals(r, t) ==
  {InsertAt(r, i, t) : i \in {k \in 1..(Len(r) + 1) :
     /\ \A j \in 1..(k-1) : Priority[r[j]] >= Priority[t]
     /\ k <= Len(r) => Priority[r[k]] < Priority[t]}}

AheadOfEquals(r, t) ==
  {InsertAt(r, i, t) : i \in {k \in 1..(Len(r) + 1) :
     /\ \A j \in 1..(k-1) : Priority[r[j]] > Priority[t]
     /\ k <= Len(r) => Priority[r[k]] <= Priority[t]}}

At(list, t) == CHOOSE i \in 1..Len(list) : list[i] = t
In(list, t) == \E i \in 1..Len(list) : list[i] = t

\* Ticks from now until each timer of the list goes off.
Due(list, dl) ==
  LET sum[i \in 0..Len(list)] == IF i = 0 THEN 0 ELSE sum[i-1] + dl[list[i]]
  IN  sum

\* chVTDoSetI puts a timer behind those that are due in less than d ticks: the
\* number of these, a set of one; and the timer after it then counts from it.
Earlier(d) ==
  {k \in 0..Len(timers) :
     /\ \A j \in 1..k : Due(timers, delta)[j] < d
     /\ k < Len(timers) => Due(timers, delta)[k+1] >= d}
DeltasWith(k, t, d) ==
  LET own == d - Due(timers, delta)[k]
  IN  [u \in Threads |-> IF u = t THEN own
                         ELSE IF k < Len(timers) /\ u = timers[k+1] THEN delta[u] - own
                         ELSE delta[u]]

\* chVTDoResetI of an armed timer: the next one counts its ticks too.
Without(list, t) == IF In(list, t) THEN RemoveAt(list, At(list, t)) ELSE list
DeltasWithout(list, dl, t) ==
  [u \in Threads |-> IF u = t THEN 0
                     ELSE IF In(list, t) /\ At(list, t) < Len(list)
                             /\ u = list[At(list, t) + 1] THEN dl[u] + dl[t]
                     ELSE dl[u]]

\* chSysSwitch to a thread that leaves r for the others; if it had gone to
\* sleep with a timeout that has not gone off, it disarms it.
SwitchTo(t, r, st, list, dl) ==
  /\ current' = t
  /\ ready' = r
  /\ state' = [st EXCEPT ![t] = "current"]
  /\ timers' = Without(list, t)
  /\ delta' = DeltasWithout(list, dl, t)

\* chSchRescheduleS, and the epilogue of every interrupt; the empty list counts
\* as the lowest priority.
Preempts(r) == r # <<>> /\ Priority[Head(r)] > Priority[current]
Reschedule(r, st) ==
  \/ /\ Preempts(r)
     /\ \E q \in AheadOfEquals(Tail(r), current) :
          SwitchTo(Head(r), q, [st EXCEPT ![current] = "ready"], timers, delta)
  \/ /\ ~Preempts(r)
     /\ ready' = r /\ state' = st
     /\ UNCHANGED <<current, timers, delta>>

-----------------------------------------------------------------------------
\* chSchGoSleepS, and chSchGoSleepTimeoutS with a finite time.
GoSleep(wait) ==
  /\ ~ticking
  /\ current # Idle
  /\ SwitchTo(Head(ready), Tail(ready), [state EXCEPT ![current] = wait],
              timers, delta)
  /\ UNCHANGED ticking

GoSleepTimeout(wait, ticks) ==
  /\ ~ticking
  /\ current # Idle
  /\ \E k \in Earlier(ticks) :
       SwitchTo(Head(ready), Tail(ready), [state EXCEPT ![current] = wait],
                InsertAt(timers, k + 1, current), DeltasWith(k, current, ticks))
  /\ UNCHANGED ticking

\* chThdCreateStatic: chSchWakeupS of the new thread.
Create(t) ==
  /\ ~ticking
  /\ state[t] = "none"
  /\ \/ /\ Priority[t] <= Priority[current]
        /\ \E r \in BehindEquals(ready, t) : ready' = r
        /\ state' = [state EXCEPT ![t] = "ready"]
        /\ UNCHANGED <<current, timers, delta>>
     \/ /\ Priority[t] > Priority[current]
        /\ \E r \in BehindEquals(ready, current) :
             SwitchTo(t, r, [state EXCEPT ![current] = "ready"], timers, delta)
  /\ UNCHANGED ticking

\* chThdResumeI, chEvtSignalI or chSemSignalI of a thread that waits, by an
\* interrupt or by a thread that goes on to chSchRescheduleS.
Awaken(t) ==
  /\ ~ticking
  /\ state[t] \in Waits \ {"sleeping"}
  /\ \E r \in BehindEquals(ready, t) : Reschedule(r, [state EXCEPT ![t] = "ready"])
  /\ UNCHANGED ticking

\* The timer interrupt, chVTDoTickI: the first timer counts down,
Tick ==
  /\ ~ticking
  /\ ticking' = TRUE
  /\ delta' = [t \in Threads |-> IF timers # <<>> /\ t = Head(timers) THEN delta[t] - 1
                                 ELSE delta[t]]
  /\ UNCHANGED <<state, current, ready, timers>>

\* those with nothing left go off: wakeup makes the thread ready, unless it is
\* ready already, from a call that came before its timeout,
Expire ==
  /\ ticking /\ timers # <<>> /\ delta[Head(timers)] = 0
  /\ timers' = Tail(timers)
  /\ LET t == Head(timers)
     IN  IF state[t] = "ready" THEN UNCHANGED <<ready, state>>
         ELSE /\ \E r \in BehindEquals(ready, t) : ready' = r
              /\ state' = [state EXCEPT ![t] = "ready"]
  /\ UNCHANGED <<current, delta, ticking>>

\* and the epilogue.
TickEnd ==
  /\ ticking /\ (timers # <<>> => delta[Head(timers)] # 0)
  /\ ticking' = FALSE
  /\ Reschedule(ready, state)

\* After chSysInit.
KernelInit ==
  /\ state = [t \in Threads |-> IF t = First THEN "current"
                                ELSE IF t = Idle THEN "ready" ELSE "none"]
  /\ current = First
  /\ ready = <<Idle>>
  /\ timers = <<>> /\ delta = [t \in Threads |-> 0]
  /\ ticking = FALSE

\* Any program of threads that wait, are awoken and create one another.
KernelNext ==
  \/ \E wait \in Waits : GoSleep(wait)
  \/ \E wait \in Waits, ticks \in Delays[current] : GoSleepTimeout(wait, ticks)
  \/ \E t \in Threads : Create(t) \/ Awaken(t)
  \/ Tick \/ Expire \/ TickEnd

KernelSpec == KernelInit /\ [][KernelNext]_kvars

-----------------------------------------------------------------------------
KernelTypeOK ==
  /\ state \in [Threads -> States]
  /\ current \in Threads
  /\ ready \in Seq(Threads)
  /\ timers \in Seq(Threads)
  /\ delta \in [Threads -> Nat]
  /\ ticking \in BOOLEAN

\* Every thread is in one place: the running one is the only one whose state
\* says so, each ready one is in the ready list, and once.
OnePlace ==
  /\ \A t \in Threads : state[t] = "current" <=> t = current
  /\ \A t \in Threads : state[t] = "ready" <=> In(ready, t)
  /\ \A i, j \in 1..Len(ready) : ready[i] = ready[j] => i = j

\* The assertion "priority order violation" of chSchWakeupS, at every point
\* where a thread runs: no thread in the ready list comes before the one that
\* runs, and the list is in the order of priorities.
Ordered == \A i, j \in 1..Len(ready) : i < j => Priority[ready[i]] >= Priority[ready[j]]
PriorityOrder ==
  /\ Ordered
  /\ ~ticking => \A i \in 1..Len(ready) : Priority[ready[i]] <= Priority[current]

\* The delta list implements deadlines: whatever is armed and disarmed around
\* it, a timer goes off in the tick it was set for.
Deadline(t) == IF In(timers, t) THEN Due(timers, delta)[At(timers, t)] ELSE -1
Promise == INSTANCE Deadlines WITH
  Owners <- Threads,
  left <- [t \in Threads |-> Deadline(t)]
TimersKeepDeadlines == Promise!Spec
=============================================================================
