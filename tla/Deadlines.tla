----------------------------- MODULE Deadlines -----------------------------
(***************************************************************************)
(* What the virtual timers promise: every armed timer has a number of      *)
(* ticks left, each tick takes one from all of them at once, and a timer   *)
(* goes off in the tick that takes its last one, neither before nor after, *)
(* unless it is disarmed first.                                            *)
(***************************************************************************)
EXTENDS Integers

CONSTANTS
  Owners,   \* a thread has at most one timer, that of its own wait
  Delays    \* the times for which each of them sleeps, in ticks

VARIABLE left     \* the ticks left of an armed timer, Off for the others

Off == -1
Armed(t) == left[t] # Off

\* A tick cannot begin while timers of the tick before are still to go off.
Tick ==
  /\ \A t \in Owners : left[t] # 0
  /\ left' = [t \in Owners |-> IF Armed(t) THEN left[t] - 1 ELSE Off]

GoOff(t) ==
  /\ left[t] = 0
  /\ left' = [left EXCEPT ![t] = Off]

\* A thread goes to sleep, one that runs in its place (u) disarms its own.
Arm(t) ==
  /\ ~Armed(t)
  /\ left'[t] \in Delays[t]
  /\ \E u \in Owners : left' = [left EXCEPT ![u] = Off, ![t] = left'[t]]

Disarm(t) == left' = [left EXCEPT ![t] = Off]

Init == left = [t \in Owners |-> Off]
Next ==
  \/ Tick
  \/ \E t \in Owners : GoOff(t) \/ Disarm(t) \/ Arm(t)

Spec == Init /\ [][Next]_left
=============================================================================
