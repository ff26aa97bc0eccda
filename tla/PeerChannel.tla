---------------------------- MODULE PeerChannel ----------------------------
(***************************************************************************)
(* What the pool and the mailbox between tdParser and tdComp promise: a    *)
(* first-in first-out channel of parsed messages that may refuse a new     *)
(* message, but only while enough are under way, and that never loses,     *)
(* repeats, reorders or alters a message it has accepted.                  *)
(***************************************************************************)
EXTENDS Naturals, Sequences

CONSTANT Room   \* a message is refused only when Room or more are under way

VARIABLES
  settled,   \* messages accepted or refused so far; they are numbered from 1
  chan,      \* the accepted messages that are under way
  out        \* the message delivered last, 0 before the first

cvars == <<settled, chan, out>>

Accept ==
  /\ settled' = settled + 1
  /\ chan' = Append(chan, settled + 1)
  /\ UNCHANGED out

Refuse ==
  /\ Len(chan) >= Room
  /\ settled' = settled + 1
  /\ UNCHANGED <<chan, out>>

Deliver ==
  /\ chan # <<>>
  /\ out' = Head(chan)
  /\ chan' = Tail(chan)
  /\ UNCHANGED settled

Init == settled = 0 /\ chan = <<>> /\ out = 0

Next == Accept \/ Refuse \/ Deliver

SafeSpec == Init /\ [][Next]_cvars

\* Whatever was accepted is delivered in the end.
Spec == SafeSpec /\ WF_cvars(Deliver)
=============================================================================
