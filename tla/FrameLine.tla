----------------------------- MODULE FrameLine -----------------------------
(***************************************************************************)
(* FrameParser at the end of a radio link: a peer sends frames one after   *)
(* the other, the link or the receive queue may lose a byte, and a stray   *)
(* byte may come in between.  A frame is formatted into a buffer first,    *)
(* which cuts one that is too long.                                        *)
(***************************************************************************)
EXTENDS FrameParser

CONSTANTS
  Frames,      \* what peers format after the '#', the '$' included
  SendSize,    \* the size of sendbuf, with the zero that ends it
  MaxLosses,   \* bound: bytes lost in a behaviour
  MaxStrays    \* bound: stray bytes in a behaviour

ASSUME FrameLineAssumption ==
  /\ \A f \in Frames : f \in Seq(Classes) /\ f # <<>>
  /\ MaxLosses \in Nat /\ MaxStrays \in Nat

\* Frames end with their only '$' and have valid bytes.
ASSUME FramesAssumption ==
  \A f \in Frames :
    /\ f[Len(f)] = "dollar"
    /\ \A i \in 1..(Len(f) - 1) : f[i] \notin {"dollar", "junk"}

\* What sendbuf holds after the '#' has room in the buffer that receives it.
ASSUME SendAssumption == SendSize \in Nat /\ 2 <= SendSize /\ SendSize - 2 <= BufferSize

VARIABLES
  line,     \* the bytes of the frame being sent that have not arrived
  sent,     \* that frame, as it was to be
  whole,    \* it met an idle parser, and no byte of it was lost or added
  endLost,  \* the '$' was lost or cut off, of it or of one that it runs on from
  losses, strays

evars == <<line, sent, whole, endLost, losses, strays>>

\* The call of chsnprintf.
Cut(f) == Len(f) + 1 > SendSize - 1
Formatted(f) ==
  IF Cut(f) THEN SubSeq(<<"hash">> \o f, 1, SendSize - 1) ELSE <<"hash">> \o f

SendFrame(f) ==
  /\ line = <<>>
  /\ line' = Formatted(f)
  /\ sent' = f
  /\ whole' = (state = 0 /\ ~Cut(f))
  /\ endLost' = (Cut(f) \/ (endLost /\ state = 1))
  /\ UNCHANGED <<fvars, losses, strays>>

Arrive ==
  /\ line # <<>>
  /\ \E room \in BOOLEAN : Receive(Head(line), room)
  /\ line' = Tail(line)
  /\ UNCHANGED <<sent, whole, endLost, losses, strays>>

Lose ==
  /\ line # <<>> /\ losses < MaxLosses
  /\ line' = Tail(line)
  /\ whole' = FALSE
  /\ endLost' = (endLost \/ Len(line) = 1)
  /\ losses' = losses + 1
  /\ UNCHANGED <<fvars, sent, strays>>

Stray(c) ==
  /\ strays < MaxStrays
  /\ \E room \in BOOLEAN : Receive(c, room)
  /\ whole' = (whole /\ line = <<>>)
  /\ strays' = strays + 1
  /\ UNCHANGED <<line, sent, endLost, losses>>

Init ==
  /\ FrameInit
  /\ line = <<>> /\ sent = <<>> /\ whole = FALSE /\ endLost = FALSE
  /\ losses = 0 /\ strays = 0

Next ==
  \/ \E f \in Frames : SendFrame(f)
  \/ Arrive
  \/ Lose
  \/ \E c \in Alphabet : Stray(c)

Spec == Init /\ [][Next]_<<fvars, evars>>

-----------------------------------------------------------------------------
\* A frame that arrives whole at an idle parser is parsed as it was sent, and
\* posted if it is well formed and there is room, whatever was damaged before
\* it: damage costs the frame it hits and, by a lost '$', the one after it.  (If
\* the two fit the buffer, which no two of UISendMessage's do.)
WholeFrameIsParsed ==
  [][ line # <<>> /\ line' = <<>> /\ whole' =>
        /\ last'.text = sent
        /\ WellFormed(sent) /\ last'.room =>
             \E m \in last'.posted : Text(m) = sent ]_<<fvars, evars>>

\* The index leaves the buffer only behind a frame whose '$' was lost on the way
\* or cut off by sendbuf, or when stray bytes and the frame are too many for the
\* buffer together; never by what earlier frames left behind.
OverrunNeedsLostEnd ==
  [][ ~overrun /\ overrun' =>
        endLost \/ strays' + Len(sent) > BufferSize ]_<<fvars, evars>>
=============================================================================
