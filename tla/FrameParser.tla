---------------------------- MODULE FrameParser ----------------------------
(***************************************************************************)
(* From bytes to a peer message: tdParser collects what lies between '#'   *)
(* and '$' in a buffer, and at the '$' runs the table-driven parser        *)
(* (stepParser with the table of xbeeParser.c) over the buffer.            *)
(*                                                                         *)
(* A byte is abstracted to the class the code's tests tell apart.  A field *)
(* is kept as the text it was parsed from, so that a message can be        *)
(* compared with its frame.                                                *)
(***************************************************************************)
EXTENDS Integers, Sequences, SequencesExt

CONSTANTS
  BufferSize,   \* the size of tdParser's buffer
  DegMax,       \* the bound of match_DegMin on its position
  TokenSize,    \* the size of xbeeBuf
  Alphabet      \* the classes of bytes the line carries

VARIABLES
  state,    \* tdParser: 1 between a '#' and the end of its frame
  buffer,   \* tdParser: buffer[0..i-1]
  ps,       \* stepParser's state for the XBee table
  overrun,  \* tdParser wrote behind its buffer; nothing is known from then on
  last      \* history: the frame that just ended and what was posted for it

fvars == <<state, buffer, ps, overrun, last>>

\* '#', '$', ',', isdigit, '.', any other byte of isalnum, ispunct or isspace,
\* and the rest.
Classes == {"hash", "dollar", "comma", "digit", "dot", "text", "junk"}
ASSUME FrameParserAssumption ==
  /\ BufferSize \in Nat \ {0} /\ DegMax \in Nat \ {0} /\ TokenSize \in Nat \ {0}
  /\ Alphabet \subseteq Classes

\* A token has room for a number with its comma and for a peer id with its own.
ASSUME TokenAssumption == DegMax < TokenSize /\ 3 < TokenSize

Valid(c) == c # "junk"

FieldNames == <<"peerID", "longitude", "latitude", "msgID">>
INVALID_XBEE_DATA == <<"invalid">>
NoFields ==
  [peerID |-> INVALID_XBEE_DATA, longitude |-> INVALID_XBEE_DATA,
   latitude |-> INVALID_XBEE_DATA, msgID |-> INVALID_XBEE_DATA]
NoFrame == [text |-> <<>>, room |-> TRUE, posted |-> {}]

\* xbeeParserState, xbeeBuf up to xbeeCount, and the four static fields.
Fresh == [table |-> 0, token |-> <<>>, fields |-> NoFields, posted |-> {}]

\* A row of the table is done: its field is stored, and the next row's turn.
Store(p, text) ==
  [p EXCEPT !.table = p.table + 1, !.token = <<>>,
            !.fields = [p.fields EXCEPT ![FieldNames[p.table + 1]] = text]]

-----------------------------------------------------------------------------
\* Slips that the properties below must notice.
MatchMsgIDOneDigit(c, i) ==
  CASE i < 1 /\ c = "digit" -> "partial"
    [] i = 1 /\ c = "comma" -> "success"
    [] OTHER -> "failed"
MatchDegMinShort(c, i) ==
  CASE i < DegMax - 1 /\ c = "comma" -> "success"
    [] i < DegMax - 1 /\ c \in {"digit", "dot"} -> "partial"
    [] OTHER -> "failed"
FailureKeepsCount(p) == [p EXCEPT !.table = 0, !.fields = NoFields]
FailureKeepsTable(p) == [p EXCEPT !.token = <<>>, !.fields = NoFields]
SuccessWithoutRestart(p, token, room) ==
  IF p.table < 4
  THEN Store(p, IF p.table = 3 THEN token ELSE Front(token))
  ELSE [p EXCEPT !.table = 5, !.token = <<>>, !.posted = {p.fields}]
CleanupKeepsBuffer(p) ==
  /\ state' = 0
  /\ ps' = [p EXCEPT !.fields = NoFields, !.posted = {}]
  /\ UNCHANGED buffer

\* The matchers, by table state.  Each answers for the next byte c at
\* position i of the token.
MatchMsgID(c, i) ==
  CASE i < 2 /\ c = "digit" -> "partial"
    [] i = 2 /\ c = "comma" -> "success"
    [] OTHER -> "failed"

MatchDegMin(c, i) ==
  CASE i < DegMax /\ c = "comma" -> "success"
    [] i < DegMax /\ c \in {"digit", "dot"} -> "partial"
    [] OTHER -> "failed"

MatchOne(c, class) == IF c = class THEN "success" ELSE "failed"

Match(table, c, i) ==
  CASE table = 0 -> MatchMsgID(c, i)
    [] table \in {1, 2} -> MatchDegMin(c, i)
    [] table = 3 -> MatchOne(c, "digit")
    [] table = 4 -> MatchOne(c, "dollar")

\* The actions of the table: the three numbers lose their trailing comma, the
\* message type is the digit itself, and the '$' posts the message, which may
\* fail for want of room.
FieldText(table, token) == IF table = 3 THEN token ELSE Front(token)

\* The failure label of stepParser, with xbeeParserCleanup.
Failure(p) == [p EXCEPT !.table = 0, !.token = <<>>, !.fields = NoFields]

\* The last row posts the message, and the table starts over.
Post(p) == [p EXCEPT !.table = 0, !.token = <<>>, !.posted = {p.fields}]

Success(p, token, room) ==
  IF p.table < 4 THEN Store(p, FieldText(p.table, token))
  ELSE IF room THEN Post(p) ELSE Failure(p)

\* stepParser for one byte; room says whether parse_XbeeFinalize can post.
StepParser(p, c, room) ==
  LET i == Len(p.token)
      token == Append(p.token, c)
      m == Match(p.table, c, i)
  IN  CASE i >= TokenSize - 1 -> Failure(p)
        [] i < TokenSize - 1 /\ m = "partial" -> [p EXCEPT !.token = token]
        [] i < TokenSize - 1 /\ m = "success" -> Success(p, token, room)
        [] OTHER -> Failure(p)

\* The loop of tdParser over its buffer.
ParseFrame(p, text, room) ==
  LET q[n \in 0..Len(text)] ==
        IF n = 0 THEN p ELSE StepParser(q[n-1], text[n], room)
  IN  q[Len(text)]

-----------------------------------------------------------------------------
\* The cleanup label of tdParser: xbeeParserCleanup resets the four fields,
\* and neither xbeeParserState nor xbeeCount.
Cleanup(p) ==
  /\ buffer' = <<>>
  /\ state' = 0
  /\ ps' = [p EXCEPT !.fields = NoFields, !.posted = {}]

\* One byte, as tdParser handles it.
OpenFrame(c) ==
  /\ state = 0 /\ c = "hash"
  /\ state' = 1
  /\ last' = NoFrame
  /\ UNCHANGED <<buffer, ps, overrun>>

IgnoreByte(c) ==
  /\ state = 0 /\ c # "hash"
  /\ Cleanup(ps)
  /\ UNCHANGED <<overrun, last>>

CollectByte(c) ==
  /\ state = 1 /\ c # "dollar" /\ Valid(c)
  /\ IF Len(buffer) < BufferSize
     THEN buffer' = Append(buffer, c) /\ UNCHANGED overrun
     ELSE overrun' = TRUE /\ UNCHANGED buffer
  /\ UNCHANGED <<state, ps, last>>

AbandonFrame(c) ==
  /\ state = 1 /\ ~Valid(c)
  /\ Cleanup(ps)
  /\ UNCHANGED <<overrun, last>>

CloseFrame(c, room) ==
  /\ state = 1 /\ c = "dollar"
  /\ IF Len(buffer) < BufferSize
     THEN LET text == Append(buffer, c)
              p == ParseFrame(ps, text, room)
          IN  /\ last' = [text |-> text, room |-> room, posted |-> p.posted]
              /\ Cleanup(p)
              /\ UNCHANGED overrun
     ELSE overrun' = TRUE /\ UNCHANGED <<state, buffer, ps, last>>

Receive(c, room) ==
  /\ ~overrun
  /\ \/ OpenFrame(c)
     \/ IgnoreByte(c)
     \/ CollectByte(c)
     \/ AbandonFrame(c)
     \/ CloseFrame(c, room)

FrameInit ==
  /\ state = 0
  /\ buffer = <<>>
  /\ ps = Fresh
  /\ overrun = FALSE
  /\ last = NoFrame

\* The parser under every sequence of bytes that fits its buffer.
AnyByte == \E c \in Alphabet, room \in BOOLEAN :
  /\ c \in {"dollar", "junk"} \/ Len(buffer) < BufferSize - 1
  /\ Receive(c, room)
ParserSpec == FrameInit /\ [][AnyByte]_fvars

-----------------------------------------------------------------------------
\* What a frame is, declared without the machine: two digits, two numbers of
\* less than DegMax digits and points, one digit, each but the last with its
\* comma, and the '$'.
IsNumber(s) == Len(s) < DegMax /\ \A i \in 1..Len(s) : s[i] \in {"digit", "dot"}
Text(m) ==
  m.peerID \o <<"comma">> \o m.longitude \o <<"comma">> \o m.latitude
    \o <<"comma">> \o m.msgID \o <<"dollar">>
IsMessage(m) ==
  /\ m.peerID = <<"digit", "digit">>
  /\ IsNumber(m.longitude) /\ IsNumber(m.latitude)
  /\ m.msgID = <<"digit">>
WellFormed(s) ==
  \E a, b \in 0..(DegMax - 1) :
    /\ Len(s) = a + b + 7
    /\ IsMessage([peerID |-> SubSeq(s, 1, 2), longitude |-> SubSeq(s, 4, 3 + a),
                  latitude |-> SubSeq(s, 5 + a, 4 + a + b),
                  msgID |-> SubSeq(s, 6 + a + b, 6 + a + b)])
    /\ s[3] = "comma" /\ s[4 + a] = "comma" /\ s[5 + a + b] = "comma"
    /\ s[7 + a + b] = "dollar"

TypeOK ==
  /\ state \in {0, 1}
  /\ buffer \in Seq(Classes) /\ Len(buffer) <= BufferSize
  /\ ps.table \in 0..4 /\ Len(ps.token) < TokenSize
  /\ overrun \in BOOLEAN
  /\ last.room \in BOOLEAN

\* No state of the table parser survives a frame: whatever a frame held, and
\* whether its message could be posted, the next one is parsed from the start.
\* (The cleanup at the end of a frame resets the fields only; it is the '$',
\* which no partial match accepts, that brings the table back to its start.)
NothingLeaksBetweenFrames == ~overrun => ps = Fresh

\* What is posted, when there is room, is a message, and its text is the end of its frame: its
\* four fields were parsed from this frame, in this order, nothing between
\* them was skipped.  It need not be the whole frame: the parser starts over
\* in the middle of a frame at the byte after a mismatch.
PostedIsEndOfFrame ==
  \A m \in last.posted :
    /\ last.room /\ IsMessage(m)
    /\ \E n \in 1..Len(last.text) : Text(m) = SubSeq(last.text, n, Len(last.text))

\* Every well-formed frame is posted whole when there is room.
WellFormedIsPosted ==
  WellFormed(last.text) /\ last.room =>
    \E m \in last.posted : Text(m) = last.text
=============================================================================
