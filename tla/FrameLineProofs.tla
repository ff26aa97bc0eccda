-------------------------- MODULE FrameLineProofs --------------------------
(***************************************************************************)
(* From bytes to messages, for every alphabet, frame and size: what the    *)
(* table-driven parser has taken of a frame is at every byte the end of    *)
(* what it was given (Parsed), and a well-formed frame takes it from table *)
(* state to table state without a failure (OnTrack).  On a link, the line  *)
(* fills no more of the buffer than the frame and the strays (Room), and a *)
(* whole frame is at every byte split between the two (Whole).             *)
(* The parser's loop is a recursion over the buffer; its invariants are    *)
(* shown by induction, from the least counterexample.                      *)
(***************************************************************************)
EXTENDS FrameLine, TLAPS, SequenceTheorems, WellFoundedInduction

-----------------------------------------------------------------------------
\* Induction over a set of numbers, without an operator as parameter.
LEMMA Induction ==
  ASSUME NEW S, 0 \in S, \A n \in Nat : n \in S => n + 1 \in S
  PROVE  \A n \in Nat : n \in S
<1> DEFINE T == Nat \ S
<1>1. SUFFICES ASSUME T # {} PROVE FALSE
  OBVIOUS
<1>2. IsWellFoundedOn(OpToRel(<, Nat), Nat)
  BY NatLessThanWellFounded
<1>3. PICK x \in T : \A y \in T : ~(<<y, x>> \in OpToRel(<, Nat))
  <2>1. T \subseteq Nat
    OBVIOUS
  <2> QED  BY <1>1, <1>2, <2>1, WFMin
<1>4. \A y \in T : ~(y < x)
  BY <1>3 DEF OpToRel
<1>5. x # 0 /\ x - 1 \in Nat
  OBVIOUS
<1>6. x - 1 \in S
  BY <1>4, <1>5
<1>7. (x - 1) + 1 \in S
  BY <1>5, <1>6
<1> QED  BY <1>7

\* q[k] is the parser after k bytes of text.
IsRun(q, p, text, room, n) ==
  q = [k \in 0..n |-> IF k = 0 THEN p ELSE StepParser(q[k-1], text[k], room)]

LEMMA RunExists ==
  ASSUME NEW p, NEW text, NEW room
  PROVE  \A n \in Nat : \E q : IsRun(q, p, text, room, n)
<1> DEFINE S == {n \in Nat : \E q : IsRun(q, p, text, room, n)}
<1>1. 0 \in S
  <2>1. IsRun([k \in 0..0 |-> p], p, text, room, 0)
    BY DEF IsRun
  <2> QED  BY <2>1
<1>2. ASSUME NEW n \in Nat, n \in S PROVE n + 1 \in S
  <2>1. PICK q : IsRun(q, p, text, room, n)
    BY <1>2
  <2> DEFINE g == [k \in 0..(n+1) |->
                     IF k <= n THEN q[k] ELSE StepParser(q[n], text[n+1], room)]
  <2>2. ASSUME NEW k \in 0..(n+1)
        PROVE  g[k] = IF k = 0 THEN p ELSE StepParser(g[k-1], text[k], room)
    <3>1. CASE k = 0
      BY <2>1, <3>1 DEF IsRun
    <3>2. CASE k \in 1..n
      <4>1. g[k] = q[k] /\ g[k-1] = q[k-1]
        BY <3>2
      <4>2. q[k] = StepParser(q[k-1], text[k], room)
        BY <2>1, <3>2 DEF IsRun
      <4> QED  BY <3>2, <4>1, <4>2
    <3>3. CASE k = n + 1
      <4>1. /\ g[k] = StepParser(q[n], text[n+1], room)
            /\ g[n] = q[n] /\ k - 1 = n /\ k # 0
        BY <3>3
      <4> HIDE DEF g
      <4> QED  BY <3>3, <4>1
    <3> QED  BY <3>1, <3>2, <3>3
  <2>3. IsRun(g, p, text, room, n + 1)
    <3>1. g = [k \in 0..(n+1) |-> g[k]]
      OBVIOUS
    <3> HIDE DEF g
    <3> QED  BY <2>2, <3>1, Zenon DEF IsRun
  <2> QED  BY <2>3
<1>3. \A n \in Nat : n \in S
  <2> HIDE DEF S
  <2> QED  BY <1>1, <1>2, Induction
<1> QED  BY <1>3

LEMMA ParseIsRun ==
  ASSUME NEW p, NEW text, NEW room, Len(text) \in Nat
  PROVE  \E q : /\ IsRun(q, p, text, room, Len(text))
                /\ ParseFrame(p, text, room) = q[Len(text)]
<1> DEFINE q == CHOOSE f : IsRun(f, p, text, room, Len(text))
<1>1. \E f : IsRun(f, p, text, room, Len(text))
  BY RunExists
<1>2. IsRun(q, p, text, room, Len(text))
  BY <1>1
<1>3. ParseFrame(p, text, room) = q[Len(text)]
  BY Zenon DEF ParseFrame, IsRun
<1> HIDE DEF q
<1> QED  BY <1>2, <1>3

-----------------------------------------------------------------------------
\* The states of the table parser.
Texts == Seq(Classes \cup {"invalid"})
FieldRecords == [peerID : Texts, longitude : Texts, latitude : Texts, msgID : Texts]
Parsers ==
  [table : 0..4, token : Seq(Classes), fields : FieldRecords,
   posted : SUBSET FieldRecords]

Collect(q, c) == [q EXCEPT !.token = Append(q.token, c)]

LEMMA Sizes ==
  /\ BufferSize \in Nat /\ DegMax \in Nat /\ TokenSize \in Nat
  /\ 0 < DegMax /\ DegMax < TokenSize /\ 3 < TokenSize
BY FrameParserAssumption, TokenAssumption

LEMMA FrontOfAppend ==
  ASSUME NEW s \in Seq(Classes), NEW c \in Classes
  PROVE  Front(Append(s, c)) = s
<1>1. Append(s, c) \in Seq(Classes) /\ Len(Append(s, c)) = Len(s) + 1
  OBVIOUS
<1>2. \A i \in 1..Len(s) : Append(s, c)[i] = s[i]
  OBVIOUS
<1> QED  BY <1>1, <1>2 DEF Front

\* The matchers by row, position and byte.
LEMMA MatchCases ==
  ASSUME NEW table \in 0..4, NEW c \in Classes, NEW n \in Nat
  PROVE  /\ Match(table, c, n) = "partial" <=>
              \/ table = 0 /\ n < 2 /\ c = "digit"
              \/ table \in {1, 2} /\ n < DegMax /\ c \in {"digit", "dot"}
         /\ Match(table, c, n) = "success" <=>
              \/ table = 0 /\ n = 2 /\ c = "comma"
              \/ table \in {1, 2} /\ n < DegMax /\ c = "comma"
              \/ table = 3 /\ c = "digit"
              \/ table = 4 /\ c = "dollar"
<1>1. CASE table = 0
  BY <1>1 DEF Match, MatchMsgID
<1>2. CASE table \in {1, 2}
  BY <1>2 DEF Match, MatchDegMin
<1>3. CASE table = 3
  BY <1>3 DEF Match, MatchOne
<1>4. CASE table = 4
  BY <1>4 DEF Match, MatchOne
<1> QED  BY <1>1, <1>2, <1>3, <1>4

LEMMA SuccessCases ==
  ASSUME NEW q \in Parsers, NEW c \in Classes, NEW room
  PROVE  LET r == Success(q, Append(q.token, c), room)
         IN  /\ q.table < 3 => r = Store(q, q.token)
             /\ q.table = 3 => r = Store(q, Append(q.token, c))
             /\ q.table = 4 => r = IF room THEN Post(q) ELSE Failure(q)
<1> DEFINE token == Append(q.token, c)
<1>1. q.table \in 0..4 /\ q.token \in Seq(Classes)
  BY DEF Parsers
<1>2. FieldText(q.table, token) = IF q.table = 3 THEN token ELSE q.token
  BY <1>1, FrontOfAppend DEF FieldText
<1>3. q.table < 4 => Success(q, token, room) = Store(q, FieldText(q.table, token))
  BY DEF Success
<1>4. q.table = 4 => Success(q, token, room) = IF room THEN Post(q) ELSE Failure(q)
  BY DEF Success
<1> HIDE DEF token
<1> QED  BY <1>1, <1>2, <1>3, <1>4 DEF token

\* What one byte does to the parser: the rows of the table.  It fails unless
\* the row takes it.
Goes(q, c) ==
  /\ Len(q.token) < TokenSize - 1
  /\ \/ q.table = 0 /\ Len(q.token) < 2 /\ c = "digit"
     \/ q.table \in {1, 2} /\ Len(q.token) < DegMax /\ c \in {"digit", "dot"}
Ends(q, c) ==
  /\ Len(q.token) < TokenSize - 1
  /\ \/ q.table = 0 /\ Len(q.token) = 2 /\ c = "comma"
     \/ q.table \in {1, 2} /\ Len(q.token) < DegMax /\ c = "comma"

LEMMA StepCases ==
  ASSUME NEW q \in Parsers, NEW c \in Classes, NEW room, NEW r,
         r = StepParser(q, c, room)
  PROVE  LET n == Len(q.token)
         IN  /\ Goes(q, c) => r = Collect(q, c)
             /\ Ends(q, c) => r = Store(q, q.token)
             /\ q.table = 3 /\ n < TokenSize - 1 /\ c = "digit" =>
                  r = Store(q, Append(q.token, c))
             /\ q.table = 4 /\ n < TokenSize - 1 /\ c = "dollar" /\ room => r = Post(q)
             /\ \/ r = Failure(q) \/ Goes(q, c) \/ Ends(q, c)
                \/ q.table = 3 /\ n < TokenSize - 1 /\ c = "digit"
                \/ q.table = 4 /\ n < TokenSize - 1 /\ c = "dollar" /\ room
<1> DEFINE n == Len(q.token)
           m == Match(q.table, c, n)
           token == Append(q.token, c)
           s == Success(q, token, room)
<1>1. q.table \in 0..4 /\ n \in Nat
  BY DEF Parsers
<1>2. r = IF n < TokenSize - 1 /\ m = "partial" THEN Collect(q, c)
          ELSE IF n < TokenSize - 1 /\ m = "success" THEN s
          ELSE Failure(q)
  BY <1>1, Sizes DEF StepParser, Collect
<1>3. /\ m = "partial" <=> \/ q.table = 0 /\ n < 2 /\ c = "digit"
                           \/ q.table \in {1, 2} /\ n < DegMax /\ c \in {"digit", "dot"}
      /\ m = "success" <=> \/ q.table = 0 /\ n = 2 /\ c = "comma"
                           \/ q.table \in {1, 2} /\ n < DegMax /\ c = "comma"
                           \/ q.table = 3 /\ c = "digit"
                           \/ q.table = 4 /\ c = "dollar"
  BY <1>1, MatchCases
<1>4. /\ q.table < 3 => s = Store(q, q.token)
      /\ q.table = 3 => s = Store(q, token)
      /\ q.table = 4 => s = IF room THEN Post(q) ELSE Failure(q)
  BY SuccessCases
<1>5. Goes(q, c) <=> n < TokenSize - 1 /\ m = "partial"
  BY <1>3 DEF Goes
<1>6. Ends(q, c) <=> n < TokenSize - 1 /\ m = "success" /\ q.table < 3
  BY <1>1, <1>3 DEF Ends
<1>7. m = "success" => m # "partial"
  OBVIOUS
<1> HIDE DEF m, s, token
<1>8. Goes(q, c) => r = Collect(q, c)
  BY <1>2, <1>5
<1>9. Ends(q, c) => r = Store(q, q.token)
  BY <1>2, <1>4, <1>6, <1>7
<1>10. q.table = 3 /\ n < TokenSize - 1 /\ c = "digit" => r = Store(q, token)
  BY <1>2, <1>3, <1>4, <1>7
<1>11. q.table = 4 /\ n < TokenSize - 1 /\ c = "dollar" /\ room => r = Post(q)
  BY <1>2, <1>3, <1>4, <1>7
<1>12. \/ r = Failure(q) \/ Goes(q, c) \/ Ends(q, c)
       \/ q.table = 3 /\ n < TokenSize - 1 /\ c = "digit"
       \/ q.table = 4 /\ n < TokenSize - 1 /\ c = "dollar" /\ room
  BY <1>1, <1>2, <1>3, <1>4, <1>5, <1>6
<1> QED  BY <1>8, <1>9, <1>10, <1>11, <1>12 DEF token

-----------------------------------------------------------------------------
\* The text of the rows that are done, as Text puts a message together.
Through(f) == f.peerID \o <<"comma">>
Done2(f) == Through(f) \o f.longitude \o <<"comma">>
Done3(f) == Done2(f) \o f.latitude \o <<"comma">>
Done4(f) == Done3(f) \o f.msgID
Done(q) ==
  IF q.table = 0 THEN <<>> ELSE IF q.table = 1 THEN Through(q.fields)
  ELSE IF q.table = 2 THEN Done2(q.fields) ELSE IF q.table = 3 THEN Done3(q.fields)
  ELSE Done4(q.fields)

\* What the rows that are done have stored, and how far the present one has got.
DigitsOrDots(s) == \A i \in 1..Len(s) : s[i] \in {"digit", "dot"}
StoredShape(q) ==
  /\ q.table >= 1 => q.fields.peerID = <<"digit", "digit">>
  /\ q.table >= 2 => q.fields.longitude \in Seq(Classes) /\ IsNumber(q.fields.longitude)
  /\ q.table >= 3 => q.fields.latitude \in Seq(Classes) /\ IsNumber(q.fields.latitude)
  /\ q.table = 4 => q.fields.msgID = <<"digit">>
TokenShape(q) ==
  /\ Len(q.token) < TokenSize
  /\ q.table = 0 => Len(q.token) <= 2 /\ \A i \in 1..Len(q.token) : q.token[i] = "digit"
  /\ q.table \in {1, 2} => Len(q.token) <= DegMax /\ DigitsOrDots(q.token)
  /\ q.table \in {3, 4} => q.token = <<>>
Shape(q) == q \in Parsers /\ StoredShape(q) /\ TokenShape(q)

\* The end of what the parser was given is what it has taken.
Parsed(q, t) == \E u \in Seq(Classes) : t = u \o (Done(q) \o q.token)

LEMMA ClassNames ==
  /\ "comma" \in Classes /\ "digit" \in Classes /\ "dollar" \in Classes
  /\ <<"comma">> \in Seq(Classes) /\ <<"dollar">> \in Seq(Classes)
  /\ <<"digit", "digit">> \in Seq(Classes) /\ <<"digit">> \in Seq(Classes)
BY DEF Classes

\* Every field that a row has stored is a text of classes, and so is Done.
LEMMA DoneIsText ==
  ASSUME NEW q, Shape(q)
  PROVE  Done(q) \in Seq(Classes) /\ q.token \in Seq(Classes) /\ q.table \in 0..4
<1> DEFINE f == q.fields
<1>1. q.token \in Seq(Classes) /\ q.table \in 0..4
  BY DEF Shape, Parsers
<1>2. q.table >= 1 => Through(f) \in Seq(Classes)
  <2>1. SUFFICES ASSUME q.table >= 1 PROVE Through(f) \in Seq(Classes)
    OBVIOUS
  <2>2. f.peerID \in Seq(Classes)
    BY <2>1, ClassNames DEF Shape, StoredShape
  <2> QED  BY <2>2, ClassNames DEF Through
<1>3. q.table >= 2 => Done2(f) \in Seq(Classes)
  <2>1. SUFFICES ASSUME q.table >= 2 PROVE Done2(f) \in Seq(Classes)
    OBVIOUS
  <2>2. Through(f) \in Seq(Classes) /\ f.longitude \in Seq(Classes)
    BY <1>1, <1>2, <2>1 DEF Shape, StoredShape
  <2> QED  BY <2>2, ClassNames DEF Done2
<1>4. q.table >= 3 => Done3(f) \in Seq(Classes)
  <2>1. SUFFICES ASSUME q.table >= 3 PROVE Done3(f) \in Seq(Classes)
    OBVIOUS
  <2>2. Done2(f) \in Seq(Classes) /\ f.latitude \in Seq(Classes)
    BY <1>1, <1>3, <2>1 DEF Shape, StoredShape
  <2> QED  BY <2>2, ClassNames DEF Done3
<1>5. q.table = 4 => Done4(f) \in Seq(Classes)
  <2>1. SUFFICES ASSUME q.table = 4 PROVE Done4(f) \in Seq(Classes)
    OBVIOUS
  <2>2. Done3(f) \in Seq(Classes) /\ f.msgID \in Seq(Classes)
    <3>1. f.msgID = <<"digit">> /\ q.table >= 3
      BY <2>1 DEF Shape, StoredShape
    <3> QED  BY <1>4, <3>1, ClassNames
  <2> QED  BY <2>2 DEF Done4
<1> QED  BY <1>1, <1>2, <1>3, <1>4, <1>5 DEF Done

LEMMA Associative ==
  ASSUME NEW a \in Seq(Classes), NEW b \in Seq(Classes), NEW c \in Seq(Classes)
  PROVE  a \o (b \o c) = (a \o b) \o c
BY ConcatAssociative

LEMMA ByteAppended ==
  ASSUME NEW s \in Seq(Classes), NEW c \in Classes
  PROVE  Append(s, c) = s \o <<c>> /\ Append(s, c) \in Seq(Classes)
OBVIOUS

\* A failure has taken nothing yet.
LEMMA FailureStep ==
  ASSUME NEW q \in Parsers, NEW t \in Seq(Classes), NEW r, r = Failure(q)
  PROVE  Shape(r) /\ Parsed(r, t) /\ r.posted = q.posted /\ r.table = 0 /\ r.token = <<>>
<1>1. r.table = 0 /\ r.token = <<>> /\ r.posted = q.posted
  BY DEF Failure, Parsers
<1>2. NoFields \in FieldRecords
  BY DEF NoFields, FieldRecords, Texts, INVALID_XBEE_DATA
<1>3. r \in Parsers
  <2>1. 0 \in 0..4 /\ <<>> \in Seq(Classes)
    OBVIOUS
  <2> HIDE DEF NoFields
  <2> QED  BY <1>2, <2>1 DEF Failure, Parsers
<1>4. StoredShape(r) /\ TokenShape(r)
  BY <1>1, Sizes DEF StoredShape, TokenShape
<1>5. Done(r) = <<>> /\ t = t \o (<<>> \o <<>>)
  BY <1>1 DEF Done
<1> QED  BY <1>1, <1>3, <1>4, <1>5 DEF Shape, Parsed

\* A byte that goes on with a row.
LEMMA CollectStep ==
  ASSUME NEW q, Shape(q), NEW t \in Seq(Classes), Parsed(q, t), NEW c \in Classes,
         Goes(q, c),
         NEW r, r = Collect(q, c)
  PROVE  /\ Shape(r) /\ Parsed(r, Append(t, c)) /\ r.posted = q.posted
         /\ r.token = Append(q.token, c) /\ r.table = q.table /\ Done(r) = Done(q)
<1> DEFINE token == Append(q.token, c)
<1>0. /\ q \in Parsers /\ Len(q.token) < TokenSize - 1
      /\ \/ q.table = 0 /\ Len(q.token) < 2 /\ c = "digit"
         \/ q.table \in {1, 2} /\ Len(q.token) < DegMax /\ c \in {"digit", "dot"}
  BY DEF Shape, Goes
<1>1. /\ r.table = q.table /\ r.token = token /\ r.fields = q.fields
      /\ r.posted = q.posted /\ r \in Parsers
  <2>1. token \in Seq(Classes)
    BY <1>0 DEF Parsers
  <2> HIDE DEF token
  <2> QED  BY <1>0, <2>1 DEF Collect, Parsers, token
<1>2. Done(q) \in Seq(Classes) /\ q.token \in Seq(Classes)
  BY DoneIsText
<1>3. /\ Len(token) = Len(q.token) + 1 /\ Len(q.token) \in Nat
      /\ \A i \in 1..Len(token) : token[i] = IF i = Len(token) THEN c ELSE q.token[i]
  BY <1>2
<1>4. StoredShape(r) /\ Done(r) = Done(q)
  BY <1>1 DEF Shape, StoredShape, Done
<1>5. TokenShape(r)
  <2> HIDE DEF token
  <2>1. Len(token) < TokenSize
    BY <1>0, <1>3, Sizes
  <2>2. CASE q.table = 0
    <3>1. Len(token) <= 2
      BY <1>0, <1>3, <2>2
    <3>2. \A i \in 1..Len(token) : token[i] = "digit"
      BY <1>0, <1>3, <2>2 DEF Shape, TokenShape
    <3> QED  BY <1>1, <2>1, <2>2, <3>1, <3>2 DEF TokenShape
  <2>3. CASE q.table \in {1, 2}
    <3>1. Len(token) <= DegMax
      BY <1>0, <1>3, <2>3, Sizes
    <3>2. DigitsOrDots(token)
      BY <1>0, <1>3, <2>3 DEF Shape, TokenShape, DigitsOrDots
    <3> QED  BY <1>1, <2>1, <2>3, <3>1, <3>2 DEF TokenShape
  <2> QED  BY <1>0, <2>2, <2>3
<1>6. Parsed(r, Append(t, c))
  <2>1. PICK u \in Seq(Classes) : t = u \o (Done(q) \o q.token)
    BY DEF Parsed
  <2>2. Append(t, c) = (u \o (Done(q) \o q.token)) \o <<c>>
    BY <2>1, ByteAppended
  <2>3. @ = u \o (Done(q) \o (q.token \o <<c>>))
    <3>1. Done(q) \o q.token \in Seq(Classes) /\ <<c>> \in Seq(Classes)
      BY <1>2
    <3>2. (u \o (Done(q) \o q.token)) \o <<c>> = u \o ((Done(q) \o q.token) \o <<c>>)
      BY <3>1, Associative
    <3>3. (Done(q) \o q.token) \o <<c>> = Done(q) \o (q.token \o <<c>>)
      BY <1>2, <3>1, Associative
    <3> QED  BY <3>2, <3>3
  <2>4. @ = u \o (Done(r) \o r.token)
    BY <1>1, <1>2, <1>4, ByteAppended
  <2> QED  BY <2>2, <2>3, <2>4 DEF Parsed
<1> QED  BY <1>1, <1>4, <1>5, <1>6 DEF Shape

\* The byte that ends a row.
LEMMA StoreFields ==
  ASSUME NEW q \in Parsers, q.table < 4, NEW text \in Seq(Classes),
         NEW r, r = Store(q, text)
  PROVE  /\ r \in Parsers /\ r.table = q.table + 1 /\ r.token = <<>>
         /\ r.posted = q.posted
         /\ q.table = 0 => r.fields.peerID = text
         /\ q.table = 1 => /\ r.fields.peerID = q.fields.peerID
                           /\ r.fields.longitude = text
         /\ q.table = 2 => /\ r.fields.peerID = q.fields.peerID
                           /\ r.fields.longitude = q.fields.longitude
                           /\ r.fields.latitude = text
         /\ q.table = 3 => /\ r.fields.peerID = q.fields.peerID
                           /\ r.fields.longitude = q.fields.longitude
                           /\ r.fields.latitude = q.fields.latitude
                           /\ r.fields.msgID = text
<1> DEFINE name == FieldNames[q.table + 1]
           g == [q.fields EXCEPT ![name] = text]
<1>1. q.table \in {0, 1, 2, 3} /\ q.fields \in FieldRecords
  BY DEF Parsers
<1>2. text \in Texts
  BY DEF Texts
<1>3. name = IF q.table = 0 THEN "peerID" ELSE IF q.table = 1 THEN "longitude"
             ELSE IF q.table = 2 THEN "latitude" ELSE "msgID"
  BY <1>1 DEF FieldNames
<1>4. g \in FieldRecords
  <2> HIDE DEF name
  <2> QED  BY <1>1, <1>2, <1>3 DEF FieldRecords
<1>5. r.table = q.table + 1 /\ r.token = <<>> /\ r.fields = g /\ r.posted = q.posted
  BY DEF Store, Parsers
<1>6. r \in Parsers
  <2>1. q.table + 1 \in 0..4 /\ <<>> \in Seq(Classes)
    BY <1>1
  <2> HIDE DEF g, name
  <2> QED  BY <1>4, <2>1 DEF Store, Parsers, g, name
<1>7. /\ g.peerID = IF q.table = 0 THEN text ELSE q.fields.peerID
      /\ g.longitude = IF q.table = 1 THEN text ELSE q.fields.longitude
      /\ g.latitude = IF q.table = 2 THEN text ELSE q.fields.latitude
      /\ g.msgID = IF q.table = 3 THEN text ELSE q.fields.msgID
  <2> HIDE DEF name
  <2> QED  BY <1>1, <1>3 DEF FieldRecords
<1> HIDE DEF g
<1> QED  BY <1>1, <1>5, <1>6, <1>7

\* The taken text grows by the token and what ends it.
LEMMA Regroup ==
  ASSUME NEW u \in Seq(Classes), NEW a \in Seq(Classes), NEW b \in Seq(Classes),
         NEW c \in Classes
  PROVE  Append(u \o (a \o b), c) = u \o (((a \o b) \o <<c>>) \o <<>>)
<1>1. a \o b \in Seq(Classes) /\ <<c>> \in Seq(Classes)
  OBVIOUS
<1>2. (a \o b) \o <<c>> \in Seq(Classes) /\ u \o (a \o b) \in Seq(Classes)
  BY <1>1
<1>3. ((a \o b) \o <<c>>) \o <<>> = (a \o b) \o <<c>>
  BY <1>2
<1>4. Append(u \o (a \o b), c) = (u \o (a \o b)) \o <<c>>
  BY <1>2, ByteAppended
<1>5. @ = u \o ((a \o b) \o <<c>>)
  BY <1>1, Associative
<1> QED  BY <1>3, <1>4, <1>5

Stores(q, c, r) ==
  \/ /\ r = Store(q, q.token) /\ c = "comma"
     /\ \/ q.table = 0 /\ Len(q.token) = 2
        \/ q.table \in {1, 2} /\ Len(q.token) < DegMax
  \/ r = Store(q, Append(q.token, c)) /\ q.table = 3 /\ c = "digit"

LEMMA StoreStep ==
  ASSUME NEW q, Shape(q), NEW t \in Seq(Classes), Parsed(q, t), NEW c \in Classes, NEW r,
         Stores(q, c, r)
  PROVE  /\ Shape(r) /\ Parsed(r, Append(t, c)) /\ r.posted = q.posted
         /\ r.table = q.table + 1 /\ r.token = <<>>
         /\ Done(r) = (Done(q) \o q.token) \o <<c>>
<1> USE DEF Stores
<1>0. /\ q \in Parsers /\ q.table \in {0, 1, 2, 3} /\ q.token \in Seq(Classes)
      /\ Done(q) \in Seq(Classes)
  BY DoneIsText DEF Shape
<1>1. q.token \in Seq(Classes) /\ Append(q.token, c) \in Seq(Classes)
  BY <1>0
<1>2. r \in Parsers /\ r.table = q.table + 1 /\ r.token = <<>> /\ r.posted = q.posted
  <2>1. PICK text \in Seq(Classes) : r = Store(q, text)
    BY <1>1
  <2>2. q.table < 4
    BY <1>0
  <2> QED  BY <1>0, <2>1, <2>2, StoreFields
<1>3. StoredShape(r) /\ Done(r) = (Done(q) \o q.token) \o <<c>>
  <2>1. CASE q.table = 0
    <3>1. r.fields.peerID = q.token /\ r.table = 1 /\ c = "comma"
      BY <1>0, <1>2, <2>1, StoreFields
    <3>2. q.token = <<"digit", "digit">>
      <4>1. Len(q.token) = 2 /\ \A i \in 1..2 : q.token[i] = "digit"
        BY <2>1 DEF Shape, TokenShape
      <4> QED  BY <1>0, <4>1, ClassNames, SeqEqual
    <3>3. <<>> \o q.token = q.token
      BY <1>0
    <3> QED  BY <2>1, <3>1, <3>2, <3>3 DEF StoredShape, Done, Through
  <2>2. CASE q.table = 1
    <3>1. /\ r.fields.peerID = q.fields.peerID /\ r.fields.longitude = q.token
          /\ r.table = 2 /\ c = "comma"
      BY <1>0, <1>2, <2>2, StoreFields
    <3>2. IsNumber(q.token)
      BY <2>2 DEF Shape, TokenShape, DigitsOrDots, IsNumber
    <3>3. StoredShape(r)
      BY <1>0, <2>2, <3>1, <3>2 DEF Shape, StoredShape
    <3> QED  BY <2>2, <3>1, <3>3 DEF Done, Through, Done2
  <2>3. CASE q.table = 2
    <3>1. /\ r.fields.peerID = q.fields.peerID /\ r.fields.longitude = q.fields.longitude
          /\ r.fields.latitude = q.token /\ r.table = 3 /\ c = "comma"
      BY <1>0, <1>2, <2>3, StoreFields
    <3>2. IsNumber(q.token)
      BY <2>3 DEF Shape, TokenShape, DigitsOrDots, IsNumber
    <3>3. StoredShape(r)
      BY <1>0, <2>3, <3>1, <3>2 DEF Shape, StoredShape
    <3> QED  BY <2>3, <3>1, <3>3 DEF Done, Through, Done2, Done3
  <2>4. CASE q.table = 3
    <3>1. q.token = <<>> /\ c = "digit" /\ r = Store(q, Append(q.token, c))
      BY <2>4 DEF Shape, TokenShape
    <3>2. /\ r.fields.peerID = q.fields.peerID /\ r.fields.longitude = q.fields.longitude
          /\ r.fields.latitude = q.fields.latitude /\ r.fields.msgID = <<"digit">>
          /\ r.table = 4
      <4>1. PICK text \in Seq(Classes) : text = Append(q.token, c)
        BY <1>1
      <4>2. q.table < 4 /\ r = Store(q, text)
        BY <2>4, <3>1, <4>1
      <4>3. text = <<"digit">>
        BY <3>1, <4>1
      <4>4. r.table = 4
        BY <1>2, <2>4
      <4>5. /\ r.fields.peerID = q.fields.peerID /\ r.fields.longitude = q.fields.longitude
            /\ r.fields.latitude = q.fields.latitude /\ r.fields.msgID = text
        BY <1>0, <2>4, <4>2, StoreFields
      <4> QED  BY <4>3, <4>4, <4>5
    <3>3. StoredShape(r)
      BY <1>0, <2>4, <3>2 DEF Shape, StoredShape
    <3>4. Done(q) \o <<>> = Done(q)
      BY <1>0
    <3>5. Done(q) = Done3(q.fields) /\ Done(r) = Done3(r.fields) \o r.fields.msgID
      BY <2>4, <3>2 DEF Done, Done4
    <3>6. Done3(r.fields) = Done3(q.fields)
      BY <3>2 DEF Through, Done2, Done3
    <3>7. Done(r) = (Done(q) \o q.token) \o <<c>>
      BY <3>1, <3>2, <3>4, <3>5, <3>6
    <3> QED  BY <3>3, <3>7
  <2> QED  BY <1>0, <2>1, <2>2, <2>3, <2>4
<1>4. TokenShape(r)
  BY <1>2, Sizes DEF TokenShape, DigitsOrDots
<1>5. Parsed(r, Append(t, c))
  <2>1. PICK u \in Seq(Classes) : t = u \o (Done(q) \o q.token)
    BY DEF Parsed
  <2>2. Append(t, c) = u \o (((Done(q) \o q.token) \o <<c>>) \o <<>>)
    BY <1>0, <2>1, Regroup
  <2> QED  BY <1>2, <1>3, <2>2 DEF Parsed
<1> QED  BY <1>2, <1>3, <1>4, <1>5 DEF Shape

\* The '$' that posts.
LEMMA PostStep ==
  ASSUME NEW q, Shape(q), q.table = 4, NEW t \in Seq(Classes), Parsed(q, t),
         NEW r, r = Post(q)
  PROVE  /\ Shape(r) /\ Parsed(r, Append(t, "dollar"))
         /\ r.table = 0 /\ r.token = <<>> /\ r.posted = {q.fields}
         /\ IsMessage(q.fields) /\ Text(q.fields) = Done(q) \o <<"dollar">>
         /\ Text(q.fields) \in Seq(Classes) /\ Text(q.fields) # <<>>
         /\ \E u \in Seq(Classes) : Append(t, "dollar") = u \o Text(q.fields)
<1>1. q \in Parsers /\ q.fields \in FieldRecords /\ q.token = <<>> /\ Done(q) \in Seq(Classes)
  BY DoneIsText DEF Shape, Parsers, TokenShape
<1>2. r.table = 0 /\ r.token = <<>> /\ r.posted = {q.fields}
  BY <1>1 DEF Post, Parsers
<1>3. r \in Parsers
  <2>1. 0 \in 0..4 /\ <<>> \in Seq(Classes) /\ {q.fields} \in SUBSET FieldRecords
    BY <1>1
  <2> QED  BY <1>1, <2>1 DEF Post, Parsers
<1>4. StoredShape(r) /\ TokenShape(r)
  BY <1>2, Sizes DEF StoredShape, TokenShape
<1>5. Append(t, "dollar") \in Seq(Classes)
  BY ClassNames
<1>6. Parsed(r, Append(t, "dollar"))
  <2>1. Append(t, "dollar") = Append(t, "dollar") \o (<<>> \o <<>>)
    BY <1>5
  <2> QED  BY <1>2, <1>5, <2>1 DEF Parsed, Done
<1>7. Text(q.fields) = Done(q) \o <<"dollar">>
  BY DEF Text, Done, Through, Done2, Done3, Done4
<1>8. IsMessage(q.fields)
  BY <1>1 DEF Shape, StoredShape, IsMessage
<1>9. \E u \in Seq(Classes) : Append(t, "dollar") = u \o Text(q.fields)
  <2>1. PICK u \in Seq(Classes) : t = u \o (Done(q) \o q.token)
    BY DEF Parsed
  <2>2. Done(q) \o q.token = Done(q)
    BY <1>1
  <2>3. Append(t, "dollar") = (u \o Done(q)) \o <<"dollar">>
    BY <2>1, <2>2, ByteAppended, ClassNames
  <2>4. @ = u \o Text(q.fields)
    BY <1>1, <1>7, ClassNames, Associative
  <2> QED  BY <2>3, <2>4
<1>10. Text(q.fields) \in Seq(Classes) /\ Text(q.fields) # <<>>
  BY <1>1, <1>7, ClassNames
<1> QED  BY <1>2, <1>3, <1>4, <1>6, <1>7, <1>8, <1>9, <1>10 DEF Shape

\* What a byte c after text t leaves: the parser has still taken the end of
\* what it was given, only a '$' has posted, and that a message which the text
\* ends with; after it the parser is at its start.
Kept(r, t, c, room) ==
  /\ Shape(r) /\ Parsed(r, Append(t, c))
  /\ c # "dollar" => r.posted = {}
  /\ c = "dollar" => r.table = 0 /\ r.token = <<>>
  /\ \A m \in r.posted :
       /\ room /\ IsMessage(m) /\ Text(m) \in Seq(Classes) /\ Text(m) # <<>>
       /\ \E u \in Seq(Classes) : Append(t, c) = u \o Text(m)

LEMMA ByteStep ==
  ASSUME NEW q, Shape(q), NEW t \in Seq(Classes), Parsed(q, t), q.posted = {},
         NEW c \in Classes, NEW room, NEW r, r = StepParser(q, c, room)
  PROVE  Kept(r, t, c, room)
<1>1. q \in Parsers /\ Append(t, c) \in Seq(Classes)
  BY DEF Shape
<1>2. CASE r = Failure(q)
  <2>1. Shape(r) /\ Parsed(r, Append(t, c)) /\ r.posted = {} /\ r.table = 0 /\ r.token = <<>>
    BY <1>1, <1>2, FailureStep
  <2> QED  BY <2>1 DEF Kept
<1>3. CASE Goes(q, c)
  <2>1. r = Collect(q, c) /\ c # "dollar"
    BY <1>1, <1>3, StepCases DEF Goes
  <2>2. Shape(r) /\ Parsed(r, Append(t, c)) /\ r.posted = {}
    BY <1>3, <2>1, CollectStep
  <2> QED  BY <2>1, <2>2 DEF Kept
<1>4. CASE Ends(q, c)
  <2>1. r = Store(q, q.token)
    BY <1>1, <1>4, StepCases
  <2>2. Stores(q, c, r) /\ c # "dollar"
    BY <1>4, <2>1 DEF Stores, Ends
  <2>3. Shape(r) /\ Parsed(r, Append(t, c)) /\ r.posted = {}
    BY <2>2, StoreStep
  <2> QED  BY <2>2, <2>3 DEF Kept
<1>5. CASE q.table = 3 /\ Len(q.token) < TokenSize - 1 /\ c = "digit"
  <2>1. r = Store(q, Append(q.token, c))
    BY <1>1, <1>5, StepCases
  <2>2. Stores(q, c, r) /\ c # "dollar"
    BY <1>5, <2>1 DEF Stores
  <2>3. Shape(r) /\ Parsed(r, Append(t, c)) /\ r.posted = {}
    BY <2>2, StoreStep
  <2> QED  BY <2>2, <2>3 DEF Kept
<1>6. CASE q.table = 4 /\ Len(q.token) < TokenSize - 1 /\ c = "dollar" /\ room
  <2>1. r = Post(q)
    BY <1>1, <1>6, StepCases
  <2>2. /\ Shape(r) /\ Parsed(r, Append(t, c))
        /\ r.table = 0 /\ r.token = <<>> /\ r.posted = {q.fields}
        /\ IsMessage(q.fields) /\ Text(q.fields) \in Seq(Classes) /\ Text(q.fields) # <<>>
        /\ \E u \in Seq(Classes) : Append(t, c) = u \o Text(q.fields)
    BY <1>6, <2>1, PostStep
  <2> QED  BY <1>6, <2>2 DEF Kept
<1>7. \/ r = Failure(q) \/ Goes(q, c) \/ Ends(q, c)
      \/ q.table = 3 /\ Len(q.token) < TokenSize - 1 /\ c = "digit"
      \/ q.table = 4 /\ Len(q.token) < TokenSize - 1 /\ c = "dollar" /\ room
  BY <1>1, StepCases
<1> QED  BY <1>2, <1>3, <1>4, <1>5, <1>6, <1>7

-----------------------------------------------------------------------------
\* A frame: its only '$' is its last byte.
IsFrame(text) ==
  /\ text \in Seq(Classes) /\ text # <<>> /\ text[Len(text)] = "dollar"
  /\ \A i \in 1..(Len(text) - 1) : text[i] # "dollar"

LEMMA PrefixStep ==
  ASSUME NEW text \in Seq(Classes), NEW n \in Nat, n < Len(text)
  PROVE  /\ SubSeq(text, 1, n) \in Seq(Classes) /\ text[n+1] \in Classes
         /\ SubSeq(text, 1, n + 1) = Append(SubSeq(text, 1, n), text[n+1])
<1>1. Len(text) \in Nat /\ \A i \in 1..n : text[i] \in Classes
  BY LenProperties
<1>2. /\ SubSeq(text, 1, n) \in Seq(Classes)
      /\ text[n+1] \in Classes
  BY <1>1, SubSeqProperties
<1>3. SubSeq(text, 1, n + 1) = SubSeq(text, 1, n) \o <<text[n+1]>>
  <2>1. 1 \in 1..Len(text) /\ n + 1 \in 1..Len(text) /\ (n + 1) - 1 = n
    BY <1>1
  <2> QED  BY <2>1, SubSeqRecursiveSecond
<1> QED  BY <1>2, <1>3, ByteAppended

LEMMA FreshShape == Shape(Fresh) /\ Parsed(Fresh, <<>>) /\ Fresh.posted = {} /\ Done(Fresh) = <<>>
<1>1. NoFields \in FieldRecords
  BY DEF NoFields, FieldRecords, Texts, INVALID_XBEE_DATA
<1>2. Fresh.table = 0 /\ Fresh.token = <<>> /\ Fresh.posted = {}
  BY DEF Fresh
<1>3. Fresh \in Parsers
  <2>1. 0 \in 0..4 /\ <<>> \in Seq(Classes) /\ {} \in SUBSET FieldRecords
    OBVIOUS
  <2> QED  BY <1>1, <2>1 DEF Fresh, Parsers
<1>4. StoredShape(Fresh) /\ TokenShape(Fresh)
  BY <1>2, Sizes DEF StoredShape, TokenShape
<1>5. Done(Fresh) = <<>> /\ <<>> = <<>> \o (<<>> \o <<>>)
  BY <1>2 DEF Done
<1>6. Parsed(Fresh, <<>>)
  <2>1. <<>> \in Seq(Classes)
    OBVIOUS
  <2> QED  BY <1>2, <1>5, <2>1 DEF Parsed
<1> QED  BY <1>2, <1>3, <1>4, <1>5, <1>6 DEF Shape

\* At every byte of a frame,
LEMMA RunKept ==
  ASSUME NEW text, IsFrame(text), NEW room, NEW q,
         IsRun(q, Fresh, text, room, Len(text)),
         NEW n \in Nat, n < Len(text)
  PROVE  Shape(q[n]) /\ Parsed(q[n], SubSeq(text, 1, n)) /\ q[n].posted = {}
<1> DEFINE P(k) == /\ Shape(q[k]) /\ Parsed(q[k], SubSeq(text, 1, k))
                   /\ q[k].posted = {}
           S == {k \in Nat : k < Len(text) => P(k)}
<1>1. Len(text) \in Nat /\ text \in Seq(Classes)
  BY LenProperties DEF IsFrame
<1>2. 0 \in S
  <2>1. 0 < Len(text) => q[0] = Fresh
    BY <1>1 DEF IsRun
  <2>2. SubSeq(text, 1, 0) = <<>>
    BY SubSeqEmpty
  <2> QED  BY <2>1, <2>2, FreshShape
<1>3. ASSUME NEW k \in Nat, k \in S PROVE k + 1 \in S
  <2>1. SUFFICES ASSUME k + 1 < Len(text) PROVE P(k + 1)
    OBVIOUS
  <2>2. k < Len(text) /\ P(k)
    BY <1>1, <1>3, <2>1
  <2>3. q[k+1] = StepParser(q[k], text[k+1], room)
    BY <1>1, <2>1 DEF IsRun
  <2>4. /\ SubSeq(text, 1, k) \in Seq(Classes) /\ text[k+1] \in Classes
        /\ SubSeq(text, 1, k + 1) = Append(SubSeq(text, 1, k), text[k+1])
    BY <1>1, <2>2, PrefixStep
  <2>5. Kept(q[k+1], SubSeq(text, 1, k), text[k+1], room)
    BY <2>2, <2>3, <2>4, ByteStep
  <2>6. text[k+1] # "dollar"
    BY <1>1, <2>1 DEF IsFrame
  <2> QED  BY <2>4, <2>5, <2>6 DEF Kept
<1>4. \A k \in Nat : k \in S
  <2> HIDE DEF S
  <2> QED  BY <1>2, <1>3, Induction
<1> QED  BY <1>4

\* and at its end: the parser is at its start again, and what it posted is a
\* message that the frame ends with.
LEMMA FrameKept ==
  ASSUME NEW text, IsFrame(text), NEW room, NEW p, p = ParseFrame(Fresh, text, room)
  PROVE  /\ p \in Parsers /\ p.table = 0 /\ p.token = <<>>
         /\ \A m \in p.posted :
              /\ room /\ IsMessage(m) /\ Text(m) \in Seq(Classes) /\ Text(m) # <<>>
              /\ \E u \in Seq(Classes) : text = u \o Text(m)
<1>1. Len(text) \in Nat \ {0} /\ text \in Seq(Classes)
  BY EmptySeq DEF IsFrame
<1>2. PICK q : IsRun(q, Fresh, text, room, Len(text)) /\ p = q[Len(text)]
  BY <1>1, ParseIsRun
<1>3. PICK n \in Nat : n + 1 = Len(text)
  <2>1. Len(text) - 1 \in Nat /\ (Len(text) - 1) + 1 = Len(text)
    BY <1>1
  <2> QED  BY <2>1
<1>4. Shape(q[n]) /\ Parsed(q[n], SubSeq(text, 1, n)) /\ q[n].posted = {}
  BY <1>2, <1>3, RunKept
<1>5. /\ SubSeq(text, 1, n) \in Seq(Classes) /\ text[n+1] \in Classes
      /\ SubSeq(text, 1, n + 1) = Append(SubSeq(text, 1, n), text[n+1])
  BY <1>1, <1>3, PrefixStep
<1>6. p = StepParser(q[n], text[n+1], room)
  BY <1>2, <1>3 DEF IsRun
<1>7. text[n+1] = "dollar" /\ SubSeq(text, 1, n + 1) = text
  BY <1>1, <1>3, SubSeqFull DEF IsFrame
<1>8. Kept(p, SubSeq(text, 1, n), text[n+1], room)
  BY <1>4, <1>5, <1>6, ByteStep
<1> QED  BY <1>5, <1>7, <1>8 DEF Kept, Shape

-----------------------------------------------------------------------------
\* The bytes of a well-formed frame, by position.
IsWellFormed(text, a, b) ==
  /\ text \in Seq(Classes) /\ a \in 0..(DegMax - 1) /\ b \in 0..(DegMax - 1)
  /\ Len(text) = a + b + 7
  /\ text[1] = "digit" /\ text[2] = "digit" /\ text[3] = "comma"
  /\ \A i \in 4..(3 + a) : text[i] \in {"digit", "dot"}
  /\ text[4 + a] = "comma"
  /\ \A i \in (5 + a)..(4 + a + b) : text[i] \in {"digit", "dot"}
  /\ text[5 + a + b] = "comma" /\ text[6 + a + b] = "digit"
  /\ text[7 + a + b] = "dollar"

LEMMA WellFormedBytes ==
  ASSUME NEW text \in Seq(Classes), WellFormed(text)
  PROVE  \E a, b : IsWellFormed(text, a, b)
<1>1. PICK a \in 0..(DegMax - 1), b \in 0..(DegMax - 1) :
        /\ Len(text) = a + b + 7
        /\ IsMessage([peerID |-> SubSeq(text, 1, 2), longitude |-> SubSeq(text, 4, 3 + a),
                      latitude |-> SubSeq(text, 5 + a, 4 + a + b),
                      msgID |-> SubSeq(text, 6 + a + b, 6 + a + b)])
        /\ text[3] = "comma" /\ text[4 + a] = "comma" /\ text[5 + a + b] = "comma"
        /\ text[7 + a + b] = "dollar"
  BY DEF WellFormed
<1>2. a \in Nat /\ b \in Nat
  BY Sizes
<1>3. \A i \in 1..Len(text) : text[i] \in Classes
  BY ElementOfSeq
<1> DEFINE peer == SubSeq(text, 1, 2)
           lon == SubSeq(text, 4, 3 + a)
           lat == SubSeq(text, 5 + a, 4 + a + b)
           msg == SubSeq(text, 6 + a + b, 6 + a + b)
<1>4. peer = <<"digit", "digit">> /\ IsNumber(lon) /\ IsNumber(lat) /\ msg = <<"digit">>
  BY <1>1 DEF IsMessage
<1>5. text[1] = "digit" /\ text[2] = "digit"
  <2>1. peer[1] = text[1] /\ peer[2] = text[2]
    BY <1>1, <1>2, <1>3, SubSeqProperties
  <2> HIDE DEF peer
  <2> QED  BY <1>4, <2>1
<1>6. text[6 + a + b] = "digit"
  <2>1. msg[1] = text[6 + a + b]
    BY <1>1, <1>2, <1>3, SubSeqProperties
  <2> HIDE DEF msg
  <2> QED  BY <1>4, <2>1
<1>7. \A i \in 4..(3 + a) : text[i] \in {"digit", "dot"}
  <2>1. Len(lon) = a /\ \A i \in 1..a : lon[i] = text[3 + i]
    <3>1. 4 \in Int /\ 3 + a \in Int /\ \A i \in 4..(3 + a) : text[i] \in Classes
      BY <1>1, <1>2, <1>3
    <3>2. /\ Len(lon) = IF 4 <= 3 + a THEN (3 + a) - 4 + 1 ELSE 0
          /\ \A i \in 1..((3 + a) - 4 + 1) : lon[i] = text[4 + i - 1]
      BY <3>1, SubSeqProperties
    <3> HIDE DEF lon
    <3> QED  BY <1>2, <3>2
  <2>2. \A i \in 1..a : text[3 + i] \in {"digit", "dot"}
    <3> HIDE DEF lon
    <3> QED  BY <1>4, <2>1 DEF IsNumber
  <2>3. ASSUME NEW i \in 4..(3 + a) PROVE text[i] \in {"digit", "dot"}
    <3>1. i - 3 \in 1..a /\ 3 + (i - 3) = i
      BY <1>2
    <3> QED  BY <2>2, <3>1
  <2> QED  BY <2>3
<1>8. \A i \in (5 + a)..(4 + a + b) : text[i] \in {"digit", "dot"}
  <2>1. Len(lat) = b /\ \A i \in 1..b : lat[i] = text[4 + a + i]
    <3>1. /\ 5 + a \in Int /\ 4 + a + b \in Int
          /\ \A i \in (5 + a)..(4 + a + b) : text[i] \in Classes
      BY <1>1, <1>2, <1>3
    <3>2. /\ Len(lat) = IF 5 + a <= 4 + a + b THEN (4 + a + b) - (5 + a) + 1 ELSE 0
          /\ \A i \in 1..((4 + a + b) - (5 + a) + 1) : lat[i] = text[5 + a + i - 1]
      BY <3>1, SubSeqProperties
    <3> HIDE DEF lat
    <3>3. ASSUME NEW i \in 1..b PROVE lat[i] = text[4 + a + i]
      <4>1. i \in 1..((4 + a + b) - (5 + a) + 1) /\ 5 + a + i - 1 = 4 + a + i
        BY <1>2
      <4> QED  BY <3>2, <4>1
    <3>4. Len(lat) = b
      BY <1>2, <3>2
    <3> QED  BY <3>3, <3>4
  <2>2. \A i \in 1..b : text[4 + a + i] \in {"digit", "dot"}
    <3> HIDE DEF lat
    <3> QED  BY <1>4, <2>1 DEF IsNumber
  <2>3. ASSUME NEW i \in (5 + a)..(4 + a + b) PROVE text[i] \in {"digit", "dot"}
    <3>1. i - (4 + a) \in 1..b /\ 4 + a + (i - (4 + a)) = i
      BY <1>2
    <3> QED  BY <2>2, <3>1
  <2> QED  BY <2>3
<1> QED  BY <1>1, <1>5, <1>6, <1>7, <1>8 DEF IsWellFormed

\* Where the parser is after n bytes of a well-formed frame: the row, and how
\* much of it; what it has taken is all that it was given.
Position(table, len, n, a, b) ==
  /\ n \in 0..2 => table = 0 /\ len = n
  /\ n \in 3..(3 + a) => table = 1 /\ len = n - 3
  /\ n \in (4 + a)..(4 + a + b) => table = 2 /\ len = n - (4 + a)
  /\ n = 5 + a + b => table = 3 /\ len = 0
  /\ n = 6 + a + b => table = 4 /\ len = 0
OnTrack(q, text, n, a, b) ==
  /\ Shape(q) /\ Position(q.table, Len(q.token), n, a, b)
  /\ Done(q) \o q.token = SubSeq(text, 1, n)

\* Each byte of it is the one that the row takes or that ends it.
LEMMA Taken ==
  ASSUME NEW text, NEW a, NEW b, IsWellFormed(text, a, b), NEW n \in Nat, n < 6 + a + b,
         NEW q, OnTrack(q, text, n, a, b)
  PROVE  LET c == text[n+1]
         IN  \/ Goes(q, c) /\ n \in 0..1
             \/ Goes(q, c) /\ n \in 3..(2 + a)
             \/ Goes(q, c) /\ n \in (4 + a)..(3 + a + b)
             \/ Ends(q, c) /\ n \in {2, 3 + a, 4 + a + b}
             \/ /\ q.table = 3 /\ Len(q.token) < TokenSize - 1 /\ c = "digit"
                /\ n = 5 + a + b
<1>1. a \in Nat /\ b \in Nat /\ a < DegMax /\ b < DegMax
  BY Sizes DEF IsWellFormed
<1>2. Position(q.table, Len(q.token), n, a, b) /\ q.token \in Seq(Classes) /\ Len(q.token) \in Nat
  BY DoneIsText DEF OnTrack
<1>3. CASE n \in 0..1
  <2>1. text[n+1] = "digit" /\ q.table = 0 /\ Len(q.token) = n
    BY <1>2, <1>3 DEF IsWellFormed, Position
  <2> QED  BY <1>3, <2>1, Sizes DEF Goes
<1>4. CASE n = 2
  <2>1. text[n+1] = "comma" /\ q.table = 0 /\ Len(q.token) = n
    BY <1>2, <1>4 DEF IsWellFormed, Position
  <2> QED  BY <1>4, <2>1, Sizes DEF Ends
<1>5. CASE n \in 3..(2 + a)
  <2>1. n + 1 \in 4..(3 + a) /\ n \in 3..(3 + a)
    BY <1>1, <1>5
  <2>2. text[n+1] \in {"digit", "dot"} /\ q.table = 1 /\ Len(q.token) = n - 3
    BY <1>2, <2>1 DEF IsWellFormed, Position
  <2> QED  BY <1>1, <1>5, <2>2, Sizes DEF Goes
<1>6. CASE n = 3 + a
  <2>1. n + 1 = 4 + a /\ n \in 3..(3 + a)
    BY <1>1, <1>6
  <2>2. text[n+1] = "comma" /\ q.table = 1 /\ Len(q.token) = n - 3
    BY <1>2, <2>1 DEF IsWellFormed, Position
  <2> QED  BY <1>1, <1>6, <2>2, Sizes DEF Ends
<1>7. CASE n \in (4 + a)..(3 + a + b)
  <2>1. n + 1 \in (5 + a)..(4 + a + b) /\ n \in (4 + a)..(4 + a + b)
    BY <1>1, <1>7
  <2>2. text[n+1] \in {"digit", "dot"} /\ q.table = 2 /\ Len(q.token) = n - (4 + a)
    BY <1>2, <2>1 DEF IsWellFormed, Position
  <2> QED  BY <1>1, <1>7, <2>2, Sizes DEF Goes
<1>8. CASE n = 4 + a + b
  <2>1. n + 1 = 5 + a + b /\ n \in (4 + a)..(4 + a + b)
    BY <1>1, <1>8
  <2>2. text[n+1] = "comma" /\ q.table = 2 /\ Len(q.token) = n - (4 + a)
    BY <1>2, <2>1 DEF IsWellFormed, Position
  <2> QED  BY <1>1, <1>8, <2>2, Sizes DEF Ends
<1>9. CASE n = 5 + a + b
  <2>1. n + 1 = 6 + a + b
    BY <1>1, <1>9
  <2>2. text[n+1] = "digit" /\ q.table = 3 /\ Len(q.token) = 0
    BY <1>2, <1>9, <2>1 DEF IsWellFormed, Position
  <2> QED  BY <1>9, <2>2, Sizes
<1>10. \/ n \in 0..1 \/ n = 2 \/ n \in 3..(2 + a) \/ n = 3 + a
       \/ n \in (4 + a)..(3 + a + b) \/ n = 4 + a + b \/ n = 5 + a + b
  BY <1>1
<1> QED  BY <1>3, <1>4, <1>5, <1>6, <1>7, <1>8, <1>9, <1>10

LEMMA TrackStep ==
  ASSUME NEW text, NEW a, NEW b, IsWellFormed(text, a, b), NEW n \in Nat, n < 6 + a + b,
         NEW q, OnTrack(q, text, n, a, b), NEW room, NEW r,
         r = StepParser(q, text[n+1], room)
  PROVE  OnTrack(r, text, n + 1, a, b)
<1> DEFINE c == text[n+1]
           t == SubSeq(text, 1, n)
<1>1. a \in Nat /\ b \in Nat /\ text \in Seq(Classes) /\ n < Len(text)
  BY Sizes DEF IsWellFormed
<1>2. t \in Seq(Classes) /\ c \in Classes /\ SubSeq(text, 1, n + 1) = Append(t, c)
  BY <1>1, PrefixStep
<1>3. /\ Shape(q) /\ q \in Parsers /\ Position(q.table, Len(q.token), n, a, b)
      /\ Done(q) \in Seq(Classes) /\ q.token \in Seq(Classes)
      /\ Done(q) \o q.token = t
  BY DoneIsText DEF OnTrack, Shape
<1>4. Parsed(q, t)
  <2>1. <<>> \in Seq(Classes) /\ t = <<>> \o (Done(q) \o q.token)
    BY <1>2, <1>3
  <2> QED  BY <2>1 DEF Parsed
<1> HIDE DEF c, t
<1>5. CASE Goes(q, c) /\ (n \in 0..1 \/ n \in 3..(2 + a) \/ n \in (4 + a)..(3 + a + b))
  <2>1. r = Collect(q, c)
    BY <1>2, <1>3, <1>5, StepCases DEF c
  <2>2. /\ Shape(r) /\ r.token = Append(q.token, c) /\ r.table = q.table
        /\ Done(r) = Done(q)
    BY <1>2, <1>3, <1>4, <1>5, <2>1, CollectStep
  <2>3. Done(r) \o r.token = Append(t, c)
    <3>1. <<c>> \in Seq(Classes) /\ r.token = q.token \o <<c>> /\ Append(t, c) = t \o <<c>>
      BY <1>2, <1>3, <2>2, ByteAppended
    <3>2. Done(q) \o (q.token \o <<c>>) = (Done(q) \o q.token) \o <<c>>
      BY <1>3, <3>1, Associative
    <3> QED  BY <1>3, <2>2, <3>1, <3>2
  <2>4. Len(r.token) = Len(q.token) + 1 /\ Len(q.token) \in Nat
    BY <1>2, <1>3, <2>2
  <2>5. Position(r.table, Len(r.token), n + 1, a, b)
    <3>1. CASE n \in 0..1
      BY <1>1, <1>3, <2>2, <2>4, <3>1 DEF Position
    <3>2. CASE n \in 3..(2 + a)
      <4>1. q.table = 1 /\ Len(q.token) = n - 3
        BY <1>1, <1>3, <3>2 DEF Position
      <4> QED  BY <1>1, <2>2, <2>4, <3>2, <4>1 DEF Position
    <3>3. CASE n \in (4 + a)..(3 + a + b)
      <4>1. q.table = 2 /\ Len(q.token) = n - (4 + a)
        BY <1>1, <1>3, <3>3 DEF Position
      <4> QED  BY <1>1, <2>2, <2>4, <3>3, <4>1 DEF Position
    <3> QED  BY <1>5, <3>1, <3>2, <3>3
  <2> QED  BY <1>2, <2>2, <2>3, <2>5 DEF OnTrack
<1>6. ASSUME Stores(q, c, r), n \in {2, 3 + a, 4 + a + b, 5 + a + b}
      PROVE  OnTrack(r, text, n + 1, a, b)
  <2>1. /\ Shape(r) /\ r.table = q.table + 1 /\ r.token = <<>>
        /\ Done(r) = (Done(q) \o q.token) \o <<c>>
    BY <1>2, <1>3, <1>4, <1>6, StoreStep
  <2>2. Done(r) \o r.token = Append(t, c)
    <3>1. Append(t, c) = t \o <<c>> /\ Append(t, c) \in Seq(Classes)
      BY <1>2, ByteAppended
    <3>2. Done(r) = Append(t, c)
      BY <1>3, <2>1, <3>1
    <3>3. Done(r) \o <<>> = Done(r)
      BY <3>1, <3>2, ConcatEmptySeq
    <3> QED  BY <2>1, <3>2, <3>3
  <2>3. Len(r.token) = 0
    BY <2>1
  <2>4. Position(r.table, Len(r.token), n + 1, a, b)
    <3>1. CASE n = 2
      <4>1. r.table = 1
        BY <1>3, <2>1, <3>1 DEF Position
      <4> QED  BY <1>1, <2>3, <3>1, <4>1 DEF Position
    <3>2. CASE n = 3 + a
      <4>1. r.table = 2
        BY <1>1, <1>3, <2>1, <3>2 DEF Position
      <4> QED  BY <1>1, <2>3, <3>2, <4>1 DEF Position
    <3>3. CASE n = 4 + a + b
      <4>1. r.table = 3
        BY <1>1, <1>3, <2>1, <3>3 DEF Position
      <4> QED  BY <1>1, <2>3, <3>3, <4>1 DEF Position
    <3>4. CASE n = 5 + a + b
      <4>1. r.table = 4
        BY <1>1, <1>3, <2>1, <3>4 DEF Position
      <4> QED  BY <1>1, <2>3, <3>4, <4>1 DEF Position
    <3> QED  BY <1>6, <3>1, <3>2, <3>3, <3>4
  <2> QED  BY <1>2, <2>1, <2>2, <2>4 DEF OnTrack
<1>7. CASE Ends(q, c) /\ n \in {2, 3 + a, 4 + a + b}
  <2>1. r = Store(q, q.token)
    BY <1>2, <1>3, <1>7, StepCases DEF c
  <2>2. Stores(q, c, r)
    BY <1>7, <2>1 DEF Stores, Ends
  <2> QED  BY <1>6, <1>7, <2>2
<1>8. CASE q.table = 3 /\ Len(q.token) < TokenSize - 1 /\ c = "digit" /\ n = 5 + a + b
  <2>1. r = Store(q, Append(q.token, c))
    BY <1>2, <1>3, <1>8, StepCases DEF c
  <2>2. Stores(q, c, r)
    BY <1>8, <2>1 DEF Stores
  <2> QED  BY <1>6, <1>8, <2>2
<1>9. \/ Goes(q, c) /\ (n \in 0..1 \/ n \in 3..(2 + a) \/ n \in (4 + a)..(3 + a + b))
      \/ Ends(q, c) /\ n \in {2, 3 + a, 4 + a + b}
      \/ q.table = 3 /\ Len(q.token) < TokenSize - 1 /\ c = "digit" /\ n = 5 + a + b
  BY Taken DEF c
<1> QED  BY <1>5, <1>7, <1>8, <1>9

\* A well-formed frame is posted whole if there is room.
LEMMA WellFormedKept ==
  ASSUME NEW text \in Seq(Classes), WellFormed(text), NEW room, room,
         NEW p, p = ParseFrame(Fresh, text, room)
  PROVE  \E m \in p.posted : Text(m) = text
<1>1. PICK a, b : IsWellFormed(text, a, b)
  BY WellFormedBytes
<1>2. a \in Nat /\ b \in Nat /\ Len(text) = a + b + 7 /\ text[7 + a + b] = "dollar"
  BY <1>1, Sizes DEF IsWellFormed
<1>3. PICK q : IsRun(q, Fresh, text, room, Len(text)) /\ p = q[Len(text)]
  <2>1. Len(text) \in Nat
    BY LenProperties
  <2> QED  BY <2>1, ParseIsRun
<1> DEFINE last6 == 6 + a + b
           S == {n \in Nat : n <= last6 => OnTrack(q[n], text, n, a, b)}
<1>4. 0 \in S
  <2>1. q[0] = Fresh
    BY <1>2, <1>3 DEF IsRun
  <2>2. Position(Fresh.table, Len(Fresh.token), 0, a, b)
    BY <1>2 DEF Position, Fresh
  <2>3. Done(Fresh) \o Fresh.token = SubSeq(text, 1, 0)
    <3>1. SubSeq(text, 1, 0) = <<>> /\ Done(Fresh) = <<>> /\ Fresh.token = <<>>
      BY SubSeqEmpty, FreshShape DEF Fresh
    <3> QED  BY <3>1
  <2> QED  BY <2>1, <2>2, <2>3, FreshShape DEF OnTrack
<1>5. ASSUME NEW n \in Nat, n \in S PROVE n + 1 \in S
  <2>1. SUFFICES ASSUME n + 1 <= last6 PROVE OnTrack(q[n+1], text, n + 1, a, b)
    OBVIOUS
  <2>2. n < 6 + a + b /\ OnTrack(q[n], text, n, a, b)
    BY <1>2, <1>5, <2>1
  <2>3. q[n+1] = StepParser(q[n], text[n+1], room)
    BY <1>2, <1>3, <2>1 DEF IsRun
  <2> QED  BY <1>1, <2>2, <2>3, TrackStep
<1>6. \A n \in Nat : n \in S
  <2> HIDE DEF S
  <2> QED  BY <1>4, <1>5, Induction
<1>7. PICK n \in Nat : n = 6 + a + b
  BY <1>2
<1>8. OnTrack(q[n], text, n, a, b) /\ n + 1 = Len(text) /\ n < Len(text)
  BY <1>2, <1>6, <1>7
<1>9. /\ Shape(q[n]) /\ q[n].table = 4 /\ q[n].token = <<>> /\ q[n] \in Parsers
      /\ Done(q[n]) = SubSeq(text, 1, n)
  <2>1. /\ Shape(q[n]) /\ q[n].table = 4 /\ q[n].token = <<>>
        /\ Done(q[n]) \o q[n].token = SubSeq(text, 1, n)
    BY <1>7, <1>8 DEF OnTrack, Position, Shape, TokenShape
  <2>2. Done(q[n]) \in Seq(Classes)
    BY <2>1, DoneIsText
  <2> QED  BY <2>1, <2>2 DEF Shape
<1>10. p = StepParser(q[n], "dollar", room)
  BY <1>2, <1>3, <1>7, <1>8 DEF IsRun
<1>11. p = Post(q[n])
  <2>1. Len(q[n].token) < TokenSize - 1
    BY <1>9, Sizes
  <2> QED  BY <1>9, <1>10, <2>1, StepCases, ClassNames
<1>12. p.posted = {q[n].fields} /\ Text(q[n].fields) = Done(q[n]) \o <<"dollar">>
  <2>1. SubSeq(text, 1, n) \in Seq(Classes)
    BY <1>8, PrefixStep
  <2>2. Parsed(q[n], SubSeq(text, 1, n))
    <3>1. <<>> \in Seq(Classes) /\ SubSeq(text, 1, n) = <<>> \o (Done(q[n]) \o q[n].token)
      BY <1>9, <2>1
    <3> QED  BY <3>1 DEF Parsed
  <2> QED  BY <1>9, <1>11, <2>1, <2>2, PostStep
<1>13. SubSeq(text, 1, n) \o <<"dollar">> = text
  <2>1. /\ SubSeq(text, 1, n) \in Seq(Classes)
        /\ SubSeq(text, 1, n + 1) = Append(SubSeq(text, 1, n), text[n+1])
    BY <1>8, PrefixStep
  <2>2. SubSeq(text, 1, n + 1) = text /\ text[n+1] = "dollar"
    BY <1>2, <1>7, <1>8, SubSeqFull
  <2> QED  BY <2>1, <2>2, ByteAppended, ClassNames
<1> QED  BY <1>9, <1>12, <1>13

-----------------------------------------------------------------------------
\* Between bytes: the buffer has no '$' and is empty outside a frame, and the
\* table parser is at its start.
BufferOK ==
  /\ state \in {0, 1} /\ overrun \in BOOLEAN
  /\ buffer \in Seq(Classes) /\ Len(buffer) <= BufferSize
  /\ state = 0 => buffer = <<>>
  /\ \A i \in 1..Len(buffer) : buffer[i] # "dollar"
LastOK ==
  /\ last.room \in BOOLEAN /\ last.text \in Seq(Classes)
  /\ PostedIsEndOfFrame /\ WellFormedIsPosted
FInv == BufferOK /\ LastOK /\ ps = Fresh

LEMMA CleanupFresh ==
  ASSUME NEW p \in Parsers, p.table = 0, p.token = <<>>, Cleanup(p)
  PROVE  ps' = Fresh /\ buffer' = <<>> /\ state' = 0
<1>1. ps' = [p EXCEPT !.fields = NoFields, !.posted = {}]
  BY DEF Cleanup
<1>2. ps' = [table |-> 0, token |-> <<>>, fields |-> NoFields, posted |-> {}]
  BY <1>1 DEF Parsers
<1> QED  BY <1>2 DEF Cleanup, Fresh

LEMMA FreshParser == Fresh \in Parsers /\ Fresh.table = 0 /\ Fresh.token = <<>>
BY FreshShape DEF Shape, Fresh

\* A frame that ends is one in the sense of the loop's lemmas,
LEMMA BufferIsFrame ==
  ASSUME BufferOK PROVE IsFrame(Append(buffer, "dollar"))
<1> DEFINE text == Append(buffer, "dollar")
<1>1. /\ text \in Seq(Classes) /\ Len(text) = Len(buffer) + 1 /\ Len(buffer) \in Nat
      /\ text[Len(text)] = "dollar"
      /\ \A i \in 1..Len(buffer) : text[i] = buffer[i]
  BY ClassNames DEF BufferOK
<1>2. \A i \in 1..(Len(text) - 1) : text[i] # "dollar"
  BY <1>1 DEF BufferOK
<1>3. text # <<>>
  BY <1>1
<1> QED  BY <1>1, <1>2, <1>3 DEF IsFrame

\* and what it leaves is what the properties say.
LEMMA LastIsOK ==
  ASSUME NEW text, IsFrame(text), NEW room \in BOOLEAN,
         NEW p, p = ParseFrame(Fresh, text, room),
         last' = [text |-> text, room |-> room, posted |-> p.posted]
  PROVE  LastOK'
<1>1. text \in Seq(Classes) /\ Len(text) \in Nat
  BY LenProperties DEF IsFrame
<1>2. last'.text = text /\ last'.room = room /\ last'.posted = p.posted
  OBVIOUS
<1>3. PostedIsEndOfFrame'
  <2>1. ASSUME NEW m \in p.posted
        PROVE  /\ room /\ IsMessage(m)
               /\ \E n \in 1..Len(text) : Text(m) = SubSeq(text, n, Len(text))
    <3>1. /\ room /\ IsMessage(m) /\ Text(m) \in Seq(Classes) /\ Text(m) # <<>>
          /\ \E u \in Seq(Classes) : text = u \o Text(m)
      BY <2>1, FrameKept
    <3>2. PICK u \in Seq(Classes) : text = u \o Text(m)
      BY <3>1
    <3> DEFINE v == Text(m)
    <3>3. /\ Len(u) \in Nat /\ Len(v) \in Nat \ {0} /\ Len(text) = Len(u) + Len(v)
      BY <3>1, <3>2, EmptySeq
    <3>4. SubSeq(u \o v, Len(u) + 1, Len(u) + Len(v)) = SubSeq(v, 1, Len(v))
      <4>1. /\ Len(u) + 1 \in (Len(u) + 1)..(Len(u) + Len(v))
            /\ Len(u) + Len(v) \in (Len(u) + 1)..(Len(u) + Len(v))
            /\ (Len(u) + 1) - Len(u) = 1 /\ (Len(u) + Len(v)) - Len(u) = Len(v)
        BY <3>3
      <4>2. SubSeq(u \o v, Len(u) + 1, Len(u) + Len(v))
              = SubSeq(v, (Len(u) + 1) - Len(u), (Len(u) + Len(v)) - Len(u))
        BY <3>1, <4>1, SubSeqOfConcat2
      <4> QED  BY <4>1, <4>2
    <3>5. SubSeq(v, 1, Len(v)) = v
      BY <3>1, SubSeqFull
    <3>6. Len(u) + 1 \in 1..Len(text)
      BY <3>3
    <3>7. v = SubSeq(text, Len(u) + 1, Len(text))
      BY <3>2, <3>3, <3>4, <3>5
    <3> QED  BY <3>1, <3>6, <3>7
  <2> QED  BY <1>2, <2>1 DEF PostedIsEndOfFrame
<1>4. WellFormedIsPosted'
  <2>1. WellFormed(text) /\ room => \E m \in p.posted : Text(m) = text
    BY <1>1, WellFormedKept
  <2> QED  BY <1>2, <2>1 DEF WellFormedIsPosted
<1> QED  BY <1>1, <1>2, <1>3, <1>4 DEF LastOK

\* The start of a frame forgets the last one.
LEMMA NotWellFormed == ~WellFormed(<<>>)
<1>1. \A a, b \in 0..(DegMax - 1) : Len(<<>>) # a + b + 7
  BY Sizes
<1> QED  BY <1>1 DEF WellFormed

LEMMA NoFrameFields ==
  /\ NoFrame.text = <<>> /\ NoFrame.room = TRUE /\ NoFrame.posted = {}
  /\ <<>> \in Seq(Classes)
BY DEF NoFrame

LEMMA NoFrameIsOK ==
  ASSUME last' = NoFrame PROVE LastOK'
<1>1. last'.text = <<>> /\ last'.room = TRUE /\ last'.posted = {}
  BY NoFrameFields
<1>2. last'.text \in Seq(Classes) /\ last'.room \in BOOLEAN
  BY <1>1, NoFrameFields
<1>3. PostedIsEndOfFrame'
  BY <1>1 DEF PostedIsEndOfFrame
<1>4. WellFormedIsPosted'
  BY <1>1, NotWellFormed DEF WellFormedIsPosted
<1> QED  BY <1>2, <1>3, <1>4 DEF LastOK

LEMMA FrameInitHolds == FrameInit => FInv
<1> SUFFICES ASSUME FrameInit PROVE FInv
  OBVIOUS
<1>1. state = 0 /\ buffer = <<>> /\ ps = Fresh /\ overrun = FALSE /\ last = NoFrame
  BY DEF FrameInit
<1>2. BufferOK
  <2>1. buffer \in Seq(Classes)
    BY <1>1, NoFrameFields
  <2>2. Len(buffer) = 0
    BY <1>1
  <2>3. Len(buffer) <= BufferSize
    BY <2>2, Sizes
  <2>4. \A i \in 1..Len(buffer) : buffer[i] # "dollar"
    BY <2>2
  <2> QED  BY <1>1, <2>1, <2>3, <2>4 DEF BufferOK
<1>3. last.text = <<>> /\ last.room = TRUE /\ last.posted = {}
  BY <1>1, NoFrameFields
<1>4. last.text \in Seq(Classes) /\ last.room \in BOOLEAN
  BY <1>3, NoFrameFields
<1>5. PostedIsEndOfFrame
  BY <1>3 DEF PostedIsEndOfFrame
<1>6. WellFormedIsPosted
  BY <1>3, NotWellFormed DEF WellFormedIsPosted
<1>7. LastOK
  BY <1>4, <1>5, <1>6 DEF LastOK
<1> QED  BY <1>1, <1>2, <1>7 DEF FInv

\* tdParser keeps all of it on any byte.
LEMMA ReceiveStep ==
  ASSUME FInv, NEW c \in Classes, NEW room \in BOOLEAN, Receive(c, room)
  PROVE  FInv'
<1>0. BufferOK /\ LastOK /\ ps = Fresh /\ overrun = FALSE /\ Fresh \in Parsers
  BY FreshParser DEF FInv, BufferOK, Receive
<1>1. CASE OpenFrame(c)
  <2>1. BufferOK' /\ ps' = Fresh
    BY <1>0, <1>1 DEF OpenFrame, BufferOK
  <2>2. LastOK'
    BY <1>1, NoFrameIsOK DEF OpenFrame
  <2> QED  BY <2>1, <2>2 DEF FInv
<1>2. CASE (IgnoreByte(c) \/ AbandonFrame(c))
  <2>1. Cleanup(Fresh) /\ UNCHANGED <<overrun, last>>
    BY <1>0, <1>2 DEF IgnoreByte, AbandonFrame
  <2>2. ps' = Fresh /\ buffer' = <<>> /\ state' = 0
    BY <2>1, FreshParser, CleanupFresh
  <2>3. BufferOK'
    BY <1>0, <2>1, <2>2, Sizes DEF BufferOK
  <2>4. LastOK'
    BY <1>0, <2>1 DEF LastOK, PostedIsEndOfFrame, WellFormedIsPosted
  <2> QED  BY <2>2, <2>3, <2>4 DEF FInv
<1>3. CASE CollectByte(c)
  <2>1. /\ c # "dollar" /\ UNCHANGED <<state, ps, last>> /\ state = 1
        /\ overrun' \in BOOLEAN
        /\ \/ buffer' = buffer
           \/ Len(buffer) < BufferSize /\ buffer' = Append(buffer, c)
    BY <1>0, <1>3 DEF CollectByte, BufferOK
  <2>2. BufferOK'
    <3>1. CASE buffer' = buffer
      BY <1>0, <2>1, <3>1 DEF BufferOK
    <3>2. CASE Len(buffer) < BufferSize /\ buffer' = Append(buffer, c)
      <4>1. /\ buffer' \in Seq(Classes) /\ Len(buffer') = Len(buffer) + 1
            /\ Len(buffer) \in Nat
            /\ \A i \in 1..Len(buffer') :
                 buffer'[i] = IF i = Len(buffer') THEN c ELSE buffer[i]
        BY <1>0, <3>2 DEF BufferOK
      <4>2. \A i \in 1..Len(buffer') : buffer'[i] # "dollar"
        BY <1>0, <2>1, <4>1 DEF BufferOK
      <4> QED  BY <1>0, <2>1, <3>2, <4>1, <4>2, Sizes DEF BufferOK
    <3> QED  BY <2>1, <3>1, <3>2
  <2>3. LastOK'
    BY <1>0, <2>1 DEF LastOK, PostedIsEndOfFrame, WellFormedIsPosted
  <2> QED  BY <1>0, <2>1, <2>2, <2>3 DEF FInv
<1>4. CASE CloseFrame(c, room)
  <2>1. CASE Len(buffer) < BufferSize
    <3> DEFINE text == Append(buffer, "dollar")
               p == ParseFrame(Fresh, text, room)
    <3>1. /\ last' = [text |-> text, room |-> room, posted |-> p.posted]
          /\ Cleanup(p) /\ overrun' = overrun
      BY <1>0, <1>4, <2>1 DEF CloseFrame
    <3>2. IsFrame(text)
      BY <1>0, BufferIsFrame
    <3> HIDE DEF text, p
    <3>3. p \in Parsers /\ p.table = 0 /\ p.token = <<>>
      BY <3>2, FrameKept DEF p
    <3>4. ps' = Fresh /\ buffer' = <<>> /\ state' = 0
      BY <3>1, <3>3, CleanupFresh
    <3>5. BufferOK'
      BY <1>0, <3>1, <3>4, Sizes DEF BufferOK
    <3>6. LastOK'
      BY <3>1, <3>2, LastIsOK DEF p
    <3> QED  BY <3>4, <3>5, <3>6 DEF FInv
  <2>2. CASE ~(Len(buffer) < BufferSize)
    <3>1. overrun' = TRUE /\ UNCHANGED <<state, buffer, ps, last>>
      BY <1>4, <2>2 DEF CloseFrame
    <3> QED  BY <1>0, <3>1 DEF FInv, BufferOK, LastOK, PostedIsEndOfFrame, WellFormedIsPosted
  <2> QED  BY <2>1, <2>2
<1> QED  BY <1>1, <1>2, <1>3, <1>4 DEF Receive

LEMMA FrameStutters == ASSUME FInv, UNCHANGED fvars PROVE FInv'
BY DEF FInv, fvars, BufferOK, LastOK, PostedIsEndOfFrame, WellFormedIsPosted

-----------------------------------------------------------------------------
\* The parser under every sequence of bytes that fits its buffer.
THEOREM FrameInvariance == ParserSpec => []FInv
<1>1. FrameInit => FInv
  BY FrameInitHolds
<1>2. FInv /\ [AnyByte]_fvars => FInv'
  <2>1. ASSUME FInv, AnyByte PROVE FInv'
    <3>1. PICK c \in Alphabet, room \in BOOLEAN : Receive(c, room)
      BY <2>1 DEF AnyByte
    <3>2. c \in Classes
      BY FrameParserAssumption
    <3> QED  BY <2>1, <3>1, <3>2, ReceiveStep
  <2> QED  BY <2>1, FrameStutters
<1> QED  BY <1>1, <1>2, PTL DEF ParserSpec

\* The state of tdParser and of its table parser keeps its type.
THEOREM ParserTypeCorrect == ParserSpec => []TypeOK
<1>1. ASSUME FInv PROVE TypeOK
  <2>1. ps.table = 0 /\ Len(ps.token) = 0
    BY <1>1 DEF FInv, Fresh
  <2>2. ps.table \in 0..4 /\ Len(ps.token) < TokenSize
    BY <2>1, Sizes
  <2> QED  BY <1>1, <2>2 DEF FInv, BufferOK, LastOK, TypeOK
<1> QED  BY <1>1, FrameInvariance, PTL

\* No state of the table parser survives a frame.
THEOREM FramesAreIndependent == ParserSpec => []NothingLeaksBetweenFrames
<1>1. FInv => NothingLeaksBetweenFrames
  BY DEF FInv, NothingLeaksBetweenFrames
<1> QED  BY <1>1, FrameInvariance, PTL

\* What is posted is a message, and its text the end of its frame.
THEOREM PostsOnlyWhatCame == ParserSpec => []PostedIsEndOfFrame
<1>1. FInv => PostedIsEndOfFrame
  BY DEF FInv, LastOK
<1> QED  BY <1>1, FrameInvariance, PTL

\* A well-formed frame is posted whole when there is room.
THEOREM PostsWhatIsWellFormed == ParserSpec => []WellFormedIsPosted
<1>1. FInv => WellFormedIsPosted
  BY DEF FInv, LastOK
<1> QED  BY <1>1, FrameInvariance, PTL

-----------------------------------------------------------------------------
\* What a byte does to the state and the buffer.
Opens(c) == state = 0 /\ c = "hash" /\ state' = 1 /\ buffer' = <<>> /\ overrun' = FALSE
Resets(c) ==
  /\ (state = 0 /\ c # "hash") \/ (state = 1 /\ c = "junk")
  /\ state' = 0 /\ overrun' = FALSE
Collects(c) ==
  /\ state = 1 /\ c \notin {"dollar", "junk"} /\ state' = 1
  /\ buffer' = Append(buffer, c) /\ overrun' = FALSE
Closes(c) ==
  /\ state = 1 /\ c = "dollar" /\ state' = 0 /\ overrun' = FALSE
  /\ last'.text = Append(buffer, c)
Overruns(c) ==
  state = 1 /\ c # "junk" /\ ~(Len(buffer) < BufferSize) /\ overrun' = TRUE

LEMMA ReceiveEffect ==
  ASSUME FInv, NEW c \in Classes, NEW room \in BOOLEAN, Receive(c, room)
  PROVE  Opens(c) \/ Resets(c) \/ Collects(c) \/ Closes(c) \/ Overruns(c)
<1>0. overrun = FALSE /\ (state = 0 => buffer = <<>>)
  BY DEF FInv, BufferOK, Receive
<1>1. CASE OpenFrame(c)
  BY <1>0, <1>1 DEF OpenFrame, Opens
<1>2. CASE IgnoreByte(c)
  BY <1>0, <1>2 DEF IgnoreByte, Cleanup, Resets
<1>3. CASE AbandonFrame(c)
  BY <1>0, <1>3 DEF AbandonFrame, Cleanup, Resets, Valid
<1>4. CASE CollectByte(c)
  <2>1. CASE Len(buffer) < BufferSize
    BY <1>0, <1>4, <2>1 DEF CollectByte, Collects, Valid
  <2>2. CASE ~(Len(buffer) < BufferSize)
    BY <1>4, <2>2 DEF CollectByte, Overruns, Valid
  <2> QED  BY <2>1, <2>2
<1>5. CASE CloseFrame(c, room)
  <2>1. CASE Len(buffer) < BufferSize
    <3> DEFINE p == ParseFrame(ps, Append(buffer, c), room)
    <3>1. /\ state = 1 /\ c = "dollar" /\ overrun' = overrun
          /\ last' = [text |-> Append(buffer, c), room |-> room, posted |-> p.posted]
          /\ Cleanup(p)
      BY <1>5, <2>1 DEF CloseFrame
    <3> HIDE DEF p
    <3>2. state' = 0
      BY <3>1 DEF Cleanup
    <3> QED  BY <1>0, <3>1, <3>2 DEF Closes
  <2>2. CASE ~(Len(buffer) < BufferSize)
    BY <1>5, <2>2 DEF CloseFrame, Overruns
  <2> QED  BY <2>1, <2>2
<1> QED  BY <1>1, <1>2, <1>3, <1>4, <1>5 DEF Receive

LEMMA Bounds ==
  /\ BufferSize \in Nat /\ SendSize \in Nat /\ 2 <= SendSize /\ SendSize - 2 <= BufferSize
  /\ \A f \in Frames :
       /\ f \in Seq(Classes) /\ Len(f) \in Nat \ {0}
       /\ f[Len(f)] = "dollar"
       /\ \A i \in 1..(Len(f) - 1) : f[i] \notin {"dollar", "junk"}
<1>1. \A f \in Frames : f \in Seq(Classes) /\ Len(f) \in Nat \ {0}
  BY FrameLineAssumption
<1> QED  BY <1>1, Sizes, FramesAssumption, SendAssumption

LEMMA HeadTail ==
  ASSUME NEW s \in Seq(Classes), s # <<>>
  PROVE  /\ Len(s) \in Nat \ {0} /\ Head(s) = s[1] /\ Head(s) \in Classes
         /\ Tail(s) \in Seq(Classes) /\ Len(Tail(s)) = Len(s) - 1
         /\ \A i \in 1..Len(Tail(s)) : Tail(s)[i] = s[i + 1]
         /\ (Tail(s) = <<>>) <=> (Len(s) = 1)
<1>1. Len(s) \in Nat \ {0}
  BY EmptySeq
<1>2. /\ Head(s) \in Classes /\ Tail(s) \in Seq(Classes) /\ Len(Tail(s)) = Len(s) - 1
      /\ \A i \in 1..Len(Tail(s)) : Tail(s)[i] = s[i + 1]
  BY HeadTailProperties
<1>3. Head(s) = s[1]
  BY <1>1
<1>4. (Tail(s) = <<>>) <=> (Len(Tail(s)) = 0)
  BY <1>2, EmptySeq
<1> QED  BY <1>1, <1>2, <1>3, <1>4

\* The line holds the rest of a frame, with its '$' at the end if it has one.
LineOK ==
  /\ line \in Seq(Classes)
  /\ strays \in Nat /\ endLost \in BOOLEAN /\ whole \in BOOLEAN
  /\ sent \in Frames \cup {<<>>}
  /\ line # <<>> => sent \in Frames /\ Len(line) <= Len(sent) + 1
  /\ line # <<>> /\ ~endLost => line[Len(line)] = "dollar"

\* While its '$' is to come the buffer holds no more than the strays and what
\* has arrived of the frame on the line.
Room ==
  ~endLost /\ ~overrun /\ state = 1 =>
    /\ line = <<>> => Len(buffer) + 1 <= strays
    /\ line # <<>> => Len(buffer) + Len(line) <= Len(sent) + strays

\* A whole frame is on the line, or what the buffer lacks of it is.
Whole ==
  whole /\ line # <<>> =>
    /\ ~endLost /\ Len(sent) <= BufferSize
    /\ \/ line = <<"hash">> \o sent /\ state = 0
       \/ state = 1 /\ buffer \o line = sent

LineInv == FInv /\ LineOK /\ Room /\ Whole

\* What sendbuf holds of a frame, and when that is all of it.
LEMMA FormattedIs ==
  ASSUME NEW f \in Frames
  PROVE  /\ Formatted(f) \in Seq(Classes) /\ Formatted(f) # <<>>
         /\ Len(Formatted(f)) <= Len(f) + 1
         /\ ~Cut(f) => /\ Formatted(f) = <<"hash">> \o f /\ Len(f) <= BufferSize
                       /\ Len(Formatted(f)) = Len(f) + 1
                       /\ Formatted(f)[Len(Formatted(f))] = "dollar"
<1>1. f \in Seq(Classes) /\ Len(f) \in Nat \ {0} /\ f[Len(f)] = "dollar"
  BY Bounds
<1>2. <<"hash">> \in Seq(Classes) /\ Len(<<"hash">>) = 1
  BY DEF Classes
<1> DEFINE g == <<"hash">> \o f
<1>3. g \in Seq(Classes) /\ Len(g) = Len(f) + 1 /\ g[Len(g)] = "dollar"
  BY <1>1, <1>2
<1> HIDE DEF g
<1>4. CASE Cut(f)
  <2>1. SendSize - 1 \in 1..Len(g)
    BY <1>1, <1>3, <1>4, Bounds DEF Cut
  <2>2. Formatted(f) = SubSeq(g, 1, SendSize - 1)
    BY <1>4 DEF Formatted, g
  <2>3. Formatted(f) \in Seq(Classes) /\ Len(Formatted(f)) = SendSize - 1
    <3>1. \A i \in 1..(SendSize - 1) : g[i] \in Classes
      BY <1>3, <2>1, ElementOfSeq
    <3> QED  BY <1>3, <2>1, <2>2, <3>1, SubSeqProperties
  <2> QED  BY <1>1, <1>3, <1>4, <2>1, <2>3, EmptySeq
<1>5. CASE ~Cut(f)
  <2>1. Formatted(f) = g
    BY <1>5 DEF Formatted, g
  <2>2. Len(f) <= BufferSize
    BY <1>1, <1>5, Bounds DEF Cut
  <2>3. g # <<>>
    BY <1>1, <1>3, EmptySeq
  <2>4. g = <<"hash">> \o f
    BY DEF g
  <2> QED  BY <1>1, <1>3, <2>1, <2>2, <2>3, <2>4
<1> QED  BY <1>4, <1>5

LEMMA SendKeeps ==
  ASSUME LineInv, NEW f \in Frames, SendFrame(f) PROVE LineInv'
<1>0. /\ line = <<>> /\ line' = Formatted(f) /\ sent' = f
      /\ whole' = (state = 0 /\ ~Cut(f)) /\ endLost' = (Cut(f) \/ (endLost /\ state = 1))
      /\ UNCHANGED fvars /\ strays' = strays
  BY DEF SendFrame
<1>a. /\ whole' \in BOOLEAN /\ endLost' \in BOOLEAN
      /\ ~endLost' => ~Cut(f) /\ ~(endLost /\ state = 1)
      /\ whole' => state = 0 /\ ~Cut(f) /\ ~endLost'
  <2>1. state = 0 => ~(state = 1)
    OBVIOUS
  <2> QED  BY <1>0, <2>1, Zenon
<1>1. FInv'
  BY <1>0, FrameStutters DEF LineInv
<1>2. /\ line' \in Seq(Classes) /\ line' # <<>> /\ Len(line') <= Len(f) + 1
      /\ ~Cut(f) => /\ line' = <<"hash">> \o f /\ Len(f) <= BufferSize
                    /\ Len(line') = Len(f) + 1 /\ line'[Len(line')] = "dollar"
  BY <1>0, FormattedIs
<1>3. LineOK'
  BY <1>0, <1>a, <1>2 DEF LineInv, LineOK
<1>4. Room'
  <2>1. Len(buffer) \in Nat /\ Len(f) \in Nat /\ strays \in Nat
    BY Bounds, LenProperties DEF LineInv, FInv, BufferOK, LineOK
  <2>2. UNCHANGED <<state, buffer, overrun>>
    BY <1>0 DEF fvars
  <2>3. LineOK /\ (~endLost /\ ~overrun /\ state = 1 => Len(buffer) + 1 <= strays)
    BY <1>0 DEF LineInv, Room
  <2>4. ASSUME ~Cut(f), Len(buffer) + 1 <= strays
        PROVE  Len(buffer') + Len(line') <= Len(sent') + strays'
    BY <1>0, <1>2, <2>1, <2>2, <2>4
  <2>5. line' # <<>>
    BY <1>2
  <2> QED  BY <1>a, <2>2, <2>3, <2>4, <2>5, Zenon DEF Room
<1>5. Whole'
  <2>1. state' = state
    BY <1>0 DEF fvars
  <2> QED  BY <1>0, <1>a, <1>2, <2>1 DEF Whole
<1> QED  BY <1>1, <1>3, <1>4, <1>5 DEF LineInv

LEMMA StrayKeeps ==
  ASSUME LineInv, NEW c \in Alphabet, Stray(c) PROVE LineInv'
<1>1. PICK room \in BOOLEAN : Receive(c, room)
  BY DEF Stray
<1>2. /\ strays' = strays + 1 /\ whole' = (whole /\ line = <<>>)
      /\ line' = line /\ sent' = sent /\ endLost' = endLost
  BY DEF Stray
<1>3. c \in Classes /\ FInv /\ LineOK /\ Room
  BY FrameParserAssumption DEF LineInv
<1>4. FInv'
  BY <1>1, <1>3, ReceiveStep
<1>5. LineOK'
  BY <1>2, <1>3 DEF LineOK
<1>6. Whole'
  BY <1>2 DEF Whole
<1>7. ASSUME ~endLost, ~overrun', state' = 1
      PROVE  /\ line = <<>> => Len(buffer') + 1 <= strays + 1
             /\ line # <<>> => Len(buffer') + Len(line) <= Len(sent) + (strays + 1)
  <2>0. /\ Len(buffer) \in Nat /\ strays \in Nat /\ Len(line) \in Nat
        /\ buffer \in Seq(Classes)
    BY <1>3, LenProperties DEF FInv, BufferOK, LineOK
  <2>00. line # <<>> => Len(sent) \in Nat /\ Len(line) <= Len(sent) + 1
    BY <1>3, Bounds DEF LineOK
  <2>1. Opens(c) \/ Resets(c) \/ Collects(c) \/ Closes(c) \/ Overruns(c)
    BY <1>1, <1>3, ReceiveEffect
  <2>2. CASE Opens(c)
    <3>1. Len(buffer') = 0
      BY <2>2 DEF Opens
    <3> QED  BY <3>1, <2>0, <2>00
  <2>3. CASE Resets(c) \/ Closes(c)
    BY <1>7, <2>3 DEF Resets, Closes
  <2>4. CASE Collects(c)
    <3>1. state = 1 /\ Len(buffer') = Len(buffer) + 1 /\ ~overrun
      BY <1>1, <2>0, <2>4, <1>3 DEF Collects, Receive
    <3> QED  BY <1>3, <1>7, <3>1, <2>0, <2>00 DEF Room
  <2>5. CASE Overruns(c)
    BY <1>7, <2>5 DEF Overruns
  <2> QED  BY <2>1, <2>2, <2>3, <2>4, <2>5
<1>8. Room'
  BY <1>2, <1>7 DEF Room
<1> QED  BY <1>4, <1>5, <1>6, <1>8 DEF LineInv

LEMMA LoseKeeps == ASSUME LineInv, Lose PROVE LineInv'
<1>1. /\ line # <<>> /\ line' = Tail(line) /\ whole' = FALSE
      /\ endLost' = (endLost \/ Len(line) = 1)
      /\ UNCHANGED fvars /\ sent' = sent /\ strays' = strays
  BY DEF Lose
<1>a. /\ whole' \in BOOLEAN /\ endLost' \in BOOLEAN
      /\ ~endLost' => ~endLost /\ Len(line) # 1
  BY <1>1, Zenon
<1>2. FInv'
  BY <1>1, FrameStutters DEF LineInv
<1>3. /\ Len(line) \in Nat \ {0} /\ line' \in Seq(Classes) /\ Len(line') = Len(line) - 1
      /\ \A i \in 1..Len(line') : line'[i] = line[i + 1]
      /\ (line' = <<>>) <=> (Len(line) = 1)
  BY <1>1, HeadTail DEF LineInv, LineOK
<1>4. sent \in Frames /\ Len(sent) \in Nat /\ Len(line) <= Len(sent) + 1
  BY <1>1, Bounds DEF LineInv, LineOK
<1>5. LineOK'
  <2>1. line' # <<>> => line'[Len(line')] = line[Len(line)]
    BY <1>3
  <2>2. strays' \in Nat /\ sent' \in Frames \cup {<<>>} /\ Len(line') <= Len(sent') + 1
    BY <1>1, <1>3, <1>4 DEF LineInv, LineOK
  <2>3. ~endLost => line[Len(line)] = "dollar"
    BY <1>1 DEF LineInv, LineOK
  <2>4. line' \in Seq(Classes) /\ sent' \in Frames
    BY <1>1, <1>3, <1>4
  <2> QED  BY <1>a, <2>1, <2>2, <2>3, <2>4, Zenon DEF LineOK
<1>6. Room'
  <2>1. Len(buffer) \in Nat /\ strays \in Nat
    BY LenProperties DEF LineInv, FInv, BufferOK, LineOK
  <2>2. UNCHANGED <<state, buffer, overrun>>
    BY <1>1 DEF fvars
  <2>3. ~endLost /\ ~overrun /\ state = 1 => Len(buffer) + Len(line) <= Len(sent) + strays
    BY <1>1 DEF LineInv, Room
  <2>4. ASSUME Len(buffer) + Len(line) <= Len(sent) + strays
        PROVE  Len(buffer') + Len(line') <= Len(sent') + strays'
    BY <1>1, <1>3, <1>4, <2>1, <2>2, <2>4
  <2> QED  BY <1>a, <1>3, <2>2, <2>3, <2>4, Zenon DEF Room
<1>7. Whole'
  BY <1>1 DEF Whole
<1> QED  BY <1>2, <1>5, <1>6, <1>7 DEF LineInv

\* The next byte of the line: what the rest of it then is, and why a whole
\* frame loses nothing to the buffer.
LEMMA ArriveKeeps ==
  ASSUME LineInv, Arrive
  PROVE  /\ LineInv'
         /\ line' = <<>> /\ whole' => last'.text = sent /\ sent \in Frames
<1>1. /\ line # <<>> /\ line' = Tail(line) /\ whole' = whole
      /\ sent' = sent /\ endLost' = endLost /\ strays' = strays
  BY DEF Arrive
<1> DEFINE c == Head(line)
<1>2. PICK room \in BOOLEAN : Receive(c, room)
  BY DEF Arrive
<1>3. FInv /\ LineOK /\ Room /\ Whole
  BY DEF LineInv
<1>4. /\ Len(line) \in Nat \ {0} /\ c = line[1] /\ c \in Classes
      /\ line' \in Seq(Classes) /\ Len(line') = Len(line) - 1
      /\ \A i \in 1..Len(line') : line'[i] = line[i + 1]
      /\ (line' = <<>>) <=> (Len(line) = 1)
  BY <1>1, <1>3, HeadTail DEF LineOK
<1>5. /\ sent \in Frames /\ sent \in Seq(Classes) /\ Len(sent) \in Nat \ {0}
      /\ Len(line) <= Len(sent) + 1
  BY <1>1, <1>3, Bounds DEF LineOK
<1>6. Len(buffer) \in Nat /\ strays \in Nat /\ buffer \in Seq(Classes)
  BY <1>3, LenProperties DEF FInv, BufferOK, LineOK
<1> HIDE DEF c
<1>7. Opens(c) \/ Resets(c) \/ Collects(c) \/ Closes(c) \/ Overruns(c)
  BY <1>2, <1>3, <1>4, ReceiveEffect
<1>8. FInv'
  BY <1>2, <1>3, <1>4, ReceiveStep
<1>9. LineOK'
  <2>1. line' # <<>> => line'[Len(line')] = line[Len(line)]
    BY <1>4
  <2> QED  BY <1>1, <1>3, <1>4, <1>5, <2>1 DEF LineOK
<1>10. ~endLost => c = "dollar" \/ line' # <<>>
  BY <1>1, <1>3, <1>4 DEF LineOK
<1>11. ASSUME ~endLost, ~overrun', state' = 1
       PROVE  line' # <<>> /\ Len(buffer') + Len(line') <= Len(sent) + strays
  <2>1. CASE Opens(c)
    <3>1. Len(buffer') = 0 /\ c # "dollar"
      BY <2>1 DEF Opens
    <3> QED  BY <1>4, <1>5, <1>6, <1>10, <1>11, <3>1
  <2>2. CASE Resets(c) \/ Closes(c)
    BY <1>11, <2>2 DEF Resets, Closes
  <2>3. CASE Collects(c)
    <3>1. state = 1 /\ Len(buffer') = Len(buffer) + 1 /\ ~overrun /\ c # "dollar"
      BY <1>2, <1>6, <2>3, <1>4 DEF Collects, Receive
    <3>2. Len(buffer) + Len(line) <= Len(sent) + strays
      BY <1>1, <1>3, <1>11, <3>1 DEF Room
    <3> QED  BY <3>1, <3>2, <1>4, <1>5, <1>6, <1>10, <1>11
  <2>4. CASE Overruns(c)
    BY <1>11, <2>4 DEF Overruns
  <2> QED  BY <1>7, <2>1, <2>2, <2>3, <2>4
<1>12. Room'
  BY <1>1, <1>11 DEF Room
<1>13. CASE ~whole
  BY <1>1, <1>8, <1>9, <1>12, <1>13 DEF LineInv, Whole
<1>14. CASE whole /\ line = <<"hash">> \o sent /\ state = 0
  <2>0. ~endLost /\ Len(sent) <= BufferSize
    BY <1>1, <1>3, <1>14 DEF Whole
  <2>1. c = "hash" /\ Len(line) = Len(sent) + 1 /\ \A i \in 1..Len(sent) : line[i + 1] = sent[i]
    BY <1>4, <1>5, <1>14
  <2>2. line' = sent
    BY <1>4, <1>5, <2>1, SeqEqual
  <2>3. Opens(c)
    BY <1>7, <1>14, <2>1 DEF Opens, Resets, Collects, Closes, Overruns
  <2>4. state' = 1 /\ buffer' \o line' = sent'
    BY <1>1, <1>5, <2>2, <2>3 DEF Opens
  <2>5. line' # <<>>
    BY <1>5, <2>2
  <2> QED  BY <1>1, <1>8, <1>9, <1>12, <2>0, <2>4, <2>5 DEF LineInv, Whole
<1>15. CASE whole /\ state = 1 /\ buffer \o line = sent
  <2>1. /\ Len(sent) = Len(buffer) + Len(line)
        /\ sent[Len(buffer) + 1] = c
        /\ Len(buffer) < Len(sent) /\ Len(sent) <= BufferSize /\ ~endLost
    BY <1>1, <1>4, <1>5, <1>6, <1>15, <1>3, Bounds DEF LineOK, Whole
  <2>2. CASE line' = <<>>
    <3>1. Len(line) = 1 /\ c = "dollar"
      BY <1>4, <1>10, <2>1, <2>2
    <3>2. Closes(c)
      BY <1>6, <1>7, <1>15, <2>1, <3>1, Bounds DEF Opens, Resets, Collects, Closes, Overruns
    <3>3. Append(buffer, c) = sent
      <4>1. line = <<c>>
        <5>1. <<c>> \in Seq(Classes) /\ Len(<<c>>) = 1 /\ <<c>>[1] = c
          BY <1>4
        <5>2. \A i \in 1..Len(line) : line[i] = <<c>>[i]
          <6>1. line[1] = <<c>>[1]
            BY <1>4, <5>1
          <6>2. \A i \in 1..Len(line) : i = 1
            BY <3>1
          <6> QED  BY <6>1, <6>2
        <5>3. line \in Seq(Classes)
          BY <1>3 DEF LineOK
        <5> QED  BY <3>1, <5>1, <5>2, <5>3, SeqEqual
      <4>2. Append(buffer, c) = buffer \o <<c>>
        BY <1>4, <1>6, ByteAppended
      <4> QED  BY <1>15, <4>1, <4>2
    <3>4. last'.text = sent
      BY <3>2, <3>3 DEF Closes
    <3> QED  BY <1>5, <1>8, <1>9, <1>12, <2>2, <3>4 DEF LineInv, Whole
  <2>3. CASE line' # <<>>
    <3>1. Len(line) > 1 /\ Len(buffer) + 1 \in 1..(Len(sent) - 1)
      BY <1>4, <1>5, <1>6, <2>1, <2>3
    <3>2. c \notin {"dollar", "junk"}
      BY <1>5, <2>1, <3>1, Bounds
    <3>3. Collects(c)
      BY <1>6, <1>7, <1>15, <2>1, <3>2, Bounds DEF Opens, Resets, Collects, Closes, Overruns
    <3>4. state' = 1 /\ buffer' = Append(buffer, c)
      BY <3>3 DEF Collects
    <3>5. Append(buffer, c) \o line' = buffer \o line
      <4>1. Append(buffer, c) = buffer \o <<c>>
        BY <1>4, <1>6, ByteAppended
      <4>2. <<c>> \in Seq(Classes) /\ Len(<<c>>) = 1 /\ <<c>>[1] = c
        BY <1>4
      <4>3. line = <<c>> \o line'
        <5>1. /\ <<c>> \o line' \in Seq(Classes) /\ Len(<<c>> \o line') = Len(line)
              /\ \A i \in 1..Len(line) :
                   (<<c>> \o line')[i] = IF i = 1 THEN c ELSE line'[i - 1]
          BY <1>4, <4>2
        <5>2. \A i \in 1..Len(line) : (<<c>> \o line')[i] = line[i]
          BY <1>4, <5>1
        <5> QED  BY <1>3, <5>1, <5>2, SeqEqual DEF LineOK
      <4>4. (buffer \o <<c>>) \o line' = buffer \o (<<c>> \o line')
        BY <1>4, <1>6, <4>2, Associative
      <4> QED  BY <4>1, <4>3, <4>4
    <3>6. state' = 1 /\ buffer' \o line' = sent'
      BY <1>1, <1>15, <3>4, <3>5
    <3> QED  BY <1>1, <1>8, <1>9, <1>12, <2>1, <2>3, <3>6 DEF LineInv, Whole
  <2> QED  BY <2>2, <2>3
<1> QED  BY <1>1, <1>3, <1>13, <1>14, <1>15 DEF Whole

\* The invariant of the parser on a link.
THEOREM LineInvariance == Spec => []LineInv
<1>1. Init => LineInv
  <2> SUFFICES ASSUME Init PROVE LineInv
    OBVIOUS
  <2>1. /\ FrameInit /\ line = <<>> /\ sent = <<>> /\ whole = FALSE /\ endLost = FALSE /\ strays = 0
    BY DEF Init
  <2>2. FInv
    BY <2>1, FrameInitHolds
  <2>3. LineOK
    <3>1. endLost \in BOOLEAN /\ whole \in BOOLEAN
      BY <2>1, Zenon
    <3>2. line = <<>> /\ line \in Seq(Classes) /\ strays \in Nat /\ sent \in Frames \cup {<<>>}
      BY <2>1
    <3> QED  BY <3>1, <3>2, Zenon DEF LineOK
  <2>4. state = 0 /\ overrun = FALSE
    BY <2>1 DEF FrameInit
  <2> QED  BY <2>1, <2>2, <2>3, <2>4 DEF LineInv, Room, Whole
<1>2. LineInv /\ [Next]_<<fvars, evars>> => LineInv'
  <2> SUFFICES ASSUME LineInv, [Next]_<<fvars, evars>> PROVE LineInv'
    OBVIOUS
  <2>1. ASSUME NEW f \in Frames, SendFrame(f) PROVE LineInv'
    BY <2>1, SendKeeps
  <2>2. CASE Arrive
    BY <2>2, ArriveKeeps
  <2>3. CASE Lose
    BY <2>3, LoseKeeps
  <2>4. ASSUME NEW c \in Alphabet, Stray(c) PROVE LineInv'
    BY <2>4, StrayKeeps
  <2>5. CASE UNCHANGED <<fvars, evars>>
    <3>1. FInv'
      BY <2>5, FrameStutters DEF LineInv
    <3> QED  BY <2>5, <3>1 DEF LineInv, LineOK, Room, Whole, fvars, evars
  <2> QED  BY <2>1, <2>2, <2>3, <2>4, <2>5 DEF Next
<1> QED  BY <1>1, <1>2, PTL DEF Spec

\* A byte outgrows the buffer only behind a frame that lost its '$', or with
\* more strays than the buffer has room for beside the frame.
LEMMA OverrunBounds ==
  ASSUME LineInv, ~endLost, ~overrun, NEW c \in Classes, Overruns(c)
  PROVE  /\ line = <<>> => strays > BufferSize
         /\ line # <<>> => strays + Len(sent) > BufferSize
<1>1. state = 1 /\ Len(buffer) >= BufferSize
  <2>1. Len(buffer) \in Nat /\ BufferSize \in Nat
    BY Bounds, LenProperties DEF LineInv, FInv, BufferOK
  <2> QED  BY <2>1 DEF Overruns
<1>2. Len(buffer) \in Nat /\ strays \in Nat /\ BufferSize \in Nat
  BY Bounds, LenProperties DEF LineInv, FInv, BufferOK, LineOK
<1>3. CASE line = <<>>
  BY <1>1, <1>2, <1>3 DEF LineInv, Room
<1>4. CASE line # <<>>
  <2>1. Len(line) \in Nat \ {0} /\ Len(sent) \in Nat
    BY <1>4, Bounds, EmptySeq DEF LineInv, LineOK
  <2> QED  BY <1>1, <1>2, <1>4, <2>1 DEF LineInv, Room
<1> QED  BY <1>3, <1>4

\* The index leaves tdParser's buffer only behind a frame whose '$' was lost or
\* cut off, or with too many strays beside it: what earlier frames left behind
\* costs no room.
THEOREM StaysInBounds == Spec => OverrunNeedsLostEnd
<1>1. LineInv /\ [Next]_<<fvars, evars>> =>
        [ ~overrun /\ overrun' =>
            endLost \/ strays' + Len(sent) > BufferSize ]_<<fvars, evars>>
  <2> SUFFICES ASSUME LineInv, Next, ~overrun, overrun', ~endLost
               PROVE  strays' + Len(sent) > BufferSize
    OBVIOUS
  <2>1. ~(\E f \in Frames : SendFrame(f)) /\ ~Lose
    BY DEF SendFrame, Lose, fvars
  <2>2. strays \in Nat /\ BufferSize \in Nat
    BY Bounds DEF LineInv, LineOK
  <2>3. CASE Arrive
    <3>1. line # <<>> /\ strays' = strays
      BY <2>3 DEF Arrive
    <3>2. PICK c \in Classes : c = Head(line)
      BY <3>1, HeadTail DEF LineInv, LineOK
    <3>3. PICK room \in BOOLEAN : Receive(c, room)
      BY <2>3, <3>2 DEF Arrive
    <3>4. Overruns(c)
      BY <3>3, ReceiveEffect DEF LineInv, Opens, Resets, Collects, Closes
    <3> QED  BY <3>1, <3>4, OverrunBounds
  <2>4. ASSUME NEW c \in Alphabet, Stray(c) PROVE strays' + Len(sent) > BufferSize
    <3>1. c \in Classes /\ strays' = strays + 1
      BY <2>4, FrameParserAssumption DEF Stray
    <3>2. PICK room \in BOOLEAN : Receive(c, room)
      BY <2>4 DEF Stray
    <3>3. Overruns(c)
      BY <3>1, <3>2, ReceiveEffect DEF LineInv, Opens, Resets, Collects, Closes
    <3>4. Len(sent) \in Nat
      BY Bounds, EmptySeq DEF LineInv, LineOK
    <3> QED  BY <2>2, <3>1, <3>3, <3>4, OverrunBounds
  <2> QED  BY <2>1, <2>3, <2>4 DEF Next
<1> QED  BY <1>1, LineInvariance, PTL DEF Spec, OverrunNeedsLostEnd

\* A frame that arrives whole at an idle parser is parsed as it was sent, and
\* posted if it is well formed and there is room, whatever came before it.
THEOREM WholeFramesGetThrough == Spec => WholeFrameIsParsed
<1> DEFINE Ended == line # <<>> /\ line' = <<>> /\ whole'
           AsSent == /\ last'.text = sent
                     /\ WellFormed(sent) /\ last'.room =>
                          \E m \in last'.posted : Text(m) = sent
<1>1. LineInv /\ LineInv' /\ [Next]_<<fvars, evars>> => [Ended => AsSent]_<<fvars, evars>>
  <2> SUFFICES ASSUME LineInv, LineInv', Next, Ended PROVE AsSent
    OBVIOUS
  <2>1. line # <<>> /\ line' # line
    OBVIOUS
  <2>2. ~(\E f \in Frames : SendFrame(f)) /\ ~(\E c \in Alphabet : Stray(c)) /\ ~Lose
    BY <2>1 DEF SendFrame, Stray, Lose
  <2>3. Arrive
    BY <2>2 DEF Next
  <2>4. last'.text = sent
    BY <2>3, ArriveKeeps
  <2>5. WellFormedIsPosted'
    BY DEF LineInv, FInv, LastOK
  <2> QED  BY <2>4, <2>5 DEF WellFormedIsPosted
<1> QED  BY <1>1, LineInvariance, PTL DEF Spec, WholeFrameIsParsed
=============================================================================
