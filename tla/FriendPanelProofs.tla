-------------------------- MODULE FriendPanelProofs -------------------------
(***************************************************************************)
(* The two directions on the friend's screen are of one reading, for any   *)
(* updates: what a round has printed so far is enough of an invariant.     *)
(* And a friend is stored, and then shown, in a bounded number of steps.   *)
(***************************************************************************)
EXTENDS FriendPanel, TLAPS

-----------------------------------------------------------------------------
\* Where the round is: on which screen, and line 3 when it has been printed.
RoundOK ==
  /\ upc \in {"top", "switch", "friend", "other", "end"}
  /\ row \in Lines
  /\ lcd \in [Lines -> Values]
  /\ upc = "friend" => shown = "FRIEND_INFO"
  /\ upc = "other" => shown # "FRIEND_INFO"

Line3OK ==
  /\ upc = "friend" /\ row = 4 /\ clean => lcd[3] = angle
  /\ upc = "end" /\ shown = "FRIEND_INFO" /\ clean => lcd[3] = angle /\ led = angle

\* What is printed is a value.
ValuesOK ==
  /\ info \in [Fields -> Values]
  /\ angle \in Values /\ target \in Values

IInv == RoundOK /\ Line3OK /\ ValuesOK

LEMMA FieldValues ==
  ASSUME ValuesOK, NEW r \in Lines
  PROVE  CardinalAngle(r) \in Values /\ Text(r) \in Values
<1>1. info["id"] \in Values /\ info["place"] \in Values
      /\ info["angle"] \in Values /\ info["distance"] \in Values /\ angle \in Values
  BY DEF ValuesOK, Fields
<1>2. r = 1 \/ r = 2 \/ r = 3 \/ r = 4
  BY DEF Lines
<1> QED  BY <1>1, <1>2 DEF CardinalAngle, Text

\* A line is printed in its place, or the round is no longer clean.
LEMMA Printed ==
  ASSUME lcd \in [Lines -> Values], NEW l \in Lines, NEW val \in Values, PrintLine(l, val)
  PROVE  /\ lcd' \in [Lines -> Values]
         /\ \/ ~clean'
            \/ clean' = clean /\ lcd'[l] = val /\ \A k \in Lines \ {l} : lcd'[k] = lcd[k]
BY DEF PrintLine, Values, Junk

LEMMA FriendLineStep ==
  ASSUME IInv, UiFriendLine
  PROVE  IInv'
<1>1. /\ upc = "friend" /\ row \in Lines /\ shown = "FRIEND_INFO"
      /\ angle' = CardinalAngle(row) /\ PrintLine(row, Text(row))
      /\ UNCHANGED <<menu, info, target, todo, shown, prev, faulty>>
  BY DEF IInv, RoundOK, UiFriendLine, dataVars
<1>2. CardinalAngle(row) \in Values /\ Text(row) \in Values
  BY <1>1, FieldValues DEF IInv
<1>3. /\ lcd' \in [Lines -> Values]
      /\ \/ ~clean'
         \/ clean' = clean /\ lcd'[row] = Text(row) /\ \A k \in Lines \ {row} : lcd'[k] = lcd[k]
  BY <1>1, <1>2, Printed DEF IInv, RoundOK
<1>4. \/ row < 4 /\ row' = row + 1 /\ upc' = "friend" /\ led' = led
      \/ row = 4 /\ row' = 4 /\ upc' = "end" /\ led' = angle'
  <2>1. row \in 1..4
    BY <1>1 DEF Lines
  <2> QED  BY <2>1, <1>1 DEF UiFriendLine
<1>5. RoundOK'
  BY <1>1, <1>3, <1>4 DEF RoundOK, Lines
<1>6. ValuesOK'
  BY <1>1, <1>2 DEF IInv, ValuesOK
<1>7. CASE row' = 4 /\ row = 3
  <2>1. Text(row) = angle /\ angle' = angle
    BY <1>1, <1>7 DEF Text, CardinalAngle
  <2>2. ~clean' \/ lcd'[3] = angle'
    BY <2>1, <1>3, <1>7
  <2>3. upc' = "friend"
    BY <1>4, <1>7
  <2> QED  BY <2>2, <2>3, <1>5, <1>6 DEF IInv, Line3OK
<1>8. CASE row = 4
  <2>1. angle' = angle /\ upc' = "end" /\ led' = angle'
    BY <1>1, <1>4, <1>8 DEF CardinalAngle
  <2>2. 3 \in Lines \ {row}
    BY <1>8 DEF Lines
  <2>3. ~clean' \/ lcd'[3] = angle'
    BY <2>1, <2>2, <1>1, <1>3, <1>8 DEF IInv, Line3OK
  <2> QED  BY <2>1, <2>3, <1>5, <1>6 DEF IInv, Line3OK
<1>9. CASE row' # 4
  <2>1. upc' = "friend"
    BY <1>4, <1>9
  <2> QED  BY <2>1, <1>9, <1>5, <1>6 DEF IInv, Line3OK
<1> QED  BY <1>4, <1>7, <1>8, <1>9, <1>1 DEF Lines

\* The other steps: tdComp and the user change no output, and the rest of the
\* round begins or ends.
LEMMA OtherSteps ==
  ASSUME IInv, [Next]_vars, ~UiFriendLine
  PROVE  IInv'
<1>1. CASE UNCHANGED <<upc, row, angle, shown, lcd, led, clean>>
  <2>1. RoundOK' /\ Line3OK'
    BY <1>1 DEF IInv, RoundOK, Line3OK
  <2>2. ValuesOK'
    <3>1. CASE UNCHANGED <<info, target>>
      BY <1>1, <3>1 DEF IInv, ValuesOK
    <3>2. CASE \E u \in Values : UIUpdateNearestFriendInfo(u)
      BY <1>1, <3>2 DEF IInv, ValuesOK, UIUpdateNearestFriendInfo
    <3>3. CASE CompStores
      <4>1. PICK f \in Fields : StoreField(f)
        BY <3>3 DEF CompStores
      <4>2. target' = target /\ (info' = [info EXCEPT ![f] = Junk] \/ info' = [info EXCEPT ![f] = target])
        BY <4>1 DEF StoreField
      <4> QED  BY <1>1, <4>2 DEF IInv, ValuesOK, Values
    <3> QED  BY <3>1, <3>2, <3>3 DEF Next, vars, dataVars, Turn, BusChanges, UiStep, UiTop,
                 UiSwitch, UiFriendLine, UiOther, UiEnd
  <2> QED  BY <2>1, <2>2 DEF IInv
<1>2. ASSUME UNCHANGED <<info, target, angle>>, RoundOK', Line3OK'
      PROVE  IInv'
  BY <1>2 DEF IInv, ValuesOK
<1>3. CASE UiTop
  <2>1. lcd' \in [Lines -> Values]
    BY <1>3 DEF IInv, RoundOK, UiTop, Values
  <2>2. upc' = "switch" /\ row' = row
    BY <1>3 DEF UiTop
  <2> QED  BY <2>1, <2>2, <1>2, <1>3 DEF IInv, RoundOK, Line3OK, UiTop, dataVars
<1>4. CASE UiSwitch
  <2>1. /\ row' = 1 /\ lcd' = lcd /\ shown' = menu
        /\ upc' = IF menu = "FRIEND_INFO" THEN "friend" ELSE "other"
    BY <1>4 DEF UiSwitch, outVars
  <2>2. RoundOK' /\ Line3OK'
    BY <2>1 DEF IInv, RoundOK, Line3OK, Lines
  <2> QED  BY <2>2, <1>2, <1>4 DEF UiSwitch, dataVars
<1>5. CASE UiOther
  <2>1. /\ upc = "other" /\ upc' = "end" /\ row' = row /\ shown' = shown
        /\ lcd' = [l \in Lines |-> Junk]
    BY <1>5 DEF UiOther
  <2>2. RoundOK' /\ Line3OK'
    BY <2>1 DEF IInv, RoundOK, Line3OK, Values
  <2> QED  BY <2>2, <1>2, <1>5 DEF UiOther, dataVars
<1>6. CASE UiEnd
  <2>1. upc' = "top" /\ UNCHANGED <<row, shown, lcd>>
    BY <1>6 DEF UiEnd, outVars
  <2>2. RoundOK' /\ Line3OK'
    BY <2>1 DEF IInv, RoundOK, Line3OK
  <2> QED  BY <2>2, <1>2, <1>6 DEF UiEnd, dataVars
<1> QED  BY <1>1, <1>3, <1>4, <1>5, <1>6 DEF Next, vars, uiVars, outVars, Turn,
             UIUpdateNearestFriendInfo, CompStores, StoreField, UiStep, BusChanges

-----------------------------------------------------------------------------
\* The invariant holds.
LEMMA Invariance == Spec => []IInv
<1>1. Init => IInv
  <2> SUFFICES ASSUME Init PROVE IInv
    OBVIOUS
  <2>1. RoundOK
    BY DEF Init, RoundOK, Lines, Values
  <2>2. Line3OK
    BY DEF Init, Line3OK
  <2>3. ValuesOK
    BY DEF Init, ValuesOK, Values
  <2> QED  BY <2>1, <2>2, <2>3 DEF IInv
<1>2. IInv /\ [Next]_vars => IInv'
  BY FriendLineStep, OtherSteps
<1> QED  BY <1>1, <1>2, PTL DEF Spec

\* UI_ShowFriendInfo prints line 3 and lights the LEDs from one reading of the
\* angle, whatever tdComp stores in between and whatever was shown before.
THEOREM DirectionsAgreeSafe == Spec => []DirectionsAgree
<1>1. IInv => DirectionsAgree
  BY DEF IInv, Line3OK, DirectionsAgree
<1> QED  BY <1>1, Invariance, PTL

\* The rest of the types.
RestOK ==
  /\ menu \in {"FRIEND_INFO", "MY_INFO"} /\ shown \in {"FRIEND_INFO", "MY_INFO"}
  /\ prev \in {"FRIEND_INFO", "MY_INFO", "MENU_COUNT"}
  /\ todo \subseteq Fields
  /\ led \in Values
TruthsOK == faulty \in BOOLEAN /\ clean \in BOOLEAN

\* Every text, on the display and the LEDs, is of an update or is Junk.
THEOREM TypeCorrect == Spec => []TypeOK
<1>1. Init => RestOK /\ TruthsOK
  BY DEF Init, RestOK, TruthsOK, Values
<1>2. IInv /\ RestOK /\ [Next]_vars => RestOK'
  <2> SUFFICES ASSUME IInv, RestOK, [Next]_vars PROVE RestOK'
    OBVIOUS
  <2>1. CASE UiFriendLine
    <3>1. CardinalAngle(row) \in Values
      BY FieldValues DEF IInv, RoundOK
    <3>2. led' = led \/ led' = CardinalAngle(row)
      BY <2>1 DEF UiFriendLine
    <3> QED  BY <2>1, <3>1, <3>2 DEF RestOK, UiFriendLine, dataVars
  <2>2. CASE UiTop \/ UiSwitch \/ UiOther \/ UiEnd
    BY <2>2 DEF RestOK, UiTop, UiSwitch, UiOther, UiEnd, dataVars, outVars, Values
  <2>3. CASE \E screen \in {"FRIEND_INFO", "MY_INFO"} : Turn(screen)
    BY <2>3 DEF RestOK, Turn, dataVars, uiVars, outVars
  <2>4. CASE \E u \in Values : UIUpdateNearestFriendInfo(u)
    BY <2>4 DEF RestOK, UIUpdateNearestFriendInfo, uiVars, outVars
  <2>5. CASE CompStores
    <3>1. PICK f \in Fields : StoreField(f)
      BY <2>5 DEF CompStores
    <3>2. todo' = todo \/ todo' = todo \ {f}
      BY <3>1 DEF StoreField
    <3> QED  BY <3>1, <3>2 DEF RestOK, StoreField, uiVars, outVars
  <2>6. CASE BusChanges \/ UNCHANGED vars
    BY <2>6 DEF RestOK, BusChanges, vars, dataVars, uiVars, outVars
  <2> QED  BY <2>1, <2>2, <2>3, <2>4, <2>5, <2>6 DEF Next, UiStep
<1>3. TruthsOK /\ [Next]_vars => TruthsOK'
  BY DEF TruthsOK, Next, vars, dataVars, uiVars, outVars, Turn, UIUpdateNearestFriendInfo, CompStores,
         StoreField, UiStep, UiTop, UiSwitch, UiFriendLine, PrintLine, UiOther, UiEnd, BusChanges
<1>4. IInv /\ RestOK /\ TruthsOK => TypeOK
  BY Zenon DEF IInv, RoundOK, ValuesOK, RestOK, TruthsOK, TypeOK
<1> QED  BY <1>1, <1>2, <1>3, <1>4, Invariance, PTL DEF Spec

-----------------------------------------------------------------------------
\* What is left of a wait.  Fairness is beyond the prover, but not what makes
\* it enough: each step of tdComp, and then each of tdUI, brings the whole
\* friend nearer, and no step of the others puts it off.

\* What tdComp has still to store: two stores for a field that it will tear.
Weight(f) ==
  IF f \notin todo THEN 0
  ELSE IF f # "id" /\ info[f] \notin {Junk, target} THEN 2 ELSE 1
Stored == \A f \in Fields : info[f] = target
StoreLag ==
  IF Stored THEN 0
  ELSE Weight("id") + Weight("place") + Weight("angle") + Weight("distance")

StoreGetsCloser ==
  [][ target' = target =>
        /\ StoreLag' <= StoreLag
        /\ CompStores /\ StoreLag > 0 => StoreLag' < StoreLag ]_vars

\* What tdComp is not storing any more it has stored.
StoredInv == \A f \in Fields : f \in todo \/ info[f] = target

\* Only tdComp stores.
LEMMA OthersLeaveData ==
  ASSUME [Next]_vars, ~CompStores, ~(\E u \in Values : UIUpdateNearestFriendInfo(u))
  PROVE  UNCHANGED dataVars
BY DEF Next, vars, Turn, UiStep, UiTop, UiSwitch, UiFriendLine, UiOther, UiEnd, BusChanges

LEMMA StoredStep == TypeOK /\ StoredInv /\ [Next]_vars => StoredInv'
<1> SUFFICES ASSUME TypeOK, StoredInv, [Next]_vars PROVE StoredInv'
  OBVIOUS
<1>1. CASE CompStores
  <2>1. PICK f \in Fields : StoreField(f)
    BY <1>1 DEF CompStores
  <2>2. info \in [Fields -> Values]
    BY DEF TypeOK
  <2>3. target' = target
        /\ \/ todo' = todo /\ f \in todo /\ info' = [info EXCEPT ![f] = Junk]
           \/ todo' = todo \ {f} /\ info' = [info EXCEPT ![f] = target]
    BY <2>1 DEF StoreField
  <2> QED  BY <2>2, <2>3 DEF StoredInv
<1>2. CASE \E u \in Values : UIUpdateNearestFriendInfo(u)
  BY <1>2 DEF UIUpdateNearestFriendInfo, StoredInv
<1>3. CASE UNCHANGED dataVars
  BY <1>3 DEF dataVars, StoredInv
<1> QED  BY <1>1, <1>2, <1>3, OthersLeaveData

LEMMA StoredSafe == Spec => []StoredInv
<1>1. Init => StoredInv
  BY DEF Init, StoredInv
<1> QED  BY <1>1, StoredStep, TypeCorrect, PTL DEF Spec

LEMMA Weights == \A f : Weight(f) \in 0..2 /\ (f \in todo => Weight(f) >= 1)
BY DEF Weight

\* A store makes its field lighter and leaves the others.
LEMMA StoreLightens ==
  ASSUME TypeOK, NEW f \in Fields, StoreField(f)
  PROVE  /\ Weight(f)' < Weight(f)
         /\ \A g \in Fields \ {f} : Weight(g)' = Weight(g)
<1>1. info \in [Fields -> Values] /\ target' = target /\ f \in todo
  BY DEF TypeOK, StoreField
<1>2. CASE f # "id" /\ info[f] \notin {Junk, target}
  <2>1. info' = [info EXCEPT ![f] = Junk] /\ todo' = todo
    BY <1>2 DEF StoreField
  <2>2. Weight(f) = 2 /\ info'[f] = Junk
    BY <1>1, <1>2, <2>1 DEF Weight
  <2>3. Weight(f)' = 1
    BY <1>1, <2>1, <2>2 DEF Weight
  <2>4. \A g \in Fields \ {f} : Weight(g)' = Weight(g)
    BY <1>1, <2>1 DEF Weight
  <2> QED  BY <2>2, <2>3, <2>4
<1>3. CASE ~(f # "id" /\ info[f] \notin {Junk, target})
  <2>1. info' = [info EXCEPT ![f] = target] /\ todo' = todo \ {f}
    BY <1>3 DEF StoreField
  <2>2. Weight(f) = 1 /\ Weight(f)' = 0
    BY <1>1, <1>3, <2>1 DEF Weight
  <2>3. \A g \in Fields \ {f} : Weight(g)' = Weight(g)
    BY <1>1, <2>1 DEF Weight
  <2> QED  BY <2>2, <2>3
<1> QED  BY <1>2, <1>3

LEMMA StoreNearer ==
  ASSUME TypeOK, StoredInv, CompStores
  PROVE  IF Stored THEN Stored' ELSE StoreLag' < StoreLag
<1>1. PICK f \in Fields : StoreField(f)
  BY DEF CompStores
<1>2. info \in [Fields -> Values] /\ target' = target
  BY <1>1 DEF TypeOK, StoreField
<1>3. CASE Stored
  <2>1. info' = [info EXCEPT ![f] = target]
    BY <1>1, <1>3 DEF StoreField, Stored
  <2> QED  BY <1>2, <1>3, <2>1 DEF Stored
<1>4. CASE ~Stored
  <2>1. PICK g \in Fields : Weight(g) >= 1
    BY <1>4, Weights DEF Stored, StoredInv
  <2>2. /\ Weight(f)' < Weight(f)
        /\ \A h \in Fields \ {f} : Weight(h)' = Weight(h)
    BY <1>1, StoreLightens
  <2>3. \A h : Weight(h) \in 0..2
    BY Weights
  <2>4. Weight(f)' \in 0..2
    BY DEF Weight
  <2>5. f \in {"id", "place", "angle", "distance"} /\ g \in {"id", "place", "angle", "distance"}
    BY DEF Fields
  <2>6. Weight("id") + Weight("place") + Weight("angle") + Weight("distance") >= 1
    BY <2>1, <2>3, <2>5
  <2>7. Weight("id")' + Weight("place")' + Weight("angle")' + Weight("distance")'
          < Weight("id") + Weight("place") + Weight("angle") + Weight("distance")
    BY <2>2, <2>3, <2>4, <2>5 DEF Fields
  <2>8. StoreLag >= 1 /\ StoreLag = Weight("id") + Weight("place") + Weight("angle") + Weight("distance")
    BY <1>4, <2>6 DEF StoreLag
  <2>9. CASE Stored'
    <3>1. StoreLag' = 0
      BY <2>9 DEF StoreLag
    <3> QED  BY <1>4, <2>3, <2>8, <3>1
  <2>10. CASE ~Stored'
    <3>1. StoreLag' = Weight("id")' + Weight("place")' + Weight("angle")' + Weight("distance")'
      BY <2>10 DEF StoreLag
    <3> QED  BY <1>4, <2>7, <2>8, <3>1
  <2> QED  BY <2>9, <2>10
<1> QED  BY <1>3, <1>4

\* A friend that stays the nearest is stored whole within seven stores of
\* tdComp, also when it is found again and stored anew, and is not torn after
\* that (UIUpdateNearestFriendInfo): the first half of FriendShownWhole.
THEOREM StoredWithinSeven == Spec => [](StoreLag \in 0..7) /\ StoreGetsCloser
<1>1. StoreLag \in 0..7
  <2>1. Weight("id") \in 0..1
    BY DEF Weight
  <2> QED  BY <2>1, Weights DEF StoreLag
<1>2. TypeOK /\ StoredInv /\ StoredInv' /\ [Next]_vars =>
        [target' = target =>
           /\ StoreLag' <= StoreLag
           /\ CompStores /\ StoreLag > 0 => StoreLag' < StoreLag]_vars
  <2> SUFFICES ASSUME TypeOK, StoredInv, StoredInv', [Next]_vars, target' = target
               PROVE  /\ StoreLag' <= StoreLag
                      /\ CompStores /\ StoreLag > 0 => StoreLag' < StoreLag
    OBVIOUS
  <2>0. StoreLag \in 0..7
    BY <1>1
  <2>1. CASE CompStores
    <3>1. CASE Stored
      <4>1. Stored'
        BY <2>1, <3>1, StoreNearer
      <4> QED  BY <3>1, <4>1 DEF StoreLag
    <3>2. CASE ~Stored
      <4>1. StoreLag' < StoreLag
        BY <2>1, <3>2, StoreNearer
      <4>2. StoreLag' \in 0..7
        <5>1. \A f : Weight(f)' \in 0..2
          BY DEF Weight
        <5>2. Weight("id")' \in 0..1
          BY DEF Weight
        <5> QED  BY <5>1, <5>2 DEF StoreLag
      <4> QED  BY <2>0, <4>1, <4>2
    <3> QED  BY <3>1, <3>2
  <2>2. CASE ~CompStores /\ \E u \in Values : UIUpdateNearestFriendInfo(u)
    <3>1. todo = {} /\ info' = info
      BY <2>2 DEF UIUpdateNearestFriendInfo
    <3>2. Stored /\ Stored'
      BY <3>1 DEF StoredInv, Stored
    <3> QED  BY <2>2, <3>2 DEF StoreLag
  <2>3. CASE UNCHANGED dataVars /\ ~CompStores
    <3>1. UNCHANGED <<info, target, todo>>
      BY <2>3 DEF dataVars
    <3>2. Stored' <=> Stored
      BY <3>1 DEF Stored
    <3>3. \A f : Weight(f)' = Weight(f)
      BY <3>1 DEF Weight
    <3>4. StoreLag' = StoreLag
      BY <3>2, <3>3 DEF StoreLag
    <3> QED  BY <2>0, <2>3, <3>4
  <2> QED  BY <2>1, <2>2, <2>3, OthersLeaveData
<1> QED
  BY <1>1, <1>2, TypeCorrect, StoredSafe, PTL DEF Spec, StoreGetsCloser

-----------------------------------------------------------------------------
\* The lines of the round so far show the friend, from one good reading.
Good ==
  /\ \A l \in 1..(row - 1) : lcd[l] = target
  /\ row > 1 => angle = target

\* The whole display shows it, and nothing under way will change that.
Whole == led = target /\ \A l \in Lines : lcd[l] = target
WholeDone ==
  /\ Whole
  /\ upc = "top" => prev = menu
  /\ upc = "friend" => Good
  /\ upc # "other"

\* The steps of tdUI until then: with a good round to its end, or else through
\* this round and the next.
WholeIn ==
  IF upc = "friend" /\ Good THEN 5 - row
  ELSE [switch |-> 5, top |-> 6, end |-> 7, other |-> 8, friend |-> 12 - row][upc]
ShowLag == IF WholeDone THEN 0 ELSE WholeIn

\* The screen is left on, the bus works and tdComp has nothing new.
Steady == menu = "FRIEND_INFO" /\ ~faulty /\ Stored
ShowGetsCloser ==
  [][ Steady /\ Steady' /\ target' = target =>
        /\ ShowLag' <= ShowLag
        /\ UiStep /\ ShowLag > 0 => ShowLag' < ShowLag ]_vars

LEMMA WholeBounds == TypeOK => WholeIn \in 1..11 /\ ShowLag \in 0..11
<1> SUFFICES ASSUME TypeOK PROVE WholeIn \in 1..11 /\ ShowLag \in 0..11
  OBVIOUS
<1>1. row \in 1..4 /\ upc \in {"top", "switch", "friend", "other", "end"}
  BY DEF TypeOK, Lines
<1>2. WholeIn \in 1..11
  BY <1>1 DEF WholeIn
<1> QED  BY <1>2 DEF ShowLag

\* A line of a good round, with the data stored and the bus working, is good.
LEMMA GoodLine ==
  ASSUME TypeOK, UiFriendLine, Stored, ~faulty, target' = target, Good
  PROVE  /\ lcd' = [lcd EXCEPT ![row] = target] /\ angle' = target
         /\ IF row < 4 THEN upc' = "friend" /\ row' = row + 1 /\ Good' /\ led' = led
                       ELSE upc' = "end" /\ led' = target /\ Whole'
<1>0. row \in 1..4 /\ lcd \in [1..4 -> Values]
  BY DEF TypeOK, Lines
<1>1. /\ info["id"] = target /\ info["place"] = target
      /\ info["angle"] = target /\ info["distance"] = target
  BY DEF Stored, Fields
<1>2. angle' = CardinalAngle(row) /\ lcd' = [lcd EXCEPT ![row] = Text(row)]
  BY DEF UiFriendLine, PrintLine
<1>3. CardinalAngle(row) = target
  BY <1>0, <1>1 DEF CardinalAngle, Good
<1>4. Text(row) = target
  <2>1. CASE row = 1
    BY <1>1, <2>1 DEF Text
  <2>2. CASE row = 2
    BY <1>1, <2>2 DEF Text
  <2>3. CASE row = 3
    BY <2>3 DEF Text, Good
  <2>4. CASE row = 4
    BY <1>1, <2>4 DEF Text
  <2> QED  BY <1>0, <2>1, <2>2, <2>3, <2>4
<1>5. CASE row < 4
  <2>1. upc' = "friend" /\ row' = row + 1 /\ led' = led
    BY <1>5 DEF UiFriendLine
  <2>2. Good'
    BY <1>0, <1>2, <1>3, <1>4, <2>1 DEF Good
  <2> QED  BY <1>2, <1>3, <1>4, <1>5, <2>1, <2>2
<1>6. CASE ~(row < 4)
  <2>1. upc' = "end" /\ led' = target /\ row = 4
    BY <1>0, <1>2, <1>3, <1>6 DEF UiFriendLine
  <2>2. \A l \in Lines : lcd'[l] = target
    BY <1>0, <1>2, <1>4, <2>1 DEF Good, Lines
  <2> QED  BY <1>2, <1>3, <1>4, <1>6, <2>1, <2>2 DEF Whole
<1> QED  BY <1>5, <1>6

LEMMA ShowNearer ==
  ASSUME TypeOK, TypeOK', UiStep, Steady, Steady', target' = target
  PROVE  WholeDone' \/ (~WholeDone /\ WholeIn' < WholeIn)
<1>0. row \in 1..4 /\ menu' = menu /\ menu = "FRIEND_INFO" /\ ~faulty /\ Stored
  BY DEF TypeOK, Steady, Lines
<1>1. CASE UiTop
  <2>1. upc = "top" /\ upc' = "switch" /\ led' = led
    BY <1>1 DEF UiTop
  <2>2. WholeIn = 6 /\ WholeIn' = 5
    BY <2>1 DEF WholeIn
  <2>3. CASE WholeDone
    <3>1. lcd' = lcd
      BY <1>1, <2>3 DEF UiTop, WholeDone
    <3> QED  BY <2>1, <2>3, <3>1 DEF WholeDone, Whole
  <2> QED  BY <2>2, <2>3
<1>2. CASE UiSwitch
  <2>1. upc = "switch" /\ upc' = "friend" /\ row' = 1 /\ lcd' = lcd /\ led' = led
    BY <1>0, <1>2 DEF UiSwitch, outVars
  <2>2. Good'
    BY <2>1 DEF Good
  <2>3. WholeIn = 5 /\ WholeIn' = 4
    BY <2>1, <2>2 DEF WholeIn
  <2>4. CASE WholeDone
    BY <2>1, <2>2, <2>4 DEF WholeDone, Whole
  <2> QED  BY <2>3, <2>4
<1>3. CASE UiFriendLine /\ Good
  <2>1. /\ lcd' = [lcd EXCEPT ![row] = target]
        /\ IF row < 4 THEN upc' = "friend" /\ row' = row + 1 /\ Good' /\ led' = led
                      ELSE upc' = "end" /\ led' = target /\ Whole'
    BY <1>0, <1>3, GoodLine
  <2>2. upc = "friend"
    BY <1>3 DEF UiFriendLine
  <2>3. CASE row = 4
    BY <2>1, <2>3 DEF WholeDone
  <2>4. CASE row < 4
    <3>1. WholeIn = 5 - row /\ WholeIn' = 5 - row'
      BY <1>3, <2>1, <2>2, <2>4 DEF WholeIn
    <3>2. CASE WholeDone
      <4>1. lcd \in [Lines -> Values]
        BY DEF TypeOK
      <4>2. Whole'
        BY <2>1, <2>4, <3>2, <4>1 DEF WholeDone, Whole
      <4> QED  BY <2>1, <2>4, <4>2 DEF WholeDone
    <3> QED  BY <1>0, <2>1, <2>4, <3>1, <3>2
  <2> QED  BY <1>0, <2>3, <2>4
<1>4. CASE UiFriendLine /\ ~Good
  <2>1. upc = "friend" /\ IF row < 4 THEN upc' = "friend" /\ row' = row + 1 ELSE upc' = "end"
    BY <1>4 DEF UiFriendLine
  <2>2. ~WholeDone /\ WholeIn = 12 - row
    BY <1>4, <2>1 DEF WholeDone, WholeIn
  <2>3. CASE row < 4
    <3>1. WholeIn' = 5 - row' \/ WholeIn' = 12 - row'
      BY <2>1, <2>3 DEF WholeIn
    <3> QED  BY <1>0, <2>1, <2>2, <2>3, <3>1
  <2>4. CASE row = 4
    <3>1. WholeIn' = 7
      BY <2>1, <2>4 DEF WholeIn
    <3> QED  BY <2>2, <2>4, <3>1
  <2> QED  BY <1>0, <2>3, <2>4
<1>5. CASE UiOther
  <2>1. upc = "other" /\ upc' = "end"
    BY <1>5 DEF UiOther
  <2> QED  BY <2>1 DEF WholeDone, WholeIn
<1>6. CASE UiEnd
  <2>1. upc = "end" /\ upc' = "top" /\ prev' = menu /\ lcd' = lcd /\ led' = led
    BY <1>6 DEF UiEnd, outVars
  <2>2. WholeIn = 7 /\ WholeIn' = 6
    BY <2>1 DEF WholeIn
  <2>3. CASE WholeDone
    BY <1>0, <2>1, <2>3 DEF WholeDone, Whole
  <2> QED  BY <2>2, <2>3
<1> QED  BY <1>1, <1>2, <1>3, <1>4, <1>5, <1>6 DEF UiStep

LEMMA OthersLeaveUi ==
  ASSUME [Next]_vars, ~UiStep
  PROVE  UNCHANGED <<upc, row, angle, prev, lcd, led>>
BY DEF Next, vars, uiVars, outVars, Turn, UIUpdateNearestFriendInfo, CompStores, StoreField,
       BusChanges

\* Once its data are stored, the screen is left on and the bus works, the whole
\* friend is on the display and the LEDs within eleven steps of tdUI, whatever
\* failed transfers or another screen had left there, and stays
\* (UI_ShowFriendInfo, tdUI): the other half of FriendShownWhole.
THEOREM ShownWithinTwoRounds == Spec => [](ShowLag \in 0..11) /\ ShowGetsCloser
<1>1. TypeOK => ShowLag \in 0..11
  BY WholeBounds
<1>2. TypeOK /\ TypeOK' /\ (ShowLag \in 0..11)' /\ [Next]_vars =>
        [Steady /\ Steady' /\ target' = target =>
           /\ ShowLag' <= ShowLag
           /\ UiStep /\ ShowLag > 0 => ShowLag' < ShowLag]_vars
  <2> SUFFICES ASSUME TypeOK, TypeOK', ShowLag' \in 0..11, [Next]_vars,
                      Steady, Steady', target' = target
               PROVE  /\ ShowLag' <= ShowLag
                      /\ UiStep /\ ShowLag > 0 => ShowLag' < ShowLag
    OBVIOUS
  <2>0. WholeIn \in 1..11 /\ ShowLag \in 0..11
    BY WholeBounds
  <2>1. CASE UiStep
    <3>1. CASE WholeDone'
      <4>1. ShowLag' = 0
        BY <3>1 DEF ShowLag
      <4> QED  BY <2>0, <4>1
    <3>2. CASE ~WholeDone'
      <4>1. ~WholeDone /\ WholeIn' < WholeIn
        BY <2>1, <3>2, ShowNearer
      <4>2. ShowLag' = WholeIn' /\ ShowLag = WholeIn
        BY <3>2, <4>1 DEF ShowLag
      <4>3. ShowLag' < ShowLag
        BY <4>1, <4>2
      <4> QED  BY <2>0, <4>3
    <3> QED  BY <3>1, <3>2
  <2>2. CASE ~UiStep
    <3>1. UNCHANGED <<upc, row, angle, prev, lcd, led>> /\ menu' = menu
      BY <2>2, OthersLeaveUi DEF Steady
    <3>2. Good' <=> Good
      BY <3>1 DEF Good
    <3>3. Whole' <=> Whole
      BY <3>1 DEF Whole
    <3>4. WholeDone' <=> WholeDone
      BY <3>1, <3>2, <3>3 DEF WholeDone
    <3>5. WholeIn' = WholeIn
      BY <3>1, <3>2 DEF WholeIn
    <3>6. ShowLag' = ShowLag
      BY <3>4, <3>5 DEF ShowLag
    <3> QED  BY <2>0, <2>2, <3>6
  <2> QED  BY <2>1, <2>2
<1> QED  BY <1>1, <1>2, TypeCorrect, PTL DEF Spec, ShowGetsCloser
=============================================================================
