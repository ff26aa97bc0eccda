---------------------------- MODULE FriendPanel ----------------------------
(***************************************************************************)
(* The nearest friend on the display.  tdComp stores its data with         *)
(* UIUpdateNearestFriendInfo, field by field and without a lock; tdUI, of  *)
(* higher priority, may come in between at any point, prints the fields    *)
(* line by line and sleeps while each character is on the bus; and a       *)
(* transfer may fail, which cuts a line short and which nobody looks at.   *)
(*                                                                         *)
(* A field is known by the update it is from; Junk is any other: a torn    *)
(* value, the placeholder that UIInit stores, or on the display a blank,   *)
(* another screen's text, a text cut short or out of place.  A line is one *)
(* step: the text is made before it, and tdComp runs while it is printed.  *)
(***************************************************************************)
EXTENDS Integers

\* What tdComp computes: the data of a friend at a place; Junk stands for all
\* that are not of interest.
CONSTANT Updates

VARIABLES
  menu,      \* mCurMenu: the friend's screen or another
  info,      \* g_nearestFriendInfo, with lat and lon as one, and the distance
  target,    \* the update that tdComp stored last, or is storing
  todo,      \* the fields of it that it has still to store
  upc, row,  \* tdUI: its place in its loop, the line it prints next
  angle,     \* tdUI: cardinalAngle, by the update it was computed from
  shown, prev,   \* tdUI: the menu its switch took, prev_mCurMenu
  lcd, led,  \* the lines and the LEDs: the update that they show
  faulty,    \* transfers may fail
  clean      \* history: none has failed since the round began

dataVars == <<info, target, todo>>
uiVars == <<upc, row, angle, shown, prev>>
outVars == <<lcd, led, clean>>
vars == <<menu, dataVars, uiVars, outVars, faulty>>

Fields == {"id", "place", "angle", "distance"}
Lines == 1..4
Junk == "junk"
Values == Updates \cup {Junk}

-----------------------------------------------------------------------------
\* Slips that the properties below must notice.
AngleOfTheLine(r) == IF r \in {1, 4} THEN info["angle"] ELSE angle
AngleOnce(r) == IF r = 1 /\ prev # shown THEN info["angle"] ELSE angle

-----------------------------------------------------------------------------
Turn(screen) ==
  /\ menu' = screen
  /\ UNCHANGED <<dataVars, uiVars, outVars, faulty>>

\* tdComp has found a nearest friend, after it was done with the one before.
UIUpdateNearestFriendInfo(u) ==
  /\ todo = {}
  /\ target' = u /\ todo' = Fields
  /\ UNCHANGED <<menu, info, uiVars, outVars, faulty>>

\* A field of more than one byte is torn in between (lat and lon count as one
\* field).  C leaves the order of the stores to the compiler.
StoreField(f) ==
  /\ f \in todo
  /\ IF f # "id" /\ info[f] \notin {Junk, target}
     THEN info' = [info EXCEPT ![f] = Junk] /\ UNCHANGED todo
     ELSE info' = [info EXCEPT ![f] = target] /\ todo' = todo \ {f}
  /\ UNCHANGED <<menu, target, uiVars, outVars, faulty>>

-----------------------------------------------------------------------------
\* LCDSetCursor and LCDPrint; the status of neither is looked at.  A transfer
\* that fails leaves the cursor where it is, so that the text goes to another
\* line or across two, or cuts the text short.
PrintLine(l, val) ==
  \/ lcd' = [lcd EXCEPT ![l] = val] /\ UNCHANGED clean
  \/ /\ faulty /\ clean' = FALSE
     /\ \/ \E k \in Lines : lcd' = [lcd EXCEPT ![k] = val]
        \/ \E j, k \in Lines : lcd' = [lcd EXCEPT ![j] = Junk, ![k] = Junk]
        \/ UNCHANGED lcd

\* The text of a line of UI_ShowFriendInfo.  The angle is read before line 1.
CardinalAngle(r) == IF r = 1 THEN info["angle"] ELSE angle
Text(r) == CASE r = 1 -> info["id"] [] r = 2 -> info["place"]
             [] r = 3 -> angle [] r = 4 -> info["distance"]

-----------------------------------------------------------------------------
\* A round of tdUI: LCDReset if the menu changed (or what the bus lets through
\* of it),
UiTop ==
  /\ upc = "top"
  /\ upc' = "switch"
  /\ \/ prev = menu /\ UNCHANGED lcd /\ clean' = TRUE
     \/ prev # menu /\ lcd' = [l \in Lines |-> Junk] /\ clean' = TRUE
     \/ prev # menu /\ faulty /\ UNCHANGED lcd /\ clean' = FALSE
  /\ UNCHANGED <<menu, dataVars, row, angle, shown, prev, led, faulty>>

UiSwitch ==
  /\ upc = "switch"
  /\ shown' = menu
  /\ row' = 1
  /\ upc' = IF menu = "FRIEND_INFO" THEN "friend" ELSE "other"
  /\ UNCHANGED <<menu, dataVars, angle, prev, outVars, faulty>>

\* a line of UI_ShowFriendInfo, with UIShowLed after the last,
UiFriendLine ==
  /\ upc = "friend"
  /\ angle' = CardinalAngle(row)
  /\ PrintLine(row, Text(row))
  /\ IF row < 4 THEN row' = row + 1 /\ UNCHANGED <<upc, led>>
     ELSE upc' = "end" /\ led' = angle' /\ UNCHANGED row
  /\ UNCHANGED <<menu, dataVars, shown, prev, faulty>>

\* another screen, which may use all lines and the LEDs,
UiOther ==
  /\ upc = "other"
  /\ upc' = "end"
  /\ lcd' = [l \in Lines |-> Junk] /\ led' = Junk
  /\ UNCHANGED <<menu, dataVars, row, angle, shown, prev, clean, faulty>>

UiEnd ==
  /\ upc = "end"
  /\ prev' = menu
  /\ upc' = "top"
  /\ UNCHANGED <<menu, dataVars, row, angle, shown, outVars, faulty>>

BusChanges ==
  /\ faulty' = ~faulty
  /\ UNCHANGED <<menu, dataVars, uiVars, outVars>>

-----------------------------------------------------------------------------
\* After UIInit: the screen would show a friend with id 10, which is none.
Init ==
  /\ menu = "MY_INFO"
  /\ info = [f \in Fields |-> Junk]
  /\ target = Junk /\ todo = {}
  /\ upc = "top" /\ row = 1 /\ angle = Junk
  /\ shown = "MY_INFO" /\ prev = "MENU_COUNT"
  /\ lcd = [l \in Lines |-> Junk] /\ led = Junk
  /\ faulty = FALSE /\ clean = TRUE

UiStep == UiTop \/ UiSwitch \/ UiFriendLine \/ UiOther \/ UiEnd
CompStores == \E f \in Fields : StoreField(f)
Next ==
  \/ \E screen \in {"FRIEND_INFO", "MY_INFO"} : Turn(screen)
  \/ \E u \in Values : UIUpdateNearestFriendInfo(u)
  \/ CompStores \/ UiStep \/ BusChanges

\* tdUI goes on, and so does tdComp while tdUI sleeps.
Spec == Init /\ [][Next]_vars /\ WF_vars(UiStep) /\ WF_vars(CompStores)

-----------------------------------------------------------------------------
TypeOK ==
  /\ menu \in {"FRIEND_INFO", "MY_INFO"} /\ shown \in {"FRIEND_INFO", "MY_INFO"}
  /\ prev \in {"FRIEND_INFO", "MY_INFO", "MENU_COUNT"}
  /\ info \in [Fields -> Values] /\ angle \in Values
  /\ target \in Values /\ todo \subseteq Fields
  /\ upc \in {"top", "switch", "friend", "other", "end"} /\ row \in Lines
  /\ lcd \in [Lines -> Values] /\ led \in Values
  /\ faulty \in BOOLEAN /\ clean \in BOOLEAN

\* In a round without a failure the direction in words and that of the LEDs
\* are from the same reading, although tdComp may store another in between.
DirectionsAgree ==
  upc = "end" /\ shown = "FRIEND_INFO" /\ clean => lcd[3] = led

\* A friend that stays the nearest is finally shown whole, if the screen is
\* left on and the bus works again: no torn value, no rest of a line cut short
\* and no line of another friend outlasts it.
FriendShownWhole ==
  \A u \in Updates :
    <>[](menu = "FRIEND_INFO" /\ target = u /\ ~faulty) =>
      <>[](led = u /\ \A l \in Lines : lcd[l] = u)
=============================================================================
