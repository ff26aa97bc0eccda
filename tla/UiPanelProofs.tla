--------------------------- MODULE UiPanelProofs ----------------------------
(***************************************************************************)
(* Theorems about UiPanel.  The module has no constants: what they add to  *)
(* the model checking is the reason, an inductive invariant for each, and  *)
(* a bound on the steps to what must happen in the end.                    *)
(***************************************************************************)
EXTENDS UiPanel, TLAPS

\* The types hold at the start,
LEMMA TypeInit == Init => TypeOK
<1> SUFFICES ASSUME Init PROVE TypeOK
  OBVIOUS
<1>1. flags \in FlagSet /\ creg \in FlagSet
  BY DEF Init, FlagSet
<1>2. lcd \in [Lines -> Menus \cup {BLANK, UNKNOWN}]
  BY DEF Init
<1>3. buzzer \in BOOLEAN /\ faulty \in BOOLEAN /\ asked \in BOOLEAN
  BY DEF Init
<1> QED
  BY <1>1, <1>2, <1>3 DEF Init, TypeOK, Menus, Lines, MENU_COUNT, MY_INFO

\* What is sent to the display, or what a failure makes of it, is of its type,
LEMMA SendsTypes ==
  ASSUME NEW lines \in [Lines -> Menus \cup {BLANK, UNKNOWN}], Sends(lines)
  PROVE  lcd' \in [Lines -> Menus \cup {BLANK, UNKNOWN}]
BY DEF Sends

\* and every step keeps the types.
LEMMA TypeStep == TypeOK /\ [Next]_vars => TypeOK'
<1> SUFFICES ASSUME TypeOK, [Next]_vars PROVE TypeOK'
  OBVIOUS
<1>1. menu' \in Menus
  BY DEF TypeOK, Next, Callback, Up, Down, Cancel, Ok, SetPanicking, AlertToFriends, CompStep,
         LoadSelf, LoadPanicking, Load, StoreSelf, SetMenu, StorePanicking, UiStep, UiTop,
         UiReset, UiSwitch, UiPrint, UiPanicLine, UiBuzzOff, UiPanicLine3, UiEnd, BusChanges, vars,
         panelVars, compVars, uiVars, Menus, MENU_COUNT, PANIC_MODE
<1>2. /\ flags' \in FlagSet /\ creg' \in FlagSet
      /\ cpc' \in {"idle", "loadSelf", "storeSelf", "setMenu", "loadPanicking",
                   "storePanicking"}
  <2>0. flags \in FlagSet /\ creg \in FlagSet
    BY DEF TypeOK
  <2>1. ASSUME NEW val \in BOOLEAN, SetPanicking(val) PROVE flags' \in FlagSet
    BY <2>0, <2>1 DEF SetPanicking, FlagSet
  <2>2. CASE StoreSelf
    BY <2>0, <2>2 DEF StoreSelf, FlagSet
  <2>3. CASE StorePanicking
    BY <2>0, <2>3 DEF StorePanicking, FlagSet
  <2>4. CASE LoadSelf \/ LoadPanicking
    BY <2>0, <2>4 DEF LoadSelf, LoadPanicking, Load, panelVars
  <2>5. CASE SetMenu \/ AlertToFriends
    BY <2>0, <2>5 DEF SetMenu, AlertToFriends, panelVars
  <2>6. CASE UNCHANGED <<flags, creg, cpc>>
    BY <2>6 DEF TypeOK
  <2>7. CASE Callback
    <3>1. UNCHANGED <<creg, cpc>>
      BY <2>7 DEF Callback, Up, Down, Cancel, Ok, SetPanicking, compVars
    <3>2. flags' \in FlagSet
      BY <2>0, <2>1, <2>7 DEF Callback, Up, Down, Cancel, Ok
    <3> QED
      BY <3>1, <3>2 DEF TypeOK
  <2>8. CASE UiStep \/ BusChanges \/ UNCHANGED vars
    BY <2>6, <2>8 DEF BusChanges, UiStep, UiTop, UiReset, UiSwitch, UiPrint, UiPanicLine, UiBuzzOff,
                      UiPanicLine3, UiEnd, vars, panelVars, compVars
  <2> QED
    BY <2>2, <2>3, <2>4, <2>5, <2>7, <2>8 DEF Next, CompStep
<1>3. /\ upc' \in {"top", "reset", "switch", "draw", "buzz", "line3", "end"}
      /\ row' \in Lines /\ shown' \in Menus /\ prev' \in Menus \cup {MENU_COUNT}
      /\ lcd' \in [Lines -> Menus \cup {BLANK, UNKNOWN}]
  <2>0. lcd \in [Lines -> Menus \cup {BLANK, UNKNOWN}]
    BY DEF TypeOK
  <2>1. CASE UNCHANGED uiVars
    BY <2>1 DEF TypeOK, uiVars
  <2>2. CASE UiTop \/ UiSwitch \/ UiBuzzOff \/ UiEnd
    BY <2>2 DEF TypeOK, UiTop, UiSwitch, UiBuzzOff, UiEnd, Lines
  <2>7. CASE UiReset
    <3>1. lcd' \in [Lines -> Menus \cup {BLANK, UNKNOWN}]
      BY <2>7, SendsTypes DEF UiReset
    <3> QED
      BY <2>7, <3>1 DEF UiReset, TypeOK
  <2>3. CASE UiPrint
    <3>1. LineText(shown, row) \in Menus \cup {BLANK}
      BY DEF LineText, TypeOK
    <3>2. row' \in Lines /\ upc' \in {"draw", "end"}
      BY <2>3 DEF UiPrint, TypeOK, Lines
    <3>3. [lcd EXCEPT ![row] = LineText(shown, row)] \in [Lines -> Menus \cup {BLANK, UNKNOWN}]
      BY <2>0, <3>1
    <3>4. lcd' \in [Lines -> Menus \cup {BLANK, UNKNOWN}]
      BY <2>3, <3>3, SendsTypes DEF UiPrint
    <3> QED
      BY <2>3, <3>2, <3>4 DEF UiPrint, TypeOK
  <2>4. CASE UiPanicLine
    <3>1. upc' \in {"draw", "buzz"} /\ row' \in Lines
      BY <2>4 DEF UiPanicLine, TypeOK, Lines
    <3>2. [lcd EXCEPT ![2] = PANIC_MODE] \in [Lines -> Menus \cup {BLANK, UNKNOWN}]
      <4>1. PANIC_MODE \in Menus
        BY DEF Menus, MENU_COUNT, PANIC_MODE
      <4> QED  BY <2>0, <4>1
    <3>3. lcd' \in [Lines -> Menus \cup {BLANK, UNKNOWN}]
      BY <2>4, <3>2, SendsTypes DEF UiPanicLine
    <3> QED
      BY <2>4, <3>1, <3>3 DEF UiPanicLine, TypeOK
  <2>5. CASE UiPanicLine3
    <3>1. [lcd EXCEPT ![3] = PANIC_MODE] \in [Lines -> Menus \cup {BLANK, UNKNOWN}]
      <4>1. PANIC_MODE \in Menus
        BY DEF Menus, MENU_COUNT, PANIC_MODE
      <4> QED  BY <2>0, <4>1
    <3>2. lcd' \in [Lines -> Menus \cup {BLANK, UNKNOWN}]
      BY <2>5, <3>1, SendsTypes DEF UiPanicLine3
    <3> QED
      BY <2>5, <3>2 DEF UiPanicLine3, TypeOK
  <2>6. CASE Callback \/ AlertToFriends \/ CompStep \/ BusChanges \/ UNCHANGED vars
    BY <2>1, <2>6 DEF Callback, Up, Down, Cancel, Ok, SetPanicking, AlertToFriends, vars,
                      CompStep, LoadSelf, LoadPanicking, Load, StoreSelf, SetMenu, StorePanicking,
                      BusChanges
  <2> QED
    BY <2>2, <2>3, <2>4, <2>5, <2>6, <2>7 DEF Next, UiStep
<1>4. asked' \in BOOLEAN /\ faulty' \in BOOLEAN
  BY DEF TypeOK, Next, Callback, Up, Down, Cancel, Ok, SetPanicking, AlertToFriends, CompStep,
         LoadSelf, LoadPanicking, Load, StoreSelf, SetMenu, StorePanicking, UiStep, UiTop,
         UiReset, UiSwitch, UiPrint, UiPanicLine, UiBuzzOff, UiPanicLine3, UiEnd, BusChanges, vars
<1>5. buzzer' \in BOOLEAN
  BY DEF TypeOK, Next, Callback, Up, Down, Cancel, Ok, SetPanicking, AlertToFriends, CompStep,
         LoadSelf, LoadPanicking, Load, StoreSelf, SetMenu, StorePanicking, UiStep, UiTop,
         UiReset, UiSwitch, UiPrint, UiPanicLine, UiBuzzOff, UiPanicLine3, UiEnd, BusChanges, vars,
         uiVars
<1> QED
  BY <1>1, <1>2, <1>3, <1>4, <1>5 DEF TypeOK

\* The menu stays one of the five screens, the line one of the four.
THEOREM TypeCorrect == Spec => []TypeOK
  BY TypeInit, TypeStep, PTL DEF Spec

\* The load and store of UISetFlag in tdComp are not atomic, and still no
\* press of Ok or Cancel is undone when UIAlertToFriends has returned.
THEOREM ButtonsSafe == Spec => []NoButtonIsLost
<1>1. Init => NoButtonIsLost
  <2>1. Init => flags.panicking = FALSE /\ asked = FALSE
    BY DEF Init
  <2> QED
    BY <2>1 DEF NoButtonIsLost
<1>2. TypeOK /\ NoButtonIsLost /\ [Next]_vars => NoButtonIsLost'
  <2> SUFFICES ASSUME TypeOK, NoButtonIsLost, [Next]_vars PROVE NoButtonIsLost'
    OBVIOUS
  <2>0. flags \in FlagSet /\ creg \in FlagSet
    BY DEF TypeOK
  <2>1. CASE Callback
    <3>1. ASSUME NEW val \in BOOLEAN, SetPanicking(val)
          PROVE  flags'.panicking = asked'
      BY <2>0, <3>1 DEF SetPanicking, FlagSet
    <3>2. CASE Up \/ Down
      BY <3>2 DEF Up, Down, NoButtonIsLost, compVars
    <3> QED
      BY <2>1, <3>1, <3>2 DEF Callback, Cancel, Ok, NoButtonIsLost
  <2>2. CASE AlertToFriends \/ LoadSelf \/ StoreSelf \/ SetMenu \/ LoadPanicking
    BY <2>2 DEF AlertToFriends, LoadSelf, LoadPanicking, Load, StoreSelf, SetMenu,
                NoButtonIsLost
  <2>3. CASE StorePanicking
    BY <2>0, <2>3 DEF StorePanicking, NoButtonIsLost, FlagSet
  <2>4. CASE UNCHANGED <<panelVars, compVars, asked>>
    BY <2>4 DEF NoButtonIsLost, panelVars, compVars
  <2>5. CASE UiStep
    BY <2>4, <2>5 DEF UiStep, UiTop, UiReset, UiSwitch, UiPrint, UiPanicLine,
                      UiBuzzOff, UiPanicLine3, UiEnd
  <2>6. CASE BusChanges \/ UNCHANGED vars
    BY <2>4, <2>6 DEF BusChanges, vars
  <2> QED
    BY <2>1, <2>2, <2>3, <2>5, <2>6 DEF Next, CompStep
<1> QED
  BY <1>1, <1>2, TypeCorrect, PTL DEF Spec

\* How far the drawing of a screen has come.  The screen is chosen once, so
\* the lines above the current one are its own even if the menu has moved on,
\* or they were hit by a failure.
Own(l) == lcd[l] \in {shown, BLANK, UNKNOWN}
Drawn ==
  /\ upc = "draw" => \A l \in 1..(row - 1) : Own(l)
  /\ upc \in {"buzz", "line3"} => shown = PANIC_MODE /\ Own(1) /\ Own(2)

DrawInv == Drawn /\ OthersLinesGo

\* A line sent is the screen's own or unknown, and so are those that were.
LEMMA SendsOwn ==
  ASSUME TypeOK, NEW r \in Lines, NEW text, text \in {shown, BLANK}, shown' = shown,
         Sends([lcd EXCEPT ![r] = text])
  PROVE  Own(r)' /\ \A l \in Lines : Own(l) => Own(l)'
<1>1. CASE lcd' = [lcd EXCEPT ![r] = text]
  BY <1>1 DEF TypeOK, Own
<1>2. CASE lcd' = [l \in Lines |-> UNKNOWN]
  BY <1>2 DEF Own
<1> QED  BY <1>1, <1>2 DEF Sends

\* Both hold of every state.
LEMMA DrawnAlways == Spec => []DrawInv
<1>1. Init => DrawInv
  BY DEF Init, DrawInv, Drawn, OthersLinesGo
<1>2. TypeOK /\ DrawInv /\ [Next]_vars => DrawInv'
  <2> SUFFICES ASSUME TypeOK, DrawInv, [Next]_vars PROVE DrawInv'
    OBVIOUS
  <2>a. row \in 1..4 /\ Lines = 1..4
    BY DEF TypeOK, Lines
  <2>1. CASE UNCHANGED uiVars
    BY <2>1 DEF uiVars, DrawInv, Drawn, Own, OthersLinesGo
  <2>2. CASE Callback \/ AlertToFriends \/ CompStep \/ BusChanges \/ UNCHANGED vars
    BY <2>1, <2>2 DEF Callback, Up, Down, Cancel, Ok, SetPanicking, AlertToFriends, vars,
                      CompStep, LoadSelf, LoadPanicking, Load, StoreSelf, SetMenu, StorePanicking,
                      BusChanges
  <2>3. CASE UiTop \/ UiReset \/ UiEnd
    BY <2>3 DEF UiTop, UiReset, UiEnd, DrawInv, Drawn, OthersLinesGo
  <2>4. CASE UiSwitch
    BY <2>4 DEF UiSwitch, DrawInv, Drawn, OthersLinesGo
  <2>5. CASE UiPrint
    <3>1. /\ upc = "draw" /\ shown' = shown
          /\ Sends([lcd EXCEPT ![row] = LineText(shown, row)])
      BY <2>5 DEF UiPrint
    <3>2. LineText(shown, row) \in {shown, BLANK}
      BY DEF LineText
    <3>3. \A l \in 1..row : Own(l)'
      <4>0. PICK r \in Lines : r = row
        BY <2>a
      <4>1. Own(r)' /\ \A l \in Lines : Own(l) => Own(l)'
        BY <3>1, <3>2, <4>0, SendsOwn
      <4>2. \A l \in 1..row : l = r \/ (l \in 1..(row - 1) /\ l \in Lines)
        BY <2>a, <4>0
      <4>3. \A l \in 1..(row - 1) : Own(l)
        BY <3>1 DEF DrawInv, Drawn
      <4> HIDE DEF Own
      <4> QED  BY <4>1, <4>2, <4>3
    <3>4. CASE row = 4
      <4>1. upc' = "end"
        BY <2>5, <3>4 DEF UiPrint
      <4> QED  BY <2>a, <3>3, <3>4, <4>1 DEF DrawInv, Drawn, Own, OthersLinesGo
    <3>5. CASE row # 4
      <4>1. row' - 1 = row /\ upc' = "draw"
        BY <2>5, <2>a, <3>5 DEF UiPrint
      <4> QED
        BY <3>3, <4>1 DEF DrawInv, Drawn, OthersLinesGo
    <3> QED
      BY <3>4, <3>5
  <2>6. CASE UiPanicLine
    <3>1. /\ upc = "draw" /\ row = 2 /\ shown = PANIC_MODE /\ shown' = shown
          /\ Sends([lcd EXCEPT ![2] = PANIC_MODE])
      BY <2>6 DEF UiPanicLine
    <3>2. upc' = "buzz" \/ (upc' = "draw" /\ row' = 3)
      BY <2>6 DEF UiPanicLine
    <3>3. Own(2)' /\ (Own(1) => Own(1)')
      BY <2>a, <3>1, SendsOwn
    <3>4. \A l \in 1..2 : Own(l)'
      BY <3>1, <3>3 DEF DrawInv, Drawn
    <3> QED
      BY <3>1, <3>2, <3>4 DEF DrawInv, Drawn, OthersLinesGo
  <2>7. CASE UiBuzzOff
    BY <2>7 DEF UiBuzzOff, DrawInv, Drawn, Own, OthersLinesGo
  <2>8. CASE UiPanicLine3
    <3>1. /\ upc = "line3" /\ upc' = "end" /\ shown' = shown
          /\ Sends([lcd EXCEPT ![3] = PANIC_MODE])
      BY <2>8 DEF UiPanicLine3
    <3>2. shown = PANIC_MODE /\ Own(1) /\ Own(2)
      BY <3>1 DEF DrawInv, Drawn
    <3>3. Own(3)' /\ Own(1)' /\ Own(2)'
      BY <2>a, <3>1, <3>2, SendsOwn
    <3> QED
      BY <2>a, <3>1, <3>2, <3>3 DEF DrawInv, Drawn, Own, OthersLinesGo
  <2> QED
    BY <2>2, <2>3, <2>4, <2>5, <2>6, <2>7, <2>8 DEF Next, UiStep
<1> QED
  BY <1>1, <1>2, TypeCorrect, PTL DEF Spec

\* Whatever the callbacks and tdComp do to the menu and the flags while tdUI
\* draws, and whichever transfers fail (LCDPrint returns early, its status
\* unread), another screen's line outlasts a drawing only where a transfer of
\* that drawing failed, or as the fourth of the alarm screen.
THEOREM LinesOwned == Spec => []OthersLinesGo
<1>1. DrawInv => OthersLinesGo
  BY DEF DrawInv
<1> QED
  BY <1>1, DrawnAlways, PTL

-----------------------------------------------------------------------------
\* What is left of a wait.  Fairness is beyond the prover, but not what makes
\* it enough: each step of tdUI brings the awaited one nearer, and no step of
\* the others puts it off.

\* Only tdUI moves itself.
LEMMA OthersLeaveUi == [Next]_vars => UiStep \/ UNCHANGED uiVars
BY DEF Next, BusChanges, Callback, Up, Down, Cancel, Ok, SetPanicking, AlertToFriends, vars,
       CompStep, LoadSelf, LoadPanicking, Load, StoreSelf, SetMenu, StorePanicking

\* The steps of tdUI until the display shows the menu it is left at.  On a
\* screen whose lines above the current one are the menu's, they are those of
\* the rest of the drawing; else the drawing ends, and a new round draws it.
Passed == IF upc = "draw" THEN row - 1 ELSE 2
Fresh == shown = menu /\ \A l \in 1..Passed : ShowsLine(menu, l)
Settled == OnDisplay(menu) /\ upc # "reset" /\ (upc = "top" => prev = menu)
DisplayIn ==
  [top |-> IF prev = menu THEN 6 ELSE 7, reset |-> 6, switch |-> 5,
   draw |-> IF Fresh THEN 5 - row ELSE 12 - row, buzz |-> IF Fresh THEN 2 ELSE 9,
   line3 |-> IF Fresh THEN 1 ELSE 8, end |-> 7][upc]
DisplayLag == IF Settled THEN 0 ELSE DisplayIn

DisplayWithinTwoRounds ==
  DisplayLag \in 0..11 /\ (DisplayLag = 0 => OnDisplay(menu))
DisplayGetsCloser ==
  [][ menu' = menu /\ ~faulty =>
        /\ DisplayLag' <= DisplayLag
        /\ UiStep /\ DisplayLag > 0 => DisplayLag' < DisplayLag ]_vars

LEMMA DisplayBounds == TypeOK => DisplayIn \in 1..11
<1> SUFFICES ASSUME TypeOK PROVE DisplayIn \in 1..11
  OBVIOUS
<1>1. row \in 1..4
  BY DEF TypeOK, Lines
<1> QED  BY <1>1 DEF TypeOK, DisplayIn

\* A line written with the menu's text shows it, and the others go on as they
\* were.
LEMMA LineWritten ==
  ASSUME TypeOK, menu' = menu, NEW r \in Lines, NEW text, lcd' = [lcd EXCEPT ![r] = text],
         text = LineText(menu, r) \/ (menu = PANIC_MODE /\ r = 3 /\ text = PANIC_MODE)
  PROVE  ShowsLine(menu, r)' /\ \A l \in Lines : ShowsLine(menu, l) => ShowsLine(menu, l)'
<1>1. lcd'[r] = text /\ \A l \in Lines : l # r => lcd'[l] = lcd[l]
  BY DEF TypeOK
<1>2. \A l \in Lines : LineText(menu, l)' = LineText(menu, l)
  BY DEF LineText
<1>3. ShowsLine(menu, r)'
  BY <1>1, <1>2 DEF ShowsLine
<1>4. \A l \in Lines : l # r /\ ShowsLine(menu, l) => ShowsLine(menu, l)'
  BY <1>1, <1>2 DEF ShowsLine
<1> QED  BY <1>3, <1>4

\* The steps that write a line.
Writes == UiPrint \/ UiPanicLine \/ UiPanicLine3
Written == IF UiPanicLine3 THEN 3 ELSE row

LEMMA LinesWritten ==
  ASSUME TypeOK, Drawn, Writes, menu' = menu, ~faulty, shown = menu
  PROVE  /\ \A l \in Lines : l = Written \/ ShowsLine(menu, l) => ShowsLine(menu, l)'
         /\ shown' = menu'
<1>0. row \in Lines /\ 2 \in Lines /\ 3 \in Lines
  BY DEF TypeOK, Lines
<1>1. CASE UiPrint
  <2>1. lcd' = [lcd EXCEPT ![row] = LineText(menu, row)] /\ Written = row /\ shown' = shown
    BY <1>1 DEF UiPrint, Sends, Written, UiPanicLine3
  <2>2. PICK r \in Lines : r = row
    BY <1>0
  <2>3. ShowsLine(menu, r)' /\ \A l \in Lines : ShowsLine(menu, l) => ShowsLine(menu, l)'
    BY <2>1, <2>2, LineWritten
  <2> QED  BY <2>1, <2>2, <2>3
<1>2. CASE UiPanicLine
  <2>1. /\ lcd' = [lcd EXCEPT ![2] = PANIC_MODE] /\ Written = 2 /\ shown' = shown
        /\ menu = PANIC_MODE
    BY <1>2 DEF UiPanicLine, Sends, Written, UiPanicLine3
  <2>2. PANIC_MODE = LineText(menu, 2)
    BY <2>1 DEF LineText, PANIC_MODE, FRIEND_ALERT
  <2> QED  BY <1>0, <2>1, <2>2, LineWritten
<1>3. CASE UiPanicLine3
  <2>1. /\ lcd' = [lcd EXCEPT ![3] = PANIC_MODE] /\ Written = 3 /\ shown' = shown
        /\ menu = PANIC_MODE
    BY <1>3 DEF UiPanicLine3, Sends, Written, Drawn
  <2> QED  BY <1>0, <2>1, LineWritten
<1> QED  BY <1>1, <1>2, <1>3 DEF Writes

\* A screen on the display stays there while the menu does,
LEMMA DisplayStays ==
  ASSUME TypeOK, Drawn, UiStep, menu' = menu, ~faulty, Settled
  PROVE  Settled'
<1>0. shown = menu /\ (\A l \in Lines : ShowsLine(menu, l)) /\ upc # "reset"
  BY DEF Settled, OnDisplay
<1>1. CASE Writes
  <2>1. shown' = menu' /\ \A l \in Lines : ShowsLine(menu, l)'
    BY <1>0, <1>1, LinesWritten
  <2>2. upc' \in {"draw", "buzz", "end"}
    BY <1>1 DEF Writes, UiPrint, UiPanicLine, UiPanicLine3
  <2> QED  BY <2>1, <2>2 DEF Settled, OnDisplay
<1>2. CASE UiTop \/ UiSwitch \/ UiBuzzOff \/ UiEnd
  <2>1. lcd' = lcd /\ shown' = menu
    BY <1>0, <1>2 DEF UiTop, UiSwitch, UiBuzzOff, UiEnd
  <2>2. \A l \in Lines : ShowsLine(menu, l)'
    BY <1>0, <2>1 DEF ShowsLine, LineText
  <2>3. upc' # "reset" /\ (upc' = "top" => prev' = menu)
    BY <1>2 DEF UiTop, UiSwitch, UiBuzzOff, UiEnd, Settled
  <2> QED  BY <2>1, <2>2, <2>3 DEF Settled, OnDisplay
<1> QED  BY <1>0, <1>1, <1>2 DEF UiStep, Writes, UiReset

\* and one that is not there is brought nearer.
LEMMA DisplayNearer ==
  ASSUME TypeOK, TypeOK', Drawn, UiStep, menu' = menu, ~faulty
  PROVE  Settled' \/ DisplayIn' < DisplayIn
<1>0. row \in 1..4 /\ row' \in 1..4 /\ Lines = 1..4
  BY DEF TypeOK, Lines
<1>1. CASE UiTop
  BY <1>1 DEF UiTop, DisplayIn
<1>2. CASE UiReset
  BY <1>2 DEF UiReset, DisplayIn
<1>3. CASE UiSwitch
  <2>1. upc = "switch" /\ upc' = "draw" /\ row' = 1 /\ shown' = menu'
    BY <1>3 DEF UiSwitch
  <2>2. Fresh'
    BY <2>1 DEF Fresh, Passed
  <2> QED  BY <2>1, <2>2 DEF DisplayIn
<1>4. CASE UiPrint
  <2>1. upc = "draw"
    BY <1>4 DEF UiPrint
  <2>2. DisplayIn = IF Fresh THEN 5 - row ELSE 12 - row
    BY <2>1 DEF DisplayIn
  <2>3. Fresh => shown' = menu' /\ \A l \in 1..row : ShowsLine(menu, l)'
    <3> SUFFICES ASSUME Fresh PROVE shown' = menu' /\ \A l \in 1..row : ShowsLine(menu, l)'
      OBVIOUS
    <3>1. shown = menu /\ \A l \in 1..(row - 1) : ShowsLine(menu, l)
      BY <2>1 DEF Fresh, Passed
    <3>2. Written = row
      BY <1>4 DEF Written, UiPrint, UiPanicLine3
    <3>3. /\ \A l \in Lines : l = Written \/ ShowsLine(menu, l) => ShowsLine(menu, l)'
          /\ shown' = menu'
      BY <1>4, <3>1, LinesWritten DEF Writes
    <3>4. \A l \in 1..row : l = row \/ (l \in 1..(row - 1) /\ l \in Lines)
      BY <1>0
    <3> QED  BY <3>1, <3>2, <3>3, <3>4, <1>0
  <2>4. CASE row = 4
    <3>1. upc' = "end"
      BY <1>4, <2>4 DEF UiPrint
    <3>2. DisplayIn' = 7
      BY <3>1 DEF DisplayIn
    <3>3. Fresh => Settled'
      BY <1>0, <2>3, <2>4, <3>1 DEF Settled, OnDisplay
    <3> QED  BY <2>2, <2>4, <3>2, <3>3
  <2>5. CASE row # 4
    <3>1. upc' = "draw" /\ row' = row + 1 /\ row' - 1 = row
      BY <1>0, <1>4, <2>5 DEF UiPrint
    <3>2. DisplayIn' = IF Fresh' THEN 5 - row' ELSE 12 - row'
      BY <3>1 DEF DisplayIn
    <3>3. Fresh => Fresh'
      BY <2>3, <3>1 DEF Fresh, Passed
    <3> QED  BY <1>0, <2>2, <3>1, <3>2, <3>3
  <2> QED  BY <2>4, <2>5
<1>5. CASE UiPanicLine
  <2>1. upc = "draw" /\ row = 2
    BY <1>5 DEF UiPanicLine
  <2>2. DisplayIn = IF Fresh THEN 3 ELSE 10
    BY <2>1 DEF DisplayIn
  <2>3. Fresh => shown' = menu' /\ \A l \in 1..2 : ShowsLine(menu, l)'
    <3> SUFFICES ASSUME Fresh PROVE shown' = menu' /\ \A l \in 1..2 : ShowsLine(menu, l)'
      OBVIOUS
    <3>1. shown = menu /\ \A l \in 1..1 : ShowsLine(menu, l)
      BY <2>1 DEF Fresh, Passed
    <3>2. Written = 2
      BY <2>1 DEF Written, UiPanicLine3
    <3>3. /\ \A l \in Lines : l = Written \/ ShowsLine(menu, l) => ShowsLine(menu, l)'
          /\ shown' = menu'
      BY <1>5, <3>1, LinesWritten DEF Writes
    <3> QED  BY <1>0, <3>1, <3>2, <3>3
  <2>4. CASE flags.panicking
    <3>1. upc' = "buzz"
      BY <1>5, <2>4 DEF UiPanicLine
    <3>2. DisplayIn' = IF Fresh' THEN 2 ELSE 9
      BY <3>1 DEF DisplayIn
    <3>3. Fresh => Fresh'
      BY <2>3, <3>1 DEF Fresh, Passed
    <3> QED  BY <2>2, <3>2, <3>3
  <2>5. CASE ~flags.panicking
    <3>1. upc' = "draw" /\ row' = 3
      BY <1>5, <2>1, <2>5 DEF UiPanicLine
    <3>2. DisplayIn' = IF Fresh' THEN 2 ELSE 9
      BY <3>1 DEF DisplayIn
    <3>3. Fresh => Fresh'
      BY <2>3, <3>1 DEF Fresh, Passed
    <3> QED  BY <2>2, <3>2, <3>3
  <2> QED  BY <2>4, <2>5
<1>6. CASE UiBuzzOff
  <2>1. upc = "buzz" /\ upc' = "line3" /\ UNCHANGED <<shown, lcd>>
    BY <1>6 DEF UiBuzzOff
  <2>2. Fresh' = Fresh
    BY <2>1 DEF Fresh, Passed, ShowsLine, LineText
  <2> QED  BY <2>1, <2>2 DEF DisplayIn
<1>7. CASE UiPanicLine3
  <2>1. upc = "line3" /\ upc' = "end" /\ shown = PANIC_MODE
    BY <1>7 DEF UiPanicLine3, Drawn
  <2>2. DisplayIn = (IF Fresh THEN 1 ELSE 8) /\ DisplayIn' = 7
    BY <2>1 DEF DisplayIn
  <2>3. Fresh => Settled'
    <3> SUFFICES ASSUME Fresh PROVE Settled'
      OBVIOUS
    <3>1. shown = menu /\ \A l \in 1..2 : ShowsLine(menu, l)
      BY <2>1 DEF Fresh, Passed
    <3>2. /\ \A l \in Lines : l = 3 \/ ShowsLine(menu, l) => ShowsLine(menu, l)'
          /\ shown' = menu'
      BY <1>7, <3>1, LinesWritten DEF Writes, Written
    <3>3. ShowsLine(menu, 4)'
      BY <2>1, <3>1 DEF ShowsLine
    <3>4. \A l \in Lines : ShowsLine(menu, l)'
      BY <1>0, <3>1, <3>2, <3>3
    <3> QED  BY <2>1, <3>2, <3>4 DEF Settled, OnDisplay
  <2> QED  BY <2>2, <2>3
<1>8. CASE UiEnd
  BY <1>8 DEF UiEnd, DisplayIn
<1> QED
  BY <1>1, <1>2, <1>3, <1>4, <1>5, <1>6, <1>7, <1>8 DEF UiStep

\* While the bus works, a menu that is left alone is on the display within eleven
\* steps of tdUI, whatever the display showed before, and stays there; the
\* callbacks, tdComp and failures before put it off no longer than that:
\* PanelFollowsMenu, up to tdUI's going on.
THEOREM ScreenWithinTwoRounds == Spec => []DisplayWithinTwoRounds /\ DisplayGetsCloser
<1>1. TypeOK => DisplayWithinTwoRounds
  BY DisplayBounds DEF DisplayWithinTwoRounds, DisplayLag, Settled
<1>2. TypeOK /\ TypeOK' /\ DrawInv /\ [Next]_vars =>
        [ menu' = menu /\ ~faulty =>
            /\ DisplayLag' <= DisplayLag
            /\ UiStep /\ DisplayLag > 0 => DisplayLag' < DisplayLag ]_vars
  <2> SUFFICES ASSUME TypeOK, TypeOK', Drawn, [Next]_vars, menu' = menu, ~faulty
               PROVE  /\ DisplayLag' <= DisplayLag
                      /\ UiStep /\ DisplayLag > 0 => DisplayLag' < DisplayLag
    BY DEF DrawInv
  <2>1. DisplayIn \in 1..11 /\ DisplayLag \in 0..11
    BY DisplayBounds DEF DisplayLag
  <2>2. DisplayIn' \in 1..11
    <3>1. row' \in 1..4
      BY DEF TypeOK, Lines
    <3> QED  BY <3>1 DEF TypeOK, DisplayIn
  <2>3. CASE UiStep /\ Settled
    BY <2>3, DisplayStays DEF DisplayLag
  <2>4. CASE UiStep /\ ~Settled
    <3>1. Settled' \/ DisplayIn' < DisplayIn
      BY <2>4, DisplayNearer
    <3>2. DisplayLag = DisplayIn
      BY <2>4 DEF DisplayLag
    <3>3. DisplayLag' = 0 \/ DisplayLag' = DisplayIn'
      BY DEF DisplayLag
    <3>4. Settled' => DisplayLag' = 0
      BY DEF DisplayLag
    <3> HIDE DEF DisplayLag, DisplayIn, Settled
    <3> QED  BY <2>1, <2>2, <3>1, <3>2, <3>3, <3>4
  <2>5. CASE ~UiStep
    <3>1. UNCHANGED <<uiVars, menu>>
      BY <2>5, OthersLeaveUi
    <3>2. DisplayLag' = DisplayLag
      BY <3>1 DEF uiVars, DisplayLag, DisplayIn, Settled, OnDisplay, Fresh, Passed, ShowsLine,
                  LineText
    <3> QED  BY <2>1, <2>5, <3>2
  <2> QED  BY <2>3, <2>4, <2>5
<1> QED
  BY <1>1, <1>2, TypeCorrect, DrawnAlways, PTL DEF Spec, DisplayGetsCloser

\* The steps of tdUI until the buzzer is on, if the alarm is and the panel is
\* left on its screen.
LineIn == IF shown = PANIC_MODE /\ row <= 2 THEN 3 - row ELSE 12 - row
BuzzIn ==
  [top |-> 5, reset |-> 4, switch |-> 3, draw |-> LineIn, buzz |-> 0, line3 |-> 7,
   end |-> 6][upc]
AlarmOn == flags.panicking /\ menu = PANIC_MODE

BuzzWithinTwoRounds == BuzzIn \in 0..11 /\ (buzzer <=> BuzzIn = 0)
AlarmGetsCloser ==
  [][ AlarmOn /\ AlarmOn' =>
        IF UiStep THEN buzzer \/ BuzzIn' < BuzzIn ELSE BuzzIn' = BuzzIn ]_vars

\* The buzzer is on exactly in its second of the alarm screen.
BuzzerInv == buzzer = (upc = "buzz")

LEMMA BuzzerStep == TypeOK /\ BuzzerInv /\ [Next]_vars => BuzzerInv'
<1> SUFFICES ASSUME TypeOK, BuzzerInv, [Next]_vars PROVE BuzzerInv'
  OBVIOUS
<1>0. buzzer \in BOOLEAN
  BY DEF TypeOK
<1>1. CASE UNCHANGED uiVars
  BY <1>1 DEF uiVars, BuzzerInv
<1>2. CASE UiStep
  BY <1>0, <1>2 DEF UiStep, UiTop, UiReset, UiSwitch, UiPrint, UiPanicLine, UiBuzzOff,
                    UiPanicLine3, UiEnd, BuzzerInv
<1> QED
  BY <1>1, <1>2, OthersLeaveUi

LEMMA BuzzerOnInItsSecond == Spec => []BuzzerInv
<1>1. Init => BuzzerInv
  BY DEF Init, BuzzerInv
<1> QED
  BY <1>1, BuzzerStep, TypeCorrect, PTL DEF Spec

LEMMA BuzzBounds == TypeOK => BuzzIn \in 0..11 /\ (BuzzIn = 0 <=> upc = "buzz")
<1> SUFFICES ASSUME TypeOK PROVE BuzzIn \in 0..11 /\ (BuzzIn = 0 <=> upc = "buzz")
  OBVIOUS
<1>1. LineIn \in 1..11
  <2>1. row \in 1..4
    BY DEF TypeOK, Lines
  <2> QED  BY <2>1 DEF LineIn
<1> QED  BY <1>1 DEF TypeOK, BuzzIn

LEMMA BuzzNearer ==
  ASSUME TypeOK, TypeOK', UiStep, AlarmOn, upc # "buzz"
  PROVE  BuzzIn' < BuzzIn
<1>0. row \in 1..4 /\ row' \in 1..4 /\ menu = PANIC_MODE /\ flags.panicking
  BY DEF TypeOK, Lines, AlarmOn
<1>1. CASE UiTop
  BY <1>1 DEF UiTop, BuzzIn
<1>2. CASE UiReset
  BY <1>2 DEF UiReset, BuzzIn
<1>3. CASE UiSwitch
  <2>1. BuzzIn = 3 /\ upc' = "draw" /\ row' = 1 /\ shown' = PANIC_MODE
    BY <1>0, <1>3 DEF UiSwitch, BuzzIn
  <2>2. LineIn' = 2
    BY <2>1 DEF LineIn
  <2> QED  BY <2>1, <2>2 DEF BuzzIn
<1>4. CASE UiPrint
  <2>1. BuzzIn = LineIn /\ shown' = shown /\ ~(shown = PANIC_MODE /\ row = 2)
    BY <1>4 DEF UiPrint, BuzzIn
  <2>2. CASE row = 4
    <3>1. LineIn = 8 /\ upc' = "end"
      BY <1>4, <2>2 DEF UiPrint, LineIn
    <3> QED  BY <2>1, <3>1 DEF BuzzIn
  <2>3. CASE row # 4
    <3>1. row' = row + 1 /\ upc' = "draw"
      BY <1>4, <2>3 DEF UiPrint
    <3>2. BuzzIn' = LineIn'
      BY <3>1 DEF BuzzIn
    <3>3. LineIn' < LineIn
      BY <1>0, <2>1, <3>1 DEF LineIn
    <3> QED  BY <2>1, <3>2, <3>3
  <2> QED  BY <2>2, <2>3
<1>5. CASE UiPanicLine
  <2>1. upc = "draw" /\ row = 2 /\ shown = PANIC_MODE /\ upc' = "buzz"
    BY <1>0, <1>5 DEF UiPanicLine
  <2>2. LineIn = 1
    BY <2>1 DEF LineIn
  <2> QED  BY <2>1, <2>2 DEF BuzzIn
<1>6. CASE UiBuzzOff
  BY <1>6 DEF UiBuzzOff
<1>7. CASE UiPanicLine3
  BY <1>7 DEF UiPanicLine3, BuzzIn
<1>8. CASE UiEnd
  BY <1>8 DEF UiEnd, BuzzIn
<1> QED
  BY <1>1, <1>2, <1>3, <1>4, <1>5, <1>6, <1>7, <1>8 DEF UiStep

\* While the alarm is on and its screen is left on, the buzzer sounds within
\* eleven steps of tdUI of any state, so again and again (UI_ShowPanicMode):
\* AlarmSounds, up to tdUI's going on.
THEOREM AlarmWithinTwoRounds == Spec => []BuzzWithinTwoRounds /\ AlarmGetsCloser
<1>1. TypeOK /\ BuzzerInv => BuzzWithinTwoRounds
  BY BuzzBounds DEF BuzzerInv, BuzzWithinTwoRounds
<1>2. TypeOK /\ TypeOK' /\ BuzzerInv /\ [Next]_vars =>
        [AlarmOn /\ AlarmOn' =>
           IF UiStep THEN buzzer \/ BuzzIn' < BuzzIn ELSE BuzzIn' = BuzzIn]_vars
  <2> SUFFICES ASSUME TypeOK, TypeOK', BuzzerInv, [Next]_vars, AlarmOn
               PROVE  IF UiStep THEN buzzer \/ BuzzIn' < BuzzIn ELSE BuzzIn' = BuzzIn
    OBVIOUS
  <2>1. CASE UiStep
    BY <2>1, BuzzNearer DEF BuzzerInv
  <2>2. CASE ~UiStep
    <3>1. UNCHANGED <<row, upc, shown>>
      BY <2>2, OthersLeaveUi DEF uiVars
    <3>2. LineIn' = LineIn
      BY <3>1 DEF LineIn
    <3> QED  BY <2>2, <3>1, <3>2 DEF BuzzIn
  <2> QED  BY <2>1, <2>2
<1> QED
  BY <1>1, <1>2, TypeCorrect, BuzzerOnInItsSecond, PTL DEF Spec, AlarmGetsCloser

\* A buzzer comes on only while the alarm is, and tdUI's next step ends it.
BuzzerAnswers ==
  [][ /\ ~buzzer /\ buzzer' => flags.panicking
      /\ UiStep /\ buzzer => ~buzzer' ]_vars

\* Once Cancel has put the alarm out, tdUI's next step leaves the buzzer silent
\* and it stays so, with the menu moved or not: SilenceAfterCancel, up to
\* tdUI's going on.
THEOREM SilentAfterAStep == Spec => BuzzerAnswers
<1>1. TypeOK /\ BuzzerInv /\ [Next]_vars =>
        [ /\ ~buzzer /\ buzzer' => flags.panicking
          /\ UiStep /\ buzzer => ~buzzer' ]_vars
  <2> SUFFICES ASSUME TypeOK, BuzzerInv, [Next]_vars
               PROVE  /\ ~buzzer /\ buzzer' => flags.panicking
                      /\ UiStep /\ buzzer => ~buzzer'
    OBVIOUS
  <2>1. CASE UiStep /\ upc = "buzz"
    <3>1. UiBuzzOff
      BY <2>1 DEF UiStep, UiTop, UiReset, UiSwitch, UiPrint, UiPanicLine, UiPanicLine3, UiEnd
    <3> QED  BY <3>1 DEF UiBuzzOff
  <2>2. CASE UiStep /\ upc # "buzz"
    BY <2>2 DEF UiStep, UiTop, UiReset, UiSwitch, UiPrint, UiPanicLine, UiBuzzOff,
                UiPanicLine3, UiEnd, BuzzerInv
  <2>3. CASE ~UiStep
    BY <2>3, OthersLeaveUi DEF uiVars
  <2> QED  BY <2>1, <2>2, <2>3
<1> QED
  BY <1>1, TypeCorrect, BuzzerOnInItsSecond, PTL DEF Spec, BuzzerAnswers
=============================================================================
