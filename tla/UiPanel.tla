------------------------------ MODULE UiPanel -------------------------------
(***************************************************************************)
(* The panel: the loop of tdUI, which redraws the display for the current  *)
(* menu, the four button callbacks, which run in interrupt handlers, and   *)
(* UIAlertToFriends, which tdComp calls.  All three share mCurMenu and     *)
(* uiFlags without a lock.                                                 *)
(*                                                                         *)
(* A callback is one step.  A thread's access to a shared variable is one  *)
(* step of its own, and UISetFlag is two, the load and the store of        *)
(* uiFlags |= ..., when a thread calls it.  (The flags all lie in the low  *)
(* byte, so the two byte accesses of the 16-bit variable are as one.)      *)
(* A display line is known by the screen that wrote it: LCDPrint pads each *)
(* text to the length of the line.  A transfer to the display may fail:    *)
(* LCDPrint then returns early, a failed LCDSetCursor sends the text to    *)
(* another line, and tdUI looks at neither status.  Of a display that a    *)
(* transfer failed to, nothing is known (UNKNOWN: what it showed before, a *)
(* text cut short, one out of place) but for the lines written since.      *)
(***************************************************************************)
EXTENDS Integers

VARIABLES
  menu,      \* mCurMenu
  flags,     \* uiFlags: IS_SELFDETECT_PANICKING and IS_PANICKING
  cpc, creg, \* tdComp: its place in UIAlertToFriends, the flags it loaded
  upc,       \* tdUI: its place in its loop
  row,       \* tdUI: the line it prints next
  shown,     \* tdUI: the menu its switch took
  prev,      \* prev_mCurMenu
  lcd,       \* the display: who wrote each line
  buzzer,    \* is the buzzer on
  faulty,    \* transfers may fail
  asked      \* history: is the alarm on, by the callbacks and alerts in order

panelVars == <<menu, flags>>
compVars == <<cpc, creg>>
uiVars == <<upc, row, shown, prev, lcd, buzzer>>
vars == <<panelVars, compVars, uiVars, faulty, asked>>

MY_INFO == 0
FRIEND_INFO == 1
PANIC_MODE == 2
FRIEND_ALERT == 3
CONTRAST_SETTING == 4
MENU_COUNT == 5
Menus == 0..(MENU_COUNT - 1)
BLANK == -1
UNKNOWN == -2
Lines == 1..4

\* LCDSetCursor, LCDPrint and LCDReset: what the display is to show next, if no
\* transfer fails.  Their status goes nowhere, so the caller goes on as it would.
Sends(lines) ==
  \/ lcd' = lines
  \/ faulty /\ lcd' = [l \in Lines |-> UNKNOWN]

-----------------------------------------------------------------------------
\* Slips that the properties below must notice.
UpUnclamped ==         \* no test against MENU_COUNT
  /\ menu < MENU_COUNT
  /\ menu' = menu + 1
  /\ UNCHANGED <<flags, compVars, uiVars, faulty, asked>>
StoreSelfAgain ==      \* the last UISetFlag sets the wrong flag
  /\ cpc = "storePanicking"
  /\ flags' = [creg EXCEPT !.self = TRUE]
  /\ cpc' = "idle"
  /\ UNCHANGED <<menu, creg, uiVars, faulty, asked>>
PrintTextOnly ==       \* an empty text does not clear its line
  /\ upc = "draw" /\ ~(shown = PANIC_MODE /\ row = 2)
  /\ Sends(IF shown \in {PANIC_MODE, FRIEND_ALERT, CONTRAST_SETTING} /\ row > 2
           THEN lcd ELSE [lcd EXCEPT ![row] = shown])
  /\ IF row = 4 THEN upc' = "end" /\ UNCHANGED row
                ELSE row' = row + 1 /\ UNCHANGED upc
  /\ UNCHANGED <<panelVars, compVars, shown, prev, buzzer, faulty, asked>>
BuzzForever ==         \* no buzzOff
  /\ upc = "buzz"
  /\ upc' = "line3"
  /\ UNCHANGED <<panelVars, compVars, row, shown, prev, lcd, buzzer, faulty, asked>>
SwitchIfChanged ==     \* draw a new screen only if the menu changed
  /\ upc = "switch"
  /\ shown' = IF prev # menu THEN menu ELSE shown
  /\ row' = 1 /\ upc' = "draw"
  /\ UNCHANGED <<panelVars, compVars, prev, lcd, buzzer, faulty, asked>>
PanicLineSilent ==     \* no buzzOn
  /\ upc = "draw" /\ shown = PANIC_MODE /\ row = 2
  /\ Sends([lcd EXCEPT ![2] = PANIC_MODE])
  /\ row' = 3
  /\ UNCHANGED <<panelVars, compVars, upc, shown, prev, buzzer, faulty, asked>>

-----------------------------------------------------------------------------
\* The callbacks of the four buttons.
Up ==
  /\ menu' = IF menu + 1 >= MENU_COUNT THEN MENU_COUNT - 1 ELSE menu + 1
  /\ UNCHANGED <<flags, compVars, uiVars, faulty, asked>>

Down ==
  /\ menu' = IF menu - 1 < 0 THEN 0 ELSE menu - 1
  /\ UNCHANGED <<flags, compVars, uiVars, faulty, asked>>

\* On the other screens these two have no part in the flags that matter here
\* (IS_FRIEND_PANICKING is never set; LcdLevels has the contrast).
SetPanicking(val) ==
  /\ menu = PANIC_MODE
  /\ flags' = [flags EXCEPT !.panicking = val]
  /\ asked' = val
  /\ UNCHANGED <<menu, compVars, uiVars, faulty>>
Cancel == SetPanicking(FALSE)
Ok == SetPanicking(TRUE)

-----------------------------------------------------------------------------
\* UIAlertToFriends, called by tdComp.
AlertToFriends ==
  /\ cpc = "idle" /\ ~flags.self
  /\ cpc' = "loadSelf"
  /\ UNCHANGED <<panelVars, creg, uiVars, faulty, asked>>

Load(from, to) ==
  /\ cpc = from
  /\ creg' = flags
  /\ cpc' = to
  /\ UNCHANGED <<panelVars, uiVars, faulty, asked>>
LoadSelf == Load("loadSelf", "storeSelf")
LoadPanicking == Load("loadPanicking", "storePanicking")

StoreSelf ==
  /\ cpc = "storeSelf"
  /\ flags' = [creg EXCEPT !.self = TRUE]
  /\ cpc' = "setMenu"
  /\ UNCHANGED <<menu, creg, uiVars, faulty, asked>>

SetMenu ==
  /\ cpc = "setMenu"
  /\ menu' = PANIC_MODE
  /\ cpc' = "loadPanicking"
  /\ UNCHANGED <<flags, creg, uiVars, faulty, asked>>

StorePanicking ==
  /\ cpc = "storePanicking"
  /\ flags' = [creg EXCEPT !.panicking = TRUE]
  /\ asked' = TRUE
  /\ cpc' = "idle"
  /\ UNCHANGED <<menu, creg, uiVars, faulty>>

-----------------------------------------------------------------------------
\* A round of tdUI: clear the display if the menu changed,
UiTop ==
  /\ upc = "top"
  /\ upc' = IF prev # menu THEN "reset" ELSE "switch"
  /\ UNCHANGED <<panelVars, compVars, row, shown, prev, lcd, buzzer, faulty, asked>>

UiReset ==
  /\ upc = "reset"
  /\ Sends([l \in Lines |-> BLANK])
  /\ upc' = "switch"
  /\ UNCHANGED <<panelVars, compVars, row, shown, prev, buzzer, faulty, asked>>

\* look at the menu again,
UiSwitch ==
  /\ upc = "switch"
  /\ shown' = menu
  /\ row' = 1 /\ upc' = "draw"
  /\ UNCHANGED <<panelVars, compVars, prev, lcd, buzzer, faulty, asked>>

\* draw the lines of that screen one by one,
LineText(screen, l) ==
  IF \/ screen \in {PANIC_MODE, CONTRAST_SETTING} /\ l > 2
     \/ screen = FRIEND_ALERT /\ l > 1
  THEN BLANK ELSE screen

UiPrint ==
  /\ upc = "draw" /\ ~(shown = PANIC_MODE /\ row = 2)
  /\ Sends([lcd EXCEPT ![row] = LineText(shown, row)])
  /\ IF row = 4 THEN upc' = "end" /\ UNCHANGED row
                ELSE row' = row + 1 /\ UNCHANGED upc
  /\ UNCHANGED <<panelVars, compVars, shown, prev, buzzer, faulty, asked>>

\* or, in UI_ShowPanicMode while IS_PANICKING, two of them, a second of buzzer
\* on and off, and the third, but not the fourth;
UiPanicLine ==
  /\ upc = "draw" /\ shown = PANIC_MODE /\ row = 2
  /\ Sends([lcd EXCEPT ![2] = PANIC_MODE])
  /\ IF flags.panicking THEN upc' = "buzz" /\ buzzer' = TRUE /\ UNCHANGED row
                        ELSE row' = 3 /\ UNCHANGED <<upc, buzzer>>
  /\ UNCHANGED <<panelVars, compVars, shown, prev, faulty, asked>>

UiBuzzOff ==
  /\ upc = "buzz"
  /\ buzzer' = FALSE
  /\ upc' = "line3"
  /\ UNCHANGED <<panelVars, compVars, row, shown, prev, lcd, faulty, asked>>

UiPanicLine3 ==
  /\ upc = "line3"
  /\ Sends([lcd EXCEPT ![3] = PANIC_MODE])
  /\ upc' = "end"
  /\ UNCHANGED <<panelVars, compVars, row, shown, prev, buzzer, faulty, asked>>

\* and remember the menu as it is now; then sleep.
UiEnd ==
  /\ upc = "end"
  /\ prev' = menu
  /\ upc' = "top"
  /\ UNCHANGED <<panelVars, compVars, row, shown, lcd, buzzer, faulty, asked>>

BusChanges ==
  /\ faulty' = ~faulty
  /\ UNCHANGED <<panelVars, compVars, uiVars, asked>>

-----------------------------------------------------------------------------
Init ==
  /\ menu = MY_INFO
  /\ flags = [self |-> FALSE, panicking |-> FALSE]
  /\ cpc = "idle" /\ creg = flags
  /\ upc = "top" /\ row = 1 /\ shown = MY_INFO /\ prev = MENU_COUNT
  /\ lcd = [l \in Lines |-> BLANK]
  /\ buzzer = FALSE /\ faulty = FALSE /\ asked = FALSE

Callback == Up \/ Down \/ Cancel \/ Ok
CompStep == LoadSelf \/ StoreSelf \/ SetMenu \/ LoadPanicking \/ StorePanicking
UiStep == UiTop \/ UiReset \/ UiSwitch \/ UiPrint \/ UiPanicLine \/ UiBuzzOff
            \/ UiPanicLine3 \/ UiEnd
Next == Callback \/ AlertToFriends \/ CompStep \/ UiStep \/ BusChanges

\* tdUI has the highest priority and tdComp finishes a call it began, since
\* tdUI sleeps in every round.  Nobody has to press a button, and the bus need
\* not work again.
Spec == Init /\ [][Next]_vars /\ WF_vars(UiStep) /\ WF_vars(CompStep)

-----------------------------------------------------------------------------
FlagSet == [self : BOOLEAN, panicking : BOOLEAN]
TypeOK ==
  /\ menu \in Menus /\ flags \in FlagSet /\ creg \in FlagSet
  /\ cpc \in {"idle", "loadSelf", "storeSelf", "setMenu", "loadPanicking", "storePanicking"}
  /\ upc \in {"top", "reset", "switch", "draw", "buzz", "line3", "end"}
  /\ row \in Lines /\ shown \in Menus /\ prev \in Menus \cup {MENU_COUNT}
  /\ lcd \in [Lines -> Menus \cup {BLANK, UNKNOWN}]
  /\ buzzer \in BOOLEAN /\ faulty \in BOOLEAN /\ asked \in BOOLEAN

\* A callback that comes between the load and the store of UISetFlag is lost,
\* but no such loss outlives the call: when UIAlertToFriends has returned, the
\* alarm is on exactly if the last of Ok, Cancel and the alert left it on.
\* It rests on IS_PANICKING being set last.
NoButtonIsLost == cpc = "idle" => flags.panicking = asked

\* When a screen has been drawn, a line of another screen is left on the display
\* only where a transfer failed during the drawing, or as the fourth line of the
\* alarm screen, which does not write it while the alarm is on; whatever became
\* of the menu, of the clearing of the display and of earlier rounds.
OthersLinesGo ==
  upc = "end" => \A l \in Lines :
    \/ lcd[l] \in {shown, BLANK, UNKNOWN}
    \/ l = 4 /\ shown = PANIC_MODE

\* An alarm that is left on, with the panel left on its screen, goes on
\* sounding; and one that is off for good is silent for good.
AlarmSounds == <>[](flags.panicking /\ menu = PANIC_MODE) => []<>buzzer
SilenceAfterCancel == <>[]~flags.panicking => <>[]~buzzer

\* The screen m is on the display, with each line that is its own: the third of
\* the alarm screen has a text while the alarm is on, the fourth it may leave.
ShowsLine(m, l) ==
  \/ lcd[l] = LineText(m, l)
  \/ m = PANIC_MODE /\ (l = 4 \/ (l = 3 /\ lcd[l] = PANIC_MODE))
OnDisplay(m) == shown = m /\ \A l \in Lines : ShowsLine(m, l)

\* A menu that is left alone is on the display in the end, and stays, if the bus
\* works again: no line of another screen outlasts it and none that a failed
\* transfer has spoilt, although tdUI reads the menu three times in a round and
\* never learns of a failure.
PanelFollowsMenu == \A m \in Menus : <>[](menu = m /\ ~faulty) => <>[]OnDisplay(m)
=============================================================================
