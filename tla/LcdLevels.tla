----------------------------- MODULE LcdLevels ------------------------------
(***************************************************************************)
(* The two levels of the display.  Interrupt handlers change               *)
(* mBrightnessLevel (the photocell) and mContrastLevel (the buttons on the *)
(* contrast screen, the rotary encoder on every screen); the loop of tdUI  *)
(* clamps and applies them, and LCDReset applies two levels of its own.    *)
(* A handler is one step; each access tdUI makes to a level is one too.    *)
(* A transfer to the display may fail, and tdUI does not look: of a level  *)
(* that was not told, nothing is known (UNKNOWN) until the next is.        *)
(***************************************************************************)
EXTENDS Integers

CONSTANTS
  ByteSize,         \* 2^8: mContrastLevel is a uint8_t, char is unsigned
  MaxContrast,      \* 50
  DefaultContrast,  \* 40
  MinBrightness,    \* 2
  MaxBrightness     \* 8, also the brightest level of the photocell

ASSUME LevelsAssumption ==
  /\ {ByteSize, MaxContrast, DefaultContrast, MinBrightness, MaxBrightness} \subseteq Nat
  /\ 0 < DefaultContrast /\ DefaultContrast <= MaxContrast /\ MaxContrast < ByteSize
  /\ 0 < MinBrightness /\ MinBrightness < MaxBrightness

VARIABLES
  menu,          \* mCurMenu: the contrast screen or another
  contrast,      \* mContrastLevel
  brightness,    \* mBrightnessLevel
  light,         \* the level the photocell reported last
  turned,        \* history: the way of the knob, if it changed contrast last
  lost,          \* history: the clamp's store undid the photocell's last call
  pc,            \* tdUI: its place in its loop
  shown, prev,   \* tdUI: the menu its switch took, prev_mCurMenu
  lcdContrast,   \* what the display was told
  lcdBrightness,
  faulty         \* transfers may fail

levels == <<contrast, brightness, light, turned, lost>>
lcd == <<lcdContrast, lcdBrightness>>
ui == <<pc, shown, prev>>
vars == <<menu, levels, lcd, ui, faulty>>

Menus == {"CONTRAST_SETTING", "MY_INFO"}
Byte == 0..(ByteSize - 1)
Lights == 0..MaxBrightness
UNKNOWN == -1

\* LCDSetContrast and LCDSetBrightness: what the display may have been told.
Told(level) == {level} \cup (IF faulty THEN {UNKNOWN} ELSE {})

-----------------------------------------------------------------------------
\* Slips that the properties below must notice.
DrawOnReset ==
  /\ pc = "draw"
  /\ IF shown = "CONTRAST_SETTING" /\ prev # menu
     THEN lcdContrast' \in Told(contrast) ELSE UNCHANGED lcdContrast
  /\ pc' = "clamp"
  /\ UNCHANGED <<menu, levels, lcdBrightness, shown, prev, faulty>>
SetBrightnessNever ==
  /\ pc = "brightness"
  /\ pc' = "end"
  /\ UNCHANGED <<menu, levels, lcd, shown, prev, faulty>>

-----------------------------------------------------------------------------
\* The buttons Up and Down, any number of presses.
Turn(screen) ==
  /\ menu' = screen
  /\ UNCHANGED <<levels, lcd, ui, faulty>>

\* buttonCancelCallback: the test that follows the decrement changes nothing.
CancelPressed ==
  /\ menu = "CONTRAST_SETTING"
  /\ contrast' = (contrast - 1) % ByteSize
  /\ turned' = "none"
  /\ UNCHANGED <<menu, brightness, light, lost, lcd, ui, faulty>>

\* buttonOkCallback.
OkPressed ==
  /\ menu = "CONTRAST_SETTING"
  /\ contrast' = LET c == (contrast + 1) % ByteSize
                 IN  IF c > MaxContrast THEN MaxContrast ELSE c
  /\ turned' = "none"
  /\ UNCHANGED <<menu, brightness, light, lost, lcd, ui, faulty>>

\* PCINT1 and rotaryEncoderCallback.  decoded_value returns 1 and -1 as a char.
Decoded(way) == (IF way = "CW" THEN 1 ELSE -1) % ByteSize
Rotate(way) ==
  /\ contrast' = (IF Decoded(way) > 0 THEN contrast + 1 ELSE contrast - 1) % ByteSize
  /\ turned' = way
  /\ UNCHANGED <<menu, brightness, light, lost, lcd, ui, faulty>>

\* ADC_vect and photoCellCallback: only a change is passed on.
Photocell(val) ==
  /\ val # light
  /\ light' = val
  /\ brightness' = val
  /\ lost' = FALSE
  /\ UNCHANGED <<menu, contrast, turned, lcd, ui, faulty>>

-----------------------------------------------------------------------------
\* A round of tdUI, what it does to the levels: LCDReset if the menu changed,
UiTop ==
  /\ pc = "top"
  /\ pc' = "switch"
  /\ IF prev # menu
     THEN lcdContrast' \in Told(DefaultContrast) /\ lcdBrightness' \in Told(MaxBrightness)
     ELSE UNCHANGED lcd
  /\ UNCHANGED <<menu, levels, shown, prev, faulty>>

\* the switch on the menu as it is now,
UiSwitch ==
  /\ pc = "switch"
  /\ shown' = menu
  /\ pc' = "draw"
  /\ UNCHANGED <<menu, levels, lcd, prev, faulty>>

\* UI_ShowContrastSettings, if that is the screen,
UiDraw ==
  /\ pc = "draw"
  /\ IF shown = "CONTRAST_SETTING" THEN lcdContrast' \in Told(contrast)
                                   ELSE UNCHANGED lcdContrast
  /\ pc' = "clamp"
  /\ UNCHANGED <<menu, levels, lcdBrightness, shown, prev, faulty>>

\* the test of mBrightnessLevel, the store, and the load for LCDSetBrightness.
UiClamp ==
  /\ pc = "clamp"
  /\ pc' = IF brightness < MinBrightness THEN "raise" ELSE "brightness"
  /\ UNCHANGED <<menu, levels, lcd, shown, prev, faulty>>

UiRaise ==
  /\ pc = "raise"
  /\ brightness' = MinBrightness
  /\ lost' = (brightness > MinBrightness)
  /\ pc' = "brightness"
  /\ UNCHANGED <<menu, contrast, light, turned, lcd, shown, prev, faulty>>

UiSetBrightness ==
  /\ pc = "brightness"
  /\ lcdBrightness' \in Told(brightness)
  /\ pc' = "end"
  /\ UNCHANGED <<menu, levels, lcdContrast, shown, prev, faulty>>

UiEnd ==
  /\ pc = "end"
  /\ prev' = menu
  /\ pc' = "top"
  /\ UNCHANGED <<menu, levels, lcd, shown, faulty>>

\* The bus.
BusChanges ==
  /\ faulty' = ~faulty
  /\ UNCHANGED <<menu, levels, lcd, ui>>

-----------------------------------------------------------------------------
\* After UIInit; the photocell has not called back (_old_val is 10).
Init ==
  /\ menu = "MY_INFO"
  /\ contrast = DefaultContrast /\ brightness = MaxBrightness
  /\ light = 10 /\ turned = "none" /\ lost = FALSE
  /\ lcdContrast = DefaultContrast /\ lcdBrightness = MaxBrightness /\ faulty = FALSE
  /\ pc = "top" /\ shown = "MY_INFO" /\ prev = "MENU_COUNT"

UiStep == UiTop \/ UiSwitch \/ UiDraw \/ UiClamp \/ UiRaise \/ UiSetBrightness \/ UiEnd

Next ==
  \/ \E screen \in Menus : Turn(screen)
  \/ CancelPressed
  \/ OkPressed
  \/ \E way \in {"CW", "CCW"} : Rotate(way)
  \/ \E val \in Lights : Photocell(val)
  \/ UiStep
  \/ BusChanges

\* tdUI has the highest priority; light, user and bus owe nothing.
Spec == Init /\ [][Next]_vars /\ WF_vars(UiStep)

-----------------------------------------------------------------------------
TypeOK ==
  /\ menu \in Menus /\ shown \in Menus /\ prev \in Menus \cup {"MENU_COUNT"}
  /\ contrast \in Byte /\ lcdContrast \in Byte \cup {UNKNOWN}
  /\ brightness \in Lights /\ lcdBrightness \in Lights \cup {UNKNOWN}
  /\ light \in Lights \cup {10}
  /\ turned \in {"none", "CW", "CCW"} /\ lost \in BOOLEAN /\ faulty \in BOOLEAN
  /\ pc \in {"top", "switch", "draw", "clamp", "raise", "brightness", "end"}

\* On the contrast screen the display comes to the level that is set there and
\* stays at it, once the bus works, however the presses interleave with the
\* drawing and the reset and whatever the display was told before.
ContrastIsApplied ==
  \A c \in Byte :
    <>[](menu = "CONTRAST_SETTING" /\ contrast = c /\ ~faulty) => <>[](lcdContrast = c)

\* In steady light, with the panel left on a screen and the bus working, the
\* brightness settles at that of the light, not less than the least, and stays
\* there; at the least if the photocell's call came between the test and the
\* store of the clamp and was lost, until the light changes again.
BrightnessSettles ==
  \A v \in Lights, m \in Menus :
    <>[](light = v /\ menu = m /\ ~faulty) =>
      <>[](lcdBrightness = IF lost \/ v < MinBrightness THEN MinBrightness ELSE v)

\* RotaryEncoder.h:21, "-1 if CCW, 1 if CW", and so the other branch of the
\* callback lowers the contrast.  Not so: -1 is a positive char.
CounterclockwiseLowers ==
  [][ turned' = "CCW" /\ contrast' # contrast =>
        contrast' = (contrast - 1) % ByteSize ]_vars
=============================================================================
