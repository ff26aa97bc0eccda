-------------------------- MODULE LcdLevelsProofs ---------------------------
(***************************************************************************)
(* The levels stay in their types for every width of a byte and every      *)
(* bound: the arithmetic of the callbacks wraps, and the clamp and the     *)
(* photocell name no level that the display does not know.  And what is    *)
(* set reaches the display in a bounded number of steps of tdUI.           *)
(***************************************************************************)
EXTENDS LcdLevels, TLAPS

\* What the width of a byte makes of a number is a byte.
LEMMA Wraps == ASSUME NEW x \in Int PROVE x % ByteSize \in Byte
<1>1. ByteSize \in Nat /\ ByteSize > 0
  BY LevelsAssumption
<1> QED  BY <1>1 DEF Byte

LEMMA Bounds ==
  /\ ByteSize \in Nat /\ MaxContrast \in Byte /\ DefaultContrast \in Byte
  /\ MinBrightness \in Lights /\ MaxBrightness \in Lights
  /\ \A c \in Byte : c \in Int
BY LevelsAssumption DEF Byte, Lights

\* The callbacks,
LEMMA CallbackStep ==
  ASSUME TypeOK,
         \/ \E screen \in Menus : Turn(screen)
         \/ CancelPressed \/ OkPressed
         \/ \E way \in {"CW", "CCW"} : Rotate(way)
         \/ \E val \in Lights : Photocell(val)
  PROVE  TypeOK'
<1>1. CASE \E screen \in Menus : Turn(screen)
  BY <1>1 DEF TypeOK, Turn, levels, lcd, ui
<1>2. contrast \in Byte /\ contrast - 1 \in Int /\ contrast + 1 \in Int
  BY Bounds DEF TypeOK
<1>3. (contrast - 1) % ByteSize \in Byte /\ (contrast + 1) % ByteSize \in Byte
  BY <1>2, Wraps
<1>4. CASE CancelPressed
  BY <1>3, <1>4 DEF TypeOK, CancelPressed, lcd, ui
<1>5. CASE OkPressed
  <2>1. contrast' \in Byte
    BY <1>3, <1>5, Bounds DEF OkPressed
  <2> QED  BY <2>1, <1>5 DEF TypeOK, OkPressed, lcd, ui
<1>6. CASE \E way \in {"CW", "CCW"} : Rotate(way)
  <2>1. PICK way \in {"CW", "CCW"} : Rotate(way)
    BY <1>6
  <2>2. contrast' = (contrast + 1) % ByteSize \/ contrast' = (contrast - 1) % ByteSize
    BY <2>1 DEF Rotate
  <2> QED  BY <2>1, <2>2, <1>3 DEF TypeOK, Rotate, lcd, ui
<1>7. CASE \E val \in Lights : Photocell(val)
  BY <1>7 DEF TypeOK, Photocell, lcd, ui
<1> QED  BY <1>1, <1>4, <1>5, <1>6, <1>7

\* and the round of tdUI.
LEMMA UiStepTypes == ASSUME TypeOK, UiStep PROVE TypeOK'
<1>1. CASE UiTop
  BY <1>1, Bounds DEF TypeOK, UiTop, levels, lcd, Told
<1>2. CASE UiSwitch
  BY <1>2 DEF TypeOK, UiSwitch, levels, lcd
<1>3. CASE UiDraw
  BY <1>3 DEF TypeOK, UiDraw, levels, Told
<1>4. CASE UiClamp
  BY <1>4 DEF TypeOK, UiClamp, levels, lcd
<1>5. CASE UiRaise
  BY <1>5, Bounds DEF TypeOK, UiRaise, lcd
<1>6. CASE UiSetBrightness
  BY <1>6 DEF TypeOK, UiSetBrightness, levels, Told
<1>7. CASE UiEnd
  BY <1>7 DEF TypeOK, UiEnd, levels, lcd
<1> QED  BY <1>1, <1>2, <1>3, <1>4, <1>5, <1>6, <1>7 DEF UiStep

\* mContrastLevel stays a byte through the decrement at 0 and the unbounded
\* knob, and the brightness a level of the photocell (UIThread.c, LCD.c).
THEOREM TypeCorrect == Spec => []TypeOK
<1>1. Init => TypeOK
  BY Bounds DEF Init, TypeOK, Menus
<1>2. TypeOK /\ [Next]_vars => TypeOK'
  <2> SUFFICES ASSUME TypeOK, [Next]_vars PROVE TypeOK'
    OBVIOUS
  <2>1. CASE UNCHANGED vars
    BY <2>1 DEF TypeOK, vars, levels, lcd, ui
  <2>2. CASE Next
    BY <2>2, CallbackStep, UiStepTypes DEF Next, BusChanges, TypeOK, levels, lcd, ui
  <2> QED  BY <2>1, <2>2
<1> QED  BY <1>1, <1>2, PTL DEF Spec

-----------------------------------------------------------------------------
\* What is left of a wait.  Fairness is beyond the prover, but not what makes
\* it enough: each step of tdUI brings the awaited one nearer, and no step of
\* the others puts it off.

\* Only tdUI moves itself and tells the display.
Callbacks ==
  \/ \E screen \in Menus : Turn(screen)
  \/ CancelPressed \/ OkPressed
  \/ \E way \in {"CW", "CCW"} : Rotate(way)
  \/ \E val \in Lights : Photocell(val)
LEMMA OthersLeaveUi ==
  ASSUME [Next]_vars, ~UiStep
  PROVE  /\ UNCHANGED <<pc, shown, prev, lcdContrast, lcdBrightness>>
         /\ brightness' = brightness \/ light' # light
<1>1. CASE UNCHANGED vars
  BY <1>1 DEF vars, levels, lcd, ui
<1>2. CASE Callbacks
  <2>1. CASE \E screen \in Menus : Turn(screen)
    BY <2>1 DEF Turn, levels, lcd, ui
  <2>2. CASE CancelPressed \/ OkPressed
    BY <2>2 DEF CancelPressed, OkPressed, lcd, ui
  <2>3. CASE \E way \in {"CW", "CCW"} : Rotate(way)
    BY <2>3 DEF Rotate, lcd, ui
  <2>4. CASE \E val \in Lights : Photocell(val)
    BY <2>4 DEF Photocell, lcd, ui
  <2> QED  BY <1>2, <2>1, <2>2, <2>3, <2>4 DEF Callbacks
<1>3. CASE BusChanges
  BY <1>3 DEF BusChanges, levels, lcd, ui
<1> QED  BY <1>1, <1>2, <1>3 DEF Next, Callbacks

\* The display has the contrast, and no reset or drawing that is under way will
\* tell it another.
ContrastDone ==
  /\ lcdContrast = contrast
  /\ pc = "top" => prev = menu
  /\ pc = "draw" => shown = menu

\* The steps of tdUI until then, on the contrast screen.
DrawIn ==
  IF pc = "draw" /\ shown = menu THEN 1
  ELSE [switch |-> 2, top |-> 3, end |-> 4, brightness |-> 5, raise |-> 6, clamp |-> 7,
        draw |-> 8][pc]
ContrastLag == IF ContrastDone THEN 0 ELSE DrawIn

ContrastGetsCloser ==
  [][ menu = "CONTRAST_SETTING" /\ menu' = menu /\ contrast' = contrast /\ ~faulty =>
        /\ ContrastLag' <= ContrastLag
        /\ UiStep /\ ContrastLag > 0 => ContrastLag' < ContrastLag ]_vars

LEMMA DrawBounds == TypeOK => DrawIn \in 1..8
BY DEF TypeOK, DrawIn

LEMMA ContrastNearer ==
  ASSUME TypeOK, TypeOK', UiStep,
         menu = "CONTRAST_SETTING", menu' = menu, contrast' = contrast, ~faulty
  PROVE  ContrastDone' \/ (~ContrastDone /\ DrawIn' < DrawIn)
<1>1. CASE UiTop
  <2>1. CASE prev = menu
    BY <1>1, <2>1 DEF UiTop, ContrastDone, DrawIn, lcd
  <2>2. CASE prev # menu
    BY <1>1, <2>2 DEF UiTop, ContrastDone, DrawIn
  <2> QED  BY <2>1, <2>2
<1>2. CASE UiSwitch
  BY <1>2 DEF UiSwitch, ContrastDone, DrawIn, lcd
<1>3. CASE UiDraw
  BY <1>3 DEF UiDraw, ContrastDone, DrawIn, Told
<1>4. CASE UiClamp
  BY <1>4 DEF UiClamp, ContrastDone, DrawIn, lcd
<1>5. CASE UiRaise
  BY <1>5 DEF UiRaise, ContrastDone, DrawIn, lcd
<1>6. CASE UiSetBrightness
  BY <1>6 DEF UiSetBrightness, ContrastDone, DrawIn
<1>7. CASE UiEnd
  BY <1>7 DEF UiEnd, ContrastDone, DrawIn, lcd
<1> QED  BY <1>1, <1>2, <1>3, <1>4, <1>5, <1>6, <1>7 DEF UiStep

\* On the contrast screen a level that is left alone reaches the display within
\* eight steps of tdUI while the bus works, past a drawing under way, a reset and
\* whatever failed before, and nothing takes it away again
\* (UI_ShowContrastSettings, LCDReset): ContrastIsApplied, up to tdUI's going on.
THEOREM ContrastWithinTwoRounds == Spec => [](ContrastLag \in 0..8) /\ ContrastGetsCloser
<1>1. TypeOK => ContrastLag \in 0..8
  BY DrawBounds DEF ContrastLag
<1>2. TypeOK /\ TypeOK' /\ [Next]_vars =>
        [menu = "CONTRAST_SETTING" /\ menu' = menu /\ contrast' = contrast /\ ~faulty =>
           /\ ContrastLag' <= ContrastLag
           /\ UiStep /\ ContrastLag > 0 => ContrastLag' < ContrastLag]_vars
  <2> SUFFICES ASSUME TypeOK, TypeOK', [Next]_vars,
                      menu = "CONTRAST_SETTING", menu' = menu, contrast' = contrast, ~faulty
               PROVE  /\ ContrastLag' <= ContrastLag
                      /\ UiStep /\ ContrastLag > 0 => ContrastLag' < ContrastLag
    OBVIOUS
  <2>0. DrawIn \in 1..8 /\ DrawIn' \in 1..8
    BY DrawBounds DEF TypeOK, DrawIn
  <2>1. CASE UiStep
    BY <2>0, <2>1, ContrastNearer DEF ContrastLag
  <2>2. CASE ~UiStep
    <3>1. UNCHANGED <<pc, shown, prev, lcdContrast>>
      BY <2>2, OthersLeaveUi
    <3>2. DrawIn' = DrawIn /\ (ContrastDone' <=> ContrastDone)
      BY <3>1 DEF DrawIn, ContrastDone
    <3> QED  BY <2>0, <2>2, <3>2 DEF ContrastLag
  <2> QED  BY <2>1, <2>2
<1> QED  BY <1>1, <1>2, TypeCorrect, PTL DEF Spec, ContrastGetsCloser

\* The display has the brightness, which is enough, and nothing under way will
\* change either.
BrightnessDone ==
  /\ lcdBrightness = brightness /\ brightness >= MinBrightness
  /\ pc = "top" => prev = menu
  /\ pc # "raise"

\* The steps of tdUI until then.
SetIn ==
  IF pc = "brightness" /\ brightness >= MinBrightness THEN 1
  ELSE [raise |-> 2, clamp |-> 3, draw |-> 4, switch |-> 5, top |-> 6, end |-> 7,
        brightness |-> 8][pc]
BrightnessLag == IF BrightnessDone THEN 0 ELSE SetIn

\* The level that the light calls for, or the least one if the photocell's call
\* was lost in the clamp; the display has it once it has settled.  (10: the
\* photocell has not called.)
Level == IF lost \/ light < MinBrightness THEN MinBrightness ELSE light
LevelKept ==
  /\ BrightnessLag = 0 =>
       lcdBrightness = Level \/ (light = 10 /\ lcdBrightness = MaxBrightness)
  /\ BrightnessLag \in 0..8
BrightnessGetsCloser ==
  [][ menu' = menu /\ light' = light /\ ~faulty =>
        /\ BrightnessLag' <= BrightnessLag
        /\ UiStep /\ BrightnessLag > 0 => BrightnessLag' < BrightnessLag
        /\ BrightnessLag = 0 => brightness' = brightness ]_vars

LEMMA SetBounds == TypeOK => SetIn \in 1..8
BY DEF TypeOK, SetIn

LEMMA BrightnessNearer ==
  ASSUME TypeOK, TypeOK', UiStep, menu' = menu, light' = light, ~faulty
  PROVE  /\ BrightnessDone' \/ (~BrightnessDone /\ SetIn' < SetIn)
         /\ BrightnessDone => brightness' = brightness
<1>0. brightness \in Int /\ MinBrightness \in Int /\ MaxBrightness >= MinBrightness
  BY Bounds DEF TypeOK, Lights
<1>1. CASE UiTop
  BY <1>0, <1>1 DEF UiTop, BrightnessDone, SetIn, levels, lcd
<1>2. CASE UiSwitch
  BY <1>2 DEF UiSwitch, BrightnessDone, SetIn, levels, lcd
<1>3. CASE UiDraw
  BY <1>3 DEF UiDraw, BrightnessDone, SetIn, levels
<1>4. CASE UiClamp
  BY <1>0, <1>4 DEF UiClamp, BrightnessDone, SetIn, levels, lcd
<1>5. CASE UiRaise
  BY <1>0, <1>5 DEF UiRaise, BrightnessDone, SetIn
<1>6. CASE UiSetBrightness
  BY <1>0, <1>6 DEF UiSetBrightness, BrightnessDone, SetIn, levels, Told
<1>7. CASE UiEnd
  BY <1>7 DEF UiEnd, BrightnessDone, SetIn, levels, lcd
<1> QED  BY <1>1, <1>2, <1>3, <1>4, <1>5, <1>6, <1>7 DEF UiStep

\* What the clamp and the photocell leave in mBrightnessLevel.  A store of the
\* clamp that undoes a call is one that began before the call.
LightKept ==
  /\ \/ brightness = IF lost THEN MinBrightness ELSE light
     \/ light < MinBrightness /\ brightness = MinBrightness
     \/ light = 10 /\ brightness = MaxBrightness
  /\ lost => brightness = MinBrightness /\ pc # "raise"
LEMMA LightStep == TypeOK /\ LightKept /\ [Next]_vars => LightKept'
<1> SUFFICES ASSUME TypeOK, LightKept, [Next]_vars PROVE LightKept'
  OBVIOUS
<1>0. /\ brightness \in Int /\ light \in Int /\ MinBrightness \in Int
      /\ MaxBrightness \in Int /\ MinBrightness < MaxBrightness
  BY Bounds, LevelsAssumption DEF TypeOK, Lights
<1>1. CASE UiClamp
  BY <1>0, <1>1 DEF UiClamp, LightKept, levels
<1>2. CASE UiRaise
  <2>1. pc = "raise" /\ pc' = "brightness" /\ brightness' = MinBrightness /\ light' = light
    BY <1>2 DEF UiRaise
  <2>2. lost' = (brightness > MinBrightness)
    BY <1>2 DEF UiRaise
  <2>3. CASE brightness > MinBrightness
    BY <2>1, <2>2, <2>3 DEF LightKept
  <2>4. CASE ~(brightness > MinBrightness)
    <3>1. light = MinBrightness \/ light < MinBrightness
      BY <1>0, <2>1, <2>4 DEF LightKept
    <3>2. ~lost'
      BY <2>2, <2>4
    <3> QED  BY <2>1, <3>1, <3>2 DEF LightKept
  <2> QED  BY <2>3, <2>4
<1>3. CASE UiTop \/ UiSwitch \/ UiDraw \/ UiSetBrightness \/ UiEnd
  BY <1>3 DEF UiTop, UiSwitch, UiDraw, UiSetBrightness, UiEnd, LightKept, levels
<1>4. CASE \E val \in Lights : Photocell(val)
  BY <1>4 DEF Photocell, LightKept
<1>5. CASE UNCHANGED <<brightness, light, lost, pc>>
  BY <1>5 DEF LightKept
<1>6. CASE \E screen \in Menus : Turn(screen)
  BY <1>5, <1>6 DEF Turn, levels, ui
<1>7. CASE CancelPressed \/ OkPressed
  BY <1>5, <1>7 DEF CancelPressed, OkPressed, ui
<1>8. CASE \E way \in {"CW", "CCW"} : Rotate(way)
  BY <1>5, <1>8 DEF Rotate, ui
<1>9. CASE BusChanges \/ UNCHANGED vars
  BY <1>5, <1>9 DEF BusChanges, vars, levels, ui
<1> QED
  BY <1>1, <1>2, <1>3, <1>4, <1>6, <1>7, <1>8, <1>9 DEF Next, UiStep

\* In steady light, with the panel left on a screen and the bus working, the
\* display settles within eight steps of tdUI at the level of the light, or at
\* the least if that is less or its call was lost (UIThread.c, the clamp of
\* mBrightnessLevel; LCDReset): BrightnessSettles, up to tdUI's going on.
THEOREM BrightnessWithinTwoRounds == Spec => []LevelKept /\ BrightnessGetsCloser
<1>1. Init => LightKept
  BY DEF Init, LightKept
<1>2. TypeOK /\ LightKept => LevelKept
  <2> SUFFICES ASSUME TypeOK, LightKept PROVE LevelKept
    OBVIOUS
  <2>1. SetIn \in 1..8
    BY SetBounds
  <2>2. brightness \in Int /\ light \in Int /\ MinBrightness \in Int
    BY Bounds DEF TypeOK, Lights
  <2>3. brightness >= MinBrightness =>
          brightness = Level \/ (light = 10 /\ brightness = MaxBrightness)
    BY <2>2 DEF LightKept, Level
  <2> QED  BY <2>1, <2>3 DEF LevelKept, BrightnessLag, BrightnessDone
<1>3. TypeOK /\ TypeOK' /\ [Next]_vars =>
        [menu' = menu /\ light' = light /\ ~faulty =>
           /\ BrightnessLag' <= BrightnessLag
           /\ UiStep /\ BrightnessLag > 0 => BrightnessLag' < BrightnessLag
           /\ BrightnessLag = 0 => brightness' = brightness]_vars
  <2> SUFFICES ASSUME TypeOK, TypeOK', [Next]_vars, menu' = menu, light' = light, ~faulty
               PROVE  /\ BrightnessLag' <= BrightnessLag
                      /\ UiStep /\ BrightnessLag > 0 => BrightnessLag' < BrightnessLag
                      /\ BrightnessLag = 0 => brightness' = brightness
    OBVIOUS
  <2>0. SetIn \in 1..8 /\ SetIn' \in 1..8
    BY SetBounds DEF TypeOK, SetIn
  <2>1. CASE UiStep
    BY <2>0, <2>1, BrightnessNearer DEF BrightnessLag
  <2>2. CASE ~UiStep
    <3>1. UNCHANGED <<pc, shown, prev, lcdBrightness, brightness>>
      BY <2>2, OthersLeaveUi
    <3>2. SetIn' = SetIn /\ (BrightnessDone' <=> BrightnessDone)
      BY <3>1 DEF SetIn, BrightnessDone
    <3> QED  BY <2>0, <2>2, <3>1, <3>2 DEF BrightnessLag
  <2> QED  BY <2>1, <2>2
<1> QED
  BY <1>1, <1>2, <1>3, LightStep, TypeCorrect, PTL DEF Spec, BrightnessGetsCloser
=============================================================================
