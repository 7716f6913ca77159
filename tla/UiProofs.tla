------------------------------ MODULE UiProofs ------------------------------
(***************************************************************************)
(* What module Ui states of the screens, the buttons and the settings,     *)
(* proved for any heights and any digits that somebody enters.             *)
(*                                                                         *)
(* The invariant is a predicate on the record of all that the handlers may *)
(* change, and so are its parts: what a handler makes of the record has the*)
(* invariant if the record had it.                                         *)
(***************************************************************************)
EXTENDS Ui, TLAPS

Menus == DOMAIN OnNext
DoorScreens == {"uiDoorControlScreen", "uiDoorCalibrationScreen"}
Dark == {"splash", "calibrationMode", "calibrating"}
Screens ==
    Menus \cup DoorScreens \cup Dark \cup
    {"uiDateAndTimeEntryScreen", "uiDateAndTimeStatusScreen", "uiLatitudeAndLongitudeEntryScreen"}

\* The sets have names so that a record is one of States by its shape alone.
Cursors == 0 .. 15 \cup {NoCursor}
Digits == 0 .. 9
Rows == [0 .. 15 -> Digits]
OptionRows == {<<>>, <<0, 11>>, <<0, 5, 11>>}
Options == 0 .. 2
Inputs == {"uiInputIsUninitialised", "uiInputIsOptions", "uiInputIsRange",
           "uiInputIsRangeOfTwo", "uiInputIsStatusScreen"}
PreEnters == {NoFunction, "uiDoorControlScreenOptionSelected"}
Enters == {NoFunction, "uiMenuScreenOptionSelected", "uiDateAndTimeScreenEnterNextDigit",
           "uiDateAndTimeScreenStatusExit", "uiLatitudeAndLongitudeScreenEnterNextDigit",
           "uiDoorControlScreenOptionAfterSelected"}
Buttons == SUBSET {"left", "right"}
Modes == SUBSET {"isManuallyOverridden", "isSunEventDriven", "isTimeDriven"}
Requests == {"nothing", "open", "close", "calibrate"}
Subscriptions == SUBSET {"TIME_CHANGED", "DOOR_CALIBRATED"}
Entries == SUBSET {"clock", "location"}

UiStates ==
    [isCalibrationMode : BOOLEAN, isInitialSetupRequired : BOOLEAN,
     isScreenOn : BOOLEAN, isScreenTimeoutDisabled : BOOLEAN,
     pressed : Buttons,
     isButtonPressPreventedFromTurningOnScreen : BOOLEAN,
     isButtonPressTurningOnScreen : BOOLEAN,
     isDoorBeingManuallyControlled : BOOLEAN, isDoorBeingCalibrated : BOOLEAN,
     shown : Screens, digits : Rows, cursorPosition : Cursors,
     min : Digits, max : Digits, optionPlaces : OptionRows, selectedOptionIndex : Options,
     buttons : Inputs, onPreEnter : PreEnters, onEnter : Enters]

Settings ==
    [isCalibrationRequired : BOOLEAN, height : Nat, mode : Modes,
     latitudeOffset : Int, longitudeOffset : Int]

States ==
    [ui : UiStates, settings : Settings, nvm : Settings,
     asked : Requests, subscribed : Subscriptions, since : Entries]

\* The pointers are those of the screen that is shown.  The status screen and the one of a
\* calibration leave the door's, whose third option does nothing on a press.
Wired(ui) ==
    /\ ui.shown \in Dark => ui.buttons = "uiInputIsUninitialised"
    /\ ui.shown \in Menus =>
         /\ ui.buttons = "uiInputIsOptions" /\ ui.optionPlaces = <<0, 11>>
         /\ ui.onPreEnter = NoFunction /\ ui.onEnter = "uiMenuScreenOptionSelected"
    /\ ui.shown \in DoorScreens =>
         /\ ui.buttons = "uiInputIsOptions" /\ ui.optionPlaces = <<0, 5, 11>>
         /\ ui.onPreEnter = "uiDoorControlScreenOptionSelected"
         /\ ui.onEnter = "uiDoorControlScreenOptionAfterSelected"
    /\ ui.shown = "uiDateAndTimeEntryScreen" =>
         /\ ui.buttons = "uiInputIsRange"
         /\ ui.onPreEnter = NoFunction /\ ui.onEnter = "uiDateAndTimeScreenEnterNextDigit"
    /\ ui.shown = "uiLatitudeAndLongitudeEntryScreen" =>
         /\ ui.buttons \in {"uiInputIsRange", "uiInputIsRangeOfTwo"}
         /\ ui.cursorPosition \in LocationPlaces
         /\ ui.onPreEnter = NoFunction
         /\ ui.onEnter = "uiLatitudeAndLongitudeScreenEnterNextDigit"
    /\ ui.shown = "uiDateAndTimeStatusScreen" =>
         /\ ui.buttons = "uiInputIsStatusScreen"
         /\ ui.onEnter = "uiDateAndTimeScreenStatusExit"
    /\ ui.shown \in {"uiDateAndTimeStatusScreen", "calibrating"} =>
         ui.onPreEnter = NoFunction \/ ui.selectedOptionIndex = 2

\* The door is asked for nothing that the screen does not say.
Asks(s) ==
    /\ s.ui.isDoorBeingManuallyControlled => s.ui.shown \in DoorScreens
    /\ s.asked \in {"open", "close"} => s.ui.isDoorBeingManuallyControlled
    /\ s.asked = "calibrate" => s.ui.shown = "calibrating"
    /\ s.ui.isButtonPressPreventedFromTurningOnScreen => s.ui.shown = "calibrationMode"

\* The door moves by hand while the right button, which did not just turn the screen on,
\* holds the screen's timeout off.
HeldDown(ui) ==
    ui.isDoorBeingManuallyControlled =>
        /\ "right" \in ui.pressed /\ ui.isScreenOn /\ ui.isScreenTimeoutDisabled
        /\ ~ui.isButtonPressTurningOnScreen

Heard(shown) ==
    CASE shown = "uiDateAndTimeStatusScreen" -> {"TIME_CHANGED"}
      [] shown = "calibrating" -> {"DOOR_CALIBRATED"}
      [] OTHER -> {}

\* What is known of the settings, and the screens that the initial setup goes through.
Settled(s) ==
    /\ s.ui.isCalibrationMode = s.nvm.isCalibrationRequired
    /\ s.settings.isCalibrationRequired = s.nvm.isCalibrationRequired
    /\ s.ui.isInitialSetupRequired => s.nvm.height < 128

SetsUp(s) ==
    /\ s.ui.isCalibrationMode => s.ui.shown \in {"splash", "calibrationMode"}
    /\ s.ui.isInitialSetupRequired =>
         /\ s.ui.shown \in Dark \cup {"uiDateAndTimeEntryScreen",
                    "uiLatitudeAndLongitudeEntryScreen", "uiDoorCalibrationScreen"}
         /\ s.ui.shown = "uiLatitudeAndLongitudeEntryScreen" => "clock" \in s.since
         /\ s.ui.shown \in {"uiDoorCalibrationScreen", "calibrating"} =>
                 s.since = {"clock", "location"}
    /\ s.ui.shown = "uiDoorCalibrationScreen" => s.ui.isDoorBeingCalibrated

\* The digits so far are the start of a real date, and the range at the cursor keeps to it.
Dated(ui) ==
    LET place == ui.cursorPosition
        digits == ui.digits
    IN /\ place \in DatePlaces
       /\ digits[place] \in ui.min .. ui.max
       /\ place = 5 => ui.max = 1
       /\ place = 6 => 10 * digits[5] + ui.min >= 1 /\ 10 * digits[5] + ui.max <= 12
       /\ place > 6 => EnteredMonth(ui) \in 1 .. 12
       /\ place = 8 => ui.max = IF EnteredMonth(ui) = 2 THEN 2 ELSE 3
       /\ place = 9 => /\ 10 * digits[8] + ui.min >= 1
                       /\ 10 * digits[8] + ui.max
                            <= MonthLength(EnteredMonth(ui), EnteredYear(ui))
       /\ place > 9 => EnteredDay(ui) \in 1 .. MonthLength(EnteredMonth(ui), EnteredYear(ui))
       /\ place = 11 => ui.max = 2
       /\ place = 12 => 10 * digits[11] + ui.max < 24
       /\ place > 12 => EnteredHour(ui) < 24
       /\ place = 14 => ui.max = 5
       /\ place = 15 => digits[14] <= 5
       /\ place < 14 => digits[14] = 0
       /\ place < 15 => digits[15] = 0

DatedIfEntered(ui) == ui.shown = "uiDateAndTimeEntryScreen" => Dated(ui)

\* All but who holds which button.
Steady(s) ==
    /\ s \in States
    /\ Wired(s.ui) /\ Asks(s) /\ s.subscribed = Heard(s.ui.shown)
    /\ Settled(s) /\ SetsUp(s) /\ DatedIfEntered(s.ui)

IInv == Steady(Now) /\ HeldDown(uiState)
-----------------------------------------------------------------------------
(***************************************************************************)
(* The screens, one after another.  Each is shown when nobody moves the    *)
(* door, nor is it being calibrated, nor is this the calibration mode.     *)
(***************************************************************************)
Idle(s) ==
    /\ s \in States
    /\ ~s.ui.isDoorBeingManuallyControlled /\ s.asked = "nothing"
    /\ ~s.ui.isButtonPressPreventedFromTurningOnScreen
    /\ Settled(s) /\ ~s.ui.isCalibrationMode

\* What most screens leave alone.
SameFlags(ui, before) ==
    /\ ui.isCalibrationMode = before.isCalibrationMode
    /\ ui.isInitialSetupRequired = before.isInitialSetupRequired
    /\ ui.isScreenOn = before.isScreenOn
    /\ ui.isScreenTimeoutDisabled = before.isScreenTimeoutDisabled
    /\ ui.pressed = before.pressed
    /\ ui.isButtonPressPreventedFromTurningOnScreen
            = before.isButtonPressPreventedFromTurningOnScreen
    /\ ui.isButtonPressTurningOnScreen = before.isButtonPressTurningOnScreen
    /\ ui.isDoorBeingManuallyControlled = before.isDoorBeingManuallyControlled

SameRest(t, s) ==
    t.settings = s.settings /\ t.nvm = s.nvm /\ t.asked = s.asked /\ t.since = s.since

\* What becomes of s when a screen has been shown.
Shows(t, s) == Steady(t) /\ ~t.ui.isDoorBeingManuallyControlled /\ t.nvm = s.nvm

LEMMA Members ==
    /\ 0 \in Cursors /\ 1 \in Cursors /\ 2 \in Cursors /\ 11 \in Cursors /\ NoCursor \in Cursors
    /\ 2 \in Digits /\ 5 \in Digits /\ 6 \in Digits /\ 9 \in Digits
    /\ NoDigits \in Rows
    /\ [NoDigits EXCEPT ![2] = 2] \in Rows /\ [NoDigits EXCEPT ![1] = 5] \in Rows
    /\ <<0, 11>> \in OptionRows /\ <<0, 5, 11>> \in OptionRows
    /\ 0 \in Options /\ 1 \in Options
    /\ "uiInputIsUninitialised" \in Inputs /\ "uiInputIsOptions" \in Inputs
    /\ "uiInputIsRange" \in Inputs /\ "uiInputIsRangeOfTwo" \in Inputs
    /\ "uiInputIsStatusScreen" \in Inputs
    /\ NoFunction \in PreEnters /\ "uiDoorControlScreenOptionSelected" \in PreEnters
    /\ "uiMenuScreenOptionSelected" \in Enters
    /\ "uiDateAndTimeScreenEnterNextDigit" \in Enters
    /\ "uiDateAndTimeScreenStatusExit" \in Enters
    /\ "uiLatitudeAndLongitudeScreenEnterNextDigit" \in Enters
    /\ "uiDoorControlScreenOptionAfterSelected" \in Enters
    /\ Dark \subseteq Screens /\ DoorScreens \subseteq Screens
    /\ "uiDateAndTimeEntryScreen" \in Screens /\ "uiDateAndTimeStatusScreen" \in Screens
    /\ "uiLatitudeAndLongitudeEntryScreen" \in Screens
BY DEF Cursors, Digits, Rows, NoDigits, OptionRows, Options, Inputs, PreEnters, Enters, NoCursor,
       Screens

\* A screen that leaves the door idle, has set the pointers and is heard.
LEMMA IdleIsSteady ==
    ASSUME NEW s, NEW t, Idle(t), Wired(t.ui), t.subscribed = Heard(t.ui.shown),
           SetsUp(t), DatedIfEntered(t.ui), t.nvm = s.nvm
    PROVE  Shows(t, s)
BY DEF Shows, Steady, Idle, Asks

LEMMA StaysIdle ==
    ASSUME NEW s, NEW t \in States, Idle(s), SameFlags(t.ui, s.ui), SameRest(t, s)
    PROVE  Idle(t) /\ t.nvm = s.nvm
BY DEF Idle, Settled, SameFlags, SameRest

LEMMA MenuIsShown ==
    ASSUME NEW s, Idle(s), s.subscribed = {}, ~s.ui.isInitialSetupRequired, NEW menu \in Menus
    PROVE  Shows(uiMenuScreen(s, menu), s)
<1> DEFINE t == uiMenuScreen(s, menu)
<1>1. s \in States /\ menu \in Screens
  BY DEF Idle, Screens
<1>2. /\ menu \notin DoorScreens /\ menu \notin Dark
      /\ menu \notin {"uiDateAndTimeEntryScreen", "uiDateAndTimeStatusScreen",
                      "uiLatitudeAndLongitudeEntryScreen"}
  BY DEF Menus, DoorScreens, Dark, OnNext
<1>3. t \in States
  BY <1>1, Members DEF uiMenuScreen, States, UiStates
<1>4. /\ t.ui.shown = menu /\ t.ui.optionPlaces = <<0, 11>> /\ t.ui.buttons = "uiInputIsOptions"
      /\ t.ui.onPreEnter = NoFunction /\ t.ui.onEnter = "uiMenuScreenOptionSelected"
  BY <1>1 DEF uiMenuScreen, States, UiStates
<1>5. SameFlags(t.ui, s.ui)
  BY <1>1 DEF uiMenuScreen, States, UiStates, SameFlags
<1>6. SameRest(t, s) /\ t.subscribed = s.subscribed
  BY <1>1 DEF uiMenuScreen, States, SameRest
<1> HIDE DEF t
<1>7. Wired(t.ui)
  BY <1>2, <1>4 DEF Wired
<1>8. Idle(t) /\ t.nvm = s.nvm
  BY <1>3, <1>5, <1>6, StaysIdle
<1>9. t.subscribed = Heard(t.ui.shown)
  BY <1>2, <1>4, <1>6 DEF Heard, Dark
<1>10. SetsUp(t) /\ DatedIfEntered(t.ui)
  BY <1>2, <1>4, <1>5, <1>8 DEF SetsUp, DatedIfEntered, SameFlags, DoorScreens, Idle
<1> QED BY <1>7, <1>8, <1>9, <1>10, IdleIsSteady DEF t

LEMMA DateEntryIsShown ==
    ASSUME NEW s, Idle(s), s.subscribed = {}
    PROVE  Shows(uiDateAndTimeEntryScreen(s), s)
<1> DEFINE t == uiDateAndTimeEntryScreen(s)
<1>1. s \in States
  BY DEF Idle
<1>2. t \in States
  BY <1>1, Members DEF uiDateAndTimeEntryScreen, States, UiStates
<1>3. /\ t.ui.shown = "uiDateAndTimeEntryScreen" /\ t.ui.buttons = "uiInputIsRange"
      /\ t.ui.onPreEnter = NoFunction /\ t.ui.onEnter = "uiDateAndTimeScreenEnterNextDigit"
  BY <1>1 DEF uiDateAndTimeEntryScreen, States, UiStates
<1>4. /\ t.ui.cursorPosition = 2 /\ t.ui.min = 2 /\ t.ui.max = 9
      /\ t.ui.digits = [NoDigits EXCEPT ![2] = 2]
  BY <1>1 DEF uiDateAndTimeEntryScreen, States, UiStates
<1>5. SameFlags(t.ui, s.ui)
  BY <1>1 DEF uiDateAndTimeEntryScreen, States, UiStates, SameFlags
<1>6. SameRest(t, s) /\ t.subscribed = s.subscribed
  BY <1>1 DEF uiDateAndTimeEntryScreen, States, SameRest
<1> HIDE DEF t
<1>7. Wired(t.ui)
  BY <1>3 DEF Wired, Dark, Menus, OnNext, DoorScreens
<1>8. Idle(t) /\ t.nvm = s.nvm
  BY <1>2, <1>5, <1>6, StaysIdle
<1>9. t.subscribed = Heard(t.ui.shown)
  BY <1>3, <1>6 DEF Heard
<1>10. SetsUp(t)
  BY <1>3, <1>5, <1>8 DEF SetsUp, SameFlags, Idle
<1>11. DatedIfEntered(t.ui)
  <2>1. t.ui.digits[2] = 2 /\ t.ui.digits[14] = 0 /\ t.ui.digits[15] = 0
    BY <1>4 DEF NoDigits
  <2> QED BY <1>4, <2>1 DEF DatedIfEntered, Dated, DatePlaces
<1> QED BY <1>7, <1>8, <1>9, <1>10, <1>11, IdleIsSteady DEF t

LEMMA StatusIsShown ==
    ASSUME NEW s, Idle(s), s.subscribed = {}, ~s.ui.isInitialSetupRequired,
           s.ui.onPreEnter = NoFunction \/ s.ui.selectedOptionIndex = 2
    PROVE  Shows(uiDateAndTimeStatusScreen(s), s)
<1> DEFINE t == uiDateAndTimeStatusScreen(s)
<1>1. s \in States
  BY DEF Idle
<1>2. t \in States
  <2>1. s.subscribed \cup {"TIME_CHANGED"} \in Subscriptions
    BY <1>1 DEF States, Subscriptions
  <2> QED BY <1>1, <2>1, Members DEF uiDateAndTimeStatusScreen, States, UiStates
<1>3. /\ t.ui.shown = "uiDateAndTimeStatusScreen" /\ t.ui.buttons = "uiInputIsStatusScreen"
      /\ t.ui.onEnter = "uiDateAndTimeScreenStatusExit"
      /\ t.ui.onPreEnter = s.ui.onPreEnter
      /\ t.ui.selectedOptionIndex = s.ui.selectedOptionIndex
  BY <1>1 DEF uiDateAndTimeStatusScreen, States, UiStates
<1>4. SameFlags(t.ui, s.ui)
  BY <1>1 DEF uiDateAndTimeStatusScreen, States, UiStates, SameFlags
<1>5. SameRest(t, s) /\ t.subscribed = {"TIME_CHANGED"}
  BY <1>1 DEF uiDateAndTimeStatusScreen, States, SameRest
<1> HIDE DEF t
<1>6. Wired(t.ui)
  BY <1>3 DEF Wired, Dark, Menus, OnNext, DoorScreens
<1>7. Idle(t) /\ t.nvm = s.nvm
  BY <1>2, <1>4, <1>5, StaysIdle
<1>8. t.subscribed = Heard(t.ui.shown)
  BY <1>3, <1>5 DEF Heard
<1>9. SetsUp(t) /\ DatedIfEntered(t.ui)
  BY <1>3, <1>4, <1>7 DEF SetsUp, SameFlags, Idle, DatedIfEntered
<1> QED BY <1>6, <1>7, <1>8, <1>9, IdleIsSteady DEF t

LEMMA LocationEntryIsShown ==
    ASSUME NEW s, Idle(s), s.subscribed = {}, "clock" \in s.since
    PROVE  Shows(uiLatitudeAndLongitudeEntryScreen(s), s)
<1> DEFINE t == uiLatitudeAndLongitudeEntryScreen(s)
<1>1. s \in States
  BY DEF Idle
<1>2. t \in States
  BY <1>1, Members DEF uiLatitudeAndLongitudeEntryScreen, States, UiStates
<1>3. /\ t.ui.shown = "uiLatitudeAndLongitudeEntryScreen" /\ t.ui.buttons = "uiInputIsRange"
      /\ t.ui.cursorPosition = 1
      /\ t.ui.onPreEnter = NoFunction
      /\ t.ui.onEnter = "uiLatitudeAndLongitudeScreenEnterNextDigit"
  BY <1>1 DEF uiLatitudeAndLongitudeEntryScreen, States, UiStates
<1>4. SameFlags(t.ui, s.ui)
  BY <1>1 DEF uiLatitudeAndLongitudeEntryScreen, States, UiStates, SameFlags
<1>5. SameRest(t, s) /\ t.subscribed = s.subscribed
  BY <1>1 DEF uiLatitudeAndLongitudeEntryScreen, States, SameRest
<1> HIDE DEF t
<1>6. Wired(t.ui)
  BY <1>3 DEF Wired, Dark, Menus, OnNext, DoorScreens, LocationPlaces
<1>7. Idle(t) /\ t.nvm = s.nvm
  BY <1>2, <1>4, <1>5, StaysIdle
<1>8. t.subscribed = Heard(t.ui.shown)
  BY <1>3, <1>5 DEF Heard
<1>9. SetsUp(t) /\ DatedIfEntered(t.ui)
  BY <1>3, <1>5, <1>7 DEF SetsUp, SameRest, Idle, DatedIfEntered
<1> QED BY <1>6, <1>7, <1>8, <1>9, IdleIsSteady DEF t

LEMMA DoorWired ==
    ASSUME NEW s \in States
    PROVE  LET t == uiDoorControlScreenWireInputAndDisplay(s)
           IN /\ t \in States
              /\ t.ui.shown = s.ui.shown
              /\ t.ui.isDoorBeingCalibrated = s.ui.isDoorBeingCalibrated
              /\ t.ui.buttons = "uiInputIsOptions" /\ t.ui.optionPlaces = <<0, 5, 11>>
              /\ t.ui.onPreEnter = "uiDoorControlScreenOptionSelected"
              /\ t.ui.onEnter = "uiDoorControlScreenOptionAfterSelected"
              /\ SameFlags(t.ui, s.ui) /\ SameRest(t, s) /\ t.subscribed = s.subscribed
<1> DEFINE t == uiDoorControlScreenWireInputAndDisplay(s)
<1>1. t \in States
  BY Members DEF uiDoorControlScreenWireInputAndDisplay, States, UiStates
<1>2. /\ t.ui.shown = s.ui.shown
      /\ t.ui.buttons = "uiInputIsOptions" /\ t.ui.optionPlaces = <<0, 5, 11>>
      /\ t.ui.onPreEnter = "uiDoorControlScreenOptionSelected"
      /\ t.ui.onEnter = "uiDoorControlScreenOptionAfterSelected"
  BY DEF uiDoorControlScreenWireInputAndDisplay, States, UiStates
<1>3. t.ui.isDoorBeingCalibrated = s.ui.isDoorBeingCalibrated
  BY DEF uiDoorControlScreenWireInputAndDisplay, States, UiStates
<1>4. SameFlags(t.ui, s.ui)
  BY DEF uiDoorControlScreenWireInputAndDisplay, States, UiStates, SameFlags
<1>5. SameRest(t, s) /\ t.subscribed = s.subscribed
  BY DEF uiDoorControlScreenWireInputAndDisplay, States, SameRest
<1> QED BY <1>1, <1>2, <1>3, <1>4, <1>5

\* Both of the door's screens, once the first part of each has been done.
LEMMA DoorScreenIsWired ==
    ASSUME NEW s, Idle(s), s.subscribed = {}, NEW r \in States,
           r.ui.shown \in DoorScreens, SameFlags(r.ui, s.ui), SameRest(r, s),
           r.subscribed = s.subscribed,
           s.ui.isInitialSetupRequired =>
                r.ui.shown = "uiDoorCalibrationScreen" /\ s.since = {"clock", "location"},
           r.ui.shown = "uiDoorCalibrationScreen" => r.ui.isDoorBeingCalibrated
    PROVE  Shows(uiDoorControlScreenWireInputAndDisplay(r), s)
<1> DEFINE t == uiDoorControlScreenWireInputAndDisplay(r)
<1>1. /\ t \in States
      /\ t.ui.shown = r.ui.shown
      /\ t.ui.isDoorBeingCalibrated = r.ui.isDoorBeingCalibrated
      /\ t.ui.buttons = "uiInputIsOptions" /\ t.ui.optionPlaces = <<0, 5, 11>>
      /\ t.ui.onPreEnter = "uiDoorControlScreenOptionSelected"
      /\ t.ui.onEnter = "uiDoorControlScreenOptionAfterSelected"
      /\ SameFlags(t.ui, r.ui) /\ SameRest(t, r) /\ t.subscribed = r.subscribed
  BY DoorWired
<1> HIDE DEF t
<1>2. SameFlags(t.ui, s.ui) /\ SameRest(t, s) /\ t.subscribed = {}
  BY <1>1 DEF SameFlags, SameRest
<1>3. Wired(t.ui)
  BY <1>1 DEF Wired, Dark, Menus, OnNext, DoorScreens
<1>4. Idle(t) /\ t.nvm = s.nvm
  BY <1>1, <1>2, StaysIdle
<1>5. t.subscribed = Heard(t.ui.shown)
  BY <1>1, <1>2 DEF Heard, DoorScreens
<1>6. SetsUp(t)
  BY <1>1, <1>2, <1>4 DEF SetsUp, Idle, SameFlags, SameRest, DoorScreens
<1>7. DatedIfEntered(t.ui)
  BY <1>1 DEF DatedIfEntered, DoorScreens
<1> QED BY <1>3, <1>4, <1>5, <1>6, <1>7, IdleIsSteady DEF t

LEMMA DoorControlIsShown ==
    ASSUME NEW s, Idle(s), s.subscribed = {}, ~s.ui.isInitialSetupRequired
    PROVE  Shows(uiDoorControlScreen(s), s)
<1> DEFINE r == [s EXCEPT !.ui = [@ EXCEPT !.shown = "uiDoorControlScreen",
                                           !.isDoorBeingCalibrated = FALSE]]
<1>1. s \in States /\ "uiDoorControlScreen" \in Screens
  BY DEF Idle, Screens, DoorScreens
<1>2. r \in States
  BY <1>1 DEF States, UiStates
<1>3. r.ui.shown = "uiDoorControlScreen" /\ SameFlags(r.ui, s.ui)
  BY <1>1 DEF States, UiStates, SameFlags
<1>4. SameRest(r, s) /\ r.subscribed = s.subscribed
  BY <1>1 DEF States, SameRest
<1>5. uiDoorControlScreen(s) = uiDoorControlScreenWireInputAndDisplay(r)
  BY DEF uiDoorControlScreen
<1> HIDE DEF r
<1> QED BY <1>2, <1>3, <1>4, <1>5, DoorScreenIsWired DEF DoorScreens

LEMMA DoorCalibrationIsShown ==
    ASSUME NEW s, Idle(s), s.subscribed = {},
           s.ui.isInitialSetupRequired => s.since = {"clock", "location"}
    PROVE  Shows(uiDoorCalibrationScreen(s), s)
<1> DEFINE r == [s EXCEPT !.ui = [@ EXCEPT !.shown = "uiDoorCalibrationScreen",
                                           !.digits = NoDigits,
                                           !.isDoorBeingCalibrated = TRUE]]
<1>1. s \in States /\ "uiDoorCalibrationScreen" \in Screens
  BY DEF Idle, Screens, DoorScreens
<1>2. r \in States
  BY <1>1, Members DEF States, UiStates
<1>3. r.ui.shown = "uiDoorCalibrationScreen" /\ SameFlags(r.ui, s.ui)
  BY <1>1 DEF States, UiStates, SameFlags
<1>4. r.ui.isDoorBeingCalibrated
  BY <1>1 DEF States, UiStates
<1>5. SameRest(r, s) /\ r.subscribed = s.subscribed
  BY <1>1 DEF States, SameRest
<1>6. uiDoorCalibrationScreen(s) = uiDoorControlScreenWireInputAndDisplay(r)
  BY DEF uiDoorCalibrationScreen
<1> HIDE DEF r
<1> QED BY <1>2, <1>3, <1>4, <1>5, <1>6, DoorScreenIsWired DEF DoorScreens

\* A calibration is the one thing that a screen asks of the door by being shown.
LEMMA CalibratingIsShown ==
    ASSUME NEW s, Idle(s), s.subscribed = {}, s.ui.selectedOptionIndex = 2,
           s.ui.isInitialSetupRequired => s.since = {"clock", "location"}
    PROVE  Shows(Calibrates(s), s)
<1> DEFINE t == Calibrates(s)
<1>1. s \in States
  BY DEF Idle
<1>2. t \in States
  <2>1. s.subscribed \cup {"DOOR_CALIBRATED"} \in Subscriptions /\ "calibrate" \in Requests
    BY <1>1 DEF States, Subscriptions, Requests
  <2>2. "calibrating" \in Screens
    BY DEF Screens, Dark
  <2> QED BY <1>1, <2>1, <2>2, Members DEF Calibrates, States, UiStates
<1>3. /\ t.ui.shown = "calibrating" /\ t.ui.buttons = "uiInputIsUninitialised"
      /\ t.ui.selectedOptionIndex = s.ui.selectedOptionIndex
      /\ t.ui.isCalibrationMode = s.ui.isCalibrationMode
      /\ t.ui.isInitialSetupRequired = s.ui.isInitialSetupRequired
      /\ t.ui.isDoorBeingManuallyControlled = s.ui.isDoorBeingManuallyControlled
      /\ t.ui.isButtonPressPreventedFromTurningOnScreen
            = s.ui.isButtonPressPreventedFromTurningOnScreen
  BY <1>1 DEF Calibrates, States, UiStates
<1>4. /\ t.settings = s.settings /\ t.nvm = s.nvm /\ t.since = s.since
      /\ t.asked = "calibrate" /\ t.subscribed = {"DOOR_CALIBRATED"}
  BY <1>1 DEF Calibrates, States
<1> HIDE DEF t
<1>5. Wired(t.ui)
  BY <1>3 DEF Wired, Dark, Menus, OnNext, DoorScreens
<1>6. Settled(t) /\ ~t.ui.isDoorBeingManuallyControlled
  BY <1>3, <1>4 DEF Idle, Settled
<1>7. Asks(t)
  BY <1>3, <1>4 DEF Asks, Idle
<1>8. t.subscribed = Heard(t.ui.shown)
  BY <1>3, <1>4 DEF Heard
<1>9. SetsUp(t) /\ DatedIfEntered(t.ui)
  BY <1>3, <1>4 DEF SetsUp, DatedIfEntered, Idle, Dark
<1> QED BY <1>2, <1>4, <1>5, <1>6, <1>7, <1>8, <1>9 DEF Steady, Shows, t
-----------------------------------------------------------------------------
(***************************************************************************)
(* The digits of a date, place by place.                                   *)
(***************************************************************************)

\* The length of a month that the code takes from the bits of its number is the one by name.
LEMMA MonthsAgree ==
    ASSUME NEW year \in 0 .. 99, NEW month \in 1 .. 12
    PROVE  /\ clockDaysInMonth(month, year) = MonthLength(month, year)
           /\ month = 2 => MonthLength(month, year) \in {28, 29}
           /\ month # 2 => MonthLength(month, year) \in {30, 31}
<1>1. month \in {1, 2, 3, 4, 5, 6, 7, 8, 9, 10, 11, 12}
  OBVIOUS
<1>2. (IsLeap(year) <=> year % 4 = 0) /\ (clockIsLeapYear(year) <=> year % 4 = 0)
  BY DEF IsLeap, clockIsLeapYear
<1>3. clockDaysInMonth(month, year) = MonthLength(month, year)
  BY <1>1, <1>2 DEF clockDaysInMonth, MonthLength, MonthBits
<1> QED BY <1>1, <1>3 DEF MonthLength

\* What two digits make.
LEMMA Entered ==
    ASSUME NEW ui, ui.digits \in Rows
    PROVE  /\ \A place \in 0 .. 15 : ui.digits[place] \in 0 .. 9
           /\ EnteredYear(ui) = 10 * ui.digits[2] + ui.digits[3]
           /\ EnteredMonth(ui) = 10 * ui.digits[5] + ui.digits[6]
           /\ EnteredDay(ui) = 10 * ui.digits[8] + ui.digits[9]
           /\ EnteredHour(ui) = 10 * ui.digits[11] + ui.digits[12]
           /\ EnteredMinute(ui) = 10 * ui.digits[14] + ui.digits[15]
           /\ EnteredYear(ui) \in 0 .. 99
BY DEF Rows, Digits, EnteredYear, EnteredMonth, EnteredDay, EnteredHour, EnteredMinute,
       uiScreenTwoDigitsFromPosition

\* A digit within the range at the cursor leaves the date as real as it was.
LEMMA AnotherDigitIsDated ==
    ASSUME NEW ui, ui.digits \in Rows, ui.min \in Digits, ui.max \in Digits, Dated(ui),
           NEW digit \in ui.min .. ui.max,
           NEW then, then.digits = [ui.digits EXCEPT ![ui.cursorPosition] = digit],
           then.cursorPosition = ui.cursorPosition, then.min = ui.min, then.max = ui.max
    PROVE  Dated(then)
<1> DEFINE c == ui.cursorPosition
<1>1. c \in DatePlaces /\ c \in 0 .. 15 /\ digit \in Digits
  BY DEF Dated, DatePlaces, Digits
<1>2. then.digits \in Rows
  BY <1>1 DEF Rows
<1>3. /\ \A place \in 0 .. 15 : ui.digits[place] \in 0 .. 9
      /\ EnteredYear(ui) = 10 * ui.digits[2] + ui.digits[3]
      /\ EnteredMonth(ui) = 10 * ui.digits[5] + ui.digits[6]
      /\ EnteredDay(ui) = 10 * ui.digits[8] + ui.digits[9]
      /\ EnteredHour(ui) = 10 * ui.digits[11] + ui.digits[12]
  BY Entered
<1>4. /\ EnteredYear(then) = 10 * then.digits[2] + then.digits[3]
      /\ EnteredMonth(then) = 10 * then.digits[5] + then.digits[6]
      /\ EnteredDay(then) = 10 * then.digits[8] + then.digits[9]
      /\ EnteredHour(then) = 10 * then.digits[11] + then.digits[12]
  BY <1>2, Entered
<1>5. \A place \in 0 .. 15 : then.digits[place] = IF place = c THEN digit ELSE ui.digits[place]
  BY <1>1 DEF Rows
<1>6. then.digits[c] \in then.min .. then.max
  BY <1>1, <1>5
<1>7. c > 6 => EnteredMonth(then) = EnteredMonth(ui) /\ EnteredYear(then) = EnteredYear(ui)
  BY <1>1, <1>3, <1>4, <1>5
<1>8. c > 9 => EnteredDay(then) = EnteredDay(ui)
  BY <1>1, <1>3, <1>4, <1>5
<1>9. c > 12 => EnteredHour(then) = EnteredHour(ui)
  BY <1>1, <1>3, <1>4, <1>5
<1>10. /\ c = 6 => then.digits[5] = ui.digits[5]
       /\ c = 9 => then.digits[8] = ui.digits[8]
       /\ c = 12 => then.digits[11] = ui.digits[11]
       /\ c = 15 => then.digits[14] = ui.digits[14]
       /\ c < 14 => then.digits[14] = ui.digits[14]
       /\ c < 15 => then.digits[15] = ui.digits[15]
  BY <1>1, <1>5
<1>11. c > 6 => EnteredMonth(ui) \in 1 .. 12
  BY DEF Dated
<1> QED BY <1>1, <1>6, <1>7, <1>8, <1>9, <1>10 DEF Dated

\* The range at the next place is one of digits, and every digit of it goes on to a real date.
LEMMA NextDigitIsDated ==
    ASSUME NEW ui, ui.digits \in Rows, ui.min \in Digits, ui.max \in Digits,
           Dated(ui), ui.cursorPosition # 15
    PROVE  LET place == NextPlace(DatePlaces, ui)
               range == DateRange(ui, place)
           IN /\ place \in Cursors /\ place \in 0 .. 15
              /\ range[1] \in Digits /\ range[2] \in Digits
              /\ \A then :
                    /\ then.digits = [ui.digits EXCEPT ![place] = range[1]]
                    /\ then.cursorPosition = place
                    /\ then.min = range[1] /\ then.max = range[2]
                    => Dated(then)
<1> DEFINE c == ui.cursorPosition
           place == NextPlace(DatePlaces, ui)
           range == DateRange(ui, place)
<1>1. c \in DatePlaces \ {15}
  BY DEF Dated
<1>2. /\ \A p \in 0 .. 15 : ui.digits[p] \in 0 .. 9
      /\ EnteredYear(ui) = 10 * ui.digits[2] + ui.digits[3]
      /\ EnteredMonth(ui) = 10 * ui.digits[5] + ui.digits[6]
      /\ EnteredDay(ui) = 10 * ui.digits[8] + ui.digits[9]
      /\ EnteredHour(ui) = 10 * ui.digits[11] + ui.digits[12]
      /\ EnteredYear(ui) \in 0 .. 99
  BY Entered
<1>3. place \in DatePlaces /\ place \in 0 .. 15 /\ place \in Cursors
  BY <1>1 DEF NextPlace, DatePlaces, Cursors
<1>4. /\ c = 2 => place = 3
      /\ c = 3 => place = 5
      /\ c = 5 => place = 6
      /\ c = 6 => place = 8
      /\ c = 8 => place = 9
      /\ c = 9 => place = 11
      /\ c = 11 => place = 12
      /\ c = 12 => place = 14
      /\ c = 14 => place = 15
  BY DEF NextPlace, DatePlaces
<1>5. /\ ui.digits[c] \in ui.min .. ui.max
      /\ c = 5 => ui.max = 1
      /\ c = 6 => 10 * ui.digits[5] + ui.min >= 1 /\ 10 * ui.digits[5] + ui.max <= 12
      /\ c > 6 => EnteredMonth(ui) \in 1 .. 12
      /\ c = 8 => ui.max = IF EnteredMonth(ui) = 2 THEN 2 ELSE 3
      /\ c = 9 => /\ 10 * ui.digits[8] + ui.min >= 1
                  /\ 10 * ui.digits[8] + ui.max
                       <= MonthLength(EnteredMonth(ui), EnteredYear(ui))
      /\ c > 9 => EnteredDay(ui) \in 1 .. MonthLength(EnteredMonth(ui), EnteredYear(ui))
      /\ c = 11 => ui.max = 2
      /\ c = 12 => 10 * ui.digits[11] + ui.max < 24
      /\ c > 12 => EnteredHour(ui) < 24
      /\ c = 14 => ui.max = 5
      /\ c < 14 => ui.digits[14] = 0
      /\ c < 15 => ui.digits[15] = 0
  BY DEF Dated
<1>6. c = 6 => EnteredMonth(ui) \in 1 .. 12
  <2> SUFFICES ASSUME c = 6
               PROVE  EnteredMonth(ui) \in 1 .. 12
    OBVIOUS
  <2>1. ui.min \in 0 .. 9 /\ ui.max \in 0 .. 9 /\ ui.digits[5] \in 0 .. 9 /\ ui.digits[6] \in 0 .. 9
    BY <1>2 DEF Digits
  <2>2. /\ ui.digits[6] >= ui.min /\ ui.digits[6] <= ui.max
        /\ 10 * ui.digits[5] + ui.min >= 1 /\ 10 * ui.digits[5] + ui.max <= 12
    BY <1>5, <2>1
  <2>3. EnteredMonth(ui) = 10 * ui.digits[5] + ui.digits[6]
    BY <1>2
  <2> HIDE DEF c
  <2> QED BY <2>1, <2>2, <2>3
<1> DEFINE month == EnteredMonth(ui)
           length == MonthLength(EnteredMonth(ui), EnteredYear(ui))
<1>7. c = 8 => /\ LastDigit(ui) = length % 10
               /\ month = 2 => length \in {28, 29}
               /\ month # 2 => length \in {30, 31}
  <2> SUFFICES ASSUME c = 8
               PROVE  /\ LastDigit(ui) = length % 10
                      /\ month = 2 => length \in {28, 29}
                      /\ month # 2 => length \in {30, 31}
    OBVIOUS
  <2>1. month \in 1 .. 12 /\ EnteredYear(ui) \in 0 .. 99
    BY <1>2, <1>5
  <2> QED BY <2>1, MonthsAgree DEF LastDigit
<1>8. /\ c \in {2, 14} => range = <<0, 9>>
      /\ c = 3 => range = <<0, 1>>
      /\ c = 5 => range = IF ui.digits[5] = 1 THEN <<0, 2>> ELSE <<1, 9>>
      /\ c = 6 => range = <<0, IF EnteredMonth(ui) = 2 THEN 2 ELSE 3>>
      /\ c = 8 => range = IF ui.digits[8] = 0 THEN <<1, 9>>
                          ELSE IF ui.digits[8] = ui.max THEN <<0, LastDigit(ui)>>
                          ELSE <<0, ui.max>>
      /\ c = 9 => range = <<0, 2>>
      /\ c = 11 => range = <<0, IF ui.digits[11] = 2 THEN 3 ELSE 9>>
      /\ c = 12 => range = <<0, 5>>
  BY <1>4 DEF DateRange
<1>9. range[1] \in Digits /\ range[2] \in Digits /\ range[1] <= range[2]
  BY <1>1, <1>2, <1>7, <1>8 DEF DatePlaces, Digits
<1>10. c = 8 => /\ 10 * ui.digits[8] + range[1] >= 1
                /\ 10 * ui.digits[8] + range[2] <= length
  <2> SUFFICES ASSUME c = 8
               PROVE  /\ 10 * ui.digits[8] + range[1] >= 1
                      /\ 10 * ui.digits[8] + range[2] <= length
    OBVIOUS
  <2>1. ui.digits[8] \in 0 .. 9 /\ ui.digits[8] <= ui.max
    BY <1>2, <1>5
  <2>2. CASE ui.digits[8] = 0
    BY <1>5, <1>7, <1>8, <2>2
  <2>3. CASE ui.digits[8] # 0 /\ ui.digits[8] = ui.max
    BY <1>5, <1>7, <1>8, <2>3
  <2>4. CASE ui.digits[8] # 0 /\ ui.digits[8] # ui.max
    BY <1>5, <1>7, <1>8, <2>1, <2>4
  <2> QED BY <2>2, <2>3, <2>4
<1>11. ASSUME NEW then,
              then.digits = [ui.digits EXCEPT ![place] = range[1]],
              then.cursorPosition = place, then.min = range[1], then.max = range[2]
       PROVE  Dated(then)
  <2> HIDE DEF place, range
  <2>1. then.digits \in Rows
    BY <1>3, <1>9, <1>11 DEF Rows
  <2>2. \A p \in 0 .. 15 : then.digits[p] = IF p = place THEN range[1] ELSE ui.digits[p]
    BY <1>3, <1>11 DEF Rows
  <2>3. /\ \A p \in 0 .. 15 : then.digits[p] \in 0 .. 9
        /\ EnteredYear(then) = 10 * then.digits[2] + then.digits[3]
        /\ EnteredMonth(then) = 10 * then.digits[5] + then.digits[6]
        /\ EnteredDay(then) = 10 * then.digits[8] + then.digits[9]
        /\ EnteredHour(then) = 10 * then.digits[11] + then.digits[12]
    BY <2>1, Entered
  <2>4. then.digits[place] \in then.min .. then.max
    BY <1>3, <1>9, <1>11, <2>2 DEF Digits
  <2>5. place > 6 => EnteredMonth(then) = EnteredMonth(ui) /\ EnteredYear(then) = EnteredYear(ui)
    BY <1>2, <1>3, <2>2, <2>3
  <2>6. place > 9 => EnteredDay(then) = EnteredDay(ui)
    BY <1>2, <1>3, <2>2, <2>3
  <2>7. place > 12 => EnteredHour(then) = EnteredHour(ui)
    BY <1>2, <1>3, <2>2, <2>3
  <2>8. place = 5 => then.max = 1
    BY <1>1, <1>4, <1>8, <1>11 DEF DatePlaces
  <2>9. place = 6 => 10 * then.digits[5] + then.min >= 1 /\ 10 * then.digits[5] + then.max <= 12
    <3>1. place = 6 => c = 5
      BY <1>1, <1>4 DEF DatePlaces
    <3>2. place = 6 => then.digits[5] = ui.digits[5] /\ ui.digits[5] \in 0 .. 1
      BY <1>2, <1>5, <2>2, <3>1
    <3> QED BY <1>8, <1>11, <3>1, <3>2
  <2>10. place > 6 => EnteredMonth(then) \in 1 .. 12
    BY <1>1, <1>4, <1>5, <1>6, <2>5 DEF DatePlaces
  <2>11. place = 8 => then.max = IF EnteredMonth(then) = 2 THEN 2 ELSE 3
    BY <1>1, <1>4, <1>8, <1>11, <2>5 DEF DatePlaces
  <2>12. place = 9 => /\ 10 * then.digits[8] + then.min >= 1
                      /\ 10 * then.digits[8] + then.max
                           <= MonthLength(EnteredMonth(then), EnteredYear(then))
    BY <1>1, <1>4, <1>10, <1>11, <2>2, <2>5 DEF DatePlaces
  <2>13. place > 9 =>
            EnteredDay(then) \in 1 .. MonthLength(EnteredMonth(then), EnteredYear(then))
    <3>1. c = 9 => EnteredDay(ui) \in 1 .. length
      <4> SUFFICES ASSUME c = 9
                   PROVE  EnteredDay(ui) \in 1 .. length
        OBVIOUS
      <4>1. EnteredMonth(ui) \in 1 .. 12 /\ EnteredYear(ui) \in 0 .. 99
        BY <1>2, <1>5
      <4>2. length \in 28 .. 31
        BY <4>1, MonthsAgree
      <4>3. /\ ui.min \in 0 .. 9 /\ ui.max \in 0 .. 9
            /\ ui.digits[8] \in 0 .. 9 /\ ui.digits[9] \in 0 .. 9
        BY <1>2 DEF Digits
      <4>4. ui.digits[9] >= ui.min /\ ui.digits[9] <= ui.max
        BY <1>5, <4>3
      <4> QED BY <1>2, <1>5, <4>2, <4>3, <4>4
    <3>2. c > 9 => EnteredDay(ui) \in 1 .. length
      BY <1>5
    <3>3. place > 9 => c >= 9 /\ c \in 0 .. 15 /\ place > 6
      BY <1>1, <1>4 DEF DatePlaces
    <3>4. place > 9 => EnteredDay(ui) \in 1 .. length
      BY <3>1, <3>2, <3>3
    <3> QED BY <2>5, <2>6, <3>3, <3>4
  <2>14. place = 11 => then.max = 2
    BY <1>1, <1>4, <1>8, <1>11 DEF DatePlaces
  <2>15. place = 12 => 10 * then.digits[11] + then.max < 24
    BY <1>1, <1>2, <1>4, <1>5, <1>8, <1>11, <2>2 DEF DatePlaces
  <2>16. place > 12 => EnteredHour(then) < 24
    <3>1. c = 12 => EnteredHour(ui) < 24
      <4>1. ui.max \in 0 .. 9 /\ ui.digits[11] \in 0 .. 9 /\ ui.digits[12] \in 0 .. 9
        BY <1>2 DEF Digits
      <4>2. c = 12 => ui.digits[12] <= ui.max
        BY <1>5, <4>1
      <4> QED BY <1>2, <1>5, <4>1, <4>2
    <3>2. place > 12 => c = 12 \/ c > 12
      BY <1>1, <1>4 DEF DatePlaces
    <3> QED BY <1>5, <2>7, <3>1, <3>2
  <2>17. place = 14 => then.max = 5
    BY <1>1, <1>4, <1>8, <1>11 DEF DatePlaces
  <2>18. place = 15 => then.digits[14] <= 5
    BY <1>1, <1>2, <1>4, <1>5, <2>2 DEF DatePlaces
  <2>19. place < 14 => then.digits[14] = 0
    BY <1>1, <1>4, <1>5, <2>2 DEF DatePlaces
  <2>20. place < 15 => then.digits[15] = 0
    BY <1>1, <1>4, <1>5, <2>2 DEF DatePlaces
  <2> QED BY <1>3, <1>11, <2>4, <2>8, <2>9, <2>10, <2>11, <2>12, <2>13, <2>14, <2>15, <2>16,
             <2>17, <2>18, <2>19, <2>20 DEF Dated
<1> QED BY <1>3, <1>9, <1>11
-----------------------------------------------------------------------------
(***************************************************************************)
(* What the handlers make of a steady record.                              *)
(***************************************************************************)

\* What is said of the door when neither is asked of it nor is to be.
LEMMA SteadyIsIdle ==
    ASSUME NEW s, Steady(s), s.ui.shown \notin DoorScreens, s.ui.shown \notin Dark
    PROVE  Idle(s)
<1>1. s.asked \in {"nothing", "open", "close", "calibrate"}
  BY DEF Steady, States, Requests
<1> QED BY <1>1 DEF Steady, Asks, SetsUp, Idle, Dark

\* The screen and its pointers.
SameScreen(ui, before) ==
    /\ ui.isCalibrationMode = before.isCalibrationMode
    /\ ui.isInitialSetupRequired = before.isInitialSetupRequired
    /\ ui.isButtonPressPreventedFromTurningOnScreen
            = before.isButtonPressPreventedFromTurningOnScreen
    /\ ui.isDoorBeingManuallyControlled = before.isDoorBeingManuallyControlled
    /\ ui.isDoorBeingCalibrated = before.isDoorBeingCalibrated
    /\ ui.shown = before.shown
    /\ ui.optionPlaces = before.optionPlaces
    /\ ui.onPreEnter = before.onPreEnter
    /\ ui.onEnter = before.onEnter

LEMMA StaysSteady ==
    ASSUME NEW s, Steady(s), NEW t \in States, SameScreen(t.ui, s.ui),
           t.settings.isCalibrationRequired = s.settings.isCalibrationRequired,
           t.nvm = s.nvm, t.asked = s.asked, t.subscribed = s.subscribed, t.since = s.since,
           IF s.ui.shown = "uiLatitudeAndLongitudeEntryScreen"
             THEN /\ t.ui.cursorPosition \in LocationPlaces
                  /\ t.ui.buttons \in {"uiInputIsRange", "uiInputIsRangeOfTwo"}
             ELSE t.ui.buttons = s.ui.buttons,
           s.ui.shown \in {"uiDateAndTimeStatusScreen", "calibrating"} =>
                t.ui.selectedOptionIndex = s.ui.selectedOptionIndex,
           DatedIfEntered(t.ui)
    PROVE  Steady(t)
<1>1. Wired(t.ui)
  BY DEF Steady, Wired, SameScreen, Dark, Menus, OnNext, DoorScreens
<1>2. Asks(t)
  BY DEF Steady, Asks, SameScreen
<1>3. t.subscribed = Heard(t.ui.shown)
  BY DEF Steady, SameScreen
<1>4. Settled(t) /\ SetsUp(t)
  BY DEF Steady, Settled, SetsUp, SameScreen
<1> QED BY <1>1, <1>2, <1>3, <1>4 DEF Steady

LEMMA Gone ==
    ASSUME NEW s \in States, NEW place \in Cursors, NEW range,
           range[1] \in Digits, range[2] \in Digits
    PROVE  LET t == GoesTo(s, place, range)
           IN /\ t \in States
              /\ t.ui.cursorPosition = place /\ t.ui.min = range[1] /\ t.ui.max = range[2]
              /\ t.ui.digits = [s.ui.digits EXCEPT ![place] = range[1]]
              /\ t.ui.buttons = s.ui.buttons
              /\ t.ui.selectedOptionIndex = s.ui.selectedOptionIndex
              /\ SameScreen(t.ui, s.ui) /\ SameRest(t, s) /\ t.subscribed = s.subscribed
<1> DEFINE t == GoesTo(s, place, range)
           row == [s.ui.digits EXCEPT ![place] = range[1]]
<1>1. t = [s EXCEPT !.ui = [@ EXCEPT !.cursorPosition = place,
                                     !.min = range[1], !.max = range[2], !.digits = row]]
  BY DEF GoesTo
<1>2. row \in Rows
  BY DEF States, UiStates, Rows
<1> HIDE DEF t, row
<1>3. t \in States
  BY <1>1, <1>2 DEF States, UiStates
<1>4. /\ t.ui.cursorPosition = place /\ t.ui.min = range[1] /\ t.ui.max = range[2]
      /\ t.ui.digits = row /\ t.ui.buttons = s.ui.buttons
      /\ t.ui.selectedOptionIndex = s.ui.selectedOptionIndex
  BY <1>1 DEF States, UiStates
<1>5. SameScreen(t.ui, s.ui)
  BY <1>1 DEF States, UiStates, SameScreen
<1>6. SameRest(t, s) /\ t.subscribed = s.subscribed
  BY <1>1 DEF States, SameRest
<1> QED BY <1>3, <1>4, <1>5, <1>6 DEF t, row

LEMMA ClockIsSet ==
    ASSUME NEW s, Steady(s), s.ui.shown = "uiDateAndTimeEntryScreen"
    PROVE  Shows(ClockSet(s), s)
<1> DEFINE set == [s EXCEPT !.since = @ \cup {"clock"}]
<1>1. s \in States /\ Idle(s) /\ s.subscribed = {} /\ s.ui.onPreEnter = NoFunction
  BY SteadyIsIdle DEF Steady, Wired, Heard, DoorScreens, Dark
<1>2. set \in States
  <2>1. s.since \cup {"clock"} \in Entries
    BY <1>1 DEF States, Entries
  <2> QED BY <1>1, <2>1 DEF States
<1>3. /\ set.ui = s.ui /\ set.settings = s.settings /\ set.nvm = s.nvm /\ set.asked = s.asked
      /\ set.subscribed = s.subscribed /\ "clock" \in set.since
  BY <1>1 DEF States
<1>4. ClockSet(s) = IF s.ui.isInitialSetupRequired THEN uiLatitudeAndLongitudeEntryScreen(set)
                    ELSE uiDateAndTimeStatusScreen(set)
  BY DEF ClockSet
<1> HIDE DEF set
<1>5. Idle(set)
  BY <1>1, <1>2, <1>3 DEF Idle, Settled
<1>6. Shows(ClockSet(s), set)
  BY <1>1, <1>3, <1>4, <1>5, LocationEntryIsShown, StatusIsShown
<1> QED BY <1>3, <1>6 DEF Shows

LEMMA DateDigitIsEntered ==
    ASSUME NEW s, Steady(s), s.ui.shown = "uiDateAndTimeEntryScreen"
    PROVE  Shows(uiDateAndTimeScreenEnterNextDigit(s), s)
<1>1. CASE s.ui.cursorPosition = 15
  BY <1>1, ClockIsSet DEF uiDateAndTimeScreenEnterNextDigit
<1>2. CASE s.ui.cursorPosition # 15
  <2> DEFINE place == NextPlace(DatePlaces, s.ui)
             range == DateRange(s.ui, place)
             t == GoesTo(s, place, range)
  <2>1. /\ s \in States /\ Dated(s.ui) /\ s.ui.digits \in Rows
        /\ s.ui.min \in Digits /\ s.ui.max \in Digits
    BY DEF Steady, States, UiStates, DatedIfEntered
  <2>2. /\ place \in Cursors /\ range[1] \in Digits /\ range[2] \in Digits
        /\ \A then :
              /\ then.digits = [s.ui.digits EXCEPT ![place] = range[1]]
              /\ then.cursorPosition = place
              /\ then.min = range[1] /\ then.max = range[2]
              => Dated(then)
    BY <1>2, <2>1, NextDigitIsDated
  <2>3. uiDateAndTimeScreenEnterNextDigit(s) = t
    BY <1>2 DEF uiDateAndTimeScreenEnterNextDigit
  <2> HIDE DEF place, range
  <2>4. /\ t \in States
        /\ t.ui.cursorPosition = place /\ t.ui.min = range[1] /\ t.ui.max = range[2]
        /\ t.ui.digits = [s.ui.digits EXCEPT ![place] = range[1]]
        /\ t.ui.buttons = s.ui.buttons
        /\ t.ui.selectedOptionIndex = s.ui.selectedOptionIndex
        /\ SameScreen(t.ui, s.ui) /\ SameRest(t, s) /\ t.subscribed = s.subscribed
    BY <2>1, <2>2, Gone
  <2> HIDE DEF t
  <2>5. Dated(t.ui)
    BY <2>2, <2>4
  <2>6. Steady(t)
    BY <2>4, <2>5, StaysSteady DEF SameRest, DatedIfEntered
  <2>7. ~t.ui.isDoorBeingManuallyControlled
    BY <2>4, SteadyIsIdle DEF SameScreen, Idle, DoorScreens, Dark
  <2> QED BY <2>3, <2>4, <2>6, <2>7 DEF Shows, SameRest
<1> QED BY <1>1, <1>2

LEMMA DegreesAreANumber ==
    ASSUME NEW digits \in Rows, NEW place \in {0, 6}, NEW origin \in Int
    PROVE  uiDegreesFromScreenPosition(digits, place, origin) \in Int
<1>1. /\ digits[place] \in 0 .. 9 /\ digits[place + 1] \in 0 .. 9
      /\ digits[place + 1 + 1] \in 0 .. 9 /\ digits[place + 4] \in 0 .. 9
  BY DEF Rows, Digits
<1>2. uiScreenTwoDigitsFromPosition(digits, place + 1) \in Int
  BY <1>1 DEF uiScreenTwoDigitsFromPosition
<1>3. uiScreenSignAndTwoDigitsFromPosition(digits, place) \in Int
  BY <1>2 DEF uiScreenSignAndTwoDigitsFromPosition
<1> QED BY <1>1, <1>3 DEF uiDegreesFromScreenPosition

LEMMA LocationIsEntered ==
    ASSUME NEW s, Steady(s), s.ui.shown = "uiLatitudeAndLongitudeEntryScreen",
           s.ui.cursorPosition = 10
    PROVE  Shows(uiLatitudeAndLongitudeScreenEnterNextDigit(s), s)
<1> DEFINE entered == [s EXCEPT
                        !.settings = [@ EXCEPT !.longitudeOffset =
                                            uiDegreesFromScreenPosition(s.ui.digits, 6, 0)],
                        !.since = @ \cup {"location"}]
<1>1. s \in States /\ Idle(s) /\ s.subscribed = {}
  BY SteadyIsIdle DEF Steady, Heard, DoorScreens, Dark
<1>2. uiLatitudeAndLongitudeScreenEnterNextDigit(s) = uiDoorCalibrationScreen(entered)
  BY DEF uiLatitudeAndLongitudeScreenEnterNextDigit
<1>3. entered \in States
  <2>1. s.since \cup {"location"} \in Entries
    BY <1>1 DEF States, Entries
  <2>2. uiDegreesFromScreenPosition(s.ui.digits, 6, 0) \in Int
    BY <1>1, DegreesAreANumber DEF States, UiStates
  <2> QED BY <1>1, <2>1, <2>2 DEF States, Settings
<1>4. /\ entered.ui = s.ui /\ entered.nvm = s.nvm /\ entered.asked = s.asked
      /\ entered.subscribed = s.subscribed /\ entered.since = s.since \cup {"location"}
      /\ entered.settings.isCalibrationRequired = s.settings.isCalibrationRequired
  BY <1>1 DEF States, Settings
<1>5. s.ui.isInitialSetupRequired => "clock" \in s.since
  BY DEF Steady, SetsUp
<1> HIDE DEF entered
<1>6. Idle(entered)
  BY <1>1, <1>3, <1>4 DEF Idle, Settled
<1>7. s.ui.isInitialSetupRequired => entered.since = {"clock", "location"}
  BY <1>1, <1>4, <1>5 DEF States, Entries
<1>8. Shows(uiDoorCalibrationScreen(entered), entered)
  BY <1>1, <1>4, <1>6, <1>7, DoorCalibrationIsShown
<1> QED BY <1>2, <1>4, <1>8 DEF Shows

LEMMA LocationDigitIsEntered ==
    ASSUME NEW s, Steady(s), s.ui.shown = "uiLatitudeAndLongitudeEntryScreen"
    PROVE  Shows(uiLatitudeAndLongitudeScreenEnterNextDigit(s), s)
<1> DEFINE c == s.ui.cursorPosition
           place == NextPlace(LocationPlaces, s.ui)
           range == LocationRange(s.ui, place)
           went == GoesTo(s, place, range)
           t == uiLatitudeAndLongitudeScreenEnterNextDigit(s)
           latitude == uiDegreesFromScreenPosition(s.ui.digits, 0, 55)
<1>1. /\ s \in States /\ s.ui.cursorPosition \in LocationPlaces
      /\ s.ui.buttons \in {"uiInputIsRange", "uiInputIsRangeOfTwo"}
      /\ ~s.ui.isDoorBeingManuallyControlled
  BY SteadyIsIdle DEF Steady, Wired, Idle, DoorScreens, Dark
<1>2. CASE c = 10
  BY <1>2, LocationIsEntered
<1>3. CASE c # 10
  <2>1. place \in LocationPlaces \ {1} /\ place \in Cursors
    BY <1>1, <1>3 DEF NextPlace, LocationPlaces, Cursors
  <2>2. range[1] \in Digits /\ range[2] \in Digits
    BY <2>1 DEF LocationRange, LocationPlaces, Digits
  <2>3. latitude \in Int
    BY <1>1, DegreesAreANumber DEF States, UiStates
  <2>4. t = CASE c = 4 -> [went EXCEPT
                             !.ui = [@ EXCEPT !.buttons = "uiInputIsRangeOfTwo"],
                             !.settings = [@ EXCEPT !.latitudeOffset = latitude]]
              [] c = 6 -> [went EXCEPT !.ui = [@ EXCEPT !.buttons = "uiInputIsRange"]]
              [] OTHER -> went
    BY <1>3 DEF uiLatitudeAndLongitudeScreenEnterNextDigit
  <2> HIDE DEF place, range, latitude
  <2>5. /\ went \in States
        /\ went.ui.cursorPosition = place /\ went.ui.min = range[1] /\ went.ui.max = range[2]
        /\ went.ui.digits = [s.ui.digits EXCEPT ![place] = range[1]]
        /\ went.ui.buttons = s.ui.buttons
        /\ went.ui.selectedOptionIndex = s.ui.selectedOptionIndex
        /\ SameScreen(went.ui, s.ui) /\ SameRest(went, s) /\ went.subscribed = s.subscribed
    <3>1. s \in States /\ place \in Cursors
      BY <1>1, <2>1
    <3> QED BY <2>2, <3>1, Gone
  <2> HIDE DEF went, t, c
  <2>6. /\ t \in States /\ SameScreen(t.ui, s.ui)
        /\ t.ui.cursorPosition = place
        /\ t.ui.buttons \in {"uiInputIsRange", "uiInputIsRangeOfTwo"}
        /\ t.settings.isCalibrationRequired = s.settings.isCalibrationRequired
        /\ t.nvm = s.nvm /\ t.asked = s.asked /\ t.subscribed = s.subscribed
        /\ t.since = s.since
    <3>1. CASE c = 4
      <4>1. t = [went EXCEPT !.ui = [@ EXCEPT !.buttons = "uiInputIsRangeOfTwo"],
                             !.settings = [@ EXCEPT !.latitudeOffset = latitude]]
        BY <2>4, <3>1
      <4>2. t \in States
        BY <2>3, <2>5, <4>1, Members DEF States, UiStates, Settings
      <4>3. t.ui.cursorPosition = place /\ t.ui.buttons = "uiInputIsRangeOfTwo"
        BY <2>5, <4>1 DEF States, UiStates
      <4>4. SameScreen(t.ui, went.ui)
        BY <2>5, <4>1 DEF States, UiStates, SameScreen
      <4>5. /\ t.settings.isCalibrationRequired = went.settings.isCalibrationRequired
            /\ t.nvm = went.nvm /\ t.asked = went.asked /\ t.subscribed = went.subscribed
            /\ t.since = went.since
        BY <2>5, <4>1 DEF States, Settings
      <4> QED BY <2>5, <4>2, <4>3, <4>4, <4>5 DEF SameScreen, SameRest
    <3>2. CASE c = 6
      <4>1. t = [went EXCEPT !.ui = [@ EXCEPT !.buttons = "uiInputIsRange"]]
        BY <2>4, <3>2
      <4>2. t \in States
        BY <2>5, <4>1, Members DEF States, UiStates
      <4>3. t.ui.cursorPosition = place /\ t.ui.buttons = "uiInputIsRange"
        BY <2>5, <4>1 DEF States, UiStates
      <4>4. SameScreen(t.ui, went.ui)
        BY <2>5, <4>1 DEF States, UiStates, SameScreen
      <4>5. /\ t.settings = went.settings
            /\ t.nvm = went.nvm /\ t.asked = went.asked /\ t.subscribed = went.subscribed
            /\ t.since = went.since
        BY <2>5, <4>1 DEF States
      <4> QED BY <2>5, <4>2, <4>3, <4>4, <4>5 DEF SameScreen, SameRest
    <3>3. CASE c # 4 /\ c # 6
      BY <1>1, <2>4, <2>5, <3>3 DEF SameRest
    <3> QED BY <3>1, <3>2, <3>3
  <2>7. Steady(t)
    <3>1. DatedIfEntered(t.ui)
      BY <2>6 DEF DatedIfEntered, SameScreen
    <3> QED BY <2>1, <2>6, <3>1, StaysSteady
  <2> QED BY <1>1, <2>6, <2>7 DEF Shows, SameScreen, t
<1> QED BY <1>2, <1>3

LEMMA MenuOptionIsSelected ==
    ASSUME NEW s, Steady(s), s.ui.shown \in Menus
    PROVE  Shows(uiMenuScreenOptionSelected(s), s)
<1> DEFINE screen == IF s.ui.selectedOptionIndex = 0 THEN OnOk[s.ui.shown] ELSE OnNext[s.ui.shown]
<1>1. /\ s.ui.shown \notin DoorScreens /\ s.ui.shown \notin Dark
      /\ s.ui.shown \notin {"uiDateAndTimeEntryScreen", "uiDateAndTimeStatusScreen",
                            "uiLatitudeAndLongitudeEntryScreen"}
  BY DEF Menus, OnNext, DoorScreens, Dark
<1>2. Idle(s) /\ s.subscribed = {}
  BY <1>1, SteadyIsIdle DEF Steady, Heard, Dark
<1>3. ~s.ui.isInitialSetupRequired /\ s.ui.onPreEnter = NoFunction
  BY <1>1 DEF Steady, SetsUp, Wired, DoorScreens
<1>4. screen \in Menus \cup {"uiDateAndTimeEntryScreen", "uiDateAndTimeStatusScreen",
                             "uiDoorControlScreen", "uiDoorCalibrationScreen"}
  BY DEF Menus, OnNext, OnOk
<1>5. uiMenuScreenOptionSelected(s) = Show(s, screen)
  BY DEF uiMenuScreenOptionSelected
<1> HIDE DEF screen
<1>6. CASE screen = "uiDateAndTimeEntryScreen"
  BY <1>2, <1>5, <1>6, DateEntryIsShown DEF Show
<1>7. CASE screen = "uiDateAndTimeStatusScreen"
  BY <1>2, <1>3, <1>5, <1>7, StatusIsShown DEF Show
<1>8. CASE screen = "uiDoorControlScreen"
  BY <1>2, <1>3, <1>5, <1>8, DoorControlIsShown DEF Show
<1>9. CASE screen = "uiDoorCalibrationScreen"
  BY <1>2, <1>3, <1>5, <1>9, DoorCalibrationIsShown DEF Show
<1>10. CASE screen \in Menus
  <2>1. screen \notin {"uiDateAndTimeEntryScreen", "uiDateAndTimeStatusScreen",
                       "uiDoorControlScreen", "uiDoorCalibrationScreen"}
    BY <1>10 DEF Menus, OnNext
  <2>2. Show(s, screen) = uiMenuScreen(s, screen)
    BY <2>1 DEF Show
  <2> QED BY <1>2, <1>3, <1>5, <1>10, <2>2, MenuIsShown
<1> QED BY <1>4, <1>6, <1>7, <1>8, <1>9, <1>10

LEMMA StatusIsLeft ==
    ASSUME NEW s, Steady(s), s.ui.shown = "uiDateAndTimeStatusScreen"
    PROVE  Shows(uiDateAndTimeScreenStatusExit(s), s)
<1> DEFINE r == [s EXCEPT !.subscribed = @ \ {"TIME_CHANGED"}]
<1>1. s \in States /\ Idle(s) /\ s.subscribed = {"TIME_CHANGED"}
  BY SteadyIsIdle DEF Steady, Heard, DoorScreens, Dark
<1>2. ~s.ui.isInitialSetupRequired
  BY DEF Steady, SetsUp, Dark
<1>3. r \in States
  BY <1>1 DEF States, Subscriptions
<1>4. /\ r.ui = s.ui /\ r.settings = s.settings /\ r.nvm = s.nvm /\ r.asked = s.asked
      /\ r.subscribed = {}
  BY <1>1 DEF States
<1>5. uiDateAndTimeScreenStatusExit(s) = uiMenuScreen(r, "uiDoorControlMenuScreen")
  BY DEF uiDateAndTimeScreenStatusExit
<1> HIDE DEF r
<1>6. Idle(r)
  BY <1>1, <1>3, <1>4 DEF Idle, Settled
<1>7. "uiDoorControlMenuScreen" \in Menus
  BY DEF Menus, OnNext
<1> QED BY <1>2, <1>4, <1>5, <1>6, <1>7, MenuIsShown DEF Shows

\* The third option of the door's screens, with the mode that the initial setup chooses.
LEMMA ModeIsChosen ==
    ASSUME NEW s, Idle(s)
    PROVE  /\ Idle(WithMode(s))
           /\ WithMode(s).ui = s.ui /\ WithMode(s).nvm = s.nvm
           /\ WithMode(s).subscribed = s.subscribed /\ WithMode(s).since = s.since
<1>1. CASE ~s.ui.isInitialSetupRequired
  BY <1>1 DEF WithMode
<1>2. CASE s.ui.isInitialSetupRequired
  <2> DEFINE t == [s EXCEPT !.settings = [@ EXCEPT !.mode = {"isSunEventDriven"}]]
  <2>1. t = WithMode(s)
    BY <1>2 DEF WithMode
  <2>2. s \in States /\ {"isSunEventDriven"} \in Modes
    BY DEF Idle, Modes
  <2>3. t \in States
    BY <2>2 DEF States, Settings
  <2>4. /\ t.ui = s.ui /\ t.nvm = s.nvm /\ t.asked = s.asked
        /\ t.subscribed = s.subscribed /\ t.since = s.since
        /\ t.settings.isCalibrationRequired = s.settings.isCalibrationRequired
    BY <2>2 DEF States, Settings
  <2> HIDE DEF t
  <2> QED BY <2>1, <2>3, <2>4 DEF Idle, Settled
<1> QED BY <1>1, <1>2

LEMMA DoorOptionIsAfterSelected ==
    ASSUME NEW s, Steady(s), s.ui.shown \in DoorScreens
    PROVE  Shows(uiDoorControlScreenOptionAfterSelected(s), s)
<1> DEFINE t == uiDoorControlScreenOptionAfterSelected(s)
<1>1. s \in States /\ s.subscribed = {} /\ s.ui.shown \notin Dark
  BY DEF Steady, Heard, DoorScreens, Dark
<1>2. CASE s.ui.isDoorBeingManuallyControlled
  <2>1. t = [s EXCEPT !.asked = "nothing",
                      !.ui = [@ EXCEPT !.isDoorBeingManuallyControlled = FALSE]]
    BY <1>2 DEF uiDoorControlScreenOptionAfterSelected
  <2> HIDE DEF t
  <2>2. t \in States
    BY <1>1, <2>1 DEF States, UiStates, Requests
  <2>3. /\ t.ui.isCalibrationMode = s.ui.isCalibrationMode
        /\ t.ui.isInitialSetupRequired = s.ui.isInitialSetupRequired
        /\ t.ui.isButtonPressPreventedFromTurningOnScreen
              = s.ui.isButtonPressPreventedFromTurningOnScreen
        /\ t.ui.isDoorBeingCalibrated = s.ui.isDoorBeingCalibrated
    BY <1>1, <2>1 DEF States, UiStates
  <2>4. /\ t.ui.shown = s.ui.shown /\ t.ui.buttons = s.ui.buttons
        /\ t.ui.optionPlaces = s.ui.optionPlaces
        /\ t.ui.onPreEnter = s.ui.onPreEnter /\ t.ui.onEnter = s.ui.onEnter
    BY <1>1, <2>1 DEF States, UiStates
  <2>5. ~t.ui.isDoorBeingManuallyControlled
    BY <1>1, <2>1 DEF States, UiStates
  <2>6. /\ t.settings = s.settings /\ t.nvm = s.nvm /\ t.asked = "nothing"
        /\ t.subscribed = s.subscribed /\ t.since = s.since
    BY <1>1, <2>1 DEF States
  <2>7. Wired(t.ui)
    BY <2>4 DEF Wired, Steady, DoorScreens, Dark, Menus, OnNext
  <2>8. Asks(t)
    BY <2>3, <2>4, <2>5, <2>6 DEF Asks, Steady
  <2>9. Settled(t) /\ SetsUp(t)
    BY <2>3, <2>4, <2>6 DEF Settled, SetsUp, Steady
  <2>10. DatedIfEntered(t.ui)
    BY <2>4 DEF DatedIfEntered, DoorScreens
  <2> QED BY <2>2, <2>4, <2>5, <2>6, <2>7, <2>8, <2>9, <2>10 DEF Shows, Steady, t
<1>3. CASE ~s.ui.isDoorBeingManuallyControlled /\ s.ui.selectedOptionIndex # 2
  BY <1>3 DEF uiDoorControlScreenOptionAfterSelected, Shows
<1>4. CASE ~s.ui.isDoorBeingManuallyControlled /\ s.ui.selectedOptionIndex = 2
  <2>1. Idle(s)
    <3>1. s.asked \in {"nothing", "open", "close", "calibrate"}
      BY <1>1 DEF States, Requests
    <3> QED BY <1>1, <1>4, <3>1 DEF Steady, Asks, SetsUp, Idle, Dark
  <2> DEFINE r == WithMode(s)
  <2>2. /\ Idle(r) /\ r.ui = s.ui /\ r.nvm = s.nvm
        /\ r.subscribed = s.subscribed /\ r.since = s.since
    BY <2>1, ModeIsChosen
  <2>3. t = IF s.ui.isDoorBeingCalibrated THEN Calibrates(r) ELSE uiDateAndTimeStatusScreen(r)
    BY <1>4 DEF uiDoorControlScreenOptionAfterSelected
  <2> HIDE DEF r, t
  <2>4. s.ui.isInitialSetupRequired => /\ s.ui.shown = "uiDoorCalibrationScreen"
                                       /\ s.since = {"clock", "location"}
    BY DEF Steady, SetsUp, DoorScreens, Dark
  <2>5. s.ui.shown = "uiDoorCalibrationScreen" => s.ui.isDoorBeingCalibrated
    BY DEF Steady, SetsUp
  <2>6. CASE s.ui.isDoorBeingCalibrated
    BY <1>1, <1>4, <2>2, <2>3, <2>4, <2>6, CalibratingIsShown DEF Shows, t
  <2>7. CASE ~s.ui.isDoorBeingCalibrated
    BY <1>1, <1>4, <2>2, <2>3, <2>4, <2>5, <2>7, StatusIsShown DEF Shows, t
  <2> QED BY <2>6, <2>7
<1> QED BY <1>2, <1>3, <1>4

\* Which screens the buttons act on.
LEMMA ButtonsTell ==
    ASSUME NEW s, Steady(s)
    PROVE  /\ s.ui.buttons = "uiInputIsUninitialised" <=> s.ui.shown \in Dark
           /\ s.ui.buttons = "uiInputIsOptions" <=> s.ui.shown \in Menus \cup DoorScreens
           /\ s.ui.buttons \in {"uiInputIsRange", "uiInputIsRangeOfTwo"} <=>
                s.ui.shown \in {"uiDateAndTimeEntryScreen", "uiLatitudeAndLongitudeEntryScreen"}
           /\ s.ui.buttons = "uiInputIsRangeOfTwo" =>
                s.ui.shown = "uiLatitudeAndLongitudeEntryScreen"
           /\ s.ui.buttons = "uiInputIsStatusScreen" <=>
                s.ui.shown = "uiDateAndTimeStatusScreen"
<1>1. s.ui.shown \in Screens
  BY DEF Steady, States, UiStates
<1>2. Wired(s.ui)
  BY DEF Steady
<1> QED BY <1>1, <1>2 DEF Wired, Screens, Dark, DoorScreens, Menus, OnNext

LEMMA OptionIsEntered ==
    ASSUME NEW s, Steady(s), s.ui.buttons # "uiInputIsUninitialised"
    PROVE  Shows(uiInputOnEnter(s), s)
<1>1. s.ui.shown \in Screens \ Dark /\ Wired(s.ui)
  BY ButtonsTell DEF Steady, States, UiStates
<1>2. CASE s.ui.shown \in Menus
  <2>1. uiInputOnEnter(s) = uiMenuScreenOptionSelected(s)
    BY <1>1, <1>2 DEF uiInputOnEnter, Wired
  <2> QED BY <1>2, <2>1, MenuOptionIsSelected
<1>3. CASE s.ui.shown \in DoorScreens
  <2>1. uiInputOnEnter(s) = uiDoorControlScreenOptionAfterSelected(s)
    BY <1>1, <1>3 DEF uiInputOnEnter, Wired
  <2> QED BY <1>3, <2>1, DoorOptionIsAfterSelected
<1>4. CASE s.ui.shown = "uiDateAndTimeEntryScreen"
  <2>1. uiInputOnEnter(s) = uiDateAndTimeScreenEnterNextDigit(s)
    BY <1>1, <1>4 DEF uiInputOnEnter, Wired
  <2> QED BY <1>4, <2>1, DateDigitIsEntered
<1>5. CASE s.ui.shown = "uiDateAndTimeStatusScreen"
  <2>1. uiInputOnEnter(s) = uiDateAndTimeScreenStatusExit(s)
    BY <1>1, <1>5 DEF uiInputOnEnter, Wired
  <2> QED BY <1>5, <2>1, StatusIsLeft
<1>6. CASE s.ui.shown = "uiLatitudeAndLongitudeEntryScreen"
  <2>1. uiInputOnEnter(s) = uiLatitudeAndLongitudeScreenEnterNextDigit(s)
    BY <1>1, <1>6 DEF uiInputOnEnter, Wired
  <2> QED BY <1>6, <2>1, LocationDigitIsEntered
<1> QED BY <1>1, <1>2, <1>3, <1>4, <1>5, <1>6 DEF Screens

\* What a press leaves of the record: who holds which button is none of its business.
Pressed(t, s) ==
    /\ Steady(t) /\ t.nvm = s.nvm
    /\ t.ui.isScreenOn = s.ui.isScreenOn
    /\ t.ui.isScreenTimeoutDisabled = s.ui.isScreenTimeoutDisabled
    /\ t.ui.pressed = s.ui.pressed
    /\ t.ui.isButtonPressTurningOnScreen = s.ui.isButtonPressTurningOnScreen

LEMMA DigitIsChanged ==
    ASSUME NEW s, Steady(s), NEW digit \in Digits,
           s.ui.shown \in {"uiDateAndTimeEntryScreen", "uiLatitudeAndLongitudeEntryScreen"},
           s.ui.shown = "uiDateAndTimeEntryScreen" => digit \in s.ui.min .. s.ui.max
    PROVE  /\ Pressed(WithDigit(s, digit), s)
           /\ WithDigit(s, digit).ui.isDoorBeingManuallyControlled
                    = s.ui.isDoorBeingManuallyControlled
<1> DEFINE t == WithDigit(s, digit)
           row == [s.ui.digits EXCEPT ![s.ui.cursorPosition] = digit]
<1>1. s \in States
  BY DEF Steady
<1>2. t = [s EXCEPT !.ui = [@ EXCEPT !.digits = row]]
  BY DEF WithDigit
<1>3. row \in Rows
  BY <1>1 DEF States, UiStates, Rows
<1>4. t.ui.digits = row
  BY <1>1, <1>2 DEF States, UiStates
<1> HIDE DEF t, row
<1>5. t \in States
  BY <1>1, <1>2, <1>3 DEF States, UiStates
<1>6. /\ t.ui.cursorPosition = s.ui.cursorPosition
      /\ t.ui.min = s.ui.min /\ t.ui.max = s.ui.max
      /\ t.ui.buttons = s.ui.buttons
  BY <1>1, <1>2 DEF States, UiStates
<1>7. SameScreen(t.ui, s.ui)
  BY <1>1, <1>2 DEF States, UiStates, SameScreen
<1>8. SameFlags(t.ui, s.ui)
  BY <1>1, <1>2 DEF States, UiStates, SameFlags
<1>9. SameRest(t, s) /\ t.subscribed = s.subscribed
  BY <1>1, <1>2 DEF States, SameRest
<1>10. DatedIfEntered(t.ui)
  <2>1. CASE s.ui.shown = "uiDateAndTimeEntryScreen"
    <3>1. /\ s.ui.digits \in Rows /\ s.ui.min \in Digits /\ s.ui.max \in Digits
          /\ Dated(s.ui) /\ digit \in s.ui.min .. s.ui.max
      BY <1>1, <2>1 DEF States, UiStates, Steady, DatedIfEntered
    <3>2. t.ui.digits = [s.ui.digits EXCEPT ![s.ui.cursorPosition] = digit]
      BY <1>4 DEF row
    <3>3. Dated(t.ui)
      BY <1>6, <3>1, <3>2, AnotherDigitIsDated
    <3> QED BY <3>3 DEF DatedIfEntered
  <2>2. CASE s.ui.shown # "uiDateAndTimeEntryScreen"
    BY <1>7, <2>2 DEF DatedIfEntered, SameScreen
  <2> QED BY <2>1, <2>2
<1>11. s.ui.shown = "uiLatitudeAndLongitudeEntryScreen" =>
         /\ t.ui.cursorPosition \in LocationPlaces
         /\ t.ui.buttons \in {"uiInputIsRange", "uiInputIsRangeOfTwo"}
  BY <1>6 DEF Steady, Wired
<1>12. Steady(t)
  BY <1>5, <1>6, <1>7, <1>9, <1>10, <1>11, StaysSteady DEF SameRest
<1> QED BY <1>7, <1>8, <1>9, <1>12 DEF Pressed, SameFlags, SameScreen, SameRest, t

LEMMA CursorIsMoved ==
    ASSUME NEW s, Steady(s), s.ui.shown \in Menus \cup DoorScreens
    PROVE  LET t == uiInputMoveCursorToNextOption(s)
           IN /\ Pressed(t, s)
              /\ t.ui.isDoorBeingManuallyControlled = s.ui.isDoorBeingManuallyControlled
<1> DEFINE t == uiInputMoveCursorToNextOption(s)
           next == (s.ui.selectedOptionIndex + 1) % Len(s.ui.optionPlaces)
           place == s.ui.optionPlaces[next + 1]
<1>1. /\ s \in States
      /\ s.ui.shown \notin {"uiDateAndTimeEntryScreen", "uiLatitudeAndLongitudeEntryScreen",
                            "uiDateAndTimeStatusScreen", "calibrating"}
  BY DEF Steady, Menus, OnNext, DoorScreens
<1>2. s.ui.optionPlaces \in {<<0, 11>>, <<0, 5, 11>>} /\ s.ui.selectedOptionIndex \in 0 .. 2
  BY <1>1 DEF Steady, Wired, States, UiStates, Options
<1>3. next \in Options /\ place \in Cursors
  <2>1. s.ui.selectedOptionIndex \in {0, 1, 2}
    BY <1>2
  <2>2. CASE s.ui.optionPlaces = <<0, 11>>
    <3>1. next \in {0, 1}
      BY <2>1, <2>2
    <3> HIDE DEF next
    <3> QED BY <2>2, <3>1 DEF Options, Cursors
  <2>3. CASE s.ui.optionPlaces = <<0, 5, 11>>
    <3>1. next \in {0, 1, 2}
      BY <2>1, <2>3
    <3> HIDE DEF next
    <3> QED BY <2>3, <3>1 DEF Options, Cursors
  <2> QED BY <1>2, <2>2, <2>3
<1>4. t = [s EXCEPT !.ui = [@ EXCEPT !.selectedOptionIndex = next, !.cursorPosition = place]]
  BY DEF uiInputMoveCursorToNextOption
<1> HIDE DEF t, next, place
<1>5. t \in States
  BY <1>1, <1>3, <1>4 DEF States, UiStates
<1>6. t.ui.buttons = s.ui.buttons
  BY <1>1, <1>4 DEF States, UiStates
<1>7. SameScreen(t.ui, s.ui)
  BY <1>1, <1>4 DEF States, UiStates, SameScreen
<1>8. SameFlags(t.ui, s.ui)
  BY <1>1, <1>4 DEF States, UiStates, SameFlags
<1>9. SameRest(t, s) /\ t.subscribed = s.subscribed
  BY <1>1, <1>4 DEF States, SameRest
<1>10. DatedIfEntered(t.ui)
  BY <1>1, <1>7 DEF DatedIfEntered, SameScreen
<1>11. Steady(t)
  BY <1>1, <1>5, <1>6, <1>7, <1>9, <1>10, StaysSteady DEF SameRest
<1> QED BY <1>7, <1>8, <1>9, <1>11 DEF Pressed, SameFlags, SameScreen, SameRest, t

LEMMA LeftIsPressed ==
    ASSUME NEW s, Steady(s)
    PROVE  /\ Pressed(LeftPressed(s), s)
           /\ LeftPressed(s).ui.isDoorBeingManuallyControlled
                    = s.ui.isDoorBeingManuallyControlled
<1>1. s \in States
  BY DEF Steady
<1> DEFINE digit == s.ui.digits[s.ui.cursorPosition]
<1>2. s.ui.min \in 0 .. 9 /\ s.ui.max \in 0 .. 9
  BY <1>1 DEF States, UiStates, Digits
<1>3. s.ui.shown = "uiLatitudeAndLongitudeEntryScreen" => s.ui.cursorPosition \in 0 .. 15
  BY DEF Steady, Wired, LocationPlaces
<1>4. s.ui.shown = "uiDateAndTimeEntryScreen" =>
        s.ui.cursorPosition \in 0 .. 15 /\ digit \in s.ui.min .. s.ui.max
  BY DEF Steady, DatedIfEntered, Dated, DatePlaces
<1>5. CASE s.ui.buttons = "uiInputIsRange"
  <2> DEFINE then == IF digit + 1 > s.ui.max THEN s.ui.min ELSE digit + 1
  <2>1. s.ui.shown \in {"uiDateAndTimeEntryScreen", "uiLatitudeAndLongitudeEntryScreen"}
    BY <1>5, ButtonsTell
  <2>2. digit \in 0 .. 9
    BY <1>1, <1>3, <1>4, <2>1 DEF States, UiStates, Rows, Digits
  <2>3. LeftPressed(s) = WithDigit(s, then)
    BY <1>5 DEF LeftPressed, uiInputIncrementScreenCharacter
  <2>4. then \in Digits
    BY <1>2, <2>2 DEF Digits
  <2>5. s.ui.shown = "uiDateAndTimeEntryScreen" => then \in s.ui.min .. s.ui.max
    BY <1>2, <1>4, <2>2
  <2> HIDE DEF then
  <2> QED BY <2>1, <2>3, <2>4, <2>5, DigitIsChanged
<1>6. CASE s.ui.buttons = "uiInputIsRangeOfTwo"
  <2> DEFINE then == IF digit = s.ui.max THEN s.ui.min ELSE s.ui.max
  <2>1. s.ui.shown = "uiLatitudeAndLongitudeEntryScreen"
    BY <1>6, ButtonsTell
  <2>2. LeftPressed(s) = WithDigit(s, then)
    BY <1>6 DEF LeftPressed, uiInputToggleScreenCharacter
  <2>3. then \in Digits
    BY <1>2 DEF Digits
  <2> HIDE DEF then
  <2> QED BY <2>1, <2>2, <2>3, DigitIsChanged
<1>7. CASE s.ui.buttons = "uiInputIsOptions"
  BY <1>7, ButtonsTell, CursorIsMoved DEF LeftPressed
<1>8. CASE s.ui.buttons \notin {"uiInputIsRange", "uiInputIsRangeOfTwo", "uiInputIsOptions"}
  BY <1>8 DEF LeftPressed, Pressed
<1> QED BY <1>5, <1>6, <1>7, <1>8

\* A press of the right button moves the door, on its screens, and nothing else anywhere.
LEMMA DoorOptionIsSelected ==
    ASSUME NEW s, Steady(s), s.ui.buttons # "uiInputIsUninitialised"
    PROVE  Pressed(uiInputOnPreEnter(s), s)
<1>1. s \in States /\ s.ui.shown \in Screens \ Dark /\ Wired(s.ui)
  BY ButtonsTell DEF Steady, States, UiStates
<1>2. CASE s.ui.onPreEnter = NoFunction
  BY <1>2 DEF uiInputOnPreEnter, Pressed
<1>3. CASE s.ui.selectedOptionIndex = 2
  BY <1>3 DEF uiInputOnPreEnter, uiDoorControlScreenOptionSelected, Pressed
<1>4. CASE s.ui.onPreEnter # NoFunction /\ s.ui.selectedOptionIndex # 2
  <2>1. s.ui.shown \in DoorScreens
    BY <1>1, <1>4 DEF Wired, Screens
  <2> DEFINE request == <<"open", "close">>[s.ui.selectedOptionIndex + 1]
             t == [s EXCEPT !.asked = request,
                            !.ui = [@ EXCEPT !.isDoorBeingManuallyControlled = TRUE]]
  <2>2. uiInputOnPreEnter(s) = t
    BY <1>4 DEF uiInputOnPreEnter, uiDoorControlScreenOptionSelected
  <2>3. request \in {"open", "close"}
    <3>1. s.ui.selectedOptionIndex \in {0, 1}
      BY <1>1, <1>4 DEF States, UiStates, Options
    <3> QED BY <3>1
  <2> HIDE DEF request
  <2>4. t \in States
    BY <1>1, <2>3 DEF States, UiStates, Requests
  <2>5. /\ t.ui.isCalibrationMode = s.ui.isCalibrationMode
        /\ t.ui.isInitialSetupRequired = s.ui.isInitialSetupRequired
        /\ t.ui.isButtonPressPreventedFromTurningOnScreen
              = s.ui.isButtonPressPreventedFromTurningOnScreen
        /\ t.ui.isDoorBeingCalibrated = s.ui.isDoorBeingCalibrated
    BY <1>1 DEF States, UiStates
  <2>6. /\ t.ui.isScreenOn = s.ui.isScreenOn
        /\ t.ui.isScreenTimeoutDisabled = s.ui.isScreenTimeoutDisabled
        /\ t.ui.pressed = s.ui.pressed
        /\ t.ui.isButtonPressTurningOnScreen = s.ui.isButtonPressTurningOnScreen
    BY <1>1 DEF States, UiStates
  <2>7. /\ t.ui.shown = s.ui.shown /\ t.ui.buttons = s.ui.buttons
        /\ t.ui.optionPlaces = s.ui.optionPlaces
        /\ t.ui.onPreEnter = s.ui.onPreEnter /\ t.ui.onEnter = s.ui.onEnter
    BY <1>1 DEF States, UiStates
  <2>8. t.ui.isDoorBeingManuallyControlled
    BY <1>1 DEF States, UiStates
  <2>9. /\ t.settings = s.settings /\ t.nvm = s.nvm /\ t.asked = request
        /\ t.subscribed = s.subscribed /\ t.since = s.since
    BY <1>1 DEF States
  <2> HIDE DEF t
  <2>10. Wired(t.ui)
    BY <1>1, <2>1, <2>7 DEF Wired, DoorScreens, Dark, Menus, OnNext
  <2>11. Asks(t)
    <3>1. ~s.ui.isButtonPressPreventedFromTurningOnScreen
      BY <2>1 DEF Steady, Asks, DoorScreens
    <3> QED BY <2>1, <2>3, <2>5, <2>7, <2>8, <2>9, <3>1 DEF Asks
  <2>12. Settled(t) /\ SetsUp(t)
    BY <2>5, <2>7, <2>9 DEF Settled, SetsUp, Steady
  <2>13. DatedIfEntered(t.ui) /\ t.subscribed = Heard(t.ui.shown)
    BY <2>1, <2>7, <2>9 DEF DatedIfEntered, DoorScreens, Steady
  <2> QED BY <2>2, <2>4, <2>6, <2>9, <2>10, <2>11, <2>12, <2>13 DEF Steady, Pressed
<1> QED BY <1>2, <1>3, <1>4
-----------------------------------------------------------------------------
(***************************************************************************)
(* The actions.                                                            *)
(***************************************************************************)
LEMMA NowBecomes ==
    ASSUME NEW s, Steady(s), HeldDown(s.ui), Becomes(s)
    PROVE  IInv' /\ nvmSettings' = s.nvm
<1>1. s \in States
  BY DEF Steady
<1>2. s = [ui |-> s.ui, settings |-> s.settings, nvm |-> s.nvm, asked |-> s.asked,
           subscribed |-> s.subscribed, since |-> s.since]
  BY <1>1 DEF States
<1>3. Now' = s
  BY <1>2 DEF Becomes, Now
<1>4. uiState' = s.ui /\ nvmSettings' = s.nvm
  BY DEF Becomes
<1> QED BY <1>3, <1>4 DEF IInv

\* Power comes up with whatever is in the row.
LEMMA BootedIsSteady ==
    ASSUME NEW nvm \in Settings
    PROVE  Steady(Booted(nvm)) /\ HeldDown(Booted(nvm).ui) /\ Booted(nvm).nvm = nvm
<1> DEFINE s == Booted(nvm)
<1>1. s \in States
  <2>1. nvm.height \in Nat /\ nvm.isCalibrationRequired \in BOOLEAN
    BY DEF Settings
  <2>2. /\ "splash" \in Screens /\ {} \in Buttons /\ 0 \in Digits /\ <<>> \in OptionRows
        /\ NoFunction \in Enters /\ {} \in Subscriptions /\ {} \in Entries
        /\ "nothing" \in Requests
    BY DEF Screens, Dark, Buttons, Digits, OptionRows, Enters, Subscriptions, Entries, Requests
  <2>3. (nvm.height < 128) \in BOOLEAN
    BY <2>1
  <2> QED BY <2>1, <2>2, <2>3, Members DEF Booted, States, UiStates
<1>2. /\ s.ui.shown = "splash" /\ s.ui.buttons = "uiInputIsUninitialised"
      /\ ~s.ui.isDoorBeingManuallyControlled
      /\ ~s.ui.isButtonPressPreventedFromTurningOnScreen
      /\ s.ui.isCalibrationMode = nvm.isCalibrationRequired
      /\ s.ui.isInitialSetupRequired = (nvm.height < 128)
      /\ s.settings = nvm /\ s.nvm = nvm /\ s.asked = "nothing" /\ s.subscribed = {}
  BY DEF Booted
<1> HIDE DEF s
<1>3. Wired(s.ui)
  BY <1>2 DEF Wired, Dark, Menus, OnNext, DoorScreens
<1>4. Asks(s) /\ s.subscribed = Heard(s.ui.shown)
  BY <1>2 DEF Asks, Heard
<1>5. Settled(s) /\ SetsUp(s)
  BY <1>2 DEF Settled, SetsUp, Dark
<1>6. DatedIfEntered(s.ui) /\ HeldDown(s.ui)
  BY <1>2 DEF DatedIfEntered, HeldDown
<1> QED BY <1>1, <1>2, <1>3, <1>4, <1>5, <1>6 DEF Steady, s

\* All that a button, or the screen's timeout, does on its own account.
OnlyFlags(t, s) ==
    /\ SameScreen(t.ui, s.ui) /\ SameRest(t, s) /\ t.subscribed = s.subscribed
    /\ t.ui.buttons = s.ui.buttons /\ t.ui.digits = s.ui.digits
    /\ t.ui.cursorPosition = s.ui.cursorPosition
    /\ t.ui.min = s.ui.min /\ t.ui.max = s.ui.max
    /\ t.ui.selectedOptionIndex = s.ui.selectedOptionIndex

LEMMA FlagsLeaveItSteady ==
    ASSUME NEW s, Steady(s), NEW t \in States, OnlyFlags(t, s)
    PROVE  Steady(t)
<1>1. DatedIfEntered(t.ui)
  BY DEF Steady, DatedIfEntered, OnlyFlags, SameScreen, Dated, EnteredMonth, EnteredYear,
         EnteredDay, EnteredHour
<1>2. s.ui.shown = "uiLatitudeAndLongitudeEntryScreen" =>
         /\ t.ui.cursorPosition \in LocationPlaces
         /\ t.ui.buttons \in {"uiInputIsRange", "uiInputIsRangeOfTwo"}
  BY DEF Steady, Wired, OnlyFlags
<1> QED BY <1>1, <1>2, StaysSteady DEF OnlyFlags, SameRest

\* A record in which only the flags of the buttons and of the screen differ.
WithFlags(s, pressed, on, disabled, turningOn) ==
    [s EXCEPT !.ui = [@ EXCEPT !.pressed = pressed, !.isScreenOn = on,
                               !.isScreenTimeoutDisabled = disabled,
                               !.isButtonPressTurningOnScreen = turningOn]]

Flagged(ui, pressed, on, disabled, turningOn) ==
    /\ ui.pressed = pressed /\ ui.isScreenOn = on
    /\ ui.isScreenTimeoutDisabled = disabled
    /\ ui.isButtonPressTurningOnScreen = turningOn

LEMMA FlagsSet ==
    ASSUME NEW s, Steady(s), NEW pressed \in Buttons, NEW on \in BOOLEAN,
           NEW disabled \in BOOLEAN, NEW turningOn \in BOOLEAN,
           NEW t, t = WithFlags(s, pressed, on, disabled, turningOn)
    PROVE  Steady(t) /\ OnlyFlags(t, s) /\ Flagged(t.ui, pressed, on, disabled, turningOn)
<1>1. s \in States
  BY DEF Steady
<1>2. t \in States
  BY <1>1 DEF WithFlags, States, UiStates
<1>3. SameScreen(t.ui, s.ui)
  BY <1>1 DEF WithFlags, States, UiStates, SameScreen
<1>4. SameRest(t, s) /\ t.subscribed = s.subscribed
  BY <1>1 DEF WithFlags, States, SameRest
<1>5. /\ t.ui.buttons = s.ui.buttons /\ t.ui.digits = s.ui.digits
      /\ t.ui.cursorPosition = s.ui.cursorPosition
      /\ t.ui.min = s.ui.min /\ t.ui.max = s.ui.max
      /\ t.ui.selectedOptionIndex = s.ui.selectedOptionIndex
  BY <1>1 DEF WithFlags, States, UiStates
<1>6. Flagged(t.ui, pressed, on, disabled, turningOn)
  BY <1>1 DEF WithFlags, States, UiStates, Flagged
<1>7. OnlyFlags(t, s)
  BY <1>3, <1>4, <1>5 DEF OnlyFlags
<1> QED BY <1>2, <1>6, <1>7, FlagsLeaveItSteady

LEMMA NowIsSteady ==
    ASSUME IInv
    PROVE  /\ Steady(Now) /\ Now \in States /\ HeldDown(uiState)
           /\ Now.ui = uiState /\ Now.nvm = nvmSettings /\ Now.settings = uiNvmSettings
           /\ Now.asked = asked /\ Now.subscribed = subscribed /\ Now.since = since
BY DEF IInv, Steady, Now

LEMMA PressedKeepsIInv ==
    ASSUME IInv, NEW button \in {"left", "right"}, uiInputOnButtonsPressed(button)
    PROVE  IInv' /\ nvmSettings' = nvmSettings
<1> DEFINE pressed == uiState.pressed \cup {button}
           s == [Now EXCEPT !.ui = [@ EXCEPT !.pressed = uiState.pressed \cup {button}]]
           counting == [s EXCEPT !.ui = [@ EXCEPT !.isScreenTimeoutDisabled = TRUE]]
           lights == [counting EXCEPT
                        !.ui = [@ EXCEPT !.isScreenOn = TRUE, !.isButtonPressTurningOnScreen = TRUE]]
           lit == [counting EXCEPT !.ui = [@ EXCEPT !.isButtonPressTurningOnScreen = FALSE]]
<1>1. /\ Steady(Now) /\ Now \in States /\ HeldDown(uiState)
      /\ Now.ui = uiState /\ Now.nvm = nvmSettings
  BY NowIsSteady
<1>2. /\ uiState.isScreenOn \in BOOLEAN /\ uiState.isScreenTimeoutDisabled \in BOOLEAN
      /\ uiState.isButtonPressTurningOnScreen \in BOOLEAN /\ pressed \in Buttons
  BY <1>1 DEF States, UiStates, Buttons
<1>3. IF uiState.isButtonPressPreventedFromTurningOnScreen THEN Becomes(OnPressed(s, button))
      ELSE IF ~uiState.isScreenOn THEN Becomes(lights)
      ELSE Becomes(OnPressed(lit, button))
  BY DEF uiInputOnButtonsPressed
<1>4. /\ s = WithFlags(Now, pressed, uiState.isScreenOn, uiState.isScreenTimeoutDisabled,
                       uiState.isButtonPressTurningOnScreen)
      /\ lights = WithFlags(Now, pressed, TRUE, TRUE, TRUE)
      /\ lit = WithFlags(Now, pressed, uiState.isScreenOn, TRUE, FALSE)
  <2> DEFINE now == Now
  <2>1. now \in States /\ now.ui = uiState
    BY <1>1
  <2> HIDE DEF now
  <2>2. [now EXCEPT !.ui = [@ EXCEPT !.pressed = pressed]]
          = WithFlags(now, pressed, now.ui.isScreenOn, now.ui.isScreenTimeoutDisabled,
                      now.ui.isButtonPressTurningOnScreen)
    BY <1>2, <2>1 DEF States, UiStates, WithFlags
  <2>3. [[[now EXCEPT !.ui = [@ EXCEPT !.pressed = pressed]]
            EXCEPT !.ui = [@ EXCEPT !.isScreenTimeoutDisabled = TRUE]]
            EXCEPT !.ui = [@ EXCEPT !.isScreenOn = TRUE, !.isButtonPressTurningOnScreen = TRUE]]
          = WithFlags(now, pressed, TRUE, TRUE, TRUE)
    BY <1>2, <2>1 DEF States, UiStates, WithFlags
  <2>4. [[[now EXCEPT !.ui = [@ EXCEPT !.pressed = pressed]]
            EXCEPT !.ui = [@ EXCEPT !.isScreenTimeoutDisabled = TRUE]]
            EXCEPT !.ui = [@ EXCEPT !.isButtonPressTurningOnScreen = FALSE]]
          = WithFlags(now, pressed, now.ui.isScreenOn, TRUE, FALSE)
    BY <1>2, <2>1 DEF States, UiStates, WithFlags
  <2> QED BY <2>1, <2>2, <2>3, <2>4 DEF now
<1> HIDE DEF pressed, s, counting, lights, lit
<1>5. uiState.pressed \subseteq pressed /\ button \in pressed
  BY DEF pressed
<1>6. /\ Steady(s) /\ OnlyFlags(s, Now)
      /\ Flagged(s.ui, pressed, uiState.isScreenOn, uiState.isScreenTimeoutDisabled,
                 uiState.isButtonPressTurningOnScreen)
  BY <1>1, <1>2, <1>4, FlagsSet
<1>7. /\ Steady(lights) /\ OnlyFlags(lights, Now)
  BY <1>1, <1>2, <1>4, FlagsSet
<1>8. /\ Steady(lit) /\ OnlyFlags(lit, Now)
      /\ Flagged(lit.ui, pressed, uiState.isScreenOn, TRUE, FALSE)
  BY <1>1, <1>2, <1>4, FlagsSet
<1>9. CASE uiState.isButtonPressPreventedFromTurningOnScreen
  <2>1. s.ui.buttons = "uiInputIsUninitialised"
    BY <1>1, <1>6, <1>9 DEF Steady, Asks, Wired, Dark, OnlyFlags, SameScreen
  <2>2. OnPressed(s, button) = s
    BY <2>1 DEF OnPressed, LeftPressed
  <2>3. HeldDown(s.ui)
    BY <1>1, <1>5, <1>6 DEF HeldDown, Flagged, OnlyFlags, SameScreen
  <2> QED BY <1>1, <1>3, <1>6, <1>9, <2>2, <2>3, NowBecomes DEF OnlyFlags, SameRest
<1>10. CASE ~uiState.isButtonPressPreventedFromTurningOnScreen /\ ~uiState.isScreenOn
  <2>1. HeldDown(lights.ui)
    BY <1>1, <1>7, <1>10 DEF HeldDown, Flagged, OnlyFlags, SameScreen
  <2> QED BY <1>1, <1>3, <1>7, <1>10, <2>1, NowBecomes DEF OnlyFlags, SameRest
<1>11. CASE ~uiState.isButtonPressPreventedFromTurningOnScreen /\ uiState.isScreenOn
  <2> DEFINE t == OnPressed(lit, button)
  <2>1. Pressed(t, lit) /\ HeldDown(t.ui)
    <3>1. CASE button = "left"
      <4>1. /\ Pressed(t, lit)
            /\ t.ui.isDoorBeingManuallyControlled = lit.ui.isDoorBeingManuallyControlled
        BY <1>8, <3>1, LeftIsPressed DEF OnPressed
      <4> HIDE DEF t
      <4> QED BY <1>1, <1>5, <1>8, <4>1 DEF HeldDown, Flagged, Pressed, OnlyFlags, SameScreen
    <3>2. CASE button = "right"
      <4>1. Pressed(t, lit)
        BY <1>8, <3>2, DoorOptionIsSelected DEF OnPressed, Pressed
      <4> HIDE DEF t
      <4> QED BY <1>5, <1>8, <1>11, <3>2, <4>1 DEF HeldDown, Flagged, Pressed
    <3> QED BY <3>1, <3>2
  <2>2. Becomes(t)
    BY <1>3, <1>11
  <2> HIDE DEF t
  <2>3. t.nvm = nvmSettings
    BY <1>1, <1>8, <2>1 DEF Pressed, OnlyFlags, SameRest
  <2> QED BY <2>1, <2>2, <2>3, NowBecomes DEF Pressed
<1> QED BY <1>9, <1>10, <1>11

LEMMA ReleasedKeepsIInv ==
    ASSUME IInv, NEW button \in {"left", "right"}, uiInputOnButtonsReleased(button)
    PROVE  IInv' /\ nvmSettings' = nvmSettings
<1> DEFINE pressed == uiState.pressed \ {button}
           s == [Now EXCEPT !.ui = [@ EXCEPT !.pressed = uiState.pressed \ {button}]]
           r == IF uiState.isButtonPressTurningOnScreen THEN s ELSE OnReleased(s, button)
           goesOn == r.ui.isButtonPressPreventedFromTurningOnScreen \/ r.ui.pressed # {}
           t == StartsTimeout(r)
<1>1. /\ Steady(Now) /\ Now \in States /\ HeldDown(uiState)
      /\ Now.ui = uiState /\ Now.nvm = nvmSettings
  BY NowIsSteady
<1>2. /\ uiState.isScreenOn \in BOOLEAN /\ uiState.isScreenTimeoutDisabled \in BOOLEAN
      /\ uiState.isButtonPressTurningOnScreen \in BOOLEAN /\ pressed \in Buttons
  BY <1>1 DEF States, UiStates, Buttons
<1>3. Becomes(t)
  BY DEF uiInputOnButtonsReleased
<1>4. s = WithFlags(Now, pressed, uiState.isScreenOn, uiState.isScreenTimeoutDisabled,
                    uiState.isButtonPressTurningOnScreen)
  <2> DEFINE now == Now
  <2>1. now \in States /\ now.ui = uiState
    BY <1>1
  <2> HIDE DEF now
  <2>2. [now EXCEPT !.ui = [@ EXCEPT !.pressed = pressed]]
          = WithFlags(now, pressed, now.ui.isScreenOn, now.ui.isScreenTimeoutDisabled,
                      now.ui.isButtonPressTurningOnScreen)
    BY <1>2, <2>1 DEF States, UiStates, WithFlags
  <2> QED BY <2>1, <2>2 DEF now
<1> HIDE DEF s
<1>5. /\ Steady(s) /\ OnlyFlags(s, Now)
      /\ Flagged(s.ui, pressed, uiState.isScreenOn, uiState.isScreenTimeoutDisabled,
                 uiState.isButtonPressTurningOnScreen)
  BY <1>1, <1>2, <1>4, FlagsSet
\* Who still moves the door by hand has the right button down, and so the timeout waits.
<1>6. /\ Steady(r) /\ r.nvm = nvmSettings
      /\ HeldDown(r.ui)
  <2>1. CASE ~s.ui.isDoorBeingManuallyControlled /\ r = s
    BY <1>1, <1>5, <2>1 DEF HeldDown, OnlyFlags, SameRest
  <2>2. CASE button = "left" /\ r = s
    <3>1. "right" \in uiState.pressed => "right" \in pressed
      BY <2>2
    <3> HIDE DEF pressed, r
    <3> QED BY <1>1, <1>5, <2>2, <3>1 DEF HeldDown, Flagged, OnlyFlags, SameScreen, SameRest
  <2>3. CASE button = "right" /\ uiState.isButtonPressTurningOnScreen
    <3>1. r = s
      BY <2>3
    <3>2. ~s.ui.isDoorBeingManuallyControlled
      BY <1>1, <1>5, <2>3 DEF HeldDown, Flagged, OnlyFlags, SameScreen
    <3> QED BY <2>1, <3>1, <3>2
  <2>4. CASE /\ button = "right" /\ ~uiState.isButtonPressTurningOnScreen
             /\ s.ui.buttons = "uiInputIsUninitialised"
    <3>1. r = s
      BY <2>4 DEF OnReleased
    <3>2. ~s.ui.isDoorBeingManuallyControlled
      BY <1>5, <2>4, ButtonsTell DEF Steady, Asks, Dark, DoorScreens
    <3> QED BY <2>1, <3>1, <3>2
  <2>5. CASE /\ button = "right" /\ ~uiState.isButtonPressTurningOnScreen
             /\ s.ui.buttons # "uiInputIsUninitialised"
    <3>1. r = uiInputOnEnter(s)
      BY <2>5 DEF OnReleased
    <3> HIDE DEF r
    <3> QED BY <1>1, <1>5, <2>5, <3>1, OptionIsEntered
         DEF HeldDown, Shows, OnlyFlags, SameRest
  <2>6. button = "left" => r = s
    BY DEF OnReleased
  <2> QED BY <2>2, <2>3, <2>4, <2>5, <2>6
<1> HIDE DEF r
<1> DEFINE disabled == r.ui.isScreenTimeoutDisabled /\ goesOn
<1>7. /\ r \in States /\ r.ui.pressed \in Buttons /\ r.ui.isScreenOn \in BOOLEAN
      /\ r.ui.isButtonPressTurningOnScreen \in BOOLEAN /\ disabled \in BOOLEAN
  BY <1>6 DEF Steady, States, UiStates
<1>8. t = [r EXCEPT !.ui = [@ EXCEPT !.isScreenTimeoutDisabled = disabled]]
  BY DEF StartsTimeout
<1> HIDE DEF t, disabled
<1>9. /\ Steady(t) /\ OnlyFlags(t, r)
      /\ Flagged(t.ui, r.ui.pressed, r.ui.isScreenOn, disabled, r.ui.isButtonPressTurningOnScreen)
  <2>1. Steady(r)
    BY <1>6
  <2>2. t = WithFlags(r, r.ui.pressed, r.ui.isScreenOn, disabled, r.ui.isButtonPressTurningOnScreen)
    BY <1>7, <1>8 DEF States, UiStates, WithFlags
  <2> QED BY <1>7, <2>1, <2>2, FlagsSet
<1>10. HeldDown(t.ui)
  BY <1>6, <1>9 DEF disabled, HeldDown, Flagged, OnlyFlags, SameScreen
<1> QED BY <1>3, <1>6, <1>9, <1>10, NowBecomes DEF OnlyFlags, SameRest

\* Whoever is not moving the door may do as the screen's timeout does.
LEMMA ShownBecomes ==
    ASSUME NEW s, NEW t, Shows(t, s), Becomes(t)
    PROVE  IInv' /\ nvmSettings' = s.nvm
BY NowBecomes DEF Shows, HeldDown

LEMMA CalibrationModeIsShown ==
    ASSUME NEW s, Steady(s), s.ui.shown = "splash", s.ui.isCalibrationMode
    PROVE  Shows(uiCalibrationModeScreen(s), s)
<1> DEFINE t == uiCalibrationModeScreen(s)
<1>1. /\ s \in States /\ s.subscribed = {} /\ s.asked = "nothing"
      /\ ~s.ui.isDoorBeingManuallyControlled
  <2>1. s.asked \in {"nothing", "open", "close", "calibrate"}
    BY DEF Steady, States, Requests
  <2> QED BY <2>1 DEF Steady, Heard, Asks, DoorScreens
<1>2. t \in States
  <2>1. "calibrationMode" \in Screens
    BY DEF Screens, Dark
  <2> QED BY <1>1, <2>1, Members DEF uiCalibrationModeScreen, States, UiStates
<1>3. t.ui.shown = "calibrationMode" /\ t.ui.buttons = "uiInputIsUninitialised"
  BY <1>1 DEF uiCalibrationModeScreen, States, UiStates
<1>4. /\ t.ui.isDoorBeingManuallyControlled = s.ui.isDoorBeingManuallyControlled
      /\ t.ui.isCalibrationMode = s.ui.isCalibrationMode
      /\ t.ui.isInitialSetupRequired = s.ui.isInitialSetupRequired
  BY <1>1 DEF uiCalibrationModeScreen, States, UiStates
<1>5. SameRest(t, s) /\ t.subscribed = s.subscribed
  BY <1>1 DEF uiCalibrationModeScreen, States, SameRest
<1> HIDE DEF t
<1>6. Wired(t.ui)
  BY <1>3 DEF Wired, Dark, Menus, OnNext, DoorScreens
<1>7. Asks(t) /\ t.subscribed = Heard(t.ui.shown)
  BY <1>1, <1>3, <1>4, <1>5 DEF Asks, Heard, SameRest
<1>8. Settled(t)
  BY <1>4, <1>5 DEF Steady, Settled, SameRest
<1>9. SetsUp(t) /\ DatedIfEntered(t.ui)
  BY <1>3 DEF SetsUp, DatedIfEntered, Dark
<1> QED BY <1>1, <1>2, <1>4, <1>5, <1>6, <1>7, <1>8, <1>9 DEF Steady, Shows, SameRest, t

LEMMA SplashKeepsIInv ==
    ASSUME IInv, uiOnSplashScreenTimeout
    PROVE  IInv' /\ nvmSettings' = nvmSettings
<1> DEFINE now == Now
           s == [Now EXCEPT !.ui = [@ EXCEPT !.isScreenTimeoutDisabled = FALSE]]
           t == IF uiState.isCalibrationMode THEN uiCalibrationModeScreen(s)
                ELSE uiDateAndTimeEntryScreen(s)
<1>1. Steady(now) /\ now \in States /\ now.ui = uiState /\ now.nvm = nvmSettings
  BY NowIsSteady
<1>2. uiState.shown = "splash" /\ Becomes(t)
  BY DEF uiOnSplashScreenTimeout
<1>3. s = [now EXCEPT !.ui = [@ EXCEPT !.isScreenTimeoutDisabled = FALSE]]
  OBVIOUS
<1> HIDE DEF now, s
<1>4. Steady(s) /\ OnlyFlags(s, now)
  <2>1. s = WithFlags(now, now.ui.pressed, now.ui.isScreenOn, FALSE,
                      now.ui.isButtonPressTurningOnScreen)
    BY <1>1, <1>3 DEF States, UiStates, WithFlags
  <2>2. /\ now.ui.pressed \in Buttons /\ now.ui.isScreenOn \in BOOLEAN
        /\ now.ui.isButtonPressTurningOnScreen \in BOOLEAN
    BY <1>1 DEF States, UiStates
  <2> QED BY <1>1, <2>1, <2>2, FlagsSet
<1>5. /\ s.ui.shown = "splash" /\ s.ui.isCalibrationMode = uiState.isCalibrationMode
      /\ s.nvm = nvmSettings
  BY <1>1, <1>2, <1>4 DEF OnlyFlags, SameScreen, SameRest
<1>6. CASE uiState.isCalibrationMode
  BY <1>2, <1>4, <1>5, <1>6, CalibrationModeIsShown, ShownBecomes
<1>7. CASE ~uiState.isCalibrationMode
  <2>1. Idle(s) /\ s.subscribed = {}
    <3>1. s.asked \in {"nothing", "open", "close", "calibrate"}
      BY <1>4 DEF Steady, States, Requests
    <3> QED BY <1>4, <1>5, <1>7, <3>1 DEF Steady, Idle, Asks, Heard, DoorScreens
  <2> QED BY <1>2, <1>5, <1>7, <2>1, DateEntryIsShown, ShownBecomes
<1> QED BY <1>6, <1>7

LEMMA TimeoutKeepsIInv ==
    ASSUME IInv, uiOnScreenTimeout
    PROVE  IInv' /\ nvmSettings' = nvmSettings
<1> DEFINE now == Now
           s == [Now EXCEPT !.ui = [@ EXCEPT !.isScreenOn = FALSE]]
<1>1. /\ Steady(now) /\ now \in States /\ HeldDown(uiState)
      /\ now.ui = uiState /\ now.nvm = nvmSettings
  BY NowIsSteady
<1>2. ~uiState.isScreenTimeoutDisabled /\ Becomes(s)
  BY DEF uiOnScreenTimeout
<1>3. s = [now EXCEPT !.ui = [@ EXCEPT !.isScreenOn = FALSE]]
  OBVIOUS
<1> HIDE DEF now, s
<1>4. Steady(s) /\ OnlyFlags(s, now)
  <2>1. s = WithFlags(now, now.ui.pressed, FALSE, now.ui.isScreenTimeoutDisabled,
                      now.ui.isButtonPressTurningOnScreen)
    BY <1>1, <1>3 DEF States, UiStates, WithFlags
  <2>2. /\ now.ui.pressed \in Buttons /\ now.ui.isScreenTimeoutDisabled \in BOOLEAN
        /\ now.ui.isButtonPressTurningOnScreen \in BOOLEAN
    BY <1>1 DEF States, UiStates
  <2> QED BY <1>1, <2>1, <2>2, FlagsSet
<1>5. ~s.ui.isDoorBeingManuallyControlled /\ s.nvm = nvmSettings
  BY <1>1, <1>2, <1>4 DEF HeldDown, OnlyFlags, SameScreen, SameRest
<1> QED BY <1>2, <1>4, <1>5, NowBecomes DEF HeldDown

LEMMA AbortKeepsIInv ==
    ASSUME IInv, CalibrationAborts
    PROVE  IInv' /\ nvmSettings' = nvmSettings
<1> DEFINE now == Now
           s == [Now EXCEPT !.asked = "nothing"]
<1>1. Steady(now) /\ now \in States /\ HeldDown(uiState) /\ now.ui = uiState /\ now.nvm = nvmSettings
  BY NowIsSteady
<1>2. Becomes(s)
  BY DEF CalibrationAborts
<1>3. s = [now EXCEPT !.asked = "nothing"]
  OBVIOUS
<1> HIDE DEF now, s
<1>4. s \in States
  BY <1>1, <1>3 DEF States, Requests
<1>5. /\ s.ui = uiState /\ s.settings = now.settings /\ s.nvm = now.nvm /\ s.asked = "nothing"
      /\ s.subscribed = now.subscribed /\ s.since = now.since
  BY <1>1, <1>3 DEF States
<1>6. Steady(s)
  BY <1>1, <1>4, <1>5 DEF Steady, Asks, Settled, SetsUp
<1> QED BY <1>1, <1>2, <1>5, <1>6, NowBecomes

LEMMA PowerFailsKeepsIInv ==
    ASSUME IInv, PowerFails
    PROVE  IInv' /\ nvmSettings' = nvmSettings
<1>1. nvmSettings \in Settings
  <2>1. Now \in States /\ Now.nvm = nvmSettings
    BY NowIsSteady
  <2> QED BY <2>1 DEF States
<1> QED BY <1>1, BootedIsSteady, NowBecomes DEF PowerFails

\* The record once the door has told how high it is.
LEMMA MeasuredIsIdle ==
    ASSUME IInv, asked = "calibrate", NEW height \in Heights
    PROVE  LET r == Measured(height)
           IN /\ Idle(r) /\ r.subscribed = {} /\ r.nvm = nvmSettings
              /\ r.ui.isInitialSetupRequired = uiState.isInitialSetupRequired
              /\ r.ui.onPreEnter = NoFunction \/ r.ui.selectedOptionIndex = 2
              /\ uiState.isInitialSetupRequired =>
                    since = {"clock", "location"} /\ nvmSettings.height < 128
<1> DEFINE now == Now
           r == Measured(height)
<1>1. /\ Steady(now) /\ now \in States /\ HeldDown(uiState)
      /\ now.ui = uiState /\ now.nvm = nvmSettings /\ now.asked = asked /\ now.since = since
  BY NowIsSteady
<1>2. r = [now EXCEPT !.ui = [@ EXCEPT !.isScreenTimeoutDisabled = FALSE], !.asked = "nothing",
                      !.subscribed = @ \ {"DOOR_CALIBRATED"},
                      !.settings = [@ EXCEPT !.height = height]]
  BY DEF Measured
<1>3. height \in Nat
  <2>1. height \in 0 .. 2^16 - 1
    BY UiAssumption
  <2>2. \A last : \A number \in 0 .. last : number \in Nat
    OBVIOUS
  <2> QED BY <2>1, <2>2, Zenon
<1> HIDE DEF now, r
<1>4. now.ui.shown = "calibrating"
  BY <1>1 DEF Steady, Asks
<1>5. now.subscribed = {"DOOR_CALIBRATED"} /\ ~now.ui.isCalibrationMode
  BY <1>1, <1>4 DEF Steady, Heard, SetsUp
<1>6. /\ ~now.ui.isDoorBeingManuallyControlled
      /\ ~now.ui.isButtonPressPreventedFromTurningOnScreen
      /\ now.ui.onPreEnter = NoFunction \/ now.ui.selectedOptionIndex = 2
  BY <1>1, <1>4 DEF Steady, Asks, Wired, DoorScreens
<1>7. r \in States
  <2>1. "nothing" \in Requests /\ {} \in Subscriptions
    BY DEF Requests, Subscriptions
  <2>2. now.subscribed \ {"DOOR_CALIBRATED"} = {}
    BY <1>5
  <2> QED BY <1>1, <1>2, <1>3, <2>1, <2>2 DEF States, UiStates, Settings
<1>8. /\ r.nvm = now.nvm /\ r.asked = "nothing" /\ r.subscribed = {}
      /\ r.settings.isCalibrationRequired = now.settings.isCalibrationRequired
  BY <1>1, <1>2, <1>5 DEF States, Settings
<1>9. /\ r.ui.isCalibrationMode = now.ui.isCalibrationMode
      /\ r.ui.isInitialSetupRequired = now.ui.isInitialSetupRequired
      /\ r.ui.isDoorBeingManuallyControlled = now.ui.isDoorBeingManuallyControlled
      /\ r.ui.isButtonPressPreventedFromTurningOnScreen
            = now.ui.isButtonPressPreventedFromTurningOnScreen
      /\ r.ui.onPreEnter = now.ui.onPreEnter
      /\ r.ui.selectedOptionIndex = now.ui.selectedOptionIndex
  BY <1>1, <1>2 DEF States, UiStates
<1>10. Settled(now)
  BY <1>1 DEF Steady
<1>11. Idle(r)
  BY <1>5, <1>6, <1>7, <1>8, <1>9, <1>10 DEF Idle, Settled
<1>12. uiState.isInitialSetupRequired =>
         since = {"clock", "location"} /\ nvmSettings.height < 128
  BY <1>1, <1>4, <1>10 DEF Settled, Steady, SetsUp
<1> QED BY <1>1, <1>6, <1>8, <1>9, <1>11, <1>12 DEF r

LEMMA ErasedIsARow == Erased \in Settings
<1>1. 2^16 - 1 \in Nat
  OBVIOUS
<1>2. {"isManuallyOverridden", "isSunEventDriven", "isTimeDriven"} \in Modes
  BY DEF Modes
<1> QED BY <1>1, <1>2 DEF Erased, Settings

\* Whatever becomes of the row, the initial setup has been completed, or is to be gone
\* through again.
LEMMA CompletedIsSteady ==
    ASSUME NEW r, Idle(r), r.subscribed = {},
           r.ui.onPreEnter = NoFunction \/ r.ui.selectedOptionIndex = 2,
           NEW s \in uiOnSystemInitialSetupCompleted(r)
    PROVE  Steady(s) /\ HeldDown(s.ui)
<1> DEFINE q == [r EXCEPT !.ui = [@ EXCEPT !.isInitialSetupRequired = FALSE]]
           t == uiDateAndTimeStatusScreen(q)
<1>1. r \in States
  BY DEF Idle
<1>2. q \in States
  BY <1>1 DEF States, UiStates
<1>3. /\ q.ui.isCalibrationMode = r.ui.isCalibrationMode
      /\ ~q.ui.isInitialSetupRequired
      /\ q.ui.isDoorBeingManuallyControlled = r.ui.isDoorBeingManuallyControlled
      /\ q.ui.isButtonPressPreventedFromTurningOnScreen
            = r.ui.isButtonPressPreventedFromTurningOnScreen
      /\ q.ui.onPreEnter = r.ui.onPreEnter
      /\ q.ui.selectedOptionIndex = r.ui.selectedOptionIndex
  BY <1>1 DEF States, UiStates
<1>4. SameRest(q, r) /\ q.subscribed = r.subscribed
  BY <1>1 DEF States, SameRest
<1>5. s \in {[t EXCEPT !.nvm = t.settings], t, Booted(Erased)}
  BY DEF uiOnSystemInitialSetupCompleted, nvmSettingsStore
<1> HIDE DEF q
<1>6. Idle(q)
  BY <1>2, <1>3, <1>4 DEF Idle, Settled, SameRest
<1>7. Shows(t, q)
  BY <1>3, <1>4, <1>6, StatusIsShown
<1>8. ~t.ui.isInitialSetupRequired
  BY <1>2, <1>3 DEF uiDateAndTimeStatusScreen, States, UiStates
<1> HIDE DEF t
<1>9. Steady(t) /\ HeldDown(t.ui)
  BY <1>7 DEF Shows, HeldDown
<1>10. CASE s = [t EXCEPT !.nvm = t.settings]
  <2>1. t \in States
    BY <1>9 DEF Steady
  <2>2. s \in States
    BY <1>10, <2>1 DEF States
  <2>3. /\ s.ui = t.ui /\ s.settings = t.settings /\ s.nvm = t.settings /\ s.asked = t.asked
        /\ s.subscribed = t.subscribed /\ s.since = t.since
    BY <1>10, <2>1 DEF States
  <2>4. Settled(s)
    BY <1>8, <1>9, <2>3 DEF Steady, Settled
  <2> QED BY <1>9, <2>2, <2>3, <2>4 DEF Steady, Asks, SetsUp
<1>11. CASE s = t
  BY <1>9, <1>11
<1>12. CASE s = Booted(Erased)
  BY <1>12, ErasedIsARow, BootedIsSteady
<1> QED BY <1>5, <1>10, <1>11, <1>12

LEMMA CalibratedKeepsIInv ==
    ASSUME IInv, uiDoorOnCalibrated
    PROVE  /\ IInv'
           /\ \/ nvmSettings' = nvmSettings
              \/ since = {"clock", "location"} /\ nvmSettings.height < 128
<1>1. PICK height \in Heights : \E s \in CalibratedTo(height) : Becomes(s)
  BY DEF uiDoorOnCalibrated
<1>2. PICK s \in CalibratedTo(height) : Becomes(s)
  BY <1>1
<1> DEFINE r == Measured(height)
<1>3. /\ Idle(r) /\ r.subscribed = {} /\ r.nvm = nvmSettings
      /\ r.ui.isInitialSetupRequired = uiState.isInitialSetupRequired
      /\ r.ui.onPreEnter = NoFunction \/ r.ui.selectedOptionIndex = 2
      /\ uiState.isInitialSetupRequired =>
            since = {"clock", "location"} /\ nvmSettings.height < 128
  BY MeasuredIsIdle DEF uiDoorOnCalibrated
<1>4. CASE uiState.isInitialSetupRequired
  <2>1. s \in uiOnSystemInitialSetupCompleted(r)
    BY <1>4 DEF CalibratedTo
  <2> HIDE DEF r
  <2>2. Steady(s) /\ HeldDown(s.ui)
    BY <1>3, <2>1, CompletedIsSteady
  <2> QED BY <1>2, <1>3, <1>4, <2>2, NowBecomes
<1>5. CASE ~uiState.isInitialSetupRequired
  <2>1. s = uiDateAndTimeStatusScreen(r)
    BY <1>5 DEF CalibratedTo
  <2> HIDE DEF r
  <2>2. Shows(s, r)
    BY <1>3, <1>5, <2>1, StatusIsShown
  <2> QED BY <1>2, <1>3, <2>2, ShownBecomes
<1> QED BY <1>4, <1>5
-----------------------------------------------------------------------------
(***************************************************************************)
(* The invariant, and what follows from it.                                *)
(***************************************************************************)
LEMMA InitKeepsIInv == Init => IInv
<1> SUFFICES ASSUME Init PROVE IInv
  OBVIOUS
<1>1. PICK isCalibrationRequired \in BOOLEAN :
        LET booted == Booted(Factory(isCalibrationRequired)) IN
        /\ uiState = booted.ui
        /\ uiNvmSettings = booted.settings
        /\ nvmSettings = booted.nvm
        /\ asked = booted.asked
        /\ subscribed = booted.subscribed
        /\ since = booted.since
  BY DEF Init
<1> DEFINE s == Booted(Factory(isCalibrationRequired))
<1>2. Factory(isCalibrationRequired) \in Settings
  <2>1. {"isManuallyOverridden"} \in Modes
    BY DEF Modes
  <2> QED BY <2>1 DEF Factory, Settings
<1>3. Steady(s) /\ HeldDown(s.ui)
  BY <1>2, BootedIsSteady
<1>4. s = [ui |-> s.ui, settings |-> s.settings, nvm |-> s.nvm, asked |-> s.asked,
           subscribed |-> s.subscribed, since |-> s.since]
  BY DEF Booted
<1> HIDE DEF s
<1>5. Now = s
  BY <1>1, <1>4 DEF Now, s
<1>6. uiState = s.ui
  BY <1>1 DEF s
<1> QED BY <1>3, <1>5, <1>6 DEF IInv

LEMMA NextKeepsIInv ==
    ASSUME IInv, Next
    PROVE  /\ IInv'
           /\ \/ nvmSettings' = nvmSettings
              \/ since = {"clock", "location"} /\ nvmSettings.height < 128
<1>1. ASSUME NEW button \in {"left", "right"}, uiInputOnButtonsPressed(button)
      PROVE  IInv' /\ nvmSettings' = nvmSettings
  BY <1>1, PressedKeepsIInv
<1>2. ASSUME NEW button \in {"left", "right"}, uiInputOnButtonsReleased(button)
      PROVE  IInv' /\ nvmSettings' = nvmSettings
  BY <1>2, ReleasedKeepsIInv
<1>3. CASE uiOnSplashScreenTimeout
  BY <1>3, SplashKeepsIInv
<1>4. CASE uiOnScreenTimeout
  BY <1>4, TimeoutKeepsIInv
<1>5. CASE uiDoorOnCalibrated
  BY <1>5, CalibratedKeepsIInv
<1>6. CASE CalibrationAborts
  BY <1>6, AbortKeepsIInv
<1>7. CASE PowerFails
  BY <1>7, PowerFailsKeepsIInv
<1> QED BY <1>1, <1>2, <1>3, <1>4, <1>5, <1>6, <1>7 DEF Next

LEMMA StepKeepsIInv == IInv /\ [Next]_vars => IInv'
<1> SUFFICES ASSUME IInv, [Next]_vars PROVE IInv'
  OBVIOUS
<1>1. CASE Next
  BY <1>1, NextKeepsIInv
<1>2. CASE UNCHANGED vars
  <2>1. Now' = Now /\ uiState' = uiState
    BY <1>2 DEF vars, Now
  <2> QED BY <2>1 DEF IInv
<1> QED BY <1>1, <1>2

\* What the screens, the settings and the door are to each other: every screen sets the
\* pointers that the next press and release go through, or leaves ones that do no harm
\* (IInv above), whatever digits and heights there are.
THEOREM ScreensAreWired == Spec => []IInv
BY InitKeepsIInv, StepKeepsIInv, PTL DEF Spec

\* Digit by digit, through ranges that the digits before narrow, nobody can enter a date
\* or a time that there is not (UiDateAndTimeScreen.c:128), for all digits that there are.
THEOREM RealDatesAreEntered == Spec => []EnteredDatesAreReal
<1>1. IInv => EnteredDatesAreReal
  <2> SUFFICES ASSUME IInv, uiState.shown = "uiDateAndTimeEntryScreen"
               PROVE  /\ uiState.cursorPosition > 6 => EnteredMonth(uiState) \in 1 .. 12
                      /\ uiState.cursorPosition > 8 =>
                           EnteredDay(uiState)
                             \in 1 .. MonthLength(EnteredMonth(uiState), EnteredYear(uiState))
                      /\ uiState.cursorPosition > 11 => EnteredHour(uiState) < 24
                      /\ EnteredMinute(uiState) < 60
    BY DEF EnteredDatesAreReal
  <2> DEFINE ui == uiState
             c == uiState.cursorPosition
  <2>1. /\ Dated(ui) /\ ui.digits \in Rows /\ ui.min \in 0 .. 9 /\ ui.max \in 0 .. 9
    <3>1. Steady(Now) /\ Now \in States /\ Now.ui = uiState
      BY NowIsSteady
    <3> QED BY <3>1 DEF Steady, DatedIfEntered, States, UiStates, Digits
  <2>2. /\ \A place \in 0 .. 15 : ui.digits[place] \in 0 .. 9
        /\ EnteredDay(ui) = 10 * ui.digits[8] + ui.digits[9]
        /\ EnteredHour(ui) = 10 * ui.digits[11] + ui.digits[12]
        /\ EnteredMinute(ui) = 10 * ui.digits[14] + ui.digits[15]
        /\ EnteredYear(ui) \in 0 .. 99
    BY <2>1, Entered
  <2>3. c \in DatePlaces /\ ui.digits[c] >= ui.min /\ ui.digits[c] <= ui.max
    <3>1. c \in DatePlaces /\ ui.digits[c] \in ui.min .. ui.max
      BY <2>1 DEF Dated
    <3> QED BY <2>1, <3>1
  <2>4. c > 6 => EnteredMonth(ui) \in 1 .. 12
    BY <2>1 DEF Dated
  <2>5. c > 8 => EnteredDay(ui) \in 1 .. MonthLength(EnteredMonth(ui), EnteredYear(ui))
    <3>1. c > 9 => EnteredDay(ui) \in 1 .. MonthLength(EnteredMonth(ui), EnteredYear(ui))
      BY <2>1 DEF Dated
    <3>2. ASSUME c = 9
          PROVE  EnteredDay(ui) \in 1 .. MonthLength(EnteredMonth(ui), EnteredYear(ui))
      <4>1. /\ 10 * ui.digits[8] + ui.min >= 1
            /\ 10 * ui.digits[8] + ui.max <= MonthLength(EnteredMonth(ui), EnteredYear(ui))
        BY <2>1, <3>2 DEF Dated
      <4>2. MonthLength(EnteredMonth(ui), EnteredYear(ui)) \in 28 .. 31
        BY <2>2, <2>4, <3>2, MonthsAgree
      <4>3. /\ ui.digits[8] \in 0 .. 9 /\ ui.digits[9] \in 0 .. 9
            /\ ui.digits[9] >= ui.min /\ ui.digits[9] <= ui.max
        BY <2>2, <2>3, <3>2
      <4> HIDE DEF ui
      <4> QED BY <2>1, <2>2, <4>1, <4>2, <4>3
    <3>3. c > 8 => c = 9 \/ c > 9
      BY <2>3 DEF DatePlaces
    <3> QED BY <3>1, <3>2, <3>3
  <2>6. c > 11 => EnteredHour(ui) < 24
    <3>1. c > 12 => EnteredHour(ui) < 24
      BY <2>1 DEF Dated
    <3>2. ASSUME c = 12 PROVE EnteredHour(ui) < 24
      <4>1. 10 * ui.digits[11] + ui.max < 24
        BY <2>1, <3>2 DEF Dated
      <4>2. /\ ui.digits[11] \in 0 .. 9 /\ ui.digits[12] \in 0 .. 9
            /\ ui.digits[12] <= ui.max
        BY <2>2, <2>3, <3>2
      <4> HIDE DEF ui
      <4> QED BY <2>1, <2>2, <4>1, <4>2
    <3>3. c > 11 => c = 12 \/ c > 12
      BY <2>3 DEF DatePlaces
    <3> QED BY <3>1, <3>2, <3>3
  <2>7. EnteredMinute(ui) < 60
    <3>1. /\ c = 15 => ui.digits[14] <= 5
          /\ c = 14 => ui.max = 5 /\ ui.digits[15] = 0
          /\ c < 14 => ui.digits[14] = 0 /\ ui.digits[15] = 0
      BY <2>1, <2>3 DEF Dated, DatePlaces
    <3>2. c < 14 \/ c = 14 \/ c = 15
      BY <2>3 DEF DatePlaces
    <3>3. ui.digits[14] \in 0 .. 9 /\ ui.digits[15] \in 0 .. 9
      BY <2>2
    <3>4. ui.digits[14] <= 5
      BY <2>3, <3>1, <3>2, <3>3
    <3> HIDE DEF ui
    <3> QED BY <2>2, <3>3, <3>4
  <2> QED BY <2>4, <2>5, <2>6, <2>7
<1> QED BY <1>1, ScreensAreWired, PTL

\* However the buttons overlap and whatever pointers the screens before have left, the door
\* moves by hand while the right button is held down on its lit screen, stands still while
\* it is being calibrated, and does nothing in calibration mode.
THEOREM DoorIsHeldByHand == Spec => []DoorMovesOnlyWhileHeld
<1>1. IInv => DoorMovesOnlyWhileHeld
  <2> SUFFICES ASSUME IInv PROVE DoorMovesOnlyWhileHeld
    OBVIOUS
  <2>1. /\ Steady(Now) /\ Now \in States /\ HeldDown(uiState)
        /\ Now.ui = uiState /\ Now.nvm = nvmSettings /\ Now.asked = asked
    BY NowIsSteady
  <2>2. asked \in {"open", "close"} =>
          /\ "right" \in uiState.pressed /\ uiState.isScreenOn
          /\ uiState.shown \in DoorScreens
    BY <2>1 DEF Steady, Asks, HeldDown
  <2>3. asked = "calibrate" =>
          uiState.shown = "calibrating" /\ uiState.buttons = "uiInputIsUninitialised"
    BY <2>1 DEF Steady, Asks, Wired, Dark
  <2>4. nvmSettings.isCalibrationRequired => asked = "nothing"
    <3>1. nvmSettings.isCalibrationRequired => uiState.shown \in {"splash", "calibrationMode"}
      BY <2>1 DEF Steady, Settled, SetsUp
    <3>2. asked \in {"nothing", "open", "close", "calibrate"}
      BY <2>1 DEF States, Requests
    <3> QED BY <2>2, <2>3, <3>1, <3>2 DEF DoorScreens
  <2> QED BY <2>2, <2>3, <2>4 DEF DoorMovesOnlyWhileHeld, DoorScreens
<1> QED BY <1>1, ScreensAreWired, PTL

\* The screen listens for just what it shows, by whichever way it was come to and left.
THEOREM ScreenIsHeardRight == Spec => []HearsWhatItShows
<1>1. IInv => HearsWhatItShows
  <2> SUFFICES ASSUME IInv PROVE HearsWhatItShows
    OBVIOUS
  <2>1. Steady(Now) /\ Now.ui = uiState /\ Now.subscribed = subscribed
    BY NowIsSteady
  <2> QED BY <2>1 DEF Steady, Heard, HearsWhatItShows
<1> QED BY <1>1, ScreensAreWired, PTL

\* The row of flash is written once, by the calibration that ends an initial setup in which
\* everything has been entered since power came up; a unit that is set up stays so through
\* any loss of power and any failure to write (NvmSettings.c:67).
THEOREM SetUpIsNotForgotten == Spec => SetUpOnceForAll
<1> DEFINE A == /\ nvmSettings' \in {nvmSettings, Erased} \/ since = {"clock", "location"}
                /\ IsSetUp(nvmSettings) => IsSetUp(nvmSettings')
<1>1. IInv /\ [Next]_vars => [A]_vars
  <2> SUFFICES ASSUME IInv, Next PROVE A
    OBVIOUS
  <2>1. \/ nvmSettings' = nvmSettings
        \/ since = {"clock", "location"} /\ nvmSettings.height < 128
    BY NextKeepsIInv
  <2>2. nvmSettings.height \in Nat
    <3>1. Now \in States /\ Now.nvm = nvmSettings
      BY NowIsSteady
    <3> QED BY <3>1 DEF States, Settings
  <2>3. nvmSettings.height < 128 => ~IsSetUp(nvmSettings)
    BY <2>2 DEF IsSetUp
  <2> QED BY <2>1, <2>3
<1>2. Spec => [][A]_vars
  BY <1>1, ScreensAreWired, PTL DEF Spec
<1> QED BY <1>2 DEF SetUpOnceForAll
=============================================================================
