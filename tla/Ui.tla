--------------------------------- MODULE Ui ---------------------------------
(***************************************************************************)
(* Ui/: the screens, what the two buttons do on each, and the settings that*)
(* come of it (Platform/NvmSettings.c).  A screen is a function that sets  *)
(* the text, the cursor and the pointers through which the next press and  *)
(* the next release are handled; a pointer that a screen leaves alone still*)
(* points where the last one put it.                                       *)
(*                                                                         *)
(* Pointers are the names of the functions.  Of the text `shown' is what it*)
(* is and `digits' are the ones that can be entered, by their place on the *)
(* second line, with 0 for '+' and 1 for '-'.  A handler is an operator on *)
(* the record of all that it may change.  How the screen is drawn, and when*)
(* the buttons' events come, is module Screen's business; what the door    *)
(* makes of what it is asked is module DoorSystem's.                       *)
(*                                                                         *)
(* `since' is a history variable: what was entered since power came up.    *)
(***************************************************************************)
EXTENDS Calendar, Sequences

CONSTANTS
    Heights,            \* the heights, in pulses, that a calibration may measure
    DateDigits,         \* the digits that somebody enters at each place of a date...
    LocationDigits      \* ...and of a location

DatePlaces == {2, 3, 5, 6, 8, 9, 11, 12, 14, 15}
LocationPlaces == {1, 2, 4, 6, 7, 8, 10}

ASSUME UiAssumption ==
    /\ Heights \subseteq 0 .. 2^16 - 1
    /\ DateDigits \in [DatePlaces -> SUBSET (0 .. 9)]
    /\ LocationDigits \in [LocationPlaces -> SUBSET (0 .. 9)]

VARIABLES
    uiState,
    uiNvmSettings,      \* a copy in RAM, made when power comes up
    nvmSettings,        \* the row of flash
    asked,              \* what the door was last asked to do, until told to stop
    subscribed,         \* to the two events that come and go
    since               \* history, see above

vars == <<uiState, uiNvmSettings, nvmSettings, asked, subscribed, since>>

Factory(isCalibrationRequired) ==
    [isCalibrationRequired |-> isCalibrationRequired, height |-> 0,
     mode |-> {"isManuallyOverridden"}, latitudeOffset |-> 0, longitudeOffset |-> 0]

\* The row once it has been erased.
Erased ==
    [isCalibrationRequired |-> TRUE, height |-> 2^16 - 1,
     mode |-> {"isManuallyOverridden", "isSunEventDriven", "isTimeDriven"},
     latitudeOffset |-> -1, longitudeOffset |-> -1]

NoCursor == 34
NoFunction == "0"
NoDigits == [place \in 0 .. 15 |-> 0]

\* Power comes up: uiInitialise(), and uiOnSystemInitialised() with its splash screen.
Booted(nvm) ==
    [ui |->
        [isCalibrationMode |-> nvm.isCalibrationRequired,
         isInitialSetupRequired |-> nvm.height < 128,
         isScreenOn |-> TRUE, isScreenTimeoutDisabled |-> TRUE,
         pressed |-> {},
         isButtonPressPreventedFromTurningOnScreen |-> FALSE,
         isButtonPressTurningOnScreen |-> FALSE,
         isDoorBeingManuallyControlled |-> FALSE, isDoorBeingCalibrated |-> FALSE,
         shown |-> "splash", digits |-> NoDigits, cursorPosition |-> NoCursor,
         min |-> 0, max |-> 0, optionPlaces |-> <<>>, selectedOptionIndex |-> 0,
         buttons |-> "uiInputIsUninitialised",
         onPreEnter |-> NoFunction, onEnter |-> NoFunction],
     settings |-> nvm, nvm |-> nvm, asked |-> "nothing", subscribed |-> {}, since |-> {}]

Becomes(s) ==
    /\ uiState' = s.ui
    /\ uiNvmSettings' = s.settings
    /\ nvmSettings' = s.nvm
    /\ asked' = s.asked
    /\ subscribed' = s.subscribed
    /\ since' = s.since

Now == [ui |-> uiState, settings |-> uiNvmSettings, nvm |-> nvmSettings, asked |-> asked,
        subscribed |-> subscribed, since |-> since]

Init ==
    \E isCalibrationRequired \in BOOLEAN :
        LET booted == Booted(Factory(isCalibrationRequired)) IN
        /\ uiState = booted.ui
        /\ uiNvmSettings = booted.settings
        /\ nvmSettings = booted.nvm
        /\ asked = booted.asked
        /\ subscribed = booted.subscribed
        /\ since = booted.since
-----------------------------------------------------------------------------
(***************************************************************************)
(* Menus.                                                                  *)
(***************************************************************************)
OnNext ==
    [uiDateAndTimeEntryMenuScreen |-> "uiDoorCalibrationMenuScreen",
     uiDoorControlMenuScreen |-> "uiDoorCalibrationMenuScreen",
     uiDoorCalibrationMenuScreen |-> "uiMenuSettingsBackMenuScreen",
     uiMenuSettingsBackMenuScreen |-> "uiDateAndTimeEntryMenuScreen"]

OnOk ==
    [uiDateAndTimeEntryMenuScreen |-> "uiDateAndTimeEntryScreen",
     uiDoorControlMenuScreen |-> "uiDoorControlScreen",
     uiDoorCalibrationMenuScreen |-> "uiDoorCalibrationScreen",
     uiMenuSettingsBackMenuScreen |-> "uiDateAndTimeStatusScreen"]

\* Mutant of uiMenuScreen: the pointer that the door's screens have set is left.
MenuScreenLeavingPreEnter(s, menu) ==
    [s EXCEPT !.ui = [@ EXCEPT
        !.shown = menu, !.cursorPosition = 11, !.optionPlaces = <<0, 11>>,
        !.selectedOptionIndex = 1, !.buttons = "uiInputIsOptions",
        !.onEnter = "uiMenuScreenOptionSelected"]]

uiMenuScreen(s, menu) ==
    [s EXCEPT !.ui = [@ EXCEPT
        !.shown = menu, !.cursorPosition = 11, !.optionPlaces = <<0, 11>>,
        !.selectedOptionIndex = 1, !.buttons = "uiInputIsOptions",
        !.onPreEnter = NoFunction, !.onEnter = "uiMenuScreenOptionSelected"]]
-----------------------------------------------------------------------------
(***************************************************************************)
(* The date and the time.                                                  *)
(***************************************************************************)
uiDateAndTimeEntryScreen(s) ==
    [s EXCEPT !.ui = [@ EXCEPT
        !.shown = "uiDateAndTimeEntryScreen",
        !.digits = [NoDigits EXCEPT ![2] = 2], !.cursorPosition = 2,
        !.min = 2, !.max = 9, !.buttons = "uiInputIsRange",
        !.onEnter = "uiDateAndTimeScreenEnterNextDigit", !.onPreEnter = NoFunction]]

uiDateAndTimeStatusScreen(s) ==
    [s EXCEPT !.ui = [@ EXCEPT
                  !.shown = "uiDateAndTimeStatusScreen", !.digits = NoDigits,
                  !.cursorPosition = NoCursor, !.buttons = "uiInputIsStatusScreen",
                  !.onEnter = "uiDateAndTimeScreenStatusExit"],
              !.subscribed = @ \cup {"TIME_CHANGED"}]

\* Mutant of uiDateAndTimeScreenStatusExit: it goes on listening.
StatusExitStillListening(s) == uiMenuScreen(s, "uiDoorControlMenuScreen")

uiDateAndTimeScreenStatusExit(s) ==
    uiMenuScreen([s EXCEPT !.subscribed = @ \ {"TIME_CHANGED"}], "uiDoorControlMenuScreen")

uiScreenTwoDigitsFromPosition(digits, place) == 10 * digits[place] + digits[place + 1]

EnteredYear(ui) == uiScreenTwoDigitsFromPosition(ui.digits, 2)
EnteredMonth(ui) == uiScreenTwoDigitsFromPosition(ui.digits, 5)
EnteredDay(ui) == uiScreenTwoDigitsFromPosition(ui.digits, 8)
EnteredHour(ui) == uiScreenTwoDigitsFromPosition(ui.digits, 11)
EnteredMinute(ui) == uiScreenTwoDigitsFromPosition(ui.digits, 14)

\* The last digit of the last day of the month, in the decade in which it ends.
LastDigit(ui) == clockDaysInMonth(EnteredMonth(ui), EnteredYear(ui)) % 10

\* The range at a place of the date, once the ones before it have been entered.
DateRange(ui, place) ==
    CASE place \in {3, 15} -> <<0, 9>>
      [] place = 5 -> <<0, 1>>
      [] place = 6 -> IF ui.digits[5] = 1 THEN <<0, 2>> ELSE <<1, 9>>
      [] place = 8 -> <<0, IF EnteredMonth(ui) = 2 THEN 2 ELSE 3>>
      [] place = 9 -> IF ui.digits[8] = 0 THEN <<1, 9>>
                      ELSE IF ui.digits[8] = ui.max THEN <<0, LastDigit(ui)>>
                      ELSE <<0, ui.max>>
      [] place = 11 -> <<0, 2>>
      [] place = 12 -> <<0, IF ui.digits[11] = 2 THEN 3 ELSE 9>>
      [] place = 14 -> <<0, 5>>

\* The cursor goes on to the next place, past a separator.
NextPlace(places, ui) ==
    IF ui.cursorPosition + 1 \in places THEN ui.cursorPosition + 1 ELSE ui.cursorPosition + 2

GoesTo(s, place, range) ==
    [s EXCEPT !.ui = [@ EXCEPT !.cursorPosition = place, !.min = range[1], !.max = range[2],
                               !.digits = [s.ui.digits EXCEPT ![place] = range[1]]]]

uiLatitudeAndLongitudeEntryScreen(s) ==
    [s EXCEPT !.ui = [@ EXCEPT
        !.shown = "uiLatitudeAndLongitudeEntryScreen",
        !.digits = [NoDigits EXCEPT ![1] = 5], !.cursorPosition = 1,
        !.min = 5, !.max = 6, !.buttons = "uiInputIsRange",
        !.onEnter = "uiLatitudeAndLongitudeScreenEnterNextDigit", !.onPreEnter = NoFunction]]

ClockSet(s) ==
    LET set == [s EXCEPT !.since = @ \cup {"clock"}]
    IN IF s.ui.isInitialSetupRequired THEN uiLatitudeAndLongitudeEntryScreen(set)
       ELSE uiDateAndTimeStatusScreen(set)

uiDateAndTimeScreenEnterNextDigit(s) ==
    IF s.ui.cursorPosition = 15 THEN ClockSet(s)
    ELSE LET place == NextPlace(DatePlaces, s.ui)
         IN GoesTo(s, place, DateRange(s.ui, place))
-----------------------------------------------------------------------------
(***************************************************************************)
(* The door's screens.                                                     *)
(***************************************************************************)
uiDoorControlScreenWireInputAndDisplay(s) ==
    [s EXCEPT !.ui = [@ EXCEPT
        !.optionPlaces = <<0, 5, 11>>, !.cursorPosition = 0,
        !.selectedOptionIndex = 0, !.buttons = "uiInputIsOptions",
        !.onPreEnter = "uiDoorControlScreenOptionSelected",
        !.onEnter = "uiDoorControlScreenOptionAfterSelected"]]

uiDoorControlScreen(s) ==
    uiDoorControlScreenWireInputAndDisplay(
        [s EXCEPT !.ui = [@ EXCEPT !.shown = "uiDoorControlScreen",
                                   !.isDoorBeingCalibrated = FALSE]])

uiDoorCalibrationScreen(s) ==
    uiDoorControlScreenWireInputAndDisplay(
        [s EXCEPT !.ui = [@ EXCEPT !.shown = "uiDoorCalibrationScreen", !.digits = NoDigits,
                                   !.isDoorBeingCalibrated = TRUE]])

uiDoorControlScreenOptionSelected(s) ==
    IF s.ui.selectedOptionIndex = 2 THEN s
    ELSE [s EXCEPT !.asked = <<"open", "close">>[s.ui.selectedOptionIndex + 1],
                   !.ui = [@ EXCEPT !.isDoorBeingManuallyControlled = TRUE]]

\* The initial setup leaves the door to the sun.
WithMode(s) ==
    IF s.ui.isInitialSetupRequired
      THEN [s EXCEPT !.settings = [@ EXCEPT !.mode = {"isSunEventDriven"}]]
      ELSE s

Calibrates(s) ==
    [s EXCEPT !.ui = [@ EXCEPT
                  !.isDoorBeingCalibrated = FALSE, !.shown = "calibrating",
                  !.isScreenTimeoutDisabled = TRUE, !.buttons = "uiInputIsUninitialised",
                  !.cursorPosition = NoCursor],
              !.subscribed = @ \cup {"DOOR_CALIBRATED"}, !.asked = "calibrate"]

uiDoorControlScreenOptionAfterSelected(s) ==
    IF s.ui.isDoorBeingManuallyControlled
      THEN [s EXCEPT !.asked = "nothing",
                     !.ui = [@ EXCEPT !.isDoorBeingManuallyControlled = FALSE]]
    ELSE IF s.ui.selectedOptionIndex # 2 THEN s
    ELSE IF s.ui.isDoorBeingCalibrated THEN Calibrates(WithMode(s))
    ELSE uiDateAndTimeStatusScreen(WithMode(s))
-----------------------------------------------------------------------------
(***************************************************************************)
(* The location, which only the initial setup asks for.                    *)
(***************************************************************************)
LocationRange(ui, place) ==
    CASE place \in {2, 4} -> <<0, IF ui.digits[1] = 6 THEN 0 ELSE 9>>
      [] place \in {6, 7} -> <<0, 1>>
      [] place \in {8, 10} -> <<0, IF ui.digits[7] = 1 THEN 0 ELSE 9>>

uiScreenSignAndTwoDigitsFromPosition(digits, place) ==
    (IF digits[place] = 1 THEN -1 ELSE 1) * uiScreenTwoDigitsFromPosition(digits, place + 1)

\* In tenths of a degree.
uiDegreesFromScreenPosition(digits, place, origin) ==
    LET offset == 10 * (uiScreenSignAndTwoDigitsFromPosition(digits, place) - origin)
        fractionalDigit == digits[place + 4]
    IN IF offset < 0 THEN offset - fractionalDigit ELSE offset + fractionalDigit

uiLatitudeAndLongitudeScreenEnterNextDigit(s) ==
    LET place == NextPlace(LocationPlaces, s.ui)
        went == GoesTo(s, place, LocationRange(s.ui, place))
    IN CASE s.ui.cursorPosition = 4 ->
              [went EXCEPT
                !.ui = [@ EXCEPT !.buttons = "uiInputIsRangeOfTwo"],
                !.settings = [@ EXCEPT !.latitudeOffset =
                                            uiDegreesFromScreenPosition(s.ui.digits, 0, 55)]]
         [] s.ui.cursorPosition = 6 ->
              [went EXCEPT !.ui = [@ EXCEPT !.buttons = "uiInputIsRange"]]
         [] s.ui.cursorPosition = 10 ->
              uiDoorCalibrationScreen(
                [s EXCEPT
                    !.settings = [@ EXCEPT !.longitudeOffset =
                                                uiDegreesFromScreenPosition(s.ui.digits, 6, 0)],
                    !.since = @ \cup {"location"}])
         [] OTHER -> went
-----------------------------------------------------------------------------
(***************************************************************************)
(* The buttons.                                                            *)
(***************************************************************************)
Show(s, screen) ==
    CASE screen = "uiDateAndTimeEntryScreen" -> uiDateAndTimeEntryScreen(s)
      [] screen = "uiDateAndTimeStatusScreen" -> uiDateAndTimeStatusScreen(s)
      [] screen = "uiDoorControlScreen" -> uiDoorControlScreen(s)
      [] screen = "uiDoorCalibrationScreen" -> uiDoorCalibrationScreen(s)
      [] OTHER -> uiMenuScreen(s, screen)

uiMenuScreenOptionSelected(s) ==
    Show(s, IF s.ui.selectedOptionIndex = 0 THEN OnOk[s.ui.shown] ELSE OnNext[s.ui.shown])

uiInputOnPreEnter(s) ==
    IF s.ui.onPreEnter = NoFunction THEN s ELSE uiDoorControlScreenOptionSelected(s)

uiInputOnEnter(s) ==
    CASE s.ui.onEnter = "uiMenuScreenOptionSelected" -> uiMenuScreenOptionSelected(s)
      [] s.ui.onEnter = "uiDateAndTimeScreenEnterNextDigit" -> uiDateAndTimeScreenEnterNextDigit(s)
      [] s.ui.onEnter = "uiDateAndTimeScreenStatusExit" -> uiDateAndTimeScreenStatusExit(s)
      [] s.ui.onEnter = "uiLatitudeAndLongitudeScreenEnterNextDigit" ->
            uiLatitudeAndLongitudeScreenEnterNextDigit(s)
      [] s.ui.onEnter = "uiDoorControlScreenOptionAfterSelected" ->
            uiDoorControlScreenOptionAfterSelected(s)

WithDigit(s, digit) ==
    [s EXCEPT !.ui = [@ EXCEPT !.digits = [s.ui.digits EXCEPT ![s.ui.cursorPosition] = digit]]]

uiInputIncrementScreenCharacter(s) ==
    LET digit == s.ui.digits[s.ui.cursorPosition]
    IN WithDigit(s, IF digit + 1 > s.ui.max THEN s.ui.min ELSE digit + 1)

uiInputToggleScreenCharacter(s) ==
    WithDigit(s, IF s.ui.digits[s.ui.cursorPosition] = s.ui.max THEN s.ui.min ELSE s.ui.max)

uiInputMoveCursorToNextOption(s) ==
    LET next == (s.ui.selectedOptionIndex + 1) % Len(s.ui.optionPlaces)
    IN [s EXCEPT !.ui = [@ EXCEPT !.selectedOptionIndex = next,
                                  !.cursorPosition = s.ui.optionPlaces[next + 1]]]

LeftPressed(s) ==
    CASE s.ui.buttons = "uiInputIsRange" -> uiInputIncrementScreenCharacter(s)
      [] s.ui.buttons = "uiInputIsRangeOfTwo" -> uiInputToggleScreenCharacter(s)
      [] s.ui.buttons = "uiInputIsOptions" -> uiInputMoveCursorToNextOption(s)
      [] OTHER -> s

OnPressed(s, button) ==
    IF button = "left" THEN LeftPressed(s)
    ELSE IF s.ui.buttons = "uiInputIsUninitialised" THEN s
    ELSE uiInputOnPreEnter(s)

OnReleased(s, button) ==
    IF button = "left" \/ s.ui.buttons = "uiInputIsUninitialised" THEN s ELSE uiInputOnEnter(s)

uiInputOnButtonsPressed(button) ==
    LET s == [Now EXCEPT !.ui = [@ EXCEPT !.pressed = uiState.pressed \cup {button}]]
        counting == [s EXCEPT !.ui = [@ EXCEPT !.isScreenTimeoutDisabled = TRUE]]
    IN /\ button \notin uiState.pressed
       /\ IF uiState.isButtonPressPreventedFromTurningOnScreen
            THEN Becomes(OnPressed(s, button))
          ELSE IF ~uiState.isScreenOn
            THEN Becomes([counting EXCEPT
                    !.ui = [@ EXCEPT !.isScreenOn = TRUE, !.isButtonPressTurningOnScreen = TRUE]])
          ELSE Becomes(OnPressed([counting EXCEPT
                    !.ui = [@ EXCEPT !.isButtonPressTurningOnScreen = FALSE]], button))

\* A digit is entered when somebody has come to one that he wants.
IsWanted(ui) ==
    /\ ui.shown = "uiDateAndTimeEntryScreen"
        => ui.digits[ui.cursorPosition] \in DateDigits[ui.cursorPosition]
    /\ ui.shown = "uiLatitudeAndLongitudeEntryScreen"
        => ui.digits[ui.cursorPosition] \in LocationDigits[ui.cursorPosition]

StartsTimeout(s) ==
    LET goesOn == s.ui.isButtonPressPreventedFromTurningOnScreen \/ s.ui.pressed # {}
    IN [s EXCEPT !.ui = [@ EXCEPT !.isScreenTimeoutDisabled =
                                        s.ui.isScreenTimeoutDisabled /\ goesOn]]

uiInputOnButtonsReleased(button) ==
    LET s == [Now EXCEPT !.ui = [@ EXCEPT !.pressed = uiState.pressed \ {button}]]
    IN /\ button \in uiState.pressed
       /\ button = "right" => IsWanted(uiState)
       /\ Becomes(StartsTimeout(
            IF uiState.isButtonPressTurningOnScreen THEN s ELSE OnReleased(s, button)))
-----------------------------------------------------------------------------
(***************************************************************************)
(* What else happens.                                                      *)
(***************************************************************************)
uiCalibrationModeScreen(s) ==
    [s EXCEPT !.ui = [@ EXCEPT !.shown = "calibrationMode",
                               !.isButtonPressPreventedFromTurningOnScreen = TRUE,
                               !.buttons = "uiInputIsUninitialised"]]

uiOnSplashScreenTimeout ==
    LET s == [Now EXCEPT !.ui = [@ EXCEPT !.isScreenTimeoutDisabled = FALSE]]
    IN /\ uiState.shown = "splash"
       /\ Becomes(IF uiState.isCalibrationMode THEN uiCalibrationModeScreen(s)
                  ELSE uiDateAndTimeEntryScreen(s))

uiOnScreenTimeout ==
    /\ uiState.isScreenOn /\ ~uiState.isScreenTimeoutDisabled
    /\ Becomes([Now EXCEPT !.ui = [@ EXCEPT !.isScreenOn = FALSE]])

\* The row is erased, then written at once from its latches.  Either may fail, which the
\* caller does not look at, and power may fail between the two.
nvmSettingsStore(s) ==
    {[s EXCEPT !.nvm = s.settings], s, Booted(Erased)}

uiOnSystemInitialSetupCompleted(s) ==
    nvmSettingsStore(uiDateAndTimeStatusScreen(
        [s EXCEPT !.ui = [@ EXCEPT !.isInitialSetupRequired = FALSE]]))

Measured(height) ==
    [Now EXCEPT !.ui = [@ EXCEPT !.isScreenTimeoutDisabled = FALSE], !.asked = "nothing",
                !.subscribed = @ \ {"DOOR_CALIBRATED"},
                !.settings = [@ EXCEPT !.height = height]]

\* Mutant of CalibratedTo: every calibration is stored.
StoredAtOnce(height) == uiOnSystemInitialSetupCompleted(Measured(height))

CalibratedTo(height) ==
    IF uiState.isInitialSetupRequired THEN uiOnSystemInitialSetupCompleted(Measured(height))
    ELSE {uiDateAndTimeStatusScreen(Measured(height))}

uiDoorOnCalibrated ==
    /\ asked = "calibrate" /\ "DOOR_CALIBRATED" \in subscribed
    /\ \E height \in Heights : \E s \in CalibratedTo(height) : Becomes(s)

\* Of a calibration that is aborted nobody hears (DoorCalibrate.c:71).
CalibrationAborts ==
    /\ asked = "calibrate"
    /\ Becomes([Now EXCEPT !.asked = "nothing"])

PowerFails == Becomes(Booted(nvmSettings))

Next ==
    \/ \E button \in {"left", "right"} :
           uiInputOnButtonsPressed(button) \/ uiInputOnButtonsReleased(button)
    \/ uiOnSplashScreenTimeout \/ uiOnScreenTimeout
    \/ uiDoorOnCalibrated \/ CalibrationAborts \/ PowerFails

Spec == Init /\ [][Next]_vars
-----------------------------------------------------------------------------
(***************************************************************************)
(* Properties.                                                             *)
(***************************************************************************)

\* The date and time that clockSetNowGmt() is given are real, whichever way the digits
\* before have narrowed the ranges of the later ones (UiDateAndTimeScreen.c:128): module
\* Clock relies on it.
EnteredDatesAreReal ==
    uiState.shown = "uiDateAndTimeEntryScreen" =>
        /\ uiState.cursorPosition > 6 => EnteredMonth(uiState) \in 1 .. 12
        /\ uiState.cursorPosition > 8 =>
             EnteredDay(uiState) \in 1 .. MonthLength(EnteredMonth(uiState), EnteredYear(uiState))
        /\ uiState.cursorPosition > 11 => EnteredHour(uiState) < 24
        /\ EnteredMinute(uiState) < 60

\* By hand the door moves while the right button is held down and the screen that says
\* so is lit, however the buttons overlap and whatever pointers the screens before have
\* left; while it is being calibrated it cannot be moved; and in calibration mode, which
\* is where a row that was only erased leads, not at all.
DoorMovesOnlyWhileHeld ==
    /\ asked \in {"open", "close"} =>
         /\ "right" \in uiState.pressed /\ uiState.isScreenOn
         /\ uiState.shown \in {"uiDoorControlScreen", "uiDoorCalibrationScreen"}
    /\ asked = "calibrate" =>
         uiState.shown = "calibrating" /\ uiState.buttons = "uiInputIsUninitialised"
    /\ nvmSettings.isCalibrationRequired => asked = "nothing"

\* The screen listens for just what it shows: the time is not written over another
\* screen, nor the settings from another's calibration.
HearsWhatItShows ==
    subscribed = CASE uiState.shown = "uiDateAndTimeStatusScreen" -> {"TIME_CHANGED"}
                   [] uiState.shown = "calibrating" -> {"DOOR_CALIBRATED"}
                   [] OTHER -> {}

\* What is stored was all entered since power came up, and once a unit is set up no loss
\* of power (NvmSettings.c:67) or failure to write makes it forget.
IsSetUp(nvm) == nvm.height >= 128 /\ nvm # Erased

SetUpOnceForAll ==
    [][/\ nvmSettings' \in {nvmSettings, Erased} \/ since = {"clock", "location"}
       /\ IsSetUp(nvmSettings) => IsSetUp(nvmSettings')]_vars

\* "The UI is based on the assumption that one degree is 10 units and the fractional part
\* is a single unit" (UiLatitudeAndLongitudeScreen.c:12).
LocationIsAsEntered ==
    uiState.shown = "uiLatitudeAndLongitudeEntryScreen" /\ uiState.cursorPosition >= 6 =>
        uiNvmSettings.latitudeOffset =
            10 * (uiScreenTwoDigitsFromPosition(uiState.digits, 1) - 55) + uiState.digits[4]
=============================================================================
